---------------------------- MODULE MCWorkloadHost ----------------------------
(* Model checking WorkloadHost: how much of each external event a run has. *)
EXTENDS WorkloadHost, TLC

Events(verb, bus_, exit, silence, revoke, unrevoke, status) ==
  [verb |-> verb, bus |-> bus_, exit |-> exit, silence |-> silence,
   revoke |-> revoke, unrevoke |-> unrevoke, status |-> status]

PlaceBudget == Events(2, 0, 0, 0, 0, 0, 1)
TaskBudget == Events(2, 1, 1, 1, 0, 0, 0)
RestartBudget == Events(3, 0, 1, 1, 0, 0, 0)
LiveBudget == Events(1, 0, 1, 0, 1, 1, 0)

Symmetry == Permutations(Decision)
==============================================================================
