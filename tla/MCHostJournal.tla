---------------------------- MODULE MCHostJournal ----------------------------
(* Model checking HostJournal by itself.                                   *)
EXTENDS HostJournal, TLC

Symmetry == Permutations(Iid)
==============================================================================
