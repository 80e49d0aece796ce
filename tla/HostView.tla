------------------------------ MODULE HostView ------------------------------
(***************************************************************************)
(* What a node promises the controllers that place workloads on it: the    *)
(* abstract specification that WorkloadHost implements and on which        *)
(* reconcile, settle_unsettled and mirror_states                           *)
(* (crates/clawft-kernel/src/workload_ctl/plane_*.rs) rest.                *)
(*                                                                         *)
(* A decision is in flight, then held as an instance or over.  A held      *)
(* instance goes because the node says so (told) or with a restart; after  *)
(* a restart only what was kept comes back, under its old decision, and    *)
(* before the node serves.                                                 *)
(***************************************************************************)
CONSTANTS Iid, Decision, None

VARIABLES
  serving,   \* the node answers requests
  handling,  \* decisions STATUS shows in flight
  holding,   \* the decision of each instance STATUS lists
  kept,      \* what a restart may bring back
  told       \* instances STATUS reports as departed

view == <<serving, handling, holding, kept, told>>

Nothing == [i \in Iid |-> None]

Init ==
  /\ serving = FALSE /\ handling = {}
  /\ holding = Nothing /\ kept = Nothing /\ told = {}

(* A request's handling begins; while the node restores, that of a kept    *)
(* decision.                                                               *)
Begin(d) ==
  /\ d \notin handling
  /\ serving \/ \E i \in Iid : kept[i] = d
  /\ handling' = handling \cup {d}
  /\ UNCHANGED <<serving, holding, kept, told>>

(* It is about to produce an instance, which is no longer reported as      *)
(* departed.                                                               *)
Reclaim(d, i) ==
  /\ d \in handling /\ holding[i] = None
  /\ told' = told \ {i}
  /\ UNCHANGED <<serving, handling, holding, kept>>

(* It has produced it, and is still in flight.                             *)
Take(d, i) ==
  /\ d \in handling /\ holding[i] = None /\ i \notin told
  /\ holding' = [holding EXCEPT ![i] = d]
  /\ UNCHANGED <<serving, handling, kept, told>>

(* It ends well: the instance is kept.                                     *)
Answer(d, i) ==
  /\ d \in handling /\ holding[i] = d
  /\ handling' = handling \ {d}
  /\ kept' = [kept EXCEPT ![i] = d]
  /\ UNCHANGED <<serving, holding, told>>

(* It fails, and what it produced goes with it.                            *)
Refuse(d) ==
  /\ d \in handling
  /\ handling' = handling \ {d}
  /\ holding' = [i \in Iid |-> IF holding[i] = d THEN None ELSE holding[i]]
  /\ UNCHANGED <<serving, kept, told>>

(* An instance is taken down: not kept, and reported.                      *)
Leave(i) ==
  /\ holding[i] # None
  /\ holding' = [holding EXCEPT ![i] = None]
  /\ kept' = [kept EXCEPT ![i] = None]
  /\ told' = told \cup {i}
  /\ UNCHANGED <<serving, handling>>

(* The node stops, serving or not; starts, restores or gives up what it    *)
(* kept, and serves.                                                       *)
Stop ==
  /\ serving' = FALSE /\ handling' = {} /\ holding' = Nothing /\ told' = {}
  /\ UNCHANGED kept

GiveUp(i) ==
  /\ ~serving /\ holding[i] = None
  /\ kept' = [kept EXCEPT ![i] = None]
  /\ UNCHANGED <<serving, handling, holding, told>>

Serve ==
  /\ ~serving /\ handling = {}
  /\ serving' = TRUE
  /\ UNCHANGED <<handling, holding, kept, told>>

Next ==
  \/ \E d \in Decision : Begin(d) \/ Refuse(d)
  \/ \E d \in Decision, i \in Iid : Reclaim(d, i) \/ Take(d, i) \/ Answer(d, i)
  \/ \E i \in Iid : Leave(i) \/ GiveUp(i)
  \/ Stop \/ Serve

Spec == Init /\ [][Next]_view
=============================================================================
