-------------------------------- MODULE Plane --------------------------------
(***************************************************************************)
(* The placement controller                                                *)
(* (crates/clawft-kernel/src/workload_ctl/plane*.rs) and the nodes it      *)
(* places one workload on, over calls whose request or answer can be lost. *)
(*                                                                         *)
(*   disp[t]  a dispatch: of the operator's place (t = "op") or of the     *)
(*            lifecycle pass placing a lost instance again (t = "tick")    *)
(*   tick     lifecycle_tick: refresh, mirror_states, then the pass over   *)
(*            the placements                                               *)
(*   verb     an operator's STOP or UNLOAD                                 *)
(*                                                                         *)
(*   settling settle_unsettled, a decision at a time                       *)
(*                                                                         *)
(* A step is the code between two awaits; a call is the node's step and,   *)
(* apart from it, the controller's step that uses the answer.              *)
(*                                                                         *)
(* Abstractions.  There is one order, so a node derives one instance id    *)
(* from it and an instance is known by its node (holder_of and             *)
(* supersede_lost, about two ids of one order on a node, find nothing).    *)
(* Every reachable node suits the order and may win.  Time is              *)
(* nondeterministic: down[n] says whether dead_after has passed, a life's  *)
(* wait whether its backoff has not.  A node is what its STATUS shows and  *)
(* what PLACE, START, STOP and UNLOAD do to it (WorkloadHost is the        *)
(* detail), and a store that keeps the packages it fetched; a late PLACE   *)
(* is handled whenever the node comes to it, other requests when they are  *)
(* sent or never.  What membership says of a node is outside.              *)
(***************************************************************************)
EXTENDS Lifecycle, FiniteSets

CONSTANTS
  Node,            \* the targets
  Decision,        \* decision ids; one nobody refers to any more is used again
  None,            \* the absent value
  MaxReschedules,  \* LifecyclePolicy.max_reschedules
  Movable,         \* may the instance move (migratable and not pinned)
  Verbs,           \* what the operator asks for after a place
  Cached,          \* nodes whose store has the package from before
  Budget           \* bound on each kind of external event

Event == {"place", "verb", "settle", "cut", "lose", "refuse", "reboot", "crash",
          "vouch", "remove"}

(* An instance at its node, and a ControllerLife.                          *)
Copy == [dec : Decision, running : BOOLEAN, lease : BOOLEAN]
Life == [state : {"Running", "Stopped", "Lost", "Rescheduled"}, was : BOOLEAN,
         order : BOOLEAN, movable : BOOLEAN, resched : 0..MaxReschedules, wait : BOOLEAN]

ASSUME PlaneAssumption ==
  /\ Decision \subseteq Nat /\ MaxReschedules \in Nat
  /\ Movable \subseteq BOOLEAN /\ Cached \subseteq Node
  /\ Verbs \subseteq {"STOP", "UNLOAD"}
  /\ Budget \in [Event -> Nat]
  /\ None \notin Node /\ None \notin Decision
  /\ None \notin Copy /\ None \notin Life

VARIABLES
  \* the nodes and the network
  up,          \* nodes the controller can connect to
  held,        \* the instance each node lists
  departed,    \* nodes whose departed list names the instance
  reqs,        \* PLACE requests sent and not done with
  cached,      \* nodes whose store has the package
  \* outside
  vouched,     \* nodes membership holds healthy
  packaged,    \* the order's package directory is there
  \* the controller's memory
  placements,  \* nodes with a placement record
  lives,       \* the ControllerLife of each record
  unsettled,   \* decisions whose answer was lost and not reconciled
  reach,       \* targets marked reachable
  down,        \* down_since: "no", "down", or "dead" once dead_after passed
  file,        \* the state file
  disp, tick, verb, settling,   \* the tasks
  left,        \* what is left of the Budget
  \* history:
  cutOff,      \* decisions the controller was dispatching when it crashed
  stoppedAt,   \* where the operator's STOP was carried out, or None
  stopSeen,    \* and a tick of this controller has mirrored it
  late         \* decisions a node was asked about before the request came

nodes == <<up, held, departed, reqs, cached>>
outside == <<vouched, packaged>>
records == <<placements, lives, unsettled>>
contact == <<reach, down>>
tasks == <<disp, tick, verb, settling>>
ghosts == <<cutOff, stoppedAt, stopSeen>>
vars == <<nodes, outside, records, contact, file, tasks, left, ghosts, late>>

Task == {"op", "tick"}

Request == [dec : Decision, node : Node, phase : {"sent", "handling", "ok", "refused"}]

DispIdle == [pc |-> "idle", dec |-> None, todo |-> {}, node |-> None, avoid |-> {},
             first |-> FALSE, movable |-> FALSE, resched |-> 0]
TickIdle == [pc |-> "idle", todo |-> {}, node |-> None, row |-> "none", back |-> "none",
             dead |-> FALSE]
VerbIdle == [pc |-> "idle", method |-> "none", node |-> None]
SettleIdle == [pc |-> "idle", dec |-> None, node |-> None, holds |-> FALSE]

(* A decision at a node.                                                   *)
Unsettled == [dec : Decision, node : Node]

(* What STATUS with include_departed says of the instance.                 *)
Row == {"running", "stopped", "lease", "told", "missing"}
RowOf(n) ==
  IF held[n] = None THEN IF n \in departed THEN "told" ELSE "missing"
  ELSE IF held[n].lease THEN "lease"
  ELSE IF held[n].running THEN "running" ELSE "stopped"

(* A decision id nobody refers to.                                         *)
InUse ==
  {r.dec : r \in reqs} \cup {u.dec : u \in unsettled \cup file.unsettled}
    \cup {held[n].dec : n \in {m \in Node : held[m] # None}}
    \cup {disp[t].dec : t \in Task} \cup cutOff \cup {l.dec : l \in late}
Free == Decision \ InUse

(* The variables have their types; in particular an instance is moved no    *)
(* more often than max_reschedules allows (reschedule's blockers).          *)
TypeOK ==
  /\ up \subseteq Node /\ departed \subseteq Node
  /\ held \in [Node -> Copy \cup {None}]
  /\ reqs \subseteq Request /\ cached \subseteq Node
  /\ vouched \subseteq Node /\ packaged \in BOOLEAN
  /\ placements \subseteq Node /\ lives \in [Node -> Life \cup {None}]
  /\ unsettled \subseteq Unsettled
  /\ reach \subseteq Node /\ down \in [Node -> {"no", "down", "dead"}]
  /\ file.placements \subseteq Node /\ file.lives \in [Node -> Life \cup {None}]
  /\ file.unsettled \subseteq Unsettled
  /\ disp \in [Task ->
       [pc : {"idle", "next", "calling", "status", "unload", "placed", "failed"},
        dec : Decision \cup {None}, todo : SUBSET Node, node : Node \cup {None},
        avoid : SUBSET Node, first : BOOLEAN, movable : BOOLEAN, resched : 0..MaxReschedules]]
  /\ tick \in [pc : {"idle", "mirror", "row", "pass", "rejoin", "start", "started",
                     "orphan", "unloaded", "dispatch"},
               todo : SUBSET Node, node : Node \cup {None},
               row : Row \cup {"none", "ok", "unknown", "failed"},
               back : {"none", "mirror", "pass"}, dead : BOOLEAN]
  /\ verb \in [pc : {"idle", "answered"}, method : {"none", "STOP", "UNLOAD"},
               node : Node \cup {None}]
  /\ settling = SettleIdle \/ settling \in [pc : {"told"}, dec : Decision, node : Node, holds : BOOLEAN]
  /\ left \in [Event -> Nat]
  /\ cutOff \subseteq Decision /\ stoppedAt \in Node \cup {None} /\ stopSeen \in BOOLEAN
  /\ late \subseteq Unsettled
  /\ Free # {}

NoRecords == [placements |-> {}, lives |-> [n \in Node |-> None], unsettled |-> {}]

(* The targets are known; nothing is placed.                               *)
Init ==
  /\ up = Node /\ held = [n \in Node |-> None] /\ departed = {} /\ reqs = {}
  /\ cached = Cached /\ vouched = {} /\ packaged = TRUE
  /\ placements = {} /\ lives = [n \in Node |-> None] /\ unsettled = {}
  /\ reach = Node /\ down = [n \in Node |-> "no"]
  /\ file = NoRecords
  /\ disp = [t \in Task |-> DispIdle] /\ tick = TickIdle /\ verb = VerbIdle
  /\ settling = SettleIdle
  /\ left = Budget /\ cutOff = {} /\ stoppedAt = None /\ stopSeen = FALSE /\ late = {}

Spend(event) == left[event] > 0 /\ left' = [left EXCEPT ![event] = @ - 1]

-----------------------------------------------------------------------------
(* Parts of the controller's steps.                                        *)

(* Mutant of Persist: the unsettled decisions are not saved.               *)
PersistPlacementsOnly ==
  file' = [placements |-> placements', lives |-> lives', unsettled |-> {}]

(* persist: a snapshot of memory, written whole.                           *)
Persist == file' = [placements |-> placements', lives |-> lives', unsettled |-> unsettled']

(* ControllerLife::new for a fresh placement, and the life set_state makes *)
(* up for an instance that has none.                                       *)
FreshLife(movable, resched) ==
  [state |-> "Running", was |-> TRUE, order |-> TRUE, movable |-> movable,
   resched |-> resched, wait |-> FALSE]
LifeOf(n) ==
  IF lives[n] = None THEN [FreshLife(TRUE, 0) EXCEPT !.order = FALSE] ELSE lives[n]

(* Mutant of SetState: was_running is not taken when the node is lost.     *)
SetStateWasRunning(c, to, force) ==
  IF can_transition(c.state, to) \/ force THEN [c EXCEPT !.state = to] ELSE c

(* set_state: an illegal step is ignored unless the node reported it.      *)
SetState(c, to, force) ==
  [c EXCEPT !.state = IF can_transition(c.state, to) \/ force THEN to ELSE @,
            !.was = IF to = "Lost" THEN is_live(c.state) ELSE @]

(* forget_instances, and what a successful UNLOAD does to the records.     *)
ForgetRecord(n) ==
  /\ placements' = placements \ {n}
  /\ lives' = [lives EXCEPT ![n] = None]
  /\ UNCHANGED unsettled
  /\ IF n \in placements THEN Persist ELSE UNCHANGED file

-----------------------------------------------------------------------------
(* The nodes.                                                              *)

(* The call's own connection is open as long as its dispatch waits for it. *)
Open(r) ==
  \E t \in Task : disp[t].pc = "calling" /\ disp[t].dec = r.dec /\ disp[t].node = r.node

Answer(r, phase) ==
  reqs' = (reqs \ {r}) \cup (IF Open(r) THEN {[r EXCEPT !.phase = phase]} ELSE {})

(* The node comes to a request: in flight from here on.                    *)
NodeBegin(r) ==
  /\ r.phase = "sent"
  /\ reqs' = (reqs \ {r}) \cup {[r EXCEPT !.phase = "handling"]}
  /\ UNCHANGED <<up, held, departed, cached, left, outside, records, contact, file, tasks, ghosts,
                 late>>

(* It fetches the package over the call's connection, unless its store has *)
(* it.                                                                     *)
NodeFetch(r) ==
  /\ r.phase = "handling" /\ r.node \notin cached /\ Open(r)
  /\ cached' = cached \cup {r.node}
  /\ UNCHANGED <<up, held, departed, reqs, left, outside, records, contact, file, tasks, ghosts,
                 late>>

NodeLoad(r) ==
  /\ r.phase = "handling" /\ r.node \in cached /\ held[r.node] = None
  /\ held' = [held EXCEPT ![r.node] = [dec |-> r.dec, running |-> TRUE, lease |-> FALSE]]
  /\ departed' = departed \ {r.node}
  /\ Answer(r, "ok")
  /\ UNCHANGED <<up, cached, left, outside, records, contact, file, tasks, ghosts, late>>

(* Refused: no package, already loaded, or for reasons of the node's own.  *)
NodeRefuse(r) ==
  /\ r.phase = "handling"
  /\ IF held[r.node] # None \/ (r.node \notin cached /\ ~Open(r)) THEN UNCHANGED left
     ELSE Spend("refuse")
  /\ Answer(r, "refused")
  /\ UNCHANGED <<up, held, departed, cached, outside, records, contact, file, tasks, ghosts, late>>

(* The lease: a node that hears no controller stops what runs.             *)
NodeLease(n) ==
  /\ n \notin up /\ held[n] # None /\ held[n].running
  /\ held' = [held EXCEPT ![n].running = FALSE, ![n].lease = TRUE]
  /\ UNCHANGED <<up, departed, reqs, cached, left, outside, records, contact, file, tasks, ghosts,
                 late>>

(* A node restarts; its journal brings the instance back or it is lost.    *)
(* What it was handling and the departed list are gone, not the store.     *)
NodeReboot(n) ==
  /\ Spend("reboot")
  /\ \/ UNCHANGED held
     \/ held' = [held EXCEPT ![n] = None]
  /\ departed' = departed \ {n}
  /\ reqs' = {r \in reqs : r.node # n}
  /\ UNCHANGED <<up, cached, outside, records, contact, file, tasks, ghosts, late>>

Cut(n) ==
  /\ n \in up /\ Spend("cut")
  /\ up' = up \ {n}
  /\ UNCHANGED <<held, departed, reqs, cached, outside, records, contact, file, tasks, ghosts,
                 late>>

Heal(n) ==
  /\ n \notin up
  /\ up' = up \cup {n}
  /\ UNCHANGED <<held, departed, reqs, cached, outside, records, contact, file, tasks, left, ghosts,
                 late>>

(* A verb at the node: what it does to the instance.                       *)
Started(n) == held' = [held EXCEPT ![n].running = TRUE, ![n].lease = FALSE] /\ UNCHANGED departed
Stopped(n) == held' = [held EXCEPT ![n].running = FALSE, ![n].lease = FALSE] /\ UNCHANGED departed
Unloaded(n) == held' = [held EXCEPT ![n] = None] /\ departed' = departed \cup {n}

(* A call of one of them and its answer: "failed" when the node cannot be  *)
(* reached, when the request or the answer is lost on the way, and when    *)
(* the gate denies it or the node refuses it.                              *)
Call(n, Effect, answer) ==
  \/ answer = "ok" /\ n \in up /\ held[n] # None /\ Effect /\ UNCHANGED left
  \/ answer = "unknown" /\ n \in up /\ held[n] = None /\ UNCHANGED <<held, departed, left>>
  \/ answer = "failed" /\ n \notin up /\ UNCHANGED <<held, departed, left>>
  \/ /\ answer = "failed" /\ n \in up /\ Spend("lose")
     /\ UNCHANGED <<held, departed>> \/ (held[n] # None /\ Effect)
  \/ answer = "failed" /\ n \in up /\ Spend("refuse") /\ UNCHANGED <<held, departed>>

Answers == {"ok", "unknown", "failed"}

-----------------------------------------------------------------------------
(* place_timed and dispatch.                                               *)

(* The decision is chained and its candidates are the reachable nodes (the *)
(* pinned one if the order is pinned).                                     *)
BeginDispatch(t, candidates, avoid, movable, resched) ==
  \E d \in Free :
    /\ \A e \in Free : d <= e
    /\ disp' = [disp EXCEPT ![t] =
         [pc |-> "next", dec |-> d, todo |-> candidates, node |-> None, avoid |-> avoid,
          first |-> TRUE, movable |-> movable, resched |-> resched]]

DispTo(t, pc) == disp' = [disp EXCEPT ![t].pc = pc]

DispStep == UNCHANGED <<up, cached, outside, contact, tick, verb, settling, ghosts>>

(* The next candidate: the first is one not avoided, if there is one.      *)
DispatchNext(t, n) ==
  LET s == disp[t]
  IN  /\ s.pc = "next" /\ n \in s.todo
      /\ s.first /\ s.todo \ s.avoid # {} => n \notin s.avoid
      /\ disp' = [disp EXCEPT ![t].todo = @ \ {n}, ![t].first = FALSE, ![t].node = n,
                              ![t].pc = IF n \in up THEN "calling" ELSE "next"]
      /\ reqs' = IF n \in up THEN reqs \cup {[dec |-> s.dec, node |-> n, phase |-> "sent"]}
                 ELSE reqs
      /\ UNCHANGED <<held, departed, records, file, left, late>> /\ DispStep

DispatchEmpty(t) ==
  /\ disp[t].pc = "next" /\ disp[t].todo = {}
  /\ DispTo(t, "failed")
  /\ UNCHANGED <<held, departed, reqs, records, file, left, late>> /\ DispStep

Mine(t, r) == r.dec = disp[t].dec /\ r.node = disp[t].node

(* The answer arrives: the instance is recorded and saved.                 *)
DispatchAnswer(t, r) ==
  /\ disp[t].pc = "calling" /\ Mine(t, r) /\ r.phase \in {"ok", "refused"}
  /\ r.node \in up
  /\ reqs' = reqs \ {r}
  /\ DispTo(t, IF r.phase = "ok" THEN "placed" ELSE "next")
  /\ IF r.phase = "ok"
       THEN /\ placements' = placements \cup {r.node}
            /\ UNCHANGED <<lives, unsettled>>
            /\ Persist
       ELSE UNCHANGED <<records, file>>
  /\ UNCHANGED <<held, departed, left, late>> /\ DispStep

(* No answer: the call times out or its connection breaks, and is closed.  *)
(* A request the node has not come to may be lost or may still arrive.     *)
DispatchLost(t) ==
  /\ disp[t].pc = "calling"
  /\ IF disp[t].node \in up /\ \E r \in reqs : Mine(t, r) THEN Spend("lose")
     ELSE UNCHANGED left
  /\ \/ reqs' = {r \in reqs : ~Mine(t, r) \/ r.phase = "handling"}
     \/ \E r \in reqs : Mine(t, r) /\ r.phase = "sent" /\ UNCHANGED reqs
  /\ DispTo(t, "status")
  /\ UNCHANGED <<held, departed, records, file, late>> /\ DispStep

(* remember_unsettled, and the dispatch stops.                             *)
Unsettle(t) ==
  /\ unsettled' = unsettled \cup {[dec |-> disp[t].dec, node |-> disp[t].node]}
  /\ UNCHANGED <<placements, lives>>
  /\ Persist
  /\ DispTo(t, "failed")

InFlight(d, n) == \E r \in reqs : r.dec = d /\ r.node = n /\ r.phase = "handling"
Holds(d, n) == held[n] # None /\ held[n].dec = d

(* History: a STATUS that shows nothing of a decision the request of which *)
(* is still on its way.                                                    *)
NoteLate(d, n) ==
  late' = IF \E r \in reqs : r.dec = d /\ r.node = n /\ r.phase = "sent"
            THEN late \cup {[dec |-> d, node |-> n]} ELSE late

(* Mutant of Reconcile: a decision in flight is taken for settled.         *)
ReconcileNoInFlight(t) ==
  LET n == disp[t].node
      d == disp[t].dec
  IN  /\ disp[t].pc = "status"
      /\ \/ n \notin up /\ Unsettle(t) /\ UNCHANGED late
         \/ /\ n \in up /\ Holds(d, n)
            /\ DispTo(t, "unload") /\ UNCHANGED <<records, file, late>>
         \/ /\ n \in up /\ ~Holds(d, n)
            /\ DispTo(t, "next") /\ NoteLate(d, n) /\ UNCHANGED <<records, file>>
      /\ UNCHANGED <<held, departed, reqs, left>> /\ DispStep

(* reconcile, its STATUS: the target cannot be asked or is still at it:    *)
(* unsettled; it holds an instance: unload it; neither: settled, and the   *)
(* next candidate's turn.                                                  *)
Reconcile(t) ==
  LET n == disp[t].node
      d == disp[t].dec
  IN  /\ disp[t].pc = "status"
      /\ \/ (n \notin up \/ InFlight(d, n)) /\ Unsettle(t) /\ UNCHANGED late
         \/ /\ n \in up /\ ~InFlight(d, n) /\ Holds(d, n)
            /\ DispTo(t, "unload") /\ UNCHANGED <<records, file, late>>
         \/ /\ n \in up /\ ~InFlight(d, n) /\ ~Holds(d, n)
            /\ DispTo(t, "next") /\ NoteLate(d, n) /\ UNCHANGED <<records, file>>
      /\ UNCHANGED <<held, departed, reqs, left>> /\ DispStep

(* reconcile, its UNLOAD (by instance id).                                 *)
ReconcileUnload(t) ==
  LET n == disp[t].node
  IN  /\ disp[t].pc = "unload"
      /\ \/ /\ Call(n, Unloaded(n), "ok")
            /\ DispTo(t, "next") /\ UNCHANGED <<records, file>>
         \/ \E a \in {"unknown", "failed"} : Call(n, Unloaded(n), a) /\ Unsettle(t)
      /\ UNCHANGED <<reqs, late>> /\ DispStep

Dispatch(t) ==
  \/ DispatchEmpty(t) \/ DispatchLost(t) \/ Reconcile(t) \/ ReconcileUnload(t)
  \/ \E n \in Node : DispatchNext(t, n)
  \/ \E r \in reqs : DispatchAnswer(t, r)

(* The operator's place: refresh, then place_with.                         *)
OpPlace(movable) ==
  /\ disp["op"].pc = "idle" /\ packaged /\ Spend("place")
  /\ reach' = up /\ UNCHANGED <<down, records>>
  /\ Persist
  /\ BeginDispatch("op", up, {}, movable, 0)
  /\ stoppedAt' = None /\ stopSeen' = FALSE
  /\ UNCHANGED <<nodes, outside, tick, verb, settling, cutOff, late>>

(* register_life, or the report that no node took it.                      *)
OpEnd ==
  LET s == disp["op"]
  IN  /\ s.pc \in {"placed", "failed"}
      /\ IF s.pc = "placed"
           THEN /\ lives' = [lives EXCEPT ![s.node] = FreshLife(s.movable, 0)]
                /\ UNCHANGED <<placements, unsettled>>
                /\ Persist
           ELSE UNCHANGED <<records, file>>
      /\ disp' = [disp EXCEPT !["op"] = DispIdle]
      /\ UNCHANGED <<nodes, outside, contact, tick, verb, settling, left, ghosts, late>>

-----------------------------------------------------------------------------
(* settle_unsettled, run by a status listing: one decision.                *)

SettleStep == UNCHANGED <<nodes, outside, contact, disp, tick, verb, ghosts>>

(* The node's answer; one still in flight is left for the next listing.    *)
SettleAsk(u) ==
  /\ settling = SettleIdle /\ Spend("settle")
  /\ u.node \in up /\ ~InFlight(u.dec, u.node)
  /\ settling' = [pc |-> "told", dec |-> u.dec, node |-> u.node, holds |-> Holds(u.dec, u.node)]
  /\ NoteLate(u.dec, u.node)
  /\ UNCHANGED <<records, file>> /\ SettleStep

(* Its use: the instance is adopted, or there is none.                     *)
SettleUse ==
  /\ settling.pc = "told"
  /\ placements' = IF settling.holds THEN placements \cup {settling.node} ELSE placements
  /\ unsettled' = unsettled \ {[dec |-> settling.dec, node |-> settling.node]}
  /\ UNCHANGED lives
  /\ Persist
  /\ settling' = SettleIdle
  /\ UNCHANGED <<left, late>> /\ SettleStep

Settle == SettleUse \/ \E u \in unsettled : SettleAsk(u)

-----------------------------------------------------------------------------
(* instance: the operator's STOP and UNLOAD.                               *)

(* The node's part of the call.  (place_with registers the life right      *)
(* after the record, with no await: no call fits in between.)              *)
VerbCall(n, method) ==
  /\ verb.pc = "idle" /\ n \in placements /\ Spend("verb")
  /\ disp["op"].pc # "placed"
  /\ n \in up /\ held[n] # None
  /\ IF method = "STOP" THEN Stopped(n) ELSE Unloaded(n)
  /\ verb' = [pc |-> "answered", method |-> method, node |-> n]
  /\ stoppedAt' = IF method = "STOP" THEN n ELSE None
  /\ stopSeen' = FALSE
  /\ UNCHANGED <<up, reqs, cached, outside, records, contact, file, disp, tick, settling, cutOff,
                 late>>

(* The answer, or its loss.  A teardown describes the node again, which    *)
(* saves if the node answers.                                              *)
VerbEnd ==
  LET n == verb.node
  IN  /\ verb.pc = "answered"
      /\ verb' = VerbIdle
      /\ \/ /\ IF verb.method = "UNLOAD"
                 THEN placements' = placements \ {n} /\ lives' = [lives EXCEPT ![n] = None]
                 ELSE UNCHANGED <<placements, lives>>
            /\ UNCHANGED unsettled
            /\ reach' = IF n \in up THEN reach \cup {n} ELSE reach
            /\ IF verb.method = "UNLOAD" \/ n \in up THEN Persist ELSE UNCHANGED file
            /\ UNCHANGED left
         \/ Spend("lose") /\ UNCHANGED <<records, file, reach>>
      /\ UNCHANGED <<nodes, outside, down, disp, tick, settling, ghosts, late>>

-----------------------------------------------------------------------------
(* lifecycle_tick.                                                         *)

TickStep == UNCHANGED <<up, reqs, cached, outside, down, verb, settling, ghosts, late>>

(* Mutant of TickBegin: every tick takes a node that is down for newly     *)
(* down.                                                                   *)
TickBeginRestamps ==
  /\ tick.pc = "idle"
  /\ reach' = up
  /\ down' = [n \in Node |-> IF n \in up THEN "no" ELSE "down"]
  /\ UNCHANGED records
  /\ IF up # {} THEN Persist ELSE UNCHANGED file
  /\ tick' = [TickIdle EXCEPT !.pc = "mirror", !.todo = up \cap placements]
  /\ UNCHANGED <<nodes, outside, disp, verb, settling, left, ghosts, late>>

(* refresh, note_reachability, and the records mirror_states will look at. *)
TickBegin ==
  /\ tick.pc = "idle"
  /\ reach' = up
  /\ down' = [n \in Node |-> IF n \in up THEN "no"
                             ELSE IF down[n] = "no" THEN "down" ELSE down[n]]
  /\ UNCHANGED records
  /\ IF up # {} THEN Persist ELSE UNCHANGED file
  /\ tick' = [TickIdle EXCEPT !.pc = "mirror", !.todo = up \cap placements]
  /\ UNCHANGED <<nodes, outside, disp, verb, settling, left, ghosts, late>>

(* Back to the loop the tick was in.                                       *)
TickTo(pc, todo) == tick' = [TickIdle EXCEPT !.pc = pc, !.todo = todo]
TickBack == TickTo(tick.back, tick.todo)

At(n, pc, back) == [TickIdle EXCEPT !.pc = pc, !.node = n, !.todo = tick.todo \ {n}, !.back = back]

(* mirror_states asks one node.                                            *)
MirrorStatus(n) ==
  /\ tick.pc = "mirror" /\ n \in tick.todo
  /\ tick' = IF n \in up THEN [At(n, "row", "mirror") EXCEPT !.row = RowOf(n)]
             ELSE [tick EXCEPT !.todo = @ \ {n}]
  /\ UNCHANGED <<held, departed, records, reach, file, disp, left>> /\ TickStep

(* Mutant of Blocked: the order's limit is not looked at.                  *)
BlockedUnlimited(c, dead) == ~c.was \/ ~c.order \/ ~packaged \/ (dead /\ ~c.movable)

(* blockers, the soft one only if the node is dead.                        *)
Blocked(c, dead) ==
  ~c.was \/ ~c.order \/ ~packaged \/ c.resched >= MaxReschedules \/ (dead /\ ~c.movable)

(* reschedule, up to its placement: c is the life it found.                *)
Reschedule(c, n, dead, back, todo) ==
  IF c.wait \/ Blocked(c, dead)
    THEN TickTo(back, todo) /\ UNCHANGED disp
    ELSE /\ BeginDispatch("tick", IF ~dead /\ ~c.movable THEN reach \cap {n} ELSE reach,
                          IF dead THEN {n} ELSE {}, c.movable, c.resched + 1)
         /\ tick' = [TickIdle EXCEPT !.pc = "dispatch", !.node = n, !.dead = dead,
                                     !.back = back, !.todo = todo]

(* mirror_states uses the row: missing_on_node, the restart of a lease     *)
(* stop, or the node's own state.                                          *)
MirrorApply ==
  LET n == tick.node
      c == LifeOf(n)
      known == lives[n] # None
  IN  /\ tick.pc = "row" /\ tick.back = "mirror"
      /\ \/ /\ known /\ c.state \in {"Rescheduled", "Lost"}
            /\ TickBack /\ UNCHANGED <<records, file, disp>>
         \/ /\ ~(known /\ c.state \in {"Rescheduled", "Lost"})
            /\ \/ /\ tick.row = "missing" /\ known /\ is_live(c.state)
                  /\ lives' = [lives EXCEPT ![n] = SetState(c, "Lost", FALSE)]
                  /\ Reschedule(lives'[n], n, FALSE, "mirror", tick.todo)
                  /\ UNCHANGED <<placements, unsettled, file>>
               \/ /\ tick.row = "told" \/ (tick.row = "missing" /\ ~(known /\ is_live(c.state)))
                  /\ ForgetRecord(n)
                  /\ TickBack /\ UNCHANGED disp
               \/ /\ tick.row = "lease"
                  /\ tick' = [tick EXCEPT !.pc = "start", !.row = "none"]
                  /\ UNCHANGED <<records, file, disp>>
               \/ /\ tick.row \in {"running", "stopped"}
                  /\ LET to == IF tick.row = "running" THEN "Running" ELSE "Stopped"
                     IN  lives' = IF known /\ c.state = to THEN lives
                                  ELSE [lives EXCEPT ![n] = SetState(c, to, TRUE)]
                  /\ TickBack /\ UNCHANGED <<placements, unsettled, file, disp>>
      /\ stopSeen' = (stopSeen \/ (tick.row = "stopped" /\ n = stoppedAt /\ n \in placements))
      /\ UNCHANGED <<nodes, outside, contact, verb, settling, left, cutOff, stoppedAt, late>>

(* instance(START) and instance(UNLOAD) by the tick: the node's part.  An  *)
(* instance whose record is gone is not asked for.                         *)
TickCall ==
  LET n == tick.node
  IN  /\ tick.pc \in {"start", "orphan"}
      /\ \/ /\ n \in placements
            /\ \E a \in Answers :
                 /\ Call(n, IF tick.pc = "start" THEN Started(n) ELSE Unloaded(n), a)
                 /\ tick' = [tick EXCEPT !.pc = IF @ = "start" THEN "started" ELSE "unloaded",
                                         !.row = a]
         \/ /\ n \notin placements
            /\ TickBack /\ UNCHANGED <<held, departed, left>>
      /\ UNCHANGED <<records, reach, file, disp>> /\ TickStep

(* Started after a lease stop (forced in mirror_states, not in rejoined).  *)
StartedApply ==
  LET n == tick.node
  IN  /\ tick.pc = "started"
      /\ lives' = IF tick.row # "ok" THEN lives
                  ELSE [lives EXCEPT ![n] = SetState(LifeOf(n), "Running", tick.back = "mirror")]
      /\ TickBack
      /\ UNCHANGED <<held, departed, placements, unsettled, reach, file, disp, left>> /\ TickStep

(* The mirror is done: the pass over the placements.                       *)
PassBegin ==
  /\ tick.pc = "mirror" /\ tick.todo = {}
  /\ tick' = [TickIdle EXCEPT !.pc = "pass", !.todo = placements]
  /\ UNCHANGED <<held, departed, records, reach, file, disp, left>> /\ TickStep

(* node_dead: dead_after has passed and membership does not hold the node  *)
(* healthy.                                                                *)
node_dead(n) == down[n] = "dead" /\ n \notin vouched

(* One record of the pass.                                                 *)
PassStep(n) ==
  LET c == lives[n]
      rest == tick.todo \ {n}
      dead == node_dead(n)
  IN  /\ tick.pc = "pass" /\ n \in tick.todo
      /\ \/ /\ c = None     \* adopted by the lifecycle
            /\ lives' = [lives EXCEPT ![n] = SetState(LifeOf(n), "Running", FALSE)]
            /\ TickTo("pass", rest) /\ UNCHANGED <<held, departed, disp>>
         \/ /\ c # None /\ c.state = "Rescheduled" /\ ~dead /\ ~c.wait
            /\ tick' = At(n, "orphan", "pass")
            /\ UNCHANGED <<held, departed, lives, disp>>
         \/ /\ c # None /\ dead /\ c.state # "Rescheduled"
            /\ lives' = IF c.state = "Lost" THEN lives
                        ELSE [lives EXCEPT ![n] = SetState(c, "Lost", FALSE)]
            /\ Reschedule(lives'[n], n, TRUE, "pass", rest)
            /\ UNCHANGED <<held, departed>>
         \/ /\ c # None /\ c.state = "Lost" /\ ~dead     \* rejoined
            /\ tick' = IF n \in up THEN [At(n, "rejoin", "pass") EXCEPT !.row = RowOf(n)]
                       ELSE [tick EXCEPT !.todo = rest]
            /\ UNCHANGED <<held, departed, lives, disp>>
         \/ /\ c # None
            /\ \/ c.state = "Rescheduled" /\ (dead \/ c.wait)
               \/ c.state \in {"Running", "Stopped"} /\ ~dead
            /\ TickTo("pass", rest) /\ UNCHANGED <<held, departed, lives, disp>>
      /\ UNCHANGED <<placements, unsettled, reach, file, left>> /\ TickStep

(* rejoined uses the row.                                                  *)
RejoinApply ==
  LET n == tick.node
  IN  /\ tick.pc = "rejoin"
      /\ \/ /\ tick.row = "told"
            /\ ForgetRecord(n)
            /\ TickBack /\ UNCHANGED disp
         \/ /\ tick.row = "missing"
            /\ IF lives[n] = None THEN TickBack /\ UNCHANGED disp
               ELSE Reschedule(lives[n], n, FALSE, "pass", tick.todo)
            /\ UNCHANGED <<records, file>>
         \/ /\ tick.row = "lease"
            /\ tick' = [tick EXCEPT !.pc = "start", !.row = "none"]
            /\ UNCHANGED <<records, file, disp>>
         \/ /\ tick.row \in {"running", "stopped"}
            /\ lives' = [lives EXCEPT ![n] = SetState(LifeOf(n), "Running", FALSE)]
            /\ TickBack /\ UNCHANGED <<placements, unsettled, file, disp>>
      /\ UNCHANGED <<held, departed, reach, left>> /\ TickStep

(* Mutant of OrphanApply: a node without the copy is asked again.          *)
OrphanApplyKnownOnly ==
  LET n == tick.node
  IN  /\ tick.pc = "unloaded"
      /\ IF tick.row = "ok" THEN ForgetRecord(n)
         ELSE /\ lives' = IF lives[n] = None THEN lives ELSE [lives EXCEPT ![n].wait = TRUE]
              /\ UNCHANGED <<placements, unsettled, file>>
      /\ TickBack
      /\ UNCHANGED <<held, departed, reach, disp, left>> /\ TickStep

(* unload_orphan uses the answer.                                          *)
OrphanApply ==
  LET n == tick.node
  IN  /\ tick.pc = "unloaded"
      /\ \/ /\ tick.row \in {"ok", "unknown"}
            /\ ForgetRecord(n)
            /\ reach' = IF tick.row = "ok" /\ n \in up THEN reach \cup {n} ELSE reach
         \/ /\ tick.row = "failed"
            /\ lives' = IF lives[n] = None THEN lives ELSE [lives EXCEPT ![n].wait = TRUE]
            /\ UNCHANGED <<placements, unsettled, reach, file>>
      /\ TickBack
      /\ UNCHANGED <<held, departed, disp, left>> /\ TickStep

(* Mutant of Moved: the old record stays as it was.                        *)
MovedKeepsLost ==
  LET s == disp["tick"]
      old == tick.node
  IN  /\ tick.pc = "dispatch" /\ s.pc = "placed"
      /\ lives' = [lives EXCEPT ![s.node] = FreshLife(s.movable, s.resched)]
      /\ UNCHANGED <<placements, unsettled>>
      /\ Persist
      /\ TickBack /\ disp' = [disp EXCEPT !["tick"] = DispIdle]
      /\ UNCHANGED <<held, departed, reach, left>> /\ TickStep

(* reschedule after its placement: the new life is recorded and saved; the *)
(* old record waits as Rescheduled for its node, or goes if the node has   *)
(* already lost the instance (unless the new one is on that very node).    *)
Moved ==
  LET s == disp["tick"]
      old == tick.node
      placed == [lives EXCEPT ![s.node] = FreshLife(s.movable, s.resched)]
  IN  /\ tick.pc = "dispatch" /\ s.pc = "placed"
      /\ UNCHANGED unsettled
      /\ IF tick.dead
           THEN /\ lives' = [placed EXCEPT ![old] =
                     SetState(IF s.node = old THEN placed[old] ELSE LifeOf(old),
                              "Rescheduled", FALSE)]
                /\ UNCHANGED placements
                /\ file' = [placements |-> placements, lives |-> placed, unsettled |-> unsettled]
           ELSE /\ lives' = IF s.node = old THEN placed ELSE [placed EXCEPT ![old] = None]
                /\ placements' = IF s.node = old THEN placements ELSE placements \ {old}
                /\ Persist
      /\ TickBack /\ disp' = [disp EXCEPT !["tick"] = DispIdle]
      /\ UNCHANGED <<held, departed, reach, left>> /\ TickStep

(* attempt_failed: back off; there is no limit to the attempts.            *)
NotMoved ==
  LET n == tick.node
  IN  /\ tick.pc = "dispatch" /\ disp["tick"].pc = "failed"
      /\ lives' = IF lives[n] = None THEN lives ELSE [lives EXCEPT ![n].wait = TRUE]
      /\ TickBack /\ disp' = [disp EXCEPT !["tick"] = DispIdle]
      /\ UNCHANGED <<held, departed, placements, unsettled, reach, file, left>> /\ TickStep

TickEnd ==
  /\ tick.pc = "pass" /\ tick.todo = {}
  /\ tick' = TickIdle
  /\ UNCHANGED records
  /\ Persist
  /\ UNCHANGED <<held, departed, reach, disp, left>> /\ TickStep

Tick ==
  \/ TickBegin \/ MirrorApply \/ TickCall \/ StartedApply \/ PassBegin
  \/ RejoinApply \/ OrphanApply \/ Moved \/ NotMoved \/ TickEnd
  \/ \E n \in Node : MirrorStatus(n) \/ PassStep(n)

-----------------------------------------------------------------------------
(* Time, and the controller's crash.                                       *)

(* dead_after passes (a tick reads the clock once, at its start).          *)
DeadAfter(n) ==
  /\ tick.pc = "idle" /\ down[n] = "down"
  /\ down' = [down EXCEPT ![n] = "dead"]
  /\ UNCHANGED <<nodes, outside, records, reach, file, tasks, left, ghosts, late>>

(* A backoff ends.                                                         *)
BackoffOver(n) ==
  /\ lives[n] # None /\ lives[n].wait
  /\ lives' = [lives EXCEPT ![n].wait = FALSE]
  /\ UNCHANGED <<nodes, outside, placements, unsettled, contact, file, tasks, left, ghosts, late>>

(* Membership holds a node healthy, or no longer does; it is asked only    *)
(* of one for which dead_after has passed.                                 *)
Vouch(n) ==
  /\ down[n] = "dead" /\ n \notin vouched /\ Spend("vouch")
  /\ vouched' = vouched \cup {n}
  /\ UNCHANGED <<nodes, packaged, records, contact, file, tasks, ghosts, late>>

Suspect(n) ==
  /\ n \in vouched
  /\ vouched' = vouched \ {n}
  /\ UNCHANGED <<nodes, packaged, records, contact, file, tasks, left, ghosts, late>>

(* The package directory is removed from under the order.                  *)
RemovePackage ==
  /\ packaged /\ Spend("remove")
  /\ packaged' = FALSE
  /\ UNCHANGED <<nodes, vouched, records, contact, file, tasks, ghosts, late>>

Outside == RemovePackage \/ \E n \in Node : Vouch(n) \/ Suspect(n)

(* with_state_file: the controller starts again from its file and          *)
(* refreshes; what was down is timed anew.                                 *)
Crash ==
  /\ Spend("crash")
  /\ placements' = file.placements /\ lives' = file.lives /\ unsettled' = file.unsettled
  /\ reach' = up /\ down' = [n \in Node |-> "no"]
  /\ disp' = [t \in Task |-> DispIdle] /\ tick' = TickIdle /\ verb' = VerbIdle
  /\ settling' = SettleIdle
  /\ cutOff' = cutOff \cup ({disp[t].dec : t \in Task} \ {None})
  /\ reqs' = {r \in reqs : r.phase \in {"sent", "handling"}}
  /\ stopSeen' = FALSE
  /\ UNCHANGED <<up, held, departed, cached, outside, file, stoppedAt, late>>

NodeStep(r) == NodeBegin(r) \/ NodeFetch(r) \/ NodeLoad(r) \/ NodeRefuse(r)

Next ==
  \/ \E r \in reqs : NodeStep(r)
  \/ \E n \in Node : NodeLease(n) \/ NodeReboot(n) \/ Cut(n) \/ Heal(n)
  \/ \E m \in Movable : OpPlace(m)
  \/ OpEnd
  \/ \E t \in Task : Dispatch(t)
  \/ Settle
  \/ \E n \in Node, m \in Verbs : VerbCall(n, m)
  \/ VerbEnd
  \/ Tick
  \/ \E n \in Node : DeadAfter(n) \/ BackoffOver(n)
  \/ Outside
  \/ Crash

Spec == Init /\ [][Next]_vars

(* The ticks go on, nodes come to the requests they have, calls are        *)
(* answered or time out, and clocks run: dead_after passes between two     *)
(* ticks, backoffs end.  Nothing is assumed of operators, of networks and  *)
(* of membership.                                                          *)
Fairness ==
  /\ WF_vars(Tick) /\ \A t \in Task : WF_vars(Dispatch(t))
  /\ WF_vars(OpEnd) /\ WF_vars(VerbEnd) /\ WF_vars(SettleUse)
  /\ WF_vars(\E r \in reqs : NodeStep(r))
  /\ \A n \in Node : SF_vars(DeadAfter(n)) /\ WF_vars(BackoffOver(n))

FairSpec == Spec /\ Fairness

-----------------------------------------------------------------------------
(* plane_place.rs: "reconcile before any other candidate, or stop          *)
(* (never two instances)".  However requests and answers are lost, one     *)
(* decision is being handled or held on at most one node, but for one      *)
(* case: the request came to a node only after the STATUS that settled it, *)
(* which plane_reconcile.rs takes for harmless ("it cannot load it         *)
(* later"); it can from the node's own store.                              *)
Late(d, n) == [dec |-> d, node |-> n] \in late
OnePerDecision ==
  \A d \in Decision, m, n \in Node :
    /\ m # n
    /\ Holds(d, m) \/ InFlight(d, m)
    /\ Holds(d, n) \/ InFlight(d, n)
    => Late(d, m) \/ Late(d, n)

(* Somebody answers for a decision at a node: the dispatch that is at it,  *)
(* or the list of the unsettled; or the controller crashed over it, or the *)
(* request came late.                                                      *)
Dispatching(d, n) ==
  \E t \in Task : disp[t].pc \in {"calling", "status", "unload"} /\ disp[t].dec = d
                    /\ disp[t].node = n
Answerable(d, n) ==
  \/ Dispatching(d, n) \/ d \in cutOff
  \/ [dec |-> d, node |-> n] \in unsettled \/ Late(d, n)

(* The controller can find the instance a node holds.                      *)
Managed(n) == n \in placements \/ Answerable(held[n].dec, n)

(* The controller has an answer according to which node n does not hold    *)
(* the instance (any more): a STATUS without it, or one for which it has   *)
(* been placed again, an UNLOAD that was carried out or met nothing.       *)
SaidGone(n) ==
  \/ /\ tick.node = n
     /\ \/ tick.pc \in {"row", "rejoin"} /\ tick.row \in {"told", "missing"}
        \/ tick.pc = "unloaded" /\ tick.row \in {"ok", "unknown"}
        \/ tick.pc = "dispatch" /\ ~tick.dead
  \/ verb.pc = "answered" /\ verb.method = "UNLOAD" /\ verb.node = n

(* plane_state.rs: "instances placed on other nodes stay manageable".      *)
(* Through lost calls, cuts, reboots, moves, UNLOADs and crashes an        *)
(* instance a node comes to hold is managed, and stays so but for one      *)
(* hazard: the controller uses an answer about that node which is out of   *)
(* date (forget_instances and the end of an UNLOAD go by the instance id,  *)
(* and a node gives a later placement of the order the same id).           *)
StaysManageable ==
  [][\A n \in Node : held'[n] # None /\ ~Managed(n)' =>
       held[n] # None /\ (~Managed(n) \/ SaidGone(n))]_vars

(* plane_lifecycle.rs, ControllerLife.was_running: "A stopped [...]        *)
(* instance is never started somewhere else".  Once a tick has mirrored    *)
(* the operator's STOP, no tick places that instance again.                *)
StoppedNotMoved ==
  [][stopSeen /\ tick.pc # "dispatch" /\ tick'.pc = "dispatch" => tick'.node # stoppedAt]_vars

(* plane_reschedule.rs: "a crash right after the placement cannot [...]    *)
(* place it a third time".  A tick does not place an instance again while  *)
(* the record of its replacement is there.                                 *)
NotPlacedAgain ==
  [][tick.pc # "dispatch" /\ tick'.pc = "dispatch" =>
       ~\E m \in placements : /\ lives[m] # None /\ lives[tick'.node] # None
                              /\ lives[m].resched > lives[tick'.node].resched]_vars

(* plane_lifecycle.rs: "When its node returns, that copy is unloaded       *)
(* there".  The record of a copy that was replaced does not stay for as    *)
(* long as its node is up.                                                 *)
Replaced(n) == n \in placements /\ lives[n] # None /\ lives[n].state = "Rescheduled"
OrphanGoes == \A n \in Node : Replaced(n) /\ n \in up ~> ~Replaced(n) \/ n \notin up

(* lifecycle_tick: an instance meant to run that may move and has moves    *)
(* left, lost with its node or by it, does not stay without a running copy *)
(* while some node is up, unless membership goes on holding its node       *)
(* healthy (node_dead).                                                    *)
Wanted(n) ==
  /\ n \in placements /\ lives[n] # None /\ lives[n].state \in {"Running", "Lost"}
  /\ ~Blocked(lives[n], TRUE)
Runs == \E m \in Node : held[m] # None /\ held[m].running
Recovers ==
  \A n, m \in Node :
    Wanted(n) /\ m \in up ~> ~Wanted(n) \/ Runs \/ m \notin up \/ n \in vouched
==============================================================================
