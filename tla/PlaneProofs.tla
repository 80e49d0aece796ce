----------------------------- MODULE PlaneProofs -----------------------------
(***************************************************************************)
(* The placement controller, for any nodes, budgets of events, verbs and   *)
(* limits, in five parts:                                                  *)
(*                                                                         *)
(*   types of the records, tasks and nodes: an instance that is moved has  *)
(*     moves left;                                                         *)
(*   one copy per decision: while a dispatch is at a node, only that node  *)
(*     can take the decision up, and the dispatch goes on to the next node *)
(*     only when that one does not hold it and has no request of it, or    *)
(*     the request was found late;                                         *)
(*   fresh decision ids;                                                   *)
(*   what stays manageable: an instance loses what answers for it only to  *)
(*     an answer about its node that is out of date;                       *)
(*   one replacement at a time, without crashes.                           *)
(***************************************************************************)
EXTENDS Plane, TLAPS

-----------------------------------------------------------------------------
(* Types.                                                                  *)

(* TypeOK but for its last conjunct, that there is a fresh decision id.    *)
DispType ==
  [pc : {"idle", "next", "calling", "status", "unload", "placed", "failed"},
   dec : Decision \cup {None}, todo : SUBSET Node, node : Node \cup {None},
   avoid : SUBSET Node, first : BOOLEAN, movable : BOOLEAN, resched : 0..MaxReschedules]
TickType ==
  [pc : {"idle", "mirror", "row", "pass", "rejoin", "start", "started",
         "orphan", "unloaded", "dispatch"},
   todo : SUBSET Node, node : Node \cup {None},
   row : Row \cup {"none", "ok", "unknown", "failed"},
   back : {"none", "mirror", "pass"}, dead : BOOLEAN]
VerbType == [pc : {"idle", "answered"}, method : {"none", "STOP", "UNLOAD"},
             node : Node \cup {None}]
SettleType == [pc : {"told"}, dec : Decision, node : Node, holds : BOOLEAN]
Lives == [Node -> Life \cup {None}]

NodesType ==
  /\ up \subseteq Node /\ departed \subseteq Node
  /\ held \in [Node -> Copy \cup {None}] /\ reqs \subseteq Request
RecordsType == placements \subseteq Node /\ lives \in Lives /\ unsettled \subseteq Unsettled
FileType ==
  /\ file.placements \subseteq Node /\ file.lives \in Lives
  /\ file.unsettled \subseteq Unsettled
ContactType == reach \subseteq Node /\ down \in [Node -> {"no", "down", "dead"}]
OtherType ==
  /\ verb \in VerbType /\ (settling = SettleIdle \/ settling \in SettleType)
  /\ left \in [Event -> Nat]
  /\ cutOff \subseteq Decision /\ stoppedAt \in Node \cup {None} /\ stopSeen \in BOOLEAN

(* A dispatch under way has its decision, and its node while it is at one; *)
(* so has a tick that will go back to a loop.                              *)
DispPoint(s) ==
  /\ s.pc = "idle" <=> s.dec = None
  /\ s.pc \in {"calling", "status", "unload", "placed"} => s.node \in Node
TickPoint ==
  tick.pc \notin {"idle", "mirror", "pass"} => tick.node \in Node /\ tick.back # "none"
TasksType ==
  /\ disp \in [Task -> DispType] /\ \A t \in Task : DispPoint(disp[t])
  /\ tick \in TickType /\ TickPoint

(* What no step of the controller reads but as a condition.                *)
SideType ==
  /\ cached \subseteq Node /\ vouched \subseteq Node /\ packaged \in BOOLEAN
  /\ late \subseteq Unsettled

Types == NodesType /\ RecordsType /\ FileType /\ ContactType /\ OtherType /\ TasksType

-----------------------------------------------------------------------------
(* Types of the parts of the controller's steps.                           *)

LEMMA TypesTypeOK == (Types /\ SideType /\ Free # {}) => TypeOK
BY DEF Types, SideType, SettleType, NodesType, RecordsType, FileType, ContactType, OtherType,
       TasksType, TypeOK, DispType, TickType, VerbType, Unsettled, Lives

LEMMA SpendType ==
  ASSUME left \in [Event -> Nat], NEW e \in Event, Spend(e)
  PROVE  left' \in [Event -> Nat]
BY DEF Spend

LEMMA PersistType ==
  ASSUME RecordsType', Persist
  PROVE  FileType'
BY DEF Persist, RecordsType, FileType

LEMMA FreshLifeType ==
  ASSUME NEW m \in BOOLEAN, NEW k \in 0..MaxReschedules
  PROVE  FreshLife(m, k) \in Life
BY DEF FreshLife, Life

LEMMA LifeOfType ==
  ASSUME lives \in Lives, NEW n \in Node
  PROVE  LifeOf(n) \in Life
<1>0. 0 \in 0..MaxReschedules
  BY PlaneAssumption
<1>1. FreshLife(TRUE, 0) \in Life
  BY <1>0 DEF FreshLife, Life
<1>2. [FreshLife(TRUE, 0) EXCEPT !.order = FALSE] \in Life
  BY <1>1 DEF Life
<1> QED
  BY <1>2 DEF LifeOf, Lives

LEMMA SetStateType ==
  ASSUME NEW c \in Life, NEW to \in {"Running", "Stopped", "Lost", "Rescheduled"},
         NEW f \in BOOLEAN
  PROVE  SetState(c, to, f) \in Life /\ SetState(c, to, f).resched = c.resched
<1>1. is_live(c.state) \in BOOLEAN
  BY DEF is_live
<1> QED
  BY <1>1 DEF SetState, Life

(* A tick that goes back to a loop.                                        *)
LEMMA TickToType ==
  ASSUME NEW pc \in {"mirror", "pass"}, NEW todo \in SUBSET Node, TickTo(pc, todo)
  PROVE  tick' \in TickType /\ TickPoint'
<1>1. tick' = [pc |-> pc, todo |-> todo, node |-> None, row |-> "none", back |-> "none",
               dead |-> FALSE]
  BY DEF TickTo, TickIdle
<1> QED
  BY <1>1 DEF TickType, TickPoint

LEMMA TickBackType ==
  ASSUME tick \in TickType, TickPoint, tick.pc \notin {"idle", "mirror", "pass"}, TickBack
  PROVE  tick' \in TickType /\ TickPoint'
<1>1. PICK pc \in {"mirror", "pass"}, todo \in SUBSET Node : pc = tick.back /\ todo = tick.todo
  BY DEF TickType, TickPoint
<1>2. TickTo(pc, todo)
  BY <1>1 DEF TickBack, TickTo
<1> QED
  BY <1>2, TickToType

LEMMA AtType ==
  ASSUME tick \in TickType, NEW n \in Node, NEW pc \in {"row", "rejoin", "orphan"},
         NEW back \in {"mirror", "pass"}
  PROVE  /\ At(n, pc, back) \in TickType /\ At(n, pc, back).pc = pc
         /\ At(n, pc, back).node = n /\ At(n, pc, back).back = back
<1>1. TickIdle \in TickType
  BY DEF TickIdle, TickType
<1>2. tick.todo \ {n} \in SUBSET Node
  BY DEF TickType
<1>3. At(n, pc, back) \in TickType
  BY <1>1, <1>2 DEF At, TickType
<1>4. /\ At(n, pc, back).pc = pc
      /\ At(n, pc, back).node = n /\ At(n, pc, back).back = back
  BY DEF At, TickIdle
<1> QED
  BY <1>3, <1>4

(* A dispatch that moves on in place, and one that begins.                 *)
LEMMA DispToType ==
  ASSUME disp \in [Task -> DispType], NEW t \in Task,
         NEW pc \in {"next", "calling", "status", "unload", "placed", "failed"}, DispTo(t, pc)
  PROVE  /\ disp' \in [Task -> DispType]
         /\ disp'[t] = [disp[t] EXCEPT !.pc = pc]
         /\ \A v \in Task \ {t} : disp'[v] = disp[v]
BY DEF DispTo, DispType

LEMMA DispIdleType == DispIdle \in DispType /\ DispPoint(DispIdle)
BY PlaneAssumption DEF DispIdle, DispType, DispPoint

LEMMA DispEndType ==
  ASSUME disp \in [Task -> DispType], \A t \in Task : DispPoint(disp[t]), NEW t \in Task,
         disp' = [disp EXCEPT ![t] = DispIdle]
  PROVE  /\ disp' \in [Task -> DispType] /\ \A v \in Task : DispPoint(disp'[v])
         /\ disp'[t] = DispIdle /\ \A v \in Task \ {t} : disp'[v] = disp[v]
BY DispIdleType

(* A dispatch begun is of a decision nobody refers to.                     *)
Begun(t) ==
  /\ disp' \in [Task -> DispType] /\ disp'[t].pc = "next" /\ disp'[t].dec \in Free
  /\ disp'[t].node = None
  /\ \A v \in Task \ {t} : disp'[v] = disp[v]

LEMMA BeginType ==
  ASSUME disp \in [Task -> DispType], NEW t \in Task, NEW candidates \in SUBSET Node,
         NEW avoid \in SUBSET Node, NEW movable \in BOOLEAN, NEW resched \in 0..MaxReschedules,
         BeginDispatch(t, candidates, avoid, movable, resched)
  PROVE  Begun(t)
<1>1. PICK d \in Free :
        disp' = [disp EXCEPT ![t] =
         [pc |-> "next", dec |-> d, todo |-> candidates, node |-> None, avoid |-> avoid,
          first |-> TRUE, movable |-> movable, resched |-> resched]]
  BY DEF BeginDispatch
<1>2. d \in Decision
  BY DEF Free
<1>3. [pc |-> "next", dec |-> d, todo |-> candidates, node |-> None, avoid |-> avoid,
       first |-> TRUE, movable |-> movable, resched |-> resched] \in DispType
  BY <1>2 DEF DispType
<1> QED
  BY <1>1, <1>3 DEF Begun

LEMMA BegunPoint ==
  ASSUME \A v \in Task : DispPoint(disp[v]), NEW t \in Task, Begun(t)
  PROVE  \A v \in Task : DispPoint(disp'[v])
BY PlaneAssumption DEF Begun, DispPoint, Free

(* Whatever a verb, the lease or a restart does to the instances, none     *)
(* comes into being and none changes its decision.                         *)
Shrinks ==
  /\ held' \in [Node -> Copy \cup {None}]
  /\ \A n \in Node : held'[n] # None => held[n] # None /\ held'[n].dec = held[n].dec

LEMMA EffectFacts ==
  ASSUME NodesType, NEW n \in Node, held[n] # None, Started(n) \/ Stopped(n) \/ Unloaded(n)
  PROVE  Shrinks /\ departed' \subseteq Node
<1>1. held[n] \in Copy
  BY DEF NodesType
<1>2. CASE Unloaded(n)
  BY <1>2 DEF NodesType, Shrinks, Unloaded
<1>3. CASE Started(n) \/ Stopped(n)
  <2>1. PICK c \in Copy : held' = [held EXCEPT ![n] = c] /\ c.dec = held[n].dec
    <3>1. CASE Started(n)
      <4> DEFINE c == [held[n] EXCEPT !.running = TRUE, !.lease = FALSE]
      <4>1. c \in Copy /\ c.dec = held[n].dec /\ held' = [held EXCEPT ![n] = c]
        BY <1>1, <3>1 DEF Copy, Started, NodesType
      <4> QED
        BY <4>1
    <3>2. CASE Stopped(n)
      <4> DEFINE c == [held[n] EXCEPT !.running = FALSE, !.lease = FALSE]
      <4>1. c \in Copy /\ c.dec = held[n].dec /\ held' = [held EXCEPT ![n] = c]
        BY <1>1, <3>2 DEF Copy, Stopped, NodesType
      <4> QED
        BY <4>1
    <3> QED
      BY <1>3, <3>1, <3>2
  <2> QED
    BY <1>3, <2>1 DEF NodesType, Shrinks, Started, Stopped
<1> QED
  BY <1>2, <1>3

LEMMA SameHeld == ASSUME NodesType, UNCHANGED held PROVE Shrinks
BY DEF NodesType, Shrinks

LEMMA CallFacts ==
  ASSUME NodesType, left \in [Event -> Nat], NEW n \in Node, NEW a \in Answers,
         Call(n, Unloaded(n), a) \/ Call(n, Started(n), a)
  PROVE  Shrinks /\ departed' \subseteq Node /\ left' \in [Event -> Nat]
<1>1. left' \in [Event -> Nat]
  BY SpendType DEF Call, Event
<1>2. \/ UNCHANGED <<held, departed>>
      \/ held[n] # None /\ (Started(n) \/ Unloaded(n))
  BY DEF Call
<1>3. Shrinks /\ departed' \subseteq Node
  BY <1>2, EffectFacts, SameHeld DEF NodesType
<1> QED
  BY <1>1, <1>3

-----------------------------------------------------------------------------
(* Types: the nodes.                                                       *)

LEMMA AnswerType ==
  ASSUME reqs \subseteq Request, NEW r \in reqs, NEW phase \in {"ok", "refused"}, Answer(r, phase)
  PROVE  reqs' \subseteq Request
BY DEF Answer, Request

LEMMA NodeTypes ==
  ASSUME Types,
         \/ \E r \in reqs : NodeStep(r)
         \/ \E n \in Node : NodeLease(n) \/ NodeReboot(n) \/ Cut(n) \/ Heal(n)
  PROVE  Types'
<1> USE DEF Types
<1>1. /\ UNCHANGED <<records, contact, file, tasks, ghosts>>
      /\ left' \in [Event -> Nat]
  BY SpendType DEF NodeStep, NodeBegin, NodeFetch, NodeLoad, NodeRefuse, NodeLease, NodeReboot,
                   Cut, Heal, OtherType, Event
<1>2. NodesType'
  <2>1. ASSUME NEW r \in reqs, NodeBegin(r)
        PROVE  NodesType'
    BY <2>1 DEF NodeBegin, NodesType, Request
  <2>2. ASSUME NEW r \in reqs, NodeLoad(r)
        PROVE  NodesType'
    <3>1. r.node \in Node /\ [dec |-> r.dec, running |-> TRUE, lease |-> FALSE] \in Copy
      BY DEF NodesType, Request, Copy
    <3>2. reqs' \subseteq Request
      BY <2>2, AnswerType DEF NodeLoad, NodesType
    <3> QED
      BY <2>2, <3>1, <3>2 DEF NodeLoad, NodesType
  <2>3. ASSUME NEW r \in reqs, NodeRefuse(r) \/ NodeFetch(r)
        PROVE  NodesType'
    BY <2>3, AnswerType DEF NodeRefuse, NodeFetch, NodesType
  <2>4. ASSUME NEW n \in Node, NodeLease(n)
        PROVE  NodesType'
    <3>1. [held[n] EXCEPT !.running = FALSE, !.lease = TRUE] \in Copy
      BY <2>4 DEF NodeLease, NodesType, Copy
    <3>2. held' = [held EXCEPT ![n] = [held[n] EXCEPT !.running = FALSE, !.lease = TRUE]]
      BY <2>4 DEF NodeLease, NodesType
    <3> QED
      BY <2>4, <3>1, <3>2 DEF NodeLease, NodesType
  <2>5. ASSUME NEW n \in Node, NodeReboot(n) \/ Cut(n) \/ Heal(n)
        PROVE  NodesType'
    BY <2>5 DEF NodeReboot, Cut, Heal, NodesType
  <2> QED
    BY <2>1, <2>2, <2>3, <2>4, <2>5 DEF NodeStep
<1> QED
  BY <1>1, <1>2 DEF records, contact, tasks, ghosts, RecordsType, FileType, ContactType,
                    OtherType, TasksType, TickPoint

-----------------------------------------------------------------------------
(* Types: the dispatches.                                                  *)

LEMMA DispMoveType ==
  ASSUME TasksType, NEW t \in Task, disp[t].pc # "idle",
         NEW pc \in {"next", "calling", "status", "unload", "placed", "failed"}, DispTo(t, pc),
         pc \in {"next", "failed"} \/ disp[t].node \in Node, UNCHANGED tick
  PROVE  TasksType'
<1>1. /\ disp' \in [Task -> DispType] /\ disp'[t] = [disp[t] EXCEPT !.pc = pc]
      /\ \A v \in Task \ {t} : disp'[v] = disp[v]
  BY DispToType DEF TasksType
<1>2. disp'[t].pc = pc /\ disp'[t].dec = disp[t].dec /\ disp'[t].node = disp[t].node
  BY <1>1 DEF TasksType, DispType
<1>3. DispPoint(disp'[t])
  BY <1>2 DEF TasksType, DispPoint
<1> QED
  BY <1>1, <1>3 DEF TasksType, TickPoint

(* What a dispatch's step leaves alone.                                    *)
LEMMA DispFrame ==
  ASSUME Types, DispStep, NodesType', RecordsType', FileType', left' \in [Event -> Nat],
         TasksType'
  PROVE  Types'
BY DEF Types, DispStep, contact, ghosts, ContactType, OtherType

LEMMA UnsettleType ==
  ASSUME Types, NEW t \in Task, disp[t].pc \in {"status", "unload"}, Unsettle(t), UNCHANGED tick
  PROVE  RecordsType' /\ FileType' /\ TasksType'
<1>1. disp[t].dec \in Decision /\ disp[t].node \in Node
  BY DEF Types, TasksType, DispPoint, DispType
<1>2. RecordsType'
  BY <1>1 DEF Types, RecordsType, Unsettle, Unsettled
<1> QED
  BY <1>1, <1>2, PersistType, DispMoveType DEF Unsettle, Types

LEMMA DispatchTypes ==
  ASSUME Types, NEW t \in Task, Dispatch(t)
  PROVE  Types'
<1> USE DEF Types
<1>1. CASE DispatchEmpty(t)
  <2>1. TasksType'
    BY <1>1, DispMoveType DEF DispatchEmpty, DispStep
  <2> QED
    BY <1>1, <2>1, DispFrame
       DEF DispatchEmpty, DispStep, NodesType, RecordsType, FileType, OtherType, records
<1>2. CASE DispatchLost(t)
  <2>1. TasksType'
    BY <1>2, DispMoveType DEF DispatchLost, DispStep, TasksType, DispPoint
  <2>2. left' \in [Event -> Nat]
    BY <1>2, SpendType DEF DispatchLost, OtherType, Event
  <2> QED
    BY <1>2, <2>1, <2>2, DispFrame
       DEF DispatchLost, DispStep, NodesType, RecordsType, FileType, records
<1>3. CASE Reconcile(t)
  <2>1. RecordsType' /\ FileType' /\ TasksType'
    <3>1. CASE Unsettle(t)
      BY <1>3, <3>1, UnsettleType DEF Reconcile, DispStep
    <3>2. ASSUME NEW pc \in {"unload", "next"}, DispTo(t, pc), UNCHANGED <<records, file>>
          PROVE  RecordsType' /\ FileType' /\ TasksType'
      <4>1. TasksType'
        BY <1>3, <3>2, DispMoveType DEF Reconcile, DispStep, TasksType, DispPoint
      <4> QED
        BY <3>2, <4>1 DEF records, RecordsType, FileType
    <3> QED
      BY <1>3, <3>1, <3>2 DEF Reconcile
  <2> QED
    BY <1>3, <2>1, DispFrame DEF Reconcile, DispStep, NodesType, OtherType
<1>4. CASE ReconcileUnload(t)
  <2>0. disp[t].node \in Node
    BY <1>4 DEF ReconcileUnload, TasksType, DispPoint
  <2>1. \E a \in Answers : Call(disp[t].node, Unloaded(disp[t].node), a)
    BY <1>4 DEF ReconcileUnload, Answers
  <2>2. Shrinks /\ departed' \subseteq Node /\ left' \in [Event -> Nat]
    BY <2>0, <2>1, CallFacts DEF OtherType
  <2>3. RecordsType' /\ FileType' /\ TasksType'
    <3>1. CASE Unsettle(t)
      BY <1>4, <3>1, UnsettleType DEF ReconcileUnload, DispStep
    <3>2. CASE DispTo(t, "next") /\ UNCHANGED <<records, file>>
      <4>1. TasksType'
        BY <1>4, <3>2, DispMoveType DEF ReconcileUnload, DispStep
      <4> QED
        BY <3>2, <4>1 DEF records, RecordsType, FileType
    <3> QED
      BY <1>4, <3>1, <3>2 DEF ReconcileUnload
  <2> QED
    BY <1>4, <2>2, <2>3, DispFrame DEF ReconcileUnload, DispStep, NodesType, Shrinks
<1>5. ASSUME NEW n \in Node, DispatchNext(t, n)
      PROVE  Types'
  <2>1. PICK pc \in {"calling", "next"} : pc = IF n \in up THEN "calling" ELSE "next"
    OBVIOUS
  <2>2. disp' = [disp EXCEPT ![t] = [disp[t] EXCEPT !.todo = @ \ {n}, !.first = FALSE,
                                                    !.node = n, !.pc = pc]]
    BY <1>5, <2>1 DEF DispatchNext, TasksType
  <2>3. disp[t] \in DispType /\ disp[t].todo \ {n} \in SUBSET Node
    BY DEF TasksType, DispType
  <2>4. /\ disp'[t] \in DispType /\ disp'[t].pc = pc /\ disp'[t].node = n
        /\ disp'[t].dec = disp[t].dec
        /\ \A v \in Task \ {t} : disp'[v] = disp[v]
    BY <2>2, <2>3 DEF DispType, TasksType
  <2>5. disp[t].pc = "next" /\ disp[t].dec # None /\ disp[t].dec \in Decision
    BY <1>5, <2>3 DEF DispatchNext, TasksType, DispPoint, DispType
  <2>6. TasksType'
    <3>1. disp' \in [Task -> DispType]
      BY <2>2, <2>4 DEF TasksType
    <3>2. tick' = tick
      BY <1>5 DEF DispatchNext, DispStep
    <3> QED
      BY <2>4, <2>5, <3>1, <3>2 DEF TasksType, DispPoint, TickPoint
  <2>7. NodesType'
    BY <1>5, <2>5 DEF DispatchNext, DispStep, NodesType, Request
  <2> QED
    BY <1>5, <2>6, <2>7, DispFrame
       DEF DispatchNext, DispStep, RecordsType, FileType, OtherType, records
<1>6. ASSUME NEW r \in reqs, DispatchAnswer(t, r)
      PROVE  Types'
  <2>0. r.node \in Node /\ disp[t].node \in Node
    BY <1>6 DEF NodesType, Request, DispatchAnswer, TasksType, DispPoint
  <2>1. TasksType'
    <3>1. PICK pc \in {"placed", "next"} : pc = IF r.phase = "ok" THEN "placed" ELSE "next"
      OBVIOUS
    <3>2. DispTo(t, pc)
      BY <1>6, <3>1 DEF DispatchAnswer, DispTo
    <3> QED
      BY <1>6, <2>0, <3>2, DispMoveType DEF DispatchAnswer, DispStep
  <2>2. RecordsType'
    BY <1>6, <2>0 DEF DispatchAnswer, RecordsType, records
  <2>3. FileType'
    BY <1>6, <2>2, PersistType DEF DispatchAnswer, FileType
  <2> QED
    BY <1>6, <2>1, <2>2, <2>3, DispFrame DEF DispatchAnswer, DispStep, NodesType, OtherType
<1> QED
  BY <1>1, <1>2, <1>3, <1>4, <1>5, <1>6 DEF Dispatch

-----------------------------------------------------------------------------
(* Types: the operator, and settling.                                      *)

LEMMA OperatorTypes ==
  ASSUME Types,
         \/ \E m \in Movable : OpPlace(m)
         \/ OpEnd
         \/ Settle
         \/ \E n \in Node, m \in Verbs : VerbCall(n, m)
         \/ VerbEnd
  PROVE  Types'
<1> USE DEF Types
<1>0. "op" \in Task
  BY DEF Task
<1>1. ASSUME NEW m \in Movable, OpPlace(m)
      PROVE  Types'
  <2>1. m \in BOOLEAN /\ 0 \in 0..MaxReschedules /\ up \in SUBSET Node /\ {} \in SUBSET Node
    BY PlaneAssumption DEF NodesType
  <2>2. Begun("op")
    <3>1. PICK cs \in SUBSET Node, av \in SUBSET Node : cs = up /\ av = {}
      BY <2>1
    <3>2. BeginDispatch("op", cs, av, m, 0)
      BY <1>1, <3>1 DEF OpPlace, BeginDispatch
    <3> QED
      BY <1>0, <2>1, <3>2, BeginType DEF TasksType
  <2>3. TasksType'
    BY <1>0, <1>1, <2>2, BegunPoint DEF OpPlace, TasksType, TickPoint, Begun
  <2>4. RecordsType'
    BY <1>1 DEF OpPlace, RecordsType, records
  <2>5. FileType'
    BY <1>1, <2>4, PersistType DEF OpPlace
  <2>6. left' \in [Event -> Nat]
    BY <1>1, SpendType DEF OpPlace, OtherType, Event
  <2> QED
    BY <1>1, <2>3, <2>4, <2>5, <2>6
       DEF OpPlace, nodes, NodesType, ContactType, OtherType
<1>2. CASE OpEnd
  <2>1. TasksType'
    BY <1>0, <1>2, DispEndType DEF OpEnd, TasksType, TickPoint
  <2>2. RecordsType'
    <3>1. CASE disp["op"].pc = "placed"
      <4>1. /\ disp["op"].node \in Node /\ disp["op"].movable \in BOOLEAN
            /\ 0 \in 0..MaxReschedules
        BY <1>0, <3>1, PlaneAssumption DEF TasksType, DispType, DispPoint
      <4>2. FreshLife(disp["op"].movable, 0) \in Life
        BY <4>1 DEF FreshLife, Life
      <4> QED
        BY <1>2, <3>1, <4>1, <4>2 DEF OpEnd, RecordsType, Lives
    <3>2. CASE disp["op"].pc # "placed"
      BY <1>2, <3>2 DEF OpEnd, RecordsType, records
    <3> QED
      BY <3>1, <3>2
  <2>3. FileType'
    BY <1>2, <2>2, PersistType DEF OpEnd, FileType
  <2> QED
    BY <1>2, <2>1, <2>2, <2>3
       DEF OpEnd, nodes, contact, ghosts, NodesType, ContactType, OtherType
<1>3. ASSUME NEW u \in unsettled, SettleAsk(u)
      PROVE  Types'
  <2>1. left' \in [Event -> Nat]
    BY <1>3, SpendType DEF SettleAsk, OtherType, Event
  <2>2. settling' \in SettleType
    BY <1>3 DEF SettleAsk, SettleType, RecordsType, Unsettled, Holds
  <2> QED
    BY <1>3, <2>1, <2>2
       DEF SettleAsk, SettleStep, nodes, contact, ghosts, records, NodesType, RecordsType, FileType,
           ContactType, OtherType, TasksType, TickPoint
<1>6. CASE SettleUse
  <2>1. settling.node \in Node
    BY <1>6 DEF SettleUse, OtherType, SettleIdle, SettleType
  <2>2. RecordsType'
    BY <1>6, <2>1 DEF SettleUse, RecordsType
  <2>3. FileType'
    BY <1>6, <2>2, PersistType DEF SettleUse
  <2> QED
    BY <1>6, <2>2, <2>3
       DEF SettleUse, SettleStep, nodes, contact, ghosts, NodesType, ContactType, OtherType,
           TasksType, TickPoint
<1>4. ASSUME NEW n \in Node, NEW m \in Verbs, VerbCall(n, m)
      PROVE  Types'
  <2>1. Shrinks /\ departed' \subseteq Node
    BY <1>4, EffectFacts DEF VerbCall
  <2>2. left' \in [Event -> Nat]
    BY <1>4, SpendType DEF VerbCall, OtherType, Event
  <2>3. verb' \in VerbType
    BY <1>4, PlaneAssumption DEF VerbCall, VerbType
  <2> QED
    BY <1>4, <2>1, <2>2, <2>3
       DEF VerbCall, records, contact, NodesType, Shrinks, RecordsType, FileType, ContactType,
           OtherType, TasksType, TickPoint
<1>5. CASE VerbEnd
  <2>1. RecordsType'
    BY <1>5 DEF VerbEnd, RecordsType, records, Lives
  <2>2. FileType'
    BY <1>5, <2>1, PersistType DEF VerbEnd, FileType
  <2>3. left' \in [Event -> Nat]
    BY <1>5, SpendType DEF VerbEnd, OtherType, Event
  <2>4. ContactType'
    BY <1>5 DEF VerbEnd, ContactType, NodesType
  <2>5. verb' \in VerbType
    BY <1>5 DEF VerbEnd, VerbIdle, VerbType
  <2> QED
    BY <1>5, <2>1, <2>2, <2>3, <2>4, <2>5
       DEF VerbEnd, nodes, ghosts, NodesType, OtherType, TasksType, TickPoint
<1> QED
  BY <1>1, <1>2, <1>3, <1>4, <1>5, <1>6 DEF Settle

-----------------------------------------------------------------------------
(* Types: the tick.                                                        *)

(* What most of a tick's steps leave alone.                                *)
LEMMA TickFrame ==
  ASSUME Types, UNCHANGED <<up, reqs, down, verb, settling, cutOff, stoppedAt>>, stopSeen' \in BOOLEAN,
         held' \in [Node -> Copy \cup {None}], departed' \subseteq Node,
         RecordsType', FileType', reach' \subseteq Node, left' \in [Event -> Nat], TasksType'
  PROVE  Types'
BY DEF Types, NodesType, ContactType, OtherType

LEMMA ForgetType ==
  ASSUME RecordsType, FileType, NEW n \in Node, ForgetRecord(n)
  PROVE  RecordsType' /\ FileType'
<1>1. RecordsType'
  BY DEF ForgetRecord, RecordsType, Lives
<1> QED
  BY <1>1, PersistType DEF ForgetRecord, FileType

(* The limit: a placement is begun for an instance that has moves left.    *)
LEMMA RescheduleType ==
  ASSUME Types, NEW c \in Life, NEW n \in Node, NEW dead \in BOOLEAN,
         NEW back \in {"mirror", "pass"}, NEW todo \in SUBSET Node,
         Reschedule(c, n, dead, back, todo)
  PROVE  TasksType'
<1>0. "tick" \in Task
  BY DEF Task
<1>1. CASE c.wait \/ Blocked(c, dead)
  <2>1. TickTo(back, todo) /\ UNCHANGED disp
    BY <1>1 DEF Reschedule
  <2> QED
    BY <2>1, TickToType DEF Types, TasksType
<1>2. CASE ~(c.wait \/ Blocked(c, dead))
  <2>1. c.resched + 1 \in 0..MaxReschedules /\ c.movable \in BOOLEAN
    BY <1>2, PlaneAssumption DEF Blocked, Life
  <2>2. PICK cs \in SUBSET Node, av \in SUBSET Node :
          /\ cs = IF ~dead /\ ~c.movable THEN reach \cap {n} ELSE reach
          /\ av = IF dead THEN {n} ELSE {}
    BY DEF Types, ContactType
  <2>3. BeginDispatch("tick", cs, av, c.movable, c.resched + 1)
    BY <1>2, <2>2 DEF Reschedule
  <2>4. Begun("tick")
    BY <1>0, <2>1, <2>3, BeginType DEF Types, TasksType
  <2>5. tick' = [pc |-> "dispatch", todo |-> todo, node |-> n, row |-> "none", back |-> back,
                 dead |-> dead]
    BY <1>2 DEF Reschedule, TickIdle
  <2>6. tick' \in TickType /\ TickPoint'
    BY <2>5 DEF TickType, TickPoint
  <2> QED
    BY <1>0, <2>4, <2>6, BegunPoint DEF Types, TasksType, Begun
<1> QED
  BY <1>1, <1>2

LEMMA SetLivesType ==
  ASSUME lives \in Lives, NEW n \in Node, NEW c \in Life, lives' = [lives EXCEPT ![n] = c]
  PROVE  lives' \in Lives /\ lives'[n] = c
BY DEF Lives

LEMMA WaitType ==
  ASSUME lives \in Lives, NEW n \in Node, NEW b \in BOOLEAN, lives[n] # None,
         lives' = [lives EXCEPT ![n].wait = b]
  PROVE  lives' \in Lives
<1>1. [lives[n] EXCEPT !.wait = b] \in Life
  BY DEF Lives, Life
<1>2. lives' = [lives EXCEPT ![n] = [lives[n] EXCEPT !.wait = b]]
  BY DEF Lives
<1> QED
  BY <1>1, <1>2, SetLivesType

LEMMA RowType == ASSUME NEW n PROVE RowOf(n) \in Row
BY DEF RowOf, Row

(* Reschedule with a life just written.                                    *)
LEMMA ReschedulePrimed ==
  ASSUME Types, NEW n \in Node, lives'[n] \in Life, NEW dead \in BOOLEAN,
         NEW back \in {"mirror", "pass"}, NEW todo \in SUBSET Node,
         Reschedule(lives'[n], n, dead, back, todo)
  PROVE  TasksType'
<1>1. PICK c \in Life : c = lives'[n]
  OBVIOUS
<1>2. Reschedule(c, n, dead, back, todo)
  BY <1>1 DEF Reschedule
<1> QED
  BY <1>2, RescheduleType

LEMMA MirrorTypes ==
  ASSUME Types, MirrorApply
  PROVE  Types'
<1> USE DEF Types
<1> DEFINE n == tick.node
<1>1. n \in Node /\ tick.todo \in SUBSET Node /\ tick.pc = "row"
  BY DEF MirrorApply, TasksType, TickPoint, TickType
<1>2. LifeOf(n) \in Life /\ lives \in Lives
  BY <1>1, LifeOfType DEF RecordsType
<1>3. ASSUME NEW to \in {"Running", "Stopped", "Lost", "Rescheduled"}, NEW f \in BOOLEAN,
             lives' = [lives EXCEPT ![n] = SetState(LifeOf(n), to, f)]
      PROVE  lives' \in Lives /\ lives'[n] \in Life
  <2>1. PICK c \in Life : c = SetState(LifeOf(n), to, f)
    BY <1>2, SetStateType
  <2> QED
    BY <1>1, <1>2, <1>3, <2>1, SetLivesType
<1>4. ASSUME TickBack, UNCHANGED disp
      PROVE  TasksType'
    BY <1>1, <1>4, TickBackType DEF TasksType
<1>5. RecordsType' /\ FileType' /\ TasksType'
  <2>1. CASE TickBack /\ UNCHANGED <<records, file, disp>>
    BY <1>4, <2>1 DEF records, RecordsType, FileType
  <2>2. CASE /\ lives' = [lives EXCEPT ![n] = SetState(LifeOf(n), "Lost", FALSE)]
             /\ Reschedule(lives'[n], n, FALSE, "mirror", tick.todo)
             /\ UNCHANGED <<placements, unsettled, file>>
    <3>1. lives' \in Lives /\ lives'[n] \in Life
      BY <1>3, <2>2
    <3>2. PICK k \in Node, todo \in SUBSET Node : k = n /\ todo = tick.todo
      BY <1>1
    <3>3. Reschedule(lives'[k], k, FALSE, "mirror", todo) /\ lives'[k] \in Life
      BY <2>2, <3>1, <3>2 DEF Reschedule, BeginDispatch, TickTo
    <3>4. TasksType'
      BY <3>3, ReschedulePrimed
    <3> QED
      BY <2>2, <3>1, <3>4 DEF RecordsType, FileType
  <2>3. CASE ForgetRecord(n) /\ TickBack /\ UNCHANGED disp
    BY <1>1, <1>4, <2>3, ForgetType
  <2>4. CASE /\ tick' = [tick EXCEPT !.pc = "start", !.row = "none"]
             /\ UNCHANGED <<records, file, disp>>
             /\ tick.back = "mirror"
    <3>1. tick' \in TickType /\ TickPoint'
      BY <1>1, <2>4 DEF TasksType, TickType, TickPoint
    <3> QED
      BY <2>4, <3>1 DEF records, RecordsType, FileType, TasksType
  <2>5. CASE /\ \E to \in {"Running", "Stopped"} :
                  lives' = lives \/ lives' = [lives EXCEPT ![n] = SetState(LifeOf(n), to, TRUE)]
             /\ TickBack /\ UNCHANGED <<placements, unsettled, file, disp>>
    <3>1. lives' \in Lives
      BY <1>2, <1>3, <2>5
    <3> QED
      BY <1>4, <2>5, <3>1 DEF RecordsType, FileType
  <2> QED
    BY <2>1, <2>2, <2>3, <2>4, <2>5 DEF MirrorApply
<1>6. stopSeen' \in BOOLEAN
  BY DEF MirrorApply, OtherType
<1> QED
  BY <1>5, <1>6, TickFrame DEF MirrorApply, nodes, contact, NodesType, ContactType, OtherType

LEMMA TickCallTypes ==
  ASSUME Types, TickCall
  PROVE  Types'
<1> USE DEF Types
<1>1. tick.node \in Node /\ tick.pc \in {"start", "orphan"} /\ tick.back # "none"
  BY DEF TickCall, TasksType, TickPoint
<1>2. TickStep /\ UNCHANGED <<records, reach, file, disp>>
  BY DEF TickCall
<1>3. /\ held' \in [Node -> Copy \cup {None}] /\ departed' \subseteq Node
      /\ left' \in [Event -> Nat] /\ tick' \in TickType /\ TickPoint'
  <2>1. CASE TickBack /\ UNCHANGED <<held, departed, left>>
    BY <1>1, <2>1, TickBackType DEF TasksType, NodesType, OtherType
  <2>2. ASSUME NEW a \in Answers,
               Call(tick.node, IF tick.pc = "start" THEN Started(tick.node)
                               ELSE Unloaded(tick.node), a),
               tick' = [tick EXCEPT !.pc = IF @ = "start" THEN "started" ELSE "unloaded",
                                    !.row = a]
        PROVE  /\ held' \in [Node -> Copy \cup {None}] /\ departed' \subseteq Node
               /\ left' \in [Event -> Nat] /\ tick' \in TickType /\ TickPoint'
    <3>1. Call(tick.node, Unloaded(tick.node), a) \/ Call(tick.node, Started(tick.node), a)
      BY <2>2 DEF Call
    <3>2. Shrinks /\ departed' \subseteq Node /\ left' \in [Event -> Nat]
      BY <1>1, <3>1, CallFacts DEF OtherType
    <3>3. PICK pc \in {"started", "unloaded"} : tick' = [tick EXCEPT !.pc = pc, !.row = a]
      BY <2>2
    <3>4. tick' \in TickType /\ tick'.node = tick.node /\ tick'.back = tick.back
      BY <3>3 DEF TasksType, TickType, Answers
    <3> QED
      BY <1>1, <3>2, <3>4 DEF Shrinks, TickPoint
  <2> QED
    BY <2>1, <2>2 DEF TickCall
<1> QED
  BY <1>2, <1>3, TickFrame
     DEF TickStep, ghosts, records, RecordsType, FileType, ContactType, OtherType, TasksType

(* A tick's step that changes no more than the tick and the lives.         *)
LEMMA TickStepTypes ==
  ASSUME Types, TickStep, lives' \in Lives, TasksType',
         UNCHANGED <<held, departed, placements, unsettled, reach, file, left>>
  PROVE  Types'
BY TickFrame DEF Types, TickStep, ghosts, NodesType, RecordsType, FileType, ContactType, OtherType

LEMMA TickLoopTypes ==
  ASSUME Types, TickBegin \/ PassBegin \/ TickEnd \/ \E n \in Node : MirrorStatus(n)
  PROVE  Types'
<1> USE DEF Types
<1>1. CASE TickBegin
  <2>1. PICK todo \in SUBSET Node : todo = up \cap placements
    BY DEF RecordsType
  <2>2. TickTo("mirror", todo)
    BY <1>1, <2>1 DEF TickBegin, TickTo
  <2>3. TasksType'
    BY <1>1, <2>2, TickToType DEF TickBegin, TasksType
  <2>4. RecordsType'
    BY <1>1 DEF TickBegin, RecordsType, records
  <2>5. FileType'
    BY <1>1, <2>4, PersistType DEF TickBegin, FileType
  <2>6. ContactType'
    BY <1>1 DEF TickBegin, NodesType, ContactType
  <2> QED
    BY <1>1, <2>3, <2>4, <2>5, <2>6 DEF TickBegin, nodes, ghosts, NodesType, OtherType
<1>2. CASE PassBegin
  <2>1. PICK todo \in SUBSET Node : todo = placements
    BY DEF RecordsType
  <2>2. TickTo("pass", todo)
    BY <1>2, <2>1 DEF PassBegin, TickTo
  <2>3. TasksType'
    BY <1>2, <2>2, TickToType DEF PassBegin, TasksType
  <2> QED
    BY <1>2, <2>3, TickStepTypes DEF PassBegin, records, RecordsType
<1>3. CASE TickEnd
  <2>1. TasksType'
    BY <1>3 DEF TickEnd, TasksType, TickIdle, TickType, TickPoint
  <2>2. RecordsType'
    BY <1>3 DEF TickEnd, RecordsType, records
  <2>3. FileType'
    BY <1>3, <2>2, PersistType DEF TickEnd
  <2> QED
    BY <1>3, <2>1, <2>2, <2>3, TickFrame
       DEF TickEnd, TickStep, ghosts, NodesType, ContactType, OtherType
<1>4. ASSUME NEW n \in Node, MirrorStatus(n)
      PROVE  Types'
  <2>1. tick' \in TickType /\ TickPoint'
    <3>1. CASE n \in up
      <4>1. PICK a \in TickType : a = At(n, "row", "mirror") /\ a.node = n /\ a.back = "mirror"
        BY AtType DEF TasksType
      <4>2. tick' = [a EXCEPT !.row = RowOf(n)] /\ RowOf(n) \in Row
        BY <1>4, <3>1, <4>1, RowType DEF MirrorStatus
      <4> QED
        BY <4>1, <4>2 DEF TickType, TickPoint
    <3>2. CASE n \notin up
      BY <1>4, <3>2 DEF MirrorStatus, TasksType, TickType, TickPoint
    <3> QED
      BY <3>1, <3>2
  <2>2. TasksType'
    BY <1>4, <2>1 DEF MirrorStatus, TasksType
  <2> QED
    BY <1>4, <2>2, TickStepTypes DEF MirrorStatus, records, RecordsType
<1> QED
  BY <1>1, <1>2, <1>3, <1>4

LEMMA SetLifeType ==
  ASSUME lives \in Lives, NEW n \in Node, NEW f \in BOOLEAN,
         NEW to \in {"Running", "Stopped", "Lost", "Rescheduled"},
         lives' = [lives EXCEPT ![n] = SetState(LifeOf(n), to, f)]
  PROVE  lives' \in Lives /\ lives'[n] \in Life
<1>1. PICK c \in Life : c = SetState(LifeOf(n), to, f)
  BY LifeOfType, SetStateType
<1> QED
  BY <1>1, SetLivesType

LEMMA PassTypes ==
  ASSUME Types, NEW n \in Node, PassStep(n)
  PROVE  Types'
<1> USE DEF Types
<1>1. PICK rest \in SUBSET Node : rest = tick.todo \ {n}
  BY DEF TasksType, TickType
<1>2. lives \in Lives /\ tick \in TickType
  BY DEF RecordsType, TasksType
<1>3. lives' \in Lives /\ TasksType'
  <2>1. CASE /\ lives' = [lives EXCEPT ![n] = SetState(LifeOf(n), "Running", FALSE)]
             /\ TickTo("pass", rest) /\ UNCHANGED disp
    BY <1>2, <2>1, SetLifeType, TickToType DEF TasksType
  <2>2. CASE tick' = At(n, "orphan", "pass") /\ UNCHANGED <<lives, disp>>
    <3>1. tick' \in TickType /\ TickPoint'
      BY <1>2, <2>2, AtType DEF TickPoint
    <3> QED
      BY <1>2, <2>2, <3>1 DEF TasksType
  <2>3. CASE /\ lives[n] # None
             /\ lives' = lives \/ lives' = [lives EXCEPT ![n] = SetState(lives[n], "Lost", FALSE)]
             /\ Reschedule(lives'[n], n, TRUE, "pass", tick.todo \ {n})
    <3>1. lives' \in Lives /\ lives'[n] \in Life
      <4>1. lives[n] \in Life
        BY <1>2, <2>3 DEF Lives
      <4>2. PICK c \in Life : c = SetState(lives[n], "Lost", FALSE)
        BY <4>1, SetStateType
      <4> QED
        BY <1>2, <2>3, <4>1, <4>2, SetLivesType
    <3>2. Reschedule(lives'[n], n, TRUE, "pass", rest)
      BY <1>1, <2>3
    <3> QED
      BY <3>1, <3>2, ReschedulePrimed
  <2>4. CASE /\ tick' = IF n \in up THEN [At(n, "rejoin", "pass") EXCEPT !.row = RowOf(n)]
                        ELSE [tick EXCEPT !.todo = rest]
             /\ UNCHANGED <<lives, disp>>
             /\ tick.pc = "pass"
    <3>1. tick' \in TickType /\ TickPoint'
      <4>1. CASE n \in up
        <5>1. PICK a \in TickType : a = At(n, "rejoin", "pass") /\ a.node = n /\ a.back = "pass"
          BY <1>2, AtType
        <5>2. tick' = [a EXCEPT !.row = RowOf(n)] /\ RowOf(n) \in Row
          BY <2>4, <4>1, <5>1, RowType
        <5> QED
          BY <5>1, <5>2 DEF TickType, TickPoint
      <4>2. CASE n \notin up
        BY <1>2, <2>4, <4>2 DEF TickType, TickPoint
      <4> QED
        BY <4>1, <4>2
    <3> QED
      BY <1>2, <2>4, <3>1 DEF TasksType
  <2>5. CASE TickTo("pass", rest) /\ UNCHANGED <<lives, disp>>
    BY <1>2, <2>5, TickToType DEF TasksType
  <2> QED
    BY <1>1, <2>1, <2>2, <2>3, <2>4, <2>5 DEF PassStep
<1> QED
  BY <1>3, TickStepTypes DEF PassStep

LEMMA RejoinTypes ==
  ASSUME Types, StartedApply \/ RejoinApply \/ OrphanApply
  PROVE  Types'
<1> USE DEF Types
<1> DEFINE n == tick.node
<1>1. /\ n \in Node /\ tick.todo \in SUBSET Node /\ tick \in TickType /\ lives \in Lives
      /\ tick.pc \in {"started", "rejoin", "unloaded"} /\ TickPoint /\ tick.back # "none"
  BY DEF StartedApply, RejoinApply, OrphanApply, TasksType, TickPoint, TickType, RecordsType
<1>2. ASSUME TickBack, UNCHANGED disp
      PROVE  TasksType'
  BY <1>1, <1>2, TickBackType DEF TasksType
<1>3. CASE StartedApply
  <2>1. PICK f \in BOOLEAN : f = (tick.back = "mirror")
    OBVIOUS
  <2>2. lives' \in Lives
    BY <1>1, <1>3, <2>1, SetLifeType DEF StartedApply
  <2> QED
    BY <1>2, <1>3, <2>2, TickStepTypes DEF StartedApply
<1>4. CASE RejoinApply
  <2>1. RecordsType' /\ FileType' /\ TasksType'
    <3>1. CASE ForgetRecord(n) /\ TickBack /\ UNCHANGED disp
      BY <1>1, <1>2, <3>1, ForgetType
    <3>2. CASE TickBack /\ UNCHANGED disp /\ UNCHANGED <<records, file>>
      BY <1>2, <3>2 DEF records, RecordsType, FileType
    <3>3. CASE /\ lives[n] # None /\ Reschedule(lives[n], n, FALSE, "pass", tick.todo)
               /\ UNCHANGED <<records, file>>
      <4>1. PICK k \in Node, todo \in SUBSET Node, c \in Life :
              k = n /\ todo = tick.todo /\ c = lives[n]
        BY <1>1, <3>3 DEF Lives
      <4>2. Reschedule(c, k, FALSE, "pass", todo)
        BY <3>3, <4>1 DEF Reschedule, BeginDispatch, TickTo
      <4>3. TasksType'
        BY <4>2, RescheduleType
      <4> QED
        BY <3>3, <4>3 DEF records, RecordsType, FileType
    <3>4. CASE /\ tick' = [tick EXCEPT !.pc = "start", !.row = "none"]
               /\ UNCHANGED <<records, file, disp>>
      <4>1. tick' \in TickType /\ TickPoint'
        BY <1>1, <3>4 DEF TickType, TickPoint
      <4> QED
        BY <3>4, <4>1 DEF records, RecordsType, FileType, TasksType
    <3>5. CASE /\ lives' = [lives EXCEPT ![n] = SetState(LifeOf(n), "Running", FALSE)]
               /\ TickBack /\ UNCHANGED <<placements, unsettled, file, disp>>
      <4>1. lives' \in Lives
        BY <1>1, <3>5, SetLifeType
      <4> QED
        BY <1>2, <3>5, <4>1 DEF RecordsType, FileType
    <3> QED
      BY <1>4, <3>1, <3>2, <3>3, <3>4, <3>5 DEF RejoinApply
  <2> QED
    BY <1>4, <2>1, TickFrame
       DEF RejoinApply, TickStep, ghosts, NodesType, ContactType, OtherType
<1>5. CASE OrphanApply
  <2>1. TasksType'
    BY <1>2, <1>5 DEF OrphanApply
  <2>2. CASE ForgetRecord(n)
    <3>1. reach' \subseteq Node
      BY <1>1, <1>5 DEF OrphanApply, ContactType
    <3> QED
      BY <1>1, <1>5, <2>1, <2>2, <3>1, ForgetType, TickFrame
         DEF OrphanApply, TickStep, ghosts, NodesType, OtherType
  <2>3. CASE /\ lives' = IF lives[n] = None THEN lives ELSE [lives EXCEPT ![n].wait = TRUE]
             /\ UNCHANGED <<placements, unsettled, reach, file>>
    <3>1. lives' \in Lives
      BY <1>1, <2>3, WaitType
    <3> QED
      BY <1>5, <2>1, <2>3, <3>1, TickStepTypes DEF OrphanApply
  <2> QED
    BY <1>5, <2>2, <2>3 DEF OrphanApply
<1> QED
  BY <1>3, <1>4, <1>5

LEMMA MovedTypes ==
  ASSUME Types, Moved \/ NotMoved
  PROVE  Types'
<1> USE DEF Types
<1> DEFINE s == disp["tick"]
           old == tick.node
<1>0. "tick" \in Task
  BY DEF Task
<1>1. /\ old \in Node /\ tick \in TickType /\ TickPoint /\ tick.pc = "dispatch" /\ lives \in Lives
      /\ s.movable \in BOOLEAN /\ s.resched \in 0..MaxReschedules
  BY <1>0 DEF Moved, NotMoved, TasksType, TickPoint, RecordsType, DispType
<1>2. TasksType'
  BY <1>0, <1>1, TickBackType, DispEndType DEF Moved, NotMoved, TasksType
<1>3. CASE Moved
  <2>1. s.node \in Node
    BY <1>0, <1>3 DEF Moved, TasksType, DispPoint
  <2>2. PICK f \in Life : f = FreshLife(s.movable, s.resched)
    BY <1>1, FreshLifeType
  <2>3. PICK placed \in Lives : placed = [lives EXCEPT ![s.node] = f] /\ placed[s.node] = f
    <3>1. [lives EXCEPT ![s.node] = f] \in Lives /\ [lives EXCEPT ![s.node] = f][s.node] = f
      BY <1>1, <2>1 DEF Lives
    <3> QED
      BY <3>1
  <2>4. PICK g \in Life :
          g = SetState(IF s.node = old THEN placed[old] ELSE LifeOf(old), "Rescheduled", FALSE)
    <3>1. PICK c \in Life : c = IF s.node = old THEN placed[old] ELSE LifeOf(old)
      BY <1>1, <2>3, LifeOfType
    <3> QED
      BY <3>1, SetStateType
  <2>5. RecordsType' /\ FileType'
    <3>1. CASE tick.dead
      <4>1. lives' = [placed EXCEPT ![old] = g] /\ UNCHANGED <<placements, unsettled>>
        BY <1>3, <2>2, <2>3, <2>4, <3>1 DEF Moved
      <4>2. lives' \in Lives
        BY <1>1, <2>3, <4>1 DEF Lives
      <4>3. file' = [placements |-> placements, lives |-> placed, unsettled |-> unsettled]
        BY <1>3, <2>2, <2>3, <3>1 DEF Moved
      <4> QED
        BY <2>3, <4>1, <4>2, <4>3 DEF RecordsType, FileType
    <3>2. CASE ~tick.dead
      <4>1. /\ lives' = IF s.node = old THEN placed ELSE [placed EXCEPT ![old] = None]
            /\ placements' \subseteq placements /\ unsettled' = unsettled
        BY <1>3, <2>2, <2>3, <3>2 DEF Moved
      <4>2. lives' \in Lives
        BY <2>3, <4>1 DEF Lives
      <4>3. RecordsType'
        BY <4>1, <4>2 DEF RecordsType
      <4> QED
        BY <1>3, <3>2, <4>3, PersistType DEF Moved
    <3> QED
      BY <3>1, <3>2
  <2> QED
    BY <1>2, <1>3, <2>5, TickFrame
       DEF Moved, TickStep, ghosts, NodesType, ContactType, OtherType
<1>4. CASE NotMoved
  <2>1. lives' \in Lives
    BY <1>1, <1>4, WaitType DEF NotMoved
  <2> QED
    BY <1>2, <1>4, <2>1, TickStepTypes DEF NotMoved
<1> QED
  BY <1>3, <1>4

LEMMA TickTypes ==
  ASSUME Types, Tick
  PROVE  Types'
BY TickLoopTypes, MirrorTypes, TickCallTypes, RejoinTypes, MovedTypes, PassTypes DEF Tick

-----------------------------------------------------------------------------
(* Types: time, and the crash.                                             *)

(* What happens outside, and what it leaves alone.                         *)
LEMMA OutsideLeaves ==
  ASSUME Outside
  PROVE  /\ UNCHANGED <<up, held, departed, reqs, cached, placements, lives, unsettled, reach, down,
                        file, disp, tick, verb, settling, cutOff, stoppedAt, stopSeen, late>>
         /\ UNCHANGED left \/ Spend("vouch") \/ Spend("remove")
BY DEF Outside, RemovePackage, Vouch, Suspect, nodes, records, contact, tasks, ghosts

LEMMA TimeTypes ==
  ASSUME Types, Crash \/ Outside \/ \E n \in Node : DeadAfter(n) \/ BackoffOver(n)
  PROVE  Types'
<1> USE DEF Types
<1>1. CASE Crash
  <2>1. left' \in [Event -> Nat]
    BY <1>1, SpendType DEF Crash, OtherType, Event
  <2>2. TasksType'
    <3>1. disp' = [t \in Task |-> DispIdle] /\ tick' = TickIdle
      BY <1>1 DEF Crash
    <3>2. disp' \in [Task -> DispType] /\ \A t \in Task : DispPoint(disp'[t])
      BY <3>1, DispIdleType
    <3>3. tick' \in TickType /\ TickPoint'
      BY <3>1 DEF TickIdle, TickType, TickPoint
    <3> QED
      BY <3>2, <3>3 DEF TasksType
  <2>3. cutOff' \subseteq Decision
    BY <1>1 DEF Crash, OtherType, TasksType, DispType
  <2>4. verb' \in VerbType /\ ContactType'
    BY <1>1 DEF Crash, VerbIdle, VerbType, NodesType, ContactType
  <2>5. NodesType' /\ RecordsType' /\ FileType'
    BY <1>1 DEF Crash, NodesType, RecordsType, FileType
  <2> QED
    BY <1>1, <2>1, <2>2, <2>3, <2>4, <2>5 DEF Crash, OtherType
<1>2. ASSUME NEW n \in Node, DeadAfter(n)
      PROVE  Types'
  BY <1>2 DEF DeadAfter, nodes, records, tasks, ghosts, NodesType, RecordsType, FileType,
              ContactType, OtherType, TasksType, TickPoint
<1>3. ASSUME NEW n \in Node, BackoffOver(n)
      PROVE  Types'
  <2>1. lives' \in Lives
    BY <1>3, WaitType DEF BackoffOver, RecordsType
  <2> QED
    BY <1>3, <2>1 DEF BackoffOver, nodes, contact, tasks, ghosts, NodesType, RecordsType, FileType,
                      ContactType, OtherType, TasksType, TickPoint
<1>4. CASE Outside
  <2>1. left' \in [Event -> Nat]
    BY <1>4, OutsideLeaves, SpendType DEF OtherType, Event
  <2> QED
    BY <1>4, <2>1, OutsideLeaves DEF NodesType, RecordsType, FileType, ContactType, OtherType,
                                     TasksType, TickPoint
<1> QED
  BY <1>1, <1>2, <1>3, <1>4

LEMMA InitTypes == Init => Types
<1> SUFFICES ASSUME Init PROVE Types
  OBVIOUS
<1>1. NodesType /\ RecordsType /\ FileType /\ ContactType
  BY DEF Init, NodesType, RecordsType, FileType, ContactType, NoRecords, Lives
<1>2. OtherType
  BY PlaneAssumption DEF Init, OtherType, VerbIdle, VerbType, SettleIdle
<1>3. TasksType
  <2>1. tick \in TickType /\ TickPoint
    BY DEF Init, TickIdle, TickType, TickPoint
  <2> QED
    BY <2>1, DispIdleType DEF Init, TasksType
<1> QED
  BY <1>1, <1>2, <1>3 DEF Types

LEMMA StepTypes == Types /\ [Next]_vars => Types'
<1> SUFFICES ASSUME Types, [Next]_vars PROVE Types'
  OBVIOUS
<1>1. CASE UNCHANGED vars
  BY <1>1 DEF vars, nodes, records, contact, tasks, ghosts, Types, NodesType, RecordsType,
              FileType, ContactType, OtherType, TasksType, TickPoint
<1>2. CASE Next
  BY <1>2, NodeTypes, DispatchTypes, OperatorTypes, TickTypes, TimeTypes DEF Next
<1> QED
  BY <1>1, <1>2

(* A decision is found late only when a node is asked about it.            *)
LEMMA LateLeaves ==
  ASSUME [Next]_vars
  PROVE  \/ UNCHANGED late
         \/ \E t \in Task : Reconcile(t) /\ NoteLate(disp[t].dec, disp[t].node)
         \/ \E u \in unsettled : SettleAsk(u)
<1>1. CASE \/ \E r \in reqs : NodeStep(r)
           \/ \E n \in Node : NodeLease(n) \/ NodeReboot(n) \/ Cut(n) \/ Heal(n)
  BY <1>1 DEF NodeStep, NodeBegin, NodeFetch, NodeLoad, NodeRefuse, NodeLease, NodeReboot, Cut, Heal
<1>2. ASSUME NEW t \in Task, Dispatch(t)
      PROVE  UNCHANGED late \/ (Reconcile(t) /\ NoteLate(disp[t].dec, disp[t].node))
  BY <1>2 DEF Dispatch, DispatchEmpty, DispatchLost, Reconcile, ReconcileUnload, DispatchNext,
              DispatchAnswer
<1>3. CASE Tick
  <2>1. CASE TickBegin \/ MirrorApply
    BY <2>1 DEF TickBegin, MirrorApply
  <2>2. CASE ~(TickBegin \/ MirrorApply)
    <3>1. TickStep
      BY <1>3, <2>2 DEF Tick, TickCall, StartedApply, PassBegin, TickEnd, NotMoved, MirrorStatus,
                        PassStep, RejoinApply, OrphanApply, Moved
    <3> QED
      BY <3>1 DEF TickStep
  <2> QED
    BY <2>1, <2>2
<1>4. CASE \/ (\E m \in Movable : OpPlace(m)) \/ OpEnd \/ SettleUse \/ VerbEnd
           \/ \E n \in Node, m \in Verbs : VerbCall(n, m)
           \/ (\E n \in Node : DeadAfter(n) \/ BackoffOver(n))
           \/ Outside \/ Crash \/ UNCHANGED vars
  BY <1>4 DEF OpPlace, OpEnd, SettleUse, VerbCall, VerbEnd, DeadAfter, BackoffOver, Outside,
              RemovePackage, Vouch, Suspect, Crash, vars
<1> QED
  BY <1>1, <1>2, <1>3, <1>4 DEF Next, Settle

LEMMA SideStep == Types /\ SideType /\ [Next]_vars => SideType'
<1> SUFFICES ASSUME Types, SideType, [Next]_vars PROVE SideType'
  OBVIOUS
<1> USE DEF SideType
<1>1. late' \subseteq Unsettled
  <2>1. \A t \in Task : Reconcile(t) => disp[t].dec \in Decision /\ disp[t].node \in Node
    BY DEF Reconcile, Types, TasksType, DispType, DispPoint
  <2>2. \A u \in unsettled : u.dec \in Decision /\ u.node \in Node
    BY DEF Types, RecordsType, Unsettled
  <2> QED
    BY <2>1, <2>2, LateLeaves DEF SettleAsk, NoteLate, Unsettled
<1>2. cached' \subseteq Node /\ vouched' \subseteq Node /\ packaged' \in BOOLEAN
  <2>1. ASSUME NEW r \in reqs, NodeStep(r)
        PROVE  UNCHANGED <<vouched, packaged>> /\ cached' \subseteq cached \cup {r.node}
    BY <2>1 DEF NodeStep, NodeBegin, NodeFetch, NodeLoad, NodeRefuse, outside
  <2>2. \A r \in reqs : r.node \in Node
    BY DEF Types, NodesType, Request
  <2>3. CASE \E n \in Node : NodeLease(n) \/ NodeReboot(n) \/ Cut(n) \/ Heal(n)
    BY <2>3 DEF NodeLease, NodeReboot, Cut, Heal, outside
  <2>7. CASE Outside
    BY <2>7 DEF Outside, RemovePackage, Vouch, Suspect, nodes
  <2>4. CASE (\E t \in Task : Dispatch(t)) \/ Settle
    <3>1. ASSUME NEW t \in Task, Dispatch(t) PROVE DispStep
      BY <3>1 DEF Dispatch, DispatchEmpty, DispatchLost, Reconcile, ReconcileUnload, DispatchNext,
                  DispatchAnswer
    <3>2. Settle => SettleStep
      BY DEF Settle, SettleAsk, SettleUse
    <3> QED
      BY <2>4, <3>1, <3>2 DEF DispStep, SettleStep, nodes, outside
  <2>5. CASE Tick
    <3>1. CASE TickBegin \/ MirrorApply
      BY <3>1 DEF TickBegin, MirrorApply, nodes, outside
    <3>2. CASE ~(TickBegin \/ MirrorApply)
      <4>1. TickStep
        BY <2>5, <3>2 DEF Tick, TickCall, StartedApply, PassBegin, TickEnd, NotMoved, MirrorStatus,
                          PassStep, RejoinApply, OrphanApply, Moved
      <4> QED
        BY <4>1 DEF TickStep, outside
    <3> QED
      BY <3>1, <3>2
  <2>6. CASE \/ (\E m \in Movable : OpPlace(m)) \/ OpEnd \/ VerbEnd \/ Crash \/ UNCHANGED vars
             \/ \E n \in Node, m \in Verbs : VerbCall(n, m)
             \/ \E n \in Node : DeadAfter(n) \/ BackoffOver(n)
    BY <2>6 DEF OpPlace, OpEnd, VerbEnd, Crash, VerbCall, DeadAfter, BackoffOver, vars, nodes,
                outside
  <2> QED
    BY <2>1, <2>2, <2>3, <2>4, <2>5, <2>6, <2>7 DEF Next
<1> QED
  BY <1>1, <1>2

-----------------------------------------------------------------------------
(* What the steps leave alone.                                             *)

LEMMA NodesLeave ==
  ASSUME \/ \E r \in reqs : NodeStep(r)
         \/ \E n \in Node : NodeLease(n) \/ NodeReboot(n) \/ Cut(n) \/ Heal(n)
  PROVE  /\ UNCHANGED <<placements, lives, unsettled, reach, down, file, disp, tick, verb, cutOff,
                        stoppedAt, stopSeen>>
         /\ up \subseteq up' \/ \E n \in Node : Cut(n)
         /\ \/ UNCHANGED left \/ Spend("refuse") \/ Spend("reboot")
            \/ Spend("cut") /\ \E n \in Node : Cut(n)
<1>1. ASSUME NEW r \in reqs, NodeStep(r)
      PROVE  /\ UNCHANGED <<records, contact, file, tasks, ghosts, up>>
             /\ UNCHANGED left \/ Spend("refuse")
  BY <1>1 DEF NodeStep, NodeBegin, NodeFetch, NodeLoad, NodeRefuse
<1>2. ASSUME NEW n \in Node, NodeLease(n) \/ NodeReboot(n) \/ Cut(n) \/ Heal(n)
      PROVE  /\ UNCHANGED <<records, contact, file, tasks, ghosts>>
             /\ up \subseteq up' \/ Cut(n)
             /\ UNCHANGED left \/ Spend("reboot") \/ (Spend("cut") /\ Cut(n))
  BY <1>2 DEF NodeLease, NodeReboot, Cut, Heal
<1> QED
  BY <1>1, <1>2 DEF records, contact, tasks, ghosts

LEMMA DispatchLeaves ==
  ASSUME NEW t \in Task, Dispatch(t)
  PROVE  /\ UNCHANGED <<up, lives, reach, down, tick, verb, cutOff, stoppedAt, stopSeen>>
         /\ UNCHANGED left \/ Spend("lose") \/ Spend("refuse")
         /\ UNCHANGED <<placements, unsettled, file>> \/ Persist
         /\ UNCHANGED unsettled \/ (Unsettle(t) /\ (Reconcile(t) \/ ReconcileUnload(t)))
         /\ placements \subseteq placements'
         /\ UNCHANGED placements \/ \E r \in reqs : DispatchAnswer(t, r)
<1>1. UNCHANGED <<up, reach, down, tick, verb, cutOff, stoppedAt, stopSeen>>
  <2>1. DispStep
    BY DEF Dispatch, DispatchEmpty, DispatchLost, Reconcile, ReconcileUnload, DispatchNext,
       DispatchAnswer
  <2> QED
    BY <2>1 DEF DispStep, contact, ghosts
<1>2. UNCHANGED left \/ Spend("lose") \/ Spend("refuse")
  BY DEF Dispatch, DispatchEmpty, DispatchLost, Reconcile, ReconcileUnload, DispatchNext,
     DispatchAnswer, Call
<1>3. /\ UNCHANGED lives
      /\ UNCHANGED <<placements, unsettled, file>> \/ Persist
      /\ UNCHANGED unsettled \/ (Unsettle(t) /\ (Reconcile(t) \/ ReconcileUnload(t)))
      /\ placements \subseteq placements'
      /\ UNCHANGED placements \/ \E r \in reqs : DispatchAnswer(t, r)
  <2>1. CASE Unsettle(t) /\ (Reconcile(t) \/ ReconcileUnload(t))
    BY <2>1 DEF Unsettle
  <2>2. CASE UNCHANGED <<records, file>>
    BY <2>2 DEF records
  <2>3. ASSUME NEW r \in reqs, DispatchAnswer(t, r)
        PROVE  /\ UNCHANGED <<records, file>> \/ (UNCHANGED <<lives, unsettled>> /\ Persist)
               /\ placements \subseteq placements'
    BY <2>3 DEF DispatchAnswer, records
  <2>4. \/ Unsettle(t) /\ (Reconcile(t) \/ ReconcileUnload(t))
        \/ UNCHANGED <<records, file>>
        \/ \E r \in reqs : DispatchAnswer(t, r)
    BY DEF Dispatch, DispatchEmpty, DispatchLost, Reconcile, ReconcileUnload, DispatchNext
  <2> QED
    BY <2>1, <2>2, <2>3, <2>4
<1> QED
  BY <1>1, <1>2, <1>3

LEMMA TickLeaves ==
  ASSUME Tick
  PROVE  /\ UNCHANGED <<up, reqs, verb, cutOff, stoppedAt, unsettled, late, settling>>
         /\ UNCHANGED left \/ Spend("lose") \/ Spend("refuse")
         /\ tick.pc = "idle" => TickBegin
         /\ ~TickBegin => UNCHANGED down
         /\ placements' \subseteq placements
<1>1. CASE TickBegin \/ MirrorApply
  BY <1>1 DEF TickBegin, MirrorApply, ForgetRecord, nodes, contact, ghosts, records
<1>2. CASE TickCall \/ StartedApply \/ PassBegin \/ TickEnd \/ NotMoved
           \/ \E n \in Node : MirrorStatus(n) \/ PassStep(n)
  <2>1. TickStep /\ tick.pc # "idle" /\ UNCHANGED <<unsettled, placements>>
    BY <1>2 DEF TickCall, StartedApply, PassBegin, TickEnd, NotMoved, MirrorStatus, PassStep, records
  <2>2. UNCHANGED left \/ Spend("lose") \/ Spend("refuse")
    BY <1>2 DEF TickCall, Call, StartedApply, PassBegin, TickEnd, NotMoved, MirrorStatus, PassStep
  <2> QED
    BY <2>1, <2>2 DEF TickStep, ghosts
<1>3. CASE RejoinApply \/ OrphanApply \/ Moved
  <2>1. /\ TickStep /\ tick.pc # "idle" /\ UNCHANGED <<unsettled, left>>
        /\ placements' \subseteq placements
    BY <1>3 DEF RejoinApply, OrphanApply, Moved, ForgetRecord, records
  <2> QED
    BY <2>1 DEF TickStep, ghosts
<1> QED
  BY <1>1, <1>2, <1>3 DEF Tick

LEMMA OthersLeave ==
  ASSUME \/ \E m \in Movable : OpPlace(m)
         \/ OpEnd
         \/ Settle
         \/ \E n \in Node, m \in Verbs : VerbCall(n, m)
         \/ VerbEnd
         \/ \E n \in Node : DeadAfter(n) \/ BackoffOver(n)
         \/ Outside
  PROVE  /\ UNCHANGED <<up, reqs, tick, cutOff>> /\ unsettled' \subseteq unsettled
         /\ \/ UNCHANGED left \/ Spend("settle") \/ Spend("verb") \/ Spend("lose")
            \/ Spend("vouch") \/ Spend("remove")
            \/ Spend("place") /\ \E m \in Movable : OpPlace(m)
         /\ UNCHANGED down \/ (tick.pc = "idle" /\ \E n \in Node : DeadAfter(n))
         /\ \/ UNCHANGED verb \/ VerbEnd
            \/ \E n \in Node, m \in Verbs : VerbCall(n, m)
         /\ \/ UNCHANGED <<stoppedAt, stopSeen>> \/ \E m \in Movable : OpPlace(m)
            \/ \E n \in Node, m \in Verbs : VerbCall(n, m)
         /\ UNCHANGED <<placements, unsettled, file>> \/ Persist
         /\ placements \subseteq placements' \/ VerbEnd
         /\ placements' \subseteq placements \/ Settle
         /\ UNCHANGED lives \/ OpEnd \/ VerbEnd \/ \E n \in Node : BackoffOver(n)
         /\ UNCHANGED disp \/ OpEnd \/ \E m \in Movable : OpPlace(m)
<1>1. ASSUME NEW m \in Movable, OpPlace(m)
      PROVE  /\ UNCHANGED <<up, reqs, tick, cutOff, unsettled, verb, down, placements, lives>>
             /\ Spend("place") /\ Persist
  BY <1>1 DEF OpPlace, nodes, records
<1>2. CASE OpEnd
  BY <1>2 DEF OpEnd, nodes, records, ghosts, contact
<1>3. ASSUME Settle
      PROVE  /\ UNCHANGED <<up, reqs, tick, cutOff, verb, down, lives, disp, stoppedAt, stopSeen>>
             /\ unsettled' \subseteq unsettled /\ placements \subseteq placements'
             /\ UNCHANGED left \/ Spend("settle")
             /\ UNCHANGED <<placements, unsettled, file>> \/ Persist
  BY <1>3 DEF Settle, SettleAsk, SettleUse, SettleStep, nodes, records, ghosts, contact
<1>4. ASSUME NEW n \in Node, NEW m \in Verbs, VerbCall(n, m)
      PROVE  /\ UNCHANGED <<up, reqs, tick, cutOff, unsettled, down, placements, file, lives, disp>>
             /\ Spend("verb")
  BY <1>4 DEF VerbCall, records, contact
<1>5. CASE VerbEnd
  BY <1>5 DEF VerbEnd, nodes, records, ghosts
<1>6. ASSUME NEW n \in Node, DeadAfter(n) \/ BackoffOver(n)
      PROVE  /\ UNCHANGED <<up, reqs, tick, cutOff, unsettled, verb, left, placements, file, disp,
                            stoppedAt, stopSeen>>
             /\ UNCHANGED down \/ (tick.pc = "idle" /\ DeadAfter(n))
             /\ UNCHANGED lives \/ BackoffOver(n)
  BY <1>6 DEF DeadAfter, BackoffOver, nodes, records, tasks, ghosts, contact
<1> QED
  BY <1>1, <1>2, <1>3, <1>4, <1>5, <1>6, OutsideLeaves

-----------------------------------------------------------------------------
(* One copy per decision.                                                  *)

(* The two dispatches are of different decisions.                          *)
Apart ==
  \A t, v \in Task : disp[t].dec # None /\ disp[t].dec = disp[v].dec => t = v

(* There is one request of a decision to a node, and until it is answered  *)
(* with success the node does not hold the decision.                       *)
ReqsOK ==
  /\ \A r, s \in reqs : r.dec = s.dec /\ r.node = s.node => r = s
  /\ \A r \in reqs : r.phase # "ok" => ~Holds(r.dec, r.node)

(* A node has a decision, or a request of it that it may still carry out.  *)
Queued(d, n) ==
  \E r \in reqs : r.dec = d /\ r.node = n /\ r.phase \in {"sent", "handling"}
Pending(d, n) == Holds(d, n) \/ Queued(d, n)

(* A dispatch asks a node once, and leaves nothing behind at the nodes it  *)
(* has passed but what was found late.                                     *)
DispOK ==
  \A t \in Task :
    /\ disp[t].node \notin disp[t].todo
    /\ \A r \in reqs : r.dec = disp[t].dec => r.node \notin disp[t].todo
    /\ \A u \in unsettled \cup late : u.dec = disp[t].dec => u.node \notin disp[t].todo
    /\ \A n \in Node : Pending(disp[t].dec, n) =>
         (n = disp[t].node /\ disp[t].pc # "next") \/ Late(disp[t].dec, n)
    /\ \A n \in Node : disp[t].pc = "unload" /\ Queued(disp[t].dec, n) => Late(disp[t].dec, n)

(* One node has the decision, or may come to have it, or one of two was    *)
(* found late.                                                             *)
OnePending ==
  \A d \in Decision, m, n \in Node :
    m # n /\ Pending(d, m) /\ Pending(d, n) => Late(d, m) \/ Late(d, n)

OneInv == Apart /\ ReqsOK /\ DispOK /\ OnePending
IInv == Types /\ SideType /\ OneInv

(* A dispatch that ends, or stays with its decision and its node: it looks *)
(* for the next node, or unloads, only once nothing can come of the last   *)
(* but what is found late.                                                 *)
Follows(t) ==
  \/ disp'[t] = DispIdle
  \/ /\ disp'[t].dec = disp[t].dec /\ disp'[t].node = disp[t].node
     /\ disp'[t].todo \subseteq disp[t].todo
     /\ disp'[t].pc = "next" =>
          \/ disp[t].pc = "next"
          \/ \A n \in Node : Pending(disp[t].dec, n)' => Late(disp[t].dec, n)'
     /\ disp'[t].pc = "unload" =>
          \/ disp[t].pc = "unload"
          \/ \A n \in Node : Queued(disp[t].dec, n)' => Late(disp[t].dec, n)'

(* Nobody takes up a new decision.                                         *)
NothingNew ==
  /\ \A r \in reqs' : \E s \in reqs : s.dec = r.dec /\ s.node = r.node
  /\ \A d \in Decision, n \in Node : Pending(d, n)' => Pending(d, n)
  /\ \A d \in Decision, n \in Node : Queued(d, n)' => Queued(d, n)

(* What is unsettled or late is where a dispatch is, or of none.           *)
Asides ==
  /\ late \subseteq late'
  /\ \A u \in unsettled' \cup late' :
       \/ u \in unsettled \cup late
       \/ \E t \in Task : u.dec = disp[t].dec /\ u.node = disp[t].node
       \/ \A t \in Task : disp'[t].dec # u.dec

LEMMA SameAsides == ASSUME unsettled' \subseteq unsettled, UNCHANGED late PROVE Asides
BY DEF Asides

LEMMA NoDecisionPrimed ==
  ASSUME Types', SideType', NEW n \in Node
  PROVE  /\ ~Pending(None, n)' /\ \A r \in reqs' : r.dec # None
         /\ \A u \in unsettled' \cup late' : u.dec # None
<1>1. \A r \in reqs' : r.dec # None
  BY PlaneAssumption DEF Types, NodesType, Request
<1>2. ~Holds(None, n)'
  BY PlaneAssumption DEF Types, NodesType, Copy, Holds
<1>3. \A u \in unsettled' \cup late' : u.dec # None
  BY PlaneAssumption DEF Types, SideType, RecordsType, Unsettled
<1> QED
  BY <1>1, <1>2, <1>3 DEF Pending, Queued

LEMMA OneCore ==
  ASSUME Types, Types', SideType', OneInv, ReqsOK', NothingNew, Asides, \A t \in Task : Follows(t)
  PROVE  OneInv'
<1> USE DEF OneInv
<1>0. \A d, n : Late(d, n) => Late(d, n)'
  BY DEF Asides, Late
<1>1. Apart'
  BY DEF Apart, Follows, DispIdle
<1>2. OnePending'
  BY <1>0 DEF OnePending, NothingNew
<1>3. DispOK'
  <2> SUFFICES ASSUME NEW t \in Task
               PROVE  /\ disp'[t].node \notin disp'[t].todo
                      /\ \A r \in reqs' : r.dec = disp'[t].dec => r.node \notin disp'[t].todo
                      /\ \A u \in unsettled' \cup late' :
                           u.dec = disp'[t].dec => u.node \notin disp'[t].todo
                      /\ \A n \in Node : Pending(disp[t].dec, n)' =>
                           (n = disp'[t].node /\ disp'[t].pc # "next") \/ Late(disp[t].dec, n)'
                      /\ \A n \in Node : disp'[t].pc = "unload" /\ Queued(disp[t].dec, n)' =>
                           Late(disp[t].dec, n)'
    BY DEF DispOK
  <2>0. PICK e : e = disp'[t].dec
    OBVIOUS
  <2>10. \A n \in Node : /\ Pending(disp[t].dec, n)' <=> Pending(e, n)'
                         /\ Queued(disp[t].dec, n)' <=> Queued(e, n)'
                         /\ Late(disp[t].dec, n)' <=> Late(e, n)'
    BY <2>0 DEF Pending, Holds, Queued, Late
  <2>1. CASE disp'[t].dec = None
    <3>1. \A n \in Node : ~Pending(e, n)' /\ ~Queued(e, n)'
      BY <2>0, <2>1, NoDecisionPrimed DEF Pending
    <3>2. \A r \in reqs' : r.dec # disp'[t].dec
      BY <2>1, PlaneAssumption DEF Types, NodesType, Request
    <3>3. \A u \in unsettled' \cup late' : u.dec # disp'[t].dec
      BY <2>1, PlaneAssumption DEF Types, SideType, RecordsType, Unsettled
    <3>4. disp'[t].node \notin disp'[t].todo
      BY DEF Follows, DispIdle, DispOK
    <3> QED
      BY <2>10, <3>1, <3>2, <3>3, <3>4
  <2>2. CASE disp'[t].dec # None
    <3>1. /\ disp'[t].dec = disp[t].dec /\ disp'[t].node = disp[t].node
          /\ disp'[t].todo \subseteq disp[t].todo /\ disp[t].dec \in Decision
      BY <2>2 DEF Follows, DispIdle, Types, TasksType, DispType
    <3>2. \A r \in reqs' : r.dec = disp'[t].dec => r.node \notin disp'[t].todo
      BY <3>1 DEF NothingNew, DispOK
    <3>3. ASSUME NEW n \in Node
          PROVE  /\ Pending(e, n)' => (n = disp'[t].node /\ disp'[t].pc # "next") \/ Late(e, n)'
                 /\ disp'[t].pc = "unload" /\ Queued(e, n)' => Late(e, n)'
      <4>1. e \in Decision /\ e = disp[t].dec
        BY <2>0, <3>1
      <4>2. /\ Pending(e, n)' => (n = disp[t].node /\ disp[t].pc # "next") \/ Late(e, n)'
            /\ disp[t].pc = "unload" /\ Queued(e, n)' => Late(e, n)'
        BY <1>0, <4>1 DEF NothingNew, DispOK
      <4> QED
        BY <2>2, <2>10, <3>1, <4>2 DEF Follows, DispIdle
    <3>4. \A u \in unsettled' \cup late' : u.dec = disp'[t].dec => u.node \notin disp'[t].todo
      <4> SUFFICES ASSUME NEW u \in unsettled' \cup late', u.dec = disp'[t].dec
                   PROVE  u.node \notin disp[t].todo
        BY <3>1
      <4>1. CASE u \in unsettled \cup late
        BY <3>1, <4>1 DEF DispOK
      <4>2. ASSUME NEW v \in Task, u.dec = disp[v].dec, u.node = disp[v].node
            PROVE  u.node \notin disp[t].todo
        BY <2>2, <3>1, <4>2 DEF DispOK, Apart
      <4> QED
        BY <4>1, <4>2 DEF Asides
    <3>5. disp'[t].node \notin disp'[t].todo
      BY <3>1 DEF DispOK
    <3> QED
      BY <2>10, <3>2, <3>3, <3>4, <3>5
  <2> QED
    BY <2>1, <2>2
<1> QED
  BY <1>1, <1>2, <1>3

(* Requests are dropped, and instances unloaded or restarted.              *)
LEMMA OneKept ==
  ASSUME Types, Types', SideType', OneInv, reqs' \subseteq reqs, Shrinks, Asides,
         \A t \in Task : Follows(t)
  PROVE  OneInv'
<1>1. \A d, n : Queued(d, n)' => Queued(d, n)
  BY DEF Queued
<1>2. \A d : \A n \in Node : Holds(d, n)' => Holds(d, n)
  BY DEF Shrinks, Holds
<1>3. NothingNew
  BY <1>1, <1>2 DEF NothingNew, Pending
<1>4. ReqsOK'
  <2>1. \A r \in reqs' : r \in reqs /\ r.node \in Node
    BY DEF Types, NodesType, Request
  <2> QED
    BY <1>2, <2>1 DEF OneInv, ReqsOK
<1> QED
  BY <1>3, <1>4, OneCore

LEMMA SameDisp == ASSUME UNCHANGED disp PROVE \A t \in Task : Follows(t)
BY DEF Follows

(* The node comes to the request, fetches, and answers it: loaded, it      *)
(* becomes what the node holds.                                            *)
LEMMA OneHandled ==
  ASSUME Types, Types', SideType', OneInv, NEW r \in reqs, NodeStep(r)
  PROVE  OneInv'
<1> USE DEF OneInv
<1>0. UNCHANGED <<disp, unsettled, late>> /\ r.node \in Node
  BY DEF NodeStep, NodeBegin, NodeFetch, NodeLoad, NodeRefuse, tasks, records, Types, NodesType,
         Request
<1>10. Asides
  BY <1>0, SameAsides
<1>11. CASE NodeFetch(r)
  <2>1. UNCHANGED <<held, reqs>>
    BY <1>11 DEF NodeFetch
  <2> QED
    BY <1>0, <1>10, <2>1, OneKept, SameHeld, SameDisp DEF Types
<1>12. CASE ~NodeFetch(r)
  <2>1. PICK phase \in {"handling", "ok", "refused"}, q \in Request :
          /\ q.dec = r.dec /\ q.node = r.node /\ q.phase = phase
          /\ reqs' = reqs \ {r} \/ reqs' = (reqs \ {r}) \cup {q}
          /\ r.phase \in {"sent", "handling"}
          /\ phase = "ok" => NodeLoad(r)
          /\ phase # "ok" => UNCHANGED held
    <3>1. PICK phase \in {"handling", "ok", "refused"} :
            /\ \/ reqs' = reqs \ {r}
               \/ reqs' = (reqs \ {r}) \cup {[r EXCEPT !.phase = phase]}
            /\ r.phase \in {"sent", "handling"}
            /\ phase = "ok" => NodeLoad(r)
            /\ phase # "ok" => UNCHANGED held
      BY <1>12 DEF NodeStep, NodeBegin, NodeLoad, NodeRefuse, Answer
    <3>2. /\ [r EXCEPT !.phase = phase].dec = r.dec /\ [r EXCEPT !.phase = phase].node = r.node
          /\ [r EXCEPT !.phase = phase].phase = phase /\ [r EXCEPT !.phase = phase] \in Request
      BY DEF Types, NodesType, Request
    <3> QED
      BY <3>1, <3>2
  <2>3. \A s \in reqs' : (s \in reqs /\ s # r) \/ s = q
    BY <2>1
  <2>5. \A d : \A n \in Node : Holds(d, n)' =>
          Holds(d, n) \/ (d = r.dec /\ n = r.node /\ phase = "ok")
    <3>1. CASE phase # "ok"
      BY <2>1, <3>1 DEF Holds
    <3>2. CASE phase = "ok"
      <4>1. held' = [held EXCEPT ![r.node] = [dec |-> r.dec, running |-> TRUE, lease |-> FALSE]]
        BY <2>1, <3>2 DEF NodeLoad
      <4> QED
        BY <1>0, <3>2, <4>1 DEF Holds, Types, NodesType
    <3> QED
      BY <3>1, <3>2
  <2>6. Queued(r.dec, r.node)
    BY <2>1 DEF Queued
  <2>7. \A d, n : Queued(d, n)' => Queued(d, n)
    BY <2>1, <2>3, <2>6 DEF Queued
  <2>8. NothingNew
    <3>1. \A s \in reqs' : \E p \in reqs : p.dec = s.dec /\ p.node = s.node
      BY <2>1, <2>3
    <3> QED
      BY <2>5, <2>6, <2>7, <3>1 DEF NothingNew, Pending
  <2>9. ReqsOK'
    <3>1. \A s, p \in reqs' : s.dec = p.dec /\ s.node = p.node => s = p
      BY <2>1, <2>3 DEF ReqsOK
    <3>2. \A s \in reqs' : s.phase # "ok" => ~Holds(s.dec, s.node)'
      <4> SUFFICES ASSUME NEW s \in reqs', s.phase # "ok", Holds(s.dec, s.node)'
                   PROVE  FALSE
        OBVIOUS
      <4>1. s.node \in Node
        BY DEF Types, NodesType, Request
      <4>2. CASE Holds(s.dec, s.node)
        BY <2>1, <2>3, <4>2 DEF ReqsOK
      <4>3. CASE s.dec = r.dec /\ s.node = r.node /\ phase = "ok"
        BY <2>1, <2>3, <4>3 DEF ReqsOK
      <4> QED
        BY <2>5, <4>1, <4>2, <4>3
    <3> QED
      BY <3>1, <3>2 DEF ReqsOK
  <2> QED
    BY <1>0, <1>10, <2>8, <2>9, OneCore, SameDisp
<1> QED
  BY <1>11, <1>12

(* A dispatch begins with a decision nobody has heard of.                  *)
LEMMA OneBegun ==
  ASSUME Types, Types', OneInv, NEW t \in Task, Begun(t), UNCHANGED <<held, reqs, unsettled, late>>
  PROVE  OneInv'
<1> USE DEF OneInv
<1>1. PICK d \in Decision : d = disp'[t].dec /\ d \notin InUse
  BY DEF Begun, Free
<1>2. /\ \A r \in reqs : r.dec # d
      /\ \A n \in Node : held[n] # None => held[n].dec # d
      /\ \A v \in Task : disp[v].dec # d
      /\ \A u \in unsettled \cup late : u.dec # d
  BY <1>1 DEF InUse
<1>3. \A e, n : /\ Pending(e, n)' <=> Pending(e, n)
                /\ Queued(e, n)' <=> Queued(e, n)
                /\ Late(e, n)' <=> Late(e, n)
                /\ Holds(e, n)' <=> Holds(e, n)
  BY DEF Pending, Holds, Queued, Late
<1>4. Apart'
  BY <1>1, <1>2 DEF Apart, Begun
<1>5. ReqsOK' /\ OnePending'
  BY <1>3 DEF ReqsOK, OnePending
<1>6. DispOK'
  <2> SUFFICES ASSUME NEW v \in Task
               PROVE  /\ disp'[v].node \notin disp'[v].todo
                      /\ \A r \in reqs' : r.dec = disp'[v].dec => r.node \notin disp'[v].todo
                      /\ \A u \in unsettled' \cup late' :
                           u.dec = disp'[v].dec => u.node \notin disp'[v].todo
                      /\ \A n \in Node : Pending(disp[v].dec, n)' =>
                           (n = disp'[v].node /\ disp'[v].pc # "next") \/ Late(disp[v].dec, n)'
                      /\ \A n \in Node : disp'[v].pc = "unload" /\ Queued(disp[v].dec, n)' =>
                           Late(disp[v].dec, n)'
    BY DEF DispOK
  <2>1. CASE v = t
    <3>1. \A n \in Node : ~Pending(disp[v].dec, n)' /\ ~Queued(disp[v].dec, n)'
      BY <1>1, <1>2, <2>1 DEF Pending, Holds, Queued
    <3>2. disp'[t].node \notin disp'[t].todo
      BY PlaneAssumption DEF Begun, DispType
    <3> QED
      BY <1>1, <1>2, <2>1, <3>1, <3>2
  <2>2. CASE v # t
    <3>1. disp'[v] = disp[v]
      BY <2>2 DEF Begun
    <3>2. \A n \in Node : /\ Pending(disp[v].dec, n)' <=> Pending(disp[v].dec, n)
                          /\ Queued(disp[v].dec, n)' <=> Queued(disp[v].dec, n)
                          /\ Late(disp[v].dec, n)' <=> Late(disp[v].dec, n)
      BY <3>1 DEF Pending, Holds, Queued, Late
    <3> QED
      BY <3>1, <3>2 DEF DispOK
  <2> QED
    BY <2>1, <2>2
<1> QED
  BY <1>4, <1>5, <1>6

(* It sends a node its one request; what is left behind is late.           *)
LEMMA OneNext ==
  ASSUME Types, Types', OneInv, NEW t \in Task, NEW n \in Node, DispatchNext(t, n)
  PROVE  OneInv'
<1> USE DEF OneInv
<1>1. /\ disp[t].pc = "next" /\ n \in disp[t].todo /\ disp'[t].node = n
      /\ disp'[t].dec = disp[t].dec /\ disp'[t].todo = disp[t].todo \ {n}
      /\ disp'[t].pc \in {"calling", "next"} /\ (disp'[t].pc = "next" => reqs' = reqs)
      /\ \A v \in Task \ {t} : disp'[v] = disp[v]
  BY DEF DispatchNext, Types, TasksType, DispType
<1>2. PICK q : /\ q.dec = disp[t].dec /\ q.node = n /\ q.phase = "sent"
               /\ (reqs' = reqs \/ reqs' = reqs \cup {q})
  <2> DEFINE x == [dec |-> disp[t].dec, node |-> n, phase |-> "sent"]
  <2>1. reqs' = reqs \/ reqs' = reqs \cup {x}
    BY DEF DispatchNext
  <2>2. x.dec = disp[t].dec /\ x.node = n /\ x.phase = "sent"
    OBVIOUS
  <2> QED
    BY <2>1, <2>2
<1>3. UNCHANGED <<held, unsettled, late>>
  BY DEF DispatchNext, records
<1>4. disp[t].dec # None /\ disp[t].dec \in Decision
  BY <1>1 DEF Types, TasksType, DispPoint, DispType
<1>10. \A d, m : /\ Holds(d, m)' <=> Holds(d, m)
                 /\ Late(d, m)' <=> Late(d, m)
                 /\ Queued(d, m)' => Queued(d, m) \/ (d = disp[t].dec /\ m = n /\ reqs' # reqs)
  BY <1>2, <1>3 DEF Holds, Late, Queued
<1>11. \A d, m : Pending(d, m)' => Pending(d, m) \/ (d = disp[t].dec /\ m = n /\ reqs' # reqs)
  BY <1>10 DEF Pending
<1>12. \A m \in Node : Pending(disp[t].dec, m) => Late(disp[t].dec, m)
  BY <1>1 DEF DispOK
<1>5. Apart'
  BY <1>1 DEF Apart
<1>6. OnePending'
  <2> SUFFICES ASSUME NEW d \in Decision, NEW k \in Node, NEW m \in Node,
                      k # m, Pending(d, k)', Pending(d, m)'
               PROVE  Late(d, k) \/ Late(d, m)
    BY <1>10 DEF OnePending
  <2>1. CASE Pending(d, k) /\ Pending(d, m)
    BY <2>1 DEF OnePending
  <2>2. CASE d = disp[t].dec
    BY <1>11, <1>12, <2>2
  <2> QED
    BY <1>11, <2>1, <2>2
<1>7. ReqsOK'
  <2>1. \A s \in reqs : ~(s.dec = q.dec /\ s.node = q.node)
    BY <1>1, <1>2 DEF DispOK
  <2>2. ~Late(q.dec, q.node)
    <3>1. ASSUME Late(q.dec, q.node) PROVE FALSE
      <4>1. [dec |-> disp[t].dec, node |-> n] \in unsettled \cup late
        BY <1>2, <3>1 DEF Late
      <4> QED
        BY <1>1, <4>1 DEF DispOK
    <3> QED
      BY <3>1
  <2>3. ~Holds(q.dec, q.node)
    BY <1>2, <1>12, <2>2 DEF Pending
  <2> QED
    BY <1>2, <1>10, <2>1, <2>3 DEF ReqsOK
<1>8. DispOK'
  <2> SUFFICES ASSUME NEW v \in Task
               PROVE  /\ disp'[v].node \notin disp'[v].todo
                      /\ \A r \in reqs' : r.dec = disp'[v].dec => r.node \notin disp'[v].todo
                      /\ \A u \in unsettled' \cup late' :
                           u.dec = disp'[v].dec => u.node \notin disp'[v].todo
                      /\ \A m \in Node : Pending(disp[v].dec, m)' =>
                           (m = disp'[v].node /\ disp'[v].pc # "next") \/ Late(disp[v].dec, m)'
                      /\ \A m \in Node : disp'[v].pc = "unload" /\ Queued(disp[v].dec, m)' =>
                           Late(disp[v].dec, m)'
    BY DEF DispOK
  <2>1. PICK e : e = disp'[v].dec /\ e = disp[v].dec
    BY <1>1
  <2>2. \A m \in Node : /\ Pending(disp[v].dec, m)' <=> Pending(e, m)'
                        /\ Queued(disp[v].dec, m)' <=> Queued(e, m)'
                        /\ Late(disp[v].dec, m)' <=> Late(e, m)'
    BY <2>1 DEF Pending, Holds, Queued, Late
  <2>3. \A s \in reqs' : s.dec = disp'[v].dec => s.node \notin disp'[v].todo
    BY <1>1, <1>2, <1>4, <2>1 DEF DispOK, Apart
  <2>4. /\ disp'[v].node \notin disp'[v].todo
        /\ \A u \in unsettled' \cup late' : u.dec = disp'[v].dec => u.node \notin disp'[v].todo
    BY <1>1, <1>3 DEF DispOK
  <2>5. CASE v = t
    BY <1>1, <1>10, <1>11, <1>12, <2>1, <2>2, <2>3, <2>4, <2>5
  <2>6. CASE v # t
    <3>1. e # disp[t].dec
      BY <1>4, <2>1, <2>6 DEF Apart
    <3> QED
      BY <1>1, <1>10, <1>11, <2>1, <2>2, <2>3, <2>4, <2>6, <3>1 DEF DispOK
  <2> QED
    BY <2>5, <2>6
<1> QED
  BY <1>5, <1>6, <1>7, <1>8

(* It moves on in place.                                                   *)
LEMMA OneMove ==
  ASSUME Types, Types', SideType', OneInv, NEW t \in Task,
         NEW pc \in {"next", "status", "unload", "placed", "failed"}, DispTo(t, pc),
         reqs' \subseteq reqs, Shrinks, Asides,
         pc = "next" /\ Pending(disp[t].dec, disp[t].node)' => Late(disp[t].dec, disp[t].node)',
         pc = "unload" /\ Queued(disp[t].dec, disp[t].node)' => Late(disp[t].dec, disp[t].node)'
  PROVE  OneInv'
<1>1. /\ disp'[t].pc = pc /\ disp'[t].dec = disp[t].dec /\ disp'[t].node = disp[t].node
      /\ disp'[t].todo = disp[t].todo /\ \A v \in Task \ {t} : disp'[v] = disp[v]
  BY DEF DispTo, Types, TasksType, DispType
<1>2. PICK d, k : d = disp[t].dec /\ k = disp[t].node
  OBVIOUS
<1>3. \A n \in Node : (Pending(d, n)' => Pending(d, n)) /\ (Late(d, n) => Late(d, n)')
  BY DEF Pending, Holds, Queued, Shrinks, Asides, Late
<1>4. \A n \in Node : Pending(d, n)' => n = k \/ Late(d, n)'
  BY <1>2, <1>3 DEF OneInv, DispOK
<1>5. /\ Pending(disp[t].dec, disp[t].node)' <=> Pending(d, k)'
      /\ Queued(disp[t].dec, disp[t].node)' <=> Queued(d, k)'
      /\ Late(disp[t].dec, disp[t].node)' <=> Late(d, k)'
  BY <1>1, <1>2 DEF Pending, Holds, Queued, Late
<1>6. \A n \in Node : /\ Pending(disp[t].dec, n)' <=> Pending(d, n)'
                      /\ Queued(disp[t].dec, n)' <=> Queued(d, n)'
                      /\ Late(disp[t].dec, n)' <=> Late(d, n)'
  BY <1>1, <1>2 DEF Pending, Holds, Queued, Late
<1>7. \A n \in Node : Queued(d, n)' => Pending(d, n)'
  BY DEF Pending
<1>8. Follows(t)
  BY <1>1, <1>4, <1>5, <1>6, <1>7 DEF Follows
<1>9. \A v \in Task : Follows(v)
  BY <1>1, <1>8 DEF Follows
<1> QED
  BY <1>9, OneKept

LEMMA OneDispatch ==
  ASSUME Types, Types', SideType', OneInv, NEW t \in Task, Dispatch(t)
  PROVE  OneInv'
<1>0. Asides
  <2>1. /\ UNCHANGED late \/ NoteLate(disp[t].dec, disp[t].node)
        /\ \/ UNCHANGED unsettled
           \/ unsettled' = unsettled \cup {[dec |-> disp[t].dec, node |-> disp[t].node]}
    BY DEF Dispatch, DispatchEmpty, DispatchLost, Reconcile, ReconcileUnload, DispatchNext,
           DispatchAnswer, Unsettle, records
  <2> QED
    BY <2>1 DEF Asides, NoteLate
<1>1. CASE DispatchEmpty(t)
  <2>1. /\ DispTo(t, "failed") /\ reqs' \subseteq reqs /\ Shrinks
    BY <1>1, SameHeld DEF DispatchEmpty, Types
  <2> QED
    BY <1>0, <2>1, OneMove
<1>2. CASE DispatchLost(t)
  <2>1. /\ DispTo(t, "status") /\ reqs' \subseteq reqs /\ Shrinks
    BY <1>2, SameHeld DEF DispatchLost, Types
  <2> QED
    BY <1>0, <2>1, OneMove
<1>3. CASE Reconcile(t)
  <2>1. UNCHANGED <<held, reqs>> /\ Shrinks
    BY <1>3, SameHeld DEF Reconcile, Types
  <2>2. CASE Unsettle(t)
    BY <1>0, <2>1, <2>2, OneMove DEF Unsettle
  <2>3. CASE /\ DispTo(t, "unload") /\ Holds(disp[t].dec, disp[t].node)
             /\ ~InFlight(disp[t].dec, disp[t].node)
    <3>1. disp'[t].dec = disp[t].dec /\ disp'[t].node = disp[t].node
      BY <2>3 DEF DispTo, Types, TasksType, DispType
    <3>2. ~Queued(disp[t].dec, disp[t].node)'
      BY <2>1, <2>3, <3>1 DEF Queued, OneInv, ReqsOK
    <3> QED
      BY <1>0, <2>1, <2>3, <3>2, OneMove
  <2>4. CASE /\ DispTo(t, "next") /\ ~Holds(disp[t].dec, disp[t].node)
             /\ ~InFlight(disp[t].dec, disp[t].node) /\ NoteLate(disp[t].dec, disp[t].node)
    <3>1. disp'[t].dec = disp[t].dec /\ disp'[t].node = disp[t].node
      BY <2>4 DEF DispTo, Types, TasksType, DispType
    <3>2. Queued(disp[t].dec, disp[t].node)' => Late(disp[t].dec, disp[t].node)'
      BY <2>1, <2>4, <3>1 DEF Queued, InFlight, NoteLate, Late
    <3>3. Pending(disp[t].dec, disp[t].node)' => Late(disp[t].dec, disp[t].node)'
      BY <2>1, <2>4, <3>1, <3>2 DEF Pending, Holds
    <3> QED
      BY <1>0, <2>1, <2>4, <3>3, OneMove
  <2> QED
    BY <1>3, <2>2, <2>3, <2>4 DEF Reconcile
<1>4. CASE ReconcileUnload(t)
  <2>0. disp[t].node \in Node /\ disp[t].pc = "unload" /\ UNCHANGED late
    BY <1>4 DEF ReconcileUnload, Types, TasksType, DispPoint
  <2>1. \E a \in Answers : Call(disp[t].node, Unloaded(disp[t].node), a)
    BY <1>4 DEF ReconcileUnload, Answers
  <2>2. Shrinks /\ reqs' = reqs
    BY <1>4, <2>0, <2>1, CallFacts DEF Types, OtherType, ReconcileUnload
  <2>3. CASE Unsettle(t)
    BY <1>0, <2>2, <2>3, OneMove DEF Unsettle
  <2>4. CASE Call(disp[t].node, Unloaded(disp[t].node), "ok") /\ DispTo(t, "next")
    <3>1. disp'[t].dec = disp[t].dec /\ disp'[t].node = disp[t].node
      BY <2>4 DEF DispTo, Types, TasksType, DispType
    <3>2. Queued(disp[t].dec, disp[t].node)' => Late(disp[t].dec, disp[t].node)'
      BY <2>0, <2>2, <3>1 DEF Queued, Late, OneInv, DispOK
    <3>3. held'[disp[t].node] = None
      BY <2>0, <2>4 DEF Call, Unloaded, Types, NodesType
    <3>4. Pending(disp[t].dec, disp[t].node)' => Late(disp[t].dec, disp[t].node)'
      BY <3>1, <3>2, <3>3 DEF Pending, Holds
    <3> QED
      BY <1>0, <2>2, <2>4, <3>4, OneMove
  <2> QED
    BY <1>4, <2>3, <2>4 DEF ReconcileUnload
<1>5. ASSUME NEW r \in reqs, DispatchAnswer(t, r)
      PROVE  OneInv'
  <2>1. UNCHANGED held /\ Shrinks /\ reqs' = reqs \ {r}
    BY <1>5, SameHeld DEF DispatchAnswer, Types
  <2>2. CASE r.phase = "ok"
    <3>1. DispTo(t, "placed")
      BY <1>5, <2>2 DEF DispatchAnswer
    <3> QED
      BY <1>0, <2>1, <3>1, OneMove
  <2>3. CASE r.phase # "ok"
    <3>1. DispTo(t, "next") /\ r.dec = disp[t].dec /\ r.node = disp[t].node
      BY <1>5, <2>3 DEF DispatchAnswer, Mine
    <3>2. disp'[t].dec = disp[t].dec /\ disp'[t].node = disp[t].node
      BY <3>1 DEF DispTo, Types, TasksType, DispType
    <3>3. ~Queued(disp[t].dec, disp[t].node)'
      BY <2>1, <3>1, <3>2 DEF Queued, OneInv, ReqsOK
    <3>4. ~Pending(disp[t].dec, disp[t].node)'
      BY <2>1, <2>3, <3>1, <3>2, <3>3 DEF Pending, Holds, OneInv, ReqsOK
    <3> QED
      BY <1>0, <2>1, <3>1, <3>4, OneMove
  <2> QED
    BY <2>2, <2>3
<1> QED
  BY <1>1, <1>2, <1>3, <1>4, <1>5, OneNext DEF Dispatch

(* What the other steps do to the dispatches.                              *)
Ended(t) == disp' = [disp EXCEPT ![t] = DispIdle]

LEMMA OneEnded ==
  ASSUME Types, Types', SideType', OneInv, NEW t \in Task, Ended(t),
         UNCHANGED <<held, reqs, unsettled, late>>
  PROVE  OneInv'
<1>1. \A v \in Task : Follows(v)
  BY DEF Follows, Ended, Types, TasksType
<1> QED
  BY <1>1, OneKept, SameHeld, SameAsides DEF Types

LEMMA BeginBegun ==
  ASSUME Types, Types', NEW t \in Task, NEW cs, NEW av, NEW m, NEW k,
         BeginDispatch(t, cs, av, m, k)
  PROVE  Begun(t)
BY DEF BeginDispatch, Begun, Types, TasksType

LEMMA RescheduleBegun ==
  ASSUME Types, Types', NEW c, NEW n, NEW dead, NEW back, NEW todo,
         Reschedule(c, n, dead, back, todo)
  PROVE  UNCHANGED disp \/ Begun("tick")
<1>1. "tick" \in Task
  BY DEF Task
<1>2. CASE UNCHANGED disp
  BY <1>2
<1>3. CASE ~UNCHANGED disp
  <2>1. PICK cs, av : BeginDispatch("tick", cs, av, c.movable, c.resched + 1)
    BY <1>3 DEF Reschedule
  <2> QED
    BY <1>1, <2>1, BeginBegun
<1> QED
  BY <1>2, <1>3

LEMMA TickDisp ==
  ASSUME Types, Types', Tick
  PROVE  /\ UNCHANGED reqs /\ Shrinks
         /\ \/ UNCHANGED disp
            \/ (Begun("tick") \/ Ended("tick")) /\ UNCHANGED held
<1>1. CASE TickBegin \/ PassBegin \/ TickEnd \/ StartedApply \/ OrphanApply
           \/ \E n \in Node : MirrorStatus(n)
  <2>1. UNCHANGED <<reqs, held, disp>>
    BY <1>1 DEF TickBegin, PassBegin, TickEnd, StartedApply, OrphanApply, MirrorStatus, TickStep,
                nodes
  <2> QED
    BY <2>1, SameHeld DEF Types
<1>2. CASE MirrorApply
  <2>1. UNCHANGED <<reqs, held>>
    BY <1>2 DEF MirrorApply, nodes
  <2>2. UNCHANGED disp \/ Reschedule(lives'[tick.node], tick.node, FALSE, "mirror", tick.todo)
    BY <1>2 DEF MirrorApply
  <2>3. UNCHANGED disp \/ Begun("tick")
    <3>1. PICK c, n, todo : c = lives'[tick.node] /\ n = tick.node /\ todo = tick.todo
      OBVIOUS
    <3>2. UNCHANGED disp \/ Reschedule(c, n, FALSE, "mirror", todo)
      BY <2>2, <3>1 DEF Reschedule, BeginDispatch, TickTo
    <3> QED
      BY <3>2, RescheduleBegun
  <2> QED
    BY <2>1, <2>3, SameHeld DEF Types
<1>3. CASE RejoinApply
  <2>1. UNCHANGED <<reqs, held>>
    BY <1>3 DEF RejoinApply, TickStep
  <2>2. UNCHANGED disp \/ Reschedule(lives[tick.node], tick.node, FALSE, "pass", tick.todo)
    BY <1>3 DEF RejoinApply
  <2>3. UNCHANGED disp \/ Begun("tick")
    <3>1. PICK c, n, todo : c = lives[tick.node] /\ n = tick.node /\ todo = tick.todo
      OBVIOUS
    <3>2. UNCHANGED disp \/ Reschedule(c, n, FALSE, "pass", todo)
      BY <2>2, <3>1 DEF Reschedule, BeginDispatch, TickTo
    <3> QED
      BY <3>2, RescheduleBegun
  <2> QED
    BY <2>1, <2>3, SameHeld DEF Types
<1>4. ASSUME NEW n \in Node, PassStep(n)
      PROVE  UNCHANGED <<reqs, held>> /\ (UNCHANGED disp \/ Begun("tick"))
  <2>1. UNCHANGED <<reqs, held>>
    BY <1>4 DEF PassStep, TickStep
  <2>2. UNCHANGED disp \/ Reschedule(lives'[n], n, TRUE, "pass", tick.todo \ {n})
    BY <1>4 DEF PassStep
  <2>3. PICK c, todo : c = lives'[n] /\ todo = tick.todo \ {n}
    OBVIOUS
  <2>4. UNCHANGED disp \/ Reschedule(c, n, TRUE, "pass", todo)
    BY <2>2, <2>3 DEF Reschedule, BeginDispatch, TickTo
  <2> QED
    BY <2>1, <2>4, RescheduleBegun
<1>5. CASE Moved \/ NotMoved
  <2>1. UNCHANGED <<reqs, held>> /\ Ended("tick")
    BY <1>5 DEF Moved, NotMoved, TickStep, Ended
  <2> QED
    BY <2>1, SameHeld DEF Types
<1>6. CASE TickCall
  <2>1. tick.node \in Node /\ UNCHANGED <<reqs, disp>>
    BY <1>6 DEF TickCall, TickStep, Types, TasksType, TickPoint
  <2>2. Shrinks
    <3>1. UNCHANGED held \/ \E a \in Answers : \/ Call(tick.node, Unloaded(tick.node), a)
                                               \/ Call(tick.node, Started(tick.node), a)
      BY <1>6 DEF TickCall, Call
    <3> QED
      BY <2>1, <3>1, CallFacts, SameHeld DEF Types, OtherType
  <2> QED
    BY <2>1, <2>2
<1> QED
  BY <1>1, <1>2, <1>3, <1>4, <1>5, <1>6, SameHeld DEF Tick, Types

(* Instances only go.                                                      *)
LEMMA EnvShrinks ==
  ASSUME Types, Types', NEW n \in Node, NodeLease(n) \/ NodeReboot(n) \/ Cut(n) \/ Heal(n)
  PROVE  Shrinks
<1>1. CASE NodeLease(n)
  <2>1. held[n] \in Copy /\ held'[n].dec = held[n].dec
        /\ \A m \in Node \ {n} : held'[m] = held[m]
    BY <1>1 DEF NodeLease, Types, NodesType, Copy
  <2> QED
    BY <1>1, <2>1 DEF NodeLease, Shrinks, Types, NodesType
<1>2. CASE NodeReboot(n) \/ Cut(n) \/ Heal(n)
  BY <1>2 DEF NodeReboot, Cut, Heal, Shrinks, Types, NodesType
<1> QED
  BY <1>1, <1>2

LEMMA DispatchShrinks == ASSUME Types, NEW t \in Task, Dispatch(t) PROVE Shrinks
<1>1. CASE ReconcileUnload(t)
  <2>1. disp[t].node \in Node
    BY <1>1 DEF ReconcileUnload, Types, TasksType, DispPoint
  <2>2. \E a \in Answers : Call(disp[t].node, Unloaded(disp[t].node), a)
    BY <1>1 DEF ReconcileUnload, Answers
  <2> QED
    BY <2>1, <2>2, CallFacts DEF Types, OtherType
<1>2. CASE UNCHANGED held
  BY <1>2, SameHeld DEF Types
<1> QED
  BY <1>1, <1>2 DEF Dispatch, DispatchEmpty, DispatchLost, Reconcile, DispatchNext, DispatchAnswer

LEMMA OneOther ==
  ASSUME Types, Types', SideType', OneInv,
         \/ \E n \in Node : NodeLease(n) \/ NodeReboot(n) \/ Cut(n) \/ Heal(n)
         \/ \E m \in Movable : OpPlace(m)
         \/ OpEnd
         \/ Settle
         \/ \E n \in Node, m \in Verbs : VerbCall(n, m)
         \/ VerbEnd \/ Tick \/ Outside \/ Crash
         \/ \E n \in Node : DeadAfter(n) \/ BackoffOver(n)
  PROVE  OneInv'
<1>0. "op" \in Task /\ "tick" \in Task
  BY DEF Task
<1>1. ASSUME NEW n \in Node, NodeLease(n) \/ NodeReboot(n) \/ Cut(n) \/ Heal(n)
      PROVE  OneInv'
  <2>1. UNCHANGED <<disp, unsettled, late>> /\ reqs' \subseteq reqs
    BY <1>1 DEF NodeLease, NodeReboot, Cut, Heal, tasks, records
  <2>2. Shrinks
    BY <1>1, EnvShrinks
  <2> QED
    BY <2>1, <2>2, OneKept, SameDisp, SameAsides
<1>2. ASSUME NEW m \in Movable, OpPlace(m)
      PROVE  OneInv'
  <2>1. PICK cs, av : cs = up /\ av = {} /\ BeginDispatch("op", cs, av, m, 0)
    BY <1>2 DEF OpPlace
  <2>2. Begun("op") /\ UNCHANGED <<held, reqs, unsettled, late>>
    BY <1>0, <1>2, <2>1, BeginBegun DEF OpPlace, nodes, records
  <2> QED
    BY <1>0, <2>2, OneBegun
<1>3. CASE OpEnd
  BY <1>0, <1>3, OneEnded DEF OpEnd, Ended, nodes, records
<1>4. ASSUME NEW n \in Node, NEW m \in Verbs, VerbCall(n, m)
      PROVE  OneInv'
  <2>1. Shrinks /\ UNCHANGED <<reqs, disp, unsettled, late>>
    BY <1>4, EffectFacts DEF VerbCall, Types, records
  <2> QED
    BY <2>1, OneKept, SameDisp, SameAsides
<1>5. CASE VerbEnd \/ Outside \/ \E n \in Node : DeadAfter(n) \/ BackoffOver(n)
  <2>1. UNCHANGED <<held, reqs, disp, unsettled, late>>
    BY <1>5, OutsideLeaves DEF VerbEnd, DeadAfter, BackoffOver, nodes, tasks, records
  <2> QED
    BY <2>1, OneKept, SameDisp, SameHeld, SameAsides DEF Types
<1>8. CASE Settle
  <2>1. UNCHANGED <<held, reqs, disp>> /\ unsettled' \subseteq unsettled
    BY <1>8 DEF Settle, SettleAsk, SettleUse, SettleStep, nodes, records
  <2>2. UNCHANGED late \/ \E u \in unsettled : NoteLate(u.dec, u.node)
    BY <1>8 DEF Settle, SettleAsk, SettleUse
  <2>3. \A u \in unsettled : u = [dec |-> u.dec, node |-> u.node]
    BY DEF Types, RecordsType, Unsettled
  <2>4. Asides
    BY <2>1, <2>2, <2>3 DEF Asides, NoteLate
  <2> QED
    BY <2>1, <2>4, OneKept, SameDisp, SameHeld DEF Types
<1>6. CASE Tick
  BY <1>0, <1>6, TickDisp, TickLeaves, OneKept, SameDisp, OneBegun, OneEnded, SameAsides
<1>7. CASE Crash
  <2>1. UNCHANGED <<held, late>> /\ reqs' \subseteq reqs /\ \A t \in Task : disp'[t] = DispIdle
    BY <1>7 DEF Crash
  <2>2. Asides
    <3>1. \A u \in unsettled' : u.dec # None
      BY PlaneAssumption DEF Types, RecordsType, Unsettled
    <3> QED
      BY <2>1, <3>1 DEF Asides, DispIdle
  <2> QED
    BY <2>1, <2>2, OneKept, SameHeld DEF Follows, Types
<1> QED
  BY <1>1, <1>2, <1>3, <1>4, <1>5, <1>6, <1>7, <1>8

LEMMA OneInit == Init => OneInv
<1> SUFFICES ASSUME Init PROVE OneInv
  OBVIOUS
<1>1. /\ reqs = {} /\ unsettled = {} /\ late = {} /\ \A n \in Node : held[n] = None
      /\ \A t \in Task : disp[t].dec = None /\ disp[t].todo = {}
  BY DEF Init, DispIdle
<1> QED
  BY <1>1 DEF OneInv, Apart, ReqsOK, DispOK, OnePending, Pending, Holds, Queued

LEMMA SideInit == Init => SideType
BY PlaneAssumption DEF Init, SideType

LEMMA OneStep == IInv /\ [Next]_vars => IInv'
<1> SUFFICES ASSUME IInv, [Next]_vars PROVE IInv'
  OBVIOUS
<1>1. Types /\ Types' /\ SideType' /\ OneInv
  BY StepTypes, SideStep DEF IInv
<1>2. CASE UNCHANGED vars
  <2>1. UNCHANGED <<held, reqs, disp, unsettled, late>>
    BY <1>2 DEF vars, nodes, tasks, records
  <2> QED
    BY <1>1, <2>1, OneKept, SameDisp, SameHeld, SameAsides DEF Types, IInv
<1>3. CASE Next
  <2>1. OneInv'
    BY <1>1, <1>3, OneHandled, OneDispatch, OneOther DEF Next
  <2> QED
    BY <1>1, <2>1 DEF IInv
<1> QED
  BY <1>2, <1>3

(* "Never two instances" (plane_place.rs): whatever requests and answers   *)
(* are lost, late or cut off by a crash, one decision is handled or held   *)
(* on at most one node, but for what was found late: a request that had    *)
(* not reached its node when the STATUS that settled it was answered.      *)
THEOREM OneCopyPerDecision == Spec => []OnePerDecision
<1>1. Init => IInv
  BY InitTypes, SideInit, OneInit DEF IInv
<1>2. IInv /\ [Next]_vars => IInv'
  BY OneStep
<1>3. IInv => OnePerDecision
  <2> SUFFICES ASSUME IInv PROVE OnePerDecision
    OBVIOUS
  <2>1. \A d, n : Holds(d, n) \/ InFlight(d, n) => Pending(d, n)
    BY DEF Pending, InFlight, Queued
  <2> QED
    BY <2>1 DEF IInv, OneInv, OnePending, OnePerDecision
<1> QED
  BY <1>1, <1>2, <1>3, PTL DEF Spec

-----------------------------------------------------------------------------
(* Decision ids do not run out: no step but the begin of a dispatch brings *)
(* one into use.                                                           *)

UsedNow(d) ==
  /\ \A r \in reqs' : r.dec \in InUse
  /\ \A u \in unsettled' \cup file'.unsettled : u.dec \in InUse
  /\ \A n \in Node : held'[n] # None => held'[n].dec \in InUse
  /\ \A t \in Task : disp'[t].dec \in InUse \cup {None, d}
  /\ cutOff' \subseteq InUse /\ \A l \in late' : l.dec \in InUse

LEMMA UsedInUse ==
  ASSUME NEW d, UsedNow(d)
  PROVE  InUse' \subseteq InUse \cup {None, d}
BY DEF UsedNow, InUse

LEMMA AllInUse ==
  /\ \A r \in reqs : r.dec \in InUse
  /\ \A u \in unsettled \cup file.unsettled : u.dec \in InUse
  /\ \A n \in Node : held[n] # None => held[n].dec \in InUse
  /\ \A t \in Task : disp[t].dec \in InUse
  /\ cutOff \subseteq InUse /\ \A l \in late : l.dec \in InUse
BY DEF InUse

LEMMA UsedLate ==
  ASSUME [Next]_vars
  PROVE  \A l \in late' : l.dec \in InUse
BY LateLeaves, AllInUse DEF SettleAsk, NoteLate

(* The files written are of what is remembered.                            *)
LEMMA UsedFile ==
  ASSUME \A u \in unsettled' : u.dec \in InUse, Persist \/ UNCHANGED file
  PROVE  \A u \in unsettled' \cup file'.unsettled : u.dec \in InUse
BY AllInUse DEF Persist

LEMMA UsedBegun ==
  ASSUME Types, NEW t \in Task, Begun(t)
  PROVE  \E d \in Nat : \A v \in Task : disp'[v].dec \in InUse \cup {None, d}
<1>1. disp'[t].dec \in Nat
  BY PlaneAssumption DEF Begun, Free
<1> QED
  BY <1>1, AllInUse DEF Begun

LEMMA UsedEnded ==
  ASSUME Types, NEW t \in Task, Ended(t) \/ UNCHANGED disp
  PROVE  \E d \in Nat : \A v \in Task : disp'[v].dec \in InUse \cup {None, d}
<1>1. \A v \in Task : disp'[v].dec \in InUse \cup {None}
  BY AllInUse DEF Ended, DispIdle, Types, TasksType
<1> QED
  BY <1>1

LEMMA UsedShrinks ==
  ASSUME Shrinks
  PROVE  \A n \in Node : held'[n] # None => held'[n].dec \in InUse
BY AllInUse DEF Shrinks

LEMMA UsedNodes ==
  ASSUME Types, Types', [Next]_vars,
         \/ \E r \in reqs : NodeStep(r)
         \/ \E n \in Node : NodeLease(n) \/ NodeReboot(n) \/ Cut(n) \/ Heal(n)
  PROVE  \E d \in Nat : UsedNow(d)
<1>1. UNCHANGED <<unsettled, file, disp, cutOff>>
  BY DEF NodeStep, NodeBegin, NodeFetch, NodeLoad, NodeRefuse, NodeLease, NodeReboot, Cut, Heal, records,
         tasks, ghosts
<1>2. \A r \in reqs' : r.dec \in InUse
  <2>1. \A r \in reqs' : \E s \in reqs : s.dec = r.dec
    <3>1. ASSUME NEW r \in reqs, NodeStep(r)
          PROVE  \A q \in reqs' : q \in reqs \/ q.dec = r.dec
      BY <3>1 DEF NodeStep, NodeBegin, NodeFetch, NodeLoad, NodeRefuse, Answer, Types, NodesType, Request
    <3>2. ASSUME NEW n \in Node, NodeLease(n) \/ NodeReboot(n) \/ Cut(n) \/ Heal(n)
          PROVE  reqs' \subseteq reqs
      BY <3>2 DEF NodeLease, NodeReboot, Cut, Heal
    <3> QED
      BY <3>1, <3>2
  <2> QED
    BY <2>1, AllInUse
<1>3. \A n \in Node : held'[n] # None => held'[n].dec \in InUse
  <2>1. ASSUME NEW r \in reqs, NodeLoad(r)
        PROVE  \A n \in Node : held'[n] # None => held'[n].dec \in InUse
    BY <2>1, AllInUse DEF NodeLoad, Types, NodesType
  <2>2. ASSUME NEW n \in Node, NodeLease(n)
        PROVE  \A m \in Node : held'[m] # None => held'[m].dec \in InUse
    <3>1. held[n] \in Copy /\ held'[n].dec = held[n].dec /\ held[n] # None
          /\ \A m \in Node \ {n} : held'[m] = held[m]
      BY <2>2 DEF NodeLease, Types, NodesType, Copy
    <3> QED
      BY <3>1, AllInUse
  <2>3. ASSUME NEW n \in Node, NodeReboot(n)
        PROVE  \A m \in Node : held'[m] # None => held'[m].dec \in InUse
    BY <2>3, AllInUse DEF NodeReboot, Types, NodesType
  <2>4. CASE UNCHANGED held
    BY <2>4, AllInUse
  <2> QED
    BY <2>1, <2>2, <2>3, <2>4 DEF NodeStep, NodeBegin, NodeFetch, NodeRefuse, Cut, Heal
<1> QED
  BY <1>1, <1>2, <1>3, AllInUse, UsedLate DEF UsedNow

LEMMA UsedDispatch ==
  ASSUME Types, Types', [Next]_vars, NEW t \in Task, Dispatch(t)
  PROVE  \E d \in Nat : UsedNow(d)
<1>1. \A v \in Task : disp'[v].dec = disp[v].dec
  <2>1. ASSUME NEW pc, DispTo(t, pc)
        PROVE  \A v \in Task : disp'[v].dec = disp[v].dec
    BY <2>1 DEF DispTo, Types, TasksType, DispType
  <2>2. ASSUME NEW n \in Node, DispatchNext(t, n)
        PROVE  \A v \in Task : disp'[v].dec = disp[v].dec
    BY <2>2 DEF DispatchNext, Types, TasksType, DispType
  <2>3. (\E pc : DispTo(t, pc)) \/ \E n \in Node : DispatchNext(t, n)
    BY DEF Dispatch, DispatchEmpty, DispatchLost, Reconcile, ReconcileUnload, DispatchAnswer,
           Unsettle
  <2> QED
    BY <2>1, <2>2, <2>3
<1>2. \A r \in reqs' : r.dec \in InUse
  <2>1. \A r \in reqs' : r \in reqs \/ r.dec = disp[t].dec
    <3>1. ASSUME NEW n \in Node, DispatchNext(t, n)
          PROVE  \A r \in reqs' : r \in reqs \/ r.dec = disp[t].dec
      BY <3>1 DEF DispatchNext
    <3>2. (\E n \in Node : DispatchNext(t, n)) \/ reqs' \subseteq reqs
      BY DEF Dispatch, DispatchEmpty, DispatchLost, Reconcile, ReconcileUnload, DispatchAnswer
    <3> QED
      BY <3>1, <3>2
  <2> QED
    BY <2>1, AllInUse
<1>3. \A u \in unsettled' \cup file'.unsettled : u.dec \in InUse
  <2>1. \/ UNCHANGED unsettled
        \/ unsettled' = unsettled \cup {[dec |-> disp[t].dec, node |-> disp[t].node]}
    BY DEF Dispatch, DispatchEmpty, DispatchLost, Reconcile, ReconcileUnload, DispatchNext,
           DispatchAnswer, Unsettle, records
  <2>2. Persist \/ UNCHANGED file
    BY DEF Dispatch, DispatchEmpty, DispatchLost, Reconcile, ReconcileUnload, DispatchNext,
           DispatchAnswer, Unsettle
  <2>3. \A u \in unsettled' : u.dec \in InUse
    BY <2>1, AllInUse
  <2> QED
    BY <2>2, <2>3, UsedFile
<1>4. \A n \in Node : held'[n] # None => held'[n].dec \in InUse
  <2>1. CASE ReconcileUnload(t)
    <3>1. disp[t].node \in Node
      BY <2>1 DEF ReconcileUnload, Types, TasksType, DispPoint
    <3>2. \E a \in Answers : Call(disp[t].node, Unloaded(disp[t].node), a)
      BY <2>1 DEF ReconcileUnload, Answers
    <3> QED
      BY <3>1, <3>2, CallFacts, UsedShrinks DEF Types, OtherType
  <2>2. CASE UNCHANGED held
    BY <2>2, AllInUse
  <2> QED
    BY <2>1, <2>2 DEF Dispatch, DispatchEmpty, DispatchLost, Reconcile, DispatchNext,
                      DispatchAnswer
<1>5. UNCHANGED cutOff
  BY DEF Dispatch, DispatchEmpty, DispatchLost, Reconcile, ReconcileUnload, DispatchNext,
         DispatchAnswer, DispStep, ghosts
<1> QED
  BY <1>1, <1>2, <1>3, <1>4, <1>5, AllInUse, UsedLate DEF UsedNow
LEMMA UsedOther ==
  ASSUME Types, Types', [Next]_vars,
         \/ \E m \in Movable : OpPlace(m)
         \/ OpEnd
         \/ Settle
         \/ \E n \in Node, m \in Verbs : VerbCall(n, m)
         \/ VerbEnd
         \/ \E n \in Node : DeadAfter(n) \/ BackoffOver(n)
         \/ Outside
  PROVE  \E d \in Nat : UsedNow(d)
<1>0. "op" \in Task
  BY DEF Task
<1>1. UNCHANGED <<reqs, cutOff>> /\ unsettled' \subseteq unsettled /\ (Persist \/ UNCHANGED file)
  BY OthersLeave
<1>2. \A u \in unsettled' \cup file'.unsettled : u.dec \in InUse
  BY <1>1, AllInUse, UsedFile
<1>3. \A n \in Node : held'[n] # None => held'[n].dec \in InUse
  <2>1. Shrinks
    BY EffectFacts, SameHeld, OutsideLeaves
       DEF OpPlace, OpEnd, Settle, SettleAsk, SettleUse, SettleStep, VerbCall, VerbEnd, DeadAfter,
           BackoffOver, nodes, Types
  <2> QED
    BY <2>1, UsedShrinks
<1>4. \E d \in Nat : \A t \in Task : disp'[t].dec \in InUse \cup {None, d}
  <2>1. ASSUME NEW m \in Movable, OpPlace(m)
        PROVE  Begun("op")
    <3>1. PICK cs, av : cs = up /\ av = {} /\ BeginDispatch("op", cs, av, m, 0)
      BY <2>1 DEF OpPlace
    <3> QED
      BY <1>0, <3>1, BeginBegun
  <2>2. (\E m \in Movable : OpPlace(m)) \/ Ended("op") \/ UNCHANGED disp
    BY OthersLeave DEF OpEnd, Ended
  <2> QED
    BY <1>0, <2>1, <2>2, UsedBegun, UsedEnded
<1> QED
  BY <1>1, <1>2, <1>3, <1>4, AllInUse, UsedLate DEF UsedNow

LEMMA UsedTick ==
  ASSUME Types, Types', [Next]_vars, Tick \/ Crash
  PROVE  \E d \in Nat : UsedNow(d)
<1>0. "tick" \in Task
  BY DEF Task
<1>1. CASE Tick
  <2>1. /\ UNCHANGED reqs /\ Shrinks
        /\ \/ UNCHANGED disp
           \/ (Begun("tick") \/ Ended("tick")) /\ UNCHANGED held
    BY <1>1, TickDisp
  <2>2. UNCHANGED <<unsettled, cutOff>>
    BY <1>1, TickLeaves
  <2>3. Persist \/ UNCHANGED file \/ file'.unsettled = unsettled
    <3>1. CASE Moved
      <4>1. Persist \/ \E placed :
              file' = [placements |-> placements, lives |-> placed, unsettled |-> unsettled]
        BY <3>1, Zenon DEF Moved
      <4> QED
        BY <4>1
    <3>2. CASE MirrorApply \/ RejoinApply \/ OrphanApply
      BY <3>2 DEF MirrorApply, RejoinApply, OrphanApply, ForgetRecord
    <3>3. CASE ~(Moved \/ MirrorApply \/ RejoinApply \/ OrphanApply)
      BY <1>1, <3>3 DEF Tick, TickBegin, TickCall, StartedApply, PassBegin, NotMoved, TickEnd,
                        MirrorStatus, PassStep
    <3> QED
      BY <3>1, <3>2, <3>3
  <2>4. \A u \in unsettled' \cup file'.unsettled : u.dec \in InUse
    BY <2>2, <2>3, AllInUse, UsedFile
  <2>5. \E d \in Nat : \A t \in Task : disp'[t].dec \in InUse \cup {None, d}
    BY <1>0, <2>1, UsedBegun, UsedEnded
  <2> QED
    BY <2>1, <2>2, <2>4, <2>5, UsedShrinks, AllInUse, UsedLate DEF UsedNow
<1>2. CASE Crash
  <2>1. /\ UNCHANGED <<held, file>> /\ reqs' \subseteq reqs /\ unsettled' = file.unsettled
        /\ (\A t \in Task : disp'[t].dec = None)
        /\ cutOff' \subseteq cutOff \cup {disp[t].dec : t \in Task}
    BY <1>2 DEF Crash, DispIdle
  <2> QED
    BY <2>1, AllInUse, UsedLate DEF UsedNow
<1> QED
  BY <1>1, <1>2

IdsBounded == \E k \in Nat : \A d \in InUse : d = None \/ d <= k

LEMMA InUseType == ASSUME Types, SideType PROVE InUse \subseteq Nat \cup {None}
<1>1. \A r \in reqs : r.dec \in Decision
  BY DEF Types, NodesType, Request
<1>2. \A u \in unsettled \cup file.unsettled : u.dec \in Decision
  BY DEF Types, RecordsType, FileType, Unsettled
<1>3. \A n \in Node : held[n] # None => held[n].dec \in Decision
  BY DEF Types, NodesType, Copy
<1>4. \A t \in Task : disp[t].dec \in Decision \cup {None}
  BY DEF Types, TasksType, DispType
<1>5. \A l \in late : l.dec \in Decision
  BY DEF SideType, Unsettled
<1> QED
  BY <1>1, <1>2, <1>3, <1>4, <1>5, PlaneAssumption DEF InUse, Types, OtherType

LEMMA IdsStep ==
  ASSUME Types, Types', SideType, IdsBounded, [Next]_vars
  PROVE  IdsBounded'
<1>1. \E d \in Nat : InUse' \subseteq InUse \cup {None, d}
  <2>1. CASE UNCHANGED vars
    <3>1. InUse' = InUse
      BY <2>1 DEF vars, nodes, records, tasks, ghosts, InUse
    <3> QED
      BY <3>1
  <2>2. CASE Next
    BY <2>2, UsedNodes, UsedDispatch, UsedOther, UsedTick, UsedInUse DEF Next
  <2> QED
    BY <2>1, <2>2
<1>2. PICK d \in Nat : InUse' \subseteq InUse \cup {None, d}
  BY <1>1
<1>3. PICK k \in Nat : \A e \in InUse : e = None \/ e <= k
  BY DEF IdsBounded
<1>4. \A e \in InUse' : e = None \/ e <= k + d
  BY <1>2, <1>3, InUseType
<1> QED
  BY <1>4 DEF IdsBounded

(* The records, tasks and nodes have their types, through crashes and      *)
(* reloads of the state file; an instance is moved no more often than      *)
(* max_reschedules allows (plane_reschedule.rs, blockers); and a fresh     *)
(* decision id can be had as long as the supply of them is endless, as the *)
(* chain's is.                                                             *)
THEOREM TypeCorrect ==
  ASSUME \A k \in Nat : \E d \in Decision : d > k
  PROVE  Spec => []TypeOK
<1>1. Init => Types /\ SideType /\ IdsBounded
  <2> SUFFICES ASSUME Init PROVE IdsBounded
    BY InitTypes, SideInit
  <2>1. InUse \subseteq {None}
    BY DEF Init, InUse, DispIdle, NoRecords
  <2> QED
    BY <2>1 DEF IdsBounded
<1>2. Types /\ SideType /\ IdsBounded /\ [Next]_vars => Types' /\ SideType' /\ IdsBounded'
  BY StepTypes, SideStep, IdsStep
<1>3. Types /\ SideType /\ IdsBounded => TypeOK
  <2> SUFFICES ASSUME Types, SideType, IdsBounded PROVE Free # {}
    BY TypesTypeOK
  <2>1. PICK k \in Nat : \A d \in InUse : d = None \/ d <= k
    BY DEF IdsBounded
  <2>2. PICK d \in Decision : d > k
    OBVIOUS
  <2>3. d \in Nat /\ d # None
    BY PlaneAssumption
  <2> QED
    BY <2>1, <2>2, <2>3 DEF Free
<1> QED
  BY <1>1, <1>2, <1>3, PTL DEF Spec

-----------------------------------------------------------------------------
(* What stays manageable.                                                  *)

(* Whatever changes the placements or the unsettled decisions saves them.  *)
Saved == file.placements = placements /\ file.unsettled = unsettled

(* The lifecycle's dispatch is the tick's.                                 *)
TickOwns == tick.pc = "dispatch" \/ disp["tick"].pc = "idle"

(* Every request that may still be carried out is answered for.            *)
Waiting(r) == r.phase \in {"sent", "handling"}
HandledOK == \A r \in reqs : Waiting(r) => Answerable(r.dec, r.node)

(* What a STATUS said of an unsettled decision holds until it is used, but *)
(* for what was found late.                                                *)
SettleOK ==
  settling.pc = "told" =>
    /\ [dec |-> settling.dec, node |-> settling.node] \in unsettled
    /\ Queued(settling.dec, settling.node) => Late(settling.dec, settling.node)
    /\ Holds(settling.dec, settling.node) =>
         settling.holds \/ Late(settling.dec, settling.node)

(* The action of StaysManageable: a step after which an instance is not    *)
(* managed found it so, or used such an answer about its node.             *)
LosesOnlySaidGone ==
  \A n \in Node : held'[n] # None /\ ~Managed(n)' =>
    held[n] # None /\ (~Managed(n) \/ SaidGone(n))

(* Saved.                                                                  *)
LEMMA PersistSaves == ASSUME Persist PROVE Saved'
BY DEF Persist, Saved

LEMMA ForgetSaves == ASSUME Saved, NEW n, ForgetRecord(n) PROVE Saved'
<1>1. CASE n \in placements
  BY <1>1, PersistSaves DEF ForgetRecord
<1>2. CASE n \notin placements
  BY <1>2 DEF ForgetRecord, Saved
<1> QED
  BY <1>1, <1>2

LEMMA SavedTick == ASSUME Saved, Tick PROVE Saved'
<1>1. CASE MirrorApply \/ RejoinApply \/ OrphanApply
  <2>1. \/ UNCHANGED <<placements, unsettled, file>>
        \/ ForgetRecord(tick.node)
    BY <1>1 DEF MirrorApply, RejoinApply, OrphanApply, records
  <2>2. PICK n : n = tick.node
    OBVIOUS
  <2>3. ForgetRecord(tick.node) => ForgetRecord(n)
    BY <2>2 DEF ForgetRecord
  <2> QED
    BY <2>1, <2>3, ForgetSaves DEF Saved
<1>2. CASE Moved
  <2>1. CASE tick.dead
    <3>1. /\ UNCHANGED <<placements, unsettled>>
          /\ \E l : file' = [placements |-> placements, lives |-> l, unsettled |-> unsettled]
      BY <1>2, <2>1, Zenon DEF Moved
    <3> QED
      BY <3>1 DEF Saved
  <2>2. CASE ~tick.dead
    BY <1>2, <2>2, PersistSaves DEF Moved
  <2> QED
    BY <2>1, <2>2
<1>3. CASE TickBegin \/ TickCall \/ StartedApply \/ PassBegin \/ NotMoved \/ TickEnd
           \/ \E n \in Node : MirrorStatus(n) \/ PassStep(n)
  <2>1. UNCHANGED <<placements, unsettled>> /\ (Persist \/ UNCHANGED file)
    BY <1>3 DEF TickBegin, TickCall, StartedApply, PassBegin, NotMoved, TickEnd, MirrorStatus,
                PassStep, records
  <2> QED
    BY <2>1, PersistSaves DEF Saved
<1> QED
  BY <1>1, <1>2, <1>3 DEF Tick

LEMMA SavedStep == Saved /\ [Next]_vars => Saved'
<1> SUFFICES ASSUME Saved, [Next]_vars PROVE Saved'
  OBVIOUS
<1>1. CASE \/ UNCHANGED vars
           \/ \E r \in reqs : NodeStep(r)
           \/ \E n \in Node : NodeLease(n) \/ NodeReboot(n) \/ Cut(n) \/ Heal(n)
           \/ \E n \in Node, m \in Verbs : VerbCall(n, m)
           \/ \E n \in Node : DeadAfter(n) \/ BackoffOver(n)
           \/ Outside
  <2>1. UNCHANGED <<placements, unsettled, file>>
    BY <1>1, NodesLeave, OutsideLeaves DEF vars, VerbCall, DeadAfter, BackoffOver, records
  <2> QED
    BY <2>1 DEF Saved
<1>2. CASE \/ \E m \in Movable : OpPlace(m)
           \/ OpEnd \/ VerbEnd
           \/ Settle
           \/ \E t \in Task : Dispatch(t)
  <2>1. Persist \/ UNCHANGED <<placements, unsettled, file>>
    BY <1>2, OthersLeave, DispatchLeaves
  <2> QED
    BY <2>1, PersistSaves DEF Saved
<1>3. CASE Crash
  BY <1>3 DEF Crash, Saved
<1> QED
  BY <1>1, <1>2, <1>3, SavedTick DEF Next

(* The tick and its dispatch.                                              *)
LEMMA RescheduleOwns ==
  ASSUME Types, NEW c, NEW n, NEW dead, NEW back, NEW todo, TickOwns, tick.pc # "dispatch",
         Reschedule(c, n, dead, back, todo)
  PROVE  TickOwns' /\ disp["tick"].pc = "idle" /\ \A v \in Task \ {"tick"} : disp'[v] = disp[v]
<1>1. disp["tick"].pc = "idle"
  BY DEF TickOwns
<1>2. CASE UNCHANGED disp
  BY <1>1, <1>2 DEF TickOwns
<1>3. CASE ~UNCHANGED disp
  <2>1. /\ tick' = [TickIdle EXCEPT !.pc = "dispatch", !.node = n, !.dead = dead,
                                    !.back = back, !.todo = todo]
        /\ \E cs, av : BeginDispatch("tick", cs, av, c.movable, c.resched + 1)
    BY <1>3 DEF Reschedule
  <2>2. tick'.pc = "dispatch"
    BY <2>1 DEF TickIdle
  <2>3. \A v \in Task \ {"tick"} : disp'[v] = disp[v]
    BY <2>1 DEF BeginDispatch, Types, TasksType
  <2> QED
    BY <1>1, <2>2, <2>3 DEF TickOwns
<1> QED
  BY <1>2, <1>3

(* A tick changes only its own dispatch, when that is idle or has ended.   *)
LEMMA OwnsTick ==
  ASSUME Types, TickOwns, Tick
  PROVE  /\ TickOwns'
         /\ \A v \in Task : \/ disp'[v] = disp[v]
                            \/ v = "tick" /\ disp[v].pc \in {"idle", "placed", "failed"}
<1> DEFINE Same == \A v \in Task : \/ disp'[v] = disp[v]
                                   \/ v = "tick" /\ disp[v].pc \in {"idle", "placed", "failed"}
<1>1. ASSUME NEW c, NEW n, NEW dead, NEW back, NEW todo, tick.pc # "dispatch",
             Reschedule(c, n, dead, back, todo)
      PROVE  TickOwns' /\ Same
  BY <1>1, RescheduleOwns
<1>2. ASSUME UNCHANGED disp, tick.pc # "dispatch" PROVE TickOwns' /\ Same
  BY <1>2 DEF TickOwns
<1>3. CASE MirrorApply
  <2>1. tick.pc # "dispatch"
    BY <1>3 DEF MirrorApply
  <2>2. PICK c, n, todo : c = lives'[tick.node] /\ n = tick.node /\ todo = tick.todo
    OBVIOUS
  <2>3. UNCHANGED disp \/ Reschedule(c, n, FALSE, "mirror", todo)
    BY <1>3, <2>2 DEF MirrorApply, Reschedule, BeginDispatch, TickTo
  <2> QED
    BY <1>1, <1>2, <2>1, <2>3
<1>4. CASE RejoinApply
  <2>1. tick.pc # "dispatch"
    BY <1>4 DEF RejoinApply
  <2>2. PICK c, n, todo : c = lives[tick.node] /\ n = tick.node /\ todo = tick.todo
    OBVIOUS
  <2>3. UNCHANGED disp \/ Reschedule(c, n, FALSE, "pass", todo)
    BY <1>4, <2>2 DEF RejoinApply, Reschedule, BeginDispatch, TickTo
  <2> QED
    BY <1>1, <1>2, <2>1, <2>3
<1>5. ASSUME NEW n \in Node, PassStep(n) PROVE TickOwns' /\ Same
  <2>1. tick.pc # "dispatch"
    BY <1>5 DEF PassStep
  <2>2. PICK c, todo : c = lives'[n] /\ todo = tick.todo \ {n}
    OBVIOUS
  <2>3. UNCHANGED disp \/ Reschedule(c, n, TRUE, "pass", todo)
    BY <1>5, <2>2 DEF PassStep, Reschedule, BeginDispatch, TickTo
  <2> QED
    BY <1>1, <1>2, <2>1, <2>3
<1>6. CASE Moved \/ NotMoved
  <2>1. /\ disp["tick"].pc \in {"placed", "failed"}
        /\ disp' = [disp EXCEPT !["tick"] = DispIdle]
    BY <1>6 DEF Moved, NotMoved
  <2> QED
    BY <2>1 DEF TickOwns, DispIdle, Types, TasksType, Task
<1>7. CASE TickBegin \/ PassBegin \/ TickEnd \/ StartedApply \/ OrphanApply \/ TickCall
           \/ \E n \in Node : MirrorStatus(n)
  BY <1>2, <1>7 DEF TickBegin, PassBegin, TickEnd, StartedApply, OrphanApply, TickCall,
                    MirrorStatus
<1> QED
  BY <1>3, <1>4, <1>5, <1>6, <1>7 DEF Tick

LEMMA OwnsStep == Types /\ TickOwns /\ [Next]_vars => TickOwns'
<1> SUFFICES ASSUME Types, TickOwns, [Next]_vars PROVE TickOwns'
  OBVIOUS
<1>1. CASE \/ UNCHANGED vars
           \/ \E r \in reqs : NodeStep(r)
           \/ \E n \in Node : NodeLease(n) \/ NodeReboot(n) \/ Cut(n) \/ Heal(n)
           \/ \E n \in Node, m \in Verbs : VerbCall(n, m)
           \/ VerbEnd
           \/ Settle
           \/ \E n \in Node : DeadAfter(n) \/ BackoffOver(n)
           \/ Outside
  <2>1. UNCHANGED <<tick, disp>>
    BY <1>1, NodesLeave, OutsideLeaves
       DEF vars, VerbCall, VerbEnd, Settle, SettleAsk, SettleUse, SettleStep, DeadAfter,
           BackoffOver, tasks
  <2> QED
    BY <2>1 DEF TickOwns
<1>2. CASE (\E m \in Movable : OpPlace(m)) \/ OpEnd
  <2>1. UNCHANGED tick /\ disp'["tick"] = disp["tick"]
    BY <1>2 DEF OpPlace, OpEnd, BeginDispatch, Types, TasksType, Task
  <2> QED
    BY <2>1 DEF TickOwns
<1>3. ASSUME NEW t \in Task, Dispatch(t) PROVE TickOwns'
  <2>1. UNCHANGED tick /\ disp[t].pc # "idle" /\ \A v \in Task \ {t} : disp'[v] = disp[v]
    BY <1>3 DEF Dispatch, DispatchEmpty, DispatchLost, Reconcile, ReconcileUnload, DispatchNext,
                DispatchAnswer, Unsettle, DispTo, DispStep, Types, TasksType
  <2> QED
    BY <2>1 DEF TickOwns, Task
<1>4. CASE Crash
  BY <1>4 DEF Crash, TickOwns, DispIdle, Task
<1> QED
  BY <1>1, <1>2, <1>3, <1>4, OwnsTick DEF Next

(* What answers for a decision goes on answering for it, unless the        *)
(* decision is no longer waiting, or its instance has a record.            *)
GoesOn ==
  \A d \in Decision, n \in Node : Answerable(d, n) =>
    /\ Queued(d, n)' => Answerable(d, n)'
    /\ Holds(d, n)' => Answerable(d, n)' \/ n \in placements'

LEMMA ManageCore ==
  ASSUME Types, Types', HandledOK, Shrinks, GoesOn,
         \A r \in reqs' : Waiting(r) => r \in reqs \/ Answerable(r.dec, r.node)',
         \A n \in placements : n \in placements' \/ SaidGone(n)
  PROVE  HandledOK' /\ LosesOnlySaidGone
<1>1. HandledOK'
  <2> SUFFICES ASSUME NEW r \in reqs', Waiting(r), r \in reqs PROVE Answerable(r.dec, r.node)'
    BY DEF HandledOK, Waiting
  <2>1. r.dec \in Decision /\ r.node \in Node
    BY DEF Types, NodesType, Request
  <2>2. PICK d \in Decision, n \in Node : d = r.dec /\ n = r.node
    BY <2>1
  <2>3. Answerable(d, n) /\ Queued(d, n)'
    BY <2>1, <2>2 DEF HandledOK, Queued, Waiting
  <2> QED
    BY <2>2, <2>3 DEF GoesOn
<1>2. LosesOnlySaidGone
  <2> SUFFICES ASSUME NEW n \in Node, held'[n] # None, ~Managed(n)'
               PROVE  held[n] # None /\ (~Managed(n) \/ SaidGone(n))
    BY DEF LosesOnlySaidGone
  <2>1. held[n] # None /\ held'[n].dec = held[n].dec
    BY DEF Shrinks
  <2>2. PICK d \in Decision : d = held[n].dec
    BY <2>1 DEF Types, NodesType, Copy
  <2>3. Holds(d, n)'
    BY <2>1, <2>2 DEF Holds
  <2>4. n \notin placements' /\ ~Answerable(d, n)'
    BY <2>1, <2>2 DEF Managed
  <2>5. ~Answerable(d, n)
    BY <2>3, <2>4 DEF GoesOn
  <2> QED
    BY <2>1, <2>2, <2>4, <2>5 DEF Managed
<1> QED
  BY <1>1, <1>2

(* Nothing that answers for a decision is dropped.                         *)
LEMMA GoesOnSame ==
  ASSUME Types, unsettled \subseteq unsettled', cutOff \subseteq cutOff', late \subseteq late',
         \A v \in Task : disp'[v] = disp[v] \/ disp[v].pc \in {"idle", "next", "placed", "failed"}
  PROVE  GoesOn
<1>1. \A d \in Decision, n \in Node : Dispatching(d, n) => Dispatching(d, n)'
  BY DEF Dispatching
<1> QED
  BY <1>1 DEF GoesOn, Answerable, Late

(* The nodes: what is loaded was being handled.                            *)
LEMMA ManageNodes ==
  ASSUME Types, Types', HandledOK,
         \/ \E r \in reqs : NodeStep(r)
         \/ \E n \in Node : NodeLease(n) \/ NodeReboot(n) \/ Cut(n) \/ Heal(n)
  PROVE  HandledOK' /\ LosesOnlySaidGone
<1>0. /\ UNCHANGED <<placements, unsettled, disp, cutOff, late>>
      /\ \A n \in placements : n \in placements' \/ SaidGone(n)
  BY NodesLeave DEF NodeStep, NodeBegin, NodeFetch, NodeLoad, NodeRefuse, NodeLease, NodeReboot,
                    Cut, Heal
<1>1. GoesOn
  BY <1>0, GoesOnSame
<1>2. \A d, n : Answerable(d, n)' <=> Answerable(d, n)
  BY <1>0 DEF Answerable, Dispatching, Late
<1>3. ASSUME NEW r \in reqs, NodeStep(r)
      PROVE  \A q \in reqs' : Waiting(q) => q \in reqs \/ Answerable(q.dec, q.node)'
  <2>1. CASE NodeBegin(r)
    <3>1. \A q \in reqs' : q \in reqs \/ (q.dec = r.dec /\ q.node = r.node)
      BY <2>1 DEF NodeBegin, Types, NodesType, Request
    <3>2. Answerable(r.dec, r.node)
      BY <2>1 DEF HandledOK, Waiting, NodeBegin
    <3>3. \A q \in reqs' : q \in reqs \/ Answerable(q.dec, q.node)
      BY <3>1, <3>2
    <3> QED
      BY <1>2, <3>3
  <2>2. CASE ~NodeBegin(r)
    <3>1. reqs' = reqs \/ \E phase \in {"ok", "refused"} : Answer(r, phase)
      BY <1>3, <2>2 DEF NodeStep, NodeFetch, NodeLoad, NodeRefuse
    <3> QED
      BY <3>1 DEF Answer, Waiting, Types, NodesType, Request
  <2> QED
    BY <2>1, <2>2
<1>4. ASSUME NEW r \in reqs, NodeLoad(r) PROVE HandledOK' /\ LosesOnlySaidGone
  <2>0. r.node \in Node /\ r.phase = "handling"
    BY <1>4 DEF NodeLoad, Types, NodesType, Request
  <2>1. \A q \in reqs' : Waiting(q) => q \in reqs
    BY <1>4, <2>0 DEF NodeLoad, Answer, Waiting, Types, NodesType, Request
  <2>2. HandledOK'
    BY <1>2, <2>1 DEF HandledOK, Waiting
  <2>3. held'[r.node].dec = r.dec /\ \A n \in Node \ {r.node} : held'[n] = held[n]
    BY <1>4, <2>0 DEF NodeLoad, Types, NodesType
  <2>4. Answerable(r.dec, r.node)
    BY <2>0 DEF HandledOK, Waiting
  <2>5. PICK d, k : d = r.dec /\ k = r.node
    OBVIOUS
  <2>6. Managed(r.node)'
    BY <1>2, <2>3, <2>4, <2>5 DEF Managed
  <2>7. ASSUME NEW n \in Node, n # r.node PROVE Managed(n)' <=> Managed(n)
    BY <1>0, <1>2, <2>3, <2>7 DEF Managed
  <2> QED
    BY <2>2, <2>3, <2>5, <2>6, <2>7 DEF LosesOnlySaidGone
<1>5. ASSUME NEW r \in reqs, NodeStep(r), ~NodeLoad(r) PROVE HandledOK' /\ LosesOnlySaidGone
  <2>1. Shrinks
    BY <1>5, SameHeld DEF NodeStep, NodeBegin, NodeFetch, NodeRefuse, Types
  <2> QED
    BY <1>0, <1>1, <1>3, <1>5, <2>1, ManageCore
<1>6. ASSUME NEW n \in Node, NodeLease(n) \/ NodeReboot(n) \/ Cut(n) \/ Heal(n)
      PROVE  HandledOK' /\ LosesOnlySaidGone
  <2>1. reqs' \subseteq reqs
    BY <1>6 DEF NodeLease, NodeReboot, Cut, Heal
  <2>2. Shrinks
    BY <1>6, EnvShrinks
  <2> QED
    BY <1>0, <1>1, <2>1, <2>2, ManageCore
<1> QED
  BY <1>4, <1>5, <1>6

(* A dispatch: it leaves a node when that does not have the decision, when *)
(* it has a record of it, or when it has noted the decision as unsettled.  *)
LEMMA ManageDispatch ==
  ASSUME Types, Types', OneInv, HandledOK, NEW t \in Task, Dispatch(t)
  PROVE  HandledOK' /\ LosesOnlySaidGone
<1>0. /\ placements \subseteq placements' /\ unsettled \subseteq unsettled' /\ UNCHANGED cutOff
      /\ \A v \in Task \ {t} : disp'[v] = disp[v]
  BY DEF Dispatch, DispatchEmpty, DispatchLost, Reconcile, ReconcileUnload, DispatchNext,
         DispatchAnswer, Unsettle, DispTo, DispStep, records, ghosts, Types, TasksType
<1>10. late \subseteq late'
  BY DEF Dispatch, DispatchEmpty, DispatchLost, Reconcile, ReconcileUnload, DispatchNext,
         DispatchAnswer, NoteLate
<1>1. \A n \in placements : n \in placements' \/ SaidGone(n)
  BY <1>0
<1>2. Shrinks
  BY DispatchShrinks
<1>3. \A r \in reqs' : Waiting(r) => r \in reqs \/ Answerable(r.dec, r.node)'
  <2>1. ASSUME NEW n \in Node, DispatchNext(t, n), NEW r \in reqs', r \notin reqs
        PROVE  Answerable(r.dec, r.node)'
    <3>1. r = [dec |-> disp[t].dec, node |-> n, phase |-> "sent"] /\ n \in up
      BY <2>1 DEF DispatchNext
    <3>2. r.dec = disp[t].dec /\ r.node = n
      BY <3>1
    <3>3. disp'[t].pc = "calling" /\ disp'[t].dec = r.dec /\ disp'[t].node = r.node
      BY <2>1, <3>1, <3>2 DEF DispatchNext, Types, TasksType, DispType
    <3> QED
      BY <3>3 DEF Answerable, Dispatching
  <2>2. (\E n \in Node : DispatchNext(t, n)) \/ reqs' \subseteq reqs
    BY DEF Dispatch, DispatchEmpty, DispatchLost, Reconcile, ReconcileUnload, DispatchAnswer
  <2> QED
    BY <2>1, <2>2
<1>4. GoesOn
  <2>1. ASSUME NEW d \in Decision, NEW n \in Node, Answerable(d, n),
               ~(disp[t].pc \in {"calling", "status", "unload"} /\ d = disp[t].dec
                 /\ n = disp[t].node)
        PROVE  Answerable(d, n)'
    BY <1>0, <1>10, <2>1 DEF Answerable, Dispatching, Late
  <2>2. ASSUME NEW d \in Decision, NEW n \in Node, d = disp[t].dec, n = disp[t].node,
               disp[t].pc \in {"calling", "status", "unload"}
        PROVE  /\ Queued(d, n)' => Answerable(d, n)'
               /\ Holds(d, n)' => Answerable(d, n)' \/ n \in placements'
    <3>0. ASSUME NEW pc \in {"status", "unload"}, DispTo(t, pc)
          PROVE  Answerable(d, n)'
      <4>1. disp'[t].pc = pc /\ disp'[t].dec = d /\ disp'[t].node = n
        BY <2>2, <3>0 DEF DispTo, Types, TasksType, DispType
      <4> QED
        BY <4>1 DEF Answerable, Dispatching
    <3>1. CASE Unsettle(t)
      BY <2>2, <3>1 DEF Unsettle, Answerable
    <3>2. CASE DispatchLost(t)
      BY <3>0, <3>2 DEF DispatchLost
    <3>3. CASE Reconcile(t) /\ ~Unsettle(t)
      <4>1. /\ UNCHANGED <<held, reqs>> /\ ~InFlight(d, n)
            /\ DispTo(t, "unload") \/ (~Holds(d, n) /\ NoteLate(d, n))
        BY <2>2, <3>3 DEF Reconcile
      <4>2. CASE ~Holds(d, n) /\ NoteLate(d, n)
        <5>1. ~Holds(d, n)' /\ (Queued(d, n)' => Late(d, n)')
          BY <4>1, <4>2 DEF Holds, Queued, InFlight, NoteLate, Late
        <5> QED
          BY <5>1 DEF Answerable
      <4> QED
        BY <3>0, <4>1, <4>2
    <3>4. CASE ReconcileUnload(t) /\ ~Unsettle(t)
      <4>1. Call(n, Unloaded(n), "ok") /\ UNCHANGED <<reqs, late>> /\ disp[t].pc = "unload"
        BY <2>2, <3>4 DEF ReconcileUnload, Call, Unloaded
      <4>2. held'[n] = None
        BY <4>1 DEF Call, Unloaded, Types, NodesType
      <4>3. Queued(d, n) => Late(d, n)
        BY <2>2, <4>1 DEF OneInv, DispOK
      <4>4. Queued(d, n)' => Late(d, n)'
        BY <4>1, <4>3 DEF Queued, Late
      <4> QED
        BY <4>2, <4>4 DEF Answerable, Holds
    <3>5. ASSUME NEW r \in reqs, DispatchAnswer(t, r)
          PROVE  ~Queued(d, n)' /\ (Holds(d, n)' => n \in placements')
      <4>1. /\ r.dec = d /\ r.node = n /\ reqs' = reqs \ {r} /\ UNCHANGED held
            /\ r.phase = "ok" => n \in placements'
        BY <2>2, <3>5 DEF DispatchAnswer, Mine
      <4>2. ~Queued(d, n)'
        BY <4>1 DEF Queued, OneInv, ReqsOK
      <4>3. r.phase # "ok" => ~Holds(d, n)
        BY <4>1 DEF OneInv, ReqsOK
      <4> QED
        BY <4>1, <4>2, <4>3 DEF Holds
    <3> QED
      BY <2>2, <3>1, <3>2, <3>3, <3>4, <3>5 DEF Dispatch, DispatchEmpty, DispatchNext
  <2> QED
    BY <2>1, <2>2 DEF GoesOn
<1> QED
  BY <1>1, <1>2, <1>3, <1>4, ManageCore

LEMMA ManageTick ==
  ASSUME Types, Types', TickOwns, HandledOK, Tick
  PROVE  HandledOK' /\ LosesOnlySaidGone
<1>1. UNCHANGED reqs /\ Shrinks
  BY TickDisp
<1>2. UNCHANGED <<unsettled, cutOff, late>>
  BY TickLeaves
<1>3. GoesOn
  BY <1>2, OwnsTick, GoesOnSame
<1>4. \A n \in placements : n \in placements' \/ SaidGone(n)
  <2>1. CASE MirrorApply \/ RejoinApply
    <3>1. \/ UNCHANGED placements
          \/ placements' = placements \ {tick.node} /\ tick.row \in {"told", "missing"}
      BY <2>1 DEF MirrorApply, RejoinApply, ForgetRecord, records
    <3> QED
      BY <2>1, <3>1 DEF MirrorApply, RejoinApply, SaidGone
  <2>2. CASE OrphanApply
    BY <2>2 DEF OrphanApply, ForgetRecord, SaidGone
  <2>3. CASE Moved
    BY <2>3 DEF Moved, SaidGone
  <2>4. CASE TickBegin \/ TickCall \/ StartedApply \/ PassBegin \/ NotMoved \/ TickEnd
             \/ \E n \in Node : MirrorStatus(n) \/ PassStep(n)
    BY <2>4 DEF TickBegin, TickCall, StartedApply, PassBegin, NotMoved, TickEnd, MirrorStatus,
                PassStep, records
  <2> QED
    BY <2>1, <2>2, <2>3, <2>4 DEF Tick
<1> QED
  BY <1>1, <1>3, <1>4, ManageCore

LEMMA ManageOther ==
  ASSUME Types, Types', Saved, SettleOK, HandledOK,
         \/ \E m \in Movable : OpPlace(m)
         \/ OpEnd
         \/ Settle
         \/ \E n \in Node, m \in Verbs : VerbCall(n, m)
         \/ VerbEnd \/ Outside \/ Crash
         \/ \E n \in Node : DeadAfter(n) \/ BackoffOver(n)
  PROVE  HandledOK' /\ LosesOnlySaidGone
<1>0. Crash => reqs' \subseteq reqs /\ UNCHANGED <<held, placements, unsettled, late>>
  BY DEF Crash, Saved
<1>1. reqs' \subseteq reqs
  BY <1>0, OthersLeave
<1>2. Shrinks
  <2>1. UNCHANGED held \/ \E n \in Node : held[n] # None /\ (Stopped(n) \/ Unloaded(n))
    BY <1>0, OutsideLeaves
       DEF OpPlace, OpEnd, Settle, SettleAsk, SettleUse, SettleStep, VerbCall, VerbEnd, DeadAfter,
           BackoffOver, nodes
  <2> QED
    BY <2>1, EffectFacts, SameHeld DEF Types
<1>3. \A n \in placements : n \in placements' \/ SaidGone(n)
  <2>1. VerbEnd => \A n \in placements : n \in placements' \/ SaidGone(n)
    BY DEF VerbEnd, records, SaidGone
  <2> QED
    BY <1>0, <2>1, OthersLeave
<1>4. GoesOn
  <2>1. CASE (\E m \in Movable : OpPlace(m)) \/ OpEnd
    <3>1. /\ UNCHANGED <<unsettled, cutOff, late>> /\ disp["op"].pc \in {"idle", "placed", "failed"}
          /\ \A v \in Task \ {"op"} : disp'[v] = disp[v]
      BY <2>1 DEF OpPlace, OpEnd, BeginDispatch, records, ghosts, Types, TasksType
    <3> QED
      BY <3>1, GoesOnSame
  <2>2. CASE SettleUse
    <3> SUFFICES ASSUME NEW d \in Decision, NEW n \in Node, Answerable(d, n)
                 PROVE  /\ Queued(d, n)' => Answerable(d, n)'
                        /\ Holds(d, n)' => Answerable(d, n)' \/ n \in placements'
      BY DEF GoesOn
    <3>1. /\ UNCHANGED <<held, reqs, disp, cutOff, late>>
          /\ unsettled' = unsettled \ {[dec |-> settling.dec, node |-> settling.node]}
          /\ settling.holds => settling.node \in placements'
      BY <2>2 DEF SettleUse, SettleStep, nodes, ghosts
    <3>2. CASE d = settling.dec /\ n = settling.node
      <4>1. /\ Queued(d, n) => Late(d, n)
            /\ Holds(d, n) => settling.holds \/ Late(d, n)
        BY <2>2, <3>2 DEF SettleOK, SettleUse
      <4>2. /\ Queued(d, n)' => Late(d, n)'
            /\ Holds(d, n)' => settling.holds \/ Late(d, n)'
        BY <3>1, <4>1 DEF Queued, Holds, Late
      <4> QED
        BY <3>1, <3>2, <4>2 DEF Answerable
    <3>3. CASE ~(d = settling.dec /\ n = settling.node)
      <4>1. [dec |-> d, node |-> n] # [dec |-> settling.dec, node |-> settling.node]
        BY <3>3
      <4> QED
        BY <3>1, <4>1 DEF Answerable, Dispatching, Late
    <3> QED
      BY <3>2, <3>3
  <2>3. CASE \/ \E n \in Node, m \in Verbs : VerbCall(n, m)
             \/ (\E u \in unsettled : SettleAsk(u)) \/ VerbEnd \/ Outside
             \/ \E n \in Node : DeadAfter(n) \/ BackoffOver(n)
    <3>1. UNCHANGED <<unsettled, cutOff, disp>> /\ late \subseteq late'
      BY <2>3, OutsideLeaves
         DEF VerbCall, SettleAsk, SettleStep, NoteLate, VerbEnd, DeadAfter, BackoffOver, records,
             ghosts, tasks
    <3> QED
      BY <3>1, GoesOnSame
  <2>4. CASE Crash
    <3>1. /\ UNCHANGED <<unsettled, late>>
          /\ cutOff' = cutOff \cup ({disp[t].dec : t \in Task} \ {None})
      BY <1>0, <2>4 DEF Crash
    <3>2. \A d \in Decision, n \in Node : Answerable(d, n) => Answerable(d, n)'
      BY <3>1, PlaneAssumption DEF Answerable, Dispatching, Late
    <3> QED
      BY <3>2 DEF GoesOn
  <2> QED
    BY <2>1, <2>2, <2>3, <2>4 DEF Settle
<1> QED
  BY <1>1, <1>2, <1>3, <1>4, ManageCore

(* What a STATUS said of an unsettled decision.                            *)
LEMMA SettleKept ==
  ASSUME SettleOK, UNCHANGED settling, unsettled \subseteq unsettled', late \subseteq late',
         \A r \in reqs' : Waiting(r) =>
            \/ \E q \in reqs : q.dec = r.dec /\ q.node = r.node /\ Waiting(q)
            \/ [dec |-> r.dec, node |-> r.node] \notin unsettled,
         \A d : \A n \in Node : Holds(d, n)' => Holds(d, n) \/ Queued(d, n),
         settling.pc = "told" => settling.node \in Node
  PROVE  SettleOK'
<1> SUFFICES ASSUME settling.pc = "told"
             PROVE  /\ [dec |-> settling'.dec, node |-> settling'.node] \in unsettled'
                    /\ Queued(settling.dec, settling.node)' => Late(settling.dec, settling.node)'
                    /\ Holds(settling.dec, settling.node)' =>
                         settling'.holds \/ Late(settling.dec, settling.node)'
  BY DEF SettleOK
<1>1. PICK d, n : d = settling.dec /\ n = settling.node
  OBVIOUS
<1>2. /\ [dec |-> d, node |-> n] \in unsettled /\ n \in Node
      /\ Queued(d, n) => Late(d, n)
      /\ Holds(d, n) => settling.holds \/ Late(d, n)
  BY <1>1 DEF SettleOK
<1>3. Late(d, n) => Late(d, n)'
  BY DEF Late
<1>4. Queued(d, n)' => Queued(d, n)
  BY <1>2 DEF Queued, Waiting
<1>5. /\ Queued(settling.dec, settling.node)' <=> Queued(d, n)'
      /\ Holds(settling.dec, settling.node)' <=> Holds(d, n)'
      /\ Late(settling.dec, settling.node)' <=> Late(d, n)'
  BY <1>1 DEF Queued, Holds, Late
<1> QED
  BY <1>1, <1>2, <1>3, <1>4, <1>5

LEMMA SettleStays ==
  ASSUME IInv, IInv', SettleOK, [Next]_vars
  PROVE  SettleOK'
<1>0. /\ Types /\ Types' /\ OneInv /\ (settling.pc = "told" => settling.node \in Node)
      /\ \A r \in reqs : r.dec \in Decision /\ r.node \in Node
  BY DEF IInv, Types, OtherType, SettleIdle, SettleType, NodesType, Request
<1>1. ASSUME UNCHANGED settling, unsettled \subseteq unsettled', late \subseteq late',
             reqs' \subseteq reqs, Shrinks
      PROVE  SettleOK'
  <2>1. \A d : \A n \in Node : Holds(d, n)' => Holds(d, n)
    BY <1>1 DEF Shrinks, Holds
  <2> QED
    BY <1>0, <1>1, <2>1, SettleKept
<1>2. ASSUME NEW r \in reqs, NodeStep(r) PROVE SettleOK'
  <2>1. UNCHANGED <<settling, unsettled, late>>
    BY <1>2 DEF NodeStep, NodeBegin, NodeFetch, NodeLoad, NodeRefuse, tasks, records
  <2>2. \A q \in reqs' : Waiting(q) =>
          \E p \in reqs : p.dec = q.dec /\ p.node = q.node /\ Waiting(p)
    BY <1>2 DEF NodeStep, NodeBegin, NodeFetch, NodeLoad, NodeRefuse, Answer, Waiting, IInv, Types,
                NodesType, Request
  <2>3. \A d : \A n \in Node : Holds(d, n)' => Holds(d, n) \/ Queued(d, n)
    <3>1. CASE NodeLoad(r)
      BY <1>0, <3>1 DEF NodeLoad, Holds, Queued, Types, NodesType
    <3>2. CASE ~NodeLoad(r)
      BY <1>2, <3>2 DEF NodeStep, NodeBegin, NodeFetch, NodeRefuse, Holds
    <3> QED
      BY <3>1, <3>2
  <2> QED
    BY <1>0, <2>1, <2>2, <2>3, SettleKept
<1>3. ASSUME NEW t \in Task, Dispatch(t) PROVE SettleOK'
  <2>1. /\ UNCHANGED settling /\ unsettled \subseteq unsettled' /\ late \subseteq late'
    BY <1>3 DEF Dispatch, DispatchEmpty, DispatchLost, Reconcile, ReconcileUnload, DispatchNext,
                DispatchAnswer, Unsettle, NoteLate, DispStep, records
  <2>2. CASE reqs' \subseteq reqs
    <3>1. Shrinks
      BY <1>0, <1>3, DispatchShrinks
    <3> QED
      BY <1>1, <2>1, <2>2, <3>1
  <2>3. ASSUME NEW n \in Node, DispatchNext(t, n) PROVE SettleOK'
    <3>1. UNCHANGED held /\ n \in disp[t].todo
      BY <2>3 DEF DispatchNext
    <3>2. \A r \in reqs' : r \in reqs \/ (r.dec = disp[t].dec /\ r.node = n)
      BY <2>3 DEF DispatchNext
    <3>3. [dec |-> disp[t].dec, node |-> n] \notin unsettled
      BY <1>0, <3>1 DEF OneInv, DispOK
    <3>4. \A d, m : Holds(d, m)' => Holds(d, m)
      BY <3>1 DEF Holds
    <3> QED
      BY <1>0, <2>1, <3>2, <3>3, <3>4, SettleKept
  <2> QED
    BY <1>3, <2>2, <2>3 DEF Dispatch, DispatchEmpty, DispatchLost, Reconcile, ReconcileUnload,
                            DispatchAnswer
<1>4. ASSUME NEW u \in unsettled, SettleAsk(u) PROVE SettleOK'
  <2>1. /\ UNCHANGED <<held, reqs, unsettled>> /\ ~InFlight(u.dec, u.node) /\ NoteLate(u.dec, u.node)
        /\ settling' = [pc |-> "told", dec |-> u.dec, node |-> u.node,
                        holds |-> Holds(u.dec, u.node)]
    BY <1>4 DEF SettleAsk, SettleStep, nodes, records
  <2>2. PICK d, n : d = u.dec /\ n = u.node
    OBVIOUS
  <2>3. /\ settling'.dec = d /\ settling'.node = n /\ (Holds(d, n) => settling'.holds)
    BY <2>1, <2>2
  <2>4. [dec |-> d, node |-> n] \in unsettled'
    BY <1>0, <2>1, <2>2 DEF Types, RecordsType, Unsettled
  <2>5. (Queued(d, n)' => Late(d, n)') /\ (Holds(d, n)' => Holds(d, n))
    BY <2>1, <2>2 DEF Queued, InFlight, NoteLate, Late, Holds
  <2>6. /\ Queued(settling.dec, settling.node)' <=> Queued(d, n)'
        /\ Holds(settling.dec, settling.node)' <=> Holds(d, n)'
        /\ Late(settling.dec, settling.node)' <=> Late(d, n)'
    BY <2>3 DEF Queued, Holds, Late
  <2> QED
    BY <2>3, <2>4, <2>5, <2>6 DEF SettleOK
<1>5. CASE SettleUse \/ Crash
  <2>1. settling'.pc # "told"
    BY <1>5 DEF SettleUse, Crash, SettleIdle
  <2> QED
    BY <2>1 DEF SettleOK
<1>6. CASE Tick
  BY <1>0, <1>1, <1>6, TickLeaves, TickDisp
<1>7. ASSUME NEW n \in Node, NodeLease(n) \/ NodeReboot(n) \/ Cut(n) \/ Heal(n) PROVE SettleOK'
  <2>1. UNCHANGED <<settling, unsettled, late>> /\ reqs' \subseteq reqs
    BY <1>7 DEF NodeLease, NodeReboot, Cut, Heal, tasks, records
  <2> QED
    BY <1>0, <1>1, <1>7, <2>1, EnvShrinks
<1>8. CASE \/ (\E m \in Movable : OpPlace(m)) \/ OpEnd \/ VerbEnd \/ UNCHANGED vars
           \/ \E n \in Node : DeadAfter(n) \/ BackoffOver(n)
           \/ Outside
  <2>1. UNCHANGED <<settling, unsettled, late, reqs, held>>
    BY <1>8, OutsideLeaves DEF OpPlace, OpEnd, VerbEnd, DeadAfter, BackoffOver, vars, nodes,
                               records, tasks
  <2> QED
    BY <1>0, <1>1, <2>1, SameHeld DEF Types
<1>9. ASSUME NEW n \in Node, NEW m \in Verbs, VerbCall(n, m) PROVE SettleOK'
  <2>1. UNCHANGED <<settling, unsettled, late, reqs>> /\ Shrinks
    BY <1>0, <1>9, EffectFacts DEF VerbCall, records, Types
  <2> QED
    BY <1>1, <2>1
<1> QED
  BY <1>2, <1>3, <1>4, <1>5, <1>6, <1>7, <1>8, <1>9 DEF Next, Settle

ManageInv == IInv /\ Saved /\ TickOwns /\ SettleOK /\ HandledOK

LEMMA ManageInit == Init => ManageInv
<1> SUFFICES ASSUME Init PROVE ManageInv
  OBVIOUS
<1>1. Saved /\ TickOwns /\ SettleOK /\ HandledOK
  BY DEF Init, Saved, NoRecords, TickOwns, DispIdle, TickIdle, Task, SettleOK, SettleIdle, HandledOK
<1> QED
  BY <1>1, InitTypes, SideInit, OneInit DEF ManageInv, IInv

LEMMA ManageStep == ManageInv /\ [Next]_vars => ManageInv' /\ LosesOnlySaidGone
<1> SUFFICES ASSUME ManageInv, [Next]_vars
             PROVE  ManageInv' /\ LosesOnlySaidGone
  OBVIOUS
<1>1. IInv' /\ Saved' /\ TickOwns'
  BY OneStep, SavedStep, OwnsStep DEF ManageInv, IInv
<1>2. Types /\ Types' /\ OneInv /\ Saved /\ TickOwns /\ SettleOK /\ HandledOK
  BY <1>1 DEF ManageInv, IInv
<1>3. HandledOK' /\ LosesOnlySaidGone
  <2>1. CASE UNCHANGED vars
    <3>1. UNCHANGED <<held, reqs, disp, unsettled, placements, cutOff, late>>
      BY <2>1 DEF vars, nodes, tasks, records, ghosts
    <3> QED
      BY <1>2, <3>1, SameHeld, GoesOnSame, ManageCore DEF Types
  <2>2. CASE Next
    BY <1>2, <2>2, ManageNodes, ManageDispatch, ManageTick, ManageOther DEF Next
  <2> QED
    BY <2>1, <2>2
<1>4. SettleOK'
  BY <1>1, <1>2, SettleStays DEF ManageInv
<1> QED
  BY <1>1, <1>3, <1>4 DEF ManageInv

(* plane_state.rs: "instances placed on other nodes stay manageable".      *)
(* What a node comes to hold is answered for, and from then on it has a    *)
(* record, is unsettled or is being dispatched, through lost calls, cuts,  *)
(* reboots, UNLOADs, moves and crashes, unless the controller crashed over *)
(* its dispatch or its request came late; with one exception: a step that  *)
(* uses an answer about that node which the instance has made out of date  *)
(* (forget_instances and the end of an UNLOAD go by the instance id).      *)
THEOREM LostOnlyByStaleAnswer == Spec => StaysManageable
<1>1. Init => ManageInv
  BY ManageInit
<1>2. ManageInv /\ [Next]_vars =>
        /\ ManageInv'
        /\ \A n \in Node : held'[n] # None /\ ~Managed(n)' =>
              held[n] # None /\ (~Managed(n) \/ SaidGone(n))
  BY ManageStep DEF LosesOnlySaidGone
<1> QED
  BY <1>1, <1>2, PTL DEF Spec, StaysManageable

-----------------------------------------------------------------------------
(* One replacement at a time.                                              *)

(* The instance the operator asked for once, and a controller that does    *)
(* not crash: of the lives made for its placements, one is not replaced.   *)
Current(n) == lives[n] # None /\ lives[n].order /\ lives[n].state # "Rescheduled"

(* Before its placement is recorded there are only lives made up for what  *)
(* was found on nodes.                                                     *)
NotYet ==
  /\ left["place"] <= 1 /\ left["crash"] = 0
  /\ disp["op"].pc # "idle" => left["place"] = 0
  /\ left["place"] > 0 \/ disp["op"].pc # "idle" =>
       /\ \A n \in Node : lives[n] # None => ~lives[n].order /\ lives[n].resched = 0
       /\ tick.pc # "dispatch"

(* The current life is the one of the latest move.                         *)
Latest ==
  \A m, n \in Node : Current(n) =>
    /\ Current(m) => m = n
    /\ lives[m] # None => lives[m].resched <= lives[n].resched

(* While it is being moved there is no other, and it will be overtaken.    *)
Moving ==
  tick.pc = "dispatch" =>
    /\ \A n \in Node : Current(n) => n = tick.node
    /\ \A m \in Node : lives[m] # None => lives[m].resched < disp["tick"].resched
    /\ tick.dead => lives[tick.node] = None \/ lives[tick.node].state = "Lost"

(* What a tick has in hand otherwise has not been replaced.                *)
NotReplaced ==
  tick.pc \in {"start", "started", "rejoin"} =>
    lives[tick.node] = None \/ lives[tick.node].state # "Rescheduled"

Chain == NotYet /\ Latest /\ Moving /\ NotReplaced

(* The action of NotPlacedAgain.                                           *)
PlacesLatest ==
  tick.pc # "dispatch" /\ tick'.pc = "dispatch" =>
    ~\E m \in placements : /\ lives[m] # None /\ lives[tick'.node] # None
                           /\ lives[m].resched > lives[tick'.node].resched

(* The lives of a step that moves nothing: each is dropped, stays what it  *)
(* was to the order, or is made up for an instance without one.            *)
Succeeds(n) ==
  \/ lives'[n] = None
  \/ /\ lives[n] # None /\ lives'[n].resched = lives[n].resched
     /\ lives'[n].order = lives[n].order
     /\ lives'[n].state = "Rescheduled" <=> lives[n].state = "Rescheduled"
  \/ lives[n] = None /\ ~lives'[n].order /\ lives'[n].resched = 0
     /\ lives'[n].state # "Rescheduled"

LEMMA LatestKept ==
  ASSUME Types, Types', Latest, \A n \in Node : Succeeds(n)
  PROVE  Latest' /\ \A n \in Node : Current(n)' => Current(n)
<1>1. ASSUME NEW n \in Node, Current(n)'
      PROVE  Current(n) /\ lives'[n].resched = lives[n].resched
  BY <1>1 DEF Succeeds, Current
<1>2. ASSUME NEW n \in Node, NEW m \in Node, Current(n)', lives'[m] # None
      PROVE  lives'[m].resched <= lives'[n].resched
  <2>1. Current(n) /\ lives'[n].resched = lives[n].resched
    BY <1>1, <1>2
  <2>2. lives'[n].resched \in Nat
    BY <2>1, <1>2, PlaneAssumption DEF Types, RecordsType, Lives, Life, Current
  <2>3. CASE lives[m] = None
    BY <1>2, <2>2, <2>3 DEF Succeeds
  <2>4. CASE lives[m] # None
    BY <1>2, <2>1, <2>4 DEF Succeeds, Latest
  <2> QED
    BY <2>3, <2>4
<1> QED
  BY <1>1, <1>2 DEF Latest

(* A step that moves nothing, while nothing is being moved or something    *)
(* still is.                                                               *)
LEMMA ChainKept ==
  ASSUME Types, Types', Chain, \A n \in Node : Succeeds(n), UNCHANGED tick,
         left' = left \/ \E e \in Event : Spend(e) /\ e # "place",
         \A t \in Task : disp'[t].pc = "idle" <=> disp[t].pc = "idle",
         disp'["tick"].resched = disp["tick"].resched,
         \A n \in Node : lives'[n] # None => lives[n] # None /\ lives'[n].state = lives[n].state
  PROVE  Chain' /\ PlacesLatest
<1>0. "op" \in Task /\ "place" \in Event /\ "crash" \in Event
  BY DEF Task, Event
<1>1. left'["place"] = left["place"] /\ left'["crash"] <= left["crash"]
  BY <1>0 DEF Spend, Types, OtherType
<1>2. left'["crash"] \in Nat
  BY <1>0 DEF Types, OtherType
<1>3. NotYet'
  BY <1>0, <1>1, <1>2 DEF Chain, NotYet, Succeeds
<1>4. Latest' /\ \A n \in Node : Current(n)' => Current(n)
  BY LatestKept DEF Chain
<1>5. ASSUME tick.pc \notin {"idle", "mirror", "pass"} PROVE tick.node \in Node
  BY <1>5 DEF Types, TasksType, TickPoint
<1>6. Moving'
  BY <1>4, <1>5 DEF Chain, Moving, Succeeds
<1>7. NotReplaced'
  BY <1>5 DEF Chain, NotReplaced
<1> QED
  BY <1>3, <1>4, <1>6, <1>7 DEF Chain, PlacesLatest

LEMMA SetStateSucceeds ==
  ASSUME NEW c \in Life, c.state # "Rescheduled", NEW to \in {"Running", "Stopped", "Lost"},
         NEW f \in BOOLEAN
  PROVE  /\ SetState(c, to, f).state # "Rescheduled" /\ SetState(c, to, f).order = c.order
         /\ SetState(c, to, f).resched = c.resched /\ SetState(c, to, f) # None
         /\ SetState(c, to, f).state \in {to, c.state}
<1>0. can_transition(c.state, to) \in BOOLEAN /\ is_live(c.state) \in BOOLEAN
  BY DEF can_transition, is_terminal, is_live
<1>1. SetState(c, to, f) =
        [c EXCEPT !.state = IF can_transition(c.state, to) \/ f THEN to ELSE @,
                  !.was = IF to = "Lost" THEN is_live(c.state) ELSE @]
  BY DEF SetState
<1>2. SetState(c, to, f).state \in {to, c.state} /\ SetState(c, to, f).order = c.order
      /\ SetState(c, to, f).resched = c.resched
  BY <1>1 DEF Life
<1>3. SetState(c, to, f) # None
  <2>1. SetState(c, to, f) \in Life
    BY SetStateType
  <2> QED
    BY <2>1, PlaneAssumption
<1> QED
  BY <1>2, <1>3

LEMMA LifeOfSucceeds ==
  ASSUME Types, NEW n \in Node, lives[n] = None \/ lives[n].state # "Rescheduled",
         NEW to \in {"Running", "Stopped", "Lost"}, NEW f \in BOOLEAN,
         lives' = [lives EXCEPT ![n] = SetState(LifeOf(n), to, f)]
  PROVE  \A m \in Node : Succeeds(m)
<1>1. LifeOf(n) \in Life
  BY LifeOfType DEF Types, RecordsType
<1>2. CASE lives[n] = None
  <2>1. LifeOf(n).state = "Running" /\ ~LifeOf(n).order /\ LifeOf(n).resched = 0
    BY <1>2 DEF LifeOf, FreshLife
  <2>2. ~lives'[n].order /\ lives'[n].resched = 0 /\ lives'[n].state # "Rescheduled"
    BY <1>1, <2>1, SetStateSucceeds DEF Types, RecordsType, Lives
  <2> QED
    BY <1>2, <2>2 DEF Succeeds, Types, RecordsType, Lives
<1>3. CASE lives[n] # None
  <2>1. LifeOf(n) = lives[n] /\ lives[n].state # "Rescheduled"
    BY <1>3 DEF LifeOf
  <2>2. /\ lives'[n].order = lives[n].order /\ lives'[n].resched = lives[n].resched
        /\ lives'[n].state # "Rescheduled"
    BY <1>1, <2>1, SetStateSucceeds DEF Types, RecordsType, Lives
  <2> QED
    BY <1>3, <2>1, <2>2 DEF Succeeds, Types, RecordsType, Lives
<1> QED
  BY <1>2, <1>3

LEMMA SameSucceeds == ASSUME UNCHANGED lives PROVE \A n \in Node : Succeeds(n)
BY DEF Succeeds

LEMMA WaitSucceeds ==
  ASSUME Types, NEW n \in Node, NEW b,
         lives' = IF lives[n] = None THEN lives ELSE [lives EXCEPT ![n].wait = b]
  PROVE  \A m \in Node : /\ Succeeds(m)
                         /\ lives'[m] # None => lives[m] # None /\ lives'[m].state = lives[m].state
<1>1. CASE lives[n] = None
  BY <1>1 DEF Succeeds
<1>2. CASE lives[n] # None
  <2>1. lives[n] \in Life /\ lives' = [lives EXCEPT ![n] = [lives[n] EXCEPT !.wait = b]]
    BY <1>2 DEF Types, RecordsType, Lives
  <2>2. /\ lives'[n].order = lives[n].order /\ lives'[n].resched = lives[n].resched
        /\ lives'[n].state = lives[n].state /\ \A m \in Node \ {n} : lives'[m] = lives[m]
    BY <2>1 DEF Life, Types, RecordsType, Lives
  <2> QED
    BY <1>2, <2>2 DEF Succeeds
<1> QED
  BY <1>1, <1>2

LEMMA ForgetSucceeds ==
  ASSUME Types, NEW n \in Node, lives' = [lives EXCEPT ![n] = None]
  PROVE  \A m \in Node : /\ Succeeds(m)
                         /\ lives'[m] # None => lives[m] # None /\ lives'[m].state = lives[m].state
BY DEF Succeeds, Types, RecordsType, Lives

(* A tick's step from loop to call and back.                               *)
LEMMA ChainTurn ==
  ASSUME Types, Types', Chain, \A n \in Node : Succeeds(n), UNCHANGED <<left, disp>>,
         tick.pc # "dispatch", tick'.pc # "dispatch", NotReplaced'
  PROVE  Chain' /\ PlacesLatest
<1>1. Latest'
  BY LatestKept DEF Chain
<1>2. NotYet'
  BY DEF Chain, NotYet, Succeeds
<1> QED
  BY <1>1, <1>2 DEF Chain, Moving, PlacesLatest

(* It begins to move the instance.                                         *)
LEMMA ChainBegins ==
  ASSUME Types, Types', Chain, \A m \in Node : Succeeds(m), UNCHANGED left, tick.pc # "dispatch",
         NEW n \in Node, NEW dead \in BOOLEAN,
         lives'[n] # None, lives'[n].order, lives'[n].state # "Rescheduled",
         dead => lives'[n].state = "Lost",
         tick'.pc = "dispatch", tick'.node = n, tick'.dead = dead,
         disp'["tick"].resched = lives'[n].resched + 1, disp'["op"] = disp["op"]
  PROVE  Chain' /\ PlacesLatest
<1>1. Latest' /\ \A m \in Node : Current(m)' => Current(m)
  BY LatestKept DEF Chain
<1>2. Current(n) /\ Current(n)' /\ lives[n].resched = lives'[n].resched
  BY DEF Succeeds, Current
<1>3. left["place"] = 0 /\ disp["op"].pc = "idle"
  <2>1. left["place"] \in Nat
    BY DEF Types, OtherType, Event
  <2> QED
    BY <1>2, <2>1 DEF Chain, NotYet, Current
<1>4. NotYet'
  BY <1>3 DEF Chain, NotYet
<1>5. \A m \in Node : lives'[m] # None => lives'[m].resched < lives'[n].resched + 1
  <2>1. \A m \in Node : lives'[m] # None => lives'[m].resched \in Nat
    BY PlaneAssumption DEF Types, RecordsType, Lives, Life
  <2> QED
    BY <1>1, <1>2, <2>1 DEF Latest
<1>6. Moving'
  BY <1>1, <1>2, <1>5 DEF Moving, Latest
<1>7. NotReplaced'
  BY DEF NotReplaced
<1>8. PlacesLatest
  <2>1. \A m \in Node : lives[m] # None => lives[m].resched <= lives[n].resched
    BY <1>2 DEF Chain, Latest
  <2>2. \A m \in Node : lives[m] # None => lives[m].resched \in Nat
    BY PlaneAssumption DEF Types, RecordsType, Lives, Life
  <2>3. placements \subseteq Node
    BY DEF Types, RecordsType
  <2> QED
    BY <2>1, <2>2, <2>3 DEF PlacesLatest
<1> QED
  BY <1>1, <1>4, <1>6, <1>7 , <1>8 DEF Chain

(* reschedule: it gives the instance up for now, or begins to move it.     *)
LEMMA ChainReschedule ==
  ASSUME Types, Types', Chain, \A m \in Node : Succeeds(m), UNCHANGED left, tick.pc # "dispatch",
         NEW n \in Node, NEW dead \in BOOLEAN, NEW back \in {"mirror", "pass"}, NEW todo,
         lives'[n] # None, lives'[n].state # "Rescheduled", dead => lives'[n].state = "Lost",
         NEW c, c = lives'[n], Reschedule(c, n, dead, back, todo)
  PROVE  Chain' /\ PlacesLatest
<1>1. CASE c.wait \/ Blocked(c, dead)
  <2>1. TickTo(back, todo) /\ UNCHANGED disp
    BY <1>1 DEF Reschedule
  <2>2. tick'.pc = back
    BY <2>1 DEF TickTo, TickIdle
  <2> QED
    BY <2>1, <2>2, ChainTurn DEF NotReplaced
<1>2. CASE ~(c.wait \/ Blocked(c, dead))
  <2>1. /\ tick' = [TickIdle EXCEPT !.pc = "dispatch", !.node = n, !.dead = dead,
                                    !.back = back, !.todo = todo]
        /\ \E cs, av : BeginDispatch("tick", cs, av, c.movable, c.resched + 1)
    BY <1>2 DEF Reschedule
  <2>2. tick'.pc = "dispatch" /\ tick'.node = n /\ tick'.dead = dead
    BY <2>1 DEF TickIdle
  <2>3. disp'["tick"].resched = c.resched + 1 /\ disp'["op"] = disp["op"]
    BY <2>1 DEF BeginDispatch, Types, TasksType, Task
  <2>4. c \in Life
    BY DEF Types, RecordsType, Lives
  <2>5. c.order
    BY <1>2, <2>4 DEF Blocked, Life
  <2> QED
    BY <2>2, <2>3, <2>5, ChainBegins
<1> QED
  BY <1>1, <1>2

LEMMA ChainMirror ==
  ASSUME Types, Types', Chain, MirrorApply
  PROVE  Chain' /\ PlacesLatest
<1> DEFINE n == tick.node
           c == LifeOf(n)
<1>0. tick.pc = "row" /\ n \in Node /\ UNCHANGED left /\ tick.back \in {"mirror", "pass"}
  BY DEF MirrorApply, Types, TasksType, TickType, TickPoint
<1>1. c \in Life /\ (lives[n] # None => c = lives[n])
  BY <1>0, LifeOfType DEF Types, RecordsType, LifeOf
<1>2. ASSUME TickBack, UNCHANGED disp, \A m \in Node : Succeeds(m)
      PROVE  Chain' /\ PlacesLatest
  <2>1. tick'.pc = tick.back
    BY <1>2 DEF TickBack, TickTo, TickIdle
  <2> QED
    BY <1>0, <1>2, <2>1, ChainTurn DEF NotReplaced
<1>3. CASE TickBack /\ UNCHANGED <<records, disp>>
  BY <1>2, <1>3, SameSucceeds DEF records
<1>4. CASE lives[n] # None /\ is_live(c.state)
           /\ lives' = [lives EXCEPT ![n] = SetState(c, "Lost", FALSE)]
           /\ Reschedule(lives'[n], n, FALSE, "mirror", tick.todo)
  <2>1. lives[n].state # "Rescheduled"
    BY <1>1, <1>4 DEF is_live
  <2>2. \A m \in Node : Succeeds(m)
    <3>1. PICK k \in Node : k = n
      BY <1>0
    <3>2. lives' = [lives EXCEPT ![k] = SetState(LifeOf(k), "Lost", FALSE)]
      BY <1>4, <3>1
    <3> QED
      BY <2>1, <3>1, <3>2, LifeOfSucceeds
  <2>3. lives'[n] # None /\ lives'[n].state # "Rescheduled"
    BY <1>0, <1>1, <1>4, <2>1, SetStateSucceeds DEF Types, RecordsType, Lives
  <2>4. PICK k, d, todo : k \in Node /\ k = n /\ d = lives'[n] /\ todo = tick.todo
    BY <1>0
  <2>5. Reschedule(d, k, FALSE, "mirror", todo)
    BY <1>4, <2>4 DEF Reschedule, BeginDispatch, TickTo
  <2> QED
    BY <1>0, <2>2, <2>3, <2>4, <2>5, ChainReschedule
<1>5. CASE ForgetRecord(n) /\ TickBack /\ UNCHANGED disp
  <2>1. \A m \in Node : Succeeds(m)
    BY <1>0, <1>5, ForgetSucceeds DEF ForgetRecord
  <2> QED
    BY <1>2, <1>5, <2>1
<1>6. CASE /\ ~(lives[n] # None /\ c.state \in {"Rescheduled", "Lost"})
           /\ tick' = [tick EXCEPT !.pc = "start", !.row = "none"]
           /\ UNCHANGED <<records, disp>>
  <2>1. tick'.pc = "start" /\ tick'.node = n
    BY <1>6 DEF Types, TasksType, TickType
  <2>2. NotReplaced'
    BY <1>1, <1>6, <2>1 DEF NotReplaced, records
  <2> QED
    BY <1>0, <1>6, <2>1, <2>2, SameSucceeds, ChainTurn DEF records
<1>7. ASSUME NEW to \in {"Running", "Stopped"},
             ~(lives[n] # None /\ c.state \in {"Rescheduled", "Lost"}),
             \/ UNCHANGED lives
             \/ lives' = [lives EXCEPT ![n] = SetState(c, to, TRUE)],
             TickBack, UNCHANGED disp
      PROVE  Chain' /\ PlacesLatest
  <2>1. \A m \in Node : Succeeds(m)
    <3>1. CASE UNCHANGED lives
      BY <3>1, SameSucceeds
    <3>2. CASE lives' = [lives EXCEPT ![n] = SetState(c, to, TRUE)]
      <4>1. PICK k \in Node : k = n
        BY <1>0
      <4>2. lives' = [lives EXCEPT ![k] = SetState(LifeOf(k), to, TRUE)]
        BY <3>2, <4>1
      <4> QED
        BY <1>1, <1>7, <4>1, <4>2, LifeOfSucceeds
    <3> QED
      BY <1>7, <3>1, <3>2
  <2> QED
    BY <1>2, <1>7, <2>1
<1> QED
  BY <1>3, <1>4, <1>5, <1>6, <1>7 DEF MirrorApply

LEMMA ChainRejoin ==
  ASSUME Types, Types', Chain, RejoinApply
  PROVE  Chain' /\ PlacesLatest
<1>0. /\ tick.pc = "rejoin" /\ tick.node \in Node /\ UNCHANGED left
      /\ tick.back \in {"mirror", "pass"}
  BY DEF RejoinApply, Types, TasksType, TickType, TickPoint
<1>1. PICK n \in Node : n = tick.node
  BY <1>0
<1>2. lives[n] = None \/ lives[n].state # "Rescheduled"
  BY <1>0, <1>1 DEF Chain, NotReplaced
<1>3. ASSUME TickBack, UNCHANGED disp, \A m \in Node : Succeeds(m)
      PROVE  Chain' /\ PlacesLatest
  <2>1. tick'.pc = tick.back
    BY <1>3 DEF TickBack, TickTo, TickIdle
  <2> QED
    BY <1>0, <1>3, <2>1, ChainTurn DEF NotReplaced
<1>4. CASE ForgetRecord(n) /\ TickBack /\ UNCHANGED disp
  <2>1. \A m \in Node : Succeeds(m)
    BY <1>4, ForgetSucceeds DEF ForgetRecord
  <2> QED
    BY <1>3, <1>4, <2>1
<1>5. CASE UNCHANGED lives /\ TickBack /\ UNCHANGED disp
  BY <1>3, <1>5, SameSucceeds
<1>6. CASE lives[n] # None /\ UNCHANGED lives /\ Reschedule(lives[n], n, FALSE, "pass", tick.todo)
  <2>1. PICK d, todo : d = lives'[n] /\ todo = tick.todo
    OBVIOUS
  <2>2. Reschedule(d, n, FALSE, "pass", todo)
    BY <1>6, <2>1 DEF Reschedule, BeginDispatch, TickTo
  <2> QED
    BY <1>0, <1>2, <1>6, <2>1, <2>2, SameSucceeds, ChainReschedule
<1>7. CASE /\ tick' = [tick EXCEPT !.pc = "start", !.row = "none"]
           /\ UNCHANGED <<lives, disp>>
  <2>1. tick'.pc = "start" /\ tick'.node = n
    BY <1>1, <1>7 DEF Types, TasksType, TickType
  <2>2. NotReplaced'
    BY <1>2, <1>7, <2>1 DEF NotReplaced
  <2> QED
    BY <1>0, <1>7, <2>1, <2>2, SameSucceeds, ChainTurn
<1>8. CASE lives' = [lives EXCEPT ![n] = SetState(LifeOf(n), "Running", FALSE)]
           /\ TickBack /\ UNCHANGED disp
  BY <1>2, <1>3, <1>8, LifeOfSucceeds
<1> QED
  BY <1>1, <1>4, <1>5, <1>6, <1>7, <1>8 DEF RejoinApply, records, ForgetRecord, Persist

LEMMA ChainPass ==
  ASSUME Types, Types', Chain, NEW n \in Node, PassStep(n)
  PROVE  Chain' /\ PlacesLatest
<1>0. tick.pc = "pass" /\ UNCHANGED left
  BY DEF PassStep
<1>1. CASE UNCHANGED <<lives, disp>> /\ tick'.pc \in {"pass", "orphan"}
  BY <1>0, <1>1, SameSucceeds, ChainTurn DEF NotReplaced
<1>2. CASE /\ lives[n] = None
           /\ lives' = [lives EXCEPT ![n] = SetState(LifeOf(n), "Running", FALSE)]
           /\ tick'.pc = "pass" /\ UNCHANGED disp
  <2>1. \A m \in Node : Succeeds(m)
    BY <1>2, LifeOfSucceeds
  <2> QED
    BY <1>0, <1>2, <2>1, ChainTurn DEF NotReplaced
<1>3. CASE /\ lives[n] # None /\ lives[n].state # "Rescheduled"
           /\ lives' = IF lives[n].state = "Lost" THEN lives
                       ELSE [lives EXCEPT ![n] = SetState(lives[n], "Lost", FALSE)]
           /\ Reschedule(lives'[n], n, TRUE, "pass", tick.todo \ {n})
  <2>0. lives[n] \in Life /\ LifeOf(n) = lives[n]
    BY <1>3 DEF Types, RecordsType, Lives, LifeOf
  <2>1. \A m \in Node : Succeeds(m)
    BY <1>3, <2>0, SameSucceeds, LifeOfSucceeds
  <2>2. lives'[n] # None /\ lives'[n].state = "Lost"
    <3>1. CASE lives[n].state = "Lost"
      BY <1>3, <3>1
    <3>2. CASE lives[n].state # "Lost"
      <4>1. lives'[n] = SetState(lives[n], "Lost", FALSE)
        BY <1>3, <3>2 DEF Types, RecordsType, Lives
      <4>2. can_transition(lives[n].state, "Lost")
        BY <1>3, <2>0, <3>2 DEF Life, can_transition, is_terminal
      <4>3. SetState(lives[n], "Lost", FALSE).state = "Lost"
        BY <2>0, <4>2 DEF SetState, Life
      <4> QED
        BY <1>3, <2>0, <4>1, <4>3, SetStateSucceeds
    <3> QED
      BY <3>1, <3>2
  <2>3. PICK d, todo : d = lives'[n] /\ todo = tick.todo \ {n}
    OBVIOUS
  <2>4. Reschedule(d, n, TRUE, "pass", todo)
    BY <1>3, <2>3 DEF Reschedule, BeginDispatch, TickTo
  <2> QED
    BY <1>0, <2>1, <2>2, <2>3, <2>4, ChainReschedule
<1>4. CASE /\ lives[n] # None /\ lives[n].state = "Lost" /\ UNCHANGED <<lives, disp>>
           /\ tick'.pc = "rejoin" => tick'.node = n
           /\ tick'.pc \in {"rejoin", "pass"}
  BY <1>0, <1>4, SameSucceeds, ChainTurn DEF NotReplaced
<1>5. /\ At(n, "orphan", "pass").pc = "orphan"
      /\ [At(n, "rejoin", "pass") EXCEPT !.row = RowOf(n)].pc = "rejoin"
      /\ [At(n, "rejoin", "pass") EXCEPT !.row = RowOf(n)].node = n
      /\ [tick EXCEPT !.todo = tick.todo \ {n}].pc = "pass"
  BY <1>0 DEF At, TickIdle, Types, TasksType, TickType
<1>6. TickTo("pass", tick.todo \ {n}) => tick'.pc = "pass"
  BY DEF TickTo, TickIdle
<1> QED
  BY <1>1, <1>2, <1>3, <1>4, <1>5, <1>6 DEF PassStep

LEMMA ChainLoop ==
  ASSUME Types, Types', Chain,
         \/ TickBegin \/ PassBegin \/ TickEnd \/ StartedApply \/ OrphanApply \/ TickCall
         \/ \E n \in Node : MirrorStatus(n)
  PROVE  Chain' /\ PlacesLatest
<1>1. CASE TickBegin \/ PassBegin \/ TickEnd
  <2>1. UNCHANGED <<lives, left, disp>> /\ tick.pc # "dispatch"
    BY <1>1 DEF TickBegin, PassBegin, TickEnd, records
  <2>2. \/ tick' = TickIdle
        \/ \E pc \in {"mirror", "pass"} : \E todo : tick' = [TickIdle EXCEPT !.pc = pc, !.todo = todo]
    BY <1>1, Zenon DEF TickBegin, PassBegin, TickEnd
  <2>3. tick'.pc \in {"idle", "mirror", "pass"}
    <3>1. CASE tick' = TickIdle
      BY <3>1 DEF TickIdle
    <3>2. ASSUME NEW pc \in {"mirror", "pass"}, NEW todo,
                 tick' = [TickIdle EXCEPT !.pc = pc, !.todo = todo]
          PROVE  tick'.pc = pc
      BY <3>2 DEF TickIdle
    <3> QED
      BY <2>2, <3>1, <3>2
  <2> QED
    BY <2>1, <2>3, SameSucceeds, ChainTurn DEF NotReplaced
<1>2. ASSUME NEW n \in Node, MirrorStatus(n) PROVE Chain' /\ PlacesLatest
  <2>1. UNCHANGED <<lives, left, disp>> /\ tick.pc = "mirror"
    BY <1>2 DEF MirrorStatus, records
  <2>2. tick'.pc \in {"mirror", "row"}
    <3>1. [At(n, "row", "mirror") EXCEPT !.row = RowOf(n)].pc = "row"
      BY DEF At, TickIdle
    <3>2. [tick EXCEPT !.todo = @ \ {n}].pc = tick.pc
      BY DEF Types, TasksType, TickType
    <3> QED
      BY <1>2, <2>1, <3>1, <3>2 DEF MirrorStatus
  <2> QED
    BY <2>1, <2>2, SameSucceeds, ChainTurn DEF NotReplaced
<1>3. CASE StartedApply \/ OrphanApply
  <2>0. /\ tick.node \in Node /\ UNCHANGED <<left, disp>> /\ TickBack
        /\ tick.back \in {"mirror", "pass"} /\ tick.pc # "dispatch"
    BY <1>3 DEF StartedApply, OrphanApply, Types, TasksType, TickType, TickPoint
  <2>1. PICK n \in Node : n = tick.node
    BY <2>0
  <2>2. tick'.pc \in {"mirror", "pass"}
    BY <2>0 DEF TickBack, TickTo, TickIdle
  <2>3. \A m \in Node : Succeeds(m)
    <3>1. CASE UNCHANGED lives
      BY <3>1, SameSucceeds
    <3>2. CASE StartedApply /\ ~UNCHANGED lives
      <4>1. PICK f \in BOOLEAN : lives' = [lives EXCEPT ![n] = SetState(LifeOf(n), "Running", f)]
        BY <2>1, <3>2 DEF StartedApply
      <4>2. lives[n] = None \/ lives[n].state # "Rescheduled"
        BY <2>1, <3>2 DEF StartedApply, Chain, NotReplaced
      <4> QED
        BY <4>1, <4>2, LifeOfSucceeds
    <3>3. CASE OrphanApply /\ ~UNCHANGED lives
      <4>1. \/ lives' = [lives EXCEPT ![n] = None]
            \/ lives' = IF lives[n] = None THEN lives ELSE [lives EXCEPT ![n].wait = TRUE]
        BY <2>1, <3>3 DEF OrphanApply, ForgetRecord
      <4> QED
        BY <4>1, ForgetSucceeds, WaitSucceeds
    <3> QED
      BY <1>3, <3>1, <3>2, <3>3
  <2> QED
    BY <2>0, <2>2, <2>3, ChainTurn DEF NotReplaced
<1>4. CASE TickCall
  <2>0. /\ tick.pc \in {"start", "orphan"} /\ UNCHANGED <<lives, disp>>
        /\ tick.back \in {"mirror", "pass"}
    BY <1>4 DEF TickCall, records, Types, TasksType, TickType, TickPoint
  <2>1. \/ tick'.pc \in {"mirror", "pass", "unloaded"}
        \/ tick.pc = "start" /\ tick'.pc = "started" /\ tick'.node = tick.node
    BY <1>4, <2>0 DEF TickCall, TickBack, TickTo, TickIdle, Types, TasksType, TickType
  <2>2. NotReplaced'
    BY <2>0, <2>1 DEF NotReplaced, Chain
  <2>3. left' = left \/ Spend("lose") \/ Spend("refuse")
    BY <1>4 DEF TickCall, Call
  <2>4. left'["place"] = left["place"] /\ left'["crash"] = left["crash"]
    BY <2>3 DEF Spend, Types, OtherType, Event
  <2>5. NotYet'
    BY <2>0, <2>1, <2>4 DEF Chain, NotYet
  <2> QED
    BY <2>0, <2>1, <2>2, <2>5 DEF Chain, Latest, Moving, Current, PlacesLatest
<1> QED
  BY <1>1, <1>2, <1>3, <1>4

(* The replacement is there: its life is the latest, and the old one is    *)
(* marked or gone.                                                         *)
LEMMA ChainMoved ==
  ASSUME Types, Types', Chain, Moved
  PROVE  Chain' /\ PlacesLatest
<1> DEFINE s == disp["tick"]
           old == tick.node
           placed == [lives EXCEPT ![s.node] = FreshLife(s.movable, s.resched)]
           Cur(m) == lives'[m] # None /\ lives'[m].order /\ lives'[m].state # "Rescheduled"
<1>0. /\ tick.pc = "dispatch" /\ old \in Node /\ s.node \in Node /\ UNCHANGED left /\ TickBack
      /\ tick.back \in {"mirror", "pass"} /\ disp' = [disp EXCEPT !["tick"] = DispIdle]
      /\ s.movable \in BOOLEAN /\ s.resched \in 0..MaxReschedules
  BY DEF Moved, Types, TasksType, TickType, TickPoint, DispPoint, DispType, Task
<1>1. tick'.pc \in {"mirror", "pass"} /\ disp'["op"] = disp["op"]
  BY <1>0 DEF TickBack, TickTo, TickIdle, Types, TasksType, Task
<1>2. left["place"] = 0 /\ disp["op"].pc = "idle"
  <2>1. left["place"] \in Nat
    BY DEF Types, OtherType, Event
  <2> QED
    BY <1>0, <2>1 DEF Chain, NotYet
<1>3. NotYet'
  BY <1>0, <1>1, <1>2 DEF Chain, NotYet
<1>4. FreshLife(s.movable, s.resched) \in Life /\ FreshLife(s.movable, s.resched).resched = s.resched
      /\ FreshLife(s.movable, s.resched).state = "Running"
  BY <1>0, FreshLifeType DEF FreshLife
<1>5. /\ lives'[s.node] \in Life /\ lives'[s.node].resched = s.resched
      /\ \A m \in Node \ {s.node, old} : lives'[m] = lives[m]
      /\ old # s.node => \/ lives'[old] = None
                         \/ lives'[old] = SetState(LifeOf(old), "Rescheduled", FALSE)
    <2>1. CASE tick.dead
      <3>1. lives' = [placed EXCEPT ![old] =
                        SetState(IF s.node = old THEN placed[old] ELSE LifeOf(old),
                                 "Rescheduled", FALSE)]
        BY <2>1 DEF Moved
      <3>2. placed[s.node] = FreshLife(s.movable, s.resched)
        BY <1>0 DEF Types, RecordsType, Lives
      <3>3. ~can_transition("Running", "Rescheduled")
        BY DEF can_transition, Steps, LifecycleState
      <3>4. SetState(FreshLife(s.movable, s.resched), "Rescheduled", FALSE)
              \in Life
            /\ SetState(FreshLife(s.movable, s.resched), "Rescheduled", FALSE).resched = s.resched
        BY <1>4, SetStateType
      <3> QED
        BY <1>0, <1>4, <3>1, <3>2, <3>4 DEF Types, RecordsType, Lives
    <2>2. CASE ~tick.dead
      BY <1>0, <1>4, <2>2 DEF Moved, Types, RecordsType, Lives
    <2> QED
      BY <2>1, <2>2
<1>6. old # s.node => /\ ~Cur(old)
                      /\ lives'[old] # None => lives'[old].resched <= s.resched
  <2> SUFFICES ASSUME old # s.node, lives'[old] # None
               PROVE  ~Cur(old) /\ lives'[old].resched <= s.resched
    OBVIOUS
  <2>0. lives'[old] = SetState(LifeOf(old), "Rescheduled", FALSE) /\ tick.dead
    <3>1. ~tick.dead => lives'[old] = None
      BY <1>0 DEF Moved, Types, RecordsType, Lives
    <3> QED
      BY <1>5, <3>1
  <2>1. LifeOf(old) \in Life
    BY <1>0, LifeOfType DEF Types, RecordsType
  <2>2. lives'[old].resched = LifeOf(old).resched /\ lives'[old] \in Life
    BY <2>0, <2>1, SetStateType
  <2>3. CASE lives[old] = None
    <3>1. ~LifeOf(old).order /\ LifeOf(old).resched = 0
      BY <2>3 DEF LifeOf, FreshLife
    <3>2. lives'[old].order = LifeOf(old).order
      BY <2>0, <2>1 DEF SetState, Life
    <3> QED
      BY <1>0, <2>2, <3>1, <3>2
  <2>4. CASE lives[old] # None
    <3>1. LifeOf(old) = lives[old] /\ lives[old].state = "Lost" /\ lives[old].resched < s.resched
      BY <1>0, <2>0, <2>4 DEF LifeOf, Chain, Moving
    <3>2. can_transition("Lost", "Rescheduled")
      BY DEF can_transition, is_terminal, Steps, LifecycleState
    <3>3. lives'[old].state = "Rescheduled"
      BY <2>0, <2>1, <3>1, <3>2 DEF SetState, Life
    <3>4. lives[old].resched \in Nat
      BY <2>1, <3>1, PlaneAssumption DEF Life
    <3> QED
      BY <1>0, <2>2, <3>1, <3>3, <3>4, PlaneAssumption
  <2> QED
    BY <2>3, <2>4
<1>7. \A m \in Node : Cur(m) => m = s.node
  <2>1. ASSUME NEW m \in Node, m # s.node, m # old PROVE ~Cur(m)
    BY <1>0, <1>5, <2>1 DEF Current, Chain, Moving
  <2> QED
    BY <1>0, <1>6, <2>1
<1>8. \A m \in Node : lives'[m] # None => lives'[m].resched <= s.resched
  <2>1. ASSUME NEW m \in Node, m # s.node, m # old, lives'[m] # None
        PROVE  lives'[m].resched <= s.resched
    <3>1. lives[m].resched < s.resched /\ lives[m] \in Life /\ lives'[m] = lives[m]
      BY <1>0, <1>5, <2>1 DEF Chain, Moving, Types, RecordsType, Lives
    <3> QED
      BY <1>0, <3>1, PlaneAssumption DEF Life
  <2> QED
    BY <1>0, <1>5, <1>6, <2>1, PlaneAssumption
<1>9. Latest'
  BY <1>5, <1>7, <1>8 DEF Latest, Current
<1> QED
  BY <1>1, <1>3, <1>9 DEF Chain, Moving, NotReplaced, PlacesLatest

(* It is not moved after all; or the record stays, and the tick goes on.   *)
LEMMA ChainNotMoved ==
  ASSUME Types, Types', Chain, NotMoved
  PROVE  Chain' /\ PlacesLatest
<1>0. /\ tick.pc = "dispatch" /\ tick.node \in Node /\ UNCHANGED left /\ TickBack
      /\ tick.back \in {"mirror", "pass"} /\ disp' = [disp EXCEPT !["tick"] = DispIdle]
  BY DEF NotMoved, Types, TasksType, TickType, TickPoint
<1>1. tick'.pc \in {"mirror", "pass"} /\ disp'["op"] = disp["op"]
  BY <1>0 DEF TickBack, TickTo, TickIdle, Types, TasksType, Task
<1>2. PICK n \in Node : n = tick.node
  BY <1>0
<1>3. \A m \in Node : Succeeds(m)
  <2>1. lives' = IF lives[n] = None THEN lives ELSE [lives EXCEPT ![n].wait = TRUE]
    BY <1>2 DEF NotMoved
  <2> QED
    BY <2>1, WaitSucceeds
<1>4. Latest'
  BY <1>3, LatestKept DEF Chain
<1>5. NotYet'
  <2>1. left["place"] \in Nat
    BY DEF Types, OtherType, Event
  <2> QED
    BY <1>0, <1>1, <2>1 DEF Chain, NotYet
<1> QED
  BY <1>1, <1>4, <1>5 DEF Chain, Moving, NotReplaced, PlacesLatest

LEMMA ChainTick ==
  ASSUME Types, Types', Chain, Tick
  PROVE  Chain' /\ PlacesLatest
BY ChainMirror, ChainRejoin, ChainPass, ChainLoop, ChainMoved, ChainNotMoved DEF Tick

(* The operator's place and its end: the first life of the order.          *)
LEMMA ChainOp ==
  ASSUME Types, Types', Chain, (\E m \in Movable : OpPlace(m)) \/ OpEnd
  PROVE  Chain' /\ PlacesLatest
<1>0. "op" \in Task /\ "tick" \in Task /\ "place" \in Event /\ "crash" \in Event
  BY DEF Task, Event
<1>1. CASE \E m \in Movable : OpPlace(m)
  <2>1. PICK m \in Movable : OpPlace(m)
    BY <1>1
  <2>2. UNCHANGED <<lives, tick>> /\ disp'["tick"] = disp["tick"]
    BY <1>0, <2>1 DEF OpPlace, BeginDispatch, records, Types, TasksType
  <2>3. left["place"] > 0 /\ left'["place"] = left["place"] - 1 /\ left'["crash"] = left["crash"]
    BY <1>0, <2>1 DEF OpPlace, Spend, Types, OtherType
  <2>4. left["place"] \in Nat
    BY <1>0 DEF Types, OtherType
  <2>5. NotYet'
    BY <2>2, <2>3, <2>4 DEF Chain, NotYet
  <2> QED
    BY <2>2, <2>5 DEF Chain, Latest, Moving, NotReplaced, Current, PlacesLatest
<1>2. CASE OpEnd
  <2>1. /\ disp["op"].pc \in {"placed", "failed"} /\ UNCHANGED <<tick, left>>
        /\ disp'["op"] = DispIdle /\ disp'["tick"] = disp["tick"]
    BY <1>0, <1>2 DEF OpEnd, Types, TasksType
  <2>2. /\ left["place"] = 0 /\ left["crash"] = 0 /\ tick.pc # "dispatch"
        /\ \A n \in Node : lives[n] # None => ~lives[n].order /\ lives[n].resched = 0
    BY <2>1 DEF Chain, NotYet
  <2>3. NotYet'
    BY <2>1, <2>2 DEF NotYet, DispIdle
  <2>4. CASE UNCHANGED lives
    BY <2>1, <2>2, <2>3, <2>4 DEF Chain, Latest, Moving, NotReplaced, Current, PlacesLatest
  <2>5. CASE disp["op"].pc = "placed"
    <3>1. PICK k, c : k \in Node /\ k = disp["op"].node /\ c = FreshLife(disp["op"].movable, 0)
      BY <1>0, <2>5 DEF Types, TasksType, DispPoint
    <3>2. lives' = [lives EXCEPT ![k] = c]
      BY <1>2, <2>5, <3>1 DEF OpEnd
    <3>3. /\ c.state = "Running" /\ c.resched = 0
          /\ \A m \in Node : lives'[m] = IF m = k THEN c ELSE lives[m]
      BY <3>1, <3>2 DEF FreshLife, Types, RecordsType, Lives
    <3>4. ASSUME NEW m \in Node, lives'[m] # None PROVE lives'[m].resched = 0
      BY <2>2, <3>3, <3>4
    <3>5. ASSUME NEW m \in Node, Current(m)' PROVE m = k
      BY <2>2, <3>3, <3>5 DEF Current
    <3>6. Latest'
      <4> SUFFICES ASSUME NEW m \in Node, NEW n \in Node, Current(n)'
                   PROVE  /\ Current(m)' => m = n
                          /\ lives'[m] # None => lives'[m].resched <= lives'[n].resched
        BY DEF Latest
      <4>1. lives'[n].resched = 0
        BY <3>4 DEF Current
      <4> QED
        BY <3>4, <3>5, <4>1
    <3>7. NotReplaced'
      <4>1. tick.pc \in {"start", "started", "rejoin"} => tick.node \in Node
        BY DEF Types, TasksType, TickPoint
      <4> QED
        BY <2>1, <3>3, <4>1 DEF Chain, NotReplaced
    <3> QED
      BY <2>1, <2>2, <2>3, <3>6, <3>7 DEF Chain, Moving, PlacesLatest
  <2> QED
    BY <1>2, <2>4, <2>5 DEF OpEnd, records
<1> QED
  BY <1>1, <1>2

(* Everybody else.                                                         *)
LEMMA ChainOther ==
  ASSUME Types, Types', Chain,
         \/ UNCHANGED vars
         \/ \E r \in reqs : NodeStep(r)
         \/ \E n \in Node : NodeLease(n) \/ NodeReboot(n) \/ Cut(n) \/ Heal(n)
         \/ \E t \in Task : Dispatch(t)
         \/ Settle
         \/ \E n \in Node, m \in Verbs : VerbCall(n, m)
         \/ VerbEnd
         \/ \E n \in Node : DeadAfter(n) \/ BackoffOver(n)
         \/ Outside
  PROVE  Chain' /\ PlacesLatest
<1> DEFINE Kept(m) == lives'[m] # None => lives[m] # None /\ lives'[m].state = lives[m].state
<1>0. UNCHANGED tick /\ (left' = left \/ \E e \in Event : Spend(e) /\ e # "place")
  <2>1. UNCHANGED vars => UNCHANGED <<tick, left>>
    BY DEF vars, tasks
  <2>2. {"settle", "verb", "lose", "refuse", "reboot", "cut", "vouch", "remove"} \subseteq Event
    BY DEF Event
  <2>3. UNCHANGED tick
    BY <2>1, NodesLeave, DispatchLeaves, OthersLeave
  <2>4. \/ Settle
        \/ \E n \in Node, m \in Verbs : VerbCall(n, m)
        \/ VerbEnd
        \/ \E n \in Node : DeadAfter(n) \/ BackoffOver(n)
        => UNCHANGED left \/ Spend("settle") \/ Spend("verb") \/ Spend("lose")
    BY DEF Settle, SettleAsk, SettleUse, VerbCall, VerbEnd, DeadAfter, BackoffOver
  <2>5. left' = left \/ \E e \in Event \ {"place"} : Spend(e)
    BY <2>1, <2>2, <2>4, NodesLeave, DispatchLeaves, OutsideLeaves
  <2> QED
    BY <2>3, <2>5
<1>1. \A t \in Task : disp'[t].resched = disp[t].resched /\ (disp'[t].pc = "idle" <=> disp[t].pc = "idle")
  <2>1. CASE UNCHANGED disp
    BY <2>1
  <2>2. ASSUME NEW t \in Task, Dispatch(t)
        PROVE  \A v \in Task : /\ disp'[v].resched = disp[v].resched
                               /\ disp'[v].pc = "idle" <=> disp[v].pc = "idle"
    <3>1. ASSUME NEW n \in Node, DispatchNext(t, n)
          PROVE  /\ disp'[t].resched = disp[t].resched /\ disp'[t].pc # "idle"
                 /\ disp[t].pc # "idle" /\ \A v \in Task \ {t} : disp'[v] = disp[v]
      BY <3>1 DEF DispatchNext, Types, TasksType, DispType
    <3>2. ASSUME NEW pc \in {"next", "status", "unload", "placed", "failed"}, DispTo(t, pc),
                 disp[t].pc # "idle"
          PROVE  /\ disp'[t].resched = disp[t].resched /\ disp'[t].pc # "idle"
                 /\ disp[t].pc # "idle" /\ \A v \in Task \ {t} : disp'[v] = disp[v]
      BY <3>2 DEF DispTo, Types, TasksType, DispType
    <3>3. \/ \E n \in Node : DispatchNext(t, n)
          \/ /\ disp[t].pc # "idle"
             /\ \E pc \in {"next", "status", "unload", "placed", "failed"} : DispTo(t, pc)
      BY <2>2 DEF Dispatch, DispatchEmpty, DispatchLost, Reconcile, ReconcileUnload,
                  DispatchAnswer, Unsettle
    <3> QED
      BY <3>1, <3>2, <3>3
  <2> QED
    BY <2>1, <2>2, NodesLeave, OutsideLeaves
       DEF vars, tasks, Settle, SettleAsk, SettleUse, SettleStep, VerbCall, VerbEnd, DeadAfter,
           BackoffOver
<1>2. \A m \in Node : Succeeds(m) /\ Kept(m)
  <2>1. CASE UNCHANGED lives
    BY <2>1, SameSucceeds
  <2>2. CASE VerbEnd /\ ~UNCHANGED lives
    <3>1. PICK n : n = verb.node
      OBVIOUS
    <3>2. lives' = [lives EXCEPT ![n] = None]
      BY <2>2, <3>1 DEF VerbEnd, records
    <3> QED
      BY <3>2 DEF Succeeds, Types, RecordsType, Lives
  <2>3. ASSUME NEW n \in Node, BackoffOver(n) PROVE \A m \in Node : Succeeds(m) /\ Kept(m)
    <3>1. lives' = IF lives[n] = None THEN lives ELSE [lives EXCEPT ![n].wait = FALSE]
      BY <2>3 DEF BackoffOver
    <3> QED
      BY <3>1, WaitSucceeds
  <2>4. CASE UNCHANGED vars \/ Settle
             \/ (\E n \in Node, m \in Verbs : VerbCall(n, m)) \/ \E n \in Node : DeadAfter(n)
    BY <2>1, <2>4 DEF vars, records, Settle, SettleAsk, SettleUse, VerbCall, DeadAfter
  <2> QED
    BY <2>1, <2>2, <2>3, <2>4, NodesLeave, DispatchLeaves, OutsideLeaves
<1> QED
  BY <1>0, <1>1, <1>2, ChainKept DEF Task

LEMMA ChainStep == Types /\ Types' /\ Chain /\ [Next]_vars => Chain' /\ PlacesLatest
<1> SUFFICES ASSUME Types, Types', Chain, [Next]_vars PROVE Chain' /\ PlacesLatest
  OBVIOUS
<1>1. ~Crash
  BY DEF Crash, Spend, Chain, NotYet
<1> QED
  BY <1>1, ChainTick, ChainOp, ChainOther DEF Next

LEMMA ChainInit == ASSUME Budget["place"] <= 1, Budget["crash"] = 0, Init PROVE Chain
BY DEF Init, Chain, NotYet, Latest, Moving, NotReplaced, Current, DispIdle, TickIdle, Task

(* plane_reschedule.rs: "a crash right after the placement cannot [...]    *)
(* place it a third time".  As long as the operator placed the workload    *)
(* once and the controller does not crash, what a tick places again is     *)
(* always the latest of its lives: on any nodes, cut off and rebooted at   *)
(* any time, whatever calls are lost.  (With one crash it is not: run      *)
(* third_copy.)                                                            *)
THEOREM ReplacedOnce ==
  ASSUME Budget["place"] <= 1, Budget["crash"] = 0 PROVE Spec => NotPlacedAgain
<1>1. Init => Types /\ Chain
  BY InitTypes, ChainInit
<1>2. Types /\ Chain /\ [Next]_vars => (Types /\ Chain)' /\ PlacesLatest
  BY StepTypes, ChainStep
<1>3. (tick.pc # "dispatch" /\ tick'.pc = "dispatch" =>
         ~\E m \in placements : /\ lives[m] # None /\ lives[tick'.node] # None
                                /\ lives[m].resched > lives[tick'.node].resched) <=> PlacesLatest
  BY DEF PlacesLatest
<1> QED
  BY <1>1, <1>2, <1>3, PTL DEF Spec, NotPlacedAgain

==============================================================================
