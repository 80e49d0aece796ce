------------------------ MODULE AgentSupervisorProofs ------------------------
(***************************************************************************)
(* The process table and the supervisor, for any number of handlers, calls *)
(* and processes.  The argument has three parts: a call that may still     *)
(* take a pid has been counted, so pids suffice and are never shared; an   *)
(* entry is brought to Exited by its own task, by the watchdog once the    *)
(* task is over, or by a stop that cancelled its token first; and a handle *)
(* leaves the map only with its task over or told to abort.                *)
(***************************************************************************)
EXTENDS AgentSupervisor, FiniteSetTheorems, TLAPS

States == {"Absent", "Starting", "Running", "Suspended", "Stopping", "Exited"}
Codes == WorkCodes \cup {0, -1, -2, -3}

(* The callers that may yet take a pid.                                    *)
Takes(q) == q.at = "insert" \/ q.then \in {"exitZero", "respawn"}
Taking == {c \in Caller : Takes(pc[c])}

(* Each pid handed out, and each that may be, is a call.                   *)
Budget == next - 1 + Cardinality(Taking) <= calls

(* What a caller still has to do fits where it is, and its pid was handed  *)
(* out.                                                                    *)
PointOK(q) ==
  \/ q = Idle
  \/ q.at = "insert" /\ q.then \in {"none", "task"}
  \/ q.at \in {"entry", "running"} /\ q.then \in {"none", "task"} /\ q.pid \in 1..(next - 1)
  \/ q.at \in {"task", "handle"} /\ q.then = "task" /\ q.pid \in 1..(next - 1)
  \/ /\ q.at \in {"stopping", "cancel"} /\ q.then \in {"none", "exitZero", "respawn"}
     /\ q.pid \in 1..(next - 1)
  \/ /\ q.at \in {"forceCancel", "forceExit", "forceAbort"} /\ q.then = "none"
     /\ q.pid \in 1..(next - 1)
  \/ /\ q.at \in {"restart", "exitZero", "respawn"} /\ q.then \in {"exitZero", "respawn"}
     /\ q.pid \in 1..(next - 1)
PointsOK == \A c \in Caller : PointOK(pc[c])

(* The callers that bring up a process hold it alone, it has no entry      *)
(* until they put it in, and no task until they start it.                  *)
Bringing(q) == q.at \in {"entry", "running", "task", "handle"}
OwnOK ==
  /\ \A c, d \in Caller :
       Bringing(pc[c]) /\ Bringing(pc[d]) /\ pc[c].pid = pc[d].pid => c = d
  /\ \A c \in Caller : pc[c].at \in {"entry", "running", "task"} => task[pc[c].pid] = "none"
  /\ \A c \in Caller : pc[c].at = "entry" => pc[c].pid \notin Present
  /\ \A c \in Caller : pc[c].at \in {"running", "task"} => pc[c].pid \in Present
  /\ \A p \in Pids : task[p] # "none" => p \in Present

(* A caller about to record an exit has cancelled the token, or finds the  *)
(* exit recorded.                                                          *)
StopOK ==
  \A c \in Caller :
    /\ pc[c].at \in {"forceExit", "forceAbort"} => pc[c].pid \in cancelled
    /\ pc[c].at = "exitZero" => pc[c].pid \in cancelled \/ state[pc[c].pid] = "Exited"

(* What the watchdog collected is over for good, and it read the join      *)
(* result right.                                                           *)
WatchOK ==
  /\ watch.todo \subseteq Finished
  /\ watch.at \in {"look", "reap"} =>
       /\ watch.pid \in Finished
       /\ watch.code = IF task[watch.pid] = "panicked" THEN -3 ELSE -2

(* What each stage of the shutdown leaves behind.                          *)
PhaseOK ==
  /\ phase \in {"up", "drain"} => held = {}
  /\ phase = "up" => aborted \subseteq cancelled

(* ExitedIsTold, for a task that has not started as well.                  *)
ToldOK ==
  \A p \in Pids : state[p] = "Exited" /\ task[p] \in {"none", "working"} =>
    p \in cancelled \cup aborted \/ phase = "kernel"

Safe == StopOK /\ WatchOK /\ PhaseOK /\ Tracked /\ ToldOK /\ CodeIsHonest
IInv == TypeOK /\ Budget /\ PointsOK /\ OwnOK /\ Safe

-----------------------------------------------------------------------------
(* What the helpers do.                                                    *)

Points == [at : CallerPoints, pid : 0..MaxCalls,
           then : {"none", "task", "exitZero", "respawn"}]

(* The table's update: no entry comes or goes, an exit is kept with its    *)
(* code, and only an update to Exited, of an entry named, makes one.       *)
ExitsKept ==
  \A p \in Pids : state[p] = "Exited" => state'[p] = "Exited" /\ code'[p] = code[p]
TableStep(ps, to, c) ==
  /\ next' = next /\ state' \in [Pids -> States] /\ code' \in [Pids -> Codes]
  /\ Present' = Present
  /\ ExitsKept
  /\ \A p \in Pids : state'[p] = "Exited" /\ state[p] # "Exited" =>
                       p \in ps /\ to = "Exited" /\ code'[p] = c
  /\ to = "Exited" => \A p \in ps \cap Present : state'[p] = "Exited"
LEMMA Updated ==
  ASSUME TypeOK, NEW ps \in SUBSET Pids, NEW c \in Codes,
         NEW to \in States \ {"Absent", "Starting"}, UpdateState(ps, to, c)
  PROVE  TableStep(ps, to, c)
<1> USE DEF States
<1>1. state' \in [Pids -> States] /\ code' \in [Pids -> Codes] /\ next' = next
  BY DEF TypeOK, UpdateState, States, Codes
<1>2. \A p \in Pids : state'[p] = "Absent" <=> state[p] = "Absent"
  BY DEF TypeOK, UpdateState, CanTransition
<1>3. Present' = Present
  BY <1>2 DEF Present, Pids
<1>4. ExitsKept
  BY DEF ExitsKept, TypeOK, UpdateState, CanTransition
<1>5. \A p \in Pids : state'[p] = "Exited" /\ state[p] # "Exited" =>
                        p \in ps /\ to = "Exited" /\ code'[p] = c
  BY DEF TypeOK, UpdateState
<1>6. to = "Exited" => \A p \in ps \cap Present : state'[p] = "Exited"
  BY DEF TypeOK, UpdateState, CanTransition, Present
<1> QED
  BY <1>1, <1>3, <1>4, <1>5, <1>6 DEF TableStep

(* A caller's move leaves the other callers where they are.                *)
LEMMA Moved ==
  ASSUME TypeOK, NEW c \in Caller, NEW at \in CallerPoints, Goto(c, at)
  PROVE  /\ pc' \in [Caller -> Points]
         /\ pc'[c].at = at /\ pc'[c].pid = pc[c].pid /\ pc'[c].then = pc[c].then
         /\ \A d \in Caller \ {c} : pc'[d] = pc[d]
BY DEF TypeOK, Goto, Points

LEMMA Set ==
  ASSUME TypeOK, NEW c \in Caller, NEW q \in Points, pc' = [pc EXCEPT ![c] = q]
  PROVE  /\ pc' \in [Caller -> Points] /\ pc'[c] = q
         /\ \A d \in Caller \ {c} : pc'[d] = pc[d]
BY DEF TypeOK, Points

LEMMA IdlePoint == Idle \in Points /\ ~Takes(Idle) /\ ~Bringing(Idle)
BY SupervisorAssumption DEF Idle, Points, CallerPoints, Takes, Bringing

(* The budget: kept when no caller takes up, and when a call is counted    *)
(* for the one that does.                                                  *)
LEMMA TakingFinite == IsFiniteSet(Taking) /\ Cardinality(Taking) \in Nat
<1>1. IsFiniteSet(Taking)
  BY FS_Subset, SupervisorAssumption DEF Taking
<1> QED
  BY <1>1, FS_CardinalityType

LEMMA BudgetKept ==
  ASSUME TypeOK, Budget, next' = next, calls' = calls,
         \A c \in Caller : Takes(pc'[c]) => Takes(pc[c])
  PROVE  Budget'
<1>1. Taking' \subseteq Taking
  BY DEF Taking
<1>2. Cardinality(Taking') <= Cardinality(Taking)
  BY <1>1, TakingFinite, FS_Subset
<1>3. Cardinality(Taking') \in Nat
  BY <1>1, TakingFinite, FS_Subset, FS_CardinalityType
<1> QED
  BY <1>2, <1>3, TakingFinite DEF Budget, TypeOK

LEMMA BudgetCalled ==
  ASSUME TypeOK, Budget, NEW c \in Caller, next' = next, calls' = calls + 1,
         \A d \in Caller \ {c} : pc'[d] = pc[d]
  PROVE  Budget'
<1>1. Taking' \subseteq Taking \cup {c}
  BY DEF Taking
<1>2. /\ IsFiniteSet(Taking \cup {c})
      /\ Cardinality(Taking \cup {c}) <= Cardinality(Taking) + 1
  BY TakingFinite, FS_AddElement
<1>3. /\ Cardinality(Taking \cup {c}) \in Nat /\ Cardinality(Taking') \in Nat
      /\ Cardinality(Taking') <= Cardinality(Taking \cup {c})
  BY <1>1, <1>2, FS_Subset, FS_CardinalityType
<1> QED
  BY <1>2, <1>3, TakingFinite DEF Budget, TypeOK

(* A caller that takes its pid has one left to take.                       *)
LEMMA BudgetTaken ==
  ASSUME TypeOK, Budget, NEW c \in Caller, Takes(pc[c]), ~Takes(pc'[c]),
         \A d \in Caller \ {c} : pc'[d] = pc[d], next' = next + 1, calls' = calls
  PROVE  Budget' /\ next \in Pids
<1>1. Taking' = Taking \ {c} /\ c \in Taking
  BY DEF Taking
<1>2. Cardinality(Taking') = Cardinality(Taking) - 1
  BY <1>1, TakingFinite, FS_RemoveElement
<1>3. Cardinality(Taking') \in Nat
  BY <1>1, TakingFinite, FS_RemoveElement, FS_CardinalityType
<1> QED
  BY <1>2, <1>3, TakingFinite, SupervisorAssumption DEF Budget, TypeOK, Pids

LEMMA InitInv == Init => IInv
<1> SUFFICES ASSUME Init PROVE IInv
  OBVIOUS
<1> USE SupervisorAssumption
<1>1. TypeOK
  BY DEF Init, TypeOK, Present, Pids, Idle, Resting, CallerPoints
<1>2. Budget
  <2>1. Taking = {}
    BY DEF Init, Taking, Takes, Idle
  <2> QED
    BY <2>1, FS_EmptySet DEF Init, Budget
<1>3. PointsOK /\ OwnOK
  BY DEF Init, PointsOK, PointOK, OwnOK, Bringing, Idle
<1>4. StopOK /\ WatchOK /\ PhaseOK
  BY DEF Init, StopOK, WatchOK, PhaseOK, Idle, Resting
<1>5. Tracked /\ ToldOK /\ CodeIsHonest
  BY DEF Init, Tracked, ToldOK, CodeIsHonest, Finished
<1> QED
  BY <1>1, <1>2, <1>3, <1>4, <1>5 DEF IInv, Safe

-----------------------------------------------------------------------------
(* A call arrives: only its caller moves, and a call is counted.           *)

LEMMA CallInv ==
  ASSUME IInv, NEW c \in Caller, NEW q \in Points, Called(c),
         pc' = [pc EXCEPT ![c] = q], PointOK(q), ~Bringing(q),
         q.at \notin {"forceExit", "forceAbort", "exitZero"},
         UNCHANGED <<table, tasks, watch, phase, held>>
  PROVE  IInv'
<1> USE DEF IInv, table, tasks
<1>1. pc' \in [Caller -> Points] /\ pc'[c] = q /\ \A d \in Caller \ {c} : pc'[d] = pc[d]
  BY Set
<1>2. TypeOK'
  BY <1>1, SupervisorAssumption DEF TypeOK, Points, Called, Present
<1>3. Budget'
  BY <1>1, BudgetCalled DEF Called
<1>4. PointsOK'
  BY <1>1 DEF PointsOK, PointOK
<1>9. OwnOK'
  <2>1. Present' = Present
    BY DEF Present
  <2> QED
    BY <1>1, <2>1 DEF OwnOK, Bringing
<1>5. StopOK' /\ WatchOK' /\ PhaseOK'
  BY <1>1 DEF Safe, StopOK, WatchOK, PhaseOK, Finished
<1>6. Tracked' /\ ToldOK' /\ CodeIsHonest'
  BY <1>1 DEF Safe, Tracked, ToldOK, CodeIsHonest, Called, At, Bringing
<1> QED
  BY <1>2, <1>3, <1>4, <1>5, <1>6, <1>9 DEF Safe

LEMMA CallsInv ==
  ASSUME IInv, NEW c \in Caller, Call(c)
  PROVE  IInv'
<1> USE SupervisorAssumption DEF Points, CallerPoints, PointOK, Bringing
<1>1. CASE SpawnAndRun(c)
  <2> DEFINE q == [at |-> "insert", pid |-> 0, then |-> "task"]
  <2>1. q \in Points
    OBVIOUS
  <2> QED
    BY <1>1, <2>1, CallInv DEF SpawnAndRun
<1>2. ASSUME NEW p \in Pids, Restart(c, p)
      PROVE  IInv'
  <2> DEFINE q == [at |-> "restart", pid |-> p,
                   then |-> IF state[p] = "Exited" THEN "respawn" ELSE "exitZero"]
  <2>1. p \in 1..(next - 1) /\ q \in Points
    BY <1>2 DEF Restart, IInv, TypeOK, Pids
  <2> QED
    BY <1>2, <2>1, CallInv DEF Restart
<1>3. ASSUME NEW p \in Pids, NEW graceful \in BOOLEAN, Stop(c, p, graceful)
      PROVE  IInv'
  <2> DEFINE q == [at |-> IF graceful THEN "stopping" ELSE "forceCancel",
                   pid |-> p, then |-> "none"]
  <2>1. p \in 1..(next - 1) /\ q \in Points
    BY <1>3 DEF Stop, IInv, TypeOK, Pids
  <2> QED
    BY <1>3, <2>1, CallInv DEF Stop
<1> QED
  BY <1>1, <1>2, <1>3 DEF Call

-----------------------------------------------------------------------------
(* The handlers.                                                           *)

LEMMA TrackedKept ==
  ASSUME Tracked, task' = task, aborted \subseteq aborted',
         cancelled \subseteq cancelled', phase' = phase,
         handles \cup held \subseteq handles' \cup held',
         \A d \in Caller : pc[d].at = "handle" => pc'[d] = pc[d]
  PROVE  Tracked'
BY DEF Tracked, At

LEMMA CallerPid ==
  ASSUME IInv, NEW c \in Caller, pc[c].at \notin {"idle", "insert"}
  PROVE  pc[c].pid \in 1..(next - 1) /\ pc[c].pid \in Pids
BY SupervisorAssumption DEF IInv, PointsOK, PointOK, Idle, TypeOK, Pids

LEMMA AllocateInv ==
  ASSUME IInv, NEW c \in Caller, AllocatePid(c)
  PROVE  IInv'
<1> USE SupervisorAssumption DEF IInv, tasks
<1>1. /\ pc[c].at = "insert"
      /\ pc'[c].at = "entry" /\ pc'[c].pid = next /\ pc'[c].then = pc[c].then
      /\ \A d \in Caller \ {c} : pc'[d] = pc[d]
  BY DEF AllocatePid, At, TypeOK
<1>2. pc[c].then \in {"none", "task"}
  BY <1>1 DEF PointsOK, PointOK, Idle
<1>3. Budget' /\ next \in Pids
  BY <1>1, <1>2, BudgetTaken DEF AllocatePid, Takes
<1>4. /\ next' = next + 1 /\ Present' = Present
      /\ UNCHANGED <<state, code, tasks, watch, calls, phase, held>>
  BY DEF AllocatePid, Present
<1>5. TypeOK'
  <2>1. next' \in 1..(MaxCalls + 1) /\ Present' \subseteq 1..(next' - 1)
    BY <1>3, <1>4 DEF TypeOK, Pids
  <2>2. pc' \in [Caller -> Points]
    <3>1. [pc[c] EXCEPT !.at = "entry", !.pid = next] \in Points
      <4>1. pc[c] \in Points /\ next \in 0..MaxCalls /\ "entry" \in CallerPoints
        BY <1>3 DEF TypeOK, Points, CallerPoints, Pids
      <4> QED
        BY <4>1 DEF Points
    <3>2. pc' = [pc EXCEPT ![c] = [pc[c] EXCEPT !.at = "entry", !.pid = next]]
      BY DEF AllocatePid, TypeOK
    <3> QED
      BY <3>1, <3>2, Set
  <2> QED
    BY <1>4, <2>1, <2>2 DEF TypeOK, Points
<1>6. PointsOK'
  BY <1>1, <1>2, <1>3, <1>4 DEF PointsOK, PointOK, Pids
<1>7. next \notin 1..(next - 1) /\ next \notin Present /\ task[next] = "none"
  BY <1>3 DEF TypeOK, OwnOK
<1>8. \A d \in Caller \ {c} : Bringing(pc[d]) => pc[d].pid # next
  BY <1>7 DEF PointsOK, PointOK, Bringing, Idle
<1>9. OwnOK'
  BY <1>1, <1>4, <1>7, <1>8 DEF OwnOK, Bringing
<1>10. StopOK' /\ WatchOK' /\ PhaseOK'
  BY <1>1, <1>4 DEF Safe, StopOK, WatchOK, PhaseOK, Finished
<1>11. Tracked'
  BY <1>1, <1>4, TrackedKept DEF Safe
<1>12. ToldOK' /\ CodeIsHonest'
  BY <1>4 DEF Safe, ToldOK, CodeIsHonest
<1> QED
  BY <1>3, <1>5, <1>6, <1>9, <1>10, <1>11, <1>12 DEF Safe

(* The entry goes in where there was none, so no exit is undone.           *)
LEMMA InsertInv ==
  ASSUME IInv, NEW c \in Caller, Insert(c)
  PROVE  IInv'
<1> USE DEF IInv, tasks
<1>1. /\ pc[c].at = "entry" /\ pc[c].pid \in 1..(next - 1) /\ pc[c].pid \in Pids
      /\ pc[c].then \in {"none", "task"} /\ pc[c].pid \notin Present
      /\ task[pc[c].pid] = "none"
  BY CallerPid DEF Insert, At, PointsOK, PointOK, Idle, OwnOK
<1>2. /\ pc' \in [Caller -> Points] /\ pc'[c].at = "running"
      /\ pc'[c].pid = pc[c].pid /\ pc'[c].then = pc[c].then
      /\ \A d \in Caller \ {c} : pc'[d] = pc[d]
  BY Moved DEF Insert, CallerPoints
<1>3. /\ state' \in [Pids -> States] /\ state'[pc[c].pid] = "Starting"
      /\ \A p \in Pids \ {pc[c].pid} : state'[p] = state[p]
      /\ state[pc[c].pid] = "Absent"
      /\ UNCHANGED <<next, code, tasks, watch, calls, phase, held>>
  BY <1>1 DEF Insert, TypeOK, States, Present
<1>4. Present' = Present \cup {pc[c].pid}
  BY <1>1, <1>3 DEF Present
<1>5. TypeOK'
  BY <1>1, <1>2, <1>3, <1>4 DEF TypeOK, Points, States
<1>6. Budget'
  BY <1>1, <1>2, <1>3, BudgetKept DEF Takes
<1>7. PointsOK'
  BY <1>1, <1>2, <1>3 DEF PointsOK, PointOK
<1>8. OwnOK'
  <2>1. \A d \in Caller : Bringing(pc'[d]) => Bringing(pc[d]) /\ pc'[d].pid = pc[d].pid
    BY <1>1, <1>2 DEF Bringing
  <2>2. \A d \in Caller \ {c} : Bringing(pc[d]) => pc[d].pid # pc[c].pid
    BY <1>1 DEF OwnOK, Bringing
  <2> QED
    BY <1>1, <1>2, <1>3, <1>4, <2>1, <2>2 DEF OwnOK, Bringing
<1>9. StopOK'
  <2>1. \A d \in Caller : pc[d].at = "exitZero" => pc[d].pid \in Pids
    BY CallerPid
  <2> QED
    BY <1>2, <1>3, <2>1 DEF Safe, StopOK
<1>10. WatchOK' /\ PhaseOK'
  BY <1>3 DEF Safe, WatchOK, PhaseOK, Finished
<1>11. Tracked'
  BY <1>1, <1>2, <1>3, TrackedKept DEF Safe
<1>12. ToldOK' /\ CodeIsHonest'
  BY <1>1, <1>3 DEF Safe, ToldOK, CodeIsHonest
<1> QED
  BY <1>5, <1>6, <1>7, <1>8, <1>9, <1>10, <1>11, <1>12 DEF Safe

(* A handler's step that starts no task: where the caller goes fits, an    *)
(* exit it records is of a process whose token is cancelled, and a handle  *)
(* it takes out is told to abort.                                          *)
CallerStep(c) ==
  /\ pc[c].at # "idle" /\ pc' \in [Caller -> Points]
  /\ \A d \in Caller \ {c} : pc'[d] = pc[d]
  /\ PointOK(pc'[c]) /\ (Takes(pc'[c]) => Takes(pc[c]))
  /\ Bringing(pc'[c]) => Bringing(pc[c]) /\ pc'[c].pid = pc[c].pid
  /\ pc'[c].at # "entry"
  /\ pc'[c].at \in {"running", "task"} => pc[c].at \in {"running", "task"}
  /\ pc'[c].at \in {"forceExit", "forceAbort"} => pc'[c].pid \in cancelled'
  /\ pc'[c].at = "exitZero" => pc'[c].pid \in cancelled' \/ state'[pc'[c].pid] = "Exited"
  /\ state' \in [Pids -> States] /\ code' \in [Pids -> Codes] /\ Present' = Present
  /\ ExitsKept
  /\ \A p \in Pids : state'[p] = "Exited" /\ state[p] # "Exited" => p \in cancelled
  /\ cancelled \subseteq cancelled' /\ cancelled' \subseteq Pids
  /\ aborted \subseteq aborted' /\ aborted' \subseteq Pids /\ aborted' \subseteq aborted \cup cancelled
  /\ handles' \subseteq Pids /\ handles \subseteq handles' \cup aborted'
  /\ pc[c].at = "handle" => pc[c].pid \in handles'
  /\ UNCHANGED <<next, task, ret, watch, calls, phase, held>>

LEMMA CallerStepInv ==
  ASSUME IInv, NEW c \in Caller, CallerStep(c)
  PROVE  IInv'
<1> USE DEF IInv
<1>1. TypeOK'
  BY DEF CallerStep, TypeOK, Points, States, Codes
<1>2. Budget'
  BY BudgetKept DEF CallerStep
<1>3. PointsOK'
  BY DEF CallerStep, PointsOK, PointOK
<1>4. OwnOK'
  <2>1. /\ \A d \in Caller : Bringing(pc'[d]) => Bringing(pc[d]) /\ pc'[d].pid = pc[d].pid
        /\ \A d \in Caller : pc'[d].at \in {"running", "task"} =>
                               pc[d].at \in {"running", "task"} /\ pc'[d].pid = pc[d].pid
        /\ \A d \in Caller : pc'[d].at = "entry" =>
                               pc[d].at = "entry" /\ pc'[d].pid = pc[d].pid
        /\ task' = task /\ Present' = Present
    BY DEF CallerStep, Bringing
  <2> QED
    BY <2>1 DEF OwnOK
<1>5. StopOK'
  <2>1. ASSUME NEW d \in Caller \ {c}
        PROVE  /\ pc'[d].at \in {"forceExit", "forceAbort"} => pc'[d].pid \in cancelled'
               /\ pc'[d].at = "exitZero" =>
                    pc'[d].pid \in cancelled' \/ state'[pc'[d].pid] = "Exited"
    <3>1. pc'[d] = pc[d] /\ cancelled \subseteq cancelled' /\ ExitsKept
      BY DEF CallerStep
    <3>2. pc[d].at = "exitZero" => pc[d].pid \in Pids
      BY SupervisorAssumption DEF PointsOK, PointOK, Idle, TypeOK, Pids
    <3> QED
      BY <3>1, <3>2 DEF Safe, StopOK, ExitsKept
  <2> QED
    BY <2>1 DEF CallerStep, StopOK
<1>6. WatchOK' /\ PhaseOK'
  BY DEF CallerStep, Safe, WatchOK, PhaseOK, Finished
<1>7. Tracked'
  <2>1. /\ task' = task /\ held' = held /\ aborted \subseteq aborted'
        /\ phase' = phase /\ cancelled \subseteq cancelled'
        /\ handles \subseteq handles' \cup aborted'
        /\ \A d \in Caller : pc[d].at = "handle" => pc'[d] = pc[d] \/ pc[d].pid \in handles'
    BY DEF CallerStep
  <2> QED
    BY <2>1 DEF Safe, Tracked, At
<1>8. ToldOK' /\ CodeIsHonest'
  BY DEF CallerStep, ExitsKept, Safe, ToldOK, CodeIsHonest
<1> QED
  BY <1>1, <1>2, <1>3, <1>4, <1>5, <1>6, <1>7, <1>8 DEF Safe

(* The updates of a handler's own process, as CallerStep wants them.       *)
LEMMA CallerUpdates ==
  ASSUME IInv, NEW c \in Caller, pc[c].pid \in Pids, NEW k \in {0, -1},
         NEW to \in {"Running", "Stopping", "Exited"}, UpdateState({pc[c].pid}, to, k),
         to = "Exited" => pc[c].pid \in cancelled \/ state[pc[c].pid] = "Exited"
  PROVE  /\ state' \in [Pids -> States] /\ code' \in [Pids -> Codes] /\ Present' = Present
         /\ ExitsKept /\ next' = next
         /\ \A p \in Pids : state'[p] = "Exited" /\ state[p] # "Exited" => p \in cancelled
<1>1. PICK ps \in SUBSET Pids : ps = {pc[c].pid}
  OBVIOUS
<1>2. UpdateState(ps, to, k)
  BY <1>1 DEF UpdateState
<1>3. TableStep(ps, to, k)
  BY <1>2, Updated DEF States, Codes, IInv
<1> QED
  BY <1>1, <1>3 DEF TableStep

LEMMA RunningInv ==
  ASSUME IInv, NEW c \in Caller, SetRunning(c)
  PROVE  IInv'
<1>1. pc[c].at = "running" /\ pc[c].pid \in 1..(next - 1) /\ pc[c].pid \in Pids
  BY CallerPid DEF SetRunning, At
<1>2. /\ state' \in [Pids -> States] /\ code' \in [Pids -> Codes] /\ Present' = Present
      /\ ExitsKept /\ next' = next
      /\ \A p \in Pids : state'[p] = "Exited" /\ state[p] # "Exited" => p \in cancelled
  BY <1>1, CallerUpdates DEF SetRunning
<1>3. CallerStep(c)
  <2>1. CASE pc[c].then = "task"
    BY <1>1, <1>2, <2>1, Moved
       DEF SetRunning, CallerStep, CallerPoints, PointOK, Takes, Bringing, tasks, IInv, TypeOK
  <2>2. CASE pc[c].then # "task"
    BY <1>1, <1>2, <2>2, Set, IdlePoint
       DEF SetRunning, Done, CallerStep, PointOK, Idle, tasks, IInv, TypeOK
  <2> QED
    BY <2>1, <2>2
<1> QED
  BY <1>3, CallerStepInv

LEMMA StoppingInv ==
  ASSUME IInv, NEW c \in Caller, MarkStopping(c)
  PROVE  IInv'
<1>1. /\ pc[c].at = "stopping" /\ pc[c].pid \in 1..(next - 1) /\ pc[c].pid \in Pids
      /\ PointOK(pc[c])
  BY CallerPid DEF MarkStopping, At, IInv, PointsOK
<1>2. /\ state' \in [Pids -> States] /\ code' \in [Pids -> Codes] /\ Present' = Present
      /\ ExitsKept /\ next' = next
      /\ \A p \in Pids : state'[p] = "Exited" /\ state[p] # "Exited" => p \in cancelled
  BY <1>1, CallerUpdates DEF MarkStopping
<1>3. CallerStep(c)
  BY <1>1, <1>2, Moved
     DEF MarkStopping, CallerStep, CallerPoints, PointOK, Takes, Bringing, tasks, IInv, TypeOK, Idle
<1> QED
  BY <1>3, CallerStepInv

LEMMA ExitingInv ==
  ASSUME IInv, NEW c \in Caller, ForceExit(c) \/ ExitZero(c)
  PROVE  IInv'
<1>1. /\ pc[c].at \in {"forceExit", "exitZero"} /\ PointOK(pc[c])
      /\ pc[c].pid \in 1..(next - 1) /\ pc[c].pid \in Pids
  BY CallerPid DEF ForceExit, ExitZero, At, IInv, PointsOK
<1>2. pc[c].pid \in cancelled \/ state[pc[c].pid] = "Exited"
  BY <1>1 DEF IInv, Safe, StopOK
<1>3. /\ state' \in [Pids -> States] /\ code' \in [Pids -> Codes] /\ Present' = Present
      /\ ExitsKept /\ next' = next
      /\ \A p \in Pids : state'[p] = "Exited" /\ state[p] # "Exited" => p \in cancelled
  BY <1>1, <1>2, CallerUpdates DEF ForceExit, ExitZero
<1>4. CallerStep(c)
  <2>1. CASE ForceExit(c)
    BY <1>1, <1>3, <2>1, Moved
       DEF ForceExit, At, CallerStep, CallerPoints, PointOK, Takes, Bringing, tasks, Idle,
           IInv, TypeOK, Safe, StopOK
  <2>2. CASE ExitZero(c)
    BY <1>1, <1>3, <2>2, Moved
       DEF ExitZero, At, CallerStep, CallerPoints, PointOK, Takes, Bringing, tasks, Idle,
           IInv, TypeOK
  <2> QED
    BY <2>1, <2>2
<1> QED
  BY <1>4, CallerStepInv

(* The steps that leave the table alone.                                   *)
LEMMA TableAlone ==
  ASSUME IInv, UNCHANGED table
  PROVE  /\ state' \in [Pids -> States] /\ code' \in [Pids -> Codes] /\ Present' = Present
         /\ ExitsKept /\ next' = next
         /\ \A p \in Pids : state'[p] = "Exited" => state[p] = "Exited"
BY DEF IInv, TypeOK, States, Codes, Present, ExitsKept, table

LEMMA HandleInv ==
  ASSUME IInv, NEW c \in Caller, InsertHandle(c)
  PROVE  IInv'
<1>1. pc[c].at = "handle" /\ pc[c].pid \in Pids
  BY CallerPid DEF InsertHandle, At
<1>2. CallerStep(c)
  BY <1>1, TableAlone, Set, IdlePoint
     DEF InsertHandle, Done, CallerStep, PointOK, Idle, IInv, TypeOK
<1> QED
  BY <1>2, CallerStepInv

LEMMA CancelInv ==
  ASSUME IInv, NEW c \in Caller, Cancel(c)
  PROVE  IInv'
<1>1. /\ pc[c].at = "cancel" /\ pc[c].pid \in 1..(next - 1) /\ pc[c].pid \in Pids
      /\ pc[c].then \in {"none", "exitZero", "respawn"}
  BY CallerPid DEF Cancel, At, IInv, PointsOK, PointOK, Idle
<1>2. CallerStep(c)
  <2>1. CASE pc[c].then = "none"
    BY <1>1, <2>1, TableAlone, Set, IdlePoint
       DEF Cancel, Done, CallerStep, PointOK, Idle, IInv, TypeOK
  <2>2. CASE pc[c].then # "none"
    <3>1. PICK at \in {"exitZero", "respawn"} : at = pc[c].then
      BY <1>1, <2>2
    <3>2. Goto(c, at)
      BY <2>2, <3>1 DEF Cancel, Goto
    <3> QED
      BY <1>1, <3>1, <3>2, TableAlone, Moved
         DEF Cancel, CallerStep, CallerPoints, PointOK, Takes, Bringing, IInv, TypeOK
  <2> QED
    BY <2>1, <2>2
<1> QED
  BY <1>2, CallerStepInv

LEMMA ForceInv ==
  ASSUME IInv, NEW c \in Caller, ForceCancel(c) \/ ForceAbort(c)
  PROVE  IInv'
<1>1. /\ pc[c].at \in {"forceCancel", "forceAbort"} /\ pc[c].then = "none"
      /\ pc[c].pid \in 1..(next - 1) /\ pc[c].pid \in Pids
  BY CallerPid DEF ForceCancel, ForceAbort, At, IInv, PointsOK, PointOK, Idle
<1>2. CallerStep(c)
  <2>1. CASE ForceCancel(c)
    BY <1>1, <2>1, TableAlone, Moved
       DEF ForceCancel, At, CallerStep, CallerPoints, PointOK, Takes, Bringing, IInv, TypeOK
  <2>2. CASE ForceAbort(c)
    <3>1. pc[c].at = "forceAbort" /\ pc[c].pid \in cancelled
      BY <2>2 DEF ForceAbort, At, IInv, Safe, StopOK
    <3> QED
      BY <1>1, <2>2, <3>1, TableAlone, Set, IdlePoint
         DEF ForceAbort, Done, CallerStep, PointOK, Idle, IInv, TypeOK
  <2> QED
    BY <2>1, <2>2
<1> QED
  BY <1>2, CallerStepInv

LEMMA RestartInv ==
  ASSUME IInv, NEW c \in Caller, RestartStops(c) \/ Respawn(c)
  PROVE  IInv'
<1>1. /\ pc[c].at \in {"restart", "respawn"} /\ pc[c].then \in {"exitZero", "respawn"}
      /\ pc[c].pid \in 1..(next - 1) /\ pc[c].pid \in Pids
  BY CallerPid DEF RestartStops, Respawn, At, IInv, PointsOK, PointOK, Idle
<1>2. CallerStep(c)
  <2>1. CASE RestartStops(c)
    <3>1. PICK at \in {"exitZero", "respawn", "stopping"} :
            at = IF state[pc[c].pid] = "Exited" THEN pc[c].then ELSE "stopping"
      BY <1>1
    <3>2. Goto(c, at)
      BY <2>1, <3>1 DEF RestartStops, Goto
    <3> QED
      BY <1>1, <2>1, <3>1, <3>2, TableAlone, Moved
         DEF RestartStops, CallerStep, CallerPoints, PointOK, Takes, Bringing, tasks, table,
             IInv, TypeOK
  <2>2. CASE Respawn(c)
    <3> DEFINE q == [at |-> "insert", pid |-> 0, then |-> "none"]
    <3>1. q \in Points
      BY SupervisorAssumption DEF Points, CallerPoints
    <3>2. /\ pc' \in [Caller -> Points] /\ pc'[c] \in {q, Idle}
          /\ \A d \in Caller \ {c} : pc'[d] = pc[d]
      BY <2>2, <3>1, Set, IdlePoint DEF Respawn, Done, IInv
    <3>3. PointOK(pc'[c]) /\ ~Bringing(pc'[c]) /\ pc'[c].at \in {"insert", "idle"}
      BY <3>2 DEF PointOK, Bringing, Idle
    <3> QED
      BY <1>1, <2>2, <3>2, <3>3, TableAlone DEF Respawn, CallerStep, Takes, tasks, IInv, TypeOK
  <2> QED
    BY <2>1, <2>2
<1> QED
  BY <1>2, CallerStepInv

LEMMA StartInv ==
  ASSUME IInv, NEW c \in Caller, StartTask(c)
  PROVE  IInv'
<1> USE DEF IInv, table
<1>1. /\ pc[c].at = "task" /\ pc[c].then = "task" /\ task[pc[c].pid] = "none"
      /\ pc[c].pid \in 1..(next - 1) /\ pc[c].pid \in Pids
  BY CallerPid DEF StartTask, At, PointsOK, PointOK, Idle, OwnOK
<1>2. /\ pc' \in [Caller -> Points] /\ pc'[c].at = "handle"
      /\ pc'[c].pid = pc[c].pid /\ pc'[c].then = pc[c].then
      /\ \A d \in Caller \ {c} : pc'[d] = pc[d]
  BY Moved DEF StartTask, CallerPoints
<1>3. /\ task' = [task EXCEPT ![pc[c].pid] = "working"]
      /\ task' \in [Pids -> {"none", "working", "ending", "done", "panicked", "aborted"}]
  BY <1>1 DEF StartTask, TypeOK
<1>4. /\ task'[pc[c].pid] = "working" /\ \A p \in Pids \ {pc[c].pid} : task'[p] = task[p]
      /\ Finished' = Finished
  BY <1>1, <1>3 DEF TypeOK, Finished
<1>5. TypeOK'
  BY <1>2, <1>3 DEF StartTask, TypeOK, Present, Points
<1>6. Budget'
  BY <1>1, <1>2, BudgetKept DEF StartTask, Takes
<1>7. PointsOK'
  BY <1>1, <1>2 DEF StartTask, PointsOK, PointOK
<1>8. OwnOK'
  <2>1. \A d \in Caller : Bringing(pc'[d]) => Bringing(pc[d]) /\ pc'[d].pid = pc[d].pid
    BY <1>1, <1>2 DEF Bringing
  <2>2. \A d \in Caller \ {c} : Bringing(pc[d]) => pc[d].pid # pc[c].pid /\ pc[d].pid \in Pids
    BY <1>1, CallerPid DEF OwnOK, Bringing
  <2>3. \A d \in Caller : pc'[d].at \in {"entry", "running", "task"} => task'[pc'[d].pid] = "none"
    BY <1>2, <1>4, <2>2 DEF OwnOK, Bringing
  <2>4. Present' = Present /\ pc[c].pid \in Present
    BY <1>1 DEF StartTask, Present, OwnOK
  <2> QED
    BY <1>1, <1>2, <1>4, <2>1, <2>3, <2>4 DEF OwnOK
<1>9. StopOK'
  BY <1>2 DEF Safe, StopOK, StartTask
<1>10. WatchOK' /\ PhaseOK'
  BY <1>1, <1>4 DEF Safe, WatchOK, PhaseOK, StartTask, Finished
<1>11. Tracked'
  BY <1>1, <1>2, <1>4 DEF Safe, Tracked, StartTask, At
<1>12. ToldOK' /\ CodeIsHonest'
  BY <1>1, <1>4 DEF Safe, ToldOK, CodeIsHonest, StartTask
<1> QED
  BY <1>5, <1>6, <1>7, <1>8, <1>9, <1>10, <1>11, <1>12 DEF Safe

LEMMA ServeInv ==
  ASSUME IInv, NEW c \in Caller, Serve(c)
  PROVE  IInv'
BY AllocateInv, InsertInv, RunningInv, StartInv, HandleInv, StoppingInv, CancelInv, ForceInv, ExitingInv,
   RestartInv DEF Serve

-----------------------------------------------------------------------------
(* The agents' tasks.                                                      *)

TaskStates == {"none", "working", "ending", "done", "panicked", "aborted"}

(* A step of p's task that is not the start of it.                         *)
TaskStep(p) ==
  /\ task[p] \in {"working", "ending"}
  /\ task' \in [Pids -> TaskStates] /\ task'[p] # "none"
  /\ \A r \in Pids \ {p} : task'[r] = task[r]
  /\ task[p] = "ending" => task'[p] \in {"ending", "done"}
  /\ task[p] = "working" /\ task'[p] = "done" => FALSE
  /\ state' \in [Pids -> States] /\ code' \in [Pids -> Codes] /\ Present' = Present
  /\ ExitsKept
  /\ \A r \in Pids : state'[r] = "Exited" /\ state[r] # "Exited" =>
                       r = p /\ task'[p] = "ending" /\ code'[p] = ret'[p]
  /\ task[p] = "working" /\ task'[p] = "ending" =>
       state'[p] = "Exited" /\ (state[p] # "Exited" => code'[p] = ret'[p])
  /\ ret' \in [Pids -> WorkCodes \cup {0}] /\ \A r \in Pids \ {p} : ret'[r] = ret[r]
  /\ (ret'[p] = ret[p] \/ (task[p] = "working" /\ task'[p] = "ending"))
  /\ handles' \subseteq handles
  /\ \A r \in handles \ handles' : task'[r] = "done"
  /\ UNCHANGED <<next, cancelled, aborted, pc, watch, calls, phase, held>>

LEMMA TaskStepInv ==
  ASSUME IInv, NEW p \in Pids, TaskStep(p)
  PROVE  IInv'
<1> USE DEF IInv
<1>1. TypeOK'
  BY DEF TaskStep, TypeOK, TaskStates, States, Codes
<1>2. Budget'
  BY BudgetKept DEF TaskStep
<1>3. PointsOK'
  BY DEF TaskStep, PointsOK, PointOK
<1>4. OwnOK'
  <2>1. \A d \in Caller : pc[d].at \in {"entry", "running", "task"} => pc[d].pid \in Pids
    BY CallerPid
  <2> QED
    BY <2>1 DEF TaskStep, OwnOK
<1>5. StopOK'
  <2>1. \A d \in Caller : pc[d].at = "exitZero" => pc[d].pid \in Pids
    BY CallerPid
  <2> QED
    BY <2>1 DEF TaskStep, Safe, StopOK, ExitsKept
<1>6. WatchOK'
  <2>1. Finished \subseteq Finished' /\ \A r \in Finished : task'[r] = task[r]
    BY DEF TaskStep, Finished
  <2> QED
    BY <2>1 DEF TaskStep, Safe, WatchOK
<1>7. PhaseOK'
  BY DEF TaskStep, Safe, PhaseOK
<1>8. Tracked'
  <2>1. \A r \in Pids : task'[r] = "working" => task[r] = "working" /\ (r \in handles => r \in handles')
    BY DEF TaskStep
  <2> QED
    BY <2>1 DEF TaskStep, Safe, Tracked, At
<1>9. ToldOK'
  BY DEF TaskStep, Safe, ToldOK
<1>10. CodeIsHonest'
  <2> SUFFICES ASSUME phase = "up", NEW r \in Pids \ cancelled
               PROVE  /\ task'[r] \in {"ending", "done"} => state'[r] = "Exited" /\ code'[r] = ret'[r]
                      /\ task'[r] = "panicked" /\ state'[r] = "Exited" => code'[r] = -3
    BY DEF CodeIsHonest, TaskStep
  <2>1. state[r] = "Exited" /\ task[r] = "working" => FALSE
    BY DEF Safe, ToldOK, PhaseOK
  <2>2. CASE r = p
    BY <2>1, <2>2 DEF TaskStep, ExitsKept, Safe, CodeIsHonest
  <2>3. CASE r # p
    BY <2>3 DEF TaskStep, ExitsKept, Safe, CodeIsHonest
  <2> QED
    BY <2>2, <2>3
<1> QED
  BY <1>1, <1>2, <1>3, <1>4, <1>5, <1>6, <1>7, <1>8, <1>9, <1>10 DEF Safe

LEMMA TaskInv ==
  ASSUME IInv, NEW p \in Pids, Task(p)
  PROVE  IInv'
<1> USE DEF TaskStates
<1>1. task[p] # "none" => p \in Present
  BY DEF IInv, OwnOK
<1>2. ASSUME NEW c \in WorkCodes, WorkReturns(p, c)
      PROVE  TaskStep(p)
  <2>1. {p} \in SUBSET Pids /\ UpdateState({p}, "Exited", c) /\ c \in Codes
    BY <1>2 DEF WorkReturns, Codes
  <2>2. TableStep({p}, "Exited", c)
    BY <2>1, Updated DEF IInv, States
  <2>3. /\ task' \in [Pids -> TaskStates] /\ ret' \in [Pids -> WorkCodes \cup {0}]
        /\ task[p] = "working" /\ task'[p] = "ending" /\ ret'[p] = c
        /\ \A r \in Pids \ {p} : task'[r] = task[r] /\ ret'[r] = ret[r]
    BY <1>2 DEF WorkReturns, IInv, TypeOK
  <2> QED
    BY <1>1, <1>2, <2>2, <2>3 DEF WorkReturns, TaskStep, TableStep
<1>3. ASSUME Suspend(p) \/ Resume(p)
      PROVE  TaskStep(p)
  <2>1. PICK to \in {"Running", "Suspended"} : UpdateState({p}, to, 0)
    BY <1>3 DEF Suspend, Resume
  <2>2. TableStep({p}, to, 0)
    BY <2>1, Updated DEF IInv, States, Codes
  <2>3. task[p] = "working" /\ UNCHANGED <<tasks, pc, watch, calls, phase, held>>
    BY <1>3 DEF Suspend, Resume
  <2> QED
    BY <2>2, <2>3 DEF TaskStep, TableStep, tasks, IInv, TypeOK
<1>4. ASSUME TaskEnds(p) \/ WorkPanics(p) \/ WorkAborted(p)
      PROVE  TaskStep(p)
  <2>1. /\ \/ task[p] = "working" /\ task'[p] \in {"panicked", "aborted"} /\ handles' = handles
           \/ task[p] = "ending" /\ task'[p] = "done" /\ handles' = handles \ {p}
        /\ \A r \in Pids \ {p} : task'[r] = task[r]
        /\ task' \in [Pids -> TaskStates]
    BY <1>4 DEF TaskEnds, WorkPanics, WorkAborted, IInv, TypeOK
  <2>2. UNCHANGED <<table, cancelled, ret, aborted, pc, watch, calls, phase, held>>
    BY <1>4 DEF TaskEnds, WorkPanics, WorkAborted
  <2> QED
    BY <2>1, <2>2, TableAlone DEF TaskStep, IInv, TypeOK, table
<1> QED
  BY <1>2, <1>3, <1>4, TaskStepInv DEF Task

-----------------------------------------------------------------------------
(* The watchdog.                                                           *)

(* Steps of the watchdog move only itself, and take handles of tasks that  *)
(* are over.                                                               *)
LEMMA WatchStepInv ==
  ASSUME IInv, WatchOK',
         watch' \in [at : {"idle", "sweep", "look", "reap"}, todo : SUBSET Pids,
                     pid : 0..MaxCalls, code : {0, -2, -3}],
         handles' \subseteq handles, handles \ handles' \subseteq Finished,
         UNCHANGED <<table, cancelled, task, ret, aborted, pc, calls, phase, held>>
  PROVE  IInv'
<1> USE DEF IInv, table
<1>1. TypeOK'
  BY DEF TypeOK, Present
<1>2. Budget' /\ PointsOK' /\ OwnOK'
  BY BudgetKept DEF PointsOK, PointOK, OwnOK, Present
<1>3. StopOK' /\ PhaseOK'
  BY DEF Safe, StopOK, PhaseOK
<1>4. Tracked' /\ ToldOK' /\ CodeIsHonest'
  BY DEF Safe, Tracked, ToldOK, CodeIsHonest, Finished, At
<1> QED
  BY <1>1, <1>2, <1>3, <1>4 DEF Safe
LEMMA ReapInv ==
  ASSUME IInv, SweepReap
  PROVE  IInv'
<1> USE DEF IInv
<1>1. /\ watch.pid \in Finished /\ watch.pid \in Pids /\ watch.code \in {-2, -3}
      /\ watch.code = IF task[watch.pid] = "panicked" THEN -3 ELSE -2
  BY DEF SweepReap, Safe, WatchOK, Finished
<1>2. PICK ps \in SUBSET Pids, k \in {-2, -3} : ps = {watch.pid} /\ k = watch.code
  BY <1>1
<1>3. UpdateState(ps, "Exited", k)
  BY <1>2 DEF SweepReap, UpdateState
<1>4. TableStep(ps, "Exited", k)
  BY <1>3, Updated DEF States, Codes
<1>5. /\ watch'.at = "sweep" /\ watch'.todo = watch.todo
      /\ watch' \in [at : {"idle", "sweep", "look", "reap"}, todo : SUBSET Pids,
                     pid : 0..MaxCalls, code : {0, -2, -3}]
      /\ UNCHANGED <<tasks, pc, calls, phase, held>>
  BY DEF SweepReap, TypeOK
<1>6. TypeOK'
  BY <1>4, <1>5 DEF TypeOK, TableStep, tasks, States, Codes
<1>7. Budget'
  BY <1>4, <1>5, BudgetKept DEF TableStep
<1>8. PointsOK' /\ OwnOK'
  BY <1>4, <1>5 DEF PointsOK, PointOK, OwnOK, TableStep, tasks
<1>9. StopOK'
  <2>1. \A d \in Caller : pc[d].at = "exitZero" => pc[d].pid \in Pids
    BY CallerPid
  <2> QED
    BY <1>4, <1>5, <2>1 DEF Safe, StopOK, TableStep, ExitsKept, tasks
<1>10. WatchOK' /\ PhaseOK'
  BY <1>4, <1>5 DEF Safe, WatchOK, PhaseOK, Finished, tasks, TableStep, SweepReap
<1>11. Tracked' /\ ToldOK'
  BY <1>1, <1>2, <1>4, <1>5
     DEF Safe, Tracked, ToldOK, Finished, tasks, TableStep, At
<1>12. CodeIsHonest'
  BY <1>1, <1>2, <1>4, <1>5
     DEF Safe, CodeIsHonest, Finished, tasks, TableStep, ExitsKept
<1> QED
  BY <1>6, <1>7, <1>8, <1>9, <1>10, <1>11, <1>12 DEF Safe

LEMMA WatchdogInv ==
  ASSUME IInv, Watchdog
  PROVE  IInv'
<1> USE DEF IInv, tasks, table
<1>1. CASE SweepBegin
  <2>1. WatchOK'
    BY <1>1 DEF SweepBegin, WatchOK, Resting, Finished
  <2>2. watch' \in [at : {"idle", "sweep", "look", "reap"}, todo : SUBSET Pids,
                   pid : 0..MaxCalls, code : {0, -2, -3}]
    <3>1. watch' = [at |-> "sweep", todo |-> handles \cap Finished, pid |-> 0, code |-> 0]
      BY <1>1 DEF SweepBegin, Resting
    <3>2. handles \cap Finished \in SUBSET Pids
      BY DEF Finished
    <3> QED
      BY <3>1, <3>2, SupervisorAssumption
  <2> QED
    BY <1>1, <2>1, <2>2, WatchStepInv DEF SweepBegin
<1>2. CASE SweepLook
  <2>1. WatchOK'
    BY <1>2 DEF SweepLook, Safe, WatchOK, Finished, TypeOK
  <2> QED
    BY <1>2, <2>1, WatchStepInv DEF SweepLook, TypeOK
<1>3. CASE SweepEnd
  <2>1. WatchOK'
    BY <1>3 DEF SweepEnd, WatchOK, Resting, Finished
  <2>2. watch' \in [at : {"idle", "sweep", "look", "reap"}, todo : SUBSET Pids,
                   pid : 0..MaxCalls, code : {0, -2, -3}]
    BY <1>3, SupervisorAssumption DEF SweepEnd, Resting
  <2> QED
    BY <1>3, <2>1, <2>2, WatchStepInv DEF SweepEnd
<1>4. ASSUME NEW p \in Pids, SweepTake(p)
      PROVE  IInv'
  <2>1. p \in Finished
    BY <1>4 DEF SweepTake, Safe, WatchOK
  <2>2. /\ watch' \in [at : {"idle", "sweep", "look", "reap"}, todo : SUBSET Pids,
                       pid : 0..MaxCalls, code : {0, -2, -3}]
        /\ watch'.todo \subseteq watch.todo
        /\ watch'.at \in {"look", "reap"} =>
             watch'.pid = p /\ watch'.code = IF task[p] = "panicked" THEN -3 ELSE -2
    <3>1. watch.at = "sweep" /\ p \in 0..MaxCalls /\ watch.todo \ {p} \in SUBSET Pids
      BY <1>4, SupervisorAssumption DEF SweepTake, TypeOK, Pids
    <3>2. CASE p \in handles
      BY <1>4, <3>1, <3>2 DEF SweepTake
    <3>3. CASE p \notin handles
      <4>1. watch' = [watch EXCEPT !.todo = @ \ {p}]
        BY <1>4, <3>3 DEF SweepTake
      <4> QED
        BY <3>1, <4>1 DEF TypeOK
    <3> QED
      BY <3>2, <3>3
  <2>3. WatchOK'
    BY <1>4, <2>1, <2>2 DEF SweepTake, Safe, WatchOK, Finished
  <2> QED
    BY <1>4, <2>1, <2>2, <2>3, WatchStepInv DEF SweepTake
<1> QED
  BY <1>1, <1>2, <1>3, <1>4, ReapInv DEF Watchdog
-----------------------------------------------------------------------------
(* The shutdown.  It moves no caller and starts no task.                   *)

LEMMA ShutdownFrame ==
  ASSUME IInv, UNCHANGED <<next, pc, calls, task>>, Present' = Present
  PROVE  Budget' /\ PointsOK' /\ OwnOK'
BY BudgetKept DEF IInv, PointsOK, PointOK, OwnOK

LEMMA ShutdownEarlyInv ==
  ASSUME IInv, CancelAll \/ Drain \/ WaitOver
  PROVE  IInv'
<1> USE DEF IInv, tasks, table
<1>1. /\ UNCHANGED <<next, state, code, pc, calls, task, ret, aborted, watch>>
      /\ cancelled \subseteq cancelled' /\ cancelled' \subseteq Pids
      /\ handles' \subseteq Pids /\ held' \subseteq Pids
      /\ phase' \in {"drain", "wait", "kernel"} /\ phase \in {"up", "drain", "wait"}
      /\ Present' = Present
  BY DEF CancelAll, Drain, WaitOver, TypeOK, Present
<1>2. TypeOK'
  BY <1>1 DEF TypeOK, Present
<1>3. Budget' /\ PointsOK' /\ OwnOK'
  BY <1>1, ShutdownFrame
<1>4. StopOK' /\ WatchOK'
  BY <1>1 DEF Safe, StopOK, WatchOK, Finished
<1>5. PhaseOK'
  BY <1>1 DEF Safe, PhaseOK, CancelAll, Drain, WaitOver
<1>6. Tracked'
  <2>1. phase' = "kernel" \/ handles \cup held \subseteq handles' \cup held'
    BY DEF Safe, PhaseOK, CancelAll, Drain, WaitOver
  <2> QED
    BY <1>1, <2>1 DEF Safe, Tracked, At
<1>7. ToldOK' /\ CodeIsHonest'
  BY <1>1 DEF Safe, ToldOK, CodeIsHonest
<1> QED
  BY <1>2, <1>3, <1>4, <1>5, <1>6, <1>7 DEF Safe

LEMMA TimedOutInv ==
  ASSUME IInv, TimedOut
  PROVE  IInv'
<1> USE DEF IInv
<1>1. PICK ps \in SUBSET Pids : ps = IF handles = {} THEN Pids ELSE handles
  BY DEF TypeOK
<1>2. UpdateState(ps, "Exited", -1)
  BY <1>1 DEF TimedOut, UpdateState
<1>3. TableStep(ps, "Exited", -1)
  BY <1>2, Updated DEF States, Codes
<1>4. TypeOK'
  BY <1>3 DEF TimedOut, TableStep, TypeOK, States, Codes
<1>5. Budget' /\ PointsOK' /\ OwnOK'
  BY <1>3, ShutdownFrame DEF TimedOut, TableStep
<1>6. StopOK'
  <2>1. \A d \in Caller : pc[d].at = "exitZero" => pc[d].pid \in Pids
    BY CallerPid
  <2>2. pc' = pc /\ cancelled' = cancelled /\ ExitsKept
    BY <1>3 DEF TimedOut, TableStep
  <2> QED
    BY <2>1, <2>2 DEF Safe, StopOK, ExitsKept
<1>7. WatchOK' /\ PhaseOK'
  BY DEF TimedOut, Safe, WatchOK, PhaseOK, Finished
<1>8. Tracked'
  BY DEF Tracked, TimedOut
<1>9. ToldOK' /\ CodeIsHonest'
  BY DEF TimedOut, ToldOK, CodeIsHonest
<1> QED
  BY <1>4, <1>5, <1>6, <1>7, <1>8, <1>9 DEF Safe

LEMMA KernelDownInv ==
  ASSUME IInv, KernelDown
  PROVE  IInv'
<1> USE DEF IInv
<1>1. UpdateState(Pids, "Exited", 0) /\ Pids \in SUBSET Pids
  BY DEF KernelDown
<1>2. TableStep(Pids, "Exited", 0)
  BY <1>1, Updated DEF States, Codes
<1>3. TypeOK'
  BY <1>2 DEF KernelDown, TableStep, TypeOK, States, Codes, Present
<1>4. Budget' /\ PointsOK' /\ OwnOK'
  BY <1>2, ShutdownFrame DEF KernelDown, TableStep
<1>5. StopOK' /\ WatchOK'
  BY DEF KernelDown, Safe, StopOK, WatchOK, Finished, At
<1>6. PhaseOK'
  BY DEF KernelDown, PhaseOK
<1>7. Tracked'
  BY DEF Tracked, KernelDown, OwnOK
<1>8. ToldOK' /\ CodeIsHonest'
  <2>1. \A p \in Pids : state'[p] = "Exited" => p \in cancelled'
    BY <1>2 DEF KernelDown, TableStep, Present
  <2> QED
    BY <2>1 DEF KernelDown, ToldOK, CodeIsHonest
<1> QED
  BY <1>3, <1>4, <1>5, <1>6, <1>7, <1>8 DEF Safe

-----------------------------------------------------------------------------
LEMMA StepInv == IInv /\ [Next]_vars => IInv'
<1> SUFFICES ASSUME IInv, [Next]_vars PROVE IInv'
  OBVIOUS
<1>1. ASSUME NEW c \in Caller, Call(c) \/ Serve(c)
      PROVE  IInv'
  BY <1>1, CallsInv, ServeInv
<1>2. ASSUME NEW p \in Pids, Task(p)
      PROVE  IInv'
  BY <1>2, TaskInv
<1>3. CASE Watchdog
  BY <1>3, WatchdogInv
<1>4. CASE Shutdown
  BY <1>4, ShutdownEarlyInv, TimedOutInv, KernelDownInv DEF Shutdown
<1>5. CASE UNCHANGED vars
  <2>1. TypeOK'
    BY <1>5 DEF vars, IInv, TypeOK, Present
  <2>2. Budget' /\ PointsOK' /\ OwnOK'
    BY <1>5, ShutdownFrame DEF vars, Present
  <2>3. Safe'
    BY <1>5 DEF vars, IInv, Safe, StopOK, WatchOK, PhaseOK, Tracked, ToldOK, CodeIsHonest,
                Finished, At
  <2> QED
    BY <2>1, <2>2, <2>3 DEF IInv
<1> QED
  BY <1>1, <1>2, <1>3, <1>4, <1>5 DEF Next

LEMMA IInvHolds == Spec => []IInv
BY InitInv, StepInv, PTL DEF Spec

(* The entries of the table are of pids that were handed out, and the      *)
(* calls made are pids enough, however the handlers of spawns and restarts *)
(* interleave between insert's check, its taking of the pid and its        *)
(* putting the entry in (process.rs insert).                               *)
THEOREM TypeCorrect == Spec => []TypeOK
<1>1. IInv => TypeOK
  BY DEF IInv
<1> QED
  BY <1>1, IInvHolds, PTL

(* A task at work that was not told to abort can be reached, in            *)
(* running_agents, in the hands of the spawn_and_run that started it, or   *)
(* with shutdown_all while it waits; a task whose handle that wait dropped *)
(* is cancelled by the time the kernel is down.  Handles are taken out by  *)
(* the task, a forced stop, the watchdog and the shutdown, in any order    *)
(* (supervisor.rs).                                                        *)
THEOREM TasksTracked == Spec => []Tracked
<1>1. IInv => Tracked
  BY DEF IInv, Safe
<1> QED
  BY <1>1, IInvHolds, PTL

(* A process shown exited whose work still runs was cancelled or aborted,  *)
(* but for one spawned while the shutdown waits: no stop, restart or sweep *)
(* leaves a task behind that nobody told.                                  *)
THEOREM ExitsAreTold == Spec => []ExitedIsTold
<1>1. IInv => ExitedIsTold
  BY DEF IInv, Safe, ToldOK, ExitedIsTold
<1> QED
  BY <1>1, IInvHolds, PTL

(* Until the shutdown an agent nobody stopped has the exit code its work   *)
(* returned, or -3 for a panic: neither the watchdog's sweep nor a racing  *)
(* stop or restart writes another over it.                                 *)
THEOREM CodesAreHonest == Spec => []CodeIsHonest
<1>1. IInv => CodeIsHonest
  BY DEF IInv, Safe
<1> QED
  BY <1>1, IInvHolds, PTL
==============================================================================
