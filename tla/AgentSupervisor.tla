--------------------------- MODULE AgentSupervisor ---------------------------
(***************************************************************************)
(* The kernel's process table and agent supervisor                         *)
(* (crates/clawft-kernel/src/process.rs, supervisor.rs), with the daemon's *)
(* calls of it: agents are spawned, stopped and restarted by RPC handlers  *)
(* that run at once, their tasks end by themselves, a watchdog sweeps the  *)
(* handles of tasks that ended badly, and the daemon shuts them all down.  *)
(*                                                                         *)
(* The table and the handle map are concurrent maps: a step is one         *)
(* operation on one of them.  An RPC handler and the watchdog hold the     *)
(* kernel's read lock throughout; the kernel's own shutdown takes the      *)
(* write lock.                                                             *)
(*                                                                         *)
(* Abstractions.  An entry is its state; a handle is its pid.  A loop over *)
(* the whole table or map (at shutdown) is one step.  What agents do with  *)
(* their token is open: work may heed its cancellation or not.  The        *)
(* resource tree, the chain and capabilities are left out.                 *)
(***************************************************************************)
EXTENDS Integers, FiniteSets

CONSTANTS
  Caller,        \* RPC handlers
  MaxProcesses,  \* ProcessTable.max_processes, the kernel's entry included
  WorkCodes,     \* what agents' work returns
  Suspended,     \* pids that are sent suspend messages
  MaxCalls       \* bound on the calls the daemon gets, and so on pids

ASSUME SupervisorAssumption ==
  /\ IsFiniteSet(Caller) /\ Caller # {}
  /\ MaxProcesses \in Nat \ {0} /\ MaxCalls \in Nat /\ WorkCodes \subseteq Int
  /\ Suspended \subseteq Nat

VARIABLES
  next,       \* ProcessTable.next_pid
  state,      \* the entries' state
  code,       \* Exited's exit code
  cancelled,  \* cancellation tokens that are cancelled
  task,       \* the tokio tasks
  ret,        \* what each task's work returned
  aborted,    \* tasks whose handle was told to abort
  handles,    \* running_agents
  pc,         \* where each caller is
  watch,      \* where the watchdog is
  calls,      \* calls made so far
  phase,      \* how far the daemon's shutdown is
  held        \* the handles shutdown_all took out of the map and waits for

vars == <<next, state, code, cancelled, task, ret, aborted, handles, pc,
          watch, calls, phase, held>>
table == <<next, state, code>>
tasks == <<cancelled, task, ret, aborted, handles>>

Pids == 1..MaxCalls
Present == {p \in Pids : state[p] # "Absent"}
Finished == {p \in Pids : task[p] \in {"done", "panicked", "aborted"}}

Idle == [at |-> "idle", pid |-> 0, then |-> "none"]
Resting == [at |-> "idle", todo |-> {}, pid |-> 0, code |-> 0]

Init ==
  /\ next = 1
  /\ state = [p \in Pids |-> "Absent"]
  /\ code = [p \in Pids |-> 0]
  /\ cancelled = {} /\ aborted = {} /\ handles = {} /\ held = {}
  /\ task = [p \in Pids |-> "none"]
  /\ ret = [p \in Pids |-> 0]
  /\ pc = [c \in Caller |-> Idle]
  /\ watch = Resting
  /\ calls = 0
  /\ phase = "up"

-----------------------------------------------------------------------------
(* The process table. *)

\* ProcessState::can_transition_to.
CanTransition(from, to) ==
  \/ from = "Starting" /\ to \in {"Running", "Exited"}
  \/ from = "Running" /\ to \in {"Suspended", "Stopping", "Exited"}
  \/ from = "Suspended" /\ to \in {"Running", "Stopping", "Exited"}
  \/ from = "Stopping" /\ to = "Exited"

\* ProcessTable::update_state on each of ps: what is no valid transition is
\* refused, and every caller here ignores the refusal.
UpdateState(ps, to, c) ==
  LET moved == {p \in ps : CanTransition(state[p], to)}
  IN /\ state' = [p \in Pids |-> IF p \in moved THEN to ELSE state[p]]
     /\ code' = [p \in Pids |->
                   IF p \in moved /\ to = "Exited" THEN c ELSE code[p]]
     /\ UNCHANGED next

\* insert's check: the kernel's own entry counts.
Full == Cardinality(Present) + 1 >= MaxProcesses

Goto(c, at) == pc' = [pc EXCEPT ![c].at = at]
Done(c) == pc' = [pc EXCEPT ![c] = Idle]
At(c, at) == pc[c].at = at

\* A call gets the kernel's read lock.  The handlers look at no kernel state: a
\* call that waited behind the shutdown's write lock is served after it.
Called(c) ==
  /\ At(c, "idle")
  /\ calls < MaxCalls
  /\ calls' = calls + 1

-----------------------------------------------------------------------------
(* Spawning. *)

\* agent.spawn: spawn_and_run, up to insert's check of the capacity.  An
\* error answers the call.
SpawnAndRun(c) ==
  /\ Called(c)
  /\ ~Full
  /\ pc' = [pc EXCEPT ![c] = [at |-> "insert", pid |-> 0, then |-> "task"]]
  /\ UNCHANGED <<table, tasks, watch, phase, held>>

\* Mutant of AllocatePid: the pid is read and bumped in two steps that overlap.
AllocatePidStale(c) ==
  /\ At(c, "insert")
  /\ next' = IF \E d \in Caller \ {c} : At(d, "insert") THEN next ELSE next + 1
  /\ pc' = [pc EXCEPT ![c].at = "entry", ![c].pid = next]
  /\ UNCHANGED <<state, code, tasks, watch, calls, phase, held>>

\* insert, after the check: the pid is taken.
AllocatePid(c) ==
  /\ At(c, "insert")
  /\ next' = next + 1
  /\ pc' = [pc EXCEPT ![c].at = "entry", ![c].pid = next]
  /\ UNCHANGED <<state, code, tasks, watch, calls, phase, held>>

\* The entry goes in, once the chain has its event.
Insert(c) ==
  /\ At(c, "entry")
  /\ state' = [state EXCEPT ![pc[c].pid] = "Starting"]
  /\ Goto(c, "running")
  /\ UNCHANGED <<next, code, tasks, watch, calls, phase, held>>

\* The entry becomes Running: in spawn_and_run before the task is there, after
\* a restart (daemon.rs) with no task to follow.
SetRunning(c) ==
  /\ At(c, "running")
  /\ UpdateState({pc[c].pid}, "Running", 0)
  /\ IF pc[c].then = "task" THEN Goto(c, "task") ELSE Done(c)
  /\ UNCHANGED <<tasks, watch, calls, phase, held>>

\* tokio::spawn: the task runs from here on, whatever became of the entry.
StartTask(c) ==
  /\ At(c, "task")
  /\ task' = [task EXCEPT ![pc[c].pid] = "working"]
  /\ Goto(c, "handle")
  /\ UNCHANGED <<table, cancelled, ret, aborted, handles, watch, calls, phase, held>>

\* Mutant of InsertHandle: a handle whose task is already over is not kept.
InsertHandleIfLive(c) ==
  /\ At(c, "handle")
  /\ handles' = handles \cup ({pc[c].pid} \ Finished)
  /\ Done(c)
  /\ UNCHANGED <<table, cancelled, task, ret, aborted, watch, calls, phase, held>>

\* running_agents.insert: the task may be over by now.
InsertHandle(c) ==
  /\ At(c, "handle")
  /\ handles' = handles \cup {pc[c].pid}
  /\ Done(c)
  /\ UNCHANGED <<table, cancelled, task, ret, aborted, watch, calls, phase, held>>

-----------------------------------------------------------------------------
(* The agents' tasks. *)

\* The work returns an exit code, which the task records.
WorkReturns(p, c) ==
  /\ task[p] = "working"
  /\ task' = [task EXCEPT ![p] = "ending"]
  /\ ret' = [ret EXCEPT ![p] = c]
  /\ UpdateState({p}, "Exited", c)
  /\ UNCHANGED <<cancelled, aborted, handles, pc, watch, calls, phase, held>>

\* The agent's own loop (agent_loop.rs) parks on a suspend message and comes
\* back on a resume message.  It parks as well when its entry is past Running;
\* the table refuses that state, and nothing of this model changes.
Suspend(p) ==
  /\ p \in Suspended
  /\ task[p] = "working" /\ state[p] = "Running"
  /\ UpdateState({p}, "Suspended", 0)
  /\ UNCHANGED <<tasks, pc, watch, calls, phase, held>>
Resume(p) ==
  /\ task[p] = "working" /\ state[p] = "Suspended"
  /\ UpdateState({p}, "Running", 0)
  /\ UNCHANGED <<tasks, pc, watch, calls, phase, held>>

\* The task takes its handle out of the map and is over.
TaskEnds(p) ==
  /\ task[p] = "ending"
  /\ task' = [task EXCEPT ![p] = "done"]
  /\ handles' = handles \ {p}
  /\ UNCHANGED <<table, cancelled, ret, aborted, pc, watch, calls, phase, held>>

\* The work panics, or an abort reaches it at its next await.
WorkPanics(p) ==
  /\ task[p] = "working"
  /\ task' = [task EXCEPT ![p] = "panicked"]
  /\ UNCHANGED <<table, cancelled, ret, aborted, handles, pc, watch, calls, phase, held>>
WorkAborted(p) ==
  /\ task[p] = "working" /\ p \in aborted
  /\ task' = [task EXCEPT ![p] = "aborted"]
  /\ UNCHANGED <<table, cancelled, ret, aborted, handles, pc, watch, calls, phase, held>>

-----------------------------------------------------------------------------
(* Stopping and restarting. *)

\* stop: nothing is done to a process that already exited.
Stop(c, p, graceful) ==
  /\ Called(c)
  /\ p \in Present /\ state[p] # "Exited"
  /\ pc' = [pc EXCEPT ![c] = [at |-> IF graceful THEN "stopping" ELSE "forceCancel",
                              pid |-> p, then |-> "none"]]
  /\ UNCHANGED <<table, tasks, watch, phase, held>>

\* Graceful: Stopping, then the token.
MarkStopping(c) ==
  /\ At(c, "stopping")
  /\ UpdateState({pc[c].pid}, "Stopping", 0)
  /\ Goto(c, "cancel")
  /\ UNCHANGED <<tasks, watch, calls, phase, held>>

Cancel(c) ==
  /\ At(c, "cancel")
  /\ cancelled' = cancelled \cup {pc[c].pid}
  /\ IF pc[c].then = "none" THEN Done(c) ELSE Goto(c, pc[c].then)
  /\ UNCHANGED <<table, task, ret, aborted, handles, watch, calls, phase, held>>

\* Forced: the token, Exited(-1), then the handle, if it is in the map.
ForceCancel(c) ==
  /\ At(c, "forceCancel")
  /\ cancelled' = cancelled \cup {pc[c].pid}
  /\ Goto(c, "forceExit")
  /\ UNCHANGED <<table, task, ret, aborted, handles, watch, calls, phase, held>>

ForceExit(c) ==
  /\ At(c, "forceExit")
  /\ UpdateState({pc[c].pid}, "Exited", -1)
  /\ Goto(c, "forceAbort")
  /\ UNCHANGED <<tasks, watch, calls, phase, held>>

\* Mutant of ForceAbort: the handle is dropped and not aborted.
ForceAbortDrops(c) ==
  /\ At(c, "forceAbort")
  /\ handles' = handles \ {pc[c].pid}
  /\ Done(c)
  /\ UNCHANGED <<table, cancelled, task, ret, aborted, watch, calls, phase, held>>

ForceAbort(c) ==
  /\ At(c, "forceAbort")
  /\ aborted' = aborted \cup ({pc[c].pid} \cap handles)
  /\ handles' = handles \ {pc[c].pid}
  /\ Done(c)
  /\ UNCHANGED <<table, cancelled, task, ret, watch, calls, phase, held>>

\* restart: the entry as first read decides whether Exited(0) is recorded.
Restart(c, p) ==
  /\ Called(c)
  /\ p \in Present
  /\ pc' = [pc EXCEPT ![c] =
              [at |-> "restart", pid |-> p,
               then |-> IF state[p] = "Exited" THEN "respawn" ELSE "exitZero"]]
  /\ UNCHANGED <<table, tasks, watch, phase, held>>

\* Mutant of RestartStops: a process that is Stopping is not cancelled again.
RestartStopsOnce(c) ==
  /\ At(c, "restart")
  /\ Goto(c, IF state[pc[c].pid] \in {"Stopping", "Exited"} THEN pc[c].then ELSE "stopping")
  /\ UNCHANGED <<table, tasks, watch, calls, phase, held>>

\* Its call of stop(pid, true), which reads the entry again.
RestartStops(c) ==
  /\ At(c, "restart")
  /\ Goto(c, IF state[pc[c].pid] = "Exited" THEN pc[c].then ELSE "stopping")
  /\ UNCHANGED <<table, tasks, watch, calls, phase, held>>

ExitZero(c) ==
  /\ At(c, "exitZero")
  /\ UpdateState({pc[c].pid}, "Exited", 0)
  /\ Goto(c, "respawn")
  /\ UNCHANGED <<tasks, watch, calls, phase, held>>

\* The replacement's spawn: a full table leaves the agent stopped for good.
Respawn(c) ==
  /\ At(c, "respawn")
  /\ IF Full THEN Done(c)
             ELSE pc' = [pc EXCEPT ![c] = [at |-> "insert", pid |-> 0, then |-> "none"]]
  /\ UNCHANGED <<table, tasks, watch, calls, phase, held>>

-----------------------------------------------------------------------------
(* The watchdog: watchdog_sweep, every five seconds until the shutdown. *)

\* It first collects the handles that are finished.
SweepBegin ==
  /\ watch.at = "idle" /\ phase = "up"
  /\ handles \cap Finished # {}
  /\ watch' = [Resting EXCEPT !.at = "sweep", !.todo = handles \cap Finished]
  /\ UNCHANGED <<table, tasks, pc, calls, phase, held>>

\* Mutant of SweepTake: a panic is not told apart.
SweepTakeNoPanic(p) ==
  /\ watch.at = "sweep" /\ p \in watch.todo
  /\ handles' = handles \ {p}
  /\ watch' = IF p \in handles
              THEN [at |-> "look", todo |-> watch.todo \ {p}, pid |-> p, code |-> -2]
              ELSE [watch EXCEPT !.todo = @ \ {p}]
  /\ UNCHANGED <<table, cancelled, task, ret, aborted, pc, calls, phase, held>>

\* Then each is removed, unless someone else has, and its join result read.
\* A task that returned has recorded its own code, and -2 stands for it here.
SweepTake(p) ==
  /\ watch.at = "sweep" /\ p \in watch.todo
  /\ handles' = handles \ {p}
  /\ watch' = IF p \in handles
              THEN [at |-> "look", todo |-> watch.todo \ {p}, pid |-> p,
                    code |-> IF task[p] = "panicked" THEN -3 ELSE -2]
              ELSE [watch EXCEPT !.todo = @ \ {p}]
  /\ UNCHANGED <<table, cancelled, task, ret, aborted, pc, calls, phase, held>>

\* Only an entry that still reads Running is brought to Exited.
SweepLook ==
  /\ watch.at = "look"
  /\ watch' = [watch EXCEPT !.at = IF state[watch.pid] = "Running"
                                   THEN "reap" ELSE "sweep"]
  /\ UNCHANGED <<table, tasks, pc, calls, phase, held>>

SweepReap ==
  /\ watch.at = "reap"
  /\ UpdateState({watch.pid}, "Exited", watch.code)
  /\ watch' = [watch EXCEPT !.at = "sweep"]
  /\ UNCHANGED <<tasks, pc, calls, phase, held>>

SweepEnd ==
  /\ watch.at = "sweep" /\ watch.todo = {}
  /\ watch' = Resting
  /\ UNCHANGED <<table, tasks, pc, calls, phase, held>>

-----------------------------------------------------------------------------
(* The daemon's shutdown: shutdown_all within its own step, then the        *)
(* kernel's shutdown.                                                       *)

\* Every token in the table as listed now.
CancelAll ==
  /\ phase = "up"
  /\ phase' = "drain"
  /\ cancelled' = cancelled \cup Present
  /\ UNCHANGED <<table, task, ret, aborted, handles, pc, watch, calls, held>>

\* Every handle in the map now; with none there is nothing to wait for.
Drain ==
  /\ phase = "drain"
  /\ phase' = IF handles = {} THEN "kernel" ELSE "wait"
  /\ held' = handles
  /\ handles' = {}
  /\ UNCHANGED <<table, cancelled, task, ret, aborted, pc, watch, calls>>

\* All of them end in time, or the step around shutdown_all runs out first and
\* drops the wait.  Dropping a JoinHandle aborts nothing: its task is detached
\* and goes on.
WaitOver ==
  /\ phase = "wait"
  /\ phase' = "kernel"
  /\ held' = {}
  /\ UNCHANGED <<table, tasks, pc, watch, calls>>

\* The timeout: handles that came into the map since are aborted; with none,
\* all that have not exited are marked so.
TimedOut ==
  /\ phase = "wait" /\ ~(held \subseteq Finished)
  /\ phase' = "kernel"
  /\ aborted' = aborted \cup handles
  /\ handles' = {} /\ held' = {}
  /\ UpdateState(IF handles = {} THEN Pids ELSE handles, "Exited", -1)
  /\ UNCHANGED <<cancelled, task, ret, pc, watch, calls>>

\* Kernel::shutdown, under the write lock: abort_all, then every entry's token
\* and Exited(0).
KernelDown ==
  /\ phase = "kernel"
  /\ watch.at = "idle" /\ \A c \in Caller : At(c, "idle")
  /\ phase' = "down"
  /\ aborted' = aborted \cup handles
  /\ handles' = {}
  /\ cancelled' = cancelled \cup Present
  /\ UpdateState(Pids, "Exited", 0)
  /\ UNCHANGED <<task, ret, pc, watch, calls, held>>

-----------------------------------------------------------------------------
Serve(c) ==
  \/ AllocatePid(c) \/ Insert(c) \/ SetRunning(c) \/ StartTask(c) \/ InsertHandle(c)
  \/ MarkStopping(c) \/ Cancel(c)
  \/ ForceCancel(c) \/ ForceExit(c) \/ ForceAbort(c)
  \/ RestartStops(c) \/ ExitZero(c) \/ Respawn(c)

Call(c) ==
  \/ SpawnAndRun(c)
  \/ \E p \in Pids : Restart(c, p) \/ \E graceful \in BOOLEAN : Stop(c, p, graceful)

Task(p) ==
  \/ \E c \in WorkCodes : WorkReturns(p, c)
  \/ Suspend(p) \/ Resume(p)
  \/ TaskEnds(p) \/ WorkPanics(p) \/ WorkAborted(p)

Watchdog ==
  SweepBegin \/ SweepLook \/ SweepReap \/ SweepEnd \/ \E p \in Pids : SweepTake(p)

Shutdown == CancelAll \/ Drain \/ WaitOver \/ TimedOut \/ KernelDown

Next ==
  \/ \E c \in Caller : Call(c) \/ Serve(c)
  \/ \E p \in Pids : Task(p)
  \/ Watchdog
  \/ Shutdown

Spec == Init /\ [][Next]_vars

\* What the runtime gives: a handler that was called goes on, the watchdog
\* sweeps on, and a shutdown once begun goes on.  Nothing is assumed of the
\* agents' tasks, nor that a call ever comes.
FairSpec ==
  /\ Spec
  /\ \A c \in Caller : WF_vars(Serve(c))
  /\ WF_vars(Watchdog)
  /\ WF_vars(Drain \/ WaitOver \/ TimedOut \/ KernelDown)

-----------------------------------------------------------------------------
(* Properties. *)

CallerPoints ==
  {"idle", "insert", "entry", "running", "task", "handle", "stopping", "cancel",
   "forceCancel", "forceExit", "forceAbort", "restart", "exitZero", "respawn"}

\* The variables have their types, and every pid in the table was handed out.
TypeOK ==
  /\ next \in 1..(MaxCalls + 1)
  /\ Present \subseteq 1..(next - 1)
  /\ state \in [Pids -> {"Absent", "Starting", "Running", "Suspended", "Stopping", "Exited"}]
  /\ code \in [Pids -> WorkCodes \cup {0, -1, -2, -3}]
  /\ cancelled \subseteq Pids /\ aborted \subseteq Pids
  /\ handles \subseteq Pids /\ held \subseteq Pids
  /\ task \in [Pids -> {"none", "working", "ending", "done", "panicked", "aborted"}]
  /\ ret \in [Pids -> WorkCodes \cup {0}]
  /\ pc \in [Caller -> [at : CallerPoints, pid : 0..MaxCalls,
                        then : {"none", "task", "exitZero", "respawn"}]]
  /\ watch \in [at : {"idle", "sweep", "look", "reap"}, todo : SUBSET Pids,
                pid : 0..MaxCalls, code : {0, -2, -3}]
  /\ calls \in 0..MaxCalls
  /\ phase \in {"up", "drain", "wait", "kernel", "down"}

\* A task at work that was not told to abort can still be reached, although the
\* task itself, a forced stop, the watchdog and the shutdown all take handles
\* out: its handle is in running_agents, or spawn_and_run is about to put it
\* there, or shutdown_all waits for it.  Only the end of that wait lets a task
\* go (supervisor.rs says there that the dropped handles abort their tasks;
\* they do not), and such a task has its token cancelled before the kernel is
\* down.
Tracked ==
  \A p \in Pids : task[p] = "working" /\ p \notin aborted =>
    \/ p \in handles \cup held
    \/ \E c \in Caller : At(c, "handle") /\ pc[c].pid = p
    \/ phase = "kernel"
    \/ phase = "down" /\ p \in cancelled

\* A process that is shown exited while its work still runs has had its token
\* cancelled or its task aborted: work that heeds its token ends.  The one
\* exception is an agent spawned while shutdown_all waits: its timeout may mark
\* it exited, and its token is cancelled only by the kernel's shutdown.
ExitedIsTold ==
  \A p \in Pids : state[p] = "Exited" /\ task[p] = "working" =>
    p \in cancelled \cup aborted \/ phase = "kernel"

\* Until the shutdown, an exit code is the agent's own: what its work returned,
\* or -3 for a panic, if nobody stopped or restarted it.  The watchdog never
\* puts its -2 over it.
CodeIsHonest ==
  phase = "up" =>
    \A p \in Pids \ cancelled :
      /\ task[p] \in {"ending", "done"} => state[p] = "Exited" /\ code[p] = ret[p]
      /\ task[p] = "panicked" /\ state[p] = "Exited" => code[p] = -3

\* No process whose work panicked stays Running while the kernel is up: the
\* watchdog's sweeps, or the shutdown, get to the end of them again and again.
\* (A panic after a graceful stop, or while suspended, is another matter: the
\* sweep drops the handle and leaves the entry Stopping, or Suspended, for good.)
RunningEnds ==
  []<>(phase = "down" \/ ~ \E p \in Pids : state[p] = "Running" /\ task[p] = "panicked")

==============================================================================
