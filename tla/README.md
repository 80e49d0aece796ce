# A TLA+ model of WeftOS workload hosting and agent supervision

WeftOS is a Rust workspace: an agent runtime (`clawft-*`), a kernel
(`clawft-kernel`) and a daemon (`clawft-weave`). This directory holds TLA+ modules
for the parts of the kernel where most of its concurrency and failure handling is:
*workload hosting*, by which a controller places packages ("cogs") on nodes, and a
node loads, starts, supervises, stops, revokes and, after a daemon restart,
restores them; the signed messages between the two; and the kernel's own agents. Line references are in `PROJECT.json` ("map"); paths below are
relative to `crates/clawft-kernel/src/` unless they say otherwise.

    tlc -config WorkloadHost.cfg MCWorkloadHost      # one run of the table below
    tlapm HostJournalProofs.tla                      # the proofs, one module at a time

## 1. Inventory

### Node side

**Instance lifecycle** (`workload_ctl/lifecycle.rs`). Sixteen states, a table of
legal steps, and a restart policy (at most *n* restarts in a window, exponential
backoff). Pure functions over a small record; the host and the controller both keep
such a record per instance. Hard: a window and a backoff measured on a wall clock
that can be stepped; a table that must have every step its callers need. Correct
when the budget and the spacing hold and `Failed` is left only by an operator.

**Host journal** (`workload_ctl/host_journal.rs`). State: entries in memory (place
body, decision id, intent, failed restores), a generation number, a signed file, and
the newest generation on the node's chain. Operations: `record`, `set_desired`,
`set_failures`, `remove` (each rewrites the file, then appends the generation to the
chain), `open`, `set_chain`, `restore_instances`. Hard: the file is durable at once
and the chain only at a clean shutdown; a file may be lost, damaged, edited or rolled
back while the daemon is down; writes fail; the restore itself writes. Correct when a
node never refuses its own file as a replay, an old copy never starts what was
stopped since, and a crash loses nothing the operator was told.

**Placement service** (`workload_ctl/host_service.rs`, `host_instances.rs`). State:
the instance map (under one async mutex), the set of decisions in flight, the bounded
list of departed ids. Operations: PLACE, LOAD, START, STOP, UNLOAD, STATUS (and
DESCRIBE, LOGS, which change nothing). PLACE is a sequence of awaits, with a different
undo after each. Hard: each request is a task, the map's lock is held for some awaits
and not for others. Correct when every failure leaves nothing behind, a listed
instance is within reach of the verbs, STATUS settles a decision, and a departure is
reported.

**Supervisor and lease** (`workload_ctl/host_supervise.rs`,
`workload_kind/health.rs`). One periodic pass: expire the controller lease, poll the
live instances outside the lock, apply each verdict under it, then stop and start
outside it again. Hard: verbs between any two of those. Correct when a stopped
instance stays stopped and a dead one is restarted or given up.

**Forced unload on revocation** (`workload_ctl/host_revoke.rs`,
`revocation/subjects.rs`, and `crates/clawft-weave/src/workload_revoke_rpc.rs`). A
list with a generation, a sweep that repeats, and a second look by `place` itself.
Hard: a revocation that lands while an instance is between the gate and the map.
Correct when a revoked instance is gone after a sweep and goes in the end even if
teardowns fail.

**Bus stop** (`workload_ctl/host_cogbus.rs`). The message broker asks for an instance
to be stopped: intent cleared under the lock, stop outside it.

**Adapter host and native adapter** (`workload_runtime/host.rs`, `native.rs`). What is
loaded, and what process each id has; `load`, `start`, `stop`, `unload`, `status`,
`revoke_teardown`. Two maps that are updated on either side of an await.

### How they interact

The service calls the adapter host directly, journals every change of intent through
`Journal`, and is called by four independent tasks (request handlers, supervisor loop,
revocation sweep, broker). They share the instance map, the adapter's maps, the
revocation list and the journal. The controller sees a node only through answers and
STATUS, each the end of a signed request; `HostView` is what it may rely on. A node
that hears no controller for its lease stops what it was lent, and the controller's
tick starts it again. The agents' supervisor shares nothing with hosting but the
daemon.

### Controller side and control messages

**Controller plane** (`workload_ctl/plane*.rs`). State: placement records, a
`ControllerLife` for each (state, whether it was meant to run, the order, how often it
was moved, a backoff), decisions whose answer was lost (`unsettled`), which nodes are
reachable and since when one is not, and a state file. Operations: `place`/`dispatch`
over candidates, `reconcile`, `settle_unsettled`, the verbs, and `lifecycle_tick`
(mirror what nodes list, declare nodes dead, `reschedule`, `unload_orphan`,
`rejoined`). Hard: every call may lose its request or its answer, the operator's calls
run beside the tick, what was read before an await is used after it, nodes come back,
and the controller restarts from a file that is saved at some points only. Correct when
one decision never has two copies, nothing a node holds is out of reach, what the
operator stopped is not started elsewhere, a lost instance runs again, and a replaced
copy goes when its node returns.

**Control messages** (`workload_ctl/msg.rs`). State: the node's memory of nonces
(`NonceGuard`). Operations: `CtlRequest::new`, `verify_request`, `admit`,
`verify_response`. Hard: requests late, repeated or under another envelope; handlers
that read the clock and then wait for the guard's lock; a full guard; a clock set back.
Correct when a request is let in once within its lifetime, the guard stays bounded and
frees itself, refusals are due, and a caller takes only the answer to its own request.

### Kernel processes

**Process table and agent supervisor** (`process.rs`, `supervisor.rs`, the agents' loop
in `agent_loop.rs` as far as it suspends and resumes, and the daemon's RPC and shutdown
in `crates/clawft-weave/src/daemon.rs`, `boot.rs`). State: two concurrent maps, of
entries and of task handles. Operations: `spawn_and_run`, `stop`, `restart`,
`watchdog_sweep`, `shutdown_all`, `Kernel::shutdown`. Hard: each is several operations
on the two maps with no lock around them, and tasks end by themselves in between.
Correct when no work runs out of reach, a process shown exited was told to stop, exit
codes are the agents' own, and a dead process does not stay Running.

### Not modelled

| part | state and operations | why |
|---|---|---|
| device ledger (`workload_ctl/device_owner.rs`, `host_devices.rs`) | claims and reservations; `admit`, `bind`, `refresh`, `release` | planned; read, see section 5 |
| mesh heartbeat and membership (`mesh_heartbeat.rs`, `cluster.rs`) | peer states | planned |
| cogbus broker (`crates/weftos-cogbus`) | stream ring, queues | planned |
| kernel IPC (`ipc.rs`, `a2a.rs`, `topic.rs`) | inboxes, subscriptions | planned; messages to an agent appear in `AgentSupervisor` as its choice to suspend, resume or end |
| `reliable_queue.rs`; `handle_exit` and `RestartTracker` of `supervisor.rs` | pending deliveries; restart counts | nothing outside their tests calls them |
| session framing (`workload_ctl/session.rs`), seeds, scoring of candidates | | data and formats; a request that does not arrive whole is a lost one |
| exochain, licences, governance gate | the journal's use of the chain is in `HostJournal`; a licence or gate refusal is a refusal of PLACE | their inside: formats, hashing, pure rule evaluation |
| agent runtime, channels, services, tools, learned models, GUI, voice, firmware | | I/O, numeric code, presentation |

The repository has some 775,000 lines; the mapped ones are about 3,500. The choice was
depth in the subsystems where processes, failures and restarts meet.

## 2. Modules

| module | models |
|---|---|
| `Lifecycle` | the pure operators of `lifecycle.rs`, with the code's names |
| `RestartPolicy` | one failing instance under the node's clock, driving those operators as `apply_verdict` and START do |
| `HostJournal` | the journal's operations as operators, and a specification (`JournalSpec`) that drives them by themselves |
| `WorkloadHost` | the host: extends both, conjoins the journal's operators with its own steps |
| `HostView` | the abstract node: what PLACE, STATUS and a restart promise a controller |
| `Plane` | the controller, its state file, and nodes reduced to what `HostView` shows, over calls that can be lost |
| `CtlMessages` | requests, answers and the replay guard |
| `AgentSupervisor` | process table, supervisor, watchdog, shutdown |
| `Retain` | what `retain` and `filter` do to a list, used by `Lifecycle` (restarts) and `WorkloadHost` (departed ids) |
| `RetainProofs` | what `Retain` returns |
| `RestartPolicyProofs` | theorems about `RestartPolicy`; extends `RetainProofs` |
| `HostJournalProofs` | theorems about `JournalSpec` |
| `WorkloadHostProofs` | theorems about `WorkloadHost` that need no condition on its constants; extends `HostJournalProofs` |
| `WorkloadHostWholeProofs` | those that do, and the two refinements; extends `WorkloadHostProofs` |
| `PlaneProofs`, `CtlMessagesProofs`, `AgentSupervisorProofs` | theorems about those modules |
| `MCRestartPolicy`, `MCHostJournal`, `MCWorkloadHost`, `MCPlane`, `MCCtlMessages` | constants for TLC |

**Steps.** A step of `WorkloadHost` is the code between two awaits that another task
can see: a section under the map's lock, or one adapter call. The tasks' program
counters are `place[d]`, `unloading`, `sup`, `bus`, `enf[e]` and `reader`. START and
STOP hold the lock throughout and touch nothing others can see half-done, so each is
one step; UNLOAD also holds it, but the adapter forgets the id before the directory is
removed and `loaded` after, which a concurrent PLACE can see, so it is two
(`UnloadBegin`, `UnloadEnd`). An adapter's `unload` is two steps everywhere for the
same reason. A save is two steps: the file, then the chain event. Where the code takes
the departed list and the instance map one after the other, so does the model: a
placement takes its id off the list (`PlaceLease`, then "leased") and lists it once it
has the map's lock (`PlaceList`); a teardown removes the instance (`Forget`, then
"noting") and notes the departure later (`NoteForgotten`); a roll back unloads
(`PlaceRolledBack`) and then takes the instance off the map (`PlaceUnlist`).

In `Plane` a call is the node's step and, apart from it, the controller's step that uses
the answer; `disp[t]`, `tick`, `verb` and `settling` are the controller's tasks. In `CtlMessages` a
handler checks a request at one clock reading (`Verify`) and asks the guard later
(`Admit`). In `AgentSupervisor` a step is one operation on one of the two maps, the pid
counter apart (`AllocatePid`, `Insert`); a loop over a whole map at shutdown is one step.
RPC handlers and the watchdog hold the kernel's read lock, so `KernelDown`, which takes
the write lock, waits for them; a handler checks no state of the kernel, so calls are
served after it as before.

**Abstractions of the node.** Node-derived instance ids mean that package, arguments and
owner are functions of the id; `Continuous` and `Local` are sets of ids. The checks a
PLACE passes before it loads are one refusal, permanent or not, because only that matters
to a later restore. `token` stands for the ingest and bus registrations, which are turned
on and off together, `bound` for the devices. Signatures are the file's `kind`. Time is left to `RestartPolicy`:
in `WorkloadHost` any eligible instance may be due, any number of the remembered
restarts may still be in the window, and `silent` is the lease's condition. A daemon
stop kills the children and empties memory; the revocation list and the file persist.
Adoption of processes that outlive the daemon is not modelled.

**Abstractions of the controller.** One order, so an instance is known by its node;
`holder_of` and `supersede_lost`, which look for two ids of one order on a node, find
nothing. Every reachable node suits the order, and any may score best. Whether
`dead_after` or a backoff has passed is nondeterministic; whether membership holds the
node healthy, which keeps `node_dead` from taking it for dead, is decided outside
(`vouched`), and so is whether the package directory is still there (`packaged`). A late
PLACE is handled when the node comes to it; other requests when they are sent, or never.
The nodes' steps are those of `HostView` made coarser (listing and keeping are one step),
but for the fetch: a node enters a PLACE as in flight and then looks for the package in
its own store first (`cached`, which starts as `Cached` and grows with each fetch), so a
PLACE whose connection is gone loads if the store has it and is refused if not. A refusal
of START or UNLOAD other than "no such instance" is an answer that changes nothing
(`Call`).

**Abstractions of messages and agents.** A request is its nonce; signature and addressee
checks are of data the model does not have, and an answer under another method counts as
none. An agent is its entry and its task; what it does with its token is open.

**Faults.** `Faults` names what may fail: the launch of a process, a stop, a directory
removal, the device, bus or ingest lease (three failures, each with its own undo), the
checks before the load; "deny" lets governance deny an unload. `WriteMayFail` lets
any save fail before or after the rename. `CrashPoints` says in which phases the daemon
may crash; `FileEvents` what may happen to the file while it is down.

In `Plane` the network may be cut and healed, lose a request or an answer; nodes refuse,
reboot and lose what they held; the controller crashes anywhere.

**History variables** (`intent`, `newest`, `newestSaid`, `external`, `faulted`,
`forked`, `backup`, `answered`, `swept`, `unfinished`; `cutOff`, `stoppedAt`, `stopSeen`,
`late`; `peak`, `admitted`, `again`, `served`, `misled`; `ret`, `calls`) record what was said or done for the
properties or bound a run; no action's effect on the system depends on one, but for
`backup`, the copy that a roll back of the file puts on disk.

## 3. Runs

Passing runs:

| run | instance | what it shows |
|---|---|---|
| `restart_policy` | 3 restarts in a window of 6, a clock of 10 readings, one step back, one operator start | `BudgetHolds`: no window holds more than `max` restarts, even when the clock steps back; `Ascending`: the list stays in order, on which `restart_decision` relies; `Spaced`: the backoff is kept; `FailedIsHeld` |
| `journal` | 2 instances, generations 0..3, 3 boots, one file event of each kind, failing writes, boots with and without a chain, crashes while serving and in a restore | `OwnFileIsNoReplay`, `NoStaleStart`; `IntentOnDisk`: the file has what the operator was told, but that a crash inside a restore may lose a start; never a stop |
| `host_place` | 1 instance, 2 decisions; launches, leases, checks, directory removals that fail and unloads that are denied; 2 verbs, a STATUS | `StatusSettles`; `GoneIsTold`: what was answered for and is gone is on the departed list, but in the two windows between the list and the map; `NothingLeftBehind`, but for an adapter entry or journal entry whose own unload failed (`unfinished`) |
| `host_tasks` | 1 instance; 2 verbs, a bus stop, an exit, lease expiry, failing stops, launches, leases and removals, unloads denied; verbs may overlap the placement | `ListedIsWhole`: in whatever order the tasks run, only a failed unload leaves a listed instance that UNLOAD cannot remove |
| `host_restart` | 3 boots, crashes while serving and in a restore and clean stops, 3 verbs, an exit, lease expiry, restores that fail | `StopHolds`: what the operator stopped is not meant to run, before or after a restart, unless a new request for it is being handled; `NothingLeftBehind`, the retry limit included; the refinements `ImplementsView` and `UsesJournal` |
| `host_live` | fair scheduling; a verb, an exit, a revocation and its lifting, failing launches and removals | `RevokedIsGone`, `GoneIsTold`; `PlaceSettles`, `RevokedGoes`, `DeathIsTreated` |
| `plane` | 2 nodes, one with the package in its store; a place, a STOP or an UNLOAD, a settle, a cut, a lost or late request or a lost answer, the package directory removed, a controller crash | `OnePerDecision`: one decision is on one node, unless its request came after the STATUS that settled it; `StaysManageable`: an instance loses its record only to an answer that it has made out of date; `StoppedNotMoved` |
| `plane_live` | 2 nodes, fair ticks; a place, a cut, a refusal, a node's reboot, a node that membership holds healthy for a time | `NotPlacedAgain`, `OrphanGoes`, `Recovers` |
| `ctl` | 2 requests, 2 handlers, room for 1 nonce, a clock set back once, one restart, one change of policy, lifetimes within and over the limit | `ServedOnce`, `GuardFrees`, `OwnAnswer`, `RefusalIsDue` |
| `agents` | 2 RPC handlers, 3 calls, room for 2 agents, fair handlers, watchdog and shutdown | `Tracked`, `ExitedIsTold`, `CodeIsHonest`, `RunningEnds`; calls are served after the shutdown too |

**Refinement.** `ImplementsView` says that `WorkloadHost`, seen through its in-flight set,
its instance map, its journal and its departed list, is a `HostView`: a decision is
shown in flight until it is held or over, an instance goes only with a word in the
departed list or with a restart (a new decision for the id may take that word back: `Reclaim`), and a restart brings back what was kept, under its old
decision, before the node serves. That is what `reconcile` and `mirror_states` assume of
a node. `UsesJournal` says that the host drives its journal as `JournalSpec` does, so
that what is proved of `JournalSpec` holds of the host. They need the run's
conditions: no bus stop (it does not write the journal), no
revocation (its teardown drops an instance whose placement is still in flight), no
overlap of requests about one instance, no failing unload.

*Why the bounds are enough.* Every step of the host concerns one instance id, and the
tasks that share it (a placement and its successor, a verb, the supervisor, the
sweep, the broker, a reader) are all present for that id. Two decisions are what it
takes for one placement to follow or meet another. One exit with `MissLimit = 1` and
`MaxRestarts = 1` reaches a restart, a failed restart, the backoff
branch and an exhausted budget. Three boots are a first start, a restore, and a restore
of what a restore wrote; `MaxRestoreTries = 2` gives a retry and a drop. Four
generations let the journal run out; `MaxGeneration = 20` in the host's runs is never
reached. Two nodes are a place and a replacement, and the replacement's return to the
first; decisions nobody refers to any more are used again, so that six suffice. The
events of a `Plane` run are at most one of each kind (`MCPlane`), so that any two kinds
the run has can meet. The largest runs are `plane` (3.0 million states), `host_place` (1.8),
`host_tasks` (1.0) and `host_restart` (0.8). With one nonce of room the guard of `ctl` is full after one request, and
two handlers are what overlap takes. Three calls with room for two agents reach a full
table, a restart that finds it full, and an overshoot. Each of the passing properties
has a mutant of the code that breaks it at these bounds (`PROJECT.json`, "mutants").

*Symmetry* is used on decisions in `host_place`, on instances in `journal`, and on
requests and handlers in `ctl`, in safety runs only.

*Deadlock* is not checked in the journal's, the host's and the agents' runs: events are
budgeted, so a run ends in a state in which nothing is left to happen. It is checked in
`plane`, `plane_live` and `ctl`.

*Overlap.* `Overlap = FALSE` says that whoever controls an instance sends one request
about it at a time. The host does not enforce it, and some properties need it (section
5); `host_tasks` and no other passing run is without it.

*Fairness.* `host_live`: weak fairness of each handler, of the second halves of a
save, an UNLOAD and a revocation, of the sweep and of the supervisor: tokio polls a
ready task, its mutex is handed over in order, and both loops are on timers. Strong
fairness of `Due(i)` (an eligible instance is chosen by a pass again and again: in the
code it is due once its poll interval has passed) and of `ActOnMiss` (the backoff is
capped, so a poll that finds it over comes). `plane_live`: ticks, dispatches and the ends
of calls go on, for a timer drives the first and a timeout ends the last; nodes come to
the requests they have; backoffs end; `dead_after` passes for a node that stays down,
strongly fair because it passes between two ticks. That is the clock alone: nothing is
assumed of membership, and `Recovers` excepts a node it goes on holding healthy. `agents`: handlers, watchdog and a
shutdown once begun go on; nothing is assumed of the agents' tasks. Nowhere is anything
assumed of operators, processes, networks or the broker.

Runs expected to fail, each a statement of a comment in the code:

| run | property | what happens |
|---|---|---|
| `stopped_moved` | `StoppedNotMoved` | `rejoined` sets a Lost instance Running because its node lists it, without looking whether it is stopped there; if the node is lost again before the next mirror, the instance the operator stopped counts as running and is started on another node |
| `third_copy` | `NotPlacedAgain` | `reschedule` saves the replacement, then marks the old record, which is saved at the end of the tick; a controller that crashes in between finds the old record Lost and places the instance again |

## 4. Proofs

Every theorem below is for every set of instances, decisions, nodes, requests, handlers
and processes and every bound, under the hypotheses its row gives.

| theorem | states | hypotheses |
|---|---|---|
| **`RetainProofs`**, **`RestartPolicyProofs`** | | |
| `RetainKeeps` | `Retain` keeps exactly the members, in order, and never lengthens a list | |
| `TypeCorrect`, `BudgetIsKept` | `[]TypeOK`, `[]BudgetHolds`, whatever the clock does | |
| `RestartsAscend` | `[]Ascending` | the window is not empty |
| `RestartsAreSpaced` | `[]Spaced` | the window is not empty; at most 22 restarts (the code stops doubling after 20) |
| `FailedHeld` | `FailedIsHeld`, an action property | |
| **`HostJournalProofs`** | | |
| `JournalTypeCorrect`, `OwnFileAccepted`, `NoStaleStartHolds` | `[]JournalTypeOK`, `[]OwnFileIsNoReplay`, `[]NoStaleStart` | |
| `IntentKept` | `[]IntentOnDisk` | |
| `StopsAreKept` | `[]StopSaid`: nothing the operator was told is stopped is wanted by memory, by the node's own file or by the entry a restore is at, unless a save was lost | |
| **`WorkloadHostProofs`** | | |
| `TypeCorrect`, `StatusIsSettled`, `HostFileAccepted` | `[]TypeOK`, `[]StatusSettles`, `[]OwnFileIsNoReplay` of the host | |
| **`WorkloadHostWholeProofs`** | | |
| `RevokedInstancesGone` | `[]RevokedIsGone` | `OneAtATime` |
| `NothingIsLeft` | `[]NothingLeftBehind` | `NoneRevoked` |
| `DeparturesAreTold` | `[]GoneIsTold` | `NoneRevoked`, `RoomForAll` |
| `HostUsesJournal` | the refinement `UsesJournal` | `NoBusStops` |
| `HostStartsNothingStale`, `StopsHold` | `[]NoStaleStart`, `[]StopHolds` of the host | `NoBusStops` |
| `HostKeepsIntent` | `[]IntentOnDisk` of the host | `NoBusStops` |
| `HostImplementsView` | the refinement `ImplementsView` | `NoBusStops`, `RoomForAll`; `[]~faulted` (no save is lost) |
| **`PlaneProofs`** | | |
| `OneCopyPerDecision` | `[]OnePerDecision` | |
| `TypeCorrect` | `[]TypeOK` | fresh decision ids do not run out |
| `LostOnlyByStaleAnswer` | `StaysManageable`, an action property: a step after which an instance is not managed found it so, or used an answer that said its node does not hold it | |
| `ReplacedOnce` | `NotPlacedAgain`, an action property | one order at most, no crash of the controller |
| **`CtlMessagesProofs`** | | |
| `ServedOnceHolds`, `GuardBounded`, `GuardFreesHolds`, `OwnAnswerHolds` | `[]ServedOnce`, `[]Bounded`, `[]GuardFrees`, `[]OwnAnswer` | |
| `RefusalIsDueHolds` | `RefusalIsDue`, an action property | |
| **`AgentSupervisorProofs`** | | |
| `TypeCorrect`, `TasksTracked`, `ExitsAreTold`, `CodesAreHonest` | `[]TypeOK`, `[]Tracked`, `[]ExitedIsTold`, `[]CodeIsHonest` | |

The host's hypotheses are conditions on the constants. `OneAtATime`: requests about one
instance do not overlap, an unload neither fails nor is denied, no revocation is lifted.
`NoneRevoked`: and nothing is revoked. `NoBusStops`: and the broker stops nothing.
`RoomForAll`: the departed list has a place for every instance (256 in the code).
Section 5 says for each what happens without it. Sweeps, supervision, the lease,
failing launches, stops, leases and checks, crashes anywhere and restores are in all of
them. Several of the conditions leave out what the code has no answer to, so the
theorems say how far its promises reach, and section 5 what lies beyond.

The assumptions used are those of the modules (`HostJournalAssumption`,
`WorkloadHostAssumption`, `InstanceAssumption`, `CtlAssumption`, `PlaneAssumption`,
`SupervisorAssumption`, `RestartPolicyAssumption`): the constants' types, and that `None`
is none of the values it stands beside. TLC evaluates them in the runs.

### The arguments

*Restarts.* The code forgets: each decision drops the restarts that left the window. The
invariant `Remembered` says that what is remembered is a subsequence of what happened,
that whatever was dropped is a window older than the latest restart, and that the latest
is never dropped. A budget of what is remembered is then a budget of every window of the
history, and the last element of the pruned list is the latest restart, on which the
backoff rests. `Retain` is written by counting places because TLAPS cannot do the
induction that `SelectSeq` needs; `RetainIsSelectSeq` in `MCRestartPolicy` has TLC
compare the two.

*The journal.* `OwnFileIsNoReplay` is not inductive: that the file is not behind the
chain after a save follows from the generation being above the chain's before it, and
that survives a boot only because `set_chain` raises the generation. `JournalInv` adds
`Numbers` (how generation, chain, written-out chain and newest save stand to each other
in each phase), `Unsigned` (a file that is not the node's has generation 0, so a boot
does not take a number from it) and `Walk` (the restore visits entries the journal
holds, once each). All operations are reduced to one lemma on `Save` by showing each is
a save of a map that differs in one entry, or saves nothing (`OperationSaves`).
`NoStaleStart` needs `Fresh` on top: while generations are not used twice, a signed file
of the newest generation has the newest save's entries, and so have the entries a
restore has still to come to. `IntentOnDisk` needs `Meant`: while the daemon runs memory
honours what the operator was told, except for the entry a restore is at, whose first
save may say less (`MemorySays`); the node's own file is what memory is, or was when the
daemon stopped; and a file that is not signed says nothing (`Blank`). To honour is to list
what the operator knows of and to want nothing that was stopped, and, where a restore
cannot be cut short, to want what was started (`Honours`): a held-back start is first
saved as a stop, and a crash then leaves it so. A boot keeps `Meant` because
`OwnFileIsNoReplay` makes it take the node's own file. `StopSaid` is the half that is true
of the entry a restore is at, too.

*The host.* `IInv` is `JournalInv` and the types with what they rest on: nothing of the
host is there while the daemon is down (`AtRest`), no task is at work on an instance the
restore has still to come to (`NotAhead`), the in-flight marks are those of the handlers
at work (`MarksOK`), a decision is handled, journaled or restored only after it was sent
(`SentHandled`, `SentJournaled`; so a handler never begins twice), and what a listing
began without seeing is over (`ReaderOK`, from which `StatusSettles` follows at once). It
needs no hypothesis.

`WInv` is for `OneAtATime`: one request at a time about an instance, the restore's
included (`Alone`, `RestoreAlone`); between its load and its listing an instance is the
placement's own (`OwnOK`); a listed instance is loaded and known to the adapter unless a
task is taking it down (`MapWhole`); what was answered for and is listed is journaled
(`AnsweredOK`); enforcement has only the revoked in hand (`EnfRevoked`, `EnfOwned`). For
`RevokedIsGone` a placement the gate let through before a revocation carries an older
generation than the list has, or the list is about to get a new one (`Late`, `Dated`),
so what a sweep passed over is looked at again by its own placement (`SweptOver`).

`TInv` is for `NoneRevoked`, where no instance goes while its placement is at work: a
placement past its listing has a listed instance (`Shown`), what is not listed is loaded
by somebody or clear of adapter, host and tokens (`Cleared`), what the journal holds is
listed or still to be restored (`Tidy`, `CurShown`, `Pending`), and what is listed is
answered for or some placement's (`Known`). `NothingIsLeft` also needs that devices are
bound to what is listed or about to be (`BoundListed`). START and STOP therefore reach only what the
journal holds, which is what `HostUsesJournal` needs: every step of the host is a step
of `JournalSpec` or leaves the journal alone, and the journal's theorems carry over.
`StopHolds` adds `OInv`: an instance told stopped and wanted is one a placement shows,
and placements want what was asked for, restores what the journal wants. `GoneIsTold`
adds `GInv`: an id is on the departed list once (`Once`) and only while it is not listed
(`Away`), so the list, if it has room for every id, never drops one (a pigeonhole
argument); a placement that took it off goes on to list it (`TakenOff`), and until then
what was answered for is on the list or that placement's (`ToldOrLeased`, with `Unanswered`
and `UnloadListed`).

*The host implements `HostView`.* Two more invariants: `Mine`, a listed instance is that
of the placement at work on it or of one that is done; and `Untampered`, the node's own
file is its newest save, so a boot takes it as it is. The steps map as follows.
`PlaceEnter` and `RestorePlace` begin a decision (the restore's is one that is kept:
`MemorySays`); `PlaceLease` reclaims the id from the departed list; `PlaceList` takes; `PlaceRecord` answers; `PlaceUnlist` and every
refusal before the listing refuse; the end of an UNLOAD leaves; a stop stops, and the
file holds what memory held (`Meant`); a dropped entry is given up, of which nothing is
listed (`Known`); the end of the restore serves, when nothing is in flight
(`RestoreAlone`). All other steps are not seen.

*The controller.* While a dispatch is at a node only that node can take the decision up,
and it goes on only when the node neither holds nor handles it (`DispOK`). A request left
over from an earlier node can still come, and load from that node's store; then its node
was asked before it came, and it is `late` (`ReqsOK`). So two nodes that have a decision
or may come to have it are the dispatch's own and a late one (`OnePending`), and no two
dispatches share a decision (`Apart`).

An instance is managed when it has a record, is unsettled or is being dispatched, when
the controller crashed over its dispatch (the operator then sees it in the node's list),
or when its request came late. That is lost in one way only. What a node comes to hold
was being handled, and what is handled is answered for in one of these ways
(`HandledOK`). The placements and the unsettled decisions are always saved (`Saved`), so a
crash keeps them; the tick and the settling task act on what they own (`TickOwns`,
`SettleOK`). A record then goes only in a step that uses an answer about its node
(`SaidGone`), which is `LostOnlyByStaleAnswer`. That it can go in such a step is a fact
about the code (section 5), so there is no theorem that it does not.

`ReplacedOnce`: of the lives made for placements one is not replaced, and it has been
moved more often than the others (`Latest`); a tick moves only that one (`Moving`,
`NotReplaced`). A crash between the save of the new life and that of the old one's new
state breaks it, which is what `third_copy` shows.

*The replay guard.* `ServedOnce` says nothing of what the guard has forgotten. `IInv`
adds `ForgottenOK`: a request that was let in and is no longer in the guard has an expiry
the node's clock has reached. It is kept when a full guard drops nonces because a handler
drops only what is expired at its own clock reading, and that reading, however old, is
at most `peak` (`HandOK`). `RefusalIsDue` needs that what was let in was served or came
under another envelope method (`Accounted`: the one check that follows the guard).
`SeenOK` bounds the expiry of what is in the guard by the
checks each request passed.

*Agents.* Each pid handed out, and each that a caller may still take, is a counted call
(`Budget`), so pids are never shared; a caller between the counter and the insert has a pid
that is not in the table yet, and the caller that brings up a process holds it alone
(`OwnOK`, with the callers' points in `PointsOK`); a caller about to record an exit has cancelled the token or finds the exit
recorded (`StopOK`); what the watchdog collected is over, and it read the join result
right (`WatchOK`); `PhaseOK` says what the shutdown has not done yet. The end of its wait
drops the handles, which lets their tasks go on; by the time the kernel is down their
tokens are cancelled (`Tracked`).

*Left to TLC.* Liveness, for fairness and ENABLED are beyond the prover: `PlaceSettles`,
`RevokedGoes`, `DeathIsTreated`, `OrphanGoes`, `Recovers`, `RunningEnds`. That `Retain`
is `SelectSeq`. `ListedIsWhole`: with one request at a time and no failing unload, where
it could be proved, it says little; what it is for is the run's overlaps and failures.
`StoppedNotMoved`: it holds within the run's one place, one cut and no reboot, and a theorem
for every bound would be false (section 3 for two cuts, section 5 for the others). The
hypotheses of `ReplacedOnce` cover the run that checks it; a crash refutes it (section 3).

## 5. What the model shows beyond the runs

**The node.** Three statements of the code's comments that the model refutes when a
configuration checks the property named, with the change of a line where one is given:

| configuration | property that fails | what happens |
|---|---|---|
| `WorkloadHostTasks.cfg` | `StopIsFinal` | `apply_verdict` decides on a restart under the lock and starts after releasing it; a STOP in between is undone |
| `WorkloadHostTasks.cfg` | `StoppedIsShown` | the table has no step from Unhealthy to Stopped: STOP of an unhealthy instance leaves it listed as live |
| `WorkloadHostRestart.cfg` with `Budget <- TaskBudget` | `StopHolds` | a bus stop is not journaled; a daemon restart starts the instance again |

* A `roll_back` whose unload fails is said to leave the instance "listed (and
  reconcilable)". If the directory removal is what fails the adapter has dropped the
  instance already, and every later UNLOAD fails: no request removes it. `ListedIsWhole`
  excepts exactly that.
* The same failure elsewhere. A lease failure whose unload fails or is denied leaves an
  entry in `loaded`, or an idle one in the adapter, that nothing lists: the id cannot be
  placed again, and a restart the supervisor decided on earlier can start it. A forced
  teardown of an instance the adapter has no entry for leaves it in `loaded`. An UNLOAD
  whose removal fails, followed by a PLACE whose start is rolled back, leaves the first
  journal entry. After a roll back that failed, a second PLACE whose lease fails leaves an
  instance listed and not loaded. `NothingLeftBehind` and `ListedIsWhole` except an id
  whose last unload failed (`unfinished`), and say that these are all.
* With `Overlap = TRUE` a PLACE and an UNLOAD of the same id can meet. UNLOAD between
  a placement's listing and its journal entry leaves an entry for what was unloaded
  (`PlaceList`, `UnloadBegin`, `UnloadEnd`, `PlaceRecord`), which the next boot
  restores. A PLACE that loads between an UNLOAD's two halves has its fresh entry in
  `loaded` forgotten, and a revocation sweep then passes it over. Two PLACEs of one id that
  overlap can leave an instance listed that is not loaded, or one that runs and is not
  listed.
* Two windows of STATUS. A placement takes its id off the departed list before it waits
  for the map's lock, and a revocation's teardown removes its instance before bus, devices,
  the journal's save and, last, the departed list: a listing in between shows the
  instance neither listed nor departed, and the controller reads it as missing.
  `GoneIsTold` excepts the two and says there is no third.
* A START between the two parts of a bus stop leaves an instance that is wanted and shown
  Stopped, which no pass polls: with a bus event `DeathIsTreated` fails.
* The departed list is a ring: an id that 256 later departures have pushed out is
  no longer reported (`RoomForAll`).
* `SupLeaseMark` sets `lease_stopped` after an await; a STOP in between
  (`SupLeaseStop`, `Stop`, `SupLeaseMark`) is marked as the lease's, and the controller's
  next tick starts the instance.
* The first restart of a window has no delay: `restart_decision` waits only if the
  window already holds a restart.

What the proofs needed hypotheses for:

* Revocations. A START between a sweep's pick, which turns the tokens off, and its forget
  turns them on again (`host_instances.rs:90`): the instance goes and its tokens stay. A
  placement that records after a sweep forgot its instance leaves a journal entry for
  nothing. Two enforcers (the sweep and a placement's second look) that forget one
  instance put it on the departed list twice, so the list may drop an id although it has
  room for all. So `NothingIsLeft` and `DeparturesAreTold` assume that nothing is revoked.
* A START during the forced teardown leaves the instance's token, for the same reason.
* Lifting a revocation and placing again while the teardown is at work makes `Forget` drop
  the new instance (`OneAtATime`).
* A bus stop changes what the operator is told and not the journal (`NoBusStops`).
* A PLACE that asks to start an instance which the journal keeps as stopped lists it as
  wanted before its journal entry changes, which is why `StopHolds` excepts an instance
  whose new request is being handled.
* When a restore holds starts back, intent is written in two saves; a crash between them
  loses the start, never a stop (`IntentOnDisk`, `StopsAreKept`).

**The controller.**

* `StaysManageable` says that a record is lost only to a stale answer; the code does lose
  it so. The late answer to an UNLOAD removes, by instance id, the record of a newer copy.
  With two places and a cut `unload_orphan` unloads the replaced copy; before its answer is
  used the operator's second place loads a copy on that node and records it; the answer
  then forgets the record of the new copy. A second cut does the same without a second
  place: the instance has moved to the other node, that node is taken for dead, and the
  move back, unanswered and unsettled, is loaded and settled between the unloading of
  the old copy and the use of that answer. And when a node's reboot meets a refusal, a copy
  that a settle has adopted is dropped from the records by `forget_instances`.
* `StoppedNotMoved` fails with a reboot or a second place as it does with a second cut: a
  stopped instance that its node no longer lists counts as missing and is placed again.
* Two copies can run at once. When `reschedule` tries again with a new decision while an
  earlier one is unsettled, both may be placed. `plane_place.rs` says "never two
  instances" and `plane_reconcile.rs` "placement stops rather than risk a second
  instance"; both hold of one decision (`OnePerDecision`).
* One decision can have two copies. A PLACE that reaches its node after the STATUS that
  found it neither held nor handled is placed from the node's own store if the package is
  there, while the decision has gone on to the next candidate. `plane_reconcile.rs` argues
  that the connection it fetches the package over is closed, "so it cannot load it later";
  the fetch is store-first (`mesh_artifact_transfer.rs`). `OnePerDecision` excepts it
  (`late`).
* Only a STATUS listing settles a decision: with two cuts a lost instance may wait for a
  node that never returns.
* A restore that fails keeps its journal entry, so a copy the controller saw missing and
  replaced may come back at the node's next boot, as an orphan.
* `mirror_states` starts a lease-stopped instance after an await; an operator's STOP in
  between is undone.
* `ControllerLife.attempts` is said to be "bounded by `max_reschedules`"; the limit is on
  successful moves, and `attempt_failed` retries for ever.

**Control messages.** The guard is in memory: after a node's restart a request may be
let in again within its lifetime. `msg.rs` says that a nonce is recorded only after
everything else passed; the envelope's method is compared after it
(`host_service.rs`), so a copy under another method uses the nonce up before it is
refused, and the request itself is then refused as a replay. That refusal carries the
request's nonce, and the caller takes it for its answer. `RefusalIsDue` names this case
(`misled`) and says that no other check does so.

**Agents.**

* A panic after a graceful stop, or while suspended: the watchdog takes the handle, finds
  the entry not Running, and leaves it Stopping (or Suspended) for good.
* `agent.restart` marks the replacement Running and nothing runs it: `restart` calls
  `spawn`, not `spawn_and_run`. If the table is full the old agent has been stopped and
  there is no new one.
* A forced stop before the handle is in the map aborts nothing; a second forced stop finds
  the entry Exited and does nothing. `ExitedIsTold` is what is left: the token was
  cancelled.
* `insert` checks the capacity and then inserts: each further concurrent caller may add
  one entry too many. Entries are never removed, so exited agents count.
* `shutdown_all` says of its timeout that it "aborts" the tasks it waits for; dropping a
  `JoinHandle` detaches them. They end if they heed their tokens, which are cancelled
  (`Tracked`).
* Calls are served after the kernel is down, for no handler looks: an agent spawned then
  is cancelled by nobody.
* `handle_exit` and `RestartTracker` are called from tests only; the tracker is kept by
  pid and a replacement has a new pid, so its budget would never add up.

**Device ledger** (read, not modelled). `device_forget` releases the claim and then gives
the nodes back, without a lock over both: another placement may be granted a node in
between and lose it to the restore. `apply` stops at the first path that fails, so the
rest keep the workload's owner. Whom a node belonged to is in memory only: after a crash
the workload's uid is taken for the original owner. `device_recheck` discards the paths
`refresh` returns, so a restarted workload keeps its old list.

## 6. Plan

1. **Theorems**: the host's refinements under revocations and bus stops (`HostView` would
   need a step by which an instance in flight goes).
2. **Device ledger**: claims, grants and restores over nodes that are replugged.
3. **Plane** with two orders and the seeds.
4. **Heartbeat** states and membership; the **cogbus** broker's queues; kernel **IPC**.
