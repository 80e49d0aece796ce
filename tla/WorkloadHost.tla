----------------------------- MODULE WorkloadHost -----------------------------
(***************************************************************************)
(* A node's workload host                                                  *)
(* (crates/clawft-kernel/src/workload_ctl/host_*.rs over                   *)
(* workload_runtime/host.rs and workload_runtime/native.rs): everything    *)
(* that can change a hosted instance, as concurrent tasks.                 *)
(*                                                                         *)
(*   place[d]   the handler of one PLACE or LOAD request, decision id d    *)
(*   unloading  the UNLOAD verb, which holds the instance map's lock while *)
(*              it waits for the adapter; START and STOP hold it too, but  *)
(*              nothing they wait for is visible, so each is one step      *)
(*   sup        the supervisor pass: lease expiry, polls, restarts         *)
(*   bus        stop_for_bus, the broker asking for a stop                 *)
(*   enf[e]     enforce_revocations, called by the sweep and by place      *)
(*   reader     a STATUS listing                                           *)
(*                                                                         *)
(* A step is the code between two awaits that other tasks can see: a       *)
(* section under the instance map's lock, or one adapter call.  The        *)
(* journal is the module HostJournal, its operations conjoined here.       *)
(*                                                                         *)
(* Abstractions.  A node derives the instance id from package, arguments   *)
(* and owner, so continuous and requester are functions of the id.  The    *)
(* checks a place passes before it loads (body, route, fetch, verify,      *)
(* licence, ingest, bus and device preparation) are one refusal.  Poll     *)
(* intervals and backoff are timing: any eligible instance may be due, and *)
(* of the restarts remembered any number may still be in the window        *)
(* (RestartPolicy checks the arithmetic against a clock).  silent is       *)
(* "now - last_contact_ms > lease".  token stands for the ingest and       *)
(* cogbus registrations, bound for the devices.                            *)
(***************************************************************************)
EXTENDS HostJournal, Lifecycle, Sequences

CONSTANTS
  Continuous,   \* instances that run until stopped
  Local,        \* instances this node placed itself (exempt from the lease)
  MissLimit,    \* HealthSpec.miss_limit
  MaxRestarts,  \* RestartPolicy.max_restarts
  DepartedCap,  \* departed ids remembered (256 in the code)
  Faults,       \* what may fail: "launch", "stop", "rmdir", "prepare" (a lease),
                \* "fetch"; "deny": governance refuses an unload
  Overlap,      \* whether requests about one instance may overlap
  Budget        \* bound on each kind of external event

Event == {"verb", "bus", "exit", "silence", "revoke", "unrevoke", "status"}

ASSUME WorkloadHostAssumption ==
  /\ Continuous \subseteq Iid /\ Local \subseteq Iid
  /\ MissLimit \in Nat \ {0} /\ MaxRestarts \in Nat /\ DepartedCap \in Nat \ {0}
  /\ Faults \subseteq {"launch", "stop", "rmdir", "prepare", "fetch", "deny"}
  /\ Overlap \in BOOLEAN
  /\ Budget \in [Event -> Nat]
  /\ None \notin Decision /\ "sweep" \notin Decision

VARIABLES
  instances,  \* the instance map
  departed,   \* ids taken down on purpose, newest last
  inFlight,   \* decisions being handled
  loaded,     \* WorkloadHost.loaded of the adapter host
  adapter,    \* the adapter's own entry for each id
  token,      \* instances registered with the ingest bridge and the bus
  bound,      \* instances devices are bound to
  place, unloading, sup, bus, enf, reader,     \* the tasks
  revoked,    \* the revocation list (persisted)
  revGen,     \* its generation, counted in this process
  bumping,    \* a revocation is listed and its generation not yet bumped
  silent,     \* no controller heard for longer than the lease
  sent,       \* decisions already sent
  left,       \* what is left of the Budget
  \* history:
  answered,   \* placed here in this boot, its place answered Ok
  unfinished, \* whose unload of the id failed, no UNLOAD or teardown having ended since
  swept       \* the generation the latest sweep began at, or None

host == <<instances, departed, inFlight, loaded, adapter, token, bound, unfinished>>
bindings == <<bound, unfinished>>
tasks == <<place, unloading, sup, bus, enf, reader>>
world == <<revoked, revGen, bumping, silent, sent, left>>
ghosts == <<answered, swept>>
vars == <<host, tasks, world, ghosts, journal>>

Enforcer == Decision \cup {"sweep"}

(* The adapter's entry (native.rs Instance): absent; idle, never started;  *)
(* running; exited by itself; stopped, its evidence kept.                  *)
AdapterState == {"absent", "idle", "running", "exited", "stopped"}

PlaceIdle == [pc |-> "idle", id |-> None, start |-> FALSE, gen |-> 0, permanent |-> FALSE]
SupIdle == [pc |-> "idle", todo |-> {}, id |-> None, verdict |-> "none", ok |-> FALSE]
BusIdle == [pc |-> "idle", id |-> None]
EnfIdle == [pc |-> "idle", todo |-> {}, id |-> None]
ReaderIdle == [pc |-> "idle", began |-> {}, seen |-> {}]

Instance ==
  [decision : Decision, state : LifecycleState, misses : 0..MissLimit,
   restarts : 0..MaxRestarts, desired : BOOLEAN, leaseStopped : BOOLEAN]

ASSUME InstanceAssumption == None \notin Instance

TypeOK ==
  /\ JournalTypeOK
  /\ instances \in [Iid -> Instance \cup {None}]
  /\ departed \in Seq(Iid) /\ Len(departed) <= DepartedCap
  /\ inFlight \subseteq Decision
  /\ loaded \subseteq Iid
  /\ adapter \in [Iid -> AdapterState]
  /\ token \subseteq Iid /\ bound \subseteq Iid
  /\ unfinished \in [Iid -> {"none", "lease", "rollback", "unload", "teardown"}]
  /\ place \in [Decision ->
       [pc : {"idle", "fetching", "loaded", "unbinding", "leased", "listed", "sweeping",
              "starting", "undo", "undoing", "unlisting", "recording", "refused", "done"},
        id : Iid \cup {None}, start : BOOLEAN, gen : Nat, permanent : BOOLEAN]]
  /\ unloading \in Iid \cup {None}
  /\ sup \in [pc : {"idle", "lease", "leaseMark", "poll", "apply", "failed",
                    "restartStop", "restartStart", "restartMark"},
              todo : SUBSET Iid, id : Iid \cup {None},
              verdict : {"none", "Healthy", "Finished", "Unhealthy"}, ok : BOOLEAN]
  /\ bus \in [pc : {"idle", "stop", "mark"}, id : Iid \cup {None}]
  /\ enf \in [Enforcer -> [pc : {"idle", "teardown", "removing", "forget", "noting"},
                           todo : SUBSET Iid, id : Iid \cup {None}]]
  /\ reader \in [pc : {"idle", "listing", "answered"},
                 began : SUBSET Decision, seen : SUBSET Decision]
  /\ revoked \subseteq Iid /\ revGen \in Nat
  /\ bumping \in BOOLEAN /\ silent \in BOOLEAN
  /\ sent \subseteq Decision
  /\ left \in [Event -> Nat]
  /\ answered \subseteq Iid /\ swept \in Nat \cup {None}

Init ==
  /\ JournalInit
  /\ instances = [i \in Iid |-> None] /\ departed = <<>> /\ inFlight = {}
  /\ loaded = {} /\ adapter = [i \in Iid |-> "absent"] /\ token = {} /\ bound = {}
  /\ unfinished = [i \in Iid |-> "none"]
  /\ place = [d \in Decision |-> PlaceIdle] /\ unloading = None
  /\ sup = SupIdle /\ bus = BusIdle
  /\ enf = [e \in Enforcer |-> EnfIdle] /\ reader = ReaderIdle
  /\ revoked = {} /\ revGen = 0 /\ bumping = FALSE /\ silent = FALSE
  /\ sent = {} /\ left = Budget
  /\ answered = {} /\ swept = None

-----------------------------------------------------------------------------
(* Parts of steps.                                                         *)

LockFree == unloading = None

Spend(event) == left[event] > 0 /\ left' = [left EXCEPT ![event] = @ - 1]

Active(d) == place[d].pc \notin {"idle", "refused", "done"}

Busy(i) == unloading = i \/ \E d \in Decision : Active(d) /\ place[d].id = i

(* With Overlap FALSE whoever controls the instance sends one request      *)
(* about it at a time.                                                     *)
Allowed(i) == Overlap \/ ~Busy(i)

(* The ingest and bus registrations: activate and bus_on; deactivate and   *)
(* bus_off.                                                                *)
TokenOn(i) == token' = token \cup {i}
TokenOff(ids) == token' = token \ ids

(* What the adapter accepts: one entry per id; a start unless it runs; a   *)
(* stop unless it was never started (one already stopped answers its last  *)
(* evidence again).                                                        *)
CanLoad(i) == adapter[i] = "absent"
CanStart(i) == adapter[i] \in {"idle", "exited", "stopped"}
CanStop(i) == adapter[i] \in {"running", "exited", "stopped"}

(* device_bind; device_forget.                                             *)
Bind(i) == bound' = bound \cup {i}
Unbind(i) == bound' = bound \ {i}

(* WorkloadHost::load: admitted by the gate, which refuses the revoked.    *)
HostLoad(i) ==
  /\ i \notin revoked /\ CanLoad(i)
  /\ adapter' = [adapter EXCEPT ![i] = "idle"]
  /\ loaded' = loaded \cup {i}

(* WorkloadHost::start: the instance is known and the gate does not find   *)
(* it revoked.                                                             *)
HostStart(i, ok) ==
  LET can == i \in loaded /\ i \notin revoked /\ CanStart(i)
  IN  \/ ok /\ can /\ adapter' = [adapter EXCEPT ![i] = "running"]
      \/ ~ok /\ (~can \/ "launch" \in Faults) /\ UNCHANGED adapter

(* WorkloadHost::stop.                                                     *)
HostStop(i, ok) ==
  LET can == i \in loaded /\ CanStop(i)
  IN  \/ ok /\ can /\ adapter' = [adapter EXCEPT ![i] = "stopped"]
      \/ ~ok /\ (~can \/ "stop" \in Faults) /\ UNCHANGED adapter

(* WorkloadHost::unload over the adapter comes in two halves: governance   *)
(* allows it, the entry leaves the adapter's map and its process is        *)
(* killed; then the instance directory is removed and only on success      *)
(* loaded forgets the id.  by is the task whose unload it is.              *)
CanUnload(i) == i \in loaded /\ adapter[i] # "absent"
Unfinished(i, by) == unfinished' = [unfinished EXCEPT ![i] = by]
DropEntry(i) == adapter' = [adapter EXCEPT ![i] = "absent"] /\ UNCHANGED unfinished
UnloadFails(i, by) ==
  /\ UNCHANGED adapter
  /\ \/ ~CanUnload(i) /\ UNCHANGED unfinished
     \/ CanUnload(i) /\ "deny" \in Faults /\ Unfinished(i, by)
RemoveDir(i, ok, by) ==
  \/ /\ ok /\ loaded' = loaded \ {i}
     /\ Unfinished(i, IF by \in {"unload", "teardown"} THEN "none" ELSE unfinished[i])
  \/ ~ok /\ "rmdir" \in Faults /\ UNCHANGED loaded /\ Unfinished(i, by)

(* Mutant of NoteDeparted: the teardown is not remembered.                 *)
NoteDepartedForgets(i) == remove(i) /\ UNCHANGED departed

(* Another: it stays in the journal.                                       *)
NoteDepartedUnjournaled(i) ==
  /\ NoSave
  /\ departed' = Append(IF Len(departed) >= DepartedCap THEN Tail(departed) ELSE departed, i)

(* note_departed: out of the journal, onto the bounded list.               *)
NoteDeparted(i) ==
  /\ remove(i)
  /\ departed' = Append(IF Len(departed) >= DepartedCap THEN Tail(departed) ELSE departed, i)

-----------------------------------------------------------------------------
(* place: PLACE and LOAD (LOAD is start = FALSE).                          *)

Go(d, pc) == place' = [place EXCEPT ![d].pc = pc]

(* Mutant of Refuse: the in-flight mark outlives the request.              *)
RefuseStaysInFlight(d, permanent) ==
  /\ place' = [place EXCEPT ![d].pc = "refused", ![d].permanent = permanent]
  /\ UNCHANGED inFlight

(* An early return: the in-flight mark goes with the handler's scope.      *)
Refuse(d, permanent) ==
  /\ place' = [place EXCEPT ![d].pc = "refused", ![d].permanent = permanent]
  /\ inFlight' = inFlight \ {d}

Entered(d, i, start) ==
  /\ inFlight' = inFlight \cup {d}
  /\ place' = [place EXCEPT ![d] = [pc |-> "fetching", id |-> i, start |-> start,
                                    gen |-> revGen, permanent |-> FALSE]]

PlaceEnter(d, i, start) ==
  /\ phase = "serving" /\ d \notin sent /\ Allowed(i)
  /\ Entered(d, i, start)
  /\ sent' = sent \cup {d}
  /\ silent' = (silent /\ i \in Local)
  /\ UNCHANGED <<instances, departed, loaded, adapter, token, bindings, unloading, sup, bus, enf,
                 reader, revoked, revGen, bumping, left, ghosts, journal>>

(* The restore places the entry it has come to, through the same handler.  *)
RestorePlace ==
  /\ cur # None /\ ~cur.placed /\ place[cur.entry.decision].pc = "idle"
  /\ Entered(cur.entry.decision, cur.id, RestoreStarts(cur))
  /\ UNCHANGED <<instances, departed, loaded, adapter, token, bindings, unloading, sup, bus, enf,
                 reader, world, ghosts, journal>>

(* Refused before anything is loaded: for good (verification, governance,  *)
(* authorisation, a bad request) or not (the fetch, the runtime).          *)
PlaceRefuse(d) ==
  /\ place[d].pc = "fetching"
  /\ \/ place[d].id \in revoked /\ Refuse(d, TRUE)
     \/ ~CanLoad(place[d].id) /\ Refuse(d, FALSE)
     \/ "fetch" \in Faults /\ \E permanent \in BOOLEAN : Refuse(d, permanent)
  /\ UNCHANGED <<instances, departed, loaded, adapter, token, bindings, unloading, sup, bus, enf,
                 reader, world, ghosts, journal>>

PlaceLoad(d) ==
  LET i == place[d].id
  IN  /\ place[d].pc = "fetching"
      /\ HostLoad(i)
      /\ Go(d, "loaded")
      /\ UNCHANGED <<instances, departed, inFlight, token, bindings, unloading, sup, bus,
                     enf, reader, world, ghosts, journal>>

(* A lease failed: that of the devices or of the bus, before there is a    *)
(* registration, or that of the ingest bridge, and the bus's is undone.    *)
(* The devices are given back and the instance is unloaded; if that fails  *)
(* too the refusal says so, and it is not listed.                          *)
PlaceUnbind(d) ==
  LET i == place[d].id
  IN  \/ /\ place[d].pc = "loaded" /\ "prepare" \in Faults
         /\ Unbind(i)
         /\ \E lease \in {"devices", "bus", "ingest"} :
              IF lease = "ingest" THEN TokenOff({i}) ELSE UNCHANGED token
         /\ \/ CanUnload(i) /\ DropEntry(i) /\ Go(d, "unbinding") /\ UNCHANGED inFlight
            \/ UnloadFails(i, "lease") /\ Refuse(d, FALSE)
         /\ UNCHANGED <<instances, departed, loaded, unloading, sup, bus, enf, reader,
                        world, ghosts, journal>>
      \/ /\ place[d].pc = "unbinding"
         /\ \E ok \in BOOLEAN : RemoveDir(i, ok, "lease")
         /\ Refuse(d, FALSE)
         /\ UNCHANGED <<instances, departed, adapter, token, bound, unloading, sup, bus, enf,
                        reader, world, ghosts, journal>>

(* The leases are there, and the id is no longer departed.                 *)
PlaceLease(d) ==
  LET i == place[d].id
  IN  /\ place[d].pc = "loaded"
      /\ TokenOn(i) /\ Bind(i)
      /\ departed' = Retain(departed, Iid \ {i})
      /\ Go(d, "leased")
      /\ UNCHANGED <<instances, inFlight, loaded, adapter, unfinished, unloading, sup, bus,
                     enf, reader, world, ghosts, journal>>

(* The instance is listed, as running if it will be started.               *)
PlaceList(d) ==
  LET i == place[d].id
      new == [decision |-> d, state |-> "Loaded", misses |-> 0, restarts |-> 0,
              desired |-> place[d].start, leaseStopped |-> FALSE]
  IN  /\ place[d].pc = "leased" /\ LockFree
      /\ instances' = [instances EXCEPT
                         ![i] = IF place[d].start THEN enter(new, "Running") ELSE new]
      /\ Go(d, "listed")
      /\ answered' = answered \ {i} /\ UNCHANGED swept
      /\ UNCHANGED <<departed, inFlight, loaded, adapter, token, bindings, unloading, sup, bus,
                     enf, reader, world, journal>>

(* The instances a call of enforce_revocations takes on: listed, known to  *)
(* the adapter host and revoked now.  Their tokens go first.               *)
EnforcePick(e) ==
  LET targets == {i \in Iid : instances[i] # None /\ i \in loaded /\ i \in revoked}
  IN  /\ enf' = [enf EXCEPT ![e] = [pc |-> "teardown", todo |-> targets, id |-> None]]
      /\ TokenOff(targets)

(* Mutant of PlaceRecheck: the list is not looked at again.                *)
PlaceNoRecheck(d) ==
  /\ place[d].pc = "listed"
  /\ Go(d, "starting")
  /\ UNCHANGED <<host, unloading, sup, bus, enf, reader, world, ghosts, journal>>

(* "A revocation that lands after the gate looked at the list but before   *)
(* the instance is listed would be swept past": look again.                *)
PlaceRecheck(d) ==
  /\ place[d].pc = "listed"
  /\ IF revGen # place[d].gen
       THEN LockFree /\ EnforcePick(d) /\ Go(d, "sweeping")
       ELSE UNCHANGED <<enf, token>> /\ Go(d, "starting")
  /\ UNCHANGED <<instances, departed, inFlight, loaded, adapter, bindings, unloading, sup, bus,
                 reader, world, ghosts, journal>>

PlaceSwept(d) ==
  /\ place[d].pc = "sweeping" /\ enf[d].pc = "idle" /\ LockFree
  /\ IF instances[place[d].id] = None
       THEN Refuse(d, TRUE)
       ELSE Go(d, "starting") /\ UNCHANGED inFlight
  /\ UNCHANGED <<instances, departed, loaded, adapter, token, bindings, unloading, sup, bus, enf,
                 reader, world, ghosts, journal>>

(* Start it, if that was asked for.  A start the gate refuses because the  *)
(* package was revoked is refused for good.                                *)
PlaceStart(d) ==
  LET i == place[d].id
  IN  /\ place[d].pc = "starting"
      /\ \/ ~place[d].start /\ UNCHANGED adapter /\ Go(d, "recording")
         \/ /\ place[d].start
            /\ \E ok \in BOOLEAN :
                 /\ HostStart(i, ok)
                 /\ place' = [place EXCEPT
                      ![d].pc = IF ok THEN "recording" ELSE "undo",
                      ![d].permanent = ~ok /\ i \in loaded /\ i \in revoked]
      /\ UNCHANGED <<instances, departed, inFlight, loaded, token, bindings, unloading, sup, bus, enf,
                     reader, world, ghosts, journal>>

(* roll_back: unload (by revoke_teardown, which is not gated and stops it  *)
(* first, if it was revoked).  If that fails the instance stays listed.    *)
PlaceRollBack(d) ==
  LET i == place[d].id
  IN  /\ place[d].pc = "undo" /\ LockFree
      /\ IF instances[i] # None THEN TokenOff({i}) ELSE UNCHANGED token
      /\ \/ CanUnload(i) /\ DropEntry(i) /\ Go(d, "undoing") /\ UNCHANGED inFlight
         \/ /\ place[d].permanent => ~CanUnload(i)
            /\ UnloadFails(i, "rollback") /\ Refuse(d, place[d].permanent)
      /\ UNCHANGED <<instances, departed, loaded, bound, unloading, sup, bus, enf, reader, world,
                     ghosts, journal>>

(* Mutant of PlaceRolledBack: the map keeps what was unloaded.             *)
PlaceRolledBackListed(d) ==
  /\ place[d].pc = "undoing"
  /\ \E ok \in BOOLEAN : RemoveDir(place[d].id, ok, "rollback")
  /\ Refuse(d, place[d].permanent)
  /\ UNCHANGED <<instances, departed, adapter, token, bound, unloading, sup, bus, enf, reader,
                 world, ghosts, journal>>

PlaceRolledBack(d) ==
  /\ place[d].pc = "undoing"
  /\ \E ok \in BOOLEAN :
       /\ RemoveDir(place[d].id, ok, "rollback")
       /\ IF ok THEN Go(d, "unlisting") /\ UNCHANGED inFlight
                ELSE Refuse(d, place[d].permanent)
  /\ UNCHANGED <<instances, departed, adapter, token, bound, unloading, sup, bus, enf, reader,
                 world, ghosts, journal>>

(* Out of the map, the devices given back.                                 *)
PlaceUnlist(d) ==
  LET i == place[d].id
  IN  /\ place[d].pc = "unlisting" /\ LockFree
      /\ instances' = [instances EXCEPT ![i] = None]
      /\ Unbind(i)
      /\ Refuse(d, place[d].permanent)
      /\ UNCHANGED <<departed, loaded, adapter, token, unfinished, unloading, sup, bus, enf,
                     reader, world, ghosts, journal>>

(* The journal entry, and the answer.                                      *)
PlaceRecord(d) ==
  LET i == place[d].id
  IN  /\ place[d].pc = "recording"
      /\ Go(d, "done")
      /\ inFlight' = inFlight \ {d}
      /\ answered' = IF instances[i] # None THEN answered \cup {i} ELSE answered
      /\ UNCHANGED swept
      /\ IF cur # None
           THEN RestoreRecord /\ UNCHANGED <<mayStart, todo, intent>>
           ELSE /\ record(i, [decision |-> d, desired |-> place[d].start, failures |-> 0])
                /\ intent' = [intent EXCEPT ![i] = IF place[d].start THEN "run" ELSE "stop"]
                /\ UNCHANGED restore
      /\ UNCHANGED <<instances, departed, loaded, adapter, token, bindings, unloading, sup, bus, enf,
                     reader, world, diskChain, phase, bounds, forked, backup>>

-----------------------------------------------------------------------------
(* The verbs of instance_op, under the lock.                               *)

Requested(i) ==
  /\ phase = "serving" /\ LockFree /\ instances[i] # None /\ Allowed(i)
  /\ Spend("verb")
  /\ silent' = (silent /\ i \in Local)
  /\ UNCHANGED <<revoked, revGen, bumping, sent>>

(* START: the tokens come back before the adapter is asked.                *)
Start(i) ==
  /\ Requested(i)
  /\ TokenOn(i)
  /\ \/ /\ HostStart(i, TRUE)
        /\ set_desired(i, TRUE)
        /\ intent' = [intent EXCEPT ![i] = "run"]
        /\ instances' = [instances EXCEPT
             ![i] = enter([@ EXCEPT !.desired = TRUE, !.leaseStopped = FALSE,
                                    !.misses = 0, !.restarts = 0], "Running")]
        /\ UNCHANGED Untouched
     \/ /\ HostStart(i, FALSE)
        /\ UNCHANGED <<instances, journal>>
  /\ UNCHANGED <<departed, inFlight, loaded, bindings, tasks, ghosts>>

(* Mutant of Stop: the journal is not told.                                *)
StopUnjournaled(i) ==
  /\ Requested(i)
  /\ TokenOff({i})
  /\ \E ok \in BOOLEAN :
       LET off == [instances[i] EXCEPT !.desired = FALSE, !.leaseStopped = FALSE]
       IN  /\ HostStop(i, ok)
           /\ instances' = [instances EXCEPT ![i] = IF ok THEN enter(off, "Stopped") ELSE off]
  /\ intent' = [intent EXCEPT ![i] = "stop"]
  /\ UNCHANGED <<memory, disk, phase, restore, bounds, newest, newestSaid, external, faulted, forked,
                 backup, departed, inFlight, loaded, bindings, tasks, ghosts>>

(* STOP: intent first, then the adapter.                                   *)
Stop(i) ==
  /\ Requested(i)
  /\ TokenOff({i})
  /\ set_desired(i, FALSE)
  /\ intent' = [intent EXCEPT ![i] = "stop"]
  /\ \E ok \in BOOLEAN :
       LET off == [instances[i] EXCEPT !.desired = FALSE, !.leaseStopped = FALSE]
       IN  /\ HostStop(i, ok)
           /\ instances' = [instances EXCEPT ![i] = IF ok THEN enter(off, "Stopped") ELSE off]
  /\ UNCHANGED <<Untouched, departed, inFlight, loaded, bindings, tasks, ghosts>>

(* Mutant of UnloadBegin: the credentials stay.                            *)
UnloadBeginKeepsToken(i) ==
  /\ Requested(i)
  /\ \/ CanUnload(i) /\ DropEntry(i) /\ unloading' = i
     \/ UnloadFails(i, "unload") /\ UNCHANGED unloading
  /\ UNCHANGED <<instances, departed, inFlight, loaded, token, bound, place, sup, bus, enf,
                 reader, ghosts, journal>>

(* UNLOAD takes the lock and keeps it until the adapter answers.           *)
UnloadBegin(i) ==
  /\ Requested(i)
  /\ TokenOff({i})
  /\ \/ CanUnload(i) /\ DropEntry(i) /\ unloading' = i
     \/ UnloadFails(i, "unload") /\ UNCHANGED unloading
  /\ UNCHANGED <<instances, departed, inFlight, loaded, bound, place, sup, bus, enf, reader,
                 ghosts, journal>>

UnloadEnd ==
  LET i == unloading
  IN  /\ i # None
      /\ unloading' = None
      /\ \/ /\ RemoveDir(i, TRUE, "unload")
            /\ instances' = [instances EXCEPT ![i] = None]
            /\ Unbind(i)
            /\ NoteDeparted(i)
            /\ intent' = [intent EXCEPT ![i] = "gone"]
            /\ UNCHANGED Untouched
         \/ RemoveDir(i, FALSE, "unload") /\ UNCHANGED <<instances, departed, bound, journal>>
      /\ UNCHANGED <<inFlight, adapter, token, place, sup, bus, enf, reader, world, ghosts>>

(* Mutant of StatusBegin: only the map is listed.                          *)
StatusBeginMapOnly ==
  /\ phase = "serving" /\ reader.pc = "idle" /\ Spend("status")
  /\ reader' = [pc |-> "listing", seen |-> {},
                began |-> {d \in Decision : place[d].pc # "idle"}]
  /\ UNCHANGED <<host, place, unloading, sup, bus, enf, revoked, revGen, bumping, silent,
                 sent, ghosts, journal>>

(* STATUS reads the in-flight set, then waits for the map's lock.          *)
StatusBegin ==
  /\ phase = "serving" /\ reader.pc = "idle" /\ Spend("status")
  /\ reader' = [pc |-> "listing", seen |-> inFlight,
                began |-> {d \in Decision : place[d].pc # "idle"}]
  /\ UNCHANGED <<host, place, unloading, sup, bus, enf, revoked, revGen, bumping, silent,
                 sent, ghosts, journal>>

Listed == {instances[i].decision : i \in {j \in Iid : instances[j] # None}}

StatusEnd ==
  /\ reader.pc = "listing" /\ LockFree
  /\ reader' = [reader EXCEPT !.pc = "answered", !.seen = @ \cup Listed]
  /\ UNCHANGED <<host, place, unloading, sup, bus, enf, world, ghosts, journal>>

-----------------------------------------------------------------------------
(* supervise: one pass, lease expiry first.                                *)

SupStep ==
  UNCHANGED <<departed, inFlight, loaded, bindings, place, unloading, bus, enf, reader, world,
              ghosts, journal>>

(* expire_lease picks what to stop and takes its intent away.              *)
SupLease ==
  LET targets == {i \in Continuous \ Local :
                    /\ silent /\ instances[i] # None
                    /\ instances[i].desired /\ is_live(instances[i].state)}
  IN  /\ phase = "serving" /\ sup.pc = "idle" /\ LockFree
      /\ instances' = [i \in Iid |-> IF i \in targets
                                       THEN [instances[i] EXCEPT !.desired = FALSE]
                                       ELSE instances[i]]
      /\ TokenOff(targets)
      /\ sup' = [SupIdle EXCEPT !.pc = "lease", !.todo = targets]
      /\ UNCHANGED adapter /\ SupStep

SupLeaseStop(i) ==
  /\ sup.pc = "lease" /\ i \in sup.todo
  /\ \E ok \in BOOLEAN :
       /\ HostStop(i, ok)
       /\ sup' = [sup EXCEPT !.pc = "leaseMark", !.todo = @ \ {i}, !.id = i, !.ok = ok]
  /\ UNCHANGED <<instances, token>> /\ SupStep

SupLeaseMark ==
  LET i == sup.id
  IN  /\ sup.pc = "leaseMark" /\ LockFree
      /\ instances' = IF instances[i] = None THEN instances
                      ELSE [instances EXCEPT
                              ![i] = enter([@ EXCEPT !.leaseStopped = sup.ok], "Stopped")]
      /\ sup' = [sup EXCEPT !.pc = "lease", !.id = None, !.ok = FALSE]
      /\ UNCHANGED <<adapter, token>> /\ SupStep

(* Mutant of SupPick: an instance already found unhealthy is not polled.   *)
SupPickRunning ==
  LET eligible == {i \in loaded : /\ instances[i] # None /\ instances[i].desired
                                  /\ instances[i].state = "Running"}
  IN  /\ sup.pc = "lease" /\ sup.todo = {} /\ LockFree
      /\ \E due \in SUBSET eligible :
           sup' = IF due = {} THEN SupIdle ELSE [sup EXCEPT !.pc = "poll", !.todo = due]
      /\ UNCHANGED <<instances, adapter, token>> /\ SupStep

(* The instances due for a poll.                                           *)
SupPick ==
  LET eligible == {i \in loaded : /\ instances[i] # None /\ instances[i].desired
                                  /\ is_live(instances[i].state)}
  IN  /\ sup.pc = "lease" /\ sup.todo = {} /\ LockFree
      /\ \E due \in SUBSET eligible :
           sup' = IF due = {} THEN SupIdle ELSE [sup EXCEPT !.pc = "poll", !.todo = due]
      /\ UNCHANGED <<instances, adapter, token>> /\ SupStep

(* What a kind can make of the adapter's status.  Loaded and Running are   *)
(* healthy (a running one can also be reported degraded); an exit is the   *)
(* end of a one-shot run or a miss.                                        *)
Verdicts(i) ==
  CASE adapter[i] = "idle" -> {"Healthy"}
    [] adapter[i] = "running" -> {"Healthy", "Unhealthy"}
    [] adapter[i] = "absent" -> {"Unhealthy"}
    [] OTHER -> {"Unhealthy"} \cup (IF i \in Continuous THEN {} ELSE {"Finished"})

SupPoll(i) ==
  /\ sup.pc = "poll" /\ i \in sup.todo
  /\ \E v \in Verdicts(i) :
       sup' = [sup EXCEPT !.pc = "apply", !.todo = @ \ {i}, !.id = i, !.verdict = v]
  /\ UNCHANGED <<instances, adapter, token>> /\ SupStep

NextPoll == sup' = IF sup.todo = {} THEN SupIdle
                   ELSE [SupIdle EXCEPT !.pc = "poll", !.todo = sup.todo]

Then(pc) == sup' = [sup EXCEPT !.pc = pc, !.verdict = "none"]

Become(i, p) == instances' = [instances EXCEPT ![i] = p]

(* Mutant of Exhausted: one restart too many.                              *)
ExhaustedOffByOne(recent) == recent > MaxRestarts

(* restart_decision's budget; recent restarts are still in the window.     *)
Exhausted(recent) == recent >= MaxRestarts

(* apply_verdict: decide under the lock.  "An operator verb overtook this  *)
(* poll": an instance no longer meant to run is left alone.                *)
SupApply ==
  LET i == sup.id
      p == instances[i]
      missed == IF p = None THEN p
                ELSE [p EXCEPT !.misses = IF @ < MissLimit THEN @ + 1 ELSE @]
      sick == IF p = None THEN p
              ELSE IF p.state = "Running" THEN enter(missed, "Unhealthy") ELSE missed
  IN  /\ sup.pc = "apply" /\ LockFree
      /\ \/ /\ p # None => ~p.desired
            /\ NextPoll /\ UNCHANGED instances
         \/ /\ p # None /\ p.desired /\ sup.verdict = "Healthy"
            /\ Become(i, LET well == [p EXCEPT !.misses = 0]
                         IN  IF p.state \in {"Unhealthy", "Restarting"}
                               THEN enter(well, "Running") ELSE well)
            /\ NextPoll
         \/ /\ p # None /\ p.desired /\ sup.verdict = "Finished"
            /\ Become(i, enter([p EXCEPT !.desired = FALSE], "Finished"))
            /\ NextPoll
         \/ /\ p # None /\ p.desired /\ sup.verdict = "Unhealthy"
            /\ IF missed.misses < MissLimit
                 THEN Become(i, missed) /\ NextPoll
                 ELSE \E recent \in 0..p.restarts :
                        \/ /\ recent > 0 /\ ~Exhausted(recent)      \* still backing off
                           /\ Become(i, sick) /\ NextPoll
                        \/ /\ Exhausted(recent)                     \* budget spent
                           /\ Become(i, enter([sick EXCEPT !.desired = FALSE], "Failed"))
                           /\ Then("failed")
                        \/ /\ ~Exhausted(recent)                    \* restart
                           /\ Become(i, [enter(sick, "Restarting") EXCEPT !.restarts = recent + 1])
                           /\ Then("restartStop")
      /\ UNCHANGED <<adapter, token>> /\ SupStep

(* Outside the lock: a failed instance is taken off the CPU.               *)
SupFailedStop ==
  /\ sup.pc = "failed"
  /\ \E ok \in BOOLEAN : HostStop(sup.id, ok)
  /\ NextPoll
  /\ UNCHANGED <<instances, token>> /\ SupStep

(* Outside the lock: stop, then start.                                     *)
SupRestartStop ==
  /\ sup.pc = "restartStop"
  /\ \E ok \in BOOLEAN : HostStop(sup.id, ok)
  /\ Then("restartStart")
  /\ UNCHANGED <<instances, token>> /\ SupStep

SupRestartStart ==
  /\ sup.pc = "restartStart"
  /\ \E ok \in BOOLEAN : /\ HostStart(sup.id, ok)
                         /\ sup' = [sup EXCEPT !.pc = "restartMark", !.ok = ok]
  /\ UNCHANGED <<instances, token>> /\ SupStep

SupRestartMark ==
  LET i == sup.id
  IN  /\ sup.pc = "restartMark" /\ LockFree
      /\ instances' = IF instances[i] = None THEN instances
                      ELSE [instances EXCEPT
                              ![i] = enter(@, IF sup.ok THEN "Running" ELSE "Unhealthy")]
      /\ NextPoll
      /\ UNCHANGED <<adapter, token>> /\ SupStep

Supervise ==
  \/ SupLease \/ SupLeaseMark \/ SupPick \/ SupApply
  \/ SupFailedStop \/ SupRestartStop \/ SupRestartStart \/ SupRestartMark
  \/ \E i \in Iid : SupLeaseStop(i) \/ SupPoll(i)

-----------------------------------------------------------------------------
(* stop_for_bus.                                                           *)

BusStep ==
  UNCHANGED <<departed, inFlight, loaded, bindings, place, unloading, sup, enf, reader, revoked,
              revGen, bumping, silent, sent, ghosts>>

BusBegin(i) ==
  /\ phase = "serving" /\ bus.pc = "idle" /\ LockFree /\ Spend("bus")
  /\ instances[i] # None /\ is_live(instances[i].state)
  /\ instances' = [instances EXCEPT ![i].desired = FALSE, ![i].leaseStopped = FALSE]
  /\ TokenOff({i})
  /\ bus' = [pc |-> "stop", id |-> i]
  /\ UNCHANGED <<adapter, journal>> /\ BusStep

BusStop ==
  /\ bus.pc = "stop"
  /\ \E ok \in BOOLEAN : HostStop(bus.id, ok)
  /\ bus' = [bus EXCEPT !.pc = "mark"]
  /\ UNCHANGED <<instances, token, left, journal>> /\ BusStep

BusMark ==
  LET i == bus.id
  IN  /\ bus.pc = "mark" /\ LockFree
      /\ instances' = IF instances[i] = None THEN instances
                      ELSE [instances EXCEPT ![i] = enter(@, "Stopped")]
      /\ bus' = BusIdle
      /\ intent' = IF instances[i] = None THEN intent ELSE [intent EXCEPT ![i] = "stop"]
      /\ UNCHANGED <<memory, disk, phase, restore, bounds, newest, newestSaid, external, faulted, forked,
                     backup, adapter, token, left>> /\ BusStep

-----------------------------------------------------------------------------
(* enforce_revocations, run by e.                                          *)

EnfStep ==
  UNCHANGED <<inFlight, place, unloading, sup, bus, reader, world, answered>>

(* Mutant of SweepBegin: nothing to do while the list has not changed.     *)
SweepBeginIfChanged ==
  /\ phase = "serving" /\ enf["sweep"].pc = "idle" /\ LockFree /\ swept # revGen
  /\ EnforcePick("sweep") /\ swept' = revGen
  /\ UNCHANGED <<instances, departed, loaded, adapter, bindings, journal>> /\ EnfStep

SweepBegin ==
  /\ phase = "serving" /\ enf["sweep"].pc = "idle" /\ LockFree
  /\ EnforcePick("sweep") /\ swept' = revGen
  /\ UNCHANGED <<instances, departed, loaded, adapter, bindings, journal>> /\ EnfStep

EnfGo(e, pc) == enf' = [enf EXCEPT ![e].pc = pc]

(* revoke_teardown, ungated: stop and unload.  An instance somebody else   *)
(* already took down is gone, and so is one whose directory an earlier     *)
(* unload could not remove: the adapter knows neither.                     *)
Teardown(e, i) ==
  /\ enf[e].pc = "teardown" /\ i \in enf[e].todo
  /\ enf' = [enf EXCEPT ![e] = [pc   |-> IF CanUnload(i) THEN "removing" ELSE "forget",
                                todo |-> enf[e].todo \ {i}, id |-> i]]
  /\ IF CanUnload(i)
       THEN DropEntry(i)
       ELSE /\ UNCHANGED adapter
            /\ Unfinished(i, IF i \in loaded THEN "teardown" ELSE unfinished[i])
  /\ UNCHANGED <<instances, departed, loaded, token, bound, swept, journal>> /\ EnfStep

(* A teardown that failed leaves the instance to the next sweep.           *)
TeardownEnd(e) ==
  /\ enf[e].pc = "removing"
  /\ \E ok \in BOOLEAN : /\ RemoveDir(enf[e].id, ok, "teardown")
                         /\ EnfGo(e, IF ok THEN "forget" ELSE "teardown")
  /\ UNCHANGED <<instances, departed, adapter, token, bound, swept, journal>> /\ EnfStep

(* Out of the map, the devices given back; then out of the journal and     *)
(* onto the departed list.                                                 *)
Forget(e) ==
  LET i == enf[e].id
  IN  /\ enf[e].pc = "forget" /\ LockFree
      /\ instances' = [instances EXCEPT ![i] = None]
      /\ Unbind(i)
      /\ EnfGo(e, "noting")
      /\ UNCHANGED <<departed, loaded, adapter, token, unfinished, swept, journal>> /\ EnfStep

NoteForgotten(e) ==
  LET i == enf[e].id
  IN  /\ enf[e].pc = "noting"
      /\ NoteDeparted(i)
      /\ intent' = [intent EXCEPT ![i] = "gone"]
      /\ EnfGo(e, "teardown")
      /\ UNCHANGED <<Untouched, instances, loaded, adapter, token, bindings, swept>> /\ EnfStep

EnforceEnd(e) ==
  /\ enf[e].pc = "teardown" /\ enf[e].todo = {}
  /\ enf' = [enf EXCEPT ![e] = EnfIdle]
  /\ UNCHANGED <<instances, departed, loaded, adapter, token, bindings, swept, journal>> /\ EnfStep

Enforce(e) ==
  TeardownEnd(e) \/ Forget(e) \/ NoteForgotten(e) \/ EnforceEnd(e) \/ \E i \in Iid : Teardown(e, i)

-----------------------------------------------------------------------------
(* The world: processes exit, controllers fall silent, packages are        *)
(* revoked (listed first, the generation bumped after), the daemon stops.  *)

Exit(i) ==
  /\ adapter[i] = "running" /\ Spend("exit")
  /\ adapter' = [adapter EXCEPT ![i] = "exited"]
  /\ UNCHANGED <<instances, departed, inFlight, loaded, token, bindings, tasks, revoked, revGen,
                 bumping, silent, sent, ghosts, journal>>

Silence ==
  /\ phase = "serving" /\ ~silent /\ Spend("silence")
  /\ silent' = TRUE
  /\ UNCHANGED <<host, tasks, revoked, revGen, bumping, sent, ghosts, journal>>

ListChange(i) ==
  /\ phase # "down" /\ ~bumping
  /\ bumping' = TRUE
  /\ \/ i \notin revoked /\ Spend("revoke") /\ revoked' = revoked \cup {i}
     \/ i \in revoked /\ Spend("unrevoke") /\ revoked' = revoked \ {i}
  /\ UNCHANGED <<host, tasks, revGen, silent, sent, ghosts, journal>>

ListBump ==
  /\ bumping
  /\ bumping' = FALSE /\ revGen' = revGen + 1
  /\ UNCHANGED <<host, tasks, revoked, silent, sent, left, ghosts, journal>>

(* Memory is gone and the children are killed.                             *)
HostGone ==
  /\ instances' = [i \in Iid |-> None] /\ departed' = <<>> /\ inFlight' = {}
  /\ loaded' = {} /\ adapter' = [i \in Iid |-> "absent"] /\ token' = {} /\ bound' = {}
  /\ unfinished' = [i \in Iid |-> "none"]
  /\ place' = [d \in Decision |-> PlaceIdle] /\ unloading' = None
  /\ sup' = SupIdle /\ bus' = BusIdle
  /\ enf' = [e \in Enforcer |-> EnfIdle] /\ reader' = ReaderIdle
  /\ revGen' = 0 /\ bumping' = FALSE /\ silent' = FALSE
  /\ answered' = {} /\ swept' = None
  /\ UNCHANGED <<revoked, sent, left>>

HostStops == (Crash \/ CleanShutdown) /\ HostGone

(* The daemon starts and restores what it held; it serves after that.      *)
Quiet == UNCHANGED <<host, tasks, world, ghosts>>

HostBoots ==
  \/ (Boot \/ RestoreDone \/ \E i \in Iid : RestoreTake(i)) /\ Quiet
  \/ RestorePlace
  \/ /\ cur # None /\ cur.placed
     /\ RestoreKeep
     /\ UNCHANGED <<diskChain, phase, mayStart, todo, bounds, intent, forked, backup>>
     /\ Quiet
  \/ /\ cur # None /\ ~cur.placed
     /\ LET p == place[cur.entry.decision]
        IN  \/ p.pc = "idle" /\ RestoreDrop     \* no longer a controller
            \/ p.pc = "refused" /\ p.permanent /\ RestoreDrop
            \/ /\ p.pc = "refused" /\ ~p.permanent
               /\ RestoreRetry \/ (cur.entry.failures + 1 >= MaxRestoreTries /\ RestoreDrop)
     /\ UNCHANGED <<diskChain, phase, mayStart, todo, bounds, forked, backup>>
     /\ Quiet

Place(d) ==
  \/ PlaceRefuse(d) \/ PlaceLoad(d) \/ PlaceUnbind(d) \/ PlaceLease(d) \/ PlaceList(d)
  \/ PlaceRecheck(d) \/ PlaceSwept(d) \/ PlaceStart(d)
  \/ PlaceRollBack(d) \/ PlaceRolledBack(d) \/ PlaceUnlist(d) \/ PlaceRecord(d)

JournalAppend == AppendChain /\ Quiet

Next ==
  \/ \E d \in Decision, i \in Iid, s \in BOOLEAN : PlaceEnter(d, i, s)
  \/ \E d \in Decision : Place(d)
  \/ \E i \in Iid : Start(i) \/ Stop(i) \/ UnloadBegin(i) \/ BusBegin(i)
  \/ UnloadEnd \/ StatusBegin \/ StatusEnd
  \/ Supervise
  \/ BusStop \/ BusMark
  \/ SweepBegin
  \/ \E e \in Enforcer : Enforce(e)
  \/ \E i \in Iid : Exit(i) \/ ListChange(i)
  \/ Silence \/ ListBump
  \/ JournalAppend
  \/ HostBoots
  \/ HostStops

Spec == Init /\ [][Next]_vars

(* What the runtime owes its tasks: every handler and loop that can take a *)
(* step takes it in the end (tokio polls what is ready, the map's lock is  *)
(* handed over in order), the sweep and the supervisor come round again,   *)
(* every eligible instance is due sooner or later, and a backoff, being    *)
(* capped, ends.  Nothing is owed by the world.                            *)
Due(i) == SupPick /\ i \in sup'.todo
ActOnMiss == SupApply /\ sup'.pc \in {"failed", "restartStop"}

Fairness ==
  /\ \A d \in Decision : WF_vars(Place(d))
  /\ WF_vars(UnloadEnd) /\ WF_vars(JournalAppend) /\ WF_vars(ListBump)
  /\ WF_vars(SweepBegin) /\ \A e \in Enforcer : WF_vars(Enforce(e))
  /\ WF_vars(Supervise) /\ SF_vars(ActOnMiss)
  /\ \A i \in Iid : SF_vars(Due(i))
  /\ WF_vars(BusStop) /\ WF_vars(BusMark)

FairSpec == Spec /\ Fairness

-----------------------------------------------------------------------------
(* Some task is at work on i.                                              *)
Handled(i) ==
  \/ Busy(i) \/ sup.id = i \/ bus.id = i
  \/ sup.pc \in {"lease", "leaseMark"} /\ i \in sup.todo
  \/ \E e \in Enforcer : enf[e].id = i \/ i \in enf[e].todo
  \/ cur # None /\ cur.id = i

(* host_instances.rs, instance_op: "a decision is always visible in one of *)
(* the two".  A decision whose handling had begun when STATUS was asked    *)
(* and that STATUS shows neither in flight nor listed is settled: nothing  *)
(* of it is here and nothing of it will come, so a controller may place    *)
(* the workload again.                                                     *)
StatusSettles ==
  reader.pc = "answered" =>
    \A d \in reader.began \ reader.seen : ~Active(d) /\ d \notin Listed

(* host_service.rs, note_departed: an instance this node answered for and  *)
(* no longer lists is reported as departed, so the controller does not     *)
(* take it for lost.  There are two windows in which STATUS shows it in    *)
(* neither list: a new placement of the id has taken it off the departed   *)
(* list and waits for the map, or a revocation's teardown has taken it out *)
(* of the map and is at the journal.                                       *)
GoneIsTold ==
  \A i \in answered : instances[i] = None =>
    \/ \E k \in 1..Len(departed) : departed[k] = i
    \/ \E d \in Decision : place[d].pc = "leased" /\ place[d].id = i
    \/ \E e \in Enforcer : enf[e].pc = "noting" /\ enf[e].id = i

(* place, roll_back and instance_op: whichever step of a placement or an   *)
(* unload fails, an instance that is not listed has left nothing behind:   *)
(* no process, no credential, no device, no adapter entry, no admitted     *)
(* workload, no journal entry but one kept for another try at the next     *)
(* start.  There are two exceptions.  What the adapter and its host hold   *)
(* stays where the code drops an instance whose unload failed instead of   *)
(* listing it: after a lease that failed, and a forced teardown that finds *)
(* no entry.  And a journal entry stays when an instance no UNLOAD could   *)
(* remove is placed over and that placement is rolled back.                *)
NothingLeftBehind ==
  \A i \in Iid : instances[i] = None /\ ~Handled(i) =>
    /\ i \notin token \cup bound
    /\ unfinished[i] \notin {"lease", "teardown"} => adapter[i] = "absent" /\ i \notin loaded
    /\ phase = "serving" /\ entries[i] # None =>
         entries[i].failures > 0 \/ unfinished[i] # "none"

(* A listed instance no task is at work on is known to the adapter and to  *)
(* its host, so STOP, UNLOAD and a revocation reach it, and if its place   *)
(* was answered the journal holds it.  The exception is one an unload of   *)
(* which has failed: the adapter has dropped the entry and no UNLOAD       *)
(* succeeds any more (roll_back calls what it leaves listed                *)
(* "reconcilable"; that one is not).                                       *)
ListedIsWhole ==
  \A i \in Iid : instances[i] # None /\ ~Handled(i) =>
    /\ i \notin loaded \/ adapter[i] = "absent" => unfinished[i] # "none"
    /\ i \in answered => entries[i] # None

(* tests_restart.rs: "a stopped cog is not started by a restart".  What    *)
(* the operator was last told is stopped is not meant to run, before or    *)
(* after the daemon restarts, unless a save was lost or a new request for  *)
(* it is being handled.                                                    *)
StopHolds ==
  ~faulted => \A i \in Iid :
    instances[i] # None /\ intent[i] = "stop" /\ ~Busy(i) => ~instances[i].desired

(* enforce_revocations: a sweep begun after a revocation was applied and   *)
(* ended leaves no revoked instance listed, not even one whose placement   *)
(* it overtook (that placement looks again), but for one whose directory   *)
(* it could not remove: that one's process is gone.                        *)
RevokedIsGone ==
  phase = "serving" /\ ~bumping /\ enf["sweep"].pc = "idle" /\ swept = revGen =>
    \A i \in revoked : instances[i] # None =>
      Handled(i) \/ ("rmdir" \in Faults /\ i \in loaded /\ adapter[i] = "absent")

(* InFlight: a decision does not stay in flight, whatever fails.           *)
PlaceSettles == \A d \in Decision : d \in inFlight ~> d \notin inFlight

(* host_revoke.rs: "Instances that cannot be torn down stay held [...] so  *)
(* the next call retries them".  A revoked instance goes in the end.       *)
RevokedGoes ==
  \A i \in Iid : i \in revoked /\ instances[i] # None /\ phase = "serving"
                   ~> i \notin revoked \/ instances[i] = None

(* host_supervise.rs: an instance meant to run whose process ended is      *)
(* restarted, or given up and no longer meant to run.                      *)
Down(i) == instances[i] # None /\ instances[i].desired /\ adapter[i] = "exited" /\ ~Busy(i)
DeathIsTreated == \A i \in Iid : Down(i) ~> ~Down(i)

(* The host implements the node the controller relies on, through verbs,   *)
(* failing placements and restarts.                                        *)
DecisionOf(e) == IF e = None THEN None ELSE e.decision
View ==
  INSTANCE HostView WITH
    serving  <- phase = "serving",
    handling <- inFlight,
    holding  <- [i \in Iid |-> DecisionOf(instances[i])],
    kept     <- [i \in Iid |-> DecisionOf(IF phase = "down" THEN ReadEntries[i]
                                                            ELSE entries[i])],
    told     <- {departed[k] : k \in 1..Len(departed)}
ImplementsView == View!Spec

(* The host uses its journal as JournalSpec says, so what is proved of     *)
(* JournalSpec holds of the host.                                          *)
UsesJournal == JournalSpec

-----------------------------------------------------------------------------
(* Properties the code states and does not keep (see the README).          *)

(* host_supervise.rs: "An instance the operator stopped [is] never         *)
(* restarted", and enter: "the verb wins".  Once nothing is at work on it, *)
(* a stopped instance has no running process.                              *)
StopIsFinal ==
  \A i \in Iid : intent[i] = "stop" /\ ~Handled(i) => adapter[i] # "running"

(* lifecycle.rs: a live state says "The instance is meant to be doing      *)
(* work"; Stopped is "Stopped by the operator".  Once nothing is at work   *)
(* on it, an instance STOP has stopped is not shown as live.               *)
StoppedIsShown ==
  \A i \in Iid : instances[i] # None /\ ~Handled(i)
                   /\ intent[i] = "stop" /\ adapter[i] = "stopped"
                   => ~is_live(instances[i].state)
==============================================================================
