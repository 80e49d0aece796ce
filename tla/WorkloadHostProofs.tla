-------------------------- MODULE WorkloadHostProofs --------------------------
(***************************************************************************)
(* The workload host, for every set of instances and decisions, every      *)
(* choice of faults, budgets and limits, requests that overlap or do not.  *)
(***************************************************************************)
EXTENDS WorkloadHost, HostJournalProofs, RetainProofs

(* The parts of TypeOK that are the host's, each with what a task knows at *)
(* its program points.                                                     *)
PlacePC == {"idle", "fetching", "loaded", "unbinding", "leased", "listed", "sweeping",
            "starting", "undo", "undoing", "unlisting", "recording", "refused", "done"}
PlaceType == [pc : PlacePC, id : Iid \cup {None}, start : BOOLEAN, gen : Nat,
              permanent : BOOLEAN]
SupType == [pc : {"idle", "lease", "leaseMark", "poll", "apply", "failed",
                  "restartStop", "restartStart", "restartMark"},
            todo : SUBSET Iid, id : Iid \cup {None},
            verdict : {"none", "Healthy", "Finished", "Unhealthy"}, ok : BOOLEAN]
EnfType == [pc : {"idle", "teardown", "removing", "forget", "noting"},
            todo : SUBSET Iid, id : Iid \cup {None}]

MapOK == instances \in [Iid -> Instance \cup {None}]
DepartedOK == departed \in Seq(Iid) /\ Len(departed) <= DepartedCap
AdapterOK == loaded \subseteq Iid /\ adapter \in [Iid -> AdapterState] /\ token \subseteq Iid
PlaceOK ==
  /\ inFlight \subseteq Decision
  /\ place \in [Decision -> PlaceType]
  /\ \A d \in Decision : place[d].pc # "idle" => place[d].id \in Iid
SupOK ==
  /\ sup \in SupType
  /\ sup.pc \notin {"idle", "lease", "poll"} => sup.id \in Iid
BusOK ==
  /\ bus \in [pc : {"idle", "stop", "mark"}, id : Iid \cup {None}]
  /\ bus.pc # "idle" => bus.id \in Iid
EnfOK ==
  /\ enf \in [Enforcer -> EnfType]
  /\ \A e \in Enforcer : enf[e].pc \in {"removing", "forget", "noting"} => enf[e].id \in Iid
ReaderTypeOK ==
  reader \in [pc : {"idle", "listing", "answered"},
              began : SUBSET Decision, seen : SUBSET Decision]
WorldOK ==
  /\ revoked \subseteq Iid /\ revGen \in Nat
  /\ bumping \in BOOLEAN /\ silent \in BOOLEAN
  /\ sent \subseteq Decision
  /\ left \in [Event -> Nat]
  /\ answered \subseteq Iid /\ swept \in Nat \cup {None}
UnloadingOK == unloading \in Iid \cup {None}

HostTypes ==
  /\ MapOK /\ DepartedOK /\ AdapterOK /\ PlaceOK /\ SupOK /\ BusOK /\ EnfOK
  /\ ReaderTypeOK /\ WorldOK /\ UnloadingOK

(* Nothing of the host is there while the daemon is down.                  *)
AtRest ==
  phase = "down" =>
    /\ instances = [i \in Iid |-> None] /\ place = [d \in Decision |-> PlaceIdle]
    /\ unloading = None /\ sup.pc = "idle" /\ bus.pc = "idle"
    /\ enf = [e \in Enforcer |-> EnfIdle] /\ reader.pc = "idle"
    /\ adapter = [i \in Iid |-> "absent"] /\ ~bumping

(* No task is at work on an instance the restore has still to come to.     *)
NotAhead ==
  \A i \in todo :
    /\ instances[i] = None /\ unloading # i
    /\ \A d \in Decision : place[d].id # i
    /\ \A e \in Enforcer : enf[e].id # i /\ i \notin enf[e].todo

(* The in-flight marks are those of the handlers at work.                  *)
MarksOK == \A d \in Decision : d \in inFlight <=> Active(d)

(* A decision is handled, journaled or restored only after it was sent.    *)
SentHandled == \A d \in Decision : place[d].pc # "idle" => d \in sent
SentJournaled ==
  /\ \A i \in Iid : entries[i] # None => entries[i].decision \in sent
  /\ \A i \in Iid : file.entries[i] # None => file.entries[i].decision \in sent
  /\ cur # None => cur.entry.decision \in sent

(* What a listing began without seeing is over.                            *)
Settled(d) == place[d].pc \in {"refused", "done"}
ReaderOK ==
  /\ reader.pc = "listing" => \A d \in reader.began \ reader.seen : Settled(d)
  /\ reader.pc = "answered" =>
       \A d \in reader.began \ reader.seen : Settled(d) /\ d \notin Listed

IInv ==
  /\ JournalInv /\ HostTypes
  /\ AtRest /\ NotAhead /\ MarksOK /\ SentHandled /\ SentJournaled /\ ReaderOK

-----------------------------------------------------------------------------
(* What most steps keep, part by part.                                     *)

(* Nothing new is listed, and nothing changes hands.                       *)
MapKeeps ==
  /\ MapOK'
  /\ \A i \in Iid : instances'[i] # None =>
       instances[i] # None /\ instances'[i].decision = instances[i].decision

(* What is listed stays listed under its decision, and nothing is wanted   *)
(* anew.                                                                   *)
Steady ==
  \A i \in Iid : instances[i] # None =>
    /\ instances'[i] # None /\ instances'[i].decision = instances[i].decision
    /\ instances'[i].desired => instances[i].desired

(* No handler begins, none is over and goes on.                            *)
PlaceKeeps ==
  /\ PlaceOK' /\ MarksOK'
  /\ \A d \in Decision :
       /\ place'[d].id = place[d].id
       /\ place'[d].pc = "idle" <=> place[d].pc = "idle"
       /\ Settled(d) => place'[d].pc \in {"refused", "done"}

(* An enforcement takes on listed instances only.                          *)
EnfKeeps ==
  /\ EnfOK'
  /\ \A e \in Enforcer :
       /\ enf'[e].id # None => enf'[e].id = enf[e].id \/ enf'[e].id \in enf[e].todo
       /\ \A i \in enf'[e].todo : i \in enf[e].todo \/ instances[i] # None

UnloadingKeeps ==
  /\ UnloadingOK'
  /\ unloading' # None => unloading' = unloading \/ instances[unloading'] # None

LEMMA StepKeeps ==
  ASSUME IInv, phase # "down", MapKeeps, PlaceKeeps, EnfKeeps, UnloadingKeeps,
         DepartedOK', AdapterOK', SupOK', BusOK', WorldOK', JournalInv', SentJournaled',
         UNCHANGED <<reader, phase, todo, sent>>
  PROVE  IInv'
<1>1. HostTypes'
  BY DEF HostTypes, IInv, ReaderTypeOK, MapKeeps, PlaceKeeps, EnfKeeps, UnloadingKeeps
<1>2. AtRest'
  BY DEF AtRest
<1>3. NotAhead'
  <2> SUFFICES ASSUME NEW i \in todo
               PROVE  /\ instances'[i] = None /\ unloading' # i
                      /\ \A d \in Decision : place'[d].id # i
                      /\ \A e \in Enforcer : enf'[e].id # i /\ i \notin enf'[e].todo
    BY DEF NotAhead
  <2>1. i \in Iid /\ i # None
    BY HostJournalAssumption DEF IInv, JournalInv, JournalTypeOK
  <2>2. /\ instances[i] = None /\ unloading # i
        /\ \A d \in Decision : place[d].id # i
        /\ \A e \in Enforcer : enf[e].id # i /\ i \notin enf[e].todo
    BY DEF IInv, NotAhead
  <2>3. instances'[i] = None /\ \A d \in Decision : place'[d].id # i
    BY <2>1, <2>2 DEF MapKeeps, PlaceKeeps
  <2>4. unloading' # i
    BY <2>1, <2>2 DEF UnloadingKeeps
  <2>5. \A e \in Enforcer : enf'[e].id # i /\ i \notin enf'[e].todo
    BY <2>1, <2>2 DEF EnfKeeps
  <2> QED
    BY <2>3, <2>4, <2>5
<1>4. MarksOK' /\ SentHandled'
  BY DEF PlaceKeeps, IInv, SentHandled
<1>5. ReaderOK'
  <2>1. \A d \in Decision : Settled(d) => Settled(d)'
    BY DEF PlaceKeeps, Settled
  <2>2. \A d : d \in Listed' => d \in Listed
    BY DEF MapKeeps, Listed
  <2>3. reader' = reader /\ reader.began \subseteq Decision
    BY DEF IInv, HostTypes, ReaderTypeOK
  <2> QED
    BY <2>1, <2>2, <2>3 DEF ReaderOK, IInv
<1> QED
  BY <1>1, <1>2, <1>3, <1>4, <1>5 DEF IInv

(* What is left alone is kept.                                             *)
LEMMA Kept ==
  ASSUME IInv
  PROVE  /\ UNCHANGED instances => MapKeeps
         /\ UNCHANGED <<place, inFlight>> => PlaceKeeps
         /\ UNCHANGED enf => EnfKeeps
         /\ UNCHANGED unloading => UnloadingKeeps
         /\ UNCHANGED departed => DepartedOK'
         /\ UNCHANGED <<loaded, adapter, token>> => AdapterOK'
         /\ UNCHANGED sup => SupOK'
         /\ UNCHANGED bus => BusOK'
         /\ UNCHANGED <<world, ghosts>> => WorldOK'
         /\ UNCHANGED journal => JournalInv'
         /\ UNCHANGED <<journal, sent>> => SentJournaled'
<1> USE DEF IInv, HostTypes
<1>1. UNCHANGED instances => MapKeeps
  BY DEF MapKeeps, MapOK
<1>2. UNCHANGED <<place, inFlight>> => PlaceKeeps
  BY DEF PlaceKeeps, PlaceOK, MarksOK, Active, Settled
<1>3. UNCHANGED enf => EnfKeeps
  BY DEF EnfKeeps, EnfOK
<1>4. UNCHANGED unloading => UnloadingKeeps
  BY DEF UnloadingKeeps, UnloadingOK
<1>5. UNCHANGED departed => DepartedOK'
  BY DEF DepartedOK
<1>6. UNCHANGED <<loaded, adapter, token>> => AdapterOK'
  BY DEF AdapterOK
<1>7. (UNCHANGED sup => SupOK') /\ (UNCHANGED bus => BusOK')
  BY DEF SupOK, BusOK
<1>8. UNCHANGED <<world, ghosts>> => WorldOK'
  BY DEF WorldOK, world, ghosts
<1>9. UNCHANGED journal => JournalInv'
  BY QuietKeeps
<1>10. UNCHANGED <<journal, sent>> => SentJournaled'
  BY DEF SentJournaled, journal, memory, disk, restore
<1> QED
  BY <1>1, <1>2, <1>3, <1>4, <1>5, <1>6, <1>7, <1>8, <1>9, <1>10

-----------------------------------------------------------------------------
(* Parts of steps.                                                         *)

LEMMA MapSet ==
  ASSUME MapOK, NEW i \in Iid, instances[i] # None,
         NEW p \in Instance, p.decision = instances[i].decision,
         instances' = [instances EXCEPT ![i] = p]
  PROVE  MapKeeps
BY DEF MapKeeps, MapOK

LEMMA SetSteady ==
  ASSUME MapOK, NEW i \in Iid, NEW p \in Instance, p.desired => instances[i].desired,
         p.decision = instances[i].decision, instances' = [instances EXCEPT ![i] = p]
  PROVE  Steady
BY InstanceAssumption DEF Steady, MapOK

LEMMA MapDrop ==
  ASSUME MapOK, NEW i \in Iid, instances' = [instances EXCEPT ![i] = None]
  PROVE  MapKeeps
BY DEF MapKeeps, MapOK

LEMMA EnterInstance ==
  ASSUME NEW p \in Instance, NEW s \in LifecycleState
  PROVE  /\ enter(p, s) \in Instance /\ enter(p, s).decision = p.decision
         /\ enter(p, s).desired = p.desired
<1> DEFINE n == IF s = "Running" THEN 0 ELSE p.misses
           e == [p EXCEPT !.state = s, !.misses = n]
<1>1. n \in 0..MissLimit
  BY WorkloadHostAssumption DEF Instance
<1>2. e \in Instance /\ e.decision = p.decision /\ e.desired = p.desired
  <2> HIDE DEF n
  <2> QED
    BY <1>1 DEF Instance
<1>3. enter(p, s) = e \/ enter(p, s) = p
  BY DEF enter
<1> HIDE DEF e
<1> QED
  BY <1>2, <1>3

(* Only a handler at work moves, to another point or to its end.           *)
LEMMA PlaceGo ==
  ASSUME IInv, NEW d \in Decision, Active(d),
         NEW pc \in PlacePC \ {"idle", "refused", "done"},
         Go(d, pc), UNCHANGED inFlight
  PROVE  PlaceKeeps
<1>1. place \in [Decision -> PlaceType] /\ inFlight \subseteq Decision
  BY DEF IInv, HostTypes, PlaceOK
<1>2. place' = [place EXCEPT ![d].pc = pc]
  BY DEF Go
<1>3. place' \in [Decision -> PlaceType]
  BY <1>1, <1>2 DEF PlaceType
<1>4. \A c \in Decision : place'[c].id = place[c].id /\ place'[c].pc = IF c = d THEN pc ELSE place[c].pc
  BY <1>1, <1>2 DEF PlaceType
<1>5. place[d].pc \notin {"idle", "refused", "done"}
  BY DEF Active
<1>6. PlaceOK'
  BY <1>1, <1>3, <1>4, <1>5 DEF PlaceOK, IInv, HostTypes
<1>7. MarksOK'
  BY <1>4, <1>5 DEF MarksOK, Active, IInv
<1> QED
  BY <1>4, <1>5, <1>6, <1>7 DEF PlaceKeeps, Settled

LEMMA PlaceRefused ==
  ASSUME IInv, NEW d \in Decision, Active(d), NEW permanent \in BOOLEAN,
         Refuse(d, permanent)
  PROVE  PlaceKeeps
<1>1. place \in [Decision -> PlaceType] /\ inFlight \subseteq Decision
  BY DEF IInv, HostTypes, PlaceOK
<1>2. /\ place' = [place EXCEPT ![d].pc = "refused", ![d].permanent = permanent]
      /\ inFlight' = inFlight \ {d}
  BY DEF Refuse
<1>3. place' \in [Decision -> PlaceType]
  BY <1>1, <1>2 DEF PlaceType, PlacePC
<1>4. \A c \in Decision : /\ place'[c].id = place[c].id
                          /\ place'[c].pc = IF c = d THEN "refused" ELSE place[c].pc
  BY <1>1, <1>2 DEF PlaceType
<1>5. place[d].pc \notin {"idle", "refused", "done"}
  BY DEF Active
<1>6. PlaceOK'
  BY <1>1, <1>2, <1>3, <1>4, <1>5 DEF PlaceOK, IInv, HostTypes
<1>7. MarksOK'
  BY <1>2, <1>4 DEF MarksOK, Active, IInv
<1> QED
  BY <1>4, <1>5, <1>6, <1>7 DEF PlaceKeeps, Settled

(* Who unloads.                                                            *)
Task == {"lease", "rollback", "unload", "teardown"}

(* The adapter's calls.                                                    *)
LEMMA AdapterCalls ==
  ASSUME IInv, NEW i \in Iid
  PROVE  /\ \A ok \in BOOLEAN : HostStart(i, ok) \/ HostStop(i, ok) => adapter' \in [Iid -> AdapterState]
         /\ DropEntry(i) => adapter' \in [Iid -> AdapterState]
         /\ \A ok \in BOOLEAN, by \in Task : RemoveDir(i, ok, by) => loaded' \subseteq Iid
         /\ \A by \in Task : UnloadFails(i, by) => adapter' \in [Iid -> AdapterState]
         /\ TokenOn(i) => token' \subseteq Iid
         /\ \A S : TokenOff(S) => token' \subseteq Iid
         /\ adapter \in [Iid -> AdapterState] /\ loaded \subseteq Iid /\ token \subseteq Iid
<1>1. adapter \in [Iid -> AdapterState] /\ loaded \subseteq Iid /\ token \subseteq Iid
  BY DEF IInv, HostTypes, AdapterOK
<1>2. ASSUME NEW a \in {"running", "stopped", "absent"}, adapter' = [adapter EXCEPT ![i] = a]
      PROVE  adapter' \in [Iid -> AdapterState]
  BY <1>1, <1>2 DEF AdapterState
<1>3. \A ok \in BOOLEAN : HostStart(i, ok) \/ HostStop(i, ok) => adapter' \in [Iid -> AdapterState]
  BY <1>1, <1>2 DEF HostStart, HostStop
<1>4. DropEntry(i) => adapter' \in [Iid -> AdapterState]
  BY <1>2 DEF DropEntry
<1> QED
  BY <1>1, <1>3, <1>4 DEF RemoveDir, UnloadFails, TokenOn, TokenOff

(* The daemon runs where a task is at work.                                *)
LEMMA Alive ==
  ASSUME IInv
  PROVE  /\ \A d \in Decision : place[d].pc # "idle" => phase # "down"
         /\ \A e \in Enforcer : enf[e].pc # "idle" => phase # "down"
         /\ \A i \in Iid : instances[i] # None \/ adapter[i] # "absent" => phase # "down"
         /\ unloading # None \/ sup.pc # "idle" \/ bus.pc # "idle" \/ reader.pc # "idle" \/ bumping
              => phase # "down"
         /\ cur # None => phase = "restoring"
<1>1. cur # None => phase = "restoring"
  BY DEF IInv, JournalInv, Walk
<1> QED
  BY <1>1 DEF IInv, AtRest, PlaceIdle, EnfIdle

(* Spending from the budget, and hearing a controller.                     *)
LEMMA Spent ==
  ASSUME IInv, NEW event \in Event, Spend(event), silent' \in BOOLEAN,
         UNCHANGED <<revoked, revGen, bumping, sent, ghosts>>
  PROVE  WorldOK'
<1>1. left \in [Event -> Nat]
  BY DEF IInv, HostTypes, WorldOK
<1>2. left' \in [Event -> Nat]
  BY <1>1 DEF Spend
<1> QED
  BY <1>2 DEF IInv, HostTypes, WorldOK, ghosts

-----------------------------------------------------------------------------
(* place.                                                                  *)

(* A step of a handler that lists nothing and saves nothing.               *)
PlaceStep(d) ==
  /\ Active(d) /\ place[d].id \in Iid /\ phase # "down"
  /\ PlaceKeeps /\ MapKeeps
  /\ loaded' \subseteq Iid /\ adapter' \in [Iid -> AdapterState] /\ token' \subseteq Iid
  /\ EnfKeeps /\ DepartedOK'
  /\ UNCHANGED <<unloading, sup, bus, reader, world, ghosts, journal>>

LEMMA PlaceStepKeeps ==
  ASSUME IInv, NEW d \in Decision, PlaceStep(d)
  PROVE  IInv'
<1>1. UNCHANGED <<unloading, sup, bus, reader, world, ghosts, journal>>
  BY DEF PlaceStep
<1>2. UnloadingKeeps /\ SupOK' /\ BusOK' /\ WorldOK' /\ JournalInv'
  BY <1>1, Kept
<1>3. SentJournaled'
  BY <1>1, Kept DEF world
<1>4. UNCHANGED <<reader, phase, todo, sent>>
  BY <1>1 DEF journal, restore, world
<1>5. AdapterOK'
  BY DEF PlaceStep, AdapterOK
<1> QED
  BY <1>2, <1>3, <1>4, <1>5, StepKeeps DEF PlaceStep

LEMMA AtWork ==
  ASSUME IInv, NEW d \in Decision, place[d].pc \notin {"idle", "refused", "done"}
  PROVE  Active(d) /\ place[d].id \in Iid /\ phase # "down"
BY Alive DEF Active, IInv, HostTypes, PlaceOK

LEMMA PlaceRefuseStep ==
  ASSUME IInv, NEW d \in Decision, PlaceRefuse(d)
  PROVE  IInv'
<1>1. Active(d) /\ place[d].id \in Iid /\ phase # "down"
  BY AtWork DEF PlaceRefuse
<1>2. PlaceKeeps
  BY <1>1, PlaceRefused DEF PlaceRefuse
<1>3. UNCHANGED <<instances, departed, loaded, adapter, token, unloading, sup, bus, enf,
                  reader, world, ghosts, journal>>
  BY DEF PlaceRefuse
<1>4. /\ MapKeeps /\ EnfKeeps /\ DepartedOK'
      /\ loaded' \subseteq Iid /\ adapter' \in [Iid -> AdapterState] /\ token' \subseteq Iid
  BY <1>1, <1>3, Kept, AdapterCalls
<1> QED
  BY <1>1, <1>2, <1>3, <1>4, PlaceStepKeeps DEF PlaceStep

LEMMA PlaceLoadStep ==
  ASSUME IInv, NEW d \in Decision, PlaceLoad(d)
  PROVE  IInv'
<1>1. Active(d) /\ place[d].id \in Iid /\ phase # "down"
  BY AtWork DEF PlaceLoad
<1>2. UNCHANGED <<instances, departed, inFlight, token, unloading, sup, bus, enf, reader,
                  world, ghosts, journal>>
  BY DEF PlaceLoad
<1>3. PlaceKeeps
  BY <1>1, <1>2, PlaceGo DEF PlaceLoad, PlacePC
<1>4. /\ loaded' \subseteq Iid /\ adapter' \in [Iid -> AdapterState] /\ token' \subseteq Iid
  <2>1. adapter' = [adapter EXCEPT ![place[d].id] = "idle"] /\ loaded' = loaded \cup {place[d].id}
    BY DEF PlaceLoad, HostLoad
  <2>2. token' \subseteq Iid
    BY <1>1, <1>2, AdapterCalls
  <2> QED
    BY <1>1, <2>1, <2>2, AdapterCalls DEF AdapterState
<1>5. MapKeeps /\ EnfKeeps /\ DepartedOK'
  BY <1>2, Kept
<1> QED
  BY <1>1, <1>2, <1>3, <1>4, <1>5, PlaceStepKeeps DEF PlaceStep

LEMMA PlaceUnbindStep ==
  ASSUME IInv, NEW d \in Decision, PlaceUnbind(d)
  PROVE  IInv'
<1>1. Active(d) /\ place[d].id \in Iid /\ phase # "down"
  BY AtWork DEF PlaceUnbind
<1>2. UNCHANGED <<instances, departed, unloading, sup, bus, enf, reader, world, ghosts, journal>>
  BY DEF PlaceUnbind
<1>3. PlaceKeeps
  <2>1. \/ Refuse(d, FALSE)
        \/ Go(d, "unbinding") /\ UNCHANGED inFlight
    BY DEF PlaceUnbind
  <2> QED
    BY <1>1, <2>1, PlaceGo, PlaceRefused DEF PlacePC
<1>4. /\ loaded' \subseteq Iid /\ adapter' \in [Iid -> AdapterState] /\ token' \subseteq Iid
  BY <1>1, AdapterCalls DEF PlaceUnbind, Task
<1>5. MapKeeps /\ EnfKeeps /\ DepartedOK'
  BY <1>2, Kept
<1> QED
  BY <1>1, <1>2, <1>3, <1>4, <1>5, PlaceStepKeeps DEF PlaceStep

LEMMA PlaceLeaseStep ==
  ASSUME IInv, NEW d \in Decision, PlaceLease(d)
  PROVE  IInv'
<1> DEFINE i == place[d].id
<1>1. Active(d) /\ i \in Iid /\ phase # "down"
  BY AtWork DEF PlaceLease
<1>2. UNCHANGED <<instances, inFlight, loaded, adapter, unloading, sup, bus, enf, reader, world,
                  ghosts, journal>>
  BY DEF PlaceLease
<1>3. PlaceKeeps
  BY <1>1, <1>2, PlaceGo DEF PlaceLease, PlacePC
<1>4. DepartedOK'
  <2>1. departed' = Retain(departed, Iid \ {i}) /\ departed \in Seq(Iid) /\ Len(departed) <= DepartedCap
    BY DEF PlaceLease, IInv, HostTypes, DepartedOK
  <2>2. departed' \in Seq(Iid) /\ Len(departed') <= Len(departed)
    BY <2>1, RetainKeeps
  <2> QED
    BY <2>1, <2>2, WorkloadHostAssumption DEF DepartedOK
<1>5. loaded' \subseteq Iid /\ adapter' \in [Iid -> AdapterState] /\ token' \subseteq Iid
  BY <1>1, <1>2, AdapterCalls DEF PlaceLease
<1>6. MapKeeps /\ EnfKeeps
  BY <1>2, Kept
<1> QED
  BY <1>1, <1>2, <1>3, <1>4, <1>5, <1>6, PlaceStepKeeps DEF PlaceStep

(* What EnforcePick takes on.                                              *)
LEMMA PickKeeps ==
  ASSUME IInv, NEW e \in Enforcer, EnforcePick(e)
  PROVE  EnfKeeps /\ token' \subseteq Iid
<1> DEFINE targets == {i \in Iid : instances[i] # None /\ i \in loaded /\ i \in revoked}
           new == [pc |-> "teardown", todo |-> targets, id |-> None]
<1>1. enf' = [enf EXCEPT ![e] = new] /\ token' = token \ targets
  BY DEF EnforcePick, TokenOff
<1>2. enf \in [Enforcer -> EnfType] /\ token \subseteq Iid
  BY DEF IInv, HostTypes, EnfOK, AdapterOK
<1>3. new \in EnfType /\ new.pc = "teardown" /\ new.id = None
  BY DEF EnfType
<1>4. \A i \in new.todo : instances[i] # None
  OBVIOUS
<1> HIDE DEF new, targets
<1>5. enf' \in [Enforcer -> EnfType] /\ enf'[e] = new /\ \A f \in Enforcer \ {e} : enf'[f] = enf[f]
  BY <1>1, <1>2, <1>3
<1> QED
  BY <1>1, <1>2, <1>3, <1>4, <1>5 DEF EnfKeeps, EnfOK, IInv, HostTypes

LEMMA DecisionsEnforce == Decision \subseteq Enforcer /\ "sweep" \in Enforcer
BY DEF Enforcer

LEMMA PlaceRecheckStep ==
  ASSUME IInv, NEW d \in Decision, PlaceRecheck(d)
  PROVE  IInv'
<1>1. Active(d) /\ place[d].id \in Iid /\ phase # "down"
  BY AtWork DEF PlaceRecheck
<1>2. UNCHANGED <<instances, departed, inFlight, loaded, adapter, unloading, sup, bus,
                  reader, world, ghosts, journal>>
  BY DEF PlaceRecheck
<1>3. PlaceKeeps
  <2>1. Go(d, "sweeping") \/ Go(d, "starting")
    BY DEF PlaceRecheck
  <2> QED
    BY <1>1, <1>2, <2>1, PlaceGo DEF PlacePC
<1>4. EnfKeeps /\ token' \subseteq Iid
  <2>1. EnforcePick(d) \/ UNCHANGED <<enf, token>>
    BY DEF PlaceRecheck
  <2> QED
    BY <1>1, <2>1, PickKeeps, Kept, AdapterCalls, DecisionsEnforce
<1>5. MapKeeps /\ DepartedOK' /\ loaded' \subseteq Iid /\ adapter' \in [Iid -> AdapterState]
  BY <1>1, <1>2, Kept, AdapterCalls
<1> QED
  BY <1>1, <1>2, <1>3, <1>4, <1>5, PlaceStepKeeps DEF PlaceStep

LEMMA PlaceSweptStep ==
  ASSUME IInv, NEW d \in Decision, PlaceSwept(d)
  PROVE  IInv'
<1>1. Active(d) /\ place[d].id \in Iid /\ phase # "down"
  BY AtWork DEF PlaceSwept
<1>2. UNCHANGED <<instances, departed, loaded, adapter, token, unloading, sup, bus, enf,
                  reader, world, ghosts, journal>>
  BY DEF PlaceSwept
<1>3. PlaceKeeps
  <2>1. Refuse(d, TRUE) \/ (Go(d, "starting") /\ UNCHANGED inFlight)
    BY DEF PlaceSwept
  <2> QED
    BY <1>1, <2>1, PlaceGo, PlaceRefused DEF PlacePC
<1>4. /\ MapKeeps /\ EnfKeeps /\ DepartedOK'
      /\ loaded' \subseteq Iid /\ adapter' \in [Iid -> AdapterState] /\ token' \subseteq Iid
  BY <1>1, <1>2, Kept, AdapterCalls
<1> QED
  BY <1>1, <1>2, <1>3, <1>4, PlaceStepKeeps DEF PlaceStep

LEMMA PlaceStartStep ==
  ASSUME IInv, NEW d \in Decision, PlaceStart(d)
  PROVE  IInv'
<1>1. Active(d) /\ place[d].id \in Iid /\ phase # "down"
  BY AtWork DEF PlaceStart
<1>2. UNCHANGED <<instances, departed, inFlight, loaded, token, unloading, sup, bus, enf,
                  reader, world, ghosts, journal>>
  BY DEF PlaceStart
<1>3. PlaceKeeps
  <2>1. CASE Go(d, "recording")
    BY <1>1, <1>2, <2>1, PlaceGo DEF PlacePC
  <2>2. ASSUME NEW ok \in BOOLEAN,
               place' = [place EXCEPT
                  ![d].pc = IF ok THEN "recording" ELSE "undo",
                  ![d].permanent = ~ok /\ place[d].id \in loaded /\ place[d].id \in revoked]
        PROVE  PlaceKeeps
    <3>1. PICK pc \in {"recording", "undo"}, permanent \in BOOLEAN :
            place' = [place EXCEPT ![d].pc = pc, ![d].permanent = permanent]
      BY <2>2
    <3>2. place \in [Decision -> PlaceType] /\ inFlight \subseteq Decision
      BY DEF IInv, HostTypes, PlaceOK
    <3>3. place' \in [Decision -> PlaceType]
      BY <3>1, <3>2 DEF PlaceType, PlacePC
    <3>4. \A c \in Decision : /\ place'[c].id = place[c].id
                              /\ place'[c].pc = IF c = d THEN pc ELSE place[c].pc
      BY <3>1, <3>2 DEF PlaceType
    <3>5. place[d].pc \notin {"idle", "refused", "done"} /\ pc \notin {"idle", "refused", "done"}
      BY <1>1 DEF Active
    <3>6. PlaceOK'
      BY <1>2, <3>2, <3>3, <3>4, <3>5 DEF PlaceOK, IInv, HostTypes
    <3>7. MarksOK'
      BY <1>2, <3>4, <3>5 DEF MarksOK, Active, IInv
    <3> QED
      BY <3>4, <3>5, <3>6, <3>7 DEF PlaceKeeps, Settled
  <2> QED
    BY <2>1, <2>2 DEF PlaceStart
<1>4. adapter' \in [Iid -> AdapterState]
  BY <1>1, AdapterCalls DEF PlaceStart
<1>5. MapKeeps /\ EnfKeeps /\ DepartedOK' /\ loaded' \subseteq Iid /\ token' \subseteq Iid
  BY <1>1, <1>2, Kept, AdapterCalls
<1> QED
  BY <1>1, <1>2, <1>3, <1>4, <1>5, PlaceStepKeeps DEF PlaceStep

LEMMA PlaceRollBackStep ==
  ASSUME IInv, NEW d \in Decision, PlaceRollBack(d)
  PROVE  IInv'
<1>1. Active(d) /\ place[d].id \in Iid /\ phase # "down"
  BY AtWork DEF PlaceRollBack
<1>2. UNCHANGED <<instances, departed, loaded, unloading, sup, bus, enf, reader, world,
                  ghosts, journal>>
  BY DEF PlaceRollBack
<1>3. PlaceKeeps
  <2>1. Refuse(d, place[d].permanent) \/ (Go(d, "undoing") /\ UNCHANGED inFlight)
    BY DEF PlaceRollBack
  <2>2. place[d].permanent \in BOOLEAN
    BY DEF IInv, HostTypes, PlaceOK, PlaceType
  <2> QED
    BY <1>1, <2>1, <2>2, PlaceGo, PlaceRefused DEF PlacePC
<1>4. /\ MapKeeps /\ EnfKeeps /\ DepartedOK'
      /\ loaded' \subseteq Iid /\ adapter' \in [Iid -> AdapterState] /\ token' \subseteq Iid
  BY <1>1, <1>2, Kept, AdapterCalls DEF PlaceRollBack, Task
<1> QED
  BY <1>1, <1>2, <1>3, <1>4, PlaceStepKeeps DEF PlaceStep

LEMMA PlaceRolledBackStep ==
  ASSUME IInv, NEW d \in Decision, PlaceRolledBack(d)
  PROVE  IInv'
<1>1. Active(d) /\ place[d].id \in Iid /\ phase # "down"
  BY AtWork DEF PlaceRolledBack
<1>2. UNCHANGED <<instances, departed, adapter, token, unloading, sup, bus, enf, reader, world,
                  ghosts, journal>>
  BY DEF PlaceRolledBack
<1>3. PlaceKeeps
  <2>1. Refuse(d, place[d].permanent) \/ (Go(d, "unlisting") /\ UNCHANGED inFlight)
    BY DEF PlaceRolledBack
  <2>2. place[d].permanent \in BOOLEAN
    BY DEF IInv, HostTypes, PlaceOK, PlaceType
  <2> QED
    BY <1>1, <2>1, <2>2, PlaceGo, PlaceRefused DEF PlacePC
<1>4. /\ MapKeeps /\ EnfKeeps /\ DepartedOK'
      /\ loaded' \subseteq Iid /\ adapter' \in [Iid -> AdapterState] /\ token' \subseteq Iid
  BY <1>1, <1>2, Kept, AdapterCalls DEF PlaceRolledBack, Task
<1> QED
  BY <1>1, <1>2, <1>3, <1>4, PlaceStepKeeps DEF PlaceStep

LEMMA PlaceUnlistStep ==
  ASSUME IInv, NEW d \in Decision, PlaceUnlist(d)
  PROVE  IInv'
<1>1. Active(d) /\ place[d].id \in Iid /\ phase # "down"
  BY AtWork DEF PlaceUnlist
<1>2. UNCHANGED <<departed, loaded, adapter, token, unloading, sup, bus, enf, reader, world,
                  ghosts, journal>>
  BY DEF PlaceUnlist
<1>3. PlaceKeeps
  <2>1. place[d].permanent \in BOOLEAN
    BY DEF IInv, HostTypes, PlaceOK, PlaceType
  <2> QED
    BY <1>1, <2>1, PlaceRefused DEF PlaceUnlist
<1>4. MapKeeps
  BY <1>1, MapDrop DEF PlaceUnlist, IInv, HostTypes
<1>5. /\ EnfKeeps /\ DepartedOK'
      /\ loaded' \subseteq Iid /\ adapter' \in [Iid -> AdapterState] /\ token' \subseteq Iid
  BY <1>1, <1>2, Kept, AdapterCalls
<1> QED
  BY <1>1, <1>2, <1>3, <1>4, <1>5, PlaceStepKeeps DEF PlaceStep

LEMMA EnteredKeeps ==
  ASSUME IInv, NEW d \in Decision, NEW i \in Iid, NEW start \in BOOLEAN,
         Entered(d, i, start)
  PROVE  /\ PlaceOK' /\ MarksOK'
         /\ place'[d].pc = "fetching" /\ place'[d].id = i
         /\ \A c \in Decision \ {d} : place'[c] = place[c]
<1> DEFINE new == [pc |-> "fetching", id |-> i, start |-> start, gen |-> revGen,
                   permanent |-> FALSE]
<1>1. place \in [Decision -> PlaceType] /\ inFlight \subseteq Decision /\ revGen \in Nat
  BY DEF IInv, HostTypes, PlaceOK, WorldOK
<1>2. new \in PlaceType /\ new.pc = "fetching" /\ new.id = i
  BY <1>1 DEF PlaceType, PlacePC
<1>3. place' = [place EXCEPT ![d] = new] /\ inFlight' = inFlight \cup {d}
  BY DEF Entered
<1> HIDE DEF new
<1>4. /\ place' \in [Decision -> PlaceType] /\ place'[d] = new
      /\ \A c \in Decision \ {d} : place'[c] = place[c]
  BY <1>1, <1>2, <1>3
<1>5. PlaceOK'
  BY <1>1, <1>2, <1>3, <1>4 DEF PlaceOK, IInv, HostTypes
<1>6. MarksOK'
  BY <1>2, <1>3, <1>4 DEF MarksOK, Active, IInv
<1> QED
  BY <1>2, <1>4, <1>5, <1>6

(* A new handler was not among those a listing found settled.              *)
LEMMA ReaderUnmoved ==
  ASSUME IInv, NEW d \in Decision, place[d].pc = "idle",
         \A c \in Decision \ {d} : place'[c] = place[c],
         UNCHANGED <<reader, instances>>
  PROVE  ReaderOK'
<1>1. \A c \in Decision : Settled(c) => Settled(c)'
  BY DEF Settled
<1>2. reader.began \subseteq Decision /\ Listed' = Listed
  BY DEF IInv, HostTypes, ReaderTypeOK, Listed
<1> QED
  BY <1>1, <1>2 DEF ReaderOK, IInv

LEMMA PlaceEnterStep ==
  ASSUME IInv, NEW d \in Decision, NEW i \in Iid, NEW start \in BOOLEAN,
         PlaceEnter(d, i, start)
  PROVE  IInv'
<1>1. phase = "serving" /\ d \notin sent /\ Entered(d, i, start) /\ sent' = sent \cup {d}
      /\ silent' = (silent /\ i \in Local)
  BY DEF PlaceEnter
<1>2. UNCHANGED <<instances, departed, loaded, adapter, token, unloading, sup, bus, enf,
                  reader, revoked, revGen, bumping, left, ghosts, journal>>
  BY DEF PlaceEnter
<1>3. place[d].pc = "idle" /\ todo = {}
  BY <1>1 DEF IInv, SentHandled, JournalInv, Walk
<1>4. /\ PlaceOK' /\ MarksOK'
      /\ \A c \in Decision \ {d} : place'[c] = place[c]
  BY <1>1, EnteredKeeps
<1>5. WorldOK'
  BY <1>1, <1>2 DEF IInv, HostTypes, WorldOK, ghosts
<1>6. JournalInv'
  BY <1>2, Kept
<1>7. MapOK' /\ EnfOK' /\ UnloadingOK' /\ DepartedOK' /\ AdapterOK' /\ SupOK' /\ BusOK'
  BY <1>2, Kept DEF MapKeeps, EnfKeeps, UnloadingKeeps
<1>8. HostTypes'
  BY <1>2, <1>4, <1>5, <1>7 DEF HostTypes, IInv, ReaderTypeOK
<1>9. phase' = "serving" /\ todo' = {}
  BY <1>1, <1>2, <1>3 DEF journal, restore
<1>10. SentHandled'
  BY <1>1, <1>4 DEF SentHandled, IInv
<1>11. SentJournaled'
  BY <1>1, <1>2 DEF SentJournaled, IInv, journal, memory, disk, restore
<1>12. ReaderOK'
  BY <1>2, <1>3, <1>4, ReaderUnmoved
<1> QED
  BY <1>4, <1>6, <1>8, <1>9, <1>10, <1>11, <1>12 DEF IInv, AtRest, NotAhead

LEMMA RestorePlaceStep == ASSUME IInv, RestorePlace PROVE IInv'
<1>1. cur \in Restoring /\ phase = "restoring" /\ cur.id \notin todo /\ mayStart \in BOOLEAN
  BY Alive DEF RestorePlace, IInv, JournalInv, JournalTypeOK, Walk
<1>2. PICK d \in Decision, i \in Iid, start \in BOOLEAN :
        d = cur.entry.decision /\ i = cur.id /\ start = RestoreStarts(cur)
  BY <1>1 DEF Restoring, Entry, RestoreStarts
<1>3. place[d].pc = "idle" /\ Entered(d, i, start)
  BY <1>2 DEF RestorePlace
<1>4. UNCHANGED <<instances, departed, loaded, adapter, token, unloading, sup, bus, enf,
                  reader, world, ghosts, journal>>
  BY DEF RestorePlace
<1>5. /\ PlaceOK' /\ MarksOK'
      /\ \A c \in Decision \ {d} : place'[c] = place[c]
      /\ place'[d].id = i
  BY <1>3, EnteredKeeps
<1>6. /\ MapOK' /\ EnfOK' /\ UnloadingOK' /\ DepartedOK' /\ AdapterOK' /\ SupOK' /\ BusOK'
      /\ WorldOK' /\ JournalInv'
  BY <1>4, Kept DEF MapKeeps, EnfKeeps, UnloadingKeeps
<1>7. HostTypes'
  BY <1>4, <1>5, <1>6 DEF HostTypes, IInv, ReaderTypeOK
<1>8. phase' = "restoring" /\ todo' = todo /\ sent' = sent
  BY <1>1, <1>4 DEF journal, restore, world
<1>9. NotAhead'
  <2>1. \A j \in todo : j # i
    BY <1>1, <1>2
  <2> QED
    BY <1>4, <1>5, <1>8, <2>1 DEF NotAhead, IInv
<1>10. SentHandled'
  BY <1>2, <1>5, <1>8 DEF SentHandled, SentJournaled, IInv, RestorePlace
<1>11. SentJournaled'
  BY <1>4, <1>8, Kept
<1>12. ReaderOK'
  BY <1>3, <1>4, <1>5, ReaderUnmoved
<1> QED
  BY <1>5, <1>6, <1>7, <1>8, <1>9, <1>10, <1>11, <1>12 DEF IInv, AtRest

LEMMA PlaceListStep ==
  ASSUME IInv, NEW d \in Decision, PlaceList(d)
  PROVE  IInv'
<1> DEFINE i == place[d].id
           new == [decision |-> d, state |-> "Loaded", misses |-> 0, restarts |-> 0,
                   desired |-> place[d].start, leaseStopped |-> FALSE]
           p == IF place[d].start THEN enter(new, "Running") ELSE new
<1>1. Active(d) /\ i \in Iid /\ phase # "down"
  BY AtWork DEF PlaceList
<1>2. UNCHANGED <<departed, inFlight, loaded, adapter, token, unloading, sup, bus, enf, reader,
                  world, journal>>
  BY DEF PlaceList
<1>3. PlaceKeeps
  BY <1>1, <1>2, PlaceGo DEF PlaceList, PlacePC
<1>4. p \in Instance /\ p.decision = d
  <2>1. place[d].start \in BOOLEAN
    BY DEF IInv, HostTypes, PlaceOK, PlaceType
  <2>2. new \in Instance /\ new.decision = d
    BY <2>1, WorkloadHostAssumption DEF Instance, LifecycleState
  <2>3. enter(new, "Running") \in Instance /\ enter(new, "Running").decision = d
    BY <2>2, EnterInstance DEF LifecycleState
  <2> HIDE DEF new
  <2> QED
    BY <2>2, <2>3
<1>5. instances' = [instances EXCEPT ![i] = p]
  BY DEF PlaceList
<1> HIDE DEF p
<1>6. MapOK' /\ instances'[i] = p /\ \A j \in Iid \ {i} : instances'[j] = instances[j]
  BY <1>1, <1>4, <1>5 DEF MapOK, IInv, HostTypes
<1>7. DepartedOK'
  BY <1>2, Kept
<1>8. WorldOK'
  BY <1>2 DEF PlaceList, IInv, HostTypes, WorldOK, world
<1>9. /\ EnfOK' /\ UnloadingOK' /\ AdapterOK' /\ SupOK' /\ BusOK' /\ JournalInv'
  BY <1>2, Kept DEF EnfKeeps, UnloadingKeeps
<1>10. HostTypes'
  BY <1>2, <1>3, <1>6, <1>7, <1>8, <1>9 DEF HostTypes, IInv, ReaderTypeOK, PlaceKeeps
<1>11. phase' = phase /\ todo' = todo /\ sent' = sent
  BY <1>2 DEF journal, restore, world
<1>12. NotAhead'
  <2>1. \A j \in todo : j \in Iid /\ j # i
    BY DEF NotAhead, IInv, JournalInv, JournalTypeOK
  <2> QED
    BY <1>2, <1>3, <1>6, <1>11, <2>1 DEF NotAhead, IInv, PlaceKeeps
<1>13. MarksOK' /\ SentHandled'
  BY <1>3, <1>11 DEF PlaceKeeps, IInv, SentHandled
<1>14. SentJournaled'
  BY <1>2, <1>11, Kept
<1>15. ReaderOK'
  <2>1. \A c \in Decision : Settled(c) => Settled(c)'
    BY <1>3 DEF PlaceKeeps, Settled
  <2>2. ~Settled(d)
    BY <1>1 DEF Settled, Active
  <2>3. ASSUME NEW c \in Listed', c # d PROVE c \in Listed
    <3>1. PICK j \in Iid : instances'[j] # None /\ c = instances'[j].decision
      BY DEF Listed
    <3>2. j # i
      BY <1>4, <1>6, <2>3, <3>1
    <3> QED
      BY <1>6, <3>1, <3>2 DEF Listed
  <2>4. reader' = reader /\ reader.began \subseteq Decision
    BY <1>2 DEF IInv, HostTypes, ReaderTypeOK
  <2> QED
    BY <2>1, <2>2, <2>3, <2>4 DEF ReaderOK, IInv
<1> QED
  BY <1>1, <1>9, <1>10, <1>11, <1>12, <1>13, <1>14, <1>15 DEF IInv, AtRest

-----------------------------------------------------------------------------
(* The journal's operations, conjoined with the host's steps.              *)

(* An operation on an entry the restore has not to come to any more.       *)
LEMMA OpKeepsJournal ==
  ASSUME JournalInv, phase # "down", NEW i \in Iid, i \notin todo, Operation(i),
         cur' = cur \/ cur' = None \/ (cur # None /\ cur' = [cur EXCEPT !.placed = TRUE]),
         intent' \in [Iid -> {"gone", "run", "stop"}],
         UNCHANGED <<diskChain, phase, mayStart, todo, bounds, forked, backup>>
  PROVE  JournalInv'
<1>1. /\ entries' \in EntryMap /\ SavedTypeOK' /\ Ties'
      /\ \A j \in Iid \ {i} : entries'[j] = entries[j]
  BY OperationKeeps
<1>2. cur' \in Restoring \cup {None} /\ (cur' # None => cur # None /\ cur'.id = cur.id)
  BY DEF JournalInv, JournalTypeOK, Restoring
<1>3. RestTypeOK'
  BY <1>2, InvParts DEF RestTypeOK, bounds
<1>4. Walk'
  <2>1. \A j \in todo : j \in Iid \ {i}
    BY DEF JournalInv, JournalTypeOK
  <2> QED
    BY <1>1, <1>2, <2>1 DEF JournalInv, Walk
<1> QED
  BY <1>1, <1>3, <1>4
     DEF JournalInv, JournalTypeOK, SavedTypeOK, RestTypeOK, Ties

(* What is saved was sent.                                                 *)
SentIn(new) == \A i \in Iid : new[i] # None => new[i].decision \in sent

LEMMA SaveSent ==
  ASSUME IInv, NEW new, SentIn(new), Save(new) \/ NoSave, sent' = sent,
         cur' = cur \/ cur' = None \/ (cur # None /\ cur' = [cur EXCEPT !.placed = TRUE])
  PROVE  SentJournaled'
<1>1. cur' # None => cur # None /\ cur'.entry = cur.entry
  BY DEF IInv, JournalInv, JournalTypeOK, Restoring
<1>2. entries' = new \/ entries' = entries
  BY DEF Save, NoSave
<1>3. file' = file \/ file'.entries = new
  BY DEF Save, NoSave, Signed
<1> QED
  BY <1>1, <1>2, <1>3 DEF SentJournaled, SentIn, IInv

LEMMA OpKeepsSent ==
  ASSUME IInv, NEW i \in Iid, sent' = sent,
         \/ \E e \in Entry : record(i, e) /\ e.decision \in sent
         \/ \E running \in BOOLEAN : set_desired(i, running)
         \/ \E n \in 0..(MaxRestoreTries - 1) : set_failures(i, n)
         \/ remove(i)
         \/ NoSave,
         cur' = cur \/ cur' = None \/ (cur # None /\ cur' = [cur EXCEPT !.placed = TRUE])
  PROVE  SentJournaled'
<1>1. entries \in EntryMap /\ SentIn(entries)
  BY DEF IInv, JournalInv, JournalTypeOK, SentJournaled, SentIn
<1>2. ASSUME NEW e \in Entry, record(i, e), e.decision \in sent PROVE SentJournaled'
  <2>1. SentIn([entries EXCEPT ![i] = e])
    BY <1>1, <1>2 DEF SentIn, EntryMap
  <2> QED
    BY <1>2, <2>1, SaveSent DEF record
<1>3. ASSUME NEW running \in BOOLEAN, set_desired(i, running) PROVE SentJournaled'
  <2>1. entries[i] # None => SentIn([entries EXCEPT ![i].desired = running])
    BY <1>1 DEF SentIn, EntryMap, Entry
  <2> QED
    BY <1>1, <1>3, <2>1, SaveSent DEF set_desired
<1>4. ASSUME NEW n \in 0..(MaxRestoreTries - 1), set_failures(i, n) PROVE SentJournaled'
  <2>1. entries[i] # None => SentIn([entries EXCEPT ![i].failures = n])
    BY <1>1 DEF SentIn, EntryMap, Entry
  <2> QED
    BY <1>1, <1>4, <2>1, SaveSent DEF set_failures
<1>5. ASSUME remove(i) PROVE SentJournaled'
  <2>1. SentIn([entries EXCEPT ![i] = None])
    BY <1>1 DEF SentIn, EntryMap
  <2> QED
    BY <1>1, <1>5, <2>1, SaveSent DEF remove
<1> QED
  BY <1>1, <1>2, <1>3, <1>4, <1>5, SaveSent

LEMMA IntentSet ==
  ASSUME JournalInv, NEW i, NEW word \in {"gone", "run", "stop"},
         intent' = [intent EXCEPT ![i] = word]
  PROVE  intent' \in [Iid -> {"gone", "run", "stop"}]
BY DEF JournalInv, JournalTypeOK

LEMMA PlaceRecordStep ==
  ASSUME IInv, NEW d \in Decision, PlaceRecord(d)
  PROVE  IInv'
<1>1. Active(d) /\ place[d].id \in Iid /\ phase # "down"
  BY AtWork DEF PlaceRecord
<1>2. UNCHANGED <<instances, departed, loaded, adapter, token, unloading, sup, bus, enf,
                  reader, world, diskChain, phase, bounds, forked, backup, swept>>
  BY DEF PlaceRecord
<1>3. PlaceKeeps
  <2>1. place' = [place EXCEPT ![d].pc = "done"] /\ inFlight' = inFlight \ {d}
    BY DEF PlaceRecord, Go
  <2>2. place \in [Decision -> PlaceType] /\ inFlight \subseteq Decision
    BY DEF IInv, HostTypes, PlaceOK
  <2>3. place' \in [Decision -> PlaceType]
    BY <2>1, <2>2 DEF PlaceType, PlacePC
  <2>4. \A c \in Decision : /\ place'[c].id = place[c].id
                            /\ place'[c].pc = IF c = d THEN "done" ELSE place[c].pc
    BY <2>1, <2>2 DEF PlaceType
  <2>5. place[d].pc \notin {"idle", "refused", "done"}
    BY <1>1 DEF Active
  <2>6. PlaceOK'
    BY <2>1, <2>2, <2>3, <2>4, <2>5 DEF PlaceOK, IInv, HostTypes
  <2>7. MarksOK'
    BY <2>1, <2>4 DEF MarksOK, Active, IInv
  <2> QED
    BY <2>4, <2>5, <2>6, <2>7 DEF PlaceKeeps, Settled
<1>4. WorldOK'
  BY <1>1, <1>2 DEF PlaceRecord, IInv, HostTypes, WorldOK, world
<1>5. JournalInv' /\ SentJournaled' /\ UNCHANGED todo
  <2>1. CASE cur # None
    <3>1. RestoreStep /\ UNCHANGED todo
      BY <1>2, <2>1 DEF PlaceRecord, RestoreStep
    <3>2. JournalInv'
      BY <3>1, RestoreKeeps DEF IInv
    <3> DEFINE e == [decision |-> cur.entry.decision, desired |-> RestoreStarts(cur),
                     failures |-> 0]
    <3>3. cur \in Restoring /\ mayStart \in BOOLEAN
      BY <2>1 DEF IInv, JournalInv, JournalTypeOK
    <3>4. e \in Entry /\ e.decision \in sent /\ cur.id \in Iid
      BY <2>1, <3>3, HostJournalAssumption
         DEF Entry, Restoring, RestoreStarts, IInv, SentJournaled
    <3>5. record(cur.id, e) /\ cur' = [cur EXCEPT !.placed = TRUE]
      BY <2>1 DEF PlaceRecord, RestoreRecord
    <3> HIDE DEF e
    <3>6. SentJournaled'
      BY <1>2, <2>1, <3>4, <3>5, OpKeepsSent DEF world
    <3> QED
      BY <3>1, <3>2, <3>6
  <2>2. CASE cur = None
    <3> DEFINE i == place[d].id
               e == [decision |-> d, desired |-> place[d].start, failures |-> 0]
    <3>1. e \in Entry /\ e.decision \in sent
      BY <1>1, HostJournalAssumption
         DEF Entry, IInv, HostTypes, PlaceOK, PlaceType, SentHandled, Active
    <3>2. record(i, e) /\ UNCHANGED restore
      BY <2>2 DEF PlaceRecord
    <3>3. PICK word \in {"gone", "run", "stop"} : intent' = [intent EXCEPT ![i] = word]
      BY <2>2 DEF PlaceRecord
    <3> HIDE DEF e
    <3>4. Operation(i)
      BY <3>1, <3>2 DEF Operation
    <3>5. i \notin todo
      BY DEF IInv, NotAhead
    <3>6. intent' \in [Iid -> {"gone", "run", "stop"}]
      BY <3>3, IntentSet DEF IInv
    <3>7. JournalInv'
      BY <1>1, <1>2, <3>2, <3>4, <3>5, <3>6, OpKeepsJournal DEF restore, IInv
    <3>8. SentJournaled'
      BY <1>1, <1>2, <3>1, <3>2, OpKeepsSent DEF world, restore
    <3> QED
      BY <3>2, <3>7, <3>8 DEF restore
  <2> QED
    BY <2>1, <2>2
<1>6. MapKeeps /\ EnfKeeps /\ UnloadingKeeps /\ DepartedOK' /\ AdapterOK' /\ SupOK' /\ BusOK'
  BY <1>2, Kept
<1>7. UNCHANGED <<reader, phase, todo, sent>>
  BY <1>2, <1>5 DEF world
<1> QED
  BY <1>1, <1>3, <1>4, <1>5, <1>6, <1>7, StepKeeps

LEMMA PlaceStepsKeep ==
  ASSUME IInv, NEW d \in Decision, Place(d)
  PROVE  IInv'
BY PlaceRefuseStep, PlaceLoadStep, PlaceUnbindStep, PlaceLeaseStep, PlaceListStep,
   PlaceRecheckStep, PlaceSweptStep, PlaceStartStep, PlaceRollBackStep, PlaceRolledBackStep,
   PlaceUnlistStep, PlaceRecordStep
   DEF Place

-----------------------------------------------------------------------------
(* The verbs.                                                              *)

LEMMA RequestedKeeps ==
  ASSUME IInv, NEW i \in Iid, Requested(i), UNCHANGED ghosts
  PROVE  /\ phase = "serving" /\ phase # "down" /\ todo = {} /\ WorldOK' /\ sent' = sent
         /\ instances[i] \in Instance /\ instances[i] # None /\ MapOK
<1>1. silent' \in BOOLEAN
  BY DEF Requested, IInv, HostTypes, WorldOK
<1>2. WorldOK'
  BY <1>1, Spent DEF Requested, Event
<1> QED
  BY <1>2 DEF Requested, IInv, HostTypes, MapOK, JournalInv, Walk

(* What START makes of an instance.                                        *)
LEMMA StartedInstance ==
  ASSUME NEW p \in Instance
  PROVE  LET on == [p EXCEPT !.desired = TRUE, !.leaseStopped = FALSE,
                             !.misses = 0, !.restarts = 0]
         IN  on \in Instance /\ on.decision = p.decision
<1>1. 0 \in 0..MissLimit /\ 0 \in 0..MaxRestarts
  BY WorkloadHostAssumption
<1>2. PICK m \in 0..MissLimit, r \in 0..MaxRestarts : m = 0 /\ r = 0
  BY <1>1
<1> DEFINE both == [p EXCEPT !.desired = TRUE, !.leaseStopped = FALSE]
<1>3. both \in Instance /\ both.decision = p.decision
  BY DEF Instance
<1>4. PICK q \in Instance : q = both /\ q.decision = p.decision
  BY <1>3
<1>5. /\ [q EXCEPT !.misses = m, !.restarts = r] \in Instance
      /\ [q EXCEPT !.misses = m, !.restarts = r].decision = p.decision
  BY <1>4 DEF Instance
<1>6. [p EXCEPT !.desired = TRUE, !.leaseStopped = FALSE, !.misses = 0, !.restarts = 0]
        = [q EXCEPT !.misses = m, !.restarts = r]
  BY <1>2, <1>4 DEF Instance
<1> QED
  BY <1>5, <1>6

LEMMA StartStep ==
  ASSUME IInv, NEW i \in Iid, Start(i)
  PROVE  /\ IInv'
         /\ \A j \in Iid : /\ instances[j] # None =>
                                instances'[j] # None /\ instances'[j].decision = instances[j].decision
                           /\ j # i => instances'[j] = instances[j]
<1>1. Requested(i) /\ TokenOn(i) /\ UNCHANGED <<departed, inFlight, loaded, tasks, ghosts>>
  BY DEF Start
<1>2. /\ phase # "down" /\ todo = {} /\ WorldOK' /\ sent' = sent
      /\ instances[i] \in Instance /\ instances[i] # None /\ MapOK
  BY <1>1, RequestedKeeps
<1>3. AdapterOK'
  BY <1>1, AdapterCalls DEF Start, AdapterOK
<1>4. PlaceKeeps /\ EnfKeeps /\ UnloadingKeeps /\ DepartedOK' /\ SupOK' /\ BusOK' /\ reader' = reader
  BY <1>1, Kept DEF tasks
<1>5. CASE UNCHANGED <<instances, journal>>
  <2>1. MapKeeps /\ JournalInv' /\ SentJournaled'
    BY <1>2, <1>5, Kept
  <2>2. UNCHANGED <<phase, todo>>
    BY <1>5 DEF journal, restore
  <2> QED
    BY <1>2, <1>3, <1>4, <1>5, <2>1, <2>2, StepKeeps
<1>6. CASE ~UNCHANGED <<instances, journal>>
  <2> DEFINE on == [instances[i] EXCEPT !.desired = TRUE, !.leaseStopped = FALSE,
                                        !.misses = 0, !.restarts = 0]
  <2>1. /\ set_desired(i, TRUE) /\ intent' = [intent EXCEPT ![i] = "run"]
        /\ instances' = [instances EXCEPT ![i] = enter(on, "Running")]
        /\ UNCHANGED Untouched
    BY <1>6 DEF Start
  <2>2. on \in Instance /\ on.decision = instances[i].decision
    BY <1>2, StartedInstance
  <2>3. enter(on, "Running") \in Instance /\ enter(on, "Running").decision = instances[i].decision
    BY <2>2, EnterInstance DEF LifecycleState
  <2>4. MapKeeps
    <3> HIDE DEF on
    <3> QED
      BY <1>2, <2>1, <2>3, MapSet
  <2>5. Operation(i)
    BY <2>1 DEF Operation
  <2>6. JournalInv'
    BY <1>1, <2>1, <2>5, ServingKeeps DEF IInv, Requested
  <2>7. UNCHANGED <<phase, todo, cur>>
    BY <2>1 DEF Untouched, restore
  <2>8. SentJournaled'
    BY <1>2, <2>1, <2>7, OpKeepsSent
  <2>9. \A j \in Iid : /\ instances[j] # None =>
                            instances'[j] # None /\ instances'[j].decision = instances[j].decision
                       /\ j # i => instances'[j] = instances[j]
    <3> HIDE DEF on
    <3> QED
      BY <1>2, <2>1, <2>3, InstanceAssumption DEF MapOK
  <2> QED
    BY <1>2, <1>3, <1>4, <2>4, <2>6, <2>7, <2>8, <2>9, StepKeeps
<1> QED
  BY <1>5, <1>6

LEMMA StopStep ==
  ASSUME IInv, NEW i \in Iid, Stop(i)
  PROVE  IInv' /\ Steady /\ ~instances'[i].desired
<1> DEFINE off == [instances[i] EXCEPT !.desired = FALSE, !.leaseStopped = FALSE]
<1>1. /\ Requested(i) /\ TokenOff({i}) /\ set_desired(i, FALSE)
      /\ intent' = [intent EXCEPT ![i] = "stop"]
      /\ UNCHANGED <<Untouched, departed, inFlight, loaded, tasks, ghosts>>
  BY DEF Stop
<1>2. PICK ok \in BOOLEAN : /\ HostStop(i, ok)
                           /\ instances' = [instances EXCEPT ![i] = IF ok THEN enter(off, "Stopped") ELSE off]
  BY DEF Stop
<1>3. /\ phase # "down" /\ todo = {} /\ WorldOK' /\ sent' = sent
      /\ instances[i] \in Instance /\ instances[i] # None /\ MapOK
  BY <1>1, RequestedKeeps
<1>4. off \in Instance /\ off.decision = instances[i].decision /\ ~off.desired
  BY <1>3 DEF Instance
<1> HIDE DEF off
<1>5. /\ enter(off, "Stopped") \in Instance /\ enter(off, "Stopped").decision = instances[i].decision
      /\ ~enter(off, "Stopped").desired
  BY <1>4, EnterInstance DEF LifecycleState
<1>6. MapKeeps /\ Steady /\ ~instances'[i].desired
  <2>1. MapKeeps /\ Steady
    BY <1>2, <1>3, <1>4, <1>5, MapSet, SetSteady
  <2>2. ~instances'[i].desired
    BY <1>2, <1>3, <1>4, <1>5 DEF MapOK
  <2> QED
    BY <2>1, <2>2
<1>7. AdapterOK'
  BY <1>1, <1>2, AdapterCalls DEF AdapterOK
<1>8. PlaceKeeps /\ EnfKeeps /\ UnloadingKeeps /\ DepartedOK' /\ SupOK' /\ BusOK' /\ reader' = reader
  BY <1>1, Kept DEF tasks
<1>9. Operation(i)
  BY <1>1 DEF Operation
<1>10. JournalInv'
  BY <1>1, <1>9, ServingKeeps DEF IInv, Requested
<1>11. UNCHANGED <<phase, todo, cur>>
  BY <1>1 DEF Untouched, restore
<1>12. SentJournaled'
  BY <1>1, <1>3, <1>11, OpKeepsSent
<1> QED
  BY <1>3, <1>6, <1>7, <1>8, <1>10, <1>11, <1>12, StepKeeps

LEMMA UnloadBeginStep ==
  ASSUME IInv, NEW i \in Iid, UnloadBegin(i)
  PROVE  IInv'
<1>1. /\ Requested(i) /\ TokenOff({i})
      /\ UNCHANGED <<instances, departed, inFlight, loaded, place, sup, bus, enf, reader,
                     ghosts, journal>>
  BY DEF UnloadBegin
<1>2. /\ phase # "down" /\ WorldOK' /\ sent' = sent /\ instances[i] # None
  BY <1>1, RequestedKeeps
<1>3. AdapterOK'
  BY <1>1, AdapterCalls DEF UnloadBegin, AdapterOK, Task
<1>4. UnloadingKeeps
  <2>1. unloading' = i \/ unloading' = unloading
    BY DEF UnloadBegin
  <2> QED
    BY <1>2, <2>1 DEF UnloadingKeeps, UnloadingOK, IInv, HostTypes
<1>5. /\ MapKeeps /\ PlaceKeeps /\ EnfKeeps /\ DepartedOK' /\ SupOK' /\ BusOK'
      /\ JournalInv' /\ SentJournaled'
  BY <1>1, <1>2, Kept
<1>6. UNCHANGED <<reader, phase, todo, sent>>
  BY <1>1, <1>2 DEF journal, restore
<1> QED
  BY <1>2, <1>3, <1>4, <1>5, <1>6, StepKeeps

(* note_departed.                                                          *)
LEMMA NoteDepartedKeeps ==
  ASSUME IInv, phase # "down", NEW i \in Iid, i \notin todo, NoteDeparted(i),
         intent' = [intent EXCEPT ![i] = "gone"], sent' = sent, UNCHANGED Untouched
  PROVE  DepartedOK' /\ JournalInv' /\ SentJournaled' /\ UNCHANGED <<phase, todo>>
<1>1. remove(i) /\ Operation(i)
  BY DEF NoteDeparted, Operation
<1>2. UNCHANGED <<diskChain, phase, mayStart, todo, cur, bounds, forked, backup>>
  BY DEF Untouched, restore
<1>3. intent' \in [Iid -> {"gone", "run", "stop"}]
  BY IntentSet DEF IInv
<1>4. JournalInv'
  BY <1>1, <1>2, <1>3, OpKeepsJournal DEF IInv
<1>5. SentJournaled'
  BY <1>1, <1>2, OpKeepsSent
<1>6. DepartedOK'
  <2>1. departed \in Seq(Iid) /\ Len(departed) <= DepartedCap
    BY DEF IInv, HostTypes, DepartedOK
  <2>2. CASE Len(departed) >= DepartedCap
    <3>1. Tail(departed) \in Seq(Iid) /\ Len(Tail(departed)) = Len(departed) - 1
      BY <2>1, <2>2, WorkloadHostAssumption
    <3>2. departed' = Append(Tail(departed), i)
      BY <2>2 DEF NoteDeparted
    <3> QED
      BY <2>1, <3>1, <3>2, WorkloadHostAssumption DEF DepartedOK
  <2>3. CASE ~(Len(departed) >= DepartedCap)
    <3>1. departed' = Append(departed, i)
      BY <2>3 DEF NoteDeparted
    <3> QED
      BY <2>1, <2>3, <3>1, WorkloadHostAssumption DEF DepartedOK
  <2> QED
    BY <2>2, <2>3
<1> QED
  BY <1>2, <1>4, <1>5, <1>6

LEMMA UnloadEndStep == ASSUME IInv, UnloadEnd PROVE IInv'
<1>1. unloading \in Iid /\ unloading \notin todo /\ phase # "down"
  BY Alive DEF UnloadEnd, IInv, HostTypes, UnloadingOK, NotAhead
<1>2. /\ unloading' = None
      /\ UNCHANGED <<inFlight, adapter, token, place, sup, bus, enf, reader, world, ghosts>>
  BY DEF UnloadEnd
<1>3. /\ PlaceKeeps /\ EnfKeeps /\ SupOK' /\ BusOK' /\ WorldOK' /\ UNCHANGED <<reader, sent>>
  BY <1>2, Kept DEF world
<1>4. UnloadingKeeps
  BY <1>2 DEF UnloadingKeeps, UnloadingOK
<1>5. AdapterOK'
  BY <1>1, <1>2, AdapterCalls DEF UnloadEnd, AdapterOK, Task
<1>6. MapKeeps /\ DepartedOK' /\ JournalInv' /\ SentJournaled' /\ UNCHANGED <<phase, todo>>
  <2>1. CASE UNCHANGED <<instances, departed, journal>>
    BY <1>3, <2>1, Kept DEF journal, restore
  <2>2. CASE ~UNCHANGED <<instances, departed, journal>>
    <3>1. /\ instances' = [instances EXCEPT ![unloading] = None]
          /\ NoteDeparted(unloading) /\ intent' = [intent EXCEPT ![unloading] = "gone"]
          /\ UNCHANGED Untouched
      BY <2>2 DEF UnloadEnd
    <3>2. MapKeeps
      BY <1>1, <3>1, MapDrop DEF IInv, HostTypes
    <3> QED
      BY <1>1, <1>3, <3>1, <3>2, NoteDepartedKeeps
  <2> QED
    BY <2>1, <2>2
<1> QED
  BY <1>1, <1>3, <1>4, <1>5, <1>6, StepKeeps

(* STATUS reads the marks before the map: a decision leaves the marks only *)
(* when it is over, and comes onto the map only while it is at work.       *)
LEMMA StatusBeginStep == ASSUME IInv, StatusBegin PROVE IInv'
<1> DEFINE began == {d \in Decision : place[d].pc # "idle"}
           new == [pc |-> "listing", seen |-> inFlight, began |-> began]
<1>1. /\ phase = "serving" /\ Spend("status") /\ reader' = new
      /\ UNCHANGED <<host, place, unloading, sup, bus, enf, revoked, revGen, bumping, silent,
                     sent, ghosts, journal>>
  BY DEF StatusBegin
<1>2. /\ new \in [pc : {"idle", "listing", "answered"}, began : SUBSET Decision, seen : SUBSET Decision]
      /\ new.pc = "listing" /\ new.began = began /\ new.seen = inFlight
  BY DEF IInv, HostTypes, PlaceOK
<1> HIDE DEF new
<1>3. WorldOK'
  <2>1. silent' \in BOOLEAN /\ UNCHANGED <<revoked, revGen, bumping, sent, ghosts>>
    BY <1>1 DEF IInv, HostTypes, WorldOK
  <2> QED
    BY <1>1, <2>1, Spent DEF Event
<1>4. UNCHANGED <<instances, departed, inFlight, loaded, adapter, token, sent, phase, todo>>
  BY <1>1 DEF host, journal, restore
<1>5. /\ MapOK' /\ PlaceOK' /\ MarksOK' /\ EnfOK' /\ UnloadingOK' /\ DepartedOK' /\ AdapterOK'
      /\ SupOK' /\ BusOK' /\ JournalInv' /\ SentJournaled'
  BY <1>1, <1>4, Kept DEF MapKeeps, PlaceKeeps, EnfKeeps, UnloadingKeeps
<1>6. HostTypes'
  BY <1>1, <1>2, <1>3, <1>5 DEF HostTypes, ReaderTypeOK
<1>7. AtRest' /\ NotAhead' /\ SentHandled'
  BY <1>1, <1>4 DEF AtRest, NotAhead, SentHandled, IInv
<1>8. ReaderOK'
  <2>1. \A d \in began \ inFlight : Settled(d)
    BY DEF IInv, MarksOK, Active, Settled
  <2> QED
    BY <1>1, <1>2, <2>1 DEF ReaderOK, Settled
<1> QED
  BY <1>5, <1>6, <1>7, <1>8 DEF IInv

LEMMA StatusEndStep == ASSUME IInv, StatusEnd PROVE IInv'
<1>1. /\ reader.pc = "listing" /\ reader' = [reader EXCEPT !.pc = "answered", !.seen = @ \cup Listed]
      /\ UNCHANGED <<host, place, unloading, sup, bus, enf, world, ghosts, journal>>
  BY DEF StatusEnd
<1>2. /\ MapOK /\ reader \in [pc : {"idle", "listing", "answered"},
                              began : SUBSET Decision, seen : SUBSET Decision]
  BY DEF IInv, HostTypes, ReaderTypeOK
<1>3. Listed \subseteq Decision
  BY <1>2 DEF Listed, MapOK, Instance
<1>4. /\ reader' \in [pc : {"idle", "listing", "answered"}, began : SUBSET Decision, seen : SUBSET Decision]
      /\ reader'.pc = "answered" /\ reader'.began = reader.began /\ reader'.seen = reader.seen \cup Listed
  BY <1>1, <1>2, <1>3
<1>5. UNCHANGED <<instances, departed, inFlight, loaded, adapter, token, sent, bumping, phase, todo>>
  BY <1>1 DEF host, journal, restore, world
<1>6. /\ MapOK' /\ PlaceOK' /\ MarksOK' /\ EnfOK' /\ UnloadingOK' /\ DepartedOK' /\ AdapterOK'
      /\ SupOK' /\ BusOK' /\ WorldOK' /\ JournalInv' /\ SentJournaled'
  BY <1>1, <1>5, Kept DEF MapKeeps, PlaceKeeps, EnfKeeps, UnloadingKeeps
<1>7. HostTypes'
  BY <1>4, <1>6 DEF HostTypes, ReaderTypeOK
<1>8. phase # "down"
  BY <1>1, Alive
<1>9. AtRest' /\ NotAhead' /\ SentHandled'
  BY <1>1, <1>5, <1>8 DEF AtRest, NotAhead, SentHandled, IInv
<1>10. ReaderOK'
  <2>1. \A d \in reader.began \ reader.seen : Settled(d)
    BY <1>1 DEF IInv, ReaderOK
  <2>2. Listed' = Listed
    BY <1>5 DEF Listed
  <2> QED
    BY <1>1, <1>4, <2>1, <2>2 DEF ReaderOK, Settled
<1> QED
  BY <1>6, <1>7, <1>9, <1>10 DEF IInv

-----------------------------------------------------------------------------
(* supervise.                                                              *)

LEMMA SupStepKeeps ==
  ASSUME IInv, phase # "down", MapKeeps, SupOK', SupStep,
         adapter' \in [Iid -> AdapterState], token' \subseteq Iid
  PROVE  IInv'
<1>1. UNCHANGED <<departed, inFlight, loaded, place, unloading, bus, enf, reader, world,
                  ghosts, journal>>
  BY DEF SupStep
<1>2. /\ PlaceKeeps /\ EnfKeeps /\ UnloadingKeeps /\ DepartedOK' /\ BusOK' /\ WorldOK'
      /\ JournalInv' /\ sent' = sent
  BY <1>1, Kept DEF world
<1>3. SentJournaled' /\ UNCHANGED <<reader, phase, todo, sent>>
  BY <1>1, <1>2, Kept DEF journal, restore
<1>4. AdapterOK'
  BY <1>1 DEF AdapterOK, IInv, HostTypes
<1> QED
  BY <1>2, <1>3, <1>4, StepKeeps

LEMMA SupParts ==
  ASSUME IInv
  PROVE  /\ sup \in SupType /\ MapOK /\ sup.todo \subseteq Iid
         /\ sup.pc # "idle" => phase # "down"
         /\ sup.pc \notin {"idle", "lease", "poll"} => sup.id \in Iid
         /\ adapter \in [Iid -> AdapterState] /\ token \subseteq Iid /\ loaded \subseteq Iid
BY Alive DEF IInv, HostTypes, SupOK, AdapterOK, SupType

LEMMA SupIdleOK ==
  /\ SupIdle \in SupType /\ SupIdle.pc = "idle"
  /\ \A t \in SUBSET Iid, pc \in {"lease", "poll"} :
       /\ [SupIdle EXCEPT !.pc = pc, !.todo = t] \in SupType
       /\ [SupIdle EXCEPT !.pc = pc, !.todo = t].pc = pc
<1>1. SupIdle \in SupType /\ SupIdle.pc = "idle"
  BY DEF SupIdle, SupType
<1>2. ASSUME NEW t \in SUBSET Iid, NEW pc \in {"lease", "poll"}
      PROVE  [SupIdle EXCEPT !.pc = pc, !.todo = t] \in SupType
             /\ [SupIdle EXCEPT !.pc = pc, !.todo = t].pc = pc
  BY <1>1 DEF SupType
<1> QED
  BY <1>1, <1>2

LEMMA NextPollOK == ASSUME IInv, NextPoll PROVE SupOK'
<1>1. sup' = SupIdle \/ sup' = [SupIdle EXCEPT !.pc = "poll", !.todo = sup.todo]
  BY DEF NextPoll
<1> QED
  BY <1>1, SupParts, SupIdleOK DEF SupOK

LEMMA ThenOK ==
  ASSUME IInv, sup.id \in Iid, NEW pc \in {"failed", "restartStop", "restartStart"}, Then(pc)
  PROVE  SupOK'
<1>1. sup' \in SupType /\ sup'.id = sup.id /\ sup'.pc = pc
  BY SupParts DEF Then, SupType
<1> QED
  BY <1>1 DEF SupOK

LEMMA SupLeaseStep == ASSUME IInv, SupLease PROVE IInv' /\ Steady
<1> DEFINE targets == {i \in Continuous \ Local :
                         /\ silent /\ instances[i] # None
                         /\ instances[i].desired /\ is_live(instances[i].state)}
<1>1. /\ phase # "down" /\ SupStep /\ UNCHANGED adapter /\ TokenOff(targets)
      /\ sup' = [SupIdle EXCEPT !.pc = "lease", !.todo = targets]
      /\ instances' = [i \in Iid |-> IF i \in targets
                                       THEN [instances[i] EXCEPT !.desired = FALSE]
                                       ELSE instances[i]]
  BY DEF SupLease
<1>2. targets \subseteq Iid /\ \A i \in targets : instances[i] # None
  BY WorkloadHostAssumption
<1> HIDE DEF targets
<1>3. SupOK'
  BY <1>1, <1>2, SupIdleOK DEF SupOK
<1>4. ASSUME NEW i \in Iid
      PROVE  /\ instances'[i] \in Instance \cup {None}
             /\ instances'[i] # None => /\ instances[i] # None
                                        /\ instances'[i].decision = instances[i].decision
             /\ instances[i] # None => /\ instances'[i] # None
                                       /\ instances'[i].desired => instances[i].desired
  <2>1. CASE i \in targets
    <3>1. instances[i] \in Instance /\ instances'[i] = [instances[i] EXCEPT !.desired = FALSE]
      BY <1>1, <1>2, <2>1, SupParts DEF MapOK
    <3>2. PICK p \in Instance : p = instances[i]
      BY <3>1
    <3>3. PICK q \in Instance : q = [p EXCEPT !.desired = FALSE]
      BY DEF Instance
    <3>4. q.decision = p.decision /\ ~q.desired /\ q # None
      BY <3>3, InstanceAssumption DEF Instance
    <3> QED
      BY <1>2, <2>1, <3>1, <3>2, <3>3, <3>4
  <2>2. CASE i \notin targets
    BY <1>1, <2>2, SupParts DEF MapOK
  <2> QED
    BY <2>1, <2>2
<1>5. MapKeeps /\ Steady
  BY <1>1, <1>4 DEF MapKeeps, MapOK, Steady
<1>6. adapter' \in [Iid -> AdapterState] /\ token' \subseteq Iid
  BY <1>1, SupParts DEF TokenOff
<1> QED
  BY <1>1, <1>3, <1>5, <1>6, SupStepKeeps

LEMMA SupLeaseStopStep ==
  ASSUME IInv, NEW i \in Iid, SupLeaseStop(i)
  PROVE  IInv'
<1>1. PICK ok \in BOOLEAN :
        /\ HostStop(i, ok)
        /\ sup' = [sup EXCEPT !.pc = "leaseMark", !.todo = @ \ {i}, !.id = i, !.ok = ok]
  BY DEF SupLeaseStop
<1>2. sup.pc = "lease" /\ UNCHANGED <<instances, token>> /\ SupStep
  BY DEF SupLeaseStop
<1>3. SupOK'
  <2>1. PICK t \in SUBSET Iid : t = sup.todo \ {i}
    BY SupParts
  <2>2. sup' = [sup EXCEPT !.pc = "leaseMark", !.todo = t, !.id = i, !.ok = ok]
    BY <1>1, <2>1, SupParts DEF SupType
  <2>3. sup' \in SupType /\ sup'.id = i
    BY <2>2, SupParts DEF SupType
  <2> QED
    BY <2>3 DEF SupOK
<1>4. MapKeeps /\ adapter' \in [Iid -> AdapterState] /\ token' \subseteq Iid
  BY <1>1, <1>2, Kept, AdapterCalls
<1> QED
  BY <1>2, <1>3, <1>4, SupParts, SupStepKeeps

(* Under the lock, an instance still listed enters a state.                *)
LEMMA MarkKeeps ==
  ASSUME MapOK, NEW i \in Iid, NEW s \in LifecycleState,
         NEW p, instances[i] # None => /\ p \in Instance /\ p.decision = instances[i].decision
                                       /\ p.desired = instances[i].desired,
         instances' = IF instances[i] = None THEN instances
                      ELSE [instances EXCEPT ![i] = enter(p, s)]
  PROVE  MapKeeps /\ Steady
<1>1. CASE instances[i] = None
  BY <1>1 DEF MapKeeps, MapOK, Steady
<1>2. CASE instances[i] # None
  <2>1. /\ enter(p, s) \in Instance /\ enter(p, s).decision = instances[i].decision
        /\ enter(p, s).desired = instances[i].desired
    BY <1>2, EnterInstance
  <2> QED
    BY <1>2, <2>1, MapSet, SetSteady
<1> QED
  BY <1>1, <1>2

LEMMA SupLeaseMarkStep == ASSUME IInv, SupLeaseMark PROVE IInv' /\ Steady
<1> DEFINE i == sup.id
           p == [instances[i] EXCEPT !.leaseStopped = sup.ok]
<1>1. /\ sup.pc = "leaseMark" /\ UNCHANGED <<adapter, token>> /\ SupStep
      /\ instances' = IF instances[i] = None THEN instances
                      ELSE [instances EXCEPT ![i] = enter(p, "Stopped")]
      /\ sup' = [sup EXCEPT !.pc = "lease", !.id = None, !.ok = FALSE]
  BY DEF SupLeaseMark
<1>2. i \in Iid /\ MapOK /\ sup \in SupType /\ phase # "down"
  BY <1>1, SupParts
<1>3. instances[i] # None => /\ p \in Instance /\ p.decision = instances[i].decision
                             /\ p.desired = instances[i].desired
  BY <1>2 DEF MapOK, Instance, SupType
<1> HIDE DEF p
<1>4. MapKeeps /\ Steady
  BY <1>1, <1>2, <1>3, MarkKeeps DEF LifecycleState
<1>5. SupOK'
  <2>1. sup' \in SupType /\ sup'.pc = "lease"
    BY <1>1, <1>2 DEF SupType
  <2> QED
    BY <2>1 DEF SupOK
<1>6. adapter' \in [Iid -> AdapterState] /\ token' \subseteq Iid
  BY <1>1, SupParts
<1> QED
  BY <1>1, <1>2, <1>4, <1>5, <1>6, SupStepKeeps

LEMMA SupPickStep == ASSUME IInv, SupPick PROVE IInv'
<1>1. sup.pc = "lease" /\ UNCHANGED <<instances, adapter, token>> /\ SupStep
  BY DEF SupPick
<1>2. PICK due \in SUBSET loaded :
        sup' = IF due = {} THEN SupIdle ELSE [sup EXCEPT !.pc = "poll", !.todo = due]
  BY DEF SupPick
<1>3. SupOK'
  <2>1. CASE sup' = SupIdle
    BY <2>1, SupIdleOK DEF SupOK
  <2>2. CASE sup' = [sup EXCEPT !.pc = "poll", !.todo = due]
    <3>1. PICK t \in SUBSET Iid : t = due
      BY SupParts
    <3>2. sup' \in SupType /\ sup'.pc = "poll"
      BY <2>2, <3>1, SupParts DEF SupType
    <3> QED
      BY <3>2 DEF SupOK
  <2> QED
    BY <1>2, <2>1, <2>2
<1>4. MapKeeps
  BY <1>1, Kept
<1> QED
  BY <1>1, <1>3, <1>4, SupParts, SupStepKeeps

LEMMA SupPollStep == ASSUME IInv, NEW i \in Iid, SupPoll(i) PROVE IInv'
<1>1. sup.pc = "poll" /\ UNCHANGED <<instances, adapter, token>> /\ SupStep
  BY DEF SupPoll
<1>2. PICK v \in Verdicts(i) :
        sup' = [sup EXCEPT !.pc = "apply", !.todo = @ \ {i}, !.id = i, !.verdict = v]
  BY DEF SupPoll
<1>3. v \in {"none", "Healthy", "Finished", "Unhealthy"}
  <2>1. \/ v \in {"Healthy"} \/ v \in {"Healthy", "Unhealthy"} \/ v \in {"Unhealthy"}
        \/ v \in {"Unhealthy"} \cup (IF i \in Continuous THEN {} ELSE {"Finished"})
    BY <1>2 DEF Verdicts
  <2> QED
    BY <2>1
<1>4. SupOK'
  <2>1. PICK t \in SUBSET Iid : t = sup.todo \ {i}
    BY SupParts
  <2>2. sup' = [sup EXCEPT !.pc = "apply", !.todo = t, !.id = i, !.verdict = v]
    BY <1>2, <2>1, SupParts DEF SupType
  <2>3. sup' \in SupType /\ sup'.id = i
    BY <1>3, <2>2, SupParts DEF SupType
  <2> QED
    BY <2>3 DEF SupOK
<1>5. MapKeeps
  BY <1>1, Kept
<1> QED
  BY <1>1, <1>4, <1>5, SupParts, SupStepKeeps

LEMMA SupApplyStep == ASSUME IInv, SupApply PROVE IInv' /\ Steady
<1> DEFINE i == sup.id
           p == instances[i]
           missed == IF p = None THEN p
                     ELSE [p EXCEPT !.misses = IF @ < MissLimit THEN @ + 1 ELSE @]
           sick == IF p = None THEN p
                   ELSE IF p.state = "Running" THEN enter(missed, "Unhealthy") ELSE missed
           well == [p EXCEPT !.misses = 0]
           off == [p EXCEPT !.desired = FALSE]
           out == [sick EXCEPT !.desired = FALSE]
           again(n) == [enter(sick, "Restarting") EXCEPT !.restarts = n]
           Follows(q) == q.decision = p.decision /\ (q.desired => p.desired)
<1>1. sup.pc = "apply" /\ UNCHANGED <<adapter, token>> /\ SupStep
  BY DEF SupApply
<1>2. i \in Iid /\ MapOK /\ phase # "down"
  BY <1>1, SupParts
<1>3. adapter' \in [Iid -> AdapterState] /\ token' \subseteq Iid
  BY <1>1, SupParts
<1>4. CASE NextPoll /\ UNCHANGED instances
  BY <1>1, <1>2, <1>3, <1>4, NextPollOK, Kept, SupStepKeeps DEF Steady
<1>5. ASSUME p # None, NEW q \in Instance, Follows(q), Become(i, q), SupOK'
      PROVE  IInv' /\ Steady
  <2>1. MapKeeps /\ Steady
    BY <1>2, <1>5, MapSet, SetSteady DEF Become
  <2> QED
    BY <1>1, <1>2, <1>3, <1>5, <2>1, SupStepKeeps
<1>6. CASE p # None
  <2>1. p \in Instance
    BY <1>2, <1>6 DEF MapOK
  <2>2. missed \in Instance /\ Follows(missed)
    <3>1. PICK m \in 0..MissLimit : m = IF p.misses < MissLimit THEN p.misses + 1 ELSE p.misses
      BY <2>1, WorkloadHostAssumption DEF Instance
    <3>2. missed = [p EXCEPT !.misses = m]
      BY <1>6, <2>1, <3>1 DEF Instance
    <3> HIDE DEF missed, p
    <3> QED
      BY <2>1, <3>2 DEF Instance
  <2>3. sick \in Instance /\ Follows(sick)
    <3> HIDE DEF missed, p
    <3>1. enter(missed, "Unhealthy") \in Instance /\ Follows(enter(missed, "Unhealthy"))
      BY <2>2, EnterInstance DEF LifecycleState
    <3> QED
      BY <1>6, <2>2, <3>1
  <2>4. well \in Instance /\ Follows(well)
    <3>1. 0 \in 0..MissLimit
      BY WorkloadHostAssumption
    <3> HIDE DEF p
    <3> QED
      BY <2>1, <3>1 DEF Instance
  <2>5. off \in Instance /\ Follows(off)
    <3> HIDE DEF p
    <3> QED
      BY <2>1 DEF Instance
  <2>6. out \in Instance /\ Follows(out)
    <3> HIDE DEF p, sick
    <3> QED
      BY <2>3 DEF Instance
  <2>7. ASSUME NEW n \in 0..MaxRestarts
        PROVE  again(n) \in Instance /\ Follows(again(n))
    <3> HIDE DEF sick, p
    <3>1. PICK r \in Instance : r = enter(sick, "Restarting") /\ Follows(r)
      BY <2>3, EnterInstance DEF LifecycleState
    <3>2. /\ [r EXCEPT !.restarts = n] \in Instance
          /\ [r EXCEPT !.restarts = n].decision = r.decision
          /\ [r EXCEPT !.restarts = n].desired = r.desired
      BY DEF Instance
    <3> QED
      BY <3>1, <3>2
  <2>8. /\ enter(well, "Running") \in Instance /\ Follows(enter(well, "Running"))
        /\ enter(off, "Finished") \in Instance /\ Follows(enter(off, "Finished"))
        /\ enter(out, "Failed") \in Instance /\ Follows(enter(out, "Failed"))
    <3> HIDE DEF well, off, out
    <3> QED
      BY <2>4, <2>5, <2>6, EnterInstance DEF LifecycleState
  <2>9. p.restarts \in 0..MaxRestarts
    BY <2>1 DEF Instance
  <2>10. \/ NextPoll /\ UNCHANGED instances
         \/ NextPoll /\ \E q \in {enter(well, "Running"), well, enter(off, "Finished"), missed, sick} : Become(i, q)
         \/ Then("failed") /\ Become(i, enter(out, "Failed"))
         \/ /\ Then("restartStop")
            /\ \E recent \in 0..p.restarts : ~Exhausted(recent) /\ Become(i, again(recent + 1))
    BY DEF SupApply
  <2> HIDE DEF well, off, out, missed, sick
  <2>11. CASE NextPoll /\ \E q \in {enter(well, "Running"), well, enter(off, "Finished"), missed, sick} : Become(i, q)
    BY <1>5, <1>6, <2>2, <2>3, <2>4, <2>8, <2>11, NextPollOK
  <2>12. CASE Then("failed") /\ Become(i, enter(out, "Failed"))
    BY <1>2, <1>5, <1>6, <2>8, <2>12, ThenOK
  <2>13. ASSUME Then("restartStop"), NEW recent \in 0..p.restarts, ~Exhausted(recent),
                Become(i, again(recent + 1))
         PROVE  IInv' /\ Steady
    <3>1. recent + 1 \in 0..MaxRestarts
      BY <2>9, <2>13, WorkloadHostAssumption DEF Exhausted
    <3>2. again(recent + 1) \in Instance /\ Follows(again(recent + 1))
      BY <2>7, <3>1
    <3> HIDE DEF again
    <3> QED
      BY <1>2, <1>5, <1>6, <2>13, <3>2, ThenOK
  <2> QED
    BY <1>4, <2>10, <2>11, <2>12, <2>13
<1>7. CASE p = None
  <2>1. NextPoll /\ UNCHANGED instances
    BY <1>7 DEF SupApply
  <2> QED
    BY <1>4, <2>1
<1> QED
  BY <1>6, <1>7

LEMMA SupActsStep ==
  ASSUME IInv, SupFailedStop \/ SupRestartStop \/ SupRestartStart
  PROVE  IInv'
<1>1. /\ sup.pc \in {"failed", "restartStop", "restartStart"}
      /\ UNCHANGED <<instances, token>> /\ SupStep
  BY DEF SupFailedStop, SupRestartStop, SupRestartStart
<1>2. sup.id \in Iid /\ phase # "down" /\ sup \in SupType
  BY <1>1, SupParts
<1>3. MapKeeps /\ token' \subseteq Iid
  BY <1>1, SupParts, Kept
<1>4. adapter' \in [Iid -> AdapterState]
  BY <1>2, AdapterCalls DEF SupFailedStop, SupRestartStop, SupRestartStart
<1>5. SupOK'
  <2>1. CASE SupFailedStop
    BY <2>1, NextPollOK DEF SupFailedStop
  <2>2. CASE SupRestartStop
    BY <1>2, <2>2, ThenOK DEF SupRestartStop
  <2>3. CASE SupRestartStart
    <3>1. PICK ok \in BOOLEAN : sup' = [sup EXCEPT !.pc = "restartMark", !.ok = ok]
      BY <2>3 DEF SupRestartStart
    <3>2. sup' \in SupType /\ sup'.id = sup.id
      BY <1>2, <3>1 DEF SupType
    <3> QED
      BY <1>2, <3>2 DEF SupOK
  <2> QED
    BY <2>1, <2>2, <2>3
<1> QED
  BY <1>1, <1>2, <1>3, <1>4, <1>5, SupStepKeeps

LEMMA SupRestartMarkStep == ASSUME IInv, SupRestartMark PROVE IInv' /\ Steady
<1> DEFINE i == sup.id
           s == IF sup.ok THEN "Running" ELSE "Unhealthy"
<1>1. /\ sup.pc = "restartMark" /\ UNCHANGED <<adapter, token>> /\ SupStep /\ NextPoll
      /\ instances' = IF instances[i] = None THEN instances
                      ELSE [instances EXCEPT ![i] = enter(instances[i], s)]
  BY DEF SupRestartMark
<1>2. i \in Iid /\ MapOK /\ phase # "down"
  BY <1>1, SupParts
<1>3. s \in LifecycleState
  BY DEF LifecycleState
<1> HIDE DEF s
<1>4. MapKeeps /\ Steady
  BY <1>1, <1>2, <1>3, MarkKeeps DEF MapOK
<1> QED
  BY <1>1, <1>2, <1>4, SupParts, NextPollOK, SupStepKeeps

LEMMA SuperviseKeeps == ASSUME IInv, Supervise PROVE IInv' /\ Steady
<1>1. UNCHANGED instances => Steady
  BY DEF Steady
<1>2. SupPick \/ SupFailedStop \/ SupRestartStop \/ SupRestartStart
        \/ (\E i \in Iid : SupLeaseStop(i) \/ SupPoll(i)) => UNCHANGED instances
  BY DEF SupPick, SupFailedStop, SupRestartStop, SupRestartStart, SupLeaseStop, SupPoll
<1> QED
  BY <1>1, <1>2, SupLeaseStep, SupLeaseMarkStep, SupPickStep, SupApplyStep, SupActsStep,
     SupRestartMarkStep, SupLeaseStopStep, SupPollStep DEF Supervise

-----------------------------------------------------------------------------
(* stop_for_bus.                                                           *)

LEMMA BusStepKeeps ==
  ASSUME IInv, phase # "down", MapKeeps, BusOK', BusStep, JournalInv', SentJournaled',
         WorldOK', UNCHANGED <<phase, todo>>,
         adapter' \in [Iid -> AdapterState], token' \subseteq Iid
  PROVE  IInv'
<1>1. UNCHANGED <<departed, inFlight, loaded, place, unloading, sup, enf, reader, sent>>
  BY DEF BusStep
<1>2. PlaceKeeps /\ EnfKeeps /\ UnloadingKeeps /\ DepartedOK' /\ SupOK'
  BY <1>1, Kept
<1>3. AdapterOK'
  BY <1>1 DEF AdapterOK, IInv, HostTypes
<1> QED
  BY <1>1, <1>2, <1>3, StepKeeps

LEMMA BusBeginStep == ASSUME IInv, NEW i \in Iid, BusBegin(i) PROVE IInv' /\ Steady
<1> DEFINE off == [instances[i] EXCEPT !.desired = FALSE, !.leaseStopped = FALSE]
<1>1. /\ phase = "serving" /\ Spend("bus") /\ instances[i] # None
      /\ TokenOff({i}) /\ bus' = [pc |-> "stop", id |-> i]
      /\ UNCHANGED <<adapter, journal>> /\ BusStep
      /\ instances' = [instances EXCEPT ![i].desired = FALSE, ![i].leaseStopped = FALSE]
  BY DEF BusBegin
<1>2. MapOK /\ instances[i] \in Instance
  BY <1>1 DEF IInv, HostTypes, MapOK
<1>3. off \in Instance /\ off.decision = instances[i].decision /\ ~off.desired
  BY <1>2 DEF Instance
<1>4. instances' = [instances EXCEPT ![i] = off]
  BY <1>1, <1>2 DEF MapOK
<1> HIDE DEF off
<1>5. MapKeeps /\ Steady
  BY <1>1, <1>2, <1>3, <1>4, MapSet, SetSteady
<1>6. BusOK'
  BY <1>1 DEF BusOK
<1>7. WorldOK'
  <2>1. silent' \in BOOLEAN /\ UNCHANGED <<revoked, revGen, bumping, sent, ghosts>>
    BY <1>1 DEF BusStep, IInv, HostTypes, WorldOK
  <2> QED
    BY <1>1, <2>1, Spent DEF Event
<1>8. JournalInv' /\ SentJournaled' /\ UNCHANGED <<phase, todo>>
  BY <1>1, Kept DEF BusStep, journal, restore
<1>9. adapter' \in [Iid -> AdapterState] /\ token' \subseteq Iid
  BY <1>1, SupParts DEF TokenOff
<1> QED
  BY <1>1, <1>5, <1>6, <1>7, <1>8, <1>9, BusStepKeeps

LEMMA BusStopStep == ASSUME IInv, BusStop PROVE IInv'
<1>1. /\ bus.pc = "stop" /\ bus' = [bus EXCEPT !.pc = "mark"]
      /\ UNCHANGED <<instances, token, left, journal>> /\ BusStep
  BY DEF BusStop
<1>2. bus.id \in Iid /\ phase # "down" /\ bus \in [pc : {"idle", "stop", "mark"}, id : Iid \cup {None}]
  BY <1>1, Alive DEF IInv, HostTypes, BusOK
<1>3. MapKeeps /\ token' \subseteq Iid /\ adapter' \in [Iid -> AdapterState]
  BY <1>1, <1>2, Kept, AdapterCalls DEF BusStop
<1>4. BusOK'
  BY <1>1, <1>2 DEF BusOK
<1>5. WorldOK' /\ sent' = sent
  BY <1>1 DEF BusStep, IInv, HostTypes, WorldOK, ghosts
<1>6. JournalInv' /\ SentJournaled' /\ UNCHANGED <<phase, todo>>
  BY <1>1, <1>5, Kept DEF journal, restore
<1> QED
  BY <1>1, <1>2, <1>3, <1>4, <1>5, <1>6, BusStepKeeps

LEMMA BusMarkStep == ASSUME IInv, BusMark PROVE IInv' /\ Steady
<1> DEFINE i == bus.id
<1>1. /\ bus.pc = "mark" /\ bus' = BusIdle
      /\ UNCHANGED <<memory, disk, phase, restore, bounds, newest, newestSaid, external, faulted, forked,
                     backup, adapter, token, left>> /\ BusStep
      /\ instances' = IF instances[i] = None THEN instances
                      ELSE [instances EXCEPT ![i] = enter(instances[i], "Stopped")]
      /\ intent' = IF instances[i] = None THEN intent ELSE [intent EXCEPT ![i] = "stop"]
  BY DEF BusMark
<1>2. i \in Iid /\ MapOK /\ phase # "down"
  BY <1>1, Alive DEF IInv, HostTypes, BusOK
<1>3. MapKeeps /\ Steady
  BY <1>1, <1>2, MarkKeeps DEF MapOK, LifecycleState
<1>4. BusOK'
  BY <1>1 DEF BusOK, BusIdle
<1>5. WorldOK' /\ sent' = sent
  BY <1>1 DEF BusStep, IInv, HostTypes, WorldOK, ghosts
<1>6. intent' \in [Iid -> {"gone", "run", "stop"}]
  BY <1>1 DEF IInv, JournalInv, JournalTypeOK
<1>7. JournalInv'
  BY <1>1, <1>6 DEF IInv, JournalInv, JournalTypeOK, Walk, Unsigned, Numbers, OwnFileIsNoReplay,
                    memory, disk, restore, bounds
<1>8. SentJournaled' /\ UNCHANGED <<phase, todo>>
  BY <1>1, <1>5 DEF IInv, SentJournaled, memory, disk, restore
<1>9. adapter' \in [Iid -> AdapterState] /\ token' \subseteq Iid
  BY <1>1, SupParts
<1> QED
  BY <1>1, <1>2, <1>3, <1>4, <1>5, <1>7, <1>8, <1>9, BusStepKeeps

-----------------------------------------------------------------------------
(* enforce_revocations.                                                    *)

LEMMA EnfStepKeeps ==
  ASSUME IInv, phase # "down", MapKeeps, EnfKeeps, EnfStep, DepartedOK', AdapterOK',
         JournalInv', SentJournaled', UNCHANGED <<phase, todo>>, swept' \in Nat \cup {None}
  PROVE  IInv'
<1>1. UNCHANGED <<inFlight, place, unloading, sup, bus, reader, world, answered>>
  BY DEF EnfStep
<1>2. PlaceKeeps /\ UnloadingKeeps /\ SupOK' /\ BusOK'
  BY <1>1, Kept
<1>3. WorldOK' /\ UNCHANGED <<reader, sent>>
  BY <1>1 DEF WorldOK, IInv, HostTypes, world
<1> QED
  BY <1>2, <1>3, StepKeeps

LEMMA SweptOK == IInv => swept \in Nat \cup {None} /\ revGen \in Nat
BY DEF IInv, HostTypes, WorldOK

LEMMA SweepBeginStep == ASSUME IInv, SweepBegin PROVE IInv'
<1>1. /\ phase # "down" /\ EnforcePick("sweep") /\ swept' = revGen /\ EnfStep
      /\ UNCHANGED <<instances, departed, loaded, adapter, journal>>
  BY DEF SweepBegin
<1>2. EnfKeeps /\ token' \subseteq Iid
  BY <1>1, PickKeeps, DecisionsEnforce
<1>3. AdapterOK'
  BY <1>1, <1>2 DEF AdapterOK, IInv, HostTypes
<1>4. MapKeeps /\ DepartedOK' /\ JournalInv' /\ SentJournaled' /\ UNCHANGED <<phase, todo>>
  BY <1>1, Kept DEF EnfStep, world, journal, restore
<1> QED
  BY <1>1, <1>2, <1>3, <1>4, SweptOK, EnfStepKeeps

(* An enforcement that goes from one of its points to another.             *)
LEMMA EnfMoves ==
  ASSUME IInv, NEW e \in Enforcer, NEW new \in EnfType,
         new.pc \in {"removing", "forget", "noting"} => new.id \in Iid,
         new.id # None => new.id = enf[e].id \/ new.id \in enf[e].todo,
         new.todo \subseteq enf[e].todo,
         enf' = [enf EXCEPT ![e] = new]
  PROVE  EnfKeeps
<1>1. enf \in [Enforcer -> EnfType]
  BY DEF IInv, HostTypes, EnfOK
<1>2. enf' \in [Enforcer -> EnfType] /\ enf'[e] = new /\ \A f \in Enforcer \ {e} : enf'[f] = enf[f]
  BY <1>1
<1> QED
  BY <1>1, <1>2 DEF EnfKeeps, EnfOK, IInv, HostTypes

LEMMA EnfGoMoves ==
  ASSUME IInv, NEW e \in Enforcer, NEW pc \in {"teardown", "forget", "noting"}, EnfGo(e, pc),
         enf[e].id \in Iid
  PROVE  EnfKeeps
<1>1. enf \in [Enforcer -> EnfType]
  BY DEF IInv, HostTypes, EnfOK
<1>2. PICK p \in EnfType : p = enf[e]
  BY <1>1
<1> DEFINE new == [p EXCEPT !.pc = pc]
<1>3. new \in EnfType /\ new.id = p.id /\ new.todo = p.todo
  BY DEF EnfType
<1>4. enf' = [enf EXCEPT ![e] = new]
  BY <1>1, <1>2 DEF EnfGo
<1> HIDE DEF new
<1> QED
  BY <1>2, <1>3, <1>4, EnfMoves

LEMMA EnfAtWork ==
  ASSUME IInv, NEW e \in Enforcer, enf[e].pc # "idle"
  PROVE  /\ phase # "down" /\ enf[e] \in EnfType
         /\ enf[e].pc \in {"removing", "forget", "noting"} => enf[e].id \in Iid /\ enf[e].id \notin todo
BY Alive DEF IInv, HostTypes, EnfOK, NotAhead

LEMMA TeardownStep ==
  ASSUME IInv, NEW e \in Enforcer, NEW i \in Iid, Teardown(e, i)
  PROVE  IInv'
<1> DEFINE new == [pc |-> IF CanUnload(i) THEN "removing" ELSE "forget",
                   todo |-> enf[e].todo \ {i}, id |-> i]
<1>1. /\ enf[e].pc = "teardown" /\ i \in enf[e].todo /\ enf' = [enf EXCEPT ![e] = new]
      /\ UNCHANGED <<instances, departed, loaded, token, swept, journal>> /\ EnfStep
  BY DEF Teardown
<1>2. phase # "down" /\ enf[e] \in EnfType
  BY <1>1, EnfAtWork
<1>3. new \in EnfType /\ new.id = i /\ new.todo = enf[e].todo \ {i}
  BY <1>2 DEF EnfType
<1> HIDE DEF new
<1>4. EnfKeeps
  BY <1>1, <1>3, EnfMoves
<1>5. AdapterOK'
  BY <1>1, AdapterCalls DEF Teardown, AdapterOK
<1>6. MapKeeps /\ DepartedOK' /\ JournalInv' /\ SentJournaled' /\ UNCHANGED <<phase, todo>>
  BY <1>1, Kept DEF EnfStep, world, journal, restore
<1> QED
  BY <1>1, <1>2, <1>4, <1>5, <1>6, SweptOK, EnfStepKeeps

LEMMA TeardownEndStep ==
  ASSUME IInv, NEW e \in Enforcer, TeardownEnd(e)
  PROVE  IInv'
<1>1. /\ enf[e].pc = "removing"
      /\ UNCHANGED <<instances, departed, adapter, token, swept, journal>> /\ EnfStep
  BY DEF TeardownEnd
<1>2. PICK ok \in BOOLEAN : RemoveDir(enf[e].id, ok, "teardown") /\ EnfGo(e, IF ok THEN "forget" ELSE "teardown")
  BY DEF TeardownEnd
<1>3. phase # "down" /\ enf[e].id \in Iid
  BY <1>1, EnfAtWork
<1>4. EnfKeeps
  BY <1>2, <1>3, EnfGoMoves
<1>5. AdapterOK'
  BY <1>1, <1>2, <1>3, AdapterCalls DEF AdapterOK, Task
<1>6. MapKeeps /\ DepartedOK' /\ JournalInv' /\ SentJournaled' /\ UNCHANGED <<phase, todo>>
  BY <1>1, Kept DEF EnfStep, world, journal, restore
<1> QED
  BY <1>1, <1>3, <1>4, <1>5, <1>6, SweptOK, EnfStepKeeps

LEMMA ForgetStep ==
  ASSUME IInv, NEW e \in Enforcer, Forget(e)
  PROVE  IInv'
<1>1. /\ enf[e].pc = "forget" /\ instances' = [instances EXCEPT ![enf[e].id] = None]
      /\ EnfGo(e, "noting")
      /\ UNCHANGED <<departed, loaded, adapter, token, swept, journal>> /\ EnfStep
  BY DEF Forget
<1>2. phase # "down" /\ enf[e].id \in Iid
  BY <1>1, EnfAtWork
<1>3. EnfKeeps
  BY <1>1, <1>2, EnfGoMoves
<1>4. MapKeeps
  BY <1>1, <1>2, MapDrop DEF IInv, HostTypes
<1>5. DepartedOK' /\ AdapterOK' /\ JournalInv' /\ SentJournaled' /\ UNCHANGED <<phase, todo>>
  BY <1>1, Kept DEF EnfStep, world, journal, restore
<1> QED
  BY <1>1, <1>2, <1>3, <1>4, <1>5, SweptOK, EnfStepKeeps

LEMMA NoteForgottenStep ==
  ASSUME IInv, NEW e \in Enforcer, NoteForgotten(e)
  PROVE  IInv'
<1> DEFINE i == enf[e].id
<1>1. /\ enf[e].pc = "noting"
      /\ NoteDeparted(i) /\ intent' = [intent EXCEPT ![i] = "gone"]
      /\ EnfGo(e, "teardown")
      /\ UNCHANGED <<Untouched, instances, loaded, adapter, token, swept>> /\ EnfStep
  BY DEF NoteForgotten
<1>2. phase # "down" /\ i \in Iid /\ i \notin todo
  BY <1>1, EnfAtWork
<1>3. EnfKeeps
  BY <1>1, <1>2, EnfGoMoves
<1>4. MapKeeps /\ AdapterOK' /\ sent' = sent
  BY <1>1, Kept DEF EnfStep, world
<1>5. DepartedOK' /\ JournalInv' /\ SentJournaled' /\ UNCHANGED <<phase, todo>>
  BY <1>1, <1>2, <1>4, NoteDepartedKeeps
<1> QED
  BY <1>1, <1>2, <1>3, <1>4, <1>5, SweptOK, EnfStepKeeps

LEMMA EnforceEndStep ==
  ASSUME IInv, NEW e \in Enforcer, EnforceEnd(e)
  PROVE  IInv'
<1>1. /\ enf[e].pc = "teardown" /\ enf' = [enf EXCEPT ![e] = EnfIdle]
      /\ UNCHANGED <<instances, departed, loaded, adapter, token, swept, journal>> /\ EnfStep
  BY DEF EnforceEnd
<1>2. phase # "down"
  BY <1>1, EnfAtWork
<1>3. EnfIdle \in EnfType /\ EnfIdle.pc = "idle" /\ EnfIdle.id = None /\ EnfIdle.todo = {}
  BY DEF EnfIdle, EnfType
<1>4. EnfKeeps
  BY <1>1, <1>3, EnfMoves
<1>5. MapKeeps /\ DepartedOK' /\ AdapterOK' /\ JournalInv' /\ SentJournaled' /\ UNCHANGED <<phase, todo>>
  BY <1>1, Kept DEF EnfStep, world, journal, restore
<1> QED
  BY <1>1, <1>2, <1>4, <1>5, SweptOK, EnfStepKeeps

-----------------------------------------------------------------------------
(* The world.                                                              *)

LEMMA WorldStepKeeps ==
  ASSUME IInv, phase # "down", AdapterOK', WorldOK', sent' = sent,
         UNCHANGED <<instances, departed, inFlight, tasks, journal>>
  PROVE  IInv'
<1>1. UNCHANGED <<place, unloading, sup, bus, enf, reader>>
  BY DEF tasks
<1>2. /\ MapKeeps /\ PlaceKeeps /\ EnfKeeps /\ UnloadingKeeps /\ DepartedOK' /\ SupOK' /\ BusOK'
      /\ JournalInv' /\ SentJournaled'
  BY <1>1, Kept
<1>3. UNCHANGED <<reader, phase, todo, sent>>
  BY <1>1 DEF journal, restore
<1> QED
  BY <1>2, <1>3, StepKeeps

LEMMA WorldKeeps ==
  ASSUME IInv, (\E i \in Iid : Exit(i) \/ ListChange(i)) \/ Silence \/ ListBump
  PROVE  IInv'
<1>1. WorldOK /\ AdapterOK
  BY DEF IInv, HostTypes
<1>2. ASSUME NEW i \in Iid, Exit(i) PROVE IInv'
  <2>1. /\ adapter[i] = "running" /\ Spend("exit")
        /\ adapter' = [adapter EXCEPT ![i] = "exited"]
        /\ UNCHANGED <<instances, departed, inFlight, loaded, token, tasks, revoked, revGen,
                       bumping, silent, sent, ghosts, journal>>
    BY <1>2 DEF Exit
  <2>2. AdapterOK'
    BY <1>1, <2>1 DEF AdapterOK, AdapterState
  <2>3. WorldOK'
    <3>1. silent' \in BOOLEAN
      BY <1>1, <2>1 DEF WorldOK
    <3> QED
      BY <2>1, <3>1, Spent DEF Event
  <2>4. phase # "down"
    BY <2>1, Alive
  <2> QED
    BY <2>1, <2>2, <2>3, <2>4, WorldStepKeeps
<1>3. ASSUME NEW i \in Iid, ListChange(i) PROVE IInv'
  <2>1. /\ phase # "down" /\ bumping' = TRUE
        /\ UNCHANGED <<host, tasks, revGen, silent, sent, ghosts, journal>>
    BY <1>3 DEF ListChange
  <2>2. left' \in [Event -> Nat] /\ revoked' \subseteq Iid
    BY <1>1, <1>3 DEF ListChange, Spend, WorldOK, Event
  <2>3. AdapterOK' /\ UNCHANGED <<instances, departed, inFlight>>
    BY <2>1, Kept DEF host
  <2>4. WorldOK'
    BY <1>1, <2>1, <2>2 DEF WorldOK, ghosts
  <2> QED
    BY <2>1, <2>3, <2>4, WorldStepKeeps
<1>4. CASE Silence
  <2>1. /\ phase # "down" /\ silent' = TRUE /\ Spend("silence")
        /\ UNCHANGED <<host, tasks, revoked, revGen, bumping, sent, ghosts, journal>>
    BY <1>4 DEF Silence
  <2>2. AdapterOK' /\ UNCHANGED <<instances, departed, inFlight>>
    BY <2>1, Kept DEF host
  <2>3. WorldOK'
    <3>1. silent' \in BOOLEAN
      BY <2>1, Zenon
    <3> QED
      BY <2>1, <3>1, Spent DEF Event
  <2> QED
    BY <2>1, <2>2, <2>3, WorldStepKeeps
<1>5. CASE ListBump
  <2>1. /\ bumping /\ bumping' = FALSE /\ revGen' = revGen + 1
        /\ UNCHANGED <<host, tasks, revoked, silent, sent, left, ghosts, journal>>
    BY <1>5 DEF ListBump
  <2>2. AdapterOK' /\ UNCHANGED <<instances, departed, inFlight>>
    BY <2>1, Kept DEF host
  <2>3. WorldOK'
    <3>1. bumping' \in BOOLEAN /\ silent' \in BOOLEAN
      BY <1>1, <2>1, Zenon DEF WorldOK
    <3>2. revGen' \in Nat
      BY <1>1, <2>1 DEF WorldOK
    <3> QED
      BY <1>1, <2>1, <3>1, <3>2 DEF WorldOK, ghosts
  <2> QED
    BY <2>1, <2>2, <2>3, Alive, WorldStepKeeps
<1> QED
  BY <1>2, <1>3, <1>4, <1>5

-----------------------------------------------------------------------------
(* The journal moves and the host does not.                                *)

LEMMA QuietHost ==
  ASSUME IInv, Quiet
  PROVE  /\ HostTypes' /\ MarksOK' /\ SentHandled' /\ ReaderOK'
         /\ phase' # "down" => AtRest'
         /\ todo' \subseteq todo => NotAhead'
         /\ sent' = sent
<1>1. UNCHANGED <<instances, departed, inFlight, loaded, adapter, token,
                  place, unloading, sup, bus, enf, reader, world, ghosts>>
  BY DEF Quiet, host, tasks
<1>2. /\ MapOK' /\ PlaceOK' /\ MarksOK' /\ EnfOK' /\ UnloadingOK' /\ DepartedOK' /\ AdapterOK'
      /\ SupOK' /\ BusOK' /\ WorldOK'
  BY <1>1, Kept DEF MapKeeps, PlaceKeeps, EnfKeeps, UnloadingKeeps
<1>3. HostTypes'
  BY <1>1, <1>2 DEF HostTypes, IInv, ReaderTypeOK
<1>4. sent' = sent
  BY <1>1 DEF world
<1>5. SentHandled' /\ ReaderOK'
  BY <1>1, <1>4 DEF SentHandled, ReaderOK, Settled, Listed, IInv
<1>6. todo' \subseteq todo => NotAhead'
  BY <1>1 DEF NotAhead, IInv
<1> QED
  BY <1>2, <1>3, <1>4, <1>5, <1>6 DEF AtRest

LEMMA BootStep == ASSUME IInv, Boot, Quiet PROVE IInv'
<1>1. /\ phase = "down" /\ cur' = None /\ phase' # "down" /\ entries' \in {ReadEntries, NoEntries}
      /\ file' \in {file, NotSigned("missing")}
  BY DEF Boot
<1>2. /\ instances = [i \in Iid |-> None] /\ place = [d \in Decision |-> PlaceIdle]
      /\ unloading = None /\ enf = [e \in Enforcer |-> EnfIdle]
  BY <1>1 DEF IInv, AtRest
<1>3. JournalInv'
  BY BootKeeps DEF IInv
<1>4. SentJournaled'
  <2>1. /\ \A i \in Iid : NoEntries[i] = None
        /\ \A i \in Iid : ReadEntries[i] = None \/ ReadEntries[i] = file.entries[i]
        /\ NotSigned("missing").entries = NoEntries
    BY DEF NoEntries, ReadEntries, NotSigned
  <2> QED
    BY <1>1, <2>1, QuietHost DEF SentJournaled, IInv
<1>5. NotAhead'
  <2>1. todo' \subseteq Iid
    BY <1>3 DEF JournalInv, JournalTypeOK
  <2>2. UNCHANGED <<instances, place, unloading, enf>>
    BY DEF Quiet, host, tasks
  <2> QED
    BY <1>2, <2>1, <2>2, HostJournalAssumption DEF NotAhead, PlaceIdle, EnfIdle
<1> QED
  BY <1>1, <1>3, <1>4, <1>5, QuietHost DEF IInv

LEMMA RestoreMovesStep ==
  ASSUME IInv, RestoreDone \/ (\E i \in Iid : RestoreTake(i)), Quiet
  PROVE  IInv'
<1>1. JournalInv'
  BY QuietKeeps DEF IInv
<1>2. phase' # "down" /\ todo' \subseteq todo /\ UNCHANGED <<entries, file>>
  BY DEF RestoreDone, RestoreTake, memory, disk, restore
<1>3. cur' # None => (cur # None /\ cur' = cur) \/ \E i \in Iid : entries[i] # None /\ cur'.entry = entries[i]
  <2>1. CASE RestoreDone
    BY <2>1 DEF RestoreDone, restore
  <2>2. ASSUME NEW i \in Iid, RestoreTake(i)
        PROVE  entries[i] # None /\ cur'.entry = entries[i]
    BY <2>2 DEF RestoreTake, IInv, JournalInv, Walk
  <2> QED
    BY <2>1, <2>2
<1>4. SentJournaled'
  BY <1>2, <1>3, QuietHost DEF SentJournaled, IInv
<1> QED
  BY <1>1, <1>2, <1>4, QuietHost DEF IInv

LEMMA AppendStep == ASSUME IInv, JournalAppend PROVE IInv'
<1>1. JournalInv'
  BY AppendKeeps DEF JournalAppend, IInv
<1>2. UNCHANGED <<entries, file, cur, phase, todo>> /\ Quiet /\ saving
  BY DEF JournalAppend, AppendChain, disk, restore
<1>3. SentJournaled' /\ phase # "down"
  BY <1>2, QuietHost DEF SentJournaled, IInv, JournalInv, Numbers
<1> QED
  BY <1>1, <1>2, <1>3, QuietHost DEF IInv

(* After place: the restore keeps, drops or counts the entry.              *)
LEMMA RestoreEndStep ==
  ASSUME IInv, cur # None,
         (RestoreKeep /\ UNCHANGED intent) \/ RestoreDrop \/ RestoreRetry,
         UNCHANGED <<diskChain, phase, mayStart, todo, bounds, forked, backup>>, Quiet
  PROVE  IInv'
<1>1. RestoreStep
  BY DEF RestoreStep
<1>2. JournalInv'
  BY <1>1, RestoreKeeps DEF IInv
<1>3. cur \in Restoring /\ cur.id \in Iid /\ cur.entry \in Entry /\ cur' = None
  BY DEF IInv, JournalInv, JournalTypeOK, Restoring, RestoreKeep, RestoreDrop, RestoreRetry
<1>4. SentJournaled'
  <2>1. CASE RestoreKeep
    BY <1>3, <2>1, OpKeepsSent, QuietHost DEF RestoreKeep
  <2>2. CASE RestoreDrop
    BY <1>3, <2>2, OpKeepsSent, QuietHost DEF RestoreDrop
  <2>3. CASE RestoreRetry
    <3>1. cur.entry.failures + 1 \in 0..(MaxRestoreTries - 1)
      BY <1>3, <2>3, HostJournalAssumption DEF RestoreRetry, Entry
    <3> QED
      BY <1>3, <2>3, <3>1, OpKeepsSent, QuietHost DEF RestoreRetry
  <2> QED
    BY <2>1, <2>2, <2>3
<1>5. phase # "down"
  BY Alive
<1> QED
  BY <1>2, <1>4, <1>5, QuietHost DEF IInv

LEMMA BootsKeep == ASSUME IInv, HostBoots PROVE IInv'
<1>1. CASE (Boot \/ RestoreDone \/ \E i \in Iid : RestoreTake(i)) /\ Quiet
  BY <1>1, BootStep, RestoreMovesStep
<1>2. CASE RestorePlace
  BY <1>2, RestorePlaceStep
<1>3. CASE /\ cur # None /\ cur.placed /\ RestoreKeep
           /\ UNCHANGED <<diskChain, phase, mayStart, todo, bounds, intent, forked, backup>>
           /\ Quiet
  BY <1>3, RestoreEndStep
<1>4. CASE /\ cur # None
           /\ RestoreDrop \/ RestoreRetry
           /\ UNCHANGED <<diskChain, phase, mayStart, todo, bounds, forked, backup>>
           /\ Quiet
  BY <1>4, RestoreEndStep
<1> QED
  BY <1>1, <1>2, <1>3, <1>4 DEF HostBoots

-----------------------------------------------------------------------------
(* Nothing of the host outlives the daemon.                                *)

LEMMA IdleTasks ==
  /\ PlaceIdle \in PlaceType /\ PlaceIdle.pc = "idle" /\ PlaceIdle.id = None
  /\ EnfIdle \in EnfType /\ EnfIdle.pc = "idle"
  /\ SupIdle \in SupType /\ SupIdle.pc = "idle"
  /\ BusIdle \in [pc : {"idle", "stop", "mark"}, id : Iid \cup {None}] /\ BusIdle.pc = "idle"
  /\ ReaderIdle \in [pc : {"idle", "listing", "answered"},
                     began : SUBSET Decision, seen : SUBSET Decision]
  /\ ReaderIdle.pc = "idle"
BY DEF PlaceIdle, PlaceType, PlacePC, EnfIdle, EnfType, SupIdle, SupType, BusIdle, ReaderIdle

(* The host as it is before the daemon starts.                             *)
Empty ==
  /\ instances = [i \in Iid |-> None] /\ departed = <<>> /\ inFlight = {}
  /\ loaded = {} /\ adapter = [i \in Iid |-> "absent"] /\ token = {}
  /\ place = [d \in Decision |-> PlaceIdle] /\ unloading = None
  /\ sup = SupIdle /\ bus = BusIdle
  /\ enf = [e \in Enforcer |-> EnfIdle] /\ reader = ReaderIdle
  /\ revGen = 0 /\ bumping = FALSE /\ silent = FALSE
  /\ answered = {} /\ swept = None

LEMMA EmptyOK ==
  Empty /\ todo = {} /\ revoked \subseteq Iid /\ sent \subseteq Decision /\ left \in [Event -> Nat]
    => HostTypes /\ AtRest /\ NotAhead /\ MarksOK /\ SentHandled /\ ReaderOK
<1> SUFFICES ASSUME Empty, todo = {}, revoked \subseteq Iid, sent \subseteq Decision,
                    left \in [Event -> Nat]
             PROVE  HostTypes /\ AtRest /\ NotAhead /\ MarksOK /\ SentHandled /\ ReaderOK
  OBVIOUS
<1>1. MapOK /\ AdapterOK /\ UnloadingOK
  BY DEF Empty, MapOK, AdapterOK, AdapterState, UnloadingOK
<1>2. DepartedOK
  BY WorkloadHostAssumption DEF Empty, DepartedOK
<1>3. PlaceOK /\ MarksOK /\ SentHandled
  BY IdleTasks DEF Empty, PlaceOK, MarksOK, Active, SentHandled
<1>4. SupOK /\ BusOK /\ ReaderTypeOK
  BY IdleTasks DEF Empty, SupOK, BusOK, ReaderTypeOK
<1>5. EnfOK
  BY IdleTasks DEF Empty, EnfOK
<1>6. WorldOK
  <2>1. bumping \in BOOLEAN /\ silent \in BOOLEAN
    BY Zenon DEF Empty
  <2> QED
    BY <2>1 DEF Empty, WorldOK
<1>7. AtRest /\ NotAhead /\ ReaderOK
  BY IdleTasks DEF Empty, AtRest, NotAhead, ReaderOK
<1> QED
  BY <1>1, <1>2, <1>3, <1>4, <1>5, <1>6, <1>7 DEF HostTypes

LEMMA StopsKeep == ASSUME IInv, HostStops PROVE IInv'
<1>1. Empty' /\ UNCHANGED <<revoked, sent, left>>
  BY DEF HostStops, HostGone, Empty
<1>2. JournalInv'
  BY StopKeeps DEF HostStops, IInv
<1>3. /\ todo' = {} /\ cur' = None /\ entries' = NoEntries /\ file' = file
  BY DEF HostStops, Crash, CleanShutdown, DaemonGone
<1>4. revoked' \subseteq Iid /\ sent' \subseteq Decision /\ left' \in [Event -> Nat]
  BY <1>1 DEF IInv, HostTypes, WorldOK
<1>5. (HostTypes /\ AtRest /\ NotAhead /\ MarksOK /\ SentHandled /\ ReaderOK)'
  <2>1. (Empty /\ todo = {} /\ revoked \subseteq Iid /\ sent \subseteq Decision /\ left \in [Event -> Nat])'
    BY <1>1, <1>3, <1>4
  <2> QED
    BY <2>1, EmptyOK, PTL
<1>6. SentJournaled'
  BY <1>1, <1>3 DEF SentJournaled, IInv, NoEntries
<1> QED
  BY <1>2, <1>5, <1>6 DEF IInv

LEMMA InitIInv == Init => IInv
<1> SUFFICES ASSUME Init PROVE IInv
  OBVIOUS
<1>1. JournalInv
  BY InitEstablishes DEF Init
<1>2. Empty /\ todo = {} /\ revoked \subseteq Iid /\ sent \subseteq Decision
  BY DEF Init, Empty, JournalInit
<1>3. left \in [Event -> Nat]
  BY WorkloadHostAssumption DEF Init
<1>4. HostTypes /\ AtRest /\ NotAhead /\ MarksOK /\ SentHandled /\ ReaderOK
  BY <1>2, <1>3, EmptyOK
<1>5. SentJournaled
  BY DEF Init, JournalInit, SentJournaled, NotSigned, NoEntries
<1> QED
  BY <1>1, <1>4, <1>5 DEF IInv

LEMMA StutterKeeps == ASSUME IInv, UNCHANGED vars PROVE IInv'
<1>1. Quiet /\ UNCHANGED journal
  BY DEF vars, Quiet
<1>2. JournalInv' /\ SentJournaled' /\ UNCHANGED <<phase, todo>>
  BY <1>1, Kept, QuietHost DEF journal, restore
<1>3. AtRest'
  BY <1>1, <1>2 DEF AtRest, IInv, Quiet, host, tasks, world
<1> QED
  BY <1>1, <1>2, <1>3, QuietHost DEF IInv

(* Every step of the host keeps the invariant: one that the host's own     *)
(* types, what each task knows at its points, the in-flight marks and what *)
(* a listing has seen make inductive, together with the journal's.         *)
THEOREM HostInvariance == Spec => []IInv
<1>1. IInv /\ [Next]_vars => IInv'
  <2> SUFFICES ASSUME IInv, [Next]_vars PROVE IInv'
    OBVIOUS
  <2>1. ASSUME NEW d \in Decision, NEW i \in Iid, NEW s \in BOOLEAN, PlaceEnter(d, i, s)
        PROVE  IInv'
    BY <2>1, PlaceEnterStep
  <2>2. ASSUME NEW d \in Decision, Place(d) PROVE IInv'
    BY <2>2, PlaceStepsKeep
  <2>3. ASSUME NEW i \in Iid, Start(i) \/ Stop(i) \/ UnloadBegin(i) \/ BusBegin(i) PROVE IInv'
    BY <2>3, StartStep, StopStep, UnloadBeginStep, BusBeginStep
  <2>4. CASE UnloadEnd \/ StatusBegin \/ StatusEnd \/ BusStop \/ BusMark
    BY <2>4, UnloadEndStep, StatusBeginStep, StatusEndStep, BusStopStep, BusMarkStep
  <2>5. CASE Supervise
    BY <2>5, SuperviseKeeps
  <2>6. ASSUME NEW e \in Enforcer, Enforce(e) PROVE IInv'
    BY <2>6, TeardownStep, TeardownEndStep, ForgetStep, NoteForgottenStep, EnforceEndStep DEF Enforce
  <2>7. CASE SweepBegin
    BY <2>7, SweepBeginStep
  <2>8. CASE (\E i \in Iid : Exit(i) \/ ListChange(i)) \/ Silence \/ ListBump
    BY <2>8, WorldKeeps
  <2>9. CASE JournalAppend \/ HostBoots \/ HostStops
    BY <2>9, AppendStep, BootsKeep, StopsKeep
  <2>10. CASE UNCHANGED vars
    BY <2>10, StutterKeeps
  <2> QED
    BY <2>1, <2>2, <2>3, <2>4, <2>5, <2>6, <2>7, <2>8, <2>9, <2>10 DEF Next
<1> QED
  BY InitIInv, <1>1, PTL DEF Spec

(* The devices, and whose unload has failed.                               *)
BindOK ==
  /\ bound \subseteq Iid
  /\ unfinished \in [Iid -> {"none", "lease", "rollback", "unload", "teardown"}]

(* Only the steps that bind, give back or unload change them.              *)
LEMMA BindMoves ==
  ASSUME BindOK, NEW i \in Iid
  PROVE  /\ Bind(i) \/ Unbind(i) \/ UNCHANGED bound => bound' \subseteq Iid
         /\ UNCHANGED unfinished =>
              unfinished' \in [Iid -> {"none", "lease", "rollback", "unload", "teardown"}]
         /\ \A by \in Task : UnloadFails(i, by) \/ Unfinished(i, by) \/ DropEntry(i) =>
              unfinished' \in [Iid -> {"none", "lease", "rollback", "unload", "teardown"}]
         /\ \A ok \in BOOLEAN, by \in Task : RemoveDir(i, ok, by) =>
              unfinished' \in [Iid -> {"none", "lease", "rollback", "unload", "teardown"}]
<1> DEFINE T == {"none", "lease", "rollback", "unload", "teardown"}
<1>1. unfinished \in [Iid -> T] /\ bound \subseteq Iid
  BY DEF BindOK
<1>2. ASSUME NEW by \in T, Unfinished(i, by) PROVE unfinished' \in [Iid -> T]
  BY <1>1, <1>2 DEF Unfinished
<1>3. ASSUME NEW ok \in BOOLEAN, NEW by \in Task, RemoveDir(i, ok, by)
      PROVE  unfinished' \in [Iid -> T]
  <2>1. unfinished[i] \in T /\ by \in T
    BY <1>1 DEF Task
  <2>2. \E b \in T : Unfinished(i, b)
    BY <1>3, <2>1 DEF RemoveDir
  <2> QED
    BY <1>2, <2>2
<1>4. ASSUME NEW by \in Task, UnloadFails(i, by) \/ Unfinished(i, by) \/ DropEntry(i)
      PROVE  unfinished' \in [Iid -> T]
  <2>1. by \in T
    BY DEF Task
  <2>2. UNCHANGED unfinished \/ Unfinished(i, by)
    BY <1>4 DEF UnloadFails, DropEntry
  <2> QED
    BY <1>1, <1>2, <2>1, <2>2
<1>5. Bind(i) \/ Unbind(i) \/ UNCHANGED bound => bound' \subseteq Iid
  BY <1>1 DEF Bind, Unbind
<1> QED
  BY <1>1, <1>3, <1>4, <1>5

LEMMA BindUnmoved == BindOK /\ UNCHANGED bindings => BindOK'
BY DEF BindOK, bindings

LEMMA BindKeeps == ASSUME IInv, BindOK, [Next]_vars PROVE BindOK'
<1>1. ASSUME NEW d \in Decision, NEW i \in Iid, NEW s \in BOOLEAN, PlaceEnter(d, i, s)
      PROVE  BindOK'
  BY <1>1, BindUnmoved DEF PlaceEnter
<1>2. ASSUME NEW d \in Decision, Place(d) PROVE BindOK'
  <2>1. CASE PlaceRefuse(d) \/ PlaceLoad(d) \/ PlaceList(d) \/ PlaceRecheck(d) \/ PlaceSwept(d)
               \/ PlaceStart(d) \/ PlaceRecord(d)
    BY <2>1, BindUnmoved DEF PlaceRefuse, PlaceLoad, PlaceList, PlaceRecheck, PlaceSwept,
                             PlaceStart, PlaceRecord
  <2>2. CASE PlaceUnbind(d)
    <3>1. place[d].id \in Iid
      BY <2>2, AtWork DEF PlaceUnbind
    <3> QED
      BY <2>2, <3>1, BindMoves DEF PlaceUnbind, Task, BindOK
  <2>3. CASE PlaceLease(d)
    <3>1. place[d].id \in Iid
      BY <2>3, AtWork DEF PlaceLease
    <3> QED
      BY <2>3, <3>1, BindMoves DEF PlaceLease, BindOK
  <2>4. CASE PlaceRollBack(d)
    <3>1. place[d].id \in Iid
      BY <2>4, AtWork DEF PlaceRollBack
    <3> QED
      BY <2>4, <3>1, BindMoves DEF PlaceRollBack, Task, BindOK
  <2>5. CASE PlaceRolledBack(d)
    <3>1. place[d].id \in Iid
      BY <2>5, AtWork DEF PlaceRolledBack
    <3> QED
      BY <2>5, <3>1, BindMoves DEF PlaceRolledBack, Task, BindOK
  <2>6. CASE PlaceUnlist(d)
    <3>1. place[d].id \in Iid
      BY <2>6, AtWork DEF PlaceUnlist
    <3> QED
      BY <2>6, <3>1, BindMoves DEF PlaceUnlist, BindOK
  <2> QED
    BY <1>2, <2>1, <2>2, <2>3, <2>4, <2>5, <2>6 DEF Place
<1>3. ASSUME NEW i \in Iid, Start(i) \/ Stop(i) \/ BusBegin(i) \/ Exit(i) \/ ListChange(i)
      PROVE  BindOK'
  BY <1>3, BindUnmoved DEF Start, Stop, BusBegin, BusStep, Exit, ListChange, host, bindings
<1>4. ASSUME NEW i \in Iid, UnloadBegin(i) PROVE BindOK'
  BY <1>4, BindMoves DEF UnloadBegin, Task, BindOK
<1>5. CASE UnloadEnd
  <2>1. unloading \in Iid
    BY <1>5 DEF UnloadEnd, IInv, HostTypes, UnloadingOK
  <2> QED
    BY <1>5, <2>1, BindMoves DEF UnloadEnd, Task, BindOK
<1>6. CASE StatusBegin \/ StatusEnd \/ BusStop \/ BusMark \/ Silence \/ ListBump
  BY <1>6, BindUnmoved DEF StatusBegin, StatusEnd, BusStop, BusMark, BusStep, Silence, ListBump,
                           host, bindings
<1>7. CASE Supervise
  <2>1. SupStep
    BY <1>7 DEF Supervise, SupLease, SupLeaseStop, SupLeaseMark, SupPick, SupPoll, SupApply,
                SupFailedStop, SupRestartStop, SupRestartStart, SupRestartMark
  <2> QED
    BY <2>1, BindUnmoved DEF SupStep
<1>8. CASE SweepBegin
  BY <1>8, BindUnmoved DEF SweepBegin
<1>9. ASSUME NEW e \in Enforcer, Enforce(e) PROVE BindOK'
  <2>1. ASSUME NEW i \in Iid, Teardown(e, i) PROVE BindOK'
    <3>1. bound' = bound
      BY <2>1 DEF Teardown
    <3>2. DropEntry(i) \/ Unfinished(i, "teardown") \/ Unfinished(i, unfinished[i])
      BY <2>1 DEF Teardown
    <3>3. Unfinished(i, unfinished[i]) => UNCHANGED unfinished
      BY DEF Unfinished, BindOK
    <3> QED
      BY <3>1, <3>2, <3>3, BindMoves DEF Task, BindOK
  <2>2. CASE TeardownEnd(e)
    <3>1. enf[e].id \in Iid
      BY <2>2, EnfAtWork DEF TeardownEnd
    <3> QED
      BY <2>2, <3>1, BindMoves DEF TeardownEnd, Task, BindOK
  <2>3. CASE Forget(e)
    <3>1. enf[e].id \in Iid
      BY <2>3, EnfAtWork DEF Forget
    <3> QED
      BY <2>3, <3>1, BindMoves DEF Forget, BindOK
  <2>4. CASE NoteForgotten(e) \/ EnforceEnd(e)
    BY <2>4, BindUnmoved DEF NoteForgotten, EnforceEnd
  <2> QED
    BY <1>9, <2>1, <2>2, <2>3, <2>4 DEF Enforce
<1>10. CASE JournalAppend \/ HostBoots
  BY <1>10, BindUnmoved DEF JournalAppend, HostBoots, RestorePlace, Quiet, host, bindings
<1>11. CASE HostStops
  BY <1>11 DEF HostStops, HostGone, BindOK
<1>12. CASE UNCHANGED vars
  BY <1>12, BindUnmoved DEF vars, host, bindings
<1> QED
  BY <1>1, <1>2, <1>3, <1>4, <1>5, <1>6, <1>7, <1>8, <1>9, <1>10, <1>11, <1>12 DEF Next

LEMMA BindInvariance == Spec => []BindOK
<1>1. Init => BindOK
  BY DEF Init, BindOK
<1> QED
  BY <1>1, HostInvariance, BindKeeps, PTL DEF Spec

(* Through every interleaving of requests, verbs, supervision, sweeps,     *)
(* crashes and restores the host's state is well formed: each task holds   *)
(* an instance where it works on one, misses and restarts stay within      *)
(* their limits, and the departed list within its cap.                     *)
THEOREM TypeCorrect == Spec => []TypeOK
<1>1. IInv /\ BindOK => TypeOK
  BY DEF BindOK, IInv, JournalInv, HostTypes, MapOK, DepartedOK, AdapterOK, PlaceOK, SupOK, BusOK, EnfOK,
         ReaderTypeOK, WorldOK, UnloadingOK, TypeOK, PlaceType, PlacePC, SupType, EnfType
<1> QED
  BY HostInvariance, BindInvariance, <1>1, PTL

(* instance_op: what STATUS shows neither in flight nor listed is over, so *)
(* the controller may place the workload again, however the listing and    *)
(* the handlers interleave.                                                *)
THEOREM StatusIsSettled == Spec => []StatusSettles
<1>1. IInv => StatusSettles
  BY DEF IInv, ReaderOK, StatusSettles, Settled, Active
<1> QED
  BY HostInvariance, <1>1, PTL

(* Journal::save, as the host drives it, requests overlapping and          *)
(* revocations included: the node's own file is never taken for a replay.  *)
THEOREM HostFileAccepted == Spec => []OwnFileIsNoReplay
<1>1. IInv => OwnFileIsNoReplay
  BY DEF IInv, JournalInv
<1> QED
  BY HostInvariance, <1>1, PTL
==============================================================================
