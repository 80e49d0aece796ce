------------------------ MODULE WorkloadHostWholeProofs ------------------------
(***************************************************************************)
(* What the workload host lists and what it holds, when whoever controls   *)
(* an instance sends one request about it at a time (Overlap FALSE),       *)
(* no unload fails (directories can be removed, governance does not refuse *)
(* them) and no revocation is lifted.                                      *)
(***************************************************************************)
EXTENDS WorkloadHostProofs

OneAtATime ==
  /\ Overlap = FALSE
  /\ "rmdir" \notin Faults /\ "deny" \notin Faults
  /\ Budget["unrevoke"] = 0

(* What enforce_revocations has in hand.                                   *)
Removing(i) == \E e \in Enforcer : enf[e].pc \in {"removing", "forget", "noting"} /\ enf[e].id = i
Noting(i) == \E e \in Enforcer : enf[e].pc = "noting" /\ enf[e].id = i
Forgetting(i) == \E e \in Enforcer : enf[e].pc = "forget" /\ enf[e].id = i
Picked(i) == Removing(i) \/ \E e \in Enforcer : i \in enf[e].todo

(* Revocations stay, and only the revoked are taken on.                    *)
NoLift == left["unrevoke"] = 0
EnfRevoked ==
  \A e \in Enforcer :
    /\ enf[e].todo \subseteq revoked
    /\ enf[e].pc \in {"removing", "forget", "noting"} => enf[e].id \in revoked

(* An enforcement has work only while it runs, and one that place called   *)
(* runs while that place waits for it.                                     *)
EnfOwned ==
  /\ \A e \in Enforcer : enf[e].pc = "idle" => enf[e].todo = {}
  /\ \A d \in Decision : enf[d].pc # "idle" => place[d].pc = "sweeping"

(* One request at a time about an instance, the restore's included.        *)
Alone ==
  /\ \A c, d \in Decision : Active(c) /\ Active(d) /\ place[c].id = place[d].id => c = d
  /\ \A d \in Decision : Active(d) => place[d].id # unloading
RestoreAlone ==
  phase = "restoring" =>
    /\ unloading = None
    /\ \A d \in Decision : Active(d) =>
         cur # None /\ ~cur.placed /\ d = cur.entry.decision /\ place[d].id = cur.id

(* Between its load and its listing an instance is the placement's own.    *)
Own(d) ==
  place[d].pc \in {"loaded", "unbinding", "leased"} =>
    /\ instances[place[d].id] = None /\ place[d].id \in loaded /\ ~Picked(place[d].id)
    /\ place[d].pc # "unbinding" => adapter[place[d].id] # "absent"
OwnOK == \A d \in Decision : Own(d)

(* A listed instance is loaded and known to the adapter, unless a task is  *)
(* taking it down.                                                         *)
Undoing(i) == \E d \in Decision : place[d].pc \in {"undoing", "unlisting"} /\ place[d].id = i
Unlisting(i) == \E d \in Decision : place[d].pc = "unlisting" /\ place[d].id = i
Whole(i) ==
  instances[i] # None =>
    /\ i \in loaded \/ Forgetting(i) \/ Unlisting(i)
    /\ adapter[i] # "absent" \/ unloading = i \/ Undoing(i) \/ Removing(i)
    /\ ~Noting(i)
MapWhole == \A i \in Iid : Whole(i)

(* What was answered for and is listed is journaled.                       *)
AnsweredOK ==
  /\ \A i \in answered : instances[i] # None => entries[i] # None
  /\ todo \cap answered = {}
  /\ cur # None /\ ~cur.placed => cur.id \notin answered
  /\ phase = "down" => answered = {}

(* A placement that the gate let through before a revocation carries an    *)
(* older generation than the list, once the list has its new one.          *)
Dated ==
  /\ \A d \in Decision : place[d].gen <= revGen
  /\ swept # None => swept <= revGen
Late ==
  \A d \in Decision :
    place[d].pc \in {"loaded", "leased", "listed"} /\ place[d].id \in revoked =>
      bumping \/ place[d].gen < revGen

(* What a sweep of the list as it is passed over looks again by itself.    *)
Looks(i) ==
  \E d \in Decision : place[d].pc = "listed" /\ place[d].id = i /\ place[d].gen # revGen
SweptOver ==
  ~bumping /\ swept = revGen =>
    \A i \in revoked : instances[i] # None => Picked(i) \/ Looks(i) \/ Unlisting(i)

WInv ==
  /\ NoLift /\ EnfRevoked /\ EnfOwned /\ Alone /\ RestoreAlone /\ OwnOK /\ MapWhole
  /\ AnsweredOK /\ Dated /\ Late /\ SweptOver

-----------------------------------------------------------------------------
(* The journal holds i, and not for another try at the next start.         *)
Held(i) == entries[i] # None /\ entries[i].failures = 0

(* Steps that move no task between these points: nothing is listed, loaded *)
(* or unloaded, nothing enters or leaves the journal, and credentials come *)
(* only to listed instances nobody is at work on.                          *)
Calm ==
  /\ \A i \in Iid : /\ instances'[i] = None <=> instances[i] = None
                    /\ adapter'[i] = "absent" <=> adapter[i] = "absent"
                    /\ entries'[i] = None => entries[i] = None
                    /\ Held(i)' => Held(i)
                    /\ i \in token' => i \in token \/ (instances[i] # None /\ ~Busy(i))
  /\ UNCHANGED <<loaded, place, unloading, enf, phase, todo, cur, answered, revoked,
                 revGen, bumping, swept>>
  /\ left'["unrevoke"] = left["unrevoke"] /\ left'["revoke"] = left["revoke"]

LEMMA CalmKeeps == ASSUME IInv, WInv, Calm PROVE WInv'
<1> USE DEF Calm
<1>0. /\ \A e \in Enforcer : enf[e].todo \subseteq Iid
      /\ \A d \in Decision : place[d].pc # "idle" => place[d].id \in Iid
      /\ answered \subseteq Iid /\ revoked \subseteq Iid
  BY DEF IInv, HostTypes, EnfOK, EnfType, PlaceOK, WorldOK
<1>1. NoLift' /\ EnfRevoked' /\ EnfOwned' /\ Dated' /\ Late'
  BY DEF WInv, NoLift, EnfRevoked, EnfOwned, Dated, Late
<1>2. Alone' /\ RestoreAlone'
  BY DEF WInv, Alone, RestoreAlone, Active
<1>3. OwnOK'
  BY <1>0 DEF WInv, OwnOK, Own, Picked, Removing
<1>4. MapWhole'
  BY DEF WInv, MapWhole, Whole, Forgetting, Noting, Removing, Undoing, Unlisting
<1>5. AnsweredOK'
  BY <1>0 DEF WInv, AnsweredOK
<1>6. SweptOver'
  BY <1>0 DEF WInv, SweptOver, Picked, Removing, Looks, Unlisting
<1> QED
  BY <1>1, <1>2, <1>3, <1>4, <1>5, <1>6 DEF WInv

(* The adapter's calls keep its entries, and a change of intent the        *)
(* journal's.                                                              *)
LEMMA CallsKeepEntries ==
  ASSUME IInv, NEW i \in Iid
  PROVE  /\ \A ok \in BOOLEAN : HostStart(i, ok) \/ HostStop(i, ok) =>
              \A j \in Iid : adapter'[j] = "absent" <=> adapter[j] = "absent"
         /\ \A s \in BOOLEAN : set_desired(i, s) =>
              \A j \in Iid : /\ entries'[j] = None <=> entries[j] = None
                             /\ Held(j)' => Held(j)
<1>1. adapter \in [Iid -> AdapterState] /\ entries \in [Iid -> Entry \cup {None}]
  BY DEF IInv, HostTypes, AdapterOK, JournalInv, JournalTypeOK, EntryMap
<1>2. \A ok \in BOOLEAN : HostStart(i, ok) \/ HostStop(i, ok) =>
        \A j \in Iid : adapter'[j] = "absent" <=> adapter[j] = "absent"
  BY <1>1 DEF HostStart, HostStop, CanStart, CanStop
<1>3. ASSUME NEW s \in BOOLEAN, set_desired(i, s)
      PROVE  \A j \in Iid : /\ entries'[j] = None <=> entries[j] = None
                            /\ Held(j)' => Held(j)
  <2>1. entries[i] \in Entry =>
          /\ [entries[i] EXCEPT !.desired = s] # None
          /\ [entries[i] EXCEPT !.desired = s].failures = entries[i].failures
    <3>1. entries[i] \in Entry => [entries[i] EXCEPT !.desired = s] \in Entry
      BY DEF Entry
    <3>2. entries[i] \in Entry =>
            [entries[i] EXCEPT !.desired = s].failures = entries[i].failures
      BY DEF Entry
    <3> QED
      BY <3>1, <3>2, HostJournalAssumption
  <2>2. CASE entries' = [entries EXCEPT ![i].desired = s] /\ entries[i] # None
    <3> DEFINE e == [entries[i] EXCEPT !.desired = s]
    <3>1. entries' = [entries EXCEPT ![i] = e] /\ e # None /\ e.failures = entries[i].failures
      BY <1>1, <2>1, <2>2
    <3> HIDE DEF e
    <3> QED
      BY <1>1, <2>2, <3>1 DEF Held
  <2>3. CASE entries' = entries
    BY <2>3 DEF Held
  <2> QED
    BY <1>3, <2>2, <2>3 DEF set_desired, Save, NoSave
<1> QED
  BY <1>2, <1>3

LEMMA SuperviseCalm == ASSUME IInv, Supervise PROVE Calm
<1>1. SupStep => /\ UNCHANGED <<loaded, place, unloading, enf, phase, todo, cur, answered,
                                revoked, revGen, bumping, swept, entries>>
                 /\ left' = left
  BY DEF SupStep, world, ghosts, journal, memory, restore
<1>2. SupStep /\ UNCHANGED adapter /\ token' \subseteq token
        /\ (\A i \in Iid : instances[i] = None => instances'[i] = None)
        => Calm
  BY <1>1, SuperviseKeeps DEF Calm, Held, Steady
<1>3. instances \in [Iid -> Instance \cup {None}]
  BY DEF IInv, HostTypes, MapOK
<1>4. ASSUME SupStep, UNCHANGED <<instances, token>>, NEW i \in Iid, NEW ok \in BOOLEAN,
             HostStart(i, ok) \/ HostStop(i, ok)
      PROVE  Calm
  BY <1>1, <1>4, CallsKeepEntries DEF Calm, Held
<1>5. CASE SupLease
  BY <1>2, <1>5 DEF SupLease, TokenOff
<1>6. CASE SupLeaseMark \/ SupRestartMark
  BY <1>2, <1>3, <1>6 DEF SupLeaseMark, SupRestartMark
<1>7. CASE SupPick \/ \E i \in Iid : SupPoll(i)
  BY <1>2, <1>7 DEF SupPick, SupPoll
<1>8. CASE SupApply
  <2>1. SupStep /\ UNCHANGED <<adapter, token>>
    BY <1>8 DEF SupApply
  <2>2. UNCHANGED instances \/ (instances[sup.id] # None /\ \E p : Become(sup.id, p))
    BY <1>8 DEF SupApply
  <2>3. \A i \in Iid : instances[i] = None => instances'[i] = None
    BY <1>3, <2>2 DEF Become
  <2> QED
    BY <1>2, <2>1, <2>3
<1>9. CASE \E i \in Iid : SupLeaseStop(i)
  BY <1>4, <1>9 DEF SupLeaseStop
<1>10. CASE SupFailedStop \/ SupRestartStop \/ SupRestartStart
  <2>1. sup.id \in Iid
    BY <1>10 DEF IInv, HostTypes, SupOK, SupFailedStop, SupRestartStop, SupRestartStart
  <2> QED
    BY <1>4, <1>10, <2>1 DEF SupFailedStop, SupRestartStop, SupRestartStart
<1> QED
  BY <1>5, <1>6, <1>7, <1>8, <1>9, <1>10 DEF Supervise

LEMMA VerbsCalm == ASSUME OneAtATime, IInv, NEW i \in Iid, Start(i) \/ Stop(i) PROVE Calm
<1>1. /\ UNCHANGED <<loaded, place, unloading, enf, answered, swept, revoked, revGen, bumping>>
      /\ UNCHANGED <<phase, todo, cur>>
      /\ \E p : instances' = [instances EXCEPT ![i] = p] \/ instances' = instances
      /\ instances[i] # None /\ Spend("verb") /\ ~Busy(i)
      /\ (\E s \in BOOLEAN : set_desired(i, s)) \/ entries' = entries
      /\ \E ok \in BOOLEAN : HostStart(i, ok) \/ HostStop(i, ok)
  BY DEF Start, Stop, Requested, tasks, ghosts, Untouched, restore, journal, memory, Allowed, OneAtATime
<1>2. left'["unrevoke"] = left["unrevoke"] /\ left'["revoke"] = left["revoke"]
  BY <1>1 DEF Spend, Event, IInv, HostTypes, WorldOK
<1>3. \A j \in Iid : instances'[j] = None <=> instances[j] = None
  <2>1. \A j \in Iid : instances[j] = None => instances'[j] = None
    BY <1>1 DEF IInv, HostTypes, MapOK
  <2>2. \A j \in Iid : instances[j] # None => instances'[j] # None
    BY StartStep, StopStep DEF Steady
  <2> QED
    BY <2>1, <2>2
<1>4. \A j \in Iid : /\ adapter'[j] = "absent" <=> adapter[j] = "absent"
                     /\ entries'[j] = None => entries[j] = None
                     /\ Held(j)' => Held(j)
  BY <1>1, CallsKeepEntries DEF Held
<1>5. token' \subseteq token \cup {i}
  BY DEF Start, Stop, TokenOn, TokenOff
<1> QED
  BY <1>1, <1>2, <1>3, <1>4, <1>5 DEF Calm

LEMMA BusCalm == ASSUME IInv, (\E i \in Iid : BusBegin(i)) \/ BusStop \/ BusMark PROVE Calm
<1>1. /\ UNCHANGED <<loaded, place, unloading, enf, answered, swept, revoked, revGen, bumping>>
      /\ UNCHANGED <<phase, todo, cur, entries>>
  BY DEF BusBegin, BusStop, BusMark, BusStep, ghosts, journal, memory, restore
<1>2. left'["unrevoke"] = left["unrevoke"] /\ left'["revoke"] = left["revoke"]
  BY DEF BusBegin, BusStop, BusMark, Spend, Event, IInv, HostTypes, WorldOK
<1>3. \A j \in Iid : instances'[j] = None <=> instances[j] = None
  <2>1. instances \in [Iid -> Instance \cup {None}]
    BY DEF IInv, HostTypes, MapOK
  <2>2. ASSUME NEW i \in Iid, BusBegin(i) PROVE \A j \in Iid : instances[j] = None => instances'[j] = None
    BY <2>1, <2>2 DEF BusBegin
  <2>3. \A j \in Iid : instances[j] = None => instances'[j] = None
    BY <2>1, <2>2 DEF BusStop, BusMark
  <2>4. BusStop => instances' = instances
    BY DEF BusStop
  <2> QED
    BY <2>3, <2>4, BusBeginStep, BusMarkStep DEF Steady
<1>4. \A j \in Iid : adapter'[j] = "absent" <=> adapter[j] = "absent"
  <2>1. CASE BusStop
    BY <2>1, CallsKeepEntries DEF BusStop, IInv, HostTypes, BusOK
  <2> QED
    BY <2>1 DEF BusBegin, BusMark
<1>5. token' \subseteq token
  BY DEF BusBegin, BusStop, BusMark, TokenOff
<1> QED
  BY <1>1, <1>2, <1>3, <1>4, <1>5 DEF Calm, Held

LEMMA OthersCalm ==
  ASSUME IInv,
         StatusBegin \/ StatusEnd \/ Silence \/ JournalAppend \/ \E i \in Iid : Exit(i)
  PROVE  Calm
<1>1. /\ UNCHANGED <<instances, loaded, token, place, unloading, enf, answered, swept, revoked, revGen,
                     bumping>>
      /\ UNCHANGED <<phase, todo, cur, entries>>
  BY DEF StatusBegin, StatusEnd, Silence, JournalAppend, Exit, AppendChain, Quiet, host, tasks, world,
         ghosts, journal, memory, restore
<1>2. left'["unrevoke"] = left["unrevoke"] /\ left'["revoke"] = left["revoke"]
  BY DEF StatusBegin, StatusEnd, Silence, JournalAppend, Exit, Spend, Event, Quiet, world, IInv,
         HostTypes, WorldOK
<1>3. \A j \in Iid : adapter'[j] = "absent" <=> adapter[j] = "absent"
  BY DEF StatusBegin, StatusEnd, Silence, JournalAppend, Exit, Quiet, host, IInv, HostTypes, AdapterOK
<1> QED
  BY <1>1, <1>2, <1>3 DEF Calm, Held

-----------------------------------------------------------------------------
(* place.                                                                  *)

Moves(d, pc) ==
  \A c \in Decision :
    /\ place'[c].id = place[c].id /\ place'[c].gen = place[c].gen /\ place'[c].start = place[c].start
    /\ place'[c].pc = IF c = d THEN pc ELSE place[c].pc

LEMMA HandlerMoves ==
  ASSUME IInv, NEW d \in Decision
  PROVE  /\ \A pc : Go(d, pc) => Moves(d, pc)
         /\ \A permanent : Refuse(d, permanent) => Moves(d, "refused")
         /\ Active(d) => place[d].id \in Iid
BY DEF Go, Refuse, Moves, Active, IInv, HostTypes, PlaceOK, PlaceType

(* What the move of one handler leaves to the others.                      *)
TasksOK ==
  /\ NoLift /\ EnfRevoked /\ EnfOwned /\ Alone /\ RestoreAlone /\ Dated /\ Late

LEMMA HandlerKeeps ==
  ASSUME IInv, WInv, NEW d \in Decision, Active(d), NEW pc, pc # "idle", Moves(d, pc),
         place[d].pc = "sweeping" => enf[d].pc = "idle",
         pc \in {"loaded", "leased", "listed"} =>
           place[d].pc \in {"loaded", "leased", "listed"} \/ place[d].id \notin revoked,
         cur' = cur \/ pc = "done",
         UNCHANGED <<enf, unloading, phase, world, swept>>
  PROVE  TasksOK'
<1> USE DEF WInv
<1>0. UNCHANGED <<revoked, revGen, bumping, left>>
  BY DEF world
<1>1. NoLift' /\ EnfRevoked'
  BY <1>0 DEF NoLift, EnfRevoked
<1>2. EnfOwned'
  BY DEF EnfOwned, Moves
<1>3. Alone' /\ RestoreAlone'
  <2>1. \A c \in Decision : Active(c)' => Active(c)
    BY DEF Active, Moves
  <2>2. Alone'
    BY <2>1 DEF Alone, Moves
  <2>3. RestoreAlone'
    BY <2>1 DEF RestoreAlone, Moves, Active
  <2> QED
    BY <2>2, <2>3
<1>4. Dated' /\ Late'
  BY <1>0 DEF Dated, Late, Moves
<1> QED
  BY <1>1, <1>2, <1>3, <1>4 DEF TasksOK

(* A handler that changes neither what is listed nor what is loaded.       *)
LEMMA StillKeeps ==
  ASSUME IInv, WInv, NEW d \in Decision, Active(d), NEW pc, Moves(d, pc),
         pc \notin {"idle", "loaded", "unbinding", "leased", "listed", "undoing", "unlisting"},
         place[d].pc \notin {"listed", "undoing", "unlisting"},
         place[d].pc = "sweeping" => enf[d].pc = "idle",
         \A i \in Iid : adapter'[i] = "absent" <=> adapter[i] = "absent",
         UNCHANGED <<instances, loaded, enf, unloading, phase, todo, cur, world, ghosts, entries>>
  PROVE  WInv'
<1> USE DEF WInv
<1>0. UNCHANGED <<revoked, revGen, bumping, left, answered, swept>>
  BY DEF world, ghosts
<1>1. TasksOK'
  BY <1>0, HandlerKeeps
<1>2. OwnOK'
  BY DEF OwnOK, Own, Picked, Removing, Moves, IInv, HostTypes, PlaceOK
<1>3. MapWhole'
  BY DEF MapWhole, Whole, Forgetting, Noting, Removing, Undoing, Unlisting, Moves
<1>4. AnsweredOK'
  BY <1>0 DEF AnsweredOK
<1>5. SweptOver'
  BY <1>0 DEF SweptOver, Picked, Removing, Looks, Unlisting, Moves
<1> QED
  BY <1>1, <1>2, <1>3, <1>4, <1>5 DEF TasksOK

LEMMA PlaceStillWhole ==
  ASSUME IInv, WInv, NEW d \in Decision, PlaceRefuse(d) \/ PlaceSwept(d) \/ PlaceStart(d)
  PROVE  WInv'
<1>0. UNCHANGED <<instances, loaded, enf, unloading, phase, todo, cur, world, ghosts, entries>>
  BY DEF PlaceRefuse, PlaceSwept, PlaceStart, journal, memory, restore
<1>1. Active(d) /\ place[d].id \in Iid
  BY HandlerMoves DEF PlaceRefuse, PlaceSwept, PlaceStart, Active
<1>2. CASE PlaceRefuse(d)
  BY <1>0, <1>1, <1>2, HandlerMoves, StillKeeps DEF PlaceRefuse
<1>3. CASE PlaceSwept(d)
  BY <1>0, <1>1, <1>3, HandlerMoves, StillKeeps DEF PlaceSwept
<1>4. CASE PlaceStart(d)
  <2>1. \E pc \in {"recording", "undo"} : Moves(d, pc)
    <3>1. place \in [Decision -> PlaceType]
      BY DEF IInv, HostTypes, PlaceOK
    <3>2. CASE Go(d, "recording")
      BY <3>2, HandlerMoves
    <3>3. ASSUME NEW pc, NEW b, place' = [place EXCEPT ![d].pc = pc, ![d].permanent = b]
          PROVE  Moves(d, pc)
      BY <3>1, <3>3 DEF Moves, PlaceType
    <3> QED
      BY <1>4, <3>2, <3>3 DEF PlaceStart
  <2>2. \A i \in Iid : adapter'[i] = "absent" <=> adapter[i] = "absent"
    BY <1>1, <1>4, CallsKeepEntries DEF PlaceStart
  <2> QED
    BY <1>0, <1>1, <1>4, <2>1, <2>2, StillKeeps DEF PlaceStart
<1> QED
  BY <1>2, <1>3, <1>4

(* What a handler at work may count on.                                    *)
LEMMA OwnFacts ==
  ASSUME IInv, WInv, NEW d \in Decision, Active(d)
  PROVE  /\ place[d].id \in Iid /\ unloading # place[d].id
         /\ \A c \in Decision : Active(c) /\ c # d => place[c].id # place[d].id
         /\ place[d].pc \notin {"undoing", "unlisting"} => ~Undoing(place[d].id)
         /\ \A i : Removing(i) \/ Picked(i) => i \in revoked
<1>1. place[d].id \in Iid
  BY HandlerMoves
<1>2. /\ unloading # place[d].id
      /\ \A c \in Decision : Active(c) /\ c # d => place[c].id # place[d].id
  BY DEF WInv, Alone
<1>3. place[d].pc \notin {"undoing", "unlisting"} => ~Undoing(place[d].id)
  BY <1>2 DEF Undoing, Active
<1> QED
  BY <1>1, <1>2, <1>3 DEF WInv, EnfRevoked, Picked, Removing

LEMMA PlaceLoadWhole ==
  ASSUME IInv, WInv, NEW d \in Decision, PlaceLoad(d)
  PROVE  WInv'
<1> DEFINE i == place[d].id
<1>0. /\ place[d].pc = "fetching" /\ Active(d) /\ HostLoad(i) /\ Moves(d, "loaded")
      /\ UNCHANGED <<instances, enf, unloading, phase, todo, cur, world, ghosts, entries>>
      /\ UNCHANGED <<revoked, revGen, bumping, answered, swept>>
  BY HandlerMoves DEF PlaceLoad, Active, journal, memory, restore, world, ghosts
<1>1. /\ i \in Iid /\ i \notin revoked /\ adapter[i] = "absent" /\ unloading # i
      /\ ~Undoing(i) /\ ~Removing(i) /\ ~Picked(i)
      /\ \A c \in Decision : Active(c) /\ c # d => place[c].id # i
  BY <1>0, OwnFacts DEF HostLoad, CanLoad
<1>2. instances[i] = None
  BY <1>1 DEF WInv, MapWhole, Whole
<1>3. /\ \A j \in Iid : adapter'[j] = IF j = i THEN "idle" ELSE adapter[j]
      /\ loaded' = loaded \cup {i}
  BY <1>0 DEF HostLoad, IInv, HostTypes, AdapterOK
<1> HIDE DEF i
<1>4. TasksOK'
  BY <1>0, <1>1, HandlerKeeps DEF i
<1>5. OwnOK'
  <2> SUFFICES ASSUME NEW c \in Decision PROVE Own(c)'
    BY DEF OwnOK
  <2>1. CASE c = d
    BY <1>0, <1>1, <1>2, <1>3, <2>1 DEF Own, Moves, Picked, Removing, i
  <2>2. CASE c # d /\ place[c].pc \in {"loaded", "unbinding", "leased"}
    <3>1. Active(c) /\ Own(c)
      BY <2>2 DEF Active, WInv, OwnOK
    <3>2. place[c].id \in Iid
      BY <3>1, HandlerMoves
    <3> QED
      BY <1>0, <1>1, <1>3, <2>2, <3>1, <3>2 DEF Own, Moves, Picked, Removing
  <2> QED
    BY <1>0, <2>1, <2>2 DEF Own, Moves
<1>6. MapWhole'
  BY <1>0, <1>2, <1>3 DEF WInv, MapWhole, Whole, Forgetting, Noting, Removing, Undoing, Unlisting, Moves
<1>7. AnsweredOK'
  BY <1>0 DEF WInv, AnsweredOK
<1>8. SweptOver'
  BY <1>0 DEF WInv, SweptOver, Picked, Removing, Looks, Unlisting, Moves
<1> QED
  BY <1>4, <1>5, <1>6, <1>7, <1>8 DEF WInv, TasksOK

LEMMA PlaceUnbindWhole ==
  ASSUME OneAtATime, IInv, WInv, NEW d \in Decision, PlaceUnbind(d)
  PROVE  WInv'
<1> DEFINE i == place[d].id
<1>0. /\ place[d].pc \in {"loaded", "unbinding"} /\ Active(d)
      /\ UNCHANGED <<instances, enf, unloading, phase, todo, cur, world, ghosts, entries>>
      /\ UNCHANGED <<revoked, revGen, bumping, answered, swept>>
  BY DEF PlaceUnbind, Active, journal, memory, restore, world, ghosts
<1>1. /\ i \in Iid /\ Own(d)
      /\ \A c \in Decision : Active(c) /\ c # d => place[c].id # i
  BY <1>0, OwnFacts DEF WInv, OwnOK
<1>2. /\ instances[i] = None /\ i \in loaded /\ ~Picked(i)
      /\ place[d].pc = "loaded" => adapter[i] # "absent"
  BY <1>0, <1>1 DEF Own
<1>3. /\ \A j \in Iid : j # i => adapter'[j] = adapter[j] /\ (j \in loaded' <=> j \in loaded)
      /\ \/ Moves(d, "unbinding") /\ i \in loaded'
         \/ Moves(d, "refused")
  BY <1>0, <1>2, HandlerMoves DEF PlaceUnbind, CanUnload, DropEntry, UnloadFails, RemoveDir, OneAtATime,
                                  IInv, HostTypes, AdapterOK
<1> HIDE DEF i
<1>4. TasksOK'
  BY <1>0, <1>3, HandlerKeeps
<1>5. OwnOK'
  <2> SUFFICES ASSUME NEW c \in Decision PROVE Own(c)'
    BY DEF OwnOK
  <2>1. CASE c = d
    BY <1>0, <1>1, <1>2, <1>3, <2>1 DEF Own, Moves, Picked, Removing, i
  <2>2. CASE c # d /\ place[c].pc \in {"loaded", "unbinding", "leased"}
    <3>1. Active(c) /\ Own(c)
      BY <2>2 DEF Active, WInv, OwnOK
    <3>2. place[c].id \in Iid
      BY <3>1, HandlerMoves
    <3> QED
      BY <1>0, <1>1, <1>3, <2>2, <3>1, <3>2 DEF Own, Moves, Picked, Removing
  <2> QED
    BY <1>3, <2>1, <2>2 DEF Own, Moves
<1>6. MapWhole'
  BY <1>0, <1>2, <1>3 DEF WInv, MapWhole, Whole, Forgetting, Noting, Removing, Undoing, Unlisting, Moves
<1>7. AnsweredOK'
  BY <1>0 DEF WInv, AnsweredOK
<1>8. SweptOver'
  BY <1>0, <1>3 DEF WInv, SweptOver, Picked, Removing, Looks, Unlisting, Moves
<1> QED
  BY <1>4, <1>5, <1>6, <1>7, <1>8 DEF WInv, TasksOK

LEMMA PlaceLeaseWhole ==
  ASSUME IInv, WInv, NEW d \in Decision, PlaceLease(d)
  PROVE  WInv'
<1>0. /\ place[d].pc = "loaded" /\ Active(d) /\ Moves(d, "leased")
      /\ UNCHANGED <<instances, loaded, adapter, enf, unloading, phase, todo, cur, world, ghosts, entries>>
      /\ UNCHANGED <<revoked, revGen, bumping, answered, swept>>
  BY HandlerMoves DEF PlaceLease, Active, journal, memory, restore, world, ghosts
<1>1. TasksOK'
  BY <1>0, HandlerKeeps
<1>2. OwnOK'
  BY <1>0 DEF WInv, OwnOK, Own, Picked, Removing, Moves
<1>3. MapWhole'
  BY <1>0 DEF WInv, MapWhole, Whole, Forgetting, Noting, Removing, Undoing, Unlisting, Moves
<1>4. AnsweredOK'
  BY <1>0 DEF WInv, AnsweredOK
<1>5. SweptOver'
  BY <1>0 DEF WInv, SweptOver, Picked, Removing, Looks, Unlisting, Moves
<1> QED
  BY <1>1, <1>2, <1>3, <1>4, <1>5 DEF WInv, TasksOK

LEMMA PlaceListWhole ==
  ASSUME IInv, WInv, NEW d \in Decision, PlaceList(d)
  PROVE  WInv'
<1> DEFINE i == place[d].id
<1>0. /\ place[d].pc = "leased" /\ Active(d) /\ Moves(d, "listed")
      /\ UNCHANGED <<loaded, adapter, enf, unloading, phase, todo, cur, world, swept, entries>>
      /\ UNCHANGED <<revoked, revGen, bumping>> /\ answered' = answered \ {i}
  BY HandlerMoves DEF PlaceList, Active, journal, memory, restore, world, ghosts
<1>1. /\ i \in Iid /\ Own(d)
      /\ \A c \in Decision : Active(c) /\ c # d => place[c].id # i
  BY <1>0, OwnFacts DEF WInv, OwnOK
<1>2. /\ i \in loaded /\ adapter[i] # "absent" /\ ~Noting(i)
  BY <1>0, <1>1 DEF Own, Picked, Removing, Noting
<1>3. \A j \in Iid : j # i => instances'[j] = instances[j]
  BY DEF PlaceList, IInv, HostTypes, MapOK
<1> HIDE DEF i
<1>4. TasksOK'
  BY <1>0, HandlerKeeps
<1>5. OwnOK'
  <2> SUFFICES ASSUME NEW c \in Decision PROVE Own(c)'
    BY DEF OwnOK
  <2>1. CASE c # d /\ place[c].pc \in {"loaded", "unbinding", "leased"}
    <3>1. Active(c) /\ Own(c)
      BY <2>1 DEF Active, WInv, OwnOK
    <3>2. place[c].id \in Iid
      BY <3>1, HandlerMoves
    <3> QED
      BY <1>0, <1>1, <1>3, <2>1, <3>1, <3>2 DEF Own, Moves, Picked, Removing
  <2> QED
    BY <1>0, <2>1 DEF Own, Moves
<1>6. MapWhole'
  BY <1>0, <1>2, <1>3 DEF WInv, MapWhole, Whole, Forgetting, Noting, Removing, Undoing, Unlisting, Moves
<1>7. AnsweredOK'
  <2>1. answered \subseteq Iid
    BY DEF IInv, HostTypes, WorldOK
  <2> QED
    BY <1>0, <1>3, <2>1 DEF WInv, AnsweredOK
<1>8. SweptOver'
  <2> SUFFICES ASSUME ~bumping, swept = revGen, NEW j \in revoked, instances'[j] # None
               PROVE  Picked(j)' \/ Looks(j)' \/ Unlisting(j)'
    BY <1>0 DEF SweptOver
  <2>1. CASE j = i
    <3>1. place[d].gen < revGen
      BY <1>0, <2>1 DEF WInv, Late, i
    <3>2. place[d].gen # revGen
      BY <3>1 DEF IInv, HostTypes, PlaceOK, PlaceType, WorldOK
    <3> QED
      BY <1>0, <2>1, <3>2 DEF Looks, Moves, i
  <2>2. CASE j # i
    <3>1. j \in Iid
      BY DEF IInv, HostTypes, WorldOK
    <3>2. Picked(j) \/ Looks(j) \/ Unlisting(j)
      BY <1>3, <2>2, <3>1 DEF WInv, SweptOver
    <3> QED
      BY <1>0, <3>2 DEF Picked, Removing, Looks, Unlisting, Moves
  <2> QED
    BY <2>1, <2>2
<1> QED
  BY <1>4, <1>5, <1>6, <1>7, <1>8 DEF WInv, TasksOK

(* What enforce_revocations takes on is listed, and nobody else's.         *)
Targets == {i \in Iid : instances[i] # None /\ i \in loaded /\ i \in revoked}

LEMMA PickFacts ==
  ASSUME IInv, WInv, NEW e \in Enforcer, EnforcePick(e), enf[e].pc = "idle",
         UNCHANGED <<instances, loaded, revoked>>
  PROVE  /\ \A i : Removing(i)' <=> Removing(i)
         /\ \A i : Forgetting(i)' <=> Forgetting(i)
         /\ \A i : Noting(i)' <=> Noting(i)
         /\ \A i : Picked(i)' <=> Picked(i) \/ i \in Targets
         /\ EnfRevoked'
         /\ \A f \in Enforcer : enf'[f].pc = "idle" => enf'[f].todo = {}
         /\ \A f \in Enforcer : f # e => enf'[f] = enf[f]
<1>1. /\ \A f \in Enforcer : f # e => enf'[f] = enf[f]
      /\ enf'[e].pc = "teardown" /\ enf'[e].todo = Targets /\ enf[e].todo = {}
  BY DEF EnforcePick, Targets, WInv, EnfOwned, IInv, HostTypes, EnfOK
<1>2. \A i : Removing(i)' <=> Removing(i)
  BY <1>1 DEF Removing
<1>3. /\ \A i : Forgetting(i)' <=> Forgetting(i)
      /\ \A i : Noting(i)' <=> Noting(i)
  BY <1>1 DEF Forgetting, Noting
<1>4. \A i : Picked(i)' <=> Picked(i) \/ i \in Targets
  <2>1. \A i : (\E f \in Enforcer : i \in enf'[f].todo)
                 <=> i \in Targets \/ \E f \in Enforcer : i \in enf[f].todo
    BY <1>1
  <2> QED
    BY <1>2, <2>1 DEF Picked
<1>5. EnfRevoked'
  BY <1>1 DEF EnfRevoked, Targets, WInv
<1>6. \A f \in Enforcer : enf'[f].pc = "idle" => enf'[f].todo = {}
  BY <1>1 DEF WInv, EnfOwned
<1> QED
  BY <1>1, <1>2, <1>3, <1>4, <1>5, <1>6

(* What a sweep does not take on is in another's hands already.            *)
LEMMA PickTakesAll ==
  ASSUME IInv, WInv, NEW i \in revoked, instances[i] # None
  PROVE  i \in Targets \/ Picked(i) \/ Unlisting(i)
<1>1. i \in Iid
  BY DEF IInv, HostTypes, WorldOK
<1> QED
  BY <1>1 DEF WInv, MapWhole, Whole, Targets, Forgetting, Picked, Removing

LEMMA PlaceRecheckWhole ==
  ASSUME IInv, WInv, NEW d \in Decision, PlaceRecheck(d)
  PROVE  WInv'
<1> DEFINE i == place[d].id
<1>0. /\ place[d].pc = "listed" /\ Active(d) /\ d \in Enforcer
      /\ UNCHANGED <<instances, loaded, adapter, unloading, phase, todo, cur, world, ghosts, entries>>
      /\ UNCHANGED <<revoked, revGen, bumping, left, answered, swept>>
  BY DEF PlaceRecheck, Active, journal, memory, restore, world, ghosts, Enforcer
<1>1. /\ i \in Iid /\ enf[d].pc = "idle"
      /\ \A c \in Decision : Active(c) /\ c # d => place[c].id # i
  BY <1>0, OwnFacts DEF WInv, EnfOwned
<1>2. AnsweredOK'
  BY <1>0 DEF WInv, AnsweredOK
<1>3. CASE revGen # place[d].gen
  <2>1. EnforcePick(d) /\ Moves(d, "sweeping")
    BY <1>3, HandlerMoves DEF PlaceRecheck
  <2>2. /\ \A j : Removing(j)' <=> Removing(j)
        /\ \A j : Forgetting(j)' <=> Forgetting(j)
        /\ \A j : Noting(j)' <=> Noting(j)
        /\ \A j : Picked(j)' <=> Picked(j) \/ j \in Targets
        /\ EnfRevoked'
        /\ \A f \in Enforcer : enf'[f].pc = "idle" => enf'[f].todo = {}
        /\ \A f \in Enforcer : f # d => enf'[f] = enf[f]
    BY <1>0, <1>1, <2>1, PickFacts
  <2>3. EnfOwned'
    BY <2>1, <2>2 DEF EnfOwned, WInv, Moves, Enforcer
  <2>4. Alone' /\ RestoreAlone'
    BY <1>0, <2>1 DEF WInv, Alone, RestoreAlone, Moves, Active
  <2>5. NoLift' /\ Dated' /\ Late'
    BY <1>0, <2>1 DEF WInv, NoLift, Dated, Late, Moves
  <2>6. OwnOK'
    <3> SUFFICES ASSUME NEW c \in Decision PROVE Own(c)'
      BY DEF OwnOK
    <3>1. place'[c].id = place[c].id /\ (place'[c].pc \in {"loaded", "unbinding", "leased"} => place'[c].pc = place[c].pc)
      BY <2>1 DEF Moves
    <3>2. Own(c) /\ (instances[place[c].id] = None => place[c].id \notin Targets)
      BY DEF WInv, OwnOK, Targets
    <3> QED
      BY <1>0, <2>2, <3>1, <3>2 DEF Own
  <2>7. MapWhole'
    <3>1. \A j : (Undoing(j) => Undoing(j)') /\ (Unlisting(j) => Unlisting(j)')
      BY <1>0, <2>1 DEF Undoing, Unlisting, Moves
    <3> QED
      BY <1>0, <2>2, <3>1 DEF WInv, MapWhole, Whole
  <2>8. SweptOver'
    <3>1. \A j : Unlisting(j) => Unlisting(j)'
      BY <1>0, <2>1 DEF Unlisting, Moves
    <3> QED
      BY <1>0, <2>2, <3>1, PickTakesAll DEF SweptOver
  <2> QED
    BY <1>2, <2>2, <2>3, <2>4, <2>5, <2>6, <2>7, <2>8 DEF WInv
<1>4. CASE revGen = place[d].gen
  <2>1. Moves(d, "starting") /\ enf' = enf
    BY <1>4, HandlerMoves DEF PlaceRecheck
  <2>2. TasksOK'
    BY <1>0, <2>1, HandlerKeeps
  <2>3. OwnOK'
    BY <1>0, <2>1 DEF WInv, OwnOK, Own, Picked, Removing, Moves
  <2>4. MapWhole'
    BY <1>0, <2>1 DEF WInv, MapWhole, Whole, Forgetting, Noting, Removing, Undoing, Unlisting, Moves
  <2>5. SweptOver'
    BY <1>0, <1>4, <2>1 DEF WInv, SweptOver, Picked, Removing, Looks, Unlisting, Moves
  <2> QED
    BY <1>2, <2>2, <2>3, <2>4, <2>5 DEF WInv, TasksOK
<1> QED
  BY <1>3, <1>4

LEMMA PlaceRollBackWhole ==
  ASSUME OneAtATime, IInv, WInv, NEW d \in Decision, PlaceRollBack(d)
  PROVE  WInv'
<1> DEFINE i == place[d].id
<1>0. /\ place[d].pc = "undo" /\ Active(d)
      /\ UNCHANGED <<instances, loaded, enf, unloading, phase, todo, cur, world, ghosts, entries>>
      /\ UNCHANGED <<revoked, revGen, bumping, answered, swept>>
  BY DEF PlaceRollBack, Active, journal, memory, restore, world, ghosts
<1>1. /\ i \in Iid
      /\ \A c \in Decision : Active(c) /\ c # d => place[c].id # i
  BY <1>0, OwnFacts
<1>2. CASE ~CanUnload(i)
  <2>1. Moves(d, "refused") /\ adapter' = adapter
    BY <1>2, HandlerMoves DEF PlaceRollBack, UnloadFails
  <2> QED
    BY <1>0, <2>1, StillKeeps
<1>3. CASE CanUnload(i)
  <2>1. Moves(d, "undoing") /\ \A j \in Iid : j # i => adapter'[j] = adapter[j]
    BY <1>3, HandlerMoves DEF PlaceRollBack, UnloadFails, OneAtATime, DropEntry, IInv, HostTypes, AdapterOK
  <2>2. TasksOK'
    BY <1>0, <2>1, HandlerKeeps
  <2>3. OwnOK'
    <3> SUFFICES ASSUME NEW c \in Decision PROVE Own(c)'
      BY DEF OwnOK
    <3>1. CASE c # d /\ place[c].pc \in {"loaded", "unbinding", "leased"}
      <4>1. Active(c) /\ Own(c)
        BY <3>1 DEF Active, WInv, OwnOK
      <4>2. place[c].id \in Iid
        BY <4>1, HandlerMoves
      <4> QED
        BY <1>0, <1>1, <2>1, <3>1, <4>1, <4>2 DEF Own, Moves, Picked, Removing
    <3> QED
      BY <2>1, <3>1 DEF Own, Moves
  <2>4. MapWhole'
    <3>1. \A j \in Iid : (Undoing(j) => Undoing(j)') /\ (Unlisting(j) => Unlisting(j)')
      BY <1>0, <2>1 DEF Undoing, Unlisting, Moves
    <3>2. \A j : j = i => Undoing(j)'
      BY <2>1 DEF Undoing, Moves
    <3>3. \A j \in Iid : /\ Forgetting(j)' <=> Forgetting(j)
                         /\ Removing(j)' <=> Removing(j)
                         /\ Noting(j)' <=> Noting(j)
      BY <1>0 DEF Forgetting, Noting, Removing
    <3> HIDE DEF i
    <3> QED
      BY <1>0, <2>1, <3>1, <3>2, <3>3 DEF WInv, MapWhole, Whole
  <2>5. AnsweredOK'
    BY <1>0 DEF WInv, AnsweredOK
  <2>6. SweptOver'
    BY <1>0, <2>1 DEF WInv, SweptOver, Picked, Removing, Looks, Unlisting, Moves
  <2> QED
    BY <2>2, <2>3, <2>4, <2>5, <2>6 DEF WInv, TasksOK
<1> QED
  BY <1>2, <1>3

LEMMA PlaceRolledBackWhole ==
  ASSUME OneAtATime, IInv, WInv, NEW d \in Decision, PlaceRolledBack(d)
  PROVE  WInv'
<1> DEFINE i == place[d].id
<1>0. /\ place[d].pc = "undoing" /\ Active(d) /\ Moves(d, "unlisting")
      /\ UNCHANGED <<instances, adapter, enf, unloading, phase, todo, cur, world, ghosts, entries>>
      /\ UNCHANGED <<revoked, revGen, bumping, answered, swept>>
  BY HandlerMoves DEF PlaceRolledBack, RemoveDir, OneAtATime, Active, journal, memory, restore,
                      world, ghosts
<1>1. /\ i \in Iid
      /\ \A c \in Decision : Active(c) /\ c # d => place[c].id # i
  BY <1>0, OwnFacts
<1>2. loaded' = loaded \ {i}
  BY DEF PlaceRolledBack, RemoveDir, OneAtATime
<1> HIDE DEF i
<1>4. TasksOK'
  BY <1>0, HandlerKeeps
<1>5. OwnOK'
  <2> SUFFICES ASSUME NEW c \in Decision PROVE Own(c)'
    BY DEF OwnOK
  <2>1. CASE c # d /\ place[c].pc \in {"loaded", "unbinding", "leased"}
    <3>1. Active(c) /\ Own(c)
      BY <2>1 DEF Active, WInv, OwnOK
    <3>2. place[c].id \in Iid
      BY <3>1, HandlerMoves
    <3> QED
      BY <1>0, <1>1, <1>2, <2>1, <3>1, <3>2 DEF Own, Moves, Picked, Removing
  <2> QED
    BY <1>0, <2>1 DEF Own, Moves
<1>6. MapWhole'
  <2>1. \A j \in Iid : (Undoing(j) => Undoing(j)') /\ (Unlisting(j) => Unlisting(j)')
    BY <1>0 DEF Undoing, Unlisting, Moves
  <2>2. \A j : j = i => Unlisting(j)'
    BY <1>0 DEF Unlisting, Moves, i
  <2> QED
    <3>1. \A j \in Iid : /\ Forgetting(j)' <=> Forgetting(j)
                         /\ Removing(j)' <=> Removing(j)
                         /\ Noting(j)' <=> Noting(j)
      BY <1>0 DEF Forgetting, Noting, Removing
    <3> QED
      BY <1>0, <1>2, <2>1, <2>2, <3>1 DEF WInv, MapWhole, Whole
<1>7. AnsweredOK'
  BY <1>0 DEF WInv, AnsweredOK
<1>8. SweptOver'
  BY <1>0 DEF WInv, SweptOver, Picked, Removing, Looks, Unlisting, Moves
<1> QED
  BY <1>4, <1>5, <1>6, <1>7, <1>8 DEF WInv, TasksOK

LEMMA PlaceUnlistWhole ==
  ASSUME IInv, WInv, NEW d \in Decision, PlaceUnlist(d)
  PROVE  WInv'
<1> DEFINE i == place[d].id
<1>0. /\ place[d].pc = "unlisting" /\ Active(d) /\ Moves(d, "refused")
      /\ UNCHANGED <<loaded, adapter, enf, unloading, phase, todo, cur, world, ghosts, entries>>
      /\ UNCHANGED <<revoked, revGen, bumping, answered, swept>>
  BY HandlerMoves DEF PlaceUnlist, Active, journal, memory, restore, world, ghosts
<1>1. /\ i \in Iid
      /\ \A c \in Decision : Active(c) /\ c # d => place[c].id # i
  BY <1>0, OwnFacts
<1>2. instances' = [instances EXCEPT ![i] = None]
  BY DEF PlaceUnlist
<1>3. \A j \in Iid : instances'[j] = IF j = i THEN None ELSE instances[j]
  BY <1>2 DEF IInv, HostTypes, MapOK
<1> HIDE DEF i
<1>4. TasksOK'
  BY <1>0, HandlerKeeps
<1>5. OwnOK'
  <2> SUFFICES ASSUME NEW c \in Decision PROVE Own(c)'
    BY DEF OwnOK
  <2>1. CASE c # d /\ place[c].pc \in {"loaded", "unbinding", "leased"}
    <3>1. Active(c) /\ Own(c)
      BY <2>1 DEF Active, WInv, OwnOK
    <3>2. place[c].id \in Iid
      BY <3>1, HandlerMoves
    <3> QED
      BY <1>0, <1>1, <1>2, <1>3, <2>1, <3>1, <3>2 DEF Own, Moves, Picked, Removing
  <2> QED
    BY <1>0, <2>1 DEF Own, Moves
<1>6. MapWhole'
  <2>1. \A j \in Iid : j # i => ((Undoing(j) => Undoing(j)') /\ (Unlisting(j) => Unlisting(j)'))
    BY <1>0 DEF Undoing, Unlisting, Moves, i
  <2> QED
    BY <1>0, <1>2, <1>3, <2>1 DEF WInv, MapWhole, Whole, Forgetting, Noting, Removing
<1>7. AnsweredOK'
  <2>1. answered \subseteq Iid
    BY DEF IInv, HostTypes, WorldOK
  <2> QED
    BY <1>0, <1>3, <2>1 DEF WInv, AnsweredOK
<1>8. SweptOver'
  <2>1. revoked \subseteq Iid
    BY DEF IInv, HostTypes, WorldOK
  <2> QED
    BY <1>0, <1>3, <2>1 DEF WInv, i, SweptOver, Picked, Removing, Looks, Unlisting, Moves
<1> QED
  BY <1>4, <1>5, <1>6, <1>7, <1>8 DEF WInv, TasksOK

LEMMA PlaceRecordWhole ==
  ASSUME IInv, WInv, NEW d \in Decision, PlaceRecord(d)
  PROVE  WInv'
<1> DEFINE i == place[d].id
<1>0. /\ place[d].pc = "recording" /\ Active(d) /\ Moves(d, "done")
      /\ UNCHANGED <<instances, loaded, adapter, enf, unloading, phase, world, swept>>
      /\ UNCHANGED <<revoked, revGen, bumping>> /\ todo' = todo
      /\ answered' = answered \/ answered' = answered \cup {i}
  BY HandlerMoves DEF PlaceRecord, Active, world, restore
<1>1. /\ i \in Iid /\ phase # "down" /\ i \notin todo
  BY <1>0, OwnFacts, Alive DEF Active, IInv, NotAhead
<1>2. /\ \A j \in Iid : entries'[j] = None => entries[j] = None
      /\ entries'[i] # None
      /\ cur' # None => cur'.placed
  <2>1. CASE cur # None
    <3> DEFINE e == [decision |-> cur.entry.decision, desired |-> RestoreStarts(cur),
                     failures |-> 0]
    <3>1. phase = "restoring" /\ cur \in Restoring /\ mayStart \in BOOLEAN
      BY <2>1, Alive DEF IInv, JournalInv, JournalTypeOK
    <3>2. cur.id = i
      BY <1>0, <3>1 DEF WInv, RestoreAlone
    <3>3. e \in Entry
      BY <3>1, HostJournalAssumption DEF Entry, Restoring, RestoreStarts
    <3>4. e # None
      BY <3>3, HostJournalAssumption
    <3>5. entries' = [entries EXCEPT ![cur.id] = e] /\ cur' = [cur EXCEPT !.placed = TRUE]
      BY <2>1 DEF PlaceRecord, RestoreRecord, record, Save
    <3> HIDE DEF e
    <3>6. cur'.placed
      BY <3>1, <3>5 DEF Restoring
    <3> QED
      BY <1>1, <3>2, <3>4, <3>5, <3>6 DEF IInv, JournalInv, JournalTypeOK, EntryMap
  <2>2. CASE cur = None
    <3> DEFINE e == [decision |-> d, desired |-> place[d].start, failures |-> 0]
    <3>1. e \in Entry
      BY HostJournalAssumption DEF Entry, IInv, HostTypes, PlaceOK, PlaceType
    <3>2. e # None
      BY <3>1, HostJournalAssumption
    <3>3. entries' = [entries EXCEPT ![i] = e] /\ cur' = None
      BY <2>2 DEF PlaceRecord, record, Save, restore
    <3> HIDE DEF e
    <3> QED
      BY <1>1, <3>2, <3>3 DEF IInv, JournalInv, JournalTypeOK, EntryMap
  <2> QED
    BY <2>1, <2>2
<1> HIDE DEF i
<1>3. TasksOK'
  BY <1>0, HandlerKeeps
<1>4. OwnOK'
  BY <1>0 DEF WInv, OwnOK, Own, Picked, Removing, Moves
<1>5. MapWhole'
  BY <1>0 DEF WInv, MapWhole, Whole, Forgetting, Noting, Removing, Undoing, Unlisting, Moves
<1>6. AnsweredOK'
  <2>1. answered \subseteq Iid
    BY DEF IInv, HostTypes, WorldOK
  <2> QED
    BY <1>0, <1>1, <1>2, <2>1 DEF WInv, AnsweredOK
<1>7. SweptOver'
  BY <1>0 DEF WInv, SweptOver, Picked, Removing, Looks, Unlisting, Moves
<1> QED
  BY <1>3, <1>4, <1>5, <1>6, <1>7 DEF WInv, TasksOK

LEMMA PlaceWhole ==
  ASSUME OneAtATime, IInv, WInv, NEW d \in Decision, Place(d)
  PROVE  WInv'
BY PlaceStillWhole, PlaceLoadWhole, PlaceUnbindWhole, PlaceLeaseWhole, PlaceListWhole,
   PlaceRecheckWhole, PlaceRollBackWhole, PlaceRolledBackWhole, PlaceUnlistWhole,
   PlaceRecordWhole DEF Place

(* A request begins, sent or restored: nobody else is at work on i.        *)
LEMMA EnteredWhole ==
  ASSUME IInv, WInv, NEW d \in Decision, NEW i \in Iid, NEW start \in BOOLEAN,
         place[d].pc = "idle", Entered(d, i, start), unloading # i,
         \A c \in Decision : Active(c) => place[c].id # i,
         phase = "restoring" =>
           /\ cur # None /\ ~cur.placed /\ d = cur.entry.decision /\ i = cur.id
           /\ \A c \in Decision : ~Active(c),
         UNCHANGED <<instances, loaded, adapter, enf, unloading, phase, todo, cur, revoked,
                     revGen, bumping, left, answered, swept, entries>>
  PROVE  WInv'
<1> USE DEF WInv
<1>1. /\ \A c \in Decision : c # d => place'[c] = place[c]
      /\ place'[d].pc = "fetching" /\ place'[d].id = i /\ place'[d].gen = revGen
  BY DEF Entered, IInv, HostTypes, PlaceOK
<1>2. NoLift' /\ EnfRevoked' /\ EnfOwned'
  BY <1>1 DEF NoLift, EnfRevoked, EnfOwned
<1>3. Alone'
  BY <1>1 DEF Alone, Active
<1>4. RestoreAlone'
  BY <1>1 DEF RestoreAlone, Active
<1>5. Dated' /\ Late'
  <2>1. revGen \in Nat
    BY DEF IInv, HostTypes, WorldOK
  <2> QED
    BY <1>1, <2>1 DEF Dated, Late
<1>6. OwnOK'
  BY <1>1 DEF OwnOK, Own, Picked, Removing
<1>7. MapWhole'
  BY <1>1 DEF MapWhole, Whole, Forgetting, Noting, Removing, Undoing, Unlisting
<1>8. AnsweredOK'
  BY DEF AnsweredOK
<1>9. SweptOver'
  BY <1>1 DEF SweptOver, Picked, Removing, Looks, Unlisting
<1> QED
  BY <1>2, <1>3, <1>4, <1>5, <1>6, <1>7, <1>8, <1>9

LEMMA PlaceEnterWhole ==
  ASSUME OneAtATime, IInv, WInv, NEW d \in Decision, NEW i \in Iid, NEW start \in BOOLEAN,
         PlaceEnter(d, i, start)
  PROVE  WInv'
<1>1. /\ phase = "serving" /\ place[d].pc = "idle" /\ Entered(d, i, start) /\ ~Busy(i)
      /\ UNCHANGED <<instances, loaded, adapter, enf, unloading, revoked, revGen, bumping, left,
                     ghosts, journal>>
  BY DEF PlaceEnter, Allowed, OneAtATime, IInv, SentHandled
<1>2. UNCHANGED <<phase, todo, cur, answered, swept, entries>>
  BY <1>1 DEF ghosts, journal, memory, restore
<1> QED
  BY <1>1, <1>2, EnteredWhole DEF Busy

LEMMA RestorePlaceWhole == ASSUME IInv, WInv, RestorePlace PROVE WInv'
<1>1. cur \in Restoring /\ phase = "restoring" /\ ~cur.placed /\ mayStart \in BOOLEAN
  BY Alive DEF RestorePlace, IInv, JournalInv, JournalTypeOK
<1>2. PICK d \in Decision, i \in Iid, start \in BOOLEAN :
        d = cur.entry.decision /\ i = cur.id /\ start = RestoreStarts(cur)
  BY <1>1 DEF Restoring, Entry, RestoreStarts
<1>3. place[d].pc = "idle" /\ Entered(d, i, start)
  BY <1>2 DEF RestorePlace
<1>4. unloading = None /\ \A c \in Decision : ~Active(c)
  BY <1>1, <1>2, <1>3 DEF WInv, RestoreAlone, Active
<1>5. i # None
  BY HostJournalAssumption
<1>6. UNCHANGED <<instances, loaded, adapter, enf, unloading, phase, todo, cur, revoked,
                  revGen, bumping, left, answered, swept, entries>>
  BY DEF RestorePlace, world, ghosts, journal, memory, restore
<1>7. cur # None
  BY DEF RestorePlace
<1> QED
  BY <1>1, <1>2, <1>3, <1>4, <1>5, <1>6, <1>7, EnteredWhole

-----------------------------------------------------------------------------
(* UNLOAD.                                                                 *)

LEMMA UnloadBeginWhole ==
  ASSUME OneAtATime, IInv, WInv, NEW i \in Iid, UnloadBegin(i)
  PROVE  WInv'
<1>1. /\ phase = "serving" /\ unloading = None /\ ~Busy(i) /\ Spend("verb")
      /\ UNCHANGED <<revoked, revGen, bumping>>
  BY DEF UnloadBegin, Requested, Allowed, OneAtATime, LockFree
<1>2. UNCHANGED <<instances, loaded, place, enf, phase, todo, cur, answered, swept, entries>>
  BY DEF UnloadBegin, ghosts, journal, memory, restore
<1>3. left'["unrevoke"] = left["unrevoke"] /\ left'["revoke"] = left["revoke"]
  BY <1>1 DEF Spend, Event, IInv, HostTypes, WorldOK
<1>4. CASE ~CanUnload(i)
  BY <1>1, <1>2, <1>3, <1>4, CalmKeeps DEF Calm, Held, UnloadBegin, UnloadFails, TokenOff
<1>5. CASE CanUnload(i)
  <2> USE DEF WInv
  <2>1. unloading' = i /\ \A j \in Iid : j # i => adapter'[j] = adapter[j]
    BY <1>5 DEF UnloadBegin, UnloadFails, OneAtATime, DropEntry, IInv, HostTypes, AdapterOK
  <2>2. NoLift' /\ EnfRevoked' /\ EnfOwned' /\ Dated' /\ Late'
    BY <1>1, <1>2, <1>3 DEF NoLift, EnfRevoked, EnfOwned, Dated, Late
  <2>3. Alone' /\ RestoreAlone'
    BY <1>1, <1>2, <2>1 DEF Alone, RestoreAlone, Active, Busy
  <2>4. OwnOK'
    <3> SUFFICES ASSUME NEW c \in Decision PROVE Own(c)'
      BY DEF OwnOK
    <3>1. CASE place[c].pc \in {"loaded", "unbinding", "leased"}
      <4>1. Active(c) /\ Own(c)
        BY <3>1 DEF Active, OwnOK
      <4>2. place[c].id \in Iid /\ place[c].id # i
        BY <1>1, <4>1, HandlerMoves DEF Busy
      <4> QED
        BY <1>2, <2>1, <4>1, <4>2 DEF Own, Picked, Removing
    <3> QED
      BY <1>2, <3>1 DEF Own
  <2>5. MapWhole'
    BY <1>1, <1>2, <2>1, HostJournalAssumption DEF MapWhole, Whole, Forgetting, Noting, Removing, Undoing, Unlisting
  <2>6. AnsweredOK'
    BY <1>2 DEF AnsweredOK
  <2>7. SweptOver'
    BY <1>1, <1>2 DEF SweptOver, Picked, Removing, Looks, Unlisting
  <2> QED
    BY <2>2, <2>3, <2>4, <2>5, <2>6, <2>7
<1> QED
  BY <1>4, <1>5

LEMMA DepartedEntry ==
  ASSUME IInv, NEW i \in Iid, NoteDeparted(i)
  PROVE  \A j \in Iid : j # i => entries'[j] = entries[j]
BY DEF NoteDeparted, remove, Save, NoSave, IInv, JournalInv, JournalTypeOK, EntryMap

LEMMA UnloadEndWhole == ASSUME OneAtATime, IInv, WInv, UnloadEnd PROVE WInv'
<1>0. PICK i \in Iid : i = unloading
  BY DEF UnloadEnd, IInv, HostTypes, UnloadingOK
<1>1. /\ unloading' = None /\ loaded' = loaded \ {i} /\ NoteDeparted(i)
      /\ instances' = [instances EXCEPT ![i] = None]
      /\ UNCHANGED Untouched
      /\ UNCHANGED <<adapter, place, enf, world, ghosts>>
  BY <1>0 DEF UnloadEnd, RemoveDir, OneAtATime
<1>2. UNCHANGED <<phase, todo, cur, revoked, revGen, bumping, left, answered, swept>>
  BY <1>1 DEF world, ghosts, Untouched, restore
<1>3. /\ \A j \in Iid : instances'[j] = IF j = i THEN None ELSE instances[j]
      /\ \A j \in Iid : j # i => entries'[j] = entries[j]
      /\ revoked \subseteq Iid /\ answered \subseteq Iid
  BY <1>1, DepartedEntry DEF IInv, HostTypes, MapOK, WorldOK
<1> USE DEF WInv
<1>4. NoLift' /\ EnfRevoked' /\ EnfOwned' /\ Dated' /\ Late'
  BY <1>1, <1>2 DEF NoLift, EnfRevoked, EnfOwned, Dated, Late
<1>5. Alone' /\ RestoreAlone'
  <2>1. \A d \in Decision : Active(d) => place[d].id # None
    BY HandlerMoves, HostJournalAssumption
  <2> QED
    BY <1>1, <1>2, <2>1 DEF Alone, RestoreAlone, Active
<1>6. OwnOK'
  <2> SUFFICES ASSUME NEW c \in Decision PROVE Own(c)'
    BY DEF OwnOK
  <2>1. CASE place[c].pc \in {"loaded", "unbinding", "leased"}
    <3>1. Active(c) /\ Own(c)
      BY <2>1 DEF Active, OwnOK
    <3>2. place[c].id \in Iid /\ place[c].id # i
      BY <1>0, <3>1, OwnFacts
    <3> QED
      BY <1>1, <1>3, <3>1, <3>2 DEF Own, Picked, Removing
  <2> QED
    BY <1>1, <2>1 DEF Own
<1>7. MapWhole'
  BY <1>0, <1>1, <1>3 DEF MapWhole, Whole, Forgetting, Noting, Removing, Undoing, Unlisting
<1>8. AnsweredOK'
  BY <1>2, <1>3 DEF AnsweredOK
<1>9. SweptOver'
  BY <1>1, <1>2, <1>3 DEF SweptOver, Picked, Removing, Looks, Unlisting
<1> QED
  BY <1>4, <1>5, <1>6, <1>7, <1>8, <1>9

-----------------------------------------------------------------------------
(* enforce_revocations.                                                    *)

LEMMA SweepBeginWhole == ASSUME IInv, WInv, SweepBegin PROVE WInv'
<1>0. /\ enf["sweep"].pc = "idle" /\ EnforcePick("sweep") /\ swept' = revGen
      /\ "sweep" \in Enforcer /\ "sweep" \notin Decision
      /\ UNCHANGED <<instances, loaded, adapter, place, unloading, phase, todo, cur, entries>>
      /\ UNCHANGED <<revoked, revGen, bumping, left, answered>>
  BY WorkloadHostAssumption DEF SweepBegin, EnfStep, Enforcer, world, journal, memory, restore
<1>1. /\ \A j : Removing(j)' <=> Removing(j)
      /\ \A j : Forgetting(j)' <=> Forgetting(j)
      /\ \A j : Noting(j)' <=> Noting(j)
      /\ \A j : Picked(j)' <=> Picked(j) \/ j \in Targets
      /\ EnfRevoked'
      /\ \A f \in Enforcer : enf'[f].pc = "idle" => enf'[f].todo = {}
      /\ \A f \in Enforcer : f # "sweep" => enf'[f] = enf[f]
  BY <1>0, PickFacts
<1> USE DEF WInv
<1>2. EnfOwned'
  BY <1>0, <1>1 DEF EnfOwned, Enforcer
<1>3. NoLift' /\ Dated' /\ Late'
  BY <1>0 DEF NoLift, Dated, Late, IInv, HostTypes, WorldOK
<1>4. Alone' /\ RestoreAlone'
  BY <1>0 DEF Alone, RestoreAlone, Active
<1>5. OwnOK'
  <2> SUFFICES ASSUME NEW c \in Decision PROVE Own(c)'
    BY DEF OwnOK
  <2>1. Own(c) /\ (instances[place[c].id] = None => place[c].id \notin Targets)
    BY DEF OwnOK, Targets
  <2> QED
    BY <1>0, <1>1, <2>1 DEF Own
<1>6. MapWhole'
  <2>1. \A j : (Undoing(j)' <=> Undoing(j)) /\ (Unlisting(j)' <=> Unlisting(j))
    BY <1>0 DEF Undoing, Unlisting
  <2> QED
    BY <1>0, <1>1, <2>1 DEF MapWhole, Whole
<1>7. AnsweredOK'
  BY <1>0 DEF AnsweredOK
<1>8. SweptOver'
  <2>1. \A j : Unlisting(j)' <=> Unlisting(j)
    BY <1>0 DEF Unlisting
  <2> QED
    BY <1>0, <1>1, <2>1, PickTakesAll DEF SweptOver
<1> QED
  BY <1>1, <1>2, <1>3, <1>4, <1>5, <1>6, <1>7, <1>8

(* What the step of one enforcement leaves to the others.                  *)
LEMMA EnforcerKeeps ==
  ASSUME IInv, WInv, NEW e \in Enforcer, enf[e].pc # "idle",
         \A f \in Enforcer : f # e => enf'[f] = enf[f],
         enf'[e].todo \subseteq enf[e].todo,
         enf'[e].pc \in {"removing", "forget", "noting"} => enf'[e].id \in revoked,
         enf'[e].pc = "idle" => enf'[e].todo = {},
         UNCHANGED <<place, unloading, phase, cur, world, swept>>
  PROVE  TasksOK'
<1> USE DEF WInv
<1>1. UNCHANGED <<revoked, revGen, bumping, left>>
  BY DEF world
<1>2. NoLift' /\ EnfRevoked'
  BY <1>1 DEF NoLift, EnfRevoked
<1>3. EnfOwned'
  BY DEF EnfOwned, Enforcer
<1>4. Alone' /\ RestoreAlone' /\ Dated' /\ Late'
  BY <1>1 DEF Alone, RestoreAlone, Active, Dated, Late
<1> QED
  BY <1>2, <1>3, <1>4 DEF TasksOK

LEMMA TeardownWhole ==
  ASSUME IInv, WInv, NEW e \in Enforcer, NEW i \in Iid, Teardown(e, i)
  PROVE  WInv'
<1>0. /\ enf[e].pc = "teardown" /\ i \in enf[e].todo
      /\ UNCHANGED <<instances, loaded, place, unloading, phase, todo, cur, entries, world, swept>>
      /\ UNCHANGED <<revoked, revGen, bumping, left, answered>>
  BY DEF Teardown, EnfStep, world, journal, memory, restore
<1>1. /\ \A f \in Enforcer : f # e => enf'[f] = enf[f]
      /\ enf'[e].todo = enf[e].todo \ {i} /\ enf'[e].id = i
      /\ enf'[e].pc = IF CanUnload(i) THEN "removing" ELSE "forget"
  BY DEF Teardown, IInv, HostTypes, EnfOK
<1>2. i \in revoked /\ Picked(i)
  BY <1>0 DEF WInv, EnfRevoked, Picked
<1>3. /\ \A j \in Iid : j # i => adapter'[j] = adapter[j]
      /\ CanUnload(i) => i \in loaded
  BY DEF Teardown, DropEntry, CanUnload, IInv, HostTypes, AdapterOK
<1>4. /\ \A j : Removing(j)' <=> Removing(j) \/ j = i
      /\ \A j : Forgetting(j)' <=> Forgetting(j) \/ (j = i /\ ~CanUnload(i))
      /\ \A j : Noting(j)' <=> Noting(j)
      /\ \A j : Picked(j)' <=> Picked(j)
  <2>1. \A j : Removing(j)' <=> Removing(j) \/ j = i
    BY <1>0, <1>1 DEF Removing
  <2>2. \A j : Forgetting(j)' <=> Forgetting(j) \/ (j = i /\ ~CanUnload(i))
    BY <1>0, <1>1 DEF Forgetting
  <2>4. \A j : Noting(j)' <=> Noting(j)
    BY <1>0, <1>1 DEF Noting
  <2>3. \A j : j # i => ((\E f \in Enforcer : j \in enf'[f].todo)
                          <=> \E f \in Enforcer : j \in enf[f].todo)
    BY <1>1
  <2> QED
    BY <1>2, <2>1, <2>2, <2>3, <2>4 DEF Picked
<1>5. TasksOK'
  BY <1>0, <1>1, <1>2, EnforcerKeeps
<1> USE DEF WInv
<1>6. OwnOK'
  <2> SUFFICES ASSUME NEW c \in Decision PROVE Own(c)'
    BY DEF OwnOK
  <2>1. CASE place[c].pc \in {"loaded", "unbinding", "leased"}
    <3>1. Active(c) /\ Own(c)
      BY <2>1 DEF Active, OwnOK
    <3>2. place[c].id \in Iid /\ place[c].id # i
      BY <1>2, <2>1, <3>1, HandlerMoves DEF Own
    <3> QED
      BY <1>0, <1>3, <1>4, <3>1, <3>2 DEF Own
  <2> QED
    BY <1>0, <2>1 DEF Own
<1>7. MapWhole'
  <2>1. \A j : (Undoing(j)' <=> Undoing(j)) /\ (Unlisting(j)' <=> Unlisting(j))
    BY <1>0 DEF Undoing, Unlisting
  <2> QED
    BY <1>0, <1>3, <1>4, <2>1 DEF MapWhole, Whole
<1>8. AnsweredOK'
  BY <1>0 DEF AnsweredOK
<1>9. SweptOver'
  BY <1>0, <1>4 DEF SweptOver, Looks, Unlisting
<1> QED
  BY <1>5, <1>6, <1>7, <1>8, <1>9 DEF TasksOK

LEMMA TeardownEndWhole ==
  ASSUME OneAtATime, IInv, WInv, NEW e \in Enforcer, TeardownEnd(e)
  PROVE  WInv'
<1>0. /\ enf[e].pc = "removing"
      /\ UNCHANGED <<instances, adapter, place, unloading, phase, todo, cur, entries, world, swept>>
      /\ UNCHANGED <<revoked, revGen, bumping, left, answered>>
  BY DEF TeardownEnd, EnfStep, world, journal, memory, restore
<1>1. PICK i \in Iid : i = enf[e].id
  BY <1>0 DEF IInv, HostTypes, EnfOK
<1>2. /\ loaded' = loaded \ {i}
      /\ \A f \in Enforcer : f # e => enf'[f] = enf[f]
      /\ enf'[e].todo = enf[e].todo /\ enf'[e].id = i /\ enf'[e].pc = "forget"
  <2>1. loaded' = loaded \ {i} /\ enf' = [enf EXCEPT ![e].pc = "forget"]
    BY <1>1 DEF TeardownEnd, RemoveDir, OneAtATime, EnfGo
  <2> QED
    BY <1>1, <2>1 DEF IInv, HostTypes, EnfOK, EnfType
<1>3. i \in revoked /\ Picked(i)
  BY <1>0, <1>1 DEF WInv, EnfRevoked, Picked, Removing
<1>4. /\ \A j : Removing(j)' <=> Removing(j)
      /\ \A j : Forgetting(j)' <=> Forgetting(j) \/ j = i
      /\ \A j : Noting(j)' <=> Noting(j)
      /\ \A j : Picked(j)' <=> Picked(j)
  <2>1. \A j : Removing(j)' <=> Removing(j)
    BY <1>0, <1>1, <1>2 DEF Removing
  <2>2. \A j : Forgetting(j)' <=> Forgetting(j) \/ j = i
    BY <1>0, <1>2 DEF Forgetting
  <2>4. \A j : Noting(j)' <=> Noting(j)
    BY <1>0, <1>2 DEF Noting
  <2>3. \A j : (\E f \in Enforcer : j \in enf'[f].todo) <=> \E f \in Enforcer : j \in enf[f].todo
    BY <1>2
  <2> QED
    BY <2>1, <2>2, <2>3, <2>4 DEF Picked
<1>5. TasksOK'
  BY <1>0, <1>2, <1>3, EnforcerKeeps
<1> USE DEF WInv
<1>6. OwnOK'
  <2> SUFFICES ASSUME NEW c \in Decision PROVE Own(c)'
    BY DEF OwnOK
  <2>1. Own(c) /\ place'[c] = place[c]
    BY <1>0 DEF OwnOK
  <2> QED
    BY <1>0, <1>2, <1>3, <1>4, <2>1 DEF Own
<1>7. MapWhole'
  <2>1. \A j : (Undoing(j)' <=> Undoing(j)) /\ (Unlisting(j)' <=> Unlisting(j))
    BY <1>0 DEF Undoing, Unlisting
  <2> QED
    BY <1>0, <1>2, <1>4, <2>1 DEF MapWhole, Whole
<1>8. AnsweredOK'
  BY <1>0 DEF AnsweredOK
<1>9. SweptOver'
  BY <1>0, <1>4 DEF SweptOver, Looks, Unlisting
<1> QED
  BY <1>5, <1>6, <1>7, <1>8, <1>9 DEF TasksOK

LEMMA ForgetWhole ==
  ASSUME IInv, WInv, NEW e \in Enforcer, Forget(e)
  PROVE  WInv'
<1>0. /\ enf[e].pc = "forget"
      /\ UNCHANGED <<loaded, adapter, place, unloading, phase, todo, cur, world, swept, entries>>
      /\ UNCHANGED <<revoked, revGen, bumping, left, answered>>
  BY DEF Forget, EnfStep, world, journal, memory, restore
<1>1. PICK i \in Iid : i = enf[e].id
  BY <1>0 DEF IInv, HostTypes, EnfOK
<1>2. /\ \A f \in Enforcer : f # e => enf'[f] = enf[f]
      /\ enf'[e].todo = enf[e].todo /\ enf'[e].id = i /\ enf'[e].pc = "noting"
  BY <1>1 DEF Forget, EnfGo, IInv, HostTypes, EnfOK, EnfType
<1>3. /\ \A j \in Iid : instances'[j] = IF j = i THEN None ELSE instances[j]
      /\ revoked \subseteq Iid /\ answered \subseteq Iid
  BY <1>1 DEF Forget, IInv, HostTypes, MapOK, WorldOK
<1>4. /\ \A j : Removing(j)' <=> Removing(j)
      /\ \A j : j # i => (Forgetting(j)' <=> Forgetting(j))
      /\ \A j : j # i => (Noting(j)' <=> Noting(j))
      /\ \A j : Picked(j)' <=> Picked(j)
  <2>1. \A j : Removing(j)' <=> Removing(j)
    BY <1>0, <1>1, <1>2 DEF Removing
  <2>2. \A j : j # i => (Forgetting(j)' <=> Forgetting(j))
    BY <1>0, <1>1, <1>2 DEF Forgetting
  <2>3. \A j : j # i => (Noting(j)' <=> Noting(j))
    BY <1>0, <1>1, <1>2 DEF Noting
  <2>4. \A j : (\E f \in Enforcer : j \in enf'[f].todo) <=> \E f \in Enforcer : j \in enf[f].todo
    BY <1>2
  <2> QED
    BY <2>1, <2>2, <2>3, <2>4 DEF Picked
<1>5. TasksOK'
  <2>1. enf[e].id \in revoked
    BY <1>0 DEF WInv, EnfRevoked
  <2> QED
    BY <1>0, <1>1, <1>2, <2>1, EnforcerKeeps
<1> USE DEF WInv
<1>6. OwnOK'
  <2> SUFFICES ASSUME NEW c \in Decision PROVE Own(c)'
    BY DEF OwnOK
  <2>1. Own(c) /\ place'[c] = place[c] /\ (place[c].pc # "idle" => place[c].id \in Iid)
    BY <1>0 DEF OwnOK, IInv, HostTypes, PlaceOK
  <2> QED
    BY <1>0, <1>3, <1>4, <2>1 DEF Own
<1>7. MapWhole'
  <2>1. \A j : (Undoing(j)' <=> Undoing(j)) /\ (Unlisting(j)' <=> Unlisting(j))
    BY <1>0 DEF Undoing, Unlisting
  <2> QED
    BY <1>0, <1>3, <1>4, <2>1 DEF MapWhole, Whole
<1>8. AnsweredOK'
  BY <1>0, <1>3 DEF AnsweredOK
<1>9. SweptOver'
  BY <1>0, <1>3, <1>4 DEF SweptOver, Looks, Unlisting
<1> QED
  BY <1>5, <1>6, <1>7, <1>8, <1>9 DEF TasksOK

(* What is noted as departed is listed no more.                            *)
LEMMA NoteForgottenWhole ==
  ASSUME IInv, WInv, NEW e \in Enforcer, NoteForgotten(e)
  PROVE  WInv'
<1>0. /\ enf[e].pc = "noting"
      /\ UNCHANGED <<instances, loaded, adapter, place, unloading, phase, todo, cur, world, swept>>
      /\ UNCHANGED <<revoked, revGen, bumping, left, answered>>
  BY DEF NoteForgotten, EnfStep, world, Untouched, restore
<1>1. PICK i \in Iid : i = enf[e].id
  BY <1>0 DEF IInv, HostTypes, EnfOK
<1>2. /\ \A f \in Enforcer : f # e => enf'[f] = enf[f]
      /\ enf'[e].todo = enf[e].todo /\ enf'[e].id = i /\ enf'[e].pc = "teardown"
  BY <1>1 DEF NoteForgotten, EnfGo, IInv, HostTypes, EnfOK, EnfType
<1>3. /\ instances[i] = None
      /\ \A j \in Iid : j # i => entries'[j] = entries[j]
      /\ revoked \subseteq Iid /\ answered \subseteq Iid
  <2>1. Noting(i)
    BY <1>0, <1>1 DEF Noting
  <2> QED
    BY <1>1, <2>1, DepartedEntry DEF NoteForgotten, WInv, MapWhole, Whole, IInv, HostTypes, WorldOK
<1>4. /\ \A j : j # i => (Removing(j)' <=> Removing(j))
      /\ \A j : Forgetting(j)' <=> Forgetting(j)
      /\ \A j : Noting(j)' => Noting(j)
      /\ \A j : j # i => (Picked(j)' <=> Picked(j))
      /\ Picked(i)
  <2>1. \A j : j # i => (Removing(j)' <=> Removing(j))
    BY <1>0, <1>1, <1>2 DEF Removing
  <2>2. \A j : Forgetting(j)' <=> Forgetting(j)
    BY <1>0, <1>1, <1>2 DEF Forgetting
  <2>3. \A j : Noting(j)' => Noting(j)
    BY <1>0, <1>1, <1>2 DEF Noting
  <2>4. \A j : (\E f \in Enforcer : j \in enf'[f].todo) <=> \E f \in Enforcer : j \in enf[f].todo
    BY <1>2
  <2>5. Picked(i)
    BY <1>0, <1>1 DEF Picked, Removing
  <2> QED
    BY <2>1, <2>2, <2>3, <2>4, <2>5 DEF Picked
<1>5. TasksOK'
  BY <1>0, <1>2, EnforcerKeeps
<1> USE DEF WInv
<1>6. OwnOK'
  <2> SUFFICES ASSUME NEW c \in Decision PROVE Own(c)'
    BY DEF OwnOK
  <2>1. Own(c) /\ place'[c] = place[c]
    BY <1>0 DEF OwnOK
  <2> QED
    BY <1>0, <1>4, <2>1 DEF Own
<1>7. MapWhole'
  <2>1. \A j : (Undoing(j)' <=> Undoing(j)) /\ (Unlisting(j)' <=> Unlisting(j))
    BY <1>0 DEF Undoing, Unlisting
  <2> QED
    BY <1>0, <1>3, <1>4, <2>1 DEF MapWhole, Whole
<1>8. AnsweredOK'
  BY <1>0, <1>3 DEF AnsweredOK
<1>9. SweptOver'
  BY <1>0, <1>3, <1>4 DEF SweptOver, Looks, Unlisting
<1> QED
  BY <1>5, <1>6, <1>7, <1>8, <1>9 DEF TasksOK

LEMMA EnforceEndWhole ==
  ASSUME IInv, WInv, NEW e \in Enforcer, EnforceEnd(e)
  PROVE  WInv'
<1>0. /\ enf[e].pc = "teardown" /\ enf[e].todo = {}
      /\ UNCHANGED <<instances, loaded, adapter, place, unloading, phase, todo, cur, entries, world,
                     swept>>
      /\ UNCHANGED <<revoked, revGen, bumping, left, answered>>
  BY DEF EnforceEnd, EnfStep, world, journal, memory, restore
<1>1. /\ \A f \in Enforcer : f # e => enf'[f] = enf[f]
      /\ enf'[e].todo = {} /\ enf'[e].pc = "idle"
  BY DEF EnforceEnd, EnfIdle, IInv, HostTypes, EnfOK
<1>2. /\ \A j : Removing(j)' <=> Removing(j)
      /\ \A j : Forgetting(j)' <=> Forgetting(j)
      /\ \A j : Noting(j)' <=> Noting(j)
      /\ \A j : Picked(j)' <=> Picked(j)
  <2>1. \A j : Removing(j)' <=> Removing(j)
    BY <1>0, <1>1 DEF Removing
  <2>2. \A j : Forgetting(j)' <=> Forgetting(j)
    BY <1>0, <1>1 DEF Forgetting
  <2>4. \A j : Noting(j)' <=> Noting(j)
    BY <1>0, <1>1 DEF Noting
  <2>3. \A j : (\E f \in Enforcer : j \in enf'[f].todo) <=> \E f \in Enforcer : j \in enf[f].todo
    BY <1>0, <1>1
  <2> QED
    BY <2>1, <2>2, <2>3, <2>4 DEF Picked
<1>3. TasksOK'
  BY <1>0, <1>1, EnforcerKeeps
<1> USE DEF WInv
<1>4. OwnOK'
  BY <1>0, <1>2 DEF OwnOK, Own
<1>5. MapWhole'
  <2>1. \A j : (Undoing(j)' <=> Undoing(j)) /\ (Unlisting(j)' <=> Unlisting(j))
    BY <1>0 DEF Undoing, Unlisting
  <2> QED
    BY <1>0, <1>2, <2>1 DEF MapWhole, Whole
<1>6. AnsweredOK'
  BY <1>0 DEF AnsweredOK
<1>7. SweptOver'
  BY <1>0, <1>2 DEF SweptOver, Looks, Unlisting
<1> QED
  BY <1>3, <1>4, <1>5, <1>6, <1>7 DEF TasksOK

LEMMA EnforceWhole ==
  ASSUME OneAtATime, IInv, WInv, NEW e \in Enforcer, Enforce(e)
  PROVE  WInv'
BY TeardownWhole, TeardownEndWhole, ForgetWhole, NoteForgottenWhole, EnforceEndWhole DEF Enforce

-----------------------------------------------------------------------------
(* The revocation list: revocations are added, and then its generation.    *)

LEMMA ListChangeWhole ==
  ASSUME IInv, WInv, (\E i \in Iid : ListChange(i)) \/ ListBump
  PROVE  WInv'
<1> USE DEF WInv
<1>0. /\ UNCHANGED <<instances, loaded, adapter, place, unloading, enf, phase, todo, cur, answered,
                     swept, entries>>
  BY DEF ListChange, ListBump, host, tasks, ghosts, journal, memory, restore
<1>1. left'["unrevoke"] = 0 /\ revoked \subseteq revoked'
  BY DEF ListChange, ListBump, Spend, Event, IInv, HostTypes, WorldOK, NoLift
<1>2. NoLift' /\ EnfRevoked' /\ EnfOwned'
  BY <1>0, <1>1 DEF NoLift, EnfRevoked, EnfOwned
<1>3. Alone' /\ RestoreAlone'
  BY <1>0 DEF Alone, RestoreAlone, Active
<1>4. OwnOK' /\ AnsweredOK'
  BY <1>0 DEF OwnOK, Own, Picked, Removing, AnsweredOK
<1>5. MapWhole'
  BY <1>0 DEF MapWhole, Whole, Forgetting, Noting, Removing, Undoing, Unlisting
<1>6. /\ revGen \in Nat /\ swept \in Nat \cup {None} /\ None \notin Nat
      /\ \A d \in Decision : place[d].gen \in Nat
  BY HostJournalAssumption DEF IInv, HostTypes, WorldOK, PlaceOK, PlaceType
<1>7. CASE \E i \in Iid : ListChange(i)
  <2>1. bumping' = TRUE /\ revGen' = revGen
    BY <1>7 DEF ListChange
  <2>2. Dated' /\ Late' /\ SweptOver'
    BY <1>0, <2>1 DEF Dated, Late, SweptOver
  <2> QED
    BY <1>2, <1>3, <1>4, <1>5, <2>2
<1>8. CASE ListBump
  <2>1. revGen' = revGen + 1 /\ revoked' = revoked
    BY <1>8 DEF ListBump
  <2>2. Dated' /\ Late'
    BY <1>0, <1>6, <2>1 DEF Dated, Late
  <2>3. swept # revGen'
    BY <1>6, <2>1 DEF Dated
  <2> QED
    BY <1>0, <1>2, <1>3, <1>4, <1>5, <2>2, <2>3 DEF SweptOver
<1> QED
  BY <1>7, <1>8

-----------------------------------------------------------------------------
(* The daemon starts and stops.                                            *)

(* While the restore has nothing in flight nothing else is at work.        *)
LEMMA RestoreWhole ==
  ASSUME IInv, WInv, HostBoots
  PROVE  WInv'
<1> USE DEF WInv
<1>1. CASE RestorePlace
  BY <1>1, RestorePlaceWhole
<1>2. CASE Quiet
  <2>0. UNCHANGED <<instances, loaded, adapter, place, unloading, enf, answered, swept, revoked, revGen,
                    bumping, left>>
    BY <1>2 DEF Quiet, host, tasks, world, ghosts
  <2>1. NoLift' /\ EnfRevoked' /\ EnfOwned' /\ Alone' /\ Dated' /\ Late'
    BY <2>0 DEF NoLift, EnfRevoked, EnfOwned, Alone, Active, Dated, Late
  <2>2. OwnOK'
    BY <2>0 DEF OwnOK, Own, Picked, Removing
  <2>3. MapWhole'
    BY <2>0 DEF MapWhole, Whole, Forgetting, Noting, Removing, Undoing, Unlisting
  <2>4. SweptOver'
    BY <2>0 DEF SweptOver, Picked, Removing, Looks, Unlisting
  <2>5. RestoreAlone'
    <3>1. CASE Boot
      BY <2>0, <3>1 DEF Boot, IInv, AtRest, RestoreAlone, Active, PlaceIdle
    <3>2. CASE phase = "restoring" /\ (cur = None \/ ~(\E d \in Decision : Active(d)))
      BY <2>0, <3>2 DEF RestoreAlone, Active
    <3>3. CASE cur # None /\ cur.placed
      BY <2>0, <3>3, <3>2, Alive DEF RestoreAlone
    <3>4. CASE cur # None /\ ~cur.placed /\ place[cur.entry.decision].pc \in {"idle", "refused"}
      BY <2>0, <3>4, <3>2, Alive DEF RestoreAlone, Active
    <3> QED
      BY <1>2, <3>1, <3>2, <3>3, <3>4, <1>1 DEF HostBoots, RestoreDone, RestoreTake
  <2>6. AnsweredOK'
    <3>0. answered \subseteq Iid /\ entries \in [Iid -> Entry \cup {None}]
      BY DEF IInv, HostTypes, WorldOK, JournalInv, JournalTypeOK, EntryMap
    <3>1. CASE Boot
      BY <2>0, <3>1 DEF Boot, AnsweredOK
    <3>2. CASE RestoreDone
      BY <2>0, <3>2 DEF RestoreDone, AnsweredOK, memory, restore
    <3>3. CASE \E i \in Iid : RestoreTake(i)
      BY <2>0, <3>3 DEF RestoreTake, AnsweredOK, memory
    <3>4. CASE cur # None /\ cur.placed /\ RestoreKeep /\ UNCHANGED <<phase, todo>>
      <4>1. \A j \in Iid : entries'[j] = None => entries[j] = None
        BY <3>4, CallsKeepEntries DEF RestoreKeep, NoSave, IInv, JournalInv, JournalTypeOK, Restoring
      <4> QED
        BY <2>0, <3>0, <3>4, <4>1 DEF AnsweredOK, RestoreKeep
    <3>5. CASE cur # None /\ ~cur.placed /\ (RestoreDrop \/ RestoreRetry) /\ UNCHANGED <<phase, todo>>
      <4>1. \A j \in Iid : j # cur.id => entries'[j] = entries[j]
        BY <3>0, <3>5 DEF RestoreDrop, RestoreRetry, remove, set_failures, Save, NoSave
      <4> QED
        BY <2>0, <3>0, <3>5, <4>1 DEF AnsweredOK, RestoreDrop, RestoreRetry
    <3> QED
      BY <1>2, <3>1, <3>2, <3>3, <3>4, <3>5, <1>1 DEF HostBoots
  <2> QED
    BY <2>1, <2>2, <2>3, <2>4, <2>5, <2>6
<1> QED
  BY <1>1, <1>2 DEF HostBoots

(* Where nothing is listed, loaded or at work the invariant holds.         *)
LEMMA EmptyWhole ==
  Empty /\ left \in [Event -> Nat] /\ left["unrevoke"] = 0 /\ todo = {} /\ cur = None => WInv
<1> SUFFICES ASSUME Empty, left["unrevoke"] = 0, todo = {}, cur = None PROVE WInv
  OBVIOUS
<1>1. /\ \A d \in Decision : place[d].pc = "idle" /\ place[d].gen = 0
      /\ \A e \in Enforcer : enf[e].pc = "idle" /\ enf[e].todo = {}
      /\ \A i \in Iid : instances[i] = None
      /\ answered = {} /\ swept = None /\ revGen = 0 /\ unloading = None
  BY DEF Empty, PlaceIdle, EnfIdle
<1>2. NoLift /\ EnfRevoked /\ EnfOwned /\ Alone /\ RestoreAlone
  BY <1>1 DEF NoLift, EnfRevoked, EnfOwned, Alone, RestoreAlone, Active, Enforcer
<1>3. Dated /\ Late
  BY <1>1 DEF Dated, Late
<1>4. OwnOK /\ MapWhole /\ AnsweredOK
  BY <1>1 DEF OwnOK, Own, MapWhole, Whole, AnsweredOK
<1>5. SweptOver
  BY <1>1, HostJournalAssumption DEF SweptOver
<1> QED
  BY <1>2, <1>3, <1>4, <1>5 DEF WInv

LEMMA StopsWhole == ASSUME IInv, WInv, HostStops PROVE WInv'
<1>1. Empty' /\ UNCHANGED left
  BY DEF HostStops, HostGone, Empty
<1>2. todo' = {} /\ cur' = None
  BY DEF HostStops, Crash, CleanShutdown, DaemonGone
<1>3. left' \in [Event -> Nat] /\ left'["unrevoke"] = 0
  BY <1>1 DEF IInv, HostTypes, WorldOK, WInv, NoLift
<1>4. (Empty /\ left \in [Event -> Nat] /\ left["unrevoke"] = 0 /\ todo = {} /\ cur = None)'
  BY <1>1, <1>2, <1>3
<1> QED
  BY <1>4, EmptyWhole, PTL

(* One request at a time about each instance, the restore's included, is   *)
(* what keeps the two maps together: who is at work on an instance is      *)
(* alone with it, but for the sweep, which takes on only what is listed.   *)
THEOREM WholeInvariance == OneAtATime => (Spec => []WInv)
<1> SUFFICES ASSUME OneAtATime PROVE Spec => []WInv
  OBVIOUS
<1>1. Init => WInv
  <2> SUFFICES ASSUME Init PROVE WInv
    OBVIOUS
  <2>1. Empty /\ todo = {} /\ cur = None
    BY DEF Init, Empty, JournalInit
  <2>2. left \in [Event -> Nat] /\ left["unrevoke"] = 0
    BY WorkloadHostAssumption DEF Init, OneAtATime
  <2> QED
    BY <2>1, <2>2, EmptyWhole
<1>2. IInv /\ WInv /\ [Next]_vars => WInv'
  <2> SUFFICES ASSUME IInv, WInv, [Next]_vars PROVE WInv'
    OBVIOUS
  <2>1. ASSUME NEW d \in Decision, NEW i \in Iid, NEW s \in BOOLEAN, PlaceEnter(d, i, s)
        PROVE  WInv'
    BY <2>1, PlaceEnterWhole
  <2>2. ASSUME NEW d \in Decision, Place(d) PROVE WInv'
    BY <2>2, PlaceWhole
  <2>3. ASSUME NEW i \in Iid, Start(i) \/ Stop(i) \/ UnloadBegin(i) PROVE WInv'
    BY <2>3, VerbsCalm, CalmKeeps, UnloadBeginWhole
  <2>4. CASE UnloadEnd
    BY <2>4, UnloadEndWhole
  <2>5. CASE Supervise
    BY <2>5, SuperviseCalm, CalmKeeps
  <2>6. CASE (\E i \in Iid : BusBegin(i)) \/ BusStop \/ BusMark
    BY <2>6, BusCalm, CalmKeeps
  <2>7. CASE StatusBegin \/ StatusEnd \/ Silence \/ JournalAppend \/ \E i \in Iid : Exit(i)
    BY <2>7, OthersCalm, CalmKeeps
  <2>8. CASE SweepBegin
    BY <2>8, SweepBeginWhole
  <2>9. ASSUME NEW e \in Enforcer, Enforce(e) PROVE WInv'
    BY <2>9, EnforceWhole
  <2>10. CASE (\E i \in Iid : ListChange(i)) \/ ListBump
    BY <2>10, ListChangeWhole
  <2>11. CASE HostBoots \/ HostStops
    BY <2>11, RestoreWhole, StopsWhole
  <2>12. CASE UNCHANGED vars
    <3>1. Calm
      BY <2>12 DEF Calm, Held, vars, host, tasks, world, ghosts, journal, memory, restore
    <3> QED
      BY <3>1, CalmKeeps
  <2> QED
    BY <2>1, <2>2, <2>3, <2>4, <2>5, <2>6, <2>7, <2>8, <2>9, <2>10, <2>11, <2>12 DEF Next
<1> QED
  BY <1>1, <1>2, HostInvariance, PTL DEF Spec

(* enforce_revocations and place's second look: once a sweep that began at *)
(* the list's generation is over, every revoked instance still listed is   *)
(* in somebody's hands, whichever way placements, sweeps and the two       *)
(* halves of a revocation interleave.                                      *)
THEOREM RevokedInstancesGone == OneAtATime => (Spec => []RevokedIsGone)
<1>1. WInv => RevokedIsGone
  <2> SUFFICES ASSUME WInv, ~bumping, swept = revGen, NEW i \in revoked, instances[i] # None
               PROVE  Handled(i)
    BY DEF RevokedIsGone
  <2>1. Picked(i) => Handled(i)
    BY DEF Picked, Removing, Handled
  <2>2. Looks(i) \/ Unlisting(i) => Handled(i)
    BY DEF Looks, Unlisting, Handled, Busy, Active
  <2> QED
    BY <2>1, <2>2 DEF WInv, SweptOver
<1> QED
  BY <1>1, WholeInvariance, PTL

-----------------------------------------------------------------------------
(* What is not listed has left nothing behind, when nothing is revoked     *)
(* either.  (A START between a sweep's pick and its forget switches the    *)
(* credentials on again: README, section 5.)                               *)
NoneRevoked == OneAtATime /\ Budget["revoke"] = 0

ShownPC == {"listed", "sweeping", "starting", "undo", "undoing", "unlisting", "recording"}
LoadingPC == {"loaded", "unbinding", "leased"}
GoingPC == {"unbinding", "undoing", "unlisting"}
Showing(i) == \E d \in Decision : place[d].pc \in ShownPC /\ place[d].id = i
Loading(i) == \E d \in Decision : place[d].pc \in LoadingPC /\ place[d].id = i

Unrevoked == left["revoke"] = 0 /\ revoked = {}

(* From its listing to its end a placement's instance is listed.           *)
Shown == \A d \in Decision : place[d].pc \in ShownPC => instances[place[d].id] # None

(* What is being unloaded has no entry with the adapter and no credential. *)
Going ==
  /\ \A d \in Decision : place[d].pc \in GoingPC =>
       /\ adapter[place[d].id] = "absent" /\ place[d].id \notin token
       /\ place[d].pc = "unlisting" => place[d].id \notin loaded
  /\ unloading # None => adapter[unloading] = "absent" /\ unloading \notin token

(* A placement that has loaded and not leased has no credential yet.       *)
Bare == \A d \in Decision : place[d].pc = "loaded" => place[d].id \notin token

Clear(i) == adapter[i] = "absent" /\ i \notin loaded /\ i \notin token
Cleared == \A i \in Iid : instances[i] = None => Loading(i) \/ Clear(i)

(* The journal holds what is listed and what the restore has still to      *)
(* come to; a new placement is of something it does not hold.              *)
Tidy ==
  \A i \in Iid : Held(i) => instances[i] # None \/ i \in todo \/ (cur # None /\ cur.id = i)
CurShown == cur # None /\ cur.placed => instances[cur.id] # None
Pending ==
  \A d \in Decision : phase = "serving" /\ place[d].pc \in ShownPC => ~Held(place[d].id)

(* What is listed and no placement's any more was answered for.            *)
Known == \A i \in Iid : instances[i] # None => i \in answered \/ Showing(i)

TInv ==
  /\ Unrevoked /\ Shown /\ Going /\ Bare /\ Cleared /\ Tidy /\ CurShown /\ Pending /\ Known

(* Handlers that stay on their side of these points.                       *)
Stands ==
  \A d \in Decision :
    /\ place'[d].pc \in ShownPC <=> place[d].pc \in ShownPC
    /\ place'[d].pc \in LoadingPC <=> place[d].pc \in LoadingPC
    /\ place'[d].pc \in GoingPC <=> place[d].pc \in GoingPC
    /\ \A pc \in {"unlisting", "loaded"} : place'[d].pc = pc => place[d].pc = pc
    /\ place[d].pc \in ShownPC \cup LoadingPC => place'[d].id = place[d].id

LEMMA GentleKeeps ==
  ASSUME IInv, WInv, TInv, Stands,
         \A i \in Iid : /\ instances'[i] = None <=> instances[i] = None
                        /\ adapter'[i] = "absent" <=> adapter[i] = "absent"
                        /\ Held(i)' => Held(i)
                        /\ i \in token' => i \in token \/ (instances[i] # None /\ ~Busy(i)),
         UNCHANGED <<loaded, unloading, phase, todo, cur, answered, revoked>>,
         left'["revoke"] = left["revoke"]
  PROVE  TInv'
<1> USE DEF TInv
<1>0. /\ \A d \in Decision : place[d].pc \in ShownPC \cup LoadingPC =>
           place[d].id \in Iid /\ Busy(place[d].id)
      /\ GoingPC \subseteq ShownPC \cup LoadingPC
      /\ unloading # None => unloading \in Iid /\ Busy(unloading)
      /\ cur # None => cur.id \in Iid
  BY DEF IInv, HostTypes, PlaceOK, UnloadingOK, Busy, Active, ShownPC, LoadingPC, GoingPC, JournalInv,
         JournalTypeOK, Restoring
<1>1. Unrevoked'
  BY DEF Unrevoked
<1>2. Shown' /\ CurShown'
  BY <1>0 DEF Shown, CurShown, Stands
<1>3. Going' /\ Bare'
  <2>1. \A i \in Iid : Busy(i) /\ i \in token' => i \in token
    OBVIOUS
  <2>2. \A d \in Decision : place'[d].pc \in GoingPC =>
          /\ place[d].pc \in GoingPC /\ place'[d].id = place[d].id
          /\ place[d].id \in Iid /\ Busy(place[d].id)
    BY <1>0 DEF Stands
  <2>3. \A d \in Decision : place'[d].pc = "loaded" =>
          /\ place[d].pc = "loaded" /\ place'[d].id = place[d].id
          /\ place[d].id \in Iid /\ Busy(place[d].id)
    BY <1>0 DEF Stands, LoadingPC
  <2>4. \A d \in Decision : place'[d].pc = "unlisting" => place[d].pc = "unlisting"
    BY DEF Stands
  <2>5. Going'
    BY <1>0, <2>1, <2>2, <2>4 DEF Going
  <2> QED
    BY <1>0, <2>1, <2>3, <2>5 DEF Bare
<1>4. Cleared'
  <2>1. \A i \in Iid : Loading(i) => Loading(i)'
    BY DEF Loading, Stands
  <2> QED
    BY <2>1 DEF Cleared, Clear
<1>5. Tidy' /\ Pending'
  BY <1>0 DEF Tidy, Pending, Stands
<1>6. Known'
  <2>1. \A i \in Iid : Showing(i) => Showing(i)'
    BY DEF Showing, Stands
  <2> QED
    BY <2>1 DEF Known
<1> QED
  BY <1>1, <1>2, <1>3, <1>4, <1>5, <1>6

LEMMA CalmTidy == ASSUME IInv, WInv, TInv, Calm PROVE TInv'
BY GentleKeeps DEF Calm, Stands

(* Nothing is revoked, so no enforcement has anything to do.               *)
LEMMA NothingPicked ==
  ASSUME IInv, WInv, TInv
  PROVE  /\ Targets = {}
         /\ \A i : ~Removing(i) /\ ~Picked(i) /\ ~Forgetting(i)
         /\ \A e \in Enforcer : enf[e].todo = {} /\ enf[e].pc \notin {"removing", "forget", "noting"}
BY DEF TInv, Unrevoked, Targets, Removing, Picked, Forgetting, WInv, EnfRevoked

LEMMA EnforceTidy ==
  ASSUME IInv, WInv, TInv, SweepBegin \/ \E e \in Enforcer : Enforce(e)
  PROVE  TInv'
<1>1. SweepBegin \/ \E e \in Enforcer : EnforceEnd(e)
  BY NothingPicked DEF Enforce, TeardownEnd, Forget, NoteForgotten, Teardown
<1>2. /\ UNCHANGED <<instances, loaded, adapter, place, unloading, phase, todo, cur, answered>>
      /\ UNCHANGED <<revoked, left, entries>> /\ token' \subseteq token
  BY <1>1 DEF SweepBegin, EnforceEnd, EnfStep, EnforcePick, TokenOff, world, journal, memory, restore
<1> QED
  BY <1>2, GentleKeeps DEF Stands, Held

(* Handlers that neither list, load nor unload.                            *)
LEMMA PlaceStandsTidy ==
  ASSUME IInv, WInv, TInv, NEW d \in Decision,
         PlaceRefuse(d) \/ PlaceSwept(d) \/ PlaceStart(d) \/ PlaceRecheck(d)
  PROVE  TInv' /\ Stands /\ \E pc : Moves(d, pc)
<1>1. /\ UNCHANGED <<instances, loaded, unloading, phase, todo, cur, answered>>
      /\ UNCHANGED <<revoked, left, entries>> /\ token' \subseteq token
  BY DEF PlaceRefuse, PlaceSwept, PlaceStart, PlaceRecheck, EnforcePick, TokenOff, world, ghosts,
         journal, memory, restore
<1>2. Active(d) /\ place[d].id \in Iid
  BY HandlerMoves DEF PlaceRefuse, PlaceSwept, PlaceStart, PlaceRecheck, Active
<1>3. \A i \in Iid : adapter'[i] = "absent" <=> adapter[i] = "absent"
  BY <1>2, CallsKeepEntries DEF PlaceRefuse, PlaceSwept, PlaceStart, PlaceRecheck
<1>4. Stands /\ \E pc : Moves(d, pc)
  <2>1. CASE PlaceRefuse(d)
    <3>1. place[d].pc = "fetching" /\ Moves(d, "refused")
      BY <2>1, HandlerMoves DEF PlaceRefuse
    <3> QED
      BY <3>1 DEF Stands, Moves, ShownPC, LoadingPC, GoingPC
  <2>2. CASE PlaceSwept(d)
    <3>1. place[d].pc = "sweeping" /\ instances[place[d].id] # None
      BY <2>2 DEF PlaceSwept, TInv, Shown, ShownPC
    <3>2. Moves(d, "starting")
      BY <2>2, <3>1, HandlerMoves DEF PlaceSwept
    <3> QED
      BY <3>1, <3>2 DEF Stands, Moves, ShownPC, LoadingPC, GoingPC
  <2>3. CASE PlaceStart(d)
    <3>1. place \in [Decision -> PlaceType]
      BY DEF IInv, HostTypes, PlaceOK
    <3>2. ASSUME NEW pc, NEW b, place' = [place EXCEPT ![d].pc = pc, ![d].permanent = b]
          PROVE  Moves(d, pc)
      BY <3>1, <3>2 DEF Moves, PlaceType
    <3>3. \E pc \in {"recording", "undo"} : Moves(d, pc)
      BY <2>3, <3>2, HandlerMoves DEF PlaceStart
    <3> QED
      BY <2>3, <3>3 DEF PlaceStart, Stands, Moves, ShownPC, LoadingPC, GoingPC
  <2>4. CASE PlaceRecheck(d)
    <3>1. place[d].pc = "listed" /\ (Moves(d, "sweeping") \/ Moves(d, "starting"))
      BY <2>4, HandlerMoves DEF PlaceRecheck
    <3> QED
      BY <3>1 DEF Stands, Moves, ShownPC, LoadingPC, GoingPC
  <2> QED
    BY <2>1, <2>2, <2>3, <2>4
<1> QED
  BY <1>1, <1>3, <1>4, GentleKeeps DEF Held

LEMMA EnteredTidy ==
  ASSUME IInv, WInv, TInv, NEW d \in Decision, NEW i \in Iid, NEW start,
         place[d].pc = "idle", Entered(d, i, start),
         UNCHANGED <<instances, loaded, adapter, token, unloading, phase, todo, cur, answered,
                     revoked, left, entries>>
  PROVE  TInv'
<1>1. /\ \A c \in Decision : c # d => place'[c] = place[c]
      /\ place'[d].pc = "fetching"
  BY DEF Entered, IInv, HostTypes, PlaceOK
<1>2. Stands
  BY <1>1 DEF Stands, ShownPC, LoadingPC, GoingPC
<1> QED
  BY <1>2, GentleKeeps DEF Held

LEMMA PlaceEnterTidy ==
  ASSUME IInv, WInv, TInv, NEW d \in Decision, NEW i \in Iid, NEW start, PlaceEnter(d, i, start)
  PROVE  TInv'
<1>1. place[d].pc = "idle" /\ Entered(d, i, start)
  BY DEF PlaceEnter, IInv, SentHandled
<1>2. UNCHANGED <<instances, loaded, adapter, token, unloading, phase, todo, cur, answered,
                  revoked, left, entries>>
  BY DEF PlaceEnter, ghosts, journal, memory, restore
<1> QED
  BY <1>1, <1>2, EnteredTidy

LEMMA RestorePlaceTidy == ASSUME IInv, WInv, TInv, RestorePlace PROVE TInv'
<1>1. cur \in Restoring
  BY DEF RestorePlace, IInv, JournalInv, JournalTypeOK
<1>2. PICK d \in Decision, i \in Iid : d = cur.entry.decision /\ i = cur.id
  BY <1>1 DEF Restoring, Entry
<1>3. place[d].pc = "idle" /\ Entered(d, i, RestoreStarts(cur))
  BY <1>2 DEF RestorePlace
<1>4. UNCHANGED <<instances, loaded, adapter, token, unloading, phase, todo, cur, answered,
                  revoked, left, entries>>
  BY DEF RestorePlace, world, ghosts, journal, memory, restore
<1> QED
  BY <1>3, <1>4, EnteredTidy

(* A handler's step that changes only its own instance i.                  *)
LEMMA OwnTidy ==
  ASSUME IInv, WInv, TInv, NEW d \in Decision, Active(d), NEW i \in Iid, place[d].id = i,
         NEW pc, Moves(d, pc),
         \A j \in Iid : j # i =>
           /\ instances'[j] = instances[j] /\ adapter'[j] = adapter[j] /\ entries'[j] = entries[j]
           /\ (j \in loaded' <=> j \in loaded) /\ (j \in token' <=> j \in token)
           /\ j \in answered => j \in answered',
         UNCHANGED <<unloading, phase, todo, revoked, left>>,
         cur' = cur \/ (cur # None /\ cur.id = i /\ cur' # None /\ cur'.id = i),
         pc \in ShownPC => instances'[i] # None /\ (phase = "serving" => ~Held(i)'),
         pc \in GoingPC => adapter'[i] = "absent" /\ i \notin token',
         pc = "unlisting" => i \notin loaded',
         pc = "loaded" => i \notin token',
         instances'[i] = None => pc \in LoadingPC \/ (adapter'[i] = "absent" /\ i \notin loaded' /\ i \notin token'),
         Held(i)' => instances'[i] # None \/ (cur # None /\ cur.id = i),
         cur' # None /\ cur'.placed /\ cur'.id = i => instances'[i] # None,
         instances'[i] # None => i \in answered' \/ pc \in ShownPC
  PROVE  TInv'
<1> USE DEF TInv
<1>0. /\ unloading # i
      /\ \A c \in Decision : Active(c) /\ c # d => place[c].id # i /\ place[c].id \in Iid
      /\ cur # None => cur.id \in Iid
      /\ unloading # None => unloading \in Iid
      /\ \A c \in Decision : place[c].pc \in ShownPC \cup LoadingPC \cup GoingPC => Active(c)
  BY OwnFacts, HandlerMoves DEF IInv, HostTypes, UnloadingOK, JournalInv, JournalTypeOK, Restoring, Active,
                  ShownPC, LoadingPC, GoingPC
<1>1. Unrevoked'
  BY DEF Unrevoked
<1>2. Shown' /\ Pending'
  BY <1>0 DEF Shown, Pending, Moves, Held
<1>3. Going' /\ Bare'
  <2>1. Going'
    BY <1>0 DEF Going, Moves
  <2> QED
    BY <1>0, <2>1 DEF Bare, Moves, LoadingPC
<1>4. Cleared'
  <2>1. \A j \in Iid : j # i => (Loading(j) => Loading(j)')
    BY DEF Loading, Moves
  <2>2. pc \in LoadingPC => \A j : j = i => Loading(j)'
    BY DEF Loading, Moves
  <2> QED
    BY <2>1, <2>2 DEF Cleared, Clear
<1>5. Tidy' /\ CurShown'
  BY <1>0 DEF Tidy, CurShown, Held
<1>6. Known'
  <2>1. \A j \in Iid : j # i => (Showing(j) => Showing(j)')
    BY DEF Showing, Moves
  <2>2. pc \in ShownPC => \A j : j = i => Showing(j)'
    BY DEF Showing, Moves
  <2> QED
    BY <2>1, <2>2 DEF Known
<1> QED
  BY <1>1, <1>2, <1>3, <1>4, <1>5, <1>6

LEMMA PlaceLoadTidy ==
  ASSUME IInv, WInv, TInv, NEW d \in Decision, PlaceLoad(d)
  PROVE  TInv'
<1>0. /\ place[d].pc = "fetching" /\ Active(d) /\ Moves(d, "loaded")
      /\ UNCHANGED <<instances, unloading, phase, todo, cur, revoked, left, answered, entries>>
  BY HandlerMoves DEF PlaceLoad, Active, journal, memory, restore, world, ghosts
<1>1. PICK i \in Iid : i = place[d].id
  BY <1>0, OwnFacts
<1>2. HostLoad(i) /\ UNCHANGED token /\ adapter[i] = "absent" /\ unloading # i /\ ~Undoing(i)
  BY <1>0, <1>1, OwnFacts DEF PlaceLoad, HostLoad, CanLoad
<1>3. instances[i] = None
  BY <1>2, NothingPicked DEF WInv, MapWhole, Whole
<1>4. \A j \in Iid : j # i =>
        /\ adapter'[j] = adapter[j]
        /\ (j \in loaded' <=> j \in loaded) /\ (j \in token' <=> j \in token)
  BY <1>2 DEF HostLoad, IInv, HostTypes, AdapterOK
<1>5. Held(i)' => cur # None /\ cur.id = i
  <2>1. i \notin todo
    BY <1>0, <1>1 DEF IInv, NotAhead
  <2> QED
    BY <1>0, <1>3, <2>1 DEF TInv, Tidy, Held
<1>6. cur # None /\ cur.placed => cur.id # i
  BY <1>3 DEF TInv, CurShown
<1>7. i \notin token
  <2>1. ~Loading(i)
    <3>1. \A c \in Decision : place[c].pc \in LoadingPC => Active(c) /\ c # d
      BY <1>0 DEF Active, LoadingPC
    <3> QED
      BY <1>0, <1>1, <3>1 DEF Loading, WInv, Alone
  <2> QED
    BY <1>3, <2>1 DEF TInv, Cleared, Clear
<1> QED
  BY <1>0, <1>1, <1>2, <1>3, <1>4, <1>5, <1>6, <1>7, OwnTidy DEF ShownPC, LoadingPC, GoingPC

LEMMA PlaceLeaseTidy ==
  ASSUME IInv, WInv, TInv, NEW d \in Decision, PlaceLease(d)
  PROVE  TInv'
<1>0. /\ place[d].pc = "loaded" /\ Active(d) /\ Moves(d, "leased")
      /\ UNCHANGED <<instances, loaded, adapter, unloading, phase, todo, cur, revoked, left, answered, entries>>
  BY HandlerMoves DEF PlaceLease, Active, journal, memory, restore, world, ghosts
<1>1. PICK i \in Iid : i = place[d].id
  BY <1>0, OwnFacts
<1>2. instances[i] = None
  BY <1>0, <1>1 DEF WInv, OwnOK, Own
<1>3. \A j \in Iid : j # i => (j \in token' <=> j \in token)
  BY <1>1 DEF PlaceLease, TokenOn
<1>4. Held(i)' => cur # None /\ cur.id = i
  <2>1. i \notin todo
    BY <1>0, <1>1 DEF IInv, NotAhead
  <2> QED
    BY <1>0, <1>2, <2>1 DEF TInv, Tidy, Held
<1>5. cur # None /\ cur.placed => cur.id # i
  BY <1>2 DEF TInv, CurShown
<1> QED
  BY <1>0, <1>1, <1>2, <1>3, <1>4, <1>5, OwnTidy DEF ShownPC, LoadingPC, GoingPC

LEMMA PlaceUnbindTidy ==
  ASSUME OneAtATime, IInv, WInv, TInv, NEW d \in Decision, PlaceUnbind(d)
  PROVE  TInv'
<1>0. /\ place[d].pc \in {"loaded", "unbinding"} /\ Active(d)
      /\ UNCHANGED <<instances, unloading, phase, todo, cur, revoked, left, answered, entries>>
  BY DEF PlaceUnbind, Active, journal, memory, restore, world, ghosts
<1>1. PICK i \in Iid : i = place[d].id
  BY <1>0, OwnFacts
<1>2. /\ instances[i] = None /\ i \in loaded
      /\ place[d].pc = "loaded" => adapter[i] # "absent" /\ i \notin token
      /\ place[d].pc = "unbinding" => adapter[i] = "absent" /\ i \notin token
  BY <1>0, <1>1 DEF WInv, OwnOK, Own, TInv, Going, GoingPC, Bare
<1>3. /\ \A j \in Iid : j # i =>
           /\ adapter'[j] = adapter[j]
           /\ (j \in loaded' <=> j \in loaded) /\ (j \in token' <=> j \in token)
      /\ adapter'[i] = "absent" /\ i \notin token'
      /\ \/ Moves(d, "unbinding")
         \/ Moves(d, "refused") /\ i \notin loaded'
  <2>1. CASE place[d].pc = "loaded"
    <3>1. Moves(d, "unbinding") /\ DropEntry(i) /\ UNCHANGED loaded
      BY <1>1, <1>2, <2>1, HandlerMoves DEF PlaceUnbind, CanUnload, UnloadFails, OneAtATime
    <3>2. (i \notin token /\ UNCHANGED token) \/ token' = token \ {i}
      BY <1>1, <1>2, <2>1 DEF PlaceUnbind, TokenOff, TInv, Bare
    <3> QED
      BY <3>1, <3>2 DEF DropEntry, IInv, HostTypes, AdapterOK
  <2>2. CASE place[d].pc = "unbinding"
    BY <1>1, <1>2, <2>2, HandlerMoves DEF PlaceUnbind, RemoveDir, OneAtATime
  <2> QED
    BY <1>0, <2>1, <2>2
<1>4. Held(i)' => cur # None /\ cur.id = i
  <2>1. i \notin todo
    BY <1>0, <1>1 DEF IInv, NotAhead
  <2> QED
    BY <1>0, <1>2, <2>1 DEF TInv, Tidy, Held
<1>5. cur # None /\ cur.placed => cur.id # i
  BY <1>2 DEF TInv, CurShown
<1> QED
  BY <1>0, <1>1, <1>2, <1>3, <1>4, <1>5, OwnTidy DEF ShownPC, LoadingPC, GoingPC

(* What the listing adds to the map.                                       *)
LEMMA PlaceListed ==
  ASSUME IInv, NEW d \in Decision, PlaceList(d)
  PROVE  /\ \A j \in Iid : j # place[d].id => instances'[j] = instances[j]
         /\ place[d].id \in Iid /\ instances'[place[d].id] # None
         /\ instances'[place[d].id].desired = place[d].start
         /\ instances'[place[d].id].decision = d
<1>1. PICK i \in Iid : i = place[d].id
  BY HandlerMoves DEF PlaceList, Active
<1> DEFINE new == [decision |-> d, state |-> "Loaded", misses |-> 0, restarts |-> 0,
                   desired |-> place[d].start, leaseStopped |-> FALSE]
           put == IF place[d].start THEN enter(new, "Running") ELSE new
<1>2. instances' = [instances EXCEPT ![i] = put]
  BY <1>1 DEF PlaceList
<1>3. 0 \in 0..MissLimit /\ 0 \in 0..MaxRestarts /\ place[d].start \in BOOLEAN
  BY WorkloadHostAssumption DEF IInv, HostTypes, PlaceOK, PlaceType
<1>4. new \in Instance /\ new.desired = place[d].start /\ new.decision = d
  BY <1>3 DEF Instance, LifecycleState
<1>5. put \in Instance /\ put.desired = place[d].start
  BY <1>4, EnterInstance DEF LifecycleState
<1>6. put.decision = d
  BY <1>4 DEF enter, Instance
<1> HIDE DEF put
<1> QED
  BY <1>1, <1>2, <1>5, <1>6, InstanceAssumption DEF IInv, HostTypes, MapOK

LEMMA PlaceListTidy ==
  ASSUME IInv, WInv, TInv, NEW d \in Decision, PlaceList(d)
  PROVE  TInv' /\ instances'[place[d].id].desired = place[d].start
<1>0. /\ place[d].pc = "leased" /\ Active(d) /\ Moves(d, "listed")
      /\ UNCHANGED <<loaded, adapter, token, unloading, phase, todo, cur, revoked, left, entries>>
  BY HandlerMoves DEF PlaceList, Active, journal, memory, restore, world
<1>1. PICK i \in Iid : i = place[d].id
  BY <1>0, OwnFacts
<1>2. instances[i] = None
  BY <1>0, <1>1 DEF WInv, OwnOK, Own
<1>3. /\ \A j \in Iid : j # i => instances'[j] = instances[j]
      /\ instances'[i] # None /\ answered' = answered \ {i}
      /\ instances'[i].desired = place[d].start
  BY <1>1, PlaceListed DEF PlaceList
<1>4. phase = "serving" => ~Held(i)
  BY <1>2 DEF TInv, Tidy, IInv, JournalInv, Walk
<1> QED
  BY <1>0, <1>1, <1>3, <1>4, OwnTidy DEF ShownPC, LoadingPC, GoingPC, Held

(* A roll-back finds the instance whole, and begins.                       *)
LEMMA RolledBack ==
  ASSUME OneAtATime, IInv, WInv, TInv, NEW d \in Decision, PlaceRollBack(d)
  PROVE  Moves(d, "undoing") /\ DropEntry(place[d].id) /\ TokenOff({place[d].id})
         /\ UNCHANGED inFlight
<1>0. place[d].pc = "undo" /\ Active(d)
  BY DEF PlaceRollBack, Active
<1>1. PICK i \in Iid : i = place[d].id
  BY <1>0, OwnFacts
<1>2. instances[i] # None
  BY <1>0, <1>1 DEF TInv, Shown, ShownPC
<1>3. ~Undoing(i) /\ ~Unlisting(i)
  <2>1. \A c \in Decision : place[c].pc \in {"undoing", "unlisting"} => Active(c) /\ c # d
    BY <1>0 DEF Active
  <2> QED
    BY <1>0, <1>1, <2>1 DEF Undoing, Unlisting, WInv, Alone
<1>4. CanUnload(i)
  BY <1>0, <1>1, <1>2, <1>3, OwnFacts, NothingPicked DEF WInv, MapWhole, Whole, CanUnload
<1> QED
  BY <1>1, <1>2, <1>4, HandlerMoves DEF PlaceRollBack, UnloadFails, OneAtATime

LEMMA PlaceRollBackTidy ==
  ASSUME OneAtATime, IInv, WInv, TInv, NEW d \in Decision, PlaceRollBack(d)
  PROVE  TInv'
<1>0. /\ place[d].pc = "undo" /\ Active(d)
      /\ UNCHANGED <<instances, loaded, unloading, phase, todo, cur, revoked, left, answered, entries>>
  BY DEF PlaceRollBack, Active, journal, memory, restore, world, ghosts
<1>1. PICK i \in Iid : i = place[d].id
  BY <1>0, OwnFacts
<1>2. instances[i] # None
  BY <1>0, <1>1 DEF TInv, Shown, ShownPC
<1>3. /\ Moves(d, "undoing") /\ adapter'[i] = "absent" /\ i \notin token'
      /\ \A j \in Iid : j # i => adapter'[j] = adapter[j] /\ (j \in token' <=> j \in token)
  <2>1. Moves(d, "undoing") /\ DropEntry(i) /\ TokenOff({i})
    BY <1>1, RolledBack
  <2> QED
    BY <2>1 DEF DropEntry, TokenOff, IInv, HostTypes, AdapterOK
<1>4. phase = "serving" => ~Held(i)
  BY <1>0, <1>1 DEF TInv, Pending, ShownPC
<1> QED
  BY <1>0, <1>1, <1>2, <1>3, <1>4, OwnTidy DEF ShownPC, LoadingPC, GoingPC, Held

LEMMA PlaceRolledBackTidy ==
  ASSUME OneAtATime, IInv, WInv, TInv, NEW d \in Decision, PlaceRolledBack(d)
  PROVE  TInv'
<1>0. /\ place[d].pc = "undoing" /\ Active(d) /\ Moves(d, "unlisting")
      /\ UNCHANGED <<instances, adapter, token, unloading, phase, todo, cur, revoked, left, answered, entries>>
  BY HandlerMoves DEF PlaceRolledBack, RemoveDir, OneAtATime, Active, journal, memory, restore, world, ghosts
<1>1. PICK i \in Iid : i = place[d].id
  BY <1>0, OwnFacts
<1>2. loaded' = loaded \ {i} /\ instances[i] # None
  BY <1>0, <1>1 DEF PlaceRolledBack, RemoveDir, OneAtATime, TInv, Shown, ShownPC
<1>3. adapter[i] = "absent" /\ i \notin token
  BY <1>0, <1>1 DEF TInv, Going, GoingPC
<1>4. phase # "down"
  BY <1>0, Alive
<1>5. /\ phase = "serving" => cur = None /\ ~Held(i)
      /\ phase = "restoring" => cur # None /\ ~cur.placed /\ cur.id = i
  BY <1>0, <1>1 DEF WInv, RestoreAlone, TInv, Pending, ShownPC, IInv, JournalInv, Walk
<1>6. phase = "serving" \/ phase = "restoring"
  BY <1>4 DEF IInv, JournalInv, JournalTypeOK
<1> QED
  BY <1>0, <1>1, <1>2, <1>3, <1>5, <1>6, OwnTidy DEF ShownPC, LoadingPC, GoingPC, Held

LEMMA PlaceUnlistTidy ==
  ASSUME IInv, WInv, TInv, NEW d \in Decision, PlaceUnlist(d)
  PROVE  TInv'
<1>0. /\ place[d].pc = "unlisting" /\ Active(d) /\ Moves(d, "refused")
      /\ UNCHANGED <<loaded, adapter, token, unloading, phase, todo, cur, revoked, left, answered, entries>>
  BY HandlerMoves DEF PlaceUnlist, Active, journal, memory, restore, world, ghosts
<1>1. PICK i \in Iid : i = place[d].id
  BY <1>0, OwnFacts
<1>2. \A j \in Iid : instances'[j] = IF j = i THEN None ELSE instances[j]
  BY <1>1 DEF PlaceUnlist, IInv, HostTypes, MapOK
<1>3. adapter[i] = "absent" /\ i \notin token /\ i \notin loaded
  BY <1>0, <1>1 DEF TInv, Going, GoingPC
<1>4. phase # "down"
  BY <1>0, Alive
<1>5. /\ phase = "serving" => cur = None /\ ~Held(i)
      /\ phase = "restoring" => cur # None /\ ~cur.placed /\ cur.id = i
  BY <1>0, <1>1 DEF WInv, RestoreAlone, TInv, Pending, ShownPC, IInv, JournalInv, Walk
<1>6. phase = "serving" \/ phase = "restoring"
  BY <1>4 DEF IInv, JournalInv, JournalTypeOK
<1> QED
  BY <1>0, <1>1, <1>2, <1>3, <1>5, <1>6, OwnTidy DEF ShownPC, LoadingPC, GoingPC, Held

LEMMA PlaceRecordTidy ==
  ASSUME IInv, WInv, TInv, NEW d \in Decision, PlaceRecord(d)
  PROVE  TInv'
<1>0. /\ place[d].pc = "recording" /\ Active(d) /\ Moves(d, "done")
      /\ UNCHANGED <<instances, loaded, adapter, token, unloading, phase, todo, revoked, left>>
  BY HandlerMoves DEF PlaceRecord, Active, world, restore
<1>1. PICK i \in Iid : i = place[d].id
  BY <1>0, OwnFacts
<1>2. instances[i] # None
  BY <1>0, <1>1 DEF TInv, Shown, ShownPC
<1>3. answered' = answered \cup {i}
  BY <1>1, <1>2 DEF PlaceRecord
<1>4. /\ \A j \in Iid : j # i => entries'[j] = entries[j]
      /\ cur' = cur \/ (cur # None /\ cur.id = i /\ cur' # None /\ cur'.id = i)
  <2>1. entries \in [Iid -> Entry \cup {None}]
    BY DEF IInv, JournalInv, JournalTypeOK, EntryMap
  <2>2. CASE cur # None
    <3>1. phase = "restoring" /\ cur \in Restoring
      BY <2>2, Alive DEF IInv, JournalInv, JournalTypeOK
    <3>2. cur.id = i
      BY <1>0, <1>1, <3>1 DEF WInv, RestoreAlone
    <3>3. \E e : entries' = [entries EXCEPT ![cur.id] = e]
      BY <2>2 DEF PlaceRecord, RestoreRecord, record, Save
    <3>4. cur' = [cur EXCEPT !.placed = TRUE]
      BY <2>2 DEF PlaceRecord, RestoreRecord
    <3>5. cur' \in Restoring /\ cur'.id = i
      BY <3>1, <3>2, <3>4 DEF Restoring
    <3> QED
      BY <2>1, <2>2, <3>2, <3>3, <3>5, HostJournalAssumption
  <2>3. CASE cur = None
    <3>1. \E e : entries' = [entries EXCEPT ![i] = e]
      BY <1>1, <2>3 DEF PlaceRecord, record, Save
    <3>2. cur' = cur
      BY <2>3 DEF PlaceRecord, restore
    <3> QED
      BY <2>1, <3>1, <3>2
  <2> QED
    BY <2>2, <2>3
<1> QED
  BY <1>0, <1>1, <1>2, <1>3, <1>4, OwnTidy DEF ShownPC, LoadingPC, GoingPC

LEMMA PlaceTidy ==
  ASSUME OneAtATime, IInv, WInv, TInv, NEW d \in Decision, Place(d)
  PROVE  TInv'
BY PlaceStandsTidy, PlaceLoadTidy, PlaceUnbindTidy, PlaceLeaseTidy, PlaceListTidy,
   PlaceRollBackTidy, PlaceRolledBackTidy, PlaceUnlistTidy, PlaceRecordTidy DEF Place

LEMMA UnloadBeginTidy ==
  ASSUME OneAtATime, IInv, WInv, TInv, NEW i \in Iid, UnloadBegin(i)
  PROVE  TInv'
<1>1. /\ unloading = None /\ ~Busy(i) /\ Spend("verb") /\ instances[i] # None
      /\ token' = token \ {i}
      /\ UNCHANGED <<instances, loaded, place, phase, todo, cur, answered, revoked, entries>>
  BY DEF UnloadBegin, Requested, Allowed, OneAtATime, LockFree, TokenOff, ghosts, journal, memory, restore
<1>2. left'["revoke"] = left["revoke"]
  BY <1>1 DEF Spend, Event, IInv, HostTypes, WorldOK
<1>3. CASE ~CanUnload(i)
  BY <1>1, <1>2, <1>3, GentleKeeps DEF UnloadBegin, UnloadFails, Stands, Held
<1>4. CASE CanUnload(i)
  <2>1. unloading' = i /\ adapter'[i] = "absent" /\ \A j \in Iid : j # i => adapter'[j] = adapter[j]
    BY <1>4 DEF UnloadBegin, UnloadFails, OneAtATime, DropEntry, IInv, HostTypes, AdapterOK
  <2> USE DEF TInv
  <2>2. Unrevoked' /\ Shown' /\ Tidy' /\ CurShown' /\ Pending'
    BY <1>1, <1>2 DEF Unrevoked, Shown, Tidy, CurShown, Pending, Held
  <2>3. \A d \in Decision : place[d].pc \in GoingPC => place[d].id \in Iid
    BY DEF IInv, HostTypes, PlaceOK, GoingPC
  <2>4. Going' /\ Bare'
    BY <1>1, <2>1, <2>3 DEF Going, Bare
  <2>5. Cleared'
    BY <1>1, <2>1 DEF Cleared, Clear, Loading
  <2>6. Known'
    BY <1>1 DEF Known, Showing
  <2> QED
    BY <2>2, <2>4, <2>5, <2>6
<1> QED
  BY <1>3, <1>4

(* UNLOAD and a forget take the entry out of the journal.                  *)
LEMMA DepartedUnheld ==
  ASSUME IInv, NEW i \in Iid, NoteDeparted(i)
  PROVE  entries'[i] = None
BY DEF NoteDeparted, remove, Save, NoSave, IInv, JournalInv, JournalTypeOK, EntryMap

LEMMA UnloadEndTidy == ASSUME OneAtATime, IInv, WInv, TInv, UnloadEnd PROVE TInv'
<1>0. PICK i \in Iid : i = unloading
  BY DEF UnloadEnd, IInv, HostTypes, UnloadingOK
<1>1. /\ unloading' = None /\ loaded' = loaded \ {i} /\ NoteDeparted(i)
      /\ instances' = [instances EXCEPT ![i] = None]
      /\ UNCHANGED <<adapter, token, place, phase, todo, cur, revoked, left, answered>>
  BY <1>0 DEF UnloadEnd, RemoveDir, OneAtATime, world, ghosts, Untouched, restore
<1>2. /\ \A j \in Iid : instances'[j] = IF j = i THEN None ELSE instances[j]
      /\ \A j \in Iid : j # i => entries'[j] = entries[j]
      /\ entries'[i] = None
  BY <1>1, DepartedEntry, DepartedUnheld DEF IInv, HostTypes, MapOK
<1>3. i # None /\ phase = "serving" /\ cur = None
  <2>1. i # None /\ phase # "down"
    BY <1>0, HostJournalAssumption, Alive
  <2>2. phase # "restoring"
    BY <1>0, <2>1 DEF WInv, RestoreAlone
  <2> QED
    BY <2>1, <2>2 DEF IInv, JournalInv, JournalTypeOK, Walk
<1>4. \A d \in Decision : place[d].pc \in ShownPC \cup LoadingPC \cup GoingPC =>
        place[d].id \in Iid /\ place[d].id # i
  <2>1. \A d \in Decision : place[d].pc \in ShownPC \cup LoadingPC \cup GoingPC => Active(d)
    BY DEF Active, ShownPC, LoadingPC, GoingPC
  <2> QED
    BY <1>0, <2>1, OwnFacts
<1> USE DEF TInv
<1>5. Unrevoked' /\ Shown' /\ CurShown' /\ Pending'
  BY <1>1, <1>2, <1>3, <1>4 DEF Unrevoked, Shown, CurShown, Pending, Held
<1>6. Going' /\ Bare' /\ Tidy'
  BY <1>1, <1>2, <1>4 DEF Going, Bare, Tidy, Held
<1>7. Cleared'
  <2>1. Clear(i)'
    BY <1>0, <1>1, <1>3 DEF Going, Clear
  <2> QED
    BY <1>1, <1>2, <2>1 DEF Cleared, Clear, Loading
<1>8. Known'
  BY <1>1, <1>2 DEF Known, Showing
<1> QED
  BY <1>5, <1>6, <1>7, <1>8

(* Nothing is ever revoked.                                                *)
LEMMA ListTidy ==
  ASSUME IInv, WInv, TInv, (\E i \in Iid : ListChange(i)) \/ ListBump
  PROVE  TInv'
<1>1. ListBump
  BY DEF ListChange, Spend, TInv, Unrevoked
<1>2. /\ UNCHANGED <<instances, loaded, adapter, token, place, unloading, phase, todo, cur, answered>>
      /\ UNCHANGED <<revoked, left, entries>>
  BY <1>1 DEF ListBump, host, tasks, ghosts, journal, memory, restore
<1> QED
  BY <1>2, GentleKeeps DEF Stands, Held

-----------------------------------------------------------------------------
LEMMA RestoreTidy == ASSUME IInv, WInv, TInv, HostBoots PROVE TInv'
<1>1. CASE RestorePlace
  BY <1>1, RestorePlaceTidy
<1>2. CASE Quiet /\ ~RestorePlace
  <2> USE DEF TInv
  <2>0. UNCHANGED <<instances, loaded, adapter, token, place, unloading, answered, revoked, left>>
    BY <1>2 DEF Quiet, host, tasks, world, ghosts
  <2>1. Unrevoked' /\ Shown' /\ Going' /\ Bare' /\ Cleared' /\ Known'
    BY <2>0 DEF Unrevoked, Shown, Going, Bare, Cleared, Clear, Loading, Known, Showing
  <2>2. entries \in [Iid -> Entry \cup {None}] /\ cur \in Restoring \cup {None}
    BY DEF IInv, JournalInv, JournalTypeOK, EntryMap
  <2>3. CASE Boot
    <3>1. \A d \in Decision : place[d].pc = "idle"
      BY <2>3 DEF Boot, IInv, AtRest, PlaceIdle
    <3>2. Pending' /\ CurShown'
      BY <2>0, <2>3, <3>1 DEF Boot, Pending, CurShown, ShownPC
    <3>3. Tidy'
      BY <2>3 DEF Boot, Tidy, Held, NoEntries
    <3> QED
      BY <2>1, <3>2, <3>3
  <2>4. CASE RestoreDone \/ \E i \in Iid : RestoreTake(i)
    <3>1. UNCHANGED entries /\ phase = "restoring" /\ cur = None
      BY <2>4 DEF RestoreDone, RestoreTake, memory
    <3>2. \A d \in Decision : ~Active(d)
      BY <3>1 DEF WInv, RestoreAlone
    <3>3. Pending'
      BY <2>0, <3>2 DEF Pending, ShownPC, Active
    <3>4. CurShown'
      BY <2>4 DEF RestoreDone, RestoreTake, restore, CurShown
    <3>5. Tidy'
      <4>1. CASE RestoreDone
        BY <2>0, <3>1, <4>1 DEF RestoreDone, restore, Tidy, Held
      <4>2. ASSUME NEW i \in Iid, RestoreTake(i) PROVE Tidy'
        <5> DEFINE c == [id |-> i, entry |-> entries[i], placed |-> FALSE]
        <5>1. cur' = c /\ todo' = todo \ {i} /\ c.id = i
          BY <4>2 DEF RestoreTake
        <5>2. i \in todo /\ entries[i] # None
          BY <4>2 DEF RestoreTake, IInv, JournalInv, Walk
        <5>3. c # None
          <6>1. entries[i] \in Entry
            BY <2>2, <5>2
          <6>2. c \in Restoring
            BY <6>1 DEF Restoring
          <6> QED
            BY <6>2, HostJournalAssumption
        <5> HIDE DEF c
        <5> QED
          BY <2>0, <3>1, <5>1, <5>3 DEF Tidy, Held
      <4> QED
        BY <2>4, <4>1, <4>2
    <3> QED
      BY <2>1, <3>3, <3>4, <3>5
  <2>5. CASE cur # None /\ (RestoreKeep \/ RestoreDrop \/ RestoreRetry) /\ UNCHANGED <<phase, todo>>
    <3>1. cur' = None /\ phase = "restoring" /\ cur \in Restoring /\ cur.id \in Iid
      BY <2>2, <2>5, Alive DEF RestoreKeep, RestoreDrop, RestoreRetry, Restoring
    <3>2. Pending' /\ CurShown'
      BY <2>5, <3>1 DEF Pending, CurShown
    <3>3. (\A j \in Iid : (Held(j)' => Held(j)) /\ (j = cur.id /\ Held(j)' => instances[j] # None))
            => Tidy'
      BY <2>0, <2>5, <3>1 DEF Tidy
    <3>4. CASE RestoreKeep
      <4>1. \A j \in Iid : Held(j)' => Held(j)
        BY <3>1, <3>4, CallsKeepEntries DEF RestoreKeep, NoSave, Held
      <4> QED
        BY <2>1, <3>2, <3>3, <3>4, <4>1 DEF RestoreKeep, CurShown
    <3>5. CASE RestoreDrop
      <4>1. \A j \in Iid : entries'[j] = entries[j] \/ entries'[j] = None
        BY <2>2, <3>1, <3>5 DEF RestoreDrop, remove, Save, NoSave
      <4>2. entries'[cur.id] = None
        BY <2>2, <3>1, <3>5 DEF RestoreDrop, remove, Save, NoSave
      <4>3. (\A j \in Iid : Held(j)' => Held(j)) /\ \A j : j = cur.id => ~Held(j)'
        BY <4>1, <4>2 DEF Held
      <4> QED
        BY <2>1, <3>2, <3>3, <4>3
    <3>6. CASE RestoreRetry
      <4> DEFINE n == cur.entry.failures + 1
      <4>1. n # 0 /\ n \in Nat
        BY <3>1, HostJournalAssumption DEF Restoring, Entry
      <4> HIDE DEF n
      <4>2. set_failures(cur.id, n)
        BY <3>6 DEF RestoreRetry, n
      <4>3. /\ \A j \in Iid : j # cur.id => entries'[j] = entries[j]
            /\ entries'[cur.id] # None => entries'[cur.id].failures = n
        BY <2>2, <3>1, <4>2 DEF set_failures, Save, NoSave, Entry
      <4>4. (\A j \in Iid : Held(j)' => Held(j)) /\ \A j : j = cur.id => ~Held(j)'
        BY <4>1, <4>3 DEF Held
      <4> QED
        BY <2>1, <3>2, <3>3, <4>4
    <3> QED
      BY <2>5, <3>4, <3>5, <3>6
  <2> QED
    BY <1>2, <2>3, <2>4, <2>5 DEF HostBoots
<1> QED
  BY <1>1, <1>2 DEF HostBoots

LEMMA EmptyTidy ==
  Empty /\ left["revoke"] = 0 /\ revoked = {} /\ entries = NoEntries /\ cur = None => TInv
<1> SUFFICES ASSUME Empty, left["revoke"] = 0, revoked = {}, entries = NoEntries, cur = None
             PROVE  TInv
  OBVIOUS
<1>1. /\ \A d \in Decision : place[d].pc = "idle"
      /\ \A i \in Iid : instances[i] = None /\ adapter[i] = "absent" /\ ~Held(i)
      /\ loaded = {} /\ token = {} /\ unloading = None
  BY DEF Empty, PlaceIdle, NoEntries, Held
<1> QED
  BY <1>1 DEF TInv, Unrevoked, Shown, Going, Bare, Cleared, Clear, Tidy, CurShown, Pending, Known, ShownPC,
              GoingPC

LEMMA StopsTidy == ASSUME IInv, WInv, TInv, HostStops PROVE TInv'
<1>1. Empty' /\ UNCHANGED <<left, revoked>>
  BY DEF HostStops, HostGone, Empty
<1>2. entries' = NoEntries /\ cur' = None
  BY DEF HostStops, Crash, CleanShutdown, DaemonGone
<1>3. left'["revoke"] = 0 /\ revoked' = {}
  BY <1>1 DEF TInv, Unrevoked
<1>4. (Empty /\ left["revoke"] = 0 /\ revoked = {} /\ entries = NoEntries /\ cur = None)'
  BY <1>1, <1>2, <1>3 DEF NoEntries
<1> QED
  BY <1>4, EmptyTidy, PTL

(* place, roll_back and UNLOAD: whichever step fails, and wherever the     *)
(* daemon stops, every way out of the instance map clears the adapter, its *)
(* host, the credentials and the journal.                                  *)
THEOREM TidyInvariance == NoneRevoked => (Spec => []TInv)
<1> SUFFICES ASSUME NoneRevoked PROVE Spec => []TInv
  OBVIOUS
<1>0. OneAtATime
  BY DEF NoneRevoked
<1>1. Init => TInv
  <2> SUFFICES ASSUME Init PROVE TInv
    OBVIOUS
  <2>1. Empty /\ entries = NoEntries /\ cur = None /\ revoked = {}
    BY DEF Init, Empty, JournalInit
  <2>2. left["revoke"] = 0
    BY DEF Init, NoneRevoked
  <2> QED
    BY <2>1, <2>2, EmptyTidy
<1>2. IInv /\ WInv /\ TInv /\ [Next]_vars => TInv'
  <2> SUFFICES ASSUME IInv, WInv, TInv, [Next]_vars PROVE TInv'
    OBVIOUS
  <2>1. ASSUME NEW d \in Decision, NEW i \in Iid, NEW s \in BOOLEAN, PlaceEnter(d, i, s)
        PROVE  TInv'
    BY <2>1, PlaceEnterTidy
  <2>2. ASSUME NEW d \in Decision, Place(d) PROVE TInv'
    BY <1>0, <2>2, PlaceTidy
  <2>3. ASSUME NEW i \in Iid, Start(i) \/ Stop(i) \/ UnloadBegin(i) PROVE TInv'
    BY <1>0, <2>3, VerbsCalm, CalmTidy, UnloadBeginTidy
  <2>4. CASE UnloadEnd
    BY <1>0, <2>4, UnloadEndTidy
  <2>5. CASE Supervise
    BY <2>5, SuperviseCalm, CalmTidy
  <2>6. CASE (\E i \in Iid : BusBegin(i)) \/ BusStop \/ BusMark
    BY <2>6, BusCalm, CalmTidy
  <2>7. CASE StatusBegin \/ StatusEnd \/ Silence \/ JournalAppend \/ \E i \in Iid : Exit(i)
    BY <2>7, OthersCalm, CalmTidy
  <2>8. CASE SweepBegin \/ \E e \in Enforcer : Enforce(e)
    BY <2>8, EnforceTidy
  <2>9. CASE (\E i \in Iid : ListChange(i)) \/ ListBump
    BY <2>9, ListTidy
  <2>10. CASE HostBoots \/ HostStops
    BY <2>10, RestoreTidy, StopsTidy
  <2>11. CASE UNCHANGED vars
    <3>1. Calm
      BY <2>11 DEF Calm, Held, vars, host, tasks, world, ghosts, journal, memory, restore
    <3> QED
      BY <3>1, CalmTidy
  <2> QED
    BY <2>1, <2>2, <2>3, <2>4, <2>5, <2>6, <2>7, <2>8, <2>9, <2>10, <2>11 DEF Next
<1> QED
  BY <1>0, <1>1, <1>2, HostInvariance, WholeInvariance, PTL DEF Spec

-----------------------------------------------------------------------------
(* Devices are bound to what is listed, or to a placement that is about to *)
(* list it.                                                                *)
Leased(i) == \E d \in Decision : place[d].pc = "leased" /\ place[d].id = i
BoundListed == \A i \in bound : i \in Iid /\ (instances[i] # None \/ Leased(i))

LEMMA PlaceBinds ==
  ASSUME IInv, BoundListed, NEW d \in Decision, Place(d)
  PROVE  BoundListed'
<1>0. place \in [Decision -> PlaceType] /\ instances \in [Iid -> Instance \cup {None}]
  BY DEF IInv, HostTypes, PlaceOK, MapOK
<1>1. \A pc : Moves(d, pc) /\ place[d].pc # "leased" => \A j : Leased(j) => Leased(j)'
  BY DEF Moves, Leased
<1>2. CASE PlaceRefuse(d) \/ PlaceLoad(d) \/ PlaceRecheck(d) \/ PlaceSwept(d) \/ PlaceRecord(d)
           \/ PlaceRollBack(d) \/ PlaceRolledBack(d) \/ PlaceStart(d)
  <2>1. UNCHANGED <<bound, instances>> /\ place[d].pc # "leased"
    BY <1>2 DEF PlaceRefuse, PlaceLoad, PlaceRecheck, PlaceSwept, PlaceRecord, PlaceRollBack,
                PlaceRolledBack, PlaceStart, bindings
  <2>2. \A c \in Decision : c # d => place'[c] = place[c]
    BY <1>0, <1>2 DEF PlaceRefuse, PlaceLoad, PlaceRecheck, PlaceSwept, PlaceRecord, PlaceRollBack,
                PlaceRolledBack, PlaceStart, Refuse, Go
  <2> QED
    BY <2>1, <2>2 DEF BoundListed, Leased
<1>3. CASE PlaceUnbind(d)
  <2>1. bound' \subseteq bound /\ UNCHANGED instances /\ place[d].pc # "leased"
    BY <1>3 DEF PlaceUnbind, Unbind
  <2>2. \A c \in Decision : c # d => place'[c] = place[c]
    BY <1>0, <1>3 DEF PlaceUnbind, Refuse, Go
  <2> QED
    BY <2>1, <2>2 DEF BoundListed, Leased
<1>4. CASE PlaceLease(d)
  <2>1. place[d].pc = "loaded" /\ Moves(d, "leased") /\ UNCHANGED instances
    BY <1>4, HandlerMoves DEF PlaceLease
  <2>2. bound' = bound \cup {place[d].id} /\ place[d].id \in Iid
    BY <1>4, <2>1, HandlerMoves DEF PlaceLease, Bind, Active
  <2>3. \A j : j = place[d].id => Leased(j)'
    BY <2>1 DEF Leased, Moves
  <2> QED
    BY <1>1, <2>1, <2>2, <2>3 DEF BoundListed
<1>5. CASE PlaceList(d)
  <2>1. place[d].pc = "leased" /\ Moves(d, "listed") /\ UNCHANGED bound
    BY <1>5, HandlerMoves DEF PlaceList, bindings
  <2>2. place[d].id \in Iid
    BY <2>1, HandlerMoves DEF Active
  <2>3. \A j \in Iid : j # place[d].id => instances'[j] = instances[j]
    BY <1>0, <1>5, <2>2 DEF PlaceList
  <2>4. instances'[place[d].id] # None
    BY <1>5, PlaceListed
  <2>5. \A j : j # place[d].id => (Leased(j) => Leased(j)')
    BY <2>1 DEF Leased, Moves
  <2> QED
    BY <2>1, <2>2, <2>3, <2>4, <2>5 DEF BoundListed
<1>6. CASE PlaceUnlist(d)
  <2>1. place[d].pc = "unlisting" /\ Moves(d, "refused")
    BY <1>6, HandlerMoves DEF PlaceUnlist
  <2>2. bound' = bound \ {place[d].id}
    BY <1>6 DEF PlaceUnlist, Unbind
  <2>3. \A j \in Iid : j # place[d].id => instances'[j] = instances[j]
    BY <1>0, <1>6 DEF PlaceUnlist
  <2> QED
    BY <1>1, <2>1, <2>2, <2>3 DEF BoundListed
<1> QED
  BY <1>2, <1>3, <1>4, <1>5, <1>6 DEF Place

LEMMA HostBinds ==
  ASSUME OneAtATime, IInv, WInv, TInv, BoundListed, [Next]_vars
  PROVE  BoundListed'
<1>1. ASSUME UNCHANGED <<bound, place>>, Calm PROVE BoundListed'
  BY <1>1 DEF BoundListed, Leased, Calm
<1>2. ASSUME NEW d \in Decision, NEW i \in Iid, NEW s \in BOOLEAN, PlaceEnter(d, i, s)
      PROVE  BoundListed'
  <2>1. place[d].pc = "idle" /\ UNCHANGED <<bound, instances>>
    BY <1>2 DEF PlaceEnter, IInv, SentHandled, bindings
  <2>2. \A c \in Decision : c # d => place'[c] = place[c]
    BY <1>2 DEF PlaceEnter, Entered, IInv, HostTypes, PlaceOK
  <2> QED
    BY <2>1, <2>2 DEF BoundListed, Leased
<1>3. ASSUME NEW i \in Iid, Start(i) \/ Stop(i) PROVE BoundListed'
  BY <1>1, <1>3, VerbsCalm DEF Start, Stop, bindings, tasks
<1>4. ASSUME NEW i \in Iid, UnloadBegin(i) PROVE BoundListed'
  BY <1>4 DEF UnloadBegin, BoundListed, Leased
<1>5. CASE UnloadEnd
  <2>1. bound' = bound \ {unloading} /\ instances' = [instances EXCEPT ![unloading] = None]
        /\ UNCHANGED place
    BY <1>5 DEF UnloadEnd, RemoveDir, OneAtATime, Unbind
  <2>2. instances \in [Iid -> Instance \cup {None}]
    BY DEF IInv, HostTypes, MapOK
  <2> QED
    BY <2>1, <2>2 DEF BoundListed, Leased
<1>6. CASE Supervise
  <2>1. UNCHANGED <<bound, place>>
    BY <1>6 DEF Supervise, SupLease, SupLeaseMark, SupPick, SupApply, SupFailedStop, SupRestartStop,
                SupRestartStart, SupRestartMark, SupLeaseStop, SupPoll, SupStep, bindings
  <2> QED
    BY <1>1, <1>6, <2>1, SuperviseCalm
<1>7. CASE (\E i \in Iid : BusBegin(i)) \/ BusStop \/ BusMark
  <2>1. UNCHANGED <<bound, place>>
    BY <1>7 DEF BusBegin, BusStop, BusMark, BusStep, bindings
  <2> QED
    BY <1>1, <1>7, <2>1, BusCalm
<1>8. CASE StatusBegin \/ StatusEnd \/ Silence \/ JournalAppend \/ ListBump
           \/ \E i \in Iid : Exit(i) \/ ListChange(i)
  BY <1>8 DEF StatusBegin, StatusEnd, Silence, JournalAppend, ListBump, Exit, ListChange, Quiet, host,
              bindings, tasks, BoundListed, Leased
<1>9. CASE SweepBegin \/ \E e \in Enforcer : Enforce(e)
  <2>1. SweepBegin \/ \E e \in Enforcer : EnforceEnd(e)
    BY <1>9, NothingPicked DEF Enforce, TeardownEnd, Forget, NoteForgotten, Teardown
  <2> QED
    BY <2>1 DEF SweepBegin, EnforceEnd, EnfStep, bindings, BoundListed, Leased
<1>10. CASE HostBoots
  <2>1. CASE RestorePlace
    <3>1. cur \in Restoring
      BY <2>1 DEF RestorePlace, IInv, JournalInv, JournalTypeOK
    <3>2. PICK d \in Decision : d = cur.entry.decision
      BY <3>1 DEF Restoring, Entry
    <3>3. place[d].pc = "idle" /\ UNCHANGED <<bound, instances>>
      BY <2>1, <3>2 DEF RestorePlace, bindings
    <3>4. \A c \in Decision : c # d => place'[c] = place[c]
      BY <2>1, <3>2 DEF RestorePlace, Entered, IInv, HostTypes, PlaceOK
    <3> QED
      BY <3>3, <3>4 DEF BoundListed, Leased
  <2>2. CASE Quiet
    BY <2>2 DEF Quiet, host, tasks, BoundListed, Leased
  <2> QED
    BY <1>10, <2>1, <2>2 DEF HostBoots
<1>11. CASE HostStops
  BY <1>11 DEF HostStops, HostGone, BoundListed
<1>12. CASE UNCHANGED vars
  BY <1>12 DEF vars, host, tasks, BoundListed, Leased
<1> QED
  BY <1>2, <1>3, <1>4, <1>5, <1>6, <1>7, <1>8, <1>9, <1>10, <1>11, <1>12, PlaceBinds DEF Next

(* An instance that is not listed and that no task is at work on has left  *)
(* no process, adapter entry, credential, device or admitted workload, and *)
(* no journal entry but one kept for another try.                          *)
THEOREM NothingIsLeft == NoneRevoked => (Spec => []NothingLeftBehind)
<1> SUFFICES ASSUME NoneRevoked PROVE Spec => []NothingLeftBehind
  OBVIOUS
<1>0. OneAtATime
  BY DEF NoneRevoked
<1>1. IInv /\ TInv /\ BoundListed => NothingLeftBehind
  <2> SUFFICES ASSUME IInv, TInv, BoundListed, NEW i \in Iid, instances[i] = None, ~Handled(i)
               PROVE  /\ adapter[i] = "absent" /\ i \notin token \cup bound /\ i \notin loaded
                      /\ phase = "serving" /\ entries[i] # None => entries[i].failures > 0
    BY DEF NothingLeftBehind
  <2>1. ~Loading(i) /\ ~Leased(i) /\ ~(cur # None /\ cur.id = i)
    BY DEF Loading, LoadingPC, Leased, Handled, Busy, Active
  <2>2. phase = "serving" => ~Held(i)
    BY <2>1 DEF TInv, Tidy, IInv, JournalInv, Walk
  <2>3. entries[i] # None => entries[i].failures \in Nat
    BY HostJournalAssumption DEF IInv, JournalInv, JournalTypeOK, EntryMap, Entry
  <2> QED
    BY <2>1, <2>2, <2>3 DEF TInv, Cleared, Clear, Held, BoundListed
<1>2. Init => BoundListed
  BY DEF Init, BoundListed
<1> QED
  BY <1>0, <1>1, <1>2, HostBinds, HostInvariance, WholeInvariance, TidyInvariance, PTL DEF Spec

-----------------------------------------------------------------------------
(* The host's use of its journal, when the bus stops nothing either.  (A   *)
(* bus stop changes what the operator is told and not the journal: README, *)
(* section 5.)                                                             *)
NoBusStops == NoneRevoked /\ Budget["bus"] = 0
BusQuiet == left["bus"] = 0 /\ bus.pc = "idle"

LEMMA BusQuietStep == ASSUME IInv, BusQuiet, [Next]_vars PROVE BusQuiet'
<1> USE DEF BusQuiet
<1>1. left \in [Event -> Nat] /\ "bus" \in Event
  BY DEF IInv, HostTypes, WorldOK, Event
<1>2. \A event \in Event \ {"bus"} : Spend(event) => left'["bus"] = 0
  BY <1>1 DEF Spend
<1>3. UNCHANGED <<left, bus>> => BusQuiet'
  OBVIOUS
<1>4. ASSUME NEW d \in Decision, NEW i \in Iid, NEW s \in BOOLEAN, PlaceEnter(d, i, s)
      PROVE  BusQuiet'
  BY <1>3, <1>4 DEF PlaceEnter
<1>5. ASSUME NEW d \in Decision, Place(d) PROVE BusQuiet'
  BY <1>3, <1>5 DEF Place, PlaceRefuse, PlaceLoad, PlaceUnbind, PlaceLease, PlaceList, PlaceRecheck,
                    PlaceSwept, PlaceStart, PlaceRollBack, PlaceRolledBack, PlaceUnlist, PlaceRecord, world
<1>6. ASSUME NEW i \in Iid, Start(i) \/ Stop(i) \/ UnloadBegin(i) PROVE BusQuiet'
  BY <1>2, <1>6 DEF Start, Stop, UnloadBegin, Requested, tasks, Event
<1>7. CASE UnloadEnd \/ StatusEnd \/ Supervise \/ SweepBegin \/ ListBump \/ JournalAppend
           \/ HostBoots \/ \E e \in Enforcer : Enforce(e)
  <2>1. UNCHANGED <<left, bus>>
    BY <1>7 DEF UnloadEnd, StatusEnd, SweepBegin, ListBump, JournalAppend, Quiet, tasks, world, HostBoots,
                RestorePlace, Enforce, TeardownEnd, Forget, NoteForgotten, EnforceEnd, Teardown, EnfStep, Supervise,
                SupLease, SupLeaseMark, SupPick, SupApply, SupFailedStop, SupRestartStop,
                SupRestartStart, SupRestartMark, SupLeaseStop, SupPoll, SupStep
  <2> QED
    BY <1>3, <2>1
<1>8. ~BusStop /\ ~BusMark /\ \A i \in Iid : ~BusBegin(i)
  BY DEF BusStop, BusMark, BusBegin, Spend
<1>9. CASE StatusBegin \/ Silence \/ \E i \in Iid : Exit(i)
  BY <1>2, <1>9 DEF StatusBegin, Silence, Exit, tasks, Event
<1>10. CASE \E i \in Iid : ListChange(i)
  BY <1>2, <1>10 DEF ListChange, tasks, Event
<1>11. CASE HostStops
  BY <1>11 DEF HostStops, HostGone, BusIdle
<1>12. CASE UNCHANGED vars
  BY <1>3, <1>12 DEF vars, tasks, world
<1> QED
  BY <1>4, <1>5, <1>6, <1>7, <1>8, <1>9, <1>10, <1>11, <1>12 DEF Next

(* The journal changes by its own operations only.                         *)
LEMMA RecordUses ==
  ASSUME IInv, WInv, NEW d \in Decision, PlaceRecord(d)
  PROVE  JournalNext
<1>1. Active(d) /\ place[d].pc = "recording"
  BY DEF PlaceRecord, Active
<1>2. PICK i \in Iid, s \in BOOLEAN : i = place[d].id /\ s = place[d].start
  BY <1>1, OwnFacts DEF IInv, HostTypes, PlaceOK, PlaceType
<1>3. CASE cur # None
  BY <1>3 DEF PlaceRecord, JournalNext, RestoreStep
<1>4. CASE cur = None
  <2>1. phase = "serving"
    BY <1>1, <1>4, Alive DEF WInv, RestoreAlone, IInv, JournalInv, JournalTypeOK
  <2>2. JournalPlaced(i, d, s)
    BY <1>2, <1>4, <2>1 DEF PlaceRecord, JournalPlaced, Untouched
  <2> QED
    BY <2>2 DEF JournalNext
<1> QED
  BY <1>3, <1>4

LEMMA VerbUses ==
  ASSUME OneAtATime, IInv, WInv, TInv, NEW i \in Iid, Start(i) \/ Stop(i)
  PROVE  JournalNext \/ UNCHANGED journal
<1>1. phase = "serving" /\ instances[i] # None /\ ~Busy(i)
  BY DEF Start, Stop, Requested, Allowed, OneAtATime
<1>2. ~Showing(i)
  BY <1>1 DEF Busy, Showing, Active, ShownPC
<1>3. entries[i] # None
  BY <1>1, <1>2 DEF TInv, Known, WInv, AnsweredOK
<1>4. CASE Start(i)
  <2>1. UNCHANGED journal \/ JournalVerb(i, TRUE)
    BY <1>1, <1>3, <1>4 DEF Start, JournalVerb
  <2> QED
    BY <2>1 DEF JournalNext
<1>5. CASE Stop(i)
  <2>1. JournalVerb(i, FALSE)
    BY <1>1, <1>3, <1>5 DEF Stop, JournalVerb
  <2> QED
    BY <2>1 DEF JournalNext
<1> QED
  BY <1>4, <1>5

LEMMA UnloadUses ==
  ASSUME OneAtATime, IInv, WInv, UnloadEnd
  PROVE  JournalNext
<1>0. PICK i \in Iid : i = unloading
  BY DEF UnloadEnd, IInv, HostTypes, UnloadingOK
<1>1. phase = "serving"
  BY <1>0, HostJournalAssumption, Alive DEF WInv, RestoreAlone, IInv, JournalInv, JournalTypeOK
<1>2. JournalDeparted(i)
  BY <1>0, <1>1 DEF UnloadEnd, RemoveDir, OneAtATime, NoteDeparted, JournalDeparted
<1> QED
  BY <1>2 DEF JournalNext

LEMMA BootUses == ASSUME HostBoots PROVE JournalNext \/ UNCHANGED journal
<1>1. CASE cur # None /\ cur.placed /\ RestoreKeep
           /\ UNCHANGED <<diskChain, phase, mayStart, todo, bounds, intent, forked, backup>>
  BY <1>1 DEF JournalNext, RestoreStep
<1>2. CASE (RestoreDrop \/ RestoreRetry)
           /\ UNCHANGED <<diskChain, phase, mayStart, todo, bounds, forked, backup>>
  BY <1>2 DEF JournalNext, RestoreStep
<1>3. CASE Boot \/ RestoreDone \/ \E i \in Iid : RestoreTake(i)
  BY <1>3 DEF JournalNext
<1>4. CASE RestorePlace
  BY <1>4 DEF RestorePlace
<1> QED
  BY <1>1, <1>2, <1>3, <1>4 DEF HostBoots

LEMMA JournalSteps ==
  ASSUME OneAtATime, IInv, WInv, TInv, BusQuiet, [Next]_vars
  PROVE  JournalNext \/ UNCHANGED journal
<1>1. ASSUME NEW d \in Decision, NEW i \in Iid, NEW s \in BOOLEAN, PlaceEnter(d, i, s)
      PROVE  UNCHANGED journal
  BY <1>1 DEF PlaceEnter
<1>2. ASSUME NEW d \in Decision, Place(d) PROVE JournalNext \/ UNCHANGED journal
  BY <1>2, RecordUses
     DEF Place, PlaceRefuse, PlaceLoad, PlaceUnbind, PlaceLease, PlaceList, PlaceRecheck, PlaceSwept,
         PlaceStart, PlaceRollBack, PlaceRolledBack, PlaceUnlist
<1>3. ASSUME NEW i \in Iid, Start(i) \/ Stop(i) \/ UnloadBegin(i)
      PROVE  JournalNext \/ UNCHANGED journal
  BY <1>3, VerbUses DEF UnloadBegin
<1>4. CASE UnloadEnd
  BY <1>4, UnloadUses
<1>5. CASE Supervise
  BY <1>5 DEF Supervise, SupLease, SupLeaseMark, SupPick, SupApply, SupFailedStop, SupRestartStop,
              SupRestartStart, SupRestartMark, SupLeaseStop, SupPoll, SupStep
<1>6. ~BusStop /\ ~BusMark /\ \A i \in Iid : ~BusBegin(i)
  BY DEF BusStop, BusMark, BusBegin, Spend, BusQuiet
<1>7. CASE StatusBegin \/ StatusEnd \/ Silence \/ ListBump \/ \E i \in Iid : Exit(i) \/ ListChange(i)
  BY <1>7 DEF StatusBegin, StatusEnd, Silence, ListBump, Exit, ListChange
<1>8. CASE SweepBegin \/ \E e \in Enforcer : Enforce(e)
  BY <1>8, NothingPicked DEF SweepBegin, Enforce, TeardownEnd, Forget, NoteForgotten, Teardown, EnforceEnd
<1>9. CASE JournalAppend
  BY <1>9 DEF JournalAppend, JournalNext
<1>10. CASE HostBoots
  BY <1>10, BootUses
<1>11. CASE HostStops
  BY <1>11 DEF HostStops, JournalNext
<1>12. CASE UNCHANGED vars
  BY <1>12 DEF vars
<1> QED
  BY <1>1, <1>2, <1>3, <1>4, <1>5, <1>6, <1>7, <1>8, <1>9, <1>10, <1>11, <1>12 DEF Next

(* The host implements the journal by itself: each of its steps is a step  *)
(* of JournalSpec or leaves the journal alone.  START and STOP only reach  *)
(* instances the journal holds, and nothing but the restore uses it while  *)
(* the restore is under way.                                               *)
THEOREM HostUsesJournal == NoBusStops => (Spec => UsesJournal)
<1> SUFFICES ASSUME NoBusStops PROVE Spec => UsesJournal
  OBVIOUS
<1>0. OneAtATime /\ NoneRevoked
  BY DEF NoBusStops, NoneRevoked
<1>1. Init => JournalInit /\ BusQuiet
  BY DEF Init, BusQuiet, BusIdle, NoBusStops
<1>2. IInv /\ BusQuiet /\ [Next]_vars => BusQuiet'
  BY BusQuietStep
<1>3. IInv /\ WInv /\ TInv /\ BusQuiet /\ [Next]_vars => [JournalNext]_journal
  BY <1>0, JournalSteps
<1> QED
  BY <1>0, <1>1, <1>2, <1>3, HostInvariance, WholeInvariance, TidyInvariance, PTL
     DEF Spec, UsesJournal, JournalSpec

(* host_journal.rs, of the host that drives the journal: a restore starts  *)
(* only instances that the newest save wanted running.                     *)
THEOREM HostStartsNothingStale == NoBusStops => (Spec => []NoStaleStart)
BY HostUsesJournal, NoStaleStartHolds, PTL DEF UsesJournal

(* The newest file honours what the operator was last told, wherever the   *)
(* daemon is cut short: IntentKept, of the host that drives the journal.   *)
THEOREM HostKeepsIntent == NoBusStops => (Spec => []IntentOnDisk)
BY HostUsesJournal, IntentKept, PTL DEF UsesJournal

-----------------------------------------------------------------------------
(* A stop is kept by the instance map too.  A placement's instance is      *)
(* wanted only if it asked for a start, and the restore asks only for the  *)
(* start of what the journal wants.                                        *)
Told ==
  ~faulted => \A i \in Iid :
    instances[i] # None /\ intent[i] = "stop" /\ instances[i].desired => Showing(i)
AsAsked ==
  \A d \in Decision :
    place[d].pc \in ShownPC /\ instances[place[d].id].desired => place[d].start
RestoreAsked ==
  \A d \in Decision :
    phase = "restoring" /\ Active(d) /\ place[d].start => cur.entry.desired
OInv == Told /\ AsAsked /\ RestoreAsked

(* Steps after which nothing is wanted that was not wanted before.         *)
LEMMA LoweredKeeps ==
  ASSUME IInv, WInv, TInv, OInv, RestoreAsked', faulted => faulted',
         \A i \in Iid : instances'[i] # None =>
           /\ instances[i] # None /\ (instances'[i].desired => instances[i].desired)
           /\ instances'[i].desired /\ intent'[i] = "stop" => intent[i] = "stop",
         \A d \in Decision : place[d].pc \in ShownPC =>
           (place'[d].pc \in ShownPC /\ place'[d].id = place[d].id) \/ instances'[place[d].id] = None,
         \A d \in Decision : place'[d].pc \in ShownPC =>
           /\ place[d].pc \in ShownPC /\ place'[d].id = place[d].id /\ place'[d].start = place[d].start
           /\ instances'[place[d].id] # None
  PROVE  OInv'
<1>1. \A i \in Iid : Showing(i) /\ instances'[i] # None => Showing(i)'
  BY DEF Showing
<1>2. Told'
  BY <1>1 DEF OInv, Told
<1>3. \A d \in Decision : place[d].pc \in ShownPC => place[d].id \in Iid
  BY HandlerMoves DEF Active, ShownPC
<1>4. AsAsked'
  BY <1>3 DEF OInv, AsAsked
<1> QED
  BY <1>2, <1>4 DEF OInv

LEMMA CalmLowers ==
  ASSUME IInv, WInv, TInv, OInv, Calm, faulted => faulted',
         \A i \in Iid : instances[i] # None =>
           /\ instances'[i].desired => instances[i].desired
           /\ instances'[i].desired /\ intent'[i] = "stop" => intent[i] = "stop"
  PROVE  OInv'
<1>1. RestoreAsked'
  BY DEF OInv, RestoreAsked, Calm, Active
<1>2. \A d \in Decision : place[d].pc \in ShownPC => place[d].id \in Iid /\ instances[place[d].id] # None
  BY HandlerMoves DEF Active, ShownPC, TInv, Shown
<1> QED
  BY <1>1, <1>2, LoweredKeeps DEF Calm

LEMMA MovesAsked ==
  ASSUME OInv, NEW d \in Decision, Active(d), NEW pc, Moves(d, pc), phase' = phase,
         cur' = cur \/ cur'.entry = cur.entry
  PROVE  RestoreAsked'
<1>1. \A c \in Decision : (Active(c)' => Active(c)) /\ place'[c].start = place[c].start
  BY DEF Active, Moves
<1> QED
  BY <1>1 DEF OInv, RestoreAsked

LEMMA PlaceObeys ==
  ASSUME OneAtATime, IInv, WInv, TInv, OInv, StopSaid, faulted => faulted',
         NEW d \in Decision, Place(d)
  PROVE  OInv'
<1> DEFINE i == place[d].id
<1>0. Active(d)
  BY DEF Place, PlaceRefuse, PlaceLoad, PlaceUnbind, PlaceLease, PlaceList, PlaceRecheck, PlaceSwept,
         PlaceStart, PlaceRollBack, PlaceRolledBack, PlaceUnlist, PlaceRecord, Active
<1>1. /\ i \in Iid
      /\ \A c \in Decision : c # d /\ place[c].pc \in ShownPC => place[c].id # i
      /\ \A c \in Decision : place[c].pc \in ShownPC => place[c].id \in Iid /\ instances[place[c].id] # None
  BY <1>0, OwnFacts, HandlerMoves DEF Active, ShownPC, TInv, Shown
<1> HIDE DEF i
<1>2. ASSUME NEW pc, Moves(d, pc), pc \in ShownPC <=> place[d].pc \in ShownPC,
             UNCHANGED <<instances, intent, phase, cur>>
      PROVE  OInv'
  <2>1. RestoreAsked'
    BY <1>0, <1>2, MovesAsked
  <2>2. \A c \in Decision : /\ place'[c].pc \in ShownPC <=> place[c].pc \in ShownPC
                            /\ place'[c].id = place[c].id /\ place'[c].start = place[c].start
    BY <1>2 DEF Moves
  <2> QED
    BY <1>1, <1>2, <2>1, <2>2, LoweredKeeps
<1>3. CASE PlaceRefuse(d) \/ PlaceSwept(d) \/ PlaceStart(d) \/ PlaceRecheck(d)
  <2>1. UNCHANGED <<instances, intent, phase, cur>>
    BY <1>3 DEF PlaceRefuse, PlaceSwept, PlaceStart, PlaceRecheck, journal, restore, history
  <2>2. Stands /\ \E pc : Moves(d, pc)
    BY <1>3, PlaceStandsTidy
  <2> QED
    BY <1>2, <2>1, <2>2 DEF Stands, Moves
<1>4. CASE PlaceLoad(d) \/ PlaceUnbind(d) \/ PlaceLease(d)
  <2>1. UNCHANGED <<instances, intent, phase, cur>>
    BY <1>4 DEF PlaceLoad, PlaceUnbind, PlaceLease, journal, restore, history
  <2>2. /\ place[d].pc \notin ShownPC
        /\ \E pc \in {"loaded", "unbinding", "leased", "refused"} : Moves(d, pc)
    BY <1>4, HandlerMoves DEF PlaceLoad, PlaceUnbind, PlaceLease, ShownPC
  <2> QED
    BY <1>2, <2>1, <2>2 DEF ShownPC
<1>5. CASE PlaceRollBack(d)
  <2>1. UNCHANGED <<instances, intent, phase, cur>> /\ place[d].pc = "undo"
    BY <1>5 DEF PlaceRollBack, journal, restore, history
  <2>4. Moves(d, "undoing")
    BY <1>5, RolledBack
  <2> QED
    BY <1>2, <2>1, <2>4 DEF ShownPC
<1>9. CASE PlaceRolledBack(d)
  <2>1. UNCHANGED <<instances, intent, phase, cur>> /\ place[d].pc = "undoing"
    BY <1>9 DEF PlaceRolledBack, journal, restore, history
  <2>2. Moves(d, "unlisting")
    BY <1>9, HandlerMoves DEF PlaceRolledBack, RemoveDir, OneAtATime
  <2> QED
    BY <1>2, <2>1, <2>2 DEF ShownPC
<1>6. CASE PlaceUnlist(d)
  <2>1. UNCHANGED <<intent, phase, cur>> /\ place[d].pc = "unlisting" /\ Moves(d, "refused")
    BY <1>6, HandlerMoves DEF PlaceUnlist, journal, restore, history
  <2>2. \A j \in Iid : instances'[j] = IF j = i THEN None ELSE instances[j]
    BY <1>1, <1>6 DEF PlaceUnlist, IInv, HostTypes, MapOK, i
  <2>3. RestoreAsked'
    BY <1>0, <2>1, MovesAsked
  <2>4. \A c \in Decision : /\ place'[c].pc \in ShownPC <=> c # d /\ place[c].pc \in ShownPC
                            /\ place'[c].id = place[c].id /\ place'[c].start = place[c].start
    BY <2>1 DEF Moves, ShownPC
  <2>5. place[d].id = i
    BY DEF i
  <2> QED
    BY <1>1, <2>1, <2>2, <2>3, <2>4, <2>5, LoweredKeeps
<1>7. CASE PlaceList(d)
  <2>1. UNCHANGED <<intent, phase, cur, faulted>> /\ Moves(d, "listed")
    BY <1>7, HandlerMoves DEF PlaceList, journal, restore, history
  <2>2. /\ \A j \in Iid : j # i => instances'[j] = instances[j]
        /\ instances'[i].desired = place[d].start
    BY <1>7, PlaceListed DEF i
  <2>3. RestoreAsked'
    BY <1>0, <2>1, MovesAsked
  <2>4. \A c \in Decision : /\ place'[c].pc \in ShownPC <=> c = d \/ place[c].pc \in ShownPC
                            /\ place'[c].id = place[c].id /\ place'[c].start = place[c].start
    BY <2>1 DEF Moves, ShownPC
  <2>5. Told'
    <3>1. \A j \in Iid : Showing(j) \/ j = i => Showing(j)'
      BY <2>4 DEF Showing, i
    <3> QED
      BY <2>1, <2>2, <3>1 DEF OInv, Told
  <2>6. AsAsked'
    BY <1>1, <2>2, <2>4 DEF OInv, AsAsked, i
  <2> QED
    BY <2>3, <2>5, <2>6 DEF OInv
<1>8. CASE PlaceRecord(d)
  <2>1. UNCHANGED <<instances, phase>> /\ Moves(d, "done") /\ place[d].pc = "recording"
    BY <1>8, HandlerMoves DEF PlaceRecord
  <2>2. instances[i].desired => place[d].start
    BY <2>1 DEF OInv, AsAsked, ShownPC, i
  <2>3. \A c \in Decision : /\ place'[c].pc \in ShownPC <=> c # d /\ place[c].pc \in ShownPC
                            /\ place'[c].id = place[c].id /\ place'[c].start = place[c].start
    BY <2>1 DEF Moves, ShownPC
  <2>4. AsAsked'
    BY <2>1, <2>3 DEF OInv, AsAsked
  <2>5. \A j \in Iid : j # i /\ Showing(j) => Showing(j)'
    BY <2>3 DEF Showing, i
  <2>6. /\ \A j \in Iid : j # i => intent'[j] = intent[j]
        /\ ~faulted /\ intent'[i] = "stop" => ~place[d].start
        /\ cur' = cur \/ cur'.entry = cur.entry
    <3>1. CASE cur = None
      BY <1>1, <1>8, <3>1 DEF PlaceRecord, restore, IInv, JournalInv, JournalTypeOK, i
    <3>2. CASE cur # None
      <4>1. cur \in Restoring /\ phase = "restoring" /\ cur.entry \in Entry
        BY <3>2, Alive DEF IInv, JournalInv, JournalTypeOK, Walk, Restoring
      <4>2. intent' = intent /\ cur' = [cur EXCEPT !.placed = TRUE]
        BY <1>8, <3>2 DEF PlaceRecord, RestoreRecord
      <4>3. cur'.entry = cur.entry
        BY <4>1, <4>2 DEF Restoring
      <4>4. cur.id = i
        BY <1>0, <4>1 DEF WInv, RestoreAlone, i
      <4>5. place[d].start => Says(cur.entry) = "run"
        BY <1>0, <4>1, SaysOf DEF OInv, RestoreAsked
      <4>6. ~faulted /\ intent[i] = "stop" => Says(cur.entry) # "run"
        BY <3>2, <4>4 DEF StopSaid
      <4> QED
        BY <4>2, <4>3, <4>5, <4>6
    <3> QED
      BY <3>1, <3>2
  <2>7. Told'
    BY <2>1, <2>2, <2>5, <2>6 DEF OInv, Told
  <2>8. RestoreAsked'
    BY <1>0, <2>1, <2>6, MovesAsked
  <2> QED
    BY <2>4, <2>7, <2>8 DEF OInv
<1> QED
  BY <1>3, <1>4, <1>5, <1>6, <1>7, <1>8, <1>9 DEF Place

LEMMA EnterObeys ==
  ASSUME IInv, WInv, TInv, OInv, NEW d \in Decision, NEW i \in Iid, NEW start,
         place[d].pc = "idle", Entered(d, i, start),
         phase = "serving" \/ (start => cur.entry.desired),
         UNCHANGED <<instances, intent, faulted, phase, cur>>
  PROVE  OInv'
<1>1. /\ \A c \in Decision : c # d => place'[c] = place[c]
      /\ place'[d].pc = "fetching" /\ place'[d].start = start
  BY DEF Entered, IInv, HostTypes, PlaceOK
<1>2. RestoreAsked'
  BY <1>1 DEF OInv, RestoreAsked, Active
<1>3. \A c \in Decision : place[c].pc \in ShownPC => place[c].id \in Iid /\ instances[place[c].id] # None
  BY HandlerMoves DEF Active, ShownPC, TInv, Shown
<1> QED
  BY <1>1, <1>2, <1>3, LoweredKeeps DEF ShownPC

LEMMA VerbObeys ==
  ASSUME OneAtATime, IInv, WInv, TInv, OInv, faulted => faulted', NEW i \in Iid, Start(i) \/ Stop(i)
  PROVE  OInv'
<1>1. Calm /\ ~Busy(i) /\ ~Showing(i)
  BY VerbsCalm DEF Start, Stop, Requested, Allowed, OneAtATime, Busy, Showing, Active, ShownPC
<1>2. CASE Stop(i)
  <2>1. Steady /\ ~instances'[i].desired
    BY <1>2, StopStep
  <2>2. \A j \in Iid : j # i => intent'[j] = intent[j]
    BY <1>2 DEF Stop, IInv, JournalInv, JournalTypeOK
  <2> QED
    BY <1>1, <2>1, <2>2, CalmLowers DEF Steady
<1>3. CASE Start(i) /\ UNCHANGED <<instances, intent>>
  BY <1>1, <1>3, CalmLowers
<1>4. CASE Start(i) /\ intent' = [intent EXCEPT ![i] = "run"]
  <2>1. \A j \in Iid : j # i => instances'[j] = instances[j]
    BY <1>4, StartStep
  <2>2. intent'[i] # "stop" /\ \A j \in Iid : j # i => intent'[j] = intent[j]
    BY <1>4 DEF IInv, JournalInv, JournalTypeOK
  <2>3. UNCHANGED <<place, phase, cur>>
    BY <1>1 DEF Calm
  <2>4. Told'
    BY <1>1, <2>1, <2>2, <2>3 DEF OInv, Told, Showing
  <2>5. \A d \in Decision : place[d].pc \in ShownPC => place[d].id \in Iid /\ place[d].id # i
    BY <1>1, HandlerMoves DEF Showing, Active, ShownPC
  <2>6. AsAsked' /\ RestoreAsked'
    BY <2>1, <2>3, <2>5 DEF OInv, AsAsked, RestoreAsked, Active
  <2> QED
    BY <2>4, <2>6 DEF OInv
<1>5. Start(i) => UNCHANGED <<instances, intent>> \/ intent' = [intent EXCEPT ![i] = "run"]
  BY DEF Start, journal, history
<1> QED
  BY <1>2, <1>3, <1>4, <1>5

LEMMA UnloadObeys ==
  ASSUME OneAtATime, IInv, WInv, TInv, OInv, faulted => faulted', TInv',
         UnloadEnd \/ \E i \in Iid : UnloadBegin(i)
  PROVE  OInv'
<1>1. UNCHANGED <<place, phase, cur>>
  BY DEF UnloadEnd, UnloadBegin, Untouched, journal, restore
<1>2. RestoreAsked'
  BY <1>1 DEF OInv, RestoreAsked, Active
<1>3. \A d \in Decision : place[d].pc \in ShownPC => instances'[place[d].id] # None
  BY <1>1 DEF TInv, Shown
<1>4. CASE \E i \in Iid : UnloadBegin(i)
  <2>1. UNCHANGED <<instances, intent>>
    BY <1>4 DEF UnloadBegin, journal, history
  <2> QED
    BY <1>1, <1>2, <1>3, <2>1, LoweredKeeps
<1>5. CASE UnloadEnd
  <2>0. PICK i \in Iid : i = unloading
    BY <1>5 DEF UnloadEnd, IInv, HostTypes, UnloadingOK
  <2>1. /\ instances' = [instances EXCEPT ![i] = None]
        /\ intent' = [intent EXCEPT ![i] = "gone"]
    BY <1>5, <2>0 DEF UnloadEnd, RemoveDir, OneAtATime
  <2>2. \A j \in Iid : /\ instances'[j] = IF j = i THEN None ELSE instances[j]
                       /\ j # i => intent'[j] = intent[j]
    BY <2>1 DEF IInv, HostTypes, MapOK, JournalInv, JournalTypeOK
  <2> QED
    BY <1>1, <1>2, <1>3, <2>2, LoweredKeeps
<1> QED
  BY <1>4, <1>5

LEMMA BootObeys ==
  ASSUME IInv, WInv, TInv, OInv, WInv', TInv', HostBoots, faulted => faulted'
  PROVE  OInv'
<1>0. cur \in Restoring \cup {None}
  BY DEF IInv, JournalInv, JournalTypeOK
<1>1. CASE RestorePlace
  <2>1. PICK d \in Decision, i \in Iid : d = cur.entry.decision /\ i = cur.id
    BY <1>0, <1>1 DEF RestorePlace, Restoring, Entry
  <2>2. place[d].pc = "idle" /\ Entered(d, i, RestoreStarts(cur))
    BY <1>1, <2>1 DEF RestorePlace
  <2>3. RestoreStarts(cur) => cur.entry.desired
    BY DEF RestoreStarts
  <2>4. UNCHANGED <<instances, intent, faulted, phase, cur>>
    BY <1>1 DEF RestorePlace, journal, restore, history
  <2> QED
    BY <2>2, <2>3, <2>4, EnterObeys
<1>2. CASE Quiet /\ ~RestorePlace
  <2>0. UNCHANGED <<instances, place>>
    BY <1>2 DEF Quiet, host, tasks
  <2>1. cur' = None \/ (cur = None /\ phase = "restoring")
    BY <1>2 DEF HostBoots, Boot, RestoreDone, RestoreTake, RestoreKeep, RestoreDrop, RestoreRetry, restore
  <2>2. RestoreAsked'
    <3>1. CASE cur' = None
      BY <3>1 DEF WInv, RestoreAlone, RestoreAsked
    <3>2. CASE cur = None /\ phase = "restoring"
      <4>1. \A d \in Decision : ~Active(d)
        BY <3>2 DEF WInv, RestoreAlone
      <4> QED
        BY <2>0, <4>1 DEF RestoreAsked, Active
    <3> QED
      BY <2>1, <3>1, <3>2
  <2>3. \A d \in Decision : place[d].pc \in ShownPC => instances'[place[d].id] # None
    BY <2>0 DEF TInv, Shown
  <2>4. \A i \in Iid : instances'[i] # None /\ intent'[i] = "stop" => intent[i] = "stop"
    <3>1. CASE Boot
      BY <2>0, <3>1 DEF Boot, IInv, AtRest
    <3>2. CASE RestoreDrop
      BY <3>2 DEF RestoreDrop, IInv, JournalInv, JournalTypeOK
    <3>3. CASE ~Boot /\ ~RestoreDrop
      BY <1>2, <3>3 DEF HostBoots, RestoreDone, RestoreTake, RestoreRetry, history
    <3> QED
      BY <3>1, <3>2, <3>3
  <2> QED
    BY <2>0, <2>2, <2>3, <2>4, LoweredKeeps
<1> QED
  BY <1>1, <1>2 DEF HostBoots

(* Every step of the host.                                                 *)
LEMMA HostObeys ==
  ASSUME OneAtATime, IInv, WInv, TInv, OInv, BusQuiet, StopSaid, WInv', TInv', [Next]_vars
  PROVE  OInv'
<1>0. faulted => faulted'
  BY JournalSteps, LostStaysLost DEF journal, history
<1>1. ASSUME NEW d \in Decision, NEW i \in Iid, NEW s \in BOOLEAN, PlaceEnter(d, i, s)
      PROVE  OInv'
  <2>1. place[d].pc = "idle" /\ Entered(d, i, s) /\ phase = "serving"
    BY <1>1 DEF PlaceEnter, IInv, SentHandled
  <2>2. UNCHANGED <<instances, intent, faulted, phase, cur>>
    BY <1>1 DEF PlaceEnter, journal, restore, history
  <2> QED
    BY <2>1, <2>2, EnterObeys
<1>2. ASSUME NEW d \in Decision, Place(d) PROVE OInv'
  BY <1>0, <1>2, PlaceObeys
<1>3. ASSUME NEW i \in Iid, Start(i) \/ Stop(i) \/ UnloadBegin(i) PROVE OInv'
  BY <1>0, <1>3, VerbObeys, UnloadObeys
<1>4. CASE UnloadEnd
  BY <1>0, <1>4, UnloadObeys
<1>5. CASE Supervise
  <2>1. UNCHANGED intent
    BY <1>5 DEF Supervise, SupLease, SupLeaseMark, SupPick, SupApply, SupFailedStop, SupRestartStop,
                SupRestartStart, SupRestartMark, SupLeaseStop, SupPoll, SupStep, journal, history
  <2>2. Steady /\ Calm
    BY <1>5, SuperviseKeeps, SuperviseCalm
  <2> QED
    BY <1>0, <2>1, <2>2, CalmLowers DEF Steady
<1>6. ~BusStop /\ ~BusMark /\ \A i \in Iid : ~BusBegin(i)
  BY DEF BusStop, BusMark, BusBegin, Spend, BusQuiet
<1>7. CASE StatusBegin \/ StatusEnd \/ Silence \/ JournalAppend \/ \E i \in Iid : Exit(i)
  <2>1. Calm
    BY <1>7, OthersCalm
  <2>2. UNCHANGED <<instances, intent>>
    BY <1>7 DEF StatusBegin, StatusEnd, Silence, JournalAppend, Exit, AppendChain, Quiet, host, journal,
                history
  <2> QED
    BY <1>0, <2>1, <2>2, CalmLowers
<1>8. CASE \/ SweepBegin \/ (\E e \in Enforcer : Enforce(e))
           \/ (\E i \in Iid : ListChange(i)) \/ ListBump \/ UNCHANGED vars
  <2>1. UNCHANGED <<instances, intent, place, phase, cur>>
    BY <1>8, NothingPicked
       DEF SweepBegin, Enforce, TeardownEnd, Forget, NoteForgotten, Teardown, EnforceEnd, EnfStep, ListChange,
           ListBump, vars, host, tasks, journal, restore, history
  <2>2. RestoreAsked'
    BY <2>1 DEF OInv, RestoreAsked, Active
  <2> QED
    BY <1>0, <2>1, <2>2, LoweredKeeps DEF TInv, Shown
<1>9. CASE HostBoots
  BY <1>0, <1>9, BootObeys
<1>10. CASE HostStops
  <2>1. /\ phase' = "down" /\ instances' = [i \in Iid |-> None]
        /\ place' = [d \in Decision |-> PlaceIdle]
    BY <1>10 DEF HostStops, HostGone, Crash, CleanShutdown, DaemonGone
  <2> QED
    BY <2>1 DEF OInv, Told, AsAsked, RestoreAsked, PlaceIdle, ShownPC
<1> QED
  BY <1>1, <1>2, <1>3, <1>4, <1>5, <1>6, <1>7, <1>8, <1>9, <1>10 DEF Next

(* tests_restart.rs, "a stopped cog is not started by a restart": what the *)
(* operator was last told is stopped is not meant to run, whatever the     *)
(* supervisor does, wherever the daemon crashes and whatever the restore   *)
(* comes to, unless a save was lost or a new request for it is being       *)
(* handled.                                                                *)
THEOREM StopsHold == NoBusStops => (Spec => []StopHolds)
<1> SUFFICES ASSUME NoBusStops PROVE Spec => []StopHolds
  OBVIOUS
<1>0. OneAtATime /\ NoneRevoked
  BY DEF NoBusStops, NoneRevoked
<1>1. Init => OInv /\ BusQuiet
  <2>1. Init => BusQuiet
    BY DEF Init, BusQuiet, BusIdle, NoBusStops
  <2>2. Init => OInv
    BY DEF Init, JournalInit, OInv, Told, AsAsked, RestoreAsked, PlaceIdle, ShownPC
  <2> QED
    BY <2>1, <2>2
<1>2. IInv /\ BusQuiet /\ [Next]_vars => BusQuiet'
  BY BusQuietStep
<1>3. IInv /\ WInv /\ TInv /\ OInv /\ BusQuiet /\ StopSaid /\ WInv' /\ TInv' /\ [Next]_vars => OInv'
  BY <1>0, HostObeys
<1>4. OInv => StopHolds
  BY DEF OInv, Told, StopHolds, Showing, Busy, Active, ShownPC
<1>5. Spec => []StopSaid
  BY HostUsesJournal, StopsAreKept, PTL DEF UsesJournal
<1> QED
  BY <1>0, <1>1, <1>2, <1>3, <1>4, <1>5, HostInvariance, WholeInvariance, TidyInvariance, PTL DEF Spec

-----------------------------------------------------------------------------
(* Departures are reported.  The list has DepartedCap places (256 in the   *)
(* code); a host with no more instances than that forgets none of them.    *)
RoomForAll == IsFiniteSet(Iid) /\ Cardinality(Iid) <= DepartedCap

(* An id is on the list once, and only while it is not listed.             *)
Once == \A j, k \in 1..Len(departed) : departed[j] = departed[k] => j = k
Away == \A k \in 1..Len(departed) : instances[departed[k]] = None
Departed(i) == \E k \in 1..Len(departed) : departed[k] = i

(* Between its listing and its answer an instance is not answered for.     *)
Unanswered == \A d \in Decision : place[d].pc \in ShownPC => place[d].id \notin answered
UnloadListed == unloading # None => instances[unloading] # None
(* A placement about to list an id has taken it off.                       *)
TakenOff == \A d \in Decision : place[d].pc = "leased" => ~Departed(place[d].id)
ToldOrLeased == \A i \in answered : instances[i] = None => Departed(i) \/ Leased(i)
GInv == Once /\ Away /\ Unanswered /\ UnloadListed /\ TakenOff /\ ToldOrLeased

(* Taking an id off a list keeps the others, once each.                    *)
Without(t, s, i) ==
  /\ \A j, k \in 1..Len(t) : t[j] = t[k] => j = k
  /\ \A k \in 1..Len(t) : t[k] # i /\ \E j \in 1..Len(s) : t[k] = s[j]
  /\ \A k \in 1..Len(s) : s[k] # i => \E j \in 1..Len(t) : t[j] = s[k]

LEMMA RetainOnce ==
  ASSUME NEW s \in Seq(Iid), NEW i \in Iid, \A j, k \in 1..Len(s) : s[j] = s[k] => j = k
  PROVE  Without(Retain(s, Iid \ {i}), s, i)
<1> DEFINE S == Iid \ {i}
           t == Retain(s, S)
           at == Places(s, S)
<1> HIDE DEF S
<1>1. /\ t \in Seq(Iid)
      /\ \E p : Enumerates(p, Len(t), at) /\ \A n \in 1..Len(t) : t[n] = s[p[n]]
  BY RetainKeeps
<1>2. PICK p : Enumerates(p, Len(t), at) /\ \A n \in 1..Len(t) : t[n] = s[p[n]]
  BY <1>1
<1>3. Len(t) \in Nat /\ \A k \in at : k \in 1..Len(s) /\ k \in Nat
  BY <1>1 DEF Places
<1>4. \A k \in 1..Len(s) : k \in at <=> s[k] # i
  BY DEF Places, S
<1> HIDE DEF t, at
<1>5. \A a \in 1..Len(t) : p[a] \in at
  BY <1>2 DEF Enumerates
<1>6. \A a, b \in 1..Len(t) : p[a] = p[b] => a = b
  <2>1. \A a, b \in 1..Len(t) : a < b => p[a] < p[b]
    BY <1>2 DEF Enumerates
  <2> QED
    BY <1>3, <1>5, <2>1
<1>7. \A j, k \in 1..Len(t) : t[j] = t[k] => j = k
  BY <1>2, <1>3, <1>5, <1>6
<1>8. \A k \in 1..Len(t) : t[k] # i /\ \E j \in 1..Len(s) : t[k] = s[j]
  BY <1>2, <1>3, <1>4, <1>5
<1>9. \A k \in 1..Len(s) : s[k] # i => \E j \in 1..Len(t) : t[j] = s[k]
  BY <1>2, <1>4 DEF Enumerates
<1> QED
  BY <1>7, <1>8, <1>9 DEF Without, t, S

(* With room for all, an id that is not on the list finds a place on it.   *)
LEMMA RoomOnList ==
  ASSUME RoomForAll, IInv, Once, NEW i \in Iid, ~Departed(i)
  PROVE  Len(departed) < DepartedCap
<1>1. departed \in Seq(Iid) /\ Len(departed) \in Nat /\ DepartedCap \in Nat
  BY WorkloadHostAssumption DEF IInv, HostTypes, DepartedOK
<1>2. Cardinality(Iid) \in Nat
  BY FS_CardinalityType DEF RoomForAll
<1> DEFINE n == Len(departed)
           f == [k \in 1..(n + 1) |-> IF k = n + 1 THEN i ELSE departed[k]]
<1>3. n \in Nat /\ \A k \in 1..n : departed[k] \in Iid
  BY <1>1
<1>4. f \in [1..(n + 1) -> Iid]
  BY <1>3
<1>5. \A x, y \in 1..(n + 1) : f[x] = f[y] => x = y
  <2>1. \A k \in 1..n : departed[k] # i
    BY DEF Departed
  <2>2. \A x, y \in 1..n : departed[x] = departed[y] => x = y
    BY DEF Once
  <2> HIDE DEF n
  <2> QED
    BY <1>3, <2>1, <2>2
<1> HIDE DEF f, n
<1>6. IsFiniteSet(1..(n + 1)) /\ Cardinality(1..(n + 1)) = n + 1
  BY <1>3, FS_Interval
<1>7. ASSUME Cardinality(Iid) < n + 1 PROVE FALSE
  <2>1. PICK D : D = 1..(n + 1)
    OBVIOUS
  <2>2. IsFiniteSet(D) /\ Cardinality(Iid) < Cardinality(D) /\ f \in [D -> Iid] /\ IsFiniteSet(Iid)
    BY <1>4, <1>6, <1>7, <2>1 DEF RoomForAll
  <2>3. \E x, y \in D : x # y /\ f[x] = f[y]
    BY <2>2, FS_PigeonHole, Zenon
  <2> QED
    BY <1>5, <2>1, <2>3
<1> QED
  BY <1>1, <1>2, <1>3, <1>7 DEF RoomForAll, n

(* Steps by which nothing departs or comes back.                           *)
LEMMA StillTold ==
  ASSUME GInv, UNCHANGED <<departed, answered>>,
         \A i \in Iid : instances'[i] = None <=> instances[i] = None,
         \A d \in Decision : place'[d].pc \in ShownPC =>
           place[d].pc \in ShownPC /\ place'[d].id = place[d].id,
         \A d \in Decision : /\ place'[d].pc = "leased" <=> place[d].pc = "leased"
                             /\ place[d].pc = "leased" => place'[d].id = place[d].id,
         unloading' = unloading \/ (unloading' \in Iid /\ instances[unloading'] # None),
         IInv
  PROVE  GInv'
<1>0. unloading \in Iid \cup {None}
  BY DEF IInv, HostTypes, UnloadingOK
<1>1. Once' /\ Unanswered'
  BY DEF GInv, Once, Unanswered
<1>2. answered \subseteq Iid /\ departed \in Seq(Iid)
  BY DEF IInv, HostTypes, WorldOK, DepartedOK
<1>3. \A k \in 1..Len(departed) : departed[k] \in Iid
  BY <1>2
<1>4. Away'
  BY <1>3 DEF GInv, Away
<1>5. TakenOff' /\ ToldOrLeased'
  <2>1. \A i : (Departed(i)' <=> Departed(i)) /\ (Leased(i) => Leased(i)')
    BY DEF Departed, Leased
  <2> QED
    BY <1>2, <2>1 DEF GInv, TakenOff, ToldOrLeased
<1>6. UnloadListed'
  BY <1>0 DEF GInv, UnloadListed
<1> QED
  BY <1>1, <1>4, <1>5, <1>6 DEF GInv

LEMMA PlaceTells ==
  ASSUME OneAtATime, IInv, WInv, TInv, GInv, NEW d \in Decision, Place(d)
  PROVE  GInv'
<1>0. Active(d)
  BY DEF Place, PlaceRefuse, PlaceLoad, PlaceUnbind, PlaceLease, PlaceList, PlaceRecheck, PlaceSwept,
         PlaceStart, PlaceRollBack, PlaceRolledBack, PlaceUnlist, PlaceRecord, Active
<1>1. PICK i \in Iid : i = place[d].id
  BY <1>0, OwnFacts
<1>2. /\ \A c \in Decision : c # d /\ place[c].pc \in ShownPC => place[c].id # i
      /\ \A k \in 1..Len(departed) : departed[k] \in Iid
      /\ answered \subseteq Iid
  BY <1>0, <1>1, OwnFacts DEF Active, ShownPC, IInv, HostTypes, DepartedOK, WorldOK
<1>3. CASE \/ PlaceRefuse(d) \/ PlaceSwept(d) \/ PlaceStart(d) \/ PlaceRecheck(d)
           \/ PlaceLoad(d) \/ PlaceUnbind(d) \/ PlaceRollBack(d) \/ PlaceRolledBack(d)
  <2>1. UNCHANGED <<departed, answered, instances, unloading>>
    BY <1>3 DEF PlaceRefuse, PlaceSwept, PlaceStart, PlaceRecheck, PlaceLoad, PlaceUnbind, PlaceRollBack,
                PlaceRolledBack, ghosts
  <2>2. \A c \in Decision :
          /\ place'[c].pc \in ShownPC => place[c].pc \in ShownPC
          /\ place'[c].pc = "leased" <=> place[c].pc = "leased"
          /\ place'[c].id = place[c].id
    <3>1. CASE PlaceRefuse(d) \/ PlaceSwept(d) \/ PlaceStart(d) \/ PlaceRecheck(d)
      <4>1. Stands /\ (\E pc : Moves(d, pc)) /\ place[d].pc # "leased" /\ place'[d].pc # "leased"
        <5>1. place[d].pc \notin LoadingPC
          BY <3>1 DEF PlaceRefuse, PlaceSwept, PlaceStart, PlaceRecheck, LoadingPC
        <5>2. Stands /\ \E pc : Moves(d, pc)
          BY <3>1, PlaceStandsTidy
        <5> QED
          BY <5>1, <5>2 DEF Stands, LoadingPC
      <4> QED
        BY <4>1 DEF Stands, Moves
    <3>2. CASE PlaceLoad(d) \/ PlaceUnbind(d)
      <4>1. /\ \E pc \in {"loaded", "unbinding", "refused"} : Moves(d, pc)
            /\ place[d].pc # "leased"
        BY <3>2, HandlerMoves DEF PlaceLoad, PlaceUnbind
      <4> QED
        BY <4>1 DEF Moves, ShownPC
    <3>3. CASE PlaceRollBack(d) \/ PlaceRolledBack(d)
      <4>1. /\ place[d].pc \in {"undo", "undoing"}
            /\ \E pc \in {"undoing", "unlisting", "refused"} : Moves(d, pc)
        BY <3>3, HandlerMoves DEF PlaceRollBack, PlaceRolledBack
      <4> QED
        BY <4>1 DEF Moves, ShownPC
    <3> QED
      BY <1>3, <3>1, <3>2, <3>3
  <2> QED
    BY <2>1, <2>2, StillTold
<1>4. CASE PlaceUnlist(d)
  <2>1. /\ UNCHANGED <<departed, answered>> /\ place[d].pc = "unlisting" /\ Moves(d, "refused")
        /\ unloading' = None
    BY <1>4, HandlerMoves DEF PlaceUnlist, ghosts, LockFree
  <2>2. \A j \in Iid : instances'[j] = IF j = i THEN None ELSE instances[j]
    BY <1>1, <1>4 DEF PlaceUnlist, IInv, HostTypes, MapOK
  <2>3. i \notin answered
    BY <1>1, <2>1 DEF GInv, Unanswered, ShownPC
  <2>4. Once' /\ Unanswered' /\ UnloadListed'
    BY <2>1 DEF GInv, Once, Unanswered, UnloadListed, Moves, ShownPC
  <2>5. \A j : (Departed(j)' <=> Departed(j)) /\ (Leased(j)' <=> Leased(j))
    BY <2>1 DEF Departed, Leased, Moves
  <2>6. TakenOff'
    BY <2>1, <2>5 DEF GInv, TakenOff, Moves
  <2>7. Away' /\ ToldOrLeased'
    BY <1>2, <2>1, <2>2, <2>3, <2>5 DEF GInv, Away, ToldOrLeased
  <2> QED
    BY <2>4, <2>6, <2>7 DEF GInv
<1>5. CASE PlaceLease(d)
  <2>1. /\ departed' = Retain(departed, Iid \ {i}) /\ UNCHANGED <<answered, instances, unloading>>
        /\ Moves(d, "leased") /\ departed \in Seq(Iid) /\ place[d].pc = "loaded"
    BY <1>1, <1>5, HandlerMoves DEF PlaceLease, ghosts, IInv, HostTypes, DepartedOK
  <2>2. /\ Once'
        /\ \A k \in 1..Len(departed') : departed'[k] # i /\ \E j \in 1..Len(departed) : departed'[k] = departed[j]
        /\ \A k \in 1..Len(departed) : departed[k] # i => \E j \in 1..Len(departed') : departed'[j] = departed[k]
    <3>1. \A j, k \in 1..Len(departed) : departed[j] = departed[k] => j = k
      BY DEF GInv, Once
    <3>2. PICK t : t = Retain(departed, Iid \ {i})
      OBVIOUS
    <3>3. Without(t, departed, i)
      BY <2>1, <3>1, <3>2, RetainOnce
    <3> QED
      BY <2>1, <3>2, <3>3 DEF Once, Without
  <2>3. Away'
    <3>1. instances' = instances
      BY <2>1
    <3> QED
      BY <2>2, <3>1 DEF GInv, Away
  <2>4. Unanswered' /\ UnloadListed'
    BY <2>1 DEF GInv, Unanswered, UnloadListed, Moves, ShownPC
  <2>5. \A j : (Departed(j)' <=> j # i /\ Departed(j)) /\ (Leased(j)' <=> Leased(j) \/ j = i)
    <3>1. \A j : Departed(j)' <=> j # i /\ Departed(j)
      BY <2>2 DEF Departed
    <3>2. \A j : Leased(j)' <=> Leased(j) \/ j = i
      BY <1>1, <2>1 DEF Leased, Moves
    <3> QED
      BY <3>1, <3>2
  <2>6. TakenOff' /\ ToldOrLeased'
    BY <1>1, <2>1, <2>5 DEF GInv, TakenOff, ToldOrLeased, Moves
  <2> QED
    BY <2>2, <2>3, <2>4, <2>6 DEF GInv
<1>7. CASE PlaceList(d)
  <2>1. /\ answered' = answered \ {i} /\ place[d].pc = "leased"
        /\ Moves(d, "listed") /\ unloading' = None /\ UNCHANGED departed
    BY <1>1, <1>7, HandlerMoves DEF PlaceList, LockFree
  <2>2. \A j \in Iid : j # i => instances'[j] = instances[j]
    BY <1>1, <1>7, PlaceListed
  <2>3. Once' /\ UnloadListed'
    BY <2>1 DEF GInv, Once, UnloadListed
  <2>4. ~Departed(i)
    BY <1>1, <2>1 DEF GInv, TakenOff
  <2>5. Away'
    BY <1>2, <2>1, <2>2, <2>4 DEF GInv, Away, Departed
  <2>6. Unanswered'
    BY <1>1, <1>2, <2>1 DEF GInv, Unanswered, Moves
  <2>7. \A j : (Departed(j)' <=> Departed(j)) /\ (j # i => (Leased(j)' <=> Leased(j)))
    BY <1>1, <2>1 DEF Departed, Leased, Moves
  <2>8. TakenOff' /\ ToldOrLeased'
    BY <1>2, <2>1, <2>2, <2>7 DEF GInv, TakenOff, ToldOrLeased, Moves
  <2> QED
    BY <2>3, <2>5, <2>6, <2>8 DEF GInv
<1>6. CASE PlaceRecord(d)
  <2>1. UNCHANGED <<departed, instances, unloading>> /\ place[d].pc = "recording" /\ Moves(d, "done")
    BY <1>6, HandlerMoves DEF PlaceRecord
  <2>2. instances[i] # None
    BY <1>1, <2>1 DEF TInv, Shown, ShownPC
  <2>3. answered' = answered \cup {i}
    BY <1>1, <1>6, <2>2 DEF PlaceRecord
  <2>4. Once' /\ Away' /\ UnloadListed'
    BY <2>1 DEF GInv, Once, Away, UnloadListed
  <2>5. Unanswered'
    BY <1>2, <2>1, <2>3 DEF GInv, Unanswered, Moves, ShownPC
  <2>7. \A j : (Departed(j)' <=> Departed(j)) /\ (Leased(j)' <=> Leased(j))
    BY <2>1 DEF Departed, Leased, Moves
  <2>6. TakenOff' /\ ToldOrLeased'
    BY <2>1, <2>2, <2>3, <2>7 DEF GInv, TakenOff, ToldOrLeased, Moves
  <2> QED
    BY <2>4, <2>5, <2>6 DEF GInv
<1> QED
  BY <1>3, <1>4, <1>5, <1>6, <1>7 DEF Place

LEMMA UnloadTells ==
  ASSUME OneAtATime, RoomForAll, IInv, WInv, TInv, GInv, UnloadEnd
  PROVE  GInv'
<1>0. PICK i \in Iid : i = unloading
  BY DEF UnloadEnd, IInv, HostTypes, UnloadingOK
<1>1. /\ NoteDeparted(i) /\ instances' = [instances EXCEPT ![i] = None]
      /\ UNCHANGED <<place, answered>> /\ unloading' = None /\ i # None
  BY <1>0 DEF UnloadEnd, RemoveDir, OneAtATime, ghosts
<1>2. \A j \in Iid : instances'[j] = IF j = i THEN None ELSE instances[j]
  BY <1>1 DEF IInv, HostTypes, MapOK
<1>3. /\ departed \in Seq(Iid) /\ answered \subseteq Iid
      /\ Len(departed) \in Nat /\ \A k \in 1..Len(departed) : departed[k] \in Iid
  BY DEF IInv, HostTypes, DepartedOK, WorldOK
<1>4. CASE Departed(i)
  <2>1. PICK k \in 1..Len(departed) : departed[k] = i
    BY <1>4 DEF Departed
  <2>2. instances[i] = None
    BY <2>1 DEF GInv, Away
  <2> QED
    BY <1>0, <1>1, <2>2 DEF GInv, UnloadListed
<1>5. CASE ~Departed(i)
  <2>1. Len(departed) < DepartedCap
    BY <1>5, RoomOnList DEF GInv
  <2>2. departed' = Append(departed, i)
    BY <1>1, <1>3, <2>1, WorkloadHostAssumption DEF NoteDeparted
  <2>3. /\ Len(departed') = Len(departed) + 1 /\ departed'[Len(departed) + 1] = i
        /\ \A k \in 1..Len(departed) : departed'[k] = departed[k]
    BY <1>3, <2>2
  <2>4. \A k \in 1..Len(departed') : k = Len(departed) + 1 \/ k \in 1..Len(departed)
    BY <1>3, <2>3
  <2>5. \A k \in 1..Len(departed) : departed[k] # i
    BY <1>5 DEF Departed
  <2>6. Once'
    BY <1>3, <2>3, <2>4, <2>5 DEF GInv, Once
  <2>7. Away'
    BY <1>2, <1>3, <2>3, <2>4 DEF GInv, Away
  <2>8. Unanswered' /\ UnloadListed'
    BY <1>1 DEF GInv, Unanswered, UnloadListed
  <2>9. TakenOff' /\ ToldOrLeased'
    <3>1. \A k \in 1..Len(departed) : k \in 1..Len(departed')
      BY <1>3, <2>3
    <3>2. Len(departed) + 1 \in 1..Len(departed')
      BY <1>3, <2>3
    <3>3. \A j : Departed(j)' <=> Departed(j) \/ j = i
      BY <2>3, <2>4, <3>1, <3>2 DEF Departed
    <3>4. ~Leased(i)
      <4>1. \A d \in Decision : place[d].pc = "leased" => Active(d)
        BY DEF Active
      <4> QED
        BY <1>0, <4>1 DEF Leased, WInv, Alone
    <3>5. \A j : Leased(j)' <=> Leased(j)
      BY <1>1 DEF Leased
    <3> QED
      BY <1>1, <1>2, <1>3, <3>3, <3>4, <3>5 DEF GInv, TakenOff, ToldOrLeased, Leased
  <2> QED
    BY <2>6, <2>7, <2>8, <2>9 DEF GInv
<1> QED
  BY <1>4, <1>5

LEMMA HostTells ==
  ASSUME OneAtATime, RoomForAll, IInv, WInv, TInv, GInv, [Next]_vars
  PROVE  GInv'
<1>1. ASSUME NEW d \in Decision, NEW i \in Iid, NEW start, place[d].pc = "idle", Entered(d, i, start),
             UNCHANGED <<instances, departed, answered, unloading>>
      PROVE  GInv'
  <2>1. /\ \A c \in Decision : c # d => place'[c] = place[c]
        /\ place'[d].pc = "fetching"
    BY <1>1 DEF Entered, IInv, HostTypes, PlaceOK
  <2> QED
    BY <1>1, <2>1, StillTold DEF ShownPC
<1>2. ASSUME NEW d \in Decision, NEW i \in Iid, NEW s \in BOOLEAN, PlaceEnter(d, i, s)
      PROVE  GInv'
  BY <1>1, <1>2 DEF PlaceEnter, IInv, SentHandled, ghosts
<1>3. ASSUME NEW d \in Decision, Place(d) PROVE GInv'
  BY <1>3, PlaceTells
<1>4. ASSUME Calm, UNCHANGED departed PROVE GInv'
  BY <1>4, StillTold DEF Calm
<1>5. ASSUME NEW i \in Iid, Start(i) \/ Stop(i) PROVE GInv'
  BY <1>4, <1>5, VerbsCalm DEF Start, Stop
<1>6. CASE Supervise
  <2>1. UNCHANGED departed
    BY <1>6 DEF Supervise, SupLease, SupLeaseMark, SupPick, SupApply, SupFailedStop, SupRestartStop,
                SupRestartStart, SupRestartMark, SupLeaseStop, SupPoll, SupStep
  <2> QED
    BY <1>4, <1>6, <2>1, SuperviseCalm
<1>7. CASE (\E i \in Iid : BusBegin(i)) \/ BusStop \/ BusMark
  BY <1>4, <1>7, BusCalm DEF BusBegin, BusStop, BusMark, BusStep
<1>8. CASE StatusBegin \/ StatusEnd \/ Silence \/ JournalAppend \/ \E i \in Iid : Exit(i)
  BY <1>4, <1>8, OthersCalm DEF StatusBegin, StatusEnd, Silence, JournalAppend, Exit, Quiet, host
<1>9. CASE UnloadEnd
  BY <1>9, UnloadTells
<1>10. CASE \/ SweepBegin \/ (\E e \in Enforcer : Enforce(e))
            \/ (\E i \in Iid : ListChange(i) \/ UnloadBegin(i)) \/ ListBump \/ UNCHANGED vars
  <2>1. UNCHANGED <<instances, departed, place, answered>>
    BY <1>10, NothingPicked
       DEF SweepBegin, Enforce, TeardownEnd, Forget, NoteForgotten, Teardown, EnforceEnd, EnfStep, ListChange, UnloadBegin,
           ListBump, vars, host, tasks, ghosts
  <2>2. unloading' = unloading \/ (unloading' \in Iid /\ instances[unloading'] # None)
    BY <1>10 DEF SweepBegin, Enforce, TeardownEnd, Forget, NoteForgotten, Teardown, EnforceEnd, EnfStep, ListChange,
                 UnloadBegin, Requested, ListBump, vars, tasks
  <2> QED
    BY <2>1, <2>2, StillTold
<1>11. CASE HostBoots
  <2>1. CASE RestorePlace
    <3>1. PICK d \in Decision, i \in Iid : d = cur.entry.decision /\ i = cur.id
      BY <2>1 DEF RestorePlace, IInv, JournalInv, JournalTypeOK, Restoring, Entry
    <3> QED
      BY <1>1, <2>1, <3>1 DEF RestorePlace, ghosts
  <2>2. CASE Quiet
    <3>1. UNCHANGED <<instances, departed, place, answered, unloading>>
      BY <2>2 DEF Quiet, host, tasks, ghosts
    <3> QED
      BY <3>1, StillTold
  <2> QED
    BY <1>11, <2>1, <2>2 DEF HostBoots
<1>12. CASE HostStops
  <2>1. departed' = <<>> /\ answered' = {} /\ place' = [d \in Decision |-> PlaceIdle] /\ unloading' = None
    BY <1>12 DEF HostStops, HostGone
  <2> QED
    BY <2>1 DEF GInv, Once, Away, Unanswered, UnloadListed, TakenOff, ToldOrLeased, PlaceIdle, ShownPC
<1> QED
  BY <1>2, <1>3, <1>5, <1>6, <1>7, <1>8, <1>9, <1>10, <1>11, <1>12 DEF Next

(* host_service.rs, note_departed: an instance this node answered for and  *)
(* no longer lists is reported as departed until a new placement of it     *)
(* takes it off the list to list it again, if the list has room for every  *)
(* instance of the host.                                                   *)
THEOREM DeparturesAreTold == NoneRevoked /\ RoomForAll => (Spec => []GoneIsTold)
<1> SUFFICES ASSUME NoneRevoked, RoomForAll PROVE Spec => []GoneIsTold
  OBVIOUS
<1>0. OneAtATime
  BY DEF NoneRevoked
<1>1. Init => GInv
  BY DEF Init, GInv, Once, Away, Unanswered, UnloadListed, TakenOff, ToldOrLeased, PlaceIdle, ShownPC
<1>2. IInv /\ WInv /\ TInv /\ GInv /\ [Next]_vars => GInv'
  BY <1>0, HostTells
<1>3. GInv => GoneIsTold
  BY DEF GInv, ToldOrLeased, Departed, Leased, GoneIsTold
<1> QED
  BY <1>0, <1>1, <1>2, <1>3, HostInvariance, WholeInvariance, TidyInvariance, PTL DEF Spec

-----------------------------------------------------------------------------
(* The host implements HostView.  Nothing but the host writes its file:    *)
(* FileEvent is no step of the host.                                       *)
LEMMA NoFileEvents == ASSUME [Next]_vars PROVE UNCHANGED fileEvents
<1>1. ASSUME NEW d \in Decision, NEW i \in Iid, NEW s \in BOOLEAN, PlaceEnter(d, i, s)
      PROVE  UNCHANGED fileEvents
  BY <1>1 DEF PlaceEnter, journal, bounds
<1>2. ASSUME NEW d \in Decision, Place(d) PROVE UNCHANGED fileEvents
  BY <1>2 DEF Place, PlaceRefuse, PlaceLoad, PlaceUnbind, PlaceLease, PlaceList, PlaceRecheck, PlaceSwept,
              PlaceStart, PlaceRollBack, PlaceRolledBack, PlaceUnlist, PlaceRecord, journal, bounds
<1>3. ASSUME NEW i \in Iid, Start(i) \/ Stop(i) \/ UnloadBegin(i) PROVE UNCHANGED fileEvents
  BY <1>3 DEF Start, Stop, UnloadBegin, Untouched, journal, bounds
<1>4. CASE UnloadEnd \/ SweepBegin \/ \E e \in Enforcer : Enforce(e)
  BY <1>4 DEF UnloadEnd, SweepBegin, Enforce, TeardownEnd, Forget, NoteForgotten, Teardown, EnforceEnd, Untouched,
              journal, bounds
<1>5. CASE Supervise
  BY <1>5 DEF Supervise, SupLease, SupLeaseMark, SupPick, SupApply, SupFailedStop, SupRestartStop,
              SupRestartStart, SupRestartMark, SupLeaseStop, SupPoll, SupStep, journal, bounds
<1>6. CASE BusStop \/ BusMark \/ \E i \in Iid : BusBegin(i)
  BY <1>6 DEF BusStop, BusMark, BusBegin, journal, bounds
<1>7. CASE StatusBegin \/ StatusEnd \/ Silence \/ ListBump \/ \E i \in Iid : Exit(i) \/ ListChange(i)
  BY <1>7 DEF StatusBegin, StatusEnd, Silence, ListBump, Exit, ListChange, journal, bounds
<1>8. CASE JournalAppend \/ HostBoots \/ HostStops
  BY <1>8 DEF JournalAppend, AppendChain, HostBoots, RestorePlace, Boot, RestoreDone, RestoreTake,
              HostStops, Crash, CleanShutdown, DaemonGone, journal, bounds
<1>9. CASE UNCHANGED vars
  BY <1>9 DEF vars, journal, bounds
<1> QED
  BY <1>1, <1>2, <1>3, <1>4, <1>5, <1>6, <1>7, <1>8, <1>9 DEF Next

(* A listed instance is its decision's: that of the placement at work on   *)
(* it, or of one that is done.                                             *)
Mine ==
  /\ \A i \in Iid : instances[i] # None =>
       \E d \in Decision : /\ d = instances[i].decision /\ place[d].id = i
                           /\ place[d].pc \in ShownPC \cup {"done"}
  /\ \A d \in Decision : place[d].pc \in ShownPC => instances[place[d].id].decision = d

(* Steps by which nothing is listed anew and no handler passes its listing *)
(* or its end.                                                             *)
LEMMA MineKeeps ==
  ASSUME IInv, TInv, Mine,
         \A i \in Iid : instances'[i] # None =>
           instances[i] # None /\ instances'[i].decision = instances[i].decision,
         \A d \in Decision :
           /\ place[d].pc \in ShownPC \cup {"done"} =>
                \/ place'[d].id = place[d].id /\ place'[d].pc \in ShownPC \cup {"done"}
                \/ instances'[place[d].id] = None
           /\ place'[d].pc \in ShownPC => /\ place[d].pc \in ShownPC /\ place'[d].id = place[d].id
                                          /\ instances'[place[d].id] # None
  PROVE  Mine'
<1>1. \A d \in Decision : place[d].pc \in ShownPC => place[d].id \in Iid
  BY HandlerMoves DEF Active, ShownPC
<1>2. ASSUME NEW i \in Iid, instances'[i] # None
      PROVE  \E d \in Decision : /\ d = instances'[i].decision /\ place'[d].id = i
                                 /\ place'[d].pc \in ShownPC \cup {"done"}
  <2>1. instances[i] # None /\ instances'[i].decision = instances[i].decision
    BY <1>2
  <2>2. PICK d \in Decision : /\ d = instances[i].decision /\ place[d].id = i
                              /\ place[d].pc \in ShownPC \cup {"done"}
    BY <2>1 DEF Mine
  <2>3. place'[d].id = i /\ place'[d].pc \in ShownPC \cup {"done"}
    BY <1>2, <2>2
  <2> QED
    BY <2>1, <2>2, <2>3
<1>3. ASSUME NEW d \in Decision, place'[d].pc \in ShownPC
      PROVE  instances'[place'[d].id].decision = d
  <2>1. place[d].pc \in ShownPC /\ place'[d].id = place[d].id /\ instances'[place[d].id] # None
    BY <1>3
  <2>2. place[d].id \in Iid /\ instances[place[d].id].decision = d
    BY <1>1, <2>1 DEF Mine
  <2> QED
    BY <2>1, <2>2
<1> QED
  BY <1>2, <1>3 DEF Mine

(* The steps of a placement that show nothing, and those that refuse it    *)
(* before it is listed.                                                    *)
Unseen(d) ==
  /\ \E pc : Moves(d, pc) /\ pc # "done" /\ (pc \in ShownPC <=> place[d].pc \in ShownPC)
  /\ UNCHANGED <<instances, departed, inFlight, journal>>
Refused(d) ==
  /\ place[d].pc \in {"fetching", "loaded", "unbinding"} /\ Moves(d, "refused")
  /\ inFlight' = inFlight \ {d}
  /\ UNCHANGED <<instances, departed, journal>>

LEMMA PlaceForms ==
  ASSUME OneAtATime, IInv, WInv, TInv, NEW d \in Decision, Place(d)
  PROVE  /\ Active(d)
         /\ Unseen(d) \/ Refused(d) \/ PlaceLease(d) \/ PlaceList(d) \/ PlaceUnlist(d) \/ PlaceRecord(d)
<1>0. Active(d)
  BY DEF Place, PlaceRefuse, PlaceLoad, PlaceUnbind, PlaceLease, PlaceList, PlaceRecheck, PlaceSwept,
         PlaceStart, PlaceRollBack, PlaceRolledBack, PlaceUnlist, PlaceRecord, Active
<1>1. CASE PlaceRefuse(d)
  <2>1. place[d].pc = "fetching" /\ Moves(d, "refused")
    BY <1>1, HandlerMoves DEF PlaceRefuse
  <2>2. inFlight' = inFlight \ {d}
    BY <1>1 DEF PlaceRefuse, Refuse
  <2> QED
    BY <1>0, <1>1, <2>1, <2>2 DEF PlaceRefuse, Refused
<1>2. CASE PlaceLoad(d)
  <2>1. place[d].pc = "fetching" /\ Moves(d, "loaded")
    BY <1>2, HandlerMoves DEF PlaceLoad
  <2> QED
    BY <1>0, <1>2, <2>1 DEF PlaceLoad, Unseen, ShownPC
<1>3. CASE PlaceUnbind(d)
  <2>1. CASE place[d].pc = "unbinding"
    <3>1. Moves(d, "refused")
      BY <1>3, <2>1, HandlerMoves DEF PlaceUnbind
    <3>2. inFlight' = inFlight \ {d}
      BY <1>3, <2>1 DEF PlaceUnbind, Refuse
    <3> QED
      BY <1>0, <1>3, <2>1, <3>1, <3>2 DEF PlaceUnbind, Refused
  <2>2. CASE place[d].pc = "loaded"
    <3>1. CanUnload(place[d].id)
      BY <2>2 DEF CanUnload, WInv, OwnOK, Own
    <3>2. Moves(d, "unbinding") /\ UNCHANGED inFlight
      BY <1>3, <2>2, <3>1, HandlerMoves DEF PlaceUnbind, UnloadFails, OneAtATime
    <3> QED
      BY <1>0, <1>3, <2>2, <3>2 DEF PlaceUnbind, Unseen, ShownPC
  <2> QED
    BY <1>3, <2>1, <2>2 DEF PlaceUnbind
<1>4. CASE PlaceRecheck(d)
  <2>1. place[d].pc = "listed" /\ (Moves(d, "sweeping") \/ Moves(d, "starting"))
    BY <1>4, HandlerMoves DEF PlaceRecheck
  <2> QED
    BY <1>0, <1>4, <2>1 DEF PlaceRecheck, Unseen, ShownPC
<1>5. CASE PlaceSwept(d)
  <2>1. place[d].pc = "sweeping" /\ instances[place[d].id] # None
    BY <1>5 DEF PlaceSwept, TInv, Shown, ShownPC
  <2>2. Moves(d, "starting")
    BY <1>5, <2>1, HandlerMoves DEF PlaceSwept
  <2> QED
    BY <1>0, <1>5, <2>1, <2>2 DEF PlaceSwept, Unseen, ShownPC
<1>6. CASE PlaceStart(d)
  <2>1. place \in [Decision -> PlaceType]
    BY DEF IInv, HostTypes, PlaceOK
  <2>2. ASSUME NEW pc, NEW b, place' = [place EXCEPT ![d].pc = pc, ![d].permanent = b]
        PROVE  Moves(d, pc)
    BY <2>1, <2>2 DEF Moves, PlaceType
  <2>3. \E pc \in {"recording", "undo"} : Moves(d, pc)
    BY <1>6, <2>2, HandlerMoves DEF PlaceStart
  <2> QED
    BY <1>0, <1>6, <2>3 DEF PlaceStart, Unseen, ShownPC
<1>7. CASE PlaceRollBack(d)
  <2>1. place[d].pc = "undo" /\ Moves(d, "undoing") /\ UNCHANGED inFlight
    BY <1>7, RolledBack DEF PlaceRollBack
  <2> QED
    BY <1>0, <1>7, <2>1 DEF PlaceRollBack, Unseen, ShownPC
<1>8. CASE PlaceRolledBack(d)
  <2>1. place[d].pc = "undoing" /\ Moves(d, "unlisting") /\ UNCHANGED inFlight
    BY <1>8, HandlerMoves DEF PlaceRolledBack, RemoveDir, OneAtATime
  <2> QED
    BY <1>0, <1>8, <2>1 DEF PlaceRolledBack, Unseen, ShownPC
<1> QED
  BY <1>0, <1>1, <1>2, <1>3, <1>4, <1>5, <1>6, <1>7, <1>8 DEF Place

LEMMA PlaceMine ==
  ASSUME OneAtATime, IInv, WInv, TInv, Mine, NEW d \in Decision, Place(d)
  PROVE  Mine'
<1>0. Active(d) /\ place[d].pc # "done"
  BY PlaceForms DEF Active
<1>1. PICK i \in Iid : i = place[d].id
  BY <1>0, OwnFacts
<1>2. \A c \in Decision : place[c].pc \in ShownPC => instances[place[c].id] # None
  BY DEF TInv, Shown
<1>3. CASE Unseen(d)
  <2>1. PICK pc : Moves(d, pc) /\ pc # "done" /\ (pc \in ShownPC <=> place[d].pc \in ShownPC)
    BY <1>3 DEF Unseen
  <2>2. instances' = instances
    BY <1>3 DEF Unseen
  <2> QED
    BY <1>0, <1>2, <2>1, <2>2, MineKeeps DEF Moves
<1>4. CASE Refused(d)
  BY <1>0, <1>2, <1>4, MineKeeps DEF Refused, Moves, ShownPC
<1>8. CASE PlaceLease(d)
  <2>1. Moves(d, "leased") /\ instances' = instances /\ place[d].pc = "loaded"
    BY <1>8, HandlerMoves DEF PlaceLease
  <2> QED
    BY <1>0, <1>2, <2>1, MineKeeps DEF Moves, ShownPC
<1>5. CASE PlaceUnlist(d)
  <2>1. place[d].pc = "unlisting" /\ Moves(d, "refused")
    BY <1>5, HandlerMoves DEF PlaceUnlist
  <2>2. \A j \in Iid : instances'[j] = IF j = i THEN None ELSE instances[j]
    BY <1>1, <1>5 DEF PlaceUnlist, IInv, HostTypes, MapOK
  <2>3. \A c \in Decision : c # d /\ place[c].pc \in ShownPC => place[c].id \in Iid /\ place[c].id # i
    BY <1>0, <1>1, OwnFacts DEF Active, ShownPC
  <2> QED
    BY <1>1, <1>2, <2>1, <2>2, <2>3, MineKeeps DEF Moves, ShownPC
<1>6. CASE PlaceRecord(d)
  <2>1. Moves(d, "done") /\ instances' = instances
    BY <1>6, HandlerMoves DEF PlaceRecord
  <2> QED
    BY <1>2, <2>1, MineKeeps DEF Moves, ShownPC
<1>7. CASE PlaceList(d)
  <2>1. Moves(d, "listed") /\ place[d].pc = "leased"
    BY <1>7, HandlerMoves DEF PlaceList
  <2>2. /\ instances'[i].decision = d
        /\ \A j \in Iid : j # i => instances'[j] = instances[j]
    BY <1>1, <1>7, PlaceListed
  <2>3. \A c \in Decision : c # d /\ place[c].pc \in ShownPC => place[c].id \in Iid /\ place[c].id # i
    BY <1>0, <1>1, OwnFacts DEF Active, ShownPC
  <2>4. ASSUME NEW j \in Iid, instances'[j] # None
        PROVE  \E c \in Decision : /\ c = instances'[j].decision /\ place'[c].id = j
                                   /\ place'[c].pc \in ShownPC \cup {"done"}
    <3>1. CASE j = i
      BY <1>1, <2>1, <2>2, <3>1 DEF Moves, ShownPC
    <3>2. CASE j # i
      <4>1. PICK c \in Decision : /\ c = instances[j].decision /\ place[c].id = j
                                  /\ place[c].pc \in ShownPC \cup {"done"}
        BY <2>2, <2>4, <3>2 DEF Mine
      <4> QED
        BY <1>1, <2>1, <2>2, <3>2, <4>1 DEF Moves, ShownPC
    <3> QED
      BY <3>1, <3>2
  <2>5. ASSUME NEW c \in Decision, place'[c].pc \in ShownPC
        PROVE  instances'[place'[c].id].decision = c
    BY <1>1, <2>1, <2>2, <2>3, <2>5 DEF Mine, Moves
  <2> QED
    BY <2>4, <2>5 DEF Mine
<1> QED
  BY <1>3, <1>4, <1>5, <1>6, <1>7, <1>8, PlaceForms

LEMMA HostMine ==
  ASSUME OneAtATime, IInv, WInv, TInv, Mine, TInv', [Next]_vars
  PROVE  Mine'
<1>0. \A d \in Decision : /\ place[d].pc \in ShownPC => instances[place[d].id] # None
                          /\ place'[d].pc \in ShownPC => instances'[place'[d].id] # None
  BY DEF TInv, Shown
<1>1. ASSUME NEW d \in Decision, NEW i \in Iid, NEW start, place[d].pc = "idle", Entered(d, i, start),
             UNCHANGED instances
      PROVE  Mine'
  <2>1. /\ \A c \in Decision : c # d => place'[c] = place[c]
        /\ place'[d].pc = "fetching"
    BY <1>1 DEF Entered, IInv, HostTypes, PlaceOK
  <2> QED
    BY <1>0, <1>1, <2>1, MineKeeps DEF ShownPC
<1>2. ASSUME UNCHANGED place,
             \A i \in Iid : instances'[i] # None =>
               instances[i] # None /\ instances'[i].decision = instances[i].decision
      PROVE  Mine'
  BY <1>0, <1>2, MineKeeps
<1>3. ASSUME NEW d \in Decision, NEW i \in Iid, NEW s \in BOOLEAN, PlaceEnter(d, i, s)
      PROVE  Mine'
  BY <1>1, <1>3 DEF PlaceEnter, IInv, SentHandled
<1>4. ASSUME NEW d \in Decision, Place(d) PROVE Mine'
  BY <1>4, PlaceMine
<1>5. ASSUME Calm, Steady PROVE Mine'
  BY <1>2, <1>5 DEF Calm, Steady
<1>6. ASSUME NEW i \in Iid, Start(i) \/ Stop(i) PROVE Mine'
  <2>1. Calm
    BY <1>6, VerbsCalm
  <2>2. \A j \in Iid : instances[j] # None => instances'[j].decision = instances[j].decision
    BY <1>6, StartStep, StopStep DEF Steady
  <2> QED
    BY <1>2, <2>1, <2>2 DEF Calm
<1>7. CASE Supervise
  BY <1>5, <1>7, SuperviseCalm, SuperviseKeeps
<1>8. CASE (\E i \in Iid : BusBegin(i)) \/ BusStop \/ BusMark
  BY <1>2, <1>5, <1>8, BusCalm, BusBeginStep, BusMarkStep DEF BusStop, BusStep
<1>9. CASE UnloadEnd
  <2>0. PICK i \in Iid : i = unloading
    BY <1>9 DEF UnloadEnd, IInv, HostTypes, UnloadingOK
  <2>1. instances' = [instances EXCEPT ![i] = None] /\ UNCHANGED place
    BY <1>9, <2>0 DEF UnloadEnd, RemoveDir, OneAtATime
  <2>2. \A j \in Iid : instances'[j] = IF j = i THEN None ELSE instances[j]
    BY <2>1 DEF IInv, HostTypes, MapOK
  <2> QED
    BY <1>2, <2>1, <2>2
<1>10. CASE \/ StatusBegin \/ StatusEnd \/ Silence \/ JournalAppend \/ ListBump \/ SweepBegin
            \/ (\E e \in Enforcer : Enforce(e))
            \/ (\E i \in Iid : Exit(i) \/ ListChange(i) \/ UnloadBegin(i)) \/ UNCHANGED vars
  <2>1. UNCHANGED <<instances, place>>
    BY <1>10, NothingPicked
       DEF StatusBegin, StatusEnd, Silence, JournalAppend, Quiet, ListBump, SweepBegin, Enforce,
           TeardownEnd, Forget, NoteForgotten, Teardown, EnforceEnd, EnfStep, Exit, ListChange, UnloadBegin, vars, host,
           tasks
  <2> QED
    BY <1>2, <2>1
<1>11. CASE HostBoots
  <2>1. CASE RestorePlace
    <3>1. PICK d \in Decision, i \in Iid : d = cur.entry.decision /\ i = cur.id
      BY <2>1 DEF RestorePlace, IInv, JournalInv, JournalTypeOK, Restoring, Entry
    <3> QED
      BY <1>1, <2>1, <3>1 DEF RestorePlace
  <2>2. CASE Quiet
    BY <1>2, <2>2 DEF Quiet, host, tasks
  <2> QED
    BY <1>11, <2>1, <2>2 DEF HostBoots
<1>12. CASE HostStops
  <2>1. place' = [d \in Decision |-> PlaceIdle] /\ instances' = [i \in Iid |-> None]
    BY <1>12 DEF HostStops, HostGone
  <2> QED
    BY <2>1 DEF Mine, PlaceIdle, ShownPC
<1> QED
  BY <1>3, <1>4, <1>6, <1>7, <1>8, <1>9, <1>10, <1>11, <1>12 DEF Next

-----------------------------------------------------------------------------
(* What the view is made of.                                               *)
Holding == [i \in Iid |-> DecisionOf(instances[i])]
Keeping == [i \in Iid |-> DecisionOf(IF phase = "down" THEN ReadEntries[i] ELSE entries[i])]
Telling == {departed[k] : k \in 1..Len(departed)}

(* The abstract node's steps, in terms of these.                           *)
LEMMA ViewStutters ==
  ASSUME UNCHANGED inFlight, phase' = "serving" <=> phase = "serving",
         Holding' = Holding, Keeping' = Keeping, Telling' = Telling
  PROVE  UNCHANGED View!view
<1>1. (phase' = "serving") = (phase = "serving")
  OBVIOUS
<1> QED
  BY <1>1 DEF View!view, Holding, Keeping, Telling

LEMMA ViewBegins ==
  ASSUME NEW d \in Decision, d \notin inFlight, inFlight' = inFlight \cup {d},
         phase = "serving" \/ \E i \in Iid : Keeping[i] = d,
         phase' = phase, Holding' = Holding, Keeping' = Keeping, Telling' = Telling
  PROVE  View!Next
<1>1. View!Begin(d)
  BY DEF View!Begin, Holding, Keeping, Telling
<1> QED
  BY <1>1 DEF View!Next

LEMMA ViewReclaims ==
  ASSUME NEW d \in Decision, NEW i \in Iid, d \in inFlight, Holding[i] = None,
         Telling' = Telling \ {i}, Holding' = Holding,
         UNCHANGED <<inFlight, phase>>, Keeping' = Keeping
  PROVE  View!Next
<1>1. View!Reclaim(d, i)
  BY DEF View!Reclaim, Holding, Keeping, Telling
<1> QED
  BY <1>1 DEF View!Next

LEMMA ViewTakes ==
  ASSUME NEW d \in Decision, NEW i \in Iid, d \in inFlight, Holding[i] = None,
         i \notin Telling,
         \A j \in Iid : Holding'[j] = IF j = i THEN d ELSE Holding[j],
         UNCHANGED <<inFlight, phase>>, Keeping' = Keeping, Telling' = Telling
  PROVE  View!Next
<1>1. Holding' = [Holding EXCEPT ![i] = d]
  BY DEF Holding
<1>2. View!Take(d, i)
  BY <1>1 DEF View!Take, Holding, Keeping, Telling
<1> QED
  BY <1>2 DEF View!Next

LEMMA ViewAnswers ==
  ASSUME NEW d \in Decision, NEW i \in Iid, d \in inFlight, Holding[i] = d,
         inFlight' = inFlight \ {d},
         \A j \in Iid : Keeping'[j] = IF j = i THEN d ELSE Keeping[j],
         phase' = phase, Holding' = Holding, Telling' = Telling
  PROVE  View!Next
<1>1. Keeping' = [Keeping EXCEPT ![i] = d]
  BY DEF Keeping
<1>2. View!Answer(d, i)
  BY <1>1 DEF View!Answer, Holding, Keeping, Telling
<1> QED
  BY <1>2 DEF View!Next

LEMMA ViewRefuses ==
  ASSUME NEW d \in Decision, d \in inFlight, inFlight' = inFlight \ {d},
         \A j \in Iid : Holding'[j] = IF Holding[j] = d THEN None ELSE Holding[j],
         phase' = phase, Keeping' = Keeping, Telling' = Telling
  PROVE  View!Next
<1>1. Holding' = [j \in Iid |-> IF Holding[j] = d THEN None ELSE Holding[j]]
  BY DEF Holding
<1>2. View!Refuse(d)
  BY <1>1 DEF View!Refuse, Holding, Keeping, Telling
<1> QED
  BY <1>2 DEF View!Next

LEMMA ViewLeaves ==
  ASSUME NEW i \in Iid, Holding[i] # None,
         \A j \in Iid : /\ Holding'[j] = IF j = i THEN None ELSE Holding[j]
                        /\ Keeping'[j] = IF j = i THEN None ELSE Keeping[j],
         Telling' = Telling \cup {i},
         UNCHANGED <<inFlight, phase>>
  PROVE  View!Next
<1>1. Holding' = [Holding EXCEPT ![i] = None]
  BY DEF Holding
<1>2. Keeping' = [Keeping EXCEPT ![i] = None]
  BY DEF Keeping
<1>3. View!Leave(i)
  BY <1>1, <1>2 DEF View!Leave, Holding, Keeping, Telling
<1> QED
  BY <1>3 DEF View!Next

LEMMA ViewStops ==
  ASSUME phase' # "serving", inFlight' = {}, Telling' = {},
         \A j \in Iid : Holding'[j] = None,
         Keeping' = Keeping
  PROVE  View!Next
<1>1. Holding' = [i \in Iid |-> None]
  BY DEF Holding
<1>2. (phase' = "serving") = FALSE
  OBVIOUS
<1>3. View!Stop
  BY <1>1, <1>2 DEF View!Stop, View!Nothing, Holding, Keeping, Telling
<1> QED
  BY <1>3 DEF View!Next

LEMMA ViewGivesUp ==
  ASSUME NEW i \in Iid, phase # "serving", Holding[i] = None,
         \A j \in Iid : Keeping'[j] = IF j = i THEN None ELSE Keeping[j],
         UNCHANGED <<inFlight, phase>>, Holding' = Holding, Telling' = Telling
  PROVE  View!Next
<1>1. Keeping' = [Keeping EXCEPT ![i] = None]
  BY DEF Keeping
<1>2. View!GiveUp(i)
  BY <1>1 DEF View!GiveUp, Holding, Keeping, Telling
<1> QED
  BY <1>2 DEF View!Next

LEMMA ViewServes ==
  ASSUME phase # "serving", phase' = "serving", inFlight = {}, UNCHANGED inFlight,
         Holding' = Holding, Keeping' = Keeping, Telling' = Telling
  PROVE  View!Next
<1>1. (phase' = "serving") = TRUE
  OBVIOUS
<1>2. View!Serve
  BY <1>1 DEF View!Serve, Holding, Keeping, Telling
<1> QED
  BY <1>2 DEF View!Next

-----------------------------------------------------------------------------
(* When the parts of the view stay as they are.                            *)
LEMMA SameHolding ==
  ASSUME \A i \in Iid : /\ instances'[i] = None <=> instances[i] = None
                        /\ instances[i] # None => instances'[i].decision = instances[i].decision
  PROVE  Holding' = Holding
<1>1. \A i \in Iid : DecisionOf(instances'[i]) = DecisionOf(instances[i])
  BY DEF DecisionOf
<1> QED
  BY <1>1 DEF Holding

LEMMA SameKeeping ==
  ASSUME phase # "down", phase' # "down",
         \A i \in Iid : DecisionOf(entries'[i]) = DecisionOf(entries[i])
  PROVE  Keeping' = Keeping
BY DEF Keeping

LEMMA SameJournal ==
  ASSUME UNCHANGED journal
  PROVE  Keeping' = Keeping /\ phase' = phase
<1>1. UNCHANGED <<phase, entries, file>>
  BY DEF journal, memory, disk
<1> QED
  BY <1>1 DEF Keeping, ReadEntries

(* A change of intent or of the failures keeps the decisions.              *)
LEMMA DecisionsKept ==
  ASSUME JournalInv, NEW i \in Iid,
         \/ \E s \in BOOLEAN : set_desired(i, s)
         \/ \E n \in 0..(MaxRestoreTries - 1) : set_failures(i, n)
         \/ NoSave
  PROVE  \A j \in Iid : DecisionOf(entries'[j]) = DecisionOf(entries[j])
<1>1. entries \in [Iid -> Entry \cup {None}] /\ \A e \in Entry : e # None
  BY HostJournalAssumption DEF JournalInv, JournalTypeOK, EntryMap
<1>2. CASE NoSave
  BY <1>2 DEF NoSave
<1>3. ASSUME NEW s \in BOOLEAN, set_desired(i, s), ~NoSave
      PROVE  \A j \in Iid : DecisionOf(entries'[j]) = DecisionOf(entries[j])
  <2>1. entries[i] \in Entry /\ entries' = [entries EXCEPT ![i].desired = s]
    BY <1>1, <1>3 DEF set_desired, Save
  <2>2. entries'[i] = [entries[i] EXCEPT !.desired = s] /\ \A j \in Iid : j # i => entries'[j] = entries[j]
    BY <1>1, <2>1
  <2>3. entries'[i] \in Entry /\ entries'[i].decision = entries[i].decision
    BY <2>1, <2>2 DEF Entry
  <2> QED
    BY <1>1, <2>1, <2>2, <2>3 DEF DecisionOf
<1>4. ASSUME NEW n \in 0..(MaxRestoreTries - 1), set_failures(i, n), ~NoSave
      PROVE  \A j \in Iid : DecisionOf(entries'[j]) = DecisionOf(entries[j])
  <2>1. entries[i] \in Entry /\ entries' = [entries EXCEPT ![i].failures = n]
    BY <1>1, <1>4 DEF set_failures, Save
  <2>2. entries'[i] = [entries[i] EXCEPT !.failures = n] /\ \A j \in Iid : j # i => entries'[j] = entries[j]
    BY <1>1, <2>1
  <2>3. entries'[i] \in Entry /\ entries'[i].decision = entries[i].decision
    BY <2>1, <2>2 DEF Entry
  <2> QED
    BY <1>1, <2>1, <2>2, <2>3 DEF DecisionOf
<1> QED
  BY <1>2, <1>3, <1>4

(* What one operation of the journal leaves of the decisions it keeps.     *)
LEMMA EntryRecorded ==
  ASSUME JournalInv, NEW i \in Iid
  PROVE  /\ \A e \in Entry : record(i, e) =>
              \A j \in Iid : DecisionOf(entries'[j]) = IF j = i THEN e.decision ELSE DecisionOf(entries[j])
         /\ remove(i) =>
              \A j \in Iid : DecisionOf(entries'[j]) = IF j = i THEN None ELSE DecisionOf(entries[j])
<1>1. entries \in [Iid -> Entry \cup {None}] /\ \A e \in Entry : e # None
  BY HostJournalAssumption DEF JournalInv, JournalTypeOK, EntryMap
<1>2. ASSUME NEW e \in Entry, record(i, e)
      PROVE  \A j \in Iid : DecisionOf(entries'[j]) = IF j = i THEN e.decision ELSE DecisionOf(entries[j])
  <2>1. entries' = [entries EXCEPT ![i] = e]
    BY <1>2 DEF record, Save
  <2> QED
    BY <1>1, <2>1 DEF DecisionOf
<1>3. ASSUME remove(i)
      PROVE  \A j \in Iid : DecisionOf(entries'[j]) = IF j = i THEN None ELSE DecisionOf(entries[j])
  <2>1. \A j \in Iid : entries'[j] = IF j = i THEN None ELSE entries[j]
    BY <1>1, <1>3 DEF remove, Save, NoSave
  <2> QED
    BY <2>1 DEF DecisionOf
<1> QED
  BY <1>2, <1>3

(* The instance of a decision at work.                                     *)
LEMMA HeldBy ==
  ASSUME IInv, Mine, NEW d \in Decision
  PROVE  /\ \A i \in Iid : Holding[i] = d =>
              place[d].id = i /\ place[d].pc \in ShownPC \cup {"done"}
         /\ \A i \in Iid : Holding[i] = None <=> instances[i] = None
<1>1. None \notin Decision /\ instances \in [Iid -> Instance \cup {None}]
  BY WorkloadHostAssumption DEF IInv, HostTypes, MapOK
<1>2. \A i \in Iid : /\ instances[i] = None => Holding[i] = None
                     /\ instances[i] # None => Holding[i] = instances[i].decision
  BY DEF Holding, DecisionOf
<1>3. \A i \in Iid : instances[i] # None => instances[i].decision \in Decision
  BY <1>1 DEF Instance
<1> QED
  BY <1>1, <1>2, <1>3 DEF Mine

(* A placement's steps.                                                    *)
Viewed == View!Next \/ UNCHANGED View!view

LEMMA PlaceViewed ==
  ASSUME OneAtATime, IInv, WInv, TInv, GInv, Mine, NEW d \in Decision, Place(d)
  PROVE  Viewed
<1>0. Active(d) /\ d \in inFlight /\ phase # "down"
  <2>1. Active(d)
    BY PlaceForms
  <2>2. d \in inFlight
    BY <2>1 DEF IInv, MarksOK
  <2>3. place[d].pc # "idle"
    BY <2>1 DEF Active
  <2> QED
    BY <2>1, <2>2, <2>3, Alive
<1>1. PICK i \in Iid : i = place[d].id
  BY <1>0, OwnFacts
<1>2. ASSUME UNCHANGED <<instances, departed, journal>>
      PROVE  phase' = phase /\ Holding' = Holding /\ Keeping' = Keeping /\ Telling' = Telling
  BY <1>2, SameJournal DEF Holding, Telling
<1>3. CASE Unseen(d)
  <2>1. UNCHANGED View!view
    BY <1>2, <1>3, ViewStutters DEF Unseen
  <2> QED
    BY <2>1 DEF Viewed
<1>4. CASE Refused(d)
  <2>1. /\ phase' = phase /\ Holding' = Holding /\ Keeping' = Keeping /\ Telling' = Telling
        /\ inFlight' = inFlight \ {d} /\ place[d].pc \notin ShownPC \cup {"done"}
    BY <1>2, <1>4 DEF Refused, ShownPC
  <2>2. \A j \in Iid : Holding[j] # d
    BY <2>1, HeldBy
  <2>3. View!Next
    BY <1>0, <2>1, <2>2, ViewRefuses
  <2> QED
    BY <2>3 DEF Viewed
<1>5. CASE PlaceUnlist(d)
  <2>1. /\ place[d].pc = "unlisting" /\ inFlight' = inFlight \ {d} /\ UNCHANGED <<departed, journal>>
    BY <1>5 DEF PlaceUnlist, Refuse
  <2>2. \A j \in Iid : instances'[j] = IF j = i THEN None ELSE instances[j]
    BY <1>1, <1>5 DEF PlaceUnlist, IInv, HostTypes, MapOK
  <2>3. instances[i] # None /\ instances[i].decision = d
    BY <1>1, <2>1 DEF Mine, TInv, Shown, ShownPC
  <2>4. Holding[i] = d /\ \A j \in Iid : Holding[j] = d => j = i
    BY <1>1, <2>3, HeldBy DEF Holding, DecisionOf
  <2>5. \A j \in Iid : Holding'[j] = IF j = i THEN None ELSE Holding[j]
    BY <2>2 DEF Holding, DecisionOf
  <2>6. View!Next
    BY <1>0, <2>1, <2>4, <2>5, SameJournal, ViewRefuses DEF Telling
  <2> QED
    BY <2>6 DEF Viewed
<1>8. CASE PlaceLease(d)
  <2>1. /\ place[d].pc = "loaded" /\ UNCHANGED <<inFlight, instances, journal>>
        /\ departed' = Retain(departed, Iid \ {i}) /\ departed \in Seq(Iid)
    BY <1>1, <1>8 DEF PlaceLease, IInv, HostTypes, DepartedOK
  <2>2. instances[i] = None
    BY <1>1, <2>1 DEF WInv, OwnOK, Own
  <2>3. Telling' = Telling \ {i}
    <3>1. \A j, k \in 1..Len(departed) : departed[j] = departed[k] => j = k
      BY DEF GInv, Once
    <3>2. PICK t : t = Retain(departed, Iid \ {i})
      OBVIOUS
    <3>3. Without(t, departed, i)
      BY <2>1, <3>1, <3>2, RetainOnce
    <3>4. departed' = t
      BY <2>1, <3>2
    <3> QED
      BY <3>3, <3>4 DEF Without, Telling
  <2>4. Holding[i] = None /\ Holding' = Holding
    BY <2>1, <2>2, HeldBy DEF Holding
  <2>5. View!Next
    BY <1>0, <2>1, <2>3, <2>4, SameJournal, ViewReclaims
  <2> QED
    BY <2>5 DEF Viewed
<1>6. CASE PlaceList(d)
  <2>1. place[d].pc = "leased" /\ UNCHANGED <<inFlight, departed, journal>>
    BY <1>6 DEF PlaceList
  <2>2. instances[i] = None /\ ~Departed(i)
    BY <1>1, <2>1 DEF WInv, OwnOK, Own, GInv, TakenOff
  <2>3. /\ instances'[i] # None /\ instances'[i].decision = d
        /\ \A j \in Iid : j # i => instances'[j] = instances[j]
    BY <1>1, <1>6, PlaceListed
  <2>4. \A j \in Iid : Holding'[j] = IF j = i THEN d ELSE Holding[j]
    BY <2>3 DEF Holding, DecisionOf
  <2>5. Holding[i] = None /\ i \notin Telling /\ Telling' = Telling
    BY <2>1, <2>2, HeldBy DEF Departed, Telling
  <2>6. View!Next
    BY <1>0, <2>1, <2>4, <2>5, SameJournal, ViewTakes
  <2> QED
    BY <2>6 DEF Viewed
<1>7. CASE PlaceRecord(d)
  <2>1. /\ place[d].pc = "recording" /\ inFlight' = inFlight \ {d} /\ phase' = phase
        /\ UNCHANGED <<instances, departed>>
    BY <1>7 DEF PlaceRecord
  <2>2. Holding[i] = d
    BY <1>1, <2>1 DEF Mine, TInv, Shown, ShownPC, Holding, DecisionOf
  <2>3. \E e \in Entry : e.decision = d /\ record(i, e)
    <3>1. CASE cur # None
      <4>1. /\ cur \in Restoring /\ cur.entry \in Entry /\ mayStart \in BOOLEAN
            /\ record(cur.id, [decision |-> cur.entry.decision, desired |-> RestoreStarts(cur), failures |-> 0])
        BY <1>7, <3>1 DEF PlaceRecord, RestoreRecord, IInv, JournalInv, JournalTypeOK, Restoring
      <4>2. d = cur.entry.decision /\ i = cur.id
        BY <1>0, <1>1, <3>1 DEF WInv, RestoreAlone, IInv, JournalInv, Walk
      <4>3. [decision |-> d, desired |-> RestoreStarts(cur), failures |-> 0] \in Entry
        BY <4>1, HostJournalAssumption DEF RestoreStarts, Entry
      <4> QED
        BY <4>1, <4>2, <4>3
    <3>2. CASE cur = None
      <4>1. [decision |-> d, desired |-> place[d].start, failures |-> 0] \in Entry
        BY HostJournalAssumption DEF Entry, IInv, HostTypes, PlaceOK, PlaceType
      <4> QED
        BY <1>1, <1>7, <3>2, <4>1 DEF PlaceRecord
    <3> QED
      BY <3>1, <3>2
  <2>4. \A j \in Iid : DecisionOf(entries'[j]) = IF j = i THEN d ELSE DecisionOf(entries[j])
    BY <2>3, EntryRecorded DEF IInv
  <2>5. \A j \in Iid : Keeping'[j] = IF j = i THEN d ELSE Keeping[j]
    BY <1>0, <2>1, <2>4 DEF Keeping
  <2>6. View!Next
    BY <1>0, <2>1, <2>2, <2>5, ViewAnswers DEF Holding, Telling
  <2> QED
    BY <2>6 DEF Viewed
<1> QED
  BY <1>3, <1>4, <1>5, <1>6, <1>7, <1>8, PlaceForms

(* The verbs, the supervisor and everything that only the node itself sees *)
(* change nothing of the view.                                             *)
LEMMA StillViewed ==
  ASSUME UNCHANGED <<inFlight, departed, phase>>, Holding' = Holding, Keeping' = Keeping
  PROVE  Viewed
<1>1. UNCHANGED View!view
  BY ViewStutters DEF Telling
<1> QED
  BY <1>1 DEF Viewed

LEMMA VerbsViewed ==
  ASSUME OneAtATime, IInv, NEW i \in Iid, Start(i) \/ Stop(i)
  PROVE  Viewed
<1>1. /\ UNCHANGED <<inFlight, departed, phase>> /\ phase = "serving"
      /\ (\E s \in BOOLEAN : set_desired(i, s)) \/ entries' = entries
  BY DEF Start, Stop, Requested, Untouched, journal, memory
<1>2. Calm
  BY VerbsCalm
<1>3. \A j \in Iid : instances[j] # None => instances'[j].decision = instances[j].decision
  BY StartStep, StopStep DEF Steady
<1>4. Holding' = Holding
  BY <1>2, <1>3, SameHolding DEF Calm
<1>5. \A j \in Iid : DecisionOf(entries'[j]) = DecisionOf(entries[j])
  BY <1>1, DecisionsKept DEF IInv
<1>6. Keeping' = Keeping
  BY <1>1, <1>5, SameKeeping
<1> QED
  BY <1>1, <1>4, <1>6, StillViewed

LEMMA SuperviseViewed ==
  ASSUME IInv, Supervise
  PROVE  Viewed
<1>1. UNCHANGED <<inFlight, departed, journal>>
  BY DEF Supervise, SupLease, SupLeaseMark, SupPick, SupApply, SupFailedStop, SupRestartStop,
         SupRestartStart, SupRestartMark, SupLeaseStop, SupPoll, SupStep
<1>2. Calm /\ Steady
  BY SuperviseCalm, SuperviseKeeps
<1>3. Holding' = Holding
  BY <1>2, SameHolding DEF Calm, Steady
<1> QED
  BY <1>1, <1>3, SameJournal, StillViewed

LEMMA OthersViewed ==
  ASSUME IInv, WInv, TInv,
         \/ StatusBegin \/ StatusEnd \/ Silence \/ JournalAppend \/ ListBump \/ SweepBegin
         \/ (\E e \in Enforcer : Enforce(e))
         \/ (\E i \in Iid : Exit(i) \/ ListChange(i) \/ UnloadBegin(i)) \/ UNCHANGED vars
  PROVE  Viewed
<1>1. UNCHANGED <<instances, departed, inFlight, phase, entries, file>>
  <2>1. CASE JournalAppend
    BY <2>1 DEF JournalAppend, AppendChain, Quiet, host, disk
  <2>2. CASE ~JournalAppend
    BY <2>2, NothingPicked
       DEF StatusBegin, StatusEnd, Silence, ListBump, SweepBegin, Enforce,
           TeardownEnd, Forget, NoteForgotten, Teardown, EnforceEnd, EnfStep, Exit, ListChange, UnloadBegin, vars, host,
           journal, memory, disk
  <2> QED
    BY <2>1, <2>2
<1>2. Holding' = Holding /\ Keeping' = Keeping
  BY <1>1 DEF Holding, Keeping, ReadEntries
<1> QED
  BY <1>1, <1>2, StillViewed

(* UNLOAD's end is a departure.                                            *)
LEMMA UnloadViewed ==
  ASSUME OneAtATime, RoomForAll, IInv, WInv, TInv, GInv, Mine, UnloadEnd
  PROVE  Viewed
<1>0. PICK i \in Iid : i = unloading
  BY DEF UnloadEnd, IInv, HostTypes, UnloadingOK
<1>1. /\ NoteDeparted(i) /\ instances' = [instances EXCEPT ![i] = None] /\ i # None
      /\ UNCHANGED <<inFlight, phase>>
  BY <1>0 DEF UnloadEnd, RemoveDir, OneAtATime, Untouched
<1>2. \A j \in Iid : instances'[j] = IF j = i THEN None ELSE instances[j]
  BY <1>1 DEF IInv, HostTypes, MapOK
<1>3. instances[i] # None /\ phase # "down"
  BY <1>0, <1>1, Alive DEF GInv, UnloadListed
<1>4. ~Departed(i)
  BY <1>3 DEF GInv, Away, Departed
<1>5. departed \in Seq(Iid) /\ Len(departed) \in Nat
  BY DEF IInv, HostTypes, DepartedOK
<1>6. departed' = Append(departed, i)
  <2>1. Len(departed) < DepartedCap
    BY <1>4, RoomOnList DEF GInv
  <2> QED
    BY <1>1, <1>5, <2>1, WorkloadHostAssumption DEF NoteDeparted
<1>7. Telling' = Telling \cup {i}
  <2>1. /\ Len(departed') = Len(departed) + 1 /\ departed'[Len(departed) + 1] = i
        /\ \A k \in 1..Len(departed) : departed'[k] = departed[k]
    BY <1>5, <1>6
  <2>2. 1..Len(departed') = 1..Len(departed) \cup {Len(departed) + 1}
    BY <1>5, <2>1
  <2> QED
    BY <2>1, <2>2 DEF Telling
<1>8. remove(i)
  BY <1>1 DEF NoteDeparted
<1>9. \A j \in Iid : DecisionOf(entries'[j]) = IF j = i THEN None ELSE DecisionOf(entries[j])
  BY <1>8, EntryRecorded DEF IInv
<1>10. \A j \in Iid : /\ Holding'[j] = IF j = i THEN None ELSE Holding[j]
                      /\ Keeping'[j] = IF j = i THEN None ELSE Keeping[j]
  BY <1>1, <1>2, <1>3, <1>9 DEF Holding, Keeping, DecisionOf
<1>11. Holding[i] # None
  BY <1>3, WorkloadHostAssumption DEF Holding, DecisionOf, IInv, HostTypes, MapOK, Instance
<1>12. View!Next
  BY <1>1, <1>7, <1>10, <1>11, ViewLeaves
<1> QED
  BY <1>12 DEF Viewed

(* A request's handling begins, the controller's or the restore's.         *)
LEMMA EnterViewed ==
  ASSUME IInv, NEW d \in Decision, NEW i \in Iid, NEW s \in BOOLEAN, PlaceEnter(d, i, s)
  PROVE  Viewed
<1>1. /\ phase = "serving" /\ d \notin sent /\ inFlight' = inFlight \cup {d}
      /\ UNCHANGED <<instances, departed, journal>>
  BY DEF PlaceEnter, Entered
<1>2. d \notin inFlight
  BY <1>1 DEF IInv, SentHandled, MarksOK, Active
<1>3. View!Next
  BY <1>1, <1>2, SameJournal, ViewBegins DEF Holding, Telling
<1> QED
  BY <1>3 DEF Viewed

LEMMA RestorePlaceViewed ==
  ASSUME IInv, Meant, Untampered, ~faulted, RestorePlace
  PROVE  Viewed
<1>1. PICK d \in Decision, i \in Iid : d = cur.entry.decision /\ i = cur.id
  BY DEF RestorePlace, IInv, JournalInv, JournalTypeOK, Restoring, Entry
<1>2. /\ cur # None /\ ~cur.placed /\ place[d].pc = "idle" /\ inFlight' = inFlight \cup {d}
      /\ UNCHANGED <<instances, departed, journal>>
  BY <1>1 DEF RestorePlace, Entered
<1>3. d \notin inFlight
  BY <1>2 DEF IInv, MarksOK, Active
<1>4. phase = "restoring" /\ entries[i] = cur.entry
  BY <1>1, <1>2, Alive DEF Meant, MemorySays, Untampered
<1>5. cur.entry # None
  BY <1>2, HostJournalAssumption DEF IInv, JournalInv, JournalTypeOK, Restoring
<1>6. Keeping[i] = d
  BY <1>1, <1>4, <1>5 DEF Keeping, DecisionOf
<1>7. View!Next
  BY <1>2, <1>3, <1>6, SameJournal, ViewBegins DEF Holding, Telling
<1> QED
  BY <1>7 DEF Viewed

(* A boot takes the node's own file as it is, so what is kept stays kept.  *)
LEMMA BootViewed ==
  ASSUME IInv, Untampered, Boot, Quiet
  PROVE  Viewed
<1>0. /\ UNCHANGED <<instances, departed, inFlight>> /\ phase = "down"
  BY DEF Boot, Quiet, host
<1>1. /\ diskChain \in Nat /\ file.generation \in Nat /\ diskChain <= file.generation
      /\ file.kind \in {"missing", "signed"}
      /\ file.kind = "missing" => file.generation = 0
  BY HostJournalAssumption DEF IInv, JournalInv, JournalTypeOK, File, Generations, Unsigned, OwnFileIsNoReplay, Untampered
<1>2. ReadGeneration = file.generation
  BY <1>1 DEF ReadGeneration
<1>3. \A latest \in {diskChain, None} : RestoreVerdict(latest) \in {"ok", "unverified"}
  <2>1. RestoreVerdict(None) \in {"ok", "unverified"}
    BY <1>1 DEF RestoreVerdict
  <2>2. RestoreVerdict(diskChain) \in {"ok", "unverified"}
    <3>1. ~(diskChain > ReadGeneration)
      BY <1>1, <1>2
    <3>2. file.kind = "missing" => diskChain = 0
      BY <1>1
    <3> QED
      BY <1>1, <3>1, <3>2 DEF RestoreVerdict
  <2> QED
    BY <2>1, <2>2
<1>4. entries' = ReadEntries /\ phase' = "restoring"
  BY <1>3 DEF Boot
<1>5. Keeping' = Keeping
  BY <1>0, <1>4 DEF Keeping
<1>6. UNCHANGED View!view
  BY <1>0, <1>4, <1>5, ViewStutters DEF Holding, Telling
<1> QED
  BY <1>6 DEF Viewed

(* The restore's own steps: it serves when it is through, and gives up     *)
(* only what nothing was listed for.                                       *)
LEMMA RestoreViewed ==
  ASSUME IInv, WInv, TInv, Mine, Meant, Untampered, ~faulted, HostBoots
  PROVE  Viewed
<1>1. CASE RestorePlace
  BY <1>1, RestorePlaceViewed
<1>2. CASE Boot /\ Quiet
  BY <1>2, BootViewed
<1>3. CASE RestoreDone /\ Quiet
  <2>1. /\ phase = "restoring" /\ phase' = "serving" /\ cur = None
        /\ UNCHANGED <<instances, departed, inFlight, entries>>
    BY <1>3 DEF RestoreDone, Quiet, host, memory
  <2>2. inFlight = {}
    BY <2>1 DEF WInv, RestoreAlone, IInv, MarksOK, HostTypes, PlaceOK
  <2>3. Keeping' = Keeping
    BY <2>1, SameKeeping
  <2>4. View!Next
    BY <2>1, <2>2, <2>3, ViewServes DEF Holding, Telling
  <2> QED
    BY <2>4 DEF Viewed
<1>4. ASSUME NEW i \in Iid, RestoreTake(i), Quiet PROVE Viewed
  <2>1. UNCHANGED <<instances, departed, inFlight, entries, phase, file>>
    BY <1>4 DEF RestoreTake, Quiet, host, memory, disk
  <2>2. Holding' = Holding /\ Keeping' = Keeping
    BY <2>1 DEF Holding, Keeping, ReadEntries
  <2> QED
    BY <2>1, <2>2, StillViewed
<1>5. ASSUME cur # None, UNCHANGED phase, Quiet,
             \/ cur.placed /\ RestoreKeep
             \/ RestoreRetry
      PROVE  Viewed
  <2>1. phase = "restoring" /\ cur.id \in Iid /\ cur.entry \in Entry
    BY <1>5, Alive DEF IInv, JournalInv, JournalTypeOK, Restoring
  <2>2. \/ \E s \in BOOLEAN : set_desired(cur.id, s)
        \/ \E n \in 0..(MaxRestoreTries - 1) : set_failures(cur.id, n)
        \/ NoSave
    <3>1. CASE RestoreKeep
      BY <3>1 DEF RestoreKeep
    <3>2. CASE RestoreRetry
      <4>1. cur.entry.failures \in 0..(MaxRestoreTries - 1) /\ cur.entry.failures + 1 < MaxRestoreTries
        BY <2>1, <3>2 DEF RestoreRetry, Entry
      <4>2. cur.entry.failures + 1 \in 0..(MaxRestoreTries - 1)
        BY <4>1, HostJournalAssumption
      <4> QED
        BY <3>2, <4>2 DEF RestoreRetry
    <3> QED
      BY <1>5, <3>1, <3>2
  <2>3. \A j \in Iid : DecisionOf(entries'[j]) = DecisionOf(entries[j])
    BY <2>1, <2>2, DecisionsKept DEF IInv
  <2>4. UNCHANGED <<instances, departed, inFlight>>
    BY <1>5 DEF Quiet, host
  <2>5. Keeping' = Keeping
    BY <1>5, <2>1, <2>3, SameKeeping
  <2> QED
    BY <1>5, <2>4, <2>5, StillViewed DEF Holding
<1>6. ASSUME cur # None, ~cur.placed, UNCHANGED phase, Quiet, RestoreDrop,
             place[cur.entry.decision].pc \in {"idle", "refused"}
      PROVE  Viewed
  <2>1. PICK i \in Iid : i = cur.id
    BY <1>6 DEF IInv, JournalInv, JournalTypeOK, Restoring
  <2>2. phase = "restoring"
    BY <1>6, Alive
  <2>3. ~Showing(i)
    <3> SUFFICES ASSUME NEW d \in Decision, place[d].pc \in ShownPC, place[d].id = i PROVE FALSE
      BY DEF Showing
    <3>1. Active(d)
      BY DEF Active, ShownPC
    <3>2. d = cur.entry.decision
      BY <2>2, <3>1 DEF WInv, RestoreAlone
    <3> QED
      BY <1>6, <3>2 DEF ShownPC
  <2>4. instances[i] = None
    BY <1>6, <2>1, <2>3 DEF TInv, Known, WInv, AnsweredOK
  <2>5. UNCHANGED <<instances, departed, inFlight>>
    BY <1>6 DEF Quiet, host
  <2>6. \A j \in Iid : DecisionOf(entries'[j]) = IF j = i THEN None ELSE DecisionOf(entries[j])
    BY <1>6, <2>1, EntryRecorded DEF RestoreDrop, IInv
  <2>7. \A j \in Iid : Keeping'[j] = IF j = i THEN None ELSE Keeping[j]
    BY <1>6, <2>2, <2>6 DEF Keeping
  <2>8. View!Next
    BY <1>6, <2>2, <2>4, <2>5, <2>7, HeldBy, ViewGivesUp DEF Holding, Telling, DecisionOf
  <2> QED
    BY <2>8 DEF Viewed
<1> QED
  BY <1>1, <1>2, <1>3, <1>4, <1>5, <1>6 DEF HostBoots

(* The daemon stops, and the file holds what memory held.                  *)
LEMMA StopsViewed ==
  ASSUME IInv, Meant, Untampered, ~faulted, HostStops
  PROVE  Viewed
<1>1. /\ phase # "down" /\ phase' = "down" /\ UNCHANGED file
      /\ inFlight' = {} /\ departed' = <<>> /\ instances' = [i \in Iid |-> None]
  BY HostJournalAssumption DEF HostStops, HostGone, Crash, CleanShutdown, DaemonGone
<1>2. ReadEntries = entries /\ ReadEntries' = ReadEntries
  BY <1>1 DEF Meant, Sound, Blank, Untampered, ReadEntries
<1>3. Keeping' = Keeping
  BY <1>1, <1>2 DEF Keeping
<1>4. Telling' = {}
  BY <1>1 DEF Telling
<1>5. \A j \in Iid : Holding'[j] = None
  BY <1>1 DEF Holding, DecisionOf
<1>6. View!Next
  BY <1>1, <1>3, <1>4, <1>5, ViewStops
<1> QED
  BY <1>6 DEF Viewed

LEMMA HostViewed ==
  ASSUME OneAtATime, RoomForAll,
         IInv, WInv, TInv, BusQuiet, GInv, Mine, Meant, Untampered, ~faulted, [Next]_vars
  PROVE  Viewed
<1>1. ~BusStop /\ ~BusMark /\ \A i \in Iid : ~BusBegin(i)
  BY DEF BusStop, BusMark, BusBegin, Spend, BusQuiet
<1> QED
  BY <1>1, PlaceViewed, EnterViewed, VerbsViewed, SuperviseViewed, OthersViewed, UnloadViewed,
     RestoreViewed, StopsViewed
     DEF Next

(* plane_*.rs rests on HostView: a decision is in flight, then held or     *)
(* over; what is held goes only when the node says so or with a restart,   *)
(* and a restart brings back only what was kept, under its old decision    *)
(* and before the node serves.  The host implements it when requests about *)
(* one instance come one at a time, no unload fails, nothing is revoked or *)
(* stopped by the bus, the departed list has room and no save is lost;     *)
(* whatever else fails and wherever the daemon stops, in a restore too.    *)
THEOREM HostImplementsView ==
  NoBusStops /\ RoomForAll => (Spec /\ []~faulted => ImplementsView)
<1> SUFFICES ASSUME NoBusStops, RoomForAll
             PROVE  Spec /\ []~faulted => ImplementsView
  OBVIOUS
<1>0. OneAtATime /\ NoneRevoked
  BY DEF NoBusStops, NoneRevoked
<1>1. Init => BusQuiet /\ GInv /\ Mine /\ Untampered
  <2> SUFFICES ASSUME Init PROVE BusQuiet /\ GInv /\ Mine /\ Untampered
    OBVIOUS
  <2>1. BusQuiet
    BY DEF Init, BusQuiet, BusIdle, NoBusStops
  <2>2. GInv
    BY DEF Init, GInv, Once, Away, Unanswered, UnloadListed, TakenOff, ToldOrLeased, PlaceIdle, ShownPC
  <2>3. Mine
    BY DEF Init, Mine, PlaceIdle, ShownPC
  <2>4. Untampered
    BY DEF Init, JournalInit, Untampered, NotSigned
  <2> QED
    BY <2>1, <2>2, <2>3, <2>4
<1>2. Init => View!Init
  <2> SUFFICES ASSUME Init PROVE View!Init
    OBVIOUS
  <2>1. /\ phase = "down" /\ inFlight = {} /\ departed = <<>> /\ ReadEntries = [i \in Iid |-> None]
        /\ instances = [i \in Iid |-> None]
    BY DEF Init, JournalInit, ReadEntries, NotSigned, NoEntries
  <2>2. Holding = [i \in Iid |-> None] /\ Keeping = [i \in Iid |-> None] /\ Telling = {}
    BY <2>1 DEF Holding, Keeping, Telling, DecisionOf
  <2>3. (phase = "serving") = FALSE
    BY <2>1
  <2> QED
    BY <2>1, <2>2, <2>3 DEF View!Init, View!Nothing, Holding, Keeping, Telling
<1>3. IInv /\ BusQuiet /\ [Next]_vars => BusQuiet'
  BY BusQuietStep
<1>4. IInv /\ WInv /\ TInv /\ GInv /\ [Next]_vars => GInv'
  BY <1>0, HostTells
<1>5. IInv /\ WInv /\ TInv /\ Mine /\ TInv' /\ [Next]_vars => Mine'
  BY <1>0, HostMine
<1>6. IInv /\ WInv /\ TInv /\ BusQuiet /\ Fresh /\ Untampered /\ [Next]_vars => Untampered'
  <2> SUFFICES ASSUME IInv, WInv, TInv, BusQuiet, Fresh, Untampered, [Next]_vars PROVE Untampered'
    OBVIOUS
  <2>1. JournalNext \/ UNCHANGED journal
    BY <1>0, JournalSteps
  <2>2. UNCHANGED fileEvents
    BY NoFileEvents
  <2> QED
    BY <2>1, <2>2, NextUntampered DEF IInv
<1>7. IInv /\ WInv /\ TInv /\ BusQuiet /\ GInv /\ Mine /\ Meant /\ Untampered /\ ~faulted /\ [Next]_vars
        => [View!Next]_(View!view)
  BY <1>0, HostViewed DEF Viewed
<1>8. JournalSpec => []Meant
  BY MeantInvariance
<1> QED
  BY <1>0, <1>1, <1>2, <1>3, <1>4, <1>5, <1>6, <1>7, <1>8, HostInvariance, WholeInvariance,
     TidyInvariance, HostUsesJournal, FreshInvariance, PTL
     DEF Spec, UsesJournal, ImplementsView, View!Spec
==============================================================================
