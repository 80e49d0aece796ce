----------------------------- MODULE HostJournal -----------------------------
(***************************************************************************)
(* The workload host's instance journal                                    *)
(* (crates/clawft-kernel/src/workload_ctl/host_journal.rs): the signed     *)
(* file that puts a node's placed workloads back after the daemon          *)
(* restarts, and the generation number that ties the file to the chain.    *)
(*                                                                         *)
(* The journal's operations (record, set_desired, ...) are operators that  *)
(* WorkloadHost conjoins with its own steps.  The specification at the end *)
(* drives them by themselves: verbs while the host serves, crashes and     *)
(* clean shutdowns, restores, write failures, and changes made to the file *)
(* while the daemon is down.                                               *)
(*                                                                         *)
(* A journal entry keeps the decision id, the intent and the failure       *)
(* count; the place body and the requester are functions of the instance   *)
(* id.  The signature is abstracted to the file's kind.                    *)
(***************************************************************************)
EXTENDS Integers, FiniteSets

CONSTANTS
  Iid,             \* instance ids of this node
  Decision,        \* decision ids of place requests
  None,            \* the absent value
  MaxGeneration,   \* the largest generation (u64::MAX in the code)
  MaxRestoreTries, \* restores that may fail before an entry is dropped
  ChainModes,      \* whether a boot has a chain to check against
  FileEvents,      \* what may happen to the file while the daemon is down
  MaxFileEvents,   \* bound: how often
  MaxBoots,        \* bound: daemon starts
  WriteMayFail,    \* whether a save can fail
  CrashPoints      \* phases a crash can hit

Entry == [decision : Decision, desired : BOOLEAN, failures : 0..(MaxRestoreTries - 1)]

(* The entry a restore is at, and whether place has recorded it again.     *)
Restoring == [id : Iid, entry : Entry, placed : BOOLEAN]

ASSUME HostJournalAssumption ==
  /\ MaxGeneration \in Nat /\ MaxRestoreTries \in Nat \ {0}
  /\ ChainModes \subseteq BOOLEAN
  /\ FileEvents \subseteq {"delete", "damage", "edit", "rollback"}
  /\ MaxFileEvents \in Nat /\ MaxBoots \in Nat
  /\ WriteMayFail \in BOOLEAN
  /\ CrashPoints \subseteq {"restoring", "serving"}
  /\ None \notin Entry \cup Restoring /\ None \notin Nat /\ None \notin Iid

VARIABLES
  entries,     \* State.entries: what the journal holds in memory
  generation,  \* State.generation
  file,        \* the file on disk
  chain,       \* newest workload.journal generation on the chain in memory
  diskChain,   \* newest generation in the chain as last written out
  saving,      \* the file is written, the chain event is not appended yet
  phase,       \* "down", "restoring" or "serving"
  mayStart,    \* restore_instances: whether this restore may start anything
  todo,        \* journaled instances the restore has not come to yet
  cur,         \* the entry being restored, or None
  boots, fileEvents,
  \* history, read by no action:
  intent,      \* what the operator was last told about each instance
  newest,      \* the newest generation ever written by a save
  newestSaid,  \* and the entries that save wrote
  external,    \* the file on disk was put there by something else
  faulted,     \* a save was lost
  forked,      \* a boot continued below newest: generations are used twice
  backup       \* a copy of the file somebody kept

memory == <<entries, generation, chain, saving>>
disk == <<file, diskChain>>
restore == <<mayStart, todo, cur>>
bounds == <<boots, fileEvents>>
history == <<intent, newest, newestSaid, external, faulted, forked, backup>>
journal == <<memory, disk, phase, restore, bounds, history>>

NoEntries == [i \in Iid |-> None]

(* What an entry says of the operator's intent.                            *)
Says(e) == IF e = None THEN "gone" ELSE IF e.desired THEN "run" ELSE "stop"

(* What is on disk: no file, a file this node signed, a file that does not *)
(* parse, or one whose signature does not verify.                          *)
FileKind == {"missing", "signed", "unreadable", "refused"}
Signed(g, es) == [kind |-> "signed", generation |-> g, entries |-> es]
NotSigned(k) == [kind |-> k, generation |-> 0, entries |-> NoEntries]

Generations == 0..MaxGeneration
EntryMap == [Iid -> Entry \cup {None}]
File == [kind : FileKind, generation : Generations, entries : EntryMap]

JournalTypeOK ==
  /\ entries \in EntryMap
  /\ generation \in Generations
  /\ file \in File
  /\ chain \in Generations \cup {None}
  /\ diskChain \in Generations
  /\ saving \in BOOLEAN
  /\ phase \in {"down", "restoring", "serving"}
  /\ mayStart \in BOOLEAN
  /\ todo \in SUBSET Iid
  /\ cur \in Restoring \cup {None}
  /\ boots \in 0..MaxBoots
  /\ fileEvents \in 0..MaxFileEvents
  /\ intent \in [Iid -> {"gone", "run", "stop"}]
  /\ newest \in Generations /\ newestSaid \in EntryMap
  /\ external \in BOOLEAN /\ faulted \in BOOLEAN /\ forked \in BOOLEAN
  /\ backup \in File

-----------------------------------------------------------------------------
(* The journal's operations.  Each holds the state mutex: none runs while  *)
(* another is between its file write and its chain event.                  *)

MaxOf(a, b) == IF a > b THEN a ELSE b

(* History: the file now on disk is this node's, of generation g.          *)
Written(g, new) ==
  /\ newest' = MaxOf(newest, g)
  /\ newestSaid' = IF g >= newest THEN new ELSE newestSaid
  /\ external' = FALSE

(* Mutant of Save: the chain event is appended before the file is written. *)
SaveChainFirst(new) ==
  /\ ~saving
  /\ entries' = new
  /\ generation < MaxGeneration
  /\ generation' = generation + 1
  /\ chain' = IF chain = None THEN None ELSE generation'
  /\ saving' = FALSE
  /\ \/ /\ file' = Signed(generation', new)
        /\ Written(generation', new) /\ UNCHANGED faulted
     \/ /\ WriteMayFail
        /\ faulted' = TRUE
        /\ UNCHANGED <<file, newest, newestSaid, external>>

(* Journal::save: the next generation, the file, and only then (in         *)
(* AppendChain) the chain.  At the end of the generation's range nothing   *)
(* is saved.  A failed write leaves the old file, or the new one when only *)
(* the directory flush failed; either way the chain is not told.           *)
Save(new) ==
  /\ ~saving
  /\ entries' = new
  /\ UNCHANGED chain
  /\ \/ /\ generation < MaxGeneration
        /\ generation' = generation + 1
        /\ file' = Signed(generation', new)
        /\ saving' = TRUE
        /\ Written(generation', new)
        /\ UNCHANGED faulted
     \/ /\ generation < MaxGeneration
        /\ WriteMayFail
        /\ generation' = generation + 1
        /\ \/ UNCHANGED <<file, newest, newestSaid, external>> /\ faulted' = TRUE
           \/ /\ file' = Signed(generation', new)
              /\ Written(generation', new)
              /\ UNCHANGED faulted
        /\ UNCHANGED saving
     \/ /\ generation = MaxGeneration
        /\ faulted' = TRUE
        /\ UNCHANGED <<generation, file, saving, newest, newestSaid, external>>

(* Save's second half: workload.journal on the chain, if there is one.     *)
(* chain_generation reads the maximum over the events.                     *)
AppendChain ==
  /\ saving
  /\ saving' = FALSE
  /\ chain' = IF chain = None THEN None ELSE MaxOf(chain, generation)
  /\ UNCHANGED <<entries, generation, disk, phase, restore, bounds, history>>

NoSave ==
  /\ ~saving
  /\ UNCHANGED <<entries, generation, file, chain, saving, newest, newestSaid, external, faulted>>

record(i, e) == Save([entries EXCEPT ![i] = e])

(* Mutant of set_desired: the entry changes, the file does not.            *)
set_desired_unsaved(i, running) ==
  /\ ~saving
  /\ entries' = IF entries[i] = None THEN entries
                ELSE [entries EXCEPT ![i].desired = running]
  /\ UNCHANGED <<generation, file, chain, saving, newest, newestSaid, external, faulted>>

set_desired(i, running) ==
  IF entries[i] # None /\ entries[i].desired # running
    THEN Save([entries EXCEPT ![i].desired = running])
    ELSE NoSave

set_failures(i, n) ==
  IF entries[i] # None /\ entries[i].failures # n
    THEN Save([entries EXCEPT ![i].failures = n])
    ELSE NoSave

remove(i) ==
  IF entries[i] # None THEN Save([entries EXCEPT ![i] = None]) ELSE NoSave

-----------------------------------------------------------------------------
(* Opening the journal and restore_instances.                              *)

(* read: only a file that verifies gives its entries and its generation.   *)
ReadGeneration == IF file.kind = "signed" THEN file.generation ELSE 0
ReadEntries == IF file.kind = "signed" THEN file.entries ELSE NoEntries

(* Mutant of RestoreVerdict: no replay check.                              *)
VerdictNoReplayCheck(latest) ==
  CASE file.kind \in {"missing", "unreadable"} /\ latest # None /\ latest # 0 -> "gone"
    [] file.kind = "refused" -> "refused"
    [] latest = None \/ (latest = 0 /\ ReadGeneration > 0) -> "unverified"
    [] OTHER -> "ok"

(* How restore_instances judges the file against the chain's newest        *)
(* generation (None: no chain).  "gone" is the report's "missing" or       *)
(* "unreadable".                                                           *)
RestoreVerdict(latest) ==
  CASE file.kind \in {"missing", "unreadable"} /\ latest # None /\ latest # 0 -> "gone"
    [] file.kind = "refused" -> "refused"
    [] latest # None /\ latest > ReadGeneration -> "replayed"
    [] latest = None \/ (latest = 0 /\ ReadGeneration > 0) -> "unverified"
    [] OTHER -> "ok"

(* Journal::set_chain: a journal behind the chain continues above it.      *)
SetChain(latest) ==
  generation' = IF latest = None THEN ReadGeneration ELSE MaxOf(ReadGeneration, latest)

(* The daemon starts: Journal::open, set_chain and the head of             *)
(* restore_instances.  An unreadable file is set aside.  Unless the whole  *)
(* file is refused its instances are restored one by one; a replayed file  *)
(* is forgotten in memory and left on disk.                                *)
Boot ==
  /\ phase = "down"
  /\ boots < MaxBoots
  /\ boots' = boots + 1
  /\ \E hasChain \in ChainModes :
       LET latest == IF hasChain THEN diskChain ELSE None
           verdict == RestoreVerdict(latest)
           taken == verdict \in {"ok", "unverified"}
       IN  /\ chain' = latest
           /\ SetChain(latest)
           /\ entries' = IF taken THEN ReadEntries ELSE NoEntries
           /\ mayStart' = (verdict = "ok")
           /\ todo' = {i \in Iid : taken /\ ReadEntries[i] # None}
           /\ phase' = IF taken THEN "restoring" ELSE "serving"
           /\ intent' = IF taken /\ ~external THEN intent
                        ELSE [i \in Iid |-> Says(entries'[i])]
           /\ forked' = (forked \/ generation' < newest)
  /\ file' = IF file.kind = "unreadable" THEN NotSigned("missing") ELSE file
  /\ saving' = FALSE
  /\ cur' = None
  /\ UNCHANGED <<diskChain, fileEvents, newest, newestSaid, external, faulted, backup>>

(* The loop comes to the next entry.  (The code walks them in id order.)   *)
RestoreTake(i) ==
  /\ phase = "restoring" /\ cur = None /\ ~saving
  /\ i \in todo
  /\ cur' = [id |-> i, entry |-> entries[i], placed |-> FALSE]
  /\ todo' = todo \ {i}
  /\ UNCHANGED <<memory, disk, phase, mayStart, bounds, history>>

(* Whether the restore asks place to start the instance.                   *)
RestoreStarts(c) == c.entry.desired /\ mayStart

(* place journals the instance again, with the intent the body carried.    *)
RestoreRecord ==
  /\ cur # None /\ ~cur.placed
  /\ record(cur.id, [decision |-> cur.entry.decision,
                     desired  |-> RestoreStarts(cur),
                     failures |-> 0])
  /\ cur' = [cur EXCEPT !.placed = TRUE]

(* After place: keep the operator's intent when the start was held back.   *)
(* (The set_failures(0) that follows finds the 0 place has just recorded.) *)
RestoreKeep ==
  /\ cur # None /\ cur.placed
  /\ IF cur.entry.desired /\ ~mayStart THEN set_desired(cur.id, TRUE) ELSE NoSave
  /\ cur' = None

(* The requester is no longer a controller, place refused for good, or the *)
(* last try failed: the entry goes.                                        *)
RestoreDrop ==
  /\ cur # None /\ ~cur.placed
  /\ remove(cur.id)
  /\ cur' = None
  /\ intent' = [intent EXCEPT ![cur.id] = "gone"]

(* Mutant of RestoreRetry: the entry is kept for as long as it fails.      *)
RestoreRetryForever ==
  /\ cur # None /\ ~cur.placed
  /\ set_failures(cur.id, cur.entry.failures + 1)
  /\ cur' = None
  /\ UNCHANGED intent

(* place failed for a reason that may pass: kept and counted, until the    *)
(* tries are spent.                                                        *)
RestoreRetry ==
  /\ cur # None /\ ~cur.placed
  /\ cur.entry.failures + 1 < MaxRestoreTries
  /\ set_failures(cur.id, cur.entry.failures + 1)
  /\ cur' = None
  /\ UNCHANGED intent

RestoreDone ==
  /\ phase = "restoring" /\ todo = {} /\ cur = None /\ ~saving
  /\ phase' = "serving"
  /\ UNCHANGED <<memory, disk, restore, bounds, history>>

-----------------------------------------------------------------------------
(* The daemon stops.  The chain is written out at a clean shutdown only    *)
(* (boot.rs, Kernel::shutdown: save_to_rvf), so a crash forgets what was   *)
(* appended to it.                                                         *)

DaemonGone ==
  /\ entries' = NoEntries /\ generation' = 0 /\ chain' = None /\ saving' = FALSE
  /\ phase' = "down"
  /\ mayStart' = FALSE /\ todo' = {} /\ cur' = None
  /\ UNCHANGED <<file, bounds, history>>

Crash ==
  /\ phase \in CrashPoints
  /\ DaemonGone
  /\ UNCHANGED diskChain

CleanShutdown ==
  /\ phase = "serving" /\ ~saving
  /\ DaemonGone
  /\ diskChain' = IF chain = None THEN diskChain ELSE chain

(* While the daemon is down the file is deleted, damaged, edited (its      *)
(* signature no longer verifies) or replaced by an older copy.             *)
FileEvent ==
  /\ phase = "down"
  /\ fileEvents < MaxFileEvents
  /\ fileEvents' = fileEvents + 1
  /\ \E ev \in FileEvents :
       file' = CASE ev = "delete" -> NotSigned("missing")
                 [] ev = "damage" -> NotSigned("unreadable")
                 [] ev = "edit" -> NotSigned("refused")
                 [] ev = "rollback" -> backup
  /\ external' = TRUE
  /\ UNCHANGED <<memory, diskChain, phase, restore, boots, intent, newest, newestSaid,
                 faulted, forked, backup>>

(* Somebody copies the file.                                               *)
CopyFile ==
  /\ "rollback" \in FileEvents
  /\ file.kind = "signed" /\ backup # file
  /\ backup' = file
  /\ UNCHANGED <<memory, disk, phase, restore, bounds, intent, newest, newestSaid,
                 external, faulted, forked>>

-----------------------------------------------------------------------------
(* The journal by itself: verbs while serving, nondeterministic restores.  *)

JournalInit ==
  /\ entries = NoEntries /\ generation = 0 /\ chain = None /\ saving = FALSE
  /\ file = NotSigned("missing") /\ diskChain = 0
  /\ phase = "down"
  /\ mayStart = FALSE /\ todo = {} /\ cur = None
  /\ boots = 0 /\ fileEvents = 0
  /\ intent = [i \in Iid |-> "gone"]
  /\ newest = 0 /\ newestSaid = NoEntries /\ external = FALSE /\ faulted = FALSE /\ forked = FALSE
  /\ backup = NotSigned("missing")

Untouched == <<diskChain, phase, restore, bounds, forked, backup>>

(* A place that succeeded.                                                 *)
JournalPlaced(i, d, started) ==
  /\ phase = "serving"
  /\ record(i, [decision |-> d, desired |-> started, failures |-> 0])
  /\ intent' = [intent EXCEPT ![i] = IF started THEN "run" ELSE "stop"]
  /\ UNCHANGED Untouched

(* START and STOP.                                                         *)
JournalVerb(i, running) ==
  /\ phase = "serving"
  /\ entries[i] # None
  /\ set_desired(i, running)
  /\ intent' = [intent EXCEPT ![i] = IF running THEN "run" ELSE "stop"]
  /\ UNCHANGED Untouched

(* UNLOAD, or a revocation's teardown.                                     *)
JournalDeparted(i) ==
  /\ phase = "serving"
  /\ remove(i)
  /\ intent' = [intent EXCEPT ![i] = "gone"]
  /\ UNCHANGED Untouched

RestoreStep ==
  /\ \/ RestoreRecord /\ UNCHANGED intent
     \/ RestoreKeep /\ UNCHANGED intent
     \/ RestoreDrop
     \/ RestoreRetry
  /\ UNCHANGED <<diskChain, phase, mayStart, todo, bounds, forked, backup>>

JournalNext ==
  \/ Boot
  \/ \E i \in Iid : RestoreTake(i)
  \/ RestoreStep
  \/ RestoreDone
  \/ AppendChain
  \/ \E i \in Iid, d \in Decision, s \in BOOLEAN : JournalPlaced(i, d, s)
  \/ \E i \in Iid, s \in BOOLEAN : JournalVerb(i, s)
  \/ \E i \in Iid : JournalDeparted(i)
  \/ Crash
  \/ CleanShutdown
  \/ FileEvent
  \/ CopyFile

JournalSpec == JournalInit /\ [][JournalNext]_journal

-----------------------------------------------------------------------------
(* Some boots have no chain to check against.                              *)
MayLackChain == FALSE \in ChainModes

(* Journal::save: writing the file before the chain means the node's own   *)
(* file never "look[s] like a replay".  As long as nothing else touched    *)
(* the file, its generation is at least the chain's, in memory and on      *)
(* disk, through crashes, failed writes and generations that ran out.      *)
(* (A node that sometimes boots without its chain keeps this until one of  *)
(* those boots continues below the newest generation it saved.)            *)
OwnFileIsNoReplay ==
  ~external /\ (MayLackChain => ~forked) =>
    /\ file.generation >= diskChain
    /\ chain # None => file.generation >= chain

(* host_journal.rs, Generation: "an older signed copy (a stopped instance  *)
(* as it was when it ran) cannot be put back".  As long as each boot finds *)
(* the newest generation saved in the file or on the chain, a restore      *)
(* starts only instances that the newest save wanted running.              *)
NoStaleStart ==
  ~forked /\ cur # None /\ ~cur.placed /\ RestoreStarts(cur)
    => Says(newestSaid[cur.id]) = "run"

(* What the file says against what the operator was last told: the         *)
(* same, or, if a crash can hit a restore, stopped for an instance that    *)
(* was to run (restore_instances holds a start back by placing it as       *)
(* stopped, and says so before it puts the intent back).                   *)
Honours(told, says) ==
  says = told \/ ("restoring" \in CrashPoints /\ told = "run" /\ says = "stop")

(* host_journal.rs, module comment, and restore_instances: "keep the       *)
(* operator's intent when it was held back".  Unless a save was lost or    *)
(* the file was replaced, the file lists exactly the instances the         *)
(* operator knows of, wherever the daemon crashes: a stop is never lost,   *)
(* and a start only by a crash in the middle of a restore.                 *)
IntentOnDisk ==
  ~external /\ ~faulted /\ ~forked /\ cur = None =>
    \A i \in Iid : Honours(intent[i], Says(file.entries[i]))
==============================================================================
