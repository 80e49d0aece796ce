-------------------------- MODULE HostJournalProofs --------------------------
(***************************************************************************)
(* What HostJournal keeps for every set of instances, every generation     *)
(* range and every number of boots, crashes and file events.               *)
(***************************************************************************)
EXTENDS HostJournal, TLAPS

(* The restore walks entries the journal holds, each of them once.         *)
Walk ==
  /\ \A i \in todo : entries[i] # None
  /\ phase # "restoring" => todo = {} /\ cur = None
  /\ cur # None => cur.id \notin todo

(* A file that is not this node's has no generation of its own.            *)
Unsigned ==
  /\ file.kind # "signed" => file.generation = 0
  /\ backup.kind # "signed" => backup.generation = 0

(* How the generation numbers stand to each other.  While the daemon runs  *)
(* the next save's generation is above everything the chain has, whatever  *)
(* happened to the file; a file not yet on the chain is the newest.        *)
Numbers ==
  /\ phase = "down" => chain = None /\ ~saving
  /\ saving => file.generation = generation /\ generation <= newest
  /\ diskChain <= newest
  /\ chain # None => diskChain <= chain /\ chain <= newest /\ chain <= generation
  /\ ~MayLackChain /\ phase # "down" => chain # None
  /\ MayLackChain /\ phase # "down" /\ ~forked => diskChain <= generation

JournalInv == JournalTypeOK /\ Walk /\ Unsigned /\ Numbers /\ OwnFileIsNoReplay

-----------------------------------------------------------------------------
(* The variables a save touches, besides the entries.                      *)
SavedTypeOK ==
  /\ generation \in Generations /\ file \in File
  /\ chain \in Generations \cup {None} /\ saving \in BOOLEAN
  /\ newest \in Generations /\ newestSaid \in EntryMap
  /\ external \in BOOLEAN /\ faulted \in BOOLEAN

(* Where the number invariants live.                                       *)
Ties == Unsigned /\ Numbers /\ OwnFileIsNoReplay

LEMMA MaxOfBounds ==
  ASSUME NEW a \in Int, NEW b \in Int
  PROVE  /\ MaxOf(a, b) \in {a, b}
         /\ MaxOf(a, b) >= a /\ MaxOf(a, b) >= b
  BY DEF MaxOf

LEMMA GenerationsInt == Generations \subseteq Int /\ 0 \in Generations
  BY HostJournalAssumption DEF Generations

(* A save, whether it succeeds, fails or has run out of generations, keeps *)
(* the numbers in order, and so does an operation that saves nothing.      *)
LEMMA SaveKeepsTies ==
  ASSUME JournalInv, phase # "down", NEW new \in EntryMap,
         Save(new) \/ (NoSave /\ new = entries),
         UNCHANGED <<diskChain, phase, forked, backup>>
  PROVE  entries' = new /\ SavedTypeOK' /\ Ties'
<1> USE GenerationsInt
<1>1. CASE NoSave /\ new = entries
  BY <1>1 DEF NoSave, JournalInv, JournalTypeOK, SavedTypeOK, Ties, Unsigned, Numbers,
              OwnFileIsNoReplay
<1>2. CASE Save(new)
  <2>1. entries' = new
    BY <1>2 DEF Save
  <2>2. CASE /\ generation < MaxGeneration
             /\ generation' = generation + 1
             /\ file' = Signed(generation', new)
             /\ Written(generation', new)
             /\ UNCHANGED <<chain, faulted>>
             /\ saving' \in BOOLEAN
    <3>1. generation' \in Generations
      BY <2>2, HostJournalAssumption DEF JournalInv, JournalTypeOK, Generations
    <3>2. newest' \in Generations /\ newest' >= newest /\ newest' >= generation'
      BY <2>2, <3>1, MaxOfBounds DEF Written, JournalInv, JournalTypeOK
    <3>3. file' \in File /\ file'.kind = "signed" /\ file'.generation = generation'
      BY <2>2, <3>1 DEF File, Signed, FileKind
    <3>4. SavedTypeOK'
      BY <2>2, <3>1, <3>2, <3>3 DEF Written, SavedTypeOK, JournalInv, JournalTypeOK
    <3>5. Unsigned'
      BY <3>3 DEF JournalInv, Unsigned
    <3>6. Numbers'
      <4>1. /\ newest \in Int /\ newest' \in Int /\ generation \in Int /\ generation' \in Int
            /\ diskChain \in Int
            /\ chain # None => chain \in Int
        BY <3>1, <3>2 DEF JournalInv, JournalTypeOK
      <4>2. generation' > generation
        BY <2>2, <4>1
      <4> QED
        BY <2>2, <3>2, <3>3, <4>1, <4>2 DEF Numbers, JournalInv
    <3>7. OwnFileIsNoReplay'
      BY <2>2, <3>1, <3>3 DEF OwnFileIsNoReplay, Numbers, JournalInv, JournalTypeOK
    <3> QED
      BY <2>1, <3>4, <3>5, <3>6, <3>7 DEF Ties
  <2>3. CASE /\ generation < MaxGeneration
             /\ generation' = generation + 1
             /\ faulted' = TRUE
             /\ ~saving
             /\ UNCHANGED <<file, newest, newestSaid, external, saving, chain>>
    <3>1. generation' \in Generations
      BY <2>3, HostJournalAssumption DEF JournalInv, JournalTypeOK, Generations
    <3> QED
      BY <2>1, <2>3, <3>1 DEF JournalInv, JournalTypeOK, SavedTypeOK, Ties, Unsigned, Numbers,
                              OwnFileIsNoReplay
  <2>4. CASE /\ faulted' = TRUE
             /\ UNCHANGED <<generation, file, saving, newest, newestSaid, external, chain>>
    BY <2>1, <2>4 DEF JournalInv, JournalTypeOK, SavedTypeOK, Ties, Unsigned, Numbers,
                      OwnFileIsNoReplay
  <2> QED
    BY <1>2, <2>2, <2>3, <2>4 DEF Save, JournalInv, JournalTypeOK
<1> QED
  BY <1>1, <1>2

(* Every journal operation is a save of one changed entry, or none.        *)
Operation(i) ==
  \/ \E e \in Entry : record(i, e)
  \/ \E running \in BOOLEAN : set_desired(i, running)
  \/ \E n \in 0..(MaxRestoreTries - 1) : set_failures(i, n)
  \/ remove(i)
  \/ NoSave

LEMMA OperationSaves ==
  ASSUME JournalInv, NEW i \in Iid, Operation(i)
  PROVE  \E new \in EntryMap : /\ Save(new) \/ (NoSave /\ new = entries)
                              /\ \A j \in Iid \ {i} : new[j] = entries[j]
<1>1. entries \in EntryMap
  BY DEF JournalInv, JournalTypeOK
<1>2. ASSUME NEW e \in Entry, record(i, e)
      PROVE  \E new \in EntryMap : Save(new) /\ \A j \in Iid \ {i} : new[j] = entries[j]
  <2>1. [entries EXCEPT ![i] = e] \in EntryMap
    BY <1>1 DEF EntryMap
  <2> QED
    BY <1>1, <1>2, <2>1 DEF record, EntryMap
<1>3. ASSUME NEW running \in BOOLEAN, set_desired(i, running), ~NoSave
      PROVE  \E new \in EntryMap : Save(new) /\ \A j \in Iid \ {i} : new[j] = entries[j]
  <2>1. [entries EXCEPT ![i].desired = running] \in EntryMap
    BY <1>1, <1>3 DEF set_desired, EntryMap, Entry
  <2> QED
    BY <1>1, <1>3, <2>1 DEF set_desired, EntryMap
<1>4. ASSUME NEW n \in 0..(MaxRestoreTries - 1), set_failures(i, n), ~NoSave
      PROVE  \E new \in EntryMap : Save(new) /\ \A j \in Iid \ {i} : new[j] = entries[j]
  <2>1. [entries EXCEPT ![i].failures = n] \in EntryMap
    BY <1>1, <1>4 DEF set_failures, EntryMap, Entry
  <2> QED
    BY <1>1, <1>4, <2>1 DEF set_failures, EntryMap
<1>5. ASSUME remove(i), ~NoSave
      PROVE  \E new \in EntryMap : Save(new) /\ \A j \in Iid \ {i} : new[j] = entries[j]
  <2>1. [entries EXCEPT ![i] = None] \in EntryMap
    BY <1>1 DEF EntryMap
  <2> QED
    BY <1>1, <1>5, <2>1 DEF remove, EntryMap
<1> QED
  BY <1>1, <1>2, <1>3, <1>4, <1>5 DEF Operation

LEMMA OperationKeeps ==
  ASSUME JournalInv, phase # "down", NEW i \in Iid, Operation(i),
         UNCHANGED <<diskChain, phase, forked, backup>>
  PROVE  /\ entries' \in EntryMap
         /\ \A j \in Iid \ {i} : entries'[j] = entries[j]
         /\ SavedTypeOK' /\ Ties'
  BY OperationSaves, SaveKeepsTies

-----------------------------------------------------------------------------
(* The type invariant with the part a save changes set apart.              *)
RestTypeOK ==
  /\ diskChain \in Generations
  /\ phase \in {"down", "restoring", "serving"}
  /\ mayStart \in BOOLEAN /\ todo \in SUBSET Iid /\ cur \in Restoring \cup {None}
  /\ boots \in 0..MaxBoots /\ fileEvents \in 0..MaxFileEvents
  /\ intent \in [Iid -> {"gone", "run", "stop"}]
  /\ forked \in BOOLEAN /\ backup \in File

LEMMA InvParts ==
  JournalInv <=> entries \in EntryMap /\ SavedTypeOK /\ RestTypeOK /\ Walk /\ Ties
  BY DEF JournalInv, JournalTypeOK, SavedTypeOK, RestTypeOK, Ties

LEMMA EmptyFile ==
  /\ NoEntries \in EntryMap
  /\ \A k \in FileKind : /\ NotSigned(k) \in File /\ NotSigned(k).kind = k
                         /\ NotSigned(k).generation = 0
  BY GenerationsInt DEF NoEntries, EntryMap, NotSigned, File

(* The initial state satisfies the invariant.                              *)
LEMMA InitEstablishes == JournalInit => JournalInv
<1> SUFFICES ASSUME JournalInit PROVE JournalInv
  OBVIOUS
<1>1. file \in File /\ backup \in File /\ entries \in EntryMap
      /\ file.generation = 0 /\ backup.generation = 0
  BY EmptyFile DEF JournalInit, FileKind
<1>2. JournalTypeOK
  <2>1. boots \in 0..MaxBoots /\ fileEvents \in 0..MaxFileEvents
    BY HostJournalAssumption DEF JournalInit
  <2>2. intent \in [Iid -> {"gone", "run", "stop"}]
    BY DEF JournalInit
  <2>3. /\ saving \in BOOLEAN /\ mayStart \in BOOLEAN
        /\ external \in BOOLEAN /\ faulted \in BOOLEAN /\ forked \in BOOLEAN
    BY Zenon DEF JournalInit
  <2> QED
    BY <1>1, <2>1, <2>2, <2>3, GenerationsInt DEF JournalInit, JournalTypeOK
<1>3. Walk
  BY DEF JournalInit, Walk
<1>4. Unsigned /\ Numbers /\ OwnFileIsNoReplay
  BY <1>1 DEF JournalInit, Unsigned, Numbers, OwnFileIsNoReplay
<1> QED
  BY <1>2, <1>3, <1>4 DEF JournalInv

(* An operation on i while the host serves, or on the entry the restore    *)
(* has come to: nothing the restore still has to do is touched.            *)
LEMMA ServingKeeps ==
  ASSUME JournalInv, phase = "serving", NEW i \in Iid, Operation(i),
         NEW word \in {"gone", "run", "stop"}, intent' = [intent EXCEPT ![i] = word],
         UNCHANGED Untouched
  PROVE  JournalInv'
<1>1. /\ entries' \in EntryMap /\ SavedTypeOK' /\ Ties'
  BY OperationKeeps DEF Untouched
<1>2. RestTypeOK'
  BY InvParts DEF RestTypeOK, Untouched, restore, bounds
<1>3. Walk'
  BY DEF JournalInv, Walk, Untouched, restore
<1> QED
  BY <1>1, <1>2, <1>3
     DEF JournalInv, JournalTypeOK, SavedTypeOK, RestTypeOK, Ties

LEMMA RestoringKeeps ==
  ASSUME JournalInv, cur # None, Operation(cur.id),
         cur' = None \/ cur' = [cur EXCEPT !.placed = TRUE],
         intent' \in [Iid -> {"gone", "run", "stop"}],
         UNCHANGED <<diskChain, phase, mayStart, todo, bounds, forked, backup>>
  PROVE  JournalInv'
<1>1. cur \in Restoring /\ cur.id \in Iid /\ phase = "restoring"
  BY DEF JournalInv, JournalTypeOK, Walk, Restoring
<1>2. /\ entries' \in EntryMap /\ SavedTypeOK' /\ Ties'
      /\ \A j \in Iid \ {cur.id} : entries'[j] = entries[j]
  BY <1>1, OperationKeeps
<1>3. RestTypeOK'
  BY <1>1, InvParts DEF RestTypeOK, Restoring, bounds
<1>4. Walk'
  <2>1. cur' # None => cur'.id = cur.id
    BY <1>1 DEF Restoring
  <2>2. \A j \in todo : j \in Iid \ {cur.id}
    BY DEF JournalInv, JournalTypeOK, Walk
  <2> QED
    BY <1>1, <1>2, <2>1, <2>2 DEF JournalInv, Walk
<1> QED
  BY <1>2, <1>3, <1>4
     DEF JournalInv, JournalTypeOK, SavedTypeOK, RestTypeOK, Ties

(* The serving verbs are operations.                                       *)
LEMMA VerbsKeep ==
  ASSUME JournalInv,
         \/ \E i \in Iid, d \in Decision, s \in BOOLEAN : JournalPlaced(i, d, s)
         \/ \E i \in Iid, s \in BOOLEAN : JournalVerb(i, s)
         \/ \E i \in Iid : JournalDeparted(i)
  PROVE  JournalInv'
<1>1. ASSUME NEW i \in Iid, NEW d \in Decision, NEW s \in BOOLEAN, JournalPlaced(i, d, s)
      PROVE  JournalInv'
  <2> DEFINE e == [decision |-> d, desired |-> s, failures |-> 0]
  <2>1. e \in Entry
    BY HostJournalAssumption DEF Entry
  <2>2. Operation(i)
    BY <1>1, <2>1 DEF JournalPlaced, Operation
  <2>3. PICK word \in {"gone", "run", "stop"} : intent' = [intent EXCEPT ![i] = word]
    BY <1>1 DEF JournalPlaced
  <2> QED
    BY <1>1, <2>2, <2>3, ServingKeeps DEF JournalPlaced
<1>2. ASSUME NEW i \in Iid, NEW s \in BOOLEAN, JournalVerb(i, s)
      PROVE  JournalInv'
  <2>1. Operation(i)
    BY <1>2 DEF JournalVerb, Operation
  <2>2. PICK word \in {"gone", "run", "stop"} : intent' = [intent EXCEPT ![i] = word]
    BY <1>2 DEF JournalVerb
  <2> QED
    BY <1>2, <2>1, <2>2, ServingKeeps DEF JournalVerb
<1>3. ASSUME NEW i \in Iid, JournalDeparted(i)
      PROVE  JournalInv'
  BY <1>3, ServingKeeps DEF JournalDeparted, Operation
<1> QED
  BY <1>1, <1>2, <1>3

(* The restore's steps are operations on the entry it has come to.         *)
LEMMA RestoreIsOperation ==
  ASSUME JournalInv, RestoreStep
  PROVE  /\ cur # None /\ Operation(cur.id)
         /\ cur' = None \/ (cur' = [cur EXCEPT !.placed = TRUE] /\ cur'.placed)
         /\ intent' \in [Iid -> {"gone", "run", "stop"}]
<1>1. intent \in [Iid -> {"gone", "run", "stop"}]
  BY DEF JournalInv, JournalTypeOK
<1>2. cur # None => cur \in Restoring /\ cur.id \in Iid /\ cur.entry \in Entry
  BY DEF JournalInv, JournalTypeOK, Restoring
<1>3. CASE RestoreRecord /\ UNCHANGED intent
  <2> DEFINE e == [decision |-> cur.entry.decision, desired |-> RestoreStarts(cur),
                   failures |-> 0]
  <2>1. e \in Entry
    BY <1>2, <1>3, HostJournalAssumption DEF RestoreRecord, RestoreStarts, Entry
  <2>2. Operation(cur.id)
    BY <1>3, <2>1 DEF RestoreRecord, Operation
  <2> QED
    BY <1>1, <1>2, <1>3, <2>2 DEF RestoreRecord, Restoring
<1>4. CASE RestoreKeep /\ UNCHANGED intent
  BY <1>1, <1>4 DEF RestoreKeep, Operation
<1>5. CASE RestoreDrop
  BY <1>1, <1>5 DEF RestoreDrop, Operation
<1>6. CASE RestoreRetry
  <2>1. cur.entry.failures + 1 \in 0..(MaxRestoreTries - 1)
    BY <1>2, <1>6, HostJournalAssumption DEF RestoreRetry, Entry
  <2> QED
    BY <1>1, <1>6, <2>1 DEF RestoreRetry, Operation
<1> QED
  BY <1>3, <1>4, <1>5, <1>6 DEF RestoreStep

LEMMA RestoreKeeps ==
  ASSUME JournalInv, RestoreStep
  PROVE  JournalInv'
  BY RestoreIsOperation, RestoringKeeps DEF RestoreStep

(* A boot starts from a generation at or above the chain's.                *)
LEMMA BootKeeps ==
  ASSUME JournalInv, Boot
  PROVE  JournalInv'
<1> USE GenerationsInt
<1> DEFINE latest(h) == IF h THEN diskChain ELSE None
           taken(h) == RestoreVerdict(latest(h)) \in {"ok", "unverified"}
<1>1. PICK h \in ChainModes :
        /\ chain' = latest(h)
        /\ SetChain(latest(h))
        /\ entries' = IF taken(h) THEN ReadEntries ELSE NoEntries
        /\ mayStart' = (RestoreVerdict(latest(h)) = "ok")
        /\ todo' = {i \in Iid : taken(h) /\ ReadEntries[i] # None}
        /\ phase' = IF taken(h) THEN "restoring" ELSE "serving"
        /\ intent' = IF taken(h) /\ ~external THEN intent
                     ELSE [i \in Iid |-> Says(entries'[i])]
        /\ forked' = (forked \/ generation' < newest)
  BY DEF Boot
<1>2. /\ file' = (IF file.kind = "unreadable" THEN NotSigned("missing") ELSE file)
      /\ saving' = FALSE /\ cur' = None
      /\ boots < MaxBoots /\ boots' = boots + 1
      /\ UNCHANGED <<diskChain, fileEvents, newest, newestSaid, external, faulted, backup>>
  BY DEF Boot
<1>3. h \in BOOLEAN /\ (~MayLackChain => h)
  BY <1>1, HostJournalAssumption DEF MayLackChain
<1>4. /\ ReadEntries \in EntryMap /\ ReadGeneration \in Generations
      /\ ReadGeneration = file.generation
  BY EmptyFile DEF ReadEntries, ReadGeneration, JournalInv, JournalTypeOK, File, Unsigned
<1>5. /\ file' \in File /\ file'.generation = file.generation
      /\ file'.kind # "signed" => file'.generation = 0
  BY <1>2, EmptyFile DEF FileKind, JournalInv, JournalTypeOK, Unsigned
<1>6. chain' \in Generations \cup {None} /\ (chain' # None => chain' = diskChain)
  BY <1>1, <1>3 DEF JournalInv, JournalTypeOK
<1>7. /\ generation' \in Generations /\ generation' >= ReadGeneration
      /\ chain' # None => generation' >= chain'
  BY <1>1, <1>3, <1>4, MaxOfBounds DEF SetChain, JournalInv, JournalTypeOK
<1>8. JournalTypeOK'
  <2>1. entries' \in EntryMap
    BY <1>1, <1>4, EmptyFile
  <2>2. boots' \in 0..MaxBoots
    BY <1>2, HostJournalAssumption DEF JournalInv, JournalTypeOK
  <2>3. intent' \in [Iid -> {"gone", "run", "stop"}]
    BY <1>1 DEF JournalInv, JournalTypeOK, Says
  <2>4. mayStart' \in BOOLEAN /\ forked' \in BOOLEAN
    BY <1>1, Zenon
  <2>5. todo' \in SUBSET Iid /\ phase' \in {"down", "restoring", "serving"}
    BY <1>1
  <2> QED
    BY <1>2, <1>5, <1>6, <1>7, <2>1, <2>2, <2>3, <2>4, <2>5 DEF JournalInv, JournalTypeOK
<1>9. Walk'
  BY <1>1, <1>2 DEF Walk
<1>10. Unsigned'
  BY <1>2, <1>5 DEF JournalInv, Unsigned
<1>11. Numbers'
  <2>1. phase' # "down"
    BY <1>1
  <2>2. ~MayLackChain => chain' # None
    BY <1>1, <1>3, HostJournalAssumption DEF JournalInv, JournalTypeOK, Generations
  <2>3. ~forked' => diskChain <= generation'
    <3>1. ~forked' => ~(generation' < newest)
      BY <1>1, Zenon
    <3> QED
      BY <1>7, <3>1 DEF JournalInv, JournalTypeOK, Numbers
  <2> QED
    BY <1>2, <1>6, <1>7, <2>1, <2>2, <2>3 DEF JournalInv, Numbers, JournalTypeOK
<1>12. OwnFileIsNoReplay'
  <2>1. forked => forked'
    BY <1>1
  <2> QED
    BY <1>2, <1>5, <1>6, <2>1 DEF JournalInv, OwnFileIsNoReplay
<1> QED
  BY <1>8, <1>9, <1>10, <1>11, <1>12 DEF JournalInv

(* The chain event of a finished save.                                     *)
LEMMA AppendKeeps ==
  ASSUME JournalInv, AppendChain
  PROVE  JournalInv'
<1> USE GenerationsInt
<1>1. /\ chain' \in Generations \cup {None}
      /\ chain' # None => /\ chain # None /\ chain' >= chain
                         /\ chain' \in {chain, generation}
  BY MaxOfBounds DEF AppendChain, JournalInv, JournalTypeOK
<1>2. chain' = None => chain = None
  BY MaxOfBounds, HostJournalAssumption DEF AppendChain, JournalInv, JournalTypeOK, Generations
<1>3. /\ saving /\ saving' = FALSE
      /\ UNCHANGED <<entries, generation, disk, phase, restore, bounds, history>>
  BY DEF AppendChain
<1>4. JournalTypeOK'
  BY <1>1, <1>3 DEF JournalInv, JournalTypeOK, disk, restore, bounds, history
<1>5. Walk' /\ Unsigned'
  BY <1>3 DEF JournalInv, Walk, Unsigned, disk, restore, history
<1>6. Numbers'
  BY <1>1, <1>2, <1>3 DEF JournalInv, JournalTypeOK, Numbers, disk, history
<1>7. OwnFileIsNoReplay'
  BY <1>1, <1>3 DEF JournalInv, JournalTypeOK, Numbers, OwnFileIsNoReplay, disk, history
<1> QED
  BY <1>4, <1>5, <1>6, <1>7 DEF JournalInv

(* A crash or a clean shutdown: the chain on disk stays, or becomes what   *)
(* memory had.                                                             *)
LEMMA StopKeeps ==
  ASSUME JournalInv, Crash \/ CleanShutdown
  PROVE  JournalInv'
<1> USE GenerationsInt
<1>1. DaemonGone
  BY DEF Crash, CleanShutdown
<1>2. /\ diskChain' \in Generations
      /\ diskChain' = diskChain \/ (chain # None /\ diskChain' = chain)
  BY DEF Crash, CleanShutdown, JournalInv, JournalTypeOK
<1>3. JournalTypeOK'
  BY <1>1, <1>2, EmptyFile
     DEF DaemonGone, JournalInv, JournalTypeOK, bounds, history
<1>4. Walk' /\ Unsigned'
  BY <1>1 DEF DaemonGone, JournalInv, Walk, Unsigned, history
<1>5. Numbers'
  BY <1>1, <1>2 DEF DaemonGone, JournalInv, Numbers, history
<1>6. OwnFileIsNoReplay'
  BY <1>1, <1>2 DEF DaemonGone, JournalInv, OwnFileIsNoReplay, history
<1> QED
  BY <1>3, <1>4, <1>5, <1>6 DEF JournalInv

(* What happens to the file while the daemon is down makes it external.    *)
LEMMA FileEventKeeps ==
  ASSUME JournalInv, FileEvent
  PROVE  JournalInv'
<1>1. PICK ev \in FileEvents :
        file' = CASE ev = "delete" -> NotSigned("missing")
                  [] ev = "damage" -> NotSigned("unreadable")
                  [] ev = "edit" -> NotSigned("refused")
                  [] ev = "rollback" -> backup
  BY DEF FileEvent
<1>2. file' = backup \/ \E k \in FileKind : file' = NotSigned(k)
  BY <1>1, HostJournalAssumption DEF FileKind
<1>3. file' \in File /\ (file'.kind # "signed" => file'.generation = 0)
  BY <1>2, EmptyFile DEF JournalInv, JournalTypeOK, Unsigned
<1>4. fileEvents' \in 0..MaxFileEvents
  BY HostJournalAssumption DEF FileEvent, JournalInv, JournalTypeOK
<1>5. /\ phase = "down" /\ external' = TRUE
      /\ UNCHANGED <<memory, diskChain, phase, restore, boots, intent, newest, newestSaid,
                     faulted, forked, backup>>
  BY DEF FileEvent
<1>6. JournalTypeOK'
  BY <1>3, <1>4, <1>5 DEF JournalInv, JournalTypeOK, memory, restore
<1>7. Walk' /\ Unsigned'
  BY <1>3, <1>5 DEF JournalInv, Walk, Unsigned, memory, restore
<1>8. Numbers'
  BY <1>5 DEF JournalInv, Numbers, memory
<1>9. OwnFileIsNoReplay'
  BY <1>5 DEF OwnFileIsNoReplay
<1> QED
  BY <1>6, <1>7, <1>8, <1>9 DEF JournalInv

(* The steps that move the restore along, copy the file or stutter.        *)
LEMMA QuietKeeps ==
  ASSUME JournalInv,
         (\E i \in Iid : RestoreTake(i)) \/ RestoreDone \/ CopyFile \/ UNCHANGED journal
  PROVE  JournalInv'
<1> USE DEF memory, disk, restore, bounds, history
<1>1. ASSUME NEW i \in Iid, RestoreTake(i)
      PROVE  JournalInv'
  <2>1. /\ cur' = [id |-> i, entry |-> entries[i], placed |-> FALSE]
        /\ todo' = todo \ {i} /\ i \in todo /\ phase = "restoring"
        /\ UNCHANGED <<memory, disk, phase, mayStart, bounds, history>>
    BY <1>1 DEF RestoreTake
  <2>2. cur' \in Restoring /\ cur'.id = i
    BY <2>1 DEF JournalInv, JournalTypeOK, Walk, EntryMap, Restoring
  <2>3. JournalTypeOK'
    BY <2>1, <2>2 DEF JournalInv, JournalTypeOK
  <2>4. Walk'
    BY <2>1, <2>2 DEF JournalInv, Walk
  <2> QED
    BY <2>1, <2>3, <2>4 DEF JournalInv, Unsigned, Numbers, OwnFileIsNoReplay
<1>2. CASE RestoreDone
  <2>1. /\ todo = {} /\ cur = None /\ phase = "restoring" /\ phase' = "serving"
        /\ UNCHANGED <<memory, disk, restore, bounds, history>>
    BY <1>2 DEF RestoreDone
  <2>2. JournalTypeOK' /\ Walk'
    BY <2>1 DEF JournalInv, JournalTypeOK, Walk
  <2> QED
    BY <2>1, <2>2 DEF JournalInv, Unsigned, Numbers, OwnFileIsNoReplay
<1>3. CASE CopyFile
  <2>1. /\ backup' = file
        /\ UNCHANGED <<memory, disk, phase, restore, bounds, intent, newest, newestSaid,
                       external, faulted, forked>>
    BY <1>3 DEF CopyFile
  <2>2. JournalTypeOK'
    BY <2>1 DEF JournalInv, JournalTypeOK
  <2> QED
    BY <2>1, <2>2 DEF JournalInv, Walk, Unsigned, Numbers, OwnFileIsNoReplay
<1>4. CASE UNCHANGED journal
  BY <1>4 DEF journal, JournalInv, JournalTypeOK, Walk, Unsigned, Numbers, OwnFileIsNoReplay
<1> QED
  BY <1>1, <1>2, <1>3, <1>4

-----------------------------------------------------------------------------
(* The invariant holds at every step of the journal: the types, the order  *)
(* of the generation numbers and the walk of the restore.                  *)
THEOREM JournalInvariance == JournalSpec => []JournalInv
<1>1. JournalInv /\ [JournalNext]_journal => JournalInv'
  BY BootKeeps, RestoreKeeps, AppendKeeps, VerbsKeep, StopKeeps, FileEventKeeps, QuietKeeps
     DEF JournalNext
<1> QED
  BY InitEstablishes, <1>1, PTL DEF JournalSpec

(* host_journal.rs, types: whatever is journaled, lost, damaged or rolled  *)
(* back, the journal's state stays well formed; the generation in          *)
(* particular never leaves its range.                                      *)
THEOREM JournalTypeCorrect == JournalSpec => []JournalTypeOK
<1>1. JournalInv => JournalTypeOK
  BY DEF JournalInv
<1> QED
  BY JournalInvariance, <1>1, PTL

(* Journal::save: a node's own journal file is never behind its chain, so  *)
(* a restart never takes it for a replay and refuses it.                   *)
THEOREM OwnFileAccepted == JournalSpec => []OwnFileIsNoReplay
<1>1. JournalInv => OwnFileIsNoReplay
  BY DEF JournalInv
<1> QED
  BY JournalInvariance, <1>1, PTL

-----------------------------------------------------------------------------
(* Nothing on disk is newer than the newest save, and until generations    *)
(* are used twice a file of that generation is that save: so what a        *)
(* restore takes from a file it accepted is what that save said.           *)
Fresh ==
  /\ newest = 0 => newestSaid = NoEntries
  /\ file.generation <= newest /\ backup.generation <= newest
  /\ ~forked =>
       /\ file.kind = "signed" /\ file.generation = newest => file.entries = newestSaid
       /\ backup.kind = "signed" /\ backup.generation = newest => backup.entries = newestSaid
       /\ phase # "down" => newest <= generation
       /\ \A i \in todo : newestSaid[i] = entries[i]
       /\ cur # None /\ ~cur.placed => newestSaid[cur.id] = cur.entry


(* A save is the newest, unless generations are used twice.                *)
LEMMA SaveKeepsFresh ==
  ASSUME JournalInv, Fresh, phase # "down", NEW new \in EntryMap,
         Save(new) \/ (NoSave /\ new = entries),
         UNCHANGED <<phase, forked, backup>>
  PROVE  /\ newest' = 0 => newestSaid' = NoEntries
         /\ file'.generation <= newest' /\ backup'.generation <= newest'
         /\ ~forked =>
              /\ file'.kind = "signed" /\ file'.generation = newest' => file'.entries = newestSaid'
              /\ backup'.kind = "signed" /\ backup'.generation = newest'
                   => backup'.entries = newestSaid'
              /\ newest' <= generation'
              /\ newestSaid' = newestSaid \/ newestSaid' = new
<1> USE GenerationsInt
<1>1. /\ newest \in Int /\ generation \in Int /\ newest >= 0 /\ generation >= 0
      /\ file.generation \in Int /\ backup.generation \in Int
  BY DEF JournalInv, JournalTypeOK, File, Generations
<1>2. CASE UNCHANGED <<file, newest, newestSaid>> /\ generation' \in {generation, generation + 1}
  BY <1>1, <1>2 DEF Fresh
<1>3. CASE /\ generation' = generation + 1
           /\ file' = Signed(generation', new)
           /\ Written(generation', new)
  <2>1. /\ file'.kind = "signed" /\ file'.generation = generation' /\ file'.entries = new
    BY <1>3 DEF Signed
  <2>2. newest' \in Int /\ newest' >= generation' /\ newest' >= newest /\ newest' > 0
        /\ newest' \in {newest, generation'}
    BY <1>1, <1>3, MaxOfBounds DEF Written
  <2>3. ~forked => generation' > newest
    BY <1>1, <1>3 DEF Fresh
  <2>4. ~forked => newestSaid' = new /\ newest' = generation'
    BY <1>1, <1>3, <2>2, <2>3 DEF Written
  <2> QED
    BY <1>1, <1>3, <2>1, <2>2, <2>3, <2>4 DEF Fresh
<1> QED
  BY <1>2, <1>3 DEF Save, NoSave

(* An operation leaves alone what the restore has not come to yet.         *)
LEMMA OperationKeepsFresh ==
  ASSUME JournalInv, Fresh, phase # "down", NEW i \in Iid, Operation(i),
         UNCHANGED <<phase, forked, backup, todo>>, i \notin todo,
         cur' # None => cur'.placed
  PROVE  Fresh'
<1>1. PICK new \in EntryMap : /\ Save(new) \/ (NoSave /\ new = entries)
                             /\ \A j \in Iid \ {i} : new[j] = entries[j]
  BY OperationSaves
<1>2. entries' = new
  BY <1>1 DEF Save, NoSave
<1>3. \A j \in todo : j \in Iid \ {i}
  BY DEF JournalInv, JournalTypeOK
<1>4. ~forked => \A j \in todo' : newestSaid'[j] = entries'[j]
  BY <1>1, <1>2, <1>3, SaveKeepsFresh DEF Fresh
<1> QED
  BY <1>1, <1>4, SaveKeepsFresh DEF Fresh

(* A boot that accepts the file accepts the newest save, if it does not    *)
(* start to use generations twice.                                         *)
LEMMA BootKeepsFresh ==
  ASSUME JournalInv, Fresh, Boot
  PROVE  Fresh'
<1> USE GenerationsInt
<1> DEFINE latest(h) == IF h THEN diskChain ELSE None
           taken(h) == RestoreVerdict(latest(h)) \in {"ok", "unverified"}
<1>1. PICK h \in ChainModes :
        /\ SetChain(latest(h))
        /\ entries' = IF taken(h) THEN ReadEntries ELSE NoEntries
        /\ todo' = {i \in Iid : taken(h) /\ ReadEntries[i] # None}
        /\ forked' = (forked \/ generation' < newest)
  BY DEF Boot
<1>2. /\ file' = (IF file.kind = "unreadable" THEN NotSigned("missing") ELSE file)
      /\ cur' = None
      /\ UNCHANGED <<newest, newestSaid, backup>>
  BY DEF Boot
<1>3. /\ newest \in Int /\ newest >= 0 /\ file.generation \in Int /\ file.generation <= newest
      /\ ReadGeneration = file.generation
      /\ h \in BOOLEAN /\ diskChain \in Int /\ diskChain # None
  BY HostJournalAssumption
     DEF JournalInv, JournalTypeOK, File, Generations, Fresh, Unsigned, ReadGeneration
<1>4. generation' = ReadGeneration \/ (h /\ generation' = diskChain /\ diskChain > ReadGeneration)
  BY <1>1, <1>3 DEF SetChain, MaxOf
<1>5. /\ file'.generation = file.generation
      /\ file'.kind = "signed" => file' = file
  BY <1>2, EmptyFile DEF FileKind, JournalInv, Unsigned
<1>6. generation' \in Int
  BY <1>3, <1>4
<1>7. ~forked' => ~forked /\ newest <= generation'
  <2>1. ~forked' => ~forked /\ ~(generation' < newest)
    BY <1>1, Zenon
  <2> QED
    BY <1>3, <1>6, <2>1
<1>8. taken(h) => ~(h /\ diskChain > ReadGeneration)
  BY <1>3 DEF RestoreVerdict
<1>9. taken(h) /\ ~forked' => ReadEntries = newestSaid
  <2>1. taken(h) /\ ~forked' => ReadGeneration = newest
    BY <1>3, <1>4, <1>7, <1>8
  <2> QED
    BY <1>3, <1>7, <2>1 DEF Fresh, ReadEntries, Unsigned, JournalInv
<1>10. ~forked' => \A i \in todo' : newestSaid[i] = entries'[i]
  BY <1>1, <1>9
<1> QED
  BY <1>2, <1>3, <1>5, <1>7, <1>10 DEF Fresh

(* The restore takes the next entry as the journal has it.                 *)
LEMMA TakeKeepsFresh ==
  ASSUME JournalInv, Fresh, NEW i \in Iid, RestoreTake(i)
  PROVE  Fresh'
<1>1. /\ cur' = [id |-> i, entry |-> entries[i], placed |-> FALSE]
      /\ todo' = todo \ {i} /\ i \in todo
      /\ UNCHANGED <<memory, disk, phase, history>>
  BY DEF RestoreTake
<1>2. cur'.id = i /\ cur'.entry = entries[i]
  BY <1>1
<1> QED
  BY <1>1, <1>2 DEF Fresh, memory, disk, history

LEMMA NextKeepsFresh ==
  ASSUME JournalInv, Fresh, [JournalNext]_journal
  PROVE  Fresh'
<1>1. ASSUME NEW i \in Iid, phase = "serving", Operation(i), UNCHANGED Untouched
      PROVE  Fresh'
  BY <1>1, OperationKeepsFresh DEF Untouched, restore, JournalInv, Walk
<1>2. CASE \E i \in Iid, d \in Decision, s \in BOOLEAN : JournalPlaced(i, d, s)
  <2>1. PICK i \in Iid, d \in Decision, s \in BOOLEAN : JournalPlaced(i, d, s)
    BY <1>2
  <2>2. [decision |-> d, desired |-> s, failures |-> 0] \in Entry
    BY HostJournalAssumption DEF Entry
  <2> QED
    BY <1>1, <2>1, <2>2 DEF JournalPlaced, Operation
<1>3. CASE \/ \E i \in Iid, s \in BOOLEAN : JournalVerb(i, s)
           \/ \E i \in Iid : JournalDeparted(i)
  BY <1>1, <1>3 DEF JournalVerb, JournalDeparted, Operation
<1>4. CASE RestoreStep
  <2>1. cur # None /\ cur.id \in Iid /\ cur.id \notin todo /\ phase # "down"
    BY <1>4 DEF RestoreStep, RestoreRecord, RestoreKeep, RestoreDrop, RestoreRetry,
                JournalInv, JournalTypeOK, Walk, Restoring
  <2>2. Operation(cur.id) /\ (cur' # None => cur'.placed)
    BY <1>4, RestoreIsOperation
  <2> QED
    BY <1>4, <2>1, <2>2, OperationKeepsFresh DEF RestoreStep
<1>5. CASE Crash \/ CleanShutdown
  BY <1>5 DEF Crash, CleanShutdown, DaemonGone, Fresh, history
<1>6. CASE FileEvent
  <2>1. /\ file' = backup \/ \E k \in FileKind \ {"signed"} : file' = NotSigned(k)
    BY <1>6, HostJournalAssumption DEF FileEvent, FileKind
  <2>2. /\ phase = "down"
        /\ UNCHANGED <<memory, phase, restore, newest, newestSaid, forked, backup>>
    BY <1>6 DEF FileEvent
  <2>3. \A k \in FileKind \ {"signed"} :
          NotSigned(k).kind # "signed" /\ NotSigned(k).generation <= newest
    BY EmptyFile DEF JournalInv, JournalTypeOK, Generations
  <2> QED
    BY <2>1, <2>2, <2>3 DEF Fresh, memory, restore
<1>7. CASE CopyFile \/ RestoreDone \/ AppendChain \/ UNCHANGED journal
  BY <1>7 DEF CopyFile, RestoreDone, AppendChain, Fresh, journal, memory, disk, restore, history,
              JournalInv, Walk
<1> QED
  BY <1>2, <1>3, <1>4, <1>5, <1>6, <1>7, BootKeepsFresh, TakeKeepsFresh DEF JournalNext

LEMMA FreshInvariance == JournalSpec => []Fresh
<1>1. JournalInit => Fresh
  <2> SUFFICES ASSUME JournalInit PROVE Fresh
    OBVIOUS
  <2>1. "missing" \in FileKind \ {"signed"}
    BY DEF FileKind
  <2>2. file.generation = 0 /\ backup.generation = 0
        /\ file.kind # "signed" /\ backup.kind # "signed"
    BY <2>1, EmptyFile DEF JournalInit
  <2> QED
    BY <2>2 DEF JournalInit, Fresh
<1>2. JournalInv /\ Fresh /\ [JournalNext]_journal => Fresh'
  BY NextKeepsFresh
<1> QED
  BY JournalInvariance, <1>1, <1>2, PTL DEF JournalSpec

(* host_journal.rs, Generation: as long as each boot finds the newest      *)
(* generation in the file or on the chain, no restore starts an instance   *)
(* the newest save did not want running, whichever older copies of the     *)
(* file are put back and wherever the daemon crashed.                      *)
THEOREM NoStaleStartHolds == JournalSpec => []NoStaleStart
<1>1. JournalInv /\ Fresh => NoStaleStart
  <2> SUFFICES ASSUME JournalInv, Fresh,
                      ~forked, cur # None, ~cur.placed, RestoreStarts(cur)
               PROVE  Says(newestSaid[cur.id]) = "run"
    BY DEF NoStaleStart
  <2>1. newestSaid[cur.id] = cur.entry
    BY DEF Fresh
  <2>2. cur.entry \in Entry
    BY DEF JournalInv, JournalTypeOK, Restoring
  <2>3. cur.entry # None
    BY <2>2, HostJournalAssumption
  <2>4. cur.entry.desired
    BY Zenon DEF RestoreStarts
  <2>5. Says(cur.entry) = "run"
    BY <2>3, <2>4 DEF Says
  <2> QED
    BY <2>1, <2>5
<1> QED
  BY JournalInvariance, FreshInvariance, <1>1, PTL

-----------------------------------------------------------------------------
(* The journal keeps what the operator was told.  If the daemon does not   *)
(* crash in the middle of a restore, the file says what the operator was   *)
(* last told, unless a save was lost or the file is no longer the node's   *)
(* own.                                                                    *)

Sound == ~external /\ ~faulted /\ ~forked

(* What is on disk and not signed says nothing; the node itself only       *)
(* leaves a signed file or none.                                           *)
Blank ==
  /\ ~external => file.kind \in {"missing", "signed"}
  /\ file.kind # "signed" => file.entries = NoEntries
  /\ backup.kind # "signed" => backup.entries = NoEntries

(* While the daemon runs, memory says what the operator was told, but for  *)
(* the entry a restore is at: that one is as it was taken until place      *)
(* records it, and then says run only if the start was not held back.      *)
MemorySays ==
  /\ \A i \in Iid : cur = None \/ cur.id # i => Honours(intent[i], Says(entries[i]))
  /\ cur # None => Honours(intent[cur.id], Says(cur.entry))
  /\ cur # None /\ ~cur.placed => entries[cur.id] = cur.entry
  /\ cur # None /\ cur.placed =>
       Says(entries[cur.id]) = IF RestoreStarts(cur) THEN "run" ELSE "stop"

(* The file says what memory says, or said when the daemon stopped.        *)
Meant ==
  /\ Blank
  /\ ~faulted /\ ~forked /\ phase # "down" => MemorySays
  /\ Sound /\ phase # "down" => file.entries = entries
  /\ Sound /\ phase = "down" => \A i \in Iid : Honours(intent[i], Says(file.entries[i]))

-----------------------------------------------------------------------------
LEMMA SameIsHonoured == \A word : Honours(word, word)
  BY DEF Honours

LEMMA SaysOf ==
  /\ \A e \in Entry : Says(e) = IF e.desired THEN "run" ELSE "stop"
  /\ Says(None) = "gone"
<1>1. \A e \in Entry : e # None
  BY HostJournalAssumption
<1> QED
  BY <1>1, Zenon DEF Says

(* After a save that was not lost the file is what memory is.              *)
LEMMA SaveKeepsFile ==
  ASSUME JournalInv, Meant, phase # "down", NEW new \in EntryMap,
         Save(new) \/ (NoSave /\ new = entries),
         UNCHANGED <<phase, forked, backup>>
  PROVE  /\ Blank' /\ (faulted => faulted')
         /\ entries' = new
         /\ Sound' => file'.entries = entries'
<1>1. CASE UNCHANGED <<entries, file, external, faulted>>
  BY <1>1 DEF Meant, Blank, Sound, Save, NoSave
<1>2. CASE entries' = new /\ faulted' = TRUE /\ UNCHANGED <<file, external>>
  BY <1>2 DEF Meant, Blank, Sound
<1>3. CASE entries' = new /\ file' = Signed(generation', new) /\ UNCHANGED faulted
  BY <1>3 DEF Meant, Blank, Signed
<1> QED
  BY <1>1, <1>2, <1>3 DEF Save, NoSave, Written

(* Each operation, by what the entry it is about says afterwards.          *)
LEMMA WhatIsSaid ==
  ASSUME JournalInv, NEW i \in Iid
  PROVE  /\ \A e \in Entry : record(i, e) => entries'[i] = e
         /\ \A running \in BOOLEAN : set_desired(i, running) /\ entries[i] # None
              => Says(entries'[i]) = IF running THEN "run" ELSE "stop"
         /\ \A n \in 0..(MaxRestoreTries - 1) : set_failures(i, n)
              => Says(entries'[i]) = Says(entries[i])
         /\ remove(i) => entries'[i] = None
<1>1. entries \in EntryMap /\ (entries[i] # None => entries[i] \in Entry)
  BY DEF JournalInv, JournalTypeOK, EntryMap
<1>2. ASSUME NEW e \in Entry, record(i, e)
      PROVE  entries'[i] = e
  BY <1>1, <1>2 DEF record, Save, EntryMap
<1>3. ASSUME NEW running \in BOOLEAN, set_desired(i, running), entries[i] # None
      PROVE  Says(entries'[i]) = IF running THEN "run" ELSE "stop"
  <2>1. CASE entries[i].desired = running
    BY <1>1, <1>3, <2>1, SaysOf DEF set_desired, NoSave
  <2>2. CASE entries[i].desired # running
    <3>1. entries'[i] = [entries[i] EXCEPT !.desired = running]
      BY <1>1, <1>3, <2>2 DEF set_desired, Save, EntryMap
    <3>2. entries'[i] \in Entry /\ entries'[i].desired = running
      BY <1>1, <1>3, <3>1 DEF Entry
    <3> QED
      BY <3>2, SaysOf
  <2> QED
    BY <2>1, <2>2
<1>4. ASSUME NEW n \in 0..(MaxRestoreTries - 1), set_failures(i, n)
      PROVE  Says(entries'[i]) = Says(entries[i])
  <2>1. CASE entries[i] # None /\ entries[i].failures # n
    <3>1. entries'[i] = [entries[i] EXCEPT !.failures = n]
      BY <1>1, <1>4, <2>1 DEF set_failures, Save, EntryMap
    <3>2. entries'[i] \in Entry /\ entries'[i].desired = entries[i].desired
      BY <1>1, <2>1, <3>1 DEF Entry
    <3> QED
      BY <1>1, <2>1, <3>2, SaysOf
  <2>2. CASE ~(entries[i] # None /\ entries[i].failures # n)
    BY <1>4, <2>2 DEF set_failures, NoSave
  <2> QED
    BY <2>1, <2>2
<1>5. ASSUME remove(i)
      PROVE  entries'[i] = None
  BY <1>1, <1>5 DEF remove, Save, NoSave, EntryMap
<1> QED
  BY <1>2, <1>3, <1>4, <1>5

(* An operation on i that keeps the promise about i keeps it for all.      *)
LEMMA OperationKeepsMeant ==
  ASSUME JournalInv, Meant, phase # "down", NEW i \in Iid, Operation(i),
         UNCHANGED <<phase, forked, backup>>,
         \A j \in Iid \ {i} : intent'[j] = intent[j],
         cur # None => cur.id = i,
         ~faulted /\ ~forked => 
           \/ cur' = None /\ Honours(intent'[i], Says(entries'[i]))
           \/ /\ cur' # None /\ cur'.id = i /\ cur'.placed
              /\ Honours(intent'[i], Says(cur'.entry))
              /\ Says(entries'[i]) = IF RestoreStarts(cur)' THEN "run" ELSE "stop"
  PROVE  Meant'
<1>1. PICK new \in EntryMap : /\ Save(new) \/ (NoSave /\ new = entries)
                             /\ \A j \in Iid \ {i} : new[j] = entries[j]
  BY OperationSaves
<1>2. /\ Blank' /\ (faulted => faulted')
      /\ entries' = new
      /\ Sound' => file'.entries = entries'
  BY <1>1, SaveKeepsFile
<1>3. ASSUME ~faulted', ~forked'
      PROVE  MemorySays'
  <2>1. ~faulted /\ ~forked
    BY <1>2, <1>3
  <2>2. \A j \in Iid \ {i} : Honours(intent'[j], Says(entries'[j]))
    BY <1>1, <1>2, <2>1 DEF Meant, MemorySays
  <2> QED
    BY <2>1, <2>2 DEF MemorySays
<1> QED
  BY <1>2, <1>3 DEF Meant

-----------------------------------------------------------------------------
(* The verbs: the operator is told what was saved.                         *)
LEMMA VerbsKeepMeant ==
  ASSUME JournalInv, Meant,
         \/ \E i \in Iid, d \in Decision, s \in BOOLEAN : JournalPlaced(i, d, s)
         \/ \E i \in Iid, s \in BOOLEAN : JournalVerb(i, s)
         \/ \E i \in Iid : JournalDeparted(i)
  PROVE  Meant'
<1>1. ASSUME NEW i \in Iid, phase = "serving", Operation(i), UNCHANGED Untouched,
             NEW word \in {"gone", "run", "stop"}, intent' = [intent EXCEPT ![i] = word],
             Says(entries'[i]) = word
      PROVE  Meant'
  <2>1. cur = None /\ cur' = None
    BY <1>1 DEF JournalInv, Walk, Untouched, restore
  <2>2. /\ \A j \in Iid \ {i} : intent'[j] = intent[j]
        /\ Honours(intent'[i], Says(entries'[i]))
    BY <1>1, SameIsHonoured DEF JournalInv, JournalTypeOK
  <2>3. phase # "down" /\ UNCHANGED <<phase, forked, backup>>
    BY <1>1 DEF Untouched
  <2> QED
    BY <1>1, <2>1, <2>2, <2>3, OperationKeepsMeant
<1>2. ASSUME NEW i \in Iid, NEW d \in Decision, NEW s \in BOOLEAN, JournalPlaced(i, d, s)
      PROVE  Meant'
  <2> DEFINE e == [decision |-> d, desired |-> s, failures |-> 0]
  <2>1. e \in Entry /\ e.desired = s
    BY HostJournalAssumption DEF Entry
  <2>2. Operation(i) /\ entries'[i] = e
    BY <1>2, <2>1, WhatIsSaid DEF JournalPlaced, Operation
  <2>3. Says(entries'[i]) = IF s THEN "run" ELSE "stop"
    BY <2>1, <2>2, SaysOf
  <2> QED
    BY <1>1, <1>2, <2>2, <2>3 DEF JournalPlaced
<1>3. ASSUME NEW i \in Iid, NEW s \in BOOLEAN, JournalVerb(i, s)
      PROVE  Meant'
  <2>1. Operation(i) /\ Says(entries'[i]) = IF s THEN "run" ELSE "stop"
    BY <1>3, WhatIsSaid DEF JournalVerb, Operation
  <2> QED
    BY <1>1, <1>3, <2>1 DEF JournalVerb
<1>4. ASSUME NEW i \in Iid, JournalDeparted(i)
      PROVE  Meant'
  <2>1. Operation(i) /\ Says(entries'[i]) = "gone"
    BY <1>4, WhatIsSaid, SaysOf DEF JournalDeparted, Operation
  <2> QED
    BY <1>1, <1>4, <2>1 DEF JournalDeparted
<1> QED
  BY <1>2, <1>3, <1>4

(* The restore: what it writes first may say less than the operator was    *)
(* told, and its last write puts that right.                               *)
LEMMA RestoreKeepsMeant ==
  ASSUME JournalInv, Meant, RestoreStep
  PROVE  Meant'
<1> DEFINE c == cur.id
<1>1. /\ cur # None /\ Operation(c) /\ UNCHANGED <<phase, mayStart, forked, backup>>
      /\ cur \in Restoring /\ c \in Iid /\ cur.entry \in Entry /\ phase # "down"
      /\ intent \in [Iid -> {"gone", "run", "stop"}]
  BY RestoreIsOperation DEF RestoreStep, JournalInv, JournalTypeOK, Walk, Restoring
<1>2. ~faulted /\ ~forked => MemorySays
  BY <1>1 DEF Meant
<1>3. CASE RestoreRecord /\ UNCHANGED intent
  <2> DEFINE e == [decision |-> cur.entry.decision, desired |-> RestoreStarts(cur),
                   failures |-> 0]
  <2>1. e \in Entry /\ e.desired = RestoreStarts(cur)
    BY <1>1, HostJournalAssumption DEF RestoreStarts, Entry
  <2>2. Says(entries'[c]) = IF RestoreStarts(cur) THEN "run" ELSE "stop"
    BY <1>1, <1>3, <2>1, WhatIsSaid, SaysOf DEF RestoreRecord
  <2>3. cur' = [cur EXCEPT !.placed = TRUE]
    BY <1>3 DEF RestoreRecord
  <2>4. cur' # None /\ cur'.id = c /\ cur'.placed /\ cur'.entry = cur.entry
    <3>1. cur' \in Restoring /\ cur'.id = c /\ cur'.placed /\ cur'.entry = cur.entry
      BY <1>1, <2>3 DEF Restoring
    <3> QED
      BY <3>1, HostJournalAssumption
  <2>5. RestoreStarts(cur)' = RestoreStarts(cur)
    BY <1>1, <2>4 DEF RestoreStarts
  <2>6. ~faulted /\ ~forked => Honours(intent'[c], Says(cur'.entry))
    BY <1>1, <1>2, <1>3, <2>4 DEF MemorySays
  <2>7. \A j \in Iid \ {c} : intent'[j] = intent[j]
    BY <1>3
  <2>8. Says(entries'[c]) = IF RestoreStarts(cur)' THEN "run" ELSE "stop"
    BY <2>2, <2>5
  <2> QED
    BY <1>1, <2>4, <2>6, <2>7, <2>8, OperationKeepsMeant
<1>4. CASE RestoreKeep /\ UNCHANGED intent
  <2>1. cur.placed /\ cur' = None
    BY <1>4 DEF RestoreKeep
  <2>2. ~faulted /\ ~forked =>
          /\ Honours(intent[c], Says(cur.entry))
          /\ Says(entries[c]) = IF RestoreStarts(cur) THEN "run" ELSE "stop"
    BY <1>1, <1>2, <2>1 DEF MemorySays
  <2>3. Says(cur.entry) = IF cur.entry.desired THEN "run" ELSE "stop"
    BY <1>1, SaysOf
  <2>4. CASE cur.entry.desired /\ ~mayStart
    <3>1. set_desired(c, TRUE)
      BY <1>4, <2>4 DEF RestoreKeep
    <3>2. ~faulted /\ ~forked => entries[c] # None
      BY <2>2, SaysOf
    <3>3. ~faulted /\ ~forked => Says(entries'[c]) = "run"
      BY <1>1, <3>1, <3>2, WhatIsSaid
    <3>4. ~faulted /\ ~forked => Honours(intent'[c], Says(entries'[c]))
      BY <1>4, <2>2, <2>3, <2>4, <3>3
    <3> QED
      BY <1>1, <1>4, <2>1, <3>4, OperationKeepsMeant
  <2>5. CASE ~(cur.entry.desired /\ ~mayStart)
    <3>1. entries' = entries
      BY <1>4, <2>5 DEF RestoreKeep, NoSave
    <3>2. (IF RestoreStarts(cur) THEN "run" ELSE "stop")
            = (IF cur.entry.desired THEN "run" ELSE "stop")
      BY <2>5 DEF RestoreStarts
    <3>3. ~faulted /\ ~forked => Honours(intent'[c], Says(entries'[c]))
      BY <1>4, <2>2, <2>3, <3>1, <3>2
    <3> QED
      BY <1>1, <1>4, <2>1, <3>3, OperationKeepsMeant
  <2> QED
    BY <2>4, <2>5
<1>5. CASE RestoreDrop
  <2>1. cur' = None /\ intent'[c] = "gone" /\ \A j \in Iid \ {c} : intent'[j] = intent[j]
    BY <1>1, <1>5 DEF RestoreDrop
  <2>2. Honours(intent'[c], Says(entries'[c]))
    <3>1. Says(entries'[c]) = "gone"
      BY <1>1, <1>5, WhatIsSaid, SaysOf DEF RestoreDrop
    <3> QED
      BY <2>1, <3>1, SameIsHonoured
  <2> QED
    BY <1>1, <2>1, <2>2, OperationKeepsMeant
<1>6. CASE RestoreRetry
  <2>1. /\ cur' = None /\ ~cur.placed /\ UNCHANGED intent
        /\ set_failures(c, cur.entry.failures + 1)
        /\ cur.entry.failures + 1 \in 0..(MaxRestoreTries - 1)
    BY <1>1, <1>6, HostJournalAssumption DEF RestoreRetry, Entry
  <2>2. Says(entries'[c]) = Says(entries[c])
    BY <1>1, <2>1, WhatIsSaid
  <2>3. ~faulted /\ ~forked => Honours(intent'[c], Says(entries'[c]))
    BY <1>1, <1>2, <2>1, <2>2 DEF MemorySays
  <2> QED
    BY <1>1, <2>1, <2>3, OperationKeepsMeant
<1> QED
  BY <1>3, <1>4, <1>5, <1>6 DEF RestoreStep

(* A boot takes the node's own file: it is neither gone nor a replay.      *)
LEMMA BootKeepsMeant ==
  ASSUME JournalInv, Meant, Boot
  PROVE  Meant'
<1> USE GenerationsInt
<1> DEFINE latest(h) == IF h THEN diskChain ELSE None
           taken(h) == RestoreVerdict(latest(h)) \in {"ok", "unverified"}
<1>1. PICK h \in ChainModes :
        /\ entries' = IF taken(h) THEN ReadEntries ELSE NoEntries
        /\ phase' = IF taken(h) THEN "restoring" ELSE "serving"
        /\ intent' = IF taken(h) /\ ~external THEN intent
                     ELSE [i \in Iid |-> Says(entries'[i])]
        /\ forked' = (forked \/ generation' < newest)
  BY DEF Boot
<1>2. /\ file' = (IF file.kind = "unreadable" THEN NotSigned("missing") ELSE file)
      /\ phase = "down" /\ phase' # "down" /\ cur' = None
      /\ UNCHANGED <<external, faulted, backup>>
  BY <1>1 DEF Boot
<1>3. /\ NotSigned("missing").kind = "missing"
      /\ NotSigned("missing").entries = NoEntries
  BY DEF NotSigned
<1>4. Blank'
  BY <1>2, <1>3 DEF Meant, Blank
<1>5. ReadEntries = file.entries
  BY DEF ReadEntries, Meant, Blank
<1>6. ~forked' => ~forked
  BY <1>1, Zenon
<1>7. ASSUME Sound'
      PROVE  taken(h)
  <2>1. Sound
    BY <1>2, <1>6, <1>7 DEF Sound
  <2>2. /\ file.generation >= diskChain /\ diskChain >= 0 /\ diskChain \in Int
        /\ file.generation \in Int /\ ReadGeneration = file.generation
        /\ file.kind \in {"missing", "signed"}
        /\ file.kind # "signed" => file.generation = 0
    BY <2>1 DEF Sound, Meant, Blank, JournalInv, OwnFileIsNoReplay, JournalTypeOK, File,
                Generations, Unsigned, ReadGeneration
  <2>3. h \in BOOLEAN /\ diskChain # None
    BY <2>2, HostJournalAssumption DEF JournalInv, JournalTypeOK, Generations
  <2> QED
    BY <2>2, <2>3 DEF RestoreVerdict
<1>8. ASSUME ~faulted', ~forked'
      PROVE  \A i \in Iid : Honours(intent'[i], Says(entries'[i]))
  <2>1. CASE taken(h) /\ ~external
    <3>1. Sound /\ intent' = intent /\ entries' = file.entries
      BY <1>1, <1>2, <1>5, <1>6, <1>8, <2>1 DEF Sound
    <3> QED
      BY <1>2, <3>1 DEF Meant
  <2>2. CASE ~(taken(h) /\ ~external)
    BY <1>1, <2>2, SameIsHonoured
  <2> QED
    BY <2>1, <2>2
<1>9. Sound' => file'.entries = entries'
  <2> SUFFICES ASSUME Sound' PROVE file'.entries = entries'
    OBVIOUS
  <2>1. file.kind # "unreadable"
    BY <1>2 DEF Sound, Meant, Blank
  <2> QED
    BY <1>1, <1>2, <1>5, <1>7, <2>1
<1> QED
  BY <1>2, <1>4, <1>8, <1>9 DEF Meant, MemorySays

(* A daemon that stops half way through a restore stops with at most one   *)
(* start held back and not yet put back.                                   *)
LEMMA StopKeepsMeant ==
  ASSUME JournalInv, Meant, Crash \/ CleanShutdown
  PROVE  Meant'
<1>1. /\ phase # "down" /\ cur \in Restoring \cup {None}
      /\ cur # None => "restoring" \in CrashPoints
  BY HostJournalAssumption DEF Crash, CleanShutdown, JournalInv, JournalTypeOK, Walk
<1>2. phase' = "down" /\ UNCHANGED <<file, intent, external, faulted, forked, backup>>
  BY DEF Crash, CleanShutdown, DaemonGone, history
<1>3. ASSUME Sound, NEW i \in Iid
      PROVE  Honours(intent[i], Says(file.entries[i]))
  <2>1. MemorySays /\ file.entries = entries
    BY <1>1, <1>3 DEF Meant, Sound
  <2>2. CASE cur = None \/ cur.id # i
    BY <2>1, <2>2 DEF MemorySays
  <2>3. CASE cur # None /\ cur.id = i /\ ~cur.placed
    BY <2>1, <2>3 DEF MemorySays
  <2>4. CASE cur # None /\ cur.id = i /\ cur.placed
    <3>1. cur.entry \in Entry /\ "restoring" \in CrashPoints
      BY <1>1, <2>4 DEF Restoring
    <3>2. Says(cur.entry) = IF cur.entry.desired THEN "run" ELSE "stop"
      BY <3>1, SaysOf
    <3>3. /\ Honours(intent[i], Says(cur.entry))
          /\ Says(file.entries[i]) = IF RestoreStarts(cur) THEN "run" ELSE "stop"
      BY <2>1, <2>4 DEF MemorySays
    <3> QED
      BY <3>1, <3>2, <3>3 DEF Honours, RestoreStarts
  <2> QED
    BY <2>2, <2>3, <2>4
<1> QED
  BY <1>2, <1>3 DEF Meant, Blank, Sound

(* What happens to the file from outside is marked as such.                *)
LEMMA FileEventKeepsMeant ==
  ASSUME JournalInv, Meant, FileEvent
  PROVE  Meant'
<1>1. file' = backup \/ \E k \in FileKind : file' = NotSigned(k)
  BY HostJournalAssumption DEF FileEvent, FileKind
<1>2. phase = "down" /\ external' /\ UNCHANGED <<phase, backup>>
  BY DEF FileEvent
<1>3. file'.kind # "signed" => file'.entries = NoEntries
  BY <1>1 DEF NotSigned, Meant, Blank
<1> QED
  BY <1>2, <1>3 DEF Meant, Blank, Sound

LEMMA QuietKeepsMeant ==
  ASSUME JournalInv, Meant,
         \/ \E i \in Iid : RestoreTake(i)
         \/ RestoreDone \/ AppendChain \/ CopyFile \/ UNCHANGED journal
  PROVE  Meant'
<1>1. ASSUME NEW i \in Iid, RestoreTake(i)
      PROVE  Meant'
  <2>1. /\ cur' = [id |-> i, entry |-> entries[i], placed |-> FALSE] /\ cur = None
        /\ phase # "down" /\ UNCHANGED <<entries, file, phase, history>>
    BY <1>1 DEF RestoreTake, memory, disk
  <2>2. cur'.id = i /\ cur'.entry = entries[i] /\ ~cur'.placed
    BY <2>1
  <2>3. UNCHANGED <<intent, external, faulted, forked, backup>>
    BY <2>1 DEF history
  <2>4. ~faulted /\ ~forked => MemorySays'
    BY <2>1, <2>2, <2>3 DEF Meant, MemorySays
  <2> QED
    BY <2>1, <2>3, <2>4 DEF Meant, Blank, Sound
<1>2. CASE RestoreDone
  BY <1>2 DEF RestoreDone, Meant, Blank, MemorySays, Sound, memory, disk, restore, history,
              RestoreStarts
<1>3. CASE AppendChain
  BY <1>3 DEF AppendChain, Meant, Blank, MemorySays, Sound, disk, restore, history,
              RestoreStarts
<1>4. CASE CopyFile
  BY <1>4 DEF CopyFile, Meant, Blank, MemorySays, Sound, memory, disk, restore,
              RestoreStarts
<1>5. CASE UNCHANGED journal
  BY <1>5 DEF journal, Meant, Blank, MemorySays, Sound, memory, disk, restore, history,
              RestoreStarts
<1> QED
  BY <1>1, <1>2, <1>3, <1>4, <1>5

LEMMA MeantInvariance == JournalSpec => []Meant
<1>1. JournalInit => Meant
  <2> SUFFICES ASSUME JournalInit PROVE Meant
    OBVIOUS
  <2>1. /\ file.kind = "missing" /\ file.entries = NoEntries
        /\ backup.kind = "missing" /\ backup.entries = NoEntries
    BY DEF JournalInit, NotSigned
  <2>2. \A i \in Iid : Honours(intent[i], Says(NoEntries[i]))
    BY SaysOf, SameIsHonoured DEF JournalInit, NoEntries
  <2> QED
    BY <2>1, <2>2 DEF JournalInit, Meant, Blank
<1>2. JournalInv /\ Meant /\ [JournalNext]_journal => Meant'
  BY BootKeepsMeant, RestoreKeepsMeant, VerbsKeepMeant, StopKeepsMeant, FileEventKeepsMeant,
     QuietKeepsMeant
     DEF JournalNext
<1> QED
  BY JournalInvariance, <1>1, <1>2, PTL DEF JournalSpec

-----------------------------------------------------------------------------
(* host_journal.rs, module comment: the journal puts back what the         *)
(* operator wanted.  Wherever the daemon crashes, and through restores     *)
(* held back, retries and drops, the file lists the instances the operator *)
(* knows of, with their intent, unless a save was lost, the file was       *)
(* replaced or generations were used twice: a stop is never lost, and a    *)
(* start only by a crash in the middle of a restore.                       *)
THEOREM IntentKept == JournalSpec => []IntentOnDisk
<1>1. JournalInv /\ Meant => IntentOnDisk
  BY DEF Meant, MemorySays, Sound, IntentOnDisk
<1> QED
  BY JournalInvariance, MeantInvariance, <1>1, PTL

-----------------------------------------------------------------------------
(* One half of the promise needs no assumption on crashes: nothing the     *)
(* operator was told is stopped is wanted by the memory, by the node's own *)
(* file or by the entry the restore is at.  A crash in the middle of a     *)
(* restore can lose a start, never a stop.                                 *)
StopSaid ==
  ~faulted =>
    /\ \A i \in Iid : intent[i] = "stop" => Says(entries[i]) # "run"
    /\ ~external => \A i \in Iid : intent[i] = "stop" => Says(file.entries[i]) # "run"
    /\ cur # None /\ intent[cur.id] = "stop" => Says(cur.entry) # "run"
    /\ phase # "down" => \A i \in Iid : entries[i] # None => file.entries[i] = entries[i]

LEMMA OperationKeepsStop ==
  ASSUME JournalInv, StopSaid, phase # "down", NEW i \in Iid, Operation(i),
         \A j \in Iid \ {i} : intent'[j] = intent[j],
         ~faulted /\ intent'[i] = "stop" =>
           \/ Says(entries'[i]) = "stop"
           \/ intent[i] = "stop" /\ Says(entries'[i]) # "run",
         ~faulted /\ cur' # None =>
           cur'.id = i /\ (intent'[i] = "stop" => Says(cur'.entry) # "run")
  PROVE  StopSaid'
<1>1. PICK new \in EntryMap : /\ Save(new) \/ (NoSave /\ new = entries)
                             /\ \A j \in Iid \ {i} : new[j] = entries[j]
  BY OperationSaves
<1>2. entries' = new
  BY <1>1 DEF Save, NoSave
<1>3. SUFFICES ASSUME ~faulted'
               PROVE  /\ \A j \in Iid : intent'[j] = "stop" => Says(entries'[j]) # "run"
                      /\ ~external' => \A j \in Iid : intent'[j] = "stop" => Says(file'.entries[j]) # "run"
                      /\ cur' # None /\ intent'[cur'.id] = "stop" => Says(cur'.entry) # "run"
                      /\ \A j \in Iid : entries'[j] # None => file'.entries[j] = entries'[j]
  BY DEF StopSaid
<1>4. \/ file'.entries = entries' /\ ~faulted
      \/ UNCHANGED <<entries, file, external, faulted>>
  <2>1. CASE file' = Signed(generation', new) /\ UNCHANGED faulted
    BY <1>2, <1>3, <2>1 DEF Signed
  <2> QED
    BY <1>1, <1>3, <2>1 DEF Save, NoSave
<1>5. \A j \in Iid : intent'[j] = "stop" => Says(entries'[j]) # "run"
  BY <1>1, <1>2, <1>3, <1>4 DEF StopSaid
<1>6. cur' # None /\ intent'[cur'.id] = "stop" => Says(cur'.entry) # "run"
  BY <1>3, <1>4
<1>7. CASE file'.entries = entries'
  BY <1>5, <1>6, <1>7
<1>8. CASE UNCHANGED <<entries, file, external, faulted>>
  <2>1. \A j \in Iid : entries'[j] # None => file'.entries[j] = entries'[j]
    BY <1>3, <1>8 DEF StopSaid
  <2>2. ASSUME ~external', NEW j \in Iid, intent'[j] = "stop"
        PROVE  Says(file'.entries[j]) # "run"
    <3>1. CASE intent[j] = "stop"
      BY <1>3, <1>8, <2>2, <3>1 DEF StopSaid
    <3>2. CASE intent[j] # "stop"
      <4>1. j = i /\ Says(entries'[j]) = "stop"
        BY <1>3, <1>8, <2>2, <3>2
      <4>2. entries'[j] # None
        BY <4>1, SaysOf
      <4> QED
        BY <2>1, <4>1, <4>2
    <3> QED
      BY <3>1, <3>2
  <2> QED
    BY <1>5, <1>6, <2>1, <2>2
<1> QED
  BY <1>4, <1>7, <1>8

LEMMA VerbsKeepStop ==
  ASSUME JournalInv, StopSaid,
         \/ \E i \in Iid, d \in Decision, s \in BOOLEAN : JournalPlaced(i, d, s)
         \/ \E i \in Iid, s \in BOOLEAN : JournalVerb(i, s)
         \/ \E i \in Iid : JournalDeparted(i)
  PROVE  StopSaid'
<1>1. ASSUME NEW i \in Iid, phase = "serving", Operation(i), UNCHANGED Untouched,
             NEW word \in {"gone", "run", "stop"}, intent' = [intent EXCEPT ![i] = word],
             Says(entries'[i]) = word
      PROVE  StopSaid'
  <2>1. cur' = None /\ phase # "down"
    BY <1>1 DEF JournalInv, Walk, Untouched, restore
  <2>2. /\ \A j \in Iid \ {i} : intent'[j] = intent[j]
        /\ intent'[i] = Says(entries'[i])
    BY <1>1 DEF JournalInv, JournalTypeOK
  <2> QED
    BY <1>1, <2>1, <2>2, OperationKeepsStop
<1>2. ASSUME NEW i \in Iid, NEW d \in Decision, NEW s \in BOOLEAN, JournalPlaced(i, d, s)
      PROVE  StopSaid'
  <2> DEFINE e == [decision |-> d, desired |-> s, failures |-> 0]
  <2>1. e \in Entry /\ e.desired = s
    BY HostJournalAssumption DEF Entry
  <2>2. Operation(i) /\ entries'[i] = e
    BY <1>2, <2>1, WhatIsSaid DEF JournalPlaced, Operation
  <2>3. Says(entries'[i]) = IF s THEN "run" ELSE "stop"
    BY <2>1, <2>2, SaysOf
  <2> QED
    BY <1>1, <1>2, <2>2, <2>3 DEF JournalPlaced
<1>3. ASSUME NEW i \in Iid, NEW s \in BOOLEAN, JournalVerb(i, s)
      PROVE  StopSaid'
  <2>1. Operation(i) /\ Says(entries'[i]) = IF s THEN "run" ELSE "stop"
    BY <1>3, WhatIsSaid DEF JournalVerb, Operation
  <2> QED
    BY <1>1, <1>3, <2>1 DEF JournalVerb
<1>4. ASSUME NEW i \in Iid, JournalDeparted(i)
      PROVE  StopSaid'
  <2>1. Operation(i) /\ Says(entries'[i]) = "gone"
    BY <1>4, WhatIsSaid, SaysOf DEF JournalDeparted, Operation
  <2> QED
    BY <1>1, <1>4, <2>1 DEF JournalDeparted
<1> QED
  BY <1>2, <1>3, <1>4

LEMMA RestoreKeepsStop == ASSUME JournalInv, StopSaid, RestoreStep PROVE StopSaid'
<1>1. PICK c \in Iid : c = cur.id
  BY RestoreIsOperation DEF JournalInv, JournalTypeOK, Restoring
<1>2. /\ cur # None /\ Operation(c) /\ cur \in Restoring /\ cur.entry \in Entry /\ phase # "down"
      /\ intent \in [Iid -> {"gone", "run", "stop"}] /\ mayStart \in BOOLEAN
  BY <1>1, RestoreIsOperation DEF JournalInv, JournalTypeOK, Restoring, Walk
<1>3. /\ ~faulted /\ intent[c] = "stop" => Says(cur.entry) # "run" /\ Says(entries[c]) # "run"
      /\ Says(cur.entry) = IF cur.entry.desired THEN "run" ELSE "stop"
  BY <1>1, <1>2, SaysOf DEF StopSaid
<1>4. CASE RestoreRecord /\ UNCHANGED intent
  <2> DEFINE e == [decision |-> cur.entry.decision, desired |-> RestoreStarts(cur),
                   failures |-> 0]
  <2>1. e \in Entry /\ e.desired = RestoreStarts(cur)
    BY <1>2, HostJournalAssumption DEF RestoreStarts, Entry
  <2>2. Says(entries'[c]) = IF RestoreStarts(cur) THEN "run" ELSE "stop"
    BY <1>1, <1>2, <1>4, <2>1, WhatIsSaid, SaysOf DEF RestoreRecord
  <2>3. cur'.id = c /\ cur'.entry = cur.entry
    BY <1>1, <1>2, <1>4 DEF RestoreRecord, Restoring
  <2>4. RestoreStarts(cur) => cur.entry.desired
    BY DEF RestoreStarts
  <2>5. ~faulted /\ intent[c] = "stop" => Says(entries'[c]) = "stop"
    BY <1>3, <2>2, <2>4
  <2> HIDE DEF e
  <2> QED
    BY <1>2, <1>3, <1>4, <2>3, <2>5, OperationKeepsStop
<1>5. CASE RestoreKeep /\ UNCHANGED intent
  <2>1. cur' = None
    BY <1>5 DEF RestoreKeep
  <2>2. ~faulted /\ intent[c] = "stop" => entries' = entries
    BY <1>3, <1>5 DEF RestoreKeep, NoSave
  <2> QED
    BY <1>2, <1>3, <1>5, <2>1, <2>2, OperationKeepsStop
<1>6. CASE RestoreDrop
  <2>1. cur' = None /\ intent'[c] = "gone" /\ \A j \in Iid \ {c} : intent'[j] = intent[j]
    BY <1>1, <1>2, <1>6 DEF RestoreDrop
  <2> QED
    BY <1>2, <2>1, OperationKeepsStop
<1>7. CASE RestoreRetry
  <2>1. /\ cur' = None /\ UNCHANGED intent
        /\ set_failures(c, cur.entry.failures + 1)
        /\ cur.entry.failures + 1 \in 0..(MaxRestoreTries - 1)
    BY <1>1, <1>2, <1>7, HostJournalAssumption DEF RestoreRetry, Entry
  <2>2. Says(entries'[c]) = Says(entries[c])
    BY <2>1, WhatIsSaid
  <2> QED
    BY <1>2, <1>3, <2>1, <2>2, OperationKeepsStop
<1> QED
  BY <1>4, <1>5, <1>6, <1>7 DEF RestoreStep

LEMMA BootKeepsStop == ASSUME JournalInv, StopSaid, Boot PROVE StopSaid'
<1> DEFINE latest(h) == IF h THEN diskChain ELSE None
           taken(h) == RestoreVerdict(latest(h)) \in {"ok", "unverified"}
<1>1. PICK h \in ChainModes :
        /\ entries' = IF taken(h) THEN ReadEntries ELSE NoEntries
        /\ intent' = IF taken(h) /\ ~external THEN intent
                     ELSE [i \in Iid |-> Says(entries'[i])]
  BY DEF Boot
<1> HIDE DEF taken
<1>2. /\ file' = (IF file.kind = "unreadable" THEN NotSigned("missing") ELSE file)
      /\ cur' = None /\ UNCHANGED <<external, faulted>>
  BY DEF Boot
<1>3. \A i \in Iid : entries'[i] # None =>
        /\ taken(h) /\ file.kind = "signed" /\ file' = file /\ entries'[i] = file.entries[i]
  BY <1>1, <1>2 DEF ReadEntries, NoEntries
<1>4. SUFFICES ASSUME ~faulted
               PROVE  /\ \A i \in Iid : intent'[i] = "stop" => Says(entries'[i]) # "run"
                      /\ ~external => \A i \in Iid : intent'[i] = "stop" => Says(file'.entries[i]) # "run"
                      /\ \A i \in Iid : entries'[i] # None => file'.entries[i] = entries'[i]
  BY <1>2 DEF StopSaid
<1>5. CASE taken(h) /\ ~external
  <2>1. intent' = intent
    BY <1>1, <1>5
  <2>2. \A i \in Iid : file'.entries[i] = None \/ file' = file
    BY <1>2 DEF NotSigned, NoEntries
  <2>3. Says(None) # "run"
    BY SaysOf
  <2> QED
    BY <1>3, <1>4, <1>5, <2>1, <2>2, <2>3 DEF StopSaid
<1>6. CASE ~(taken(h) /\ ~external)
  <2>1. \A i \in Iid : intent'[i] = Says(entries'[i])
    BY <1>1, <1>6
  <2>2. \A i \in Iid : intent'[i] = "stop" => entries'[i] # None
    BY <2>1, SaysOf
  <2> QED
    BY <1>3, <2>1, <2>2
<1> QED
  BY <1>5, <1>6

LEMMA QuietKeepsStop ==
  ASSUME JournalInv, StopSaid,
         \/ \E i \in Iid : RestoreTake(i)
         \/ RestoreDone \/ AppendChain \/ Crash \/ CleanShutdown \/ FileEvent \/ CopyFile
         \/ UNCHANGED journal
  PROVE  StopSaid'
<1>1. ASSUME NEW i \in Iid, RestoreTake(i) PROVE StopSaid'
  <2>1. /\ cur' = [id |-> i, entry |-> entries[i], placed |-> FALSE]
        /\ UNCHANGED <<entries, file, intent, external, faulted>> /\ phase # "down"
    BY <1>1 DEF RestoreTake, memory, disk, history
  <2>2. cur'.id = i /\ cur'.entry = entries[i]
    BY <2>1
  <2> QED
    BY <2>1, <2>2 DEF StopSaid
<1>2. CASE RestoreDone \/ AppendChain \/ CopyFile \/ UNCHANGED journal
  BY <1>2 DEF RestoreDone, AppendChain, CopyFile, StopSaid, journal, memory, disk, restore, history
<1>3. CASE Crash \/ CleanShutdown
  <2>1. entries' = NoEntries /\ cur' = None /\ phase' = "down" /\ UNCHANGED <<file, intent, external, faulted>>
    BY <1>3 DEF Crash, CleanShutdown, DaemonGone, history
  <2>2. \A i \in Iid : entries'[i] = None
    BY <2>1 DEF NoEntries
  <2> QED
    BY <2>1, <2>2, SaysOf DEF StopSaid
<1>4. CASE FileEvent
  <2>1. phase = "down" /\ cur = None /\ external' /\ UNCHANGED <<phase, entries, intent, cur, faulted>>
    BY <1>4 DEF FileEvent, memory, restore, JournalInv, Walk
  <2> QED
    BY <2>1 DEF StopSaid
<1> QED
  BY <1>1, <1>2, <1>3, <1>4

(* host_journal.rs and restore_instances: a stop the operator was told of  *)
(* is what the journal says, in memory and in the node's own file, unless  *)
(* a save was lost; whatever is put in the file's place, and wherever the  *)
(* daemon crashes, in the middle of a restore too.                         *)
THEOREM StopsAreKept == JournalSpec => []StopSaid
<1>1. JournalInit => StopSaid
  <2>1. JournalInit => \A i \in Iid : intent[i] = "gone" /\ entries[i] = None /\ cur = None
    BY DEF JournalInit, NoEntries
  <2> QED
    BY <2>1 DEF StopSaid, JournalInit
<1>2. JournalInv /\ StopSaid /\ [JournalNext]_journal => StopSaid'
  BY VerbsKeepStop, RestoreKeepsStop, BootKeepsStop, QuietKeepsStop DEF JournalNext
<1> QED
  BY JournalInvariance, <1>1, <1>2, PTL DEF JournalSpec

(* A lost save stays lost.                                                 *)
LEMMA LostStaysLost == ASSUME JournalNext PROVE faulted => faulted'
<1>1. ASSUME NEW new, Save(new) PROVE faulted => faulted'
  BY <1>1 DEF Save
<1>2. \A i, e : record(i, e) => (faulted => faulted')
  BY <1>1 DEF record
<1>3. \A i : remove(i) => (faulted => faulted')
  BY <1>1 DEF remove, NoSave
<1>4. \A i, s : set_desired(i, s) => (faulted => faulted')
  BY <1>1 DEF set_desired, NoSave
<1>5. \A i, n : set_failures(i, n) => (faulted => faulted')
  BY <1>1 DEF set_failures, NoSave
<1>6. RestoreStep => (faulted => faulted')
  BY <1>2, <1>3, <1>4, <1>5 DEF RestoreStep, RestoreRecord, RestoreKeep, RestoreDrop, RestoreRetry, NoSave
<1>7. /\ \A i \in Iid, d \in Decision, s \in BOOLEAN : JournalPlaced(i, d, s) => (faulted => faulted')
      /\ \A i \in Iid, s \in BOOLEAN : JournalVerb(i, s) => (faulted => faulted')
      /\ \A i \in Iid : JournalDeparted(i) => (faulted => faulted')
  BY <1>2, <1>3, <1>4 DEF JournalPlaced, JournalVerb, JournalDeparted
<1>8. /\ \A i \in Iid : RestoreTake(i) => (faulted => faulted')
      /\ Boot \/ RestoreDone \/ AppendChain \/ FileEvent \/ CopyFile \/ Crash \/ CleanShutdown
           => (faulted => faulted')
  BY DEF RestoreTake, Boot, RestoreDone, AppendChain, FileEvent, CopyFile, Crash, CleanShutdown,
         DaemonGone, history
<1> QED
  BY <1>6, <1>7, <1>8 DEF JournalNext

-----------------------------------------------------------------------------
(* While nothing else touches the file, it is this node's newest save and  *)
(* no generation is used twice.                                            *)
Untampered ==
  /\ ~external /\ ~forked /\ file.kind \in {"missing", "signed"}
  /\ newest <= file.generation

LEMMA OperationUntampered ==
  ASSUME JournalInv, Fresh, Untampered, phase # "down", NEW i \in Iid, Operation(i),
         UNCHANGED forked
  PROVE  Untampered'
<1>1. PICK new \in EntryMap : Save(new) \/ (NoSave /\ new = entries)
  BY OperationSaves
<1>2. newest \in Int /\ generation \in Int /\ newest <= generation
  BY GenerationsInt DEF JournalInv, JournalTypeOK, Fresh, Untampered
<1>3. CASE UNCHANGED <<file, newest, external>>
  BY <1>3 DEF Untampered
<1>4. CASE /\ generation' = generation + 1
           /\ file' = Signed(generation', new)
           /\ Written(generation', new)
  <2>1. file'.kind = "signed" /\ file'.generation = generation' /\ ~external'
    BY <1>4 DEF Signed, Written
  <2>2. newest' \in {newest, generation'}
    BY <1>2, <1>4, MaxOfBounds DEF Written
  <2> QED
    BY <1>2, <1>4, <2>1, <2>2 DEF Untampered
<1> QED
  BY <1>1, <1>3, <1>4 DEF Save, NoSave

(* A boot goes on from the generation of the node's own file.              *)
LEMMA BootUntampered == ASSUME JournalInv, Untampered, Boot PROVE Untampered'
<1>1. /\ newest \in Int /\ file.generation \in Int /\ 0 <= newest /\ diskChain \in Int
      /\ file.kind # "signed" => file.generation = 0
  BY GenerationsInt DEF JournalInv, JournalTypeOK, File, Generations, Unsigned
<1>2. ReadGeneration = file.generation
  BY <1>1 DEF ReadGeneration
<1>3. \A latest \in {diskChain, None} : SetChain(latest) => newest <= generation' /\ generation' \in Int
  BY <1>1, <1>2, MaxOfBounds DEF SetChain, Untampered
<1>4. newest <= generation' /\ generation' \in Int
  BY <1>3 DEF Boot
<1>5. forked' = (forked \/ generation' < newest) /\ UNCHANGED <<external, newest, file>>
  BY DEF Boot, Untampered
<1>6. ~(generation' < newest)
  BY <1>1, <1>4
<1>7. ~forked'
  BY <1>5, <1>6 DEF Untampered
<1> QED
  BY <1>5, <1>7 DEF Untampered

LEMMA NextUntampered ==
  ASSUME JournalInv, Fresh, Untampered, JournalNext \/ UNCHANGED journal, UNCHANGED fileEvents
  PROVE  Untampered'
<1>1. ASSUME NEW i \in Iid, phase = "serving", Operation(i), UNCHANGED Untouched PROVE Untampered'
  BY <1>1, OperationUntampered DEF Untouched
<1>2. ASSUME NEW i \in Iid, NEW d \in Decision, NEW s \in BOOLEAN, JournalPlaced(i, d, s)
      PROVE  Untampered'
  <2>1. [decision |-> d, desired |-> s, failures |-> 0] \in Entry
    BY HostJournalAssumption DEF Entry
  <2> QED
    BY <1>1, <1>2, <2>1 DEF JournalPlaced, Operation
<1>3. ASSUME NEW i \in Iid, NEW s \in BOOLEAN, JournalVerb(i, s) \/ JournalDeparted(i)
      PROVE  Untampered'
  BY <1>1, <1>3 DEF JournalVerb, JournalDeparted, Operation
<1>4. CASE RestoreStep
  <2>1. cur # None /\ Operation(cur.id) /\ cur.id \in Iid /\ phase # "down" /\ UNCHANGED forked
    BY <1>4, RestoreIsOperation DEF RestoreStep, JournalInv, JournalTypeOK, Restoring, Walk
  <2> QED
    BY <2>1, OperationUntampered
<1>5. CASE Boot
  BY <1>5, BootUntampered
<1>6. CASE FileEvent
  BY <1>6 DEF FileEvent, JournalInv, JournalTypeOK
<1>7. CASE \/ RestoreDone \/ AppendChain \/ CopyFile \/ Crash \/ CleanShutdown \/ UNCHANGED journal
           \/ \E i \in Iid : RestoreTake(i)
  BY <1>7 DEF RestoreDone, AppendChain, CopyFile, Crash, CleanShutdown, DaemonGone, RestoreTake, journal,
              disk, history, Untampered
<1> QED
  BY <1>2, <1>3, <1>4, <1>5, <1>6, <1>7 DEF JournalNext
==============================================================================
