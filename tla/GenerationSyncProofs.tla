------------------------- MODULE GenerationSyncProofs -------------------------
(***************************************************************************)
(* Proofs about GenerationSync, for any names, edits, deltas and crashes:  *)
(* every variable keeps its type, no edit the user typed into a file       *)
(* leaves the disk unless the user throws it away, and every retained      *)
(* inode with edits in it is named.  The invariants are in three layers:   *)
(* Inv for the types, DoomedKept for the unlinked files, NameInv for the   *)
(* retained inodes; each step lemma is about one action and one layer.     *)
(***************************************************************************)
EXTENDS GenerationSync, TLAPS, SequenceTheorems

\* A document ends for good, and later than it began.
EndsOnce ==
    \A i \in 1..(Len(versions) - 1) :
        versions[i + 1] = Absent => versions[i] # Absent /\ i + 1 = Len(versions)

\* What the store says of deltas that have not begun, and of rows.
RowsOK ==
    \A d \in Deltas :
        /\ d > gen \/ (d = gen /\ ~active) => outcomes[d] = "none" /\ ~evidence[d].kept
        /\ evidence[d].visible # Missing => d < gen
        /\ evidence[d].kept => d < Len(versions) /\ versions[d] # Absent
        /\ evidence[d].visible # Missing /\ versions[d + 1] = Absent => Tracked
OutcomeOK ==
    active /\ outcomes[gen] \in {"applied", "merged"} => versions[gen + 1] # Absent

InPlace == {"three-way", "displace", "merge"}
Fenced == {"fenced", "verify", "place", "move", "undo", "putback"}
Renaming == {"rename", "rename-verify", "rename-place", "rename-move", "rename-undo"}

\* What has been established when the sync comes to a program counter.
TaskOK ==
    /\ task.pc \in Reviewing => task.d \in 1..(gen - 1) /\ evidence[task.d].kept
    /\ task.pc = "resolve" => evidence[task.d].visible # Missing
    /\ task.pc \in Applying \ {"validate", "tidy"} =>
         active /\ task.d = gen /\ (versions[gen] # Absent => Tracked)
    /\ task.pc = "create" => versions[gen] = Absent
    /\ task.pc \in InPlace \cup Renaming => versions[gen] # Absent /\ versions[gen + 1] # Absent
    /\ task.pc \in Fenced \cup {"fence"} => versions[gen] # Absent
    /\ task.pc \in {"fence", "record"} /\ task.result \in {"applied", "merged"} =>
         versions[gen + 1] # Absent

FilesOK == disk \in [Slots -> Texts] /\ held \in Slots \cup {Gone, Closed}
           /\ typed \subseteq Edits /\ owed \subseteq typed
StoreOK == /\ versions \in Seq(Names \cup {Absent}) /\ Len(versions) \in Version
           /\ gen \in 1..Len(versions) /\ (active => gen < Len(versions))
           /\ path \in Paths /\ active \in BOOLEAN
           /\ outcomes \in [Deltas -> Results]
           /\ payloads \subseteq Deltas
           /\ evidence \in [Deltas -> Rows]
           /\ crashes \in 0..MaxCrashes

Inv == /\ FilesOK /\ StoreOK /\ task \in Tasks
       /\ EndsOnce /\ RowsOK /\ OutcomeOK /\ TaskOK

-----------------------------------------------------------------------------
(* Slots and texts *)

LEMMA TextsAreTexts ==
    /\ Missing \in Texts
    /\ \A d \in Deltas : Manifest(d) \in Texts
    /\ \A v \in Version, E \in SUBSET Edits : Text("doc", v, E) \in Texts
    /\ \A E \in SUBSET Edits : Text("own", 0, E) \in Texts
  BY GenerationAssumption DEF Texts, Text, Missing, Manifest, Deltas, Version

LEMMA SlotsAreSlots ==
    /\ \A n \in Names : File(n) \in Slots
    /\ \A d \in Deltas : Pre(d) \in Slots /\ Snap(d) \in Slots
    /\ \A n, d : File(n) # Pre(d) /\ File(n) # Snap(d)
    /\ \A d, c : Pre(d) # Snap(c)
    /\ Gone \notin Slots /\ Closed \notin Slots
<1>1. /\ \A n \in Names : File(n) \in Slots
      /\ \A d \in Deltas : Pre(d) \in Slots /\ Snap(d) \in Slots
  BY DEF Slots
<1>2. /\ \A n, d : File(n) # Pre(d) /\ File(n) # Snap(d)
      /\ \A d, c : Pre(d) # Snap(c)
  BY DEF File, Pre, Snap
<1>3. Gone \notin Slots /\ Closed \notin Slots
  BY DEF Slots, File, Pre, Snap, Gone, Closed
<1> QED
  BY <1>1, <1>2, <1>3

LEMMA ImagesAreTexts ==
    ASSUME StoreOK, NEW v \in 1..Len(versions)
    PROVE  Image(v) \in Texts /\ Image(v).edits = {}
<1>1. v \in Version
  BY GenerationAssumption DEF StoreOK, Version
<1> QED
  BY <1>1, TextsAreTexts DEF Image, Text, Missing

LEMMA FileOps ==
    ASSUME FilesOK, NEW s \in Slots
    PROVE  /\ Unlink(s) => FilesOK'
           /\ \A t \in Texts : Put(s, t) => FilesOK'
           /\ \A to \in Slots : Move(s, to) => FilesOK'
  BY TextsAreTexts DEF FilesOK, Unlink, Unlinked, Put, Move, user

-----------------------------------------------------------------------------
(* Steps that leave the store alone *)

LEMMA IdleIsTask == IdleTask \in Tasks
  BY GenerationAssumption, TextsAreTexts DEF IdleTask, Tasks, Results

LEMMA StoreKept ==
    ASSUME Inv, UNCHANGED <<store, versions, crashes>>, payloads' \subseteq Deltas
    PROVE  StoreOK' /\ EndsOnce' /\ RowsOK' /\ OutcomeOK'
  BY DEF Inv, store, StoreOK, EndsOnce, RowsOK, OutcomeOK, Tracked

LEMMA Aborts ==
    ASSUME Inv, UNCHANGED <<store, versions, crashes>>, payloads' \subseteq Deltas,
           FilesOK', task' = IdleTask
    PROVE  Inv'
<1>1. TaskOK'
  BY DEF TaskOK, IdleTask, Reviewing, Applying, InPlace, Renaming, Fenced
<1> QED
  BY <1>1, StoreKept, IdleIsTask DEF Inv

\* A step of an entry's function that goes on, or comes to an outcome.
LEMMA EntryGoesOn ==
    ASSUME Inv, UNCHANGED <<store, versions, crashes, payloads>>, FilesOK',
           task.pc \in Applying \ {"validate", "tidy"},
           task' \in Tasks, task'.d = task.d,
           \/ task'.pc = "create" /\ versions[gen] = Absent
           \/ task'.pc \in Fenced /\ versions[gen] # Absent
           \/ task'.pc \in InPlace \cup Renaming /\ Absent \notin {versions[gen], versions[gen + 1]}
           \/ /\ task'.pc \in {"fence", "record"}
              /\ task'.pc = "fence" => versions[gen] # Absent
              /\ task'.result \in {"applied", "merged"} => versions[gen + 1] # Absent
           \/ task'.pc \in {"apply", "stage", "complete"}
    PROVE  Inv'
<1>1. active /\ task.d = gen /\ (versions[gen] # Absent => Tracked)
  BY DEF Inv, TaskOK
<1>2. gen' = gen /\ active' = active /\ path' = path /\ versions' = versions
  BY DEF store
<1>3. TaskOK'
  BY <1>1, <1>2 DEF TaskOK, Tracked, Reviewing, Applying, InPlace, Renaming, Fenced
<1> QED
  BY <1>3, StoreKept DEF Inv, StoreOK

\* Which pcs an entry's functions are at, and what is known there.
LEMMA AtEntry ==
    ASSUME Inv, task.pc \in Applying \ {"validate", "tidy"}
    PROVE  /\ active /\ task.d = gen /\ gen \in Deltas /\ gen + 1 \in 1..Len(versions)
           /\ gen \in 1..Len(versions)
           /\ versions[gen] \in Names \cup {Absent} /\ versions[gen + 1] \in Names \cup {Absent}
           /\ versions[gen] = Absent => versions[gen + 1] # Absent
           /\ path.local \in Names
           /\ File(path.local) \in Slots /\ Pre(gen) \in Slots
           /\ versions[gen + 1] # Absent => File(versions[gen + 1]) \in Slots
           /\ Image(gen) \in Texts /\ Image(gen + 1) \in Texts
<1>1. active /\ task.d = gen /\ gen \in Nat /\ gen >= 1 /\ gen < Len(versions)
      /\ Len(versions) \in Version /\ versions \in Seq(Names \cup {Absent})
  BY DEF Inv, TaskOK, StoreOK, Version
<1>2. gen \in Deltas /\ gen + 1 \in 1..Len(versions) /\ gen \in 1..Len(versions)
  BY <1>1, GenerationAssumption DEF Deltas, Version
<1>3. versions[gen] \in Names \cup {Absent} /\ versions[gen + 1] \in Names \cup {Absent}
  BY <1>1, <1>2, ElementOfSeq
<1>4. versions[gen] = Absent => versions[gen + 1] # Absent
  BY <1>1, <1>2 DEF Inv, EndsOnce
<1>5. path.local \in Names
  BY DEF Inv, StoreOK, Paths
<1>6. Image(gen) \in Texts /\ Image(gen + 1) \in Texts
  BY <1>2, ImagesAreTexts DEF Inv
<1> QED
  BY <1>1, <1>2, <1>3, <1>4, <1>5, <1>6, SlotsAreSlots

-----------------------------------------------------------------------------
(* The functions of an entry *)

LEMMA FinishIsTask ==
    ASSUME task \in Tasks, NEW result \in Results, NEW fence \in Texts, Finish(result, fence)
    PROVE  /\ task' \in Tasks /\ task'.d = task.d
           /\ task'.pc = IF fence = Missing THEN "record" ELSE "fence"
           /\ task'.result = result
  BY DEF Finish, Tasks, Applying

LEMMA GotoIsTask ==
    ASSUME task \in Tasks, NEW pc \in {"idle"} \cup Reviewing \cup Applying, Goto(pc)
    PROVE  task' \in Tasks /\ task'.d = task.d /\ task'.pc = pc /\ task'.result = task.result
  BY DEF Goto, Tasks

LEMMA ApplyEntryInv ==
    ASSUME Inv, ApplyEntry
    PROVE  Inv'
<1>1. task.pc = "apply" /\ task \in Tasks /\ task.pc \in Applying \ {"validate", "tidy"}
  BY DEF ApplyEntry, Inv, Applying
<1>2. UNCHANGED <<store, versions, crashes, payloads>> /\ FilesOK'
  BY DEF ApplyEntry, NoStoreChange, NoFileChange, Inv, FilesOK, user
<1>3. \/ Goto("create") /\ versions[gen] = Absent
      \/ Goto("rename") /\ Absent \notin {versions[gen], versions[gen + 1]}
      \/ Goto("three-way") /\ Absent \notin {versions[gen], versions[gen + 1]}
      \/ Goto("fenced") /\ versions[gen] # Absent
  BY DEF ApplyEntry, Renames
<1> QED
  BY <1>1, <1>2, <1>3, GotoIsTask, EntryGoesOn DEF Applying, InPlace, Fenced, Renaming

LEMMA ApplyCreateInv ==
    ASSUME Inv, ApplyCreate
    PROVE  Inv'
<1>1. task.pc = "create" /\ task \in Tasks /\ task.pc \in Applying \ {"validate", "tidy"}
  BY DEF ApplyCreate, Inv, Applying
<1>2. versions[gen] = Absent /\ versions[gen + 1] # Absent
  BY <1>1, AtEntry DEF Inv, TaskOK
<1>3. UNCHANGED <<store, versions, crashes, payloads>>
  BY DEF ApplyCreate, NoStoreChange
<1>4. PICK result \in {"applied", "conflict"} : Finish(result, Missing)
  BY DEF ApplyCreate
<1>5. FilesOK'
  <2>1. \/ Put(File(versions[gen + 1]), New(gen))
        \/ NoFileChange
    BY DEF ApplyCreate
  <2> QED
    BY <1>1, <1>2, <2>1, AtEntry, FileOps DEF NoFileChange, Inv, FilesOK, user, New
<1>6. task' \in Tasks /\ task'.d = task.d /\ task'.pc = "record"
  BY <1>1, <1>4, FinishIsTask, TextsAreTexts DEF Results
<1> QED
  BY <1>1, <1>2, <1>3, <1>5, <1>6, EntryGoesOn

\* An entry's function comes to its outcome.
LEMMA EntryFinishes ==
    ASSUME Inv, UNCHANGED <<store, versions, crashes, payloads>>, FilesOK',
           task.pc \in Applying \ {"validate", "tidy"},
           NEW result \in Results, NEW fence \in Texts, Finish(result, fence),
           fence # Missing => versions[gen] # Absent,
           result \in {"applied", "merged"} => versions[gen + 1] # Absent
    PROVE  Inv'
<1>1. task \in Tasks
  BY DEF Inv
<1>2. /\ task' \in Tasks /\ task'.d = task.d
      /\ task'.pc = IF fence = Missing THEN "record" ELSE "fence"
      /\ task'.result = result
  BY <1>1, FinishIsTask
<1> QED
  BY <1>2, EntryGoesOn

\* An entry's function goes on to another step of its own.
LEMMA EntryGoesTo ==
    ASSUME Inv, UNCHANGED <<store, versions, crashes, payloads>>, FilesOK',
           task.pc \in Applying \ {"validate", "tidy"}, NEW pc, Goto(pc),
           \/ pc \in Fenced /\ versions[gen] # Absent
           \/ pc \in InPlace \cup Renaming /\ Absent \notin {versions[gen], versions[gen + 1]}
    PROVE  Inv'
<1>1. task \in Tasks /\ pc \in {"idle"} \cup Reviewing \cup Applying
  BY DEF Inv, Fenced, InPlace, Renaming, Applying
<1>2. task' \in Tasks /\ task'.d = task.d /\ task'.pc = pc
  BY <1>1, GotoIsTask
<1> QED
  BY <1>2, EntryGoesOn

LEMMA TryOps ==
    ASSUME FilesOK, NEW s \in Slots, NEW pc
    PROVE  /\ \A to \in Slots : TryMove(s, to, pc) => FilesOK' /\ (Goto(pc) \/ task' = IdleTask)
           /\ TryUnlink(s, pc) => FilesOK' /\ (Goto(pc) \/ task' = IdleTask)
<1>1. Abort => FilesOK' /\ task' = IdleTask
  BY DEF Abort, NoFileChange, FilesOK, user
<1> QED
  BY <1>1, FileOps DEF TryMove, TryUnlink

LEMMA ThreeWayInv ==
    ASSUME Inv, ThreeWay
    PROVE  Inv'
<1>1. task.pc \in InPlace /\ task \in Tasks /\ task.pc \in Applying \ {"validate", "tidy"}
  BY DEF ThreeWay, Inv, Applying, InPlace
<1>2. Absent \notin {versions[gen], versions[gen + 1]}
  BY <1>1, AtEntry DEF Inv, TaskOK
<1>3. UNCHANGED <<store, versions, crashes, payloads>>
  BY DEF ThreeWay, NoStoreChange
<1>4. /\ File(path.local) \in Slots /\ Pre(gen) \in Slots
      /\ disk[File(path.local)] \in Texts /\ disk[Pre(gen)] \in Texts
      /\ Image(gen) \in Texts /\ Image(gen + 1) \in Texts /\ gen + 1 \in Version
  BY <1>1, AtEntry, GenerationAssumption DEF Inv, FilesOK, Version, Deltas
<1>5. FilesOK /\ task.seen \in Texts /\ payloads' \subseteq Deltas
  BY <1>1, <1>3 DEF Inv, Tasks, StoreOK
<1>6. CASE Abort
  BY <1>3, <1>5, <1>6, Aborts DEF Abort, NoFileChange, FilesOK, user
<1>7. CASE Fail
  BY <1>6, <1>7 DEF Fail
<1>8. CASE task.pc = "three-way" /\ ~ Fail
  <2>1. FilesOK'
    BY <1>5, <1>8 DEF ThreeWay, NoFileChange, FilesOK, user
  <2>2. PICK local \in {disk[Pre(gen)], disk[File(path.local)]} :
          \/ Goto("fenced")
          \/ Finish("merged", local)
          \/ \E pc \in {"merge", "displace"} :
               task' = [task EXCEPT !.seen = local, !.pc = pc]
    BY <1>8 DEF ThreeWay
  <2>3. CASE Goto("fenced")
    BY <1>1, <1>2, <1>3, <2>1, <2>3, EntryGoesTo DEF Fenced
  <2>4. CASE Finish("merged", local)
    BY <1>1, <1>2, <1>3, <1>4, <2>1, <2>4, EntryFinishes DEF Results
  <2>5. ASSUME NEW pc \in {"merge", "displace"}, task' = [task EXCEPT !.seen = local, !.pc = pc]
        PROVE  Inv'
    <3>1. task' \in Tasks /\ task'.d = task.d /\ task'.pc = pc
      BY <1>1, <1>4, <2>5 DEF Tasks, Applying
    <3> QED
      BY <1>1, <1>2, <1>3, <2>1, <3>1, EntryGoesOn DEF InPlace
  <2> QED
    BY <2>2, <2>3, <2>4, <2>5
<1>9. CASE task.pc = "displace" /\ ~ Fail
  <2>1. FilesOK' /\ (Goto("merge") \/ task' = IdleTask)
    BY <1>4, <1>5, <1>9, TryOps DEF ThreeWay
  <2> QED
    BY <1>1, <1>2, <1>3, <1>5, <2>1, EntryGoesTo, Aborts DEF InPlace
<1>10. CASE task.pc = "merge" /\ ~ Fail
  <2>1. CASE Move(Pre(gen), File(path.local)) /\ Finish("conflict", Old(gen))
    <3>1. FilesOK'
      BY <1>4, <1>5, <2>1, FileOps
    <3> QED
      BY <1>1, <1>2, <1>3, <1>4, <2>1, <3>1, EntryFinishes DEF Results, Old
  <2>2. CASE NoFileChange /\ Finish("conflict", Old(gen))
    <3>1. FilesOK'
      BY <1>5, <2>2 DEF NoFileChange, FilesOK, user
    <3> QED
      BY <1>1, <1>2, <1>3, <1>4, <2>2, <3>1, EntryFinishes DEF Results, Old
  <2>3. CASE Put(File(path.local), Merged(gen, task.seen)) /\ Finish("merged", task.seen)
    <3>1. Merged(gen, task.seen) \in Texts
      BY <1>4, <1>5, TextsAreTexts DEF Merged, Texts
    <3>2. FilesOK'
      BY <1>4, <1>5, <2>3, <3>1, FileOps
    <3> QED
      BY <1>1, <1>2, <1>3, <1>5, <2>3, <3>2, EntryFinishes DEF Results
  <2> QED
    BY <1>6, <1>10, <2>1, <2>2, <2>3 DEF ThreeWay
<1> QED
  BY <1>1, <1>7, <1>8, <1>9, <1>10 DEF InPlace

LEMMA FencedUpdateInv ==
    ASSUME Inv, FencedUpdate
    PROVE  Inv'
<1>1. task.pc \in Fenced /\ task \in Tasks /\ task.pc \in Applying \ {"validate", "tidy"}
  BY DEF FencedUpdate, Inv, Applying, Fenced
<1>2. versions[gen] # Absent
  BY <1>1, AtEntry DEF Inv, TaskOK
<1>3. UNCHANGED <<store, versions, crashes, payloads>>
  BY DEF FencedUpdate, NoStoreChange
<1>4. /\ File(path.local) \in Slots /\ Pre(gen) \in Slots
      /\ New(gen) \in Texts /\ Old(gen) \in Texts /\ Missing \in Texts
  BY <1>1, AtEntry, TextsAreTexts DEF New, Old
<1>5. FilesOK /\ payloads' \subseteq Deltas
  BY <1>3 DEF Inv, StoreOK
<1>6. CASE FilesOK' /\ task' = IdleTask
  BY <1>3, <1>5, <1>6, Aborts
<1>7. ASSUME FilesOK', NEW pc \in Fenced, Goto(pc)
      PROVE  Inv'
  BY <1>1, <1>2, <1>3, <1>7, EntryGoesTo
<1>8. ASSUME FilesOK', NEW fence \in {Missing, Old(gen)},
             Finish(Done(gen), fence) \/ Finish("conflict", fence)
      PROVE  Inv'
  <2>1. PICK result \in {Done(gen), "conflict"} : Finish(result, fence)
    BY <1>8
  <2>2. result \in Results /\ (result \in {"applied", "merged"} => versions[gen + 1] # Absent)
    BY DEF Done, Results
  <2> QED
    BY <1>1, <1>2, <1>3, <1>4, <1>8, <2>1, <2>2, EntryFinishes
<1>9. NoFileChange => FilesOK'
  BY <1>5 DEF NoFileChange, FilesOK, user
<1>10. CASE task.pc = "fenced"
  BY <1>6, <1>7, <1>8, <1>9, <1>10 DEF FencedUpdate, Fenced
<1>11. CASE task.pc = "verify"
  BY <1>6, <1>7, <1>8, <1>9, <1>11 DEF FencedUpdate, Fenced
<1>12. CASE task.pc = "move"
  <2>1. FilesOK' /\ (Goto("fenced") \/ task' = IdleTask)
    BY <1>4, <1>5, <1>9, <1>12, TryOps DEF FencedUpdate
  <2> QED
    BY <2>1, <1>6, <1>7 DEF Fenced
<1>13. CASE task.pc = "undo"
  <2>1. FilesOK' /\ (Goto("putback") \/ task' = IdleTask)
    BY <1>4, <1>5, <1>13, TryOps DEF FencedUpdate
  <2> QED
    BY <2>1, <1>6, <1>7 DEF Fenced
<1>14. CASE task.pc = "place"
  <2>1. CASE NoFileChange
    BY <1>8, <1>9, <1>14, <2>1 DEF FencedUpdate, Put, Done, Exists, New, Image
  <2>2. CASE disk[File(path.local)] = Missing /\ New(gen) # Missing
             /\ Put(File(path.local), New(gen)) /\ Finish("applied", Old(gen))
    <3>1. FilesOK'
      BY <1>4, <1>5, <2>2, FileOps
    <3>2. Done(gen) = "applied"
      BY <2>2 DEF Done, New, Image
    <3> QED
      BY <1>8, <2>2, <3>1, <3>2
  <2> QED
    BY <1>14, <2>1, <2>2 DEF FencedUpdate, Exists
<1>15. CASE task.pc = "putback"
  <2>1. CASE Move(Pre(gen), File(path.local)) /\ Finish("conflict", Old(gen))
    BY <1>4, <1>5, <1>8, <2>1, FileOps
  <2>2. CASE Abort
    BY <1>6, <1>9, <2>2 DEF Abort
  <2> QED
    BY <1>15, <2>1, <2>2 DEF FencedUpdate
<1> QED
  BY <1>1, <1>10, <1>11, <1>12, <1>13, <1>14, <1>15 DEF Fenced

LEMMA FencedRenameInv ==
    ASSUME Inv, FencedRename
    PROVE  Inv'
<1>1. task.pc \in Renaming /\ task \in Tasks /\ task.pc \in Applying \ {"validate", "tidy"}
  BY DEF FencedRename, Inv, Applying, Renaming
<1>2. Absent \notin {versions[gen], versions[gen + 1]}
  BY <1>1, AtEntry DEF Inv, TaskOK
<1>3. UNCHANGED <<store, versions, crashes, payloads>>
  BY DEF FencedRename, NoStoreChange
<1>4. /\ File(path.local) \in Slots /\ Pre(gen) \in Slots /\ File(versions[gen + 1]) \in Slots
      /\ New(gen) \in Texts /\ Old(gen) \in Texts /\ Missing \in Texts
  BY <1>1, <1>2, AtEntry, TextsAreTexts DEF New, Old
<1>5. FilesOK /\ payloads' \subseteq Deltas
  BY <1>3 DEF Inv, StoreOK
<1>6. CASE FilesOK' /\ task' = IdleTask
  BY <1>3, <1>5, <1>6, Aborts
<1>7. ASSUME FilesOK', NEW pc \in Renaming, Goto(pc)
      PROVE  Inv'
  BY <1>1, <1>2, <1>3, <1>7, EntryGoesTo
<1>8. ASSUME FilesOK', NEW result \in {"applied", "conflict"}, NEW fence \in {Missing, Old(gen)},
             Finish(result, fence)
      PROVE  Inv'
  BY <1>1, <1>2, <1>3, <1>4, <1>8, EntryFinishes DEF Results
<1>9. NoFileChange => FilesOK'
  BY <1>5 DEF NoFileChange, FilesOK, user
<1>10. CASE task.pc = "rename"
  <2>1. FilesOK'
    BY <1>9, <1>10 DEF FencedRename
  <2>2. CASE task' = [task EXCEPT !.pc = "rename-verify", !.seen = disk[File(versions[gen + 1])]]
    <3>1. task' \in Tasks /\ task'.d = task.d /\ task'.pc = "rename-verify"
      BY <1>1, <1>4, <1>5, <2>2 DEF Tasks, Applying, FilesOK
    <3> QED
      BY <1>1, <1>2, <1>3, <2>1, <3>1, EntryGoesOn DEF Renaming
  <2> QED
    BY <1>7, <1>8, <1>10, <2>1, <2>2 DEF FencedRename, Renaming
<1>11. CASE task.pc = "rename-verify"
  BY <1>7, <1>8, <1>9, <1>11 DEF FencedRename, Renaming
<1>12. CASE task.pc = "rename-move"
  <2>1. FilesOK' /\ (Goto("rename") \/ task' = IdleTask)
    BY <1>4, <1>5, <1>12, TryOps DEF FencedRename
  <2> QED
    BY <2>1, <1>6, <1>7 DEF Renaming
<1>13. CASE task.pc = "rename-undo"
  <2>1. CASE Move(Pre(gen), File(path.local)) /\ Finish("conflict", Missing)
    BY <1>4, <1>5, <1>8, <2>1, FileOps
  <2>2. CASE Abort
    BY <1>6, <1>9, <2>2 DEF Abort
  <2> QED
    BY <1>13, <2>1, <2>2 DEF FencedRename
<1>14. CASE task.pc = "rename-place"
  <2>1. CASE NoFileChange
    BY <1>7, <1>8, <1>9, <1>14, <2>1 DEF FencedRename, Put, Renaming
  <2>2. CASE Put(File(versions[gen + 1]), New(gen)) /\ Finish("applied", Old(gen))
    BY <1>4, <1>5, <1>8, <2>2, FileOps
  <2> QED
    BY <1>14, <2>1, <2>2 DEF FencedRename
<1> QED
  BY <1>1, <1>10, <1>11, <1>12, <1>13, <1>14 DEF Renaming

-----------------------------------------------------------------------------
(* The life of a delta *)

LEMMA FilesKept == Inv /\ NoFileChange => FilesOK'
  BY DEF Inv, NoFileChange, FilesOK, user

LEMMA RecordEvidenceInv ==
    ASSUME Inv, RecordEvidence
    PROVE  Inv'
<1>1. task.pc = "fence" /\ task \in Tasks /\ task.pc \in Applying \ {"validate", "tidy"}
  BY DEF RecordEvidence, Inv, Applying
<1>2. FilesOK' /\ UNCHANGED <<gen, path, active, outcomes, payloads, versions, crashes>>
  BY FilesKept DEF RecordEvidence
<1> DEFINE row == [NoRow EXCEPT !.kept = TRUE, !.captured = task.fence,
                                !.payload = path.payload, !.name = path.local]
<1>3. CASE task' = IdleTask /\ UNCHANGED evidence
  BY <1>2, <1>3, Aborts DEF store, Inv, StoreOK
<1>4. CASE evidence' = [evidence EXCEPT ![gen] = row] /\ Goto("record")
  <2>1. row \in Rows /\ row.kept /\ row.visible = Missing
    BY <1>1, TextsAreTexts, AtEntry DEF Inv, StoreOK, Paths, Rows, NoRow, Tasks
  <2>2. gen \in Deltas /\ active /\ task.d = gen /\ versions[gen] # Absent
    BY <1>1, AtEntry DEF Inv, TaskOK, Fenced
  <2>3. /\ evidence' \in [Deltas -> Rows]
        /\ \A d \in Deltas : d # gen => evidence'[d] = evidence[d]
        /\ evidence'[gen] = row
    BY <1>4, <2>1, <2>2 DEF Inv, StoreOK
  <2>4. StoreOK' /\ EndsOnce' /\ OutcomeOK'
    BY <1>2, <2>3 DEF Inv, StoreOK, EndsOnce, OutcomeOK
  <2>5. RowsOK'
    <3> HIDE DEF row
    <3> SUFFICES ASSUME NEW d \in Deltas
                 PROVE  /\ d > gen \/ (d = gen /\ ~active) => outcomes[d] = "none" /\ ~evidence'[d].kept
                        /\ evidence'[d].visible # Missing => d < gen
                        /\ evidence'[d].kept => d < Len(versions) /\ versions[d] # Absent
                        /\ evidence'[d].visible # Missing /\ versions[d + 1] = Absent => Tracked
      BY <1>2 DEF RowsOK, Tracked
    <3>1. CASE d # gen
      BY <2>3, <3>1 DEF Inv, RowsOK
    <3>2. CASE d = gen
      BY <2>1, <2>2, <2>3, <3>2 DEF Inv, StoreOK, Deltas
    <3> QED
      BY <3>1, <3>2
  <2>6. task' \in Tasks /\ task'.d = task.d /\ task'.pc = "record" /\ task'.result = task.result
    BY <1>1, <1>4, GotoIsTask DEF Applying
  <2>7. TaskOK'
    BY <1>1, <1>2, <2>2, <2>6 DEF Inv, TaskOK, Tracked, Reviewing, Applying, InPlace, Renaming, Fenced
  <2> QED
    BY <1>2, <2>4, <2>5, <2>6, <2>7 DEF Inv
<1> QED
  BY <1>3, <1>4 DEF RecordEvidence

LEMMA RecordOutcomeInv ==
    ASSUME Inv, RecordOutcome
    PROVE  Inv'
<1>1. task.pc = "record" /\ task \in Tasks /\ task.pc \in Applying \ {"validate", "tidy"}
  BY DEF RecordOutcome, Inv, Applying
<1>2. /\ FilesOK' /\ UNCHANGED <<gen, path, active, evidence, payloads, versions, crashes>>
      /\ outcomes' = [outcomes EXCEPT ![gen] = task.result]
  BY FilesKept DEF RecordOutcome
<1>3. /\ gen \in Deltas /\ active /\ task.d = gen
      /\ task.result \in {"applied", "merged"} => versions[gen + 1] # Absent
  BY <1>1, AtEntry DEF Inv, TaskOK
<1>4. task' \in Tasks /\ task'.d = task.d /\ task'.pc = "complete"
  BY <1>1, GotoIsTask DEF RecordOutcome, Applying
<1>5. StoreOK' /\ EndsOnce'
  BY <1>1, <1>2, <1>3 DEF Inv, StoreOK, EndsOnce, Tasks
<1>6. RowsOK' /\ OutcomeOK'
  BY <1>2, <1>3 DEF Inv, StoreOK, RowsOK, OutcomeOK, Tracked
<1>7. TaskOK'
  BY <1>1, <1>2, <1>3, <1>4 DEF Inv, TaskOK, Tracked, Reviewing, Applying, InPlace, Renaming, Fenced
<1> QED
  BY <1>2, <1>4, <1>5, <1>6, <1>7 DEF Inv

LEMMA CompleteInv ==
    ASSUME Inv, Complete
    PROVE  Inv'
<1>1. task.pc = "complete" /\ task \in Tasks /\ task.pc \in Applying \ {"validate", "tidy"}
  BY DEF Complete, Inv, Applying
<1>2. /\ FilesOK' /\ UNCHANGED <<outcomes, evidence, payloads, versions, crashes>>
      /\ gen' = gen + 1 /\ active' = FALSE
  BY FilesKept DEF Complete
<1>3. /\ gen \in Deltas /\ active /\ gen < Len(versions) /\ gen \in Int /\ Len(versions) \in Int
      /\ gen + 1 \in Version /\ 0 \in 0..MaxDeltas /\ gen \in 0..MaxDeltas
      /\ 0 \in 0..(MaxDeltas + 1) /\ gen + 1 \in 0..(MaxDeltas + 1)
      /\ versions[gen + 1] \in Names \cup {Absent}
      /\ versions[gen] # Absent => Tracked
      /\ versions[gen] = Absent => versions[gen + 1] # Absent
  BY <1>1, AtEntry, GenerationAssumption DEF Inv, TaskOK, StoreOK, Deltas, Version
<1>4. SomeName \in Names
  BY GenerationAssumption DEF SomeName
<1>5. path' \in Paths
  <2>1. outcomes[gen] \in {"applied", "merged"} => versions[gen + 1] \in Names
    BY <1>3 DEF Inv, OutcomeOK
  <2>2. outcomes[gen] \in {"applied", "merged"} => Accepted("clean") \in Paths /\ Accepted("dirty") \in Paths
    BY <1>3, <2>1 DEF Accepted, Paths
  <2>3. Untracked \in Paths
    BY <1>3, <1>4 DEF Untracked, Paths
  <2>4. Conflicted \in Paths
    BY <1>3, <2>3 DEF Conflicted, Paths, Inv, StoreOK
  <2> QED
    BY <2>2, <2>3, <2>4 DEF Complete
<1>6. StoreOK' /\ EndsOnce' /\ OutcomeOK'
  <2>1. gen' \in 1..Len(versions)
    BY <1>2, <1>3 DEF Version, Deltas
  <2>2. ~ active' /\ active' \in BOOLEAN
    BY <1>2
  <2> QED
    BY <1>2, <1>5, <2>1, <2>2 DEF Inv, StoreOK, EndsOnce, OutcomeOK
<1>7. RowsOK'
  <2> SUFFICES ASSUME NEW d \in Deltas
               PROVE  /\ d > gen + 1 \/ d = gen + 1 => outcomes[d] = "none" /\ ~evidence[d].kept
                      /\ evidence[d].visible # Missing => d < gen + 1
                      /\ evidence[d].kept => d < Len(versions) /\ versions[d] # Absent
                      /\ ~ (evidence[d].visible # Missing /\ versions[d + 1] = Absent)
    BY <1>2 DEF RowsOK, Tracked
  <2>1. d \in Int /\ d >= 1
    BY DEF Deltas
  <2>2. versions[d + 1] = Absent /\ d + 1 <= Len(versions) => d + 1 = Len(versions)
    BY <1>3, <2>1 DEF Inv, EndsOnce
  <2> QED
    BY <1>3, <2>1, <2>2 DEF Inv, RowsOK
<1>8. task' \in Tasks /\ task'.pc = "tidy"
  BY <1>1, GotoIsTask DEF Complete, Applying
<1>9. TaskOK'
  BY <1>8 DEF TaskOK, Reviewing, Applying, InPlace, Renaming, Fenced
<1> QED
  BY <1>2, <1>6, <1>7, <1>8, <1>9 DEF Inv

LEMMA PrunedArePayloads == Inv => PrunedPayloads \subseteq Deltas
  BY DEF PrunedPayloads, Inv, StoreOK

LEMMA TidyInv ==
    ASSUME Inv, Tidy
    PROVE  Inv'
<1>1. task' = IdleTask
  BY DEF Tidy, ReconcileStaging, IdleTask
<1>2. UNCHANGED <<store, versions, crashes>> /\ payloads' \subseteq Deltas
  BY PrunedArePayloads DEF Tidy, ReconcileStaging, Inv, StoreOK
<1> QED
  BY <1>1, <1>2, Aborts, FilesKept DEF Tidy, ReconcileStaging

LEMMA ValidateInv ==
    ASSUME Inv, Validate
    PROVE  Inv'
<1>1. UNCHANGED <<versions, crashes>> /\ FilesOK'
  BY FilesKept DEF Validate, ReconcileStaging, Fail, Abort
<1>2. CASE ReconcileStaging("idle")
  <2>1. task' = IdleTask
    BY <1>2 DEF ReconcileStaging, IdleTask
  <2>2. UNCHANGED store /\ payloads' \subseteq Deltas
    BY <1>2, PrunedArePayloads DEF ReconcileStaging, Inv, StoreOK
  <2> QED
    BY <1>1, <2>1, <2>2, Aborts
<1>3. CASE Fail
  BY <1>1, <1>3, Aborts DEF Fail, Abort, NoStoreChange, Inv, StoreOK
<1>4. CASE HasDelta /\ BaseMatches(gen) /\ active' = TRUE
           /\ task' = [IdleTask EXCEPT !.pc = "stage", !.d = gen]
           /\ UNCHANGED <<gen, path, outcomes, evidence, payloads>>
  <2>1. gen < Len(versions) /\ gen \in Deltas /\ gen \in 0..MaxDeltas
    BY <1>4, GenerationAssumption DEF HasDelta, Inv, StoreOK, Version, Deltas
  <2>2. StoreOK' /\ EndsOnce'
    BY <1>1, <1>4, <2>1 DEF Inv, StoreOK, EndsOnce
  <2>3. RowsOK' /\ OutcomeOK'
    BY <1>1, <1>4, <2>1 DEF Inv, RowsOK, OutcomeOK, Tracked
  <2>4. task' \in Tasks /\ task'.pc = "stage" /\ task'.d = gen
    BY <1>4, <2>1, IdleIsTask DEF Tasks, Applying, IdleTask
  <2>5. TaskOK'
    BY <1>1, <1>4, <2>4 DEF TaskOK, BaseMatches, Tracked, Reviewing, Applying, InPlace, Renaming, Fenced
  <2> QED
    BY <1>1, <2>2, <2>3, <2>4, <2>5 DEF Inv
<1> QED
  BY <1>2, <1>3, <1>4 DEF Validate

LEMMA StageInv ==
    ASSUME Inv, Stage
    PROVE  Inv'
<1>1. task.pc = "stage" /\ task \in Tasks /\ task.pc \in Applying \ {"validate", "tidy"}
  BY DEF Stage, Inv, Applying
<1>2. gen \in Deltas /\ active /\ task.d = gen /\ (versions[gen] # Absent => Tracked)
  BY <1>1, AtEntry DEF Inv, TaskOK
<1>3. UNCHANGED <<store, versions, crashes>> /\ FilesOK' /\ payloads' \subseteq Deltas
  BY <1>2, FilesKept DEF Stage, Inv, StoreOK
<1>4. task' \in Tasks /\ task'.d = task.d /\ task'.pc \in {"apply", "complete"}
  BY <1>1, GotoIsTask DEF Stage, Applying
<1>5. TaskOK'
  BY <1>2, <1>3, <1>4 DEF TaskOK, Tracked, store, Reviewing, Applying, InPlace, Renaming, Fenced
<1> QED
  BY <1>3, <1>4, <1>5, StoreKept DEF Inv

-----------------------------------------------------------------------------
(* The review of rows *)

\* The review goes on to the next row, or ends.
LEMMA NextReviewIsTask ==
    ASSUME StoreOK, NEW d \in Nat, NextReview(d), gen' = gen,
           \A i \in Deltas : i > d => evidence'[i].kept = evidence[i].kept
    PROVE  task' \in Tasks /\ TaskOK'
<1>1. CASE task' = [IdleTask EXCEPT !.pc = "validate"]
  <2>1. task' \in Tasks /\ task'.pc = "validate"
    BY <1>1, IdleIsTask DEF Tasks, Applying, IdleTask
  <2> QED
    BY <2>1 DEF TaskOK, Reviewing, Applying, InPlace, Renaming, Fenced
<1>2. ASSUME NEW i \in Unreviewed(d), task' = [IdleTask EXCEPT !.pc = "review", !.d = i]
      PROVE  task' \in Tasks /\ TaskOK'
  <2>1. i \in Deltas /\ i > d /\ i \in 1..(gen - 1) /\ evidence[i].kept /\ i \in 0..MaxDeltas
    BY GenerationAssumption DEF Unreviewed, StoreOK, Version, Deltas
  <2>2. task' \in Tasks /\ task'.pc = "review" /\ task'.d = i
    BY <1>2, <2>1, IdleIsTask DEF Tasks, Reviewing, IdleTask
  <2> QED
    BY <2>1, <2>2 DEF TaskOK, Reviewing, Applying, InPlace, Renaming, Fenced
<1> QED
  BY <1>1, <1>2 DEF NextReview

LEMMA ReviewSkips ==
    ASSUME Inv, UNCHANGED <<store, versions, crashes>>, payloads' \subseteq Deltas,
           FilesOK', NEW d \in Nat, NextReview(d)
    PROVE  Inv'
  BY NextReviewIsTask, StoreKept DEF Inv, store

LEMMA ReviewGoesOn ==
    ASSUME Inv, UNCHANGED <<store, versions, crashes, payloads>>, FilesOK',
           task.pc \in Reviewing, task' \in Tasks, task'.d = task.d, task'.pc \in Reviewing,
           task'.pc = "resolve" => evidence[task.d].visible # Missing
    PROVE  Inv'
<1>1. TaskOK'
  BY DEF Inv, TaskOK, store, Reviewing, Applying, InPlace, Renaming, Fenced
<1> QED
  BY <1>1, StoreKept DEF Inv, StoreOK

\* What is known of the row in hand.
LEMMA AtReview ==
    ASSUME Inv, task.pc \in Reviewing
    PROVE  /\ task.d \in Deltas /\ task.d \in Nat /\ task.d < gen /\ task.d \in 1..Len(versions)
           /\ task.d + 1 \in Version /\ task.d \in 0..MaxDeltas /\ 0 \in 0..MaxDeltas
           /\ {0, task.d, task.d + 1} \subseteq 0..(MaxDeltas + 1)
           /\ evidence[task.d] \in Rows /\ evidence[task.d].kept
           /\ versions[task.d] \in Names /\ versions[task.d + 1] \in Names \cup {Absent}
           /\ Target(task.d) = File(evidence[task.d].name)
           /\ Target(task.d) \in Slots /\ Pre(task.d) \in Slots /\ Snap(task.d) \in Slots
           /\ Manifest(task.d) \in Texts /\ New(task.d) \in Texts
<1>1. /\ task.d \in 1..(gen - 1) /\ evidence[task.d].kept /\ gen \in 1..Len(versions)
      /\ Len(versions) \in 1..(MaxDeltas + 1) /\ versions \in Seq(Names \cup {Absent})
  BY DEF Inv, TaskOK, StoreOK, Version
<1>2. /\ task.d \in Deltas /\ task.d \in Nat /\ task.d < gen /\ task.d \in 1..Len(versions)
      /\ task.d + 1 \in Version /\ task.d \in 0..MaxDeltas /\ 0 \in 0..MaxDeltas
      /\ {0, task.d, task.d + 1} \subseteq 0..(MaxDeltas + 1) /\ task.d + 1 \in 1..Len(versions)
  BY <1>1, GenerationAssumption DEF Deltas, Version
<1>3. versions[task.d] \in Names \cup {Absent} /\ versions[task.d + 1] \in Names \cup {Absent}
  BY <1>1, <1>2, ElementOfSeq
<1>4. evidence[task.d] \in Rows /\ versions[task.d] # Absent
  BY <1>1, <1>2 DEF Inv, StoreOK, RowsOK
<1>5. Target(task.d) = File(evidence[task.d].name) /\ evidence[task.d].name \in Names
  BY <1>2, <1>4 DEF Target, Rows
<1>6. Image(task.d + 1) \in Texts
  BY <1>2, ImagesAreTexts DEF Inv
<1> QED
  BY <1>1, <1>2, <1>3, <1>4, <1>5, <1>6, SlotsAreSlots, TextsAreTexts DEF New

\* The two transactions of the store that move the path, and the removal of a row.
LEMMA MarkConflictOK ==
    ASSUME Inv, task.pc \in Reviewing, NEW seen \in Texts, NEW visible \in Texts,
           MarkConflict(task.d, seen, visible),
           UNCHANGED <<gen, active, payloads, versions, crashes>>
    PROVE  /\ StoreOK' /\ EndsOnce' /\ RowsOK' /\ OutcomeOK'
           /\ \A i \in Deltas : evidence'[i].kept = evidence[i].kept
<1> DEFINE d == task.d
<1>1. path' \in Paths /\ path'.state = "conflicted"
  <2>1. evidence[d].payload \in 0..MaxDeltas /\ path.local \in Names
    BY AtReview DEF Rows, Inv, StoreOK, Paths
  <2> QED
    BY <2>1, AtReview DEF MarkConflict, Paths
<1>2. /\ d \in Deltas /\ d < gen /\ d \in Nat /\ gen \in Nat
      /\ outcomes' \in [Deltas -> Results] /\ evidence' \in [Deltas -> Rows]
      /\ \A i \in Deltas : /\ evidence'[i].kept = evidence[i].kept
                           /\ i # d => evidence'[i] = evidence[i] /\ outcomes'[i] = outcomes[i]
  <2>1. d \in Deltas /\ d < gen /\ d \in Nat /\ gen \in Nat
    BY AtReview DEF Inv, StoreOK
  <2> DEFINE row == [evidence[d] EXCEPT !.captured = seen, !.visible = visible]
  <2>2. row \in Rows /\ row.kept = evidence[d].kept
    BY <2>1 DEF Inv, StoreOK, Rows
  <2>3. evidence' = [evidence EXCEPT ![d] = row] /\ outcomes' = [outcomes EXCEPT ![d] = "conflict"]
    BY DEF MarkConflict
  <2> HIDE DEF row, d
  <2>4. evidence \in [Deltas -> Rows] /\ outcomes \in [Deltas -> Results] /\ "conflict" \in Results
    BY DEF Inv, StoreOK, Results
  <2> QED
    BY <2>1, <2>2, <2>3, <2>4
<1>3. StoreOK' /\ EndsOnce'
  BY <1>1, <1>2 DEF Inv, StoreOK, EndsOnce
<1>4. RowsOK'
  BY <1>1, <1>2 DEF Inv, RowsOK, Tracked
<1>5. OutcomeOK'
  <2>1. active => gen \in Deltas
    BY <1>2, GenerationAssumption DEF Inv, StoreOK, Version, Deltas
  <2> QED
    BY <1>2, <2>1 DEF Inv, OutcomeOK
<1> QED
  BY <1>2, <1>3, <1>4, <1>5

LEMMA MarkResolvedOK ==
    ASSUME Inv, task.pc = "resolve", MarkResolved(task.d),
           UNCHANGED <<gen, active, payloads, versions, crashes>>
    PROVE  /\ StoreOK' /\ EndsOnce' /\ RowsOK' /\ OutcomeOK'
           /\ \A i \in Deltas : evidence'[i].kept = evidence[i].kept
<1> DEFINE d == task.d
<1> task.pc \in Reviewing
  BY DEF Reviewing
<1>1. path' \in Paths /\ path'.state = "dirty"
  <2>1. path.local \in Names /\ (versions[d + 1] = Absent => Tracked)
    BY AtReview DEF Inv, StoreOK, Paths, TaskOK, RowsOK
  <2> QED
    BY <2>1, AtReview DEF MarkResolved, Paths
<1>2. /\ d \in Deltas /\ d < gen /\ d \in Nat /\ gen \in Nat
      /\ outcomes' \in [Deltas -> Results] /\ evidence' \in [Deltas -> Rows]
      /\ \A i \in Deltas : /\ evidence'[i].kept = evidence[i].kept
                           /\ i # d => evidence'[i] = evidence[i] /\ outcomes'[i] = outcomes[i]
  <2>1. d \in Deltas /\ d < gen /\ d \in Nat /\ gen \in Nat
    BY AtReview DEF Inv, StoreOK
  <2> DEFINE row == [evidence[d] EXCEPT !.resolved = TRUE]
  <2>2. row \in Rows /\ row.kept = evidence[d].kept
    BY <2>1 DEF Inv, StoreOK, Rows
  <2>3. evidence' = [evidence EXCEPT ![d] = row] /\ outcomes' = [outcomes EXCEPT ![d] = "merged"]
    BY DEF MarkResolved
  <2> HIDE DEF row, d
  <2>4. evidence \in [Deltas -> Rows] /\ outcomes \in [Deltas -> Results] /\ "merged" \in Results
    BY DEF Inv, StoreOK, Results
  <2> QED
    BY <2>1, <2>2, <2>3, <2>4
<1>3. StoreOK' /\ EndsOnce'
  BY <1>1, <1>2 DEF Inv, StoreOK, EndsOnce
<1>4. RowsOK'
  BY <1>1, <1>2 DEF Inv, RowsOK, Tracked
<1>5. OutcomeOK'
  <2>1. active => gen \in Deltas
    BY <1>2, GenerationAssumption DEF Inv, StoreOK, Version, Deltas
  <2> QED
    BY <1>2, <2>1 DEF Inv, OutcomeOK
<1> QED
  BY <1>2, <1>3, <1>4, <1>5

LEMMA DropOK ==
    ASSUME Inv, task.pc \in Reviewing, evidence' = [evidence EXCEPT ![task.d] = NoRow],
           UNCHANGED <<gen, path, active, outcomes, payloads, versions, crashes>>
    PROVE  /\ StoreOK' /\ EndsOnce' /\ RowsOK' /\ OutcomeOK'
           /\ \A i \in Deltas : i > task.d => evidence'[i].kept = evidence[i].kept
<1>1. NoRow \in Rows /\ ~ NoRow.kept /\ NoRow.visible = Missing
  BY GenerationAssumption, TextsAreTexts DEF NoRow, Rows, SomeName
<1>2. /\ task.d \in Deltas /\ task.d \in Nat /\ evidence' \in [Deltas -> Rows]
      /\ evidence'[task.d] = NoRow
      /\ \A i \in Deltas : i # task.d => evidence'[i] = evidence[i]
  BY <1>1, AtReview DEF Inv, StoreOK
<1>3. StoreOK' /\ EndsOnce' /\ OutcomeOK'
  BY <1>2 DEF Inv, StoreOK, EndsOnce, OutcomeOK
<1>4. RowsOK'
  BY <1>1, <1>2 DEF Inv, RowsOK, Tracked
<1> QED
  BY <1>2, <1>3, <1>4

LEMMA BeginInv ==
    ASSUME Inv, Start
    PROVE  Inv'
<1>1. UNCHANGED <<store, versions, crashes>> /\ payloads' \subseteq Deltas /\ FilesOK'
  BY PrunedArePayloads, FilesKept DEF Start, Begin, Inv, StoreOK
<1>2. NextReview(0) \/ task' = task
  BY DEF Start, Begin
<1>3. CASE NextReview(0)
  BY <1>1, <1>3, ReviewSkips
<1>4. CASE task' = task
  <2>1. task.pc = "idle" /\ TaskOK'
    BY <1>4 DEF Start, Begin, TaskOK, Reviewing, Applying, InPlace, Renaming, Fenced
  <2> QED
    BY <1>1, <1>4, <2>1, StoreKept DEF Inv
<1> QED
  BY <1>2, <1>3, <1>4

LEMMA RecordChangedIsTask ==
    ASSUME task \in Tasks, NEW pre \in Texts, NEW snap \in Texts, NEW file,
           RecordChanged(pre, snap, file)
    PROVE  task' \in Tasks /\ task'.d = task.d /\ task'.pc \in {"manifest", "clear", "mark"}
<1>1. PICK pc \in {"manifest", "clear", "mark"} :
        task' = [task EXCEPT !.seen = pre, !.visible = snap, !.marks = TRUE, !.pc = pc]
  <2> DEFINE next == CASE file = Missing -> "manifest"
                       [] file \in {pre, snap} -> "clear"
                       [] OTHER -> "mark"
  <2>1. next \in {"manifest", "clear", "mark"}
    OBVIOUS
  <2>2. task' = [task EXCEPT !.seen = pre, !.visible = snap, !.marks = TRUE, !.pc = next]
    BY DEF RecordChanged
  <2> QED
    BY <2>1, <2>2
<1> QED
  BY <1>1 DEF Tasks, Reviewing

LEMMA ReviewInv ==
    ASSUME Inv, Review
    PROVE  Inv'
<1> DEFINE d == task.d
           row == evidence[d]
           pre == disk[Pre(d)]
           snap == disk[Snap(d)]
           file == disk[File(row.name)]
<1>1. /\ task.pc = "review" /\ task.pc \in Reviewing /\ task \in Tasks
      /\ UNCHANGED <<versions, crashes>>
  BY DEF Review, Inv, Reviewing
<1>2. /\ d \in Nat /\ d \in Deltas /\ row \in Rows /\ File(row.name) \in Slots
      /\ pre \in Texts /\ snap \in Texts /\ file \in Texts
  BY <1>1, AtReview DEF Inv, FilesOK
<1>3. CASE NextReview(d) /\ NoFileChange /\ NoStoreChange
  BY <1>1, <1>2, <1>3, FilesKept, ReviewSkips DEF NoStoreChange, Inv, StoreOK
<1>4. CASE Fail
  BY <1>1, <1>4, FilesKept, Aborts DEF Fail, Abort, NoStoreChange, Inv, StoreOK
<1>5. CASE /\ evidence' = [evidence EXCEPT ![d] = NoRow]
           /\ NextReview(d)
           /\ NoFileChange
           /\ UNCHANGED <<gen, path, active, outcomes, payloads>>
  <2>1. /\ StoreOK' /\ EndsOnce' /\ RowsOK' /\ OutcomeOK'
        /\ \A i \in Deltas : i > d => evidence'[i].kept = evidence[i].kept
    BY <1>1, <1>5, DropOK
  <2>2. task' \in Tasks /\ TaskOK'
    BY <1>2, <1>5, <2>1, NextReviewIsTask DEF Inv
  <2> QED
    BY <1>5, <2>1, <2>2, FilesKept DEF Inv
<1>6. ASSUME NoFileChange, NoStoreChange, task' \in Tasks, task'.d = task.d,
             task'.pc \in Reviewing, task'.pc = "resolve" => row.visible # Missing
      PROVE  Inv'
  BY <1>1, <1>6, FilesKept, ReviewGoesOn DEF NoStoreChange
<1>7. CASE RecordChanged(pre, snap, file) /\ NoFileChange /\ NoStoreChange
  BY <1>1, <1>2, <1>6, <1>7, RecordChangedIsTask DEF Reviewing
<1>8. CASE Goto("manifest") /\ NoFileChange /\ NoStoreChange
  BY <1>1, <1>6, <1>8, GotoIsTask DEF Reviewing
<1>9. CASE /\ task' = [task EXCEPT !.pc = "resolve", !.seen = pre,
                                  !.visible = snap, !.chosen = file]
           /\ row.visible # Missing /\ NoFileChange /\ NoStoreChange
  <2>1. task' \in Tasks /\ task'.d = task.d /\ task'.pc = "resolve"
    BY <1>1, <1>2, <1>9 DEF Tasks, Reviewing
  <2> QED
    BY <1>6, <1>9, <2>1 DEF Reviewing
<1>10. CASE /\ \E pc \in {"manifest", "restore", "unrestore", "retain"} :
                task' = [task EXCEPT !.seen = pre, !.visible = snap, !.marks = TRUE, !.pc = pc]
            /\ NoFileChange /\ NoStoreChange
  <2>1. /\ task' \in Tasks /\ task'.d = task.d
        /\ task'.pc \in {"manifest", "restore", "unrestore", "retain"}
    BY <1>1, <1>2, <1>10 DEF Tasks, Reviewing
  <2> QED
    BY <1>6, <1>10, <2>1 DEF Reviewing
<1>11. CASE row.resolved
  BY <1>3, <1>11 DEF Review
<1>12. CASE ~ row.resolved /\ pre = Missing
  BY <1>4, <1>5, <1>12 DEF Review
<1>13. CASE ~ row.resolved /\ pre # Missing /\ row.visible # Missing
  BY <1>3, <1>4, <1>7, <1>8, <1>9, <1>13 DEF Review
<1>14. CASE ~ row.resolved /\ pre # Missing /\ row.visible = Missing
  <2>1. \/ NextReview(d) /\ NoFileChange /\ NoStoreChange
        \/ /\ \E pc \in {"manifest", "restore", "unrestore", "retain"} :
                task' = [task EXCEPT !.seen = pre, !.visible = snap, !.marks = TRUE, !.pc = pc]
           /\ NoFileChange /\ NoStoreChange
    BY <1>14 DEF Review
  <2> QED
    BY <1>3, <1>10, <2>1
<1> QED
  BY <1>11, <1>12, <1>13, <1>14

\* A step of the review that changes files only.
LEMMA ReviewFileStep ==
    ASSUME Inv, task.pc \in Reviewing, NoStoreChange, UNCHANGED <<versions, crashes>>, FilesOK',
           NEW pc \in Reviewing \ {"resolve"}, Goto(pc) \/ task' = IdleTask
    PROVE  Inv'
<1>1. CASE Goto(pc)
  <2>1. task' \in Tasks /\ task'.d = task.d /\ task'.pc = pc
    BY <1>1, GotoIsTask DEF Inv
  <2> QED
    BY <2>1, ReviewGoesOn DEF NoStoreChange
<1>2. CASE task' = IdleTask
  BY <1>2, Aborts DEF NoStoreChange, Inv, StoreOK
<1> QED
  BY <1>1, <1>2

LEMMA RestoreInv ==
    ASSUME Inv, Restore
    PROVE  Inv'
<1>1. /\ task.pc \in Reviewing /\ task \in Tasks /\ FilesOK /\ UNCHANGED <<versions, crashes>>
      /\ task.seen \in Texts /\ Missing \in Texts
  BY TextsAreTexts DEF Restore, Inv, Reviewing, Tasks
<1>2. Target(task.d) \in Slots /\ Pre(task.d) \in Slots /\ task.d \in Nat
  BY <1>1, AtReview
<1>3. CASE task.pc = "unrestore" /\ TryUnlink(Target(task.d), "restore") /\ NoStoreChange
  <2>1. FilesOK' /\ (Goto("restore") \/ task' = IdleTask)
    BY <1>1, <1>2, <1>3, TryOps
  <2> QED
    BY <1>1, <1>3, <2>1, ReviewFileStep DEF Reviewing
<1>4. CASE task.pc = "restore" /\ TryMove(Pre(task.d), Target(task.d), "restored") /\ NoStoreChange
  <2>1. FilesOK' /\ (Goto("restored") \/ task' = IdleTask)
    BY <1>1, <1>2, <1>4, TryOps
  <2> QED
    BY <1>1, <1>4, <2>1, ReviewFileStep DEF Reviewing
<1>5. CASE Fail
  BY <1>1, <1>5, FilesKept, Aborts DEF Fail, Abort, NoStoreChange, Inv, StoreOK
<1>6. CASE /\ task.pc = "restored" /\ MarkConflict(task.d, task.seen, Missing)
           /\ Goto("drop") /\ NoFileChange /\ UNCHANGED <<gen, active, payloads>>
  <2>1. /\ StoreOK' /\ EndsOnce' /\ RowsOK' /\ OutcomeOK'
        /\ \A i \in Deltas : evidence'[i].kept = evidence[i].kept
    BY <1>1, <1>6, MarkConflictOK
  <2>2. task' \in Tasks /\ task'.d = task.d /\ task'.pc = "drop"
    BY <1>1, <1>6, GotoIsTask DEF Reviewing
  <2>3. task.d \in 1..(gen - 1) /\ evidence'[task.d].kept
    BY <1>1, <2>1, AtReview DEF Inv, TaskOK
  <2>4. TaskOK'
    BY <1>6, <2>2, <2>3 DEF TaskOK, Reviewing, Applying, InPlace, Renaming, Fenced
  <2> QED
    BY <1>6, <2>1, <2>2, <2>4, FilesKept DEF Inv
<1>7. CASE /\ task.pc = "drop" /\ evidence' = [evidence EXCEPT ![task.d] = NoRow]
           /\ NextReview(task.d) /\ NoFileChange
           /\ UNCHANGED <<gen, path, active, outcomes, payloads>>
  <2>1. /\ StoreOK' /\ EndsOnce' /\ RowsOK' /\ OutcomeOK'
        /\ \A i \in Deltas : i > task.d => evidence'[i].kept = evidence[i].kept
    BY <1>1, <1>7, DropOK
  <2>2. task' \in Tasks /\ TaskOK'
    BY <1>2, <1>7, <2>1, NextReviewIsTask DEF Inv
  <2> QED
    BY <1>7, <2>1, <2>2, FilesKept DEF Inv
<1> QED
  BY <1>3, <1>4, <1>5, <1>6, <1>7 DEF Restore

LEMMA RetainInv ==
    ASSUME Inv, Retain
    PROVE  Inv'
<1>1. /\ task.pc \in Reviewing /\ task \in Tasks /\ FilesOK /\ UNCHANGED <<versions, crashes>>
      /\ task.seen \in Texts /\ task.visible \in Texts
  BY DEF Retain, Inv, Reviewing, Tasks
<1>2. /\ Target(task.d) \in Slots /\ Snap(task.d) \in Slots /\ task.d \in Nat
      /\ Manifest(task.d) \in Texts
  BY <1>1, AtReview
<1>3. CASE /\ task.pc = "retain" /\ NoStoreChange
           /\ Move(Target(task.d), Snap(task.d))
           /\ task' = [task EXCEPT !.pc = "manifest", !.visible = disk[Target(task.d)]]
  <2>1. FilesOK'
    BY <1>1, <1>2, <1>3, FileOps
  <2>2. task' \in Tasks /\ task'.d = task.d /\ task'.pc = "manifest"
    BY <1>1, <1>2, <1>3 DEF Tasks, Reviewing, FilesOK
  <2> QED
    BY <1>1, <1>3, <2>1, <2>2, ReviewGoesOn DEF NoStoreChange, Reviewing
<1>4. CASE Abort /\ NoStoreChange
  BY <1>1, <1>4, FilesKept, Aborts DEF Abort, NoStoreChange, Inv, StoreOK
<1>5. CASE task.pc = "clear" /\ TryUnlink(Target(task.d), "manifest") /\ NoStoreChange
  <2>1. FilesOK' /\ (Goto("manifest") \/ task' = IdleTask)
    BY <1>1, <1>2, <1>5, TryOps
  <2> QED
    BY <1>1, <1>5, <2>1, ReviewFileStep DEF Reviewing
<1>6. CASE NextReview(task.d) /\ NoFileChange /\ NoStoreChange
  BY <1>1, <1>2, <1>6, FilesKept, ReviewSkips DEF NoStoreChange, Inv, StoreOK
<1>7. CASE Goto("mark") /\ NoFileChange /\ NoStoreChange
  BY <1>1, <1>7, FilesKept, ReviewFileStep DEF Reviewing
<1>8. CASE Put(Target(task.d), Manifest(task.d)) /\ Goto("published") /\ NoStoreChange
  BY <1>1, <1>2, <1>8, FileOps, ReviewFileStep DEF Reviewing
<1>9. CASE task' = IdleTask /\ NoFileChange /\ NoStoreChange
  BY <1>4, <1>9 DEF Abort
<1>10. CASE /\ task.pc = "mark" /\ MarkConflict(task.d, task.seen, task.visible)
            /\ NextReview(task.d) /\ NoFileChange /\ UNCHANGED <<gen, active, payloads>>
  <2>1. /\ StoreOK' /\ EndsOnce' /\ RowsOK' /\ OutcomeOK'
        /\ \A i \in Deltas : evidence'[i].kept = evidence[i].kept
    BY <1>1, <1>10, MarkConflictOK
  <2>2. task' \in Tasks /\ TaskOK'
    BY <1>2, <1>10, <2>1, NextReviewIsTask DEF Inv
  <2> QED
    BY <1>10, <2>1, <2>2, FilesKept DEF Inv
<1> QED
  BY <1>3, <1>4, <1>5, <1>6, <1>7, <1>8, <1>9, <1>10 DEF Retain

LEMMA ResolveEvidenceInv ==
    ASSUME Inv, ResolveEvidence
    PROVE  Inv'
<1>1. /\ task.pc = "resolve" /\ task.pc \in Reviewing /\ task \in Tasks /\ FilesOK
      /\ UNCHANGED <<versions, crashes>>
  BY DEF ResolveEvidence, Inv, Reviewing, Tasks
<1>2. /\ disk[Pre(task.d)] \in Texts /\ disk[Snap(task.d)] \in Texts /\ task.d \in Nat
  BY <1>1, AtReview DEF FilesOK
<1>3. CASE Fail
  BY <1>1, <1>3, FilesKept, Aborts DEF Fail, Abort, NoStoreChange, Inv, StoreOK
<1>4. CASE /\ RecordChanged(disk[Pre(task.d)], disk[Snap(task.d)], disk[Target(task.d)])
           /\ NoFileChange /\ NoStoreChange
  <2>1. task' \in Tasks /\ task'.d = task.d /\ task'.pc \in {"manifest", "clear", "mark"}
    BY <1>1, <1>2, <1>4, RecordChangedIsTask
  <2> QED
    BY <1>1, <1>4, <2>1, FilesKept, ReviewGoesOn DEF NoStoreChange, Reviewing
<1>5. CASE /\ MarkResolved(task.d) /\ NextReview(task.d) /\ NoFileChange
           /\ UNCHANGED <<gen, active, payloads>>
  <2>1. /\ StoreOK' /\ EndsOnce' /\ RowsOK' /\ OutcomeOK'
        /\ \A i \in Deltas : evidence'[i].kept = evidence[i].kept
    BY <1>1, <1>5, MarkResolvedOK
  <2>2. task' \in Tasks /\ TaskOK'
    BY <1>2, <1>5, <2>1, NextReviewIsTask DEF Inv
  <2> QED
    BY <1>5, <2>1, <2>2, FilesKept DEF Inv
<1> QED
  BY <1>3, <1>4, <1>5 DEF ResolveEvidence

-----------------------------------------------------------------------------
(* The service, the user, the crash *)

LEMMA PublishInv ==
    ASSUME Inv, Publish
    PROVE  Inv'
<1>1. PICK n \in Names \cup {Absent} :
        /\ n # Absent \/ versions[Len(versions)] # Absent
        /\ versions' = Append(versions, n)
  BY DEF Publish
<1>2. /\ UNCHANGED <<disk, user, store, payloads, task, crashes>>
      /\ Len(versions) <= MaxDeltas
      /\ versions[Len(versions)] # Absent \/ Len(versions) = 1
  BY DEF Publish
<1>3. /\ versions' \in Seq(Names \cup {Absent}) /\ Len(versions) \in Nat
      /\ Len(versions') = Len(versions) + 1
      /\ \A i \in 1..Len(versions) : versions'[i] = versions[i]
      /\ versions'[Len(versions) + 1] = n
  BY <1>1, AppendProperties, LenProperties DEF Inv, StoreOK
<1>4. FilesOK'
  BY <1>2 DEF Inv, FilesOK, user
<1>5. StoreOK'
  <2>1. Len(versions') \in Version /\ Len(versions) >= 1
    BY <1>2, <1>3, GenerationAssumption DEF Inv, StoreOK, Version
  <2>2. gen' \in 1..Len(versions') /\ (active' => gen' < Len(versions'))
    BY <1>2, <1>3 DEF Inv, StoreOK, store
  <2> QED
    BY <1>2, <1>3, <2>1, <2>2 DEF Inv, StoreOK, store
<1>6. EndsOnce'
  <2> SUFFICES ASSUME NEW i \in 1..Len(versions), versions'[i + 1] = Absent
               PROVE  versions'[i] # Absent /\ i + 1 = Len(versions')
    BY <1>3 DEF EndsOnce
  <2>1. CASE i = Len(versions)
    BY <1>1, <1>3, <2>1
  <2>2. CASE i < Len(versions)
    <3>1. i \in 1..(Len(versions) - 1) /\ i + 1 \in 1..Len(versions)
      BY <1>3, <2>2
    <3>2. versions[i + 1] = Absent
      BY <1>3, <3>1
    <3>3. versions[i] # Absent /\ i + 1 = Len(versions)
      BY <3>1, <3>2 DEF Inv, EndsOnce
    <3> QED
      BY <1>2, <1>3, <3>1, <3>2, <3>3
  <2> QED
    BY <1>3, <2>1, <2>2
<1>7. gen \in 1..Len(versions) /\ (active => gen + 1 \in 1..Len(versions))
  BY <1>3 DEF Inv, StoreOK
<1>8. RowsOK'
  <2> SUFFICES ASSUME NEW d \in Deltas
               PROVE  /\ evidence[d].kept => d < Len(versions') /\ versions'[d] # Absent
                      /\ evidence[d].visible # Missing /\ versions'[d + 1] = Absent => Tracked
    BY <1>2 DEF Inv, RowsOK, Tracked, store
  <2>1. d \in Nat /\ d >= 1
    BY DEF Deltas
  <2>2. evidence[d].kept => d \in 1..Len(versions)
    BY <1>3, <2>1 DEF Inv, RowsOK
  <2>3. evidence[d].visible # Missing => d + 1 \in 1..Len(versions)
    BY <1>3, <1>7, <2>1 DEF Inv, RowsOK
  <2> QED
    BY <1>3, <2>1, <2>2, <2>3 DEF Inv, RowsOK
<1>9. OutcomeOK'
  BY <1>2, <1>3, <1>7 DEF Inv, OutcomeOK, store
<1>10. TaskOK'
  <2>1. task.pc \in Applying \ {"validate", "tidy"} => active
    BY DEF Inv, TaskOK
  <2>2. {"create", "fence", "record"} \cup InPlace \cup Renaming \cup Fenced
        \subseteq Applying \ {"validate", "tidy"}
    BY DEF Applying, InPlace, Renaming, Fenced
  <2>3. active => versions'[gen] = versions[gen] /\ versions'[gen + 1] = versions[gen + 1]
    BY <1>3, <1>7
  <2> QED
    BY <1>2, <2>1, <2>2, <2>3 DEF Inv, TaskOK, Tracked, store
<1> QED
  BY <1>2, <1>4, <1>5, <1>6, <1>8, <1>9, <1>10 DEF Inv

LEMMA UserInv ==
    ASSUME Inv, User
    PROVE  Inv'
<1>1. UNCHANGED <<versions, store, payloads, task, crashes>>
  BY DEF User, Open, Close, Type, Create, Remove, Resolve
<1>2. FilesOK /\ \A n \in Names : File(n) \in Slots
  BY SlotsAreSlots DEF Inv
<1>3. FilesOK'
  <2>1. CASE Close
    BY <1>2, <2>1 DEF Close, FilesOK
  <2>2. ASSUME NEW n \in Names, Open(n)
        PROVE  FilesOK'
    BY <1>2, <2>2 DEF Open, FilesOK
  <2>3. ASSUME NEW n \in Names, Remove(n)
        PROVE  FilesOK'
    BY <1>2, <2>3, TextsAreTexts DEF Remove, Unlinked, FilesOK
  <2>4. ASSUME NEW e \in Edits, Type(e)
        PROVE  FilesOK'
    <3>1. typed' \subseteq Edits /\ owed' \subseteq typed'
      BY <1>2, <2>4 DEF Type, Owes, FilesOK
    <3>2. disk' \in [Slots -> Texts]
      <4>1. CASE held \in Slots
        <5>1. [disk[held] EXCEPT !.edits = @ \cup {e}] \in Texts
          BY <1>2, <4>1 DEF FilesOK, Texts
        <5>2. held # Gone
          BY <4>1, SlotsAreSlots
        <5> QED
          BY <1>2, <2>4, <4>1, <5>1, <5>2 DEF Type, FilesOK
      <4>2. CASE held = Gone
        BY <1>2, <2>4, <4>2 DEF Type, FilesOK
      <4> QED
        BY <1>2, <2>4, <4>1, <4>2 DEF Type, FilesOK
    <3> QED
      BY <1>2, <2>4, <3>1, <3>2 DEF Type, FilesOK
  <2>5. ASSUME NEW n \in Names, NEW e \in Edits, Create(n, e)
        PROVE  FilesOK'
    BY <1>2, <2>5, TextsAreTexts DEF Create, Owes, FilesOK
  <2>6. ASSUME NEW n \in Names, NEW s \in Slots, Resolve(n, s)
        PROVE  FilesOK'
    BY <1>2, <2>6 DEF Resolve, FilesOK
  <2> QED
    BY <2>1, <2>2, <2>3, <2>4, <2>5, <2>6 DEF User
<1>4. TaskOK'
  BY <1>1 DEF Inv, TaskOK, store, Tracked
<1> QED
  BY <1>1, <1>3, <1>4, StoreKept DEF Inv, StoreOK

LEMMA CrashInv ==
    ASSUME Inv, Crash
    PROVE  Inv'
<1>1. FilesOK' /\ EndsOnce' /\ RowsOK' /\ OutcomeOK'
  BY DEF Crash, Inv, FilesOK, EndsOnce, RowsOK, OutcomeOK, Tracked, store, user
<1>2. StoreOK'
  BY GenerationAssumption DEF Crash, Inv, StoreOK, store
<1>3. TaskOK'
  BY DEF Crash, TaskOK, IdleTask, Reviewing, Applying, InPlace, Renaming, Fenced
<1> QED
  BY <1>1, <1>2, <1>3, IdleIsTask DEF Inv, Crash

-----------------------------------------------------------------------------
(* The invariant *)

LEMMA InitInv == Init => Inv
<1> SUFFICES ASSUME Init
             PROVE  Inv
  OBVIOUS
<1>1. PICK n \in Names \cup {Absent} : versions = <<n>>
  BY DEF Init
<1>2. /\ versions \in Seq(Names \cup {Absent}) /\ Len(versions) = 1 /\ versions[1] = n
      /\ 1 \in Version /\ 0 \in 0..MaxDeltas /\ {0, 1} \subseteq 0..(MaxDeltas + 1)
      /\ SomeName \in Names
  BY <1>1, GenerationAssumption DEF Version, SomeName
<1>3. NoRow \in Rows /\ ~ NoRow.kept /\ NoRow.visible = Missing
  BY <1>2, TextsAreTexts DEF NoRow, Rows
<1>4. FilesOK
  <2>1. Text("doc", 1, {}) \in Texts /\ Missing \in Texts
    BY <1>2, TextsAreTexts
  <2> QED
    BY <2>1 DEF Init, FilesOK
<1>5. path \in Paths
  BY <1>2 DEF Init, Paths
<1>6. StoreOK
  <2>1. gen \in 1..Len(versions) /\ Len(versions) \in Version /\ crashes \in 0..MaxCrashes
    BY <1>2, GenerationAssumption DEF Init
  <2>2. ~ active /\ active \in BOOLEAN
    BY DEF Init
  <2>3. /\ outcomes \in [Deltas -> Results] /\ payloads \subseteq Deltas
        /\ evidence \in [Deltas -> Rows]
    BY <1>3 DEF Init, Results
  <2> QED
    BY <1>2, <1>5, <2>1, <2>2, <2>3 DEF StoreOK
<1>7. EndsOnce /\ RowsOK /\ OutcomeOK /\ TaskOK
  BY <1>2, <1>3 DEF Init, EndsOnce, RowsOK, OutcomeOK, TaskOK, IdleTask,
     Reviewing, Applying, InPlace, Renaming, Fenced
<1> QED
  BY <1>4, <1>6, <1>7, IdleIsTask DEF Inv, Init

LEMMA NextInv == Inv /\ [Next]_vars => Inv'
<1> SUFFICES ASSUME Inv, [Next]_vars
             PROVE  Inv'
  OBVIOUS
<1>1. CASE Publish \/ User \/ Crash
  BY <1>1, PublishInv, UserInv, CrashInv
<1>2. CASE Start \/ Recover
  BY <1>2, BeginInv, ReviewInv, RestoreInv, RetainInv, ResolveEvidenceInv DEF Recover
<1>3. CASE Apply
  BY <1>3, ValidateInv, StageInv, ApplyEntryInv, ApplyCreateInv, ThreeWayInv, FencedUpdateInv,
     FencedRenameInv, RecordEvidenceInv, RecordOutcomeInv, CompleteInv, TidyInv DEF Apply
<1>4. CASE UNCHANGED vars
  BY <1>4 DEF vars, user, Inv, FilesOK, StoreOK, EndsOnce, RowsOK, OutcomeOK, TaskOK, Tracked
<1> QED
  BY <1>1, <1>2, <1>3, <1>4 DEF Next, Sync

LEMMA InvHolds == Spec => []Inv
  BY InitInv, NextInv, PTL DEF Spec

\* Every variable keeps its type: no entry is applied for a version that does not
\* exist, no row names one, and the journal is one delta ahead at most.
THEOREM TypeCorrect == Spec => []TypeOK
<1>1. Inv => TypeOK
  BY DEF Inv, FilesOK, StoreOK, TypeOK
<1> QED
  BY <1>1, InvHolds, PTL

-----------------------------------------------------------------------------
(* Edits are kept *)

Doomed == {"clear", "unrestore", "undo"}

\* The edits in the other slots.
EditsBeside(s) == UNION {disk[r].edits : r \in Slots \ {s}}

\* Every owed edit of a file that is about to be unlinked is in another slot too.
DoomedKept ==
    task.pc \in Doomed => owed \cap disk[Target(task.d)].edits \subseteq EditsBeside(Target(task.d))

\* What a step of a sync may do to the files.
FileStep ==
    \/ NoFileChange
    \/ \E from, to \in Slots : from # to /\ ~ Exists(to) /\ Move(from, to)
    \/ \E s \in Slots : \E t \in Texts : Put(s, t)
    \/ task.pc \in Doomed /\ Target(task.d) \in Slots /\ Unlink(Target(task.d))

LEMMA FileStepKeeps ==
    ASSUME FilesOK, EditsAreKept, DoomedKept, FileStep
    PROVE  EditsAreKept'
<1>1. Missing.edits = {}
  BY DEF Missing, Text
<1>2. CASE NoFileChange
  BY <1>2 DEF NoFileChange, user, EditsAreKept, EditsOnDisk
<1>3. ASSUME NEW from \in Slots, NEW to \in Slots, from # to, ~ Exists(to), Move(from, to)
      PROVE  EditsAreKept'
  <2>1. disk' = [disk EXCEPT ![to] = disk[from], ![from] = Missing] /\ owed' = owed
    BY <1>3 DEF Move
  <2>2. disk'[to] = disk[from] /\ \A s \in Slots \ {from, to} : disk'[s] = disk[s]
    BY <1>3, <2>1 DEF FilesOK
  <2>3. disk[to].edits = {}
    BY <1>1, <1>3 DEF Exists
  <2> SUFFICES ASSUME NEW e \in owed
               PROVE  \E s \in Slots : e \in disk'[s].edits
    BY <2>1 DEF EditsAreKept, EditsOnDisk
  <2>4. PICK s \in Slots : e \in disk[s].edits
    BY DEF EditsAreKept, EditsOnDisk
  <2> QED
    BY <2>2, <2>3, <2>4
<1>4. ASSUME NEW s \in Slots, NEW t \in Texts, Put(s, t)
      PROVE  EditsAreKept'
  <2>1. disk[s].edits = {} /\ owed' = owed
    BY <1>1, <1>4 DEF Put, Exists, user
  <2>2. \A r \in Slots \ {s} : disk'[r] = disk[r]
    BY <1>4 DEF Put, FilesOK
  <2> QED
    BY <2>1, <2>2 DEF EditsAreKept, EditsOnDisk
<1>5. CASE task.pc \in Doomed /\ Target(task.d) \in Slots /\ Unlink(Target(task.d))
  <2> DEFINE s == Target(task.d)
  <2>1. owed' = owed /\ \A r \in Slots \ {s} : disk'[r] = disk[r]
    BY <1>5 DEF Unlink, FilesOK
  <2>2. owed \cap disk[s].edits \subseteq EditsBeside(s)
    BY <1>5 DEF DoomedKept
  <2> HIDE DEF s
  <2> QED
    BY <2>1, <2>2 DEF EditsAreKept, EditsOnDisk, EditsBeside
<1> QED
  BY <1>2, <1>3, <1>4, <1>5 DEF FileStep

LEMMA FailIsFileStep == Abort \/ Fail => FileStep
  BY DEF Fail, Abort, FileStep

LEMMA EntryFileStep ==
    ASSUME Inv, ApplyCreate \/ ThreeWay \/ FencedUpdate \/ FencedRename
    PROVE  FileStep
<1>1. task.pc \in Applying \ {"validate", "tidy"}
  BY DEF ApplyCreate, ThreeWay, FencedUpdate, FencedRename, Applying
<1>2. /\ File(path.local) \in Slots /\ Pre(gen) \in Slots /\ Pre(gen) # File(path.local)
      /\ New(gen) \in Texts /\ task.d = gen /\ gen \in Int
  BY <1>1, AtEntry, SlotsAreSlots DEF New, Inv, StoreOK
<1>3. CASE ApplyCreate
  <2>1. versions[gen + 1] # Absent
    BY <1>1, <1>3, AtEntry DEF ApplyCreate, Inv, TaskOK
  <2> QED
    BY <1>1, <1>2, <1>3, <2>1, AtEntry DEF ApplyCreate, FileStep
<1>4. CASE ThreeWay
  <2>1. CASE task.pc = "merge"
    <3>1. Merged(gen, task.seen) \in Texts
      <4>1. gen + 1 \in Version /\ task.seen \in Texts
        BY <1>1, AtEntry, GenerationAssumption DEF Inv, Tasks, Version, Deltas
      <4> QED
        BY <4>1, TextsAreTexts DEF Merged, Texts
    <3> QED
      BY <1>2, <1>4, <2>1, <3>1, FailIsFileStep DEF ThreeWay, FileStep
  <2>2. CASE task.pc # "merge"
    BY <1>2, <1>4, <2>2, FailIsFileStep DEF ThreeWay, FileStep, TryMove, CanMove
  <2> QED
    BY <2>1, <2>2
<1>5. CASE FencedUpdate
  <2>1. CASE task.pc = "undo"
    <3>1. Target(task.d) = File(path.local)
      BY <1>2 DEF Target
    <3> QED
      BY <1>2, <1>5, <2>1, <3>1, FailIsFileStep DEF FencedUpdate, FileStep, TryUnlink, Doomed
  <2>2. CASE task.pc # "undo"
    BY <1>2, <1>5, <2>2, FailIsFileStep DEF FencedUpdate, FileStep, TryMove, CanMove
  <2> QED
    BY <2>1, <2>2
<1>6. CASE FencedRename
  <2>1. File(versions[gen + 1]) \in Slots
    BY <1>1, <1>6, AtEntry DEF FencedRename, Inv, TaskOK, Renaming
  <2> QED
    BY <1>2, <1>6, <2>1, FailIsFileStep DEF FencedRename, FileStep, TryMove, CanMove
<1> QED
  BY <1>3, <1>4, <1>5, <1>6

LEMMA ReviewFilesStep ==
    ASSUME Inv, Restore \/ Retain
    PROVE  FileStep
<1>1. task.pc \in Reviewing
  BY DEF Restore, Retain, Reviewing
<1>2. /\ Target(task.d) \in Slots /\ Pre(task.d) \in Slots /\ Snap(task.d) \in Slots
      /\ Manifest(task.d) \in Texts
      /\ Target(task.d) # Pre(task.d) /\ Target(task.d) # Snap(task.d)
  BY <1>1, AtReview, SlotsAreSlots
<1>3. CASE Restore
  BY <1>2, <1>3, FailIsFileStep DEF Restore, FileStep, TryMove, TryUnlink, CanMove, Doomed
<1>4. CASE Retain
  BY <1>2, <1>4, FailIsFileStep DEF Retain, FileStep, TryMove, TryUnlink, CanMove, Doomed
<1> QED
  BY <1>3, <1>4

LEMMA SyncFileStep ==
    ASSUME Inv, Sync
    PROVE  FileStep
<1>1. CASE NoFileChange
  BY <1>1 DEF FileStep
<1>2. CASE Fail
  BY <1>2, FailIsFileStep
<1>3. CASE Start \/ Review \/ ResolveEvidence
  BY <1>1, <1>2, <1>3 DEF Start, Begin, Review, ResolveEvidence
<1>4. CASE Restore \/ Retain
  BY <1>4, ReviewFilesStep
<1>5. CASE ApplyCreate \/ ThreeWay \/ FencedUpdate \/ FencedRename
  BY <1>5, EntryFileStep
<1>6. CASE Validate \/ Stage \/ ApplyEntry \/ RecordEvidence \/ RecordOutcome \/ Complete \/ Tidy
  BY <1>1, <1>2, <1>6 DEF Validate, Stage, ApplyEntry, RecordEvidence, RecordOutcome,
     Complete, Tidy, ReconcileStaging
<1> QED
  BY <1>3, <1>4, <1>5, <1>6 DEF Sync, Recover, Apply

LEMMA SyncDoom ==
    ASSUME Inv, Sync
    PROVE  DoomedKept'
<1>1. CASE task'.pc \notin Doomed
  BY <1>1 DEF DoomedKept
<1>2. ASSUME NEW d \in Nat, NextReview(d)
      PROVE  task'.pc \notin Doomed
  BY <1>2 DEF NextReview, IdleTask, Doomed
<1>3. task' = IdleTask => task'.pc \notin Doomed
  BY DEF IdleTask, Doomed
<1>4. ASSUME NoFileChange, NoStoreChange, task.d \in Nat, task'.d = task.d,
             disk[Target(task.d)].edits \subseteq EditsBeside(Target(task.d))
      PROVE  DoomedKept'
  <2>1. Target(task.d)' = Target(task.d)
    BY <1>4 DEF Target, NoStoreChange, store
  <2>2. disk' = disk /\ owed' = owed
    BY <1>4 DEF NoFileChange, user
  <2> QED
    BY <1>4, <2>1, <2>2 DEF DoomedKept, EditsBeside
<1>5. ASSUME task.pc \in Reviewing, NoFileChange, NoStoreChange,
             RecordChanged(disk[Pre(task.d)], disk[Snap(task.d)], disk[Target(task.d)])
      PROVE  DoomedKept'
  <2> DEFINE file == disk[Target(task.d)]
  <2>1. /\ Target(task.d) \in Slots /\ Pre(task.d) \in Slots /\ Snap(task.d) \in Slots
        /\ Target(task.d) # Pre(task.d) /\ Target(task.d) # Snap(task.d) /\ task.d \in Nat
        /\ task \in Tasks
    BY <1>5, AtReview, SlotsAreSlots DEF Inv
  <2>2. task' \in Tasks /\ task'.d = task.d
    BY <2>1, <1>5, RecordChangedIsTask DEF Inv, FilesOK
  <2>3. CASE file \in {disk[Pre(task.d)], disk[Snap(task.d)]}
    BY <1>4, <1>5, <2>1, <2>2, <2>3 DEF EditsBeside
  <2>4. CASE file = Missing
    BY <1>4, <1>5, <2>1, <2>2, <2>4 DEF Missing, Text
  <2>5. CASE file # Missing /\ file \notin {disk[Pre(task.d)], disk[Snap(task.d)]}
    <3>1. task'.pc = "mark"
      BY <1>5, <2>1, <2>5 DEF RecordChanged, Tasks
    <3> QED
      BY <1>1, <3>1 DEF Doomed
  <2> QED
    BY <2>3, <2>4, <2>5
<1>6. CASE Review
  <2> DEFINE d == task.d
             row == evidence[d]
             pre == disk[Pre(d)]
             snap == disk[Snap(d)]
             file == disk[File(row.name)]
  <2>1. task.pc = "review" /\ task.pc \in Reviewing /\ task \in Tasks
    BY <1>6 DEF Review, Inv, Reviewing
  <2>2. d \in Nat /\ Target(d) = File(row.name) /\ New(d).edits = {}
    <3>1. d + 1 \in 1..Len(versions)
      BY <2>1, AtReview DEF Inv, StoreOK
    <3> QED
      BY <2>1, <3>1, AtReview, ImagesAreTexts DEF New, Inv
  <2>3. CASE NextReview(d) \/ task' = IdleTask
    BY <1>1, <1>2, <1>3, <2>2, <2>3
  <2>4. CASE RecordChanged(pre, snap, file) /\ NoFileChange /\ NoStoreChange
    BY <1>5, <2>1, <2>2, <2>4
  <2>5. CASE /\ task' = [task EXCEPT !.seen = pre, !.visible = snap, !.marks = TRUE,
                                    !.pc = "unrestore"]
             /\ file = New(d) /\ NoFileChange /\ NoStoreChange
    <3>1. task'.d = task.d
      BY <2>1, <2>5 DEF Tasks
    <3> QED
      BY <1>4, <2>2, <2>5, <3>1
  <2>6. ASSUME NEW pc \in {"manifest", "restore", "retain", "resolve"}, task'.pc = pc
        PROVE  DoomedKept'
    BY <1>1, <2>6 DEF Doomed
  <2>7. CASE Goto("manifest")
    BY <2>1, <2>6, <2>7, GotoIsTask DEF Reviewing
  <2>8. CASE task' = [task EXCEPT !.pc = "resolve", !.seen = pre,
                                 !.visible = snap, !.chosen = file]
    BY <2>1, <2>6, <2>8 DEF Tasks
  <2>9. CASE \E pc \in {"manifest", "restore", "retain"} :
               task' = [task EXCEPT !.seen = pre, !.visible = snap, !.marks = TRUE, !.pc = pc]
    BY <2>1, <2>6, <2>9 DEF Tasks
  <2>10. CASE row.resolved
    BY <1>6, <2>3, <2>10 DEF Review
  <2>11. CASE ~ row.resolved /\ pre = Missing
    BY <1>6, <2>3, <2>11 DEF Review, Fail, Abort
  <2>12. CASE ~ row.resolved /\ pre # Missing /\ row.visible # Missing
    BY <1>6, <2>3, <2>4, <2>7, <2>8, <2>12 DEF Review, Fail, Abort
  <2>13. CASE ~ row.resolved /\ pre # Missing /\ row.visible = Missing
    BY <1>6, <2>3, <2>5, <2>9, <2>13 DEF Review
  <2> QED
    BY <2>10, <2>11, <2>12, <2>13
<1>7. CASE ResolveEvidence
  <2>1. task.pc \in Reviewing /\ task.d \in Nat
    BY <1>7, AtReview DEF ResolveEvidence, Reviewing
  <2> QED
    BY <1>1, <1>2, <1>3, <1>5, <1>7, <2>1 DEF ResolveEvidence, Fail, Abort
<1>8. ASSUME NEW pc \in ({"idle"} \cup Reviewing \cup Applying) \ Doomed, Goto(pc)
      PROVE  DoomedKept'
  BY <1>1, <1>8, GotoIsTask DEF Inv
<1>9. CASE FencedUpdate
  <2>1. task.pc \in Applying \ {"validate", "tidy"} /\ task \in Tasks
    BY <1>9 DEF FencedUpdate, Applying, Inv
  <2>2. ASSUME NEW result, NEW fence, Finish(result, fence)
        PROVE  DoomedKept'
    <3>1. task'.pc \in {"record", "fence"}
      BY <2>1, <2>2 DEF Finish, Tasks
    <3> QED
      BY <1>1, <3>1 DEF Doomed
  <2>3. CASE Goto("undo") /\ NoFileChange /\ NoStoreChange /\ disk[File(path.local)] = New(gen)
    <3>1. gen \in Nat /\ task.d = gen /\ New(gen).edits = {}
      BY <2>1, AtEntry, ImagesAreTexts DEF New, Inv, StoreOK
    <3>2. Target(task.d) = File(path.local) /\ task'.d = task.d
      BY <2>1, <2>3, <3>1 DEF Target, Goto, Tasks
    <3> QED
      BY <1>4, <2>3, <3>1, <3>2
  <2>4. \A pc \in Fenced \ {"undo"} : Goto(pc) => DoomedKept'
    BY <1>8 DEF Fenced, Doomed, Applying
  <2>5. task' = IdleTask \/ Abort => DoomedKept'
    BY <1>1, <1>3 DEF Abort
  <2>6. CASE task.pc \in {"fenced", "place"}
    BY <1>9, <2>2, <2>4, <2>5, <2>6 DEF FencedUpdate, Fenced
  <2>7. CASE task.pc = "verify"
    BY <1>9, <2>3, <2>4, <2>5, <2>7 DEF FencedUpdate, Fenced
  <2>8. CASE task.pc \in {"move", "undo", "putback"}
    BY <1>9, <2>2, <2>4, <2>5, <2>8 DEF FencedUpdate, Fenced, TryMove, TryUnlink
  <2> QED
    BY <1>9, <2>6, <2>7, <2>8 DEF FencedUpdate
<1>10. CASE ApplyCreate \/ ThreeWay \/ FencedRename
  <2>1. task \in Tasks
    BY DEF Inv
  <2>2. ASSUME NEW result, NEW fence, Finish(result, fence)
        PROVE  DoomedKept'
    <3>1. task'.pc \in {"record", "fence"}
      BY <2>1, <2>2 DEF Finish, Tasks
    <3> QED
      BY <1>1, <3>1 DEF Doomed
  <2>3. \A pc \in Fenced \cup InPlace \cup Renaming : pc # "undo" /\ Goto(pc) => DoomedKept'
    BY <1>8 DEF Fenced, InPlace, Renaming, Doomed, Applying
  <2>4. task' = IdleTask \/ Abort \/ Fail => DoomedKept'
    BY <1>1, <1>3 DEF Abort, Fail
  <2>5. ASSUME NEW pc \in {"merge", "displace", "rename-verify"}, NEW seen,
               task' = [task EXCEPT !.pc = pc, !.seen = seen]
        PROVE  DoomedKept'
    <3>1. task'.pc = pc
      BY <2>1, <2>5 DEF Tasks
    <3> QED
      BY <1>1, <3>1 DEF Doomed
  <2>6. CASE ApplyCreate
    BY <2>2, <2>6 DEF ApplyCreate
  <2>7. CASE ThreeWay
    <3>1. ASSUME NEW pc \in {"merge", "displace"}, NEW seen,
                 task' = [task EXCEPT !.seen = seen, !.pc = pc]
          PROVE  DoomedKept'
      BY <2>1, <3>1, <1>1 DEF Tasks, Doomed
    <3>2. CASE task.pc = "three-way"
      BY <2>2, <2>3, <2>4, <2>7, <3>1, <3>2 DEF ThreeWay, Fenced
    <3>3. CASE task.pc \in {"displace", "merge"}
      BY <2>2, <2>3, <2>4, <2>7, <3>3 DEF ThreeWay, TryMove, InPlace
    <3> QED
      BY <2>7, <3>2, <3>3 DEF ThreeWay
  <2>8. CASE FencedRename
    BY <2>2, <2>3, <2>4, <2>5, <2>8 DEF FencedRename, Renaming, TryMove
  <2> QED
    BY <1>10, <2>6, <2>7, <2>8
<1>11. CASE Restore
  <2>1. task.pc \in Reviewing /\ task.d \in Nat
    BY <1>11, AtReview DEF Restore, Reviewing
  <2>2. \A pc \in {"restore", "restored", "drop"} : Goto(pc) => DoomedKept'
    BY <1>8 DEF Reviewing, Doomed
  <2> QED
    BY <1>1, <1>2, <1>3, <1>11, <2>1, <2>2 DEF Restore, TryMove, TryUnlink, Abort, Fail
<1>12. CASE Retain
  <2>1. task.pc \in Reviewing /\ task.d \in Nat /\ task \in Tasks
    BY <1>12, AtReview DEF Retain, Reviewing, Inv
  <2>2. \A pc \in {"manifest", "published", "mark"} : Goto(pc) => DoomedKept'
    BY <1>8 DEF Reviewing, Doomed
  <2>3. CASE task' = [task EXCEPT !.pc = "manifest", !.visible = disk[Target(task.d)]]
    BY <1>1, <2>1, <2>3 DEF Tasks, Doomed
  <2> QED
    BY <1>1, <1>2, <1>3, <1>12, <2>1, <2>2, <2>3 DEF Retain, TryUnlink, Abort
<1>13. CASE Start
  BY <1>1, <1>2, <1>13 DEF Start, Begin, Doomed
<1>14. CASE Validate \/ Tidy
  <2>1. ReconcileStaging("idle") => task'.pc \notin Doomed
    BY DEF ReconcileStaging, IdleTask, Doomed
  <2>2. task' = [IdleTask EXCEPT !.pc = "stage", !.d = gen] => task'.pc \notin Doomed
    BY DEF IdleTask, Doomed
  <2> QED
    BY <1>1, <1>3, <1>14, <2>1, <2>2 DEF Validate, Tidy, Fail, Abort
<1>15. CASE Stage \/ ApplyEntry \/ RecordEvidence \/ RecordOutcome \/ Complete
  <2>1. \A pc \in {"apply", "complete", "create", "rename", "three-way", "fenced", "record", "tidy"} :
          Goto(pc) => DoomedKept'
    BY <1>8 DEF Applying, Doomed
  <2> QED
    BY <1>1, <1>3, <1>15, <2>1 DEF Stage, ApplyEntry, RecordEvidence, RecordOutcome, Complete
<1> QED
  BY <1>6, <1>7, <1>9, <1>10, <1>11, <1>12, <1>13, <1>14, <1>15 DEF Sync, Recover, Apply

LEMMA UserEdits ==
    ASSUME Inv, EditsAreKept, DoomedKept, User
    PROVE  EditsAreKept' /\ DoomedKept'
<1> DEFINE T == Target(task.d)
<1>1. UNCHANGED <<versions, store, payloads, task, crashes>>
  BY DEF User, Open, Close, Type, Create, Remove, Resolve
<1>2. T' = T
  BY <1>1 DEF Target, store
<1>3. /\ \A n \in Names : File(n) \in Slots
      /\ FilesOK /\ Missing.edits = {}
  BY SlotsAreSlots DEF Inv, Missing, Text
\* Of every owed edit: the slot it is in, and one beside the doomed file.
<1>4. \A e \in owed : \E s \in Slots : e \in disk[s].edits
  BY DEF EditsAreKept, EditsOnDisk
<1>5. task.pc \in Doomed =>
        \A e \in owed : e \in disk[T].edits => \E s \in Slots \ {T} : e \in disk[s].edits
  BY DEF DoomedKept, EditsBeside
<1> SUFFICES /\ \A e \in owed' : \E s \in Slots : e \in disk'[s].edits
             /\ task.pc \in Doomed =>
                  \A e \in owed' : e \in disk'[T].edits => \E s \in Slots \ {T} : e \in disk'[s].edits
  BY <1>1, <1>2 DEF EditsAreKept, EditsOnDisk, DoomedKept, EditsBeside
<1> HIDE DEF T
<1>6. CASE Close \/ \E n \in Names : Open(n)
  BY <1>4, <1>5, <1>6 DEF Close, Open
<1>7. ASSUME NEW n \in Names, Remove(n)
      PROVE  /\ \A e \in owed' : \E s \in Slots : e \in disk'[s].edits
             /\ task.pc \in Doomed =>
                  \A e \in owed' : e \in disk'[T].edits => \E s \in Slots \ {T} : e \in disk'[s].edits
  <2>1. /\ owed' = owed \ disk[File(n)].edits
        /\ disk'[File(n)] = Missing /\ \A s \in Slots \ {File(n)} : disk'[s] = disk[s]
    BY <1>3, <1>7 DEF Remove, FilesOK
  <2>2. CASE T = File(n)
    BY <1>3, <1>4, <2>1, <2>2
  <2>3. CASE T # File(n)
    <3>1. T \in Slots => disk'[T] = disk[T]
      BY <2>1, <2>3
    <3>2. T \notin Slots => disk'[T] = disk[T]
      BY <1>3, <1>7, <2>3 DEF Remove, FilesOK
    <3> QED
      BY <1>3, <1>4, <1>5, <2>1, <3>1, <3>2
  <2> QED
    BY <2>2, <2>3
<1>8. ASSUME NEW e0 \in Edits, Type(e0)
      PROVE  /\ \A e \in owed' : \E s \in Slots : e \in disk'[s].edits
             /\ task.pc \in Doomed =>
                  \A e \in owed' : e \in disk'[T].edits => \E s \in Slots \ {T} : e \in disk'[s].edits
  <2>1. e0 \notin owed /\ (held \in Slots \/ held = Gone) /\ Gone \notin Slots
    BY <1>3, <1>8, SlotsAreSlots DEF Type, FilesOK
  <2>2. CASE held = Gone
    BY <1>4, <1>5, <1>8, <2>2 DEF Type, Owes
  <2>3. CASE held \in Slots
    <3>1. /\ disk'[held].edits = disk[held].edits \cup {e0}
          /\ \A s : s # held => disk'[s] = disk[s]
      <4>1. disk' = [disk EXCEPT ![held].edits = @ \cup {e0}]
        BY <1>8, <2>1, <2>3 DEF Type
      <4>2. disk[held] \in Texts /\ disk \in [Slots -> Texts]
        BY <1>3, <2>3 DEF FilesOK
      <4> QED
        BY <2>3, <4>1, <4>2 DEF Texts
    <3>2. CASE task.pc \in Doomed /\ held = T
      <4>1. owed' = owed
        BY <1>8, <3>2 DEF Type, Owes, Doomed, T
      <4> QED
        BY <1>4, <1>5, <2>1, <2>3, <3>1, <3>2, <4>1
    <3>3. CASE ~ (task.pc \in Doomed /\ held = T)
      <4>1. owed' \subseteq owed \cup {e0}
        BY <1>8 DEF Type, Owes
      <4> QED
        BY <1>4, <1>5, <2>1, <2>3, <3>1, <3>3, <4>1
    <3> QED
      BY <3>2, <3>3
  <2> QED
    BY <2>1, <2>2, <2>3
<1>9. ASSUME NEW n \in Names, NEW e0 \in Edits, Create(n, e0)
      PROVE  /\ \A e \in owed' : \E s \in Slots : e \in disk'[s].edits
             /\ task.pc \in Doomed =>
                  \A e \in owed' : e \in disk'[T].edits => \E s \in Slots \ {T} : e \in disk'[s].edits
  <2>1. e0 \notin owed /\ disk[File(n)].edits = {} /\ File(n) \in Slots
    BY <1>3, <1>9 DEF Create, Exists, FilesOK
  <2>2. disk'[File(n)].edits = {e0} /\ \A s : s # File(n) => disk'[s] = disk[s]
    BY <1>3, <1>9, <2>1 DEF Create, FilesOK, Text
  <2>3. CASE task.pc \in Doomed /\ File(n) = T
    <3>1. owed' = owed
      BY <1>9, <2>3 DEF Create, Owes, Doomed, T
    <3> QED
      BY <1>4, <1>5, <2>1, <2>2, <2>3, <3>1
  <2>4. CASE ~ (task.pc \in Doomed /\ File(n) = T)
    <3>1. owed' \subseteq owed \cup {e0}
      BY <1>9 DEF Create, Owes
    <3> QED
      BY <1>4, <1>5, <2>1, <2>2, <2>4, <3>1
  <2> QED
    BY <2>3, <2>4
<1>10. ASSUME NEW n \in Names, NEW s0 \in Slots, Resolve(n, s0)
       PROVE  /\ \A e \in owed' : \E s \in Slots : e \in disk'[s].edits
              /\ task.pc \in Doomed =>
                   \A e \in owed' : e \in disk'[T].edits => \E s \in Slots \ {T} : e \in disk'[s].edits
  <2>1. /\ owed' = owed \ disk[File(n)].edits /\ File(n) \in Slots
        /\ disk'[File(n)] = disk[s0] /\ \A s : s # File(n) => disk'[s] = disk[s]
        /\ s0 # File(n)
    BY <1>3, <1>10, SlotsAreSlots DEF Resolve, FilesOK
  <2> QED
    BY <1>4, <1>5, <2>1
<1> QED
  BY <1>6, <1>7, <1>8, <1>9, <1>10 DEF User

LEMMA NextEdits == Inv /\ EditsAreKept /\ DoomedKept /\ [Next]_vars => EditsAreKept' /\ DoomedKept'
<1> SUFFICES ASSUME Inv, EditsAreKept, DoomedKept, [Next]_vars
             PROVE  EditsAreKept' /\ DoomedKept'
  OBVIOUS
<1>1. CASE Sync
  BY <1>1, SyncFileStep, FileStepKeeps, SyncDoom DEF Inv
<1>2. CASE User
  BY <1>2, UserEdits
<1>3. CASE Crash
  BY <1>3 DEF Crash, user, EditsAreKept, EditsOnDisk, DoomedKept, Doomed, IdleTask
<1>4. CASE Publish \/ UNCHANGED vars
  BY <1>4 DEF Publish, vars, user, store, EditsAreKept, EditsOnDisk, DoomedKept, EditsBeside, Target
<1> QED
  BY <1>1, <1>2, <1>3, <1>4 DEF Next

\* Whatever the user types into a file stays on disk until the user throws it away,
\* whatever the client moves, merges, replaces or unlinks, and wherever it crashes:
\* it unlinks a file only when the file's edits are in a retained inode too.
THEOREM NoEditIsLost == Spec => []EditsAreKept
<1>1. Init => EditsAreKept /\ DoomedKept
  BY DEF Init, EditsAreKept, DoomedKept, Doomed, IdleTask
<1>2. Spec => [](EditsAreKept /\ DoomedKept)
  BY <1>1, InvHolds, NextEdits, PTL DEF Spec
<1> QED
  BY <1>2, PTL

-----------------------------------------------------------------------------
(* Retained inodes are named *)

InPlaceDelta(d) == versions[d] = versions[d + 1] \/ Absent \in {versions[d], versions[d + 1]}

Entering == {"apply", "create", "fence", "record"} \cup InPlace \cup Fenced \cup Renaming

\* The open file has a name, as long as its descriptor is not that of a removed one.
HeldExists == held \in Slots => Exists(held)

\* Which retained inodes there may be.
RetainedOK ==
    \A d \in Deltas :
        /\ d > gen \/ (d = gen /\ ~active) => ~ Exists(Pre(d))
        /\ d >= gen => ~ Exists(Snap(d))
        /\ Exists(Snap(d)) => Exists(Pre(d))
        /\ d < gen /\ InPlaceDelta(d) /\ Exists(Pre(d)) => evidence[d].kept
ActiveOK ==
    active => /\ versions[gen] = Absent => ~ Exists(Pre(gen))
              /\ InPlaceDelta(gen) /\ Exists(Pre(gen)) /\ outcomes[gen] # "none" => evidence[gen].kept
StepOK ==
    /\ task.pc \in Entering => outcomes[gen] = "none"
    /\ task.pc = "complete" => outcomes[gen] # "none"
    /\ task.pc \in {"fence", "record"} => task.result # "none"
    /\ task.pc = "record" /\ InPlaceDelta(gen) /\ Exists(Pre(gen)) => evidence[gen].kept
    /\ task.pc \in {"displace", "merge"} => task.seen # Missing
    /\ task.pc \in Renaming => ~ InPlaceDelta(gen)
    /\ task.pc = "retain" => Exists(Pre(task.d))
    /\ task.pc \in {"restore", "unrestore", "restored", "drop"} => ~ Exists(Snap(task.d))
    /\ task.pc \in {"restored", "drop"} => ~ Exists(Pre(task.d))

NameInv == HeldExists /\ RetainedOK /\ ActiveOK /\ StepOK

\* No retained inode comes or goes.
SameRetained ==
    \A d \in Deltas : /\ Exists(Pre(d))' <=> Exists(Pre(d))
                      /\ Exists(Snap(d))' <=> Exists(Snap(d))

\* No retained inode comes or goes but the preimage of one delta.
OnlyThis(c) ==
    \A d \in Deltas : /\ d # c => (Exists(Pre(d))' <=> Exists(Pre(d)))
                      /\ Exists(Snap(d))' <=> Exists(Snap(d))

LEMMA NoChangeSameRetained == NoFileChange => SameRetained /\ (HeldExists => HeldExists')
  BY DEF NoFileChange, user, SameRetained, Exists, HeldExists

LEMMA FileStepHeld ==
    ASSUME FilesOK, HeldExists, FileStep
    PROVE  HeldExists'
<1>1. Gone \notin Slots
  BY SlotsAreSlots
<1>2. CASE NoFileChange
  BY <1>2, NoChangeSameRetained
<1>3. ASSUME NEW from \in Slots, NEW to \in Slots, from # to, ~ Exists(to), Move(from, to)
      PROVE  HeldExists'
  <2>1. /\ held' = IF held = from THEN to ELSE Unlinked(to)
        /\ disk'[to] = disk[from] /\ \A s \in Slots \ {from, to} : disk'[s] = disk[s]
    BY <1>3 DEF Move, FilesOK
  <2> QED
    BY <1>1, <1>3, <2>1 DEF HeldExists, Exists, Unlinked
<1>4. ASSUME NEW s \in Slots, NEW t \in Texts, Put(s, t)
      PROVE  HeldExists'
  BY <1>4 DEF Put, HeldExists, Exists, user, FilesOK
<1>5. CASE task.pc \in Doomed /\ Target(task.d) \in Slots /\ Unlink(Target(task.d))
  <2> DEFINE s == Target(task.d)
  <2>1. held' = Unlinked(s) /\ \A r \in Slots \ {s} : disk'[r] = disk[r]
    BY <1>5 DEF Unlink, FilesOK
  <2> HIDE DEF s
  <2> QED
    BY <1>1, <2>1 DEF HeldExists, Exists, Unlinked
<1> QED
  BY <1>2, <1>3, <1>4, <1>5 DEF FileStep

\* Which file operations concern a retained inode.
LEMMA RetainedFileOps ==
    ASSUME FilesOK, NEW f \in Slots, \A d \in Deltas : f # Pre(d) /\ f # Snap(d)
    PROVE  /\ Unlink(f) => SameRetained
           /\ \A t \in Texts : Put(f, t) => SameRetained
           /\ \A d \in Deltas :
                /\ Move(f, Pre(d)) => /\ Exists(Pre(d))' <=> Exists(f)
                                      /\ \A s \in Slots \ {f, Pre(d)} : Exists(s)' <=> Exists(s)
                /\ Move(Pre(d), f) => /\ ~ Exists(Pre(d))'
                                      /\ \A s \in Slots \ {f, Pre(d)} : Exists(s)' <=> Exists(s)
                /\ Move(f, Snap(d)) => \A s \in Slots \ {f, Snap(d)} : Exists(s)' <=> Exists(s)
<1>1. \A d \in Deltas : Pre(d) \in Slots /\ Snap(d) \in Slots
  BY SlotsAreSlots
<1>2. \A s \in Slots : Move(f, s) \/ Move(s, f) => \A r \in Slots \ {f, s} : disk'[r] = disk[r]
  BY DEF Move, FilesOK
<1>3. (Unlink(f) \/ \E t \in Texts : Put(f, t)) => \A r \in Slots \ {f} : disk'[r] = disk[r]
  BY DEF Unlink, Put, FilesOK
<1>4. Unlink(f) \/ (\E t \in Texts : Put(f, t)) => SameRetained
  BY <1>1, <1>3 DEF SameRetained, Exists
<1>5. ASSUME NEW d \in Deltas
      PROVE  /\ Move(f, Pre(d)) => /\ Exists(Pre(d))' <=> Exists(f)
                                   /\ \A s \in Slots \ {f, Pre(d)} : Exists(s)' <=> Exists(s)
             /\ Move(Pre(d), f) => /\ ~ Exists(Pre(d))'
                                   /\ \A s \in Slots \ {f, Pre(d)} : Exists(s)' <=> Exists(s)
             /\ Move(f, Snap(d)) => \A s \in Slots \ {f, Snap(d)} : Exists(s)' <=> Exists(s)
  <2>1. Pre(d) \in Slots \ {f} /\ Snap(d) \in Slots
    BY <1>1
  <2>2. \A s \in Slots : Move(f, s) \/ Move(s, f) =>
          \A r \in Slots \ {f, s} : Exists(r)' <=> Exists(r)
    BY <1>2 DEF Exists
  <2>3. Move(f, Pre(d)) => disk'[Pre(d)] = disk[f]
    BY <2>1 DEF Move, FilesOK
  <2>4. Move(Pre(d), f) => disk'[Pre(d)] = Missing
    BY <2>1 DEF Move, FilesOK
  <2> QED
    BY <2>1, <2>2, <2>3, <2>4 DEF Exists, Pre
<1> QED
  BY <1>4, <1>5

\* Preimages and snapshots of different deltas are different slots.
LEMMA RetainedApart == \A c, d : (Pre(c) = Pre(d) <=> c = d) /\ (Snap(c) = Snap(d) <=> c = d)
  BY DEF Pre, Snap

\* A step of an entry's function: only the preimage of the entry comes or goes.
LEMMA EntryNames ==
    ASSUME Inv, NameInv, HeldExists', NoStoreChange, UNCHANGED versions,
           task.pc \in Entering,
           OnlyThis(gen),
           Exists(Pre(gen))' /\ ~ Exists(Pre(gen)) => versions[gen] # Absent,
           task'.pc \in Entering \cup {"idle"},
           task'.pc \in {"fence", "record"} => task'.result # "none",
           task'.pc = "record" /\ InPlaceDelta(gen) => ~ Exists(Pre(gen))',
           task'.pc \in {"displace", "merge"} => task'.seen # Missing,
           task'.pc \in Renaming => ~ InPlaceDelta(gen)
    PROVE  NameInv'
<1>1. active /\ outcomes[gen] = "none" /\ gen \in Deltas /\ gen \in Int
  <2>1. task.pc \in Applying \ {"validate", "tidy"}
    BY DEF Entering, InPlace, Fenced, Renaming, Applying
  <2> QED
    BY <2>1, AtEntry DEF NameInv, StepOK, Inv, StoreOK
<1>2. gen' = gen /\ active' = active /\ outcomes' = outcomes /\ evidence' = evidence /\ versions' = versions
  BY DEF NoStoreChange, store
<1>3. \A d \in Deltas : InPlaceDelta(d)' <=> InPlaceDelta(d)
  BY <1>2 DEF InPlaceDelta
<1>4. RetainedOK'
  <2> SUFFICES ASSUME NEW d \in Deltas
               PROVE  /\ d > gen => ~ Exists(Pre(d))'
                      /\ d >= gen => ~ Exists(Snap(d))'
                      /\ Exists(Snap(d))' => Exists(Pre(d))'
                      /\ d < gen /\ InPlaceDelta(d) /\ Exists(Pre(d))' => evidence[d].kept
    BY <1>1, <1>2, <1>3 DEF RetainedOK
  <2>1. d \in Int
    BY DEF Deltas
  <2> QED
    BY <1>1, <2>1 DEF NameInv, RetainedOK, OnlyThis
<1>5. ActiveOK'
  BY <1>1, <1>2, <1>3 DEF NameInv, ActiveOK
<1>6. StepOK'
  BY <1>1, <1>2, <1>3 DEF StepOK, Entering, InPlace, Fenced, Renaming
<1> QED
  BY <1>4, <1>5, <1>6 DEF NameInv

\* What is known, and what the file operations do, while an entry is applied.
LEMMA AtEntering ==
    ASSUME Inv, NameInv, task.pc \in Entering
    PROVE  /\ task.pc \in Applying \ {"validate", "tidy"} /\ task \in Tasks /\ FilesOK
           /\ active /\ gen \in Deltas /\ task.d = gen
           /\ Image(gen) \in Texts /\ Image(gen + 1) \in Texts
           /\ path.local \in Names
           /\ versions[gen + 1] # Absent => versions[gen + 1] \in Names
           /\ versions[gen] # Absent => Old(gen) # Missing
<1>1. task.pc \in Applying \ {"validate", "tidy"}
  BY DEF Entering, InPlace, Fenced, Renaming, Applying
<1> QED
  BY <1>1, AtEntry DEF Inv, Old, Image, Missing, Text

LEMMA EntryOps ==
    ASSUME FilesOK, gen \in Deltas, gen' = gen, NEW n \in Names
    PROVE  /\ NoFileChange => SameRetained
           /\ Unlink(File(n)) => SameRetained
           /\ \A t \in Texts : Put(File(n), t) => SameRetained
           /\ SameRetained => OnlyThis(gen) /\ (Exists(Pre(gen))' <=> Exists(Pre(gen)))
           /\ Move(File(n), Pre(gen)) => OnlyThis(gen) /\ (Exists(Pre(gen))' <=> Exists(File(n)))
           /\ Move(Pre(gen), File(n)) => OnlyThis(gen) /\ ~ Exists(Pre(gen))'
<1> DEFINE f == File(n)
<1>1. /\ f \in Slots /\ \A d \in Deltas : f # Pre(d) /\ f # Snap(d)
      /\ \A d \in Deltas : Pre(d) \in Slots /\ Snap(d) \in Slots /\ Snap(d) # Pre(gen)
      /\ \A d \in Deltas : d # gen => Pre(d) # Pre(gen)
  BY SlotsAreSlots, RetainedApart
<1>2. SameRetained => OnlyThis(gen) /\ (Exists(Pre(gen))' <=> Exists(Pre(gen)))
  BY DEF SameRetained, OnlyThis
<1> HIDE DEF f
<1>3. /\ Unlink(f) => SameRetained
      /\ \A t \in Texts : Put(f, t) => SameRetained
      /\ Move(f, Pre(gen)) => /\ Exists(Pre(gen))' <=> Exists(f)
                              /\ \A s \in Slots \ {f, Pre(gen)} : Exists(s)' <=> Exists(s)
      /\ Move(Pre(gen), f) => /\ ~ Exists(Pre(gen))'
                              /\ \A s \in Slots \ {f, Pre(gen)} : Exists(s)' <=> Exists(s)
  <2>1. \A d \in Deltas : gen = d => Pre(gen) = Pre(d)
    OBVIOUS
  <2> QED
    BY <1>1, <2>1, RetainedFileOps
<1>4. (\A s \in Slots \ {f, Pre(gen)} : Exists(s)' <=> Exists(s)) => OnlyThis(gen)
  BY <1>1 DEF OnlyThis, Exists
<1> QED
  BY <1>2, <1>3, <1>4, NoChangeSameRetained DEF f

LEMMA Finishes ==
    ASSUME task \in Tasks, NEW result, NEW fence, Finish(result, fence)
    PROVE  /\ task'.pc = IF fence = Missing THEN "record" ELSE "fence"
           /\ task'.result = result
  BY DEF Finish, Tasks

LEMMA CreateNames ==
    ASSUME Inv, NameInv, HeldExists', ApplyCreate
    PROVE  NameInv'
<1>1. task.pc = "create" /\ task.pc \in Entering /\ NoStoreChange /\ UNCHANGED <<gen, versions>>
  BY DEF ApplyCreate, Entering, NoStoreChange, store
<1>2. versions[gen] = Absent /\ versions[gen + 1] \in Names /\ ~ Exists(Pre(gen))
  BY <1>1, AtEntering, AtEntry DEF Inv, TaskOK, NameInv, ActiveOK
<1>3. NoFileChange \/ Put(File(versions[gen + 1]), New(gen))
  BY DEF ApplyCreate
<1>4. SameRetained
  BY <1>1, <1>2, <1>3, AtEntering, EntryOps DEF New
<1>5. OnlyThis(gen) /\ ~ Exists(Pre(gen))'
  BY <1>1, <1>2, <1>4, AtEntering, EntryOps
<1>6. PICK result \in {"applied", "conflict"} : Finish(result, Missing)
  BY DEF ApplyCreate
<1>7. task'.pc = "record" /\ task'.result # "none"
  BY <1>1, <1>6, AtEntering, Finishes
<1> QED
  BY <1>1, <1>2, <1>5, <1>7, EntryNames DEF Entering, Renaming

LEMMA ThreeWayNames ==
    ASSUME Inv, NameInv, HeldExists', ThreeWay
    PROVE  NameInv'
<1>1. task.pc \in InPlace /\ task.pc \in Entering /\ NoStoreChange /\ UNCHANGED <<gen, versions>>
  BY DEF ThreeWay, Fail, Entering, InPlace, NoStoreChange, store
<1>2. /\ task \in Tasks /\ FilesOK /\ gen \in Deltas /\ path.local \in Names
      /\ versions[gen] # Absent /\ Old(gen) # Missing
  BY <1>1, AtEntering DEF Inv, TaskOK
<1>3. ASSUME OnlyThis(gen),
             NEW result \in {"merged", "conflict"}, NEW fence, fence # Missing, Finish(result, fence)
      PROVE  NameInv'
  <2>1. task'.pc = "fence" /\ task'.result # "none"
    BY <1>2, <1>3, Finishes
  <2> QED
    BY <1>1, <1>2, <1>3, <2>1, EntryNames DEF Entering, Renaming
<1>4. ASSUME OnlyThis(gen), task'.pc \in {"idle", "fenced"}
      PROVE  NameInv'
  BY <1>1, <1>2, <1>4, EntryNames DEF Entering, Fenced, Renaming
<1>5. ASSUME OnlyThis(gen), task'.pc \in {"merge", "displace"}, task'.seen # Missing
      PROVE  NameInv'
  BY <1>1, <1>2, <1>5, EntryNames DEF Entering, InPlace, Renaming
<1>6. NoFileChange => OnlyThis(gen)
  BY <1>2, <1>1, EntryOps
<1>7. Abort \/ Fail => NameInv'
  BY <1>4, <1>6 DEF Abort, Fail, IdleTask
<1>8. CASE task.pc = "three-way"
  <2> DEFINE pre == disk[Pre(gen)]
             local == IF pre \notin {Missing, Old(gen)} THEN pre ELSE disk[File(path.local)]
  <2>1. CASE Goto("fenced") /\ NoFileChange
    <3>1. task'.pc = "fenced"
      BY <1>2, <2>1 DEF Goto, Tasks
    <3> QED
      BY <1>4, <1>6, <2>1, <3>1
  <2>2. CASE pre \notin {Missing, Old(gen)} /\ Finish("merged", local) /\ NoFileChange
    BY <1>3, <1>6, <2>2
  <2>3. CASE MergesCleanly(path.base, local) /\ NoFileChange
             /\ \E pc \in {"merge", "displace"} : task' = [task EXCEPT !.seen = local, !.pc = pc]
    <3>1. local # Missing
      BY <2>3 DEF MergesCleanly, Missing, Text
    <3>2. task'.pc \in {"merge", "displace"} /\ task'.seen # Missing
      BY <1>2, <2>3, <3>1 DEF Tasks
    <3> QED
      BY <1>5, <1>6, <2>3, <3>2
  <2> QED
    BY <1>7, <1>8, <2>1, <2>2, <2>3 DEF ThreeWay
<1>9. CASE task.pc = "displace"
  <2>1. CASE Move(File(path.local), Pre(gen)) /\ Goto("merge")
    <3>1. task'.pc = "merge" /\ task'.seen = task.seen /\ task.seen # Missing
      BY <1>2, <1>9, <2>1 DEF Goto, Tasks, NameInv, StepOK
    <3> QED
      BY <1>2, <1>5, <2>1, <3>1, <1>1, EntryOps
  <2> QED
    BY <1>7, <1>9, <2>1 DEF ThreeWay, TryMove
<1>10. CASE task.pc = "merge"
  <2>1. CASE Finish("conflict", Old(gen)) /\ (NoFileChange \/ Move(Pre(gen), File(path.local)))
    BY <1>2, <1>3, <1>6, <2>1, <1>1, EntryOps
  <2>2. CASE Put(File(path.local), Merged(gen, task.seen)) /\ Finish("merged", task.seen)
    <3>1. Merged(gen, task.seen) \in Texts
      <4>1. gen + 1 \in Version /\ task.seen \in Texts
        BY <1>2, GenerationAssumption DEF Tasks, Version, Deltas
      <4> QED
        BY <4>1, TextsAreTexts DEF Merged, Texts
    <3>2. task.seen # Missing
      BY <1>10 DEF NameInv, StepOK
    <3> QED
      BY <1>2, <1>3, <2>2, <3>1, <3>2, <1>1, EntryOps
  <2> QED
    BY <1>7, <1>10, <2>1, <2>2 DEF ThreeWay
<1> QED
  BY <1>1, <1>8, <1>9, <1>10 DEF InPlace

LEMMA FencedUpdateNames ==
    ASSUME Inv, NameInv, HeldExists', FencedUpdate
    PROVE  NameInv'
<1>1. task.pc \in Fenced /\ task.pc \in Entering /\ NoStoreChange /\ UNCHANGED <<gen, versions>>
  BY DEF FencedUpdate, Entering, Fenced, NoStoreChange, store
<1>2. /\ task \in Tasks /\ FilesOK /\ gen \in Deltas /\ path.local \in Names
      /\ versions[gen] # Absent /\ Old(gen) # Missing /\ New(gen) \in Texts
  BY <1>1, AtEntering DEF Inv, TaskOK, New
<1>3. ASSUME OnlyThis(gen), NEW result \in {"applied", "deleted", "conflict"}, NEW fence,
             fence = Missing => ~ Exists(Pre(gen))', Finish(result, fence)
      PROVE  NameInv'
  <2>1. task'.pc = (IF fence = Missing THEN "record" ELSE "fence") /\ task'.result # "none"
    BY <1>2, <1>3, Finishes
  <2> QED
    BY <1>1, <1>2, <1>3, <2>1, EntryNames DEF Entering, Renaming
<1>4. ASSUME OnlyThis(gen), task'.pc \in Fenced \cup {"idle"}
      PROVE  NameInv'
  BY <1>1, <1>2, <1>4, EntryNames DEF Entering, Fenced, Renaming
<1>5. ASSUME OnlyThis(gen), NEW pc \in Fenced, Goto(pc)
      PROVE  NameInv'
  <2>1. task'.pc = pc
    BY <1>2, <1>5 DEF Goto, Tasks
  <2> QED
    BY <1>4, <1>5, <2>1
<1>6. NoFileChange => OnlyThis(gen) /\ (Exists(Pre(gen))' <=> Exists(Pre(gen)))
  BY <1>2, <1>1, EntryOps
<1>7. OnlyThis(gen) /\ task' = IdleTask => NameInv'
  BY <1>4 DEF IdleTask
<1>8. Done(gen) \in {"applied", "deleted"}
  BY DEF Done
<1>9. CASE task.pc \in {"fenced", "verify"}
  <2>1. NoFileChange
    BY <1>9 DEF FencedUpdate
  <2>2. CASE task.pc = "fenced"
    <3>1. CASE disk[Pre(gen)] = Missing /\ (Finish(Done(gen), Missing) \/ Finish("conflict", Missing))
      <4>1. ~ Exists(Pre(gen))'
        BY <1>6, <2>1, <3>1 DEF Exists
      <4> QED
        BY <1>3, <1>6, <1>8, <2>1, <3>1, <4>1
    <3> QED
      BY <1>5, <1>6, <1>7, <2>1, <2>2, <3>1 DEF FencedUpdate, Fenced
  <2>3. CASE task.pc = "verify"
    BY <1>5, <1>6, <1>7, <2>1, <2>3 DEF FencedUpdate, Fenced
  <2> QED
    BY <1>9, <2>2, <2>3
<1>10. CASE task.pc \in {"move", "undo"}
  <2>1. NoFileChange \/ Move(File(path.local), Pre(gen)) \/ Unlink(File(path.local))
    BY <1>10 DEF FencedUpdate, TryMove, TryUnlink, Abort
  <2>2. OnlyThis(gen)
    BY <1>2, <2>1, <1>1, EntryOps
  <2> QED
    BY <1>5, <1>7, <1>10, <2>2 DEF FencedUpdate, TryMove, TryUnlink, Abort, Fenced
<1>11. CASE task.pc = "place"
  <2>1. NoFileChange \/ Put(File(path.local), New(gen))
    BY <1>11 DEF FencedUpdate
  <2>2. OnlyThis(gen)
    BY <1>2, <2>1, <1>1, EntryOps
  <2> QED
    BY <1>2, <1>3, <1>8, <1>11, <2>2 DEF FencedUpdate
<1>12. CASE task.pc = "putback"
  <2>1. NoFileChange \/ Move(Pre(gen), File(path.local))
    BY <1>12 DEF FencedUpdate, Abort
  <2>2. OnlyThis(gen)
    BY <1>2, <2>1, <1>1, EntryOps
  <2> QED
    BY <1>2, <1>3, <1>7, <1>12, <2>2 DEF FencedUpdate, Abort
<1> QED
  BY <1>1, <1>9, <1>10, <1>11, <1>12 DEF Fenced

LEMMA FencedRenameNames ==
    ASSUME Inv, NameInv, HeldExists', FencedRename
    PROVE  NameInv'
<1>1. task.pc \in Renaming /\ task.pc \in Entering /\ NoStoreChange /\ UNCHANGED <<gen, versions>>
  BY DEF FencedRename, Entering, Renaming, NoStoreChange, store
<1>2. /\ task \in Tasks /\ FilesOK /\ gen \in Deltas /\ path.local \in Names
      /\ versions[gen + 1] \in Names /\ versions[gen] # Absent /\ New(gen) \in Texts
      /\ ~ InPlaceDelta(gen)
  BY <1>1, AtEntering DEF Inv, TaskOK, New, NameInv, StepOK
<1>3. OnlyThis(gen)
  <2>1. \/ NoFileChange
        \/ Move(File(path.local), Pre(gen))
        \/ Move(Pre(gen), File(path.local))
        \/ Put(File(versions[gen + 1]), New(gen))
    BY DEF FencedRename, TryMove, Abort
  <2> QED
    BY <1>2, <2>1, <1>1, EntryOps
<1>4. ASSUME NEW result \in {"applied", "conflict"}, NEW fence, Finish(result, fence)
      PROVE  NameInv'
  <2>1. task'.pc \in {"record", "fence"} /\ task'.result # "none"
    BY <1>2, <1>4, Finishes
  <2> QED
    BY <1>1, <1>2, <1>3, <2>1, EntryNames DEF Entering
<1>5. ASSUME task'.pc \in Renaming \cup {"idle"}
      PROVE  NameInv'
  BY <1>1, <1>2, <1>3, <1>5, EntryNames DEF Entering, Renaming
<1>6. ASSUME NEW pc \in Renaming, Goto(pc) \/ \E seen : task' = [task EXCEPT !.pc = pc, !.seen = seen]
      PROVE  NameInv'
  <2>1. task'.pc = pc
    BY <1>2, <1>6 DEF Goto, Tasks
  <2> QED
    BY <1>5, <2>1
<1>7. task' = IdleTask => NameInv'
  BY <1>5 DEF IdleTask
<1>8. CASE task.pc = "rename"
  BY <1>4, <1>6, <1>8 DEF FencedRename, Renaming
<1>9. CASE task.pc = "rename-verify"
  BY <1>4, <1>6, <1>9 DEF FencedRename, Renaming
<1>10. CASE task.pc \in {"rename-move", "rename-undo", "rename-place"}
  BY <1>4, <1>6, <1>7, <1>10 DEF FencedRename, Renaming, TryMove, Abort
<1> QED
  BY <1>1, <1>8, <1>9, <1>10 DEF Renaming

\* What the store does while no retained inode comes or goes.
LEMMA StoreNames ==
    ASSUME Inv, NameInv, SameRetained, UNCHANGED <<gen, active, versions>>,
           \A d \in Deltas : evidence[d].kept => evidence'[d].kept,
           active => outcomes'[gen] = outcomes[gen]
    PROVE  RetainedOK' /\ ActiveOK'
<1>1. \A d \in Deltas : InPlaceDelta(d)' <=> InPlaceDelta(d)
  BY DEF InPlaceDelta
<1>2. RetainedOK'
  <2> SUFFICES ASSUME NEW d \in Deltas
               PROVE  /\ d > gen \/ (d = gen /\ ~active) => ~ Exists(Pre(d))'
                      /\ d >= gen => ~ Exists(Snap(d))'
                      /\ Exists(Snap(d))' => Exists(Pre(d))'
                      /\ d < gen /\ InPlaceDelta(d) /\ Exists(Pre(d))' => evidence'[d].kept
    BY <1>1 DEF RetainedOK
  <2> QED
    BY DEF NameInv, RetainedOK, SameRetained
<1>3. ActiveOK'
  <2>1. active => gen \in Deltas
    BY GenerationAssumption DEF Inv, StoreOK, Version, Deltas
  <2>2. active => (Exists(Pre(gen))' <=> Exists(Pre(gen))) /\ (InPlaceDelta(gen)' <=> InPlaceDelta(gen))
    BY <2>1, <1>1 DEF SameRetained, InPlaceDelta
  <2> QED
    BY <2>1, <2>2 DEF NameInv, ActiveOK
<1> QED
  BY <1>2, <1>3

LEMMA QuietStep == task'.pc \in {"idle", "validate", "review", "tidy", "stage", "manifest", "clear",
                                "published", "mark", "resolve"} => StepOK'
  BY DEF StepOK, Entering, InPlace, Fenced, Renaming

LEMMA NextReviewQuiet == \A d : NextReview(d) => StepOK'
  BY QuietStep DEF NextReview, IdleTask

LEMMA LifeNames ==
    ASSUME Inv, NameInv, HeldExists',
           Start \/ Validate \/ Stage \/ ApplyEntry \/ RecordEvidence \/ RecordOutcome \/ Complete \/ Tidy
    PROVE  NameInv'
<1>1. /\ NoFileChange /\ SameRetained /\ UNCHANGED versions /\ task \in Tasks
      /\ \A s : Exists(s)' <=> Exists(s)
  <2>1. NoFileChange /\ UNCHANGED versions
    BY DEF Start, Begin, Validate, Stage, ApplyEntry, RecordEvidence, RecordOutcome, Complete, Tidy,
           ReconcileStaging, Fail, Abort
  <2> QED
    BY <2>1, NoChangeSameRetained DEF Inv, NoFileChange, Exists
<1>2. CASE UNCHANGED store /\ StepOK'
  BY <1>1, <1>2, StoreNames DEF NameInv, store
<1>3. IdleTask.pc = "idle"
  BY DEF IdleTask
<1>4. CASE Start
  <2>1. UNCHANGED store /\ (NextReview(0) \/ (task' = task /\ task.pc = "idle"))
    BY <1>4 DEF Start, Begin
  <2> QED
    BY <1>2, <2>1, NextReviewQuiet, QuietStep
<1>5. CASE Tidy
  <2>1. UNCHANGED store /\ task'.pc = "idle"
    BY <1>5 DEF Tidy, ReconcileStaging, IdleTask
  <2> QED
    BY <1>2, <2>1, QuietStep
<1>6. CASE Validate
  <2>1. CASE UNCHANGED store /\ task' = IdleTask
    BY <1>2, <1>3, <2>1, QuietStep
  <2>2. CASE ReconcileStaging("idle")
    <3>1. UNCHANGED store /\ task'.pc = "idle"
      BY <2>2 DEF ReconcileStaging, IdleTask
    <3> QED
      BY <1>2, <3>1, QuietStep
  <2>3. CASE HasDelta /\ active' = TRUE /\ task' = [IdleTask EXCEPT !.pc = "stage", !.d = gen]
             /\ UNCHANGED <<gen, path, outcomes, evidence, payloads>>
    <3>1. StepOK'
      BY <2>3, QuietStep DEF IdleTask
    <3>2. RetainedOK'
      <4> SUFFICES ASSUME NEW d \in Deltas
                   PROVE  /\ d > gen => ~ Exists(Pre(d))'
                          /\ d >= gen => ~ Exists(Snap(d))'
                          /\ Exists(Snap(d))' => Exists(Pre(d))'
                          /\ d < gen /\ InPlaceDelta(d) /\ Exists(Pre(d))' => evidence[d].kept
        BY <1>1, <2>3 DEF RetainedOK, InPlaceDelta
      <4> QED
        BY <1>1 DEF NameInv, RetainedOK, SameRetained
    <3>3. ActiveOK'
      <4>1. gen \in Deltas
        BY <2>3, GenerationAssumption DEF HasDelta, Inv, StoreOK, Version, Deltas
      <4>2. ~ active => ~ Exists(Pre(gen))
        BY <4>1 DEF NameInv, RetainedOK
      <4>3. Exists(Pre(gen))' <=> Exists(Pre(gen))
        BY <1>1, <2>3, <4>1 DEF SameRetained
      <4> QED
        BY <1>1, <2>3, <4>2, <4>3 DEF ActiveOK, NameInv, InPlaceDelta
    <3> QED
      BY <3>1, <3>2, <3>3 DEF NameInv
  <2> QED
    BY <1>6, <2>1, <2>2, <2>3 DEF Validate, Fail, Abort, NoStoreChange
<1>7. CASE Stage
  <2>1. UNCHANGED store /\ task'.pc = IF outcomes[gen] = "none" THEN "apply" ELSE "complete"
    BY <1>1, <1>7 DEF Stage, Goto, Tasks
  <2>2. UNCHANGED <<gen, outcomes>>
    BY <2>1 DEF store
  <2>3. StepOK'
    BY <2>1, <2>2 DEF StepOK, Entering, InPlace, Fenced, Renaming
  <2> QED
    BY <1>2, <2>1, <2>3
<1>8. CASE ApplyEntry
  <2>1. task.pc \in Entering /\ NoStoreChange /\ gen' = gen
    BY <1>8 DEF ApplyEntry, Entering, NoStoreChange, store
  <2>2. PICK pc \in {"create", "rename", "three-way", "fenced"} :
          Goto(pc) /\ (pc = "rename" => Renames(gen))
    BY <1>8 DEF ApplyEntry
  <2>3. task'.pc = pc
    BY <1>1, <2>2 DEF Goto, Tasks
  <2>4. OnlyThis(gen)
    BY <1>1 DEF SameRetained, OnlyThis
  <2>5. Renames(gen) => ~ InPlaceDelta(gen)
    BY DEF Renames, InPlaceDelta
  <2>6. Exists(Pre(gen))' <=> Exists(Pre(gen))
    BY <1>1, <2>1, AtEntering DEF SameRetained
  <2> QED
    BY <1>1, <2>1, <2>2, <2>3, <2>4, <2>5, <2>6, EntryNames DEF Entering, InPlace, Fenced, Renaming
<1>9. CASE RecordEvidence
  <2>1. UNCHANGED <<gen, path, active, outcomes>> /\ task.pc = "fence" /\ task.pc \in Entering
    BY <1>9 DEF RecordEvidence, Entering
  <2>2. active /\ gen \in Deltas /\ outcomes[gen] = "none"
    BY <2>1, AtEntering DEF NameInv, StepOK
  <2>3. CASE task' = IdleTask /\ UNCHANGED evidence
    BY <1>2, <1>3, <2>1, <2>3, QuietStep DEF store
  <2>4. CASE \E row : row.kept /\ evidence' = [evidence EXCEPT ![gen] = row] /\ Goto("record")
    <3>1. /\ evidence'[gen].kept
          /\ \A d \in Deltas : evidence[d].kept => evidence'[d].kept
      BY <2>2, <2>4 DEF Inv, StoreOK
    <3>2. RetainedOK' /\ ActiveOK'
      BY <1>1, <2>1, <3>1, StoreNames
    <3>3. task'.pc = "record" /\ task'.result = task.result
      BY <1>1, <2>4 DEF Goto, Tasks
    <3>4. StepOK'
      BY <2>1, <2>2, <3>1, <3>3 DEF NameInv, StepOK, Entering, InPlace, Fenced, Renaming
    <3> QED
      BY <3>2, <3>4 DEF NameInv
  <2>5. [NoRow EXCEPT !.kept = TRUE, !.captured = task.fence,
                      !.payload = path.payload, !.name = path.local].kept
    BY DEF NoRow
  <2> QED
    BY <1>9, <2>3, <2>4, <2>5 DEF RecordEvidence
<1>10. CASE RecordOutcome
  <2>1. /\ UNCHANGED <<gen, path, active, evidence>> /\ task.pc = "record" /\ task.pc \in Entering
        /\ outcomes' = [outcomes EXCEPT ![gen] = task.result]
    BY <1>10 DEF RecordOutcome, Entering
  <2>2. active /\ gen \in Deltas /\ task.result # "none"
    BY <2>1, AtEntering DEF NameInv, StepOK
  <2>3. outcomes'[gen] = task.result
    BY <2>1, <2>2 DEF Inv, StoreOK
  <2>4. RetainedOK'
    BY <1>1, <2>1 DEF NameInv, RetainedOK, InPlaceDelta
  <2>5. ActiveOK'
    <3>1. InPlaceDelta(gen) /\ Exists(Pre(gen)) => evidence[gen].kept
      BY <2>1 DEF NameInv, StepOK
    <3>2. Exists(Pre(gen))' <=> Exists(Pre(gen))
      BY <1>1, <2>1, <2>2 DEF SameRetained
    <3> QED
      BY <1>1, <2>1, <2>2, <3>1, <3>2 DEF NameInv, ActiveOK, InPlaceDelta
  <2>6. task'.pc = "complete"
    BY <1>1, <1>10 DEF RecordOutcome, Goto, Tasks
  <2>7. StepOK'
    BY <2>1, <2>2, <2>3, <2>6 DEF StepOK, Entering, InPlace, Fenced, Renaming
  <2> QED
    BY <2>4, <2>5, <2>7 DEF NameInv
<1>11. CASE Complete
  <2>1. /\ UNCHANGED <<outcomes, evidence>> /\ task.pc = "complete" /\ gen' = gen + 1 /\ active' = FALSE
        /\ task.pc \in Applying \ {"validate", "tidy"}
    BY <1>11 DEF Complete, Applying
  <2>2. active /\ gen \in Deltas /\ gen \in Int /\ outcomes[gen] # "none"
    BY <2>1, AtEntry DEF NameInv, StepOK, Inv, StoreOK
  <2>3. RetainedOK'
    <3>1. ASSUME NEW d \in Deltas
          PROVE  /\ d >= gen + 1 => ~ Exists(Pre(d)) /\ ~ Exists(Snap(d))
                 /\ d < gen + 1 /\ InPlaceDelta(d) /\ Exists(Pre(d)) => evidence[d].kept
      <4>1. d \in Int
        BY DEF Deltas
      <4>2. CASE d # gen
        BY <2>2, <4>1, <4>2 DEF NameInv, RetainedOK
      <4>3. CASE d = gen
        BY <2>2, <4>3 DEF NameInv, RetainedOK, ActiveOK
      <4> QED
        BY <4>2, <4>3
    <3>2. ASSUME NEW d \in Deltas
          PROVE  /\ (d > gen \/ (d = gen /\ ~active))' => ~ Exists(Pre(d))'
                 /\ (d >= gen)' => ~ Exists(Snap(d))'
                 /\ Exists(Snap(d))' => Exists(Pre(d))'
                 /\ (d < gen /\ InPlaceDelta(d))' /\ Exists(Pre(d))' => evidence'[d].kept
      <4>1. /\ Exists(Pre(d))' <=> Exists(Pre(d))
            /\ Exists(Snap(d))' <=> Exists(Snap(d))
            /\ Exists(Snap(d)) => Exists(Pre(d))
        BY <1>1 DEF SameRetained, NameInv, RetainedOK
      <4>2. InPlaceDelta(d)' <=> InPlaceDelta(d)
        BY <1>1 DEF InPlaceDelta
      <4>3. /\ (d > gen \/ (d = gen /\ ~active))' => d >= gen + 1
            /\ (d >= gen)' => d >= gen + 1
            /\ (d < gen)' => d < gen + 1
        BY <2>1, <2>2 DEF Deltas
      <4>4. evidence' = evidence
        BY <2>1
      <4> QED
        BY <3>1, <4>1, <4>2, <4>3, <4>4
    <3> QED
      BY <3>2 DEF RetainedOK
  <2>4. ActiveOK' /\ StepOK'
    <3>1. task'.pc = "tidy"
      BY <1>1, <1>11 DEF Complete, Goto, Tasks
    <3> QED
      BY <2>1, <3>1, QuietStep DEF ActiveOK
  <2> QED
    BY <2>3, <2>4 DEF NameInv
<1> QED
  BY <1>4, <1>5, <1>6, <1>7, <1>8, <1>9, <1>10, <1>11

\* A row is dropped when its retained inodes have gone.
LEMMA DropNames ==
    ASSUME Inv, NameInv, SameRetained, NEW d \in Deltas, d < gen,
           evidence' = [evidence EXCEPT ![d] = NoRow],
           UNCHANGED <<gen, active, outcomes, versions>>,
           ~ Exists(Pre(d)), ~ Exists(Snap(d))
    PROVE  RetainedOK' /\ ActiveOK'
<1>1. \A c \in Deltas : c # d => evidence'[c] = evidence[c]
  BY DEF Inv, StoreOK
<1>2. RetainedOK'
  <2> SUFFICES ASSUME NEW c \in Deltas
               PROVE  /\ (c > gen \/ (c = gen /\ ~active))' => ~ Exists(Pre(c))'
                      /\ (c >= gen)' => ~ Exists(Snap(c))'
                      /\ Exists(Snap(c))' => Exists(Pre(c))'
                      /\ (c < gen /\ InPlaceDelta(c))' /\ Exists(Pre(c))' => evidence'[c].kept
    BY DEF RetainedOK
  <2>1. /\ (c > gen \/ (c = gen /\ ~active))' <=> (c > gen \/ (c = gen /\ ~active))
        /\ (c >= gen)' <=> (c >= gen)
        /\ (c < gen /\ InPlaceDelta(c))' <=> (c < gen /\ InPlaceDelta(c))
    BY DEF InPlaceDelta
  <2>2. /\ Exists(Pre(c))' <=> Exists(Pre(c))
        /\ Exists(Snap(c))' <=> Exists(Snap(c))
    BY DEF SameRetained
  <2>3. CASE c # d
    BY <1>1, <2>1, <2>2, <2>3 DEF NameInv, RetainedOK
  <2>4. CASE c = d
    BY <2>1, <2>2, <2>4 DEF NameInv, RetainedOK
  <2> QED
    BY <2>3, <2>4
<1>3. ActiveOK'
  <2>1. active => gen \in Deltas /\ gen # d
    BY GenerationAssumption DEF Inv, StoreOK, Version, Deltas
  <2>2. active => evidence'[gen] = evidence[gen] /\ (Exists(Pre(gen))' <=> Exists(Pre(gen)))
    BY <1>1, <2>1 DEF SameRetained
  <2> QED
    BY <2>2 DEF NameInv, ActiveOK, InPlaceDelta
<1> QED
  BY <1>2, <1>3

LEMMA ReviewNames ==
    ASSUME Inv, NameInv, HeldExists', Review \/ ResolveEvidence
    PROVE  NameInv'
<1> DEFINE d == task.d
           row == evidence[d]
           pre == disk[Pre(d)]
           snap == disk[Snap(d)]
           file == disk[Target(d)]
<1>1. /\ NoFileChange /\ SameRetained /\ UNCHANGED <<gen, active, versions>>
      /\ task \in Tasks /\ FilesOK /\ task.pc \in Reviewing
      /\ \A s : Exists(s)' <=> Exists(s)
  <2>1. NoFileChange /\ UNCHANGED <<gen, active, versions>>
    BY DEF Review, ResolveEvidence, Fail, Abort, NoStoreChange, store
  <2> QED
    BY <2>1, NoChangeSameRetained DEF Inv, Review, ResolveEvidence, Reviewing, NoFileChange, Exists
<1>2. /\ d \in Deltas /\ d < gen /\ d \in Nat /\ Target(d) = File(row.name)
      /\ pre \in Texts /\ snap \in Texts
  BY <1>1, AtReview DEF FilesOK
<1>3. CASE UNCHANGED store /\ StepOK'
  BY <1>1, <1>3, StoreNames DEF NameInv, store
<1>4. CASE Fail \/ (NextReview(d) /\ NoStoreChange)
  <2>1. UNCHANGED store /\ (NextReview(d) \/ task'.pc = "idle")
    BY <1>4 DEF Fail, Abort, NoStoreChange, IdleTask
  <2> QED
    BY <1>3, <2>1, NextReviewQuiet, QuietStep
<1>5. CASE RecordChanged(pre, snap, file) /\ NoStoreChange
  <2>1. task'.pc \in {"manifest", "clear", "mark"}
    BY <1>1, <1>2, <1>5, RecordChangedIsTask
  <2> QED
    BY <1>3, <1>5, <2>1, QuietStep DEF NoStoreChange
<1>6. CASE Review
  <2>1. CASE /\ pre = Missing /\ row.visible = Missing
             /\ evidence' = [evidence EXCEPT ![d] = NoRow]
             /\ NextReview(d) /\ UNCHANGED <<gen, path, active, outcomes, payloads>>
    <3>1. ~ Exists(Pre(d)) /\ ~ Exists(Snap(d))
      BY <1>2, <2>1 DEF Exists, NameInv, RetainedOK
    <3>2. PICK c \in Deltas : c = d
      BY <1>2
    <3>3. RetainedOK' /\ ActiveOK'
      BY <1>1, <1>2, <2>1, <3>1, <3>2, DropNames
    <3> QED
      BY <2>1, <3>3, NextReviewQuiet DEF NameInv
  <2>2. CASE /\ pre # Missing /\ NoStoreChange
             /\ \E pc \in {"manifest", "restore", "unrestore", "retain"} :
                  /\ pc \in {"restore", "unrestore"} => snap = Missing
                  /\ task' = [task EXCEPT !.seen = pre, !.visible = snap, !.marks = TRUE, !.pc = pc]
    <3>1. PICK pc \in {"manifest", "restore", "unrestore", "retain"} :
            /\ pc \in {"restore", "unrestore"} => snap = Missing
            /\ task' = [task EXCEPT !.seen = pre, !.visible = snap, !.marks = TRUE, !.pc = pc]
      BY <2>2
    <3>2. task'.pc = pc /\ task'.d = d
      BY <1>1, <3>1 DEF Tasks
    <3>3. StepOK'
      <4>1. Exists(Pre(d)) /\ (pc \in {"restore", "unrestore"} => ~ Exists(Snap(d)))
        BY <2>2, <3>1 DEF Exists
      <4>2. Exists(Pre(task.d))' = Exists(Pre(d))' /\ Exists(Snap(task.d))' = Exists(Snap(d))'
        BY <3>2 DEF Exists
      <4>3. /\ (task.pc = "retain" => Exists(Pre(task.d)))'
            /\ (task.pc \in {"restore", "unrestore", "restored", "drop"} => ~ Exists(Snap(task.d)))'
            /\ (task.pc \in {"restored", "drop"} => ~ Exists(Pre(task.d)))'
        BY <1>1, <3>2, <4>1 DEF Exists, NoFileChange
      <4> QED
        BY <3>2, <4>3 DEF StepOK, Entering, InPlace, Fenced, Renaming
    <3> QED
      BY <1>3, <2>2, <3>3 DEF NoStoreChange
  <2>3. CASE Goto("manifest") /\ NoStoreChange
    <3>1. task'.pc = "manifest"
      BY <1>1, <2>3 DEF Goto, Tasks
    <3> QED
      BY <1>3, <2>3, <3>1, QuietStep DEF NoStoreChange
  <2>4. CASE task' = [task EXCEPT !.pc = "resolve", !.seen = pre, !.visible = snap, !.chosen = file]
             /\ NoStoreChange
    <3>1. task'.pc = "resolve"
      BY <1>1, <2>4 DEF Tasks
    <3> QED
      BY <1>3, <2>4, <3>1, QuietStep DEF NoStoreChange
  <2>5. CASE row.resolved
    BY <1>4, <1>6, <2>5 DEF Review
  <2>6. CASE ~ row.resolved /\ pre = Missing
    BY <1>4, <1>6, <2>1, <2>6 DEF Review
  <2>7. CASE ~ row.resolved /\ pre # Missing /\ row.visible # Missing
    BY <1>2, <1>4, <1>5, <1>6, <2>3, <2>4, <2>7 DEF Review
  <2>8. CASE ~ row.resolved /\ pre # Missing /\ row.visible = Missing
    <3>1. \/ NextReview(d) /\ NoStoreChange
          \/ /\ task' = [task EXCEPT !.seen = pre, !.visible = snap, !.marks = TRUE,
                                    !.pc = IF snap # Missing THEN "manifest"
                                           ELSE IF disk[File(row.name)] = Missing THEN "restore"
                                           ELSE IF disk[File(row.name)] = New(d) THEN "unrestore"
                                           ELSE "retain"]
             /\ NoStoreChange
      BY <1>6, <2>8 DEF Review
    <3> QED
      BY <1>4, <2>2, <2>8, <3>1
  <2> QED
    BY <2>5, <2>6, <2>7, <2>8
<1>7. CASE ResolveEvidence
  <2>1. CASE /\ MarkResolved(d) /\ NextReview(d) /\ UNCHANGED <<gen, active, payloads>>
    <3>1. \A c \in Deltas : evidence'[c].kept = evidence[c].kept
      BY <1>1, <1>7, <2>1, MarkResolvedOK DEF ResolveEvidence
    <3>2. active => outcomes'[gen] = outcomes[gen]
      <4>1. active => gen \in Deltas /\ gen # d
        BY <1>2, GenerationAssumption DEF Inv, StoreOK, Version, Deltas
      <4> QED
        BY <2>1, <4>1 DEF MarkResolved, Inv, StoreOK
    <3> QED
      BY <1>1, <2>1, <3>1, <3>2, StoreNames, NextReviewQuiet DEF NameInv
  <2> QED
    BY <1>4, <1>5, <1>7, <2>1 DEF ResolveEvidence
<1> QED
  BY <1>6, <1>7

LEMMA MarkNames ==
    ASSUME Inv, NameInv, HeldExists', task.pc \in Reviewing, NoFileChange,
           NEW seen \in Texts, NEW visible \in Texts, MarkConflict(task.d, seen, visible),
           UNCHANGED <<gen, active, payloads, versions, crashes>>
    PROVE  RetainedOK' /\ ActiveOK'
<1>1. \A c \in Deltas : evidence'[c].kept = evidence[c].kept
  BY MarkConflictOK
<1>2. active => outcomes'[gen] = outcomes[gen]
  <2>1. active => gen \in Deltas /\ gen # task.d
    BY AtReview, GenerationAssumption DEF Inv, StoreOK, Version, Deltas
  <2> QED
    BY <2>1 DEF MarkConflict, Inv, StoreOK
<1> QED
  BY <1>1, <1>2, StoreNames, NoChangeSameRetained

\* A step of the restoration: the preimage moves away, or has moved.
LEMMA RestoreStep ==
    ASSUME NEW c, task'.d = c, task'.pc \in {"restore", "restored", "drop"},
           ~ Exists(Snap(c))', task'.pc # "restore" => ~ Exists(Pre(c))'
    PROVE  StepOK'
<1>1. /\ (task.pc \in {"restore", "unrestore", "restored", "drop"} => ~ Exists(Snap(task.d)))'
      /\ (task.pc \in {"restored", "drop"} => ~ Exists(Pre(task.d)))'
  BY DEF Exists
<1> QED
  BY <1>1 DEF StepOK, Entering, InPlace, Fenced, Renaming

LEMMA RestoreNames ==
    ASSUME Inv, NameInv, HeldExists', Restore
    PROVE  NameInv'
<1>1. task.pc \in Reviewing /\ task \in Tasks /\ FilesOK /\ UNCHANGED <<gen, active, versions, crashes>>
  BY DEF Restore, Inv, Reviewing, TryMove, TryUnlink, Fail, Abort, NoStoreChange, store
<1>2. PICK c \in Deltas : c = task.d
  BY <1>1, AtReview
<1>3. PICK f \in Slots : f = Target(task.d)
  BY <1>1, AtReview
<1>4. /\ c < gen /\ c \in Nat /\ task.seen \in Texts /\ Missing \in Texts
      /\ \A b \in Deltas : f # Pre(b) /\ f # Snap(b)
      /\ Target(task.d) = File(evidence[task.d].name)
  BY <1>1, <1>2, <1>3, AtReview, SlotsAreSlots, TextsAreTexts DEF Tasks
<1>5. ~ Exists(Snap(c)) /\ (task.pc \in {"restored", "drop"} => ~ Exists(Pre(c)))
  BY <1>2 DEF Restore, NameInv, StepOK
<1>6. CASE SameRetained /\ UNCHANGED store /\ StepOK'
  BY <1>1, <1>6, StoreNames DEF NameInv, store
<1>7. CASE Abort /\ NoStoreChange
  <2>1. task'.pc = "idle" /\ SameRetained
    BY <1>7, NoChangeSameRetained DEF Abort, IdleTask
  <2> QED
    BY <1>6, <1>7, <2>1, QuietStep DEF NoStoreChange
<1>8. CASE Unlink(f) /\ Goto("restore") /\ NoStoreChange
  <2>1. SameRetained
    BY <1>1, <1>4, <1>8, RetainedFileOps
  <2>2. task'.pc = "restore" /\ task'.d = c
    BY <1>1, <1>2, <1>8 DEF Goto, Tasks
  <2>3. ~ Exists(Snap(c))'
    BY <1>5, <2>1 DEF SameRetained
  <2> QED
    BY <1>6, <1>8, <2>1, <2>2, <2>3, RestoreStep DEF NoStoreChange
<1>9. CASE Move(Pre(c), f) /\ Goto("restored") /\ NoStoreChange
  <2>1. Pre(c) \in Slots /\ \A b \in Deltas : /\ Pre(b) \in Slots /\ Snap(b) \in Slots
                                             /\ Snap(b) # Pre(c) /\ (b # c => Pre(b) # Pre(c))
    BY SlotsAreSlots, RetainedApart
  <2>2. ~ Exists(Pre(c))' /\ \A s \in Slots \ {f, Pre(c)} : Exists(s)' <=> Exists(s)
    BY <1>1, <1>4, <1>9, RetainedFileOps
  <2>3. \A b \in Deltas : /\ Exists(Snap(b))' <=> Exists(Snap(b))
                          /\ b # c => (Exists(Pre(b))' <=> Exists(Pre(b)))
    BY <1>4, <2>1, <2>2 DEF Exists
  <2>4. task'.pc = "restored" /\ task'.d = c
    BY <1>1, <1>2, <1>9 DEF Goto, Tasks
  <2>5. StepOK'
    BY <1>5, <2>2, <2>3, <2>4, RestoreStep
  <2>6. UNCHANGED <<gen, active, outcomes, evidence, versions>>
    BY <1>1, <1>9 DEF NoStoreChange, store
  <2>7. RetainedOK'
    <3> SUFFICES ASSUME NEW b \in Deltas
                 PROVE  /\ b > gen \/ (b = gen /\ ~active) => ~ Exists(Pre(b))'
                        /\ b >= gen => ~ Exists(Snap(b))'
                        /\ Exists(Snap(b))' => Exists(Pre(b))'
                        /\ b < gen /\ InPlaceDelta(b) /\ Exists(Pre(b))' => evidence[b].kept
      BY <2>6 DEF RetainedOK, InPlaceDelta
    <3>1. CASE b = c
      BY <1>5, <2>2, <2>3, <3>1
    <3>2. CASE b # c
      BY <2>3, <3>2 DEF NameInv, RetainedOK
    <3> QED
      BY <3>1, <3>2
  <2>8. ActiveOK'
    <3>1. active => gen \in Deltas /\ gen # c
      BY <1>4, GenerationAssumption DEF Inv, StoreOK, Version, Deltas
    <3>2. active => (Exists(Pre(gen))' <=> Exists(Pre(gen)))
      BY <2>3, <2>6, <3>1
    <3> QED
      BY <2>6, <3>2 DEF NameInv, ActiveOK, InPlaceDelta
  <2> QED
    BY <2>5, <2>7, <2>8 DEF NameInv
<1>10. CASE /\ task.pc = "restored" /\ MarkConflict(task.d, task.seen, Missing)
            /\ Goto("drop") /\ NoFileChange /\ UNCHANGED <<gen, active, payloads>>
  <2>1. RetainedOK' /\ ActiveOK'
    BY <1>1, <1>4, <1>10, MarkNames
  <2>2. task'.pc = "drop" /\ task'.d = c
    BY <1>1, <1>2, <1>10 DEF Goto, Tasks
  <2>3. ~ Exists(Snap(c))' /\ ~ Exists(Pre(c))'
    BY <1>5, <1>10 DEF NoFileChange, Exists
  <2> QED
    BY <2>1, <2>2, <2>3, RestoreStep DEF NameInv
<1>11. CASE /\ task.pc = "drop" /\ evidence' = [evidence EXCEPT ![task.d] = NoRow]
            /\ NextReview(task.d) /\ NoFileChange
            /\ UNCHANGED <<gen, path, active, outcomes, payloads>>
  <2>1. RetainedOK' /\ ActiveOK'
    BY <1>1, <1>2, <1>4, <1>5, <1>11, DropNames, NoChangeSameRetained
  <2> QED
    BY <1>11, <2>1, NextReviewQuiet DEF NameInv
<1> QED
  BY <1>2, <1>3, <1>7, <1>8, <1>9, <1>10, <1>11 DEF Restore, TryMove, TryUnlink, Fail

LEMMA RetainNames ==
    ASSUME Inv, NameInv, HeldExists', Retain
    PROVE  NameInv'
<1>1. task.pc \in Reviewing /\ task \in Tasks /\ FilesOK /\ UNCHANGED <<gen, active, versions, crashes>>
  BY DEF Retain, Inv, Reviewing, TryMove, TryUnlink, Abort, NoStoreChange, store
<1>2. PICK c \in Deltas : c = task.d
  BY <1>1, AtReview
<1>3. PICK f \in Slots : f = Target(task.d)
  BY <1>1, AtReview
<1>4. /\ c < gen /\ c \in Nat /\ task.seen \in Texts /\ task.visible \in Texts
      /\ \A b \in Deltas : f # Pre(b) /\ f # Snap(b)
      /\ Target(task.d) = File(evidence[task.d].name) /\ Manifest(task.d) \in Texts
  BY <1>1, <1>2, <1>3, AtReview, SlotsAreSlots DEF Tasks
<1>5. ASSUME SameRetained, UNCHANGED store, NEW pc \in {"idle", "manifest", "published", "mark"},
             Goto(pc) \/ task' = IdleTask
      PROVE  NameInv'
  <2>1. task'.pc \in {"idle", "manifest", "published", "mark"}
    BY <1>1, <1>5 DEF Goto, Tasks, IdleTask
  <2> QED
    BY <1>1, <1>5, <2>1, StoreNames, QuietStep DEF NameInv, store
<1>6. CASE SameRetained /\ UNCHANGED store /\ NextReview(task.d)
  BY <1>1, <1>6, StoreNames, NextReviewQuiet DEF NameInv, store
<1>7. NoFileChange \/ Unlink(f) \/ Put(f, Manifest(task.d)) => SameRetained
  BY <1>1, <1>4, NoChangeSameRetained, RetainedFileOps
<1>8. NoStoreChange => UNCHANGED store
  BY DEF NoStoreChange
<1>9. CASE /\ task.pc = "retain" /\ Move(f, Snap(c)) /\ NoStoreChange
           /\ task' = [task EXCEPT !.pc = "manifest", !.visible = disk[f]]
  <2>1. \A b \in Deltas : /\ Pre(b) \in Slots /\ Snap(b) \in Slots
                          /\ Snap(c) # Pre(b) /\ (b # c => Snap(b) # Snap(c))
    BY SlotsAreSlots, RetainedApart
  <2>2. \A s \in Slots \ {f, Snap(c)} : Exists(s)' <=> Exists(s)
    BY <1>1, <1>4, <1>9, RetainedFileOps
  <2>3. \A b \in Deltas : /\ Exists(Pre(b))' <=> Exists(Pre(b))
                          /\ b # c => (Exists(Snap(b))' <=> Exists(Snap(b)))
    BY <1>4, <2>1, <2>2 DEF Exists
  <2>4. Exists(Pre(c))
    BY <1>2, <1>9 DEF NameInv, StepOK
  <2>5. StepOK'
    <3>1. task'.pc = "manifest"
      BY <1>1, <1>9 DEF Tasks
    <3> QED
      BY <3>1, QuietStep
  <2>6. UNCHANGED <<gen, active, outcomes, evidence, versions>>
    BY <1>1, <1>9 DEF NoStoreChange, store
  <2>7. RetainedOK'
    <3> SUFFICES ASSUME NEW b \in Deltas
                 PROVE  /\ b > gen \/ (b = gen /\ ~active) => ~ Exists(Pre(b))'
                        /\ b >= gen => ~ Exists(Snap(b))'
                        /\ Exists(Snap(b))' => Exists(Pre(b))'
                        /\ b < gen /\ InPlaceDelta(b) /\ Exists(Pre(b))' => evidence[b].kept
      BY <2>6 DEF RetainedOK, InPlaceDelta
    <3>1. ~ (b = c /\ b >= gen)
      BY <1>1, <1>4 DEF Inv, StoreOK
    <3> QED
      BY <2>3, <2>4, <3>1 DEF NameInv, RetainedOK
  <2>8. ActiveOK'
    <3>1. active => gen \in Deltas
      BY GenerationAssumption DEF Inv, StoreOK, Version, Deltas
    <3>2. active => (Exists(Pre(gen))' <=> Exists(Pre(gen)))
      BY <2>3, <2>6, <3>1
    <3> QED
      BY <2>6, <3>2 DEF NameInv, ActiveOK, InPlaceDelta
  <2> QED
    BY <2>5, <2>7, <2>8 DEF NameInv
<1>10. CASE Abort /\ NoStoreChange
  BY <1>5, <1>7, <1>8, <1>10 DEF Abort
<1>11. CASE /\ task.pc = "mark" /\ MarkConflict(task.d, task.seen, task.visible)
            /\ NextReview(task.d) /\ NoFileChange /\ UNCHANGED <<gen, active, payloads>>
  <2>1. RetainedOK' /\ ActiveOK'
    BY <1>1, <1>4, <1>11, MarkNames
  <2> QED
    BY <1>11, <2>1, NextReviewQuiet DEF NameInv
<1>12. CASE task.pc = "retain"
  BY <1>2, <1>3, <1>9, <1>10, <1>12 DEF Retain
<1>13. CASE task.pc = "clear"
  BY <1>3, <1>5, <1>7, <1>8, <1>10, <1>13 DEF Retain, TryUnlink
<1>14. CASE task.pc = "manifest"
  BY <1>3, <1>5, <1>6, <1>7, <1>8, <1>10, <1>14 DEF Retain
<1>15. CASE task.pc = "published"
  BY <1>5, <1>6, <1>7, <1>8, <1>15 DEF Retain
<1> QED
  BY <1>11, <1>12, <1>13, <1>14, <1>15 DEF Retain

LEMMA UserNames ==
    ASSUME Inv, NameInv, User
    PROVE  NameInv'
<1>1. UNCHANGED <<versions, store, payloads, task, crashes>> /\ FilesOK
  BY DEF User, Open, Close, Type, Create, Remove, Resolve, Inv
<1>2. /\ \A n \in Names : File(n) \in Slots
      /\ \A d \in Deltas : Pre(d) \in Slots /\ Snap(d) \in Slots
      /\ \A n, d : File(n) # Pre(d) /\ File(n) # Snap(d)
      /\ Gone \notin Slots /\ Closed \notin Slots
  BY SlotsAreSlots
<1>3. \A n \in Names : \A t : disk' = [disk EXCEPT ![File(n)] = t] => SameRetained
  BY <1>1, <1>2 DEF FilesOK, SameRetained, Exists
<1>4. SameRetained /\ HeldExists'
  <2>1. CASE Close
    BY <1>2, <2>1 DEF Close, SameRetained, HeldExists, Exists
  <2>2. ASSUME NEW n \in Names, Open(n)
        PROVE  SameRetained /\ HeldExists'
    BY <2>2 DEF Open, SameRetained, HeldExists, Exists
  <2>3. ASSUME NEW n \in Names, Remove(n)
        PROVE  SameRetained /\ HeldExists'
    <3>1. \A s \in Slots \ {File(n)} : disk'[s] = disk[s]
      BY <1>1, <2>3 DEF Remove, FilesOK
    <3> QED
      BY <1>2, <1>3, <2>3, <3>1 DEF Remove, Unlinked, HeldExists, Exists, NameInv
  <2>4. ASSUME NEW e \in Edits, Type(e)
        PROVE  SameRetained /\ HeldExists'
    <3>1. CASE held \in Slots
      <4>1. held # Gone /\ Exists(held)
        BY <1>2, <3>1 DEF NameInv, HeldExists
      <4>2. /\ disk'[held] = [disk[held] EXCEPT !.edits = @ \cup {e}]
            /\ \A s \in Slots : s # held => disk'[s] = disk[s]
        BY <1>1, <2>4, <3>1, <4>1 DEF Type, FilesOK
      <4>3. disk'[held].edits # {}
        BY <1>1, <3>1, <4>2 DEF FilesOK, Texts
      <4>4. Exists(held)'
        BY <2>4, <4>3 DEF Exists, Type, Missing, Text
      <4> QED
        BY <1>2, <2>4, <4>1, <4>2, <4>4 DEF SameRetained, HeldExists, Exists, Type
    <3>2. CASE held \notin Slots
      BY <1>1, <2>4, <3>2 DEF Type, FilesOK, SameRetained, HeldExists, Exists
    <3> QED
      BY <3>1, <3>2
  <2>5. ASSUME NEW n \in Names, NEW e \in Edits, Create(n, e)
        PROVE  SameRetained /\ HeldExists'
    <3>1. disk'[File(n)] = Text("own", 0, {e}) /\ \A s \in Slots \ {File(n)} : disk'[s] = disk[s]
      BY <1>1, <1>2, <2>5 DEF Create, FilesOK
    <3>2. Text("own", 0, {e}) # Missing
      BY DEF Missing, Text
    <3> QED
      BY <1>2, <1>3, <2>5, <3>1, <3>2 DEF Create, HeldExists, Exists, NameInv
  <2>6. ASSUME NEW n \in Names, NEW s0 \in Slots, Resolve(n, s0)
        PROVE  SameRetained /\ HeldExists'
    <3>1. /\ disk'[File(n)] = disk[s0] /\ disk[s0] # Missing
          /\ \A s \in Slots \ {File(n)} : disk'[s] = disk[s]
      BY <1>1, <1>2, <2>6 DEF Resolve, FilesOK, Exists
    <3> QED
      BY <1>2, <1>3, <2>6, <3>1 DEF Resolve, HeldExists, Exists, NameInv
  <2> QED
    BY <2>1, <2>2, <2>3, <2>4, <2>5, <2>6 DEF User
<1>5. RetainedOK' /\ ActiveOK'
  BY <1>1, <1>4, StoreNames DEF store
<1>6. StepOK'
  <2>1. gen' = gen /\ versions' = versions /\ outcomes' = outcomes /\ evidence' = evidence /\ task' = task
    BY <1>1 DEF store
  <2>2. task.pc \in Reviewing => task.d \in Deltas
    BY AtReview
  <2>3. task.pc = "record" => gen \in Deltas
    BY AtEntering DEF Entering
  <2>4. task.pc \in {"retain", "restore", "unrestore", "restored", "drop"} =>
          /\ Exists(Pre(task.d))' <=> Exists(Pre(task.d))
          /\ Exists(Snap(task.d))' <=> Exists(Snap(task.d))
    BY <1>4, <2>1, <2>2 DEF SameRetained, Reviewing
  <2>5. task.pc = "record" => (Exists(Pre(gen))' <=> Exists(Pre(gen)))
    BY <1>4, <2>1, <2>3 DEF SameRetained
  <2>6. InPlaceDelta(gen)' <=> InPlaceDelta(gen)
    BY <2>1 DEF InPlaceDelta
  <2> QED
    BY <2>1, <2>4, <2>5, <2>6 DEF NameInv, StepOK
<1> QED
  BY <1>4, <1>5, <1>6 DEF NameInv

LEMMA PublishNames ==
    ASSUME Inv, NameInv, Publish
    PROVE  NameInv'
<1>1. UNCHANGED <<disk, user, store, payloads, task, crashes>>
  BY DEF Publish
<1>2. PICK n : versions' = Append(versions, n) /\ n \in Names \cup {Absent}
  BY DEF Publish
<1>3. /\ Len(versions) \in Nat
      /\ \A i \in 1..Len(versions) : versions'[i] = versions[i]
  BY <1>2, AppendProperties, LenProperties DEF Inv, StoreOK
<1>4. \A i \in 1..(Len(versions) - 1) : InPlaceDelta(i)' <=> InPlaceDelta(i)
  <2> SUFFICES ASSUME NEW i \in 1..(Len(versions) - 1)
               PROVE  InPlaceDelta(i)' <=> InPlaceDelta(i)
    OBVIOUS
  <2>1. i \in 1..Len(versions) /\ i + 1 \in 1..Len(versions)
    BY <1>3
  <2>2. versions'[i] = versions[i] /\ versions'[i + 1] = versions[i + 1]
    BY <1>3, <2>1
  <2> QED
    BY <2>2 DEF InPlaceDelta
<1>5. \A s : Exists(s)' <=> Exists(s)
  BY <1>1 DEF Exists
<1>6. gen \in 1..Len(versions) /\ (active => gen \in 1..(Len(versions) - 1))
  BY <1>3 DEF Inv, StoreOK
<1>7. RetainedOK'
  <2> SUFFICES ASSUME NEW d \in Deltas
               PROVE  /\ d > gen \/ (d = gen /\ ~active) => ~ Exists(Pre(d))'
                      /\ d >= gen => ~ Exists(Snap(d))'
                      /\ Exists(Snap(d))' => Exists(Pre(d))'
                      /\ d < gen /\ InPlaceDelta(d)' /\ Exists(Pre(d))' => evidence[d].kept
    BY <1>1 DEF RetainedOK, store
  <2>1. d < gen => d \in 1..(Len(versions) - 1)
    BY <1>3, <1>6 DEF Deltas
  <2> QED
    BY <1>4, <1>5, <2>1 DEF NameInv, RetainedOK
<1>8. gen' = gen /\ active' = active /\ outcomes' = outcomes /\ evidence' = evidence /\ task' = task
  BY <1>1 DEF store
<1>9. active => /\ InPlaceDelta(gen)' <=> InPlaceDelta(gen)
                /\ versions'[gen] = versions[gen]
  <2>1. active => versions'[gen] = versions[gen] /\ versions'[gen + 1] = versions[gen + 1]
    BY <1>3, <1>6
  <2> QED
    BY <1>8, <2>1 DEF InPlaceDelta
<1>10. Exists(Pre(gen))' <=> Exists(Pre(gen))
  BY <1>1, <1>8 DEF Exists
<1>11. ActiveOK'
  BY <1>8, <1>9, <1>10 DEF NameInv, ActiveOK
<1>12. StepOK'
  <2>1. task.pc \in Entering => active
    BY AtEntering
  <2>2. /\ Exists(Pre(task.d))' <=> Exists(Pre(task.d))
        /\ Exists(Snap(task.d))' <=> Exists(Snap(task.d))
    BY <1>1 DEF Exists
  <2> QED
    BY <1>8, <1>9, <1>10, <2>1, <2>2 DEF NameInv, StepOK, Entering
<1>13. HeldExists'
  BY <1>1 DEF NameInv, HeldExists, Exists, user
<1> QED
  BY <1>7, <1>11, <1>12, <1>13 DEF NameInv

LEMMA NextNames == Inv /\ NameInv /\ [Next]_vars => NameInv'
<1> SUFFICES ASSUME Inv, NameInv, [Next]_vars
             PROVE  NameInv'
  OBVIOUS
<1>1. CASE Sync
  <2>1. HeldExists'
    BY <1>1, SyncFileStep, FileStepHeld DEF Inv, NameInv
  <2> QED
    BY <1>1, <2>1, LifeNames, CreateNames, ThreeWayNames, FencedUpdateNames, FencedRenameNames,
       ReviewNames, RestoreNames, RetainNames DEF Sync, Recover, Apply
<1>2. CASE User
  BY <1>2, UserNames
<1>3. CASE Publish
  BY <1>3, PublishNames
<1>4. CASE Crash
  <2>1. StepOK'
    BY <1>4, QuietStep DEF Crash, IdleTask
  <2> QED
    BY <1>4, <2>1 DEF Crash, user, store, NameInv, HeldExists, RetainedOK, ActiveOK, Exists, InPlaceDelta
<1>5. CASE UNCHANGED vars
  BY <1>5 DEF vars, user, store, NameInv, HeldExists, RetainedOK, ActiveOK, StepOK, Exists, InPlaceDelta
<1> QED
  BY <1>1, <1>2, <1>3, <1>4, <1>5 DEF Next

LEMMA InitNames == Init => NameInv
<1> SUFFICES ASSUME Init
             PROVE  NameInv
  OBVIOUS
<1>1. \A d \in Deltas : ~ Exists(Pre(d)) /\ ~ Exists(Snap(d))
  BY SlotsAreSlots DEF Init, Exists
<1>2. HeldExists /\ ActiveOK
  BY SlotsAreSlots DEF Init, HeldExists, ActiveOK
<1>3. StepOK
  BY DEF Init, IdleTask, StepOK, Entering, InPlace, Fenced, Renaming
<1> QED
  BY <1>1, <1>2, <1>3 DEF NameInv, RetainedOK

\* An inode that is kept under a name of the client's own, and holds edits of the
\* user, is named by a row or by the journal in hand, for every delta that does not
\* rename the document: no crash and no failed step leaves it behind unnoticed.
THEOREM RetainedStayNamed == Spec => []RetainedInPlaceAreNamed
<1>1. Inv /\ NameInv => RetainedInPlaceAreNamed
  <2> SUFFICES ASSUME Inv, NameInv, NEW d \in Published, InPlaceDelta(d),
                      NEW s \in {Pre(d), Snap(d)}, disk[s].edits # {}
               PROVE  evidence[d].kept \/ (active /\ d = gen)
    BY DEF RetainedInPlaceAreNamed, Named, InPlaceDelta
  <2>1. d \in Deltas /\ gen \in Int /\ d \in Int
    BY GenerationAssumption DEF Inv, StoreOK, Published, Deltas, Version
  <2>2. Exists(s)
    BY DEF Exists, Missing, Text
  <2>3. Exists(Pre(d))
    BY <2>1, <2>2 DEF NameInv, RetainedOK
  <2> QED
    BY <2>1, <2>3 DEF NameInv, RetainedOK
<1> QED
  BY <1>1, InitNames, InvHolds, NextNames, PTL DEF Spec
=============================================================================
