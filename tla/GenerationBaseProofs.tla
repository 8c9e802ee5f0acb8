------------------------- MODULE GenerationBaseProofs -------------------------
(***************************************************************************)
(* Proof that a clean path of GenerationSync shows the version its record  *)
(* says, whatever the user did in between.  Until a crash or the first     *)
(* visible snapshot, files are moved and never copied, so that a version   *)
(* is in one slot at most; and a path whose last delta was a conflict with *)
(* its old inode kept does not become clean again, as no file shows any    *)
(* later version without edits.                                            *)
(***************************************************************************)
EXTENDS GenerationSyncProofs

IsDoc(s, v) == disk[s].kind = "doc" /\ disk[s].of = v
IsExact(s, v) == IsDoc(s, v) /\ disk[s].edits = {}

\* No crash yet, and no visible inode kept beside a displaced one.
Undisturbed == crashes = 0 /\ \A d \in Deltas : ~ Exists(Snap(d))

Earlier == {d \in Deltas : d < gen}

\* The displaced inode of a delta changed after the row was written, or is gone.
Changed(d) == evidence[d].kept /\ disk[Pre(d)] # evidence[d].captured

\* A delta that ended in a conflict left its row; and the inode is still displaced.
Spoiled(d) == evidence[d].kept /\ outcomes[d] = "conflict"
Lying(d) == Spoiled(d) /\ Exists(Pre(d))
NoneSpoiled == \A d \in Earlier : ~ Spoiled(d)

\* The merge base of the path is the text of its base version.
Whole == path.base = path.payload + 1

\* The outcome of the entry in hand is known.
Ends(result) ==
    \/ task.pc \in {"fence", "record"} /\ task.result = result
    \/ task.pc = "complete" /\ outcomes[gen] = result

\* A visible snapshot belongs to a row that says so, or whose inode has changed.
SnapsOK ==
    /\ \A d \in Deltas : Exists(Snap(d)) =>
         evidence[d].kept /\ (evidence[d].visible = Missing => Changed(d))
    /\ task.pc \in {"retain", "unrestore", "restore"} =>
         Exists(Pre(task.d)) /\ Changed(task.d)
    /\ task.pc \in {"published", "manifest", "clear"} =>
         Exists(Snap(task.d)) /\ (task.marks => task.visible # Missing)
    /\ task.pc = "mark" => task.visible # Missing
    /\ task.pc = "review" => ~ task.marks

\* Nothing holds an edit that was not typed, and no path is ahead of its generation.
TypedOnly ==
    /\ \A s \in Slots : disk[s].edits \subseteq typed
    /\ task.fence.edits \subseteq typed /\ task.seen.edits \subseteq typed
    /\ \A d \in Deltas : evidence[d].captured.edits \subseteq typed
BaseBehind == path.base <= gen

-----------------------------------------------------------------------------
(* The files and rows of an undisturbed document *)

Plain ==
    /\ \A d \in Deltas : evidence[d].visible = Missing /\ ~ evidence[d].resolved
    /\ \A s \in Slots : disk[s].kind # "manifest"

\* A version is in one slot at most.
Alone == \A s, t \in Slots : disk[s].kind = "doc" /\ IsDoc(t, disk[s].of) => s = t

\* The name of the generation is the local one while its version is on disk.
Follows == \A s \in Slots : IsDoc(s, gen) => Tracked /\ path.local = versions[gen]

RowFacts ==
    \A d \in Deltas : evidence[d].kept =>
      /\ evidence[d].captured # Missing
      /\ IsExact(Pre(d), d) => ~ Changed(d)

\* A displaced inode is the only one that may have the old version as it was.
Untwinned ==
    \A d \in Deltas : evidence[d].kept /\ Exists(Pre(d)) /\ evidence[d].payload + 1 = d =>
        \A s \in Slots \ {Pre(d)} : ~ IsExact(s, d)

\* After a conflict no file shows a later version, or the merge base, as it was.
LaterEdited ==
    \A d \in Earlier : Lying(d) =>
        \A s \in Slots : disk[s].kind = "doc" /\ disk[s].of > d => disk[s].edits # {}
BaseEdited ==
    \A d \in Earlier : Lying(d) /\ Whole =>
        \A s \in Slots \ {Pre(d)} : ~ IsExact(s, path.base)

\* Nor does one when a path has gone back to the version before the newest.
OldBaseEdited ==
    path.state = "conflicted" /\ Whole /\ (\E s \in Slots : IsDoc(s, gen)) =>
        \A s \in Slots : ~ IsExact(s, path.base)

CleanUnspoiled == path.state = "clean" => NoneSpoiled

Shown ==
    ~ active /\ path.state = "clean" =>
      \/ disk[File(path.local)].kind = "doc" => disk[File(path.local)].of = path.base
      \/ \E d \in Earlier : Changed(d)

Docs == /\ Plain /\ Alone /\ Follows /\ RowFacts /\ Untwinned
        /\ LaterEdited /\ BaseEdited /\ OldBaseEdited /\ CleanUnspoiled /\ Shown

-----------------------------------------------------------------------------
(* What the steps of a sync may rely on *)

NotAhead ==
    \A s \in Slots : disk[s].kind = "doc" =>
       \/ disk[s].of <= gen
       \/ disk[s].of = gen + 1 /\ (Ends("applied") \/ Ends("merged"))

RowsInTime ==
    \A d \in Deltas :
      /\ evidence[d].kept => d < gen \/ (d = gen /\ task.pc \in {"record", "complete"})
      /\ outcomes[d] # "none" => d < gen \/ (d = gen /\ task.pc = "complete")

\* The review has dropped the rows of conflicts whose inode is back in its place.
Swept ==
    /\ task.pc \in Reviewing => \A d \in Deltas : d < task.d /\ Spoiled(d) => Exists(Pre(d))
    /\ task.pc \in Applying \ {"tidy"} => \A d \in Earlier : Spoiled(d) => Exists(Pre(d))

ReviewPcs ==
    /\ task.pc \notin {"clear", "manifest", "published", "mark", "resolve"}
    /\ task.pc \in {"unrestore", "restore"} => ~ IsExact(Pre(task.d), task.d)
    /\ task.pc \in {"unrestore", "restore", "restored", "drop"} => task.seen # Missing
    /\ task.pc = "restored" /\ evidence[task.d].payload + 1 = task.d =>
         \A s \in Slots : ~ IsExact(s, task.d)
    /\ task.pc = "drop" => path.state = "conflicted"

Verified == {"verify", "place", "rename-verify", "rename-place"}
ApplyPcs ==
    /\ task.pc \in Applying \ {"validate", "tidy"} => BaseMatches(gen)
    /\ task.pc \in Verified => IsDoc(Pre(gen), gen)
    /\ task.pc \in Verified \cup {"move", "rename-move"} => NoneSpoiled
    /\ task.pc # "undo"
    /\ task.pc \in {"rename-verify", "rename-place"} => task.seen = Missing
    /\ task.pc \in Fenced \cup InPlace => ~ Renames(gen)
    /\ task.pc \in {"displace", "merge"} =>
         Whole /\ task.seen.kind = "doc" /\ task.seen.of = path.base
    /\ task.pc = "displace" => \A s \in Slots : IsDoc(s, path.base) => s = File(path.local)
    /\ task.pc = "merge" => \A s \in Slots : IsDoc(s, path.base) => s = Pre(gen)

\* What a row about to be written will say.
FencePc ==
    task.pc = "fence" =>
      /\ task.fence # Missing
      /\ IsExact(Pre(gen), gen) => task.fence = disk[Pre(gen)]
      /\ Exists(Pre(gen)) /\ path.payload + 1 = gen =>
           \A s \in Slots \ {Pre(gen)} : ~ IsExact(s, gen)
EndPcs ==
    /\ Ends("conflict") /\ (task.pc = "fence" \/ evidence[gen].kept) /\ Exists(Pre(gen)) /\ Whole =>
         \A s \in Slots \ {Pre(gen)} : ~ IsExact(s, path.base)
    /\ Ends("applied") =>
         /\ versions[gen + 1] # Absent
         /\ NoneSpoiled
         /\ LET file == File(versions[gen + 1])
            IN disk[file].kind = "doc" => disk[file].of = gen + 1
    /\ Ends("deleted") => versions[gen + 1] = Absent

Pcs == NotAhead /\ RowsInTime /\ Swept /\ ReviewPcs /\ ApplyPcs /\ FencePc /\ EndPcs

BaseInv == /\ SnapsOK /\ TypedOnly /\ BaseBehind
           /\ Undisturbed => Docs /\ Pcs

-----------------------------------------------------------------------------
(* Texts, and what a step does to a slot *)

LEMMA TextFields ==
    /\ Missing.kind = "missing" /\ Missing.edits = {}
    /\ \A k, v, E : Text(k, v, E).kind = k /\ Text(k, v, E).of = v /\ Text(k, v, E).edits = E
    /\ \A d : Manifest(d).kind = "manifest" /\ Manifest(d).edits = {}
    /\ \A t \in Texts : t.kind = "doc" /\ t.edits = {} => t = Text("doc", t.of, {})
  BY DEF Missing, Manifest, Text, Texts

\* A write of the user to what is in the slot.
Aged(s) == /\ Exists(s) /\ disk'[s].kind = disk[s].kind /\ disk'[s].of = disk[s].of
           /\ disk[s].edits \subseteq disk'[s].edits /\ disk'[s].edits \ typed # {}

Retained == {Pre(d) : d \in Deltas} \cup {Snap(d) : d \in Deltas}

\* No retained inode is moved, written by the client, or removed.
RetainedSlip == \A s \in Retained : disk'[s] = disk[s] \/ Aged(s)

\* The same for files, which also may go or become the user's own.
Slip == /\ RetainedSlip
        /\ \A s \in Slots \ Retained :
             disk'[s] = disk[s] \/ Aged(s) \/ disk'[s].kind \in {"missing", "own"}

LEMMA AgedFacts ==
    ASSUME NEW s, Aged(s)
    PROVE  /\ Exists(s) /\ Exists(s)' /\ disk'[s].edits # {}
           /\ \A t : t.edits \subseteq typed => disk'[s] # t
  BY TextFields DEF Aged, Exists

\* A move to a free slot.
MovesTo(from, to) ==
    /\ from # to /\ ~ Exists(to)
    /\ disk'[to] = disk[from] /\ disk'[from] = Missing
    /\ \A s \in Slots \ {from, to} : disk'[s] = disk[s]
    /\ typed' = typed

PutsAt(s, t) ==
    /\ ~ Exists(s) /\ disk'[s] = t
    /\ \A r \in Slots \ {s} : disk'[r] = disk[r]
    /\ typed' = typed

LEMMA OpsOnSlots ==
    ASSUME FilesOK
    PROVE  /\ \A from, to \in Slots : from # to /\ ~ Exists(to) /\ Move(from, to) => MovesTo(from, to)
           /\ \A s \in Slots : \A t : Put(s, t) => PutsAt(s, t)
           /\ \A s \in Slots \ Retained : Unlink(s) => Slip /\ typed' = typed
           /\ NoFileChange => Slip /\ typed' = typed
<1>1. \A from, to \in Slots : from # to /\ ~ Exists(to) /\ Move(from, to) => MovesTo(from, to)
  BY DEF FilesOK, Move, MovesTo
<1>2. \A s \in Slots : \A t : Put(s, t) => PutsAt(s, t)
  BY DEF FilesOK, Put, PutsAt, user
<1>3. \A s \in Slots \ Retained : Unlink(s) => Slip /\ typed' = typed
  <2> SUFFICES ASSUME NEW s \in Slots \ Retained, Unlink(s)
               PROVE  Slip /\ typed' = typed
    OBVIOUS
  <2>1. disk'[s] = Missing /\ typed' = typed /\ \A r \in Slots \ {s} : disk'[r] = disk[r]
    BY DEF Unlink, FilesOK
  <2>2. Retained \subseteq Slots
    BY DEF Retained, Slots
  <2> QED
    BY <2>1, <2>2, TextFields DEF Slip, RetainedSlip
<1>4. NoFileChange => Slip /\ typed' = typed
  BY DEF NoFileChange, user, Slip, RetainedSlip
<1> QED
  BY <1>1, <1>2, <1>3, <1>4

LEMMA FilesAreNotRetained ==
    /\ \A n \in Names : File(n) \in Slots \ Retained
    /\ \A d \in Deltas : Pre(d) \in Retained /\ Snap(d) \in Retained
    /\ Retained \subseteq Slots
  BY SlotsAreSlots DEF Retained, Slots

LEMMA UserSlips ==
    ASSUME Inv, NameInv, TypedOnly, User
    PROVE  /\ RetainedSlip /\ TypedOnly'
           /\ (\A s \in Slots : disk[s].kind # "manifest") => Slip
<1>1. UNCHANGED <<versions, store, payloads, task, crashes>> /\ FilesOK
  BY DEF User, Open, Close, Type, Create, Remove, Resolve, Inv
<1>2. evidence' = evidence
  BY <1>1 DEF store
<1> DEFINE Fresh(s) == disk'[s] = disk[s] \/ Aged(s) \/ disk'[s].kind \in {"missing", "own"}
           Typed(s) == disk'[s].edits \subseteq typed'
<1>3. /\ \A s \in Retained : disk'[s] = disk[s] \/ Aged(s)
      /\ \A s \in Slots : Typed(s)
      /\ typed \subseteq typed'
      /\ (\A s \in Slots : disk[s].kind # "manifest") => \A s \in Slots : Fresh(s)
  <2>1. CASE disk' = disk /\ typed' = typed
    BY <2>1, FilesAreNotRetained DEF TypedOnly
  <2>2. ASSUME NEW n \in Names, Remove(n)
        PROVE  <1>3!1 /\ <1>3!2 /\ <1>3!3 /\ <1>3!4
    <3>1. /\ disk'[File(n)] = Missing /\ \A s \in Slots \ {File(n)} : disk'[s] = disk[s]
          /\ typed' = typed
      BY <1>1, <2>2, FilesAreNotRetained DEF Remove, FilesOK
    <3> QED
      BY <3>1, FilesAreNotRetained, TextFields DEF TypedOnly
  <2>3. ASSUME NEW e \in Edits, Type(e)
        PROVE  <1>3!1 /\ <1>3!2 /\ <1>3!3 /\ <1>3!4
    <3>1. CASE held \in Slots
      <4>1. held # Gone /\ Exists(held) /\ e \notin typed /\ typed' = typed \cup {e}
        BY <2>3, <3>1, SlotsAreSlots DEF NameInv, HeldExists, Type
      <4>2. /\ disk'[held] = [disk[held] EXCEPT !.edits = @ \cup {e}]
            /\ \A s \in Slots : s # held => disk'[s] = disk[s]
        BY <1>1, <2>3, <3>1, <4>1 DEF Type, FilesOK
      <4>3. disk[held] \in Texts
        BY <1>1, <3>1 DEF FilesOK
      <4>4. /\ disk'[held].edits = disk[held].edits \cup {e}
            /\ disk'[held].kind = disk[held].kind /\ disk'[held].of = disk[held].of
        BY <4>2, <4>3 DEF Texts
      <4>5. Aged(held)
        BY <4>1, <4>4 DEF Aged
      <4>6. disk[held].edits \subseteq typed
        BY <3>1 DEF TypedOnly
      <4> QED
        BY <4>1, <4>2, <4>4, <4>5, <4>6, FilesAreNotRetained DEF TypedOnly
    <3>2. CASE held \notin Slots
      <4>1. (\A s \in Slots : disk'[s] = disk[s]) /\ typed' = typed \cup {e}
        BY <1>1, <2>3, <3>2 DEF Type, FilesOK
      <4> QED
        BY <4>1, FilesAreNotRetained DEF TypedOnly
    <3> QED
      BY <3>1, <3>2
  <2>4. ASSUME NEW n \in Names, NEW e \in Edits, Create(n, e)
        PROVE  <1>3!1 /\ <1>3!2 /\ <1>3!3 /\ <1>3!4
    <3>1. /\ disk'[File(n)] = Text("own", 0, {e}) /\ \A s \in Slots \ {File(n)} : disk'[s] = disk[s]
          /\ typed' = typed \cup {e}
      BY <1>1, <2>4, FilesAreNotRetained DEF Create, FilesOK
    <3> QED
      BY <3>1, FilesAreNotRetained, TextFields DEF TypedOnly
  <2>5. ASSUME NEW n \in Names, NEW s \in Slots, Resolve(n, s)
        PROVE  <1>3!1 /\ <1>3!2 /\ <1>3!3 /\ <1>3!4
    <3>1. /\ disk[File(n)].kind = "manifest" /\ disk'[File(n)] = disk[s]
          /\ \A r \in Slots \ {File(n)} : disk'[r] = disk[r]
          /\ typed' = typed
      BY <1>1, <2>5, FilesAreNotRetained DEF Resolve, FilesOK
    <3> QED
      BY <3>1, FilesAreNotRetained DEF TypedOnly
  <2>6. (Close \/ \E n \in Names : Open(n)) => disk' = disk /\ typed' = typed
    BY DEF Close, Open
  <2> QED
    BY <2>1, <2>2, <2>3, <2>4, <2>5, <2>6 DEF User
<1>4. TypedOnly'
  BY <1>1, <1>2, <1>3 DEF TypedOnly
<1> QED
  BY <1>3, <1>4, FilesAreNotRetained DEF RetainedSlip, Slip

-----------------------------------------------------------------------------
(* Edits come from the user only *)

\* The texts that the client writes hold no edit that was not typed.
TypedFiles == \A s \in Slots : disk[s].edits \subseteq typed
TypedStep ==
    \/ NoFileChange
    \/ \E from, to \in Slots : from # to /\ ~ Exists(to) /\ Move(from, to)
    \/ \E s \in Slots : Unlink(s)
    \/ \E s \in Slots, t \in Texts : t.edits \subseteq typed /\ Put(s, t)

LEMMA TypedStepKeeps ==
    ASSUME FilesOK, TypedFiles, TypedStep
    PROVE  TypedFiles' /\ typed' = typed
<1>1. CASE NoFileChange
  BY <1>1 DEF NoFileChange, user, TypedFiles
<1>2. ASSUME NEW from \in Slots, NEW to \in Slots, MovesTo(from, to)
      PROVE  TypedFiles' /\ typed' = typed
  BY <1>2, TextFields DEF MovesTo, TypedFiles
<1>3. ASSUME NEW s \in Slots, Unlink(s)
      PROVE  TypedFiles' /\ typed' = typed
  <2>1. disk'[s] = Missing /\ typed' = typed /\ \A r \in Slots \ {s} : disk'[r] = disk[r]
    BY <1>3 DEF Unlink, FilesOK
  <2> QED
    BY <2>1, TextFields DEF TypedFiles
<1>4. ASSUME NEW s \in Slots, NEW t, t.edits \subseteq typed, PutsAt(s, t)
      PROVE  TypedFiles' /\ typed' = typed
  BY <1>4 DEF PutsAt, TypedFiles
<1> QED
  BY <1>1, <1>2, <1>3, <1>4, OpsOnSlots DEF TypedStep

LEMMA NewIsTyped == \A d : New(d).edits = {} /\ Old(d).edits = {}
  BY TextFields DEF New, Old, Image

LEMMA EntryTypedStep ==
    ASSUME Inv, TypedOnly, ApplyCreate \/ ThreeWay \/ FencedUpdate \/ FencedRename
    PROVE  TypedStep
<1>1. task.pc \in Applying \ {"validate", "tidy"}
  BY DEF ApplyCreate, ThreeWay, FencedUpdate, FencedRename, Applying
<1>2. /\ File(path.local) \in Slots /\ Pre(gen) \in Slots /\ Pre(gen) # File(path.local)
      /\ New(gen) \in Texts /\ New(gen).edits = {}
  BY <1>1, AtEntry, SlotsAreSlots, NewIsTyped DEF New
<1>3. Fail \/ Abort => TypedStep
  BY DEF Fail, Abort, TypedStep
<1>4. CASE ApplyCreate
  <2>1. File(versions[gen + 1]) \in Slots
    BY <1>1, <1>4, AtEntry DEF ApplyCreate, Inv, TaskOK
  <2> QED
    BY <1>2, <1>4, <2>1 DEF ApplyCreate, TypedStep
<1>5. CASE ThreeWay
  <2>1. CASE task.pc = "merge" /\ Put(File(path.local), Merged(gen, task.seen))
    <3>1. Merged(gen, task.seen) \in Texts
      <4>1. gen + 1 \in Version /\ task.seen \in Texts
        BY <1>1, AtEntry, GenerationAssumption DEF Inv, Tasks, Version, Deltas
      <4> QED
        BY <4>1, TextsAreTexts DEF Merged, Texts
    <3>2. Merged(gen, task.seen).edits \subseteq typed
      BY TextFields DEF Merged, TypedOnly
    <3> QED
      BY <1>2, <2>1, <3>1, <3>2 DEF TypedStep
  <2>2. CASE task.pc = "merge" /\ ~ Put(File(path.local), Merged(gen, task.seen))
    BY <1>2, <1>3, <1>5, <2>2 DEF ThreeWay, TypedStep
  <2>3. CASE task.pc # "merge"
    BY <1>2, <1>3, <1>5, <2>3 DEF ThreeWay, TypedStep, TryMove, CanMove
  <2> QED
    BY <2>1, <2>2, <2>3
<1>6. CASE FencedUpdate
  BY <1>2, <1>3, <1>6 DEF FencedUpdate, TypedStep, TryMove, TryUnlink, CanMove
<1>7. CASE FencedRename
  <2>1. File(versions[gen + 1]) \in Slots
    BY <1>1, <1>7, AtEntry DEF FencedRename, Inv, TaskOK, Renaming
  <2> QED
    BY <1>2, <1>3, <1>7, <2>1 DEF FencedRename, TypedStep, TryMove, CanMove
<1> QED
  BY <1>4, <1>5, <1>6, <1>7

LEMMA ReviewTypedStep ==
    ASSUME Inv, Restore \/ Retain
    PROVE  TypedStep
<1>1. task.pc \in Reviewing
  BY DEF Restore, Retain, Reviewing
<1>2. /\ Target(task.d) \in Slots /\ Pre(task.d) \in Slots /\ Snap(task.d) \in Slots
      /\ Manifest(task.d) \in Texts /\ Manifest(task.d).edits = {}
      /\ Target(task.d) # Pre(task.d) /\ Target(task.d) # Snap(task.d)
  BY <1>1, AtReview, SlotsAreSlots, TextFields
<1>3. Fail \/ Abort => TypedStep
  BY DEF Fail, Abort, TypedStep
<1>4. CASE Restore
  BY <1>2, <1>3, <1>4 DEF Restore, TypedStep, TryMove, TryUnlink, CanMove
<1>5. CASE Retain
  BY <1>2, <1>3, <1>5 DEF Retain, TypedStep, TryMove, TryUnlink, CanMove
<1> QED
  BY <1>4, <1>5

LEMMA SyncTypedStep ==
    ASSUME Inv, TypedOnly, Sync
    PROVE  TypedStep
<1>1. CASE NoFileChange
  BY <1>1 DEF TypedStep
<1>2. CASE Fail
  BY <1>1, <1>2 DEF Fail, Abort
<1>3. CASE Start \/ Review \/ ResolveEvidence
  BY <1>1, <1>2, <1>3 DEF Start, Begin, Review, ResolveEvidence
<1>4. CASE Restore \/ Retain
  BY <1>4, ReviewTypedStep
<1>5. CASE ApplyCreate \/ ThreeWay \/ FencedUpdate \/ FencedRename
  BY <1>5, EntryTypedStep
<1>6. CASE Validate \/ Stage \/ ApplyEntry \/ RecordEvidence \/ RecordOutcome \/ Complete \/ Tidy
  BY <1>1, <1>2, <1>6 DEF Validate, Stage, ApplyEntry, RecordEvidence, RecordOutcome,
     Complete, Tidy, ReconcileStaging
<1> QED
  BY <1>3, <1>4, <1>5, <1>6 DEF Sync, Recover, Apply

\* The texts that a sync holds in memory, and the fingerprints of the rows.
TypedTask == task.fence.edits \subseteq typed /\ task.seen.edits \subseteq typed
TypedRows == \A d \in Deltas : evidence[d].captured.edits \subseteq typed

\* What the task of the next step remembers.
LEMMA TaskFields ==
    ASSUME task \in Tasks
    PROVE  /\ task' = IdleTask => /\ task'.pc = "idle" /\ task'.seen = Missing /\ task'.fence = Missing
                                  /\ task'.marks = FALSE
           /\ \A d \in Nat : NextReview(d) =>
                /\ task'.seen = Missing /\ task'.fence = Missing /\ task'.marks = FALSE
                /\ task'.pc \in {"validate", "review"}
           /\ \A pc : Goto(pc) =>
                /\ task'.pc = pc /\ task'.d = task.d /\ task'.seen = task.seen
                /\ task'.fence = task.fence /\ task'.visible = task.visible
                /\ task'.marks = task.marks /\ task'.result = task.result
           /\ \A result, fence : Finish(result, fence) =>
                /\ task'.pc = IF fence = Missing THEN "record" ELSE "fence"
                /\ task'.result = result /\ task'.fence = fence /\ task'.seen = task.seen
                /\ task'.d = task.d
           /\ \A seen, pc : task' = [task EXCEPT !.seen = seen, !.pc = pc] =>
                /\ task'.pc = pc /\ task'.seen = seen /\ task'.fence = task.fence
                /\ task'.d = task.d
           /\ \A seen, visible, marks, pc :
                task' = [task EXCEPT !.seen = seen, !.visible = visible, !.marks = marks, !.pc = pc] =>
                /\ task'.pc = pc /\ task'.seen = seen /\ task'.fence = task.fence
                /\ task'.d = task.d /\ task'.visible = visible /\ task'.marks = marks
<1>1. task' = IdleTask => /\ task'.pc = "idle" /\ task'.seen = Missing /\ task'.fence = Missing
                          /\ task'.marks = FALSE
  BY DEF IdleTask
<1>2. ASSUME NEW d \in Nat, NextReview(d)
      PROVE  /\ task'.seen = Missing /\ task'.fence = Missing /\ task'.marks = FALSE
             /\ task'.pc \in {"validate", "review"}
  BY <1>2 DEF NextReview, IdleTask
<1> QED
  BY <1>1, <1>2 DEF Goto, Finish, Tasks

LEMMA SyncTypedTask ==
    ASSUME Inv, TypedOnly, Sync, typed' = typed
    PROVE  TypedTask'
<1> DEFINE Known(t) == t.edits \subseteq typed
<1> task \in Tasks /\ Known(Missing) /\ Known(task.seen) /\ Known(task.fence)
  BY TextFields DEF Inv, TypedOnly
<1>1. \A s \in Slots : Known(disk[s])
  BY DEF TypedOnly
<1>2. (\A d : Known(Old(d)))
  BY NewIsTyped
<1>3. CASE task' = IdleTask \/ (\E d \in Nat : NextReview(d)) \/ task'= task
  BY <1>3, TaskFields DEF TypedTask
<1>4. ASSUME NEW pc, Goto(pc)
      PROVE  TypedTask'
  BY <1>4, TaskFields DEF TypedTask
<1>5. ASSUME NEW result, NEW fence, Finish(result, fence), Known(fence)
      PROVE  TypedTask'
  BY <1>5, TaskFields DEF TypedTask
<1>6. ASSUME NEW seen, NEW pc, task' = [task EXCEPT !.seen = seen, !.pc = pc], Known(seen)
      PROVE  TypedTask'
  BY <1>6, TaskFields DEF TypedTask
<1>7. Fail \/ Abort => TypedTask'
  BY <1>3 DEF Fail, Abort
<1>8. CASE Start \/ Tidy \/ Validate
  <2>1. \/ task' = IdleTask \/ (\E d \in Nat : NextReview(d)) \/ task'= task
        \/ \E pc : task' = [IdleTask EXCEPT !.pc = pc]
        \/ \E pc : \E d : task' = [IdleTask EXCEPT !.pc = pc, !.d = d]
    BY <1>8 DEF Start, Begin, Tidy, Validate, ReconcileStaging, Fail, Abort
  <2>2. \A pc : task' = [IdleTask EXCEPT !.pc = pc] => TypedTask'
    BY DEF TypedTask, IdleTask
  <2>3. \A pc : \A d : task' = [IdleTask EXCEPT !.pc = pc, !.d = d] => TypedTask'
    BY DEF TypedTask, IdleTask
  <2> QED
    BY <1>3, <2>1, <2>2, <2>3
<1>9. CASE Stage \/ ApplyEntry \/ RecordEvidence \/ RecordOutcome \/ Complete
  BY <1>3, <1>4, <1>9 DEF Stage, ApplyEntry, RecordEvidence, RecordOutcome, Complete
<1>10. CASE ApplyCreate
  BY <1>5, <1>10 DEF ApplyCreate
<1>11. CASE ThreeWay \/ FencedUpdate \/ FencedRename
  <2>1. task.pc \in Applying \ {"validate", "tidy"}
    BY <1>11 DEF ThreeWay, FencedUpdate, FencedRename, Applying
  <2>2. /\ File(path.local) \in Slots /\ Pre(gen) \in Slots
        /\ versions[gen + 1] # Absent => File(versions[gen + 1]) \in Slots
    BY <2>1, AtEntry
  <2>3. Known(disk[File(path.local)]) /\ Known(disk[Pre(gen)])
    BY <1>1, <2>2
  <2>4. CASE ThreeWay
    <3>1. CASE task.pc = "three-way"
      BY <1>4, <1>5, <1>6, <1>7, <2>3, <2>4, <3>1 DEF ThreeWay
    <3>2. CASE task.pc # "three-way"
      BY <1>2, <1>4, <1>5, <1>7, <2>4, <3>2 DEF ThreeWay, TryMove
    <3> QED
      BY <3>1, <3>2
  <2>5. CASE FencedUpdate
    BY <1>2, <1>3, <1>4, <1>5, <1>7, <2>5 DEF FencedUpdate, TryMove, TryUnlink
  <2>6. CASE FencedRename
    <3>1. Known(disk[File(versions[gen + 1])])
      BY <1>1, <2>1, <2>2, <2>6 DEF FencedRename, Inv, TaskOK, Renaming
    <3> QED
      <4>1. CASE task.pc \in {"rename", "rename-move"}
        <5>1. ASSUME NEW s, Known(s), task' = [task EXCEPT !.pc = "rename-verify", !.seen = s]
              PROVE  TypedTask'
          BY <5>1 DEF TypedTask, Tasks
        <5> QED
          BY <1>2, <1>3, <1>4, <1>5, <1>7, <2>6, <3>1, <4>1, <5>1 DEF FencedRename, TryMove
      <4>2. CASE task.pc \in {"rename-verify", "rename-undo", "rename-place"}
        BY <1>2, <1>3, <1>4, <1>5, <1>6, <1>7, <2>6, <3>1, <4>2 DEF FencedRename, TryMove
      <4> QED
        BY <2>6, <4>1, <4>2 DEF FencedRename
  <2> QED
    BY <1>11, <2>4, <2>5, <2>6
<1>12. CASE Recover
  <2>1. task.pc \in Reviewing
    BY <1>12 DEF Recover, Review, Restore, Retain, ResolveEvidence, Reviewing
  <2>2. Known(disk[Pre(task.d)]) /\ task.d \in Nat
    BY <1>1, <2>1, AtReview
  <2>3. CASE Restore \/ Retain
    <3>1. \A v : task' = [task EXCEPT !.pc = "manifest", !.visible = v] => TypedTask'
      BY DEF TypedTask, Tasks
    <3> QED
      BY <1>3, <1>4, <1>7, <2>2, <2>3, <3>1 DEF Restore, Retain, TryMove, TryUnlink
  <2>4. ASSUME NEW v, NEW m, NEW pc,
               task' = [task EXCEPT !.seen = disk[Pre(task.d)], !.visible = v, !.marks = m, !.pc = pc]
        PROVE  TypedTask'
    <3>1. task'.seen = disk[Pre(task.d)] /\ task'.fence = task.fence
      BY <2>4 DEF Tasks
    <3> QED
      BY <2>2, <3>1 DEF TypedTask
  <2>8. \A v, f : RecordChanged(disk[Pre(task.d)], v, f) => TypedTask'
    BY <2>4 DEF RecordChanged
  <2>5. \A v, f : task' = [task EXCEPT !.pc = "resolve", !.seen = disk[Pre(task.d)], !.visible = v, !.chosen = f]
                  => TypedTask'
    BY <2>2 DEF TypedTask, Tasks
  <2>6. CASE ResolveEvidence
    BY <1>3, <1>7, <2>2, <2>6, <2>8 DEF ResolveEvidence
  <2>7. CASE Review
    <3> DEFINE d == task.d
               row == evidence[d]
               pre == disk[Pre(d)]
    <3>1. \/ Fail \/ NextReview(d)
          \/ \E v, f : RecordChanged(pre, v, f)
          \/ \E pc : Goto(pc)
          \/ \E v, f : task' = [task EXCEPT !.pc = "resolve", !.seen = pre, !.visible = v, !.chosen = f]
          \/ \E v, m, pc : task' = [task EXCEPT !.seen = pre, !.visible = v, !.marks = m, !.pc = pc]
      <4>1. CASE row.resolved \/ (~ row.resolved /\ pre = Missing)
        BY <2>7, <4>1 DEF Review
      <4>2. CASE ~ row.resolved /\ pre # Missing /\ row.visible # Missing
        BY <2>7, <4>2 DEF Review
      <4>3. CASE ~ row.resolved /\ pre # Missing /\ row.visible = Missing
        <5>1. PICK pc : \/ NextReview(d)
                        \/ task' = [task EXCEPT !.seen = pre, !.visible = disk[Snap(d)],
                                                !.marks = TRUE, !.pc = pc]
          BY <2>7, <4>3 DEF Review
        <5> QED
          BY <5>1
      <4> QED
        BY <4>1, <4>2, <4>3
    <3> QED
      BY <1>3, <1>4, <1>7, <2>2, <2>4, <2>5, <2>8, <3>1
  <2> QED
    BY <1>12, <2>3, <2>6, <2>7 DEF Recover
<1> QED
  BY <1>8, <1>9, <1>10, <1>11, <1>12 DEF Sync, Apply, Recover

\* What a step of a sync writes to a row.
RowStep ==
    \/ evidence' = evidence
    \/ \E d \in Deltas : evidence' = [evidence EXCEPT ![d] = NoRow]
    \/ \E d \in Deltas : evidence' = [evidence EXCEPT ![d].resolved = TRUE]
    \/ \E d \in Deltas, v \in Texts : evidence' = [evidence EXCEPT ![d].captured = task.seen, ![d].visible = v]
    \/ \E d \in Deltas, row \in Rows :
         row.captured = task.fence /\ evidence' = [evidence EXCEPT ![d] = row]

LEMMA SyncRowStep ==
    ASSUME Inv, Sync
    PROVE  RowStep
<1>1. CASE Start \/ Validate \/ Stage \/ ApplyEntry \/ RecordOutcome \/ Complete \/ Tidy
          \/ ApplyCreate \/ ThreeWay \/ FencedUpdate \/ FencedRename
  BY <1>1 DEF Start, Begin, Validate, Stage, ApplyEntry, RecordOutcome, Complete, Tidy, ApplyCreate,
     ThreeWay, FencedUpdate, FencedRename, ReconcileStaging, Fail, NoStoreChange, store, RowStep
<1>2. CASE RecordEvidence
  <2> DEFINE row == [NoRow EXCEPT !.kept = TRUE, !.captured = task.fence,
                                  !.payload = path.payload, !.name = path.local]
  <2>1. gen \in Deltas
    BY <1>2, AtEntry DEF RecordEvidence, Applying
  <2>2. row \in Rows /\ row.captured = task.fence
    BY GenerationAssumption, TextsAreTexts DEF Inv, StoreOK, Paths, Tasks, Rows, NoRow
  <2>3. evidence' = evidence \/ evidence' = [evidence EXCEPT ![gen] = row]
    BY <1>2 DEF RecordEvidence
  <2> QED
    BY <2>1, <2>2, <2>3 DEF RowStep
<1>3. CASE Recover
  <2>1. task.pc \in Reviewing
    BY <1>3 DEF Recover, Review, Restore, Retain, ResolveEvidence, Reviewing
  <2>2. task.d \in Deltas /\ Missing \in Texts /\ task.visible \in Texts
    BY <2>1, AtReview, TextsAreTexts DEF Inv, Tasks
  <2>3. \/ evidence' = evidence
        \/ evidence' = [evidence EXCEPT ![task.d] = NoRow]
        \/ evidence' = [evidence EXCEPT ![task.d].resolved = TRUE]
        \/ \E v \in {Missing, task.visible} :
             evidence' = [evidence EXCEPT ![task.d].captured = task.seen, ![task.d].visible = v]
    <3>1. CASE Review
      <4>1. evidence' = evidence \/ evidence' = [evidence EXCEPT ![task.d] = NoRow]
        <5>1. CASE evidence[task.d].resolved \/ disk[Pre(task.d)] = Missing
          BY <3>1, <5>1 DEF Review, Fail, NoStoreChange, store
        <5>2. CASE ~ evidence[task.d].resolved /\ disk[Pre(task.d)] # Missing
          <6>1. NoStoreChange
            BY <3>1, <5>2 DEF Review, Fail
          <6> QED
            BY <6>1 DEF NoStoreChange, store
        <5> QED
          BY <5>1, <5>2
      <4> QED
        BY <4>1
    <3>2. CASE Restore
      BY <3>2 DEF Restore, Fail, NoStoreChange, store, MarkConflict
    <3>3. CASE Retain
      BY <3>3 DEF Retain, NoStoreChange, store, MarkConflict
    <3>4. CASE ResolveEvidence
      BY <3>4 DEF ResolveEvidence, Fail, NoStoreChange, store, MarkResolved
    <3> QED
      BY <1>3, <3>1, <3>2, <3>3, <3>4 DEF Recover
  <2> QED
    BY <2>2, <2>3 DEF RowStep
<1> QED
  BY <1>1, <1>2, <1>3 DEF Sync, Apply

LEMMA NextTypedOnly == Inv /\ NameInv /\ TypedOnly /\ [Next]_vars => TypedOnly'
<1> SUFFICES ASSUME Inv, NameInv, TypedOnly, [Next]_vars
             PROVE  TypedOnly'
  OBVIOUS
<1>1. CASE Sync
  <2>1. TypedFiles' /\ typed' = typed
    BY <1>1, SyncTypedStep, TypedStepKeeps DEF Inv, TypedOnly, TypedFiles
  <2>2. TypedTask'
    BY <1>1, <2>1, SyncTypedTask
  <2>3. TypedRows'
    <3>1. evidence \in [Deltas -> Rows] /\ NoRow.captured = Missing /\ Missing.edits = {}
          /\ task.seen.edits \subseteq typed /\ task.fence.edits \subseteq typed
          /\ \A d \in Deltas : evidence[d].captured.edits \subseteq typed
      BY TextFields DEF Inv, StoreOK, NoRow, TypedOnly
    <3>2. CASE evidence' = evidence
      BY <2>1, <3>1, <3>2 DEF TypedRows
    <3>3. ASSUME NEW d \in Deltas, evidence' = [evidence EXCEPT ![d] = NoRow]
          PROVE  TypedRows'
      BY <2>1, <3>1, <3>3 DEF TypedRows
    <3>4. ASSUME NEW d \in Deltas, evidence' = [evidence EXCEPT ![d].resolved = TRUE]
          PROVE  TypedRows'
      BY <2>1, <3>1, <3>4 DEF TypedRows, Rows
    <3>5. ASSUME NEW d \in Deltas, NEW v \in Texts,
                 evidence' = [evidence EXCEPT ![d].captured = task.seen, ![d].visible = v]
          PROVE  TypedRows'
      BY <2>1, <3>1, <3>5 DEF TypedRows, Rows
    <3>6. ASSUME NEW d \in Deltas, NEW row \in Rows, row.captured = task.fence,
                 evidence' = [evidence EXCEPT ![d] = row]
          PROVE  TypedRows'
      BY <2>1, <3>1, <3>6 DEF TypedRows
    <3> QED
      BY <1>1, <3>2, <3>3, <3>4, <3>5, <3>6, SyncRowStep DEF RowStep
  <2> QED
    BY <2>1, <2>2, <2>3 DEF TypedOnly, TypedFiles, TypedTask, TypedRows
<1>2. CASE User
  BY <1>2, UserSlips
<1>3. CASE Publish
  BY <1>3 DEF Publish, user, store, TypedOnly
<1>4. CASE Crash
  <2>1. task'.seen = Missing /\ task'.fence = Missing
    BY <1>4 DEF Crash, IdleTask
  <2> QED
    BY <1>4, <2>1, TextFields DEF Crash, user, store, TypedOnly
<1>5. CASE UNCHANGED vars
  BY <1>5 DEF vars, user, store, TypedOnly
<1> QED
  BY <1>1, <1>2, <1>3, <1>4, <1>5 DEF Next

LEMMA NextBaseBehind == Inv /\ BaseBehind /\ [Next]_vars => BaseBehind'
<1> SUFFICES ASSUME Inv, BaseBehind, [Next]_vars
             PROVE  BaseBehind'
  OBVIOUS
<1>1. gen \in Nat /\ path.base \in Nat
  BY GenerationAssumption DEF Inv, StoreOK, Paths
<1>2. CASE UNCHANGED <<gen, path>>
  BY <1>2 DEF BaseBehind
<1>3. CASE UNCHANGED store
  BY <1>2, <1>3 DEF store
<1>4. CASE Complete
  <2>1. path'.base \in {path.base, 0, gen + 1} /\ gen' = gen + 1
    <3>1. path'.base \in {Accepted("clean").base, Untracked.base, Conflicted.base}
      BY <1>4 DEF Complete, Accepted
    <3>2. Conflicted.base \in {path.base, 0}
      BY DEF Conflicted, Untracked, Inv, StoreOK, Paths
    <3> QED
      BY <1>4, <3>1, <3>2 DEF Complete, Accepted, Untracked
  <2> QED
    BY <1>1, <2>1 DEF BaseBehind
<1>5. ASSUME task.pc \in Reviewing, NEW seen, NEW visible, MarkConflict(task.d, seen, visible), gen' = gen
      PROVE  BaseBehind'
  BY <1>1, <1>5, AtReview DEF MarkConflict, BaseBehind
<1>6. ASSUME task.pc \in Reviewing, MarkResolved(task.d), gen' = gen
      PROVE  BaseBehind'
  BY <1>1, <1>6, AtReview DEF MarkResolved, BaseBehind
<1>7. CASE Start \/ Validate \/ Stage \/ ApplyEntry \/ RecordEvidence \/ RecordOutcome \/ Tidy
          \/ ApplyCreate \/ ThreeWay \/ FencedUpdate \/ FencedRename
  <2>1. UNCHANGED <<gen, path>>
    BY <1>7 DEF Start, Begin, Validate, Stage, ApplyEntry, RecordEvidence, RecordOutcome, Tidy, ApplyCreate,
       ThreeWay, FencedUpdate, FencedRename, ReconcileStaging, Fail, NoStoreChange, store
  <2> QED
    BY <1>2, <2>1
<1>8. CASE Recover
  <2>1. task.pc \in Reviewing
    BY <1>8 DEF Recover, Review, Restore, Retain, ResolveEvidence, Reviewing
  <2>2. CASE Review
    <3>1. UNCHANGED <<gen, path>>
      BY <2>2 DEF Review, Fail, NoStoreChange, store
    <3> QED
      BY <1>2, <3>1
  <2>3. CASE Restore \/ Retain \/ ResolveEvidence
    BY <1>2, <1>5, <1>6, <2>1, <2>3 DEF Restore, Retain, ResolveEvidence, Fail, NoStoreChange, store
  <2> QED
    BY <1>8, <2>2, <2>3 DEF Recover
<1>9. CASE User \/ Publish \/ Crash \/ UNCHANGED vars
  <2>1. UNCHANGED store
    BY <1>9 DEF User, Open, Close, Type, Create, Remove, Resolve, Publish, Crash, vars, store
  <2> QED
    BY <1>3, <2>1
<1> QED
  BY <1>4, <1>7, <1>8, <1>9 DEF Next, Sync, Apply

-----------------------------------------------------------------------------
(* Visible snapshots *)

SnapRows ==
    \A d \in Deltas : Exists(Snap(d)) =>
      evidence[d].kept /\ (evidence[d].visible = Missing => Changed(d))
SnapPcs ==
    /\ task.pc \in {"retain", "unrestore", "restore"} => Exists(Pre(task.d)) /\ Changed(task.d)
    /\ task.pc \in {"published", "manifest", "clear"} =>
         Exists(Snap(task.d)) /\ (task.marks => task.visible # Missing)
    /\ task.pc = "mark" => task.visible # Missing
    /\ task.pc = "review" => ~ task.marks

LEMMA SnapsParts == SnapsOK <=> SnapRows /\ SnapPcs
  BY DEF SnapsOK, SnapRows, SnapPcs

LEMMA QuietSnapPcs ==
    task'.pc \notin {"retain", "unrestore", "restore", "published", "manifest", "clear", "mark", "review"}
    => SnapPcs'
  BY DEF SnapPcs

LEMMA NextReviewSnapPcs == task \in Tasks => \A d \in Nat : NextReview(d) => SnapPcs'
<1> SUFFICES ASSUME task \in Tasks, NEW d \in Nat, NextReview(d)
             PROVE  SnapPcs'
  OBVIOUS
<1>1. task'.marks = FALSE /\ task'.pc \in {"validate", "review"}
  BY TaskFields
<1> QED
  BY <1>1 DEF SnapPcs

\* Rows whose retained inodes stay as they are.
LEMMA SnapRowsKept ==
    ASSUME SnapRows, evidence' = evidence,
           \A d \in Deltas : Exists(Snap(d))' =>
             /\ Exists(Snap(d))
             /\ disk'[Pre(d)] = disk[Pre(d)]
    PROVE  SnapRows'
  BY DEF SnapRows, Changed, Exists

\* While an entry is applied, its own preimage is the only inode that comes or goes.
LEMMA EntryRetained ==
    ASSUME Inv, NameInv, ApplyCreate \/ ThreeWay \/ FencedUpdate \/ FencedRename
    PROVE  /\ gen \in Deltas /\ task \in Tasks
           /\ \A s \in Retained \ {Pre(gen)} : disk'[s] = disk[s]
<1>1. task.pc \in Entering
  BY DEF ApplyCreate, ThreeWay, FencedUpdate, FencedRename, Entering, InPlace, Fenced, Renaming
<1>2. /\ gen \in Deltas /\ task \in Tasks /\ FilesOK /\ path.local \in Names
      /\ versions[gen + 1] # Absent => versions[gen + 1] \in Names
  BY <1>1, AtEntering
<1>3. File(path.local) \in Slots \ Retained /\ Pre(gen) \in Slots /\ Retained \subseteq Slots
      /\ (versions[gen + 1] # Absent => File(versions[gen + 1]) \in Slots \ Retained)
  BY <1>2, FilesAreNotRetained
<1> DEFINE Kept == \A s \in Retained \ {Pre(gen)} : disk'[s] = disk[s]
<1>4. NoFileChange \/ Abort \/ Fail => Kept
  BY DEF NoFileChange, Abort, Fail
<1>5. \A f \in Slots \ Retained :
        /\ \A t : Put(f, t) => Kept
        /\ Unlink(f) => Kept
        /\ Move(f, Pre(gen)) => Kept
        /\ Move(Pre(gen), f) => Kept
  BY <1>2, <1>3 DEF FilesOK, Put, Unlink, Move
<1>6. CASE ApplyCreate
  <2>1. versions[gen + 1] # Absent
    BY <1>1, <1>6, AtEntry, AtEntering DEF ApplyCreate, Inv, TaskOK
  <2> QED
    BY <1>2, <1>3, <1>4, <1>5, <1>6, <2>1 DEF ApplyCreate
<1>7. CASE ThreeWay
  BY <1>2, <1>3, <1>4, <1>5, <1>7 DEF ThreeWay, TryMove
<1>8. CASE FencedUpdate
  BY <1>2, <1>3, <1>4, <1>5, <1>8 DEF FencedUpdate, TryMove, TryUnlink
<1>9. CASE FencedRename
  <2>1. versions[gen + 1] # Absent
    BY <1>9 DEF FencedRename, Inv, TaskOK, Renaming
  <2> QED
    BY <1>2, <1>3, <1>4, <1>5, <1>9, <2>1 DEF FencedRename, TryMove
<1> QED
  BY <1>2, <1>6, <1>7, <1>8, <1>9

LEMMA EntrySnaps ==
    ASSUME Inv, NameInv, SnapsOK, ApplyCreate \/ ThreeWay \/ FencedUpdate \/ FencedRename
    PROVE  SnapsOK'
<1>1. /\ gen \in Deltas /\ task \in Tasks
      /\ \A s \in Retained \ {Pre(gen)} : disk'[s] = disk[s]
  BY EntryRetained
<1>2. evidence' = evidence
  BY DEF ApplyCreate, ThreeWay, FencedUpdate, FencedRename, Fail, NoStoreChange, store
<1>3. SnapRows'
  <2> SUFFICES ASSUME NEW d \in Deltas, Exists(Snap(d))'
               PROVE  Exists(Snap(d)) /\ disk'[Pre(d)] = disk[Pre(d)]
    BY <1>2, SnapRowsKept, SnapsParts
  <2>1. Snap(d) \in Retained /\ Snap(d) # Pre(gen) /\ Pre(d) \in Retained
    BY FilesAreNotRetained, SlotsAreSlots
  <2>2. Exists(Snap(d))
    BY <1>1, <2>1 DEF Exists
  <2>3. Pre(d) # Pre(gen)
    BY <1>1, <2>2, RetainedApart DEF NameInv, RetainedOK, Deltas
  <2> QED
    BY <1>1, <2>1, <2>2, <2>3
<1>4. SnapPcs'
  <2>1. \A pc \in {"idle", "fence", "record"} \cup InPlace \cup Fenced \cup Renaming :
          task'.pc = pc => SnapPcs'
    BY QuietSnapPcs DEF InPlace, Fenced, Renaming
  <2>2. \A pc \in InPlace \cup Fenced \cup Renaming : Goto(pc) => SnapPcs'
    BY <1>1, <2>1, TaskFields
  <2>3. \A result, fence : Finish(result, fence) => SnapPcs'
    BY <1>1, <2>1, TaskFields
  <2>4. \A pc \in InPlace \cup Renaming : \A seen :
          task' = [task EXCEPT !.seen = seen, !.pc = pc] \/ task' = [task EXCEPT !.pc = pc, !.seen = seen]
          => task'.pc = pc
    BY <1>1 DEF Tasks
  <2>5. \A pc \in InPlace \cup Renaming : \A seen :
          task' = [task EXCEPT !.seen = seen, !.pc = pc] \/ task' = [task EXCEPT !.pc = pc, !.seen = seen]
          => SnapPcs'
    BY <2>1, <2>4
  <2>6. task' = IdleTask => SnapPcs'
    BY <2>1 DEF IdleTask
  <2>7. Fail \/ Abort => SnapPcs'
    BY <2>6 DEF Fail, Abort
  <2>8. CASE ApplyCreate
    BY <2>3, <2>8 DEF ApplyCreate
  <2>9. CASE ThreeWay
    BY <2>2, <2>3, <2>5, <2>7, <2>9 DEF ThreeWay, TryMove, InPlace, Fenced
  <2>10. CASE FencedUpdate
    BY <2>2, <2>3, <2>6, <2>7, <2>10 DEF FencedUpdate, TryMove, TryUnlink, Fenced
  <2>11. CASE FencedRename
    <3>1. CASE task.pc \in {"rename", "rename-move"}
      BY <2>2, <2>3, <2>5, <2>7, <2>11, <3>1 DEF FencedRename, TryMove, Renaming
    <3>2. CASE task.pc \in {"rename-verify", "rename-undo", "rename-place"}
      BY <2>2, <2>3, <2>7, <2>11, <3>2 DEF FencedRename, TryMove, Renaming
    <3> QED
      BY <2>11, <3>1, <3>2 DEF FencedRename
  <2> QED
    BY <2>8, <2>9, <2>10, <2>11
<1> QED
  BY <1>3, <1>4, SnapsParts DEF SnapsOK, SnapRows, SnapPcs

LEMMA LifeSnaps ==
    ASSUME Inv, NameInv, SnapsOK,
           Start \/ Validate \/ Stage \/ ApplyEntry \/ RecordEvidence \/ RecordOutcome \/ Complete \/ Tidy
    PROVE  SnapsOK'
<1>1. disk' = disk /\ task \in Tasks
  BY DEF Start, Begin, Validate, Stage, ApplyEntry, RecordEvidence, RecordOutcome, Complete, Tidy,
         ReconcileStaging, Fail, Abort, NoFileChange, Inv
<1>2. SnapRows'
  <2>1. CASE evidence' = evidence
    BY <1>1, <2>1, SnapRowsKept, SnapsParts DEF Exists
  <2>2. CASE RecordEvidence
    <3>1. gen \in Deltas
      BY <2>2, AtEntry DEF RecordEvidence, Applying
    <3>2. ~ Exists(Snap(gen)) /\ \A d \in Deltas : d # gen => evidence'[d] = evidence[d]
      BY <2>2, <3>1 DEF RecordEvidence, Inv, StoreOK, NameInv, RetainedOK
    <3> QED
      BY <1>1, <3>1, <3>2, SnapsParts DEF SnapRows, Exists, Changed
  <2> QED
    BY <2>1, <2>2 DEF Start, Begin, Validate, Stage, ApplyEntry, RecordOutcome, Complete, Tidy,
       ReconcileStaging, Fail, NoStoreChange, store
<1>3. SnapPcs'
  <2>1. \A pc \in {"idle", "stage", "apply", "complete", "create", "rename", "three-way", "fenced",
                   "record", "tidy"} : task'.pc = pc => SnapPcs'
    BY QuietSnapPcs
  <2>2. \A pc \in {"apply", "complete", "create", "rename", "three-way", "fenced", "record", "tidy"} :
          Goto(pc) => SnapPcs'
    BY <1>1, <2>1, TaskFields
  <2>3. task' = IdleTask \/ task' = [IdleTask EXCEPT !.pc = "idle"]
        \/ task' = [IdleTask EXCEPT !.pc = "stage", !.d = gen] => SnapPcs'
    <3>1. task' = IdleTask \/ task' = [IdleTask EXCEPT !.pc = "idle"] => task'.pc = "idle"
      BY DEF IdleTask
    <3>2. task' = [IdleTask EXCEPT !.pc = "stage", !.d = gen] => task'.pc = "stage"
      BY DEF IdleTask
    <3> QED
      BY <2>1, <3>1, <3>2
  <2>4. CASE Start
    BY <1>1, <2>1, <2>4, NextReviewSnapPcs DEF Start, Begin
  <2>5. CASE Validate \/ Tidy
    BY <2>3, <2>5 DEF Validate, Tidy, ReconcileStaging, Fail, Abort
  <2>6. CASE Stage \/ ApplyEntry \/ RecordEvidence \/ RecordOutcome \/ Complete
    BY <2>2, <2>3, <2>6 DEF Stage, ApplyEntry, RecordEvidence, RecordOutcome, Complete
  <2> QED
    BY <2>4, <2>5, <2>6
<1> QED
  BY <1>2, <1>3, SnapsParts DEF SnapsOK, SnapRows, SnapPcs

\* A row that goes with its inodes.
LEMMA DropSnaps ==
    ASSUME Inv, SnapRows, disk' = disk, NEW d \in Deltas, ~ Exists(Snap(d)),
           evidence' = [evidence EXCEPT ![d] = NoRow]
    PROVE  SnapRows'
  BY DEF SnapRows, Changed, Exists, Inv, StoreOK

LEMMA MarkSnaps ==
    ASSUME Inv, SnapRows, disk' = disk, NEW d \in Deltas, NEW seen, NEW visible,
           MarkConflict(d, seen, visible), visible # Missing \/ ~ Exists(Snap(d))
    PROVE  SnapRows'
<1>1. evidence' = [evidence EXCEPT ![d].captured = seen, ![d].visible = visible]
  BY DEF MarkConflict
<1>2. \A c \in Deltas : /\ c # d => evidence'[c] = evidence[c]
                        /\ evidence'[c].kept = evidence[c].kept
                        /\ c = d => evidence'[c].visible = visible
  BY <1>1 DEF Inv, StoreOK, Rows
<1> QED
  BY <1>2 DEF SnapRows, Changed, Exists

LEMMA ReviewSnaps ==
    ASSUME Inv, NameInv, SnapsOK, Review \/ ResolveEvidence
    PROVE  SnapsOK'
<1> DEFINE d == task.d
           row == evidence[d]
           pre == disk[Pre(d)]
           snap == disk[Snap(d)]
           file == disk[Target(d)]
<1>1. disk' = disk /\ task \in Tasks /\ task.pc \in Reviewing
  BY DEF Review, ResolveEvidence, Fail, Abort, NoFileChange, Inv, Reviewing
<1>2. /\ d \in Deltas /\ d \in Nat /\ Target(d) = File(row.name) /\ evidence[d].kept
  BY <1>1, AtReview
<1>3. CASE evidence' = evidence /\ SnapPcs'
  BY <1>1, <1>3, SnapRowsKept, SnapsParts DEF Exists, SnapsOK, SnapRows, SnapPcs
<1>4. NoStoreChange => evidence' = evidence
  BY DEF NoStoreChange, store
<1>5. CASE Fail \/ (NextReview(d) /\ NoStoreChange)
  <2>1. SnapPcs'
    BY <1>1, <1>2, <1>5, QuietSnapPcs, NextReviewSnapPcs DEF Fail, Abort, IdleTask
  <2> QED
    BY <1>3, <1>4, <1>5, <2>1 DEF Fail
<1>6. CASE snap # Missing /\ RecordChanged(pre, snap, file) /\ NoStoreChange
  <2>1. /\ task'.pc \in {"manifest", "clear", "mark"} /\ task'.d = d /\ task'.visible = snap
    BY <1>1, <1>6 DEF RecordChanged, Tasks
  <2>2. Exists(Snap(task.d))' = Exists(Snap(d))
    BY <1>1, <2>1 DEF Exists
  <2>3. SnapPcs'
    BY <1>6, <2>1, <2>2 DEF SnapPcs, Exists
  <2> QED
    BY <1>3, <1>4, <1>6, <2>3
<1>7. CASE Review
  <2>1. CASE /\ pre = Missing
             /\ evidence' = [evidence EXCEPT ![d] = NoRow]
             /\ NextReview(d) /\ UNCHANGED <<gen, path, active, outcomes, payloads>>
    <3>1. ~ Exists(Snap(d))
      BY <1>2, <2>1 DEF Exists, NameInv, RetainedOK
    <3>2. PICK c \in Deltas : c = d
      BY <1>2
    <3>3. SnapRows'
      BY <1>1, <2>1, <3>1, <3>2, DropSnaps, SnapsParts
    <3>4. SnapPcs'
      BY <1>1, <1>2, <2>1, NextReviewSnapPcs
    <3> QED
      BY <3>3, <3>4 DEF SnapsOK, SnapRows, SnapPcs
  <2>2. CASE /\ pre # Missing /\ NoStoreChange
             /\ \E pc \in {"manifest", "restore", "unrestore", "retain"} :
                  /\ pc = "manifest" <=> snap # Missing
                  /\ pc # "manifest" => pre # row.captured
                  /\ task' = [task EXCEPT !.seen = pre, !.visible = snap, !.marks = TRUE, !.pc = pc]
    <3>1. PICK pc \in {"manifest", "restore", "unrestore", "retain"} :
            /\ pc = "manifest" <=> snap # Missing
            /\ pc # "manifest" => pre # row.captured
            /\ task' = [task EXCEPT !.seen = pre, !.visible = snap, !.marks = TRUE, !.pc = pc]
      BY <2>2
    <3>2. task'.pc = pc /\ task'.d = d /\ task'.visible = snap
      BY <1>1, <3>1 DEF Tasks
    <3>3. /\ Exists(Snap(task.d))' = Exists(Snap(d)) /\ Exists(Pre(task.d))' = Exists(Pre(d))
          /\ Changed(task.d)' = Changed(d)
      BY <1>1, <1>4, <2>2, <3>2 DEF Exists, Changed
    <3>4. SnapPcs'
      BY <1>2, <2>2, <3>1, <3>2, <3>3 DEF SnapPcs, Exists, Changed
    <3> QED
      BY <1>3, <1>4, <2>2, <3>4
  <2>3. CASE snap # Missing /\ Goto("manifest") /\ NoStoreChange
    <3>1. task'.pc = "manifest" /\ task'.d = d /\ task'.marks = FALSE
      <4>1. task.marks = FALSE
        BY <1>1, <1>7, SnapsParts DEF Review, SnapPcs, Tasks
      <4> QED
        BY <1>1, <2>3, <4>1 DEF Goto, Tasks
    <3>2. Exists(Snap(task.d))' = Exists(Snap(d))
      BY <1>1, <3>1 DEF Exists
    <3>3. SnapPcs'
      BY <2>3, <3>1, <3>2 DEF SnapPcs, Exists
    <3> QED
      BY <1>3, <1>4, <2>3, <3>3
  <2>4. CASE task' = [task EXCEPT !.pc = "resolve", !.seen = pre, !.visible = snap, !.chosen = file]
             /\ NoStoreChange
    <3>1. task'.pc = "resolve"
      BY <1>1, <2>4 DEF Tasks
    <3> QED
      BY <1>3, <1>4, <2>4, <3>1, QuietSnapPcs
  <2>5. CASE row.resolved
    BY <1>5, <1>7, <2>5 DEF Review
  <2>6. CASE ~ row.resolved /\ pre = Missing
    BY <1>5, <1>7, <2>1, <2>6 DEF Review
  <2>7. CASE ~ row.resolved /\ pre # Missing /\ row.visible # Missing
    BY <1>2, <1>5, <1>6, <1>7, <2>3, <2>4, <2>7 DEF Review
  <2>8. CASE ~ row.resolved /\ pre # Missing /\ row.visible = Missing
    <3>1. \/ NextReview(d) /\ NoStoreChange
          \/ /\ task' = [task EXCEPT !.seen = pre, !.visible = snap, !.marks = TRUE,
                                    !.pc = IF snap # Missing THEN "manifest"
                                           ELSE IF disk[File(row.name)] = Missing THEN "restore"
                                           ELSE IF disk[File(row.name)] = New(d) THEN "unrestore"
                                           ELSE "retain"]
             /\ NoStoreChange
             /\ ~ (pre = row.captured /\ snap = Missing)
      BY <1>7, <2>8 DEF Review
    <3> QED
      BY <1>5, <2>2, <2>8, <3>1
  <2> QED
    BY <2>5, <2>6, <2>7, <2>8
<1>8. CASE ResolveEvidence
  <2>1. CASE Fail
    BY <1>5, <2>1
  <2>2. CASE Missing \notin {file, pre, snap} /\ RecordChanged(pre, snap, file) /\ NoStoreChange
    BY <1>6, <2>2
  <2>3. CASE MarkResolved(d) /\ NextReview(d)
    <3>1. evidence' = [evidence EXCEPT ![d].resolved = TRUE]
      BY <2>3 DEF MarkResolved
    <3>2. \A c \in Deltas : /\ evidence'[c].kept = evidence[c].kept
                            /\ evidence'[c].visible = evidence[c].visible
                            /\ evidence'[c].captured = evidence[c].captured
      BY <3>1 DEF Inv, StoreOK, Rows
    <3>3. SnapRows'
      BY <1>1, <3>2, SnapsParts DEF SnapRows, Changed, Exists
    <3> QED
      BY <1>1, <1>2, <2>3, <3>3, NextReviewSnapPcs DEF SnapsOK, SnapRows, SnapPcs
  <2> QED
    BY <1>8, <2>1, <2>2, <2>3 DEF ResolveEvidence
<1> QED
  BY <1>7, <1>8

LEMMA RestoreSnaps ==
    ASSUME Inv, NameInv, SnapsOK, Restore
    PROVE  SnapsOK'
<1>1. task.pc \in Reviewing /\ task \in Tasks /\ FilesOK
  BY DEF Restore, Inv, Reviewing
<1>2. PICK c \in Deltas : c = task.d
  BY <1>1, AtReview
<1>3. PICK f \in Slots \ Retained : f = Target(task.d)
  BY <1>1, AtReview, FilesAreNotRetained DEF Rows
<1>4. /\ Pre(c) \in Retained /\ Snap(c) \in Retained /\ c \in Nat /\ Pre(c) \in Slots
      /\ \A b \in Deltas : Snap(b) # Pre(c) /\ Snap(b) \in Retained /\ Pre(b) \in Retained
  BY <1>1, <1>2, AtReview, FilesAreNotRetained, SlotsAreSlots
<1>5. ~ Exists(Snap(c)) \/ task.pc \notin {"restore", "unrestore", "restored", "drop"}
  BY <1>2 DEF NameInv, StepOK
<1>6. NoStoreChange => evidence' = evidence
  BY DEF NoStoreChange, store
<1>7. CASE Fail \/ (Abort /\ NoStoreChange)
  <2>1. SnapPcs' /\ disk' = disk /\ evidence' = evidence
    BY <1>1, <1>6, <1>7, QuietSnapPcs DEF Fail, Abort, IdleTask, NoFileChange
  <2> QED
    BY <2>1, SnapRowsKept, SnapsParts DEF Exists, SnapsOK, SnapRows, SnapPcs
<1>8. CASE task.pc = "unrestore" /\ Unlink(f) /\ Goto("restore") /\ NoStoreChange
  <2>1. \A s \in Retained : disk'[s] = disk[s]
    BY <1>1, <1>3, <1>8, FilesAreNotRetained DEF Unlink, FilesOK
  <2>2. SnapRows'
    BY <1>4, <1>6, <1>8, <2>1, SnapRowsKept, SnapsParts DEF Exists
  <2>3. task'.pc = "restore" /\ task'.d = c
    BY <1>1, <1>2, <1>8 DEF Goto, Tasks
  <2>4. Exists(Pre(c)) /\ Changed(c)
    BY <1>2, <1>8, SnapsParts DEF SnapPcs
  <2>5. Exists(Pre(task.d))' /\ Changed(task.d)'
    BY <1>4, <1>6, <1>8, <2>1, <2>3, <2>4 DEF Exists, Changed
  <2> QED
    BY <2>2, <2>3, <2>5, SnapsParts DEF SnapPcs, SnapsOK, SnapRows
<1>9. CASE task.pc = "restore" /\ Move(Pre(c), f) /\ Goto("restored") /\ NoStoreChange
  <2>1. \A s \in Retained \ {Pre(c)} : disk'[s] = disk[s]
    BY <1>1, <1>3, <1>4, <1>9, FilesAreNotRetained DEF Move, FilesOK
  <2>2. SnapRows'
    <3> SUFFICES ASSUME NEW d \in Deltas, Exists(Snap(d))'
                 PROVE  Exists(Snap(d)) /\ disk'[Pre(d)] = disk[Pre(d)]
      BY <1>6, <1>9, SnapRowsKept, SnapsParts
    <3>1. Exists(Snap(d)) /\ d # c
      BY <1>4, <1>5, <1>9, <2>1 DEF Exists
    <3> QED
      BY <1>4, <2>1, <3>1, RetainedApart
  <2>3. task'.pc = "restored"
    BY <1>1, <1>9 DEF Goto, Tasks
  <2> QED
    BY <2>2, <2>3, QuietSnapPcs, SnapsParts DEF SnapPcs, SnapsOK, SnapRows
<1>10. CASE /\ task.pc = "restored" /\ MarkConflict(c, task.seen, Missing)
            /\ Goto("drop") /\ NoFileChange
  <2>1. SnapRows'
    BY <1>5, <1>10, MarkSnaps, SnapsParts DEF NoFileChange
  <2>2. task'.pc = "drop"
    BY <1>1, <1>10 DEF Goto, Tasks
  <2> QED
    BY <2>1, <2>2, QuietSnapPcs, SnapsParts DEF SnapPcs, SnapsOK, SnapRows
<1>11. CASE /\ task.pc = "drop" /\ evidence' = [evidence EXCEPT ![c] = NoRow]
            /\ NextReview(c) /\ NoFileChange
  <2>1. SnapRows'
    BY <1>5, <1>11, DropSnaps, SnapsParts DEF NoFileChange
  <2> QED
    BY <1>1, <1>4, <1>11, <2>1, NextReviewSnapPcs DEF SnapPcs, SnapsOK, SnapRows
<1> QED
  BY <1>2, <1>3, <1>7, <1>8, <1>9, <1>10, <1>11 DEF Restore, TryMove, TryUnlink

LEMMA RetainSnaps ==
    ASSUME Inv, NameInv, SnapsOK, Retain
    PROVE  SnapsOK'
<1>1. task.pc \in Reviewing /\ task \in Tasks /\ FilesOK
  BY DEF Retain, Inv, Reviewing
<1>2. PICK c \in Deltas : c = task.d
  BY <1>1, AtReview
<1>3. PICK f \in Slots \ Retained : f = Target(task.d)
  BY <1>1, AtReview, FilesAreNotRetained DEF Rows
<1>4. /\ Snap(c) \in Retained /\ Snap(c) \in Slots /\ c \in Nat /\ evidence[c].kept
      /\ \A b \in Deltas : Snap(c) # Pre(b) /\ Snap(b) \in Retained /\ Pre(b) \in Retained
  BY <1>1, <1>2, AtReview, FilesAreNotRetained, SlotsAreSlots
<1>5. NoStoreChange => evidence' = evidence
  BY DEF NoStoreChange, store
<1>6. (\A s \in Retained : disk'[s] = disk[s]) /\ evidence' = evidence => SnapRows'
  BY <1>4, SnapRowsKept, SnapsParts DEF Exists
<1>7. NoFileChange \/ Unlink(f) \/ Put(f, Manifest(c)) => \A s \in Retained : disk'[s] = disk[s]
  BY <1>1, <1>3, FilesAreNotRetained DEF NoFileChange, Unlink, Put, FilesOK
<1>8. CASE Abort /\ NoStoreChange
  <2>1. SnapPcs'
    BY <1>8, QuietSnapPcs DEF Abort, IdleTask
  <2> QED
    BY <1>5, <1>6, <1>7, <1>8, <2>1 DEF Abort, SnapsOK, SnapRows, SnapPcs
<1>9. CASE /\ task.pc = "retain" /\ ~ Exists(Snap(c)) /\ Exists(f) /\ Move(f, Snap(c)) /\ NoStoreChange
           /\ task' = [task EXCEPT !.pc = "manifest", !.visible = disk[f]]
  <2>1. /\ \A s \in Retained \ {Snap(c)} : disk'[s] = disk[s]
        /\ disk'[Snap(c)] = disk[f]
    BY <1>1, <1>3, <1>4, <1>9, FilesAreNotRetained DEF Move, FilesOK
  <2>2. Exists(Pre(c)) /\ Changed(c)
    BY <1>2, <1>9, SnapsParts DEF SnapPcs
  <2>3. SnapRows'
    <3> SUFFICES ASSUME NEW d \in Deltas, Exists(Snap(d))'
                 PROVE  evidence[d].kept /\ (evidence[d].visible = Missing => Changed(d)')
      BY <1>5, <1>9 DEF SnapRows
    <3>1. disk'[Pre(d)] = disk[Pre(d)]
      BY <1>4, <2>1
    <3>2. Changed(d)' <=> Changed(d)
      BY <1>5, <1>9, <3>1 DEF Changed
    <3>3. CASE d = c
      BY <1>4, <2>2, <3>2, <3>3
    <3>4. CASE d # c
      BY <1>4, <2>1, <3>2, <3>4, RetainedApart, SnapsParts DEF SnapRows, Exists
    <3> QED
      BY <3>3, <3>4
  <2>4. task'.pc = "manifest" /\ task'.d = c /\ task'.visible = disk[f]
    BY <1>1, <1>2, <1>9 DEF Tasks
  <2>5. Exists(Snap(task.d))'
    BY <1>9, <2>1, <2>4 DEF Exists
  <2>6. SnapPcs'
    BY <1>9, <2>4, <2>5 DEF SnapPcs, Exists
  <2> QED
    BY <2>3, <2>6 DEF SnapsOK, SnapRows, SnapPcs
<1>10. CASE /\ \A s \in Retained : disk'[s] = disk[s]
            /\ evidence' = evidence
            /\ task.pc \in {"clear", "manifest", "published"}
            /\ \E pc \in {"manifest", "published", "mark"} : Goto(pc) /\ (pc = "mark" => task.marks)
  <2>1. PICK pc \in {"manifest", "published", "mark"} : Goto(pc) /\ (pc = "mark" => task.marks)
    BY <1>10
  <2>2. task'.pc = pc /\ task'.d = c /\ task'.marks = task.marks /\ task'.visible = task.visible
    BY <1>1, <1>2, <2>1, TaskFields
  <2>3. Exists(Snap(c)) /\ (task.marks => task.visible # Missing)
    BY <1>2, <1>10, SnapsParts DEF SnapPcs
  <2>4. Exists(Snap(task.d))'
    BY <1>4, <1>10, <2>2, <2>3 DEF Exists
  <2>5. SnapPcs'
    BY <2>1, <2>2, <2>3, <2>4 DEF SnapPcs
  <2> QED
    BY <1>6, <1>10, <2>5 DEF SnapsOK, SnapRows, SnapPcs
<1>11. CASE /\ \A s \in Retained : disk'[s] = disk[s]
            /\ evidence' = evidence
            /\ (NextReview(c) \/ task' = IdleTask)
  <2>1. SnapPcs'
    BY <1>1, <1>4, <1>11, NextReviewSnapPcs, QuietSnapPcs DEF IdleTask
  <2> QED
    BY <1>6, <1>11, <2>1 DEF SnapsOK, SnapRows, SnapPcs
<1>12. CASE /\ task.pc = "mark" /\ MarkConflict(c, task.seen, task.visible)
            /\ NextReview(c) /\ NoFileChange
  <2>1. SnapRows'
    BY <1>12, MarkSnaps, SnapsParts DEF NoFileChange, SnapPcs
  <2> QED
    BY <1>1, <1>4, <1>12, <2>1, NextReviewSnapPcs DEF SnapPcs, SnapsOK, SnapRows
<1>13. CASE task.pc = "retain"
  BY <1>2, <1>3, <1>8, <1>9, <1>13 DEF Retain, CanMove
<1>14. CASE task.pc = "clear"
  BY <1>3, <1>5, <1>7, <1>8, <1>10, <1>14 DEF Retain, TryUnlink
<1>15. CASE task.pc = "manifest"
  BY <1>2, <1>3, <1>5, <1>7, <1>8, <1>10, <1>11, <1>15 DEF Retain
<1>16. CASE task.pc = "published"
  BY <1>2, <1>5, <1>7, <1>10, <1>11, <1>16 DEF Retain
<1> QED
  BY <1>2, <1>12, <1>13, <1>14, <1>15, <1>16 DEF Retain

LEMMA NextSnaps == Inv /\ NameInv /\ TypedOnly /\ SnapsOK /\ [Next]_vars => SnapsOK'
<1> SUFFICES ASSUME Inv, NameInv, TypedOnly, SnapsOK, [Next]_vars
             PROVE  SnapsOK'
  OBVIOUS
<1>1. CASE Sync
  BY <1>1, EntrySnaps, LifeSnaps, ReviewSnaps, RestoreSnaps, RetainSnaps DEF Sync, Recover, Apply
<1>2. CASE User
  <2>1. UNCHANGED <<evidence, task>>
    BY <1>2 DEF User, Open, Close, Type, Create, Remove, Resolve, store
  <2>2. RetainedSlip
    BY <1>2, UserSlips
  <2>3. ASSUME NEW d \in Deltas
        PROVE  /\ Exists(Snap(d))' <=> Exists(Snap(d))
               /\ Exists(Pre(d))' <=> Exists(Pre(d))
               /\ Changed(d) => Changed(d)'
    <3>1. Pre(d) \in Retained /\ Snap(d) \in Retained
      BY FilesAreNotRetained
    <3>2. \A s \in Retained : Exists(s)' <=> Exists(s)
      BY <2>2, AgedFacts DEF RetainedSlip, Exists
    <3>3. disk'[Pre(d)] = disk[Pre(d)] \/ disk'[Pre(d)] # evidence[d].captured
      BY <2>2, <3>1, AgedFacts DEF RetainedSlip, TypedOnly
    <3> QED
      BY <2>1, <3>1, <3>2, <3>3 DEF Changed
  <2>4. SnapRows'
    BY <2>1, <2>3, SnapsParts DEF SnapRows
  <2>5. SnapPcs'
    <3>1. PICK c : c = task.d
      OBVIOUS
    <3>2. task.pc \in Reviewing => c \in Deltas
      BY <3>1, AtReview
    <3>3. /\ Exists(Snap(task.d))' = Exists(Snap(c))' /\ Exists(Pre(task.d))' = Exists(Pre(c))'
          /\ Changed(task.d)' = Changed(c)'
      BY <2>1, <3>1 DEF Exists, Changed
    <3> QED
      BY <2>1, <2>3, <3>1, <3>2, <3>3, SnapsParts DEF SnapPcs, Reviewing
  <2> QED
    BY <2>4, <2>5 DEF SnapsOK, SnapRows, SnapPcs
<1>3. CASE Publish \/ UNCHANGED vars
  <2>1. UNCHANGED <<disk, evidence, task>>
    BY <1>3 DEF Publish, vars, store
  <2> QED
    BY <2>1 DEF SnapsOK, Exists, Changed
<1>4. CASE Crash
  <2>1. UNCHANGED <<disk, evidence>> /\ task'.pc = "idle"
    BY <1>4 DEF Crash, store, IdleTask
  <2> QED
    BY <2>1, SnapRowsKept, QuietSnapPcs, SnapsParts DEF Exists, SnapsOK, SnapRows, SnapPcs
<1> QED
  BY <1>1, <1>2, <1>3, <1>4 DEF Next

-----------------------------------------------------------------------------
(* Once disturbed, always disturbed *)

SnapsStay == \A d \in Deltas : Exists(Snap(d)) => Exists(Snap(d))'

LEMMA ReviewSnapsStay ==
    ASSUME Inv, Restore \/ Retain
    PROVE  SnapsStay
<1>1. task.pc \in Reviewing /\ FilesOK
  BY DEF Restore, Retain, Inv, Reviewing
<1>2. PICK c \in Deltas : c = task.d
  BY <1>1, AtReview
<1>3. PICK f \in Slots \ Retained : f = Target(task.d)
  BY <1>1, AtReview, FilesAreNotRetained DEF Rows
<1>4. /\ Pre(c) \in Slots /\ Snap(c) \in Slots /\ Retained \subseteq Slots
      /\ \A b \in Deltas : Snap(b) # Pre(c) /\ Snap(b) \in Retained
  BY FilesAreNotRetained, SlotsAreSlots
<1>5. NoFileChange \/ Abort \/ Fail => SnapsStay
  BY DEF NoFileChange, Abort, Fail, SnapsStay, Exists
<1>6. \A t : Put(f, t) => SnapsStay
  BY <1>1, <1>4 DEF Put, SnapsStay, Exists, FilesOK
<1>7. Unlink(f) => SnapsStay
  BY <1>1, <1>4 DEF Unlink, SnapsStay, Exists, FilesOK
<1>8. Move(Pre(c), f) => SnapsStay
  BY <1>1, <1>4 DEF Move, SnapsStay, Exists, FilesOK
<1>9. ~ Exists(Snap(c)) /\ Move(f, Snap(c)) => SnapsStay
  BY <1>1, <1>4 DEF Move, SnapsStay, Exists, FilesOK
<1>10. CASE Restore
  BY <1>2, <1>3, <1>5, <1>7, <1>8, <1>10 DEF Restore, TryMove, TryUnlink
<1>11. CASE Retain
  BY <1>2, <1>3, <1>5, <1>6, <1>7, <1>9, <1>11 DEF Retain, TryUnlink, CanMove
<1> QED
  BY <1>10, <1>11

LEMMA UndisturbedBefore ==
    ASSUME Inv, NameInv, TypedOnly, Next, Undisturbed'
    PROVE  Undisturbed /\ crashes' = 0 /\ ~ Crash
<1>1. SnapsStay
  <2>1. disk' = disk => SnapsStay
    BY DEF SnapsStay, Exists
  <2>2. CASE User
    <3>1. RetainedSlip
      BY <2>2, UserSlips
    <3>2. \A s \in Retained : Exists(s)' <=> Exists(s)
      BY <3>1, AgedFacts DEF RetainedSlip, Exists
    <3> QED
      BY <3>2, FilesAreNotRetained DEF SnapsStay
  <2>3. CASE Publish \/ Crash
    BY <2>1, <2>3 DEF Publish, Crash
  <2>4. CASE ApplyCreate \/ ThreeWay \/ FencedUpdate \/ FencedRename
    BY <2>4, EntryRetained, FilesAreNotRetained, SlotsAreSlots DEF SnapsStay, Exists
  <2>5. CASE Restore \/ Retain
    BY <2>5, ReviewSnapsStay
  <2>6. CASE Start \/ Review \/ ResolveEvidence
    BY <2>1, <2>6 DEF Start, Begin, Review, ResolveEvidence, Fail, Abort, NoFileChange
  <2>7. CASE Validate \/ Stage \/ ApplyEntry \/ RecordEvidence \/ RecordOutcome \/ Complete \/ Tidy
    BY <2>1, <2>7 DEF Validate, Stage, ApplyEntry, RecordEvidence, RecordOutcome, Complete, Tidy,
       ReconcileStaging, Fail, Abort, NoFileChange
  <2> QED
    BY <2>2, <2>3, <2>4, <2>5, <2>6, <2>7 DEF Next, Sync, Recover, Apply
<1>2. crashes' = IF Crash THEN crashes + 1 ELSE crashes
  <2>1. CASE Sync
    BY <2>1 DEF Sync, Start, Recover, Apply, Review, Restore, Retain, ResolveEvidence, Validate, Stage,
       ApplyEntry, ApplyCreate, ThreeWay, FencedUpdate, FencedRename, RecordEvidence, RecordOutcome,
       Complete, Tidy, Crash, Inv, StoreOK
  <2>2. CASE User \/ Publish
    BY <2>2 DEF User, Open, Close, Type, Create, Remove, Resolve, Publish, Crash, Inv, StoreOK
  <2> QED
    BY <2>1, <2>2 DEF Crash, Next
<1> QED
  BY <1>1, <1>2 DEF Undisturbed, SnapsStay, Inv, StoreOK

-----------------------------------------------------------------------------
(* Steps that leave the store alone *)

SameStore == UNCHANGED <<gen, path, active, outcomes, evidence>> /\ versions'[gen] = versions[gen]

LEMMA SlipFacts ==
    ASSUME Slip, NEW s \in Slots
    PROVE  /\ disk'[s].kind = "doc" => disk[s].kind = "doc" /\ disk'[s].of = disk[s].of
           /\ disk'[s].kind = "manifest" => disk[s].kind = "manifest"
           /\ disk[s].edits # {} /\ disk'[s].kind = "doc" => disk'[s].edits # {}
           /\ s \in Retained => (Exists(s)' <=> Exists(s))
           /\ disk'[s].kind = "doc" /\ disk'[s].edits = {} => disk'[s] = disk[s]
           /\ s \in Retained => \/ disk'[s] = disk[s]
                                \/ \A t : t.edits \subseteq typed => disk'[s] # t
<1>1. disk'[s] = disk[s] \/ Aged(s) \/ (s \notin Retained /\ disk'[s].kind \in {"missing", "own"})
  BY DEF Slip, RetainedSlip
<1> QED
  BY <1>1, AgedFacts DEF Aged, Exists

LEMMA SlipDocs ==
    ASSUME Inv, TypedOnly, Slip, SameStore, Docs
    PROVE  Docs'
<1>1. \A d \in Deltas : Pre(d) \in Retained /\ Pre(d) \in Slots
  BY FilesAreNotRetained
<1>2. \A d \in Deltas : /\ Lying(d)' <=> Lying(d)
                        /\ Spoiled(d)' <=> Spoiled(d)
                        /\ Changed(d) => Changed(d)'
  <2> SUFFICES ASSUME NEW d \in Deltas
               PROVE  /\ Lying(d)' <=> Lying(d)
                      /\ Spoiled(d)' <=> Spoiled(d)
                      /\ Changed(d) => Changed(d)'
    OBVIOUS
  <2>1. Exists(Pre(d))' <=> Exists(Pre(d))
    BY <1>1, SlipFacts
  <2>2. disk'[Pre(d)] = disk[Pre(d)] \/ disk'[Pre(d)] # evidence[d].captured
    BY <1>1, SlipFacts DEF TypedOnly
  <2> QED
    BY <2>1, <2>2 DEF Lying, Spoiled, Changed, SameStore
<1>3. \A s \in Slots : \A v : /\ IsDoc(s, v)' => IsDoc(s, v)
                              /\ IsExact(s, v)' => IsExact(s, v) /\ disk'[s] = disk[s]
  BY SlipFacts DEF IsDoc, IsExact
<1>4. Earlier' = Earlier
  BY DEF Earlier, SameStore
<1>5. Plain' /\ Alone'
  BY SlipFacts DEF Docs, Plain, Alone, IsDoc, SameStore
<1>6. Follows'
  BY <1>3 DEF Docs, Follows, Tracked, SameStore
<1>7. RowFacts'
  BY <1>1, <1>3 DEF Docs, RowFacts, Changed, SameStore
<1>8. Untwinned'
  <2>1. \A d \in Deltas : Exists(Pre(d))' <=> Exists(Pre(d))
    BY <1>1, SlipFacts
  <2> QED
    BY <1>1, <1>3, <2>1 DEF Docs, Untwinned, SameStore
<1>9. LaterEdited'
  BY <1>2, <1>4, SlipFacts DEF Docs, LaterEdited, Earlier
<1>10. BaseEdited' /\ OldBaseEdited'
  BY <1>2, <1>3, <1>4 DEF Docs, BaseEdited, OldBaseEdited, Whole, SameStore, Earlier
<1>11. CleanUnspoiled'
  BY <1>2, <1>4 DEF Docs, CleanUnspoiled, NoneSpoiled, SameStore, Earlier
<1>12. Shown'
  <2>1. File(path.local) \in Slots
    BY FilesAreNotRetained DEF Inv, StoreOK, Paths
  <2> QED
    BY <1>2, <1>4, <2>1, SlipFacts DEF Docs, Shown, SameStore, Earlier
<1> QED
  BY <1>5, <1>6, <1>7, <1>8, <1>9, <1>10, <1>11, <1>12 DEF Docs

\* A row beside whose inode nothing is moved in.
LEMMA MoveDocs ==
    ASSUME Inv, SameStore, Docs, NEW from \in Slots, NEW to \in Slots, MovesTo(from, to),
           \A d \in Deltas : evidence[d].kept => to # Pre(d),
           active \/ \E d \in Earlier : evidence[d].kept /\ from = Pre(d)
    PROVE  Docs'
<1>1. \A d \in Deltas : Pre(d) \in Slots
  BY FilesAreNotRetained
<1>2. /\ from # to /\ ~ Exists(to) /\ disk'[to] = disk[from] /\ disk'[from] = Missing
      /\ \A s \in Slots \ {from, to} : disk'[s] = disk[s]
  BY DEF MovesTo
<1>3. \A d \in Deltas : evidence[d].kept /\ Exists(Pre(d))' =>
        Pre(d) \notin {from, to} /\ disk'[Pre(d)] = disk[Pre(d)] /\ Exists(Pre(d))
  BY <1>1, <1>2 DEF Exists
<1>4. \A d \in Deltas : Lying(d)' => Lying(d) /\ Pre(d) \notin {from, to}
  BY <1>3 DEF Lying, Spoiled, SameStore
<1> DEFINE origin(s) == IF s = to THEN from ELSE s
<1>5. \A s \in Slots : disk'[s].kind \notin {"missing"} => origin(s) \in Slots /\ disk'[s] = disk[origin(s)]
                                                   /\ s # from
  BY <1>2, TextFields
<1>6. \A s \in Slots : \A v : /\ IsDoc(s, v)' => IsDoc(origin(s), v) /\ s # from /\ disk'[s] = disk[origin(s)]
                              /\ IsExact(s, v)' => IsExact(origin(s), v) /\ s # from
  BY <1>5 DEF IsDoc, IsExact
<1>7. \A s, t \in Slots : s # from /\ t # from /\ origin(s) = origin(t) => s = t
  OBVIOUS
<1>8. \A s \in Slots : origin(s) \in Slots
  OBVIOUS
<1> HIDE DEF origin
<1>9. Earlier' = Earlier
  BY DEF Earlier, SameStore
<1>10. Plain'
  <2>1. \A s \in Slots : disk'[s].kind # "manifest"
    BY <1>2, TextFields DEF Docs, Plain
  <2> QED
    BY <2>1 DEF Docs, Plain, SameStore
<1>11. Alone'
  <2> SUFFICES ASSUME NEW s \in Slots, NEW t \in Slots, disk'[s].kind = "doc", IsDoc(t, disk[s].of)'
               PROVE  s = t
    BY DEF Alone
  <2>1. PICK v : v = disk'[s].of
    OBVIOUS
  <2>2. IsDoc(s, v)' /\ IsDoc(t, v)'
    BY <2>1 DEF IsDoc
  <2>3. IsDoc(origin(s), v) /\ IsDoc(origin(t), v) /\ s # from /\ t # from
    BY <1>6, <2>2
  <2> QED
    BY <1>7, <1>8, <2>3 DEF Docs, Alone, IsDoc
<1>12. Follows'
  BY <1>6, <1>8 DEF Docs, Follows, Tracked, SameStore
<1>13. RowFacts'
  <2>1. \A d \in Deltas : evidence[d].kept /\ IsExact(Pre(d), d)' => Exists(Pre(d))'
    BY TextFields DEF IsExact, IsDoc, Exists
  <2> QED
    BY <1>3, <2>1 DEF Docs, RowFacts, IsExact, IsDoc, Changed, SameStore
<1>14. Untwinned'
  <2> SUFFICES ASSUME NEW d \in Deltas, evidence[d].kept, Exists(Pre(d))', evidence[d].payload + 1 = d,
                      NEW s \in Slots \ {Pre(d)}, IsExact(s, d)'
               PROVE  FALSE
    BY DEF Untwinned, SameStore
  <2>1. IsExact(origin(s), d) /\ origin(s) # Pre(d) /\ origin(s) \in Slots
    BY <1>3, <1>6, <1>8 DEF origin
  <2> QED
    BY <1>3, <2>1 DEF Docs, Untwinned
<1>15. LaterEdited'
  <2> SUFFICES ASSUME NEW d \in Earlier, Lying(d)', NEW s \in Slots, disk'[s].kind = "doc", disk'[s].of > d
               PROVE  disk'[s].edits # {}
    BY <1>9 DEF LaterEdited
  <2>1. origin(s) \in Slots /\ disk'[s] = disk[origin(s)]
    BY <1>5
  <2> QED
    BY <1>4, <2>1 DEF Docs, LaterEdited, Earlier
<1>16. BaseEdited'
  <2> SUFFICES ASSUME NEW d \in Earlier, Lying(d)', Whole, NEW s \in Slots \ {Pre(d)}, IsExact(s, path.base)'
               PROVE  FALSE
    <3>1. path' = path /\ Whole' = Whole
      BY DEF SameStore, Whole
    <3> QED
      BY <1>9, <3>1 DEF BaseEdited, IsExact, IsDoc
  <2>1. path' = path
    BY DEF SameStore
  <2>2. IsExact(origin(s), path.base) /\ origin(s) # Pre(d) /\ origin(s) \in Slots
    BY <1>4, <1>6, <1>8, <2>1 DEF origin, Earlier, IsExact, IsDoc
  <2> QED
    BY <1>4, <2>2 DEF Docs, BaseEdited, Earlier
<1>17. OldBaseEdited'
  <2>1. path' = path /\ gen' = gen
    BY DEF SameStore
  <2>2. \A v : (\E s \in Slots : IsDoc(s, v)') => \E s \in Slots : IsDoc(s, v)
    BY <1>6, <1>8
  <2>3. \A v : (\E s \in Slots : IsExact(s, v)') => \E s \in Slots : IsExact(s, v)
    BY <1>6, <1>8
  <2> QED
    BY <2>1, <2>2, <2>3 DEF Docs, OldBaseEdited, Whole, IsExact, IsDoc
<1>18. CleanUnspoiled'
  BY <1>9 DEF Docs, CleanUnspoiled, NoneSpoiled, Spoiled, SameStore
<1>19. Shown'
  <2>1. active' = active
    BY DEF SameStore
  <2>2. ASSUME NEW d \in Earlier, evidence[d].kept, from = Pre(d)
        PROVE  Shown'
    <3>1. evidence[d].captured # Missing
      BY <2>2 DEF Docs, RowFacts, Earlier
    <3>2. Changed(d)'
      BY <1>2, <2>2, <3>1 DEF Changed, SameStore
    <3> QED
      BY <1>9, <2>2, <3>2 DEF Shown
  <2> QED
    BY <2>1, <2>2 DEF Shown
<1> QED
  BY <1>10, <1>11, <1>12, <1>13, <1>14, <1>15, <1>16, <1>17, <1>18, <1>19 DEF Docs

\* A later version is written than any on disk, with edits in it, or none is lying.
LEMMA PutDocs ==
    ASSUME Inv, BaseBehind, SameStore, Docs, active, NEW f \in Slots \ Retained, NEW t, PutsAt(f, t),
           t.kind = "doc", t.of = gen + 1,
           \A s \in Slots : ~ IsDoc(s, gen + 1),
           t.edits # {} \/ \A d \in Earlier : ~ Lying(d)
    PROVE  Docs'
<1>1. \A d \in Deltas : Pre(d) \in Slots \ {f}
  BY FilesAreNotRetained
<1>2. disk'[f] = t /\ ~ Exists(f) /\ \A s \in Slots \ {f} : disk'[s] = disk[s]
  BY DEF PutsAt
<1>3. gen \in Nat /\ path.base \in Nat /\ path.base <= gen
  BY DEF Inv, StoreOK, Paths, BaseBehind
<1>4. \A s \in Slots : \A v : /\ v # gen + 1 /\ IsDoc(s, v)' => IsDoc(s, v) /\ s # f
                              /\ v # gen + 1 /\ IsExact(s, v)' => IsExact(s, v) /\ s # f
  BY <1>2 DEF IsDoc, IsExact
<1>5. \A d \in Deltas : /\ Exists(Pre(d))' <=> Exists(Pre(d))
                        /\ Spoiled(d)' <=> Spoiled(d)
                        /\ Lying(d)' <=> Lying(d)
                        /\ Changed(d)' <=> Changed(d)
  BY <1>1, <1>2 DEF Exists, Spoiled, Lying, Changed, SameStore
<1>6. Earlier' = Earlier /\ path' = path /\ gen' = gen
  BY DEF Earlier, SameStore
<1>7. Plain'
  BY <1>2 DEF Docs, Plain, SameStore
<1>8. Alone'
  <2> SUFFICES ASSUME NEW r \in Slots, NEW s \in Slots, disk'[r].kind = "doc", IsDoc(s, disk[r].of)'
               PROVE  r = s
    BY DEF Alone
  <2>1. CASE r # f /\ s # f
    BY <1>2, <2>1 DEF Docs, Alone, IsDoc
  <2>2. CASE r = f \/ s = f
    BY <1>2, <2>2 DEF IsDoc
  <2> QED
    BY <2>1, <2>2
<1>9. Follows'
  BY <1>3, <1>4 DEF Docs, Follows, Tracked, SameStore
<1>10. RowFacts'
  BY <1>1, <1>2, <1>5 DEF Docs, RowFacts, IsExact, IsDoc, SameStore
<1>11. \A d \in Deltas : evidence[d].kept => d < gen + 1
  BY <1>3 DEF Inv, RowsOK, Deltas
<1>12. Untwinned'
  <2> SUFFICES ASSUME NEW d \in Deltas, evidence[d].kept, Exists(Pre(d))', evidence[d].payload + 1 = d,
                      NEW s \in Slots \ {Pre(d)}, IsExact(s, d)'
               PROVE  FALSE
    BY DEF Untwinned, SameStore
  <2>1. d # gen + 1
    BY <1>3, <1>11
  <2> QED
    BY <1>4, <1>5, <2>1 DEF Docs, Untwinned
<1>13. LaterEdited'
  <2> SUFFICES ASSUME NEW d \in Earlier, Lying(d)', NEW s \in Slots, disk'[s].kind = "doc", disk'[s].of > d
               PROVE  disk'[s].edits # {}
    BY <1>6 DEF LaterEdited
  <2>1. Lying(d)
    BY <1>5 DEF Earlier
  <2> QED
    BY <1>2, <2>1 DEF Docs, LaterEdited
<1>14. BaseEdited' /\ OldBaseEdited'
  <2>1. path.base # gen + 1
    BY <1>3
  <2> QED
    BY <1>3, <1>4, <1>5, <1>6, <2>1 DEF Docs, BaseEdited, OldBaseEdited, Whole, Earlier, IsExact, IsDoc
<1>15. CleanUnspoiled' /\ Shown'
  BY <1>5, <1>6 DEF Docs, CleanUnspoiled, NoneSpoiled, Shown, Earlier, SameStore
<1> QED
  BY <1>7, <1>8, <1>9, <1>10, <1>12, <1>13, <1>14, <1>15 DEF Docs

-----------------------------------------------------------------------------
(* Steps of others between two steps of a sync *)

LEMMA SlipPcs ==
    ASSUME Inv, TypedOnly, Slip, SameStore, active => versions'[gen + 1] = versions[gen + 1],
           task' = task, Pcs
    PROVE  Pcs'
<1>1. gen' = gen /\ path' = path /\ evidence' = evidence /\ outcomes' = outcomes /\ active' = active
  BY DEF SameStore
<1>2. \A s \in Slots : \A v : /\ IsDoc(s, v)' => IsDoc(s, v)
                              /\ IsExact(s, v)' => IsExact(s, v) /\ disk'[s] = disk[s]
  BY SlipFacts DEF IsDoc, IsExact
<1>3. \A d \in Deltas : /\ Pre(d) \in Slots
                        /\ Exists(Pre(d))' <=> Exists(Pre(d))
                        /\ \A v : IsDoc(Pre(d), v)' <=> IsDoc(Pre(d), v)
  <2> SUFFICES ASSUME NEW d \in Deltas
               PROVE  /\ Pre(d) \in Slots
                      /\ Exists(Pre(d))' <=> Exists(Pre(d))
                      /\ \A v : IsDoc(Pre(d), v)' <=> IsDoc(Pre(d), v)
    OBVIOUS
  <2>1. Pre(d) \in Retained /\ Pre(d) \in Slots
    BY FilesAreNotRetained
  <2>2. disk'[Pre(d)] = disk[Pre(d)] \/ Aged(Pre(d))
    BY <2>1 DEF Slip, RetainedSlip
  <2> QED
    BY <2>1, <2>2, SlipFacts DEF IsDoc, Aged
<1>4. \A r : Ends(r)' <=> Ends(r)
  BY <1>1 DEF Ends
<1>5. Earlier' = Earlier /\ NoneSpoiled' = NoneSpoiled /\ Whole' = Whole
      /\ \A d : Spoiled(d)' = Spoiled(d)
  BY <1>1 DEF Earlier, NoneSpoiled, Spoiled, Whole
<1>6. task.pc \in Applying \ {"validate", "tidy"} =>
        /\ gen \in Deltas /\ active /\ versions'[gen + 1] = versions[gen + 1] /\ versions'[gen] = versions[gen]
        /\ versions[gen + 1] # Absent => File(versions[gen + 1]) \in Slots
  BY AtEntry DEF SameStore
<1>7. NotAhead'
  BY <1>1, <1>4, SlipFacts DEF Pcs, NotAhead
<1>8. RowsInTime'
  BY <1>1 DEF Pcs, RowsInTime
<1>9. Swept'
  BY <1>3, <1>5 DEF Pcs, Swept, Earlier
<1>10. ReviewPcs'
  <2>1. PICK c : c = task.d
    OBVIOUS
  <2>2. task.pc \in Reviewing => c \in Deltas
    BY <2>1, AtReview
  <2>3. \A v : IsExact(Pre(task.d), v)' = IsExact(Pre(c), v)'
    BY <2>1 DEF IsExact, IsDoc
  <2>4. task.pc \in {"unrestore", "restore"} => ~ IsExact(Pre(c), c)'
    BY <1>2, <1>3, <2>1, <2>2 DEF Pcs, ReviewPcs, Reviewing
  <2>5. task.pc = "restored" /\ evidence[c].payload + 1 = c => \A s \in Slots : ~ IsExact(s, c)'
    BY <1>2, <2>1 DEF Pcs, ReviewPcs
  <2> QED
    BY <1>1, <2>1, <2>3, <2>4, <2>5 DEF Pcs, ReviewPcs, IsExact, IsDoc
<1>11. ApplyPcs'
  <2>1. task.pc \in Applying \ {"validate", "tidy"} => /\ BaseMatches(gen)' = BaseMatches(gen)
                                                       /\ Renames(gen)' = Renames(gen)
    BY <1>1, <1>6 DEF BaseMatches, Renames, Tracked, ExpectedVersion
  <2>2. Verified \cup {"displace", "merge"} \cup Fenced \cup InPlace \subseteq Applying \ {"validate", "tidy"}
    BY DEF Verified, Fenced, InPlace, Applying
  <2>3. task.pc \in Verified => IsDoc(Pre(gen), gen)'
    BY <1>1, <1>3, <1>6, <2>2 DEF Pcs, ApplyPcs, IsDoc
  <2>4. \A s \in Slots : IsDoc(s, path.base)' => IsDoc(s, path.base)
    BY <1>1, <1>2 DEF IsDoc
  <2> QED
    BY <1>1, <1>5, <2>1, <2>2, <2>3, <2>4 DEF Pcs, ApplyPcs
<1>12. FencePc'
  <2>1. CASE task.pc = "fence"
    <3>1. gen \in Deltas
      BY <1>6, <2>1 DEF Applying
    <3>2. /\ IsExact(Pre(gen), gen)' => IsExact(Pre(gen), gen) /\ disk'[Pre(gen)] = disk[Pre(gen)]
          /\ Exists(Pre(gen))' <=> Exists(Pre(gen))
          /\ \A s \in Slots : IsExact(s, gen)' => IsExact(s, gen)
      BY <1>1, <1>2, <1>3, <3>1 DEF IsExact, IsDoc, Exists
    <3> QED
      BY <1>1, <2>1, <3>2 DEF Pcs, FencePc
  <2>2. CASE task.pc # "fence"
    BY <2>2 DEF FencePc
  <2> QED
    BY <2>1, <2>2
<1>13. EndPcs'
  <2>1. CASE \E r : Ends(r)
    <3>1. gen \in Deltas /\ versions'[gen + 1] = versions[gen + 1]
          /\ (versions[gen + 1] # Absent => File(versions[gen + 1]) \in Slots)
      BY <1>6, <2>1 DEF Ends, Applying
    <3>2. Exists(Pre(gen))' <=> Exists(Pre(gen))
      BY <1>1, <1>3, <3>1 DEF Exists
    <3>3. \A s \in Slots : IsExact(s, path.base)' => IsExact(s, path.base)
      BY <1>1, <1>2 DEF IsExact, IsDoc
    <3>4. \A s \in Slots : disk'[s].kind = "doc" => disk[s].kind = "doc" /\ disk'[s].of = disk[s].of
      BY SlipFacts
    <3>5. Ends("conflict")' /\ (task'.pc = "fence" \/ evidence'[gen'].kept) /\ Exists(Pre(gen))' /\ Whole' =>
            \A s \in Slots \ {Pre(gen)} : ~ IsExact(s, path.base)'
      BY <1>1, <1>4, <1>5, <3>2, <3>3 DEF Pcs, EndPcs
    <3>6. Ends("applied") =>
             /\ versions[gen + 1] # Absent
             /\ NoneSpoiled
             /\ disk'[File(versions[gen + 1])].kind = "doc" => disk'[File(versions[gen + 1])].of = gen + 1
      BY <3>1, <3>4 DEF Pcs, EndPcs
    <3>7. Ends("deleted") => versions[gen + 1] = Absent
      BY DEF Pcs, EndPcs
    <3> QED
      BY <1>1, <1>4, <1>5, <3>1, <3>5, <3>6, <3>7 DEF EndPcs
  <2>2. CASE ~ \E r : Ends(r)
    BY <1>4, <2>2 DEF EndPcs
  <2> QED
    BY <2>1, <2>2
<1> QED
  BY <1>7, <1>8, <1>9, <1>10, <1>11, <1>12, <1>13 DEF Pcs

-----------------------------------------------------------------------------
(* The functions of an entry *)

Working == {"create"} \cup InPlace \cup Fenced \cup Renaming

\* What holds at every step of an entry's function.
LEMMA AtWork ==
    ASSUME Inv, NameInv, Docs, Pcs, task.pc \in Working
    PROVE  /\ task \in Tasks /\ FilesOK /\ active /\ gen \in Deltas /\ gen \in Nat
           /\ path.local \in Names /\ File(path.local) \in Slots \ Retained
           /\ Pre(gen) \in Slots /\ Pre(gen) # File(path.local)
           /\ versions[gen + 1] # Absent => File(versions[gen + 1]) \in Slots \ Retained
           /\ versions[gen] # Absent => Old(gen) # Missing /\ Tracked /\ ExpectedVersion = gen
           /\ \A s \in Slots : disk[s].kind = "doc" => disk[s].of <= gen
           /\ \A s \in Slots : ~ IsDoc(s, gen + 1)
           /\ versions[gen + 1] # Absent => \A s \in Slots : disk[s] # New(gen)
           /\ \A d \in Deltas : evidence[d].kept => d < gen
           /\ outcomes[gen] = "none"
           /\ \A d \in Earlier : Spoiled(d) => Lying(d)
           /\ \A s \in Slots : disk[s] = Old(gen) => (versions[gen] # Absent => IsExact(s, gen))
           /\ versions[gen] # Absent =>
                \A s \in Slots : IsExact(s, gen) => disk[s] = Old(gen)
<1>1. task.pc \in Entering /\ task.pc \in Applying \ {"validate", "tidy"}
  BY DEF Working, Entering, InPlace, Fenced, Renaming, Applying
<1>2. /\ task \in Tasks /\ FilesOK /\ active /\ gen \in Deltas /\ gen \in Nat
      /\ path.local \in Names
      /\ versions[gen + 1] # Absent => versions[gen + 1] \in Names
      /\ versions[gen] # Absent => Old(gen) # Missing
  BY <1>1, AtEntering DEF Inv, StoreOK
<1>3. /\ File(path.local) \in Slots \ Retained /\ Pre(gen) \in Slots /\ Pre(gen) # File(path.local)
      /\ versions[gen + 1] # Absent => File(versions[gen + 1]) \in Slots \ Retained
  BY <1>2, FilesAreNotRetained, SlotsAreSlots
<1>4. versions[gen] # Absent => Tracked /\ ExpectedVersion = gen
  BY <1>1 DEF Pcs, ApplyPcs, BaseMatches
<1>5. \A r : ~ Ends(r)
  BY DEF Ends, Working, InPlace, Fenced, Renaming
<1>6. \A s \in Slots : disk[s].kind = "doc" => disk[s].of <= gen
  BY <1>5 DEF Pcs, NotAhead
<1>7. \A s \in Slots : ~ IsDoc(s, gen + 1)
  BY <1>2, <1>6 DEF IsDoc
<1>8. versions[gen + 1] # Absent => \A s \in Slots : disk[s] # New(gen)
  BY <1>7, TextFields DEF New, Image, IsDoc
<1>9. task.pc \notin {"record", "complete"}
  BY DEF Working, InPlace, Fenced, Renaming
<1>10. (\A d \in Deltas : evidence[d].kept => d < gen) /\ outcomes[gen] = "none"
  <2>1. \A d \in Deltas : (evidence[d].kept => d < gen) /\ (outcomes[d] # "none" => d < gen)
    BY <1>9 DEF Pcs, RowsInTime
  <2> QED
    BY <1>2, <2>1
<1>11. \A d \in Earlier : Spoiled(d) => Lying(d)
  BY <1>1 DEF Pcs, Swept, Lying
<1>12. \A s \in Slots : disk[s] = Old(gen) => (versions[gen] # Absent => IsExact(s, gen))
  BY TextFields DEF Old, Image, IsExact, IsDoc
<1>13. versions[gen] # Absent => \A s \in Slots : IsExact(s, gen) => disk[s] = Old(gen)
  BY <1>2, TextFields DEF Old, Image, IsExact, IsDoc, FilesOK
<1> QED
  BY <1>2, <1>3, <1>4, <1>6, <1>7, <1>8, <1>10, <1>11, <1>12, <1>13

\* The old version, without edits, is in no slot while a conflict is lying.
LEMMA ExactOldUnspoiled ==
    ASSUME Inv, NameInv, Docs, Pcs, task.pc \in Working, NEW s \in Slots, IsExact(s, gen)
    PROVE  NoneSpoiled
<1>1. \A d \in Earlier : ~ Lying(d)
  BY DEF Docs, LaterEdited, IsExact, IsDoc, Earlier
<1> QED
  BY <1>1, AtWork DEF NoneSpoiled

\* Parts of the invariant that a step of an entry's function keeps in any case.
LEMMA WorkKeeps ==
    ASSUME Inv, NameInv, Docs, Pcs, ApplyCreate \/ ThreeWay \/ FencedUpdate \/ FencedRename
    PROVE  /\ SameStore /\ versions' = versions /\ task.pc \in Working
           /\ gen' = gen /\ path' = path /\ evidence' = evidence /\ outcomes' = outcomes
           /\ Earlier' = Earlier /\ (NoneSpoiled' <=> NoneSpoiled) /\ (Whole' <=> Whole)
           /\ (Renames(gen)' <=> Renames(gen)) /\ BaseMatches(gen)'
           /\ task'.pc \notin {"complete"} \cup Reviewing => RowsInTime' /\ Swept' /\ ReviewPcs'
<1>1. task.pc \in Working /\ task.pc \in Applying \ {"validate", "tidy"}
  BY DEF ApplyCreate, ThreeWay, FencedUpdate, FencedRename, Working, InPlace, Fenced, Renaming, Applying
<1>2. UNCHANGED <<store, versions>>
  BY DEF ApplyCreate, ThreeWay, FencedUpdate, FencedRename, Fail, NoStoreChange
<1>3. /\ SameStore /\ versions' = versions
      /\ gen' = gen /\ path' = path /\ evidence' = evidence /\ outcomes' = outcomes
  BY <1>2 DEF SameStore, store
<1>4. /\ Earlier' = Earlier /\ (NoneSpoiled' <=> NoneSpoiled) /\ (Whole' <=> Whole)
      /\ \A d : Spoiled(d)' <=> Spoiled(d)
  BY <1>3 DEF Earlier, NoneSpoiled, Spoiled, Whole
<1>5. (Renames(gen)' <=> Renames(gen)) /\ (BaseMatches(gen)' <=> BaseMatches(gen))
  BY <1>3 DEF Renames, BaseMatches, Tracked, ExpectedVersion
<1>6. BaseMatches(gen)
  BY <1>1 DEF Pcs, ApplyPcs
<1>7. RowsInTime'
  BY <1>1, <1>3, AtWork DEF Pcs, RowsInTime, Working, InPlace, Fenced, Renaming
<1>8. ASSUME task'.pc \notin {"complete"} \cup Reviewing
      PROVE  Swept' /\ ReviewPcs'
  <2>1. \A d \in Earlier : Exists(Pre(d))' <=> Exists(Pre(d))
    BY <1>1, AtWork, EntryRetained, FilesAreNotRetained, RetainedApart DEF Earlier, Exists
  <2>2. \A d \in Earlier : Spoiled(d) => Exists(Pre(d))
    BY <1>1, AtWork DEF Lying
  <2>3. Swept'
    BY <1>4, <1>8, <2>1, <2>2 DEF Swept, Earlier
  <2>4. ReviewPcs'
    BY <1>8 DEF ReviewPcs, Reviewing
  <2> QED
    BY <2>3, <2>4
<1> QED
  BY <1>1, <1>3, <1>4, <1>5, <1>6, <1>7, <1>8

\* The function goes on, or is given up.
LEMMA WorkGoesOn ==
    ASSUME Inv, NameInv, Docs, Pcs, ApplyCreate \/ ThreeWay \/ FencedUpdate \/ FencedRename,
           task'.pc \in {"idle"} \cup InPlace \cup Fenced \cup Renaming,
           \A s \in Slots : disk'[s].kind = "doc" => disk'[s].of <= gen,
           ApplyPcs'
    PROVE  Pcs'
<1>1. /\ gen' = gen /\ task'.pc \notin {"complete"} \cup Reviewing
      /\ task'.pc \notin {"fence", "record", "complete"}
  BY WorkKeeps DEF Reviewing, InPlace, Fenced, Renaming
<1>2. RowsInTime' /\ Swept' /\ ReviewPcs'
  BY <1>1, WorkKeeps
<1>3. NotAhead' /\ FencePc' /\ EndPcs'
  BY <1>1 DEF NotAhead, FencePc, EndPcs, Ends
<1> QED
  BY <1>2, <1>3 DEF Pcs

\* The function comes to its outcome.
LEMMA WorkEnds ==
    ASSUME Inv, NameInv, Docs, Pcs, ApplyCreate \/ ThreeWay \/ FencedUpdate \/ FencedRename,
           NEW result, NEW fence, Finish(result, fence), NotAhead', FencePc', EndPcs'
    PROVE  Pcs'
<1>1. task'.pc \in {"fence", "record"} /\ task'.result = result
  BY WorkKeeps, AtWork, Finishes
<1>2. RowsInTime' /\ Swept' /\ ReviewPcs'
  BY <1>1, WorkKeeps DEF Reviewing
<1>3. ApplyPcs'
  BY <1>1, WorkKeeps DEF ApplyPcs, Verified, Fenced, InPlace, Applying
<1> QED
  BY <1>2, <1>3 DEF Pcs

\* An entry is done, and its inode is not kept: whatever happens, no row says so.
LEMMA EndsQuietly ==
    ASSUME Inv, NameInv, Docs, Pcs, ApplyCreate \/ ThreeWay \/ FencedUpdate \/ FencedRename,
           NEW result \in {"conflict", "deleted"}, Finish(result, Missing),
           \A s \in Slots : disk'[s].kind = "doc" => disk'[s].of <= gen,
           result = "deleted" => versions[gen + 1] = Absent
    PROVE  Pcs'
<1>1. task'.pc = "record" /\ task'.result = result /\ gen' = gen /\ versions' = versions
  BY WorkKeeps, AtWork, Finishes
<1>2. NotAhead' /\ FencePc'
  BY <1>1 DEF NotAhead, FencePc
<1>3. EndPcs'
  <2>1. ~ evidence'[gen'].kept
    BY <1>1, WorkKeeps, AtWork
  <2> QED
    BY <1>1, <2>1 DEF EndPcs, Ends
<1> QED
  BY <1>2, <1>3, WorkEnds

LEMMA WorkStill ==
    ASSUME Inv, NameInv, TypedOnly, Docs, Pcs, ApplyCreate \/ ThreeWay \/ FencedUpdate \/ FencedRename,
           NoFileChange
    PROVE  /\ Docs' /\ disk' = disk
           /\ \A s \in Slots : disk'[s].kind = "doc" => disk'[s].of <= gen
           /\ \A s, v : (IsDoc(s, v)' <=> IsDoc(s, v)) /\ (IsExact(s, v)' <=> IsExact(s, v))
<1>1. SameStore /\ task.pc \in Working /\ FilesOK
  BY WorkKeeps DEF Inv
<1>2. disk' = disk
  BY DEF NoFileChange
<1> QED
  BY <1>1, <1>2, AtWork, OpsOnSlots, SlipDocs DEF IsDoc, IsExact

LEMMA WorkMoves ==
    ASSUME Inv, NameInv, Docs, Pcs, ApplyCreate \/ ThreeWay \/ FencedUpdate \/ FencedRename,
           NEW from \in Slots, NEW to \in Slots, ~ Exists(to), Move(from, to),
           <<from, to>> \in {<<File(path.local), Pre(gen)>>, <<Pre(gen), File(path.local)>>}
    PROVE  /\ Docs' /\ MovesTo(from, to)
           /\ \A s \in Slots : disk'[s].kind = "doc" => disk'[s].of <= gen
<1>1. SameStore /\ task.pc \in Working /\ FilesOK
  BY WorkKeeps DEF Inv
<1>2. from # to /\ active /\ \A d \in Deltas : evidence[d].kept => to # Pre(d)
  BY <1>1, AtWork, SlotsAreSlots, RetainedApart
<1>3. MovesTo(from, to)
  BY <1>1, <1>2, OpsOnSlots
<1>4. Docs'
  BY <1>1, <1>2, <1>3, MoveDocs
<1>5. \A s \in Slots : disk'[s].kind = "doc" => disk'[s].of <= gen
  BY <1>1, <1>3, AtWork, TextFields DEF MovesTo
<1> QED
  BY <1>3, <1>4, <1>5

\* A conflict leaves the displaced inode, or has put it back.
LEMMA EndsInConflict ==
    ASSUME Inv, NameInv, Docs, Pcs, ApplyCreate \/ ThreeWay \/ FencedUpdate \/ FencedRename,
           versions[gen] # Absent, Finish("conflict", Old(gen)),
           \A s \in Slots : disk'[s].kind = "doc" => disk'[s].of <= gen,
           Exists(Pre(gen))' =>
             /\ IsExact(Pre(gen), gen)' => disk'[Pre(gen)] = Old(gen)
             /\ path.payload + 1 = gen => \A s \in Slots \ {Pre(gen)} : ~ IsExact(s, gen)'
             /\ Whole => \A s \in Slots \ {Pre(gen)} :
                  ~ (disk'[s].kind = "doc" /\ disk'[s].of = path.base /\ disk'[s].edits = {})
    PROVE  Pcs'
<1>1. /\ gen' = gen /\ path' = path /\ (Whole' <=> Whole) /\ task.pc \in Working
  BY WorkKeeps
<1>2. task'.pc = "fence" /\ task'.result = "conflict" /\ task'.fence = Old(gen) /\ Old(gen) # Missing
  BY <1>1, AtWork, TaskFields
<1>3. NotAhead'
  BY <1>1 DEF NotAhead
<1>4. IsExact(Pre(gen), gen)' => Exists(Pre(gen))'
  BY TextFields DEF IsExact, IsDoc, Exists
<1>5. FencePc'
  BY <1>1, <1>2, <1>4 DEF FencePc, Exists, IsExact, IsDoc
<1>6. EndPcs'
  BY <1>1, <1>2 DEF EndPcs, Ends, Exists, IsExact, IsDoc
<1> QED
  BY <1>3, <1>5, <1>6, WorkEnds

\* The new version is in its place.
LEMMA EndsApplied ==
    ASSUME Inv, NameInv, BaseBehind, Docs, Pcs, ApplyCreate \/ ThreeWay \/ FencedUpdate \/ FencedRename,
           NEW fence, Finish("applied", fence),
           fence = Missing \/ (fence = Old(gen) /\ IsDoc(Pre(gen), gen) /\ versions[gen] # Absent),
           versions[gen + 1] # Absent, NoneSpoiled,
           NEW f \in Slots \ Retained, PutsAt(f, New(gen)),
           f = File(versions[gen + 1])
    PROVE  Docs' /\ Pcs'
<1>1. /\ gen' = gen /\ path' = path /\ versions' = versions /\ (NoneSpoiled' <=> NoneSpoiled)
      /\ SameStore /\ task.pc \in Working
  BY WorkKeeps
<1>2. /\ task'.pc = (IF fence = Missing THEN "record" ELSE "fence")
      /\ task'.result = "applied" /\ task'.fence = fence
  BY <1>1, AtWork, TaskFields
<1>3. New(gen).kind = "doc" /\ New(gen).of = gen + 1
  BY TextFields DEF New, Image
<1>4. Docs'
  <2>1. \A d \in Earlier : ~ Lying(d)
    BY DEF NoneSpoiled, Lying
  <2> QED
    BY <1>1, <1>3, <2>1, AtWork, PutDocs
<1>5. disk'[f] = New(gen) /\ \A s \in Slots \ {f} : disk'[s] = disk[s]
  BY DEF PutsAt
<1>6. NotAhead'
  BY <1>1, <1>2, <1>3, <1>5, AtWork DEF NotAhead, Ends
<1>7. FencePc'
  <2>1. CASE fence = Missing
    BY <1>2, <2>1 DEF FencePc
  <2>2. CASE fence # Missing
    <3>1. /\ fence = Old(gen) /\ Pre(gen) \in Slots \ {f} /\ gen \in Nat
          /\ IsDoc(Pre(gen), gen) /\ versions[gen] # Absent
      BY <1>1, <2>2, AtWork, FilesAreNotRetained
    <3>2. \A s \in Slots : IsExact(s, gen)' => IsExact(s, gen)
      BY <1>1, <1>3, <1>5, <3>1 DEF IsExact, IsDoc
    <3>3. \A s \in Slots \ {Pre(gen)} : ~ IsExact(s, gen)
      BY <2>2, <3>1 DEF Docs, Alone, IsExact, IsDoc
    <3>4. IsExact(Pre(gen), gen)' => disk'[Pre(gen)] = Old(gen)
      BY <1>1, <1>5, <3>1, AtWork DEF IsExact, IsDoc
    <3> QED
      BY <1>1, <1>2, <2>2, <3>1, <3>2, <3>3, <3>4 DEF FencePc, Exists, IsExact, IsDoc
  <2> QED
    BY <2>1, <2>2
<1>8. EndPcs'
  BY <1>1, <1>2, <1>3, <1>5 DEF EndPcs, Ends
<1> QED
  BY <1>4, <1>6, <1>7, <1>8, WorkEnds

LEMMA CreateBase ==
    ASSUME Inv, NameInv, TypedOnly, BaseBehind, Docs, Pcs, ApplyCreate
    PROVE  Docs' /\ Pcs'
<1>1. task.pc = "create" /\ task.pc \in Working /\ task.pc \in Applying \ {"validate", "tidy"}
  BY DEF ApplyCreate, Working, Applying
<1>2. versions[gen] = Absent /\ versions[gen + 1] # Absent
  BY <1>1, AtEntry DEF Inv, TaskOK
<1>3. NoneSpoiled
  <2>1. gen = 1
    <3>1. gen \in Nat /\ gen >= 1 /\ gen < Len(versions) /\ Len(versions) \in Nat
      BY <1>1, AtWork DEF Inv, StoreOK, Version
    <3>2. ASSUME gen # 1
          PROVE  FALSE
      <4>1. PICK i \in 1..(Len(versions) - 1) : i + 1 = gen
        <5>1. gen - 1 \in 1..(Len(versions) - 1) /\ (gen - 1) + 1 = gen
          BY <3>1, <3>2
        <5> QED
          BY <5>1
      <4>2. versions[i + 1] = Absent /\ EndsOnce
        BY <1>2, <4>1 DEF Inv
      <4>3. versions[i + 1] = Absent => i + 1 = Len(versions)
        BY <4>2 DEF EndsOnce
      <4> QED
        BY <3>1, <4>1, <4>2, <4>3
    <3> QED
      BY <3>2
  <2> QED
    BY <2>1 DEF NoneSpoiled, Earlier, Deltas
<1>4. CASE Put(File(versions[gen + 1]), New(gen)) /\ Finish("applied", Missing)
  <2>1. PICK f \in Slots \ Retained : f = File(versions[gen + 1])
    BY <1>1, <1>2, AtWork
  <2>2. PutsAt(f, New(gen))
    BY <1>1, <1>4, <2>1, AtWork, OpsOnSlots
  <2> QED
    BY <1>2, <1>3, <1>4, <2>1, <2>2, EndsApplied
<1>5. CASE NoFileChange /\ Exists(File(versions[gen + 1]))
           /\ Finish(IF disk[File(versions[gen + 1])] = New(gen) THEN "applied" ELSE "conflict", Missing)
  <2>1. Finish("conflict", Missing)
    BY <1>1, <1>2, <1>5, AtWork
  <2>2. Docs' /\ \A s \in Slots : disk'[s].kind = "doc" => disk'[s].of <= gen
    BY <1>5, WorkStill
  <2> QED
    BY <2>1, <2>2, EndsQuietly
<1> QED
  BY <1>4, <1>5 DEF ApplyCreate

LEMMA ThreeWayBase ==
    ASSUME Inv, NameInv, TypedOnly, BaseBehind, Docs, Pcs, ThreeWay
    PROVE  Docs' /\ Pcs'
<1> DEFINE file == File(path.local)
           pre == Pre(gen)
<1>1. task.pc \in InPlace /\ task.pc \in Working /\ task.pc \in Applying \ {"validate", "tidy"}
  BY DEF ThreeWay, InPlace, Working, Applying
<1>2. /\ task \in Tasks /\ gen \in Deltas /\ gen \in Nat /\ file \in Slots \ Retained /\ pre \in Slots /\ pre # file
      /\ versions[gen] # Absent /\ versions[gen + 1] # Absent /\ Old(gen) # Missing
      /\ path.base \in Nat /\ path.base <= gen
  BY <1>1, AtWork DEF Inv, TaskOK, StoreOK, Paths, BaseBehind
<1>3. ~ Renames(gen) /\ ~ Renames(gen)' /\ BaseMatches(gen)'
  BY <1>1, WorkKeeps DEF Pcs, ApplyPcs
<1>4. gen' = gen /\ path' = path /\ (Whole' <=> Whole) /\ versions' = versions
  BY WorkKeeps
<1>5. ASSUME Docs', \A s \in Slots : disk'[s].kind = "doc" => disk'[s].of <= gen,
             task'.pc \in {"idle", "fenced"}
      PROVE  Docs' /\ Pcs'
  <2>1. ApplyPcs'
    BY <1>3, <1>4, <1>5 DEF ApplyPcs, Verified, Fenced, InPlace, Applying
  <2> QED
    BY <1>5, <2>1, WorkGoesOn DEF Fenced
<1>6. CASE Fail \/ (Abort /\ NoStoreChange)
  <2>1. task'.pc = "idle" /\ NoFileChange
    BY <1>6 DEF Fail, Abort, IdleTask
  <2> QED
    BY <1>5, <2>1, WorkStill
<1>7. CASE task.pc = "three-way" /\ ~ Fail
  <2> DEFINE displaced == disk[pre] \notin {Missing, Old(gen)}
             local == IF displaced THEN disk[pre] ELSE disk[file]
  <2>1. NoFileChange
    BY <1>7 DEF ThreeWay
  <2>2. Docs' /\ disk' = disk /\ \A s \in Slots : disk'[s].kind = "doc" => disk'[s].of <= gen
    BY <2>1, WorkStill
  <2>3. CASE Goto("fenced")
    BY <1>2, <1>5, <2>2, <2>3, TaskFields
  <2>4. ~ HasMerged(local)
    BY <1>1, <1>2, AtWork, TextFields DEF HasMerged, Merged, IsDoc
  <2>5. CASE /\ path.base = path.payload + 1 /\ MergesCleanly(path.base, local)
             /\ task' = [task EXCEPT !.seen = local, !.pc = IF displaced THEN "merge" ELSE "displace"]
    <3>1. /\ task'.pc = (IF displaced THEN "merge" ELSE "displace") /\ task'.seen = local
      BY <1>2, <2>5 DEF Tasks
    <3>2. Whole /\ local.kind = "doc" /\ local.of = path.base
      BY <2>5 DEF MergesCleanly, Whole
    <3> DEFINE home == IF displaced THEN pre ELSE file
    <3>3. home \in Slots /\ IsDoc(home, path.base) /\ \A s \in Slots : IsDoc(s, path.base) => s = home
      BY <1>2, <3>2 DEF Docs, Alone, IsDoc
    <3>4. \A s \in Slots : IsDoc(s, path.base)' => s = home
      BY <1>4, <2>2, <3>3 DEF IsDoc
    <3> HIDE DEF displaced, local
    <3>5. ApplyPcs'
      BY <1>3, <1>4, <3>1, <3>2, <3>4 DEF ApplyPcs, Verified, Fenced, InPlace, Applying
    <3> QED
      BY <2>2, <3>1, <3>5, WorkGoesOn DEF InPlace
  <2> QED
    BY <1>7, <2>3, <2>4, <2>5 DEF ThreeWay
<1>8. CASE task.pc = "displace" /\ CanMove(file, pre) /\ Move(file, pre) /\ Goto("merge")
  <2>1. Docs' /\ MovesTo(file, pre) /\ \A s \in Slots : disk'[s].kind = "doc" => disk'[s].of <= gen
    BY <1>2, <1>8, WorkMoves DEF CanMove
  <2>2. task'.pc = "merge" /\ task'.seen = task.seen
    BY <1>2, <1>8, TaskFields
  <2>3. /\ Whole /\ task.seen.kind = "doc" /\ task.seen.of = path.base
        /\ \A s \in Slots : IsDoc(s, path.base) => s = file
    BY <1>8 DEF Pcs, ApplyPcs
  <2>4. \A s \in Slots : IsDoc(s, path.base)' => s = pre
    BY <1>2, <1>4, <2>1, <2>3, TextFields DEF MovesTo, IsDoc
  <2>5. ApplyPcs'
    BY <1>3, <1>4, <2>2, <2>3, <2>4 DEF ApplyPcs, Verified, Fenced, InPlace, Applying
  <2> QED
    BY <2>1, <2>2, <2>5, WorkGoesOn DEF InPlace
<1>9. CASE task.pc = "merge"
  <2>1. /\ Whole /\ task.seen.kind = "doc" /\ task.seen.of = path.base
        /\ \A s \in Slots : IsDoc(s, path.base) => s = pre
    BY <1>9 DEF Pcs, ApplyPcs
  <2>2. path.payload + 1 = gen => path.base = gen
    BY <2>1 DEF Whole
  <2>3. CASE ~ Exists(file) /\ Move(pre, file) /\ Finish("conflict", Old(gen))
    <3>1. Docs' /\ MovesTo(pre, file) /\ \A s \in Slots : disk'[s].kind = "doc" => disk'[s].of <= gen
      BY <1>2, <2>3, WorkMoves
    <3>2. ~ Exists(pre)'
      BY <1>2, <1>4, <3>1 DEF MovesTo, Exists
    <3> QED
      BY <1>2, <2>3, <3>1, <3>2, EndsInConflict
  <2>4. CASE NoFileChange /\ Finish("conflict", Old(gen))
    <3>1. /\ Docs' /\ disk' = disk /\ \A s \in Slots : disk'[s].kind = "doc" => disk'[s].of <= gen
      BY <2>4, WorkStill
    <3>2. IsExact(pre, gen)' => disk'[pre] = Old(gen)
      BY <1>1, <1>2, <1>4, <3>1, AtWork DEF IsExact, IsDoc
    <3>3. path.payload + 1 = gen => \A s \in Slots \ {pre} : ~ IsExact(s, gen)'
      BY <1>4, <2>1, <2>2, <3>1 DEF IsExact, IsDoc
    <3>4. \A s \in Slots \ {pre} :
             ~ (disk'[s].kind = "doc" /\ disk'[s].of = path.base /\ disk'[s].edits = {})
      BY <2>1, <3>1 DEF IsDoc
    <3> QED
      BY <1>2, <2>4, <3>1, <3>2, <3>3, <3>4, EndsInConflict
  <2>5. CASE /\ disk[pre] = task.seen
             /\ Put(file, Merged(gen, task.seen)) /\ Finish("merged", task.seen)
    <3> DEFINE t == Merged(gen, task.seen)
    <3>1. t.kind = "doc" /\ t.of = gen + 1 /\ t.edits = task.seen.edits
      BY TextFields DEF Merged
    <3>2. PutsAt(file, t)
      BY <1>1, <1>2, <2>5, AtWork, OpsOnSlots
    <3> HIDE DEF t
    <3>3. task.seen.edits # {} \/ \A d \in Earlier : ~ Lying(d)
      <4> SUFFICES ASSUME NEW d \in Earlier, Lying(d)
                   PROVE  task.seen.edits # {}
        OBVIOUS
      <4>1. pre # Pre(d)
        BY RetainedApart, <1>2 DEF Earlier
      <4>2. ~ IsExact(pre, path.base)
        BY <1>2, <2>1, <4>1 DEF Docs, BaseEdited
      <4> QED
        BY <2>1, <2>5, <4>2 DEF IsExact, IsDoc
    <3>4. Docs'
      BY <1>1, <1>2, <3>1, <3>2, <3>3, WorkKeeps, AtWork, PutDocs
    <3>5. task'.pc = "fence" /\ task'.result = "merged" /\ task'.fence = task.seen /\ task.seen # Missing
      BY <1>2, <2>1, <2>5, TaskFields, TextFields
    <3>6. disk'[file] = t /\ \A s \in Slots \ {file} : disk'[s] = disk[s]
      BY <3>2 DEF PutsAt
    <3>7. NotAhead'
      BY <1>1, <1>2, <1>4, <3>1, <3>5, <3>6, AtWork DEF NotAhead, Ends
    <3>8. FencePc'
      <4>1. disk'[pre] = task.seen
        BY <1>2, <2>5, <3>6
      <4>2. path.payload + 1 = gen => \A s \in Slots \ {pre} : ~ IsExact(s, gen)'
        BY <1>2, <1>4, <2>1, <2>2, <3>1, <3>6 DEF IsExact, IsDoc
      <4> QED
        BY <1>4, <3>5, <4>1, <4>2 DEF FencePc, IsExact, IsDoc
    <3>9. EndPcs'
      BY <3>5 DEF EndPcs, Ends
    <3> QED
      BY <2>5, <3>4, <3>7, <3>8, <3>9, WorkEnds
  <2> QED
    BY <1>6, <1>9, <2>3, <2>4, <2>5 DEF ThreeWay
<1> QED
  BY <1>1, <1>6, <1>7, <1>8, <1>9 DEF ThreeWay, TryMove, InPlace

\* At a step after the old version was seen in the preimage, no other slot shows it,
\* nor the merge base.
LEMMA VerifiedAlone ==
    ASSUME Inv, NameInv, Docs, Pcs, task.pc \in Working, versions[gen] # Absent, IsDoc(Pre(gen), gen)
    PROVE  /\ \A s \in Slots \ {Pre(gen)} : ~ IsDoc(s, gen)
           /\ Whole => \A s \in Slots \ {Pre(gen)} : ~ IsExact(s, path.base)
<1>1. Pre(gen) \in Slots /\ ExpectedVersion = gen
  BY AtWork
<1>2. \A s \in Slots \ {Pre(gen)} : ~ IsDoc(s, gen)
  BY <1>1 DEF Docs, Alone, IsDoc
<1>3. CASE path.state = "conflicted"
  BY <1>1, <1>2, <1>3 DEF Docs, OldBaseEdited
<1>4. CASE path.state # "conflicted"
  <2>1. path.base = gen
    BY <1>1, <1>4 DEF ExpectedVersion
  <2> QED
    BY <1>2, <2>1 DEF IsExact
<1> QED
  BY <1>2, <1>3, <1>4

\* The displaced inode, with the old version in it, stays when the file is not taken.
LEMMA EndsBeside ==
    ASSUME Inv, NameInv, TypedOnly, Docs, Pcs, FencedUpdate,
           versions[gen] # Absent, IsDoc(Pre(gen), gen), NoFileChange, Finish("conflict", Old(gen))
    PROVE  Docs' /\ Pcs'
<1>1. /\ Docs' /\ disk' = disk /\ \A s \in Slots : disk'[s].kind = "doc" => disk'[s].of <= gen
  BY WorkStill
<1>2. gen' = gen /\ task.pc \in Working /\ Pre(gen) \in Slots
  BY WorkKeeps, AtWork
<1>3. IsExact(Pre(gen), gen)' => disk'[Pre(gen)] = Old(gen)
  BY <1>1, <1>2, AtWork DEF IsExact, IsDoc
<1>4. \A s \in Slots \ {Pre(gen)} : ~ IsExact(s, gen)'
  BY <1>1, <1>2, VerifiedAlone DEF IsExact, IsDoc
<1>5. Whole => \A s \in Slots \ {Pre(gen)} :
          ~ (disk'[s].kind = "doc" /\ disk'[s].of = path.base /\ disk'[s].edits = {})
  BY <1>1, <1>2, VerifiedAlone DEF IsExact, IsDoc
<1> QED
  BY <1>1, <1>3, <1>4, <1>5, EndsInConflict

LEMMA FencedUpdateBase ==
    ASSUME Inv, NameInv, TypedOnly, BaseBehind, Docs, Pcs, FencedUpdate
    PROVE  Docs' /\ Pcs'
<1> DEFINE file == File(path.local)
           pre == Pre(gen)
<1>1. task.pc \in Fenced /\ task.pc \in Working /\ task.pc \in Applying \ {"validate", "tidy"}
  BY DEF FencedUpdate, Fenced, Working, Applying
<1>2. /\ task \in Tasks /\ gen \in Deltas /\ gen \in Nat /\ file \in Slots \ Retained /\ pre \in Slots /\ pre # file
      /\ versions[gen] # Absent /\ Old(gen) # Missing
  BY <1>1, AtWork DEF Inv, TaskOK
<1>3. ~ Renames(gen) /\ ~ Renames(gen)' /\ BaseMatches(gen)'
  BY <1>1, WorkKeeps DEF Pcs, ApplyPcs
<1>4. gen' = gen /\ (NoneSpoiled' <=> NoneSpoiled)
  BY WorkKeeps
<1>5. ASSUME Docs', \A s \in Slots : disk'[s].kind = "doc" => disk'[s].of <= gen,
             NEW pc \in {"idle", "fenced", "putback", "move", "verify", "place"}, task'.pc = pc,
             pc \in {"verify", "place"} => IsDoc(Pre(gen), gen)',
             pc \in {"verify", "place", "move"} => NoneSpoiled
      PROVE  Docs' /\ Pcs'
  <2>1. ApplyPcs'
    <3>1. IsDoc(Pre(gen), gen)' => IsDoc(Pre(gen), gen)'
      OBVIOUS
    <3> QED
      BY <1>3, <1>4, <1>5 DEF ApplyPcs, Verified, Fenced, InPlace, Applying
  <2> QED
    BY <1>5, <2>1, WorkGoesOn DEF Fenced
<1>6. ASSUME NoFileChange, NEW pc \in {"fenced", "putback", "move", "verify", "place"}, Goto(pc),
             pc \in {"verify", "place"} => IsDoc(Pre(gen), gen),
             pc \in {"verify", "place", "move"} => NoneSpoiled
      PROVE  Docs' /\ Pcs'
  <2>1. /\ Docs' /\ disk' = disk /\ \A s \in Slots : disk'[s].kind = "doc" => disk'[s].of <= gen
    BY <1>6, WorkStill
  <2>2. task'.pc = pc
    BY <1>2, <1>6, TaskFields
  <2>3. IsDoc(Pre(gen), gen)' <=> IsDoc(Pre(gen), gen)
    BY <1>4, <2>1 DEF IsDoc
  <2> QED
    BY <1>5, <1>6, <2>1, <2>2, <2>3
<1>7. ASSUME NoFileChange, task' = IdleTask
      PROVE  Docs' /\ Pcs'
  <2>1. task'.pc = "idle"
    BY <1>7 DEF IdleTask
  <2> QED
    BY <1>5, <1>7, <2>1, WorkStill
<1>8. \A s \in Slots : disk[s] = Old(gen) => NoneSpoiled /\ IsDoc(s, gen)
  BY <1>1, <1>2, AtWork, ExactOldUnspoiled DEF IsExact
<1>9. disk[file] = New(gen) => versions[gen + 1] = Absent /\ ~ Exists(file) /\ Done(gen) = "deleted"
  BY <1>1, <1>2, AtWork DEF New, Image, Exists, Done
<1>10. CASE task.pc = "fenced"
  <2>1. NoFileChange
    BY <1>10 DEF FencedUpdate
  <2>2. CASE disk[pre] = Missing /\ disk[file] = New(gen) /\ Finish(Done(gen), Missing)
    BY <1>2, <1>9, <2>1, <2>2, WorkStill, EndsQuietly
  <2>3. CASE disk[file] = Old(gen) /\ Goto("move")
    BY <1>2, <1>6, <1>8, <2>1, <2>3
  <2>4. CASE Finish("conflict", Missing)
    BY <2>1, <2>4, WorkStill, EndsQuietly
  <2>5. CASE disk[pre] = Old(gen) /\ Goto("verify")
    BY <1>2, <1>6, <1>8, <2>1, <2>5
  <2>6. CASE task' = IdleTask \/ Goto("putback")
    BY <1>6, <1>7, <2>1, <2>6
  <2> QED
    BY <1>10, <2>2, <2>3, <2>4, <2>5, <2>6 DEF FencedUpdate
<1>11. CASE task.pc = "move"
  <2>1. CASE Goto("fenced") /\ NoFileChange
    BY <1>6, <2>1
  <2>2. CASE CanMove(file, pre) /\ Move(file, pre) /\ Goto("fenced")
    BY <1>2, <1>5, <2>2, WorkMoves, TaskFields DEF CanMove
  <2> QED
    BY <1>7, <1>11, <2>1, <2>2 DEF FencedUpdate, TryMove, Abort
<1>12. CASE task.pc = "verify"
  <2>1. NoFileChange /\ IsDoc(Pre(gen), gen) /\ NoneSpoiled
    BY <1>12 DEF FencedUpdate, Pcs, ApplyPcs, Verified
  <2> QED
    BY <1>6, <1>7, <1>9, <1>12, <2>1 DEF FencedUpdate
<1>13. CASE task.pc = "place"
  <2>1. IsDoc(Pre(gen), gen) /\ NoneSpoiled
    BY <1>13 DEF Pcs, ApplyPcs, Verified
  <2>2. CASE disk[file] = New(gen) /\ Finish(Done(gen), Old(gen)) /\ NoFileChange
    <3>1. /\ Docs' /\ disk' = disk /\ \A s \in Slots : disk'[s].kind = "doc" => disk'[s].of <= gen
      BY <2>2, WorkStill
    <3>2. task'.pc = "fence" /\ task'.result = "deleted" /\ task'.fence = Old(gen)
          /\ versions[gen + 1] = Absent /\ versions' = versions
      <4>1. Done(gen) = "deleted" /\ versions[gen + 1] = Absent
        BY <1>9, <2>2
      <4>2. Finish("deleted", Old(gen))
        BY <2>2, <4>1
      <4>3. task'.pc = "fence" /\ task'.result = "deleted" /\ task'.fence = Old(gen)
        <5>1. task \in Tasks /\ Old(gen) # Missing
          BY <1>2
        <5> QED
          BY <4>2, <5>1 DEF Finish, Tasks
      <4>4. versions' = versions
        BY DEF FencedUpdate
      <4> QED
        BY <4>1, <4>3, <4>4
    <3>3. NotAhead'
      BY <1>4, <3>1 DEF NotAhead
    <3>4. IsExact(pre, gen)' => disk'[pre] = Old(gen)
      BY <1>1, <1>2, <1>4, <3>1, AtWork DEF IsExact, IsDoc
    <3>5. \A s \in Slots \ {pre} : ~ IsExact(s, gen)'
      BY <1>1, <1>2, <1>4, <2>1, <3>1, VerifiedAlone DEF IsExact, IsDoc
    <3>6. FencePc'
      BY <1>2, <1>4, <3>2, <3>4, <3>5 DEF FencePc, IsExact, IsDoc
    <3>7. EndPcs'
      BY <1>4, <3>2 DEF EndPcs, Ends
    <3> QED
      BY <2>2, <3>1, <3>3, <3>6, <3>7, WorkEnds
  <2>3. CASE Finish("conflict", Old(gen)) /\ NoFileChange
    BY <1>2, <2>1, <2>3, EndsBeside
  <2>4. CASE disk[file] # New(gen) /\ Put(file, New(gen)) /\ Finish("applied", Old(gen))
    <3>1. PutsAt(file, New(gen))
      BY <1>1, <1>2, <2>4, AtWork, OpsOnSlots
    <3>2. versions[gen + 1] # Absent
      BY <2>4 DEF Put, Exists, New, Image
    <3>3. path.local = versions[gen + 1]
      <4>1. path.local = versions[gen]
        BY <1>2, <2>1 DEF Docs, Follows
      <4> QED
        BY <1>2, <1>3, <3>2, <4>1 DEF Renames
    <3> QED
      BY <1>2, <2>1, <2>4, <3>1, <3>2, <3>3, EndsApplied
  <2> QED
    BY <1>13, <2>2, <2>3, <2>4 DEF FencedUpdate
<1>14. CASE task.pc = "undo"
  BY <1>14 DEF Pcs, ApplyPcs
<1>15. CASE task.pc = "putback"
  <2>1. CASE CanMove(pre, file) /\ Move(pre, file) /\ Finish("conflict", Old(gen))
    <3>1. Docs' /\ MovesTo(pre, file) /\ \A s \in Slots : disk'[s].kind = "doc" => disk'[s].of <= gen
      BY <1>2, <2>1, WorkMoves DEF CanMove
    <3>2. ~ Exists(pre)'
      BY <1>2, <1>4, <3>1 DEF MovesTo, Exists
    <3> QED
      BY <1>2, <2>1, <3>1, <3>2, EndsInConflict
  <2> QED
    BY <1>7, <1>15, <2>1 DEF FencedUpdate, Abort
<1> QED
  BY <1>1, <1>10, <1>11, <1>12, <1>13, <1>14, <1>15 DEF Fenced

LEMMA FencedRenameBase ==
    ASSUME Inv, NameInv, TypedOnly, BaseBehind, Docs, Pcs, FencedRename
    PROVE  Docs' /\ Pcs'
<1> DEFINE from == File(path.local)
           to == File(versions[gen + 1])
           pre == Pre(gen)
<1>1. task.pc \in Renaming /\ task.pc \in Working /\ task.pc \in Applying \ {"validate", "tidy"}
  BY DEF FencedRename, Renaming, Working, Applying
<1>2. /\ task \in Tasks /\ gen \in Deltas /\ gen \in Nat /\ from \in Slots /\ pre \in Slots /\ pre # from
      /\ versions[gen] # Absent /\ versions[gen + 1] # Absent /\ Old(gen) # Missing
      /\ to \in Slots \ Retained
  BY <1>1, AtWork DEF Inv, TaskOK
<1>3. BaseMatches(gen)' /\ gen' = gen /\ (NoneSpoiled' <=> NoneSpoiled)
  BY WorkKeeps
<1>4. \A s \in Slots : disk[s] # New(gen)
  BY <1>1, <1>2, AtWork
<1>5. ASSUME Docs', \A s \in Slots : disk'[s].kind = "doc" => disk'[s].of <= gen,
             NEW pc \in Renaming \cup {"idle"}, task'.pc = pc,
             pc \in {"rename-verify", "rename-place"} => IsDoc(Pre(gen), gen)' /\ task'.seen = Missing,
             pc \in {"rename-verify", "rename-place", "rename-move"} => NoneSpoiled
      PROVE  Docs' /\ Pcs'
  <2>1. ApplyPcs'
    <3>1. IsDoc(Pre(gen), gen)' => IsDoc(Pre(gen), gen)'
      OBVIOUS
    <3> QED
      BY <1>3, <1>5 DEF ApplyPcs, Verified, Fenced, InPlace, Renaming, Applying
  <2> QED
    BY <1>5, <2>1, WorkGoesOn
<1>6. ASSUME NoFileChange, NEW pc \in Renaming, task'.pc = pc,
             pc \in {"rename-verify", "rename-place"} => IsDoc(Pre(gen), gen) /\ task'.seen = Missing,
             pc \in {"rename-verify", "rename-place", "rename-move"} => NoneSpoiled
      PROVE  Docs' /\ Pcs'
  <2>1. /\ Docs' /\ disk' = disk /\ \A s \in Slots : disk'[s].kind = "doc" => disk'[s].of <= gen
    BY <1>6, WorkStill
  <2>2. IsDoc(Pre(gen), gen)' <=> IsDoc(Pre(gen), gen)
    BY <1>3, <2>1 DEF IsDoc
  <2> QED
    BY <1>5, <1>6, <2>1, <2>2
<1>7. ASSUME NoFileChange, task' = IdleTask
      PROVE  Docs' /\ Pcs'
  <2>1. task'.pc = "idle"
    BY <1>7 DEF IdleTask
  <2> QED
    BY <1>5, <1>7, <2>1, WorkStill
<1>8. \A s \in Slots : disk[s] = Old(gen) => NoneSpoiled /\ IsDoc(s, gen)
  BY <1>1, <1>2, AtWork, ExactOldUnspoiled DEF IsExact
<1>9. ASSUME NoFileChange, Finish("conflict", Missing)
      PROVE  Docs' /\ Pcs'
  BY <1>9, WorkStill, EndsQuietly
<1>10. CASE task.pc = "rename"
  <2>1. NoFileChange /\ disk[to] # New(gen)
    BY <1>2, <1>4, <1>10 DEF FencedRename
  <2>2. CASE /\ disk[to] = Missing /\ disk[pre] = Old(gen)
             /\ task' = [task EXCEPT !.pc = "rename-verify", !.seen = disk[to]]
    <3>1. task'.pc = "rename-verify" /\ task'.seen = Missing
      BY <1>2, <2>2 DEF Tasks
    <3> QED
      BY <1>2, <1>6, <1>8, <2>1, <2>2, <3>1 DEF Renaming
  <2>3. CASE disk[from] = Old(gen) /\ Goto("rename-move")
    <3>1. task'.pc = "rename-move"
      BY <1>2, <2>3, TaskFields
    <3> QED
      BY <1>2, <1>6, <1>8, <2>1, <2>3, <3>1 DEF Renaming
  <2> QED
    BY <1>9, <1>10, <2>1, <2>2, <2>3 DEF FencedRename
<1>11. CASE task.pc = "rename-move"
  <2>1. NoneSpoiled
    BY <1>11 DEF Pcs, ApplyPcs
  <2>2. CASE CanMove(from, pre) /\ Move(from, pre) /\ Goto("rename")
    <3>1. task'.pc = "rename"
      BY <1>2, <2>2, TaskFields
    <3> QED
      BY <1>2, <1>5, <2>2, <3>1, WorkMoves DEF CanMove, Renaming
  <2> QED
    BY <1>7, <1>11, <2>2 DEF FencedRename, TryMove, Abort
<1>12. CASE task.pc = "rename-verify"
  <2>1. NoFileChange /\ IsDoc(Pre(gen), gen) /\ NoneSpoiled /\ task.seen = Missing
    BY <1>12 DEF FencedRename, Pcs, ApplyPcs, Verified
  <2>2. ASSUME NEW pc \in {"rename-place", "rename-undo"}, Goto(pc)
        PROVE  Docs' /\ Pcs'
    <3>1. task'.pc = pc /\ task'.seen = Missing
      BY <1>2, <2>1, <2>2, TaskFields
    <3> QED
      BY <1>6, <2>1, <2>2, <3>1 DEF Renaming
  <2> QED
    BY <1>9, <1>12, <2>1, <2>2 DEF FencedRename
<1>13. CASE task.pc = "rename-undo"
  <2>1. CASE CanMove(pre, from) /\ Move(pre, from) /\ Finish("conflict", Missing)
    <3>1. Docs' /\ \A s \in Slots : disk'[s].kind = "doc" => disk'[s].of <= gen
      BY <1>2, <2>1, WorkMoves DEF CanMove
    <3> QED
      BY <2>1, <3>1, EndsQuietly
  <2> QED
    BY <1>7, <1>13, <2>1 DEF FencedRename, Abort
<1>14. CASE task.pc = "rename-place"
  <2>1. IsDoc(Pre(gen), gen) /\ NoneSpoiled /\ task.seen = Missing
    BY <1>14 DEF Pcs, ApplyPcs, Verified
  <2>2. New(gen) # Missing
    BY <1>2 DEF New, Image, Text, Missing
  <2>3. CASE Goto("rename") /\ NoFileChange
    <3>1. task'.pc = "rename"
      BY <1>2, <2>3, TaskFields
    <3> QED
      BY <1>6, <2>3, <3>1 DEF Renaming
  <2>4. CASE Put(to, New(gen)) /\ Finish("applied", Old(gen))
    <3>1. PutsAt(to, New(gen))
      BY <1>1, <1>2, <2>4, AtWork, OpsOnSlots
    <3> HIDE DEF pre
    <3>2. PICK f \in Slots \ Retained : f = to
      BY <1>2
    <3>3. PutsAt(f, New(gen)) /\ f = File(versions[gen + 1])
      BY <3>1, <3>2
    <3>4. IsDoc(Pre(gen), gen) /\ versions[gen] # Absent /\ versions[gen + 1] # Absent
      BY <1>2, <2>1
    <3> QED
      BY <2>1, <2>4, <3>2, <3>3, <3>4, EndsApplied
  <2> QED
    BY <1>14, <2>1, <2>2, <2>3, <2>4 DEF FencedRename
<1> QED
  BY <1>1, <1>10, <1>11, <1>12, <1>13, <1>14 DEF Renaming

-----------------------------------------------------------------------------
(* The life of a delta, on the files as they are *)

LEMMA StillDocs ==
    ASSUME Inv, TypedOnly, NoFileChange, SameStore, Docs
    PROVE  Docs'
  BY OpsOnSlots, SlipDocs DEF Inv

\* No entry is at its end, so no version is ahead and every row belongs to a delta done.
LEMMA NothingAhead ==
    ASSUME Pcs, task.pc \notin {"fence", "record", "complete"}
    PROVE  /\ \A s \in Slots : disk[s].kind = "doc" => disk[s].of <= gen
           /\ \A d \in Deltas : evidence[d].kept \/ outcomes[d] # "none" => d < gen
  BY DEF Pcs, NotAhead, RowsInTime, Ends

LEMMA IdlePcs ==
    ASSUME Pcs, task.pc \notin {"fence", "record", "complete"}, disk' = disk, SameStore,
           task'.pc = "idle"
    PROVE  Pcs'
<1>1. NotAhead' /\ RowsInTime'
  BY NothingAhead DEF NotAhead, RowsInTime, SameStore
<1> QED
  BY <1>1 DEF Pcs, Swept, ReviewPcs, ApplyPcs, FencePc, EndPcs, Ends, Verified, Fenced, InPlace,
              Reviewing, Applying

LEMMA NextReviewPcs ==
    ASSUME Inv, NEW d \in Nat, NextReview(d), gen' = gen, disk' = disk,
           \A s \in Slots : disk[s].kind = "doc" => disk[s].of <= gen,
           \A i \in Deltas : i > d => evidence'[i] = evidence[i],
           \A i \in Deltas : evidence'[i].kept \/ outcomes'[i] # "none" => i < gen,
           \A i \in Deltas : i <= d /\ Spoiled(i)' => Exists(Pre(i))
    PROVE  Pcs'
<1>1. NotAhead' /\ RowsInTime'
  BY DEF NotAhead, RowsInTime
<1>2. gen \in Nat /\ Deltas \subseteq Nat
  BY DEF Inv, StoreOK, Deltas
<1>3. \A i \in Deltas : Exists(Pre(i))' <=> Exists(Pre(i))
  BY DEF Exists
<1>4. \A i \in Deltas : i > d /\ i < gen /\ Spoiled(i)' => i \in Unreviewed(d)
  <2> SUFFICES ASSUME NEW i \in Deltas, i > d, i < gen, Spoiled(i)'
               PROVE  i \in Unreviewed(d)
    OBVIOUS
  <2>1. evidence[i].kept
    BY DEF Spoiled
  <2>2. i \in (d + 1)..(gen - 1)
    BY <1>2
  <2> QED
    BY <2>1, <2>2 DEF Unreviewed
<1>5. CASE Unreviewed(d) = {} /\ task' = [IdleTask EXCEPT !.pc = "validate"]
  <2>1. task'.pc = "validate"
    BY <1>5 DEF IdleTask
  <2>2. Swept'
    BY <1>2, <1>3, <1>4, <1>5, <2>1 DEF Swept, Earlier, Reviewing
  <2> QED
    BY <1>1, <2>1, <2>2 DEF Pcs, ReviewPcs, ApplyPcs, FencePc, EndPcs, Ends, Verified, Fenced, InPlace
<1>6. ASSUME NEW i \in Unreviewed(d), \A j \in Unreviewed(d) : i <= j,
             task' = [IdleTask EXCEPT !.pc = "review", !.d = i]
      PROVE  Pcs'
  <2>1. task'.pc = "review" /\ task'.d = i
    BY <1>6 DEF IdleTask
  <2>2. i \in Nat /\ i < gen
    BY <1>2 DEF Unreviewed
  <2>3. \A c \in Deltas : c < i /\ Spoiled(c)' => Exists(Pre(c))'
    <3> SUFFICES ASSUME NEW c \in Deltas, c < i, Spoiled(c)'
                 PROVE  Exists(Pre(c))
      BY <1>3
    <3> QED
      BY <1>2, <1>4, <1>6, <2>2
  <2>4. Swept'
    BY <2>1, <2>3 DEF Swept, Applying
  <2> QED
    BY <1>1, <2>1, <2>4 DEF Pcs, ReviewPcs, ApplyPcs, FencePc, EndPcs, Ends, Verified, Fenced,
                            InPlace, Applying
<1> QED
  BY <1>5, <1>6 DEF NextReview

LEMMA StartBase ==
    ASSUME Inv, NameInv, TypedOnly, Docs, Pcs, Start
    PROVE  Docs' /\ Pcs'
<1>1. NoFileChange /\ SameStore /\ disk' = disk /\ gen' = gen /\ evidence' = evidence
      /\ outcomes' = outcomes /\ versions' = versions /\ task.pc = "idle"
  BY DEF Start, Begin, NoFileChange, SameStore, store
<1>2. Docs'
  BY <1>1, StillDocs
<1>3. CASE task' = task
  <2>1. FilesOK
    BY DEF Inv
  <2>2. Slip
    BY <1>1, <2>1, OpsOnSlots
  <2> QED
    BY <1>1, <1>2, <1>3, <2>2, SlipPcs
<1>4. CASE NextReview(0)
  <2>1. \A i \in Deltas : ~ (i <= 0)
    BY DEF Deltas
  <2>2. task.pc \notin {"fence", "record", "complete"}
    BY <1>1
  <2>3. /\ \A s \in Slots : disk[s].kind = "doc" => disk[s].of <= gen
        /\ \A d \in Deltas : evidence[d].kept \/ outcomes[d] # "none" => d < gen
    BY <2>2, NothingAhead
  <2>4. \A d \in Deltas : evidence'[d].kept \/ outcomes'[d] # "none" => d < gen
    BY <1>1, <2>3
  <2>5. 0 \in Nat /\ \A i \in Deltas : i > 0 => evidence'[i] = evidence[i]
    BY <1>1
  <2>6. \A i \in Deltas : i <= 0 /\ Spoiled(i)' => Exists(Pre(i))
    BY <2>1
  <2> QED
    BY <1>1, <1>2, <1>4, <2>3, <2>4, <2>5, <2>6, NextReviewPcs
<1> QED
  BY <1>2, <1>3, <1>4 DEF Start, Begin

LEMMA ValidateBase ==
    ASSUME Inv, NameInv, TypedOnly, Docs, Pcs, Validate
    PROVE  Docs' /\ Pcs'
<1>1. NoFileChange /\ disk' = disk /\ versions' = versions /\ task.pc = "validate"
  BY DEF Validate, ReconcileStaging, Fail, Abort, NoFileChange
<1>2. CASE UNCHANGED store /\ task'.pc = "idle"
  <2>1. SameStore
    BY <1>1, <1>2 DEF SameStore, store
  <2> QED
    BY <1>1, <1>2, <2>1, StillDocs, IdlePcs
<1>3. CASE BaseMatches(gen) /\ active' = TRUE /\ UNCHANGED <<gen, path, outcomes, evidence>>
           /\ task' = [IdleTask EXCEPT !.pc = "stage", !.d = gen]
  <2>1. task'.pc = "stage"
    BY <1>3 DEF IdleTask
  <2>2. \A d : /\ Spoiled(d)' <=> Spoiled(d)
               /\ Lying(d)' <=> Lying(d)
               /\ Changed(d)' <=> Changed(d)
    BY <1>1, <1>3 DEF Spoiled, Lying, Changed, Exists
  <2>3. \A s, v : (IsDoc(s, v)' <=> IsDoc(s, v)) /\ (IsExact(s, v)' <=> IsExact(s, v))
    BY <1>1 DEF IsDoc, IsExact
  <2>4. Earlier' = Earlier /\ (NoneSpoiled' <=> NoneSpoiled) /\ (Whole' <=> Whole)
    BY <1>3, <2>2 DEF Earlier, NoneSpoiled, Whole
  <2>5. Docs'
    <3>1. Plain' /\ Alone' /\ Follows'
      BY <1>1, <1>3 DEF Docs, Plain, Alone, Follows, IsDoc, Tracked
    <3>2. RowFacts' /\ Untwinned'
      BY <1>1, <1>3 DEF Docs, RowFacts, Untwinned, IsExact, IsDoc, Changed, Exists
    <3>3. LaterEdited' /\ BaseEdited' /\ OldBaseEdited' /\ CleanUnspoiled'
      BY <1>1, <1>3, <2>2, <2>4 DEF Docs, LaterEdited, BaseEdited, OldBaseEdited, CleanUnspoiled,
                                    IsExact, IsDoc
    <3>4. Shown'
      BY <1>3 DEF Shown
    <3> QED
      BY <3>1, <3>2, <3>3, <3>4 DEF Docs
  <2>6. NotAhead' /\ RowsInTime'
    BY <1>1, <1>3, NothingAhead DEF NotAhead, RowsInTime
  <2>7. Swept'
    <3>1. \A d \in Earlier : Spoiled(d) => Exists(Pre(d))
      BY <1>1 DEF Pcs, Swept, Applying
    <3> QED
      BY <1>1, <1>3, <2>1, <2>2, <2>4, <3>1 DEF Swept, Reviewing, Exists, Earlier
  <2>8. ApplyPcs'
    BY <1>1, <1>3, <2>1 DEF ApplyPcs, Verified, Fenced, InPlace, BaseMatches, Tracked, ExpectedVersion
  <2>9. ReviewPcs' /\ FencePc' /\ EndPcs'
    BY <2>1 DEF ReviewPcs, FencePc, EndPcs, Ends
  <2> QED
    BY <2>5, <2>6, <2>7, <2>8, <2>9 DEF Pcs
<1>4. (Fail \/ ReconcileStaging("idle")) => UNCHANGED store /\ task'.pc = "idle"
  BY DEF Fail, Abort, NoStoreChange, ReconcileStaging, IdleTask
<1> QED
  BY <1>2, <1>3, <1>4 DEF Validate

\* What an entry knows before and after its function has run.
LEMMA AtDelta ==
    ASSUME Inv, NameInv, Pcs, task.pc \in {"stage", "apply", "fence", "record", "complete"}
    PROVE  /\ task \in Tasks /\ active /\ gen \in Deltas /\ gen \in Nat
           /\ BaseMatches(gen) /\ \A d \in Earlier : Spoiled(d) => Exists(Pre(d))
           /\ task.pc # "complete" => outcomes[gen] = "none"
           /\ task.pc \notin {"record", "complete"} => ~ evidence[gen].kept
           /\ task.pc = "complete" => outcomes[gen] \in {"applied", "merged", "deleted", "conflict"}
           /\ \A d \in Deltas : evidence[d].kept \/ outcomes[d] # "none" => d <= gen
<1>1. task.pc \in Applying \ {"validate", "tidy"}
  BY DEF Applying
<1>2. /\ task \in Tasks /\ active /\ gen \in Deltas /\ gen \in Nat
  BY <1>1, AtEntry DEF Inv, Deltas
<1>3. outcomes[gen] \in Results /\ (task.pc = "complete" => outcomes[gen] # "none")
  BY <1>2 DEF Inv, StoreOK, NameInv, StepOK
<1>4. BaseMatches(gen) /\ \A d \in Earlier : Spoiled(d) => Exists(Pre(d))
  BY <1>1 DEF Pcs, ApplyPcs, Swept
<1>5. /\ task.pc # "complete" => outcomes[gen] = "none"
      /\ task.pc \notin {"record", "complete"} => ~ evidence[gen].kept
      /\ \A d \in Deltas : evidence[d].kept \/ outcomes[d] # "none" => d <= gen
  <2>1. \A d \in Deltas : d \in Nat
    BY DEF Deltas
  <2> QED
    BY <1>2, <2>1 DEF Pcs, RowsInTime
<1> QED
  BY <1>2, <1>3, <1>4, <1>5 DEF Results

LEMMA StageBase ==
    ASSUME Inv, NameInv, TypedOnly, Docs, Pcs, Stage
    PROVE  Docs' /\ Pcs'
<1>1. /\ NoFileChange /\ disk' = disk /\ SameStore /\ versions' = versions /\ gen' = gen /\ path' = path
      /\ evidence' = evidence /\ outcomes' = outcomes /\ task.pc = "stage"
  BY DEF Stage, NoFileChange, SameStore, store
<1>2. task'.pc = "apply"
  BY <1>1, AtDelta, TaskFields DEF Stage
<1>3. Docs'
  BY <1>1, StillDocs
<1>4. NotAhead' /\ RowsInTime'
  BY <1>1, NothingAhead DEF NotAhead, RowsInTime
<1>5. Swept'
  BY <1>1, <1>2, AtDelta DEF Swept, Earlier, Spoiled, Exists, Reviewing
<1>6. ApplyPcs'
  BY <1>1, <1>2, AtDelta DEF ApplyPcs, Verified, Fenced, InPlace, BaseMatches, Tracked, ExpectedVersion
<1>7. ReviewPcs' /\ FencePc' /\ EndPcs'
  BY <1>2 DEF ReviewPcs, FencePc, EndPcs, Ends
<1> QED
  BY <1>3, <1>4, <1>5, <1>6, <1>7 DEF Pcs

LEMMA ApplyEntryBase ==
    ASSUME Inv, NameInv, TypedOnly, Docs, Pcs, ApplyEntry
    PROVE  Docs' /\ Pcs'
<1>1. /\ NoFileChange /\ disk' = disk /\ SameStore /\ versions' = versions /\ gen' = gen /\ path' = path
      /\ evidence' = evidence /\ outcomes' = outcomes /\ task.pc = "apply"
  BY DEF ApplyEntry, NoFileChange, NoStoreChange, SameStore, store
<1>2. /\ task'.pc \in {"create", "rename", "three-way", "fenced"}
      /\ task'.pc \in {"three-way", "fenced"} => ~ Renames(gen)
  <2>1. PICK pc : /\ Goto(pc)
                  /\ pc \in {"create", "rename", "three-way", "fenced"}
                  /\ pc \in {"three-way", "fenced"} => ~ Renames(gen)
    BY DEF ApplyEntry
  <2> QED
    BY <1>1, <2>1, AtDelta, TaskFields
<1>3. Docs'
  BY <1>1, StillDocs
<1>4. NotAhead' /\ RowsInTime'
  BY <1>1, NothingAhead DEF NotAhead, RowsInTime
<1>5. Swept'
  BY <1>1, <1>2, AtDelta DEF Swept, Earlier, Spoiled, Exists, Reviewing
<1>6. ApplyPcs'
  <2>1. BaseMatches(gen)' /\ (Renames(gen)' <=> Renames(gen))
    BY <1>1, AtDelta DEF BaseMatches, Tracked, ExpectedVersion, Renames
  <2> QED
    BY <1>2, <2>1 DEF ApplyPcs, Verified, Fenced, InPlace
<1>7. ReviewPcs' /\ FencePc' /\ EndPcs'
  BY <1>2 DEF ReviewPcs, FencePc, EndPcs, Ends
<1> QED
  BY <1>3, <1>4, <1>5, <1>6, <1>7 DEF Pcs

LEMMA TidyBase ==
    ASSUME Inv, NameInv, TypedOnly, Docs, Pcs, Tidy
    PROVE  Docs' /\ Pcs'
<1>1. /\ NoFileChange /\ disk' = disk /\ SameStore /\ task.pc = "tidy" /\ task'.pc = "idle"
  BY DEF Tidy, ReconcileStaging, NoFileChange, SameStore, store, IdleTask
<1> QED
  BY <1>1, StillDocs, IdlePcs

LEMMA RecordEvidenceBase ==
    ASSUME Inv, NameInv, TypedOnly, Docs, Pcs, RecordEvidence
    PROVE  Docs' /\ Pcs'
<1> DEFINE row == [NoRow EXCEPT !.kept = TRUE, !.captured = task.fence,
                                !.payload = path.payload, !.name = path.local]
<1>1. /\ disk' = disk /\ versions' = versions /\ gen' = gen /\ path' = path /\ active' = active
      /\ outcomes' = outcomes /\ task.pc = "fence"
  BY DEF RecordEvidence, NoFileChange
<1>2. /\ task \in Tasks /\ active /\ gen \in Deltas /\ gen \in Nat /\ ~ evidence[gen].kept
      /\ outcomes[gen] = "none"
  BY <1>1, AtDelta
<1>3. /\ evidence' = [evidence EXCEPT ![gen] = row]
      /\ task'.pc = "record" /\ task'.result = task.result
  BY <1>2, TaskFields DEF RecordEvidence
<1>4. /\ row.kept /\ ~ row.resolved /\ row.captured = task.fence /\ row.visible = Missing
      /\ row.payload = path.payload
  BY DEF NoRow
<1>5. /\ evidence'[gen] = row
      /\ \A d \in Deltas \ {gen} : evidence'[d] = evidence[d]
  BY <1>2, <1>3 DEF Inv, StoreOK
<1> HIDE DEF row
<1>6. /\ \A d \in Earlier : /\ Spoiled(d)' <=> Spoiled(d)
                            /\ Lying(d)' <=> Lying(d)
                            /\ Changed(d)' <=> Changed(d)
      /\ Earlier' = Earlier /\ (NoneSpoiled' <=> NoneSpoiled) /\ (Whole' <=> Whole)
  <2>1. \A d \in Earlier : d \in Deltas \ {gen}
    BY <1>2 DEF Earlier
  <2> QED
    BY <1>1, <1>5, <2>1 DEF Spoiled, Lying, Changed, Exists, Earlier, NoneSpoiled, Whole
<1>7. \A s, v : (IsDoc(s, v)' <=> IsDoc(s, v)) /\ (IsExact(s, v)' <=> IsExact(s, v))
  BY <1>1 DEF IsDoc, IsExact
<1>8. Docs'
  <2>1. Plain' /\ Alone' /\ Follows'
    BY <1>1, <1>4, <1>5 DEF Docs, Plain, Alone, Follows, IsDoc, Tracked
  <2>2. RowFacts'
    <3> SUFFICES ASSUME NEW d \in Deltas, evidence'[d].kept
                 PROVE  /\ evidence'[d].captured # Missing
                        /\ IsExact(Pre(d), d) => disk[Pre(d)] = evidence'[d].captured
      BY <1>1 DEF RowFacts, Changed, IsExact, IsDoc
    <3>1. CASE d = gen
      BY <1>1, <1>4, <1>5, <3>1 DEF Pcs, FencePc
    <3>2. CASE d # gen
      BY <1>5, <3>2 DEF Docs, RowFacts, Changed
    <3> QED
      BY <3>1, <3>2
  <2>3. Untwinned'
    <3> SUFFICES ASSUME NEW d \in Deltas, evidence'[d].kept, Exists(Pre(d)),
                        evidence'[d].payload + 1 = d, NEW s \in Slots \ {Pre(d)}
                 PROVE  ~ IsExact(s, d)
      BY <1>1 DEF Untwinned, Exists, IsExact, IsDoc
    <3>1. CASE d = gen
      BY <1>1, <1>4, <1>5, <3>1 DEF Pcs, FencePc
    <3>2. CASE d # gen
      BY <1>5, <3>2 DEF Docs, Untwinned
    <3> QED
      BY <3>1, <3>2
  <2>4. LaterEdited' /\ BaseEdited' /\ OldBaseEdited' /\ CleanUnspoiled'
    BY <1>1, <1>6 DEF Docs, LaterEdited, BaseEdited, OldBaseEdited, CleanUnspoiled, IsExact, IsDoc
  <2>5. Shown'
    BY <1>1, <1>2 DEF Shown
  <2> QED
    BY <2>1, <2>2, <2>3, <2>4, <2>5 DEF Docs
<1>9. \A r : Ends(r)' <=> Ends(r)
  BY <1>1, <1>3 DEF Ends
<1>10. NotAhead' /\ RowsInTime'
  <2>1. RowsInTime'
    <3> SUFFICES ASSUME NEW d \in Deltas
                 PROVE  /\ evidence'[d].kept => d < gen \/ d = gen
                        /\ outcomes[d] # "none" => d < gen
      BY <1>1, <1>3 DEF RowsInTime
    <3> QED
      BY <1>1, <1>5 DEF Pcs, RowsInTime
  <2> QED
    BY <1>1, <1>9, <2>1 DEF Pcs, NotAhead
<1>11. Swept'
  BY <1>1, <1>3, <1>6, AtDelta DEF Swept, Exists, Reviewing, Earlier
<1>12. ApplyPcs'
  BY <1>1, <1>3, AtDelta DEF ApplyPcs, Verified, Fenced, InPlace, BaseMatches, Tracked, ExpectedVersion
<1>13. ReviewPcs' /\ FencePc'
  BY <1>3 DEF ReviewPcs, FencePc
<1>14. EndPcs'
  BY <1>1, <1>6, <1>9 DEF Pcs, EndPcs, Exists, IsExact, IsDoc
<1> QED
  BY <1>8, <1>10, <1>11, <1>12, <1>13, <1>14 DEF Pcs

LEMMA RecordOutcomeBase ==
    ASSUME Inv, NameInv, TypedOnly, Docs, Pcs, RecordOutcome
    PROVE  Docs' /\ Pcs'
<1>1. /\ disk' = disk /\ versions' = versions /\ gen' = gen /\ path' = path /\ active' = active
      /\ evidence' = evidence /\ task.pc = "record"
      /\ outcomes' = [outcomes EXCEPT ![gen] = task.result]
  BY DEF RecordOutcome, NoFileChange
<1>2. /\ task \in Tasks /\ active /\ gen \in Deltas /\ gen \in Nat /\ outcomes[gen] = "none"
  BY <1>1, AtDelta
<1>3. task'.pc = "complete"
  BY <1>2, TaskFields DEF RecordOutcome
<1>4. /\ outcomes'[gen] = task.result
      /\ \A d \in Deltas \ {gen} : outcomes'[d] = outcomes[d]
  BY <1>1, <1>2 DEF Inv, StoreOK
<1>5. /\ \A d \in Earlier : /\ Spoiled(d)' <=> Spoiled(d)
                            /\ Lying(d)' <=> Lying(d)
                            /\ Changed(d)' <=> Changed(d)
      /\ Earlier' = Earlier /\ (NoneSpoiled' <=> NoneSpoiled) /\ (Whole' <=> Whole)
  <2>1. \A d \in Earlier : d \in Deltas \ {gen}
    BY <1>2 DEF Earlier
  <2> QED
    BY <1>1, <1>4, <2>1 DEF Spoiled, Lying, Changed, Exists, Earlier, NoneSpoiled, Whole
<1>6. Docs'
  <2>1. Plain' /\ Alone' /\ Follows'
    BY <1>1 DEF Docs, Plain, Alone, Follows, IsDoc, Tracked
  <2>2. RowFacts' /\ Untwinned'
    BY <1>1 DEF Docs, RowFacts, Untwinned, IsExact, IsDoc, Changed, Exists
  <2>3. LaterEdited' /\ BaseEdited' /\ OldBaseEdited' /\ CleanUnspoiled'
    BY <1>1, <1>5 DEF Docs, LaterEdited, BaseEdited, OldBaseEdited, CleanUnspoiled, IsExact, IsDoc
  <2>4. Shown'
    BY <1>1, <1>2 DEF Shown
  <2> QED
    BY <2>1, <2>2, <2>3, <2>4 DEF Docs
<1>7. \A r : Ends(r)' <=> Ends(r)
  BY <1>1, <1>3, <1>4 DEF Ends
<1>8. NotAhead' /\ RowsInTime'
  <2>1. RowsInTime'
    <3> SUFFICES ASSUME NEW d \in Deltas
                 PROVE  /\ evidence[d].kept => d < gen \/ d = gen
                        /\ outcomes'[d] # "none" => d < gen \/ d = gen
      BY <1>1, <1>3 DEF RowsInTime
    <3> QED
      BY <1>1, <1>4 DEF Pcs, RowsInTime
  <2> QED
    BY <1>1, <1>7, <2>1 DEF Pcs, NotAhead
<1>9. Swept'
  BY <1>1, <1>3, <1>5, AtDelta DEF Swept, Exists, Reviewing, Earlier
<1>10. ApplyPcs'
  BY <1>1, <1>3, AtDelta DEF ApplyPcs, Verified, Fenced, InPlace, BaseMatches, Tracked, ExpectedVersion
<1>11. ReviewPcs' /\ FencePc'
  BY <1>3 DEF ReviewPcs, FencePc
<1>12. EndPcs'
  BY <1>1, <1>3, <1>5, <1>7 DEF Pcs, EndPcs, Exists, IsExact, IsDoc
<1> QED
  BY <1>6, <1>8, <1>9, <1>10, <1>11, <1>12 DEF Pcs

\* The path moves to the new version, or stays beside it in conflict.
LEMMA CompleteBase ==
    ASSUME Inv, NameInv, TypedOnly, BaseBehind, Docs, Pcs, Complete
    PROVE  Docs' /\ Pcs'
<1>1. /\ disk' = disk /\ versions' = versions /\ gen' = gen + 1 /\ active' = FALSE
      /\ evidence' = evidence /\ outcomes' = outcomes /\ task.pc = "complete"
  BY DEF Complete, NoFileChange
<1>2. /\ task \in Tasks /\ gen \in Deltas /\ gen \in Nat
      /\ outcomes[gen] \in {"applied", "merged", "deleted", "conflict"}
      /\ \A d \in Deltas : evidence[d].kept \/ outcomes[d] # "none" => d <= gen
  BY <1>1, AtDelta
<1>3. task'.pc = "tidy"
  BY <1>2, TaskFields DEF Complete
<1>4. \A r : Ends(r) <=> outcomes[gen] = r
  BY <1>1 DEF Ends
<1>5. \A s \in Slots : disk[s].kind = "doc" =>
         disk[s].of <= gen \/ (disk[s].of = gen + 1 /\ outcomes[gen] \in {"applied", "merged"})
  BY <1>4 DEF Pcs, NotAhead
<1>6. /\ \A d : Spoiled(d)' <=> Spoiled(d)
      /\ \A d : Lying(d)' <=> Lying(d)
      /\ \A d : Changed(d)' <=> Changed(d)
  BY <1>1 DEF Spoiled, Lying, Changed, Exists
<1>7. \A d \in Deltas : d \in Earlier' <=> d \in Earlier \/ d = gen
  BY <1>1, <1>2 DEF Earlier, Deltas
<1>8. /\ outcomes[gen] = "applied" =>
           path'.state = "clean" /\ path'.base = gen + 1 /\ path'.payload = gen
           /\ path'.local = versions[gen + 1]
      /\ outcomes[gen] = "merged" =>
           path'.state = "dirty" /\ path'.base = gen + 1 /\ path'.payload = gen
           /\ path'.local = versions[gen + 1]
      /\ outcomes[gen] = "deleted" => path'.state = "untracked" /\ path'.base = 0 /\ path'.payload = 0
  BY DEF Complete, Accepted, Untracked
<1>9. outcomes[gen] = "conflict" =>
        /\ path'.state = "conflicted"
        /\ \/ path'.base = path.base /\ path'.payload = path.payload
           \/ path'.base = 0 /\ path'.payload = 0
  <2>1. path \in Paths
    BY DEF Inv, StoreOK
  <2>2. outcomes[gen] = "conflict" => path' = Conflicted
    BY DEF Complete
  <2>3. Conflicted.state = "conflicted"
        /\ \/ Conflicted.base = path.base /\ Conflicted.payload = path.payload
           \/ Conflicted.base = 0 /\ Conflicted.payload = 0
    BY <2>1 DEF Conflicted, Untracked, Paths
  <2> QED
    BY <2>2, <2>3
<1>10. \A s, v : (IsDoc(s, v)' <=> IsDoc(s, v)) /\ (IsExact(s, v)' <=> IsExact(s, v))
  BY <1>1 DEF IsDoc, IsExact
<1>11. outcomes[gen] = "applied" => NoneSpoiled /\ ~ Spoiled(gen)
  BY <1>4 DEF Pcs, EndPcs, Spoiled
<1>12. Plain' /\ Alone' /\ RowFacts' /\ Untwinned'
  BY <1>1 DEF Docs, Plain, Alone, IsDoc, IsExact, RowFacts, Untwinned, Changed, Exists
<1>13. Follows'
  <2> SUFFICES ASSUME NEW s \in Slots, IsDoc(s, gen + 1)
               PROVE  path'.state # "untracked" /\ path'.local = versions[gen + 1]
    BY <1>1 DEF Follows, IsDoc, Tracked
  <2>1. outcomes[gen] \in {"applied", "merged"}
    BY <1>2, <1>5 DEF IsDoc
  <2> QED
    BY <1>8, <2>1
<1>14. LaterEdited'
  <2> SUFFICES ASSUME NEW d \in Deltas, d \in Earlier \/ d = gen, Lying(d),
                      NEW s \in Slots, disk[s].kind = "doc", disk[s].of > d
               PROVE  disk[s].edits # {}
    BY <1>1, <1>6, <1>7 DEF LaterEdited, Earlier
  <2>1. CASE d \in Earlier
    BY <2>1 DEF Docs, LaterEdited
  <2>2. CASE d = gen
    <3>1. outcomes[gen] = "conflict"
      BY <2>2 DEF Lying, Spoiled
    <3> QED
      BY <1>2, <1>5, <2>2, <3>1 DEF Inv, FilesOK, Texts
  <2> QED
    BY <2>1, <2>2
<1>15. BaseEdited'
  <2> SUFFICES ASSUME NEW d \in Deltas, d \in Earlier \/ d = gen, Lying(d), Whole',
                      NEW s \in Slots \ {Pre(d)}
               PROVE  ~ IsExact(s, path'.base)
    BY <1>1, <1>6, <1>7 DEF BaseEdited, Earlier, IsExact, IsDoc
  <2>1. Spoiled(d)
    BY DEF Lying
  <2>2. outcomes[gen] # "applied"
    BY <1>11, <2>1 DEF NoneSpoiled
  <2>3. outcomes[gen] # "deleted"
    BY <1>8 DEF Whole
  <2>4. CASE outcomes[gen] = "merged"
    <3>1. d \in Earlier /\ path'.base = gen + 1
      BY <1>8, <2>1, <2>4 DEF Spoiled
    <3>2. gen + 1 > d
      BY <1>2, <3>1 DEF Earlier, Deltas
    <3> QED
      BY <3>1, <3>2 DEF Docs, LaterEdited, IsExact, IsDoc
  <2>5. CASE outcomes[gen] = "conflict"
    <3>1. path'.base = path.base /\ Whole
      BY <1>9, <2>5 DEF Whole
    <3>2. CASE d \in Earlier
      BY <3>1, <3>2 DEF Docs, BaseEdited
    <3>3. CASE d = gen
      BY <1>4, <2>1, <2>5, <3>1, <3>3 DEF Pcs, EndPcs, Spoiled, Lying
    <3> QED
      BY <3>2, <3>3
  <2> QED
    BY <1>2, <2>2, <2>3, <2>4, <2>5
<1>16. OldBaseEdited'
  <2> SUFFICES ASSUME path'.state = "conflicted", NEW s \in Slots, IsDoc(s, gen + 1)
               PROVE  FALSE
    BY <1>1 DEF OldBaseEdited, IsDoc
  <2>1. outcomes[gen] \in {"applied", "merged"}
    BY <1>2, <1>5 DEF IsDoc
  <2> QED
    BY <1>8, <2>1
<1>17. CleanUnspoiled'
  <2>1. path'.state = "clean" => outcomes[gen] = "applied"
    BY <1>2, <1>8, <1>9
  <2> QED
    BY <1>6, <1>7, <1>11, <2>1 DEF CleanUnspoiled, NoneSpoiled, Earlier
<1>18. Shown'
  <2>1. path'.state = "clean" => outcomes[gen] = "applied"
    BY <1>2, <1>8, <1>9
  <2>2. outcomes[gen] = "applied" =>
          (disk[File(versions[gen + 1])].kind = "doc" => disk[File(versions[gen + 1])].of = gen + 1)
    BY <1>4 DEF Pcs, EndPcs
  <2> QED
    BY <1>1, <1>8, <2>1, <2>2 DEF Shown
<1>19. NotAhead' /\ RowsInTime'
  <2>1. \A s \in Slots : disk[s].kind = "doc" => disk[s].of <= gen + 1
    BY <1>2, <1>5 DEF Inv, FilesOK, Texts
  <2>2. \A d \in Deltas : evidence[d].kept \/ outcomes[d] # "none" => d < gen + 1
    BY <1>2 DEF Deltas
  <2> QED
    BY <1>1, <2>1, <2>2 DEF NotAhead, RowsInTime
<1>20. Pcs'
  BY <1>3, <1>19 DEF Pcs, Swept, ReviewPcs, ApplyPcs, FencePc, EndPcs, Ends, Verified, Fenced, InPlace,
                     Reviewing, Applying
<1> QED
  BY <1>12, <1>13, <1>14, <1>15, <1>16, <1>17, <1>18, <1>20 DEF Docs

-----------------------------------------------------------------------------
(* The review of rows *)

\* The row in hand, while no visible inode is retained.
LEMMA AtRow ==
    ASSUME Inv, Docs, Pcs, Undisturbed, task.pc \in Reviewing
    PROVE  /\ task \in Tasks /\ FilesOK /\ gen \in Nat
           /\ task.d \in Earlier /\ task.d \in Nat /\ evidence[task.d].kept
           /\ Target(task.d) = File(evidence[task.d].name)
           /\ Target(task.d) \in Slots \ Retained /\ Pre(task.d) \in Slots /\ Pre(task.d) # Target(task.d)
           /\ evidence[task.d].visible = Missing /\ ~ evidence[task.d].resolved
           /\ disk[Snap(task.d)] = Missing
           /\ evidence[task.d].captured # Missing
           /\ \A d \in Deltas : d < task.d /\ Spoiled(d) => Exists(Pre(d))
           /\ \A s \in Slots : disk[s].kind = "doc" => disk[s].of <= gen
           /\ \A d \in Deltas : evidence[d].kept \/ outcomes[d] # "none" => d < gen
           /\ \A d \in Deltas : d # task.d => Pre(d) # Pre(task.d)
<1>1. task.pc \notin {"fence", "record", "complete"}
  BY DEF Reviewing
<1>2. /\ task.d \in Deltas /\ task.d \in Nat /\ task.d < gen /\ evidence[task.d].kept
      /\ Target(task.d) = File(evidence[task.d].name) /\ evidence[task.d].name \in Names
      /\ Target(task.d) \in Slots /\ Pre(task.d) \in Slots
  BY AtReview DEF Rows
<1>3. Target(task.d) \in Slots \ Retained /\ Pre(task.d) \in Retained
  BY <1>2, FilesAreNotRetained
<1>4. task \in Tasks /\ FilesOK /\ gen \in Nat
  BY DEF Inv, StoreOK
<1>5. /\ evidence[task.d].visible = Missing /\ ~ evidence[task.d].resolved
      /\ evidence[task.d].captured # Missing
  BY <1>2 DEF Docs, Plain, RowFacts
<1>6. disk[Snap(task.d)] = Missing
  BY <1>2 DEF Undisturbed, Exists
<1>7. \A d \in Deltas : d < task.d /\ Spoiled(d) => Exists(Pre(d))
  BY DEF Pcs, Swept
<1>8. \A d \in Deltas : d # task.d => Pre(d) # Pre(task.d)
  BY RetainedApart
<1> QED
  BY <1>1, <1>2, <1>3, <1>4, <1>5, <1>6, <1>7, <1>8, NothingAhead DEF Earlier

\* A row is dropped while the path is not clean, so that none is missed in Shown.
LEMMA DropDocs ==
    ASSUME Inv, Docs, disk' = disk, UNCHANGED <<gen, path, active, outcomes, versions>>,
           NEW d \in Deltas, evidence' = [evidence EXCEPT ![d] = NoRow], path.state # "clean"
    PROVE  Docs'
<1>1. /\ \A c \in Deltas : evidence'[c] = evidence[c] \/ evidence'[c] = NoRow
      /\ ~ NoRow.kept /\ ~ NoRow.resolved /\ NoRow.visible = Missing
  BY DEF Inv, StoreOK, NoRow
<1>2. \A c \in Deltas : /\ Spoiled(c)' => Spoiled(c)
                        /\ Lying(c)' => Lying(c)
  BY <1>1 DEF Spoiled, Lying, Exists
<1>3. Earlier' = Earlier /\ (Whole' <=> Whole)
  BY DEF Earlier, Whole
<1>4. Plain' /\ Alone' /\ Follows'
  BY <1>1 DEF Docs, Plain, Alone, Follows, IsDoc, Tracked
<1>5. RowFacts' /\ Untwinned'
  BY <1>1 DEF Docs, RowFacts, Untwinned, IsExact, IsDoc, Changed, Exists
<1>6. LaterEdited' /\ BaseEdited' /\ OldBaseEdited'
  BY <1>2, <1>3 DEF Docs, LaterEdited, BaseEdited, OldBaseEdited, IsExact, IsDoc, Earlier
<1>7. CleanUnspoiled' /\ Shown'
  BY DEF CleanUnspoiled, Shown
<1> QED
  BY <1>4, <1>5, <1>6, <1>7 DEF Docs

\* The review of one row goes on.
LEMMA RowPcs ==
    ASSUME Inv, Docs, Pcs, Undisturbed, task.pc \in Reviewing,
           UNCHANGED <<gen, evidence, outcomes>>, task'.d = task.d,
           task'.pc \in {"unrestore", "restore", "retain", "restored"},
           \A s \in Slots : disk'[s].kind = "doc" => disk'[s].of <= gen,
           \A d \in Deltas : d < task.d /\ Exists(Pre(d)) => Exists(Pre(d))',
           task'.pc \in {"unrestore", "restore"} =>
             ~ (/\ disk'[Pre(task.d)].kind = "doc" /\ disk'[Pre(task.d)].of = task.d
                /\ disk'[Pre(task.d)].edits = {}),
           task'.pc \in {"unrestore", "restore", "restored"} => task'.seen # Missing,
           task'.pc = "restored" /\ evidence[task.d].payload + 1 = task.d =>
             \A s \in Slots :
               ~ (disk'[s].kind = "doc" /\ disk'[s].of = task.d /\ disk'[s].edits = {})
    PROVE  Pcs'
<1>1. NotAhead' /\ RowsInTime'
  BY AtRow DEF NotAhead, RowsInTime
<1>2. Swept'
  BY AtRow DEF Swept, Spoiled, Applying
<1>3. ReviewPcs'
  BY DEF ReviewPcs, IsExact, IsDoc
<1>4. ApplyPcs' /\ FencePc' /\ EndPcs'
  BY DEF ApplyPcs, FencePc, EndPcs, Ends, Verified, Fenced, InPlace, Applying
<1> QED
  BY <1>1, <1>2, <1>3, <1>4 DEF Pcs

LEMMA RowEnds ==
    ASSUME Inv, Docs, Pcs, Undisturbed, task.pc \in Reviewing, NextReview(task.d),
           disk' = disk, gen' = gen, outcomes' = outcomes,
           \/ evidence' = evidence /\ Exists(Pre(task.d))
           \/ evidence' = [evidence EXCEPT ![task.d] = NoRow]
    PROVE  Pcs'
<1>1. PICK d \in Earlier : d = task.d
  BY AtRow
<1>2. d \in Nat /\ d \in Deltas /\ d < gen /\ \A i \in Deltas : i \in Nat
  BY <1>1 DEF Earlier, Deltas
<1>3. \A i \in Deltas : i # d => evidence'[i] = evidence[i]
  BY <1>1, <1>2 DEF Inv, StoreOK
<1>4. Spoiled(d)' => Exists(Pre(d))
  <2>1. CASE evidence' = [evidence EXCEPT ![task.d] = NoRow]
    <3>1. ~ evidence'[d].kept
      BY <1>1, <1>2, <2>1 DEF Inv, StoreOK, NoRow
    <3> QED
      BY <3>1 DEF Spoiled
  <2> QED
    BY <1>1, <2>1
<1>5. \A i \in Deltas : i <= d /\ Spoiled(i)' => Exists(Pre(i))
  <2> SUFFICES ASSUME NEW i \in Deltas, i < d, Spoiled(i)'
               PROVE  Exists(Pre(i))
    BY <1>2, <1>4
  <2>1. Spoiled(i)
    BY <1>2, <1>3 DEF Spoiled
  <2> QED
    BY <1>1, <2>1, AtRow
<1>6. \A i \in Deltas : evidence'[i].kept \/ outcomes'[i] # "none" => i < gen
  <2> SUFFICES ASSUME NEW i \in Deltas, i # d
               PROVE  evidence'[i].kept \/ outcomes'[i] # "none" => i < gen
    BY <1>2
  <2> QED
    BY <1>3, AtRow
<1>7. \A i \in Deltas : i > d => evidence'[i] = evidence[i]
  BY <1>2, <1>3
<1>8. NextReview(d) /\ \A s \in Slots : disk[s].kind = "doc" => disk[s].of <= gen
  BY <1>1, AtRow
<1> QED
  BY <1>2, <1>5, <1>6, <1>7, <1>8, NextReviewPcs

LEMMA ReviewBase ==
    ASSUME Inv, NameInv, TypedOnly, Docs, Pcs, Undisturbed, Review
    PROVE  Docs' /\ Pcs'
<1> DEFINE d == task.d
           pre == disk[Pre(d)]
<1>1. task.pc = "review" /\ task.pc \in Reviewing /\ task.pc \notin {"fence", "record", "complete"}
  BY DEF Review, Reviewing
<1>2. /\ NoFileChange /\ disk' = disk /\ versions' = versions
  BY DEF Review, Fail, Abort, NoFileChange
<1>3. /\ evidence[d].visible = Missing /\ ~ evidence[d].resolved /\ disk[Snap(d)] = Missing
      /\ d \in Earlier /\ d \in Deltas /\ evidence[d].kept /\ evidence[d].captured # Missing
      /\ task \in Tasks
  BY <1>1, AtRow DEF Earlier
<1>4. ASSUME NoStoreChange
      PROVE  /\ SameStore /\ Docs'
             /\ gen' = gen /\ evidence' = evidence /\ outcomes' = outcomes
  BY <1>2, <1>4, StillDocs DEF NoStoreChange, SameStore, store
<1>5. CASE Fail
  <2>1. task'.pc = "idle" /\ NoStoreChange
    BY <1>5 DEF Fail, Abort, IdleTask
  <2> QED
    BY <1>1, <1>2, <1>4, <2>1, IdlePcs
<1>6. CASE /\ pre = Missing /\ outcomes[d] = "conflict"
           /\ evidence' = [evidence EXCEPT ![d] = NoRow]
           /\ NextReview(d)
           /\ UNCHANGED <<gen, path, active, outcomes, payloads>>
  <2>1. path.state # "clean"
    BY <1>3, <1>6 DEF Docs, CleanUnspoiled, NoneSpoiled, Spoiled
  <2>2. Docs'
    BY <1>2, <1>3, <1>6, <2>1, DropDocs
  <2>3. Pcs'
    BY <1>1, <1>2, <1>6, RowEnds
  <2> QED
    BY <2>2, <2>3
<1>7. CASE pre # Missing /\ NextReview(d) /\ NoStoreChange
  <2>1. Exists(Pre(task.d))
    BY <1>7 DEF Exists
  <2> QED
    BY <1>1, <1>2, <1>4, <1>7, <2>1, RowEnds
<1>8. CASE /\ pre # Missing /\ pre # evidence[d].captured /\ NoStoreChange
           /\ \E pc \in {"restore", "unrestore", "retain"} :
                task' = [task EXCEPT !.seen = pre, !.visible = disk[Snap(d)], !.marks = TRUE, !.pc = pc]
  <2>1. PICK pc \in {"restore", "unrestore", "retain"} :
          task' = [task EXCEPT !.seen = pre, !.visible = disk[Snap(d)], !.marks = TRUE, !.pc = pc]
    BY <1>8
  <2>2. task'.pc = pc /\ task'.seen = pre /\ task'.d = task.d
    BY <1>3, <2>1, TaskFields
  <2>3. PICK c \in Deltas : c = task.d
    BY <1>3
  <2>4. ~ IsExact(Pre(c), c)
    BY <1>3, <1>8, <2>3 DEF Docs, RowFacts, Changed
  <2>5. ~ (disk'[Pre(task.d)].kind = "doc" /\ disk'[Pre(task.d)].of = task.d
           /\ disk'[Pre(task.d)].edits = {})
    BY <1>2, <2>3, <2>4 DEF IsExact, IsDoc
  <2>6. /\ \A s \in Slots : disk'[s].kind = "doc" => disk'[s].of <= gen
        /\ \A i \in Deltas : i < task.d /\ Exists(Pre(i)) => Exists(Pre(i))'
    BY <1>1, <1>2, AtRow DEF Exists
  <2>7. Pcs'
    BY <1>1, <1>4, <1>8, <2>2, <2>5, <2>6, RowPcs
  <2> QED
    BY <1>4, <1>8, <2>7
<1>9. \/ Fail
      \/ /\ pre = Missing /\ outcomes[d] = "conflict"
         /\ evidence' = [evidence EXCEPT ![d] = NoRow]
         /\ NextReview(d)
         /\ UNCHANGED <<gen, path, active, outcomes, payloads>>
      \/ pre # Missing /\ NextReview(d) /\ NoStoreChange
      \/ /\ pre # Missing /\ pre # evidence[d].captured /\ NoStoreChange
         /\ \E pc \in {"restore", "unrestore", "retain"} :
                task' = [task EXCEPT !.seen = pre, !.visible = disk[Snap(d)], !.marks = TRUE, !.pc = pc]
  BY <1>3 DEF Review
<1> QED
  BY <1>5, <1>6, <1>7, <1>8, <1>9

\* The rows after the path has gone back to the version before delta d.
LEMMA MarkDocs ==
    ASSUME Inv, Docs, disk' = disk, UNCHANGED <<gen, active, versions>>, NEW d \in Earlier,
           NEW seen, seen # Missing, MarkConflict(d, seen, Missing), ~ Exists(Pre(d)),
           evidence[d].payload + 1 = d => \A s \in Slots : ~ IsExact(s, d)
    PROVE  Docs'
<1>1. d \in Deltas /\ evidence[d] \in Rows
  BY DEF Earlier, Inv, StoreOK
<1>2. /\ \A c \in Deltas : /\ evidence'[c].kept = evidence[c].kept
                           /\ evidence'[c].resolved = evidence[c].resolved
                           /\ evidence'[c].payload = evidence[c].payload
                           /\ c # d => evidence'[c] = evidence[c] /\ outcomes'[c] = outcomes[c]
      /\ evidence'[d].captured = seen /\ evidence'[d].visible = Missing
  <2>1. /\ evidence' = [evidence EXCEPT ![d].captured = seen, ![d].visible = Missing]
        /\ outcomes' = [outcomes EXCEPT ![d] = "conflict"]
    BY DEF MarkConflict
  <2>2. /\ \A c \in Deltas \ {d} : evidence'[c] = evidence[c] /\ outcomes'[c] = outcomes[c]
        /\ evidence'[d] = [evidence[d] EXCEPT !.captured = seen, !.visible = Missing]
    BY <1>1, <2>1 DEF Inv, StoreOK
  <2> QED
    BY <1>1, <2>2 DEF Rows
<1>3. /\ path'.state = "conflicted" /\ path'.base = d /\ path'.payload = evidence[d].payload
      /\ path.state # "untracked" => path'.local = path.local
  BY DEF MarkConflict, Tracked
<1>4. ~ Exists(Pre(d))'
  BY DEF Exists
<1>5. Earlier' = Earlier /\ \A c \in Deltas : Lying(c)' => Lying(c)
  <2>1. \A c \in Deltas \ {d} : Lying(c)' => Lying(c)
    BY <1>2 DEF Lying, Spoiled, Exists
  <2>2. ~ Lying(d)'
    BY <1>4 DEF Lying
  <2> QED
    BY <2>1, <2>2 DEF Earlier
<1>6. Plain'
  <2>1. \A c \in Deltas : evidence'[c].visible = Missing
    BY <1>2 DEF Docs, Plain
  <2> QED
    BY <1>2, <2>1 DEF Docs, Plain
<1>7. Alone'
  BY DEF Docs, Alone, IsDoc
<1>8. Follows'
  BY <1>3 DEF Docs, Follows, IsDoc, Tracked
<1>9. ~ (disk[Pre(d)].kind = "doc")
  BY TextFields DEF Exists
<1>10. RowFacts'
  <2> SUFFICES ASSUME NEW c \in Deltas, evidence'[c].kept
               PROVE  /\ evidence'[c].captured # Missing
                      /\ IsExact(Pre(c), c) => disk[Pre(c)] = evidence'[c].captured
    BY DEF RowFacts, Changed, IsExact, IsDoc
  <2>1. CASE c = d
    BY <1>2, <1>9, <2>1 DEF IsExact, IsDoc
  <2>2. CASE c # d
    BY <1>2, <2>2 DEF Docs, RowFacts, Changed
  <2> QED
    BY <2>1, <2>2
<1>11. Untwinned'
  <2> SUFFICES ASSUME NEW c \in Deltas, evidence'[c].kept, Exists(Pre(c)),
                      evidence'[c].payload + 1 = c, NEW s \in Slots \ {Pre(c)}
               PROVE  ~ IsExact(s, c)
    BY DEF Untwinned, Exists, IsExact, IsDoc
  <2> QED
    BY <1>2 DEF Docs, Untwinned
<1>12. LaterEdited'
  BY <1>5 DEF Docs, LaterEdited, Earlier
<1>13. path'.base = path'.payload + 1 => \A s \in Slots : ~ IsExact(s, path'.base)
  BY <1>3
<1>14. BaseEdited' /\ OldBaseEdited'
  BY <1>13 DEF BaseEdited, OldBaseEdited, Whole, IsExact, IsDoc
<1>15. CleanUnspoiled' /\ Shown'
  BY <1>3 DEF CleanUnspoiled, Shown
<1> QED
  BY <1>6, <1>7, <1>8, <1>10, <1>11, <1>12, <1>14, <1>15 DEF Docs

LEMMA RestoreBase ==
    ASSUME Inv, NameInv, TypedOnly, Docs, Pcs, Undisturbed, Restore
    PROVE  Docs' /\ Pcs'
<1>1. /\ task.pc \in {"unrestore", "restore", "restored", "drop"} /\ task.pc \in Reviewing
      /\ task.pc \notin {"fence", "record", "complete"} /\ versions' = versions
  BY DEF Restore, Reviewing
<1>2. PICK d \in Earlier : d = task.d
  BY <1>1, AtRow
<1>3. /\ d \in Deltas /\ evidence[d].kept /\ task \in Tasks /\ FilesOK
      /\ Target(d) \in Slots \ Retained /\ Pre(d) \in Slots /\ Pre(d) # Target(d)
      /\ task.seen # Missing
      /\ \A s \in Slots : disk[s].kind = "doc" => disk[s].of <= gen
  BY <1>1, <1>2, AtRow DEF Earlier, Pcs, ReviewPcs
<1>4. task.pc \in {"unrestore", "restore"} => ~ IsExact(Pre(d), d)
  BY <1>2 DEF Pcs, ReviewPcs
<1>5. ASSUME NoStoreChange
      PROVE  SameStore /\ gen' = gen /\ evidence' = evidence /\ outcomes' = outcomes
  BY <1>1, <1>5 DEF NoStoreChange, SameStore, store
<1>6. CASE Fail \/ (Abort /\ NoStoreChange)
  <2>1. task'.pc = "idle" /\ NoStoreChange /\ NoFileChange /\ disk' = disk
    BY <1>6 DEF Fail, Abort, IdleTask, NoFileChange
  <2> QED
    BY <1>1, <1>5, <2>1, StillDocs, IdlePcs
<1>7. CASE task.pc = "unrestore" /\ Unlink(Target(d)) /\ Goto("restore") /\ NoStoreChange
  <2>1. Slip
    BY <1>3, <1>7, OpsOnSlots
  <2>2. task'.pc = "restore" /\ task'.d = d /\ task'.seen = task.seen
    BY <1>2, <1>3, <1>7, TaskFields
  <2>3. Docs'
    BY <1>5, <1>7, <2>1, SlipDocs
  <2>4. \A i \in Deltas : Exists(Pre(i)) => Exists(Pre(i))'
    BY <2>1, FilesAreNotRetained, SlipFacts
  <2>5. \A s \in Slots : disk'[s].kind = "doc" => disk'[s].of <= gen
    BY <1>3, <2>1, SlipFacts
  <2>6. ~ (disk'[Pre(d)].kind = "doc" /\ disk'[Pre(d)].of = d /\ disk'[Pre(d)].edits = {})
    BY <1>3, <1>4, <1>7, <2>1, SlipFacts DEF IsExact, IsDoc
  <2>7. Pcs'
    BY <1>1, <1>2, <1>3, <1>5, <1>7, <2>2, <2>4, <2>5, <2>6, RowPcs
  <2> QED
    BY <2>3, <2>7
<1>8. CASE task.pc = "restore" /\ CanMove(Pre(d), Target(d)) /\ Move(Pre(d), Target(d))
           /\ Goto("restored") /\ NoStoreChange
  <2>1. MovesTo(Pre(d), Target(d)) /\ Exists(Pre(d))
    BY <1>3, <1>8, OpsOnSlots DEF CanMove
  <2>2. task'.pc = "restored" /\ task'.d = d /\ task'.seen = task.seen
    BY <1>2, <1>3, <1>8, TaskFields
  <2>3. Docs'
    <3>1. \A c \in Deltas : evidence[c].kept => Target(d) # Pre(c)
      BY <1>3, FilesAreNotRetained
    <3>2. \E c \in Earlier : evidence[c].kept /\ Pre(d) = Pre(c)
      BY <1>2, <1>3
    <3>3. PICK from \in Slots, to \in Slots : from = Pre(d) /\ to = Target(d)
      BY <1>3
    <3>4. /\ MovesTo(from, to) /\ \A c \in Deltas : evidence[c].kept => to # Pre(c)
          /\ \E c \in Earlier : evidence[c].kept /\ from = Pre(c)
      BY <2>1, <3>1, <3>2, <3>3
    <3> QED
      BY <1>5, <1>8, <3>4, MoveDocs
  <2>4. \A i \in Deltas : i < d /\ Exists(Pre(i)) => Exists(Pre(i))'
    <3> SUFFICES ASSUME NEW i \in Deltas, i < d, Exists(Pre(i))
                 PROVE  Exists(Pre(i))'
      OBVIOUS
    <3>1. Pre(i) \in Slots \ {Pre(d), Target(d)}
      BY <1>3, FilesAreNotRetained, RetainedApart DEF Deltas
    <3> QED
      BY <2>1, <3>1 DEF MovesTo, Exists
  <2>5. \A s \in Slots : disk'[s].kind = "doc" =>
          \E r \in Slots : disk[r] = disk'[s]
    BY <1>3, <2>1, TextFields DEF MovesTo
  <2>6. \A s \in Slots : disk'[s].kind = "doc" => disk'[s].of <= gen
    BY <1>3, <2>5
  <2>7. evidence[d].payload + 1 = d => \A s \in Slots : ~ IsExact(s, d)
    BY <1>3, <1>4, <1>8, <2>1 DEF Docs, Untwinned
  <2>8. evidence[d].payload + 1 = d =>
          \A s \in Slots : ~ (disk'[s].kind = "doc" /\ disk'[s].of = d /\ disk'[s].edits = {})
    BY <2>5, <2>7 DEF IsExact, IsDoc
  <2>9. Pcs'
    BY <1>1, <1>2, <1>3, <1>5, <1>8, <2>2, <2>4, <2>6, <2>8, RowPcs
  <2> QED
    BY <2>3, <2>9
<1>9. CASE task.pc = "restored" /\ MarkConflict(d, task.seen, Missing) /\ Goto("drop")
           /\ NoFileChange /\ UNCHANGED <<gen, active, payloads>>
  <2>1. disk' = disk /\ ~ Exists(Pre(d))
    BY <1>2, <1>9 DEF NoFileChange, NameInv, StepOK
  <2>2. evidence[d].payload + 1 = d => \A s \in Slots : ~ IsExact(s, d)
    BY <1>2, <1>9 DEF Pcs, ReviewPcs
  <2>3. Docs'
    BY <1>1, <1>3, <1>9, <2>1, <2>2, MarkDocs
  <2>4. task'.pc = "drop" /\ task'.d = d /\ task'.seen = task.seen
    BY <1>2, <1>3, <1>9, TaskFields
  <2>5. /\ path'.state = "conflicted"
        /\ \A c \in Deltas : /\ evidence'[c].kept = evidence[c].kept
                             /\ c # d => outcomes'[c] = outcomes[c]
    BY <1>3, <1>9 DEF MarkConflict, Inv, StoreOK, Rows
  <2>6. NotAhead' /\ RowsInTime'
    <3>1. \A c \in Deltas : evidence'[c].kept \/ outcomes'[c] # "none" => c < gen
      BY <1>1, <1>2, <2>5, AtRow DEF Earlier
    <3>2. gen' = gen
      BY <1>9
    <3> QED
      BY <1>3, <2>1, <3>1, <3>2 DEF NotAhead, RowsInTime
  <2>7. Swept'
    <3>1. \A c \in Deltas : c < d /\ Spoiled(c)' => Exists(Pre(c))
      <4> SUFFICES ASSUME NEW c \in Deltas, c < d, Spoiled(c)'
                   PROVE  Exists(Pre(c))
        OBVIOUS
      <4>1. Spoiled(c)
        BY <1>3, <2>5 DEF Spoiled, Deltas
      <4> QED
        BY <1>1, <1>2, <4>1, AtRow
    <3> QED
      BY <2>1, <2>4, <3>1 DEF Swept, Exists, Applying
  <2>8. ReviewPcs' /\ ApplyPcs' /\ FencePc' /\ EndPcs'
    BY <1>3, <2>4, <2>5 DEF ReviewPcs, ApplyPcs, FencePc, EndPcs, Ends, Verified, Fenced, InPlace, Applying
  <2> QED
    BY <2>3, <2>6, <2>7, <2>8 DEF Pcs
<1>10. CASE task.pc = "drop" /\ evidence' = [evidence EXCEPT ![d] = NoRow] /\ NextReview(d)
            /\ NoFileChange /\ UNCHANGED <<gen, path, active, outcomes, payloads>>
  <2>1. disk' = disk /\ path.state # "clean"
    BY <1>10 DEF NoFileChange, Pcs, ReviewPcs
  <2>2. Docs'
    BY <1>1, <1>3, <1>10, <2>1, DropDocs
  <2>3. Pcs'
    BY <1>1, <1>2, <1>10, <2>1, RowEnds
  <2> QED
    BY <2>2, <2>3
<1>11. CASE task.pc = "unrestore"
  BY <1>2, <1>6, <1>7, <1>11 DEF Restore, TryUnlink
<1>12. CASE task.pc = "restore"
  BY <1>2, <1>6, <1>8, <1>12 DEF Restore, TryMove
<1>13. CASE task.pc \in {"restored", "drop"}
  BY <1>2, <1>6, <1>9, <1>10, <1>13 DEF Restore
<1> QED
  BY <1>1, <1>11, <1>12, <1>13

\* A visible inode that is retained disturbs the document.
LEMMA RetainBase ==
    ASSUME Inv, NameInv, TypedOnly, Docs, Pcs, Undisturbed, Undisturbed', Retain \/ ResolveEvidence
    PROVE  Docs' /\ Pcs'
<1>1. task.pc = "retain" /\ Retain /\ task.pc \in Reviewing /\ versions' = versions
  BY DEF Retain, ResolveEvidence, Pcs, ReviewPcs, Reviewing
<1>2. /\ task.d \in Deltas /\ FilesOK /\ Target(task.d) \in Slots /\ Snap(task.d) \in Slots
      /\ Target(task.d) # Snap(task.d)
  BY <1>1, AtRow, FilesAreNotRetained DEF Earlier
<1>3. ASSUME CanMove(Target(task.d), Snap(task.d)), Move(Target(task.d), Snap(task.d))
      PROVE  FALSE
  <2>1. PICK d \in Deltas : d = task.d
    BY <1>2
  <2>2. MovesTo(Target(d), Snap(d)) /\ Exists(Target(d))
    BY <1>2, <1>3, <2>1, OpsOnSlots DEF CanMove
  <2>3. Exists(Snap(d))'
    BY <2>2 DEF MovesTo, Exists
  <2> QED
    BY <2>3 DEF Undisturbed
<1>4. Abort /\ NoStoreChange
  BY <1>1, <1>3 DEF Retain
<1>5. task'.pc = "idle" /\ NoFileChange /\ disk' = disk /\ SameStore
  BY <1>1, <1>4 DEF Abort, IdleTask, NoFileChange, NoStoreChange, SameStore, store
<1>6. task.pc \notin {"fence", "record", "complete"}
  BY <1>1
<1> QED
  BY <1>5, <1>6, StillDocs, IdlePcs

-----------------------------------------------------------------------------
(* The theorem *)

LEMMA SyncBase ==
    ASSUME Inv, NameInv, TypedOnly, BaseBehind, Docs, Pcs, Undisturbed, Undisturbed', Sync
    PROVE  Docs' /\ Pcs'
<1>1. CASE Start
  BY <1>1, StartBase
<1>2. CASE Recover
  BY <1>2, ReviewBase, RestoreBase, RetainBase DEF Recover
<1>3. CASE ApplyCreate \/ ThreeWay \/ FencedUpdate \/ FencedRename
  BY <1>3, CreateBase, ThreeWayBase, FencedUpdateBase, FencedRenameBase
<1>4. CASE Validate \/ Stage \/ ApplyEntry \/ RecordEvidence \/ RecordOutcome \/ Complete \/ Tidy
  BY <1>4, ValidateBase, StageBase, ApplyEntryBase, RecordEvidenceBase, RecordOutcomeBase,
     CompleteBase, TidyBase
<1> QED
  BY <1>1, <1>2, <1>3, <1>4 DEF Sync, Apply

\* The user, or the service, between two steps of the client.
LEMMA OthersBase ==
    ASSUME Inv, NameInv, TypedOnly, Docs, Pcs, User \/ Publish \/ UNCHANGED vars
    PROVE  Docs' /\ Pcs'
<1>1. /\ UNCHANGED <<gen, path, active, outcomes, evidence>> /\ task' = task
      /\ gen \in Nat /\ gen \in 1..Len(versions) /\ Len(versions) \in Nat
      /\ active => gen < Len(versions)
  <2>1. UNCHANGED <<store, task>>
    BY DEF User, Open, Close, Type, Create, Remove, Resolve, Publish, vars, store
  <2> QED
    BY <2>1 DEF store, Inv, StoreOK, Version
<1>2. \A i \in 1..Len(versions) : versions'[i] = versions[i]
  <2>1. CASE versions' = versions
    BY <2>1
  <2>2. CASE Publish
    <3>1. PICK n : versions' = Append(versions, n) /\ n \in Names \cup {Absent}
      BY <2>2 DEF Publish
    <3> QED
      BY <3>1, AppendProperties, LenProperties DEF Inv, StoreOK
  <2>3. User \/ UNCHANGED vars => versions' = versions
    BY DEF User, Open, Close, Type, Create, Remove, Resolve, vars
  <2> QED
    BY <2>1, <2>2, <2>3
<1>3. SameStore /\ (active => versions'[gen + 1] = versions[gen + 1])
  BY <1>1, <1>2 DEF SameStore
<1>4. Slip
  <2>1. CASE User
    BY <2>1, UserSlips DEF Docs, Plain
  <2>2. CASE Publish \/ UNCHANGED vars
    <3>1. disk' = disk
      BY <2>2 DEF Publish, vars
    <3> QED
      BY <3>1 DEF Slip, RetainedSlip
  <2> QED
    BY <2>1, <2>2
<1> QED
  BY <1>1, <1>3, <1>4, SlipDocs, SlipPcs

LEMMA NextBase == Inv /\ NameInv /\ BaseInv /\ [Next]_vars => BaseInv'
<1> SUFFICES ASSUME Inv, NameInv, BaseInv, [Next]_vars
             PROVE  BaseInv'
  OBVIOUS
<1>1. SnapsOK /\ TypedOnly /\ BaseBehind
  BY DEF BaseInv
<1>2. SnapsOK' /\ TypedOnly' /\ BaseBehind'
  BY <1>1, NextSnaps, NextTypedOnly, NextBaseBehind
<1>3. ASSUME Undisturbed'
      PROVE  Docs' /\ Pcs'
  <2>1. CASE Next
    <3>1. Undisturbed /\ ~ Crash
      BY <1>1, <1>3, <2>1, UndisturbedBefore
    <3>2. Docs /\ Pcs
      BY <3>1 DEF BaseInv
    <3> QED
      BY <1>1, <1>3, <2>1, <3>1, <3>2, SyncBase, OthersBase DEF Next
  <2>2. CASE UNCHANGED vars
    <3>1. Undisturbed
      BY <1>3, <2>2 DEF Undisturbed, Exists, vars
    <3> QED
      BY <1>1, <2>2, <3>1, OthersBase DEF BaseInv
  <2> QED
    BY <2>1, <2>2
<1> QED
  BY <1>2, <1>3 DEF BaseInv

LEMMA InitBase == Init => BaseInv
<1> SUFFICES ASSUME Init
             PROVE  BaseInv
  OBVIOUS
<1>1. PICK n \in Names \cup {Absent} : versions = <<n>>
  BY DEF Init
<1>2. /\ versions[1] = n
      /\ task.pc = "idle" /\ task.seen = Missing /\ task.fence = Missing
      /\ gen = 1 /\ typed = {} /\ evidence = [d \in Deltas |-> NoRow]
      /\ outcomes = [d \in Deltas |-> "none"]
      /\ ~ NoRow.kept /\ ~ NoRow.resolved /\ NoRow.visible = Missing /\ NoRow.captured = Missing
  BY <1>1 DEF Init, IdleTask, NoRow
<1>3. /\ path.base \in {0, 1} /\ path.payload = 0
      /\ path.state \in {"untracked", "clean"}
      /\ n # Absent => path.state = "clean" /\ path.base = 1 /\ path.local = n
      /\ n = Absent => path.state = "untracked"
  BY <1>1, <1>2 DEF Init
<1>4. \A s \in Slots : disk[s] = IF s = File(n) THEN Text("doc", 1, {}) ELSE Missing
  BY <1>1, <1>2 DEF Init
<1>5. \A s \in Slots : /\ disk[s].edits = {} /\ disk[s].kind \in {"doc", "missing"}
                       /\ disk[s].kind = "doc" => s = File(n) /\ disk[s].of = 1
  BY <1>4, TextFields
<1>6. n = Absent => File(n) \notin Slots
  BY GenerationAssumption, SlotsAreSlots DEF Slots, File, Pre, Snap
<1>7. \A d \in Deltas : ~ evidence[d].kept /\ outcomes[d] = "none"
  BY <1>2
<1>8. \A d \in Deltas : d \notin Earlier
  BY <1>2 DEF Earlier, Deltas
<1>9. SnapsOK
  <2>1. \A d \in Deltas : ~ Exists(Snap(d))
    BY SlotsAreSlots, <1>4 DEF Exists
  <2> QED
    BY <1>2, <2>1 DEF SnapsOK
<1>10. TypedOnly /\ BaseBehind
  BY <1>2, <1>3, <1>5, TextFields DEF TypedOnly, BaseBehind
<1>11. Docs
  <2>1. Plain /\ Alone
    BY <1>2, <1>5 DEF Plain, Alone, IsDoc
  <2>2. Follows
    BY <1>2, <1>3, <1>5, <1>6 DEF Follows, IsDoc, Tracked
  <2>3. RowFacts /\ Untwinned
    BY <1>7 DEF RowFacts, Untwinned
  <2>4. LaterEdited /\ BaseEdited
    BY <1>8 DEF LaterEdited, BaseEdited, Earlier
  <2>5. OldBaseEdited /\ CleanUnspoiled
    BY <1>3, <1>8 DEF OldBaseEdited, CleanUnspoiled, NoneSpoiled, Earlier
  <2>6. Shown
    <3>1. path.state = "clean" => n # Absent
      BY <1>3
    <3>2. n # Absent => File(n) \in Slots
      BY SlotsAreSlots
    <3> QED
      BY <1>3, <1>5, <3>1, <3>2 DEF Shown
  <2> QED
    BY <2>1, <2>2, <2>3, <2>4, <2>5, <2>6 DEF Docs
<1>12. Pcs
  <2>1. NotAhead
    BY <1>2, <1>5 DEF NotAhead
  <2>2. RowsInTime
    BY <1>7 DEF RowsInTime
  <2>3. Swept /\ ReviewPcs /\ ApplyPcs /\ FencePc /\ EndPcs
    BY <1>2 DEF Swept, ReviewPcs, ApplyPcs, FencePc, EndPcs, Ends, Verified, Fenced, InPlace,
                Reviewing, Applying
  <2> QED
    BY <2>1, <2>2, <2>3 DEF Pcs
<1> QED
  BY <1>9, <1>10, <1>11, <1>12 DEF BaseInv

\* Between syncs, and until a crash, a path that its record calls clean shows the
\* version that the record says, with whatever edits, unless a displaced inode was
\* written to or two retained files wait for the user: an update that gave way to
\* the user's file never ends as one that was applied.
THEOREM CleanPathsShowTheirBase == Spec => []CleanShowsBase
<1>1. Inv /\ NameInv /\ BaseInv => CleanShowsBase
  <2> SUFFICES ASSUME Inv, NameInv, BaseInv,
                      crashes = 0, task.pc = "idle", ~ active, path.state = "clean",
                      \A d \in Deltas : evidence[d].kept => /\ disk[Pre(d)] = evidence[d].captured
                                                            /\ evidence[d].visible = Missing,
                      disk[File(path.local)].kind = "doc"
               PROVE  disk[File(path.local)].of = path.base
    BY DEF CleanShowsBase
  <2>1. \A d \in Deltas : ~ Changed(d)
    BY DEF Changed
  <2>2. Undisturbed
    BY <2>1 DEF Undisturbed, BaseInv, SnapsOK
  <2>3. Shown
    BY <2>2 DEF BaseInv, Docs
  <2> QED
    BY <2>1, <2>3 DEF Shown, Earlier
<1> QED
  BY <1>1, InitNames, InitBase, InvHolds, InitInv, NextNames, NextBase, PTL DEF Spec
=============================================================================
