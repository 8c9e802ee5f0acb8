---------------------------- MODULE GenerationSync ----------------------------
(***************************************************************************)
(* One document of a shared workspace, as the generation client of the     *)
(* daemon keeps it on a user's disk.  The service publishes generations;   *)
(* each delta brings one entry for the document, which the client applies  *)
(* to files that the user edits at the same time, some of them through     *)
(* descriptors that follow a file wherever the client moves it.  The       *)
(* journal, the path record and the evidence rows are in SQLite and the    *)
(* files on disk: both outlive a crash at any step.                        *)
(*                                                                         *)
(* Delta d takes version d of the document to version d + 1; version 1 is  *)
(* the baseline a full export seeded.  A text is a version or a text of    *)
(* the user's own, with the edits typed into it, or the manifest that      *)
(* names two retained files.  Several reads in a row are one step: a write *)
(* to one file between them is as one before or after all of them.         *)
(***************************************************************************)
EXTENDS Integers, Sequences, FiniteSets

CONSTANTS
    Names,       \* the logical paths the document may have
    Absent,      \* "no such document" in a generation
    Edits,       \* the edits the user may type, each at most once
    Clashing,    \* the edits of lines that every new version changes as well
    MaxDeltas,   \* bound: published deltas
    MaxCrashes   \* bound: crashes of the daemon

ASSUME GenerationAssumption ==
    /\ Names # {} /\ Absent \notin Names
    /\ Clashing \subseteq Edits
    /\ MaxDeltas \in Nat /\ MaxCrashes \in Nat

VARIABLES
    disk,      \* the text in every slot: files, preimages, visible snapshots
    held,      \* the slot of the file the user has open, if any
    typed,     \* the edits typed so far
    owed,      \* history: typed edits the user has not thrown away
    versions,  \* the name of the document in each generation
    gen,       \* observed generation: the version last completed
    path,      \* the path record of the document
    active,    \* whether the journal of delta gen is active
    outcomes,  \* the outcome recorded for the entry of each delta
    payloads,  \* the deltas whose staged payload is on disk
    evidence,  \* the inode evidence row of each delta
    task,      \* the sync that runs: program counter and what it has read
    crashes    \* crashes so far

user == <<held, typed, owed>>
store == <<gen, path, active, outcomes, evidence>>
vars == <<disk, held, typed, owed, versions, gen, path, active, outcomes,
          payloads, evidence, task, crashes>>

Deltas == 1..MaxDeltas
Version == 1..(MaxDeltas + 1)

File(n) == <<"file", n>>
Pre(d) == <<"pre", d>>     \* the inode a delta displaced (preimage_name)
Snap(d) == <<"snap", d>>   \* the visible inode retained beside it
Gone == <<"gone", 0>>      \* an inode with no name left
Closed == <<"closed", 0>>

Slots == {File(n) : n \in Names} \cup {Pre(d) : d \in Deltas} \cup {Snap(d) : d \in Deltas}

Text(kind, of, edits) == [kind |-> kind, of |-> of, edits |-> edits]
Texts == [kind : {"missing", "doc", "own", "manifest"}, of : 0..(MaxDeltas + 1),
          edits : SUBSET Edits]
Missing == Text("missing", 0, {})
Manifest(d) == Text("manifest", d, {})

Exists(s) == disk[s] # Missing

\* What version v puts on disk; the old and the new side of a delta's entry.
Image(v) == IF versions[v] = Absent THEN Missing ELSE Text("doc", v, {})
Old(d) == Image(d)
New(d) == Image(d + 1)

\* merge_text_with_base: clean when no edit touches a line the new version changes.
MergesCleanly(base, local) ==
    /\ local.kind = "doc" /\ local.of = base
    /\ local.edits \cap Clashing = {}
Merged(d, local) == Text("doc", d + 1, local.edits)

Paths == [state : {"untracked", "clean", "dirty", "conflicted"},
          base : 0..(MaxDeltas + 1),      \* base identity: its version, 0 for none
          payload : 0..MaxDeltas,         \* delta whose payload is the merge base
          incoming : 0..(MaxDeltas + 1),  \* incoming identity of a conflict
          conflict : 0..MaxDeltas,        \* delta whose payload the conflict keeps
          local : Names]                  \* local logical path
Tracked == path.state # "untracked"

Rows == [kept : BOOLEAN,      \* the row exists
         resolved : BOOLEAN,
         captured : Texts,    \* fingerprint of the displaced inode
         visible : Texts,     \* fingerprint of the visible snapshot, Missing for NULL
         payload : 0..MaxDeltas,
         name : Names]        \* logical path beside which the inode lies
SomeName == CHOOSE n \in Names : TRUE
NoRow == [kept |-> FALSE, resolved |-> FALSE, captured |-> Missing,
          visible |-> Missing, payload |-> 0, name |-> SomeName]

Results == {"none", "applied", "merged", "deleted", "conflict"}

Reviewing == {"review", "clear", "manifest", "published", "mark", "resolve",
              "unrestore", "restore", "restored", "drop", "retain"}
Applying == {"validate", "stage", "apply", "create", "three-way", "displace", "merge",
             "fenced", "verify", "place", "move", "undo", "putback",
             "rename", "rename-verify", "rename-place", "rename-move", "rename-undo",
             "fence", "record", "complete", "tidy"}
Tasks == [pc : {"idle"} \cup Reviewing \cup Applying,
          d : 0..MaxDeltas,    \* the delta whose entry or row is in hand
          seen : Texts,        \* text read: displaced inode, or local side of a merge
          visible : Texts,     \* text read: visible snapshot
          chosen : Texts,      \* text read: the file, when it is a retained copy
          marks : BOOLEAN,     \* the manifest is followed by a conflict mark
          result : Results,    \* outcome to record
          fence : Texts]       \* fingerprint to record as evidence, Missing for none
IdleTask == [pc |-> "idle", d |-> 0, seen |-> Missing, visible |-> Missing,
             chosen |-> Missing, marks |-> FALSE, result |-> "none", fence |-> Missing]

Init ==
    /\ versions \in {<<n>> : n \in Names \cup {Absent}}
    /\ path = IF versions[1] = Absent
              THEN [state |-> "untracked", base |-> 0, payload |-> 0, incoming |-> 0,
                    conflict |-> 0, local |-> SomeName]
              ELSE [state |-> "clean", base |-> 1, payload |-> 0, incoming |-> 0,
                    conflict |-> 0, local |-> versions[1]]
    /\ disk = [s \in Slots |-> IF s = File(versions[1]) THEN Text("doc", 1, {}) ELSE Missing]
    /\ held = Closed /\ typed = {} /\ owed = {}
    /\ gen = 1 /\ active = FALSE
    /\ outcomes = [d \in Deltas |-> "none"]
    /\ payloads = {}
    /\ evidence = [d \in Deltas |-> NoRow]
    /\ task = IdleTask
    /\ crashes = 0

-----------------------------------------------------------------------------
(* The service and the user *)

\* A new version, under the same name or another one, or the end of the document.
Publish ==
    /\ Len(versions) <= MaxDeltas
    /\ \/ versions[Len(versions)] # Absent
       \/ Len(versions) = 1
    /\ \E n \in Names \cup {Absent} :
         /\ n # Absent \/ versions[Len(versions)] # Absent
         /\ versions' = Append(versions, n)
    /\ UNCHANGED <<disk, user, store, payloads, task, crashes>>

\* The file a delta's entry or row is about.
Target(d) == File(IF d < gen THEN evidence[d].name ELSE path.local)

\* An edit counts as owed unless it goes into a file that has no name any more, or
\* that the sync has read and is about to unlink.
Owes(s, e) ==
    owed' = IF \/ s = Gone
               \/ task.pc \in {"clear", "unrestore", "undo"} /\ s = Target(task.d)
            THEN owed
            ELSE owed \cup {e}

Open(n) ==
    /\ held = Closed /\ Exists(File(n))
    /\ held' = File(n)
    /\ UNCHANGED <<disk, typed, owed, versions, store, payloads, task, crashes>>

Close ==
    /\ held # Closed
    /\ held' = Closed
    /\ UNCHANGED <<disk, typed, owed, versions, store, payloads, task, crashes>>

\* A write through the open descriptor, wherever the file is by now.
Type(e) ==
    /\ held # Closed /\ e \notin typed
    /\ typed' = typed \cup {e}
    /\ Owes(held, e)
    /\ disk' = IF held = Gone THEN disk
               ELSE [disk EXCEPT ![held].edits = @ \cup {e}]
    /\ UNCHANGED <<held, versions, store, payloads, task, crashes>>

\* A file of the user's own, where there is none.
Create(n, e) ==
    /\ ~ Exists(File(n)) /\ e \notin typed
    /\ typed' = typed \cup {e}
    /\ Owes(File(n), e)
    /\ disk' = [disk EXCEPT ![File(n)] = Text("own", 0, {e})]
    /\ UNCHANGED <<held, versions, store, payloads, task, crashes>>

Unlinked(s) == IF held = s THEN Gone ELSE held

Remove(n) ==
    /\ Exists(File(n))
    /\ disk' = [disk EXCEPT ![File(n)] = Missing]
    /\ held' = Unlinked(File(n))
    /\ owed' = owed \ disk[File(n)].edits
    /\ UNCHANGED <<typed, versions, store, payloads, task, crashes>>

\* One of the two retained files is copied over the manifest that names them.
Resolve(n, s) ==
    /\ disk[File(n)].kind = "manifest"
    /\ s \in {Pre(disk[File(n)].of), Snap(disk[File(n)].of)} /\ Exists(s)
    /\ disk' = [disk EXCEPT ![File(n)] = disk[s]]
    /\ owed' = owed \ disk[File(n)].edits
    /\ UNCHANGED <<held, typed, versions, store, payloads, task, crashes>>

User ==
    \/ Close
    \/ \E n \in Names : Open(n) \/ Remove(n)
    \/ \E e \in Edits : Type(e)
    \/ \E n \in Names, e \in Edits : Create(n, e)
    \/ \E n \in Names, s \in Slots : Resolve(n, s)

-----------------------------------------------------------------------------
(* Files, and the ways a sync ends *)

Goto(pc) == task' = [task EXCEPT !.pc = pc]
NoFileChange == UNCHANGED <<disk, user>>
NoStoreChange == UNCHANGED <<store, payloads>>

\* An error ends the sync; the next poll starts a new one.
Abort == task' = IdleTask /\ NoFileChange
Fail == Abort /\ NoStoreChange

\* Mutant of CanMove: the rename replaces what has the new name.
CanMoveReplacing(from, to) == Exists(from)

CanMove(from, to) == Exists(from) /\ ~ Exists(to)

\* A rename that never replaces; an open file keeps its descriptor.
Move(from, to) ==
    /\ disk' = [disk EXCEPT ![to] = disk[from], ![from] = Missing]
    /\ held' = IF held = from THEN to ELSE Unlinked(to)
    /\ UNCHANGED <<typed, owed>>
TryMove(from, to, pc) ==
    IF CanMove(from, to) THEN Move(from, to) /\ Goto(pc) ELSE Abort

Unlink(s) ==
    /\ disk' = [disk EXCEPT ![s] = Missing]
    /\ held' = Unlinked(s)
    /\ UNCHANGED <<typed, owed>>
TryUnlink(s, pc) == IF Exists(s) THEN Unlink(s) /\ Goto(pc) ELSE Abort

\* A link of a finished temporary file to a name that is free.
Put(s, text) ==
    /\ ~ Exists(s)
    /\ disk' = [disk EXCEPT ![s] = text]
    /\ UNCHANGED user

-----------------------------------------------------------------------------
(* Reconciliation of the staging directories *)

BaseReferences == (IF Tracked THEN {path.payload} ELSE {})
                  \cup {evidence[d].payload : d \in {i \in Deltas : evidence[i].kept}}

KeepsConflict(d) ==
    /\ outcomes[d] = "conflict" /\ versions[d + 1] # Absent
    /\ \/ active /\ d = gen
       \/ path.state = "conflicted" /\ path.conflict = d /\ path.incoming = d + 1
KeepsPending(d) == /\ outcomes[d] = "none" /\ versions[d + 1] # Absent
                   /\ active /\ d = gen
KeepsBase(d) == /\ outcomes[d] \in {"applied", "merged"} /\ versions[d + 1] # Absent
                /\ d \in BaseReferences

Published == 1..(Len(versions) - 1)
StagingIsWhole ==
    \A d \in Published : KeepsConflict(d) \/ KeepsBase(d) => d \in payloads
PrunedPayloads ==
    {d \in payloads : KeepsConflict(d) \/ KeepsPending(d) \/ KeepsBase(d)}

ReconcileStaging(pc) ==
    /\ IF StagingIsWhole
       THEN payloads' = PrunedPayloads /\ task' = [IdleTask EXCEPT !.pc = pc]
       ELSE task' = IdleTask /\ UNCHANGED payloads
    /\ NoFileChange
    /\ UNCHANGED store

-----------------------------------------------------------------------------
(* Review of the evidence that completed deltas left *)

Unreviewed(d) == {i \in (d + 1)..(gen - 1) : evidence[i].kept}
NextReview(d) ==
    \/ Unreviewed(d) = {} /\ task' = [IdleTask EXCEPT !.pc = "validate"]
    \/ \E i \in Unreviewed(d) :
         /\ \A j \in Unreviewed(d) : i <= j
         /\ task' = [IdleTask EXCEPT !.pc = "review", !.d = i]

Begin ==
    /\ task.pc = "idle"
    /\ IF StagingIsWhole
       THEN payloads' = PrunedPayloads /\ NextReview(0)
       ELSE UNCHANGED <<payloads, task>>
    /\ NoFileChange
    /\ UNCHANGED store

\* Mutant of MarkConflict: the path record stays as it is.
MarkConflictInJournal(d, seen, visible) ==
    /\ outcomes' = [outcomes EXCEPT ![d] = "conflict"]
    /\ evidence' = [evidence EXCEPT ![d].captured = seen, ![d].visible = visible]
    /\ UNCHANGED path

\* mark_generation_inode_evidence_conflict: the path goes back to the old identity
\* of the delta, in conflict with its new one.
MarkConflict(d, seen, visible) ==
    /\ path' = [state |-> "conflicted", base |-> d, payload |-> evidence[d].payload,
                incoming |-> IF versions[d + 1] = Absent THEN 0 ELSE d + 1,
                conflict |-> IF versions[d + 1] = Absent THEN 0 ELSE d,
                local |-> IF Tracked THEN path.local ELSE versions[d]]
    /\ outcomes' = [outcomes EXCEPT ![d] = "conflict"]
    /\ evidence' = [evidence EXCEPT ![d].captured = seen, ![d].visible = visible]

\* mark_generation_inode_evidence_resolved: the path follows the delta again, which
\* the store refuses of a document that the delta ended.
MarkResolved(d) ==
    /\ versions[d + 1] # Absent
    /\ path' = [state |-> "dirty", base |-> d + 1, payload |-> d, incoming |-> 0,
                conflict |-> 0, local |-> IF Tracked THEN path.local ELSE versions[d + 1]]
    /\ outcomes' = [outcomes EXCEPT ![d] = "merged"]
    /\ evidence' = [evidence EXCEPT ![d].resolved = TRUE]

\* record_changed_dual_inode_evidence: a retained inode was written to again.
RecordChanged(pre, snap, file) ==
    task' = [task EXCEPT !.seen = pre, !.visible = snap, !.marks = TRUE,
                         !.pc = CASE file = Missing -> "manifest"
                                  [] file \in {pre, snap} \ {Missing} -> "clear"
                                  [] OTHER -> "mark"]

Review ==
    /\ task.pc = "review"
    /\ LET d == task.d
           row == evidence[d]
           pre == disk[Pre(d)]
           snap == disk[Snap(d)]
           file == disk[File(row.name)]
           Skip == NextReview(d) /\ NoFileChange /\ NoStoreChange
           Continue == NoFileChange /\ NoStoreChange
           MissingPreimage ==
             /\ pre = Missing
             /\ IF row.visible = Missing /\ outcomes[d] = "conflict"
                THEN /\ evidence' = [evidence EXCEPT ![d] = NoRow]
                     /\ NextReview(d)
                     /\ NoFileChange
                     /\ UNCHANGED <<gen, path, active, outcomes, payloads>>
                ELSE Fail
           Retained ==
             /\ pre # Missing /\ row.visible # Missing
             /\ IF snap = Missing THEN Fail
                ELSE IF pre # row.captured \/ snap # row.visible
                THEN RecordChanged(pre, snap, file) /\ Continue
                ELSE CASE file = Manifest(d) -> Skip
                       [] file = Missing -> Goto("manifest") /\ Continue
                       [] file \in {pre, snap} \ {Manifest(d)} ->
                            /\ task' = [task EXCEPT !.pc = "resolve", !.seen = pre,
                                                   !.visible = snap, !.chosen = file]
                            /\ Continue
                       [] OTHER -> Fail
           Displaced ==
             /\ pre # Missing /\ row.visible = Missing
             /\ IF pre = row.captured /\ snap = Missing THEN Skip
                ELSE /\ task' = [task EXCEPT
                                   !.seen = pre, !.visible = snap, !.marks = TRUE,
                                   !.pc = IF snap # Missing THEN "manifest"
                                          ELSE IF file = Missing THEN "restore"
                                          ELSE IF file = New(d) THEN "unrestore"
                                          ELSE "retain"]
                     /\ Continue
       IN IF row.resolved THEN Skip ELSE MissingPreimage \/ Retained \/ Displaced
    /\ UNCHANGED <<versions, crashes>>

\* A write through the old descriptor, and the new version not touched: the
\* displaced inode takes the place of the new version.
Restore ==
    /\ \/ /\ task.pc = "unrestore"
          /\ TryUnlink(Target(task.d), "restore")
          /\ NoStoreChange
       \/ /\ task.pc = "restore"
          /\ TryMove(Pre(task.d), Target(task.d), "restored")
          /\ NoStoreChange
       \/ /\ task.pc = "restored" /\ disk[Target(task.d)] # task.seen
          /\ Fail
       \/ /\ task.pc = "restored" /\ disk[Target(task.d)] = task.seen
          /\ MarkConflict(task.d, task.seen, Missing)
          /\ Goto("drop")
          /\ NoFileChange
          /\ UNCHANGED <<gen, active, payloads>>
       \/ /\ task.pc = "drop"
          /\ evidence' = [evidence EXCEPT ![task.d] = NoRow]
          /\ NextReview(task.d)
          /\ NoFileChange
          /\ UNCHANGED <<gen, path, active, outcomes, payloads>>
    /\ UNCHANGED <<versions, crashes>>

\* Both were written to: the visible inode is kept as well, under its own name, and
\* the file becomes the manifest of the two.
Retain ==
    /\ \/ /\ task.pc = "retain"
          /\ IF CanMove(Target(task.d), Snap(task.d))
             THEN /\ Move(Target(task.d), Snap(task.d))
                  /\ task' = [task EXCEPT !.pc = "manifest",
                                         !.visible = disk[Target(task.d)]]
             ELSE Abort
          /\ NoStoreChange
       \/ /\ task.pc = "clear"
          /\ TryUnlink(Target(task.d), "manifest")
          /\ NoStoreChange
       \/ /\ task.pc = "manifest"
          /\ CASE disk[Target(task.d)] = Manifest(task.d) ->
                    NoFileChange /\ IF task.marks THEN Goto("mark") ELSE NextReview(task.d)
               [] disk[Target(task.d)] = Missing ->
                    Put(Target(task.d), Manifest(task.d)) /\ Goto("published")
               [] OTHER -> Abort
          /\ NoStoreChange
       \/ /\ task.pc = "published"
          /\ IF disk[Target(task.d)] = Manifest(task.d)
             THEN IF task.marks THEN Goto("mark") ELSE NextReview(task.d)
             ELSE task' = IdleTask
          /\ NoFileChange /\ NoStoreChange
       \/ /\ task.pc = "mark"
          /\ MarkConflict(task.d, task.seen, task.visible)
          /\ NextReview(task.d)
          /\ NoFileChange
          /\ UNCHANGED <<gen, active, payloads>>
    /\ UNCHANGED <<versions, crashes>>

\* The user has copied one of the retained files over the manifest.  When the document
\* has ended the sync fails, as will the next ones, until the file is removed.
ResolveEvidence ==
    /\ task.pc = "resolve"
    /\ LET pre == disk[Pre(task.d)]
           snap == disk[Snap(task.d)]
           file == disk[Target(task.d)]
           unchanged == <<file, pre, snap>> = <<task.chosen, task.seen, task.visible>>
       IN \/ /\ \/ Missing \in {file, pre, snap}
                \/ unchanged /\ versions[task.d + 1] = Absent
             /\ Fail
          \/ /\ Missing \notin {file, pre, snap}
             /\ ~ unchanged
             /\ RecordChanged(pre, snap, file)
             /\ NoFileChange /\ NoStoreChange
          \/ /\ unchanged
             /\ MarkResolved(task.d)
             /\ NextReview(task.d)
             /\ NoFileChange
             /\ UNCHANGED <<gen, active, payloads>>
    /\ UNCHANGED <<versions, crashes>>

-----------------------------------------------------------------------------
(* Application of the active delta *)

\* A delta is accepted when its old side is what the path record says is expected.
ExpectedVersion == IF path.state = "conflicted" THEN path.incoming ELSE path.base
BaseMatches(d) == versions[d] # Absent => Tracked /\ ExpectedVersion = d

\* Mutant of HasDelta: the last completed delta is delivered again.
HasDeltaAgain == gen <= Len(versions)

\* The active journal is resumed, or the next delta, if there is one, reserved.
HasDelta == active \/ gen < Len(versions)

Validate ==
    /\ task.pc = "validate"
    /\ \/ /\ ~ HasDelta
          /\ ReconcileStaging("idle")
       \/ /\ HasDelta
          /\ IF BaseMatches(gen)
             THEN /\ active' = TRUE
                  /\ task' = [IdleTask EXCEPT !.pc = "stage", !.d = gen]
                  /\ NoFileChange
                  /\ UNCHANGED <<gen, path, outcomes, evidence, payloads>>
             ELSE Fail
    /\ UNCHANGED <<versions, crashes>>

Stage ==
    /\ task.pc = "stage"
    /\ IF outcomes[gen] = "none"
       THEN /\ payloads' = IF versions[gen + 1] = Absent THEN payloads
                           ELSE payloads \cup {gen}
            /\ Goto("apply")
       ELSE UNCHANGED payloads /\ Goto("complete")
    /\ NoFileChange
    /\ UNCHANGED <<store, versions, crashes>>

\* Mutant of Finish: no evidence of the displaced inode is recorded.
FinishForgetting(result, fence) ==
    task' = [task EXCEPT !.result = result, !.pc = "record"]

\* The outcome of an entry; a changed file, or a merge, leaves evidence of the inode.
Finish(result, fence) ==
    task' = [task EXCEPT !.result = result, !.fence = fence,
                         !.pc = IF fence = Missing THEN "record" ELSE "fence"]

Done(d) == IF versions[d + 1] = Absent THEN "deleted" ELSE "applied"

Renames(d) == /\ Absent \notin {versions[d], versions[d + 1]}
              /\ versions[d] # versions[d + 1]
              /\ path.local # versions[d + 1]

\* apply_entry: the function that handles this kind of entry.
ApplyEntry ==
    /\ task.pc = "apply"
    /\ Goto(IF versions[gen] = Absent THEN "create"
            ELSE IF Renames(gen) THEN "rename"
            ELSE IF path.payload # 0 /\ versions[gen + 1] # Absent THEN "three-way"
            ELSE "fenced")
    /\ NoFileChange /\ NoStoreChange
    /\ UNCHANGED <<versions, crashes>>

ApplyCreate ==
    /\ task.pc = "create"
    /\ LET file == File(versions[gen + 1])
       IN IF ~ Exists(file)
          THEN Put(file, New(gen)) /\ Finish("applied", Missing)
          ELSE /\ Finish(IF disk[file] = New(gen) THEN "applied" ELSE "conflict", Missing)
               /\ NoFileChange
    /\ NoStoreChange
    /\ UNCHANGED <<versions, crashes>>

\* Mutant of HasMerged: a merge that a crash cut off from its outcome is not known.
HasMergedForgotten(local) == FALSE

\* The merge of a displaced local side is on disk already.
HasMerged(local) == disk[File(path.local)] = Merged(gen, local)

\* apply_three_way_update, which gives way to the fenced update unless the local
\* side has edits that merge.
ThreeWay ==
    /\ \/ /\ task.pc = "three-way"
          /\ LET pre == disk[Pre(gen)]
                 file == disk[File(path.local)]
                 displaced == pre \notin {Missing, Old(gen)}
                 local == IF displaced THEN pre ELSE file
             IN \/ /\ path.payload \notin payloads \/ path.base # path.payload + 1
                   /\ Fail
                \/ /\ path.payload \in payloads /\ path.base = path.payload + 1
                   /\ CASE \/ ~ displaced /\ file \in {Missing, Old(gen), New(gen)}
                           \/ ~ MergesCleanly(path.base, local)
                           \/ displaced /\ file # Missing /\ ~ HasMerged(local) ->
                             Goto("fenced")
                        [] displaced /\ MergesCleanly(path.base, local) /\ HasMerged(local) ->
                             Finish("merged", local)
                        [] OTHER ->
                             task' = [task EXCEPT !.seen = local,
                                         !.pc = IF displaced THEN "merge" ELSE "displace"]
                   /\ NoFileChange
       \/ /\ task.pc = "displace"
          /\ TryMove(File(path.local), Pre(gen), "merge")
       \/ /\ task.pc = "merge"
          /\ CASE disk[Pre(gen)] # task.seen /\ ~ Exists(File(path.local)) ->
                    Move(Pre(gen), File(path.local)) /\ Finish("conflict", Old(gen))
               [] disk[Pre(gen)] # task.seen /\ Exists(File(path.local)) ->
                    Finish("conflict", Old(gen)) /\ NoFileChange
               [] disk[Pre(gen)] = task.seen /\ ~ Exists(File(path.local)) ->
                    /\ Put(File(path.local), Merged(gen, task.seen))
                    /\ Finish("merged", task.seen)
               [] OTHER -> Abort
    /\ NoStoreChange
    /\ UNCHANGED <<versions, crashes>>

\* apply_fenced_update, and apply_fenced_delete: its new side is a missing file.
\* The old file is moved aside, read again, and only then replaced.
FencedUpdate ==
    LET file == File(path.local)
        pre == Pre(gen)
    IN /\ \/ /\ task.pc = "fenced"
             /\ CASE disk[pre] = Missing /\ disk[file] = New(gen) ->
                       Finish(Done(gen), Missing)
                  [] disk[pre] = Missing /\ disk[file] = Old(gen) -> Goto("move")
                  [] disk[pre] = Missing /\ disk[file] \notin {Old(gen), New(gen)} ->
                       Finish("conflict", Missing)
                  [] disk[pre] = Old(gen) -> Goto("verify")
                  [] disk[pre] \notin {Missing, Old(gen)} /\ Exists(file) -> task' = IdleTask
                  [] OTHER -> Goto("putback")
             /\ NoFileChange
          \/ /\ task.pc = "move"
             /\ IF Exists(file) /\ Exists(pre) THEN Goto("fenced") /\ NoFileChange
                ELSE TryMove(file, pre, "fenced")
          \/ /\ task.pc = "verify"
             /\ IF disk[pre] = Old(gen) THEN Goto("place")
                ELSE CASE ~ Exists(file) -> Goto("putback")
                       [] Exists(file) /\ disk[file] = New(gen) -> Goto("undo")
                       [] OTHER -> task' = IdleTask
             /\ NoFileChange
          \/ /\ task.pc = "place"
             /\ CASE disk[file] = New(gen) -> Finish(Done(gen), Old(gen)) /\ NoFileChange
                  [] disk[file] # New(gen) /\ Exists(file) ->
                       Finish("conflict", Old(gen)) /\ NoFileChange
                  [] OTHER -> Put(file, New(gen)) /\ Finish("applied", Old(gen))
          \/ /\ task.pc = "undo"
             /\ TryUnlink(file, "putback")
          \/ /\ task.pc = "putback"
             /\ IF CanMove(pre, file)
                THEN Move(pre, file) /\ Finish("conflict", Old(gen))
                ELSE Abort
       /\ NoStoreChange
       /\ UNCHANGED <<versions, crashes>>

\* apply_fenced_rename: a conflict reports no change, so it leaves no evidence.
FencedRename ==
    LET from == File(path.local)
        to == File(versions[gen + 1])
        pre == Pre(gen)
    IN /\ \/ /\ task.pc = "rename"
             /\ IF disk[to] \notin {Missing, New(gen)} THEN Finish("conflict", Missing)
                ELSE CASE disk[pre] = Old(gen) ->
                            task' = [task EXCEPT !.pc = "rename-verify", !.seen = disk[to]]
                       [] disk[pre] = Missing /\ disk[from] = Old(gen) -> Goto("rename-move")
                       [] disk[pre] = Missing /\ disk[from] = Missing /\ disk[to] = New(gen) ->
                            Finish("applied", Missing)
                       [] OTHER -> Finish("conflict", Missing)
             /\ NoFileChange
          \/ /\ task.pc = "rename-move"
             /\ TryMove(from, pre, "rename")
          \/ /\ task.pc = "rename-verify"
             /\ CASE disk[pre] = Old(gen) -> Goto("rename-place")
                  [] disk[pre] # Old(gen) /\ Exists(from) -> Finish("conflict", Missing)
                  [] OTHER -> Goto("rename-undo")
             /\ NoFileChange
          \/ /\ task.pc = "rename-undo"
             /\ IF CanMove(pre, from)
                THEN Move(pre, from) /\ Finish("conflict", Missing)
                ELSE Abort
          \/ /\ task.pc = "rename-place"
             /\ CASE task.seen = New(gen) -> Finish("applied", Old(gen)) /\ NoFileChange
                  [] task.seen = Missing /\ ~ Exists(to) ->
                       Put(to, New(gen)) /\ Finish("applied", Old(gen))
                  [] OTHER -> Goto("rename") /\ NoFileChange
       /\ NoStoreChange
       /\ UNCHANGED <<versions, crashes>>

\* Evidence and outcome are recorded in two transactions.
RecordEvidence ==
    /\ task.pc = "fence"
    /\ LET row == [NoRow EXCEPT !.kept = TRUE, !.captured = task.fence,
                                !.payload = path.payload, !.name = path.local]
       IN IF evidence[gen].kept /\ evidence[gen] # row
          THEN task' = IdleTask /\ UNCHANGED evidence
          ELSE evidence' = [evidence EXCEPT ![gen] = row] /\ Goto("record")
    /\ NoFileChange
    /\ UNCHANGED <<gen, path, active, outcomes, payloads, versions, crashes>>

RecordOutcome ==
    /\ task.pc = "record"
    /\ outcomes' = [outcomes EXCEPT ![gen] = task.result]
    /\ Goto("complete")
    /\ NoFileChange
    /\ UNCHANGED <<gen, path, active, evidence, payloads, versions, crashes>>

\* complete_generation_apply: one transaction moves the path and the generation.
Accepted(state) == [state |-> state, base |-> gen + 1, payload |-> gen, incoming |-> 0,
                    conflict |-> 0, local |-> versions[gen + 1]]
Untracked == [state |-> "untracked", base |-> 0, payload |-> 0, incoming |-> 0,
              conflict |-> 0, local |-> SomeName]
Conflicted ==
    LET known == IF Tracked THEN path ELSE [Untracked EXCEPT !.local = versions[gen + 1]]
    IN [known EXCEPT !.state = "conflicted",
                     !.incoming = IF versions[gen + 1] = Absent THEN 0 ELSE gen + 1,
                     !.conflict = IF versions[gen + 1] = Absent THEN 0 ELSE gen]

Complete ==
    /\ task.pc = "complete"
    /\ path' = CASE outcomes[gen] = "applied" -> Accepted("clean")
                 [] outcomes[gen] = "merged" -> Accepted("dirty")
                 [] outcomes[gen] = "deleted" -> Untracked
                 [] OTHER -> Conflicted
    /\ gen' = gen + 1
    /\ active' = FALSE
    /\ Goto("tidy")
    /\ NoFileChange
    /\ UNCHANGED <<outcomes, evidence, payloads, versions, crashes>>

Tidy ==
    /\ task.pc = "tidy"
    /\ ReconcileStaging("idle")
    /\ UNCHANGED <<versions, crashes>>

\* The process ends; files, database and the user's editor stay as they are.
Crash ==
    /\ crashes < MaxCrashes /\ task.pc # "idle"
    /\ crashes' = crashes + 1
    /\ task' = IdleTask
    /\ UNCHANGED <<disk, user, versions, store, payloads>>

Start == Begin /\ UNCHANGED <<versions, crashes>>
Recover == Review \/ Restore \/ Retain \/ ResolveEvidence
Apply == \/ Validate \/ Stage \/ ApplyEntry \/ ApplyCreate \/ ThreeWay
         \/ FencedUpdate \/ FencedRename
         \/ RecordEvidence \/ RecordOutcome \/ Complete \/ Tidy
Sync == Start \/ Recover \/ Apply

Next == Publish \/ User \/ Sync \/ Crash

Spec == Init /\ [][Next]_vars

-----------------------------------------------------------------------------
(* Properties *)

\* Every variable stays in its type, so that no entry is applied twice at once, no
\* row names a version that does not exist, and the journal is one delta ahead at
\* most.
TypeOK ==
    /\ disk \in [Slots -> Texts]
    /\ held \in Slots \cup {Gone, Closed}
    /\ typed \subseteq Edits /\ owed \subseteq typed
    /\ versions \in Seq(Names \cup {Absent}) /\ Len(versions) \in Version
    /\ gen \in 1..Len(versions) /\ (active => gen < Len(versions))
    /\ path \in Paths /\ active \in BOOLEAN
    /\ outcomes \in [Deltas -> Results]
    /\ payloads \subseteq Deltas
    /\ evidence \in [Deltas -> Rows]
    /\ task \in Tasks
    /\ crashes \in 0..MaxCrashes

EditsOnDisk == UNION {disk[s].edits : s \in Slots}

\* Whatever the user types into a file, while the client moves, merges and replaces
\* it, stays on disk until the user throws it away.
EditsAreKept == owed \subseteq EditsOnDisk

\* An inode kept under a name that no user looks at holds the user's edits only
\* while a row, or the journal that is being applied, tells the client of it.
Named(d) ==
    \A s \in {Pre(d), Snap(d)} :
        owed \cap disk[s].edits # {} => evidence[d].kept \/ (active /\ d = gen)
RetainedAreNamed == \A d \in Deltas : Named(d)

\* The same for every delta that does not rename the document.
RetainedInPlaceAreNamed ==
    \A d \in Published :
        versions[d] = versions[d + 1] \/ Absent \in {versions[d], versions[d + 1]} => Named(d)

\* Between syncs a clean path shows the version that its record says, with whatever
\* edits, unless a write to a displaced inode waits to be reviewed, two retained
\* inodes wait for the user, or a crash came between outcome and completion.
CleanShowsBase ==
    /\ crashes = 0 /\ task.pc = "idle" /\ ~ active /\ path.state = "clean"
    /\ \A d \in Deltas : evidence[d].kept => /\ disk[Pre(d)] = evidence[d].captured
                                             /\ evidence[d].visible = Missing
    /\ disk[File(path.local)].kind = "doc"
    => disk[File(path.local)].of = path.base

=============================================================================
