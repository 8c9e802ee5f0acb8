------------------------------- MODULE PageSync -------------------------------
(***************************************************************************)
(* One page of a mount and its three trees: the Local Tree (the projected  *)
(* Markdown file), the Synced Tree (the shadow and the version kept in the *)
(* entity record) and the Remote Tree (the source of truth in the SaaS).   *)
(* The daemon changes them with two jobs, pull and push, each of which is  *)
(* a sequence of reads, network calls and separately durable writes; a     *)
(* user edits the file, other people edit the remote page, calls fail and  *)
(* the daemon crashes between any two of those steps.                      *)
(*                                                                         *)
(* A page body is a function from blocks to values.  A file may hold, for  *)
(* each block, two sides of an inline conflict hunk: it carries conflict   *)
(* markers when the sides differ somewhere.                                *)
(***************************************************************************)
EXTENDS Integers, Sequences, FiniteSets

CONSTANTS
    Blocks,          \* the blocks of the page
    Values,          \* the contents a block may have
    Base,            \* the content of every block when the page is first synced
    None,            \* "no value": a block a plan leaves alone, no pending edit
    MaxLocalEdits,   \* bound: edits by the user
    MaxRemoteEdits,  \* bound: edits of the page by other people
    MaxTouches,      \* bound: new remote versions that leave the body as it was
    MaxDeletes,      \* bound: 0 or 1, whether the remote page may be deleted
    MaxPushes,       \* bound: journal entries
    MaxFailures,     \* bound: failed calls to the source or to the store
    MaxCrashes       \* bound: daemon crashes

ASSUME PageSyncAssumption ==
    /\ Base \in Values
    /\ None \notin Values
    /\ {MaxLocalEdits, MaxRemoteEdits, MaxTouches, MaxDeletes, MaxPushes,
        MaxFailures, MaxCrashes} \subseteq Nat

VARIABLES
    file,      \* Local Tree: whether the file exists, and both sides of each hunk
    shadow,    \* Synced Tree: the last accepted render of the page
    entity,    \* entity record: is it there, hydration state, synced version
    remote,    \* Remote Tree: body, version, and whether the page exists
    journal,   \* the push journal, oldest entry first
    task,      \* the daemon's running job: program counter and what it holds
    mine,      \* history: per block, the user's value that nothing has accepted
    shown,     \* history: per block, the values the file has shown to the user
    late,      \* history: blocks edited remotely since a push last compared bodies
    landed,    \* history: <<push, block>> for every operation that reached remote
    spent      \* how much of each bound is used up

vars == <<file, shadow, entity, remote, journal, task, mine, shown, late, landed, spent>>

Bodies == [Blocks -> Values]
Plans == [Blocks -> Values \cup {None}]
Files == [exists : BOOLEAN, ours : Bodies, theirs : Bodies]
Documents == {f \in Files : f.exists}
Renders == [body : Bodies, version : Nat]
Entities == [tracked : BOOLEAN,
             hydration : {"Hydrated", "Dirty", "Conflicted"}, version : Nat]

\* JournalStatus, without the message a failure carries.
Statuses == {"Prepared", "Applying", "Applied", "Reconciled", "Reverted", "Failed"}
Entries == [plan : Plans, status : Statuses, effects : BOOLEAN]

PushSteps == {"applying", "check", "begin", "ops", "applied", "readback",
              "pushFile", "pushShadow", "pushEntity", "reconciled"}
PullSteps == {"render", "decide", "remove", "untrack",
              "pullFile", "pullShadow", "pullEntity"}
Tasks == [pc : {"idle"} \cup PushSteps \cup PullSteps,
          replace : BOOLEAN,     \* pull: the file was clean when the job began
          typed : SUBSET Blocks, \* history: edited since the job read the file
          plan : Plans,          \* push: the operations of the plan
          todo : SUBSET Blocks,  \* push: operations the connector has not sent yet
          expect : Nat,          \* push: the remote precondition
          fetched : Renders,     \* the last render of the remote page
          out : Documents]       \* the document about to be written

Budgets == [local : 0..MaxLocalEdits, remote : 0..MaxRemoteEdits,
            touch : 0..MaxTouches, delete : 0..MaxDeletes,
            fail : 0..MaxFailures, crash : 0..MaxCrashes]

-----------------------------------------------------------------------------
(* Documents *)

BaseBody == [b \in Blocks |-> Base]
NoPlan == [b \in Blocks |-> None]
Document(body) == [exists |-> TRUE, ours |-> body, theirs |-> body]

HasMarkers(f) == f.ours # f.theirs

\* The file's content is the Synced Tree's, so replacing it loses nothing.  A
\* missing file may be replaced as well; a file with markers never matches.
CanReplaceFile(f) == f.exists => f.ours = shadow /\ f.theirs = shadow

\* Mutant of Merge: the incoming side wins a block that both sides changed.
MergeForgettingLocal(base, local, incoming) ==
    [exists |-> TRUE,
     ours |-> [b \in Blocks |->
                 IF incoming[b] = base[b] THEN local[b] ELSE incoming[b]],
     theirs |-> [b \in Blocks |->
                 IF incoming[b] = base[b] THEN local[b] ELSE incoming[b]]]

\* The three-way merge of a pending file with a changed remote page: a side that
\* did not change gives way, and a block both sides changed becomes a hunk.
Merge(base, local, incoming) ==
    [exists |-> TRUE,
     ours |-> [b \in Blocks |->
                 IF local[b] = base[b] THEN incoming[b] ELSE local[b]],
     theirs |-> [b \in Blocks |->
                 IF incoming[b] = base[b] THEN local[b] ELSE incoming[b]]]

\* With no base the differing lines of the two documents become one hunk.
Hunk(local, incoming) == [exists |-> TRUE, ours |-> local, theirs |-> incoming]

\* The block diff of the file against the shadow.
PlanOf(body) == [b \in Blocks |-> IF body[b] = shadow[b] THEN None ELSE body[b]]

\* Mutant of Operations: unchanged blocks are sent as well.
OperationsOfEveryBlock(plan) == DOMAIN plan

Operations(plan) == {b \in Blocks : plan[b] # None}

\* A conflicted page stays conflicted until a push or a clean pull accepts it.
MarkDirty(hydration) == IF hydration = "Conflicted" THEN hydration ELSE "Dirty"

-----------------------------------------------------------------------------
(* The journal *)

Pushing == Len(journal)

Latest(S) == CHOOSE i \in S : \A j \in S : j <= i

\* Entries a new push of the same plan has to look at before it may apply.
Resumable(plan) ==
    {i \in 1..Len(journal) : /\ journal[i].status \in {"Failed", "Applied", "Applying"}
                             /\ journal[i].plan = plan}

\* Only create, move and archive effects can be resumed; a plan of block updates
\* that reached apply is refused while its entry is the newest that matches.
RefusesToApplyAgain(plan) ==
    /\ Resumable(plan) # {}
    /\ LET entry == journal[Latest(Resumable(plan))]
       IN entry.status = "Applied" \/ entry.effects

SetStatus(status) == journal' = [journal EXCEPT ![Pushing].status = status]

-----------------------------------------------------------------------------
IdleTask == [pc |-> "idle", replace |-> FALSE, typed |-> {}, plan |-> NoPlan,
             todo |-> {}, expect |-> 0,
             fetched |-> [body |-> BaseBody, version |-> 0],
             out |-> Document(BaseBody)]

Goto(pc) == task' = [task EXCEPT !.pc = pc]
EndJob == task' = IdleTask

Spend(budget) == spent' = [spent EXCEPT ![budget] = @ + 1]
MayFail == spent.fail < MaxFailures

Init ==
    /\ file = Document(BaseBody)
    /\ shadow = BaseBody
    /\ entity = [tracked |-> TRUE, hydration |-> "Hydrated", version |-> 0]
    /\ remote = [exists |-> TRUE, body |-> BaseBody, version |-> 0]
    /\ journal = <<>>
    /\ task = IdleTask
    /\ mine = NoPlan
    /\ shown = [b \in Blocks |-> {Base}]
    /\ late = {}
    /\ landed = {}
    /\ spent = [local |-> 0, remote |-> 0, touch |-> 0, delete |-> 0,
                fail |-> 0, crash |-> 0]

-----------------------------------------------------------------------------
(* The user and the other people *)

\* A saved value is pending unless it is the Synced Tree's own.
Pending(b, v) == IF v = shadow[b] THEN None ELSE v

Typing(S) == task' = IF task.pc = "idle" THEN task ELSE [task EXCEPT !.typed = @ \cup S]

LocalEdit(b, v) ==
    /\ spent.local < MaxLocalEdits
    /\ file.exists /\ file.ours[b] = file.theirs[b] /\ file.ours[b] # v
    /\ file' = [file EXCEPT !.ours[b] = v, !.theirs[b] = v]
    /\ mine' = [mine EXCEPT ![b] = Pending(b, v)]
    /\ Typing({b})
    /\ Spend("local")
    /\ UNCHANGED <<shadow, entity, remote, journal, shown, late, landed>>

\* The user removes every marker line, keeping one side of the hunks.
Resolve(kept) ==
    /\ file.exists /\ HasMarkers(file)
    /\ kept \in {file.ours, file.theirs}
    /\ file' = Document(kept)
    /\ mine' = [b \in Blocks |-> IF file.ours[b] = file.theirs[b] THEN mine[b]
                                 ELSE Pending(b, kept[b])]
    /\ Typing({b \in Blocks : file.ours[b] # file.theirs[b]})
    /\ UNCHANGED <<shadow, entity, remote, journal, shown, late, landed, spent>>

\* A source's version need not be finer than its edits: the version of a Notion
\* page is its last edit time, rounded to the minute.
RemoteEdit(b, v) ==
    /\ spent.remote < MaxRemoteEdits
    /\ remote.exists /\ remote.body[b] # v
    /\ \E version \in {remote.version, remote.version + 1} :
         remote' = [remote EXCEPT !.body[b] = v, !.version = version]
    /\ late' = late \cup {b}
    /\ Spend("remote")
    /\ UNCHANGED <<file, shadow, entity, journal, task, mine, shown, landed>>

\* An edit that was undone, or that the rendered Markdown does not show.
RemoteTouch ==
    /\ spent.touch < MaxTouches
    /\ remote.exists
    /\ remote' = [remote EXCEPT !.version = @ + 1]
    /\ Spend("touch")
    /\ UNCHANGED <<file, shadow, entity, journal, task, mine, shown, late, landed>>

RemoteDelete ==
    /\ spent.delete < MaxDeletes
    /\ remote.exists
    /\ remote' = [remote EXCEPT !.exists = FALSE]
    /\ Spend("delete")
    /\ UNCHANGED <<file, shadow, entity, journal, task, mine, shown, late, landed>>

-----------------------------------------------------------------------------
(* Push *)

\* A confirmed push job: the file is read and diffed, and the plan is journaled
\* with the synced version as its precondition.  A file with markers, an empty
\* plan, an unconfirmed plan and a refused one end the job with nothing changed.
BeginPush ==
    /\ task.pc = "idle"
    /\ Len(journal) < MaxPushes
    /\ entity.tracked /\ file.exists /\ ~HasMarkers(file)
    /\ LET plan == PlanOf(file.ours)
       IN /\ Operations(plan) # {}
          /\ ~RefusesToApplyAgain(plan)
          /\ journal' = Append(journal, [plan |-> plan, status |-> "Prepared",
                                         effects |-> FALSE])
          /\ task' = [IdleTask EXCEPT !.pc = "applying", !.plan = plan,
                                      !.expect = entity.version]
    /\ UNCHANGED <<file, shadow, entity, remote, mine, shown, late, landed, spent>>

MarkApplying ==
    /\ task.pc = "applying"
    /\ SetStatus("Applying")
    /\ Goto("check")
    /\ UNCHANGED <<file, shadow, entity, remote, mine, shown, late, landed, spent>>

\* Mutant of RemoteIsSynced: the version alone decides.
VersionIsSynced ==
    /\ remote.exists
    /\ remote.version = task.expect

\* The connector compares versions, then the daemon renders the page afresh and
\* compares it with the shadow.
RemoteIsSynced ==
    /\ remote.exists
    /\ remote.version = task.expect
    /\ remote.body = shadow

CheckPasses ==
    /\ task.pc = "check"
    /\ RemoteIsSynced
    /\ late' = {}
    /\ Goto("begin")
    /\ UNCHANGED <<file, shadow, entity, remote, journal, mine, shown, landed, spent>>

\* The guardrail, or a check that could not be made: nothing was applied.
CheckRejects ==
    /\ task.pc = "check"
    /\ \/ ~RemoteIsSynced /\ UNCHANGED spent
       \/ RemoteIsSynced /\ MayFail /\ Spend("fail")
    /\ SetStatus("Reverted")
    /\ EndJob
    /\ UNCHANGED <<file, shadow, entity, remote, mine, shown, late, landed>>

\* The connector's apply compares the version once more, and only that.
BeginApply ==
    /\ task.pc = "begin"
    /\ remote.exists /\ remote.version = task.expect
    /\ task' = [task EXCEPT !.pc = "ops", !.todo = Operations(task.plan)]
    /\ UNCHANGED <<file, shadow, entity, remote, journal, mine, shown, late, landed, spent>>

ApplyRefuses ==
    /\ task.pc = "begin"
    /\ ~(remote.exists /\ remote.version = task.expect)
    /\ SetStatus("Failed")
    /\ EndJob
    /\ UNCHANGED <<file, shadow, entity, remote, mine, shown, late, landed, spent>>

\* The update of block b takes effect in the source.
Mutate(b) ==
    /\ remote.exists
    /\ \E version \in {remote.version, remote.version + 1} :
         remote' = [remote EXCEPT !.body[b] = task.plan[b], !.version = version]
    /\ mine' = [mine EXCEPT ![b] = IF @ = task.plan[b] THEN None ELSE @]
    /\ landed' = landed \cup {<<Pushing, b>>}

ApplyOperation(b) ==
    /\ task.pc = "ops"
    /\ b \in task.todo
    /\ Mutate(b)
    /\ task' = [task EXCEPT !.todo = @ \ {b}]
    /\ UNCHANGED <<file, shadow, entity, journal, shown, late, spent>>

\* The mutation took effect but its answer never came back.
LoseAnswer(b) ==
    /\ task.pc = "ops"
    /\ b \in task.todo
    /\ MayFail
    /\ Mutate(b)
    /\ Spend("fail")
    /\ SetStatus("Failed")
    /\ EndJob
    /\ UNCHANGED <<file, shadow, entity, shown, late>>

\* Mutant of ApplyFails: an apply that failed half way counts as not applied.
ApplyFailsAsReverted ==
    /\ task.pc = "ops" /\ task.todo # {}
    /\ \/ ~remote.exists /\ UNCHANGED spent
       \/ MayFail /\ Spend("fail")
    /\ SetStatus("Reverted")
    /\ EndJob
    /\ UNCHANGED <<file, shadow, entity, remote, mine, shown, late, landed>>

\* The call fails outright: the network, or a page that is gone.
ApplyFails ==
    /\ task.pc = "ops" /\ task.todo # {}
    /\ \/ ~remote.exists /\ UNCHANGED spent
       \/ MayFail /\ Spend("fail")
    /\ SetStatus("Failed")
    /\ EndJob
    /\ UNCHANGED <<file, shadow, entity, remote, mine, shown, late, landed>>

RecordEffects ==
    /\ task.pc = "ops" /\ task.todo = {}
    /\ journal' = [journal EXCEPT ![Pushing].effects = TRUE]
    /\ Goto("applied")
    /\ UNCHANGED <<file, shadow, entity, remote, mine, shown, late, landed, spent>>

RecordFails ==
    /\ task.pc = "ops" /\ task.todo = {}
    /\ MayFail /\ Spend("fail")
    /\ SetStatus("Failed")
    /\ EndJob
    /\ UNCHANGED <<file, shadow, entity, remote, mine, shown, late, landed>>

MarkApplied ==
    /\ task.pc = "applied"
    /\ SetStatus("Applied")
    /\ Goto("readback")
    /\ UNCHANGED <<file, shadow, entity, remote, mine, shown, late, landed, spent>>

\* Reconciliation reads the page back before it writes anything locally.
ReadBack ==
    /\ task.pc = "readback"
    /\ remote.exists
    /\ task' = [task EXCEPT !.pc = "pushFile",
                            !.fetched = [body |-> remote.body, version |-> remote.version],
                            !.out = Document(remote.body)]
    /\ UNCHANGED <<file, shadow, entity, remote, journal, mine, shown, late, landed, spent>>

\* Reconciliation stops at any of its steps; what it has written stays.
ReconcileFails ==
    /\ task.pc \in {"readback", "pushFile", "pushShadow", "pushEntity"}
    /\ \/ task.pc = "readback" /\ ~remote.exists /\ UNCHANGED spent
       \/ MayFail /\ Spend("fail")
    /\ SetStatus("Failed")
    /\ EndJob
    /\ UNCHANGED <<file, shadow, entity, remote, mine, shown, late, landed>>

MarkReconciled ==
    /\ task.pc = "reconciled"
    /\ SetStatus("Reconciled")
    /\ EndJob
    /\ UNCHANGED <<file, shadow, entity, remote, mine, shown, late, landed, spent>>

-----------------------------------------------------------------------------
(* Pull, and the hydration of a page that is already there *)

\* The job reads the file before it asks the source for the page.
BeginPull ==
    /\ task.pc = "idle"
    /\ entity.tracked
    /\ task' = [IdleTask EXCEPT !.pc = "render", !.replace = CanReplaceFile(file)]
    /\ UNCHANGED <<file, shadow, entity, remote, journal, mine, shown, late, landed, spent>>

\* A background fast-forward leaves a pending file alone without fetching.
SkipFastForward ==
    /\ task.pc = "idle"
    /\ entity.tracked /\ ~CanReplaceFile(file)
    /\ entity' = [entity EXCEPT !.hydration = MarkDirty(@)]
    /\ UNCHANGED <<file, shadow, remote, journal, task, mine, shown, late, landed, spent>>

FetchRender ==
    /\ task.pc = "render"
    /\ remote.exists
    /\ task' = [task EXCEPT !.pc = IF task.replace THEN "pullFile" ELSE "decide",
                            !.fetched = [body |-> remote.body, version |-> remote.version],
                            !.out = Document(remote.body)]
    /\ UNCHANGED <<file, shadow, entity, remote, journal, mine, shown, late, landed, spent>>

FetchFails ==
    /\ task.pc = "render"
    /\ MayFail /\ Spend("fail")
    /\ EndJob
    /\ UNCHANGED <<file, shadow, entity, remote, journal, mine, shown, late, landed>>

\* A page that is gone takes its clean file and its record along.
RemoteNotFound ==
    /\ task.pc = "render"
    /\ ~remote.exists
    /\ \/ task.replace /\ Goto("remove") /\ UNCHANGED entity
       \/ /\ ~task.replace
          /\ EndJob
          /\ entity' = [entity EXCEPT !.hydration = MarkDirty(@)]
    /\ UNCHANGED <<file, shadow, remote, journal, mine, shown, late, landed, spent>>

RemoveFile ==
    /\ task.pc = "remove"
    /\ file' = [file EXCEPT !.exists = FALSE]
    /\ Goto("untrack")
    /\ UNCHANGED <<shadow, entity, remote, journal, mine, shown, late, landed, spent>>

DeleteEntity ==
    /\ task.pc = "untrack"
    /\ entity' = [entity EXCEPT !.tracked = FALSE]
    /\ EndJob
    /\ UNCHANGED <<file, shadow, remote, journal, mine, shown, late, landed, spent>>

Write(document) ==
    /\ task' = [task EXCEPT !.pc = "pullFile", !.typed = {}, !.out = document]
    /\ UNCHANGED entity

MarkAndStop(hydration) ==
    /\ entity' = [entity EXCEPT !.hydration = hydration]
    /\ EndJob

\* A pending file meets the fetched page: it is read once more (for its markers and
\* at once again for its text), and merged, marked, or left alone.
Decide ==
    /\ task.pc = "decide"
    /\ LET incoming == task.fetched.body
           sameVersion == task.fetched.version = entity.version
           drifted == incoming # shadow
       IN \/ /\ HasMarkers(file)
             /\ \/ sameVersion /\ drifted /\ Write(Merge(shadow, file.ours, incoming))
                \/ /\ sameVersion /\ ~drifted
                   /\ \/ Write(Document(file.ours))
                      \/ Write(Hunk(file.ours, incoming))
                \/ ~sameVersion /\ MarkAndStop("Conflicted")
          \/ /\ ~HasMarkers(file)
             /\ \/ drifted /\ Write(Merge(shadow, file.ours, incoming))
                \/ ~drifted /\ MarkAndStop(MarkDirty(entity.hydration))
    /\ UNCHANGED <<file, shadow, remote, journal, mine, shown, late, landed, spent>>

-----------------------------------------------------------------------------
(* Accepting a render: the file, the shadow and the record, in this order *)

WriteFile ==
    /\ task.pc \in {"pushFile", "pullFile"}
    /\ file' = task.out
    /\ shown' = [b \in Blocks |-> shown[b] \cup {task.out.ours[b], task.out.theirs[b]}]
    /\ Goto(IF task.pc = "pushFile" THEN "pushShadow" ELSE "pullShadow")
    /\ UNCHANGED <<shadow, entity, remote, journal, mine, late, landed, spent>>

SaveShadow ==
    /\ task.pc \in {"pushShadow", "pullShadow"}
    /\ shadow' = task.fetched.body
    /\ mine' = [b \in Blocks |-> IF mine[b] = task.fetched.body[b] THEN None ELSE mine[b]]
    /\ Goto(IF task.pc = "pushShadow" THEN "pushEntity" ELSE "pullEntity")
    /\ UNCHANGED <<file, entity, remote, journal, shown, late, landed, spent>>

\* A merge leaves the page dirty, or conflicted when markers were written.
AcceptedHydration ==
    IF task.pc = "pushEntity" \/ task.replace THEN "Hydrated"
    ELSE IF HasMarkers(task.out) THEN "Conflicted"
    ELSE MarkDirty(entity.hydration)

\* Mutant of SaveEntity: the synced version is not advanced.
SaveEntityKeepingVersion ==
    /\ task.pc \in {"pushEntity", "pullEntity"}
    /\ entity' = [entity EXCEPT !.hydration = AcceptedHydration]
    /\ IF task.pc = "pushEntity" THEN Goto("reconciled") ELSE EndJob
    /\ UNCHANGED <<file, shadow, remote, journal, mine, shown, late, landed, spent>>

SaveEntity ==
    /\ task.pc \in {"pushEntity", "pullEntity"}
    /\ entity' = [entity EXCEPT !.version = task.fetched.version,
                                !.hydration = AcceptedHydration]
    /\ IF task.pc = "pushEntity" THEN Goto("reconciled") ELSE EndJob
    /\ UNCHANGED <<file, shadow, remote, journal, mine, shown, late, landed, spent>>

-----------------------------------------------------------------------------
\* Only what was written durably survives.  A store call that fails outside of the
\* steps named above ends its job in the same way.
Crash ==
    /\ task.pc # "idle"
    /\ spent.crash < MaxCrashes
    /\ Spend("crash")
    /\ EndJob
    /\ UNCHANGED <<file, shadow, entity, remote, journal, mine, shown, late, landed>>

People ==
    \/ \E b \in Blocks, v \in Values : LocalEdit(b, v) \/ RemoteEdit(b, v)
    \/ \E kept \in Bodies : Resolve(kept)
    \/ RemoteTouch
    \/ RemoteDelete

PushJob ==
    \/ BeginPush \/ MarkApplying \/ CheckPasses \/ CheckRejects
    \/ BeginApply \/ ApplyRefuses
    \/ \E b \in Blocks : ApplyOperation(b) \/ LoseAnswer(b)
    \/ ApplyFails \/ RecordEffects \/ RecordFails \/ MarkApplied
    \/ ReadBack \/ ReconcileFails \/ MarkReconciled

PullJob ==
    \/ BeginPull \/ SkipFastForward \/ FetchRender \/ FetchFails
    \/ RemoteNotFound \/ RemoveFile \/ DeleteEntity \/ Decide

Accept == WriteFile \/ SaveShadow \/ SaveEntity

Next == People \/ PushJob \/ PullJob \/ Accept \/ Crash

Spec == Init /\ [][Next]_vars

-----------------------------------------------------------------------------
(* Properties *)

TypeOK ==
    /\ file \in Files
    /\ shadow \in Bodies
    /\ entity \in Entities
    /\ remote \in [body : Bodies, version : Nat, exists : BOOLEAN]
    /\ journal \in Seq(Entries)
    /\ task \in Tasks
    /\ mine \in Plans
    /\ shown \in [Blocks -> SUBSET Values]
    /\ late \in SUBSET Blocks
    /\ landed \in SUBSET (Nat \X Blocks)
    /\ spent \in Budgets

Reached(i) == {b \in Blocks : <<i, b>> \in landed}

\* Undo, history and the next push trust a journal entry's status: a prepared or
\* reverted push has changed nothing remotely, one that is applied, reconciled or
\* has recorded effects has made every change of its plan, and no push makes a
\* change that is not in its plan, wherever it failed or the daemon died.
JournalTellsTruth ==
    \A i \in 1..Len(journal) :
        /\ journal[i].status \in {"Prepared", "Reverted"} => Reached(i) = {}
        /\ (journal[i].status \in {"Applied", "Reconciled"} \/ journal[i].effects)
             => Reached(i) = Operations(journal[i].plan)
        /\ Reached(i) \subseteq Operations(journal[i].plan)

\* A push replaces a remote value only if the user's file has shown that value, or
\* if the value arrived after the push compared the bodies: neither a crash in the
\* middle of an accepted render nor a source whose version did not move lets a
\* push revert a change that nobody here has seen.
OverwritesOnlyWhatWasShown ==
    [][\A b \in Blocks :
         <<Pushing, b>> \in landed' \ landed => (remote.body[b] \in shown[b] \/ b \in late)]_vars

\* The daemon writes or removes the file and loses no pending edit of these blocks:
\* each stays the local side of its block.
KeepsEdits(S) ==
    (WriteFile \/ RemoveFile) =>
        \A b \in S :
            (file.exists /\ mine[b] # None /\ file.ours[b] = mine[b])
                => (file'.exists /\ file'.ours[b] = mine[b])

\* Merges, markers, read-backs after a push and removals of a deleted page keep
\* every pending edit that was in the file when the job last read it.
KeepsTheEditsItRead == [][KeepsEdits(Blocks \ task.typed)]_vars

\* docs/sync-model.md: "Locality must not overwrite pending Local Tree files with
\* Remote Tree content."  Stated for every pending edit that is in the file at the
\* moment the daemon writes, read by the job or not.
NeverOverwritesPending == [][KeepsEdits(Blocks)]_vars
=============================================================================
