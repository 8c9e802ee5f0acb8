-------------------------- MODULE DiscoveryExecution --------------------------
(***************************************************************************)
(* One discovery transaction over a mount of plain files.  A discovery of  *)
(* the workspace planned to create, move and delete pages; the executor    *)
(* carries the plan out file by file, through a recovery directory beside  *)
(* the mount, and records each effect in SQLite after the change that it   *)
(* stands for.  Then it commits the new entities, queues hydration and     *)
(* removes the recovery directory; or it takes everything back.  The user  *)
(* edits, adds and removes files all the while, also through descriptors   *)
(* that follow a file into the recovery directory.                         *)
(*                                                                         *)
(* A path is a number, as only its place in the sorting order matters, and *)
(* no path is below another.  A file is known by the operation whose page  *)
(* it holds and by the edits typed into it, so that two fingerprints are   *)
(* equal when these are.                                                   *)
(***************************************************************************)
EXTENDS Naturals, FiniteSets

CONSTANTS
    Plans,        \* the plans that a discovery may come with
    Edits,        \* the edits the user may type, each at most once
    None,         \* no file, no path
    MaxRemovals,  \* bound: files that the user removes
    MaxDrifts,    \* bound: changes of the store that void the reservation
    MaxCrashes    \* bound: crashes of the daemon

Operations == [id : Nat, component : Nat, kind : {"create", "move", "delete"},
               source : Nat \cup {None}, destination : Nat \cup {None}]

HasSource(o) == o.kind # "create"
HasDestination(o) == o.kind # "delete"

\* What preparation has checked: every operation owns its paths, and a path that is
\* taken may be a destination only if an operation of the component vacates it.
WellFormed(p) ==
    /\ p \subseteq Operations /\ IsFiniteSet(p)
    /\ \A o \in p : /\ (o.source \in Nat) <=> HasSource(o)
                    /\ (o.destination \in Nat) <=> HasDestination(o)
                    /\ o.source # o.destination
    /\ \A o, x \in p : o # x =>
           /\ o.id # x.id
           /\ HasSource(o) => o.source # x.source
           /\ HasDestination(o) => o.destination # x.destination
           /\ HasSource(o) /\ o.source = x.destination => o.component = x.component

ASSUME DiscoveryAssumption ==
    /\ None \notin Nat /\ None \notin UNION Plans
    /\ None \notin [of : (UNION Plans) \cup {None}, edits : SUBSET Edits]
    /\ \A p \in Plans : WellFormed(p)
    /\ MaxRemovals \in Nat /\ MaxDrifts \in Nat /\ MaxCrashes \in Nat

VARIABLES
    plan,       \* the operations of the transaction
    mount,      \* the file at every path of the mount
    recovery,   \* per operation: the file in its place in the recovery directory
    temporary,  \* per creation: how much of the payload is written, before it is published
    root,       \* whether the recovery directory exists
    tx,         \* the transaction's record
    job,        \* the change of the files that the executor has decided on
    queued,     \* history: the plan's hydration job has been queued
    shown,      \* history: the creations whose page has been in the mount
    typed,      \* the edits typed so far
    owed,       \* history: typed edits that the user has not thrown away
    touched,    \* history: the operations whose page the user has edited or removed
    disturbed,  \* history: the user changed files, or a crash cut a payload short
    spent       \* how much of each bound is used up

files == <<mount, recovery, temporary, root>>
user == <<typed, owed, touched>>
vars == <<plan, files, tx, job, queued, shown, user, disturbed, spent>>

Paths(p) == {o.source : o \in {x \in p : HasSource(x)}}
                \cup {o.destination : o \in {x \in p : HasDestination(x)}}

File(of, edits) == [of |-> of, edits |-> edits]
Own(e) == File(None, {e})     \* a file that the user added
Page(o) == File(o, {})        \* what a fingerprint of the plan stands for

Statuses == {"reserved", "applying", "projected", "committed", "finalized",
             "repair_pending", "aborted"}
States == {"none", "prepared", "staged", "installed", "rolled_back"}
ChangeNames == {"stage", "write", "publish", "install", "purge", "uninstall", "restore", "drop"}

State(o) == tx.effects[o]

NoJob == [at |-> "idle", op |-> None]
Idle == job = NoJob
Decides(at, o) == job' = [at |-> at, op |-> o]

Init ==
    /\ plan \in Plans
    /\ mount = [p \in Paths(plan) |->
                   IF \E o \in plan : o.source = p
                   THEN Page(CHOOSE o \in plan : o.source = p) ELSE None]
    /\ recovery = [o \in plan |-> None]
    /\ temporary = [o \in plan |-> "none"]
    /\ root = FALSE
    /\ tx = [status |-> "reserved", effects |-> [o \in plan |-> "none"], rollback |-> FALSE,
             validated |-> FALSE, upserted |-> FALSE, cleaned |-> FALSE, completed |-> FALSE]
    /\ job = NoJob
    /\ queued = FALSE /\ shown = {} /\ typed = {} /\ owed = {} /\ touched = {}
    /\ disturbed = FALSE
    /\ spent = [removals |-> 0, drifts |-> 0, crashes |-> 0]

Spend(budget) == spent' = [spent EXCEPT ![budget] = @ + 1]
-----------------------------------------------------------------------------
(* The user, and the rest of the daemon *)

Touches(file) == touched' = touched \cup {file.of} /\ disturbed' = TRUE

WithEdit(file, e) == File(file.of, file.edits \cup {e})

\* Saves an edit of a file in the mount.
UserEdits(p, e) ==
    /\ e \notin typed /\ mount[p] # None
    /\ mount' = [mount EXCEPT ![p] = WithEdit(@, e)]
    /\ typed' = typed \cup {e} /\ owed' = owed \cup {e}
    /\ Touches(mount[p])
    /\ UNCHANGED <<plan, recovery, temporary, root, tx, job, queued, shown, spent>>

\* The file was found to be as planned, and its removal has been decided on.
Doomed(o) == job.at = "purge" \/ (job.at = "drop" /\ job.op = o)

\* Types through a descriptor opened while the file was in the mount.  What is typed
\* between the check of a file and its removal goes with the file, and is not owed.
UserTypesLate(o, e) ==
    /\ e \notin typed /\ recovery[o] # None
    /\ HasSource(o) \/ o \in shown
    /\ recovery' = [recovery EXCEPT ![o] = WithEdit(@, e)]
    /\ typed' = typed \cup {e}
    /\ owed' = IF Doomed(o) THEN owed ELSE owed \cup {e}
    /\ Touches(recovery[o])
    /\ UNCHANGED <<plan, mount, temporary, root, tx, job, queued, shown, spent>>

UserAdds(p, e) ==
    /\ e \notin typed /\ mount[p] = None
    /\ mount' = [mount EXCEPT ![p] = Own(e)]
    /\ typed' = typed \cup {e} /\ owed' = owed \cup {e}
    /\ disturbed' = TRUE
    /\ UNCHANGED <<plan, recovery, temporary, root, tx, job, queued, shown, touched, spent>>

UserRemoves(p) ==
    /\ spent.removals < MaxRemovals /\ Spend("removals")
    /\ mount[p] # None
    /\ mount' = [mount EXCEPT ![p] = None]
    /\ owed' = owed \ mount[p].edits
    /\ Touches(mount[p])
    /\ UNCHANGED <<plan, recovery, temporary, root, tx, job, queued, shown, typed>>

\* Another part of the daemon changes a record of the mount that the plan was made from.
Drift ==
    /\ spent.drifts < MaxDrifts /\ Spend("drifts")
    /\ tx.status \in {"reserved", "applying", "projected"}
    /\ UNCHANGED <<plan, files, tx, job, queued, shown, user, disturbed>>
HasDrifted == spent.drifts > 0

-----------------------------------------------------------------------------
(* What a step records *)

\* An error before the commit: the first one turns to the rollback, and one in the
\* rollback leaves the transaction for review.  A step of a review that fails changes
\* nothing, and neither does one after the commit.
Fails ==
    LET precommit == tx.status \in {"applying", "projected"} IN
    tx' = [tx EXCEPT !.rollback = @ \/ precommit,
                     !.status = IF precommit /\ tx.rollback THEN "repair_pending" ELSE @]

Record(o, state) == tx' = [tx EXCEPT !.effects[o] = state]

\* A file that should go from one place to another has gone, or can go.
HasMoved(o, from, to) == from = None /\ to = Page(o)
CanMove(o, from, to) == from = Page(o) /\ to = None
IsAmbiguous(o, from, to) == ~ HasMoved(o, from, to) /\ ~ CanMove(o, from, to)

-----------------------------------------------------------------------------
(* Order.  Components are carried out one after the other, and in a component all    *)
(* sources are staged and all payloads published before anything is installed.       *)

Applying == Idle /\ tx.status = "applying" /\ ~ tx.rollback

Current ==
    LET pending == {o \in plan : State(o) # "installed"} IN
    {o \in pending : \A x \in pending : o.component <= x.component}
Unstaged == {o \in Current : HasSource(o) /\ State(o) \in {"none", "prepared"}}
Unpublished == {o \in Current : ~ HasSource(o) /\ State(o) \in {"none", "prepared"}}
Uninstalled == {o \in Current : HasDestination(o)}

IsFirst(o, S) == o \in S /\ \A x \in S : o.id <= x.id

ToStage(o) == o \in Unstaged /\ \A x \in Unstaged : o.source <= x.source
ToPublish(o) == Unstaged = {} /\ IsFirst(o, Unpublished)
ToInstall(o) == Unstaged = {} /\ Unpublished = {} /\ IsFirst(o, Uninstalled)
ToDelete(o) == Unstaged = {} /\ Unpublished = {} /\ Uninstalled = {} /\ IsFirst(o, Current)

-----------------------------------------------------------------------------
(* Reserved *)

\* The files are as they were when the plan was prepared.
IsIntact ==
    /\ ~ root
    /\ \A o \in plan :
           /\ HasSource(o) => mount[o.source] = Page(o)
           /\ HasDestination(o) =>
                \/ mount[o.destination] = None
                \/ \E x \in plan : HasSource(x) /\ x.source = o.destination

Begin ==
    /\ Idle /\ tx.status = "reserved" /\ IsIntact
    /\ tx' = [tx EXCEPT !.status = "applying"]
    /\ UNCHANGED <<plan, files, job, queued, shown, user, disturbed, spent>>

\* Mutant of AbortReserved: gives up whatever has no recorded effect yet.
AbortUnrecorded ==
    /\ Idle /\ tx.status \in {"reserved", "applying"}
    /\ \A o \in plan : State(o) \in {"none", "prepared"}
    /\ tx' = [tx EXCEPT !.status = "aborted"]
    /\ UNCHANGED <<plan, files, job, queued, shown, user, disturbed, spent>>

\* Repair gives up a transaction that has not begun, whatever the files are.
AbortReserved ==
    /\ Idle /\ tx.status = "reserved"
    /\ tx' = [tx EXCEPT !.status = "aborted"]
    /\ UNCHANGED <<plan, files, job, queued, shown, user, disturbed, spent>>

-----------------------------------------------------------------------------
(* Applying *)

\* The effect is recorded as prepared before anything of it is done.
CanPrepare(o) ==
    /\ recovery[o] = None /\ temporary[o] = "none"
    /\ HasSource(o) => mount[o.source] = Page(o)
    /\ ~ HasSource(o) => mount[o.destination] = None

Prepare(o) ==
    /\ Applying /\ State(o) = "none"
    /\ ToStage(o) \/ ToPublish(o)
    /\ \/ CanPrepare(o) /\ Record(o, "prepared")
       \/ ~ CanPrepare(o) /\ Fails
    /\ UNCHANGED <<plan, files, job, queued, shown, user, disturbed, spent>>

\* Mutant of Stage: forgets to build the recovery directory.
StageUnprepared(o) ==
    /\ Applying /\ ToStage(o) /\ State(o) = "prepared"
    /\ \/ /\ HasMoved(o, mount[o.source], recovery[o])
          /\ Record(o, "staged") /\ UNCHANGED job
       \/ /\ CanMove(o, mount[o.source], recovery[o])
          /\ Decides("stage", o) /\ UNCHANGED tx
       \/ /\ IsAmbiguous(o, mount[o.source], recovery[o])
          /\ Fails /\ UNCHANGED job
    /\ UNCHANGED <<plan, files, queued, shown, user, disturbed, spent>>

\* Moves the source of a move or a deletion out of the mount.
Stage(o) ==
    /\ Applying /\ ToStage(o) /\ State(o) = "prepared"
    /\ \/ /\ HasMoved(o, mount[o.source], recovery[o])
          /\ Record(o, "staged") /\ UNCHANGED <<root, job>>
       \/ /\ CanMove(o, mount[o.source], recovery[o])
          /\ Decides("stage", o) /\ root' = TRUE /\ UNCHANGED tx
       \/ /\ IsAmbiguous(o, mount[o.source], recovery[o])
          /\ Fails /\ UNCHANGED <<root, job>>
    /\ UNCHANGED <<plan, mount, recovery, temporary, queued, shown, user, disturbed, spent>>

\* Writes the payload of a creation under a temporary name, then publishes it.
Publish(o) ==
    /\ Applying /\ ToPublish(o) /\ State(o) = "prepared"
    /\ \/ /\ recovery[o] = Page(o)
          /\ Record(o, "staged") /\ UNCHANGED <<root, temporary, job>>
       \/ /\ recovery[o] = None /\ temporary[o] = "none"
          /\ Decides("write", o) /\ root' = TRUE
          /\ temporary' = [temporary EXCEPT ![o] = "partial"] /\ UNCHANGED tx
       \/ /\ recovery[o] = None /\ temporary[o] = "whole"
          /\ Decides("publish", o) /\ UNCHANGED <<root, temporary, tx>>
       \/ /\ \/ recovery[o] \notin {None, Page(o)}
             \/ recovery[o] = None /\ temporary[o] = "partial"
          /\ Fails /\ UNCHANGED <<root, temporary, job>>
    /\ UNCHANGED <<plan, mount, recovery, queued, shown, user, disturbed, spent>>

\* Moves a staged page or a payload to its destination.
Install(o) ==
    /\ Applying /\ ToInstall(o) /\ State(o) = "staged"
    /\ \/ /\ HasMoved(o, recovery[o], mount[o.destination])
          /\ Record(o, "installed") /\ UNCHANGED job
       \/ /\ CanMove(o, recovery[o], mount[o.destination])
          /\ Decides("install", o) /\ UNCHANGED tx
       \/ /\ IsAmbiguous(o, recovery[o], mount[o.destination])
          /\ Fails /\ UNCHANGED job
    /\ UNCHANGED <<plan, files, queued, shown, user, disturbed, spent>>

\* A deletion keeps its page in the recovery directory until the commit.
IsReplaced(o) == \E x \in plan : x.component = o.component /\ x.destination = o.source
KeepsDeleted(o) == (mount[o.source] = None \/ IsReplaced(o)) /\ recovery[o] = Page(o)

Delete(o) ==
    /\ Applying /\ ToDelete(o) /\ State(o) = "staged"
    /\ \/ KeepsDeleted(o) /\ Record(o, "installed")
       \/ ~ KeepsDeleted(o) /\ Fails
    /\ UNCHANGED <<plan, files, job, queued, shown, user, disturbed, spent>>

\* Everything is where the plan wants it.
IsProjected ==
    \A o \in plan :
        /\ State(o) = "installed"
        /\ HasDestination(o) => mount[o.destination] = Page(o)
        /\ ~ HasDestination(o) =>
             \/ KeepsDeleted(o)
             \/ (mount[o.source] = None \/ IsReplaced(o)) /\ recovery[o] = None /\ ~ root

\* The recovery directory holds the deleted pages and nothing else.
RecoveryIsOwned ==
    \A o \in plan :
        /\ State(o) = "installed"
        /\ temporary[o] = "none"
        /\ recovery[o] = IF HasDestination(o) THEN None ELSE Page(o)

Project ==
    /\ Applying /\ Current = {}
    /\ \/ IsProjected /\ tx' = [tx EXCEPT !.status = "projected"]
       \/ ~ IsProjected /\ Fails
    /\ UNCHANGED <<plan, files, job, queued, shown, user, disturbed, spent>>

\* One transaction of the store checks the reservation and publishes the entities.
CanCommit == IsProjected /\ (IF root THEN RecoveryIsOwned ELSE plan = {}) /\ ~ HasDrifted

Commit ==
    /\ Idle /\ tx.status = "projected" /\ ~ tx.rollback
    /\ \/ CanCommit /\ tx' = [tx EXCEPT !.status = "committed"]
       \/ ~ CanCommit /\ Fails
    /\ UNCHANGED <<plan, files, job, queued, shown, user, disturbed, spent>>

-----------------------------------------------------------------------------
(* Committed.  A check that fails leaves everything for review. *)

Committed == Idle /\ tx.status = "committed"

\* Mutant of Validate: leaves what is committed for review when the check fails.
ValidateOrReview ==
    /\ Committed /\ ~ tx.validated
    /\ tx' = IF IsProjected /\ (IF root THEN RecoveryIsOwned ELSE plan = {})
             THEN [tx EXCEPT !.validated = TRUE]
             ELSE [tx EXCEPT !.status = "repair_pending"]
    /\ UNCHANGED <<plan, files, job, queued, shown, user, disturbed, spent>>

Validate ==
    /\ Committed /\ ~ tx.validated
    /\ IsProjected /\ (IF root THEN RecoveryIsOwned ELSE plan = {})
    /\ tx' = [tx EXCEPT !.validated = TRUE]
    /\ UNCHANGED <<plan, files, job, queued, shown, user, disturbed, spent>>

\* Mutant of Upsert: records the effect first.
UpsertMarkingFirst ==
    /\ Committed /\ tx.validated
    /\ \/ ~ tx.upserted /\ tx' = [tx EXCEPT !.upserted = TRUE] /\ UNCHANGED queued
       \/ tx.upserted /\ ~ queued /\ queued' = TRUE /\ UNCHANGED tx
    /\ UNCHANGED <<plan, files, job, shown, user, disturbed, spent>>

\* The job goes to the queue first; after a crash it is queued again.
Upsert ==
    /\ Committed /\ tx.validated /\ ~ tx.upserted
    /\ \/ ~ queued /\ queued' = TRUE /\ UNCHANGED tx
       \/ queued /\ tx' = [tx EXCEPT !.upserted = TRUE] /\ UNCHANGED queued
    /\ UNCHANGED <<plan, files, job, shown, user, disturbed, spent>>

\* Mutant of Cleanup: does not look into the directory again.
CleanupUnchecked ==
    /\ Committed /\ tx.upserted /\ ~ tx.cleaned
    /\ \/ root /\ Decides("purge", None) /\ UNCHANGED tx
       \/ ~ root /\ tx' = [tx EXCEPT !.cleaned = TRUE] /\ UNCHANGED job
    /\ UNCHANGED <<plan, files, queued, shown, user, disturbed, spent>>

Cleanup ==
    /\ Committed /\ tx.upserted /\ ~ tx.cleaned
    /\ \/ root /\ RecoveryIsOwned /\ Decides("purge", None) /\ UNCHANGED tx
       \/ ~ root /\ tx' = [tx EXCEPT !.cleaned = TRUE] /\ UNCHANGED job
    /\ UNCHANGED <<plan, files, queued, shown, user, disturbed, spent>>

Finish ==
    /\ Committed /\ tx.cleaned
    /\ \/ ~ tx.completed /\ tx' = [tx EXCEPT !.completed = TRUE]
       \/ tx.completed /\ tx' = [tx EXCEPT !.status = "finalized"]
    /\ UNCHANGED <<plan, files, job, queued, shown, user, disturbed, spent>>

-----------------------------------------------------------------------------
(* Rollback: destinations back into the recovery directory, sources back into the     *)
(* mount, payloads away, then the directory itself.                                   *)

\* Mutant of RollingBack: forgets a commit that was refused.
RollingBackApplying == Idle /\ tx.rollback /\ tx.status \in {"applying", "repair_pending"}
RollingBack == Idle /\ tx.rollback /\ tx.status \in {"applying", "projected", "repair_pending"}

Placed == {o \in plan : HasDestination(o) /\ State(o) \in {"staged", "installed"}}
Taken == {o \in plan : HasSource(o) /\ State(o) \notin {"none", "rolled_back"}}
Built == {o \in plan : ~ HasSource(o) /\ State(o) \notin {"none", "rolled_back"}}

\* Mutant of IsVacated: does not know that the page has gone on.
IsVacatedRecorded(o) == HasMoved(o, mount[o.destination], recovery[o]) /\ State(o) = "staged"

\* Nothing is left to do at a destination.
IsVacated(o) ==
    \/ HasMoved(o, mount[o.destination], recovery[o]) /\ State(o) = "staged"
    \/ /\ mount[o.destination] = None /\ recovery[o] = None
       /\ HasSource(o) => mount[o.source] = Page(o)

ToVacate(o) ==
    /\ o \in Placed /\ ~ IsVacated(o)
    /\ \A x \in Placed : x.destination < o.destination => IsVacated(x)
AllVacated == \A o \in Placed : IsVacated(o)
ToRestore(o) == AllVacated /\ o \in Taken /\ \A x \in Taken : o.source <= x.source
ToDrop(o) == AllVacated /\ Taken = {} /\ IsFirst(o, Built)
ToSweep == AllVacated /\ Taken = {} /\ Built = {}

Vacate(o) ==
    /\ RollingBack /\ ToVacate(o)
    /\ \/ /\ HasMoved(o, mount[o.destination], recovery[o])
          /\ Record(o, "staged") /\ UNCHANGED <<root, job>>
       \/ /\ CanMove(o, mount[o.destination], recovery[o])
          /\ Decides("uninstall", o) /\ root' = TRUE /\ UNCHANGED tx
       \/ /\ IsAmbiguous(o, mount[o.destination], recovery[o])
          /\ Fails /\ UNCHANGED <<root, job>>
    /\ UNCHANGED <<plan, mount, recovery, temporary, queued, shown, user, disturbed, spent>>

Restore(o) ==
    /\ RollingBack /\ ToRestore(o)
    /\ \/ /\ CanMove(o, mount[o.source], recovery[o])
          /\ Record(o, "rolled_back") /\ UNCHANGED job
       \/ /\ HasMoved(o, mount[o.source], recovery[o])
          /\ Decides("restore", o) /\ UNCHANGED tx
       \/ /\ IsAmbiguous(o, mount[o.source], recovery[o])
          /\ Fails /\ UNCHANGED job
    /\ UNCHANGED <<plan, files, queued, shown, user, disturbed, spent>>

\* The payload that is left of a creation, published or not.
HasPayload(o) == recovery[o] = Page(o) \/ (recovery[o] = None /\ temporary[o] = "whole")
HasNoPayload(o) == recovery[o] = None /\ temporary[o] = "none"

Drop(o) ==
    /\ RollingBack /\ ToDrop(o)
    /\ \/ /\ mount[o.destination] = None /\ HasNoPayload(o)
          /\ Record(o, "rolled_back") /\ UNCHANGED job
       \/ /\ mount[o.destination] = None /\ HasPayload(o)
          /\ Decides("drop", o) /\ UNCHANGED tx
       \/ /\ mount[o.destination] # None \/ ~ (HasPayload(o) \/ HasNoPayload(o))
          /\ Fails /\ UNCHANGED job
    /\ UNCHANGED <<plan, files, queued, shown, user, disturbed, spent>>

\* The directory goes only when it is empty.
Sweep ==
    /\ RollingBack /\ ToSweep /\ root
    /\ \/ (\A o \in plan : HasNoPayload(o)) /\ root' = FALSE /\ UNCHANGED tx
       \/ ~ (\A o \in plan : HasNoPayload(o)) /\ Fails /\ UNCHANGED root
    /\ UNCHANGED <<plan, mount, recovery, temporary, job, queued, shown, user, disturbed, spent>>

Abort ==
    /\ RollingBack /\ ToSweep /\ ~ root
    /\ \/ ~ tx.cleaned /\ tx' = [tx EXCEPT !.cleaned = TRUE]
       \/ tx.cleaned /\ tx' = [tx EXCEPT !.status = "aborted"]
    /\ UNCHANGED <<plan, files, job, queued, shown, user, disturbed, spent>>

-----------------------------------------------------------------------------
(* The changes of the files, each some time after the check that it was decided on.   *)
(* A rename replaces nothing; the executor looks at a file again once it has staged   *)
(* or installed it.                                                                   *)

Changes(at) == job.at = at /\ job' = NoJob

MovesOut(o, p) ==
    /\ mount[p] # None /\ recovery[o] = None
    /\ recovery' = [recovery EXCEPT ![o] = mount[p]]
    /\ mount' = [mount EXCEPT ![p] = None]
MovesIn(o, p) ==
    /\ mount[p] = None /\ recovery[o] # None
    /\ mount' = [mount EXCEPT ![p] = recovery[o]]
    /\ recovery' = [recovery EXCEPT ![o] = None]

StageSource ==
    /\ Changes("stage")
    /\ LET o == job.op IN
       \/ MovesOut(o, o.source) /\ mount[o.source] = Page(o) /\ UNCHANGED tx
       \/ MovesOut(o, o.source) /\ mount[o.source] # Page(o) /\ Fails
       \/ mount[o.source] = None /\ Fails /\ UNCHANGED <<mount, recovery>>
    /\ UNCHANGED <<plan, temporary, root, queued, shown, user, disturbed, spent>>

FinishWriting ==
    /\ job.at = "write"
    /\ temporary' = [temporary EXCEPT ![job.op] = "whole"]
    /\ Decides("publish", job.op)
    /\ UNCHANGED <<plan, mount, recovery, root, tx, queued, shown, user, disturbed, spent>>

PublishPayload ==
    /\ Changes("publish")
    /\ temporary' = [temporary EXCEPT ![job.op] = "none"]
    /\ recovery' = [recovery EXCEPT ![job.op] = Page(job.op)]
    /\ UNCHANGED <<plan, mount, root, tx, queued, shown, user, disturbed, spent>>

InstallDestination ==
    /\ Changes("install")
    /\ LET o == job.op IN
       \/ /\ MovesIn(o, o.destination) /\ shown' = shown \cup {o}
          /\ recovery[o] = Page(o) /\ UNCHANGED tx
       \/ /\ MovesIn(o, o.destination) /\ shown' = shown \cup {o}
          /\ recovery[o] # Page(o) /\ Fails
       \/ mount[o.destination] # None /\ Fails /\ UNCHANGED <<mount, recovery, shown>>
    /\ UNCHANGED <<plan, temporary, root, queued, user, disturbed, spent>>

UninstallDestination ==
    /\ Changes("uninstall")
    /\ LET o == job.op IN
       \/ MovesOut(o, o.destination) /\ UNCHANGED tx
       \/ mount[o.destination] = None /\ Fails /\ UNCHANGED <<mount, recovery>>
    /\ UNCHANGED <<plan, temporary, root, queued, shown, user, disturbed, spent>>

RestoreSource ==
    /\ Changes("restore")
    /\ LET o == job.op IN
       \/ MovesIn(o, o.source) /\ UNCHANGED tx
       \/ mount[o.source] # None /\ Fails /\ UNCHANGED <<mount, recovery>>
    /\ UNCHANGED <<plan, temporary, root, queued, shown, user, disturbed, spent>>

DropPayload ==
    /\ Changes("drop")
    /\ LET o == job.op IN
       \/ /\ recovery[o] # None
          /\ recovery' = [recovery EXCEPT ![o] = None] /\ UNCHANGED temporary
       \/ /\ recovery[o] = None
          /\ temporary' = [temporary EXCEPT ![o] = "none"] /\ UNCHANGED recovery
    /\ UNCHANGED <<plan, mount, root, tx, queued, shown, user, disturbed, spent>>

PurgeRecovery ==
    /\ Changes("purge")
    /\ recovery' = [o \in plan |-> None]
    /\ temporary' = [o \in plan |-> "none"]
    /\ root' = FALSE
    /\ UNCHANGED <<plan, mount, tx, queued, shown, user, disturbed, spent>>

\* What the executor had decided is forgotten; records and files stay as they are.
Crash ==
    /\ spent.crashes < MaxCrashes /\ Spend("crashes")
    /\ ~ Idle /\ job' = NoJob
    /\ disturbed' = (disturbed \/ job.at = "write")
    /\ UNCHANGED <<plan, files, tx, queued, shown, user>>

-----------------------------------------------------------------------------

User ==
    \/ \E p \in Paths(plan), e \in Edits : UserEdits(p, e) \/ UserAdds(p, e)
    \/ \E o \in plan, e \in Edits : UserTypesLate(o, e)
    \/ \E p \in Paths(plan) : UserRemoves(p)

Decision ==
    \/ Begin \/ AbortReserved \/ Project \/ Commit
    \/ Validate \/ Upsert \/ Cleanup \/ Finish \/ Sweep \/ Abort
    \/ \E o \in plan : \/ Prepare(o) \/ Stage(o) \/ Publish(o) \/ Install(o) \/ Delete(o)
                       \/ Vacate(o) \/ Restore(o) \/ Drop(o)

Change ==
    \/ StageSource \/ FinishWriting \/ PublishPayload \/ InstallDestination
    \/ UninstallDestination \/ RestoreSource \/ DropPayload \/ PurgeRecovery

Next == User \/ Drift \/ Decision \/ Change \/ Crash

Spec == Init /\ [][Next]_vars
FairSpec == Spec /\ WF_vars(Decision \/ Change)

-----------------------------------------------------------------------------
(* Properties *)

Contents == [of : plan \cup {None}, edits : SUBSET Edits] \cup {None}

\* The records have the types of the code: one effect per operation, a decision is about
\* an operation of the plan, and a file is in recovery only while the directory exists.
TypeOK ==
    /\ plan \in Plans
    /\ mount \in [Paths(plan) -> Contents] /\ recovery \in [plan -> Contents]
    /\ temporary \in [plan -> {"none", "partial", "whole"}] /\ root \in BOOLEAN
    /\ \A o \in plan : ~ root => HasNoPayload(o)
    /\ tx \in [status : Statuses, effects : [plan -> States], rollback : BOOLEAN,
               validated : BOOLEAN, upserted : BOOLEAN, cleaned : BOOLEAN, completed : BOOLEAN]
    /\ job \in [at : {"idle"} \cup ChangeNames, op : plan \cup {None}]
    /\ queued \in BOOLEAN /\ shown \subseteq plan
    /\ typed \subseteq Edits /\ owed \subseteq typed /\ touched \subseteq plan \cup {None}
    /\ disturbed \in BOOLEAN
    /\ spent \in [removals : 0..MaxRemovals, drifts : 0..MaxDrifts, crashes : 0..MaxCrashes]

InMount(e) == \E p \in Paths(plan) : mount[p] # None /\ e \in mount[p].edits
InRecovery(e) == \E o \in plan : recovery[o] # None /\ e \in recovery[o].edits

\* Whatever the user types stays on disk until the user removes it: in the mount, or
\* in a recovery directory that the executor then refuses to remove.
EditsAreKept == \A e \in owed : InMount(e) \/ InRecovery(e)

Untouched(o) == o \notin touched

IsHome(o) == IF HasSource(o) THEN mount[o.source] = Page(o) ELSE mount[o.destination] # Page(o)
IsThere(o) == IF HasDestination(o) THEN mount[o.destination] = Page(o)
                                   ELSE mount[o.source] # Page(o)

\* All or nothing: an aborted transaction leaves every page where it was, a committed
\* one has every page where the plan wants it, save those that the user has changed.
AllOrNothing ==
    /\ tx.status = "aborted" => \A o \in plan : Untouched(o) => IsHome(o)
    /\ tx.status \in {"committed", "finalized"} => \A o \in plan : Untouched(o) => IsThere(o)

\* The effect of the hydration job says that it has been queued, whatever crash came.
UpsertedIsQueued == tx.upserted => queued

\* An operation moves a page to a place from where another one moves or deletes a page.
IsChained == \E o, x \in plan : HasSource(x) /\ o.destination = x.source

\* A transaction is left for review only if somebody has changed its files, or a crash
\* has cut a payload short; a plan that reuses a path it vacates may be left as well.
ReviewIsEarned == tx.status = "repair_pending" => disturbed \/ IsChained

\* Nothing happens to an ended transaction any more, and none goes back after the commit.
EndsStay ==
    [][/\ tx.status \in {"aborted", "finalized"} => UNCHANGED <<tx, job, recovery, root>>
       /\ tx.status = "committed" => tx'.status \in {"committed", "finalized"}]_vars

\* As long as nobody disturbs it, a transaction that is run and repaired again and
\* again ends, whatever crashes cut its steps short and whatever voids the reservation.
TransactionsEnd == <>(tx.status \in {"aborted", "finalized"} \/ disturbed \/ (IsChained /\ tx.rollback))

-----------------------------------------------------------------------------
(* The abstract specification *)

Outcome == CASE tx.status \in {"reserved", "applying", "projected"} -> "open"
             [] tx.status = "repair_pending" -> "review"
             [] tx.status \in {"committed", "finalized", "aborted"} -> tx.status

UntouchedPages == {o \in plan : Untouched(o)}
HomePages == {o \in UntouchedPages : IsHome(o)}
TherePages == {o \in UntouchedPages : IsThere(o)}
KeptEdits == {e \in owed : InMount(e) \/ InRecovery(e)}
Excused == disturbed \/ IsChained

Promises == INSTANCE DiscoveryPromises WITH
    outcome <- Outcome, untouched <- UntouchedPages, home <- HomePages, there <- TherePages,
    kept <- KeptEdits, excused <- Excused, hydrated <- queued

\* With its journal, its recovery directory and its file-by-file steps, whatever crashes
\* and the user come between, a transaction does at every step what DiscoveryPromises
\* allows: it ends whole, for good, with hydration asked for and no edit taken away.
KeepsPromises == Promises!Spec

=============================================================================
