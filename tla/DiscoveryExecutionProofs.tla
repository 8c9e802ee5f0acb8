----------------------- MODULE DiscoveryExecutionProofs -----------------------
(***************************************************************************)
(* Proofs about DiscoveryExecution, for any plans, edits, crashes and      *)
(* stale reservations: the types, that no edit the user types is lost,     *)
(* that an ended transaction is all or nothing, that it stays ended, and   *)
(* that only the user or a half-written payload makes a review necessary.  *)
(* One inductive invariant, Inv, is kept by every action: what has been    *)
(* established when a change of the files is decided on (JobOK), where the *)
(* untouched pages are (PagesOK) and when the recovery directory is gone   *)
(* (CleanOK).  A second one on top of it, CalmInv, says where every page   *)
(* is as long as nobody disturbs the transaction.  From both follows that  *)
(* DiscoveryExecution implements DiscoveryPromises.                        *)
(***************************************************************************)
EXTENDS DiscoveryExecution, TLAPS

\* What a file at a place of an operation may hold: its page, edited or not, or a file
\* of the user's own.
IsOfOr(file, o) == file = None \/ file.of \in {o, None}

Active(o) == State(o) \notin {"none", "rolled_back"}
Precommit == {"applying", "projected", "repair_pending"}

Unowed(file) == file # None => file.edits \cap owed = {}

\* What has been established when a change of the files has been decided on.
JobOK ==
    /\ job.at \in ChangeNames \ {"purge"} =>
         job.op \in plan /\ root /\ tx.status \in Precommit /\ Active(job.op)
    /\ job.at = "stage" =>
         HasSource(job.op) /\ IsOfOr(mount[job.op.source], job.op)
    /\ job.at \in {"write", "publish"} => ~ HasSource(job.op) /\ recovery[job.op] = None
    /\ job.at = "install" => HasDestination(job.op)
    /\ job.at = "uninstall" =>
         HasDestination(job.op) /\ IsOfOr(mount[job.op.destination], job.op)
    /\ job.at = "restore" => HasSource(job.op)
    /\ job.at = "drop" => ~ HasSource(job.op) /\ Unowed(recovery[job.op])
    /\ job.at = "purge" => tx.status = "committed" /\ \A o \in plan : Unowed(recovery[o])

\* Where the pages are, as far as the user has not touched them.
PagesOK ==
    /\ \A o \in plan : IsOfOr(recovery[o], o)
    /\ \A o \in plan : Untouched(o) /\ ~ Active(o) => IsHome(o)
    /\ tx.status \in {"reserved", "aborted"} => \A o \in plan : ~ Active(o)
    /\ tx.status \in {"committed", "finalized"} => \A o \in plan : Untouched(o) => IsThere(o)

\* When the recovery directory is gone.
CleanOK ==
    /\ tx.status \in {"reserved", "aborted", "finalized"} \/ tx.cleaned => ~ root
    /\ tx.status = "reserved" => ~ tx.cleaned
    /\ tx.cleaned /\ tx.status \in Precommit =>
         tx.rollback /\ \A o \in plan : ~ Active(o)

\* Nobody but the user types.
IsTyped(file) == file # None => file.edits \subseteq typed
TypedOK == /\ \A p \in Paths(plan) : IsTyped(mount[p])
           /\ \A o \in plan : IsTyped(recovery[o])

Inv == TypeOK /\ TypedOK /\ JobOK /\ PagesOK /\ CleanOK /\ EditsAreKept /\ UpsertedIsQueued

-----------------------------------------------------------------------------
(* Plans and files *)

Records == [of : plan \cup {None}, edits : SUBSET Edits]

Txs == [status : Statuses, effects : [plan -> States], rollback : BOOLEAN,
        validated : BOOLEAN, upserted : BOOLEAN, cleaned : BOOLEAN, completed : BOOLEAN]
Jobs == [at : {"idle"} \cup ChangeNames, op : plan \cup {None}]

LEMMA PlanFacts ==
    ASSUME plan \in Plans
    PROVE  /\ plan \subseteq Operations /\ None \notin plan
           /\ \A o \in plan : HasSource(o) => o.source \in Paths(plan)
           /\ \A o \in plan : HasDestination(o) => o.destination \in Paths(plan)
           /\ \A o \in plan : HasSource(o) \/ HasDestination(o)
           /\ \A o, x \in plan : HasSource(o) /\ HasSource(x) /\ o.source = x.source => o = x
           /\ \A o, x \in plan : HasDestination(o) /\ HasDestination(x)
                                 /\ o.destination = x.destination => o = x
           /\ \A o, x \in plan : HasSource(o) /\ x.destination = o.source => HasDestination(x)
           /\ None \notin Records
<1>1. WellFormed(plan) /\ None \notin plan
  BY DiscoveryAssumption
<1>2. plan \subseteq Operations
  BY <1>1 DEF WellFormed
<1>3. \A o \in plan : HasSource(o) => o.source \in Paths(plan)
  BY DEF Paths
<1>4. \A o \in plan : HasDestination(o) => o.destination \in Paths(plan)
  BY DEF Paths
<1>5. \A o \in plan : HasSource(o) \/ HasDestination(o)
  BY DEF HasSource, HasDestination
<1>6. \A o, x \in plan : HasSource(o) /\ HasSource(x) /\ o.source = x.source => o = x
  BY <1>1 DEF WellFormed
<1>7. \A o, x \in plan : HasDestination(o) /\ HasDestination(x)
                         /\ o.destination = x.destination => o = x
  BY <1>1 DEF WellFormed
<1>8. \A o, x \in plan : HasSource(o) /\ x.destination = o.source => HasDestination(x)
  BY <1>1 DEF WellFormed
<1>9. None \notin Records
  <2>1. plan \subseteq UNION Plans
    BY Zenon
  <2>2. \A f \in Records : f \in [of : (UNION Plans) \cup {None}, edits : SUBSET Edits]
    BY <2>1 DEF Records
  <2> QED BY <2>2, DiscoveryAssumption
<1> QED BY <1>1, <1>2, <1>3, <1>4, <1>5, <1>6, <1>7, <1>8, <1>9

\* What typing, adding and a fingerprint make of a file.
LEMMA FileFacts ==
    /\ None \in Contents
    /\ \A o \in plan : Page(o) \in Records /\ Page(o).of = o /\ Page(o).edits = {}
    /\ \A e \in Edits : Own(e) \in Records /\ Own(e).of = None /\ Own(e).edits = {e}
    /\ \A file \in Records, e \in Edits :
         /\ WithEdit(file, e) \in Records
         /\ WithEdit(file, e).of = file.of
         /\ WithEdit(file, e).edits = file.edits \cup {e}
    /\ \A file : file \in Contents <=> file \in Records \/ file = None
  BY DEF Contents, Records, Page, Own, WithEdit, File

\* An error changes at most the reason of a rollback and the status.
LEMMA FailsFacts ==
    ASSUME tx \in Txs, Fails
    PROVE  /\ tx' = [tx EXCEPT !.rollback = tx'.rollback, !.status = tx'.status]
           /\ tx' \in Txs
           /\ tx.rollback => tx'.rollback
           /\ \/ tx'.status = tx.status
              \/ tx.status \in Precommit /\ tx'.status = "repair_pending" /\ tx.rollback
  BY DEF Fails, Txs, Precommit, Statuses

LEMMA RecordFacts ==
    ASSUME tx \in Txs, NEW o \in plan, NEW state \in States, Record(o, state)
    PROVE  /\ tx' \in Txs
           /\ tx'.effects[o] = state
           /\ \A x \in plan : x # o => tx'.effects[x] = tx.effects[x]
           /\ tx'.status = tx.status /\ tx'.rollback = tx.rollback
           /\ tx'.cleaned = tx.cleaned /\ tx'.upserted = tx.upserted
  BY DEF Record, Txs, States

-----------------------------------------------------------------------------
(* The user and the environment *)

LEMMA TypesUnfold ==
    ASSUME TypeOK
    PROVE  /\ plan \in Plans /\ tx \in Txs /\ job \in Jobs
           /\ mount \in [Paths(plan) -> Contents] /\ recovery \in [plan -> Contents]
           /\ \A o \in plan : State(o) \in States
  BY DEF TypeOK, Txs, Jobs, State

\* What is established for a decided change holds whatever the user does.
LEMMA JobStays ==
    ASSUME JobOK, job \in Jobs, plan' = plan, job' = job, tx' = tx, root' = root,
           \A o \in plan : HasSource(o) /\ IsOfOr(mount[o.source], o) =>
                              IsOfOr(mount'[o.source], o),
           \A o \in plan : HasDestination(o) /\ IsOfOr(mount[o.destination], o) =>
                              IsOfOr(mount'[o.destination], o),
           \A o \in plan : recovery[o] = None => recovery'[o] = None,
           \A o \in plan : Doomed(o) /\ Unowed(recovery[o]) => Unowed(recovery[o])'
    PROVE  JobOK'
<1>1. /\ job.at \in ChangeNames \ {"purge"} =>
           job.op \in plan /\ root /\ tx.status \in Precommit /\ Active(job.op)
      /\ job.at = "purge" => tx.status = "committed"
  BY DEF JobOK
<1>2. job.at \in ChangeNames \ {"purge"} => Active(job.op)'
  BY <1>1 DEF Active, State
<1>3. job.at = "stage" => HasSource(job.op) /\ IsOfOr(mount'[job.op.source], job.op)
  BY <1>1 DEF JobOK, ChangeNames
<1>4. job.at \in {"write", "publish"} => ~ HasSource(job.op) /\ recovery'[job.op] = None
  BY <1>1 DEF JobOK, ChangeNames
<1>5. job.at = "uninstall" =>
        HasDestination(job.op) /\ IsOfOr(mount'[job.op.destination], job.op)
  BY <1>1 DEF JobOK, ChangeNames
<1>6. job.at = "drop" => ~ HasSource(job.op) /\ Unowed(recovery[job.op])'
  BY <1>1 DEF JobOK, ChangeNames, Doomed
<1>7. job.at = "purge" => \A o \in plan : Unowed(recovery[o])'
  BY <1>1 DEF JobOK, ChangeNames, Doomed
<1>8. /\ job.at = "install" => HasDestination(job.op)
      /\ job.at = "restore" => HasSource(job.op)
  BY DEF JobOK
<1> QED BY <1>1, <1>2, <1>3, <1>4, <1>5, <1>6, <1>7, <1>8 DEF JobOK

LEMMA UserEditsKeeps ==
    ASSUME Inv, NEW p \in Paths(plan), NEW e \in Edits, UserEdits(p, e)
    PROVE  Inv'
<1> DEFINE f == mount[p]
           g == WithEdit(f, e)
<1>0. USE DEF UserEdits
<1>1. /\ plan' = plan /\ recovery' = recovery /\ temporary' = temporary /\ root' = root
      /\ tx' = tx /\ job' = job /\ queued' = queued /\ shown' = shown /\ spent' = spent
      /\ typed' = typed \cup {e} /\ owed' = owed \cup {e} /\ e \notin typed
      /\ touched' = touched \cup {f.of} /\ disturbed' = TRUE
      /\ mount' = [mount EXCEPT ![p] = g] /\ f # None
  BY DEF user, Touches
<1>2. f \in Records /\ g \in Records /\ g.of = f.of /\ g.edits = f.edits \cup {e}
  BY <1>1, FileFacts, TypesUnfold DEF Inv
<1>3. mount' \in [Paths(plan) -> Contents] /\ mount'[p] = g
      /\ \A q \in Paths(plan) : q # p => mount'[q] = mount[q]
  BY <1>1, <1>2, FileFacts, TypesUnfold DEF Inv
<1>4. TypeOK'
  <2>1. Paths(plan)' = Paths(plan) /\ Contents' = Contents
    BY <1>1 DEF Paths, Contents
  <2>2. touched' \subseteq plan \cup {None}
    BY <1>1, <1>2 DEF Inv, TypeOK, Records
  <2> QED BY <1>1, <1>3, <2>1, <2>2 DEF Inv, TypeOK, HasNoPayload
<1>5. JobOK'
  <2>1. \A o \in plan : HasSource(o) /\ IsOfOr(mount[o.source], o) =>
                          IsOfOr(mount'[o.source], o)
    BY <1>2, <1>3, TypesUnfold, PlanFacts DEF Inv, IsOfOr
  <2>2. \A o \in plan : HasDestination(o) /\ IsOfOr(mount[o.destination], o) =>
                          IsOfOr(mount'[o.destination], o)
    BY <1>2, <1>3, TypesUnfold, PlanFacts DEF Inv, IsOfOr
  <2>3. \A o \in plan : Unowed(recovery[o]) => Unowed(recovery[o])'
    <3> SUFFICES ASSUME NEW o \in plan, Unowed(recovery[o]), recovery[o] # None
                 PROVE  recovery[o].edits \cap owed' = {}
      BY <1>1 DEF Unowed
    <3>1. e \notin recovery[o].edits
      BY <1>1 DEF Inv, TypedOK, IsTyped
    <3> QED BY <1>1, <3>1 DEF Unowed
  <2> QED BY <1>1, <2>1, <2>2, <2>3, JobStays, TypesUnfold DEF Inv
<1>6. TypedOK'
  <2>1. Paths(plan)' = Paths(plan)
    BY <1>1 DEF Paths
  <2>2. \A q \in Paths(plan) : IsTyped(mount[q])'
    BY <1>1, <1>2, <1>3 DEF Inv, TypedOK, IsTyped
  <2>3. \A o \in plan : IsTyped(recovery[o])'
    BY <1>1 DEF Inv, TypedOK, IsTyped
  <2> QED BY <1>1, <2>1, <2>2, <2>3 DEF TypedOK
<1>7. PagesOK'
  <2>1. \A o \in plan : Untouched(o)' => Untouched(o) /\ o # f.of
    BY <1>1 DEF Untouched
  <2>2. \A o \in plan : g # Page(o) /\ (o # f.of => f # Page(o))
    BY <1>2, FileFacts
  <2>3. \A o \in plan, q \in Paths(plan) : o # f.of => (mount'[q] = Page(o) <=> mount[q] = Page(o))
    BY <1>3, <2>2
  <2>4. \A o \in plan : Untouched(o)' => (IsHome(o)' <=> IsHome(o)) /\ (IsThere(o)' <=> IsThere(o))
    BY <2>1, <2>3, TypesUnfold, PlanFacts DEF Inv, IsHome, IsThere
  <2> QED BY <1>1, <2>1, <2>4 DEF Inv, PagesOK, Active, State
<1>8. EditsAreKept'
  <2>1. Paths(plan)' = Paths(plan)
    BY <1>1 DEF Paths
  <2>2. g # None
    BY <1>2, TypesUnfold, PlanFacts DEF Inv
  <2>3. \A x \in owed : InMount(x) => InMount(x)'
    BY <1>1, <1>2, <1>3, <2>1, <2>2 DEF InMount
  <2>4. \A x \in owed : InRecovery(x) => InRecovery(x)'
    BY <1>1 DEF InRecovery
  <2>5. InMount(e)'
    BY <1>2, <1>3, <2>1, <2>2 DEF InMount
  <2> QED BY <1>1, <2>3, <2>4, <2>5 DEF Inv, EditsAreKept
<1> QED BY <1>1, <1>4, <1>5, <1>6, <1>7, <1>8 DEF Inv, CleanOK, UpsertedIsQueued, Active, State

LEMMA UserTypesLateKeeps ==
    ASSUME Inv, NEW o \in plan, NEW e \in Edits, UserTypesLate(o, e)
    PROVE  Inv'
<1> DEFINE f == recovery[o]
           g == WithEdit(f, e)
<1>1. /\ plan' = plan /\ mount' = mount /\ temporary' = temporary /\ root' = root
      /\ tx' = tx /\ job' = job /\ queued' = queued /\ shown' = shown /\ spent' = spent
      /\ typed' = typed \cup {e} /\ e \notin typed
      /\ owed' = IF Doomed(o) THEN owed ELSE owed \cup {e}
      /\ touched' = touched \cup {f.of} /\ disturbed' = TRUE
      /\ recovery' = [recovery EXCEPT ![o] = g] /\ f # None
  BY DEF UserTypesLate, Touches
<1>2. f \in Records /\ g \in Records /\ g.of = f.of /\ g.edits = f.edits \cup {e}
  BY <1>1, FileFacts, TypesUnfold DEF Inv
<1>3. /\ recovery' \in [plan -> Contents] /\ recovery'[o] = g
      /\ \A x \in plan : x # o => recovery'[x] = recovery[x]
  BY <1>1, <1>2, FileFacts, TypesUnfold DEF Inv
<1>4. Paths(plan)' = Paths(plan) /\ Contents' = Contents
  BY <1>1 DEF Paths, Contents
<1>5. TypeOK'
  <2>1. touched' \subseteq plan \cup {None}
    BY <1>1, <1>2 DEF Inv, TypeOK, Records
  <2>2. owed' \subseteq typed' /\ typed' \subseteq Edits
    BY <1>1 DEF Inv, TypeOK
  <2>3. \A x \in plan : ~ root' => HasNoPayload(x)'
    BY <1>1, <1>3 DEF Inv, TypeOK, HasNoPayload
  <2> QED BY <1>1, <1>3, <1>4, <2>1, <2>2, <2>3 DEF Inv, TypeOK
<1>6. TypedOK'
  <2>1. \A x \in plan : IsTyped(recovery[x])'
    BY <1>1, <1>2, <1>3 DEF Inv, TypedOK, IsTyped
  <2>2. \A q \in Paths(plan) : IsTyped(mount[q])'
    BY <1>1 DEF Inv, TypedOK, IsTyped
  <2> QED BY <1>1, <1>4, <2>1, <2>2 DEF TypedOK
<1>7. JobOK'
  <2>1. \A x \in plan : Doomed(x) /\ Unowed(recovery[x]) => Unowed(recovery[x])'
    <3> SUFFICES ASSUME NEW x \in plan, Doomed(x), Unowed(recovery[x]), recovery'[x] # None
                 PROVE  recovery'[x].edits \cap owed' = {}
      BY DEF Unowed
    <3>1. CASE x = o
      <4>1. owed' = owed /\ owed \subseteq typed
        BY <1>1, <3>1 DEF Inv, TypeOK
      <4>2. f.edits \cap owed = {}
        BY <1>1, <3>1 DEF Unowed
      <4> QED BY <1>1, <1>2, <1>3, <3>1, <4>1, <4>2
    <3>2. CASE x # o
      <4>1. recovery'[x] = recovery[x] /\ recovery[x] # None
        BY <1>3, <3>2
      <4>2. recovery[x].edits \subseteq typed /\ recovery[x].edits \cap owed = {}
        BY <4>1 DEF Inv, TypedOK, IsTyped, Unowed
      <4> QED BY <1>1, <4>1, <4>2
    <3> QED BY <3>1, <3>2
  <2>2. \A x \in plan : recovery[x] = None => recovery'[x] = None
    BY <1>1, <1>3
  <2> QED BY <1>1, <2>1, <2>2, JobStays, TypesUnfold DEF Inv, IsOfOr
<1>8. PagesOK'
  <2>1. \A x \in plan : Untouched(x)' => Untouched(x)
    BY <1>1 DEF Untouched
  <2>2. \A x \in plan : IsOfOr(recovery[x], x)'
    BY <1>1, <1>2, <1>3 DEF Inv, PagesOK, IsOfOr
  <2> QED BY <1>1, <2>1, <2>2 DEF Inv, PagesOK, Active, State, IsHome, IsThere
<1>9. EditsAreKept'
  <2>1. g # None
    BY <1>2, TypesUnfold, PlanFacts DEF Inv
  <2>2. \A x : InRecovery(x) => InRecovery(x)'
    BY <1>1, <1>2, <1>3, <2>1 DEF InRecovery
  <2>3. InRecovery(e)'
    BY <1>1, <1>2, <1>3, <2>1 DEF InRecovery
  <2>4. \A x : InMount(x) => InMount(x)'
    BY <1>1 DEF InMount, Paths
  <2> QED BY <1>1, <2>2, <2>3, <2>4 DEF Inv, EditsAreKept
<1> QED BY <1>1, <1>5, <1>6, <1>7, <1>8, <1>9 DEF Inv, CleanOK, UpsertedIsQueued, Active, State

\* What adding and removing have in common: another file at a path, and no new owner.
LEMMA UserPutsKeeps ==
    ASSUME Inv, NEW p \in Paths(plan), NEW g \in Contents,
           mount' = [mount EXCEPT ![p] = g],
           plan' = plan, recovery' = recovery, temporary' = temporary, root' = root,
           tx' = tx, job' = job, queued' = queued, shown' = shown,
           touched \subseteq touched', touched' \subseteq plan \cup {None}, disturbed' = TRUE,
           typed \subseteq typed', typed' \subseteq Edits, owed' \subseteq typed',
           owed' \cap typed \subseteq owed, IsTyped(g)',
           g = None \/ g.of = None, mount[p] = None \/ mount[p].of \in touched',
           spent'.removals \in 0..MaxRemovals, spent' = [spent EXCEPT !.removals = spent'.removals],
           EditsAreKept'
    PROVE  Inv'
<1>1. Paths(plan)' = Paths(plan) /\ Contents' = Contents
  BY DEF Paths, Contents
<1>2. /\ mount' \in [Paths(plan) -> Contents] /\ mount'[p] = g
      /\ \A q \in Paths(plan) : q # p => mount'[q] = mount[q]
  BY TypesUnfold DEF Inv
<1>3. TypeOK'
  <2>1. spent' \in [removals : 0..MaxRemovals, drifts : 0..MaxDrifts, crashes : 0..MaxCrashes]
    BY DEF Inv, TypeOK
  <2> QED BY <1>1, <1>2, <2>1 DEF Inv, TypeOK, HasNoPayload
<1>4. TypedOK'
  <2>1. \A q \in Paths(plan) : IsTyped(mount[q])'
    BY <1>2 DEF Inv, TypedOK, IsTyped
  <2>2. \A o \in plan : IsTyped(recovery[o])'
    BY DEF Inv, TypedOK, IsTyped
  <2> QED BY <1>1, <2>1, <2>2 DEF TypedOK
<1>5. JobOK'
  <2>1. \A o \in plan : HasSource(o) /\ IsOfOr(mount[o.source], o) =>
                          IsOfOr(mount'[o.source], o)
    BY <1>2, TypesUnfold, PlanFacts DEF Inv, IsOfOr
  <2>2. \A o \in plan : HasDestination(o) /\ IsOfOr(mount[o.destination], o) =>
                          IsOfOr(mount'[o.destination], o)
    BY <1>2, TypesUnfold, PlanFacts DEF Inv, IsOfOr
  <2>3. \A o \in plan : Unowed(recovery[o]) => Unowed(recovery[o])'
    BY DEF Inv, TypedOK, IsTyped, Unowed
  <2> QED BY <2>1, <2>2, <2>3, JobStays, TypesUnfold DEF Inv
<1>6. PagesOK'
  <2>1. \A o \in plan : Untouched(o)' => Untouched(o) /\ g # Page(o) /\ mount[p] # Page(o)
    <3> SUFFICES ASSUME NEW o \in plan, Untouched(o)'
                 PROVE  Untouched(o) /\ g # Page(o) /\ mount[p] # Page(o)
      OBVIOUS
    <3>1. Page(o) # None /\ Page(o).of = o /\ o # None
      BY FileFacts, TypesUnfold, PlanFacts DEF Inv
    <3>2. o \notin touched'
      BY DEF Untouched
    <3> QED BY <3>1, <3>2 DEF Untouched
  <2>2. \A o \in plan, q \in Paths(plan) : Untouched(o)' => (mount'[q] = Page(o) <=> mount[q] = Page(o))
    BY <1>2, <2>1
  <2>3. \A o \in plan : Untouched(o)' => (IsHome(o)' <=> IsHome(o)) /\ (IsThere(o)' <=> IsThere(o))
    BY <2>1, <2>2, TypesUnfold, PlanFacts DEF Inv, IsHome, IsThere
  <2> QED BY <2>1, <2>3 DEF Inv, PagesOK, Active, State
<1> QED BY <1>3, <1>4, <1>5, <1>6 DEF Inv, CleanOK, UpsertedIsQueued, Active, State

LEMMA UserAddsKeeps ==
    ASSUME Inv, NEW p \in Paths(plan), NEW e \in Edits, UserAdds(p, e)
    PROVE  Inv'
<1>1. /\ mount' = [mount EXCEPT ![p] = Own(e)] /\ mount[p] = None
      /\ plan' = plan /\ recovery' = recovery /\ temporary' = temporary /\ root' = root
      /\ tx' = tx /\ job' = job /\ queued' = queued /\ shown' = shown /\ spent' = spent
      /\ typed' = typed \cup {e} /\ owed' = owed \cup {e} /\ e \notin typed
      /\ touched' = touched /\ disturbed' = TRUE
  BY DEF UserAdds
<1>2. Own(e) \in Contents /\ Own(e).of = None /\ Own(e).edits = {e} /\ Own(e) # None
  BY FileFacts, TypesUnfold, PlanFacts DEF Inv
<1>3. mount'[p] = Own(e) /\ \A q \in Paths(plan) : q # p => mount'[q] = mount[q]
  BY <1>1, TypesUnfold DEF Inv
<1>4. EditsAreKept'
  <2>1. \A x : InMount(x) => InMount(x)'
    BY <1>1, <1>3 DEF InMount, Paths
  <2>2. \A x : InRecovery(x) => InRecovery(x)'
    BY <1>1 DEF InRecovery
  <2>3. InMount(e)'
    BY <1>1, <1>2, <1>3 DEF InMount, Paths
  <2> QED BY <1>1, <2>1, <2>2, <2>3 DEF Inv, EditsAreKept
<1>5. IsTyped(Own(e))'
  BY <1>1, <1>2 DEF IsTyped, Own, File
<1>6. /\ touched' \subseteq plan \cup {None} /\ typed' \subseteq Edits /\ owed' \subseteq typed'
      /\ owed' \cap typed \subseteq owed
      /\ spent'.removals \in 0..MaxRemovals /\ spent' = [spent EXCEPT !.removals = spent'.removals]
  BY <1>1 DEF Inv, TypeOK
<1> QED BY <1>1, <1>2, <1>4, <1>5, <1>6, UserPutsKeeps

LEMMA UserRemovesKeeps ==
    ASSUME Inv, NEW p \in Paths(plan), UserRemoves(p)
    PROVE  Inv'
<1>1. /\ mount' = [mount EXCEPT ![p] = None] /\ mount[p] # None
      /\ plan' = plan /\ recovery' = recovery /\ temporary' = temporary /\ root' = root
      /\ tx' = tx /\ job' = job /\ queued' = queued /\ shown' = shown
      /\ typed' = typed /\ owed' = owed \ mount[p].edits
      /\ touched' = touched \cup {mount[p].of} /\ disturbed' = TRUE
      /\ spent.removals < MaxRemovals
      /\ spent' = [spent EXCEPT !.removals = @ + 1]
  BY DEF UserRemoves, Touches, Spend
<1>2. mount[p] \in Records
  BY <1>1, FileFacts, TypesUnfold DEF Inv
<1>3. \A q \in Paths(plan) : q # p => mount'[q] = mount[q]
  BY <1>1, TypesUnfold DEF Inv
<1>4. EditsAreKept'
  <2>1. \A x \in owed' : InMount(x) => InMount(x)'
    BY <1>1, <1>3 DEF InMount, Paths
  <2>2. \A x : InRecovery(x) => InRecovery(x)'
    BY <1>1 DEF InRecovery
  <2> QED BY <1>1, <2>1, <2>2 DEF Inv, EditsAreKept
<1>5. /\ touched' \subseteq plan \cup {None} /\ typed' \subseteq Edits /\ owed' \subseteq typed'
      /\ owed' \cap typed \subseteq owed
  BY <1>1, <1>2 DEF Inv, TypeOK, Records
<1>6. spent'.removals \in 0..MaxRemovals /\ spent' = [spent EXCEPT !.removals = spent'.removals]
  BY <1>1, DiscoveryAssumption DEF Inv, TypeOK
<1>7. None \in Contents /\ IsTyped(None)'
  BY FileFacts DEF IsTyped
<1> QED BY <1>1, <1>2, <1>4, <1>5, <1>6, <1>7, UserPutsKeeps

-----------------------------------------------------------------------------
(* Decisions *)

\* A step that leaves the pages where they are.
LEMMA QuietKeeps ==
    ASSUME Inv, plan' = plan, mount' = mount, recovery' = recovery, shown' = shown,
           typed' = typed, owed' = owed, touched' = touched, disturbed' \in BOOLEAN,
           tx' \in Txs, job' \in Jobs, queued' \in BOOLEAN, root' \in BOOLEAN,
           temporary' \in [plan -> {"none", "partial", "whole"}],
           spent' \in [removals : 0..MaxRemovals, drifts : 0..MaxDrifts,
                       crashes : 0..MaxCrashes],
           \A o \in plan : ~ root' => HasNoPayload(o)',
           JobOK', PagesOK', CleanOK', UpsertedIsQueued'
    PROVE  Inv'
<1>1. Paths(plan)' = Paths(plan) /\ Contents' = Contents /\ Txs' = Txs /\ Jobs' = Jobs
  BY DEF Paths, Contents, Txs, Jobs
<1>2. TypeOK'
  BY <1>1 DEF Inv, TypeOK, Txs, Jobs
<1>3. TypedOK'
  BY <1>1 DEF Inv, TypedOK, IsTyped
<1>4. EditsAreKept'
  BY <1>1 DEF Inv, EditsAreKept, InMount, InRecovery
<1> QED BY <1>2, <1>3, <1>4 DEF Inv

Still == /\ plan' = plan /\ mount' = mount /\ recovery' = recovery /\ shown' = shown
         /\ typed' = typed /\ owed' = owed /\ touched' = touched
         /\ disturbed' = disturbed /\ spent' = spent
Resting == Still /\ temporary' = temporary /\ queued' = queued

LEMMA RestingKeeps ==
    ASSUME Inv, Resting, tx' \in Txs, job' \in Jobs, root' \in BOOLEAN, root => root',
           JobOK', PagesOK', CleanOK', UpsertedIsQueued'
    PROVE  Inv'
<1>1. \A o \in plan : ~ root' => HasNoPayload(o)'
  BY DEF Inv, TypeOK, HasNoPayload, Resting, Still
<1>2. /\ disturbed' \in BOOLEAN /\ queued' \in BOOLEAN
      /\ temporary' \in [plan -> {"none", "partial", "whole"}]
      /\ spent' \in [removals : 0..MaxRemovals, drifts : 0..MaxDrifts, crashes : 0..MaxCrashes]
  BY DEF Inv, TypeOK, Resting, Still
<1> QED BY <1>1, <1>2, QuietKeeps DEF Resting, Still

LEMMA IdleFacts ==
    ASSUME Inv, Idle, job' = job
    PROVE  JobOK' /\ job' \in Jobs /\ job.at = "idle"
<1>1. job'.at = "idle" /\ job.at = "idle"
  BY DEF Idle, NoJob
<1> QED BY <1>1, TypesUnfold DEF JobOK, ChangeNames, Inv

LEMMA FailsKeeps ==
    ASSUME Inv, Idle, Fails, Resting, job' = job, root' = root
    PROVE  Inv'
<1>1. tx \in Txs /\ root \in BOOLEAN
  BY DEF Inv, TypeOK, Txs
<1>2. /\ tx'.effects = tx.effects /\ tx'.cleaned = tx.cleaned /\ tx'.upserted = tx.upserted
      /\ tx' \in Txs /\ (tx.rollback => tx'.rollback)
      /\ \/ tx'.status = tx.status
         \/ tx.status \in Precommit /\ tx'.status = "repair_pending" /\ tx.rollback
  BY <1>1, FailsFacts DEF Txs
<1>3. PagesOK'
  BY <1>2 DEF Inv, PagesOK, Resting, Still, Active, State, IsHome, IsThere, Untouched, Precommit
<1>4. CleanOK'
  BY <1>2 DEF Inv, CleanOK, Resting, Still, Active, State, Precommit
<1>5. UpsertedIsQueued'
  BY <1>2 DEF Inv, UpsertedIsQueued, Resting
<1> QED BY <1>1, <1>2, <1>3, <1>4, <1>5, IdleFacts, RestingKeeps

LEMMA RecordKeeps ==
    ASSUME Inv, Idle, NEW o \in plan, NEW state \in States \ {"none"}, Record(o, state),
           Resting, job' = job, root' = root, tx.status \in Precommit,
           Active(o) \/ ~ tx.rollback, state = "rolled_back" => IsHome(o)
    PROVE  Inv'
<1>1. tx \in Txs /\ root \in BOOLEAN
  BY DEF Inv, TypeOK, Txs
<1>2. /\ tx' \in Txs /\ tx'.effects[o] = state
      /\ \A x \in plan : x # o => tx'.effects[x] = tx.effects[x]
      /\ tx'.status = tx.status /\ tx'.rollback = tx.rollback
      /\ tx'.cleaned = tx.cleaned /\ tx'.upserted = tx.upserted
  BY <1>1, RecordFacts
<1>3. PagesOK'
  <2>1. \A x \in plan : Untouched(x)' /\ ~ Active(x)' => IsHome(x)'
    <3> SUFFICES ASSUME NEW x \in plan, Untouched(x)', ~ Active(x)'
                 PROVE  IsHome(x)'
      OBVIOUS
    <3>1. Untouched(x)
      BY DEF Untouched, Resting, Still
    <3>2. IsHome(x)
      <4>1. CASE x = o
        BY <1>2, <4>1 DEF Active, State
      <4>2. CASE x # o
        BY <1>2, <3>1, <4>2 DEF Inv, PagesOK, Active, State
      <4> QED BY <4>1, <4>2
    <3> QED BY <3>2 DEF IsHome, Resting, Still
  <2>2. \A x \in plan : IsOfOr(recovery[x], x)'
    BY DEF Inv, PagesOK, Resting, Still, IsOfOr
  <2>3. tx'.status \notin {"reserved", "aborted", "committed", "finalized"}
    BY <1>2 DEF Precommit
  <2> QED BY <2>1, <2>2, <2>3 DEF PagesOK, Resting, Still
<1>4. CleanOK'
  <2>1. ~ tx.cleaned
    BY DEF Inv, CleanOK
  <2> QED BY <1>2, <2>1 DEF Inv, CleanOK, Precommit
<1>5. UpsertedIsQueued'
  BY <1>2 DEF Inv, UpsertedIsQueued, Resting
<1> QED BY <1>1, <1>2, <1>3, <1>4, <1>5, IdleFacts, RestingKeeps

\* A step that records a flag or a status.
LEMMA MarkKeeps ==
    ASSUME Inv, Idle, Still, temporary' = temporary, job' = job, root' = root,
           tx' \in Txs, tx'.effects = tx.effects, queued' \in BOOLEAN,
           UpsertedIsQueued', CleanOK',
           tx'.status \in {"reserved", "aborted"} => tx.status \in {"reserved", "aborted"}
                                                      \/ \A o \in plan : ~ Active(o),
           tx'.status \in {"committed", "finalized"} =>
               tx.status \in {"committed", "finalized"} \/ \A o \in plan : IsThere(o)
    PROVE  Inv'
<1>1. PagesOK'
  <2>1. \A o \in plan : (Active(o)' <=> Active(o)) /\ (IsHome(o)' <=> IsHome(o))
                        /\ (IsThere(o)' <=> IsThere(o)) /\ (Untouched(o)' <=> Untouched(o))
    BY DEF Active, State, IsHome, IsThere, Untouched, Still
  <2>2. \A o \in plan : IsOfOr(recovery[o], o)'
    BY DEF Inv, PagesOK, IsOfOr, Still
  <2>3. plan' = plan
    BY DEF Still
  <2> QED BY <2>1, <2>2, <2>3 DEF Inv, PagesOK
<1>2. \A o \in plan : ~ root' => HasNoPayload(o)'
  BY DEF Inv, TypeOK, HasNoPayload, Still
<1>3. /\ disturbed' \in BOOLEAN /\ root' \in BOOLEAN
      /\ temporary' \in [plan -> {"none", "partial", "whole"}]
      /\ spent' \in [removals : 0..MaxRemovals, drifts : 0..MaxDrifts, crashes : 0..MaxCrashes]
  BY DEF Inv, TypeOK, Still
<1> QED BY <1>1, <1>2, <1>3, IdleFacts, QuietKeeps DEF Still

LEMMA DecidesKeeps ==
    ASSUME Inv, Idle, NEW at \in ChangeNames, NEW o \in plan \cup {None}, Decides(at, o),
           Still, queued' = queued, tx' = tx, root' \in BOOLEAN, root => root',
           temporary' \in [plan -> {"none", "partial", "whole"}],
           \A x \in plan : temporary'[x] = temporary[x] \/ root',
           root \/ ~ root' \/ (tx.status \in Precommit /\ ~ tx.cleaned),
           JobOK'
    PROVE  Inv'
<1>1. job' \in Jobs /\ tx' \in Txs
  BY TypesUnfold DEF Decides, Jobs, Inv
<1>2. PagesOK'
  BY DEF Inv, PagesOK, Still, Active, State, IsHome, IsThere, Untouched
<1>3. CleanOK'
  BY DEF Inv, CleanOK, Still, Active, State, Precommit
<1>4. UpsertedIsQueued'
  BY DEF Inv, UpsertedIsQueued
<1>5. \A x \in plan : ~ root' => HasNoPayload(x)'
  BY DEF Inv, TypeOK, HasNoPayload, Still
<1>6. /\ disturbed' \in BOOLEAN /\ queued' \in BOOLEAN
      /\ spent' \in [removals : 0..MaxRemovals, drifts : 0..MaxDrifts, crashes : 0..MaxCrashes]
  BY DEF Inv, TypeOK, Still
<1> QED BY <1>1, <1>2, <1>3, <1>4, <1>5, <1>6, QuietKeeps DEF Still

LEMMA BeginKeeps ==
    ASSUME Inv, Begin
    PROVE  Inv'
<1>1. /\ Idle /\ tx.status = "reserved" /\ tx' = [tx EXCEPT !.status = "applying"]
      /\ Still /\ temporary' = temporary /\ root' = root /\ job' = job /\ queued' = queued
  BY DEF Begin, Still, files, user
<1>2. /\ tx' \in Txs /\ tx'.effects = tx.effects /\ tx'.status = "applying"
      /\ tx'.cleaned = tx.cleaned /\ tx'.upserted = tx.upserted
  BY <1>1, TypesUnfold DEF Inv, Txs, Statuses
<1>3. CleanOK'
  BY <1>1, <1>2 DEF Inv, CleanOK
<1>4. UpsertedIsQueued' /\ queued' \in BOOLEAN
  BY <1>1, <1>2 DEF Inv, UpsertedIsQueued, TypeOK
<1> QED BY <1>1, <1>2, <1>3, <1>4, MarkKeeps

LEMMA AbortReservedKeeps ==
    ASSUME Inv, AbortReserved
    PROVE  Inv'
<1>1. /\ Idle /\ tx.status = "reserved" /\ tx' = [tx EXCEPT !.status = "aborted"]
      /\ Still /\ temporary' = temporary /\ root' = root /\ job' = job /\ queued' = queued
  BY DEF AbortReserved, Still, files, user
<1>2. /\ tx' \in Txs /\ tx'.effects = tx.effects /\ tx'.status = "aborted"
      /\ tx'.cleaned = tx.cleaned /\ tx'.upserted = tx.upserted
  BY <1>1, TypesUnfold DEF Inv, Txs, Statuses
<1>3. CleanOK'
  BY <1>1, <1>2 DEF Inv, CleanOK, Precommit
<1>4. UpsertedIsQueued' /\ queued' \in BOOLEAN
  BY <1>1, <1>2 DEF Inv, UpsertedIsQueued, TypeOK
<1> QED BY <1>1, <1>2, <1>3, <1>4, MarkKeeps

\* A transaction that is applied is before its commit and has not turned back.
LEMMA ApplyingFacts ==
    ASSUME Inv, Applying
    PROVE  Idle /\ tx.status \in Precommit /\ ~ tx.rollback /\ ~ tx.cleaned
  BY DEF Applying, Precommit, Inv, CleanOK

LEMMA PrepareKeeps ==
    ASSUME Inv, NEW o \in plan, Prepare(o)
    PROVE  Inv'
<1>1. /\ Applying /\ Resting /\ job' = job /\ root' = root
      /\ Record(o, "prepared") \/ Fails
  BY DEF Prepare, Resting, Still, files, user
<1>2. Idle /\ tx.status \in Precommit /\ ~ tx.rollback
  BY <1>1, ApplyingFacts
<1>3. "prepared" \in States \ {"none"} /\ "prepared" # "rolled_back"
  BY DEF States
<1> QED BY <1>1, <1>2, <1>3, RecordKeeps, FailsKeeps

LEMMA StageKeeps ==
    ASSUME Inv, NEW o \in plan, Stage(o)
    PROVE  Inv'
<1>1. Applying /\ State(o) = "prepared" /\ HasSource(o)
  BY DEF Stage, ToStage, Unstaged
<1>2. Idle /\ tx.status \in Precommit /\ ~ tx.rollback /\ ~ tx.cleaned /\ Active(o)
  BY <1>1, ApplyingFacts DEF Active
<1>3. CASE HasMoved(o, mount[o.source], recovery[o]) /\ Record(o, "staged") /\ UNCHANGED <<root, job>>
  <2>1. Resting /\ job' = job /\ root' = root
    BY <1>3 DEF Stage, Resting, Still, user
  <2> QED BY <1>2, <1>3, <2>1, RecordKeeps DEF States
<1>4. CASE CanMove(o, mount[o.source], recovery[o]) /\ Decides("stage", o) /\ root' = TRUE /\ UNCHANGED tx
  <2>1. Still /\ queued' = queued /\ temporary' = temporary
    BY <1>4 DEF Stage, Still, user
  <2>2. job' = [at |-> "stage", op |-> o]
    BY <1>4 DEF Decides
  <2>3. mount[o.source] = Page(o) /\ Page(o).of = o
    BY <1>4, FileFacts DEF CanMove
  <2>4. JobOK'
    BY <1>1, <1>2, <1>4, <2>1, <2>2, <2>3 DEF JobOK, IsOfOr, Active, State, Still
  <2>5. temporary \in [plan -> {"none", "partial", "whole"}]
    BY DEF Inv, TypeOK
  <2> QED BY <1>2, <1>4, <2>1, <2>4, <2>5, DecidesKeeps DEF ChangeNames
<1>5. CASE Fails /\ UNCHANGED <<root, job>>
  <2>1. Resting /\ job' = job /\ root' = root
    BY <1>5 DEF Stage, Resting, Still, user
  <2> QED BY <1>2, <1>5, <2>1, FailsKeeps
<1> QED BY <1>3, <1>4, <1>5 DEF Stage

LEMMA PublishKeeps ==
    ASSUME Inv, NEW o \in plan, Publish(o)
    PROVE  Inv'
<1>1. Applying /\ State(o) = "prepared" /\ ~ HasSource(o)
  BY DEF Publish, ToPublish, IsFirst, Unpublished
<1>2. Idle /\ tx.status \in Precommit /\ ~ tx.rollback /\ ~ tx.cleaned /\ Active(o)
  BY <1>1, ApplyingFacts DEF Active
<1>3. temporary \in [plan -> {"none", "partial", "whole"}] /\ root \in BOOLEAN
  BY DEF Inv, TypeOK
<1>4. CASE Record(o, "staged") /\ UNCHANGED <<root, temporary, job>>
  <2>1. Resting /\ job' = job /\ root' = root
    BY <1>4 DEF Publish, Resting, Still, user
  <2> QED BY <1>2, <1>4, <2>1, RecordKeeps DEF States
<1>5. CASE /\ recovery[o] = None /\ temporary[o] = "none"
           /\ Decides("write", o) /\ root' = TRUE
           /\ temporary' = [temporary EXCEPT ![o] = "partial"] /\ UNCHANGED tx
  <2>1. Still /\ queued' = queued
    BY <1>5 DEF Publish, Still, user
  <2>2. job' = [at |-> "write", op |-> o]
    BY <1>5 DEF Decides
  <2>3. JobOK'
    BY <1>1, <1>2, <1>5, <2>1, <2>2 DEF JobOK, Active, State, Still
  <2>4. temporary' \in [plan -> {"none", "partial", "whole"}]
    BY <1>3, <1>5
  <2> QED BY <1>2, <1>5, <2>1, <2>3, <2>4, DecidesKeeps DEF ChangeNames
<1>6. CASE /\ recovery[o] = None /\ temporary[o] = "whole"
           /\ Decides("publish", o) /\ UNCHANGED <<root, temporary, tx>>
  <2>1. Still /\ queued' = queued /\ root' = root /\ temporary' = temporary
    BY <1>6 DEF Publish, Still, user
  <2>2. job' = [at |-> "publish", op |-> o]
    BY <1>6 DEF Decides
  <2>3. root
    BY <1>6 DEF Inv, TypeOK, HasNoPayload
  <2>4. JobOK'
    BY <1>1, <1>2, <1>6, <2>1, <2>2, <2>3 DEF JobOK, Active, State, Still
  <2> QED BY <1>2, <1>3, <1>6, <2>1, <2>3, <2>4, DecidesKeeps DEF ChangeNames
<1>7. CASE Fails /\ UNCHANGED <<root, temporary, job>>
  <2>1. Resting /\ job' = job /\ root' = root
    BY <1>7 DEF Publish, Resting, Still, user
  <2> QED BY <1>2, <1>7, <2>1, FailsKeeps
<1> QED BY <1>4, <1>5, <1>6, <1>7 DEF Publish

\* A file in the recovery directory shows that the directory exists.
LEMMA RecoveryHasRoot ==
    ASSUME Inv, NEW o \in plan, recovery[o] # None \/ temporary[o] # "none"
    PROVE  root
  BY DEF Inv, TypeOK, HasNoPayload

LEMMA PageIsFile ==
    ASSUME Inv, NEW o \in plan
    PROVE  Page(o) # None /\ Page(o).of = o /\ Page(o).edits = {}
  BY FileFacts, PlanFacts, TypesUnfold DEF Inv

LEMMA InstallKeeps ==
    ASSUME Inv, NEW o \in plan, Install(o)
    PROVE  Inv'
<1>1. Applying /\ State(o) = "staged" /\ HasDestination(o)
  BY DEF Install, ToInstall, IsFirst, Uninstalled
<1>2. Idle /\ tx.status \in Precommit /\ ~ tx.rollback /\ ~ tx.cleaned /\ Active(o)
  BY <1>1, ApplyingFacts DEF Active
<1>3. Resting /\ root' = root
  BY DEF Install, Resting, Still, files, user
<1>4. CASE Record(o, "installed") /\ UNCHANGED job
  BY <1>2, <1>3, <1>4, RecordKeeps DEF States
<1>5. CASE CanMove(o, recovery[o], mount[o.destination]) /\ Decides("install", o) /\ UNCHANGED tx
  <2>1. job' = [at |-> "install", op |-> o]
    BY <1>5 DEF Decides
  <2>2. root
    BY <1>5, PageIsFile, RecoveryHasRoot DEF CanMove
  <2>3. JobOK'
    BY <1>1, <1>2, <1>3, <1>5, <2>1, <2>2 DEF JobOK, Active, State, Resting, Still
  <2>4. temporary \in [plan -> {"none", "partial", "whole"}]
    BY DEF Inv, TypeOK
  <2> QED BY <1>2, <1>3, <1>5, <2>2, <2>3, <2>4, DecidesKeeps DEF ChangeNames, Resting
<1>6. CASE Fails /\ UNCHANGED job
  BY <1>2, <1>3, <1>6, FailsKeeps
<1> QED BY <1>4, <1>5, <1>6 DEF Install

LEMMA DeleteKeeps ==
    ASSUME Inv, NEW o \in plan, Delete(o)
    PROVE  Inv'
<1>1. Applying /\ Resting /\ root' = root /\ job' = job /\ (Record(o, "installed") \/ Fails)
  BY DEF Delete, Resting, Still, files, user
<1>2. Idle /\ tx.status \in Precommit /\ ~ tx.rollback
  BY <1>1, ApplyingFacts
<1> QED BY <1>1, <1>2, RecordKeeps, FailsKeeps DEF States

LEMMA ProjectKeeps ==
    ASSUME Inv, Project
    PROVE  Inv'
<1>1. Applying /\ Resting /\ root' = root /\ job' = job
  BY DEF Project, Resting, Still, files, user
<1>2. Idle /\ tx.status \in Precommit /\ ~ tx.rollback /\ ~ tx.cleaned
  BY <1>1, ApplyingFacts
<1>3. CASE tx' = [tx EXCEPT !.status = "projected"]
  <2>1. /\ tx' \in Txs /\ tx'.effects = tx.effects /\ tx'.status = "projected"
        /\ tx'.cleaned = tx.cleaned /\ tx'.upserted = tx.upserted
    BY <1>3, TypesUnfold DEF Inv, Txs, Statuses
  <2>2. CleanOK'
    BY <1>2, <2>1 DEF CleanOK
  <2>3. UpsertedIsQueued' /\ queued' \in BOOLEAN
    BY <1>1, <2>1 DEF Inv, UpsertedIsQueued, TypeOK, Resting
  <2> QED BY <1>1, <1>2, <2>1, <2>2, <2>3, MarkKeeps DEF Resting
<1>4. CASE Fails
  BY <1>1, <1>2, <1>4, FailsKeeps
<1> QED BY <1>3, <1>4 DEF Project

\* Where the plan is projected, every page is where the plan wants it.
LEMMA ProjectedIsThere ==
    ASSUME Inv, IsProjected
    PROVE  \A o \in plan : IsThere(o)
<1> SUFFICES ASSUME NEW o \in plan
             PROVE  IsThere(o)
  OBVIOUS
<1>1. CASE HasDestination(o)
  BY <1>1 DEF IsProjected, IsThere
<1>2. CASE ~ HasDestination(o)
  <2>1. mount[o.source] = None \/ IsReplaced(o)
    BY <1>2 DEF IsProjected, KeepsDeleted
  <2>2. CASE mount[o.source] = None
    BY <1>2, <2>2, PageIsFile DEF IsThere
  <2>3. CASE IsReplaced(o)
    <3>1. PICK x \in plan : x.destination = o.source
      BY <2>3 DEF IsReplaced
    <3>2. HasDestination(x)
      BY <1>2, <3>1, PlanFacts, TypesUnfold DEF Inv
    <3>3. mount[o.source] = Page(x) /\ x # o
      BY <1>2, <3>1, <3>2 DEF IsProjected
    <3>4. Page(x) # Page(o)
      BY <3>3, PageIsFile
    <3> QED BY <1>2, <3>3, <3>4 DEF IsThere
  <2> QED BY <2>1, <2>2, <2>3
<1> QED BY <1>1, <1>2

LEMMA CommitKeeps ==
    ASSUME Inv, Commit
    PROVE  Inv'
<1>1. /\ Idle /\ tx.status = "projected" /\ ~ tx.rollback /\ Resting
      /\ root' = root /\ job' = job
  BY DEF Commit, Resting, Still, files, user
<1>2. ~ tx.cleaned
  BY <1>1 DEF Inv, CleanOK, Precommit
<1>3. CASE CanCommit /\ tx' = [tx EXCEPT !.status = "committed"]
  <2>1. /\ tx' \in Txs /\ tx'.effects = tx.effects /\ tx'.status = "committed"
        /\ tx'.cleaned = tx.cleaned /\ tx'.upserted = tx.upserted
    BY <1>3, TypesUnfold DEF Inv, Txs, Statuses
  <2>2. CleanOK'
    BY <1>2, <2>1 DEF CleanOK, Precommit
  <2>3. UpsertedIsQueued' /\ queued' \in BOOLEAN
    BY <1>1, <2>1 DEF Inv, UpsertedIsQueued, TypeOK, Resting
  <2>4. \A o \in plan : IsThere(o)
    BY <1>3, ProjectedIsThere DEF CanCommit
  <2> QED BY <1>1, <2>1, <2>2, <2>3, <2>4, MarkKeeps DEF Resting
<1>4. CASE Fails
  BY <1>1, <1>4, FailsKeeps
<1> QED BY <1>3, <1>4 DEF Commit

\* What the flags of the commit phase leave alone.
LEMMA FlagKeeps ==
    ASSUME Inv, Idle, Still, temporary' = temporary, job' = job, root' = root,
           tx.status = "committed", tx' \in Txs, tx'.effects = tx.effects,
           tx'.status \in {"committed", "finalized"}, queued' \in BOOLEAN, UpsertedIsQueued',
           tx'.cleaned \/ tx'.status = "finalized" => ~ root
    PROVE  Inv'
<1>1. CleanOK'
  BY DEF CleanOK, Precommit
<1> QED BY <1>1, MarkKeeps

LEMMA ValidateKeeps ==
    ASSUME Inv, Validate
    PROVE  Inv'
<1>1. /\ Idle /\ tx.status = "committed" /\ tx' = [tx EXCEPT !.validated = TRUE]
      /\ Resting /\ root' = root /\ job' = job
  BY DEF Validate, Committed, Resting, Still, files, user
<1>2. /\ tx' \in Txs /\ tx'.effects = tx.effects /\ tx'.status = "committed"
      /\ tx'.cleaned = tx.cleaned /\ tx'.upserted = tx.upserted
  BY <1>1, TypesUnfold DEF Inv, Txs
<1>3. UpsertedIsQueued' /\ queued' \in BOOLEAN /\ (tx.cleaned => ~ root)
  BY <1>1, <1>2 DEF Inv, UpsertedIsQueued, TypeOK, Resting, CleanOK
<1> QED BY <1>1, <1>2, <1>3, FlagKeeps DEF Resting

LEMMA UpsertKeeps ==
    ASSUME Inv, Upsert
    PROVE  Inv'
<1>1. /\ Idle /\ tx.status = "committed" /\ Still /\ temporary' = temporary
      /\ root' = root /\ job' = job
      /\ \/ queued' = TRUE /\ tx' = tx
         \/ queued /\ tx' = [tx EXCEPT !.upserted = TRUE] /\ queued' = queued
  BY DEF Upsert, Committed, Still, files, user
<1>2. /\ tx' \in Txs /\ tx'.effects = tx.effects /\ tx'.status = "committed"
      /\ tx'.cleaned = tx.cleaned /\ queued' \in BOOLEAN
  BY <1>1, TypesUnfold DEF Inv, Txs, TypeOK
<1>3. UpsertedIsQueued' /\ (tx.cleaned => ~ root)
  BY <1>1 DEF Inv, UpsertedIsQueued, CleanOK
<1> QED BY <1>1, <1>2, <1>3, FlagKeeps

LEMMA FinishKeeps ==
    ASSUME Inv, Finish
    PROVE  Inv'
<1>1. /\ Idle /\ tx.status = "committed" /\ tx.cleaned /\ Resting
      /\ root' = root /\ job' = job
      /\ \/ tx' = [tx EXCEPT !.completed = TRUE]
         \/ tx' = [tx EXCEPT !.status = "finalized"]
  BY DEF Finish, Committed, Resting, Still, files, user
<1>2. /\ tx' \in Txs /\ tx'.effects = tx.effects /\ tx'.status \in {"committed", "finalized"}
      /\ tx'.cleaned = tx.cleaned /\ tx'.upserted = tx.upserted
  BY <1>1, TypesUnfold DEF Inv, Txs, Statuses
<1>3. UpsertedIsQueued' /\ queued' \in BOOLEAN /\ ~ root
  BY <1>1, <1>2 DEF Inv, UpsertedIsQueued, TypeOK, Resting, CleanOK
<1> QED BY <1>1, <1>2, <1>3, FlagKeeps DEF Resting

\* The directory is purged only when it holds nothing that the user has typed.
LEMMA CleanupKeeps ==
    ASSUME Inv, Cleanup
    PROVE  Inv'
<1>1. /\ Idle /\ tx.status = "committed" /\ Resting /\ root' = root
  BY DEF Cleanup, Committed, Resting, Still, files, user
<1>2. CASE root /\ RecoveryIsOwned /\ Decides("purge", None) /\ UNCHANGED tx
  <2>1. job' = [at |-> "purge", op |-> None]
    BY <1>2 DEF Decides
  <2>2. \A o \in plan : Unowed(recovery[o])
    BY <1>2, PageIsFile DEF RecoveryIsOwned, Unowed
  <2>3. JobOK'
    BY <1>1, <1>2, <2>1, <2>2 DEF JobOK, Unowed, Resting, Still
  <2>4. temporary \in [plan -> {"none", "partial", "whole"}]
    BY DEF Inv, TypeOK
  <2> QED BY <1>1, <1>2, <2>3, <2>4, DecidesKeeps DEF ChangeNames, Resting
<1>3. CASE ~ root /\ tx' = [tx EXCEPT !.cleaned = TRUE] /\ UNCHANGED job
  <2>1. /\ tx' \in Txs /\ tx'.effects = tx.effects /\ tx'.status = "committed"
        /\ tx'.upserted = tx.upserted
    BY <1>1, <1>3, TypesUnfold DEF Inv, Txs
  <2>2. UpsertedIsQueued' /\ queued' \in BOOLEAN
    BY <1>1, <2>1 DEF Inv, UpsertedIsQueued, TypeOK, Resting
  <2> QED BY <1>1, <1>3, <2>1, <2>2, FlagKeeps DEF Resting
<1> QED BY <1>2, <1>3 DEF Cleanup

LEMMA RollingBackFacts ==
    ASSUME Inv, RollingBack
    PROVE  /\ Idle /\ tx.status \in Precommit /\ tx.rollback
           /\ \A o \in plan : Active(o) => ~ tx.cleaned
  BY DEF RollingBack, Precommit, Inv, CleanOK

LEMMA VacateKeeps ==
    ASSUME Inv, NEW o \in plan, Vacate(o)
    PROVE  Inv'
<1>1. RollingBack /\ HasDestination(o) /\ State(o) \in {"staged", "installed"}
  BY DEF Vacate, ToVacate, Placed
<1>2. Idle /\ tx.status \in Precommit /\ Active(o) /\ ~ tx.cleaned
  BY <1>1, RollingBackFacts DEF Active
<1>3. Still /\ temporary' = temporary /\ queued' = queued
  BY DEF Vacate, Still, user
<1>4. CASE Record(o, "staged") /\ UNCHANGED <<root, job>>
  BY <1>2, <1>3, <1>4, RecordKeeps DEF States, Resting
<1>5. CASE CanMove(o, mount[o.destination], recovery[o]) /\ Decides("uninstall", o)
           /\ root' = TRUE /\ UNCHANGED tx
  <2>1. job' = [at |-> "uninstall", op |-> o]
    BY <1>5 DEF Decides
  <2>2. mount[o.destination] = Page(o) /\ Page(o).of = o
    BY <1>5, PageIsFile DEF CanMove
  <2>3. JobOK'
    BY <1>1, <1>2, <1>3, <1>5, <2>1, <2>2 DEF JobOK, IsOfOr, Active, State, Still
  <2>4. temporary \in [plan -> {"none", "partial", "whole"}]
    BY DEF Inv, TypeOK
  <2> QED BY <1>2, <1>3, <1>5, <2>3, <2>4, DecidesKeeps DEF ChangeNames
<1>6. CASE Fails /\ UNCHANGED <<root, job>>
  BY <1>2, <1>3, <1>6, FailsKeeps DEF Resting
<1> QED BY <1>4, <1>5, <1>6 DEF Vacate

LEMMA RestoreKeeps ==
    ASSUME Inv, NEW o \in plan, Restore(o)
    PROVE  Inv'
<1>1. RollingBack /\ HasSource(o) /\ Active(o)
  BY DEF Restore, ToRestore, Taken, Active
<1>2. Idle /\ tx.status \in Precommit /\ ~ tx.cleaned
  BY <1>1, RollingBackFacts
<1>3. Resting /\ root' = root
  BY DEF Restore, Resting, Still, files, user
<1>4. CASE CanMove(o, mount[o.source], recovery[o]) /\ Record(o, "rolled_back") /\ UNCHANGED job
  <2>1. IsHome(o)
    BY <1>1, <1>4 DEF CanMove, IsHome
  <2> QED BY <1>1, <1>2, <1>3, <1>4, <2>1, RecordKeeps DEF States
<1>5. CASE HasMoved(o, mount[o.source], recovery[o]) /\ Decides("restore", o) /\ UNCHANGED tx
  <2>1. job' = [at |-> "restore", op |-> o]
    BY <1>5 DEF Decides
  <2>2. root
    BY <1>5, PageIsFile, RecoveryHasRoot DEF HasMoved
  <2>3. JobOK'
    BY <1>1, <1>2, <1>3, <1>5, <2>1, <2>2 DEF JobOK, Active, State, Resting, Still
  <2>4. temporary \in [plan -> {"none", "partial", "whole"}]
    BY DEF Inv, TypeOK
  <2> QED BY <1>2, <1>3, <1>5, <2>2, <2>3, <2>4, DecidesKeeps DEF ChangeNames, Resting
<1>6. CASE Fails /\ UNCHANGED job
  BY <1>2, <1>3, <1>6, FailsKeeps
<1> QED BY <1>4, <1>5, <1>6 DEF Restore

LEMMA DropKeeps ==
    ASSUME Inv, NEW o \in plan, Drop(o)
    PROVE  Inv'
<1>1. RollingBack /\ ~ HasSource(o) /\ Active(o)
  BY DEF Drop, ToDrop, IsFirst, Built, Active
<1>2. Idle /\ tx.status \in Precommit /\ ~ tx.cleaned
  BY <1>1, RollingBackFacts
<1>3. Resting /\ root' = root
  BY DEF Drop, Resting, Still, files, user
<1>4. CASE mount[o.destination] = None /\ Record(o, "rolled_back") /\ UNCHANGED job
  <2>1. IsHome(o)
    BY <1>1, <1>4, PageIsFile DEF IsHome
  <2> QED BY <1>1, <1>2, <1>3, <1>4, <2>1, RecordKeeps DEF States
<1>5. CASE HasPayload(o) /\ Decides("drop", o) /\ UNCHANGED tx
  <2>1. job' = [at |-> "drop", op |-> o]
    BY <1>5 DEF Decides
  <2>2. root
    BY <1>5, PageIsFile, RecoveryHasRoot DEF HasPayload
  <2>3. Unowed(recovery[o])
    BY <1>5, PageIsFile DEF HasPayload, Unowed
  <2>4. JobOK'
    BY <1>1, <1>2, <1>3, <1>5, <2>1, <2>2, <2>3 DEF JobOK, Unowed, Active, State, Resting, Still
  <2>5. temporary \in [plan -> {"none", "partial", "whole"}]
    BY DEF Inv, TypeOK
  <2> QED BY <1>2, <1>3, <1>5, <2>2, <2>4, <2>5, DecidesKeeps DEF ChangeNames, Resting
<1>6. CASE Fails /\ UNCHANGED job
  BY <1>2, <1>3, <1>6, FailsKeeps
<1> QED BY <1>4, <1>5, <1>6 DEF Drop

LEMMA SweepKeeps ==
    ASSUME Inv, Sweep
    PROVE  Inv'
<1>1. RollingBack /\ Still /\ temporary' = temporary /\ queued' = queued /\ job' = job
  BY DEF Sweep, Still, user
<1>2. Idle /\ tx.status \in Precommit
  BY <1>1, RollingBackFacts
<1>3. CASE (\A o \in plan : HasNoPayload(o)) /\ root' = FALSE /\ UNCHANGED tx
  <2>1. \A o \in plan : HasNoPayload(o)'
    BY <1>1, <1>3 DEF HasNoPayload, Still
  <2>2. PagesOK'
    BY <1>1, <1>3 DEF Inv, PagesOK, Still, Active, State, IsHome, IsThere, Untouched
  <2>3. CleanOK'
    BY <1>1, <1>3 DEF Inv, CleanOK, Still, Active, State
  <2>4. UpsertedIsQueued'
    BY <1>1, <1>3 DEF Inv, UpsertedIsQueued
  <2>5. /\ disturbed' \in BOOLEAN /\ queued' \in BOOLEAN /\ root' \in BOOLEAN /\ tx' \in Txs
        /\ temporary' \in [plan -> {"none", "partial", "whole"}]
        /\ spent' \in [removals : 0..MaxRemovals, drifts : 0..MaxDrifts, crashes : 0..MaxCrashes]
    BY <1>1, <1>3 DEF Inv, TypeOK, Still, Txs
  <2> QED BY <1>1, <1>2, <2>1, <2>2, <2>3, <2>4, <2>5, IdleFacts, QuietKeeps DEF Still
<1>4. CASE Fails /\ UNCHANGED root
  BY <1>1, <1>2, <1>4, FailsKeeps DEF Resting
<1> QED BY <1>3, <1>4 DEF Sweep

\* When nothing is left to take back, no operation is active.
LEMMA SweptIsHome ==
    ASSUME ToSweep
    PROVE  \A o \in plan : ~ Active(o)
  BY DEF ToSweep, Taken, Built, Active

LEMMA AbortKeeps ==
    ASSUME Inv, Abort
    PROVE  Inv'
<1>1. /\ RollingBack /\ ToSweep /\ ~ root /\ Resting /\ root' = root /\ job' = job
      /\ \/ tx' = [tx EXCEPT !.cleaned = TRUE]
         \/ tx' = [tx EXCEPT !.status = "aborted"]
  BY DEF Abort, Resting, Still, files, user
<1>2. Idle /\ tx.status \in Precommit /\ tx.rollback /\ \A o \in plan : ~ Active(o)
  BY <1>1, RollingBackFacts, SweptIsHome
<1>3. /\ tx' \in Txs /\ tx'.effects = tx.effects /\ tx'.upserted = tx.upserted
      /\ tx'.rollback = tx.rollback
      /\ tx'.status \in Precommit \cup {"aborted"}
  BY <1>1, <1>2, TypesUnfold DEF Inv, Txs, Statuses
<1>4. CleanOK'
  BY <1>1, <1>2, <1>3 DEF CleanOK, Active, State, Resting, Still, Precommit
<1>5. UpsertedIsQueued' /\ queued' \in BOOLEAN
  BY <1>1, <1>3 DEF Inv, UpsertedIsQueued, TypeOK, Resting
<1>6. tx'.status \notin {"committed", "finalized"}
  BY <1>3 DEF Precommit
<1> QED BY <1>1, <1>2, <1>3, <1>4, <1>5, <1>6, MarkKeeps DEF Resting

LEMMA DriftKeeps ==
    ASSUME Inv, Drift
    PROVE  Inv'
<1>1. /\ plan' = plan /\ mount' = mount /\ recovery' = recovery /\ temporary' = temporary
      /\ root' = root /\ tx' = tx /\ job' = job /\ queued' = queued /\ shown' = shown
      /\ typed' = typed /\ owed' = owed /\ touched' = touched /\ disturbed' = disturbed
      /\ spent.drifts < MaxDrifts /\ spent' = [spent EXCEPT !.drifts = @ + 1]
  BY DEF Drift, Spend, files, user
<1>2. spent' \in [removals : 0..MaxRemovals, drifts : 0..MaxDrifts, crashes : 0..MaxCrashes]
  BY <1>1, DiscoveryAssumption DEF Inv, TypeOK
<1>3. JobOK' /\ PagesOK' /\ CleanOK' /\ UpsertedIsQueued'
  BY <1>1 DEF Inv, JobOK, PagesOK, CleanOK, UpsertedIsQueued, Active, State, Unowed,
              IsHome, IsThere, Untouched
<1>4. /\ disturbed' \in BOOLEAN /\ queued' \in BOOLEAN /\ root' \in BOOLEAN
      /\ tx' \in Txs /\ job' \in Jobs
      /\ temporary' \in [plan -> {"none", "partial", "whole"}]
  BY <1>1, TypesUnfold DEF Inv, TypeOK
<1>5. \A o \in plan : ~ root' => HasNoPayload(o)'
  BY <1>1 DEF Inv, TypeOK, HasNoPayload
<1> QED BY <1>1, <1>2, <1>3, <1>4, <1>5, QuietKeeps

-----------------------------------------------------------------------------
(* Changes of the files, and the crash that takes one back *)

LEMMA NoJobIsOK ==
    ASSUME job' = NoJob
    PROVE  JobOK' /\ job' \in Jobs
  BY DEF NoJob, JobOK, ChangeNames, Jobs

LEMMA CrashKeeps ==
    ASSUME Inv, Crash
    PROVE  Inv'
<1>1. /\ plan' = plan /\ mount' = mount /\ recovery' = recovery /\ temporary' = temporary
      /\ root' = root /\ tx' = tx /\ job' = NoJob /\ queued' = queued /\ shown' = shown
      /\ typed' = typed /\ owed' = owed /\ touched' = touched
      /\ disturbed' = (disturbed \/ job.at = "write")
      /\ spent.crashes < MaxCrashes /\ spent' = [spent EXCEPT !.crashes = @ + 1]
  BY DEF Crash, Spend, files, user
<1>2. spent' \in [removals : 0..MaxRemovals, drifts : 0..MaxDrifts, crashes : 0..MaxCrashes]
  BY <1>1, DiscoveryAssumption DEF Inv, TypeOK
<1>3. PagesOK' /\ CleanOK' /\ UpsertedIsQueued'
  BY <1>1 DEF Inv, PagesOK, CleanOK, UpsertedIsQueued, Active, State, IsHome, IsThere, Untouched
<1>4. disturbed' \in BOOLEAN
  BY <1>1, Zenon DEF Inv, TypeOK
<1>5. /\ queued' \in BOOLEAN /\ root' \in BOOLEAN /\ tx' \in Txs
      /\ temporary' \in [plan -> {"none", "partial", "whole"}]
  BY <1>1, TypesUnfold DEF Inv, TypeOK
<1>6. \A o \in plan : ~ root' => HasNoPayload(o)'
  BY <1>1 DEF Inv, TypeOK, HasNoPayload
<1> QED BY <1>1, <1>2, <1>3, <1>4, <1>5, <1>6, NoJobIsOK, QuietKeeps

\* A change of the files that was decided on before the commit has a recovery directory
\* and an active operation.
LEMMA ChangeFacts ==
    ASSUME Inv, job.at \in ChangeNames \ {"purge"}
    PROVE  /\ job.op \in plan /\ root /\ tx.status \in Precommit /\ Active(job.op)
           /\ ~ tx.cleaned
  BY DEF Inv, JobOK, CleanOK

\* What a change before the commit has to keep.
LEMMA ChangeKeeps ==
    ASSUME Inv, job.at \in ChangeNames \ {"purge"}, job' = NoJob,
           plan' = plan, root' = root, queued' = queued, typed' = typed, owed' = owed,
           touched' = touched, disturbed' = disturbed, spent' = spent,
           tx' = tx \/ Fails,
           mount' \in [Paths(plan) -> Contents], recovery' \in [plan -> Contents],
           temporary' \in [plan -> {"none", "partial", "whole"}], shown' \subseteq plan,
           \A p \in Paths(plan) : IsTyped(mount'[p]), \A x \in plan : IsTyped(recovery'[x]),
           \A x \in plan : IsOfOr(recovery'[x], x),
           \A x \in plan : ~ Active(x) /\ IsHome(x) => IsHome(x)',
           EditsAreKept'
    PROVE  Inv'
<1>1. Paths(plan)' = Paths(plan) /\ Contents' = Contents /\ Txs' = Txs /\ Jobs' = Jobs
  BY DEF Paths, Contents, Txs, Jobs
<1>2. tx \in Txs
  BY TypesUnfold DEF Inv
<1>3. /\ tx' \in Txs /\ tx'.effects = tx.effects /\ tx'.cleaned = tx.cleaned
      /\ tx'.upserted = tx.upserted /\ tx'.status \in Precommit
  <2>1. CASE tx' = tx
    BY <1>2, <2>1, ChangeFacts
  <2>2. CASE Fails
    BY <1>2, <2>2, FailsFacts, ChangeFacts DEF Txs, Precommit
  <2> QED BY <2>1, <2>2
<1>4. TypeOK'
  <2>1. \A o \in plan : ~ root' => HasNoPayload(o)'
    BY ChangeFacts
  <2>2. job' \in Jobs
    BY NoJobIsOK
  <2> QED BY <1>1, <1>3, <2>1, <2>2 DEF Inv, TypeOK, Txs, Jobs
<1>5. TypedOK'
  BY <1>1 DEF TypedOK, IsTyped
<1>6. PagesOK'
  <2>1. \A x \in plan : Untouched(x)' /\ ~ Active(x)' => IsHome(x)'
    BY <1>3 DEF Inv, PagesOK, Untouched, Active, State
  <2>2. tx'.status \notin {"reserved", "aborted", "committed", "finalized"}
    BY <1>3 DEF Precommit
  <2>3. \A x \in plan : IsOfOr(recovery[x], x)'
    BY DEF IsOfOr
  <2> QED BY <2>1, <2>2, <2>3 DEF PagesOK
<1>7. CleanOK'
  BY <1>3, ChangeFacts DEF CleanOK, Precommit
<1>8. UpsertedIsQueued'
  BY <1>3 DEF Inv, UpsertedIsQueued
<1> QED BY <1>4, <1>5, <1>6, <1>7, <1>8, NoJobIsOK DEF Inv

\* What no change of the files touches.
Unchanged == /\ plan' = plan /\ root' = root /\ queued' = queued /\ typed' = typed
             /\ owed' = owed /\ touched' = touched /\ disturbed' = disturbed /\ spent' = spent

\* A page on its way out of the mount belongs to the operation that moves it, so a page
\* that is home stays there.
LEMMA MovesOutKeeps ==
    ASSUME Inv, job.at \in ChangeNames \ {"purge"}, job' = NoJob, Unchanged,
           temporary' = temporary, shown' = shown, tx' = tx \/ Fails,
           NEW p \in Paths(plan), MovesOut(job.op, p), IsOfOr(mount[p], job.op)
    PROVE  Inv'
<1> DEFINE o == job.op
<1>1. o \in plan /\ Active(o)
  BY ChangeFacts
<1>2. /\ mount \in [Paths(plan) -> Contents] /\ recovery \in [plan -> Contents]
      /\ None \in Contents /\ mount[p] # None /\ recovery[o] = None
      /\ mount' = [mount EXCEPT ![p] = None] /\ recovery' = [recovery EXCEPT ![o] = mount[p]]
  BY FileFacts, TypesUnfold DEF Inv, MovesOut
<1>3. /\ mount' \in [Paths(plan) -> Contents] /\ recovery' \in [plan -> Contents]
      /\ mount'[p] = None /\ recovery'[o] = mount[p]
      /\ \A q \in Paths(plan) : q # p => mount'[q] = mount[q]
      /\ \A x \in plan : x # o => recovery'[x] = recovery[x]
  BY <1>1, <1>2
<1>4. /\ \A q \in Paths(plan) : IsTyped(mount'[q])
      /\ \A x \in plan : IsTyped(recovery'[x])
  BY <1>3 DEF Inv, TypedOK, IsTyped, Unchanged
<1>5. \A x \in plan : IsOfOr(recovery'[x], x)
  BY <1>3 DEF Inv, PagesOK, IsOfOr
<1>6. \A x \in plan : ~ Active(x) /\ IsHome(x) => IsHome(x)'
  <2> SUFFICES ASSUME NEW x \in plan, ~ Active(x), IsHome(x)
               PROVE  IsHome(x)'
    OBVIOUS
  <2>1. x # o /\ Page(x) # None /\ Page(x).of = x /\ x # None
    BY <1>1, PageIsFile, PlanFacts, TypesUnfold DEF Inv
  <2>2. mount[p] # Page(x)
    BY <1>2, <2>1 DEF IsOfOr
  <2>3. /\ HasSource(x) => x.source \in Paths(plan)
        /\ HasDestination(x) => x.destination \in Paths(plan)
        /\ HasSource(x) \/ HasDestination(x)
    BY PlanFacts, TypesUnfold DEF Inv
  <2> QED BY <1>3, <2>1, <2>2, <2>3 DEF IsHome
<1>7. EditsAreKept'
  <2>1. Paths(plan)' = Paths(plan)
    BY DEF Paths, Unchanged
  <2>2. \A e : InRecovery(e) => InRecovery(e)'
    BY <1>2, <1>3 DEF InRecovery, Unchanged
  <2>3. \A e : InMount(e) => InMount(e)' \/ InRecovery(e)'
    BY <1>1, <1>2, <1>3, <2>1 DEF InMount, InRecovery, Unchanged
  <2> QED BY <2>2, <2>3 DEF Inv, EditsAreKept, Unchanged
<1>8. temporary' \in [plan -> {"none", "partial", "whole"}] /\ shown' \subseteq plan
  BY DEF Inv, TypeOK
<1> QED BY <1>3, <1>4, <1>5, <1>6, <1>7, <1>8, ChangeKeeps DEF Unchanged

\* A page goes into the mount only where nothing is, so again none that is home leaves.
LEMMA MovesInKeeps ==
    ASSUME Inv, job.at \in ChangeNames \ {"purge"}, job' = NoJob, Unchanged,
           temporary' = temporary, shown' \subseteq plan, tx' = tx \/ Fails,
           NEW p \in Paths(plan), MovesIn(job.op, p)
    PROVE  Inv'
<1> DEFINE o == job.op
<1>1. o \in plan /\ Active(o)
  BY ChangeFacts
<1>2. /\ mount \in [Paths(plan) -> Contents] /\ recovery \in [plan -> Contents]
      /\ None \in Contents /\ mount[p] = None /\ recovery[o] # None
      /\ mount' = [mount EXCEPT ![p] = recovery[o]] /\ recovery' = [recovery EXCEPT ![o] = None]
  BY FileFacts, TypesUnfold DEF Inv, MovesIn
<1>3. /\ mount' \in [Paths(plan) -> Contents] /\ recovery' \in [plan -> Contents]
      /\ mount'[p] = recovery[o] /\ recovery'[o] = None
      /\ \A q \in Paths(plan) : q # p => mount'[q] = mount[q]
      /\ \A x \in plan : x # o => recovery'[x] = recovery[x]
  BY <1>1, <1>2
<1>4. /\ \A q \in Paths(plan) : IsTyped(mount'[q])
      /\ \A x \in plan : IsTyped(recovery'[x])
  BY <1>1, <1>3 DEF Inv, TypedOK, IsTyped, Unchanged
<1>5. \A x \in plan : IsOfOr(recovery'[x], x)
  BY <1>3 DEF Inv, PagesOK, IsOfOr
<1>6. \A x \in plan : ~ Active(x) /\ IsHome(x) => IsHome(x)'
  <2> SUFFICES ASSUME NEW x \in plan, ~ Active(x), IsHome(x)
               PROVE  IsHome(x)'
    OBVIOUS
  <2>1. x # o /\ Page(x) # None /\ Page(x).of = x /\ x # None
    BY <1>1, PageIsFile, PlanFacts, TypesUnfold DEF Inv
  <2>2. recovery[o] # Page(x)
    BY <1>1, <1>2, <2>1 DEF Inv, PagesOK, IsOfOr
  <2>3. /\ HasSource(x) => x.source \in Paths(plan)
        /\ HasDestination(x) => x.destination \in Paths(plan)
        /\ HasSource(x) \/ HasDestination(x)
    BY PlanFacts, TypesUnfold DEF Inv
  <2> QED BY <1>2, <1>3, <2>1, <2>2, <2>3 DEF IsHome
<1>7. EditsAreKept'
  <2>1. Paths(plan)' = Paths(plan)
    BY DEF Paths, Unchanged
  <2>2. \A e : InMount(e) => InMount(e)'
    BY <1>2, <1>3, <2>1 DEF InMount
  <2>3. \A e : InRecovery(e) => InMount(e)' \/ InRecovery(e)'
    BY <1>1, <1>2, <1>3, <2>1 DEF InMount, InRecovery, Unchanged
  <2> QED BY <2>2, <2>3 DEF Inv, EditsAreKept, Unchanged
<1>8. temporary' \in [plan -> {"none", "partial", "whole"}]
  BY DEF Inv, TypeOK
<1> QED BY <1>3, <1>4, <1>5, <1>6, <1>7, <1>8, ChangeKeeps DEF Unchanged

\* Somebody was faster: only the failure is recorded.
LEMMA ForestalledKeeps ==
    ASSUME Inv, job.at \in ChangeNames \ {"purge"}, job' = NoJob, Unchanged, Fails,
           mount' = mount, recovery' = recovery, temporary' = temporary, shown' = shown
    PROVE  Inv'
<1>1. /\ mount' \in [Paths(plan) -> Contents] /\ recovery' \in [plan -> Contents]
      /\ temporary' \in [plan -> {"none", "partial", "whole"}] /\ shown' \subseteq plan
  BY DEF Inv, TypeOK
<1>2. /\ \A p \in Paths(plan) : IsTyped(mount'[p])
      /\ \A x \in plan : IsTyped(recovery'[x]) /\ IsOfOr(recovery'[x], x)
  BY DEF Inv, TypedOK, IsTyped, PagesOK, IsOfOr, Unchanged
<1>3. \A x \in plan : IsHome(x) => IsHome(x)'
  BY DEF IsHome
<1>4. EditsAreKept'
  BY DEF Inv, EditsAreKept, InMount, InRecovery, Paths, Unchanged
<1> QED BY <1>1, <1>2, <1>3, <1>4, ChangeKeeps DEF Unchanged

LEMMA StageSourceKeeps ==
    ASSUME Inv, StageSource
    PROVE  Inv'
<1> DEFINE o == job.op
<1>1. /\ job.at = "stage" /\ job.at \in ChangeNames \ {"purge"} /\ job' = NoJob
      /\ Unchanged /\ temporary' = temporary /\ shown' = shown
  BY DEF StageSource, Changes, ChangeNames, Unchanged, user
<1>2. o.source \in Paths(plan) /\ IsOfOr(mount[o.source], o)
  BY <1>1, ChangeFacts, PlanFacts, TypesUnfold DEF Inv, JobOK
<1>3. CASE MovesOut(o, o.source) /\ (tx' = tx \/ Fails)
  BY <1>1, <1>2, <1>3, MovesOutKeeps
<1>4. CASE Fails /\ UNCHANGED <<mount, recovery>>
  BY <1>1, <1>4, ForestalledKeeps
<1> QED BY <1>3, <1>4 DEF StageSource

LEMMA UninstallDestinationKeeps ==
    ASSUME Inv, UninstallDestination
    PROVE  Inv'
<1> DEFINE o == job.op
<1>1. /\ job.at = "uninstall" /\ job.at \in ChangeNames \ {"purge"} /\ job' = NoJob
      /\ Unchanged /\ temporary' = temporary /\ shown' = shown
  BY DEF UninstallDestination, Changes, ChangeNames, Unchanged, user
<1>2. o.destination \in Paths(plan) /\ IsOfOr(mount[o.destination], o)
  BY <1>1, ChangeFacts, PlanFacts, TypesUnfold DEF Inv, JobOK
<1>3. CASE MovesOut(o, o.destination) /\ tx' = tx
  BY <1>1, <1>2, <1>3, MovesOutKeeps
<1>4. CASE Fails /\ UNCHANGED <<mount, recovery>>
  BY <1>1, <1>4, ForestalledKeeps
<1> QED BY <1>3, <1>4 DEF UninstallDestination

LEMMA InstallDestinationKeeps ==
    ASSUME Inv, InstallDestination
    PROVE  Inv'
<1> DEFINE o == job.op
<1>1. /\ job.at = "install" /\ job.at \in ChangeNames \ {"purge"} /\ job' = NoJob
      /\ Unchanged /\ temporary' = temporary
  BY DEF InstallDestination, Changes, ChangeNames, Unchanged, user
<1>2. o \in plan /\ o.destination \in Paths(plan)
  BY <1>1, ChangeFacts, PlanFacts, TypesUnfold DEF Inv, JobOK
<1>3. CASE MovesIn(o, o.destination) /\ shown' = shown \cup {o} /\ (tx' = tx \/ Fails)
  <2>1. shown' \subseteq plan
    BY <1>2, <1>3 DEF Inv, TypeOK
  <2> QED BY <1>1, <1>2, <1>3, <2>1, MovesInKeeps
<1>4. CASE Fails /\ UNCHANGED <<mount, recovery, shown>>
  BY <1>1, <1>4, ForestalledKeeps
<1> QED BY <1>3, <1>4 DEF InstallDestination

LEMMA RestoreSourceKeeps ==
    ASSUME Inv, RestoreSource
    PROVE  Inv'
<1> DEFINE o == job.op
<1>1. /\ job.at = "restore" /\ job.at \in ChangeNames \ {"purge"} /\ job' = NoJob
      /\ Unchanged /\ temporary' = temporary /\ shown' = shown
  BY DEF RestoreSource, Changes, ChangeNames, Unchanged, user
<1>2. o.source \in Paths(plan) /\ shown \subseteq plan
  BY <1>1, ChangeFacts, PlanFacts, TypesUnfold DEF Inv, JobOK, TypeOK
<1>3. CASE MovesIn(o, o.source) /\ tx' = tx
  BY <1>1, <1>2, <1>3, MovesInKeeps
<1>4. CASE Fails /\ UNCHANGED <<mount, recovery>>
  BY <1>1, <1>4, ForestalledKeeps
<1> QED BY <1>3, <1>4 DEF RestoreSource

LEMMA FinishWritingKeeps ==
    ASSUME Inv, FinishWriting
    PROVE  Inv'
<1>1. /\ job.at = "write" /\ job' = [at |-> "publish", op |-> job.op]
      /\ temporary' = [temporary EXCEPT ![job.op] = "whole"]
      /\ plan' = plan /\ mount' = mount /\ recovery' = recovery /\ root' = root /\ tx' = tx
      /\ queued' = queued /\ shown' = shown /\ typed' = typed /\ owed' = owed
      /\ touched' = touched /\ disturbed' = disturbed /\ spent' = spent
  BY DEF FinishWriting, Decides, user
<1>2. job.op \in plan /\ root /\ tx.status \in Precommit /\ Active(job.op) /\ ~ tx.cleaned
  BY <1>1, ChangeFacts DEF ChangeNames
<1>3. JobOK'
  BY <1>1, <1>2 DEF Inv, JobOK, ChangeNames, Active, State
<1>4. PagesOK' /\ CleanOK' /\ UpsertedIsQueued'
  BY <1>1 DEF Inv, PagesOK, CleanOK, UpsertedIsQueued, Active, State, IsHome, IsThere, Untouched
<1>5. /\ disturbed' \in BOOLEAN /\ queued' \in BOOLEAN /\ root' \in BOOLEAN /\ tx' \in Txs
      /\ temporary' \in [plan -> {"none", "partial", "whole"}]
      /\ spent' \in [removals : 0..MaxRemovals, drifts : 0..MaxDrifts, crashes : 0..MaxCrashes]
  BY <1>1, TypesUnfold DEF Inv, TypeOK
<1>6. job' \in Jobs
  BY <1>1, <1>2 DEF Jobs, ChangeNames
<1>7. \A o \in plan : ~ root' => HasNoPayload(o)'
  BY <1>1, <1>2
<1> QED BY <1>1, <1>3, <1>4, <1>5, <1>6, <1>7, QuietKeeps

\* A payload takes a place that is empty.
LEMMA PublishPayloadKeeps ==
    ASSUME Inv, PublishPayload
    PROVE  Inv'
<1> DEFINE o == job.op
<1>1. /\ job.at = "publish" /\ job.at \in ChangeNames \ {"purge"} /\ job' = NoJob
      /\ Unchanged /\ mount' = mount /\ shown' = shown /\ tx' = tx
      /\ temporary' = [temporary EXCEPT ![o] = "none"]
      /\ recovery' = [recovery EXCEPT ![o] = Page(o)]
  BY DEF PublishPayload, Changes, ChangeNames, Unchanged, user
<1>2. o \in plan /\ recovery[o] = None
  BY <1>1, ChangeFacts DEF Inv, JobOK
<1>3. Page(o) \in Contents /\ Page(o).of = o /\ Page(o).edits = {}
  BY <1>2, FileFacts
<1>4. /\ recovery' \in [plan -> Contents] /\ recovery'[o] = Page(o)
      /\ \A x \in plan : x # o => recovery'[x] = recovery[x]
      /\ mount' \in [Paths(plan) -> Contents] /\ shown' \subseteq plan
      /\ temporary' \in [plan -> {"none", "partial", "whole"}]
  BY <1>1, <1>2, <1>3 DEF Inv, TypeOK
<1>5. /\ \A p \in Paths(plan) : IsTyped(mount'[p])
      /\ \A x \in plan : IsTyped(recovery'[x])
  BY <1>1, <1>3, <1>4 DEF Inv, TypedOK, IsTyped
<1>6. \A x \in plan : IsOfOr(recovery'[x], x)
  BY <1>3, <1>4 DEF Inv, PagesOK, IsOfOr
<1>7. \A x \in plan : IsHome(x) => IsHome(x)'
  BY <1>1 DEF IsHome
<1>8. EditsAreKept'
  <2>1. \A e : InMount(e) => InMount(e)'
    BY <1>1 DEF InMount, Paths, Unchanged
  <2>2. \A e : InRecovery(e) => InRecovery(e)'
    BY <1>1, <1>2, <1>4 DEF InRecovery, Unchanged
  <2> QED BY <1>1, <2>1, <2>2 DEF Inv, EditsAreKept, Unchanged
<1> QED BY <1>1, <1>4, <1>5, <1>6, <1>7, <1>8, ChangeKeeps DEF Unchanged

\* Only a payload that nobody has typed into is dropped.
LEMMA DropPayloadKeeps ==
    ASSUME Inv, DropPayload
    PROVE  Inv'
<1> DEFINE o == job.op
<1>1. /\ job.at = "drop" /\ job.at \in ChangeNames \ {"purge"} /\ job' = NoJob
      /\ Unchanged /\ mount' = mount /\ shown' = shown /\ tx' = tx
      /\ \/ recovery' = [recovery EXCEPT ![o] = None] /\ temporary' = temporary
         \/ recovery' = recovery /\ temporary' = [temporary EXCEPT ![o] = "none"]
  BY DEF DropPayload, Changes, ChangeNames, Unchanged, user
<1>2. o \in plan /\ Unowed(recovery[o]) /\ None \in Contents
  BY <1>1, ChangeFacts, FileFacts DEF Inv, JobOK
<1>3. /\ recovery' \in [plan -> Contents]
      /\ \A x \in plan : recovery'[x] = recovery[x] \/ (x = o /\ recovery'[x] = None)
  BY <1>1, <1>2 DEF Inv, TypeOK
<1>4. /\ mount' \in [Paths(plan) -> Contents] /\ shown' \subseteq plan
      /\ temporary' \in [plan -> {"none", "partial", "whole"}]
  BY <1>1, <1>2 DEF Inv, TypeOK
<1>5. /\ \A p \in Paths(plan) : IsTyped(mount'[p])
      /\ \A x \in plan : IsTyped(recovery'[x])
  BY <1>1, <1>3 DEF Inv, TypedOK, IsTyped
<1>6. \A x \in plan : IsOfOr(recovery'[x], x)
  BY <1>3 DEF Inv, PagesOK, IsOfOr
<1>7. \A x \in plan : IsHome(x) => IsHome(x)'
  BY <1>1 DEF IsHome
<1>8. EditsAreKept'
  <2>1. \A e : InMount(e) => InMount(e)'
    BY <1>1 DEF InMount, Paths, Unchanged
  <2>2. \A e \in owed : InRecovery(e) => InRecovery(e)'
    BY <1>1, <1>2, <1>3 DEF InRecovery, Unowed, Unchanged
  <2> QED BY <1>1, <2>1, <2>2 DEF Inv, EditsAreKept, Unchanged
<1> QED BY <1>1, <1>3, <1>4, <1>5, <1>6, <1>7, <1>8, ChangeKeeps DEF Unchanged

\* The directory goes with nothing in it that the user has typed.
LEMMA PurgeRecoveryKeeps ==
    ASSUME Inv, PurgeRecovery
    PROVE  Inv'
<1>1. /\ job.at = "purge" /\ job' = NoJob /\ Changes("purge")
      /\ plan' = plan /\ mount' = mount /\ tx' = tx /\ queued' = queued /\ shown' = shown
      /\ typed' = typed /\ owed' = owed /\ touched' = touched /\ disturbed' = disturbed
      /\ spent' = spent /\ root' = FALSE
      /\ recovery' = [o \in plan |-> None] /\ temporary' = [o \in plan |-> "none"]
  BY DEF PurgeRecovery, Changes, user
<1>2. tx.status = "committed" /\ \A o \in plan : Unowed(recovery[o])
  BY <1>1 DEF Inv, JobOK
<1>3. Paths(plan)' = Paths(plan) /\ Contents' = Contents
  BY <1>1 DEF Paths, Contents
<1>4. TypeOK'
  <2>1. recovery' \in [plan -> Contents] /\ temporary' \in [plan -> {"none", "partial", "whole"}]
    BY <1>1, FileFacts
  <2>2. \A o \in plan : ~ root' => HasNoPayload(o)'
    BY <1>1 DEF HasNoPayload
  <2>3. job' \in Jobs'
    BY <1>1, NoJobIsOK DEF Jobs
  <2> QED BY <1>1, <1>3, <2>1, <2>2, <2>3 DEF Inv, TypeOK, Jobs
<1>5. TypedOK'
  BY <1>1, <1>3 DEF Inv, TypedOK, IsTyped
<1>6. PagesOK'
  BY <1>1, <1>2 DEF Inv, PagesOK, IsOfOr, Active, State, IsHome, IsThere, Untouched
<1>7. CleanOK'
  BY <1>1, <1>2 DEF CleanOK, Precommit
<1>8. EditsAreKept'
  <2>1. \A e : InMount(e) => InMount(e)'
    BY <1>1, <1>3 DEF InMount
  <2>2. \A e \in owed : ~ InRecovery(e)
    BY <1>2 DEF InRecovery, Unowed
  <2> QED BY <1>1, <2>1, <2>2 DEF Inv, EditsAreKept
<1>9. UpsertedIsQueued'
  BY <1>1 DEF Inv, UpsertedIsQueued
<1> QED BY <1>1, <1>4, <1>5, <1>6, <1>7, <1>8, <1>9, NoJobIsOK DEF Inv

-----------------------------------------------------------------------------
(* The specification *)

LEMMA InitInv ==
    ASSUME Init
    PROVE  Inv
<1>1. plan \in Plans
  BY DEF Init
<1> DEFINE Home(p) == IF \E o \in plan : o.source = p
                      THEN Page(CHOOSE o \in plan : o.source = p) ELSE None
<1>2. /\ mount = [p \in Paths(plan) |-> Home(p)]
      /\ recovery = [o \in plan |-> None] /\ temporary = [o \in plan |-> "none"]
      /\ root = FALSE /\ job = NoJob /\ queued = FALSE /\ shown = {}
      /\ typed = {} /\ owed = {} /\ touched = {} /\ disturbed = FALSE
      /\ tx = [status |-> "reserved", effects |-> [o \in plan |-> "none"], rollback |-> FALSE,
               validated |-> FALSE, upserted |-> FALSE, cleaned |-> FALSE, completed |-> FALSE]
      /\ spent = [removals |-> 0, drifts |-> 0, crashes |-> 0]
  BY DEF Init
<1>3. \A p \in Paths(plan) :
        \/ mount[p] = None /\ \A o \in plan : o.source # p
        \/ \E o \in plan : o.source = p /\ mount[p] = Page(o)
  <2> SUFFICES ASSUME NEW p \in Paths(plan)
               PROVE  \/ mount[p] = None /\ \A o \in plan : o.source # p
                      \/ \E o \in plan : o.source = p /\ mount[p] = Page(o)
    OBVIOUS
  <2>1. CASE \E o \in plan : o.source = p
    <3> DEFINE c == CHOOSE o \in plan : o.source = p
    <3>1. c \in plan /\ c.source = p
      BY <2>1
    <3>2. mount[p] = Page(c)
      BY <1>2, <2>1
    <3> QED BY <3>1, <3>2
  <2>2. CASE ~ \E o \in plan : o.source = p
    BY <1>2, <2>2
  <2> QED BY <2>1, <2>2
<1>4. \A o \in plan : Page(o) \in Contents /\ Page(o).of = o /\ Page(o).edits = {}
  BY FileFacts
<1>5. TypeOK
  <2>1. mount \in [Paths(plan) -> Contents] /\ recovery \in [plan -> Contents]
    BY <1>2, <1>3, <1>4, FileFacts
  <2>2. tx \in Txs
    BY <1>2 DEF Txs, Statuses, States
  <2>3. job \in Jobs
    BY <1>2 DEF NoJob, Jobs
  <2>4. spent \in [removals : 0..MaxRemovals, drifts : 0..MaxDrifts, crashes : 0..MaxCrashes]
    BY <1>2, DiscoveryAssumption
  <2>5. \A o \in plan : HasNoPayload(o)
    BY <1>2 DEF HasNoPayload
  <2> QED BY <1>1, <1>2, <2>1, <2>2, <2>3, <2>4, <2>5 DEF TypeOK, Txs, Jobs
<1>6. TypedOK
  <2>1. \A p \in Paths(plan) : IsTyped(mount[p])
    BY <1>3, <1>4 DEF IsTyped
  <2>2. \A o \in plan : IsTyped(recovery[o])
    BY <1>2 DEF IsTyped
  <2> QED BY <2>1, <2>2 DEF TypedOK
<1>7. JobOK
  BY <1>2 DEF JobOK, NoJob, ChangeNames
<1>8. PagesOK
  <2>1. \A o \in plan : IsHome(o)
    <3> SUFFICES ASSUME NEW o \in plan
                 PROVE  IsHome(o)
      OBVIOUS
    <3>1. Page(o).of = o /\ Page(o) # None /\ o # None
      BY <1>1, <1>4, FileFacts, PlanFacts
    <3>2. WellFormed(plan)
      BY <1>1, DiscoveryAssumption
    <3>3. CASE HasSource(o)
      <4>1. o.source \in Paths(plan) /\ o.source \in Nat
        BY <1>1, <3>2, <3>3, PlanFacts DEF WellFormed
      <4>2. PICK x \in plan : x.source = o.source /\ mount[o.source] = Page(x)
        BY <1>3, <4>1
      <4>3. HasSource(x)
        BY <3>2, <4>1, <4>2 DEF WellFormed
      <4>4. x = o
        BY <1>1, <3>3, <4>2, <4>3, PlanFacts
      <4> QED BY <3>3, <4>2, <4>4 DEF IsHome
    <3>4. CASE ~ HasSource(o)
      <4>1. HasDestination(o) /\ o.destination \in Paths(plan) /\ o.destination \in Nat
        BY <1>1, <3>2, <3>4, PlanFacts DEF WellFormed
      <4>2. mount[o.destination] # Page(o)
        <5>1. CASE mount[o.destination] = None
          BY <3>1, <5>1
        <5>2. CASE \E x \in plan : x.source = o.destination /\ mount[o.destination] = Page(x)
          <6>1. PICK x \in plan : x.source = o.destination /\ mount[o.destination] = Page(x)
            BY <5>2
          <6>2. HasSource(x)
            BY <3>2, <4>1, <6>1 DEF WellFormed
          <6>3. Page(x).of # Page(o).of
            BY <1>4, <3>4, <6>2
          <6> QED BY <6>1, <6>3
        <5> QED BY <1>3, <4>1, <5>1, <5>2
      <4> QED BY <3>4, <4>2 DEF IsHome
    <3> QED BY <3>3, <3>4
  <2>2. \A o \in plan : ~ Active(o)
    BY <1>2 DEF Active, State
  <2> QED BY <1>2, <2>1, <2>2 DEF PagesOK, IsOfOr
<1>9. CleanOK
  BY <1>2 DEF CleanOK, Precommit
<1>10. EditsAreKept /\ UpsertedIsQueued
  BY <1>2 DEF EditsAreKept, UpsertedIsQueued
<1> QED BY <1>5, <1>6, <1>7, <1>8, <1>9, <1>10 DEF Inv

LEMMA NextKeeps ==
    ASSUME Inv, [Next]_vars
    PROVE  Inv'
<1>1. CASE User
  BY <1>1, UserEditsKeeps, UserAddsKeeps, UserTypesLateKeeps, UserRemovesKeeps DEF User
<1>2. CASE Drift
  BY <1>2, DriftKeeps
<1>3. CASE Decision
  <2>1. CASE \E o \in plan : \/ Prepare(o) \/ Stage(o) \/ Publish(o) \/ Install(o) \/ Delete(o)
                            \/ Vacate(o) \/ Restore(o) \/ Drop(o)
    BY <2>1, PrepareKeeps, StageKeeps, PublishKeeps, InstallKeeps, DeleteKeeps, VacateKeeps,
       RestoreKeeps, DropKeeps
  <2>2. CASE Begin \/ AbortReserved \/ Project \/ Commit \/ Validate
    BY <2>2, BeginKeeps, AbortReservedKeeps, ProjectKeeps, CommitKeeps, ValidateKeeps
  <2>3. CASE Upsert \/ Cleanup \/ Finish \/ Sweep \/ Abort
    BY <2>3, UpsertKeeps, CleanupKeeps, FinishKeeps, SweepKeeps, AbortKeeps
  <2> QED BY <1>3, <2>1, <2>2, <2>3 DEF Decision
<1>4. CASE Change
  BY <1>4, StageSourceKeeps, FinishWritingKeeps, PublishPayloadKeeps, InstallDestinationKeeps,
     UninstallDestinationKeeps, RestoreSourceKeeps, DropPayloadKeeps, PurgeRecoveryKeeps
     DEF Change
<1>5. CASE Crash
  BY <1>5, CrashKeeps
<1>6. CASE UNCHANGED vars
  <2>1. /\ plan' = plan /\ mount' = mount /\ recovery' = recovery /\ temporary' = temporary
        /\ root' = root /\ tx' = tx /\ job' = job /\ queued' = queued /\ shown' = shown
        /\ typed' = typed /\ owed' = owed /\ touched' = touched /\ disturbed' = disturbed
        /\ spent' = spent
    BY <1>6 DEF vars, files, user
  <2>2. JobOK' /\ PagesOK' /\ CleanOK' /\ UpsertedIsQueued'
    BY <2>1 DEF Inv, JobOK, PagesOK, CleanOK, UpsertedIsQueued, Active, State, Unowed,
                IsHome, IsThere, Untouched
  <2>3. /\ disturbed' \in BOOLEAN /\ queued' \in BOOLEAN /\ root' \in BOOLEAN
        /\ tx' \in Txs /\ job' \in Jobs
        /\ temporary' \in [plan -> {"none", "partial", "whole"}]
        /\ spent' \in [removals : 0..MaxRemovals, drifts : 0..MaxDrifts, crashes : 0..MaxCrashes]
    BY <2>1, TypesUnfold DEF Inv, TypeOK
  <2>4. \A o \in plan : ~ root' => HasNoPayload(o)'
    BY <2>1 DEF Inv, TypeOK, HasNoPayload
  <2> QED BY <2>1, <2>2, <2>3, <2>4, QuietKeeps
<1> QED BY <1>1, <1>2, <1>3, <1>4, <1>5, <1>6 DEF Next

LEMMA SpecInv == Spec => []Inv
<1>1. Init => Inv
  BY InitInv
<1>2. Inv /\ [Next]_vars => Inv'
  BY NextKeeps
<1> QED BY <1>1, <1>2, PTL DEF Spec

\* The transaction's record, the decided change and the files keep their types, and the
\* recovery directory is removed only when nothing is in it.
THEOREM TypeCorrect == Spec => []TypeOK
<1>1. Inv => TypeOK
  BY DEF Inv
<1> QED BY <1>1, SpecInv, PTL

\* Whatever the user types is on disk until the user removes it, at every moment of a
\* transaction, of its rollback and of its recovery from a crash.
THEOREM NoEditIsLost == Spec => []EditsAreKept
<1>1. Inv => EditsAreKept
  BY DEF Inv
<1> QED BY <1>1, SpecInv, PTL

\* The hydration job of a published discovery is queued before its effect is recorded.
THEOREM RecordedIsQueued == Spec => []UpsertedIsQueued
<1>1. Inv => UpsertedIsQueued
  BY DEF Inv
<1> QED BY <1>1, SpecInv, PTL

\* An aborted transaction has left every page that the user has not changed where it was,
\* and a committed one has put it where the plan wants it.
THEOREM AtomicOutcome == Spec => []AllOrNothing
<1>1. Inv => AllOrNothing
  BY DEF Inv, PagesOK, AllOrNothing, IsHome, IsThere
<1> QED BY <1>1, SpecInv, PTL

-----------------------------------------------------------------------------
(* Ends *)

\* Nobody decides on a change without saying which.
IdleIsNoJob == job.at = "idle" => Idle

LEMMA IdleIsNoJobKept ==
    ASSUME IdleIsNoJob, [Next]_vars
    PROVE  IdleIsNoJob'
<1>1. job' = job \/ job' = NoJob \/ job'.at \in ChangeNames
  <2>1. CASE User \/ Drift \/ UNCHANGED vars
    BY <2>1 DEF User, UserEdits, UserAdds, UserTypesLate, UserRemoves, Drift, vars
  <2>2. CASE Begin \/ AbortReserved \/ Project \/ Commit \/ Validate \/ Upsert \/ Finish
             \/ Sweep \/ Abort
    BY <2>2 DEF Begin, AbortReserved, Project, Commit, Validate, Upsert, Finish, Sweep, Abort
  <2>3. CASE Cleanup
    BY <2>3 DEF Cleanup, Decides, ChangeNames
  <2>4. ASSUME NEW o \in plan, Prepare(o) \/ Delete(o)
        PROVE  job' = job
    BY <2>4 DEF Prepare, Delete
  <2>5. ASSUME NEW o \in plan, Stage(o) \/ Publish(o) \/ Install(o)
        PROVE  job' = job \/ job'.at \in ChangeNames
    BY <2>5 DEF Stage, Publish, Install, Decides, ChangeNames
  <2>6. ASSUME NEW o \in plan, Vacate(o) \/ Restore(o) \/ Drop(o)
        PROVE  job' = job \/ job'.at \in ChangeNames
    BY <2>6 DEF Vacate, Restore, Drop, Decides, ChangeNames
  <2>7. CASE Change \/ Crash
    <3>1. CASE FinishWriting
      BY <3>1 DEF FinishWriting, Decides, ChangeNames
    <3> QED BY <2>7, <3>1 DEF Change, Changes, Crash, StageSource, PublishPayload,
                 InstallDestination, UninstallDestination, RestoreSource, DropPayload, PurgeRecovery
  <2> QED BY <2>1, <2>2, <2>3, <2>4, <2>5, <2>6, <2>7 DEF Next, Decision
<1> QED BY <1>1 DEF IdleIsNoJob, Idle, NoJob, ChangeNames

\* An ended transaction has no change of the files ahead of it, and nothing in recovery.
LEMMA EndedFacts ==
    ASSUME Inv, IdleIsNoJob, tx.status \in {"aborted", "finalized"}
    PROVE  Idle /\ job.at = "idle" /\ ~ root /\ \A o \in plan : recovery[o] = None
<1>1. job.at = "idle"
  BY TypesUnfold DEF Inv, JobOK, Precommit, Jobs
<1>2. ~ root
  BY DEF Inv, CleanOK
<1> QED BY <1>1, <1>2 DEF IdleIsNoJob, Inv, TypeOK, HasNoPayload

EndsStayStep ==
    /\ tx.status \in {"aborted", "finalized"} => UNCHANGED <<tx, job, recovery, root>>
    /\ tx.status = "committed" => tx'.status \in {"committed", "finalized"}

\* A decision is taken of a transaction that has not ended, and after the commit only the
\* steps that clean up are left.
LEMMA DecisionEnds ==
    ASSUME Inv, Decision
    PROVE  /\ tx.status \notin {"aborted", "finalized"}
           /\ tx.status = "committed" => tx'.status \in {"committed", "finalized"}
<1>1. CASE Validate \/ Upsert \/ Cleanup \/ Finish
  <2>1. tx.status = "committed" /\ tx \in Txs
    BY <1>1, TypesUnfold DEF Validate, Upsert, Cleanup, Finish, Committed, Inv
  <2>2. tx'.status \in {"committed", "finalized"}
    BY <1>1, <2>1 DEF Validate, Upsert, Cleanup, Finish, Txs
  <2> QED BY <2>1, <2>2
<1>2. CASE Begin \/ AbortReserved \/ Project \/ Commit \/ Sweep \/ Abort
  BY <1>2 DEF Begin, AbortReserved, Project, Commit, Sweep, Abort, Applying, RollingBack
<1>3. CASE \E o \in plan : \/ Prepare(o) \/ Stage(o) \/ Publish(o) \/ Install(o) \/ Delete(o)
                          \/ Vacate(o) \/ Restore(o) \/ Drop(o)
  BY <1>3 DEF Prepare, Stage, Publish, Install, Delete, Vacate, Restore, Drop, Applying, RollingBack
<1> QED BY <1>1, <1>2, <1>3 DEF Decision

\* A change of the files goes on with a decision, so the transaction has not ended.
LEMMA ChangeEnds ==
    ASSUME Inv, IdleIsNoJob, Change
    PROVE  /\ tx.status \notin {"aborted", "finalized"}
           /\ tx.status = "committed" => tx'.status = tx.status
<1>1. job.at # "idle"
  BY DEF Change, Changes, FinishWriting, StageSource, PublishPayload, InstallDestination,
         UninstallDestination, RestoreSource, DropPayload, PurgeRecovery
<1>2. tx.status \notin {"aborted", "finalized"}
  BY <1>1, EndedFacts
<1>3. tx.status = "committed" => job.at = "purge"
  BY <1>1, ChangeFacts, TypesUnfold DEF Inv, Jobs, Precommit
<1>4. CASE PurgeRecovery
  BY <1>2, <1>4 DEF PurgeRecovery
<1>5. CASE ~ PurgeRecovery
  <2>1. job.at # "purge"
    BY <1>5 DEF Change, Changes, FinishWriting, StageSource, PublishPayload, InstallDestination,
         UninstallDestination, RestoreSource, DropPayload
  <2> QED BY <1>2, <1>3, <2>1
<1> QED BY <1>4, <1>5

LEMMA EndsStayKept ==
    ASSUME Inv, IdleIsNoJob, [Next]_vars
    PROVE  [EndsStayStep]_vars
<1>1. CASE UNCHANGED vars
  BY <1>1
<1>2. CASE Decision
  BY <1>2, DecisionEnds DEF EndsStayStep
<1>3. CASE Change
  BY <1>3, ChangeEnds DEF EndsStayStep
<1>4. CASE Drift
  BY <1>4 DEF Drift, files, EndsStayStep
<1>5. CASE Crash
  BY <1>5, EndedFacts DEF Crash, files, EndsStayStep
<1>6. CASE User
  <2>1. ASSUME NEW o \in plan, NEW e \in Edits, UserTypesLate(o, e)
        PROVE  EndsStayStep
    BY <2>1, EndedFacts DEF UserTypesLate, EndsStayStep
  <2>2. ASSUME NEW p \in Paths(plan), NEW e \in Edits, UserEdits(p, e) \/ UserAdds(p, e)
        PROVE  EndsStayStep
    BY <2>2 DEF UserEdits, UserAdds, EndsStayStep
  <2>3. ASSUME NEW p \in Paths(plan), UserRemoves(p)
        PROVE  EndsStayStep
    BY <2>3 DEF UserRemoves, EndsStayStep
  <2> QED BY <1>6, <2>1, <2>2, <2>3 DEF User
<1> QED BY <1>1, <1>2, <1>3, <1>4, <1>5, <1>6 DEF Next

\* Nothing happens to an aborted or finalized transaction any more, whatever the user and
\* a crash do, and no committed one is ever taken back.
THEOREM EndsAreFinal == Spec => EndsStay
<1>1. Init => IdleIsNoJob
  BY DEF Init, IdleIsNoJob, Idle
<1>2. IdleIsNoJob /\ [Next]_vars => IdleIsNoJob'
  BY IdleIsNoJobKept
<1>3. Spec => []IdleIsNoJob
  BY <1>1, <1>2, PTL DEF Spec
<1>4. Inv /\ IdleIsNoJob /\ [Next]_vars => [EndsStayStep]_vars
  BY EndsStayKept
<1>5. Spec => [][EndsStayStep]_vars
  BY <1>3, <1>4, SpecInv, PTL DEF Spec
<1> QED BY <1>5 DEF EndsStay, EndsStayStep

-----------------------------------------------------------------------------
(* Reviews *)

Calm == ~ disturbed /\ ~ IsChained
Pending == tx.status \in {"reserved", "applying", "projected"}

\* Where the page of an operation can be while nobody else moves files.
AtSource(o) ==
    /\ HasSource(o) => mount[o.source] = Page(o)
    /\ recovery[o] = None
    /\ HasDestination(o) => mount[o.destination] = None
AtRecovery(o) ==
    /\ HasSource(o) => mount[o.source] = None
    /\ recovery[o] = Page(o)
    /\ HasDestination(o) => mount[o.destination] = None
AtDestination(o) ==
    /\ HasDestination(o) /\ mount[o.destination] = Page(o)
    /\ HasSource(o) => mount[o.source] = None
    /\ recovery[o] = None

\* The page is in one of these places, and the record is behind it by one step at most.
OnItsWay(o) ==
    /\ AtSource(o) \/ AtRecovery(o) \/ AtDestination(o)
    /\ ~ Active(o) => AtSource(o) /\ temporary[o] = "none"
    /\ State(o) = "prepared" => ~ AtDestination(o)
    /\ temporary[o] # "none" => ~ HasSource(o) /\ AtSource(o)

\* A decided change finds the page where it expects it.
JobFits ==
    /\ job.at \in {"stage", "write", "publish", "install"} => ~ tx.rollback
    /\ job.at \in {"write", "publish"} => State(job.op) = "prepared"
    /\ job.at = "install" => State(job.op) # "prepared"
    /\ job.at = "uninstall" => AtDestination(job.op)
    /\ job.at = "restore" => AtRecovery(job.op)

OneWrites == \A o \in plan : temporary[o] = "partial" => job.at = "write" /\ job.op = o

CalmOK ==
    /\ tx.status # "repair_pending"
    /\ Pending => \A o \in plan : OnItsWay(o)
    /\ JobFits
    /\ OneWrites

\* As long as the files are changed by the transaction alone.
CalmInv == Calm => CalmOK

\* Without chains no two operations share a path.
LEMMA PathsApart ==
    ASSUME plan \in Plans, ~ IsChained
    PROVE  /\ \A o, x \in plan : HasSource(x) => o.destination # x.source
           /\ \A o, x \in plan : o # x /\ HasSource(o) /\ HasSource(x) => o.source # x.source
           /\ \A o, x \in plan : o # x /\ HasDestination(o) /\ HasDestination(x) =>
                                     o.destination # x.destination
  BY PlanFacts DEF IsChained

\* A page is in one place only.
LEMMA PlacesApart ==
    ASSUME Inv, NEW o \in plan
    PROVE  /\ AtSource(o) => ~ AtRecovery(o) /\ ~ AtDestination(o)
           /\ AtRecovery(o) => ~ AtDestination(o)
  BY PageIsFile, TypesUnfold DEF Inv, AtSource, AtRecovery, AtDestination

LEMMA WayStays ==
    ASSUME NEW o \in plan, OnItsWay(o), recovery'[o] = recovery[o],
           HasSource(o) => mount'[o.source] = mount[o.source],
           HasDestination(o) => mount'[o.destination] = mount[o.destination],
           temporary'[o] = temporary[o], tx'.effects[o] = tx.effects[o]
    PROVE  OnItsWay(o)'
<1>1. /\ AtSource(o)' <=> AtSource(o)
      /\ AtRecovery(o)' <=> AtRecovery(o)
      /\ AtDestination(o)' <=> AtDestination(o)
  BY DEF AtSource, AtRecovery, AtDestination
<1>2. State(o)' = State(o) /\ (Active(o)' <=> Active(o))
  BY DEF State, Active
<1> QED BY <1>1, <1>2 DEF OnItsWay

\* When nothing has been decided, no payload is half written.
LEMMA NoneWrites ==
    ASSUME CalmOK, Idle
    PROVE  \A o \in plan : temporary[o] # "partial"
  BY DEF CalmOK, OneWrites, Idle, NoJob

\* A record of the transaction as a whole, or the decision to clean up.
LEMMA MarkCalm ==
    ASSUME Inv, CalmOK, Idle, Still, temporary' = temporary,
           tx'.effects = tx.effects, tx'.status # "repair_pending", Pending' => Pending,
           job'.at \in {"idle", "purge"}
    PROVE  CalmOK'
<1>1. Pending' => \A o \in plan : OnItsWay(o)'
  <2> SUFFICES ASSUME Pending', NEW o \in plan
               PROVE  OnItsWay(o)'
    OBVIOUS
  <2>1. OnItsWay(o)
    BY DEF CalmOK
  <2> QED BY <2>1, WayStays DEF Still
<1>2. JobFits'
  BY DEF JobFits
<1>3. OneWrites'
  BY NoneWrites DEF OneWrites, Still
<1> QED BY <1>1, <1>2, <1>3 DEF CalmOK, Still

\* The first error of a transaction only turns it round.
LEMMA FailsCalm ==
    ASSUME Inv, CalmOK, Idle, Fails, Resting, job' = job, ~ tx.rollback
    PROVE  CalmOK'
<1>1. tx \in Txs
  BY TypesUnfold DEF Inv
<1>2. tx'.effects = tx.effects /\ tx'.status = tx.status
  BY <1>1 DEF Fails, Txs
<1>3. job'.at = "idle"
  BY DEF Idle, NoJob
<1> QED BY <1>2, <1>3, MarkCalm DEF Resting, Pending, CalmOK

\* A record of one operation says where its page is.
LEMMA RecordCalm ==
    ASSUME Inv, CalmOK, Pending, Idle, Resting, job' = job,
           NEW o \in plan, NEW state \in States \ {"none"}, Record(o, state),
           state = "rolled_back" => AtSource(o) /\ temporary[o] = "none",
           state = "prepared" => ~ AtDestination(o)
    PROVE  CalmOK'
<1>1. /\ tx'.effects[o] = state /\ tx'.status = tx.status
      /\ \A x \in plan : x # o => tx'.effects[x] = tx.effects[x]
  BY TypesUnfold, RecordFacts DEF Inv
<1>2. \A x \in plan : OnItsWay(x)
  BY DEF CalmOK
<1>3. OnItsWay(o)'
  <2>1. /\ AtSource(o)' <=> AtSource(o)
        /\ AtRecovery(o)' <=> AtRecovery(o)
        /\ AtDestination(o)' <=> AtDestination(o)
    BY DEF AtSource, AtRecovery, AtDestination, Resting, Still
  <2>2. State(o)' = state /\ (~ Active(o)' => state = "rolled_back")
    BY <1>1 DEF State, Active
  <2> QED BY <1>2, <2>1, <2>2 DEF OnItsWay, Resting
<1>4. \A x \in plan : OnItsWay(x)'
  BY <1>1, <1>2, <1>3, WayStays DEF Resting, Still
<1>5. JobFits' /\ OneWrites'
  BY NoneWrites DEF JobFits, OneWrites, Idle, NoJob, Resting, Still
<1> QED BY <1>1, <1>4, <1>5 DEF CalmOK, Resting, Still

\* A change is decided on where it can be done.
LEMMA DecidesCalm ==
    ASSUME Inv, CalmOK, Idle, Resting, tx' = tx, NEW at \in ChangeNames \ {"write"},
           NEW o \in plan, Decides(at, o),
           at \in {"stage", "publish", "install"} => ~ tx.rollback,
           at = "publish" => State(o) = "prepared",
           at = "install" => State(o) # "prepared",
           at = "uninstall" => AtDestination(o),
           at = "restore" => AtRecovery(o)
    PROVE  CalmOK'
<1>1. job'.at = at /\ job'.op = o
  BY DEF Decides
<1>2. \A x \in plan : OnItsWay(x) => OnItsWay(x)'
  BY WayStays DEF Resting, Still
<1>3. JobFits'
  <2>1. /\ AtDestination(o) => AtDestination(o)'
        /\ AtRecovery(o) => AtRecovery(o)'
        /\ State(o)' = State(o)
    BY DEF AtRecovery, AtDestination, State, Resting, Still
  <2>2. /\ at = "uninstall" => AtDestination(job.op)'
        /\ at = "restore" => AtRecovery(job.op)'
        /\ State(job.op)' = State(o)
    BY <1>1, <2>1 DEF AtRecovery, AtDestination, State
  <2> QED BY <1>1, <2>2 DEF JobFits
<1>4. OneWrites'
  BY NoneWrites DEF OneWrites, Resting, Still
<1> QED BY <1>2, <1>3, <1>4 DEF CalmOK, Pending, Resting, Still

-----------------------------------------------------------------------------
(* Steps that decide and record *)

LEMMA PrepareCalm ==
    ASSUME Inv, CalmOK, NEW o \in plan, Prepare(o)
    PROVE  CalmOK'
<1>1. /\ Applying /\ Resting /\ job' = job /\ State(o) = "none" /\ Pending
      /\ Record(o, "prepared") \/ Fails
  BY DEF Prepare, Applying, Pending, Resting, Still, files, user
<1>2. Idle /\ ~ tx.rollback
  BY <1>1, ApplyingFacts
<1>3. ~ AtDestination(o)
  BY <1>1, PlacesApart DEF CalmOK, OnItsWay, Active
<1> QED BY <1>1, <1>2, <1>3, RecordCalm, FailsCalm DEF States

LEMMA StageCalm ==
    ASSUME Inv, CalmOK, NEW o \in plan, Stage(o)
    PROVE  CalmOK'
<1>1. /\ Applying /\ Resting /\ Pending
      /\ \/ Record(o, "staged") /\ job' = job
         \/ Decides("stage", o) /\ tx' = tx
         \/ Fails /\ job' = job
  BY DEF Stage, Applying, Pending, Resting, Still, files, user
<1>2. Idle /\ ~ tx.rollback
  BY <1>1, ApplyingFacts
<1> QED BY <1>1, <1>2, RecordCalm, FailsCalm, DecidesCalm DEF States, ChangeNames

LEMMA PublishCalm ==
    ASSUME Inv, CalmOK, NEW o \in plan, Publish(o)
    PROVE  CalmOK'
<1>1. Applying /\ State(o) = "prepared" /\ ~ HasSource(o) /\ Still /\ queued' = queued /\ Pending
  BY DEF Publish, ToPublish, IsFirst, Unpublished, Applying, Pending, Still, user
<1>2. Idle /\ ~ tx.rollback
  BY <1>1, ApplyingFacts
<1>3. CASE Record(o, "staged") /\ temporary' = temporary /\ job' = job
  BY <1>1, <1>2, <1>3, RecordCalm DEF Resting, States
<1>4. CASE Decides("publish", o) /\ temporary' = temporary /\ tx' = tx
  BY <1>1, <1>2, <1>4, DecidesCalm DEF Resting, ChangeNames
<1>5. CASE Fails /\ temporary' = temporary /\ job' = job
  BY <1>1, <1>2, <1>5, FailsCalm DEF Resting
<1>6. CASE /\ recovery[o] = None /\ Decides("write", o) /\ tx' = tx
           /\ temporary' = [temporary EXCEPT ![o] = "partial"]
  <2>1. job'.at = "write" /\ job'.op = o
    BY <1>6 DEF Decides
  <2>2. /\ temporary'[o] = "partial"
        /\ \A x \in plan : x # o => temporary'[x] = temporary[x]
    BY <1>6 DEF Inv, TypeOK
  <2>3. \A x \in plan : OnItsWay(x)
    BY <1>1 DEF CalmOK
  <2>4. AtSource(o)
    <3>1. ~ AtRecovery(o)
      BY <1>6, PageIsFile DEF AtRecovery
    <3> QED BY <1>1, <2>3, <3>1 DEF OnItsWay
  <2>5. State(o)' = State(o) /\ AtSource(o)'
    BY <1>1, <1>6, <2>4 DEF State, AtSource, Still
  <2>6. ~ AtDestination(o)'
    BY <1>1, <1>6, <2>4, PlacesApart DEF AtDestination, Still
  <2>7. OnItsWay(o)'
    BY <1>1, <2>5, <2>6 DEF OnItsWay, Active
  <2>8. \A x \in plan : OnItsWay(x)'
    BY <1>1, <1>6, <2>2, <2>3, <2>7, WayStays DEF Still
  <2>9. JobFits'
    <3>1. State(job.op)' = State(o)
      BY <1>6, <2>1 DEF State
    <3> QED BY <1>1, <1>2, <1>6, <2>1, <3>1 DEF JobFits
  <2>10. OneWrites'
    BY <1>1, <1>2, <2>1, <2>2, NoneWrites DEF OneWrites, Still
  <2> QED BY <1>1, <1>6, <2>8, <2>9, <2>10 DEF CalmOK, Still
<1> QED BY <1>3, <1>4, <1>5, <1>6 DEF Publish

LEMMA InstallCalm ==
    ASSUME Inv, CalmOK, NEW o \in plan, Install(o)
    PROVE  CalmOK'
<1>1. /\ Applying /\ Resting /\ Pending /\ State(o) = "staged"
      /\ \/ Record(o, "installed") /\ job' = job
         \/ Decides("install", o) /\ tx' = tx
         \/ Fails /\ job' = job
  BY DEF Install, Applying, Pending, Resting, Still, files, user
<1>2. Idle /\ ~ tx.rollback
  BY <1>1, ApplyingFacts
<1> QED BY <1>1, <1>2, RecordCalm, FailsCalm, DecidesCalm DEF States, ChangeNames

LEMMA DeleteCalm ==
    ASSUME Inv, CalmOK, NEW o \in plan, Delete(o)
    PROVE  CalmOK'
<1>1. Applying /\ Resting /\ Pending /\ job' = job /\ (Record(o, "installed") \/ Fails)
  BY DEF Delete, Applying, Pending, Resting, Still, files, user
<1>2. Idle /\ ~ tx.rollback
  BY <1>1, ApplyingFacts
<1> QED BY <1>1, <1>2, RecordCalm, FailsCalm DEF States

\* What is not about one operation fails before a rollback only, and else goes on.
LEMMA MarksCalm ==
    ASSUME Inv, CalmOK,
           \/ Begin \/ AbortReserved \/ Project \/ Commit \/ Validate \/ Upsert \/ Cleanup
           \/ Finish \/ Abort
    PROVE  CalmOK'
<1>1. tx \in Txs
  BY TypesUnfold DEF Inv
<1>2. Idle /\ Still /\ temporary' = temporary
  BY DEF Begin, AbortReserved, Project, Commit, Validate, Upsert, Cleanup, Finish, Abort,
         Applying, Committed, RollingBack, Still, files, user
<1>3. CASE Fails /\ (Project \/ Commit)
  <2>1. ~ tx.rollback /\ Resting /\ job' = job
    BY <1>2, <1>3 DEF Project, Commit, Applying, Resting
  <2> QED BY <1>2, <1>3, <2>1, FailsCalm
<1>4. CASE ~ Fails \/ ~ (Project \/ Commit)
  <2>1. /\ tx'.effects = tx.effects /\ tx'.status # "repair_pending"
        /\ Pending' => Pending
    <3>1. CASE Begin \/ AbortReserved
      BY <1>1, <3>1 DEF Begin, AbortReserved, Txs, Pending
    <3>2. CASE Project \/ Commit
      BY <1>1, <1>4, <3>2 DEF Project, Commit, Applying, Txs, Pending
    <3>3. CASE Validate \/ Upsert \/ Cleanup \/ Finish
      BY <1>1, <3>3 DEF Validate, Upsert, Cleanup, Finish, Committed, Txs, Pending
    <3>4. CASE Abort
      BY <1>1, <3>4 DEF Abort, RollingBack, CalmOK, Txs, Pending
    <3> QED BY <3>1, <3>2, <3>3, <3>4
  <2>2. job'.at \in {"idle", "purge"}
    <3>1. CASE Cleanup
      BY <1>2, <3>1 DEF Cleanup, Decides, Idle, NoJob
    <3>2. CASE ~ Cleanup
      BY <1>2, <3>2 DEF Begin, AbortReserved, Project, Commit, Validate, Upsert, Finish, Abort, Idle, NoJob
    <3> QED BY <3>1, <3>2
  <2> QED BY <1>2, <2>1, <2>2, MarkCalm
<1> QED BY <1>3, <1>4

LEMMA VacateCalm ==
    ASSUME Inv, CalmOK, NEW o \in plan, Vacate(o)
    PROVE  CalmOK'
<1>1. /\ Idle /\ Pending /\ Resting /\ HasDestination(o) /\ ~ IsVacated(o)
  BY DEF Vacate, RollingBack, Pending, CalmOK, ToVacate, Placed, Resting, Still, files, user
<1>2. OnItsWay(o)
  BY <1>1 DEF CalmOK
<1>3. ~ AtSource(o)
  BY <1>1 DEF AtSource, IsVacated
<1>4. AtRecovery(o) => HasMoved(o, mount[o.destination], recovery[o])
  BY <1>1 DEF AtRecovery, HasMoved
<1>5. AtDestination(o) => CanMove(o, mount[o.destination], recovery[o])
  BY DEF AtDestination, CanMove
<1>6. ~ IsAmbiguous(o, mount[o.destination], recovery[o])
  BY <1>2, <1>3, <1>4, <1>5 DEF OnItsWay, IsAmbiguous
<1>7. CASE Record(o, "staged") /\ job' = job
  BY <1>1, <1>7, RecordCalm DEF States
<1>8. CASE CanMove(o, mount[o.destination], recovery[o]) /\ Decides("uninstall", o) /\ tx' = tx
  <2>1. ~ AtRecovery(o)
    BY <1>8, PageIsFile DEF CanMove, AtRecovery
  <2>2. AtDestination(o)
    BY <1>2, <1>3, <2>1 DEF OnItsWay
  <2> QED BY <1>1, <1>8, <2>2, DecidesCalm DEF ChangeNames
<1> QED BY <1>6, <1>7, <1>8 DEF Vacate

\* Once all destinations are vacated, no page with something to take back is at one.
LEMMA VacatedFacts ==
    ASSUME Inv, CalmOK, Pending, AllVacated, NEW o \in plan, Active(o)
    PROVE  AtSource(o) \/ AtRecovery(o)
<1>1. OnItsWay(o)
  BY DEF CalmOK
<1>2. SUFFICES ASSUME AtDestination(o) PROVE FALSE
  BY <1>1 DEF OnItsWay
<1>3. State(o) \in {"staged", "installed"}
  BY <1>1, <1>2, TypesUnfold DEF Inv, OnItsWay, Active, States
<1>4. IsVacated(o)
  BY <1>2, <1>3 DEF AllVacated, Placed, AtDestination
<1> QED BY <1>2, <1>4, PageIsFile DEF IsVacated, HasMoved, AtDestination

LEMMA RestoreCalm ==
    ASSUME Inv, CalmOK, NEW o \in plan, Restore(o)
    PROVE  CalmOK'
<1>1. Idle /\ Pending /\ Resting /\ HasSource(o) /\ Active(o) /\ AllVacated
  BY DEF Restore, RollingBack, Pending, CalmOK, ToRestore, Taken, Active, Resting, Still, files, user
<1>2. OnItsWay(o) /\ (AtSource(o) \/ AtRecovery(o))
  BY <1>1, VacatedFacts DEF CalmOK
<1>3. /\ AtSource(o) <=> CanMove(o, mount[o.source], recovery[o])
      /\ AtRecovery(o) <=> HasMoved(o, mount[o.source], recovery[o])
  BY <1>1, <1>2, PageIsFile DEF AtSource, AtRecovery, CanMove, HasMoved
<1>4. ~ IsAmbiguous(o, mount[o.source], recovery[o])
  BY <1>2, <1>3 DEF IsAmbiguous
<1>5. CASE CanMove(o, mount[o.source], recovery[o]) /\ Record(o, "rolled_back") /\ job' = job
  <2>1. AtSource(o) /\ temporary[o] = "none"
    BY <1>1, <1>2, <1>3, <1>5 DEF OnItsWay
  <2> QED BY <1>1, <1>5, <2>1, RecordCalm DEF States
<1>6. CASE HasMoved(o, mount[o.source], recovery[o]) /\ Decides("restore", o) /\ tx' = tx
  BY <1>1, <1>3, <1>6, DecidesCalm DEF ChangeNames
<1> QED BY <1>4, <1>5, <1>6 DEF Restore

LEMMA DropCalm ==
    ASSUME Inv, CalmOK, NEW o \in plan, Drop(o)
    PROVE  CalmOK'
<1>1. Idle /\ Pending /\ Resting /\ ~ HasSource(o) /\ Active(o) /\ AllVacated
  BY DEF Drop, RollingBack, Pending, CalmOK, ToDrop, IsFirst, Built, Active, Resting, Still, files, user
<1>2. AtSource(o) \/ AtRecovery(o)
  BY <1>1, VacatedFacts
<1>3. HasDestination(o) /\ temporary[o] \in {"none", "whole"}
  BY <1>1, NoneWrites, TypesUnfold, PlanFacts DEF Inv, TypeOK
<1>4. mount[o.destination] = None /\ (HasPayload(o) \/ HasNoPayload(o))
  BY <1>2, <1>3 DEF AtSource, AtRecovery, HasPayload, HasNoPayload
<1>5. CASE HasNoPayload(o) /\ Record(o, "rolled_back") /\ job' = job
  <2>1. AtSource(o) /\ temporary[o] = "none"
    BY <1>1, <1>4, <1>5 DEF HasNoPayload, AtSource
  <2> QED BY <1>1, <1>5, <2>1, RecordCalm DEF States
<1>6. CASE Decides("drop", o) /\ tx' = tx
  BY <1>1, <1>6, DecidesCalm DEF ChangeNames
<1> QED BY <1>4, <1>5, <1>6 DEF Drop

LEMMA SweepCalm ==
    ASSUME Inv, CalmOK, Sweep
    PROVE  CalmOK'
<1>1. /\ Idle /\ Pending /\ Still /\ temporary' = temporary /\ job' = job
      /\ Taken = {} /\ Built = {}
  BY DEF Sweep, RollingBack, Pending, CalmOK, ToSweep, Still, user
<1>2. \A o \in plan : ~ Active(o)
  BY <1>1 DEF Taken, Built, Active
<1>3. \A o \in plan : HasNoPayload(o)
  BY <1>1, <1>2 DEF CalmOK, OnItsWay, AtSource, HasNoPayload
<1>4. tx' = tx
  BY <1>3 DEF Sweep
<1>5. job'.at = "idle"
  BY <1>1 DEF Idle, NoJob
<1> QED BY <1>1, <1>4, <1>5, MarkCalm DEF Pending, CalmOK

-----------------------------------------------------------------------------
(* Changes of the files *)

\* A change that fails is the first error.
TxKept == tx' = tx \/ (Fails /\ ~ tx.rollback)

LEMMA TxKeptFacts ==
    ASSUME Inv, TxKept
    PROVE  tx'.effects = tx.effects /\ tx'.status = tx.status
  BY TypesUnfold DEF Inv, TxKept, Fails, Txs

\* A page that is in one place after a step of its operation is on its way.
LEMMA Arrives ==
    ASSUME Inv, TxKept, NEW o \in plan, Active(o), temporary'[o] = "none",
           \/ AtSource(o)'
           \/ AtRecovery(o)'
           \/ AtDestination(o)' /\ State(o) # "prepared"
    PROVE  OnItsWay(o)'
<1>1. State(o)' = State(o) /\ Active(o)'
  BY TxKeptFacts DEF State, Active
<1>2. /\ AtSource(o)' => ~ AtDestination(o)'
      /\ AtRecovery(o)' => ~ AtDestination(o)'
  BY PageIsFile DEF AtSource, AtRecovery, AtDestination
<1> QED BY <1>1, <1>2 DEF OnItsWay

LEMMA ChangeCalm ==
    ASSUME Inv, CalmOK, TxKept, NEW o \in plan, job.op = o, job' = NoJob, plan' = plan,
           job.at \in ChangeNames \ {"write", "purge"}, OnItsWay(o)', temporary'[o] # "partial",
           \A x \in plan : x # o =>
               /\ HasSource(x) => mount'[x.source] = mount[x.source]
               /\ HasDestination(x) => mount'[x.destination] = mount[x.destination]
               /\ recovery'[x] = recovery[x] /\ temporary'[x] = temporary[x]
    PROVE  CalmOK'
<1>1. tx'.effects = tx.effects /\ tx'.status = tx.status
  BY TxKeptFacts
<1>2. Pending' => \A x \in plan : OnItsWay(x)'
  <2> SUFFICES ASSUME Pending', NEW x \in plan, x # o
               PROVE  OnItsWay(x)'
    OBVIOUS
  <2>1. OnItsWay(x)
    BY <1>1 DEF CalmOK, Pending
  <2> QED BY <1>1, <2>1, WayStays
<1>3. JobFits'
  BY DEF JobFits, NoJob
<1>4. OneWrites'
  <2>1. \A x \in plan : temporary[x] # "partial"
    BY DEF CalmOK, OneWrites
  <2> QED BY <2>1 DEF OneWrites
<1> QED BY <1>1, <1>2, <1>3, <1>4 DEF CalmOK

LEMMA MoveCalm ==
    ASSUME Inv, CalmOK, ~ IsChained, TxKept, NEW o \in plan, job.op = o, job' = NoJob,
           plan' = plan, job.at \in ChangeNames \ {"write", "purge"}, OnItsWay(o)',
           temporary' = temporary, NEW p, NEW f, NEW g,
           (HasSource(o) /\ p = o.source) \/ (HasDestination(o) /\ p = o.destination),
           mount' = [mount EXCEPT ![p] = f], recovery' = [recovery EXCEPT ![o] = g]
    PROVE  CalmOK'
<1>1. \A x \in plan : x # o => /\ HasSource(x) => x.source # p
                               /\ HasDestination(x) => x.destination # p
  BY PathsApart, TypesUnfold DEF Inv
<1>2. \A q \in Paths(plan) : q # p => mount'[q] = mount[q]
  BY TypesUnfold DEF Inv
<1>3. \A x \in plan : x # o =>
        /\ HasSource(x) => mount'[x.source] = mount[x.source]
        /\ HasDestination(x) => mount'[x.destination] = mount[x.destination]
        /\ recovery'[x] = recovery[x] /\ temporary'[x] = temporary[x]
  BY <1>1, <1>2, PlanFacts, TypesUnfold DEF Inv
<1>4. temporary'[o] # "partial"
  BY DEF CalmOK, OneWrites
<1> QED BY <1>3, <1>4, ChangeCalm

\* What is known of the operation whose change has been decided on.
LEMMA ChangedFacts ==
    ASSUME Inv, CalmOK, job.at \in ChangeNames \ {"purge"}
    PROVE  /\ job.op \in plan /\ Active(job.op) /\ OnItsWay(job.op) /\ Pending
           /\ job.at \notin {"write"} => temporary[job.op] # "partial"
<1>1. job.op \in plan /\ Active(job.op) /\ Pending
  BY ChangeFacts DEF Precommit, Pending, CalmOK
<1> QED BY <1>1 DEF CalmOK, OneWrites

LEMMA StageSourceCalm ==
    ASSUME Inv, CalmOK, ~ IsChained, StageSource
    PROVE  CalmOK'
<1>1. PICK o \in plan : o = job.op
  BY ChangedFacts DEF StageSource, Changes, ChangeNames
<1>2. /\ job.at = "stage" /\ job' = NoJob /\ plan' = plan /\ temporary' = temporary
      /\ \/ MovesOut(o, o.source) /\ mount[o.source] = Page(o) /\ tx' = tx
         \/ MovesOut(o, o.source) /\ mount[o.source] # Page(o) /\ Fails
         \/ mount[o.source] = None /\ Fails /\ mount' = mount /\ recovery' = recovery
  BY <1>1 DEF StageSource, Changes
<1>3. /\ job.at \in ChangeNames \ {"write", "purge"} /\ HasSource(o) /\ Active(o) /\ OnItsWay(o)
      /\ ~ tx.rollback
  BY <1>1, <1>2, ChangedFacts DEF ChangeNames, CalmOK, JobFits, Inv, JobOK
<1>4. mount[o.source] \in {Page(o), None}
  BY <1>3 DEF OnItsWay, AtSource, AtRecovery, AtDestination
<1>5. CASE MovesOut(o, o.source) /\ mount[o.source] = Page(o) /\ tx' = tx
  <2>1. o.source \in Paths(plan) /\ (HasDestination(o) => o.destination # o.source)
    BY <1>3, PathsApart, PlanFacts, TypesUnfold DEF Inv
  <2>2. AtSource(o)
    BY <1>3, <1>5, PageIsFile DEF OnItsWay, AtRecovery, AtDestination
  <2>3. AtRecovery(o)'
    BY <1>3, <1>5, <2>1, <2>2, PlanFacts, TypesUnfold DEF Inv, MovesOut, AtSource, AtRecovery
  <2>4. OnItsWay(o)'
    BY <1>2, <1>3, <1>5, <2>3, Arrives DEF OnItsWay, TxKept
  <2> QED BY <1>1, <1>2, <1>3, <1>5, <2>4, MoveCalm DEF MovesOut, TxKept
<1>6. CASE Fails /\ mount' = mount /\ recovery' = recovery
  <2>1. TxKept
    BY <1>3, <1>6 DEF TxKept
  <2>2. OnItsWay(o)'
    BY <1>2, <1>3, <1>6, <2>1, TxKeptFacts, WayStays
  <2>3. temporary'[o] # "partial"
    BY <1>1, <1>2, <1>3, ChangedFacts
  <2> QED BY <1>1, <1>2, <1>3, <1>6, <2>1, <2>2, <2>3, ChangeCalm
<1> QED BY <1>2, <1>4, <1>5, <1>6, PageIsFile DEF MovesOut

LEMMA FinishWritingCalm ==
    ASSUME Inv, CalmOK, FinishWriting
    PROVE  CalmOK'
<1>1. PICK o \in plan : o = job.op
  BY ChangedFacts DEF FinishWriting, ChangeNames
<1>2. /\ job.at = "write" /\ job' = [at |-> "publish", op |-> o] /\ plan' = plan /\ tx' = tx
      /\ mount' = mount /\ recovery' = recovery
      /\ temporary' = [temporary EXCEPT ![o] = "whole"]
  BY <1>1 DEF FinishWriting, Decides
<1>3. /\ Active(o) /\ OnItsWay(o) /\ Pending /\ ~ HasSource(o) /\ recovery[o] = None
      /\ ~ tx.rollback /\ State(o) = "prepared"
  BY <1>1, <1>2, ChangedFacts DEF ChangeNames, CalmOK, JobFits, Inv, JobOK
<1>4. /\ temporary'[o] = "whole"
      /\ \A x \in plan : x # o => temporary'[x] = temporary[x]
  BY <1>2 DEF Inv, TypeOK
<1>5. AtSource(o)
  BY <1>3, PageIsFile DEF OnItsWay, AtRecovery
<1>6. OnItsWay(o)'
  <2>1. AtSource(o)' /\ ~ AtDestination(o)'
    BY <1>2, <1>3, <1>5, PlacesApart DEF AtSource, AtDestination
  <2>2. State(o)' = State(o)
    BY <1>2 DEF State
  <2> QED BY <1>3, <2>1, <2>2 DEF OnItsWay, Active
<1>7. \A x \in plan : OnItsWay(x)'
  BY <1>2, <1>3, <1>4, <1>6, WayStays DEF CalmOK
<1>8. JobFits'
  <2>1. State(job.op)' = State(o) /\ job'.at = "publish"
    BY <1>2 DEF State
  <2> QED BY <1>2, <1>3, <2>1 DEF JobFits
<1>9. OneWrites'
  BY <1>1, <1>2, <1>4 DEF CalmOK, OneWrites
<1> QED BY <1>2, <1>7, <1>8, <1>9 DEF CalmOK

LEMMA PublishPayloadCalm ==
    ASSUME Inv, CalmOK, PublishPayload
    PROVE  CalmOK'
<1>1. PICK o \in plan : o = job.op
  BY ChangedFacts DEF PublishPayload, Changes, ChangeNames
<1>2. /\ job.at = "publish" /\ job' = NoJob /\ plan' = plan /\ tx' = tx /\ mount' = mount
      /\ temporary' = [temporary EXCEPT ![o] = "none"]
      /\ recovery' = [recovery EXCEPT ![o] = Page(o)]
  BY <1>1 DEF PublishPayload, Changes
<1>3. /\ job.at \in ChangeNames \ {"write", "purge"} /\ Active(o) /\ OnItsWay(o)
      /\ ~ HasSource(o) /\ recovery[o] = None /\ State(o) = "prepared"
  BY <1>1, <1>2, ChangedFacts DEF ChangeNames, CalmOK, JobFits, Inv, JobOK
<1>4. /\ temporary'[o] = "none" /\ recovery'[o] = Page(o)
      /\ \A x \in plan : x # o => temporary'[x] = temporary[x] /\ recovery'[x] = recovery[x]
  BY <1>2 DEF Inv, TypeOK
<1>5. AtSource(o)
  BY <1>3, PageIsFile DEF OnItsWay, AtRecovery
<1>6. AtRecovery(o)'
  BY <1>2, <1>3, <1>4, <1>5 DEF AtSource, AtRecovery
<1>7. OnItsWay(o)'
  BY <1>2, <1>3, <1>4, <1>6, Arrives DEF TxKept
<1> QED BY <1>1, <1>2, <1>3, <1>4, <1>7, ChangeCalm DEF TxKept

LEMMA InstallDestinationCalm ==
    ASSUME Inv, CalmOK, ~ IsChained, InstallDestination
    PROVE  CalmOK'
<1>1. PICK o \in plan : o = job.op
  BY ChangedFacts DEF InstallDestination, Changes, ChangeNames
<1>2. /\ job.at = "install" /\ job' = NoJob /\ plan' = plan /\ temporary' = temporary
      /\ \/ MovesIn(o, o.destination) /\ (tx' = tx \/ Fails)
         \/ Fails /\ mount' = mount /\ recovery' = recovery
  BY <1>1 DEF InstallDestination, Changes
<1>3. /\ job.at \in ChangeNames \ {"write", "purge"} /\ HasDestination(o) /\ Active(o)
      /\ OnItsWay(o) /\ ~ tx.rollback /\ State(o) # "prepared" /\ TxKept
  BY <1>1, <1>2, ChangedFacts DEF ChangeNames, CalmOK, JobFits, Inv, JobOK, TxKept,
     InstallDestination
<1>4. CASE MovesIn(o, o.destination)
  <2>1. o.destination \in Paths(plan) /\ (HasSource(o) => o.destination # o.source)
    BY <1>3, PlanFacts, TypesUnfold, DiscoveryAssumption DEF Inv, WellFormed
  <2>2. AtRecovery(o)
    BY <1>3, <1>4 DEF OnItsWay, AtSource, AtDestination, MovesIn
  <2>3. AtDestination(o)'
    BY <1>3, <1>4, <2>1, <2>2, PlanFacts, TypesUnfold DEF Inv, MovesIn, AtRecovery, AtDestination
  <2>4. temporary[o] = "none"
    BY <1>3, <2>2, PlacesApart DEF OnItsWay
  <2>5. OnItsWay(o)'
    BY <1>2, <1>3, <2>3, <2>4, Arrives
  <2> QED BY <1>1, <1>2, <1>3, <1>4, <2>5, MoveCalm DEF MovesIn
<1>5. CASE mount' = mount /\ recovery' = recovery
  <2>1. OnItsWay(o)'
    BY <1>2, <1>3, <1>5, TxKeptFacts, WayStays
  <2>2. temporary'[o] # "partial"
    BY <1>1, <1>2, <1>3, ChangedFacts
  <2> QED BY <1>1, <1>2, <1>3, <1>5, <2>1, <2>2, ChangeCalm
<1> QED BY <1>2, <1>4, <1>5

LEMMA UninstallDestinationCalm ==
    ASSUME Inv, CalmOK, ~ IsChained, UninstallDestination
    PROVE  CalmOK'
<1>1. PICK o \in plan : o = job.op
  BY ChangedFacts DEF UninstallDestination, Changes, ChangeNames
<1>2. /\ job.at = "uninstall" /\ job' = NoJob /\ plan' = plan /\ temporary' = temporary
      /\ \/ MovesOut(o, o.destination) /\ tx' = tx
         \/ mount[o.destination] = None
  BY <1>1 DEF UninstallDestination, Changes
<1>3. /\ job.at \in ChangeNames \ {"write", "purge"} /\ HasDestination(o) /\ Active(o)
      /\ OnItsWay(o) /\ AtDestination(o)
  BY <1>1, <1>2, ChangedFacts DEF ChangeNames, CalmOK, JobFits, Inv, JobOK
<1>4. MovesOut(o, o.destination) /\ TxKept
  BY <1>2, <1>3, PageIsFile DEF AtDestination, TxKept
<1>5. o.destination \in Paths(plan) /\ (HasSource(o) => o.destination # o.source)
  BY <1>3, PlanFacts, TypesUnfold, DiscoveryAssumption DEF Inv, WellFormed
<1>6. AtRecovery(o)'
  BY <1>3, <1>4, <1>5, PlanFacts, TypesUnfold DEF Inv, MovesOut, AtRecovery, AtDestination
<1>7. temporary[o] = "none"
  BY <1>3, PlacesApart DEF OnItsWay
<1>8. OnItsWay(o)'
  BY <1>2, <1>3, <1>4, <1>6, <1>7, Arrives
<1> QED BY <1>1, <1>2, <1>3, <1>4, <1>8, MoveCalm DEF MovesOut

LEMMA RestoreSourceCalm ==
    ASSUME Inv, CalmOK, ~ IsChained, RestoreSource
    PROVE  CalmOK'
<1>1. PICK o \in plan : o = job.op
  BY ChangedFacts DEF RestoreSource, Changes, ChangeNames
<1>2. /\ job.at = "restore" /\ job' = NoJob /\ plan' = plan /\ temporary' = temporary
      /\ \/ MovesIn(o, o.source) /\ tx' = tx
         \/ mount[o.source] # None
  BY <1>1 DEF RestoreSource, Changes
<1>3. /\ job.at \in ChangeNames \ {"write", "purge"} /\ HasSource(o) /\ Active(o)
      /\ OnItsWay(o) /\ AtRecovery(o)
  BY <1>1, <1>2, ChangedFacts DEF ChangeNames, CalmOK, JobFits, Inv, JobOK
<1>4. MovesIn(o, o.source) /\ TxKept
  BY <1>2, <1>3 DEF AtRecovery, TxKept
<1>5. o.source \in Paths(plan) /\ (HasDestination(o) => o.destination # o.source)
  BY <1>3, PathsApart, PlanFacts, TypesUnfold DEF Inv
<1>6. AtSource(o)'
  BY <1>3, <1>4, <1>5, PlanFacts, TypesUnfold DEF Inv, MovesIn, AtRecovery, AtSource
<1>7. temporary[o] = "none"
  BY <1>3 DEF OnItsWay
<1>8. OnItsWay(o)'
  BY <1>2, <1>3, <1>4, <1>6, <1>7, Arrives
<1> QED BY <1>1, <1>2, <1>3, <1>4, <1>8, MoveCalm DEF MovesIn

LEMMA DropPayloadCalm ==
    ASSUME Inv, CalmOK, DropPayload
    PROVE  CalmOK'
<1>1. PICK o \in plan : o = job.op
  BY ChangedFacts DEF DropPayload, Changes, ChangeNames
<1>2. /\ job.at = "drop" /\ job' = NoJob /\ plan' = plan /\ tx' = tx /\ mount' = mount
      /\ \/ recovery[o] # None /\ recovery' = [recovery EXCEPT ![o] = None] /\ temporary' = temporary
         \/ /\ recovery[o] = None /\ temporary' = [temporary EXCEPT ![o] = "none"]
            /\ recovery' = recovery
  BY <1>1 DEF DropPayload, Changes
<1>3. /\ job.at \in ChangeNames \ {"write", "purge"} /\ Active(o) /\ OnItsWay(o)
      /\ ~ HasSource(o)
  BY <1>1, <1>2, ChangedFacts DEF ChangeNames, CalmOK, Inv, JobOK
<1>4. /\ recovery'[o] = None
      /\ \A x \in plan : x # o => temporary'[x] = temporary[x] /\ recovery'[x] = recovery[x]
  BY <1>2 DEF Inv, TypeOK
<1>5. CASE recovery[o] # None /\ temporary' = temporary
  <2>1. AtRecovery(o)
    BY <1>3, <1>5 DEF OnItsWay, AtSource, AtDestination
  <2>2. temporary'[o] = "none"
    BY <1>3, <1>5, <2>1, PlacesApart DEF OnItsWay
  <2>3. AtSource(o)'
    BY <1>2, <1>3, <1>4, <2>1 DEF AtSource, AtRecovery
  <2>4. OnItsWay(o)'
    BY <1>2, <1>3, <2>2, <2>3, Arrives DEF TxKept
  <2> QED BY <1>1, <1>2, <1>3, <1>4, <2>2, <2>4, ChangeCalm DEF TxKept
<1>6. CASE recovery[o] = None /\ temporary' = [temporary EXCEPT ![o] = "none"] /\ recovery' = recovery
  <2>1. temporary'[o] = "none"
    BY <1>6 DEF Inv, TypeOK
  <2>2. /\ AtSource(o) \/ AtDestination(o)
        /\ AtDestination(o) => State(o) # "prepared"
    BY <1>3, <1>6, PageIsFile DEF OnItsWay, AtRecovery
  <2>3. AtSource(o)' \/ (AtDestination(o)' /\ State(o) # "prepared")
    BY <1>2, <1>6, <2>2 DEF AtSource, AtDestination
  <2>4. OnItsWay(o)'
    BY <1>2, <1>3, <2>1, <2>3, Arrives DEF TxKept
  <2> QED BY <1>1, <1>2, <1>3, <1>4, <2>1, <2>4, ChangeCalm DEF TxKept
<1> QED BY <1>2, <1>5, <1>6

LEMMA PurgeRecoveryCalm ==
    ASSUME Inv, CalmOK, PurgeRecovery
    PROVE  CalmOK'
<1>1. tx.status = "committed" /\ tx' = tx /\ plan' = plan /\ job' = NoJob
  BY DEF PurgeRecovery, Changes, Inv, JobOK
<1>2. \A o \in plan : temporary'[o] = "none"
  BY DEF PurgeRecovery
<1> QED BY <1>1, <1>2 DEF CalmOK, Pending, JobFits, OneWrites, NoJob

\* A crash that does not cut a payload short leaves every page in its place.
LEMMA CrashCalm ==
    ASSUME Inv, CalmOK, Crash, ~ disturbed'
    PROVE  CalmOK'
<1>1. /\ plan' = plan /\ mount' = mount /\ recovery' = recovery /\ temporary' = temporary
      /\ tx' = tx /\ job' = NoJob /\ job.at # "write"
  BY DEF Crash, files
<1>2. \A o \in plan : OnItsWay(o) => OnItsWay(o)'
  BY <1>1, WayStays
<1>3. OneWrites' /\ JobFits'
  BY <1>1 DEF CalmOK, OneWrites, JobFits, NoJob
<1> QED BY <1>1, <1>2, <1>3 DEF CalmOK, Pending

-----------------------------------------------------------------------------

LEMMA InitCalm ==
    ASSUME Init
    PROVE  CalmInv
<1>1. Inv
  BY InitInv
<1>2. /\ recovery = [o \in plan |-> None] /\ temporary = [o \in plan |-> "none"] /\ job = NoJob
      /\ tx.status = "reserved" /\ \A o \in plan : State(o) = "none"
      /\ mount = [p \in Paths(plan) |->
                     IF \E o \in plan : o.source = p
                     THEN Page(CHOOSE o \in plan : o.source = p) ELSE None]
  BY DEF Init, State
<1>3. SUFFICES ASSUME ~ IsChained
               PROVE  CalmOK
  BY DEF CalmInv, Calm
<1>4. \A o \in plan : AtSource(o)
  <2> SUFFICES ASSUME NEW o \in plan
               PROVE  AtSource(o)
    OBVIOUS
  <2>1. HasSource(o) => mount[o.source] = Page(o)
    <3>1. Untouched(o) /\ ~ Active(o)
      BY <1>2 DEF Init, Untouched, Active
    <3> QED BY <1>1, <3>1 DEF Inv, PagesOK, IsHome
  <2>2. HasDestination(o) => mount[o.destination] = None
    <3> SUFFICES ASSUME HasDestination(o)
                 PROVE  mount[o.destination] = None
      OBVIOUS
    <3>1. o.destination \in Paths(plan) /\ WellFormed(plan)
      BY <1>1, PlanFacts, TypesUnfold, DiscoveryAssumption DEF Inv
    <3>2. \A x \in plan : x.source = o.destination => HasSource(x)
      BY <3>1 DEF WellFormed
    <3>3. ~ \E x \in plan : x.source = o.destination
      BY <1>3, <3>2 DEF IsChained
    <3> QED BY <1>2, <3>1, <3>3
  <2> QED BY <1>2, <2>1, <2>2 DEF AtSource
<1>5. \A o \in plan : OnItsWay(o)
  BY <1>1, <1>2, <1>4, PlacesApart DEF OnItsWay
<1> QED BY <1>2, <1>5 DEF CalmOK, JobFits, OneWrites, NoJob

LEMMA NextCalm ==
    ASSUME Inv, CalmInv, [Next]_vars
    PROVE  CalmInv'
<1>1. SUFFICES ASSUME Calm'
               PROVE  CalmOK'
  BY DEF CalmInv
<1>2. plan' = plan /\ (disturbed => disturbed')
  <2>1. CASE User \/ Drift \/ Crash \/ UNCHANGED vars
    <3>1. CASE User
      BY <3>1 DEF User, UserEdits, UserAdds, UserTypesLate, UserRemoves, Touches
    <3>2. CASE Drift \/ UNCHANGED vars
      BY <3>2 DEF Drift, vars
    <3>3. CASE Crash
      BY <3>3 DEF Crash
    <3> QED BY <2>1, <3>1, <3>2, <3>3
  <2>2. CASE Change
    BY <2>2 DEF Change, StageSource, FinishWriting, PublishPayload, InstallDestination,
       UninstallDestination, RestoreSource, DropPayload, PurgeRecovery
  <2>3. CASE Begin \/ AbortReserved \/ Project \/ Commit \/ Validate \/ Upsert \/ Cleanup
             \/ Finish \/ Sweep \/ Abort
    BY <2>3 DEF Begin, AbortReserved, Project, Commit, Validate, Upsert, Cleanup, Finish, Sweep, Abort
  <2>4. ASSUME NEW o \in plan, Prepare(o) \/ Stage(o) \/ Publish(o) \/ Install(o)
        PROVE  plan' = plan /\ disturbed' = disturbed
    BY <2>4 DEF Prepare, Stage, Publish, Install
  <2>5. ASSUME NEW o \in plan, Delete(o) \/ Vacate(o) \/ Restore(o) \/ Drop(o)
        PROVE  plan' = plan /\ disturbed' = disturbed
    BY <2>5 DEF Delete, Vacate, Restore, Drop
  <2> QED BY <2>1, <2>2, <2>3, <2>4, <2>5 DEF Next, Decision
<1>3. CalmOK /\ ~ IsChained /\ ~ disturbed'
  BY <1>1, <1>2 DEF Calm, CalmInv, IsChained
<1>4. CASE User
  BY <1>3, <1>4 DEF User, UserEdits, UserAdds, UserTypesLate, UserRemoves, Touches
<1>5. CASE Drift \/ UNCHANGED vars
  <2>1. /\ plan' = plan /\ mount' = mount /\ recovery' = recovery /\ temporary' = temporary
        /\ tx' = tx /\ job' = job
    BY <1>5 DEF Drift, vars, files
  <2>2. \A o \in plan : OnItsWay(o) => OnItsWay(o)'
    BY <2>1, WayStays
  <2>3. JobFits' /\ OneWrites'
    BY <1>3, <2>1 DEF CalmOK, JobFits, OneWrites, State, AtDestination, AtRecovery
  <2> QED BY <1>3, <2>1, <2>2, <2>3 DEF CalmOK, Pending
<1>6. CASE Decision
  <2>1. CASE \E o \in plan : \/ Prepare(o) \/ Stage(o) \/ Publish(o) \/ Install(o) \/ Delete(o)
                            \/ Vacate(o) \/ Restore(o) \/ Drop(o)
    BY <1>3, <2>1, PrepareCalm, StageCalm, PublishCalm, InstallCalm, DeleteCalm, VacateCalm,
       RestoreCalm, DropCalm
  <2> QED BY <1>3, <1>6, <2>1, MarksCalm, SweepCalm DEF Decision
<1>7. CASE Change
  BY <1>3, <1>7, StageSourceCalm, FinishWritingCalm, PublishPayloadCalm, InstallDestinationCalm,
     UninstallDestinationCalm, RestoreSourceCalm, DropPayloadCalm, PurgeRecoveryCalm DEF Change
<1>8. CASE Crash
  BY <1>3, <1>8, CrashCalm
<1> QED BY <1>4, <1>5, <1>6, <1>7, <1>8 DEF Next

\* Whatever crashes cut its steps short, a transaction that nobody disturbs is not left
\* for review, as every check of a rollback finds each page where its record allows it
\* to be; only a plan that reuses a path that it vacates may come to that.
THEOREM ReviewsAreEarned == Spec => []ReviewIsEarned
<1>1. CalmInv => ReviewIsEarned
  BY DEF CalmInv, CalmOK, Calm, ReviewIsEarned
<1> QED BY <1>1, InitCalm, NextCalm, SpecInv, PTL DEF Spec

-----------------------------------------------------------------------------
(* The abstract specification *)

\* What is cleaned up after a commit has had its hydration job queued before.
CleanedIsUpserted == tx.status \in {"committed", "finalized"} /\ tx.cleaned => tx.upserted

LEMMA CleanedIsUpsertedKept ==
    ASSUME Inv, CleanedIsUpserted, [Next]_vars
    PROVE  CleanedIsUpserted'
<1>0. tx \in Txs
  BY TypesUnfold DEF Inv
<1>1. CASE tx' = tx \/ Fails
  <2>1. tx' = tx \/ (tx'.status = tx.status /\ tx'.cleaned = tx.cleaned /\ tx'.upserted = tx.upserted)
             \/ tx'.status = "repair_pending"
    BY <1>0, <1>1 DEF Fails, Txs
  <2> QED BY <2>1 DEF CleanedIsUpserted
<1>2. ASSUME NEW o \in plan, NEW state \in States, Record(o, state)
      PROVE  CleanedIsUpserted'
  BY <1>0, <1>2, RecordFacts DEF CleanedIsUpserted
<1>3. CASE Begin \/ AbortReserved \/ Project \/ Abort
  <2>1. tx' = tx \/ Fails \/ tx'.status \notin {"committed", "finalized"}
    BY <1>0, <1>3 DEF Begin, AbortReserved, Project, Abort, RollingBack, Txs
  <2> QED BY <1>1, <2>1 DEF CleanedIsUpserted
<1>4. CASE Commit
  <2>1. ~ tx.cleaned
    BY <1>4 DEF Commit, Inv, CleanOK, Precommit
  <2>2. Fails \/ tx'.cleaned = tx.cleaned
    BY <1>0, <1>4 DEF Commit, Txs
  <2> QED BY <1>1, <2>1, <2>2 DEF CleanedIsUpserted
<1>5. CASE Validate \/ Upsert \/ Cleanup \/ Finish
  <2>1. \/ tx' = tx
        \/ tx'.upserted
        \/ tx'.cleaned = tx.cleaned /\ tx'.upserted = tx.upserted /\ tx.status = "committed"
    <3>1. CASE Validate
      BY <1>0, <3>1 DEF Validate, Committed, Txs
    <3>2. CASE Upsert
      BY <1>0, <3>2 DEF Upsert, Committed, Txs
    <3>3. CASE Cleanup
      BY <1>0, <3>3 DEF Cleanup, Committed, Txs
    <3>4. CASE Finish
      BY <1>0, <3>4 DEF Finish, Committed, Txs
    <3> QED BY <1>5, <3>1, <3>2, <3>3, <3>4
  <2> QED BY <1>1, <2>1 DEF CleanedIsUpserted
<1>6. ASSUME NEW o \in plan, Prepare(o) \/ Stage(o) \/ Publish(o) \/ Install(o) \/ Delete(o)
      PROVE  CleanedIsUpserted'
  <2>1. tx' = tx \/ Fails \/ \E state \in States : Record(o, state)
    BY <1>6 DEF Prepare, Stage, Publish, Install, Delete, States
  <2> QED BY <1>1, <1>2, <2>1
<1>7. ASSUME NEW o \in plan, Vacate(o) \/ Restore(o) \/ Drop(o)
      PROVE  CleanedIsUpserted'
  <2>1. tx' = tx \/ Fails \/ \E state \in States : Record(o, state)
    BY <1>7 DEF Vacate, Restore, Drop, States
  <2> QED BY <1>1, <1>2, <2>1
<1>8. CASE Change
  <2>1. tx' = tx \/ Fails
    BY <1>8 DEF Change, StageSource, FinishWriting, PublishPayload, InstallDestination,
       UninstallDestination, RestoreSource, DropPayload, PurgeRecovery
  <2> QED BY <1>1, <2>1
<1>9. CASE Sweep \/ Drift \/ Crash \/ UNCHANGED vars
  BY <1>1, <1>9 DEF Sweep, Drift, Crash, vars
<1>10. CASE User
  BY <1>1, <1>10 DEF User, UserEdits, UserAdds, UserTypesLate, UserRemoves
<1> QED BY <1>3, <1>4, <1>5, <1>6, <1>7, <1>8, <1>9, <1>10 DEF Next, Decision

LEMMA KeptFacts ==
    ASSUME Inv
    PROVE  KeptEdits = owed
  BY DEF KeptEdits, Inv, EditsAreKept

\* Whoever looks at the mount sees pages move only when files of the mount change.
LEMMA PagesSame ==
    ASSUME plan' = plan, touched' = touched, mount' = mount
    PROVE  /\ UntouchedPages' = UntouchedPages
           /\ HomePages' = HomePages /\ TherePages' = TherePages
  BY DEF UntouchedPages, HomePages, TherePages, Untouched, IsHome, IsThere

\* What the transaction's status looks like from outside.
OutcomeFacts ==
    /\ Outcome = "open" <=> tx.status \in {"reserved", "applying", "projected"}
    /\ Outcome = "review" <=> tx.status = "repair_pending"
    /\ tx.status \in {"committed", "finalized", "aborted"} => Outcome = tx.status

LEMMA OutcomeIs ==
    ASSUME Inv
    PROVE  OutcomeFacts
  BY TypesUnfold DEF Inv, TypeOK, Statuses, OutcomeFacts, Outcome

\* What a step of the daemon leaves alone.
Apart == /\ plan' = plan /\ typed' = typed /\ owed' = owed /\ touched' = touched
         /\ disturbed' = disturbed
ApartFrom == Apart /\ mount' = mount /\ queued' = queued

LEMMA ApartFacts ==
    ASSUME Inv, Inv', Apart
    PROVE  KeptEdits' = KeptEdits /\ UntouchedPages' = UntouchedPages /\ Excused' = Excused
<1>1. KeptEdits' = owed'
  BY KeptFacts DEF KeptEdits, Inv, EditsAreKept
<1>2. KeptEdits = owed
  BY KeptFacts
<1> QED BY <1>1, <1>2 DEF Apart, UntouchedPages, Untouched, Excused, IsChained

LEMMA StutterIs ==
    ASSUME Inv, Inv', ApartFrom, tx'.status = tx.status
    PROVE  UNCHANGED Promises!vars
<1>1. Outcome' = Outcome
  BY DEF Outcome
<1> QED BY <1>1, ApartFacts, PagesSame DEF ApartFrom, Apart, Promises!vars

\* Before the commit every step of the daemon moves pages, or gives up for a reason.
LEMMA WorkIs ==
    ASSUME Inv, Inv', CalmInv', Apart, queued' = queued,
           tx.status \in {"reserved"} \cup Precommit,
           Outcome' \in {Outcome, "review"}
    PROVE  Promises!Work
<1>1. Outcome \in {"open", "review"}
  BY OutcomeIs DEF OutcomeFacts, Precommit
<1>2. Outcome' = "review" => Excused
  <2>1. Outcome' = "review" => tx'.status = "repair_pending"
    BY TypesUnfold DEF Inv, TypeOK, Outcome, Statuses
  <2>2. tx'.status = "repair_pending" => Excused'
    BY DEF CalmInv, Calm, CalmOK, Excused
  <2> QED BY <2>1, <2>2, ApartFacts
<1>3. HomePages' \in SUBSET UntouchedPages /\ TherePages' \in SUBSET UntouchedPages
  BY ApartFacts DEF HomePages, TherePages
<1> QED BY <1>1, <1>2, <1>3, ApartFacts DEF Promises!Work

LEMMA CommitIs ==
    ASSUME Inv, Inv', ApartFrom, Outcome = "open", tx'.status = "committed"
    PROVE  Promises!Commit
<1>1. TherePages' = UntouchedPages'
  BY DEF Inv, PagesOK, TherePages, UntouchedPages
<1>2. Outcome' = "committed"
  BY DEF Outcome
<1> QED BY <1>1, <1>2, ApartFacts, PagesSame
        DEF ApartFrom, Apart, Promises!Commit, Promises!pages

LEMMA AbortIs ==
    ASSUME Inv, Inv', ApartFrom, Outcome \in {"open", "review"}, tx'.status = "aborted"
    PROVE  Promises!Abort
<1>1. HomePages' = UntouchedPages'
  BY DEF Inv, PagesOK, HomePages, UntouchedPages
<1>2. Outcome' = "aborted"
  BY DEF Outcome
<1> QED BY <1>1, <1>2, ApartFacts, PagesSame
        DEF ApartFrom, Apart, Promises!Abort, Promises!pages

\* What the steps before the commit make of the status.
LEMMA FailsOutcome ==
    ASSUME tx \in Txs, tx.status \in {"reserved"} \cup Precommit, Fails \/ tx'.status = tx.status
    PROVE  Outcome' \in {Outcome, "review"}
<1>1. tx'.status \in {tx.status, "repair_pending"}
  BY FailsFacts
<1> QED BY <1>1 DEF Outcome

LEMMA OperationIsWork ==
    ASSUME Inv, Inv', CalmInv', NEW o \in plan,
           \/ Prepare(o) \/ Stage(o) \/ Publish(o) \/ Install(o) \/ Delete(o)
           \/ Vacate(o) \/ Restore(o) \/ Drop(o)
    PROVE  Promises!Work
<1>1. tx \in Txs
  BY TypesUnfold DEF Inv
<1>2. CASE Prepare(o) \/ Stage(o) \/ Publish(o) \/ Install(o) \/ Delete(o)
  <2>1. Apart /\ queued' = queued
    BY <1>2 DEF Prepare, Stage, Publish, Install, Delete, Apart, user
  <2>2. tx.status \in Precommit
    BY <1>2 DEF Prepare, Stage, Publish, Install, Delete, Applying, Precommit
  <2>3. tx' = tx \/ Fails \/ \E state \in States : Record(o, state)
    BY <1>2 DEF Prepare, Stage, Publish, Install, Delete, States
  <2>4. Fails \/ tx'.status = tx.status
    BY <1>1, <2>3, RecordFacts
  <2> QED BY <1>1, <2>1, <2>2, <2>4, FailsOutcome, WorkIs
<1>3. CASE Vacate(o) \/ Restore(o) \/ Drop(o)
  <2>1. Apart /\ queued' = queued
    BY <1>3 DEF Vacate, Restore, Drop, Apart, user
  <2>2. tx.status \in Precommit
    BY <1>3 DEF Vacate, Restore, Drop, RollingBack, Precommit
  <2>3. tx' = tx \/ Fails \/ \E state \in States : Record(o, state)
    BY <1>3 DEF Vacate, Restore, Drop, States
  <2>4. Fails \/ tx'.status = tx.status
    BY <1>1, <2>3, RecordFacts
  <2> QED BY <1>1, <2>1, <2>2, <2>4, FailsOutcome, WorkIs
<1> QED BY <1>2, <1>3

\* The decisions before the commit that are about the transaction as a whole.
LEMMA WholeIsAllowed ==
    ASSUME Inv, Inv', CalmInv', Begin \/ AbortReserved \/ Project \/ Commit \/ Sweep \/ Abort
    PROVE  Promises!Next
<1>1. tx \in Txs
  BY TypesUnfold DEF Inv
<1>2. /\ Apart /\ mount' = mount /\ queued' = queued
      /\ tx.status \in {"reserved"} \cup Precommit /\ Outcome \in {"open", "review"}
  BY OutcomeIs DEF Begin, AbortReserved, Project, Commit, Sweep, Abort, Applying, RollingBack,
     Precommit, Apart, files, user, OutcomeFacts
<1>3. CASE Fails \/ tx'.status = tx.status
  BY <1>1, <1>2, <1>3, FailsOutcome, WorkIs DEF Promises!Next
<1>4. CASE Begin
  <2>1. Outcome' = Outcome
    BY <1>1, <1>4 DEF Begin, Outcome, Txs
  <2> QED BY <1>2, <2>1, WorkIs DEF Promises!Next
<1>5. CASE AbortReserved
  <2>1. tx'.status = "aborted"
    BY <1>1, <1>5 DEF AbortReserved, Txs
  <2> QED BY <1>2, <2>1, AbortIs DEF ApartFrom, Promises!Next
<1>6. CASE Project
  <2>1. Fails \/ (tx.status = "applying" /\ tx'.status = "projected")
    BY <1>1, <1>6 DEF Project, Applying, Txs
  <2>2. CASE tx.status = "applying" /\ tx'.status = "projected"
    <3>1. Outcome' = Outcome
      BY <2>2 DEF Outcome
    <3> QED BY <1>2, <3>1, WorkIs DEF Promises!Next
  <2> QED BY <1>3, <2>1, <2>2
<1>7. CASE Commit
  <2>1. Fails \/ (tx.status = "projected" /\ tx'.status = "committed")
    BY <1>1, <1>7 DEF Commit, Txs
  <2>2. CASE tx.status = "projected" /\ tx'.status = "committed"
    <3>1. Outcome = "open"
      BY <2>2 DEF Outcome
    <3> QED BY <1>2, <2>2, <3>1, CommitIs DEF ApartFrom, Promises!Next
  <2> QED BY <1>3, <2>1, <2>2
<1>8. CASE Sweep
  BY <1>3, <1>8 DEF Sweep
<1>9. CASE Abort
  <2>1. tx'.status \in {tx.status, "aborted"}
    BY <1>1, <1>9 DEF Abort, Txs
  <2> QED BY <1>2, <1>3, <2>1, AbortIs DEF ApartFrom, Promises!Next
<1> QED BY <1>4, <1>5, <1>6, <1>7, <1>8, <1>9

\* After the commit nothing is seen but the hydration job and the end.
LEMMA CommittedIsAllowed ==
    ASSUME Inv, Inv', CleanedIsUpserted, Validate \/ Upsert \/ Cleanup \/ Finish
    PROVE  [Promises!Next]_Promises!vars
<1>1. tx \in Txs /\ Outcome = "committed" /\ tx.status = "committed"
  BY TypesUnfold, OutcomeIs DEF Inv, Validate, Upsert, Cleanup, Finish, Committed, OutcomeFacts
<1>2. Apart /\ mount' = mount
  BY DEF Validate, Upsert, Cleanup, Finish, Apart, files, user
<1>3. CASE queued' = queued /\ tx'.status = tx.status
  BY <1>2, <1>3, StutterIs DEF ApartFrom
<1>4. CASE Validate \/ Cleanup
  BY <1>1, <1>3, <1>4 DEF Validate, Cleanup, Txs
<1>5. CASE Upsert
  <2>1. CASE queued' = TRUE /\ tx' = tx
    <3>1. Outcome' = Outcome
      BY <2>1 DEF Outcome
    <3>2. Promises!Hydrate
      BY <1>1, <1>2, <2>1, <3>1, ApartFacts, PagesSame DEF Apart, Promises!Hydrate, Promises!pages
    <3> QED BY <3>2 DEF Promises!Next
  <2>2. CASE queued' = queued /\ tx' = [tx EXCEPT !.upserted = TRUE]
    BY <1>1, <1>3, <2>2 DEF Txs
  <2> QED BY <1>5, <2>1, <2>2 DEF Upsert
<1>6. CASE Finish
  <2>1. queued' = queued /\ tx.cleaned
    BY <1>6 DEF Finish
  <2>2. tx'.status \in {tx.status, "finalized"}
    BY <1>1, <1>6 DEF Finish, Txs
  <2>3. CASE tx'.status = "finalized"
    <3>1. queued
      BY <1>1, <2>1 DEF CleanedIsUpserted, Inv, UpsertedIsQueued
    <3>2. Outcome' = "finalized"
      BY <2>3 DEF Outcome
    <3>3. Promises!Finalize
      BY <1>1, <1>2, <2>1, <3>1, <3>2, ApartFacts, PagesSame
         DEF Apart, Promises!Finalize, Promises!pages
    <3> QED BY <3>3 DEF Promises!Next
  <2> QED BY <1>3, <2>1, <2>2, <2>3
<1> QED BY <1>4, <1>5, <1>6

LEMMA ChangeIsAllowed ==
    ASSUME Inv, Inv', CalmInv', Change
    PROVE  [Promises!Next]_Promises!vars
<1>1. tx \in Txs
  BY TypesUnfold DEF Inv
<1>2. Apart /\ queued' = queued
  BY DEF Change, StageSource, FinishWriting, PublishPayload, InstallDestination,
         UninstallDestination, RestoreSource, DropPayload, PurgeRecovery, Apart, user
<1>3. CASE PurgeRecovery
  <2>1. mount' = mount /\ tx' = tx
    BY <1>3 DEF PurgeRecovery
  <2> QED BY <1>2, <2>1, StutterIs DEF ApartFrom
<1>4. CASE ~ PurgeRecovery
  <2>1. /\ job.at \in ChangeNames \ {"purge"}
        /\ tx' = tx \/ Fails
    BY <1>4 DEF Change, Changes, StageSource, FinishWriting, PublishPayload, InstallDestination,
       UninstallDestination, RestoreSource, DropPayload, ChangeNames
  <2>2. tx.status \in Precommit
    BY <2>1, ChangeFacts
  <2>3. Outcome' \in {Outcome, "review"}
    BY <1>1, <2>1, <2>2, FailsOutcome
  <2> QED BY <1>2, <2>2, <2>3, WorkIs DEF Promises!Next
<1> QED BY <1>3, <1>4

\* The user changes what is seen of the pages that the user has changed, and no other.
LEMMA SeenStays ==
    ASSUME Inv, plan' = plan, NEW p \in Paths(plan), NEW g, mount' = [mount EXCEPT ![p] = g],
           \A o \in plan : Untouched(o)' => g # Page(o) /\ mount[p] # Page(o)
    PROVE  \A o \in plan : Untouched(o)' => (IsHome(o)' <=> IsHome(o)) /\ (IsThere(o)' <=> IsThere(o))
<1>1. mount'[p] = g /\ \A q \in Paths(plan) : q # p => mount'[q] = mount[q]
  BY TypesUnfold DEF Inv
<1>2. \A o \in plan, q \in Paths(plan) : Untouched(o)' => (mount'[q] = Page(o) <=> mount[q] = Page(o))
  BY <1>1
<1> QED BY <1>2, TypesUnfold, PlanFacts DEF Inv, IsHome, IsThere

LEMMA DisturbIs ==
    ASSUME Inv, Inv', plan' = plan, tx' = tx, queued' = queued, disturbed' = TRUE,
           NEW x, touched' = touched \cup {x} \/ touched' = touched,
           \A o \in plan : Untouched(o)' =>
               (IsHome(o)' <=> IsHome(o)) /\ (IsThere(o)' <=> IsThere(o)),
           owed' \subseteq owed \/ \E e \in Edits : owed' = owed \cup {e}
    PROVE  Promises!Disturb
<1>1. UntouchedPages' \in {UntouchedPages} \cup {UntouchedPages \ {page} : page \in UntouchedPages}
  <2>1. UntouchedPages' = UntouchedPages \/ UntouchedPages' = UntouchedPages \ {x}
    BY DEF UntouchedPages, Untouched
  <2>2. x \notin UntouchedPages => UntouchedPages \ {x} = UntouchedPages
    OBVIOUS
  <2> QED BY <2>1, <2>2
<1>2. UntouchedPages' \subseteq UntouchedPages
  BY <1>1
<1>3. HomePages' = HomePages \cap UntouchedPages' /\ TherePages' = TherePages \cap UntouchedPages'
  BY <1>2 DEF HomePages, TherePages, UntouchedPages
<1>4. KeptEdits' \in (SUBSET KeptEdits) \cup {KeptEdits \cup {e} : e \in Edits}
  <2>1. KeptEdits = owed /\ KeptEdits' = owed'
    BY KeptFacts DEF KeptEdits, Inv, EditsAreKept
  <2> QED BY <2>1
<1>5. Outcome' = Outcome /\ Excused' = TRUE
  BY DEF Outcome, Excused
<1> QED BY <1>1, <1>3, <1>4, <1>5 DEF Promises!Disturb

LEMMA UserIsDisturb ==
    ASSUME Inv, Inv', User
    PROVE  Promises!Disturb
<1>1. ASSUME NEW p \in Paths(plan), NEW e \in Edits, UserEdits(p, e)
      PROVE  Promises!Disturb
  <2> DEFINE f == mount[p]
             g == WithEdit(f, e)
  <2>1. /\ plan' = plan /\ tx' = tx /\ queued' = queued /\ disturbed' = TRUE
        /\ touched' = touched \cup {f.of} /\ owed' = owed \cup {e}
        /\ mount' = [mount EXCEPT ![p] = g] /\ f # None
    BY <1>1 DEF UserEdits, Touches
  <2>2. f \in Records /\ g.edits = f.edits \cup {e}
    BY <2>1, FileFacts, TypesUnfold DEF Inv
  <2>3. \A o \in plan : Untouched(o)' => g # Page(o) /\ f # Page(o)
    BY <2>1, <2>2, FileFacts DEF Untouched
  <2> QED BY <2>1, <2>3, SeenStays, DisturbIs
<1>2. ASSUME NEW p \in Paths(plan), NEW e \in Edits, UserAdds(p, e)
      PROVE  Promises!Disturb
  <2>1. /\ plan' = plan /\ tx' = tx /\ queued' = queued /\ disturbed' = TRUE
        /\ touched' = touched /\ owed' = owed \cup {e}
        /\ mount' = [mount EXCEPT ![p] = Own(e)] /\ mount[p] = None
    BY <1>2 DEF UserAdds
  <2>2. \A o \in plan : Own(e) # Page(o) /\ None # Page(o)
    BY FileFacts, PageIsFile
  <2> QED BY <2>1, <2>2, SeenStays, DisturbIs
<1>3. ASSUME NEW p \in Paths(plan), UserRemoves(p)
      PROVE  Promises!Disturb
  <2>1. /\ plan' = plan /\ tx' = tx /\ queued' = queued /\ disturbed' = TRUE
        /\ touched' = touched \cup {mount[p].of} /\ owed' = owed \ mount[p].edits
        /\ mount' = [mount EXCEPT ![p] = None]
    BY <1>3 DEF UserRemoves, Touches
  <2>2. \A o \in plan : Untouched(o)' => None # Page(o) /\ mount[p] # Page(o)
    BY <2>1, FileFacts, PageIsFile DEF Untouched
  <2>3. owed' \subseteq owed
    BY <2>1
  <2> QED BY <2>1, <2>2, <2>3, SeenStays, DisturbIs
<1>4. ASSUME NEW o \in plan, NEW e \in Edits, UserTypesLate(o, e)
      PROVE  Promises!Disturb
  <2>1. /\ plan' = plan /\ tx' = tx /\ queued' = queued /\ disturbed' = TRUE
        /\ touched' = touched \cup {recovery[o].of} /\ mount' = mount
        /\ owed' \subseteq owed \/ owed' = owed \cup {e}
    BY <1>4 DEF UserTypesLate, Touches
  <2>2. \A x \in plan : (IsHome(x)' <=> IsHome(x)) /\ (IsThere(x)' <=> IsThere(x))
    BY <2>1 DEF IsHome, IsThere
  <2> QED BY <2>1, <2>2, DisturbIs
<1> QED BY <1>1, <1>2, <1>3, <1>4 DEF User

LEMMA CrashIsAllowed ==
    ASSUME Inv, Inv', Crash
    PROVE  [Promises!Next]_Promises!vars
<1>1. /\ plan' = plan /\ mount' = mount /\ tx' = tx /\ queued' = queued /\ typed' = typed
      /\ owed' = owed /\ touched' = touched /\ disturbed' = (disturbed \/ job.at = "write")
  BY DEF Crash, files, user
<1>2. CASE job.at = "write"
  <2>1. tx.status \in Precommit
    BY <1>2, ChangeFacts DEF ChangeNames
  <2>2. Outcome \in {"open", "review"} /\ Outcome' = Outcome
    BY <1>1, <2>1, OutcomeIs DEF OutcomeFacts, Outcome, Precommit
  <2>3. KeptEdits' = KeptEdits
    BY <1>1 DEF KeptEdits, InMount, Paths, Inv, EditsAreKept
  <2>4. Excused' = TRUE
    BY <1>1, <1>2 DEF Excused
  <2>5. Promises!Interrupt
    BY <1>1, <2>2, <2>3, <2>4, PagesSame DEF Promises!Interrupt, Promises!pages
  <2> QED BY <2>5 DEF Promises!Next
<1>3. CASE job.at # "write"
  <2>1. disturbed' = disturbed
    BY <1>1, <1>3 DEF Inv, TypeOK
  <2> QED BY <1>1, <2>1, StutterIs DEF ApartFrom, Apart
<1> QED BY <1>2, <1>3

LEMMA InitImplements ==
    ASSUME Init
    PROVE  Promises!Init
<1>1. Inv
  BY InitInv
<1>2. /\ plan \in Plans /\ tx.status = "reserved" /\ touched = {} /\ owed = {} /\ ~ queued
      /\ queued = FALSE
      /\ mount = [p \in Paths(plan) |->
                     IF \E o \in plan : o.source = p
                     THEN Page(CHOOSE o \in plan : o.source = p) ELSE None]
  BY DEF Init
<1>3. UntouchedPages = plan
  BY <1>2 DEF UntouchedPages, Untouched
<1>4. HomePages = UntouchedPages
  BY <1>1, <1>2 DEF Inv, PagesOK, HomePages, UntouchedPages
<1>5. \A o \in plan : ~ IsThere(o)
  <2> SUFFICES ASSUME NEW o \in plan
               PROVE  ~ IsThere(o)
    OBVIOUS
  <2>1. CASE HasDestination(o)
    <3>1. o.destination \in Paths(plan) /\ WellFormed(plan)
      BY <1>2, <2>1, PlanFacts, DiscoveryAssumption
    <3>2. CASE mount[o.destination] = None
      BY <1>1, <2>1, <3>2, PageIsFile DEF IsThere
    <3>3. CASE \E x \in plan : x.source = o.destination
      <4> DEFINE c == CHOOSE x \in plan : x.source = o.destination
      <4>1. c \in plan /\ c.source = o.destination
        BY <3>3
      <4>2. c # o
        BY <3>1, <4>1 DEF WellFormed
      <4>3. mount[o.destination] = Page(c)
        BY <1>2, <3>1, <3>3
      <4>4. Page(c).of = c /\ Page(o).of = o
        BY <4>1, FileFacts
      <4> QED BY <2>1, <4>2, <4>3, <4>4 DEF IsThere
    <3> QED BY <1>2, <3>1, <3>2, <3>3
  <2>2. CASE ~ HasDestination(o)
    <3>1. HasSource(o) /\ IsHome(o)
      BY <1>1, <1>2, <1>4, <1>3, <2>2, PlanFacts DEF HomePages
    <3> QED BY <2>2, <3>1 DEF IsHome, IsThere
  <2> QED BY <2>1, <2>2
<1>6. TherePages = {}
  BY <1>3, <1>5 DEF TherePages
<1>7. Outcome = "open" /\ KeptEdits = {} /\ Excused \in BOOLEAN
  BY <1>2 DEF Outcome, KeptEdits, Excused
<1> QED BY <1>2, <1>3, <1>4, <1>6, <1>7 DEF Promises!Init

LEMMA NextImplements ==
    ASSUME Inv, Inv', CalmInv', CleanedIsUpserted, [Next]_vars
    PROVE  [Promises!Next]_Promises!vars
<1>1. CASE User
  BY <1>1, UserIsDisturb DEF Promises!Next
<1>2. CASE Drift \/ UNCHANGED vars
  <2>1. ApartFrom /\ tx' = tx
    BY <1>2 DEF Drift, vars, files, user, ApartFrom, Apart
  <2> QED BY <2>1, StutterIs
<1>3. CASE Decision
  <2>1. CASE \E o \in plan : \/ Prepare(o) \/ Stage(o) \/ Publish(o) \/ Install(o) \/ Delete(o)
                            \/ Vacate(o) \/ Restore(o) \/ Drop(o)
    BY <2>1, OperationIsWork DEF Promises!Next
  <2> QED BY <1>3, <2>1, WholeIsAllowed, CommittedIsAllowed DEF Decision
<1>4. CASE Change
  BY <1>4, ChangeIsAllowed
<1>5. CASE Crash
  BY <1>5, CrashIsAllowed
<1> QED BY <1>1, <1>2, <1>3, <1>4, <1>5 DEF Next

\* Journal, recovery directory and file-by-file steps implement the abstract transaction,
\* for any plan, whatever crashes, stale reservations and the user's work come between.
THEOREM ImplementsPromises == Spec => KeepsPromises
<1>1. Init => CleanedIsUpserted
  BY DEF Init, CleanedIsUpserted
<1>2. Init => Inv /\ CalmInv /\ Promises!Init
  BY InitInv, InitCalm, InitImplements
<1>3. Inv /\ CalmInv /\ CleanedIsUpserted /\ [Next]_vars
      => Inv' /\ CalmInv' /\ CleanedIsUpserted' /\ [Promises!Next]_Promises!vars
  BY NextKeeps, NextCalm, CleanedIsUpsertedKept, NextImplements
<1> QED BY <1>1, <1>2, <1>3, PTL DEF Spec, KeepsPromises, Promises!Spec
=============================================================================
