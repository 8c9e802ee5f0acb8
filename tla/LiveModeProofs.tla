---------------------------- MODULE LiveModeProofs ----------------------------
(***************************************************************************)
(* Proofs about LiveMode, for any edits and bounds: the types, that the    *)
(* runner misses no wake, and that nothing reaches the source without the  *)
(* review it needs.  The first is inductive as it stands; the others are   *)
(* proved on top of it, with what holds on the way to the wait (WakeOK)    *)
(* and of a push that is about to be applied (PlansOK).                    *)
(***************************************************************************)
EXTENDS LiveMode, SequenceTheorems, TLAPS

Remotes == [body : Bodies, version : Nat]
Events == [pc : {"idle", "save"}, hydration : {"Hydrated", "Dirty", "Conflicted"}, synced : Nat]
Budgets == [failures : 0..MaxFailures, coarse : 0..MaxCoarse, switches : 0..MaxSwitches,
            reviews : 0..MaxReviews, quits : 0..MaxQuits]
Sources == SUBSET (Kinds \X (Edits \cup Others))

\* What each variable is, without what relates the runner to its push.
Types ==
    /\ file \in Files /\ page \in Pages /\ remote \in Remotes
    /\ row \in Rows /\ mode \in Modes
    /\ queue \in Seq({"write", "push"}) /\ event \in Events
    /\ push \in [Pushers -> Pushes] /\ runner \in Runners /\ app \in {"idle", "wake"}
    /\ typed \subseteq Edits /\ landed \in Sources /\ dropped \in BOOLEAN
    /\ spent \in Budgets

RunnerAwaits == runner.pc = "push" <=> push["runner"].pc # "idle"

LEMMA TypesUnfold == TypeOK <=> Types /\ RunnerAwaits
  BY DEF TypeOK, Types, RunnerAwaits, Remotes, Events, Budgets, Sources

\* What is read from the variables.
LEMMA Fields ==
    ASSUME Types
    PROVE  /\ file.body \in Bodies /\ file.marks \in BOOLEAN
           /\ page.shadow \in Bodies /\ page.synced \in Nat /\ page.observed \in Nat
           /\ page.hydration \in {"Hydrated", "Dirty", "Conflicted"}
           /\ page.stuck \subseteq Bodies
           /\ page.failed \in BOOLEAN /\ page.cut \in BOOLEAN
           /\ remote.body \in Bodies /\ remote.version \in Nat
           /\ row.enabled \in BOOLEAN
           /\ \A p \in Pushers : push[p] \in Pushes /\ push[p].plan \in Bodies
  BY DEF Types, Files, Pages, Remotes, Rows, Pushes

\* A step that spends leaves a budget spent within its bounds.
LEMMA SpendFacts ==
    ASSUME spent \in Budgets
    PROVE  /\ Fails => spent' \in Budgets
           /\ Spend("coarse", MaxCoarse) => spent' \in Budgets
           /\ Spend("switches", MaxSwitches) => spent' \in Budgets
           /\ Spend("quits", MaxQuits) => spent' \in Budgets
           /\ spent.reviews < MaxReviews /\ spent' = [spent EXCEPT !.reviews = @ + 1]
                => spent' \in Budgets
  BY LiveModeAssumption DEF Spend, Fails, Budgets

LEMMA UnionFacts ==
    /\ {} \in Bodies
    /\ \A b, c \in Bodies : b \cup c \in Bodies /\ b \ c \in Bodies
    /\ \A e \in Edits \cup Others, b \in Bodies : b \cup {e} \in Bodies
  BY DEF Bodies

LEMMA IdleFacts ==
    IdlePush \in Pushes /\ FreshRunner \in Runners /\ IdleEvent \in Events
  BY DEF IdlePush, FreshRunner, IdleEvent, Pushes, Runners, Events, Kinds, Results, Steps, Bodies

-----------------------------------------------------------------------------
(* What the parts of a push leave behind *)

\* What auto-save leaves for review, and what needs a confirmation, is in no plan that
\* goes on without it.
Unreviewed(kind, plan) ==
    /\ kind = "auto" => plan \cap Reviewed = {}
    /\ kind # "explicit" => plan \cap Dangerous = {}

\* A step of one push leaves the pushes of the other processes alone.
OneChanges(p) == \A q \in Pushers \ {p} : push'[q] = push[q]

LEMMA BeginFacts ==
    ASSUME Types, NEW p \in Pushers, NEW kind \in Kinds, Begin(p, kind)
    PROVE  /\ push' \in [Pushers -> Pushes] /\ OneChanges(p)
           /\ push[p].pc = "idle" /\ push'[p].pc \in {"check", "done"}
           /\ push'[p].pc = "check" => Unreviewed(push'[p].kind, push'[p].plan)
<1> DEFINE start == [IdlePush EXCEPT !.kind = kind, !.plan = Pending, !.expect = page.synced]
<1>1. Pending \in Bodies
  BY Fields, UnionFacts DEF Pending
<1>2. start \in Pushes /\ start.plan = Pending /\ start.kind = kind
  BY <1>1, Fields, IdleFacts DEF Pushes, IdlePush
<1>3. PICK begun \in Planned(kind) : push' = [push EXCEPT ![p] = begun]
  BY DEF Begin
<1>4. \/ begun = [start EXCEPT !.pc = "check"] /\ ~ NeedsReview(kind)
      \/ \E result \in Results : begun = [start EXCEPT !.pc = "done", !.result = result]
  <2>1. CASE NeedsReview(kind)
    BY <1>3, <2>1 DEF Planned, Results
  <2>2. CASE ~ NeedsReview(kind) /\ Pending = {}
    BY <1>3, <2>2 DEF Planned, Results
  <2>3. CASE ~ NeedsReview(kind) /\ Pending # {}
    BY <1>3, <2>3 DEF Planned, Results
  <2> QED BY <2>1, <2>2, <2>3
<1>5. begun \in Pushes /\ begun.pc \in {"check", "done"}
  BY <1>2, <1>4 DEF Pushes
<1>6. begun.pc = "check" => Unreviewed(begun.kind, begun.plan)
  <2> SUFFICES ASSUME begun.pc = "check"
               PROVE  Unreviewed(begun.kind, begun.plan)
    OBVIOUS
  <2>1. begun = [start EXCEPT !.pc = "check"] /\ ~ NeedsReview(kind)
    BY <1>2, <1>4 DEF Pushes
  <2>2. begun.kind = kind /\ begun.plan = Pending
    BY <1>2, <2>1 DEF Pushes
  <2> QED BY <2>1, <2>2 DEF NeedsReview, Unreviewed
<1>7. push \in [Pushers -> Pushes] /\ push[p].pc = "idle"
  BY DEF Types, Begin
<1> QED BY <1>3, <1>5, <1>6, <1>7 DEF OneChanges

LEMMA PrepareFacts ==
    ASSUME Types, NEW p \in Pushers, NEW kind \in Kinds, Prepare(p, kind)
    PROVE  /\ push' \in [Pushers -> Pushes] /\ OneChanges(p)
           /\ push[p].pc = "idle" /\ push'[p].pc \in {"check", "done"}
           /\ push'[p].pc = "check" => Unreviewed(push'[p].kind, push'[p].plan)
           /\ spent' \in Budgets /\ dropped' \in BOOLEAN
<1>1. CASE Begin(p, kind) /\ UNCHANGED <<dropped, spent>>
  BY <1>1, BeginFacts DEF Types
<1>2. CASE ~ (Begin(p, kind) /\ UNCHANGED <<dropped, spent>>)
  <2> DEFINE begun == [IdlePush EXCEPT !.pc = "done", !.kind = kind, !.result = "refused"]
  <2>1. begun \in Pushes /\ begun.pc = "done"
    BY IdleFacts DEF Pushes, Results
  <2>2. /\ push[p].pc = "idle" /\ Fails /\ dropped' = TRUE
        /\ push' = [push EXCEPT ![p] = begun]
    BY <1>2 DEF Prepare
  <2>3. push \in [Pushers -> Pushes] /\ spent \in Budgets
    BY DEF Types
  <2>4. spent' \in Budgets /\ dropped' \in BOOLEAN
    BY <2>2, <2>3, SpendFacts
  <2> HIDE DEF begun
  <2>5. push' \in [Pushers -> Pushes] /\ OneChanges(p) /\ push'[p] = begun
    BY <2>1, <2>2, <2>3 DEF OneChanges
  <2> QED BY <2>1, <2>2, <2>4, <2>5
<1> QED BY <1>1, <1>2

LEMMA EndedFacts ==
    ASSUME Types, NEW p \in Pushers, NEW result \in Results, Ended(p, result)
    PROVE  push' \in [Pushers -> Pushes] /\ OneChanges(p) /\ push'[p].pc = "done"
<1>1. push \in [Pushers -> Pushes]
  BY DEF Types
<1> QED BY <1>1 DEF Ended, OneChanges, Pushes

\* A later push that ended well may take back the marks of an earlier one; else the page stays.
LEMMA WithoutFailureFacts ==
    ASSUME Types, NEW p \in Pushers, NEW next \in WithoutFailure(p)
    PROVE  next \in Pages
<1>1. PICK later \in BOOLEAN :
        next = [page EXCEPT !.failed = page.failed /\ later, !.cut = page.cut /\ later]
  BY Zenon DEF WithoutFailure
<1>2. (page.failed /\ later) \in BOOLEAN /\ (page.cut /\ later) \in BOOLEAN
  OBVIOUS
<1> DEFINE failed == page.failed /\ later
           cut == page.cut /\ later
<1>3. next = [page EXCEPT !.failed = failed, !.cut = cut]
  BY <1>1
<1> HIDE DEF failed, cut
<1>4. failed \in BOOLEAN /\ cut \in BOOLEAN
  BY <1>2 DEF failed, cut
<1>5. page \in Pages
  BY DEF Types
<1> QED BY <1>3, <1>4, <1>5 DEF Pages

LEMMA FailedToApplyFacts ==
    ASSUME Types, NEW p \in Pushers, NEW next \in FailedToApply(p)
    PROVE  next \in Pages
<1>1. PICK forgotten \in {{}, {push[p].plan}} :
        next = [page EXCEPT !.failed = TRUE, !.stuck = @ \ forgotten]
  BY DEF FailedToApply
<1>2. page.stuck \ forgotten \subseteq Bodies
  BY Fields
<1>3. page \in Pages
  BY DEF Types
<1> QED BY <1>1, <1>2, <1>3 DEF Pages

LEMMA CreditFacts ==
    ASSUME Types, NEW pushers \in SUBSET Pushers, Credit(pushers)
    PROVE  /\ landed' \in Sources
           /\ \A kind, e : <<kind, e>> \in landed' =>
                \/ <<kind, e>> \in landed
                \/ \E p \in pushers : kind = push[p].kind /\ e \in push[p].plan
<1>1. \A p \in pushers : push[p].kind \in Kinds /\ push[p].plan \subseteq Edits \cup Others
  BY Fields DEF Pushes, Bodies
<1>2. UNION {{<<push[p].kind, e>> : e \in push[p].plan} : p \in pushers}
        \subseteq Kinds \X (Edits \cup Others)
  BY <1>1
<1>3. landed' \in Sources
  BY <1>2 DEF Credit, Types, Sources
<1>4. \A kind, e : <<kind, e>> \in UNION {{<<push[p].kind, x>> : x \in push[p].plan} : p \in pushers}
        => \E p \in pushers : kind = push[p].kind /\ e \in push[p].plan
  OBVIOUS
<1> QED BY <1>3, <1>4 DEF Credit

LEMMA VersionedFacts ==
    ASSUME Types, NEW body \in Bodies, Versioned(body)
    PROVE  remote' \in Remotes /\ spent' \in Budgets
  BY SpendFacts DEF Versioned, Types, Remotes

\* A push that is over is idle, and the runner whose push it was no longer awaits it.
LEMMA ReturnFacts ==
    ASSUME Types, NEW p \in Pushers, Return(p)
    PROVE  /\ push' \in [Pushers -> Pushes] /\ OneChanges(p) /\ push'[p] = IdlePush
           /\ runner' \in Runners
           /\ p = "runner" => runner'.pc = "result"
           /\ p # "runner" => runner' = runner
<1>1. push \in [Pushers -> Pushes] /\ runner \in Runners /\ push[p].result \in Results
  BY Fields DEF Types, Pushes
<1> QED BY <1>1, IdleFacts DEF Return, OneChanges, Runners, Steps

-----------------------------------------------------------------------------
(* Types *)

Steady == Types /\ RunnerAwaits

\* A push goes on without its runner noticing.
LEMMA AwaitsStays ==
    ASSUME Steady, NEW p \in Pushers, OneChanges(p), runner' = runner,
           push[p].pc # "idle", push'[p].pc # "idle"
    PROVE  RunnerAwaits'
  BY DEF Steady, RunnerAwaits, OneChanges, Pushers

LEMMA AwaitsReturns ==
    ASSUME Steady, NEW p \in Pushers, Return(p)
    PROVE  RunnerAwaits'
<1>1. CASE p = "runner"
  BY <1>1, ReturnFacts DEF Steady, RunnerAwaits, IdlePush
<1>2. CASE p # "runner"
  BY <1>2, ReturnFacts DEF Steady, RunnerAwaits, OneChanges, Pushers
<1> QED BY <1>1, <1>2

\* A step of the runner that neither begins nor ends its push.
LEMMA AwaitsNothing ==
    ASSUME Steady, push' = push, runner.pc # "push", runner'.pc # "push"
    PROVE  RunnerAwaits'
  BY DEF Steady, RunnerAwaits

LEMMA CheckTypes ==
    ASSUME Steady, NEW p \in Pushers, Check(p)
    PROVE  Steady'
<1>1. /\ file' = file /\ remote' = remote /\ row' = row /\ mode' = mode /\ queue' = queue
      /\ event' = event /\ runner' = runner /\ app' = app /\ typed' = typed
      /\ landed' = landed /\ dropped' = dropped
  BY DEF Check, settings, daemon, history
<1>2. Types /\ push[p].pc = "check" /\ push \in [Pushers -> Pushes]
  BY DEF Check, Steady, Types
<1>3. /\ push' \in [Pushers -> Pushes] /\ OneChanges(p) /\ push'[p].pc # "idle"
      /\ page' \in Pages /\ spent' \in Budgets
  <2>1. CASE push' = [push EXCEPT ![p].pc = "apply"] /\ UNCHANGED <<page, spent>>
    BY <1>2, <2>1 DEF Types, Pushes, OneChanges
  <2>2. CASE Ended(p, "remote") /\ page' \in WithoutFailure(p) /\ UNCHANGED spent
    BY <1>2, <2>2, EndedFacts, WithoutFailureFacts DEF Types, Results
  <2>3. CASE Fails /\ Ended(p, "failure") /\ page' \in WithoutFailure(p)
    BY <1>2, <2>3, EndedFacts, WithoutFailureFacts, SpendFacts DEF Types, Results
  <2> QED BY <2>1, <2>2, <2>3 DEF Check
<1>4. RunnerAwaits'
  BY <1>1, <1>2, <1>3, AwaitsStays
<1> QED BY <1>1, <1>2, <1>3, <1>4 DEF Steady, Types

LEMMA ApplyTypes ==
    ASSUME Steady, NEW p \in Pushers, Apply(p)
    PROVE  Steady'
<1>1. /\ file' = file /\ row' = row /\ mode' = mode /\ queue' = queue
      /\ event' = event /\ runner' = runner /\ app' = app /\ typed' = typed
      /\ dropped' = dropped
  BY DEF Apply, settings, daemon
<1>2. Types /\ push[p].pc = "apply" /\ push \in [Pushers -> Pushes]
  BY DEF Apply, Steady, Types
<1>3. remote.body \cup push[p].plan \in Bodies /\ {p} \in SUBSET Pushers
  BY <1>2, Fields, UnionFacts
<1>4. /\ push' \in [Pushers -> Pushes] /\ OneChanges(p) /\ push'[p].pc # "idle"
      /\ page' \in Pages /\ remote' \in Remotes /\ landed' \in Sources /\ spent' \in Budgets
  <2>1. CASE /\ Versioned(remote.body \cup push[p].plan) /\ Credit({p})
             /\ push' = [push EXCEPT ![p].pc = "reconcile"] /\ UNCHANGED page
    <3>1. remote' \in Remotes /\ spent' \in Budgets /\ landed' \in Sources
      BY <1>2, <1>3, <2>1, VersionedFacts, CreditFacts
    <3> QED BY <1>2, <2>1, <3>1 DEF Types, Pushes, OneChanges
  <2>2. CASE /\ Ended(p, "remote") /\ page' \in FailedToApply(p)
             /\ UNCHANGED <<remote, landed, spent>>
    BY <1>2, <2>2, EndedFacts, FailedToApplyFacts DEF Types, Results
  <2>3. CASE /\ Fails /\ Ended(p, "failure") /\ page' \in FailedToApply(p)
             /\ UNCHANGED <<remote, landed>>
    BY <1>2, <2>3, EndedFacts, FailedToApplyFacts, SpendFacts DEF Types, Results
  <2>4. CASE /\ Fails /\ Ended(p, "failure") /\ page' \in FailedToApply(p)
             /\ remote' = [body |-> remote.body \cup push[p].plan,
                           version |-> remote.version + 1]
             /\ Credit({p})
    <3>1. remote' \in Remotes
      BY <1>2, <1>3, <2>4, Fields DEF Remotes
    <3>2. landed' \in Sources
      BY <1>2, <1>3, <2>4, CreditFacts
    <3> QED BY <1>2, <2>4, <3>1, <3>2, EndedFacts, FailedToApplyFacts, SpendFacts DEF Types, Results
  <2> QED BY <2>1, <2>2, <2>3, <2>4 DEF Apply
<1>5. RunnerAwaits'
  BY <1>1, <1>2, <1>4, AwaitsStays
<1> QED BY <1>1, <1>2, <1>4, <1>5 DEF Steady, Types

LEMMA ReconcileTypes ==
    ASSUME Steady, NEW p \in Pushers, Reconcile(p)
    PROVE  Steady'
<1>1. /\ remote' = remote /\ row' = row /\ mode' = mode /\ queue' = queue
      /\ event' = event /\ runner' = runner /\ app' = app /\ typed' = typed
      /\ landed' = landed /\ dropped' = dropped
  BY DEF Reconcile, settings, daemon, history
<1>2. Types /\ push[p].pc = "reconcile" /\ push \in [Pushers -> Pushes] /\ page \in Pages
  BY DEF Reconcile, Steady, Types
<1>3. /\ push' \in [Pushers -> Pushes] /\ OneChanges(p) /\ push'[p].pc # "idle"
      /\ page' \in Pages /\ file' \in Files /\ spent' \in Budgets
  <2>1. ASSUME file' = [body |-> remote.body, marks |-> FALSE], Ended(p, "ok"), spent' = spent,
               NEW next \in WithoutFailure(p),
               page' = [next EXCEPT !.shadow = remote.body, !.hydration = "Hydrated",
                                    !.synced = remote.version, !.observed = remote.version,
                                    !.hint = FALSE]
        PROVE  /\ push' \in [Pushers -> Pushes] /\ OneChanges(p) /\ push'[p].pc # "idle"
               /\ page' \in Pages /\ file' \in Files /\ spent' \in Budgets
    <3>1. next \in Pages
      BY <1>2, WithoutFailureFacts
    <3>2. page' \in Pages /\ file' \in Files
      BY <1>2, <2>1, <3>1, Fields DEF Pages, Files
    <3> QED BY <1>2, <2>1, <3>2, EndedFacts DEF Types, Results
  <2>2. CASE /\ Fails /\ Ended(p, "failure")
             /\ page' = [page EXCEPT !.failed = TRUE, !.stuck = @ \cup {push[p].plan}]
             /\ UNCHANGED file
    <3>1. page' \in Pages
      BY <1>2, <2>2, Fields DEF Pages
    <3> QED BY <1>2, <2>2, <3>1, EndedFacts, SpendFacts DEF Types, Results
  <2> QED BY <2>1, <2>2 DEF Reconcile
<1>4. RunnerAwaits'
  BY <1>1, <1>2, <1>3, AwaitsStays
<1> QED BY <1>1, <1>2, <1>3, <1>4 DEF Steady, Types

LEMMA ReadRowTypes ==
    ASSUME Steady, NEW p \in Pushers, ReadRow(p)
    PROVE  Steady'
<1>1. /\ file' = file /\ page' = page /\ remote' = remote /\ row' = row /\ mode' = mode
      /\ queue' = queue /\ event' = event /\ app' = app /\ typed' = typed
      /\ landed' = landed /\ dropped' = dropped /\ spent' = spent
  BY DEF ReadRow, settings, daemon, history
<1>2. Types /\ push[p].pc = "done" /\ push \in [Pushers -> Pushes]
  BY DEF ReadRow, Steady, Types
<1>3. CASE Return(p)
  <2>1. RunnerAwaits'
    BY <1>3, AwaitsReturns
  <2> QED BY <1>1, <1>2, <1>3, <2>1, ReturnFacts DEF Steady, Types
<1>4. CASE ~ Return(p)
  <2>1. /\ push' = [push EXCEPT ![p].pc = "mark", ![p].enabled = row.enabled]
        /\ runner' = runner
    BY <1>4 DEF ReadRow
  <2>2. push' \in [Pushers -> Pushes] /\ OneChanges(p) /\ push'[p].pc = "mark"
    BY <1>2, <2>1, Fields DEF Pushes, OneChanges
  <2>3. RunnerAwaits'
    BY <1>2, <2>1, <2>2, AwaitsStays
  <2> QED BY <1>1, <1>2, <2>1, <2>2, <2>3 DEF Steady, Types
<1> QED BY <1>3, <1>4

LEMMA SaveRowTypes ==
    ASSUME Steady, NEW p \in Pushers, SaveRow(p)
    PROVE  Steady'
<1>1. /\ file' = file /\ page' = page /\ remote' = remote /\ mode' = mode
      /\ queue' = queue /\ event' = event /\ app' = app /\ typed' = typed
      /\ landed' = landed /\ dropped' = dropped /\ spent' = spent
  BY DEF SaveRow, daemon, history
<1>2. Types /\ push[p] \in Pushes
  BY Fields DEF Steady
<1>3. row' \in Rows
  BY <1>2 DEF SaveRow, Rows, Mark, Pushes
<1>4. Return(p)
  BY DEF SaveRow
<1>5. RunnerAwaits'
  BY <1>4, AwaitsReturns
<1> QED BY <1>1, <1>2, <1>3, <1>4, <1>5, ReturnFacts DEF Steady, Types

LEMMA PushStepTypes ==
    ASSUME Steady, NEW p \in Pushers, PushStep(p)
    PROVE  Steady'
  BY CheckTypes, ApplyTypes, ReconcileTypes, ReadRowTypes, SaveRowTypes DEF PushStep

\* A step of the daemon or of a person that leaves pushes and runner alone.
LEMMA AwaitsAlone ==
    ASSUME Steady, push' = push, runner' = runner
    PROVE  RunnerAwaits'
  BY DEF Steady, RunnerAwaits

\* Somebody other than the runner begins a push.
LEMMA AwaitsOthers ==
    ASSUME Steady, NEW p \in Pushers \ {"runner"}, OneChanges(p), runner' = runner
    PROVE  RunnerAwaits'
  BY DEF Steady, RunnerAwaits, OneChanges, Pushers

LEMMA QueueFacts ==
    ASSUME queue \in Seq({"write", "push"})
    PROVE  /\ queue # <<>> => Tail(queue) \in Seq({"write", "push"})
           /\ <<"push">> \o queue \in Seq({"write", "push"})
           /\ Noticed \in Seq({"write", "push"})
<1> DEFINE S == Seq({"write", "push"})
<1>1. <<"push">> \in S /\ <<"write">> \in S
  OBVIOUS
<1>2. \A q, r \in S : q \o r \in S
  BY ConcatProperties
<1>3. queue # <<>> => Tail(queue) \in S
  BY HeadTailProperties
<1>4. Noticed \in S
  BY <1>1, <1>2 DEF Noticed
<1> QED BY <1>1, <1>2, <1>3, <1>4

LEMMA DaemonStepTypes ==
    ASSUME Steady, DaemonStep
    PROVE  Steady'
<1>0. Types
  BY DEF Steady
<1>1. CASE TakeWrite
  <2>1. queue' \in Seq({"write", "push"}) /\ event' \in Events
    BY <1>0, <1>1, QueueFacts, Fields DEF TakeWrite, Types, Events
  <2>2. RunnerAwaits'
    BY <1>1, AwaitsAlone DEF TakeWrite
  <2> QED BY <1>0, <1>1, <2>1, <2>2 DEF TakeWrite, Steady, Types, settings, history
<1>2. CASE SaveWrite
  <2>1. queue' \in Seq({"write", "push"}) /\ event' \in Events
    BY <1>0, <1>2, QueueFacts, IdleFacts DEF SaveWrite, Types
  <2>2. page' \in Pages
    BY <1>0, <1>2 DEF SaveWrite, Types, Pages, Events
  <2>3. RunnerAwaits'
    BY <1>2, AwaitsAlone DEF SaveWrite
  <2> QED BY <1>0, <1>2, <2>1, <2>2, <2>3 DEF SaveWrite, Steady, Types, settings, history
<1>3. CASE TakePush
  <2>1. queue' \in Seq({"write", "push"})
    BY <1>0, <1>3, QueueFacts DEF TakePush, Types
  <2>2. Prepare("daemon", "auto") /\ "daemon" \in Pushers \ {"runner"} /\ "auto" \in Kinds
    BY <1>3 DEF TakePush, Pushers, Kinds
  <2>3. /\ push' \in [Pushers -> Pushes] /\ OneChanges("daemon")
        /\ spent' \in Budgets /\ dropped' \in BOOLEAN
    BY <1>0, <2>2, PrepareFacts
  <2>4. RunnerAwaits'
    BY <1>3, <2>2, <2>3, AwaitsOthers DEF TakePush
  <2> QED BY <1>0, <1>3, <2>1, <2>3, <2>4 DEF TakePush, Steady, Types, settings
<1> QED BY <1>1, <1>2, <1>3 DEF DaemonStep

LEMMA ObserveTypes ==
    ASSUME Steady, Observe
    PROVE  Steady'
<1>0. Types
  BY DEF Steady
<1>1. page' \in Pages /\ row' \in Rows
  <2>1. PICK hint \in BOOLEAN : page' = [page EXCEPT !.observed = remote.version, !.hint = hint]
    BY DEF Observe
  <2>2. page' \in Pages
    BY <1>0, <2>1, Fields DEF Types, Pages
  <2>3. row' = row \/ row' = [row EXCEPT !.state = "PausedRemoteChanged"]
    BY DEF Observe
  <2> QED BY <1>0, <2>2, <2>3 DEF Types, Rows
<1>2. RunnerAwaits'
  BY AwaitsAlone DEF Observe
<1> QED BY <1>0, <1>1, <1>2 DEF Observe, Steady, Types, daemon, history

LEMMA FastForwardTypes ==
    ASSUME Steady, FastForward
    PROVE  Steady'
<1>0. Types
  BY DEF Steady
<1>1. page' \in Pages /\ file' \in Files
  BY <1>0, Fields DEF FastForward, Types, Pages, Files
<1>2. RunnerAwaits'
  BY AwaitsAlone DEF FastForward
<1> QED BY <1>0, <1>1, <1>2 DEF FastForward, Steady, Types, settings, daemon, history

\* The runner goes from step to step.
LEMMA GotoFacts ==
    ASSUME Types
    PROVE  /\ \A pc \in Steps : Goto(pc) => runner' \in Runners /\ runner'.pc = pc
           /\ \A result \in Results : TickEnds(result) => runner' \in Runners /\ runner'.pc = "result"
  BY DEF Types, Goto, TickEnds, Runners, Steps

LEMMA OnFacts ==
    /\ On("Active") \in Modes /\ On("Syncing") \in Modes
    /\ On("Active").enabled /\ On("Syncing").enabled
  BY DEF On, Modes

\* The steps of the runner that touch nothing but its own state and the mode.
LEMMA RunnerAloneTypes ==
    ASSUME Steady,
           Look \/ Resume \/ Wait \/ Wake \/ BeginTick \/ SaveSyncing \/ FetchDrift
             \/ ReadMode \/ SaveResult \/ Rest
    PROVE  Steady'
<1>0. Types /\ runner \in Runners /\ spent \in Budgets /\ mode \in Modes
  BY DEF Steady, Types
<1>1. /\ file' = file /\ page' = page /\ remote' = remote /\ row' = row /\ queue' = queue
      /\ event' = event /\ push' = push /\ app' = app
      /\ typed' = typed /\ landed' = landed /\ dropped' = dropped
  BY DEF Look, Resume, Wait, Wake, BeginTick, SaveSyncing, FetchDrift, ReadMode, SaveResult,
         Rest, settings, daemon, history
<1>2. /\ runner' \in Runners /\ runner.pc # "push" /\ runner'.pc # "push"
      /\ mode' \in Modes /\ spent' \in Budgets
  <2>1. CASE Look
    BY <1>0, <2>1, GotoFacts DEF Look, settings, Steps
  <2>2. CASE Resume
    BY <1>0, <2>2, GotoFacts, OnFacts DEF Resume, Steps
  <2>3. CASE Wait \/ Wake
    BY <1>0, <2>3 DEF Wait, Wake, settings, Runners, Steps
  <2>4. CASE BeginTick \/ ReadMode
    BY <1>0, <2>4, GotoFacts DEF BeginTick, ReadMode, settings, Steps
  <2>5. CASE SaveSyncing
    BY <1>0, <2>5, GotoFacts, OnFacts DEF SaveSyncing, Steps
  <2>6. CASE FetchDrift
    <3>1. mode' = mode /\ runner.pc = "fetch" /\ spent' \in Budgets
      BY <1>0, <2>6, SpendFacts DEF FetchDrift, settings
    <3>2. CASE TickEnds("drift") \/ TickEnds("failure")
      BY <1>0, <3>1, <3>2, GotoFacts DEF Results
    <3>3. CASE runner' = [runner EXCEPT !.pc = "merge", !.base = page.shadow,
                                        !.body = remote.body, !.version = remote.version]
      BY <1>0, <3>1, <3>3, Fields DEF Runners, Steps
    <3> QED BY <2>6, <3>2, <3>3 DEF FetchDrift
  <2>7. CASE SaveResult
    <3>1. mode' \in Modes
      BY <2>7, OnFacts DEF SaveResult, Modes
    <3> QED BY <1>0, <2>7, <3>1, GotoFacts DEF SaveResult, Steps
  <2>8. CASE Rest
    BY <1>0, <2>8, IdleFacts DEF Rest, settings, FreshRunner
  <2> QED BY <2>1, <2>2, <2>3, <2>4, <2>5, <2>6, <2>7, <2>8
<1>3. RunnerAwaits'
  BY <1>1, <1>2, AwaitsNothing
<1> QED BY <1>0, <1>1, <1>2, <1>3 DEF Steady, Types

\* The runner begins a push: it awaits exactly that.
LEMMA RunnerBegins ==
    ASSUME Steady, Prepare("runner", "live"), Goto("push")
    PROVE  /\ push' \in [Pushers -> Pushes] /\ spent' \in Budgets /\ dropped' \in BOOLEAN
           /\ runner' \in Runners /\ RunnerAwaits'
<1>1. Types /\ "runner" \in Pushers /\ "live" \in Kinds /\ "push" \in Steps
  BY DEF Steady, Pushers, Kinds, Steps
<1>2. push' \in [Pushers -> Pushes] /\ spent' \in Budgets /\ dropped' \in BOOLEAN
  BY <1>1, PrepareFacts
<1>3. push'["runner"].pc # "idle"
  BY <1>1, PrepareFacts
<1>4. runner' \in Runners /\ runner'.pc = "push"
  BY <1>1, GotoFacts
<1> QED BY <1>2, <1>3, <1>4 DEF RunnerAwaits

LEMMA InspectTypes ==
    ASSUME Steady, Inspect
    PROVE  Steady'
<1>0. Types /\ runner.pc = "inspect"
  BY DEF Steady, Inspect
<1>1. /\ file' = file /\ page' = page /\ remote' = remote /\ row' = row /\ mode' = mode
      /\ queue' = queue /\ event' = event /\ app' = app /\ typed' = typed /\ landed' = landed
  BY DEF Inspect, settings, daemon
<1>2. /\ push' \in [Pushers -> Pushes] /\ spent' \in Budgets /\ dropped' \in BOOLEAN
      /\ runner' \in Runners /\ RunnerAwaits'
  <2>1. CASE Prepare("runner", "live") /\ Goto("push")
    BY <2>1, RunnerBegins
  <2>2. CASE /\ TickEnds("ok") \/ TickEnds("review") \/ Goto("fetch")
             /\ UNCHANGED <<push, dropped, spent>>
    <3>1. runner' \in Runners /\ runner'.pc # "push"
      BY <1>0, <2>2, GotoFacts DEF Results, Steps
    <3> QED BY <1>0, <2>2, <3>1, AwaitsNothing DEF Types
  <2> QED BY <2>1, <2>2 DEF Inspect
<1> QED BY <1>0, <1>1, <1>2 DEF Steady, Types

LEMMA PushMergedTypes ==
    ASSUME Steady, PushMerged
    PROVE  Steady'
<1>0. Types
  BY DEF Steady
<1>1. /\ file' = file /\ page' = page /\ remote' = remote /\ row' = row /\ mode' = mode
      /\ queue' = queue /\ event' = event /\ app' = app /\ typed' = typed /\ landed' = landed
  BY DEF PushMerged, settings, daemon
<1>2. /\ push' \in [Pushers -> Pushes] /\ spent' \in Budgets /\ dropped' \in BOOLEAN
      /\ runner' \in Runners /\ RunnerAwaits'
  BY RunnerBegins DEF PushMerged
<1> QED BY <1>0, <1>1, <1>2 DEF Steady, Types

LEMMA MergeWriteTypes ==
    ASSUME Steady, MergeWrite
    PROVE  Steady'
<1>0. Types /\ runner.pc = "merge" /\ runner \in Runners
  BY DEF Steady, MergeWrite, Types
<1>1. /\ remote' = remote /\ row' = row /\ mode' = mode /\ event' = event /\ push' = push
      /\ app' = app /\ typed' = typed /\ landed' = landed /\ dropped' = dropped /\ spent' = spent
  BY DEF MergeWrite, settings, history
<1> DEFINE clash == Clashes(runner.base, runner.body)
<1>2. /\ file' = [body |-> file.body \cup runner.body, marks |-> file.marks \/ clash]
      /\ page' = [page EXCEPT !.shadow = runner.body, !.synced = runner.version,
                              !.observed = runner.version, !.hint = FALSE,
                              !.hydration = IF clash THEN "Conflicted" ELSE "Dirty"]
      /\ runner' = [FreshRunner EXCEPT !.pc = IF clash THEN "result" ELSE "pushMerged",
                                       !.woken = runner.woken]
      /\ queue' = Noticed
  BY DEF MergeWrite
<1>3. (file.marks \/ clash) \in BOOLEAN /\ file.body \cup runner.body \in Bodies
  BY <1>0, Fields, UnionFacts DEF Runners
<1> DEFINE marks == file.marks \/ clash
<1>4. marks \in BOOLEAN
  BY <1>3
<1> HIDE DEF marks, clash
<1>5. file' \in Files
  <2>1. file' = [body |-> file.body \cup runner.body, marks |-> marks]
    BY <1>2 DEF marks
  <2> QED BY <1>3, <1>4, <2>1 DEF Files
<1>6. page' \in Pages
  BY <1>0, <1>2 DEF Types, Pages, Runners
<1>7. runner' \in Runners /\ runner'.pc # "push"
  BY <1>0, <1>2, IdleFacts DEF Runners, Steps
<1>8. queue' \in Seq({"write", "push"})
  BY <1>0, <1>2, QueueFacts DEF Types
<1>9. RunnerAwaits'
  BY <1>0, <1>1, <1>7, AwaitsNothing
<1> QED BY <1>0, <1>1, <1>5, <1>6, <1>7, <1>8, <1>9 DEF Steady, Types

LEMMA RunnerStepTypes ==
    ASSUME Steady, RunnerStep
    PROVE  Steady'
  BY RunnerAloneTypes, InspectTypes, PushMergedTypes, MergeWriteTypes DEF RunnerStep

LEMMA SaveEditTypes ==
    ASSUME Steady, NEW e \in Edits, SaveEdit(e)
    PROVE  Steady'
<1>0. Types
  BY DEF Steady
<1>1. file.body \cup {e} \in Bodies
  BY <1>0, Fields, UnionFacts
<1>2. file' \in Files
  BY <1>0, <1>1 DEF SaveEdit, Types, Files
<1>3. queue' \in Seq({"write", "push"})
  BY <1>0, QueueFacts DEF SaveEdit, Types
<1>4. RunnerAwaits'
  BY AwaitsAlone DEF SaveEdit
<1> QED BY <1>0, <1>2, <1>3, <1>4 DEF SaveEdit, Steady, Types, settings

LEMMA ResolveTypes ==
    ASSUME Steady, Resolve
    PROVE  Steady'
<1>0. Types
  BY DEF Steady
<1>1. file' \in Files /\ queue' \in Seq({"write", "push"})
  BY <1>0, QueueFacts DEF Resolve, Types, Files
<1>2. RunnerAwaits'
  BY AwaitsAlone DEF Resolve
<1> QED BY <1>0, <1>1, <1>2 DEF Resolve, Steady, Types, settings, history

LEMMA OthersEditTypes ==
    ASSUME Steady, NEW r \in Others, OthersEdit(r)
    PROVE  Steady'
<1>0. Types
  BY DEF Steady
<1>1. remote.body \cup {r} \in Bodies
  BY <1>0, Fields, UnionFacts
<1>2. remote' \in Remotes /\ spent' \in Budgets
  BY <1>0, <1>1, VersionedFacts DEF OthersEdit
<1>3. RunnerAwaits'
  BY AwaitsAlone DEF OthersEdit
<1> QED BY <1>0, <1>2, <1>3 DEF OthersEdit, Steady, Types, settings, daemon, history

LEMMA ReviewTypes ==
    ASSUME Steady, NEW p \in {"daemon", "app"}, Review(p)
    PROVE  Steady'
<1>0. Types /\ p \in Pushers \ {"runner"} /\ "explicit" \in Kinds
  BY DEF Steady, Pushers, Kinds
<1>1. push' \in [Pushers -> Pushes] /\ OneChanges(p)
  BY <1>0, BeginFacts DEF Review
<1>2. spent' \in Budgets
  BY <1>0, SpendFacts DEF Review, Types
<1>3. RunnerAwaits'
  BY <1>0, <1>1, AwaitsOthers DEF Review
<1> QED BY <1>0, <1>1, <1>2, <1>3 DEF Review, Steady, Types, settings, daemon, history

LEMMA SwitchModeTypes ==
    ASSUME Steady, NEW on \in BOOLEAN, SwitchMode(on)
    PROVE  Steady'
<1>0. Types
  BY DEF Steady
<1>1. mode' \in Modes
  BY OnFacts DEF SwitchMode, Modes
<1>2. spent' \in Budgets
  BY <1>0, SpendFacts DEF SwitchMode, Types
<1>3. RunnerAwaits'
  BY AwaitsAlone DEF SwitchMode
<1> QED BY <1>0, <1>1, <1>2, <1>3 DEF SwitchMode, Steady, Types, daemon, history

LEMMA SwitchFileTypes ==
    ASSUME Steady, NEW on \in BOOLEAN, SwitchFile(on)
    PROVE  Steady'
<1>0. Types /\ "app" \in Pushers \ {"runner"} /\ "auto" \in Kinds
  BY DEF Steady, Pushers, Kinds
<1>1. push' \in [Pushers -> Pushes] /\ OneChanges("app")
  BY <1>0, BeginFacts DEF SwitchFile, Types, OneChanges
<1>2. row' \in Rows
  BY DEF SwitchFile, Rows
<1>3. spent' \in Budgets
  BY <1>0, SpendFacts DEF SwitchFile, Types
<1>4. RunnerAwaits'
  BY <1>0, <1>1, AwaitsOthers DEF SwitchFile
<1> QED BY <1>0, <1>1, <1>2, <1>3, <1>4 DEF SwitchFile, Steady, Types, daemon, history

LEMMA WakeRunnerTypes ==
    ASSUME Steady, WakeRunner
    PROVE  Steady'
<1>0. Types
  BY DEF Steady
<1>1. runner' \in Runners /\ runner'.pc = runner.pc
  BY <1>0 DEF WakeRunner, Types, Runners
<1>2. RunnerAwaits'
  BY <1>1 DEF WakeRunner, Steady, RunnerAwaits
<1> QED BY <1>0, <1>1, <1>2 DEF WakeRunner, Steady, Types, settings, daemon, history

\* What the end of the app leaves of its pushes.
LEMMA QuitFacts ==
    ASSUME Types, Quit
    PROVE  /\ push' \in [Pushers -> Pushes]
           /\ \A p \in Pushers : push'[p] = push[p] \/ push'[p] = IdlePush
           /\ push'["runner"] = IdlePush
           /\ page' \in Pages /\ remote' \in Remotes /\ landed' \in Sources
           /\ spent' \in Budgets
           /\ \A kind, e : <<kind, e>> \in landed' =>
                \/ <<kind, e>> \in landed
                \/ \E p \in Pushers : /\ push[p].pc = "apply"
                                      /\ kind = push[p].kind /\ e \in push[p].plan
<1> DEFINE own == {"runner", "app"}
           at(pc) == {p \in own : push[p].pc = pc}
<1>1. push' = [p \in Pushers |-> IF p \in own THEN IdlePush ELSE push[p]]
  BY DEF Quit
<1>2. push \in [Pushers -> Pushes] /\ own \subseteq Pushers /\ page \in Pages
  BY DEF Types, Pushers
<1>3. /\ push' \in [Pushers -> Pushes]
      /\ \A p \in Pushers : push'[p] = push[p] \/ push'[p] = IdlePush
      /\ push'["runner"] = IdlePush
  BY <1>1, <1>2, IdleFacts
<1>4. PICK sent \in SUBSET {p \in at("apply") : push[p].expect = remote.version} :
        /\ Credit(sent)
        /\ remote' = [body |-> remote.body \cup UNION {push[p].plan : p \in sent},
                      version |-> remote.version + (IF sent = {} THEN 0 ELSE 1)]
  BY DEF Quit
<1>5. sent \in SUBSET Pushers /\ \A p \in sent : push[p].pc = "apply"
  BY <1>2, <1>4
<1>6. remote' \in Remotes
  <2>1. \A p \in sent : push[p].plan \subseteq Edits \cup Others
    BY <1>5, Fields DEF Bodies
  <2>2. UNION {push[p].plan : p \in sent} \in Bodies
    BY <2>1 DEF Bodies
  <2>3. remote.body \cup UNION {push[p].plan : p \in sent} \in Bodies
    BY <2>2, Fields, UnionFacts
  <2>4. remote.version + (IF sent = {} THEN 0 ELSE 1) \in Nat
    BY Fields
  <2> QED BY <1>4, <2>3, <2>4 DEF Remotes
<1>7. page' \in Pages
  <2>1. PICK forgotten : page' =
          [page EXCEPT !.stuck = (@ \cup {push[p].plan : p \in at("reconcile")}) \ forgotten,
                       !.cut = @ \/ at("check") \cup at("apply") \cup at("reconcile") # {}]
    BY DEF Quit
  <2> DEFINE stuck == (page.stuck \cup {push[p].plan : p \in at("reconcile")}) \ forgotten
             cut == page.cut \/ at("check") \cup at("apply") \cup at("reconcile") # {}
  <2>2. page' = [page EXCEPT !.stuck = stuck, !.cut = cut]
    BY <1>2, <2>1 DEF Pages
  <2>3. stuck \subseteq Bodies
    BY <1>2, Fields
  <2>4. cut \in BOOLEAN
    BY Fields
  <2> HIDE DEF stuck, cut
  <2> QED BY <1>2, <2>2, <2>3, <2>4 DEF Pages
<1>8. spent' \in Budgets
  BY SpendFacts DEF Quit, Types
<1>9. /\ landed' \in Sources
      /\ \A kind, e : <<kind, e>> \in landed' =>
           \/ <<kind, e>> \in landed
           \/ \E p \in sent : kind = push[p].kind /\ e \in push[p].plan
  BY <1>4, <1>5, CreditFacts
<1>10. \A kind, e : <<kind, e>> \in landed' =>
         \/ <<kind, e>> \in landed
         \/ \E p \in Pushers : push[p].pc = "apply" /\ kind = push[p].kind /\ e \in push[p].plan
  BY <1>5, <1>9
<1> QED BY <1>3, <1>6, <1>7, <1>8, <1>9, <1>10

LEMMA QuitTypes ==
    ASSUME Steady, Quit
    PROVE  Steady'
<1>0. Types
  BY DEF Steady
<1>1. runner' \in Runners /\ runner'.pc = "look"
  BY IdleFacts DEF Quit, FreshRunner
<1>2. RunnerAwaits'
  BY <1>0, <1>1, QuitFacts DEF RunnerAwaits, IdlePush
<1>3. /\ file' = file /\ row' = row /\ mode' = mode /\ queue' = queue /\ event' = event
      /\ typed' = typed /\ dropped' = dropped /\ app' = "idle"
  BY DEF Quit, settings, daemon
<1> QED BY <1>0, <1>1, <1>2, <1>3, QuitFacts DEF Steady, Types

LEMMA NextTypes ==
    ASSUME Steady, [Next]_vars
    PROVE  Steady'
<1>1. CASE People
  BY <1>1, SaveEditTypes, ResolveTypes, OthersEditTypes, ReviewTypes, SwitchModeTypes,
     SwitchFileTypes, QuitTypes DEF People
<1>2. CASE WakeRunner \/ RunnerStep \/ DaemonStep \/ Observe \/ FastForward
  BY <1>2, WakeRunnerTypes, RunnerStepTypes, DaemonStepTypes, ObserveTypes, FastForwardTypes
<1>3. CASE \E p \in Pushers : PushStep(p)
  BY <1>3, PushStepTypes
<1>4. CASE UNCHANGED vars
  BY <1>4 DEF vars, Steady, Types, RunnerAwaits
<1> QED BY <1>1, <1>2, <1>3, <1>4 DEF Next

LEMMA InitTypes ==
    ASSUME Init
    PROVE  Steady
<1>1. file \in Files /\ page \in Pages /\ remote \in Remotes
  BY DEF Init, Files, Pages, Remotes, Bodies
<1>2. row \in Rows /\ mode \in Modes
  <2>1. PICK k \in BOOLEAN : row = [kept |-> k, enabled |-> k, state |-> "Active"]
    BY DEF Init
  <2>2. PICK on \in BOOLEAN :
          mode = [enabled |-> on, state |-> IF on THEN "Active" ELSE "Off", drift |-> FALSE]
    BY DEF Init
  <2> QED BY <2>1, <2>2 DEF Rows, Modes
<1>3. /\ push \in [Pushers -> Pushes] /\ runner \in Runners /\ event \in Events
      /\ queue \in Seq({"write", "push"})
  BY IdleFacts DEF Init
<1>4. spent \in Budgets
  BY LiveModeAssumption DEF Init, Budgets
<1>5. RunnerAwaits
  BY DEF Init, RunnerAwaits, FreshRunner, IdlePush, Pushers
<1>6. typed \subseteq Edits /\ landed \in Sources /\ dropped \in BOOLEAN /\ app \in {"idle", "wake"}
  BY DEF Init, Sources
<1> QED BY <1>1, <1>2, <1>3, <1>4, <1>5, <1>6 DEF Steady, Types

LEMMA AlwaysSteady == Spec => []Steady
<1>1. Init => Steady
  BY InitTypes
<1>2. Steady /\ [Next]_vars => Steady'
  BY NextTypes
<1> QED BY <1>1, <1>2, PTL DEF Spec

\* Every variable keeps its type, and the runner waits for its push exactly as long as
\* it has one.
THEOREM TypeCorrect == Spec => []TypeOK
<1>1. Steady => TypeOK
  BY TypesUnfold DEF Steady
<1> QED BY <1>1, AlwaysSteady, PTL

-----------------------------------------------------------------------------
(* Wakes *)

\* From the look that found the mode off to the end of the wait, a mode that is on again
\* has woken the runner, or its app is about to.
WakeOK ==
    runner.pc \in {"resume", "wait", "asleep"} /\ mode.enabled => runner.woken \/ app = "wake"

LEMMA WakeStays ==
    ASSUME WakeOK, runner' = runner, mode' = mode, app' = app
    PROVE  WakeOK'
  BY DEF WakeOK

\* A runner that has just looked, or does not wait, need not be woken.
LEMMA WakeNotNeeded ==
    ASSUME runner'.pc \notin {"resume", "wait", "asleep"} \/ ~ mode'.enabled
    PROVE  WakeOK'
  BY DEF WakeOK

LEMMA RunnerStepKeepsWakes ==
    ASSUME Steady, WakeOK, RunnerStep
    PROVE  WakeOK'
<1>0. Types /\ runner \in Runners /\ mode \in Modes
  BY DEF Steady, Types
<1>1. CASE Look
  BY <1>0, <1>1, WakeNotNeeded DEF Look, Goto, settings, Runners
<1>2. CASE Resume
  <2>1. CASE mode' = On("Active") /\ Goto("tick")
    BY <1>0, <2>1, GotoFacts, WakeNotNeeded DEF Steps
  <2>2. CASE Goto("wait") /\ UNCHANGED mode
    BY <1>0, <1>2, <2>2 DEF Resume, Goto, WakeOK, Runners
  <2> QED BY <1>2, <2>1, <2>2 DEF Resume
<1>3. CASE Wait
  BY <1>0, <1>3 DEF Wait, WakeOK, Runners, settings
<1>4. CASE Wake \/ Rest
  <2>1. runner'.pc = "look"
    <3>1. CASE Wake
      BY <1>0, <3>1 DEF Wake, Runners
    <3>2. CASE Rest
      BY <3>2 DEF Rest, FreshRunner
    <3> QED BY <1>4, <3>1, <3>2
  <2> QED BY <2>1, WakeNotNeeded
<1>5. CASE BeginTick \/ SaveSyncing \/ ReadMode \/ SaveResult
  <2>1. runner'.pc \in {"syncing", "rest", "inspect", "record"}
    BY <1>0, <1>5, GotoFacts DEF BeginTick, SaveSyncing, ReadMode, SaveResult, Steps
  <2> QED BY <2>1, WakeNotNeeded
<1>6. CASE Inspect \/ PushMerged
  <2>1. Goto("push") \/ Goto("fetch") \/ TickEnds("ok") \/ TickEnds("review")
    BY <1>6 DEF Inspect, PushMerged
  <2>2. runner'.pc \in {"push", "fetch", "result"}
    BY <1>0, <2>1, GotoFacts DEF Steps, Results
  <2> QED BY <2>2, WakeNotNeeded
<1>7. CASE FetchDrift \/ MergeWrite
  <2>1. runner'.pc \in {"merge", "result", "pushMerged"}
    BY <1>0, <1>7 DEF FetchDrift, MergeWrite, TickEnds, Runners, FreshRunner
  <2> QED BY <2>1, WakeNotNeeded
<1> QED BY <1>1, <1>2, <1>3, <1>4, <1>5, <1>6, <1>7 DEF RunnerStep

LEMMA PushStepKeepsWakes ==
    ASSUME Steady, WakeOK, NEW p \in Pushers, PushStep(p)
    PROVE  WakeOK'
<1>1. mode' = mode /\ app' = app
  BY DEF PushStep, Check, Apply, Reconcile, ReadRow, SaveRow, settings
<1>2. runner' = runner \/ Return(p)
  BY DEF PushStep, Check, Apply, Reconcile, ReadRow, SaveRow
<1>3. Return(p) => runner' = runner \/ runner'.pc = "result"
  BY ReturnFacts DEF Steady
<1> QED BY <1>1, <1>2, <1>3, WakeStays, WakeNotNeeded

LEMMA NextKeepsWakes ==
    ASSUME Steady, WakeOK, [Next]_vars
    PROVE  WakeOK'
<1>1. ASSUME NEW on \in BOOLEAN, SwitchMode(on)
      PROVE  WakeOK'
  BY <1>1 DEF SwitchMode, WakeOK
<1>2. CASE WakeRunner
  BY <1>2 DEF WakeRunner, WakeOK, settings, Steady, Types, Runners
<1>3. CASE Quit
  BY <1>3, WakeNotNeeded DEF Quit, FreshRunner
<1>4. CASE /\ People /\ ~ Quit /\ ~ \E on \in BOOLEAN : SwitchMode(on)
  <2>1. runner' = runner /\ mode' = mode /\ app' = app
    BY <1>4 DEF People, SaveEdit, OthersEdit, Resolve, Review, SwitchFile, settings
  <2> QED BY <2>1, WakeStays
<1>5. CASE DaemonStep \/ Observe \/ FastForward \/ UNCHANGED vars
  <2>1. runner' = runner /\ mode' = mode /\ app' = app
    BY <1>5 DEF DaemonStep, TakeWrite, SaveWrite, TakePush, Observe, FastForward, settings, vars
  <2> QED BY <2>1, WakeStays
<1> QED BY <1>1, <1>2, <1>3, <1>4, <1>5, RunnerStepKeepsWakes, PushStepKeepsWakes DEF Next

\* A runner that sleeps although the mode is on has been woken or will be: no wake is lost
\* between its look at the mode and its wait.
THEOREM WakesAreKept == Spec => []NoLostWakeup
<1>1. Init => WakeOK
  BY DEF Init, WakeOK, FreshRunner
<1>2. Steady /\ WakeOK /\ [Next]_vars => WakeOK'
  BY NextKeepsWakes
<1>3. WakeOK => NoLostWakeup
  BY DEF WakeOK, NoLostWakeup
<1> QED BY <1>1, <1>2, <1>3, AlwaysSteady, PTL DEF Spec

-----------------------------------------------------------------------------
(* Reviews *)

\* The plan of a push that goes on is one that may go out in that push.
PlansOK ==
    \A p \in Pushers : push[p].pc \in {"check", "apply"} => Unreviewed(push[p].kind, push[p].plan)

Reviews == PlansOK /\ UnreviewedStaysHome

LEMMA ReviewsStay ==
    ASSUME Reviews, push' = push, landed' = landed
    PROVE  Reviews'
  BY DEF Reviews, PlansOK, UnreviewedStaysHome

\* What is applied is the plan that was looked at.
LEMMA CreditKeepsReviews ==
    ASSUME PlansOK, UnreviewedStaysHome,
           \A kind, e : <<kind, e>> \in landed' =>
             \/ <<kind, e>> \in landed
             \/ \E p \in Pushers : push[p].pc = "apply" /\ kind = push[p].kind /\ e \in push[p].plan
    PROVE  UnreviewedStaysHome'
<1>1. \A e \in Edits : <<"auto", e>> \in landed' => e \notin Reviewed
  BY DEF PlansOK, UnreviewedStaysHome, Unreviewed
<1>2. \A e \in Edits : <<"live", e>> \in landed' => e \notin Dangerous
  <2> SUFFICES ASSUME NEW e \in Edits, <<"live", e>> \in landed', <<"live", e>> \notin landed
               PROVE  e \notin Dangerous
    BY DEF UnreviewedStaysHome
  <2>1. PICK p \in Pushers : push[p].pc = "apply" /\ push[p].kind = "live" /\ e \in push[p].plan
    BY Zenon
  <2>2. push[p].plan \cap Dangerous = {}
    BY <2>1 DEF PlansOK, Unreviewed
  <2> QED BY <2>1, <2>2
<1> QED BY <1>1, <1>2 DEF UnreviewedStaysHome

LEMMA BeginKeepsReviews ==
    ASSUME Reviews, NEW p \in Pushers, OneChanges(p), landed' = landed,
           push'[p].pc = "check" => Unreviewed(push'[p].kind, push'[p].plan),
           push'[p].pc # "apply"
    PROVE  Reviews'
<1>1. PlansOK'
  BY DEF Reviews, PlansOK, OneChanges, Unreviewed
<1> QED BY <1>1 DEF Reviews, UnreviewedStaysHome

LEMMA PushStepKeepsReviews ==
    ASSUME Steady, Reviews, NEW p \in Pushers, PushStep(p)
    PROVE  Reviews'
<1>0. Types /\ push \in [Pushers -> Pushes]
  BY DEF Steady, Types
<1>1. CASE Check(p)
  <2>1. landed' = landed
    BY <1>1 DEF Check, history
  <2>2. CASE push' = [push EXCEPT ![p].pc = "apply"]
    <3>1. PlansOK'
      BY <1>0, <1>1, <2>2 DEF Check, Reviews, PlansOK, Pushes, Unreviewed
    <3> QED BY <2>1, <3>1 DEF Reviews, UnreviewedStaysHome
  <2>3. CASE Ended(p, "remote") \/ Ended(p, "failure")
    <3>1. OneChanges(p) /\ push'[p].pc = "done"
      BY <1>0, <2>3, EndedFacts DEF Results
    <3> QED BY <2>1, <3>1, BeginKeepsReviews
  <2> QED BY <1>1, <2>2, <2>3 DEF Check
<1>2. CASE Apply(p)
  <2>1. OneChanges(p) /\ push'[p].pc \in {"reconcile", "done"}
    <3>1. CASE push' = [push EXCEPT ![p].pc = "reconcile"]
      BY <1>0, <3>1 DEF OneChanges, Pushes
    <3>2. CASE Ended(p, "remote") \/ Ended(p, "failure")
      BY <1>0, <3>2, EndedFacts DEF Results
    <3> QED BY <1>2, <3>1, <3>2 DEF Apply
  <2>2. PlansOK'
    BY <2>1 DEF Reviews, PlansOK, OneChanges, Unreviewed
  <2>3. CASE Credit({p})
    <3>1. \A kind, e : <<kind, e>> \in landed' =>
            \/ <<kind, e>> \in landed
            \/ \E q \in {p} : kind = push[q].kind /\ e \in push[q].plan
      BY <1>0, <2>3, CreditFacts
    <3>2. push[p].pc = "apply"
      BY <1>2 DEF Apply
    <3>3. UnreviewedStaysHome'
      BY <3>1, <3>2, CreditKeepsReviews DEF Reviews
    <3> QED BY <2>2, <3>3 DEF Reviews
  <2>4. CASE landed' = landed
    BY <2>2, <2>4 DEF Reviews, UnreviewedStaysHome
  <2> QED BY <1>2, <2>3, <2>4 DEF Apply
<1>3. CASE Reconcile(p)
  <2>1. Ended(p, "ok") \/ Ended(p, "failure")
    BY <1>3 DEF Reconcile
  <2>2. OneChanges(p) /\ push'[p].pc = "done"
    BY <1>0, <2>1, EndedFacts DEF Results
  <2> QED BY <1>3, <2>2, BeginKeepsReviews DEF Reconcile, history
<1>4. CASE ReadRow(p) \/ SaveRow(p)
  <2>1. landed' = landed
    BY <1>4 DEF ReadRow, SaveRow, history
  <2>2. CASE Return(p)
    BY <1>0, <2>1, <2>2, ReturnFacts, BeginKeepsReviews DEF IdlePush
  <2>3. CASE push' = [push EXCEPT ![p].pc = "mark", ![p].enabled = row.enabled]
    <3>1. OneChanges(p) /\ push'[p].pc = "mark"
      BY <1>0, <2>3 DEF OneChanges, Pushes
    <3> QED BY <2>1, <3>1, BeginKeepsReviews
  <2> QED BY <1>4, <2>2, <2>3 DEF ReadRow, SaveRow
<1> QED BY <1>1, <1>2, <1>3, <1>4 DEF PushStep

LEMMA PrepareKeepsReviews ==
    ASSUME Steady, Reviews, NEW p \in Pushers, NEW kind \in Kinds,
           Prepare(p, kind) \/ Begin(p, kind), landed' = landed
    PROVE  Reviews'
<1>1. /\ OneChanges(p) /\ push'[p].pc \in {"check", "done"}
      /\ push'[p].pc = "check" => Unreviewed(push'[p].kind, push'[p].plan)
  BY PrepareFacts, BeginFacts DEF Steady
<1> QED BY <1>1, BeginKeepsReviews

LEMMA QuitKeepsReviews ==
    ASSUME Steady, Reviews, Quit
    PROVE  Reviews'
<1>1. Types
  BY DEF Steady
<1>2. PlansOK'
  BY <1>1, QuitFacts DEF Reviews, PlansOK, IdlePush, Unreviewed
<1>3. UnreviewedStaysHome'
  BY <1>1, QuitFacts, CreditKeepsReviews DEF Reviews
<1> QED BY <1>2, <1>3 DEF Reviews

LEMMA NextKeepsReviews ==
    ASSUME Steady, Reviews, [Next]_vars
    PROVE  Reviews'
<1>0. Pushers = {"daemon", "runner", "app"} /\ Kinds = {"auto", "live", "explicit"}
  BY DEF Pushers, Kinds
<1>1. CASE People
  <2>1. ASSUME NEW p \in {"daemon", "app"}, Review(p)
        PROVE  Reviews'
    BY <1>0, <2>1, PrepareKeepsReviews DEF Review, history
  <2>2. ASSUME NEW on \in BOOLEAN, SwitchFile(on)
        PROVE  Reviews'
    BY <1>0, <2>2, PrepareKeepsReviews, ReviewsStay DEF SwitchFile, history
  <2>3. CASE Quit
    BY <2>3, QuitKeepsReviews
  <2>4. CASE \/ \E e \in Edits : SaveEdit(e)
             \/ \E r \in Others : OthersEdit(r)
             \/ \E on \in BOOLEAN : SwitchMode(on)
             \/ Resolve
    BY <2>4, ReviewsStay DEF SaveEdit, OthersEdit, SwitchMode, Resolve, history
  <2> QED BY <1>1, <2>1, <2>2, <2>3, <2>4 DEF People
<1>2. CASE RunnerStep
  <2>1. landed' = landed
    BY <1>2 DEF RunnerStep, Look, Resume, Wait, Wake, BeginTick, SaveSyncing, Inspect, FetchDrift,
                MergeWrite, PushMerged, ReadMode, SaveResult, Rest, history
  <2>2. Prepare("runner", "live") \/ push' = push
    BY <1>2 DEF RunnerStep, Look, Resume, Wait, Wake, BeginTick, SaveSyncing, Inspect, FetchDrift,
                MergeWrite, PushMerged, ReadMode, SaveResult, Rest
  <2> QED BY <1>0, <2>1, <2>2, PrepareKeepsReviews, ReviewsStay
<1>3. CASE DaemonStep
  <2>1. landed' = landed
    BY <1>3 DEF DaemonStep, TakeWrite, SaveWrite, TakePush, history
  <2>2. Prepare("daemon", "auto") \/ push' = push
    BY <1>3 DEF DaemonStep, TakeWrite, SaveWrite, TakePush
  <2> QED BY <1>0, <2>1, <2>2, PrepareKeepsReviews, ReviewsStay
<1>4. CASE WakeRunner \/ Observe \/ FastForward \/ UNCHANGED vars
  BY <1>4, ReviewsStay DEF WakeRunner, Observe, FastForward, vars, history
<1> QED BY <1>1, <1>2, <1>3, <1>4, PushStepKeepsReviews DEF Next

\* No edit that auto-save leaves for review goes out in an auto-push, and none that only
\* the user may confirm in a push of the runner, whichever process sees it first.
THEOREM UnreviewedEditsStay == Spec => []UnreviewedStaysHome
<1>1. Init => Reviews
  BY DEF Init, Reviews, PlansOK, UnreviewedStaysHome, IdlePush
<1>2. Steady /\ Reviews /\ [Next]_vars => Reviews'
  BY NextKeepsReviews
<1>3. Reviews => UnreviewedStaysHome
  BY DEF Reviews
<1> QED BY <1>1, <1>2, <1>3, AlwaysSteady, PTL DEF Spec
=============================================================================
