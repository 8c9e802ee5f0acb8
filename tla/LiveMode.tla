------------------------------- MODULE LiveMode -------------------------------
(***************************************************************************)
(* Live Mode of one page of a plain-file mount: who pushes its edits when   *)
(* nobody asks.  The daemon pushes a file that is enrolled in auto-save, or *)
(* whose mount is in Live Mode, after every write; the Live Mode runner of  *)
(* the desktop app pushes it from a loop of its own; and the app pushes it  *)
(* at once when the file is enrolled.  The runner and the app push in their *)
(* own process, past the daemon's queue.  Both settings are rows in SQLite  *)
(* that each of them reads and later writes back whole.                     *)
(*                                                                          *)
(* A body is the set of the edits in it.  PageSync takes the reading and    *)
(* writing of a page apart that are one step here: what a push applies, and *)
(* what it or a merge saves in the end.                                     *)
(***************************************************************************)
EXTENDS Integers, Sequences, FiniteSets

CONSTANTS
    Edits,        \* the edits the user may save, each once
    Reviewed,     \* those whose plan auto-save leaves for review
    Dangerous,    \* those whose plan nobody but the user may confirm
    Clashing,     \* those that overlap with what other people write
    Others,       \* the edits of other people
    MaxFailures,  \* bound: failed calls
    MaxCoarse,    \* bound: changes of the page that leave its version as it was
    MaxSwitches,  \* bound: changes of the two settings
    MaxReviews,   \* bound: pushes the user asks for
    MaxQuits      \* bound: ends of the desktop app

ASSUME LiveModeAssumption ==
    /\ Dangerous \subseteq Reviewed /\ Reviewed \subseteq Edits
    /\ Clashing \subseteq Edits /\ Edits \cap Others = {}
    /\ MaxFailures \in Nat /\ MaxCoarse \in Nat /\ MaxSwitches \in Nat /\ MaxReviews \in Nat
    /\ MaxQuits \in Nat

VARIABLES
    file,    \* the user's file: its body, and whether conflict markers are in it
    page,    \* what is stored of the page, its journal included
    remote,  \* the page in the source
    row,     \* the auto-save enrolment of the file
    mode,    \* the Live Mode record of the mount
    queue,   \* the daemon's queue: writes to look at, auto-pushes to make
    event,   \* the write the daemon looks at, and the record it has read
    push,    \* the push of each process
    runner,  \* the Live Mode runner
    app,     \* the desktop app: whether it has yet to wake the runner
    typed,   \* the edits saved so far
    landed,  \* history: who brought which edit to the source
    dropped, \* history: whether a push ended before it could be planned
    spent

history == <<typed, landed, dropped>>
daemon == <<queue, event>>
settings == <<row, mode>>
vars == <<file, page, remote, row, mode, queue, event, push, runner, app,
          typed, landed, dropped, spent>>

Pushers == {"daemon", "runner", "app"}
Kinds == {"auto", "live", "explicit"}
Bodies == SUBSET (Edits \cup Others)

Files == [body : Bodies, marks : BOOLEAN]
Pages == [shadow : Bodies,
          hydration : {"Hydrated", "Dirty", "Conflicted"},
          synced : Nat, observed : Nat,  \* remote versions
          hint : BOOLEAN,                \* remote_hint_pending
          touched : BOOLEAN,             \* last_local_change_at is set
          failed : BOOLEAN,              \* a failed push, and no later one that ended well
          cut : BOOLEAN,                 \* a push that was cut short, and no later one ...
          stuck : SUBSET Bodies]   \* plans applied by a push that was not reconciled
Rows == [kept : BOOLEAN, enabled : BOOLEAN,
         state : {"Active", "Blocked", "PausedRemoteChanged", "PausedFailure"}]
Modes == [enabled : BOOLEAN, state : {"Off", "Active", "Syncing", "Error"},
          drift : BOOLEAN]               \* the reason of a pause is remote drift

Results == {"ok", "review", "drift", "remote", "failure", "refused"}
Pushes == [pc : {"idle", "check", "apply", "reconcile", "done", "mark"},
           kind : Kinds, plan : Bodies, expect : Nat, result : Results,
           enabled : BOOLEAN]            \* the enrolment as it was read
IdlePush == [pc |-> "idle", kind |-> "auto", plan |-> {}, expect |-> 0,
             result |-> "ok", enabled |-> FALSE]

Steps == {"look", "resume", "wait", "asleep", "tick", "syncing", "inspect", "fetch", "merge",
          "pushMerged", "push", "result", "record", "rest"}
IdleEvent == [pc |-> "idle", hydration |-> "Hydrated", synced |-> 0]
Runners == [pc : Steps, woken : BOOLEAN, result : Results,
            base : Bodies, body : Bodies, version : Nat]  \* what a merge has read
FreshRunner == [pc |-> "look", woken |-> FALSE, result |-> "ok",
                base |-> {}, body |-> {}, version |-> 0]

Init ==
    /\ file = [body |-> {}, marks |-> FALSE]
    /\ page = [shadow |-> {}, hydration |-> "Hydrated", synced |-> 0, observed |-> 0,
               hint |-> FALSE, touched |-> FALSE, failed |-> FALSE, cut |-> FALSE, stuck |-> {}]
    /\ remote = [body |-> {}, version |-> 0]
    /\ row \in {[kept |-> k, enabled |-> k, state |-> "Active"] : k \in BOOLEAN}
    /\ mode \in {[enabled |-> on, state |-> IF on THEN "Active" ELSE "Off", drift |-> FALSE]
                   : on \in BOOLEAN}
    /\ queue = <<>>
    /\ event = IdleEvent
    /\ push = [p \in Pushers |-> IdlePush]
    /\ runner = FreshRunner
    /\ app = "idle"
    /\ typed = {} /\ landed = {} /\ dropped = FALSE
    /\ spent = [failures |-> 0, coarse |-> 0, switches |-> 0, reviews |-> 0, quits |-> 0]

-----------------------------------------------------------------------------
Spend(budget, max) == spent[budget] < max /\ spent' = [spent EXCEPT ![budget] = @ + 1]
Fails == Spend("failures", MaxFailures)

Pending == file.body \ page.shadow
Changed == Pending # {} \/ file.marks

\* An enrolment that is paused for review is tried again at the next write.
RowActive == row.kept /\ row.enabled /\ row.state \in {"Active", "Blocked"}

\* Mutant of AutoSaves: both settings are needed.
AutoSavesByBoth == RowActive /\ mode.enabled

AutoSaves == RowActive \/ mode.enabled

DaemonIsFree == event.pc = "idle" /\ push["daemon"].pc = "idle"

-----------------------------------------------------------------------------
(* Pushes *)

\* A plan may not be applied again when the latest push of it has been applied and not
\* reconciled.  One that is about to be applied may be the latest instead.
Refuses(plan) ==
    \/ plan \in page.stuck
    \/ \E q \in Pushers : push[q].pc = "reconcile" /\ push[q].plan = plan

Accepts(plan) ==
    \/ ~Refuses(plan)
    \/ \E q \in Pushers : push[q].pc \in {"check", "apply"} /\ push[q].plan = plan

\* Mutant of NeedsReview: auto-save leaves to the guardrails what to review.
NeedsReviewByGuardrails(kind) == file.marks \/ (kind # "explicit" /\ Pending \cap Dangerous # {})

\* Auto-save asks for review more often than the guardrails do.
NeedsReview(kind) ==
    \/ file.marks
    \/ kind = "auto" /\ Pending \cap Reviewed # {}
    \/ kind # "explicit" /\ Pending \cap Dangerous # {}

Planned(kind) ==
    LET start == [IdlePush EXCEPT !.kind = kind, !.plan = Pending, !.expect = page.synced]
        ended(result) == [start EXCEPT !.pc = "done", !.result = result]
    IN IF NeedsReview(kind) THEN {ended("review")}
       ELSE IF Pending = {} THEN {ended("ok")}
       ELSE {[start EXCEPT !.pc = "check"] : ok \in {Accepts(Pending)} \cap {TRUE}}
            \cup {ended("refused") : no \in {Refuses(Pending)} \cap {TRUE}}

Begin(p, kind) ==
    /\ push[p].pc = "idle"
    /\ \E begun \in Planned(kind) : push' = [push EXCEPT ![p] = begun]

\* The file is read and planned; or the store, the source or the file cannot be read.
Prepare(p, kind) ==
    \/ Begin(p, kind) /\ UNCHANGED <<dropped, spent>>
    \/ /\ push[p].pc = "idle" /\ Fails /\ dropped' = TRUE
       /\ push' = [push EXCEPT ![p] =
                      [IdlePush EXCEPT !.pc = "done", !.kind = kind, !.result = "refused"]]

Ended(p, result) == push' = [push EXCEPT ![p].pc = "done", ![p].result = result]

\* A push that failed or was cut short counts until a later one ends well.  Of two at once, either is later.
WithoutFailure(p) ==
    {[page EXCEPT !.failed = page.failed /\ later, !.cut = page.cut /\ later] :
       later \in IF \E q \in Pushers \ {p} : push[q].pc # "idle" THEN BOOLEAN ELSE {FALSE}}

RemoteIsSynced(p) == remote.version = push[p].expect /\ remote.body = page.shadow

Check(p) ==
    /\ push[p].pc = "check"
    /\ \/ /\ RemoteIsSynced(p)
          /\ push' = [push EXCEPT ![p].pc = "apply"]
          /\ UNCHANGED <<page, spent>>
       \/ /\ ~RemoteIsSynced(p)
          /\ Ended(p, "remote") /\ page' \in WithoutFailure(p)
          /\ UNCHANGED spent
       \/ Fails /\ Ended(p, "failure") /\ page' \in WithoutFailure(p)
    /\ UNCHANGED <<file, remote, settings, daemon, runner, app, history>>

\* Versions are times, and need not be finer than the edits.
Versioned(body) ==
    \/ remote' = [body |-> body, version |-> remote.version + 1] /\ UNCHANGED spent
    \/ remote' = [remote EXCEPT !.body = body] /\ Spend("coarse", MaxCoarse)

Credit(pushers) ==
    landed' = landed \cup UNION {{<<push[p].kind, e>> : e \in push[p].plan} : p \in pushers}

\* A failed push of the same plan may be the latest one from now on.
FailedToApply(p) ==
    {[page EXCEPT !.failed = TRUE, !.stuck = @ \ forgotten] : forgotten \in {{}, {push[p].plan}}}

\* The connector's apply compares the versions once more, and only those.
Apply(p) ==
    /\ push[p].pc = "apply"
    /\ \/ /\ remote.version = push[p].expect
          /\ Versioned(remote.body \cup push[p].plan) /\ Credit({p})
          /\ push' = [push EXCEPT ![p].pc = "reconcile"]
          /\ UNCHANGED page
       \/ /\ remote.version # push[p].expect
          /\ Ended(p, "remote") /\ page' \in FailedToApply(p)
          /\ UNCHANGED <<remote, landed, spent>>
       \/ /\ Fails /\ Ended(p, "failure") /\ page' \in FailedToApply(p)
          /\ \/ UNCHANGED <<remote, landed>>
             \/ /\ remote.version = push[p].expect
                /\ remote' = [body |-> remote.body \cup push[p].plan,
                              version |-> remote.version + 1]
                /\ Credit({p})
    /\ UNCHANGED <<file, settings, daemon, runner, app, typed, dropped>>

\* The page as it is read back becomes file and shadow.
Reconcile(p) ==
    /\ push[p].pc = "reconcile"
    /\ \/ /\ file' = [body |-> remote.body, marks |-> FALSE]
          /\ \E next \in WithoutFailure(p) :
               page' = [next EXCEPT !.shadow = remote.body, !.hydration = "Hydrated",
                                    !.synced = remote.version, !.observed = remote.version,
                                    !.hint = FALSE]
          /\ Ended(p, "ok")
          /\ UNCHANGED spent
       \/ /\ Fails /\ Ended(p, "failure")
          /\ page' = [page EXCEPT !.failed = TRUE, !.stuck = @ \cup {push[p].plan}]
          /\ UNCHANGED file
    /\ UNCHANGED <<remote, settings, daemon, runner, app, history>>

\* An auto-push leaves its result in the enrolment, any other push its success.
Marks(p) == IF push[p].kind = "auto" THEN push[p].result # "refused"
            ELSE push[p].result = "ok"

\* Mutant of Return: a push that did not succeed is not reported.
ReturnOnSuccess(p) ==
    /\ push' = [push EXCEPT ![p] = IdlePush]
    /\ runner' = IF p = "runner" /\ push[p].result = "ok"
                 THEN [runner EXCEPT !.pc = "result", !.result = "ok"] ELSE runner

\* The push is over; the runner goes on with its result.
Return(p) ==
    /\ push' = [push EXCEPT ![p] = IdlePush]
    /\ runner' = IF p = "runner" THEN [runner EXCEPT !.pc = "result", !.result = push[p].result]
                 ELSE runner

ReadRow(p) ==
    /\ push[p].pc = "done"
    /\ IF Marks(p) /\ row.kept
       THEN /\ push' = [push EXCEPT ![p].pc = "mark", ![p].enabled = row.enabled]
            /\ UNCHANGED runner
       ELSE Return(p)
    /\ UNCHANGED <<file, page, remote, settings, daemon, app, history, spent>>

Mark(result) ==
    CASE result = "ok" -> "Active"
      [] result = "review" -> "Blocked"
      [] result = "remote" -> "PausedRemoteChanged"
      [] OTHER -> "PausedFailure"

SaveRow(p) ==
    /\ push[p].pc = "mark"
    /\ row' = [kept |-> TRUE, enabled |-> push[p].enabled, state |-> Mark(push[p].result)]
    /\ Return(p)
    /\ UNCHANGED <<file, page, remote, mode, daemon, app, history, spent>>

PushStep(p) == Check(p) \/ Apply(p) \/ Reconcile(p) \/ ReadRow(p) \/ SaveRow(p)

-----------------------------------------------------------------------------
(* The daemon: its queue, observations, and updates of a clean file *)

\* A write is handled with the record of the page as it was read before.
TakeWrite ==
    /\ DaemonIsFree /\ queue # <<>> /\ Head(queue) = "write"
    /\ queue' = Tail(queue)
    /\ event' = [pc |-> "save", hydration |-> page.hydration, synced |-> page.synced]
    /\ UNCHANGED <<file, page, remote, settings, push, runner, app, history, spent>>

\* A page becomes dirty when its file differs from the shadow, and whatever was saved
\* to its record meanwhile is undone; auto-save is asked whether to push.
SaveWrite ==
    /\ event.pc = "save"
    /\ event' = IdleEvent
    /\ IF event.hydration = "Hydrated" /\ ~Changed
       THEN UNCHANGED <<page, queue>>
       ELSE /\ page' = IF event.hydration = "Hydrated"
                       THEN [page EXCEPT !.hydration = "Dirty", !.synced = event.synced,
                                         !.touched = TRUE]
                       ELSE [page EXCEPT !.touched = TRUE]
            /\ queue' = IF event.hydration # "Conflicted" /\ AutoSaves
                        THEN <<"push">> \o queue ELSE queue
    /\ UNCHANGED <<file, remote, settings, push, runner, app, history, spent>>

TakePush ==
    /\ DaemonIsFree /\ queue # <<>> /\ Head(queue) = "push"
    /\ queue' = Tail(queue)
    /\ Prepare("daemon", "auto")
    /\ UNCHANGED <<file, page, remote, settings, event, runner, app, typed, landed>>

\* The version of the page is asked for, after a write or a hint and at every poll.  A
\* clean page in Live Mode that has just been changed is looked at even so.
Observe ==
    /\ DaemonIsFree
    /\ LET newer == remote.version # page.synced
           probed == ~newer /\ page.hydration = "Hydrated" /\ page.touched /\ AutoSaves
       IN /\ \E hint \in IF probed THEN BOOLEAN ELSE {newer} :
               page' = [page EXCEPT !.observed = remote.version, !.hint = hint]
          /\ row' = IF newer /\ row.enabled /\ (page.hydration # "Hydrated" \/ page.touched)
                    THEN [row EXCEPT !.state = "PausedRemoteChanged"] ELSE row
    /\ UNCHANGED <<file, remote, mode, daemon, push, runner, app, history, spent>>

RemoteChanged == page.hint \/ page.observed > page.synced

\* A clean file follows the source, asked for by an observation or by the runner.
FastForward ==
    /\ DaemonIsFree /\ RemoteChanged /\ ~Changed
    /\ file' = [body |-> remote.body, marks |-> FALSE]
    /\ page' = [page EXCEPT !.shadow = remote.body, !.hydration = "Hydrated",
                            !.synced = remote.version, !.observed = remote.version,
                            !.hint = FALSE]
    /\ UNCHANGED <<remote, settings, daemon, push, runner, app, history, spent>>

DaemonStep == TakeWrite \/ SaveWrite \/ TakePush

-----------------------------------------------------------------------------
(* The Live Mode runner *)

Goto(pc) == runner' = [runner EXCEPT !.pc = pc]
TickEnds(result) == runner' = [runner EXCEPT !.pc = "result", !.result = result]

\* The runner ticks while the mode is on, and otherwise waits for a change of it.
Look ==
    /\ runner.pc = "look"
    /\ Goto(IF mode.enabled THEN "tick"
            ELSE IF mode.state = "Error" /\ mode.drift THEN "resume" ELSE "wait")
    /\ UNCHANGED <<file, page, remote, settings, daemon, push, app, history, spent>>

\* What the desktop shows of a file that has something to push or to pull.
State ==
    CASE page.hydration = "Conflicted" \/ file.marks -> "conflict"
      [] OTHER -> IF page.failed THEN "blocked"
                  ELSE IF RemoteChanged THEN "needs_review" ELSE "safe"

Unfinished ==
    page.cut \/ \E q \in Pushers : push[q].pc \in {"check", "apply", "reconcile"}

\* What the desktop shows at all.  A clean page whose pushes have failed it does not.
Shown ==
    Changed \/ page.hydration = "Conflicted" \/ Unfinished \/ (page.failed /\ RemoteChanged)

On(state) == [enabled |-> TRUE, state |-> state, drift |-> FALSE]

\* A pause because of remote drift ends when the drift is gone.
Resume ==
    /\ runner.pc = "resume"
    /\ IF Shown /\ State = "safe"
       THEN mode' = On("Active") /\ Goto("tick")
       ELSE Goto("wait") /\ UNCHANGED mode
    /\ UNCHANGED <<file, page, remote, row, daemon, push, app, history, spent>>

\* Mutant of Wait: a wake that came before the wait is forgotten.
WaitForgetting ==
    /\ runner.pc = "wait"
    /\ runner' = [runner EXCEPT !.pc = "asleep", !.woken = FALSE]
    /\ UNCHANGED <<file, page, remote, settings, daemon, push, app, history, spent>>

\* A wake that the runner has not seen yet ends its wait before it begins.
Wait ==
    /\ runner.pc = "wait"
    /\ runner' = IF runner.woken THEN [runner EXCEPT !.pc = "look", !.woken = FALSE]
                 ELSE [runner EXCEPT !.pc = "asleep"]
    /\ UNCHANGED <<file, page, remote, settings, daemon, push, app, history, spent>>

\* The wait ends with a wake, or after five minutes.
Wake ==
    /\ runner.pc = "asleep"
    /\ runner' = [runner EXCEPT !.pc = "look", !.woken = FALSE]
    /\ UNCHANGED <<file, page, remote, settings, daemon, push, app, history, spent>>

BeginTick ==
    /\ runner.pc = "tick" /\ Goto(IF mode.enabled THEN "syncing" ELSE "rest")
    /\ UNCHANGED <<file, page, remote, settings, daemon, push, app, history, spent>>

\* The record is saved as it was read, switched on.
SaveSyncing ==
    /\ runner.pc = "syncing" /\ mode' = On("Syncing") /\ Goto("inspect")
    /\ UNCHANGED <<file, page, remote, row, daemon, push, app, history, spent>>

\* The runner leaves a clean page to the daemon, pushes what is safe to push, merges
\* when both sides have changed, and gives up on the rest.
Inspect ==
    /\ runner.pc = "inspect"
    /\ \/ /\ ~Shown \/ (~Changed /\ State = "needs_review")
          /\ TickEnds("ok") /\ UNCHANGED <<push, dropped, spent>>
       \/ /\ Shown /\ State = "safe"
          /\ Prepare("runner", "live") /\ Goto("push")
       \/ /\ Changed /\ State = "needs_review"
          /\ Goto("fetch") /\ UNCHANGED <<push, dropped, spent>>
       \/ /\ Shown /\ State \in {"conflict", "blocked"}
          /\ TickEnds("review") /\ UNCHANGED <<push, dropped, spent>>
    /\ UNCHANGED <<file, page, remote, settings, daemon, app, typed, landed>>

\* The shadow is read before the page is fetched.
FetchDrift ==
    /\ runner.pc = "fetch"
    /\ \/ /\ IF remote.body = page.shadow THEN TickEnds("drift")
             ELSE runner' = [runner EXCEPT !.pc = "merge", !.base = page.shadow,
                                           !.body = remote.body, !.version = remote.version]
          /\ UNCHANGED spent
       \/ Fails /\ TickEnds("failure")
    /\ UNCHANGED <<file, page, remote, settings, daemon, push, app, history>>

\* The watcher reports a change of the file ahead of what it has reported before.
Noticed == IF \E i \in DOMAIN queue : queue[i] = "write" THEN queue ELSE <<"write">> \o queue

Clashes(base, body) == (file.body \ base) \cap Clashing # {} /\ (body \ base) \cap Others # {}

\* The user's edits are put on top of the fetched page, which becomes the shadow.
MergeWrite ==
    /\ runner.pc = "merge"
    /\ LET clash == Clashes(runner.base, runner.body)
       IN /\ file' = [body |-> file.body \cup runner.body, marks |-> file.marks \/ clash]
          /\ page' = [page EXCEPT !.shadow = runner.body, !.synced = runner.version,
                                  !.observed = runner.version, !.hint = FALSE,
                                  !.hydration = IF clash THEN "Conflicted" ELSE "Dirty"]
          /\ runner' = [FreshRunner EXCEPT !.pc = IF clash THEN "result" ELSE "pushMerged",
                                         !.woken = runner.woken]
    /\ queue' = Noticed
    /\ UNCHANGED <<remote, settings, event, push, app, history, spent>>

PushMerged ==
    /\ runner.pc = "pushMerged"
    /\ Prepare("runner", "live") /\ Goto("push")
    /\ UNCHANGED <<file, page, remote, settings, daemon, app, typed, landed>>

\* The record is read again, and a mode that was switched off meanwhile stays so.
ReadMode ==
    /\ runner.pc = "result" /\ Goto(IF mode.enabled THEN "record" ELSE "rest")
    /\ UNCHANGED <<file, page, remote, settings, daemon, push, app, history, spent>>

\* Mutant of Pauses: only remote drift turns the mode off.
PausesForDrift(result) == result = "drift"

\* Only what the user has to look at turns the mode off.
Pauses(result) == result \in {"review", "drift"}

SaveResult ==
    /\ runner.pc = "record" /\ Goto("rest")
    /\ mode' = IF Pauses(runner.result)
               THEN [enabled |-> FALSE, state |-> "Error", drift |-> runner.result = "drift"]
               ELSE On("Active")
    /\ UNCHANGED <<file, page, remote, row, daemon, push, app, history, spent>>

\* The wakes of a tick are counted as seen, and the mode is looked at once more.
Rest ==
    /\ runner.pc = "rest"
    /\ runner' = FreshRunner
    /\ UNCHANGED <<file, page, remote, settings, daemon, push, app, history, spent>>

RunnerStep ==
    \/ Look \/ Resume \/ Wait \/ Wake \/ BeginTick \/ SaveSyncing \/ Inspect
    \/ FetchDrift \/ MergeWrite \/ PushMerged \/ ReadMode \/ SaveResult \/ Rest

-----------------------------------------------------------------------------
(* The user, other people, and the desktop app *)

SaveEdit(e) ==
    /\ e \notin typed /\ typed' = typed \cup {e}
    /\ file' = [file EXCEPT !.body = @ \cup {e}]
    /\ queue' = Noticed
    /\ UNCHANGED <<page, remote, settings, event, push, runner, app, landed, dropped, spent>>

Resolve ==
    /\ file.marks /\ file' = [file EXCEPT !.marks = FALSE]
    /\ queue' = Noticed
    /\ UNCHANGED <<page, remote, settings, event, push, runner, app, history, spent>>

OthersEdit(r) ==
    /\ r \notin remote.body
    /\ Versioned(remote.body \cup {r})
    /\ UNCHANGED <<file, page, settings, daemon, push, runner, app, history>>

\* The user asks for a push, from the desktop app or through the daemon.
Review(p) ==
    /\ p = "daemon" => event.pc = "idle"
    /\ spent.reviews < MaxReviews
    /\ Begin(p, "explicit")
    /\ spent' = [spent EXCEPT !.reviews = @ + 1]
    /\ UNCHANGED <<file, page, remote, settings, daemon, runner, app, history>>

\* The app saves the mode and then wakes the runner.
SwitchMode(on) ==
    /\ app = "idle" /\ Spend("switches", MaxSwitches)
    /\ mode' = IF on THEN On("Active") ELSE [enabled |-> FALSE, state |-> "Off", drift |-> FALSE]
    /\ app' = "wake"
    /\ UNCHANGED <<file, page, remote, row, daemon, push, runner, history>>

WakeRunner ==
    /\ app = "wake" /\ app' = "idle"
    /\ runner' = [runner EXCEPT !.woken = TRUE]
    /\ UNCHANGED <<file, page, remote, settings, daemon, push, history, spent>>

\* The enrolment is switched, and the app, unlike the command, pushes the file at once.
SwitchFile(on) ==
    /\ Spend("switches", MaxSwitches)
    /\ row' = [kept |-> TRUE, enabled |-> on, state |-> "Active"]
    /\ \/ UNCHANGED push
       \/ on /\ Begin("app", "auto")
    /\ UNCHANGED <<file, page, remote, mode, daemon, runner, app, history>>

\* The desktop app ends, whatever it is about to do, and is started again.
Quit ==
    LET own == {"runner", "app"}
        at(pc) == {p \in own : push[p].pc = pc}
    IN /\ Spend("quits", MaxQuits)
       /\ \E sent \in SUBSET {p \in at("apply") : push[p].expect = remote.version} :
            /\ Credit(sent)
            /\ remote' = [body |-> remote.body \cup UNION {push[p].plan : p \in sent},
                          version |-> remote.version + (IF sent = {} THEN 0 ELSE 1)]
       /\ \E forgotten \in SUBSET {push[p].plan : p \in at("check") \cup at("apply")} :
            page' = [page EXCEPT
                       !.stuck = (@ \cup {push[p].plan : p \in at("reconcile")}) \ forgotten,
                       !.cut = @ \/ at("check") \cup at("apply") \cup at("reconcile") # {}]
       /\ push' = [p \in Pushers |-> IF p \in own THEN IdlePush ELSE push[p]]
       /\ runner' = FreshRunner
       /\ app' = "idle"
       /\ UNCHANGED <<file, settings, daemon, typed, dropped>>

People ==
    \/ \E e \in Edits : SaveEdit(e)
    \/ \E r \in Others : OthersEdit(r)
    \/ Resolve
    \/ \E p \in {"daemon", "app"} : Review(p)
    \/ \E on \in BOOLEAN : SwitchMode(on) \/ SwitchFile(on)
    \/ Quit

Next ==
    \/ People \/ WakeRunner \/ RunnerStep
    \/ DaemonStep \/ Observe \/ FastForward
    \/ \E p \in Pushers : PushStep(p)

Spec == Init /\ [][Next]_vars

\* The daemon's loop, its polls, every push that has begun, the runner's loop and the
\* app's call go on; people owe nothing.
Fairness ==
    /\ WF_vars(DaemonStep) /\ WF_vars(Observe)
    /\ \A p \in Pushers : WF_vars(PushStep(p))
    /\ WF_vars(RunnerStep) /\ WF_vars(WakeRunner)

FairSpec == Spec /\ Fairness

-----------------------------------------------------------------------------
(* Properties *)

\* Every variable has its type, and the runner waits for its push exactly as long as it
\* has one (the tick awaits push_target_direct_at_state_root).
TypeOK ==
    /\ file \in Files /\ page \in Pages
    /\ remote \in [body : Bodies, version : Nat]
    /\ row \in Rows /\ mode \in Modes
    /\ queue \in Seq({"write", "push"})
    /\ event \in [pc : {"idle", "save"}, hydration : {"Hydrated", "Dirty", "Conflicted"}, synced : Nat]
    /\ push \in [Pushers -> Pushes]
    /\ runner \in Runners
    /\ app \in {"idle", "wake"}
    /\ typed \subseteq Edits /\ landed \subseteq Kinds \X (Edits \cup Others) /\ dropped \in BOOLEAN
    /\ spent \in [failures : 0..MaxFailures, coarse : 0..MaxCoarse, switches : 0..MaxSwitches,
                  reviews : 0..MaxReviews, quits : 0..MaxQuits]
    /\ runner.pc = "push" <=> push["runner"].pc # "idle"

\* A runner that sleeps although the mode is on has been woken or will be
\* (start_live_mode_runner, wait_for_live_mode_state_change): a wake that comes between
\* its look at the mode and its wait is not lost.
NoLostWakeup == runner.pc = "asleep" /\ mode.enabled => runner.woken \/ app = "wake"

\* What reaches the source with nobody's review is what may go without: auto-save sends
\* no edit that it leaves for review and the runner none that needs a confirmation,
\* whichever of them saw the edit first and whatever came into the file meanwhile
\* (auto_save_block_reason, the guardrails of a push that confirms nothing).
UnreviewedStaysHome ==
    \A e \in Edits : /\ <<"auto", e>> \in landed => e \notin Reviewed
                     /\ <<"live", e>> \in landed => e \notin Dangerous

\* An edit of another person that left the version of the page as it was.
UnseenRemoteEdit == remote.version = page.synced /\ remote.body # page.shadow

\* While the mode is on, the edits of the file reach the source, or the mode is turned
\* off and says why.  The runner cannot get past an edit that the version does not show:
\* every push is refused and no merge begins.
LiveModeSettles == mode.enabled /\ Changed ~> ~Changed \/ ~mode.enabled \/ UnseenRemoteEdit

\* A write to an enrolled file that the daemon has been told of is pushed, or the
\* enrolment says that it is not; unless the page is in conflict, or a push ended in an
\* error that the enrolment does not show.
EnrolledWritesSettle ==
    RowActive /\ Changed /\ (\E i \in DOMAIN queue : queue[i] = "write")
        ~> \/ ~Changed \/ ~RowActive \/ row.state = "Blocked"
           \/ page.hydration = "Conflicted" \/ dropped \/ page.stuck # {}
=============================================================================
