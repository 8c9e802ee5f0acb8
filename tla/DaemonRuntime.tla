---------------------------- MODULE DaemonRuntime ----------------------------
(***************************************************************************)
(* The control loop of the daemon.  It takes one message at a time and     *)
(* never works itself: one mutating job runs beside it in the slot, and    *)
(* so may the fetch of a scheduled poll and refreshes of directories.      *)
(*                                                                         *)
(* Hydrations and freshness jobs are counted here (HydrationJobs has the   *)
(* former in detail), and the queue of directory refreshes is left to the  *)
(* environment: a refresh may start whenever a job may.                    *)
(***************************************************************************)
EXTENDS Integers, Sequences, SequencesExt

CONSTANTS
    Clients,         \* the callers, each of which makes one request
    Kinds,           \* what clients ask for
    Events,          \* the events of the file watcher, as (path, kind)
    None,            \* "nothing"
    MaxRefreshing,   \* directory refreshes that run at a time
    MaxEvents,       \* bound: watcher events
    MaxFollowUps,    \* bound: hydrations, freshness jobs and auto-pushes queued
    MaxTicks,        \* bound: scheduler ticks with a poll
    MaxLimits,       \* bound: rate-limited fetches
    MaxRefreshes     \* bound: directory refreshes

\* Requests that wait for a fetched snapshot, and those that jump the queue.
Stable == {"pull", "push", "autopush"}
Urgent == {"open", "event", "autopush"}
Polls == {"active", "cold"}

ASSUME RuntimeAssumption ==
    /\ Kinds \subseteq {"pull", "push", "open"}
    /\ None \notin Clients \cup Events
    /\ Clients \cap Events = {}
    /\ MaxRefreshing \in Nat \ {0}
    /\ {MaxEvents, MaxFollowUps, MaxTicks, MaxLimits, MaxRefreshes} \subseteq Nat

VARIABLES
    loop,            \* what the loop keeps: its queues, ticks and the snapshot
    slot,            \* active_job: the mutating job that runs, or Free
    refreshes,       \* the directory refreshes: how many run, how many may still come
    phase,           \* running, stopping (shutdown requested), stopped
    clients,         \* per client: idle, waiting, answered or refused
    closers,         \* shutdown_responders: who waits for the loop to end
    remote,          \* how many pushes have changed the sources
    due,             \* history: the polls that came due and were not served yet
    spent            \* how much of each bound is used up

vars == <<loop, slot, refreshes, phase, clients, closers, remote, due, spent>>

Request(kind, from) == [kind |-> kind, from |-> from, done |-> FALSE]
Job(kind) == Request(kind, None)
Free == Job("none")
Reconcile(fetched) ==
    [kind |-> "reconcile", from |-> None, done |-> FALSE,
     polls |-> fetched.polls, asOf |-> fetched.asOf]

Running == phase = "running"
Spend(budget, n) == spent' = [spent EXCEPT ![budget] = @ + n]

Init ==
    /\ loop = [pending |-> <<>>, hydration |-> 0, freshness |-> 0,
               tick |-> {}, deferred |-> None, fetch |-> None, snapshot |-> None]
    /\ slot = Free /\ refreshes = [active |-> 0, left |-> MaxRefreshes]
    /\ phase = "running"
    /\ clients = [c \in Clients |-> "idle"] /\ closers = {}
    /\ remote = 0 /\ due = {}
    /\ spent = [events |-> 0, followUps |-> 0, ticks |-> 0, limits |-> 0]

-----------------------------------------------------------------------------
(* What runs next *)

Snapshot(l) == l.fetch # None \/ l.snapshot # None

\* Mutant of NextRequests: pushes and pulls do not wait for a snapshot.
NextRequestsAnyway(l) == {i \in 1..Len(l.pending) : i = 1}

\* The request that may run: the first, or the first that needs no stable snapshot.
NextRequests(l) ==
    LET able == {i \in 1..Len(l.pending) :
                   Snapshot(l) => l.pending[i].kind \notin Stable}
    IN {i \in able : \A j \in able : i <= j}

\* A poll is fetched while the slot is free and no other snapshot is in play.
StartPoll(l) ==
    IF l.tick = {} \/ Snapshot(l) \/ l.deferred # None THEN l
    ELSE [l EXCEPT !.fetch = [polls |-> l.tick, asOf |-> remote], !.tick = {}]

\* Mutant of StartJob: a poll that is due goes before the queued hydrations.
StartJobPollFirst(l, n) ==
    \/ /\ n = 0
       /\ \E i \in NextRequests(l) :
            slot' = l.pending[i] /\ loop' = [l EXCEPT !.pending = RemoveAt(@, i)]
    \/ /\ NextRequests(l) = {} /\ l.tick # {}
       /\ slot' = Free /\ loop' = StartPoll(l)
    \/ /\ NextRequests(l) = {} /\ l.tick = {} /\ l.hydration > 0
       /\ slot' = Job("hydration") /\ loop' = [l EXCEPT !.hydration = @ - 1]
    \/ /\ NextRequests(l) = {} /\ l.tick = {} /\ l.hydration = 0
       /\ slot' = Free /\ loop' = l

\* Requests first, then hydrations, freshness jobs, and the snapshot last.  When n
\* directory refreshes start, they take the turn of what comes after hydrations.
StartJob(l, n) ==
    \/ /\ n = 0
       /\ \E i \in NextRequests(l) :
            slot' = l.pending[i] /\ loop' = [l EXCEPT !.pending = RemoveAt(@, i)]
    \/ /\ n = 0 /\ NextRequests(l) = {} /\ l.hydration > 0
       /\ slot' = Job("hydration") /\ loop' = [l EXCEPT !.hydration = @ - 1]
    \/ /\ NextRequests(l) = {} /\ l.hydration = 0
       /\ \/ /\ l.freshness > 0
             /\ slot' = Job("freshness") /\ loop' = [l EXCEPT !.freshness = @ - 1]
          \/ /\ l.freshness = 0 /\ l.snapshot # None
             /\ slot' = Reconcile(l.snapshot) /\ loop' = [l EXCEPT !.snapshot = None]
          \/ /\ n > 0 \/ (l.freshness = 0 /\ l.snapshot = None)
             /\ slot' = Free /\ loop' = StartPoll(l)

\* Mutant of MaybeStartNext: a job may still start after a shutdown was requested.
MaybeStartNextAnyway(free, active, l) ==
    /\ refreshes' = [refreshes EXCEPT !.active = active]
    /\ \/ free /\ StartJob(l, 0)
       \/ ~free /\ loop' = l /\ UNCHANGED slot

\* Mutant of MaybeStartNext: one directory refresh too many may run.
MaybeStartNextOneMore(free, active, l) ==
    /\ Running /\ free
    /\ \E n \in 0..refreshes.left :
         /\ active + n <= MaxRefreshing + 1
         /\ refreshes' = [active |-> active + n, left |-> refreshes.left - n]
         /\ StartJob(l, n)

\* Every handler ends with this: nothing starts once a shutdown was requested.
MaybeStartNext(free, active, l) ==
    \/ /\ Running /\ free
       /\ \E n \in 0..refreshes.left :
            /\ active + n <= MaxRefreshing
            /\ refreshes' = [active |-> active + n, left |-> refreshes.left - n]
            /\ StartJob(l, n)
    \/ /\ ~(Running /\ free)
       /\ refreshes' = [refreshes EXCEPT !.active = active]
       /\ loop' = l
       /\ slot' = IF free THEN Free ELSE slot

-----------------------------------------------------------------------------
(* Clients and the file watcher *)

\* pull, push: at the end of the queue; open: at its front.
Enqueue(kind, from) ==
    [loop EXCEPT !.pending = IF kind \in Urgent THEN <<Request(kind, from)>> \o @
                             ELSE Append(@, Request(kind, from))]

Submit(c, kind) ==
    /\ clients[c] = "idle"
    /\ IF Running
       THEN /\ clients' = [clients EXCEPT ![c] = "waiting"]
            /\ MaybeStartNext(slot = Free, refreshes.active, Enqueue(kind, c))
       ELSE /\ clients' = [clients EXCEPT ![c] = "refused"]
            /\ UNCHANGED <<loop, slot, refreshes>>
    /\ UNCHANGED <<phase, closers, remote, due, spent>>

\* A request for a hydration or for an observation is answered at once.  (A parked
\* hydration that is due again counts as one, too.)
QueueBackground(kind) ==
    /\ Running
    /\ spent.followUps < MaxFollowUps /\ Spend("followUps", 1)
    /\ MaybeStartNext(slot = Free, refreshes.active, [loop EXCEPT ![kind] = @ + 1])
    /\ UNCHANGED <<phase, clients, closers, remote, due>>

\* An event that is queued already is dropped.
WatcherReports(e) ==
    /\ phase # "stopped"
    /\ spent.events < MaxEvents /\ Spend("events", 1)
    /\ Request("event", e) \notin {loop.pending[i] : i \in 1..Len(loop.pending)}
    /\ MaybeStartNext(slot = Free, refreshes.active, Enqueue("event", e))
    /\ UNCHANGED <<phase, clients, closers, remote, due>>

-----------------------------------------------------------------------------
(* Jobs *)

\* The worker does the job; a push changes the sources, even one that is refused or
\* fails later on.
WorkerFinishes ==
    /\ slot # Free /\ ~slot.done
    /\ slot' = [slot EXCEPT !.done = TRUE]
    /\ remote' \in IF slot.kind \in {"push", "autopush"} THEN {remote, remote + 1} ELSE {remote}
    /\ UNCHANGED <<loop, refreshes, phase, clients, closers, due, spent>>

\* The jobs of each kind and what their reports may ask for.
FollowUps(kind) ==
    CASE kind = "open" -> {"freshness", "autopush"}
      [] kind = "event" -> {"hydration", "freshness", "autopush"}
      [] kind \in {"freshness", "reconcile"} -> {"hydration", "freshness"}
      [] OTHER -> {}

QueueFollowUp(kind) ==
    IF kind = "autopush" THEN Enqueue(kind, None) ELSE [loop EXCEPT ![kind] = @ + 1]

\* The loop ends when it was told to and nothing runs any more; then whoever told it
\* is answered.
FinishShutdownIfDrained(stopping, waiting, answered) ==
    LET drained == slot' = Free /\ loop'.fetch = None /\ refreshes'.active = 0
    IN /\ closers' = waiting
       /\ phase' = IF ~stopping THEN phase ELSE IF drained THEN "stopped" ELSE "stopping"
       /\ clients' = [c \in Clients |->
                        IF stopping /\ drained /\ c \in waiting THEN "answered" ELSE answered[c]]

Answered(c) == [clients EXCEPT ![c] = "answered"]

JobEnds ==
    /\ slot # Free /\ slot.done
    /\ \/ MaybeStartNext(TRUE, refreshes.active, loop) /\ UNCHANGED spent
       \/ \E kind \in FollowUps(slot.kind) :
            /\ spent.followUps < MaxFollowUps /\ Spend("followUps", 1)
            /\ MaybeStartNext(TRUE, refreshes.active, QueueFollowUp(kind))
    /\ due' = IF slot.kind = "reconcile" THEN due \ (slot.polls \ loop.tick) ELSE due
    /\ FinishShutdownIfDrained(phase = "stopping", closers,
                               IF slot.from \in Clients THEN Answered(slot.from) ELSE clients)
    /\ UNCHANGED remote

\* What was fetched waits to be reconciled; a rate limit defers the poll; and a poll
\* that fails is given up.
FetchEnds ==
    /\ loop.fetch # None
    /\ \/ /\ MaybeStartNext(slot = Free, refreshes.active,
                            [loop EXCEPT !.fetch = None, !.snapshot = loop.fetch])
          /\ UNCHANGED <<due, spent>>
       \/ /\ spent.limits < MaxLimits /\ Spend("limits", 1)
          /\ MaybeStartNext(slot = Free, refreshes.active,
                            [loop EXCEPT !.fetch = None,
                               !.deferred = [polls |-> loop.fetch.polls, passed |-> FALSE]])
          /\ UNCHANGED due
       \/ /\ MaybeStartNext(slot = Free, refreshes.active, [loop EXCEPT !.fetch = None])
          /\ due' = due \ (loop.fetch.polls \ loop.tick)
          /\ UNCHANGED spent
    /\ FinishShutdownIfDrained(phase = "stopping", closers, clients)
    /\ UNCHANGED remote

\* Mutant of RefreshEnds: the last refresh does not end a loop that was told to end.
RefreshEndsUndrained ==
    /\ refreshes.active > 0
    /\ MaybeStartNext(slot = Free, refreshes.active - 1, loop)
    /\ UNCHANGED <<phase, clients, closers, remote, due, spent>>

RefreshEnds ==
    /\ refreshes.active > 0
    /\ MaybeStartNext(slot = Free, refreshes.active - 1, loop)
    /\ FinishShutdownIfDrained(phase = "stopping", closers, clients)
    /\ UNCHANGED <<remote, due, spent>>

-----------------------------------------------------------------------------
(* Time, and the end *)

CoolDownPasses ==
    /\ loop.deferred # None /\ ~loop.deferred.passed
    /\ loop' = [loop EXCEPT !.deferred.passed = TRUE]
    /\ UNCHANGED <<slot, refreshes, phase, clients, closers, remote, due, spent>>

\* Mutant of TakeUp: the deferred poll replaces the one that waits.
TakeUpReplacing(l) == [l EXCEPT !.deferred = None, !.tick = l.deferred.polls]

\* A deferred poll is merged with the one that waits.
TakeUp(l) == [l EXCEPT !.deferred = None, !.tick = @ \cup l.deferred.polls]

\* A poll that comes due is merged with the deferred one, or the one that waits.
MergeTick(l, polls) ==
    IF l.deferred # None THEN [l EXCEPT !.deferred.polls = @ \cup polls]
    ELSE [l EXCEPT !.tick = @ \cup polls]

\* No message came for a while: a deferred poll is taken up when its cool-down has
\* passed, and the scheduler says which polls are due.
Timeout ==
    /\ Running
    /\ \E polls \in SUBSET Polls :
         /\ IF polls = {} THEN UNCHANGED spent
            ELSE spent.ticks < MaxTicks /\ Spend("ticks", 1)
         /\ due' = due \cup polls
         /\ MaybeStartNext(slot = Free, refreshes.active,
              MergeTick(IF loop.deferred # None /\ loop.deferred.passed
                        THEN TakeUp(loop) ELSE loop, polls))
    /\ UNCHANGED <<phase, clients, closers, remote>>

\* Mutant of Shutdown: nobody is told whose request was dropped.
ShutdownForgetting(asking) ==
    /\ Running /\ \A c \in asking : clients[c] = "idle"
    /\ loop' = [loop EXCEPT !.pending = <<>>]
    /\ UNCHANGED <<slot, refreshes, remote, due, spent>>
    /\ FinishShutdownIfDrained(TRUE, asking,
         [c \in Clients |-> IF c \in asking THEN "waiting" ELSE clients[c]])

\* A client ends the daemon, or its owner does: queued requests are dropped, and
\* their callers see that nobody will answer; what runs is waited for.
Shutdown(asking) ==
    /\ Running /\ \A c \in asking : clients[c] = "idle"
    /\ loop' = [loop EXCEPT !.pending = <<>>]
    /\ UNCHANGED <<slot, refreshes, remote, due, spent>>
    /\ FinishShutdownIfDrained(TRUE, asking,
         [c \in Clients |->
            IF c \in asking THEN "waiting"
            ELSE IF \E i \in 1..Len(loop.pending) : loop.pending[i].from = c THEN "refused"
            ELSE clients[c]])

Next ==
    \/ \E c \in Clients, kind \in Kinds : Submit(c, kind)
    \/ \E kind \in {"hydration", "freshness"} : QueueBackground(kind)
    \/ \E e \in Events : WatcherReports(e)
    \/ WorkerFinishes \/ JobEnds
    \/ FetchEnds \/ RefreshEnds
    \/ CoolDownPasses \/ Timeout
    \/ Shutdown({}) \/ \E c \in Clients : Shutdown({c})

Spec == Init /\ [][Next]_vars

\* A timeout at which no new poll is due and no directory refresh starts.
QuietTimeout == Timeout /\ UNCHANGED <<refreshes, spent>>

\* Workers return, their messages are taken, and the loop times out now and then
\* (which it does when no message has come for a tick); it owes no poll and no refresh.
Fairness ==
    /\ WF_vars(WorkerFinishes) /\ WF_vars(JobEnds)
    /\ WF_vars(FetchEnds) /\ WF_vars(RefreshEnds)
    /\ WF_vars(CoolDownPasses) /\ WF_vars(QuietTimeout)

FairSpec == Spec /\ Fairness

-----------------------------------------------------------------------------
(* Properties *)

Froms == Clients \cup Events \cup {None}
Requests ==
    [kind : {"pull", "push", "open", "event", "autopush"}, from : Froms, done : BOOLEAN]
Fetches == [polls : SUBSET Polls, asOf : Nat]
Loops == [pending : Seq(Requests), hydration : Nat, freshness : Nat,
          tick : SUBSET Polls,
          deferred : [polls : SUBSET Polls, passed : BOOLEAN] \cup {None},
          fetch : Fetches \cup {None}, snapshot : Fetches \cup {None}]
Slots == Requests
         \cup [kind : {"none", "hydration", "freshness"}, from : {None}, done : BOOLEAN]
         \cup [kind : {"reconcile"}, from : {None}, done : BOOLEAN,
               polls : SUBSET Polls, asOf : Nat]

TypeOK ==
    /\ loop \in Loops
    /\ slot \in Slots
    /\ refreshes \in [active : 0..MaxRefreshing, left : 0..MaxRefreshes]
    /\ phase \in {"running", "stopping", "stopped"}
    /\ clients \in [Clients -> {"idle", "waiting", "answered", "refused"}]
    /\ closers \in SUBSET Clients
    /\ remote \in Nat
    /\ due \in SUBSET Polls
    /\ spent \in [events : 0..MaxEvents, followUps : 0..MaxFollowUps,
                  ticks : 0..MaxTicks, limits : 0..MaxLimits]

\* docs/daemon.md: pushes and pulls wait until the snapshot "has either been
\* reconciled or discarded, preventing a remote mutation from making the fetched
\* snapshot stale before commit": no push of this daemon changes the sources between
\* the fetch of a snapshot and the end of its reconciliation.
SnapshotIsFresh ==
    /\ loop.fetch # None => loop.fetch.asOf = remote
    /\ loop.snapshot # None => loop.snapshot.asOf = remote
    /\ slot.kind = "reconcile" => slot.asOf = remote

Queued(c) == {i \in 1..Len(loop.pending) : loop.pending[i].from = c}
Runs(c) == slot.from = c
Closes(c) == c \in closers /\ phase # "stopped"

\* A caller that waits is waited for in exactly one place: its request is queued, or
\* runs, or it asked for the shutdown.  None is run twice, lost, or answered early,
\* whichever requests overtake it.
RequestsAreHeld ==
    \A c \in Clients :
        /\ clients[c] = "waiting" <=> Queued(c) # {} \/ Runs(c) \/ Closes(c)
        /\ \A i, j \in Queued(c) : i = j
        /\ Queued(c) # {} => ~Runs(c) /\ ~Closes(c)
        /\ Runs(c) => ~Closes(c)

\* docs/daemon.md: "Queued hydrations drain before the next scheduled poll", and so
\* do the requests of clients: no poll starts in front of either.
PollsComeLast ==
    [][(loop.fetch = None /\ loop'.fetch # None) =>
         loop'.hydration = 0 /\ loop'.pending = <<>> /\ slot' = Free]_vars

\* After a shutdown was requested no job, fetch or refresh starts, whatever messages
\* still come in, and the loop ends only when none of them runs.
ShutdownDrains ==
    [][~Running =>
         /\ slot' \in {Free, slot} \/ (slot # Free /\ slot' = [slot EXCEPT !.done = TRUE])
         /\ loop'.fetch \in {None, loop.fetch}
         /\ refreshes'.active <= refreshes.active
         /\ phase' = "stopped" => slot' = Free /\ loop'.fetch = None /\ refreshes'.active = 0]_vars

\* Every caller gets an answer or learns that there will be none, through snapshots,
\* rate limits and a shutdown in the middle of it.
EveryoneIsAnswered == \A c \in Clients : (clients[c] = "waiting") ~> (clients[c] # "waiting")

\* A poll that came due is reconciled or fails, however often it is rate limited or
\* merged with later ones, unless the daemon is shut down.
PollsRun == \A p \in Polls : (p \in due) ~> (p \notin due \/ ~Running)
=============================================================================
