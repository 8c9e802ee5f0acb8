---------------------------- MODULE HydrationJobs ----------------------------
(***************************************************************************)
(* The daemon's hydration work: the queue of pages to fetch, the parking   *)
(* lot for the ones whose fetch failed, the one worker that runs them, and *)
(* the rows that outlive the daemon.  The control loop handles requests,   *)
(* completions and ticks one at a time; the worker runs beside it.         *)
(*                                                                         *)
(* A target has at most one request in the queue and one in the parking    *)
(* lot.  Targets of one priority leave the queue in any order, and a retry *)
(* deadline either has passed or has not.                                  *)
(***************************************************************************)
EXTENDS Integers, FiniteSets

CONSTANTS
    Targets,         \* the pages, as (mount, remote id)
    Reasons,         \* the reasons for a hydration that are in play
    None,            \* "no request"
    MaxRequests,     \* bound: requests that are accepted
    MaxAsks,         \* bound: materializations and pulls
    MaxFailures,     \* bound: failed hydrations
    MaxCrashes       \* bound: restarts of the daemon

Foreground == {"ExplicitPull", "FileOpen", "StubRead"}
FastForward == {"RemoteFastForward", "LiveModeRemoteFastForward"}
AllReasons == Foreground \cup FastForward \cup {"Policy", "Prefetch"}

ASSUME HydrationAssumption ==
    /\ Reasons \subseteq AllReasons
    /\ None \notin AllReasons
    /\ {MaxRequests, MaxAsks, MaxFailures, MaxCrashes} \subseteq Nat

VARIABLES
    queued,    \* the queue: per target, the reason of its request or None
    parked,    \* the deferred requests: per target, the reason or None
    due,       \* the parked targets whose retry deadline has passed
    asked,     \* pulls and materializations that clients wait for
    slot,      \* the job that holds the worker
    rows,      \* durable: the hydration_jobs table, the reason per target
    stubs,     \* durable: the pages whose body is still online only
    owed,      \* history: per target, the reasons accepted and not yet served
    spent      \* how much of each bound is used up

vars == <<queued, parked, due, asked, slot, rows, stubs, owed, spent>>

NoRequest == [t \in Targets |-> None]
Requests == [Targets -> AllReasons \cup {None}]

Free == [job |-> "none"]
Pull == [job |-> "pull"]
Materialize(t) == [job |-> "materialize", target |-> t]
Hydration(t, reason, serves) ==
    [job |-> "hydration", target |-> t, reason |-> reason, serves |-> serves,
     result |-> "running"]

ClientJobs == {Pull} \cup {Materialize(t) : t \in Targets}
Hydrations == [job : {"hydration"}, target : Targets, reason : AllReasons,
               serves : SUBSET AllReasons, result : {"running", "ok", "failed"}]

\* hydration_priority: High, Normal, Low.
Priority(reason) ==
    CASE reason = "Prefetch" -> 1
      [] reason \in {"Policy", "RemoteFastForward"} -> 2
      [] OTHER -> 3

\* Mutant of Merge: the newer reason wins.
MergeTakingNewer(existing, incoming) == incoming

\* Two requests for a target become one that keeps the stronger reason.
Merge(existing, incoming) ==
    IF existing = None \/ Priority(incoming) > Priority(existing)
    THEN incoming ELSE existing

Hydrating(t) == slot.job = "hydration" /\ slot.target = t
Serves(t) == IF Hydrating(t) THEN slot.serves ELSE {}
Pending(t) == queued[t] # None \/ parked[t] # None

Spend(budget) == spent' = [spent EXCEPT ![budget] = @ + 1]

Init ==
    /\ queued = NoRequest /\ parked = NoRequest /\ due = {}
    /\ asked = {} /\ slot = Free
    /\ rows = NoRequest
    /\ stubs \in SUBSET Targets
    /\ owed = [t \in Targets |-> {}]
    /\ spent = [requests |-> 0, asks |-> 0, failures |-> 0, crashes |-> 0]

-----------------------------------------------------------------------------
(* The worker *)

\* Mutant of StartNext: the queue is not asked whether it holds a request.
StartNextUnchecked(waiting, queue, promised) ==
    \E t \in Targets :
        /\ slot' = Hydration(t, queue[t], promised[t])
        /\ queued' = [queue EXCEPT ![t] = None]
        /\ owed' = [promised EXCEPT ![t] = {}]
        /\ asked' = waiting

\* What a free worker takes up: what a client waits for, else the hydration with
\* the strongest reason.
StartNext(waiting, queue, promised) ==
    \/ \E job \in waiting :
         /\ slot' = job /\ asked' = waiting \ {job}
         /\ queued' = queue /\ owed' = promised
    \/ \E t \in Targets :
         /\ waiting = {}
         /\ queue[t] # None
         /\ \A u \in Targets : queue[u] # None => Priority(queue[u]) <= Priority(queue[t])
         /\ slot' = Hydration(t, queue[t], promised[t])
         /\ queued' = [queue EXCEPT ![t] = None]
         /\ owed' = [promised EXCEPT ![t] = {}]
         /\ asked' = waiting
    \/ /\ waiting = {} /\ queue = NoRequest
       /\ slot' = Free /\ asked' = waiting
       /\ queued' = queue /\ owed' = promised

\* Every handler of the control loop ends with this.
MaybeStartNext(free, waiting, queue, promised) ==
    \/ free /\ StartNext(waiting, queue, promised)
    \/ /\ ~free
       /\ asked' = waiting /\ queued' = queue /\ owed' = promised
       /\ UNCHANGED slot

\* The executor leaves a page hydrated, or finds it dirty or gone; or it fails, and
\* what it wrote stays.
WorkerFinishes ==
    /\ slot.job = "hydration" /\ slot.result = "running"
    /\ \/ /\ slot' = [slot EXCEPT !.result = "ok"]
          /\ stubs' = stubs \ {slot.target}
          /\ UNCHANGED spent
       \/ /\ spent.failures < MaxFailures /\ Spend("failures")
          /\ slot' = [slot EXCEPT !.result = "failed"]
          /\ stubs' \in {stubs, stubs \ {slot.target}}
    /\ UNCHANGED <<queued, parked, due, asked, rows, owed>>

-----------------------------------------------------------------------------
(* Requests *)

\* A client asks for a pull, or opens a page that has to be materialized.
Ask(job) ==
    /\ spent.asks < MaxAsks
    /\ MaybeStartNext(slot = Free, asked \cup {job}, queued, owed)
    /\ Spend("asks")
    /\ UNCHANGED <<parked, due, rows, stubs>>

\* A fast-forward is dropped while its target is queued or being fast-forwarded.
AlreadyQueued(t) ==
    \/ queued[t] # None
    \/ Hydrating(t) /\ slot.reason = "LiveModeRemoteFastForward"

\* Prefetches are made for pages that are not here, fast-forwards for pages that are,
\* when their file and its freshness allow it.
MayAsk(t, reason) ==
    /\ reason = "Prefetch" => t \in stubs
    /\ reason \in FastForward => t \notin stubs /\ ~AlreadyQueued(t)

\* Mutant of Accept: a new request ends the cool-down of its target.
AcceptEndingCoolDown(t, reason) ==
    /\ spent.requests < MaxRequests
    /\ MayAsk(t, reason)
    /\ LET merged == IF parked[t] # None THEN Merge(parked[t], reason)
                     ELSE Merge(queued[t], reason)
       IN /\ rows' = [rows EXCEPT ![t] = merged]
          /\ parked' = [parked EXCEPT ![t] = None]
          /\ due' = due \ {t}
          /\ MaybeStartNext(slot = Free, asked, [queued EXCEPT ![t] = Merge(@, merged)],
                            [owed EXCEPT ![t] = @ \cup {reason}])
    /\ Spend("requests")
    /\ UNCHANGED stubs

\* A request is merged into the parked one of its target, which only a foreground
\* request takes out of its cool-down, or else into the queued one.
Accept(t, reason) ==
    /\ spent.requests < MaxRequests
    /\ MayAsk(t, reason)
    /\ LET merged == IF parked[t] # None THEN Merge(parked[t], reason)
                     ELSE Merge(queued[t], reason)
           waits == parked[t] # None /\ reason \notin Foreground
       IN /\ rows' = [rows EXCEPT ![t] = merged]
          /\ parked' = [parked EXCEPT ![t] = IF waits THEN merged ELSE None]
          /\ due' = IF waits THEN due ELSE due \ {t}
          /\ MaybeStartNext(slot = Free, asked,
                            IF waits THEN queued ELSE [queued EXCEPT ![t] = Merge(@, merged)],
                            [owed EXCEPT ![t] = @ \cup {reason}])
    /\ Spend("requests")
    /\ UNCHANGED stubs

-----------------------------------------------------------------------------
(* Completions *)

Without(requests, S, reasons) ==
    [t \in Targets |-> IF t \in S /\ requests[t] \in reasons THEN None ELSE requests[t]]

\* Mutant of HydrationSucceeds: whatever is queued for the target goes with it.
HydrationSucceedsForAll ==
    /\ slot.job = "hydration" /\ slot.result = "ok"
    /\ LET t == slot.target
       IN /\ parked' = Without(parked, {t}, AllReasons)
          /\ due' = {u \in due : parked'[u] # None}
          /\ rows' = [rows EXCEPT ![t] = None]
          /\ MaybeStartNext(TRUE, asked, Without(queued, {t}, AllReasons), owed)
    /\ UNCHANGED <<stubs, spent>>

\* The page is here: a prefetch of it that arrived meanwhile is served as well, and
\* the row goes unless another request for the page is pending.
HydrationSucceeds ==
    /\ slot.job = "hydration" /\ slot.result = "ok"
    /\ LET t == slot.target
           served == IF slot.reason = "Prefetch" THEN {} ELSE {"Prefetch"}
           queue == Without(queued, {t}, served)
       IN /\ parked' = Without(parked, {t}, served)
          /\ due' = {u \in due : parked'[u] # None}
          /\ rows' = IF queue[t] # None \/ parked'[t] # None THEN rows
                     ELSE [rows EXCEPT ![t] = None]
          /\ MaybeStartNext(TRUE, asked, queue,
                            IF queue[t] # None \/ parked'[t] # None THEN owed
                            ELSE [owed EXCEPT ![t] = @ \ served])
    /\ UNCHANGED <<stubs, spent>>

\* Mutant of HydrationFails: what was queued meanwhile stays in the queue.
HydrationFailsAlone ==
    /\ slot.job = "hydration" /\ slot.result = "failed"
    /\ LET t == slot.target
           merged == Merge(parked[t], slot.reason)
       IN /\ parked' = [parked EXCEPT ![t] = merged]
          /\ due' = due \ {t}
          /\ rows' = [rows EXCEPT ![t] = merged]
          /\ MaybeStartNext(TRUE, asked, queued, [owed EXCEPT ![t] = @ \cup slot.serves])
    /\ UNCHANGED <<stubs, spent>>

\* Rate limited or failed: the request is parked, and takes along what was queued
\* for its target while it ran.
HydrationFails ==
    /\ slot.job = "hydration" /\ slot.result = "failed"
    /\ LET t == slot.target
           failed == IF queued[t] = None THEN slot.reason ELSE Merge(slot.reason, queued[t])
           merged == Merge(parked[t], failed)
       IN /\ parked' = [parked EXCEPT ![t] = merged]
          /\ due' = due \ {t}
          /\ rows' = [rows EXCEPT ![t] = merged]
          /\ MaybeStartNext(TRUE, asked, [queued EXCEPT ![t] = None],
                            [owed EXCEPT ![t] = @ \cup slot.serves])
    /\ UNCHANGED <<stubs, spent>>

\* Prefetches of S are cancelled, with their rows; other requests stay.
CancelPrefetches(S, kept) ==
    LET queue == Without(queued, S, {"Prefetch"})
        gone == {t \in S : queue[t] = None /\ parked'[t] = None}
    IN /\ parked' = Without(parked, S, {"Prefetch"})
       /\ due' = {u \in due : parked'[u] # None}
       /\ rows' = [t \in Targets |->
                     IF t \in gone /\ rows[t] = "Prefetch" THEN None ELSE rows[t]]
       /\ stubs' = kept
       /\ MaybeStartNext(TRUE, asked, queue,
                         [t \in Targets |-> IF t \in gone THEN owed[t] \ {"Prefetch"}
                                            ELSE owed[t]])
       /\ UNCHANGED spent

\* What a client's materialization of t found: it fetched the page, or the page was
\* here, or the call failed.
MaterializeEnds(t) ==
    /\ slot = Materialize(t)
    /\ \/ /\ parked' = [parked EXCEPT ![t] = None]
          /\ due' = due \ {t}
          /\ rows' = [rows EXCEPT ![t] = None]
          /\ stubs' = stubs \ {t}
          /\ MaybeStartNext(TRUE, asked, [queued EXCEPT ![t] = None], [owed EXCEPT ![t] = {}])
       \/ t \notin stubs /\ CancelPrefetches({t}, stubs)
       \/ MaybeStartNext(TRUE, asked, queued, owed) /\ UNCHANGED <<parked, due, rows, stubs>>
    /\ UNCHANGED spent

\* A pull leaves fewer stubs; when it succeeds, the prefetches of pages that are no
\* stubs any more are pruned.
PullEnds ==
    /\ slot = Pull
    /\ \E kept \in SUBSET stubs :
         \/ CancelPrefetches({t \in Targets \ kept : "Prefetch" \in {queued[t], parked[t]}}, kept)
         \/ /\ stubs' = kept
            /\ MaybeStartNext(TRUE, asked, queued, owed)
            /\ UNCHANGED <<parked, due, rows>>
    /\ UNCHANGED spent

-----------------------------------------------------------------------------
(* Time, and restarts *)

DeadlinePasses(t) ==
    /\ parked[t] # None /\ t \notin due
    /\ due' = due \cup {t}
    /\ UNCHANGED <<queued, parked, asked, slot, rows, stubs, owed, spent>>

\* Mutant of Tick: the parked requests whose time has come are forgotten.
TickForgetting ==
    /\ due # {} \/ (slot = Free /\ queued # NoRequest)
    /\ parked' = [t \in Targets |-> IF t \in due THEN None ELSE parked[t]]
    /\ due' = {}
    /\ MaybeStartNext(slot = Free, asked, queued, owed)
    /\ UNCHANGED <<rows, stubs, spent>>

\* The control tick queues what has waited long enough.  A fast-forward that is no
\* longer wanted, or has to wait for the user to leave the page, is dropped.
Tick ==
    /\ due # {} \/ (slot = Free /\ queued # NoRequest)
    /\ \E dropped \in SUBSET {t \in due : parked[t] \in FastForward} :
         LET queue == [t \in Targets |-> IF t \in due \ dropped THEN Merge(queued[t], parked[t])
                                         ELSE queued[t]]
         IN /\ rows' = [t \in Targets |-> IF t \in due \ dropped THEN queue[t] ELSE rows[t]]
            /\ MaybeStartNext(slot = Free, asked, queue,
                              [t \in Targets |-> IF t \in dropped THEN {} ELSE owed[t]])
    /\ parked' = [t \in Targets |-> IF t \in due THEN None ELSE parked[t]]
    /\ due' = {}
    /\ UNCHANGED <<stubs, spent>>

\* A new daemon queues what the table holds, and knows of nothing else.
Restart ==
    /\ spent.crashes < MaxCrashes
    /\ Spend("crashes")
    /\ queued' = rows
    /\ parked' = NoRequest /\ due' = {} /\ asked' = {} /\ slot' = Free
    /\ owed' = [t \in Targets |-> IF rows[t] # None THEN {rows[t]}
                                  ELSE owed[t] \cup Serves(t)]
    /\ UNCHANGED <<rows, stubs>>

Next ==
    \/ \E t \in Targets, reason \in Reasons : Accept(t, reason)
    \/ \E job \in ClientJobs : Ask(job)
    \/ WorkerFinishes
    \/ HydrationSucceeds \/ HydrationFails
    \/ \E t \in Targets : MaterializeEnds(t)
    \/ PullEnds
    \/ \E t \in Targets : DeadlinePasses(t)
    \/ Tick
    \/ Restart

Spec == Init /\ [][Next]_vars

\* The loop takes its messages and ticks, workers return, and clocks go on.
Fairness ==
    /\ WF_vars(WorkerFinishes)
    /\ WF_vars(HydrationSucceeds \/ HydrationFails \/ PullEnds)
    /\ \A t \in Targets : WF_vars(MaterializeEnds(t)) /\ WF_vars(DeadlinePasses(t))
    /\ WF_vars(Tick)

FairSpec == Spec /\ Fairness

-----------------------------------------------------------------------------
(* Properties *)

TypeOK ==
    /\ queued \in Requests /\ parked \in Requests
    /\ due \in SUBSET Targets
    /\ asked \in SUBSET ClientJobs
    /\ slot \in {Free} \cup ClientJobs \cup Hydrations
    /\ rows \in Requests
    /\ stubs \in SUBSET Targets
    /\ owed \in [Targets -> SUBSET AllReasons]
    /\ spent \in [requests : 0..MaxRequests, asks : 0..MaxAsks,
                  failures : 0..MaxFailures, crashes : 0..MaxCrashes]

\* A request that was accepted, and that no successful hydration has served since,
\* is pending with at least its priority: merging, failing, a newer request, the
\* completion of an older one and cancelled prefetches neither lose nor demote it.
\* What was merged into a fast-forward shares its fate when that is dropped.
AcceptedIsPending ==
    \A t \in Targets : \A reason \in owed[t] :
        \E pending \in {queued[t], parked[t]} \ {None} : Priority(pending) >= Priority(reason)

\* What is accepted survives the daemon: it has a row as long as it is queued, parked
\* or running, and the row of a pending request has its reason.
AcceptedIsDurable ==
    \A t \in Targets :
        /\ owed[t] \cup Serves(t) # {} => rows[t] # None
        /\ Pending(t) => rows[t] \in {queued[t], parked[t]} \ {None}

\* No target is queued and parked at once, and no row is left behind when its target
\* has been served; the row of a dropped fast-forward stays until the next restart.
OneOwner ==
    \A t \in Targets :
        /\ ~(queued[t] # None /\ parked[t] # None)
        /\ rows[t] # None => Pending(t) \/ Hydrating(t) \/ rows[t] \in FastForward

\* Repeated discovery does not bypass a retry deadline: a parked request is taken up
\* before its time only for a foreground request, or dropped once the page is here.
CoolDownIsKept ==
    [][\A t \in Targets :
         (parked[t] # None /\ t \notin due /\ parked'[t] = None /\ ~Restart) =>
             \/ \E reason \in Foreground : Accept(t, reason)
             \/ t \notin stubs' /\ queued'[t] = None /\ ~Hydrating(t)']_vars

\* Once no more requests come, every accepted one is served.
AllServed == <>[](\A t \in Targets : owed[t] \cup Serves(t) = {})

-----------------------------------------------------------------------------
(* What the queue implements *)

\* The reason for which each page is wanted, and the fetch that runs.
Wanted == [t \in Targets |-> IF queued[t] # None THEN queued[t] ELSE parked[t]]
Running == IF slot.job = "hydration" THEN [page |-> slot.target, kind |-> slot.reason]
           ELSE [page |-> None, kind |-> None]

Promises == INSTANCE HydrationPromises WITH
    Pages <- Targets, Kinds <- AllReasons, Rank <- [reason \in AllReasons |-> Priority(reason)],
    Ahead <- {"Prefetch"}, Advice <- FastForward,
    wanted <- Wanted, running <- Running

\* Queue, parking lot and rows together hold one wish per page, and no handler, failure,
\* tick or restart drops, weakens or doubles one but as HydrationPromises allows.
KeepsPromises == Promises!Spec
=============================================================================
