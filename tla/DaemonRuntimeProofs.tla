------------------------- MODULE DaemonRuntimeProofs -------------------------
(***************************************************************************)
(* Theorems about the control loop: its types, that a snapshot does not go *)
(* stale, that every caller is held in one place, that polls come last and *)
(* that a shutdown drains, for any number of callers, events and jobs.     *)
(***************************************************************************)
EXTENDS DaemonRuntime, SequenceTheorems, TLAPS

(* What taking an element out of a queue, and putting one in, do. *)

LEMMA RemoveAtProperties ==
    ASSUME NEW S, NEW s \in Seq(S), NEW i \in 1..Len(s)
    PROVE  /\ RemoveAt(s, i) \in Seq(S)
           /\ Len(RemoveAt(s, i)) = Len(s) - 1
           /\ \A j \in 1..(Len(s) - 1) :
                RemoveAt(s, i)[j] = IF j < i THEN s[j] ELSE s[j + 1]
<1> DEFINE before == SubSeq(s, 1, i - 1)
           after == SubSeq(s, i + 1, Len(s))
<1>1. /\ before \in Seq(S) /\ Len(before) = i - 1
      /\ \A j \in 1..(i - 1) : before[j] = s[j]
  <2>1. \A j \in 1..(i - 1) : s[j] \in S
    BY ElementOfSeq
  <2>2. 1 \in Int /\ i - 1 \in Int
    OBVIOUS
  <2> QED
    BY <2>1, <2>2, SubSeqProperties
<1>2. /\ after \in Seq(S) /\ Len(after) = Len(s) - i
      /\ \A j \in 1..(Len(s) - i) : after[j] = s[i + j]
  <2>1. \A j \in (i + 1)..Len(s) : s[j] \in S
    BY ElementOfSeq
  <2>2. i + 1 \in Int /\ Len(s) \in Int
    OBVIOUS
  <2> HIDE DEF after
  <2>3. /\ after \in Seq(S)
        /\ Len(after) = IF i + 1 <= Len(s) THEN Len(s) - (i + 1) + 1 ELSE 0
        /\ \A j \in 1..(Len(s) - (i + 1) + 1) : after[j] = s[(i + 1) + j - 1]
    BY <2>1, <2>2, SubSeqProperties DEF after
  <2> QED
    BY <2>3
<1> HIDE DEF before, after
<1>3. RemoveAt(s, i) = before \o after
  BY DEF RemoveAt, before, after
<1>4. /\ before \o after \in Seq(S)
      /\ Len(before \o after) = Len(before) + Len(after)
      /\ \A j \in 1..(Len(before) + Len(after)) :
           (before \o after)[j] = IF j <= Len(before) THEN before[j] ELSE after[j - Len(before)]
  BY <1>1, <1>2, ConcatProperties
<1> QED
  BY <1>1, <1>2, <1>3, <1>4

LEMMA PushFrontProperties ==
    ASSUME NEW S, NEW s \in Seq(S), NEW e \in S
    PROVE  /\ <<e>> \o s \in Seq(S)
           /\ Len(<<e>> \o s) = Len(s) + 1
           /\ (<<e>> \o s)[1] = e
           /\ \A j \in 2..(Len(s) + 1) : (<<e>> \o s)[j] = s[j - 1]
  BY ConcatProperties

-----------------------------------------------------------------------------
(* Types *)

RequestKinds == {"pull", "push", "open", "event", "autopush"}

LEMMA EnqueueIsTyped ==
    ASSUME loop \in Loops, NEW kind \in RequestKinds, NEW from \in Froms
    PROVE  /\ Enqueue(kind, from) \in Loops
           /\ Enqueue(kind, from).fetch = loop.fetch
           /\ Enqueue(kind, from).snapshot = loop.snapshot
<1>1. Request(kind, from) \in Requests
  BY DEF Request, Requests, RequestKinds
<1>2. <<Request(kind, from)>> \o loop.pending \in Seq(Requests)
      /\ Append(loop.pending, Request(kind, from)) \in Seq(Requests)
  BY <1>1, PushFrontProperties, AppendProperties DEF Loops
<1> QED
  BY <1>2 DEF Enqueue, Loops

LEMMA StartPollIsTyped ==
    ASSUME NEW l \in Loops, remote \in Nat
    PROVE  StartPoll(l) \in Loops
  BY DEF StartPoll, Loops, Fetches

LEMMA NextRequestsInRange ==
    ASSUME NEW l \in Loops, NEW i \in NextRequests(l)
    PROVE  /\ i \in 1..Len(l.pending)
           /\ l.pending[i] \in Requests
           /\ Snapshot(l) => l.pending[i].kind \notin Stable
           /\ RemoveAt(l.pending, i) \in Seq(Requests)
<1>1. i \in 1..Len(l.pending) /\ (Snapshot(l) => l.pending[i].kind \notin Stable)
  BY DEF NextRequests
<1>2. l.pending \in Seq(Requests)
  BY DEF Loops
<1> QED
  BY <1>1, <1>2, ElementOfSeq, RemoveAtProperties

LEMMA StartJobIsTyped ==
    ASSUME NEW l \in Loops, NEW n \in Nat, remote \in Nat, StartJob(l, n)
    PROVE  loop' \in Loops /\ slot' \in Slots
<1>1. CASE \E i \in NextRequests(l) :
             slot' = l.pending[i] /\ loop' = [l EXCEPT !.pending = RemoveAt(@, i)]
  BY <1>1, NextRequestsInRange DEF Loops, Slots
<1>2. CASE l.hydration > 0 /\ slot' = Job("hydration")
           /\ loop' = [l EXCEPT !.hydration = @ - 1]
  BY <1>2 DEF Loops, Slots, Job, Request
<1>3. CASE l.freshness > 0 /\ slot' = Job("freshness")
           /\ loop' = [l EXCEPT !.freshness = @ - 1]
  BY <1>3 DEF Loops, Slots, Job, Request
<1>4. CASE l.snapshot # None /\ slot' = Reconcile(l.snapshot)
           /\ loop' = [l EXCEPT !.snapshot = None]
  <2>1. l.snapshot \in Fetches
    BY <1>4 DEF Loops
  <2> QED
    BY <1>4, <2>1 DEF Loops, Slots, Reconcile, Fetches
<1>5. CASE slot' = Free /\ loop' = StartPoll(l)
  BY <1>5, StartPollIsTyped DEF Slots, Free, Job, Request
<1> QED
  BY <1>1, <1>2, <1>3, <1>4, <1>5 DEF StartJob

LEMMA FreeIsASlot == Free \in Slots
  BY DEF Free, Job, Request, Slots

Refreshes == [active : 0..MaxRefreshing, left : 0..MaxRefreshes]

LEMMA NextIsTyped ==
    ASSUME NEW l \in Loops, NEW free \in BOOLEAN, NEW active \in 0..MaxRefreshing,
           slot \in Slots, refreshes \in Refreshes, remote \in Nat,
           MaybeStartNext(free, active, l)
    PROVE  loop' \in Loops /\ slot' \in Slots /\ refreshes' \in Refreshes
<1> USE RuntimeAssumption
<1>1. CASE Running /\ free
  <2>1. PICK n \in 0..refreshes.left :
          /\ active + n <= MaxRefreshing
          /\ refreshes' = [active |-> active + n, left |-> refreshes.left - n]
          /\ StartJob(l, n)
    BY <1>1 DEF MaybeStartNext
  <2>2. n \in Nat /\ refreshes' \in Refreshes
    BY <2>1 DEF Refreshes
  <2> QED
    BY <2>1, <2>2, StartJobIsTyped
<1>2. CASE ~(Running /\ free)
  <2>1. loop' = l /\ slot' \in {Free, slot}
    BY <1>2 DEF MaybeStartNext
  <2>2. refreshes' = [refreshes EXCEPT !.active = active]
    BY <1>2 DEF MaybeStartNext
  <2> QED
    BY <2>1, <2>2, FreeIsASlot DEF Refreshes
<1> QED
  BY <1>1, <1>2

Phases == {"running", "stopping", "stopped"}
Answers == [Clients -> {"idle", "waiting", "answered", "refused"}]

LEMMA FinishIsTyped ==
    ASSUME phase \in Phases, NEW stopping \in BOOLEAN,
           NEW waiting \in SUBSET Clients, NEW answered \in Answers,
           FinishShutdownIfDrained(stopping, waiting, answered)
    PROVE  closers' \in SUBSET Clients /\ phase' \in Phases /\ clients' \in Answers
<1>1. closers' \in SUBSET Clients
  BY DEF FinishShutdownIfDrained
<1>2. phase' \in Phases
  BY DEF FinishShutdownIfDrained, Phases
<1>3. clients' \in Answers
  BY DEF FinishShutdownIfDrained, Answers
<1> QED
  BY <1>1, <1>2, <1>3

Spendings == [events : 0..MaxEvents, followUps : 0..MaxFollowUps,
              ticks : 0..MaxTicks, limits : 0..MaxLimits]

LEMMA SpendingIsTyped ==
    ASSUME spent \in Spendings,
           \/ spent.events < MaxEvents /\ Spend("events", 1)
           \/ spent.followUps < MaxFollowUps /\ Spend("followUps", 1)
           \/ spent.ticks < MaxTicks /\ Spend("ticks", 1)
           \/ spent.limits < MaxLimits /\ Spend("limits", 1)
    PROVE  spent' \in Spendings
  BY RuntimeAssumption DEF Spend, Spendings

LEMMA FollowUpIsTyped ==
    ASSUME loop \in Loops, NEW kind \in {"hydration", "freshness", "autopush"}
    PROVE  /\ QueueFollowUp(kind) \in Loops
           /\ QueueFollowUp(kind).fetch = loop.fetch
           /\ QueueFollowUp(kind).snapshot = loop.snapshot
<1>1. CASE kind = "autopush"
  BY <1>1, EnqueueIsTyped DEF QueueFollowUp, RequestKinds, Froms
<1>2. CASE kind = "hydration"
  BY <1>2 DEF QueueFollowUp, Loops
<1>3. CASE kind = "freshness"
  BY <1>3 DEF QueueFollowUp, Loops
<1> QED
  BY <1>1, <1>2, <1>3

LEMMA FollowUpKinds ==
    ASSUME NEW kind \in FollowUps(slot.kind)
    PROVE  kind \in {"hydration", "freshness", "autopush"}
  BY DEF FollowUps

LEMMA MergeTickIsTyped ==
    ASSUME NEW l \in Loops, NEW polls \in SUBSET Polls
    PROVE  /\ MergeTick(l, polls) \in Loops
           /\ MergeTick(l, polls).pending = l.pending
           /\ MergeTick(l, polls).fetch = l.fetch
           /\ MergeTick(l, polls).snapshot = l.snapshot
  BY DEF MergeTick, Loops

LEMMA TakeUpIsTyped ==
    ASSUME NEW l \in Loops, l.deferred # None
    PROVE  /\ TakeUp(l) \in Loops
           /\ TakeUp(l).pending = l.pending
           /\ TakeUp(l).fetch = l.fetch
           /\ TakeUp(l).snapshot = l.snapshot
  BY DEF TakeUp, Loops

\* What a handler hands to MaybeStartNext.
LEMMA HandlersAreTyped ==
    ASSUME TypeOK
    PROVE  /\ \A c \in Clients, kind \in Kinds : Enqueue(kind, c) \in Loops
           /\ \A e \in Events : Enqueue("event", e) \in Loops
           /\ \A kind \in {"hydration", "freshness"} : [loop EXCEPT ![kind] = @ + 1] \in Loops
           /\ \A kind \in FollowUps(slot.kind) : QueueFollowUp(kind) \in Loops
<1>1. \A c \in Clients, kind \in Kinds : kind \in RequestKinds /\ c \in Froms
  BY RuntimeAssumption DEF RequestKinds, Froms
<1>2. \A e \in Events : "event" \in RequestKinds /\ e \in Froms
  BY DEF RequestKinds, Froms
<1>3. loop \in Loops
  BY DEF TypeOK
<1>4. \A kind \in {"hydration", "freshness"} : [loop EXCEPT ![kind] = @ + 1] \in Loops
  BY <1>3 DEF Loops
<1> QED
  BY <1>1, <1>2, <1>3, <1>4, EnqueueIsTyped, FollowUpIsTyped, FollowUpKinds

LEMMA TypeInit == Init => TypeOK
<1> SUFFICES ASSUME Init PROVE TypeOK
  OBVIOUS
<1> USE RuntimeAssumption
<1>1. loop \in Loops
  BY DEF Init, Loops
<1>2. slot \in Slots
  BY FreeIsASlot DEF Init
<1>3. refreshes \in [active : 0..MaxRefreshing, left : 0..MaxRefreshes]
  BY DEF Init
<1>4. spent \in [events : 0..MaxEvents, followUps : 0..MaxFollowUps,
                  ticks : 0..MaxTicks, limits : 0..MaxLimits]
  BY DEF Init
<1> QED
  BY <1>1, <1>2, <1>3, <1>4 DEF Init, TypeOK

LEMMA TypeNext == TypeOK /\ [Next]_vars => TypeOK'
<1> SUFFICES ASSUME TypeOK, [Next]_vars PROVE TypeOK'
  OBVIOUS
<1> USE DEF Refreshes, Phases, Answers, Spendings
<1>typed. /\ loop \in Loops /\ slot \in Slots /\ refreshes \in Refreshes /\ phase \in Phases
          /\ clients \in Answers /\ closers \in SUBSET Clients /\ remote \in Nat
          /\ due \in SUBSET Polls /\ spent \in Spendings
          /\ refreshes.active \in 0..MaxRefreshing
  BY DEF TypeOK
<1>1. CASE UNCHANGED vars
  BY <1>1 DEF vars, TypeOK
<1>2. ASSUME NEW c \in Clients, NEW kind \in Kinds, Submit(c, kind) PROVE TypeOK'
  <2>1. clients' \in Answers
    BY <1>typed, <1>2 DEF Submit
  <2>2. loop' \in Loops /\ slot' \in Slots /\ refreshes' \in Refreshes
    BY <1>typed, <1>2, HandlersAreTyped, NextIsTyped DEF Submit
  <2> QED
    BY <1>typed, <1>2, <2>1, <2>2 DEF Submit, TypeOK
<1>3. ASSUME NEW kind \in {"hydration", "freshness"}, QueueBackground(kind) PROVE TypeOK'
  <2>1. loop' \in Loops /\ slot' \in Slots /\ refreshes' \in Refreshes
    BY <1>typed, <1>3, HandlersAreTyped, NextIsTyped DEF QueueBackground
  <2> QED
    BY <1>typed, <1>3, <2>1, SpendingIsTyped DEF QueueBackground, TypeOK
<1>4. ASSUME NEW e \in Events, WatcherReports(e) PROVE TypeOK'
  <2>1. loop' \in Loops /\ slot' \in Slots /\ refreshes' \in Refreshes
    BY <1>typed, <1>4, HandlersAreTyped, NextIsTyped DEF WatcherReports
  <2> QED
    BY <1>typed, <1>4, <2>1, SpendingIsTyped DEF WatcherReports, TypeOK
<1>5. CASE WorkerFinishes
  <2>1. slot' \in Slots
    BY <1>typed, <1>5 DEF WorkerFinishes, Slots, Requests
  <2>2. remote' \in Nat
    BY <1>typed, <1>5 DEF WorkerFinishes
  <2> QED
    BY <1>typed, <1>5, <2>1, <2>2 DEF WorkerFinishes, TypeOK
<1>6. CASE JobEnds
  <2>1. loop' \in Loops /\ slot' \in Slots /\ refreshes' \in Refreshes /\ spent' \in Spendings
    BY <1>typed, <1>6, HandlersAreTyped, NextIsTyped, SpendingIsTyped DEF JobEnds
  <2>2. closers' \in SUBSET Clients /\ phase' \in Phases /\ clients' \in Answers
    <3>1. (IF slot.from \in Clients THEN Answered(slot.from) ELSE clients) \in Answers
      BY <1>typed DEF Answered
    <3> QED
      BY <1>typed, <1>6, <3>1, FinishIsTyped DEF JobEnds
  <2> QED
    BY <1>typed, <1>6, <2>1, <2>2 DEF JobEnds, TypeOK
<1>7. CASE FetchEnds
  <2>1. /\ [loop EXCEPT !.fetch = None, !.snapshot = loop.fetch] \in Loops
        /\ [loop EXCEPT !.fetch = None,
              !.deferred = [polls |-> loop.fetch.polls, passed |-> FALSE]] \in Loops
        /\ [loop EXCEPT !.fetch = None] \in Loops
    BY <1>typed, <1>7 DEF FetchEnds, Loops, Fetches
  <2>2. loop' \in Loops /\ slot' \in Slots /\ refreshes' \in Refreshes
    BY <1>typed, <1>7, <2>1, NextIsTyped DEF FetchEnds
  <2>3. spent' \in Spendings /\ due' \in SUBSET Polls
    BY <1>typed, <1>7, SpendingIsTyped DEF FetchEnds
  <2>4. closers' \in SUBSET Clients /\ phase' \in Phases /\ clients' \in Answers
    BY <1>typed, <1>7, FinishIsTyped DEF FetchEnds
  <2> QED
    BY <1>typed, <1>7, <2>2, <2>3, <2>4 DEF FetchEnds, TypeOK
<1>8. CASE RefreshEnds
  <2>1. refreshes.active - 1 \in 0..MaxRefreshing
    BY <1>typed, <1>8, RuntimeAssumption DEF RefreshEnds
  <2>2. loop' \in Loops /\ slot' \in Slots /\ refreshes' \in Refreshes
    BY <1>typed, <1>8, <2>1, NextIsTyped DEF RefreshEnds
  <2>3. closers' \in SUBSET Clients /\ phase' \in Phases /\ clients' \in Answers
    BY <1>typed, <1>8, FinishIsTyped DEF RefreshEnds
  <2> QED
    BY <1>typed, <1>8, <2>2, <2>3 DEF RefreshEnds, TypeOK
<1>9. CASE CoolDownPasses
  <2>1. loop' \in Loops
    BY <1>typed, <1>9 DEF CoolDownPasses, Loops
  <2> QED
    BY <1>typed, <1>9, <2>1 DEF CoolDownPasses, TypeOK
<1>10. CASE Timeout
  <2>1. PICK polls \in SUBSET Polls :
          /\ spent' = spent \/ (spent.ticks < MaxTicks /\ Spend("ticks", 1))
          /\ due' = due \cup polls
          /\ MaybeStartNext(slot = Free, refreshes.active,
                MergeTick(IF loop.deferred # None /\ loop.deferred.passed
                          THEN TakeUp(loop) ELSE loop, polls))
    BY <1>10 DEF Timeout
  <2>2. MergeTick(IF loop.deferred # None /\ loop.deferred.passed
                  THEN TakeUp(loop) ELSE loop, polls) \in Loops
    BY <1>typed, TakeUpIsTyped, MergeTickIsTyped
  <2>3. loop' \in Loops /\ slot' \in Slots /\ refreshes' \in Refreshes
    BY <1>typed, <2>1, <2>2, NextIsTyped
  <2>4. spent' \in Spendings
    BY <1>typed, <2>1, SpendingIsTyped
  <2> QED
    BY <1>typed, <1>10, <2>1, <2>3, <2>4 DEF Timeout, TypeOK
<1>11. ASSUME NEW asking \in SUBSET Clients, Shutdown(asking) PROVE TypeOK'
  <2> DEFINE answered == [c \in Clients |->
                IF c \in asking THEN "waiting"
                ELSE IF \E i \in 1..Len(loop.pending) : loop.pending[i].from = c THEN "refused"
                ELSE clients[c]]
  <2>1. answered \in Answers
    BY <1>typed
  <2>2. FinishShutdownIfDrained(TRUE, asking, answered)
    BY <1>11 DEF Shutdown
  <2>3. loop' \in Loops
    BY <1>typed, <1>11, EmptySeq DEF Shutdown, Loops
  <2> HIDE DEF answered
  <2>4. closers' \in SUBSET Clients /\ phase' \in Phases /\ clients' \in Answers
    BY <1>typed, <2>1, <2>2, FinishIsTyped
  <2> QED
    BY <1>typed, <1>11, <2>3, <2>4 DEF Shutdown, TypeOK
<1> QED
  BY <1>1, <1>2, <1>3, <1>4, <1>5, <1>6, <1>7, <1>8, <1>9, <1>10, <1>11 DEF Next

\* Every variable keeps its type, so that at most MaxRefreshing refreshes run and
\* what runs is one of the known jobs.
THEOREM TypeCorrect == Spec => []TypeOK
  BY TypeInit, TypeNext, PTL DEF Spec

-----------------------------------------------------------------------------
(* A snapshot does not go stale *)

\* What the loop holds is as of now; so is what is reconciled; and no push runs
\* beside a snapshot.
FreshLoop(l) ==
    /\ l.fetch # None => l.fetch.asOf = remote
    /\ l.snapshot # None => l.snapshot.asOf = remote
FreshSlot(s) == s.kind = "reconcile" => s.asOf = remote
PushWaits(s, l) == s.kind \in {"push", "autopush"} => ~Snapshot(l)
PushesWait == PushWaits(slot, loop)

LEMMA StartJobKeepsFresh ==
    ASSUME NEW l \in Loops, NEW n \in Nat, FreshLoop(l), StartJob(l, n), remote \in Nat
    PROVE  FreshLoop(loop') /\ FreshSlot(slot') /\ PushWaits(slot', loop')
<1> USE DEF FreshLoop, FreshSlot, PushWaits
<1>1. CASE \E i \in NextRequests(l) :
             slot' = l.pending[i] /\ loop' = [l EXCEPT !.pending = RemoveAt(@, i)]
  <2>1. PICK i \in NextRequests(l) :
             slot' = l.pending[i] /\ loop' = [l EXCEPT !.pending = RemoveAt(@, i)]
    BY <1>1
  <2>2. slot' \in Requests /\ (Snapshot(l) => slot'.kind \notin Stable)
    BY <2>1, NextRequestsInRange
  <2>3. loop'.fetch = l.fetch /\ loop'.snapshot = l.snapshot
    BY <2>1 DEF Loops
  <2>4. slot'.kind # "reconcile"
    BY <2>2 DEF Requests
  <2> QED
    BY <2>2, <2>3, <2>4 DEF Snapshot, Stable
<1>2. CASE slot' = Job("hydration") /\ loop' = [l EXCEPT !.hydration = @ - 1]
  BY <1>2 DEF Loops, Job, Request
<1>3. CASE slot' = Job("freshness") /\ loop' = [l EXCEPT !.freshness = @ - 1]
  BY <1>3 DEF Loops, Job, Request
<1>4. CASE l.snapshot # None /\ slot' = Reconcile(l.snapshot)
           /\ loop' = [l EXCEPT !.snapshot = None]
  BY <1>4 DEF Loops, Reconcile
<1>5. CASE slot' = Free /\ loop' = StartPoll(l)
  BY <1>5 DEF Loops, StartPoll, Free, Job, Request
<1> QED
  BY <1>1, <1>2, <1>3, <1>4, <1>5 DEF StartJob

LEMMA NextKeepsFresh ==
    ASSUME NEW l \in Loops, NEW free \in BOOLEAN, NEW active \in 0..MaxRefreshing,
           refreshes \in Refreshes, remote \in Nat, FreshLoop(l),
           ~free => FreshSlot(slot) /\ PushWaits(slot, l),
           MaybeStartNext(free, active, l)
    PROVE  FreshLoop(loop') /\ FreshSlot(slot') /\ PushWaits(slot', loop')
<1>1. CASE Running /\ free
  <2>1. PICK n \in 0..refreshes.left : StartJob(l, n)
    BY <1>1 DEF MaybeStartNext
  <2> QED
    BY <2>1, StartJobKeepsFresh DEF Refreshes
<1>2. CASE ~(Running /\ free)
  <2>1. loop' = l /\ slot' = IF free THEN Free ELSE slot
    BY <1>2 DEF MaybeStartNext
  <2> QED
    BY <2>1 DEF FreshSlot, PushWaits, FreshLoop, Free, Job, Request
<1> QED
  BY <1>1, <1>2

\* The handlers hand over a loop with the snapshots it had, or fewer.
LEMMA HandlersKeepSnapshots ==
    ASSUME NEW l, FreshLoop(loop), PushesWait,
           l.fetch \in {loop.fetch, None},
           \/ l.snapshot = loop.snapshot
           \/ loop.fetch # None /\ l.snapshot = loop.fetch
    PROVE  FreshLoop(l) /\ PushWaits(slot, l)
  BY DEF FreshLoop, PushWaits, PushesWait, Snapshot

FreshInv == FreshLoop(loop) /\ FreshSlot(slot) /\ PushesWait

LEMMA FreshInit == Init => FreshInv
  BY DEF Init, FreshInv, FreshLoop, FreshSlot, PushesWait, PushWaits, Free, Job, Request

LEMMA FreshNext == TypeOK /\ FreshInv /\ [Next]_vars => FreshInv'
<1> SUFFICES ASSUME TypeOK, FreshInv, [Next]_vars PROVE FreshInv'
  OBVIOUS
<1> DEFINE Handed(l) == l \in Loops /\ FreshLoop(l) /\ PushWaits(slot, l)
<1>typed. /\ loop \in Loops /\ slot \in Slots /\ remote \in Nat /\ refreshes \in Refreshes
          /\ refreshes.active \in 0..MaxRefreshing
  BY DEF TypeOK, Refreshes
<1>fresh. FreshLoop(loop) /\ FreshSlot(slot) /\ PushesWait
  BY DEF FreshInv
<1>free. ASSUME NEW l, Handed(l), NEW free \in BOOLEAN, NEW active \in 0..MaxRefreshing,
                MaybeStartNext(free, active, l), remote' = remote
         PROVE  FreshInv'
  <2>1. FreshLoop(loop') /\ FreshSlot(slot') /\ PushWaits(slot', loop')
    BY <1>typed, <1>fresh, <1>free, NextKeepsFresh
  <2> QED
    BY <2>1, <1>free DEF FreshInv, FreshLoop, FreshSlot, PushesWait, PushWaits, Snapshot
<1>loop. Handed(loop)
  BY <1>typed, <1>fresh DEF PushesWait
<1>1. CASE UNCHANGED vars
  BY <1>1 DEF vars, FreshInv, FreshLoop, FreshSlot, PushesWait, PushWaits, Snapshot
<1>2. ASSUME NEW c \in Clients, NEW kind \in Kinds, Submit(c, kind) PROVE FreshInv'
  <2>1. CASE Running
    <3>1. Enqueue(kind, c) \in Loops /\ Enqueue(kind, c).fetch = loop.fetch
          /\ Enqueue(kind, c).snapshot = loop.snapshot
      BY <1>typed, RuntimeAssumption, EnqueueIsTyped DEF RequestKinds, Froms
    <3>2. Handed(Enqueue(kind, c))
      BY <1>fresh, <3>1, HandlersKeepSnapshots
    <3> QED
      BY <1>2, <1>free, <1>typed, <2>1, <3>2 DEF Submit
  <2>2. CASE ~Running
    BY <1>2, <1>fresh, <2>2
       DEF Submit, FreshInv, FreshLoop, FreshSlot, PushesWait, PushWaits, Snapshot
  <2> QED
    BY <2>1, <2>2
<1>3. ASSUME NEW kind \in {"hydration", "freshness"}, QueueBackground(kind) PROVE FreshInv'
  <2>1. Handed([loop EXCEPT ![kind] = @ + 1])
    BY <1>typed, <1>fresh, HandlersKeepSnapshots, HandlersAreTyped DEF Loops
  <2> QED
    BY <1>3, <1>free, <1>typed, <2>1 DEF QueueBackground
<1>4. ASSUME NEW e \in Events, WatcherReports(e) PROVE FreshInv'
  <2>1. Handed(Enqueue("event", e))
    BY <1>typed, <1>fresh, EnqueueIsTyped, HandlersKeepSnapshots DEF RequestKinds, Froms
  <2> QED
    BY <1>4, <1>free, <1>typed, <2>1 DEF WatcherReports
<1>5. CASE WorkerFinishes
  <2>1. slot'.kind = slot.kind /\ (slot.kind = "reconcile" => slot'.asOf = slot.asOf)
    BY <1>5, <1>typed DEF WorkerFinishes, Slots, Requests
  <2>2. loop' = loop
        /\ (remote' = remote \/ slot.kind \in {"push", "autopush"})
    BY <1>5 DEF WorkerFinishes
  <2> QED
    BY <1>fresh, <2>1, <2>2
       DEF FreshInv, FreshLoop, FreshSlot, PushesWait, PushWaits, Snapshot
<1>6. CASE JobEnds
  <2>1. \A kind \in FollowUps(slot.kind) : Handed(QueueFollowUp(kind))
    BY <1>typed, <1>fresh, FollowUpKinds, FollowUpIsTyped, HandlersKeepSnapshots
  <2> QED
    BY <1>6, <1>free, <1>typed, <1>loop, <2>1 DEF JobEnds
<1>7. CASE FetchEnds
  <2> DEFINE fetched == [loop EXCEPT !.fetch = None, !.snapshot = loop.fetch]
             limited == [loop EXCEPT !.fetch = None,
                           !.deferred = [polls |-> loop.fetch.polls, passed |-> FALSE]]
             failed == [loop EXCEPT !.fetch = None]
  <2>1. loop.fetch \in Fetches
    BY <1>typed, <1>7 DEF FetchEnds, Loops
  <2>2. fetched \in Loops /\ limited \in Loops /\ failed \in Loops
    BY <1>typed, <2>1 DEF Loops, Fetches
  <2>3. /\ fetched.fetch = None /\ fetched.snapshot = loop.fetch
        /\ limited.fetch = None /\ limited.snapshot = loop.snapshot
        /\ failed.fetch = None /\ failed.snapshot = loop.snapshot
    BY <1>typed DEF Loops
  <2>4. loop.fetch # None
    BY <1>7 DEF FetchEnds
  <2> HIDE DEF fetched, limited, failed
  <2>5. Handed(fetched) /\ Handed(limited) /\ Handed(failed)
    BY <1>fresh, <2>2, <2>3, <2>4, HandlersKeepSnapshots
  <2>6. /\ remote' = remote
        /\ \E l \in {fetched, limited, failed} :
             MaybeStartNext(slot = Free, refreshes.active, l)
    BY <1>7 DEF FetchEnds, fetched, limited, failed
  <2> QED
    BY <1>free, <1>typed, <2>5, <2>6
<1>8. CASE RefreshEnds
  <2>1. refreshes.active - 1 \in 0..MaxRefreshing
    BY <1>typed, <1>8, RuntimeAssumption DEF RefreshEnds
  <2> QED
    BY <1>8, <1>free, <1>loop, <2>1 DEF RefreshEnds
<1>9. CASE CoolDownPasses
  <2>1. loop'.fetch = loop.fetch /\ loop'.snapshot = loop.snapshot
        /\ slot' = slot /\ remote' = remote
    BY <1>9, <1>typed DEF CoolDownPasses, Loops
  <2> QED
    BY <1>fresh, <2>1 DEF FreshInv, FreshLoop, FreshSlot, PushesWait, PushWaits, Snapshot
<1>10. CASE Timeout
  <2> DEFINE taken == IF loop.deferred # None /\ loop.deferred.passed
                      THEN TakeUp(loop) ELSE loop
  <2>1. taken \in Loops /\ taken.fetch = loop.fetch /\ taken.snapshot = loop.snapshot
    BY <1>typed, TakeUpIsTyped
  <2>2. PICK polls \in SUBSET Polls :
          MaybeStartNext(slot = Free, refreshes.active, MergeTick(taken, polls))
    BY <1>10 DEF Timeout
  <2>3. remote' = remote
    BY <1>10 DEF Timeout
  <2> HIDE DEF taken
  <2>4. Handed(MergeTick(taken, polls))
    BY <1>fresh, <2>1, MergeTickIsTyped, HandlersKeepSnapshots
  <2> QED
    BY <1>free, <1>typed, <2>2, <2>3, <2>4
<1>11. ASSUME NEW asking \in SUBSET Clients, Shutdown(asking) PROVE FreshInv'
  <2>1. loop'.fetch = loop.fetch /\ loop'.snapshot = loop.snapshot
        /\ slot' = slot /\ remote' = remote
    BY <1>11, <1>typed DEF Shutdown, Loops
  <2> QED
    BY <1>fresh, <2>1 DEF FreshInv, FreshLoop, FreshSlot, PushesWait, PushWaits, Snapshot
<1> QED
  BY <1>1, <1>2, <1>3, <1>4, <1>5, <1>6, <1>7, <1>8, <1>9, <1>10, <1>11 DEF Next

\* No push changes the sources between the fetch of a snapshot and the end of its
\* reconciliation: pushes wait while a snapshot is held, and a poll is fetched only
\* beside a free slot.
THEOREM SnapshotsStayFresh == Spec => []SnapshotIsFresh
<1>1. FreshInv => SnapshotIsFresh
  BY DEF FreshInv, FreshLoop, FreshSlot, SnapshotIsFresh
<1> QED
  BY <1>1, TypeCorrect, FreshInit, FreshNext, PTL DEF Spec

-----------------------------------------------------------------------------
(* Polls come last *)

\* Without a snapshot the first request may always run.
LEMMA NoRequestWaits ==
    ASSUME NEW l \in Loops, ~Snapshot(l), NextRequests(l) = {}
    PROVE  l.pending = <<>>
<1>1. l.pending \in Seq(Requests)
  BY DEF Loops
<1>2. SUFFICES ASSUME Len(l.pending) >= 1 PROVE FALSE
  BY <1>1, EmptySeq, LenProperties
<1>3. 1 \in NextRequests(l)
  BY <1>1, <1>2 DEF NextRequests
<1> QED
  BY <1>3

LEMMA StartedPollComesLast ==
    ASSUME NEW l \in Loops, NEW n \in Nat, StartJob(l, n), l.fetch = None, loop'.fetch # None
    PROVE  loop'.hydration = 0 /\ loop'.pending = <<>> /\ slot' = Free
<1>1. /\ NextRequests(l) = {} /\ l.hydration = 0
      /\ slot' = Free /\ loop' = StartPoll(l)
  BY DEF StartJob, Loops
<1>2. ~Snapshot(l) /\ loop'.hydration = l.hydration /\ loop'.pending = l.pending
  BY <1>1 DEF StartPoll, Loops
<1> QED
  BY <1>1, <1>2, NoRequestWaits

LEMMA PollComesLast ==
    ASSUME NEW l \in Loops, NEW free \in BOOLEAN, NEW active \in 0..MaxRefreshing,
           refreshes \in Refreshes, MaybeStartNext(free, active, l),
           l.fetch = None, loop'.fetch # None
    PROVE  loop'.hydration = 0 /\ loop'.pending = <<>> /\ slot' = Free
<1>1. Running /\ free
  BY DEF MaybeStartNext
<1>2. PICK n \in 0..refreshes.left : StartJob(l, n)
  BY <1>1 DEF MaybeStartNext
<1> QED
  BY <1>2, StartedPollComesLast DEF Refreshes

LEMMA PollNext ==
    ASSUME TypeOK, [Next]_vars, loop.fetch = None, loop'.fetch # None
    PROVE  loop'.hydration = 0 /\ loop'.pending = <<>> /\ slot' = Free
<1> DEFINE Goal == loop'.hydration = 0 /\ loop'.pending = <<>> /\ slot' = Free
<1>typed. /\ loop \in Loops /\ refreshes \in Refreshes
          /\ refreshes.active \in 0..MaxRefreshing
  BY DEF TypeOK, Refreshes
<1>1. CASE UNCHANGED vars
  BY <1>1 DEF vars
<1>2. ASSUME NEW c \in Clients, NEW kind \in Kinds, Submit(c, kind) PROVE Goal
  <2>1. Enqueue(kind, c) \in Loops /\ Enqueue(kind, c).fetch = loop.fetch
    BY <1>typed, RuntimeAssumption, EnqueueIsTyped DEF RequestKinds, Froms
  <2> QED
    BY <1>2, <1>typed, <2>1, PollComesLast DEF Submit
<1>3. ASSUME NEW kind \in {"hydration", "freshness"}, QueueBackground(kind) PROVE Goal
  <2>1. [loop EXCEPT ![kind] = @ + 1].fetch = loop.fetch
    BY <1>typed DEF Loops
  <2> QED
    BY <1>3, <1>typed, <2>1, HandlersAreTyped, PollComesLast DEF QueueBackground
<1>4. ASSUME NEW e \in Events, WatcherReports(e) PROVE Goal
  <2>1. Enqueue("event", e) \in Loops /\ Enqueue("event", e).fetch = loop.fetch
    BY <1>typed, EnqueueIsTyped DEF RequestKinds, Froms
  <2> QED
    BY <1>4, <1>typed, <2>1, PollComesLast DEF WatcherReports
<1>5. CASE WorkerFinishes
  BY <1>5 DEF WorkerFinishes
<1>6. CASE JobEnds
  <2>1. \A kind \in FollowUps(slot.kind) :
          QueueFollowUp(kind) \in Loops /\ QueueFollowUp(kind).fetch = loop.fetch
    BY <1>typed, FollowUpKinds, FollowUpIsTyped
  <2> QED
    BY <1>6, <1>typed, <2>1, PollComesLast DEF JobEnds
<1>7. CASE FetchEnds
  BY <1>7 DEF FetchEnds
<1>8. CASE RefreshEnds
  <2>1. refreshes.active - 1 \in 0..MaxRefreshing
    BY <1>typed, <1>8, RuntimeAssumption DEF RefreshEnds
  <2> QED
    BY <1>8, <1>typed, <2>1, PollComesLast DEF RefreshEnds
<1>9. CASE CoolDownPasses
  BY <1>9, <1>typed DEF CoolDownPasses, Loops
<1>10. CASE Timeout
  <2> DEFINE taken == IF loop.deferred # None /\ loop.deferred.passed
                      THEN TakeUp(loop) ELSE loop
  <2>1. taken \in Loops /\ taken.fetch = loop.fetch
    BY <1>typed, TakeUpIsTyped
  <2>2. PICK polls \in SUBSET Polls :
          MaybeStartNext(slot = Free, refreshes.active, MergeTick(taken, polls))
    BY <1>10 DEF Timeout
  <2> HIDE DEF taken
  <2> QED
    BY <1>typed, <2>1, <2>2, MergeTickIsTyped, PollComesLast
<1>11. ASSUME NEW asking \in SUBSET Clients, Shutdown(asking) PROVE Goal
  BY <1>11, <1>typed DEF Shutdown, Loops
<1> QED
  BY <1>1, <1>2, <1>3, <1>4, <1>5, <1>6, <1>7, <1>8, <1>9, <1>10, <1>11 DEF Next

\* A poll starts only when no request and no hydration is queued and no job runs:
\* StartJob reaches StartPoll last, and without a snapshot every request may run.
THEOREM PollsStartLast == Spec => PollsComeLast
<1> DEFINE PollIsLast == (loop.fetch = None /\ loop'.fetch # None) =>
                     loop'.hydration = 0 /\ loop'.pending = <<>> /\ slot' = Free
<1>1. TypeOK /\ [Next]_vars => [PollIsLast]_vars
  BY PollNext
<1> QED
  BY <1>1, TypeCorrect, PTL DEF Spec, PollsComeLast

-----------------------------------------------------------------------------
(* A shutdown drains *)

Drained == slot = Free /\ loop.fetch = None /\ refreshes.active = 0
DrainInv == phase = "stopped" => Drained

\* What a step after a shutdown was requested does.
Draining ==
    /\ slot' \in {Free, slot} \/ (slot # Free /\ slot' = [slot EXCEPT !.done = TRUE])
    /\ loop'.fetch \in {None, loop.fetch}
    /\ refreshes'.active <= refreshes.active
    /\ phase' = "stopped" => slot' = Free /\ loop'.fetch = None /\ refreshes'.active = 0

LEMMA NothingStarts ==
    ASSUME ~Running, refreshes \in Refreshes, NEW l, NEW free \in BOOLEAN,
           NEW active \in 0..MaxRefreshing, MaybeStartNext(free, active, l)
    PROVE  loop' = l /\ slot' \in {Free, slot} /\ refreshes'.active = active
  BY DEF MaybeStartNext, Refreshes

LEMMA StopsDrained ==
    ASSUME NEW stopping \in BOOLEAN, NEW waiting, NEW answered,
           FinishShutdownIfDrained(stopping, waiting, answered), phase' = "stopped"
    PROVE  (slot' = Free /\ loop'.fetch = None /\ refreshes'.active = 0) \/ phase = "stopped"
  BY DEF FinishShutdownIfDrained

LEMMA DrainInit == Init => DrainInv
  BY DEF Init, DrainInv

LEMMA DrainNext == TypeOK /\ DrainInv /\ [Next]_vars => DrainInv' /\ (~Running => Draining)
<1> SUFFICES ASSUME TypeOK, DrainInv, [Next]_vars PROVE DrainInv' /\ (~Running => Draining)
  OBVIOUS
<1> DEFINE Goal == DrainInv' /\ (~Running => Draining)
<1>typed. /\ loop \in Loops /\ refreshes \in Refreshes /\ phase \in Phases
          /\ refreshes.active \in 0..MaxRefreshing
  BY DEF TypeOK, Refreshes, Phases
<1>stopped. phase = "stopped" => Drained
  BY DEF DrainInv
<1>same. ASSUME loop'.fetch = loop.fetch, slot' = slot, refreshes' = refreshes, phase' = phase
         PROVE  Goal
  BY <1>same, <1>stopped, <1>typed DEF DrainInv, Drained, Draining, Refreshes
<1>1. CASE UNCHANGED vars
  BY <1>1, <1>same DEF vars
<1>2. ASSUME NEW c \in Clients, NEW kind \in Kinds, Submit(c, kind) PROVE Goal
  BY <1>2, <1>same, <1>stopped DEF Submit, Running, DrainInv
<1>3. ASSUME NEW kind \in {"hydration", "freshness"}, QueueBackground(kind) PROVE Goal
  BY <1>3 DEF QueueBackground, Running, DrainInv
<1>4. ASSUME NEW e \in Events, WatcherReports(e) PROVE Goal
  <2>1. phase' = phase /\ phase # "stopped"
        /\ MaybeStartNext(slot = Free, refreshes.active, Enqueue("event", e))
    BY <1>4 DEF WatcherReports
  <2>2. Enqueue("event", e).fetch = loop.fetch
    BY <1>typed, EnqueueIsTyped DEF RequestKinds, Froms
  <2>3. ~Running => slot' \in {Free, slot} /\ loop'.fetch = loop.fetch
                    /\ refreshes'.active = refreshes.active
    BY <1>typed, <2>1, <2>2, NothingStarts
  <2> QED
    BY <1>typed, <2>1, <2>3 DEF DrainInv, Draining
<1>5. CASE WorkerFinishes
  <2>1. slot # Free /\ slot' = [slot EXCEPT !.done = TRUE]
        /\ loop' = loop /\ refreshes' = refreshes /\ phase' = phase
    BY <1>5 DEF WorkerFinishes
  <2> QED
    BY <1>stopped, <1>typed, <2>1 DEF DrainInv, Drained, Draining
<1>6. CASE JobEnds
  <2>1. phase # "stopped" /\ (phase' = "stopped" =>
            slot' = Free /\ loop'.fetch = None /\ refreshes'.active = 0)
    BY <1>6, <1>stopped, StopsDrained DEF JobEnds, Drained
  <2>2. \A kind \in FollowUps(slot.kind) : QueueFollowUp(kind).fetch = loop.fetch
    BY <1>typed, FollowUpKinds, FollowUpIsTyped
  <2>3. ~Running => slot' \in {Free, slot} /\ loop'.fetch = loop.fetch
                    /\ refreshes'.active = refreshes.active
    <3>1. PICK l : l.fetch = loop.fetch /\ MaybeStartNext(TRUE, refreshes.active, l)
      BY <1>6, <2>2 DEF JobEnds
    <3> QED
      BY <1>typed, <3>1, NothingStarts
  <2> QED
    BY <1>typed, <2>1, <2>3 DEF DrainInv, Drained, Draining
<1>7. CASE FetchEnds
  <2>1. phase # "stopped" /\ (phase' = "stopped" =>
            slot' = Free /\ loop'.fetch = None /\ refreshes'.active = 0)
    BY <1>7, <1>stopped, StopsDrained DEF FetchEnds, Drained
  <2>2. ~Running => slot' \in {Free, slot} /\ loop'.fetch = None
                    /\ refreshes'.active = refreshes.active
    <3>1. PICK l \in {[loop EXCEPT !.fetch = None, !.snapshot = loop.fetch],
                      [loop EXCEPT !.fetch = None,
                         !.deferred = [polls |-> loop.fetch.polls, passed |-> FALSE]],
                      [loop EXCEPT !.fetch = None]} :
            MaybeStartNext(slot = Free, refreshes.active, l)
      BY <1>7 DEF FetchEnds
    <3>2. l.fetch = None
      BY <1>typed DEF Loops
    <3> QED
      BY <1>typed, <3>1, <3>2, NothingStarts
  <2> QED
    BY <1>typed, <2>1, <2>2 DEF DrainInv, Drained, Draining
<1>8. CASE RefreshEnds
  <2>1. phase # "stopped" /\ (phase' = "stopped" =>
            slot' = Free /\ loop'.fetch = None /\ refreshes'.active = 0)
    <3>1. phase # "stopped"
      BY <1>8, <1>stopped DEF RefreshEnds, Drained
    <3> QED
      BY <1>8, <3>1, StopsDrained DEF RefreshEnds
  <2>2. refreshes.active - 1 \in 0..MaxRefreshing
    BY <1>typed, <1>8, RuntimeAssumption DEF RefreshEnds
  <2>3. ~Running => slot' \in {Free, slot} /\ loop'.fetch = loop.fetch
                    /\ refreshes'.active = refreshes.active - 1
    BY <1>8, <1>typed, <2>2, NothingStarts DEF RefreshEnds
  <2> QED
    BY <1>typed, <2>1, <2>3 DEF DrainInv, Drained, Draining
<1>9. CASE CoolDownPasses
  <2>1. loop'.fetch = loop.fetch /\ slot' = slot /\ refreshes' = refreshes /\ phase' = phase
    BY <1>9, <1>typed DEF CoolDownPasses, Loops
  <2> QED
    BY <1>same, <2>1
<1>10. CASE Timeout
  BY <1>10 DEF Timeout, Running, DrainInv
<1>11. ASSUME NEW asking \in SUBSET Clients, Shutdown(asking) PROVE Goal
  <2>1. Running /\ (phase' = "stopped" =>
            slot' = Free /\ loop'.fetch = None /\ refreshes'.active = 0)
    BY <1>11, StopsDrained DEF Shutdown, Running
  <2> QED
    BY <2>1 DEF DrainInv, Drained
<1> QED
  BY <1>1, <1>2, <1>3, <1>4, <1>5, <1>6, <1>7, <1>8, <1>9, <1>10, <1>11 DEF Next

\* After a shutdown was requested nothing starts, and the loop ends only when no job,
\* fetch or refresh runs.
THEOREM ShutdownsDrain == Spec => ShutdownDrains
<1> DEFINE Drains == ~Running =>
             /\ slot' \in {Free, slot} \/ (slot # Free /\ slot' = [slot EXCEPT !.done = TRUE])
             /\ loop'.fetch \in {None, loop.fetch}
             /\ refreshes'.active <= refreshes.active
             /\ phase' = "stopped" => slot' = Free /\ loop'.fetch = None /\ refreshes'.active = 0
<1>1. TypeOK /\ DrainInv /\ [Next]_vars => DrainInv' /\ [Drains]_vars
  BY DrainNext DEF Draining
<1> QED
  BY <1>1, TypeCorrect, DrainInit, PTL DEF Spec, ShutdownDrains

-----------------------------------------------------------------------------
(* Every caller is held in one place *)

\* The places of c in a queue; and the same, of a queue, what runs, what the callers
\* were told and who waits for the end.
In(queue, c) == {i \in 1..Len(queue) : queue[i].from = c}
Once(queue, c) == \A i, j \in In(queue, c) : i = j
Held(queue, from, answers, ends) ==
    \A c \in Clients :
        /\ answers[c] = "waiting" <=> In(queue, c) # {} \/ from = c \/ c \in ends
        /\ Once(queue, c)
        /\ In(queue, c) # {} => from # c /\ c \notin ends
        /\ from = c => c \notin ends
Ends == IF phase = "stopped" THEN {} ELSE closers

LEMMA HeldIsHeld ==
    RequestsAreHeld <=> Held(loop.pending, slot.from, clients, Ends)
  BY DEF RequestsAreHeld, Held, In, Once, Queued, Runs, Closes, Ends

\* Taking a request out of the queue to run it moves its caller.
LEMMA TakeOut ==
    ASSUME NEW queue \in Seq(Requests), NEW i \in 1..Len(queue), NEW c, Once(queue, c)
    PROVE  /\ Once(RemoveAt(queue, i), c)
           /\ In(RemoveAt(queue, i), c) # {} <=> In(queue, c) # {} /\ queue[i].from # c
<1> DEFINE rest == RemoveAt(queue, i)
           Was(j) == IF j < i THEN j ELSE j + 1
           Now(k) == IF k < i THEN k ELSE k - 1
<1>1. Len(rest) = Len(queue) - 1 /\ Len(queue) \in Nat
  BY RemoveAtProperties, LenProperties
<1>2. \A j \in 1..(Len(queue) - 1) : rest[j] = queue[Was(j)]
  BY RemoveAtProperties
<1> HIDE DEF rest
<1>3. \A j \in In(rest, c) : Was(j) \in In(queue, c) /\ Was(j) # i
  BY <1>1, <1>2 DEF In
<1>4. \A k \in In(queue, c) : k # i => Now(k) \in In(rest, c)
  BY <1>1, <1>2 DEF In
<1>5. Once(rest, c)
  <2> SUFFICES ASSUME NEW j \in In(rest, c), NEW k \in In(rest, c) PROVE j = k
    BY DEF Once
  <2>1. Was(j) = Was(k)
    BY <1>3 DEF Once
  <2>2. j \in Int /\ k \in Int
    BY <1>1 DEF In
  <2> QED
    BY <2>1, <2>2
<1>6. i \in In(queue, c) <=> queue[i].from = c
  BY DEF In
<1>7. In(rest, c) # {} => In(queue, c) # {} /\ queue[i].from # c
  BY <1>3, <1>6 DEF Once
<1>8. In(queue, c) # {} /\ queue[i].from # c => In(rest, c) # {}
  BY <1>4, <1>6
<1> QED
  BY <1>5, <1>7, <1>8 DEF rest

LEMMA PutIn ==
    ASSUME NEW queue \in Seq(Requests), NEW e \in Requests, NEW c, Once(queue, c),
           ~(In(queue, c) # {} /\ e.from = c),
           NEW longer \in {<<e>> \o queue, Append(queue, e)}
    PROVE  /\ Once(longer, c)
           /\ In(longer, c) # {} <=> In(queue, c) # {} \/ e.from = c
<1>len. Len(queue) \in Nat
  BY LenProperties
<1>1. CASE longer = <<e>> \o queue
  <2>1. Len(longer) = Len(queue) + 1 /\ longer[1] = e
        /\ \A j \in 2..(Len(queue) + 1) : longer[j] = queue[j - 1]
    BY <1>1, PushFrontProperties
  <2>2. \A j \in In(longer, c) : (j = 1 /\ e.from = c) \/ (j - 1 \in In(queue, c) /\ j \in Int)
    BY <1>len, <2>1 DEF In
  <2>3. \A j \in In(queue, c) : j + 1 \in In(longer, c)
    <3> SUFFICES ASSUME NEW j \in In(queue, c) PROVE j + 1 \in In(longer, c)
      OBVIOUS
    <3>1. j \in 1..Len(queue) /\ queue[j].from = c
      BY DEF In
    <3>2. j + 1 \in 2..(Len(queue) + 1) /\ (j + 1) - 1 = j
      BY <1>len, <3>1
    <3>3. longer[j + 1] = queue[j]
      BY <2>1, <3>2
    <3> QED
      BY <1>len, <2>1, <3>1, <3>2, <3>3 DEF In
  <2>4. e.from = c => 1 \in In(longer, c)
    BY <1>len, <2>1 DEF In
  <2>5. Once(longer, c)
    BY <2>2 DEF Once
  <2> QED
    BY <2>2, <2>3, <2>4, <2>5
<1>2. CASE longer = Append(queue, e)
  <2>1. Len(longer) = Len(queue) + 1 /\ longer[Len(queue) + 1] = e
        /\ \A j \in 1..Len(queue) : longer[j] = queue[j]
    BY <1>2, AppendProperties
  <2>2. \A j \in In(longer, c) :
          (j = Len(queue) + 1 /\ e.from = c) \/ j \in In(queue, c)
    BY <1>len, <2>1 DEF In
  <2>3. \A j \in In(queue, c) : j \in In(longer, c)
    BY <1>len, <2>1 DEF In
  <2>4. e.from = c => Len(queue) + 1 \in In(longer, c)
    BY <1>len, <2>1 DEF In
  <2>5. Once(longer, c)
    BY <2>2 DEF Once
  <2> QED
    BY <2>2, <2>3, <2>4, <2>5
<1> QED
  BY <1>1, <1>2

LEMMA EnqueueHeld ==
    ASSUME loop \in Loops, NEW kind \in RequestKinds, NEW from \in Froms, NEW c,
           Once(loop.pending, c), ~(In(loop.pending, c) # {} /\ from = c)
    PROVE  /\ Once(Enqueue(kind, from).pending, c)
           /\ In(Enqueue(kind, from).pending, c) # {} <=> In(loop.pending, c) # {} \/ from = c
<1>1. Request(kind, from) \in Requests /\ Request(kind, from).from = from
  BY DEF Request, Requests, RequestKinds
<1>2. loop.pending \in Seq(Requests)
  BY DEF Loops
<1>3. Enqueue(kind, from).pending \in
        {<<Request(kind, from)>> \o loop.pending, Append(loop.pending, Request(kind, from))}
  BY DEF Enqueue, Loops
<1> QED
  BY <1>1, <1>2, <1>3, PutIn

\* A request without a client leaves everyone where they are.
LEMMA EnqueueKeepsHeld ==
    ASSUME loop \in Loops, NEW kind \in RequestKinds, NEW from \in Froms \ Clients,
           NEW holder, NEW answers, NEW ends, Held(loop.pending, holder, answers, ends)
    PROVE  Held(Enqueue(kind, from).pending, holder, answers, ends)
<1>1. \A c \in Clients : Once(loop.pending, c) /\ from # c
  BY DEF Held
<1>2. \A c \in Clients :
        /\ Once(Enqueue(kind, from).pending, c)
        /\ In(Enqueue(kind, from).pending, c) # {} <=> In(loop.pending, c) # {}
  BY <1>1, EnqueueHeld
<1> QED
  BY <1>2 DEF Held

LEMMA StartJobKeepsHeld ==
    ASSUME NEW l \in Loops, NEW n, NEW answers, NEW ends, StartJob(l, n),
           Held(l.pending, None, answers, ends)
    PROVE  Held(loop'.pending, slot'.from, answers, ends)
<1>none. \A c \in Clients : c # None
  BY RuntimeAssumption
<1>1. CASE \E i \in NextRequests(l) :
             slot' = l.pending[i] /\ loop' = [l EXCEPT !.pending = RemoveAt(@, i)]
  <2>1. PICK i \in NextRequests(l) :
             slot' = l.pending[i] /\ loop' = [l EXCEPT !.pending = RemoveAt(@, i)]
    BY <1>1
  <2>2. l.pending \in Seq(Requests) /\ loop'.pending = RemoveAt(l.pending, i)
    BY <2>1 DEF Loops
  <2>3. i \in 1..Len(l.pending)
    BY NextRequestsInRange
  <2>4. \A c \in Clients :
          /\ Once(loop'.pending, c)
          /\ In(loop'.pending, c) # {} <=> In(l.pending, c) # {} /\ slot'.from # c
    BY <2>1, <2>2, <2>3, TakeOut DEF Held
  <2>5. \A c \in Clients : slot'.from = c => In(l.pending, c) # {}
    BY <2>1, <2>3 DEF In
  <2> QED
    BY <1>none, <2>4, <2>5 DEF Held
<1>2. CASE \/ slot' = Job("hydration") /\ loop' = [l EXCEPT !.hydration = @ - 1]
           \/ slot' = Job("freshness") /\ loop' = [l EXCEPT !.freshness = @ - 1]
           \/ slot' = Reconcile(l.snapshot) /\ loop' = [l EXCEPT !.snapshot = None]
           \/ slot' = Free /\ loop' = StartPoll(l)
  <2>1. slot'.from = None
    BY <1>2 DEF Job, Request, Reconcile, Free
  <2>2. loop'.pending = l.pending
    BY <1>2 DEF StartPoll, Loops
  <2> QED
    BY <2>1, <2>2
<1> QED
  BY <1>1, <1>2 DEF StartJob

LEMMA NextKeepsHeld ==
    ASSUME NEW l \in Loops, NEW free \in BOOLEAN, NEW active, NEW answers, NEW ends,
           MaybeStartNext(free, active, l),
           Held(l.pending, IF free THEN None ELSE slot.from, answers, ends)
    PROVE  Held(loop'.pending, slot'.from, answers, ends)
<1>1. CASE Running /\ free
  <2>1. PICK n \in 0..refreshes.left : StartJob(l, n)
    BY <1>1 DEF MaybeStartNext
  <2> QED
    BY <1>1, <2>1, StartJobKeepsHeld
<1>2. CASE ~(Running /\ free)
  <2>1. loop' = l /\ slot'.from = IF free THEN None ELSE slot.from
    BY <1>2 DEF MaybeStartNext, Free, Job, Request
  <2> QED
    BY <2>1
<1> QED
  BY <1>1, <1>2

\* Ending the loop answers exactly those who wait for its end.
LEMMA FinishKeepsHeld ==
    ASSUME phase \in Phases, NEW waiting \in SUBSET Clients, NEW answered \in Answers,
           NEW stopping \in BOOLEAN, stopping = (phase = "stopping"), waiting = closers,
           FinishShutdownIfDrained(stopping, waiting, answered),
           Held(loop'.pending, slot'.from, answered, Ends)
    PROVE  Held(loop'.pending, slot'.from, clients', Ends')
<1>1. CASE ~stopping
  <2>1. clients' = answered
    BY <1>1 DEF FinishShutdownIfDrained, Answers
  <2>2. Ends' = Ends
    BY <1>1 DEF FinishShutdownIfDrained, Ends
  <2> QED
    BY <2>1, <2>2
<1>2. CASE stopping /\ phase' = "stopped"
  <2>1. Ends = closers /\ Ends' = {}
    BY <1>2 DEF Ends
  <2>2. clients' = [c \in Clients |-> IF c \in closers THEN "answered" ELSE answered[c]]
    BY <1>2 DEF FinishShutdownIfDrained
  <2> QED
    BY <2>1, <2>2 DEF Held
<1>3. CASE stopping /\ phase' # "stopped"
  <2>1. clients' = answered
    BY <1>3 DEF FinishShutdownIfDrained, Answers
  <2>2. Ends' = Ends
    BY <1>3 DEF FinishShutdownIfDrained, Ends
  <2> QED
    BY <2>1, <2>2
<1> QED
  BY <1>1, <1>2, <1>3

HeldInv ==
    /\ Held(loop.pending, slot.from, clients, Ends)
    /\ Running => closers = {}

LEMMA HeldInit == Init => HeldInv
<1> SUFFICES ASSUME Init PROVE HeldInv
  OBVIOUS
<1>1. loop.pending = <<>> /\ slot.from = None /\ Ends = {}
      /\ \A c \in Clients : clients[c] = "idle"
  BY DEF Init, Free, Job, Request, Ends
<1>2. \A c \in Clients : In(loop.pending, c) = {} /\ slot.from # c
  BY <1>1, RuntimeAssumption DEF In
<1>3. closers = {}
  BY DEF Init
<1> QED
  BY <1>1, <1>2, <1>3 DEF HeldInv, Held, Once

LEMMA HeldNext == TypeOK /\ HeldInv /\ [Next]_vars => HeldInv'
<1> SUFFICES ASSUME TypeOK, HeldInv, [Next]_vars PROVE HeldInv'
  OBVIOUS
<1> DEFINE Quiet == phase' = phase /\ closers' = closers
           HeldNow(queue, answers) ==
             Held(queue, IF slot = Free THEN None ELSE slot.from, answers, Ends)
<1>typed. /\ loop \in Loops /\ slot \in Slots /\ phase \in Phases
          /\ clients \in Answers /\ closers \in SUBSET Clients
  BY DEF TypeOK, Phases, Answers
<1>held. Held(loop.pending, slot.from, clients, Ends) /\ (Running => closers = {})
  BY DEF HeldInv
<1>slot. (IF slot = Free THEN None ELSE slot.from) = slot.from
  BY DEF Free, Job, Request
<1>same. ASSUME loop'.pending = loop.pending, slot'.from = slot.from, clients' = clients, Quiet
         PROVE  HeldInv'
  BY <1>held, <1>same DEF HeldInv, Ends, Running
<1>next. ASSUME NEW l \in Loops, MaybeStartNext(slot = Free, refreshes.active, l), Quiet,
                Held(l.pending, slot.from, clients', Ends)
         PROVE  HeldInv'
  <2>1. Held(loop'.pending, slot'.from, clients', Ends)
    BY <1>next, <1>slot, NextKeepsHeld
  <2>2. Ends' = Ends /\ (Running' => closers' = {})
    BY <1>next, <1>held DEF Ends, Running
  <2> QED
    BY <2>1, <2>2 DEF HeldInv
<1>finish. ASSUME NEW answered \in Answers,
                  FinishShutdownIfDrained(phase = "stopping", closers, answered),
                  Held(loop'.pending, slot'.from, answered, Ends)
           PROVE  HeldInv'
  <2>1. Held(loop'.pending, slot'.from, clients', Ends')
    BY <1>typed, <1>finish, FinishKeepsHeld
  <2>2. Running' => closers' = {}
    BY <1>held, <1>finish DEF FinishShutdownIfDrained, Running
  <2> QED
    BY <2>1, <2>2 DEF HeldInv
<1>1. CASE UNCHANGED vars
  BY <1>1, <1>same DEF vars
<1>2. ASSUME NEW c \in Clients, NEW kind \in Kinds, Submit(c, kind) PROVE HeldInv'
  <2>1. Quiet /\ clients[c] = "idle"
    BY <1>2 DEF Submit
  <2>2. In(loop.pending, c) = {} /\ slot.from # c /\ c \notin Ends
    BY <1>held, <2>1 DEF Held
  <2>3. CASE Running
    <3>1. /\ clients' = [clients EXCEPT ![c] = "waiting"]
          /\ MaybeStartNext(slot = Free, refreshes.active, Enqueue(kind, c))
      BY <1>2, <2>3 DEF Submit
    <3>2. kind \in RequestKinds /\ c \in Froms
      BY RuntimeAssumption DEF RequestKinds, Froms
    <3>3. \A d \in Clients :
            /\ Once(Enqueue(kind, c).pending, d)
            /\ In(Enqueue(kind, c).pending, d) # {} <=> In(loop.pending, d) # {} \/ c = d
      BY <1>typed, <1>held, <2>2, <3>2, EnqueueHeld DEF Held
    <3>4. \A d \in Clients : clients'[d] = "waiting" <=> clients[d] = "waiting" \/ c = d
      BY <1>typed, <3>1 DEF Answers
    <3>5. Held(Enqueue(kind, c).pending, slot.from, clients', Ends)
      BY <1>held, <2>2, <3>3, <3>4 DEF Held
    <3> QED
      BY <1>next, <1>typed, <2>1, <3>1, <3>2, <3>5, EnqueueIsTyped
  <2>4. CASE ~Running
    <3>1. clients' = [clients EXCEPT ![c] = "refused"] /\ loop' = loop /\ slot' = slot
      BY <1>2, <2>4 DEF Submit
    <3>2. \A d \in Clients : clients'[d] = "waiting" <=> clients[d] = "waiting"
      BY <1>typed, <2>1, <3>1 DEF Answers
    <3>3. Ends' = Ends /\ ~Running'
      BY <2>1, <2>4 DEF Ends, Running
    <3> QED
      BY <1>held, <3>1, <3>2, <3>3 DEF HeldInv, Held
  <2> QED
    BY <2>3, <2>4
<1>3. ASSUME NEW kind \in {"hydration", "freshness"}, QueueBackground(kind) PROVE HeldInv'
  <2> DEFINE l == [loop EXCEPT ![kind] = @ + 1]
  <2>1. l \in Loops /\ l.pending = loop.pending
    BY <1>typed, HandlersAreTyped DEF Loops
  <2>2. Quiet /\ clients' = clients /\ MaybeStartNext(slot = Free, refreshes.active, l)
    BY <1>3 DEF QueueBackground
  <2> HIDE DEF l
  <2> QED
    BY <1>held, <1>next, <2>1, <2>2
<1>4. ASSUME NEW e \in Events, WatcherReports(e) PROVE HeldInv'
  <2>1. Quiet /\ clients' = clients
        /\ MaybeStartNext(slot = Free, refreshes.active, Enqueue("event", e))
    BY <1>4 DEF WatcherReports
  <2>2. "event" \in RequestKinds /\ e \in Froms \ Clients
    BY RuntimeAssumption DEF RequestKinds, Froms
  <2> QED
    BY <1>typed, <1>held, <1>next, <2>1, <2>2, EnqueueIsTyped, EnqueueKeepsHeld
<1>5. CASE WorkerFinishes
  <2>1. slot'.from = slot.from
    BY <1>5, <1>typed DEF WorkerFinishes, Slots, Requests
  <2> QED
    BY <1>5, <1>same, <2>1 DEF WorkerFinishes
<1>6. CASE JobEnds
  <2> DEFINE answered == IF slot.from \in Clients THEN Answered(slot.from) ELSE clients
  <2>1. answered \in Answers
    BY <1>typed DEF Answered, Answers
  <2>2. Held(loop.pending, None, answered, Ends)
    <3>1. \A c \in Clients :
            answered[c] = "waiting" <=> clients[c] = "waiting" /\ slot.from # c
      BY <1>typed DEF Answered, Answers
    <3>2. \A c \in Clients : c # None
      BY RuntimeAssumption
    <3> HIDE DEF answered
    <3> QED
      BY <1>held, <3>1, <3>2 DEF Held
  <2>3. FinishShutdownIfDrained(phase = "stopping", closers, answered)
    BY <1>6 DEF JobEnds
  <2> HIDE DEF answered
  <2>4. \A kind \in FollowUps(slot.kind) :
          Held(QueueFollowUp(kind).pending, None, answered, Ends)
    <3> SUFFICES ASSUME NEW kind \in FollowUps(slot.kind)
                 PROVE  Held(QueueFollowUp(kind).pending, None, answered, Ends)
      OBVIOUS
    <3>1. CASE kind = "autopush"
      <4>1. "autopush" \in RequestKinds /\ None \in Froms \ Clients
        BY RuntimeAssumption DEF RequestKinds, Froms
      <4> QED
        BY <1>typed, <2>2, <3>1, <4>1, EnqueueKeepsHeld DEF QueueFollowUp
    <3>2. CASE kind # "autopush"
      <4>1. QueueFollowUp(kind).pending = loop.pending
        BY <1>typed, <3>2, FollowUpKinds DEF QueueFollowUp, Loops
      <4> QED
        BY <2>2, <4>1
    <3> QED
      BY <3>1, <3>2
  <2>5. PICK l \in Loops : /\ MaybeStartNext(TRUE, refreshes.active, l)
                           /\ Held(l.pending, None, answered, Ends)
    BY <1>6, <1>typed, <2>2, <2>4, HandlersAreTyped DEF JobEnds
  <2>6. Held(loop'.pending, slot'.from, answered, Ends)
    BY <2>5, NextKeepsHeld
  <2> QED
    BY <1>finish, <2>1, <2>3, <2>6
<1>7. CASE FetchEnds
  <2>1. loop.fetch \in Fetches
    BY <1>typed, <1>7 DEF FetchEnds, Loops
  <2> DEFINE fetched == [loop EXCEPT !.fetch = None, !.snapshot = loop.fetch]
             limited == [loop EXCEPT !.fetch = None,
                           !.deferred = [polls |-> loop.fetch.polls, passed |-> FALSE]]
             failed == [loop EXCEPT !.fetch = None]
  <2>typed. fetched \in Loops /\ limited \in Loops /\ failed \in Loops
    BY <1>typed, <2>1 DEF Loops, Fetches
  <2>queue. /\ fetched.pending = loop.pending /\ limited.pending = loop.pending
            /\ failed.pending = loop.pending
    BY <1>typed DEF Loops
  <2>2. PICK l \in {fetched, limited, failed} :
          MaybeStartNext(slot = Free, refreshes.active, l)
    BY <1>7 DEF FetchEnds
  <2> HIDE DEF fetched, limited, failed
  <2>3. l \in Loops /\ l.pending = loop.pending
    BY <2>typed, <2>queue
  <2>4. Held(loop'.pending, slot'.from, clients, Ends)
    BY <1>held, <1>slot, <2>2, <2>3, NextKeepsHeld
  <2> QED
    BY <1>7, <1>finish, <1>typed, <2>4 DEF FetchEnds
<1>8. CASE RefreshEnds
  <2>1. Held(loop'.pending, slot'.from, clients, Ends)
    BY <1>8, <1>held, <1>slot, <1>typed, NextKeepsHeld DEF RefreshEnds
  <2> QED
    BY <1>8, <1>finish, <1>typed, <2>1 DEF RefreshEnds
<1>9. CASE CoolDownPasses
  <2>1. loop'.pending = loop.pending
    BY <1>9, <1>typed DEF CoolDownPasses, Loops
  <2> QED
    BY <1>9, <1>same, <2>1 DEF CoolDownPasses
<1>10. CASE Timeout
  <2> DEFINE taken == IF loop.deferred # None /\ loop.deferred.passed
                      THEN TakeUp(loop) ELSE loop
  <2>1. taken \in Loops /\ taken.pending = loop.pending
    BY <1>typed, TakeUpIsTyped
  <2>2. PICK polls \in SUBSET Polls :
          MaybeStartNext(slot = Free, refreshes.active, MergeTick(taken, polls))
    BY <1>10 DEF Timeout
  <2>3. Quiet /\ clients' = clients
    BY <1>10 DEF Timeout
  <2> HIDE DEF taken
  <2>4. MergeTick(taken, polls) \in Loops /\ MergeTick(taken, polls).pending = loop.pending
    BY <2>1, MergeTickIsTyped
  <2> QED
    BY <1>held, <1>next, <2>2, <2>3, <2>4
<1>11. ASSUME NEW asking \in SUBSET Clients, Shutdown(asking) PROVE HeldInv'
  <2> DEFINE answered == [c \in Clients |->
                IF c \in asking THEN "waiting"
                ELSE IF \E i \in 1..Len(loop.pending) : loop.pending[i].from = c THEN "refused"
                ELSE clients[c]]
  <2>1. /\ Running /\ \A c \in asking : clients[c] = "idle"
        /\ loop'.pending = <<>> /\ slot' = slot
    BY <1>11, <1>typed DEF Shutdown, Loops
  <2>2. Ends = {}
    BY <1>held, <2>1 DEF Ends
  <2>3. \A c \in Clients : answered[c] = "waiting" <=> c \in asking \/ slot.from = c
    BY <1>held, <2>1, <2>2 DEF Held, In
  <2>4. \A c \in asking : slot.from # c
    BY <1>held, <2>1 DEF Held
  <2>5. FinishShutdownIfDrained(TRUE, asking, answered)
    BY <1>11 DEF Shutdown
  <2> HIDE DEF answered
  <2>6. phase' # "running" /\ closers' = asking
        /\ Ends' = IF phase' = "stopped" THEN {} ELSE asking
    BY <2>5 DEF FinishShutdownIfDrained, Ends
  <2>7. \A c \in Clients :
          clients'[c] = IF phase' = "stopped" /\ c \in asking THEN "answered" ELSE answered[c]
    BY <2>5 DEF FinishShutdownIfDrained
  <2>8. \A c \in Clients : In(loop'.pending, c) = {}
    BY <2>1 DEF In
  <2>9. \A c \in Clients : clients'[c] = "waiting" <=> c \in Ends' \/ slot.from = c
    BY <2>3, <2>4, <2>6, <2>7
  <2> QED
    BY <2>1, <2>4, <2>6, <2>8, <2>9 DEF HeldInv, Held, Once, Running
<1> QED
  BY <1>1, <1>2, <1>3, <1>4, <1>5, <1>6, <1>7, <1>8, <1>9, <1>10, <1>11 DEF Next

\* A caller that waits has its request in exactly one place: the queue, the slot or
\* the list of those who wait for the end, whichever requests overtake it.
THEOREM CallersAreHeld == Spec => []RequestsAreHeld
<1>1. HeldInv => RequestsAreHeld
  BY HeldIsHeld DEF HeldInv
<1> QED
  BY <1>1, TypeCorrect, HeldInit, HeldNext, PTL DEF Spec
=============================================================================
