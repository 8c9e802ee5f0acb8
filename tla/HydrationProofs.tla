--------------------------- MODULE HydrationProofs ---------------------------
(***************************************************************************)
(* Proofs about HydrationJobs, for any number of pages and bounds: no      *)
(* accepted request is lost or demoted, and its row lives as long as it.   *)
(***************************************************************************)
EXTENDS HydrationJobs, TLAPS

\* What a target's queued, parked and durable request and its debts have to do with
\* each other.
Kept(queue, park, row, debts) ==
    /\ ~(queue # None /\ park # None)
    /\ (queue # None \/ park # None) => row \in {queue, park} \ {None}
    /\ \A reason \in debts :
         \E pending \in {queue, park} \ {None} : Priority(pending) >= Priority(reason)

AllKept == \A t \in Targets : Kept(queued[t], parked[t], rows[t], owed[t])

\* A hydration that runs has its row, and the reason it runs for is no weaker than
\* those it serves.
RunsWithRow ==
    slot.job = "hydration" =>
        /\ rows[slot.target] # None
        /\ \A reason \in slot.serves : Priority(slot.reason) >= Priority(reason)

RowsHaveOwners ==
    \A t \in Targets :
        rows[t] # None => Pending(t) \/ Hydrating(t) \/ rows[t] \in FastForward

Inv == TypeOK /\ due \subseteq {t \in Targets : parked[t] # None}
       /\ AllKept /\ RunsWithRow /\ RowsHaveOwners

-----------------------------------------------------------------------------
(* Priorities *)

LEMMA PriorityRange ==
    ASSUME NEW r \in AllReasons
    PROVE  /\ Priority(r) \in 1..3
           /\ Priority(r) <= 1 => r = "Prefetch"
  BY DEF AllReasons, Foreground, FastForward, Priority

LEMMA MergeKeepsStronger ==
    ASSUME NEW a \in AllReasons \cup {None}, NEW b \in AllReasons
    PROVE  /\ Merge(a, b) \in {a, b} \ {None}
           /\ Merge(a, b) \in AllReasons
           /\ Priority(Merge(a, b)) >= Priority(b)
           /\ a # None => Priority(Merge(a, b)) >= Priority(a)
<1> None \notin AllReasons
  BY HydrationAssumption
<1>1. Priority(b) \in 1..3
  BY PriorityRange
<1>2. CASE a = None
  BY <1>1, <1>2 DEF Merge
<1>3. CASE a # None
  <2> a \in AllReasons
    BY <1>3
  <2> Priority(a) \in 1..3
    BY PriorityRange
  <2> QED
    BY <1>1, <1>3 DEF Merge
<1> QED
  BY <1>2, <1>3

-----------------------------------------------------------------------------
(* Starting the next job *)

\* What a handler has to establish before it starts the next job.
LEMMA StartKeeps ==
    ASSUME TypeOK,
           NEW free \in BOOLEAN,
           NEW waiting \in SUBSET ClientJobs,
           NEW queue \in Requests,
           NEW promised \in [Targets -> SUBSET AllReasons],
           MaybeStartNext(free, waiting, queue, promised),
           parked' \in Requests, rows' \in Requests,
           \A t \in Targets : Kept(queue[t], parked'[t], rows'[t], promised[t]),
           \A t \in Targets :
               rows'[t] # None =>
                   \/ queue[t] # None \/ parked'[t] # None
                   \/ ~free /\ Hydrating(t)
                   \/ rows'[t] \in FastForward,
           ~free /\ slot.job = "hydration" =>
               /\ rows'[slot.target] # None
               /\ \A reason \in slot.serves : Priority(slot.reason) >= Priority(reason)
    PROVE  /\ queued' \in Requests
           /\ asked' \in SUBSET ClientJobs
           /\ slot' \in {Free} \cup ClientJobs \cup Hydrations
           /\ owed' \in [Targets -> SUBSET AllReasons]
           /\ AllKept' /\ RunsWithRow' /\ RowsHaveOwners'
<1> None \notin AllReasons
  BY HydrationAssumption
<1>1. CASE ~free
  BY <1>1 DEF MaybeStartNext, TypeOK, AllKept, RunsWithRow, RowsHaveOwners, Pending, Hydrating
<1>2. CASE free /\ waiting # {}
  <2> PICK job \in waiting : /\ slot' = job /\ asked' = waiting \ {job}
                             /\ queued' = queue /\ owed' = promised
    BY <1>2 DEF MaybeStartNext, StartNext, NoRequest
  <2>1. slot'.job # "hydration"
    BY DEF ClientJobs, Pull, Materialize
  <2> QED
    BY <1>2, <2>1 DEF AllKept, RunsWithRow, RowsHaveOwners, Pending, Hydrating
<1>3. CASE free /\ waiting = {} /\ queued' = queue /\ owed' = promised /\ slot' = Free /\ asked' = waiting
  BY <1>3 DEF AllKept, RunsWithRow, RowsHaveOwners, Pending, Hydrating, Free
<1>4. CASE free /\ waiting = {} /\ ~(queued' = queue /\ owed' = promised /\ slot' = Free /\ asked' = waiting)
  <2> PICK t \in Targets :
         /\ queue[t] # None
         /\ slot' = Hydration(t, queue[t], promised[t])
         /\ queued' = [queue EXCEPT ![t] = None]
         /\ owed' = [promised EXCEPT ![t] = {}]
         /\ asked' = waiting
    BY <1>4 DEF MaybeStartNext, StartNext
  <2>1. queue[t] \in AllReasons /\ promised[t] \in SUBSET AllReasons
    BY DEF Requests
  <2>2. slot' \in Hydrations
    BY <2>1 DEF Hydration, Hydrations
  <2>3. queued' \in Requests /\ owed' \in [Targets -> SUBSET AllReasons]
    BY DEF Requests
  <2>4. Kept(queue[t], parked'[t], rows'[t], promised[t])
    OBVIOUS
  <2>5. rows'[t] # None /\ parked'[t] = None
    BY <2>4 DEF Kept
  <2>6. RunsWithRow'
    BY <2>4, <2>5 DEF RunsWithRow, Hydration, Kept
  <2>7. ASSUME NEW u \in Targets PROVE Kept(queued[u], parked[u], rows[u], owed[u])'
    <3>1. CASE u = t
      BY <3>1, <2>5 DEF Kept, Requests
    <3>2. CASE u # t
      BY <3>2 DEF Requests
    <3> QED
      BY <3>1, <3>2
  <2>8. ASSUME NEW u \in Targets, rows'[u] # None
        PROVE  (Pending(u) \/ Hydrating(u) \/ rows[u] \in FastForward)'
    <3>1. CASE u = t
      BY <3>1 DEF Hydrating, Hydration
    <3>2. CASE u # t
      BY <3>2, <1>4, <2>8 DEF Pending, Requests
    <3> QED
      BY <3>1, <3>2
  <2> QED
    BY <1>4, <2>2, <2>3, <2>6, <2>7, <2>8 DEF AllKept, RowsHaveOwners
<1> QED
  BY <1>1, <1>2, <1>3, <1>4

-----------------------------------------------------------------------------
(* Every step *)

LEMMA SpendKeepsBounds ==
    ASSUME TypeOK,
           \/ spent.requests < MaxRequests /\ Spend("requests")
           \/ spent.asks < MaxAsks /\ Spend("asks")
           \/ spent.failures < MaxFailures /\ Spend("failures")
           \/ spent.crashes < MaxCrashes /\ Spend("crashes")
    PROVE  spent' \in [requests : 0..MaxRequests, asks : 0..MaxAsks,
                       failures : 0..MaxFailures, crashes : 0..MaxCrashes]
  BY HydrationAssumption DEF TypeOK, Spend

LEMMA InitInv == Init => Inv
<1> SUFFICES ASSUME Init PROVE Inv
  OBVIOUS
<1>1. TypeOK
  BY HydrationAssumption DEF Init, TypeOK, NoRequest, Requests
<1>2. AllKept
  BY DEF Init, AllKept, Kept, NoRequest
<1> QED
  BY <1>1, <1>2 DEF Init, Inv, RunsWithRow, RowsHaveOwners, NoRequest, Free

LEMMA AskInv ==
    ASSUME Inv, NEW job \in ClientJobs, Ask(job)
    PROVE  Inv'
<1>1. /\ TypeOK /\ AllKept /\ RunsWithRow /\ RowsHaveOwners
      /\ asked \cup {job} \in SUBSET ClientJobs
      /\ queued \in Requests /\ owed \in [Targets -> SUBSET AllReasons]
      /\ parked' = parked /\ rows' = rows /\ parked \in Requests /\ rows \in Requests
      /\ due' = due /\ stubs' = stubs
      /\ MaybeStartNext(slot = Free, asked \cup {job}, queued, owed)
  BY DEF Inv, TypeOK, Ask
<1>2. /\ queued' \in Requests /\ asked' \in SUBSET ClientJobs
      /\ slot' \in {Free} \cup ClientJobs \cup Hydrations
      /\ owed' \in [Targets -> SUBSET AllReasons]
      /\ AllKept' /\ RunsWithRow' /\ RowsHaveOwners'
  <2>1. \A t \in Targets : Kept(queued[t], parked'[t], rows'[t], owed[t])
    BY <1>1 DEF AllKept
  <2>2. \A t \in Targets :
          rows'[t] # None => \/ queued[t] # None \/ parked'[t] # None
                             \/ ~(slot = Free) /\ Hydrating(t)
                             \/ rows'[t] \in FastForward
    BY <1>1 DEF RowsHaveOwners, Pending, Hydrating, Free
  <2>3. ~(slot = Free) /\ slot.job = "hydration" =>
          /\ rows'[slot.target] # None
          /\ \A reason \in slot.serves : Priority(slot.reason) >= Priority(reason)
    BY <1>1 DEF RunsWithRow
  <2> QED
    BY <1>1, <2>1, <2>2, <2>3, StartKeeps
<1>3. spent' \in [requests : 0..MaxRequests, asks : 0..MaxAsks,
                  failures : 0..MaxFailures, crashes : 0..MaxCrashes]
  BY <1>1, SpendKeepsBounds DEF Ask
<1> QED
  BY <1>1, <1>2, <1>3 DEF Inv, TypeOK

LEMMA WorkerFinishesInv ==
    ASSUME Inv, WorkerFinishes
    PROVE  Inv'
<1>1. slot \in Hydrations
  BY DEF Inv, TypeOK, WorkerFinishes, Free, ClientJobs, Pull, Materialize
<1>2. /\ slot' \in Hydrations /\ slot'.job = slot.job
      /\ slot'.target = slot.target /\ slot'.reason = slot.reason /\ slot'.serves = slot.serves
  BY <1>1 DEF WorkerFinishes, Hydrations
<1>3. spent' \in [requests : 0..MaxRequests, asks : 0..MaxAsks,
                  failures : 0..MaxFailures, crashes : 0..MaxCrashes]
  BY SpendKeepsBounds DEF WorkerFinishes, Inv, TypeOK
<1>4. TypeOK'
  BY <1>2, <1>3 DEF WorkerFinishes, Inv, TypeOK
<1>5. AllKept' /\ RunsWithRow' /\ RowsHaveOwners'
  BY <1>2 DEF WorkerFinishes, Inv, AllKept, RunsWithRow, RowsHaveOwners, Pending, Hydrating
<1> QED
  BY <1>4, <1>5 DEF WorkerFinishes, Inv

LEMMA AcceptInv ==
    ASSUME Inv, NEW t \in Targets, NEW reason \in Reasons, Accept(t, reason)
    PROVE  Inv'
<1> None \notin AllReasons /\ reason \in AllReasons
  BY HydrationAssumption
<1> DEFINE merged == IF parked[t] # None THEN Merge(parked[t], reason)
                     ELSE Merge(queued[t], reason)
           waits == parked[t] # None /\ reason \notin Foreground
           queue == IF waits THEN queued ELSE [queued EXCEPT ![t] = Merge(@, merged)]
           promised == [owed EXCEPT ![t] = @ \cup {reason}]
<1>1. /\ TypeOK /\ AllKept /\ RunsWithRow /\ RowsHaveOwners
      /\ asked \in SUBSET ClientJobs /\ stubs' = stubs
      /\ queued \in Requests /\ parked \in Requests /\ rows \in Requests
      /\ owed \in [Targets -> SUBSET AllReasons]
      /\ due \in SUBSET Targets
      /\ queued[t] \in AllReasons \cup {None} /\ parked[t] \in AllReasons \cup {None}
      /\ Kept(queued[t], parked[t], rows[t], owed[t])
  <2>1. TypeOK /\ AllKept /\ RunsWithRow /\ RowsHaveOwners
    BY DEF Inv
  <2> QED
    BY <2>1 DEF TypeOK, Requests, AllKept, Accept
<1>2. /\ rows' = [rows EXCEPT ![t] = merged]
      /\ parked' = [parked EXCEPT ![t] = IF waits THEN merged ELSE None]
      /\ due' = IF waits THEN due ELSE due \ {t}
      /\ MaybeStartNext(slot = Free, asked, queue, promised)
  BY DEF Accept
<1>3. /\ merged \in AllReasons
      /\ Priority(merged) >= Priority(reason)
      /\ queued[t] # None \/ parked[t] # None =>
            merged # None /\ \A x \in {queued[t], parked[t]} \ {None} : Priority(merged) >= Priority(x)
  BY <1>1, MergeKeepsStronger DEF Kept
<1>4. Merge(queued[t], merged) = merged
  <2>1. CASE queued[t] = None
    BY <2>1, <1>3 DEF Merge
  <2>2. CASE queued[t] # None
    <3>1. merged = Merge(queued[t], reason)
      BY <2>2, <1>1 DEF Kept
    <3> QED
      BY <3>1, <2>2 DEF Merge
  <2> QED
    BY <2>1, <2>2
<1>5. queue \in Requests /\ promised \in [Targets -> SUBSET AllReasons]
      /\ parked' \in Requests /\ rows' \in Requests
  BY <1>1, <1>2, <1>3, <1>4 DEF Requests
<1>6. ASSUME NEW u \in Targets
      PROVE  Kept(queue[u], parked'[u], rows'[u], promised[u])
  <2>1. CASE u # t
    BY <2>1, <1>1, <1>2, <1>5 DEF AllKept, Requests
  <2>2. CASE u = t
    <3>1. rows'[t] = merged /\ promised[t] = owed[t] \cup {reason}
      BY <1>1, <1>2 DEF Requests
    <3>2. /\ {queue[t], parked'[t]} \ {None} = {merged}
          /\ queue[t] = None \/ parked'[t] = None
      BY <1>1, <1>2, <1>3, <1>4 DEF Requests, Kept
    <3>3. ASSUME NEW r \in owed[t] PROVE Priority(merged) >= Priority(r)
      <4> PICK x \in {queued[t], parked[t]} \ {None} : Priority(x) >= Priority(r)
        BY <1>1 DEF Kept
      <4>1. /\ x \in AllReasons /\ r \in AllReasons
            /\ Priority(merged) >= Priority(x)
        BY <1>1, <1>3
      <4> QED
        BY <4>1, <1>3, PriorityRange
    <3> QED
      BY <2>2, <3>1, <3>2, <3>3, <1>3 DEF Kept
  <2> QED
    BY <2>1, <2>2
<1>7. ASSUME NEW u \in Targets, rows'[u] # None
      PROVE  \/ queue[u] # None \/ parked'[u] # None
             \/ (~(slot = Free) /\ Hydrating(u)) \/ rows'[u] \in FastForward
  <2>1. CASE u # t
    BY <2>1, <1>1, <1>2, <1>7 DEF RowsHaveOwners, Pending, Hydrating, Free, Requests
  <2>2. CASE u = t
    BY <2>2, <1>1, <1>2, <1>3, <1>4 DEF Requests
  <2> QED
    BY <2>1, <2>2
<1>8. slot.job = "hydration" =>
        /\ rows'[slot.target] # None
        /\ \A r \in slot.serves : Priority(slot.reason) >= Priority(r)
  BY <1>1, <1>2, <1>3 DEF RunsWithRow, Requests
<1>9. /\ queued' \in Requests /\ asked' \in SUBSET ClientJobs
      /\ slot' \in {Free} \cup ClientJobs \cup Hydrations
      /\ owed' \in [Targets -> SUBSET AllReasons]
      /\ AllKept' /\ RunsWithRow' /\ RowsHaveOwners'
  <2> HIDE DEF queue, promised
  <2> QED
    BY <1>1, <1>2, <1>5, <1>6, <1>7, <1>8, StartKeeps
<1>10. spent' \in [requests : 0..MaxRequests, asks : 0..MaxAsks,
                   failures : 0..MaxFailures, crashes : 0..MaxCrashes]
  BY <1>1, SpendKeepsBounds DEF Accept
<1>11. due' \in SUBSET Targets /\ due' \subseteq {u \in Targets : parked'[u] # None}
  BY <1>1, <1>2, <1>3 DEF Inv, Requests
<1> QED
  BY <1>1, <1>5, <1>9, <1>10, <1>11 DEF Inv, TypeOK

LEMMA WithoutTyped ==
    ASSUME NEW requests \in Requests, NEW S \in SUBSET Targets, NEW reasons \in SUBSET AllReasons
    PROVE  /\ Without(requests, S, reasons) \in Requests
           /\ \A t \in Targets :
                Without(requests, S, reasons)[t] =
                    IF t \in S /\ requests[t] \in reasons THEN None ELSE requests[t]
  BY DEF Without, Requests

\* Debts that a prefetch alone stands for are debts of a prefetch.
LEMMA PrefetchOwesPrefetch ==
    ASSUME NEW debts \in SUBSET AllReasons,
           NEW queue, NEW park, NEW row,
           Kept(queue, park, row, debts),
           {queue, park} \ {None} \subseteq {"Prefetch"}
    PROVE  debts \subseteq {"Prefetch"}
<1> SUFFICES ASSUME NEW reason \in debts PROVE reason = "Prefetch"
  OBVIOUS
<1>1. Priority("Prefetch") >= Priority(reason)
  BY DEF Kept
<1>2. Priority("Prefetch") = 1
  BY DEF Priority
<1> QED
  BY <1>1, <1>2, PriorityRange

LEMMA HydrationSucceedsInv ==
    ASSUME Inv, HydrationSucceeds
    PROVE  Inv'
<1> None \notin AllReasons
  BY HydrationAssumption
<1> DEFINE t == slot.target
           served == IF slot.reason = "Prefetch" THEN {} ELSE {"Prefetch"}
           queue == Without(queued, {t}, served)
           promised == IF queue[t] # None \/ parked'[t] # None THEN owed
                       ELSE [owed EXCEPT ![t] = @ \ served]
<1>1. TypeOK /\ AllKept /\ RunsWithRow /\ RowsHaveOwners
  BY DEF Inv
<1>2. t \in Targets
  BY <1>1 DEF TypeOK, HydrationSucceeds, Free, ClientJobs, Pull, Materialize, Hydrations
<1>3. /\ asked \in SUBSET ClientJobs /\ stubs' = stubs /\ spent' = spent
      /\ queued \in Requests /\ parked \in Requests /\ rows \in Requests
      /\ owed \in [Targets -> SUBSET AllReasons] /\ due \in SUBSET Targets
      /\ served \in SUBSET AllReasons
  BY <1>1 DEF TypeOK, HydrationSucceeds, AllReasons
<1>4. /\ parked' = Without(parked, {t}, served)
      /\ due' = {u \in due : parked'[u] # None}
      /\ rows' = IF queue[t] # None \/ parked'[t] # None THEN rows
                 ELSE [rows EXCEPT ![t] = None]
      /\ MaybeStartNext(TRUE, asked, queue, promised)
  BY DEF HydrationSucceeds
<1>5. /\ queue \in Requests /\ parked' \in Requests /\ rows' \in Requests
      /\ promised \in [Targets -> SUBSET AllReasons]
      /\ \A u \in Targets :
           /\ queue[u] = IF u = t /\ queued[u] \in served THEN None ELSE queued[u]
           /\ parked'[u] = IF u = t /\ parked[u] \in served THEN None ELSE parked[u]
           /\ rows'[u] = IF u = t /\ queue[t] = None /\ parked'[t] = None THEN None ELSE rows[u]
           /\ promised[u] = IF u = t /\ queue[t] = None /\ parked'[t] = None
                            THEN owed[u] \ served ELSE owed[u]
  <2>1. /\ queue \in Requests /\ parked' \in Requests
        /\ \A u \in Targets :
             /\ queue[u] = IF u = t /\ queued[u] \in served THEN None ELSE queued[u]
             /\ parked'[u] = IF u = t /\ parked[u] \in served THEN None ELSE parked[u]
    BY <1>2, <1>3, <1>4, WithoutTyped
  <2> HIDE DEF queue
  <2> QED
    BY <1>2, <1>3, <1>4, <2>1 DEF Requests
<1> HIDE DEF queue, promised
<1>6. ASSUME NEW u \in Targets
      PROVE  Kept(queue[u], parked'[u], rows'[u], promised[u])
  <2> Kept(queued[u], parked[u], rows[u], owed[u])
    BY <1>1 DEF AllKept
  <2>1. CASE u # t
    BY <2>1, <1>5
  <2>2. CASE u = t /\ (queue[t] # None \/ parked'[t] # None)
    BY <2>2, <1>5 DEF Kept
  <2>3. CASE u = t /\ queue[t] = None /\ parked'[t] = None
    <3>1. owed[u] \subseteq {"Prefetch"} /\ (owed[u] # {} => served = {"Prefetch"})
      <4>1. {queued[u], parked[u]} \ {None} \subseteq served
        BY <2>3, <1>5
      <4>2. owed[u] \in SUBSET AllReasons /\ served \subseteq {"Prefetch"}
        BY <1>3
      <4>3. owed[u] \subseteq {"Prefetch"}
        BY <4>1, <4>2, PrefetchOwesPrefetch
      <4>4. owed[u] # {} => served # {}
        BY <4>1 DEF Kept
      <4> QED
        BY <4>3, <4>4
    <3> QED
      BY <2>3, <1>5, <3>1 DEF Kept
  <2> QED
    BY <2>1, <2>2, <2>3
<1>7. ASSUME NEW u \in Targets, rows'[u] # None
      PROVE  queue[u] # None \/ parked'[u] # None \/ rows'[u] \in FastForward
  BY <1>1, <1>5, <1>7 DEF RowsHaveOwners, Pending, Hydrating
<1>8. /\ queued' \in Requests /\ asked' \in SUBSET ClientJobs
      /\ slot' \in {Free} \cup ClientJobs \cup Hydrations
      /\ owed' \in [Targets -> SUBSET AllReasons]
      /\ AllKept' /\ RunsWithRow' /\ RowsHaveOwners'
  <2>1. MaybeStartNext(TRUE, asked, queue, promised)
    BY <1>4
  <2> HIDE DEF t, served
  <2> QED
    BY <2>1, <1>1, <1>3, <1>5, <1>6, <1>7, StartKeeps
<1> QED
  BY <1>1, <1>3, <1>4, <1>5, <1>8 DEF Inv, TypeOK

LEMMA HydrationFailsInv ==
    ASSUME Inv, HydrationFails
    PROVE  Inv'
<1> None \notin AllReasons
  BY HydrationAssumption
<1> DEFINE t == slot.target
           failed == IF queued[t] = None THEN slot.reason ELSE Merge(slot.reason, queued[t])
           merged == Merge(parked[t], failed)
           queue == [queued EXCEPT ![t] = None]
           promised == [owed EXCEPT ![t] = @ \cup slot.serves]
<1>1. TypeOK /\ AllKept /\ RunsWithRow /\ RowsHaveOwners
  BY DEF Inv
<1>2. slot \in Hydrations
  BY <1>1 DEF TypeOK, HydrationFails, Free, ClientJobs, Pull, Materialize
<1>3. /\ t \in Targets /\ slot.reason \in AllReasons /\ slot.serves \in SUBSET AllReasons
      /\ \A r \in slot.serves : Priority(slot.reason) >= Priority(r)
  BY <1>1, <1>2 DEF Hydrations, RunsWithRow
<1>4. /\ asked \in SUBSET ClientJobs /\ stubs' = stubs /\ spent' = spent
      /\ queued \in Requests /\ parked \in Requests /\ rows \in Requests
      /\ owed \in [Targets -> SUBSET AllReasons] /\ due \in SUBSET Targets
  BY <1>1 DEF TypeOK, HydrationFails
<1>5. /\ queued[t] \in AllReasons \cup {None} /\ parked[t] \in AllReasons \cup {None}
      /\ Kept(queued[t], parked[t], rows[t], owed[t])
  BY <1>1, <1>3, <1>4 DEF Requests, AllKept
<1>6. /\ failed \in AllReasons
      /\ Priority(failed) >= Priority(slot.reason)
      /\ queued[t] # None => Priority(failed) >= Priority(queued[t])
  BY <1>3, <1>5, MergeKeepsStronger, PriorityRange
<1>7. /\ merged \in AllReasons
      /\ Priority(merged) >= Priority(slot.reason)
      /\ \A x \in {queued[t], parked[t]} \ {None} : Priority(merged) >= Priority(x)
  <2> HIDE DEF failed
  <2>1. /\ merged \in AllReasons /\ Priority(merged) >= Priority(failed)
        /\ parked[t] # None => Priority(merged) >= Priority(parked[t])
    BY <1>5, <1>6, MergeKeepsStronger
  <2> QED
    BY <2>1, <1>3, <1>5, <1>6, PriorityRange
<1> HIDE DEF failed, merged
<1>8. /\ parked' = [parked EXCEPT ![t] = merged]
      /\ due' = due \ {t}
      /\ rows' = [rows EXCEPT ![t] = merged]
      /\ MaybeStartNext(TRUE, asked, queue, promised)
  BY DEF HydrationFails, failed, merged
<1>9. /\ queue \in Requests /\ parked' \in Requests /\ rows' \in Requests
      /\ promised \in [Targets -> SUBSET AllReasons]
  BY <1>3, <1>4, <1>7, <1>8 DEF Requests
<1>10. ASSUME NEW u \in Targets
       PROVE  Kept(queue[u], parked'[u], rows'[u], promised[u])
  <2>1. CASE u # t
    BY <2>1, <1>1, <1>4, <1>8 DEF Requests, AllKept
  <2>2. CASE u = t
    <3>1. /\ queue[t] = None /\ parked'[t] = merged /\ rows'[t] = merged
          /\ promised[t] = owed[t] \cup slot.serves
      BY <1>3, <1>4, <1>8 DEF Requests
    <3>2. ASSUME NEW r \in owed[t] PROVE Priority(merged) >= Priority(r)
      <4> PICK x \in {queued[t], parked[t]} \ {None} : Priority(x) >= Priority(r)
        BY <1>5 DEF Kept
      <4>1. x \in AllReasons /\ r \in AllReasons /\ Priority(merged) >= Priority(x)
        BY <1>3, <1>4, <1>5, <1>7
      <4> QED
        BY <4>1, <1>7, PriorityRange
    <3>3. ASSUME NEW r \in slot.serves PROVE Priority(merged) >= Priority(r)
      BY <1>3, <1>7, PriorityRange
    <3> QED
      BY <2>2, <3>1, <3>2, <3>3, <1>7 DEF Kept
  <2> QED
    BY <2>1, <2>2
<1>11. ASSUME NEW u \in Targets, rows'[u] # None
       PROVE  queue[u] # None \/ parked'[u] # None \/ rows'[u] \in FastForward
  <2>1. CASE u # t
    BY <2>1, <1>1, <1>4, <1>8, <1>11 DEF RowsHaveOwners, Pending, Hydrating, Requests
  <2>2. CASE u = t
    BY <2>2, <1>3, <1>4, <1>7, <1>8 DEF Requests
  <2> QED
    BY <2>1, <2>2
<1>12. /\ queued' \in Requests /\ asked' \in SUBSET ClientJobs
       /\ slot' \in {Free} \cup ClientJobs \cup Hydrations
       /\ owed' \in [Targets -> SUBSET AllReasons]
       /\ AllKept' /\ RunsWithRow' /\ RowsHaveOwners'
  <2> HIDE DEF queue, promised
  <2> QED
    BY <1>1, <1>4, <1>8, <1>9, <1>10, <1>11, StartKeeps
<1>13. due' \in SUBSET Targets /\ due' \subseteq {u \in Targets : parked'[u] # None}
  BY <1>4, <1>8 DEF Inv, Requests
<1> QED
  BY <1>1, <1>4, <1>9, <1>12, <1>13 DEF Inv, TypeOK

\* Cancelling prefetches touches nothing else.
LEMMA CancelPrefetchesInv ==
    ASSUME Inv, slot.job # "hydration",
           NEW S \in SUBSET Targets, NEW kept \in SUBSET Targets,
           CancelPrefetches(S, kept)
    PROVE  Inv'
<1> None \notin AllReasons
  BY HydrationAssumption
<1> DEFINE queue == Without(queued, S, {"Prefetch"})
           gone == {t \in S : queue[t] = None /\ parked'[t] = None}
           promised == [t \in Targets |-> IF t \in gone THEN owed[t] \ {"Prefetch"} ELSE owed[t]]
<1>1. TypeOK /\ AllKept /\ RunsWithRow /\ RowsHaveOwners
  BY DEF Inv
<1>2. /\ asked \in SUBSET ClientJobs
      /\ queued \in Requests /\ parked \in Requests /\ rows \in Requests
      /\ owed \in [Targets -> SUBSET AllReasons] /\ due \in SUBSET Targets
  BY <1>1 DEF TypeOK
<1>3. /\ parked' = Without(parked, S, {"Prefetch"})
      /\ due' = {u \in due : parked'[u] # None}
      /\ rows' = [t \in Targets |-> IF t \in gone /\ rows[t] = "Prefetch" THEN None ELSE rows[t]]
      /\ stubs' = kept /\ spent' = spent
      /\ MaybeStartNext(TRUE, asked, queue, promised)
  BY DEF CancelPrefetches
<1>4. /\ queue \in Requests /\ parked' \in Requests
      /\ \A t \in Targets :
           /\ queue[t] = IF t \in S /\ queued[t] = "Prefetch" THEN None ELSE queued[t]
           /\ parked'[t] = IF t \in S /\ parked[t] = "Prefetch" THEN None ELSE parked[t]
  BY <1>2, <1>3, WithoutTyped DEF AllReasons
<1>5. rows' \in Requests /\ promised \in [Targets -> SUBSET AllReasons]
  BY <1>2, <1>3 DEF Requests
<1>6. ASSUME NEW t \in Targets
      PROVE  /\ Kept(queue[t], parked'[t], rows'[t], promised[t])
             /\ rows'[t] # None =>
                  queue[t] # None \/ parked'[t] # None \/ rows'[t] \in FastForward
  <2>1. /\ Kept(queued[t], parked[t], rows[t], owed[t])
        /\ rows[t] # None => queued[t] # None \/ parked[t] # None \/ rows[t] \in FastForward
    BY <1>1 DEF AllKept, RowsHaveOwners, Pending, Hydrating
  <2>2. CASE t \in gone
    <3>1. {queued[t], parked[t]} \ {None} \subseteq {"Prefetch"}
      BY <2>2, <1>4
    <3>2. owed[t] \subseteq {"Prefetch"}
      BY <2>1, <3>1, <1>2, PrefetchOwesPrefetch
    <3>3. promised[t] = {}
      BY <2>2, <3>2
    <3>4. rows'[t] # None => rows'[t] \in FastForward
      BY <2>1, <2>2, <3>1, <1>3 DEF Kept
    <3>5. queue[t] = None /\ parked'[t] = None
      BY <2>2
    <3> HIDE DEF queue, promised, gone
    <3> QED
      BY <3>3, <3>4, <3>5 DEF Kept
  <2>3. CASE t \notin gone
    <3>1. promised[t] = owed[t] /\ rows'[t] = rows[t]
      BY <2>3, <1>3
    <3>2. queue[t] = queued[t] /\ parked'[t] = parked[t]
      BY <2>1, <2>3, <1>4 DEF Kept
    <3> HIDE DEF queue, promised, gone
    <3> QED
      BY <2>1, <3>1, <3>2
  <2> QED
    BY <2>2, <2>3
<1>7. /\ queued' \in Requests /\ asked' \in SUBSET ClientJobs
      /\ slot' \in {Free} \cup ClientJobs \cup Hydrations
      /\ owed' \in [Targets -> SUBSET AllReasons]
      /\ AllKept' /\ RunsWithRow' /\ RowsHaveOwners'
  <2>1. MaybeStartNext(TRUE, asked, queue, promised)
    BY <1>3
  <2> HIDE DEF queue, promised, gone
  <2> QED
    BY <2>1, <1>1, <1>2, <1>4, <1>5, <1>6, StartKeeps
<1> QED
  BY <1>1, <1>2, <1>3, <1>4, <1>5, <1>7 DEF Inv, TypeOK

\* A handler that only starts the next job.
LEMMA OnlyStartsInv ==
    ASSUME Inv, slot.job # "hydration",
           MaybeStartNext(TRUE, asked, queued, owed),
           parked' = parked, due' = due, rows' = rows, spent' = spent,
           stubs' \in SUBSET Targets
    PROVE  Inv'
<1>1. /\ TypeOK /\ AllKept /\ RunsWithRow /\ RowsHaveOwners
      /\ asked \in SUBSET ClientJobs
      /\ queued \in Requests /\ owed \in [Targets -> SUBSET AllReasons]
      /\ parked' \in Requests /\ rows' \in Requests
  BY DEF Inv, TypeOK
<1>2. /\ queued' \in Requests /\ asked' \in SUBSET ClientJobs
      /\ slot' \in {Free} \cup ClientJobs \cup Hydrations
      /\ owed' \in [Targets -> SUBSET AllReasons]
      /\ AllKept' /\ RunsWithRow' /\ RowsHaveOwners'
  <2>1. \A t \in Targets : Kept(queued[t], parked'[t], rows'[t], owed[t])
    BY <1>1 DEF AllKept
  <2>2. \A t \in Targets :
          rows'[t] # None => queued[t] # None \/ parked'[t] # None \/ rows'[t] \in FastForward
    BY <1>1 DEF RowsHaveOwners, Pending, Hydrating
  <2> QED
    BY <1>1, <2>1, <2>2, StartKeeps
<1> QED
  BY <1>1, <1>2 DEF Inv, TypeOK

LEMMA MaterializeEndsInv ==
    ASSUME Inv, NEW t \in Targets, MaterializeEnds(t)
    PROVE  Inv'
<1> None \notin AllReasons
  BY HydrationAssumption
<1>1. slot.job # "hydration"
  BY DEF MaterializeEnds, Materialize
<1>2. CASE t \notin stubs /\ CancelPrefetches({t}, stubs)
  BY <1>1, <1>2, CancelPrefetchesInv DEF Inv, TypeOK
<1>3. CASE /\ MaybeStartNext(TRUE, asked, queued, owed)
           /\ UNCHANGED <<parked, due, rows, stubs>> /\ UNCHANGED spent
  BY <1>1, <1>3, OnlyStartsInv DEF Inv, TypeOK
<1>4. ASSUME parked' = [parked EXCEPT ![t] = None],
             due' = due \ {t},
             rows' = [rows EXCEPT ![t] = None],
             stubs' = stubs \ {t},
             MaybeStartNext(TRUE, asked, [queued EXCEPT ![t] = None], [owed EXCEPT ![t] = {}]),
             spent' = spent
      PROVE  Inv'
  <2> DEFINE queue == [queued EXCEPT ![t] = None]
             promised == [owed EXCEPT ![t] = {}]
  <2>1. /\ TypeOK /\ AllKept /\ RunsWithRow /\ RowsHaveOwners
        /\ asked \in SUBSET ClientJobs
        /\ queued \in Requests /\ parked \in Requests /\ rows \in Requests
        /\ owed \in [Targets -> SUBSET AllReasons] /\ due \in SUBSET Targets
        /\ due \subseteq {u \in Targets : parked[u] # None}
    BY DEF Inv, TypeOK
  <2>2. /\ queue \in Requests /\ parked' \in Requests /\ rows' \in Requests
        /\ promised \in [Targets -> SUBSET AllReasons]
        /\ queue[t] = None /\ parked'[t] = None /\ rows'[t] = None /\ promised[t] = {}
        /\ \A u \in Targets \ {t} :
             queue[u] = queued[u] /\ parked'[u] = parked[u] /\ rows'[u] = rows[u]
             /\ promised[u] = owed[u]
    BY <1>4, <2>1 DEF Requests
  <2> HIDE DEF queue, promised
  <2>3. \A u \in Targets : Kept(queue[u], parked'[u], rows'[u], promised[u])
    BY <2>1, <2>2 DEF AllKept, Kept
  <2>4. \A u \in Targets :
          rows'[u] # None => queue[u] # None \/ parked'[u] # None \/ rows'[u] \in FastForward
    BY <2>1, <2>2, <1>1 DEF RowsHaveOwners, Pending, Hydrating
  <2>5. MaybeStartNext(TRUE, asked, queue, promised)
    BY <1>4 DEF queue, promised
  <2>6. /\ queued' \in Requests /\ asked' \in SUBSET ClientJobs
        /\ slot' \in {Free} \cup ClientJobs \cup Hydrations
        /\ owed' \in [Targets -> SUBSET AllReasons]
        /\ AllKept' /\ RunsWithRow' /\ RowsHaveOwners'
    BY <2>1, <2>2, <2>3, <2>4, <2>5, StartKeeps
  <2>7. due' \subseteq {u \in Targets : parked'[u] # None}
    BY <1>4, <2>1, <2>2
  <2> QED
    BY <1>4, <2>1, <2>2, <2>6, <2>7 DEF Inv, TypeOK
<1> QED
  BY <1>2, <1>3, <1>4 DEF MaterializeEnds

LEMMA PullEndsInv ==
    ASSUME Inv, PullEnds
    PROVE  Inv'
<1>1. slot.job # "hydration"
  BY DEF PullEnds, Pull
<1> PICK kept \in SUBSET stubs :
      \/ CancelPrefetches({t \in Targets \ kept : "Prefetch" \in {queued[t], parked[t]}}, kept)
      \/ /\ stubs' = kept /\ MaybeStartNext(TRUE, asked, queued, owed)
         /\ UNCHANGED <<parked, due, rows>> /\ UNCHANGED spent
  BY DEF PullEnds
<1>2. kept \in SUBSET Targets
  BY DEF Inv, TypeOK
<1> QED
  BY <1>1, <1>2, CancelPrefetchesInv, OnlyStartsInv

LEMMA DeadlinePassesInv ==
    ASSUME Inv, NEW t \in Targets, DeadlinePasses(t)
    PROVE  Inv'
  BY DEF Inv, TypeOK, DeadlinePasses, AllKept, RunsWithRow, RowsHaveOwners, Pending, Hydrating

LEMMA TickInv ==
    ASSUME Inv, Tick
    PROVE  Inv'
<1> None \notin AllReasons
  BY HydrationAssumption
<1>1. /\ TypeOK /\ AllKept /\ RunsWithRow /\ RowsHaveOwners
      /\ asked \in SUBSET ClientJobs
      /\ queued \in Requests /\ parked \in Requests /\ rows \in Requests
      /\ owed \in [Targets -> SUBSET AllReasons] /\ due \in SUBSET Targets
      /\ due \subseteq {t \in Targets : parked[t] # None}
  BY DEF Inv, TypeOK
<1> PICK dropped \in SUBSET {t \in due : parked[t] \in FastForward} :
      LET queue == [t \in Targets |-> IF t \in due \ dropped THEN Merge(queued[t], parked[t])
                                      ELSE queued[t]]
      IN /\ rows' = [t \in Targets |-> IF t \in due \ dropped THEN queue[t] ELSE rows[t]]
         /\ MaybeStartNext(slot = Free, asked, queue,
                           [t \in Targets |-> IF t \in dropped THEN {} ELSE owed[t]])
  BY DEF Tick
<1> DEFINE queue == [t \in Targets |-> IF t \in due \ dropped THEN Merge(queued[t], parked[t])
                                       ELSE queued[t]]
           promised == [t \in Targets |-> IF t \in dropped THEN {} ELSE owed[t]]
<1>2. /\ rows' = [t \in Targets |-> IF t \in due \ dropped THEN queue[t] ELSE rows[t]]
      /\ MaybeStartNext(slot = Free, asked, queue, promised)
      /\ parked' = [t \in Targets |-> IF t \in due THEN None ELSE parked[t]]
      /\ due' = {} /\ stubs' = stubs /\ spent' = spent
  BY DEF Tick
\* What is due is parked and so not queued: it is queued as it was parked.
<1>3. ASSUME NEW t \in due
      PROVE  parked[t] \in AllReasons /\ queued[t] = None /\ Merge(queued[t], parked[t]) = parked[t]
  BY <1>1 DEF AllKept, Kept, Requests, Merge
<1>4. /\ queue \in Requests /\ parked' \in Requests /\ rows' \in Requests
      /\ promised \in [Targets -> SUBSET AllReasons]
  <2>1. queue \in Requests
    BY <1>1, <1>3 DEF Requests
  <2> HIDE DEF queue
  <2> QED
    BY <1>1, <1>2, <2>1 DEF Requests
<1>5. ASSUME NEW t \in Targets
      PROVE  /\ Kept(queue[t], parked'[t], rows'[t], promised[t])
             /\ rows'[t] # None =>
                  \/ queue[t] # None \/ parked'[t] # None
                  \/ (~(slot = Free) /\ Hydrating(t)) \/ rows'[t] \in FastForward
  <2>1. /\ Kept(queued[t], parked[t], rows[t], owed[t])
        /\ rows[t] # None => \/ queued[t] # None \/ parked[t] # None \/ Hydrating(t)
                             \/ rows[t] \in FastForward
        /\ Hydrating(t) => slot # Free
    BY <1>1 DEF AllKept, RowsHaveOwners, Pending, Hydrating, Free
  <2>2. CASE t \notin due
    BY <2>1, <2>2, <1>2
  <2>3. CASE t \in due \ dropped
    <3>1. /\ queue[t] = parked[t] /\ parked'[t] = None /\ rows'[t] = parked[t]
          /\ promised[t] = owed[t] /\ parked[t] # None /\ queued[t] = None
      BY <2>3, <1>2, <1>3
    <3> HIDE DEF queue, promised
    <3> QED
      BY <2>1, <3>1 DEF Kept
  <2>4. CASE t \in dropped
    <3>1. /\ queue[t] = None /\ parked'[t] = None /\ rows'[t] = rows[t] /\ promised[t] = {}
          /\ parked[t] \in FastForward /\ queued[t] = None
      BY <2>4, <1>2, <1>3
    <3>2. rows[t] = parked[t]
      BY <2>1, <2>4, <3>1, <1>3 DEF Kept
    <3> HIDE DEF queue, promised
    <3> QED
      BY <3>1, <3>2 DEF Kept
  <2> QED
    BY <2>2, <2>3, <2>4
\* The row of what runs is neither deleted nor left without a request.
<1>6. slot.job = "hydration" =>
        /\ rows'[slot.target] # None
        /\ \A r \in slot.serves : Priority(slot.reason) >= Priority(r)
  <2> SUFFICES ASSUME slot.job = "hydration" PROVE rows'[slot.target] # None
    BY <1>1 DEF RunsWithRow
  <2>1. slot.target \in Targets /\ rows[slot.target] # None
    BY <1>1 DEF TypeOK, RunsWithRow, Free, ClientJobs, Pull, Materialize, Hydrations
  <2> QED
    BY <2>1, <1>2, <1>3
<1>7. /\ queued' \in Requests /\ asked' \in SUBSET ClientJobs
      /\ slot' \in {Free} \cup ClientJobs \cup Hydrations
      /\ owed' \in [Targets -> SUBSET AllReasons]
      /\ AllKept' /\ RunsWithRow' /\ RowsHaveOwners'
  <2>1. MaybeStartNext(slot = Free, asked, queue, promised)
    BY <1>2
  <2> HIDE DEF queue, promised
  <2> QED
    BY <2>1, <1>1, <1>4, <1>5, <1>6, StartKeeps
<1> QED
  BY <1>1, <1>2, <1>4, <1>7 DEF Inv, TypeOK

LEMMA RestartInv ==
    ASSUME Inv, Restart
    PROVE  Inv'
<1> None \notin AllReasons
  BY HydrationAssumption
<1>1. /\ TypeOK /\ rows \in Requests /\ owed \in [Targets -> SUBSET AllReasons]
      /\ AllKept /\ RunsWithRow
  BY DEF Inv, TypeOK
<1>2. /\ queued' = rows /\ rows' = rows /\ parked' = NoRequest /\ due' = {}
      /\ asked' = {} /\ slot' = Free /\ stubs' = stubs
      /\ owed' = [t \in Targets |-> IF rows[t] # None THEN {rows[t]}
                                    ELSE owed[t] \cup Serves(t)]
  BY DEF Restart
\* What is owed has a row, so nothing is owed but what the rows say.
<1>3. ASSUME NEW t \in Targets, rows[t] = None
      PROVE  owed[t] \cup Serves(t) = {}
  BY <1>1, <1>3 DEF AllKept, Kept, RunsWithRow, Serves, Hydrating
<1>4. owed' = [t \in Targets |-> IF rows[t] # None THEN {rows[t]} ELSE {}]
  BY <1>2, <1>3
<1>5. spent' \in [requests : 0..MaxRequests, asks : 0..MaxAsks,
                  failures : 0..MaxFailures, crashes : 0..MaxCrashes]
  BY <1>1, SpendKeepsBounds DEF Restart
<1>6. TypeOK'
  BY <1>1, <1>2, <1>4, <1>5 DEF TypeOK, Requests, NoRequest
<1>7. ASSUME NEW t \in Targets
      PROVE  Kept(queued[t], parked[t], rows[t], owed[t])'
  <2>1. /\ queued'[t] = rows[t] /\ parked'[t] = None /\ rows'[t] = rows[t]
        /\ owed'[t] = IF rows[t] # None THEN {rows[t]} ELSE {}
        /\ rows[t] \in AllReasons \cup {None}
    BY <1>1, <1>2, <1>4 DEF NoRequest, Requests
  <2> QED
    BY <2>1, PriorityRange DEF Kept
<1>8. RunsWithRow' /\ RowsHaveOwners'
  BY <1>2 DEF RunsWithRow, RowsHaveOwners, Pending, Free
<1> QED
  BY <1>2, <1>6, <1>7, <1>8 DEF Inv, AllKept

LEMMA NextInv == Inv /\ [Next]_vars => Inv'
<1> SUFFICES ASSUME Inv, [Next]_vars PROVE Inv'
  OBVIOUS
<1>1. CASE UNCHANGED vars
  BY <1>1 DEF vars, Inv, TypeOK, AllKept, RunsWithRow, RowsHaveOwners, Pending, Hydrating
<1> QED
  BY <1>1, AcceptInv, AskInv, WorkerFinishesInv, HydrationSucceedsInv, HydrationFailsInv,
     MaterializeEndsInv, PullEndsInv, DeadlinePassesInv, TickInv, RestartInv DEF Next

-----------------------------------------------------------------------------
(* The theorems *)

\* The inductive invariant: every accepted request is queued, parked or running,
\* has its row, and no row or running job is left without its request.
THEOREM InvHolds == Spec => []Inv
  BY InitInv, NextInv, PTL DEF Spec

\* Every variable keeps its type, and so no job runs for a request that is not there.
THEOREM TypeCorrect == Spec => []TypeOK
<1>1. Inv => TypeOK
  BY DEF Inv
<1> QED
  BY <1>1, InvHolds, PTL

\* Whatever is merged, parked, retried, cancelled or reloaded, an accepted request is
\* pending with at least its priority until it is served.
THEOREM AcceptedStaysPending == Spec => []AcceptedIsPending
<1>1. Inv => AcceptedIsPending
  BY DEF Inv, AllKept, Kept, AcceptedIsPending
<1> QED
  BY <1>1, InvHolds, PTL

\* A request has a durable row for as long as it is queued, parked or running.
THEOREM AcceptedStaysDurable == Spec => []AcceptedIsDurable
<1>1. Inv => AcceptedIsDurable
  BY DEF Inv, AllKept, Kept, RunsWithRow, AcceptedIsDurable, Pending, Serves, Hydrating
<1> QED
  BY <1>1, InvHolds, PTL

\* A target is never both queued and parked, and no row outlives its request.
THEOREM RequestsHaveOneOwner == Spec => []OneOwner
<1>1. Inv => OneOwner
  BY DEF Inv, AllKept, Kept, RowsHaveOwners, OneOwner
<1> QED
  BY <1>1, InvHolds, PTL

-----------------------------------------------------------------------------
(* Cool-downs *)

\* A page that was hydrated is no stub.
OkIsHere == slot.job = "hydration" /\ slot.result = "ok" => slot.target \notin stubs

LEMMA StartIsRunning ==
    ASSUME NEW free \in BOOLEAN, NEW waiting \in SUBSET ClientJobs, NEW queue, NEW promised,
           MaybeStartNext(free, waiting, queue, promised),
           slot'.job = "hydration"
    PROVE  slot' = slot \/ slot'.result = "running"
  BY DEF MaybeStartNext, StartNext, ClientJobs, Pull, Materialize, Free, Hydration

LEMMA OkIsHereKept == Inv /\ OkIsHere /\ [Next]_vars => OkIsHere'
<1> SUFFICES ASSUME Inv, OkIsHere, [Next]_vars PROVE OkIsHere'
  OBVIOUS
<1>1. asked \in SUBSET ClientJobs /\ slot \in {Free} \cup ClientJobs \cup Hydrations
  BY DEF Inv, TypeOK
<1>2. CASE UNCHANGED vars
  BY <1>2 DEF vars, OkIsHere
<1>3. ASSUME NEW t \in Targets, NEW reason \in Reasons, Accept(t, reason) PROVE OkIsHere'
  BY <1>1, <1>3, StartIsRunning DEF Accept, OkIsHere
<1>4. ASSUME NEW job \in ClientJobs, Ask(job) PROVE OkIsHere'
  BY <1>1, <1>4, StartIsRunning DEF Ask, OkIsHere
<1>5. CASE WorkerFinishes
  BY <1>1, <1>5 DEF WorkerFinishes, OkIsHere, Hydrations, Free, ClientJobs, Pull, Materialize
<1>6. CASE HydrationSucceeds
  BY <1>1, <1>6, StartIsRunning DEF HydrationSucceeds, OkIsHere
<1>7. CASE HydrationFails
  BY <1>1, <1>7, StartIsRunning DEF HydrationFails, OkIsHere
<1>8. ASSUME NEW t \in Targets, MaterializeEnds(t) PROVE OkIsHere'
  BY <1>1, <1>8, StartIsRunning DEF MaterializeEnds, Materialize, CancelPrefetches, OkIsHere
<1>9. CASE PullEnds
  <2>1. slot = Pull
    BY <1>9 DEF PullEnds
  <2>2. PICK queue, promised : MaybeStartNext(TRUE, asked, queue, promised)
    BY <1>9 DEF PullEnds, CancelPrefetches
  <2>3. slot'.job = "hydration" => slot' = slot \/ slot'.result = "running"
    BY <1>1, <2>2, StartIsRunning
  <2>4. slot.job # "hydration"
    BY <2>1 DEF Pull
  <2> QED
    BY <2>3, <2>4 DEF OkIsHere
<1>10. ASSUME NEW t \in Targets, DeadlinePasses(t) PROVE OkIsHere'
  BY <1>10 DEF DeadlinePasses, OkIsHere
<1>11. CASE Tick
  BY <1>1, <1>11, StartIsRunning DEF Tick, OkIsHere
<1>12. CASE Restart
  BY <1>12 DEF Restart, OkIsHere, Free
<1> QED
  BY <1>2, <1>3, <1>4, <1>5, <1>6, <1>7, <1>8, <1>9, <1>10, <1>11, <1>12 DEF Next

\* A target that is not queued is neither queued nor running after the next start.
LEMMA NotQueuedNotStarted ==
    ASSUME NEW waiting \in SUBSET ClientJobs, NEW queue \in Requests, NEW promised,
           MaybeStartNext(TRUE, waiting, queue, promised),
           NEW t \in Targets, queue[t] = None
    PROVE  queued'[t] = None /\ ~Hydrating(t)'
  BY DEF MaybeStartNext, StartNext, Requests, Hydrating, Hydration, ClientJobs, Pull,
         Materialize, Free

\* A parked request leaves its cool-down early only for a foreground request, or
\* when its page is here; repeated discovery never takes it out.
THEOREM CoolDownsAreKept == Spec => CoolDownIsKept
<1> DEFINE A == \A t \in Targets :
                  (parked[t] # None /\ t \notin due /\ parked'[t] = None /\ ~Restart) =>
                      \/ \E reason \in Foreground : Accept(t, reason)
                      \/ t \notin stubs' /\ queued'[t] = None /\ ~Hydrating(t)'
<1>1. Init => OkIsHere
  BY DEF Init, OkIsHere, Free
<1>2. Inv /\ OkIsHere /\ [Next]_vars => [A]_vars
  <2> SUFFICES ASSUME Inv, OkIsHere, Next,
                      NEW t \in Targets, parked[t] # None, t \notin due, parked'[t] = None, ~Restart
               PROVE  \/ \E reason \in Foreground : Accept(t, reason)
                      \/ t \notin stubs' /\ queued'[t] = None /\ ~Hydrating(t)'
    OBVIOUS
  <2> None \notin AllReasons
    BY HydrationAssumption
  <2>1. /\ asked \in SUBSET ClientJobs /\ queued \in Requests /\ parked \in Requests
        /\ owed \in [Targets -> SUBSET AllReasons]
        /\ stubs \in SUBSET Targets /\ slot \in {Free} \cup ClientJobs \cup Hydrations
        /\ queued[t] = None /\ parked[t] \in AllReasons
    BY DEF Inv, TypeOK, AllKept, Kept, Requests
  <2>2. ASSUME NEW u \in Targets, NEW reason \in Reasons, Accept(u, reason)
        PROVE  \E r \in Foreground : Accept(t, r)
    <3>1. u = t
      BY <2>1, <2>2 DEF Accept, Requests
    <3>2. Merge(parked[t], reason) # None
      BY <2>1, MergeKeepsStronger, HydrationAssumption
    <3>3. reason \in Foreground
      BY <2>1, <2>2, <3>1, <3>2 DEF Accept, Requests
    <3> QED
      BY <2>2, <3>1, <3>3
  <2>3. ASSUME NEW job \in ClientJobs, Ask(job) PROVE FALSE
    BY <2>3 DEF Ask
  <2>4. CASE WorkerFinishes
    BY <2>4 DEF WorkerFinishes
  <2>5. CASE HydrationSucceeds
    <3> DEFINE served == IF slot.reason = "Prefetch" THEN {} ELSE {"Prefetch"}
               queue == Without(queued, {slot.target}, served)
    <3>1. parked' = Without(parked, {slot.target}, served) /\ stubs' = stubs
          /\ slot.job = "hydration" /\ slot.result = "ok"
      BY <2>5 DEF HydrationSucceeds
    <3>2. slot.target = t
      BY <2>1, <3>1 DEF Without
    <3>3. t \notin stubs'
      BY <3>1, <3>2 DEF OkIsHere
    <3>4. queue \in Requests /\ queue[t] = None
      BY <2>1 DEF Without, Requests
    <3>5. \E promised : MaybeStartNext(TRUE, asked, queue, promised)
      BY <2>5 DEF HydrationSucceeds
    <3> QED
      BY <2>1, <3>3, <3>4, <3>5, NotQueuedNotStarted
  <2>6. CASE HydrationFails
    <3>1. slot \in Hydrations
      BY <2>1, <2>6 DEF HydrationFails, Free, ClientJobs, Pull, Materialize
    <3>2. slot.reason \in AllReasons /\ slot.target \in Targets
      BY <3>1 DEF Hydrations
    <3>3. slot.target = t
      BY <2>1, <2>6, <3>2 DEF HydrationFails, Requests
    <3>4. parked'[t] = Merge(parked[t], slot.reason)
      BY <2>1, <2>6, <3>2, <3>3 DEF HydrationFails, Requests
    <3> QED
      BY <2>1, <3>2, <3>4, MergeKeepsStronger
  <2>7. ASSUME NEW S \in SUBSET Targets, NEW kept, CancelPrefetches(S, kept),
               S \cap kept = {}
        PROVE  t \notin stubs' /\ queued'[t] = None /\ ~Hydrating(t)'
    <3>1. parked' = Without(parked, S, {"Prefetch"}) /\ stubs' = kept
      BY <2>7 DEF CancelPrefetches
    <3>2. t \in S
      BY <2>1, <3>1 DEF Without
    <3>3. Without(queued, S, {"Prefetch"}) \in Requests
          /\ Without(queued, S, {"Prefetch"})[t] = None
      BY <2>1 DEF Without, Requests
    <3>4. \E promised : MaybeStartNext(TRUE, asked, Without(queued, S, {"Prefetch"}), promised)
      BY <2>7 DEF CancelPrefetches
    <3> QED
      BY <2>1, <2>7, <3>1, <3>2, <3>3, <3>4, NotQueuedNotStarted
  <2>8. ASSUME NEW u \in Targets, MaterializeEnds(u)
        PROVE  t \notin stubs' /\ queued'[t] = None /\ ~Hydrating(t)'
    <3>1. CASE u \notin stubs /\ CancelPrefetches({u}, stubs)
      BY <2>7, <3>1
    <3>2. CASE UNCHANGED <<parked, due, rows, stubs>>
      BY <3>2
    <3>3. ASSUME parked' = [parked EXCEPT ![u] = None], stubs' = stubs \ {u},
                 MaybeStartNext(TRUE, asked, [queued EXCEPT ![u] = None], [owed EXCEPT ![u] = {}])
          PROVE  t \notin stubs' /\ queued'[t] = None /\ ~Hydrating(t)'
      <4>1. u = t
        BY <2>1, <3>3 DEF Requests
      <4>2. [queued EXCEPT ![u] = None] \in Requests /\ [queued EXCEPT ![u] = None][t] = None
        BY <2>1, <4>1 DEF Requests
      <4> QED
        BY <2>1, <3>3, <4>1, <4>2, NotQueuedNotStarted
    <3> QED
      BY <2>8, <3>1, <3>2, <3>3 DEF MaterializeEnds
  <2>9. CASE PullEnds
    <3> PICK kept \in SUBSET stubs :
          \/ CancelPrefetches({v \in Targets \ kept : "Prefetch" \in {queued[v], parked[v]}}, kept)
          \/ UNCHANGED <<parked, due, rows>>
      BY <2>9 DEF PullEnds
    <3> QED
      BY <2>7
  <2>10. ASSUME NEW u \in Targets, DeadlinePasses(u) PROVE FALSE
    BY <2>10 DEF DeadlinePasses
  <2>11. CASE Tick
    BY <2>1, <2>11 DEF Tick
  <2> QED
    BY <2>2, <2>3, <2>4, <2>5, <2>6, <2>8, <2>9, <2>10, <2>11 DEF Next
<1> QED
  BY <1>1, <1>2, OkIsHereKept, InvHolds, PTL DEF Spec, CoolDownIsKept

-----------------------------------------------------------------------------
(* HydrationJobs implements HydrationPromises: every step of the queue, the *)
(* parking lot and the rows is a step of the promises, or leaves them alone. *)

\* While a page is fetched it is not parked, and unless it is wanted again its row
\* has the reason for which it is fetched: so a restart finds it.
RowOfRunning ==
    slot.job = "hydration" =>
        /\ parked[slot.target] = None
        /\ queued[slot.target] = None => rows[slot.target] = slot.reason

RInv == Inv /\ RowOfRunning

\* The wishes that a queue and a parking lot stand for.
WishesOf(queue, park) == [t \in Targets |-> IF queue[t] # None THEN queue[t] ELSE park[t]]

Disjoint(queue, park) == \A t \in Targets : ~(queue[t] # None /\ park[t] # None)

LEMMA NothingIs == Promises!Nothing = [page |-> None, kind |-> None]
  BY DEF Promises!Nothing, Promises!Fetch

LEMMA StrongerIsMerge ==
    ASSUME NEW a \in AllReasons \cup {None}, NEW b \in AllReasons
    PROVE  Promises!Stronger(a, b) = Merge(a, b)
  BY HydrationAssumption DEF Promises!Stronger, Merge

\* What the handlers end with is what the promises end with.
LEMMA StartSettles ==
    ASSUME NEW free \in BOOLEAN, NEW waiting \in SUBSET ClientJobs,
           NEW queue \in Requests, NEW promised,
           MaybeStartNext(free, waiting, queue, promised),
           parked' \in Requests, Disjoint(queue, parked')
    PROVE  Promises!Settle(WishesOf(queue, parked'), IF free THEN Promises!Nothing ELSE Running)
<1> None \notin AllReasons
  BY HydrationAssumption
<1>1. CASE queued' = queue /\ slot'.job # "hydration" /\ free
  BY <1>1, NothingIs DEF Promises!Settle, WishesOf, Wanted, Running
<1>2. CASE ~free
  BY <1>2 DEF MaybeStartNext, Promises!Settle, WishesOf, Wanted, Running
<1>3. CASE free /\ \E t \in Targets : /\ queue[t] # None
                                      /\ slot' = Hydration(t, queue[t], promised[t])
                                      /\ queued' = [queue EXCEPT ![t] = None]
  <2> PICK t \in Targets : /\ queue[t] # None
                           /\ slot' = Hydration(t, queue[t], promised[t])
                           /\ queued' = [queue EXCEPT ![t] = None]
    BY <1>3
  <2>1. Running' = [page |-> t, kind |-> queue[t]]
    BY DEF Running, Hydration
  <2>2. parked'[t] = None
    BY DEF Disjoint
  <2>3. Wanted' = [WishesOf(queue, parked') EXCEPT ![t] = None]
    BY <2>2 DEF Wanted, WishesOf, Requests
  <2>4. WishesOf(queue, parked')[t] = queue[t]
    BY DEF WishesOf
  <2> QED
    BY <1>3, <2>1, <2>3, <2>4 DEF Promises!Settle, Promises!Fetch
<1> QED
  BY <1>1, <1>2, <1>3 DEF MaybeStartNext, StartNext, Free, ClientJobs, Pull, Materialize

\* What the invariant says of the state before a step.
LEMMA Facts ==
    ASSUME RInv
    PROVE  /\ None \notin AllReasons
           /\ asked \in SUBSET ClientJobs
           /\ queued \in Requests /\ parked \in Requests /\ rows \in Requests
           /\ due \subseteq Targets
           /\ \A t \in Targets : /\ queued[t] \in AllReasons \cup {None}
                                 /\ parked[t] \in AllReasons \cup {None}
                                 /\ rows[t] \in AllReasons \cup {None}
           /\ slot \in {Free} \cup ClientJobs \cup Hydrations
           /\ slot.job = "hydration" => slot \in Hydrations /\ slot.target \in Targets
                                        /\ slot.reason \in AllReasons
           /\ Disjoint(queued, parked)
           /\ Wanted = WishesOf(queued, parked)
           /\ Running = IF slot.job = "hydration" THEN [page |-> slot.target, kind |-> slot.reason]
                        ELSE Promises!Nothing
<1>1. TypeOK /\ AllKept
  BY DEF RInv, Inv
<1>2. slot.job = "hydration" => slot \in Hydrations
  BY <1>1 DEF TypeOK, Free, ClientJobs, Pull, Materialize
<1> QED
  BY <1>1, <1>2, HydrationAssumption, NothingIs
     DEF TypeOK, Requests, AllKept, Kept, Disjoint, Wanted, WishesOf, Running, Hydrations

-----------------------------------------------------------------------------
(* The rows of what runs *)

\* Starting a job leaves its row with its reason.
LEMMA StartKeepsRow ==
    ASSUME NEW free \in BOOLEAN, NEW waiting \in SUBSET ClientJobs,
           NEW queue \in Requests, NEW promised,
           MaybeStartNext(free, waiting, queue, promised),
           Disjoint(queue, parked'),
           \A t \in Targets : queue[t] # None => rows'[t] = queue[t],
           ~free /\ slot.job = "hydration" =>
               /\ parked'[slot.target] = None
               /\ queue[slot.target] = None => rows'[slot.target] = slot.reason
    PROVE  RowOfRunning'
<1>1. CASE ~free
  BY <1>1 DEF MaybeStartNext, RowOfRunning
<1>2. CASE free /\ slot'.job = "hydration"
  <2> PICK t \in Targets : /\ queue[t] # None
                           /\ slot' = Hydration(t, queue[t], promised[t])
    BY <1>2 DEF MaybeStartNext, StartNext, ClientJobs, Pull, Materialize, Free
  <2> QED
    BY DEF RowOfRunning, Hydration, Disjoint
<1> QED
  BY <1>1, <1>2 DEF RowOfRunning

\* Both at once, for a handler that turns the queue, the parking lot and the rows into
\* new ones and ends with MaybeStartNext.
LEMMA HandlerSettles ==
    ASSUME NEW free \in BOOLEAN, NEW waiting \in SUBSET ClientJobs,
           NEW queue \in Requests, NEW promised,
           MaybeStartNext(free, waiting, queue, promised),
           parked' \in Requests,
           \A t \in Targets : /\ ~(queue[t] # None /\ parked'[t] # None)
                              /\ queue[t] # None => rows'[t] = queue[t],
           ~free /\ slot.job = "hydration" =>
               /\ parked'[slot.target] = None
               /\ queue[slot.target] = None => rows'[slot.target] = slot.reason,
           NEW wishes, wishes = WishesOf(queue, parked'),
           NEW busy, busy = IF free THEN Promises!Nothing ELSE Running
    PROVE  RowOfRunning' /\ Promises!Settle(wishes, busy)
<1>1. Disjoint(queue, parked')
  BY DEF Disjoint
<1>2. RowOfRunning'
  BY <1>1, StartKeepsRow
<1>3. Promises!Settle(wishes, busy)
  BY <1>1, StartSettles
<1> QED
  BY <1>2, <1>3

\* What is queued has its row.
LEMMA QueuedRows ==
    ASSUME RInv
    PROVE  /\ \A t \in Targets : queued[t] # None => rows[t] = queued[t]
           /\ \A t \in Targets : parked[t] # None => rows[t] = parked[t]
           /\ \A t \in Targets : queued[t] = None \/ parked[t] = None
           /\ \A t \in Targets : rows[t] # None => \/ queued[t] # None \/ parked[t] # None
                                                   \/ Hydrating(t) \/ rows[t] \in FastForward
  BY DEF RInv, Inv, AllKept, Kept, RowsHaveOwners, Pending

-----------------------------------------------------------------------------
(* Every step *)

LEMMA AcceptWants ==
    ASSUME RInv, NEW t \in Targets, NEW reason \in Reasons, Accept(t, reason)
    PROVE  RowOfRunning' /\ Promises!Want(t, reason)
<1> DEFINE merged == IF parked[t] # None THEN Merge(parked[t], reason)
                     ELSE Merge(queued[t], reason)
           waits == parked[t] # None /\ reason \notin Foreground
           queue == IF waits THEN queued ELSE [queued EXCEPT ![t] = Merge(@, merged)]
           promised == [owed EXCEPT ![t] = @ \cup {reason}]
           wishes == [Wanted EXCEPT ![t] = Promises!Stronger(@, reason)]
<1>1. reason \in AllReasons /\ None \notin AllReasons
  BY HydrationAssumption
<1>2. /\ rows' = [rows EXCEPT ![t] = merged]
      /\ parked' = [parked EXCEPT ![t] = IF waits THEN merged ELSE None]
      /\ MaybeStartNext(slot = Free, asked, queue, promised)
  BY DEF Accept
<1>3. merged \in AllReasons /\ merged = Promises!Stronger(Wanted[t], reason)
  <2>1. Wanted[t] = IF queued[t] # None THEN queued[t] ELSE parked[t]
    BY DEF Wanted
  <2>2. merged = Merge(Wanted[t], reason)
    BY <2>1, Facts, QueuedRows
  <2>3. Wanted[t] \in AllReasons \cup {None}
    BY <2>1, Facts
  <2> HIDE DEF merged
  <2> QED
    BY <1>1, <2>2, <2>3, MergeKeepsStronger, StrongerIsMerge
<1>4. ~waits => queue = [queued EXCEPT ![t] = merged]
  <2>1. CASE queued[t] = None
    BY <2>1 DEF Merge
  <2>2. CASE queued[t] # None
    <3>1. merged = Merge(queued[t], reason)
      BY <2>2, QueuedRows
    <3> QED
      BY <2>2, <3>1 DEF Merge
  <2> QED
    BY <2>1, <2>2
<1> HIDE DEF merged
<1>5. queue \in Requests /\ parked' \in Requests
  BY <1>2, <1>3, <1>4, Facts DEF Requests
<1>6. ASSUME NEW u \in Targets
      PROVE  /\ ~(queue[u] # None /\ parked'[u] # None)
             /\ queue[u] # None => rows'[u] = queue[u]
  BY <1>2, <1>4, Facts, QueuedRows DEF Requests
<1>7. wishes = WishesOf(queue, parked')
  <2>1. waits => queued[t] = None
    BY QueuedRows
  <2>2. ASSUME NEW u \in Targets
        PROVE  wishes[u] = IF queue[u] # None THEN queue[u] ELSE parked'[u]
    BY <1>1, <1>2, <1>3, <1>4, <2>1, Facts DEF Wanted, Requests
  <2> QED
    BY <2>2 DEF WishesOf, Wanted
<1>8. slot.job = "hydration" =>
        /\ parked'[slot.target] = None
        /\ queue[slot.target] = None => rows'[slot.target] = slot.reason
  BY <1>1, <1>2, <1>3, <1>4, Facts DEF RInv, RowOfRunning, Requests
<1>9. Running = IF slot = Free THEN Promises!Nothing ELSE Running
  BY NothingIs DEF Running, Free
<1> HIDE DEF queue, promised, wishes
<1>10. RowOfRunning' /\ Promises!Settle(wishes, Running)
  BY <1>2, <1>5, <1>6, <1>7, <1>8, <1>9, Facts, HandlerSettles
<1> QED
  BY <1>10 DEF Promises!Want, wishes

\* A handler that leaves the wishes alone and only starts the next job.
LEMMA OnlyStartsSettles ==
    ASSUME RInv, NEW free \in BOOLEAN, NEW waiting \in SUBSET ClientJobs, NEW promised,
           MaybeStartNext(free, waiting, queued, promised),
           free => slot.job # "hydration",
           parked' = parked, rows' = rows
    PROVE  RowOfRunning' /\ Promises!Settle(Wanted, Running)
<1>1. /\ queued \in Requests /\ parked' \in Requests
      /\ Wanted = WishesOf(queued, parked')
      /\ Running = IF free THEN Promises!Nothing ELSE Running
  BY Facts
<1>2. \A t \in Targets : /\ ~(queued[t] # None /\ parked'[t] # None)
                         /\ queued[t] # None => rows'[t] = queued[t]
  BY QueuedRows
<1>3. ~free /\ slot.job = "hydration" =>
        /\ parked'[slot.target] = None
        /\ queued[slot.target] = None => rows'[slot.target] = slot.reason
  BY DEF RInv, RowOfRunning
<1> QED
  BY <1>1, <1>2, <1>3, HandlerSettles

LEMMA SucceedsIsFetched ==
    ASSUME RInv, HydrationSucceeds
    PROVE  RowOfRunning' /\ Promises!Fetched
<1> DEFINE t == slot.target
           served == IF slot.reason = "Prefetch" THEN {} ELSE {"Prefetch"}
           queue == Without(queued, {t}, served)
           wishes == WishesOf(queue, parked')
<1>1. /\ t \in Targets /\ slot.job = "hydration"
      /\ Running = [page |-> t, kind |-> slot.reason]
      /\ parked[t] = None
  BY Facts DEF HydrationSucceeds, RInv, RowOfRunning
<1>2. /\ parked' = parked
      /\ queue \in Requests
      /\ \A u \in Targets : queue[u] = IF u = t /\ queued[u] \in served THEN None ELSE queued[u]
      /\ rows' = IF queue[t] # None \/ parked'[t] # None THEN rows
                 ELSE [rows EXCEPT ![t] = None]
      /\ \E promised : MaybeStartNext(TRUE, asked, queue, promised)
  <2>1. parked' = Without(parked, {t}, served)
    BY DEF HydrationSucceeds
  <2>2. parked' = parked
    BY <1>1, <2>1, Facts DEF Without, Requests
  <2> QED
    BY <2>2, Facts DEF HydrationSucceeds, Without, Requests
<1> HIDE DEF queue
<1>3. \A u \in Targets : /\ ~(queue[u] # None /\ parked'[u] # None)
                         /\ queue[u] # None => rows'[u] = queue[u]
  BY <1>1, <1>2, Facts, QueuedRows DEF Requests
<1>4. RowOfRunning' /\ Promises!Settle(wishes, Promises!Nothing)
  BY <1>2, <1>3, Facts, HandlerSettles
<1>5. \A u \in Targets : wishes[u] = IF u = t /\ Wanted[u] \in served THEN None ELSE Wanted[u]
  BY <1>1, <1>2, Facts, QueuedRows DEF WishesOf, Wanted
<1>6. wishes \in {Wanted, [Wanted EXCEPT ![t] = None]}
  BY <1>5 DEF WishesOf, Wanted
<1>7. wishes # Wanted => Wanted[t] \in {"Prefetch"} /\ slot.reason \notin {"Prefetch"}
  BY <1>5 DEF WishesOf, Wanted
<1>8. Running # Promises!Nothing
  BY <1>1, NothingIs, Facts
<1> HIDE DEF wishes
<1> QED
  BY <1>1, <1>4, <1>6, <1>7, <1>8 DEF Promises!Fetched

LEMMA FailsIsPutBack ==
    ASSUME RInv, HydrationFails
    PROVE  RowOfRunning' /\ Promises!PutBack
<1> DEFINE t == slot.target
           kind == IF queued[t] = None THEN slot.reason ELSE Merge(slot.reason, queued[t])
           queue == [queued EXCEPT ![t] = None]
           promised == [owed EXCEPT ![t] = @ \cup slot.serves]
           wishes == [Wanted EXCEPT ![t] = kind]
<1>1. /\ t \in Targets /\ slot.reason \in AllReasons /\ slot.job = "hydration"
      /\ Running = [page |-> t, kind |-> slot.reason]
      /\ parked[t] = None
  BY Facts DEF HydrationFails, RInv, RowOfRunning
<1>2. kind \in AllReasons /\ Merge(parked[t], kind) = kind
  BY <1>1, Facts, MergeKeepsStronger DEF Merge
<1>3. /\ parked' = [parked EXCEPT ![t] = kind]
      /\ rows' = [rows EXCEPT ![t] = kind]
      /\ MaybeStartNext(TRUE, asked, queue, promised)
  BY <1>2 DEF HydrationFails
<1>4. /\ Wanted[t] = None => kind = Running.kind
      /\ Wanted[t] # None => kind = Promises!Stronger(Running.kind, Wanted[t])
  <2>1. Wanted[t] = queued[t]
    BY <1>1 DEF Wanted
  <2> QED
    BY <1>1, <2>1, Facts, StrongerIsMerge
<1> HIDE DEF kind
<1>5. queue \in Requests /\ parked' \in Requests
  BY <1>2, <1>3, Facts DEF Requests
<1>6. \A u \in Targets : /\ ~(queue[u] # None /\ parked'[u] # None)
                         /\ queue[u] # None => rows'[u] = queue[u]
  BY <1>1, <1>3, Facts, QueuedRows DEF Requests
<1>7. wishes = WishesOf(queue, parked')
  BY <1>1, <1>3, Facts DEF Requests, WishesOf, Wanted
<1>8. Running # Promises!Nothing
  BY <1>1, NothingIs, Facts
<1> HIDE DEF queue, promised, wishes
<1>9. RowOfRunning' /\ Promises!Settle(wishes, Promises!Nothing)
  BY <1>3, <1>5, <1>6, <1>7, Facts, HandlerSettles
<1> QED
  BY <1>1, <1>2, <1>4, <1>8, <1>9 DEF Promises!PutBack, wishes

LEMMA CancelIsWithdraw ==
    ASSUME RInv, slot.job # "hydration", NEW S \in SUBSET Targets, NEW kept,
           CancelPrefetches(S, kept)
    PROVE  RowOfRunning' /\ Promises!Withdraw(S, {"Prefetch"})
<1> DEFINE queue == Without(queued, S, {"Prefetch"})
           wishes == [t \in Targets |-> IF t \in S /\ Wanted[t] \in {"Prefetch"} THEN None
                                       ELSE Wanted[t]]
<1>1. PICK promised : MaybeStartNext(TRUE, asked, queue, promised)
  BY DEF CancelPrefetches
<1>2. /\ queue \in Requests /\ parked' \in Requests
      /\ \A t \in Targets :
           /\ queue[t] = IF t \in S /\ queued[t] = "Prefetch" THEN None ELSE queued[t]
           /\ parked'[t] = IF t \in S /\ parked[t] = "Prefetch" THEN None ELSE parked[t]
  BY Facts DEF CancelPrefetches, Without, Requests
<1>3. \A t \in Targets : queue[t] # None => rows'[t] = rows[t]
  BY DEF CancelPrefetches
<1> HIDE DEF queue
<1>4. \A t \in Targets : /\ ~(queue[t] # None /\ parked'[t] # None)
                         /\ queue[t] # None => rows'[t] = queue[t]
  BY <1>2, <1>3, QueuedRows
<1>5. wishes = WishesOf(queue, parked')
  <2>1. \A t \in Targets : wishes[t] = IF queue[t] # None THEN queue[t] ELSE parked'[t]
    BY <1>2, Facts, QueuedRows DEF Wanted
  <2> QED
    BY <2>1 DEF WishesOf
<1>6. Running = Promises!Nothing
  BY Facts
<1> HIDE DEF wishes
<1>7. RowOfRunning' /\ Promises!Settle(wishes, Running)
  BY <1>1, <1>2, <1>4, <1>5, <1>6, Facts, HandlerSettles
<1> QED
  BY <1>7 DEF Promises!Withdraw, wishes

LEMMA MaterializeIsBrought ==
    ASSUME RInv, NEW t \in Targets, MaterializeEnds(t)
    PROVE  RowOfRunning' /\ Promises!Next
<1>1. slot.job # "hydration"
  BY DEF MaterializeEnds, Materialize
<1>2. CASE CancelPrefetches({t}, stubs)
  BY <1>1, <1>2, CancelIsWithdraw DEF Promises!Next
<1>3. CASE /\ MaybeStartNext(TRUE, asked, queued, owed)
           /\ UNCHANGED <<parked, due, rows, stubs>>
  BY <1>1, <1>3, Facts, OnlyStartsSettles DEF Promises!Next
<1>4. ASSUME parked' = [parked EXCEPT ![t] = None],
             rows' = [rows EXCEPT ![t] = None],
             MaybeStartNext(TRUE, asked, [queued EXCEPT ![t] = None], [owed EXCEPT ![t] = {}])
      PROVE  RowOfRunning' /\ Promises!Brought(t)
  <2> DEFINE queue == [queued EXCEPT ![t] = None]
             promised == [owed EXCEPT ![t] = {}]
             wishes == [Wanted EXCEPT ![t] = None]
  <2>1. queue \in Requests /\ parked' \in Requests
    BY <1>4, Facts DEF Requests
  <2>6. \A u \in Targets : /\ ~(queue[u] # None /\ parked'[u] # None)
                           /\ queue[u] # None => rows'[u] = queue[u]
    BY <1>4, Facts, QueuedRows DEF Requests
  <2>2. wishes = WishesOf(queue, parked')
    BY <1>4, Facts DEF Requests, WishesOf, Wanted
  <2>3. Running = Promises!Nothing
    BY <1>1, Facts
  <2>4. MaybeStartNext(TRUE, asked, queue, promised)
    BY <1>4
  <2> HIDE DEF queue, promised, wishes
  <2>5. RowOfRunning' /\ Promises!Settle(wishes, Promises!Nothing)
    BY <2>1, <2>2, <2>4, <2>6, Facts, HandlerSettles
  <2> QED
    BY <2>3, <2>5 DEF Promises!Brought, wishes
<1> QED
  BY <1>2, <1>3, <1>4 DEF MaterializeEnds, Promises!Next

LEMMA TickIsWithdraw ==
    ASSUME RInv, Tick
    PROVE  RowOfRunning' /\ Promises!Next
<1> PICK dropped \in SUBSET {t \in due : parked[t] \in FastForward} :
      LET queue == [t \in Targets |-> IF t \in due \ dropped THEN Merge(queued[t], parked[t])
                                      ELSE queued[t]]
      IN /\ rows' = [t \in Targets |-> IF t \in due \ dropped THEN queue[t] ELSE rows[t]]
         /\ MaybeStartNext(slot = Free, asked, queue,
                           [t \in Targets |-> IF t \in dropped THEN {} ELSE owed[t]])
  BY DEF Tick
<1> DEFINE queue == [t \in Targets |-> IF t \in due \ dropped THEN Merge(queued[t], parked[t])
                                       ELSE queued[t]]
           wishes == [t \in Targets |-> IF t \in dropped /\ Wanted[t] \in FastForward THEN None
                                        ELSE Wanted[t]]
<1>1. /\ \E promised : MaybeStartNext(slot = Free, asked, queue, promised)
      /\ parked' = [t \in Targets |-> IF t \in due THEN None ELSE parked[t]]
      /\ \A t \in due : parked[t] # None /\ queued[t] = None
      /\ dropped \subseteq Targets /\ due \subseteq Targets
  BY Facts, QueuedRows DEF Tick, RInv, Inv
<1>2. \A t \in Targets : queue[t] = IF t \in due \ dropped THEN parked[t] ELSE queued[t]
  BY <1>1 DEF Merge
<1>3. /\ queue \in Requests /\ parked' \in Requests
      /\ rows' = [t \in Targets |-> IF t \in due \ dropped THEN queue[t] ELSE rows[t]]
  BY <1>1, <1>2, Facts DEF Requests
<1> HIDE DEF queue
<1>4. \A t \in Targets : /\ ~(queue[t] # None /\ parked'[t] # None)
                         /\ queue[t] # None => rows'[t] = queue[t]
  BY <1>1, <1>2, <1>3, QueuedRows
<1>5. wishes = WishesOf(queue, parked')
  <2>1. \A t \in Targets : wishes[t] = IF queue[t] # None THEN queue[t] ELSE parked'[t]
    BY <1>1, <1>2, Facts, QueuedRows DEF Wanted
  <2> QED
    BY <2>1 DEF WishesOf
<1>6. slot.job = "hydration" =>
        /\ parked'[slot.target] = None
        /\ queue[slot.target] = None => rows'[slot.target] = slot.reason
  BY <1>1, <1>2, <1>3, Facts DEF RInv, RowOfRunning
<1>7. Running = IF slot = Free THEN Promises!Nothing ELSE Running
  BY NothingIs DEF Running, Free
<1> HIDE DEF wishes
<1>8. RowOfRunning' /\ Promises!Settle(wishes, Running)
  <2> DEFINE free == slot = Free
  <2> PICK promised : MaybeStartNext(free, asked, queue, promised)
    BY <1>1
  <2>1. ~free /\ slot.job = "hydration" =>
          /\ parked'[slot.target] = None
          /\ queue[slot.target] = None => rows'[slot.target] = slot.reason
    BY <1>6
  <2>2. Running = IF free THEN Promises!Nothing ELSE Running
    BY <1>7
  <2> HIDE DEF free
  <2> QED
    BY <1>3, <1>4, <1>5, <2>1, <2>2, Facts, HandlerSettles DEF free
<1>9. Promises!Withdraw(dropped, FastForward)
  BY <1>8 DEF Promises!Withdraw, wishes
<1> QED
  BY <1>1, <1>8, <1>9 DEF Promises!Next

LEMMA RestartIsRestart ==
    ASSUME RInv, Restart
    PROVE  RowOfRunning' /\ Promises!Restart
<1>1. queued' = rows /\ parked' = NoRequest /\ slot' = Free
  BY DEF Restart
<1>2. Running' = Promises!Nothing /\ RowOfRunning'
  BY <1>1, NothingIs DEF Running, Free, RowOfRunning
<1>3. Wanted' = rows
  BY <1>1, Facts DEF Wanted, NoRequest, Requests
<1>4. ASSUME NEW t \in Targets
      PROVE  IF Wanted[t] # None THEN Wanted'[t] = Wanted[t]
             ELSE IF Running # Promises!Nothing /\ Running.page = t
                  THEN Wanted'[t] = Running.kind
             ELSE Wanted'[t] \in FastForward \cup {None}
  <2>1. CASE Wanted[t] # None
    BY <1>3, <2>1, QueuedRows DEF Wanted
  <2>2. CASE Wanted[t] = None /\ Hydrating(t)
    <3>1. Running = [page |-> t, kind |-> slot.reason] /\ slot.reason \in AllReasons
      BY <2>2, Facts DEF Hydrating
    <3>2. queued[t] = None
      BY <2>2 DEF Wanted
    <3>3. rows[t] = slot.reason
      BY <2>2, <3>2 DEF RInv, RowOfRunning, Hydrating
    <3> QED
      BY <1>3, <2>2, <3>1, <3>3, NothingIs, Facts
  <2>3. CASE Wanted[t] = None /\ ~Hydrating(t)
    <3>1. rows[t] \in FastForward \cup {None}
      BY <2>3, QueuedRows DEF Wanted
    <3>2. ~(Running # Promises!Nothing /\ Running.page = t)
      BY <2>3, Facts DEF Hydrating
    <3> QED
      BY <1>3, <2>3, <3>1, <3>2
  <2> QED
    BY <2>1, <2>2, <2>3
<1> QED
  BY <1>2, <1>3, <1>4, Facts DEF Promises!Restart, Promises!Wishes, Requests

LEMMA StutterKeeps ==
    ASSUME RInv, UNCHANGED <<queued, parked, rows>>,
           slot' = slot \/ WorkerFinishes
    PROVE  RowOfRunning' /\ UNCHANGED <<Wanted, Running>>
<1>1. /\ slot'.job = slot.job
      /\ slot.job = "hydration" => slot'.target = slot.target /\ slot'.reason = slot.reason
  BY Facts DEF WorkerFinishes, Hydrations
<1> QED
  BY <1>1 DEF RInv, RowOfRunning, Wanted, Running

LEMMA StepKeeps ==
    ASSUME RInv, [Next]_vars
    PROVE  RowOfRunning' /\ [Promises!Next]_<<Wanted, Running>>
<1>1. ASSUME NEW t \in Targets, NEW reason \in Reasons, Accept(t, reason)
      PROVE  RowOfRunning' /\ Promises!Next
  BY <1>1, AcceptWants, HydrationAssumption DEF Promises!Next
<1>2. ASSUME NEW job \in ClientJobs, Ask(job)
      PROVE  RowOfRunning' /\ Promises!Next
  <2> DEFINE free == slot = Free
             waiting == asked \cup {job}
  <2>1. /\ waiting \in SUBSET ClientJobs
        /\ MaybeStartNext(free, waiting, queued, owed)
        /\ parked' = parked /\ rows' = rows
        /\ free => slot.job # "hydration"
    BY <1>2, Facts DEF Ask, Free
  <2> HIDE DEF waiting
  <2> QED
    BY <2>1, OnlyStartsSettles DEF Promises!Next
<1>3. CASE UNCHANGED vars \/ WorkerFinishes \/ \E t \in Targets : DeadlinePasses(t)
  <2>1. UNCHANGED <<queued, parked, rows>> /\ (slot' = slot \/ WorkerFinishes)
    BY <1>3 DEF vars, WorkerFinishes, DeadlinePasses
  <2> QED
    BY <2>1, StutterKeeps
<1>4. CASE PullEnds
  <2>1. slot.job # "hydration"
    BY <1>4 DEF PullEnds, Pull
  <2> PICK kept \in SUBSET stubs :
        \/ CancelPrefetches({t \in Targets \ kept : "Prefetch" \in {queued[t], parked[t]}}, kept)
        \/ MaybeStartNext(TRUE, asked, queued, owed) /\ UNCHANGED <<parked, due, rows>>
    BY <1>4 DEF PullEnds
  <2>2. CASE CancelPrefetches({t \in Targets \ kept : "Prefetch" \in {queued[t], parked[t]}}, kept)
    <3> DEFINE S == {t \in Targets \ kept : "Prefetch" \in {queued[t], parked[t]}}
    <3>1. S \in SUBSET Targets /\ CancelPrefetches(S, kept)
      BY <2>2
    <3> HIDE DEF S
    <3> QED
      BY <2>1, <3>1, CancelIsWithdraw DEF Promises!Next
  <2>3. CASE MaybeStartNext(TRUE, asked, queued, owed) /\ UNCHANGED <<parked, due, rows>>
    BY <2>1, <2>3, Facts, OnlyStartsSettles DEF Promises!Next
  <2> QED
    BY <2>2, <2>3
<1>5. CASE HydrationSucceeds \/ HydrationFails \/ Restart
  BY <1>5, SucceedsIsFetched, FailsIsPutBack, RestartIsRestart DEF Promises!Next
<1> QED
  BY <1>1, <1>2, <1>3, <1>4, <1>5, MaterializeIsBrought, TickIsWithdraw DEF Next

-----------------------------------------------------------------------------
(* The theorem *)

\* For any number of pages, requests, failures and restarts: the queue, the parking
\* lot and the rows of the daemon keep the promises of HydrationPromises.
THEOREM ImplementsPromises == Spec => KeepsPromises
<1>1. Init => RowOfRunning /\ Promises!Init
  BY NothingIs DEF Init, RowOfRunning, Promises!Init, Wanted, Running, Free, NoRequest
<1>2. Inv /\ RowOfRunning /\ [Next]_vars => RowOfRunning' /\ [Promises!Next]_<<Wanted, Running>>
  BY StepKeeps DEF RInv
<1> QED
  BY <1>1, <1>2, InvHolds, PTL DEF Spec, KeepsPromises, Promises!Spec, Promises!vars
=============================================================================
