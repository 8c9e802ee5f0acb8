-------------------------- MODULE HydrationPromises --------------------------
(***************************************************************************)
(* What the hydration queue promises, whatever it is made of: a page is    *)
(* wanted for at most one reason, the strongest that anybody gave; one     *)
(* page at a time is fetched; and a wish goes away only because the page   *)
(* was fetched, because the page is there already, or because it was       *)
(* advice that nobody waits for.  There is no parking lot here, no table   *)
(* of rows and no tick: HydrationJobs implements this with them.           *)
(***************************************************************************)
EXTENDS Integers

CONSTANTS
    Pages,
    Kinds,     \* the reasons for which a page may be wanted
    Rank,      \* how strong each of them is, a number
    Ahead,     \* the reasons that fetch a page before anybody asks for it
    Advice,    \* the reasons that may be dropped when they no longer apply
    None       \* "not wanted"

VARIABLES
    wanted,    \* per page, the reason for which it is wanted, or None
    running    \* the page that is fetched, and the reason; None for both

vars == <<wanted, running>>

Fetch(p, kind) == [page |-> p, kind |-> kind]
Nothing == Fetch(None, None)

Wishes == [Pages -> Kinds \cup {None}]
Stronger(old, new) == IF old = None \/ Rank[new] > Rank[old] THEN new ELSE old

Init == wanted = [p \in Pages |-> None] /\ running = Nothing

\* With the wishes that a handler leaves, a free worker may start on one of them.
Settle(wishes, busy) ==
    \/ wanted' = wishes /\ running' = busy
    \/ /\ busy = Nothing
       /\ \E p \in Pages :
            /\ wishes[p] # None
            /\ running' = Fetch(p, wishes[p])
            /\ wanted' = [wishes EXCEPT ![p] = None]

\* Wanting a page again never makes it wanted less.
Want(p, kind) == Settle([wanted EXCEPT ![p] = Stronger(@, kind)], running)

\* A page has been fetched.  What was wanted of it meanwhile stays, unless that was
\* to fetch it ahead of time.
Fetched ==
    /\ running # Nothing
    /\ \E wishes \in {wanted, [wanted EXCEPT ![running.page] = None]} :
         /\ wishes # wanted => /\ wanted[running.page] \in Ahead
                               /\ running.kind \notin Ahead
         /\ Settle(wishes, Nothing)

\* A page could not be fetched: it is wanted as before, and as meanwhile.
PutBack ==
    /\ running # Nothing
    /\ \E kind \in Kinds :
         /\ \/ wanted[running.page] = None /\ kind = running.kind
            \/ wanted[running.page] # None /\ kind = Stronger(running.kind, wanted[running.page])
         /\ Settle([wanted EXCEPT ![running.page] = kind], Nothing)

\* Somebody else brought one page, or found pages of S there that were to be fetched
\* ahead of time.
Brought(p) == running = Nothing /\ Settle([wanted EXCEPT ![p] = None], Nothing)
Withdraw(S, kinds) ==
    Settle([p \in Pages |-> IF p \in S /\ wanted[p] \in kinds THEN None ELSE wanted[p]], running)

\* A new worker: what was wanted still is, and so is what was being fetched, unless
\* something else was wanted of that page; advice that was dropped may come back.
Restart ==
    /\ running' = Nothing
    /\ wanted' \in Wishes
    /\ \A p \in Pages :
         IF wanted[p] # None THEN wanted'[p] = wanted[p]
         ELSE IF running # Nothing /\ running.page = p THEN wanted'[p] = running.kind
         ELSE wanted'[p] \in Advice \cup {None}

Next ==
    \/ \E p \in Pages, kind \in Kinds : Want(p, kind)
    \/ Settle(wanted, running)
    \/ Fetched \/ PutBack
    \/ \E p \in Pages : Brought(p)
    \/ \E S \in SUBSET Pages, kinds \in {Ahead, Advice} : Withdraw(S, kinds)
    \/ Restart

Spec == Init /\ [][Next]_vars
=============================================================================
