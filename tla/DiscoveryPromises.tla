-------------------------- MODULE DiscoveryPromises --------------------------
(***************************************************************************)
(* What a discovery transaction promises to whoever looks at the mount,    *)
(* however it is carried out: a page is at home, where the plan wants it,  *)
(* or on the way, and the transaction ends with every page in its old or   *)
(* every page in its new place, those that the user has changed excepted.  *)
(* It leaves the decision to somebody only if it was disturbed, asks for   *)
(* hydration before it is done, and takes no edit of the user away.  There *)
(* is no journal here, no recovery directory and no crash that it could    *)
(* notice: DiscoveryExecution implements this with them.                   *)
(***************************************************************************)
CONSTANTS
    Plans,      \* the sets of pages that a transaction may be about
    Edits

VARIABLES
    outcome,    \* what has become of the transaction
    untouched,  \* its pages that the user has not changed
    home,       \* those of them that are where they were before
    there,      \* those of them that are where the plan wants them
    kept,       \* the user's edits that are on disk
    excused,    \* whether somebody or something disturbed it
    hydrated    \* whether hydration has been asked for

vars == <<outcome, untouched, home, there, kept, excused, hydrated>>
pages == <<untouched, home, there>>

Init ==
    /\ outcome = "open" /\ untouched \in Plans /\ home = untouched /\ there = {}
    /\ kept = {} /\ excused \in BOOLEAN /\ hydrated = FALSE

\* Pages move as long as nothing is decided, and a disturbed transaction may give up.
Work ==
    /\ outcome \in {"open", "review"}
    /\ outcome' \in {outcome} \cup IF excused THEN {"review"} ELSE {}
    /\ home' \in SUBSET untouched /\ there' \in SUBSET untouched
    /\ UNCHANGED <<untouched, kept, excused, hydrated>>

\* All pages have arrived, as far as the transaction can know.
Commit ==
    /\ outcome = "open" /\ there = untouched
    /\ outcome' = "committed"
    /\ UNCHANGED <<pages, kept, excused, hydrated>>

\* All pages are back.
Abort ==
    /\ outcome \in {"open", "review"} /\ home = untouched
    /\ outcome' = "aborted"
    /\ UNCHANGED <<pages, kept, excused, hydrated>>

Hydrate ==
    /\ outcome = "committed" /\ hydrated' = TRUE
    /\ UNCHANGED <<outcome, pages, kept, excused>>

Finalize ==
    /\ outcome = "committed" /\ hydrated
    /\ outcome' = "finalized"
    /\ UNCHANGED <<pages, kept, excused, hydrated>>

\* The user types an edit or throws some away, and has changed a page or a new file.
Disturb ==
    /\ excused' = TRUE
    /\ untouched' \in {untouched} \cup {untouched \ {page} : page \in untouched}
    /\ home' = home \cap untouched' /\ there' = there \cap untouched'
    /\ kept' \in (SUBSET kept) \cup {kept \cup {e} : e \in Edits}
    /\ UNCHANGED <<outcome, hydrated>>

\* The daemon dies while it makes a new page.
Interrupt ==
    /\ outcome \in {"open", "review"} /\ excused' = TRUE
    /\ UNCHANGED <<outcome, pages, kept, hydrated>>

Next == Work \/ Commit \/ Abort \/ Hydrate \/ Finalize \/ Disturb \/ Interrupt

Spec == Init /\ [][Next]_vars
=============================================================================
