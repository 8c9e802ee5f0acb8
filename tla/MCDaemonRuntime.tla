--------------------------- MODULE MCDaemonRuntime ---------------------------
(* Instances of DaemonRuntime for the model checker. *)
EXTENDS DaemonRuntime

CONSTANTS
    c1, c2, e1,
    MaxExtras   \* bound: events, follow-up jobs, rate limits and refreshes together

Extras ==
    spent.events + spent.followUps + spent.limits + (MaxRefreshes - refreshes.left)

BoundedSpec == Init /\ [][Next /\ Extras' <= MaxExtras]_vars /\ Fairness
=============================================================================
