------------------------------ MODULE MCLiveMode ------------------------------
(* Instances of LiveMode for the model checker. *)
EXTENDS LiveMode

CONSTANTS
    e1, e2, e3, o1,
    MaxActs     \* bound: what people do and what fails, weighed together

\* A remote edit goes with any two of the others, or with a push the user asks for; an
\* edit that is left for review goes with one of them, or with the remote edit.
Acts ==
    Cardinality(remote.body \cap Others) * (1 + spent.reviews) + Cardinality(typed \cap Reviewed)
        + 2 * (Cardinality(typed) + spent.failures + spent.coarse + spent.switches
                 + spent.reviews + spent.quits)

BoundedSpec == Init /\ [][Next /\ Acts' <= MaxActs]_vars /\ Fairness
=============================================================================
