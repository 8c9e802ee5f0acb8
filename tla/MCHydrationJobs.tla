--------------------------- MODULE MCHydrationJobs ---------------------------
(* Instances of HydrationJobs for the model checker. *)
EXTENDS HydrationJobs

CONSTANTS t1, t2
=============================================================================
