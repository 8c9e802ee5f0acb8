----------------------------- MODULE MCOutboxSend -----------------------------
(* Instances of OutboxSend for the model checker. *)
EXTENDS OutboxSend, TLC

CONSTANTS p1, p2, m1, m2, m3, d1

\* Paths and mails differ in nothing but their names.
Interchangeable == Permutations(Mails) \cup Permutations(Paths)
=============================================================================
