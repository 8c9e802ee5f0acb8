--------------------------- MODULE MCGenerationSync ---------------------------
(* Small instances of GenerationSync, and a user who gives the client room. *)
EXTENDS GenerationSync

CONSTANTS a, b, e1, e2

\* The user acts only while no delta is in hand and closes the file before the
\* client works; the client polls again and again.
Calm(crash) ==
    \/ Publish
    \/ task.pc = "idle" /\ ~ active /\ User
    \/ held = Closed /\ Sync
    \/ crash /\ Crash
Polls == SF_vars(held = Closed /\ Sync) /\ WF_vars(Close)

\* A crash at any step.
CalmSpec == Init /\ [][Calm(TRUE)]_vars /\ Polls

\* A crash at any step but between the outcome of an entry and the completion.
SparedSpec == Init /\ [][Calm(task.pc # "complete")]_vars /\ Polls

\* Every published delta is applied in the end, whatever crashes came in between:
\* what a sync did before a crash is recognised by the next one, which goes on.
DeltasLand == <>[](gen = Len(versions))
=============================================================================
