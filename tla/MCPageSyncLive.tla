--------------------------- MODULE MCPageSyncLive ---------------------------
(***************************************************************************)
(* PageSync under a patient user, for the liveness runs: whoever edits the *)
(* page pulls and pushes again and again, removes conflict markers, and    *)
(* does as a refused push says: "inspect or pull before pushing".          *)
(***************************************************************************)
EXTENDS PageSync

CONSTANTS b1, b2, v0, v1, v2

VARIABLE last   \* the job that was started last

liveVars == <<vars, last>>

Started == task.pc = "idle" /\ task'.pc # "idle"

\* A push follows a pull: the user does not repeat a refused push blindly.
LiveNext ==
    /\ Next
    /\ last' = IF ~Started THEN last
               ELSE IF task'.pc = "applying" THEN "push" ELSE "pull"
    /\ (Started /\ task'.pc = "applying") => last = "pull"

Running == task.pc # "idle" /\ (PushJob \/ PullJob \/ Accept)
Resolving == task.pc = "idle" /\ \E kept \in Bodies : Resolve(kept)

\* The daemon finishes what it runs, and the user keeps asking: a pull that runs
\* while markers are removed may write them again, so they are removed in the end
\* with no job running.
LiveSpec ==
    /\ Init /\ last = "none"
    /\ [][LiveNext]_liveVars
    /\ WF_liveVars(LiveNext /\ Running)
    /\ WF_liveVars(LiveNext /\ BeginPull)
    /\ SF_liveVars(LiveNext /\ BeginPush)
    /\ SF_liveVars(LiveNext /\ Resolving)

\* Every pending edit is pushed or resolved in the end: once people stop editing,
\* pulls and pushes bring the three trees of a page that still exists together.
TreesConverge ==
    <>[](remote.exists /\ file.exists => file = Document(shadow) /\ shadow = remote.body)
=============================================================================
