--------------------------- MODULE PageSyncProofs ---------------------------
(***************************************************************************)
(* Safety of PageSync for every set of blocks and of values, and for every *)
(* bound on edits, failures, pushes and crashes.                           *)
(***************************************************************************)
EXTENDS PageSync, SequenceTheorems, TLAPS

-----------------------------------------------------------------------------
(* Types *)

\* A push that runs has its entry in the journal, and the operations it still has
\* to send are operations of that entry's plan: none of them writes "no value".
PushIsJournaled ==
    /\ task.pc \in PushSteps => Pushing > 0 /\ task.plan = journal[Pushing].plan
    /\ task.pc = "ops" => task.todo \subseteq Operations(task.plan)

TypeInv == TypeOK /\ PushIsJournaled

\* A body, a plan and a document are functions from blocks: the operators that
\* build documents stay inside the types.
LEMMA DocumentsAreTyped ==
    ASSUME NEW base \in Bodies, NEW local \in Bodies, NEW incoming \in Bodies
    PROVE  /\ Document(local) \in Documents
           /\ Merge(base, local, incoming) \in Documents
           /\ Hunk(local, incoming) \in Documents
BY DEF Document, Merge, Hunk, Documents, Files, Bodies

\* A step that rewrites the newest entry keeps the journal a journal.
LEMMA NewestEntryChanges ==
    ASSUME journal \in Seq(Entries), Pushing > 0, NEW entry \in Entries,
           journal' = [journal EXCEPT ![Pushing] = entry]
    PROVE  /\ journal' \in Seq(Entries)
           /\ Pushing' = Pushing
           /\ \A i \in 1..Len(journal) :
                 journal'[i] = IF i = Pushing THEN entry ELSE journal[i]
<1>1. Pushing \in 1..Len(journal)
  BY LenProperties DEF Pushing
<1> QED
  BY <1>1, ExceptSeq DEF Pushing

LEMMA SetStatusChanges ==
    ASSUME journal \in Seq(Entries), Pushing > 0, NEW status \in Statuses,
           SetStatus(status)
    PROVE  /\ journal' \in Seq(Entries)
           /\ Pushing' = Pushing
           /\ \A i \in 1..Len(journal) :
                 /\ journal'[i].plan = journal[i].plan
                 /\ journal'[i].effects = journal[i].effects
                 /\ journal'[i].status = IF i = Pushing THEN status ELSE journal[i].status
<1> DEFINE entry == [journal[Pushing] EXCEPT !.status = status]
<1>1. Pushing \in 1..Len(journal)
  BY LenProperties DEF Pushing
<1>2. journal[Pushing] \in Entries
  BY <1>1, ElementOfSeq
<1>3. /\ entry \in Entries
      /\ entry.plan = journal[Pushing].plan
      /\ entry.effects = journal[Pushing].effects
      /\ entry.status = status
  BY <1>2 DEF Entries
<1>4. journal' = [journal EXCEPT ![Pushing] = entry]
  BY DEF SetStatus
<1> HIDE DEF entry
<1>5. /\ journal' \in Seq(Entries)
      /\ Pushing' = Pushing
      /\ \A i \in 1..Len(journal) :
            journal'[i] = IF i = Pushing THEN entry ELSE journal[i]
  BY <1>3, <1>4, NewestEntryChanges
<1> QED
  BY <1>3, <1>5

\* A new entry goes to the end.
LEMMA AppendChanges ==
    ASSUME journal \in Seq(Entries), NEW entry \in Entries,
           journal' = Append(journal, entry)
    PROVE  /\ journal' \in Seq(Entries)
           /\ Pushing' = Pushing + 1
           /\ journal'[Pushing'] = entry
           /\ \A i \in 1..Len(journal) : journal'[i] = journal[i]
BY DEF Pushing

\* Spending from a budget that is not used up stays within its bound.
LEMMA SpendingStaysInBudget ==
    ASSUME spent \in Budgets, NEW budget, Spend(budget),
           \/ budget = "local" /\ spent.local < MaxLocalEdits
           \/ budget = "remote" /\ spent.remote < MaxRemoteEdits
           \/ budget = "touch" /\ spent.touch < MaxTouches
           \/ budget = "delete" /\ spent.delete < MaxDeletes
           \/ budget = "fail" /\ MayFail
           \/ budget = "crash" /\ spent.crash < MaxCrashes
    PROVE  spent' \in Budgets
<1>1. /\ MaxLocalEdits \in Nat /\ MaxRemoteEdits \in Nat /\ MaxTouches \in Nat
      /\ MaxDeletes \in Nat /\ MaxFailures \in Nat /\ MaxCrashes \in Nat
  BY PageSyncAssumption
<1> USE <1>1 DEF Spend, Budgets, MayFail
<1>2. CASE budget = "local" /\ spent.local < MaxLocalEdits
  BY <1>2
<1>3. CASE budget = "remote" /\ spent.remote < MaxRemoteEdits
  BY <1>3
<1>4. CASE budget = "touch" /\ spent.touch < MaxTouches
  BY <1>4
<1>5. CASE budget = "delete" /\ spent.delete < MaxDeletes
  BY <1>5
<1>6. CASE budget = "fail" /\ MayFail
  BY <1>6
<1>7. CASE budget = "crash" /\ spent.crash < MaxCrashes
  BY <1>7
<1> QED
  BY <1>2, <1>3, <1>4, <1>5, <1>6, <1>7

\* A change of one block, with or without a new version, keeps the remote page typed.
LEMMA RemoteStaysTyped ==
    ASSUME remote \in [body : Bodies, version : Nat, exists : BOOLEAN],
           NEW b \in Blocks, NEW v \in Values,
           NEW version \in {remote.version, remote.version + 1},
           remote' = [remote EXCEPT !.body[b] = v, !.version = version]
    PROVE  remote' \in [body : Bodies, version : Nat, exists : BOOLEAN]
<1>1. version \in Nat
  OBVIOUS
<1>2. [remote.body EXCEPT ![b] = v] \in Bodies
  BY DEF Bodies
<1> QED
  BY <1>1, <1>2

LEMMA TypeInit == Init => TypeInv
<1> SUFFICES ASSUME Init PROVE TypeInv
  OBVIOUS
<1> USE PageSyncAssumption
<1>1. BaseBody \in Bodies /\ NoPlan \in Plans
  BY DEF BaseBody, Bodies, NoPlan, Plans
<1>2. Document(BaseBody) \in Documents /\ Document(BaseBody) \in Files
  BY <1>1, DocumentsAreTyped DEF Documents
<1>3. task \in Tasks
  BY <1>1, <1>2 DEF Init, IdleTask, Tasks, Renders
<1>4. spent \in Budgets
  BY DEF Init, Budgets
<1> QED
  BY <1>1, <1>2, <1>3, <1>4
  DEF Init, TypeInv, TypeOK, PushIsJournaled, PushSteps, Entities, Plans, IdleTask, BaseBody

LEMMA TypeNext == TypeInv /\ [Next]_vars => TypeInv'
<1> SUFFICES ASSUME TypeInv, [Next]_vars PROVE TypeInv'
  OBVIOUS
<1> USE PageSyncAssumption
<1> USE DEF TypeInv, TypeOK, PushIsJournaled, PushSteps, PullSteps
<1>files. ASSUME NEW body \in Bodies
          PROVE  Document(body) \in Documents /\ Document(body) \in Files
  BY <1>files, DocumentsAreTyped DEF Documents
<1>idle. IdleTask \in Tasks
  BY DEF IdleTask, Tasks, Renders, BaseBody, NoPlan, Bodies, Plans, Document, Documents, Files
<1>1. ASSUME NEW b \in Blocks, NEW v \in Values, LocalEdit(b, v) PROVE TypeInv'
  BY <1>1, SpendingStaysInBudget DEF LocalEdit, Typing, Pending, Files, Bodies, Plans, Tasks, Pushing
<1>2. ASSUME NEW b \in Blocks, NEW v \in Values, RemoteEdit(b, v) PROVE TypeInv'
  <2>1. PICK version \in {remote.version, remote.version + 1} :
           remote' = [remote EXCEPT !.body[b] = v, !.version = version]
    BY <1>2 DEF RemoteEdit
  <2> QED
    BY <1>2, <2>1, RemoteStaysTyped, SpendingStaysInBudget
    DEF RemoteEdit, Pushing, Operations
<1>3. ASSUME NEW kept \in Bodies, Resolve(kept) PROVE TypeInv'
  BY <1>3, <1>files DEF Resolve, Typing, Pending, Bodies, Plans, Tasks, Pushing
<1>4. CASE RemoteTouch
  BY <1>4, SpendingStaysInBudget DEF RemoteTouch, Pushing, Operations
<1>5. CASE RemoteDelete
  BY <1>5, SpendingStaysInBudget DEF RemoteDelete, Pushing
<1>6. CASE BeginPush
  <2> DEFINE plan == PlanOf(file.ours)
             entry == [plan |-> plan, status |-> "Prepared", effects |-> FALSE]
  <2>1. plan \in Plans
    BY DEF PlanOf, Plans, Files, Bodies
  <2>2. entry \in Entries
    BY <2>1 DEF Entries, Statuses
  <2>3. journal' = Append(journal, entry)
    BY <1>6 DEF BeginPush
  <2>4. journal' \in Seq(Entries) /\ Pushing' > 0 /\ journal'[Pushing'] = entry
    BY <2>2, <2>3, AppendChanges DEF Pushing
  <2>5. task' \in Tasks /\ task'.pc = "applying" /\ task'.plan = plan
    BY <1>6, <1>idle, <2>1 DEF BeginPush, Tasks, Entities, IdleTask
  <2>6. entry.plan = plan
    OBVIOUS
  <2> HIDE DEF entry, plan
  <2> QED
    BY <1>6, <2>4, <2>5, <2>6 DEF BeginPush
<1>7. CASE MarkApplying
  <2>1. task' \in Tasks /\ task'.pc = "check" /\ task'.plan = task.plan
    BY <1>7 DEF MarkApplying, Goto, Tasks
  <2>2. /\ journal' \in Seq(Entries) /\ Pushing' = Pushing /\ Pushing > 0
        /\ journal'[Pushing].plan = journal[Pushing].plan
    BY <1>7, SetStatusChanges DEF MarkApplying, Statuses, Pushing
  <2> QED
    BY <1>7, <2>1, <2>2 DEF MarkApplying
<1>8. CASE CheckPasses
  BY <1>8 DEF CheckPasses, Goto, Tasks, Pushing
<1>9. CASE CheckRejects
  BY <1>9, <1>idle, SetStatusChanges, SpendingStaysInBudget DEF CheckRejects, EndJob, IdleTask, Statuses, MayFail
<1>10. CASE BeginApply
  BY <1>10 DEF BeginApply, Tasks, Operations, Pushing
<1>11. CASE ApplyRefuses
  BY <1>11, <1>idle, SetStatusChanges DEF ApplyRefuses, EndJob, IdleTask, Statuses
<1>12. ASSUME NEW b \in Blocks, task.pc = "ops", b \in task.todo, Mutate(b)
       PROVE  /\ remote' \in [body : Bodies, version : Nat, exists : BOOLEAN]
              /\ mine' \in Plans
              /\ landed' \in SUBSET (Nat \X Blocks)
  <2>1. task.plan[b] \in Values
    BY <1>12 DEF Operations, Plans, Tasks
  <2>2. Pushing \in Nat
    BY DEF Pushing
  <2>3. PICK version \in {remote.version, remote.version + 1} :
           remote' = [remote EXCEPT !.body[b] = task.plan[b], !.version = version]
    BY <1>12 DEF Mutate
  <2>4. remote' \in [body : Bodies, version : Nat, exists : BOOLEAN]
    BY <2>1, <2>3, RemoteStaysTyped
  <2>5. mine' \in Plans
    BY <1>12 DEF Mutate, Plans
  <2>6. landed' \in SUBSET (Nat \X Blocks)
    BY <1>12, <2>2 DEF Mutate
  <2> QED
    BY <2>4, <2>5, <2>6
<1>13. ASSUME NEW b \in Blocks, ApplyOperation(b) PROVE TypeInv'
  BY <1>12, <1>13 DEF ApplyOperation, Tasks, Pushing
<1>14. ASSUME NEW b \in Blocks, LoseAnswer(b) PROVE TypeInv'
  BY <1>12, <1>14, <1>idle, SetStatusChanges, SpendingStaysInBudget DEF LoseAnswer, EndJob, IdleTask, Statuses, MayFail
<1>15. CASE ApplyFails
  BY <1>15, <1>idle, SetStatusChanges, SpendingStaysInBudget DEF ApplyFails, EndJob, IdleTask, Statuses, MayFail
<1>16. CASE RecordEffects
  <2> DEFINE entry == [journal[Pushing] EXCEPT !.effects = TRUE]
  <2>1. Pushing > 0 /\ Pushing \in 1..Len(journal)
    BY <1>16, LenProperties DEF RecordEffects, Pushing
  <2>2. journal[Pushing] \in Entries
    BY <2>1, ElementOfSeq
  <2>3. entry \in Entries /\ entry.plan = journal[Pushing].plan
    BY <2>2 DEF Entries
  <2>4. journal' = [journal EXCEPT ![Pushing] = entry]
    BY <1>16 DEF RecordEffects
  <2> HIDE DEF entry
  <2>5. /\ journal' \in Seq(Entries) /\ Pushing' = Pushing
        /\ journal'[Pushing].plan = journal[Pushing].plan
    BY <2>1, <2>3, <2>4, NewestEntryChanges
  <2>6. task' \in Tasks /\ task'.pc = "applied" /\ task'.plan = task.plan
    BY <1>16 DEF RecordEffects, Goto, Tasks
  <2> QED
    BY <1>16, <2>1, <2>5, <2>6 DEF RecordEffects
<1>17. CASE RecordFails
  BY <1>17, <1>idle, SetStatusChanges, SpendingStaysInBudget
  DEF RecordFails, EndJob, IdleTask, Statuses, MayFail
<1>18. CASE MarkApplied
  <2>1. task' \in Tasks /\ task'.pc = "readback" /\ task'.plan = task.plan
    BY <1>18 DEF MarkApplied, Goto, Tasks
  <2>2. /\ journal' \in Seq(Entries) /\ Pushing' = Pushing /\ Pushing > 0
        /\ journal'[Pushing].plan = journal[Pushing].plan
    BY <1>18, SetStatusChanges DEF MarkApplied, Statuses, Pushing
  <2> QED
    BY <1>18, <2>1, <2>2 DEF MarkApplied
<1>19. CASE ReadBack
  BY <1>19, <1>files DEF ReadBack, Tasks, Renders, Pushing
<1>20. CASE ReconcileFails
  BY <1>20, <1>idle, SetStatusChanges, SpendingStaysInBudget
  DEF ReconcileFails, EndJob, IdleTask, Statuses, MayFail
<1>21. CASE MarkReconciled
  BY <1>21, <1>idle, SetStatusChanges DEF MarkReconciled, EndJob, IdleTask, Statuses
<1>22. CASE BeginPull
  BY <1>22, <1>idle DEF BeginPull, CanReplaceFile, Tasks, IdleTask
<1>23. CASE SkipFastForward
  BY <1>23 DEF SkipFastForward, MarkDirty, Entities, Pushing
<1>24. CASE FetchRender
  BY <1>24, <1>files DEF FetchRender, Tasks, Renders, Pushing
<1>25. CASE FetchFails
  BY <1>25, <1>idle, SpendingStaysInBudget DEF FetchFails, EndJob, IdleTask, MayFail
<1>26. CASE RemoteNotFound
  <2>1. task' \in Tasks /\ task'.pc \in {"remove", "idle"}
    BY <1>26, <1>idle DEF RemoteNotFound, Goto, EndJob, IdleTask, Tasks
  <2>2. entity' \in Entities
    BY <1>26 DEF RemoteNotFound, MarkDirty, Entities
  <2> QED
    BY <1>26, <2>1, <2>2 DEF RemoteNotFound
<1>27. CASE RemoveFile
  BY <1>27 DEF RemoveFile, Goto, Files, Tasks
<1>28. CASE DeleteEntity
  BY <1>28, <1>idle DEF DeleteEntity, EndJob, IdleTask, Entities
<1>29. CASE Decide
  <2>1. ASSUME NEW document \in Documents, task.pc = "decide", Write(document)
        PROVE  entity' \in Entities /\ task' \in Tasks /\ task'.pc = "pullFile"
    BY <2>1 DEF Write, Tasks
  <2>2. ASSUME NEW hydration \in {"Dirty", "Conflicted"}, MarkAndStop(hydration)
        PROVE  entity' \in Entities /\ task' \in Tasks /\ task'.pc = "idle"
    BY <2>2, <1>idle DEF MarkAndStop, EndJob, IdleTask, Entities
  <2>3. /\ Merge(shadow, file.ours, task.fetched.body) \in Documents
        /\ Hunk(file.ours, task.fetched.body) \in Documents
        /\ Document(file.ours) \in Documents
    BY DocumentsAreTyped DEF Files, Tasks, Renders
  <2>4. MarkDirty(entity.hydration) \in {"Dirty", "Conflicted"}
    BY DEF MarkDirty
  <2>5. entity' \in Entities /\ task' \in Tasks /\ task'.pc \in {"pullFile", "idle"}
    BY <1>29, <2>1, <2>2, <2>3, <2>4 DEF Decide
  <2> QED
    BY <1>29, <2>5 DEF Decide
<1>30. CASE WriteFile
  <2>1. file' \in Files /\ shown' \in [Blocks -> SUBSET Values]
    BY <1>30 DEF WriteFile, Tasks, Documents, Files, Bodies
  <2>2. task' \in Tasks /\ task'.pc \in {"pushShadow", "pullShadow"} /\ task'.plan = task.plan
        /\ (task'.pc = "pushShadow" => task.pc = "pushFile")
    BY <1>30 DEF WriteFile, Goto, Tasks
  <2> QED
    BY <1>30, <2>1, <2>2 DEF WriteFile, Pushing
<1>31. CASE SaveShadow
  <2>1. shadow' \in Bodies /\ mine' \in Plans
    BY <1>31 DEF SaveShadow, Tasks, Renders, Plans, Bodies
  <2>2. task' \in Tasks /\ task'.pc \in {"pushEntity", "pullEntity"} /\ task'.plan = task.plan
        /\ (task'.pc = "pushEntity" => task.pc = "pushShadow")
    BY <1>31 DEF SaveShadow, Goto, Tasks
  <2> QED
    BY <1>31, <2>1, <2>2 DEF SaveShadow, Pushing
<1>32. CASE SaveEntity
  <2>1. entity' \in Entities
    BY <1>32 DEF SaveEntity, AcceptedHydration, MarkDirty, Entities, Tasks, Renders
  <2>2. task' \in Tasks /\ task'.pc \in {"reconciled", "idle"} /\ task'.plan \in Plans
        /\ (task'.pc = "reconciled" => task.pc = "pushEntity" /\ task'.plan = task.plan)
    BY <1>32, <1>idle DEF SaveEntity, Goto, EndJob, IdleTask, Tasks
  <2> QED
    BY <1>32, <2>1, <2>2 DEF SaveEntity, Pushing
<1>33. CASE Crash
  BY <1>33, <1>idle, SpendingStaysInBudget DEF Crash, EndJob, IdleTask
<1>34. CASE UNCHANGED vars
  BY <1>34 DEF vars, Pushing, Operations
<1> QED
  BY <1>1, <1>2, <1>3, <1>4, <1>5, <1>6, <1>7, <1>8, <1>9, <1>10, <1>11, <1>13, <1>14,
     <1>15, <1>16, <1>17, <1>18, <1>19, <1>20, <1>21, <1>22, <1>23, <1>24, <1>25, <1>26,
     <1>27, <1>28, <1>29, <1>30, <1>31, <1>32, <1>33, <1>34
  DEF Next, People, PushJob, PullJob, Accept

\* Every variable keeps its type: no crash, failure or interleaving makes the plan
\* of a running push differ from the one it journaled, or leaves the accepted
\* documents outside the page's blocks and values.
THEOREM TypeCorrect == Spec => []TypeOK
<1>1. TypeInv => TypeOK
  BY DEF TypeInv
<1> QED
  BY TypeInit, TypeNext, <1>1, PTL DEF Spec

-----------------------------------------------------------------------------
(* The journal *)

\* Operations reach the source only on behalf of a journaled push.
LandedIsJournaled == \A e \in landed : e[1] \in 1..Len(journal)

\* What the newest entry and the history say at each step of a running push.
StepMatchesEntry ==
    /\ task.pc = "applying" => journal[Pushing].status = "Prepared"
    /\ task.pc \in {"check", "begin", "ops", "applied"} => journal[Pushing].status = "Applying"
    /\ task.pc \in {"applying", "check", "begin", "ops"} => ~journal[Pushing].effects
    /\ task.pc \in {"applying", "check", "begin"} => Reached(Pushing) = {}
    /\ task.pc = "ops" => Reached(Pushing) = Operations(task.plan) \ task.todo
    /\ task.pc \in PushSteps \ {"applying", "check", "begin", "ops"} =>
          Reached(Pushing) = Operations(task.plan)

JournalInv == LandedIsJournaled /\ StepMatchesEntry /\ JournalTellsTruth

\* A step that neither writes the journal nor reaches the source keeps what they
\* say, if it leaves a push where it is or starts none.
LEMMA JournalUntouched ==
    ASSUME JournalInv, journal' = journal, landed' = landed,
           \/ task'.pc \notin PushSteps
           \/ task'.pc = task.pc /\ task'.plan = task.plan /\ task'.todo = task.todo
    PROVE  JournalInv'
BY DEF JournalInv, LandedIsJournaled, StepMatchesEntry, JournalTellsTruth, PushSteps,
       Reached, Operations, Pushing

\* A status may be written that agrees with what the push has done so far.
LEMMA StatusAgrees ==
    ASSUME TypeInv, JournalInv, Pushing > 0, NEW status \in Statuses, SetStatus(status),
           landed' = landed,
           status \in {"Prepared", "Reverted"} => Reached(Pushing) = {},
           status \in {"Applied", "Reconciled"} =>
               Reached(Pushing) = Operations(journal[Pushing].plan)
    PROVE  /\ LandedIsJournaled' /\ JournalTellsTruth'
           /\ Pushing' = Pushing
           /\ journal'[Pushing].plan = journal[Pushing].plan
           /\ journal'[Pushing].effects = journal[Pushing].effects
           /\ journal'[Pushing].status = status
<1>1. /\ Pushing \in 1..Len(journal) /\ Pushing' = Pushing
      /\ \A i \in 1..Len(journal) :
            /\ journal'[i].plan = journal[i].plan
            /\ journal'[i].effects = journal[i].effects
            /\ journal'[i].status = IF i = Pushing THEN status ELSE journal[i].status
  BY SetStatusChanges, LenProperties DEF TypeInv, TypeOK, Pushing
<1>2. Len(journal') = Len(journal)
  BY <1>1 DEF Pushing
<1>3. LandedIsJournaled'
  BY <1>2 DEF JournalInv, LandedIsJournaled
<1>4. JournalTellsTruth'
  BY <1>1, <1>2 DEF JournalInv, JournalTellsTruth, Reached, Operations
<1> QED
  BY <1>1, <1>3, <1>4

\* The operation of a push that is under way reaches the source.
LEMMA MutationAgrees ==
    ASSUME TypeInv, JournalInv, Pushing > 0, NEW b \in Blocks,
           task.pc = "ops", b \in task.todo, landed' = landed \cup {<<Pushing, b>>},
           journal' = journal \/ SetStatus("Failed")
    PROVE  /\ LandedIsJournaled' /\ JournalTellsTruth'
           /\ Pushing' = Pushing
           /\ Reached(Pushing)' = Reached(Pushing) \cup {b}
<1>1. /\ Pushing \in 1..Len(journal) /\ Pushing' = Pushing
      /\ \A i \in 1..Len(journal) :
            /\ journal'[i].plan = journal[i].plan
            /\ journal'[i].effects = journal[i].effects
            /\ journal'[i].status \in {journal[i].status, "Failed"}
            /\ i # Pushing => journal'[i].status = journal[i].status
  <2>1. Pushing \in 1..Len(journal)
    BY LenProperties DEF TypeInv, TypeOK, Pushing
  <2>2. CASE journal' = journal
    BY <2>1, <2>2 DEF Pushing
  <2>3. CASE SetStatus("Failed")
    <3>1. journal \in Seq(Entries) /\ "Failed" \in Statuses
      BY DEF TypeInv, TypeOK, Statuses
    <3> QED
      BY <2>1, <2>3, <3>1, SetStatusChanges
  <2> QED
    BY <2>2, <2>3
<1>2. Len(journal') = Len(journal)
  BY <1>1 DEF Pushing
<1>3. LandedIsJournaled'
  BY <1>1, <1>2 DEF JournalInv, LandedIsJournaled
<1>4. /\ \A i \in 1..Len(journal) : i # Pushing => Reached(i)' = Reached(i)
      /\ Reached(Pushing)' = Reached(Pushing) \cup {b}
  BY <1>1 DEF Reached
<1>5. /\ journal[Pushing].status = "Applying" /\ ~journal[Pushing].effects
      /\ b \in Operations(journal[Pushing].plan)
  BY DEF JournalInv, StepMatchesEntry, TypeInv, PushIsJournaled, PushSteps
<1>6. JournalTellsTruth'
  BY <1>1, <1>2, <1>4, <1>5 DEF JournalInv, JournalTellsTruth, Operations
<1> QED
  BY <1>1, <1>3, <1>4, <1>6

LEMMA JournalInit == Init => JournalInv
BY DEF Init, JournalInv, LandedIsJournaled, StepMatchesEntry, JournalTellsTruth, IdleTask,
       PushSteps

LEMMA JournalNext == TypeInv /\ JournalInv /\ [Next]_vars => JournalInv'
<1> SUFFICES ASSUME TypeInv, JournalInv, [Next]_vars PROVE JournalInv'
  OBVIOUS
<1>pushing. task.pc \in PushSteps => /\ Pushing > 0
                                    /\ task.plan = journal[Pushing].plan
                                    /\ task \in Tasks
  BY DEF TypeInv, TypeOK, PushIsJournaled
<1>idle. EndJob => task'.pc \notin PushSteps
  BY DEF EndJob, IdleTask, PushSteps
<1>1. ASSUME NEW b \in Blocks, NEW v \in Values, LocalEdit(b, v) PROVE JournalInv'
  BY <1>1, JournalUntouched DEF LocalEdit, Typing, TypeInv, TypeOK, Tasks
<1>2. ASSUME NEW b \in Blocks, NEW v \in Values, RemoteEdit(b, v) PROVE JournalInv'
  BY <1>2, JournalUntouched DEF RemoteEdit
<1>3. ASSUME NEW kept \in Bodies, Resolve(kept) PROVE JournalInv'
  BY <1>3, JournalUntouched DEF Resolve, Typing, TypeInv, TypeOK, Tasks
<1>4. CASE RemoteTouch \/ RemoteDelete
  BY <1>4, JournalUntouched DEF RemoteTouch, RemoteDelete
<1>5. CASE BeginPush
  <2> DEFINE entry == [plan |-> PlanOf(file.ours), status |-> "Prepared", effects |-> FALSE]
  <2>1. /\ journal' = Append(journal, entry) /\ landed' = landed
        /\ task'.pc = "applying"
    BY <1>5 DEF BeginPush, IdleTask
  <2>2. /\ Len(journal') = Len(journal) + 1
        /\ journal'[Len(journal) + 1] = entry
        /\ \A i \in 1..Len(journal) : journal'[i] = journal[i]
        /\ Len(journal) \in Nat
    BY <2>1 DEF TypeInv, TypeOK
  <2>3. LandedIsJournaled'
    BY <2>1, <2>2 DEF JournalInv, LandedIsJournaled
  <2>4. Reached(Len(journal) + 1) = {}
    BY <2>2 DEF JournalInv, LandedIsJournaled, Reached
  <2>5. entry.status = "Prepared" /\ ~entry.effects
    OBVIOUS
  <2> HIDE DEF entry
  <2>6. JournalTellsTruth'
    BY <2>1, <2>2, <2>4, <2>5 DEF JournalInv, JournalTellsTruth, Reached, Operations
  <2>7. StepMatchesEntry'
    BY <2>1, <2>2, <2>4, <2>5 DEF StepMatchesEntry, Reached, Pushing, PushSteps
  <2> QED
    BY <2>3, <2>6, <2>7 DEF JournalInv
<1>6. CASE MarkApplying
  <2>1. /\ SetStatus("Applying") /\ landed' = landed
        /\ task.pc = "applying" /\ task'.pc = "check" /\ task'.plan = task.plan
    BY <1>6, <1>pushing DEF MarkApplying, Goto, Tasks, PushSteps
  <2>2. /\ LandedIsJournaled' /\ JournalTellsTruth' /\ Pushing' = Pushing
        /\ journal'[Pushing].status = "Applying" /\ ~journal'[Pushing].effects
    BY <2>1, <1>pushing, StatusAgrees DEF Statuses, PushSteps, JournalInv, StepMatchesEntry
  <2> QED
    BY <2>1, <2>2 DEF JournalInv, StepMatchesEntry, Reached, PushSteps
<1>7. CASE CheckPasses
  BY <1>7, <1>pushing
  DEF CheckPasses, Goto, Tasks, PushSteps, JournalInv, StepMatchesEntry, JournalTellsTruth,
      LandedIsJournaled, Reached, Operations, Pushing
<1>8. CASE CheckRejects
  BY <1>8, <1>pushing, <1>idle, StatusAgrees
  DEF CheckRejects, Statuses, PushSteps, JournalInv, StepMatchesEntry
<1>9. CASE BeginApply
  BY <1>9, <1>pushing
  DEF BeginApply, Tasks, PushSteps, JournalInv, StepMatchesEntry, JournalTellsTruth,
      LandedIsJournaled, Reached, Operations, Pushing
<1>10. CASE ApplyRefuses
  BY <1>10, <1>pushing, <1>idle, StatusAgrees
  DEF ApplyRefuses, Statuses, PushSteps, JournalInv, StepMatchesEntry
<1>11. ASSUME NEW b \in Blocks, ApplyOperation(b) PROVE JournalInv'
  <2>1. /\ task.pc = "ops" /\ b \in task.todo /\ journal' = journal
        /\ landed' = landed \cup {<<Pushing, b>>}
        /\ task'.pc = "ops" /\ task'.plan = task.plan /\ task'.todo = task.todo \ {b}
        /\ task.todo \subseteq Operations(task.plan)
    BY <1>11, <1>pushing DEF ApplyOperation, Mutate, Tasks, PushSteps, TypeInv, PushIsJournaled
  <2>2. /\ LandedIsJournaled' /\ JournalTellsTruth' /\ Pushing' = Pushing
        /\ Reached(Pushing)' = Reached(Pushing) \cup {b}
    BY <2>1, <1>pushing, MutationAgrees DEF PushSteps
  <2>3. Reached(Pushing)' = Operations(task.plan) \ task'.todo
    BY <2>1, <2>2 DEF JournalInv, StepMatchesEntry
  <2> QED
    BY <2>1, <2>2, <2>3 DEF JournalInv, StepMatchesEntry, PushSteps, Operations
<1>12. ASSUME NEW b \in Blocks, LoseAnswer(b) PROVE JournalInv'
  <2>1. /\ task.pc = "ops" /\ b \in task.todo /\ SetStatus("Failed")
        /\ landed' = landed \cup {<<Pushing, b>>} /\ task'.pc \notin PushSteps
    BY <1>12, <1>idle DEF LoseAnswer, Mutate
  <2>2. LandedIsJournaled' /\ JournalTellsTruth'
    BY <2>1, <1>pushing, MutationAgrees DEF PushSteps
  <2> QED
    BY <2>1, <2>2 DEF JournalInv, StepMatchesEntry, PushSteps
<1>13. CASE ApplyFails \/ RecordFails
  BY <1>13, <1>pushing, <1>idle, StatusAgrees
  DEF ApplyFails, RecordFails, Statuses, PushSteps, JournalInv, StepMatchesEntry
<1>14. CASE RecordEffects
  <2> DEFINE entry == [journal[Pushing] EXCEPT !.effects = TRUE]
  <2>1. /\ journal' = [journal EXCEPT ![Pushing] = entry] /\ landed' = landed
        /\ task.pc = "ops" /\ task.todo = {} /\ task'.pc = "applied" /\ task'.plan = task.plan
    BY <1>14, <1>pushing DEF RecordEffects, Goto, Tasks, PushSteps
  <2>2. Pushing > 0 /\ Pushing \in 1..Len(journal) /\ journal \in Seq(Entries)
    BY <2>1, <1>pushing, LenProperties DEF Pushing, PushSteps, TypeInv, TypeOK
  <2>3. journal[Pushing] \in Entries
    BY <2>2, ElementOfSeq
  <2>4. /\ entry \in Entries /\ entry.plan = journal[Pushing].plan /\ entry.effects = TRUE
        /\ entry.status = journal[Pushing].status
    BY <2>3 DEF Entries
  <2> HIDE DEF entry
  <2>5. /\ Len(journal') = Len(journal)
        /\ \A i \in 1..Len(journal) : journal'[i] = IF i = Pushing THEN entry ELSE journal[i]
    BY <2>1, <2>2, <2>4, NewestEntryChanges DEF Pushing
  <2>6. /\ journal[Pushing].status = "Applying"
        /\ Reached(Pushing) = Operations(task.plan) /\ task.plan = journal[Pushing].plan
    BY <2>1, <1>pushing DEF JournalInv, StepMatchesEntry, PushSteps
  <2>7. LandedIsJournaled' /\ JournalTellsTruth'
    BY <2>1, <2>2, <2>4, <2>5, <2>6
    DEF JournalInv, LandedIsJournaled, JournalTellsTruth, Reached, Operations
  <2>8. StepMatchesEntry'
    BY <2>1, <2>2, <2>4, <2>5, <2>6 DEF StepMatchesEntry, Reached, Operations, Pushing, PushSteps
  <2> QED
    BY <2>7, <2>8 DEF JournalInv
<1>15. CASE MarkApplied
  <2>1. /\ SetStatus("Applied") /\ landed' = landed
        /\ task.pc = "applied" /\ task'.pc = "readback" /\ task'.plan = task.plan
    BY <1>15, <1>pushing DEF MarkApplied, Goto, Tasks, PushSteps
  <2>2. Reached(Pushing) = Operations(task.plan) /\ task.plan = journal[Pushing].plan
    BY <2>1, <1>pushing DEF JournalInv, StepMatchesEntry, PushSteps
  <2>3. LandedIsJournaled' /\ JournalTellsTruth' /\ Pushing' = Pushing
    BY <2>1, <2>2, <1>pushing, StatusAgrees DEF Statuses, PushSteps
  <2> QED
    BY <2>1, <2>2, <2>3 DEF JournalInv, StepMatchesEntry, Reached, Operations, PushSteps
<1>16. CASE ReadBack
  BY <1>16, <1>pushing
  DEF ReadBack, Tasks, PushSteps, JournalInv, StepMatchesEntry, JournalTellsTruth,
      LandedIsJournaled, Reached, Operations, Pushing
<1>17. CASE ReconcileFails
  BY <1>17, <1>pushing, <1>idle, StatusAgrees
  DEF ReconcileFails, Statuses, PushSteps, JournalInv, StepMatchesEntry
<1>18. CASE MarkReconciled
  <2>1. /\ SetStatus("Reconciled") /\ landed' = landed
        /\ task.pc = "reconciled" /\ task'.pc \notin PushSteps
        /\ Reached(Pushing) = Operations(journal[Pushing].plan)
    BY <1>18, <1>pushing, <1>idle DEF MarkReconciled, PushSteps, JournalInv, StepMatchesEntry
  <2> QED
    BY <2>1, <1>18, <1>pushing, StatusAgrees
    DEF MarkReconciled, Statuses, PushSteps, JournalInv, StepMatchesEntry
<1>19. CASE BeginPull \/ FetchRender \/ FetchFails \/ RemoteNotFound \/ RemoveFile \/ DeleteEntity
  <2>1. task \in Tasks
    BY DEF TypeInv, TypeOK
  <2>2. task'.pc \notin PushSteps
    <3>1. CASE BeginPull
      BY <3>1 DEF BeginPull, IdleTask, PushSteps
    <3>2. CASE FetchRender
      BY <3>2, <2>1 DEF FetchRender, Tasks, PushSteps
    <3>3. CASE FetchFails \/ DeleteEntity
      BY <3>3, <1>idle DEF FetchFails, DeleteEntity
    <3>4. CASE RemoteNotFound \/ RemoveFile
      BY <3>4, <2>1, <1>idle DEF RemoteNotFound, RemoveFile, Goto, Tasks, PushSteps
    <3> QED
      BY <1>19, <3>1, <3>2, <3>3, <3>4
  <2>3. journal' = journal /\ landed' = landed
    BY <1>19
    DEF BeginPull, FetchRender, FetchFails, RemoteNotFound, RemoveFile, DeleteEntity
  <2> QED
    BY <2>2, <2>3, JournalUntouched
<1>20. CASE SkipFastForward
  BY <1>20, JournalUntouched DEF SkipFastForward
<1>21. CASE Decide
  BY <1>21, <1>idle, JournalUntouched
  DEF Decide, Write, MarkAndStop, Tasks, TypeInv, TypeOK, PushSteps
<1>22. CASE WriteFile \/ SaveShadow \/ SaveEntity
  <2>1. /\ journal' = journal /\ landed' = landed
        /\ \/ task'.pc \notin PushSteps
           \/ /\ {task.pc, task'.pc} \subseteq PushSteps \ {"applying", "check", "begin", "ops", "applied"}
              /\ task'.plan = task.plan
    BY <1>22, <1>idle
    DEF WriteFile, SaveShadow, SaveEntity, Goto, Tasks, TypeInv, TypeOK, PushSteps
  <2> QED
    BY <2>1 DEF JournalInv, StepMatchesEntry, JournalTellsTruth, LandedIsJournaled, Reached,
                Operations, Pushing, PushSteps
<1>23. CASE Crash
  BY <1>23, <1>idle, JournalUntouched DEF Crash
<1>24. CASE UNCHANGED vars
  BY <1>24, JournalUntouched DEF vars
<1> QED
  BY <1>1, <1>2, <1>3, <1>4, <1>5, <1>6, <1>7, <1>8, <1>9, <1>10, <1>11, <1>12, <1>13,
     <1>14, <1>15, <1>16, <1>17, <1>18, <1>19, <1>20, <1>21, <1>22, <1>23, <1>24
  DEF Next, People, PushJob, PullJob, Accept

\* At every moment, and so after every crash and every failed call, the journal says
\* of each push what really reached the source.
THEOREM JournalIsTruthful == Spec => []JournalTellsTruth
<1>1. Init => TypeInv /\ JournalInv
  BY TypeInit, JournalInit
<1>2. TypeInv /\ JournalInv /\ [Next]_vars => (TypeInv /\ JournalInv)'
  BY TypeNext, JournalNext
<1>3. TypeInv /\ JournalInv => JournalTellsTruth
  BY DEF JournalInv
<1> QED
  BY <1>1, <1>2, <1>3, PTL DEF Spec

-----------------------------------------------------------------------------
(* What a push may overwrite *)

\* The Synced Tree never runs ahead of what the file has shown, because a render is
\* written to the file before it becomes the shadow.
ShadowWasShown == \A b \in Blocks : shadow[b] \in shown[b]

\* A render on its way to the shadow is in the document about to be written, or
\* has been shown.
RenderIsShown ==
    /\ task.pc \in {"pushFile", "pullFile"} =>
          \A b \in Blocks : task.fetched.body[b] \in
              shown[b] \cup {task.out.ours[b], task.out.theirs[b]}
    /\ task.pc \in {"pushShadow", "pullShadow"} =>
          \A b \in Blocks : task.fetched.body[b] \in shown[b]

\* From the comparison of the bodies on, a block that nobody edited remotely and
\* that the push has not sent yet still has the shadow's value.
CheckStillHolds ==
    task.pc \in {"begin", "ops"} =>
        \A b \in Blocks : \/ b \in late \/ <<Pushing, b>> \in landed
                          \/ remote.body[b] = shadow[b]

ShownInv == ShadowWasShown /\ RenderIsShown /\ CheckStillHolds

LEMMA ShownInit == Init => ShownInv
BY DEF Init, ShownInv, ShadowWasShown, RenderIsShown, CheckStillHolds, BaseBody, IdleTask

\* Only three kinds of steps have a bearing on it.
LEMMA ShownUntouched ==
    ASSUME ShownInv, TypeInv, shadow' = shadow, shown' = shown, landed' = landed,
           remote' = remote, late' = late, Pushing' = Pushing,
           \/ task'.pc = task.pc /\ task'.fetched = task.fetched /\ task'.out = task.out
           \/ task'.pc \notin {"pushFile", "pullFile", "pushShadow", "pullShadow", "begin", "ops"}
    PROVE  ShownInv'
BY DEF ShownInv, ShadowWasShown, RenderIsShown, CheckStillHolds

LEMMA ShownNext == TypeInv /\ ShownInv /\ [Next]_vars => ShownInv'
<1> SUFFICES ASSUME TypeInv, ShownInv, [Next]_vars PROVE ShownInv'
  OBVIOUS
<1>types. /\ task \in Tasks /\ file \in Files /\ shadow \in Bodies
          /\ shown \in [Blocks -> SUBSET Values] /\ remote.body \in Bodies
          /\ remote \in [body : Bodies, version : Nat, exists : BOOLEAN]
          /\ journal \in Seq(Entries)
  BY DEF TypeInv, TypeOK
<1>pushing. /\ task.pc \in PushSteps => Pushing > 0
            /\ \A status \in Statuses : Pushing > 0 /\ SetStatus(status) => Pushing' = Pushing
  BY <1>types, SetStatusChanges DEF TypeInv, PushIsJournaled
<1>idle. EndJob => task'.pc = "idle"
  BY DEF EndJob, IdleTask
<1> USE DEF PushSteps
<1>1. ASSUME NEW b \in Blocks, NEW v \in Values, LocalEdit(b, v) PROVE ShownInv'
  BY <1>1, <1>types, ShownUntouched DEF LocalEdit, Typing, Tasks, Pushing
<1>2. ASSUME NEW b \in Blocks, NEW v \in Values, RemoteEdit(b, v) PROVE ShownInv'
  <2>1. PICK version \in {remote.version, remote.version + 1} :
           remote' = [remote EXCEPT !.body[b] = v, !.version = version]
    BY <1>2 DEF RemoteEdit
  <2>2. \A c \in Blocks : c # b => remote'.body[c] = remote.body[c]
    BY <2>1, <1>types DEF Bodies
  <2> QED
    BY <1>2, <2>2
    DEF RemoteEdit, ShownInv, ShadowWasShown, RenderIsShown, CheckStillHolds, Pushing
<1>3. ASSUME NEW kept \in Bodies, Resolve(kept) PROVE ShownInv'
  BY <1>3, <1>types, ShownUntouched DEF Resolve, Typing, Tasks, Pushing
<1>4. CASE RemoteTouch \/ RemoteDelete
  <2>1. remote'.body = remote.body
    BY <1>4, <1>types DEF RemoteTouch, RemoteDelete
  <2> QED
    BY <1>4, <2>1
    DEF RemoteTouch, RemoteDelete, ShownInv, ShadowWasShown, RenderIsShown, CheckStillHolds, Pushing
<1>5. CASE BeginPush
  <2>1. task'.pc = "applying"
    BY <1>5 DEF BeginPush, IdleTask
  <2> QED
    BY <1>5, <2>1 DEF BeginPush, ShownInv, ShadowWasShown, RenderIsShown, CheckStillHolds
<1>6. CASE MarkApplying \/ MarkApplied
  <2>1. task'.pc \in {"check", "readback"}
    BY <1>6, <1>types DEF MarkApplying, MarkApplied, Goto, Tasks
  <2> QED
    BY <1>6, <2>1, <1>pushing, ShownUntouched DEF MarkApplying, MarkApplied, Statuses
<1>7. CASE CheckPasses
  <2>1. task'.pc = "begin" /\ remote.body = shadow
    BY <1>7, <1>types DEF CheckPasses, RemoteIsSynced, Goto, Tasks
  <2> QED
    BY <1>7, <2>1 DEF CheckPasses, ShownInv, ShadowWasShown, RenderIsShown, CheckStillHolds
<1>8. CASE CheckRejects \/ ApplyRefuses \/ ApplyFails \/ RecordFails \/ ReconcileFails \/ MarkReconciled
  BY <1>8, <1>pushing, <1>idle, ShownUntouched
  DEF CheckRejects, ApplyRefuses, ApplyFails, RecordFails, ReconcileFails, MarkReconciled, Statuses
<1>9. CASE BeginApply
  <2>1. task'.pc = "ops" /\ task.pc = "begin"
    BY <1>9, <1>types DEF BeginApply, Tasks
  <2> QED
    BY <1>9, <2>1
    DEF BeginApply, ShownInv, ShadowWasShown, RenderIsShown, CheckStillHolds, Pushing
<1>10. ASSUME NEW b \in Blocks, ApplyOperation(b) PROVE ShownInv'
  <2>1. PICK version \in {remote.version, remote.version + 1} :
           remote' = [remote EXCEPT !.body[b] = task.plan[b], !.version = version]
    BY <1>10 DEF ApplyOperation, Mutate
  <2>2. \A c \in Blocks : c # b => remote'.body[c] = remote.body[c]
    BY <2>1, <1>types DEF Bodies
  <2>3. task.pc = "ops" /\ task'.pc = "ops" /\ landed' = landed \cup {<<Pushing, b>>}
    BY <1>10, <1>types DEF ApplyOperation, Mutate, Tasks
  <2> QED
    BY <1>10, <2>2, <2>3
    DEF ApplyOperation, ShownInv, ShadowWasShown, RenderIsShown, CheckStillHolds, Pushing
<1>11. ASSUME NEW b \in Blocks, LoseAnswer(b) PROVE ShownInv'
  BY <1>11, <1>idle
  DEF LoseAnswer, ShownInv, ShadowWasShown, RenderIsShown, CheckStillHolds
<1>12. CASE RecordEffects
  <2>1. task'.pc = "applied"
    BY <1>12, <1>types DEF RecordEffects, Goto, Tasks
  <2> QED
    BY <1>12, <2>1
    DEF RecordEffects, ShownInv, ShadowWasShown, RenderIsShown, CheckStillHolds
<1>13. CASE ReadBack \/ FetchRender
  <2>1. /\ task'.pc \in {"pushFile", "pullFile", "decide"}
        /\ task'.fetched.body = remote.body /\ task'.out = Document(remote.body)
    <3>1. CASE ReadBack
      BY <3>1, <1>types DEF ReadBack, Tasks
    <3>2. CASE FetchRender
      BY <3>2, <1>types DEF FetchRender, Tasks
    <3> QED
      BY <1>13, <3>1, <3>2
  <2>2. \A b \in Blocks : task'.fetched.body[b] = task'.out.ours[b]
    BY <2>1 DEF Document
  <2> QED
    BY <1>13, <2>1, <2>2
    DEF ReadBack, FetchRender, ShownInv, ShadowWasShown, RenderIsShown, CheckStillHolds
<1>14. CASE BeginPull \/ RemoteNotFound \/ RemoveFile
  <2>1. task'.pc \in {"render", "idle", "remove", "untrack"}
    BY <1>14, <1>types, <1>idle DEF BeginPull, RemoteNotFound, RemoveFile, Goto, IdleTask, Tasks
  <2> QED
    BY <1>14, <2>1, ShownUntouched DEF BeginPull, RemoteNotFound, RemoveFile, Pushing
<1>15. CASE SkipFastForward \/ FetchFails \/ DeleteEntity \/ Crash
  BY <1>15, <1>idle, ShownUntouched DEF SkipFastForward, FetchFails, DeleteEntity, Crash, Pushing
<1>16. CASE Decide
  <2> DEFINE incoming == task.fetched.body
  <2>1. ASSUME NEW document, Write(document),
               \A b \in Blocks : incoming[b] \in shown[b] \cup {document.ours[b], document.theirs[b]}
        PROVE  ShownInv'
    <3>1. /\ task'.pc = "pullFile" /\ task'.fetched = task.fetched /\ task'.out = document
      BY <2>1, <1>types DEF Write, Tasks
    <3> QED
      BY <1>16, <2>1, <3>1
      DEF Decide, ShownInv, ShadowWasShown, RenderIsShown, CheckStillHolds
  <2>2. ASSUME NEW hydration, MarkAndStop(hydration) PROVE ShownInv'
    BY <1>16, <2>2, <1>idle, ShownUntouched DEF Decide, MarkAndStop, Pushing
  <2>3. \A b \in Blocks : incoming[b] \in
           shown[b] \cup {Merge(shadow, file.ours, incoming).ours[b],
                         Merge(shadow, file.ours, incoming).theirs[b]}
    BY DEF Merge, ShownInv, ShadowWasShown
  <2>4. \A b \in Blocks : incoming[b] = Hunk(file.ours, incoming).theirs[b]
    BY DEF Hunk
  <2>5. incoming = shadow => \A b \in Blocks : incoming[b] \in shown[b]
    BY DEF ShownInv, ShadowWasShown
  <2> QED
    BY <1>16, <2>1, <2>2, <2>3, <2>4, <2>5 DEF Decide
<1>17. CASE WriteFile
  <2>1. /\ task.pc \in {"pushFile", "pullFile"} /\ task'.fetched = task.fetched
        /\ task'.pc \in {"pushShadow", "pullShadow"}
    BY <1>17, <1>types DEF WriteFile, Goto, Tasks
  <2>2. \A b \in Blocks : shown'[b] = shown[b] \cup {task.out.ours[b], task.out.theirs[b]}
    BY <1>17 DEF WriteFile
  <2> QED
    BY <1>17, <2>1, <2>2
    DEF WriteFile, ShownInv, ShadowWasShown, RenderIsShown, CheckStillHolds
<1>18. CASE SaveShadow
  <2>1. /\ task.pc \in {"pushShadow", "pullShadow"}
        /\ task'.pc \in {"pushEntity", "pullEntity"}
    BY <1>18, <1>types DEF SaveShadow, Goto, Tasks
  <2> QED
    BY <1>18, <2>1
    DEF SaveShadow, ShownInv, ShadowWasShown, RenderIsShown, CheckStillHolds
<1>19. CASE SaveEntity
  <2>1. task'.pc \in {"reconciled", "idle"}
    BY <1>19, <1>types, <1>idle DEF SaveEntity, Goto, Tasks
  <2> QED
    BY <1>19, <2>1, ShownUntouched DEF SaveEntity, Pushing
<1>20. CASE UNCHANGED vars
  BY <1>20, ShownUntouched DEF vars, Pushing
<1> QED
  BY <1>1, <1>2, <1>3, <1>4, <1>5, <1>6, <1>7, <1>8, <1>9, <1>10, <1>11, <1>12, <1>13,
     <1>14, <1>15, <1>16, <1>17, <1>18, <1>19, <1>20
  DEF Next, People, PushJob, PullJob, Accept

\* Only an operation of the running push adds to what has landed.
LEMMA LandingIsAnOperation ==
    ASSUME [Next]_vars, NEW b, <<Pushing, b>> \in landed' \ landed
    PROVE  b \in Blocks /\ task.pc = "ops"
<1>1. CASE \E c \in Blocks : ApplyOperation(c) \/ LoseAnswer(c)
  BY <1>1 DEF ApplyOperation, LoseAnswer, Mutate
<1>2. CASE landed' = landed
  BY <1>2
<1>3. CASE UNCHANGED vars
  BY <1>3 DEF vars
<1>4. CASE People \/ PullJob \/ Accept \/ Crash
  BY <1>4, <1>2
  DEF People, LocalEdit, RemoteEdit, Resolve, RemoteTouch, RemoteDelete,
      PullJob, BeginPull, SkipFastForward, FetchRender, FetchFails, RemoteNotFound, RemoveFile,
      DeleteEntity, Decide, Accept, WriteFile, SaveShadow, SaveEntity, Crash
<1>5. CASE PushJob
  BY <1>5, <1>1, <1>2
  DEF PushJob, BeginPush, MarkApplying, CheckPasses, CheckRejects, BeginApply, ApplyRefuses,
      ApplyFails, RecordEffects, RecordFails, MarkApplied, ReadBack, ReconcileFails,
      MarkReconciled
<1> QED
  BY <1>3, <1>4, <1>5 DEF Next

\* No push ever replaces a remote value that the file has not shown, except one that
\* arrived after the push compared the bodies: whatever a crash left half accepted,
\* and whether or not the source's version moved.
THEOREM OnlyShownValuesAreOverwritten == Spec => OverwritesOnlyWhatWasShown
<1> DEFINE A == \A b \in Blocks :
                   <<Pushing, b>> \in landed' \ landed => (remote.body[b] \in shown[b] \/ b \in late)
<1>1. Init => TypeInv /\ ShownInv
  BY TypeInit, ShownInit
<1>2. TypeInv /\ ShownInv /\ [Next]_vars => (TypeInv /\ ShownInv)'
  BY TypeNext, ShownNext
<1>3. ShownInv /\ [Next]_vars => A
  BY LandingIsAnOperation DEF ShownInv, CheckStillHolds, ShadowWasShown
<1> QED
  BY <1>1, <1>2, <1>3, PTL DEF Spec, OverwritesOnlyWhatWasShown

-----------------------------------------------------------------------------
(* What a job may write over the file *)

\* A pending edit that is in the file.
Held(b) == file.exists /\ mine[b] # None /\ file.ours[b] = mine[b]

\* An edit is pending as long as it differs from the Synced Tree.
PendingDiffers == \A b \in Blocks : mine[b] # None => mine[b] # shadow[b]

\* A pull replaces or removes only a file that held nothing pending when the pull
\* began, and a merge keeps what the file held when it was read.
PullKeeps ==
    /\ task.pc \in {"render", "remove"} /\ task.replace =>
          \A b \in Blocks \ task.typed : ~Held(b)
    /\ task.pc = "remove" => task.replace
    /\ task.pc = "pullFile" =>
          \A b \in Blocks \ task.typed : Held(b) => task.out.ours[b] = mine[b]

\* Every edit that a push read is in its plan until it is sent, and no longer
\* pending once it is.
PushKeeps ==
    /\ task.pc \in {"applying", "check", "begin"} =>
          \A b \in Blocks \ task.typed : Held(b) => task.plan[b] = mine[b]
    /\ task.pc = "ops" =>
          \A b \in Blocks \ task.typed : Held(b) => b \in task.todo /\ task.plan[b] = mine[b]
    /\ task.pc \in {"applied", "readback", "pushFile"} =>
          \A b \in Blocks \ task.typed : ~Held(b)

EditsInv == PendingDiffers /\ PullKeeps /\ PushKeeps

LEMMA EditsInit == Init => EditsInv
BY DEF Init, EditsInv, PendingDiffers, PullKeeps, PushKeeps, NoPlan, IdleTask, Held

LEMMA EditsUntouched ==
    ASSUME EditsInv, shadow' = shadow, mine' = mine,
           \/ /\ file' = file /\ task'.pc = task.pc /\ task'.replace = task.replace
              /\ task'.typed = task.typed /\ task'.out = task.out
              /\ task'.plan = task.plan /\ task'.todo = task.todo
           \/ task'.pc \in {"idle", "decide", "untrack", "pushShadow", "pullShadow",
                           "pushEntity", "pullEntity", "reconciled"}
    PROVE  EditsInv'
BY DEF EditsInv, PendingDiffers, PullKeeps, PushKeeps, Held

LEMMA EditsNext == TypeInv /\ EditsInv /\ [Next]_vars => EditsInv'
<1> SUFFICES ASSUME TypeInv, EditsInv, [Next]_vars PROVE EditsInv'
  OBVIOUS
<1>types. /\ task \in Tasks /\ file \in Files /\ shadow \in Bodies /\ mine \in Plans
  BY DEF TypeInv, TypeOK
<1>idle. EndJob => task'.pc = "idle"
  BY DEF EndJob, IdleTask
<1> USE DEF Held
<1>1. ASSUME NEW b \in Blocks, NEW v \in Values, LocalEdit(b, v) PROVE EditsInv'
  <2>1. /\ shadow' = shadow /\ mine' = [mine EXCEPT ![b] = Pending(b, v)]
        /\ file' = [file EXCEPT !.ours[b] = v, !.theirs[b] = v]
        /\ Typing({b})
    BY <1>1 DEF LocalEdit
  <2>2. PendingDiffers'
    BY <2>1, <1>types DEF EditsInv, PendingDiffers, Pending, Plans
  <2>3. \A c \in Blocks \ {b} : Held(c)' <=> Held(c)
    BY <2>1, <1>types DEF Files, Bodies, Plans
  <2>4. \A c \in Blocks \ {b} : mine'[c] = mine[c]
    BY <2>1, <1>types DEF Plans
  <2>5. /\ task'.pc = task.pc /\ task'.replace = task.replace /\ task'.out = task.out
        /\ task'.plan = task.plan /\ task'.todo = task.todo
        /\ task.pc # "idle" => task'.typed = task.typed \cup {b}
    BY <2>1, <1>types DEF Typing, Tasks
  <2> QED
    BY <2>2, <2>3, <2>4, <2>5 DEF EditsInv, PullKeeps, PushKeeps
<1>2. ASSUME NEW kept \in Bodies, Resolve(kept) PROVE EditsInv'
  <2> DEFINE hunks == {b \in Blocks : file.ours[b] # file.theirs[b]}
  <2>1. /\ shadow' = shadow /\ file' = Document(kept) /\ kept \in {file.ours, file.theirs}
        /\ mine' = [b \in Blocks |-> IF file.ours[b] = file.theirs[b] THEN mine[b]
                                     ELSE Pending(b, kept[b])]
        /\ Typing(hunks) /\ file.exists
    BY <1>2 DEF Resolve
  <2>2. PendingDiffers'
    BY <2>1 DEF EditsInv, PendingDiffers, Pending
  <2>3. \A c \in Blocks \ hunks : mine'[c] = mine[c] /\ (Held(c)' <=> Held(c))
    BY <2>1 DEF Document
  <2>4. /\ task'.pc = task.pc /\ task'.replace = task.replace /\ task'.out = task.out
        /\ task'.plan = task.plan /\ task'.todo = task.todo
        /\ task.pc # "idle" => task'.typed = task.typed \cup hunks
    BY <2>1, <1>types DEF Typing, Tasks
  <2> QED
    BY <2>2, <2>3, <2>4 DEF EditsInv, PullKeeps, PushKeeps
<1>3. ASSUME NEW b \in Blocks, NEW v \in Values, RemoteEdit(b, v) PROVE EditsInv'
  BY <1>3, EditsUntouched DEF RemoteEdit
<1>4. CASE RemoteTouch \/ RemoteDelete
  BY <1>4, EditsUntouched DEF RemoteTouch, RemoteDelete
<1>5. CASE BeginPush
  <2>1. /\ task'.pc = "applying" /\ task'.plan = PlanOf(file.ours)
        /\ shadow' = shadow /\ mine' = mine /\ file' = file
    BY <1>5 DEF BeginPush, IdleTask
  <2>2. \A b \in Blocks : Held(b) => task'.plan[b] = mine[b]
    BY <2>1 DEF PlanOf, EditsInv, PendingDiffers
  <2> QED
    BY <2>1, <2>2 DEF EditsInv, PendingDiffers, PullKeeps, PushKeeps
<1>6. CASE MarkApplying \/ CheckPasses
  <2>1. /\ task.pc \in {"applying", "check"} /\ task'.pc \in {"check", "begin"}
        /\ task'.plan = task.plan /\ task'.typed = task.typed
        /\ shadow' = shadow /\ mine' = mine /\ file' = file
    BY <1>6, <1>types DEF MarkApplying, CheckPasses, Goto, Tasks
  <2> QED
    BY <2>1 DEF EditsInv, PendingDiffers, PullKeeps, PushKeeps
<1>7. CASE CheckRejects \/ ApplyRefuses \/ ApplyFails \/ RecordFails \/ ReconcileFails
           \/ MarkReconciled \/ FetchFails \/ DeleteEntity \/ Crash
  BY <1>7, <1>idle, EditsUntouched
  DEF CheckRejects, ApplyRefuses, ApplyFails, RecordFails, ReconcileFails, MarkReconciled,
      FetchFails, DeleteEntity, Crash
<1>8. CASE BeginApply
  <2>1. /\ task.pc = "begin" /\ task'.pc = "ops" /\ task'.todo = Operations(task.plan)
        /\ task'.plan = task.plan /\ task'.typed = task.typed
        /\ shadow' = shadow /\ mine' = mine /\ file' = file
    BY <1>8, <1>types DEF BeginApply, Tasks
  <2>2. \A b \in Blocks : Held(b) /\ task.plan[b] = mine[b] => b \in Operations(task.plan)
    BY DEF Operations
  <2> QED
    BY <2>1, <2>2 DEF EditsInv, PendingDiffers, PullKeeps, PushKeeps
<1>9. ASSUME NEW b \in Blocks, Mutate(b)
      PROVE  mine' = [mine EXCEPT ![b] = IF @ = task.plan[b] THEN None ELSE @]
  BY <1>9 DEF Mutate
<1>10. ASSUME NEW b \in Blocks, ApplyOperation(b) PROVE EditsInv'
  <2>1. /\ task.pc = "ops" /\ task'.pc = "ops" /\ task'.todo = task.todo \ {b}
        /\ task'.plan = task.plan /\ task'.typed = task.typed
        /\ shadow' = shadow /\ file' = file
    BY <1>10, <1>types DEF ApplyOperation, Tasks
  <2>2. mine' = [mine EXCEPT ![b] = IF @ = task.plan[b] THEN None ELSE @]
    BY <1>9, <1>10 DEF ApplyOperation
  <2>3. /\ mine'[b] = IF mine[b] = task.plan[b] THEN None ELSE mine[b]
        /\ \A c \in Blocks \ {b} : mine'[c] = mine[c]
    BY <2>2, <1>types DEF Plans
  <2> QED
    BY <2>1, <2>3 DEF EditsInv, PendingDiffers, PullKeeps, PushKeeps
<1>11. ASSUME NEW b \in Blocks, LoseAnswer(b) PROVE EditsInv'
  <2>1. task'.pc = "idle" /\ shadow' = shadow
    BY <1>11, <1>idle DEF LoseAnswer
  <2>2. \A c \in Blocks : mine'[c] # None => mine'[c] = mine[c]
    BY <1>9, <1>11, <1>types DEF LoseAnswer, Plans
  <2> QED
    BY <2>1, <2>2 DEF EditsInv, PendingDiffers, PullKeeps, PushKeeps
<1>12. CASE RecordEffects \/ MarkApplied \/ ReadBack
  <2>1. /\ (task.pc = "ops" /\ task.todo = {}) \/ task.pc \in {"applied", "readback"}
        /\ task'.pc \in {"applied", "readback", "pushFile"} /\ task'.typed = task.typed
        /\ shadow' = shadow /\ mine' = mine /\ file' = file
    BY <1>12, <1>types DEF RecordEffects, MarkApplied, ReadBack, Goto, Tasks
  <2> QED
    BY <2>1 DEF EditsInv, PendingDiffers, PullKeeps, PushKeeps
<1>13. CASE BeginPull
  <2>1. /\ task'.pc = "render" /\ task'.replace = CanReplaceFile(file)
        /\ shadow' = shadow /\ mine' = mine /\ file' = file
    BY <1>13 DEF BeginPull, IdleTask
  <2>2. \A b \in Blocks : CanReplaceFile(file) => ~Held(b)
    BY DEF CanReplaceFile, EditsInv, PendingDiffers
  <2> QED
    BY <2>1, <2>2 DEF EditsInv, PendingDiffers, PullKeeps, PushKeeps
<1>14. CASE SkipFastForward
  BY <1>14, EditsUntouched DEF SkipFastForward
<1>15. CASE FetchRender
  <2>1. /\ task.pc = "render" /\ task'.typed = task.typed
        /\ \/ task.replace /\ task'.pc = "pullFile"
           \/ task'.pc = "decide"
        /\ shadow' = shadow /\ mine' = mine /\ file' = file
    BY <1>15, <1>types DEF FetchRender, Tasks
  <2> QED
    BY <2>1 DEF EditsInv, PendingDiffers, PullKeeps, PushKeeps
<1>16. CASE RemoteNotFound
  <2>1. /\ task.pc = "render"
        /\ \/ task.replace /\ task'.pc = "remove" /\ task'.replace /\ task'.typed = task.typed
           \/ task'.pc = "idle"
        /\ shadow' = shadow /\ mine' = mine /\ file' = file
    BY <1>16, <1>types, <1>idle DEF RemoteNotFound, Goto, Tasks
  <2> QED
    BY <2>1 DEF EditsInv, PendingDiffers, PullKeeps, PushKeeps
<1>17. CASE Decide
  <2>1. ASSUME NEW document, Write(document),
               \A b \in Blocks : Held(b) => document.ours[b] = mine[b]
        PROVE  EditsInv'
    <3>1. /\ task'.pc = "pullFile" /\ task'.out = document
          /\ shadow' = shadow /\ mine' = mine /\ file' = file
      BY <1>17, <2>1, <1>types DEF Decide, Write, Tasks
    <3> QED
      BY <2>1, <3>1 DEF EditsInv, PendingDiffers, PullKeeps, PushKeeps
  <2>2. ASSUME NEW hydration, MarkAndStop(hydration) PROVE EditsInv'
    BY <1>17, <2>2, <1>idle, EditsUntouched DEF Decide, MarkAndStop
  <2>3. \A b \in Blocks : Held(b) =>
           /\ Merge(shadow, file.ours, task.fetched.body).ours[b] = mine[b]
           /\ Hunk(file.ours, task.fetched.body).ours[b] = mine[b]
           /\ Document(file.ours).ours[b] = mine[b]
    BY DEF Merge, Hunk, Document, EditsInv, PendingDiffers
  <2> QED
    BY <1>17, <2>1, <2>2, <2>3 DEF Decide
<1>18. CASE WriteFile \/ RemoveFile \/ SaveEntity
  <2>1. task'.pc \in {"idle", "untrack", "pushShadow", "pullShadow", "reconciled"}
    BY <1>18, <1>types, <1>idle DEF WriteFile, RemoveFile, SaveEntity, Goto, Tasks
  <2> QED
    BY <1>18, <2>1, EditsUntouched DEF WriteFile, RemoveFile, SaveEntity
<1>19. CASE SaveShadow
  <2>1. task'.pc \in {"pushEntity", "pullEntity"}
    BY <1>19, <1>types DEF SaveShadow, Goto, Tasks
  <2>2. PendingDiffers'
    BY <1>19 DEF SaveShadow, PendingDiffers
  <2> QED
    BY <2>1, <2>2 DEF EditsInv, PullKeeps, PushKeeps
<1>20. CASE UNCHANGED vars
  BY <1>20, EditsUntouched DEF vars
<1> QED
  BY <1>1, <1>2, <1>3, <1>4, <1>5, <1>6, <1>7, <1>8, <1>10, <1>11, <1>12, <1>13, <1>14,
     <1>15, <1>16, <1>17, <1>18, <1>19, <1>20
  DEF Next, People, PushJob, PullJob, Accept

\* Merges, conflict markers, read-backs and removals keep every pending edit that the
\* job read: what a job may still overwrite was typed after it looked.
THEOREM ReadEditsAreKept == Spec => KeepsTheEditsItRead
<1>1. Init => TypeInv /\ EditsInv
  BY TypeInit, EditsInit
<1>2. TypeInv /\ EditsInv /\ [Next]_vars => (TypeInv /\ EditsInv)'
  BY TypeNext, EditsNext
<1>3. TypeInv /\ EditsInv /\ [Next]_vars => KeepsEdits(Blocks \ task.typed)
  <2> SUFFICES ASSUME TypeInv, EditsInv, WriteFile \/ RemoveFile,
                      NEW b \in Blocks \ task.typed, Held(b)
               PROVE  file'.exists /\ file'.ours[b] = mine[b]
    BY DEF KeepsEdits, Held
  <2>1. ~RemoveFile
    BY DEF RemoveFile, EditsInv, PullKeeps
  <2>2. task.pc = "pullFile" /\ file' = task.out
    BY <2>1 DEF WriteFile, EditsInv, PushKeeps
  <2>3. task.out.exists
    BY DEF TypeInv, TypeOK, Tasks, Documents
  <2> QED
    BY <2>2, <2>3 DEF EditsInv, PullKeeps
<1> QED
  BY <1>1, <1>2, <1>3, PTL DEF Spec, KeepsTheEditsItRead
=============================================================================
