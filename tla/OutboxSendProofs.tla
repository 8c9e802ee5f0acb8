-------------------------- MODULE OutboxSendProofs --------------------------
(***************************************************************************)
(* Proofs about OutboxSend, for any files, drafts, mails, pushes and        *)
(* crashes.                                                                 *)
(***************************************************************************)
EXTENDS OutboxSend, SequenceTheorems, TLAPS

First == task.pc \in {"prepared", "check", "apply", "applied"}
Settling == task.pc \in {"readback", "cleanup", "close"}

\* The task is at a journal, and that journal says how far it is.
TaskIsJournalled ==
    /\ task.pc = "idle" => task = Idle
    /\ task.pc # "idle" => task.push \in DOMAIN journal /\ task.todo \subseteq DOMAIN Plan
    /\ First => task.push = Len(journal)
    /\ task.pc = "prepared" => journal[task.push].status = "prepared"
    /\ task.pc \in {"check", "apply", "applied"} => journal[task.push].status = "applying"
    /\ task.pc \in {"check", "apply"} => ~ journal[task.push].effects
    /\ task.pc = "applied" => journal[task.push].effects
    /\ Settling => journal[task.push].status = "applied"

\* A status says whether there are effects.
StatusesFit ==
    \A i \in DOMAIN journal :
      /\ journal[i].status \in {"prepared", "reverted", "ambiguous"} => ~ journal[i].effects
      /\ journal[i].status \in {"applied", "reconciled"} => journal[i].effects

\* What the journals know of what is out.
EffectsAreOut ==
    \A i \in DOMAIN journal : journal[i].effects =>
      \A p \in DOMAIN journal[i].plan : <<i, p>> \in sent
SentIsPlanned ==
    \A s \in sent : /\ s[2] \in DOMAIN journal[s[1]].plan
                    /\ journal[s[1]].status \notin {"prepared", "reverted"}
CheckComesFirst == task.pc = "check" => \A p \in Paths : <<task.push, p>> \notin sent
TodoIsUnsent ==
    task.pc = "apply" => \A p \in DOMAIN Plan : p \in task.todo <=> <<task.push, p>> \notin sent
FailedIsUnsent ==
    \A i \in DOMAIN journal : journal[i].status = "failed" /\ ~ journal[i].effects =>
      \E p \in DOMAIN journal[i].plan : <<i, p>> \notin sent

SentIsKnown ==
    EffectsAreOut /\ SentIsPlanned /\ CheckComesFirst /\ TodoIsUnsent /\ FailedIsUnsent

\* A draft is at one path, and is sent once.
DraftsAreGone == \A s \in sent : DraftOf(s) # None => DraftOf(s) \notin drafts
DraftsAreSentOnce == \A s, t \in sent : DraftOf(s) = DraftOf(t) /\ DraftOf(s) # None => s = t
DraftsPendOnce ==
    \A p, q \in Pending : outbox[p].draft = outbox[q].draft /\ outbox[p].draft # None => p = q
DraftsArePlannedOnce ==
    \A i \in DOMAIN journal : \A p, q \in DOMAIN journal[i].plan :
      journal[i].plan[p].draft = journal[i].plan[q].draft /\ journal[i].plan[p].draft # None
        => p = q

DraftsAreSpent == DraftsAreGone /\ DraftsAreSentOnce /\ DraftsPendOnce /\ DraftsArePlannedOnce

\* A mail is at one path.
MailsPendOnce ==
    \A p, q \in Pending : outbox[p].mail = outbox[q].mail /\ outbox[p].mail # Gone => p = q
MailsPendInPlace ==
    \A i \in DOMAIN journal : \A p \in DOMAIN journal[i].plan, q \in Pending :
      journal[i].plan[p].mail = outbox[q].mail /\ outbox[q].mail # Gone => p = q
MailsArePlannedInPlace ==
    \A i, j \in DOMAIN journal :
      \A p \in DOMAIN journal[i].plan, q \in DOMAIN journal[j].plan :
        journal[i].plan[p].mail = journal[j].plan[q].mail /\ journal[i].plan[p].mail # Gone => p = q

MailsHavePlaces == MailsPendOnce /\ MailsPendInPlace /\ MailsArePlannedInPlace

\* A pending mail that was pushed has been pending since.
PendingSince ==
    \A i, k \in DOMAIN journal : i < k =>
      \A p \in Pending :
        /\ p \in DOMAIN journal[i].plan /\ p \in DOMAIN journal[k].plan
        /\ outbox[p].mail = journal[i].plan[p].mail /\ outbox[p].mail # Gone
        => journal[k].plan[p].mail = outbox[p].mail

Holds(i) == journal[i].effects \/ (task.pc # "idle" /\ i = task.push)

\* What is pending of a push that is out is as it was pushed.
DraftsAsPushed ==
    \A i \in DOMAIN journal : Holds(i) =>
      \A p \in Pending :
        /\ p \in DOMAIN journal[i].plan
        /\ outbox[p].mail = journal[i].plan[p].mail /\ outbox[p].mail # Gone
        => outbox[p].draft = journal[i].plan[p].draft
PlacesAsPushed ==
    task.pc # "idle" => \A p \in Pending :
      /\ p \in DOMAIN Plan /\ Plan[p].draft # None
      /\ outbox[p].mail = Plan[p].mail /\ outbox[p].mail # Gone
      => \A q \in DOMAIN task.cleanup : task.cleanup[q].draft = Plan[p].draft => q = p

PendingAsPushed == DraftsAsPushed /\ PlacesAsPushed

NotPending(i, p) == \A q \in Pending : outbox[q].mail = journal[i].plan[p].mail => outbox[q].mail = Gone

CleanedUp ==
    /\ task.pc = "cleanup" => \A p \in DOMAIN Plan \ task.todo : NotPending(task.push, p)
    /\ task.pc = "close" => \A p \in DOMAIN Plan : NotPending(task.push, p)

\* While the effects of a push of new files wait to be reconciled, the same files are
\* not pushed anew.
NoneAfterEffects ==
    \A i, k \in DOMAIN journal :
      i < k /\ journal[i].effects /\ Unfinished(journal[i]) /\ AllCreates(journal[i].plan)
        => ~ (/\ AllCreates(journal[k].plan)
              /\ CreateSources(journal[k].plan) = CreateSources(journal[i].plan))

\* A mail that is out and is pushed once more, unexplained, was pushed with a draft that
\* is out too, so that the check stops the push.
Repeats(s, k) ==
    /\ s[1] < k /\ s[2] \in DOMAIN journal[k].plan
    /\ journal[k].plan[s[2]].mail = MailOf(s) /\ MailOf(s) # Gone
    /\ ~ Regrouped(s[1], k) /\ ~ RejectedHalfway(s[1])
Stops(s, k) ==
    /\ ~ (DraftIds(journal[s[1]].plan) \subseteq drafts)
    /\ \A p \in Paths : <<k, p>> \notin sent
    /\ task.pc \in {"apply", "applied"} => task.push # k

RepeatsStop == \A s \in sent : \A k \in DOMAIN journal : Repeats(s, k) => Stops(s, k)

-----------------------------------------------------------------------------
(* Plans and journals *)

LEMMA PlanType ==
    ASSUME NEW plan \in Plans
    PROVE  /\ DOMAIN plan \subseteq Paths
           /\ \A p \in DOMAIN plan :
                /\ plan[p] \in Entries
                /\ plan[p].mail \in Mails \cup {Gone}
                /\ plan[p].draft \in Drafts \cup {None}
  BY DEF Plans, Entries

LEMMA JournalType ==
    ASSUME TypeOK
    PROVE  /\ Len(journal) \in 0 .. MaxPushes /\ DOMAIN journal = 1 .. Len(journal)
           /\ journal \in Seq(Journals)
           /\ \A i \in DOMAIN journal :
                /\ i \in 1 .. MaxPushes
                /\ journal[i] \in Journals
                /\ journal[i].plan \in Plans
                /\ journal[i].status \in Statuses
                /\ journal[i].effects \in BOOLEAN
<1>1. journal \in Seq(Journals) /\ Len(journal) <= MaxPushes /\ MaxPushes \in Nat
  BY OutboxAssumption DEF TypeOK
<1>2. Len(journal) \in Nat /\ DOMAIN journal = 1 .. Len(journal)
  BY <1>1, LenProperties
<1>3. \A i \in DOMAIN journal : journal[i] \in Journals
  BY <1>1, <1>2, ElementOfSeq
<1> QED
  BY <1>1, <1>2, <1>3 DEF Journals

\* The plans and effects in the journal stay, and there are no more journals.
PlansStay ==
    /\ DOMAIN journal' = DOMAIN journal /\ Len(journal') = Len(journal)
    /\ \A i \in DOMAIN journal : journal'[i].plan = journal[i].plan

LEMMA StatusSet ==
    ASSUME TypeOK, NEW i \in DOMAIN journal, NEW status \in Statuses, SetStatus(i, status)
    PROVE  /\ journal' \in Seq(Journals)
           /\ PlansStay
           /\ \A k \in DOMAIN journal :
                /\ journal'[k].effects = journal[k].effects
                /\ journal'[k].status = IF k = i THEN status ELSE journal[k].status
<1>1. /\ journal \in Seq(Journals) /\ journal[i] \in Journals
      /\ DOMAIN journal = 1 .. Len(journal)
  BY JournalType
<1> DEFINE entry == [journal[i] EXCEPT !.status = status]
<1>2. /\ entry \in Journals /\ entry.plan = journal[i].plan
      /\ entry.effects = journal[i].effects /\ entry.status = status
  BY <1>1 DEF Journals
<1>3. journal' = [journal EXCEPT ![i] = entry]
  BY DEF SetStatus
<1>4. journal' \in Seq(Journals) /\ Len(journal') = Len(journal)
      /\ \A k \in 1 .. Len(journal) : journal'[k] = IF k = i THEN entry ELSE journal[k]
  BY <1>1, <1>2, <1>3, ExceptSeq
<1>5. DOMAIN journal' = 1 .. Len(journal')
  BY <1>4, LenProperties
<1> HIDE DEF entry
<1> QED
  BY <1>1, <1>2, <1>4, <1>5 DEF PlansStay

LEMMA EffectsSet ==
    ASSUME TypeOK, NEW i \in DOMAIN journal, journal' = [journal EXCEPT ![i].effects = TRUE]
    PROVE  /\ journal' \in Seq(Journals)
           /\ PlansStay
           /\ \A k \in DOMAIN journal :
                /\ journal'[k].effects = (IF k = i THEN TRUE ELSE journal[k].effects)
                /\ journal'[k].status = journal[k].status
<1>1. /\ journal \in Seq(Journals) /\ journal[i] \in Journals
      /\ DOMAIN journal = 1 .. Len(journal)
  BY JournalType
<1> DEFINE entry == [journal[i] EXCEPT !.effects = TRUE]
<1>2. /\ entry \in Journals /\ entry.plan = journal[i].plan
      /\ entry.effects = TRUE /\ entry.status = journal[i].status
  BY <1>1 DEF Journals
<1>3. journal' = [journal EXCEPT ![i] = entry]
  OBVIOUS
<1>4. journal' \in Seq(Journals) /\ Len(journal') = Len(journal)
      /\ \A k \in 1 .. Len(journal) : journal'[k] = IF k = i THEN entry ELSE journal[k]
  BY <1>1, <1>2, <1>3, ExceptSeq
<1>5. DOMAIN journal' = 1 .. Len(journal')
  BY <1>4, LenProperties
<1> HIDE DEF entry
<1> QED
  BY <1>1, <1>2, <1>4, <1>5 DEF PlansStay

LEMMA Appended ==
    ASSUME TypeOK, NEW plan \in Plans,
           journal' = Append(journal, [plan |-> plan, status |-> "prepared", effects |-> FALSE])
    PROVE  /\ journal' \in Seq(Journals)
           /\ Len(journal') = Len(journal) + 1
           /\ DOMAIN journal' = DOMAIN journal \cup {Len(journal) + 1}
           /\ \A i \in DOMAIN journal : i \in 1 .. Len(journal) /\ journal'[i] = journal[i]
           /\ journal'[Len(journal) + 1] =
                [plan |-> plan, status |-> "prepared", effects |-> FALSE]
<1> DEFINE entry == [plan |-> plan, status |-> "prepared", effects |-> FALSE]
<1>1. /\ journal \in Seq(Journals) /\ Len(journal) \in Nat
      /\ DOMAIN journal = 1 .. Len(journal) /\ entry \in Journals
  BY JournalType DEF Journals, Statuses
<1>2. /\ journal' \in Seq(Journals) /\ Len(journal') = Len(journal) + 1
      /\ \A i \in 1 .. Len(journal) : journal'[i] = journal[i]
      /\ journal'[Len(journal) + 1] = entry
  <2> HIDE DEF entry
  <2> journal' = Append(journal, entry)
    BY DEF entry
  <2> QED
    BY <1>1, AppendProperties
<1>3. DOMAIN journal' = 1 .. Len(journal')
  BY <1>2, LenProperties
<1> QED
  BY <1>1, <1>2, <1>3

LEMMA NoPlanType == NoPlan \in Plans /\ DOMAIN NoPlan = {} /\ Idle \in Tasks
<1>1. NoPlan \in [{} -> Entries] /\ DOMAIN NoPlan = {}
  BY DEF NoPlan
<1>2. NoPlan \in Plans
  BY <1>1 DEF Plans
<1> QED
  BY <1>1, <1>2, OutboxAssumption DEF Idle, Tasks

LEMMA PreparedType ==
    ASSUME TypeOK, NEW plan \in Prepared
    PROVE  /\ plan \in Plans
           /\ DOMAIN plan \subseteq Pending /\ DOMAIN plan # {}
           /\ \A p \in DOMAIN plan : plan[p] = outbox[p]
           /\ \A p \in CreateSources(plan) : plan[p].mail # Gone
           /\ DraftIds(plan) \subseteq entities
<1>1. PICK S \in ({{p} : p \in Pending} \cup {Pending}) \ {{}} :
        plan = [p \in S |-> outbox[p]]
  BY DEF Prepared
<1>2. S \subseteq Pending /\ S # {} /\ Pending \subseteq Paths
  BY <1>1 DEF Pending
<1>3. \A p \in Pending : outbox[p] \in Entries
  BY DEF TypeOK, Pending
<1>4. plan \in [S -> Entries] /\ S \in SUBSET Paths
  BY <1>1, <1>2, <1>3
<1>5. plan \in Plans
  BY <1>4 DEF Plans
<1>6. /\ \A p \in CreateSources(plan) : plan[p].mail # Gone
      /\ DraftIds(plan) \subseteq entities
  BY DEF Prepared
<1> QED
  BY <1>1, <1>2, <1>4, <1>5, <1>6

LEMMA TaskType ==
    ASSUME TypeOK
    PROVE  /\ task = [pc |-> task.pc, push |-> task.push, todo |-> task.todo,
                      cleanup |-> task.cleanup]
           /\ task.pc \in {"idle", "prepared", "check", "apply", "applied", "readback",
                           "cleanup", "close"}
           /\ task.push \in 0 .. MaxPushes /\ task.todo \subseteq Paths
           /\ task.cleanup \in Plans
  BY DEF TypeOK, Tasks

LEMMA OutboxType ==
    ASSUME TypeOK
    PROVE  \A p \in Paths :
             /\ p \in Pending <=> outbox[p] # None
             /\ p \in Pending =>
                  /\ outbox[p] \in Entries
                  /\ outbox[p].mail \in Mails \cup {Gone}
                  /\ outbox[p].draft \in Drafts \cup {None}
  BY DEF TypeOK, Pending, Entries

-----------------------------------------------------------------------------
(* The task and its journal *)

Ledger == TypeOK /\ TaskIsJournalled /\ StatusesFit

\* Nothing but the status of one journal changes, and the task goes on or ends.
LEMMA LedgerOfStatus ==
    ASSUME Ledger, NEW i \in DOMAIN journal, NEW status \in Statuses, SetStatus(i, status),
           status \in {"prepared", "reverted", "ambiguous"} => ~ journal[i].effects,
           status \in {"applied", "reconciled"} => journal[i].effects
    PROVE  /\ journal' \in Seq(Journals) /\ Len(journal') <= MaxPushes
           /\ (DOMAIN journal') \X Paths = (DOMAIN journal) \X Paths
           /\ StatusesFit'
<1>1. /\ journal' \in Seq(Journals)
      /\ PlansStay
      /\ \A k \in DOMAIN journal :
           /\ journal'[k].effects = journal[k].effects
           /\ journal'[k].status = IF k = i THEN status ELSE journal[k].status
  BY StatusSet DEF Ledger
<1>2. Len(journal') <= MaxPushes
  BY <1>1 DEF PlansStay, Ledger, TypeOK
<1>3. StatusesFit'
  BY <1>1 DEF PlansStay, Ledger, StatusesFit
<1> QED
  BY <1>1, <1>2, <1>3 DEF PlansStay

LEMMA LedgerInit ==
    ASSUME Init
    PROVE  Ledger
<1>1. TypeOK
  <2>1. journal \in Seq(Journals) /\ Len(journal) = 0 /\ DOMAIN journal = {}
    BY EmptySeq DEF Init
  <2>2. task \in Tasks
    BY NoPlanType DEF Init
  <2> QED
    BY <2>1, <2>2, OutboxAssumption DEF Init, TypeOK
<1>2. DOMAIN journal = {} /\ task.pc = "idle" /\ task = Idle
  BY DEF Init, Idle
<1> QED
  BY <1>1, <1>2 DEF Ledger, TaskIsJournalled, StatusesFit, First, Settling

LEMMA LedgerUser ==
    ASSUME Ledger, User
    PROVE  Ledger'
<1>1. UNCHANGED <<entities, gmail, journal, task, crashes>>
  BY DEF User, Write, MoveDraft, Discard
<1>2. outbox' \in [Paths -> Entries \cup {None}]
  <2>1. CASE \E p \in Paths : Write(p)
    <3>1. PICK p \in Paths, m \in Fresh :
            outbox' = [outbox EXCEPT ![p] =
                         [mail |-> m, draft |-> IF outbox[p] = None THEN None ELSE outbox[p].draft]]
      BY <2>1 DEF Write
    <3>2. m \in Mails
      BY DEF Fresh
    <3>3. (IF outbox[p] = None THEN None ELSE outbox[p].draft) \in Drafts \cup {None}
      BY OutboxType DEF Ledger, Pending
    <3> QED
      BY <3>1, <3>2, <3>3 DEF Ledger, TypeOK, Entries
  <2>2. CASE \E p \in Paths : Discard(p)
    BY <2>2 DEF Discard, Ledger, TypeOK
  <2>3. CASE \E d \in Drafts, p \in Paths : MoveDraft(d, p)
    BY <2>3 DEF MoveDraft, Fresh, Ledger, TypeOK, Entries
  <2> QED
    BY <2>1, <2>2, <2>3 DEF User
<1>3. TypeOK'
  BY <1>1, <1>2 DEF Ledger, TypeOK, gmail
<1> QED
  BY <1>1, <1>3 DEF Ledger, TaskIsJournalled, StatusesFit, First, Settling, Plan

LEMMA LedgerStart ==
    ASSUME Ledger, task.pc = "idle", NEW plan \in Prepared, Start(plan)
    PROVE  Ledger'
<1> DEFINE n == Len(journal) + 1
<1>1. plan \in Plans
  BY PreparedType DEF Ledger
<1>2. /\ journal' \in Seq(Journals)
      /\ Len(journal') = n
      /\ DOMAIN journal' = DOMAIN journal \cup {n}
      /\ \A i \in DOMAIN journal : i \in 1 .. Len(journal) /\ journal'[i] = journal[i]
      /\ journal'[n] = [plan |-> plan, status |-> "prepared", effects |-> FALSE]
  BY <1>1, Appended DEF Ledger, Start
<1>3. Len(journal) \in Nat /\ Len(journal) < MaxPushes /\ MaxPushes \in Nat
  BY JournalType, OutboxAssumption DEF Ledger, Start
<1>4. task' = [pc |-> "prepared", push |-> n, todo |-> {}, cleanup |-> plan]
      /\ UNCHANGED <<outbox, entities, gmail, crashes>>
  BY DEF Start
<1>5. TypeOK'
  <2>1. task' \in Tasks
    BY <1>1, <1>3, <1>4 DEF Tasks
  <2>2. sent' \subseteq (DOMAIN journal') \X Paths
    BY <1>2, <1>4 DEF Ledger, TypeOK, gmail
  <2>3. Len(journal') <= MaxPushes
    BY <1>2, <1>3
  <2> QED
    BY <1>2, <1>4, <2>1, <2>2, <2>3 DEF Ledger, TypeOK, gmail
<1>6. TaskIsJournalled'
  BY <1>2, <1>4 DEF TaskIsJournalled, First, Settling, Plan
<1>7. StatusesFit'
  BY <1>2 DEF Ledger, StatusesFit
<1> QED
  BY <1>5, <1>6, <1>7 DEF Ledger

LEMMA LedgerResume ==
    ASSUME Ledger, task.pc = "idle", NEW plan \in Prepared, Resume(plan)
    PROVE  Ledger'
<1>1. PICK i \in Resumed(plan) :
        /\ SetStatus(i, "applied")
        /\ task' = [pc |-> "readback", push |-> i, todo |-> {},
                      cleanup |-> IF AllDrafts(plan) THEN plan ELSE journal[i].plan]
        /\ UNCHANGED <<outbox, entities, gmail, crashes>>
  BY DEF Resume
<1>2. i \in DOMAIN journal /\ journal[i].effects
  BY <1>1 DEF Resumed, Unreconciled, Resumable
<1>3. /\ journal' \in Seq(Journals) /\ Len(journal') <= MaxPushes
      /\ (DOMAIN journal') \X Paths = (DOMAIN journal) \X Paths
      /\ StatusesFit'
  BY <1>1, <1>2, LedgerOfStatus DEF Statuses
<1>4. /\ PlansStay
      /\ \A k \in DOMAIN journal :
           /\ journal'[k].effects = journal[k].effects
           /\ journal'[k].status = IF k = i THEN "applied" ELSE journal[k].status
  BY <1>1, <1>2, StatusSet DEF Ledger, Statuses
<1>5. plan \in Plans /\ journal[i].plan \in Plans /\ i \in 0 .. MaxPushes
  BY <1>2, PreparedType, JournalType DEF Ledger
<1>6. task' \in Tasks
  BY <1>1, <1>5 DEF Tasks
<1>7. TypeOK'
  BY <1>1, <1>3, <1>6 DEF Ledger, TypeOK, gmail
<1>8. TaskIsJournalled'
  BY <1>1, <1>2, <1>4 DEF TaskIsJournalled, First, Settling, PlansStay, Plan
<1> QED
  BY <1>3, <1>7, <1>8 DEF Ledger

\* The task ends, with a last status in its journal.
LEMMA LedgerEnds ==
    ASSUME Ledger, task.pc # "idle", NEW status \in Statuses, Ends(status),
           outbox' \in [Paths -> Entries \cup {None}], entities' \subseteq Drafts, drafts' \subseteq Drafts,
           sent' \subseteq (DOMAIN journal) \X Paths, UNCHANGED crashes,
           status \in {"prepared", "reverted", "ambiguous"} => ~ journal[task.push].effects,
           status \in {"applied", "reconciled"} => journal[task.push].effects
    PROVE  Ledger'
<1>1. task.push \in DOMAIN journal /\ SetStatus(task.push, status) /\ task' = Idle
  BY DEF Ledger, TaskIsJournalled, Ends
<1>2. /\ journal' \in Seq(Journals) /\ Len(journal') <= MaxPushes
      /\ (DOMAIN journal') \X Paths = (DOMAIN journal) \X Paths
      /\ StatusesFit'
  BY <1>1, LedgerOfStatus
<1>3. TypeOK'
  BY <1>1, <1>2, NoPlanType DEF Ledger, TypeOK
<1>4. TaskIsJournalled'
  BY <1>1 DEF TaskIsJournalled, First, Settling, Idle
<1> QED
  BY <1>2, <1>3, <1>4 DEF Ledger

\* The task goes on in its journal.
LEMMA LedgerGoesOn ==
    ASSUME Ledger, task.pc # "idle", journal' \in Seq(Journals), PlansStay, StatusesFit',
           task' \in Tasks, task'.pc # "idle", task'.push = task.push, task'.todo \subseteq DOMAIN Plan,
           outbox' \in [Paths -> Entries \cup {None}], entities' \subseteq Drafts, drafts' \subseteq Drafts,
           sent' \subseteq (DOMAIN journal) \X Paths, UNCHANGED crashes,
           First' => First,
           LET j == journal'[task.push]
           IN  /\ task'.pc = "prepared" => j.status = "prepared"
               /\ task'.pc \in {"check", "apply", "applied"} => j.status = "applying"
               /\ task'.pc \in {"check", "apply"} => ~ j.effects
               /\ task'.pc = "applied" => j.effects
               /\ task'.pc \in {"readback", "cleanup", "close"} => j.status = "applied"
    PROVE  Ledger'
<1>1. task.push \in DOMAIN journal
  BY DEF Ledger, TaskIsJournalled
<1>2. TypeOK'
  BY DEF Ledger, TypeOK, PlansStay
<1>3. TaskIsJournalled'
  BY <1>1 DEF Ledger, TaskIsJournalled, First, Settling, PlansStay, Plan
<1> QED
  BY <1>2, <1>3 DEF Ledger

LEMMA LedgerSteps ==
    ASSUME Ledger, MarkApplying \/ Check \/ RecordEffects \/ MarkApplied \/ ReadBack
                   \/ ReconcileFails \/ Archive \/ Close
    PROVE  Ledger'
<1>1. /\ outbox \in [Paths -> Entries \cup {None}] /\ entities \subseteq Drafts /\ drafts \subseteq Drafts
      /\ sent \subseteq (DOMAIN journal) \X Paths /\ task \in Tasks
  BY DEF Ledger, TypeOK
<1>2. task.pc # "idle" => task.push \in DOMAIN journal /\ task.todo \subseteq DOMAIN Plan
  BY DEF Ledger, TaskIsJournalled
<1>3. DOMAIN Plan \subseteq Paths \/ task.pc = "idle"
  BY <1>2, JournalType, PlanType DEF Ledger, Plan
<1>4. CASE MarkApplying
  <2>1. /\ task.pc = "prepared" /\ SetStatus(task.push, "applying")
        /\ task' = [task EXCEPT !.pc = "check"] /\ UNCHANGED <<outbox, entities, gmail, crashes>>
    BY <1>4 DEF MarkApplying
  <2>2. /\ journal' \in Seq(Journals) /\ PlansStay /\ StatusesFit'
        /\ journal'[task.push].status = "applying" /\ ~ journal'[task.push].effects
    BY <1>2, <2>1, StatusSet, LedgerOfStatus DEF Ledger, Statuses, StatusesFit, TaskIsJournalled
  <2>3. /\ task' \in Tasks /\ task'.pc = "check" /\ task'.push = task.push
        /\ task'.todo \subseteq DOMAIN Plan
    BY <1>1, <1>2, <2>1 DEF Tasks
  <2> QED
    BY <1>1, <2>1, <2>2, <2>3, LedgerGoesOn DEF First, gmail
<1>5. CASE Check
  <2>1. CASE Ends("reverted")
    BY <1>1, <1>5, <2>1, LedgerEnds DEF Check, Ledger, TaskIsJournalled, Statuses, gmail
  <2>2. CASE /\ task' = [task EXCEPT !.pc = "apply", !.todo = DOMAIN Plan]
             /\ UNCHANGED journal
    <3>1. task.pc = "check" /\ UNCHANGED <<outbox, entities, gmail, crashes>>
      BY <1>5 DEF Check
    <3>2. /\ task' \in Tasks /\ task'.pc = "apply" /\ task'.push = task.push
          /\ task'.todo = DOMAIN Plan
      BY <1>1, <1>3, <2>2, <3>1 DEF Tasks
    <3>3. journal' \in Seq(Journals) /\ PlansStay /\ StatusesFit'
      BY <2>2 DEF Ledger, TypeOK, PlansStay, StatusesFit
    <3>4. journal[task.push].status = "applying" /\ ~ journal[task.push].effects
      BY <3>1 DEF Ledger, TaskIsJournalled
    <3> QED
      BY <1>1, <2>2, <3>1, <3>2, <3>3, <3>4, LedgerGoesOn DEF First, gmail
  <2> QED
    BY <1>5, <2>1, <2>2 DEF Check
<1>6. CASE RecordEffects
  <2>1. /\ task.pc = "apply" /\ journal' = [journal EXCEPT ![task.push].effects = TRUE]
        /\ task' = [task EXCEPT !.pc = "applied"] /\ UNCHANGED <<outbox, entities, gmail, crashes>>
    BY <1>6 DEF RecordEffects
  <2>2. /\ journal' \in Seq(Journals) /\ PlansStay
        /\ \A k \in DOMAIN journal :
             /\ journal'[k].effects = (IF k = task.push THEN TRUE ELSE journal[k].effects)
             /\ journal'[k].status = journal[k].status
    BY <1>2, <2>1, EffectsSet DEF Ledger
  <2>3. journal[task.push].status = "applying"
    BY <2>1 DEF Ledger, TaskIsJournalled
  <2>4. StatusesFit'
    BY <2>2, <2>3 DEF Ledger, StatusesFit, PlansStay
  <2>5. /\ task' \in Tasks /\ task'.pc = "applied" /\ task'.push = task.push
        /\ task'.todo \subseteq DOMAIN Plan
    BY <1>1, <1>2, <2>1 DEF Tasks
  <2> QED
    BY <1>1, <1>2, <2>1, <2>2, <2>3, <2>4, <2>5, LedgerGoesOn DEF First, gmail
<1>7. CASE MarkApplied
  <2>1. /\ task.pc = "applied" /\ SetStatus(task.push, "applied")
        /\ task' = [task EXCEPT !.pc = "readback"] /\ UNCHANGED <<outbox, entities, gmail, crashes>>
    BY <1>7 DEF MarkApplied
  <2>2. journal[task.push].effects
    BY <2>1 DEF Ledger, TaskIsJournalled
  <2>3. /\ journal' \in Seq(Journals) /\ PlansStay /\ StatusesFit'
        /\ journal'[task.push].status = "applied"
    BY <1>2, <2>1, <2>2, StatusSet, LedgerOfStatus DEF Ledger, Statuses
  <2>4. /\ task' \in Tasks /\ task'.pc = "readback" /\ task'.push = task.push
        /\ task'.todo \subseteq DOMAIN Plan
    BY <1>1, <1>2, <2>1 DEF Tasks
  <2> QED
    BY <1>1, <2>1, <2>3, <2>4, LedgerGoesOn DEF First, gmail
<1>8. CASE ReadBack
  <2>1. /\ task.pc = "readback" /\ task' = [task EXCEPT !.pc = "cleanup", !.todo = DOMAIN Plan]
        /\ UNCHANGED <<outbox, entities, gmail, journal, crashes>>
    BY <1>8 DEF ReadBack
  <2>2. /\ task' \in Tasks /\ task'.pc = "cleanup" /\ task'.push = task.push
        /\ task'.todo \subseteq DOMAIN Plan
    BY <1>1, <1>3, <2>1 DEF Tasks
  <2>3. /\ journal' \in Seq(Journals) /\ PlansStay /\ StatusesFit'
        /\ journal[task.push].status = "applied"
    BY <2>1 DEF Ledger, TypeOK, PlansStay, StatusesFit, TaskIsJournalled, Settling
  <2> QED
    BY <1>1, <2>1, <2>2, <2>3, LedgerGoesOn DEF First, gmail
<1>9. CASE ReconcileFails
  BY <1>1, <1>9, LedgerEnds DEF ReconcileFails, Statuses, gmail
<1>10. CASE Archive
  <2>1. /\ task.pc = "cleanup" /\ task' = [task EXCEPT !.pc = "close"]
        /\ entities' = entities \ DraftIds(Plan) /\ UNCHANGED <<outbox, gmail, journal, crashes>>
    BY <1>10 DEF Archive
  <2>2. /\ task' \in Tasks /\ task'.pc = "close" /\ task'.push = task.push
        /\ task'.todo \subseteq DOMAIN Plan
    BY <1>1, <1>2, <2>1 DEF Tasks
  <2>3. /\ journal' \in Seq(Journals) /\ PlansStay /\ StatusesFit'
        /\ journal[task.push].status = "applied"
    BY <2>1 DEF Ledger, TypeOK, PlansStay, StatusesFit, TaskIsJournalled, Settling
  <2> QED
    BY <1>1, <2>1, <2>2, <2>3, LedgerGoesOn DEF First, gmail
<1>11. CASE Close
  <2>1. task.pc = "close" /\ journal[task.push].effects
    BY <1>2, <1>11 DEF Close, Ledger, StatusesFit, TaskIsJournalled, Settling
  <2> QED
    BY <1>1, <1>11, <2>1, LedgerEnds DEF Close, Statuses, gmail
<1> QED
  BY <1>4, <1>5, <1>6, <1>7, <1>8, <1>9, <1>10, <1>11

LEMMA LedgerApply ==
    ASSUME Ledger, NEW p \in Paths, Apply(p)
    PROVE  Ledger'
<1>1. /\ outbox \in [Paths -> Entries \cup {None}] /\ entities \subseteq Drafts /\ drafts \subseteq Drafts
      /\ sent \subseteq (DOMAIN journal) \X Paths /\ task \in Tasks
      /\ task.push \in DOMAIN journal /\ task.todo \subseteq DOMAIN Plan
      /\ task.pc = "apply" /\ journal[task.push].status = "applying" /\ ~ journal[task.push].effects
      /\ UNCHANGED <<outbox, entities, crashes>>
  BY DEF Ledger, TypeOK, TaskIsJournalled, Apply
<1>2. GmailSends(p) => sent' \subseteq (DOMAIN journal) \X Paths /\ drafts' \subseteq Drafts
  BY <1>1 DEF GmailSends
<1>3. CASE Accepted(p)
  <2>1. /\ task' = [task EXCEPT !.todo = task.todo \ {p}] /\ GmailSends(p) /\ UNCHANGED journal
    BY <1>3 DEF Accepted
  <2>2. /\ task' \in Tasks /\ task'.pc = "apply" /\ task'.push = task.push
        /\ task'.todo \subseteq DOMAIN Plan
    BY <1>1, <2>1 DEF Tasks
  <2>3. journal' \in Seq(Journals) /\ PlansStay /\ StatusesFit'
    BY <2>1 DEF Ledger, TypeOK, PlansStay, StatusesFit
  <2> QED
    BY <1>1, <1>2, <2>1, <2>2, <2>3, LedgerGoesOn DEF First
<1>4. CASE NoAnswer(p)
  BY <1>1, <1>2, <1>4, LedgerEnds DEF NoAnswer, Statuses, gmail
<1>5. CASE Rejected(p)
  BY <1>1, <1>5, LedgerEnds DEF Rejected, Statuses, gmail
<1> QED
  BY <1>3, <1>4, <1>5 DEF Apply

LEMMA SourceType ==
    ASSUME TypeOK, NEW p \in Paths
    PROVE  /\ SourceOf(p) \in Paths
           /\ SourceOf(p) # p => /\ SourceOf(p) \in DOMAIN task.cleanup
                                 /\ task.cleanup[SourceOf(p)].draft = Plan[p].draft
                                 /\ Plan[p].draft # None
           /\ SourceOf(p) = p \/ Plan[p].draft # None
<1> DEFINE Q == {q \in DOMAIN task.cleanup : task.cleanup[q].draft = Plan[p].draft}
<1>1. Q \subseteq Paths
  BY TaskType, PlanType
<1>2. CASE Plan[p].draft # None /\ Q # {}
  <2>1. SourceOf(p) = (CHOOSE q \in Q : TRUE)
    BY <1>2 DEF SourceOf
  <2>2. (CHOOSE q \in Q : TRUE) \in Q
    BY <1>2
  <2> QED
    BY <1>1, <1>2, <2>1, <2>2
<1>3. CASE ~ (Plan[p].draft # None /\ Q # {})
  <2> SourceOf(p) = p
    BY <1>3 DEF SourceOf
  <2> QED
    OBVIOUS
<1> QED
  BY <1>2, <1>3

\* What is pending goes or loses its content; nothing else.
Loses ==
    \A p \in Paths :
      \/ outbox'[p] = outbox[p]
      \/ outbox'[p] = None
      \/ /\ outbox[p] # None /\ outbox'[p] # None
         /\ outbox'[p].mail = Gone /\ outbox'[p].draft = outbox[p].draft

\* Or it becomes a new file.
Shrinks ==
    \A p \in Paths :
      \/ outbox'[p] = outbox[p]
      \/ outbox'[p] = None
      \/ /\ outbox[p] # None /\ outbox'[p] # None
         /\ outbox'[p].mail = Gone /\ outbox'[p].draft = outbox[p].draft
      \/ /\ outbox[p] # None /\ outbox'[p] # None
         /\ outbox'[p].mail = outbox[p].mail /\ outbox'[p].draft = None

LEMMA CleanedShrinks ==
    ASSUME TypeOK, NEW p \in Paths, outbox' = Cleaned(p)
    PROVE  outbox' \in [Paths -> Entries \cup {None}] /\ Shrinks
<1> DEFINE q == SourceOf(p)
           d == Plan[p].draft
<1>1. \A x \in Paths :
        /\ outbox'[x] =
             IF outbox[x] = None THEN None
             ELSE IF SaysWhatWasSent(p)
               THEN IF (IF d = None THEN x = q ELSE outbox[x].draft = d) THEN None ELSE outbox[x]
             ELSE IF d # None /\ x = q /\ outbox[x].draft = d THEN [outbox[x] EXCEPT !.draft = None]
             ELSE outbox[x]
  BY DEF Cleaned
<1>2. \A x \in Paths :
        outbox[x] # None =>
          LET e == [outbox[x] EXCEPT !.draft = None]
          IN  e \in Entries /\ e.mail = outbox[x].mail /\ e.draft = None
  BY OutboxType DEF Entries
<1>3. \A x \in Paths : outbox[x] \in Entries \cup {None}
  BY DEF TypeOK
<1>5. outbox' = [x \in Paths |-> outbox'[x]]
  BY DEF Cleaned
<1>6. \A x \in Paths : outbox'[x] \in Entries \cup {None}
  BY <1>1, <1>2, <1>3
<1>7. outbox' \in [Paths -> Entries \cup {None}]
  BY <1>5, <1>6
<1>8. Shrinks
  <2> SUFFICES ASSUME NEW x \in Paths, outbox'[x] # outbox[x], outbox'[x] # None
               PROVE  /\ outbox[x] # None
                      /\ outbox'[x].mail = outbox[x].mail /\ outbox'[x].draft = None
    BY DEF Shrinks
  <2> QED
    BY <1>1, <1>2
<1> QED
  BY <1>7, <1>8

LEMMA LedgerCleanup ==
    ASSUME Ledger, NEW p \in Paths, Cleanup(p)
    PROVE  Ledger' /\ Shrinks
<1>1. /\ entities \subseteq Drafts /\ drafts \subseteq Drafts
      /\ sent \subseteq (DOMAIN journal) \X Paths /\ task \in Tasks
      /\ task.push \in DOMAIN journal /\ task.todo \subseteq DOMAIN Plan
      /\ task.pc = "cleanup" /\ outbox' = Cleaned(p)
      /\ task' = [task EXCEPT !.todo = task.todo \ {p}]
      /\ UNCHANGED <<entities, gmail, journal, crashes>>
      /\ journal[task.push].status = "applied"
  BY DEF Ledger, TypeOK, TaskIsJournalled, Settling, Cleanup
<1>2. outbox' \in [Paths -> Entries \cup {None}] /\ Shrinks
  BY <1>1, CleanedShrinks DEF Ledger
<1>3. /\ task' \in Tasks /\ task'.pc = "cleanup" /\ task'.push = task.push
      /\ task'.todo \subseteq DOMAIN Plan
  BY <1>1 DEF Tasks
<1>4. journal' \in Seq(Journals) /\ PlansStay /\ StatusesFit'
  BY <1>1 DEF Ledger, TypeOK, PlansStay, StatusesFit
<1>5. Ledger'
  BY <1>1, <1>2, <1>3, <1>4, LedgerGoesOn DEF First, gmail
<1> QED
  BY <1>2, <1>5

LEMMA LedgerCrash ==
    ASSUME Ledger, Crash
    PROVE  Ledger' /\ Loses
<1>1. /\ task' = Idle /\ crashes' = crashes + 1 /\ crashes < MaxCrashes
      /\ UNCHANGED <<entities, gmail, journal>>
  BY DEF Crash
<1>2. outbox' \in [Paths -> Entries \cup {None}] /\ Loses
  <2>1. CASE UNCHANGED outbox
    BY <2>1 DEF Ledger, TypeOK, Loses
  <2>2. CASE ~ UNCHANGED outbox
    <3>1. PICK p \in task.todo :
            outbox[SourceOf(p)] # None /\ outbox' = [outbox EXCEPT ![SourceOf(p)].mail = Gone]
      BY <2>2 DEF Crash
    <3>2. SourceOf(p) \in Paths
      BY <3>1, SourceType, TaskType DEF Ledger
    <3>3. outbox[SourceOf(p)] \in Entries
      BY <3>1, <3>2 DEF Ledger, TypeOK
    <3>4. LET e == [outbox[SourceOf(p)] EXCEPT !.mail = Gone]
          IN  e \in Entries /\ e.mail = Gone /\ e.draft = outbox[SourceOf(p)].draft
      BY <3>3 DEF Entries
    <3>5. None \notin Entries
      BY OutboxAssumption DEF Entries
    <3> QED
      BY <3>1, <3>2, <3>3, <3>4, <3>5 DEF Ledger, TypeOK, Loses
  <2> QED
    BY <2>1, <2>2
<1>3. TypeOK'
  BY <1>1, <1>2, OutboxAssumption, NoPlanType DEF Ledger, TypeOK, gmail
<1> QED
  BY <1>1, <1>2, <1>3 DEF Ledger, TaskIsJournalled, StatusesFit, First, Settling, Idle, Plan

LEMMA LedgerKept ==
    ASSUME Ledger, [Next]_vars
    PROVE  Ledger'
<1>1. CASE User
  BY <1>1, LedgerUser
<1>2. CASE Push
  BY <1>2, LedgerStart, LedgerResume DEF Push
<1>3. CASE MarkApplying \/ Check \/ RecordEffects \/ MarkApplied \/ ReadBack
           \/ ReconcileFails \/ Archive \/ Close
  BY <1>3, LedgerSteps
<1>4. CASE \E p \in Paths : Apply(p) \/ Cleanup(p)
  BY <1>4, LedgerApply, LedgerCleanup
<1>5. CASE Crash
  BY <1>5, LedgerCrash
<1>6. CASE UNCHANGED vars
  BY <1>6 DEF vars, gmail, Ledger, TypeOK, TaskIsJournalled, StatusesFit, First, Settling, Plan
<1> QED
  BY <1>1, <1>2, <1>3, <1>4, <1>5, <1>6 DEF Next, Daemon

\* Whatever the user, Gmail and the crashes do, the pending files, the journals and the
\* task stay what the daemon reads them as.
THEOREM TypeCorrect == Spec => []TypeOK
<1>1. Init => Ledger
  BY LedgerInit
<1>2. Ledger /\ [Next]_vars => Ledger'
  BY LedgerKept
<1>3. Ledger => TypeOK
  BY DEF Ledger
<1> QED
  BY <1>1, <1>2, <1>3, PTL DEF Spec

-----------------------------------------------------------------------------
(* What is out *)

SentType == \A s \in sent : s[1] \in DOMAIN journal /\ s[2] \in Paths /\ s = <<s[1], s[2]>>

LEMMA SentHasType ==
    ASSUME TypeOK
    PROVE  SentType
  BY DEF TypeOK, SentType

LEMMA SentIsKnownStart ==
    ASSUME Ledger, SentIsKnown, NEW plan \in Prepared, Start(plan)
    PROVE  SentIsKnown'
<1>1. plan \in Plans /\ SentType
  BY PreparedType, SentHasType DEF Ledger
<1>2. /\ DOMAIN journal' = DOMAIN journal \cup {Len(journal) + 1}
      /\ \A i \in DOMAIN journal : journal'[i] = journal[i]
      /\ journal'[Len(journal) + 1] = [plan |-> plan, status |-> "prepared", effects |-> FALSE]
      /\ task'.pc = "prepared" /\ sent' = sent
  BY <1>1, Appended DEF Ledger, Start, gmail
<1>3. SentIsPlanned'
  BY <1>1, <1>2 DEF SentIsKnown, SentIsPlanned, SentType
<1> QED
  BY <1>1, <1>2, <1>3 DEF SentIsKnown, EffectsAreOut, CheckComesFirst, TodoIsUnsent, FailedIsUnsent

\* A status is written, and nothing is sent.
LEMMA SentIsKnownStatus ==
    ASSUME Ledger, SentIsKnown, NEW i \in DOMAIN journal, NEW status \in Statuses,
           SetStatus(i, status), sent' = sent,
           status \in {"prepared", "reverted"} => \A p \in Paths : <<i, p>> \notin sent,
           status = "failed" /\ ~ journal[i].effects =>
             \E p \in DOMAIN journal[i].plan : <<i, p>> \notin sent,
           task'.pc = "check" => \A p \in Paths : <<task'.push, p>> \notin sent,
           task'.pc # "apply"
    PROVE  SentIsKnown'
<1>1. SentType /\ PlansStay
      /\ \A k \in DOMAIN journal :
           /\ journal'[k].effects = journal[k].effects
           /\ journal'[k].status = IF k = i THEN status ELSE journal[k].status
  BY StatusSet, SentHasType DEF Ledger
<1>2. EffectsAreOut'
  BY <1>1 DEF SentIsKnown, EffectsAreOut, PlansStay
<1>3. SentIsPlanned'
  <2> SUFFICES ASSUME NEW s \in sent
               PROVE  /\ s[2] \in DOMAIN journal'[s[1]].plan
                      /\ journal'[s[1]].status \notin {"prepared", "reverted"}
    BY DEF SentIsPlanned
  <2>1. s[1] \in DOMAIN journal /\ s[2] \in Paths /\ s = <<s[1], s[2]>>
    BY <1>1 DEF SentType
  <2>2. CASE s[1] = i
    BY <1>1, <2>1, <2>2 DEF SentIsKnown, SentIsPlanned, PlansStay
  <2>3. CASE s[1] # i
    BY <1>1, <2>1, <2>3 DEF SentIsKnown, SentIsPlanned, PlansStay
  <2> QED
    BY <2>2, <2>3
<1>4. CheckComesFirst' /\ TodoIsUnsent'
  BY DEF CheckComesFirst, TodoIsUnsent
<1>5. FailedIsUnsent'
  BY <1>1 DEF SentIsKnown, FailedIsUnsent, PlansStay
<1> QED
  BY <1>2, <1>3, <1>4, <1>5 DEF SentIsKnown

\* A mail of the plan may go out, and the push goes on or ends.
LEMMA SentIsKnownApply ==
    ASSUME Ledger, SentIsKnown, NEW p \in Paths, Apply(p)
    PROVE  SentIsKnown'
<1> DEFINE n == task.push
<1>1. /\ SentType /\ task.pc = "apply" /\ p \in task.todo /\ p \in DOMAIN Plan
      /\ n \in DOMAIN journal /\ <<n, p>> \notin sent
      /\ journal[n].status = "applying" /\ ~ journal[n].effects
  BY SentHasType DEF Ledger, TaskIsJournalled, Apply, IsNext, SentIsKnown, TodoIsUnsent
<1>2. CASE Accepted(p)
  <2>1. /\ sent' = sent \cup {<<n, p>>} /\ UNCHANGED journal
        /\ task'.pc = "apply" /\ task'.push = n /\ task'.todo = task.todo \ {p}
    BY <1>1, <1>2, TaskType DEF Accepted, GmailSends, Ledger, Tasks
  <2>2. EffectsAreOut' /\ CheckComesFirst'
    BY <2>1 DEF SentIsKnown, EffectsAreOut, CheckComesFirst
  <2>3. SentIsPlanned'
    BY <1>1, <2>1 DEF SentIsKnown, SentIsPlanned, Plan
  <2>4. TodoIsUnsent'
    BY <1>1, <2>1 DEF SentIsKnown, TodoIsUnsent, Plan
  <2>5. FailedIsUnsent'
    <3> SUFFICES ASSUME NEW i \in DOMAIN journal, journal[i].status = "failed", ~ journal[i].effects
                 PROVE  \E q \in DOMAIN journal[i].plan : <<i, q>> \notin sent'
      BY <2>1 DEF FailedIsUnsent
    <3>1. PICK q \in DOMAIN journal[i].plan : <<i, q>> \notin sent
      BY DEF SentIsKnown, FailedIsUnsent
    <3>2. i # n
      BY <1>1
    <3> QED
      BY <2>1, <3>1, <3>2
  <2> QED
    BY <2>2, <2>3, <2>4, <2>5 DEF SentIsKnown
<1>3. CASE NoAnswer(p)
  <2>1. SetStatus(n, "ambiguous") /\ task' = Idle /\ (sent' = sent \cup {<<n, p>>} \/ sent' = sent)
    BY <1>3 DEF NoAnswer, GmailSends, gmail, Ends
  <2>2. /\ PlansStay
        /\ \A k \in DOMAIN journal :
             /\ journal'[k].effects = journal[k].effects
             /\ journal'[k].status = IF k = n THEN "ambiguous" ELSE journal[k].status
    BY <1>1, <2>1, StatusSet DEF Ledger, Statuses
  <2>3. EffectsAreOut'
    BY <2>1, <2>2 DEF SentIsKnown, EffectsAreOut, PlansStay
  <2>4. CheckComesFirst' /\ TodoIsUnsent'
    BY <2>1 DEF CheckComesFirst, TodoIsUnsent, Idle
  <2>5. SentIsPlanned'
    <3> SUFFICES ASSUME NEW s \in sent'
                 PROVE  /\ s[2] \in DOMAIN journal'[s[1]].plan
                        /\ journal'[s[1]].status \notin {"prepared", "reverted"}
      BY DEF SentIsPlanned
    <3>1. s \in sent \/ s = <<n, p>>
      BY <2>1
    <3>2. s[1] \in DOMAIN journal /\ s[2] \in DOMAIN journal[s[1]].plan
          /\ journal[s[1]].status \notin {"prepared", "reverted"}
      BY <1>1, <3>1 DEF SentType, SentIsKnown, SentIsPlanned, Plan
    <3> QED
      BY <2>2, <3>2 DEF PlansStay
  <2>6. FailedIsUnsent'
    <3> SUFFICES ASSUME NEW i \in DOMAIN journal', journal'[i].status = "failed", ~ journal'[i].effects
                 PROVE  \E q \in DOMAIN journal'[i].plan : <<i, q>> \notin sent'
      BY DEF FailedIsUnsent
    <3>1. i \in DOMAIN journal /\ i # n /\ journal[i].status = "failed" /\ ~ journal[i].effects
      BY <2>2 DEF PlansStay
    <3>2. PICK q \in DOMAIN journal[i].plan : <<i, q>> \notin sent
      BY <3>1 DEF SentIsKnown, FailedIsUnsent
    <3> QED
      BY <2>1, <2>2, <3>1, <3>2 DEF PlansStay
  <2> QED
    BY <2>3, <2>4, <2>5, <2>6 DEF SentIsKnown
<1>4. CASE Rejected(p)
  <2>1. SetStatus(n, "failed") /\ task'.pc = "idle" /\ sent' = sent
    BY <1>4 DEF Rejected, gmail, Ends, Idle
  <2> QED
    BY <1>1, <2>1, SentIsKnownStatus DEF Statuses, Plan
<1> QED
  BY <1>2, <1>3, <1>4 DEF Apply

LEMMA SentIsKnownSame ==
    ASSUME SentIsKnown, UNCHANGED <<journal, sent>>, task'.pc \notin {"check", "apply"}
    PROVE  SentIsKnown'
  BY DEF SentIsKnown, EffectsAreOut, SentIsPlanned, CheckComesFirst, TodoIsUnsent, FailedIsUnsent

LEMMA SentIsKnownKept ==
    ASSUME Ledger, SentIsKnown, [Next]_vars
    PROVE  SentIsKnown'
<1> DEFINE n == task.push
<1>0. /\ task = [pc |-> task.pc, push |-> n, todo |-> task.todo, cleanup |-> task.cleanup]
      /\ SentType
      /\ task.pc # "idle" => n \in DOMAIN journal
  BY TaskType, SentHasType DEF Ledger, TaskIsJournalled
<1>1. CASE User \/ UNCHANGED vars
  <2> UNCHANGED <<sent, journal, task>>
    BY <1>1 DEF User, Write, MoveDraft, Discard, vars, gmail
  <2> QED
    BY DEF SentIsKnown, EffectsAreOut, SentIsPlanned, CheckComesFirst, TodoIsUnsent,
           FailedIsUnsent, Plan
<1>2. CASE Push
  <2>1. PICK plan \in Prepared : Start(plan) \/ Resume(plan)
    BY <1>2 DEF Push
  <2>2. CASE Resume(plan)
    <3>1. PICK i \in Resumed(plan) :
            SetStatus(i, "applied") /\ task'.pc = "readback" /\ sent' = sent
      BY <2>2 DEF Resume, gmail
    <3>2. i \in DOMAIN journal
      BY DEF Resumed, Unreconciled
    <3> QED
      BY <3>1, <3>2, SentIsKnownStatus DEF Statuses
  <2> QED
    BY <2>1, <2>2, SentIsKnownStart
<1>3. CASE MarkApplying
  <2>1. /\ task.pc = "prepared" /\ SetStatus(n, "applying") /\ sent' = sent
        /\ task'.pc = "check" /\ task'.push = n
    BY <1>0, <1>3 DEF MarkApplying, gmail
  <2>2. \A p \in Paths : <<n, p>> \notin sent
    BY <2>1 DEF SentIsKnown, SentIsPlanned, Ledger, TaskIsJournalled
  <2> QED
    BY <1>0, <2>1, <2>2, SentIsKnownStatus DEF Statuses
<1>4. CASE Check
  <2>1. task.pc = "check" /\ sent' = sent /\ \A p \in Paths : <<n, p>> \notin sent
    BY <1>4 DEF Check, gmail, SentIsKnown, CheckComesFirst
  <2>2. CASE Ends("reverted")
    BY <1>0, <2>1, <2>2, SentIsKnownStatus DEF Statuses, Ends, Idle
  <2>3. CASE task' = [task EXCEPT !.pc = "apply", !.todo = DOMAIN Plan] /\ UNCHANGED journal
    <3>1. task'.pc = "apply" /\ task'.push = n /\ task'.todo = DOMAIN Plan
      BY <1>0, <2>3
    <3>2. DOMAIN Plan \subseteq Paths
      BY <1>0, <2>1, JournalType, PlanType DEF Plan, Ledger
    <3>3. TodoIsUnsent'
      BY <2>1, <2>3, <3>1, <3>2 DEF TodoIsUnsent, Plan
    <3> QED
      BY <2>1, <2>3, <3>1, <3>3
      DEF SentIsKnown, EffectsAreOut, SentIsPlanned, CheckComesFirst, FailedIsUnsent
  <2> QED
    BY <1>4, <2>2, <2>3 DEF Check
<1>5. CASE RecordEffects
  <2>1. /\ task.pc = "apply" /\ task.todo = {} /\ sent' = sent /\ task'.pc = "applied"
        /\ journal' = [journal EXCEPT ![n].effects = TRUE]
    BY <1>0, <1>5 DEF RecordEffects, gmail
  <2>2. /\ PlansStay
        /\ \A k \in DOMAIN journal :
             /\ journal'[k].effects = (IF k = n THEN TRUE ELSE journal[k].effects)
             /\ journal'[k].status = journal[k].status
    BY <1>0, <2>1, EffectsSet DEF Ledger
  <2>3. \A p \in DOMAIN Plan : <<n, p>> \in sent
    BY <2>1 DEF SentIsKnown, TodoIsUnsent
  <2>4. EffectsAreOut'
    BY <2>1, <2>2, <2>3 DEF SentIsKnown, EffectsAreOut, PlansStay, Plan
  <2>5. SentIsPlanned'
    BY <1>0, <2>1, <2>2 DEF SentIsKnown, SentIsPlanned, SentType, PlansStay
  <2>6. FailedIsUnsent'
    BY <2>1, <2>2 DEF SentIsKnown, FailedIsUnsent, PlansStay
  <2> QED
    BY <2>1, <2>4, <2>5, <2>6 DEF SentIsKnown, CheckComesFirst, TodoIsUnsent
<1>6. CASE MarkApplied
  <2> /\ task.pc = "applied" /\ SetStatus(n, "applied") /\ sent' = sent /\ task'.pc = "readback"
    BY <1>0, <1>6 DEF MarkApplied, gmail
  <2> QED
    BY <1>0, SentIsKnownStatus DEF Statuses
<1>7. CASE ReconcileFails \/ Close
  <2>1. /\ task.pc \in {"readback", "cleanup", "close"} /\ sent' = sent /\ task'.pc = "idle"
        /\ \E status \in {"failed", "reconciled"} : SetStatus(n, status)
    BY <1>7 DEF ReconcileFails, Close, Ends, Idle, gmail
  <2>2. journal[n].effects
    BY <1>0, <2>1 DEF Ledger, TaskIsJournalled, Settling, StatusesFit
  <2> QED
    BY <1>0, <2>1, <2>2, SentIsKnownStatus DEF Statuses
<1>8. CASE ReadBack \/ Archive \/ \E p \in Paths : Cleanup(p)
  <2> UNCHANGED <<journal, sent>> /\ task'.pc \in {"cleanup", "close"}
    BY <1>0, <1>8 DEF ReadBack, Archive, Cleanup, gmail
  <2> QED
    BY SentIsKnownSame
<1>9. CASE \E p \in Paths : Apply(p)
  BY <1>9, SentIsKnownApply
<1>10. CASE Crash
  <2> UNCHANGED <<journal, sent>> /\ task'.pc = "idle"
    BY <1>10 DEF Crash, Idle, gmail
  <2> QED
    BY SentIsKnownSame
<1> QED
  BY <1>1, <1>2, <1>3, <1>4, <1>5, <1>6, <1>7, <1>8, <1>9, <1>10 DEF Next, Daemon

-----------------------------------------------------------------------------
(* What a step can do to the outbox, the journals and what is out *)

WritesAt(p, m, d) == outbox' = [outbox EXCEPT ![p] = [mail |-> m, draft |-> d]]

\* A fresh mail is written.
Writes ==
    \E p \in Paths, m \in Fresh, d \in Drafts \cup {None} :
      /\ WritesAt(p, m, d)
      /\ d # None => \A q \in Pending : outbox[q].draft = d => q = p
      /\ UNCHANGED <<journal, sent, drafts, task>>

\* A push of what is pending starts.
Starts(plan) ==
    /\ plan \in Prepared /\ task.pc = "idle" /\ ~ Blocked(plan) /\ ~ Refused(plan) /\ Start(plan)

\* At most one mail of the plan goes out.
Sends ==
    /\ drafts' \subseteq drafts /\ sent \subseteq sent'
    /\ \A s \in sent' \ sent :
         /\ task.pc = "apply" /\ s[1] = task.push /\ s[2] \in DOMAIN Plan
         /\ s = <<s[1], s[2]>> /\ sent' = sent \cup {s}
         /\ Plan[s[2]].draft \in drafts \cup {None} /\ Plan[s[2]].draft \notin drafts'
         /\ PlansStay /\ outbox' = outbox

LEMMA OutboxSteps ==
    ASSUME Ledger, DraftsAreSpent, [Next]_vars
    PROVE  /\ Writes \/ Loses \/ \E p \in Paths : Cleanup(p)
           /\ Writes \/ Shrinks
<1>0. Loses => Shrinks
  BY DEF Loses, Shrinks
<1>1. CASE \E p \in Paths : Write(p)
  <2>1. PICK p \in Paths, m \in Fresh :
          outbox' = [outbox EXCEPT ![p] =
                       [mail |-> m, draft |-> IF outbox[p] = None THEN None ELSE outbox[p].draft]]
    BY <1>1 DEF Write
  <2> DEFINE d == IF outbox[p] = None THEN None ELSE outbox[p].draft
  <2>2. d \in Drafts \cup {None}
    BY OutboxType DEF Ledger, Pending
  <2>3. d # None => \A q \in Pending : outbox[q].draft = d => q = p
    BY DEF DraftsAreSpent, DraftsPendOnce, Pending
  <2>4. UNCHANGED <<journal, sent, drafts, task>>
    BY <1>1 DEF Write, gmail
  <2> QED
    BY <2>1, <2>2, <2>3, <2>4 DEF Writes, WritesAt
<1>2. CASE \E d \in Drafts, p \in Paths : MoveDraft(d, p)
  <2> Writes
    BY <1>2 DEF MoveDraft, Writes, WritesAt, gmail
  <2> QED
    OBVIOUS
<1>3. CASE \E p \in Paths : Discard(p)
  BY <1>0, <1>3 DEF Discard, Loses, Ledger, TypeOK
<1>4. CASE Crash
  BY <1>0, <1>4, LedgerCrash
<1>5. CASE \E p \in Paths : Cleanup(p)
  BY <1>5, LedgerCleanup
<1>6. CASE UNCHANGED outbox
  BY <1>0, <1>6 DEF Loses
<1> QED
  BY <1>1, <1>2, <1>3, <1>4, <1>5, <1>6
  DEF Next, User, Daemon, Push, Start, Resume, MarkApplying, Check, RecordEffects, MarkApplied,
      ReadBack, ReconcileFails, Archive, Close, Apply, vars

LEMMA JournalSteps ==
    ASSUME Ledger, [Next]_vars
    PROVE  PlansStay \/ \E plan \in Prepared : Starts(plan)
<1>0. task.pc # "idle" => task.push \in DOMAIN journal
  BY DEF Ledger, TaskIsJournalled
<1>1. CASE UNCHANGED journal
  BY <1>1 DEF PlansStay
<1>2. CASE Push
  <2>1. PICK plan \in Prepared : Starts(plan) \/ Resume(plan)
    BY <1>2 DEF Push, Starts
  <2>2. CASE Resume(plan)
    <3>1. PICK i \in Resumed(plan) : SetStatus(i, "applied")
      BY <2>2 DEF Resume
    <3>2. i \in DOMAIN journal
      BY DEF Resumed, Unreconciled
    <3> QED
      BY <3>1, <3>2, StatusSet DEF Ledger, Statuses
  <2> QED
    BY <2>1, <2>2
<1>3. CASE RecordEffects
  BY <1>0, <1>3, EffectsSet DEF RecordEffects, Ledger
<1>4. CASE task.pc # "idle" /\ \E status \in Statuses : SetStatus(task.push, status)
  BY <1>0, <1>4, StatusSet DEF Ledger
<1>5. CASE User \/ ReadBack \/ Archive \/ Crash \/ UNCHANGED vars \/ \E p \in Paths : Cleanup(p)
  BY <1>1, <1>5 DEF User, Write, MoveDraft, Discard, ReadBack, Archive, Crash, Cleanup, vars
<1>6. CASE MarkApplying \/ Check \/ MarkApplied \/ ReconcileFails \/ Close
           \/ \E p \in Paths : Apply(p)
  BY <1>1, <1>4, <1>6
  DEF MarkApplying, Check, MarkApplied, ReconcileFails, Close, Apply, Accepted, NoAnswer, Rejected,
      Ends, Statuses
<1> QED
  BY <1>2, <1>3, <1>5, <1>6 DEF Next, Daemon

LEMMA SendSteps ==
    ASSUME Ledger, [Next]_vars
    PROVE  Sends
<1>1. CASE UNCHANGED gmail
  BY <1>1 DEF Sends, gmail
<1>2. CASE \E p \in Paths : Apply(p) /\ GmailSends(p)
  <2>1. PICK p \in Paths : Apply(p) /\ GmailSends(p)
    BY <1>2
  <2>2. /\ task.pc = "apply" /\ p \in DOMAIN Plan /\ task.push \in DOMAIN journal
        /\ outbox' = outbox /\ sent' = sent \cup {<<task.push, p>>}
        /\ drafts' = drafts \ {Plan[p].draft}
    BY <2>1 DEF Apply, IsNext, GmailSends, Ledger, TaskIsJournalled
  <2>3. Accepted(p) \/ NoAnswer(p) \/ Rejected(p)
    BY <2>1 DEF Apply
  <2>4. Plan[p].draft \in drafts \cup {None} \/ UNCHANGED gmail
    BY <2>3 DEF Accepted, NoAnswer, Rejected
  <2>5. PlansStay
    BY <2>2, <2>3, StatusSet
    DEF Accepted, NoAnswer, Rejected, Ends, PlansStay, Ledger, Statuses
  <2> QED
    BY <1>1, <2>2, <2>4, <2>5 DEF Sends
<1>3. CASE \E p \in Paths : Apply(p)
  BY <1>1, <1>2, <1>3 DEF Apply, Accepted, NoAnswer, Rejected
<1>4. CASE User \/ Push
  <2> UNCHANGED gmail
    BY <1>4 DEF User, Write, MoveDraft, Discard, Push, Start, Resume
  <2> QED
    BY <1>1
<1>5. CASE MarkApplying \/ Check \/ RecordEffects \/ MarkApplied \/ ReadBack \/ ReconcileFails
           \/ Archive \/ Close \/ Crash \/ UNCHANGED vars \/ \E p \in Paths : Cleanup(p)
  BY <1>1, <1>5
  DEF MarkApplying, Check, RecordEffects, MarkApplied, ReadBack, ReconcileFails, Archive, Close,
      Cleanup, Crash, vars, gmail
<1> QED
  BY <1>3, <1>4, <1>5 DEF Next, Daemon

-----------------------------------------------------------------------------
(* Drafts and mails *)

LEMMA StartFacts ==
    ASSUME Ledger, NEW plan \in Prepared, Starts(plan)
    PROVE  LET n == Len(journal) + 1
           IN  /\ DOMAIN journal' = DOMAIN journal \cup {n} /\ n \notin DOMAIN journal /\ n \in Nat
               /\ \A i \in DOMAIN journal : i < n /\ i \in Nat /\ journal'[i] = journal[i]
               /\ journal'[n].plan = plan /\ journal'[n].status = "prepared" /\ ~ journal'[n].effects
               /\ task' = [pc |-> "prepared", push |-> n, todo |-> {}, cleanup |-> plan]
               /\ UNCHANGED <<outbox, entities, drafts, sent, crashes>>
               /\ DOMAIN plan \subseteq Pending /\ DOMAIN plan # {}
               /\ \A p \in DOMAIN plan : plan[p] = outbox[p]
<1>1. plan \in Plans /\ DOMAIN plan \subseteq Pending /\ DOMAIN plan # {}
      /\ \A p \in DOMAIN plan : plan[p] = outbox[p]
  BY PreparedType DEF Ledger
<1>2. /\ Len(journal) \in Nat /\ DOMAIN journal = 1 .. Len(journal)
      /\ \A i \in DOMAIN journal : i < Len(journal) + 1 /\ i \in Nat
      /\ Len(journal) + 1 \notin DOMAIN journal
  BY JournalType DEF Ledger
<1> QED
  BY <1>1, <1>2, Appended DEF Starts, Start, Ledger, gmail

\* The plans in the journal stay as they are.
PlansKept == \A i \in DOMAIN journal : i \in DOMAIN journal' /\ journal'[i].plan = journal[i].plan

LEMMA PlansAreKept ==
    ASSUME Ledger, [Next]_vars
    PROVE  PlansKept
  BY JournalSteps, StartFacts DEF PlansKept, PlansStay

\* What is pending after a step without a new mail was pending before.
LEMMA ShrunkPending ==
    ASSUME Ledger, Shrinks
    PROVE  \A p \in Pending' :
             /\ p \in Pending
             /\ outbox'[p].mail \in {outbox[p].mail, Gone}
             /\ outbox'[p].draft \in {outbox[p].draft, None}
             /\ outbox'[p].draft = outbox[p].draft \/ outbox'[p].mail = outbox[p].mail
  BY DEF Shrinks, Pending

LEMMA WrittenPending ==
    ASSUME Ledger, NEW p \in Paths, NEW m \in Fresh, NEW d \in Drafts \cup {None}, WritesAt(p, m, d)
    PROVE  /\ \A q \in Pending' : q # p => q \in Pending /\ outbox'[q] = outbox[q]
           /\ p \in Pending' => outbox'[p].mail = m /\ outbox'[p].draft = d
           /\ m # Gone
           /\ \A q \in Pending : outbox[q].mail # m
           /\ \A i \in DOMAIN journal : \A q \in DOMAIN journal[i].plan : journal[i].plan[q].mail # m
<1>1. m \in Mails /\ m # Gone
  BY OutboxAssumption DEF Fresh
<1>2. \A q \in Pending : outbox[q].mail # m
  BY DEF Fresh
<1>3. \A i \in DOMAIN journal : \A q \in DOMAIN journal[i].plan : journal[i].plan[q].mail # m
  BY DEF Fresh
<1> QED
  BY <1>1, <1>2, <1>3 DEF WritesAt, Ledger, TypeOK, Pending

LEMMA DraftsAreSpentKept ==
    ASSUME Ledger, SentIsKnown, DraftsAreSpent, [Next]_vars
    PROVE  DraftsAreSpent'
<1>0. SentType /\ Sends /\ PlansKept
  BY SentHasType, SendSteps, PlansAreKept DEF Ledger
<1>1. \A s \in sent : DraftOf(s)' = DraftOf(s)
  BY <1>0 DEF PlansKept, SentType, DraftOf
<1>2. \A s \in sent' \ sent : DraftOf(s)' = Plan[s[2]].draft
  BY <1>0 DEF Sends, DraftOf, Plan, PlansStay, Ledger, TaskIsJournalled
<1>3. DraftsAreGone'
  <2> SUFFICES ASSUME NEW s \in sent', DraftOf(s)' # None
               PROVE  DraftOf(s)' \notin drafts'
    BY DEF DraftsAreGone
  <2>1. CASE s \in sent
    BY <1>0, <1>1, <2>1 DEF DraftsAreSpent, DraftsAreGone, Sends
  <2>2. CASE s \notin sent
    BY <1>0, <1>2, <2>2 DEF Sends
  <2> QED
    BY <2>1, <2>2
<1>4. DraftsAreSentOnce'
  <2>1. \A s \in sent, t \in sent' \ sent : DraftOf(s)' # DraftOf(t)' \/ DraftOf(s)' = None
    BY <1>0, <1>1, <1>2 DEF DraftsAreSpent, DraftsAreGone, Sends
  <2>2. \A s, t \in sent' \ sent : s = t
    BY <1>0 DEF Sends
  <2> QED
    BY <1>0, <1>1, <2>1, <2>2 DEF DraftsAreSpent, DraftsAreSentOnce, Sends
<1>5. DraftsPendOnce'
  <2>1. CASE Shrinks
    BY <2>1, ShrunkPending DEF DraftsAreSpent, DraftsPendOnce
  <2>2. CASE Writes
    <3>1. PICK p \in Paths, m \in Fresh, d \in Drafts \cup {None} :
            /\ WritesAt(p, m, d)
            /\ d # None => \A q \in Pending : outbox[q].draft = d => q = p
      BY <2>2 DEF Writes
    <3>2. /\ \A q \in Pending' : q # p => q \in Pending /\ outbox'[q] = outbox[q]
          /\ p \in Pending' => outbox'[p].draft = d
      BY <3>1, WrittenPending
    <3> QED
      BY <3>1, <3>2 DEF DraftsAreSpent, DraftsPendOnce
  <2> QED
    BY <2>1, <2>2, OutboxSteps
<1>6. DraftsArePlannedOnce'
  <2>1. CASE PlansStay
    BY <2>1 DEF DraftsAreSpent, DraftsArePlannedOnce, PlansStay
  <2>2. CASE \E plan \in Prepared : Starts(plan)
    <3>1. PICK plan \in Prepared : Starts(plan)
      BY <2>2
    <3> DEFINE n == Len(journal) + 1
    <3>2. /\ DOMAIN journal' = DOMAIN journal \cup {n}
          /\ \A i \in DOMAIN journal : journal'[i] = journal[i]
          /\ journal'[n].plan = plan /\ DOMAIN plan \subseteq Pending
          /\ \A p \in DOMAIN plan : plan[p] = outbox[p]
      BY <3>1, StartFacts
    <3> QED
      BY <3>2 DEF DraftsAreSpent, DraftsArePlannedOnce, DraftsPendOnce
  <2> QED
    BY <2>1, <2>2, JournalSteps
<1> QED
  BY <1>3, <1>4, <1>5, <1>6 DEF DraftsAreSpent

LEMMA MailsHavePlacesKept ==
    ASSUME Ledger, DraftsAreSpent, MailsHavePlaces, [Next]_vars
    PROVE  MailsHavePlaces'
<1>1. CASE \E plan \in Prepared : Starts(plan)
  <2>1. PICK plan \in Prepared : Starts(plan)
    BY <1>1
  <2> DEFINE n == Len(journal) + 1
  <2>2. /\ DOMAIN journal' = DOMAIN journal \cup {n}
        /\ \A i \in DOMAIN journal : journal'[i] = journal[i]
        /\ journal'[n].plan = plan /\ DOMAIN plan \subseteq Pending /\ outbox' = outbox
        /\ \A p \in DOMAIN plan : plan[p] = outbox[p]
    BY <2>1, StartFacts
  <2>3. MailsPendOnce'
    BY <2>2 DEF MailsHavePlaces, MailsPendOnce, Pending
  <2>4. MailsPendInPlace'
    BY <2>2 DEF MailsHavePlaces, MailsPendOnce, MailsPendInPlace, Pending
  <2>5. MailsArePlannedInPlace'
    BY <2>2 DEF MailsHavePlaces, MailsPendOnce, MailsPendInPlace, MailsArePlannedInPlace
  <2> QED
    BY <2>3, <2>4, <2>5 DEF MailsHavePlaces
<1>2. CASE PlansStay /\ Shrinks
  <2>1. MailsPendOnce'
    BY <1>2, ShrunkPending DEF MailsHavePlaces, MailsPendOnce
  <2>2. MailsPendInPlace'
    BY <1>2, ShrunkPending DEF MailsHavePlaces, MailsPendInPlace, PlansStay
  <2>3. MailsArePlannedInPlace'
    BY <1>2 DEF MailsHavePlaces, MailsArePlannedInPlace, PlansStay
  <2> QED
    BY <2>1, <2>2, <2>3 DEF MailsHavePlaces
<1>3. CASE PlansStay /\ Writes
  <2>1. PICK p \in Paths, m \in Fresh, d \in Drafts \cup {None} : WritesAt(p, m, d)
    BY <1>3 DEF Writes
  <2>2. /\ \A q \in Pending' : q # p => q \in Pending /\ outbox'[q] = outbox[q]
        /\ p \in Pending' => outbox'[p].mail = m
        /\ \A q \in Pending : outbox[q].mail # m
        /\ \A i \in DOMAIN journal : \A q \in DOMAIN journal[i].plan : journal[i].plan[q].mail # m
    BY <2>1, WrittenPending
  <2>3. MailsPendOnce'
    BY <2>2 DEF MailsHavePlaces, MailsPendOnce
  <2>4. MailsPendInPlace'
    BY <1>3, <2>2 DEF MailsHavePlaces, MailsPendInPlace, PlansStay
  <2>5. MailsArePlannedInPlace'
    BY <1>3 DEF MailsHavePlaces, MailsArePlannedInPlace, PlansStay
  <2> QED
    BY <2>3, <2>4, <2>5 DEF MailsHavePlaces
<1> QED
  BY <1>1, <1>2, <1>3, OutboxSteps, JournalSteps

LEMMA PendingSinceKept ==
    ASSUME Ledger, DraftsAreSpent, PendingSince, [Next]_vars
    PROVE  PendingSince'
<1>1. CASE \E plan \in Prepared : Starts(plan)
  <2>1. PICK plan \in Prepared : Starts(plan)
    BY <1>1
  <2> DEFINE n == Len(journal) + 1
  <2>2. /\ DOMAIN journal' = DOMAIN journal \cup {n}
        /\ \A i \in DOMAIN journal : journal'[i] = journal[i] /\ i < n /\ i \in Nat
        /\ journal'[n].plan = plan /\ outbox' = outbox /\ n \in Nat
        /\ \A p \in DOMAIN plan : plan[p] = outbox[p]
    BY <2>1, StartFacts
  <2> HIDE DEF n
  <2> SUFFICES ASSUME NEW i \in DOMAIN journal', NEW k \in DOMAIN journal', i < k, NEW p \in Pending',
                      p \in DOMAIN journal'[i].plan, p \in DOMAIN journal'[k].plan,
                      outbox'[p].mail = journal'[i].plan[p].mail, outbox'[p].mail # Gone
               PROVE  journal'[k].plan[p].mail = outbox'[p].mail
    BY DEF PendingSince
  <2>3. i \in DOMAIN journal /\ p \in Pending
    BY <2>2 DEF Pending
  <2>4. CASE k = n
    BY <2>2, <2>4
  <2>5. CASE k \in DOMAIN journal
    BY <2>2, <2>3, <2>5 DEF PendingSince
  <2> QED
    BY <2>2, <2>4, <2>5
<1>2. CASE PlansStay /\ Shrinks
  BY <1>2, ShrunkPending DEF PendingSince, PlansStay
<1>3. CASE PlansStay /\ Writes
  <2>1. PICK p \in Paths, m \in Fresh, d \in Drafts \cup {None} : WritesAt(p, m, d)
    BY <1>3 DEF Writes
  <2>2. /\ \A q \in Pending' : q # p => q \in Pending /\ outbox'[q] = outbox[q]
        /\ p \in Pending' => outbox'[p].mail = m
        /\ \A i \in DOMAIN journal : \A q \in DOMAIN journal[i].plan : journal[i].plan[q].mail # m
    BY <2>1, WrittenPending
  <2> QED
    BY <1>3, <2>2 DEF PendingSince, PlansStay
<1> QED
  BY <1>1, <1>2, <1>3, OutboxSteps, JournalSteps

-----------------------------------------------------------------------------
(* What is cleaned up *)

\* What a fresh mail or a smaller outbox leaves of a planned mail.
LEMMA NotPendingKept ==
    ASSUME Ledger, DraftsAreSpent, [Next]_vars,
           NEW i \in DOMAIN journal, NEW p \in DOMAIN journal[i].plan, NotPending(i, p)
    PROVE  NotPending(i, p)'
<1>1. journal'[i].plan = journal[i].plan
  BY PlansAreKept DEF PlansKept
<1>2. CASE Shrinks
  BY <1>1, <1>2, ShrunkPending DEF NotPending
<1>3. CASE Writes
  <2>1. PICK q \in Paths, m \in Fresh, d \in Drafts \cup {None} : WritesAt(q, m, d)
    BY <1>3 DEF Writes
  <2>2. /\ \A x \in Pending' : x # q => x \in Pending /\ outbox'[x] = outbox[x]
        /\ q \in Pending' => outbox'[q].mail = m
        /\ journal[i].plan[p].mail # m
    BY <2>1, WrittenPending
  <2> QED
    BY <1>1, <2>2 DEF NotPending
<1> QED
  BY <1>2, <1>3, OutboxSteps

\* A push whose effects are recorded, or that the daemon is in, was so before.
LEMMA HoldsBefore ==
    ASSUME Ledger, [Next]_vars, NEW i \in DOMAIN journal, Holds(i)'
    PROVE  Holds(i)
<1>0. /\ task = [pc |-> task.pc, push |-> task.push, todo |-> task.todo, cleanup |-> task.cleanup]
      /\ task.pc # "idle" => task.push \in DOMAIN journal
  BY TaskType DEF Ledger, TaskIsJournalled
<1>1. CASE User \/ UNCHANGED vars
  BY <1>1 DEF User, Write, MoveDraft, Discard, vars, Holds
<1>2. CASE Push
  <2>1. PICK plan \in Prepared : Starts(plan) \/ Resume(plan)
    BY <1>2 DEF Push, Starts
  <2>2. CASE Starts(plan)
    <3>1. i < Len(journal) + 1 /\ i \in Nat /\ journal'[i] = journal[i]
          /\ task'.push = Len(journal) + 1
      BY <2>2, StartFacts
    <3> QED
      BY <3>1 DEF Holds
  <2>3. CASE Resume(plan)
    <3>1. PICK k \in Resumed(plan) : SetStatus(k, "applied") /\ task'.push = k
      BY <2>3 DEF Resume
    <3>2. k \in DOMAIN journal /\ journal[k].effects
      BY DEF Resumed, Unreconciled, Resumable
    <3>3. journal'[i].effects = journal[i].effects
      BY <3>1, <3>2, StatusSet DEF Ledger, Statuses
    <3> QED
      BY <3>1, <3>2, <3>3 DEF Holds
  <2> QED
    BY <2>1, <2>2, <2>3
<1>3. CASE RecordEffects
  <2>1. task.pc = "apply" /\ task'.push = task.push
    BY <1>0, <1>3 DEF RecordEffects
  <2>2. journal'[i].effects = (IF i = task.push THEN TRUE ELSE journal[i].effects)
    BY <1>0, <1>3, <2>1, EffectsSet DEF RecordEffects, Ledger
  <2> QED
    BY <2>1, <2>2 DEF Holds
<1>4. CASE /\ task.pc # "idle" /\ \E status \in Statuses : SetStatus(task.push, status)
           /\ task'.pc # "idle" => task'.push = task.push
  <2>1. journal'[i].effects = journal[i].effects
    BY <1>0, <1>4, StatusSet DEF Ledger
  <2> QED
    BY <1>4, <2>1 DEF Holds
<1>5. CASE /\ UNCHANGED journal
           /\ task'.pc # "idle" => task.pc # "idle" /\ task'.push = task.push
  BY <1>5 DEF Holds
<1>6. CASE ReadBack \/ Archive \/ Crash \/ \E p \in Paths : Cleanup(p)
  <2>1. UNCHANGED journal
    BY <1>6 DEF ReadBack, Archive, Crash, Cleanup
  <2>2. CASE ReadBack \/ Archive
    BY <1>0, <1>5, <2>1, <2>2 DEF ReadBack, Archive
  <2>3. CASE Crash
    BY <1>5, <2>1, <2>3 DEF Crash, Idle
  <2>4. CASE \E p \in Paths : Cleanup(p)
    BY <1>0, <1>5, <2>1, <2>4 DEF Cleanup
  <2> QED
    BY <1>6, <2>2, <2>3, <2>4
<1>7. CASE MarkApplying \/ Check \/ MarkApplied \/ ReconcileFails \/ Close
  <2>1. CASE MarkApplying \/ MarkApplied
    BY <1>0, <1>4, <2>1 DEF MarkApplying, MarkApplied, Statuses
  <2>2. CASE ReconcileFails \/ Close
    BY <1>4, <2>2 DEF ReconcileFails, Close, Ends, Statuses, Idle
  <2>3. CASE Check /\ Ends("reverted")
    BY <1>4, <2>3 DEF Check, Ends, Statuses, Idle
  <2>4. CASE Check /\ ~ Ends("reverted")
    BY <1>0, <1>5, <2>4 DEF Check
  <2> QED
    BY <1>7, <2>1, <2>2, <2>3, <2>4
<1>8. CASE \E p \in Paths : Apply(p)
  BY <1>0, <1>4, <1>5, <1>8 DEF Apply, Accepted, NoAnswer, Rejected, Ends, Statuses, Idle
<1> QED
  BY <1>1, <1>2, <1>3, <1>6, <1>7, <1>8 DEF Next, Daemon

\* While the daemon is in a push, what it cleans up after stays.
LEMMA CleanupBefore ==
    ASSUME Ledger, [Next]_vars, task.pc # "idle", task'.pc # "idle"
    PROVE  task'.push = task.push /\ task'.cleanup = task.cleanup
<1>0. task = [pc |-> task.pc, push |-> task.push, todo |-> task.todo, cleanup |-> task.cleanup]
  BY TaskType DEF Ledger
<1>1. CASE User \/ Push \/ Crash \/ UNCHANGED vars
  BY <1>1 DEF User, Write, MoveDraft, Discard, Push, Crash, Idle, vars
<1>2. CASE MarkApplying \/ RecordEffects
  BY <1>0, <1>2 DEF MarkApplying, RecordEffects
<1>6. CASE Check
  <2>1. task' = Idle \/ task' = [task EXCEPT !.pc = "apply", !.todo = DOMAIN Plan]
    BY <1>6 DEF Check, Ends
  <2>2. CASE task' = Idle
    BY <2>2 DEF Idle
  <2>3. CASE task' = [task EXCEPT !.pc = "apply", !.todo = DOMAIN Plan]
    <3> DEFINE todo == DOMAIN Plan
    <3>1. task' = [task EXCEPT !.pc = "apply", !.todo = todo]
      BY <2>3
    <3> HIDE DEF todo
    <3> QED
      BY <1>0, <3>1
  <2> QED
    BY <2>1, <2>2, <2>3
<1>4. CASE MarkApplied \/ ReadBack \/ Archive
  BY <1>0, <1>4 DEF MarkApplied, ReadBack, Archive
<1>5. CASE ReconcileFails \/ Close
  BY <1>5 DEF ReconcileFails, Close, Ends, Idle
<1>3. CASE \E p \in Paths : Apply(p) \/ Cleanup(p)
  BY <1>0, <1>3 DEF Apply, Accepted, NoAnswer, Rejected, Ends, Cleanup, Idle
<1> QED
  BY <1>1, <1>2, <1>3, <1>4, <1>5, <1>6 DEF Next, Daemon

\* What is pending after a cleanup is as it was, or a new file that does not say what was sent.
LEMMA CleanedFacts ==
    ASSUME TypeOK, NEW p \in Paths, outbox' = Cleaned(p), NEW x \in Pending'
    PROVE  LET d == Plan[p].draft
           IN  /\ x \in Pending
               /\ \/ /\ outbox'[x] = outbox[x]
                     /\ SaysWhatWasSent(p) => IF d = None THEN x # SourceOf(p) ELSE outbox[x].draft # d
                  \/ /\ ~ SaysWhatWasSent(p) /\ d # None /\ x = SourceOf(p) /\ outbox[x].draft = d
                     /\ outbox'[x].mail = outbox[x].mail
<1> DEFINE d == Plan[p].draft
           e == [outbox[x] EXCEPT !.draft = None]
<1>1. x \in Paths /\ outbox'[x] # None
  BY DEF Pending
<1>2. outbox'[x] =
        IF outbox[x] = None THEN None
        ELSE IF SaysWhatWasSent(p)
          THEN IF (IF d = None THEN x = SourceOf(p) ELSE outbox[x].draft = d) THEN None ELSE outbox[x]
        ELSE IF d # None /\ x = SourceOf(p) /\ outbox[x].draft = d THEN e
        ELSE outbox[x]
  BY <1>1 DEF Cleaned
<1>3. outbox[x] # None => e.mail = outbox[x].mail
  BY <1>1, OutboxType DEF Entries
<1>4. x \in Pending
  BY <1>1, <1>2 DEF Pending
<1> HIDE DEF d, e
<1> QED
  BY <1>1, <1>2, <1>3, <1>4 DEF d

\* Cleaning up after one mail makes no new file of another that is out.
LEMMA DraftsAsPushedCleanup ==
    ASSUME Ledger, SentIsKnown, DraftsAreSpent, DraftsAsPushed, NEW r \in Paths, Cleanup(r),
           NEW i \in DOMAIN journal, Holds(i), NEW x \in Pending', x \in DOMAIN journal[i].plan,
           outbox'[x].mail = journal[i].plan[x].mail, outbox'[x].mail # Gone
    PROVE  outbox'[x].draft = journal[i].plan[x].draft
<1> DEFINE n == task.push
           d == Plan[r].draft
<1>1. /\ n \in DOMAIN journal /\ journal[n].effects /\ r \in DOMAIN Plan
      /\ outbox' = Cleaned(r)
  BY DEF Ledger, Cleanup, TaskIsJournalled, Settling, StatusesFit
<1>2. /\ x \in Pending
      /\ \/ outbox'[x] = outbox[x]
         \/ /\ ~ SaysWhatWasSent(r) /\ d # None /\ x = SourceOf(r) /\ outbox[x].draft = d
            /\ outbox'[x].mail = outbox[x].mail
  BY <1>1, CleanedFacts DEF Ledger
<1>3. outbox[x].draft = journal[i].plan[x].draft
  BY <1>2 DEF DraftsAsPushed
<1>4. SUFFICES ASSUME ~ SaysWhatWasSent(r), d # None, x = SourceOf(r), outbox[x].draft = d,
                      outbox'[x].mail = outbox[x].mail
               PROVE  FALSE
  BY <1>2, <1>3
<1>5. journal[i].effects
  BY <1>1 DEF Holds
<1>6. <<i, x>> \in sent /\ <<n, r>> \in sent
  BY <1>1, <1>5 DEF SentIsKnown, EffectsAreOut, Plan
<1>7. DraftOf(<<i, x>>) = d /\ DraftOf(<<n, r>>) = d
  BY <1>3, <1>4 DEF DraftOf, Plan
<1>8. <<i, x>> = <<n, r>>
  BY <1>4, <1>6, <1>7 DEF DraftsAreSpent, DraftsAreSentOnce
<1>9. outbox[x].mail = Plan[r].mail
  BY <1>4, <1>8 DEF Plan
<1> QED
  BY <1>4, <1>9 DEF SaysWhatWasSent

LEMMA DraftsAsPushedKept ==
    ASSUME Ledger, SentIsKnown, DraftsAreSpent, DraftsAsPushed, [Next]_vars
    PROVE  DraftsAsPushed'
<1>1. CASE \E plan \in Prepared : Starts(plan)
  <2>1. PICK plan \in Prepared : Starts(plan)
    BY <1>1
  <2> DEFINE n == Len(journal) + 1
  <2>2. /\ DOMAIN journal' = DOMAIN journal \cup {n}
        /\ \A i \in DOMAIN journal : journal'[i] = journal[i]
        /\ journal'[n].plan = plan /\ outbox' = outbox
        /\ \A p \in DOMAIN plan : plan[p] = outbox[p]
    BY <2>1, StartFacts
  <2> HIDE DEF n
  <2> SUFFICES ASSUME NEW i \in DOMAIN journal', Holds(i)', NEW p \in Pending',
                      p \in DOMAIN journal'[i].plan,
                      outbox'[p].mail = journal'[i].plan[p].mail, outbox'[p].mail # Gone
               PROVE  outbox'[p].draft = journal'[i].plan[p].draft
    BY DEF DraftsAsPushed
  <2>3. CASE i = n
    BY <2>2, <2>3
  <2>4. CASE i \in DOMAIN journal
    <3>1. Holds(i)
      BY <2>4, HoldsBefore
    <3>2. p \in Pending
      BY <2>2 DEF Pending
    <3> QED
      BY <2>2, <2>4, <3>1, <3>2 DEF DraftsAsPushed
  <2> QED
    BY <2>2, <2>3, <2>4
<1>2. CASE PlansStay
  <2> SUFFICES ASSUME NEW i \in DOMAIN journal, Holds(i), NEW p \in Pending',
                      p \in DOMAIN journal[i].plan,
                      outbox'[p].mail = journal[i].plan[p].mail, outbox'[p].mail # Gone
               PROVE  outbox'[p].draft = journal[i].plan[p].draft
    BY <1>2, HoldsBefore DEF DraftsAsPushed, PlansStay
  <2>1. CASE Writes
    <3>1. PICK q \in Paths, m \in Fresh, d \in Drafts \cup {None} : WritesAt(q, m, d)
      BY <2>1 DEF Writes
    <3>2. /\ p # q => p \in Pending /\ outbox'[p] = outbox[p]
          /\ p = q => outbox'[p].mail = m
          /\ journal[i].plan[p].mail # m
      BY <3>1, WrittenPending
    <3> QED
      BY <3>2 DEF DraftsAsPushed
  <2>2. CASE Loses
    <3>1. p \in Pending /\ outbox'[p] = outbox[p]
      BY <2>2 DEF Loses, Pending
    <3> QED
      BY <3>1 DEF DraftsAsPushed
  <2>3. CASE \E r \in Paths : Cleanup(r)
    BY <2>3, DraftsAsPushedCleanup
  <2> QED
    BY <2>1, <2>2, <2>3, OutboxSteps
<1> QED
  BY <1>1, <1>2, JournalSteps

LEMMA PlacesAsPushedKept ==
    ASSUME Ledger, DraftsAreSpent, PendingAsPushed, [Next]_vars
    PROVE  PlacesAsPushed'
<1>1. CASE \E plan \in Prepared : Starts(plan)
  <2>1. PICK plan \in Prepared : Starts(plan)
    BY <1>1
  <2>2. /\ Plan' = plan /\ task'.cleanup = plan
        /\ DOMAIN plan \subseteq Pending /\ \A p \in DOMAIN plan : plan[p] = outbox[p]
    BY <2>1, StartFacts DEF Plan
  <2> QED
    BY <2>2 DEF PlacesAsPushed, DraftsAreSpent, DraftsPendOnce
<1>2. CASE Push /\ \E plan \in Prepared : Resume(plan)
  <2>1. PICK plan \in Prepared : Resume(plan)
    BY <1>2
  <2>2. PICK i \in Resumed(plan) :
          /\ SetStatus(i, "applied") /\ task'.push = i
          /\ task'.cleanup = IF AllDrafts(plan) THEN plan ELSE journal[i].plan
    BY <2>1 DEF Resume
  <2>3. i \in DOMAIN journal /\ Holds(i)
    BY <2>2 DEF Resumed, Unreconciled, Resumable, Holds
  <2>4. Plan' = journal[i].plan /\ outbox' = outbox
    BY <2>1, <2>2, <2>3, StatusSet DEF Resume, PlansStay, Plan, Ledger, Statuses
  <2>5. SUFFICES ASSUME NEW p \in Pending, p \in DOMAIN journal[i].plan, journal[i].plan[p].draft # None,
                        outbox[p].mail = journal[i].plan[p].mail, outbox[p].mail # Gone,
                        NEW q \in DOMAIN task'.cleanup,
                        task'.cleanup[q].draft = journal[i].plan[p].draft
                 PROVE  q = p
    BY <2>4 DEF PlacesAsPushed, Pending
  <2>6. CASE AllDrafts(plan)
    <3>1. q \in Pending /\ task'.cleanup[q] = outbox[q]
      BY <2>2, <2>6, PreparedType DEF Ledger
    <3>2. outbox[p].draft = journal[i].plan[p].draft
      BY <2>3, <2>5 DEF PendingAsPushed, DraftsAsPushed
    <3> QED
      BY <2>5, <3>1, <3>2 DEF DraftsAreSpent, DraftsPendOnce
  <2>7. CASE ~ AllDrafts(plan)
    BY <2>2, <2>3, <2>5, <2>7 DEF DraftsAreSpent, DraftsArePlannedOnce
  <2> QED
    BY <2>6, <2>7
<1>3. CASE task.pc # "idle" /\ task'.pc # "idle"
  <2>1. task'.push = task.push /\ task'.cleanup = task.cleanup /\ task.push \in DOMAIN journal
    BY <1>3, CleanupBefore DEF Ledger, TaskIsJournalled
  <2>2. Plan' = Plan
    BY <2>1, PlansAreKept DEF Plan, PlansKept
  <2> SUFFICES ASSUME NEW p \in Pending', p \in DOMAIN Plan, Plan[p].draft # None,
                      outbox'[p].mail = Plan[p].mail, outbox'[p].mail # Gone
               PROVE  p \in Pending /\ outbox[p].mail = Plan[p].mail
    BY <1>3, <2>1, <2>2 DEF PendingAsPushed, PlacesAsPushed
  <2>3. CASE Writes
    <3>1. PICK q \in Paths, m \in Fresh, d \in Drafts \cup {None} : WritesAt(q, m, d)
      BY <2>3 DEF Writes
    <3>2. /\ p # q => p \in Pending /\ outbox'[p] = outbox[p]
          /\ p = q => outbox'[p].mail = m
          /\ Plan[p].mail # m
      BY <2>1, <3>1, WrittenPending DEF Plan
    <3> QED
      BY <3>2
  <2>4. CASE Shrinks
    BY <2>4, ShrunkPending
  <2> QED
    BY <2>3, <2>4, OutboxSteps
<1>4. CASE task'.pc = "idle"
  BY <1>4 DEF PlacesAsPushed
<1>5. CASE task.pc = "idle" /\ task'.pc # "idle" /\ ~ Push
  <2>1. task' = task \/ task' = Idle
    BY <1>5 DEF Next, User, Write, MoveDraft, Discard, Daemon, MarkApplying, Check, RecordEffects,
                MarkApplied, ReadBack, ReconcileFails, Archive, Close, Apply, Cleanup, Crash, vars
  <2> QED
    BY <1>5, <2>1 DEF Idle
<1> QED
  BY <1>1, <1>2, <1>3, <1>4, <1>5 DEF Push, Starts

\* After the cleanup of a mail, that mail is pending nowhere.
LEMMA CleanupCleans ==
    ASSUME Ledger, MailsHavePlaces, PendingAsPushed, NEW p \in Paths, Cleanup(p)
    PROVE  NotPending(task.push, p)'
<1> DEFINE n == task.push
           d == Plan[p].draft
<1>1. /\ n \in DOMAIN journal /\ p \in DOMAIN Plan /\ task.pc # "idle"
      /\ outbox' = Cleaned(p) /\ UNCHANGED journal
  BY DEF Ledger, Cleanup, TaskIsJournalled
<1>2. SUFFICES ASSUME NEW x \in Pending', outbox'[x].mail = Plan[p].mail, outbox'[x].mail # Gone
               PROVE  FALSE
  BY <1>1 DEF NotPending, Plan, Cleanup
<1>3. /\ x \in Pending /\ outbox[x].mail = outbox'[x].mail
      /\ SaysWhatWasSent(p) => IF d = None THEN x # SourceOf(p) ELSE outbox[x].draft # d
  BY <1>1, CleanedFacts DEF Ledger
<1>4. x = p
  BY <1>1, <1>2, <1>3 DEF MailsHavePlaces, MailsPendInPlace, Plan
<1>5. outbox[p].draft = d
  BY <1>1, <1>2, <1>3, <1>4 DEF PendingAsPushed, DraftsAsPushed, Holds, Plan
<1>6. SourceOf(p) = p
  BY <1>1, <1>2, <1>3, <1>4, SourceType DEF PendingAsPushed, PlacesAsPushed, Ledger
<1>7. SaysWhatWasSent(p)
  BY <1>2, <1>3, <1>4, <1>6 DEF SaysWhatWasSent
<1> QED
  BY <1>3, <1>4, <1>5, <1>6, <1>7

LEMMA CleanedUpKept ==
    ASSUME Ledger, DraftsAreSpent, MailsHavePlaces, PendingAsPushed, CleanedUp, [Next]_vars
    PROVE  CleanedUp'
<1> DEFINE n == task.push
<1>0. /\ task = [pc |-> task.pc, push |-> n, todo |-> task.todo, cleanup |-> task.cleanup]
      /\ task.pc # "idle" => n \in DOMAIN journal
  BY TaskType DEF Ledger, TaskIsJournalled
<1>1. CASE ReadBack
  <2> task.pc # "idle" /\ task'.push = n /\ task'.pc = "cleanup" /\ task'.todo = DOMAIN Plan
      /\ UNCHANGED journal
    BY <1>0, <1>1 DEF ReadBack
  <2> QED
    BY DEF CleanedUp, Plan
<1>2. CASE \E p \in Paths : Cleanup(p)
  <2>1. PICK p \in Paths : Cleanup(p)
    BY <1>2
  <2>2. /\ task.pc = "cleanup" /\ UNCHANGED journal
        /\ task'.pc = "cleanup" /\ task'.push = n /\ task'.todo = task.todo \ {p}
    BY <1>0, <2>1 DEF Cleanup
  <2>3. \A q \in DOMAIN Plan \ task.todo : NotPending(n, q)'
    BY <1>0, <2>2, NotPendingKept DEF CleanedUp, Plan
  <2>4. NotPending(n, p)'
    BY <2>1, CleanupCleans
  <2>5. \A q \in DOMAIN Plan \ task'.todo : NotPending(task.push, q)'
    BY <2>2, <2>3, <2>4
  <2> QED
    BY <2>2, <2>5 DEF CleanedUp, Plan, NotPending
<1>3. CASE Archive
  <2>1. /\ task.pc = "cleanup" /\ task.todo = {} /\ UNCHANGED journal
        /\ task'.pc = "close" /\ task'.push = n
    BY <1>0, <1>3 DEF Archive
  <2>2. \A q \in DOMAIN Plan : NotPending(n, q)'
    BY <1>0, <2>1, NotPendingKept DEF CleanedUp, Plan
  <2> QED
    BY <2>1, <2>2 DEF CleanedUp, Plan, NotPending
<1>4. CASE task' = task
  <2>1. SUFFICES ASSUME task.pc \in {"cleanup", "close"}
                 PROVE  CleanedUp'
    BY <1>4 DEF CleanedUp
  <2>2. n \in DOMAIN journal /\ Plan = journal[n].plan
    BY <1>0, <2>1 DEF Plan
  <2>3. Plan' = Plan
    BY <1>4, <2>2, PlansAreKept DEF Plan, PlansKept
  <2>4. PICK i \in DOMAIN journal : i = n /\ i = task'.push
    BY <1>4, <2>2
  <2>5. \A q \in DOMAIN Plan : NotPending(i, q) => NotPending(i, q)'
    BY <2>2, <2>4, NotPendingKept
  <2> QED
    BY <1>4, <2>1, <2>3, <2>4, <2>5 DEF CleanedUp, NotPending
<1>5. CASE task'.pc \notin {"cleanup", "close"}
  BY <1>5 DEF CleanedUp
<1>6. CASE User \/ UNCHANGED vars
  BY <1>4, <1>6 DEF User, Write, MoveDraft, Discard, vars
<1>7. CASE Push
  BY <1>5, <1>7 DEF Push, Start, Resume
<1>8. CASE MarkApplying \/ RecordEffects \/ MarkApplied
  BY <1>0, <1>5, <1>8 DEF MarkApplying, RecordEffects, MarkApplied
<1>9. CASE Crash \/ ReconcileFails \/ Close
  BY <1>5, <1>9 DEF Crash, ReconcileFails, Close, Ends, Idle
<1>10. CASE Check
  <2>1. task' = Idle \/ task'.pc = "apply"
    BY <1>0, <1>10 DEF Check, Ends
  <2> QED
    BY <1>5, <2>1 DEF Idle
<1>11. CASE \E p \in Paths : Apply(p)
  BY <1>0, <1>5, <1>11 DEF Apply, Accepted, NoAnswer, Rejected, Ends, Idle
<1> QED
  BY <1>1, <1>2, <1>3, <1>6, <1>7, <1>8, <1>9, <1>10, <1>11 DEF Next, Daemon

-----------------------------------------------------------------------------
(* How a journal changes *)

EntryStep(i) ==
    LET old == journal[i]
        new == journal'[i]
    IN  \/ new.status = old.status /\ new.effects = old.effects
        \/ /\ task.pc # "idle" /\ i = task.push
           /\ new.effects = old.effects /\ new.status # "reconciled"
        \/ Close /\ i = task.push /\ new.effects = old.effects
        \/ RecordEffects /\ i = task.push /\ new.effects
        \/ /\ task.pc = "idle" /\ Unfinished(old) /\ old.effects
           /\ new.effects = old.effects /\ new.status # "reconciled"

LEMMA EntrySteps ==
    ASSUME Ledger, [Next]_vars, NEW i \in DOMAIN journal
    PROVE  EntryStep(i)
<1> DEFINE n == task.push
<1>0. task.pc # "idle" => n \in DOMAIN journal
  BY DEF Ledger, TaskIsJournalled
<1>1. CASE UNCHANGED journal
  BY <1>1 DEF EntryStep
<1>2. CASE Push
  <2>1. PICK plan \in Prepared : Starts(plan) \/ Resume(plan)
    BY <1>2 DEF Push, Starts
  <2>2. CASE Starts(plan)
    <3> journal'[i] = journal[i]
      BY <2>2, StartFacts
    <3> QED
      BY DEF EntryStep
  <2>3. CASE Resume(plan)
    <3>1. PICK k \in Resumed(plan) : SetStatus(k, "applied")
      BY <2>3 DEF Resume
    <3>2. k \in DOMAIN journal /\ journal[k].effects /\ Unfinished(journal[k])
      BY DEF Resumed, Unreconciled, Resumable
    <3>3. /\ journal'[i].effects = journal[i].effects
          /\ journal'[i].status = IF i = k THEN "applied" ELSE journal[i].status
      BY <3>1, <3>2, StatusSet DEF Ledger, Statuses
    <3>4. task.pc = "idle"
      BY <1>2 DEF Push
    <3> QED
      BY <3>2, <3>3, <3>4 DEF EntryStep
  <2> QED
    BY <2>1, <2>2, <2>3
<1>3. CASE RecordEffects
  <2>1. journal'[i].effects = (IF i = n THEN TRUE ELSE journal[i].effects)
        /\ journal'[i].status = journal[i].status
    BY <1>0, <1>3, EffectsSet DEF RecordEffects, Ledger
  <2> QED
    BY <1>3, <2>1 DEF EntryStep
<1>4. CASE Close
  <2>1. SetStatus(n, "reconciled") /\ task.pc # "idle"
    BY <1>4 DEF Close, Ends
  <2>2. journal'[i].effects = journal[i].effects
        /\ journal'[i].status = IF i = n THEN "reconciled" ELSE journal[i].status
    BY <1>0, <2>1, StatusSet DEF Ledger, Statuses
  <2> QED
    BY <1>4, <2>2 DEF EntryStep
<1>5. CASE task.pc # "idle" /\ \E status \in Statuses \ {"reconciled"} : SetStatus(n, status)
  <2>1. PICK status \in Statuses \ {"reconciled"} : SetStatus(n, status)
    BY <1>5
  <2>2. journal'[i].effects = journal[i].effects
        /\ journal'[i].status = IF i = n THEN status ELSE journal[i].status
    BY <1>0, <1>5, <2>1, StatusSet DEF Ledger
  <2> QED
    BY <1>5, <2>1, <2>2 DEF EntryStep
<1>6. CASE User \/ ReadBack \/ Archive \/ Crash \/ UNCHANGED vars \/ \E p \in Paths : Cleanup(p)
  BY <1>1, <1>6 DEF User, Write, MoveDraft, Discard, ReadBack, Archive, Crash, Cleanup, vars
<1>7. CASE MarkApplying \/ Check \/ MarkApplied \/ ReconcileFails \/ \E p \in Paths : Apply(p)
  BY <1>1, <1>5, <1>7
  DEF MarkApplying, Check, MarkApplied, ReconcileFails, Apply, Accepted, NoAnswer, Rejected,
      Ends, Statuses
<1> QED
  BY <1>2, <1>3, <1>4, <1>6, <1>7 DEF Next, Daemon

LEMMA ReconciledIsDoneKept ==
    ASSUME Ledger, SentIsKnown, DraftsAreSpent, CleanedUp, ReconciledIsDone, [Next]_vars
    PROVE  ReconciledIsDone'
<1>1. SUFFICES ASSUME NEW i \in DOMAIN journal', journal'[i].status = "reconciled",
                      NEW p \in DOMAIN journal'[i].plan
               PROVE  <<i, p>> \in sent' /\ NotPending(i, p)'
  BY DEF ReconciledIsDone, NotPending
<1>2. i \in DOMAIN journal
  <2>1. CASE PlansStay
    BY <2>1 DEF PlansStay
  <2>2. CASE \E plan \in Prepared : Starts(plan)
    <3>1. PICK plan \in Prepared : Starts(plan)
      BY <2>2
    <3>2. i # Len(journal) + 1 /\ DOMAIN journal' = DOMAIN journal \cup {Len(journal) + 1}
      BY <1>1, <3>1, StartFacts
    <3> QED
      BY <3>2
  <2> QED
    BY <2>1, <2>2, JournalSteps
<1>3. p \in DOMAIN journal[i].plan /\ sent \subseteq sent'
  BY <1>2, PlansAreKept, SendSteps DEF PlansKept, Sends
<1>4. SUFFICES <<i, p>> \in sent /\ NotPending(i, p)
  BY <1>2, <1>3, NotPendingKept
<1>5. CASE journal[i].status = "reconciled"
  BY <1>2, <1>3, <1>5 DEF ReconciledIsDone, NotPending
<1>6. CASE Close /\ i = task.push
  <2>1. task.pc = "close" /\ journal[i].effects
    BY <1>2, <1>6 DEF Close, Ledger, TaskIsJournalled, Settling, StatusesFit
  <2> QED
    BY <1>2, <1>3, <1>6, <2>1 DEF SentIsKnown, EffectsAreOut, CleanedUp, Plan
<1>7. CASE RecordEffects /\ i = task.push
  <2>1. journal[i].status = "applying" /\ journal'[i].status = journal[i].status
    BY <1>2, <1>7, EffectsSet DEF RecordEffects, Ledger, TaskIsJournalled
  <2> QED
    BY <1>1, <2>1
<1> QED
  BY <1>1, <1>2, <1>5, <1>6, <1>7, EntrySteps DEF EntryStep

-----------------------------------------------------------------------------
(* The newest journal *)

\* Of some journals, one is the newest.
HasNewest == \A I \in SUBSET DOMAIN journal : I # {} => \E i \in I : IsNewest(i, I)

LEMMA HasNewestInit ==
    ASSUME Init
    PROVE  HasNewest
<1> DOMAIN journal = {}
  BY EmptySeq DEF Init
<1> QED
  BY DEF HasNewest

LEMMA HasNewestKept ==
    ASSUME Ledger, HasNewest, [Next]_vars
    PROVE  HasNewest'
<1>1. CASE PlansStay
  BY <1>1 DEF PlansStay, HasNewest, IsNewest
<1>2. CASE \E plan \in Prepared : Starts(plan)
  <2>1. PICK plan \in Prepared : Starts(plan)
    BY <1>2
  <2> DEFINE n == Len(journal) + 1
  <2>2. /\ DOMAIN journal' = DOMAIN journal \cup {n} /\ n \in Nat
        /\ \A i \in DOMAIN journal : i < n /\ i \in Nat
    BY <2>1, StartFacts
  <2> HIDE DEF n
  <2> SUFFICES ASSUME NEW I \in SUBSET DOMAIN journal', I # {}
               PROVE  \E i \in I : IsNewest(i, I)
    BY DEF HasNewest
  <2>3. CASE n \in I
    BY <2>2, <2>3 DEF IsNewest
  <2>4. CASE n \notin I
    BY <2>2, <2>4 DEF HasNewest
  <2> QED
    BY <2>3, <2>4
<1> QED
  BY <1>1, <1>2, JournalSteps

-----------------------------------------------------------------------------
(* Effects that wait to be reconciled *)

LEMMA EffectsAreResumed ==
    ASSUME Ledger, HasNewest, NoneAfterEffects, NEW plan \in Prepared, Starts(plan),
           NEW i \in DOMAIN journal, journal[i].effects, Unfinished(journal[i]),
           AllCreates(journal[i].plan), AllCreates(plan),
           CreateSources(journal[i].plan) = CreateSources(plan)
    PROVE  FALSE
<1>1. i \in Unreconciled(plan)
  BY DEF Unreconciled, ResumeMatches
<1>2. PICK k \in Unreconciled(plan) : IsNewest(k, Unreconciled(plan))
  BY <1>1 DEF HasNewest, Unreconciled
<1>3. k \in DOMAIN journal /\ ResumeMatches(journal[k], plan) /\ i <= k
  BY <1>1, <1>2 DEF Unreconciled, IsNewest
<1>4. ~ Resumable(journal[k])
  BY <1>2 DEF Starts, Start, Resumed
<1>5. k # i
  BY <1>4 DEF Resumable
<1>6. i < k
  BY <1>3, <1>5, JournalType DEF Ledger
<1>7. DOMAIN plan # {}
  BY PreparedType DEF Ledger
<1>8. CreateSources(plan) # {}
  BY <1>7 DEF AllCreates, DraftIds, CreateSources
<1>9. CASE AllDrafts(plan)
  BY <1>8, <1>9 DEF AllDrafts
<1>10. CASE ~ AllDrafts(plan)
  <2>1. /\ AllCreates(journal[k].plan)
        /\ CreateSources(journal[k].plan) = CreateSources(journal[i].plan)
    BY <1>3, <1>10 DEF ResumeMatches
  <2> QED
    BY <1>3, <1>6, <2>1 DEF NoneAfterEffects
<1> QED
  BY <1>9, <1>10

LEMMA NoneAfterEffectsKept ==
    ASSUME Ledger, HasNewest, NoneAfterEffects, [Next]_vars
    PROVE  NoneAfterEffects'
<1>1. \A i \in DOMAIN journal :
        journal'[i].effects /\ Unfinished(journal'[i]) =>
          (journal[i].effects /\ Unfinished(journal[i])) \/ i = Len(journal)
  <2> SUFFICES ASSUME NEW i \in DOMAIN journal, journal'[i].effects, Unfinished(journal'[i]),
                      i # Len(journal)
               PROVE  journal[i].effects /\ Unfinished(journal[i])
    OBVIOUS
  <2>1. task.pc # "idle" /\ i = task.push => Settling
    BY TaskType DEF Ledger, TaskIsJournalled, First, Settling
  <2>2. task.pc # "idle" /\ i = task.push => journal[i].status = "applied" /\ journal[i].effects
    BY <2>1 DEF Ledger, TaskIsJournalled, StatusesFit
  <2>3. RecordEffects \/ Close => task.pc # "idle"
    BY DEF RecordEffects, Close
  <2> QED
    BY <2>2, <2>3, EntrySteps DEF EntryStep, Unfinished
<1>2. CASE PlansStay
  <2> SUFFICES ASSUME NEW i \in DOMAIN journal, NEW k \in DOMAIN journal, i < k,
                      journal'[i].effects, Unfinished(journal'[i]), AllCreates(journal[i].plan)
               PROVE  ~ (/\ AllCreates(journal[k].plan)
                         /\ CreateSources(journal[k].plan) = CreateSources(journal[i].plan))
    BY <1>2 DEF NoneAfterEffects, PlansStay
  <2>1. i # Len(journal)
    BY JournalType DEF Ledger
  <2> QED
    BY <1>1, <2>1 DEF NoneAfterEffects
<1>3. CASE \E plan \in Prepared : Starts(plan)
  <2>1. PICK plan \in Prepared : Starts(plan)
    BY <1>3
  <2> DEFINE n == Len(journal) + 1
  <2>2. /\ DOMAIN journal' = DOMAIN journal \cup {n} /\ n \in Nat
        /\ \A i \in DOMAIN journal : i < n /\ i \in Nat /\ journal'[i] = journal[i]
        /\ journal'[n].plan = plan /\ ~ journal'[n].effects
    BY <2>1, StartFacts
  <2> HIDE DEF n
  <2> SUFFICES ASSUME NEW i \in DOMAIN journal', NEW k \in DOMAIN journal', i < k,
                      journal'[i].effects, Unfinished(journal'[i]), AllCreates(journal'[i].plan),
                      AllCreates(journal'[k].plan),
                      CreateSources(journal'[k].plan) = CreateSources(journal'[i].plan)
               PROVE  FALSE
    BY DEF NoneAfterEffects
  <2>3. i \in DOMAIN journal /\ journal'[i] = journal[i]
    BY <2>2
  <2>4. CASE k = n
    BY <2>1, <2>2, <2>3, <2>4, EffectsAreResumed
  <2>5. CASE k \in DOMAIN journal
    BY <2>2, <2>3, <2>5 DEF NoneAfterEffects
  <2> QED
    BY <2>2, <2>4, <2>5
<1> QED
  BY <1>2, <1>3, JournalSteps

-----------------------------------------------------------------------------
(* Repeats *)

LEMMA SameFiles ==
    ASSUME NEW left, NEW right, Files(left) = Files(right)
    PROVE  /\ DOMAIN left = DOMAIN right
           /\ CreateSources(left) = CreateSources(right) /\ DraftIds(left) = DraftIds(right)
<1>1. DOMAIN Files(left) = DOMAIN left /\ DOMAIN Files(right) = DOMAIN right
  BY DEF Files
<1>2. DOMAIN left = DOMAIN right
  BY <1>1
<1>3. \A p \in DOMAIN left : left[p].draft = right[p].draft
  <2> SUFFICES ASSUME NEW p \in DOMAIN left
               PROVE  left[p].draft = right[p].draft
    OBVIOUS
  <2>1. Files(left)[p] = left[p].draft /\ Files(right)[p] = right[p].draft
    BY <1>2 DEF Files
  <2> QED
    BY <2>1
<1>4. CreateSources(left) = CreateSources(right)
  BY <1>2, <1>3 DEF CreateSources
<1>5. DraftIds(left) = DraftIds(right)
  BY <1>2, <1>3 DEF DraftIds
<1> QED
  BY <1>2, <1>4, <1>5

\* A push that is started with the files of one that may be out: a draft of that one is out.
LEMMA StartedAgain ==
    ASSUME Ledger, SentIsKnown, DraftsAreSpent, PendingSince, HasNewest, NoneAfterEffects,
           ReconciledIsDone, RepeatsStop,
           NEW plan \in Prepared, Starts(plan),
           NEW s \in sent, s[2] \in DOMAIN plan, plan[s[2]].mail = MailOf(s), MailOf(s) # Gone,
           Files(journal[s[1]].plan) = Files(plan), ~ RejectedHalfway(s[1]),
           \A k \in DOMAIN journal : s[1] < k => ~ Regrouped(s[1], k)
    PROVE  ~ (DraftIds(journal[s[1]].plan) \subseteq drafts)
<1> DEFINE i == s[1]
           p == s[2]
           old == journal[i].plan
<1>1. /\ i \in DOMAIN journal /\ p \in DOMAIN old /\ s = <<i, p>>
      /\ journal[i].status \notin {"prepared", "reverted"}
  BY SentHasType DEF Ledger, SentType, SentIsKnown, SentIsPlanned
<1>2. p \in Pending /\ outbox[p].mail = old[p].mail /\ outbox[p].mail # Gone
  BY PreparedType DEF Ledger, MailOf
<1>3. DOMAIN old = DOMAIN plan /\ CreateSources(old) = CreateSources(plan)
      /\ DraftIds(old) = DraftIds(plan)
  BY SameFiles
<1>4. journal[i].status # "reconciled"
  BY <1>1, <1>2 DEF ReconciledIsDone
<1>5. journal[i].status \in {"applying", "applied", "failed", "ambiguous"}
  BY <1>1, <1>4, JournalType DEF Ledger, Statuses
<1>6. CASE journal[i].effects
  <2>1. CASE AllCreates(old)
    <3>1. AllCreates(plan)
      BY <1>3, <2>1 DEF AllCreates
    <3>2. Unfinished(journal[i])
      BY <1>5 DEF Unfinished
    <3> QED
      BY <1>1, <1>3, <1>6, <2>1, <3>1, <3>2, EffectsAreResumed
  <2>2. CASE ~ AllCreates(old)
    <3>1. PICK q \in DOMAIN old : old[q].draft # None
      BY <2>2 DEF AllCreates, DraftIds
    <3>2. <<i, q>> \in sent
      BY <1>1, <1>6 DEF SentIsKnown, EffectsAreOut
    <3>3. DraftOf(<<i, q>>) = old[q].draft
      BY DEF DraftOf
    <3>4. old[q].draft \notin drafts
      BY <3>1, <3>2, <3>3 DEF DraftsAreSpent, DraftsAreGone
    <3> QED
      BY <3>1, <3>4 DEF DraftIds
  <2> QED
    BY <2>1, <2>2
<1>7. CASE ~ journal[i].effects
  <2>1. journal[i].status # "failed"
    BY <1>1, <1>7 DEF SentIsKnown, FailedIsUnsent, RejectedHalfway
  <2>2. journal[i].status \in {"applying", "ambiguous"}
    BY <1>1, <1>5, <1>7, <2>1 DEF Ledger, StatusesFit
  <2> DEFINE I == {k \in DOMAIN journal : SendsMatch(journal[k].plan, plan)}
  <2>3. i \in I
    <3>1. CreateSources(plan) # {} \/ DraftIds(plan) # {}
      BY <1>1, <1>3 DEF CreateSources, DraftIds
    <3> QED
      BY <1>1, <1>3, <3>1 DEF SendsMatch
  <2>4. PICK k \in I : IsNewest(k, I)
    BY <2>3 DEF HasNewest
  <2>5. k # i
    BY <1>7, <2>2, <2>4 DEF Starts, Blocked, MaybeSent
  <2>6. k \in DOMAIN journal /\ i < k
    BY <1>1, <2>3, <2>4, <2>5, JournalType DEF Ledger, IsNewest
  <2>7. Shares(old, journal[k].plan)
    BY <1>3, <2>4 DEF SendsMatch, Shares, CreateSources
  <2>8. ~ Regrouped(i, k)
    BY <2>6
  <2>9. Files(old) = Files(journal[k].plan)
    <3>1. k \in i + 1 .. k
      BY <1>1, <2>6, JournalType DEF Ledger
    <3> QED
      BY <2>7, <2>8, <3>1 DEF Regrouped
  <2>10. p \in DOMAIN journal[k].plan
    BY <1>1, <2>9, SameFiles
  <2>11. journal[k].plan[p].mail = MailOf(s)
    BY <1>1, <1>2, <2>6, <2>10 DEF PendingSince, MailOf
  <2>12. Repeats(s, k)
    BY <2>6, <2>8, <2>10, <2>11 DEF Repeats
  <2> QED
    BY <2>6, <2>12 DEF RepeatsStop, Stops
<1> QED
  BY <1>1, <1>6, <1>7, JournalType DEF Ledger

LEMMA RepeatsBefore ==
    ASSUME Ledger, [Next]_vars, NEW s \in sent, NEW k \in DOMAIN journal, Repeats(s, k)'
    PROVE  Repeats(s, k)
<1> DEFINE i == s[1]
<1>1. i \in DOMAIN journal /\ i < k /\ s = <<i, s[2]>> /\ SentType
  BY SentHasType DEF Ledger, SentType, Repeats
<1>2. /\ \A j \in DOMAIN journal : j \in DOMAIN journal' /\ journal'[j].plan = journal[j].plan
      /\ DOMAIN journal = 1 .. Len(journal) /\ Len(journal) \in Nat
  BY PlansAreKept, JournalType DEF PlansKept, Ledger
<1>3. \A j \in i + 1 .. k : j \in DOMAIN journal
  BY <1>1, <1>2
<1>4. Regrouped(i, k) => Regrouped(i, k)'
  BY <1>1, <1>2, <1>3 DEF Regrouped
<1>5. RejectedHalfway(i) => RejectedHalfway(i)'
  <2> SUFFICES ASSUME journal[i].status = "failed", ~ journal[i].effects,
                      NEW q \in DOMAIN journal[i].plan, <<i, q>> \notin sent
               PROVE  RejectedHalfway(i)'
    BY DEF RejectedHalfway
  <2>1. task.pc # "idle" => i # task.push
    BY TaskType DEF Ledger, TaskIsJournalled, First, Settling
  <2>2. RecordEffects \/ Close => task.pc # "idle"
    BY DEF RecordEffects, Close
  <2>3. journal'[i].status = "failed" /\ ~ journal'[i].effects
    BY <1>1, <2>1, <2>2, EntrySteps DEF EntryStep
  <2>4. <<i, q>> \notin sent'
    BY <2>1, SendSteps DEF Sends
  <2> QED
    BY <1>1, <1>2, <2>3, <2>4 DEF RejectedHalfway
<1> QED
  BY <1>1, <1>2, <1>4, <1>5 DEF Repeats, MailOf

LEMMA StopsKept ==
    ASSUME Ledger, SentIsKnown, [Next]_vars, NEW s \in sent, NEW k \in DOMAIN journal,
           Repeats(s, k), Stops(s, k)
    PROVE  Stops(s, k)'
<1> DEFINE i == s[1]
<1>1. i \in DOMAIN journal /\ i < k
  BY SentHasType DEF Ledger, SentType, Repeats
<1>2. journal'[i].plan = journal[i].plan /\ drafts' \subseteq drafts
  BY <1>1, PlansAreKept, SendSteps DEF PlansKept, Sends
<1>3. ~ (DraftIds(journal'[i].plan) \subseteq drafts')
  BY <1>2 DEF Stops
<1>4. \A p \in Paths : <<k, p>> \notin sent'
  BY SendSteps DEF Sends, Stops
<1>5. task'.pc \in {"apply", "applied"} => task'.push # k
  <2> SUFFICES ASSUME task'.pc \in {"apply", "applied"}, task'.push = k
               PROVE  FALSE
    OBVIOUS
  <2>0. task = [pc |-> task.pc, push |-> task.push, todo |-> task.todo, cleanup |-> task.cleanup]
    BY TaskType DEF Ledger
  <2>1. CASE task.pc \in {"apply", "applied"} /\ task.push = k
    BY <2>1 DEF Stops
  <2>2. CASE Check
    <3>1. task.push = k /\ DraftIds(Plan) \subseteq drafts
      <4>1. ~ Ends("reverted")
        BY DEF Ends, Idle
      <4>2. /\ DraftIds(Plan) \subseteq drafts
            /\ task' = [task EXCEPT !.pc = "apply", !.todo = DOMAIN Plan]
        BY <2>2, <4>1 DEF Check
      <4>3. task'.push = task.push
        BY <2>0, <4>2
      <4> QED
        BY <4>2, <4>3
    <3>2. Files(journal[i].plan) = Files(journal[k].plan)
      <4>1. s[2] \in DOMAIN journal[k].plan /\ s[2] \in DOMAIN journal[i].plan
        BY DEF Repeats, SentIsKnown, SentIsPlanned
      <4>2. k \in i + 1 .. k
        BY <1>1, JournalType DEF Ledger
      <4>3. ~ Regrouped(i, k)
        BY DEF Repeats
      <4>4. ~ Shares(journal[i].plan, journal[k].plan) \/ Files(journal[i].plan) = Files(journal[k].plan)
        BY <4>2, <4>3 DEF Regrouped
      <4> QED
        BY <4>1, <4>4 DEF Shares
    <3>3. DraftIds(journal[i].plan) = DraftIds(journal[k].plan)
      BY <3>2, SameFiles
    <3> QED
      BY <3>1, <3>3 DEF Stops, Plan
  <2>3. CASE RecordEffects
    <3> task.pc = "apply" /\ task.push = k
      BY <2>0, <2>3 DEF RecordEffects
    <3> QED
      BY <2>1
  <2>4. CASE \E p \in Paths : Apply(p)
    <3> task.pc = "apply" /\ task.push = k
      BY <2>0, <2>4 DEF Apply, Accepted, NoAnswer, Rejected, Ends, Idle
    <3> QED
      BY <2>1
  <2>5. CASE task' = task
    BY <2>1, <2>5
  <2>6. CASE task'.pc \notin {"apply", "applied"}
    BY <2>6
  <2>7. CASE User \/ UNCHANGED vars
    BY <2>5, <2>7 DEF User, Write, MoveDraft, Discard, vars
  <2>8. CASE Push \/ Crash \/ ReconcileFails \/ Close
    <3>1. CASE Push
      BY <2>6, <3>1 DEF Push, Start, Resume
    <3>2. CASE Crash \/ ReconcileFails \/ Close
      BY <2>6, <3>2 DEF Crash, ReconcileFails, Close, Ends, Idle
    <3> QED
      BY <2>8, <3>1, <3>2
  <2>9. CASE MarkApplying \/ MarkApplied \/ ReadBack \/ Archive \/ \E p \in Paths : Cleanup(p)
    <3>1. CASE \E p \in Paths : Cleanup(p)
      BY <2>0, <2>6, <3>1 DEF Cleanup
    <3>2. CASE MarkApplying \/ MarkApplied \/ ReadBack \/ Archive
      BY <2>0, <2>6, <3>2 DEF MarkApplying, MarkApplied, ReadBack, Archive
    <3> QED
      BY <2>9, <3>1, <3>2
  <2> QED
    BY <2>2, <2>3, <2>4, <2>7, <2>8, <2>9 DEF Next, Daemon
<1> QED
  BY <1>3, <1>4, <1>5 DEF Stops

LEMMA RepeatsStopKept ==
    ASSUME Ledger, SentIsKnown, DraftsAreSpent, PendingSince, HasNewest, NoneAfterEffects,
           ReconciledIsDone, RepeatsStop, [Next]_vars
    PROVE  RepeatsStop'
<1>1. SUFFICES ASSUME NEW s \in sent', NEW k \in DOMAIN journal', Repeats(s, k)'
               PROVE  Stops(s, k)'
  BY DEF RepeatsStop
<1>2. CASE s \in sent /\ k \in DOMAIN journal
  BY <1>1, <1>2, RepeatsBefore, StopsKept DEF RepeatsStop
<1>3. CASE s \notin sent
  <2>1. /\ task.pc = "apply" /\ s[1] = task.push /\ DOMAIN journal' = DOMAIN journal
    BY <1>3, SendSteps DEF Sends, PlansStay
  <2>2. s[1] = Len(journal) /\ k \in 1 .. Len(journal)
    BY <2>1, JournalType DEF Ledger, TaskIsJournalled, First
  <2>3. s[1] < k
    BY <1>1 DEF Repeats
  <2> QED
    BY <2>2, <2>3, JournalType DEF Ledger
<1>4. CASE s \in sent /\ k \notin DOMAIN journal
  <2>1. PICK plan \in Prepared : Starts(plan)
    BY <1>4, JournalSteps DEF PlansStay
  <2> DEFINE n == Len(journal) + 1
             i == s[1]
  <2>2. /\ k = n /\ n \in Nat /\ n \notin DOMAIN journal
        /\ \A j \in DOMAIN journal : j < n /\ j \in Nat /\ journal'[j] = journal[j]
        /\ journal'[n].plan = plan /\ sent' = sent /\ drafts' = drafts
        /\ task'.pc = "prepared"
    BY <1>4, <2>1, StartFacts
  <2>3. i \in DOMAIN journal /\ SentType /\ s[2] \in DOMAIN journal[i].plan
    BY <1>4, SentHasType DEF Ledger, SentType, SentIsKnown, SentIsPlanned
  <2>4. /\ s[2] \in DOMAIN plan /\ plan[s[2]].mail = MailOf(s) /\ MailOf(s) # Gone
        /\ ~ Regrouped(i, k)' /\ ~ RejectedHalfway(i)
    <3>1. RejectedHalfway(i) => RejectedHalfway(i)'
      BY <2>2, <2>3 DEF RejectedHalfway
    <3> QED
      BY <1>1, <2>2, <2>3, <3>1 DEF Repeats, MailOf
  <2>5. \A j \in i + 1 .. n : Shares(journal[i].plan, journal'[j].plan) =>
          Files(journal[i].plan) = Files(journal'[j].plan)
    BY <2>2, <2>3, <2>4 DEF Regrouped
  <2>6. Files(journal[i].plan) = Files(plan)
    <3>1. n \in i + 1 .. n
      BY <2>2, <2>3
    <3>2. Shares(journal[i].plan, plan)
      BY <2>3, <2>4 DEF Shares
    <3> QED
      BY <2>2, <2>5, <3>1, <3>2
  <2>7. \A j \in DOMAIN journal : i < j => ~ Regrouped(i, j)
    <3> SUFFICES ASSUME NEW j \in DOMAIN journal, NEW x \in i + 1 .. j,
                        Shares(journal[i].plan, journal[x].plan)
                 PROVE  Files(journal[i].plan) = Files(journal[x].plan)
      BY DEF Regrouped
    <3>1. x \in DOMAIN journal /\ x \in i + 1 .. n
      BY <2>2, <2>3, JournalType DEF Ledger
    <3> QED
      BY <2>2, <2>5, <3>1
  <2>8. ~ (DraftIds(journal[i].plan) \subseteq drafts)
    BY <1>4, <2>1, <2>4, <2>6, <2>7, StartedAgain
  <2>9. \A p \in Paths : <<k, p>> \notin sent
    BY <2>2, <2>3 DEF SentType
  <2> QED
    BY <2>2, <2>3, <2>8, <2>9 DEF Stops
<1> QED
  BY <1>2, <1>3, <1>4

-----------------------------------------------------------------------------
(* The theorems *)

\* The inductive invariant.
IInv ==
    /\ Ledger /\ SentIsKnown /\ DraftsAreSpent /\ MailsHavePlaces /\ PendingSince
    /\ PendingAsPushed /\ CleanedUp /\ ReconciledIsDone /\ HasNewest /\ NoneAfterEffects
    /\ RepeatsStop

LEMMA InvInit ==
    ASSUME Init
    PROVE  IInv
<1>1. Ledger /\ HasNewest
  BY LedgerInit, HasNewestInit
<1>2. /\ DOMAIN journal = {} /\ sent = {} /\ Pending = {} /\ task.pc = "idle"
  BY EmptySeq DEF Init, Pending, Idle
<1>3. SentIsKnown /\ DraftsAreSpent /\ MailsHavePlaces
  BY <1>2 DEF SentIsKnown, EffectsAreOut, SentIsPlanned, CheckComesFirst, TodoIsUnsent,
              FailedIsUnsent, DraftsAreSpent, DraftsAreGone, DraftsAreSentOnce, DraftsPendOnce,
              DraftsArePlannedOnce, MailsHavePlaces, MailsPendOnce, MailsPendInPlace,
              MailsArePlannedInPlace
<1>4. PendingSince /\ PendingAsPushed /\ CleanedUp /\ NoneAfterEffects /\ RepeatsStop
      /\ ReconciledIsDone
  BY <1>2 DEF PendingSince, PendingAsPushed, DraftsAsPushed, PlacesAsPushed, CleanedUp,
              NoneAfterEffects, RepeatsStop, ReconciledIsDone
<1> QED
  BY <1>1, <1>3, <1>4 DEF IInv

LEMMA InvKept ==
    ASSUME IInv, [Next]_vars
    PROVE  IInv'
<1> USE DEF IInv
<1>1. Ledger' /\ SentIsKnown' /\ DraftsAreSpent' /\ MailsHavePlaces' /\ PendingSince'
  BY LedgerKept, SentIsKnownKept, DraftsAreSpentKept, MailsHavePlacesKept, PendingSinceKept
<1>2. PendingAsPushed'
  BY DraftsAsPushedKept, PlacesAsPushedKept DEF PendingAsPushed
<1>3. CleanedUp' /\ ReconciledIsDone'
  BY CleanedUpKept, ReconciledIsDoneKept
<1>4. HasNewest' /\ NoneAfterEffects' /\ RepeatsStop'
  BY HasNewestKept, NoneAfterEffectsKept, RepeatsStopKept
<1> QED
  BY <1>1, <1>2, <1>3, <1>4

LEMMA InvAlways == Spec => []IInv
  BY InvInit, InvKept, PTL DEF Spec

\* A journal is closed as reconciled only when all its mails are out and none of them is
\* still pending, even if the push was interrupted and resumed while the user wrote, moved
\* and discarded files (DaemonPushHost::reconcile).
THEOREM ReconciledAreDone == Spec => []ReconciledIsDone
<1>1. IInv => ReconciledIsDone
  BY DEF IInv
<1> QED
  BY <1>1, InvAlways, PTL

\* Whatever crashes, lost answers and resumed pushes there are, a mail goes out twice only
\* if the files it was pushed with were regrouped since, or if Gmail rejected another mail
\* of its push (block_ambiguous_gmail_send_replay, resume_failed_applied_reconciliation).
THEOREM RepeatsHaveReasons == Spec => []RepeatsAreExplained
<1>1. IInv => RepeatsAreExplained
  <2> SUFFICES ASSUME IInv, NEW s \in sent, NEW t \in sent, MailOf(s) = MailOf(t),
                      MailOf(s) # Gone, s[1] < t[1],
                      ~ Regrouped(s[1], t[1]), ~ RejectedHalfway(s[1])
               PROVE  FALSE
    BY DEF RepeatsAreExplained
  <2>1. /\ s[1] \in DOMAIN journal /\ s[2] \in DOMAIN journal[s[1]].plan
        /\ t[1] \in DOMAIN journal /\ t[2] \in DOMAIN journal[t[1]].plan
        /\ t[2] \in Paths /\ t = <<t[1], t[2]>>
    BY SentHasType DEF IInv, Ledger, SentType, SentIsKnown, SentIsPlanned
  <2>2. s[2] = t[2]
    BY <2>1 DEF IInv, MailsHavePlaces, MailsArePlannedInPlace, MailOf
  <2>3. Repeats(s, t[1])
    BY <2>1, <2>2 DEF Repeats, MailOf
  <2> QED
    BY <2>1, <2>3 DEF IInv, RepeatsStop, Stops
<1> QED
  BY <1>1, InvAlways, PTL

LEMMA TakenWasSent ==
    ASSUME IInv, Next, NEW p \in Pending, task' # task, outbox[p].mail # Gone,
           outbox'[p] = None \/ outbox'[p].mail # outbox[p].mail
    PROVE  \E s \in sent : MailOf(s) = outbox[p].mail
                           \/ (outbox[p].draft # None /\ DraftOf(s) = outbox[p].draft)
<1> DEFINE n == task.push
<1>0. Ledger /\ p \in Paths /\ outbox[p] # None
  BY DEF IInv, Pending
<1>1. CASE \E r \in Paths : Cleanup(r)
  <2>1. PICK r \in Paths : Cleanup(r)
    BY <1>1
  <2>2. /\ outbox' = Cleaned(r) /\ r \in DOMAIN Plan /\ n \in DOMAIN journal /\ journal[n].effects
    BY <1>0, <2>1 DEF Cleanup, Ledger, TaskIsJournalled, Settling, StatusesFit
  <2>3. <<n, r>> \in sent
    BY <2>2 DEF IInv, SentIsKnown, EffectsAreOut, Plan
  <2>4. MailOf(<<n, r>>) = Plan[r].mail /\ DraftOf(<<n, r>>) = Plan[r].draft
    BY DEF MailOf, DraftOf, Plan
  <2>5. /\ SaysWhatWasSent(r)
        /\ IF Plan[r].draft = None THEN p = SourceOf(r) ELSE outbox[p].draft = Plan[r].draft
    <3> DEFINE e == [outbox[p] EXCEPT !.draft = None]
    <3>1. outbox'[p] =
            IF SaysWhatWasSent(r)
              THEN IF (IF Plan[r].draft = None THEN p = SourceOf(r) ELSE outbox[p].draft = Plan[r].draft)
                     THEN None ELSE outbox[p]
            ELSE IF Plan[r].draft # None /\ p = SourceOf(r) /\ outbox[p].draft = Plan[r].draft
              THEN e ELSE outbox[p]
      BY <1>0, <2>2 DEF Cleaned
    <3>2. e.mail = outbox[p].mail /\ e # None
      BY <1>0, OutboxType, OutboxAssumption DEF Ledger, Pending, Entries
    <3> HIDE DEF e
    <3> QED
      BY <1>0, <3>1, <3>2
  <2>6. CASE Plan[r].draft = None
    <3>1. outbox[p].mail = Plan[r].mail
      BY <1>0, <2>5, <2>6 DEF SaysWhatWasSent
    <3> QED
      BY <2>3, <2>4, <3>1
  <2>7. CASE Plan[r].draft # None
    BY <2>3, <2>4, <2>5, <2>7
  <2> QED
    BY <2>6, <2>7
<1>2. CASE Crash
  <2>1. PICK r \in task.todo :
          /\ task.pc = "cleanup" /\ outbox[SourceOf(r)] # None /\ SaysWhatWasSent(r)
          /\ outbox' = [outbox EXCEPT ![SourceOf(r)].mail = Gone]
    BY <1>0, <1>2 DEF Crash
  <2>2. p = SourceOf(r)
    BY <1>0, <2>1 DEF Ledger, TypeOK
  <2>3. outbox[p].mail = Plan[r].mail
    BY <1>0, <2>1, <2>2 DEF SaysWhatWasSent
  <2>4. n \in DOMAIN journal /\ journal[n].effects /\ r \in DOMAIN Plan
    BY <1>0, <2>1 DEF Ledger, TaskIsJournalled, Settling, StatusesFit
  <2>5. <<n, r>> \in sent /\ MailOf(<<n, r>>) = Plan[r].mail
    BY <2>4 DEF IInv, SentIsKnown, EffectsAreOut, Plan, MailOf
  <2> QED
    BY <2>3, <2>5
<1>3. CASE User
  BY <1>3 DEF User, Write, MoveDraft, Discard
<1>4. CASE UNCHANGED outbox
  BY <1>0, <1>4
<1> QED
  BY <1>1, <1>2, <1>3, <1>4
  DEF Next, Daemon, Push, Start, Resume, MarkApplying, Check, RecordEffects, MarkApplied, ReadBack,
      ReconcileFails, Archive, Close, Apply

\* The daemon takes a mail out of the outbox only if this very mail has been sent, or, for
\* a draft, the draft has been (created_entity_source_matches_plan,
\* convert_gmail_draft_send_move_mutation_to_create).
THEOREM UnsentIsKept == Spec => KeepsUnsent
<1>1. IInv /\ [Next]_vars =>
        [\A p \in Pending :
           LET e == outbox[p]
           IN  /\ task' # task /\ e.mail # Gone
               /\ outbox'[p] = None \/ outbox'[p].mail # e.mail
               => \E s \in sent : MailOf(s) = e.mail \/ (e.draft # None /\ DraftOf(s) = e.draft)]_vars
  BY TakenWasSent
<1> QED
  BY <1>1, InvAlways, PTL DEF Spec, KeepsUnsent
=============================================================================
