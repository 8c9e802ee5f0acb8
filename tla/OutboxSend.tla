------------------------------ MODULE OutboxSend ------------------------------
(***************************************************************************)
(* The outbox of a Gmail mount.  A file in outbox/ is a mail to send: a new *)
(* file, or a remote draft moved there.  A push of the file, or of the      *)
(* whole folder, sends what it finds and adopts the sent mails.             *)
(*                                                                          *)
(* Gmail cannot be asked again what an interrupted push did: a mail carries *)
(* an id made of its push, and a retry is another push.  Before a push      *)
(* starts, the daemon looks in the journal for an earlier one whose mails   *)
(* may be out already; it refuses the push, or resumes the earlier one.     *)
(*                                                                          *)
(* A mail is what a file says: a changed file is another mail.              *)
(***************************************************************************)
EXTENDS Integers, Sequences, FiniteSets

CONSTANTS
    Paths,       \* the names of files in outbox/
    Drafts,      \* the remote drafts the mailbox starts with
    Mails,       \* the mails the user may write
    None,        \* no file, no draft
    Gone,        \* the mail of a pending file whose content is no longer there
    MaxPushes,   \* bound: journals
    MaxCrashes   \* bound: crashes of the daemon

ASSUME OutboxAssumption ==
    /\ None \notin Drafts /\ Gone \notin Mails
    /\ None \notin [mail : Mails \cup {Gone}, draft : Drafts \cup {None}]
    /\ MaxPushes \in Nat /\ MaxCrashes \in Nat

VARIABLES
    outbox,   \* what is pending at a path: its mail, and the draft it was
    entities, \* the drafts the store has an entity for
    drafts,   \* the drafts Gmail has
    sent,     \* the mails Gmail has sent, by the id in them: the push and the path
    journal,  \* the journals of the pushes
    task,     \* the push the daemon is in
    crashes

gmail == <<drafts, sent>>
vars == <<outbox, entities, drafts, sent, journal, task, crashes>>

Entries == [mail : Mails \cup {Gone}, draft : Drafts \cup {None}]
Plans == UNION {[S -> Entries] : S \in SUBSET Paths}

\* "ambiguous" is a failure whose message names a Gmail send
Statuses == {"prepared", "applying", "applied", "reconciled", "reverted", "failed", "ambiguous"}
Journals == [plan : Plans, status : Statuses, effects : BOOLEAN]

NoPlan == [p \in {} |-> [mail |-> Gone, draft |-> None]]
Idle == [pc |-> "idle", push |-> 0, todo |-> {}, cleanup |-> NoPlan]
Tasks ==
    [pc : {"idle", "prepared", "check", "apply", "applied", "readback", "cleanup", "close"},
     push : 0 .. MaxPushes, todo : SUBSET Paths, cleanup : Plans]

Init ==
    /\ outbox = [p \in Paths |-> None]
    /\ entities = Drafts /\ drafts = Drafts
    /\ sent = {} /\ journal = <<>>
    /\ task = Idle
    /\ crashes = 0

Pending == {p \in Paths : outbox[p] # None}
Plan == journal[task.push].plan

\* What the journals and the outbox know of is not written again.
Fresh == Mails \ ({outbox[p].mail : p \in Pending}
                  \cup UNION {{journal[i].plan[p].mail : p \in DOMAIN journal[i].plan}
                                : i \in DOMAIN journal})

-----------------------------------------------------------------------------
(* The user, at any time. *)

\* A new file, or other words in a pending one.
Write(p) ==
    /\ \E m \in Fresh :
         outbox' = [outbox EXCEPT ![p] =
                      [mail |-> m, draft |-> IF @ = None THEN None ELSE @.draft]]
    /\ UNCHANGED <<entities, gmail, journal, task, crashes>>

\* A draft is moved to the outbox, as it is or with other words.
MoveDraft(d, p) ==
    /\ d \in entities /\ outbox[p] = None
    /\ \A q \in Pending : outbox[q].draft # d
    /\ \E m \in Fresh : outbox' = [outbox EXCEPT ![p] = [mail |-> m, draft |-> d]]
    /\ UNCHANGED <<entities, gmail, journal, task, crashes>>

\* A pending file is deleted, a draft is moved back.
Discard(p) ==
    /\ outbox[p] # None
    /\ outbox' = [outbox EXCEPT ![p] = None]
    /\ UNCHANGED <<entities, gmail, journal, task, crashes>>

User ==
    \/ \E p \in Paths : Write(p) \/ Discard(p)
    \/ \E d \in Drafts, p \in Paths : MoveDraft(d, p)

-----------------------------------------------------------------------------
(* What an earlier journal says about a plan. *)

CreateSources(plan) == {p \in DOMAIN plan : plan[p].draft = None}
DraftIds(plan) == {plan[p].draft : p \in DOMAIN plan} \ {None}
AllCreates(plan) == DraftIds(plan) = {}
AllDrafts(plan) == CreateSources(plan) = {}

IsNewest(i, I) == i \in I /\ \A k \in I : k <= i

\* ambiguous_gmail_send_plans_match: the same new files, or one draft in common.
SendsMatch(left, right) ==
    \/ CreateSources(right) # {} /\ CreateSources(left) = CreateSources(right)
    \/ DraftIds(left) \cap DraftIds(right) # {}

\* Mutant of MaybeSent: a push that ended without an answer is like any other failure.
MaybeSentApplying(plan) ==
    LET I == {i \in DOMAIN journal : SendsMatch(journal[i].plan, plan)}
    IN  \E i \in I : IsNewest(i, I) /\ ~ journal[i].effects /\ journal[i].status = "applying"

\* Only the newest journal that matches is looked at.
MaybeSent(plan) ==
    LET I == {i \in DOMAIN journal : SendsMatch(journal[i].plan, plan)}
    IN  \E i \in I : /\ IsNewest(i, I)
                     /\ ~ journal[i].effects
                     /\ journal[i].status \in {"applying", "ambiguous"}

\* The effects of a push of creates, or of drafts, can be resumed; those of a mixed
\* one cannot.
Resumable(j) == j.effects /\ (AllCreates(j.plan) \/ AllDrafts(j.plan))

ResumeMatches(j, plan) ==
    \/ j.plan = plan
    \/ /\ j.effects /\ AllCreates(j.plan) /\ AllCreates(plan)
       /\ CreateSources(j.plan) = CreateSources(plan)
    \/ /\ j.effects /\ AllDrafts(j.plan) /\ AllDrafts(plan)
       /\ DraftIds(j.plan) = DraftIds(plan)

Unfinished(j) == j.status \in {"applying", "applied", "failed", "ambiguous"}

\* Mails of the plan went out with others that are not in it.
SentWithOthers(plan) ==
    \E i \in DOMAIN journal :
      LET j == journal[i]
      IN  /\ Unfinished(j) /\ Resumable(j) /\ ~ ResumeMatches(j, plan)
          /\ IF AllDrafts(j.plan)
             THEN DraftIds(j.plan) \cap DraftIds(plan) # {}
             ELSE CreateSources(j.plan) \cap CreateSources(plan) # {}

Blocked(plan) == MaybeSent(plan) \/ SentWithOthers(plan)

Unreconciled(plan) ==
    {i \in DOMAIN journal : Unfinished(journal[i]) /\ ResumeMatches(journal[i], plan)}

\* The newest matching journal has sent something its effects do not account for.
Refused(plan) ==
    \E i \in Unreconciled(plan) :
      /\ IsNewest(i, Unreconciled(plan))
      /\ ~ Resumable(journal[i])
      /\ journal[i].status = "applied" \/ journal[i].effects

Resumed(plan) ==
    {i \in Unreconciled(plan) : IsNewest(i, Unreconciled(plan)) /\ Resumable(journal[i])}

-----------------------------------------------------------------------------
(* A push. *)

SetStatus(i, status) == journal' = [journal EXCEPT ![i].status = status]

Ends(status) ==
    /\ SetStatus(task.push, status)
    /\ task' = Idle

\* The plan of one pending file, or of the folder.  A new file that is gone cannot
\* be read, a draft that is no entity any more is not found, and then there is no plan.
Prepared ==
    {plan \in {[p \in S |-> outbox[p]] : S \in ({{p} : p \in Pending} \cup {Pending}) \ {{}}} :
        /\ \A p \in CreateSources(plan) : plan[p].mail # Gone
        /\ DraftIds(plan) \subseteq entities}

Start(plan) ==
    /\ Resumed(plan) = {} /\ Len(journal) < MaxPushes
    /\ journal' = Append(journal, [plan |-> plan, status |-> "prepared", effects |-> FALSE])
    /\ task' = [pc |-> "prepared", push |-> Len(journal) + 1, todo |-> {}, cleanup |-> plan]
    /\ UNCHANGED <<outbox, entities, gmail, crashes>>

Resume(plan) ==
    /\ \E i \in Resumed(plan) :
         /\ SetStatus(i, "applied")
         /\ task' = [pc |-> "readback", push |-> i, todo |-> {},
                      cleanup |-> IF AllDrafts(plan) THEN plan ELSE journal[i].plan]
    /\ UNCHANGED <<outbox, entities, gmail, crashes>>

Push ==
    /\ task.pc = "idle"
    /\ \E plan \in Prepared :
         /\ ~ Blocked(plan) /\ ~ Refused(plan)
         /\ Start(plan) \/ Resume(plan)

MarkApplying ==
    /\ task.pc = "prepared"
    /\ SetStatus(task.push, "applying")
    /\ task' = [task EXCEPT !.pc = "check"]
    /\ UNCHANGED <<outbox, entities, gmail, crashes>>

\* The drafts are read again: each must be as it was shown.
Check ==
    /\ task.pc = "check"
    /\ \/ /\ DraftIds(Plan) \subseteq drafts
          /\ task' = [task EXCEPT !.pc = "apply", !.todo = DOMAIN Plan]
          /\ UNCHANGED journal
       \/ DraftIds(Plan) # {} /\ Ends("reverted")
    /\ UNCHANGED <<outbox, entities, gmail, crashes>>

\* New files are sent before drafts.
IsNext(p) == p \in task.todo /\ (Plan[p].draft # None => task.todo \cap CreateSources(Plan) = {})

\* Mutant of GmailSends: the id in the mail is that of the next push.
GmailSendsAsNext(p) ==
    /\ sent' = sent \cup {<<task.push + 1, p>>}
    /\ drafts' = drafts \ {Plan[p].draft}

GmailSends(p) ==
    /\ sent' = sent \cup {<<task.push, p>>}
    /\ drafts' = drafts \ {Plan[p].draft}

\* Gmail says that it has sent the mail, or it is found in Sent Mail by its id.
Accepted(p) ==
    /\ Plan[p].draft \in drafts \cup {None}
    /\ GmailSends(p)
    /\ task' = [task EXCEPT !.todo = @ \ {p}]
    /\ UNCHANGED journal

\* No answer, or one that cannot be read, and no such mail found: it may be out.
NoAnswer(p) ==
    /\ Plan[p].draft \in drafts \cup {None}
    /\ GmailSends(p) \/ UNCHANGED gmail
    /\ Ends("ambiguous")

\* A limit, a missing permission, a draft that cannot be read: this mail is not
\* sent, and nothing in the message tells that others of the push are.
Rejected(p) ==
    /\ Ends("failed")
    /\ UNCHANGED gmail

Apply(p) ==
    /\ task.pc = "apply" /\ IsNext(p)
    /\ Accepted(p) \/ NoAnswer(p) \/ Rejected(p)
    /\ UNCHANGED <<outbox, entities, crashes>>

\* The effects are written only once all mails are out.
RecordEffects ==
    /\ task.pc = "apply" /\ task.todo = {}
    /\ journal' = [journal EXCEPT ![task.push].effects = TRUE]
    /\ task' = [task EXCEPT !.pc = "applied"]
    /\ UNCHANGED <<outbox, entities, gmail, crashes>>

MarkApplied ==
    /\ task.pc = "applied"
    /\ SetStatus(task.push, "applied")
    /\ task' = [task EXCEPT !.pc = "readback"]
    /\ UNCHANGED <<outbox, entities, gmail, crashes>>

\* Mutant of ReadBack: what was sent of drafts is not cleaned up.
ReadBackOfCreates ==
    /\ task.pc = "readback"
    /\ task' = [task EXCEPT !.pc = "cleanup", !.todo = CreateSources(Plan)]
    /\ UNCHANGED <<outbox, entities, gmail, journal, crashes>>

\* The sent mails are fetched and projected under sent/.
ReadBack ==
    /\ task.pc = "readback"
    /\ task' = [task EXCEPT !.pc = "cleanup", !.todo = DOMAIN Plan]
    /\ UNCHANGED <<outbox, entities, gmail, journal, crashes>>

\* A read-back that fails, a file that cannot be removed.
ReconcileFails ==
    /\ task.pc \in {"readback", "cleanup"}
    /\ Ends("failed")
    /\ UNCHANGED <<outbox, entities, gmail, crashes>>

\* Where the file of p is now: a draft may have been moved to another name since.
SourceOf(p) ==
    LET Q == {q \in DOMAIN task.cleanup : task.cleanup[q].draft = Plan[p].draft}
    IN  IF Plan[p].draft # None /\ Q # {} THEN CHOOSE q \in Q : TRUE ELSE p

\* Mutant of SaysWhatWasSent: the file is not compared with the plan.
SaysAnything(p) == TRUE

\* The file still says what was sent, or there is none any more.
SaysWhatWasSent(p) ==
    LET entry == outbox[SourceOf(p)]
    IN  entry = None \/ entry.mail \in {Plan[p].mail, Gone}

\* A file that was changed since stays: a new file as it is, a draft as a new file.
Cleaned(p) ==
    LET q == SourceOf(p)
        d == Plan[p].draft
    IN  [x \in Paths |->
           IF outbox[x] = None THEN None
           ELSE IF SaysWhatWasSent(p)
             THEN IF (IF d = None THEN x = q ELSE outbox[x].draft = d) THEN None ELSE outbox[x]
           ELSE IF d # None /\ x = q /\ outbox[x].draft = d THEN [outbox[x] EXCEPT !.draft = None]
           ELSE outbox[x]]

Cleanup(p) ==
    /\ task.pc = "cleanup" /\ p \in task.todo
    /\ outbox' = Cleaned(p)
    /\ task' = [task EXCEPT !.todo = @ \ {p}]
    /\ UNCHANGED <<entities, gmail, journal, crashes>>

Archive ==
    /\ task.pc = "cleanup" /\ task.todo = {}
    /\ entities' = entities \ DraftIds(Plan)
    /\ task' = [task EXCEPT !.pc = "close"]
    /\ UNCHANGED <<outbox, gmail, journal, crashes>>

Close ==
    /\ task.pc = "close"
    /\ Ends("reconciled")
    /\ UNCHANGED <<outbox, entities, gmail, crashes>>

\* A crash, at any step; in the middle of a cleanup the file may be removed and what
\* is pending not.
Crash ==
    /\ task.pc # "idle" /\ crashes < MaxCrashes
    /\ \/ UNCHANGED outbox
       \/ \E p \in task.todo :
            LET q == SourceOf(p)
            IN  /\ task.pc = "cleanup" /\ outbox[q] # None /\ SaysWhatWasSent(p)
                /\ outbox' = [outbox EXCEPT ![q].mail = Gone]
    /\ task' = Idle
    /\ crashes' = crashes + 1
    /\ UNCHANGED <<entities, gmail, journal>>

Daemon ==
    \/ Push \/ MarkApplying \/ Check \/ RecordEffects \/ MarkApplied
    \/ ReadBack \/ ReconcileFails \/ Archive \/ Close
    \/ \E p \in Paths : Apply(p) \/ Cleanup(p)

Next == User \/ Daemon \/ Crash

Spec == Init /\ [][Next]_vars

-----------------------------------------------------------------------------
\* Every value the daemon, the store and Gmail hold is of its type.
TypeOK ==
    /\ outbox \in [Paths -> Entries \cup {None}]
    /\ entities \subseteq Drafts /\ drafts \subseteq Drafts
    /\ journal \in Seq(Journals) /\ Len(journal) <= MaxPushes
    /\ sent \subseteq (DOMAIN journal) \X Paths
    /\ task \in Tasks
    /\ crashes \in 0 .. MaxCrashes

MailOf(s) == journal[s[1]].plan[s[2]].mail
DraftOf(s) == journal[s[1]].plan[s[2]].draft

\* docs/reliability.md: "Remote apply operations are idempotent."  So no mail is sent
\* twice, however often it is pushed.
SentOnce == \A s, t \in sent : MailOf(s) = MailOf(t) /\ MailOf(s) # Gone => s = t

Files(plan) == [p \in DOMAIN plan |-> plan[p].draft]

Shares(left, right) ==
    DOMAIN left \cap DOMAIN right # {} \/ DraftIds(left) \cap DraftIds(right) # {}

\* Some of the files of push i were pushed again, up to push j, without the others or
\* with more of them.
Regrouped(i, j) ==
    \E k \in i + 1 .. j : /\ Shares(journal[i].plan, journal[k].plan)
                          /\ Files(journal[i].plan) # Files(journal[k].plan)

\* Gmail rejected one of the mails of push i after others had gone out.
RejectedHalfway(i) ==
    /\ journal[i].status = "failed" /\ ~ journal[i].effects
    /\ \E q \in DOMAIN journal[i].plan : <<i, q>> \notin sent

\* What the look into the journal before a push does achieve
\* (block_ambiguous_gmail_send_replay, resume_failed_applied_reconciliation): whatever
\* crashes and lost answers there are, a mail goes out twice only if the files it was
\* pushed with were regrouped since, or if Gmail rejected another mail of its push.  A
\* file that is only ever pushed alone is sent once.
RepeatsAreExplained ==
    \A s, t \in sent :
      MailOf(s) = MailOf(t) /\ MailOf(s) # Gone /\ s[1] < t[1] =>
        Regrouped(s[1], t[1]) \/ RejectedHalfway(s[1])

\* What a push reconciles is compared with what the user has written meanwhile
\* (created_entity_source_matches_plan, convert_gmail_draft_send_move_mutation_to_create):
\* the daemon takes a mail out of the outbox only if this very mail has been sent, or, for
\* a draft, the draft has been.
KeepsUnsent ==
    [][\A p \in Pending :
         LET e == outbox[p]
         IN  /\ task' # task /\ e.mail # Gone
             /\ outbox'[p] = None \/ outbox'[p].mail # e.mail
             => \E s \in sent : MailOf(s) = e.mail \/ (e.draft # None /\ DraftOf(s) = e.draft)]_vars

\* A journal ends as reconciled, at once or when a later push resumes it, only when all
\* its mails are out and none of them is pending any more (DaemonPushHost::reconcile).
ReconciledIsDone ==
    \A i \in DOMAIN journal :
      journal[i].status = "reconciled" =>
        \A p \in DOMAIN journal[i].plan :
          /\ <<i, p>> \in sent
          /\ \A q \in Pending : outbox[q].mail = journal[i].plan[p].mail => outbox[q].mail = Gone
=============================================================================
