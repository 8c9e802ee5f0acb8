# Locality: verification project

Locality projects documents of SaaS tools (Notion, Google Docs, Linear, Gmail, Slack, ...)
into local Markdown files. A user edits the files; a daemon, `localityd`, pulls
remote changes into them and pushes confirmed local changes back. This directory holds
TLA+ models of the parts of that daemon where order, failure and crashes matter, the
TLC runs that check them, and proofs that TLAPS checks.

Paths below are relative to the repository; `localityd/` stands for
`crates/localityd/src/`, `locality-core/` and `locality-store/` likewise.

## 1. The system

### Parts, their state and their operations

| part | where | state | operations |
|---|---|---|---|
| Page synchronisation | `localityd/push.rs`, `pull.rs`, `hydration.rs`, `locality-core/push.rs`, `conflict.rs`, `journal.rs` | per page: file, shadow (last accepted render), entity record (hydration state, synced version), push journal | push: diff, plan, journal, check, apply, read back, accept; pull: render, replace, merge or mark; both by separate durable writes |
| Push of creates, moves, archives | `localityd/push.rs`, `locality-store/repository.rs`, for mails `crates/locality-gmail/src/connector.rs` | virtual mutations, journalled effects | look in the journal for an earlier push, apply, record effects, read back, clean up, resume after a failure |
| Control loop | `localityd/runtime.rs`, `execution.rs`, `scheduler.rs` | pending requests, the slot of the mutating job, scheduled tick, fetched snapshot, deferred poll, running directory refreshes, shutdown responders | one message at a time: request, watcher event, completion; a timeout handler; `maybe_start_next_job` after each |
| Hydration jobs | `locality-core/hydration.rs`, `localityd/runtime.rs` | queue by priority, parking lot with retry deadlines, `hydration_jobs` rows | accept, merge, start, complete, park, retry, cancel, reload at start |
| Auto-save and Live Mode | `localityd/autosave.rs`, `push.rs`, `runtime.rs`, the runner in `apps/desktop/src-tauri/src/main.rs` | enrolments and their state per file, a Live Mode record per mount, the daemon's queue of writes and auto-pushes, the runner's tick | trigger on a file event, check the plan, push, pause, block, reactivate; tick, merge remote drift, sleep and wake |
| Scheduled reconciliation | `localityd/reconcile.rs`, `scheduler.rs` | a fetched listing of a mount | fetch beside the loop, reconcile in the slot, defer on a rate limit |
| Freshness | `locality-core/freshness.rs`, `localityd/freshness.rs` | tiers, backoff, budget, queue of observations | queue, pop within a budget, record an observation, demote |
| Discovery | `localityd/discovery.rs`, `discovery_execution.rs` | prepared transactions over projected files | plan, prepare, step, commit, roll back, repair at start |
| Generation synchronisation | `localityd/generation_sync.rs`, `generation_mount.rs` | per mount: accepted generation, staged delta, per-entry journal, retained local versions | fetch a delta, stage, apply entry by entry, recover, acknowledge |
| Workspace materialisation | `localityd/workspace_materializer.rs` | staged tree, swap marker | build, swap, recover |
| Virtual filesystem | `localityd/virtual_fs.rs`, `file_provider.rs`, `watcher.rs` | projection state, pending mutations | lookups, creations, renames and deletions by the platform |
| Stores | `locality-store/` | SQLite tables | one transaction per repository call |
| Planning | `locality-core/diff.rs`, `planner.rs`, `undo.rs`, `validation.rs` | none | pure functions from documents to plans |
| Hydration budget | `crates/locality-connector/src/hydration_budget.rs` | usage under a mutex | reserve, commit, release, check |
| Connectors, authentication, supervisor, CLI, desktop | the other crates and `apps/` | remote systems, tokens, processes | remote calls, exchanges, user interface |

### How they interact

Clients (the CLI, the desktop app, the platform's file provider) and the file watcher send
messages to the control loop and wait on a reply channel. The loop never works itself: it
hands at most one *mutating job* at a time to a thread, and beside it at most one fetch of
a scheduled poll and a number of directory refreshes. Each thread sends one completion
back; its handler answers the caller, queues follow-ups (hydrations, freshness jobs,
auto-pushes) and starts what comes next. A job works on the store and the files through
page synchronisation, and on the sources through connectors. The desktop app's Live Mode runner and its button push in the app's own process,
past the loop, on the same store. What must survive the daemon is in SQLite and in the files: journal, shadows, entities, hydration rows.

### What is hard

- *Interleaving*: the user edits files, other people edit the pages, and the platform
  calls in, while a job sits between two of its reads and writes; daemon and desktop app push the same file.
- *Separate durable writes*: file, shadow and record are written one after another.
- *Failures of remote calls*: part of a plan may be applied; an answer may be lost.
- *Restart*: queues in memory are rebuilt from rows that were written at other times.
- *Three queues with overtaking*: requests pass others that wait for a snapshot; a request
  for a page in the queue, in the parking lot or in the slot must be one and the same.
- *Retry and rate limits*: cool-downs, merged ticks, parked requests.
- *Shutdown* in the middle of any of these.

`PROJECT.json` lists each such hazard at its line with the properties that cover it, or
why none does yet.

### What makes each part correct

- Page synchronisation: no remote value is overwritten that the user has not been shown;
  no pending edit is lost; the journal says what was done; edits converge in the end.
- Control loop: every caller is answered once; a remote mutation never makes a fetched
  snapshot stale; polls are neither lost nor started ahead of queued work; shutdown drains.
- Hydration jobs: what was accepted is served in the end, not weakened and not forgotten
  by a restart; cool-downs are kept.
- Creates and moves: a repeated push creates, or sends, nothing twice; what is cleaned up after a push has been in it.
- Auto-save and Live Mode: what is written is pushed, or a setting says that it is not; nothing goes out
  unreviewed that needs a review; the runner does not sleep through a change of its setting.
- Discovery and generation synchronisation: a transaction of file operations is finished or
  undone, whatever crashes come, and no local version is lost.
- Budgets: reservations never pass a limit and are given back.

## 2. The modules

| module | what it is |
|---|---|
| `PageSync` | one tracked page: push, pull, hydration, user, other people, failures, crash |
| `PageSyncProofs` | theorems about it |
| `MCPageSync`, `MCPageSyncLive` | instances; a patient user |
| `HydrationJobs` | queue, parking lot, worker, durable rows, restart |
| `HydrationPromises` | what that queue promises: a set of wishes and one fetch; `HydrationJobs` implements it |
| `HydrationProofs` | theorems about it, and the refinement |
| `MCHydrationJobs` | instances |
| `DaemonRuntime` | the control loop, its slot, snapshots, polls, shutdown |
| `DaemonRuntimeProofs` | theorems about it |
| `MCDaemonRuntime` | instances |
| `GenerationSync` | one document of a shared workspace: deltas, files, journal, evidence, user, crash |
| `GenerationSyncProofs` | theorems about it |
| `GenerationBaseProofs` | the theorem that a clean path shows its base, on top of those |
| `MCGenerationSync` | instances; a user who works between syncs |
| `LiveMode` | one page under auto-save and Live Mode: daemon, runner and app that push it, other people, end of the app |
| `LiveModeProofs` | theorems about it |
| `MCLiveMode` | instances: a bound on everything that happens |
| `DiscoveryExecution` | one discovery transaction over a mount of plain files: apply, commit, roll back, user, crash |
| `DiscoveryPromises` | what such a transaction promises: pages move, all arrive or all return; `DiscoveryExecution` implements it |
| `DiscoveryExecutionProofs` | theorems about it, and the refinement |
| `MCDiscoveryExecution` | instances: the plans |
| `OutboxSend` | the outbox of a Gmail mount: pushes that send mails, the journal that keeps them from being sent again, Gmail, user, crash |
| `OutboxSendProofs` | theorems about it |
| `MCOutboxSend` | instances |

Each definition that stands for code is listed in `PROJECT.json` under `map` with the lines
it models. An operator whose comment starts with "Mutant of" is no part of the model: it
is the named definition with a plausible mistake in it, kept to show that a property notices.

### PageSync

State: `file`, `shadow`, `entity`, `journal` are what the disk holds; `remote` is the page
at the source; `task` is the running job with its program counter and its locals.
`mine`, `shown`, `late` and `landed` are history variables that only properties read.

A body is a function from blocks to values. A file holds, per block, both sides of an
inline hunk; conflict markers are there when the sides differ. So the merge of
`conflict.rs` is a choice per block, and no text is modelled. `remote.version` is the
source's edit time, which may stay the same over an edit (Notion rounds to the minute).

A push is `BeginPush` (read, diff, refuse a plan that an older journal entry makes
unsafe, journal it), `MarkApplying`, `CheckPasses`/`CheckRejects`, `BeginApply` (the
connector's own version check), one `ApplyOperation` per remote call, `RecordEffects`,
`MarkApplied`, `ReadBack`, and the three writes `WriteFile`, `SaveShadow`, `SaveEntity`,
then `MarkReconciled`. Every step but the local status writes may fail, in the way its
error path in `locality-core/push.rs` says (`Reverted` before apply, `Failed` after).
A pull is `BeginPull` (which reads the file and decides whether it may be replaced),
`FetchRender`, `Decide` for a file with pending edits, and the same three writes.
`Crash` forgets the task between any two steps. The loop's slot makes push and pull
exclude each other, so there is one task.

### HydrationJobs

State: `queued` and `parked` give the reason for which a page is queued or parked, `due`
the parked ones whose deadline has passed, `slot` the running job, `rows` the table,
`stubs` the pages that are not yet on disk. `owed` is history: the reasons accepted for a page and
not yet served. Actions are the handlers of `runtime.rs`: `Accept` (queue_hydration with
its gate for fast-forwards, merging and persisting), `Ask` (a client's pull or
materialisation, which runs first), `WorkerFinishes`, `HydrationSucceeds`,
`HydrationFails` (parking), `MaterializeEnds`, `PullEnds` (cancelling prefetches of pages that are here),
`DeadlinePasses`, `Tick` (retrying what is due), `Restart` (reloading rows). Each ends
with `MaybeStartNext`, as each handler does. What a hydration does to files is `PageSync`.

### HydrationPromises

The abstract specification of the queue: `wanted`, at most one reason per page, and
`running`, the fetch in progress. Nothing in it is parked, stored or ticked. A wish may
become stronger (`Want`), be taken up (`Settle`), come back after a failure (`PutBack`) and
go away for three reasons only: the page was fetched, it was brought by somebody else, or the wish was
advice. The mapping is `Wanted` (a page is wanted for the reason it is queued or, failing
that, parked for) and `Running` (the slot, when it holds a hydration). `Tick`, the deadlines
and the writes of rows are stuttering steps; `Restart` maps to `Restart`.

### DaemonRuntime

State: `loop` holds the loop's own fields (`pending`, counters of `hydration` and
`freshness` jobs ready to run, the `tick` and the `deferred` poll, the `fetch` in flight and the fetched
`snapshot`); `slot` is `active_job`; `refreshes` counts the directory refreshes that run
beside it; `clients` and `closers` stand for the reply channels. `remote` counts the
pushes that changed a source, so that a snapshot can be as of a count; `due` remembers which polls
must still run. Actions are the messages (`Submit`, `QueueBackground`, `WatcherReports`,
`JobEnds`, `FetchEnds`, `RefreshEnds`, `Shutdown`), the timeout handler (`Timeout`), the work
itself (`WorkerFinishes`) and the clock (`CoolDownPasses`). `StartJob` is the order of
`maybe_start_next_job`: requests, hydrations, interactive refreshes, freshness, snapshot,
then the fetch of a poll.

### GenerationSync

One document of one source. State: `disk` (the text in every slot: the visible files, the
inode that delta `d` displaced, `Pre(d)`, and the visible snapshot kept beside it, `Snap(d)`), the
user's open descriptor `held`, the SQLite records `gen`, `path`, `active`, `outcomes`,
`evidence`, the staged `payloads`, and `task`, the sync with its program counter and
what it has read. `typed` and `owed` are history: edits typed, and those of them that the user has
not thrown away. A text is a version or the user's own text with a set of edits, so that
digests are compared by comparing texts.

A sync is `Begin`, the review of every row whose retained inode may have changed
(`Review`, `Restore`, `Retain`, `ResolveEvidence`), `Validate`, `Stage` (with
the reconciliation of the staging directory that prunes payloads), then one entry: `ApplyCreate`,
`ThreeWay` (merge in place), `FencedUpdate` (displace, verify, place, put back) or
`FencedRename`, then `RecordEvidence`, `RecordOutcome`, `Complete` and `Tidy`. Every file operation
is a step of its own, between which the user types, also into a file that has been moved
aside, removes, recreates and resolves. `Crash` forgets the task.

### LiveMode

Who pushes a file when nobody asks. State: `file`, `page` (shadow, record and what the journal
shows of earlier pushes) and `remote`, with bodies as sets of edits; `row` and `mode`, the enrolment of the
file and the Live Mode record of the mount; `queue` and `event`, the daemon's writes and auto-pushes
and the write that it looks at; `push`, one per process; `runner` with its program counter; `app`.
`typed`, `landed` and `dropped` are history.

Three processes push. The daemon begins with `TakeWrite`, `SaveWrite` (which asks `AutoSaves`) and `TakePush`;
the runner with `Inspect` or, after a merge, `PushMerged`; the app with `SwitchFile`, and for the user with `Review`.
A push, whoever makes it, is `Begin` (read, plan, `NeedsReview`, refuse what `Refuses` says), `Check`,
`Apply`, `Reconcile`, and then the mark in the enrolment, a read (`ReadRow`) and a write of
the whole row (`SaveRow`). The steps of different processes interleave: their guards are only the versions of
the source and the journal. The runner's loop is `Look`, `Resume`, `Wait`, `Wake` and the tick from `BeginTick` to
`Rest`, whose record is read and written back at `SaveSyncing` and again between `ReadMode`
and `SaveResult`. `FetchDrift` and `MergeWrite` are the merge of remote drift, a fetch and, later, a write
on top of it. `Observe` and `FastForward` bring remote versions and, to a clean file, remote bodies.
`Quit` ends the app between any two of its steps; a remote call on its way may still arrive.

### DiscoveryExecution

A plan is a set of operations (create, move, delete), each with a component, its paths and its
place in the order of the code. State: the files of the `mount`, of the `recovery` directory and
the `temporary` payloads, `root` (whether the recovery directory exists), `tx` (the
SQLite record: status, effects per operation, the flags of the commit phase and the reason of a
rollback), and `job`, the file change that the executor has decided on. A step of
`step_plain_files_discovery_transaction` looks at the files and then either records an effect or changes
a file. A recording step is one action. A changing step is two, the decision (`Stage`,
`Publish`, `Install`, `Vacate`, `Restore`, `Drop`, `Cleanup`) and the change (`StageSource`,
`PublishPayload`, ...), with the user, a crash or a stale reservation in between. `Fails` is
`handle_precommit_failure`. The order of the code, components one after the
other, sources before payloads before installations before deletions, and in the rollback
destinations before sources before payloads, is in `ToStage`, `ToPublish`, `ToInstall`, `ToDelete`
and `ToVacate`, `ToRestore`, `ToDrop`, `ToSweep`.

`DiscoveryPromises` is the same transaction for somebody who sees only the mount: its pages are at home, there or on the
way, it is open, under review, committed, finalized or aborted, and hydration has been asked for or not.
`DiscoveryExecution` implements it (`KeepsPromises`).

### OutboxSend

A file in `outbox/` is a mail to send: a new file, or a remote draft that was moved there. A *mail* is what a file says,
so that a changed file is another mail. State: `outbox` (the pending mutation at each path: its mail, and the
draft it was), `entities` (drafts that the store knows), `journal` (per push: its plan, status and whether its effects are
recorded), `task` (the push the daemon is in); at Gmail `drafts` and `sent`, where a mail is named by
the id that the daemon puts in it, made of its push and its path. A failure whose message names a
Gmail send is a status of its own, `ambiguous`, as the code tells it by the text of the message.

The user, at any time, writes (`Write`), moves a draft (`MoveDraft`) and deletes (`Discard`). `Push` takes
one file or the whole folder and looks in the journal before anything else: `Blocked` is
`block_ambiguous_gmail_send_replay` and the partial match of drafts and files, `Refused` and `Resumed`
are `resume_failed_applied_reconciliation`. Then a push is `Start` (journal it), `MarkApplying`, `Check` (the
drafts are read again), one `Apply` per mail, in which Gmail accepts, gives no answer or rejects, `RecordEffects`
when all are out, `MarkApplied`, `ReadBack`, one `Cleanup` per mail, `Archive` (the drafts' entities)
and `Close`; a push with effects that is pushed again is `Resume`, which goes on at the read-back.
`Cleaned` is what the cleanup does when the user has written over the file, or has moved the draft, meanwhile.
`ReconcileFails` is a failed read-back or cleanup. `Crash` forgets the task between any two of these, and, in a
cleanup, between the removal of a file and that of its mutation (`Gone`).

## 3. What the runs check

| run | property | result |
|---|---|---|
| `page_crash` | `TypeOK`, `JournalTellsTruth`, `OverwritesOnlyWhatWasShown`, `KeepsTheEditsItRead` | hold with two blocks, two local edits, a remote edit, two pushes, a failure, and one of: a crash, a deletion of the remote page, a new version of the same body |
| `page_live` | `TreesConverge` | holds for a patient user (three local edits, a remote one, four pushes) |
| `page_pending_overwritten` | `NeverOverwritesPending` | violated: see findings |
| `hydration` | `TypeOK`, `AcceptedIsPending`, `AcceptedIsDurable`, `OneOwner`, `CoolDownIsKept`, `AllServed`, `KeepsPromises` | hold with two pages, four requests, a client job, two failures, a restart |
| `runtime` | `TypeOK`, `SnapshotIsFresh`, `RequestsAreHeld`, `PollsComeLast`, `ShutdownDrains`, `EveryoneIsAnswered`, `PollsRun` | hold with two callers, two polls, and any two of an event, a follow-up, a rate limit and two refreshes |
| `live_mode` | `TypeOK`, `NoLostWakeup`, `UnreviewedStaysHome`, `LiveModeSettles`, `EnrolledWritesSettle` | hold with a remote edit and any two of: an edit that may go unreviewed, a failure, a remote edit that leaves the version alone, a switch, a review (with the remote edit, alone), an end of the app; or with an edit of the two kinds that need a review beside one of these or the remote edit |
| `generation_safe` | `TypeOK`, `EditsAreKept`, `RetainedInPlaceAreNamed`, `CleanShowsBase` | hold with two deltas, two names, two edits (one of which clashes with every new version), a crash |
| `generation_live` | `DeltasLand` | holds when the user works between syncs, for two crashes anywhere but between an outcome and the completion |
| `generation_crash` | `DeltasLand` | violated by a crash there: see findings |
| `discovery` | `TypeOK`, `EditsAreKept`, `AllOrNothing`, `ReviewIsEarned`, `EndsStay`, `KeepsPromises`, `TransactionsEnd` | hold for four plans, two edits, a removal, a stale reservation, two crashes |
| `outbox` | `TypeOK`, `RepeatsAreExplained`, `ReconciledIsDone`, `KeepsUnsent` | hold with two paths, three mails, a draft, three pushes, a crash, and lost answers and rejections without a bound |
| `outbox_sent_once` | `SentOnce` | violated: see findings |

For every property of a passing run `PROJECT.json` names a mutant, a slip in one mapped
definition that makes TLC find the property violated under the same bounds.

### Bounds

Bounds are constants that guards test (`MaxLocalEdits`, `MaxFailures`, ...). They are
chosen so that every property's interesting case is inside: two blocks let one side of a
page change while the other is pending; two pushes let a second journal entry meet the first's;
one failure and one crash can fall on every step, and both in one behaviour; two pages make
the choice by priority matter; four hydration requests let a weak, a strong and a repeated
request meet a parked one; two callers let one be overtaken by the other or by its shutdown,
and a rate limit with a second tick makes the merge of polls happen; two
deltas let the second meet the inode that the first displaced, and two edits a clean and a clashing merge;
the four plans are operations apart, two chains in either direction of the sorting order and a swap, and two
crashes can cut a step and its repeat; three pushes of an outbox
of two files let a mail go out, be regrouped or resumed, and be pushed once more, and a draft beside new files makes a
push mixed. Two runs bound several kinds of events together: `MaxExtras` allows any
two of the control loop's side events, and `MaxActs` a remote edit with any two other acts of people and the environment in Live Mode,
where three processes push one edit at once and a second act falls between any two of their steps (an edit that needs a
review weighs more, and goes with one act only; a push the user asks for meets the remote edit alone, `PageSync` being about
those pushes). No such bound blocks a step that fairness asks for. The
theorems of section 5 hold for every value of the bounds, of the blocks and of the pages.

Symmetry is declared for blocks and values in runs of `PageSync`, for paths and mails in those of `OutboxSend`, never with liveness.
`CHECK_DEADLOCK FALSE` is set because a system whose bounds are used up, or a daemon that has been shut down, stops.

### Fairness

- `PageSync` (in `MCPageSyncLive`): the daemon finishes the job it runs, since a thread
  does nothing else; and the user keeps pulling, pushing and removing markers, pulling after
  a push was refused. The latter is an assumption about the user, stated in
  `LiveSpec`, without which nothing in the code makes trees converge. Pushes and the removal of
  markers are strongly fair: other jobs disable them again and again.
- `HydrationJobs`: the worker returns, its completion is handled, a deadline passes, and
  the timeout handler runs. The loop takes messages in order, and `recv_timeout` times out when
  none has come for a tick, which happens as the accepted requests are bounded.
- `DaemonRuntime`: the same; a client need never ask for anything, and the timeout that is fair is the one (`QuietTimeout`) that
  brings no new poll and starts no directory refresh.
- `LiveMode`: the daemon's loop takes the next write or push, its polls observe the page, every push that has begun goes on,
  the runner's loop goes on (its wait times out after five minutes) and the app's call that wakes it returns. The daemon never waits for
  the app, nor the app for the daemon. People owe nothing: nobody need edit, review or switch.
- `GenerationSync` (`Polls` in `MCGenerationSync`): the client syncs again and again, as its poll
  does, and the user closes an open file at last. The sync is strongly fair, since in `Calm` an
  open file disables its steps again and again. That the user acts only between syncs (`Calm`) is an
  assumption: a write at every sync makes every sync start over.
- `DiscoveryExecution` (`FairSpec`): somebody runs or repairs the transaction again and again.
  This too is an assumption: `docs/locality-store.md` calls these executor APIs and promises no
  call site in the daemon.

A worker that panics breaks the daemon's fairness: it sends no completion (a hazard of the list).

## 4. Findings

1. **A save during a pull or push is overwritten** (`NeverOverwritesPending`). Whether the
   file may be replaced is decided before the page is fetched; the render is written later
   without another look. `docs/sync-model.md:135`: "Locality must not overwrite pending
   Local Tree files with Remote Tree content." `KeepsTheEditsItRead` is what does hold: no job drops
   an edit that it has read.
2. **A crash before completion loses the merge base of a shared document**
   (`generation_crash`, `DeltasLand`). The staging reconciliation keeps the payload of an applied
   or merged entry only when a path or evidence row refers to it. After a crash between the
   outcome and the completion no row does yet; recovery prunes it, staging skips the recorded entry, the
   completion makes the missing payload the merge base, and every later sync ends in
   `MissingMergeBaseEvidence`. `docs/locality-store.md:191`: "Each filesystem operation is idempotently
   recognizable after a crash, so recovery can record the missing outcome and continue."
3. **A mail is sent twice** (`outbox_sent_once`, `SentOnce`). The push of `outbox/a.md` ends without an answer although
   Gmail has sent the mail. The push of `a.md` is refused from then on; but when the user writes
   `b.md` and pushes the folder, the earlier push is not recognised, since
   `journal_created_entity_source_paths_match` (push.rs:1091) asks for exactly the same new files, and both
   go out. `docs/reliability.md:12`: "Remote apply operations are idempotent." `RepeatsAreExplained` says when alone that
   happens: when the files of a push are regrouped later, in either direction; and when Gmail rejects
   one mail of a push after another is out, as such an answer (a limit, a missing permission, a draft that is not found) leaves a plain
   failure without effects, and the whole push is made again.

Seen while modelling, and not stated as runs:

- If the version of a page changed and its rendered body did not, the pull of a pending file keeps the old version, so that
  the push that told the user to pull is refused as before. Hence no such touch in `page_live`.
- Discovery. `step_rollback` looks at every destination again after each step. When the source of one
  operation was the destination of another, the first source that it restores occupies the
  other's destination; `rollback_destination_to_recovery` (discovery_execution.rs:1050) finds a file there and one in the
  recovery directory and calls it interference. The transaction stays in `repair_pending`,
  every repair returns `NeedsReview`, and as one transaction per mount is active, discovery of the mount
  is stopped. Nobody need touch a file: a reservation that is stale at the commit is enough.
  Chains whose rollback meets paths in the same order do the same; `ReviewIsEarned` says that nothing else does.
- Outbox. A draft that is moved to another name and edited while its push is in flight loses the edit from what is
  pending (`clear_gmail_draft_send_move_mutation` goes by the draft): hence the draft in `KeepsUnsent`.
  A crash between the removal of a sent file and that of its mutation leaves a create with no file, which
  no push of the folder can read. A crash during the check leaves `applying` in the journal, so that the files are refused though
  nothing was sent. A push of part of a push whose effects are recorded is refused until the other files are pending again.
- A prefetch accepted while an open of the page runs takes over its row, so that a restart queues the page as a
  prefetch (runtime.rs:2684, against `docs/slack-connector.md:112`).
- Live Mode. `docs/daemon.md:3` calls the daemon the owner of pushes "through one serialized boundary", but
  `push_target_direct_at_state_root` (main.rs:13573) pushes in the app's process. So the daemon and the runner may both apply
  the same edit of an enrolled file, each after a check that the other has not yet made stale.
  A merge that holds an older fetch can put the shadow back behind a push of another process.
- Live Mode. `docs/live-mode.md:302` says "transient apply failures remain active for retry". They do for one tick: the failed
  journal makes the file `blocked` (main.rs:5070), and `blocked` pauses the mode at the next one. So `LiveModeSettles` says
  that the mode is turned off, not that the edit lands.
- Live Mode. `SaveSyncing`, `SaveResult` and `SaveRow` write a whole record back that was read before: a mode or an enrolment switched off
  in between is on again. An auto-push that was queued before a pause, or that finds nothing to push, marks the
  enrolment active over it.
- Live Mode. A remote edit that does not change the version makes every push refused and no merge begin;
  the runner tries again for ever (`UnseenRemoteEdit` in `LiveModeSettles`). A push that ends in an error before it
  has a plan leaves its enrolment unmarked (`dropped` in `EnrolledWritesSettle`).
- Shared documents. The manifest of two retained files says "copy exactly one retained file over this manifest, then
  sync again" (generation_sync.rs:1335). When the delta had ended the document (the user had written over it and through an old
  descriptor), the store refuses to resolve the row (sqlite.rs:2218), and every later sync of the mount ends in
  `InvalidState` until the file is removed. In the model `ResolveEvidence` fails there; an ended
  document gets no further delta, and so `DeltasLand` does not show what the documents beside it miss.
- Shared documents: a crash between a recorded outcome and the completion, with a late write, makes the path clean
  over a conflict, hence `crashes = 0` in `CleanShowsBase`. A user who resolves a retained pair before the
  client has marked it, or edits a merge that a crash cut off from its outcome, makes every later sync end in
  `ConcurrentMutation`. A late write to the inode of an older delta may end in `LocalBaseMismatch`.
  `remove_current` digests and then unlinks, so that a write in between is lost: it is
  not in `owed`. A crash after a displaced inode has been put back and before its row is marked
  (generation_sync.rs:1161) leaves an applied entry whose row names a file that is gone: every later sync ends in
  `MissingInodeEvidence`. A rename that ends in a conflict leaves its displaced inode without a row
  (`RetainedAreNamed` fails there; `RetainedInPlaceAreNamed` is what holds).

## 5. What is proved

The constants are constrained by one named assumption per module (`PageSyncAssumption`,
`HydrationAssumption`, `RuntimeAssumption`, `GenerationAssumption`, `LiveModeAssumption`, `DiscoveryAssumption`, `OutboxAssumption`): bounds
are natural numbers, "nothing" is no value, the initial value is a value, and a discovery's plans are
those that its preparation lets pass; what nobody but the user may confirm, auto-save leaves for review too. TLC evaluates them in every run.

`PageSyncProofs`:

- `TypeCorrect`: `Spec => []TypeOK`.
- `JournalIsTruthful`: `Spec => []JournalTellsTruth`. Not inductive by itself: the
  strengthening says what the entry in progress looks like at each program counter, that a
  plan's remaining operations and the landed ones make up the plan, and that older entries do not change.
- `OnlyShownValuesAreOverwritten`: `Spec => OverwritesOnlyWhatWasShown`, from the
  invariant that from the check on the remote body is the shadow but for late edits and
  operations that landed, and that every shadow value was shown, because a render is written
  to the file before it becomes the shadow.
- `ReadEditsAreKept`: `Spec => KeepsTheEditsItRead`, from the invariant that a job that
  goes on to write found nothing pending in the blocks not typed in since, or holds a merge that keeps it.

`HydrationProofs`: one inductive invariant, `Inv`: types; deadlines belong to parked
requests; for every page whatever is owed is covered by a queued, parked or running request
of at least its strength, and by a row; a running hydration has a row; rows have owners.
Per-action lemmas show that it is kept, and that merging keeps the stronger reason
(`MergeKeepsStronger`) and that taking up work loses none (`StartKeeps`). From it:

- `TypeCorrect`, `AcceptedStaysPending`, `AcceptedStaysDurable`, `RequestsHaveOneOwner`: the
  invariants of the run `hydration` for every number of pages, requests, failures and restarts.
- `CoolDownsAreKept`: the action property `CoolDownIsKept`, with the additional
  invariant that a page whose hydration succeeded is no stub.

- `ImplementsPromises`, `Spec => KeepsPromises`: every behaviour of queue,
  parking lot and rows is one of `HydrationPromises`. Each action is mapped in a lemma of its
  own; the invariant supplies what the mapping needs, above all that a taken-up request is
  the one that was queued, and that a page is not queued and parked at once.

`DaemonRuntimeProofs`, for any number of callers, events, follow-ups and polls. What
`RemoveAt`, `Append` and a concatenation do to a queue is proved first, from the library's facts
about sequences; then what `MaybeStartNext` keeps, which every handler ends with:

- `TypeCorrect`: `Spec => []TypeOK`.
- `SnapshotsStayFresh`: `Spec => []SnapshotIsFresh`. Not inductive by itself: the
  strengthening adds that no push is in the slot while a snapshot is fetched or waits.
- `PollsStartLast`: `Spec => PollsComeLast`. Without a snapshot the first request may always run, so
  that the queue is empty when `StartJob` comes to the poll.
- `ShutdownsDrain`: `Spec => ShutdownDrains`, with the invariant that a loop that has ended
  has nothing running.
- `CallersAreHeld`: `Spec => []RequestsAreHeld`, with the invariant that nobody
  waits for the end of a loop that has not been told to end.

`GenerationSyncProofs`, for any names, edits, deltas and crashes. One inductive invariant in three
layers, each proved on top of the one before:

- `TypeCorrect`: `Spec => []TypeOK`, with what is known at each program counter (`Inv`).
- `NoEditIsLost`: `Spec => []EditsAreKept`. The strengthening is `DoomedKept`: from
  the moment a file is about to be unlinked, every edit in it that is owed is in another slot too.
- `RetainedStayNamed`: `Spec => []RetainedInPlaceAreNamed`, with `NameInv`: between two durable writes
  the slot that a delta displaced is named by a row or by the active journal.

`GenerationBaseProofs`: `CleanPathsShowTheirBase`, `Spec => []CleanShowsBase`, the deepest result about shared
documents. An update may end as a conflict and leave the user's file, and a path in conflict may become clean again
with a later delta; nothing in the code compares what is on disk with the base at that moment. Why it comes out right:

- Files are moved and never copied until the review keeps a visible inode beside a displaced one, so that
  every version is in one slot at most (`Alone`, `Untwinned`). After such a snapshot, or a change of a displaced inode,
  `CleanShowsBase` makes no claim; the rest of the invariant is stated for `Undisturbed` states: no crash, no snapshot.
- A delta that ended in a conflict with its inode still displaced (`Spoiled`, `Lying`) means that no file shows a
  later version without edits (`LaterEdited`, `BaseEdited`, `OldBaseEdited`), so that no later delta finds the file it
  expects, and the path cannot become clean again (`CleanUnspoiled`).
- `Shown` is the claim itself with what each part of a sync knows while it runs (`Pcs`: the review and the apply, the
  fence, the end).

`BaseInv` is these together with `SnapsOK`, `TypedOnly` (only the user types) and `BaseBehind` (a record's base is a
published version). It holds on the instances too, where TLC found the cases that the first formulations
had missed. The proof also found that guards of a `CASE` in the model overlapped where only the evaluation order of TLC
made the first one win; they are disjoint now.

`LiveModeProofs`, for any edits, remote edits and bounds:

- `TypeCorrect`: `Spec => []TypeOK`, inductive as it stands (split into `Types` and `RunnerAwaits`).
- `WakesAreKept`: `Spec => []NoLostWakeup`. The strengthening, `WakeOK`, starts at the look at the mode, not at the
  wait: a mode that goes on after the look has the app behind it, and a wake that comes before the wait is counted.
- `UnreviewedEditsStay`: `Spec => []UnreviewedStaysHome`, with `PlansOK`: the plan of a push that is checked or applied is
  one that was let pass for this kind of push, whatever has come into the file since.

`DiscoveryExecutionProofs`, for any plans that preparation lets pass, any edits, crashes and stale
reservations. One inductive invariant, `Inv`: types; `JobOK`, what has been established when a file
change is decided on and stays established while the user works (the file in question belongs to the operation or
to the user; a file that will be removed holds nothing owed); `PagesOK`, that an untouched page of an operation
with nothing to roll back is home, and after the commit every untouched page is there;
`CleanOK`, when the recovery directory is gone. Why moves keep `PagesOK`: a rename replaces nothing, and
paths are owned, so one operation's move cannot displace another's page.

- `TypeCorrect`, `NoEditIsLost` (`EditsAreKept`), `AtomicOutcome` (`AllOrNothing`),
  `RecordedIsQueued` (`UpsertedIsQueued`: the hydration job is queued before its effect is recorded): what follows from `Inv`.
- `EndsAreFinal`: `Spec => EndsStay`, with the invariant that an ended transaction has no change ahead of it
  and no recovery directory.
- `ReviewsAreEarned`: `Spec => []ReviewIsEarned`, with a second invariant, `CalmInv`: while nobody else has changed
  files, and if no operation reuses a path that another one vacates, every page is at its source, in recovery or at its
  destination, nowhere else and nowhere twice, and its record is behind by one step at most (`OnItsWay`); and a change that has
  been decided on in the rollback finds its page (`JobFits`). An error outside of the rollback only starts it; in the rollback
  none is left, as each check (`Vacate`, `Restore`, `Drop`, `Sweep`) is ambiguous only for a page that is in no such place. That
  paths are not shared is used for one thing: a move of one operation leaves the pages of the others where
  they are (`MoveCalm`). With a chain it does not: see the end of section 4.
- `ImplementsPromises`: `Spec => KeepsPromises`: every behaviour is one of `DiscoveryPromises`, which has no journal,
  no recovery directory and no steps inside of a step. The mapping takes what can be seen: the outcome, which of the
  pages that the user has not changed are where they were and which are where the plan wants them (from the mount alone), the
  edits on disk, whether hydration has been asked for. Before the commit every step of the daemon is `Work` (`WorkIs`;
  a step to the review needs `CalmInv`); the commit and the abort need `PagesOK`; the steps after the commit change nothing that can be
  seen but the hydration job and the end, which needs that what is cleaned up was queued (`CleanedIsUpserted`); the user's
  steps change what is seen of one page (`SeenStays`); a crash is a stutter unless it cuts a payload short.

`OutboxSendProofs`, for any files, drafts, mails, pushes and crashes. One inductive invariant, `IInv`, in layers: types and
what the journal says of the task (`Ledger`); `SentIsKnown`, which mails of a journal are out, by its status and effects;
`DraftsAreSpent` and `MailsHavePlaces`, that a draft and a mail are at one path and a draft is
sent once; `PendingSince`, that a pending mail was in every later push of its path too; `PendingAsPushed` and `CleanedUp` for
the cleanup; and for repeats `NoneAfterEffects`, that new files whose effects wait to be reconciled
are not pushed anew, and `RepeatsStop`, that an unexplained repeat can only be one with a draft that is gone, which
the check stops. That of some journals one is the newest (`HasNewest`), which the guards rely on, is part of the invariant.

- `TypeCorrect`: `Spec => []TypeOK`.
- `ReconciledAreDone`: `Spec => []ReconciledIsDone`.
- `RepeatsHaveReasons`: `Spec => []RepeatsAreExplained`. The case that needs most: a push without effects whose outcome is
  not known. Either it is the newest that matches, and blocks the new one; or a newer one matches, which
  had the same files, hence the same mail, and is a repeat itself, so that the claim holds of it already.
- `UnsentIsKept`: `Spec => KeepsUnsent`.

Only model-checked: every liveness property (fairness and ENABLED are out of the prover's
reach) and all violations. Every safety property that a passing run checks is proved.

## 6. What is not modelled

In the modelled parts: text and rendering, media files, property changes in front matter,
paths of hydration requests and their attempt counts, the order of pages of equal priority
(any), the scoring and backoff inside the freshness queue (a count of jobs that are ready), the queue
of directory refreshes (a refresh may start whenever the code's guard allows one), a worker that panics,
failures of SQLite outside of the steps named. Retries inside one remote call are part of
that call.

In `LiveMode`: creates, several pages, virtual projections and remote deletions; the reading and writing of a
page as separate steps, which is `PageSync`; a call that fails and leaves the version as it was at once.

In `GenerationSync`: quotas, the acknowledgement of a delta, several sources of one mount, the
delivery protocol and its signatures. In `DiscoveryExecution`: how a discovery plans
(`discovery.rs`), nested paths, exclusions and containers, provider mounts; symbolic links and the
checks of tampered records; Windows, where a file is removed in place instead of atomically; I/O errors while a
payload is written (a crash there is modelled); the bound on the steps of one drive. A write between the last look at a
file and its removal is modelled, but not owed: the code cannot notice it.

In `OutboxSend`: failures to write SQLite (a failed write of the effects is a plain failure, after which the mails are sent
again); drafts that are only saved; renames of pending files; two files with the same words, and an edit that is
taken back; a file that changes between the cleanup's look and its removal.

Not at all, and why: connectors' translations, rendering and OAuth exchanges (data and
I/O), the desktop app but for its Live Mode runner, CLI output and platform glue (user interface), schema migrations. The other
components of `PROJECT.json` with status `not_modelled` are planned.

## 7. Plan

In order of what the system's users would miss most:

1. `PageSync`, `HydrationJobs`, `DaemonRuntime`, `LiveMode`, `GenerationSync`, `DiscoveryExecution` and `OutboxSend`: done, and
   every safety property that their runs check is proved.
2. `EntityPush`: creates, moves and archives of the connectors whose operations can be repeated (Notion, Linear): journalled effects,
   resume after a failed or interrupted apply. To prove: no operation with a recorded effect is applied again.
3. The queue of directory refreshes in `DaemonRuntime`, which is now left to the environment.
4. The freshness queue as a module of its own, composed with `DaemonRuntime`; `HydrationBudget` with concurrent reservations; operators for diff,
   plan and undo checked against reference definitions.
5. More abstract specifications, beside `HydrationPromises` and `DiscoveryPromises`: "a mount holds a
   generation, with local versions retained" for `GenerationSync`; a serial
   executor of mutations that `DaemonRuntime` implements; a page as three values for `PageSync`.
