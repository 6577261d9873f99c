# TLA+ models of MAILFLOW-AI

This directory holds TLA+ models of the parts of MAILFLOW-AI that are hard to get right and hard
to test: code where several processes, requests, pages and crashes meet on the same rows, queue
entries and mailboxes. Every model is translated from the source and keeps its names. TLC checks
the models on small instances, and TLAPS proves all of their safety properties for every value of
the constants.

`PROJECT.json` lists, in machine-readable form, the components, the runs, for every definition
the source lines it stands for, a mutation that breaks each property, the findings, the hazards
and the theorems.

| Module | What it is | Proofs |
| --- | --- | --- |
| `Workload` | admission of model calls through Redis (`apps/api/app/workload.py`) | `WorkloadProofs` |
| `Backfill` | the historical backfill: job, failures, proposals, queue, workers, API, folder | `BackfillProofs` |
| `BulkApply` | the review of proposals and their application to the mailbox | `BulkApplyProofs` |
| `Compose` | the compose page, the draft it edits, and sending it | `ComposeProofs` |
| `Mailbox` | mailboxes at their IMAP servers and the calls that change them | `MailProofs` |
| `Custody` | what a mailbox promises whatever moves mail in it; `Mailbox` implements it | `MailProofs` |
| `MailWorkspace` | the mail page over `Mailbox`, while the live cycle files mail | `MailProofs` |
| `LiveCycle` | cron, ARQ jobs, quota, classification, keyword, move and row of live mail | `LiveCycleProofs` |
| `Setup` | how a fresh instance gets its owner and its organizations | `SetupProofs` |
| `Tab` | a browser tab: React state, asynchronous handlers, requests and answers | `PagesProofs` |
| `BulkPages` | the pages of historical runs and of their groups | `PagesProofs` |
| `AttentionPages` | the review page and the notifications page | `PagesProofs` |
| `AccountPages` | one mailbox: connection, policies, sharing, ownership; its SMTP form | `PagesProofs` |
| `OnboardingPage` | the wizard that connects a mailbox (extends `AccountPages`) | `PagesProofs` |
| `LearningPages` | decision memory, learning, and the rules of a mailbox | `PagesProofs` |
| `StructurePages` | folders and their mapping, with the API steps that create them | `PagesProofs` |
| `Pages` | all pages together: one tab that shows one of them | `PagesProofs` |

`MC<module>` gives the constants of a run their values. To check one configuration:
`tlc -config Compose_once.cfg MCCompose`. To check the proofs of a module:
`tlapm ComposeProofs.tla`.

## 1. The system

MAILFLOW-AI classifies the mail of IMAP accounts with language models. It is a FastAPI service
(`apps/api`), an ARQ worker (`apps/worker`) that imports the API's services, a shared library
(`packages/core`) and a Next.js frontend (`apps/web`). PostgreSQL holds the state, Redis the
worker's queue and the admission controller, and the IMAP server the mail itself. The API and the
worker run as any number of processes, so everything below is concurrent across processes; within
a process asyncio interleaves handlers at every `await`, and within a page the promises of a
browser do.

Three mechanisms explain most of what the models found.

* **The ORM session.** Sessions are made with `expire_on_commit=False`. A row that is loaded and
  then loaded again `FOR UPDATE` in the same session is locked, but the session answers with the
  object it already has. And an UPDATE writes only the columns that differ from what was loaded.
  A handler that authorises a request by loading the row therefore works on a snapshot.
* **The queue.** ARQ runs an entry again when its worker dies or shuts down (up to
  `max_tries = 3`), but not when the function raises. `enqueue_job` answers `None` when the id is
  queued, in progress, or has a result that is still kept. Nothing else restarts a job, except
  that `on_startup` enqueues backfills that are running.
* **The page.** A handler of a page is a function that awaits requests. No request is cancelled
  or times out (`lib/api.ts`), answers may overtake each other, and what a handler closed over is
  as old as the click. A button that disables itself only stops clicks on itself.

### Components

| Component | State | Operations | Correct when | Status |
| --- | --- | --- | --- | --- |
| Workload admission | Redis: waiting queue, active leases, sequence and grant counters, rate windows | acquire, release, cleanup, snapshot | limits hold for leases and for the calls they cover; the live reserve is kept; every caller is answered | modelled |
| Historical backfill, dry run and review | `backfill_jobs`, `backfill_failures`, `bulk_proposals`, queue entries, IMAP folder | start, pause, resume, cancel, retry, batch, recovery, requeue, startup | no message skipped; counted once; a stopped job stays stopped; a retry has a task; a running job is run and ends | modelled |
| Bulk review and apply | proposal rows, `bulk_apply_jobs`, queue entries, mailbox | edit, exclude, approve, approve-safe, cluster, start, batch | only approved snapshots reach the mailbox; every result counted; the job is run and ends | modelled |
| Outbound mail and drafts | `outbound_drafts`, the page, SMTP | type, save, attach, preview, check, send, discard | delivered once but for a known gap in the fence; only what the user accepted; "sent" is true; a send ends | modelled |
| Mail client and actions | mailboxes, the page's list, message, drag and undo | load, open, move, drop, undo, archive, read | no message lost; undo exact; the page does not stay busy | partly |
| Live cycle | `email_accounts`, rows, audit, keyword, folders, ARQ keys | cron, run now, claim, fetch, classify, mark, move, store, finalize | rows are true; nothing copied twice; quota; every message handled; due accounts run | modelled |
| Instance setup | users, roles, organizations in both databases, sessions | sign up, claim, provision, appoint, dismiss, sign in | one owner for ever; "done" is true; organizations are linked | modelled |
| Pages of historical runs | groups, runs, page state | confirm, redirect, approve safe, apply, pause, restart, poll | a click approves what was shown | modelled |
| Attention centre | attention items, notifications, page state | confirm, correct, route, dismiss, retry, mark read | only what was asked is settled | partly |
| Mailbox administration | account, grants, owner, page state | edit, save, share, transfer, run, remove | what is typed is kept | partly |
| Mailbox onboarding | accounts, grants, backfill, wizard state | connect, create, share, policies, start the analysis | what the last step says is true | modelled |
| Decision memory and rules | entries, rules, page state | toggle, edit, replace, remove, supersede | entries agree unless their requests overlap; a rule is removed where the user is | partly |
| Mailbox structure setup | folders, mapping, drafts | discover, map, review, apply | what is mapped exists; only what was approved is created | partly |
| Backfill in apply mode, resilience and model clients, attachment library, billing, request filters, secrets rotation, audit and retention, dashboard and search, other pages, deployment | | | | not modelled, see section 7 |

### How they interact

```
 pages (Tab, Compose, MailWorkspace, Setup)
    |  requests, answered late, out of order, refused or not at all
    v
 API handlers --rows--> PostgreSQL <--rows-- worker functions --> IMAP server
    |                                            ^
    +---enqueue_job---> Redis (ARQ queue) --take--+
 model call = acquire a lease in Redis (Workload), call, release
```

A backfill fills `bulk_proposals`; users review them on the pages of historical runs; the apply
job executes those that are approved. The live cycle files new mail, with the folders that the
structure pages have mapped and the entries and rules of the learning pages; what it doubts
reaches the attention centre. The mail page and the live cycle move mail in the same mailboxes.

### What is hard here

* Overlap: two batches of one job, two starts of one job, a resume of a job whose batch runs, a
  worker restart while a deferred entry still waits, two handlers of one page.
* Stale reads: the check on a row loaded before it was locked; the clock read before the lock;
  the batch's copy of rows that are edited meanwhile; the list a page resends.
* Crash between two effects: mailbox changed and result not written; job committed and entry not
  enqueued; mail delivered and draft not marked; user created and organization not linked.
* Refusals: an id that ARQ still remembers, a full queue, a lease that expires during a call.
* Lost answers: the server did it and the page does not know.
* Being forgotten: a job marked running with nothing that will run it.

`PROJECT.json` gives every hazard with its line and the properties that would catch it.

## 2. The models

### Workload

One action per critical section. `Arrive` (clock and sequence number, outside the lock),
`Enqueue` (first section: clean up, refuse or join), `Grant` and `PollInVain` (a poll),
`LockFails`, `Release`, `Crash`, `Snapshot`, `Tick`. `queue` and `active` are the members of the
two sorted sets; `Eligible` and `IsCandidate` are `_eligible` and `_select_candidate`.

The Redis lock expires after five seconds (`timeout=5`), and then a section is not atomic. `Stall`
is a candidate that has cleaned up and chosen when its lock expires; others go on, and time passes.
`LateGrant` writes the lease it computed before, and giving back the lock raises, so the caller has
an error and the lease stays until it expires (`overtaken`). A section that only reads and loses
the lock is `LockFails`; a first section that loses it leaves its entry, which is what `Enqueue`
followed by `Crash` does.

Timestamps are ages and remaining times: `age` since `enqueued_at`, `leaseLeft` until the score
of the lease, `waitLeft` until the caller's deadline, `callAge` of the call. The lease is counted
from a clock read before the lock, so `Grant` takes a delay in `0..LockWait` off it. `Tick` does
not pass the end of a call (`CallMax`) or of a wait for the lock (`LockWait`): those are bounds of
the code, not fairness. `CallMax` is independent of `Lease`, since the configuration compares the
lease with one timeout and a call retries. Left out: metrics, latency averages and the identity of
members.

### Backfill

One job, its rows, its entries, its workers and its folder. The worker's path is
`Take -> ListFailures -> Recover* -> Fetch -> (Look | Save | Commit | WriteProposal |
WriteFailure | WriteTransient)* -> Finish -> Result -> Requeue -> (PauseAfterRequeue)`, one action
per transaction, with `pc[w]` between two. A transaction that reads the job before it locks it is
two actions: `held[w]` is the row in the session, and `Checkpoint` computes the new counters from
it and writes only the columns that differ (`Written`). The API is one request in progress
(`client`): `Resume` reads, `ResumeCommit` writes on what was read, `ClientEnqueue` adds the entry
or is refused or fails, `ClientPause` makes up for that, and `ClientDies` is the death of the API
process at any point of it. Pause and cancel read a fresh row under the lock and are one action
(`Control`).

A manual retry is `RequestRetry` (commit), `EnqueueRetry` and `RestoreFailure` (the task is queued,
or the status restored when that fails) with `RetryRequestDies`, then in the worker `BeginRetry`,
`BeginRetryPaused` (WORKER_PAUSED restores the row) and `EndRetry`, with `RetryRaises` for what ends
the task outside its handler and `RetryCrashes` for a dying worker, on its last try or before. A task
that finds the models degraded is queued again under another id, which for the state of the model
is to stay queued.

Two history variables are read by properties only. `orphaned` says that the job, since it last got
an entry from the API or from a worker start, was left running by a batch that raised or was
refused its checkpoint, an API process that died between commit and entry, or a worker start under
`WORKER_PAUSED`. `overlapped` says that two batches were ever in progress at once.

Abstractions: outcomes of the model are chosen when they are written, so concurrent
classification needs no state of its own; the review counter and `total_discovered` are left out;
the reads of the job by the worker and by `run_batch` are one; the recovery's limit of five rows
is not reached by the folders of the runs; reading and writing in `record_failure` is one action;
a unique-constraint error is an exception (`Raise`); a renumbered folder keeps the same messages
under other UIDs, which only matters as "unreachable"; a cursor that is still `None` is 0; every
batch is a process of its own.

### BulkApply

The rows of one finished dry run and its one apply job. A review request is `ReadRows` (load and
authorise) and `CommitReview` (lock, check what was loaded, write the changed columns). The worker
is `TakeApply`, `ReadBatch`, then `ApplyNext` (all mailbox actions for a proposal) and
`MarkResult` (its own session, so fresh rows) for each, then `EndBatch` or `Drain`. A start request
commits (`StartApply`, `ResumeApply`), then adds the entry (`EnqueueApply`) or, when that fails,
pauses (`PauseApply`); the API may die in between (`StartDies`). The history variable `orphaned` says
that a batch or a request was over and left the job running, and no entry was added since.

A snapshot is a version and whether a user confirmed it. `approvals` is what the lifecycle log records as
approved; the model uses it only in properties. Category, tags and folder are the sets `Tagged`
and `Moved`, and a cluster is any set of proposals.

Abstractions: the mailbox actions of a proposal are one action that may fail with part of them
done, since nothing reads the mailbox in between; a job id without a fixed name is never refused,
so the branch `apply_requeue_failed` cannot be reached and is left out; of two concurrent creations
the second fails on the unique constraint; no code writes the status `applying`.

### Compose

One draft (`row`), the pages that show it and the requests in progress, each a record that the
page, the server and SMTP move on. A text is a version number. The chains of the page (load,
autosave, send = save, check, send, load; attach = upload, load; preview = save, preview) are
`PageStep`: the answer of one request begins the next. `ServerStep` loads the row in one action
and commits it in another, since no handler locks it. Incidents: a request or an answer is dropped
(`Drop`), the connection is lost at any point of a handler that goes on without it (`Cut`: the page
gets an error at once, and the handler becomes a request that no page waits for, until `Forget`),
the API dies, SMTP fails (before or after it has accepted the mail). A reload of the page is a
second tab. Two history variables are read by properties only: `overlapped`, a send was loaded while
another had loaded the draft and not committed the fence, and `cut`, a connection was lost under a
handler that goes on.
Left out: the list of drafts, MIME construction, size limits, SMTP authentication.

### Mailbox, Custody and MailWorkspace

`Mailbox` holds the copies of messages (folder, UID, flags) and the calls that change them:
`move_email` is COPY, STORE, EXPUNGE, three commands that may fail one by one; a command about a
UID that is gone is answered OK. `Custody` says what the owner of a mailbox may rely on: a message
leaves a folder only for another one. `Mailbox` implements it with `kept` as the folders that hold
a copy which is not flagged as deleted.

`MailWorkspace` is the page over it: its state, and a set of `tasks`, the asynchronous functions
that have not ended, each with what it captured when it began. A drop of several messages, undo,
archive and opening a message each go through several calls. The live cycle files messages in
between (`WorkerMoves`). Requests that only read are answered in one step. Left out: keys and drag
state, flags and tags beyond the read flag, unread counters, rich HTML, trusted senders, AI
results, pane sizes.

### LiveCycle

One organisation and one day. `Tick` is the cron: it ages the accounts and enqueues those that are
due, under ARQ's rules for ids whose result is kept (`entry`). A slot runs a cycle: claim, quota,
fetch, then for each message classify, set the keyword, move, store its row, and at the end the
audit row. Incidents: an IMAP answer is lost, a classification or a transaction fails, a process
dies, a cycle is cancelled while its thread goes on (`orphans`), an account is switched off. The
policy of a message is a choice; threads, attachments, summaries and decision memory are left out;
`AUTH_MODE=multi`.

### Setup

The wizard and the sign-up page in browsers, with sessions that are shared by the tabs of one. The
requests sign-up, POST `/instance-admins`, POST `/instance-organizations` and the provider are
sent, served and answered in separate steps, with a transaction each. Administrators are appointed
and dismissed, organizations made, users sign in and out (`Administration`), in the browser of a page
too: tabs share a cookie. `crossed` in a session is history: its cookie was replaced by another tab
between a page's sign-up and its claim. One POST to each of
the two routes is in progress at a time (a bound). Steps 1 and 2 of the wizard keep nothing; the
health check is taken for granted; passkeys, invitations and what the installer writes are left
out.

### Tab and the pages

`Tab` is a browser tab: `view` is the React state, `run` the handlers in progress, each with its
name, what it closed over, the requests it waits for and the answers it has; `adrift` are requests
that go on although nobody waits for them; `api` is what the API stores. `Served` and `Lost` are
common to all pages: a request is served and answered, or is lost before or after it was served. A
click, a change by others and a loss are a `Move`; at most `MaxMoves` of them happen, at most
`|Slots|` handlers run. Each page module says what its API does with a request (`...Reply`), what
others do (`...Event`), and has one action for each handler between two awaits. `Pages` puts one of
them into the tab.

The API serves a request of a page in one step, because the interleavings inside the handlers are
those of the other modules, with two exceptions. In `StructurePages` an apply lists the folders,
checks every reuse, creates what is missing one by one and stores the mapping, and several of these
overlap. In `LearningPages` a request that creates or replaces an entry is a transaction:
`LoadEntry`, `WriteEntry` (the row, with the columns that differ from what was loaded, and
`_supersede_conflicts`, which sees what is committed) and `CommitEntry`. Nothing is locked before
the write and the isolation is READ COMMITTED, so two transactions may miss each other's entry;
rows that are written and not committed make other writers wait. `LoseEntry` loses the request or
its connection, and the transaction is undone or goes on. `api.tangled` is history: for which
entries two requests were in progress together. Writing the row and disabling the others is one
step; between the two PostgreSQL may find a deadlock and abort one transaction, which is what a lost
request is to the page.

Abstractions: what a form edits is one value (stored, typed, elsewhere); account pages are
those of generic IMAP mailboxes with an owner; `ai_observed` entries are left out since nothing
stores them; structure has neither tags nor the locale, and folders that are mapped or are about to
be are not removed by others; in the wizard gmail and microsoft are one kind, its form is read when
the button is pressed, and its own clicks are not counted as moves.

## 3. Runs

`Incidents` names the kinds of crash, failure and mailbox change a run allows, `MaxIncidents` how
many of them, `MaxCommands`, `MaxReviews`, `MaxStarts`, `MaxVisits` and `MaxMoves` how much users
do. Bounds only limit what the environment does; the code's own loops are not bounded.

| Run | Instance | Shows |
| --- | --- | --- |
| `workload` | 3 requests, 2 accounts, 2 slots, one reserved; 1 slot and 1 call a minute per role; calls longer than leases, crashes, locks lost or expired; fair | leases stay within every limit, and so do the calls whose lease lasts; the live reserve is kept; no caller is purged before its deadline; every waiting caller is answered, also behind a dead one |
| `backfill_overlap` | 2 workers, 2 messages and a new one, 1 incident of any of 13 kinds, 2 commands, overlapping batches | nothing skipped; resolved means proposed; completion means complete; stopped stays stopped; a running job has something that runs it, or was left by a recorded event |
| `backfill_ends` | 1 batch at a time, 1 attempt, 2 incidents of any of the 13 kinds, 1 command; fair | a retrying failure has a task; counted once; a running job ends or is paused, or was left by a recorded event |
| `bulk_review` | 2 proposals, 2 concurrent reviews, 1 batch, crashes, exceptions, partial failures, vanished messages, renumbered folder | only approved snapshots are applied; results are counted |
| `bulk_ends` | 2 proposals in batches of 1, 2 workers, 2 starters, 1 review at any time, 2 incidents: crashes, exceptions, Redis, a paused worker, a dying API; fair | a running job has something that runs it, or was left by a recorded event; it ends or is paused |
| `compose_once` | 1 tab, 2 requests at a time, 1 attachment, 2 versions, 2 buttons, 2 incidents (lost requests, answers and connections, crashes, SMTP); fair | delivered twice only when two sends overlap before the fence; "sent" is true; only accepted text; a send ends |
| `compose_twice` | 2 tabs, no incident | a violation, see section 4 |
| `mail_moves` | 1 account, 2 messages, 2 commands, 1 incident, the live cycle; fair | no message lost; undo exact; `Custody` implemented; the page does not stay busy |
| `live_cycles` | 2 accounts, 4 messages of which 1 cannot be classified, batch 2, limit 1, 1 slot, 1 incident, 1 command; fair | rows are true; nothing copied twice; the quota up to a batch; every other message handled |
| `live_due` | 1 account, the intervals of the code: 5 minutes, results kept for 12 ticks, keys for 288 | a violation, see section 4 |
| `setup_owner` | wizard and sign-up page in 2 browsers, 2 users, 2 organizations, 2 incidents (other tabs included), 3 visits | the owner is fixed; "done" is true; organizations are linked |
| `pages` | each of 11 pages, 2 handlers at a time, 2 moves | the eight properties of the page modules |

Why these bounds: the properties relate at most two batches, a batch and a request, two requests,
or two handlers of a page. Two workers, two requests and two or three messages give every pair of
them on one message and on neighbours; a batch size below, at and above the number of messages
gives full, exact and short batches; two incidents give a failure during recovery from a failure.
The sizes are 425,649 states for `workload`, 2,213,979 for `backfill_overlap`, 228,012 for
`backfill_ends`, 1.5 million for `bulk_review`, 966,407 for `bulk_ends`, 610,278 for
`compose_once`, 507,840 for `mail_moves`, 947,453 for `setup_owner` and 2.8 million for `pages`. The
theorems of section 5 remove the bounds for every safety property.

Properties that the code breaks in known ways keep those ways in the run and name them. A history
variable records the event (`orphaned`, `overlapped`, `cut`, `crossed`, `tangled`, the task `lost`,
the lease `overtaken`), and the property says that nothing else breaks it:

* `CallsWithinLimits` counts the calls whose lease lasts. In `workload` a call may last three units
  and a lease lasts two, and calls outlive their leases; those come on top (section 4).
  `LeasesWithinLimits` and `ReserveLeftFree` do not count a lease that is written after the lock
  expired.
* `RunningHasEntry`, `BackfillEnds`, `RunningIsQueued` and `ApplyEnds` allow a job that was left
  behind by one of the listed events since it last got an entry; exceptions, dying API processes and
  late approvals all happen in the runs.
* `EachCountedOnce` claims nothing once two batches have overlapped, where counters are really
  wrong. `RetryingHasTask` allows a task that raised or died outside the handler that restores the
  row.
* `TwiceOnlyInOverlap` allows a second delivery when two sends were loaded before either committed
  its fence, which one tab reaches when its connection is lost in between.
* `SetupIsTrue` names the page's own user as the owner unless another tab replaced the cookie
  between sign-up and claim.
* `MemoryAgrees` allows two entries to contradict each other when requests for them, or two for one
  of them, were in progress together.

Where a run leaves something out, it is for its size, or because the property fails there:

* `backfill_ends` has one batch at a time: liveness over two slots is too large. What overlapping
  batches do to a running job is in `backfill_overlap`.
* `compose_once` has one tab: `compose_twice` shows two, and the theorems speak of any number.
* `live_cycles` has fewer messages that cannot be classified than a batch holds: a full batch of
  them at the head of INBOX starves everything behind it. Two slots are too many for the liveness
  property; safety was checked with two, and is proved for any number.
* `setup_owner` has two organizations; three take longer than they show.

`CHECK_DEADLOCK FALSE` is set where the system really stops when its users ask for nothing more;
`workload` never stops, because time passes.

### Fairness

* `Workload`: a caller keeps polling, a critical section ends, a model call returns within its
  timeouts, time passes. The loops have no other exit. Crashes, lost locks and snapshots are not
  required.
* `Backfill` and `BulkApply`: each worker takes its next step, an ended worker process is
  restarted (the container policy is `restart: unless-stopped`), API handlers run to their end, and
  queued retries are run. No incident, command or new message is required.
* `Compose`: a request is handled and answered, and the page goes on with the answer, since it
  never gives up on a request; which of page and server moves next is left open.
* `MailWorkspace`: the page goes on with some task that can go on, and each call is served.
* `LiveCycle`: time passes, workers move and restart, and the job of an account is taken again and
  again when it is there again and again (strong fairness: ARQ takes jobs in the order of their
  time, so none is passed over for ever).
* `Setup` and `Pages` have safety properties only and assume no fairness.

Everything else is weak fairness on the steps of one process: nothing is assumed about the order
in which processes run.

## 4. Findings

Two runs find a behaviour that contradicts what the code says of itself:

* `compose_twice`: `send_saved_draft` loads the draft without a lock and does not look at its
  status again when it commits the fence, so two requests that both loaded it (two tabs, or a
  reload while the first is on its way) both go on to SMTP, each with a Message-ID of its own. One
  tab is enough when its connection is lost while the handler is between the load (`mail.py:257`) and
  the fence (`:278`): the page loads the draft, which is still a draft, and frees the button
  (`use-compose-delivery.ts:56`). The code says
  "Persist a stable Message-ID and the sending fence before touching SMTP".
* `live_due`: the cron enqueues under the id `cycle-<account>`, and ARQ refuses an id whose result
  is kept, here for an hour. An account with an interval of five minutes gets a cycle about once an
  hour. `docs/self-hosting.md` says "The worker picks up due accounts on its 5-minute cron".

What follows was seen while modelling and has no run of its own, because no document promises the
contrary, or because the trace repeats one that has.

Admission of model calls:

* The configuration checks the lease against one model timeout, but a call retries under the same
  lease. The lease expires during the call and its slot is given away (`config.py:194`), so
  more calls than the limit run at once.
* The Redis lock of a critical section expires after five seconds (`workload.py:305`, `:319`,
  `:359`). A section that takes longer writes a lease beyond the limit, and its caller gets an error
  and leaves the lease behind.
* The clock is read before the Redis lock (`workload.py:318`), which shortens a lease.

Backfill and apply:

* A batch that raises before its last try leaves the job running without an entry: ARQ does not
  repeat plain exceptions (`main.py:221`). It runs again when a worker restarts.
* An API process that dies between the commit and the entry leaves a running job without one
  (`routers/backfill.py:98`, `:229`, `routers/bulk.py:379`), or a failure `retrying` without a task
  (`:172`).
* Overlapping batches do the same without any exception. TLC finds a trace of 40 states (two
  slots, four messages, batches of three, a model error and a crash): the crash leaves two entries
  at one cursor; a stale checkpoint moves the cursor back; the next batch saves a message that has
  a proposal beyond one that has none, so that the next checkpoints of both are refused
  ("backfill cursor cannot move backwards", `repositories/backfill.py:234`). The job stays running
  with nothing queued, although `list_running` (`:107`) speaks of jobs that must have an entry.
* `checkpoint` refuses to move the cursor backwards, but compares with the row its session loaded
  before locking, so overlapping batches do move it back (`repositories/backfill.py:233`).
* A resume that read the job before a cancel restarts it (`routers/backfill.py:226`); `start` and
  `resume` pause a job that completed meanwhile (`:72`). `StoppedStaysStopped` therefore allows
  moves by a request of a user.
* `processed = successful + failed` does not hold: automatic recovery counts messages that were
  never counted as failed (`bulk_backfill.py:129`); and a proposal made ahead of the cursor whose
  message is then expunged is never counted.
* A retry task that raises before its handler leaves the failure `retrying` (`failure.py:44`), and
  the API then refuses to retry it.
* `initialize_discovery` fails a job that was cancelled during the fetch, and
  `process_backfill_batch` cancelled by `job_timeout` leaves the job running.
* A batch of the apply job that raises, or whose worker dies on its last try, leaves the job running
  (`main.py:357`), and start does nothing for a running job.
* A batch of the apply job that finds nothing finalizes without asking for another; a proposal
  approved in between leaves the job running with no entry, and start does nothing for a running
  job (`bulk_apply.py:55`, `main.py:337`). Approvals after completion are never applied.
* An apply job paused by `WORKER_PAUSED` cannot be resumed (`routers/bulk.py:362`).
* A proposal excluded while a batch holds it is applied all the same; a stale approval can bring an
  excluded proposal back.
* A crash after the mailbox was changed and before the result is written repeats the proposal,
  which is then reported `skipped` (moved) or applied a second time (tagged). `move_email`
  interrupted after COPY leaves two copies.
* Apply mode of the backfill calls `_process_one` with one positional argument too many, so every
  message fails.
* `docs/BACKUP_RESTORE.md` asks that running jobs be recovered to paused before workers resume;
  `on_startup` enqueues them.

Outbound mail:

* Saves of one page overlap, and an older text may overwrite a newer one while the page says
  "Draft saved" (`use-compose-draft.ts:107`).
* The autosave 900 ms after a reload of the draft resets "failed" to "draft" and clears the error
  without an edit; a reload after upload or send discards what was typed meanwhile.
* A crash of the API during SMTP leaves the draft in "sending" for ever; a sent row may hold a text
  other than the delivered one; discarding while a save is in flight brings the draft back.

Mail page:

* A message that is opened late is shown under another account, and the folders of another account
  are used as targets (`use-mailbox-navigation.ts:138`); `docs/frontend-integration-map.md:91`
  says moves are within one account, and `canMoveToTarget` is never called.
* A stale load shows the old account's list; the thread of one message is shown with another; an
  undo that fails midway forgets the rest; opening twice counts unread twice; IMAP's OK about a UID
  that is gone is reported as success.

Live cycle:

* `is_processing_allowed` is never called: a cycle goes on for an account that was switched off.
* A message that has the keyword but no row is never fetched again.
* `run_cycle_now` puts its job into ARQ's default queue, which nobody serves, and its key blocks
  the cron for a day.

Setup:

* Tabs share a cookie: if another tab signs in between sign-up and claim, the other user becomes
  the owner, while the wizard says "This account owns the instance and its organization".
* A wizard that is reloaded after a sign-up whose provisioning failed is refused by the provider
  route and cannot pass step 3; the same e-mail cannot sign up again. A crash between provisioning
  and insert leaves an organization in the API that nothing refers to.
* After a new sign-in no organization is active, and the area switcher hides itself for plain
  members. Removal of members is check-then-act. Back works while step 4 is busy.

Pages:

* Review: Confirm sends the localized subcategory; the stored "Work" becomes "work" when the
  folders never loaded; folders with the same label collide; one `busy` serves all rows; a stale
  Confirm overwrites a colleague's correction; nothing executes what an approved routing asks for.
* Notifications: a load after markRead overwrites unsaved preferences; markAllRead works on the old
  list; `materialize_*` is check-then-insert.
* Historical runs: a stale load after Start leaves the page without polling; Confirm ignores an
  unsaved select; pauseAll stops at the first rejection; restartFailed also resumes runs that were
  paused on purpose.
* Account: two admins who resolve one mailbox both become managers; two managers who replace access
  concurrently leave none (`mailbox_access.py:206` speaks of "preserving one explicit manager");
  reloads reset unsaved ticks and policies; stale ticks overwrite a colleague's grants.
* Onboarding: for a mailbox that is already shared the members are not loaded, so Continue on the
  privacy step removes every grant (`use-onboarding-page.ts:248`); what is typed for an existing
  mailbox is tested and then forgotten; a lost answer makes a retry create a second mailbox; a
  shared mailbox may be unusable by its creator; toggling "analyze" during the start shows
  "Skipped" although a backfill runs; Back is never disabled and a late answer jumps on.
* Memory and learning: two requests that create or enable contradicting entries at the same time
  leave both enabled, since `_supersede_conflicts` takes no lock (`decision_memory.py:164`); a toggle
  resends a whole stale entry; a save ends whatever else is edited; a
  failed load shows an empty list; creating a disabled entry supersedes others; a created rule
  closes a dialog that was opened later.
* Rules: a late answer shows the rules of another mailbox under the selected one.
* Structure: when the mailbox just selected fails to load, discovery merges the draft of the one
  before into its own; a late discovery shows the old mailbox's draft; a "possible" match is shown
  as create but reused; two colleagues' applies overwrite each other, and the folders of a failed
  apply stay.
* Attachments (not modelled): late loads overwrite newer ones, a late detail reopens a closed
  document, a move clears tags, and ingestion overwrites a correction made meanwhile.

## 5. Proofs

Assumptions are the named ASSUMEs of the modules: sets of requests and proposals are finite,
limits and sizes are positive numbers, the reserve is smaller than the global limit, a message is
in a folder that its account has. They are what the code validates or fixes, and TLC evaluates
them in every run. Sets of workers, batches, tabs, handlers, mailboxes and users are arbitrary
unless a theorem says otherwise. The type invariants of `Backfill`, `BulkApply`, `Compose`,
`Mailbox`, `LiveCycle` and `Setup` are proved and not among the properties of the runs.

**WorkloadProofs.** `LeasesAreBounded`: `Grant` is the only step that adds a lease written under the
lock, `IsCandidate` implies `Eligible`, and every other step leaves a subset; the leases of sections
that lost the lock are in `active` as well and only make `Eligible` stricter. `ReserveIsKept` is the
same argument for background leases, which are fewer than all. `CallsAreBounded`: the age of a call
and the rest of its lease together are at least `Lease - LockWait` (`LeaseCoversCall`), so a call
that is younger than that has its lease in `active` whatever others purge, and the limits carry over; it assumes
nothing about how long calls last. `PurgeIsSafe`: the age of an entry and the rest of its wait are
related (`EntryOutlivesDeadline`), so a purged entry belongs to a caller past its deadline.

**BackfillProofs.** `BatchIsComplete` is the fact about `fetch_historical_batch` on which the scan
rests: every message between the old cursor and the reported position is in the batch, full or
not. `ScanSkipsNothing`, for any number of overlapping batches: that the cursor has only passed
messages with an outcome is not inductive, since checkpoints write stale cursors in both
directions. `CoverInv` strengthens it by `DealtReached` (every UID that has an outcome has no gap
below it, whatever the cursor is, so each position a stale session may write is a safe one) and by
`SlotInv` for each batch (the position it started from is safe, its window holds every message
without an outcome in that range, a batch that is saving holds a proposal for its least message).
`CompleteIsComplete` and `ResolvedIsProposed` follow from it.

`StoppedIsKept` holds for any slots: the session of a batch writes the columns that differ, and it
never changes a state it did not lock. `RetryKeepsTask` goes through every step of request, task and
process: each either restores the row, hands it on, or records that the task is lost.
`RunningKeepsEntry` holds for any slots too: a step that takes the last entry, batch or request away
from a running job is one of the recorded ones, and a step that clears the record adds an entry.

`CountedOnce` says what holds until batches overlap, with exceptions, automatic recovery and any
number of workers. It rests on `BatchInv`: at most one batch is in progress, and what a batch has in
hand lies ahead of the cursor. From it follows that a batch is never refused its own checkpoint, and
that `processed` lies between the messages in the folder that the cursor has passed and those with an
outcome (`CountInv`). None of the three has an assumption about incidents.

**BulkApplyProofs.** `OnlyApprovedIsApplied`, by `ApprovalInv`: the approved snapshot of a row and
whatever a batch holds of it are among the recorded approvals, which only grow; `ApprovedStaysReady`
and `ResultsAreCounted`. All rest on `CommitApproves`: a commit either approves exactly the
snapshot it writes and records, or adds no approved row and no result, however stale the rows it
loaded. `RunningStaysQueued` holds for reviews at
any time, exceptions, crashes on every try and any number of starters: each step that ends a batch or a request of a running job adds an entry, begins to
pause it, or is recorded in `orphaned`.

**ComposeProofs.** Every step of the module is one of four kinds: a page asks, a page edits, the
server handles, an answer is served; a lemma for each kind says what it may touch.
`OnlyAcceptedIsSent`: whatever may become the stored text, on the way or on a page that saves, is
among the accepted versions. `SentIsTrue`: "sent" is written only after SMTP accepted.
`OnlyOverlapsDeliverTwice`: while SMTP has reported no failure, a second delivery needs a second send
that was loaded before the fence of the first was committed; after the fence no step makes the draft
editable again (`FailInv`, `FenceInv`), whatever is lost and however many pages and abandoned handlers there are.
`OncePerTab`: as long as no connection was lost under a handler that goes on, the mail is delivered
at most once for each page, also when pages overlap at the fence: `ChainInv` says that a page sends
one thing at a time, and `OnceInv` counts deliveries and pages that may still deliver. For one tab
this is `OneTabDeliversOnce`. `compose_twice` shows that two tabs do deliver twice, and section 4
that one tab does after such a loss.

**MailProofs.** `NothingLost`: a call that is about to flag a copy has made a later one, and the
copies of a message that are not flagged are never the one it names (`CopiedFirst`, `UidsGiven`).
`CustodyKept`: each step maps to a step of `Custody` or to none, `kept` being read off the copies.
`WorkspaceIsMailbox`: the page is a client of `Mailbox`, so both carry over to it. `UndoStaysExact`
needs `WorkspaceInv`: tasks are of known kinds and stages (`Sound`), a call belongs to one task
(`Waits`), and the moves of a drop that are done are of copies that are gone (`Exact`); since UIDs
are never used twice, what is gone stays gone (`MovedIsGone`). Every step is local, asks, settles
or serves.

**LiveCycleProofs.** `IInv` says that the jobs of two accounts differ, and for each slot, each
orphaned command and each message which of keyword, copy and row may exist at that point
(`SlotInv`, `OrphanInv`, `MailInv`): the keyword comes before the copy, and a message with the
keyword is not fetched. `RowsAreTrue` and `MovedOnce` follow. `QuotaHolds`: `QuotaInv` bounds the
messages handled by what was counted, what running cycles will count, and a batch for each incident.

**SetupProofs.** `OwnerStays`, by `GrantInv`: a grant in progress that found no owner holds the
lock that keeps others out. `OrgsStayLinked`, by `FreshInv`: an organization is inserted with the
identity that the API returned to its own request. `SetupTellsTruth` has no assumption about other
tabs: `TellInv` says, for each step of a page, what it may rely on, and for whom the cookie speaks
unless it was crossed since the page signed up.

**PagesProofs.** The common part says that a slot holds a handler or none (`Slotted`), that an
answer or a loss changes one handler, which asks for one thing less (`AnsweredOrLost`), and that no
step leaves the page, so that pages are taken one at a time. Then each page has an invariant about
what its handlers ask and what holds of the answers they have:

* `ReadyTellsTheTruth`: the wizard has at most one handler that moves it on (`OneMain`), and the
  answers it has were true when they arrived and stay true, since a backfill that has begun stays
  begun;
* `ConfirmedAsShown`: a confirmation names the decision that the card had, and the API approves the
  mails whose decision is that one;
* `ReviewSettlesWhatIsAsked`: a handler asks for one thing, only the routing buttons settle a
  routing, and none clears a suspicion but by dismissing;
* `EntriesAgree`: a transaction that has written has disabled what contradicts it, but for entries it
  is tangled with (`Superseding`); a row that no other request is about is as it was loaded
  (`Unmoved`); and requests that are in progress together are on record (`Entangled`). So two
  committed entries that were never tangled agree (`Agreeing`);
* `RemovalStaysInMailbox`: a removal names the mailbox that is selected, and the API looks the rule
  up there;
* `WhatIsMappedExists` and `CreatedAsApproved`: an apply that has listed the folders knows of each
  item that its folder exists or that it has still to create it (`Found`), and that every reuse was
  found (`Checked`); folders come and go under it, but those of a mapping stay; and every draft that
  may be applied is made of approved items, wherever it was merged from (`IsDraft`);
* `TypingIsKept`: each way in which an answer reaches the form leaves it alone or closes it
  (`Keeps`).

The invariants were checked with TLC on the instances of the runs before they were proved.

Model-checked only: what is stated under fairness (`EveryCallerAnswered`, `BackfillEnds`,
`ApplyEnds`, `SendEnds`, `PageSettles`, `EveryMailHandled`), since liveness and ENABLED are out of
the prover's reach. Every safety property of every passing run is stated by a theorem.

## 6. Where models meet

* `MailWorkspace` extends `Mailbox` and is proved to be one of its clients; `Mailbox` implements
  `Custody`.
* `OnboardingPage` extends `AccountPages`, whose rules of access it uses; `Pages` composes all page
  modules over `Tab`.
* `BulkPages` is the page of what `Backfill` and `BulkApply` do at the level of transactions. The
  pages see their rows as the API returns them; how those come about is the other modules' subject.
* `LiveCycle` and `Backfill` take their model calls for granted (a call succeeds or fails);
  `Workload` is what makes them wait.

## 7. Not modelled

* **Backfill in apply mode**: the scan is the one of `Backfill` and what it does with a message the
  one of `LiveCycle`, but every message fails (section 4), and a model would only show that.
* **Resilience and model clients**: the circuit breaker is a counter and a time in one process and
  promises no exclusive probe.
* **Attachment library**: ingestion and corrections of users meet on one row; next in the plan.
* **Billing and plans**: decided by an external provider; the quota is read in `LiveCycle`.
* **Request filters**: signatures and roles are checked request by request, without shared state.
* **Secrets and their rotation**: one transaction with both keys configured; it meets other writers
  only in the refresh of an OAuth token.
* **Audit, retention, dashboard, search, preferences, other pages, deployment**: append-only,
  read-only, or one row that the last writer wins.

The map of `PROJECT.json` covers about three tenths of the implementation; the rest is mostly
layout of pages, types, parsing, prompts and the parts above.

Next in the plan: an abstract lease pool that `Workload` implements and an abstract scan that
`Backfill` implements, as `Custody` is for `Mailbox`; the attachment library; a second slot for the
liveness of `LiveCycle`.
