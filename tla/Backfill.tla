------------------------------ MODULE Backfill ------------------------------
(***************************************************************************)
(* A historical backfill: one job row, its failure rows and its proposals  *)
(* in PostgreSQL; the batches of the job in the ARQ queue; the workers     *)
(* that run them (mode dry_run or review, BulkBackfillService.run_batch);  *)
(* the API handlers that start, pause, resume, cancel and retry; and the   *)
(* IMAP folder that is scanned.                                            *)
(*                                                                         *)
(* One database transaction is one action, unless the code first reads a   *)
(* row without locking it and writes it later: the ORM session then keeps  *)
(* the row it read, whatever was committed in between, so the read and the *)
(* write are two actions and the reader keeps a snapshot.                  *)
(***************************************************************************)
EXTENDS Integers, FiniteSets

CONSTANTS
  MaxUid,        \* bound: largest UID of the folder
  History,       \* UIDs in the folder when the job starts
  BatchSize,     \* job.batch_size
  MaxAttempts,   \* BACKFILL_MAX_ATTEMPTS
  MaxTries,      \* WORKER_MAX_TRIES
  Slots,         \* batches that the workers run at the same time, at most
  MaxRetryIds,   \* bound: entries with a unique id alive at the same time
  MaxIncidents,  \* bound: crashes, exceptions, model errors, mailbox changes
  MaxCommands,   \* bound: API calls after the start
  Incidents      \* kinds of incident that may happen; with "overflow", an
                 \* error may be one of those that recovery looks for

Uids == 1..MaxUid
Cursors == 0..MaxUid       \* 0 stands for a cursor that is still None

IncidentKinds == {"transient", "hard", "degraded", "raise", "crash", "pause",
                  "redis", "uidvalidity", "expunge", "deliver", "retry_raise",
                  "api_crash", "overflow"}

ASSUME FolderAssumption == MaxUid \in Nat /\ History \in SUBSET Uids
ASSUME SizesAssumption ==
  /\ BatchSize \in Nat \ {0}
  /\ MaxAttempts \in Nat \ {0}
  /\ MaxTries \in Nat \ {0}
  /\ MaxRetryIds \in Nat
ASSUME BoundsAssumption ==
  /\ MaxIncidents \in Nat
  /\ MaxCommands \in Nat
  /\ Incidents \in SUBSET IncidentKinds

VARIABLES
  \* PostgreSQL
  state, cursor, uidvalidity, processed, successful, failed,  \* backfill_jobs
  failure,       \* backfill_failures, one record for each UID
  proposals,     \* UIDs that have a row in bulk_proposals
  \* IMAP folder
  mailbox, highest, epoch,
  \* ARQ
  queue,         \* entries waiting
  retained,      \* cursor ids whose result ARQ still keeps
  \* workers, one function for each local of run_batch
  pc, entry, from, todo, pending, held, scan, done, yielded,
  \* API
  client,        \* the start or resume request in progress
  asked,         \* the retry request of each UID in progress
  \* the queue and the worker of manual retries
  retry,         \* process_backfill_failure of each UID
  \* history, read by the properties only
  orphaned,      \* since the job got its last entry, what was to drive it ended early
  overlapped,    \* two batches of the job have been in progress at once
  incidents, commands

counters == <<processed, successful, failed>>
job == <<state, cursor, uidvalidity, counters>>
folder == <<mailbox, highest, epoch>>
arq == <<queue, retained>>
locals == <<from, todo, pending, held, scan, done, yielded>>
api == <<client, asked>>
history == <<orphaned, overlapped>>
bounds == <<incidents, commands>>
vars == <<job, failure, proposals, folder, arq, pc, entry, locals, api,
          retry, history, bounds>>

States == {"none", "running", "paused", "completed", "cancelled", "failed"}
Statuses == {"none", "failed", "retrying", "resolved"}
Places == {"free", "down", "begun", "recovering", "scanning", "saving",
           "writing", "finished", "requeueing", "pausing"}

Snapshots == [cursor : Cursors, processed : Nat, successful : Nat, failed : Nat]
Blank == [cursor |-> 0, processed |-> 0, successful |-> 0, failed |-> 0]
Ids == [kind : {"cursor"}, at : Cursors] \cup [kind : {"retry"}, at : 1..MaxRetryIds]
Entries == [id : Ids, try : 1..MaxTries]
NoEntry == [id |-> [kind |-> "cursor", at |-> 0], try |-> 1]

JobTypeOK ==
  /\ state \in States
  /\ cursor \in Cursors
  /\ uidvalidity \in 0..2
  /\ processed \in Nat /\ successful \in Nat /\ failed \in Nat

RowsTypeOK ==
  /\ failure \in [Uids -> [status : Statuses, attempts : Nat, recoverable : BOOLEAN]]
  /\ proposals \in SUBSET Uids

FolderTypeOK ==
  /\ mailbox \in SUBSET (1..highest)
  /\ highest \in Cursors
  /\ epoch \in 1..2

ArqTypeOK ==
  /\ queue \in SUBSET Entries
  /\ retained \in SUBSET Cursors
  /\ entry \in [Slots -> Entries]

LocalsTypeOK ==
  /\ pc \in [Slots -> Places]
  /\ from \in [Slots -> Cursors]
  /\ todo \in [Slots -> SUBSET Uids]
  /\ pending \in [Slots -> SUBSET Uids]
  /\ held \in [Slots -> Snapshots]
  /\ scan \in [Slots -> Cursors]
  /\ done \in [Slots -> BOOLEAN]
  /\ yielded \in [Slots -> {"no", "retry", "stopped"}]

ApiTypeOK ==
  /\ client \in [at : {"idle", "resuming", "enqueueing", "pausing"},
                 saw : States, cursor : Cursors]
  /\ asked \in [Uids -> {"no", "enqueueing", "restoring"}]
  /\ retry \in [Uids -> {"none", "queued", "running", "lost"}]
  /\ orphaned \in BOOLEAN /\ overlapped \in BOOLEAN
  /\ incidents \in 0..MaxIncidents
  /\ commands \in 0..MaxCommands

TypeOK ==
  JobTypeOK /\ RowsTypeOK /\ FolderTypeOK /\ ArqTypeOK /\ LocalsTypeOK /\ ApiTypeOK

Init ==
  /\ state = "none" /\ cursor = 0 /\ uidvalidity = 0
  /\ processed = 0 /\ successful = 0 /\ failed = 0
  /\ failure = [u \in Uids |->
                  [status |-> "none", attempts |-> 0, recoverable |-> FALSE]]
  /\ proposals = {}
  /\ mailbox = History
  /\ highest \in {h \in Cursors : \A u \in History : u <= h}
  /\ epoch = 1
  /\ queue = {} /\ retained = {}
  /\ pc = [w \in Slots |-> "free"]
  /\ entry = [w \in Slots |-> NoEntry]
  /\ from = [w \in Slots |-> 0]
  /\ todo = [w \in Slots |-> {}]
  /\ pending = [w \in Slots |-> {}]
  /\ held = [w \in Slots |-> Blank]
  /\ scan = [w \in Slots |-> 0]
  /\ done = [w \in Slots |-> FALSE]
  /\ yielded = [w \in Slots |-> "no"]
  /\ client = [at |-> "idle", saw |-> "none", cursor |-> 0]
  /\ asked = [u \in Uids |-> "no"]
  /\ retry = [u \in Uids |-> "none"]
  /\ orphaned = FALSE /\ overlapped = FALSE
  /\ incidents = 0 /\ commands = 0

\* An incident of a kind happens, within the bound.
Incident(kind) ==
  /\ kind \in Incidents
  /\ incidents < MaxIncidents
  /\ incidents' = incidents + 1
  /\ UNCHANGED commands

Command ==
  /\ commands < MaxCommands
  /\ commands' = commands + 1
  /\ UNCHANGED incidents

Least(S) == CHOOSE u \in S : \A v \in S : u <= v
Greatest(S) == CHOOSE u \in S : \A v \in S : v <= u

-----------------------------------------------------------------------------
(* The ARQ queue. *)

Busy(w) == pc[w] \notin {"free", "down"}

\* enqueue_job answers None when the id is queued, in progress, or has a
\* result that is still kept.
InUse(id) ==
  \/ \E e \in queue : e.id = id
  \/ \E w \in Slots : Busy(w) /\ entry[w].id = id
  \/ id.kind = "cursor" /\ id.at \in retained

CursorId(c) == [kind |-> "cursor", at |-> c]

\* enqueue_backfill_batch with unique_retry: an id nobody has used.
AddRetryEntry(Q) ==
  LET free == {k \in 1..MaxRetryIds : ~ InUse([kind |-> "retry", at |-> k])}
  IN /\ free # {}
     /\ queue' = Q \cup {[id |-> [kind |-> "retry", at |-> Least(free)], try |-> 1]}

AddCursorEntry(c) == queue' = queue \cup {[id |-> CursorId(c), try |-> 1]}

\* The function returned or raised: ARQ keeps its result for a while.
Leave(w) ==
  /\ pc' = [pc EXCEPT ![w] = "free"]
  /\ retained' = IF entry[w].id.kind = "cursor"
                   THEN retained \cup {entry[w].id.at} ELSE retained

ResultExpires(c) ==
  /\ c \in retained
  /\ retained' = retained \ {c}
  /\ UNCHANGED <<job, failure, proposals, folder, queue, pc, entry, locals,
                 api, retry, history, bounds>>

-----------------------------------------------------------------------------
(* The job row. *)

\* _ALLOWED_TRANSITIONS
Allowed(s) ==
  CASE s = "running" -> {"paused", "completed", "cancelled", "failed"}
    [] s = "paused"  -> {"running", "cancelled", "failed"}
    [] s = "failed"  -> {"running", "cancelled"}
    [] OTHER         -> {}

\* Mutated form of SetIfRunning: the state is not looked at first.
SetAnyway(s) == state' = s

\* _set_backfill_state
SetIfRunning(s) == state' = IF state = "running" THEN s ELSE state

\* A batch, a worker or a request is over and leaves the job running.
Orphan == orphaned' = (orphaned \/ state' = "running")

Snapshot == [cursor |-> cursor, processed |-> processed,
             successful |-> successful, failed |-> failed]

\* The ORM writes the columns whose value differs from the one it read.
Written(column, seen, value) == IF value = seen THEN column ELSE value

\* Mutated form of Checkpoint: the cursor stays behind.
CheckpointWithoutCursor(h, u, ok) ==
  /\ u >= h.cursor
  /\ processed' = h.processed + 1
  /\ successful' = IF ok THEN h.successful + 1 ELSE successful
  /\ failed' = IF ok THEN failed ELSE h.failed + 1
  /\ UNCHANGED <<state, cursor, uidvalidity>>

\* checkpoint(), on the row h that the session already holds.
Checkpoint(h, u, ok) ==
  /\ u >= h.cursor
  /\ cursor' = Written(cursor, h.cursor, u)
  /\ processed' = h.processed + 1
  /\ successful' = IF ok THEN h.successful + 1 ELSE successful
  /\ failed' = IF ok THEN failed ELSE h.failed + 1
  /\ UNCHANGED <<state, uidvalidity>>

\* Mutated form of RetrySuccess: the new proposal is not stored.
RetryWithoutProposal(u) ==
  /\ failure' = [failure EXCEPT ![u].status = "resolved", ![u].recoverable = FALSE]
  /\ failed' = IF failed > 0 THEN failed - 1 ELSE failed
  /\ successful' = successful + 1
  /\ UNCHANGED <<state, cursor, uidvalidity, processed, proposals>>

\* apply_retry_success, on rows locked in a session of its own.
RetrySuccess(u) ==
  /\ failure' = [failure EXCEPT ![u].status = "resolved", ![u].recoverable = FALSE]
  /\ proposals' = proposals \cup {u}
  /\ failed' = IF failed > 0 THEN failed - 1 ELSE failed
  /\ successful' = successful + 1
  /\ UNCHANGED <<state, cursor, uidvalidity, processed>>

\* The message can be fetched again under the UIDVALIDITY of the failure.
Reachable(u) == u \in mailbox /\ epoch = uidvalidity

-----------------------------------------------------------------------------
(* process_backfill_batch *)

\* The worker takes an entry and reads the job; only a running one goes on.
\* The cursor that is read now is the one the scan starts from.
Take(w, e) ==
  /\ pc[w] = "free" /\ e \in queue
  /\ queue' = queue \ {e}
  /\ entry' = [entry EXCEPT ![w] = e]
  /\ \/ /\ state = "running"
        /\ pc' = [pc EXCEPT ![w] = "begun"]
        /\ from' = [from EXCEPT ![w] = cursor]
        /\ overlapped' = (overlapped \/ \E v \in Slots : Busy(v))
        /\ UNCHANGED retained
     \/ /\ state # "running"
        /\ retained' = IF e.id.kind = "cursor" THEN retained \cup {e.id.at}
                                               ELSE retained
        /\ UNCHANGED <<pc, from, overlapped>>
  /\ UNCHANGED <<job, failure, proposals, folder, todo, pending, held,
                 scan, done, yielded, api, retry, orphaned, bounds>>

\* WORKER_PAUSED: the job is paused instead.
TakePaused(w, e) ==
  /\ pc[w] = "free" /\ e \in queue
  /\ Incident("pause")
  /\ SetIfRunning("paused")
  /\ queue' = queue \ {e}
  /\ retained' = IF e.id.kind = "cursor" THEN retained \cup {e.id.at} ELSE retained
  /\ UNCHANGED <<cursor, uidvalidity, counters, failure, proposals, folder, pc,
                 entry, locals, api, retry, history>>

\* The published inference health is degraded: the batch is put off.
TakeDegraded(w, e) ==
  /\ pc[w] = "free" /\ e \in queue
  /\ state = "running"
  /\ Incident("degraded")
  /\ AddRetryEntry(queue \ {e})
  /\ retained' = IF e.id.kind = "cursor" THEN retained \cup {e.id.at} ELSE retained
  /\ UNCHANGED <<job, failure, proposals, folder, pc, entry, locals, api, retry, history>>

\* _recover_persisted_failures: the list of rows is read once.
ListFailures(w) ==
  /\ pc[w] = "begun"
  /\ pc' = [pc EXCEPT ![w] = "recovering"]
  /\ todo' = [todo EXCEPT ![w] =
       {u \in Uids : failure[u].status = "failed" /\ failure[u].recoverable}]
  /\ pending' = [pending EXCEPT ![w] = {}]
  /\ yielded' = [yielded EXCEPT ![w] = "no"]
  /\ UNCHANGED <<job, failure, proposals, folder, arq, entry, from, held,
                 scan, done, api, retry, history, bounds>>

\* The next of them is classified again.  Neither the job nor the row is looked
\* at again before the result is written.
Recover(w) ==
  /\ pc[w] = "recovering" /\ todo[w] # {}
  /\ LET u == Least(todo[w])
     IN \/ /\ Reachable(u)
           /\ RetrySuccess(u)
           /\ todo' = [todo EXCEPT ![w] = @ \ {u}]
           /\ UNCHANGED bounds
        \/ /\ ~ Reachable(u)
           /\ todo' = [todo EXCEPT ![w] = @ \ {u}]
           /\ UNCHANGED <<job, failure, proposals, bounds>>
        \/ /\ Incident("hard")
           /\ todo' = [todo EXCEPT ![w] = @ \ {u}]
           /\ UNCHANGED <<job, failure, proposals>>
        \/ /\ Incident("transient")
           /\ todo' = [todo EXCEPT ![w] = {}]
           /\ UNCHANGED <<job, failure, proposals>>
  /\ UNCHANGED <<folder, arq, pc, entry, from, pending, held, scan,
                 done, yielded, api, retry, history>>

\* fetch_historical_batch: the first BatchSize messages after the cursor, and
\* the position up to which the folder was inspected.
After(c) == {u \in mailbox : u > c}
Selected(c) == {u \in After(c) : Cardinality({v \in After(c) : v <= u}) <= BatchSize}

ScanCursor(c) ==
  IF Cardinality(Selected(c)) = BatchSize THEN Greatest(Selected(c))
  ELSE IF c > highest THEN c ELSE highest

\* The fetch and initialize_discovery, which fails the job when the folder has
\* another UIDVALIDITY than before; the worker then raises.
Fetch(w) ==
  /\ pc[w] = "recovering" /\ todo[w] = {}
  /\ \/ /\ uidvalidity \in {0, epoch}
        /\ uidvalidity' = epoch
        /\ todo' = [todo EXCEPT ![w] = Selected(from[w])]
        /\ scan' = [scan EXCEPT ![w] = ScanCursor(from[w])]
        /\ done' = [done EXCEPT ![w] = ScanCursor(from[w]) >= highest]
        /\ pc' = [pc EXCEPT ![w] = "scanning"]
        /\ UNCHANGED <<state, retained>>
     \/ /\ uidvalidity \notin {0, epoch}
        /\ state' = "failed"
        /\ Leave(w)
        /\ UNCHANGED <<uidvalidity, todo, scan, done>>
  /\ UNCHANGED <<cursor, counters, failure, proposals, folder, queue, entry,
                 from, pending, held, yielded, api, retry, history, bounds>>

\* The batch is over for this worker because the job no longer runs.
Stop(w) ==
  /\ yielded' = [yielded EXCEPT ![w] = "stopped"]
  /\ UNCHANGED <<todo, pending, held, pc>>

\* The first loop of run_batch reads the job and looks for a proposal.
Look(w) ==
  /\ pc[w] = "scanning" /\ todo[w] # {} /\ yielded[w] = "no"
  /\ LET u == Least(todo[w])
     IN \/ state # "running" /\ Stop(w)
        \/ /\ state = "running" /\ u \in proposals
           /\ pc' = [pc EXCEPT ![w] = "saving"]
           /\ held' = [held EXCEPT ![w] = Snapshot]
           /\ UNCHANGED <<todo, pending, yielded>>
        \/ /\ state = "running" /\ u \notin proposals
           /\ todo' = [todo EXCEPT ![w] = @ \ {u}]
           /\ pending' = [pending EXCEPT ![w] = @ \cup {u}]
           /\ UNCHANGED <<pc, held, yielded>>
  /\ UNCHANGED <<job, failure, proposals, folder, arq, entry, from, scan, done,
                 api, retry, history, bounds>>

\* A checkpoint that the row in the session refuses raises out of the batch.
CursorRefused(w, u) ==
  /\ u < held[w].cursor
  /\ Leave(w)
  /\ SetIfRunning(IF entry[w].try >= MaxTries THEN "failed" ELSE "running")
  /\ Orphan
  /\ UNCHANGED <<cursor, uidvalidity, counters, failure, proposals, todo,
                 pending, yielded>>

\* ... and checkpoints a message that already has one.
Save(w) ==
  /\ pc[w] = "saving"
  /\ LET u == Least(todo[w])
     IN \/ /\ Checkpoint(held[w], u, TRUE)
           /\ todo' = [todo EXCEPT ![w] = @ \ {u}]
           /\ pc' = [pc EXCEPT ![w] = "scanning"]
           /\ UNCHANGED <<failure, proposals, pending, yielded, retained, orphaned>>
        \/ CursorRefused(w, u)
  /\ UNCHANGED <<folder, queue, entry, from, held, scan, done, api, retry,
                 overlapped, bounds>>

\* The second loop: the pending messages have been classified, concurrently;
\* their outcomes are committed in UID order, each after a look at the job.
Commit(w) ==
  /\ pc[w] = "scanning" /\ todo[w] = {} /\ pending[w] # {} /\ yielded[w] = "no"
  /\ \/ state # "running" /\ Stop(w)
     \/ /\ state = "running"
        /\ pc' = [pc EXCEPT ![w] = "writing"]
        /\ held' = [held EXCEPT ![w] = Snapshot]
        /\ UNCHANGED <<todo, pending, yielded>>
  /\ UNCHANGED <<job, failure, proposals, folder, arq, entry, from, scan, done,
                 api, retry, history, bounds>>

\* is_recoverable_persisted_failure of the error that is recorded.
Recoverable == IF "overflow" \in Incidents THEN BOOLEAN ELSE {FALSE}

\* A classified message: its proposal, its failure row and the checkpoint are
\* one transaction.
WriteProposal(w) ==
  /\ pc[w] = "writing"
  /\ LET u == Least(pending[w])
     IN \/ /\ Checkpoint(held[w], u, TRUE)
           /\ proposals' = proposals \cup {u}
           /\ failure' = IF failure[u].status = "none" THEN failure
                         ELSE [failure EXCEPT ![u].status = "resolved",
                                              ![u].recoverable = FALSE]
           /\ pending' = [pending EXCEPT ![w] = @ \ {u}]
           /\ pc' = [pc EXCEPT ![w] = "scanning"]
           /\ UNCHANGED <<todo, yielded, retained, orphaned>>
        \/ CursorRefused(w, u)
  /\ UNCHANGED <<folder, queue, entry, from, held, scan, done, api, retry,
                 overlapped, bounds>>

\* The model is unavailable for now: the batch ends and nothing is written.
WriteTransient(w) ==
  /\ pc[w] = "writing"
  /\ Incident("transient")
  /\ yielded' = [yielded EXCEPT ![w] = "retry"]
  /\ pc' = [pc EXCEPT ![w] = "scanning"]
  /\ UNCHANGED <<job, failure, proposals, folder, arq, entry, from, todo,
                 pending, held, scan, done, api, retry, history>>

\* Any other error is recorded; the cursor passes the message only after the
\* last attempt.
WriteFailure(w) ==
  /\ pc[w] = "writing"
  /\ Incident("hard")
  /\ LET u == Least(pending[w])
         attempts == failure[u].attempts + 1
         Record == \E r \in Recoverable :
           failure' = [failure EXCEPT ![u] =
             [status |-> "failed", attempts |-> attempts, recoverable |-> r]]
     IN \/ /\ attempts < MaxAttempts
           /\ Record
           /\ yielded' = [yielded EXCEPT ![w] = "retry"]
           /\ pc' = [pc EXCEPT ![w] = "scanning"]
           /\ UNCHANGED <<job, proposals, todo, pending, retained, orphaned>>
        \/ /\ attempts >= MaxAttempts
           /\ Record
           /\ Checkpoint(held[w], u, FALSE)
           /\ pending' = [pending EXCEPT ![w] = @ \ {u}]
           /\ pc' = [pc EXCEPT ![w] = "scanning"]
           /\ UNCHANGED <<proposals, todo, yielded, retained, orphaned>>
        \/ attempts >= MaxAttempts /\ CursorRefused(w, u)
  /\ UNCHANGED <<folder, queue, entry, from, held, scan, done, api, retry,
                 overlapped>>

\* Mutated form of Finish: a batch that gave up moves the cursor all the same.
FinishAnyway(w) ==
  /\ pc[w] = "scanning"
  /\ yielded[w] # "no" \/ (todo[w] = {} /\ pending[w] = {})
  /\ pc' = [pc EXCEPT ![w] = "finished"]
  /\ cursor' = IF scan[w] > cursor THEN scan[w] ELSE cursor
  /\ state' = IF state = "running" /\ done[w] THEN "completed" ELSE state
  /\ from' = [from EXCEPT ![w] = 0] /\ scan' = [scan EXCEPT ![w] = 0]
  /\ todo' = [todo EXCEPT ![w] = {}] /\ pending' = [pending EXCEPT ![w] = {}]
  /\ held' = [held EXCEPT ![w] = Blank] /\ done' = [done EXCEPT ![w] = FALSE]
  /\ UNCHANGED <<uidvalidity, counters, failure, proposals, folder, arq, entry,
                 yielded, api, retry, history, bounds>>

\* Mutated form of Finish: a batch that gave up completes the job if its window
\* was the last.
FinishCompletes(w) ==
  /\ pc[w] = "scanning"
  /\ yielded[w] # "no" \/ (todo[w] = {} /\ pending[w] = {})
  /\ pc' = [pc EXCEPT ![w] = "finished"]
  /\ cursor' = IF state = "running" /\ yielded[w] = "no" /\ scan[w] > cursor
                 THEN scan[w] ELSE cursor
  /\ state' = IF state = "running" /\ done[w] THEN "completed" ELSE state
  /\ from' = [from EXCEPT ![w] = 0] /\ scan' = [scan EXCEPT ![w] = 0]
  /\ todo' = [todo EXCEPT ![w] = {}] /\ pending' = [pending EXCEPT ![w] = {}]
  /\ held' = [held EXCEPT ![w] = Blank] /\ done' = [done EXCEPT ![w] = FALSE]
  /\ UNCHANGED <<uidvalidity, counters, failure, proposals, folder, arq, entry,
                 yielded, api, retry, history, bounds>>

\* The last transaction of run_batch works on a row it has locked; the locals
\* go out of scope.
Finish(w) ==
  /\ pc[w] = "scanning"
  /\ yielded[w] # "no" \/ (todo[w] = {} /\ pending[w] = {})
  /\ pc' = [pc EXCEPT ![w] = "finished"]
  /\ \/ /\ state = "running" /\ yielded[w] = "no"
        /\ cursor' = IF scan[w] > cursor THEN scan[w] ELSE cursor
        /\ state' = IF done[w] THEN "completed" ELSE state
     \/ /\ state # "running" \/ yielded[w] # "no"
        /\ UNCHANGED <<cursor, state>>
  /\ from' = [from EXCEPT ![w] = 0] /\ scan' = [scan EXCEPT ![w] = 0]
  /\ todo' = [todo EXCEPT ![w] = {}] /\ pending' = [pending EXCEPT ![w] = {}]
  /\ held' = [held EXCEPT ![w] = Blank] /\ done' = [done EXCEPT ![w] = FALSE]
  /\ UNCHANGED <<uidvalidity, counters, failure, proposals, folder, arq, entry,
                 yielded, api, retry, history, bounds>>

\* run_batch reads the job once more for its result.
Result(w) ==
  /\ pc[w] = "finished"
  /\ \/ state # "running" /\ Leave(w) /\ UNCHANGED held
     \/ /\ state = "running"
        /\ pc' = [pc EXCEPT ![w] = "requeueing"]
        /\ held' = [held EXCEPT ![w] = [Blank EXCEPT !.cursor = cursor]]
        /\ UNCHANGED retained
  /\ UNCHANGED <<job, failure, proposals, folder, queue, entry, from, todo,
                 pending, scan, done, yielded, api, retry, history, bounds>>

\* The worker asks for the next batch of a job that was still running; a retry
\* at the same position gets an id of its own.
Requeue(w) ==
  /\ pc[w] = "requeueing"
  /\ LET id == CursorId(held[w].cursor)
     IN \/ yielded[w] = "retry" /\ AddRetryEntry(queue) /\ Leave(w)
        \/ /\ yielded[w] # "retry" /\ ~ InUse(id)
           /\ AddCursorEntry(held[w].cursor) /\ Leave(w)
        \/ /\ yielded[w] # "retry" /\ InUse(id)
           /\ pc' = [pc EXCEPT ![w] = "pausing"]
           /\ UNCHANGED <<queue, retained>>
  /\ held' = [held EXCEPT ![w] = Blank]
  /\ UNCHANGED <<job, failure, proposals, folder, entry, from, todo, pending,
                 scan, done, yielded, api, retry, history, bounds>>

PauseAfterRequeue(w) ==
  /\ pc[w] = "pausing"
  /\ SetIfRunning("paused")
  /\ Leave(w)
  /\ UNCHANGED <<cursor, uidvalidity, counters, failure, proposals, folder,
                 queue, entry, locals, api, retry, history, bounds>>

-----------------------------------------------------------------------------
(* What happens to workers and to the folder. *)

\* An exception (IMAP, database, Redis) ends the batch: ARQ does not run it
\* again.  Only the last try marks the job, and job_timeout never does, because
\* a cancellation is not an Exception.
Raise(w) ==
  /\ Busy(w)
  /\ Incident("raise")
  /\ Leave(w)
  /\ \/ SetIfRunning(IF entry[w].try >= MaxTries THEN "failed" ELSE "running")
     \/ UNCHANGED state
  /\ Orphan
  /\ UNCHANGED <<cursor, uidvalidity, counters, failure, proposals, folder,
                 queue, entry, locals, api, retry, overlapped>>

\* An entry whose worker went down is run again, up to max_tries times.
Repeated(e) == IF e.try < MaxTries THEN {[e EXCEPT !.try = @ + 1]} ELSE {}

\* The process dies or is shut down: ARQ repeats the entry it worked on.
Crash(w) ==
  /\ pc[w] # "down"
  /\ Incident("crash")
  /\ pc' = [pc EXCEPT ![w] = "down"]
  /\ queue' = IF Busy(w) THEN queue \cup Repeated(entry[w]) ELSE queue
  /\ UNCHANGED <<job, failure, proposals, folder, retained, entry, locals,
                 api, retry, history>>

\* on_startup gives every running job an entry, unless WORKER_PAUSED is set.
Startup(w) ==
  /\ pc[w] = "down"
  /\ pc' = [pc EXCEPT ![w] = "free"]
  /\ \/ /\ state = "running"
        /\ AddRetryEntry(queue)
        /\ orphaned' = FALSE
        /\ UNCHANGED bounds
     \/ /\ state # "running"
        /\ UNCHANGED <<queue, orphaned, bounds>>
     \/ /\ Incident("pause")
        /\ orphaned' = (orphaned \/ state = "running")
        /\ UNCHANGED queue
  /\ UNCHANGED <<job, failure, proposals, folder, retained, entry, locals,
                 api, retry, overlapped>>

Expunge(u) ==
  /\ u \in mailbox
  /\ Incident("expunge")
  /\ mailbox' = mailbox \ {u}
  /\ UNCHANGED <<job, failure, proposals, highest, epoch, arq, pc, entry,
                 locals, api, retry, history>>

Deliver ==
  /\ highest < MaxUid
  /\ Incident("deliver")
  /\ highest' = highest + 1
  /\ mailbox' = mailbox \cup {highest'}
  /\ UNCHANGED <<job, failure, proposals, epoch, arq, pc, entry, locals,
                 api, retry, history>>

\* The server renumbers the folder.
ChangeUidValidity ==
  /\ epoch = 1
  /\ Incident("uidvalidity")
  /\ epoch' = 2
  /\ UNCHANGED <<job, failure, proposals, mailbox, highest, arq, pc, entry,
                 locals, api, retry, history>>

-----------------------------------------------------------------------------
(* The API. *)

\* start_backfill: the row is committed, then the first batch is enqueued.
Start ==
  /\ state = "none" /\ client.at = "idle"
  /\ state' = "running"
  /\ client' = [at |-> "enqueueing", saw |-> "none", cursor |-> cursor]
  /\ UNCHANGED <<cursor, uidvalidity, counters, failure, proposals, folder,
                 arq, pc, entry, locals, asked, retry, history, bounds>>

\* resume_backfill reads the job ...
Resume ==
  /\ client.at = "idle" /\ state # "none"
  /\ Command
  /\ client' = [at |-> "resuming", saw |-> state, cursor |-> cursor]
  /\ UNCHANGED <<job, failure, proposals, folder, arq, pc, entry, locals, asked,
                 retry, history>>

\* ... and makes the transition on the row it read.
ResumeCommit ==
  /\ client.at = "resuming"
  /\ \/ /\ client.saw = "running"
        /\ client' = [client EXCEPT !.at = "enqueueing"]
        /\ UNCHANGED state
     \/ /\ "running" \in Allowed(client.saw)
        /\ state' = "running"
        /\ client' = [client EXCEPT !.at = "enqueueing"]
     \/ /\ client.saw # "running" /\ "running" \notin Allowed(client.saw)
        /\ client' = [client EXCEPT !.at = "idle"]
        /\ UNCHANGED state
  /\ UNCHANGED <<cursor, uidvalidity, counters, failure, proposals, folder,
                 arq, pc, entry, locals, asked, retry, history, bounds>>

\* Mutated form of ClientEnqueue: an id that is refused counts as queued.
ClientEnqueueAnyway ==
  /\ client.at = "enqueueing"
  /\ IF InUse(CursorId(client.cursor)) THEN UNCHANGED queue
     ELSE AddCursorEntry(client.cursor)
  /\ client' = [client EXCEPT !.at = "idle"]
  /\ UNCHANGED <<job, failure, proposals, folder, retained, pc, entry, locals,
                 asked, retry, history, bounds>>

\* _enqueue, and what start and resume do when it is refused or fails; a call to
\* Redis that fails may have added the entry all the same.
ClientEnqueue ==
  /\ client.at = "enqueueing"
  /\ \/ /\ ~ InUse(CursorId(client.cursor))
        /\ AddCursorEntry(client.cursor)
        /\ client' = [client EXCEPT !.at = "idle"]
        /\ orphaned' = FALSE
        /\ UNCHANGED bounds
     \/ /\ \/ InUse(CursorId(client.cursor)) /\ UNCHANGED <<queue, bounds>>
           \/ /\ Incident("redis")
              /\ \/ UNCHANGED queue
                 \/ ~ InUse(CursorId(client.cursor)) /\ AddCursorEntry(client.cursor)
        /\ client' = [client EXCEPT !.at =
                        IF client.saw = "running" THEN "idle" ELSE "pausing"]
        /\ UNCHANGED orphaned
  /\ UNCHANGED <<job, failure, proposals, folder, retained, pc, entry, locals,
                 asked, retry, overlapped>>

\* _pause_after_enqueue_failure finds the job in the session, where it is
\* running, and pauses it.
ClientPause ==
  /\ client.at = "pausing"
  /\ state' = "paused"
  /\ client' = [client EXCEPT !.at = "idle"]
  /\ UNCHANGED <<cursor, uidvalidity, counters, failure, proposals, folder,
                 arq, pc, entry, locals, asked, retry, history, bounds>>

\* The API process dies: what the request has committed stays, and the rest of
\* it is never done.
ClientDies ==
  /\ client.at # "idle"
  /\ Incident("api_crash")
  /\ client' = [client EXCEPT !.at = "idle"]
  /\ orphaned' = (orphaned \/ /\ client.at \in {"enqueueing", "pausing"}
                              /\ client.saw # "running" /\ state = "running")
  /\ UNCHANGED <<job, failure, proposals, folder, arq, pc, entry, locals, asked,
                 retry, overlapped>>

\* pause_backfill and cancel_backfill read a fresh row under its lock.
Control(s) ==
  /\ s \in Allowed(state) /\ s \in {"paused", "cancelled"}
  /\ Command
  /\ state' = s
  /\ UNCHANGED <<cursor, uidvalidity, counters, failure, proposals, folder,
                 arq, pc, entry, locals, api, retry, history>>

-----------------------------------------------------------------------------
(* The manual retry of a failure. *)

SetStatus(u, status) == failure' = [failure EXCEPT ![u].status = status]

\* retry_backfill_failure, for a failure whose automatic attempts are used up,
\* commits its status first (bound: one retry of a failure at a time) ...
RequestRetry(u) ==
  /\ asked[u] = "no" /\ retry[u] \in {"none", "lost"}
  /\ failure[u].attempts >= MaxAttempts /\ failure[u].status = "failed"
  /\ Command
  /\ SetStatus(u, "retrying")
  /\ asked' = [asked EXCEPT ![u] = "enqueueing"]
  /\ retry' = [retry EXCEPT ![u] = "none"]
  /\ UNCHANGED <<job, proposals, folder, arq, pc, entry, locals, client, history>>

\* Mutated form of EnqueueRetry: a task that could not be queued is forgotten.
EnqueueRetryAnyway(u) ==
  /\ asked[u] = "enqueueing"
  /\ asked' = [asked EXCEPT ![u] = "no"]
  /\ \/ /\ retry' = [retry EXCEPT ![u] = "queued"]
        /\ UNCHANGED bounds
     \/ Incident("redis") /\ UNCHANGED retry
  /\ UNCHANGED <<job, failure, proposals, folder, arq, pc, entry, locals, client,
                 history>>

\* ... then queues the task.  A call to Redis that fails may have queued it.
EnqueueRetry(u) ==
  /\ asked[u] = "enqueueing"
  /\ \/ /\ asked' = [asked EXCEPT ![u] = "no"]
        /\ retry' = [retry EXCEPT ![u] = "queued"]
        /\ UNCHANGED bounds
     \/ /\ Incident("redis")
        /\ asked' = [asked EXCEPT ![u] = "restoring"]
        /\ \/ UNCHANGED retry
           \/ retry' = [retry EXCEPT ![u] = "queued"]
  /\ UNCHANGED <<job, failure, proposals, folder, arq, pc, entry, locals, client,
                 history>>

\* If that failed, the request finds the row in its session, where it is
\* retrying, and makes it failed again.
RestoreFailure(u) ==
  /\ asked[u] = "restoring"
  /\ SetStatus(u, "failed")
  /\ asked' = [asked EXCEPT ![u] = "no"]
  /\ UNCHANGED <<job, proposals, folder, arq, pc, entry, locals, client, retry,
                 history, bounds>>

\* The API process dies in between.
RetryRequestDies(u) ==
  /\ asked[u] # "no"
  /\ Incident("api_crash")
  /\ asked' = [asked EXCEPT ![u] = "no"]
  /\ retry' = [retry EXCEPT ![u] = IF @ = "none" THEN "lost" ELSE @]
  /\ UNCHANGED <<job, failure, proposals, folder, arq, pc, entry, locals, client,
                 history>>

\* process_backfill_failure runs the task of a failure that is still retrying.
\* While the published health is degraded it queues it again under a new id,
\* which leaves it queued.
BeginRetry(u) ==
  /\ retry[u] = "queued"
  /\ retry' = [retry EXCEPT ![u] =
                 IF failure[u].status = "retrying" THEN "running" ELSE "none"]
  /\ UNCHANGED <<job, failure, proposals, folder, arq, pc, entry, locals,
                 api, history, bounds>>

\* Under WORKER_PAUSED it restores a failure that is still retrying instead.
BeginRetryPaused(u) ==
  /\ retry[u] = "queued"
  /\ Incident("pause")
  /\ SetStatus(u, IF failure[u].status = "retrying" THEN "failed" ELSE failure[u].status)
  /\ retry' = [retry EXCEPT ![u] = "none"]
  /\ UNCHANGED <<job, proposals, folder, arq, pc, entry, locals, api, history>>

\* BulkBackfillFailureService.retry stores the outcome.
EndRetry(u) ==
  /\ retry[u] = "running"
  /\ retry' = [retry EXCEPT ![u] = "none"]
  /\ \/ /\ Reachable(u) /\ RetrySuccess(u)
        /\ UNCHANGED bounds
     \/ /\ \/ ~ Reachable(u) /\ UNCHANGED bounds
           \/ Incident("hard")
        /\ \E r \in Recoverable :
             failure' = [failure EXCEPT ![u] =
               [status |-> "failed", attempts |-> @.attempts + 1, recoverable |-> r]]
        /\ UNCHANGED <<job, proposals>>
  /\ UNCHANGED <<folder, arq, pc, entry, locals, api, history>>

\* The account cannot be loaded, the token not refreshed, Redis not asked, or
\* job_timeout passes: the retry ends outside the handler that restores the row.
\* (No incident is counted: the commands already bound the retries.)
RetryRaises(u) ==
  /\ retry[u] \in {"queued", "running"}
  /\ "retry_raise" \in Incidents
  /\ retry' = [retry EXCEPT ![u] = "lost"]
  /\ UNCHANGED <<job, failure, proposals, folder, arq, pc, entry, locals, api,
                 history, bounds>>

\* The worker dies: ARQ runs the task again, unless it was the last try.
RetryCrashes(u) ==
  /\ retry[u] = "running"
  /\ Incident("crash")
  /\ \E next \in {"queued", "lost"} : retry' = [retry EXCEPT ![u] = next]
  /\ UNCHANGED <<job, failure, proposals, folder, arq, pc, entry, locals, api,
                 history>>

-----------------------------------------------------------------------------
WorkerStep(w) ==
  \/ \E e \in queue : Take(w, e)
  \/ ListFailures(w) \/ Recover(w) \/ Fetch(w) \/ Look(w) \/ Save(w)
  \/ Commit(w) \/ WriteProposal(w) \/ Finish(w) \/ Result(w)
  \/ Requeue(w) \/ PauseAfterRequeue(w)

WorkerTrouble(w) ==
  \/ \E e \in queue : TakePaused(w, e) \/ TakeDegraded(w, e)
  \/ WriteTransient(w) \/ WriteFailure(w) \/ Raise(w) \/ Crash(w)

ClientStep == ResumeCommit \/ ClientEnqueue \/ ClientPause

\* The retry of one failure: its request, its task and what may go wrong.
RetryStep(u) == EnqueueRetry(u) \/ RestoreFailure(u) \/ BeginRetry(u) \/ EndRetry(u)

RetryTrouble(u) ==
  BeginRetryPaused(u) \/ RetryRaises(u) \/ RetryCrashes(u) \/ RetryRequestDies(u)

Next ==
  \/ \E w \in Slots : WorkerStep(w) \/ WorkerTrouble(w) \/ Startup(w)
  \/ \E c \in Cursors : ResultExpires(c)
  \/ \E u \in Uids : Expunge(u) \/ RequestRetry(u) \/ RetryStep(u) \/ RetryTrouble(u)
  \/ Deliver \/ ChangeUidValidity
  \/ Start \/ Resume \/ ClientStep \/ ClientDies
  \/ \E s \in {"paused", "cancelled"} : Control(s)

\* Workers and API handlers run to their next step, and a worker that went down
\* is started again.  Incidents and user commands need not happen.
Fairness ==
  /\ \A w \in Slots : WF_vars(WorkerStep(w)) /\ WF_vars(Startup(w))
  /\ WF_vars(ClientStep)
  /\ \A u \in Uids : WF_vars(RetryStep(u))

Spec == Init /\ [][Next]_vars
FairSpec == Spec /\ Fairness

-----------------------------------------------------------------------------
(* Properties. *)

\* A message of the folder that has been dealt with: it has a proposal, or a
\* failure row that keeps it visible.
Covered(u) == u \in mailbox => u \in proposals \/ failure[u].status # "none"

\* No historical message is skipped: the cursor has only passed messages that
\* have a proposal or a failure row, whatever batches, crashes, pauses and
\* retries overlapped (bulk_backfill.py, run_batch).
NothingSkipped == \A u \in 1..cursor : Covered(u)

\* A job that was ever declared complete has dealt with all its history.
CompletedIsComplete == state = "completed" => \A u \in History : Covered(u)

\* A failure is only resolved together with a proposal for its message.
ResolvedHasProposal ==
  \A u \in Uids : failure[u].status = "resolved" => u \in proposals

\* "Return resumable jobs that must have a worker queue entry" (list_running): a
\* running job has an entry, a worker or a request that will see to its next batch.
\* The only ways to lose all of them at once are a batch that raises before its last
\* try, two batches that refuse each other's checkpoints, an API process that dies
\* between the commit and the entry, and a worker that starts under WORKER_PAUSED;
\* and every worker start and every successful resume makes good for it.
RunningHasEntry ==
  state = "running" =>
    \/ queue # {}
    \/ \E w \in Slots : pc[w] # "free"
    \/ client.at \in {"enqueueing", "pausing"} /\ client.saw # "running"
    \/ orphaned

\* A failure that is retrying, which the API refuses to retry again, has a request or
\* a task that will change that, unless the API process died in between, the task
\* raised outside its handler or died on its last try.
RetryingHasTask ==
  \A u \in Uids : failure[u].status = "retrying" =>
    asked[u] # "no" \/ retry[u] # "none"

Counted(u) == u \in proposals \/ failure[u].attempts >= MaxAttempts

\* Unless two batches of the job have ever been in progress at once, processed counts
\* each message that the cursor passed and that is still in the folder, and none twice,
\* however often batches were repeated, raised or died, and whatever recovery did ahead
\* of the cursor.
EachCountedOnce ==
  ~ overlapped =>
    /\ processed >= Cardinality((1..cursor) \cap mailbox)
    /\ processed <= Cardinality({u \in 1..cursor : Counted(u)})

\* A job that stopped is moved on only by a request of a user, or failed because
\* the folder was renumbered: no late batch, pause or crash brings it back.
StoppedStaysStopped ==
  [][state \notin {"none", "running"} /\ state' # state =>
       \/ commands' # commands \/ client' # client
       \/ state' = "failed" /\ uidvalidity # epoch]_vars

\* A running job does not run for ever: it ends or is paused, unless what was to
\* drive it ended early (see RunningHasEntry) and no worker was started since.
BackfillEnds == state = "running" ~> state # "running" \/ orphaned
=============================================================================
