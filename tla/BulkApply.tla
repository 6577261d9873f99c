----------------------------- MODULE BulkApply -----------------------------
(***************************************************************************)
(* The review of the proposals of a finished dry run and their application *)
(* to the mailbox: the rows of bulk_proposals and the one row of           *)
(* bulk_apply_jobs, the review and start handlers of routers/bulk.py, and  *)
(* the batches that process_bulk_apply runs.                               *)
(*                                                                         *)
(* A handler first loads the row to authorise the request, and loads it    *)
(* again FOR UPDATE in the same session, which returns the row it already  *)
(* has: reading and committing are two actions.  mark_apply_result and     *)
(* finalize_apply_if_done use a session of their own and see the committed *)
(* rows.                                                                   *)
(***************************************************************************)
EXTENDS Integers, FiniteSets

CONSTANTS
  Proposals,     \* UIDs of the proposals
  Suspicious,    \* proposals with suspicious_content
  Doubtful,      \* proposals classified as review_required
  Tagged,        \* proposals with tags to set
  Moved,         \* proposals with a folder to move to
  BatchSize,     \* batch_size of the apply job
  MaxTries,      \* WORKER_MAX_TRIES
  Slots,         \* batches that the workers run at the same time, at most
  Reviewers,     \* review requests in progress at the same time, at most
  Starters,      \* start requests in progress at the same time, at most
  MaxReviews,    \* bound: review requests
  MaxStarts,     \* bound: start requests
  MaxVersion,    \* bound: versions of a snapshot
  MaxEntries,    \* bound: queue entries alive at the same time
  MaxIncidents,  \* bound: crashes, exceptions and mailbox changes
  Incidents      \* kinds of incident that may happen

ASSUME ProposalsAssumption ==
  /\ Proposals \in SUBSET Nat /\ IsFiniteSet(Proposals)
  /\ Suspicious \subseteq Proposals /\ Doubtful \subseteq Proposals
  /\ Tagged \subseteq Proposals /\ Moved \subseteq Proposals
ASSUME BoundsAssumption ==
  /\ BatchSize \in Nat \ {0} /\ MaxTries \in Nat \ {0}
  /\ MaxReviews \in Nat /\ MaxStarts \in Nat /\ MaxVersion \in Nat
  /\ MaxEntries \in Nat \ {0} /\ MaxIncidents \in Nat
  /\ Incidents \in SUBSET {"crash", "raise", "pause", "redis", "imap",
                           "missing", "uidvalidity", "api_crash"}

VARIABLES
  \* PostgreSQL
  row,          \* bulk_proposals: status, effective and approved snapshot
  approvals,    \* the bulk_proposal_approved events: snapshots approved
  job,          \* bulk_apply_jobs: state, last_error, processed
  \* IMAP
  present,      \* messages still at the UID of their proposal
  renumbered,   \* the folder has another UIDVALIDITY
  applied,      \* snapshots whose actions have reached the message
  \* ARQ and workers
  queue, pc, entry, left, outcome,
  \* API
  review, start, reviews, starts, incidents,
  \* history, read by the properties only
  orphaned      \* since the job got its last entry, what was to drive it ended early

mailbox == <<present, renumbered, applied>>
worker == <<pc, entry, left, outcome>>
api == <<review, start, reviews, starts>>
vars == <<row, approvals, job, mailbox, queue, worker, api, incidents, orphaned>>

Statuses == {"proposed", "excluded", "approved", "applied", "skipped", "failed", "review"}
Results == {"applied", "skipped", "failed", "review"}

\* A snapshot: how often it was edited, and whether a user has confirmed it.
Snapshots == [version : 0..MaxVersion, confirmed : BOOLEAN]

\* A row; approved_snapshot is NULL or one snapshot.
Rows == [status : Statuses, snapshot : Snapshots,
         approved : {{}} \cup {{s} : s \in Snapshots}]

Entries == [id : 1..MaxEntries, try : 1..MaxTries]
NoEntry == [id |-> 1, try |-> 1]
Kinds == {"edit", "exclude", "approve", "safe", "cluster"}
Nobody == [kind |-> "none"]

\* suspicious_content or review_required
Requires(p, s) == p \in Suspicious \/ (p \in Doubtful /\ ~ s.confirmed)

\* What a batch holds of the rows it read, and a request of those it loaded.
Held == UNION {[P -> SUBSET Snapshots] : P \in SUBSET Proposals}
Loaded == UNION {[kind : Kinds, rows : [P -> Rows]] : P \in SUBSET Proposals}

RowsTypeOK ==
  /\ row \in [Proposals -> Rows]
  /\ approvals \in [Proposals -> SUBSET Snapshots]

JobTypeOK ==
  job \in [state : {"none", "running", "paused", "completed"},
           error : {"none", "worker_paused", "apply_enqueue_failed", "apply_error"},
           processed : Nat]

MailTypeOK ==
  /\ present \in SUBSET Proposals
  /\ renumbered \in BOOLEAN
  /\ applied \in [Proposals -> SUBSET Snapshots]

WorkersTypeOK ==
  /\ queue \in SUBSET Entries
  /\ pc \in [Slots -> {"free", "down", "begun", "draining", "applying", "marking"}]
  /\ entry \in [Slots -> Entries]
  /\ left \in [Slots -> Held]
  /\ outcome \in [Slots -> Results]

ApiTypeOK ==
  /\ review \in [Reviewers -> {Nobody} \cup Loaded]
  /\ start \in [Starters -> {"idle", "resuming", "enqueueing", "pausing"}]
  /\ reviews \in 0..MaxReviews /\ starts \in 0..MaxStarts
  /\ incidents \in 0..MaxIncidents
  /\ orphaned \in BOOLEAN

TypeOK == RowsTypeOK /\ JobTypeOK /\ MailTypeOK /\ WorkersTypeOK /\ ApiTypeOK

Empty == [p \in {} |-> {}]

\* The dry run is complete; some proposals were edited or approved before, and the
\* application of approved ones may have been asked for in vain (PauseApply).
Init ==
  /\ row \in [Proposals -> {[status |-> "proposed", snapshot |-> s, approved |-> {}] :
                              s \in Snapshots}
                       \cup {[status |-> "approved", snapshot |-> s, approved |-> {s}] :
                              s \in Snapshots}]
  /\ \A p \in Proposals :
       /\ row[p].status = "approved" => ~ Requires(p, row[p].snapshot)
       /\ row[p].snapshot.confirmed => row[p].status = "approved" /\ p \in Doubtful
  /\ approvals = [p \in Proposals |-> row[p].approved]
  /\ \/ job = [state |-> "none", error |-> "none", processed |-> 0]
     \/ /\ job = [state |-> "paused", error |-> "apply_enqueue_failed", processed |-> 0]
        /\ \E p \in Proposals : row[p].status = "approved"
  /\ present = Proposals /\ renumbered = FALSE
  /\ applied = [p \in Proposals |-> {}]
  /\ queue = {}
  /\ pc = [w \in Slots |-> "free"]
  /\ entry = [w \in Slots |-> NoEntry]
  /\ left = [w \in Slots |-> Empty]
  /\ outcome = [w \in Slots |-> "skipped"]
  /\ review = [h \in Reviewers |-> Nobody]
  /\ start = [c \in Starters |-> "idle"]
  /\ reviews = 0 /\ starts = 0 /\ incidents = 0 /\ orphaned = FALSE

Incident(kind) ==
  /\ kind \in Incidents
  /\ incidents < MaxIncidents
  /\ incidents' = incidents + 1

\* A batch or a request is over and leaves the job running.
Orphan(after) == orphaned' = (orphaned \/ after.state = "running")

Least(S) == CHOOSE p \in S : \A q \in S : p <= q

\* The first n members of a set of UIDs.
FirstOf(n, S) == {p \in S : Cardinality({q \in S : q <= p}) <= n}

-----------------------------------------------------------------------------
(* Review requests. *)

\* The rows a request is about are loaded.  approve-safe is about all of them,
\* edits and approvals of a cluster about those that share category, folder and
\* action.  MaxVersion bounds the edits.
ReadRows(h, kind, P) ==
  /\ review[h] = Nobody
  /\ reviews < MaxReviews /\ reviews' = reviews + 1
  /\ P # {}
  /\ kind \in {"exclude", "approve"} => Cardinality(P) = 1
  /\ kind = "safe" => P = Proposals
  /\ kind = "edit" => \E p \in P : row[p].snapshot.version < MaxVersion
  /\ review' = [review EXCEPT ![h] = [kind |-> kind, rows |-> [p \in P |-> row[p]]]]
  /\ UNCHANGED <<row, approvals, job, mailbox, queue, worker, start, starts, incidents,
                 orphaned>>

\* Rows of a request that pass its checks, as it loaded them.
Proposed(seen) == {p \in DOMAIN seen : seen[p].status = "proposed"}

\* edit_proposal: the new snapshot is made from the loaded one.
Edited(seen, p) ==
  [row[p] EXCEPT !.snapshot = [seen[p].snapshot EXCEPT !.version = @ + 1]]

\* exclude_proposal: a column that was NULL when loaded is not written.
Excluded(seen, p) ==
  [row[p] EXCEPT !.status = "excluded",
                 !.approved = IF seen[p].approved = {} THEN @ ELSE {}]

\* The snapshot that an approval approves: a cluster confirms doubtful ones.
Confirmed(kind, p, s) ==
  IF kind = "cluster" /\ p \in Doubtful THEN [s EXCEPT !.confirmed = TRUE] ELSE s

\* What approve_proposal accepts, of the proposals of the request.
Approvable(kind, seen) ==
  {p \in Proposed(seen) : ~ Requires(p, Confirmed(kind, p, seen[p].snapshot))}

Approve(kind, seen) ==
  LET P == Approvable(kind, seen)
      New(p) == Confirmed(kind, p, seen[p].snapshot)
  IN /\ row' = [p \in Proposals |->
                 IF p \in P
                   THEN [status |-> "approved", approved |-> {New(p)},
                         snapshot |-> IF New(p) = seen[p].snapshot
                                        THEN row[p].snapshot ELSE New(p)]
                   ELSE row[p]]
     /\ approvals' = [p \in Proposals |->
                        IF p \in P THEN approvals[p] \cup {New(p)} ELSE approvals[p]]

\* The request commits, or is refused by what it loaded.
CommitReview(h) ==
  /\ review[h] # Nobody
  /\ LET seen == review[h].rows
         kind == review[h].kind
     IN \/ /\ kind = "edit"
           /\ row' = [p \in Proposals |->
                IF p \in Proposed(seen) /\ seen[p].snapshot.version < MaxVersion
                  THEN Edited(seen, p) ELSE row[p]]
           /\ UNCHANGED approvals
        \/ /\ kind = "exclude"
           /\ row' = [p \in Proposals |->
                IF p \in DOMAIN seen /\ seen[p].status \in {"proposed", "approved"}
                  THEN Excluded(seen, p) ELSE row[p]]
           /\ UNCHANGED approvals
        \/ /\ kind \in {"approve", "safe", "cluster"}
           /\ Approve(kind, seen)
  /\ review' = [review EXCEPT ![h] = Nobody]
  /\ UNCHANGED <<job, mailbox, queue, worker, start, reviews, starts, incidents,
                 orphaned>>

-----------------------------------------------------------------------------
(* Start requests. *)

\* enqueue_job without a fixed id: a new entry.
FreeIds == {k \in 1..MaxEntries :
              /\ \A e \in queue : e.id # k
              /\ \A w \in Slots : pc[w] \in {"free", "down"} \/ entry[w].id # k}

Add(Q) ==
  /\ FreeIds # {}
  /\ queue' = Q \cup {[id |-> Least(FreeIds), try |-> 1]}

\* start_bulk_apply creates the job when something is approved; the constraint
\* on source_job_id refuses a second one.  A job whose entry was refused is
\* resumed, on the row that was loaded; any other one is left alone.
StartApply(c) ==
  /\ start[c] = "idle"
  /\ starts < MaxStarts /\ starts' = starts + 1
  /\ \/ /\ job.state = "none"
        /\ \E p \in Proposals : row[p].status = "approved"
        /\ job' = [job EXCEPT !.state = "running"]
        /\ start' = [start EXCEPT ![c] = "enqueueing"]
     \/ /\ job.state = "paused" /\ job.error = "apply_enqueue_failed"
        /\ start' = [start EXCEPT ![c] = "resuming"]
        /\ UNCHANGED job
  /\ UNCHANGED <<row, approvals, mailbox, queue, worker, review, reviews, incidents,
                 orphaned>>

ResumeApply(c) ==
  /\ start[c] = "resuming"
  /\ job' = [job EXCEPT !.state = "running", !.error = "none"]
  /\ start' = [start EXCEPT ![c] = "enqueueing"]
  /\ UNCHANGED <<row, approvals, mailbox, queue, worker, review, reviews, starts,
                 incidents, orphaned>>

\* _enqueue_apply; when Redis fails, the entry may have been stored all the same.
EnqueueApply(c) ==
  /\ start[c] = "enqueueing"
  /\ \/ /\ Add(queue)
        /\ start' = [start EXCEPT ![c] = "idle"]
        /\ orphaned' = FALSE
        /\ UNCHANGED incidents
     \/ /\ Incident("redis")
        /\ Add(queue) \/ UNCHANGED queue
        /\ start' = [start EXCEPT ![c] = "pausing"]
        /\ UNCHANGED orphaned
  /\ UNCHANGED <<row, approvals, job, mailbox, worker, review, reviews, starts>>

PauseApply(c) ==
  /\ start[c] = "pausing"
  /\ job' = [job EXCEPT !.state = "paused", !.error = "apply_enqueue_failed"]
  /\ start' = [start EXCEPT ![c] = "idle"]
  /\ UNCHANGED <<row, approvals, mailbox, queue, worker, review, reviews, starts,
                 incidents, orphaned>>

\* The API process dies: what the request has committed stays, and the rest of it
\* is never done.
StartDies(c) ==
  /\ start[c] # "idle"
  /\ Incident("api_crash")
  /\ start' = [start EXCEPT ![c] = "idle"]
  /\ IF start[c] = "resuming" THEN UNCHANGED orphaned ELSE Orphan(job)
  /\ UNCHANGED <<row, approvals, job, mailbox, queue, worker, review, reviews, starts>>

-----------------------------------------------------------------------------
(* process_bulk_apply and BulkApplyService.run_batch *)

\* The worker takes an entry; only a running job goes on.
TakeApply(w, e) ==
  /\ pc[w] = "free" /\ e \in queue
  /\ queue' = queue \ {e}
  /\ entry' = [entry EXCEPT ![w] = e]
  /\ pc' = [pc EXCEPT ![w] = IF job.state = "running" THEN "begun" ELSE "free"]
  /\ UNCHANGED <<row, approvals, job, mailbox, left, outcome, api, incidents,
                 orphaned>>

\* WORKER_PAUSED
TakeApplyPaused(w, e) ==
  /\ pc[w] = "free" /\ e \in queue
  /\ Incident("pause")
  /\ queue' = queue \ {e}
  /\ job' = IF job.state = "running"
              THEN [job EXCEPT !.state = "paused", !.error = "worker_paused"] ELSE job
  /\ UNCHANGED <<row, approvals, mailbox, worker, api, orphaned>>

Pending == {p \in Proposals : row[p].status = "approved"}

\* Mutated form of HeldSnapshots: the current snapshot instead of the approved.
EffectiveSnapshots(P) == [p \in P |-> {row[p].snapshot}]

\* What a batch keeps of the rows it has read.
HeldSnapshots(P) == [p \in P |-> row[p].approved]

\* next_apply_batch
ReadBatch(w) ==
  /\ pc[w] = "begun"
  /\ IF job.state = "running"
       THEN /\ left' = [left EXCEPT ![w] = HeldSnapshots(FirstOf(BatchSize, Pending))]
            /\ pc' = [pc EXCEPT ![w] = IF Pending = {} THEN "draining" ELSE "applying"]
       ELSE /\ pc' = [pc EXCEPT ![w] = "free"]
            /\ UNCHANGED left
  /\ UNCHANGED <<row, approvals, job, mailbox, queue, entry, outcome, api, incidents,
                 orphaned>>

\* The mailbox actions for the next proposal: tags, the keyword, the move.  A
\* failure on the way may leave part of them behind.
ApplyNext(w) ==
  /\ pc[w] = "applying" /\ DOMAIN left[w] # {}
  /\ LET p == Least(DOMAIN left[w])
         Reach(r) == outcome' = [outcome EXCEPT ![w] = r]
         Unready == \A s \in left[w][p] : Requires(p, s)
     IN \/ /\ Unready \/ renumbered
           /\ Reach("review")
           /\ UNCHANGED <<present, applied, incidents>>
        \/ /\ ~ Unready /\ ~ renumbered
           /\ p \notin present \/ p \notin Tagged \cup Moved
           /\ Reach("skipped")
           /\ UNCHANGED <<present, applied, incidents>>
        \/ /\ ~ Unready /\ ~ renumbered
           /\ p \in present /\ p \in Tagged \cup Moved
           /\ Reach("applied")
           /\ applied' = [applied EXCEPT ![p] = @ \cup left[w][p]]
           /\ present' = IF p \in Moved THEN present \ {p} ELSE present
           /\ UNCHANGED incidents
        \/ /\ ~ Unready
           /\ Incident("imap")
           /\ Reach("failed")
           /\ \/ UNCHANGED <<present, applied>>
              \/ /\ p \in present /\ p \in Tagged \cup Moved /\ ~ renumbered
                 /\ applied' = [applied EXCEPT ![p] = @ \cup left[w][p]]
                 /\ \/ UNCHANGED present
                    \/ p \in Moved /\ present' = present \ {p}
  /\ pc' = [pc EXCEPT ![w] = "marking"]
  /\ UNCHANGED <<row, approvals, job, renumbered, queue, entry, left, api, orphaned>>

\* Mutated form of Counted: only proposals that are still approved count.
CountedIfApproved(p) ==
  IF row[p].status = "approved" THEN job.processed + 1 ELSE job.processed

\* The counter of the locked job row.
Counted(p) == job.processed + 1

\* mark_apply_result, whatever the status has become meanwhile; the error of a
\* proposal replaces that of the job.
MarkResult(w) ==
  /\ pc[w] = "marking"
  /\ LET p == Least(DOMAIN left[w])
     IN /\ row' = [row EXCEPT ![p].status = outcome[w]]
        /\ job' = [job EXCEPT !.processed = Counted(p),
                              !.error = IF outcome[w] \in {"failed", "review"}
                                          THEN "apply_error" ELSE @]
        /\ left' = [left EXCEPT ![w] = [q \in DOMAIN left[w] \ {p} |-> left[w][q]]]
  /\ outcome' = [outcome EXCEPT ![w] = "skipped"]
  /\ pc' = [pc EXCEPT ![w] = "applying"]
  /\ UNCHANGED <<approvals, mailbox, queue, entry, api, incidents, orphaned>>

\* finalize_apply_if_done
Finalized == [job EXCEPT !.state =
                IF Pending = {} /\ job.state = "running" THEN "completed" ELSE @]

\* A batch that found nothing finalizes, and asks for no other: what was approved
\* meanwhile stays.
Drain(w) ==
  /\ pc[w] = "draining"
  /\ job' = Finalized
  /\ Orphan(Finalized)
  /\ pc' = [pc EXCEPT ![w] = "free"]
  /\ UNCHANGED <<row, approvals, mailbox, queue, entry, left, outcome, api, incidents>>

\* Mutated form of EndBatch: no other batch is asked for.
EndBatchOnly(w) ==
  /\ pc[w] = "applying" /\ DOMAIN left[w] = {}
  /\ job' = Finalized
  /\ pc' = [pc EXCEPT ![w] = "free"]
  /\ UNCHANGED <<row, approvals, mailbox, queue, entry, left, outcome, api, incidents,
                 orphaned>>

\* The batch is over: the job is finalized, or the next batch is enqueued.
EndBatch(w) ==
  /\ pc[w] = "applying" /\ DOMAIN left[w] = {}
  /\ job' = Finalized
  /\ IF Finalized.state = "running" THEN Add(queue) /\ orphaned' = FALSE
                                     ELSE UNCHANGED <<queue, orphaned>>
  /\ pc' = [pc EXCEPT ![w] = "free"]
  /\ UNCHANGED <<row, approvals, mailbox, entry, left, outcome, api, incidents>>

Busy(w) == pc[w] \notin {"free", "down"}

\* Connecting, the token, the database or Redis fail, or job_timeout passes:
\* the function raises and ARQ does not run it again.
RaiseApply(w) ==
  /\ Busy(w)
  /\ Incident("raise")
  /\ pc' = [pc EXCEPT ![w] = "free"]
  /\ left' = [left EXCEPT ![w] = Empty]
  /\ Orphan(job)
  /\ UNCHANGED <<row, approvals, job, mailbox, queue, entry, outcome, api>>

\* An entry whose worker went down is run again, up to max_tries times.
Repeated(e) == IF e.try < MaxTries THEN {[e EXCEPT !.try = @ + 1]} ELSE {}

\* The process dies, before or after the mailbox was changed.
CrashApply(w) ==
  /\ Busy(w)
  /\ Incident("crash")
  /\ pc' = [pc EXCEPT ![w] = "down"]
  /\ left' = [left EXCEPT ![w] = Empty]
  /\ queue' = queue \cup Repeated(entry[w])
  /\ IF Repeated(entry[w]) = {} THEN Orphan(job) ELSE UNCHANGED orphaned
  /\ UNCHANGED <<row, approvals, job, mailbox, entry, outcome, api>>

\* on_startup has nothing to do for apply jobs.
StartupApply(w) ==
  /\ pc[w] = "down"
  /\ pc' = [pc EXCEPT ![w] = "free"]
  /\ UNCHANGED <<row, approvals, job, mailbox, queue, entry, left, outcome, api,
                 incidents, orphaned>>

\* The user or another client moves a message; the server renumbers the folder.
Vanish(p) ==
  /\ p \in present
  /\ Incident("missing")
  /\ present' = present \ {p}
  /\ UNCHANGED <<row, approvals, job, renumbered, applied, queue, worker, api, orphaned>>

Renumber ==
  /\ ~ renumbered
  /\ Incident("uidvalidity")
  /\ renumbered' = TRUE
  /\ UNCHANGED <<row, approvals, job, present, applied, queue, worker, api, orphaned>>

-----------------------------------------------------------------------------
WorkerStep(w) ==
  \/ \E e \in queue : TakeApply(w, e)
  \/ ReadBatch(w) \/ ApplyNext(w) \/ MarkResult(w) \/ Drain(w) \/ EndBatch(w)

StartStep(c) == ResumeApply(c) \/ EnqueueApply(c) \/ PauseApply(c)

Next ==
  \/ \E h \in Reviewers :
       \/ \E kind \in Kinds, P \in SUBSET Proposals : ReadRows(h, kind, P)
       \/ CommitReview(h)
  \/ \E c \in Starters : StartApply(c) \/ StartStep(c) \/ StartDies(c)
  \/ \E w \in Slots :
       \/ WorkerStep(w) \/ RaiseApply(w) \/ CrashApply(w) \/ StartupApply(w)
       \/ \E e \in queue : TakeApplyPaused(w, e)
  \/ \E p \in Proposals : Vanish(p)
  \/ Renumber

\* Workers and request handlers run to their next step, and a worker that went
\* down is started again; users and incidents are free to do nothing.
Fairness ==
  /\ \A w \in Slots : WF_vars(WorkerStep(w)) /\ WF_vars(StartupApply(w))
  /\ \A c \in Starters : WF_vars(StartStep(c))
  /\ \A h \in Reviewers : WF_vars(CommitReview(h))

Spec == Init /\ [][Next]_vars
FairSpec == Spec /\ Fairness

-----------------------------------------------------------------------------
(* Properties. *)

\* The mailbox only sees snapshots that a user has approved, although rows are
\* edited, excluded and approved again while a batch holds them ("Apply one small
\* batch from approved immutable proposal snapshots").
AppliedWasApproved == \A p \in Proposals : applied[p] \subseteq approvals[p]

\* An approved proposal has a snapshot that is neither suspicious nor waiting for
\* a review, whichever columns concurrent requests have written.
ApprovedIsReady ==
  \A p \in Proposals : row[p].status = "approved" =>
    /\ row[p].approved # {}
    /\ \A s \in row[p].approved : ~ Requires(p, s)

\* Every proposal that has a result was counted, also when batches overlap.
NothingUncounted ==
  Cardinality({p \in Proposals : row[p].status \in Results}) <= job.processed

\* "Apply one approved snapshot batch and requeue until complete": a running job has
\* an entry, a batch or a request that will ask for the next batch, or pause it.  The
\* only ways to lose all of them are a batch that raises or dies on its last try, a
\* request whose API process dies between its commit and the entry, and an approval
\* that comes after a batch has found none; an entry added later makes good for it.
RunningIsQueued ==
  job.state = "running" =>
    \/ queue # {}
    \/ \E w \in Slots : Busy(w)
    \/ \E c \in Starters : start[c] \in {"enqueueing", "pausing"}
    \/ orphaned

\* A running apply job does not run for ever: it completes or is paused, unless what
\* was to drive it ended early (see RunningIsQueued).
ApplyEnds == job.state = "running" ~> job.state # "running" \/ orphaned
=============================================================================
