-------------------------- MODULE BulkApplyProofs --------------------------
(***************************************************************************)
(* Proofs about the review and application of proposals, for any number of *)
(* proposals, batches, review requests and start requests.                 *)
(***************************************************************************)
EXTENDS BulkApply, FiniteSetTheorems, WellFoundedInduction, TLAPS

USE ProposalsAssumption, BoundsAssumption

\* A worker about to write a result has a proposal to write it for.
HasProposal == \A w \in Slots : pc[w] = "marking" => DOMAIN left[w] # {}

TypeInv == TypeOK /\ HasProposal

-----------------------------------------------------------------------------
(* Lemmas about the operators of the model. *)

\* A set of numbers that is not empty has a least element.
LEMMA LeastIsMember ==
  ASSUME NEW S \in SUBSET Nat, S # {}
  PROVE  Least(S) \in S
<1>1. PICK p \in S : \A q \in S : ~ (<<q, p>> \in OpToRel(<, Nat))
  BY NatLessThanWellFounded, WFMin
<1>2. \A q \in S : p <= q
  <2> SUFFICES ASSUME NEW q \in S PROVE p <= q
    OBVIOUS
  <2>1. <<q, p>> \in Nat \X Nat
    OBVIOUS
  <2>2. ~ (q < p)
    BY <1>1, <2>1 DEF OpToRel
  <2> QED
    BY <2>2
<1> QED
  BY <1>2 DEF Least

\* What a batch may hold, and what it holds.
LEMMA HeldIntro ==
  ASSUME NEW P \in SUBSET Proposals, NEW f \in [P -> SUBSET Snapshots]
  PROVE  f \in Held
BY DEF Held

LEMMA HeldElim ==
  ASSUME NEW f \in Held
  PROVE  /\ DOMAIN f \in SUBSET Proposals
         /\ f \in [DOMAIN f -> SUBSET Snapshots]
BY DEF Held

LEMMA EmptyIsHeld == Empty \in Held
<1>1. Empty \in [{} -> SUBSET Snapshots]
  BY DEF Empty
<1> QED
  BY <1>1, HeldIntro

\* What a review request holds.
LEMMA LoadedElim ==
  ASSUME NEW q \in Loaded
  PROVE  /\ q.kind \in Kinds
         /\ DOMAIN q.rows \in SUBSET Proposals
         /\ \A p \in DOMAIN q.rows : q.rows[p] \in Rows
<1>1. PICK P \in SUBSET Proposals : q \in [kind : Kinds, rows : [P -> Rows]]
  BY DEF Loaded
<1>2. q.kind \in Kinds /\ q.rows \in [P -> Rows]
  BY <1>1
<1> QED
  BY <1>2

\* The next proposal of a batch.
LEMMA NextOfBatch ==
  ASSUME NEW f \in Held, DOMAIN f # {}
  PROVE  /\ Least(DOMAIN f) \in DOMAIN f
         /\ Least(DOMAIN f) \in Proposals
         /\ f[Least(DOMAIN f)] \in SUBSET Snapshots
<1>1. DOMAIN f \in SUBSET Nat
  BY HeldElim
<1> QED
  BY <1>1, LeastIsMember, HeldElim

\* A new entry of the queue.
LEMMA TypeOfAdd ==
  ASSUME queue \in SUBSET Entries, NEW Q \in SUBSET queue, Add(Q)
  PROVE  queue' \in SUBSET Entries
<1>1. FreeIds \in SUBSET Nat /\ FreeIds # {}
  BY DEF Add, FreeIds
<1>2. Least(FreeIds) \in 1..MaxEntries
  BY <1>1, LeastIsMember DEF FreeIds
<1>3. [id |-> Least(FreeIds), try |-> 1] \in Entries
  BY <1>2 DEF Entries
<1> QED
  BY <1>3 DEF Add

\* The entry of a worker that went down.
LEMMA TypeOfRepeated ==
  ASSUME NEW e \in Entries
  PROVE  Repeated(e) \in SUBSET Entries
BY DEF Repeated, Entries

\* approved_snapshot as a set of snapshots.
LEMMA ApprovedIsSet ==
  ASSUME NEW r \in Rows
  PROVE  r.approved \in SUBSET Snapshots
<1>1. r.approved \in {{}} \cup {{s} : s \in Snapshots}
  BY DEF Rows
<1> QED
  BY <1>1

\* The snapshot an approval approves.
LEMMA TypeOfConfirmed ==
  ASSUME NEW kind, NEW p \in Proposals, NEW s \in Snapshots
  PROVE  Confirmed(kind, p, s) \in Snapshots
BY DEF Confirmed, Snapshots

-----------------------------------------------------------------------------
(* Types. *)

LEMMA TypeOfInit == Init => TypeInv
<1> SUFFICES ASSUME Init PROVE TypeInv
  OBVIOUS
<1>1. RowsTypeOK
  BY DEF Init, RowsTypeOK, Rows, Statuses
<1>2. Empty \in Held
  BY EmptyIsHeld
<1>3. NoEntry \in Entries
  BY DEF NoEntry, Entries
<1>4. JobTypeOK /\ MailTypeOK
  <2>1. job \in {[state |-> "none", error |-> "none", processed |-> 0],
                 [state |-> "paused", error |-> "apply_enqueue_failed", processed |-> 0]}
    BY DEF Init
  <2>2. JobTypeOK
    BY <2>1 DEF JobTypeOK
  <2>3. MailTypeOK
    BY DEF Init, MailTypeOK
  <2> QED
    BY <2>2, <2>3
<1>6. ApiTypeOK
  <2>1. orphaned \in BOOLEAN
    BY Zenon DEF Init
  <2>2. /\ review \in [Reviewers -> {Nobody}] /\ start \in [Starters -> {"idle"}]
        /\ reviews = 0 /\ starts = 0 /\ incidents = 0
    BY DEF Init
  <2> QED
    BY <2>1, <2>2 DEF ApiTypeOK
<1>5. WorkersTypeOK /\ HasProposal
  BY <1>2, <1>3 DEF Init, WorkersTypeOK, HasProposal, Results
<1> QED
  BY <1>1, <1>4, <1>5, <1>6 DEF TypeInv, TypeOK

LEMMA TypeOfReview ==
  ASSUME TypeInv, NEW h \in Reviewers,
         CommitReview(h) \/ \E kind \in Kinds, P \in SUBSET Proposals : ReadRows(h, kind, P)
  PROVE  TypeInv'
<1>0. RowsTypeOK /\ JobTypeOK /\ MailTypeOK /\ WorkersTypeOK /\ ApiTypeOK /\ HasProposal
  BY DEF TypeInv, TypeOK
<1>1. ASSUME NEW kind \in Kinds, NEW P \in SUBSET Proposals, ReadRows(h, kind, P)
      PROVE  TypeInv'
  <2>1. [p \in P |-> row[p]] \in [P -> Rows]
    BY <1>0 DEF RowsTypeOK
  <2>2. [kind |-> kind, rows |-> [p \in P |-> row[p]]] \in Loaded
    BY <2>1 DEF Loaded
  <2>3. ApiTypeOK'
    BY <1>0, <1>1, <2>2 DEF ReadRows, ApiTypeOK
  <2>4. RowsTypeOK' /\ JobTypeOK' /\ MailTypeOK' /\ WorkersTypeOK' /\ HasProposal'
    BY <1>0, <1>1 DEF ReadRows, RowsTypeOK, JobTypeOK, MailTypeOK, WorkersTypeOK,
       HasProposal, mailbox, worker
  <2> QED
    BY <2>3, <2>4 DEF TypeInv, TypeOK
<1>2. CASE CommitReview(h)
  <2> DEFINE seen == review[h].rows
             kind == review[h].kind
  <2>1. review[h] \in Loaded
    BY <1>0, <1>2 DEF CommitReview, ApiTypeOK
  <2>2. /\ kind \in Kinds /\ DOMAIN seen \in SUBSET Proposals
        /\ \A p \in DOMAIN seen : seen[p] \in Rows
    BY <2>1, LoadedElim
  <2>3. RowsTypeOK'
    <3>1. CASE /\ row' = [p \in Proposals |->
                   IF p \in Proposed(seen) /\ seen[p].snapshot.version < MaxVersion
                     THEN Edited(seen, p) ELSE row[p]]
               /\ UNCHANGED approvals
      <4>1. ASSUME NEW p \in Proposed(seen), seen[p].snapshot.version < MaxVersion
            PROVE  Edited(seen, p) \in Rows
        <5>1. seen[p] \in Rows /\ row[p] \in Rows
          BY <1>0, <2>2 DEF Proposed, RowsTypeOK
        <5>2. [seen[p].snapshot EXCEPT !.version = @ + 1] \in Snapshots
          BY <4>1, <5>1 DEF Rows, Snapshots
        <5> QED
          BY <5>1, <5>2 DEF Edited, Rows
      <4> QED
        BY <1>0, <3>1, <4>1 DEF RowsTypeOK
    <3>2. CASE /\ row' = [p \in Proposals |->
                   IF p \in DOMAIN seen /\ seen[p].status \in {"proposed", "approved"}
                     THEN Excluded(seen, p) ELSE row[p]]
               /\ UNCHANGED approvals
      <4>1. ASSUME NEW p \in Proposals PROVE Excluded(seen, p) \in Rows
        BY <1>0 DEF Excluded, Rows, Statuses, RowsTypeOK
      <4> QED
        BY <1>0, <3>2, <4>1 DEF RowsTypeOK
    <3>3. CASE Approve(kind, seen)
      <4>1. ASSUME NEW p \in Approvable(kind, seen)
            PROVE  /\ p \in Proposals
                   /\ Confirmed(kind, p, seen[p].snapshot) \in Snapshots
        <5>1. p \in Proposals /\ seen[p].snapshot \in Snapshots
          BY <2>2 DEF Approvable, Proposed, Rows
        <5> QED
          BY <5>1, TypeOfConfirmed
      <4>2. row' \in [Proposals -> Rows]
        BY <1>0, <3>3, <4>1 DEF Approve, RowsTypeOK, Rows, Statuses
      <4>3. approvals' \in [Proposals -> SUBSET Snapshots]
        BY <1>0, <3>3, <4>1 DEF Approve, RowsTypeOK
      <4> QED
        BY <4>2, <4>3 DEF RowsTypeOK
    <3> QED
      BY <1>2, <3>1, <3>2, <3>3 DEF CommitReview
  <2>4. ApiTypeOK'
    BY <1>0, <1>2 DEF CommitReview, ApiTypeOK
  <2>5. JobTypeOK' /\ MailTypeOK' /\ WorkersTypeOK' /\ HasProposal'
    BY <1>0, <1>2 DEF CommitReview, JobTypeOK, MailTypeOK, WorkersTypeOK,
       HasProposal, mailbox, worker
  <2> QED
    BY <2>3, <2>4, <2>5 DEF TypeInv, TypeOK
<1> QED
  BY <1>1, <1>2

LEMMA TypeOfStart ==
  ASSUME TypeInv, NEW c \in Starters, StartApply(c) \/ StartStep(c) \/ StartDies(c)
  PROVE  TypeInv'
<1>0. RowsTypeOK /\ JobTypeOK /\ MailTypeOK /\ WorkersTypeOK /\ ApiTypeOK /\ HasProposal
  BY DEF TypeInv, TypeOK
<1>1. RowsTypeOK' /\ MailTypeOK'
  BY <1>0 DEF StartApply, StartStep, ResumeApply, EnqueueApply, PauseApply, StartDies,
     RowsTypeOK, MailTypeOK, mailbox
<1>2. JobTypeOK'
  BY <1>0 DEF StartApply, StartStep, ResumeApply, EnqueueApply, PauseApply, StartDies, JobTypeOK
<1>3. ApiTypeOK'
  <2>1. orphaned' \in BOOLEAN
    BY <1>0, Zenon DEF StartApply, StartStep, ResumeApply, EnqueueApply, PauseApply,
       StartDies, ApiTypeOK, Orphan
  <2>2. UNCHANGED <<review, reviews>>
    BY DEF StartApply, StartStep, ResumeApply, EnqueueApply, PauseApply, StartDies
  <2>3. start' \in [Starters -> {"idle", "resuming", "enqueueing", "pausing"}]
    BY <1>0 DEF StartApply, StartStep, ResumeApply, EnqueueApply, PauseApply, StartDies,
       ApiTypeOK
  <2>4. starts' \in 0..MaxStarts /\ incidents' \in 0..MaxIncidents
    BY <1>0 DEF StartApply, StartStep, ResumeApply, EnqueueApply, PauseApply, StartDies,
       ApiTypeOK, Incident
  <2> QED
    BY <1>0, <2>1, <2>2, <2>3, <2>4 DEF ApiTypeOK
<1>4. queue' \in SUBSET Entries
  BY <1>0, TypeOfAdd DEF StartApply, StartStep, ResumeApply, EnqueueApply, PauseApply, StartDies,
     WorkersTypeOK
<1>5. UNCHANGED worker
  BY DEF StartApply, StartStep, ResumeApply, EnqueueApply, PauseApply,
     StartDies
<1>6. WorkersTypeOK' /\ HasProposal'
  BY <1>0, <1>4, <1>5 DEF worker, WorkersTypeOK, HasProposal
<1> QED
  BY <1>1, <1>2, <1>3, <1>6 DEF TypeInv, TypeOK

LEMMA TypeOfBatch ==
  ASSUME TypeInv, NEW w \in Slots, WorkerStep(w)
  PROVE  TypeInv'
<1>0. RowsTypeOK /\ JobTypeOK /\ MailTypeOK /\ WorkersTypeOK /\ ApiTypeOK /\ HasProposal
  BY DEF TypeInv, TypeOK
<1>1. CASE \E e \in queue : TakeApply(w, e)
  <2>1. RowsTypeOK' /\ JobTypeOK' /\ MailTypeOK' /\ ApiTypeOK'
    BY <1>0, <1>1 DEF TakeApply, RowsTypeOK, JobTypeOK, MailTypeOK, ApiTypeOK, mailbox, api
  <2>2. WorkersTypeOK' /\ HasProposal'
    BY <1>0, <1>1 DEF TakeApply, WorkersTypeOK, HasProposal
  <2> QED
    BY <2>1, <2>2 DEF TypeInv, TypeOK
<1>2. CASE ReadBatch(w)
  <2>1. RowsTypeOK' /\ JobTypeOK' /\ MailTypeOK' /\ ApiTypeOK'
    BY <1>0, <1>2 DEF ReadBatch, RowsTypeOK, JobTypeOK, MailTypeOK, ApiTypeOK, mailbox, api
  <2>2. HeldSnapshots(FirstOf(BatchSize, Pending)) \in Held
    <3>1. FirstOf(BatchSize, Pending) \in SUBSET Proposals
      BY DEF FirstOf, Pending
    <3>2. HeldSnapshots(FirstOf(BatchSize, Pending))
            \in [FirstOf(BatchSize, Pending) -> SUBSET Snapshots]
      BY <1>0, <3>1, ApprovedIsSet DEF HeldSnapshots, RowsTypeOK
    <3> QED
      BY <3>1, <3>2, HeldIntro
  <2>3. WorkersTypeOK' /\ HasProposal'
    BY <1>0, <1>2, <2>2 DEF ReadBatch, WorkersTypeOK, HasProposal
  <2> QED
    BY <2>1, <2>3 DEF TypeInv, TypeOK
<1>3. CASE ApplyNext(w)
  <2>0. /\ Least(DOMAIN left[w]) \in Proposals
        /\ left[w][Least(DOMAIN left[w])] \in SUBSET Snapshots
    BY <1>0, <1>3, NextOfBatch DEF ApplyNext, WorkersTypeOK
  <2>1. RowsTypeOK' /\ JobTypeOK'
    BY <1>0, <1>3 DEF ApplyNext, RowsTypeOK, JobTypeOK
  <2>2. ApiTypeOK'
    BY <1>0, <1>3 DEF ApplyNext, Incident, ApiTypeOK, api
  <2>3. MailTypeOK'
    BY <1>0, <1>3, <2>0 DEF ApplyNext, MailTypeOK
  <2>4. WorkersTypeOK' /\ HasProposal'
    BY <1>0, <1>3 DEF ApplyNext, WorkersTypeOK, Results, HasProposal
  <2> QED
    BY <2>1, <2>2, <2>3, <2>4 DEF TypeInv, TypeOK
<1>4. CASE MarkResult(w)
  <2> DEFINE p == Least(DOMAIN left[w])
             rest == [q \in DOMAIN left[w] \ {p} |-> left[w][q]]
  <2>0. p \in Proposals
    BY <1>0, <1>4, NextOfBatch DEF MarkResult, WorkersTypeOK, HasProposal
  <2>1. RowsTypeOK'
    <3>1. row[p] \in Rows /\ outcome[w] \in Statuses
      BY <1>0, <2>0 DEF RowsTypeOK, WorkersTypeOK, Results, Statuses
    <3>2. [row[p] EXCEPT !.status = outcome[w]] \in Rows
      BY <3>1 DEF Rows
    <3>3. row' = [row EXCEPT ![p] = [row[p] EXCEPT !.status = outcome[w]]]
      BY <1>4 DEF MarkResult
    <3>4. UNCHANGED approvals
      BY <1>4 DEF MarkResult
    <3> QED
      BY <1>0, <3>2, <3>3, <3>4 DEF RowsTypeOK
  <2>2. JobTypeOK'
    <3>1. Counted(p) \in Nat
      BY <1>0 DEF Counted, JobTypeOK
    <3>2. PICK e \in {"apply_error", job.error} :
            job' = [job EXCEPT !.processed = Counted(p), !.error = e]
      BY <1>4 DEF MarkResult
    <3> QED
      BY <1>0, <3>1, <3>2 DEF JobTypeOK
  <2>3. MailTypeOK' /\ ApiTypeOK'
    BY <1>0, <1>4 DEF MarkResult, MailTypeOK, ApiTypeOK, mailbox, api
  <2>4. rest \in Held
    <3>1. left[w] \in Held
      BY <1>0 DEF WorkersTypeOK
    <3>2. /\ DOMAIN left[w] \ {p} \in SUBSET Proposals
          /\ rest \in [DOMAIN left[w] \ {p} -> SUBSET Snapshots]
      BY <3>1, HeldElim
    <3> QED
      BY <3>2, HeldIntro
  <2>5. WorkersTypeOK' /\ HasProposal'
    BY <1>0, <1>4, <2>4 DEF MarkResult, WorkersTypeOK, Results, HasProposal
  <2> QED
    BY <2>1, <2>2, <2>3, <2>5 DEF TypeInv, TypeOK
<1>5. CASE Drain(w) \/ EndBatch(w)
  <2>1. RowsTypeOK' /\ MailTypeOK' /\ ApiTypeOK'
    BY <1>0, <1>5 DEF Drain, EndBatch, Orphan, RowsTypeOK, MailTypeOK, ApiTypeOK,
       mailbox, api
  <2>2. JobTypeOK'
    BY <1>0, <1>5 DEF Drain, EndBatch, Finalized, JobTypeOK
  <2>3. queue' \in SUBSET Entries
    BY <1>0, <1>5, TypeOfAdd DEF Drain, EndBatch, WorkersTypeOK
  <2>4. WorkersTypeOK' /\ HasProposal'
    BY <1>0, <1>5, <2>3 DEF Drain, EndBatch, WorkersTypeOK, HasProposal
  <2> QED
    BY <2>1, <2>2, <2>4 DEF TypeInv, TypeOK
<1> QED
  BY <1>1, <1>2, <1>3, <1>4, <1>5 DEF WorkerStep

LEMMA TypeOfTrouble ==
  ASSUME TypeInv, NEW w \in Slots,
         \/ RaiseApply(w) \/ CrashApply(w) \/ StartupApply(w)
         \/ \E e \in queue : TakeApplyPaused(w, e)
  PROVE  TypeInv'
<1>0. RowsTypeOK /\ JobTypeOK /\ MailTypeOK /\ WorkersTypeOK /\ ApiTypeOK /\ HasProposal
  BY DEF TypeInv, TypeOK
<1>1. RowsTypeOK' /\ MailTypeOK'
  BY <1>0 DEF RaiseApply, CrashApply, StartupApply, TakeApplyPaused, RowsTypeOK,
     MailTypeOK, mailbox
<1>2. JobTypeOK'
  BY <1>0 DEF RaiseApply, CrashApply, StartupApply, TakeApplyPaused, JobTypeOK
<1>3. ApiTypeOK'
  <2>1. orphaned' \in BOOLEAN
    BY <1>0, Zenon DEF RaiseApply, CrashApply, StartupApply, TakeApplyPaused, ApiTypeOK,
       Orphan
  <2>2. UNCHANGED api
    BY DEF RaiseApply, CrashApply, StartupApply, TakeApplyPaused
  <2>3. incidents' \in 0..MaxIncidents
    BY <1>0 DEF RaiseApply, CrashApply, StartupApply, TakeApplyPaused, ApiTypeOK, Incident
  <2> QED
    BY <1>0, <2>1, <2>2, <2>3 DEF ApiTypeOK, api
<1>4. queue' \in SUBSET Entries
  BY <1>0, TypeOfRepeated DEF RaiseApply, CrashApply, StartupApply, TakeApplyPaused,
     WorkersTypeOK
<1>5. WorkersTypeOK' /\ HasProposal'
  BY <1>0, <1>4, EmptyIsHeld DEF RaiseApply, CrashApply, StartupApply, TakeApplyPaused,
     WorkersTypeOK, worker, HasProposal
<1> QED
  BY <1>1, <1>2, <1>3, <1>5 DEF TypeInv, TypeOK

LEMMA TypeOfMailbox ==
  ASSUME TypeInv, Renumber \/ \E p \in Proposals : Vanish(p)
  PROVE  TypeInv'
<1>0. RowsTypeOK /\ JobTypeOK /\ MailTypeOK /\ WorkersTypeOK /\ ApiTypeOK /\ HasProposal
  BY DEF TypeInv, TypeOK
<1>1. RowsTypeOK' /\ JobTypeOK' /\ MailTypeOK'
  BY <1>0 DEF Renumber, Vanish, RowsTypeOK, JobTypeOK, MailTypeOK
<1>2. WorkersTypeOK' /\ HasProposal'
  BY <1>0 DEF Renumber, Vanish, WorkersTypeOK, HasProposal, worker
<1>3. ApiTypeOK'
  BY <1>0 DEF Renumber, Vanish, ApiTypeOK, api, Incident
<1> QED
  BY <1>1, <1>2, <1>3 DEF TypeInv, TypeOK

LEMMA TypeOfStep == TypeInv /\ [Next]_vars => TypeInv'
<1> SUFFICES ASSUME TypeInv, [Next]_vars PROVE TypeInv'
  OBVIOUS
<1>1. CASE UNCHANGED vars
  BY <1>1 DEF vars, mailbox, worker, api, TypeInv, TypeOK, RowsTypeOK, JobTypeOK,
     MailTypeOK, WorkersTypeOK, ApiTypeOK, HasProposal
<1> QED
  BY <1>1, TypeOfReview, TypeOfStart, TypeOfBatch, TypeOfTrouble, TypeOfMailbox DEF Next

LEMMA TypesHold == Spec => []TypeInv
BY TypeOfInit, TypeOfStep, PTL DEF Spec

\* Every variable keeps its type: in particular a proposal has at most one approved
\* snapshot, and an entry is never tried more than MaxTries times.
THEOREM TypeCorrect == Spec => []TypeOK
<1>1. TypeInv => TypeOK
  BY DEF TypeInv
<1> QED
  BY <1>1, TypesHold, PTL

-----------------------------------------------------------------------------
(* What the mailbox sees, what an approval is, and what is counted. *)

\* The steps that write rows, or what a batch holds of them.
Writes ==
  \/ \E h \in Reviewers : CommitReview(h)
  \/ \E w \in Slots :
       \/ ReadBatch(w) \/ ApplyNext(w) \/ MarkResult(w)
       \/ RaiseApply(w) \/ CrashApply(w)

\* All the others leave rows, batches and the counter alone.
LEMMA OthersWriteNothing ==
  ASSUME TypeInv, [Next]_vars, ~ Writes
  PROVE  /\ UNCHANGED <<row, approvals, applied, left>>
         /\ job'.processed = job.processed
<1>1. job \in [state : {"none", "running", "paused", "completed"},
               error : {"none", "worker_paused", "apply_enqueue_failed", "apply_error"},
               processed : Nat]
  BY DEF TypeInv, TypeOK, JobTypeOK
<1>2. CASE \E h \in Reviewers, kind \in Kinds, P \in SUBSET Proposals : ReadRows(h, kind, P)
  BY <1>2 DEF ReadRows, mailbox, worker
<1>3. CASE \E c \in Starters : StartApply(c) \/ StartStep(c) \/ StartDies(c)
  BY <1>1, <1>3 DEF StartApply, StartStep, ResumeApply, EnqueueApply, PauseApply,
     StartDies, mailbox, worker
<1>4. CASE \E w \in Slots :
             \/ StartupApply(w) \/ Drain(w) \/ EndBatch(w)
             \/ \E e \in queue : TakeApply(w, e) \/ TakeApplyPaused(w, e)
  BY <1>1, <1>4 DEF StartupApply, Drain, EndBatch, TakeApply, TakeApplyPaused, Finalized,
     mailbox, worker
<1>5. CASE Renumber \/ \E p \in Proposals : Vanish(p)
  BY <1>5 DEF Renumber, Vanish, worker
<1>6. CASE UNCHANGED vars
  BY <1>6 DEF vars, mailbox, worker
<1> QED
  BY <1>2, <1>3, <1>4, <1>5, <1>6 DEF Next, Writes, WorkerStep

\* Every snapshot on its way from an approval to the mailbox was approved.
ApprovalInv ==
  /\ \A p \in Proposals : row[p].approved \subseteq approvals[p]
  /\ \A w \in Slots : \A p \in DOMAIN left[w] : left[w][p] \subseteq approvals[p]
  /\ AppliedWasApproved

\* What a commit does to one row: either it approves the snapshot it writes, or
\* it approves nothing.
LEMMA CommitApproves ==
  ASSUME TypeInv, NEW h \in Reviewers, CommitReview(h), NEW p \in Proposals
  PROVE  \/ /\ row'[p].approved \subseteq row[p].approved
            /\ approvals'[p] = approvals[p]
            /\ row'[p].status = "approved" =>
                 row[p].status = "approved" /\ row'[p].approved = row[p].approved
            /\ row'[p].status \in Results => row[p].status \in Results
         \/ /\ row'[p].status = "approved"
            /\ \E s \in Snapshots : /\ row'[p].approved = {s}
                                    /\ ~ Requires(p, s)
                                    /\ approvals'[p] = approvals[p] \cup {s}
<1> DEFINE seen == review[h].rows
           kind == review[h].kind
<1>0. RowsTypeOK
  BY DEF TypeInv, TypeOK
<1>1. review[h] \in Loaded
  BY DEF CommitReview, TypeInv, TypeOK, ApiTypeOK
<1>2. \A q \in DOMAIN seen : seen[q] \in Rows
  BY <1>1, LoadedElim
<1>3. row[p] \in Rows
  BY <1>0 DEF RowsTypeOK
<1>4. CASE /\ row' = [q \in Proposals |->
                IF q \in Proposed(seen) /\ seen[q].snapshot.version < MaxVersion
                  THEN Edited(seen, q) ELSE row[q]]
           /\ UNCHANGED approvals
  BY <1>3, <1>4 DEF Edited, Rows
<1>5. CASE /\ row' = [q \in Proposals |->
                IF q \in DOMAIN seen /\ seen[q].status \in {"proposed", "approved"}
                  THEN Excluded(seen, q) ELSE row[q]]
           /\ UNCHANGED approvals
  BY <1>3, <1>5 DEF Excluded, Rows, Results
<1>6. CASE Approve(kind, seen)
  <2>1. CASE p \in Approvable(kind, seen)
    <3> DEFINE s == Confirmed(kind, p, seen[p].snapshot)
    <3>1. seen[p].snapshot \in Snapshots
      BY <1>2, <2>1 DEF Approvable, Proposed, Rows
    <3>2. s \in Snapshots
      BY <3>1, TypeOfConfirmed
    <3>3. ~ Requires(p, s)
      BY <2>1 DEF Approvable
    <3>4. row'[p].status = "approved" /\ row'[p].approved = {s}
      BY <1>6, <2>1 DEF Approve
    <3>5. approvals'[p] = approvals[p] \cup {s}
      BY <1>6, <2>1 DEF Approve
    <3> QED
      BY <3>2, <3>3, <3>4, <3>5
  <2>2. CASE p \notin Approvable(kind, seen)
    <3>1. row'[p] = row[p] /\ approvals'[p] = approvals[p]
      BY <1>6, <2>2 DEF Approve
    <3> QED
      BY <3>1
  <2> QED
    BY <2>1, <2>2
<1> QED
  BY <1>4, <1>5, <1>6 DEF CommitReview

LEMMA ApprovalStep ==
  ASSUME TypeInv, ApprovalInv, [Next]_vars
  PROVE  ApprovalInv'
<1>0. RowsTypeOK /\ MailTypeOK /\ WorkersTypeOK /\ HasProposal
  BY DEF TypeInv, TypeOK
<1>1. ASSUME NEW h \in Reviewers, CommitReview(h) PROVE ApprovalInv'
  <2>1. \A p \in Proposals : row'[p].approved \subseteq approvals'[p]
    BY <1>1, CommitApproves DEF ApprovalInv
  <2>2. \A p \in Proposals : approvals[p] \subseteq approvals'[p]
    BY <1>1, CommitApproves
  <2>3. UNCHANGED <<left, applied>>
    BY <1>1 DEF CommitReview, mailbox, worker
  <2>4. \A w \in Slots : DOMAIN left[w] \in SUBSET Proposals
    BY <1>0, HeldElim DEF WorkersTypeOK
  <2> QED
    BY <2>1, <2>2, <2>3, <2>4 DEF ApprovalInv, AppliedWasApproved
<1>2. ASSUME NEW w \in Slots, ReadBatch(w) PROVE ApprovalInv'
  <2> DEFINE P == FirstOf(BatchSize, Pending)
  <2>1. UNCHANGED <<row, approvals, applied>>
    BY <1>2 DEF ReadBatch, mailbox
  <2>2. P \in SUBSET Proposals
    BY DEF FirstOf, Pending
  <2>3. \A v \in Slots : left'[v] = left[v] \/ left'[v] = HeldSnapshots(P)
    BY <1>0, <1>2 DEF ReadBatch, WorkersTypeOK
  <2>4. \A p \in DOMAIN HeldSnapshots(P) : HeldSnapshots(P)[p] \subseteq approvals[p]
    BY <2>2 DEF HeldSnapshots, ApprovalInv
  <2> QED
    BY <2>1, <2>3, <2>4 DEF ApprovalInv, AppliedWasApproved
<1>3. ASSUME NEW w \in Slots, ApplyNext(w) PROVE ApprovalInv'
  <2> DEFINE p == Least(DOMAIN left[w])
  <2>1. UNCHANGED <<row, approvals, left>>
    BY <1>3 DEF ApplyNext
  <2>2. p \in DOMAIN left[w] /\ p \in Proposals
    BY <1>0, <1>3, NextOfBatch DEF ApplyNext, WorkersTypeOK
  <2>3. \/ applied' = applied
        \/ applied' = [applied EXCEPT ![p] = @ \cup left[w][p]]
    BY <1>3 DEF ApplyNext
  <2>4. left[w][p] \subseteq approvals[p]
    BY <2>2 DEF ApprovalInv
  <2>5. \A q \in Proposals : applied'[q] \subseteq approvals[q]
    BY <1>0, <2>2, <2>3, <2>4 DEF ApprovalInv, AppliedWasApproved, MailTypeOK
  <2> QED
    BY <2>1, <2>5 DEF ApprovalInv, AppliedWasApproved
<1>4. ASSUME NEW w \in Slots, MarkResult(w) PROVE ApprovalInv'
  <2> DEFINE p == Least(DOMAIN left[w])
  <2>1. UNCHANGED <<approvals, applied>>
    BY <1>4 DEF MarkResult, mailbox
  <2>2. \A q \in Proposals : row'[q].approved = row[q].approved
    <3>1. row' = [row EXCEPT ![p] = [row[p] EXCEPT !.status = outcome[w]]]
      BY <1>4 DEF MarkResult
    <3>2. \A q \in Proposals : row[q] \in Rows
      BY <1>0 DEF RowsTypeOK
    <3> QED
      BY <1>0, <3>1, <3>2 DEF RowsTypeOK, Rows
  <2>3. \A v \in Slots : \A q \in DOMAIN left'[v] :
          q \in DOMAIN left[v] /\ left'[v][q] = left[v][q]
    BY <1>0, <1>4 DEF MarkResult, WorkersTypeOK
  <2> QED
    BY <2>1, <2>2, <2>3 DEF ApprovalInv, AppliedWasApproved
<1>5. ASSUME NEW w \in Slots, RaiseApply(w) \/ CrashApply(w) PROVE ApprovalInv'
  <2>1. UNCHANGED <<row, approvals, applied>>
    BY <1>5 DEF RaiseApply, CrashApply, mailbox
  <2>2. \A v \in Slots : left'[v] = left[v] \/ left'[v] = Empty
    BY <1>0, <1>5 DEF RaiseApply, CrashApply, WorkersTypeOK
  <2>3. DOMAIN Empty = {}
    BY DEF Empty
  <2> QED
    BY <2>1, <2>2, <2>3 DEF ApprovalInv, AppliedWasApproved
<1>6. CASE ~ Writes
  BY <1>6, OthersWriteNothing DEF ApprovalInv, AppliedWasApproved
<1> QED
  BY <1>1, <1>2, <1>3, <1>4, <1>5, <1>6 DEF Writes

LEMMA ApprovalInit == Init => ApprovalInv
<1> SUFFICES ASSUME Init PROVE ApprovalInv
  OBVIOUS
<1>1. \A p \in Proposals : row[p].approved \subseteq approvals[p]
  BY DEF Init
<1>2. \A w \in Slots : DOMAIN left[w] = {}
  BY DEF Init, Empty
<1>3. AppliedWasApproved
  BY DEF Init, AppliedWasApproved
<1> QED
  BY <1>1, <1>2, <1>3 DEF ApprovalInv

\* The mailbox only ever sees snapshots that a user has approved: whichever rows
\* are edited, excluded or approved again while batches hold them, and however
\* often batches overlap, crash or fail.
THEOREM OnlyApprovedIsApplied == Spec => []AppliedWasApproved
<1>1. TypeInv /\ ApprovalInv /\ [Next]_vars => ApprovalInv'
  BY ApprovalStep
<1>2. ApprovalInv => AppliedWasApproved
  BY DEF ApprovalInv
<1> QED
  BY <1>1, <1>2, ApprovalInit, TypesHold, PTL DEF Spec

LEMMA ReadyStep ==
  ASSUME TypeInv, ApprovedIsReady, [Next]_vars
  PROVE  ApprovedIsReady'
<1>0. RowsTypeOK /\ WorkersTypeOK /\ HasProposal
  BY DEF TypeInv, TypeOK
<1>1. ASSUME NEW h \in Reviewers, CommitReview(h) PROVE ApprovedIsReady'
  <2> SUFFICES ASSUME NEW p \in Proposals, row'[p].status = "approved"
               PROVE  /\ row'[p].approved # {}
                      /\ \A s \in row'[p].approved : ~ Requires(p, s)
    BY DEF ApprovedIsReady
  <2>1. CASE row[p].status = "approved" /\ row'[p].approved = row[p].approved
    BY <2>1 DEF ApprovedIsReady
  <2>2. CASE \E s \in Snapshots : row'[p].approved = {s} /\ ~ Requires(p, s)
    BY <2>2
  <2> QED
    BY <1>1, <2>1, <2>2, CommitApproves
<1>2. ASSUME NEW w \in Slots, MarkResult(w) PROVE ApprovedIsReady'
  <2> DEFINE p == Least(DOMAIN left[w])
  <2>1. row' = [row EXCEPT ![p] = [row[p] EXCEPT !.status = outcome[w]]]
    BY <1>2 DEF MarkResult
  <2>2. outcome[w] # "approved"
    BY <1>0 DEF WorkersTypeOK, Results
  <2>3. \A q \in Proposals : row[q] \in Rows
    BY <1>0 DEF RowsTypeOK
  <2>4. \A q \in Proposals : row'[q].status = "approved" => row'[q] = row[q]
    BY <1>0, <2>1, <2>2, <2>3 DEF RowsTypeOK, Rows
  <2> QED
    BY <2>4 DEF ApprovedIsReady
<1>3. CASE UNCHANGED row
  BY <1>3 DEF ApprovedIsReady
<1>4. ASSUME NEW w \in Slots,
             ReadBatch(w) \/ ApplyNext(w) \/ RaiseApply(w) \/ CrashApply(w)
      PROVE  UNCHANGED row
  BY <1>4 DEF ReadBatch, ApplyNext, RaiseApply, CrashApply
<1> QED
  BY <1>1, <1>2, <1>3, <1>4, OthersWriteNothing DEF Writes

\* A proposal whose status is approved has an approved snapshot, and none that is
\* suspicious or still waits for a review.
THEOREM ApprovedStaysReady == Spec => []ApprovedIsReady
<1>1. Init => ApprovedIsReady
  BY DEF Init, ApprovedIsReady
<1>2. TypeInv /\ ApprovedIsReady /\ [Next]_vars => ApprovedIsReady'
  BY ReadyStep
<1> QED
  BY <1>1, <1>2, TypesHold, PTL DEF Spec

Finished == {p \in Proposals : row[p].status \in Results}

LEMMA CountStep ==
  ASSUME TypeInv, NothingUncounted, [Next]_vars
  PROVE  NothingUncounted'
<1>0. RowsTypeOK /\ JobTypeOK /\ WorkersTypeOK /\ HasProposal
  BY DEF TypeInv, TypeOK
<1>1. IsFiniteSet(Finished) /\ Cardinality(Finished) \in Nat
  BY FS_Subset, FS_CardinalityType DEF Finished
<1>2. Cardinality(Finished) <= job.processed /\ job.processed \in Nat
  BY <1>0 DEF NothingUncounted, Finished, JobTypeOK
<1>3. ASSUME Finished' \in SUBSET Finished, job'.processed = job.processed
      PROVE  NothingUncounted'
  <2>1. Cardinality(Finished') \in Nat /\ Cardinality(Finished') <= Cardinality(Finished)
    BY <1>1, <1>3, FS_Subset, FS_CardinalityType
  <2> QED
    BY <1>1, <1>2, <1>3, <2>1 DEF NothingUncounted, Finished
<1>4. ASSUME NEW h \in Reviewers, CommitReview(h) PROVE NothingUncounted'
  <2>1. Finished' \in SUBSET Finished
    BY <1>4, CommitApproves DEF Finished, Results
  <2> QED
    BY <1>3, <1>4, <2>1 DEF CommitReview
<1>5. ASSUME NEW w \in Slots, MarkResult(w) PROVE NothingUncounted'
  <2> DEFINE p == Least(DOMAIN left[w])
  <2>1. row' = [row EXCEPT ![p] = [row[p] EXCEPT !.status = outcome[w]]]
    BY <1>5 DEF MarkResult
  <2>2. Finished' \in SUBSET (Finished \cup {p})
    BY <1>0, <2>1 DEF Finished, RowsTypeOK
  <2>3. /\ IsFiniteSet(Finished \cup {p})
        /\ Cardinality(Finished \cup {p}) \in Nat
        /\ Cardinality(Finished \cup {p}) <= Cardinality(Finished) + 1
    <3>1. /\ IsFiniteSet(Finished \cup {p})
          /\ \/ Cardinality(Finished \cup {p}) = Cardinality(Finished)
             \/ Cardinality(Finished \cup {p}) = Cardinality(Finished) + 1
      BY <1>1, FS_AddElement, Zenon
    <3> QED
      BY <1>1, <3>1
  <2>4. Cardinality(Finished') <= Cardinality(Finished \cup {p}) /\ Cardinality(Finished') \in Nat
    BY <2>2, <2>3, FS_Subset, FS_CardinalityType
  <2>5. job'.processed = job.processed + 1
    BY <1>0, <1>5 DEF MarkResult, Counted, JobTypeOK
  <2> QED
    BY <1>1, <1>2, <2>3, <2>4, <2>5 DEF NothingUncounted, Finished
<1>6. ASSUME NEW w \in Slots,
             ReadBatch(w) \/ ApplyNext(w) \/ RaiseApply(w) \/ CrashApply(w)
      PROVE  UNCHANGED <<row, job>>
  BY <1>6 DEF ReadBatch, ApplyNext, RaiseApply, CrashApply
<1>7. ASSUME UNCHANGED row, job'.processed = job.processed PROVE NothingUncounted'
  <2>1. Finished' = Finished
    BY <1>7 DEF Finished
  <2> QED
    BY <1>3, <1>7, <2>1
<1> QED
  BY <1>4, <1>5, <1>6, <1>7, OthersWriteNothing DEF Writes

\* Every proposal that has a result was counted in "processed", for any number of
\* overlapping batches.
THEOREM ResultsAreCounted == Spec => []NothingUncounted
<1>1. Init => NothingUncounted
  <2> SUFFICES ASSUME Init PROVE NothingUncounted
    OBVIOUS
  <2>1. {p \in Proposals : row[p].status \in Results} = {}
    <3>1. \A p \in Proposals : row[p].status \in {"proposed", "approved"}
      BY DEF Init
    <3> QED
      BY <3>1 DEF Results
  <2>2. job.processed = 0
    BY DEF Init
  <2>3. Cardinality({}) = 0
    BY FS_EmptySet
  <2>4. Cardinality({p \in Proposals : row[p].status \in Results}) = 0
    BY <2>1, <2>3, Zenon
  <2> QED
    BY <2>2, <2>4 DEF NothingUncounted
<1>2. TypeInv /\ NothingUncounted /\ [Next]_vars => NothingUncounted'
  BY CountStep
<1> QED
  BY <1>1, <1>2, TypesHold, PTL DEF Spec

-----------------------------------------------------------------------------
(* A running job is queued. *)

\* A new entry.
LEMMA AddFills ==
  ASSUME NEW Q, Add(Q)
  PROVE  queue' # {}
BY DEF Add

LEMMA QueueOfStart ==
  ASSUME TypeInv, RunningIsQueued, NEW c \in Starters,
         StartApply(c) \/ StartStep(c) \/ StartDies(c)
  PROVE  RunningIsQueued'
<1>0. /\ start \in [Starters -> {"idle", "resuming", "enqueueing", "pausing"}]
      /\ orphaned \in BOOLEAN
      /\ job \in [state : {"none", "running", "paused", "completed"},
                  error : {"none", "worker_paused", "apply_enqueue_failed", "apply_error"},
                  processed : Nat]
  BY DEF TypeInv, TypeOK, ApiTypeOK, JobTypeOK
<1>1. CASE StartApply(c)
  <2>1. /\ UNCHANGED <<queue, pc, orphaned>> /\ start[c] = "idle"
        /\ \A d \in Starters : d # c => start'[d] = start[d]
    BY <1>0, <1>1 DEF StartApply, worker
  <2>2. CASE job.state = "none"
    BY <1>0, <1>1, <2>2 DEF StartApply, RunningIsQueued
  <2>3. CASE job' = job
    BY <2>1, <2>3 DEF RunningIsQueued, Busy
  <2> QED
    BY <1>1, <2>2, <2>3 DEF StartApply
<1>2. CASE ResumeApply(c)
  BY <1>0, <1>2 DEF ResumeApply, RunningIsQueued
<1>3. CASE EnqueueApply(c)
  <2>1. CASE Add(queue)
    BY <2>1, AddFills DEF RunningIsQueued
  <2>2. CASE ~ Add(queue)
    BY <1>0, <1>3, <2>2 DEF EnqueueApply, RunningIsQueued
  <2> QED
    BY <2>1, <2>2
<1>4. CASE PauseApply(c)
  BY <1>0, <1>4 DEF PauseApply, RunningIsQueued
<1>5. CASE StartDies(c)
  <2>1. /\ UNCHANGED <<queue, pc, job>> /\ start[c] # "idle"
        /\ \A d \in Starters : d # c => start'[d] = start[d]
    BY <1>0, <1>5 DEF StartDies, worker
  <2>2. CASE start[c] = "resuming" /\ UNCHANGED orphaned
    BY <2>1, <2>2 DEF RunningIsQueued, Busy
  <2>3. CASE Orphan(job)
    BY <2>1, <2>3 DEF RunningIsQueued, Orphan
  <2> QED
    BY <1>5, <2>2, <2>3 DEF StartDies
<1> QED
  BY <1>1, <1>2, <1>3, <1>4, <1>5 DEF StartStep

LEMMA QueueOfWorker ==
  ASSUME TypeInv, RunningIsQueued, NEW w \in Slots,
         \/ WorkerStep(w) \/ RaiseApply(w) \/ CrashApply(w) \/ StartupApply(w)
         \/ \E e \in queue : TakeApplyPaused(w, e)
  PROVE  RunningIsQueued'
<1>0. /\ queue \in SUBSET Entries /\ orphaned \in BOOLEAN
      /\ pc \in [Slots -> {"free", "down", "begun", "draining", "applying", "marking"}]
      /\ job \in [state : {"none", "running", "paused", "completed"},
                  error : {"none", "worker_paused", "apply_enqueue_failed", "apply_error"},
                  processed : Nat]
  BY DEF TypeInv, TypeOK, ApiTypeOK, WorkersTypeOK, JobTypeOK
<1>1. ASSUME job'.state = "running" => Busy(w)' PROVE RunningIsQueued'
  BY <1>1 DEF RunningIsQueued
<1>2. CASE \E e \in queue : TakeApply(w, e)
  <2>1. job' = job /\ pc' = [pc EXCEPT ![w] = IF job.state = "running" THEN "begun" ELSE "free"]
    BY <1>2 DEF TakeApply
  <2> QED
    BY <1>0, <1>1, <2>1 DEF Busy
<1>3. CASE \E e \in queue : TakeApplyPaused(w, e)
  BY <1>0, <1>3 DEF TakeApplyPaused, RunningIsQueued
<1>4. CASE ReadBatch(w)
  BY <1>0, <1>1, <1>4 DEF ReadBatch, Busy
<1>5. CASE ApplyNext(w)
  <2>1. job' = job /\ pc' = [pc EXCEPT ![w] = "marking"]
    BY <1>5 DEF ApplyNext
  <2> QED
    BY <1>0, <1>1, <2>1 DEF Busy
<1>6. CASE MarkResult(w)
  <2>1. pc' = [pc EXCEPT ![w] = "applying"]
    BY <1>6 DEF MarkResult
  <2> QED
    BY <1>0, <1>1, <2>1 DEF Busy
<1>7. CASE Drain(w)
  <2>1. job' = Finalized /\ orphaned' = (orphaned \/ Finalized.state = "running")
    BY <1>7 DEF Drain, Orphan
  <2> QED
    BY <2>1 DEF RunningIsQueued
<1>8. CASE EndBatch(w)
  <2>1. job' = Finalized /\ (Finalized.state = "running" => Add(queue))
    BY <1>8 DEF EndBatch
  <2> QED
    BY <2>1, AddFills DEF RunningIsQueued
<1>9. CASE RaiseApply(w)
  <2>1. job' = job /\ orphaned' = (orphaned \/ job.state = "running")
    BY <1>9 DEF RaiseApply, Orphan
  <2> QED
    BY <2>1 DEF RunningIsQueued
<1>10. CASE CrashApply(w)
  <2>1. job' = job /\ queue' = queue \cup Repeated(entry[w])
    BY <1>10 DEF CrashApply
  <2>2. CASE Repeated(entry[w]) = {}
    <3>1. orphaned' = (orphaned \/ job.state = "running")
      BY <1>10, <2>2 DEF CrashApply, Orphan
    <3> QED
      BY <2>1, <3>1 DEF RunningIsQueued
  <2>3. CASE Repeated(entry[w]) # {}
    BY <2>1, <2>3 DEF RunningIsQueued
  <2> QED
    BY <2>2, <2>3
<1>11. CASE StartupApply(w)
  <2>1. /\ UNCHANGED <<queue, job, start, orphaned>> /\ pc[w] = "down"
        /\ pc' = [pc EXCEPT ![w] = "free"]
    BY <1>11 DEF StartupApply, api
  <2>2. \A v \in Slots : Busy(v)' <=> Busy(v)
    BY <1>0, <2>1 DEF Busy
  <2> QED
    BY <2>1, <2>2 DEF RunningIsQueued
<1> QED
  BY <1>2, <1>3, <1>4, <1>5, <1>6, <1>7, <1>8, <1>9, <1>10, <1>11 DEF WorkerStep

LEMMA QueueStep == TypeInv /\ RunningIsQueued /\ [Next]_vars => RunningIsQueued'
<1> SUFFICES ASSUME TypeInv, RunningIsQueued, [Next]_vars PROVE RunningIsQueued'
  OBVIOUS
<1>1. CASE \E c \in Starters : StartApply(c) \/ StartStep(c) \/ StartDies(c)
  BY <1>1, QueueOfStart
<1>2. CASE \E w \in Slots :
             \/ WorkerStep(w) \/ RaiseApply(w) \/ CrashApply(w) \/ StartupApply(w)
             \/ \E e \in queue : TakeApplyPaused(w, e)
  BY <1>2, QueueOfWorker
<1>3. CASE UNCHANGED <<job, queue, pc, start, orphaned>>
  BY <1>3 DEF RunningIsQueued, Busy
<1> QED
  BY <1>1, <1>2, <1>3 DEF Next, vars, worker, api, ReadRows, CommitReview, Vanish, Renumber

\* A running apply job has an entry, a batch or a request that will go on with it, for
\* any number of overlapping batches, of review and of start requests, and of incidents,
\* until one of four events leaves it without: a batch that raises, a batch that dies on
\* its last try, an API process that dies between the commit and the entry, an approval
\* that a batch which found none does not see (process_bulk_apply, start_bulk_apply;
\* on_startup looks for no apply job).  A refused entry, a paused worker, a dead worker
\* whose entry ARQ repeats, and stale resume requests never do.
THEOREM RunningStaysQueued == Spec => []RunningIsQueued
<1>1. Init => RunningIsQueued
  BY DEF Init, RunningIsQueued
<1>2. TypeInv /\ RunningIsQueued /\ [Next]_vars => RunningIsQueued'
  BY QueueStep
<1> QED
  BY <1>1, <1>2, TypesHold, PTL DEF Spec
=============================================================================
