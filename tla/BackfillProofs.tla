--------------------------- MODULE BackfillProofs ---------------------------
(***************************************************************************)
(* Proofs about the historical backfill, for any folder and batch size and *)
(* any number of workers: its types hold, the scan skips no message, a     *)
(* stopped job stays stopped, a retry has its task, a running job has      *)
(* something that runs it unless a recorded event took it away, and        *)
(* messages are counted once until two batches have overlapped.            *)
(***************************************************************************)
EXTENDS Backfill, FiniteSetTheorems, WellFoundedInduction, TLAPS

USE FolderAssumption, SizesAssumption, BoundsAssumption

-----------------------------------------------------------------------------
(* Least and greatest positions. *)

\* A set of numbers that is not empty has a least element.
LEMMA LeastOfNat ==
  ASSUME NEW S \in SUBSET Nat, S # {}
  PROVE  Least(S) \in S /\ \A v \in S : Least(S) <= v
<1>1. PICK u \in S : \A v \in S : ~ (<<v, u>> \in OpToRel(<, Nat))
  BY NatLessThanWellFounded, WFMin
<1>2. \A v \in S : u <= v
  <2> SUFFICES ASSUME NEW v \in S PROVE u <= v
    OBVIOUS
  <2>1. <<v, u>> \notin OpToRel(<, Nat)
    BY <1>1
  <2>2. <<v, u>> \in Nat \X Nat
    OBVIOUS
  <2>3. ~ (v < u)
    BY <2>1, <2>2 DEF OpToRel
  <2> QED
    BY <2>3
<1> QED
  BY <1>2 DEF Least

\* A set of UIDs that is not empty has a least and a greatest element.
LEMMA LeastOfUids ==
  ASSUME NEW S \in SUBSET Uids, S # {}
  PROVE  /\ Least(S) \in S /\ Least(S) \in Uids
         /\ \A v \in S : Least(S) <= v
<1>1. S \in SUBSET Nat
  BY DEF Uids
<1> QED
  BY <1>1, LeastOfNat

LEMMA GreatestOfUids ==
  ASSUME NEW S \in SUBSET Uids, S # {}
  PROVE  Greatest(S) \in S /\ \A v \in S : v <= Greatest(S)
<1> DEFINE D == {MaxUid - v : v \in S}
<1>0. \A v \in S : v \in Nat /\ MaxUid - v \in Nat
  BY DEF Uids
<1>1. D \in SUBSET Nat /\ D # {}
  BY <1>0
<1>2. Least(D) \in D /\ \A d \in D : Least(D) <= d
  BY <1>1, LeastOfNat
<1>3. PICK u \in S : Least(D) = MaxUid - u
  BY <1>2
<1>4. \A v \in S : v <= u
  <2> SUFFICES ASSUME NEW v \in S PROVE v <= u
    OBVIOUS
  <2>1. MaxUid - u <= MaxUid - v
    BY <1>2, <1>3
  <2> QED
    BY <2>1, <1>0
<1> QED
  BY <1>4 DEF Greatest

-----------------------------------------------------------------------------
(* What fetch_historical_batch returns. *)

\* The size of a set of UIDs grows with the set.
LEMMA SizeOfUids ==
  ASSUME NEW S \in SUBSET Uids, NEW T \in SUBSET S
  PROVE  /\ IsFiniteSet(S) /\ IsFiniteSet(T)
         /\ Cardinality(S) \in Nat /\ Cardinality(T) \in Nat
         /\ Cardinality(T) <= Cardinality(S)
<1>1. IsFiniteSet(Uids)
  BY FS_Interval DEF Uids
<1>2. IsFiniteSet(S)
  BY <1>1, FS_Subset
<1> QED
  BY <1>2, FS_Subset, FS_CardinalityType

\* A batch holds every message up to the cursor it reports, and no other: the
\* scan skips nothing (imap_generic.py:293-305).
LEMMA BatchIsComplete ==
  ASSUME NEW c \in Cursors, mailbox \subseteq 1..highest, highest \in Cursors,
         c <= highest
  PROVE  /\ Selected(c) \subseteq 1..ScanCursor(c)
         /\ ScanCursor(c) \in Cursors /\ ScanCursor(c) <= highest
         /\ \A v \in mailbox : v > c /\ v <= ScanCursor(c) => v \in Selected(c)
<1> DEFINE Up(u) == {v \in After(c) : v <= u}
<1>1. /\ After(c) \in SUBSET Uids /\ Selected(c) \in SUBSET After(c)
      /\ \A u \in After(c) : u <= highest
  <2>1. \A u \in After(c) : u \in 1..highest
    BY DEF After
  <2>2. 1..highest \subseteq Uids
    BY DEF Uids, Cursors
  <2> QED
    BY <2>1, <2>2 DEF Selected
<1>2. \A u \in After(c) : u \in Selected(c) <=> Cardinality(Up(u)) <= BatchSize
  BY DEF Selected
<1>3. ASSUME NEW u \in Selected(c), NEW v \in After(c), v <= u
      PROVE  v \in Selected(c)
  <2>1. Up(u) \in SUBSET Uids /\ Up(v) \in SUBSET Up(u)
    BY <1>1, <1>3 DEF Uids
  <2>2. Cardinality(Up(v)) <= Cardinality(Up(u))
        /\ Cardinality(Up(v)) \in Nat /\ Cardinality(Up(u)) \in Nat
    BY <2>1, SizeOfUids
  <2>3. Cardinality(Up(u)) <= BatchSize
    BY <1>1, <1>2, <1>3
  <2> QED
    BY <2>2, <2>3, <1>2, <1>3
<1>4. CASE Cardinality(Selected(c)) = BatchSize
  <2>1. Selected(c) \in SUBSET Uids
    BY <1>1
  <2>2. Selected(c) # {}
    BY <1>4, FS_EmptySet
  <2> DEFINE g == Greatest(Selected(c))
  <2>3. g \in Selected(c) /\ \A v \in Selected(c) : v <= g
    BY <2>1, <2>2, GreatestOfUids
  <2>4. ScanCursor(c) = g
    BY <1>4 DEF ScanCursor
  <2> QED
    BY <2>3, <2>4, <1>1, <1>3 DEF After, Uids, Cursors
<1>5. CASE Cardinality(Selected(c)) # BatchSize
  <2>1. ScanCursor(c) = highest
    BY <1>5 DEF ScanCursor, Cursors
  <2>2. ASSUME NEW x \in After(c), x \notin Selected(c) PROVE FALSE
    <3> DEFINE Rest == After(c) \ Selected(c)
               m == Least(Rest)
               Below == {v \in After(c) : v < m}
    <3>1. m \in Rest /\ \A v \in Rest : m <= v
      BY <2>2, <1>1, LeastOfUids
    <3>2. m \in Uids /\ m \in After(c)
      BY <3>1, <1>1
    <3>3. Below = Selected(c)
      BY <3>1, <3>2, <1>1, <1>3 DEF Uids
    <3>4. Up(m) = Below \cup {m} /\ m \notin Below
      BY <3>2, <1>1 DEF Uids
    <3>5. Below \in SUBSET Uids /\ Up(m) \in SUBSET Uids
      BY <1>1
    <3>6. IsFiniteSet(Below) /\ Cardinality(Below) \in Nat
      BY <3>5, SizeOfUids
    <3>7. Cardinality(Up(m)) = Cardinality(Below) + 1
      BY <3>4, <3>6, FS_AddElement
    <3>8. ~ (Cardinality(Up(m)) <= BatchSize)
      BY <3>1, <3>2, <1>2
    <3>9. Cardinality(Below) > BatchSize
      <4> HIDE DEF Below, Up, m
      <4>1. ~ (Cardinality(Below) + 1 <= BatchSize)
        BY <3>7, <3>8
      <4>2. Cardinality(Below) # BatchSize
        BY <3>3, <1>5
      <4> QED
        BY <4>1, <4>2, <3>6
    <3>10. Below # {}
      BY <3>9, FS_EmptySet
    <3> DEFINE g == Greatest(Selected(c))
    <3>11. g \in Selected(c) /\ \A v \in Selected(c) : v <= g
      BY <3>3, <3>5, <3>10, GreatestOfUids
    <3>12. Selected(c) \subseteq Up(g)
      BY <3>11, <1>1
    <3>13. g \in After(c) /\ Up(g) \in SUBSET Uids
      BY <3>11, <1>1
    <3>14. Cardinality(Selected(c)) <= Cardinality(Up(g))
           /\ Cardinality(Up(g)) \in Nat
      BY <3>12, <3>13, SizeOfUids
    <3>15. Cardinality(Up(g)) <= BatchSize
      BY <3>11, <3>13, <1>2
    <3> QED
      BY <3>3, <3>6, <3>9, <3>14, <3>15
  <2> QED
    BY <2>1, <2>2, <1>1 DEF After, Uids, Cursors
<1> QED
  BY <1>4, <1>5

-----------------------------------------------------------------------------
(* Type correctness. *)

\* A worker that is about to write has a message to write about.
HasMessage ==
  \A w \in Slots :
    /\ pc[w] = "saving" => todo[w] # {}
    /\ pc[w] = "writing" => todo[w] = {} /\ pending[w] # {}

TypeInv == TypeOK /\ HasMessage

\* An entry with a fresh id.
LEMMA TypeOfRetryEntry ==
  ASSUME NEW Q \in SUBSET Entries, AddRetryEntry(Q)
  PROVE  queue' \in SUBSET Entries
<1> DEFINE free == {k \in 1..MaxRetryIds : ~ InUse([kind |-> "retry", at |-> k])}
<1>1. free \in SUBSET Nat /\ free # {}
  BY DEF AddRetryEntry
<1>2. Least(free) \in 1..MaxRetryIds
  BY <1>1, LeastOfNat
<1>3. [id |-> [kind |-> "retry", at |-> Least(free)], try |-> 1] \in Entries
  BY <1>2 DEF Entries, Ids
<1> QED
  BY <1>3 DEF AddRetryEntry

\* An entry under the id of a cursor.
LEMMA TypeOfCursorEntry ==
  ASSUME queue \in SUBSET Entries, NEW c \in Cursors, AddCursorEntry(c)
  PROVE  queue' \in SUBSET Entries
BY DEF AddCursorEntry, CursorId, Entries, Ids

\* A worker that is through with its entry.
LEMMA TypeOfLeave ==
  ASSUME ArqTypeOK, pc \in [Slots -> Places], NEW w \in Slots, Leave(w)
  PROVE  /\ retained' \in SUBSET Cursors /\ pc' \in [Slots -> Places]
         /\ pc' = [pc EXCEPT ![w] = "free"]
BY DEF ArqTypeOK, Leave, Places, Entries, Ids

\* A checkpoint keeps the columns of the job in their ranges.
LEMMA TypeOfCheckpoint ==
  ASSUME JobTypeOK, NEW h \in Snapshots, NEW u \in Uids, NEW ok \in BOOLEAN,
         Checkpoint(h, u, ok)
  PROVE  JobTypeOK'
BY DEF JobTypeOK, Checkpoint, Written, Snapshots, Uids, Cursors, States

\* What the history says of batches and requests that ended.
LEMMA TypeOfOrphan ==
  ASSUME orphaned \in BOOLEAN, Orphan
  PROVE  orphaned' \in BOOLEAN
BY Zenon DEF Orphan

\* What a session reads of the job.
LEMMA TypeOfSnapshot ==
  ASSUME JobTypeOK
  PROVE  /\ Snapshot \in Snapshots /\ Blank \in Snapshots
         /\ [Blank EXCEPT !.cursor = cursor] \in Snapshots
BY DEF JobTypeOK, Snapshot, Blank, Snapshots, Cursors

\* What a fetch returns.
LEMMA FetchedTypes ==
  ASSUME FolderTypeOK, NEW c \in Cursors
  PROVE  Selected(c) \in SUBSET Uids /\ ScanCursor(c) \in Cursors
<1>1. mailbox \in SUBSET Uids /\ Selected(c) \in SUBSET mailbox
  BY DEF FolderTypeOK, Uids, Cursors, Selected, After
<1>2. CASE Cardinality(Selected(c)) = BatchSize
  <2>1. Selected(c) # {} /\ Selected(c) \in SUBSET Uids
    BY <1>1, <1>2, FS_EmptySet
  <2>2. Greatest(Selected(c)) \in Uids
    BY <2>1, GreatestOfUids
  <2>3. ScanCursor(c) = Greatest(Selected(c))
    BY <1>2 DEF ScanCursor
  <2>4. Uids \subseteq Cursors
    BY DEF Uids, Cursors
  <2> QED
    BY <2>1, <2>2, <2>3, <2>4
<1>3. CASE Cardinality(Selected(c)) # BatchSize
  BY <1>1, <1>3 DEF ScanCursor, FolderTypeOK
<1> QED
  BY <1>1, <1>2, <1>3

\* The steps of a worker that runs a batch.
LEMMA TypeOfWorker ==
  ASSUME TypeInv, NEW w \in Slots, WorkerStep(w)
  PROVE  TypeInv'
<1> USE DEF job, counters, folder, arq, locals, api, history, bounds
<1>0. /\ JobTypeOK /\ RowsTypeOK /\ FolderTypeOK /\ ArqTypeOK /\ LocalsTypeOK
      /\ ApiTypeOK /\ HasMessage
  BY DEF TypeInv, TypeOK
<1>1. CASE \E e \in queue : Take(w, e)
  <2>1. JobTypeOK' /\ RowsTypeOK' /\ FolderTypeOK' /\ ApiTypeOK'
    BY <1>0, <1>1 DEF Take, JobTypeOK, RowsTypeOK, FolderTypeOK, ApiTypeOK
  <2>2. ArqTypeOK'
    BY <1>0, <1>1 DEF Take, Entries, Ids, ArqTypeOK, LocalsTypeOK
  <2>3. LocalsTypeOK'
    <3>1. pc' \in [Slots -> Places]
      BY <1>0, <1>1 DEF Take, LocalsTypeOK, Places
    <3>2. /\ todo' \in [Slots -> SUBSET Uids]
         /\ pending' \in [Slots -> SUBSET Uids]
      BY <1>0, <1>1 DEF Take, LocalsTypeOK, Places
    <3>3. /\ from' \in [Slots -> Cursors] /\ scan' \in [Slots -> Cursors]
      BY <1>0, <1>1 DEF Take, LocalsTypeOK, JobTypeOK
    <3>4. held' \in [Slots -> Snapshots]
      BY <1>0, <1>1 DEF Take, LocalsTypeOK, Places
    <3>5. /\ done' \in [Slots -> BOOLEAN]
         /\ yielded' \in [Slots -> {"no", "retry", "stopped"}]
      BY <1>0, <1>1 DEF Take, LocalsTypeOK, Places
    <3> QED
      BY <3>1, <3>2, <3>3, <3>4, <3>5 DEF LocalsTypeOK
  <2>4. HasMessage'
    BY <1>0, <1>1 DEF Take, HasMessage, LocalsTypeOK, Places
  <2> QED
    BY <1>0, <2>1, <2>2, <2>3, <2>4 DEF TypeInv, TypeOK
<1>2. CASE ListFailures(w)
  <2>1. JobTypeOK' /\ RowsTypeOK' /\ FolderTypeOK' /\ ArqTypeOK' /\ ApiTypeOK'
    BY <1>0, <1>2 DEF ListFailures, JobTypeOK, RowsTypeOK, FolderTypeOK, ArqTypeOK, ApiTypeOK, LocalsTypeOK
  <2>2. LocalsTypeOK'
    <3>1. pc' \in [Slots -> Places]
      BY <1>0, <1>2 DEF ListFailures, LocalsTypeOK, Places
    <3>2. /\ todo' \in [Slots -> SUBSET Uids]
         /\ pending' \in [Slots -> SUBSET Uids]
      BY <1>0, <1>2 DEF ListFailures, LocalsTypeOK, Places
    <3>3. /\ from' \in [Slots -> Cursors] /\ scan' \in [Slots -> Cursors]
      BY <1>0, <1>2 DEF ListFailures, LocalsTypeOK, Places
    <3>4. held' \in [Slots -> Snapshots]
      BY <1>0, <1>2 DEF ListFailures, LocalsTypeOK, Places
    <3>5. /\ done' \in [Slots -> BOOLEAN]
         /\ yielded' \in [Slots -> {"no", "retry", "stopped"}]
      BY <1>0, <1>2 DEF ListFailures, LocalsTypeOK, Places
    <3> QED
      BY <3>1, <3>2, <3>3, <3>4, <3>5 DEF LocalsTypeOK
  <2>3. HasMessage'
    BY <1>0, <1>2 DEF ListFailures, HasMessage, LocalsTypeOK, Places
  <2> QED
    BY <1>0, <2>1, <2>2, <2>3 DEF TypeInv, TypeOK
<1>3. CASE Recover(w)
  <2>1. JobTypeOK'
    BY <1>0, <1>3 DEF Recover, RetrySuccess, JobTypeOK
  <2>2. RowsTypeOK'
    <3>1. todo[w] \in SUBSET Uids /\ todo[w] # {}
      BY <1>0, <1>3 DEF Recover, LocalsTypeOK
    <3>2. Least(todo[w]) \in Uids
      BY <3>1, LeastOfUids
    <3> QED
      BY <1>0, <1>3, <3>2 DEF Recover, RetrySuccess, Statuses, RowsTypeOK
  <2>3. FolderTypeOK' /\ ArqTypeOK'
    BY <1>0, <1>3 DEF Recover, FolderTypeOK, ArqTypeOK, LocalsTypeOK
  <2>4. LocalsTypeOK'
    <3>1. pc' \in [Slots -> Places]
      BY <1>0, <1>3 DEF Recover, LocalsTypeOK, Places
    <3>2. /\ todo' \in [Slots -> SUBSET Uids]
         /\ pending' \in [Slots -> SUBSET Uids]
      BY <1>0, <1>3 DEF Recover, LocalsTypeOK, Places
    <3>3. /\ from' \in [Slots -> Cursors] /\ scan' \in [Slots -> Cursors]
      BY <1>0, <1>3 DEF Recover, LocalsTypeOK, Places
    <3>4. held' \in [Slots -> Snapshots]
      BY <1>0, <1>3 DEF Recover, LocalsTypeOK, Places
    <3>5. /\ done' \in [Slots -> BOOLEAN]
         /\ yielded' \in [Slots -> {"no", "retry", "stopped"}]
      BY <1>0, <1>3 DEF Recover, LocalsTypeOK, Places
    <3> QED
      BY <3>1, <3>2, <3>3, <3>4, <3>5 DEF LocalsTypeOK
  <2>5. ApiTypeOK'
    BY <1>0, <1>3 DEF Recover, Incident, ApiTypeOK
  <2>6. HasMessage'
    BY <1>0, <1>3 DEF Recover, HasMessage, LocalsTypeOK, Places
  <2> QED
    BY <1>0, <2>1, <2>2, <2>3, <2>4, <2>5, <2>6 DEF TypeInv, TypeOK
<1>4. CASE Fetch(w)
  <2>1. RowsTypeOK' /\ FolderTypeOK' /\ ApiTypeOK'
    BY <1>0, <1>4 DEF Fetch, RowsTypeOK, FolderTypeOK, ApiTypeOK
  <2>2. JobTypeOK'
    BY <1>0, <1>4 DEF Fetch, States, JobTypeOK, FolderTypeOK
  <2>3. ArqTypeOK'
    BY <1>0, <1>4, TypeOfLeave DEF Fetch, ArqTypeOK, LocalsTypeOK
  <2>4. LocalsTypeOK'
    <3>1. pc' \in [Slots -> Places]
      BY <1>0, <1>4, TypeOfLeave, FetchedTypes DEF Fetch, LocalsTypeOK, Places
    <3>2. /\ todo' \in [Slots -> SUBSET Uids]
         /\ pending' \in [Slots -> SUBSET Uids]
      BY <1>0, <1>4, TypeOfLeave, FetchedTypes DEF Fetch, LocalsTypeOK, Places
    <3>3. /\ from' \in [Slots -> Cursors] /\ scan' \in [Slots -> Cursors]
      BY <1>0, <1>4, TypeOfLeave, FetchedTypes DEF Fetch, LocalsTypeOK, Places
    <3>4. held' \in [Slots -> Snapshots]
      BY <1>0, <1>4, TypeOfLeave, FetchedTypes DEF Fetch, LocalsTypeOK, Places
    <3>5. /\ done' \in [Slots -> BOOLEAN]
         /\ yielded' \in [Slots -> {"no", "retry", "stopped"}]
      <4> DEFINE end == ScanCursor(from[w]) >= highest
      <4>1. yielded' = yielded /\ (done' = done \/ done' = [done EXCEPT ![w] = end])
        BY <1>4 DEF Fetch
      <4>2. end \in BOOLEAN
        OBVIOUS
      <4> HIDE DEF end
      <4>3. done' \in [Slots -> BOOLEAN]
        BY <1>0, <4>1, <4>2 DEF LocalsTypeOK
      <4> QED
        BY <1>0, <4>1, <4>3 DEF LocalsTypeOK
    <3> QED
      BY <3>1, <3>2, <3>3, <3>4, <3>5 DEF LocalsTypeOK
  <2>5. HasMessage'
    BY <1>0, <1>4, TypeOfLeave DEF Fetch, HasMessage, LocalsTypeOK, Places
  <2> QED
    BY <1>0, <2>1, <2>2, <2>3, <2>4, <2>5 DEF TypeInv, TypeOK
<1>5. CASE Look(w)
  <2>1. JobTypeOK' /\ RowsTypeOK' /\ FolderTypeOK' /\ ArqTypeOK' /\ ApiTypeOK'
    BY <1>0, <1>5 DEF Look, JobTypeOK, RowsTypeOK, FolderTypeOK, ArqTypeOK, ApiTypeOK, LocalsTypeOK
  <2>2. LocalsTypeOK'
    <3>1. pc' \in [Slots -> Places]
      BY <1>0, <1>5, TypeOfSnapshot DEF Look, Stop, LocalsTypeOK, Places
    <3>2. /\ todo' \in [Slots -> SUBSET Uids]
         /\ pending' \in [Slots -> SUBSET Uids]
      <4>1. Least(todo[w]) \in Uids
        BY <1>0, <1>5, LeastOfUids DEF Look, LocalsTypeOK
      <4> QED
        BY <1>0, <1>5, <4>1 DEF Look, Stop, LocalsTypeOK
    <3>3. /\ from' \in [Slots -> Cursors] /\ scan' \in [Slots -> Cursors]
      BY <1>0, <1>5, TypeOfSnapshot DEF Look, Stop, LocalsTypeOK, Places
    <3>4. held' \in [Slots -> Snapshots]
      BY <1>0, <1>5, TypeOfSnapshot DEF Look, Stop, LocalsTypeOK, Places
    <3>5. /\ done' \in [Slots -> BOOLEAN]
         /\ yielded' \in [Slots -> {"no", "retry", "stopped"}]
      BY <1>0, <1>5, TypeOfSnapshot DEF Look, Stop, LocalsTypeOK, Places
    <3> QED
      BY <3>1, <3>2, <3>3, <3>4, <3>5 DEF LocalsTypeOK
  <2>3. HasMessage'
    BY <1>0, <1>5, LeastOfUids DEF Look, Stop, HasMessage, LocalsTypeOK, Places
  <2> QED
    BY <1>0, <2>1, <2>2, <2>3 DEF TypeInv, TypeOK
<1>6. CASE Save(w)
  <2>1. JobTypeOK'
    <3>0. todo[w] \in SUBSET Uids /\ todo[w] # {}
      BY <1>0, <1>6 DEF Save, LocalsTypeOK, HasMessage
    <3>1. Least(todo[w]) \in Uids
      BY <3>0, LeastOfUids
    <3>2. CASE Checkpoint(held[w], Least(todo[w]), TRUE)
      <4>1. held[w] \in Snapshots
        BY <1>0 DEF LocalsTypeOK
      <4> QED
        BY <1>0, <3>1, <3>2, <4>1, TypeOfCheckpoint
    <3>3. CASE CursorRefused(w, Least(todo[w]))
      BY <1>0, <3>3 DEF CursorRefused, SetIfRunning, States, JobTypeOK
    <3> QED
      BY <1>6, <3>2, <3>3 DEF Save
  <2>2. RowsTypeOK' /\ FolderTypeOK' /\ ApiTypeOK'
    <3>1. orphaned' \in BOOLEAN
      BY <1>0, <1>6, TypeOfOrphan DEF Save, CursorRefused, ApiTypeOK
    <3>2. UNCHANGED <<failure, proposals, folder, api, retry, overlapped, bounds>>
      BY <1>6 DEF Save, CursorRefused
    <3> QED
      BY <1>0, <3>1, <3>2 DEF RowsTypeOK, FolderTypeOK, ApiTypeOK
  <2>3. ArqTypeOK'
    BY <1>0, <1>6, TypeOfLeave DEF Save, CursorRefused, ArqTypeOK, LocalsTypeOK
  <2>4. LocalsTypeOK'
    <3>1. pc' \in [Slots -> Places]
      BY <1>0, <1>6, TypeOfLeave DEF Save, CursorRefused, LocalsTypeOK, Places
    <3>2. /\ todo' \in [Slots -> SUBSET Uids]
         /\ pending' \in [Slots -> SUBSET Uids]
      BY <1>0, <1>6 DEF Save, CursorRefused, LocalsTypeOK
    <3>3. /\ from' \in [Slots -> Cursors] /\ scan' \in [Slots -> Cursors]
      BY <1>0, <1>6, TypeOfLeave DEF Save, CursorRefused, LocalsTypeOK, Places
    <3>4. held' \in [Slots -> Snapshots]
      BY <1>0, <1>6, TypeOfLeave DEF Save, CursorRefused, LocalsTypeOK, Places
    <3>5. /\ done' \in [Slots -> BOOLEAN]
         /\ yielded' \in [Slots -> {"no", "retry", "stopped"}]
      BY <1>0, <1>6, TypeOfLeave DEF Save, CursorRefused, LocalsTypeOK, Places
    <3> QED
      BY <3>1, <3>2, <3>3, <3>4, <3>5 DEF LocalsTypeOK
  <2>5. HasMessage'
    BY <1>0, <1>6, TypeOfLeave DEF Save, CursorRefused, HasMessage, LocalsTypeOK, Places
  <2> QED
    BY <1>0, <2>1, <2>2, <2>3, <2>4, <2>5 DEF TypeInv, TypeOK
<1>7. CASE Commit(w)
  <2>1. JobTypeOK' /\ RowsTypeOK' /\ FolderTypeOK' /\ ArqTypeOK' /\ ApiTypeOK'
    BY <1>0, <1>7 DEF Commit, JobTypeOK, RowsTypeOK, FolderTypeOK, ArqTypeOK, ApiTypeOK, LocalsTypeOK
  <2>2. LocalsTypeOK'
    <3>1. pc' \in [Slots -> Places]
      BY <1>0, <1>7, TypeOfSnapshot DEF Commit, Stop, LocalsTypeOK, Places
    <3>2. /\ todo' \in [Slots -> SUBSET Uids]
         /\ pending' \in [Slots -> SUBSET Uids]
      BY <1>0, <1>7, TypeOfSnapshot DEF Commit, Stop, LocalsTypeOK, Places
    <3>3. /\ from' \in [Slots -> Cursors] /\ scan' \in [Slots -> Cursors]
      BY <1>0, <1>7, TypeOfSnapshot DEF Commit, Stop, LocalsTypeOK, Places
    <3>4. held' \in [Slots -> Snapshots]
      BY <1>0, <1>7, TypeOfSnapshot DEF Commit, Stop, LocalsTypeOK, Places
    <3>5. /\ done' \in [Slots -> BOOLEAN]
         /\ yielded' \in [Slots -> {"no", "retry", "stopped"}]
      BY <1>0, <1>7, TypeOfSnapshot DEF Commit, Stop, LocalsTypeOK, Places
    <3> QED
      BY <3>1, <3>2, <3>3, <3>4, <3>5 DEF LocalsTypeOK
  <2>3. HasMessage'
    BY <1>0, <1>7 DEF Commit, Stop, HasMessage, LocalsTypeOK, Places
  <2> QED
    BY <1>0, <2>1, <2>2, <2>3 DEF TypeInv, TypeOK
<1>8. CASE WriteProposal(w)
  <2>1. JobTypeOK'
    <3>0. pending[w] \in SUBSET Uids /\ pending[w] # {}
      BY <1>0, <1>8 DEF WriteProposal, LocalsTypeOK, HasMessage
    <3>1. Least(pending[w]) \in Uids
      BY <3>0, LeastOfUids
    <3>2. CASE Checkpoint(held[w], Least(pending[w]), TRUE)
      <4>1. held[w] \in Snapshots
        BY <1>0 DEF LocalsTypeOK
      <4> QED
        BY <1>0, <3>1, <3>2, <4>1, TypeOfCheckpoint
    <3>3. CASE CursorRefused(w, Least(pending[w]))
      BY <1>0, <3>3 DEF CursorRefused, SetIfRunning, States, JobTypeOK
    <3> QED
      BY <1>8, <3>2, <3>3 DEF WriteProposal
  <2>2. RowsTypeOK'
    <3>0. pending[w] \in SUBSET Uids /\ pending[w] # {}
      BY <1>0, <1>8 DEF WriteProposal, LocalsTypeOK, HasMessage
    <3>1. Least(pending[w]) \in Uids
      BY <3>0, LeastOfUids
    <3>2. failure' = failure \/ failure' = [failure EXCEPT
            ![Least(pending[w])].status = "resolved",
            ![Least(pending[w])].recoverable = FALSE]
      BY <1>8 DEF WriteProposal, CursorRefused
    <3>3. proposals' \in SUBSET Uids
      BY <1>0, <1>8, <3>1 DEF WriteProposal, CursorRefused, RowsTypeOK
    <3> QED
      BY <1>0, <3>1, <3>2, <3>3 DEF Statuses, RowsTypeOK
  <2>3. FolderTypeOK' /\ ApiTypeOK'
    <3>1. orphaned' \in BOOLEAN
      BY <1>0, <1>8, TypeOfOrphan DEF WriteProposal, CursorRefused, ApiTypeOK
    <3>2. UNCHANGED <<folder, api, retry, overlapped, bounds>>
      BY <1>8 DEF WriteProposal
    <3> QED
      BY <1>0, <3>1, <3>2 DEF FolderTypeOK, ApiTypeOK
  <2>4. ArqTypeOK'
    BY <1>0, <1>8, TypeOfLeave DEF WriteProposal, CursorRefused, ArqTypeOK, LocalsTypeOK
  <2>5. LocalsTypeOK'
    <3>1. pc' \in [Slots -> Places]
      BY <1>0, <1>8, TypeOfLeave DEF WriteProposal, CursorRefused, LocalsTypeOK, Places
    <3>2. /\ todo' \in [Slots -> SUBSET Uids]
         /\ pending' \in [Slots -> SUBSET Uids]
      BY <1>0, <1>8 DEF WriteProposal, CursorRefused, LocalsTypeOK
    <3>3. /\ from' \in [Slots -> Cursors] /\ scan' \in [Slots -> Cursors]
      BY <1>0, <1>8, TypeOfLeave DEF WriteProposal, CursorRefused, LocalsTypeOK, Places
    <3>4. held' \in [Slots -> Snapshots]
      BY <1>0, <1>8, TypeOfLeave DEF WriteProposal, CursorRefused, LocalsTypeOK, Places
    <3>5. /\ done' \in [Slots -> BOOLEAN]
         /\ yielded' \in [Slots -> {"no", "retry", "stopped"}]
      BY <1>0, <1>8, TypeOfLeave DEF WriteProposal, CursorRefused, LocalsTypeOK, Places
    <3> QED
      BY <3>1, <3>2, <3>3, <3>4, <3>5 DEF LocalsTypeOK
  <2>6. HasMessage'
    BY <1>0, <1>8, TypeOfLeave DEF WriteProposal, CursorRefused, HasMessage, LocalsTypeOK, Places
  <2> QED
    BY <1>0, <2>1, <2>2, <2>3, <2>4, <2>5, <2>6 DEF TypeInv, TypeOK
<1>9. CASE Finish(w)
  <2>1. JobTypeOK'
    BY <1>0, <1>9 DEF Finish, States, JobTypeOK, LocalsTypeOK
  <2>2. RowsTypeOK' /\ FolderTypeOK' /\ ArqTypeOK' /\ ApiTypeOK'
    BY <1>0, <1>9 DEF Finish, RowsTypeOK, FolderTypeOK, ArqTypeOK, ApiTypeOK, LocalsTypeOK
  <2>3. LocalsTypeOK'
    <3>1. pc' \in [Slots -> Places]
      BY <1>0, <1>9, TypeOfSnapshot DEF Finish, Cursors, LocalsTypeOK, Places
    <3>2. /\ todo' \in [Slots -> SUBSET Uids]
         /\ pending' \in [Slots -> SUBSET Uids]
      BY <1>0, <1>9, TypeOfSnapshot DEF Finish, Cursors, LocalsTypeOK, Places
    <3>3. /\ from' \in [Slots -> Cursors] /\ scan' \in [Slots -> Cursors]
      BY <1>0, <1>9, TypeOfSnapshot DEF Finish, Cursors, LocalsTypeOK, Places
    <3>4. held' \in [Slots -> Snapshots]
      BY <1>0, <1>9, TypeOfSnapshot DEF Finish, Cursors, LocalsTypeOK, Places
    <3>5. /\ done' \in [Slots -> BOOLEAN]
         /\ yielded' \in [Slots -> {"no", "retry", "stopped"}]
      BY <1>0, <1>9, TypeOfSnapshot DEF Finish, Cursors, LocalsTypeOK, Places
    <3> QED
      BY <3>1, <3>2, <3>3, <3>4, <3>5 DEF LocalsTypeOK
  <2>4. HasMessage'
    BY <1>0, <1>9 DEF Finish, HasMessage, LocalsTypeOK, Places
  <2> QED
    BY <1>0, <2>1, <2>2, <2>3, <2>4 DEF TypeInv, TypeOK
<1>10. CASE Result(w)
  <2>1. JobTypeOK' /\ RowsTypeOK' /\ FolderTypeOK' /\ ApiTypeOK'
    BY <1>0, <1>10 DEF Result, JobTypeOK, RowsTypeOK, FolderTypeOK, ApiTypeOK
  <2>2. ArqTypeOK'
    BY <1>0, <1>10, TypeOfLeave DEF Result, ArqTypeOK, LocalsTypeOK
  <2>3. LocalsTypeOK'
    <3>1. pc' \in [Slots -> Places]
      BY <1>0, <1>10, TypeOfLeave, TypeOfSnapshot DEF Result, LocalsTypeOK, Places
    <3>2. /\ todo' \in [Slots -> SUBSET Uids]
         /\ pending' \in [Slots -> SUBSET Uids]
      BY <1>0, <1>10, TypeOfLeave, TypeOfSnapshot DEF Result, LocalsTypeOK, Places
    <3>3. /\ from' \in [Slots -> Cursors] /\ scan' \in [Slots -> Cursors]
      BY <1>0, <1>10, TypeOfLeave, TypeOfSnapshot DEF Result, LocalsTypeOK, Places
    <3>4. held' \in [Slots -> Snapshots]
      BY <1>0, <1>10, TypeOfLeave, TypeOfSnapshot DEF Result, LocalsTypeOK, Places
    <3>5. /\ done' \in [Slots -> BOOLEAN]
         /\ yielded' \in [Slots -> {"no", "retry", "stopped"}]
      BY <1>0, <1>10, TypeOfLeave, TypeOfSnapshot DEF Result, LocalsTypeOK, Places
    <3> QED
      BY <3>1, <3>2, <3>3, <3>4, <3>5 DEF LocalsTypeOK
  <2>4. HasMessage'
    BY <1>0, <1>10, TypeOfLeave DEF Result, HasMessage, LocalsTypeOK, Places
  <2> QED
    BY <1>0, <2>1, <2>2, <2>3, <2>4 DEF TypeInv, TypeOK
<1>11. CASE Requeue(w)
  <2>1. JobTypeOK' /\ RowsTypeOK' /\ FolderTypeOK' /\ ApiTypeOK'
    BY <1>0, <1>11 DEF Requeue, JobTypeOK, RowsTypeOK, FolderTypeOK, ApiTypeOK
  <2>2. ArqTypeOK'
    BY <1>0, <1>11, TypeOfLeave, TypeOfRetryEntry, TypeOfCursorEntry DEF Requeue, Snapshots, ArqTypeOK, LocalsTypeOK
  <2>3. LocalsTypeOK'
    <3>1. pc' \in [Slots -> Places]
      BY <1>0, <1>11, TypeOfLeave, TypeOfSnapshot DEF Requeue, LocalsTypeOK, Places
    <3>2. /\ todo' \in [Slots -> SUBSET Uids]
         /\ pending' \in [Slots -> SUBSET Uids]
      BY <1>0, <1>11, TypeOfLeave, TypeOfSnapshot DEF Requeue, LocalsTypeOK, Places
    <3>3. /\ from' \in [Slots -> Cursors] /\ scan' \in [Slots -> Cursors]
      BY <1>0, <1>11, TypeOfLeave, TypeOfSnapshot DEF Requeue, LocalsTypeOK, Places
    <3>4. held' \in [Slots -> Snapshots]
      BY <1>0, <1>11, TypeOfLeave, TypeOfSnapshot DEF Requeue, LocalsTypeOK, Places
    <3>5. /\ done' \in [Slots -> BOOLEAN]
         /\ yielded' \in [Slots -> {"no", "retry", "stopped"}]
      BY <1>0, <1>11, TypeOfLeave, TypeOfSnapshot DEF Requeue, LocalsTypeOK, Places
    <3> QED
      BY <3>1, <3>2, <3>3, <3>4, <3>5 DEF LocalsTypeOK
  <2>4. HasMessage'
    BY <1>0, <1>11, TypeOfLeave DEF Requeue, HasMessage, LocalsTypeOK, Places
  <2> QED
    BY <1>0, <2>1, <2>2, <2>3, <2>4 DEF TypeInv, TypeOK
<1>12. CASE PauseAfterRequeue(w)
  <2>1. JobTypeOK'
    BY <1>0, <1>12 DEF PauseAfterRequeue, SetIfRunning, States, JobTypeOK
  <2>2. RowsTypeOK' /\ FolderTypeOK' /\ ApiTypeOK'
    BY <1>0, <1>12 DEF PauseAfterRequeue, RowsTypeOK, FolderTypeOK, ApiTypeOK
  <2>3. ArqTypeOK'
    BY <1>0, <1>12, TypeOfLeave DEF PauseAfterRequeue, ArqTypeOK, LocalsTypeOK
  <2>4. LocalsTypeOK'
    <3>1. pc' \in [Slots -> Places]
      BY <1>0, <1>12, TypeOfLeave DEF PauseAfterRequeue, LocalsTypeOK, Places
    <3>2. /\ todo' \in [Slots -> SUBSET Uids]
         /\ pending' \in [Slots -> SUBSET Uids]
      BY <1>0, <1>12, TypeOfLeave DEF PauseAfterRequeue, LocalsTypeOK, Places
    <3>3. /\ from' \in [Slots -> Cursors] /\ scan' \in [Slots -> Cursors]
      BY <1>0, <1>12, TypeOfLeave DEF PauseAfterRequeue, LocalsTypeOK, Places
    <3>4. held' \in [Slots -> Snapshots]
      BY <1>0, <1>12, TypeOfLeave DEF PauseAfterRequeue, LocalsTypeOK, Places
    <3>5. /\ done' \in [Slots -> BOOLEAN]
         /\ yielded' \in [Slots -> {"no", "retry", "stopped"}]
      BY <1>0, <1>12, TypeOfLeave DEF PauseAfterRequeue, LocalsTypeOK, Places
    <3> QED
      BY <3>1, <3>2, <3>3, <3>4, <3>5 DEF LocalsTypeOK
  <2>5. HasMessage'
    BY <1>0, <1>12, TypeOfLeave DEF PauseAfterRequeue, HasMessage, LocalsTypeOK, Places
  <2> QED
    BY <1>0, <2>1, <2>2, <2>3, <2>4, <2>5 DEF TypeInv, TypeOK
<1> QED
  BY <1>1, <1>2, <1>3, <1>4, <1>5, <1>6, <1>7, <1>8, <1>9, <1>10, <1>11, <1>12
  DEF WorkerStep

\* What can happen to a worker that runs a batch, or takes one.
LEMMA TypeOfTrouble ==
  ASSUME TypeInv, NEW w \in Slots, WorkerTrouble(w) \/ Startup(w)
  PROVE  TypeInv'
<1> USE DEF job, counters, folder, arq, locals, api, history, bounds
<1>0. /\ JobTypeOK /\ RowsTypeOK /\ FolderTypeOK /\ ArqTypeOK /\ LocalsTypeOK
      /\ ApiTypeOK /\ HasMessage
  BY DEF TypeInv, TypeOK
<1>1. CASE \E e \in queue : TakePaused(w, e)
  <2>1. RowsTypeOK' /\ FolderTypeOK' /\ LocalsTypeOK' /\ HasMessage'
    BY <1>0, <1>1 DEF TakePaused, RowsTypeOK, FolderTypeOK, LocalsTypeOK, HasMessage
  <2>2. JobTypeOK'
    BY <1>0, <1>1 DEF TakePaused, JobTypeOK, SetIfRunning, States
  <2>3. ApiTypeOK'
    BY <1>0, <1>1 DEF TakePaused, Incident, ApiTypeOK
  <2>4. ArqTypeOK'
    BY <1>0, <1>1 DEF TakePaused, ArqTypeOK, Entries, Ids
  <2> QED
    BY <2>1, <2>2, <2>3, <2>4 DEF TypeInv, TypeOK
<1>2. CASE \E e \in queue : TakeDegraded(w, e)
  <2>1. JobTypeOK' /\ RowsTypeOK' /\ FolderTypeOK' /\ LocalsTypeOK' /\ HasMessage'
    BY <1>0, <1>2 DEF TakeDegraded, JobTypeOK, RowsTypeOK, FolderTypeOK, LocalsTypeOK, HasMessage
  <2>2. ApiTypeOK'
    BY <1>0, <1>2 DEF TakeDegraded, Incident, ApiTypeOK
  <2>3. ArqTypeOK'
    BY <1>0, <1>2, TypeOfRetryEntry DEF TakeDegraded, ArqTypeOK, Entries, Ids
  <2> QED
    BY <2>1, <2>2, <2>3 DEF TypeInv, TypeOK
<1>3. CASE WriteTransient(w)
  <2>1. JobTypeOK' /\ RowsTypeOK' /\ FolderTypeOK' /\ ArqTypeOK'
    BY <1>0, <1>3 DEF WriteTransient, JobTypeOK, RowsTypeOK, FolderTypeOK, ArqTypeOK
  <2>2. ApiTypeOK'
    BY <1>0, <1>3 DEF WriteTransient, Incident, ApiTypeOK
  <2>3. LocalsTypeOK'
    BY <1>0, <1>3 DEF WriteTransient, LocalsTypeOK, Places
  <2>4. HasMessage'
    BY <1>0, <1>3 DEF WriteTransient, HasMessage, LocalsTypeOK, Places
  <2> QED
    BY <2>1, <2>2, <2>3, <2>4 DEF TypeInv, TypeOK
<1>4. CASE WriteFailure(w)
  <2> DEFINE u == Least(pending[w])
             attempts == failure[u].attempts + 1
  <2>0. u \in Uids /\ held[w] \in Snapshots
    <3>1. pending[w] \in SUBSET Uids /\ pending[w] # {} /\ held[w] \in Snapshots
      BY <1>0, <1>4 DEF WriteFailure, LocalsTypeOK, HasMessage
    <3> QED
      BY <3>1, LeastOfUids
  <2>1. JobTypeOK'
    <3>1. CASE Checkpoint(held[w], u, FALSE)
      BY <1>0, <2>0, <3>1, TypeOfCheckpoint
    <3>2. CASE CursorRefused(w, u)
      BY <1>0, <3>2 DEF CursorRefused, SetIfRunning, States, JobTypeOK
    <3>3. CASE UNCHANGED job
      BY <1>0, <3>3 DEF JobTypeOK
    <3> QED
      BY <1>4, <3>1, <3>2, <3>3 DEF WriteFailure
  <2>2. RowsTypeOK'
    <3>1. UNCHANGED proposals
      BY <1>4 DEF WriteFailure, CursorRefused
    <3>2. CASE UNCHANGED failure
      BY <1>0, <3>1, <3>2 DEF RowsTypeOK
    <3>3. CASE \E r \in Recoverable :
                 failure' = [failure EXCEPT ![u] =
                   [status |-> "failed", attempts |-> attempts, recoverable |-> r]]
      <4>1. PICK r \in Recoverable :
              failure' = [failure EXCEPT ![u] =
                [status |-> "failed", attempts |-> attempts, recoverable |-> r]]
        BY <3>3
      <4>2. r \in BOOLEAN
        BY DEF Recoverable
      <4>3. attempts \in Nat
        BY <1>0, <2>0 DEF RowsTypeOK
      <4> HIDE DEF u, attempts
      <4> QED
        BY <1>0, <2>0, <3>1, <4>1, <4>2, <4>3 DEF RowsTypeOK, Statuses
    <3> QED
      BY <1>4, <3>2, <3>3 DEF WriteFailure, CursorRefused
  <2>3. FolderTypeOK'
    BY <1>0, <1>4 DEF WriteFailure, FolderTypeOK
  <2>4. pc' = [pc EXCEPT ![w] = "scanning"] \/ Leave(w)
    BY <1>4 DEF WriteFailure, CursorRefused
  <2>5. ArqTypeOK'
    BY <1>0, <1>4, TypeOfLeave DEF WriteFailure, CursorRefused, ArqTypeOK, LocalsTypeOK
  <2>6. LocalsTypeOK'
    <3>1. pc' \in [Slots -> Places]
      BY <1>0, <2>4 DEF Leave, LocalsTypeOK, Places
    <3>2. todo' = todo /\ pending' \in [Slots -> SUBSET Uids]
      <4>1. \/ pending' = pending
            \/ pending' = [pending EXCEPT ![w] = @ \ {u}]
        BY <1>4 DEF WriteFailure, CursorRefused
      <4>2. todo' = todo
        BY <1>4 DEF WriteFailure, CursorRefused
      <4> QED
        BY <1>0, <4>1, <4>2 DEF LocalsTypeOK
    <3>3. yielded' \in [Slots -> {"no", "retry", "stopped"}]
      BY <1>0, <1>4 DEF WriteFailure, CursorRefused, LocalsTypeOK
    <3>4. UNCHANGED <<from, held, scan, done>>
      BY <1>4 DEF WriteFailure
    <3> QED
      BY <1>0, <3>1, <3>2, <3>3, <3>4 DEF LocalsTypeOK
  <2>7. ApiTypeOK'
    <3>1. orphaned' \in BOOLEAN
      BY <1>0, <1>4, TypeOfOrphan DEF WriteFailure, CursorRefused, ApiTypeOK
    <3>2. UNCHANGED <<api, retry, overlapped>> /\ Incident("hard")
      BY <1>4 DEF WriteFailure
    <3> QED
      BY <1>0, <3>1, <3>2 DEF Incident, ApiTypeOK
  <2>8. HasMessage'
    <3>1. pc'[w] # "saving" /\ pc'[w] # "writing"
      BY <1>0, <2>4 DEF Leave, LocalsTypeOK
    <3>2. \A v \in Slots \ {w} : /\ pc'[v] = pc[v] /\ todo'[v] = todo[v]
                                 /\ pending'[v] = pending[v]
      BY <1>0, <1>4, <2>4 DEF WriteFailure, CursorRefused, Leave, LocalsTypeOK
    <3> QED
      BY <1>0, <3>1, <3>2 DEF HasMessage
  <2> QED
    BY <2>1, <2>2, <2>3, <2>5, <2>6, <2>7, <2>8 DEF TypeInv, TypeOK
<1>5. CASE Raise(w)
  <2>1. JobTypeOK'
    BY <1>0, <1>5 DEF Raise, JobTypeOK, SetIfRunning, States
  <2>2. RowsTypeOK' /\ FolderTypeOK'
    BY <1>0, <1>5 DEF Raise, RowsTypeOK, FolderTypeOK
  <2>3. ApiTypeOK'
    <3>1. orphaned' \in BOOLEAN
      BY <1>0, <1>5, TypeOfOrphan DEF Raise, ApiTypeOK
    <3>2. UNCHANGED <<api, retry, overlapped>> /\ Incident("raise")
      BY <1>5 DEF Raise
    <3> QED
      BY <1>0, <3>1, <3>2 DEF Incident, ApiTypeOK
  <2>4. ArqTypeOK'
    BY <1>0, <1>5, TypeOfLeave DEF Raise, ArqTypeOK, LocalsTypeOK
  <2>5. LocalsTypeOK'
    BY <1>0, <1>5, TypeOfLeave DEF Raise, LocalsTypeOK, Places
  <2>6. HasMessage'
    BY <1>0, <1>5, TypeOfLeave DEF Raise, HasMessage, LocalsTypeOK, Places
  <2> QED
    BY <2>1, <2>2, <2>3, <2>4, <2>5, <2>6 DEF TypeInv, TypeOK
<1>6. CASE Crash(w)
  <2>1. JobTypeOK' /\ RowsTypeOK' /\ FolderTypeOK'
    BY <1>0, <1>6 DEF Crash, JobTypeOK, RowsTypeOK, FolderTypeOK
  <2>2. ApiTypeOK'
    BY <1>0, <1>6 DEF Crash, Incident, ApiTypeOK
  <2>3. ArqTypeOK'
    BY <1>0, <1>6 DEF Crash, Repeated, ArqTypeOK, Entries
  <2>4. LocalsTypeOK'
    BY <1>0, <1>6 DEF Crash, LocalsTypeOK, Places
  <2>5. HasMessage'
    BY <1>0, <1>6 DEF Crash, HasMessage, LocalsTypeOK, Places
  <2> QED
    BY <2>1, <2>2, <2>3, <2>4, <2>5 DEF TypeInv, TypeOK
<1>7. CASE Startup(w)
  <2>1. JobTypeOK' /\ RowsTypeOK' /\ FolderTypeOK' /\ ApiTypeOK'
    <3>1. orphaned' \in BOOLEAN
      BY <1>0, <1>7, Zenon DEF Startup, ApiTypeOK
    <3>2. /\ UNCHANGED <<job, failure, proposals, folder, api, retry, overlapped>>
          /\ UNCHANGED bounds \/ Incident("pause")
      BY <1>7 DEF Startup
    <3> QED
      BY <1>0, <3>1, <3>2 DEF Incident, JobTypeOK, RowsTypeOK, FolderTypeOK, ApiTypeOK
  <2>2. ArqTypeOK'
    BY <1>0, <1>7, TypeOfRetryEntry DEF Startup, ArqTypeOK
  <2>3. LocalsTypeOK'
    BY <1>0, <1>7 DEF Startup, LocalsTypeOK, Places
  <2>4. HasMessage'
    BY <1>0, <1>7 DEF Startup, HasMessage, LocalsTypeOK, Places
  <2> QED
    BY <2>1, <2>2, <2>3, <2>4 DEF TypeInv, TypeOK
<1> QED
  BY <1>1, <1>2, <1>3, <1>4, <1>5, <1>6, <1>7 DEF WorkerTrouble

\* A manual retry, from its request to its outcome.
RetryMove(u) == RequestRetry(u) \/ RetryStep(u) \/ RetryTrouble(u)

Task(u) == asked[u] # "no" \/ retry[u] # "none"

\* The row of a failure that is retried: left alone, marked, resolved, failed again.
Marked(u, status) == SetStatus(u, status) /\ UNCHANGED <<job, proposals>>
FailedAgain(u, r) ==
  /\ failure' = [failure EXCEPT ![u] =
       [status |-> "failed", attempts |-> @.attempts + 1, recoverable |-> r]]
  /\ UNCHANGED <<job, proposals>>

\* A manual retry concerns one row, and neither the folder nor the batches.
LEMMA RetryFrame ==
  ASSUME NEW u \in Uids, RetryMove(u)
  PROVE  /\ UNCHANGED <<state, cursor, uidvalidity, processed, folder, arq, pc, entry,
                        locals, client, history>>
         /\ \/ UNCHANGED bounds \/ Command \/ \E kind \in IncidentKinds : Incident(kind)
<1> USE DEF RetryMove, RetryStep, RetryTrouble, job, counters, folder, arq, locals, api,
        history, bounds
<1>1. CASE EndRetry(u)
  BY <1>1 DEF EndRetry, RetrySuccess, IncidentKinds
<1>2. CASE ~ EndRetry(u)
  BY <1>2 DEF RequestRetry, EnqueueRetry, RestoreFailure, RetryRequestDies, BeginRetry,
     BeginRetryPaused, RetryRaises, RetryCrashes, IncidentKinds
<1> QED
  BY <1>1, <1>2

LEMMA RetryRows ==
  ASSUME TypeInv, NEW u \in Uids, RetryMove(u)
  PROVE  \/ UNCHANGED <<job, failure, proposals>>
         \/ failure[u].status = "failed" /\ Marked(u, "retrying")
         \/ Task(u) /\ Marked(u, "failed")
         \/ Task(u) /\ RetrySuccess(u)
         \/ Task(u) /\ \E r \in BOOLEAN : FailedAgain(u, r)
<1> USE DEF RetryMove, RetryStep, RetryTrouble, job, counters
<1>1. CASE EndRetry(u)
  <2>1. Task(u)
    BY <1>1 DEF EndRetry, Task
  <2>2. RetrySuccess(u) \/ \E r \in Recoverable : FailedAgain(u, r)
    BY <1>1 DEF EndRetry, FailedAgain
  <2>3. Recoverable \subseteq BOOLEAN
    BY DEF Recoverable
  <2> QED
    BY <2>1, <2>2, <2>3
<1>2. CASE BeginRetryPaused(u)
  <2>1. Task(u) /\ UNCHANGED <<job, proposals>>
    BY <1>2 DEF BeginRetryPaused, Task
  <2>2. CASE failure[u].status = "retrying"
    BY <1>2, <2>1, <2>2 DEF BeginRetryPaused, Marked
  <2>3. CASE failure[u].status # "retrying"
    <3>1. failure' = [failure EXCEPT ![u].status = failure[u].status]
      BY <1>2, <2>3 DEF BeginRetryPaused, SetStatus
    <3>2. failure \in [Uids -> [status : Statuses, attempts : Nat, recoverable : BOOLEAN]]
      BY DEF TypeInv, TypeOK, RowsTypeOK
    <3>3. failure' = failure
      BY <3>1, <3>2
    <3> QED
      BY <2>1, <3>3
  <2> QED
    BY <2>2, <2>3
<1>3. CASE RequestRetry(u) \/ RestoreFailure(u)
  BY <1>3 DEF RequestRetry, RestoreFailure, Marked, Task
<1>4. CASE \/ EnqueueRetry(u) \/ RetryRequestDies(u) \/ BeginRetry(u)
           \/ RetryRaises(u) \/ RetryCrashes(u)
  BY <1>4 DEF EnqueueRetry, RetryRequestDies, BeginRetry, RetryRaises, RetryCrashes
<1> QED
  BY <1>1, <1>2, <1>3, <1>4

\* Only a request gives a failure a task; its last attempt has been made by then.
LEMMA RetryTasks ==
  ASSUME TypeInv, NEW u \in Uids, RetryMove(u)
  PROVE  /\ \A v \in Uids \ {u} : asked'[v] = asked[v] /\ retry'[v] = retry[v]
         /\ Task(u)' => \/ Task(u)
                        \/ failure[u].status = "failed" /\ failure[u].attempts >= MaxAttempts
         /\ asked' \in [Uids -> {"no", "enqueueing", "restoring"}]
         /\ retry' \in [Uids -> {"none", "queued", "running", "lost"}]
<1>1. /\ asked \in [Uids -> {"no", "enqueueing", "restoring"}]
      /\ retry \in [Uids -> {"none", "queued", "running", "lost"}]
  BY DEF TypeInv, TypeOK, ApiTypeOK
<1>2. CASE RequestRetry(u)
  BY <1>1, <1>2 DEF RequestRetry, Task
<1>3. CASE EnqueueRetry(u) \/ RestoreFailure(u) \/ RetryRequestDies(u)
  BY <1>1, <1>3 DEF EnqueueRetry, RestoreFailure, RetryRequestDies, Task
<1>4. CASE BeginRetry(u) \/ BeginRetryPaused(u) \/ EndRetry(u) \/ RetryRaises(u)
           \/ RetryCrashes(u)
  <2>1. asked' = asked /\ retry[u] # "none"
    BY <1>4 DEF BeginRetry, BeginRetryPaused, EndRetry, RetryRaises, RetryCrashes, api
  <2>2. \E x \in {"none", "queued", "running", "lost"} : retry' = [retry EXCEPT ![u] = x]
    BY <1>4 DEF BeginRetry, BeginRetryPaused, EndRetry, RetryRaises, RetryCrashes
  <2> QED
    BY <1>1, <2>1, <2>2 DEF Task
<1> QED
  BY <1>2, <1>3, <1>4 DEF RetryMove, RetryStep, RetryTrouble

LEMMA TypeOfRetry ==
  ASSUME TypeInv, NEW u \in Uids, RetryMove(u)
  PROVE  TypeInv'
<1> USE DEF job, counters, folder, arq, locals, history, bounds
<1>0. /\ JobTypeOK /\ RowsTypeOK /\ FolderTypeOK /\ ArqTypeOK /\ LocalsTypeOK
      /\ ApiTypeOK /\ HasMessage
  BY DEF TypeInv, TypeOK
<1>1. FolderTypeOK' /\ ArqTypeOK' /\ LocalsTypeOK' /\ HasMessage'
  BY <1>0, RetryFrame DEF FolderTypeOK, ArqTypeOK, LocalsTypeOK, HasMessage
<1>2. ApiTypeOK'
  <2>1. incidents' \in 0..MaxIncidents /\ commands' \in 0..MaxCommands
    BY <1>0, RetryFrame DEF Incident, Command, ApiTypeOK
  <2> QED
    BY <1>0, <2>1, RetryFrame, RetryTasks DEF ApiTypeOK
<1>3. JobTypeOK' /\ RowsTypeOK'
  <2>1. CASE UNCHANGED <<job, failure, proposals>>
    BY <1>0, <2>1 DEF JobTypeOK, RowsTypeOK
  <2>2. CASE \E status \in {"retrying", "failed"} : Marked(u, status)
    BY <1>0, <2>2 DEF JobTypeOK, RowsTypeOK, Marked, SetStatus, Statuses
  <2>3. CASE RetrySuccess(u)
    <3>1. JobTypeOK'
      BY <1>0, <2>3 DEF JobTypeOK, RetrySuccess
    <3>2. RowsTypeOK'
      BY <1>0, <2>3 DEF RowsTypeOK, RetrySuccess, Statuses
    <3> QED
      BY <3>1, <3>2
  <2>4. CASE \E r \in BOOLEAN : FailedAgain(u, r)
    BY <1>0, <2>4 DEF JobTypeOK, RowsTypeOK, FailedAgain, Statuses
  <2> QED
    BY <2>1, <2>2, <2>3, <2>4, RetryRows
<1> QED
  BY <1>1, <1>2, <1>3 DEF TypeInv, TypeOK

\* Steps of ARQ, of the folder, of the API and of the manual retries.
Surroundings ==
  \/ \E c \in Cursors : ResultExpires(c)
  \/ \E u \in Uids : Expunge(u) \/ RetryMove(u)
  \/ Deliver \/ ChangeUidValidity
  \/ Start \/ Resume \/ ClientStep \/ ClientDies
  \/ \E s \in {"paused", "cancelled"} : Control(s)

LEMMA TypeOfSurroundings ==
  ASSUME TypeInv, Surroundings
  PROVE  TypeInv'
<1> USE DEF job, counters, folder, arq, locals, api, history, bounds
<1>0. /\ JobTypeOK /\ RowsTypeOK /\ FolderTypeOK /\ ArqTypeOK /\ LocalsTypeOK
      /\ ApiTypeOK /\ HasMessage
  BY DEF TypeInv, TypeOK
<1>1. CASE \E c \in Cursors : ResultExpires(c)
  <2>1. JobTypeOK' /\ RowsTypeOK' /\ FolderTypeOK' /\ ArqTypeOK' /\ ApiTypeOK' /\ LocalsTypeOK' /\ HasMessage'
    BY <1>0, <1>1 DEF ResultExpires, JobTypeOK, RowsTypeOK, FolderTypeOK, ArqTypeOK, ApiTypeOK, LocalsTypeOK, HasMessage
  <2> QED
    BY <2>1 DEF TypeInv, TypeOK
<1>2. CASE \E u \in Uids : Expunge(u)
  <2>1. JobTypeOK' /\ RowsTypeOK' /\ ArqTypeOK' /\ LocalsTypeOK' /\ HasMessage'
    BY <1>0, <1>2 DEF Expunge, JobTypeOK, RowsTypeOK, ArqTypeOK, LocalsTypeOK, HasMessage
  <2>2. FolderTypeOK'
    BY <1>0, <1>2 DEF Expunge, FolderTypeOK
  <2>3. ApiTypeOK'
    BY <1>0, <1>2 DEF Expunge, Incident, ApiTypeOK
  <2> QED
    BY <2>1, <2>2, <2>3 DEF TypeInv, TypeOK
<1>3. CASE \E u \in Uids : RetryMove(u)
  BY <1>3, TypeOfRetry
<1>4. CASE ClientDies
  <2>1. JobTypeOK' /\ RowsTypeOK' /\ FolderTypeOK' /\ ArqTypeOK' /\ LocalsTypeOK' /\ HasMessage'
    BY <1>0, <1>4 DEF ClientDies, JobTypeOK, RowsTypeOK, FolderTypeOK, ArqTypeOK,
       LocalsTypeOK, HasMessage
  <2>2. orphaned' \in BOOLEAN
    BY <1>0, <1>4, Zenon DEF ClientDies, ApiTypeOK
  <2>3. /\ UNCHANGED <<asked, retry, overlapped>> /\ Incident("api_crash")
        /\ client' = [client EXCEPT !.at = "idle"]
    BY <1>4 DEF ClientDies
  <2>4. ApiTypeOK'
    BY <1>0, <2>2, <2>3 DEF Incident, ApiTypeOK
  <2> QED
    BY <2>1, <2>4 DEF TypeInv, TypeOK
<1>7. CASE Deliver
  <2>1. JobTypeOK' /\ RowsTypeOK' /\ ArqTypeOK' /\ LocalsTypeOK' /\ HasMessage'
    BY <1>0, <1>7 DEF Deliver, JobTypeOK, RowsTypeOK, ArqTypeOK, LocalsTypeOK, HasMessage
  <2>2. FolderTypeOK'
    BY <1>0, <1>7 DEF Deliver, FolderTypeOK, Cursors
  <2>3. ApiTypeOK'
    BY <1>0, <1>7 DEF Deliver, Incident, ApiTypeOK
  <2> QED
    BY <2>1, <2>2, <2>3 DEF TypeInv, TypeOK
<1>8. CASE ChangeUidValidity
  <2>1. JobTypeOK' /\ RowsTypeOK' /\ ArqTypeOK' /\ LocalsTypeOK' /\ HasMessage'
    BY <1>0, <1>8 DEF ChangeUidValidity, JobTypeOK, RowsTypeOK, ArqTypeOK, LocalsTypeOK, HasMessage
  <2>2. FolderTypeOK'
    BY <1>0, <1>8 DEF ChangeUidValidity, FolderTypeOK
  <2>3. ApiTypeOK'
    BY <1>0, <1>8 DEF ChangeUidValidity, Incident, ApiTypeOK
  <2> QED
    BY <2>1, <2>2, <2>3 DEF TypeInv, TypeOK
<1>9. CASE Start
  <2>1. JobTypeOK'
    BY <1>0, <1>9 DEF Start, JobTypeOK, States
  <2>2. RowsTypeOK' /\ FolderTypeOK' /\ ArqTypeOK' /\ LocalsTypeOK' /\ HasMessage'
    BY <1>0, <1>9 DEF Start, RowsTypeOK, FolderTypeOK, ArqTypeOK, LocalsTypeOK, HasMessage
  <2>3. ApiTypeOK'
    BY <1>0, <1>9 DEF Start, JobTypeOK, ApiTypeOK, States
  <2> QED
    BY <2>1, <2>2, <2>3 DEF TypeInv, TypeOK
<1>10. CASE Resume
  <2>1. JobTypeOK' /\ RowsTypeOK' /\ FolderTypeOK' /\ ArqTypeOK' /\ LocalsTypeOK' /\ HasMessage'
    BY <1>0, <1>10 DEF Resume, JobTypeOK, RowsTypeOK, FolderTypeOK, ArqTypeOK, LocalsTypeOK, HasMessage
  <2>2. ApiTypeOK'
    BY <1>0, <1>10 DEF Resume, Command, JobTypeOK, ApiTypeOK
  <2> QED
    BY <2>1, <2>2 DEF TypeInv, TypeOK
<1>11. CASE ResumeCommit
  <2>1. JobTypeOK'
    BY <1>0, <1>11 DEF ResumeCommit, JobTypeOK, States
  <2>2. RowsTypeOK' /\ FolderTypeOK' /\ ArqTypeOK' /\ LocalsTypeOK' /\ HasMessage'
    BY <1>0, <1>11 DEF ResumeCommit, RowsTypeOK, FolderTypeOK, ArqTypeOK, LocalsTypeOK, HasMessage
  <2>3. ApiTypeOK'
    BY <1>0, <1>11 DEF ResumeCommit, ApiTypeOK
  <2> QED
    BY <2>1, <2>2, <2>3 DEF TypeInv, TypeOK
<1>12. CASE ClientEnqueue
  <2>1. JobTypeOK' /\ RowsTypeOK' /\ FolderTypeOK' /\ LocalsTypeOK' /\ HasMessage'
    BY <1>0, <1>12 DEF ClientEnqueue, JobTypeOK, RowsTypeOK, FolderTypeOK, LocalsTypeOK, HasMessage
  <2>2. ArqTypeOK'
    BY <1>0, <1>12, TypeOfCursorEntry DEF ClientEnqueue, ArqTypeOK, ApiTypeOK
  <2>3. ApiTypeOK'
    <3>1. orphaned' \in BOOLEAN /\ UNCHANGED <<asked, retry, overlapped>>
      BY <1>0, <1>12 DEF ClientEnqueue, ApiTypeOK
    <3>2. \E at \in {"idle", "pausing"} : client' = [client EXCEPT !.at = at]
      BY <1>12 DEF ClientEnqueue
    <3>3. UNCHANGED bounds \/ Incident("redis")
      BY <1>12 DEF ClientEnqueue
    <3> QED
      BY <1>0, <3>1, <3>2, <3>3 DEF Incident, ApiTypeOK
  <2> QED
    BY <2>1, <2>2, <2>3 DEF TypeInv, TypeOK
<1>13. CASE ClientPause
  <2>1. JobTypeOK'
    BY <1>0, <1>13 DEF ClientPause, JobTypeOK, States
  <2>2. RowsTypeOK' /\ FolderTypeOK' /\ ArqTypeOK' /\ LocalsTypeOK' /\ HasMessage'
    BY <1>0, <1>13 DEF ClientPause, RowsTypeOK, FolderTypeOK, ArqTypeOK, LocalsTypeOK, HasMessage
  <2>3. ApiTypeOK'
    BY <1>0, <1>13 DEF ClientPause, ApiTypeOK
  <2> QED
    BY <2>1, <2>2, <2>3 DEF TypeInv, TypeOK
<1>14. CASE \E s \in {"paused", "cancelled"} : Control(s)
  <2>1. JobTypeOK'
    BY <1>0, <1>14 DEF Control, JobTypeOK, States
  <2>2. RowsTypeOK' /\ FolderTypeOK' /\ ArqTypeOK' /\ LocalsTypeOK' /\ HasMessage'
    BY <1>0, <1>14 DEF Control, RowsTypeOK, FolderTypeOK, ArqTypeOK, LocalsTypeOK, HasMessage
  <2>3. ApiTypeOK'
    BY <1>0, <1>14 DEF Control, Command, ApiTypeOK
  <2> QED
    BY <2>1, <2>2, <2>3 DEF TypeInv, TypeOK
<1> QED
  BY <1>1, <1>2, <1>3, <1>4, <1>7, <1>8, <1>9, <1>10, <1>11, <1>12, <1>13, <1>14
  DEF Surroundings, ClientStep

LEMMA TypeOfInit == Init => TypeInv
<1> SUFFICES ASSUME Init PROVE TypeInv
  OBVIOUS
<1>1. JobTypeOK /\ RowsTypeOK /\ FolderTypeOK
  BY DEF Init, JobTypeOK, RowsTypeOK, FolderTypeOK, States, Statuses, Cursors, Uids
<1>2. ArqTypeOK /\ LocalsTypeOK /\ HasMessage
  BY DEF Init, ArqTypeOK, LocalsTypeOK, HasMessage, Places, Entries, Ids, NoEntry,
         Snapshots, Blank, Cursors, Uids
<1>3. ApiTypeOK
  <2>1. incidents \in 0..MaxIncidents /\ commands \in 0..MaxCommands
    BY DEF Init
  <2>2. client \in [at : {"idle", "resuming", "enqueueing", "pausing"},
                   saw : States, cursor : Cursors]
    BY DEF Init, States, Cursors
  <2>3. /\ asked \in [Uids -> {"no", "enqueueing", "restoring"}]
        /\ retry \in [Uids -> {"none", "queued", "running", "lost"}]
    BY DEF Init
  <2>4. orphaned \in BOOLEAN /\ overlapped \in BOOLEAN
    BY DEF Init
  <2> QED
    BY <2>1, <2>2, <2>3, <2>4 DEF ApiTypeOK
<1> QED
  BY <1>1, <1>2, <1>3 DEF TypeInv, TypeOK

LEMMA TypeOfStep == TypeInv /\ [Next]_vars => TypeInv'
<1> SUFFICES ASSUME TypeInv, [Next]_vars PROVE TypeInv'
  OBVIOUS
<1>1. CASE \E w \in Slots : WorkerStep(w) \/ WorkerTrouble(w) \/ Startup(w)
  BY <1>1, TypeOfWorker, TypeOfTrouble
<1>2. CASE Surroundings
  BY <1>2, TypeOfSurroundings
<1>3. CASE UNCHANGED vars
  BY <1>3 DEF vars, job, counters, folder, arq, locals, api, history, bounds,
     TypeInv, TypeOK,
     JobTypeOK, RowsTypeOK, FolderTypeOK, ArqTypeOK, LocalsTypeOK, ApiTypeOK,
     HasMessage
<1> QED
  BY <1>1, <1>2, <1>3 DEF Next, Surroundings, RetryMove

LEMMA TypesHold == Spec => []TypeInv
BY TypeOfInit, TypeOfStep, PTL DEF Spec

\* Every variable keeps its type: in particular the cursors stay within the
\* folder and an entry is never tried more than MaxTries times.
THEOREM TypeCorrect == Spec => []TypeOK
<1>1. TypeInv => TypeOK
  BY DEF TypeInv
<1> QED
  BY <1>1, TypesHold, PTL

-----------------------------------------------------------------------------
(* The inductive invariant. *)

\* A message that has a proposal or a failure row.
Dealt(u) == u \in proposals \/ failure[u].status # "none"

\* A position of the folder with no gap up to it.
Reached(c) == c <= highest /\ \A v \in 1..c : Covered(v)

CursorReached == Reached(cursor)

\* Outcomes are written in UID order: what has one has no gap below it.  A
\* checkpoint may therefore set the cursor to the UID of any outcome.
DealtReached == \A u \in Uids : Dealt(u) => Reached(u)

\* What a batch in progress knows: the position it starts from has no gap
\* below, its rows to recover exist, and it still holds every message up to
\* the end of its window that has no outcome.
SlotInv(w) ==
  /\ pc[w] \in {"begun", "recovering"} => Reached(from[w])
  /\ pc[w] = "recovering" =>
       pending[w] = {} /\ \A u \in todo[w] : failure[u].status # "none"
  /\ pc[w] \in {"scanning", "saving", "writing"} =>
       /\ scan[w] <= highest
       /\ todo[w] \cup pending[w] \subseteq 1..scan[w]
       /\ \A v \in 1..scan[w] : v \in todo[w] \cup pending[w] \/ Covered(v)
       /\ done[w] => History \subseteq 1..scan[w]
  /\ pc[w] = "saving" => Least(todo[w]) \in proposals

SlotsInv == \A w \in Slots : SlotInv(w)

\* A retry has a row to work on.
RetriedFailed == \A u \in Uids : Task(u) => failure[u].status # "none"

HistoryBelow == History \subseteq 1..highest

RowInv ==
  /\ CursorReached /\ DealtReached /\ RetriedFailed /\ HistoryBelow
  /\ CompletedIsComplete /\ ResolvedHasProposal

CoverInv == TypeInv /\ RowInv /\ SlotsInv

-----------------------------------------------------------------------------
(* What no step undoes. *)

\* Outcomes stay, and the folder only grows above its highest UID.
Progress ==
  /\ highest <= highest'
  /\ mailbox' \cap (1..highest) \subseteq mailbox
  /\ proposals \subseteq proposals'
  /\ \A u \in Uids : failure[u].status # "none" => failure'[u].status # "none"

\* A position that was reached stays reached.
LEMMA CoverStays ==
  ASSUME TypeInv, TypeInv', Progress
  PROVE  /\ \A u \in 1..highest : Covered(u) => Covered(u)'
         /\ \A c \in Cursors : Reached(c) => Reached(c)'
<1>0. highest \in Cursors /\ highest' \in Cursors /\ 1..highest \subseteq Uids
  BY DEF TypeInv, TypeOK, FolderTypeOK, Cursors, Uids
<1>1. ASSUME NEW u \in 1..highest, Covered(u) PROVE Covered(u)'
  BY <1>0, <1>1 DEF Covered, Progress
<1>2. ASSUME NEW c \in Cursors, Reached(c) PROVE Reached(c)'
  <2>1. c <= highest /\ c <= highest'
    BY <1>0, <1>2 DEF Reached, Progress, Cursors
  <2>2. ASSUME NEW v \in 1..c PROVE Covered(v)'
    <3>1. v \in 1..highest
      BY <1>0, <2>1 DEF Cursors
    <3> QED
      BY <1>1, <1>2, <3>1 DEF Reached
  <2> QED
    BY <2>1, <2>2 DEF Reached
<1> QED
  BY <1>1, <1>2

\* The locals of a worker that the invariant is about.
SameSlot(w) ==
  /\ pc'[w] = pc[w] /\ from'[w] = from[w] /\ scan'[w] = scan[w]
  /\ todo'[w] = todo[w] /\ pending'[w] = pending[w] /\ done'[w] = done[w]

\* A worker that takes no step keeps what it knows.
LEMMA SlotStays ==
  ASSUME TypeInv, TypeInv', Progress, NEW w \in Slots, SlotInv(w), SameSlot(w)
  PROVE  SlotInv(w)'
<1>0. /\ from[w] \in Cursors /\ scan[w] \in Cursors /\ todo[w] \in SUBSET Uids
      /\ highest \in Cursors /\ highest' \in Cursors
  BY DEF TypeInv, TypeOK, LocalsTypeOK, FolderTypeOK
<1>1. (pc[w] \in {"begun", "recovering"} => Reached(from[w]))'
  <2> SUFFICES ASSUME pc[w] \in {"begun", "recovering"} PROVE Reached(from[w])'
    BY DEF SameSlot
  <2>1. Reached(from[w])
    BY DEF SlotInv
  <2> DEFINE c == from[w]
  <2>2. c \in Cursors /\ Reached(c)
    BY <1>0, <2>1
  <2>3. \A d \in Cursors : Reached(d) => Reached(d)'
    BY CoverStays
  <2>4. \A d \in Cursors : Reached(d) /\ from'[w] = d => Reached(from[w])'
    BY <2>3 DEF Reached
  <2> QED
    BY <1>0, <2>1, <2>4 DEF SameSlot
<1>2. (pc[w] = "recovering" =>
         pending[w] = {} /\ \A u \in todo[w] : failure[u].status # "none")'
  BY <1>0 DEF SlotInv, SameSlot, Progress
<1>3. (pc[w] \in {"scanning", "saving", "writing"} =>
         /\ scan[w] <= highest
         /\ todo[w] \cup pending[w] \subseteq 1..scan[w]
         /\ \A v \in 1..scan[w] : v \in todo[w] \cup pending[w] \/ Covered(v)
         /\ done[w] => History \subseteq 1..scan[w])'
  <2> SUFFICES ASSUME pc[w] \in {"scanning", "saving", "writing"}
               PROVE  (/\ scan[w] <= highest
                       /\ todo[w] \cup pending[w] \subseteq 1..scan[w]
                       /\ \A v \in 1..scan[w] : v \in todo[w] \cup pending[w] \/ Covered(v)
                       /\ done[w] => History \subseteq 1..scan[w])'
    BY DEF SameSlot
  <2>1. scan[w] <= highest' /\ 1..scan[w] \subseteq 1..highest
    BY <1>0 DEF SlotInv, Progress, Cursors
  <2>2. \A v \in 1..highest : Covered(v) => Covered(v)'
    BY CoverStays
  <2> QED
    BY <2>1, <2>2 DEF SlotInv, SameSlot
<1>4. (pc[w] = "saving" => Least(todo[w]) \in proposals)'
  BY DEF SlotInv, SameSlot, Progress
<1> QED
  BY <1>1, <1>2, <1>3, <1>4 DEF SlotInv

\* A worker between two batches knows nothing.
LEMMA SlotIdle ==
  ASSUME NEW w \in Slots,
         pc'[w] \notin {"begun", "recovering", "scanning", "saving", "writing"}
  PROVE  SlotInv(w)'
BY DEF SlotInv

\* A step that adds no outcome to a message that had none, leaves the cursor
\* and completes no job.
Quiet ==
  /\ Progress
  /\ cursor' = cursor
  /\ \A u \in Uids : Dealt(u)' => Dealt(u)
  /\ state' = "completed" => state = "completed"
  /\ \A u \in Uids : failure'[u].status = "resolved" =>
                       failure[u].status = "resolved" \/ u \in proposals'
  /\ \A u \in Uids : Task(u)' => Task(u) \/ failure'[u].status # "none"

\* History stays covered.
LEMMA HistoryStays ==
  ASSUME TypeInv, TypeInv', Progress, HistoryBelow
  PROVE  /\ HistoryBelow'
         /\ (\A u \in History : Covered(u)) => (\A u \in History : Covered(u)')
<1>1. highest \in Cursors /\ highest' \in Cursors /\ highest <= highest'
  BY DEF TypeInv, TypeOK, FolderTypeOK, Progress
<1>2. 1..highest \subseteq 1..highest'
  BY <1>1 DEF Cursors
<1> QED
  BY <1>2, CoverStays DEF HistoryBelow

LEMMA QuietKeeps ==
  ASSUME CoverInv, TypeInv', Quiet
  PROVE  RowInv'
<1>0. TypeInv /\ RowInv /\ Progress
  BY DEF CoverInv, Quiet
<1>1. CursorReached'
  <2>1. cursor \in Cursors /\ cursor' = cursor /\ Reached(cursor)
    BY <1>0 DEF TypeInv, TypeOK, JobTypeOK, Quiet, RowInv, CursorReached
  <2>2. \A c \in Cursors : Reached(c) /\ cursor' = c => Reached(cursor)'
    BY <1>0, CoverStays DEF Reached
  <2> QED
    BY <2>1, <2>2 DEF CursorReached
<1>2. DealtReached'
  <2> SUFFICES ASSUME NEW u \in Uids, Dealt(u)' PROVE Reached(u)'
    BY DEF DealtReached
  <2>1. Reached(u) /\ u \in Cursors
    BY <1>0 DEF Quiet, RowInv, DealtReached, Uids, Cursors
  <2> QED
    BY <1>0, <2>1, CoverStays
<1>3. RetriedFailed'
  BY <1>0 DEF Quiet, Progress, RowInv, RetriedFailed
<1>4. HistoryBelow'
  BY <1>0, HistoryStays DEF RowInv
<1>5. CompletedIsComplete'
  BY <1>0, HistoryStays DEF Quiet, RowInv, CompletedIsComplete
<1>6. ResolvedHasProposal'
  BY <1>0 DEF Quiet, Progress, RowInv, ResolvedHasProposal
<1> QED
  BY <1>1, <1>2, <1>3, <1>4, <1>5, <1>6 DEF RowInv

\* When only one worker moves, the others keep what they know.
OthersSame(w) == \A v \in Slots \ {w} : SameSlot(v)

LEMMA SlotsStay ==
  ASSUME CoverInv, TypeInv', Progress, NEW w \in Slots, OthersSame(w), SlotInv(w)'
  PROVE  SlotsInv'
<1> SUFFICES ASSUME NEW v \in Slots PROVE SlotInv(v)'
  BY DEF SlotsInv
<1>1. CASE v # w
  BY <1>1, SlotStays DEF CoverInv, SlotsInv, OthersSame
<1>2. CASE v = w
  BY <1>2
<1> QED
  BY <1>1, <1>2

\* A worker whose step leaves the rows alone.
LEMMA QuietStep ==
  ASSUME CoverInv, TypeInv', Quiet, NEW w \in Slots, OthersSame(w), SlotInv(w)'
  PROVE  CoverInv'
BY QuietKeeps, SlotsStay DEF CoverInv, Quiet

-----------------------------------------------------------------------------
(* Steps that leave every row, or only rows that had an outcome. *)

Rows == <<cursor, highest, mailbox, proposals, failure, asked, retry>>

LEMMA RowsQuiet ==
  ASSUME TypeInv, UNCHANGED Rows, state' = "completed" => state = "completed"
  PROVE  Quiet
BY DEF Rows, Quiet, Progress, Dealt, Task, TypeInv, TypeOK, FolderTypeOK, Cursors

\* What a worker started from stays reached.
LEMMA ReachedLocal ==
  ASSUME TypeInv, TypeInv', Progress, NEW w \in Slots, Reached(from[w]),
         from'[w] = from[w]
  PROVE  Reached(from[w])'
<1>1. from[w] \in Cursors
  BY DEF TypeInv, TypeOK, LocalsTypeOK
<1>2. \A c \in Cursors : Reached(c) /\ from'[w] = c => Reached(from[w])'
  BY CoverStays DEF Reached
<1> QED
  BY <1>1, <1>2

LEMMA CoverOfQuietWorker ==
  ASSUME CoverInv, TypeInv', NEW w \in Slots,
         \/ \E e \in queue : Take(w, e) \/ TakePaused(w, e) \/ TakeDegraded(w, e)
         \/ ListFailures(w) \/ Fetch(w) \/ Look(w) \/ Commit(w) \/ Result(w)
         \/ Requeue(w) \/ PauseAfterRequeue(w) \/ WriteTransient(w) \/ Raise(w)
         \/ Crash(w) \/ Startup(w)
  PROVE  CoverInv'
<1> USE DEF job, counters, folder, arq, locals, api, history, bounds
<1>0. TypeInv /\ TypeInv' /\ CoverInv
  BY DEF CoverInv
<1>1. CASE \E e \in queue : Take(w, e)
  <2>1. Quiet
    BY <1>0, <1>1, RowsQuiet DEF Take, Rows
  <2>2. OthersSame(w)
    BY <1>0, <1>1 DEF Take, OthersSame, SameSlot, TypeInv, TypeOK, LocalsTypeOK
  <2>3. SlotInv(w)'
    <3>1. CASE SameSlot(w)
      BY <1>0, <2>1, <3>1, SlotStays DEF Quiet, CoverInv, SlotsInv
    <3>2. CASE pc'[w] = "begun" /\ from'[w] = cursor
      <4>1. Reached(cursor)'
        BY <1>0, <2>1, QuietKeeps DEF RowInv, CursorReached
      <4>2. Reached(from[w])'
        BY <3>2, <4>1, <2>1 DEF Reached, Quiet
      <4> QED
        BY <3>2, <4>2 DEF SlotInv
    <3> QED
      BY <1>1, <3>1, <3>2 DEF Take, SameSlot, TypeInv, TypeOK, LocalsTypeOK
  <2> QED
    BY <1>0, <2>1, <2>2, <2>3, QuietStep
<1>2. CASE \E e \in queue : TakePaused(w, e)
  <2>1. Quiet
    BY <1>0, <1>2, RowsQuiet DEF TakePaused, Rows, SetIfRunning
  <2>2. OthersSame(w)
    BY <1>0, <1>2 DEF TakePaused, OthersSame, SameSlot, TypeInv, TypeOK, LocalsTypeOK, Leave
  <2>3. SlotInv(w)'
    BY <1>0, <1>2, <2>1, SlotStays DEF TakePaused, SameSlot, Quiet, CoverInv, SlotsInv
  <2> QED
    BY <1>0, <2>1, <2>2, <2>3, QuietStep
<1>3. CASE \E e \in queue : TakeDegraded(w, e)
  <2>1. Quiet
    BY <1>0, <1>3, RowsQuiet DEF TakeDegraded, Rows
  <2>2. OthersSame(w)
    BY <1>0, <1>3 DEF TakeDegraded, OthersSame, SameSlot, TypeInv, TypeOK, LocalsTypeOK, Leave
  <2>3. SlotInv(w)'
    BY <1>0, <1>3, <2>1, SlotStays DEF TakeDegraded, SameSlot, Quiet, CoverInv, SlotsInv
  <2> QED
    BY <1>0, <2>1, <2>2, <2>3, QuietStep
<1>4. CASE ListFailures(w)
  <2>1. Quiet
    BY <1>0, <1>4, RowsQuiet DEF ListFailures, Rows
  <2>2. OthersSame(w)
    BY <1>0, <1>4 DEF ListFailures, OthersSame, SameSlot, TypeInv, TypeOK, LocalsTypeOK
  <2>3. SlotInv(w)'
    <3>1. pc[w] = "begun" /\ Reached(from[w]) /\ from'[w] = from[w]
      BY <1>0, <1>4 DEF ListFailures, CoverInv, SlotsInv, SlotInv
    <3>2. Reached(from[w])'
      BY <1>0, <2>1, <3>1, ReachedLocal DEF Quiet
    <3>3. /\ pc'[w] = "recovering" /\ pending'[w] = {}
          /\ \A u \in todo'[w] : failure'[u].status # "none"
      BY <1>0, <1>4 DEF ListFailures, TypeInv, TypeOK, LocalsTypeOK
    <3> QED
      BY <3>2, <3>3 DEF SlotInv
  <2> QED
    BY <1>0, <2>1, <2>2, <2>3, QuietStep
<1>5. CASE Fetch(w)
  <2>1. Quiet
    BY <1>0, <1>5, RowsQuiet DEF Fetch, Rows
  <2>2. OthersSame(w)
    BY <1>0, <1>5 DEF Fetch, OthersSame, SameSlot, TypeInv, TypeOK, LocalsTypeOK, Leave
  <2>3. SlotInv(w)'
    <3>1. CASE pc'[w] = "free"
      BY <3>1, SlotIdle
    <3>2. CASE pc'[w] # "free"
      <4> DEFINE c == from[w]
                 z == ScanCursor(c)
      <4>1. /\ c \in Cursors /\ Reached(c) /\ mailbox \subseteq 1..highest
            /\ highest \in Cursors
        BY <1>0, <1>5 DEF Fetch, CoverInv, SlotsInv, SlotInv, TypeInv, TypeOK,
           LocalsTypeOK, FolderTypeOK
      <4>2. /\ Selected(c) \subseteq 1..z /\ z \in Cursors /\ z <= highest
            /\ \A v \in mailbox : v > c /\ v <= z => v \in Selected(c)
        BY <4>1, BatchIsComplete DEF Reached
      <4>3. /\ pc'[w] = "scanning" /\ todo'[w] = Selected(c) /\ scan'[w] = z
            /\ pending'[w] = pending[w] /\ done'[w] = (z >= highest)
            /\ UNCHANGED <<mailbox, proposals, failure, highest>>
        BY <1>0, <1>5, <3>2 DEF Fetch, Leave, TypeInv, TypeOK, LocalsTypeOK
      <4>4. pending[w] = {}
        BY <1>0, <1>5 DEF Fetch, CoverInv, SlotsInv, SlotInv
      <4> HIDE DEF c, z
      <4>5. \A v \in 1..z : v \in Selected(c) \/ Covered(v)
        <5> SUFFICES ASSUME NEW v \in 1..z, v \notin Selected(c) PROVE Covered(v)
          OBVIOUS
        <5>1. CASE v \in 1..c
          BY <4>1, <5>1 DEF Reached
        <5>2. CASE v \notin 1..c
          BY <4>1, <4>2, <5>2 DEF Covered, Cursors
        <5> QED
          BY <5>1, <5>2
      <4>6. \A v \in 1..z : Covered(v) => Covered(v)'
        BY <4>3 DEF Covered
      <4>7. z >= highest => History \subseteq 1..z
        BY <1>0, <4>1, <4>2 DEF CoverInv, RowInv, HistoryBelow, Cursors
      <4> QED
        BY <4>2, <4>3, <4>4, <4>5, <4>6, <4>7 DEF SlotInv
    <3> QED
      BY <3>1, <3>2
  <2> QED
    BY <1>0, <2>1, <2>2, <2>3, QuietStep
<1>6. CASE Look(w)
  <2>1. Quiet
    BY <1>0, <1>6, RowsQuiet DEF Look, Rows, Stop
  <2>2. OthersSame(w)
    BY <1>0, <1>6 DEF Look, OthersSame, SameSlot, TypeInv, TypeOK, LocalsTypeOK, Leave, Stop
  <2>3. SlotInv(w)'
    <3>1. /\ pc[w] \in {"scanning", "saving", "writing"} /\ SlotInv(w)
          /\ pc'[w] \in {"scanning", "saving", "writing"}
          /\ UNCHANGED <<mailbox, highest, proposals, failure>>
          /\ scan'[w] = scan[w] /\ done'[w] = done[w]
      BY <1>0, <1>6 DEF Look, Stop, CoverInv, SlotsInv, TypeInv, TypeOK, LocalsTypeOK
    <3>2. todo[w] \in SUBSET Uids /\ todo[w] # {}
      BY <1>0, <1>6 DEF Look, TypeInv, TypeOK, LocalsTypeOK
    <3>3. Least(todo[w]) \in todo[w]
      BY <3>2, LeastOfUids
    <3>4. todo'[w] \cup pending'[w] = todo[w] \cup pending[w]
      BY <1>0, <1>6, <3>3 DEF Look, Stop, TypeInv, TypeOK, LocalsTypeOK
    <3>5. pc'[w] = "saving" => todo'[w] = todo[w] /\ Least(todo[w]) \in proposals
      BY <1>0, <1>6 DEF Look, Stop, TypeInv, TypeOK, LocalsTypeOK
    <3>6. \A v \in 1..scan[w] : Covered(v) => Covered(v)'
      BY <3>1 DEF Covered
    <3> QED
      BY <3>1, <3>4, <3>5, <3>6 DEF SlotInv
  <2> QED
    BY <1>0, <2>1, <2>2, <2>3, QuietStep
<1>7. CASE Commit(w)
  <2>1. Quiet
    BY <1>0, <1>7, RowsQuiet DEF Commit, Rows, Stop
  <2>2. OthersSame(w)
    BY <1>0, <1>7 DEF Commit, OthersSame, SameSlot, TypeInv, TypeOK, LocalsTypeOK, Leave, Stop
  <2>3. SlotInv(w)'
    <3>1. /\ pc[w] \in {"scanning", "saving", "writing"} /\ SlotInv(w)
          /\ pc'[w] \in {"scanning", "saving", "writing"}
          /\ UNCHANGED <<mailbox, highest, proposals, failure>>
          /\ scan'[w] = scan[w] /\ done'[w] = done[w]
      BY <1>0, <1>7 DEF Commit, Stop, CoverInv, SlotsInv, TypeInv, TypeOK, LocalsTypeOK
    <3>4. todo'[w] \cup pending'[w] = todo[w] \cup pending[w]
      BY <1>0, <1>7 DEF Commit, Stop
    <3>5. pc'[w] = "saving" => todo'[w] = todo[w] /\ Least(todo[w]) \in proposals
      BY <1>0, <1>7 DEF Commit, Stop, TypeInv, TypeOK, LocalsTypeOK
    <3>6. \A v \in 1..scan[w] : Covered(v) => Covered(v)'
      BY <3>1 DEF Covered
    <3> QED
      BY <3>1, <3>4, <3>5, <3>6 DEF SlotInv
  <2> QED
    BY <1>0, <2>1, <2>2, <2>3, QuietStep
<1>8. CASE Result(w)
  <2>1. Quiet
    BY <1>0, <1>8, RowsQuiet DEF Result, Rows
  <2>2. OthersSame(w)
    BY <1>0, <1>8 DEF Result, OthersSame, SameSlot, TypeInv, TypeOK, LocalsTypeOK, Leave
  <2>3. SlotInv(w)'
    <3>1. pc'[w] \in {"free", "requeueing"}
      BY <1>0, <1>8 DEF Result, Leave, TypeInv, TypeOK, LocalsTypeOK
    <3> QED
      BY <3>1, SlotIdle
  <2> QED
    BY <1>0, <2>1, <2>2, <2>3, QuietStep
<1>9. CASE Requeue(w)
  <2>1. Quiet
    BY <1>0, <1>9, RowsQuiet DEF Requeue, Rows
  <2>2. OthersSame(w)
    BY <1>0, <1>9 DEF Requeue, OthersSame, SameSlot, TypeInv, TypeOK, LocalsTypeOK, Leave
  <2>3. SlotInv(w)'
    <3>1. pc'[w] \in {"free", "pausing"}
      BY <1>0, <1>9 DEF Requeue, Leave, TypeInv, TypeOK, LocalsTypeOK
    <3> QED
      BY <3>1, SlotIdle
  <2> QED
    BY <1>0, <2>1, <2>2, <2>3, QuietStep
<1>10. CASE PauseAfterRequeue(w)
  <2>1. Quiet
    BY <1>0, <1>10, RowsQuiet DEF PauseAfterRequeue, Rows, SetIfRunning
  <2>2. OthersSame(w)
    BY <1>0, <1>10 DEF PauseAfterRequeue, OthersSame, SameSlot, TypeInv, TypeOK, LocalsTypeOK, Leave
  <2>3. SlotInv(w)'
    <3>1. pc'[w] \in {"free"}
      BY <1>0, <1>10 DEF PauseAfterRequeue, Leave, TypeInv, TypeOK, LocalsTypeOK
    <3> QED
      BY <3>1, SlotIdle
  <2> QED
    BY <1>0, <2>1, <2>2, <2>3, QuietStep
<1>11. CASE WriteTransient(w)
  <2>1. Quiet
    BY <1>0, <1>11, RowsQuiet DEF WriteTransient, Rows
  <2>2. OthersSame(w)
    BY <1>0, <1>11 DEF WriteTransient, OthersSame, SameSlot, TypeInv, TypeOK, LocalsTypeOK, Leave
  <2>3. SlotInv(w)'
    <3>1. /\ pc[w] \in {"scanning", "saving", "writing"} /\ SlotInv(w)
          /\ pc'[w] \in {"scanning", "saving", "writing"}
          /\ UNCHANGED <<mailbox, highest, proposals, failure>>
          /\ scan'[w] = scan[w] /\ done'[w] = done[w]
      BY <1>0, <1>11 DEF WriteTransient, Stop, CoverInv, SlotsInv, TypeInv, TypeOK, LocalsTypeOK
    <3>4. todo'[w] \cup pending'[w] = todo[w] \cup pending[w]
      BY <1>0, <1>11 DEF WriteTransient, Stop
    <3>5. pc'[w] = "saving" => todo'[w] = todo[w] /\ Least(todo[w]) \in proposals
      BY <1>0, <1>11 DEF WriteTransient, Stop, TypeInv, TypeOK, LocalsTypeOK
    <3>6. \A v \in 1..scan[w] : Covered(v) => Covered(v)'
      BY <3>1 DEF Covered
    <3> QED
      BY <3>1, <3>4, <3>5, <3>6 DEF SlotInv
  <2> QED
    BY <1>0, <2>1, <2>2, <2>3, QuietStep
<1>12. CASE Raise(w)
  <2>1. Quiet
    BY <1>0, <1>12, RowsQuiet DEF Raise, Rows, SetIfRunning
  <2>2. OthersSame(w)
    BY <1>0, <1>12 DEF Raise, OthersSame, SameSlot, TypeInv, TypeOK, LocalsTypeOK, Leave
  <2>3. SlotInv(w)'
    <3>1. pc'[w] \in {"free"}
      BY <1>0, <1>12 DEF Raise, Leave, TypeInv, TypeOK, LocalsTypeOK
    <3> QED
      BY <3>1, SlotIdle
  <2> QED
    BY <1>0, <2>1, <2>2, <2>3, QuietStep
<1>13. CASE Crash(w)
  <2>1. Quiet
    BY <1>0, <1>13, RowsQuiet DEF Crash, Rows
  <2>2. OthersSame(w)
    BY <1>0, <1>13 DEF Crash, OthersSame, SameSlot, TypeInv, TypeOK, LocalsTypeOK, Leave
  <2>3. SlotInv(w)'
    <3>1. pc'[w] \in {"down"}
      BY <1>0, <1>13 DEF Crash, Leave, TypeInv, TypeOK, LocalsTypeOK
    <3> QED
      BY <3>1, SlotIdle
  <2> QED
    BY <1>0, <2>1, <2>2, <2>3, QuietStep
<1>14. CASE Startup(w)
  <2>1. Quiet
    BY <1>0, <1>14, RowsQuiet DEF Startup, Rows
  <2>2. OthersSame(w)
    BY <1>0, <1>14 DEF Startup, OthersSame, SameSlot, TypeInv, TypeOK, LocalsTypeOK, Leave
  <2>3. SlotInv(w)'
    <3>1. pc'[w] \in {"free"}
      BY <1>0, <1>14 DEF Startup, Leave, TypeInv, TypeOK, LocalsTypeOK
    <3> QED
      BY <3>1, SlotIdle
  <2> QED
    BY <1>0, <2>1, <2>2, <2>3, QuietStep
<1> QED
  BY <1>1, <1>2, <1>3, <1>4, <1>5, <1>6, <1>7, <1>8, <1>9, <1>10, <1>11, <1>12, <1>13, <1>14

-----------------------------------------------------------------------------
(* Steps that write an outcome, or move the cursor. *)

\* When the only new outcome is that of a position with no gap below, and the
\* cursor moves nowhere else, the rows keep their invariant.
LEMMA OutcomeKeeps ==
  ASSUME CoverInv, TypeInv', Progress, NEW u \in Cursors, Reached(u)',
         cursor' \in {cursor, u},
         \A v \in Uids : Dealt(v)' => Dealt(v) \/ v = u,
         \A v \in Uids : failure'[v].status = "resolved" =>
                            failure[v].status = "resolved" \/ v \in proposals',
         UNCHANGED <<asked, retry>>, CompletedIsComplete'
  PROVE  RowInv'
<1>0. TypeInv /\ RowInv
  BY DEF CoverInv
<1>1. CursorReached'
  <2>1. cursor \in Cursors /\ Reached(cursor)
    BY <1>0 DEF TypeInv, TypeOK, JobTypeOK, RowInv, CursorReached
  <2>2. \A c \in Cursors : Reached(c) /\ cursor' = c => Reached(cursor)'
    BY <1>0, CoverStays DEF Reached
  <2>3. CASE cursor' = cursor
    BY <2>1, <2>2, <2>3 DEF CursorReached
  <2>4. CASE cursor' = u
    BY <2>4 DEF CursorReached, Reached
  <2> QED
    BY <2>3, <2>4
<1>2. DealtReached'
  <2> SUFFICES ASSUME NEW v \in Uids, Dealt(v)', v # u PROVE Reached(v)'
    BY DEF DealtReached
  <2>1. Reached(v) /\ v \in Cursors
    BY <1>0 DEF RowInv, DealtReached, Uids, Cursors
  <2> QED
    BY <1>0, <2>1, CoverStays
<1>3. RetriedFailed'
  BY <1>0 DEF Progress, RowInv, RetriedFailed, Task
<1>4. HistoryBelow'
  BY <1>0, HistoryStays DEF RowInv
<1>5. ResolvedHasProposal'
  BY <1>0 DEF Progress, RowInv, ResolvedHasProposal
<1> QED
  BY <1>1, <1>2, <1>3, <1>4, <1>5 DEF RowInv

\* A row of a message that already has one is written.
LEMMA RetrySuccessIsQuiet ==
  ASSUME TypeInv, TypeInv', NEW u \in Uids, failure[u].status # "none",
         RetrySuccess(u), UNCHANGED folder,
         \A v \in Uids : Task(v)' => Task(v)
  PROVE  Quiet
<1>1. \A v \in Uids : failure'[v].status = IF v = u THEN "resolved" ELSE failure[v].status
  BY DEF RetrySuccess, TypeInv, TypeOK, RowsTypeOK
<1>2. /\ proposals' = proposals \cup {u} /\ cursor' = cursor /\ state' = state
      /\ highest' = highest /\ mailbox' = mailbox
  BY DEF RetrySuccess, folder
<1>3. Progress
  BY <1>1, <1>2 DEF Progress, TypeInv, TypeOK, FolderTypeOK, Cursors
<1>4. \A v \in Uids : Dealt(v)' => Dealt(v)
  BY <1>1, <1>2 DEF Dealt
<1> QED
  BY <1>1, <1>2, <1>3, <1>4 DEF Quiet

LEMMA CoverOfRecover ==
  ASSUME CoverInv, TypeInv', NEW w \in Slots, Recover(w)
  PROVE  CoverInv'
<1> USE DEF job, counters, folder, arq, locals, api, history, bounds
<1> DEFINE u == Least(todo[w])
<1>0. TypeInv /\ TypeInv' /\ CoverInv
  BY DEF CoverInv
<1>1. todo[w] \in SUBSET Uids /\ todo[w] # {}
  BY <1>0 DEF Recover, TypeInv, TypeOK, LocalsTypeOK
<1>2. u \in todo[w] /\ u \in Uids
  BY <1>1, LeastOfUids
<1>3. failure[u].status # "none" /\ Reached(from[w]) /\ pending[w] = {}
      /\ \A v \in todo[w] : failure[v].status # "none"
  BY <1>2 DEF Recover, CoverInv, SlotsInv, SlotInv
<1>4. Quiet
  <2>1. CASE RetrySuccess(u)
    BY <1>0, <1>2, <1>3, <2>1, RetrySuccessIsQuiet DEF Recover, api, Task
  <2>2. CASE UNCHANGED <<job, failure, proposals>>
    BY <1>0, <2>2, RowsQuiet DEF Recover, Rows
  <2> QED
    BY <2>1, <2>2 DEF Recover
<1>5. OthersSame(w)
  BY <1>0 DEF Recover, OthersSame, SameSlot, TypeInv, TypeOK, LocalsTypeOK
<1>6. SlotInv(w)'
  <2>1. Reached(from[w])'
    BY <1>0, <1>3, <1>4, ReachedLocal DEF Recover, Quiet
  <2>2. todo'[w] \subseteq todo[w]
    BY <1>0 DEF Recover, TypeInv, TypeOK, LocalsTypeOK
  <2>3. \A v \in todo'[w] : failure'[v].status # "none"
    BY <1>1, <1>3, <1>4, <2>2 DEF Quiet, Progress
  <2>4. pc'[w] = "recovering" /\ pending'[w] = {}
    BY <1>3 DEF Recover
  <2> QED
    BY <2>1, <2>3, <2>4 DEF SlotInv
<1> QED
  BY <1>0, <1>4, <1>5, <1>6, QuietStep

\* The least message that a batch still holds: below it there is no gap.
LEMMA LeastHeldIsReached ==
  ASSUME TypeInv, NEW w \in Slots, SlotInv(w), pc[w] = "writing",
         todo[w] = {}, pending[w] # {}
  PROVE  LET u == Least(pending[w])
         IN  /\ u \in pending[w] /\ u \in Uids /\ u <= highest
             /\ \A v \in 1..u : v = u \/ Covered(v)
<1> DEFINE u == Least(pending[w])
<1>1. /\ pending[w] \in SUBSET Uids /\ scan[w] \in Cursors /\ highest \in Cursors
  BY DEF TypeInv, TypeOK, LocalsTypeOK, FolderTypeOK
<1>2. u \in pending[w] /\ u \in Uids /\ \A v \in pending[w] : u <= v
  BY <1>1, LeastOfUids
<1>3. /\ u \in 1..scan[w] /\ scan[w] <= highest
      /\ \A v \in 1..scan[w] : v \in pending[w] \/ Covered(v)
  BY <1>2 DEF SlotInv
<1> HIDE DEF u
<1>4. u <= highest
  BY <1>1, <1>3 DEF Cursors
<1>5. ASSUME NEW v \in 1..u, v # u PROVE Covered(v)
  <2>1. v \in 1..scan[w] /\ v \notin pending[w]
    BY <1>1, <1>2, <1>3, <1>5 DEF Cursors, Uids
  <2> QED
    BY <1>3, <2>1
<1> QED
  BY <1>2, <1>4, <1>5 DEF u

\* The window of a batch that has written the outcome of u.
LEMMA SlotAfterOutcome ==
  ASSUME TypeInv, TypeInv', Progress, NEW w \in Slots, SlotInv(w),
         NEW u \in Uids, Dealt(u)',
         pc[w] \in {"saving", "writing"}, pc'[w] = "scanning",
         scan'[w] = scan[w], done'[w] = done[w],
         todo'[w] \cup pending'[w] \subseteq todo[w] \cup pending[w],
         (todo[w] \cup pending[w]) \ {u} \subseteq todo'[w] \cup pending'[w]
  PROVE  SlotInv(w)'
<1>1. /\ scan[w] \in Cursors /\ highest \in Cursors /\ highest' \in Cursors
      /\ scan[w] <= highest /\ highest <= highest'
  BY DEF TypeInv, TypeOK, LocalsTypeOK, FolderTypeOK, SlotInv, Progress
<1>2. scan[w] <= highest' /\ 1..scan[w] \subseteq 1..highest
  BY <1>1 DEF Cursors
<1>3. ASSUME NEW v \in 1..scan[w], v \notin todo'[w] \cup pending'[w]
      PROVE  Covered(v)'
  <2>1. CASE v = u
    BY <2>1 DEF Covered, Dealt
  <2>2. CASE v # u
    BY <1>2, <1>3, <2>2, CoverStays DEF SlotInv
  <2> QED
    BY <2>1, <2>2
<1> QED
  BY <1>2, <1>3 DEF SlotInv

\* A checkpoint moves the cursor to the message, if at all.
LEMMA CheckpointCursor ==
  ASSUME NEW h, NEW u, NEW ok, Checkpoint(h, u, ok)
  PROVE  cursor' \in {cursor, u} /\ state' = state
BY DEF Checkpoint, Written

\* The job stays complete or not.
LEMMA SameState ==
  ASSUME CoverInv, TypeInv', Progress, state' = state
  PROVE  CompletedIsComplete'
BY HistoryStays DEF CoverInv, RowInv, CompletedIsComplete

\* A refused checkpoint: the batch is over and only the state may change.
LEMMA CoverOfRefused ==
  ASSUME CoverInv, TypeInv', NEW w \in Slots, NEW u, CursorRefused(w, u),
         UNCHANGED <<folder, from, scan, done, asked, retry>>
  PROVE  CoverInv'
<1>0. TypeInv
  BY DEF CoverInv
<1>1. Quiet
  BY <1>0, RowsQuiet DEF CursorRefused, SetIfRunning, Rows, folder, counters
<1>2. OthersSame(w)
  BY <1>0 DEF CursorRefused, Leave, OthersSame, SameSlot, TypeInv, TypeOK, LocalsTypeOK
<1>3. pc'[w] = "free"
  BY <1>0 DEF CursorRefused, Leave, TypeInv, TypeOK, LocalsTypeOK
<1> QED
  BY <1>0, <1>1, <1>2, <1>3, SlotIdle, QuietStep

LEMMA CoverOfSave ==
  ASSUME CoverInv, TypeInv', NEW w \in Slots, Save(w)
  PROVE  CoverInv'
<1>0. TypeInv /\ TypeInv' /\ RowInv /\ SlotInv(w)
  BY DEF CoverInv, SlotsInv
<1>1. CASE CursorRefused(w, Least(todo[w]))
  BY <1>1, CoverOfRefused DEF Save, api
<1>2. CASE /\ Checkpoint(held[w], Least(todo[w]), TRUE)
           /\ todo' = [todo EXCEPT ![w] = @ \ {Least(todo[w])}]
           /\ pc' = [pc EXCEPT ![w] = "scanning"]
           /\ UNCHANGED <<failure, proposals, pending, yielded, retained>>
  <2>1. todo[w] \in SUBSET Uids /\ todo[w] # {} /\ pc[w] = "saving"
    BY <1>0 DEF Save, TypeInv, TypeOK, HasMessage, LocalsTypeOK
  <2>a. PICK u \in Uids : u = Least(todo[w])
    BY <2>1, LeastOfUids
  <2>2. u \in Uids /\ u \in proposals /\ u \in Cursors
    BY <1>0, <2>1, <2>a DEF SlotInv, Uids, Cursors
  <2>3. Reached(u) /\ Dealt(u)
    BY <1>0, <2>2 DEF RowInv, DealtReached, Dealt
  <2>4. UNCHANGED <<mailbox, highest, proposals, failure, asked, retry, from, scan, done, pending>>
    BY <1>2 DEF Save, folder, api
  <2>5. Progress
    BY <1>0, <2>4 DEF Progress, TypeInv, TypeOK, FolderTypeOK, Cursors
  <2>6. cursor' \in {cursor, u} /\ state' = state
    BY <1>2, <2>a, CheckpointCursor
  <2>7. Reached(u)' /\ Dealt(u)'
    BY <1>0, <2>2, <2>3, <2>4, <2>5, CoverStays DEF Dealt
  <2>8. \A v \in Uids : Dealt(v)' => Dealt(v) \/ v = u
    BY <2>4 DEF Dealt
  <2>9. CompletedIsComplete'
    BY <2>5, <2>6, SameState
  <2>10. RowInv'
    BY <2>2, <2>4, <2>5, <2>6, <2>7, <2>8, <2>9, OutcomeKeeps
  <2>11. OthersSame(w)
    BY <1>0, <1>2, <2>4 DEF OthersSame, SameSlot, TypeInv, TypeOK, LocalsTypeOK
  <2>12. /\ pc'[w] = "scanning" /\ scan'[w] = scan[w] /\ done'[w] = done[w]
         /\ todo'[w] = todo[w] \ {u} /\ pending'[w] = pending[w]
    BY <1>0, <1>2, <2>a, <2>4 DEF TypeInv, TypeOK, LocalsTypeOK
  <2>13. SlotInv(w)'
    BY <1>0, <2>1, <2>2, <2>5, <2>7, <2>12, SlotAfterOutcome
  <2> QED
    BY <1>0, <2>5, <2>10, <2>11, <2>13, SlotsStay DEF CoverInv
<1> QED
  BY <1>1, <1>2 DEF Save

\* The two ways to write an outcome share what follows from the rows.
LEMMA CoverOfOutcome ==
  ASSUME CoverInv, TypeInv', NEW w \in Slots, pc[w] = "writing",
         NEW u \in Uids, u = Least(pending[w]),
         pc' = [pc EXCEPT ![w] = "scanning"],
         cursor' \in {cursor, u}, state' = state,
         UNCHANGED <<folder, from, todo, scan, done, asked, retry>>,
         proposals \subseteq proposals', proposals' \subseteq proposals \cup {u},
         \A v \in Uids \ {u} : failure'[v] = failure[v],
         Dealt(u)', failure[u].status # "none" => failure'[u].status # "none",
         failure'[u].status = "resolved" => u \in proposals',
         pending' \in {pending, [pending EXCEPT ![w] = @ \ {u}]}
  PROVE  CoverInv'
<1>0. TypeInv /\ TypeInv' /\ RowInv /\ SlotInv(w)
  BY DEF CoverInv, SlotsInv
<1>1. todo[w] = {} /\ pending[w] # {}
  BY <1>0 DEF TypeInv, HasMessage
<1>2. u <= highest /\ \A v \in 1..u : v = u \/ Covered(v)
  BY <1>0, <1>1, LeastHeldIsReached
<1>3. UNCHANGED <<mailbox, highest, from, todo, scan, done, asked, retry>>
  BY DEF folder
<1>4. Progress
  BY <1>0, <1>3 DEF Progress, TypeInv, TypeOK, FolderTypeOK, Cursors
<1>5. u \in Cursors /\ 1..u \subseteq 1..highest
  BY <1>0, <1>2 DEF TypeInv, TypeOK, FolderTypeOK, Uids, Cursors
<1>6. Reached(u)'
  <2>1. \A v \in 1..u : Covered(v)'
    <3> SUFFICES ASSUME NEW v \in 1..u PROVE Covered(v)'
      OBVIOUS
    <3>1. CASE v = u
      BY <3>1 DEF Covered, Dealt
    <3>2. CASE v # u
      BY <1>0, <1>2, <1>4, <1>5, <3>2, CoverStays
    <3> QED
      BY <3>1, <3>2
  <2> QED
    BY <1>2, <1>3, <2>1 DEF Reached
<1>7. \A v \in Uids : Dealt(v)' => Dealt(v) \/ v = u
  BY DEF Dealt
<1>8. CompletedIsComplete'
  BY <1>4, SameState
<1>9. \A v \in Uids : failure'[v].status = "resolved" =>
                       failure[v].status = "resolved" \/ v \in proposals'
  OBVIOUS
<1>10. RowInv'
  BY <1>3, <1>4, <1>5, <1>6, <1>7, <1>8, <1>9, OutcomeKeeps
<1>11. OthersSame(w)
  BY <1>0, <1>3 DEF OthersSame, SameSlot, TypeInv, TypeOK, LocalsTypeOK
<1>12. /\ pc'[w] = "scanning" /\ scan'[w] = scan[w] /\ done'[w] = done[w]
       /\ todo'[w] = todo[w]
       /\ pending'[w] = pending[w] \/ pending'[w] = pending[w] \ {u}
  BY <1>0, <1>3 DEF TypeInv, TypeOK, LocalsTypeOK
<1>13. SlotInv(w)'
  BY <1>0, <1>4, <1>12, SlotAfterOutcome
<1> QED
  BY <1>0, <1>4, <1>10, <1>11, <1>13, SlotsStay DEF CoverInv

LEMMA CoverOfWriteProposal ==
  ASSUME CoverInv, TypeInv', NEW w \in Slots, WriteProposal(w)
  PROVE  CoverInv'
<1>0. TypeInv /\ TypeInv'
  BY DEF CoverInv
<1>1. CASE CursorRefused(w, Least(pending[w]))
  BY <1>1, CoverOfRefused DEF WriteProposal, api
<1>2. CASE ~ CursorRefused(w, Least(pending[w]))
  <2>0. pending[w] \in SUBSET Uids /\ pending[w] # {} /\ pc[w] = "writing"
    BY <1>0 DEF WriteProposal, TypeInv, TypeOK, HasMessage, LocalsTypeOK
  <2>1. PICK u \in Uids : u = Least(pending[w])
    BY <2>0, LeastOfUids
  <2>2. cursor' \in {cursor, u} /\ state' = state
    BY <1>2, <2>1, CheckpointCursor DEF WriteProposal
  <2>3. /\ pc' = [pc EXCEPT ![w] = "scanning"]
        /\ pending' = [pending EXCEPT ![w] = @ \ {u}]
        /\ UNCHANGED <<folder, from, todo, scan, done, asked, retry>>
        /\ proposals' = proposals \cup {u}
    BY <1>2, <2>1 DEF WriteProposal, api
  <2>4. failure' = failure \/ failure' = [failure EXCEPT ![u].status = "resolved",
                                                       ![u].recoverable = FALSE]
    BY <1>2, <2>1 DEF WriteProposal
  <2>5. /\ \A v \in Uids \ {u} : failure'[v] = failure[v]
        /\ failure[u].status # "none" => failure'[u].status # "none"
    BY <1>0, <2>1, <2>4 DEF TypeInv, TypeOK, RowsTypeOK
  <2>6. Dealt(u)'
    BY <2>3 DEF Dealt
  <2> QED
    BY <2>0, <2>1, <2>2, <2>3, <2>5, <2>6, CoverOfOutcome
<1> QED
  BY <1>1, <1>2

LEMMA CoverOfWriteFailure ==
  ASSUME CoverInv, TypeInv', NEW w \in Slots, WriteFailure(w)
  PROVE  CoverInv'
<1>0. TypeInv /\ TypeInv'
  BY DEF CoverInv
<1>1. CASE CursorRefused(w, Least(pending[w]))
  BY <1>1, CoverOfRefused DEF WriteFailure, api
<1>2. CASE ~ CursorRefused(w, Least(pending[w]))
  <2>0. pending[w] \in SUBSET Uids /\ pending[w] # {} /\ pc[w] = "writing"
    BY <1>0 DEF WriteFailure, TypeInv, TypeOK, HasMessage, LocalsTypeOK
  <2>1. PICK u \in Uids : u = Least(pending[w])
    BY <2>0, LeastOfUids
  <2>2. cursor' \in {cursor, u} /\ state' = state
    BY <1>2, <2>1, CheckpointCursor DEF WriteFailure, job
  <2>3. /\ pc' = [pc EXCEPT ![w] = "scanning"]
        /\ pending' \in {pending, [pending EXCEPT ![w] = @ \ {u}]}
        /\ UNCHANGED <<folder, from, todo, scan, done, asked, retry, proposals>>
    BY <1>2, <2>1 DEF WriteFailure, api
  <2>4. \E a, r : failure' = [failure EXCEPT ![u] =
                     [status |-> "failed", attempts |-> a, recoverable |-> r]]
    BY <1>2, <2>1 DEF WriteFailure
  <2>5. /\ \A v \in Uids \ {u} : failure'[v] = failure[v]
        /\ failure'[u].status = "failed"
    BY <1>0, <2>1, <2>4 DEF TypeInv, TypeOK, RowsTypeOK
  <2>6. Dealt(u)'
    BY <2>5 DEF Dealt
  <2> QED
    BY <2>0, <2>1, <2>2, <2>3, <2>5, <2>6, CoverOfOutcome
<1> QED
  BY <1>1, <1>2

LEMMA CoverOfFinish ==
  ASSUME CoverInv, TypeInv', NEW w \in Slots, Finish(w)
  PROVE  CoverInv'
<1> USE DEF job, counters, folder, arq, locals, api, history, bounds
<1>0. TypeInv /\ TypeInv' /\ RowInv /\ SlotInv(w)
  BY DEF CoverInv, SlotsInv
<1>1. OthersSame(w)
  BY <1>0 DEF Finish, OthersSame, SameSlot, TypeInv, TypeOK, LocalsTypeOK
<1>2. SlotInv(w)'
  <2>1. pc'[w] = "finished"
    BY <1>0 DEF Finish, TypeInv, TypeOK, LocalsTypeOK
  <2> QED
    BY <2>1, SlotIdle
<1>3. CASE UNCHANGED <<cursor, state>>
  <2>1. Quiet
    BY <1>0, <1>3, RowsQuiet DEF Finish, Rows
  <2> QED
    BY <1>0, <1>1, <1>2, <2>1, QuietStep
<1>4. CASE /\ state = "running" /\ yielded[w] = "no"
           /\ cursor' = IF scan[w] > cursor THEN scan[w] ELSE cursor
           /\ state' = IF done[w] THEN "completed" ELSE state
  <2>1. /\ pc[w] = "scanning" /\ todo[w] = {} /\ pending[w] = {}
        /\ UNCHANGED <<mailbox, highest, proposals, failure, asked, retry>>
    BY <1>4 DEF Finish
  <2>2. scan[w] \in Cursors /\ Reached(scan[w]) /\ (done[w] => History \subseteq 1..scan[w])
    BY <1>0, <2>1 DEF SlotInv, Reached, TypeInv, TypeOK, LocalsTypeOK
  <2>3. Progress
    BY <1>0, <2>1 DEF Progress, TypeInv, TypeOK, FolderTypeOK, Cursors
  <2>a. PICK u \in Cursors : u = scan[w]
    BY <2>2
  <2>4. Reached(u) /\ cursor' \in {cursor, u}
    BY <1>4, <2>2, <2>a
  <2>5. CompletedIsComplete'
    <3>1. done[w] => \A v \in History : Covered(v)
      BY <2>2 DEF Reached
    <3>2. state' = "completed" => \A v \in History : Covered(v)
      BY <1>0, <1>4, <3>1 DEF RowInv, CompletedIsComplete
    <3> QED
      BY <1>0, <2>3, <3>2, HistoryStays DEF RowInv, CompletedIsComplete
  <2>6. Reached(u)'
    BY <1>0, <2>3, <2>4, CoverStays
  <2>7. RowInv'
    BY <2>1, <2>3, <2>4, <2>5, <2>6, OutcomeKeeps DEF Dealt
  <2> QED
    BY <1>0, <1>1, <1>2, <2>3, <2>7, SlotsStay DEF CoverInv
<1> QED
  BY <1>3, <1>4 DEF Finish

-----------------------------------------------------------------------------
(* The other steps, and the theorems. *)

\* Users, the folder and retry tasks move no position.
LEMMA QuietSurroundings ==
  ASSUME CoverInv, TypeInv', Surroundings
  PROVE  Quiet
<1> USE DEF job, counters, folder, arq, locals, api, history, bounds
<1>0. TypeInv /\ TypeInv' /\ RowInv /\ SlotsInv
  BY DEF CoverInv
<1>1. CASE UNCHANGED Rows /\ (state' = "completed" => state = "completed")
  BY <1>0, <1>1, RowsQuiet
<1>2. CASE \E u \in Uids : Expunge(u)
  BY <1>0, <1>2 DEF Expunge, Quiet, Progress, Dealt, Task, Task, TypeInv, TypeOK, FolderTypeOK,
     Cursors
<1>3. CASE Deliver
  <2>1. highest' = highest + 1 /\ mailbox' = mailbox \cup {highest + 1}
    BY <1>3 DEF Deliver
  <2>2. highest \in Nat
    BY <1>0 DEF TypeInv, TypeOK, FolderTypeOK, Cursors
  <2>3. highest <= highest' /\ mailbox' \cap (1..highest) \subseteq mailbox
    BY <2>1, <2>2
  <2> QED
    BY <1>3, <2>3 DEF Deliver, Quiet, Progress, Dealt, Task
<1>4. CASE \E u \in Uids : RetryMove(u)
  <2>1. PICK u \in Uids : RetryMove(u)
    BY <1>4
  <2>2. UNCHANGED <<state, cursor, highest, mailbox>>
    BY <2>1, RetryFrame
  <2>3. \A v \in Uids : Task(v)' => Task(v) \/ (v = u /\ failure[u].status = "failed")
    BY <1>0, <2>1, RetryTasks DEF Task
  <2>4. Task(u) => failure[u].status # "none"
    BY <1>0 DEF RowInv, RetriedFailed
  <2>5. CASE UNCHANGED <<job, failure, proposals>>
    BY <1>0, <2>2, <2>3, <2>5 DEF Quiet, Progress, Dealt, TypeInv, TypeOK,
       FolderTypeOK, Cursors
  <2>6. CASE Task(u) /\ RetrySuccess(u)
    <3>1. \A v \in Uids : Task(v)' => Task(v)
      BY <2>3, <2>6
    <3> QED
      BY <1>0, <2>1, <2>4, <2>6, <3>1, RetryFrame, RetrySuccessIsQuiet
  <2>7. ASSUME NEW status \in {"failed", "retrying"}, failure[u].status # "none",
               \A v \in Uids : failure'[v].status = IF v = u THEN status ELSE failure[v].status,
               UNCHANGED proposals
        PROVE  Quiet
    BY <1>0, <2>2, <2>3, <2>7 DEF Quiet, Progress, Dealt, TypeInv, TypeOK,
       FolderTypeOK, Cursors
  <2>8. ASSUME NEW status \in {"failed", "retrying"}, failure[u].status # "none",
               Marked(u, status)
        PROVE  Quiet
    BY <1>0, <2>7, <2>8 DEF Marked, SetStatus, TypeInv, TypeOK, RowsTypeOK
  <2>9. CASE Task(u) /\ \E r \in BOOLEAN : FailedAgain(u, r)
    BY <1>0, <2>4, <2>7, <2>9 DEF FailedAgain, TypeInv, TypeOK, RowsTypeOK
  <2> QED
    BY <1>0, <2>1, <2>4, <2>5, <2>6, <2>8, <2>9, RetryRows
<1>7. CASE \/ \E c \in Cursors : ResultExpires(c)
           \/ ChangeUidValidity \/ Start \/ Resume \/ ClientStep \/ ClientDies
           \/ \E s \in {"paused", "cancelled"} : Control(s)
  BY <1>1, <1>7 DEF ResultExpires, ChangeUidValidity, Start, Resume, ClientStep,
     ResumeCommit, ClientEnqueue, ClientPause, ClientDies, Control, Rows
<1> QED
  BY <1>2, <1>3, <1>4, <1>7 DEF Surroundings

LEMMA CoverOfSurroundings ==
  ASSUME CoverInv, TypeInv', Surroundings
  PROVE  CoverInv'
<1> USE DEF job, counters, folder, arq, locals, api, history, bounds
<1>0. TypeInv /\ TypeInv' /\ RowInv /\ SlotsInv
  BY DEF CoverInv
<1>1. \A v \in Slots : SameSlot(v)
  BY RetryFrame DEF Surroundings, ResultExpires, Expunge, Deliver, ChangeUidValidity,
     Start, Resume, ClientStep, ResumeCommit, ClientEnqueue, ClientPause, ClientDies,
     Control, SameSlot
<1>2. Quiet
  BY QuietSurroundings
<1>3. SlotsInv'
  BY <1>0, <1>1, <1>2, SlotStays DEF SlotsInv, Quiet
<1> QED
  BY <1>0, <1>2, <1>3, QuietKeeps DEF CoverInv

LEMMA CoverOfInit == Init => CoverInv
<1> SUFFICES ASSUME Init PROVE CoverInv
  OBVIOUS
<1>1. TypeInv
  BY TypeOfInit
<1>2. highest \in Cursors /\ \A u \in History : u <= highest
  BY DEF Init
<1>3. SlotsInv
  BY DEF Init, SlotsInv, SlotInv
<1>4. /\ cursor = 0 /\ state = "none"
      /\ \A u \in Uids : failure[u].status = "none" /\ u \notin proposals /\ ~ Task(u)
  BY DEF Init, Task
<1>5. CursorReached
  BY <1>2, <1>4 DEF CursorReached, Reached, Cursors
<1>6. DealtReached /\ RetriedFailed /\ CompletedIsComplete /\ ResolvedHasProposal
  BY <1>4 DEF DealtReached, Dealt, RetriedFailed, CompletedIsComplete, ResolvedHasProposal
<1>7. HistoryBelow
  BY <1>2 DEF HistoryBelow, Uids, Cursors
<1> QED
  BY <1>1, <1>3, <1>5, <1>6, <1>7 DEF CoverInv, RowInv

LEMMA CoverOfStep == CoverInv /\ [Next]_vars => CoverInv'
<1> SUFFICES ASSUME CoverInv, [Next]_vars PROVE CoverInv'
  OBVIOUS
<1>1. TypeInv'
  BY TypeOfStep DEF CoverInv
<1>2. CASE \E w \in Slots : WorkerStep(w) \/ WorkerTrouble(w) \/ Startup(w)
  BY <1>1, <1>2, CoverOfQuietWorker, CoverOfRecover, CoverOfSave,
     CoverOfWriteProposal, CoverOfWriteFailure, CoverOfFinish
  DEF WorkerStep, WorkerTrouble
<1>3. CASE Surroundings
  BY <1>1, <1>3, CoverOfSurroundings
<1>4. CASE UNCHANGED vars
  <2>1. UNCHANGED Rows /\ state' = state
    BY <1>4 DEF vars, Rows, job, folder, api
  <2>2. Quiet
    BY <2>1, RowsQuiet DEF CoverInv
  <2>3. \A v \in Slots : SameSlot(v)
    BY <1>4 DEF vars, locals, SameSlot
  <2>4. SlotsInv'
    BY <1>1, <2>2, <2>3, SlotStays DEF CoverInv, SlotsInv, Quiet
  <2> QED
    BY <1>1, <2>2, <2>4, QuietKeeps DEF CoverInv
<1> QED
  BY <1>2, <1>3, <1>4 DEF Next, Surroundings, RetryMove

LEMMA CoverHolds == Spec => []CoverInv
BY CoverOfInit, CoverOfStep, PTL DEF Spec

\* No historical message is skipped: the cursor only passes messages that have a
\* proposal or a failure row, although pauses, crashes, retries, overlapping
\* batches and stale checkpoints move it back and forth (run_batch, checkpoint).
THEOREM ScanSkipsNothing == Spec => []NothingSkipped
<1>1. CoverInv => NothingSkipped
  BY DEF CoverInv, RowInv, CursorReached, Reached, NothingSkipped
<1> QED
  BY <1>1, CoverHolds, PTL

\* A job that was declared complete has dealt with all its history, also when
\* its last batch overlapped with another (complete_if_running).
THEOREM CompleteIsComplete == Spec => []CompletedIsComplete
<1>1. CoverInv => CompletedIsComplete
  BY DEF CoverInv, RowInv
<1> QED
  BY <1>1, CoverHolds, PTL

\* A failure is only resolved together with a proposal for its message
\* (resolve_failure, apply_retry_success).
THEOREM ResolvedIsProposed == Spec => []ResolvedHasProposal
<1>1. CoverInv => ResolvedHasProposal
  BY DEF CoverInv, RowInv
<1> QED
  BY <1>1, CoverHolds, PTL

-----------------------------------------------------------------------------
(* Retries and states. *)

\* A step of a worker marks no failure as waiting for its manual retry and
\* leaves the retry tasks alone.
LEMMA WorkersMarkNothing ==
  ASSUME TypeInv, NEW w \in Slots,
         WorkerStep(w) \/ WorkerTrouble(w) \/ Startup(w)
  PROVE  /\ UNCHANGED <<asked, retry, client, commands>>
         /\ \A u \in Uids : failure'[u].status = "retrying" =>
                              failure[u].status = "retrying"
<1> USE DEF job, counters, folder, arq, locals, api, history, bounds
<1>0. failure \in [Uids -> [status : Statuses, attempts : Nat, recoverable : BOOLEAN]]
  BY DEF TypeInv, TypeOK, RowsTypeOK
<1>1. CASE \/ \E e \in queue : Take(w, e) \/ TakePaused(w, e) \/ TakeDegraded(w, e)
           \/ ListFailures(w) \/ Fetch(w) \/ Look(w) \/ Save(w) \/ Commit(w)
           \/ Finish(w) \/ Result(w) \/ Requeue(w) \/ PauseAfterRequeue(w)
           \/ WriteTransient(w) \/ Raise(w) \/ Crash(w) \/ Startup(w)
  <2>1. UNCHANGED <<asked, retry, client, commands, failure>>
    BY <1>1 DEF Take, TakePaused, TakeDegraded, ListFailures, Fetch, Look, Save,
       CursorRefused, Commit, Finish, Result, Requeue, PauseAfterRequeue,
       WriteTransient, Raise, Crash, Startup, Incident
  <2> QED
    BY <2>1
<1>2. CASE Recover(w)
  <2>1. UNCHANGED <<asked, retry, client, commands>>
    BY <1>2 DEF Recover, Incident
  <2>2. failure' = failure \/ \E u : failure' =
          [failure EXCEPT ![u].status = "resolved", ![u].recoverable = FALSE]
    BY <1>2 DEF Recover, RetrySuccess
  <2> QED
    BY <1>0, <2>1, <2>2
<1>3. CASE WriteProposal(w)
  <2>1. UNCHANGED <<asked, retry, client, commands>>
    BY <1>3 DEF WriteProposal
  <2>2. failure' = failure \/ \E u : failure' =
          [failure EXCEPT ![u].status = "resolved", ![u].recoverable = FALSE]
    BY <1>3 DEF WriteProposal, CursorRefused
  <2> QED
    BY <1>0, <2>1, <2>2
<1>4. CASE WriteFailure(w)
  <2>1. UNCHANGED <<asked, retry, client, commands>>
    BY <1>4 DEF WriteFailure, Incident
  <2>2. failure' = failure \/ \E u, a, r : failure' =
          [failure EXCEPT ![u] = [status |-> "failed", attempts |-> a, recoverable |-> r]]
    BY <1>4 DEF WriteFailure, CursorRefused
  <2> QED
    BY <1>0, <2>1, <2>2
<1> QED
  BY <1>1, <1>2, <1>3, <1>4 DEF WorkerStep, WorkerTrouble

LEMMA RetryingOfStep == TypeInv /\ RetryingHasTask /\ [Next]_vars => RetryingHasTask'
<1> USE DEF job, counters, folder, arq, locals, history, bounds
<1> SUFFICES ASSUME TypeInv, RetryingHasTask, [Next]_vars PROVE RetryingHasTask'
  OBVIOUS
<1>0. /\ failure \in [Uids -> [status : Statuses, attempts : Nat, recoverable : BOOLEAN]]
      /\ retry \in [Uids -> {"none", "queued", "running", "lost"}]
      /\ asked \in [Uids -> {"no", "enqueueing", "restoring"}]
  BY DEF TypeInv, TypeOK, RowsTypeOK, ApiTypeOK
<1>1. CASE \E w \in Slots : WorkerStep(w) \/ WorkerTrouble(w) \/ Startup(w)
  BY <1>1, WorkersMarkNothing DEF RetryingHasTask
<1>2. CASE \E u \in Uids : RequestRetry(u)
  BY <1>0, <1>2 DEF RequestRetry, SetStatus, RetryingHasTask
<1>3. CASE \E u \in Uids : EnqueueRetry(u) \/ RetryRequestDies(u)
  BY <1>0, <1>3 DEF EnqueueRetry, RetryRequestDies, RetryingHasTask
<1>4. CASE \E u \in Uids : RestoreFailure(u)
  BY <1>0, <1>4 DEF RestoreFailure, SetStatus, RetryingHasTask
<1>5. CASE \E u \in Uids : BeginRetry(u) \/ RetryRaises(u) \/ RetryCrashes(u)
  BY <1>0, <1>5 DEF BeginRetry, RetryRaises, RetryCrashes, RetryingHasTask, api
<1>6. CASE \E u \in Uids : BeginRetryPaused(u)
  BY <1>0, <1>6 DEF BeginRetryPaused, SetStatus, RetryingHasTask, api
<1>7. CASE \E u \in Uids : EndRetry(u)
  <2>1. PICK u \in Uids : EndRetry(u)
    BY <1>7
  <2>2. retry' = [retry EXCEPT ![u] = "none"] /\ UNCHANGED asked
    BY <2>1 DEF EndRetry, api
  <2>3. \/ failure' = [failure EXCEPT ![u].status = "resolved", ![u].recoverable = FALSE]
        \/ \E a, r : failure' = [failure EXCEPT ![u] =
                       [status |-> "failed", attempts |-> a, recoverable |-> r]]
    BY <2>1 DEF EndRetry, RetrySuccess
  <2> QED
    BY <1>0, <2>2, <2>3 DEF RetryingHasTask
<1>8. CASE UNCHANGED <<failure, asked, retry>>
  BY <1>8 DEF RetryingHasTask
<1>9. CASE \E u \in Uids : RetryStep(u) \/ RetryTrouble(u)
  BY <1>3, <1>4, <1>5, <1>6, <1>7, <1>9 DEF RetryStep, RetryTrouble
<1> QED
  BY <1>1, <1>2, <1>8, <1>9 DEF Next, ResultExpires, Expunge, Deliver,
     ChangeUidValidity, Start, Resume, ClientStep, ResumeCommit, ClientEnqueue,
     ClientPause, ClientDies, Control, vars, api

\* A failure that is retrying always has a request or a task that will change that,
\* whichever step of retry_backfill_failure, process_backfill_failure and
\* BulkBackfillFailureService.retry fails, but for the three losses that the property
\* names: an API process that dies before it queued the task, a task that ends outside
\* the handler that restores the row, and a worker that dies on the last try.
THEOREM RetryKeepsTask == Spec => []RetryingHasTask
<1>1. Init => RetryingHasTask
  BY DEF Init, RetryingHasTask
<1>2. TypeInv /\ RetryingHasTask /\ [Next]_vars => RetryingHasTask'
  BY RetryingOfStep
<1> QED
  BY <1>1, <1>2, TypesHold, PTL DEF Spec

\* What moves a job that stopped.
LEMMA StoppedOfStep ==
  TypeInv /\ [Next]_vars =>
    [state \notin {"none", "running"} /\ state' # state =>
       \/ commands' # commands \/ client' # client
       \/ state' = "failed" /\ uidvalidity # epoch]_vars
<1> USE DEF job, counters, folder, arq, locals, api, history, bounds
<1> SUFFICES ASSUME TypeInv, Next, state \notin {"none", "running"}, state' # state
             PROVE  \/ commands' # commands \/ client' # client
                    \/ state' = "failed" /\ uidvalidity # epoch
  OBVIOUS
<1>1. ASSUME NEW w \in Slots, WorkerStep(w) \/ WorkerTrouble(w) \/ Startup(w)
      PROVE  state' = "failed" /\ uidvalidity # epoch
  <2>1. CASE Fetch(w)
    BY <2>1 DEF Fetch
  <2>2. CASE ~ Fetch(w)
    <3>1. state' = state
      BY <1>1, <2>2 DEF WorkerStep, WorkerTrouble, Startup, Take, TakePaused,
         TakeDegraded, ListFailures, Recover, RetrySuccess, Look, Save,
         CursorRefused, Checkpoint, SetIfRunning, Commit, WriteProposal,
         WriteTransient, WriteFailure, Finish, Result, Requeue,
         PauseAfterRequeue, Raise, Crash
    <3> QED
      BY <3>1
  <2> QED
    BY <2>1, <2>2
<1>2. CASE \E s \in {"paused", "cancelled"} : Control(s)
  BY <1>2 DEF Control, Command, TypeInv, TypeOK, ApiTypeOK
<1>3. CASE ResumeCommit \/ ClientPause
  BY <1>3 DEF ResumeCommit, ClientPause, TypeInv, TypeOK, ApiTypeOK
<1>4. CASE \E u \in Uids : RetryMove(u)
  BY <1>4, RetryFrame
<1>5. CASE \/ \E c \in Cursors : ResultExpires(c)
           \/ \E u \in Uids : Expunge(u)
           \/ Deliver \/ ChangeUidValidity \/ Start \/ Resume \/ ClientEnqueue \/ ClientDies
  BY <1>5 DEF ResultExpires, Expunge, Deliver, ChangeUidValidity, Start, Resume,
     ClientEnqueue, ClientDies
<1> QED
  BY <1>1, <1>2, <1>3, <1>4, <1>5 DEF Next, ClientStep, RetryMove

\* A job that stopped is moved on only by a request of a user, or failed because
\* the folder was renumbered (pause_if_running, complete_if_running, fail: each
\* of a worker's writes looks at the state first).
THEOREM StoppedIsKept == Spec => StoppedStaysStopped
<1>1. TypeInv /\ [Next]_vars =>
        [state \notin {"none", "running"} /\ state' # state =>
           \/ commands' # commands \/ client' # client
           \/ state' = "failed" /\ uidvalidity # epoch]_vars
  BY StoppedOfStep
<1> QED
  BY <1>1, TypesHold, PTL DEF Spec, StoppedStaysStopped

-----------------------------------------------------------------------------
(* One batch at a time, as long as none has overlapped another. *)

AtMostOne == \A v, w \in Slots : Busy(v) /\ Busy(w) => v = w

\* u comes before whatever of S is still ahead of the cursor.
Ahead(u, S) == \A v \in S : v > cursor => u <= v

\* Only the next message of the folder can have an outcome that the cursor has
\* not passed.
NextOnly == \A u \in Uids : u > cursor /\ Dealt(u) => Ahead(u, mailbox)

\* Nobody moved the cursor since the batch read it, and everything the batch
\* still holds is ahead of it.
BatchAhead(w) ==
  /\ pc[w] \in {"begun", "recovering"} => from[w] = cursor
  /\ pc[w] \in {"scanning", "saving", "writing"} =>
       /\ \A u \in todo[w] \cup pending[w] : u > cursor
       /\ todo[w] \cap pending[w] = {}
       /\ \A v \in mailbox : v > cursor /\ v <= scan[w] => v \in todo[w] \cup pending[w]
       /\ \A u \in Uids : u > cursor /\ Dealt(u) => Ahead(u, todo[w] \cup pending[w])
  /\ pc[w] \in {"saving", "writing"} =>
       held[w].cursor = cursor /\ held[w].processed = processed

BatchInv == AtMostOne /\ NextOnly /\ \A w \in Slots : BatchAhead(w)

\* The locals of a worker that BatchAhead is about.
SameBatch(w) == SameSlot(w) /\ held'[w] = held[w]

LEMMA BatchOfIdle ==
  ASSUME NEW w \in Slots,
         pc'[w] \notin {"begun", "recovering", "scanning", "saving", "writing"}
  PROVE  BatchAhead(w)'
BY DEF BatchAhead

\* A worker's step leaves the locals of the others alone.
LEMMA OthersSameBatch ==
  ASSUME TypeInv, NEW w \in Slots, WorkerStep(w) \/ WorkerTrouble(w) \/ Startup(w)
  PROVE  \A v \in Slots \ {w} : SameBatch(v)
<1> USE DEF job, counters, folder, arq, locals, api, history, bounds
<1>0. LocalsTypeOK
  BY DEF TypeInv, TypeOK
<1> SUFFICES ASSUME NEW v \in Slots \ {w} PROVE SameBatch(v)
  OBVIOUS
<1>1. CASE \/ \E e \in queue : Take(w, e) \/ TakePaused(w, e) \/ TakeDegraded(w, e)
           \/ ListFailures(w) \/ Recover(w) \/ Raise(w) \/ Crash(w) \/ Startup(w)
  BY <1>0, <1>1 DEF Take, TakePaused, TakeDegraded, ListFailures, Recover, Raise, Crash,
     Startup, Leave, SameBatch, SameSlot, LocalsTypeOK
<1>2. CASE Fetch(w) \/ Look(w) \/ Commit(w)
  BY <1>0, <1>2 DEF Fetch, Look, Stop, Commit, Leave, SameBatch, SameSlot, LocalsTypeOK
<1>3. CASE Save(w) \/ WriteProposal(w)
  BY <1>0, <1>3 DEF Save, WriteProposal, CursorRefused, Leave, SameBatch, SameSlot,
     LocalsTypeOK
<1>4. CASE WriteTransient(w) \/ WriteFailure(w)
  BY <1>0, <1>4 DEF WriteTransient, WriteFailure, CursorRefused, Leave, SameBatch,
     SameSlot, LocalsTypeOK
<1>5. CASE Finish(w) \/ Result(w) \/ Requeue(w) \/ PauseAfterRequeue(w)
  BY <1>0, <1>5 DEF Finish, Result, Requeue, PauseAfterRequeue, Leave, SameBatch,
     SameSlot, LocalsTypeOK
<1> QED
  BY <1>1, <1>2, <1>3, <1>4, <1>5 DEF WorkerStep, WorkerTrouble

\* The step of a worker that is alone in running a batch.
LEMMA BatchOfBusy ==
  ASSUME TypeInv, BatchInv, NEW w \in Slots, Busy(w),
         WorkerStep(w) \/ WorkerTrouble(w) \/ Startup(w), NextOnly', BatchAhead(w)'
  PROVE  BatchInv'
<1>1. \A v \in Slots \ {w} : pc[v] \in {"free", "down"} /\ pc'[v] = pc[v]
  BY OthersSameBatch DEF BatchInv, AtMostOne, Busy, SameBatch, SameSlot
<1>2. \A v \in Slots \ {w} : BatchAhead(v)'
  BY <1>1, BatchOfIdle
<1>3. AtMostOne'
  BY <1>1 DEF AtMostOne, Busy
<1> QED
  BY <1>2, <1>3 DEF BatchInv

\* A step that leaves the rows and the folder alone.
LEMMA BatchOfQuietRows ==
  ASSUME TypeInv, BatchInv, UNCHANGED Rows, UNCHANGED processed, NEW w \in Slots,
         WorkerStep(w) \/ WorkerTrouble(w) \/ Startup(w),
         Busy(w)' => Busy(w) \/ \A v \in Slots : ~ Busy(v),
         BatchAhead(w)'
  PROVE  BatchInv'
<1>1. \A v \in Slots \ {w} : SameBatch(v)
  BY OthersSameBatch
<1>2. \A v \in Slots \ {w} : BatchAhead(v)'
  BY <1>1 DEF BatchInv, BatchAhead, SameBatch, SameSlot, Rows, Ahead, Dealt
<1>3. AtMostOne'
  BY <1>1 DEF BatchInv, AtMostOne, Busy, SameBatch, SameSlot
<1>4. NextOnly'
  BY DEF BatchInv, Rows, NextOnly, Dealt, Ahead
<1> QED
  BY <1>2, <1>3, <1>4 DEF BatchInv

LEMMA BatchOfQuietWorker ==
  ASSUME CoverInv, BatchInv, ~ overlapped', NEW w \in Slots,
         \/ \E e \in queue : Take(w, e) \/ TakePaused(w, e) \/ TakeDegraded(w, e)
         \/ ListFailures(w) \/ Fetch(w) \/ Look(w) \/ Commit(w) \/ Result(w)
         \/ Requeue(w) \/ PauseAfterRequeue(w) \/ WriteTransient(w) \/ Raise(w)
         \/ Crash(w) \/ Startup(w)
  PROVE  BatchInv'
<1> USE DEF job, counters, folder, arq, locals, api, history, bounds
<1>0. /\ TypeInv /\ RowInv /\ SlotInv(w) /\ BatchAhead(w) /\ w \in Slots
      /\ pc \in [Slots -> Places] /\ from \in [Slots -> Cursors]
      /\ todo \in [Slots -> SUBSET Uids] /\ pending \in [Slots -> SUBSET Uids]
      /\ held \in [Slots -> Snapshots] /\ scan \in [Slots -> Cursors]
      /\ cursor \in Cursors
  BY DEF CoverInv, SlotsInv, BatchInv, TypeInv, TypeOK, LocalsTypeOK, JobTypeOK
<1>1. UNCHANGED Rows /\ UNCHANGED processed
  BY DEF Take, TakePaused, TakeDegraded, ListFailures, Fetch, Look, Stop, Commit, Result,
     Requeue, PauseAfterRequeue, WriteTransient, Raise, Crash, Startup, Rows
<1>2. BatchAhead(w)'
  <2>1. CASE \E e \in queue : Take(w, e)
    <3>1. \/ pc'[w] = "begun" /\ from'[w] = cursor
          \/ pc'[w] = "free"
      BY <1>0, <2>1 DEF Take
    <3> QED
      BY <1>1, <3>1 DEF BatchAhead, Rows
  <2>2. CASE \/ \E e \in queue : TakePaused(w, e) \/ TakeDegraded(w, e)
             \/ Result(w) \/ Requeue(w) \/ PauseAfterRequeue(w) \/ Raise(w)
             \/ Crash(w) \/ Startup(w)
    <3>1. pc'[w] \in {"free", "down", "finished", "requeueing", "pausing"}
      BY <1>0, <2>2 DEF TakePaused, TakeDegraded, Result, Requeue, PauseAfterRequeue,
         Raise, Crash, Startup, Leave
    <3> QED
      BY <1>0, <3>1, BatchOfIdle
  <2>3. CASE ListFailures(w)
    <3>1. pc[w] = "begun" /\ pc'[w] = "recovering" /\ from'[w] = from[w]
      BY <1>0, <2>3 DEF ListFailures
    <3> QED
      BY <1>0, <1>1, <3>1 DEF BatchAhead, Rows
  <2>4. CASE Fetch(w)
    <3>1. CASE pc'[w] = "free"
      BY <1>0, <3>1, BatchOfIdle
    <3>2. CASE pc'[w] # "free"
      <4>1. /\ pc[w] = "recovering" /\ pc'[w] = "scanning" /\ pending'[w] = pending[w]
            /\ todo'[w] = Selected(cursor) /\ scan'[w] = ScanCursor(cursor)
        <5>1. from[w] = cursor
          BY <1>0, <2>4 DEF Fetch, BatchAhead
        <5> QED
          BY <1>0, <2>4, <3>2, <5>1 DEF Fetch, Leave
      <4>2. pending[w] = {} /\ cursor <= highest
        BY <1>0, <4>1 DEF SlotInv, RowInv, CursorReached, Reached
      <4>3. /\ mailbox \subseteq 1..highest /\ highest \in Cursors
        BY <1>0 DEF TypeInv, TypeOK, FolderTypeOK
      <4>4. \A v \in mailbox : v > cursor /\ v <= ScanCursor(cursor) => v \in Selected(cursor)
        BY <1>0, <4>2, <4>3, BatchIsComplete
      <4>5. Selected(cursor) \subseteq mailbox /\ \A v \in Selected(cursor) : v > cursor
        BY DEF Selected, After
      <4> QED
        BY <1>0, <1>1, <4>1, <4>2, <4>4, <4>5
        DEF BatchAhead, Rows, BatchInv, NextOnly, Ahead, Dealt
    <3> QED
      BY <3>1, <3>2
  <2>5. CASE Look(w)
    <3>1. /\ scan'[w] = scan[w] /\ pc[w] = "scanning"
          /\ pc'[w] \in {"scanning", "saving"}
          /\ pc'[w] = "saving" => held'[w] = Snapshot
      BY <1>0, <2>5 DEF Look, Stop
    <3>2. /\ todo'[w] \cup pending'[w] = todo[w] \cup pending[w]
          /\ todo[w] \cap pending[w] = {} => todo'[w] \cap pending'[w] = {}
      <4>1. Least(todo[w]) \in todo[w]
        BY <1>0, <2>5, LeastOfUids DEF Look
      <4>2. \/ todo'[w] = todo[w] /\ pending'[w] = pending[w]
            \/ /\ todo'[w] = todo[w] \ {Least(todo[w])}
               /\ pending'[w] = pending[w] \cup {Least(todo[w])}
        BY <1>0, <2>5 DEF Look, Stop
      <4> QED
        BY <4>1, <4>2
    <3> QED
      BY <1>0, <1>1, <3>1, <3>2 DEF BatchAhead, Rows, Ahead, Dealt, Snapshot
  <2>6. CASE Commit(w)
    <3>1. /\ scan'[w] = scan[w] /\ pc[w] = "scanning"
          /\ todo'[w] = todo[w] /\ pending'[w] = pending[w]
          /\ pc'[w] \in {"scanning", "writing"}
          /\ pc'[w] = "writing" => held'[w] = Snapshot
      BY <1>0, <2>6 DEF Commit, Stop
    <3> QED
      BY <1>0, <1>1, <3>1 DEF BatchAhead, Rows, Ahead, Dealt, Snapshot
  <2>7. CASE WriteTransient(w)
    <3>1. /\ scan'[w] = scan[w] /\ pc[w] = "writing" /\ pc'[w] = "scanning"
          /\ todo'[w] = todo[w] /\ pending'[w] = pending[w]
      BY <1>0, <2>7 DEF WriteTransient
    <3> QED
      BY <1>0, <1>1, <3>1 DEF BatchAhead, Rows, Ahead, Dealt
  <2> QED
    BY <2>1, <2>2, <2>3, <2>4, <2>5, <2>6, <2>7
<1>3. Busy(w)' => Busy(w) \/ \A v \in Slots : ~ Busy(v)
  <2>1. CASE \E e \in queue : Take(w, e)
    BY <1>0, <2>1 DEF Take, Busy
  <2>2. CASE ~ \E e \in queue : Take(w, e)
    BY <1>0, <2>2 DEF TakePaused, TakeDegraded, ListFailures, Fetch, Look, Commit, Result,
       Requeue, PauseAfterRequeue, WriteTransient, Raise, Crash, Startup, Busy
  <2> QED
    BY <2>1, <2>2
<1> QED
  BY <1>0, <1>1, <1>2, <1>3, BatchOfQuietRows DEF WorkerStep, WorkerTrouble

\* A batch alone is never refused a checkpoint.
LEMMA NeverRefused ==
  ASSUME CoverInv, BatchInv, NEW w \in Slots,
         pc[w] \in {"saving", "writing"}
  PROVE  /\ pc[w] = "saving" => Least(todo[w]) > cursor /\ ~ (Least(todo[w]) < held[w].cursor)
         /\ pc[w] = "writing" => Least(pending[w]) > cursor
                                 /\ ~ (Least(pending[w]) < held[w].cursor)
<1>1. /\ pc[w] = "saving" => todo[w] # {}
      /\ pc[w] = "writing" => pending[w] # {}
      /\ todo[w] \in SUBSET Uids /\ pending[w] \in SUBSET Uids /\ cursor \in Cursors
  BY DEF CoverInv, TypeInv, TypeOK, HasMessage, LocalsTypeOK, JobTypeOK
<1>2. /\ pc[w] = "saving" => Least(todo[w]) \in todo[w]
      /\ pc[w] = "writing" => Least(pending[w]) \in pending[w]
  BY <1>1, LeastOfUids
<1>3. \A u \in todo[w] \cup pending[w] : u > cursor
  BY DEF BatchInv, BatchAhead
<1>5. cursor \in Nat /\ \A u \in todo[w] \cup pending[w] : u \in Nat
  BY <1>1 DEF Uids, Cursors
<1>4. held[w].cursor = cursor
  BY DEF BatchInv, BatchAhead
<1> QED
  BY <1>2, <1>3, <1>4, <1>5

\* A row whose retry or recovery succeeds or fails had an outcome before.
LEMMA BatchOfRecover ==
  ASSUME CoverInv, BatchInv, NEW w \in Slots, Recover(w)
  PROVE  BatchInv'
<1> USE DEF job, counters, folder, arq, locals, api, history, bounds
<1>0. /\ TypeInv /\ SlotInv(w) /\ BatchAhead(w) /\ w \in Slots
      /\ pc \in [Slots -> Places] /\ todo \in [Slots -> SUBSET Uids]
      /\ failure \in [Uids -> [status : Statuses, attempts : Nat, recoverable : BOOLEAN]]
  BY DEF CoverInv, SlotsInv, BatchInv, TypeInv, TypeOK, LocalsTypeOK, RowsTypeOK
<1>1. /\ pc[w] = "recovering" /\ pc' = pc /\ from' = from /\ todo[w] # {}
      /\ UNCHANGED <<cursor, mailbox>>
  BY DEF Recover, RetrySuccess
<1>2. BatchAhead(w)'
  BY <1>0, <1>1 DEF BatchAhead
<1> DEFINE u == Least(todo[w])
<1>3. u \in Uids /\ failure[u].status # "none"
  BY <1>0, <1>1, LeastOfUids DEF SlotInv
<1>4. \/ failure' = failure /\ proposals' = proposals
      \/ /\ failure' = [failure EXCEPT ![u].status = "resolved", ![u].recoverable = FALSE]
         /\ proposals' = proposals \cup {u}
  BY DEF Recover, RetrySuccess
<1>5. \A v \in Uids : Dealt(v)' => Dealt(v)
  BY <1>0, <1>3, <1>4 DEF Dealt
<1>6. NextOnly'
  BY <1>1, <1>5 DEF BatchInv, NextOnly, Ahead
<1> QED
  BY <1>0, <1>1, <1>2, <1>6, BatchOfBusy DEF WorkerStep, Busy

\* A checkpoint of the least message that the batch holds.
LEMMA BatchOfOutcome ==
  ASSUME CoverInv, BatchInv, TypeInv', NEW w \in Slots, NEW u \in Uids,
         pc[w] \in {"saving", "writing"}, pc'[w] = "scanning",
         u \in todo[w] \cup pending[w],
         \A v \in todo[w] \cup pending[w] : u <= v,
         WorkerStep(w) \/ WorkerTrouble(w), cursor' = u, UNCHANGED <<mailbox, scan>>,
         todo'[w] \cup pending'[w] = (todo[w] \cup pending[w]) \ {u},
         todo'[w] \cap pending'[w] = {},
         \A v \in Uids : Dealt(v)' => Dealt(v) \/ v = u
  PROVE  BatchInv'
<1>0. /\ TypeInv /\ SlotInv(w) /\ BatchAhead(w) /\ w \in Slots
      /\ todo[w] \in SUBSET Uids /\ pending[w] \in SUBSET Uids
      /\ cursor \in Cursors /\ mailbox \in SUBSET Uids
      /\ scan[w] \in Cursors
  <2>1. /\ TypeInv /\ SlotInv(w) /\ BatchAhead(w) /\ w \in Slots
        /\ todo[w] \in SUBSET Uids /\ pending[w] \in SUBSET Uids
        /\ cursor \in Cursors /\ scan[w] \in Cursors
    BY DEF CoverInv, SlotsInv, BatchInv, TypeInv, TypeOK, LocalsTypeOK, JobTypeOK
  <2>2. mailbox \in SUBSET Uids
    <3>1. mailbox \in SUBSET (1..highest) /\ highest \in Cursors
      BY <2>1 DEF TypeInv, TypeOK, FolderTypeOK
    <3>2. \A v \in 1..highest : v \in Uids
      BY <3>1 DEF Uids, Cursors
    <3> QED
      BY <3>1, <3>2
  <2> QED
    BY <2>1, <2>2
<1>1. u > cursor /\ u \in Nat /\ cursor \in Nat
  BY <1>0 DEF BatchAhead, Uids, Cursors
<1>2. \A v \in Uids : v \in Nat
  BY DEF Uids
<1>3. ASSUME NEW v \in Uids, v > u, Dealt(v)' PROVE FALSE
  <2>1. v > cursor /\ Dealt(v)
    BY <1>1, <1>2, <1>3
  <2>2. v <= u
    BY <1>0, <1>1, <2>1 DEF BatchAhead, Ahead
  <2> QED
    BY <1>2, <1>3, <2>2
<1>4. NextOnly'
  BY <1>3 DEF NextOnly
<1>7. BatchAhead(w)'
  <2>1. \A v \in todo'[w] \cup pending'[w] : v > u
    <3> SUFFICES ASSUME NEW v \in (todo[w] \cup pending[w]) \ {u} PROVE v > u
      OBVIOUS
    <3>1. u <= v /\ v # u /\ v \in Uids
      BY <1>0
    <3> QED
      BY <1>2, <3>1
  <2>2. \A v \in mailbox : v > u /\ v <= scan[w] => v \in todo'[w] \cup pending'[w]
    <3> SUFFICES ASSUME NEW v \in mailbox, v > u, v <= scan[w]
                 PROVE  v \in todo'[w] \cup pending'[w]
      OBVIOUS
    <3>1. v > cursor /\ v # u
      BY <1>0, <1>1, <1>2
    <3> QED
      BY <1>0, <3>1 DEF BatchAhead
  <2> QED
    BY <1>3, <2>1, <2>2 DEF BatchAhead
<1> QED
  BY <1>0, <1>4, <1>7, BatchOfBusy DEF Busy

LEMMA BatchOfSave ==
  ASSUME CoverInv, BatchInv, TypeInv', NEW w \in Slots, Save(w)
  PROVE  BatchInv'
<1> USE DEF job, counters, folder, arq, locals, api, history, bounds
<1> DEFINE u == Least(todo[w])
<1>0. /\ TypeInv /\ SlotInv(w) /\ BatchAhead(w) /\ w \in Slots /\ pc[w] = "saving"
      /\ pc \in [Slots -> Places] /\ todo \in [Slots -> SUBSET Uids]
      /\ pending[w] \in SUBSET Uids /\ todo[w] # {} /\ cursor \in Cursors
  BY DEF CoverInv, SlotsInv, BatchInv, TypeInv, TypeOK, LocalsTypeOK, HasMessage, Save,
     JobTypeOK
<1>1. u \in todo[w] /\ u \in Uids /\ \A v \in todo[w] : u <= v
  BY <1>0, LeastOfUids
<1>2. u > cursor /\ ~ (u < held[w].cursor)
  BY <1>0, NeverRefused
<1>3. /\ Checkpoint(held[w], u, TRUE) /\ todo' = [todo EXCEPT ![w] = @ \ {u}]
      /\ pc' = [pc EXCEPT ![w] = "scanning"]
      /\ UNCHANGED <<failure, proposals, pending, scan, mailbox>>
  BY <1>2 DEF Save, CursorRefused
<1>4. cursor' = u
  BY <1>0, <1>3 DEF Checkpoint, Written, BatchAhead
<1>5. \A v \in todo[w] \cup pending[w] : u <= v
  <2>1. Dealt(u)
    BY <1>0 DEF SlotInv, Dealt
  <2>2. \A v \in pending[w] : v > cursor
    BY <1>0 DEF BatchAhead
  <2> QED
    BY <1>0, <1>1, <1>2, <2>1, <2>2 DEF BatchAhead, Ahead
<1>6. /\ todo'[w] \cup pending'[w] = (todo[w] \cup pending[w]) \ {u}
      /\ todo'[w] \cap pending'[w] = {}
  BY <1>0, <1>1, <1>3 DEF BatchAhead
<1>8. pc'[w] = "scanning" /\ \A v \in Uids : Dealt(v)' => Dealt(v)
  BY <1>0, <1>3 DEF Dealt
<1>9. u \in todo[w] \cup pending[w] /\ UNCHANGED <<mailbox, scan>> /\ WorkerStep(w)
  BY <1>1, <1>3 DEF WorkerStep
<1> HIDE DEF u
<1> QED
  BY <1>0, <1>1, <1>4, <1>5, <1>6, <1>8, <1>9, BatchOfOutcome

LEMMA BatchOfWriteProposal ==
  ASSUME CoverInv, BatchInv, TypeInv', NEW w \in Slots, WriteProposal(w)
  PROVE  BatchInv'
<1> USE DEF job, counters, folder, arq, locals, api, history, bounds
<1> DEFINE u == Least(pending[w])
<1>0. /\ TypeInv /\ SlotInv(w) /\ BatchAhead(w) /\ w \in Slots /\ pc[w] = "writing"
      /\ pc \in [Slots -> Places] /\ pending \in [Slots -> SUBSET Uids]
      /\ todo[w] = {} /\ pending[w] # {} /\ cursor \in Cursors
      /\ failure \in [Uids -> [status : Statuses, attempts : Nat, recoverable : BOOLEAN]]
  BY DEF CoverInv, SlotsInv, BatchInv, TypeInv, TypeOK, LocalsTypeOK, HasMessage,
     WriteProposal, JobTypeOK, RowsTypeOK
<1>1. u \in pending[w] /\ u \in Uids /\ \A v \in pending[w] : u <= v
  BY <1>0, LeastOfUids
<1>2. u > cursor /\ ~ (u < held[w].cursor)
  BY <1>0, NeverRefused
<1>3. /\ Checkpoint(held[w], u, TRUE) /\ pending' = [pending EXCEPT ![w] = @ \ {u}]
      /\ pc' = [pc EXCEPT ![w] = "scanning"] /\ proposals' = proposals \cup {u}
      /\ \/ failure' = failure
         \/ failure' = [failure EXCEPT ![u].status = "resolved", ![u].recoverable = FALSE]
      /\ UNCHANGED <<todo, scan, mailbox>>
  BY <1>2 DEF WriteProposal, CursorRefused
<1>4. cursor' = u
  BY <1>0, <1>3 DEF Checkpoint, Written, BatchAhead
<1>5. /\ todo'[w] \cup pending'[w] = (todo[w] \cup pending[w]) \ {u}
      /\ todo'[w] \cap pending'[w] = {} /\ pc'[w] = "scanning"
  BY <1>0, <1>1, <1>3
<1>6. \A v \in Uids : Dealt(v)' => Dealt(v) \/ v = u
  BY <1>0, <1>3 DEF Dealt
<1>7. /\ u \in todo[w] \cup pending[w] /\ UNCHANGED <<mailbox, scan>>
      /\ \A v \in todo[w] \cup pending[w] : u <= v
      /\ WorkerStep(w)
  BY <1>0, <1>1, <1>3 DEF WorkerStep
<1> HIDE DEF u
<1> QED
  BY <1>0, <1>1, <1>4, <1>5, <1>6, <1>7, BatchOfOutcome

LEMMA BatchOfWriteFailure ==
  ASSUME CoverInv, BatchInv, TypeInv', NEW w \in Slots, WriteFailure(w)
  PROVE  BatchInv'
<1> USE DEF job, counters, folder, arq, locals, api, history, bounds
<1> DEFINE u == Least(pending[w])
           Recorded(r) == failure' = [failure EXCEPT ![u] =
             [status |-> "failed", attempts |-> failure[u].attempts + 1, recoverable |-> r]]
<1>0. /\ TypeInv /\ SlotInv(w) /\ BatchAhead(w) /\ w \in Slots /\ pc[w] = "writing"
      /\ pc \in [Slots -> Places] /\ pending \in [Slots -> SUBSET Uids]
      /\ todo[w] = {} /\ pending[w] # {} /\ cursor \in Cursors
      /\ failure \in [Uids -> [status : Statuses, attempts : Nat, recoverable : BOOLEAN]]
  BY DEF CoverInv, SlotsInv, BatchInv, TypeInv, TypeOK, LocalsTypeOK, HasMessage,
     WriteFailure, JobTypeOK, RowsTypeOK
<1>1. u \in pending[w] /\ u \in Uids /\ \A v \in pending[w] : u <= v
  BY <1>0, LeastOfUids
<1>2. u > cursor /\ ~ (u < held[w].cursor)
  BY <1>0, NeverRefused
<1>3. PICK r : Recorded(r)
  BY <1>2 DEF WriteFailure, CursorRefused
<1>4. \A v \in Uids : Dealt(v)' => Dealt(v) \/ v = u
  <2>1. /\ UNCHANGED proposals
    BY <1>2 DEF WriteFailure, CursorRefused
  <2> QED
    BY <1>0, <1>1, <1>3, <2>1 DEF Dealt
<1>6. /\ UNCHANGED <<mailbox, scan, todo>> /\ WorkerTrouble(w)
      /\ pc' = [pc EXCEPT ![w] = "scanning"]
  BY <1>2 DEF WriteFailure, CursorRefused, WorkerTrouble
<1>7. \/ /\ failure[u].attempts + 1 < MaxAttempts
         /\ UNCHANGED <<cursor, pending>>
      \/ /\ Checkpoint(held[w], u, FALSE)
         /\ pending' = [pending EXCEPT ![w] = @ \ {u}]
  BY <1>2 DEF WriteFailure, CursorRefused
<1>8. CASE /\ failure[u].attempts + 1 < MaxAttempts
           /\ UNCHANGED <<cursor, pending>>
  <2>1. NextOnly'
    <3> SUFFICES ASSUME NEW v \in Uids, v > cursor, Dealt(v)', NEW x \in mailbox,
                        x > cursor
                 PROVE  v <= x
      BY <1>6, <1>8 DEF NextOnly, Ahead
    <3>1. CASE v # u
      <4>1. Dealt(v)
        BY <1>4, <3>1
      <4> QED
        BY <4>1 DEF BatchInv, NextOnly, Ahead
    <3>2. CASE v = u
      <4>1. scan[w] \in Cursors /\ u <= scan[w] /\ u \in Nat
        BY <1>0, <1>1 DEF SlotInv, TypeInv, TypeOK, LocalsTypeOK, Cursors, Uids
      <4>2. x \in Nat
        BY <1>0 DEF TypeInv, TypeOK, FolderTypeOK
      <4>3. CASE x <= scan[w]
        BY <1>0, <1>1, <3>2, <4>3 DEF BatchAhead
      <4> QED
        BY <3>2, <4>1, <4>2, <4>3 DEF Cursors
    <3> QED
      BY <3>1, <3>2
  <2>4. BatchAhead(w)'
    <3>1. pc'[w] = "scanning"
      BY <1>0, <1>6
    <3>2. \A v \in Uids : v > cursor /\ Dealt(v)' => Ahead(v, pending[w])
      <4> SUFFICES ASSUME NEW v \in Uids, v > cursor, Dealt(v)'
                   PROVE  Ahead(v, pending[w])
        OBVIOUS
      <4>1. CASE v = u
        BY <1>1, <4>1 DEF Ahead
      <4>2. CASE v # u
        <5>1. Dealt(v)
          BY <1>4, <4>2
        <5> QED
          BY <1>0, <5>1 DEF BatchAhead
      <4> QED
        BY <4>1, <4>2
    <3> QED
      BY <1>0, <1>6, <1>8, <3>1, <3>2 DEF BatchAhead, Ahead
  <2> QED
    BY <1>0, <1>6, <2>1, <2>4, BatchOfBusy DEF Busy
<1>9. CASE /\ Checkpoint(held[w], u, FALSE)
           /\ pending' = [pending EXCEPT ![w] = @ \ {u}]
  <2>1. cursor' = u
    BY <1>0, <1>9 DEF Checkpoint, Written, BatchAhead
  <2>2. /\ todo'[w] \cup pending'[w] = (todo[w] \cup pending[w]) \ {u}
        /\ todo'[w] \cap pending'[w] = {} /\ pc'[w] = "scanning"
    BY <1>0, <1>1, <1>6, <1>9
  <2>3. /\ u \in todo[w] \cup pending[w] /\ UNCHANGED <<mailbox, scan>>
        /\ \A v \in todo[w] \cup pending[w] : u <= v
    BY <1>0, <1>1, <1>6
  <2> HIDE DEF u
  <2> QED
    BY <1>0, <1>1, <1>4, <1>6, <2>1, <2>2, <2>3, BatchOfOutcome
<1> QED
  BY <1>7, <1>8, <1>9

LEMMA BatchOfFinish ==
  ASSUME CoverInv, BatchInv, TypeInv', NEW w \in Slots, Finish(w)
  PROVE  BatchInv'
<1> USE DEF job, counters, folder, arq, locals, api, history, bounds
<1>0. TypeInv /\ w \in Slots /\ pc \in [Slots -> Places] /\ cursor \in Cursors
      /\ scan[w] \in Cursors
  BY DEF CoverInv, TypeInv, TypeOK, LocalsTypeOK, JobTypeOK
<1>1. /\ UNCHANGED <<mailbox, failure, proposals>>
      /\ cursor' = cursor \/ (cursor' = scan[w] /\ scan[w] > cursor)
      /\ pc'[w] = "finished"
  BY <1>0 DEF Finish
<1>2. cursor \in Nat /\ cursor' \in Nat /\ cursor <= cursor'
  BY <1>0, <1>1 DEF Cursors
<1>3. \A v : v \in Nat /\ v > cursor' => v > cursor
  BY <1>2
<1>4. /\ \A v \in mailbox : v \in Nat
      /\ \A v \in Uids : v \in Nat
  BY <1>0 DEF TypeInv, TypeOK, FolderTypeOK, Uids
<1>5. NextOnly'
  BY <1>1, <1>3, <1>4 DEF BatchInv, NextOnly, Ahead, Dealt
<1>6. BatchAhead(w)'
  BY <1>1, <1>0, BatchOfIdle
<1>7. Busy(w) /\ WorkerStep(w)
  BY DEF Finish, Busy, WorkerStep
<1> QED
  BY <1>0, <1>5, <1>6, <1>7, BatchOfBusy

\* Outcomes and the folder change, but no position that counts.
LEMMA BatchOfQuiet ==
  ASSUME CoverInv, BatchInv, TypeInv', Progress, cursor' = cursor,
         processed' = processed,
         \A u \in Uids : Dealt(u)' => Dealt(u),
         \A w \in Slots : SameBatch(w)
  PROVE  BatchInv'
<1>0. TypeInv /\ RowInv /\ SlotsInv /\ highest \in Cursors /\ highest' \in Cursors
      /\ mailbox' \subseteq 1..highest' /\ cursor \in Cursors
  BY DEF CoverInv, TypeInv, TypeOK, FolderTypeOK, JobTypeOK
<1>1. \A v \in mailbox' : v \in mailbox \/ v > highest
  BY <1>0 DEF Progress, Cursors
<1>2. NextOnly'
  <2> SUFFICES ASSUME NEW u \in Uids, u > cursor, Dealt(u)', NEW v \in mailbox',
                      v > cursor
               PROVE  u <= v
    BY DEF NextOnly, Ahead
  <2>1. Dealt(u)
    OBVIOUS
  <2>2. CASE v \in mailbox
    BY <2>1, <2>2 DEF BatchInv, NextOnly, Ahead
  <2>3. CASE v > highest
    <3>1. u <= highest
      BY <1>0, <2>1 DEF RowInv, DealtReached, Reached
    <3> QED
      BY <1>0, <2>3, <3>1 DEF Uids, Cursors
  <2> QED
    BY <1>1, <2>2, <2>3
<1>3. AtMostOne'
  BY DEF BatchInv, AtMostOne, Busy, SameBatch, SameSlot
<1>4. ASSUME NEW w \in Slots PROVE BatchAhead(w)'
  <2>1. /\ pc'[w] = pc[w] /\ from'[w] = from[w] /\ scan'[w] = scan[w]
        /\ todo'[w] = todo[w] /\ pending'[w] = pending[w] /\ held'[w] = held[w]
        /\ BatchAhead(w) /\ scan[w] \in Cursors
    BY <1>0 DEF SameBatch, SameSlot, BatchInv, TypeInv, TypeOK, LocalsTypeOK
  <2>2. pc[w] \in {"scanning", "saving", "writing"} =>
          \A v \in mailbox' : v > cursor /\ v <= scan[w] => v \in todo[w] \cup pending[w]
    <3> SUFFICES ASSUME pc[w] \in {"scanning", "saving", "writing"}, NEW v \in mailbox',
                        v > cursor, v <= scan[w]
                 PROVE  v \in todo[w] \cup pending[w]
      OBVIOUS
    <3>1. scan[w] <= highest
      BY <1>0 DEF SlotsInv, SlotInv
    <3>2. v \in Nat
      BY <1>0 DEF Cursors
    <3>3. v \in mailbox
      BY <1>0, <1>1, <2>1, <3>1, <3>2 DEF Cursors
    <3> QED
      BY <2>1, <3>3 DEF BatchAhead
  <2> QED
    BY <2>1, <2>2 DEF BatchAhead, Ahead
<1> QED
  BY <1>2, <1>3, <1>4 DEF BatchInv

LEMMA BatchOfSurroundings ==
  ASSUME CoverInv, BatchInv, TypeInv', Surroundings
  PROVE  BatchInv' /\ UNCHANGED <<cursor, processed, overlapped>>
<1> USE DEF job, counters, folder, arq, locals, api, history, bounds
<1>1. Quiet
  BY QuietSurroundings DEF CoverInv
<1>2. UNCHANGED <<cursor, processed, pc, locals, overlapped>>
  <2>1. CASE \E u \in Uids : RetryMove(u)
    BY <2>1, RetryFrame
  <2>2. CASE ~ \E u \in Uids : RetryMove(u)
    BY <2>2 DEF Surroundings, ResultExpires, Expunge, Deliver, ChangeUidValidity, Start,
       Resume, ClientStep, ResumeCommit, ClientEnqueue, ClientPause, ClientDies, Control
  <2> QED
    BY <2>1, <2>2
<1>3. \A w \in Slots : SameBatch(w)
  BY <1>2 DEF SameBatch, SameSlot
<1> QED
  BY <1>1, <1>2, <1>3, BatchOfQuiet DEF Quiet

LEMMA BatchOfWorker ==
  ASSUME CoverInv, BatchInv, TypeInv', ~ overlapped', NEW w \in Slots,
         WorkerStep(w) \/ WorkerTrouble(w) \/ Startup(w)
  PROVE  BatchInv'
BY BatchOfQuietWorker, BatchOfRecover, BatchOfSave, BatchOfWriteProposal,
   BatchOfWriteFailure, BatchOfFinish DEF WorkerStep, WorkerTrouble

LEMMA OverlapStays == TypeInv /\ [Next]_vars /\ ~ overlapped' => ~ overlapped
<1> USE DEF job, counters, folder, arq, locals, api, history, bounds
<1> SUFFICES ASSUME TypeInv, [Next]_vars, overlapped PROVE overlapped'
  OBVIOUS
<1>1. CASE \E w \in Slots : \E e \in queue : Take(w, e)
  BY <1>1, Zenon DEF Take
<1>2. CASE \E w \in Slots : (WorkerStep(w) \/ WorkerTrouble(w) \/ Startup(w))
                            /\ ~ \E e \in queue : Take(w, e)
  <2>1. PICK w \in Slots : (WorkerStep(w) \/ WorkerTrouble(w) \/ Startup(w))
                           /\ ~ \E e \in queue : Take(w, e)
    BY <1>2
  <2>2. overlapped' = overlapped
    BY <2>1 DEF WorkerStep, WorkerTrouble, TakePaused, TakeDegraded, ListFailures, Recover,
       Fetch, Look, Save, Commit, WriteProposal, WriteTransient, WriteFailure, Finish,
       Result, Requeue, PauseAfterRequeue, Raise, Crash, Startup
  <2> QED
    BY <2>2
<1>3. CASE Surroundings
  <2>1. CASE \E u \in Uids : RetryMove(u)
    BY <2>1, RetryFrame
  <2>2. CASE ~ \E u \in Uids : RetryMove(u)
    <3>1. overlapped' = overlapped
      BY <1>3, <2>2 DEF Surroundings, ResultExpires, Expunge, Deliver, ChangeUidValidity,
         Start, Resume, ClientStep, ResumeCommit, ClientEnqueue, ClientPause, ClientDies,
         Control
    <3> QED
      BY <3>1
  <2> QED
    BY <2>1, <2>2
<1>4. CASE UNCHANGED vars
  BY <1>4 DEF vars
<1> QED
  BY <1>1, <1>2, <1>3, <1>4 DEF Next, Surroundings, RetryMove

-----------------------------------------------------------------------------
(* Each message is counted once. *)

CountInv ==
  /\ processed >= Cardinality((1..cursor) \cap mailbox)
  /\ processed <= Cardinality({u \in 1..cursor : Counted(u)})

\* What was counted stays counted.
CountedStays == \A u \in Uids : Counted(u) => Counted(u)'

\* A position within the folder's bound.
LEMMA BelowCursor ==
  ASSUME TypeInv, NEW c \in Cursors
  PROVE  /\ 1..c \in SUBSET Uids
         /\ \A S : /\ IsFiniteSet((1..c) \cap S) /\ Cardinality((1..c) \cap S) \in Nat
         /\ IsFiniteSet({u \in 1..c : Counted(u)})
         /\ Cardinality({u \in 1..c : Counted(u)}) \in Nat
<1>1. 1..c \in SUBSET Uids
  BY DEF Cursors, Uids
<1>2. ASSUME NEW S
      PROVE  IsFiniteSet((1..c) \cap S) /\ Cardinality((1..c) \cap S) \in Nat
  <2>1. (1..c) \cap S \in SUBSET Uids
    BY <1>1
  <2> QED
    BY <2>1, SizeOfUids
<1>3. {u \in 1..c : Counted(u)} \in SUBSET Uids
  BY <1>1
<1> QED
  BY <1>1, <1>2, <1>3, SizeOfUids

\* The cursor stays, or passes no message of the folder.
LEMMA CountSame ==
  ASSUME TypeInv, TypeInv', CountInv, processed' = processed, CountedStays,
         cursor <= cursor',
         \A u \in mailbox' : u <= cursor' => u \in mailbox /\ u <= cursor
  PROVE  CountInv'
<1>0. /\ cursor \in Cursors /\ cursor' \in Cursors /\ processed \in Nat
      /\ mailbox' \subseteq Nat
  BY DEF TypeInv, TypeOK, JobTypeOK, FolderTypeOK
<1> DEFINE Low == (1..cursor) \cap mailbox
           NewLow == (1..cursor') \cap mailbox'
           Up == {u \in 1..cursor : Counted(u)}
           NewUp == {u \in 1..cursor' : Counted(u)'}
<1>1. /\ 1..cursor \in SUBSET Uids /\ 1..cursor' \in SUBSET Uids
      /\ IsFiniteSet(Low) /\ Cardinality(Low) \in Nat
  BY <1>0, BelowCursor
<1>2. NewUp \in SUBSET Uids
  BY <1>1
<1>3. NewLow \subseteq Low /\ Up \subseteq NewUp
  BY <1>0, <1>1 DEF CountedStays, Cursors
<1>4. /\ IsFiniteSet(NewUp) /\ Cardinality(NewUp) \in Nat
  BY <1>2, SizeOfUids
<1>5. Cardinality(NewLow) <= Cardinality(Low) /\ Cardinality(NewLow) \in Nat
  BY <1>1, <1>3, FS_Subset, FS_CardinalityType
<1>6. Cardinality(Up) <= Cardinality(NewUp) /\ Cardinality(Up) \in Nat
  BY <1>3, <1>4, FS_Subset, FS_CardinalityType
<1>7. processed >= Cardinality(Low) /\ processed <= Cardinality(Up)
  BY DEF CountInv
<1>8. processed >= Cardinality(NewLow) /\ processed <= Cardinality(NewUp)
  BY <1>0, <1>1, <1>4, <1>5, <1>6, <1>7
<1> HIDE DEF Low, NewLow, Up, NewUp
<1>9. processed' >= Cardinality(NewLow) /\ processed' <= Cardinality(NewUp)
  BY <1>8
<1> QED
  BY <1>9 DEF CountInv, NewLow, NewUp, Counted

\* Nothing moves.
LEMMA CountStill ==
  ASSUME TypeInv, TypeInv', CountInv, CountedStays,
         UNCHANGED <<cursor, processed, mailbox>>
  PROVE  CountInv'
<1>1. cursor \in Nat
  BY DEF TypeInv, TypeOK, JobTypeOK, Cursors
<1>2. cursor <= cursor' /\ \A u \in mailbox' : u <= cursor' => u \in mailbox /\ u <= cursor
  BY <1>1
<1> QED
  BY <1>2, CountSame

\* A checkpoint counts the one message that the cursor passes.
LEMMA CountGrows ==
  ASSUME TypeInv, TypeInv', CountInv, NEW u \in Uids, u > cursor, cursor' = u,
         processed' = processed + 1, mailbox' = mailbox, CountedStays, Counted(u)',
         \A v \in mailbox : v > cursor /\ v <= u => v = u
  PROVE  CountInv'
<1>0. /\ cursor \in Cursors /\ u \in Cursors /\ u \in Nat /\ cursor \in Nat
      /\ processed \in Nat /\ mailbox \subseteq Nat
  BY DEF TypeInv, TypeOK, JobTypeOK, FolderTypeOK, Cursors, Uids
<1> DEFINE Low == (1..cursor) \cap mailbox
           NewLow == (1..u) \cap mailbox
           Up == {v \in 1..cursor : Counted(v)}
           NewUp == {v \in 1..u : Counted(v)'}
<1>1. /\ 1..cursor \in SUBSET Uids /\ 1..u \in SUBSET Uids
      /\ IsFiniteSet(Low) /\ Cardinality(Low) \in Nat
      /\ IsFiniteSet(Up) /\ Cardinality(Up) \in Nat
  BY <1>0, BelowCursor
<1>2. NewUp \in SUBSET Uids
  BY <1>1
<1>3. NewLow \subseteq Low \cup {u}
  BY <1>0
<1>4. Up \cup {u} \subseteq NewUp /\ u \notin Up
  BY <1>0, <1>1 DEF CountedStays
<1>5. IsFiniteSet(NewUp) /\ Cardinality(NewUp) \in Nat
  BY <1>2, SizeOfUids
<1>6. /\ IsFiniteSet(Low \cup {u}) /\ Cardinality(Low \cup {u}) <= Cardinality(Low) + 1
      /\ Cardinality(Low \cup {u}) \in Nat
  <2>1. u \notin Low
    BY <1>0
  <2>2. IsFiniteSet(Low \cup {u}) /\ Cardinality(Low \cup {u}) = Cardinality(Low) + 1
    BY <1>1, <2>1, FS_AddElement
  <2> QED
    BY <1>1, <2>2
<1>7. /\ IsFiniteSet(Up \cup {u}) /\ Cardinality(Up \cup {u}) = Cardinality(Up) + 1
  BY <1>1, <1>4, FS_AddElement
<1>8. Cardinality(NewLow) <= Cardinality(Low \cup {u}) /\ Cardinality(NewLow) \in Nat
  BY <1>3, <1>6, FS_Subset, FS_CardinalityType
<1>9. Cardinality(Up \cup {u}) <= Cardinality(NewUp)
  BY <1>4, <1>5, FS_Subset
<1>10. processed >= Cardinality(Low) /\ processed <= Cardinality(Up)
  BY DEF CountInv
<1> HIDE DEF Low, NewLow, Up, NewUp
<1>11. processed + 1 >= Cardinality(NewLow) /\ processed + 1 <= Cardinality(NewUp)
  BY <1>0, <1>1, <1>5, <1>6, <1>7, <1>8, <1>9, <1>10
<1> QED
  BY <1>11 DEF CountInv, NewLow, NewUp, Counted

\* The least message that a batch holds is the next one of the folder.
LEMMA NextOfBatch ==
  ASSUME CoverInv, BatchInv, NEW w \in Slots, pc[w] \in {"saving", "writing"},
         NEW u \in todo[w] \cup pending[w], \A v \in todo[w] \cup pending[w] : u <= v
  PROVE  \A v \in mailbox : v > cursor /\ v <= u => v = u
<1>1. /\ SlotInv(w) /\ BatchAhead(w) /\ scan[w] \in Nat /\ mailbox \subseteq Nat
      /\ todo[w] \cup pending[w] \subseteq Nat
  BY DEF CoverInv, SlotsInv, BatchInv, TypeInv, TypeOK, LocalsTypeOK, FolderTypeOK, Uids,
     Cursors
<1>2. u <= scan[w]
  BY <1>1 DEF SlotInv
<1> SUFFICES ASSUME NEW v \in mailbox, v > cursor, v <= u PROVE v = u
  OBVIOUS
<1>3. v \in todo[w] \cup pending[w]
  BY <1>1, <1>2 DEF BatchAhead
<1> QED
  BY <1>1, <1>3

LEMMA CountOfOutcome ==
  ASSUME CoverInv, BatchInv, CountInv, TypeInv', NEW w \in Slots,
         Save(w) \/ WriteProposal(w) \/ WriteFailure(w)
  PROVE  CountInv'
<1> USE DEF job, counters, folder, arq, locals, api, history, bounds
<1>0. /\ TypeInv /\ SlotInv(w) /\ BatchAhead(w)
      /\ todo[w] \in SUBSET Uids /\ pending[w] \in SUBSET Uids
      /\ failure \in [Uids -> [status : Statuses, attempts : Nat, recoverable : BOOLEAN]]
      /\ cursor \in Cursors
  BY DEF CoverInv, SlotsInv, BatchInv, TypeInv, TypeOK, LocalsTypeOK, RowsTypeOK, JobTypeOK
<1>1. CASE Save(w)
  <2>1. pc[w] = "saving" /\ todo[w] # {}
    BY <1>0, <1>1 DEF Save, TypeInv, HasMessage
  <2>0. PICK u \in todo[w] : u = Least(todo[w]) /\ \A v \in todo[w] : u <= v
    BY <1>0, <2>1, LeastOfUids
  <2>2. u \in Uids /\ u > cursor /\ ~ (u < held[w].cursor) /\ u \in proposals
    BY <1>0, <2>0, <2>1, NeverRefused DEF SlotInv
  <2>3. Checkpoint(held[w], u, TRUE) /\ UNCHANGED <<failure, proposals, mailbox>>
    BY <1>1, <2>0, <2>2 DEF Save, CursorRefused
  <2>4. cursor' = u /\ processed' = processed + 1
    BY <1>0, <2>1, <2>3 DEF Checkpoint, Written, BatchAhead
  <2>5. CountedStays /\ Counted(u)'
    BY <2>2, <2>3 DEF CountedStays, Counted
  <2>6. \A v \in todo[w] \cup pending[w] : u <= v
    <3>1. Dealt(u) /\ \A v \in pending[w] : v > cursor
      BY <1>0, <2>1, <2>2 DEF Dealt, BatchAhead
    <3> QED
      BY <1>0, <2>0, <2>1, <2>2, <3>1 DEF BatchAhead, Ahead
  <2>7. \A v \in mailbox : v > cursor /\ v <= u => v = u
    BY <2>1, <2>6, NextOfBatch
  <2> QED
    BY <1>0, <2>2, <2>3, <2>4, <2>5, <2>7, CountGrows
<1>2. CASE WriteProposal(w) \/ WriteFailure(w)
  <2>1. pc[w] = "writing" /\ pending[w] # {} /\ todo[w] = {}
    BY <1>0, <1>2 DEF WriteProposal, WriteFailure, TypeInv, HasMessage
  <2>0. PICK u \in pending[w] : u = Least(pending[w]) /\ \A v \in pending[w] : u <= v
    BY <1>0, <2>1, LeastOfUids
  <2>2. u \in Uids /\ u > cursor /\ ~ (u < held[w].cursor)
    BY <1>0, <2>0, <2>1, NeverRefused
  <2>3. \A v \in mailbox : v > cursor /\ v <= u => v = u
    BY <2>0, <2>1, NextOfBatch
  <2>4. CASE WriteProposal(w)
    <3>1. /\ Checkpoint(held[w], u, TRUE) /\ proposals' = proposals \cup {u}
          /\ \/ failure' = failure
             \/ failure' = [failure EXCEPT ![u].status = "resolved", ![u].recoverable = FALSE]
          /\ UNCHANGED mailbox
      BY <2>0, <2>2, <2>4 DEF WriteProposal, CursorRefused
    <3>2. cursor' = u /\ processed' = processed + 1
      BY <1>0, <2>1, <3>1 DEF Checkpoint, Written, BatchAhead
    <3>3. \A v \in Uids : failure'[v].attempts = failure[v].attempts
      BY <1>0, <2>2, <3>1
    <3>4. CountedStays /\ Counted(u)'
      BY <3>1, <3>3 DEF CountedStays, Counted
    <3> QED
      BY <1>0, <2>2, <2>3, <3>1, <3>2, <3>4, CountGrows
  <2>5. CASE WriteFailure(w)
    <3>1. PICK r : failure' = [failure EXCEPT ![u] =
            [status |-> "failed", attempts |-> failure[u].attempts + 1, recoverable |-> r]]
      BY <2>0, <2>2, <2>5 DEF WriteFailure, CursorRefused
    <3>2. /\ UNCHANGED <<proposals, mailbox>>
          /\ \/ UNCHANGED <<cursor, processed>>
             \/ /\ failure[u].attempts + 1 >= MaxAttempts
                /\ Checkpoint(held[w], u, FALSE)
      BY <2>0, <2>2, <2>5 DEF WriteFailure, CursorRefused
    <3>3. /\ \A v \in Uids : v # u => failure'[v] = failure[v]
          /\ failure'[u].attempts = failure[u].attempts + 1
          /\ failure[u].attempts \in Nat
      BY <1>0, <2>2, <3>1
    <3>4. CountedStays
      BY <3>2, <3>3 DEF CountedStays, Counted
    <3>5. CASE UNCHANGED <<cursor, processed>>
      BY <1>0, <3>2, <3>4, <3>5, CountStill
    <3>6. CASE /\ failure[u].attempts + 1 >= MaxAttempts
               /\ Checkpoint(held[w], u, FALSE)
      <4>1. cursor' = u /\ processed' = processed + 1
        BY <1>0, <2>1, <3>6 DEF Checkpoint, Written, BatchAhead
      <4>2. Counted(u)'
        BY <3>3, <3>6 DEF Counted
      <4> QED
        BY <1>0, <2>2, <2>3, <3>2, <3>4, <4>1, <4>2, CountGrows
    <3> QED
      BY <3>2, <3>5, <3>6
  <2> QED
    BY <1>2, <2>4, <2>5
<1> QED
  BY <1>1, <1>2

LEMMA CountOfWorker ==
  ASSUME CoverInv, BatchInv, CountInv, TypeInv', NEW w \in Slots,
         WorkerStep(w) \/ WorkerTrouble(w) \/ Startup(w)
  PROVE  CountInv'
<1> USE DEF job, counters, folder, arq, locals, api, history, bounds
<1>0. /\ TypeInv /\ RowInv /\ SlotInv(w) /\ BatchAhead(w)
      /\ failure \in [Uids -> [status : Statuses, attempts : Nat, recoverable : BOOLEAN]]
      /\ cursor \in Cursors /\ scan[w] \in Cursors /\ mailbox \subseteq Nat
      /\ todo[w] \in SUBSET Uids
  BY DEF CoverInv, SlotsInv, BatchInv, TypeInv, TypeOK, LocalsTypeOK, RowsTypeOK, JobTypeOK,
     FolderTypeOK
<1>1. CASE \/ \E e \in queue : Take(w, e) \/ TakePaused(w, e) \/ TakeDegraded(w, e)
           \/ ListFailures(w) \/ Fetch(w) \/ Look(w) \/ Commit(w) \/ Result(w)
           \/ Requeue(w) \/ PauseAfterRequeue(w) \/ WriteTransient(w) \/ Raise(w)
           \/ Crash(w) \/ Startup(w)
  <2>1. UNCHANGED <<cursor, processed, mailbox, proposals, failure>>
    BY <1>1 DEF Take, TakePaused, TakeDegraded, ListFailures, Fetch, Look, Stop, Commit,
       Result, Requeue, PauseAfterRequeue, WriteTransient, Raise, Crash, Startup
  <2>2. CountedStays
    BY <2>1 DEF CountedStays, Counted
  <2> QED
    BY <1>0, <2>1, <2>2, CountStill
<1>2. CASE Recover(w)
  <2>1. todo[w] # {} /\ UNCHANGED <<cursor, processed, mailbox>>
    BY <1>2 DEF Recover, RetrySuccess
  <2>2. PICK u \in Uids : u = Least(todo[w])
    BY <1>0, <2>1, LeastOfUids
  <2>3. \/ failure' = failure /\ proposals' = proposals
        \/ /\ failure' = [failure EXCEPT ![u].status = "resolved", ![u].recoverable = FALSE]
           /\ proposals' = proposals \cup {u}
    BY <1>2, <2>2 DEF Recover, RetrySuccess
  <2>4. \A v \in Uids : failure'[v].attempts = failure[v].attempts
    BY <1>0, <2>3
  <2>5. CountedStays
    BY <2>3, <2>4 DEF CountedStays, Counted
  <2> QED
    BY <1>0, <2>1, <2>5, CountStill
<1>3. CASE Save(w) \/ WriteProposal(w) \/ WriteFailure(w)
  BY <1>3, CountOfOutcome
<1>4. CASE Finish(w)
  <2>1. /\ UNCHANGED <<processed, failure, proposals, mailbox>>
        /\ \/ cursor' = cursor
           \/ /\ cursor' = scan[w] /\ scan[w] > cursor /\ pc[w] = "scanning"
              /\ todo[w] = {} /\ pending[w] = {}
    BY <1>4 DEF Finish
  <2>2. CountedStays
    BY <2>1 DEF CountedStays, Counted
  <2>3. CASE cursor' = cursor
    BY <1>0, <2>1, <2>2, <2>3, CountStill
  <2>4. CASE /\ cursor' = scan[w] /\ scan[w] > cursor /\ pc[w] = "scanning"
             /\ todo[w] = {} /\ pending[w] = {}
    <3>1. \A v \in mailbox : v <= scan[w] => v <= cursor
      BY <1>0, <2>4 DEF BatchAhead, Cursors
    <3>2. cursor <= cursor'
      BY <1>0, <2>4 DEF Cursors
    <3> QED
      BY <1>0, <2>1, <2>2, <2>4, <3>1, <3>2, CountSame
  <2> QED
    BY <2>1, <2>3, <2>4
<1> QED
  BY <1>1, <1>2, <1>3, <1>4 DEF WorkerStep, WorkerTrouble

LEMMA CountOfSurroundings ==
  ASSUME CoverInv, CountInv, TypeInv', Surroundings, UNCHANGED <<cursor, processed>>
  PROVE  CountInv'
<1> USE DEF job, counters, folder, arq, locals, api, history, bounds
<1>0. /\ TypeInv /\ cursor \in Nat /\ cursor <= highest /\ highest \in Nat
      /\ mailbox' \subseteq 1..highest'  /\ highest' \in Nat
      /\ failure \in [Uids -> [status : Statuses, attempts : Nat, recoverable : BOOLEAN]]
  BY DEF CoverInv, TypeInv, TypeOK, RowsTypeOK, JobTypeOK, FolderTypeOK, RowInv,
     CursorReached, Reached, Cursors
<1>1. Progress
  BY QuietSurroundings DEF CoverInv, Quiet
<1>2. CountedStays
  <2>1. CASE \E u \in Uids : RetryMove(u)
    <3>1. PICK u \in Uids : RetryMove(u)
      BY <2>1
    <3>2. \/ UNCHANGED <<failure, proposals>>
          \/ /\ \E s \in {"retrying", "failed"} : failure' = [failure EXCEPT ![u].status = s]
             /\ UNCHANGED proposals
          \/ RetrySuccess(u)
          \/ \E r \in BOOLEAN : FailedAgain(u, r)
      BY <1>0, <3>1, RetryRows DEF Marked, SetStatus
    <3>3. /\ \A v \in Uids : failure'[v].attempts >= failure[v].attempts
          /\ proposals \subseteq proposals'
      BY <1>0, <3>2 DEF RetrySuccess, FailedAgain
    <3>4. \A v \in Uids : failure'[v].attempts \in Nat /\ failure[v].attempts \in Nat
      BY <1>0 DEF TypeInv, TypeOK, RowsTypeOK
    <3> QED
      BY <3>3, <3>4 DEF CountedStays, Counted
  <2>2. CASE ~ \E u \in Uids : RetryMove(u)
    <3>1. UNCHANGED <<failure, proposals>>
      BY <2>2 DEF Surroundings, ResultExpires, Expunge, Deliver, ChangeUidValidity, Start,
         Resume, ClientStep, ResumeCommit, ClientEnqueue, ClientPause, ClientDies, Control
    <3> QED
      BY <3>1 DEF CountedStays, Counted
  <2> QED
    BY <2>1, <2>2
<1>3. \A u \in mailbox' : u <= cursor' => u \in mailbox /\ u <= cursor
  BY <1>0, <1>1 DEF Progress
<1> QED
  BY <1>0, <1>2, <1>3, CountSame

\* Nothing is claimed once two batches have been in progress together.
AloneInv == ~ overlapped => BatchInv /\ CountInv

LEMMA AloneOfStep == CoverInv /\ AloneInv /\ [Next]_vars => AloneInv'
<1> SUFFICES ASSUME CoverInv, AloneInv, [Next]_vars, ~ overlapped'
             PROVE  BatchInv' /\ CountInv'
  BY DEF AloneInv
<1>1. TypeInv /\ TypeInv' /\ BatchInv /\ CountInv
  BY TypeOfStep, OverlapStays DEF CoverInv, AloneInv
<1>2. CASE \E w \in Slots : WorkerStep(w) \/ WorkerTrouble(w) \/ Startup(w)
  BY <1>1, <1>2, BatchOfWorker, CountOfWorker
<1>3. CASE Surroundings
  BY <1>1, <1>3, BatchOfSurroundings, CountOfSurroundings
<1>4. CASE UNCHANGED vars
  BY <1>1, <1>4 DEF vars, job, counters, folder, locals, BatchInv, AtMostOne, NextOnly,
     BatchAhead, Ahead, Dealt, Busy, CountInv, Counted
<1> QED
  BY <1>2, <1>3, <1>4 DEF Next, Surroundings, RetryMove

\* Until two batches have been in progress at once, processed is at least the number of
\* messages of the folder that the cursor passed and at most the number of those that
\* have a proposal or a last failure, with any number of workers and whatever crashes,
\* exceptions, pauses, recoveries, retries and repetitions happen (checkpoint adds to
\* the row it read; run_batch repeats a batch).
THEOREM CountedOnce == Spec => []EachCountedOnce
<1>1. Init => AloneInv
  <2> SUFFICES ASSUME Init PROVE BatchInv /\ CountInv
    BY DEF AloneInv
  <2>1. \A u \in Uids : ~ Dealt(u)
    BY DEF Init, Dealt
  <2>2. \A w \in Slots : pc[w] = "free"
    BY DEF Init
  <2>3. {u \in 1..cursor : Counted(u)} = {} /\ (1..cursor) \cap mailbox = {} /\ processed = 0
    BY DEF Init
  <2> QED
    BY <2>1, <2>2, <2>3, FS_EmptySet
    DEF BatchInv, AtMostOne, Busy, NextOnly, BatchAhead, CountInv
<1>2. AloneInv => EachCountedOnce
  BY DEF AloneInv, CountInv, EachCountedOnce, Counted
<1> QED
  BY <1>1, <1>2, AloneOfStep, CoverHolds, PTL DEF Spec

-----------------------------------------------------------------------------
(* A running job has something that runs it. *)

LEMMA NewEntry == ASSUME NEW Q, AddRetryEntry(Q) PROVE queue' # {}
BY DEF AddRetryEntry

\* A batch or a worker that ends what it does while the job runs says so.
LEMMA DrivenOfWorker ==
  ASSUME TypeInv, RunningHasEntry, NEW w \in Slots,
         WorkerStep(w) \/ WorkerTrouble(w) \/ Startup(w)
  PROVE  RunningHasEntry'
<1> USE DEF job, counters, folder, arq, locals, api, history, bounds
<1>0. pc \in [Slots -> Places] /\ orphaned \in BOOLEAN
  BY DEF TypeInv, TypeOK, LocalsTypeOK, ApiTypeOK
<1>1. CASE pc'[w] # "free"
  BY <1>1 DEF RunningHasEntry
<1>2. CASE pc'[w] = "free"
  <2>1. CASE \E e \in queue : Take(w, e)
    <3>1. state # "running" /\ state' = state
      BY <1>0, <1>2, <2>1 DEF Take
    <3> QED
      BY <3>1 DEF RunningHasEntry
  <2>2. CASE \E e \in queue : TakePaused(w, e)
    BY <2>2 DEF TakePaused, SetIfRunning, RunningHasEntry
  <2>3. CASE \E e \in queue : TakeDegraded(w, e)
    BY <2>3, NewEntry DEF TakeDegraded, RunningHasEntry
  <2>4. CASE Fetch(w)
    <3>1. state' = "failed"
      BY <1>0, <1>2, <2>4 DEF Fetch
    <3> QED
      BY <3>1 DEF RunningHasEntry
  <2>5. CASE Save(w) \/ WriteProposal(w) \/ WriteFailure(w) \/ Raise(w)
    <3>1. Orphan
      <4>1. CASE Save(w)
        BY <1>0, <1>2, <4>1, Zenon DEF Save, CursorRefused
      <4>2. CASE WriteProposal(w)
        BY <1>0, <1>2, <4>2, Zenon DEF WriteProposal, CursorRefused
      <4>3. CASE WriteFailure(w)
        BY <1>0, <1>2, <4>3, Zenon DEF WriteFailure, CursorRefused
      <4>4. CASE Raise(w)
        BY <4>4 DEF Raise
      <4> QED
        BY <2>5, <4>1, <4>2, <4>3, <4>4
    <3> QED
      BY <3>1, Zenon DEF Orphan, RunningHasEntry
  <2>6. CASE Result(w)
    <3>1. state # "running" /\ state' = state
      BY <1>0, <1>2, <2>6 DEF Result
    <3> QED
      BY <3>1 DEF RunningHasEntry
  <2>7. CASE Requeue(w)
    <3>1. queue' # {}
      BY <1>0, <1>2, <2>7, NewEntry DEF Requeue, AddCursorEntry
    <3> QED
      BY <3>1 DEF RunningHasEntry
  <2>8. CASE PauseAfterRequeue(w)
    BY <2>8 DEF PauseAfterRequeue, SetIfRunning, RunningHasEntry
  <2>9. CASE Startup(w)
    <3>1. \/ queue' # {}
          \/ state # "running" /\ state' = state
          \/ orphaned' = (orphaned \/ state = "running") /\ state' = state
      BY <2>9, NewEntry DEF Startup
    <3> QED
      BY <3>1, Zenon DEF RunningHasEntry
  <2>10. CASE \/ ListFailures(w) \/ Recover(w) \/ Look(w) \/ Commit(w) \/ Finish(w)
              \/ WriteTransient(w) \/ Crash(w)
    BY <1>0, <1>2, <2>10 DEF ListFailures, Recover, Look, Stop, Commit, Finish,
       WriteTransient, Crash
  <2> QED
    BY <2>1, <2>2, <2>3, <2>4, <2>5, <2>6, <2>7, <2>8, <2>9, <2>10
    DEF WorkerStep, WorkerTrouble
<1> QED
  BY <1>1, <1>2

LEMMA DrivenOfSurroundings ==
  ASSUME TypeInv, RunningHasEntry, Surroundings
  PROVE  RunningHasEntry'
<1> USE DEF job, counters, folder, arq, locals, api, history, bounds
<1>0. /\ client \in [at : {"idle", "resuming", "enqueueing", "pausing"},
                     saw : States, cursor : Cursors]
  BY DEF TypeInv, TypeOK, ApiTypeOK
<1>1. CASE Start
  BY <1>0, <1>1 DEF Start, RunningHasEntry
<1>2. CASE Resume
  BY <1>0, <1>2 DEF Resume, RunningHasEntry
<1>3. CASE ResumeCommit
  <2>1. client' = [client EXCEPT !.at = "idle"] \/ client' = [client EXCEPT !.at = "enqueueing"]
    BY <1>3 DEF ResumeCommit
  <2>2. client'.saw = client.saw
    BY <1>0, <2>1
  <2>3. \/ client.at = "resuming" /\ state' = state
        \/ client.saw # "running" /\ client'.at = "enqueueing"
    BY <1>0, <1>3 DEF ResumeCommit, Allowed
  <2> QED
    BY <1>3, <2>2, <2>3 DEF ResumeCommit, RunningHasEntry
<1>4. CASE ClientEnqueue
  <2>1. CASE queue' # {}
    BY <2>1 DEF RunningHasEntry
  <2>2. CASE queue' = {}
    <3>1. /\ client.at = "enqueueing" /\ queue' = queue /\ UNCHANGED <<state, pc, orphaned>>
          /\ client' = [client EXCEPT !.at = IF client.saw = "running" THEN "idle" ELSE "pausing"]
      BY <1>4, <2>2 DEF ClientEnqueue, AddCursorEntry
    <3> QED
      BY <1>0, <3>1 DEF RunningHasEntry
  <2> QED
    BY <2>1, <2>2
<1>5. CASE ClientPause
  BY <1>5 DEF ClientPause, RunningHasEntry
<1>6. CASE \E s \in {"paused", "cancelled"} : Control(s)
  BY <1>6 DEF Control, RunningHasEntry
<1>7. CASE ClientDies
  BY <1>7, Zenon DEF ClientDies, RunningHasEntry
<1>8. CASE \E u \in Uids : RetryMove(u)
  BY <1>8, RetryFrame DEF RunningHasEntry
<1>9. CASE UNCHANGED <<state, queue, pc, client, orphaned>>
  BY <1>9 DEF RunningHasEntry
<1> QED
  BY <1>1, <1>2, <1>3, <1>4, <1>5, <1>6, <1>7, <1>8, <1>9 DEF Surroundings, ResultExpires,
     Expunge, Deliver, ChangeUidValidity, ClientStep

\* With any number of workers, a running job that has no entry, no worker and no request
\* that sees to it was left there by an event that the model records: a batch or a request
\* that ended early or a worker that started paused, and neither a worker start nor a
\* resume since.  In particular a refused entry pauses the job, and the job of a dead
\* worker is found by on_startup (list_running, process_backfill_batch, _enqueue).
THEOREM RunningKeepsEntry == Spec => []RunningHasEntry
<1>1. Init => RunningHasEntry
  BY DEF Init, RunningHasEntry
<1>2. TypeInv /\ RunningHasEntry /\ [Next]_vars => RunningHasEntry'
  <2> SUFFICES ASSUME TypeInv, RunningHasEntry, [Next]_vars PROVE RunningHasEntry'
    OBVIOUS
  <2>1. CASE \E w \in Slots : WorkerStep(w) \/ WorkerTrouble(w) \/ Startup(w)
    BY <2>1, DrivenOfWorker
  <2>2. CASE Surroundings
    BY <2>2, DrivenOfSurroundings
  <2>3. CASE UNCHANGED vars
    BY <2>3 DEF vars, job, arq, api, history, RunningHasEntry
  <2> QED
    BY <2>1, <2>2, <2>3 DEF Next, Surroundings, RetryMove
<1> QED
  BY <1>1, <1>2, TypesHold, PTL DEF Spec
=============================================================================
