--------------------------- MODULE WorkloadProofs ---------------------------
(***************************************************************************)
(* Proofs about the admission controller, for any set of requests, any     *)
(* limits and any timeouts that Settings accepts.                          *)
(***************************************************************************)
EXTENDS Workload, FiniteSetTheorems, TLAPS

USE RequestsAssumption, LimitsAssumption, TimesAssumption

-----------------------------------------------------------------------------
(* Type correctness. *)

\* Decrease stays within the range of a timer.
LEMMA DecreaseInRange ==
  ASSUME NEW m \in Nat, NEW n \in 0..m
  PROVE  Decrease(n) \in 0..m /\ Decrease(n) <= n
BY DEF Decrease

\* Every operation of the controller keeps the types of its state
\* (workload.py:281-364).
THEOREM TypeCorrect == Spec => []TypeOK
<1>1. Init => TypeOK
  BY DEF Init, TypeOK, Phases, Accounts, Roles
<1>2. TypeOK /\ [Next]_vars => TypeOK'
  <2> SUFFICES ASSUME TypeOK, [Next]_vars PROVE TypeOK'
    OBVIOUS
  <2> USE DEF TypeOK, Phases
  <2>1. CASE \E r \in Requests : Arrive(r)
    BY <2>1 DEF Arrive
  <2>2. CASE \E r \in Requests : Enqueue(r)
    BY <2>2 DEF Enqueue, LiveActive, FreshQueue, counters
  <2>3. CASE \E r \in Requests : Grant(r)
    BY <2>3, SMTT(60) DEF Grant, LeaseTime, RecordGrant, LiveActive, FreshQueue, Accounts, Roles
  <2>4. CASE \E r \in Requests : PollInVain(r)
    BY <2>4 DEF PollInVain, LiveActive, FreshQueue, counters, times
  <2>5. CASE \E r \in Requests : LockFails(r)
    BY <2>5 DEF LockFails, counters, times
  <2>6. CASE \E r \in Requests : Release(r)
    BY <2>6 DEF Release, counters, times
  <2>7. CASE \E r \in Requests : Crash(r)
    BY <2>7 DEF Crash, counters, times
  <2>8. CASE Snapshot
    BY <2>8 DEF Snapshot, LiveActive, FreshQueue, counters, times
  <2>9. CASE Tick
    <3>1. age' \in [Requests -> 0..(MaxAge + 1)]
      BY <2>9 DEF Tick
    <3>2. waitLeft' \in [Requests -> 0..WaitTimeout]
      BY <2>9, DecreaseInRange DEF Tick
    <3>3. leaseLeft' \in [Requests -> 0..Lease]
      BY <2>9, DecreaseInRange DEF Tick
    <3>4. callAge' \in [Requests -> 0..CallMax]
      BY <2>9 DEF Tick
    <3>5. inMinute' \in 0..(Minute - 1) /\ minuteUse' \in [Roles -> Nat]
      BY <2>9 DEF Tick
    <3>6. spacing' \in [Roles -> Nat]
      BY <2>9 DEF Tick, Decrease
    <3> QED
      BY <2>9, <3>1, <3>2, <3>3, <3>4, <3>5, <3>6 DEF Tick, counters
  <2>10. CASE \E r \in Requests : Stall(r)
    BY <2>10 DEF Stall, LeaseTime, LiveActive, FreshQueue, counters
  <2>11. CASE \E r \in Requests : LateGrant(r)
    BY <2>11, SMTT(60) DEF LateGrant, RecordGrant, Accounts, Roles
  <2>12. CASE UNCHANGED vars
    BY <2>12 DEF vars, counters, times
  <2> QED
    BY <2>1, <2>2, <2>3, <2>4, <2>5, <2>6, <2>7, <2>8, <2>9, <2>10, <2>11, <2>12 DEF Next
<1> QED
  BY <1>1, <1>2, PTL DEF Spec

-----------------------------------------------------------------------------
(* The limits. *)

\* A part of a set that is within the limits is within them too.
LEMMA SubsetWithinLimits ==
  ASSUME NEW S \in SUBSET Requests, NEW T \in SUBSET S, WithinLimits(S)
  PROVE  WithinLimits(T)
<1>1. IsFiniteSet(S)
  BY FS_Subset
<1>2. ASSUME NEW U, U \in SUBSET S, NEW V \in SUBSET U
      PROVE  Cardinality(V) \in Nat /\ Cardinality(U) \in Nat
             /\ Cardinality(V) <= Cardinality(U)
  <2>1. IsFiniteSet(U) /\ IsFiniteSet(V)
    BY <1>1, <1>2, FS_Subset
  <2> QED
    BY <2>1, <1>2, FS_Subset, FS_CardinalityType
<1>3. Cardinality(T) <= GlobalConcurrency
  BY <1>2 DEF WithinLimits
<1>4. ASSUME NEW role \in Roles
      PROVE  Cardinality(OfRole(T, role)) <= RoleLimit[role]
  <2>1. OfRole(T, role) \in SUBSET OfRole(S, role)
        /\ OfRole(S, role) \in SUBSET S
    BY DEF OfRole
  <2> QED
    BY <2>1, <1>2 DEF WithinLimits
<1>5. ASSUME NEW a \in Accounts
      PROVE  Cardinality(OfAccount(T, a)) <= PerAccountConcurrency
  <2>1. OfAccount(T, a) \in SUBSET OfAccount(S, a)
        /\ OfAccount(S, a) \in SUBSET S
    BY DEF OfAccount
  <2> QED
    BY <2>1, <1>2 DEF WithinLimits
<1> QED
  BY <1>3, <1>4, <1>5 DEF WithinLimits

\* A request that _eligible accepts may join those of the live leases that are
\* within the limits.
LEMMA GrantWithinLimits ==
  ASSUME NEW r \in Requests, LiveActive \in SUBSET Requests,
         NEW S \in SUBSET LiveActive, WithinLimits(S), Eligible(r)
  PROVE  WithinLimits(S \cup {r})
<1>1. ASSUME NEW U \in SUBSET Requests
      PROVE  /\ Cardinality(U) \in Nat
             /\ Cardinality(U \cup {r}) \in Nat
             /\ Cardinality(U \cup {r}) <= Cardinality(U) + 1
             /\ \A V \in SUBSET U : Cardinality(V) <= Cardinality(U)
  <2>1. IsFiniteSet(U)
    BY FS_Subset
  <2>2. IsFiniteSet(U \cup {r})
        /\ Cardinality(U \cup {r}) =
             IF r \in U THEN Cardinality(U) ELSE Cardinality(U) + 1
    BY <2>1, FS_AddElement
  <2>3. Cardinality(U) \in Nat /\ Cardinality(U \cup {r}) \in Nat
    BY <2>1, <2>2, FS_CardinalityType
  <2>4. \A V \in SUBSET U : Cardinality(V) <= Cardinality(U)
    BY <2>1, FS_Subset
  <2> QED
    BY <2>2, <2>3, <2>4
<1>2. ASSUME NEW U \in SUBSET Requests, NEW V \in SUBSET U, NEW n \in Nat,
             Cardinality(U) < n
      PROVE  Cardinality(V \cup {r}) <= n
  <2>1. V \in SUBSET Requests
    OBVIOUS
  <2>2. Cardinality(V) <= Cardinality(U) /\ Cardinality(U) \in Nat
    BY <1>1
  <2>3. Cardinality(V) \in Nat /\ Cardinality(V \cup {r}) \in Nat
        /\ Cardinality(V \cup {r}) <= Cardinality(V) + 1
    BY <1>1, <2>1
  <2> QED
    BY <1>2, <2>2, <2>3
<1>3. Cardinality(S \cup {r}) <= GlobalConcurrency
  BY <1>2 DEF Eligible
<1>4. ASSUME NEW role \in Roles
      PROVE  Cardinality(OfRole(S \cup {r}, role)) <= RoleLimit[role]
  <2>1. CASE role = RoleOf[r]
    <3>1. /\ OfRole(S \cup {r}, role) = OfRole(S, role) \cup {r}
          /\ OfRole(S, role) \in SUBSET OfRole(LiveActive, role)
          /\ OfRole(LiveActive, role) \in SUBSET Requests
      BY <2>1 DEF OfRole
    <3>2. Cardinality(OfRole(LiveActive, role)) < RoleLimit[role]
      BY <2>1 DEF Eligible
    <3>3. Cardinality(OfRole(S, role) \cup {r}) <= RoleLimit[role]
      BY <1>2, <3>1, <3>2
    <3> QED
      BY ONLY <3>1, <3>3, Zenon
  <2>2. CASE role # RoleOf[r]
    <3>1. OfRole(S \cup {r}, role) = OfRole(S, role)
      BY <2>2 DEF OfRole
    <3> QED
      BY <3>1 DEF WithinLimits
  <2> QED
    BY <2>1, <2>2
<1>5. ASSUME NEW a \in Accounts
      PROVE  Cardinality(OfAccount(S \cup {r}, a)) <= PerAccountConcurrency
  <2>1. CASE a = AccountOf[r]
    <3>1. /\ OfAccount(S \cup {r}, a) = OfAccount(S, a) \cup {r}
          /\ OfAccount(S, a) \in SUBSET OfAccount(LiveActive, a)
          /\ OfAccount(LiveActive, a) \in SUBSET Requests
      BY <2>1 DEF OfAccount
    <3>2. Cardinality(OfAccount(LiveActive, a)) < PerAccountConcurrency
      BY <2>1 DEF Eligible
    <3>3. Cardinality(OfAccount(S, a) \cup {r}) <= PerAccountConcurrency
      BY <1>2, <3>1, <3>2
    <3> QED
      BY ONLY <3>1, <3>3, Zenon
  <2>2. CASE a # AccountOf[r]
    <3>1. OfAccount(S \cup {r}, a) = OfAccount(S, a)
      BY <2>2 DEF OfAccount
    <3> QED
      BY <3>1 DEF WithinLimits
  <2> QED
    BY <2>1, <2>2
<1> QED
  BY <1>3, <1>4, <1>5 DEF WithinLimits

\* Only a section that holds the lock adds to the leases that count, and what it
\* adds joins a part of the live leases.
LEMMA ProperOfStep ==
  ASSUME TypeOK, [Next]_vars
  PROVE  \/ Proper' \in SUBSET Proper
         \/ \E r \in Requests, S \in SUBSET LiveActive :
              /\ Eligible(r) /\ S \in SUBSET Proper /\ Proper' = S \cup {r}
<1> USE DEF TypeOK
<1>1. ASSUME NEW r \in Requests, Grant(r)
      PROVE  \E S \in SUBSET LiveActive :
               Eligible(r) /\ S \in SUBSET Proper /\ Proper' = S \cup {r}
  <2> DEFINE S == {q \in LiveActive : q # r /\ phase[q] # "overtaken"}
  <2>1. Eligible(r) /\ active' = LiveActive \cup {r} /\ phase' = [phase EXCEPT ![r] = "holding"]
    BY <1>1 DEF Grant, IsCandidate
  <2>2. S \in SUBSET LiveActive /\ S \in SUBSET Proper
    BY DEF Proper, LiveActive
  <2>3. Proper' = S \cup {r}
    BY <2>1 DEF Proper, LiveActive
  <2> QED
    BY <2>1, <2>2, <2>3
<1>2. ASSUME NEW r \in Requests, LateGrant(r) PROVE Proper' \in SUBSET Proper
  BY <1>2 DEF LateGrant, Proper
<1>3. ASSUME NEW r \in Requests,
             Arrive(r) \/ Enqueue(r) \/ PollInVain(r) \/ Stall(r) \/ LockFails(r)
               \/ Release(r) \/ Crash(r)
      PROVE  Proper' \in SUBSET Proper
  BY <1>3 DEF Arrive, Enqueue, PollInVain, Stall, LockFails, Release, Crash, Proper, LiveActive
<1>4. CASE Snapshot \/ Tick \/ UNCHANGED vars
  BY <1>4 DEF Snapshot, Tick, vars, Proper, LiveActive
<1> QED
  BY <1>1, <1>2, <1>3, <1>4 DEF Next

\* The leases written under the lock never exceed a limit: acquire() grants one only
\* to an eligible request and every other step only drops leases; a lease that is
\* written late counts against the others, never the other way round.
THEOREM LeasesAreBounded == Spec => []LeasesWithinLimits
<1>1. Init => LeasesWithinLimits
  <2> SUFFICES ASSUME Init PROVE LeasesWithinLimits
    OBVIOUS
  <2>1. /\ Proper = {} /\ \A role \in Roles : OfRole(Proper, role) = {}
        /\ \A a \in Accounts : OfAccount(Proper, a) = {}
    BY DEF Init, Proper, OfRole, OfAccount
  <2>2. Cardinality({}) = 0
    BY FS_EmptySet
  <2>3. /\ Cardinality(Proper) = 0
        /\ \A role \in Roles : Cardinality(OfRole(Proper, role)) = 0
        /\ \A a \in Accounts : Cardinality(OfAccount(Proper, a)) = 0
    BY <2>1, <2>2, Zenon
  <2> QED
    BY <2>3, LimitsAssumption DEF LeasesWithinLimits, WithinLimits
<1>2. TypeOK /\ LeasesWithinLimits /\ [Next]_vars => LeasesWithinLimits'
  <2> SUFFICES ASSUME TypeOK, LeasesWithinLimits, [Next]_vars
               PROVE  WithinLimits(Proper')
    BY DEF LeasesWithinLimits, WithinLimits, OfRole, OfAccount
  <2>0. /\ LiveActive \in SUBSET Requests /\ Proper \in SUBSET Requests
        /\ WithinLimits(Proper)
    BY DEF LiveActive, Proper, TypeOK, LeasesWithinLimits
  <2>1. CASE Proper' \in SUBSET Proper
    BY <2>0, <2>1, SubsetWithinLimits
  <2>2. ASSUME NEW r \in Requests, NEW S \in SUBSET LiveActive, Eligible(r),
               S \in SUBSET Proper, Proper' = S \cup {r}
        PROVE  WithinLimits(Proper')
    <3>1. WithinLimits(S)
      BY <2>0, <2>2, SubsetWithinLimits
    <3>2. WithinLimits(S \cup {r})
      BY <2>0, <2>2, <3>1, GrantWithinLimits
    <3> QED
      BY <2>2, <3>2
  <2> QED
    BY <2>1, <2>2, ProperOfStep
<1> QED
  BY <1>1, <1>2, TypeCorrect, PTL DEF Spec

\* Work of priority 4 or 5 leaves the reserved slots to live work, however leases of
\* live and background work alternate and expire (workload.py:225-232).
THEOREM ReserveIsKept == Spec => []ReserveLeftFree
<1>1. Init => ReserveLeftFree
  <2> SUFFICES ASSUME Init PROVE ReserveLeftFree
    OBVIOUS
  <2>1. Background(Proper) = {}
    BY DEF Init, Proper, Background
  <2> QED
    BY <2>1, FS_EmptySet DEF ReserveLeftFree
<1>2. TypeOK /\ ReserveLeftFree /\ [Next]_vars => ReserveLeftFree'
  <2> SUFFICES ASSUME TypeOK, ReserveLeftFree, [Next]_vars PROVE ReserveLeftFree'
    OBVIOUS
  <2> DEFINE Cap == GlobalConcurrency - LiveReservedSlots
             B == Background(Proper)
  <2>0. /\ LiveActive \in SUBSET Requests /\ Proper \in SUBSET Requests
        /\ Cap \in Nat /\ Cardinality(B) <= Cap
    BY DEF LiveActive, Proper, TypeOK, ReserveLeftFree
  <2>1. ASSUME NEW V \in SUBSET Requests
        PROVE  IsFiniteSet(V) /\ Cardinality(V) \in Nat
    BY FS_Subset, FS_CardinalityType
  <2>2. ASSUME NEW V \in SUBSET Requests, NEW U \in SUBSET V
        PROVE  Cardinality(U) <= Cardinality(V) /\ Cardinality(U) \in Nat
    BY <2>1, FS_Subset, FS_CardinalityType
  <2>3. CASE Background(Proper)' \in SUBSET B
    <3>1. B \in SUBSET Requests
      BY <2>0 DEF Background
    <3>2. Cardinality(Background(Proper)') <= Cardinality(B)
          /\ Cardinality(B) \in Nat /\ Cardinality(Background(Proper)') \in Nat
      BY <2>1, <2>2, <2>3, <3>1
    <3>3. Cardinality(Background(Proper)') <= Cap
      BY <2>0, <3>2
    <3> QED
      BY <3>3 DEF ReserveLeftFree
  <2>4. ASSUME NEW r \in Requests, NEW S \in SUBSET LiveActive, Eligible(r),
               PriorityOf[r] >= PriorityBackfill,
               S \in SUBSET Proper, Proper' = S \cup {r}
        PROVE  ReserveLeftFree'
    <3>1. Cardinality(LiveActive) < Cap
      BY <2>4 DEF Eligible
    <3>2. Cardinality(S) <= Cardinality(LiveActive) /\ Cardinality(S) \in Nat
          /\ IsFiniteSet(S) /\ Cardinality(LiveActive) \in Nat
      BY <2>0, <2>1, <2>2
    <3>3. /\ IsFiniteSet(S \cup {r})
          /\ Cardinality(S \cup {r}) =
               IF r \in S THEN Cardinality(S) ELSE Cardinality(S) + 1
      BY <3>2, FS_AddElement
    <3>4. Background(Proper)' \in SUBSET (S \cup {r}) /\ S \cup {r} \in SUBSET Requests
      BY <2>0, <2>4 DEF Background
    <3>5. Cardinality(Background(Proper)') <= Cardinality(S \cup {r})
          /\ Cardinality(Background(Proper)') \in Nat /\ Cardinality(S \cup {r}) \in Nat
      BY <2>1, <2>2, <3>4
    <3>6. Cardinality(Background(Proper)') <= Cap
      BY <2>0, <3>1, <3>2, <3>3, <3>5
    <3> QED
      BY <3>6 DEF ReserveLeftFree
  <2>5. ASSUME NEW r \in Requests, NEW S \in SUBSET LiveActive,
               ~ (PriorityOf[r] >= PriorityBackfill),
               S \in SUBSET Proper, Proper' = S \cup {r}
        PROVE  Background(Proper)' \in SUBSET B
    BY <2>0, <2>5 DEF Background
  <2>6. Proper' \in SUBSET Proper => Background(Proper)' \in SUBSET B
    BY DEF Background
  <2> QED
    BY <2>3, <2>4, <2>5, <2>6, ProperOfStep
<1> QED
  BY <1>1, <1>2, TypeCorrect, PTL DEF Spec

-----------------------------------------------------------------------------
(* Calls and their leases. *)

\* While a model call runs, what is left of its lease and the time the call has taken
\* add up to a whole lease, and the lease is in Redis as long as anything is left.
LeaseCoversCall ==
  \A r \in Requests :
    phase[r] = "holding" =>
      /\ leaseLeft[r] + callAge[r] >= Lease - LockWait
      /\ leaseLeft[r] > 0 => r \in active

\* A lease is still in Redis until its time is over (workload.py:175-180 drops
\* expired members only).
LEMMA LeaseCoversCallHolds == Spec => []LeaseCoversCall
<1>1. Init => LeaseCoversCall
  BY DEF Init, LeaseCoversCall
<1>2. TypeOK /\ LeaseCoversCall /\ [Next]_vars => LeaseCoversCall'
  <2> SUFFICES ASSUME TypeOK, LeaseCoversCall, [Next]_vars,
                      NEW q \in Requests, phase'[q] = "holding"
               PROVE  /\ leaseLeft'[q] + callAge'[q] >= Lease - LockWait
                      /\ leaseLeft'[q] > 0 => q \in active'
    BY DEF LeaseCoversCall
  <2> USE DEF TypeOK, LeaseCoversCall
  <2>1. ASSUME NEW r \in Requests,
               Arrive(r) \/ LockFails(r) \/ Release(r) \/ Crash(r)
        PROVE  /\ leaseLeft'[q] + callAge'[q] >= Lease - LockWait
               /\ leaseLeft'[q] > 0 => q \in active'
    BY <2>1 DEF Arrive, LockFails, Release, Crash, times
  <2>2. ASSUME NEW r \in Requests, Enqueue(r) \/ PollInVain(r)
        PROVE  /\ leaseLeft'[q] + callAge'[q] >= Lease - LockWait
               /\ leaseLeft'[q] > 0 => q \in active'
    BY <2>2 DEF Enqueue, PollInVain, times, LiveActive
  <2>3. ASSUME NEW r \in Requests, Grant(r)
        PROVE  /\ leaseLeft'[q] + callAge'[q] >= Lease - LockWait
               /\ leaseLeft'[q] > 0 => q \in active'
    <3>1. CASE q = r
      BY <2>3, <3>1 DEF Grant, LeaseTime
    <3>2. CASE q # r
      <4>1. phase[q] = "holding" /\ (leaseLeft[q] > 0 => q \in LiveActive)
        BY <2>3, <3>2 DEF Grant, LiveActive
      <4>2. /\ q \in LiveActive => q \in active'
            /\ leaseLeft'[q] = leaseLeft[q] /\ callAge'[q] = callAge[q]
        BY <2>3, <3>2 DEF Grant
      <4> QED
        BY <4>1, <4>2
    <3> QED
      BY <3>1, <3>2
  <2>4. ASSUME NEW r \in Requests, Stall(r) \/ LateGrant(r)
        PROVE  /\ leaseLeft'[q] + callAge'[q] >= Lease - LockWait
               /\ leaseLeft'[q] > 0 => q \in active'
    <3>1. q # r /\ phase[q] = "holding"
      BY <2>4 DEF Stall, LateGrant
    <3>2. leaseLeft'[q] = leaseLeft[q] /\ callAge'[q] = callAge[q]
      BY <2>4, <3>1 DEF Stall, LateGrant
    <3>3. leaseLeft[q] > 0 /\ q \in active => q \in active'
      BY <2>4 DEF Stall, LateGrant, LiveActive
    <3> QED
      BY <3>1, <3>2, <3>3
  <2>5. CASE Snapshot
    BY <2>5 DEF Snapshot, LiveActive, times
  <2>6. CASE Tick
    BY <2>6 DEF Tick, Decrease
  <2>7. CASE UNCHANGED vars
    BY <2>7 DEF vars, times
  <2> QED
    BY <2>1, <2>2, <2>3, <2>4, <2>5, <2>6, <2>7 DEF Next
<1> QED
  BY <1>1, <1>2, TypeCorrect, PTL DEF Spec

\* However long calls last, those still covered by their lease are within the limits:
\* the only calls that may come on top are those that outlived a lease, which Settings
\* does not rule out (config.py:194 compares it with one timeout, without the retries
\* of _call_path).
THEOREM CallsAreBounded == Spec => []CallsWithinLimits
<1>1. LeasesWithinLimits /\ LeaseCoversCall /\ TypeOK => CallsWithinLimits
  <2> SUFFICES ASSUME LeasesWithinLimits, LeaseCoversCall, TypeOK
               PROVE  CallsWithinLimits
    OBVIOUS
  <2>1. Covered \in SUBSET Proper /\ Proper \in SUBSET Requests
    BY DEF LeaseCoversCall, Covered, Proper, TypeOK
  <2> QED
    BY <2>1, SubsetWithinLimits DEF LeasesWithinLimits, CallsWithinLimits
<1> QED
  BY <1>1, LeasesAreBounded, LeaseCoversCallHolds, TypeCorrect, PTL

-----------------------------------------------------------------------------
(* The queue. *)

\* What keeps the entry of a caller that may still be served: it is not older
\* than the time its caller has waited, and the lock wait before that.
EntryOutlivesDeadline ==
  \A r \in Requests :
    /\ phase[r] = "arriving" => age[r] <= LockWait
    /\ phase[r] = "waiting" /\ waitLeft[r] > 0 =>
         r \in queue /\ age[r] + waitLeft[r] <= LockWait + WaitTimeout

\* _cleanup never takes the place of a caller before the caller's deadline
\* (workload.py:175-180 against 314-341).
THEOREM PurgeIsSafe == Spec => []PurgedOnlyExpired
<1>1. Init => EntryOutlivesDeadline
  BY DEF Init, EntryOutlivesDeadline
<1>2. TypeOK /\ EntryOutlivesDeadline /\ [Next]_vars => EntryOutlivesDeadline'
  <2> SUFFICES ASSUME TypeOK, EntryOutlivesDeadline, [Next]_vars,
                      NEW q \in Requests
               PROVE  /\ phase'[q] = "arriving" => age'[q] <= LockWait
                      /\ phase'[q] = "waiting" /\ waitLeft'[q] > 0 =>
                           /\ q \in queue'
                           /\ age'[q] + waitLeft'[q] <= LockWait + WaitTimeout
    BY DEF EntryOutlivesDeadline
  <2> USE DEF TypeOK, EntryOutlivesDeadline
  <2>0. phase[q] = "waiting" /\ waitLeft[q] > 0 => q \in FreshQueue
    BY DEF FreshQueue
  <2>1. CASE \E r \in Requests : Arrive(r)
    BY <2>1 DEF Arrive
  <2>2. CASE \E r \in Requests : Enqueue(r)
    BY <2>0, <2>2 DEF Enqueue
  <2>3. CASE \E r \in Requests : Grant(r)
    BY <2>0, <2>3 DEF Grant, LeaseTime
  <2>4. CASE \E r \in Requests : PollInVain(r)
    BY <2>0, <2>4 DEF PollInVain, times
  <2>5. CASE \E r \in Requests : LockFails(r) \/ Release(r) \/ Crash(r)
    BY <2>5 DEF LockFails, Release, Crash, times
  <2>9. CASE \E r \in Requests : Stall(r) \/ LateGrant(r)
    BY <2>0, <2>9 DEF Stall, LateGrant
  <2>6. CASE Snapshot
    BY <2>0, <2>6 DEF Snapshot, times
  <2>7. CASE Tick
    BY <2>7 DEF Tick, Decrease
  <2>8. CASE UNCHANGED vars
    BY <2>8 DEF vars, times
  <2> QED
    BY <2>1, <2>2, <2>3, <2>4, <2>5, <2>6, <2>7, <2>8, <2>9 DEF Next
<1>3. TypeOK /\ EntryOutlivesDeadline => PurgedOnlyExpired
  BY DEF EntryOutlivesDeadline, PurgedOnlyExpired, TypeOK
<1> QED
  BY <1>1, <1>2, <1>3, TypeCorrect, PTL DEF Spec
=============================================================================
