------------------------------ MODULE Workload ------------------------------
(***************************************************************************)
(* The Redis-backed admission controller for model calls, app/workload.py. *)
(*                                                                         *)
(* Every API and worker process wraps a model call in acquire()/release(). *)
(* The shared state is two sorted sets in Redis, the waiting queue and the *)
(* set of active leases, plus per-account and per-role counters.  A        *)
(* critical section is everything the code does while it holds the Redis   *)
(* lock, so it is one action here; the steps a caller takes outside the    *)
(* lock (drawing a sequence number, releasing, dying) are actions of their *)
(* own and interleave freely.  The lock itself expires after five seconds: *)
(* a section that takes longer is split between its reads and its writes,  *)
(* and the caller gets an error when it gives back a lock it has lost.     *)
(*                                                                         *)
(* Wall-clock timestamps are kept as ages and as remaining times, which    *)
(* Tick moves: a score compared with "now" becomes a timer compared with 0.*)
(***************************************************************************)
EXTENDS Integers, FiniteSets

CONSTANTS
  Requests,              \* calls of acquire(), each made once
  AccountOf,             \* [Requests -> accounts]
  RoleOf,                \* [Requests -> model roles]
  PriorityOf,            \* [Requests -> 1..5]
  GlobalConcurrency,     \* WORKLOAD_GLOBAL_CONCURRENCY
  PerAccountConcurrency, \* WORKLOAD_PER_ACCOUNT_CONCURRENCY
  RoleLimit,             \* [roles -> Nat], WORKLOAD_<ROLE>_CONCURRENCY
  LiveReservedSlots,     \* WORKLOAD_LIVE_RESERVED_SLOTS
  QueueMax,              \* WORKLOAD_QUEUE_MAX
  RolePerMinute,         \* [roles -> Nat], 0 switches the rate limit off
  RoleMinDelay,          \* [roles -> Nat], 0 switches the spacing off
  WaitTimeout,           \* WORKLOAD_WAIT_TIMEOUT_SECONDS
  LockWait,              \* blocking_timeout of the Redis lock
  MaxAge,                \* age at which _cleanup drops a queue entry
  Lease,                 \* WORKLOAD_LEASE_SECONDS
  CallMax,               \* longest a model call can last, retries included
  Minute                 \* length of one rate-limit window

Accounts == {AccountOf[r] : r \in Requests}
Roles == {RoleOf[r] : r \in Requests}

PriorityBackfill == 4

ASSUME RequestsAssumption ==
  /\ IsFiniteSet(Requests)
  /\ AccountOf \in [Requests -> Accounts]
  /\ RoleOf \in [Requests -> Roles]
  /\ PriorityOf \in [Requests -> 1..5]

\* What Settings validates (config.py): positive limits, the reserve smaller
\* than the global limit, and no negative rate.
ASSUME LimitsAssumption ==
  /\ GlobalConcurrency \in Nat \ {0}
  /\ PerAccountConcurrency \in Nat \ {0}
  /\ RoleLimit \in [Roles -> Nat \ {0}]
  /\ LiveReservedSlots \in Nat
  /\ LiveReservedSlots < GlobalConcurrency
  /\ QueueMax \in Nat \ {0}
  /\ RolePerMinute \in [Roles -> Nat]
  /\ RoleMinDelay \in [Roles -> Nat]

\* _cleanup keeps a queue entry for max(2 * WaitTimeout, 60) seconds and the
\* lock is waited for 2 seconds, which gives the third conjunct.
ASSUME TimesAssumption ==
  /\ WaitTimeout \in Nat \ {0}
  /\ LockWait \in Nat
  /\ MaxAge \in Nat /\ MaxAge >= WaitTimeout + LockWait
  /\ Lease \in Nat \ {0} /\ Lease > LockWait
  /\ CallMax \in Nat
  /\ Minute \in Nat \ {0}

VARIABLES
  phase,      \* where each caller of acquire() stands
  queue,      \* members of _QUEUE_KEY
  active,     \* members of _ACTIVE_KEY
  age,        \* time since enqueued_at, capped just above MaxAge
  waitLeft,   \* time until the caller's own deadline
  leaseLeft,  \* time until the score of the active member
  callAge,    \* time since the model call started
  sequence,   \* the sequence number a request drew, 0 before
  nextSeq,    \* _SEQUENCE_KEY
  grantSeq,   \* _GRANT_SEQUENCE_KEY
  lastGrant,  \* _last_grant_key of each account, 0 when absent
  inMinute,   \* position in the current rate-limit window
  minuteUse,  \* _rpm_key of each role in the current window
  spacing     \* time until RoleMinDelay has passed since the last request

times == <<age, waitLeft, leaseLeft, callAge, inMinute, minuteUse, spacing>>
counters == <<sequence, nextSeq, grantSeq, lastGrant>>
vars == <<phase, queue, active, times, counters>>

\* "stalled" is inside the critical section with the lock lost, "overtaken" is
\* out of it again with an error.
Phases == {"idle", "arriving", "waiting", "stalled", "overtaken", "holding",
           "done", "rejected", "crashed"}

TypeOK ==
  /\ phase \in [Requests -> Phases]
  /\ queue \in SUBSET Requests
  /\ active \in SUBSET Requests
  /\ age \in [Requests -> 0..(MaxAge + 1)]
  /\ waitLeft \in [Requests -> 0..WaitTimeout]
  /\ leaseLeft \in [Requests -> 0..Lease]
  /\ callAge \in [Requests -> 0..CallMax]
  /\ sequence \in [Requests -> Nat]
  /\ nextSeq \in Nat
  /\ grantSeq \in Nat
  /\ lastGrant \in [Accounts -> Nat]
  /\ inMinute \in 0..(Minute - 1)
  /\ minuteUse \in [Roles -> Nat]
  /\ spacing \in [Roles -> Nat]

Init ==
  /\ phase = [r \in Requests |-> "idle"]
  /\ queue = {}
  /\ active = {}
  /\ age = [r \in Requests |-> 0]
  /\ waitLeft = [r \in Requests |-> 0]
  /\ leaseLeft = [r \in Requests |-> 0]
  /\ callAge = [r \in Requests |-> 0]
  /\ sequence = [r \in Requests |-> 0]
  /\ nextSeq = 0
  /\ grantSeq = 0
  /\ lastGrant = [a \in Accounts |-> 0]
  /\ inMinute = 0
  /\ minuteUse = [role \in Roles |-> 0]
  /\ spacing = [role \in Roles |-> 0]

-----------------------------------------------------------------------------
(* What every critical section starts with. *)

\* Mutated form of LiveActive: a lease is dropped a unit of time too early.
LeasesCutShort == {r \in active : leaseLeft[r] > 1}

\* Mutated form of FreshQueue: the smaller cut-off is taken, below the waiting time.
PurgedBeforeDeadline == {r \in queue : age[r] < WaitTimeout - 1}

\* _cleanup: active members whose score is not after now, and queue entries
\* older than MaxAge, are dropped.
LiveActive == {r \in active : leaseLeft[r] > 0}
FreshQueue == {r \in queue : age[r] <= MaxAge}

OfRole(S, role) == {r \in S : RoleOf[r] = role}
OfAccount(S, a) == {r \in S : AccountOf[r] = a}

\* _rate_limit_allows
RateAllows(r) ==
  /\ RolePerMinute[RoleOf[r]] > 0 =>
       minuteUse[RoleOf[r]] < RolePerMinute[RoleOf[r]]
  /\ spacing[RoleOf[r]] = 0

\* Mutated form of Eligible: the reserve kept for live work is forgotten.
EligibleWithoutReserve(r) ==
  /\ Cardinality(LiveActive) < GlobalConcurrency
  /\ Cardinality(OfRole(LiveActive, RoleOf[r])) < RoleLimit[RoleOf[r]]
  /\ Cardinality(OfAccount(LiveActive, AccountOf[r])) < PerAccountConcurrency
  /\ RateAllows(r)

\* Mutated form of Eligible: an account is compared with its limit too late.
EligibleOffByOne(r) ==
  /\ Cardinality(LiveActive) < GlobalConcurrency
  /\ Cardinality(OfRole(LiveActive, RoleOf[r])) < RoleLimit[RoleOf[r]]
  /\ Cardinality(OfAccount(LiveActive, AccountOf[r])) <= PerAccountConcurrency
  /\ PriorityOf[r] >= PriorityBackfill =>
       Cardinality(LiveActive) < GlobalConcurrency - LiveReservedSlots
  /\ RateAllows(r)

\* _eligible
Eligible(r) ==
  /\ Cardinality(LiveActive) < GlobalConcurrency
  /\ Cardinality(OfRole(LiveActive, RoleOf[r])) < RoleLimit[RoleOf[r]]
  /\ Cardinality(OfAccount(LiveActive, AccountOf[r])) < PerAccountConcurrency
  /\ PriorityOf[r] >= PriorityBackfill =>
       Cardinality(LiveActive) < GlobalConcurrency - LiveReservedSlots
  /\ RateAllows(r)

\* _select_candidate: only the most urgent class is looked at, even when
\* nothing in it is eligible; inside the class the account whose last grant is
\* the oldest goes first, then the smaller sequence number.
TopClass ==
  {r \in FreshQueue : \A q \in FreshQueue : PriorityOf[r] <= PriorityOf[q]}

RanksBefore(r, q) ==
  \/ lastGrant[AccountOf[r]] < lastGrant[AccountOf[q]]
  \/ /\ lastGrant[AccountOf[r]] = lastGrant[AccountOf[q]]
     /\ sequence[r] <= sequence[q]

IsCandidate(r) ==
  /\ r \in TopClass
  /\ Eligible(r)
  /\ \A q \in TopClass : Eligible(q) => RanksBefore(r, q)

-----------------------------------------------------------------------------
(* The callers. *)

\* acquire() reads the clock and draws a sequence number before it asks for
\* the lock, so requests may enter the queue out of sequence order.
Arrive(r) ==
  /\ phase[r] = "idle"
  /\ phase' = [phase EXCEPT ![r] = "arriving"]
  /\ nextSeq' = nextSeq + 1
  /\ sequence' = [sequence EXCEPT ![r] = nextSeq']
  /\ age' = [age EXCEPT ![r] = 0]
  /\ UNCHANGED <<queue, active, waitLeft, leaseLeft, callAge, grantSeq,
                 lastGrant, inMinute, minuteUse, spacing>>

\* The first critical section: clean up, then refuse when the queue is full
\* or join it.  The deadline starts after the section.
Enqueue(r) ==
  /\ phase[r] = "arriving"
  /\ active' = LiveActive
  /\ \/ /\ Cardinality(FreshQueue) >= QueueMax
        /\ queue' = FreshQueue
        /\ phase' = [phase EXCEPT ![r] = "rejected"]
        /\ UNCHANGED waitLeft
     \/ /\ Cardinality(FreshQueue) < QueueMax
        /\ queue' = FreshQueue \cup {r}
        /\ phase' = [phase EXCEPT ![r] = "waiting"]
        /\ waitLeft' = [waitLeft EXCEPT ![r] = WaitTimeout]
  /\ UNCHANGED <<age, leaseLeft, callAge, inMinute, minuteUse, spacing,
                 counters>>

\* _record_grant
RecordGrant(r) ==
  /\ minuteUse' = [minuteUse EXCEPT ![RoleOf[r]] =
                     IF RolePerMinute[RoleOf[r]] > 0 THEN @ + 1 ELSE @]
  /\ spacing' = [spacing EXCEPT ![RoleOf[r]] = RoleMinDelay[RoleOf[r]]]
  /\ grantSeq' = grantSeq + 1
  /\ lastGrant' = [lastGrant EXCEPT ![AccountOf[r]] = grantSeq']

\* The lease counts from the clock that was read before the lock.
LeaseTime(late) == Lease - late

\* A poll that finds the caller's own request at the head of the ranking.  The
\* clock was read before the lock was asked for, so the lease that is recorded
\* is up to LockWait short.
Grant(r) ==
  /\ phase[r] = "waiting"
  /\ IsCandidate(r)
  /\ phase' = [phase EXCEPT ![r] = "holding"]
  /\ queue' = FreshQueue \ {r}
  /\ active' = LiveActive \cup {r}
  /\ \E late \in 0..LockWait :
       leaseLeft' = [leaseLeft EXCEPT ![r] = LeaseTime(late)]
  /\ callAge' = [callAge EXCEPT ![r] = 0]
  /\ RecordGrant(r)
  /\ UNCHANGED <<age, waitLeft, sequence, nextSeq, inMinute>>

\* The critical section of a candidate takes longer than the lock lasts: it has
\* cleaned up and chosen, and others are let in before it writes.
Stall(r) ==
  /\ phase[r] = "waiting"
  /\ IsCandidate(r)
  /\ phase' = [phase EXCEPT ![r] = "stalled"]
  /\ queue' = FreshQueue
  /\ active' = LiveActive
  /\ \E late \in 0..LockWait :
       leaseLeft' = [leaseLeft EXCEPT ![r] = LeaseTime(late)]
  /\ UNCHANGED <<age, waitLeft, callAge, inMinute, minuteUse, spacing, counters>>

\* It writes its lease all the same, which counts from the clock it read before;
\* giving back the lock then raises, so that no call is made under the lease and
\* nobody releases it.
LateGrant(r) ==
  /\ phase[r] = "stalled"
  /\ phase' = [phase EXCEPT ![r] = "overtaken"]
  /\ queue' = queue \ {r}
  /\ active' = active \cup {r}
  /\ RecordGrant(r)
  /\ UNCHANGED <<age, waitLeft, leaseLeft, callAge, sequence, nextSeq, inMinute>>

\* Mutated form of PollInVain: the deadline is looked at only while the entry
\* is still queued.
PollWithoutDeadline(r) ==
  /\ phase[r] = "waiting"
  /\ ~ IsCandidate(r)
  /\ active' = LiveActive
  /\ \/ /\ waitLeft[r] > 0 \/ r \notin FreshQueue
        /\ queue' = FreshQueue
        /\ UNCHANGED phase
     \/ /\ waitLeft[r] = 0 /\ r \in FreshQueue
        /\ queue' = FreshQueue \ {r}
        /\ phase' = [phase EXCEPT ![r] = "rejected"]
  /\ UNCHANGED <<times, counters>>

\* A poll that does not: the caller goes back to sleep or, at its deadline,
\* removes its entry and raises WorkloadAcquireTimeout.
PollInVain(r) ==
  /\ phase[r] = "waiting"
  /\ ~ IsCandidate(r)
  /\ active' = LiveActive
  /\ \/ /\ waitLeft[r] > 0
        /\ queue' = FreshQueue
        /\ UNCHANGED phase
     \/ /\ waitLeft[r] = 0
        /\ queue' = FreshQueue \ {r}
        /\ phase' = [phase EXCEPT ![r] = "rejected"]
  /\ UNCHANGED <<times, counters>>

\* The Redis lock was not obtained within LockWait, or was lost in a section that
\* only read: before the entry exists nothing is left behind, afterwards the
\* handler removes it.  (A first section that loses the lock leaves its entry, as
\* a caller does that dies after Enqueue.)
LockFails(r) ==
  /\ phase[r] \in {"arriving", "waiting"}
  /\ phase' = [phase EXCEPT ![r] = "rejected"]
  /\ queue' = queue \ {r}
  /\ UNCHANGED <<active, times, counters>>

\* release(), on leaving the with-block around the model call.
Release(r) ==
  /\ phase[r] = "holding"
  /\ phase' = [phase EXCEPT ![r] = "done"]
  /\ active' = active \ {r}
  /\ UNCHANGED <<queue, times, counters>>

\* The process dies: its entries stay in Redis.
Crash(r) ==
  /\ phase[r] \in {"arriving", "waiting", "stalled", "holding"}
  /\ phase' = [phase EXCEPT ![r] = "crashed"]
  /\ UNCHANGED <<queue, active, times, counters>>

\* snapshot() cleans up as well.
Snapshot ==
  /\ queue' = FreshQueue
  /\ active' = LiveActive
  /\ UNCHANGED <<phase, times, counters>>

Decrease(n) == IF n > 0 THEN n - 1 ELSE 0

\* Time passes.  A model call ends by CallMax and a caller gets the lock or
\* gives up by LockWait, so time does not run past either.
Tick ==
  /\ \A r \in Requests : phase[r] = "holding" => callAge[r] < CallMax
  /\ \A r \in Requests : phase[r] = "arriving" => age[r] < LockWait
  /\ age' = [r \in Requests |->
               IF (phase[r] = "arriving" \/ r \in queue) /\ age[r] <= MaxAge
                 THEN age[r] + 1
               ELSE IF r \in queue THEN age[r] ELSE 0]
  /\ waitLeft' = [r \in Requests |-> Decrease(waitLeft[r])]
  /\ leaseLeft' = [r \in Requests |-> Decrease(leaseLeft[r])]
  /\ callAge' = [r \in Requests |->
                   IF phase[r] = "holding" THEN callAge[r] + 1 ELSE 0]
  /\ inMinute' = (inMinute + 1) % Minute
  /\ minuteUse' = IF inMinute' = 0 THEN [role \in Roles |-> 0] ELSE minuteUse
  /\ spacing' = [role \in Roles |-> Decrease(spacing[role])]
  /\ UNCHANGED <<phase, queue, active, counters>>

Next ==
  \/ \E r \in Requests :
       \/ Arrive(r) \/ Enqueue(r) \/ Grant(r) \/ PollInVain(r)
       \/ Stall(r) \/ LateGrant(r) \/ LockFails(r) \/ Release(r) \/ Crash(r)
  \/ Snapshot
  \/ Tick

\* What a live caller does next.
Proceed(r) == Enqueue(r) \/ Grant(r) \/ PollInVain(r) \/ LateGrant(r) \/ Release(r)

\* A live caller keeps polling (the loop sleeps WORKLOAD_POLL_INTERVAL_SECONDS
\* and never gives up before its deadline), a critical section and a model call
\* end, and time passes.  Nobody has to crash, to lose the lock or to ask for a
\* snapshot.
Fairness == (\A r \in Requests : WF_vars(Proceed(r))) /\ WF_vars(Tick)

Spec == Init /\ [][Next]_vars
FairSpec == Spec /\ Fairness

-----------------------------------------------------------------------------
(* Properties. *)

\* The limits of Settings bound a set of requests.
WithinLimits(S) ==
  /\ Cardinality(S) <= GlobalConcurrency
  /\ \A role \in Roles : Cardinality(OfRole(S, role)) <= RoleLimit[role]
  /\ \A a \in Accounts : Cardinality(OfAccount(S, a)) <= PerAccountConcurrency

\* The leases whose section held the lock until it had written them.
Proper == {r \in active : phase[r] # "overtaken"}

Background(S) == {r \in S : PriorityOf[r] >= PriorityBackfill}

\* The leases recorded in Redis under the lock never exceed a global, per-role or
\* per-account limit, whatever the interleaving of polls, crashes and expiries; the
\* lease of a section that lost its lock comes on top.
LeasesWithinLimits == WithinLimits(Proper)

\* Background work never takes the slots that are reserved for live work, in whatever
\* order leases are granted, expire and come back: the cap is compared with all leases
\* (workload.py, _eligible), never with those of the background alone.
ReserveLeftFree ==
  Cardinality(Background(Proper)) <= GlobalConcurrency - LiveReservedSlots

\* The calls that can still rely on their lease.
Covered ==
  {r \in Requests : phase[r] = "holding" /\ callAge[r] < Lease - LockWait}

\* The model calls in progress stay within the limits but for those that outlive
\* their lease: no call loses its slot before, not even to a section that lost the
\* lock.  A call with its retries may outlive it (config.py asks less), and goes on
\* while its slot is handed on.
CallsWithinLimits == WithinLimits(Covered)

\* A caller whose entry was purged as stale has already reached its deadline,
\* so _cleanup never takes its place in the queue from a caller that may still
\* be served, though it counts from another clock reading than the deadline.
PurgedOnlyExpired ==
  \A r \in Requests : phase[r] = "waiting" /\ r \notin queue => waitLeft[r] = 0

\* Every caller that waits is answered: it gets a lease or an error, even if
\* the request ahead of it belongs to a process that died.
EveryCallerAnswered ==
  \A r \in Requests :
    phase[r] \in {"waiting", "stalled"} ~> phase[r] \notin {"waiting", "stalled"}
=============================================================================
