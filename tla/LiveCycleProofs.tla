-------------------------- MODULE LiveCycleProofs --------------------------
(***************************************************************************)
(* Proofs about the live cycle, for any accounts, messages, slots, limits  *)
(* and any number of incidents.                                            *)
(***************************************************************************)
EXTENDS LiveCycle, FiniteSetTheorems, WellFoundedInduction, TLAPS

USE MailAssumption, LimitsAssumption, CycleBoundsAssumption

-----------------------------------------------------------------------------
(* The inductive invariant. *)

Busy(s) == cycle[s].at \in Steps

\* Cycles will not fetch the message again.
Gone(m) == m \in marked \/ m \in taken
\* It was moved, by a cycle or by its user.
Moved(m) == filed[m] > 0 \/ m \in taken
\* A thread of a cancelled cycle is moving it.
Hunted(m) == \E o \in orphans : o.msg = m /\ o.at # "marking"

JobsDiffer ==
  \A s, t \in Slots : Busy(s) /\ Busy(t) /\ s # t => cycle[s].account # cycle[t].account

\* What holds of a message that a slot has before it.
Ahead(s, m) ==
  /\ Owner[m] = cycle[s].account
  /\ m \in inbox \/ Moved(m)
  /\ ~ Hunted(m)
  /\ filed[m] = 0 \/ (cycle[s].msg = m /\ cycle[s].at \in {"removing", "storing"})

\* What holds of a slot.
SlotInv(s) ==
  Busy(s) =>
    /\ entry[cycle[s].account].at = "running"
    /\ \A m \in cycle[s].todo : Ahead(s, m)
    /\ cycle[s].at \in InThread \cup {"storing"} => cycle[s].msg \in cycle[s].todo
    /\ cycle[s].at \in {"copying", "removing"} => Gone(cycle[s].msg)
    /\ cycle[s].at = "removing" => Moved(cycle[s].msg)
    /\ cycle[s].at = "storing" /\ cycle[s].execute => Moved(cycle[s].msg)
    /\ cycle[s].at = "removing" => cycle[s].execute
    /\ cycle[s].at = "copying" => cycle[s].execute

OrphanInv(o) ==
  /\ o.at # "marking" => Gone(o.msg)
  /\ o.at = "copying" => filed[o.msg] = 0 /\ (o.msg \in inbox \/ Moved(o.msg))
  /\ o.at = "removing" => Moved(o.msg)

MailInv(m) ==
  /\ ~ (m \in taken /\ m \in inbox)
  /\ filed[m] <= 1
  /\ filed[m] > 0 => Gone(m)
  /\ row[m] = "moved" => Moved(m)

\* What expires has some time left.
TypeInv ==
  /\ TypeOK
  /\ \A a \in Accounts : entry[a].at \in {"kept", "elsewhere"} => entry[a].left > 0

IInv ==
  /\ TypeInv /\ JobsDiffer
  /\ \A s \in Slots : SlotInv(s)
  /\ \A o \in orphans : OrphanInv(o)
  /\ \A m \in Mail : MailInv(m)

-----------------------------------------------------------------------------
(* Slots that a step does not concern. *)

LEMMA BusyType ==
  ASSUME TypeOK, NEW s \in Slots
  PROVE  Busy(s) => cycle[s] \in Running
BY DEF TypeOK, Busy, Free, Down, Steps, InThread

LEMMA NotBusy ==
  ASSUME TypeOK, NEW s \in Slots
  PROVE  (cycle[s] = Free \/ cycle[s] = Down) <=> ~ Busy(s)
BY DEF TypeOK, Busy, Free, Down, Steps, InThread, Running

\* A slot that has the message before it does not notice the step.
Calm(m) ==
  /\ m \in inbox \/ Moved(m) => (m \in inbox \/ Moved(m))'
  /\ Gone(m) => Gone(m)'
  /\ Moved(m) => Moved(m)'
  /\ filed'[m] = filed[m]
  /\ Hunted(m)' => Hunted(m)

LEMMA SlotStays ==
  ASSUME TypeOK, NEW s \in Slots, SlotInv(s), cycle'[s] = cycle[s],
         Busy(s) => entry'[cycle[s].account].at = "running",
         \A m \in Mail : Busy(s) /\ m \in cycle[s].todo => Calm(m)
  PROVE  SlotInv(s)'
<1> SUFFICES ASSUME Busy(s) PROVE SlotInv(s)'
  BY DEF SlotInv, Busy
<1>1. cycle[s] \in Running
  BY BusyType
<1>2. \A m \in cycle[s].todo : Calm(m)
  BY <1>1 DEF Running
<1>3. \A m \in cycle[s].todo : Ahead(s, m)'
  BY <1>2 DEF SlotInv, Calm, Ahead, Moved
<1>4. PICK m : m = cycle[s].msg
  OBVIOUS
<1>5. cycle[s].at \in {"copying", "removing"} => Gone(m)'
  BY <1>2, <1>4 DEF SlotInv, Calm, InThread
<1>6. cycle[s].at = "removing" \/ (cycle[s].at = "storing" /\ cycle[s].execute) => Moved(m)'
  BY <1>2, <1>4 DEF SlotInv, Calm, InThread
<1> QED
  BY <1>3, <1>4, <1>5, <1>6 DEF SlotInv, Busy, Gone, Moved

\* The mailboxes, the rows and the threads are as before: it remains to look at
\* the slot that took the step.
LEMMA QuietIInv ==
  ASSUME IInv, UNCHANGED <<mailboxes, row, orphans>>, TypeInv', JobsDiffer',
         \A s \in Slots :
           \/ SlotInv(s)'
           \/ /\ cycle'[s] = cycle[s]
              /\ Busy(s) => entry'[cycle[s].account].at = "running"
  PROVE  IInv'
<1>1. \A m \in Mail : Calm(m)
  BY DEF Calm, Moved, Gone, Hunted, mailboxes
<1>2. \A s \in Slots : SlotInv(s)'
  BY <1>1, SlotStays DEF IInv, TypeInv
<1>3. \A o \in orphans' : OrphanInv(o)'
  BY DEF IInv, OrphanInv, Gone, Moved, mailboxes
<1>4. \A m \in Mail : MailInv(m)'
  BY DEF IInv, MailInv, Gone, Moved, mailboxes
<1> QED
  BY <1>2, <1>3, <1>4 DEF IInv

LEMMA InitIInv == Init => IInv
<1> SUFFICES ASSUME Init PROVE IInv
  OBVIOUS
<1>1. TypeInv
  BY DEF Init, TypeInv, TypeOK, Entries, None, Places
<1>2. \A s \in Slots : ~ Busy(s)
  BY DEF Init, Busy, Free, Steps, InThread
<1> QED
  BY <1>1, <1>2 DEF Init, IInv, JobsDiffer, SlotInv, MailInv, OrphanInv, Moved, Gone

\* One slot takes a step that the mailboxes do not notice.
LEMMA SlotIInv ==
  ASSUME IInv, UNCHANGED <<mailboxes, row, orphans>>, TypeInv',
         NEW s \in Slots, NEW r, cycle' = [cycle EXCEPT ![s] = r],
         SlotInv(s)',
         Busy(s)' => \/ Busy(s) /\ cycle'[s].account = cycle[s].account
                     \/ entry[cycle'[s].account].at # "running",
         \A t \in Slots \ {s} : Busy(t) => entry'[cycle[t].account].at = "running"
  PROVE  IInv'
<1>1. \A t \in Slots : cycle'[t] = IF t = s THEN r ELSE cycle[t]
  BY DEF IInv, TypeInv, TypeOK
<1>2. \A t \in Slots : Busy(t) => entry[cycle[t].account].at = "running"
  BY DEF IInv, SlotInv
<1>3. JobsDiffer'
  BY <1>1, <1>2 DEF IInv, JobsDiffer, Busy
<1> QED
  BY <1>1, <1>3, QuietIInv
-----------------------------------------------------------------------------
(* Steps that the mailboxes do not notice. *)

LEMMA EntryTypes ==
  /\ None \in Entries /\ Kept \in Entries /\ Kept.left > 0
  /\ \A e \in Entries : (e.at \in {"kept", "elsewhere"} => e.left > 0)
       => /\ Older(e) \in Entries
          /\ Older(e).at \in {"kept", "elsewhere"} => Older(e).left > 0
BY DEF Entries, Places, None, Kept, Older

LEMMA EnqueuedTypes ==
  ASSUME NEW e \in Entries, e.at \in {"kept", "elsewhere"} => e.left > 0,
         NEW place \in Places, NEW life \in Nat,
         place \in {"kept", "elsewhere"} => life > 0
  PROVE  /\ Enqueued(e, place, life) \in Entries
         /\ Enqueued(e, place, life).at \in {"kept", "elsewhere"}
              => Enqueued(e, place, life).left > 0
         /\ e.at = "running" => Enqueued(e, place, life) = e
BY DEF Entries, Places, Enqueued

LEMMA TickIInv == ASSUME IInv, Tick PROVE IInv'
<1>1. \A a \in Accounts : age[a] \in 0..Interval /\ entry[a] \in Entries
  BY DEF IInv, TypeInv, TypeOK
<1>2. age' \in [Accounts -> 0..Interval]
  BY <1>1 DEF Tick, Due
<1> DEFINE e(a) == Older(entry[a])
<1>3. \A a \in Accounts : /\ e(a) \in Entries
                          /\ e(a).at \in {"kept", "elsewhere"} => e(a).left > 0
                          /\ entry[a].at = "running" => e(a) = entry[a]
  BY <1>1, EntryTypes DEF IInv, TypeInv, Older
<1>4. \A a \in Accounts : entry'[a] \in {e(a), Enqueued(e(a), "queued", 0)}
  BY DEF Tick
<1> HIDE DEF e
<1>5. \A a \in Accounts : /\ entry'[a] \in Entries
                          /\ entry'[a].at \in {"kept", "elsewhere"} => entry'[a].left > 0
                          /\ entry[a].at = "running" => entry'[a] = entry[a]
  BY <1>3, <1>4, EnqueuedTypes DEF Places
<1>6. entry' \in [Accounts -> Entries]
  BY <1>5 DEF Tick
<1>7. TypeInv'
  BY <1>2, <1>5, <1>6 DEF IInv, TypeInv, TypeOK, Tick, mailboxes, bounds
<1>8. \A s \in Slots : Busy(s) => entry'[cycle[s].account].at = "running"
  BY <1>5, BusyType DEF IInv, TypeInv, SlotInv, Running
<1> QED
  BY <1>7, <1>8, QuietIInv DEF Tick, IInv, JobsDiffer, Busy

LEMMA RunNowIInv == ASSUME IInv, NEW a \in Accounts, RunNow(a) PROVE IInv'
<1> DEFINE e == Enqueued(entry[a], "elsewhere", KeyLife)
<1>1. entry[a] \in Entries /\ (entry[a].at \in {"kept", "elsewhere"} => entry[a].left > 0)
  BY DEF IInv, TypeInv, TypeOK
<1>2. /\ e \in Entries /\ (e.at \in {"kept", "elsewhere"} => e.left > 0)
      /\ entry[a].at = "running" => e = entry[a]
  <2>1. KeyLife \in Nat /\ KeyLife > 0 /\ "elsewhere" \in Places
    BY DEF Places
  <2> HIDE DEF e
  <2>2. PICK f : f = entry[a]
    OBVIOUS
  <2>3. f \in Entries /\ (f.at \in {"kept", "elsewhere"} => f.left > 0)
    BY <1>1, <2>2
  <2>4. /\ Enqueued(f, "elsewhere", KeyLife) \in Entries
        /\ Enqueued(f, "elsewhere", KeyLife).at \in {"kept", "elsewhere"}
             => Enqueued(f, "elsewhere", KeyLife).left > 0
        /\ f.at = "running" => Enqueued(f, "elsewhere", KeyLife) = f
    BY <2>1, <2>3, EnqueuedTypes
  <2> QED
    BY <2>2, <2>4 DEF e
<1>3. entry' = [entry EXCEPT ![a] = e]
  BY DEF RunNow
<1> HIDE DEF e
<1>4. TypeInv'
  BY <1>2, <1>3 DEF IInv, TypeInv, TypeOK, RunNow, mailboxes, Incident, Command, bounds
<1>5. \A s \in Slots : Busy(s) => entry'[cycle[s].account].at = "running"
  BY <1>2, <1>3 DEF IInv, TypeInv, TypeOK, SlotInv
<1> QED
  BY <1>4, <1>5, QuietIInv DEF RunNow, IInv, JobsDiffer, Busy

LEMMA SwitchIInv == ASSUME IInv, NEW a \in Accounts, Switch(a) PROVE IInv'
<1>1. TypeInv'
  BY DEF IInv, TypeInv, TypeOK, Switch, mailboxes, Incident, Command, bounds
<1>2. \A s \in Slots : Busy(s) => entry'[cycle[s].account].at = "running"
  BY DEF IInv, SlotInv, Switch
<1> QED
  BY <1>1, <1>2, QuietIInv DEF Switch, IInv, JobsDiffer, Busy

\* The types that the steps of a slot leave to be shown.
OtherTypes ==
  /\ active \subseteq Accounts
  /\ age \in [Accounts -> 0..Interval]
  /\ used \in Nat
  /\ commands \in 0..MaxCommands /\ incidents \in 0..MaxIncidents

\* A busy slot goes on with the job of the same account.
LEMMA GoesOn ==
  ASSUME IInv, UNCHANGED <<mailboxes, row, orphans, entry>>, OtherTypes',
         NEW s \in Slots, Busy(s), NEW r \in Running, r.account = cycle[s].account,
         cycle' = [cycle EXCEPT ![s] = r], SlotInv(s)'
  PROVE  IInv'
<1>1. \A t \in Slots : cycle'[t] = IF t = s THEN r ELSE cycle[t]
  BY DEF IInv, TypeInv, TypeOK
<1>2. cycle' \in [Slots -> Running \cup {Free, Down}]
  BY DEF IInv, TypeInv, TypeOK
<1>3. TypeInv'
  BY <1>2 DEF IInv, TypeInv, TypeOK, OtherTypes, mailboxes
<1>4. \A t \in Slots : Busy(t) => entry'[cycle[t].account].at = "running"
  BY DEF IInv, SlotInv
<1>5. r.at \in Steps
  BY DEF Running
<1>6. JobsDiffer'
  BY <1>1, <1>5 DEF IInv, JobsDiffer, Busy
<1> QED
  BY <1>1, <1>3, <1>4, <1>6, QuietIInv

\* A busy slot is done with its job or goes down.
LEMMA Ends ==
  ASSUME IInv, UNCHANGED <<mailboxes, row, orphans>>, OtherTypes',
         NEW s \in Slots, Busy(s), NEW p \in {Free, Down}, cycle' = [cycle EXCEPT ![s] = p],
         NEW e \in Entries, entry' = [entry EXCEPT ![cycle[s].account] = e],
         e.at \in {"kept", "elsewhere"} => e.left > 0
  PROVE  IInv'
<1>1. \A t \in Slots : cycle'[t] = IF t = s THEN p ELSE cycle[t]
  BY DEF IInv, TypeInv, TypeOK
<1>2. cycle' \in [Slots -> Running \cup {Free, Down}]
  BY DEF IInv, TypeInv, TypeOK
<1>3. cycle[s].account \in Accounts
  BY BusyType DEF IInv, TypeInv, Running
<1>4. TypeInv'
  BY <1>2, <1>3 DEF IInv, TypeInv, TypeOK, OtherTypes, mailboxes
<1>5. ~ Busy(s)'
  BY <1>1 DEF Busy, Free, Down, Steps, InThread
<1>6. \A t \in Slots \ {s} : Busy(t) => entry'[cycle[t].account].at = "running"
  <2> TAKE t \in Slots \ {s}
  <2> HAVE Busy(t)
  <2>1. cycle[t].account # cycle[s].account /\ entry[cycle[t].account].at = "running"
    BY DEF IInv, JobsDiffer, SlotInv
  <2>2. cycle[t].account \in Accounts
    BY BusyType DEF IInv, TypeInv, Running
  <2> QED
    BY <2>1, <2>2, <1>3 DEF IInv, TypeInv, TypeOK
<1> QED
  BY <1>1, <1>4, <1>5, <1>6, SlotIInv DEF SlotInv

\* It goes on without a message, with a message that it has before it, or with
\* messages that it has fetched.
LEMMA GoesOnQuietly ==
  ASSUME IInv, UNCHANGED <<mailboxes, row, orphans, entry>>, OtherTypes',
         NEW s \in Slots, Busy(s), cycle[s].at \in {"claimed", "logged", "checked", "working"},
         NEW r \in Running, r.account = cycle[s].account,
         cycle' = [cycle EXCEPT ![s] = r],
         r.at \in {"logged", "checked", "working", "marking"},
         r.at = "marking" => r.msg \in r.todo,
         \A m \in r.todo : \/ m \in cycle[s].todo
                           \/ /\ Owner[m] = r.account /\ m \in inbox
                              /\ ~ Hunted(m) /\ filed[m] = 0
  PROVE  IInv'
<1>1. cycle'[s] = r
  BY DEF IInv, TypeInv, TypeOK
<1>2. \A m \in cycle[s].todo : /\ Owner[m] = r.account /\ (m \in inbox \/ Moved(m))
                               /\ ~ Hunted(m) /\ filed[m] = 0
  BY DEF IInv, SlotInv, Ahead
<1>3. \A m \in r.todo : Ahead(s, m)'
  BY <1>1, <1>2 DEF Ahead, Moved, Hunted, mailboxes
<1>4. SlotInv(s)'
  BY <1>1, <1>3 DEF IInv, SlotInv, InThread
<1> QED
  BY <1>4, GoesOn

LEMMA CreateLogIInv == ASSUME IInv, NEW s \in Slots, CreateLog(s) PROVE IInv'
<1> DEFINE r == [cycle[s] EXCEPT !.at = "logged"]
<1>1. Busy(s) /\ cycle[s] \in Running
  BY BusyType DEF CreateLog, At, Busy, Steps, IInv, TypeInv
<1>2. /\ r \in Running /\ r.account = cycle[s].account
      /\ r.at = "logged" /\ r.todo = cycle[s].todo
  BY <1>1 DEF Running, Steps
<1>3. cycle' = [cycle EXCEPT ![s] = r]
  BY DEF CreateLog
<1> HIDE DEF r
<1>4. OtherTypes'
  BY DEF IInv, TypeInv, TypeOK, OtherTypes, CreateLog, Incident, Command, bounds
<1> QED
  BY <1>1, <1>2, <1>3, <1>4, GoesOnQuietly DEF CreateLog, At

LEMMA CheckQuotaIInv == ASSUME IInv, NEW s \in Slots, CheckQuota(s) PROVE IInv'
<1> DEFINE r == [cycle[s] EXCEPT !.at = "checked"]
<1>1. Busy(s) /\ cycle[s] \in Running
  BY BusyType DEF CheckQuota, At, Busy, Steps, IInv, TypeInv
<1>2. /\ r \in Running /\ r.account = cycle[s].account
      /\ r.at = "checked" /\ r.todo = cycle[s].todo
  BY <1>1 DEF Running, Steps
<1>3. OtherTypes'
  BY DEF IInv, TypeInv, TypeOK, OtherTypes, CheckQuota, Incident, Command, bounds
<1>4. CASE ~ Leave(s)
  <2>1. cycle' = [cycle EXCEPT ![s] = r] /\ UNCHANGED entry
    BY <1>4 DEF CheckQuota
  <2> HIDE DEF r
  <2> QED
    BY <1>1, <1>2, <1>3, <2>1, GoesOnQuietly DEF CheckQuota, At
<1>5. CASE Leave(s)
  BY <1>1, <1>3, <1>5, EntryTypes, Ends DEF CheckQuota, Leave
<1> QED
  BY <1>4, <1>5 DEF CheckQuota

\* Nothing that is fetched has been touched by a cycle.
LEMMA FetchedIsUntouched ==
  ASSUME IInv, NEW a \in Accounts, NEW m \in Oldest(a)
  PROVE  /\ m \in Mail /\ Owner[m] = a /\ m \in inbox
         /\ ~ Hunted(m) /\ filed[m] = 0
<1>1. m \in inbox /\ m \notin marked /\ Owner[m] = a
  BY DEF Oldest, Unprocessed
<1>2. m \in Mail /\ filed[m] \in Nat
  BY <1>1 DEF IInv, TypeInv, TypeOK
<1>3. ~ Gone(m)
  BY <1>1, <1>2 DEF IInv, MailInv, Gone
<1>4. ~ Hunted(m)
  BY <1>3 DEF IInv, OrphanInv, Hunted
<1> QED
  BY <1>1, <1>2, <1>3, <1>4 DEF IInv, MailInv

LEMMA FetchIInv == ASSUME IInv, NEW s \in Slots, Fetch(s) PROVE IInv'
<1>1. Busy(s) /\ cycle[s] \in Running
  BY BusyType DEF Fetch, At, Busy, Steps, IInv, TypeInv
<1>2. PICK T \in {Oldest(cycle[s].account), cycle[s].todo} :
        cycle' = [cycle EXCEPT ![s] = [cycle[s] EXCEPT !.at = "working", !.todo = T]]
  BY <1>1 DEF Fetch, Running
<1> DEFINE r == [cycle[s] EXCEPT !.at = "working", !.todo = T]
<1>3. cycle[s].account \in Accounts /\ T \subseteq Mail
  BY <1>1, FetchedIsUntouched DEF Running
<1>4. r \in Running /\ r.account = cycle[s].account /\ r.at = "working" /\ r.todo = T
  BY <1>1, <1>3 DEF Running, Steps
<1>5. \A m \in T : \/ m \in cycle[s].todo
                   \/ /\ Owner[m] = cycle[s].account /\ m \in inbox
                      /\ ~ Hunted(m) /\ filed[m] = 0
  BY <1>2, <1>3, FetchedIsUntouched
<1>6. OtherTypes'
  BY DEF IInv, TypeInv, TypeOK, OtherTypes, Fetch, Incident, Command, bounds
<1>7. cycle' = [cycle EXCEPT ![s] = r]
  BY <1>2
<1> HIDE DEF r
<1> QED
  BY <1>1, <1>4, <1>5, <1>6, <1>7, GoesOnQuietly DEF Fetch, At

LEMMA LeastOfMail ==
  ASSUME NEW S \in SUBSET Mail, S # {}
  PROVE  Least(S) \in S
<1>1. S \subseteq Nat
  BY DEF Mail
<1>2. PICK m \in S : \A n \in S : ~ (<<n, m>> \in OpToRel(<, Nat))
  BY <1>1, NatLessThanWellFounded, WFMin
<1>3. \A n \in S : m <= n
  <2> TAKE n \in S
  <2>1. ~ (n < m)
    BY <1>1, <1>2 DEF OpToRel
  <2> QED
    BY <1>1, <2>1
<1> QED
  BY <1>3 DEF Least

LEMMA ClassifyIInv == ASSUME IInv, NEW s \in Slots, Classify(s) PROVE IInv'
<1>1. Busy(s) /\ cycle[s] \in Running
  BY BusyType DEF Classify, At, Busy, Steps, IInv, TypeInv
<1> DEFINE m == Least(cycle[s].todo)
           marking(x) == [cycle[s] EXCEPT !.at = "marking", !.msg = m, !.execute = x]
           without == [cycle[s] EXCEPT !.todo = @ \ {m}]
<1>2. m \in cycle[s].todo /\ m \in Mail
  BY <1>1, LeastOfMail DEF Classify, Running
<1>3. OtherTypes'
  <2>1. UNCHANGED <<active, age, used>> /\ (UNCHANGED bounds \/ Incident("model"))
    BY DEF Classify
  <2> QED
    BY <2>1 DEF IInv, TypeInv, TypeOK, OtherTypes, Incident, bounds
<1>4. ASSUME NEW x \in BOOLEAN, cycle' = [cycle EXCEPT ![s] = marking(x)]
      PROVE  IInv'
  <2>1. /\ marking(x) \in Running /\ marking(x).account = cycle[s].account
        /\ marking(x).at = "marking" /\ marking(x).msg = m
        /\ marking(x).todo = cycle[s].todo
    BY <1>1, <1>2 DEF Running, Steps, InThread
  <2> HIDE DEF marking, m
  <2> QED
    BY <1>1, <1>2, <1>3, <1>4, <2>1, GoesOnQuietly DEF Classify, At
<1>5. CASE cycle' = [cycle EXCEPT ![s] = without]
  <2>1. /\ without \in Running /\ without.account = cycle[s].account
        /\ without.at = "working" /\ without.todo \subseteq cycle[s].todo
    BY <1>1 DEF Running, Steps, Classify, At
  <2> HIDE DEF without
  <2> QED
    BY <1>1, <1>3, <1>5, <2>1, GoesOnQuietly DEF Classify, At
<1> QED
  BY <1>4, <1>5 DEF Classify, Following

LEMMA FinalizeIInv == ASSUME IInv, NEW s \in Slots, Finalize(s) PROVE IInv'
<1>1. Busy(s) /\ cycle[s] \in Running
  BY BusyType DEF Finalize, At, Busy, Steps, IInv, TypeInv
<1>2. OtherTypes'
  BY <1>1 DEF IInv, TypeInv, TypeOK, OtherTypes, Finalize, Running, Incident, Command, bounds
<1> QED
  BY <1>1, <1>2, EntryTypes, Ends DEF Finalize, Leave

LEMMA RepeatedTypes ==
  ASSUME NEW e \in Entries
  PROVE  /\ Repeated(e) \in Entries
         /\ Repeated(e).at \in {"kept", "elsewhere"} => Repeated(e).left > 0
<1>1. CASE e.try < MaxTries
  <2>1. e.try + 1 \in 1..MaxTries
    BY <1>1 DEF Entries
  <2> QED
    BY <1>1, <2>1 DEF Entries, Places, Repeated
<1>2. CASE ~ (e.try < MaxTries)
  BY <1>2, EntryTypes DEF Repeated
<1> QED
  BY <1>1, <1>2

LEMMA CrashIInv == ASSUME IInv, NEW s \in Slots, Crash(s) PROVE IInv'
<1>1. Busy(s) /\ cycle[s] \in Running
  BY BusyType, NotBusy DEF Crash, IInv, TypeInv
<1> DEFINE a == cycle[s].account
           e == Repeated(entry[a])
<1>2. a \in Accounts /\ entry[a] \in Entries
  BY <1>1 DEF Running, IInv, TypeInv, TypeOK
<1>3. e \in Entries /\ (e.at \in {"kept", "elsewhere"} => e.left > 0)
  BY <1>2, RepeatedTypes
<1>4. entry' = [entry EXCEPT ![a] = e] /\ cycle' = [cycle EXCEPT ![s] = Down]
  BY DEF Crash
<1>5. OtherTypes'
  BY DEF IInv, TypeInv, TypeOK, OtherTypes, Crash, Incident, Command, bounds
<1> HIDE DEF e
<1> QED
  BY <1>1, <1>3, <1>4, <1>5, Ends DEF Crash

LEMMA StartupIInv == ASSUME IInv, NEW s \in Slots, Startup(s) PROVE IInv'
<1>1. ~ Busy(s) /\ cycle' = [cycle EXCEPT ![s] = Free]
  BY NotBusy DEF Startup, IInv, TypeInv
<1>2. cycle'[s] = Free
  BY <1>1 DEF IInv, TypeInv, TypeOK
<1>3. ~ Busy(s)'
  BY <1>2 DEF Busy, Free, Steps, InThread
<1>4. TypeInv'
  BY <1>1 DEF IInv, TypeInv, TypeOK, Startup, mailboxes, Incident, Command, bounds
<1> QED
  BY <1>1, <1>3, <1>4, SlotIInv DEF SlotInv, Startup, IInv

LEMMA TakeIInv == ASSUME IInv, NEW s \in Slots, NEW a \in Accounts, Take(s, a) PROVE IInv'
<1>1. ~ Busy(s) /\ entry[a].at = "queued" /\ entry[a] \in Entries
  BY DEF Take, At, Busy, Steps, InThread, IInv, TypeInv, TypeOK
<1> DEFINE r == [at |-> "claimed", account |-> a, todo |-> {}, msg |-> 0,
                 execute |-> FALSE, count |-> 0]
<1>2. r \in Running /\ r.at = "claimed" /\ r.account = a /\ r.todo = {}
  BY DEF Running, Steps
<1>3. \A t \in Slots : Busy(t) => cycle[t].account # a /\ cycle[t].account \in Accounts
  BY <1>1, BusyType DEF IInv, TypeInv, SlotInv, Running
<1>4. CASE cycle' = [cycle EXCEPT ![s] = r] /\ entry' = [entry EXCEPT ![a].at = "running"]
  <2> HIDE DEF r
  <2>1. cycle'[s] = r /\ entry'[a].at = "running"
    BY <1>1, <1>4 DEF IInv, TypeInv, TypeOK, Entries
  <2>2. [entry[a] EXCEPT !.at = "running"] \in Entries
    BY <1>1 DEF Entries, Places
  <2>3. TypeInv'
    BY <1>2, <1>4, <2>2 DEF IInv, TypeInv, TypeOK, Take, mailboxes, Incident, Command, bounds
  <2>4. \A t \in Slots : Busy(t) => entry'[cycle[t].account].at = "running"
    BY <1>3, <1>4 DEF IInv, SlotInv, TypeInv, TypeOK
  <2>5. SlotInv(s)'
    BY <1>2, <2>1 DEF SlotInv, InThread
  <2> QED
    BY <1>1, <1>2, <1>4, <2>1, <2>3, <2>4, <2>5, SlotIInv DEF Take
<1>5. CASE UNCHANGED cycle /\ entry' = [entry EXCEPT ![a] = Kept]
  <2>1. TypeInv'
    BY <1>5, EntryTypes DEF IInv, TypeInv, TypeOK, Take, mailboxes, Incident, bounds
  <2>2. \A t \in Slots : Busy(t) => entry'[cycle[t].account].at = "running"
    BY <1>3, <1>5 DEF IInv, SlotInv, TypeInv, TypeOK
  <2> QED
    BY <1>5, <2>1, <2>2, QuietIInv DEF Take, IInv, JobsDiffer, Busy
<1> QED
  BY <1>4, <1>5 DEF Take

-----------------------------------------------------------------------------
(* Steps that touch one message. *)

\* The step leaves the message alone.
Apart(m) ==
  /\ (m \in inbox' <=> m \in inbox)
  /\ (m \in marked' <=> m \in marked)
  /\ (m \in taken' <=> m \in taken)
  /\ filed'[m] = filed[m] /\ row'[m] = row[m]
  /\ \A o \in orphans' : o.msg = m => o \in orphans

LEMMA TouchIInv ==
  ASSUME IInv, TypeInv', JobsDiffer', NEW m \in Mail,
         \A n \in Mail \ {m} : Apart(n),
         MailInv(m)',
         \A o \in orphans' : o.msg = m => OrphanInv(o)',
         \A s \in Slots :
           \/ SlotInv(s)'
           \/ /\ cycle'[s] = cycle[s]
              /\ Busy(s) => /\ entry'[cycle[s].account].at = "running"
                            /\ m \in cycle[s].todo => Calm(m)
  PROVE  IInv'
<1>1. \A n \in Mail \ {m} : Calm(n)
  BY DEF Apart, Calm, Gone, Moved, Hunted
<1>2. \A s \in Slots : SlotInv(s)'
  BY <1>1, SlotStays DEF IInv, TypeInv
<1>3. \A n \in Mail : MailInv(n)'
  BY DEF IInv, MailInv, Apart, Gone, Moved
<1>4. \A o \in orphans' : OrphanInv(o)'
  <2> SUFFICES ASSUME NEW o \in orphans', o.msg # m PROVE OrphanInv(o)'
    OBVIOUS
  <2>1. o.msg \in Mail \ {m}
    BY DEF TypeInv, TypeOK
  <2>2. o \in orphans
    BY <2>1 DEF Apart
  <2> QED
    BY <2>1, <2>2 DEF IInv, OrphanInv, Apart, Gone, Moved
<1> QED
  BY <1>2, <1>3, <1>4 DEF IInv

\* No other slot has the message before it.
LEMMA NotShared ==
  ASSUME IInv, NEW s \in Slots, NEW t \in Slots \ {s}, Busy(s), Busy(t),
         NEW m \in cycle[s].todo
  PROVE  m \notin cycle[t].todo
BY DEF IInv, JobsDiffer, SlotInv, Ahead

\* What an IMAP command does to its message.
LEMMA PerformEffect ==
  ASSUME IInv, NEW m \in Mail, NEW step \in InThread, Perform(step, m), row' = row,
         step = "copying" => Gone(m) /\ filed[m] = 0,
         step = "removing" => Moved(m)
  PROVE  /\ inbox' \subseteq Mail /\ marked' \subseteq Mail /\ taken' \subseteq Mail
         /\ filed' \in [Mail -> Nat]
         /\ \A n \in Mail \ {m} : /\ (n \in inbox' <=> n \in inbox)
                                  /\ (n \in marked' <=> n \in marked)
                                  /\ (n \in taken' <=> n \in taken)
                                  /\ filed'[n] = filed[n]
         /\ MailInv(m)'
         /\ m \in inbox \/ Moved(m) => (m \in inbox \/ Moved(m))'
         /\ Gone(m) => Gone(m)'
         /\ Moved(m) => Moved(m)'
         /\ step # "copying" => filed'[m] = filed[m]
         /\ step = "marking" => (m \in inbox \/ m \in taken => Gone(m)')
         /\ step = "copying" => (m \in inbox \/ Moved(m) => Moved(m)')
<1>1. /\ inbox \subseteq Mail /\ marked \subseteq Mail /\ taken \subseteq Mail
      /\ filed \in [Mail -> Nat] /\ filed[m] \in Nat /\ MailInv(m)
  BY DEF IInv, TypeInv, TypeOK
<1>2. CASE step = "marking"
  <2>1. /\ inbox' = inbox /\ filed' = filed /\ taken' = taken
        /\ marked' = marked \cup ({m} \cap inbox)
    BY <1>2 DEF Perform, SetKeyword
  <2>2. \A n \in Mail : /\ n \in marked => n \in marked'
                        /\ n \in marked' /\ n # m => n \in marked
    BY <2>1
  <2>3. marked' \subseteq Mail /\ (m \in inbox => m \in marked')
    BY <1>1, <2>1
  <2> QED
    BY <1>1, <1>2, <2>1, <2>2, <2>3 DEF MailInv, Gone, Moved
<1>3. CASE step = "copying"
  <2>1. /\ inbox' = inbox /\ marked' = marked /\ taken' = taken
        /\ filed' = [filed EXCEPT ![m] = IF m \in inbox THEN @ + 1 ELSE @]
        /\ Gone(m) /\ filed[m] = 0
    BY <1>3 DEF Perform, CopyMail
  <2>2. filed' \in [Mail -> Nat] /\ filed'[m] = IF m \in inbox THEN 1 ELSE 0
    BY <1>1, <2>1
  <2>3. \A n \in Mail \ {m} : filed'[n] = filed[n]
    BY <1>1, <2>1
  <2>4. Gone(m)' /\ (Moved(m) => Moved(m)') /\ (m \in inbox => Moved(m)')
    BY <2>1, <2>2 DEF Gone, Moved
  <2>5. MailInv(m)'
    BY <1>1, <2>1, <2>2, <2>4 DEF MailInv
  <2> QED
    BY <1>1, <1>3, <2>1, <2>2, <2>3, <2>4, <2>5
<1>4. CASE step = "removing"
  <2>1. /\ marked' = marked /\ filed' = filed /\ taken' = taken
        /\ inbox' = inbox \ {m} /\ Moved(m)
    BY <1>4 DEF Perform, RemoveMail
  <2>2. inbox' \subseteq Mail /\ \A n \in Mail \ {m} : n \in inbox' <=> n \in inbox
    BY <1>1, <2>1
  <2>3. Moved(m)' /\ (Gone(m) => Gone(m)') /\ ~ (m \in inbox')
    BY <2>1 DEF Gone, Moved
  <2>4. MailInv(m)'
    BY <1>1, <2>1, <2>3 DEF MailInv, Gone, Moved
  <2> QED
    BY <1>1, <1>4, <2>1, <2>2, <2>3, <2>4
<1> QED
  BY <1>2, <1>3, <1>4 DEF InThread

\* A slot is at an IMAP command.
LEMMA AtCommand ==
  ASSUME IInv, NEW s \in Slots, cycle[s].at \in InThread
  PROVE  /\ Busy(s) /\ cycle[s] \in Running
         /\ cycle[s].msg \in cycle[s].todo /\ cycle[s].msg \in Mail
         /\ cycle[s].at = "copying" => Gone(cycle[s].msg) /\ filed[cycle[s].msg] = 0
         /\ cycle[s].at = "removing" => Moved(cycle[s].msg)
         /\ cycle[s].at = "marking" => filed[cycle[s].msg] = 0
<1>1. Busy(s) /\ cycle[s] \in Running
  BY BusyType DEF Busy, Steps, IInv, TypeInv
<1>2. SlotInv(s) /\ cycle[s].msg \in cycle[s].todo
  BY <1>1 DEF IInv, SlotInv
<1>3. cycle[s].msg \in Mail /\ Ahead(s, cycle[s].msg)
  BY <1>1, <1>2 DEF Running, SlotInv
<1> QED
  BY <1>1, <1>2, <1>3 DEF SlotInv, Ahead, InThread

LEMMA ImapStepIInv == ASSUME IInv, NEW s \in Slots, ImapStep(s) PROVE IInv'
<1> PICK m \in Mail : m = cycle[s].msg
  BY AtCommand DEF ImapStep
<1> DEFINE r == [cycle[s] EXCEPT !.at = Following(cycle[s].at, cycle[s].execute)]
<1>1. /\ Busy(s) /\ cycle[s] \in Running /\ cycle[s].at \in InThread
      /\ m \in cycle[s].todo
      /\ cycle[s].at = "copying" => Gone(m) /\ filed[m] = 0
      /\ cycle[s].at = "removing" => Moved(m)
      /\ cycle[s].at = "marking" => filed[m] = 0
  BY AtCommand DEF ImapStep
<1>2. /\ r \in Running /\ r.account = cycle[s].account /\ r.todo = cycle[s].todo
      /\ r.msg = m /\ r.execute = cycle[s].execute
      /\ r.at = Following(cycle[s].at, cycle[s].execute)
      /\ r.at \in {"copying", "removing", "storing"}
  BY <1>1 DEF Running, Following, Steps, InThread
<1>3. cycle' = [cycle EXCEPT ![s] = r] /\ UNCHANGED <<active, age, row, used, entry, orphans, bounds>>
      /\ Perform(cycle[s].at, m)
  BY DEF ImapStep
<1> HIDE DEF r
<1>4. /\ inbox' \subseteq Mail /\ marked' \subseteq Mail /\ taken' \subseteq Mail
      /\ filed' \in [Mail -> Nat]
      /\ \A n \in Mail \ {m} : Apart(n)
      /\ MailInv(m)'
      /\ m \in inbox \/ Moved(m) => (m \in inbox \/ Moved(m))'
      /\ Gone(m) => Gone(m)'
      /\ Moved(m) => Moved(m)'
      /\ cycle[s].at # "copying" => filed'[m] = filed[m]
      /\ cycle[s].at = "marking" => (m \in inbox \/ m \in taken => Gone(m)')
      /\ cycle[s].at = "copying" => (m \in inbox \/ Moved(m) => Moved(m)')
  BY <1>1, <1>3, PerformEffect DEF Apart
<1>5. \A t \in Slots : cycle'[t] = IF t = s THEN r ELSE cycle[t]
  BY <1>3 DEF IInv, TypeInv, TypeOK
<1>6. TypeInv'
  <2>1. cycle' \in [Slots -> Running \cup {Free, Down}]
    BY <1>2, <1>3 DEF IInv, TypeInv, TypeOK
  <2> QED
    BY <1>3, <1>4, <2>1 DEF IInv, TypeInv, TypeOK, bounds
<1>7. JobsDiffer'
  BY <1>1, <1>2, <1>5 DEF IInv, JobsDiffer, Busy
<1>8. SlotInv(s)'
  <2>1. m \in inbox \/ Moved(m)
    BY <1>1 DEF IInv, SlotInv, Ahead
  <2>2. r.at = "copying" => Gone(m)' /\ cycle[s].at = "marking" /\ cycle[s].execute
    BY <1>1, <1>2, <1>4, <2>1 DEF Following, InThread, Moved
  <2>3. r.at = "removing" => cycle[s].at = "copying"
    BY <1>1, <1>2 DEF Following, InThread
  <2>4. r.at = "storing" /\ r.execute => cycle[s].at = "removing"
    BY <1>1, <1>2 DEF Following, InThread
  <2>5. r.at = "removing" => Gone(m)' /\ Moved(m)' /\ r.execute
    BY <1>1, <1>2, <1>4, <2>1, <2>3 DEF IInv, SlotInv
  <2>6. r.at = "storing" /\ r.execute => Moved(m)'
    BY <1>1, <1>4, <2>4
  <2>7. \A n \in cycle[s].todo : Ahead(s, n)'
    <3> SUFFICES ASSUME NEW n \in cycle[s].todo PROVE Ahead(s, n)'
      OBVIOUS
    <3>1. n \in Mail /\ Ahead(s, n)
      BY <1>1 DEF IInv, SlotInv, Running
    <3>2. CASE n # m
      BY <1>1, <1>2, <1>3, <1>4, <1>5, <3>1, <3>2 DEF Ahead, Apart, Moved, Hunted
    <3>3. CASE n = m
      <4>1. filed'[m] = 0 \/ r.at \in {"removing", "storing"}
        BY <1>1, <1>2, <1>4, <2>2
      <4> QED
        BY <1>2, <1>3, <1>4, <1>5, <2>1, <3>1, <3>3, <4>1 DEF Ahead, Hunted
    <3> QED
      BY <3>2, <3>3
  <2> QED
    BY <1>1, <1>2, <1>3, <1>5, <2>2, <2>5, <2>6, <2>7 DEF IInv, SlotInv
<1>9. \A t \in Slots \ {s} : Busy(t) => entry'[cycle[t].account].at = "running" /\ m \notin cycle[t].todo
  BY <1>1, <1>3, NotShared DEF IInv, SlotInv
<1>10. \A o \in orphans' : o.msg = m => OrphanInv(o)'
  <2> SUFFICES ASSUME NEW o \in orphans, o.msg = m PROVE OrphanInv(o)'
    BY <1>3
  <2>1. o.at = "marking"
    BY <1>1 DEF IInv, SlotInv, Ahead, Hunted
  <2> QED
    BY <2>1 DEF OrphanInv
<1> QED
  BY <1>1, <1>4, <1>5, <1>6, <1>7, <1>8, <1>9, <1>10, TouchIInv

\* The slot is done with its message, which is as it was for all the others.
LEMMA DroppedIInv ==
  ASSUME IInv, NEW s \in Slots, Busy(s), NEW m \in Mail, m = cycle[s].msg,
         m \in cycle[s].todo, NEW r \in Running, cycle' = [cycle EXCEPT ![s] = r],
         r.at = "working", r.account = cycle[s].account, r.todo = cycle[s].todo \ {m},
         UNCHANGED <<active, age, used, entry, orphans>>,
         commands' \in 0..MaxCommands, incidents' \in 0..MaxIncidents,
         row' \in [Mail -> {"none", "moved", "left"}],
         inbox' \subseteq Mail, marked' \subseteq Mail, taken' \subseteq Mail,
         filed' \in [Mail -> Nat], \A n \in Mail \ {m} : Apart(n), MailInv(m)'
  PROVE  IInv'
<1>1. \A t \in Slots : cycle'[t] = IF t = s THEN r ELSE cycle[t]
  BY DEF IInv, TypeInv, TypeOK
<1>2. TypeInv'
  <2>1. cycle' \in [Slots -> Running \cup {Free, Down}]
    BY DEF IInv, TypeInv, TypeOK
  <2> QED
    BY <2>1 DEF IInv, TypeInv, TypeOK
<1>3. JobsDiffer'
  BY <1>1 DEF IInv, JobsDiffer, Busy
<1>4. SlotInv(s)'
  <2>1. \A n \in r.todo : Ahead(s, n)'
    <3> SUFFICES ASSUME NEW n \in cycle[s].todo, n # m PROVE Ahead(s, n)'
      OBVIOUS
    <3>1. n \in Mail /\ Ahead(s, n)
      BY BusyType DEF IInv, TypeInv, SlotInv, Running
    <3> QED
      BY <1>1, <3>1 DEF Ahead, Apart, Moved, Hunted
  <2> QED
    BY <1>1, <2>1 DEF IInv, SlotInv, InThread
<1>5. \A t \in Slots \ {s} : Busy(t) => /\ entry'[cycle[t].account].at = "running"
                                        /\ m \notin cycle[t].todo
  BY NotShared DEF IInv, SlotInv
<1>6. \A o \in orphans' : o.msg = m => OrphanInv(o)'
  <2> SUFFICES ASSUME NEW o \in orphans, o.msg = m PROVE OrphanInv(o)'
    OBVIOUS
  <2>1. o.at = "marking"
    BY DEF IInv, SlotInv, Ahead, Hunted
  <2> QED
    BY <2>1 DEF OrphanInv
<1> QED
  BY <1>1, <1>2, <1>3, <1>4, <1>5, <1>6, TouchIInv

LEMMA DroppedRecord ==
  ASSUME IInv, NEW s \in Slots, cycle[s] \in Running, cycle[s].msg \in Mail,
         NEW n \in Nat
  PROVE  LET r == [cycle[s] EXCEPT !.at = "working", !.todo = @ \ {cycle[s].msg},
                                   !.msg = 0, !.count = n]
         IN /\ r \in Running /\ r.at = "working" /\ r.account = cycle[s].account
            /\ r.todo = cycle[s].todo \ {cycle[s].msg}
BY DEF Running, Steps

LEMMA ImapFailsIInv == ASSUME IInv, NEW s \in Slots, ImapFails(s) PROVE IInv'
<1> PICK m \in Mail : m = cycle[s].msg
  BY AtCommand DEF ImapFails
<1> DEFINE r == [cycle[s] EXCEPT !.at = "working", !.todo = @ \ {cycle[s].msg},
                                 !.msg = 0, !.count = cycle[s].count]
<1>1. /\ Busy(s) /\ cycle[s] \in Running /\ cycle[s].at \in InThread
      /\ m \in cycle[s].todo
      /\ cycle[s].at = "copying" => Gone(m) /\ filed[m] = 0
      /\ cycle[s].at = "removing" => Moved(m)
  BY AtCommand DEF ImapFails
<1>2. /\ r \in Running /\ r.at = "working" /\ r.account = cycle[s].account
      /\ r.todo = cycle[s].todo \ {m}
  BY <1>1, DroppedRecord DEF Running
<1>3. cycle' = [cycle EXCEPT ![s] = r]
  <2>1. [cycle[s] EXCEPT !.at = "working", !.todo = @ \ {cycle[s].msg}, !.msg = 0] = r
    BY <1>1 DEF Running
  <2> QED
    BY <1>1, <2>1 DEF ImapFails, Dropped, IInv, TypeInv, TypeOK
<1> HIDE DEF r
<1>4. /\ UNCHANGED <<active, age, row, used, entry, orphans>>
      /\ commands' \in 0..MaxCommands /\ incidents' \in 0..MaxIncidents
      /\ row' \in [Mail -> {"none", "moved", "left"}]
  BY DEF ImapFails, Incident, IInv, TypeInv, TypeOK
<1>5. CASE Perform(cycle[s].at, m)
  <2>1. /\ inbox' \subseteq Mail /\ marked' \subseteq Mail /\ taken' \subseteq Mail
        /\ filed' \in [Mail -> Nat]
        /\ \A n \in Mail \ {m} : Apart(n)
        /\ MailInv(m)'
    BY <1>1, <1>4, <1>5, PerformEffect DEF Apart
  <2> QED
    BY <1>1, <1>2, <1>3, <1>4, <2>1, DroppedIInv
<1>6. CASE UNCHANGED mailboxes
  <2>1. /\ inbox' \subseteq Mail /\ marked' \subseteq Mail /\ taken' \subseteq Mail
        /\ filed' \in [Mail -> Nat]
        /\ \A n \in Mail \ {m} : Apart(n)
        /\ MailInv(m)'
    BY <1>4, <1>6 DEF Apart, mailboxes, IInv, TypeInv, TypeOK, MailInv, Gone, Moved
  <2> QED
    BY <1>1, <1>2, <1>3, <1>4, <2>1, DroppedIInv
<1> QED
  BY <1>5, <1>6 DEF ImapFails

LEMMA StoreIInv == ASSUME IInv, NEW s \in Slots, Store(s) PROVE IInv'
<1>1. /\ Busy(s) /\ cycle[s] \in Running /\ cycle[s].msg \in cycle[s].todo
      /\ cycle[s].execute => Moved(cycle[s].msg)
  BY BusyType DEF Store, At, Busy, Steps, IInv, TypeInv, SlotInv
<1> PICK m \in Mail : m = cycle[s].msg
  BY <1>1 DEF Running
<1>2. /\ UNCHANGED <<active, age, used, mailboxes, entry, orphans>>
      /\ commands' \in 0..MaxCommands /\ incidents' \in 0..MaxIncidents
  BY DEF Store, Incident, bounds, IInv, TypeInv, TypeOK
<1>3. /\ row' \in [Mail -> {"none", "moved", "left"}]
      /\ \A n \in Mail \ {m} : row'[n] = row[n]
      /\ row'[m] = "moved" => Moved(m)
  BY <1>1 DEF Store, IInv, TypeInv, TypeOK, MailInv
<1>4. /\ inbox' \subseteq Mail /\ marked' \subseteq Mail /\ taken' \subseteq Mail
      /\ filed' \in [Mail -> Nat]
      /\ \A n \in Mail \ {m} : Apart(n)
      /\ MailInv(m)'
  BY <1>2, <1>3 DEF Apart, mailboxes, IInv, TypeInv, TypeOK, MailInv, Gone, Moved
<1>5. PICK n \in Nat : cycle' = [cycle EXCEPT ![s] =
        [cycle[s] EXCEPT !.at = "working", !.todo = @ \ {cycle[s].msg}, !.msg = 0,
                         !.count = n]]
  <2>1. cycle[s].count \in Nat /\ cycle[s].count + 1 \in Nat
    BY <1>1 DEF Running
  <2>2. CASE cycle' = [Dropped(s) EXCEPT ![s].count = @ + 1]
    <3>1. cycle' = [cycle EXCEPT ![s] =
            [cycle[s] EXCEPT !.at = "working", !.todo = @ \ {cycle[s].msg}, !.msg = 0,
                             !.count = cycle[s].count + 1]]
      BY <1>1, <2>2 DEF Dropped, IInv, TypeInv, TypeOK, Running
    <3> QED
      BY <2>1, <3>1
  <2>3. CASE cycle' = Dropped(s)
    <3>1. cycle' = [cycle EXCEPT ![s] =
            [cycle[s] EXCEPT !.at = "working", !.todo = @ \ {cycle[s].msg}, !.msg = 0,
                             !.count = cycle[s].count]]
      BY <1>1, <2>3 DEF Dropped, IInv, TypeInv, TypeOK, Running
    <3> QED
      BY <2>1, <3>1
  <2> QED
    BY <2>2, <2>3 DEF Store
<1> DEFINE r == [cycle[s] EXCEPT !.at = "working", !.todo = @ \ {cycle[s].msg},
                                 !.msg = 0, !.count = n]
<1>6. /\ r \in Running /\ r.at = "working" /\ r.account = cycle[s].account
      /\ r.todo = cycle[s].todo \ {m}
  BY <1>1, DroppedRecord
<1>7. cycle' = [cycle EXCEPT ![s] = r]
  BY <1>5
<1> HIDE DEF r
<1> QED
  BY <1>1, <1>2, <1>4, <1>3, <1>6, <1>7, DroppedIInv

LEMMA CancelIInv == ASSUME IInv, NEW s \in Slots, Cancel(s) PROVE IInv'
<1>1. Busy(s) /\ cycle[s] \in Running
  BY BusyType, NotBusy DEF Cancel, IInv, TypeInv
<1>2. OtherTypes'
  BY DEF IInv, TypeInv, TypeOK, OtherTypes, Cancel, Incident, Command, bounds
<1>3. CASE cycle[s].at \notin InThread
  BY <1>1, <1>2, <1>3, EntryTypes, Ends DEF Cancel, Leave, mailboxes
<1>4. CASE cycle[s].at \in InThread
  <2> PICK m \in Mail : m = cycle[s].msg
    BY <1>4, AtCommand
  <2>1. /\ m \in cycle[s].todo
        /\ cycle[s].at = "copying" => Gone(m) /\ filed[m] = 0
        /\ cycle[s].at = "removing" => Gone(m) /\ Moved(m)
        /\ m \in inbox \/ Moved(m)
        /\ ~ Hunted(m)
    BY <1>1, <1>4, AtCommand DEF IInv, SlotInv, Ahead
  <2> PICK step \in InThread : step = cycle[s].at
    BY <1>4
  <2> DEFINE new == [at |-> step, msg |-> m]
  <2>2. orphans' = orphans \cup {new} /\ new \in [at : InThread, msg : Mail]
    BY <1>4 DEF Cancel
  <2>3. /\ UNCHANGED <<active, age, row, used, mailboxes>>
        /\ cycle' = [cycle EXCEPT ![s] = Free]
        /\ entry' = [entry EXCEPT ![cycle[s].account] = Kept]
    BY DEF Cancel, Leave
  <2>4. \A t \in Slots : cycle'[t] = IF t = s THEN Free ELSE cycle[t]
    BY <2>3 DEF IInv, TypeInv, TypeOK
  <2>5. TypeInv'
    <3>1. cycle' \in [Slots -> Running \cup {Free, Down}]
      BY <2>3 DEF IInv, TypeInv, TypeOK
    <3>2. /\ entry' \in [Accounts -> Entries]
          /\ \A a \in Accounts : entry'[a].at \in {"kept", "elsewhere"} => entry'[a].left > 0
      BY <2>3, EntryTypes DEF IInv, TypeInv, TypeOK
    <3> QED
      BY <1>2, <2>2, <2>3, <3>1, <3>2 DEF IInv, TypeInv, TypeOK, OtherTypes, mailboxes
  <2>6. ~ Busy(s)'
    BY <2>4 DEF Busy, Free, Steps, InThread
  <2>7. JobsDiffer'
    BY <2>4, <2>6 DEF IInv, JobsDiffer, Busy
  <2>8. \A n \in Mail \ {m} : Apart(n)
    BY <2>2, <2>3 DEF Apart, mailboxes
  <2>9. MailInv(m)'
    BY <2>3 DEF IInv, MailInv, Gone, Moved, mailboxes
  <2>10. \A o \in orphans' : o.msg = m => OrphanInv(o)'
    <3>1. OrphanInv(new)'
      BY <2>1, <2>3 DEF OrphanInv, Gone, Moved, mailboxes, InThread
    <3>2. \A o \in orphans : OrphanInv(o)'
      BY <2>3 DEF IInv, OrphanInv, Gone, Moved, mailboxes
    <3> HIDE DEF new
    <3> QED
      BY <2>2, <3>1, <3>2
  <2>11. \A t \in Slots \ {s} : Busy(t) => /\ entry'[cycle[t].account].at = "running"
                                           /\ m \notin cycle[t].todo
    <3> TAKE t \in Slots \ {s}
    <3> HAVE Busy(t)
    <3>1. cycle[t].account # cycle[s].account /\ entry[cycle[t].account].at = "running"
      BY <1>1 DEF IInv, JobsDiffer, SlotInv
    <3>2. cycle[t].account \in Accounts
      BY BusyType DEF IInv, TypeInv, Running
    <3> QED
      BY <1>1, <2>1, <2>3, <3>1, <3>2, NotShared DEF IInv, TypeInv, TypeOK
  <2>12. SlotInv(s)'
    BY <2>6 DEF SlotInv
  <2> QED
    BY <2>4, <2>5, <2>7, <2>8, <2>9, <2>10, <2>11, <2>12, TouchIInv
<1> QED
  BY <1>3, <1>4

\* A message that a thread copies or removes is before no slot.
LEMMA OrphanStepIInv == ASSUME IInv, NEW o \in orphans, OrphanStep(o) PROVE IInv'
<1> PICK m \in Mail : m = o.msg
  BY DEF IInv, TypeInv, TypeOK
<1> PICK step \in InThread : step = o.at
  BY DEF IInv, TypeInv, TypeOK
<1>1. /\ o = [at |-> step, msg |-> m]
      /\ \A p \in orphans : p = [at |-> p.at, msg |-> p.msg] /\ p.at \in InThread
  BY DEF IInv, TypeInv, TypeOK
<1>2. UNCHANGED <<active, age, row, used, entry, cycle, bounds>>
  BY DEF OrphanStep
<1>3. /\ step # "marking" => Gone(m)
      /\ step = "copying" => filed[m] = 0 /\ (m \in inbox \/ Moved(m))
      /\ step = "removing" => Moved(m)
  BY DEF IInv, OrphanInv
<1>4. \A s \in Slots : Busy(s) => entry'[cycle[s].account].at = "running"
  BY <1>2 DEF IInv, SlotInv
<1>5. JobsDiffer'
  BY <1>2 DEF IInv, JobsDiffer, Busy
<1>6. CASE Perform(step, m) /\ orphans' = (orphans \ {o}) \cup
             IF step = "copying" THEN {[o EXCEPT !.at = "removing"]} ELSE {}
  <2> DEFINE new == [at |-> "removing", msg |-> m]
  <2>1. orphans' = (orphans \ {o}) \cup IF step = "copying" THEN {new} ELSE {}
    BY <1>1, <1>6
  <2>2. /\ inbox' \subseteq Mail /\ marked' \subseteq Mail /\ taken' \subseteq Mail
        /\ filed' \in [Mail -> Nat]
        /\ \A n \in Mail \ {m} : /\ (n \in inbox' <=> n \in inbox)
                                 /\ (n \in marked' <=> n \in marked)
                                 /\ (n \in taken' <=> n \in taken)
                                 /\ filed'[n] = filed[n]
        /\ MailInv(m)'
        /\ m \in inbox \/ Moved(m) => (m \in inbox \/ Moved(m))'
        /\ Gone(m) => Gone(m)'
        /\ Moved(m) => Moved(m)'
        /\ step # "copying" => filed'[m] = filed[m]
        /\ step = "copying" => (m \in inbox \/ Moved(m) => Moved(m)')
    BY <1>2, <1>3, <1>6, PerformEffect
  <2>3. TypeInv'
    <3>1. orphans' \subseteq [at : InThread, msg : Mail]
      BY <2>1 DEF IInv, TypeInv, TypeOK, InThread
    <3> QED
      BY <1>2, <2>2, <3>1 DEF IInv, TypeInv, TypeOK, bounds
  <2>4. \A n \in Mail \ {m} : Apart(n)
    BY <1>2, <2>1, <2>2 DEF Apart
  <2>5. \A p \in orphans' : p.msg = m => OrphanInv(p)'
    <3>1. step = "copying" => OrphanInv(new)'
      BY <1>3, <2>2 DEF OrphanInv
    <3>2. \A p \in orphans \ {o} : p.msg = m => OrphanInv(p)'
      <4> SUFFICES ASSUME NEW p \in orphans \ {o}, p.msg = m PROVE OrphanInv(p)'
        OBVIOUS
      <4>1. p.at = "copying" => step # "copying"
        BY <1>1
      <4> QED
        BY <2>2, <4>1 DEF IInv, OrphanInv
    <3> HIDE DEF new
    <3> QED
      BY <2>1, <3>1, <3>2
  <2>6. \A s \in Slots : Busy(s) /\ m \in cycle[s].todo => Calm(m)
    <3> SUFFICES ASSUME NEW s \in Slots, Busy(s), m \in cycle[s].todo PROVE Calm(m)
      OBVIOUS
    <3>1. ~ Hunted(m)
      BY DEF IInv, SlotInv, Ahead
    <3>2. step = "marking"
      BY <3>1 DEF Hunted
    <3>3. orphans' \subseteq orphans
      BY <2>1, <3>2
    <3> QED
      BY <2>2, <3>2, <3>3 DEF Calm, Hunted
  <2> QED
    BY <1>2, <1>4, <1>5, <2>2, <2>3, <2>4, <2>5, <2>6, TouchIInv
<1>7. CASE orphans' = orphans \ {o} /\ UNCHANGED mailboxes
  <2>1. TypeInv'
    BY <1>2, <1>7 DEF IInv, TypeInv, TypeOK, mailboxes, bounds
  <2>2. \A n \in Mail : Apart(n) /\ Calm(n) /\ MailInv(n)'
    BY <1>2, <1>7 DEF IInv, Apart, Calm, MailInv, Gone, Moved, Hunted, mailboxes
  <2>3. \A p \in orphans' : OrphanInv(p)'
    BY <1>7 DEF IInv, OrphanInv, Gone, Moved, mailboxes
  <2> QED
    BY <1>2, <1>4, <1>5, <2>1, <2>2, <2>3, TouchIInv
<1> QED
  BY <1>6, <1>7 DEF OrphanStep

LEMMA ArriveIInv == ASSUME IInv, NEW m \in Mail, Arrive(m) PROVE IInv'
<1>1. TypeInv' /\ JobsDiffer'
  BY DEF IInv, TypeInv, TypeOK, JobsDiffer, Busy, Arrive, bounds
<1>2. \A n \in Mail \ {m} : Apart(n)
  BY DEF Arrive, Apart
<1>3. MailInv(m)' /\ Calm(m)
  BY DEF Arrive, IInv, MailInv, Calm, Gone, Moved, Hunted
<1>4. \A o \in orphans' : OrphanInv(o)'
  BY DEF Arrive, IInv, OrphanInv, Gone, Moved
<1>5. \A s \in Slots : Busy(s) => entry'[cycle[s].account].at = "running"
  BY DEF Arrive, IInv, SlotInv
<1> QED
  BY <1>1, <1>2, <1>3, <1>4, <1>5, TouchIInv DEF Arrive

LEMMA UserTakesIInv == ASSUME IInv, NEW m \in Mail, UserTakes(m) PROVE IInv'
<1>1. TypeInv' /\ JobsDiffer'
  BY DEF IInv, TypeInv, TypeOK, JobsDiffer, Busy, UserTakes, Command
<1>2. \A n \in Mail \ {m} : Apart(n)
  BY DEF UserTakes, Apart
<1>3. MailInv(m)' /\ Calm(m)
  BY DEF UserTakes, IInv, MailInv, Calm, Gone, Moved, Hunted
<1>4. \A o \in orphans' : OrphanInv(o)'
  BY DEF UserTakes, IInv, OrphanInv, Gone, Moved
<1>5. \A s \in Slots : Busy(s) => entry'[cycle[s].account].at = "running"
  BY DEF UserTakes, IInv, SlotInv
<1> QED
  BY <1>1, <1>2, <1>3, <1>4, <1>5, TouchIInv DEF UserTakes

-----------------------------------------------------------------------------
(* The invariant, and what follows from it. *)

LEMMA StutterIInv == ASSUME IInv, UNCHANGED vars PROVE IInv'
<1>1. TypeInv' /\ JobsDiffer'
  BY DEF IInv, TypeInv, TypeOK, JobsDiffer, Busy, vars, mailboxes, bounds
<1>2. \A s \in Slots : Busy(s) => entry'[cycle[s].account].at = "running"
  BY DEF vars, IInv, SlotInv
<1> QED
  BY <1>1, <1>2, QuietIInv DEF vars

LEMMA NextIInv == ASSUME IInv, [Next]_vars PROVE IInv'
<1>1. ASSUME NEW a \in Accounts, RunNow(a) \/ Switch(a) PROVE IInv'
  BY <1>1, RunNowIInv, SwitchIInv
<1>2. ASSUME NEW m \in Mail, Arrive(m) \/ UserTakes(m) PROVE IInv'
  BY <1>2, ArriveIInv, UserTakesIInv
<1>3. ASSUME NEW s \in Slots, WorkerStep(s) PROVE IInv'
  BY <1>3, TakeIInv, CreateLogIInv, CheckQuotaIInv, FetchIInv, ClassifyIInv,
     ImapStepIInv, StoreIInv, FinalizeIInv DEF WorkerStep
<1>4. ASSUME NEW s \in Slots, ImapFails(s) \/ Cancel(s) \/ Crash(s) \/ Startup(s)
      PROVE  IInv'
  BY <1>4, ImapFailsIInv, CancelIInv, CrashIInv, StartupIInv
<1> QED
  BY <1>1, <1>2, <1>3, <1>4, TickIInv, OrphanStepIInv, StutterIInv DEF Next

THEOREM IInvHolds == Spec => []IInv
<1>1. Init => IInv
  BY InitIInv
<1>2. IInv /\ [Next]_vars => IInv'
  BY NextIInv
<1> QED
  BY <1>1, <1>2, PTL DEF Spec

\* The state of mailboxes, jobs and cycles keeps its form: no counter of a cycle,
\* of the day or of a key leaves its range.
THEOREM LiveTypes == Spec => []TypeOK
<1>1. IInv => TypeOK
  BY DEF IInv, TypeInv
<1> QED
  BY <1>1, IInvHolds, PTL

\* A row of processed_emails that says "moved" is true, however many cycles,
\* cancelled threads and users work on the mailbox at the same time.
THEOREM RowsAreTrue == Spec => []StoredIsFiled
<1>1. IInv => StoredIsFiled
  BY DEF IInv, MailInv, Moved, StoredIsFiled
<1> QED
  BY <1>1, IInvHolds, PTL

\* No message is moved twice: the keyword, which is set before the copy and never
\* taken back, keeps every later cycle from fetching it, and ARQ runs one cycle
\* of an account at a time.
THEOREM MovedOnce == Spec => []CopiedAtMostOnce
<1>1. IInv => CopiedAtMostOnce
  BY DEF IInv, MailInv, CopiedAtMostOnce
<1> QED
  BY <1>1, IInvHolds, PTL

-----------------------------------------------------------------------------
(***************************************************************************)
(* What the daily quota of a plan is worth when cycles run side by side,   *)
(* crash and are cancelled: HandledWithinQuota.                            *)
(***************************************************************************)

\* The slot has passed can_process_more.
Past(s) == cycle[s].at \in Steps \ {"claimed", "logged"}
PastSlots == {s \in Slots : Past(s)}

\* One pair for each message that a slot has counted and not yet reported.
Counted == {p \in Slots \X (1..Batch) : Past(p[1]) /\ p[2] <= cycle[p[1]].count}
Rows == {m \in Mail : row[m] # "none"}

\* A cycle counts no more than a batch.
Fits(s) ==
  /\ cycle[s].at \in {"claimed", "logged", "checked"} =>
       cycle[s].count = 0 /\ cycle[s].todo = {}
  /\ Past(s) => cycle[s].count + Cardinality(cycle[s].todo) <= Batch

\* A slot that has passed the check may add a batch to what is used; a slot that
\* is cut short takes what it counted with it, and an incident pays for that.
QuotaInv ==
  /\ \A s \in Slots : Fits(s)
  /\ used + Batch * Cardinality(PastSlots) <= Limit - 1 + Batch * Cardinality(Slots)
  /\ Cardinality(Rows) <= used + Cardinality(Counted) + Batch * incidents

-----------------------------------------------------------------------------
(* Sizes. *)

LEMMA MailSizes ==
  ASSUME NEW S \in SUBSET Mail, NEW T \in SUBSET S
  PROVE  /\ IsFiniteSet(S) /\ IsFiniteSet(T)
         /\ Cardinality(S) \in Nat /\ Cardinality(T) \in Nat
         /\ Cardinality(T) <= Cardinality(S)
<1>1. IsFiniteSet(Mail)
  BY FS_Interval DEF Mail
<1>2. IsFiniteSet(S)
  BY <1>1, FS_Subset
<1> QED
  BY <1>2, FS_Subset, FS_CardinalityType

LEMMA SlotSizes ==
  ASSUME NEW S \in SUBSET Slots
  PROVE  /\ IsFiniteSet(S) /\ Cardinality(S) \in Nat
         /\ Cardinality(S) <= Cardinality(Slots) /\ Cardinality(Slots) \in Nat
BY FS_Subset, FS_CardinalityType

LEMMA PairSizes ==
  ASSUME NEW P \in SUBSET (Slots \X (1..Batch))
  PROVE  IsFiniteSet(P) /\ Cardinality(P) \in Nat
<1>1. IsFiniteSet(1..Batch)
  BY FS_Interval
<1>2. IsFiniteSet(Slots \X (1..Batch))
  BY <1>1, FS_Product
<1> QED
  BY <1>2, FS_Subset, FS_CardinalityType

\* The pairs of one slot.
LEMMA PairsOfSlot ==
  ASSUME NEW s \in Slots, NEW n \in 0..Batch
  PROVE  /\ IsFiniteSet({s} \X (1..n)) /\ Cardinality({s} \X (1..n)) = n
         /\ {s} \X (1..n) \subseteq Slots \X (1..Batch)
<1>1. IsFiniteSet(1..n) /\ Cardinality(1..n) = n
  BY FS_Interval
<1>2. IsFiniteSet({s}) /\ Cardinality({s}) = 1
  BY FS_Singleton
<1>3. /\ IsFiniteSet({s} \X (1..n))
      /\ Cardinality({s} \X (1..n)) = Cardinality({s}) * Cardinality(1..n)
  BY <1>1, <1>2, FS_Product
<1>4. 1..n \subseteq 1..Batch
  OBVIOUS
<1> QED
  BY <1>1, <1>2, <1>3, <1>4

LEMMA BatchesGrow ==
  ASSUME NEW i \in Nat, NEW j \in Nat, i <= j
  PROVE  /\ Batch * i \in Nat /\ Batch * j \in Nat
         /\ Batch * i <= Batch * j
<1>1. PICK d \in Nat : j = i + d
  <2>1. j - i \in Nat /\ j = i + (j - i)
    OBVIOUS
  <2> QED
    BY <2>1
<1>2. PICK b \in Nat : b = Batch
  OBVIOUS
<1>3. b * j = b * i + b * d
  BY <1>1
<1>4. b * d \in Nat /\ b * i \in Nat
  OBVIOUS
<1> QED
  BY <1>2, <1>3, <1>4

\* No more is counted than a batch for each slot that has passed the check.
LEMMA CountedAtMost ==
  /\ Cardinality(Counted) <= Batch * Cardinality(PastSlots)
  /\ Cardinality(Counted) \in Nat
  /\ Batch * Cardinality(PastSlots) \in Nat
<1>1. IsFiniteSet(1..Batch) /\ Cardinality(1..Batch) = Batch
  BY FS_Interval
<1>2. IsFiniteSet(PastSlots) /\ Cardinality(PastSlots) \in Nat
  BY SlotSizes DEF PastSlots
<1>3. /\ IsFiniteSet(PastSlots \X (1..Batch))
      /\ Cardinality(PastSlots \X (1..Batch)) = Cardinality(PastSlots) * Batch
  BY <1>1, <1>2, FS_Product
<1>4. Counted \subseteq PastSlots \X (1..Batch)
  BY DEF Counted, PastSlots
<1>5. /\ Cardinality(Counted) <= Cardinality(PastSlots) * Batch
      /\ Cardinality(Counted) \in Nat
  BY <1>3, <1>4, FS_Subset, FS_CardinalityType
<1> QED
  BY <1>2, <1>5

\* A batch is not larger than it may be.
LEMMA BatchFits ==
  ASSUME inbox \subseteq Mail, NEW a
  PROVE  Cardinality(Oldest(a)) <= Batch
<1> DEFINE Up(m) == {n \in Unprocessed(a) : n <= m}
<1>1. Unprocessed(a) \in SUBSET Mail /\ Oldest(a) \in SUBSET Unprocessed(a)
  BY DEF Unprocessed, Oldest
<1>2. CASE Oldest(a) = {}
  BY <1>2, FS_EmptySet
<1>3. CASE Oldest(a) # {}
  <2>1. Oldest(a) \subseteq 0..NumMail /\ Oldest(a) \subseteq Int
    BY <1>1 DEF Mail
  <2>2. PICK m \in Oldest(a) : \A n \in Oldest(a) : n <= m
    <3> DEFINE R == {NumMail - n : n \in Oldest(a)}
    <3>1. R \in SUBSET Nat /\ R # {}
      BY <1>3, <2>1
    <3>2. PICK r \in R : \A x \in R : ~ (<<x, r>> \in OpToRel(<, Nat))
      BY <3>1, NatLessThanWellFounded, WFMin
    <3>3. PICK m \in Oldest(a) : r = NumMail - m
      OBVIOUS
    <3>4. ASSUME NEW n \in Oldest(a) PROVE n <= m
      <4>1. NumMail - n \in R /\ NumMail - n \in Nat /\ r \in Nat
        BY <3>1
      <4>2. ~ (NumMail - n < r)
        BY <3>2, <4>1 DEF OpToRel
      <4> QED
        BY <2>1, <3>3, <4>2
    <3> QED
      BY <3>4
  <2>3. Oldest(a) \in SUBSET Up(m) /\ Up(m) \in SUBSET Mail
    BY <1>1, <2>2
  <2>4. /\ Cardinality(Oldest(a)) <= Cardinality(Up(m))
        /\ Cardinality(Oldest(a)) \in Nat /\ Cardinality(Up(m)) \in Nat
    BY <2>3, MailSizes
  <2>5. Cardinality(Up(m)) <= Batch
    BY DEF Oldest
  <2> HIDE DEF Up
  <2> QED
    BY <2>4, <2>5
<1> QED
  BY <1>2, <1>3

-----------------------------------------------------------------------------
(* Steps. *)

LEMMA InitQuota == Init => QuotaInv
<1> SUFFICES ASSUME Init PROVE QuotaInv
  OBVIOUS
<1>1. \A s \in Slots : cycle[s].at = "free"
  BY DEF Init, Free
<1>2. PastSlots = {} /\ Counted = {} /\ \A s \in Slots : Fits(s)
  BY <1>1 DEF PastSlots, Counted, Past, Fits, Steps, InThread
<1>3. Rows = {}
  BY DEF Init, Rows
<1>4. Cardinality({}) = 0 /\ Cardinality(Slots) \in Nat
  BY FS_EmptySet, FS_CardinalityType
<1>5. Batch * 0 = 0 /\ Batch * Cardinality(Slots) \in Nat
  BY <1>4
<1> QED
  BY <1>2, <1>3, <1>4, <1>5 DEF QuotaInv, Init

\* The slots that have passed the check, and what they have counted, stay.
LEMMA QuotaStays ==
  ASSUME QuotaInv, used \in Nat, used' = used, row' = row,
         incidents \in Nat, incidents' \in Nat, incidents <= incidents',
         \A t \in Slots : /\ (Past(t)' <=> Past(t))
                          /\ Past(t) => cycle'[t].count = cycle[t].count
                          /\ Fits(t)'
  PROVE  QuotaInv'
<1>1. PastSlots' = PastSlots
  BY DEF PastSlots
<1>2. Counted' = Counted
  <2>1. \A p \in Slots \X (1..Batch) :
          (Past(p[1]) /\ p[2] <= cycle[p[1]].count)' <=>
          (Past(p[1]) /\ p[2] <= cycle[p[1]].count)
    <3> TAKE p \in Slots \X (1..Batch)
    <3>1. p[1] \in Slots
      OBVIOUS
    <3> QED
      BY <3>1
  <2> QED
    BY <2>1 DEF Counted
<1>3. Rows' = Rows
  BY DEF Rows
<1>4. Batch * incidents <= Batch * incidents' /\ Batch * incidents \in Nat
      /\ Batch * incidents' \in Nat
  BY BatchesGrow
<1>5. Cardinality(Rows) \in Nat /\ Cardinality(Counted) \in Nat
  BY MailSizes, CountedAtMost DEF Rows
<1>6. Cardinality(Rows)' <= used' + Cardinality(Counted)' + Batch * incidents'
  <2>1. Cardinality(Rows) <= used + Cardinality(Counted) + Batch * incidents
    BY DEF QuotaInv
  <2> HIDE DEF QuotaInv, Rows, Counted
  <2> QED
    BY <1>2, <1>3, <1>4, <1>5, <2>1
<1> QED
  BY <1>1, <1>6 DEF QuotaInv

LEMMA FitsStays ==
  ASSUME NEW t, Fits(t), cycle'[t] = cycle[t]
  PROVE  Fits(t)'
BY DEF Fits, Past

\* A slot goes on and stays on its side of the check: it may drop messages that
\* it has before it.
LEMMA SlotGoesOn ==
  ASSUME IInv, IInv', QuotaInv, used' = used, row' = row, incidents <= incidents',
         NEW s \in Slots, \A t \in Slots \ {s} : cycle'[t] = cycle[t],
         (Past(s)' <=> Past(s)), Past(s) => cycle'[s].count = cycle[s].count,
         Fits(s)'
  PROVE  QuotaInv'
<1>1. \A t \in Slots \ {s} : /\ Fits(t)'
                             /\ (Past(t)' <=> Past(t))
                             /\ Past(t) => cycle'[t].count = cycle[t].count
  BY FitsStays DEF QuotaInv, Past
<1>2. incidents \in Nat /\ incidents' \in Nat /\ used \in Nat
  BY DEF IInv, TypeInv, TypeOK
<1> QED
  BY <1>1, <1>2, QuotaStays

LEMMA NoSlotQuota ==
  ASSUME IInv, IInv', QuotaInv, UNCHANGED <<cycle, used, row>>, incidents <= incidents'
  PROVE  QuotaInv'
<1>1. \A t \in Slots : Fits(t)'
  BY FitsStays DEF QuotaInv
<1>2. \A t \in Slots : Past(t)' <=> Past(t)
  BY DEF Past
<1>3. incidents \in Nat /\ incidents' \in Nat /\ used \in Nat
  BY DEF IInv, TypeInv, TypeOK
<1> QED
  BY <1>1, <1>2, <1>3, QuotaStays

LEMMA RunningSizes ==
  ASSUME NEW r \in Running, NEW T \in SUBSET r.todo
  PROVE  /\ r.count \in Nat /\ IsFiniteSet(r.todo) /\ IsFiniteSet(T)
         /\ Cardinality(r.todo) \in Nat /\ Cardinality(T) \in Nat
         /\ Cardinality(T) <= Cardinality(r.todo)
BY MailSizes DEF Running

LEMMA PastType ==
  ASSUME IInv, NEW s \in Slots, Past(s)
  PROVE  cycle[s] \in Running /\ Busy(s)
BY BusyType DEF Past, Busy, IInv, TypeInv

\* A cycle that is past the check goes on with its messages.
LEMMA SlotWorks ==
  ASSUME IInv, IInv', QuotaInv, used' = used, row' = row, incidents <= incidents',
         NEW s \in Slots, NEW r, cycle' = [cycle EXCEPT ![s] = r],
         Past(s), r.at \in {"working", "storing"} \cup InThread,
         r.count = cycle[s].count, r.todo \subseteq cycle[s].todo
  PROVE  QuotaInv'
<1>1. \A t \in Slots : cycle'[t] = IF t = s THEN r ELSE cycle[t]
  BY DEF IInv, TypeInv, TypeOK
<1>2. Past(s)'
  BY <1>1 DEF Past, Steps, InThread
<1>3. /\ cycle[s].count \in Nat
      /\ Cardinality(cycle[s].todo) \in Nat /\ Cardinality(r.todo) \in Nat
      /\ Cardinality(r.todo) <= Cardinality(cycle[s].todo)
  BY PastType, RunningSizes
<1>4. cycle[s].count + Cardinality(cycle[s].todo) <= Batch
  BY DEF QuotaInv, Fits
<1>5. r.count + Cardinality(r.todo) <= Batch
  BY <1>3, <1>4
<1>6. Fits(s)'
  BY <1>1, <1>5 DEF Fits, InThread
<1> QED
  BY <1>1, <1>2, <1>6, SlotGoesOn

\* A slot that is not past the check stays so.
LEMMA SlotBefore ==
  ASSUME IInv, IInv', QuotaInv, used' = used, row' = row, incidents <= incidents',
         NEW s \in Slots, NEW r, cycle' = [cycle EXCEPT ![s] = r],
         ~ Past(s), r.at \notin Steps \ {"claimed", "logged"},
         r.at \in {"claimed", "logged"} => r.count = 0 /\ r.todo = {}
  PROVE  QuotaInv'
<1>1. \A t \in Slots : cycle'[t] = IF t = s THEN r ELSE cycle[t]
  BY DEF IInv, TypeInv, TypeOK
<1>2. ~ Past(s)'
  BY <1>1 DEF Past
<1>3. r.at # "checked"
  BY DEF Steps
<1>4. Fits(s)'
  BY <1>1, <1>2, <1>3 DEF Fits
<1> QED
  BY <1>1, <1>2, <1>4, SlotGoesOn

LEMMA TakeQuota ==
  ASSUME IInv, IInv', QuotaInv, NEW s \in Slots, NEW a \in Accounts, Take(s, a)
  PROVE  QuotaInv'
<1>1. incidents <= incidents' /\ used' = used /\ row' = row
  BY DEF Take, Incident, bounds, IInv, TypeInv, TypeOK
<1>2. ~ Past(s)
  BY DEF Take, At, Past, Steps, InThread
<1>3. CASE UNCHANGED cycle
  BY <1>1, <1>3, NoSlotQuota
<1>4. CASE ~ UNCHANGED cycle
  <2> DEFINE r == [at |-> "claimed", account |-> a, todo |-> {}, msg |-> 0,
                   execute |-> FALSE, count |-> 0]
  <2>1. /\ cycle' = [cycle EXCEPT ![s] = r]
        /\ r.at = "claimed" /\ r.count = 0 /\ r.todo = {}
    BY <1>4 DEF Take
  <2> HIDE DEF r
  <2> QED
    BY <1>1, <1>2, <2>1, SlotBefore
<1> QED
  BY <1>3, <1>4

LEMMA CreateLogQuota ==
  ASSUME IInv, IInv', QuotaInv, NEW s \in Slots, CreateLog(s)
  PROVE  QuotaInv'
<1> DEFINE r == [cycle[s] EXCEPT !.at = "logged"]
<1>1. Busy(s) /\ cycle[s] \in Running /\ ~ Past(s)
  BY BusyType DEF CreateLog, At, Busy, Past, Steps, IInv, TypeInv
<1>2. cycle[s].count = 0 /\ cycle[s].todo = {}
  BY DEF CreateLog, At, QuotaInv, Fits
<1>3. /\ r.at = "logged" /\ r.count = 0 /\ r.todo = {}
      /\ cycle' = [cycle EXCEPT ![s] = r]
  BY <1>1, <1>2 DEF CreateLog, Running
<1>4. incidents <= incidents' /\ used' = used /\ row' = row
  BY DEF CreateLog, bounds, IInv, TypeInv, TypeOK
<1> HIDE DEF r
<1> QED
  BY <1>1, <1>3, <1>4, SlotBefore

LEMMA StartupQuota ==
  ASSUME IInv, IInv', QuotaInv, NEW s \in Slots, Startup(s)
  PROVE  QuotaInv'
<1>1. ~ Past(s) /\ Free.at = "free"
  BY DEF Startup, Past, Down, Free, Steps, InThread
<1>2. Free.at \notin Steps
  BY DEF Free, Steps, InThread
<1>3. cycle' = [cycle EXCEPT ![s] = Free] /\ incidents <= incidents' /\ used' = used /\ row' = row
  BY DEF Startup, bounds, IInv, TypeInv, TypeOK
<1> QED
  BY <1>1, <1>2, <1>3, SlotBefore

\* A slot that passes the check finds at least one message left in the plan.
LEMMA CheckQuotaQuota ==
  ASSUME IInv, IInv', QuotaInv, NEW s \in Slots, CheckQuota(s)
  PROVE  QuotaInv'
<1>1. /\ Busy(s) /\ cycle[s] \in Running /\ ~ Past(s)
      /\ cycle[s].count = 0 /\ cycle[s].todo = {}
  BY BusyType DEF CheckQuota, At, Busy, Past, Steps, IInv, TypeInv, QuotaInv, Fits
<1>2. UNCHANGED <<row, used, incidents>> /\ incidents <= incidents'
      /\ used \in Nat /\ incidents \in Nat
  BY DEF CheckQuota, bounds, IInv, TypeInv, TypeOK
<1>3. CASE Leave(s)
  <2>1. cycle' = [cycle EXCEPT ![s] = Free] /\ Free.at \notin Steps
    BY <1>3 DEF Leave, Free, Steps, InThread
  <2> QED
    BY <1>1, <1>2, <2>1, SlotBefore DEF Free, Steps
<1>4. CASE ~ Leave(s)
  <2>1. used < Limit /\ cycle' = [cycle EXCEPT ![s].at = "checked"]
    BY <1>4 DEF CheckQuota
  <2>2. /\ cycle'[s].at = "checked" /\ cycle'[s].count = 0 /\ cycle'[s].todo = {}
        /\ \A t \in Slots \ {s} : cycle'[t] = cycle[t]
    BY <1>1, <2>1 DEF IInv, TypeInv, TypeOK, Running
  <2>3. Past(s)'
    BY <2>2 DEF Past, Steps
  <2>4. \A t \in Slots : Fits(t)'
    <3>1. Fits(s)'
      BY <2>2, FS_EmptySet DEF Fits
    <3> QED
      BY <2>2, <3>1, FitsStays DEF QuotaInv
  <2>5. Counted' = Counted
    <3>1. \A p \in Slots \X (1..Batch) :
            (Past(p[1]) /\ p[2] <= cycle[p[1]].count)' <=>
            (Past(p[1]) /\ p[2] <= cycle[p[1]].count)
      <4> TAKE p \in Slots \X (1..Batch)
      <4>1. p[1] \in Slots /\ p[2] \in 1..Batch
        OBVIOUS
      <4>2. CASE p[1] = s
        BY <1>1, <2>2, <4>1, <4>2
      <4>3. CASE p[1] # s
        BY <2>2, <4>1, <4>3 DEF Past
      <4> QED
        BY <4>2, <4>3
    <3> QED
      BY <3>1 DEF Counted
  <2>6. Rows' = Rows
    BY <1>2 DEF Rows
  <2>7. /\ Batch * Cardinality(PastSlots') <= Batch * Cardinality(Slots)
        /\ Batch * Cardinality(PastSlots') \in Nat /\ Batch * Cardinality(Slots) \in Nat
    <3>1. PastSlots' \subseteq Slots
      BY DEF PastSlots
    <3> QED
      BY <3>1, SlotSizes, BatchesGrow
  <2>8. used' + Batch * Cardinality(PastSlots') <= Limit - 1 + Batch * Cardinality(Slots)
    BY <1>2, <2>1, <2>7
  <2>9. Cardinality(Rows') <= used' + Cardinality(Counted') + Batch * incidents'
    BY <1>2, <2>5, <2>6 DEF QuotaInv
  <2> QED
    BY <2>4, <2>8, <2>9 DEF QuotaInv
<1> QED
  BY <1>3, <1>4

LEMMA FetchQuota ==
  ASSUME IInv, IInv', QuotaInv, NEW s \in Slots, Fetch(s)
  PROVE  QuotaInv'
<1>1. /\ Busy(s) /\ cycle[s] \in Running /\ Past(s)
      /\ cycle[s].count = 0 /\ cycle[s].todo = {}
  BY BusyType DEF Fetch, At, Busy, Past, Steps, IInv, TypeInv, QuotaInv, Fits
<1>2. UNCHANGED <<row, used>> /\ incidents <= incidents'
  BY DEF Fetch, Incident, bounds, IInv, TypeInv, TypeOK
<1>3. PICK T \in {Oldest(cycle[s].account), cycle[s].todo} :
        cycle' = [cycle EXCEPT ![s] = [cycle[s] EXCEPT !.at = "working", !.todo = T]]
  BY <1>1 DEF Fetch, Running
<1>4. Cardinality(T) <= Batch /\ T \subseteq Mail
  <2>1. inbox \subseteq Mail
    BY DEF IInv, TypeInv, TypeOK
  <2>2. Cardinality({}) = 0
    BY FS_EmptySet
  <2>3. \A a : Cardinality(Oldest(a)) <= Batch
    BY <2>1, BatchFits
  <2>4. \A a : Oldest(a) \subseteq inbox
    BY DEF Oldest, Unprocessed
  <2> QED
    BY <1>1, <2>1, <2>2, <2>3, <2>4
<1>5. /\ cycle'[s].at = "working" /\ cycle'[s].count = 0 /\ cycle'[s].todo = T
      /\ \A t \in Slots \ {s} : cycle'[t] = cycle[t]
  BY <1>1, <1>3 DEF IInv, TypeInv, TypeOK, Running
<1>6. Past(s)'
  BY <1>5 DEF Past, Steps
<1>7. Cardinality(T) \in Nat
  BY <1>4, MailSizes
<1>8. Fits(s)'
  BY <1>4, <1>5, <1>7 DEF Fits
<1> QED
  BY <1>1, <1>2, <1>5, <1>6, <1>8, SlotGoesOn

LEMMA ClassifyQuota ==
  ASSUME IInv, IInv', QuotaInv, NEW s \in Slots, Classify(s)
  PROVE  QuotaInv'
<1>1. cycle[s].at = "working" /\ Past(s) /\ cycle[s] \in Running
  BY PastType DEF Classify, At, Past, Steps
<1>2. UNCHANGED <<row, used>> /\ incidents <= incidents'
  <2>1. UNCHANGED <<row, used>> /\ (UNCHANGED bounds \/ Incident("model"))
    BY DEF Classify
  <2> QED
    BY <2>1 DEF Incident, bounds, IInv, TypeInv, TypeOK
<1> DEFINE m == Least(cycle[s].todo)
           marking(x) == [cycle[s] EXCEPT !.at = "marking", !.msg = m, !.execute = x]
           without == [cycle[s] EXCEPT !.todo = @ \ {m}]
<1>3. ASSUME NEW x \in BOOLEAN, cycle' = [cycle EXCEPT ![s] = marking(x)]
      PROVE  QuotaInv'
  <2>1. /\ marking(x).at = "marking" /\ marking(x).count = cycle[s].count
        /\ marking(x).todo = cycle[s].todo
    BY <1>1 DEF Running
  <2> HIDE DEF marking, m
  <2> QED
    BY <1>1, <1>2, <1>3, <2>1, SlotWorks DEF InThread
<1>4. CASE cycle' = [cycle EXCEPT ![s] = without]
  <2>1. /\ without.at = "working" /\ without.count = cycle[s].count
        /\ without.todo \subseteq cycle[s].todo
    BY <1>1 DEF Running
  <2> HIDE DEF without
  <2> QED
    BY <1>1, <1>2, <1>4, <2>1, SlotWorks
<1> QED
  BY <1>3, <1>4 DEF Classify, Following

LEMMA ImapStepQuota ==
  ASSUME IInv, IInv', QuotaInv, NEW s \in Slots, ImapStep(s)
  PROVE  QuotaInv'
<1>1. cycle[s].at \in InThread /\ Past(s) /\ cycle[s] \in Running
  BY PastType DEF ImapStep, Past, Steps, InThread
<1>2. UNCHANGED <<row, used>> /\ incidents <= incidents'
  BY DEF ImapStep, bounds, IInv, TypeInv, TypeOK
<1> DEFINE r == [cycle[s] EXCEPT !.at = Following(cycle[s].at, cycle[s].execute)]
<1>3. r.at = Following(cycle[s].at, cycle[s].execute) /\ r.count = cycle[s].count
      /\ r.todo = cycle[s].todo
  BY <1>1 DEF Running
<1>4. cycle' = [cycle EXCEPT ![s] = r]
  BY DEF ImapStep
<1>5. r.at \in {"storing"} \cup InThread
  BY <1>1, <1>3 DEF Following, InThread
<1> HIDE DEF r
<1> QED
  BY <1>1, <1>2, <1>3, <1>4, <1>5, SlotWorks

LEMMA DroppedQuota ==
  ASSUME IInv, IInv', QuotaInv, NEW s \in Slots, Past(s), cycle' = Dropped(s),
         UNCHANGED <<row, used>>, incidents <= incidents'
  PROVE  QuotaInv'
<1>1. cycle[s] \in Running
  BY PastType
<1> DEFINE r == [cycle[s] EXCEPT !.at = "working", !.todo = @ \ {cycle[s].msg}, !.msg = 0]
<1>2. /\ r.at = "working" /\ r.count = cycle[s].count /\ r.todo \subseteq cycle[s].todo
      /\ cycle' = [cycle EXCEPT ![s] = r]
  BY <1>1 DEF Running, Dropped
<1> HIDE DEF r
<1> QED
  BY <1>1, <1>2, SlotWorks

LEMMA ImapFailsQuota ==
  ASSUME IInv, IInv', QuotaInv, NEW s \in Slots, ImapFails(s)
  PROVE  QuotaInv'
<1>1. Past(s)
  BY DEF ImapFails, Past, Steps, InThread
<1>2. UNCHANGED <<row, used>> /\ incidents <= incidents' /\ cycle' = Dropped(s)
  BY DEF ImapFails, Incident, IInv, TypeInv, TypeOK
<1> QED
  BY <1>1, <1>2, DroppedQuota

\* A message that is stored is counted: it was one of those the slot had before
\* it, so the slot stays within its batch.
LEMMA StoreQuota ==
  ASSUME IInv, IInv', QuotaInv, NEW s \in Slots, Store(s)
  PROVE  QuotaInv'
<1>1. cycle[s].at = "storing" /\ Past(s) /\ cycle[s] \in Running
      /\ cycle[s].msg \in cycle[s].todo
  BY PastType DEF Store, At, Past, Steps, IInv, SlotInv
<1>2. /\ used' = used /\ incidents <= incidents' /\ used \in Nat /\ incidents \in Nat
      /\ row \in [Mail -> {"none", "moved", "left"}]
  BY DEF Store, Incident, bounds, IInv, TypeInv, TypeOK
<1>3. CASE UNCHANGED row /\ cycle' = Dropped(s)
  BY <1>1, <1>2, <1>3, DroppedQuota
<1>4. CASE /\ cycle' = [Dropped(s) EXCEPT ![s].count = @ + 1] /\ UNCHANGED bounds
           /\ row' = [row EXCEPT ![cycle[s].msg] =
                IF @ # "none" THEN @ ELSE IF cycle[s].execute THEN "moved" ELSE "left"]
  <2> PICK m \in Mail : m = cycle[s].msg
    BY <1>1 DEF Running
  <2> PICK c \in Nat : c = cycle[s].count
    BY <1>1 DEF Running
  <2>1. /\ cycle'[s].at = "working" /\ cycle'[s].count = c + 1
        /\ cycle'[s].todo = cycle[s].todo \ {m}
        /\ \A t \in Slots \ {s} : cycle'[t] = cycle[t]
    BY <1>1, <1>4 DEF Dropped, IInv, TypeInv, TypeOK, Running
  <2>2. Past(s)'
    BY <2>1 DEF Past, Steps
  <2>3. /\ c + Cardinality(cycle[s].todo) <= Batch
        /\ IsFiniteSet(cycle[s].todo) /\ Cardinality(cycle[s].todo) \in Nat
    <3>1. Fits(s)
      BY DEF QuotaInv
    <3> QED
      BY <1>1, <3>1, RunningSizes DEF Fits
  <2>4. /\ Cardinality(cycle[s].todo \ {m}) = Cardinality(cycle[s].todo) - 1
        /\ Cardinality(cycle[s].todo \ {m}) \in Nat
    BY <1>1, <2>3, FS_RemoveElement, FS_CardinalityType
  <2>5. (c + 1) + Cardinality(cycle[s].todo \ {m}) <= Batch /\ c + 1 <= Batch
    BY <2>3, <2>4
  <2>6. Fits(s)'
    BY <2>1, <2>5 DEF Fits
  <2>7. \A t \in Slots : Fits(t)'
    BY <2>1, <2>6, FitsStays DEF QuotaInv
  <2>8. PastSlots' = PastSlots
    BY <1>1, <2>1, <2>2 DEF PastSlots, Past
  <2>9. Counted' = Counted \cup {<<s, c + 1>>} /\ <<s, c + 1>> \notin Counted
    <3> DEFINE New(p) == (Past(p[1]) /\ p[2] <= cycle[p[1]].count)'
               Old(p) == Past(p[1]) /\ p[2] <= cycle[p[1]].count
    <3>1. ASSUME NEW p \in Slots \X (1..Batch)
          PROVE  New(p) <=> Old(p) \/ p = <<s, c + 1>>
      <4>1. p[1] \in Slots /\ p[2] \in 1..Batch /\ p = <<p[1], p[2]>>
        OBVIOUS
      <4>2. CASE p[1] = s
        <5>1. New(p) <=> p[2] <= c + 1
          BY <2>1, <2>2, <4>2
        <5>2. Old(p) <=> p[2] <= c
          BY <1>1, <4>2
        <5>3. p = <<s, c + 1>> <=> p[2] = c + 1
          BY <4>1, <4>2
        <5> QED
          BY <4>1, <5>1, <5>2, <5>3
      <4>3. CASE p[1] # s
        <5>1. New(p) <=> Old(p)
          BY <2>1, <4>1, <4>3 DEF Past
        <5> QED
          BY <4>3, <5>1
      <4> QED
        BY <4>2, <4>3
    <3>2. <<s, c + 1>> \in Slots \X (1..Batch) /\ ~ Old(<<s, c + 1>>)
      BY <2>5
    <3>3. Counted' = {p \in Slots \X (1..Batch) : New(p)}
          /\ Counted = {p \in Slots \X (1..Batch) : Old(p)}
      BY DEF Counted
    <3> HIDE DEF New, Old
    <3> QED
      BY <3>1, <3>2, <3>3
  <2>10. Cardinality(Counted') = Cardinality(Counted) + 1 /\ Cardinality(Counted) \in Nat
    <3>1. IsFiniteSet(Counted)
      BY PairSizes DEF Counted
    <3> QED
      BY <2>9, <3>1, FS_AddElement, FS_CardinalityType
  <2>11. Rows' \subseteq Rows \cup {m}
    BY <1>2, <1>4 DEF Rows
  <2>12. Cardinality(Rows') <= Cardinality(Rows) + 1 /\ Cardinality(Rows) \in Nat
         /\ Cardinality(Rows') \in Nat
    <3>1. IsFiniteSet(Rows) /\ Cardinality(Rows) \in Nat
      BY MailSizes DEF Rows
    <3>2. IsFiniteSet(Rows \cup {m}) /\ Cardinality(Rows \cup {m}) \in Nat
          /\ Cardinality(Rows \cup {m}) <= Cardinality(Rows) + 1
      <4>1. /\ IsFiniteSet(Rows \cup {m})
            /\ Cardinality(Rows \cup {m}) =
                 IF m \in Rows THEN Cardinality(Rows) ELSE Cardinality(Rows) + 1
        BY <3>1, FS_AddElement
      <4> QED
        BY <3>1, <4>1
    <3>3. Cardinality(Rows') <= Cardinality(Rows \cup {m}) /\ Cardinality(Rows') \in Nat
      BY <2>11, <3>2, FS_Subset, FS_CardinalityType
    <3> QED
      BY <3>1, <3>2, <3>3
  <2>13. incidents' = incidents /\ Batch * incidents \in Nat
    BY <1>2, <1>4, BatchesGrow DEF bounds
  <2>14. Cardinality(Rows') <= used' + Cardinality(Counted') + Batch * incidents'
    <3>1. Cardinality(Rows) <= used + Cardinality(Counted) + Batch * incidents
      BY DEF QuotaInv
    <3> QED
      BY <1>2, <2>10, <2>12, <2>13, <3>1
  <2> QED
    BY <1>2, <2>7, <2>8, <2>14 DEF QuotaInv
<1> QED
  BY <1>3, <1>4 DEF Store

\* A slot stops, and so does its count: all of it is reported, or an incident
\* pays for it.
LEMMA StopsQuota ==
  ASSUME IInv, IInv', QuotaInv, NEW s \in Slots, NEW p \in {Free, Down},
         cycle' = [cycle EXCEPT ![s] = p], row' = row, Busy(s),
         \/ used' = used /\ incidents' = incidents + 1
         \/ Past(s) /\ used' = used + cycle[s].count /\ incidents' = incidents
  PROVE  QuotaInv'
<1>1. /\ ~ Past(s)' /\ cycle'[s] = p /\ p.at \notin Steps
      /\ \A t \in Slots \ {s} : cycle'[t] = cycle[t]
  BY DEF IInv, TypeInv, TypeOK, Past, Free, Down, Steps, InThread
<1>2. used \in Nat /\ used' \in Nat /\ incidents \in Nat /\ incidents' \in Nat
  BY DEF IInv, TypeInv, TypeOK
<1>3. CASE ~ Past(s)
  <2>1. used' = used /\ incidents <= incidents'
    BY <1>2, <1>3
  <2> QED
    BY <1>1, <1>3, <2>1, SlotBefore DEF Steps
<1>4. CASE Past(s)
  <2> PICK c \in Nat : c = cycle[s].count
    BY <1>4, PastType DEF Running
  <2>1. c <= Batch
    <3>1. Fits(s) /\ Cardinality(cycle[s].todo) \in Nat
      BY <1>4, PastType, RunningSizes DEF QuotaInv
    <3> QED
      BY <1>4, <3>1 DEF Fits
  <2>2. \A t \in Slots : Fits(t)'
    <3>1. Fits(s)'
      BY <1>1 DEF Fits, Steps
    <3> QED
      BY <1>1, <3>1, FitsStays DEF QuotaInv
  <2>3. PastSlots' = PastSlots \ {s} /\ s \in PastSlots
    BY <1>1, <1>4 DEF PastSlots, Past
  <2>4. /\ Cardinality(PastSlots') = Cardinality(PastSlots) - 1
        /\ Cardinality(PastSlots) \in Nat /\ Cardinality(PastSlots') \in Nat
    <3>1. PastSlots \in SUBSET Slots /\ PastSlots' \in SUBSET Slots
      BY <2>3 DEF PastSlots
    <3>2. IsFiniteSet(PastSlots) /\ Cardinality(PastSlots) \in Nat
          /\ Cardinality(PastSlots') \in Nat
      BY <3>1, SlotSizes
    <3> QED
      BY <2>3, <3>2, FS_RemoveElement
  <2>5. Batch * Cardinality(PastSlots) = Batch * Cardinality(PastSlots') + Batch
        /\ Batch * Cardinality(PastSlots) \in Nat /\ Batch * Cardinality(PastSlots') \in Nat
    <3> PICK k \in Nat : k = Cardinality(PastSlots')
      BY <2>4
    <3>1. Cardinality(PastSlots) = k + 1
      BY <2>4
    <3>2. Batch * (k + 1) = Batch * k + Batch /\ Batch * k \in Nat
      OBVIOUS
    <3> QED
      BY <3>1, <3>2
  <2> DEFINE P == {s} \X (1..c)
  <2>6. Counted' = Counted \ P /\ P \subseteq Counted
    <3> DEFINE New(x) == (Past(x[1]) /\ x[2] <= cycle[x[1]].count)'
               Old(x) == Past(x[1]) /\ x[2] <= cycle[x[1]].count
    <3>1. ASSUME NEW x \in Slots \X (1..Batch)
          PROVE  (New(x) <=> Old(x) /\ x \notin P) /\ (x \in P => Old(x))
      <4>1. x[1] \in Slots /\ x[2] \in 1..Batch /\ x = <<x[1], x[2]>>
        OBVIOUS
      <4>2. CASE x[1] = s
        <5>1. ~ New(x)
          BY <1>1, <4>2
        <5>2. Old(x) <=> x[2] <= c
          BY <1>4, <4>2
        <5>3. x \in P <=> x[2] <= c
          BY <4>1, <4>2
        <5> QED
          BY <5>1, <5>2, <5>3
      <4>3. CASE x[1] # s
        <5>1. New(x) <=> Old(x)
          BY <1>1, <4>1, <4>3 DEF Past
        <5>2. x \notin P
          BY <4>3
        <5> QED
          BY <5>1, <5>2
      <4> QED
        BY <4>2, <4>3
    <3>2. P \subseteq Slots \X (1..Batch)
      BY <2>1, PairsOfSlot
    <3>3. Counted' = {x \in Slots \X (1..Batch) : New(x)}
          /\ Counted = {x \in Slots \X (1..Batch) : Old(x)}
      BY DEF Counted
    <3> HIDE DEF New, Old, P
    <3> QED
      BY <3>1, <3>2, <3>3
  <2>7. IsFiniteSet(P) /\ Cardinality(P) = c
    BY <2>1, PairsOfSlot
  <2> HIDE DEF P
  <2>8. /\ Cardinality(Counted') = Cardinality(Counted) - c
        /\ Cardinality(Counted) \in Nat /\ Cardinality(Counted') \in Nat
    <3>1. IsFiniteSet(Counted) /\ Counted \cap P = P
      BY <2>6, PairSizes DEF Counted
    <3>2. Cardinality(Counted \ P) = Cardinality(Counted) - Cardinality(Counted \cap P)
          /\ IsFiniteSet(Counted \ P)
      BY <3>1, FS_Difference
    <3> QED
      BY <2>6, <2>7, <3>1, <3>2, FS_CardinalityType
  <2>9. Rows' = Rows /\ Cardinality(Rows) \in Nat
    BY MailSizes DEF Rows
  <2>10. /\ Batch * incidents \in Nat
         /\ Batch * (incidents + 1) = Batch * incidents + Batch
    <3> PICK i \in Nat : i = incidents
      BY <1>2
    <3>1. Batch * (i + 1) = Batch * i + Batch /\ Batch * i \in Nat
      OBVIOUS
    <3> QED
      BY <3>1
  <2>11. /\ used + Batch * Cardinality(PastSlots) <= Limit - 1 + Batch * Cardinality(Slots)
         /\ Cardinality(Rows) <= used + Cardinality(Counted) + Batch * incidents
         /\ Batch * Cardinality(Slots) \in Nat
    BY BatchesGrow, FS_CardinalityType DEF QuotaInv
  <2>12. used' + Batch * Cardinality(PastSlots') <= Limit - 1 + Batch * Cardinality(Slots)
    BY <1>2, <2>1, <2>5, <2>11
  <2>13. Cardinality(Rows') <= used' + Cardinality(Counted') + Batch * incidents'
    <3>1. CASE used' = used /\ incidents' = incidents + 1
      BY <1>2, <2>1, <2>8, <2>9, <2>10, <2>11, <3>1
    <3>2. CASE used' = used + c /\ incidents' = incidents
      BY <1>2, <2>8, <2>9, <2>10, <2>11, <3>2
    <3> QED
      BY <3>1, <3>2
  <2> QED
    BY <2>2, <2>12, <2>13 DEF QuotaInv
<1> QED
  BY <1>3, <1>4

LEMMA FinalizeQuota ==
  ASSUME IInv, IInv', QuotaInv, NEW s \in Slots, Finalize(s)
  PROVE  QuotaInv'
<1>1. Past(s) /\ Busy(s)
  BY PastType DEF Finalize, At, Past, Steps
<1>2. /\ cycle' = [cycle EXCEPT ![s] = Free] /\ row' = row
      /\ used' = used + cycle[s].count /\ incidents' = incidents
  BY DEF Finalize, Leave, bounds
<1> QED
  BY <1>1, <1>2, StopsQuota

LEMMA CutShortQuota ==
  ASSUME IInv, IInv', QuotaInv, NEW s \in Slots, Cancel(s) \/ Crash(s)
  PROVE  QuotaInv'
<1>1. Busy(s)
  BY NotBusy DEF Cancel, Crash, IInv, TypeInv
<1>2. /\ \E p \in {Free, Down} : cycle' = [cycle EXCEPT ![s] = p]
      /\ row' = row /\ used' = used /\ incidents' = incidents + 1
  BY DEF Cancel, Crash, Leave, Incident
<1> QED
  BY <1>1, <1>2, StopsQuota

-----------------------------------------------------------------------------
(* The quota. *)

LEMMA NextQuota == ASSUME IInv, IInv', QuotaInv, [Next]_vars PROVE QuotaInv'
<1>1. ASSUME UNCHANGED <<cycle, used, row>>, incidents' = incidents
      PROVE  QuotaInv'
  BY <1>1, NoSlotQuota DEF IInv, TypeInv, TypeOK
<1>2. ASSUME NEW s \in Slots, WorkerStep(s) PROVE QuotaInv'
  BY <1>2, TakeQuota, CreateLogQuota, CheckQuotaQuota, FetchQuota, ClassifyQuota,
     ImapStepQuota, StoreQuota, FinalizeQuota DEF WorkerStep
<1>3. ASSUME NEW s \in Slots, ImapFails(s) \/ Cancel(s) \/ Crash(s) \/ Startup(s)
      PROVE  QuotaInv'
  BY <1>3, ImapFailsQuota, CutShortQuota, StartupQuota
<1>4. Tick => UNCHANGED <<cycle, used, row>> /\ incidents' = incidents
  BY DEF Tick, bounds
<1>5. \A a \in Accounts : RunNow(a) \/ Switch(a)
        => UNCHANGED <<cycle, used, row>> /\ incidents' = incidents
  BY DEF RunNow, Switch, Command
<1>6. \A m \in Mail : Arrive(m) \/ UserTakes(m)
        => UNCHANGED <<cycle, used, row>> /\ incidents' = incidents
  BY DEF Arrive, UserTakes, Command, bounds
<1>7. \A o \in orphans : OrphanStep(o)
        => UNCHANGED <<cycle, used, row>> /\ incidents' = incidents
  BY DEF OrphanStep, bounds
<1>8. UNCHANGED vars => UNCHANGED <<cycle, used, row>> /\ incidents' = incidents
  BY DEF vars, bounds
<1> QED
  BY <1>1, <1>2, <1>3, <1>4, <1>5, <1>6, <1>7, <1>8 DEF Next

LEMMA QuotaFollows == ASSUME IInv, QuotaInv PROVE HandledWithinQuota
<1> PICK k \in Nat : k = Cardinality(Slots)
  BY FS_CardinalityType
<1> PICK i \in Nat : i = incidents
  BY DEF IInv, TypeInv, TypeOK
<1>1. Batch * (k + i) = Batch * k + Batch * i /\ Batch * k \in Nat /\ Batch * i \in Nat
  OBVIOUS
<1>2. /\ Cardinality(Counted) <= Batch * Cardinality(PastSlots)
      /\ Cardinality(Counted) \in Nat /\ Batch * Cardinality(PastSlots) \in Nat
  BY CountedAtMost
<1>3. used \in Nat /\ Cardinality(Rows) \in Nat
  BY MailSizes DEF IInv, TypeInv, TypeOK, Rows
<1>4. /\ used + Batch * Cardinality(PastSlots) <= Limit - 1 + Batch * k
      /\ Cardinality(Rows) <= used + Cardinality(Counted) + Batch * i
  BY DEF QuotaInv
<1>5. Cardinality(Rows) <= Limit - 1 + Batch * (k + i)
  BY <1>1, <1>2, <1>3, <1>4
<1> QED
  BY <1>5 DEF HandledWithinQuota, Rows

\* However many workers there are, a day handles at most one message less than
\* the plan allows, and a batch more for each slot (all of them may pass
\* can_process_more before one of them reports) and for each incident (a cycle
\* that is cut short never reports what it has handled).
THEOREM QuotaHolds == Spec => []HandledWithinQuota
<1>1. Init => QuotaInv
  BY InitQuota
<1>2. IInv /\ IInv' /\ QuotaInv /\ [Next]_vars => QuotaInv'
  BY NextQuota
<1>3. IInv /\ QuotaInv => HandledWithinQuota
  BY QuotaFollows
<1> QED
  BY <1>1, <1>2, <1>3, IInvHolds, PTL DEF Spec
=============================================================================
