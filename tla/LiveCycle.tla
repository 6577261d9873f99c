------------------------------ MODULE LiveCycle ------------------------------
(***************************************************************************)
(* The live cycle: every five minutes schedule_cycles enqueues the         *)
(* accounts that are due, process_account_cycle runs CycleService.run for  *)
(* each, and run_cycle_now enqueues one at once (worker/main.py,           *)
(* services/cycle.py, routers/cycles.py, repositories/account.py,          *)
(* quota.py).  A cycle fetches the messages of INBOX that lack the keyword *)
(* MailFlowProcessed; for each it classifies, sets the keyword, moves the  *)
(* message and stores a row.                                               *)
(*                                                                         *)
(* The ARQ job of an account always has the same id, so its place is one   *)
(* variable of the account.  One organisation and one day are modelled.    *)
(***************************************************************************)
EXTENDS Integers, FiniteSets

CONSTANTS
  Accounts,
  NumMail,       \* messages that ever arrive
  Owner,         \* account of each message
  Early,         \* messages in INBOX when the day begins
  Poison,        \* messages that cannot be classified at all
  Batch,         \* max_count of fetch_unprocessed_emails
  Limit,         \* max_emails_per_day of the plan
  Interval,      \* interval_minutes, in ticks of the cron
  KeepResult,    \* ticks for which ARQ keeps the result of a job
  KeyLife,       \* ticks after which the key of a job that nobody runs expires
  MaxTries,      \* WORKER_MAX_TRIES
  Slots,         \* jobs that the workers run at the same time, at most
  MaxCommands,   \* bound: what users do
  MaxIncidents,  \* bound: incidents
  Incidents      \* kinds of incident that may happen

Mail == 1..NumMail

ASSUME MailAssumption ==
  /\ NumMail \in Nat
  /\ Owner \in [Mail -> Accounts]
  /\ Early \subseteq Mail /\ Poison \subseteq Mail
ASSUME LimitsAssumption ==
  /\ Batch \in Nat \ {0} /\ Limit \in Nat \ {0} /\ MaxTries \in Nat \ {0}
  /\ Interval \in Nat \ {0} /\ KeepResult \in Nat \ {0} /\ KeyLife \in Nat \ {0}
  /\ IsFiniteSet(Slots)
ASSUME CycleBoundsAssumption ==
  /\ MaxCommands \in Nat /\ MaxIncidents \in Nat
  /\ Incidents \subseteq {"imap", "model", "db", "crash", "timeout", "pause"}

VARIABLES
  \* PostgreSQL
  active,   \* accounts with is_active
  age,      \* ticks since last_cycle_at, up to Interval
  row,      \* processed_emails: the message was to be moved, or to stay
  used,     \* sum of emails_processed of today's audit rows
  \* IMAP
  inbox, marked,  \* messages in INBOX, and those with the keyword
  filed,          \* copies that cycles have made in other folders
  taken,          \* messages that their user moved elsewhere
  \* ARQ and the workers
  entry,    \* the job of each account
  cycle,    \* what each slot runs
  orphans,  \* IMAP commands of cycles that were cancelled
  commands, incidents

mailboxes == <<inbox, marked, filed, taken>>
bounds == <<commands, incidents>>
vars == <<active, age, row, used, mailboxes, entry, cycle, orphans, bounds>>

InThread == {"marking", "copying", "removing"}
Steps == {"claimed", "logged", "checked", "working", "storing"} \cup InThread
Places == {"none", "queued", "running", "kept", "elsewhere"}

\* left is for how long the result or the key stays.
Entries == [at : Places, try : 1..MaxTries, left : Nat]
Running == [at : Steps, account : Accounts, todo : SUBSET Mail,
            msg : Mail \cup {0}, execute : BOOLEAN, count : Nat]
Free == [at |-> "free"]
Down == [at |-> "down"]

TypeOK ==
  /\ active \subseteq Accounts
  /\ age \in [Accounts -> 0..Interval]
  /\ row \in [Mail -> {"none", "moved", "left"}]
  /\ used \in Nat
  /\ inbox \subseteq Mail /\ marked \subseteq Mail /\ taken \subseteq Mail
  /\ filed \in [Mail -> Nat]
  /\ entry \in [Accounts -> Entries]
  /\ cycle \in [Slots -> Running \cup {Free, Down}]
  /\ orphans \subseteq [at : InThread, msg : Mail]
  /\ commands \in 0..MaxCommands /\ incidents \in 0..MaxIncidents

None == [at |-> "none", try |-> 1, left |-> 0]

Init ==
  /\ active = Accounts
  /\ age = [a \in Accounts |-> Interval]
  /\ row = [m \in Mail |-> "none"] /\ used = 0
  /\ inbox = Early /\ marked = {} /\ taken = {} /\ filed = [m \in Mail |-> 0]
  /\ entry = [a \in Accounts |-> None]
  /\ cycle = [s \in Slots |-> Free] /\ orphans = {}
  /\ commands = 0 /\ incidents = 0

Incident(kind) ==
  /\ kind \in Incidents
  /\ incidents < MaxIncidents /\ incidents' = incidents + 1
  /\ UNCHANGED commands

Command ==
  /\ commands < MaxCommands /\ commands' = commands + 1
  /\ UNCHANGED incidents

-----------------------------------------------------------------------------
(* Time, the cron and the ARQ entry of an account. *)

Due(a) == age[a] = Interval

\* enqueue_job does nothing when the id has an entry or a kept result.
Enqueued(e, place, life) ==
  IF e.at = "none" THEN [at |-> place, try |-> 1, left |-> life] ELSE e

\* Keys and results expire.
Older(e) ==
  IF e.at \notin {"kept", "elsewhere"} THEN e
  ELSE IF e.left = 1 THEN None ELSE [e EXCEPT !.left = @ - 1]

\* Five minutes pass, and a worker runs schedule_cycles.
Tick ==
  /\ age' = [a \in Accounts |-> IF Due(a) THEN Interval ELSE age[a] + 1]
  /\ entry' = [a \in Accounts |->
       IF a \in active /\ age'[a] = Interval /\ \E s \in Slots : cycle[s] # Down
         THEN Enqueued(Older(entry[a]), "queued", 0) ELSE Older(entry[a])]
  /\ UNCHANGED <<active, row, used, mailboxes, cycle, orphans, bounds>>

\* run_cycle_now: its pool has the default queue of ARQ, which no worker serves.
RunNow(a) ==
  /\ Command
  /\ entry' = [entry EXCEPT ![a] = Enqueued(@, "elsewhere", KeyLife)]
  /\ UNCHANGED <<active, age, row, used, mailboxes, cycle, orphans>>

\* The user disables an account or enables it again.
Switch(a) ==
  /\ Command
  /\ active' = IF a \in active THEN active \ {a} ELSE active \cup {a}
  /\ UNCHANGED <<age, row, used, mailboxes, entry, cycle, orphans>>

Kept == [at |-> "kept", try |-> 1, left |-> KeepResult]

\* The function returned or raised.
Leave(s) ==
  /\ cycle' = [cycle EXCEPT ![s] = Free]
  /\ entry' = [entry EXCEPT ![cycle[s].account] = Kept]

-----------------------------------------------------------------------------
(* The mailbox, which its user and the mail server change too. *)

Arrive(m) ==
  /\ m \notin inbox /\ row[m] = "none" /\ filed[m] = 0 /\ m \notin taken
  /\ m \notin marked
  /\ inbox' = inbox \cup {m}
  /\ UNCHANGED <<active, age, row, used, marked, filed, taken, entry, cycle,
                 orphans, bounds>>

UserTakes(m) ==
  /\ m \in inbox
  /\ Command
  /\ inbox' = inbox \ {m} /\ taken' = taken \cup {m}
  /\ UNCHANGED <<active, age, row, used, marked, filed, entry, cycle, orphans>>

\* IMAP answers OK to a command about a UID that is gone and does nothing.
SetKeyword(m) ==
  /\ marked' = marked \cup ({m} \cap inbox)
  /\ UNCHANGED <<inbox, filed, taken>>

CopyMail(m) ==
  /\ filed' = [filed EXCEPT ![m] = IF m \in inbox THEN @ + 1 ELSE @]
  /\ UNCHANGED <<inbox, marked, taken>>

RemoveMail(m) ==
  /\ inbox' = inbox \ {m}
  /\ UNCHANGED <<marked, filed, taken>>

Perform(step, m) ==
  \/ step = "marking" /\ SetKeyword(m)
  \/ step = "copying" /\ CopyMail(m)
  \/ step = "removing" /\ RemoveMail(m)

-----------------------------------------------------------------------------
(* CycleService.run *)

At(s, step) == cycle[s].at = step

Least(S) == CHOOSE m \in S : \A n \in S : m <= n

\* process_account_cycle and claim_cycle.
Take(s, a) ==
  /\ At(s, "free") /\ entry[a].at = "queued"
  /\ \/ /\ a \in active /\ Due(a)
        /\ age' = [age EXCEPT ![a] = 0]
        /\ entry' = [entry EXCEPT ![a].at = "running"]
        /\ cycle' = [cycle EXCEPT ![s] =
             [at |-> "claimed", account |-> a, todo |-> {}, msg |-> 0,
              execute |-> FALSE, count |-> 0]]
        /\ UNCHANGED bounds
     \/ /\ \/ (a \notin active \/ ~ Due(a)) /\ UNCHANGED bounds
           \/ Incident("pause")
        /\ entry' = [entry EXCEPT ![a] = Kept]
        /\ UNCHANGED <<age, cycle>>
  /\ UNCHANGED <<active, row, used, mailboxes, orphans>>

\* create_audit_log, with no message counted.
CreateLog(s) ==
  /\ At(s, "claimed")
  /\ cycle' = [cycle EXCEPT ![s].at = "logged"]
  /\ UNCHANGED <<active, age, row, used, mailboxes, entry, orphans, bounds>>

\* Mutated form of CheckQuota: the plan is not looked at.
SkipQuota(s) ==
  /\ At(s, "logged")
  /\ cycle' = [cycle EXCEPT ![s].at = "checked"]
  /\ UNCHANGED <<active, age, row, used, mailboxes, entry, orphans, bounds>>

\* can_process_more
CheckQuota(s) ==
  /\ At(s, "logged")
  /\ \/ /\ used < Limit
        /\ cycle' = [cycle EXCEPT ![s].at = "checked"]
        /\ UNCHANGED entry
     \/ used >= Limit /\ Leave(s)
  /\ UNCHANGED <<active, age, row, used, mailboxes, orphans, bounds>>

Unprocessed(a) == {m \in inbox \ marked : Owner[m] = a}
Oldest(a) == {m \in Unprocessed(a) :
                Cardinality({n \in Unprocessed(a) : n <= m}) <= Batch}

\* fetch_unprocessed_emails; when its third attempt fails there is no message.
Fetch(s) ==
  /\ At(s, "checked")
  /\ \/ /\ cycle' = [cycle EXCEPT ![s].at = "working",
                                  ![s].todo = Oldest(cycle[s].account)]
        /\ UNCHANGED bounds
     \/ /\ Incident("imap")
        /\ cycle' = [cycle EXCEPT ![s].at = "working"]
  /\ UNCHANGED <<active, age, row, used, mailboxes, entry, orphans>>

\* The message is done with, and so is the loop's interest in it.
Dropped(s) ==
  [cycle EXCEPT ![s].at = "working", ![s].todo = @ \ {cycle[s].msg}, ![s].msg = 0]

\* Mutated form of Following: the keyword is set when the message has been moved.
FollowingLate(step, execute) ==
  CASE step = "classified" -> IF execute THEN "copying" ELSE "marking"
    [] step = "copying"    -> "removing"
    [] step = "removing"   -> "marking"
    [] step = "marking"    -> "storing"

\* What _process_one does next with a message.
Following(step, execute) ==
  CASE step = "classified" -> "marking"
    [] step = "marking"    -> IF execute THEN "copying" ELSE "storing"
    [] step = "copying"    -> "removing"
    [] step = "removing"   -> "storing"

\* Mutated form of Classify: an exception ends the loop.
ClassifyOrStop(s) ==
  /\ At(s, "working") /\ cycle[s].todo # {}
  /\ LET m == Least(cycle[s].todo)
     IN \/ /\ m \notin Poison
           /\ \E execute \in BOOLEAN :
                cycle' = [cycle EXCEPT ![s].at = Following("classified", execute),
                                       ![s].msg = m, ![s].execute = execute]
           /\ UNCHANGED bounds
        \/ /\ \/ m \in Poison /\ UNCHANGED bounds
              \/ Incident("model")
           /\ cycle' = [cycle EXCEPT ![s].todo = {}]
  /\ UNCHANGED <<active, age, row, used, mailboxes, entry, orphans>>

\* _process_one up to evaluate_mailbox_action, whose decision depends on the
\* message and on the policy of the account; an exception skips the message.
Classify(s) ==
  /\ At(s, "working") /\ cycle[s].todo # {}
  /\ LET m == Least(cycle[s].todo)
     IN \/ /\ m \notin Poison
           /\ \E execute \in BOOLEAN :
                cycle' = [cycle EXCEPT ![s].at = Following("classified", execute),
                                       ![s].msg = m, ![s].execute = execute]
           /\ UNCHANGED bounds
        \/ /\ \/ m \in Poison /\ UNCHANGED bounds
              \/ Incident("model")
           /\ cycle' = [cycle EXCEPT ![s].todo = @ \ {m}]
  /\ UNCHANGED <<active, age, row, used, mailboxes, entry, orphans>>

\* mark_as_processed and move_email.
ImapStep(s) ==
  /\ cycle[s].at \in InThread
  /\ Perform(cycle[s].at, cycle[s].msg)
  /\ cycle' = [cycle EXCEPT ![s].at = Following(cycle[s].at, cycle[s].execute)]
  /\ UNCHANGED <<active, age, row, used, entry, orphans, bounds>>

\* Mutated form of ImapFails: move_email's False is not looked at.
ImapFailsUnnoticed(s) ==
  /\ cycle[s].at \in InThread
  /\ Incident("imap")
  /\ Perform(cycle[s].at, cycle[s].msg) \/ UNCHANGED mailboxes
  /\ cycle' = [cycle EXCEPT ![s].at = Following(cycle[s].at, cycle[s].execute)]
  /\ UNCHANGED <<active, age, row, used, entry, orphans>>

\* The command fails, or only its answer is lost: the message is skipped.
ImapFails(s) ==
  /\ cycle[s].at \in InThread
  /\ Incident("imap")
  /\ Perform(cycle[s].at, cycle[s].msg) \/ UNCHANGED mailboxes
  /\ cycle' = Dropped(s)
  /\ UNCHANGED <<active, age, row, used, entry, orphans>>

\* insert_processed, which does nothing for a message that has a row; the
\* message is counted all the same.
Store(s) ==
  /\ At(s, "storing")
  /\ \/ /\ row' = [row EXCEPT ![cycle[s].msg] =
              IF @ # "none" THEN @ ELSE IF cycle[s].execute THEN "moved" ELSE "left"]
        /\ cycle' = [Dropped(s) EXCEPT ![s].count = @ + 1]
        /\ UNCHANGED bounds
     \/ Incident("db") /\ cycle' = Dropped(s) /\ UNCHANGED row
  /\ UNCHANGED <<active, age, used, mailboxes, entry, orphans>>

\* finalize_audit_log
Finalize(s) ==
  /\ At(s, "working") /\ cycle[s].todo = {}
  /\ used' = used + cycle[s].count
  /\ Leave(s)
  /\ UNCHANGED <<active, age, row, mailboxes, orphans, bounds>>

\* job_timeout, or an exception outside the handler of a message: the audit row
\* stays at zero.  A thread is not cancelled with its coroutine.
Cancel(s) ==
  /\ cycle[s] \notin {Free, Down}
  /\ Incident("timeout")
  /\ Leave(s)
  /\ orphans' = IF cycle[s].at \in InThread
                  THEN orphans \cup {[at |-> cycle[s].at, msg |-> cycle[s].msg]}
                  ELSE orphans
  /\ UNCHANGED <<active, age, row, used, mailboxes>>

\* The thread goes on with its function, until it fails or is through.
OrphanStep(o) ==
  /\ \/ /\ Perform(o.at, o.msg)
        /\ orphans' = (orphans \ {o}) \cup
             IF o.at = "copying" THEN {[o EXCEPT !.at = "removing"]} ELSE {}
     \/ orphans' = orphans \ {o} /\ UNCHANGED mailboxes
  /\ UNCHANGED <<active, age, row, used, entry, cycle, bounds>>

\* ARQ runs a job again whose process died, up to max_tries times.
Repeated(e) ==
  IF e.try < MaxTries THEN [e EXCEPT !.at = "queued", !.try = @ + 1] ELSE Kept

Crash(s) ==
  /\ cycle[s] \notin {Free, Down}
  /\ Incident("crash")
  /\ cycle' = [cycle EXCEPT ![s] = Down]
  /\ entry' = [entry EXCEPT ![cycle[s].account] = Repeated(@)]
  /\ UNCHANGED <<active, age, row, used, mailboxes, orphans>>

Startup(s) ==
  /\ cycle[s] = Down
  /\ cycle' = [cycle EXCEPT ![s] = Free]
  /\ UNCHANGED <<active, age, row, used, mailboxes, entry, orphans, bounds>>

-----------------------------------------------------------------------------
WorkerStep(s) ==
  \/ \E a \in Accounts : Take(s, a)
  \/ CreateLog(s) \/ CheckQuota(s) \/ Fetch(s) \/ Classify(s) \/ ImapStep(s)
  \/ Store(s) \/ Finalize(s)

Next ==
  \/ Tick
  \/ \E a \in Accounts : RunNow(a) \/ Switch(a)
  \/ \E m \in Mail : Arrive(m) \/ UserTakes(m)
  \/ \E s \in Slots : WorkerStep(s) \/ ImapFails(s) \/ Cancel(s) \/ Crash(s)
                      \/ Startup(s)
  \/ \E o \in orphans : OrphanStep(o)

\* The cron runs every five minutes, ARQ takes the entries of its queue in their
\* order, workers go on with their jobs, and one that went down is started again.
\* Incidents and users need not happen.
Fairness ==
  /\ WF_vars(Tick)
  /\ \A a \in Accounts : SF_vars(\E s \in Slots : Take(s, a))
  /\ \A s \in Slots : WF_vars(WorkerStep(s)) /\ WF_vars(Startup(s))

Spec == Init /\ [][Next]_vars
FairSpec == Spec /\ Fairness

-----------------------------------------------------------------------------
(* Properties. *)

\* A row that says a message was moved is true: a cycle has copied it out of
\* INBOX, unless its user was faster (services/cycle.py, "mailbox_move_failed").
StoredIsFiled == \A m \in Mail : row[m] = "moved" => filed[m] > 0 \/ m \in taken

\* Whatever fails, crashes or goes on in a cancelled thread, no message is moved
\* twice: the keyword is set before the message is copied.
CopiedAtMostOnce == \A m \in Mail : filed[m] <= 1

\* What the quota of a plan is worth: it is checked when a cycle starts and
\* counted when one ends, so each slot may go beyond it by a batch, and so may
\* each cycle that is never finalized.
HandledWithinQuota ==
  Cardinality({m \in Mail : row[m] # "none"})
    <= Limit - 1 + Batch * (Cardinality(Slots) + incidents)

\* Every message of an active account is handled, although other messages of the
\* account fail each time, cycles fail, and a manual run is never run.
EveryMailHandled ==
  \A m \in Mail \ Poison :
    m \in inbox \ marked /\ Owner[m] \in active ~>
      \/ m \notin inbox \/ m \in marked
      \/ Owner[m] \notin active
      \/ used >= Limit

\* "The worker picks up due accounts on its 5-minute cron": when the cron has run,
\* the job of an account that is due is waiting for a worker or running.
DueIsPickedUp ==
  [][Tick => \A a \in active : age'[a] = Interval => entry'[a].at \in {"queued", "running"}]_vars
=============================================================================
