------------------------------ MODULE Mailbox ------------------------------
(***************************************************************************)
(* The mailboxes at their IMAP servers, and the calls that change them     *)
(* (services/mail_actions.py, mailflow_core/providers/imap_*.py).          *)
(*                                                                         *)
(* move_email copies the message, flags the original as deleted and        *)
(* expunges the folder: three commands, each of which may fail, and other  *)
(* calls and workers act between them.  A copy in another folder has a     *)
(* UID of its own, so a call may name a copy that no longer exists; IMAP   *)
(* answers OK to commands about such a UID and does nothing.               *)
(***************************************************************************)
EXTENDS Integers, FiniteSets

CONSTANTS
  NumMessages,  \* messages
  Accounts,
  Owner,        \* account of each message
  Names,        \* names of folders
  Has,          \* selectable folders of each account
  Arrived,      \* folder in which each message is at first
  Unread,       \* messages that have not been read at first
  Calls         \* bound: calls in progress at the same time

Messages == 1..NumMessages

ASSUME MailboxAssumption ==
  /\ NumMessages \in Nat
  /\ Owner \in [Messages -> Accounts]
  /\ Has \in [Accounts -> SUBSET Names]
  /\ Arrived \in [Messages -> Names]
  /\ \A m \in Messages : Arrived[m] \in Has[Owner[m]]

VARIABLES
  copies,  \* what the folders hold
  last,    \* the last UID given to a copy
  call     \* calls in progress

mailbox == <<copies, last, call>>

\* deleted is the flag \Deleted, seen the flag \Seen.
Copies == [uid : Nat, msg : Messages, folder : Names, seen : BOOLEAN, deleted : BOOLEAN]

CallKinds == {"move", "undo", "read", "unread"}
Steps == {"asked", "copied", "flagged", "done", "failed"}
InProgress == [kind : CallKinds, msg : Messages, uid : Nat, folder : Names,
               to : Names, at : Steps]
Free == [kind |-> "none"]

MailboxTypeOK ==
  /\ copies \in SUBSET Copies
  /\ last \in Nat
  /\ call \in [Calls -> InProgress \cup {Free}]

MailboxInit ==
  /\ copies = {[uid |-> m, msg |-> m, folder |-> Arrived[m],
                seen |-> m \notin Unread, deleted |-> FALSE] : m \in Messages}
  /\ last = NumMessages
  /\ call = [c \in Calls |-> Free]

At(c, kinds, step) == call[c].kind \in kinds /\ call[c].at = step

\* The copies that a call names.
Named(c) ==
  {x \in copies : /\ x.msg = call[c].msg /\ x.uid = call[c].uid
                  /\ x.folder = call[c].folder}

Ask(c, kind, m, uid, folder, to) ==
  /\ call[c] = Free
  /\ call' = [call EXCEPT ![c] = [kind |-> kind, msg |-> m, uid |-> uid,
                                  folder |-> folder, to |-> to, at |-> "asked"]]

\* Both folders have to be folders of the account.
Known(c) == {call[c].folder, call[c].to} \subseteq Has[Owner[call[c].msg]]

Reject(c) ==
  /\ call[c].kind # "none" /\ call[c].at = "asked"
  /\ ~ Known(c)
  /\ call' = [call EXCEPT ![c].at = "failed"]
  /\ UNCHANGED <<copies, last>>

\* undo_mail_move looks for the message in the folder it was moved to.
Find(c) ==
  /\ At(c, {"undo"}, "asked") /\ Known(c)
  /\ LET found == {x \in copies : x.msg = call[c].msg /\ x.folder = call[c].folder}
     IN IF found = {}
          THEN call' = [call EXCEPT ![c].at = "failed"]
          ELSE \E x \in found :
                 /\ \A y \in found : y.uid <= x.uid
                 /\ call' = [call EXCEPT ![c].kind = "move", ![c].uid = x.uid]
  /\ UNCHANGED <<copies, last>>

\* Mutated form of Copy: nothing is copied into a folder that has the message.
CopyIfAbsent(c) ==
  /\ At(c, {"move"}, "asked") /\ Known(c)
  /\ IF call[c].folder = call[c].to
       THEN /\ call' = [call EXCEPT ![c].at = "done"]
            /\ UNCHANGED <<copies, last>>
       ELSE /\ call' = [call EXCEPT ![c].at = "copied"]
            /\ last' = last + 1
            /\ copies' = copies \cup
                 {[x EXCEPT !.uid = last + 1, !.folder = call[c].to] : x \in
                    {y \in Named(c) : ~ \E z \in copies : z.msg = y.msg /\ z.folder = call[c].to}}

\* COPY keeps the flags of the original.
Copy(c) ==
  /\ At(c, {"move"}, "asked") /\ Known(c)
  /\ IF call[c].folder = call[c].to
       THEN /\ call' = [call EXCEPT ![c].at = "done"]
            /\ UNCHANGED <<copies, last>>
       ELSE /\ call' = [call EXCEPT ![c].at = "copied"]
            /\ last' = last + 1
            /\ copies' = copies \cup
                 {[x EXCEPT !.uid = last + 1, !.folder = call[c].to] : x \in Named(c)}

\* Mutated form of FlagDeleted: the original is flagged before it is copied.
FlagDeletedFirst(c) ==
  /\ At(c, {"move"}, "asked") \/ At(c, {"move"}, "copied")
  /\ copies' = (copies \ Named(c)) \cup {[x EXCEPT !.deleted = TRUE] : x \in Named(c)}
  /\ call' = [call EXCEPT ![c].at = IF @ = "copied" THEN "flagged" ELSE @]
  /\ UNCHANGED last

FlagDeleted(c) ==
  /\ At(c, {"move"}, "copied")
  /\ copies' = (copies \ Named(c)) \cup {[x EXCEPT !.deleted = TRUE] : x \in Named(c)}
  /\ call' = [call EXCEPT ![c].at = "flagged"]
  /\ UNCHANGED last

\* EXPUNGE removes whatever is flagged in the folder.
Expunge(c) ==
  /\ At(c, {"move"}, "flagged")
  /\ copies' = {x \in copies : ~ (/\ x.deleted /\ x.folder = call[c].folder
                                  /\ Owner[x.msg] = Owner[call[c].msg])}
  /\ call' = [call EXCEPT ![c].at = "done"]
  /\ UNCHANGED last

SetSeen(c) ==
  /\ At(c, {"read", "unread"}, "asked") /\ Known(c)
  /\ copies' = (copies \ Named(c)) \cup
                 {[x EXCEPT !.seen = call[c].kind = "read"] : x \in Named(c)}
  /\ call' = [call EXCEPT ![c].at = "done"]
  /\ UNCHANGED last

\* An IMAP command fails, the connection is lost or the API process dies.
Fail(c) ==
  /\ call[c].kind # "none" /\ call[c].at \in {"asked", "copied", "flagged"}
  /\ call' = [call EXCEPT ![c].at = "failed"]
  /\ UNCHANGED <<copies, last>>

Release(c) ==
  /\ call[c].kind # "none" /\ call[c].at \in {"done", "failed"}
  /\ call' = [call EXCEPT ![c] = Free]

ServerStep(c) ==
  \/ Reject(c) \/ Find(c) \/ Copy(c) \/ FlagDeleted(c) \/ Expunge(c) \/ SetSeen(c)

\* A pointer is taken from a folder listing, so its UID is one that was given.
MailboxNext ==
  \E c \in Calls :
    \/ \E kind \in CallKinds, m \in Messages, uid \in 0..last, from, to \in Names :
         Ask(c, kind, m, uid, from, to) /\ UNCHANGED <<copies, last>>
    \/ ServerStep(c) \/ Fail(c)
    \/ Release(c) /\ UNCHANGED <<copies, last>>

MailboxSpec == MailboxInit /\ [][MailboxNext]_mailbox

-----------------------------------------------------------------------------
(* Properties. *)

Kept(m) == {x \in copies : x.msg = m /\ ~ x.deleted}

\* A message is never lost: whatever calls and workers do, and wherever a move
\* fails between copying, flagging and expunging, one copy is not to be deleted.
NeverLost == \A m \in Messages : Kept(m) # {}

keptIn == [m \in Messages |-> {x.folder : x \in Kept(m)}]

AllFolders == Names
Promised == INSTANCE Custody WITH Folders <- AllFolders, kept <- keptIn

\* The mailboxes implement Custody: a step changes where one message is kept,
\* and by one folder.
KeepsCustody == Promised!Spec
=============================================================================
