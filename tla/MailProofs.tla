----------------------------- MODULE MailProofs -----------------------------
(***************************************************************************)
(* Proofs about the mailboxes and the calls that move mail in them, and    *)
(* about the mail page over them: for any accounts, folders, messages,     *)
(* calls and tasks.                                                        *)
(***************************************************************************)
EXTENDS MailWorkspace, TLAPS

USE MailboxAssumption

-----------------------------------------------------------------------------
(* The inductive invariant. *)

\* UIDs are given in order and never twice.
UidsGiven ==
  /\ \A x \in copies : x.uid <= last
  /\ \A x, y \in copies : x.uid = y.uid => x = y
  /\ \A c \in Calls : call[c].kind # "none" => call[c].uid <= last

\* What a call is about to flag as deleted has a later copy that is kept.
Later(x) == \E y \in Kept(x.msg) : y.uid > x.uid
CopiedFirst ==
  \A c \in Calls : At(c, {"move"}, "copied") =>
    \A x \in Named(c) : ~ x.deleted => Later(x)

IInv == MailboxTypeOK /\ UidsGiven /\ NeverLost /\ CopiedFirst

LEMMA InitIInv == MailboxInit => IInv
<1> SUFFICES ASSUME MailboxInit PROVE IInv
  OBVIOUS
<1> DEFINE first(m) == [uid |-> m, msg |-> m, folder |-> Arrived[m],
                        seen |-> m \notin Unread, deleted |-> FALSE]
<1>1. copies = {first(m) : m \in Messages}
  BY DEF MailboxInit
<1>2. \A m \in Messages : /\ first(m) \in Copies /\ first(m).uid = m /\ first(m).msg = m
                          /\ ~ first(m).deleted
  BY DEF Messages, Copies
<1> HIDE DEF first
<1>3. MailboxTypeOK
  <2>1. copies \in SUBSET Copies
    BY <1>1, <1>2
  <2> QED
    BY <2>1 DEF MailboxInit, MailboxTypeOK
<1>4. UidsGiven
  <2>1. \A c \in Calls : call[c].kind = "none"
    BY DEF MailboxInit, Free
  <2> QED
    BY <1>1, <1>2, <2>1 DEF MailboxInit, UidsGiven, Messages
<1>5. NeverLost
  BY <1>1, <1>2 DEF NeverLost, Kept
<1>6. CopiedFirst
  BY DEF MailboxInit, CopiedFirst, At, Free
<1> QED
  BY <1>3, <1>4, <1>5, <1>6 DEF IInv

-----------------------------------------------------------------------------
(* Steps that leave the copies alone, or only mark or expunge them. *)

\* The copies are those of before, up to the flag \Seen; deleted ones may go.
Tended ==
  /\ \A y \in copies' : \E x \in copies :
       y.uid = x.uid /\ y.msg = x.msg /\ y.folder = x.folder /\ y.deleted = x.deleted
  /\ \A x \in copies : ~ x.deleted => \E y \in copies' :
       y.uid = x.uid /\ y.msg = x.msg /\ y.folder = x.folder /\ ~ y.deleted

\* Such a step keeps a message in the folders that it was kept in.
LEMMA TendedKeeps == ASSUME Tended PROVE keptIn' = keptIn
BY DEF Tended, keptIn, Kept

\* No call comes to have copied its message in the step.
SameMoves ==
  \A c \in Calls : At(c, {"move"}, "copied")' =>
    /\ At(c, {"move"}, "copied")
    /\ call'[c].msg = call[c].msg /\ call'[c].uid = call[c].uid
    /\ call'[c].folder = call[c].folder

LEMMA TendedIInv ==
  ASSUME IInv, Tended, SameMoves, MailboxTypeOK', UidsGiven'
  PROVE  IInv'
<1>1. NeverLost'
  <2> SUFFICES ASSUME NEW m \in Messages PROVE Kept(m)' # {}
    BY DEF NeverLost
  <2>1. PICK x \in Kept(m) : TRUE
    BY DEF IInv, NeverLost
  <2> QED
    BY <2>1 DEF Tended, Kept
<1>2. CopiedFirst'
  <2> SUFFICES ASSUME NEW c \in Calls, At(c, {"move"}, "copied")',
                      NEW y \in Named(c)', ~ y.deleted
               PROVE  Later(y)'
    BY DEF CopiedFirst
  <2>1. PICK x \in copies : /\ y.uid = x.uid /\ y.msg = x.msg
                            /\ y.folder = x.folder /\ y.deleted = x.deleted
    BY DEF Tended, Named
  <2>2. x \in Named(c) /\ At(c, {"move"}, "copied")
    BY <2>1 DEF SameMoves, Named
  <2>3. PICK z \in Kept(x.msg) : z.uid > x.uid
    BY <2>1, <2>2 DEF IInv, CopiedFirst, Later
  <2>4. PICK w \in copies' : w.uid = z.uid /\ w.msg = z.msg /\ ~ w.deleted
    BY <2>3 DEF Tended, Kept
  <2> QED
    BY <2>1, <2>3, <2>4 DEF Later, Kept
<1> QED
  BY <1>1, <1>2 DEF IInv

\* Steps that leave the copies alone.
LEMMA UnchangedTended == ASSUME UNCHANGED copies PROVE Tended
BY DEF Tended

LEMMA IdleIInv ==
  ASSUME IInv, UNCHANGED <<copies, last>>, MailboxTypeOK', SameMoves,
         \A c \in Calls : call'[c].kind # "none" => call'[c].uid <= last
  PROVE  IInv'
<1>1. UidsGiven'
  BY DEF IInv, UidsGiven
<1> QED
  BY <1>1, UnchangedTended, TendedIInv

\* A call goes on, ends or is released.
LEMMA ChangeIInv ==
  ASSUME IInv, UNCHANGED <<copies, last>>, NEW c \in Calls,
         NEW r \in InProgress \cup {Free}, call' = [call EXCEPT ![c] = r],
         r.kind # "none" => r.uid <= last,
         r.kind # "move" \/ r.at # "copied"
  PROVE  IInv'
<1>1. MailboxTypeOK'
  BY DEF IInv, MailboxTypeOK
<1>2. \A d \in Calls : call'[d] = IF d = c THEN r ELSE call[d]
  BY DEF IInv, MailboxTypeOK
<1>3. SameMoves
  BY <1>2 DEF SameMoves, At
<1>4. \A d \in Calls : call'[d].kind # "none" => call'[d].uid <= last
  BY <1>2 DEF IInv, UidsGiven
<1> QED
  BY <1>1, <1>3, <1>4, IdleIInv

-----------------------------------------------------------------------------
(* The two steps that make and flag copies. *)

\* The copies a call names are at most one, and it is one of the given UIDs.
LEMMA NamedOnce ==
  ASSUME IInv, NEW c \in Calls, NEW x \in Named(c), NEW y \in Named(c)
  PROVE  x = y
BY DEF IInv, UidsGiven, Named

\* copyOf is what a COPY makes of one copy.
copyOf(x, c) == [x EXCEPT !.uid = last + 1, !.folder = call[c].to]

LEMMA CopyOfType ==
  ASSUME IInv, NEW c \in Calls, At(c, {"move"}, "asked"), NEW x \in Named(c)
  PROVE  /\ copyOf(x, c) \in Copies
         /\ copyOf(x, c).uid = last + 1 /\ copyOf(x, c).folder = call[c].to
         /\ copyOf(x, c).msg = call[c].msg /\ copyOf(x, c).deleted = x.deleted
         /\ call[c] \in InProgress
<1>1. x \in Copies /\ x.msg = call[c].msg
  BY DEF IInv, MailboxTypeOK, Named
<1>2. call[c] \in InProgress
  BY DEF IInv, MailboxTypeOK, At, Free
<1>3. call[c].to \in Names /\ last + 1 \in Nat
  BY <1>2 DEF IInv, MailboxTypeOK, InProgress
<1> QED
  BY <1>1, <1>2, <1>3 DEF copyOf, Copies

\* What a COPY into another folder does.
Copied(c) ==
  /\ copies' = copies \cup {copyOf(x, c) : x \in Named(c)}
  /\ last' = last + 1 /\ last \in Nat
  /\ At(c, {"move"}, "asked")
  /\ call[c] \in InProgress
  /\ call' \in [Calls -> InProgress \cup {Free}]
  /\ \A d \in Calls : call'[d] = IF d = c THEN [call[c] EXCEPT !.at = "copied"]
                                          ELSE call[d]

LEMMA CopyFacts ==
  ASSUME IInv, NEW c \in Calls, Copy(c), call[c].folder # call[c].to
  PROVE  Copied(c)
<1>1. At(c, {"move"}, "asked") /\ last' = last + 1 /\ last \in Nat
  BY DEF Copy, IInv, MailboxTypeOK
<1>2. copies' = copies \cup {copyOf(x, c) : x \in Named(c)}
  BY DEF Copy, copyOf
<1>3. call \in [Calls -> InProgress \cup {Free}]
  BY DEF IInv, MailboxTypeOK
<1>4. call[c] \in InProgress
  BY <1>1, <1>3 DEF At, Free
<1>5. \A d \in Calls : call'[d] = IF d = c THEN [call[c] EXCEPT !.at = "copied"] ELSE call[d]
  BY <1>3 DEF Copy
<1>6. [call[c] EXCEPT !.at = "copied"] \in InProgress
  BY <1>4 DEF InProgress, Steps
<1>7. call' \in [Calls -> InProgress \cup {Free}]
  BY <1>3, <1>6 DEF Copy
<1> QED
  BY <1>1, <1>2, <1>4, <1>5, <1>7 DEF Copied

LEMMA CopyIInv ==
  ASSUME IInv, NEW c \in Calls, Copy(c), call[c].folder # call[c].to
  PROVE  IInv'
<1>a. Copied(c)
  BY CopyFacts
<1> USE <1>a DEF Copied
<1>1. MailboxTypeOK'
  <2>1. \A x \in Named(c) : copyOf(x, c) \in Copies
    BY CopyOfType
  <2> QED
    BY <2>1 DEF IInv, MailboxTypeOK
<1>2. \A x \in copies : x.uid \in Nat /\ x.uid <= last
  BY DEF IInv, MailboxTypeOK, Copies, UidsGiven
<1>3. UidsGiven'
  <2>1. \A x \in copies' : x.uid <= last'
    BY <1>2, CopyOfType
  <2>2. \A x, y \in copies' : x.uid = y.uid => x = y
    BY <1>2, CopyOfType, NamedOnce DEF IInv, UidsGiven
  <2>3. \A d \in Calls : call'[d].kind # "none" => call'[d].uid <= last'
    <3> SUFFICES ASSUME NEW d \in Calls, call'[d].kind # "none"
                 PROVE  call'[d].uid <= last'
      OBVIOUS
    <3>1. call[d].kind # "none" /\ call'[d].uid = call[d].uid
      BY DEF InProgress, At
    <3>2. call[d].uid <= last /\ call[d].uid \in Nat
      BY <3>1 DEF IInv, UidsGiven, MailboxTypeOK, InProgress, Free
    <3> QED
      BY <3>1, <3>2
  <2> QED
    BY <2>1, <2>2, <2>3 DEF UidsGiven
<1>4. NeverLost'
  BY DEF IInv, NeverLost, Kept
<1>5. CopiedFirst'
  <2> SUFFICES ASSUME NEW d \in Calls, At(d, {"move"}, "copied")',
                      NEW y \in Named(d)', ~ y.deleted
               PROVE  Later(y)'
    BY DEF CopiedFirst
  <2>1. /\ call'[d].msg = call[d].msg /\ call'[d].uid = call[d].uid
        /\ call'[d].folder = call[d].folder /\ call[d].kind = "move"
    BY DEF At, InProgress
  <2>2. call[d].uid <= last /\ call[d].uid \in Nat
    BY <2>1 DEF IInv, UidsGiven, MailboxTypeOK, InProgress, Free
  <2>3. y \in copies
    BY <2>1, <2>2, CopyOfType DEF Named
  <2>4. y \in Named(d)
    BY <2>1, <2>3 DEF Named
  <2>5. CASE d = c
    <3>1. copyOf(y, c) \in copies' /\ copyOf(y, c).uid = last + 1
          /\ copyOf(y, c).msg = y.msg /\ ~ copyOf(y, c).deleted
      BY <2>4, <2>5, CopyOfType DEF Named
    <3>2. copyOf(y, c) \in Kept(y.msg)'
      BY <3>1 DEF Kept
    <3>3. copyOf(y, c).uid > y.uid
      BY <2>3, <1>2, <3>1
    <3> QED
      BY <3>2, <3>3 DEF Later
  <2>6. CASE d # c
    BY <2>4, <2>6 DEF IInv, CopiedFirst, At, Later, Kept
  <2> QED
    BY <2>5, <2>6
<1> QED
  BY <1>1, <1>3, <1>4, <1>5 DEF IInv

\* flagged is what \Deleted makes of one copy.
flagged(x) == [x EXCEPT !.deleted = TRUE]

Flagged(c) ==
  /\ copies' = (copies \ Named(c)) \cup {flagged(x) : x \in Named(c)}
  /\ At(c, {"move"}, "copied")
  /\ \A x \in Named(c) : /\ flagged(x) \in Copies /\ flagged(x).uid = x.uid
                         /\ flagged(x).msg = x.msg /\ flagged(x).folder = x.folder
                         /\ flagged(x).deleted
  /\ UNCHANGED last /\ last \in Nat
  /\ call[c] \in InProgress
  /\ call' \in [Calls -> InProgress \cup {Free}]
  /\ \A d \in Calls : call'[d] = IF d = c THEN [call[c] EXCEPT !.at = "flagged"]
                                          ELSE call[d]

LEMMA FlagFacts ==
  ASSUME IInv, NEW c \in Calls, FlagDeleted(c)
  PROVE  Flagged(c)
<1>1. call \in [Calls -> InProgress \cup {Free}]
  BY DEF IInv, MailboxTypeOK
<1>2. At(c, {"move"}, "copied")
  BY DEF FlagDeleted
<1>3. call[c] \in InProgress
  BY <1>1, <1>2 DEF At, Free
<1>4. \A d \in Calls : call'[d] = IF d = c THEN [call[c] EXCEPT !.at = "flagged"] ELSE call[d]
  BY <1>1 DEF FlagDeleted
<1>5. \A x \in Named(c) : /\ flagged(x) \in Copies /\ flagged(x).uid = x.uid
                          /\ flagged(x).msg = x.msg /\ flagged(x).folder = x.folder
                          /\ flagged(x).deleted
  BY DEF flagged, Named, IInv, MailboxTypeOK, Copies
<1>6. copies' = (copies \ Named(c)) \cup {flagged(x) : x \in Named(c)}
  BY DEF FlagDeleted, flagged
<1>7. UNCHANGED last /\ last \in Nat
  BY DEF FlagDeleted, IInv, MailboxTypeOK
<1>8. [call[c] EXCEPT !.at = "flagged"] \in InProgress
  BY <1>3 DEF InProgress, Steps
<1>9. call' \in [Calls -> InProgress \cup {Free}]
  BY <1>1, <1>8 DEF FlagDeleted
<1> QED
  BY <1>2, <1>3, <1>4, <1>5, <1>6, <1>7, <1>9 DEF Flagged

\* A kept copy with a later one is left kept, or the later one is.
LEMMA FlagLeavesLater ==
  ASSUME IInv, NEW c \in Calls, FlagDeleted(c), NEW x \in copies, Later(x)
  PROVE  \E y \in copies' : y.msg = x.msg /\ ~ y.deleted /\ y.uid > x.uid
<1>a. Flagged(c)
  BY FlagFacts
<1> USE <1>a DEF Flagged
<1>1. PICK y \in Kept(x.msg) : y.uid > x.uid
  BY DEF Later
<1>2. CASE y \notin Named(c)
  BY <1>1, <1>2 DEF Kept
<1>3. CASE y \in Named(c)
  <2>1. PICK z \in Kept(y.msg) : z.uid > y.uid
    BY <1>1, <1>3 DEF IInv, CopiedFirst, Later, Kept
  <2>2. x.uid \in Nat /\ y.uid \in Nat /\ z.uid \in Nat /\ z # y
    BY <1>1, <2>1 DEF Kept, IInv, MailboxTypeOK, Copies
  <2>3. z \notin Named(c)
    BY <1>3, <2>2, NamedOnce
  <2> QED
    BY <1>1, <2>1, <2>2, <2>3 DEF Kept
<1> QED
  BY <1>2, <1>3

LEMMA FlagIInv ==
  ASSUME IInv, NEW c \in Calls, FlagDeleted(c)
  PROVE  IInv'
<1>a. Flagged(c)
  BY FlagFacts
<1> USE <1>a DEF Flagged
<1>1. MailboxTypeOK'
  BY DEF IInv, MailboxTypeOK
<1>2. UidsGiven'
  <2>1. \A x \in copies' : x.uid <= last'
    BY DEF IInv, UidsGiven, Named
  <2>2. \A x, y \in copies' : x.uid = y.uid => x = y
    BY NamedOnce DEF IInv, UidsGiven, Named
  <2>3. \A d \in Calls : call'[d].kind # "none" => call'[d].uid <= last'
    BY DEF IInv, UidsGiven, InProgress, At
  <2> QED
    BY <2>1, <2>2, <2>3 DEF UidsGiven
<1>3. NeverLost'
  <2> SUFFICES ASSUME NEW m \in Messages PROVE Kept(m)' # {}
    BY DEF NeverLost
  <2>1. PICK x \in Kept(m) : TRUE
    BY DEF IInv, NeverLost
  <2>2. CASE x \notin Named(c)
    BY <2>1, <2>2 DEF Kept
  <2>3. CASE x \in Named(c)
    <3>1. Later(x)
      BY <2>1, <2>3 DEF IInv, CopiedFirst, Kept
    <3> QED
      BY <2>1, <3>1, FlagLeavesLater DEF Kept
  <2> QED
    BY <2>2, <2>3
<1>4. CopiedFirst'
  <2> SUFFICES ASSUME NEW d \in Calls, At(d, {"move"}, "copied")',
                      NEW y \in Named(d)', ~ y.deleted
               PROVE  Later(y)'
    BY DEF CopiedFirst
  <2>1. d # c /\ call'[d] = call[d]
    BY DEF At, InProgress
  <2>2. y \in copies
    BY DEF Named
  <2>3. y \in Named(d) /\ At(d, {"move"}, "copied")
    BY <2>1, <2>2 DEF Named, At
  <2>4. Later(y)
    BY <2>3 DEF IInv, CopiedFirst
  <2> QED
    BY <2>2, <2>4, FlagLeavesLater DEF Later, Kept
<1> QED
  BY <1>1, <1>2, <1>3, <1>4 DEF IInv

-----------------------------------------------------------------------------
(* Every other step. *)

\* Steps in which call c goes on to r and the folders are left alone.
Advance(c, r) == UNCHANGED <<copies, last>> /\ call' = [call EXCEPT ![c] = r]

\* Every step copies, flags, tends the copies or only advances a call.
Minor(c) ==
  \/ \E kind \in CallKinds, m \in Messages, uid \in 0..last, from, to \in Names :
       Ask(c, kind, m, uid, from, to) /\ UNCHANGED <<copies, last>>
  \/ Reject(c) \/ Find(c) \/ Fail(c)
  \/ Release(c) /\ UNCHANGED <<copies, last>>
  \/ Copy(c) /\ call[c].folder = call[c].to

LEMMA StepIsOneOf ==
  ASSUME IInv, NEW c \in Calls, Minor(c)
  PROVE  \E r \in InProgress \cup {Free} :
           /\ Advance(c, r) /\ (r.kind # "none" => r.uid <= last)
           /\ r.kind # "move" \/ r.at # "copied"
<1> USE DEF Advance
<1>1. call \in [Calls -> InProgress \cup {Free}] /\ last \in Nat
  BY DEF IInv, MailboxTypeOK
<1>2. call[c].kind # "none" => call[c] \in InProgress /\ call[c].uid <= last
  BY <1>1 DEF Free, IInv, UidsGiven
<1>3. ASSUME NEW step \in {"done", "failed"}, call[c].kind # "none",
             UNCHANGED <<copies, last>>, call' = [call EXCEPT ![c].at = step]
      PROVE  \E r \in InProgress \cup {Free} :
               /\ Advance(c, r) /\ (r.kind # "none" => r.uid <= last)
               /\ r.kind # "move" \/ r.at # "copied"
  <2> DEFINE r == [call[c] EXCEPT !.at = step]
  <2>1. r \in InProgress /\ r.uid = call[c].uid /\ r.at = step
    BY <1>2, <1>3 DEF InProgress, Steps
  <2>2. call' = [call EXCEPT ![c] = r]
    BY <1>3
  <2> HIDE DEF r
  <2> QED
    BY <1>2, <1>3, <2>1, <2>2
<1>4. CASE \E kind \in CallKinds, m \in Messages, uid \in 0..last, from, to \in Names :
             Ask(c, kind, m, uid, from, to) /\ UNCHANGED <<copies, last>>
  <2>1. PICK kind \in CallKinds, m \in Messages, uid \in 0..last, from \in Names, to \in Names :
             Ask(c, kind, m, uid, from, to) /\ UNCHANGED <<copies, last>>
    BY <1>4
  <2> DEFINE r == [kind |-> kind, msg |-> m, uid |-> uid, folder |-> from, to |-> to,
                   at |-> "asked"]
  <2>2. r \in InProgress /\ r.uid <= last /\ r.at = "asked"
    BY <1>1 DEF InProgress, Steps
  <2>3. call' = [call EXCEPT ![c] = r]
    BY <2>1 DEF Ask
  <2> HIDE DEF r
  <2> QED
    BY <2>1, <2>2, <2>3
<1>5. CASE Reject(c)
  BY <1>3, <1>5 DEF Reject
<1>6. CASE Fail(c)
  BY <1>3, <1>6 DEF Fail
<1>7. CASE Copy(c) /\ call[c].folder = call[c].to
  <2>1. call[c].kind # "none"
    BY <1>7 DEF Copy, At
  <2>2. UNCHANGED <<copies, last>> /\ call' = [call EXCEPT ![c].at = "done"]
    BY <1>7 DEF Copy
  <2> QED
    BY <1>3, <2>1, <2>2
<1>8. CASE Release(c) /\ UNCHANGED <<copies, last>>
  <2>1. Advance(c, Free)
    BY <1>8 DEF Release
  <2>2. Free \in InProgress \cup {Free} /\ Free.kind = "none"
    BY DEF Free
  <2> QED
    BY <2>1, <2>2
<1>9. CASE Find(c)
  <2>1. call[c].kind = "undo" /\ call[c].at = "asked" /\ UNCHANGED <<copies, last>>
    BY <1>9 DEF Find, At
  <2>2. CASE call' = [call EXCEPT ![c].at = "failed"]
    BY <1>3, <2>1, <2>2
  <2>3. CASE ~ (call' = [call EXCEPT ![c].at = "failed"])
    <3>1. PICK x \in copies : call' = [call EXCEPT ![c].kind = "move", ![c].uid = x.uid]
      BY <1>9, <2>3 DEF Find
    <3>2. x.uid \in Nat /\ x.uid <= last
      BY DEF IInv, MailboxTypeOK, UidsGiven, Copies
    <3> DEFINE r == [call[c] EXCEPT !.kind = "move", !.uid = x.uid]
    <3>3. call' = [call EXCEPT ![c] = r]
      BY <3>1, <1>1
    <3>4. r \in InProgress /\ r.uid <= last /\ r.at = "asked"
      BY <1>2, <2>1, <3>2 DEF InProgress, CallKinds
    <3> HIDE DEF r
    <3> QED
      BY <2>1, <3>3, <3>4
  <2> QED
    BY <2>2, <2>3
<1> QED
  BY <1>4, <1>5, <1>6, <1>7, <1>8, <1>9 DEF Minor

\* A call that is not copying ends after it has expunged or marked.
LEMMA EndedCall ==
  ASSUME IInv, NEW c \in Calls, call[c].kind # "none",
         call' = [call EXCEPT ![c].at = "done"], UNCHANGED last
  PROVE  /\ call' \in [Calls -> InProgress \cup {Free}]
         /\ SameMoves
         /\ \A d \in Calls : call'[d].kind # "none" => call'[d].uid <= last'
<1>1. call \in [Calls -> InProgress \cup {Free}]
  BY DEF IInv, MailboxTypeOK
<1>2. call[c] \in InProgress
  BY <1>1 DEF Free
<1>3. [call[c] EXCEPT !.at = "done"] \in InProgress
  BY <1>2 DEF InProgress, Steps
<1>4. \A d \in Calls : call'[d] = IF d = c THEN [call[c] EXCEPT !.at = "done"] ELSE call[d]
  BY <1>1
<1>5. call' \in [Calls -> InProgress \cup {Free}]
  BY <1>1, <1>3
<1>6. SameMoves
  BY <1>2, <1>4 DEF SameMoves, At, InProgress
<1>7. \A d \in Calls : call'[d].kind # "none" => call'[d].uid <= last'
  BY <1>2, <1>4 DEF IInv, UidsGiven, InProgress
<1> QED
  BY <1>5, <1>6, <1>7

LEMMA ExpungeIInv ==
  ASSUME IInv, NEW c \in Calls, Expunge(c)
  PROVE  IInv' /\ Tended
<1>1. copies' \subseteq copies /\ \A x \in copies : ~ x.deleted => x \in copies'
  BY DEF Expunge
<1>2. call[c].kind # "none" /\ call' = [call EXCEPT ![c].at = "done"] /\ UNCHANGED last
  BY DEF Expunge, At
<1>3. Tended
  BY <1>1 DEF Tended
<1>4. MailboxTypeOK'
  BY <1>1, <1>2, EndedCall DEF IInv, MailboxTypeOK
<1>5. UidsGiven'
  BY <1>1, <1>2, EndedCall DEF IInv, UidsGiven
<1>6. SameMoves
  BY <1>2, EndedCall
<1> QED
  BY <1>3, <1>4, <1>5, <1>6, TendedIInv

LEMMA SetSeenIInv ==
  ASSUME IInv, NEW c \in Calls, SetSeen(c)
  PROVE  IInv' /\ Tended
<1> DEFINE mark(x) == [x EXCEPT !.seen = call[c].kind = "read"]
<1>1. copies' = (copies \ Named(c)) \cup {mark(x) : x \in Named(c)}
  BY DEF SetSeen
<1>2. \A x \in Named(c) : /\ mark(x) \in Copies /\ mark(x).uid = x.uid
                          /\ mark(x).msg = x.msg /\ mark(x).folder = x.folder
                          /\ mark(x).deleted = x.deleted
  <2>1. \A x \in Named(c) : x \in Copies
    BY DEF Named, IInv, MailboxTypeOK
  <2>2. (call[c].kind = "read") \in BOOLEAN
    OBVIOUS
  <2> QED
    BY <2>1, <2>2 DEF Copies
<1>3. call[c].kind # "none" /\ call' = [call EXCEPT ![c].at = "done"] /\ UNCHANGED last
  BY DEF SetSeen, At
<1> HIDE DEF mark
<1>4. Named(c) \subseteq copies
  BY DEF Named
<1>5. Tended
  BY <1>1, <1>2, <1>4 DEF Tended
<1>6. MailboxTypeOK'
  BY <1>1, <1>2, <1>3, EndedCall DEF IInv, MailboxTypeOK
<1>7. UidsGiven'
  <2>1. \A x \in copies' : x.uid <= last'
    BY <1>1, <1>2, <1>3, <1>4 DEF IInv, UidsGiven
  <2>2. \A x, y \in copies' : x.uid = y.uid => x = y
    BY <1>1, <1>2, <1>4, NamedOnce DEF IInv, UidsGiven
  <2> QED
    BY <1>3, <2>1, <2>2, EndedCall DEF UidsGiven
<1>8. SameMoves
  BY <1>3, EndedCall
<1> QED
  BY <1>5, <1>6, <1>7, <1>8, TendedIInv

\* A step of the mailboxes, sorted by what it does to the folders.
LEMMA StepIInv ==
  ASSUME IInv, [MailboxNext]_mailbox
  PROVE  /\ IInv'
         /\ \/ Tended
            \/ \E c \in Calls : Copy(c) /\ call[c].folder # call[c].to
            \/ \E c \in Calls : FlagDeleted(c)
<1>1. ASSUME NEW c \in Calls, Minor(c)
      PROVE  IInv' /\ Tended
  <2>1. PICK r \in InProgress \cup {Free} :
          /\ Advance(c, r) /\ (r.kind # "none" => r.uid <= last)
          /\ r.kind # "move" \/ r.at # "copied"
    BY <1>1, StepIsOneOf
  <2>2. UNCHANGED <<copies, last>> /\ call' = [call EXCEPT ![c] = r]
    BY <2>1 DEF Advance
  <2> QED
    BY <2>1, <2>2, ChangeIInv, UnchangedTended
<1>2. ASSUME NEW c \in Calls, Copy(c), call[c].folder # call[c].to
      PROVE  IInv'
  BY <1>2, CopyIInv
<1>3. ASSUME NEW c \in Calls, FlagDeleted(c) PROVE IInv'
  BY <1>3, FlagIInv
<1>4. ASSUME NEW c \in Calls, Expunge(c) \/ SetSeen(c) PROVE IInv' /\ Tended
  BY <1>4, ExpungeIInv, SetSeenIInv
<1>5. CASE UNCHANGED mailbox
  <2>1. UNCHANGED <<copies, last, call>>
    BY <1>5 DEF mailbox
  <2>2. MailboxTypeOK' /\ SameMoves
    BY <2>1 DEF IInv, MailboxTypeOK, SameMoves, At
  <2>3. \A c \in Calls : call'[c].kind # "none" => call'[c].uid <= last
    BY <2>1 DEF IInv, UidsGiven
  <2> QED
    BY <2>1, <2>2, <2>3, IdleIInv, UnchangedTended
<1>6. CASE MailboxNext
  <2> SUFFICES ASSUME NEW c \in Calls,
                      \/ Minor(c) \/ ServerStep(c)
               PROVE  /\ IInv'
                      /\ \/ Tended
                         \/ \E d \in Calls : Copy(d) /\ call[d].folder # call[d].to
                         \/ \E d \in Calls : FlagDeleted(d)
    BY <1>6 DEF MailboxNext, Minor
  <2>1. CASE Minor(c)
    BY <1>1, <2>1
  <2>2. CASE Reject(c) \/ Find(c)
    BY <1>1, <2>2 DEF Minor
  <2>3. CASE Copy(c)
    BY <1>1, <1>2, <2>3 DEF Minor
  <2>4. CASE FlagDeleted(c) \/ Expunge(c) \/ SetSeen(c)
    BY <1>3, <1>4, <2>4
  <2> QED
    BY <2>1, <2>2, <2>3, <2>4 DEF ServerStep
<1> QED
  BY <1>5, <1>6

\* The types of the mailboxes are kept.
THEOREM MailboxTypes == MailboxSpec => []MailboxTypeOK
<1>1. MailboxInit => IInv
  BY InitIInv
<1>2. IInv /\ [MailboxNext]_mailbox => IInv'
  BY StepIInv
<1>3. IInv => MailboxTypeOK
  BY DEF IInv
<1> QED
  BY <1>1, <1>2, <1>3, PTL DEF MailboxSpec

\* No message is lost, however many calls move it at the same time and wherever
\* they fail (mail_actions.py, move_email in the IMAP providers).
THEOREM NothingLost == MailboxSpec => []NeverLost
<1>1. MailboxInit => IInv
  BY InitIInv
<1>2. IInv /\ [MailboxNext]_mailbox => IInv'
  BY StepIInv
<1>3. IInv => NeverLost
  BY DEF IInv
<1> QED
  BY <1>1, <1>2, <1>3, PTL DEF MailboxSpec

-----------------------------------------------------------------------------
(* The mailboxes implement Custody. *)

\* Where a step changes the folders of one message by one folder, it is a step of
\* Custody.
LEMMA OneFolder ==
  ASSUME NEW m \in Messages, NEW f \in Names, keptIn'[m] # {},
         \A n \in Messages \ {m} : keptIn'[n] = keptIn[n],
         keptIn'[m] = keptIn[m] \cup {f} \/ keptIn'[m] = keptIn[m] \ {f}
  PROVE  [Promised!Next]_keptIn
<1>1. keptIn' = [keptIn EXCEPT ![m] = keptIn'[m]]
  BY DEF keptIn
<1>2. CASE keptIn'[m] = keptIn[m]
  BY <1>1, <1>2 DEF keptIn
<1>3. CASE f \notin keptIn[m] /\ keptIn'[m] = keptIn[m] \cup {f}
  <2>1. Promised!Arrive(m, f)
    BY <1>1, <1>3 DEF Promised!Arrive
  <2> QED
    BY <2>1 DEF Promised!Next, AllFolders
<1>4. CASE f \in keptIn[m] /\ keptIn'[m] = keptIn[m] \ {f}
  <2>1. Promised!Leave(m, f)
    BY <1>1, <1>4 DEF Promised!Leave
  <2> QED
    BY <2>1 DEF Promised!Next, AllFolders
<1> QED
  BY <1>2, <1>3, <1>4

LEMMA CustodyInit == ASSUME MailboxInit PROVE Promised!Init
<1>1. MailboxTypeOK /\ NeverLost
  BY InitIInv DEF IInv
<1>2. \A m \in Messages : {x.folder : x \in Kept(m)} \in (SUBSET Names) \ {{}}
  <2> TAKE m \in Messages
  <2>1. Kept(m) # {} /\ \A x \in Kept(m) : x.folder \in Names
    BY <1>1 DEF MailboxTypeOK, NeverLost, Kept, Copies
  <2>2. {x.folder : x \in Kept(m)} # {} /\ {x.folder : x \in Kept(m)} \subseteq Names
    BY <2>1
  <2> DEFINE F == {x.folder : x \in Kept(m)}
  <2>3. F # {} /\ F \subseteq Names
    BY <2>2
  <2> HIDE DEF F
  <2>4. F \in (SUBSET Names) \ {{}}
    BY <2>3
  <2> QED
    BY <2>4 DEF F
<1> QED
  BY <1>2 DEF Promised!Init, keptIn, AllFolders

LEMMA CustodyStep ==
  ASSUME IInv, [MailboxNext]_mailbox
  PROVE  [Promised!Next]_keptIn
<1>1. \A m \in Messages : keptIn'[m] # {}
  <2>1. \A m \in Messages : Kept(m)' # {}
    BY StepIInv DEF IInv, NeverLost
  <2> QED
    BY <2>1 DEF keptIn
<1>2. CASE Tended
  BY <1>2, TendedKeeps
<1>3. ASSUME NEW c \in Calls, Copy(c), call[c].folder # call[c].to
      PROVE  [Promised!Next]_keptIn
  <2>1. Copied(c)
    BY <1>3, CopyFacts
  <2>2. PICK m \in Messages, f \in Names : m = call[c].msg /\ f = call[c].to
    BY <2>1 DEF Copied, InProgress
  <2>3. CASE \E x \in Named(c) : ~ x.deleted
    <3>1. PICK x \in Named(c) : ~ x.deleted
      BY <2>3
    <3>2. Named(c) = {x}
      BY NamedOnce
    <3>3. PICK y : y = copyOf(x, c)
      OBVIOUS
    <3>4. copies' = copies \cup {y}
      BY <2>1, <3>2, <3>3 DEF Copied
    <3>5. y.folder = f /\ y.msg = m /\ ~ y.deleted
      BY <2>1, <2>2, <3>1, <3>3, CopyOfType DEF Copied
    <3>6. \A n \in Messages \ {m} : Kept(n)' = Kept(n)
      BY <3>4, <3>5 DEF Kept
    <3>7. Kept(m)' = Kept(m) \cup {y}
      BY <3>4, <3>5 DEF Kept
    <3>8. \A n \in Messages \ {m} : keptIn'[n] = keptIn[n]
      BY <3>6 DEF keptIn
    <3>9. keptIn'[m] = keptIn[m] \cup {f}
      BY <3>5, <3>7 DEF keptIn
    <3> QED
      BY <1>1, <3>8, <3>9, OneFolder
  <2>4. CASE \A x \in Named(c) : x.deleted
    <3>1. \A n \in Messages : Kept(n)' = Kept(n)
      BY <2>1, <2>4, CopyOfType DEF Copied, Kept
    <3> QED
      BY <3>1 DEF keptIn
  <2> QED
    BY <2>3, <2>4
<1>4. ASSUME NEW c \in Calls, FlagDeleted(c) PROVE [Promised!Next]_keptIn
  <2>1. Flagged(c)
    BY <1>4, FlagFacts
  <2>2. PICK m \in Messages, f \in Names : m = call[c].msg /\ f = call[c].folder
    BY <2>1 DEF Flagged, InProgress
  <2>3. \A x \in Named(c) : x \in copies /\ x.msg = m /\ x.folder = f
    BY <2>2 DEF Named
  <2>4. \A n \in Messages : Kept(n)' = Kept(n) \ Named(c)
    BY <2>1 DEF Flagged, Kept
  <2>5. \A n \in Messages \ {m} : Kept(n)' = Kept(n)
    BY <2>3, <2>4 DEF Kept
  <2>6. \A n \in Messages \ {m} : keptIn'[n] = keptIn[n]
    BY <2>5 DEF keptIn
  <2>7. PICK K : K = Kept(m)'
    OBVIOUS
  <2>8. K \subseteq Kept(m) /\ \A x \in Kept(m) \ K : x.folder = f
    BY <2>3, <2>4, <2>7
  <2>9. keptIn'[m] = keptIn[m] \/ keptIn'[m] = keptIn[m] \ {f}
    BY <2>7, <2>8 DEF keptIn
  <2> QED
    BY <1>1, <2>6, <2>9, OneFolder
<1> QED
  BY <1>2, <1>3, <1>4, StepIInv

\* Whatever calls and workers do, the mailboxes keep every message in a folder and
\* change by one folder of one message (Custody).
THEOREM CustodyKept == MailboxSpec => KeepsCustody
<1>1. MailboxInit => IInv /\ Promised!Init
  BY InitIInv, CustodyInit
<1>2. IInv /\ [MailboxNext]_mailbox => IInv' /\ [Promised!Next]_keptIn
  BY StepIInv, CustodyStep
<1> QED
  BY <1>1, <1>2, PTL DEF MailboxSpec, KeepsCustody, Promised!Spec

-----------------------------------------------------------------------------
(* What the page relies on: UIDs are not used again, and a move that was     *)
(* answered has taken its message out of the folder.                         *)

\* The copies of the next state are those of this one, and perhaps new ones.
CopiesGoOn ==
  \A y \in copies' : \/ y.uid > last
                     \/ \E x \in copies : /\ x.uid = y.uid /\ x.msg = y.msg
                                          /\ x.folder = y.folder
                                          /\ x.deleted => y.deleted

LEMMA StepCopies ==
  ASSUME IInv, [MailboxNext]_mailbox
  PROVE  CopiesGoOn /\ last \in Nat /\ last' \in Nat /\ last <= last'
<1>1. last \in Nat /\ last' \in Nat
  BY StepIInv DEF IInv, MailboxTypeOK
<1>2. CopiesGoOn
  <2>1. CASE Tended
    BY <2>1 DEF Tended, CopiesGoOn
  <2>2. ASSUME NEW c \in Calls, Copy(c), call[c].folder # call[c].to PROVE CopiesGoOn
    <3>1. Copied(c)
      BY <2>2, CopyFacts
    <3>2. \A x \in Named(c) : copyOf(x, c).uid = last + 1
      BY <3>1, CopyOfType DEF Copied
    <3>3. \A y \in copies' : y \in copies \/ y.uid = last + 1
      BY <3>1, <3>2 DEF Copied
    <3> QED
      BY <1>1, <3>3 DEF CopiesGoOn
  <2>3. ASSUME NEW c \in Calls, FlagDeleted(c) PROVE CopiesGoOn
    <3>1. Flagged(c)
      BY <2>3, FlagFacts
    <3> QED
      BY <3>1 DEF Flagged, CopiesGoOn, Named
  <2> QED
    BY <2>1, <2>2, <2>3, StepIInv
<1>3. last <= last'
  <2>1. CASE UNCHANGED last
    BY <1>1, <2>1
  <2>2. CASE last' = last + 1
    BY <1>1, <2>2
  <2> QED
    BY <2>1, <2>2 DEF MailboxNext, ServerStep, Reject, Find, Copy, FlagDeleted, Expunge,
                     SetSeen, Fail, mailbox
<1> QED
  BY <1>1, <1>2, <1>3

\* A call keeps what it was asked for.
SameCall(c) ==
  /\ call'[c].kind = call[c].kind /\ call'[c].msg = call[c].msg
  /\ call'[c].uid = call[c].uid /\ call'[c].folder = call[c].folder
  /\ call'[c].to = call[c].to

\* The server goes on with call c, or gives it up.
LEMMA ServerGoesOn ==
  ASSUME IInv, NEW c \in Calls, ServerStep(c) \/ Fail(c)
  PROVE  /\ call[c] \in InProgress /\ call'[c] \in InProgress
         /\ \A d \in Calls \ {c} : call'[d] = call[d]
         /\ \/ call[c].kind = "undo" /\ call'[c].at = "asked"
            \/ /\ SameCall(c)
               /\ call'[c].at = "flagged" => FlagDeleted(c)
               /\ \/ call'[c].at # "done" \/ call[c].kind # "move"
                  \/ call[c].folder = call[c].to \/ Expunge(c)
<1>1. call \in [Calls -> InProgress \cup {Free}]
  BY DEF IInv, MailboxTypeOK
<1>2. call[c].kind # "none"
  BY DEF ServerStep, Reject, Find, Copy, FlagDeleted, Expunge, SetSeen, Fail, At
<1>3. call[c] \in InProgress
  BY <1>1, <1>2 DEF Free
<1>4. ASSUME NEW s \in Steps, call' = [call EXCEPT ![c].at = s]
      PROVE  /\ call'[c] \in InProgress /\ SameCall(c) /\ call'[c].at = s
             /\ \A d \in Calls \ {c} : call'[d] = call[d]
  <2>1. call'[c] = [call[c] EXCEPT !.at = s]
    BY <1>1, <1>4
  <2>2. \A d \in Calls \ {c} : call'[d] = call[d]
    BY <1>1, <1>4
  <2> QED
    BY <1>3, <2>1, <2>2 DEF InProgress, SameCall
<1>5. CASE Reject(c) \/ Fail(c)
  <2>1. call' = [call EXCEPT ![c].at = "failed"] /\ "failed" \in Steps
    BY <1>5 DEF Reject, Fail, Steps
  <2> QED
    BY <1>3, <1>4, <2>1
<1>6. CASE Copy(c)
  <2>1. CASE call[c].folder = call[c].to
    <3>1. call' = [call EXCEPT ![c].at = "done"] /\ "done" \in Steps
      BY <1>6, <2>1 DEF Copy, Steps
    <3> QED
      BY <1>3, <1>4, <2>1, <3>1
  <2>2. CASE call[c].folder # call[c].to
    <3>1. call' = [call EXCEPT ![c].at = "copied"] /\ "copied" \in Steps
      BY <1>6, <2>2 DEF Copy, Steps
    <3> QED
      BY <1>3, <1>4, <3>1
  <2> QED
    BY <2>1, <2>2
<1>7. CASE FlagDeleted(c)
  <2>1. call' = [call EXCEPT ![c].at = "flagged"] /\ "flagged" \in Steps
    BY <1>7 DEF FlagDeleted, Steps
  <2> QED
    BY <1>3, <1>4, <1>7, <2>1
<1>8. CASE Expunge(c) \/ SetSeen(c)
  <2>1. call' = [call EXCEPT ![c].at = "done"] /\ "done" \in Steps
    BY <1>8 DEF Expunge, SetSeen, Steps
  <2>2. Expunge(c) \/ call[c].kind # "move"
    BY <1>8 DEF SetSeen, At
  <2> QED
    BY <1>3, <1>4, <2>1, <2>2
<1>9. CASE Find(c)
  <2>1. CASE call' = [call EXCEPT ![c].at = "failed"]
    <3>1. "failed" \in Steps
      BY DEF Steps
    <3> QED
      BY <1>3, <1>4, <2>1, <3>1
  <2>2. CASE ~ (call' = [call EXCEPT ![c].at = "failed"])
    <3>1. PICK x \in copies : call' = [call EXCEPT ![c].kind = "move", ![c].uid = x.uid]
      BY <1>9, <2>2 DEF Find
    <3>2. x.uid \in Nat
      BY DEF IInv, MailboxTypeOK, Copies
    <3>3. call'[c] = [call[c] EXCEPT !.kind = "move", !.uid = x.uid]
      BY <1>1, <3>1
    <3>4. \A d \in Calls \ {c} : call'[d] = call[d]
      BY <1>1, <3>1
    <3>5. call[c].kind = "undo" /\ call[c].at = "asked"
      BY <1>9 DEF Find, At
    <3>6. call'[c] \in InProgress /\ call'[c].at = "asked"
      BY <1>3, <3>2, <3>3, <3>5 DEF InProgress, CallKinds
    <3> QED
      BY <1>3, <3>4, <3>5, <3>6
  <2> QED
    BY <2>1, <2>2
<1> QED
  BY <1>5, <1>6, <1>7, <1>8, <1>9 DEF ServerStep

\* What a call is about to expunge is flagged, and what it has moved is gone.
MovedIsGone ==
  \A c \in Calls :
    /\ At(c, {"move"}, "flagged") => \A x \in Named(c) : x.deleted
    /\ At(c, {"move"}, "done") /\ call[c].folder # call[c].to => Named(c) = {}

MailInv == IInv /\ MovedIsGone

\* A call that is left as it is still names what it named, or less.
LEMMA NamedGoOn ==
  ASSUME IInv, [MailboxNext]_mailbox, NEW c \in Calls, call[c].kind # "none", SameCall(c)
  PROVE  \A y \in Named(c)' : \E x \in Named(c) : x.deleted => y.deleted
<1>1. call[c].uid <= last /\ call[c].uid \in Nat /\ last \in Nat
  BY DEF IInv, UidsGiven, MailboxTypeOK, InProgress, Free
<1>2. \A y \in copies' : y.uid \in Nat
  BY StepIInv DEF IInv, MailboxTypeOK, Copies
<1> SUFFICES ASSUME NEW y \in Named(c)' PROVE \E x \in Named(c) : x.deleted => y.deleted
  OBVIOUS
<1>3. /\ y \in copies' /\ y.uid = call[c].uid /\ y.msg = call[c].msg
      /\ y.folder = call[c].folder
  BY DEF Named, SameCall
<1>4. PICK x \in copies : /\ x.uid = y.uid /\ x.msg = y.msg /\ x.folder = y.folder
                          /\ x.deleted => y.deleted
  BY <1>1, <1>2, <1>3, StepCopies DEF CopiesGoOn
<1> QED
  BY <1>3, <1>4 DEF Named

LEMMA StepMailInv ==
  ASSUME MailInv, [MailboxNext]_mailbox
  PROVE  MailInv'
<1> USE DEF MailInv
<1>1. IInv'
  BY StepIInv
<1>2. ASSUME NEW d \in Calls, call[d].kind # "none", call'[d] = call[d]
      PROVE  /\ At(d, {"move"}, "flagged")' => \A x \in Named(d)' : x.deleted
             /\ At(d, {"move"}, "done")' /\ call'[d].folder # call'[d].to => Named(d)' = {}
  <2>1. \A y \in Named(d)' : \E x \in Named(d) : x.deleted => y.deleted
    BY <1>2, NamedGoOn DEF SameCall
  <2> QED
    BY <1>2, <2>1 DEF MovedIsGone, At
<1>3. ASSUME NEW d \in Calls, call'[d].kind = "none" \/ call'[d].at \notin {"flagged", "done"}
      PROVE  /\ At(d, {"move"}, "flagged")' => \A x \in Named(d)' : x.deleted
             /\ At(d, {"move"}, "done")' /\ call'[d].folder # call'[d].to => Named(d)' = {}
  BY <1>3 DEF At
<1>4. ASSUME NEW c \in Calls, ServerStep(c) \/ Fail(c)
      PROVE  MovedIsGone'
  <2>1. \A d \in Calls \ {c} : call'[d] = call[d]
    BY <1>4, ServerGoesOn
  <2>2. call[c] \in InProgress /\ call'[c] \in InProgress
    BY <1>4, ServerGoesOn
  <2>3. CASE FlagDeleted(c)
    <3>1. Flagged(c)
      BY <2>3, FlagFacts
    <3>2. call'[c] = [call[c] EXCEPT !.at = "flagged"]
      BY <3>1 DEF Flagged
    <3>3. call'[c].at = "flagged"/\ SameCall(c)
      BY <2>2, <3>2 DEF InProgress, SameCall
    <3>4. \A x \in Named(c)' : x.deleted
      BY <3>1, <3>3 DEF Flagged, Named, SameCall
    <3> QED
      BY <1>2, <1>3, <2>1, <3>3, <3>4 DEF MovedIsGone, At
  <2>4. CASE Expunge(c)
    <3>1. SameCall(c) /\ call'[c].at = "done"
      <4>1. call' = [call EXCEPT ![c].at = "done"]
        BY <2>4 DEF Expunge
      <4>2. call'[c] = [call[c] EXCEPT !.at = "done"]
        BY <4>1 DEF IInv, MailboxTypeOK
      <4> QED
        BY <2>2, <4>2 DEF InProgress, SameCall
    <3>2. \A x \in Named(c) : x.deleted
      BY <2>4 DEF Expunge, MovedIsGone
    <3>3. Named(c)' = {}
      BY <2>4, <3>1, <3>2 DEF Expunge, Named, SameCall
    <3> QED
      BY <1>2, <1>3, <2>1, <3>1, <3>3 DEF MovedIsGone, At
  <2>5. CASE ~ FlagDeleted(c) /\ ~ Expunge(c)
    <3>1. \/ call'[c].at = "asked"
          \/ /\ SameCall(c) /\ call'[c].at # "flagged"
             /\ \/ call'[c].at # "done" \/ call'[c].kind # "move"
                \/ call'[c].folder = call'[c].to
      BY <1>4, <2>5, ServerGoesOn DEF SameCall
    <3> QED
      BY <1>2, <1>3, <2>1, <3>1 DEF MovedIsGone, At
  <2> QED
    BY <2>3, <2>4, <2>5
<1>5. ASSUME NEW c \in Calls, \A d \in Calls \ {c} : call'[d] = call[d],
             call'[c].kind = "none" \/ call'[c].at = "asked"
      PROVE  MovedIsGone'
  BY <1>2, <1>3, <1>5 DEF MovedIsGone
<1>6. CASE UNCHANGED mailbox
  <2>1. \A d \in Calls : call'[d] = call[d]
    BY <1>6 DEF mailbox
  <2>2. MovedIsGone'
    BY <1>2, <1>3, <2>1 DEF MovedIsGone
  <2> QED
    BY <1>1, <2>2
<1>7. ASSUME NEW c \in Calls, Release(c) PROVE MovedIsGone'
  <2>1. call'[c] = Free /\ \A d \in Calls \ {c} : call'[d] = call[d]
    BY <1>7 DEF Release, IInv, MailboxTypeOK
  <2> QED
    BY <1>5, <2>1 DEF Free
<1>8. ASSUME NEW c \in Calls, NEW kind \in CallKinds, NEW m \in Messages, NEW uid \in 0..last,
             NEW from \in Names, NEW to \in Names, Ask(c, kind, m, uid, from, to)
      PROVE  MovedIsGone'
  <2>1. call'[c].at = "asked" /\ \A d \in Calls \ {c} : call'[d] = call[d]
    BY <1>8 DEF Ask, IInv, MailboxTypeOK
  <2> QED
    BY <1>5, <2>1
<1>9. CASE MailboxNext
  BY <1>1, <1>4, <1>7, <1>8, <1>9 DEF MailboxNext
<1> QED
  BY <1>1, <1>6, <1>9
-----------------------------------------------------------------------------
(* The types of the page and of its tasks. *)

USE PageAssumption

\* What the page points to was listed once: its UID was given.
Pointers == [msg : Messages, folder : Names, uid : 0..last]
Moves == [msg : Messages, uid : 0..last, from : Names, to : Names]
FolderChoices == Names \cup Roles \cup {"null"}
Views == [filter : Filters, folder : FolderChoices]

Pages ==
  [filter : Filters, folder : FolderChoices, rows : SUBSET Pointers, loading : BOOLEAN,
   metadata : Accounts \cup {"null"}, moveFolder : Names \cup {""},
   selected : Pointers \cup {None}, thread : Messages \cup {0}, opening : BOOLEAN,
   acting : BOOLEAN, undo : SUBSET Moves, menu : Pointers \cup {None}]

TaskKinds ==
  {"list", "folders", "ensure", "open", "menu", "prompt", "insight", "act", "drop", "undo"}
Stages == {"list", "start", "mark", "thread", "act", "refresh", "next", "move"}

Tasks ==
  [id : Nat, kind : TaskKinds, at : Stages, view : Views, account : Accounts \cup {"null"},
   ptr : Pointers \cup {None}, was : Pointers \cup {None},
   wants : SUBSET {"detail", "metadata"}, unread : BOOLEAN, to : Names \cup {""},
   queue : SUBSET Moves, done : SUBSET Moves, call : Calls \cup {0}]

\* A task waits for the answer of its call.
Holds(t) == t.at \in {"mark", "act", "move"}

\* A task has what it needs at the stage it is at.
Sound(t) ==
  /\ t \in Tasks
  /\ t.kind \in {"open", "menu", "prompt", "insight", "act"} => t.ptr \in Pointers
  /\ t.kind \in {"folders", "ensure", "prompt"} => t.account \in Accounts
  /\ t.at \in {"mark", "thread"} => t.kind = "open"
  /\ t.at \in {"act", "refresh"} => t.kind = "act"
  /\ t.at \in {"next", "move"} => t.kind \in {"drop", "undo"}
  /\ t.kind = "drop" => \A v \in t.queue : v.from # v.to
  /\ t.wants # {} => t.at = "start"

\* A copy that was moved away, and whose UID is not used again.
Gone(v) ==
  \A x \in copies : ~ (x.msg = v.msg /\ x.folder = v.from /\ x.uid = v.uid)

Exact(t) == \A v \in t.done : Gone(v)

\* A task that waits has a call; the one of a drop moves a message to another folder.
Waits(t) ==
  Holds(t) => /\ t.call \in Calls /\ call[t.call].kind # "none"
              /\ t.kind = "drop" => /\ call[t.call].kind = "move"
                                    /\ call[t.call].folder # call[t.call].to

PageInv ==
  /\ commands \in Nat
  /\ page \in Pages
  /\ \A v \in page.undo : Gone(v)
  /\ \A t \in tasks : Sound(t) /\ Exact(t) /\ Waits(t)
  /\ \A t, u \in tasks : Holds(t) /\ Holds(u) /\ t.call = u.call => t = u

WorkspaceInv == MailInv /\ PageInv

-----------------------------------------------------------------------------
(* The kinds of step. *)

\* What a task may become that does not wait.
Ready(u) == Sound(u) /\ Exact(u) /\ ~ Holds(u)

\* The page goes on to a state of its type, in which undo offers what is gone.
PageGoesOn ==
  /\ commands' \in Nat
  /\ page' \in Pages /\ \A v \in page'.undo : Gone(v)

\* A step of the page alone.
Local ==
  /\ UNCHANGED mailbox
  /\ PageGoesOn
  /\ \A u \in tasks' : u \in tasks \/ Ready(u)

\* The page, a worker or nobody in particular starts a call.
Asking(c, kind, m, uid, from, to) ==
  /\ c \in Calls /\ kind \in CallKinds /\ m \in Messages /\ uid \in 0..last
  /\ from \in Names /\ to \in Names
  /\ Ask(c, kind, m, uid, from, to)
  /\ UNCHANGED <<copies, last>>
  /\ PageGoesOn
  /\ \E w : /\ \A u \in tasks' : u \in tasks \/ u = w
            /\ Sound(w) /\ Exact(w) /\ Holds(w) /\ w.call = c
            /\ w.kind = "drop" => kind = "move" /\ from # to

\* A task has its answer, or has lost it.
Settling(t) ==
  /\ t \in tasks /\ Holds(t)
  /\ UNCHANGED <<copies, last>>
  /\ Release(t.call) \/ UNCHANGED call
  /\ PageGoesOn
  /\ \A u \in tasks' : (u \in tasks /\ u # t) \/ Ready(u)

\* The server, or a worker, goes on by itself.
Serving(c) ==
  /\ c \in Calls
  /\ UNCHANGED <<page, tasks, commands>>
  /\ \/ ServerStep(c) \/ Fail(c)
     \/ UNCHANGED <<copies, last>> /\ Release(c) /\ \A t \in tasks : t.call # c
     \/ \E kind \in CallKinds, m \in Messages, uid \in 0..last, from, to \in Names :
          Ask(c, kind, m, uid, from, to) /\ UNCHANGED <<copies, last>>

\* What is known of pointers, moves and tasks stays true when the mailbox goes on.
LEMMA TypesGrow ==
  ASSUME last \in Nat, last' \in Nat, last <= last'
  PROVE  /\ Pages \subseteq Pages'
         /\ Moves \subseteq Moves'
         /\ \A t : Sound(t) => Sound(t)'
<1>1. 0..last \subseteq 0..last'
  OBVIOUS
<1>2. Pointers \subseteq Pointers' /\ Moves \subseteq Moves'
  BY <1>1 DEF Pointers, Moves
<1>3. Pages \subseteq Pages'
  BY <1>2 DEF Pages
<1>4. Tasks \subseteq Tasks'
  BY <1>2 DEF Tasks
<1>5. \A t : Sound(t) => Sound(t)'
  BY <1>2, <1>4 DEF Sound
<1> QED
  BY <1>2, <1>3, <1>5

LEMMA GoneStays ==
  ASSUME IInv, [MailboxNext]_mailbox, NEW v \in Moves, Gone(v)
  PROVE  Gone(v)'
<1>1. last \in Nat /\ v.uid \in 0..last
  BY DEF IInv, MailboxTypeOK, Moves
<1>2. \A y \in copies' : y.uid \in Nat
  BY StepIInv DEF IInv, MailboxTypeOK, Copies
<1> QED
  BY <1>1, <1>2, StepCopies DEF CopiesGoOn, Gone

LEMMA PageStays ==
  ASSUME WorkspaceInv, [MailboxNext]_mailbox, PageGoesOn
  PROVE  /\ commands' \in Nat /\ page' \in Pages' /\ \A v \in page'.undo : Gone(v)'
         /\ \A u : Sound(u) /\ Exact(u) => Sound(u)' /\ Exact(u)'
<1>1. IInv /\ last \in Nat /\ last' \in Nat /\ last <= last'
  BY StepCopies DEF WorkspaceInv, MailInv
<1>2. page' \in Pages' /\ \A u : Sound(u) => Sound(u)'
  BY <1>1, TypesGrow DEF PageGoesOn
<1>3. page'.undo \subseteq Moves
  BY DEF PageGoesOn, Pages
<1>4. \A v \in page'.undo : Gone(v)'
  BY <1>1, <1>3, GoneStays DEF PageGoesOn
<1>5. \A u : Sound(u) /\ Exact(u) => Exact(u)'
  BY <1>1, GoneStays DEF Exact, Sound, Tasks
<1> QED
  BY <1>2, <1>4, <1>5 DEF PageGoesOn

\* A task goes on waiting for a call that is not released.
LEMMA WaitsStay ==
  ASSUME WorkspaceInv, NEW t \in tasks, NEW c \in Calls,
         \A d \in Calls \ {c} : call'[d] = call[d],
         \/ t.call # c
         \/ /\ call'[c].kind # "none"
            /\ call[c].kind = "move" => SameCall(c)
  PROVE  Waits(t)'
<1>1. Waits(t)
  BY DEF WorkspaceInv, PageInv
<1> QED
  BY <1>1 DEF Waits, Holds, SameCall
LEMMA PageInvAfter ==
  ASSUME WorkspaceInv, [MailboxNext]_mailbox, PageGoesOn,
         \A u \in tasks' : Sound(u) /\ Exact(u) /\ Waits(u)',
         \A t, u \in tasks' : Holds(t) /\ Holds(u) /\ t.call = u.call => t = u
  PROVE  WorkspaceInv'
<1>1. MailInv'
  BY StepMailInv DEF WorkspaceInv
<1>2. PageInv'
  <2>1. \A t, u \in tasks' : Holds(t)' /\ Holds(u)' /\ t.call = u.call => t = u
    BY DEF Holds
  <2> QED
    BY <2>1, PageStays DEF PageInv
<1> QED
  BY <1>1, <1>2 DEF WorkspaceInv

LEMMA LocalStep ==
  ASSUME WorkspaceInv, Local
  PROVE  [MailboxNext]_mailbox /\ WorkspaceInv'
<1>1. UNCHANGED call /\ [MailboxNext]_mailbox
  BY DEF Local, mailbox
<1>2. ASSUME NEW u \in tasks' PROVE Sound(u) /\ Exact(u) /\ Waits(u)'
  <2>1. CASE u \in tasks
    BY <1>1, <2>1 DEF WorkspaceInv, PageInv, Waits, Holds
  <2>2. CASE Ready(u)
    BY <2>2 DEF Ready, Waits, Holds
  <2> QED
    BY <2>1, <2>2 DEF Local
<1>3. \A t, u \in tasks' : Holds(t) /\ Holds(u) /\ t.call = u.call => t = u
  BY DEF Local, Ready, WorkspaceInv, PageInv
<1> QED
  BY <1>1, <1>2, <1>3, PageInvAfter DEF Local

LEMMA AskFacts ==
  ASSUME IInv, NEW c \in Calls, NEW kind \in CallKinds, NEW m, NEW uid, NEW from, NEW to,
         Ask(c, kind, m, uid, from, to)
  PROVE  /\ call[c].kind = "none"
         /\ call'[c].kind = kind /\ call'[c].folder = from /\ call'[c].to = to
         /\ \A d \in Calls \ {c} : call'[d] = call[d]
BY DEF Ask, Free, IInv, MailboxTypeOK

LEMMA AskingStep ==
  ASSUME WorkspaceInv, NEW c, NEW kind, NEW m, NEW uid, NEW from, NEW to,
         Asking(c, kind, m, uid, from, to)
  PROVE  [MailboxNext]_mailbox /\ WorkspaceInv'
<1>1. /\ c \in Calls /\ kind \in CallKinds /\ m \in Messages /\ uid \in 0..last
      /\ from \in Names /\ to \in Names /\ Ask(c, kind, m, uid, from, to)
      /\ UNCHANGED <<copies, last>>
  BY DEF Asking
<1>2. [MailboxNext]_mailbox
  BY <1>1 DEF MailboxNext
<1>3. /\ call[c].kind = "none" /\ call'[c].kind = kind /\ kind # "none"
      /\ call'[c].folder = from /\ call'[c].to = to
      /\ \A d \in Calls \ {c} : call'[d] = call[d]
  BY <1>1, AskFacts DEF WorkspaceInv, MailInv, CallKinds
<1>4. PICK w : /\ \A u \in tasks' : u \in tasks \/ u = w
               /\ Sound(w) /\ Exact(w) /\ Holds(w) /\ w.call = c
               /\ w.kind = "drop" => kind = "move" /\ from # to
  BY DEF Asking
<1>5. \A u \in tasks : Holds(u) => u.call # c
  BY <1>3 DEF WorkspaceInv, PageInv, Waits
<1>6. ASSUME NEW u \in tasks' PROVE Sound(u) /\ Exact(u) /\ Waits(u)'
  <2>1. CASE u \in tasks
    <3>1. Waits(u)'
      BY <1>3, <1>5, <2>1 DEF WorkspaceInv, PageInv, Waits, Holds
    <3> QED
      BY <2>1, <3>1 DEF WorkspaceInv, PageInv
  <2>2. CASE u = w
    BY <1>1, <1>3, <1>4, <2>2 DEF Waits
  <2> QED
    BY <1>4, <2>1, <2>2
<1>7. \A t, u \in tasks' : Holds(t) /\ Holds(u) /\ t.call = u.call => t = u
  BY <1>4, <1>5 DEF WorkspaceInv, PageInv
<1> QED
  BY <1>2, <1>6, <1>7, PageInvAfter DEF Asking

LEMMA SettlingStep ==
  ASSUME WorkspaceInv, NEW t, Settling(t)
  PROVE  [MailboxNext]_mailbox /\ WorkspaceInv'
<1>1. t \in tasks /\ Holds(t) /\ t.call \in Calls
  BY DEF Settling, WorkspaceInv, PageInv, Waits
<1>2. [MailboxNext]_mailbox
  BY <1>1 DEF Settling, MailboxNext, mailbox
<1>3. \A d \in Calls \ {t.call} : call'[d] = call[d]
  BY <1>1 DEF Settling, Release, WorkspaceInv, MailInv, IInv, MailboxTypeOK
<1>4. ASSUME NEW u \in tasks' PROVE Sound(u) /\ Exact(u) /\ Waits(u)'
  <2>1. CASE u \in tasks /\ u # t
    <3>1. Holds(u) => u.call # t.call
      BY <1>1, <2>1 DEF WorkspaceInv, PageInv
    <3>2. Waits(u)'
      BY <1>3, <2>1, <3>1 DEF WorkspaceInv, PageInv, Waits, Holds
    <3> QED
      BY <2>1, <3>2 DEF WorkspaceInv, PageInv
  <2>2. CASE Ready(u)
    BY <2>2 DEF Ready, Waits, Holds
  <2> QED
    BY <2>1, <2>2 DEF Settling
<1>5. \A u, w \in tasks' : Holds(u) /\ Holds(w) /\ u.call = w.call => u = w
  BY DEF Settling, Ready, WorkspaceInv, PageInv
<1> QED
  BY <1>2, <1>4, <1>5, PageInvAfter DEF Settling

LEMMA ServingStep ==
  ASSUME WorkspaceInv, NEW c, Serving(c)
  PROVE  [MailboxNext]_mailbox /\ WorkspaceInv'
<1> USE DEF WorkspaceInv, MailInv
<1>1. c \in Calls /\ UNCHANGED <<page, tasks, commands>>
  BY DEF Serving
<1>2. [MailboxNext]_mailbox
  BY <1>1 DEF Serving, MailboxNext
<1>3. PageGoesOn
  BY <1>1 DEF PageGoesOn, PageInv
<1>4. ASSUME NEW t \in tasks PROVE Waits(t)'
  <2>1. CASE ServerStep(c) \/ Fail(c)
    <3>1. /\ call'[c].kind # "none" /\ \A d \in Calls \ {c} : call'[d] = call[d]
          /\ call[c].kind = "move" => SameCall(c)
      BY <1>1, <2>1, ServerGoesOn DEF InProgress, CallKinds
    <3> QED
      BY <1>1, <3>1, WaitsStay
  <2>2. CASE Release(c) /\ t.call # c
    <3>1. \A d \in Calls \ {c} : call'[d] = call[d]
      BY <2>2 DEF Release, IInv, MailboxTypeOK
    <3> QED
      BY <1>1, <2>2, <3>1, WaitsStay
  <2>3. ASSUME NEW kind \in CallKinds, NEW m \in Messages, NEW uid \in 0..last,
               NEW from \in Names, NEW to \in Names, Ask(c, kind, m, uid, from, to)
        PROVE  Waits(t)'
    <3>1. /\ call[c].kind = "none" /\ call'[c].kind = kind /\ kind # "none"
          /\ \A d \in Calls \ {c} : call'[d] = call[d]
      BY <1>1, <2>3, AskFacts DEF CallKinds
    <3> QED
      BY <1>1, <3>1, WaitsStay
  <2> QED
    BY <2>1, <2>2, <2>3 DEF Serving
<1>5. \A u \in tasks' : Sound(u) /\ Exact(u) /\ Waits(u)'
  BY <1>1, <1>4 DEF PageInv
<1>6. \A t, u \in tasks' : Holds(t) /\ Holds(u) /\ t.call = u.call => t = u
  BY <1>1 DEF PageInv
<1> QED
  BY <1>2, <1>3, <1>5, <1>6, PageInvAfter
-----------------------------------------------------------------------------
(* Tasks that are started. *)

LEMMA ViewType == ASSUME page \in Pages PROVE View \in Views
BY DEF View, Views, Pages

LEMMA PointerAccount == ASSUME NEW q \in Pointers PROVE AccountOf(q) \in Accounts
BY MailboxAssumption DEF Pointers, AccountOf

LEMMA FreshTask ==
  ASSUME NEW n \in Nat, NEW kind \in TaskKinds, NEW at \in Stages
  PROVE  /\ Task(n, kind, at) \in Tasks
         /\ Task(n, kind, at).kind = kind /\ Task(n, kind, at).at = at
         /\ Task(n, kind, at).wants = {} /\ Task(n, kind, at).done = {}
         /\ Task(n, kind, at).queue = {}
BY DEF Task, Tasks, None, NoView, Views, Filters, FolderChoices

LEMMA ListingReady ==
  ASSUME NEW n \in Nat, NEW view \in Views
  PROVE  Ready(Listing(n, view))
<1>1. PICK t \in Tasks : t = Task(n, "list", "list")
  BY FreshTask DEF TaskKinds, Stages
<1>2. t.kind = "list" /\ t.at = "list" /\ t.wants = {} /\ t.done = {}
  BY <1>1, FreshTask DEF TaskKinds, Stages
<1>3. PICK u : u = [t EXCEPT !.view = view]
  OBVIOUS
<1>4. u \in Tasks /\ u.kind = "list" /\ u.at = "list" /\ u.wants = {} /\ u.done = {}
  BY <1>2, <1>3 DEF Tasks
<1> QED
  BY <1>1, <1>3, <1>4 DEF Listing, Ready, Sound, Exact, Holds

LEMMA FolderTaskReady ==
  ASSUME NEW n \in Nat, NEW a \in Accounts
  PROVE  Ready(FolderTask(n, a))
<1>1. PICK t \in Tasks : t = Task(n, "folders", "start")
  BY FreshTask DEF TaskKinds, Stages
<1>2. t.kind = "folders" /\ t.at = "start" /\ t.done = {}
  BY <1>1, FreshTask DEF TaskKinds, Stages
<1>3. PICK u : u = [t EXCEPT !.account = a]
  OBVIOUS
<1>4. u \in Tasks /\ u.kind = "folders" /\ u.at = "start" /\ u.account = a /\ u.done = {}
  BY <1>2, <1>3 DEF Tasks
<1> QED
  BY <1>1, <1>3, <1>4 DEF FolderTask, Ready, Sound, Exact, Holds

LEMMA EnsuringReady ==
  ASSUME NEW n \in Nat, NEW a \in Accounts, NEW u \in Ensuring(n, a)
  PROVE  Ready(u)
<1>1. PICK t \in Tasks : t = Task(n, "ensure", "start")
  BY FreshTask DEF TaskKinds, Stages
<1>2. t.kind = "ensure" /\ t.at = "start" /\ t.done = {}
  BY <1>1, FreshTask DEF TaskKinds, Stages
<1>3. u = [t EXCEPT !.account = a]
  BY <1>1 DEF Ensuring
<1>4. u \in Tasks /\ u.kind = "ensure" /\ u.at = "start" /\ u.account = a /\ u.done = {}
  BY <1>2, <1>3 DEF Tasks
<1> QED
  BY <1>4 DEF Ready, Sound, Exact, Holds

LEMMA WaitingReady ==
  ASSUME page \in Pages, NEW n \in Nat, NEW kind \in {"open", "menu", "prompt"},
         NEW q \in Pointers, NEW wants \in SUBSET {"detail", "metadata"},
         NEW t, t = Waiting(n, kind, q, wants)
  PROVE  Ready(t) /\ t.kind = kind /\ t.at = "start"
<1>1. PICK f \in Tasks : f = Task(n, kind, "start")
  BY FreshTask DEF TaskKinds, Stages
<1>2. f.kind = kind /\ f.at = "start" /\ f.done = {}
  BY <1>1, FreshTask DEF TaskKinds, Stages
<1>3. PICK a \in Accounts :
        a = IF Cached(AccountOf(q)) THEN page.metadata ELSE AccountOf(q)
  BY PointerAccount DEF Cached, Pages
<1>4. PICK w \in SUBSET {"detail", "metadata"} :
        w = wants \cup (IF Cached(AccountOf(q)) THEN {} ELSE {"metadata"})
  OBVIOUS
<1>5. t = [f EXCEPT !.ptr = q, !.account = a, !.wants = w]
  BY <1>1, <1>3, <1>4 DEF Waiting
<1>6. q \in Pointers \cup {None} /\ a \in Accounts \cup {"null"}
  OBVIOUS
<1>7. t \in Tasks
  BY <1>5, <1>6 DEF Tasks
<1>8. /\ t.kind = kind /\ t.at = "start" /\ t.account = a /\ t.ptr = q /\ t.done = {}
  BY <1>2, <1>5 DEF Tasks
<1> QED
  BY <1>7, <1>8 DEF Ready, Sound, Exact, Holds

\* An action, drop or undo, as it is started.
LEMMA ActingFacts ==
  ASSUME page \in Pages, NEW n \in Nat, NEW kind \in {"act", "drop", "undo"},
         NEW at \in Stages, NEW t, t = Acting(n, kind, at)
  PROVE  t \in Tasks /\ t.kind = kind /\ t.at = at /\ t.wants = {} /\ t.done = {}
<1>1. PICK f \in Tasks : f = Task(n, kind, at)
  BY FreshTask DEF TaskKinds
<1>2. f.kind = kind /\ f.at = at /\ f.done = {} /\ f.wants = {}
  BY <1>1, FreshTask DEF TaskKinds
<1>3. t = [f EXCEPT !.view = View, !.was = page.selected]
  BY <1>1 DEF Acting
<1>4. page.selected \in Pointers \cup {None}
  BY DEF Pages
<1> QED
  BY <1>2, <1>3, <1>4, ViewType DEF Tasks

-----------------------------------------------------------------------------
(* At first. *)

LEMMA WorkspaceInit == ASSUME Init PROVE WorkspaceInv
<1>1. IInv
  BY InitIInv DEF Init
<1>2. \A c \in Calls : call[c].kind = "none"
  BY DEF Init, MailboxInit, Free
<1>3. MailInv
  BY <1>1, <1>2 DEF MailInv, MovedIsGone, At
<1>4. page \in Pages /\ page.undo = {}
  BY DEF Init, Pages, FolderChoices
<1>5. ASSUME NEW q \in Linked PROVE q \in Pointers
  <2>1. PICK m \in Links : q = [msg |-> m, folder |-> Arrived[m], uid |-> m]
    BY <1>5 DEF Linked
  <2>2. m \in Messages /\ Arrived[m] \in Names
    BY MailboxAssumption
  <2>3. last = NumMessages /\ NumMessages \in Nat
    BY MailboxAssumption DEF Init, MailboxInit
  <2>4. m \in 0..last
    BY <2>2, <2>3 DEF Messages
  <2> QED
    BY <2>1, <2>2, <2>4 DEF Pointers
<1>6. ASSUME NEW t \in tasks PROVE Ready(t)
  <2>1. CASE t = Listing(0, View)
    BY <1>4, <2>1, ViewType, ListingReady
  <2>2. CASE page.filter # "all" /\ t = FolderTask(0, page.filter)
    BY <1>4, <2>2, FolderTaskReady DEF Pages, Filters
  <2>3. ASSUME NEW q \in Linked, t = Waiting(0, "open", q, {"detail"}) PROVE Ready(t)
    BY <1>4, <1>5, <2>3, WaitingReady
  <2>4. ASSUME NEW q \in Linked, t \in Ensuring(0, AccountOf(q)) PROVE Ready(t)
    BY <1>5, <2>4, PointerAccount, EnsuringReady
  <2> QED
    BY <2>1, <2>2, <2>3, <2>4 DEF Init
<1>7. PageInv
  BY <1>4, <1>6 DEF PageInv, Ready, Waits, Init
<1> QED
  BY <1>3, <1>7 DEF WorkspaceInv
-----------------------------------------------------------------------------
(* What the user does. *)

LEMMA ReloadReady ==
  ASSUME page \in Pages, NEW n \in Nat, NEW p \in Pages
  PROVE  /\ Reloading(p) \in Pages /\ Reloading(p).undo = p.undo
         /\ \A u \in ReloadTasks(n, p) : Ready(u)
<1>1. Reloading(p) \in Pages /\ Reloading(p).undo = p.undo
  BY DEF Reloading, Pages
<1>2. PICK view \in Views : view = [filter |-> p.filter, folder |-> p.folder]
  BY DEF Views, Pages
<1>3. Ready(Listing(n, view))
  BY <1>2, ListingReady
<1> QED
  BY <1>1, <1>2, <1>3 DEF ReloadTasks

LEMMA CommandFacts ==
  ASSUME WorkspaceInv, Command PROVE commands' \in Nat
BY DEF WorkspaceInv, PageInv, Command

\* A step of the page that leaves what undo offers, or part of it.
LEMMA LocalOf ==
  ASSUME WorkspaceInv, UNCHANGED mailbox, commands' \in Nat,
         page' \in Pages, page'.undo \subseteq page.undo,
         \A u \in tasks' : u \in tasks \/ Ready(u)
  PROVE  Local
BY DEF Local, PageGoesOn, WorkspaceInv, PageInv

LEMMA PageTyped == ASSUME WorkspaceInv PROVE page \in Pages /\ commands \in Nat
BY DEF WorkspaceInv, PageInv

LEMMA ChangeAccountLocal ==
  ASSUME WorkspaceInv, NEW a \in Filters, ChangeAccount(a)
  PROVE  Local
<1>1. commands' \in Nat /\ page \in Pages
  BY CommandFacts, PageTyped DEF ChangeAccount
<1> DEFINE f == IF a = "all" THEN "role inbox" ELSE "null"
           cleared == [page EXCEPT !.filter = a, !.selected = None, !.thread = 0,
                                   !.folder = IF a = "all" THEN "role inbox" ELSE "null"]
           p == IF a = "all" /\ page.filter # "all"
                  THEN [cleared EXCEPT !.metadata = "null", !.moveFolder = ""]
                  ELSE cleared
<1>2. f \in FolderChoices
  BY DEF FolderChoices, Roles
<1>3. cleared \in Pages /\ cleared.undo = page.undo
  BY <1>1, <1>2 DEF Pages
<1>4. p \in Pages /\ p.undo = page.undo
  <2> HIDE DEF cleared
  <2> QED
    BY <1>3 DEF Pages
<1>5. /\ page' = Reloading(p)
      /\ tasks' = tasks \cup ReloadTasks(commands', p) \cup
             (IF a \in {"all", page.filter} THEN {} ELSE {FolderTask(commands', a)})
      /\ UNCHANGED mailbox
  BY DEF ChangeAccount
<1> HIDE DEF p
<1>6. page' \in Pages /\ page'.undo = page.undo
  BY <1>1, <1>4, <1>5, ReloadReady
<1>7. \A u \in ReloadTasks(commands', p) : Ready(u)
  BY <1>1, <1>4, ReloadReady
<1>8. a # "all" => Ready(FolderTask(commands', a))
  BY <1>1, FolderTaskReady DEF Filters
<1> QED
  BY <1>1, <1>5, <1>6, <1>7, <1>8, LocalOf

LEMMA ChooseFolderLocal ==
  ASSUME WorkspaceInv, NEW f \in Names \cup Roles, ChooseFolder(f)
  PROVE  Local
<1>1. commands' \in Nat /\ page \in Pages
  BY CommandFacts, PageTyped DEF ChooseFolder
<1>2. PICK p : p = [page EXCEPT !.folder = f]
  OBVIOUS
<1>3. p \in Pages /\ p.undo = page.undo
  BY <1>1, <1>2 DEF Pages, FolderChoices
<1>4. /\ page' = Reloading(p) /\ tasks' = tasks \cup ReloadTasks(commands', p)
      /\ UNCHANGED mailbox
  BY <1>2 DEF ChooseFolder
<1> QED
  BY <1>1, <1>3, <1>4, ReloadReady, LocalOf

LEMMA RefreshLocal ==
  ASSUME WorkspaceInv, Refresh PROVE Local
<1>1. commands' \in Nat /\ page \in Pages
  BY CommandFacts, PageTyped DEF Refresh
<1>2. page' \in Pages /\ page'.undo = page.undo
  BY <1>1 DEF Refresh, Pages
<1>3. Ready(Listing(commands', View))
  BY <1>1, ViewType, ListingReady
<1> QED
  BY <1>1, <1>2, <1>3, LocalOf DEF Refresh

\* The rows and messages that are shown can be pointed to.
LEMMA ShownPointers ==
  ASSUME page \in Pages
  PROVE  /\ ShownRows \subseteq Pointers /\ Shown \subseteq Pointers
         /\ ({page.selected, page.menu} \ {None}) \subseteq Pointers
BY DEF ShownRows, Shown, Pages

LEMMA OpenMessageLocal ==
  ASSUME WorkspaceInv, NEW q, OpenMessage(q) PROVE Local
<1>1. commands' \in Nat /\ page \in Pages /\ q \in Pointers
  BY CommandFacts, PageTyped, ShownPointers DEF OpenMessage
<1>2. page' \in Pages /\ page'.undo = page.undo
  BY <1>1 DEF OpenMessage, Pages
<1>3. Ready(Waiting(commands', "open", q, {"detail"}))
  BY <1>1, WaitingReady
<1>4. \A u \in Ensuring(commands', AccountOf(q)) : Ready(u)
  BY <1>1, EnsuringReady, PointerAccount
<1> QED
  BY <1>1, <1>2, <1>3, <1>4, LocalOf DEF OpenMessage

LEMMA OpenMenuLocal ==
  ASSUME WorkspaceInv, NEW q, OpenMenu(q) PROVE Local
<1>1. commands' \in Nat /\ page \in Pages /\ q \in Pointers
  BY CommandFacts, PageTyped, ShownPointers DEF OpenMenu
<1>3. Ready(Waiting(commands', "menu", q, {}))
  BY <1>1, WaitingReady
<1>4. \A u \in Ensuring(commands', AccountOf(q)) : Ready(u)
  BY <1>1, EnsuringReady, PointerAccount
<1> QED
  BY <1>1, <1>3, <1>4, LocalOf DEF OpenMenu

LEMMA DropLocal ==
  ASSUME WorkspaceInv, NEW Q, NEW f \in Names, Drop(Q, f) PROVE Local
<1>1. commands' \in Nat /\ page \in Pages /\ Q \subseteq Pointers
  BY CommandFacts, PageTyped, ShownPointers DEF Drop
<1>2. page' \in Pages /\ page'.undo = page.undo
  BY <1>1 DEF Drop, Pages
<1> DEFINE candidates == {q \in Q : AccountOf(q) = page.filter /\ q.folder # f}
<1>3. PICK queue : queue = {MoveOf(q, f) : q \in candidates}
  OBVIOUS
<1>4. \A v \in queue : v \in Moves /\ v.from # v.to
  BY <1>1, <1>3 DEF MoveOf, Moves, Pointers
<1>5. PICK t : t = Acting(commands', "drop", "next")
  OBVIOUS
<1>6. t \in Tasks /\ t.kind = "drop" /\ t.at = "next" /\ t.wants = {} /\ t.done = {}
  BY <1>1, <1>5, ActingFacts DEF Stages
<1>7. PICK u : u = [t EXCEPT !.was = None, !.queue = queue]
  OBVIOUS
<1>8. u \in Tasks
  BY <1>4, <1>6, <1>7 DEF Tasks
<1>9. u.kind = "drop" /\ u.at = "next" /\ u.wants = {} /\ u.done = {} /\ u.queue = queue
  BY <1>6, <1>7 DEF Tasks
<1>10. Ready(u)
  BY <1>4, <1>8, <1>9 DEF Ready, Sound, Exact, Holds
<1>11. tasks' = tasks \cup {u}
  BY <1>3, <1>5, <1>7 DEF Drop
<1> QED
  BY <1>1, <1>2, <1>10, <1>11, LocalOf DEF Drop

LEMMA UndoLocal ==
  ASSUME WorkspaceInv, UndoLastMove PROVE Local
<1>1. commands' \in Nat /\ page \in Pages
  BY CommandFacts, PageTyped DEF UndoLastMove
<1>2. page' \in Pages /\ page'.undo = {}
  BY <1>1 DEF UndoLastMove, Pages
<1>3. PICK t : t = Acting(commands', "undo", "next")
  OBVIOUS
<1>4. t \in Tasks /\ t.kind = "undo" /\ t.at = "next" /\ t.wants = {} /\ t.done = {}
  BY <1>1, <1>3, ActingFacts DEF Stages
<1>5. PICK u : u = [t EXCEPT !.was = None, !.queue = page.undo]
  OBVIOUS
<1>6. page.undo \subseteq Moves
  BY <1>1 DEF Pages
<1>7. u \in Tasks
  BY <1>4, <1>5, <1>6 DEF Tasks
<1>8. u.kind = "undo" /\ u.at = "next" /\ u.wants = {} /\ u.done = {}
  BY <1>4, <1>5 DEF Tasks
<1>9. Ready(u)
  BY <1>7, <1>8 DEF Ready, Sound, Exact, Holds
<1>10. tasks' = tasks \cup {u}
  BY <1>3, <1>5 DEF UndoLastMove
<1> QED
  BY <1>1, <1>2, <1>9, <1>10, LocalOf DEF UndoLastMove

LEMMA SmallLocal ==
  ASSUME WorkspaceInv,
         DismissUndo \/ CloseMenu \/ \E f \in Names \cup {""} : PickFolder(f)
  PROVE  Local
<1>1. commands \in Nat /\ page \in Pages
  BY PageTyped
<1>2. page' \in Pages /\ page'.undo \subseteq page.undo
  BY <1>1 DEF DismissUndo, CloseMenu, PickFolder, Pages
<1>3. UNCHANGED <<mailbox, tasks, commands>>
  BY DEF DismissUndo, CloseMenu, PickFolder
<1> QED
  BY <1>1, <1>2, <1>3, LocalOf

LEMMA MoveByMenuLocal ==
  ASSUME WorkspaceInv, MoveByMenu PROVE Local
<1>1. commands' \in Nat /\ page \in Pages /\ page.menu \in Pointers
  BY CommandFacts, PageTyped, ShownPointers DEF MoveByMenu
<1>2. page' \in Pages /\ page'.undo = page.undo
  BY <1>1 DEF MoveByMenu, Pages
<1>3. PICK t : t = Waiting(commands', "prompt", page.menu, {})
  OBVIOUS
<1>4. Ready(t) /\ t.kind = "prompt" /\ t.at = "start"
  BY <1>1, <1>3, WaitingReady
<1>5. PICK u : u = [t EXCEPT !.view = View, !.was = page.selected]
  OBVIOUS
<1>6. t \in Tasks /\ View \in Views /\ page.selected \in Pointers \cup {None}
  BY <1>1, <1>4, ViewType DEF Ready, Sound, Pages
<1>7. u \in Tasks
  BY <1>5, <1>6 DEF Tasks
<1>8. /\ u.kind = "prompt" /\ u.at = "start" /\ u.ptr = t.ptr /\ u.account = t.account
      /\ u.done = t.done
  BY <1>4, <1>5, <1>6 DEF Tasks
<1>9. Ready(u)
  BY <1>4, <1>7, <1>8 DEF Ready, Sound, Exact, Holds
<1>10. \A w \in Ensuring(commands', AccountOf(page.menu)) : Ready(w)
  BY <1>1, EnsuringReady, PointerAccount
<1>11. tasks' = tasks \cup {u} \cup Ensuring(commands', AccountOf(page.menu))
  BY <1>3, <1>5 DEF MoveByMenu
<1> QED
  BY <1>1, <1>2, <1>9, <1>10, <1>11, LocalOf DEF MoveByMenu

LEMMA InsightLocal ==
  ASSUME WorkspaceInv, Insight PROVE Local
<1>1. commands' \in Nat /\ page \in Pages /\ page.menu \in Pointers
  BY CommandFacts, PageTyped, ShownPointers DEF Insight
<1>2. page' \in Pages /\ page'.undo = page.undo
  BY <1>1 DEF Insight, Pages
<1>3. PICK t : t = Task(commands', "insight", "start")
  OBVIOUS
<1>4. t \in Tasks /\ t.kind = "insight" /\ t.at = "start" /\ t.done = {}
  BY <1>1, <1>3, FreshTask DEF TaskKinds, Stages
<1>5. PICK wants \in SUBSET {"detail", "metadata"} :
        wants = IF page.menu = page.selected THEN {} ELSE {"detail"}
  OBVIOUS
<1>6. PICK u : u = [t EXCEPT !.ptr = page.menu, !.wants = wants]
  OBVIOUS
<1>7. u \in Tasks
  BY <1>1, <1>4, <1>6 DEF Tasks
<1>8. u.kind = "insight" /\ u.at = "start" /\ u.ptr = page.menu /\ u.done = {}
  BY <1>4, <1>6 DEF Tasks
<1>9. Ready(u)
  BY <1>1, <1>7, <1>8 DEF Ready, Sound, Exact, Holds
<1>10. tasks' = tasks \cup {u}
  BY <1>3, <1>5, <1>6 DEF Insight
<1> QED
  BY <1>1, <1>2, <1>9, <1>10, LocalOf DEF Insight
-----------------------------------------------------------------------------
(* Steps that start a call. *)

\* Some call is asked for.
Asks == \E c, kind, m, uid, from, to : Asking(c, kind, m, uid, from, to)

LEMMA StartActAsks ==
  ASSUME WorkspaceInv, commands' \in Nat,
         NEW t \in Tasks, t.ptr \in Pointers, t.wants = {}, Exact(t),
         NEW kind \in CallKinds, NEW to \in Names, StartAct(t, kind, to)
  PROVE  Asks
<1>1. PICK c \in Calls :
        /\ Ask(c, kind, t.ptr.msg, t.ptr.uid, t.ptr.folder, to)
        /\ page' = [page EXCEPT !.acting = TRUE, !.menu = None]
        /\ tasks' = (tasks \ {t}) \cup {[t EXCEPT !.kind = "act", !.at = "act", !.to = to,
                                                  !.account = "null", !.call = c]}
        /\ UNCHANGED <<copies, last>>
  BY DEF StartAct
<1>2. t.ptr.msg \in Messages /\ t.ptr.uid \in 0..last /\ t.ptr.folder \in Names
  BY DEF Pointers
<1>3. page' \in Pages /\ page'.undo = page.undo
  BY <1>1, PageTyped DEF Pages
<1>4. PICK w : w = [t EXCEPT !.kind = "act", !.at = "act", !.to = to, !.account = "null",
                             !.call = c]
  OBVIOUS
<1>5. "act" \in TaskKinds /\ "act" \in Stages
  BY DEF TaskKinds, Stages
<1>6. w \in Tasks
  BY <1>4, <1>5 DEF Tasks
<1>7. /\ w.kind = "act" /\ w.at = "act" /\ w.ptr = t.ptr /\ w.wants = {} /\ w.done = t.done
      /\ w.call = c
  BY <1>4 DEF Tasks
<1>8. Sound(w) /\ Exact(w) /\ Holds(w)
  BY <1>6, <1>7 DEF Sound, Exact, Holds
<1>9. \A u \in tasks' : u \in tasks \/ u = w
  BY <1>1, <1>4
<1>10. PageGoesOn
  BY <1>3 DEF PageGoesOn, WorkspaceInv, PageInv
<1>11. Asking(c, kind, t.ptr.msg, t.ptr.uid, t.ptr.folder, to)
  BY <1>1, <1>2, <1>7, <1>8, <1>9, <1>10 DEF Asking
<1> QED
  BY <1>11 DEF Asks

\* An action on a message of the page.
LEMMA NewActAsks ==
  ASSUME WorkspaceInv, Command, NEW q \in Pointers, NEW kind \in CallKinds, NEW to \in Names,
         StartAct([Acting(commands', "act", "act") EXCEPT !.ptr = q], kind, to)
  PROVE  Asks
<1>1. commands' \in Nat /\ page \in Pages
  BY CommandFacts, PageTyped
<1>2. PICK t : t = Acting(commands', "act", "act")
  OBVIOUS
<1>3. t \in Tasks /\ t.wants = {} /\ t.done = {}
  BY <1>1, <1>2, ActingFacts DEF Stages
<1>4. PICK u : u = [t EXCEPT !.ptr = q]
  OBVIOUS
<1>5. u \in Tasks /\ u.ptr = q /\ u.wants = {} /\ u.done = {}
  BY <1>3, <1>4 DEF Tasks
<1>6. StartAct(u, kind, to)
  BY <1>2, <1>4
<1> QED
  BY <1>1, <1>5, <1>6, StartActAsks DEF Exact

LEMMA UserAsks ==
  ASSUME WorkspaceInv,
         \/ \E q \in {page.selected, page.menu} : Archiving(q)
         \/ \E kind \in {"read", "unread"} : MarkRead(kind)
         \/ MoveByToolbar
  PROVE  Asks
<1>1. page \in Pages
  BY PageTyped
<1>2. ASSUME NEW q, Archiving(q) PROVE Asks
  <2>1. q \in Pointers
    BY <1>1, <1>2, ShownPointers DEF Archiving
  <2>2. Archive[AccountOf(q)] \in Names /\ "move" \in CallKinds
    BY <2>1, PointerAccount DEF CallKinds
  <2> QED
    BY <1>2, <2>1, <2>2, NewActAsks DEF Archiving
<1>3. ASSUME NEW kind \in {"read", "unread"}, MarkRead(kind) PROVE Asks
  <2>1. page.menu \in Pointers
    BY <1>1, <1>3, ShownPointers DEF MarkRead
  <2>2. page.menu.folder \in Names /\ kind \in CallKinds
    BY <2>1 DEF CallKinds, Pointers
  <2> QED
    BY <1>3, <2>1, <2>2, NewActAsks DEF MarkRead
<1>4. CASE MoveByToolbar
  <2>1. page.selected \in Pointers
    BY <1>1, <1>4, ShownPointers DEF MoveByToolbar
  <2>2. page.moveFolder \in Names /\ "move" \in CallKinds
    BY <1>1, <1>4 DEF CallKinds, Pages, MoveByToolbar
  <2> QED
    BY <1>4, <2>1, <2>2, NewActAsks DEF MoveByToolbar
<1> QED
  BY <1>2, <1>3, <1>4

LEMMA UserStepKinds ==
  ASSUME WorkspaceInv, UserStep PROVE Local \/ Asks
<1>1. ASSUME NEW q \in Shown, OpenMessage(q) \/ OpenMenu(q) PROVE Local
  BY <1>1, OpenMessageLocal, OpenMenuLocal
<1>2. ASSUME NEW Q \in SUBSET ShownRows, NEW f \in Names, Drop(Q, f) PROVE Local
  BY <1>2, DropLocal
<1> QED
  BY <1>1, <1>2, ChangeAccountLocal, ChooseFolderLocal, RefreshLocal, UndoLocal, SmallLocal,
     MoveByMenuLocal, InsightLocal, UserAsks DEF UserStep

-----------------------------------------------------------------------------
(* What the page does with the answers. *)

LEMMA TaskTyped ==
  ASSUME WorkspaceInv, NEW t \in tasks
  PROVE  t \in Tasks /\ Sound(t) /\ Exact(t) /\ Waits(t)
BY DEF WorkspaceInv, PageInv, Sound

\* A task that goes on without a call.
LEMMA BecomeLocal ==
  ASSUME WorkspaceInv, UNCHANGED <<mailbox, commands>>,
         page' \in Pages, page'.undo = page.undo,
         NEW t \in tasks, NEW u, Ready(u), Become(t, u)
  PROVE  Local
BY PageTyped, LocalOf DEF Become

LEMMA EndLocal ==
  ASSUME WorkspaceInv, UNCHANGED <<mailbox, commands>>,
         page' \in Pages, page'.undo = page.undo, NEW t \in tasks, End(t)
  PROVE  Local
BY PageTyped, LocalOf DEF End

LEMMA ListAnsweredLocal ==
  ASSUME WorkspaceInv, NEW t \in tasks, ListAnswered(t) PROVE Local
<1>1. page \in Pages
  BY PageTyped
<1>2. Listed(t.view) \subseteq Pointers
  <2>1. \A x \in copies : /\ x.msg \in Messages /\ x.folder \in Names /\ x.uid \in Nat
                          /\ x.uid <= last
    BY DEF WorkspaceInv, MailInv, IInv, MailboxTypeOK, UidsGiven, Copies
  <2>2. last \in Nat
    BY DEF WorkspaceInv, MailInv, IInv, MailboxTypeOK
  <2>3. \A x \in copies : Pointer(x) \in Pointers
    BY <2>1, <2>2 DEF Pointer, Pointers
  <2> QED
    BY <2>3 DEF Listed
<1>3. PICK rows \in SUBSET Pointers :
        rows = IF Listable(t.view) THEN Listed(t.view) ELSE page.rows
  BY <1>1, <1>2 DEF Pages
<1>4. PICK acting \in BOOLEAN : acting = (page.acting /\ t.kind # "act")
  OBVIOUS
<1>5. page' = [page EXCEPT !.rows = rows, !.loading = FALSE, !.acting = acting]
  BY <1>1, <1>3, <1>4 DEF ListAnswered
<1>6. page' \in Pages /\ page'.undo = page.undo
  BY <1>1, <1>5 DEF Pages
<1> QED
  BY <1>6, EndLocal DEF ListAnswered

LEMMA FoldersAnsweredLocal ==
  ASSUME WorkspaceInv, NEW t \in tasks, FoldersAnswered(t) PROVE Local
<1>1. page \in Pages /\ t.account \in Accounts /\ t.id \in Nat
  BY PageTyped, TaskTyped DEF FoldersAnswered, Sound, Tasks
<1>2. PICK f \in FolderChoices :
        f = IF page.folder \in Names THEN page.folder ELSE Inbox[t.account]
  BY <1>1 DEF FolderChoices
<1>3. PICK a \in Names : a = Archive[t.account]
  BY <1>1
<1>4. PICK p : p = [page EXCEPT !.metadata = t.account, !.moveFolder = a, !.folder = f]
  OBVIOUS
<1>5. p \in Pages /\ p.undo = page.undo
  BY <1>1, <1>4 DEF Pages
<1>6. p = [page EXCEPT !.metadata = t.account, !.moveFolder = Archive[t.account],
                       !.folder = IF @ \in Names THEN @ ELSE Inbox[t.account]]
  BY <1>1, <1>2, <1>3, <1>4 DEF Pages
<1>7. page' = Reloading(p) /\ tasks' = (tasks \ {t}) \cup ReloadTasks(t.id, p)
  BY <1>6 DEF FoldersAnswered
<1>8. page' \in Pages /\ page'.undo = page.undo /\ \A u \in ReloadTasks(t.id, p) : Ready(u)
  BY <1>1, <1>5, <1>7, ReloadReady
<1> QED
  BY <1>7, <1>8, PageTyped, LocalOf DEF FoldersAnswered

\* A task that has no call is ready to go on.
LEMMA TaskReady ==
  ASSUME WorkspaceInv, NEW t \in tasks, ~ Holds(t) PROVE Ready(t)
BY TaskTyped DEF Ready

\* What a task still wants may become less.
LEMMA WantsLess ==
  ASSUME WorkspaceInv, NEW t \in tasks, NEW wants \in SUBSET t.wants,
         NEW unread \in BOOLEAN, t.at = "start",
         NEW u, u = [t EXCEPT !.wants = wants, !.unread = unread]
  PROVE  Ready(u)
<1>1. t \in Tasks /\ Sound(t) /\ Exact(t)
  BY TaskTyped
<1>2. wants \in SUBSET {"detail", "metadata"}
  BY <1>1 DEF Tasks
<1>3. u \in Tasks
  BY <1>1, <1>2 DEF Tasks
<1>4. /\ u.kind = t.kind /\ u.at = "start" /\ u.ptr = t.ptr /\ u.account = t.account
      /\ u.queue = t.queue /\ u.done = t.done
  BY <1>1 DEF Tasks
<1> QED
  BY <1>1, <1>3, <1>4 DEF Ready, Sound, Exact, Holds

LEMMA EnsureAnsweredLocal ==
  ASSUME WorkspaceInv, NEW t \in tasks, EnsureAnswered(t) PROVE Local
<1>1. page \in Pages /\ t.account \in Accounts
  BY PageTyped, TaskTyped DEF EnsureAnswered, Sound
<1>2. page' \in Pages /\ page'.undo = page.undo
  BY <1>1 DEF EnsureAnswered, Pages
<1>3. ASSUME NEW w \in tasks' PROVE w \in tasks \/ Ready(w)
  <2>1. PICK u \in tasks \ {t} :
          w = IF u.id = t.id THEN [u EXCEPT !.wants = @ \ {"metadata"}] ELSE u
    BY <1>3 DEF EnsureAnswered
  <2>2. u \in Tasks /\ Sound(u)
    BY TaskTyped
  <2>3. CASE u.id = t.id /\ u.wants # {}
    <3>1. PICK wants \in SUBSET u.wants : wants = u.wants \ {"metadata"}
      OBVIOUS
    <3>2. PICK unread \in BOOLEAN : unread = u.unread
      BY <2>2 DEF Tasks
    <3>3. w = [u EXCEPT !.wants = wants, !.unread = unread]
      BY <2>1, <2>2, <2>3, <3>1, <3>2 DEF Tasks
    <3>4. u.at = "start"
      BY <2>2, <2>3 DEF Sound
    <3> QED
      BY <3>3, <3>4, WantsLess
  <2>4. CASE u.id = t.id /\ u.wants = {}
    <3>1. w = [u EXCEPT !.wants = {}]
      BY <2>1, <2>4
    <3>2. w = u
      BY <2>2, <2>4, <3>1 DEF Tasks
    <3> QED
      BY <3>2
  <2> QED
    BY <2>1, <2>3, <2>4
<1> QED
  BY <1>2, <1>3, PageTyped, LocalOf DEF EnsureAnswered

\* A request of a task has failed; undo is left alone.
LEMMA FailedFacts ==
  ASSUME WorkspaceInv, NEW t, Failed(t)
  PROVE  page' \in Pages /\ page'.undo = page.undo /\ End(t)
<1>1. page \in Pages
  BY PageTyped
<1>2. PICK opening \in BOOLEAN : opening = (page.opening /\ t.kind # "open")
  OBVIOUS
<1>3. PICK acting \in BOOLEAN : acting = (page.acting /\ t.kind # "act")
  OBVIOUS
<1>4. page' = [page EXCEPT !.opening = opening, !.acting = acting]
  BY <1>1, <1>2, <1>3 DEF Failed
<1> QED
  BY <1>1, <1>4 DEF Failed, Pages

LEMMA DetailAnsweredLocal ==
  ASSUME WorkspaceInv, NEW t \in tasks, DetailAnswered(t) PROVE Local
<1>1. CASE Exists(t.ptr)
  <2>1. PICK wants \in SUBSET t.wants : wants = t.wants \ {"detail"}
    OBVIOUS
  <2>2. PICK unread \in BOOLEAN : unread = \E x \in copies : Pointer(x) = t.ptr /\ ~ x.seen
    OBVIOUS
  <2>3. PICK u : u = [t EXCEPT !.wants = wants, !.unread = unread]
    OBVIOUS
  <2>4. t \in Tasks
    BY TaskTyped
  <2>5. u = [t EXCEPT !.wants = @ \ {"detail"},
                      !.unread = \E x \in copies : Pointer(x) = t.ptr /\ ~ x.seen]
    BY <2>1, <2>2, <2>3, <2>4 DEF Tasks
  <2>6. Become(t, u) /\ UNCHANGED <<page, mailbox, commands>>
    BY <1>1, <2>5 DEF DetailAnswered
  <2>7. Ready(u)
    BY <2>3, WantsLess DEF DetailAnswered
  <2> QED
    BY <2>6, <2>7, PageTyped, BecomeLocal
<1>2. CASE ~ Exists(t.ptr)
  BY <1>2, FailedFacts, EndLocal DEF DetailAnswered
<1> QED
  BY <1>1, <1>2
\* The message is shown, and its thread is asked for.
LEMMA ShowFacts ==
  ASSUME WorkspaceInv, NEW t \in tasks, t.ptr \in Pointers, t.kind = "open", t.wants = {},
         Show(t)
  PROVE  /\ page' \in Pages /\ page'.undo = page.undo
         /\ \/ End(t) \/ \E u : Ready(u) /\ Become(t, u)
<1>1. page \in Pages /\ t \in Tasks /\ Exact(t)
  BY PageTyped, TaskTyped
<1>2. PICK opening \in BOOLEAN : opening = (page.opening /\ t.ptr.msg \in Threaded)
  OBVIOUS
<1>3. PICK thread \in Messages \cup {0} :
        thread = IF t.ptr.msg \in Threaded THEN page.thread ELSE 0
  BY <1>1 DEF Pages
<1>4. page' = [page EXCEPT !.selected = t.ptr, !.thread = thread, !.opening = opening]
  BY <1>1, <1>2, <1>3 DEF Show
<1>5. page' \in Pages /\ page'.undo = page.undo
  BY <1>1, <1>4 DEF Pages
<1>6. CASE t.ptr.msg \in Threaded
  <2>1. PICK u : u = [t EXCEPT !.at = "thread", !.call = 0]
    OBVIOUS
  <2>2. "thread" \in Stages
    BY DEF Stages
  <2>3. u \in Tasks
    BY <1>1, <2>1, <2>2 DEF Tasks
  <2>4. /\ u.kind = "open" /\ u.at = "thread" /\ u.ptr = t.ptr /\ u.wants = {}
        /\ u.done = t.done
    BY <1>1, <2>1 DEF Tasks
  <2>5. Ready(u)
    BY <1>1, <2>3, <2>4 DEF Ready, Sound, Exact, Holds
  <2> QED
    BY <1>5, <1>6, <2>1, <2>5 DEF Show
<1>7. CASE t.ptr.msg \notin Threaded
  BY <1>5, <1>7 DEF Show
<1> QED
  BY <1>6, <1>7

LEMMA OpenedKinds ==
  ASSUME WorkspaceInv, NEW t \in tasks, Opened(t) PROVE Local \/ Asks
<1>1. /\ t \in Tasks /\ Sound(t) /\ Exact(t) /\ t.ptr \in Pointers /\ t.kind = "open"
      /\ t.wants = {}
  BY TaskTyped DEF Opened, Sound
<1>2. CASE t.unread
  <2>1. PICK c \in Calls :
          /\ Ask(c, "read", t.ptr.msg, t.ptr.uid, t.ptr.folder, t.ptr.folder)
          /\ Become(t, [t EXCEPT !.at = "mark", !.call = c])
          /\ UNCHANGED <<copies, last, page>>
    BY <1>2 DEF Opened
  <2>2. PICK w : w = [t EXCEPT !.at = "mark", !.call = c]
    OBVIOUS
  <2>3. "mark" \in Stages /\ "read" \in CallKinds
    BY DEF Stages, CallKinds
  <2>4. w \in Tasks
    BY <1>1, <2>2, <2>3 DEF Tasks
  <2>5. /\ w.kind = "open" /\ w.at = "mark" /\ w.ptr = t.ptr /\ w.wants = {}
        /\ w.done = t.done /\ w.call = c
    BY <1>1, <2>2 DEF Tasks
  <2>6. Sound(w) /\ Exact(w) /\ Holds(w)
    BY <1>1, <2>4, <2>5 DEF Sound, Exact, Holds
  <2>7. t.ptr.msg \in Messages /\ t.ptr.uid \in 0..last /\ t.ptr.folder \in Names
    BY <1>1 DEF Pointers
  <2>8. PageGoesOn
    BY <2>1 DEF PageGoesOn, Opened, WorkspaceInv, PageInv
  <2>9. \A u \in tasks' : u \in tasks \/ u = w
    BY <2>1, <2>2 DEF Become
  <2>10. Asking(c, "read", t.ptr.msg, t.ptr.uid, t.ptr.folder, t.ptr.folder)
    BY <2>1, <2>3, <2>5, <2>6, <2>7, <2>8, <2>9 DEF Asking
  <2> QED
    BY <2>10 DEF Asks
<1>3. CASE ~ t.unread
  <2>1. Show(t) /\ UNCHANGED <<mailbox, commands>>
    BY <1>3 DEF Opened
  <2> QED
    BY <1>1, <2>1, ShowFacts, BecomeLocal, EndLocal
<1> QED
  BY <1>2, <1>3

\* Some task has its answer.
Settles == \E t \in tasks : Settling(t)

LEMMA SettlingOf ==
  ASSUME WorkspaceInv, NEW t \in tasks, Holds(t), NEW outcome, Settled(t, outcome),
         UNCHANGED <<copies, last, commands>>,
         page' \in Pages, \A v \in page'.undo : Gone(v),
         \/ End(t) \/ \E u : Ready(u) /\ Become(t, u)
  PROVE  Settles
<1>1. PageGoesOn
  BY DEF PageGoesOn, WorkspaceInv, PageInv
<1>2. \A u \in tasks' : (u \in tasks /\ u # t) \/ Ready(u)
  BY DEF End, Become
<1>3. Release(t.call) \/ UNCHANGED call
  BY DEF Settled
<1> QED
  BY <1>1, <1>2, <1>3 DEF Settling, Settles

LEMMA MarkAnsweredSettles ==
  ASSUME WorkspaceInv, NEW t \in tasks, MarkAnswered(t) PROVE Settles
<1>1. t.at = "mark" /\ t.kind = "open" /\ t.ptr \in Pointers /\ t.wants = {}
  BY TaskTyped DEF MarkAnswered, Sound
<1>2. \A v \in page.undo : Gone(v)
  BY DEF WorkspaceInv, PageInv
<1>3. Holds(t)
  BY <1>1 DEF Holds
<1>4. CASE Settled(t, "done") /\ Show(t)
  BY <1>1, <1>2, <1>3, <1>4, ShowFacts, SettlingOf DEF MarkAnswered
<1>5. CASE Settled(t, "failed") /\ Failed(t)
  BY <1>1, <1>2, <1>3, <1>5, FailedFacts, SettlingOf DEF MarkAnswered
<1> QED
  BY <1>4, <1>5 DEF MarkAnswered

LEMMA ThreadAnsweredLocal ==
  ASSUME WorkspaceInv, NEW t \in tasks, ThreadAnswered(t) PROVE Local
<1>1. page \in Pages /\ t.ptr \in Pointers
  BY PageTyped, TaskTyped DEF ThreadAnswered, Sound
<1>2. PICK opening \in BOOLEAN : opening = (page.opening /\ t.kind # "open")
  OBVIOUS
<1>3. PICK thread \in Messages \cup {0} :
        thread = IF t.ptr.msg \in Threaded THEN t.ptr.msg ELSE 0
  BY <1>1 DEF Pointers
<1>4. PICK selected \in Pointers \cup {None} :
        selected = IF t.kind = "insight" THEN t.ptr ELSE page.selected
  BY <1>1 DEF Pages
<1>5. page' = [page EXCEPT !.selected = selected, !.thread = thread, !.opening = opening]
  BY <1>1, <1>2, <1>3, <1>4 DEF ThreadAnswered
<1>6. page' \in Pages /\ page'.undo = page.undo
  BY <1>1, <1>5 DEF Pages
<1> QED
  BY <1>6, EndLocal DEF ThreadAnswered

LEMMA MenuReadyLocal ==
  ASSUME WorkspaceInv, NEW t \in tasks, MenuReady(t) PROVE Local
<1>1. page \in Pages /\ t.ptr \in Pointers
  BY PageTyped, TaskTyped DEF MenuReady, Sound
<1>2. page' \in Pages /\ page'.undo = page.undo
  BY <1>1 DEF MenuReady, Pages
<1> QED
  BY <1>2, EndLocal DEF MenuReady

LEMMA PromptedKinds ==
  ASSUME WorkspaceInv, NEW t \in tasks, Prompted(t) PROVE Local \/ Asks
<1>1. /\ t \in Tasks /\ Exact(t) /\ t.ptr \in Pointers /\ t.account \in Accounts
      /\ t.wants = {}
  BY TaskTyped DEF Prompted, Sound
<1>2. commands' \in Nat
  BY PageTyped DEF Prompted
<1>3. ASSUME NEW f \in Has[t.account], StartAct(t, "move", f) PROVE Asks
  <2>1. f \in Names /\ "move" \in CallKinds
    BY <1>1, MailboxAssumption DEF CallKinds
  <2> QED
    BY <1>1, <1>2, <1>3, <2>1, StartActAsks
<1>4. CASE End(t) /\ UNCHANGED <<mailbox, page>>
  BY <1>4, PageTyped, EndLocal DEF Prompted
<1> QED
  BY <1>3, <1>4 DEF Prompted

LEMMA ActAnsweredSettles ==
  ASSUME WorkspaceInv, NEW t \in tasks, ActAnswered(t) PROVE Settles
<1>1. t \in Tasks /\ Exact(t) /\ t.at = "act" /\ t.kind = "act" /\ t.ptr \in Pointers
  BY TaskTyped DEF ActAnswered, Sound
<1>2. page \in Pages /\ \A v \in page.undo : Gone(v)
  BY DEF WorkspaceInv, PageInv
<1>3. Holds(t) /\ t.wants = {}
  BY <1>1, TaskTyped DEF Holds, Sound
<1>4. CASE Settled(t, "failed") /\ Failed(t)
  BY <1>2, <1>3, <1>4, FailedFacts, SettlingOf DEF ActAnswered
<1>5. CASE Settled(t, "done") /\ ~ (Settled(t, "failed") /\ Failed(t))
  <2> DEFINE gone == t.was = t.ptr /\ t.to # t.ptr.folder
             next == IF t.was = t.ptr /\ ~ gone THEN "refresh" ELSE "list"
  <2>1. /\ Become(t, [t EXCEPT !.at = next, !.call = 0])
        /\ page' = [page EXCEPT !.selected = IF gone THEN None ELSE @,
                                !.thread = IF gone THEN 0 ELSE @,
                                !.loading = @ \/ next = "list"]
    BY <1>5 DEF ActAnswered
  <2>2. next \in {"refresh", "list"}
    OBVIOUS
  <2>3. PICK loading \in BOOLEAN : loading = (page.loading \/ next = "list")
    OBVIOUS
  <2>4. PICK selected \in Pointers \cup {None} : selected = IF gone THEN None ELSE page.selected
    BY <1>2 DEF Pages
  <2>5. PICK thread \in Messages \cup {0} : thread = IF gone THEN 0 ELSE page.thread
    BY <1>2 DEF Pages
  <2>6. page' = [page EXCEPT !.selected = selected, !.thread = thread, !.loading = loading]
    BY <1>2, <2>1, <2>3, <2>4, <2>5
  <2>7. page' \in Pages /\ page'.undo = page.undo
    BY <1>2, <2>6 DEF Pages
  <2>8. PICK u : u = [t EXCEPT !.at = next, !.call = 0]
    OBVIOUS
  <2> HIDE DEF next
  <2>9. next \in Stages
    BY <2>2 DEF Stages
  <2>10. u \in Tasks
    BY <1>1, <2>8, <2>9 DEF Tasks
  <2>11. u.kind = "act" /\ u.at = next /\ u.ptr = t.ptr /\ u.wants = {} /\ u.done = t.done
    BY <1>1, <1>3, <2>8 DEF Tasks
  <2>12. Ready(u)
    BY <1>1, <2>2, <2>10, <2>11 DEF Ready, Sound, Exact, Holds
  <2> QED
    BY <1>2, <1>3, <1>5, <2>1, <2>7, <2>8, <2>12, SettlingOf DEF ActAnswered
<1> QED
  BY <1>4, <1>5 DEF ActAnswered

LEMMA RefreshAnsweredLocal ==
  ASSUME WorkspaceInv, NEW t \in tasks, RefreshAnswered(t) PROVE Local
<1>1. t \in Tasks /\ Exact(t) /\ t.at = "refresh" /\ t.kind = "act" /\ t.ptr \in Pointers
  BY TaskTyped DEF RefreshAnswered, Sound
<1>2. t.wants = {}
  BY <1>1, TaskTyped DEF Sound
<1>3. page \in Pages
  BY PageTyped
<1>4. CASE Exists(t.ptr)
  <2>1. page' = [page EXCEPT !.selected = t.ptr, !.loading = TRUE]
    BY <1>4 DEF RefreshAnswered
  <2>2. page' \in Pages /\ page'.undo = page.undo
    BY <1>1, <1>3, <2>1 DEF Pages
  <2>3. PICK u : u = [t EXCEPT !.at = "list"]
    OBVIOUS
  <2>4. u \in Tasks
    BY <1>1, <2>3 DEF Tasks, Stages
  <2>5. u.kind = "act" /\ u.at = "list" /\ u.ptr = t.ptr /\ u.wants = {} /\ u.done = t.done
    BY <1>1, <1>2, <2>3 DEF Tasks
  <2>6. Ready(u)
    BY <1>1, <2>4, <2>5 DEF Ready, Sound, Exact, Holds
  <2> QED
    BY <1>4, <2>2, <2>3, <2>6, BecomeLocal DEF RefreshAnswered
<1>5. CASE ~ Exists(t.ptr)
  BY <1>5, FailedFacts, EndLocal DEF RefreshAnswered
<1> QED
  BY <1>4, <1>5
LEMMA NextMoveAsks ==
  ASSUME WorkspaceInv, NEW t \in tasks, NextMove(t) PROVE Asks
<1>1. /\ t \in Tasks /\ Sound(t) /\ Exact(t) /\ t.kind \in {"drop", "undo"} /\ t.wants = {}
  BY TaskTyped DEF NextMove, Sound
<1>2. PICK c \in Calls, v \in t.queue :
        /\ IF t.kind = "drop" THEN Ask(c, "move", v.msg, v.uid, v.from, v.to)
                              ELSE Ask(c, "undo", v.msg, 0, v.to, v.from)
        /\ Become(t, [t EXCEPT !.at = "move", !.call = c, !.queue = @ \ {v}])
  BY DEF NextMove
<1>3. v \in Moves /\ t.queue \in SUBSET Moves
  BY <1>1 DEF Tasks
<1>4. /\ v.msg \in Messages /\ v.uid \in 0..last /\ v.from \in Names /\ v.to \in Names
      /\ 0 \in 0..last
  BY <1>3 DEF Moves, WorkspaceInv, MailInv, IInv, MailboxTypeOK
<1>5. PICK queue \in SUBSET Moves : queue = t.queue \ {v}
  BY <1>3
<1>6. PICK w : w = [t EXCEPT !.at = "move", !.call = c, !.queue = queue]
  OBVIOUS
<1>7. w \in Tasks
  BY <1>1, <1>6 DEF Tasks, Stages
<1>8. /\ w.kind = t.kind /\ w.at = "move" /\ w.call = c /\ w.wants = {} /\ w.done = t.done
      /\ w.queue = queue
  BY <1>1, <1>6 DEF Tasks
<1>9. t.kind = "drop" => v.from # v.to /\ \A x \in queue : x.from # x.to
  BY <1>1, <1>5 DEF Sound
<1>10. Sound(w) /\ Exact(w) /\ Holds(w)
  BY <1>1, <1>7, <1>8, <1>9 DEF Sound, Exact, Holds
<1>11. Become(t, w) /\ UNCHANGED <<copies, last, page, commands>>
  BY <1>1, <1>2, <1>5, <1>6 DEF NextMove, Tasks
<1>12. \A u \in tasks' : u \in tasks \/ u = w
  BY <1>11 DEF Become
<1>13. PageGoesOn
  BY <1>11 DEF PageGoesOn, WorkspaceInv, PageInv
<1>14. CASE t.kind = "drop"
  <2>1. Asking(c, "move", v.msg, v.uid, v.from, v.to)
    BY <1>2, <1>4, <1>8, <1>9, <1>10, <1>11, <1>12, <1>13, <1>14 DEF Asking, CallKinds
  <2> QED
    BY <2>1 DEF Asks
<1>15. CASE t.kind = "undo"
  <2>1. Asking(c, "undo", v.msg, 0, v.to, v.from)
    BY <1>2, <1>4, <1>8, <1>10, <1>11, <1>12, <1>13, <1>15 DEF Asking, CallKinds
  <2> QED
    BY <2>1 DEF Asks
<1> QED
  BY <1>1, <1>14, <1>15

\* The finally block of a drop or an undo: what undo offers is what is gone.
LEMMA FinishedFacts ==
  ASSUME WorkspaceInv, NEW t \in tasks, NEW p \in Pages, Finished(t, p)
  PROVE  /\ page' \in Pages /\ page'.undo = p.undo
         /\ \E u : Ready(u) /\ Become(t, u)
<1>1. page' \in Pages /\ page'.undo = p.undo
  BY DEF Finished, Pages
<1>2. t.id \in Nat /\ t.view \in Views
  BY TaskTyped DEF Tasks
<1> QED
  BY <1>1, <1>2, ListingReady DEF Finished

\* A move that was answered has taken the message out of its folder.
LEMMA AskedIsGone ==
  ASSUME WorkspaceInv, NEW t \in tasks, t.at = "move", t.kind = "drop",
         call[t.call].at = "done"
  PROVE  Asked(t.call) \in Moves /\ Gone(Asked(t.call))
<1>1. /\ t.call \in Calls /\ call[t.call].kind = "move"
      /\ call[t.call].folder # call[t.call].to
  BY TaskTyped DEF Waits, Holds
<1>2. call[t.call] \in InProgress /\ call[t.call].uid <= last /\ last \in Nat
  BY <1>1 DEF WorkspaceInv, MailInv, IInv, MailboxTypeOK, UidsGiven, Free
<1>3. Named(t.call) = {}
  BY <1>1 DEF WorkspaceInv, MailInv, MovedIsGone, At
<1>4. Asked(t.call) \in Moves
  BY <1>2 DEF Asked, Moves, InProgress
<1>5. Gone(Asked(t.call))
  BY <1>3 DEF Gone, Asked, Named
<1> QED
  BY <1>4, <1>5

LEMMA MoveAnsweredSettles ==
  ASSUME WorkspaceInv, NEW t \in tasks, MoveAnswered(t) PROVE Settles
<1>1. t \in Tasks /\ Sound(t) /\ Exact(t) /\ t.at = "move" /\ t.wants = {}
  BY TaskTyped DEF MoveAnswered, Sound
<1>2. page \in Pages /\ \A v \in page.undo : Gone(v)
  BY DEF WorkspaceInv, PageInv
<1>3. Holds(t) /\ UNCHANGED <<copies, last, commands>>
  BY <1>1 DEF Holds, MoveAnswered
<1>4. CASE /\ Settled(t, "done")
           /\ Become(t, [t EXCEPT !.at = "next", !.call = 0, !.done =
                           IF t.kind = "drop" THEN @ \cup {Asked(t.call)} ELSE @])
           /\ UNCHANGED page
  <2>1. call[t.call].at = "done"
    BY <1>4 DEF Settled
  <2>2. PICK done \in SUBSET Moves :
          done = IF t.kind = "drop" THEN t.done \cup {Asked(t.call)} ELSE t.done
    BY <1>1, <2>1, AskedIsGone DEF Tasks
  <2>3. \A v \in done : Gone(v)
    BY <1>1, <2>1, <2>2, AskedIsGone DEF Exact
  <2>4. PICK u : u = [t EXCEPT !.at = "next", !.call = 0, !.done = done]
    OBVIOUS
  <2>5. u \in Tasks
    BY <1>1, <2>4 DEF Tasks, Stages
  <2>6. /\ u.kind = t.kind /\ u.at = "next" /\ u.wants = {} /\ u.done = done
        /\ u.queue = t.queue /\ u.ptr = t.ptr /\ u.account = t.account
    BY <1>1, <2>4 DEF Tasks
  <2>7. t.kind \in {"drop", "undo"}
    BY <1>1 DEF Sound
  <2>8. Ready(u)
    BY <1>1, <2>3, <2>5, <2>6, <2>7 DEF Ready, Sound, Exact, Holds
  <2>9. Become(t, u)
    BY <1>1, <1>4, <2>2, <2>4 DEF Tasks
  <2> QED
    BY <1>2, <1>3, <1>4, <2>8, <2>9, SettlingOf
<1>5. CASE /\ Settled(t, "failed")
           /\ Finished(t, [page EXCEPT !.undo =
                             IF t.kind = "drop" /\ t.done # {} THEN t.done ELSE @])
  <2>1. PICK undo \in SUBSET Moves :
          undo = IF t.kind = "drop" /\ t.done # {} THEN t.done ELSE page.undo
    BY <1>1, <1>2 DEF Tasks, Pages
  <2>2. \A v \in undo : Gone(v)
    BY <1>1, <1>2, <2>1 DEF Exact
  <2>3. PICK p : p = [page EXCEPT !.undo = undo]
    OBVIOUS
  <2>4. p \in Pages /\ p.undo = undo
    BY <1>2, <2>3 DEF Pages
  <2>5. Finished(t, p)
    BY <1>2, <1>5, <2>1, <2>3 DEF Pages
  <2>6. /\ page' \in Pages /\ page'.undo = undo
        /\ \E u : Ready(u) /\ Become(t, u)
    BY <2>4, <2>5, FinishedFacts
  <2> QED
    BY <1>3, <1>5, <2>2, <2>6, SettlingOf
<1> QED
  BY <1>4, <1>5 DEF MoveAnswered

LEMMA MovesDoneLocal ==
  ASSUME WorkspaceInv, NEW t \in tasks, MovesDone(t) PROVE Local
<1>1. t \in Tasks /\ Exact(t)
  BY TaskTyped
<1>2. page \in Pages /\ \A v \in page.undo : Gone(v)
  BY DEF WorkspaceInv, PageInv
<1> DEFINE cleared == [page EXCEPT !.undo = t.done, !.selected = None, !.thread = 0]
<1>3. cleared \in Pages /\ cleared.undo = t.done
  BY <1>1, <1>2 DEF Pages, Tasks
<1>4. PICK p \in Pages : /\ p = IF t.kind = "drop" THEN cleared ELSE page
                         /\ \A v \in p.undo : Gone(v)
  <2> HIDE DEF cleared
  <2> QED
    BY <1>1, <1>2, <1>3 DEF Exact
<1>5. Finished(t, p) /\ UNCHANGED <<mailbox, commands>>
  BY <1>4 DEF MovesDone
<1>6. /\ page' \in Pages /\ page'.undo = p.undo
      /\ \E u : Ready(u) /\ Become(t, u)
  BY <1>4, <1>5, FinishedFacts
<1>7. \A u \in tasks' : u \in tasks \/ Ready(u)
  BY <1>6 DEF Become
<1>8. PageGoesOn
  BY <1>4, <1>5, <1>6 DEF PageGoesOn, WorkspaceInv, PageInv
<1> QED
  BY <1>5, <1>7, <1>8 DEF Local

LEMMA ReadFailsLocal ==
  ASSUME WorkspaceInv, NEW t \in tasks, ReadFails(t) PROVE Local
<1>1. page \in Pages /\ UNCHANGED <<mailbox, commands>>
  BY PageTyped DEF ReadFails
<1>2. ASSUME NEW waiting \in SUBSET tasks, tasks' = tasks \ (waiting \cup {t}),
             page' = [page EXCEPT !.opening = @ /\ \A u \in waiting : u.kind # "open"]
      PROVE  Local
  <2>1. PICK opening \in BOOLEAN :
          opening = (page.opening /\ \A u \in waiting : u.kind # "open")
    OBVIOUS
  <2>2. page' = [page EXCEPT !.opening = opening]
    BY <1>1, <1>2, <2>1
  <2>3. page' \in Pages /\ page'.undo = page.undo
    BY <1>1, <2>2 DEF Pages
  <2> QED
    BY <1>1, <1>2, <2>3, PageTyped, LocalOf
<1>3. CASE t.kind = "ensure"
  <2>1. PICK waiting \in SUBSET tasks :
          /\ tasks' = tasks \ (waiting \cup {t})
          /\ page' = [page EXCEPT !.opening = @ /\ \A u \in waiting : u.kind # "open"]
    <3> DEFINE W == {u \in tasks : u.id = t.id /\ "metadata" \in u.wants}
    <3>1. W \in SUBSET tasks
      OBVIOUS
    <3>2. /\ tasks' = tasks \ (W \cup {t})
          /\ page' = [page EXCEPT !.opening = @ /\ \A u \in W : u.kind # "open"]
      BY <1>3 DEF ReadFails
    <3> QED
      BY <3>1, <3>2
  <2> QED
    BY <1>2, <2>1
<1>4. CASE t.kind # "ensure" /\ t.at = "list"
  <2>1. page' = [page EXCEPT !.loading = FALSE, !.acting = @ /\ t.kind # "act"] /\ End(t)
    BY <1>4 DEF ReadFails
  <2>2. PICK acting \in BOOLEAN : acting = (page.acting /\ t.kind # "act")
    OBVIOUS
  <2>3. page' = [page EXCEPT !.loading = FALSE, !.acting = acting]
    BY <1>1, <2>1, <2>2
  <2>4. page' \in Pages /\ page'.undo = page.undo
    BY <1>1, <2>3 DEF Pages
  <2> QED
    BY <1>1, <2>1, <2>4, EndLocal
<1>5. CASE t.kind # "ensure" /\ t.at # "list"
  <2>1. Failed(t)
    BY <1>5 DEF ReadFails
  <2> QED
    BY <1>1, <2>1, FailedFacts, EndLocal
<1> QED
  BY <1>3, <1>4, <1>5

-----------------------------------------------------------------------------
(* Every step is of one of the four kinds. *)

LEMMA PageStepKinds ==
  ASSUME WorkspaceInv, NEW t \in tasks, PageStep(t) \/ ReadFails(t)
  PROVE  Local \/ Asks \/ Settles
BY ListAnsweredLocal, FoldersAnsweredLocal, EnsureAnsweredLocal, DetailAnsweredLocal,
   OpenedKinds, MarkAnsweredSettles, ThreadAnsweredLocal, MenuReadyLocal, PromptedKinds,
   ActAnsweredSettles, RefreshAnsweredLocal, NextMoveAsks, MoveAnsweredSettles,
   MovesDoneLocal, ReadFailsLocal DEF PageStep

LEMMA ServerServes ==
  ASSUME WorkspaceInv, NEW c \in Calls, Serve(c) \/ CallFails(c) \/ Forget(c) \/ WorkerMoves(c)
  PROVE  Serving(c)
<1>1. CASE Serve(c)
  BY <1>1 DEF Serve, Serving
<1>2. CASE CallFails(c)
  BY <1>2 DEF CallFails, Serving
<1>3. CASE Forget(c)
  BY <1>3 DEF Forget, Serving
<1>4. CASE WorkerMoves(c)
  <2>1. PICK x \in copies, f \in Names :
          /\ f \in Has[Owner[x.msg]] \ {x.folder}
          /\ Ask(c, "move", x.msg, x.uid, x.folder, f)
    BY <1>4 DEF WorkerMoves
  <2>2. x.msg \in Messages /\ x.folder \in Names /\ x.uid \in 0..last /\ "move" \in CallKinds
    BY DEF WorkspaceInv, MailInv, IInv, MailboxTypeOK, UidsGiven, Copies, CallKinds
  <2>3. UNCHANGED <<copies, last, page, tasks, commands>>
    BY <1>4 DEF WorkerMoves
  <2> QED
    BY <2>1, <2>2, <2>3 DEF Serving
<1> QED
  BY <1>1, <1>2, <1>3, <1>4

LEMMA WorkspaceStep ==
  ASSUME WorkspaceInv, [Next]_vars
  PROVE  [MailboxNext]_mailbox /\ WorkspaceInv'
<1>1. CASE Next
  <2>1. CASE \E c \in Calls : Serve(c) \/ CallFails(c) \/ Forget(c) \/ WorkerMoves(c)
    BY <2>1, ServerServes, ServingStep
  <2>2. CASE Local \/ Asks \/ Settles
    BY <2>2, LocalStep, AskingStep, SettlingStep DEF Asks, Settles
  <2> QED
    BY <1>1, <2>1, <2>2, UserStepKinds, PageStepKinds DEF Next
<1>2. CASE UNCHANGED vars
  <2>1. Local
    BY <1>2 DEF vars, Local, PageGoesOn, WorkspaceInv, PageInv
  <2> QED
    BY <2>1, LocalStep
<1> QED
  BY <1>1, <1>2

\* The page, the workers and everything they overlap with use the mailboxes only by
\* the calls of Mailbox, with UIDs that were given: what is proved of the mailboxes
\* holds of the whole application.
THEOREM WorkspaceIsMailbox == Spec => MailboxSpec
<1>1. Init => WorkspaceInv /\ MailboxInit
  BY WorkspaceInit DEF Init
<1>2. WorkspaceInv /\ [Next]_vars => WorkspaceInv' /\ [MailboxNext]_mailbox
  BY WorkspaceStep
<1> QED
  BY <1>1, <1>2, PTL DEF Spec, MailboxSpec

\* However drops, undo, actions and workers overlap in one page, no message is lost.
THEOREM WorkspaceLosesNothing == Spec => []NeverLost
BY WorkspaceIsMailbox, NothingLost, PTL

\* And every message stays in the custody of a folder.
THEOREM WorkspaceKeepsCustody == Spec => KeepsCustody
BY WorkspaceIsMailbox, CustodyKept, PTL

\* Undo offers only messages that have left the folder they were dragged from, for
\* any number of drops, messages and accounts, and whatever fails.
THEOREM UndoStaysExact == Spec => []UndoIsExact
<1>1. Init => WorkspaceInv
  BY WorkspaceInit
<1>2. WorkspaceInv /\ [Next]_vars => WorkspaceInv'
  BY WorkspaceStep
<1>3. WorkspaceInv => UndoIsExact
  BY DEF WorkspaceInv, PageInv, Gone, UndoIsExact, Exists, Pointer
<1> QED
  BY <1>1, <1>2, <1>3, PTL DEF Spec
=============================================================================
