--------------------------- MODULE ComposeProofs ---------------------------
(***************************************************************************)
(* Proofs about composing and sending, for any number of pages, requests,  *)
(* versions of the text and incidents.                                     *)
(*                                                                         *)
(* Every step is one of five: a page sends a request (Asks), a page edits  *)
(* what it shows (Edits), a page handles an answer (Handles), the server   *)
(* takes a request one phase further (Serves), a connection is lost and    *)
(* the page gets an answer of its own (Cuts).  The invariants are shown    *)
(* for these.                                                              *)
(***************************************************************************)
EXTENDS Compose, FiniteSetTheorems, TLAPS

USE BoundsAssumption

-----------------------------------------------------------------------------
(* Requests and pages as values. *)

\* A request that is not idle is a call; Idle is none.
LEMMA CallOrIdle ==
  ASSUME NEW q \in Calls \cup {Idle}
  PROVE  /\ q \in Calls <=> q # Idle
         /\ q \in Calls <=> q.kind # "none"
         /\ q \in Calls <=> q.kind \in Kinds
BY DEF Calls, Idle, Kinds

\* The request that a page sends.
LEMMA CallFacts ==
  ASSUME TypeOK, NEW t \in Tabs, NEW kind \in Kinds, NEW why \in Whys,
         NEW files \in SUBSET Files, NEW q, q = Call(t, kind, why, files)
  PROVE  /\ q \in Calls
         /\ q.tab = t /\ q.kind = kind /\ q.why = why /\ q.files = files
         /\ q.phase = "travelling" /\ q.seen = "draft" /\ q.base = 0 /\ q.ok
         /\ q.body = page[t].body \/ q.body = 0
<1>1. page[t].body \in Versions /\ 0 \in Versions
  BY DEF TypeOK, Pages, Versions
<1> QED
  BY <1>1 DEF Call, Calls, Phases, Statuses

\* A request that was refused, or whose answer was lost.
LEMMA FailedFacts ==
  ASSUME TypeOK, NEW k \in Requests, request[k] \in Calls,
         NEW q, q = Failed(request[k])
  PROVE  /\ q \in Calls
         /\ q.tab = request[k].tab /\ q.kind = request[k].kind
         /\ q.why = request[k].why
         /\ q.phase = "answered" /\ q.seen = "draft" /\ q.body = 0 /\ ~ q.ok
<1>1. /\ request[k].tab \in Tabs /\ request[k].kind \in Kinds /\ request[k].why \in Whys
      /\ 0 \in Versions /\ {} \in SUBSET Files
  BY DEF Calls, Versions
<1>2. PICK c : c = Call(request[k].tab, request[k].kind, request[k].why, {})
  OBVIOUS
<1>3. /\ c \in Calls /\ c.tab = request[k].tab /\ c.kind = request[k].kind
      /\ c.why = request[k].why /\ c.seen = "draft"
  BY <1>1, <1>2, CallFacts
<1>4. q = [c EXCEPT !.body = 0, !.phase = "answered", !.ok = FALSE]
  BY <1>2 DEF Failed
<1>5. /\ q \in Calls /\ q.tab = c.tab /\ q.kind = c.kind /\ q.why = c.why
      /\ q.phase = "answered" /\ q.seen = c.seen /\ q.body = 0 /\ ~ q.ok
  BY <1>1, <1>3, <1>4 DEF Calls, Phases
<1> QED
  BY <1>3, <1>5

LEMMA RefuseFacts ==
  ASSUME TypeOK, NEW k \in Requests, request[k] \in Calls, Refuse(k)
  PROVE  \E q \in Calls :
           /\ request' = [request EXCEPT ![k] = q]
           /\ q.tab = request[k].tab /\ q.kind = request[k].kind
           /\ q.why = request[k].why
           /\ q.phase = "answered" /\ q.seen = "draft" /\ q.body = 0 /\ ~ q.ok
<1>1. PICK q : q = Failed(request[k])
  OBVIOUS
<1>2. request' = [request EXCEPT ![k] = q]
  BY <1>1 DEF Refuse, TypeOK
<1> QED
  BY <1>1, <1>2, FailedFacts

\* The next request of a chain.
LEMMA ContinueFacts ==
  ASSUME TypeOK, NEW k \in Requests, request[k] \in Calls,
         NEW kind \in Kinds, NEW why \in Whys, Continue(k, kind, why)
  PROVE  \E q \in Calls :
           /\ request' = [request EXCEPT ![k] = q]
           /\ q.tab = request[k].tab /\ q.kind = kind /\ q.why = why
           /\ q.phase = "travelling" /\ q.seen = "draft"
           /\ q.body = page[q.tab].body \/ q.body = 0
<1>1. request[k].tab \in Tabs /\ request[k].files \in SUBSET Files
  BY DEF Calls
<1>2. PICK f \in SUBSET Files : 
         request' = [request EXCEPT ![k] = Call(request[k].tab, kind, why, f)]
  BY <1>1 DEF Continue
<1>3. PICK q : q = Call(request[k].tab, kind, why, f)
  OBVIOUS
<1>4. /\ q \in Calls /\ q.tab = request[k].tab /\ q.kind = kind /\ q.why = why
      /\ q.phase = "travelling" /\ q.seen = "draft"
      /\ q.body = page[request[k].tab].body \/ q.body = 0
  BY <1>1, <1>3, CallFacts
<1> QED
  BY <1>2, <1>3, <1>4

-----------------------------------------------------------------------------
(* What the steps of the page do. *)

Chain == {"send", "sent", "failed"}

\* A request that belongs to sending says so.
WellFormed(q) ==
  /\ q.kind \in {"send", "check"} => q.why \in {"send", "lost"}
  /\ q.why = "send" => q.kind \in {"patch", "check", "send"}
  /\ q.why \in {"sent", "failed"} => q.kind = "get"
  /\ q.phase \in {"fenced", "mailed", "rejected"} => q.kind = "send"

\* A button or the timer sends request q from tab t, whose page becomes p.
Asks(t, k, q, p) ==
  /\ k \in Requests /\ q \in Calls /\ p \in Pages
  /\ request[k] = Idle /\ request' = [request EXCEPT ![k] = q]
  /\ page' = [page EXCEPT ![t] = p]
  /\ q.tab = t /\ q.phase = "travelling" /\ q.seen = "draft"
  /\ q.body = page[t].body \/ q.body = 0
  /\ q.kind # "send" /\ WellFormed(q) /\ q.why # "lost"
  /\ p.body = page[t].body /\ p.draft = page[t].draft
  /\ \/ q.why = "send" /\ ~ page[t].sending /\ p.sending
     \/ q.why \notin Chain /\ p.sending = page[t].sending
  /\ UNCHANGED <<row, texts, mail>>

LEMMA AskIntro ==
  ASSUME TypeOK, NEW t \in Tabs, NEW k \in Requests,
         NEW kind \in Kinds \ {"send"}, NEW why \in Whys \ {"lost"},
         NEW F \in SUBSET Files,
         Begin(k, t, kind, why, F), UNCHANGED <<row, texts, mail>>,
         NEW p \in Pages, page' = [page EXCEPT ![t] = p],
         p.body = page[t].body, p.draft = page[t].draft,
         \/ /\ why = "send" /\ kind \in {"patch", "check"}
            /\ ~ page[t].sending /\ p.sending
         \/ why \notin Chain /\ kind # "check" /\ p.sending = page[t].sending
  PROVE  \E q : Asks(t, k, q, p)
<1>1. PICK q : q = Call(t, kind, why, F)
  OBVIOUS
<1>2. /\ q \in Calls /\ q.tab = t /\ q.kind = kind /\ q.why = why
      /\ q.phase = "travelling" /\ q.seen = "draft"
      /\ q.body = page[t].body \/ q.body = 0
  BY <1>1, CallFacts
<1>3. request[k] = Idle /\ request' = [request EXCEPT ![k] = q]
  BY <1>1 DEF Begin
<1>4. Asks(t, k, q, p)
  BY <1>2, <1>3 DEF Asks, WellFormed, Chain
<1> QED
  BY <1>4

LEMMA AskShape ==
  ASSUME TypeOK, NEW t \in Tabs, NEW k \in Requests,
         \/ Open(t, k) \/ Save(t, k) \/ Send(t, k) \/ Discard(t, k) \/ RunAI(t, k)
         \/ \E F \in SUBSET Files : AddFiles(t, k, F)
         \/ \E f \in Files : RemoveFile(t, k, f)
  PROVE  \E q, p : Asks(t, k, q, p)
<1>0. page \in [Tabs -> Pages] /\ page[t] \in Pages
  BY DEF TypeOK
<1>1. /\ {"open", "save", "send", "ai", "discard", "upload", "remove"}
           \subseteq Whys \ {"lost"}
      /\ {"get", "patch", "check", "discard", "upload", "remove", "preview"}
           \subseteq Kinds \ {"send"}
      /\ {} \in SUBSET Files
  BY DEF Kinds, Whys
<1>2. CASE Open(t, k)
  <2>1. Begin(k, t, "get", "open", {}) /\ UNCHANGED <<row, texts, mail>>
    BY <1>2 DEF Open
  <2>2. PICK p \in Pages :
           /\ page' = [page EXCEPT ![t] = p]
           /\ p.body = page[t].body /\ p.draft = page[t].draft
           /\ p.sending = page[t].sending
    BY <1>0, <1>2 DEF Open, Pages
  <2>3. /\ "get" \in Kinds \ {"send"} /\ "open" \in Whys \ {"lost"}
        /\ "open" \notin Chain /\ "get" # "check"
    BY DEF Chain, Kinds, Whys
  <2>4. {} \in SUBSET Files
    OBVIOUS
  <2> QED
    BY <2>1, <2>2, <2>3, <2>4, AskIntro
<1>3. CASE Save(t, k)
  <2>1. Begin(k, t, "patch", "save", {}) /\ UNCHANGED <<row, texts, mail>>
    BY <1>3 DEF Save
  <2>a. PICK p : p = [page[t] EXCEPT !.save = "saving"]
    OBVIOUS
  <2>b. page' = [page EXCEPT ![t] = p]
    BY <1>0, <1>3, <2>a DEF Save
  <2>2. /\ p \in Pages
        /\ p.body = page[t].body /\ p.draft = page[t].draft
        /\ p.sending = page[t].sending
    BY <1>0, <1>3, <2>a DEF Save, Pages
  <2>3. /\ "patch" \in Kinds \ {"send"} /\ "save" \in Whys \ {"lost"}
        /\ "save" \notin Chain /\ "patch" # "check"
    BY DEF Chain, Kinds, Whys
  <2>4. {} \in SUBSET Files
    OBVIOUS
  <2> QED
    BY <2>1, <2>2, <2>b, <2>3, <2>4, AskIntro
<1>4. CASE Discard(t, k)
  <2>1. Begin(k, t, "discard", "discard", {}) /\ UNCHANGED <<row, texts, mail>>
    BY <1>4 DEF Discard
  <2>2. PICK p \in Pages :
           /\ page' = [page EXCEPT ![t] = p]
           /\ p.body = page[t].body /\ p.draft = page[t].draft
           /\ p.sending = page[t].sending
    BY <1>0, <1>4 DEF Discard, Pages
  <2>3. /\ "discard" \in Kinds \ {"send"} /\ "discard" \in Whys \ {"lost"}
        /\ "discard" \notin Chain /\ "discard" # "check"
    BY DEF Chain, Kinds, Whys
  <2>4. {} \in SUBSET Files
    OBVIOUS
  <2> QED
    BY <2>1, <2>2, <2>3, <2>4, AskIntro
<1>5. CASE \E F \in SUBSET Files : AddFiles(t, k, F)
  <2>0. PICK F \in SUBSET Files : AddFiles(t, k, F)
    BY <1>5
  <2>1. Begin(k, t, "upload", "upload", F) /\ UNCHANGED <<row, texts, mail>>
    BY <2>0 DEF AddFiles
  <2>a. PICK p : p = [page[t] EXCEPT !.uploading = TRUE]
    OBVIOUS
  <2>b. page' = [page EXCEPT ![t] = p]
    BY <1>0, <2>0, <2>a DEF AddFiles
  <2>2. /\ p \in Pages
        /\ p.body = page[t].body /\ p.draft = page[t].draft
        /\ p.sending = page[t].sending
    BY <1>0, <2>0, <2>a DEF AddFiles, Pages
  <2>3. /\ "upload" \in Kinds \ {"send"} /\ "upload" \in Whys \ {"lost"}
        /\ "upload" \notin Chain /\ "upload" # "check"
    BY DEF Chain, Kinds, Whys
  <2>4. {} \in SUBSET Files
    OBVIOUS
  <2> QED
    BY <2>1, <2>2, <2>b, <2>3, <2>4, AskIntro
<1>6. CASE \E f \in Files : RemoveFile(t, k, f)
  <2>0. PICK f \in Files : RemoveFile(t, k, f)
    BY <1>6
  <2>1. Begin(k, t, "remove", "remove", {f}) /\ UNCHANGED <<row, texts, mail>>
    BY <2>0 DEF RemoveFile
  <2>2. PICK p \in Pages :
           /\ page' = [page EXCEPT ![t] = p]
           /\ p.body = page[t].body /\ p.draft = page[t].draft
           /\ p.sending = page[t].sending
    BY <1>0, <2>0 DEF RemoveFile, Pages
  <2>3. /\ "remove" \in Kinds \ {"send"} /\ "remove" \in Whys \ {"lost"}
        /\ "remove" \notin Chain /\ "remove" # "check"
    BY DEF Chain, Kinds, Whys
  <2>4. {f} \in SUBSET Files
    BY <2>0
  <2> QED
    BY <2>1, <2>2, <2>3, <2>4, AskIntro
<1>7. CASE Send(t, k)
  <2>1. PICK kind \in {"patch", "check"} :
           Begin(k, t, kind, "send", {}) /\ UNCHANGED <<row, texts, mail>>
    BY <1>7 DEF Send
  <2>a. PICK p : p = [page[t] EXCEPT !.sending = TRUE,
                           !.save = IF Storable(t) THEN "saving" ELSE @]
    OBVIOUS
  <2>b. page' = [page EXCEPT ![t] = p]
    BY <1>0, <1>7, <2>a DEF Send
  <2>2. /\ p \in Pages
        /\ p.body = page[t].body /\ p.draft = page[t].draft
        /\ ~ page[t].sending /\ p.sending
    BY <1>0, <1>7, <2>a DEF Send, Pages
  <2> QED
    BY <1>1, <2>1, <2>2, <2>b, AskIntro
<1>8. CASE RunAI(t, k)
  <2>1. PICK kind \in {"patch", "preview"} :
           Begin(k, t, kind, "ai", {}) /\ UNCHANGED <<row, texts, mail>>
    BY <1>8 DEF RunAI
  <2>a. PICK p : p = [page[t] EXCEPT !.asking = TRUE, !.preview = {},
                           !.save = IF Storable(t) THEN "saving" ELSE @]
    OBVIOUS
  <2>b. page' = [page EXCEPT ![t] = p]
    BY <1>0, <1>8, <2>a DEF RunAI
  <2>2. /\ p \in Pages
        /\ p.body = page[t].body /\ p.draft = page[t].draft
        /\ p.sending = page[t].sending
    BY <1>0, <1>8, <2>a DEF RunAI, Pages
  <2>3. /\ kind \in Kinds \ {"send"} /\ "ai" \in Whys \ {"lost"}
        /\ "ai" \notin Chain /\ kind # "check"
    BY DEF Chain, Kinds, Whys
  <2>4. {} \in SUBSET Files
    OBVIOUS
  <2> QED
    BY <2>1, <2>2, <2>b, <2>3, <2>4, AskIntro
<1> QED
  BY <1>2, <1>3, <1>4, <1>5, <1>6, <1>7, <1>8

\* The user, or the timer, changes the page of tab t and nothing else.
Edits(t, p) ==
  /\ p \in Pages /\ page' = [page EXCEPT ![t] = p]
  /\ p.draft = page[t].draft /\ p.sending = page[t].sending
  /\ p.body = page[t].body \/ p.body \in accepted'
  /\ accepted \subseteq accepted' /\ accepted' \in SUBSET Versions
  /\ versions' \in Versions
  /\ UNCHANGED <<row, request, mail>>

LEMMA EditShape ==
  ASSUME TypeOK, NEW t \in Tabs, Type(t) \/ ApplyPreview(t) \/ DropPreview(t)
  PROVE  \E p : Edits(t, p)
<1>0. /\ page \in [Tabs -> Pages] /\ page[t] \in Pages
      /\ versions \in Versions /\ accepted \in SUBSET Versions
  BY DEF TypeOK
<1>1. CASE Type(t)
  <2>1. versions' \in Versions
    BY <1>0, <1>1 DEF Type, Versions
  <2>2. PICK p : p = [page[t] EXCEPT !.body = versions', !.timer = TRUE]
    OBVIOUS
  <2>3. page' = [page EXCEPT ![t] = p]
    BY <1>0, <1>1, <2>2 DEF Type
  <2>4. /\ p \in Pages /\ p.draft = page[t].draft /\ p.sending = page[t].sending
        /\ p.body = versions'
    BY <1>0, <2>1, <2>2 DEF Pages
  <2>5. accepted' = accepted \cup {versions'} /\ UNCHANGED <<row, request, mail>>
    BY <1>1 DEF Type
  <2>6. Edits(t, p)
    BY <1>0, <2>1, <2>3, <2>4, <2>5 DEF Edits
  <2> QED
    BY <2>6
<1>2. CASE ApplyPreview(t)
  <2>1. PICK v \in page[t].preview :
           /\ page' = [page EXCEPT ![t].body = v, ![t].timer = TRUE, ![t].preview = {}]
           /\ accepted' = accepted \cup {v}
           /\ UNCHANGED <<row, request, versions, mail>>
    BY <1>2 DEF ApplyPreview
  <2>2. PICK p : p = [page[t] EXCEPT !.body = v, !.timer = TRUE, !.preview = {}]
    OBVIOUS
  <2>3. page' = [page EXCEPT ![t] = p]
    BY <1>0, <2>1, <2>2
  <2>4. v \in Versions
    BY <1>0 DEF Pages
  <2>5. /\ p \in Pages /\ p.draft = page[t].draft /\ p.sending = page[t].sending
        /\ p.body = v
    BY <1>0, <2>2, <2>4 DEF Pages
  <2>6. Edits(t, p)
    BY <1>0, <2>1, <2>3, <2>4, <2>5 DEF Edits
  <2> QED
    BY <2>6
<1>3. CASE DropPreview(t)
  <2>1. PICK p : p = [page[t] EXCEPT !.preview = {}]
    OBVIOUS
  <2>2. page' = [page EXCEPT ![t] = p] /\ UNCHANGED <<row, request, texts, mail>>
    BY <1>0, <1>3, <2>1 DEF DropPreview
  <2>3. /\ p \in Pages /\ p.draft = page[t].draft /\ p.sending = page[t].sending
        /\ p.body = page[t].body
    BY <1>0, <2>1 DEF Pages
  <2>4. Edits(t, p)
    BY <1>0, <2>2, <2>3 DEF Edits, texts
  <2> QED
    BY <2>4
<1> QED
  BY <1>1, <1>2, <1>3

LEMMA AutosaveShape ==
  ASSUME TypeOK, NEW t \in Tabs, Autosave(t)
  PROVE  \/ \E k, q, p : Asks(t, k, q, p)
         \/ \E p : Edits(t, p)
<1>0. /\ page \in [Tabs -> Pages] /\ page[t] \in Pages
      /\ versions \in Versions /\ accepted \in SUBSET Versions
  BY DEF TypeOK
<1>1. CASE Storable(t)
  <2>1. PICK k \in Requests : Begin(k, t, "patch", "save", {})
    BY <1>1 DEF Autosave
  <2>2. PICK p : p = [page[t] EXCEPT !.timer = FALSE, !.save = "saving"]
    OBVIOUS
  <2>3. page' = [page EXCEPT ![t] = p] /\ UNCHANGED <<row, texts, mail>>
    BY <1>0, <1>1, <2>2 DEF Autosave
  <2>4. /\ p \in Pages /\ p.draft = page[t].draft /\ p.sending = page[t].sending
        /\ p.body = page[t].body
    BY <1>0, <2>2 DEF Pages
  <2>5. /\ "patch" \in Kinds \ {"send"} /\ "save" \in Whys \ {"lost"} /\ "save" \notin Chain
        /\ {} \in SUBSET Files
    BY DEF Kinds, Whys, Chain
  <2>6. \E q : Asks(t, k, q, p)
    BY <2>1, <2>3, <2>4, <2>5, AskIntro
  <2> QED
    BY <2>6
<1>2. CASE ~ Storable(t)
  <2>1. PICK p : p = [page[t] EXCEPT !.timer = FALSE]
    OBVIOUS
  <2>2. page' = [page EXCEPT ![t] = p] /\ UNCHANGED <<row, request, texts, mail>>
    BY <1>0, <1>2, <2>1 DEF Autosave
  <2>3. /\ p \in Pages /\ p.draft = page[t].draft /\ p.sending = page[t].sending
        /\ p.body = page[t].body
    BY <1>0, <2>1 DEF Pages
  <2>4. Edits(t, p)
    BY <1>0, <2>2, <2>3 DEF Edits, texts
  <2> QED
    BY <2>4
<1> QED
  BY <1>1, <1>2

\* The page handles the answer of request k: the chain goes on with q, or ends.
Handles(k, q, p) ==
  LET r == request[k]
  IN /\ r \in Calls /\ q \in Calls \cup {Idle} /\ p \in Pages
     /\ request' = [request EXCEPT ![k] = q]
     /\ page' = [page EXCEPT ![r.tab] = p]
     /\ p.body = page[r.tab].body \/ (p.body = r.body /\ r.kind = "get")
     /\ p.draft \in {page[r.tab].draft, r.seen, "none"}
     /\ \/ q = Idle
        \/ /\ q \in Calls /\ WellFormed(q) /\ q.tab = r.tab
           /\ q.phase = "travelling" /\ q.seen = "draft"
           /\ q.body = page[q.tab].body \/ q.body = 0
           /\ q.why \in Chain <=> r.why \in Chain
           /\ q.why # "lost"
     /\ p.sending = page[r.tab].sending \/ (q = Idle /\ r.why \in Chain)
     /\ r.phase = "answered"
     /\ UNCHANGED <<row, texts, mail>>

LEMMA HandlesIntro ==
  ASSUME TypeOK, NEW k \in Requests, request[k] \in Calls,
         request[k].phase = "answered",
         NEW p \in Pages, page' = [page EXCEPT ![request[k].tab] = p],
         p.body = page[request[k].tab].body
           \/ (p.body = request[k].body /\ request[k].kind = "get"),
         p.draft \in {page[request[k].tab].draft, request[k].seen, "none"},
         UNCHANGED <<row, texts, mail>>,
         \/ /\ Done(k)
            /\ p.sending = page[request[k].tab].sending \/ request[k].why \in Chain
         \/ /\ \E kind \in Kinds, why \in Whys \ {"lost"} :
                 /\ Continue(k, kind, why)
                 /\ why \in Chain <=> request[k].why \in Chain
                 /\ kind \in {"send", "check"} => why = "send"
                 /\ why = "send" => kind \in {"patch", "check", "send"}
                 /\ why \in {"sent", "failed"} => kind = "get"
            /\ p.sending = page[request[k].tab].sending
  PROVE  \E q : Handles(k, q, p)
<1>1. CASE Done(k)
         /\ (p.sending = page[request[k].tab].sending \/ request[k].why \in Chain)
  <2>1. Handles(k, Idle, p)
    BY <1>1 DEF Handles, Done
  <2> QED
    BY <2>1
<1>2. ASSUME NEW kind \in Kinds, NEW why \in Whys \ {"lost"}, Continue(k, kind, why),
             why \in Chain <=> request[k].why \in Chain,
             kind \in {"send", "check"} => why = "send",
             why = "send" => kind \in {"patch", "check", "send"},
             why \in {"sent", "failed"} => kind = "get",
             p.sending = page[request[k].tab].sending
      PROVE  \E q : Handles(k, q, p)
  <2>1. PICK q \in Calls :
           /\ request' = [request EXCEPT ![k] = q]
           /\ q.tab = request[k].tab /\ q.kind = kind /\ q.why = why
           /\ q.phase = "travelling" /\ q.seen = "draft"
           /\ q.body = page[q.tab].body \/ q.body = 0
    BY <1>2, ContinueFacts
  <2>2. WellFormed(q)
    BY <1>2, <2>1 DEF WellFormed
  <2>3. Handles(k, q, p)
    BY <1>2, <2>1, <2>2 DEF Handles
  <2> QED
    BY <2>3
<1> QED
  BY <1>1, <1>2

\* The end of a chain resets a flag, and nothing else.
LEMMA EndedFacts ==
  ASSUME NEW p \in Pages, NEW why
  PROVE  LET e == Ended(p, why)
         IN /\ e \in Pages /\ e.body = p.body /\ e.draft = p.draft
            /\ why \notin Chain => e.sending = p.sending
<1>1. /\ p.sending \in BOOLEAN /\ p.uploading \in BOOLEAN /\ p.loading \in BOOLEAN
  BY DEF Pages
<1>2. PICK a \in BOOLEAN, b \in BOOLEAN, c \in BOOLEAN :
         /\ a = (p.sending /\ why \notin {"sent", "failed"})
         /\ b = (p.uploading /\ why # "upload")
         /\ c = (p.loading /\ why # "open")
  OBVIOUS
<1>3. Ended(p, why) = [p EXCEPT !.sending = a, !.uploading = b, !.loading = c]
  BY <1>2 DEF Ended
<1>4. why \notin Chain => a = p.sending
  BY <1>1, <1>2 DEF Chain
<1> QED
  BY <1>3, <1>4 DEF Pages

LEMMA AnswerShape ==
  ASSUME TypeOK, NEW k \in Requests, PageStep(k),
         request[k] \in Calls => WellFormed(request[k])
  PROVE  \E q, p : Handles(k, q, p)
<1> DEFINE r == request[k]
           old == page[r.tab]
<1>0. /\ r \in Calls /\ r.phase = "answered" /\ UNCHANGED <<row, texts, mail>>
      /\ WellFormed(r)
  <2>1. r \in Calls \cup {Idle}
    BY DEF TypeOK
  <2>2. /\ r.kind \in Kinds \/ r # Idle
        /\ r.phase = "answered" /\ UNCHANGED <<row, texts, mail>>
    BY DEF PageStep, SaveAnswered, CheckAnswered, SendAnswered, GetAnswered, Answered,
       DiscardAnswered, UploadAnswered, RemoveAnswered, PreviewAnswered, Forget, Kinds
  <2> QED
    BY <2>1, <2>2, CallOrIdle
<1>1. /\ page \in [Tabs -> Pages] /\ r.tab \in Tabs /\ old \in Pages
      /\ r.seen \in Statuses /\ r.body \in Versions /\ r.files \in SUBSET Files
  BY <1>0 DEF TypeOK, Calls
<1>2. /\ {"get", "check", "send", "upload", "preview"} \subseteq Kinds
      /\ {"send", "ai", "sent", "failed", "upload", "remove"} \subseteq Whys \ {"lost"}
      /\ {"send", "sent", "failed"} = Chain
      /\ "ai" \notin Chain /\ "upload" \notin Chain /\ "remove" \notin Chain
      /\ "save" \notin Chain
  BY DEF Kinds, Whys, Chain
\* What remains to show of each action: the page, and how the chain goes on.
<1> DEFINE Goes(p) ==
      \/ /\ Done(k)
         /\ p.sending = old.sending \/ r.why \in Chain
      \/ /\ \E kind \in Kinds, why \in Whys \ {"lost"} :
              /\ Continue(k, kind, why)
              /\ why \in Chain <=> r.why \in Chain
              /\ kind \in {"send", "check"} => why = "send"
              /\ why = "send" => kind \in {"patch", "check", "send"}
              /\ why \in {"sent", "failed"} => kind = "get"
         /\ p.sending = old.sending
<1>3. ASSUME NEW p \in Pages, page' = [page EXCEPT ![r.tab] = p],
             p.body = old.body \/ (p.body = r.body /\ r.kind = "get"),
             p.draft \in {old.draft, r.seen, "none"}, Goes(p)
      PROVE  \E q, s : Handles(k, q, s)
  BY <1>0, <1>3, HandlesIntro
<1>4. UNCHANGED page => page' = [page EXCEPT ![r.tab] = old]
  BY <1>1
<1>5. CASE SaveAnswered(k)
  <2>1. PICK p : p = IF r.ok THEN [old EXCEPT !.save = "saved", !.draft = r.seen,
                                             !.files = r.files]
                             ELSE [old EXCEPT !.save = "failed"]
    OBVIOUS
  <2>2. /\ p \in Pages /\ p.body = old.body /\ p.sending = old.sending
        /\ p.draft \in {old.draft, r.seen}
    BY <1>1, <2>1 DEF Pages
  <2>3. page' = [page EXCEPT ![r.tab] = p]
    BY <1>1, <1>5, <2>1 DEF SaveAnswered
  <2>4. Goes(p)
    BY <1>2, <1>5, <2>2 DEF SaveAnswered
  <2> QED
    BY <1>3, <2>2, <2>3, <2>4
<1>6. CASE CheckAnswered(k)
  <2>1. r.why = "send"
    BY <1>0, <1>6 DEF CheckAnswered, Answered, WellFormed
  <2>2. PICK p \in {old, [old EXCEPT !.sending = FALSE]} :
           /\ page' = [page EXCEPT ![r.tab] = p]
           /\ \/ Done(k)
              \/ p = old /\ Continue(k, "send", "send")
              \/ p = old /\ Continue(k, "get", "failed")
    BY <1>1, <1>4, <1>6 DEF CheckAnswered
  <2>3. p \in Pages /\ p.body = old.body /\ p.draft = old.draft
    <3>1. CASE p = old
      BY <1>1, <3>1
    <3>2. CASE p = [old EXCEPT !.sending = FALSE]
      BY <1>1, <3>2 DEF Pages
    <3> QED
      BY <2>2, <3>1, <3>2
  <2>4. Goes(p)
    BY <1>2, <2>1, <2>2
  <2> QED
    BY <1>3, <2>2, <2>3, <2>4
<1>7. CASE SendAnswered(k)
  <2>1. r.why = "send"
    BY <1>0, <1>7 DEF SendAnswered, Answered, WellFormed
  <2>2. Goes(old)
    BY <1>2, <1>7, <2>1 DEF SendAnswered
  <2>3. UNCHANGED page
    BY <1>7 DEF SendAnswered
  <2> QED
    BY <1>1, <1>3, <1>4, <2>2, <2>3
<1>8. CASE GetAnswered(k)
  <2>1. CASE r.ok
    <3>1. PICK p : p = Ended(WithDraft(old, r), r.why)
      OBVIOUS
    <3>a. PICK w : w = WithDraft(old, r)
      OBVIOUS
    <3>b. /\ w \in Pages /\ w.body = r.body /\ w.draft = r.seen
          /\ w.sending = old.sending
      BY <1>1, <3>a DEF Pages, WithDraft
    <3>2. /\ p \in Pages /\ p.body = r.body /\ p.draft = r.seen
          /\ p.sending = old.sending \/ r.why \in Chain
      BY <3>1, <3>a, <3>b, EndedFacts
    <3>3. page' = [page EXCEPT ![r.tab] = p] /\ Done(k)
      BY <1>1, <1>8, <2>1, <3>1 DEF GetAnswered
    <3>4. r.kind = "get"
      BY <1>8 DEF GetAnswered, Answered
    <3> QED
      BY <1>3, <3>2, <3>3, <3>4
  <2>2. CASE ~ r.ok /\ r.why = "sent"
    <3>1. UNCHANGED page /\ Continue(k, "get", "failed")
      BY <1>8, <2>2 DEF GetAnswered
    <3>2. Goes(old)
      BY <1>2, <2>2, <3>1
    <3> QED
      BY <1>1, <1>3, <1>4, <3>1, <3>2
  <2>3. CASE ~ r.ok /\ r.why # "sent"
    <3>1. PICK p : p = Ended(old, r.why)
      OBVIOUS
    <3>2. /\ p \in Pages /\ p.body = old.body /\ p.draft = old.draft
          /\ p.sending = old.sending \/ r.why \in Chain
      BY <1>1, <3>1, EndedFacts
    <3>3. page' = [page EXCEPT ![r.tab] = p] /\ Done(k)
      BY <1>1, <1>8, <2>3, <3>1 DEF GetAnswered
    <3> QED
      BY <1>3, <3>2, <3>3
  <2> QED
    BY <2>1, <2>2, <2>3
<1>9. CASE DiscardAnswered(k)
  <2>1. PICK p : p = IF r.ok THEN [old EXCEPT !.draft = "none", !.files = {}] ELSE old
    OBVIOUS
  <2>2. /\ p \in Pages /\ p.body = old.body /\ p.sending = old.sending
        /\ p.draft \in {old.draft, "none"}
    BY <1>1, <2>1 DEF Pages
  <2>3. page' = [page EXCEPT ![r.tab] = p] /\ Done(k)
    BY <1>1, <1>9, <2>1 DEF DiscardAnswered
  <2> QED
    BY <1>3, <2>2, <2>3
<1>10. CASE UploadAnswered(k)
  <2>1. r.why \notin Chain
    BY <1>0, <1>10 DEF UploadAnswered, Answered, WellFormed, Chain
  <2>2. CASE UNCHANGED page
    <3>1. Continue(k, "upload", "upload") \/ Continue(k, "get", "upload") \/ Done(k)
      BY <1>10 DEF UploadAnswered
    <3>2. Goes(old)
      BY <1>2, <2>1, <3>1
    <3> QED
      BY <1>1, <1>3, <1>4, <2>2, <3>2
  <2>3. CASE page' = [page EXCEPT ![r.tab] = Ended(old, "upload")] /\ Done(k)
    <3>1. PICK p : p = Ended(old, "upload")
      OBVIOUS
    <3>2. /\ p \in Pages /\ p.body = old.body /\ p.draft = old.draft
          /\ p.sending = old.sending
      BY <1>1, <1>2, <3>1, EndedFacts
    <3> QED
      BY <1>3, <2>3, <3>1, <3>2
  <2> QED
    BY <1>10, <2>2, <2>3 DEF UploadAnswered
<1>11. CASE RemoveAnswered(k)
  <2>1. r.why \notin Chain
    BY <1>0, <1>11 DEF RemoveAnswered, Answered, WellFormed, Chain
  <2>2. /\ Continue(k, "get", "remove") \/ Done(k)
        /\ UNCHANGED page
    BY <1>11 DEF RemoveAnswered
  <2>3. Goes(old)
    BY <1>2, <2>1, <2>2
  <2> QED
    BY <1>1, <1>3, <1>4, <2>2, <2>3
<1>12. CASE PreviewAnswered(k)
  <2>1. PICK p : p = [old EXCEPT !.asking = FALSE,
                                 !.preview = IF r.ok THEN {r.body} ELSE @]
    OBVIOUS
  <2>2. /\ p \in Pages /\ p.body = old.body /\ p.sending = old.sending
        /\ p.draft = old.draft
    BY <1>1, <2>1 DEF Pages
  <2>3. page' = [page EXCEPT ![r.tab] = p] /\ Done(k)
    BY <1>1, <1>12, <2>1 DEF PreviewAnswered
  <2> QED
    BY <1>3, <2>2, <2>3
<1>13. CASE Forget(k)
  <2>1. Done(k) /\ UNCHANGED page
    BY <1>13 DEF Forget
  <2>2. Goes(old)
    BY <2>1
  <2> QED
    BY <1>1, <1>3, <1>4, <2>1, <2>2
<1> QED
  BY <1>5, <1>6, <1>7, <1>8, <1>9, <1>10, <1>11, <1>12, <1>13 DEF PageStep

-----------------------------------------------------------------------------
(* What the steps of the server do. *)

\* Request k becomes q; the page sees nothing of it yet.
Becomes(k, q) ==
  LET r == request[k]
  IN /\ r \in Calls /\ q \in Calls
     /\ request' = [request EXCEPT ![k] = q]
     /\ q.tab = r.tab /\ q.kind = r.kind /\ q.why = r.why
     /\ q.body \in {r.body, row.body, 0} \/ q.kind = "preview"
     /\ q.seen \in {r.seen, row.status, "draft", "discarded"}
     /\ UNCHANGED <<page, accepted>>
     /\ row' \in Rows /\ versions' \in Versions
     /\ row'.body = row.body \/ (row'.body = r.body /\ r.kind = "patch")

post == <<delivered, deliveries, failures>>

\* What becomes of the status and of the mail.
Flows(r, q) ==
  \/ /\ q.phase = "answered" /\ row'.status = row.status /\ UNCHANGED post
  \/ /\ q.phase = "loaded" /\ row'.status = row.status /\ UNCHANGED post
     /\ RowEditable /\ q.seen = row.status
  \/ /\ r.phase = "loaded" /\ q.phase = "answered" /\ UNCHANGED post
     /\ row'.status = "draft" /\ r.seen # "draft"
  \/ /\ q.phase = "answered" /\ UNCHANGED post
     /\ row'.status = "discarded"
  \/ /\ r.phase = "loaded" /\ q.phase = "fenced" /\ r.kind = "send" /\ UNCHANGED post
     /\ row'.status = "sending"
  \/ /\ r.phase = "fenced" /\ q.phase = "mailed" /\ r.kind = "send"
     /\ row'.status = row.status
     /\ delivered' = delivered \cup {r.body} /\ deliveries' = deliveries + 1
     /\ UNCHANGED failures
  \/ /\ r.phase = "fenced" /\ q.phase = "rejected" /\ r.kind = "send"
     /\ row'.status = row.status
     /\ delivered' \in {delivered, delivered \cup {r.body}}
     /\ deliveries' \in {deliveries, deliveries + 1}
     /\ failures' = failures + 1
  \/ /\ r.phase = "mailed" /\ q.phase = "answered" /\ UNCHANGED post
     /\ row'.status = "sent"
  \/ /\ r.phase = "rejected" /\ q.phase = "answered" /\ UNCHANGED post
     /\ row'.status = "failed"

\* What the history tells of a send that has loaded the draft.
Marks(k, q) ==
  /\ UNCHANGED cut
  /\ overlapped' \in BOOLEAN
  /\ ~ overlapped' =>
       /\ ~ overlapped
       /\ q.kind = "send" /\ q.phase = "loaded" => ~ BeforeFence(k)

Serves(k, q) == Becomes(k, q) /\ Flows(request[k], q) /\ Marks(k, q)

LEMMA NothingMarked ==
  ASSUME TypeOK, UNCHANGED <<overlapped, cut>>, NEW k, NEW q,
         q.phase # "loaded" \/ q.kind # "send"
  PROVE  Marks(k, q)
BY DEF TypeOK, Marks

\* The connection of request k is lost, and its page gets q.
Cuts(k, j, q) ==
  LET r == request[k]
  IN /\ r \in Calls /\ r.phase # "answered" /\ r.why # "lost"
     /\ request[j] = Idle /\ q \in Calls
     /\ request' = [request EXCEPT ![k] = [r EXCEPT !.why = "lost"], ![j] = q]
     /\ q.tab = r.tab /\ q.kind = r.kind /\ q.why = r.why
     /\ q.phase = "answered" /\ q.seen = "draft" /\ q.body = 0
     /\ cut' = TRUE
     /\ UNCHANGED <<row, page, texts, post, overlapped>>

LEMMA CutShape ==
  ASSUME TypeOK, NEW k \in Requests, NEW j \in Requests, Cut(k, j)
  PROVE  \E q : Cuts(k, j, q)
<1>0. request[k] \in Calls /\ request \in [Requests -> Calls \cup {Idle}]
  BY CallOrIdle DEF Cut, TypeOK
<1>1. PICK q : q = Failed(request[k])
  OBVIOUS
<1>2. /\ q \in Calls
      /\ q.tab = request[k].tab /\ q.kind = request[k].kind
      /\ q.why = request[k].why
      /\ q.phase = "answered" /\ q.seen = "draft" /\ q.body = 0
  BY <1>0, <1>1, FailedFacts
<1>3. request' = [request EXCEPT ![k] = [request[k] EXCEPT !.why = "lost"], ![j] = q]
  BY <1>0, <1>1 DEF Cut
<1>4. Cuts(k, j, q)
  BY <1>0, <1>2, <1>3 DEF Cut, Cuts, post
<1> QED
  BY <1>4

\* An answer to a refused or lost request.
LEMMA RefusedShape ==
  ASSUME TypeOK, NEW k \in Requests, request[k] \in Calls, Refuse(k),
         UNCHANGED <<page, accepted, mail>>, versions' \in Versions,
         \/ UNCHANGED row
         \/ /\ request[k].phase = "rejected"
            /\ row' = [row EXCEPT !.status = "failed"]
  PROVE  \E q : Serves(k, q)
<1>1. PICK q \in Calls :
         /\ request' = [request EXCEPT ![k] = q]
         /\ q.tab = request[k].tab /\ q.kind = request[k].kind
         /\ q.why = request[k].why
         /\ q.phase = "answered" /\ q.seen = "draft" /\ q.body = 0 /\ ~ q.ok
  BY RefuseFacts
<1>2. /\ row' \in Rows /\ row'.body = row.body
      /\ \/ row'.status = row.status
         \/ row'.status = "failed" /\ request[k].phase = "rejected"
  BY DEF TypeOK, Rows, Statuses
<1>3. Becomes(k, q)
  BY <1>1, <1>2 DEF Becomes
<1>4. Flows(request[k], q)
  BY <1>1, <1>2 DEF Flows, post, mail
<1>5. Marks(k, q)
  BY <1>1, NothingMarked DEF mail
<1> QED
  BY <1>3, <1>4, <1>5 DEF Serves

LEMMA ServeShape ==
  ASSUME TypeOK, NEW k \in Requests,
         ServerStep(k) \/ SmtpFails(k) \/ Crash(k) \/ Drop(k)
  PROVE  \E q : Serves(k, q)
<1> DEFINE r == request[k]
<1>0. r \in Calls
  <2>1. r \in Calls \cup {Idle}
    BY DEF TypeOK
  <2>2. r.kind \in Kinds \/ r # Idle
    BY DEF ServerStep, ReadDraft, CheckBeforeSend, PreviewWriting, LoadToSend,
       LoadToChange, CommitPatch, CommitDiscard, CommitUpload, CommitRemove, Fence,
       SmtpAccepts, RecordSent, RecordFailed, SmtpFails, Crash, Drop,
       Travelling, Committing, Kinds
  <2> QED
    BY <2>1, <2>2, CallOrIdle
<1>1. /\ row \in Rows /\ row.status \in Statuses /\ row.body \in Versions
      /\ row.files \in SUBSET Files /\ request \in [Requests -> Calls \cup {Idle}]
      /\ versions \in Versions /\ 0 \in Versions
      /\ {"draft", "discarded", "sending", "sent", "failed"} \subseteq Statuses
      /\ {"answered", "loaded", "fenced", "mailed", "rejected"} \subseteq Phases
  BY DEF TypeOK, Rows, Statuses, Phases, Versions
<1>2. /\ r.tab \in Tabs /\ r.body \in Versions /\ r.files \in SUBSET Files
      /\ r.seen \in Statuses /\ r.kind \in Kinds /\ r.why \in Whys
  BY <1>0 DEF Calls
<1>3. CASE ReadDraft(k)
  <2>1. PICK q : q = [r EXCEPT !.phase = "answered", !.seen = row.status,
                            !.body = row.body, !.files = row.files]
    OBVIOUS
  <2>2. request' = [request EXCEPT ![k] = q]
    BY <1>1, <1>3, <2>1 DEF ReadDraft
  <2>3. /\ q \in Calls /\ q.tab = r.tab /\ q.kind = r.kind /\ q.why = r.why
        /\ q.body \in {r.body, row.body, 0}
        /\ q.seen \in {r.seen, row.status, "draft", "discarded"}
    BY <1>0, <1>1, <2>1 DEF Calls
  <2>4. /\ row' \in Rows
        /\ row'.body = row.body \/ (row'.body = r.body /\ r.kind = "patch")
    BY <1>1, <1>2, <1>3 DEF ReadDraft, Rows, Committing
  <2>5. UNCHANGED <<page, texts>>
    BY <1>3 DEF ReadDraft
  <2>6. Becomes(k, q)
    BY <1>0, <1>1, <2>2, <2>3, <2>4, <2>5 DEF Becomes, texts
  <2>7. q.phase = "answered"
    BY <1>0, <2>1 DEF Calls
  <2>8. Flows(r, q)
    BY <1>1, <1>3, <2>7 DEF ReadDraft, Flows, Rows, Committing, mail, post
  <2>9. Marks(k, q)
    BY <1>3, <2>7, NothingMarked DEF ReadDraft, mail
  <2> QED
    BY <2>6, <2>8, <2>9 DEF Serves
<1>4. CASE CheckBeforeSend(k)
  <2>1. PICK q : q = [r EXCEPT !.phase = "answered", !.files = row.files,
                            !.seen = IF /\ row.body \in Addressed
                                        /\ row.status \notin {"sending", "discarded"}
                                       THEN "draft" ELSE "discarded"]
    OBVIOUS
  <2>2. request' = [request EXCEPT ![k] = q]
    BY <1>1, <1>4, <2>1 DEF CheckBeforeSend
  <2>3. /\ q \in Calls /\ q.tab = r.tab /\ q.kind = r.kind /\ q.why = r.why
        /\ q.body \in {r.body, row.body, 0}
        /\ q.seen \in {r.seen, row.status, "draft", "discarded"}
    BY <1>0, <1>1, <2>1 DEF Calls
  <2>4. /\ row' \in Rows
        /\ row'.body = row.body \/ (row'.body = r.body /\ r.kind = "patch")
    BY <1>1, <1>2, <1>4 DEF CheckBeforeSend, Rows, Committing
  <2>5. UNCHANGED <<page, texts>>
    BY <1>4 DEF CheckBeforeSend
  <2>6. Becomes(k, q)
    BY <1>0, <1>1, <2>2, <2>3, <2>4, <2>5 DEF Becomes, texts
  <2>7. q.phase = "answered"
    BY <1>0, <2>1 DEF Calls
  <2>8. Flows(r, q)
    BY <1>1, <1>4, <2>7 DEF CheckBeforeSend, Flows, Rows, Committing, mail, post
  <2>9. Marks(k, q)
    BY <1>4, <2>7, NothingMarked DEF CheckBeforeSend, mail
  <2> QED
    BY <2>6, <2>8, <2>9 DEF Serves
<1>5. CASE CommitPatch(k)
  <2>1. PICK q : q = [r EXCEPT !.phase = "answered", !.seen = "draft",
                            !.files = row.files, !.base = 0]
    OBVIOUS
  <2>2. request' = [request EXCEPT ![k] = q]
    BY <1>1, <1>5, <2>1 DEF CommitPatch
  <2>3. /\ q \in Calls /\ q.tab = r.tab /\ q.kind = r.kind /\ q.why = r.why
        /\ q.body \in {r.body, row.body, 0}
        /\ q.seen \in {r.seen, row.status, "draft", "discarded"}
    BY <1>0, <1>1, <2>1 DEF Calls
  <2>4. /\ row' \in Rows
        /\ row'.body = row.body \/ (row'.body = r.body /\ r.kind = "patch")
    BY <1>1, <1>2, <1>5 DEF CommitPatch, Rows, Committing
  <2>5. UNCHANGED <<page, texts>>
    BY <1>5 DEF CommitPatch
  <2>6. Becomes(k, q)
    BY <1>0, <1>1, <2>2, <2>3, <2>4, <2>5 DEF Becomes, texts
  <2>7. q.phase = "answered"
    BY <1>0, <2>1 DEF Calls
  <2>8. Flows(r, q)
    BY <1>1, <1>5, <2>7 DEF CommitPatch, Flows, Rows, Committing, mail, post
  <2>9. Marks(k, q)
    BY <1>5, <2>7, NothingMarked DEF CommitPatch, mail
  <2> QED
    BY <2>6, <2>8, <2>9 DEF Serves
<1>6. CASE CommitDiscard(k)
  <2>1. PICK q : q = [r EXCEPT !.phase = "answered"]
    OBVIOUS
  <2>2. request' = [request EXCEPT ![k] = q]
    BY <1>1, <1>6, <2>1 DEF CommitDiscard
  <2>3. /\ q \in Calls /\ q.tab = r.tab /\ q.kind = r.kind /\ q.why = r.why
        /\ q.body \in {r.body, row.body, 0}
        /\ q.seen \in {r.seen, row.status, "draft", "discarded"}
    BY <1>0, <1>1, <2>1 DEF Calls
  <2>4. /\ row' \in Rows
        /\ row'.body = row.body \/ (row'.body = r.body /\ r.kind = "patch")
    BY <1>1, <1>2, <1>6 DEF CommitDiscard, Rows, Committing
  <2>5. UNCHANGED <<page, texts>>
    BY <1>6 DEF CommitDiscard
  <2>6. Becomes(k, q)
    BY <1>0, <1>1, <2>2, <2>3, <2>4, <2>5 DEF Becomes, texts
  <2>7. q.phase = "answered"
    BY <1>0, <2>1 DEF Calls
  <2>8. Flows(r, q)
    BY <1>1, <1>6, <2>7 DEF CommitDiscard, Flows, Rows, Committing, mail, post
  <2>9. Marks(k, q)
    BY <1>6, <2>7, NothingMarked DEF CommitDiscard, mail
  <2> QED
    BY <2>6, <2>8, <2>9 DEF Serves
<1>7. CASE CommitRemove(k)
  <2>1. PICK q : q = [r EXCEPT !.phase = "answered"]
    OBVIOUS
  <2>2. request' = [request EXCEPT ![k] = q]
    BY <1>1, <1>7, <2>1 DEF CommitRemove
  <2>3. /\ q \in Calls /\ q.tab = r.tab /\ q.kind = r.kind /\ q.why = r.why
        /\ q.body \in {r.body, row.body, 0}
        /\ q.seen \in {r.seen, row.status, "draft", "discarded"}
    BY <1>0, <1>1, <2>1 DEF Calls
  <2>4. /\ row' \in Rows
        /\ row'.body = row.body \/ (row'.body = r.body /\ r.kind = "patch")
    BY <1>1, <1>2, <1>7 DEF CommitRemove, Rows, Committing
  <2>5. UNCHANGED <<page, texts>>
    BY <1>7 DEF CommitRemove
  <2>6. Becomes(k, q)
    BY <1>0, <1>1, <2>2, <2>3, <2>4, <2>5 DEF Becomes, texts
  <2>7. q.phase = "answered"
    BY <1>0, <2>1 DEF Calls
  <2>8. Flows(r, q)
    BY <1>1, <1>7, <2>7 DEF CommitRemove, Flows, Rows, Committing, mail, post
  <2>9. Marks(k, q)
    BY <1>7, <2>7, NothingMarked DEF CommitRemove, mail
  <2> QED
    BY <2>6, <2>8, <2>9 DEF Serves
<1>8. CASE Fence(k)
  <2>1. PICK q : q = [r EXCEPT !.phase = "fenced"]
    OBVIOUS
  <2>2. request' = [request EXCEPT ![k] = q]
    BY <1>1, <1>8, <2>1 DEF Fence
  <2>3. /\ q \in Calls /\ q.tab = r.tab /\ q.kind = r.kind /\ q.why = r.why
        /\ q.body \in {r.body, row.body, 0}
        /\ q.seen \in {r.seen, row.status, "draft", "discarded"}
    BY <1>0, <1>1, <2>1 DEF Calls
  <2>4. /\ row' \in Rows
        /\ row'.body = row.body \/ (row'.body = r.body /\ r.kind = "patch")
    BY <1>1, <1>2, <1>8 DEF Fence, Rows, Committing
  <2>5. UNCHANGED <<page, texts>>
    BY <1>8 DEF Fence
  <2>6. Becomes(k, q)
    BY <1>0, <1>1, <2>2, <2>3, <2>4, <2>5 DEF Becomes, texts
  <2>7. q.phase = "fenced"
    BY <1>0, <2>1 DEF Calls
  <2>8. Flows(r, q)
    BY <1>1, <1>8, <2>7 DEF Fence, Flows, Rows, Committing, mail, post
  <2>9. Marks(k, q)
    BY <1>8, <2>7, NothingMarked DEF Fence, mail
  <2> QED
    BY <2>6, <2>8, <2>9 DEF Serves
<1>9. CASE SmtpAccepts(k)
  <2>1. PICK q : q = [r EXCEPT !.phase = "mailed"]
    OBVIOUS
  <2>2. request' = [request EXCEPT ![k] = q]
    BY <1>1, <1>9, <2>1 DEF SmtpAccepts
  <2>3. /\ q \in Calls /\ q.tab = r.tab /\ q.kind = r.kind /\ q.why = r.why
        /\ q.body \in {r.body, row.body, 0}
        /\ q.seen \in {r.seen, row.status, "draft", "discarded"}
    BY <1>0, <1>1, <2>1 DEF Calls
  <2>4. /\ row' \in Rows
        /\ row'.body = row.body \/ (row'.body = r.body /\ r.kind = "patch")
    BY <1>1, <1>2, <1>9 DEF SmtpAccepts, Rows, Committing
  <2>5. UNCHANGED <<page, texts>>
    BY <1>9 DEF SmtpAccepts
  <2>6. Becomes(k, q)
    BY <1>0, <1>1, <2>2, <2>3, <2>4, <2>5 DEF Becomes, texts
  <2>7. q.phase = "mailed"
    BY <1>0, <2>1 DEF Calls
  <2>8. Flows(r, q)
    BY <1>1, <1>9, <2>7 DEF SmtpAccepts, Flows, Rows, Committing, mail, post, Deliver
  <2>9. Marks(k, q)
    BY <1>9, <2>7, NothingMarked DEF SmtpAccepts, mail
  <2> QED
    BY <2>6, <2>8, <2>9 DEF Serves
<1>10. CASE RecordSent(k)
  <2>1. PICK q : q = [r EXCEPT !.phase = "answered"]
    OBVIOUS
  <2>2. request' = [request EXCEPT ![k] = q]
    BY <1>1, <1>10, <2>1 DEF RecordSent
  <2>3. /\ q \in Calls /\ q.tab = r.tab /\ q.kind = r.kind /\ q.why = r.why
        /\ q.body \in {r.body, row.body, 0}
        /\ q.seen \in {r.seen, row.status, "draft", "discarded"}
    BY <1>0, <1>1, <2>1 DEF Calls
  <2>4. /\ row' \in Rows
        /\ row'.body = row.body \/ (row'.body = r.body /\ r.kind = "patch")
    BY <1>1, <1>2, <1>10 DEF RecordSent, Rows, Committing
  <2>5. UNCHANGED <<page, texts>>
    BY <1>10 DEF RecordSent
  <2>6. Becomes(k, q)
    BY <1>0, <1>1, <2>2, <2>3, <2>4, <2>5 DEF Becomes, texts
  <2>7. q.phase = "answered"
    BY <1>0, <2>1 DEF Calls
  <2>8. Flows(r, q)
    BY <1>1, <1>10, <2>7 DEF RecordSent, Flows, Rows, Committing, mail, post
  <2>9. Marks(k, q)
    BY <1>10, <2>7, NothingMarked DEF RecordSent, mail
  <2> QED
    BY <2>6, <2>8, <2>9 DEF Serves
<1>11. CASE SmtpFails(k)
  <2>1. PICK q : q = [r EXCEPT !.phase = "rejected"]
    OBVIOUS
  <2>2. request' = [request EXCEPT ![k] = q]
    BY <1>1, <1>11, <2>1 DEF SmtpFails
  <2>3. /\ q \in Calls /\ q.tab = r.tab /\ q.kind = r.kind /\ q.why = r.why
        /\ q.body \in {r.body, row.body, 0}
        /\ q.seen \in {r.seen, row.status, "draft", "discarded"}
    BY <1>0, <1>1, <2>1 DEF Calls
  <2>4. /\ row' \in Rows
        /\ row'.body = row.body \/ (row'.body = r.body /\ r.kind = "patch")
    BY <1>1, <1>2, <1>11 DEF SmtpFails, Rows, Committing
  <2>5. UNCHANGED <<page, texts>>
    BY <1>11 DEF SmtpFails
  <2>6. Becomes(k, q)
    BY <1>0, <1>1, <2>2, <2>3, <2>4, <2>5 DEF Becomes, texts
  <2>7. q.phase = "rejected"
    BY <1>0, <2>1 DEF Calls
  <2>8. Flows(r, q)
    BY <1>1, <1>11, <2>7 DEF SmtpFails, Flows, Rows, Committing, mail, post, Deliver
  <2>9. Marks(k, q)
    BY <1>11, <2>7, NothingMarked DEF SmtpFails, mail
  <2> QED
    BY <2>6, <2>8, <2>9 DEF Serves
<1>13. CASE Crash(k) \/ Drop(k) \/ RecordFailed(k)
  <2>1. /\ Refuse(k) /\ UNCHANGED <<page, texts, mail>>
        /\ \/ UNCHANGED row
           \/ r.phase = "rejected" /\ row' = [row EXCEPT !.status = "failed"]
    BY <1>13 DEF Crash, Drop, RecordFailed
  <2>2. versions' \in Versions /\ UNCHANGED accepted
    BY <1>1, <2>1 DEF texts
  <2> QED
    BY <1>0, <2>1, <2>2, RefusedShape
\* A handler that refuses changes nothing.
<1>14. ASSUME Refuse(k), UNCHANGED <<row, page, texts, mail>>
       PROVE  \E q : Serves(k, q)
  BY <1>0, <1>1, <1>14, RefusedShape DEF texts
<1>15. CASE PreviewWriting(k)
  <2>1. CASE Refuse(k) /\ UNCHANGED versions
    BY <1>14, <1>15, <2>1 DEF PreviewWriting, texts
  <2>2. CASE /\ versions < MaxVersion /\ versions' = versions + 1
             /\ request' = [request EXCEPT ![k].phase = "answered", ![k].body = versions']
    <3>1. versions' \in Versions
      BY <1>1, <2>2 DEF Versions
    <3>2. PICK q : q = [r EXCEPT !.phase = "answered", !.body = versions']
      OBVIOUS
    <3>3. request' = [request EXCEPT ![k] = q]
      BY <1>1, <2>2, <3>2
    <3>4. /\ q \in Calls /\ q.tab = r.tab /\ q.kind = r.kind /\ q.why = r.why
          /\ q.seen = r.seen /\ q.phase = "answered"
      BY <1>0, <1>1, <3>1, <3>2 DEF Calls
    <3>5. q.kind = "preview" /\ UNCHANGED <<row, page, accepted, mail>>
      BY <1>15, <3>4 DEF PreviewWriting, Travelling
    <3>6. Becomes(k, q)
      BY <1>0, <1>1, <3>1, <3>3, <3>4, <3>5 DEF Becomes
    <3>7. Flows(r, q)
      BY <3>4, <3>5 DEF Flows, mail, post
    <3>8. Marks(k, q)
      BY <3>4, <3>5, NothingMarked DEF mail
    <3> QED
      BY <3>6, <3>7, <3>8 DEF Serves
  <2> QED
    BY <1>15, <2>1, <2>2 DEF PreviewWriting
\* What a handler that goes on has loaded.
<1>16. ASSUME RowEditable, request' = [request EXCEPT ![k] = Loaded(r)],
              UNCHANGED <<row, page, texts, post, cut>>,
              overlapped' \in BOOLEAN,
              ~ overlapped' => ~ overlapped /\ (r.kind = "send" => ~ BeforeFence(k))
       PROVE  \E q : Serves(k, q)
  <2>1. PICK q : q = Loaded(r)
    OBVIOUS
  <2>2. /\ q \in Calls /\ q.tab = r.tab /\ q.kind = r.kind /\ q.why = r.why
        /\ q.body \in {r.body, row.body} /\ q.seen = row.status /\ q.phase = "loaded"
    BY <1>0, <1>1, <1>2, <2>1 DEF Loaded, Calls
  <2>3. Becomes(k, q)
    BY <1>0, <1>1, <1>16, <2>1, <2>2 DEF Becomes, texts
  <2>4. Flows(r, q)
    BY <1>16, <2>2 DEF Flows
  <2>5. Marks(k, q)
    BY <1>16, <2>2 DEF Marks
  <2> QED
    BY <2>3, <2>4, <2>5 DEF Serves
<1>17. CASE LoadToSend(k)
  <2>1. UNCHANGED <<row, page, texts, post, cut>>
    BY <1>17 DEF LoadToSend, post
  <2>2. CASE /\ Sendable /\ request' = [request EXCEPT ![k] = Loaded(@)]
             /\ overlapped' = (overlapped \/ BeforeFence(k))
    <3>1. /\ overlapped' \in BOOLEAN
          /\ ~ overlapped' => ~ overlapped /\ ~ BeforeFence(k)
      BY <2>2, Zenon
    <3>2. request' = [request EXCEPT ![k] = Loaded(r)] /\ RowEditable
      BY <1>1, <2>2 DEF Sendable
    <3> QED
      BY <1>16, <2>1, <3>1, <3>2
  <2>3. CASE request' = [request EXCEPT ![k].phase = "answered"] /\ UNCHANGED overlapped
    <3>1. PICK q : q = [r EXCEPT !.phase = "answered"]
      OBVIOUS
    <3>2. request' = [request EXCEPT ![k] = q]
      BY <1>1, <2>3, <3>1
    <3>3. /\ q \in Calls /\ q.tab = r.tab /\ q.kind = r.kind /\ q.why = r.why
          /\ q.body = r.body /\ q.seen = r.seen /\ q.phase = "answered"
      BY <1>0, <1>1, <3>1 DEF Calls
    <3>4. Becomes(k, q)
      BY <1>0, <1>1, <2>1, <3>2, <3>3 DEF Becomes, texts
    <3>5. Flows(r, q)
      BY <2>1, <3>3 DEF Flows
    <3>6. Marks(k, q)
      BY <2>1, <2>3, <3>3, NothingMarked
    <3> QED
      BY <3>4, <3>5, <3>6 DEF Serves
  <2>4. CASE Refuse(k) /\ UNCHANGED overlapped
    BY <1>14, <2>1, <2>4 DEF mail, post
  <2> QED
    BY <1>17, <2>2, <2>3, <2>4 DEF LoadToSend
<1>18. CASE LoadToChange(k)
  <2>1. UNCHANGED <<row, page, texts, mail>>
    BY <1>18 DEF LoadToChange
  <2>2. \/ RowEditable /\ request' = [request EXCEPT ![k] = Loaded(@)]
        \/ Refuse(k)
    BY <1>18 DEF LoadToChange
  <2>3. r.kind # "send" /\ overlapped \in BOOLEAN
    BY <1>18 DEF LoadToChange, Travelling, TypeOK
  <2>4. CASE Refuse(k)
    BY <1>14, <2>1, <2>4
  <2>5. CASE RowEditable /\ request' = [request EXCEPT ![k] = Loaded(@)]
    <3>1. UNCHANGED <<row, page, texts, post, cut, overlapped>>
      BY <2>1 DEF mail, post
    <3>2. request' = [request EXCEPT ![k] = Loaded(r)]
      BY <1>1, <2>5
    <3> QED
      BY <1>16, <2>3, <2>5, <3>1, <3>2
  <2> QED
    BY <2>2, <2>4, <2>5
<1>19. CASE CommitUpload(k)
  <2>1. PICK f \in r.files :
           /\ row' = [row EXCEPT !.files = @ \cup {f}]
           /\ request' = [request EXCEPT ![k].phase = "answered", ![k].files = @ \ {f}]
    BY <1>19 DEF CommitUpload
  <2>2. PICK q : q = [r EXCEPT !.phase = "answered", !.files = @ \ {f}]
    OBVIOUS
  <2>3. request' = [request EXCEPT ![k] = q]
    BY <1>1, <2>1, <2>2
  <2>4. /\ q \in Calls /\ q.tab = r.tab /\ q.kind = r.kind /\ q.why = r.why
        /\ q.body = r.body /\ q.seen = r.seen /\ q.phase = "answered"
    BY <1>0, <1>1, <1>2, <2>2 DEF Calls
  <2>5. row' \in Rows /\ row'.body = row.body /\ row'.status = row.status
    BY <1>1, <1>2, <2>1 DEF Rows
  <2>6. UNCHANGED <<page, texts, mail>>
    BY <1>19 DEF CommitUpload
  <2>7. Becomes(k, q)
    BY <1>0, <1>1, <2>3, <2>4, <2>5, <2>6 DEF Becomes, texts
  <2>8. Flows(r, q)
    BY <2>4, <2>5, <2>6 DEF Flows, mail, post
  <2>9. Marks(k, q)
    BY <2>4, <2>6, NothingMarked DEF mail
  <2> QED
    BY <2>7, <2>8, <2>9 DEF Serves
<1> QED
  BY <1>3, <1>4, <1>5, <1>6, <1>7, <1>8, <1>9, <1>10, <1>11, <1>13, <1>15, <1>17,
     <1>18, <1>19 DEF ServerStep

-----------------------------------------------------------------------------
(* Types, and what a step is. *)

RequestsWellFormed ==
  \A k \in Requests : request[k] \in Calls => WellFormed(request[k])

TypeInv == TypeOK /\ RequestsWellFormed

LEMMA StepShape ==
  ASSUME TypeInv, [Next]_vars
  PROVE  \/ \E t \in Tabs : \E k, q, p : Asks(t, k, q, p)
         \/ \E t \in Tabs : \E p : Edits(t, p)
         \/ \E k \in Requests : \E q, p : Handles(k, q, p)
         \/ \E k \in Requests : \E q : Serves(k, q)
         \/ \E k, j \in Requests : \E q : Cuts(k, j, q)
         \/ UNCHANGED vars
<1>1. ASSUME NEW t \in Tabs, UserStep(t) \/ Autosave(t) \/ \E k \in Requests : Open(t, k)
      PROVE  \/ \E k, q, p : Asks(t, k, q, p)
             \/ \E p : Edits(t, p)
  <2>1. CASE Type(t) \/ ApplyPreview(t) \/ DropPreview(t)
    BY <2>1, EditShape DEF TypeInv
  <2>2. CASE Autosave(t)
    BY <2>2, AutosaveShape DEF TypeInv
  <2>3. ASSUME NEW k \in Requests,
               \/ Open(t, k) \/ Save(t, k) \/ Send(t, k) \/ Discard(t, k) \/ RunAI(t, k)
               \/ \E F \in SUBSET Files : AddFiles(t, k, F)
               \/ \E f \in Files : RemoveFile(t, k, f)
        PROVE  \E q, p : Asks(t, k, q, p)
    BY <2>3, AskShape DEF TypeInv
  <2> QED
    BY <1>1, <2>1, <2>2, <2>3 DEF UserStep
<1>2. ASSUME NEW k \in Requests, PageStep(k)
      PROVE  \E q, p : Handles(k, q, p)
  BY <1>2, AnswerShape DEF TypeInv, RequestsWellFormed
<1>3. ASSUME NEW k \in Requests, ServerStep(k) \/ SmtpFails(k) \/ Crash(k) \/ Drop(k)
      PROVE  \E q : Serves(k, q)
  BY <1>3, ServeShape DEF TypeInv
<1>4. ASSUME NEW k \in Requests, NEW j \in Requests, Cut(k, j)
      PROVE  \E q : Cuts(k, j, q)
  BY <1>4, CutShape DEF TypeInv
<1> QED
  BY <1>1, <1>2, <1>3, <1>4 DEF Next

LEMMA CounterTypes ==
  ASSUME TypeOK, [Next]_vars
  PROVE  commands' \in Nat /\ incidents' \in Nat
<1>1. commands \in Nat /\ incidents \in Nat
  BY DEF TypeOK
<1> DEFINE Count(n, m) == m \in {n, n + 1}
<1>2. ASSUME NEW t \in Tabs, Type(t) \/ ApplyPreview(t) \/ DropPreview(t) \/ Autosave(t)
      PROVE  UNCHANGED <<commands, incidents>>
  BY <1>2 DEF Type, ApplyPreview, DropPreview, Autosave
<1>3. ASSUME NEW t \in Tabs, NEW k \in Requests,
             \/ Open(t, k) \/ Save(t, k) \/ Send(t, k) \/ Discard(t, k) \/ RunAI(t, k)
             \/ \E F \in SUBSET Files : AddFiles(t, k, F)
             \/ \E f \in Files : RemoveFile(t, k, f)
      PROVE  Count(commands, commands') /\ UNCHANGED incidents
  BY <1>3 DEF Open, Save, Send, Discard, RunAI, AddFiles, RemoveFile, Command
<1>4. ASSUME NEW k \in Requests, PageStep(k)
      PROVE  UNCHANGED <<commands, incidents>>
  BY <1>4 DEF PageStep, SaveAnswered, CheckAnswered, SendAnswered, GetAnswered,
     DiscardAnswered, UploadAnswered, RemoveAnswered, PreviewAnswered, Forget
<1>5. ASSUME NEW k \in Requests, ServerStep(k)
      PROVE  UNCHANGED <<commands, incidents>>
  BY <1>5 DEF ServerStep, ReadDraft, CheckBeforeSend, PreviewWriting, LoadToSend,
     LoadToChange, CommitPatch, CommitDiscard, CommitUpload, CommitRemove, Fence,
     SmtpAccepts, RecordSent, RecordFailed
<1>6. ASSUME NEW k \in Requests,
             SmtpFails(k) \/ Crash(k) \/ Drop(k) \/ \E j \in Requests : Cut(k, j)
      PROVE  UNCHANGED commands /\ Count(incidents, incidents')
  BY <1>6 DEF SmtpFails, Crash, Drop, Cut, Incident
<1>7. Count(commands, commands') /\ Count(incidents, incidents')
  BY <1>2, <1>3, <1>4, <1>5, <1>6 DEF Next, vars, UserStep
<1> QED
  BY <1>1, <1>7

\* After a cut: request k goes on without its page, and j holds what the page gets.
LEMMA CutFacts ==
  ASSUME TypeInv, NEW k \in Requests, NEW j \in Requests, NEW q, Cuts(k, j, q)
  PROVE  /\ k # j /\ request[k] \in Calls /\ request[j] \notin Calls
         /\ \A i \in Requests \ {j, k} : request'[i] = request[i]
         /\ request'[j] = q /\ q \in Calls /\ WellFormed(q)
         /\ request'[k] \in Calls /\ WellFormed(request'[k])
         /\ request'[k].tab = request[k].tab /\ request'[k].kind = request[k].kind
         /\ request'[k].body = request[k].body /\ request'[k].phase = request[k].phase
         /\ request'[k].seen = request[k].seen /\ request'[k].why = "lost"
         /\ request' \in [Requests -> Calls \cup {Idle}]
<1>0. /\ request \in [Requests -> Calls \cup {Idle}] /\ Idle \notin Calls
      /\ request[k] \in Calls /\ WellFormed(request[k])
  BY CallOrIdle DEF TypeInv, TypeOK, RequestsWellFormed, Cuts
<1>1. PICK c : c = [request[k] EXCEPT !.why = "lost"]
  OBVIOUS
<1>2. /\ c \in Calls /\ c.tab = request[k].tab /\ c.kind = request[k].kind
      /\ c.body = request[k].body /\ c.phase = request[k].phase
      /\ c.seen = request[k].seen /\ c.why = "lost"
  BY <1>0, <1>1 DEF Calls, Whys
<1>3. WellFormed(c)
  BY <1>0, <1>2 DEF WellFormed
<1>4. k # j /\ request[j] \notin Calls
  BY <1>0 DEF Cuts
<1>5. request' = [request EXCEPT ![k] = c, ![j] = q] /\ q \in Calls
  BY <1>1 DEF Cuts
<1>6. WellFormed(q)
  BY <1>0 DEF Cuts, WellFormed
<1> QED
  BY <1>0, <1>2, <1>3, <1>4, <1>5, <1>6

LEMMA TypeStep ==
  ASSUME TypeInv, [Next]_vars
  PROVE  TypeInv'
<1>0. /\ row \in Rows /\ page \in [Tabs -> Pages]
      /\ request \in [Requests -> Calls \cup {Idle}]
      /\ versions \in Versions /\ accepted \in SUBSET Versions
      /\ delivered \in SUBSET Versions /\ deliveries \in Nat /\ failures \in Nat
      /\ RequestsWellFormed /\ Idle \notin Calls
  BY CallOrIdle DEF TypeInv, TypeOK
<1>b. overlapped \in BOOLEAN /\ cut \in BOOLEAN
  BY DEF TypeInv, TypeOK
<1>1. commands' \in Nat /\ incidents' \in Nat
  BY CounterTypes DEF TypeInv
<1>2. ASSUME NEW t \in Tabs, NEW k, NEW q, NEW p, Asks(t, k, q, p)
      PROVE  TypeInv'
  <2>1. overlapped' \in BOOLEAN /\ cut' \in BOOLEAN
    BY <1>b, <1>2, Zenon DEF Asks, mail
  <2> QED
    BY <1>0, <1>1, <1>2, <2>1 DEF Asks, TypeInv, TypeOK, RequestsWellFormed, texts, mail
<1>3. ASSUME NEW t \in Tabs, NEW p, Edits(t, p)
      PROVE  TypeInv'
  <2>1. overlapped' \in BOOLEAN /\ cut' \in BOOLEAN
    BY <1>b, <1>3, Zenon DEF Edits, mail
  <2> QED
    BY <1>0, <1>1, <1>3, <2>1 DEF Edits, TypeInv, TypeOK, RequestsWellFormed, mail
<1>4. ASSUME NEW k \in Requests, NEW q, NEW p, Handles(k, q, p)
      PROVE  TypeInv'
  <2>1. overlapped' \in BOOLEAN /\ cut' \in BOOLEAN
    BY <1>b, <1>4, Zenon DEF Handles, mail
  <2> QED
    BY <1>0, <1>1, <1>4, <2>1 DEF Handles, TypeInv, TypeOK, RequestsWellFormed, texts, mail
<1>5. ASSUME NEW k \in Requests, NEW q, Serves(k, q)
      PROVE  TypeInv'
  <2>1. request[k].body \in Versions /\ WellFormed(request[k])
    BY <1>0, <1>5 DEF Serves, Becomes, Calls, RequestsWellFormed
  <2>2. /\ delivered' \in SUBSET Versions /\ deliveries' \in Nat /\ failures' \in Nat
    BY <1>0, <1>5, <2>1 DEF Serves, Flows, post
  <2>b. overlapped' \in BOOLEAN /\ cut' \in BOOLEAN
    BY <1>b, <1>5, Zenon DEF Serves, Marks
  <2>3. WellFormed(q)
    BY <1>5, <2>1 DEF Serves, Becomes, Flows, WellFormed
  <2>4. RequestsWellFormed'
    BY <1>0, <1>5, <2>3 DEF Serves, Becomes, RequestsWellFormed
  <2>5. TypeOK'
    BY <1>0, <1>1, <1>5, <2>2, <2>b DEF Serves, Becomes, TypeOK
  <2> QED
    BY <2>4, <2>5 DEF TypeInv
<1>7. ASSUME NEW k \in Requests, NEW j \in Requests, NEW q, Cuts(k, j, q)
      PROVE  TypeInv'
  <2>1. overlapped' \in BOOLEAN /\ cut' \in BOOLEAN
    BY <1>b, <1>7, Zenon DEF Cuts
  <2>2. /\ request' \in [Requests -> Calls \cup {Idle}]
        /\ UNCHANGED <<row, page, versions, accepted, delivered, deliveries, failures>>
    BY <1>7, CutFacts DEF Cuts, texts, post
  <2>3. RequestsWellFormed'
    BY <1>0, <1>7, CutFacts DEF RequestsWellFormed
  <2>4. TypeOK'
    BY <1>0, <1>1, <2>1, <2>2 DEF TypeOK
  <2> QED
    BY <2>3, <2>4 DEF TypeInv
<1>6. CASE UNCHANGED vars
  BY <1>6 DEF TypeInv, TypeOK, RequestsWellFormed, WellFormed, vars, texts, mail
<1> QED
  BY <1>2, <1>3, <1>4, <1>5, <1>6, <1>7, StepShape

LEMMA TypesHold == Spec => []TypeInv
<1>1. Init => TypeInv
  <2> SUFFICES ASSUME Init PROVE TypeInv
    OBVIOUS
  <2>1. 0 \in Versions
    BY DEF Versions
  <2>2. \A k \in Requests : request[k] \notin Calls
    BY DEF Init, Idle, Calls, Kinds
  <2>3. overlapped \in BOOLEAN /\ cut \in BOOLEAN
    BY Zenon DEF Init
  <2> QED
    BY <2>1, <2>2, <2>3, OpenedAssumption
       DEF Init, TypeInv, TypeOK, RequestsWellFormed, Rows, Pages, Statuses
<1>2. TypeInv /\ [Next]_vars => TypeInv'
  BY TypeStep
<1> QED
  BY <1>1, <1>2, PTL DEF Spec

\* Every variable of the compose page and of the server keeps its type.
THEOREM ComposeTypes == Spec => []TypeOK
<1>1. TypeInv => TypeOK
  BY DEF TypeInv
<1> QED
  BY <1>1, TypesHold, PTL

-----------------------------------------------------------------------------
(* Only accepted texts. *)

\* Whatever may become the text of the mail was typed or applied by a user; only a
\* preview on its way carries another one.
AcceptedInv ==
  /\ 0 \in accepted /\ row.body \in accepted
  /\ \A t \in Tabs : page[t].body \in accepted
  /\ \A k \in Requests :
       request[k] \in Calls /\ request[k].kind # "preview" => request[k].body \in accepted
  /\ delivered \subseteq accepted

LEMMA AcceptedStep ==
  ASSUME TypeInv, AcceptedInv, [Next]_vars
  PROVE  AcceptedInv'
<1>0. /\ page \in [Tabs -> Pages] /\ request \in [Requests -> Calls \cup {Idle}]
      /\ Idle \notin Calls /\ RequestsWellFormed
      /\ \A k \in Requests : request[k] \in Calls => request[k].tab \in Tabs
  BY CallOrIdle DEF TypeInv, TypeOK, Calls
<1>2. ASSUME NEW t \in Tabs, NEW k, NEW q, NEW p, Asks(t, k, q, p)
      PROVE  AcceptedInv'
  BY <1>0, <1>2 DEF Asks, AcceptedInv, texts, mail
<1>3. ASSUME NEW t \in Tabs, NEW p, Edits(t, p)
      PROVE  AcceptedInv'
  BY <1>0, <1>3 DEF Edits, AcceptedInv, mail
<1>4. ASSUME NEW k \in Requests, NEW q, NEW p, Handles(k, q, p)
      PROVE  AcceptedInv'
  BY <1>0, <1>4 DEF Handles, AcceptedInv, texts, mail
<1>5. ASSUME NEW k \in Requests, NEW q, Serves(k, q)
      PROVE  AcceptedInv'
  <2>1. UNCHANGED <<page, accepted>> /\ row'.body \in accepted
    BY <1>5 DEF Serves, Becomes, AcceptedInv
  <2>2. q.kind # "preview" => q.body \in accepted
    BY <1>5 DEF Serves, Becomes, AcceptedInv
  <2>3. request'= [request EXCEPT ![k] = q]
    BY <1>5 DEF Serves, Becomes
  <2>4. delivered' \subseteq accepted
    BY <1>5 DEF Serves, Becomes, Flows, AcceptedInv, post
  <2> QED
    BY <1>0, <2>1, <2>2, <2>3, <2>4 DEF AcceptedInv
<1>6. ASSUME NEW k \in Requests, NEW j \in Requests, NEW q, Cuts(k, j, q)
      PROVE  AcceptedInv'
  <2>1. q.body = 0 /\ UNCHANGED <<row, page, accepted, delivered>>
    BY <1>6 DEF Cuts, texts, post
  <2> QED
    BY <1>0, <1>6, <2>1, CutFacts DEF AcceptedInv
<1>7. CASE UNCHANGED vars
  BY <1>7 DEF AcceptedInv, vars, texts, mail
<1> QED
  BY <1>2, <1>3, <1>4, <1>5, <1>6, <1>7, StepShape

\* The delivered text is one that a user has typed or applied: no preview of the AI
\* reaches the stored draft or the mail by any interleaving of saves, previews,
\* reloads and sends, for any number of pages and requests.
THEOREM OnlyAcceptedIsSent == Spec => []OnlyAccepted
<1>1. Init => AcceptedInv
  <2> SUFFICES ASSUME Init PROVE AcceptedInv
    OBVIOUS
  <2>1. \A k \in Requests : request[k] \notin Calls
    BY DEF Init, Idle, Calls, Kinds
  <2> QED
    BY <2>1 DEF Init, AcceptedInv
<1>2. TypeInv /\ AcceptedInv /\ [Next]_vars => AcceptedInv'
  BY AcceptedStep
<1>3. AcceptedInv => OnlyAccepted
  BY DEF AcceptedInv, OnlyAccepted
<1> QED
  BY <1>1, <1>2, <1>3, TypesHold, PTL DEF Spec

-----------------------------------------------------------------------------
(* "sent" is true. *)

\* Before the first delivery nothing says that the mail was sent.
SentInv ==
  delivered = {} =>
    /\ row.status # "sent"
    /\ \A t \in Tabs : page[t].draft # "sent"
    /\ \A k \in Requests : request[k] \in Calls =>
         request[k].seen # "sent" /\ request[k].phase # "mailed"

LEMMA SentStep ==
  ASSUME TypeInv, SentInv, [Next]_vars
  PROVE  SentInv'
<1>0. /\ page \in [Tabs -> Pages] /\ request \in [Requests -> Calls \cup {Idle}]
      /\ Idle \notin Calls
      /\ \A k \in Requests : request[k] \in Calls => request[k].tab \in Tabs
  BY CallOrIdle DEF TypeInv, TypeOK, Calls
<1>2. ASSUME NEW t \in Tabs, NEW k, NEW q, NEW p, Asks(t, k, q, p)
      PROVE  SentInv'
  BY <1>0, <1>2 DEF Asks, SentInv, mail
<1>3. ASSUME NEW t \in Tabs, NEW p, Edits(t, p)
      PROVE  SentInv'
  BY <1>0, <1>3 DEF Edits, SentInv, mail
<1>4. ASSUME NEW k \in Requests, NEW q, NEW p, Handles(k, q, p)
      PROVE  SentInv'
  BY <1>0, <1>4 DEF Handles, SentInv, mail
<1>5. ASSUME NEW k \in Requests, NEW q, Serves(k, q)
      PROVE  SentInv'
  <2> SUFFICES ASSUME delivered' = {} PROVE SentInv'
    BY DEF SentInv
  <2>1. delivered = {} /\ request[k].seen # "sent" /\ request[k].phase # "mailed"
    BY <1>5 DEF Serves, Becomes, Flows, SentInv, post
  <2>2. q.phase # "mailed" /\ row'.status # "sent" /\ q.seen # "sent"
    BY <1>5, <2>1 DEF Serves, Becomes, Flows, SentInv
  <2> QED
    BY <1>0, <1>5, <2>1, <2>2 DEF Serves, Becomes, SentInv
<1>6. ASSUME NEW k \in Requests, NEW j \in Requests, NEW q, Cuts(k, j, q)
      PROVE  SentInv'
  <2>1. /\ q.seen = "draft" /\ q.phase = "answered"
        /\ UNCHANGED <<row, page, delivered>>
    BY <1>6 DEF Cuts, post
  <2> QED
    BY <1>0, <1>6, <2>1, CutFacts DEF SentInv
<1>7. CASE UNCHANGED vars
  BY <1>7 DEF SentInv, vars, mail
<1> QED
  BY <1>2, <1>3, <1>4, <1>5, <1>6, <1>7, StepShape

\* A draft stored or shown as sent was delivered, for any number of pages, requests
\* and incidents, however late an answer arrives.
THEOREM SentIsTrue == Spec => []SentWasDelivered
<1>1. Init => SentInv
  <2> SUFFICES ASSUME Init PROVE SentInv
    OBVIOUS
  <2>1. \A k \in Requests : request[k] \notin Calls
    BY DEF Init, Idle, Calls, Kinds
  <2> QED
    BY <2>1, OpenedAssumption DEF Init, SentInv
<1>2. TypeInv /\ SentInv /\ [Next]_vars => SentInv'
  BY SentStep
<1>3. SentInv => SentWasDelivered
  BY DEF SentInv, SentWasDelivered
<1> QED
  BY <1>1, <1>2, <1>3, TypesHold, PTL DEF Spec

-----------------------------------------------------------------------------
(* Delivered once. *)

\* The request belongs to sending from its tab.
InChain(k) == request[k] \in Calls /\ request[k].why \in Chain

\* A tab sends one thing at a time, and shows it, as far as the page knows.
ChainInv ==
  /\ ~ cut => \A k \in Requests : request[k] \in Calls => request[k].why # "lost"
  /\ \A k \in Requests : InChain(k) => page[request[k].tab].sending
  /\ \A j, k \in Requests :
       InChain(j) /\ InChain(k) /\ j # k => request[j].tab # request[k].tab

\* A request to send that is in one of the phases.
SendIn(k, phases) ==
  request[k] \in Calls /\ request[k].kind = "send" /\ request[k].phase \in phases

\* Tabs that may still deliver the mail: their request has passed the check.
Sending == {t \in Tabs : \E k \in Requests :
              SendIn(k, {"loaded", "fenced"}) /\ request[k].tab = t}

\* Unless SMTP has failed, the draft is not editable again once it was fenced.
FailInv ==
  failures = 0 =>
    /\ row.status # "failed"
    /\ \A k \in Requests : request[k] \in Calls =>
         /\ request[k].phase # "rejected"
         /\ request[k].phase = "loaded" => request[k].seen = "draft"

OnceInv ==
  failures = 0 /\ ~ cut =>
    /\ deliveries + Cardinality(Sending) <= Cardinality(Tabs)
    /\ deliveries > 0 \/ (\E k \in Requests : SendIn(k, {"fenced", "mailed"}))
         => row.status \notin {"draft", "failed"}

LEMMA ChainStep ==
  ASSUME TypeInv, ChainInv, [Next]_vars
  PROVE  ChainInv'
<1>0. /\ page \in [Tabs -> Pages] /\ request \in [Requests -> Calls \cup {Idle}]
      /\ Idle \notin Calls
      /\ \A k \in Requests : request[k] \in Calls => request[k].tab \in Tabs
  BY CallOrIdle DEF TypeInv, TypeOK, Calls
<1>2. ASSUME NEW t \in Tabs, NEW k, NEW q, NEW p, Asks(t, k, q, p)
      PROVE  ChainInv'
  <2>0. UNCHANGED cut /\ q.why # "lost"
    BY <1>2 DEF Asks, mail
  <2>1. \A j \in Requests : j # k => request'[j] = request[j]
    BY <1>0, <1>2 DEF Asks
  <2>2. request'[k] = q /\ q.tab = t /\ ~ InChain(k)
    BY <1>0, <1>2 DEF Asks, InChain
  <2>3. \A s \in Tabs : page[s].sending => page'[s].sending
    BY <1>0, <1>2 DEF Asks
  <2>4. q.why \in Chain => page'[t].sending /\ ~ page[t].sending
    BY <1>0, <1>2 DEF Asks
  <2> QED
    BY <1>0, <2>0, <2>1, <2>2, <2>3, <2>4 DEF ChainInv, InChain
<1>3. ASSUME NEW t \in Tabs, NEW p, Edits(t, p)
      PROVE  ChainInv'
  BY <1>0, <1>3 DEF Edits, ChainInv, InChain, mail
<1>4. ASSUME NEW k \in Requests, NEW q, NEW p, Handles(k, q, p)
      PROVE  ChainInv'
  <2>0. UNCHANGED cut /\ (q = Idle \/ q.why # "lost")
    BY <1>4 DEF Handles, mail
  <2>1. \A j \in Requests : j # k => request'[j] = request[j]
    BY <1>0, <1>4 DEF Handles
  <2>2. /\ request[k] \in Calls /\ request[k].tab \in Tabs /\ request'[k] = q
        /\ q = Idle \/ (q.tab = request[k].tab /\ (q.why \in Chain <=> request[k].why \in Chain))
    BY <1>0, <1>4 DEF Handles
  <2>3. \A s \in Tabs : s # request[k].tab => page'[s] = page[s]
    BY <1>0, <1>4 DEF Handles
  <2>4. \/ page'[request[k].tab].sending = page[request[k].tab].sending
        \/ q = Idle /\ InChain(k)
    BY <1>0, <1>4, <2>2 DEF Handles, InChain
  <2> QED
    BY <1>0, <2>0, <2>1, <2>2, <2>3, <2>4 DEF ChainInv, InChain
<1>5. ASSUME NEW k \in Requests, NEW q, Serves(k, q)
      PROVE  ChainInv'
  BY <1>0, <1>5 DEF Serves, Becomes, Marks, ChainInv, InChain
\* The page's own answer takes the place of the request in its chain.
<1>6. ASSUME NEW k \in Requests, NEW j \in Requests, NEW q, Cuts(k, j, q)
      PROVE  ChainInv'
  <2>1. /\ cut' /\ UNCHANGED page /\ q.why = request[k].why /\ q.tab = request[k].tab
        /\ "lost" \notin Chain
    BY <1>6 DEF Cuts, Chain
  <2>2. /\ InChain(j)' <=> InChain(k)
        /\ ~ InChain(k)'
        /\ \A i \in Requests \ {j, k} : InChain(i)' <=> InChain(i)
    BY <1>6, <2>1, CutFacts DEF InChain
  <2> QED
    BY <1>0, <1>6, <2>1, <2>2, CutFacts DEF ChainInv
<1>7. CASE UNCHANGED vars
  BY <1>7 DEF ChainInv, InChain, vars, mail
<1> QED
  BY <1>2, <1>3, <1>4, <1>5, <1>6, <1>7, StepShape

LEMMA FailStep ==
  ASSUME TypeInv, FailInv, [Next]_vars
  PROVE  FailInv' /\ (failures' = 0 => failures = 0)
<1>0. /\ request \in [Requests -> Calls \cup {Idle}] /\ Idle \notin Calls
      /\ row.status \in Statuses /\ failures \in Nat
  BY CallOrIdle DEF TypeInv, TypeOK, Rows
<1>2. ASSUME NEW t \in Tabs, NEW k, NEW q, NEW p, Asks(t, k, q, p)
      PROVE  FailInv' /\ UNCHANGED failures
  BY <1>0, <1>2 DEF Asks, FailInv, mail
<1>3. ASSUME NEW t \in Tabs, NEW p, Edits(t, p)
      PROVE  FailInv' /\ UNCHANGED failures
  BY <1>0, <1>3 DEF Edits, FailInv, mail
<1>4. ASSUME NEW k \in Requests, NEW q, NEW p, Handles(k, q, p)
      PROVE  FailInv' /\ UNCHANGED failures
  BY <1>0, <1>4 DEF Handles, FailInv, mail
<1>5. ASSUME NEW k \in Requests, NEW q, Serves(k, q)
      PROVE  FailInv' /\ (failures' = 0 => failures = 0)
  <2>1. failures' = 0 => failures = 0
    BY <1>0, <1>5 DEF Serves, Flows, post
  <2>2. ASSUME failures' = 0
        PROVE  /\ row'.status # "failed" /\ q.phase # "rejected"
               /\ q.phase = "loaded" => q.seen = "draft"
    BY <1>0, <1>5, <2>1, <2>2 DEF Serves, Becomes, Flows, FailInv, RowEditable, Statuses
  <2> QED
    BY <1>0, <1>5, <2>1, <2>2 DEF Serves, Becomes, FailInv
<1>6. ASSUME NEW k \in Requests, NEW j \in Requests, NEW q, Cuts(k, j, q)
      PROVE  FailInv' /\ UNCHANGED failures
  <2>1. q.phase = "answered" /\ UNCHANGED <<row, failures>>
    BY <1>6 DEF Cuts, post
  <2> QED
    BY <1>0, <1>6, <2>1, CutFacts DEF FailInv
<1>7. CASE UNCHANGED vars
  BY <1>7 DEF FailInv, vars, mail
<1> QED
  BY <1>2, <1>3, <1>4, <1>5, <1>6, <1>7, StepShape

LEMMA TabSizes ==
  ASSUME IsFiniteSet(Tabs), NEW S \in SUBSET Tabs, NEW T \in SUBSET S
  PROVE  /\ IsFiniteSet(S) /\ Cardinality(S) \in Nat /\ Cardinality(T) \in Nat
         /\ Cardinality(T) <= Cardinality(S)
         /\ Cardinality(S) <= Cardinality(Tabs) /\ Cardinality(Tabs) \in Nat
         /\ \A t \in S : t \notin T => Cardinality(T) + 1 <= Cardinality(S)
<1>1. IsFiniteSet(S)
  BY FS_Subset
<1>2. /\ Cardinality(S) \in Nat /\ Cardinality(T) \in Nat /\ Cardinality(Tabs) \in Nat
      /\ Cardinality(T) <= Cardinality(S) /\ Cardinality(S) <= Cardinality(Tabs)
  BY <1>1, FS_Subset, FS_CardinalityType
<1>3. ASSUME NEW t \in S, t \notin T
      PROVE  Cardinality(T) + 1 <= Cardinality(S)
  <2>1. T \in SUBSET (S \ {t})
    BY <1>3
  <2>2. IsFiniteSet(S \ {t}) /\ Cardinality(S \ {t}) = Cardinality(S) - 1
    BY <1>1, FS_RemoveElement
  <2>3. Cardinality(T) <= Cardinality(S \ {t})
    BY <2>1, <2>2, FS_Subset
  <2> QED
    BY <1>2, <2>2, <2>3
<1> QED
  BY <1>1, <1>2, <1>3

\* A step that lets no other tab deliver, delivers nothing and does not make the
\* draft editable.
LEMMA OnceKept ==
  ASSUME IsFiniteSet(Tabs), TypeInv, OnceInv, failures = 0, ~ cut,
         Sending' \subseteq Sending, UNCHANGED deliveries,
         \/ row'.status \notin {"draft", "failed"}
         \/ /\ row'.status = row.status
            /\ (\E k \in Requests : SendIn(k, {"fenced", "mailed"}))' =>
                 \E k \in Requests : SendIn(k, {"fenced", "mailed"})
  PROVE  OnceInv'
<1>1. /\ Cardinality(Sending') <= Cardinality(Sending)
      /\ Cardinality(Sending') \in Nat /\ Cardinality(Sending) \in Nat
      /\ Cardinality(Tabs) \in Nat /\ deliveries \in Nat
  <2>1. Sending \in SUBSET Tabs /\ Sending' \in SUBSET Sending
    BY DEF Sending
  <2> QED
    BY <2>1, TabSizes DEF TypeInv, TypeOK
<1>2. deliveries' + Cardinality(Sending') <= Cardinality(Tabs)
  BY <1>1 DEF OnceInv
<1> QED
  BY <1>2 DEF OnceInv

LEMMA OnceOfServe ==
  ASSUME IsFiniteSet(Tabs), TypeInv, ChainInv, FailInv, OnceInv,
         failures = 0, failures' = 0, ~ cut, NEW k \in Requests, NEW q, Serves(k, q)
  PROVE  OnceInv'
<1> DEFINE r == request[k]
<1>0. /\ request \in [Requests -> Calls \cup {Idle}] /\ Idle \notin Calls
      /\ row.status \in Statuses /\ deliveries \in Nat
      /\ r \in Calls /\ r.tab \in Tabs /\ RequestsWellFormed /\ WellFormed(r)
  BY CallOrIdle
     DEF TypeInv, TypeOK, Rows, Serves, Becomes, Calls, RequestsWellFormed
<1>1. /\ request' = [request EXCEPT ![k] = q] /\ q \in Calls
      /\ q.tab = r.tab /\ q.kind = r.kind
  BY DEF Serves, Becomes
<1>2. \A j \in Requests : j # k => request'[j] = request[j]
  BY <1>0, <1>1
<1>3. request'[k] = q
  BY <1>0, <1>1
<1>4. Sending \in SUBSET Tabs /\ Sending' \in SUBSET Tabs
  BY DEF Sending
\* The request delivers nothing any more, or could deliver before.
<1>5. q.kind # "send" \/ q.phase \notin {"loaded", "fenced"} \/ SendIn(k, {"loaded", "fenced"})
        => Sending' \subseteq Sending
  BY <1>1, <1>2, <1>3 DEF Sending, SendIn
<1>6. q.phase \notin {"fenced", "mailed"} =>
        ((\E j \in Requests : SendIn(j, {"fenced", "mailed"}))' =>
           \E j \in Requests : SendIn(j, {"fenced", "mailed"}))
  BY <1>2, <1>3 DEF SendIn
<1>7. CASE q.phase = "answered" /\ UNCHANGED post
  <2>1. row'.status \notin {"draft", "failed"} \/ row'.status = row.status
    BY <1>0, <1>7 DEF Serves, Flows, FailInv
  <2>2. Sending' \subseteq Sending /\ UNCHANGED deliveries
    BY <1>5, <1>7 DEF post
  <2> QED
    BY <1>6, <1>7, <2>1, <2>2, OnceKept
<1>8. CASE /\ q.phase = "loaded" /\ row'.status = row.status /\ UNCHANGED post
           /\ RowEditable
  <2>1. row.status \in {"draft", "failed"}
    BY <1>0, <1>8 DEF RowEditable, Statuses
  <2>2. deliveries = 0 /\ ~ \E j \in Requests : SendIn(j, {"fenced", "mailed"})
    BY <1>0, <2>1 DEF OnceInv
  <2>3. Cardinality(Sending') <= Cardinality(Tabs) /\ Cardinality(Sending') \in Nat
    BY <1>4, TabSizes
  <2>4. deliveries' = 0 /\ ~ (\E j \in Requests : SendIn(j, {"fenced", "mailed"}))'
    BY <1>6, <1>8, <2>2 DEF post
  <2> QED
    BY <2>3, <2>4 DEF OnceInv
<1>9. CASE /\ r.phase = "loaded" /\ q.phase = "fenced" /\ r.kind = "send"
           /\ UNCHANGED post /\ row'.status = "sending"
  <2>1. Sending' \subseteq Sending /\ UNCHANGED deliveries
    BY <1>0, <1>5, <1>9 DEF SendIn, post
  <2> QED
    BY <1>9, <2>1, OnceKept
<1>10. CASE /\ r.phase = "fenced" /\ q.phase = "mailed" /\ r.kind = "send"
            /\ row'.status = row.status /\ deliveries' = deliveries + 1
  <2>1. SendIn(k, {"fenced", "mailed"}) /\ r.tab \in Sending
    BY <1>0, <1>10 DEF SendIn, Sending
  <2>2. Sending' \subseteq Sending
    BY <1>0, <1>5, <1>10
  <2>3. r.tab \notin Sending'
    <3>1. SUFFICES ASSUME NEW j \in Requests, SendIn(j, {"loaded", "fenced"})',
                          request'[j].tab = r.tab
                   PROVE  FALSE
      BY DEF Sending
    <3>2. j # k /\ request'[j] = request[j]
      BY <1>2, <1>3, <1>10, <3>1 DEF SendIn
    <3>3. InChain(j) /\ InChain(k)
      BY <1>0, <1>10, <3>1, <3>2
         DEF ChainInv, InChain, SendIn, RequestsWellFormed, WellFormed, Chain
    <3> QED
      BY <3>1, <3>2, <3>3 DEF ChainInv
  <2>4. /\ Cardinality(Sending') + 1 <= Cardinality(Sending)
        /\ Cardinality(Sending') \in Nat /\ Cardinality(Sending) \in Nat
        /\ Cardinality(Tabs) \in Nat
    BY <1>4, <2>1, <2>2, <2>3, TabSizes
  <2>5. deliveries' + Cardinality(Sending') <= Cardinality(Tabs)
    BY <1>0, <1>10, <2>4 DEF OnceInv
  <2>6. row'.status \notin {"draft", "failed"}
    BY <1>10, <2>1 DEF OnceInv
  <2> QED
    BY <2>5, <2>6 DEF OnceInv
<1>11. CASE r.phase = "fenced" /\ q.phase = "rejected" /\ failures' = failures + 1
  BY <1>11
<1> QED
  BY <1>7, <1>8, <1>9, <1>10, <1>11 DEF Serves, Flows

LEMMA OnceStep ==
  ASSUME IsFiniteSet(Tabs), TypeInv, ChainInv, FailInv, OnceInv, [Next]_vars
  PROVE  OnceInv'
<1> SUFFICES ASSUME failures' = 0, ~ cut' PROVE OnceInv'
  BY DEF OnceInv
<1>0. failures = 0
  BY FailStep
<1>1. /\ request \in [Requests -> Calls \cup {Idle}] /\ Idle \notin Calls
  BY CallOrIdle DEF TypeInv, TypeOK
\* What the page does leaves alone what may be delivered.
<1>2. ASSUME UNCHANGED <<row, mail>>,
             \A j \in Requests : \A S \in SUBSET {"loaded", "fenced", "mailed"} :
               SendIn(j, S)' => SendIn(j, S) /\ request'[j].tab = request[j].tab
      PROVE  OnceInv'
  <2>1. Sending' \subseteq Sending
    BY <1>2 DEF Sending
  <2>2. (\E j \in Requests : SendIn(j, {"fenced", "mailed"}))' =>
          \E j \in Requests : SendIn(j, {"fenced", "mailed"})
    BY <1>2
  <2> QED
    BY <1>0, <1>2, <2>1, <2>2, OnceKept DEF mail
<1>3. ASSUME NEW t \in Tabs, NEW k, NEW q, NEW p, Asks(t, k, q, p)
      PROVE  OnceInv'
  BY <1>1, <1>2, <1>3 DEF Asks, SendIn
<1>4. ASSUME NEW t \in Tabs, NEW p, Edits(t, p)
      PROVE  OnceInv'
  BY <1>1, <1>2, <1>4 DEF Edits, SendIn
<1>5. ASSUME NEW k \in Requests, NEW q, NEW p, Handles(k, q, p)
      PROVE  OnceInv'
  BY <1>1, <1>2, <1>5 DEF Handles, SendIn
<1>6. ASSUME NEW k \in Requests, NEW q, Serves(k, q)
      PROVE  OnceInv'
  <2>1. ~ cut
    BY <1>6 DEF Serves, Marks
  <2> QED
    BY <1>0, <1>6, <2>1, OnceOfServe
<1>7. CASE UNCHANGED vars
  BY <1>2, <1>7 DEF SendIn, vars
<1>8. ASSUME NEW k \in Requests, NEW j \in Requests, NEW q, Cuts(k, j, q)
      PROVE  FALSE
  BY <1>8 DEF Cuts
<1> QED
  BY <1>3, <1>4, <1>5, <1>6, <1>7, <1>8, StepShape

\* Before SMTP has reported a failure, every page that shows the draft delivers it
\* at most once, whichever requests and answers are lost and wherever the API dies, as
\* long as no connection is lost under a handler that goes on: the fence is committed
\* before SMTP is touched and nothing undoes it, and a page sends one thing at a time.
THEOREM OncePerTab ==
  IsFiniteSet(Tabs) =>
    (Spec => [](failures = 0 /\ ~ cut => deliveries <= Cardinality(Tabs)))
<1> SUFFICES ASSUME IsFiniteSet(Tabs)
             PROVE  Spec => [](failures = 0 /\ ~ cut => deliveries <= Cardinality(Tabs))
  OBVIOUS
<1> DEFINE IInv == ChainInv /\ FailInv /\ OnceInv
<1>1. Init => IInv
  <2> SUFFICES ASSUME Init PROVE IInv
    OBVIOUS
  <2>1. \A k \in Requests : request[k] \notin Calls
    BY DEF Init, Idle, Calls, Kinds
  <2>2. Sending = {}
    BY <2>1 DEF Sending, SendIn
  <2>3. Cardinality(Sending) = 0 /\ Cardinality(Tabs) \in Nat
    BY <2>2, FS_EmptySet, FS_CardinalityType
  <2>4. failures = 0 => row.status # "failed"
    BY DEF Init
  <2> QED
    BY <2>1, <2>3, <2>4 DEF Init, ChainInv, InChain, FailInv, OnceInv, SendIn
<1>2. TypeInv /\ IInv /\ [Next]_vars => IInv'
  BY ChainStep, FailStep, OnceStep
<1>3. TypeInv /\ IInv => (failures = 0 /\ ~ cut => deliveries <= Cardinality(Tabs))
  <2> SUFFICES ASSUME TypeInv, OnceInv, failures = 0, ~ cut
               PROVE  deliveries <= Cardinality(Tabs)
    OBVIOUS
  <2>1. Sending \in SUBSET Tabs
    BY DEF Sending
  <2>2. Cardinality(Sending) \in Nat /\ Cardinality(Tabs) \in Nat /\ deliveries \in Nat
    BY <2>1, TabSizes DEF TypeInv, TypeOK
  <2> QED
    BY <2>2 DEF OnceInv
<1> QED
  BY <1>1, <1>2, <1>3, TypesHold, PTL DEF Spec

-----------------------------------------------------------------------------
(* Around the fence. *)

\* As long as no send was loaded before the fence of another, one send at a time is
\* between the check of the draft and SMTP, and none once the mail was delivered.
FenceInv ==
  failures = 0 /\ ~ overlapped =>
    /\ deliveries <= 1
    /\ \A j, k \in Requests :
         SendIn(j, {"loaded", "fenced"}) /\ SendIn(k, {"loaded", "fenced"}) => j = k
    /\ deliveries > 0 => \A k \in Requests : ~ SendIn(k, {"loaded", "fenced"})
    /\ deliveries > 0 \/ (\E k \in Requests : SendIn(k, {"fenced", "mailed"}))
         => row.status \notin {"draft", "failed"}

\* Steps that load no send, deliver nothing and do not make the draft editable.
LEMMA FenceKept ==
  ASSUME TypeInv, FenceInv, failures = 0, ~ overlapped, UNCHANGED deliveries,
         \A j \in Requests :
           SendIn(j, {"loaded", "fenced"})' => SendIn(j, {"loaded", "fenced"}),
         \/ row'.status \notin {"draft", "failed"}
         \/ /\ row'.status = row.status
            /\ \A j \in Requests :
                 SendIn(j, {"fenced", "mailed"})' => SendIn(j, {"fenced", "mailed"})
  PROVE  FenceInv'
BY DEF FenceInv

LEMMA FenceOfServe ==
  ASSUME TypeInv, FailInv, FenceInv, failures = 0, failures' = 0, ~ overlapped,
         ~ overlapped', NEW k \in Requests, NEW q, Serves(k, q)
  PROVE  FenceInv'
<1> DEFINE r == request[k]
<1>0. /\ request \in [Requests -> Calls \cup {Idle}] /\ Idle \notin Calls
      /\ row.status \in Statuses /\ deliveries \in Nat
      /\ r \in Calls /\ q \in Calls /\ q.kind = r.kind /\ WellFormed(r)
  BY CallOrIdle
     DEF TypeInv, TypeOK, Rows, Serves, Becomes, Calls, RequestsWellFormed
<1>1. request'[k] = q /\ \A j \in Requests : j # k => request'[j] = request[j]
  BY <1>0 DEF Serves, Becomes
\* The other requests are where they were.
<1>2. \A j \in Requests, S \in SUBSET {"loaded", "fenced", "mailed"} :
         j # k => (SendIn(j, S)' <=> SendIn(j, S))
  BY <1>1 DEF SendIn
<1>3. \A S \in SUBSET {"loaded", "fenced", "mailed"} :
         SendIn(k, S)' <=> q.kind = "send" /\ q.phase \in S
  BY <1>0, <1>1 DEF SendIn
<1>4. {"loaded", "fenced"} \in SUBSET {"loaded", "fenced", "mailed"}
        /\ {"fenced", "mailed"} \in SUBSET {"loaded", "fenced", "mailed"}
  OBVIOUS
<1>5. CASE q.phase = "answered" /\ UNCHANGED post
  <2>1. row'.status \notin {"draft", "failed"} \/ row'.status = row.status
    BY <1>0, <1>5 DEF Serves, Flows, FailInv
  <2> QED
    BY <1>2, <1>3, <1>4, <1>5, <2>1, FenceKept DEF post
<1>6. CASE q.phase = "loaded" /\ row'.status = row.status /\ UNCHANGED post /\ RowEditable
  <2>1. row.status \in {"draft", "failed"}
    BY <1>0, <1>6 DEF RowEditable, Statuses
  <2>2. deliveries = 0 /\ \A j \in Requests : ~ SendIn(j, {"fenced", "mailed"})
    BY <1>0, <2>1 DEF FenceInv
  <2>3. q.kind = "send" => \A j \in Requests : j # k => ~ SendIn(j, {"loaded", "fenced"})
    BY <1>6, <2>2 DEF Serves, Marks, BeforeFence, SendIn
  <2>4. /\ deliveries' = 0
        /\ \A j \in Requests : ~ SendIn(j, {"fenced", "mailed"})'
    BY <1>2, <1>3, <1>4, <1>6, <2>2 DEF post
  <2>5. \A j, i \in Requests :
          SendIn(j, {"loaded", "fenced"})' /\ SendIn(i, {"loaded", "fenced"})' => j = i
    BY <1>2, <1>3, <1>4, <2>3 DEF FenceInv
  <2> QED
    BY <2>4, <2>5 DEF FenceInv
<1>7. CASE /\ r.phase = "loaded" /\ q.phase = "fenced" /\ r.kind = "send"
           /\ UNCHANGED post /\ row'.status = "sending"
  <2>1. SendIn(k, {"loaded", "fenced"})
    BY <1>0, <1>7 DEF SendIn
  <2> QED
    BY <1>2, <1>3, <1>4, <1>7, <2>1, FenceKept DEF post
<1>8. CASE /\ r.phase = "fenced" /\ q.phase = "mailed" /\ r.kind = "send"
           /\ row'.status = row.status /\ deliveries' = deliveries + 1
  <2>1. SendIn(k, {"loaded", "fenced"}) /\ SendIn(k, {"fenced", "mailed"})
    BY <1>0, <1>8 DEF SendIn
  <2>2. deliveries = 0 /\ row.status \notin {"draft", "failed"}
    BY <1>0, <2>1 DEF FenceInv
  <2>3. \A j \in Requests : ~ SendIn(j, {"loaded", "fenced"})'
    BY <1>2, <1>3, <1>4, <1>8, <2>1 DEF FenceInv
  <2> QED
    BY <1>8, <2>2, <2>3 DEF FenceInv
<1>9. CASE r.phase = "fenced" /\ q.phase = "rejected" /\ failures' = failures + 1
  BY <1>9
<1> QED
  BY <1>5, <1>6, <1>7, <1>8, <1>9 DEF Serves, Flows

LEMMA FenceStep ==
  ASSUME TypeInv, FailInv, FenceInv, [Next]_vars
  PROVE  FenceInv'
<1> SUFFICES ASSUME failures' = 0, ~ overlapped' PROVE FenceInv'
  BY DEF FenceInv
<1>0. failures = 0
  BY FailStep
<1>1. /\ request \in [Requests -> Calls \cup {Idle}] /\ Idle \notin Calls
  BY CallOrIdle DEF TypeInv, TypeOK
\* What happens to pages and connections leaves alone what may be delivered.
<1>2. ASSUME UNCHANGED <<row, deliveries, overlapped>>,
             \A j \in Requests : \A S \in SUBSET {"loaded", "fenced", "mailed"} :
               SendIn(j, S)' => SendIn(j, S)
      PROVE  FenceInv'
  BY <1>0, <1>2, FenceKept
<1>3. ASSUME NEW t \in Tabs, NEW k, NEW q, NEW p, Asks(t, k, q, p)
      PROVE  FenceInv'
  BY <1>1, <1>2, <1>3 DEF Asks, SendIn, mail
<1>4. ASSUME NEW t \in Tabs, NEW p, Edits(t, p)
      PROVE  FenceInv'
  BY <1>1, <1>2, <1>4 DEF Edits, SendIn, mail
<1>5. ASSUME NEW k \in Requests, NEW q, NEW p, Handles(k, q, p)
      PROVE  FenceInv'
  BY <1>1, <1>2, <1>5 DEF Handles, SendIn, mail
<1>6. ASSUME NEW k \in Requests, NEW q, Serves(k, q)
      PROVE  FenceInv'
  <2>1. ~ overlapped
    BY <1>6 DEF Serves, Marks
  <2> QED
    BY <1>0, <1>6, <2>1, FenceOfServe
<1>7. ASSUME NEW k \in Requests, NEW j \in Requests, NEW q, Cuts(k, j, q)
      PROVE  FenceInv'
  <2>1. q.phase = "answered" /\ UNCHANGED <<row, deliveries, overlapped>>
    BY <1>7 DEF Cuts, post
  <2>2. \A i \in Requests : \A S \in SUBSET {"loaded", "fenced", "mailed"} :
          SendIn(i, S)' => SendIn(i, S)
    BY <1>7, <2>1, CutFacts DEF SendIn
  <2> QED
    BY <1>2, <2>1, <2>2
<1>8. CASE UNCHANGED vars
  BY <1>2, <1>8 DEF SendIn, vars, mail
<1> QED
  BY <1>3, <1>4, <1>5, <1>6, <1>7, <1>8, StepShape

\* Any number of pages may show the draft, and any request, answer or connection be
\* lost, also under a handler that goes on: unless SMTP has reported a failure, the mail
\* is delivered twice only when a send was loaded while another had loaded the draft and
\* had yet to commit the fence.
THEOREM OnlyOverlapsDeliverTwice == Spec => []TwiceOnlyInOverlap
<1> DEFINE IInv == FailInv /\ FenceInv
<1>1. Init => IInv
  <2> SUFFICES ASSUME Init PROVE IInv
    OBVIOUS
  <2>1. \A k \in Requests : request[k] \notin Calls
    BY DEF Init, Idle, Calls, Kinds
  <2>2. deliveries = 0 /\ (failures = 0 => row.status # "failed")
    BY DEF Init
  <2> QED
    BY <2>1, <2>2 DEF FailInv, FenceInv, SendIn
<1>2. TypeInv /\ IInv /\ [Next]_vars => IInv'
  BY FailStep, FenceStep
<1>3. IInv => TwiceOnlyInOverlap
  BY DEF FenceInv, TwiceOnlyInOverlap
<1> QED
  BY <1>1, <1>2, <1>3, TypesHold, PTL DEF Spec

\* A user who works in one page has the mail delivered at most once, unless a connection
\* is lost under a handler that goes on.
THEOREM OneTabDeliversOnce ==
  (\E t : Tabs = {t}) => (Spec => [](~ cut => DeliveredOnce))
<1> SUFFICES ASSUME NEW t, Tabs = {t} PROVE Spec => [](~ cut => DeliveredOnce)
  OBVIOUS
<1>1. IsFiniteSet(Tabs) /\ Cardinality(Tabs) = 1
  BY FS_Singleton
<1>2. (failures = 0 /\ ~ cut => deliveries <= Cardinality(Tabs)) => (~ cut => DeliveredOnce)
  BY <1>1 DEF DeliveredOnce
<1> QED
  BY <1>1, <1>2, OncePerTab, PTL
=============================================================================
