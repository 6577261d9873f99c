------------------------------ MODULE Compose ------------------------------
(***************************************************************************)
(* Writing and sending one mail: the compose page of the web application   *)
(* (app/compose/use-compose-*.ts) and the draft it edits on the server     *)
(* (routers/mail.py, routers/writing.py).                                  *)
(*                                                                         *)
(* The page awaits requests in several independent chains: the autosave    *)
(* timer, "send" (save, check, send, load), attachments (upload, load) and *)
(* the AI preview (save, preview).  They interleave in the page and on the *)
(* server, where a handler loads the draft, decides, and commits later     *)
(* without a row lock.  A request that was answered hands its identifier   *)
(* to the next one of its chain.                                           *)
(*                                                                         *)
(* A text is a version number.                                             *)
(***************************************************************************)
EXTENDS Integers, FiniteSets

CONSTANTS
  Tabs,          \* pages that show the draft
  Requests,      \* bound: requests in progress at the same time
  Opened,        \* what a draft may be when the page opens: made just now, or failed
  Files,         \* attachments that a user may add
  Addressed,     \* versions that name a recipient
  MaxVersion,    \* bound: versions of the text
  MaxCommands,   \* bound: buttons pressed
  MaxIncidents,  \* bound: incidents
  Incidents      \* kinds of incident that may happen

Versions == 0..MaxVersion

ASSUME BoundsAssumption ==
  /\ MaxVersion \in Nat /\ MaxCommands \in Nat /\ MaxIncidents \in Nat
  /\ Addressed \subseteq Versions
  /\ Incidents \subseteq {"drop", "crash", "smtp"}

ASSUME OpenedAssumption == Opened \subseteq {"draft", "failed"}

VARIABLES
  row,         \* outbound_drafts: status, text, attachments
  page,        \* what each tab holds
  request,     \* the requests in progress
  versions,    \* versions made so far
  accepted,    \* versions that a user has typed or applied
  delivered,   \* versions that the SMTP server has accepted
  deliveries,  \* how often it has accepted the mail
  failures,    \* how often it has reported a failure
  overlapped,  \* history: a send was loaded while another had yet to set the fence
  cut,         \* history: a connection was lost and the handler went on
  commands, incidents

mail == <<delivered, deliveries, failures, overlapped, cut>>
texts == <<versions, accepted>>
vars == <<row, page, request, texts, mail, commands, incidents>>

Statuses == {"draft", "sending", "sent", "failed", "discarded"}
Kinds == {"get", "patch", "check", "send", "discard", "upload", "remove", "preview"}

\* The chain of handlers of the page that a request belongs to; lost is a request
\* whose connection is gone, so that no page sees its answer.
Whys == {"open", "save", "send", "ai", "discard", "upload", "remove", "sent", "failed",
         "lost"}

Phases == {"travelling", "loaded", "fenced", "mailed", "rejected", "answered"}

Rows == [status : Statuses, body : Versions, files : SUBSET Files]

\* A page holds the status in draftRef (draft), its attachments (files), the
\* fields (body), the state of the save indicator, whether the autosave timer
\* runs, its busy flags and the AI preview.
Pages == [loading : BOOLEAN, draft : {"none"} \cup Statuses, files : SUBSET Files,
          body : Versions, save : {"idle", "saving", "saved", "failed"},
          timer : BOOLEAN, sending : BOOLEAN, uploading : BOOLEAN, asking : BOOLEAN,
          preview : SUBSET Versions]

\* A request; seen and base are the status and the text that the handler has
\* loaded, or that it answers.
Calls == [tab : Tabs, kind : Kinds, why : Whys, body : Versions, files : SUBSET Files,
          phase : Phases, seen : Statuses, base : Versions, ok : BOOLEAN]
Idle == [kind |-> "none"]

TypeOK ==
  /\ row \in Rows
  /\ page \in [Tabs -> Pages]
  /\ request \in [Requests -> Calls \cup {Idle}]
  /\ versions \in Versions /\ accepted \in SUBSET Versions
  /\ delivered \in SUBSET Versions
  /\ deliveries \in Nat /\ failures \in Nat
  /\ overlapped \in BOOLEAN /\ cut \in BOOLEAN
  /\ commands \in Nat /\ incidents \in Nat

\* A draft just made from the parameters of the page, or opened again.
Init ==
  /\ row \in [status : Opened, body : {0}, files : {{}}]
  /\ page = [t \in Tabs |->
               [loading |-> TRUE, draft |-> "none", files |-> {}, body |-> 0,
                save |-> "idle", timer |-> FALSE, sending |-> FALSE,
                uploading |-> FALSE, asking |-> FALSE, preview |-> {}]]
  /\ request = [k \in Requests |-> Idle]
  /\ versions = 0 /\ accepted = {0}
  /\ delivered = {} /\ deliveries = 0
  /\ overlapped = FALSE /\ cut = FALSE
  /\ failures = IF row.status = "failed" THEN 1 ELSE 0
  /\ commands = 0 /\ incidents = 0

Incident(kind) ==
  /\ kind \in Incidents
  /\ incidents < MaxIncidents /\ incidents' = incidents + 1

Command == commands < MaxCommands /\ commands' = commands + 1

-----------------------------------------------------------------------------
(* The page: what the user and the timer do. *)

\* Only a save carries the fields, as they were when the button was pressed.
Call(t, kind, why, files) ==
  [tab |-> t, kind |-> kind, why |-> why,
   body |-> IF kind = "patch" THEN page[t].body ELSE 0, files |-> files,
   phase |-> "travelling", seen |-> "draft", base |-> 0, ok |-> TRUE]

Begin(k, t, kind, why, files) ==
  /\ request[k] = Idle
  /\ request' = [request EXCEPT ![k] = Call(t, kind, why, files)]

\* The card is shown for a draft; most of it is disabled once it was sent.
Shows(t) == page[t].draft # "none"
Editable(t) == page[t].draft \notin {"none", "sent"}

\* persist() has something to do.
Storable(t) == page[t].draft \notin {"none", "sent", "discarded"}

Open(t, k) ==
  /\ page[t].loading
  /\ \A j \in Requests : request[j] # Idle => request[j].tab # t
  /\ Begin(k, t, "get", "open", {})
  /\ UNCHANGED <<row, page, texts, mail, commands, incidents>>

Type(t) ==
  /\ Editable(t)
  /\ versions < MaxVersion
  /\ versions' = versions + 1
  /\ accepted' = accepted \cup {versions'}
  /\ page' = [page EXCEPT ![t].body = versions', ![t].timer = TRUE]
  /\ UNCHANGED <<row, request, mail, commands, incidents>>

\* AUTOSAVE_MS after the fields were set, by the user or by a loaded draft.
Autosave(t) ==
  /\ page[t].timer
  /\ \/ /\ Storable(t)
        /\ \E k \in Requests : Begin(k, t, "patch", "save", {})
        /\ page' = [page EXCEPT ![t].timer = FALSE, ![t].save = "saving"]
     \/ /\ ~ Storable(t)
        /\ page' = [page EXCEPT ![t].timer = FALSE]
        /\ UNCHANGED request
  /\ UNCHANGED <<row, texts, mail, commands, incidents>>

Save(t, k) ==
  /\ Editable(t) /\ page[t].save # "saving"
  /\ Storable(t)
  /\ Command
  /\ Begin(k, t, "patch", "save", {})
  /\ page' = [page EXCEPT ![t].save = "saving"]
  /\ UNCHANGED <<row, texts, mail, incidents>>

\* sendDraft saves first, whatever the outcome of that.
Send(t, k) ==
  /\ Editable(t) /\ ~ page[t].sending /\ ~ page[t].uploading
  /\ Command
  /\ Begin(k, t, IF Storable(t) THEN "patch" ELSE "check", "send", {})
  /\ page' = [page EXCEPT ![t].sending = TRUE,
                          ![t].save = IF Storable(t) THEN "saving" ELSE @]
  /\ UNCHANGED <<row, texts, mail, incidents>>

Discard(t, k) ==
  /\ Editable(t)
  /\ Command
  /\ Begin(k, t, "discard", "discard", {})
  /\ UNCHANGED <<row, page, texts, mail, incidents>>

AddFiles(t, k, F) ==
  /\ Editable(t) /\ ~ page[t].uploading
  /\ F # {} /\ F \cap page[t].files = {}
  /\ Command
  /\ Begin(k, t, "upload", "upload", F)
  /\ page' = [page EXCEPT ![t].uploading = TRUE]
  /\ UNCHANGED <<row, texts, mail, incidents>>

RemoveFile(t, k, f) ==
  /\ Editable(t) /\ f \in page[t].files
  /\ Command
  /\ Begin(k, t, "remove", "remove", {f})
  /\ UNCHANGED <<row, page, texts, mail, incidents>>

\* runAI saves as well, because the preview is made from the stored text.
RunAI(t, k) ==
  /\ Editable(t) /\ ~ page[t].asking
  /\ Command
  /\ Begin(k, t, IF Storable(t) THEN "patch" ELSE "preview", "ai", {})
  /\ page' = [page EXCEPT ![t].asking = TRUE, ![t].preview = {},
                          ![t].save = IF Storable(t) THEN "saving" ELSE @]
  /\ UNCHANGED <<row, texts, mail, incidents>>

\* The preview stays on the page after the mail was sent.
ApplyPreview(t) ==
  /\ Shows(t)
  /\ \E v \in page[t].preview :
       /\ page' = [page EXCEPT ![t].body = v, ![t].timer = TRUE, ![t].preview = {}]
       /\ accepted' = accepted \cup {v}
  /\ UNCHANGED <<row, request, versions, mail, commands, incidents>>

DropPreview(t) ==
  /\ Shows(t) /\ page[t].preview # {}
  /\ page' = [page EXCEPT ![t].preview = {}]
  /\ UNCHANGED <<row, request, texts, mail, commands, incidents>>

-----------------------------------------------------------------------------
(* The page: what it does with an answer. *)

Answered(k, kind) ==
  request[k].kind = kind /\ request[k].phase = "answered" /\ request[k].why # "lost"

Continue(k, kind, why) ==
  request' = [request EXCEPT ![k] =
                Call(@.tab, kind, why, IF kind = "upload" THEN @.files ELSE {})]

Done(k) == request' = [request EXCEPT ![k] = Idle]

SaveAnswered(k) ==
  /\ Answered(k, "patch")
  /\ LET q == request[k]
     IN /\ page' = IF q.ok
                     THEN [page EXCEPT ![q.tab].save = "saved", ![q.tab].draft = q.seen,
                                       ![q.tab].files = q.files]
                     ELSE [page EXCEPT ![q.tab].save = "failed"]
        /\ \/ q.why = "send" /\ Continue(k, "check", "send")
           \/ q.why = "ai" /\ Continue(k, "preview", "ai")
           \/ q.why = "save" /\ Done(k)
  /\ UNCHANGED <<row, texts, mail, commands, incidents>>

\* Without an attachment the page may warn, and the user go back.
CheckAnswered(k) ==
  /\ Answered(k, "check")
  /\ LET q == request[k]
         GoBack == /\ page' = [page EXCEPT ![q.tab].sending = FALSE]
                   /\ Done(k)
     IN \/ /\ q.ok /\ q.seen = "draft"
           /\ \/ Continue(k, "send", "send") /\ UNCHANGED page
              \/ q.files = {} /\ GoBack
        \/ q.ok /\ q.seen # "draft" /\ GoBack
        \/ ~ q.ok /\ Continue(k, "get", "failed") /\ UNCHANGED page
  /\ UNCHANGED <<row, texts, mail, commands, incidents>>

SendAnswered(k) ==
  /\ Answered(k, "send")
  /\ Continue(k, "get", IF request[k].ok THEN "sent" ELSE "failed")
  /\ UNCHANGED <<row, page, texts, mail, commands, incidents>>

\* applyDraft: fields that were typed meanwhile are replaced.
WithDraft(p, q) ==
  [p EXCEPT !.draft = q.seen, !.files = q.files, !.body = q.body, !.timer = TRUE]

\* Mutated form of Ended: sending is reset on success only.
EndedOnSuccess(p, why) ==
  [p EXCEPT !.sending = @ /\ why # "sent",
            !.uploading = @ /\ why # "upload",
            !.loading = @ /\ why # "open"]

\* The flags that the end of a chain resets.
Ended(p, why) ==
  [p EXCEPT !.sending = @ /\ why \notin {"sent", "failed"},
            !.uploading = @ /\ why # "upload",
            !.loading = @ /\ why # "open"]

\* When the draft cannot be loaded after a send, it is asked for once more.
GetAnswered(k) ==
  /\ Answered(k, "get")
  /\ LET q == request[k]
     IN \/ /\ q.ok
           /\ page' = [page EXCEPT ![q.tab] = Ended(WithDraft(@, q), q.why)]
           /\ Done(k)
        \/ /\ ~ q.ok /\ q.why = "sent"
           /\ Continue(k, "get", "failed") /\ UNCHANGED page
        \/ /\ ~ q.ok /\ q.why # "sent"
           /\ page' = [page EXCEPT ![q.tab] = Ended(@, q.why)]
           /\ Done(k)
  /\ UNCHANGED <<row, texts, mail, commands, incidents>>

DiscardAnswered(k) ==
  /\ Answered(k, "discard")
  /\ page' = IF request[k].ok
               THEN [page EXCEPT ![request[k].tab].draft = "none",
                                 ![request[k].tab].files = {}]
               ELSE page
  /\ Done(k)
  /\ UNCHANGED <<row, texts, mail, commands, incidents>>

\* Files are uploaded one after the other; an error ends the loop.
UploadAnswered(k) ==
  /\ Answered(k, "upload")
  /\ LET q == request[k]
     IN \/ q.ok /\ q.files # {} /\ Continue(k, "upload", "upload") /\ UNCHANGED page
        \/ q.ok /\ q.files = {} /\ Continue(k, "get", "upload") /\ UNCHANGED page
        \/ /\ ~ q.ok
           /\ page' = [page EXCEPT ![q.tab] = Ended(@, "upload")]
           /\ Done(k)
  /\ UNCHANGED <<row, texts, mail, commands, incidents>>

RemoveAnswered(k) ==
  /\ Answered(k, "remove")
  /\ IF request[k].ok THEN Continue(k, "get", "remove") ELSE Done(k)
  /\ UNCHANGED <<row, page, texts, mail, commands, incidents>>

PreviewAnswered(k) ==
  /\ Answered(k, "preview")
  /\ LET q == request[k]
     IN page' = [page EXCEPT ![q.tab].asking = FALSE,
                             ![q.tab].preview = IF q.ok THEN {q.body} ELSE @]
  /\ Done(k)
  /\ UNCHANGED <<row, texts, mail, commands, incidents>>

\* The answer of a lost request goes nowhere.
Forget(k) ==
  /\ request[k] # Idle
  /\ request[k].phase = "answered" /\ request[k].why = "lost"
  /\ Done(k)
  /\ UNCHANGED <<row, page, texts, mail, commands, incidents>>

-----------------------------------------------------------------------------
(* The server. *)

Travelling(k, kinds) == request[k].kind \in kinds /\ request[k].phase = "travelling"

\* What the page gets when a handler raises, or an answer never arrives.
Failed(q) ==
  [Call(q.tab, q.kind, q.why, {}) EXCEPT !.body = 0, !.phase = "answered", !.ok = FALSE]

Refuse(k) == request' = [request EXCEPT ![k] = Failed(@)]

ReadDraft(k) ==
  /\ Travelling(k, {"get"})
  /\ request' = [request EXCEPT ![k].phase = "answered", ![k].seen = row.status,
                                ![k].body = row.body, ![k].files = row.files]
  /\ UNCHANGED <<row, page, texts, mail, commands, incidents>>

\* check_before_send: seen tells can_send, files whether anything is attached.
CheckBeforeSend(k) ==
  /\ Travelling(k, {"check"})
  /\ request' =
       [request EXCEPT ![k].phase = "answered", ![k].files = row.files,
          ![k].seen = IF /\ row.body \in Addressed
                         /\ row.status \notin {"sending", "discarded"}
                        THEN "draft" ELSE "discarded"]
  /\ UNCHANGED <<row, page, texts, mail, commands, incidents>>

\* Mutated form of RowEditable: a draft that is being sent may be changed.
RowEditableWhileSending == row.status \notin {"sent", "discarded"}

\* _editable
RowEditable == row.status \notin {"sent", "sending", "discarded"}

\* Mutated form of PreviewWriting: the suggestion is stored in the draft.
PreviewWritingStored(k) ==
  /\ Travelling(k, {"preview"})
  /\ IF RowEditable /\ versions < MaxVersion
       THEN /\ versions' = versions + 1
            /\ row' = [row EXCEPT !.body = versions']
            /\ request' = [request EXCEPT ![k].phase = "answered", ![k].body = versions']
       ELSE Refuse(k) /\ UNCHANGED <<row, versions>>
  /\ UNCHANGED <<page, accepted, mail, commands, incidents>>

\* preview_ai_writing makes a new text and stores nothing.
PreviewWriting(k) ==
  /\ Travelling(k, {"preview"})
  /\ IF RowEditable /\ versions < MaxVersion
       THEN /\ versions' = versions + 1
            /\ request' = [request EXCEPT ![k].phase = "answered", ![k].body = versions']
       ELSE Refuse(k) /\ UNCHANGED versions
  /\ UNCHANGED <<row, page, accepted, mail, commands, incidents>>

\* What a handler keeps of the row: send and discard keep all of it.
Loaded(q) ==
  [q EXCEPT !.phase = "loaded", !.seen = row.status, !.base = row.body,
            !.body = IF q.kind = "send" THEN row.body ELSE @,
            !.files = IF q.kind = "discard" THEN row.files ELSE @]

\* What send_saved_draft goes on with.
Sendable == RowEditable /\ row.body \in Addressed

\* Another send has loaded the draft and not yet committed the fence.
BeforeFence(k) ==
  \E j \in Requests \ {k} : request[j].kind = "send" /\ request[j].phase = "loaded"

LoadToSend(k) ==
  /\ Travelling(k, {"send"})
  /\ \/ /\ Sendable
        /\ request' = [request EXCEPT ![k] = Loaded(@)]
        /\ overlapped' = (overlapped \/ BeforeFence(k))
     \/ /\ ~ Sendable /\ row.status = "sent"
        /\ request' = [request EXCEPT ![k].phase = "answered"]
        /\ UNCHANGED overlapped
     \/ /\ ~ Sendable /\ row.status # "sent"
        /\ Refuse(k)
        /\ UNCHANGED overlapped
  /\ UNCHANGED <<row, page, texts, delivered, deliveries, failures, cut, commands,
                 incidents>>

LoadToChange(k) ==
  /\ Travelling(k, {"patch", "discard", "upload", "remove"})
  /\ IF RowEditable /\ (request[k].kind = "remove" => request[k].files \subseteq row.files)
       THEN request' = [request EXCEPT ![k] = Loaded(@)]
       ELSE Refuse(k)
  /\ UNCHANGED <<row, page, texts, mail, commands, incidents>>

Committing(k, kind) == request[k].kind = kind /\ request[k].phase = "loaded"

\* update_draft: the columns that differ from what was loaded are written.
CommitPatch(k) ==
  /\ Committing(k, "patch")
  /\ LET q == request[k]
     IN /\ row' = [row EXCEPT !.body = IF q.body # q.base THEN q.body ELSE @,
                              !.status = IF q.seen # "draft" THEN "draft" ELSE @]
        /\ request' = [request EXCEPT ![k].phase = "answered", ![k].seen = "draft",
                                      ![k].files = row.files, ![k].base = 0]
  /\ UNCHANGED <<page, texts, mail, commands, incidents>>

CommitDiscard(k) ==
  /\ Committing(k, "discard")
  /\ row' = [row EXCEPT !.status = "discarded", !.files = @ \ request[k].files]
  /\ request' = [request EXCEPT ![k].phase = "answered"]
  /\ UNCHANGED <<page, texts, mail, commands, incidents>>

CommitUpload(k) ==
  /\ Committing(k, "upload")
  /\ \E f \in request[k].files :
       /\ row' = [row EXCEPT !.files = @ \cup {f}]
       /\ request' = [request EXCEPT ![k].phase = "answered", ![k].files = @ \ {f}]
  /\ UNCHANGED <<page, texts, mail, commands, incidents>>

CommitRemove(k) ==
  /\ Committing(k, "remove")
  /\ row' = [row EXCEPT !.files = @ \ request[k].files]
  /\ request' = [request EXCEPT ![k].phase = "answered"]
  /\ UNCHANGED <<page, texts, mail, commands, incidents>>

\* Mutated form of Fence: the draft is marked as sent before it is.
FenceAsSent(k) ==
  /\ Committing(k, "send")
  /\ row' = [row EXCEPT !.status = "sent"]
  /\ request' = [request EXCEPT ![k].phase = "fenced"]
  /\ UNCHANGED <<page, texts, mail, commands, incidents>>

\* The fence is committed before SMTP is touched.
Fence(k) ==
  /\ Committing(k, "send")
  /\ row' = [row EXCEPT !.status = "sending"]
  /\ request' = [request EXCEPT ![k].phase = "fenced"]
  /\ UNCHANGED <<page, texts, mail, commands, incidents>>

Deliver(k) ==
  /\ delivered' = delivered \cup {request[k].body}
  /\ deliveries' = deliveries + 1

SmtpAccepts(k) ==
  /\ request[k].kind = "send" /\ request[k].phase = "fenced"
  /\ Deliver(k)
  /\ request' = [request EXCEPT ![k].phase = "mailed"]
  /\ UNCHANGED <<row, page, texts, failures, overlapped, cut, commands, incidents>>

\* The connection may be lost after the server has accepted the mail.
SmtpFails(k) ==
  /\ request[k].kind = "send" /\ request[k].phase = "fenced"
  /\ Incident("smtp")
  /\ Deliver(k) \/ UNCHANGED <<delivered, deliveries>>
  /\ failures' = failures + 1
  /\ request' = [request EXCEPT ![k].phase = "rejected"]
  /\ UNCHANGED <<row, page, texts, overlapped, cut, commands>>

\* The outcome overwrites whatever the status has become.
RecordSent(k) ==
  /\ request[k].kind = "send" /\ request[k].phase = "mailed"
  /\ row' = [row EXCEPT !.status = "sent"]
  /\ request' = [request EXCEPT ![k].phase = "answered"]
  /\ UNCHANGED <<page, texts, mail, commands, incidents>>

RecordFailed(k) ==
  /\ request[k].kind = "send" /\ request[k].phase = "rejected"
  /\ row' = [row EXCEPT !.status = "failed"]
  /\ Refuse(k)
  /\ UNCHANGED <<page, texts, mail, commands, incidents>>

\* The API process dies between two steps of a handler.
Crash(k) ==
  /\ request[k] # Idle
  /\ request[k].phase \in {"loaded", "fenced", "mailed", "rejected"}
  /\ Incident("crash")
  /\ Refuse(k)
  /\ UNCHANGED <<row, page, texts, mail, commands>>

\* A request that never arrives, or its answer, is lost.
Drop(k) ==
  /\ request[k] # Idle /\ request[k].why # "lost"
  /\ request[k].phase \in {"travelling", "answered"} /\ request[k].ok
  /\ Incident("drop")
  /\ Refuse(k)
  /\ UNCHANGED <<row, page, texts, mail, commands>>

\* The connection is lost before the handler has answered: the page's await raises,
\* and the handler does its work all the same, or has yet to begin it.
Cut(k, j) ==
  /\ request[k] # Idle /\ request[k].why # "lost"
  /\ request[k].phase # "answered"
  /\ request[j] = Idle
  /\ Incident("drop")
  /\ cut' = TRUE
  /\ request' = [request EXCEPT ![k].why = "lost", ![j] = Failed(request[k])]
  /\ UNCHANGED <<row, page, texts, delivered, deliveries, failures, overlapped, commands>>

-----------------------------------------------------------------------------
UserStep(t) ==
  \/ Type(t) \/ ApplyPreview(t) \/ DropPreview(t)
  \/ \E k \in Requests :
       \/ Save(t, k) \/ Send(t, k) \/ Discard(t, k) \/ RunAI(t, k)
       \/ \E F \in SUBSET Files : AddFiles(t, k, F)
       \/ \E f \in Files : RemoveFile(t, k, f)

PageStep(k) ==
  \/ SaveAnswered(k) \/ CheckAnswered(k) \/ SendAnswered(k) \/ GetAnswered(k)
  \/ DiscardAnswered(k) \/ UploadAnswered(k) \/ RemoveAnswered(k) \/ PreviewAnswered(k)
  \/ Forget(k)

ServerStep(k) ==
  \/ ReadDraft(k) \/ CheckBeforeSend(k) \/ PreviewWriting(k)
  \/ LoadToSend(k) \/ LoadToChange(k)
  \/ CommitPatch(k) \/ CommitDiscard(k) \/ CommitUpload(k) \/ CommitRemove(k)
  \/ Fence(k) \/ SmtpAccepts(k) \/ RecordSent(k) \/ RecordFailed(k)

Next ==
  \/ \E t \in Tabs : UserStep(t) \/ Autosave(t) \/ \E k \in Requests : Open(t, k)
  \/ \E k \in Requests :
       \/ PageStep(k) \/ ServerStep(k) \/ SmtpFails(k) \/ Crash(k) \/ Drop(k)
       \/ \E j \in Requests : Cut(k, j)

\* Requests are served and answers handled; users may stop at any time.
Fairness == \A k \in Requests : WF_vars(PageStep(k) \/ ServerStep(k))

Spec == Init /\ [][Next]_vars
FairSpec == Spec /\ Fairness

-----------------------------------------------------------------------------
(* Properties. *)

\* The mail is delivered once ("Persist a stable Message-ID and the sending fence
\* before touching SMTP"), unless SMTP has reported a failure and the user tries again.
DeliveredOnce == failures = 0 => deliveries <= 1

\* The only way around the fence is a second send that loads the draft while a first
\* one has loaded it and not yet committed the fence: from two pages, or from one page
\* whose connection was lost, so that its button is free again.  Whatever else is lost,
\* wherever the API dies and however saves overlap, the mail is delivered once.
TwiceOnlyInOverlap == failures = 0 /\ ~ overlapped => deliveries <= 1

\* A draft stored or shown as sent has been delivered, however late the answer.
SentWasDelivered ==
  row.status = "sent" \/ (\E t \in Tabs : page[t].draft = "sent") => delivered # {}

\* "AI output is never sent automatically": the delivered text is one that the
\* user has typed or applied, whichever chain has stored it.
OnlyAccepted == delivered \subseteq accepted

\* Sending comes to an end in the page: its button is usable again.
SendEnds == \A t \in Tabs : page[t].sending ~> ~ page[t].sending
=============================================================================
