--------------------------- MODULE AttentionPages ---------------------------
(***************************************************************************)
(* The pages of the attention centre.  "review" is app/review: mails that  *)
(* need a human decision, to be corrected, confirmed, routed or dismissed, *)
(* and failures to be retried.  "notifications" is app/notifications:      *)
(* events to be marked as read, and what the user wants to be told.        *)
(* Review shows folders and subcategories in the user's language and       *)
(* translates folders back before it sends them (lib/attention-api.ts).    *)
(***************************************************************************)
EXTENDS Tab

CONSTANTS
  Items,        \* mails in review
  Places,       \* names of folders, as stored and as shown
  InMailbox,    \* those that are selectable folders of the mailbox
  PlaceLabel,   \* how a folder is shown
  PlaceOfLabel, \* the technical name of a label, or the label itself
  Topics,       \* subcategories, as stored and as shown
  TopicLabel,   \* how a subcategory is shown
  Notes         \* notifications

ASSUME AttentionAssumption ==
  /\ InMailbox \subseteq Places
  /\ PlaceLabel \in [Places -> Places] /\ PlaceOfLabel \in [Places -> Places]
  /\ TopicLabel \in [Topics -> Topics]

\* The other fields of a correction behave as topic does, except that they are
\* not translated.  doubtful: review_required or needs_more_context; unsure: the
\* confidence is below 0.75.  memory: the remembered decision.
Rows ==
  [place : Places, topic : Topics, doubtful : BOOLEAN, unsure : BOOLEAN,
   routing : BOOLEAN, action : {"none", "failed", "execute", "rejected"},
   suspicious : BOOLEAN, dismissed : BOOLEAN]
NoMemory == [place |-> "no-memory"]

-----------------------------------------------------------------------------
(* The review inbox in the API. *)

RequiresReview(row) ==
  \/ row.suspicious \/ row.doubtful \/ row.routing \/ row.unsure
  \/ row.action = "failed"
InInbox(row) == ~ row.dismissed /\ RequiresReview(row)
Remembered(row) == [place |-> row.place, topic |-> row.topic]

\* correct_review_item with classification fields.  Nothing is resolved by a
\* correction that changes nothing.
Corrected(row, c) ==
  LET to == [row EXCEPT !.place = c.place, !.topic = c.topic]
  IN IF to = row THEN row ELSE [to EXCEPT !.doubtful = FALSE]

\* Mutated form of Confirmed: a confirmation also settles the routing.
ConfirmedAndRouted(row) ==
  [row EXCEPT !.doubtful = FALSE, !.unsure = FALSE, !.routing = FALSE]

\* The second transaction, which makes the classification certain.
Confirmed(row) == [row EXCEPT !.doubtful = FALSE, !.unsure = FALSE]

Routed(row, decision) ==
  [row EXCEPT !.routing = FALSE, !.doubtful = FALSE,
              !.action = IF decision = "approve" THEN "execute" ELSE "rejected"]

\* A changed row is remembered at once, an unchanged one when it is confirmed.
Recall(i, row, c) ==
  IF c.remember /\ row # api.rows[i] THEN Remembered(row) ELSE api.memory[i]
RecallLate(row, c, memory) ==
  IF c.remember /\ memory = NoMemory THEN Remembered(row) ELSE memory

Store(i, row, memory) ==
  [api EXCEPT !.rows[i] = row, !.memory[i] = memory]

\* correct_or_confirm_review_item commits twice; the process may die in between.
ConfirmOutcomes(i, c) ==
  LET first == Corrected(api.rows[i], c)
      memory == Recall(i, first, c)
  IN {Ok(Store(i, Confirmed(first), RecallLate(first, c, memory)), "item"),
      [Ok(Store(i, first, memory), Refused) EXCEPT !.ok = FALSE]}

ReviewReply(q) ==
  CASE q.to = "review" ->
         {Ok(api, [rows |-> [i \in {j \in Items : InInbox(api.rows[j])} |-> api.rows[i]],
                   failure |-> api.failure])}
    [] q.to = "metadata" -> {Ok(api, InMailbox)}
    [] q.to = "correct" -> ConfirmOutcomes(q.item, q.with)
    [] q.to = "route" ->
         {Ok(Store(q.item, Routed(api.rows[q.item], q.decision), api.memory[q.item]), "item")}
    [] q.to = "dismiss" -> {Ok([api EXCEPT !.rows[q.item].dismissed = TRUE], "gone")}
    [] q.to = "retry" ->
         IF api.failure \notin {"failed", "review"} THEN {No}
         ELSE {Ok([api EXCEPT !.failure = "retrying"], "retrying")}

-----------------------------------------------------------------------------
(* What the page makes of names. *)

\* localizeReviewInbox
Localized(row) ==
  [row EXCEPT !.place = PlaceLabel[@], !.topic = TopicLabel[@]]

\* destinationWireName: by the folders of the mailbox when they have been
\* loaded, else by the table of technical names.
WirePlace(label, folders) ==
  LET known == IF folders = NotLoaded THEN {} ELSE {p \in folders : PlaceLabel[p] = label}
  IN IF known # {} THEN CHOOSE p \in known : TRUE ELSE PlaceOfLabel[label]

-----------------------------------------------------------------------------
(* app/review *)

LoadReview(arg) == Handler("load-review", arg, {[to |-> "review"]})

Proposed ==
  [place : InMailbox, topic : Topics, doubtful : {TRUE}, unsure : {TRUE},
   routing : BOOLEAN, action : {"none"}, suspicious : BOOLEAN, dismissed : {FALSE}]

ReviewInit ==
  /\ api \in [rows : [Items -> Proposed], memory : {[i \in Items |-> NoMemory]},
              failure : {"failed"}]
  /\ view = [inbox |-> NotLoaded, busy |-> "nothing", error |-> FALSE,
             open |-> "nothing", draft |-> "nothing", folders |-> NotLoaded]

Listed == IF view.inbox = NotLoaded THEN {} ELSE DOMAIN view.inbox.rows
ShownRow(i) == Localized(view.inbox.rows[i])

\* A row is opened, and its editor takes what is shown then for its draft.
Expand ==
  \E i \in Listed :
    /\ view.open # i
    /\ view' = [view EXCEPT !.open = i, !.draft = ShownRow(i)]
    /\ UNCHANGED run /\ Timer

\* Correct is pressed: the folders are fetched once.
OpenEditor ==
  /\ view.open # "nothing" /\ view.folders = NotLoaded
  /\ \A k \in Slots : ~ Running(k, "load-folders")
  /\ Begin(Handler("load-folders", "none", {[to |-> "metadata"]}))
  /\ UNCHANGED view /\ Timer

FoldersLoaded(k) ==
  \/ /\ Answered(k, "load-folders")
     /\ view' = [view EXCEPT !.folders = run[k].got[[to |-> "metadata"]]]
     /\ Ends(k)
  \/ Rejected(k, "load-folders") /\ UNCHANGED view /\ Ends(k)

\* runBusy: the page remembers one busy row, and disables its buttons only.
RunBusy(i, request) ==
  /\ Click
  /\ view.busy # i /\ view' = [view EXCEPT !.busy = i, !.error = FALSE]
  /\ Begin(Handler("review-click", i, {request}))

Correction(row) ==
  [place |-> WirePlace(row.place, view.folders), topic |-> row.topic, remember |-> TRUE]

\* Confirm sends what is shown, Save the draft with the user's changes.
ConfirmRow ==
  \E i \in Listed :
    /\ view.open = i
    /\ RunBusy(i, [to |-> "correct", item |-> i, with |-> Correction(ShownRow(i))])

Offered ==
  {view.draft.place} \cup
  IF view.folders = NotLoaded THEN {} ELSE {PlaceLabel[p] : p \in view.folders}

SaveCorrection ==
  /\ view.open # "nothing"
  /\ \E topic \in Topics, place \in Offered :
       RunBusy(view.open,
               [to |-> "correct", item |-> view.open,
                with |-> Correction([view.draft EXCEPT !.topic = topic, !.place = place])])

RouteRow ==
  \E i \in Listed, decision \in {"approve", "reject"} :
    /\ view.open = i /\ view.inbox.rows[i].routing
    /\ RunBusy(i, [to |-> "route", item |-> i, decision |-> decision])

DismissRow ==
  \E i \in Listed :
    view.open = i /\ RunBusy(i, [to |-> "dismiss", item |-> i])

RetryFailure ==
  /\ view.inbox # NotLoaded /\ view.inbox.failure \in {"failed", "review"}
  /\ RunBusy("failure", [to |-> "retry"])

\* An answer loads the inbox; whichever click is answered clears the busy row.
ReviewAnswered(k) ==
  \/ /\ Answered(k, "review-click")
     /\ UNCHANGED view
     /\ Becomes(k, LoadReview("click"))
  \/ /\ Rejected(k, "review-click")
     /\ view' = [view EXCEPT !.busy = "nothing", !.error = TRUE]
     /\ Ends(k)

\* The editor goes with its row.
ReviewLoaded(k) ==
  LET busy == IF run[k].arg = "click" THEN "nothing" ELSE view.busy
      inbox == run[k].got[[to |-> "review"]]
      stays == view.open \in DOMAIN inbox.rows
  IN \/ /\ Answered(k, "load-review")
        /\ view' = [inbox |-> inbox, busy |-> busy, error |-> FALSE,
                    folders |-> view.folders,
                    open |-> IF stays THEN view.open ELSE "nothing",
                    draft |-> IF stays THEN view.draft ELSE "nothing"]
        /\ Ends(k)
     \/ /\ Rejected(k, "load-review")
        /\ view' = [view EXCEPT !.busy = busy, !.error = TRUE]
        /\ Ends(k)

\* The error offers to load again.
ReloadReview ==
  /\ view.error /\ view' = [view EXCEPT !.error = FALSE]
  /\ Begin(LoadReview("reload"))
  /\ Timer

\* A colleague decides, and a retry fails again.
ReviewEvent ==
  /\ Event
  /\ \/ \E i \in Items :
          \/ \E p \in InMailbox, topic \in Topics :
               LET to == Corrected(api.rows[i], [place |-> p, topic |-> topic])
               IN to # api.rows[i] /\ api' = [api EXCEPT !.rows[i] = Confirmed(to)]
          \/ \E decision \in {"approve", "reject"} :
               /\ api.rows[i].routing
               /\ api' = [api EXCEPT !.rows[i] = Routed(@, decision)]
          \/ ~ api.rows[i].dismissed /\ api' = [api EXCEPT !.rows[i].dismissed = TRUE]
     \/ api.failure = "retrying" /\ api' = [api EXCEPT !.failure = "review"]

-----------------------------------------------------------------------------
(* app/notifications *)

\* What the user wants to be told: one value for all fields of the form.
Wishes == {"stored", "typed", "stored-elsewhere"}

NotificationReply(q) ==
  CASE q.to = "notifications" -> {Ok(api, [events |-> api.events, unread |-> api.unread])}
    [] q.to = "preferences" -> {Ok(api, api.wish)}
    [] q.to = "mark-read" -> {Ok([api EXCEPT !.unread = @ \ {q.note}], "read")}
    [] q.to = "save-preferences" -> {Ok([api EXCEPT !.wish = q.wish], q.wish)}

\* markAllRead marks one after the other, and loads after each; a load that
\* fails ends only itself.
LoadNotes(rest) ==
  Handler("load-notes", rest, {[to |-> "notifications"], [to |-> "preferences"]})
MarkRead(note, rest) == Handler("mark-read", rest, {[to |-> "mark-read", note |-> note]})

NotificationsInit ==
  /\ api \in [events : SUBSET Notes, unread : SUBSET Notes, wish : {"stored"}]
  /\ api.unread \subseteq api.events
  /\ view = [center |-> NotLoaded, wish |-> NotLoaded, saving |-> FALSE]

ShownUnread == IF view.center = NotLoaded THEN {} ELSE view.center.unread

\* The list is the one that was shown when the button was pressed.
MarkNext(k, rest) ==
  IF rest = {} THEN Ends(k)
  ELSE \E note \in rest : Becomes(k, MarkRead(note, rest \ {note}))

MarkOne ==
  /\ Click /\ UNCHANGED view
  /\ \E note \in ShownUnread : Begin(MarkRead(note, {}))

MarkAllRead ==
  /\ Click /\ UNCHANGED view
  /\ \E note \in ShownUnread : Begin(MarkRead(note, ShownUnread \ {note}))

MarkedRead(k) ==
  \/ /\ Answered(k, "mark-read") /\ UNCHANGED view
     /\ Becomes(k, LoadNotes(run[k].arg))
  \/ /\ Rejected(k, "mark-read") /\ UNCHANGED view
     /\ MarkNext(k, run[k].arg)

\* A load also takes the preferences from the API.
NotesLoaded(k) ==
  \/ /\ Answered(k, "load-notes")
     /\ view' = [view EXCEPT !.center = run[k].got[[to |-> "notifications"]],
                             !.wish = run[k].got[[to |-> "preferences"]]]
     /\ MarkNext(k, run[k].arg)
  \/ /\ Rejected(k, "load-notes") /\ UNCHANGED view
     /\ MarkNext(k, run[k].arg)

PatchPreferences ==
  /\ view.wish \notin {NotLoaded, "typed"}
  /\ view' = [view EXCEPT !.wish = "typed"]
  /\ UNCHANGED run /\ Timer

CanSave == view.wish # NotLoaded /\ ~ view.saving

SavePreferences ==
  /\ Click /\ CanSave
  /\ view' = [view EXCEPT !.saving = TRUE]
  /\ Begin(Handler("save-preferences", "click",
                   {[to |-> "save-preferences", wish |-> view.wish]}))

PreferencesSaved(k) ==
  LET request == CHOOSE q \in DOMAIN run[k].got : TRUE
  IN \/ /\ Answered(k, "save-preferences")
        /\ view' = [view EXCEPT !.wish = run[k].got[request], !.saving = FALSE]
        /\ Ends(k)
     \/ /\ Rejected(k, "save-preferences")
        /\ view' = [view EXCEPT !.saving = FALSE]
        /\ Ends(k)

NotificationEvent ==
  /\ Event
  /\ \/ \E note \in Notes \ api.events :
          api' = [api EXCEPT !.events = @ \cup {note}, !.unread = @ \cup {note}]
     \/ api.wish # "stored-elsewhere" /\ api' = [api EXCEPT !.wish = "stored-elsewhere"]

-----------------------------------------------------------------------------
(* What the pages promise. *)

\* A correction or confirmation settles the classification only: a mail that was
\* flagged as suspicious leaves the inbox only when it is dismissed, and a
\* pending routing is only ended by a routing decision, whatever other clicks
\* and colleagues do meanwhile ("Security flags and routing reviews are
\* deliberately independent and are not cleared here",
\* attention_confirmation.py).
OnlyAskedIsSettled ==
  [][page = "review" =>
       \A i \in Items :
         /\ api.rows[i].suspicious /\ InInbox(api.rows[i]) /\ ~ InInbox(api'.rows[i])
            => api'.rows[i].dismissed
         /\ api.rows[i].routing /\ ~ api'.rows[i].routing
            => \A k \in Slots : \A q \in run[k].asked :
                 run'[k] # run[k] /\ q.to = "correct" => q.item # i]_vars
=============================================================================
