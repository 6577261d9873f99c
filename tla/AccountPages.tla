---------------------------- MODULE AccountPages ----------------------------
(***************************************************************************)
(* The pages of one mailbox, as a manager of it sees them while colleagues *)
(* manage it too.  "account" is app/accounts/[id]: connection, action      *)
(* policies, members, and who owns the mailbox.  "smtp" is                 *)
(* app/accounts/[id]/smtp, a second form for outgoing mail.                *)
(***************************************************************************)
EXTENDS Tab

CONSTANTS
  Users,    \* members of the organization
  Me,       \* the one in front of the tab
  NotFound \* the answer with status 404, which the page tells from other failures

ASSUME AccountAssumption == Me \in Users

\* What a form of the page edits is one value, wherever it comes from.
Settings == {"stored", "typed", "elsewhere"}
Nobody == "nobody"

\* A generic IMAP mailbox.  use, manage: those with a grant can_use, can_manage.
\* Mailboxes of unresolved ownership, from before users existed, are left out.
Mailboxes ==
  [mode : {"private", "shared", "deleted"}, owner : Users \cup {Nobody},
   use : SUBSET Users, manage : SUBSET Users,
   connection : Settings, policy : Settings]

-----------------------------------------------------------------------------
(* Access to a mailbox in the API. *)

PrivateTo(box, u) == box.mode = "private" /\ box.owner = u
Accessible(box, u) == PrivateTo(box, u) \/ (box.mode = "shared" /\ u \in box.use)
Manageable(box, u) == PrivateTo(box, u) \/ (box.mode = "shared" /\ u \in box.manage)

\* replace_shared_access keeps the grant of the one who asks, and a grant of
\* another manager if the manager is among the users.
SharedBy(box, u, users) ==
  [box EXCEPT !.mode = "shared", !.owner = Nobody, !.use = users,
              !.manage = {u} \cup (@ \cap users)]
OwnedBy(box, u) ==
  [box EXCEPT !.mode = "private", !.owner = u, !.use = {}, !.manage = {}]

\* Changes of ownership and access also want a recent sign-in.
IfRecent(box, answer) == {No, Ok(box, answer)}

\* update_account writes the fields that were sent.
Patched(box, q) == [box EXCEPT ![q.field] = q.value]

\* A connection is tried before it is stored, and may not work.
AccountReply(q) ==
  CASE q.to = "account" -> {Ok(api, IF Accessible(api, Me) THEN api ELSE NotFound)}
    [] q.to = "cycles" -> IF Accessible(api, Me) THEN {Ok(api, "cycles")} ELSE {No}
    [] q.to = "run-now" -> IF Accessible(api, Me) THEN {Ok(api, "enqueued")} ELSE {No}
    [] q.to = "access" ->
         IF ~ Manageable(api, Me) THEN {Ok(api, NotFound)}
         ELSE IF api.mode = "shared" THEN {Ok(api, api.use)} ELSE {No}
    [] OTHER ->
         IF ~ Manageable(api, Me) THEN {No}
         ELSE CASE q.to = "management" -> {Ok(api, api)}
                [] q.to = "patch" ->
                     LET to == Patched(api, q)
                     IN IF q.field = "connection" THEN {No, Ok(to, to)} ELSE {Ok(to, to)}
                [] q.to = "replace-access" ->
                     IF api.mode # "shared" THEN {No}
                     ELSE IfRecent(SharedBy(api, Me, q.users), q.users)
                [] q.to = "share" ->
                     LET to == SharedBy(api, Me, q.users) IN IfRecent(to, to)
                [] q.to = "own" -> LET to == OwnedBy(api, q.user) IN IfRecent(to, to)
                [] q.to = "delete" ->
                     IfRecent([OwnedBy(api, Nobody) EXCEPT !.mode = "deleted"], "deleted")

-----------------------------------------------------------------------------
(* app/accounts/[id] *)

\* by: whether a click waits for the load, and clears the busy flag with it.
LoadAccount(by) == Handler("load-account", [by |-> by], {[to |-> "account"]})
LoadManaged(by) == Handler("load-managed", [by |-> by], {[to |-> "management"]})
LoadCycles(arg) == Handler("load-cycles", arg, {[to |-> "cycles"]})
LoadAccess(arg) == Handler("load-access", arg, {[to |-> "access"]})

Card(value) == [editing |-> FALSE, form |-> value, busy |-> FALSE]

AccountInit ==
  /\ api \in {box \in Mailboxes :
                /\ box.connection = "stored" /\ box.policy = "stored"
                /\ box.mode = "private" => box = OwnedBy(box, Me)
                /\ box.mode = "shared" =>
                     box.owner = Nobody /\ box.manage \in {{Me}, Users} /\ box.use \in {{}, Users}
                /\ box.mode # "deleted"}
  /\ view = [box |-> NotLoaded, content |-> TRUE, access |-> NotLoaded, ticked |-> {},
             busy |-> FALSE, left |-> FALSE, timer |-> FALSE,
             connection |-> Card("stored"), policy |-> Card("stored")]

\* derivePermissions: a list of grants is taken for the right to manage.
Manages(v) ==
  v.box # NotLoaded /\ (PrivateTo(v.box, Me) \/ v.access # NotLoaded)

\* The cards are there for those who manage, and lose what was typed when they go.
Mounted(v) ==
  IF v.box = NotLoaded \/ Manages(v) THEN v
  ELSE [v EXCEPT !.connection = Card(v.box.connection)]

\* Mutated form of WithBox: the connection form follows the account always.
WithBoxAlways(v, box) ==
  Mounted([v EXCEPT !.box = box, !.policy.form = box.policy,
                    !.connection.form = box.connection])

\* The effects of the two cards: the connection form follows the account unless it
\* is being edited, the policy form always.
WithBox(v, box) ==
  Mounted([v EXCEPT !.box = box, !.policy.form = box.policy,
                    !.connection.form = IF v.connection.editing THEN @ ELSE box.connection])

WithAccess(v, access, ticked) ==
  Mounted([v EXCEPT !.access = access, !.ticked = ticked])

\* The end of a load is the end of the click that waits for it.
Loaded(k, v) ==
  /\ view' = [v EXCEPT !.busy = @ /\ run[k].arg.by # "click"]
  /\ Ends(k)

\* loadSharedAccess
AccessNext(k, box, v) ==
  IF box.mode = "shared"
    THEN Becomes(k, LoadAccess([by |-> run[k].arg.by, box |-> box])) /\ view' = v
    ELSE Loaded(k, WithAccess(v, NotLoaded, {}))

AccountLoaded(k) ==
  \/ /\ Answered(k, "load-account")
     /\ LET box == run[k].got[[to |-> "account"]]
        IN IF box = NotFound
             THEN Becomes(k, LoadManaged(run[k].arg.by)) /\ UNCHANGED view
             ELSE /\ view' = [WithBox(view, box) EXCEPT !.content = TRUE]
                  /\ Becomes(k, LoadCycles([by |-> run[k].arg.by, box |-> box]))
  \/ /\ Answered(k, "load-managed")
     /\ LET box == run[k].got[[to |-> "management"]]
        IN AccessNext(k, box, [WithBox(view, box) EXCEPT !.content = FALSE])
  \/ Rejected(k, "load-account") /\ Loaded(k, view)
  \/ Rejected(k, "load-managed") /\ Loaded(k, view)

\* Without a history the page goes on; the history itself is left out.
CyclesLoaded(k) ==
  /\ Answered(k, "load-cycles") \/ Rejected(k, "load-cycles")
  /\ AccessNext(k, run[k].arg.box, view)

AccessLoaded(k) ==
  \/ /\ Answered(k, "load-access")
     /\ LET users == run[k].got[[to |-> "access"]]
        IN Loaded(k, IF users = NotFound THEN WithAccess(view, NotLoaded, view.ticked)
                                         ELSE WithAccess(view, users, users))
  \/ Rejected(k, "load-access") /\ Loaded(k, view)

Tick(u) ==
  /\ Manages(view) /\ ~ view.left
  /\ view' = [view EXCEPT !.ticked = IF u \in @ THEN @ \ {u} ELSE @ \cup {u}]
  /\ UNCHANGED run /\ Timer

\* A button of the page: one click at a time.
PressBox(of, request) ==
  /\ Click
  /\ view.box # NotLoaded /\ ~ view.left
  /\ ~ view.busy /\ view' = [view EXCEPT !.busy = TRUE]
  /\ Begin(Handler(of, [by |-> "click"], {request}))

RunNow == view.content /\ PressBox("run-now", [to |-> "run-now"])
Disconnect == Manages(view) /\ PressBox("leave", [to |-> "delete"])
SaveSharedAccess ==
  /\ view.box # NotLoaded /\ view.box.mode = "shared" /\ view.access # NotLoaded
  /\ PressBox("save-access", [to |-> "replace-access", users |-> view.ticked])
MakeShared ==
  /\ view.box # NotLoaded /\ PrivateTo(view.box, Me)
  /\ PressBox("change-owner", [to |-> "share", users |-> view.ticked])

\* A private mailbox is given away, a shared one to anybody.
TransferPrivate ==
  /\ view.box # NotLoaded /\ PrivateTo(view.box, Me)
  /\ \E u \in Users \ {Me} : PressBox("leave", [to |-> "own", user |-> u])
MakePrivate ==
  /\ view.box # NotLoaded /\ view.box.mode = "shared" /\ view.access # NotLoaded
  /\ \E u \in Users : PressBox("change-owner", [to |-> "own", user |-> u])

BoxClicked(k) ==
  LET q == CHOOSE r \in DOMAIN run[k].got : TRUE
      answer == run[k].got[q]
  IN \/ /\ Answered(k, "run-now")
        /\ view' = [view EXCEPT !.busy = FALSE, !.timer = TRUE]
        /\ Ends(k)
     \/ /\ Answered(k, "save-access")
        /\ view' = [WithAccess(view, answer, answer) EXCEPT
                      !.content = Me \in answer, !.busy = FALSE]
        /\ Ends(k)
     \/ /\ Answered(k, "change-owner")
        /\ IF q.to = "own" /\ answer.owner # Me
             THEN view' = [view EXCEPT !.left = TRUE, !.busy = FALSE] /\ Ends(k)
             ELSE Becomes(k, LoadAccount("click")) /\ UNCHANGED view
     \/ /\ Answered(k, "leave")
        /\ view' = [view EXCEPT !.left = TRUE]
        /\ Ends(k)
     \/ /\ \E of \in {"run-now", "save-access", "change-owner", "leave"} : Rejected(k, of)
        /\ view' = [view EXCEPT !.busy = FALSE]
        /\ Ends(k)

\* 1.2 seconds after a cycle was asked for.
ReloadAfterRun ==
  /\ view.timer /\ view' = [view EXCEPT !.timer = FALSE]
  /\ Begin(LoadAccount("timer"))
  /\ Timer

-----------------------------------------------------------------------------
(* The two cards. *)

Editable(card) == Manages(view) /\ ~ view.left /\ (card = "policy" \/ view[card].editing)

EditConnection ==
  /\ Manages(view) /\ ~ view.left /\ ~ view.connection.editing
  /\ view' = [view EXCEPT !.connection.editing = TRUE]
  /\ UNCHANGED run /\ Timer

Type(card) ==
  /\ Editable(card)
  /\ view' = [view EXCEPT ![card].form = "typed"]
  /\ UNCHANGED run /\ Timer

CancelConnection ==
  /\ Editable("connection") /\ ~ view.connection.busy
  /\ view' = [view EXCEPT !.connection = Card(view.box.connection)]
  /\ UNCHANGED run /\ Timer

SaveCard(card) ==
  /\ Click
  /\ Editable(card)
  /\ ~ view[card].busy /\ view' = [view EXCEPT ![card].busy = TRUE]
  /\ Begin(Handler("save-card", card,
                   {[to |-> "patch", field |-> card, value |-> view[card].form]}))

CardSaved(k) ==
  LET card == run[k].arg
      q == CHOOSE r \in DOMAIN run[k].got : TRUE
  IN \/ /\ Answered(k, "save-card")
        /\ view' = WithBox([view EXCEPT ![card].busy = FALSE, ![card].editing = FALSE],
                           run[k].got[q])
        /\ Ends(k)
     \/ /\ Rejected(k, "save-card")
        /\ view' = [view EXCEPT ![card].busy = FALSE]
        /\ Ends(k)

\* Another manager saves a card, or changes who has access.
AccountEvent ==
  /\ Event
  /\ \E u \in Users \ {Me} :
       /\ Manageable(api, u)
       /\ \/ \E field \in {"connection", "policy"} :
               api' = [api EXCEPT ![field] = "elsewhere"]
          \/ \E users \in SUBSET Users : api' = SharedBy(api, u, users)
          \/ api' = OwnedBy(api, u)
          \/ api' = [OwnedBy(api, Nobody) EXCEPT !.mode = "deleted"]

-----------------------------------------------------------------------------
(* app/accounts/[id]/smtp *)

LoadSmtp == Handler("load-smtp", "open", {[to |-> "account"]})

SmtpInit ==
  /\ api \in {[mode |-> "shared", owner |-> Nobody, use |-> use, manage |-> Users,
                connection |-> "stored", policy |-> "stored"] : use \in SUBSET Users}
  /\ view = [box |-> NotLoaded, form |-> "empty", busy |-> FALSE]

SmtpLoaded(k) ==
  \/ /\ Answered(k, "load-smtp")
     /\ LET box == run[k].got[[to |-> "account"]]
        IN view' = IF box = NotFound THEN view
                   ELSE [view EXCEPT !.box = box, !.form = box.connection]
     /\ Ends(k)
  \/ Rejected(k, "load-smtp") /\ UNCHANGED view /\ Ends(k)

TypeSmtp ==
  /\ view.box # NotLoaded /\ view' = [view EXCEPT !.form = "typed"]
  /\ UNCHANGED run /\ Timer

SaveSmtp ==
  /\ Click
  /\ view.box # NotLoaded
  /\ ~ view.busy /\ view' = [view EXCEPT !.busy = TRUE]
  /\ Begin(Handler("save-smtp", "click",
                   {[to |-> "patch", field |-> "connection", value |-> view.form]}))

\* The form keeps what was typed meanwhile.
SmtpSaved(k) ==
  LET q == CHOOSE r \in DOMAIN run[k].got : TRUE
  IN \/ /\ Answered(k, "save-smtp")
        /\ view' = [view EXCEPT !.box = run[k].got[q], !.busy = FALSE]
        /\ Ends(k)
     \/ /\ Rejected(k, "save-smtp")
        /\ view' = [view EXCEPT !.busy = FALSE]
        /\ Ends(k)

-----------------------------------------------------------------------------
(* What the pages promise. *)

\* What a manager is typing into the connection card survives every answer that
\* arrives meanwhile (of the other card, of a click, of the reload after a run),
\* until it is saved or cancelled, or the card goes away with the right to manage
\* (the "if (!editing)" of ConnectionSettingsCard).
TypedIsKept ==
  [][page = "account" /\ view.connection.editing /\ view'.connection.editing
       => view'.connection.form \in {view.connection.form, "typed"}]_vars
=============================================================================
