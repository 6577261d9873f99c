--------------------------- MODULE OnboardingPage ---------------------------
(***************************************************************************)
(* The wizard app/onboarding, "onboarding": a member of the organization   *)
(* connects a mailbox or takes up the one he has, says who may use it and  *)
(* what Mailflow may move, and has the mail that is already there          *)
(* analysed.  Colleagues and other tabs work on the same mailboxes.        *)
(***************************************************************************)
EXTENDS AccountPages

CONSTANT Connected   \* ids of mailboxes, older ones first

ASSUME OnboardingAssumption == Connected \in SUBSET Nat /\ IsFiniteSet(Connected)

\* A mailbox, whether it is connected by OAuth, and the backfill of its inbox: old
\* is one that had ended when the wizard was opened.  What the action policies say
\* is left out.
NoMailbox == [id |-> 0, mode |-> "none", kind |-> "none"]
Backfills == {"none", "old", "active", "ended"}

Fresh(kind, mode, users) ==
  LET box == [mode |-> mode, owner |-> Nobody, use |-> {}, manage |-> {}, kind |-> kind]
  IN IF mode = "private" THEN OwnedBy(box, Me) ELSE SharedBy(box, Me, users)

-----------------------------------------------------------------------------
(* Mailboxes and backfills in the API. *)

Used == {i \in Connected : api.boxes[i] # NoMailbox}
Told(i, box) == [id |-> i, mode |-> box.mode, kind |-> box.kind]

Stored(i, box) == Ok([api EXCEPT !.boxes[i] = box], Told(i, box))

\* create_account tries the connection, and the plan may not allow another mailbox.
CreateReply(q) ==
  {No} \cup
  IF q.mode = "shared" /\ ~ api.admin THEN {}
  ELSE {Stored(i, Fresh("imap", q.mode, q.users)) :
          i \in {j \in Connected \ Used : \A l \in Used : l < j}}

ManagedReply(q) ==
  LET box == api.boxes[q.box]
  IN CASE q.to = "own" -> {No, Stored(q.box, OwnedBy(box, Me))}
       [] q.to = "share" -> {No, Stored(q.box, SharedBy(box, Me, q.users))}
       [] q.to = "replace-access" ->
            {No} \cup IF box.mode # "shared" THEN {}
                      ELSE {Stored(q.box, SharedBy(box, Me, q.users))}
       [] q.to = "patch" -> {Stored(q.box, box)}
       [] q.to = "backfills" -> {Ok(api, api.job[q.box])}
       [] q.to = "start-backfill" ->
            IF api.job[q.box] = "active" THEN {No}
            ELSE {Ok([api EXCEPT !.job[q.box] = "active"], "started")}

OnboardingReply(q) ==
  CASE q.to = "accounts" ->
         {Ok(api, {Told(i, api.boxes[i]) : i \in {j \in Used : Accessible(api.boxes[j], Me)}})}
    [] q.to = "members" -> {Ok(api, api.admin)}
    [] q.to = "test" -> {Ok(api, "works"), No}
    [] q.to = "authorize" -> {Ok(api, "url"), No}
    [] q.to = "create" -> CreateReply(q)
    [] OTHER -> IF Manageable(api.boxes[q.box], Me) THEN ManagedReply(q) ELSE {No}

\* Another manager changes who has access, or removes the mailbox; another tab
\* connects one; a backfill is started elsewhere, or ends.
OnboardingEvent ==
  /\ Event
  /\ \/ \E i \in Used, u \in Users \ {Me}, users \in SUBSET Users :
          /\ Manageable(api.boxes[i], u)
          /\ api' \in {[api EXCEPT !.boxes[i] = SharedBy(@, u, users)],
                       [api EXCEPT !.boxes[i] = OwnedBy(@, u)],
                       [api EXCEPT !.boxes[i].mode = "deleted", !.boxes[i].owner = Nobody]}
     \/ \E i \in Connected \ Used :
          /\ \A l \in Used : l < i
          /\ api' = [api EXCEPT !.boxes[i] = Fresh("imap", "private", {})]
     \/ \E i \in Used :
          \/ /\ api.job[i] = "active"
             /\ api' = [api EXCEPT !.job[i] = "ended"]
          \/ /\ api.job[i] # "active" /\ api.boxes[i].mode # "deleted"
             /\ api' = [api EXCEPT !.job[i] = "active"]

-----------------------------------------------------------------------------
(* The wizard. *)

\* The parameters: ?new=1, the way back from the OAuth provider, or neither.
LoadWizard(way) == Handler("load-wizard", way, {[to |-> "accounts"]})
LoadMembers == Handler("load-members", "session", {[to |-> "members"]})

OnboardingInit ==
  /\ \E admin \in BOOLEAN, i \in Connected, kind \in {"imap", "oauth"},
        mode \in {"private", "shared"}, job \in {"none", "old", "active"} :
       \/ api = [boxes |-> [j \in Connected |-> NoMailbox], admin |-> admin,
                 job |-> [j \in Connected |-> "none"]]
       \/ /\ \A j \in Connected : i <= j
          /\ api = [boxes |-> [j \in Connected |->
                                 IF j = i THEN Fresh(kind, mode, Users) ELSE NoMailbox],
                    job |-> [j \in Connected |-> IF j = i THEN job ELSE "none"],
                    admin |-> admin]
  /\ view = [step |-> "welcome", loading |-> TRUE, busy |-> FALSE, left |-> FALSE,
             box |-> NoMailbox, analyze |-> TRUE, asked |-> FALSE, admin |-> FALSE]

\* The oldest mailbox is taken up.  Who has access to it is not loaded.
Oldest(boxes) == CHOOSE box \in boxes : \A other \in boxes : box.id <= other.id

WizardLoaded(k) ==
  \/ /\ Answered(k, "load-wizard")
     /\ LET boxes == run[k].got[[to |-> "accounts"]]
            shown == [view EXCEPT !.loading = FALSE]
        IN \/ /\ run[k].arg = "new"
              /\ view' = [shown EXCEPT !.step = "mailbox"]
           \/ /\ run[k].arg = "plain"
              /\ \E step \in {"welcome", "mailbox"} :
                   view' = [shown EXCEPT !.step = step,
                                         !.box = IF boxes = {} THEN @ ELSE Oldest(boxes)]
           \/ /\ run[k].arg = "connected"
              /\ LET own == {box \in boxes : box.kind = "oauth"}
                 IN view' = IF own = {} THEN [shown EXCEPT !.step = "mailbox"]
                            ELSE [shown EXCEPT !.step = "privacy", !.box = Oldest(own)]
     /\ Ends(k)
  \/ /\ Rejected(k, "load-wizard")
     /\ view' = [view EXCEPT !.loading = FALSE]
     /\ Ends(k)

\* The effect that waits for the session, and does without an answer.
SessionKnown ==
  /\ ~ view.asked /\ view' = [view EXCEPT !.asked = TRUE]
  /\ Begin(LoadMembers)
  /\ Timer
MembersLoaded(k) ==
  \/ /\ Answered(k, "load-members")
     /\ view' = [view EXCEPT !.admin = run[k].got[[to |-> "members"]]]
     /\ Ends(k)
  \/ Rejected(k, "load-members") /\ UNCHANGED view /\ Ends(k)

At(step) == view.step = step /\ ~ view.loading /\ ~ view.left
Look(v) == view' = v /\ UNCHANGED run /\ Timer

\* The buttons under the steps.  Back is never disabled.
ToMailbox == At("welcome") /\ Look([view EXCEPT !.step = "mailbox"])
Before(step) ==
  CASE step = "mailbox" -> "welcome"
    [] step = "privacy" -> "mailbox"
    [] step = "behavior" -> "privacy"
    [] step = "existing" -> "behavior"
    [] step = "ready" -> "existing"
Back ==
  /\ view.step # "welcome" /\ At(view.step)
  /\ Look([view EXCEPT !.step = Before(@)])
OpenMailflow == At("ready") /\ Look([view EXCEPT !.left = TRUE])

\* The form is read when a button is pressed, and nothing else changes it: what has
\* been typed and ticked by then is chosen there.
Choices == {[mode |-> "private", users |-> {}]}
  \cup (IF view.admin THEN [mode : {"shared"}, users : SUBSET Users] ELSE {})

ToggleAnalyze == At("existing") /\ Look([view EXCEPT !.analyze = ~ @])

\* A button that sends a request.  The way through the wizard is bounded, its
\* clicks are not counted as moves.
Wait(of, request) ==
  /\ ~ view.busy /\ view' = [view EXCEPT !.busy = TRUE]
  /\ Begin(Handler(of, "click", {request}))
  /\ Timer

ConnectOAuth ==
  /\ At("mailbox")
  /\ view.box.kind # "oauth"
  /\ Wait("oauth", [to |-> "authorize"])

\* The fields of the IMAP and SMTP form are left out: they work or not.
ImapConnection == [to |-> "test"]

\* Of a mailbox that is taken up, what is typed is tried and then forgotten.
ContinueFromMailbox ==
  /\ At("mailbox")
  /\ \/ Wait("test", ImapConnection)
     \/ /\ ~ view.busy /\ view.box # NoMailbox
        /\ Look([view EXCEPT !.step = "privacy"])

AccountPayload(form) == [to |-> "create", mode |-> form.mode, users |-> form.users]

\* A new mailbox is created; of another one the mode is changed, or the users.
\* Users that are ticked stay so while the wizard is open, also for a mailbox that
\* was shared before.
SavePrivacy ==
  /\ At("privacy")
  /\ \E form \in Choices \cup {[mode |-> view.box.mode, users |-> {}]} :
       \/ /\ view.box = NoMailbox /\ form.mode # "none"
          /\ Wait("privacy", AccountPayload(form))
       \/ /\ view.box # NoMailbox /\ view.box.mode # form.mode
          /\ Wait("privacy", [to |-> IF form.mode = "shared" THEN "share" ELSE "own",
                              box |-> view.box.id, users |-> form.users])
       \/ /\ view.box.mode = "shared" /\ form.mode = "shared"
          /\ Wait("privacy", [to |-> "replace-access", box |-> view.box.id,
                              users |-> form.users])
       \/ /\ view.box.mode = "private" /\ form.mode = "private"
          /\ ~ view.busy
          /\ Look([view EXCEPT !.step = "behavior"])

SaveBehavior ==
  /\ At("behavior") /\ view.box # NoMailbox
  /\ Wait("behavior", [to |-> "patch", box |-> view.box.id])

\* Mutated form of Underway: any backfill will do.
UnderwayEver(job) == job # "none"

\* A backfill that runs or is paused is enough.
Underway(job) == job = "active"

FinishExisting ==
  /\ At("existing") /\ view.box # NoMailbox
  /\ \/ view.analyze /\ Wait("existing", [to |-> "backfills", box |-> view.box.id])
     \/ ~ view.analyze /\ ~ view.busy /\ Look([view EXCEPT !.step = "ready"])

Done(k, v) == view' = [v EXCEPT !.busy = FALSE] /\ Ends(k)

\* An answer goes on to the next step, wherever the user has gone meanwhile.
WizardAnswered(k) ==
  LET q == CHOOSE r \in DOMAIN run[k].got : TRUE
      answer == run[k].got[q]
  IN \/ Answered(k, "oauth") /\ view' = [view EXCEPT !.left = TRUE] /\ Ends(k)
     \/ Answered(k, "test") /\ Done(k, [view EXCEPT !.step = "privacy"])
     \/ /\ Answered(k, "privacy")
        /\ Done(k, [view EXCEPT !.step = "behavior",
                                !.box = IF q.to = "replace-access" THEN @ ELSE answer])
     \/ Answered(k, "behavior") /\ Done(k, [view EXCEPT !.step = "existing", !.box = answer])
     \/ /\ Answered(k, "existing")
        /\ IF q.to = "backfills" /\ ~ Underway(answer)
             THEN /\ Becomes(k, Handler("existing", "click",
                                        {[to |-> "start-backfill", box |-> q.box]}))
                  /\ UNCHANGED view
             ELSE Done(k, [view EXCEPT !.step = "ready"])
     \/ /\ \E of \in {"oauth", "test", "privacy", "behavior", "existing"} : Rejected(k, of)
        /\ Done(k, view)

-----------------------------------------------------------------------------
(* What the wizard promises. *)

\* When the last step says that the existing mail is being analysed, a backfill of
\* the mailbox was running while the wizard was open, whoever started it and
\* whatever was lost or refused on the way (the summary of Ready; finishExisting
\* lists the backfills before it starts one).
ReadyIsTrue ==
  page = "onboarding" /\ view.step = "ready" /\ view.analyze
    => api.job[view.box.id] \in {"active", "ended"}
=============================================================================
