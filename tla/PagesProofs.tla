----------------------------- MODULE PagesProofs -----------------------------
(***************************************************************************)
(* Proofs about the pages of the web application: for any number of        *)
(* handlers in progress, any mailboxes, mails, rules, entries, folders and *)
(* users.  A step of the tab belongs to the page that it shows, so each    *)
(* page has an invariant of its own: what its handlers ask, and what holds *)
(* of the answers that they have.                                          *)
(***************************************************************************)
EXTENDS Pages, WellFoundedInduction, TLAPS

-----------------------------------------------------------------------------
(* Handlers and requests, whatever page they belong to. *)

HandlerFields == {"of", "arg", "asked", "got", "failed", "settles"}

\* A slot holds a handler, or none.
Shaped(h) == h = Idle \/ DOMAIN h = HandlerFields

Slotted == DOMAIN run = Slots /\ \A k \in Slots : Shaped(run[k])

\* What a handler is like after an answer: it asks for one thing less, and has the
\* answer or has failed.
Answering(h, q, ok, answer, new) ==
  /\ DOMAIN new = HandlerFields
  /\ new.of = h.of /\ new.arg = h.arg /\ new.settles = h.settles
  /\ new.asked = h.asked \ {q}
  /\ \/ /\ ok \/ h.settles
        /\ new.got = Over(h.got, [r \in {q} |-> answer])
        /\ new.failed = h.failed
     \/ ~ ok /\ new.got = h.got /\ new.failed = TRUE

LEMMA ReceivedOne ==
  ASSUME NEW h, DOMAIN h = HandlerFields, NEW q, NEW ok, NEW answer
  PROVE  Answering(h, q, ok, answer, Received(h, q, ok, answer))
<1>1. CASE ok \/ h.settles
  <2>1. Received(h, q, ok, answer)
          = [h EXCEPT !.asked = @ \ {q}, !.got = Over(@, [r \in {q} |-> answer])]
    BY <1>1 DEF Received
  <2> QED
    BY <1>1, <2>1 DEF Answering, HandlerFields
<1>2. CASE ~ (ok \/ h.settles)
  <2>1. Received(h, q, ok, answer) = [h EXCEPT !.asked = @ \ {q}, !.failed = TRUE]
    BY <1>2 DEF Received
  <2> QED
    BY <1>2, <2>1 DEF Answering, HandlerFields
<1> QED
  BY <1>1, <1>2

LEMMA OneReceived ==
  ASSUME NEW k \in Slots, Slotted, NEW q \in run[k].asked, NEW ok, NEW answer,
         Receive(k, q, ok, answer)
  PROVE  \E new : Answering(run[k], q, ok, answer, new) /\ run' = [run EXCEPT ![k] = new]
<1>1. DOMAIN run[k] = HandlerFields
  BY DEF Slotted, Shaped, Idle
<1>2. run' = [run EXCEPT ![k] = Received(run[k], q, ok, answer)]
  BY DEF Receive
<1> QED
  BY <1>1, <1>2, ReceivedOne

LEMMA IdleIs == Shaped(Idle) /\ Idle.of = "idle" /\ Idle.asked = {}
BY DEF Shaped, Idle

\* One slot changes.
LEMMA OneSlot ==
  ASSUME Slotted, NEW k \in Slots, NEW h, Shaped(h), run' = [run EXCEPT ![k] = h]
  PROVE  Slotted' /\ run'[k] = h /\ \A j \in Slots \ {k} : run'[j] = run[j]
<1>1. DOMAIN run = Slots /\ \A j \in Slots : Shaped(run[j])
  BY DEF Slotted
<1>2. DOMAIN run' = Slots /\ run'[k] = h /\ \A j \in Slots \ {k} : run'[j] = run[j]
  BY <1>1
<1>3. \A j \in Slots : Shaped(run'[j])
  BY <1>1, <1>2
<1> QED
  BY <1>2, <1>3 DEF Slotted

\* Outcomes of a request.
LEMMA OkIs ==
  ASSUME NEW stored, NEW answer
  PROVE  /\ Ok(stored, answer).api = stored /\ Ok(stored, answer).ok = TRUE
         /\ Ok(stored, answer).answer = answer
BY DEF Ok

LEMMA NoIs == No.api = api /\ No.ok = FALSE /\ No.answer = Refused
BY DEF No

\* What the API does with a request, whether or not its answer arrives.
ServedAs(k, q, o, new) ==
  /\ run' = [run EXCEPT ![k] = new]
  /\ UNCHANGED <<page, view, adrift>>
  /\ \/ api' = o.api /\ Answering(run[k], q, o.ok, o.answer, new)
     \/ api' \in {api, o.api} /\ Answering(run[k], q, FALSE, Refused, new)

LEMMA AnsweredOrLost ==
  ASSUME Slotted, NEW k \in Slots, Served(k) \/ Lost(k)
  PROVE  \E q \in run[k].asked : \E o \in Reply(q) : \E new : ServedAs(k, q, o, new)
<1>1. CASE Served(k)
  <2>1. PICK q \in run[k].asked : Serve(k, q, Reply(q))
    BY <1>1 DEF Served
  <2>2. PICK o \in Reply(q) :
          api' = o.api /\ Receive(k, q, o.ok, o.answer) /\ UNCHANGED <<page, view, adrift>>
    BY <2>1 DEF Serve
  <2> QED
    BY <2>2, OneReceived DEF ServedAs
<1>2. CASE Lost(k)
  <2>1. PICK q \in run[k].asked : Lose(k, q, Reply(q))
    BY <1>2 DEF Lost
  <2>2. PICK o \in Reply(q) :
          /\ api' \in {api, o.api} /\ Receive(k, q, FALSE, Refused)
          /\ UNCHANGED <<page, view, adrift>>
    BY <2>1 DEF Lose
  <2> QED
    BY <2>2, OneReceived DEF ServedAs
<1> QED
  BY <1>1, <1>2

-----------------------------------------------------------------------------
(* No page turns into another one: they are taken one at a time. *)

LEMMA ClustersStay == ASSUME Clusters PROVE page' = page
BY DEF Clusters, Confirm, EditTarget, ApproveSafe, StartApply, Press, PollClusters, PollApply,
       ClusterEvent, ClusterClicked, ClustersLoaded, Followed, Click, Timer, Event, Becomes, Ends

LEMMA ProcessingStays == ASSUME Processing PROVE page' = page
BY DEF Processing, PauseAll, RestartFailed, Ask, PollRuns, RunEvent, RunsLoaded, RunsAnswered,
       Click, Timer, Event, Becomes, Ends, GivesUp

LEMMA ReviewStays == ASSUME Review PROVE page' = page
BY DEF Review, Expand, OpenEditor, ConfirmRow, SaveCorrection, RouteRow, DismissRow,
       RetryFailure, RunBusy, ReloadReview, ReviewEvent, FoldersLoaded, ReviewAnswered,
       ReviewLoaded, Click, Timer, Event, Becomes, Ends

LEMMA NotificationsStay == ASSUME Notifications PROVE page' = page
BY DEF Notifications, MarkOne, MarkAllRead, PatchPreferences, SavePreferences, MarkNext,
       NotificationEvent, MarkedRead, NotesLoaded, PreferencesSaved,
       Click, Timer, Event, Becomes, Ends

LEMMA AccountStays == ASSUME Account PROVE page' = page
BY DEF Account, RunNow, Disconnect, SaveSharedAccess, MakeShared, TransferPrivate, MakePrivate,
       PressBox, ReloadAfterRun, EditConnection, CancelConnection, AccountEvent, Tick, Type,
       SaveCard, AccountLoaded, CyclesLoaded, AccessLoaded, BoxClicked, CardSaved, AccessNext,
       Loaded, Click, Timer, Event, Becomes, Ends

LEMMA SmtpStays == ASSUME Smtp PROVE page' = page
BY DEF Smtp, TypeSmtp, SaveSmtp, AccountEvent, SmtpLoaded, SmtpSaved,
       Click, Timer, Event, Becomes, Ends

LEMMA MemoryStays == ASSUME Memory PROVE page' = page
BY DEF Memory, CancelEdit, ReloadMemory, ToggleEntry, RemoveEntry, PressEntry, BeginEdit,
       PatchDraft, SaveEntry, EntryClicked, MemoryLoaded, MemoryServer, MemoryEvent, LoadEntry,
       LoseEntry, WriteEntry, CommitEntry, Server, Click, Timer, Event, Becomes, Ends

LEMMA LearningStays == ASSUME Learning PROVE page' = page
BY DEF Learning, OpenModal, CloseModal, SubmitRule, ToggleEnabled, LearningLoaded,
       LearningClicked, MemoryServer, MemoryEvent, LoadEntry, LoseEntry, WriteEntry,
       CommitEntry, Server, Click, Timer, Event, Becomes, Ends

LEMMA RulesStay == ASSUME RulesPage PROVE page' = page
BY DEF RulesPage, UpdatePolicy, AddRule, RemoveRule, PressRules, RulesEvent, SelectBox,
       BoxesLoaded, RulesArrive, RulesClicked, Click, Timer, Event, Becomes, Ends

LEMMA StructureStays == ASSUME Structure PROVE page' = page
BY DEF Structure, StartSetup, Discover, EditItem, NextToMapping, EditRoutes, BackToDiscovery,
       NextToReview, ApplyDraft, BackToMapping, BackToFolders, ApplyReceived, StructureEvent,
       ChooseMailbox, ApplyListed, FolderCreated, ApplyStored, ApplyFailed, ApplyStep, Onward,
       Ended, ListLoaded, CurrentLoaded, Discovered, DraftApplied, Goes,
       Click, Timer, Event, Becomes, Ends

LEMMA OnboardingStays == ASSUME Onboarding PROVE page' = page
BY DEF Onboarding, SessionKnown, ToMailbox, Back, OpenMailflow, ToggleAnalyze, ConnectOAuth,
       ContinueFromMailbox, SavePrivacy, SaveBehavior, FinishExisting, OnboardingEvent,
       WizardLoaded, MembersLoaded, WizardAnswered, Wait, Look, Done,
       Click, Timer, Event, Becomes, Ends

LEMMA PageStays == ASSUME [Next]_vars PROVE page' = page
<1>1. CASE \E k \in Slots : Served(k) \/ Lost(k)
  BY <1>1 DEF Served, Lost, Serve, Lose
<1>2. CASE Forgotten
  BY <1>2 DEF Forgotten, ServeAdrift
<1> QED
  BY <1>1, <1>2, ClustersStay, ProcessingStays, ReviewStays, NotificationsStay, AccountStays,
     SmtpStays, MemoryStays, LearningStays, RulesStay, StructureStays, OnboardingStays
     DEF Next, vars

-----------------------------------------------------------------------------
(* The rules page: what is asked to be removed is removed from the mailbox that *)
(* was selected.                                                                *)

RuleRequest(h, q) ==
  /\ q.to \in {"mailboxes", "set-policy", "rules", "create-rule", "remove-rule"}
  /\ q.to = "remove-rule" => q.box = h.arg

RulesInv ==
  /\ Slotted
  /\ adrift = {}
  /\ \A k \in Slots : \A q \in run[k].asked : RuleRequest(run[k], q)
  /\ DOMAIN api = {"rules", "unused", "policy"}

\* Of the API, only the answer to a removal removes rules.
LEMMA OnlyRemoval ==
  ASSUME DOMAIN api = {"rules", "unused", "policy"}, NEW h, NEW q, RuleRequest(h, q),
         NEW o \in RulesReply(q)
  PROVE  /\ DOMAIN o.api = {"rules", "unused", "policy"}
         /\ \A r \in api.rules \ o.api.rules : q.to = "remove-rule" /\ r.box = h.arg
<1>1. CASE q.to \in {"mailboxes", "rules"} \/ o = No
  <2>1. o = No \/ \E answer : o = Ok(api, answer)
    BY <1>1 DEF RulesReply
  <2>2. CASE o = No
    BY <2>2, NoIs
  <2>3. CASE o # No
    <3>1. PICK answer : o = Ok(api, answer)
      BY <2>1, <2>3
    <3>2. o.api = api
      BY <3>1, OkIs
    <3> QED
      BY <3>2
  <2> QED
    BY <2>2, <2>3
<1>2. CASE q.to = "set-policy" /\ o # No
  <2>1. o = Ok([api EXCEPT !.policy[q.box] = q.policy], "saved")
    BY <1>2 DEF RulesReply
  <2>2. o.api = [api EXCEPT !.policy[q.box] = q.policy]
    BY <2>1, OkIs
  <2> QED
    BY <2>2
<1>3. CASE q.to = "create-rule" /\ o # No
  <2>1. PICK id \in api.unused :
          o = Ok([api EXCEPT !.rules = @ \cup {[id |-> id, kind |-> q.kind, box |-> q.box]},
                             !.unused = @ \ {id}], id)
    BY <1>3 DEF RulesReply
  <2>2. o.api = [api EXCEPT !.rules = @ \cup {[id |-> id, kind |-> q.kind, box |-> q.box]},
                            !.unused = @ \ {id}]
    BY <2>1, OkIs
  <2> QED
    BY <2>2
<1>4. CASE q.to = "remove-rule" /\ o # No
  <2>1. o = Ok([api EXCEPT !.rules = @ \ RuleOf(q)], "deleted")
    BY <1>4 DEF RulesReply
  <2>2. o.api = [api EXCEPT !.rules = @ \ RuleOf(q)]
    BY <2>1, OkIs
  <2>3. \A r \in RuleOf(q) : r.box = h.arg
    BY <1>4 DEF RuleOf, RuleRequest
  <2> QED
    BY <2>2, <2>3, <1>4
<1> QED
  BY <1>1, <1>2, <1>3, <1>4 DEF RuleRequest

\* The handlers of the page ask only for that.
RuleHandler(h) == Shaped(h) /\ \A q \in h.asked : RuleRequest(h, q)

LEMMA RuleHandlers ==
  /\ RuleHandler(Idle)
  /\ \A by : RuleHandler(LoadBoxes(by))
  /\ \A by, box : RuleHandler(LoadRulesOf(by, box))
<1>1. RuleHandler(Idle)
  BY IdleIs DEF RuleHandler
<1>2. ASSUME NEW by PROVE RuleHandler(LoadBoxes(by))
  <2>1. Shaped(LoadBoxes(by)) /\ LoadBoxes(by).asked = {[to |-> "mailboxes"]}
    BY DEF LoadBoxes, Handler, Shaped, HandlerFields
  <2> QED
    BY <2>1 DEF RuleHandler, RuleRequest
<1>3. ASSUME NEW by, NEW box PROVE RuleHandler(LoadRulesOf(by, box))
  <2>1. /\ Shaped(LoadRulesOf(by, box))
        /\ LoadRulesOf(by, box).asked =
             {[to |-> "rules", kind |-> kind, box |-> box] : kind \in RuleKinds}
    BY DEF LoadRulesOf, Handler, Shaped, HandlerFields
  <2>2. \A q \in LoadRulesOf(by, box).asked : q.to = "rules"
    BY <2>1
  <2> QED
    BY <2>1, <2>2 DEF RuleHandler, RuleRequest
<1> QED
  BY <1>1, <1>2, <1>3

LEMMA RuleButtons ==
  ASSUME NEW of, NEW q, RuleRequest([arg |-> view.box], q)
  PROVE  RuleHandler(Handler(of, view.box, {q}))
<1>1. /\ Shaped(Handler(of, view.box, {q}))
      /\ Handler(of, view.box, {q}).asked = {q} /\ Handler(of, view.box, {q}).arg = view.box
  BY DEF Handler, Shaped, HandlerFields
<1> QED
  BY <1>1 DEF RuleHandler, RuleRequest

\* A step of the page changes one handler at most.
RuleStep ==
  /\ UNCHANGED <<api, adrift>>
  /\ \/ run' = run
     \/ \E k \in Slots : \E h : RuleHandler(h) /\ run' = [run EXCEPT ![k] = h]

LEMMA RulesStep ==
  ASSUME RulesPage, ~ RulesEvent PROVE RuleStep
<1>1. CASE UpdatePolicy
  <2>1. PICK policy :
          PressRules("policy", [to |-> "set-policy", box |-> view.box, policy |-> policy])
    BY <1>1 DEF UpdatePolicy
  <2>2. RuleRequest([arg |-> view.box], [to |-> "set-policy", box |-> view.box, policy |-> policy])
    BY DEF RuleRequest
  <2> QED
    BY <2>1, <2>2, RuleButtons DEF PressRules, Begin, Click, RuleStep
<1>2. CASE AddRule
  <2>1. PICK kind : PressRules("rule", [to |-> "create-rule", kind |-> kind, box |-> view.box])
    BY <1>2 DEF AddRule
  <2>2. RuleRequest([arg |-> view.box], [to |-> "create-rule", kind |-> kind, box |-> view.box])
    BY DEF RuleRequest
  <2> QED
    BY <2>1, <2>2, RuleButtons DEF PressRules, Begin, Click, RuleStep
<1>3. CASE RemoveRule
  <2>1. PICK r : PressRules("rule", [to |-> "remove-rule", rule |-> r.id, kind |-> r.kind,
                                     box |-> view.box])
    BY <1>3 DEF RemoveRule
  <2>2. RuleRequest([arg |-> view.box], [to |-> "remove-rule", rule |-> r.id, kind |-> r.kind,
                                         box |-> view.box])
    BY DEF RuleRequest
  <2> QED
    BY <2>1, <2>2, RuleButtons DEF PressRules, Begin, Click, RuleStep
<1>4. CASE \E box \in Boxes : SelectBox(box)
  BY <1>4, RuleHandlers DEF SelectBox, Begin, Click, RuleStep
<1>5. CASE \E k \in Slots : BoxesLoaded(k)
  BY <1>5, RuleHandlers DEF BoxesLoaded, Becomes, Ends, RuleStep
<1>6. CASE \E k \in Slots : RulesArrive(k)
  BY <1>6, RuleHandlers DEF RulesArrive, Becomes, Ends, RuleStep
<1>7. CASE \E k \in Slots : RulesClicked(k)
  BY <1>7, RuleHandlers DEF RulesClicked, Becomes, Ends, RuleStep
<1> QED
  BY <1>1, <1>2, <1>3, <1>4, <1>5, <1>6, <1>7 DEF RulesPage

LEMMA RulesInitially ==
  ASSUME Init, page = "rules" PROVE RulesInv
<1>1. RulesInit /\ Opened({LoadBoxes("open")})
  BY DEF Init
<1>2. run = [k \in Slots |-> IF k = 1 THEN LoadBoxes("open") ELSE Idle] /\ adrift = {}
  BY <1>1 DEF Opened
<1>3. \A k \in Slots : run[k] \in {LoadBoxes("open"), Idle}
  BY <1>2
<1>4. \A k \in Slots : RuleHandler(run[k])
  BY <1>3, RuleHandlers
<1>5. DOMAIN api = {"rules", "unused", "policy"}
  BY <1>1 DEF RulesInit
<1> QED
  BY <1>2, <1>4, <1>5 DEF RulesInv, RuleHandler, Slotted

LEMMA RulesKept ==
  ASSUME RulesInv, adrift' = adrift, DOMAIN api' = {"rules", "unused", "policy"},
         NEW k \in Slots, NEW h, RuleHandler(h), run' = [run EXCEPT ![k] = h]
  PROVE  RulesInv'
<1>1. Slotted' /\ run'[k] = h /\ \A j \in Slots \ {k} : run'[j] = run[j]
  BY OneSlot DEF RulesInv, RuleHandler
<1>2. \A j \in Slots : \A q \in run'[j].asked : RuleRequest(run'[j], q)
  BY <1>1 DEF RulesInv, RuleHandler
<1> QED
  BY <1>1, <1>2 DEF RulesInv

LEMMA RulesAnswered ==
  ASSUME RulesInv, page = "rules", NEW k \in Slots, Served(k) \/ Lost(k)
  PROVE  /\ RulesInv'
         /\ \A j \in Slots \ {k} : run'[j] = run[j]
         /\ \A r \in api.rules \ api'.rules : r.box = run[k].arg
<1>1. Slotted /\ DOMAIN api = {"rules", "unused", "policy"}
  BY DEF RulesInv
<1>2. PICK q \in run[k].asked : \E o \in RulesReply(q) : \E h : ServedAs(k, q, o, h)
  BY <1>1, AnsweredOrLost DEF Reply
<1>3. PICK o, h : o \in RulesReply(q) /\ ServedAs(k, q, o, h)
  BY <1>2
<1>4. RuleRequest(run[k], q)
  BY DEF RulesInv
<1>5. RuleHandler(h)
  BY <1>3 DEF ServedAs, Answering, RuleHandler, Shaped, RulesInv, RuleRequest
<1>6. /\ DOMAIN o.api = {"rules", "unused", "policy"}
      /\ \A r \in api.rules \ o.api.rules : r.box = run[k].arg
  BY <1>1, <1>3, <1>4, OnlyRemoval
<1>7. /\ DOMAIN api' = {"rules", "unused", "policy"}
      /\ \A r \in api.rules \ api'.rules : r.box = run[k].arg
  BY <1>1, <1>3, <1>6 DEF ServedAs
<1>8. RulesInv'
  BY <1>3, <1>5, <1>7, RulesKept DEF ServedAs
<1>9. \A j \in Slots \ {k} : run'[j] = run[j]
  BY <1>1, <1>3 DEF Slotted, ServedAs
<1> QED
  BY <1>7, <1>8, <1>9

\* What a step does on this page.
LEMMA RulesSteps ==
  ASSUME Next, page = "rules", adrift = {}
  PROVE  RulesPage \/ \E k \in Slots : Served(k) \/ Lost(k)
BY DEF Next, Clusters, Processing, Review, Notifications, Account, Smtp, Memory, Learning,
       Structure, Onboarding, Forgotten

LEMMA RulesNext ==
  ASSUME RulesInv, page = "rules", [Next]_vars
  PROVE  /\ RulesInv'
         /\ \A k \in Slots : run'[k] # run[k] =>
              \A r \in api.rules \ api'.rules : r.box = run[k].arg
<1>1. CASE UNCHANGED vars
  BY <1>1 DEF vars, tab, RulesInv, Slotted
<1>2. CASE RulesPage /\ ~ RulesEvent
  <2>1. RuleStep
    BY <1>2, RulesStep
  <2>2. CASE run' = run
    BY <2>1, <2>2 DEF RuleStep, RulesInv, Slotted
  <2>3. CASE run' # run
    <3>1. PICK k, h : k \in Slots /\ RuleHandler(h) /\ run' = [run EXCEPT ![k] = h]
      BY <2>1, <2>3 DEF RuleStep
    <3>2. api' = api /\ adrift' = adrift /\ DOMAIN api' = {"rules", "unused", "policy"}
      BY <2>1 DEF RuleStep, RulesInv
    <3> QED
      BY <3>1, <3>2, RulesKept
  <2> QED
    BY <2>2, <2>3
<1>3. CASE RulesEvent
  <2>1. PICK r \in api.rules : api' = [api EXCEPT !.rules = @ \ {r}]
    BY <1>3 DEF RulesEvent
  <2>2. run' = run /\ adrift' = adrift
    BY <1>3 DEF RulesEvent, Event, tab
  <2>3. DOMAIN api' = {"rules", "unused", "policy"}
    BY <2>1 DEF RulesInv
  <2> QED
    BY <2>2, <2>3 DEF RulesInv, Slotted
<1>4. CASE \E k \in Slots : Served(k) \/ Lost(k)
  <2>1. PICK k \in Slots : Served(k) \/ Lost(k)
    BY <1>4
  <2> QED
    BY <2>1, RulesAnswered
<1> QED
  BY <1>1, <1>2, <1>3, <1>4, RulesSteps DEF RulesInv

\* A button of the rules page removes rules only from the mailbox that was selected
\* when it was pressed (app/settings/rules).
THEOREM RemovalStaysInMailbox == Spec => RemovedWhereSelected
<1>1. Init => (page = "rules" => RulesInv)
  BY RulesInitially
<1>2. (page = "rules" => RulesInv) /\ [Next]_vars => (page = "rules" => RulesInv)'
  BY RulesNext, PageStays
<1>3. (page = "rules" => RulesInv) /\ [Next]_vars =>
        (page = "rules" =>
           \A k \in Slots : \A q \in run[k].asked :
             q.to = "remove-rule" /\ run'[k] # run[k] =>
               \A r \in api.rules \ api'.rules : r.box = run[k].arg)
  BY RulesNext
<1> QED
  BY <1>1, <1>2, <1>3, PTL DEF Spec, RemovedWhereSelected

-----------------------------------------------------------------------------
(* The clusters page: what a button confirms is what its card showed. *)

ClusterRequests ==
  {"review-summary", "backfills", "apply-status", "approve-safe", "approve-cluster",
   "edit-cluster", "apply"}

\* A click sends one request; one that confirms a group names what the card showed.
ClusterRequest(h, q) ==
  /\ q.to \in ClusterRequests
  /\ h.of = "cluster-click" =>
       /\ h.asked = {q}
       /\ q.to = "approve-safe" => q = [to |-> "approve-safe"]
       /\ q.to = "approve-cluster" => Shown(q.id[1]) = h.arg

ClusterHandler(h) == Shaped(h) /\ \A q \in h.asked : ClusterRequest(h, q)

\* The shape of what is stored.
MailsStored(a) ==
  /\ DOMAIN a = {"mail", "job", "apply"}
  /\ \A p \in Proposals : DOMAIN a.mail[p] = {"decision", "approved"}

ClustersInv ==
  /\ Slotted
  /\ adrift = {}
  /\ MailsStored(api)
  /\ \A k \in Slots : ClusterHandler(run[k])

\* Redirecting approves nothing.
LEMMA RedirectApproves ==
  ASSUME NEW mail, \A p \in Proposals : DOMAIN mail[p] = {"decision", "approved"},
         NEW P, NEW target, NEW p \in Proposals
  PROVE  /\ DOMAIN Redirect(mail, P, target)[p] = {"decision", "approved"}
         /\ Redirect(mail, P, target)[p].approved = mail[p].approved
<1>1. \/ Redirect(mail, P, target)[p] = mail[p]
      \/ Redirect(mail, P, target)[p] = [mail[p] EXCEPT !.decision.moves = FALSE]
      \/ Redirect(mail, P, target)[p] =
           [mail[p] EXCEPT !.decision = [folder |-> target, moves |-> TRUE]]
  BY DEF Redirect
<1> QED
  BY <1>1

\* A confirmation approves members of the group only.
LEMMA ApproveApproves ==
  ASSUME NEW mail, \A p \in Proposals : DOMAIN mail[p] = {"decision", "approved"},
         NEW P, NEW p \in Proposals
  PROVE  /\ DOMAIN Approve(mail, P)[p] = {"decision", "approved"}
         /\ p \in P \/ Approve(mail, P)[p].approved = mail[p].approved
<1>1. \/ p \in P /\ Approve(mail, P)[p] = [mail[p] EXCEPT !.approved = TRUE]
      \/ Approve(mail, P)[p] = mail[p]
  BY DEF Approve
<1> QED
  BY <1>1

\* The decision of a group is that of its members.
LEMMA IdDecides ==
  ASSUME NEW mail, NEW p, NEW id \in IdsOf(mail, p) PROVE id[1] = mail[p].decision
BY DEF IdsOf, ClusterId

\* What is approved, and by which request.
LEMMA OnlyConfirmed ==
  ASSUME MailsStored(api), NEW q, q.to \in ClusterRequests, NEW o \in ClusterReply(q)
  PROVE  /\ MailsStored(o.api)
         /\ \A p \in Proposals : ~ api.mail[p].approved /\ o.api.mail[p].approved =>
              \/ q.to = "approve-safe"
              \/ q.to = "approve-cluster" /\ q.id[1] = api.mail[p].decision
<1>0. /\ DOMAIN api = {"mail", "job", "apply"}
      /\ \A p \in Proposals : DOMAIN api.mail[p] = {"decision", "approved"}
  BY DEF MailsStored
<1>1. CASE o = No
  BY <1>1, NoIs
<1>2. CASE o # No /\ q.to \in {"review-summary", "backfills", "apply-status"}
  <2>1. PICK answer : o = Ok(api, answer)
    BY <1>2 DEF ClusterReply
  <2>2. o.api = api
    BY <2>1, OkIs
  <2> QED
    BY <2>2
<1>3. CASE o # No /\ q.to = "approve-safe"
  <2>1. o = Ok([api EXCEPT !.mail = Approve(@, Safe(@))], "approved")
    BY <1>3 DEF ClusterReply
  <2>2. o.api = [api EXCEPT !.mail = Approve(@, Safe(@))]
    BY <2>1, OkIs
  <2>3. o.api.mail = Approve(api.mail, Safe(api.mail)) /\ DOMAIN o.api = DOMAIN api
    BY <2>2, <1>0
  <2>4. \A p \in Proposals : DOMAIN o.api.mail[p] = {"decision", "approved"}
    BY <1>0, <2>3, ApproveApproves
  <2>5. MailsStored(o.api)
    BY <1>0, <2>3, <2>4 DEF MailsStored
  <2> QED
    BY <1>3, <2>5
<1>4. CASE o # No /\ q.to = "approve-cluster"
  <2> DEFINE P == Members(api.mail, q.id)
  <2>1. o = Ok([api EXCEPT !.mail = Approve(@, P)], "approved")
    BY <1>4 DEF ClusterReply
  <2>2. o.api = [api EXCEPT !.mail = Approve(@, P)]
    BY <2>1, OkIs
  <2>3. o.api.mail = Approve(api.mail, P) /\ DOMAIN o.api = DOMAIN api
    BY <2>2, <1>0
  <2>4. \A p \in P : q.id[1] = api.mail[p].decision
    BY IdDecides DEF Members
  <2> HIDE DEF P
  <2>5. \A p \in Proposals :
          /\ DOMAIN o.api.mail[p] = {"decision", "approved"}
          /\ p \in P \/ o.api.mail[p].approved = api.mail[p].approved
    BY <1>0, <2>3, ApproveApproves
  <2>6. MailsStored(o.api)
    BY <1>0, <2>3, <2>5 DEF MailsStored
  <2>7. \A p \in Proposals : ~ api.mail[p].approved /\ o.api.mail[p].approved =>
          q.id[1] = api.mail[p].decision
    BY <2>4, <2>5
  <2> QED
    BY <1>4, <2>6, <2>7
<1>5. CASE o # No /\ q.to = "edit-cluster"
  <2> DEFINE P == Members(api.mail, q.id)
  <2>1. o = Ok([api EXCEPT !.mail = Redirect(@, P, q.target)], "edited")
    BY <1>5 DEF ClusterReply
  <2>2. o.api = [api EXCEPT !.mail = Redirect(@, P, q.target)]
    BY <2>1, OkIs
  <2>3. o.api.mail = Redirect(api.mail, P, q.target) /\ DOMAIN o.api = DOMAIN api
    BY <2>2, <1>0
  <2> HIDE DEF P
  <2>4. \A p \in Proposals :
          /\ DOMAIN o.api.mail[p] = {"decision", "approved"}
          /\ o.api.mail[p].approved = api.mail[p].approved
    BY <1>0, <2>3, RedirectApproves
  <2> QED
    BY <1>0, <2>3, <2>4 DEF MailsStored
<1>6. CASE o # No /\ q.to = "apply"
  <2>1. \/ \E answer : o = Ok(api, answer)
        \/ \E state : o = Ok([api EXCEPT !.apply = state], state)
    BY <1>6 DEF ClusterReply, StartOutcomes
  <2>2. CASE \E answer : o = Ok(api, answer)
    <3>1. PICK answer : o = Ok(api, answer)
      BY <2>2
    <3>2. o.api = api
      BY <3>1, OkIs
    <3> QED
      BY <3>2
  <2>3. CASE \E state : o = Ok([api EXCEPT !.apply = state], state)
    <3>1. PICK state : o = Ok([api EXCEPT !.apply = state], state)
      BY <2>3
    <3>2. o.api = [api EXCEPT !.apply = state]
      BY <3>1, OkIs
    <3>3. o.api.mail = api.mail /\ DOMAIN o.api = DOMAIN api
      BY <3>2, <1>0
    <3> QED
      BY <3>3, <1>0 DEF MailsStored
  <2> QED
    BY <2>1, <2>2, <2>3
<1> QED
  BY <1>1, <1>2, <1>3, <1>4, <1>5, <1>6 DEF ClusterRequests

LEMMA ClusterLoads ==
  /\ ClusterHandler(Idle)
  /\ \A arg : ClusterHandler(LoadClusters(arg))
  /\ \A arg : ClusterHandler(Handler("follow", arg,
                 {[to |-> "review-summary"], [to |-> "apply-status"]}))
<1>1. ClusterHandler(Idle)
  BY IdleIs DEF ClusterHandler
<1>2. ASSUME NEW arg, NEW h, h = LoadClusters(arg) PROVE ClusterHandler(h)
  <2>1. /\ Shaped(h) /\ h.of = "load-clusters"
        /\ h.asked = {[to |-> "review-summary"], [to |-> "backfills"], [to |-> "apply-status"]}
    BY <1>2 DEF LoadClusters, Handler, Shaped, HandlerFields
  <2>2. \A q \in h.asked : q.to \in {"review-summary", "backfills", "apply-status"}
    BY <2>1
  <2> QED
    BY <2>1, <2>2 DEF ClusterHandler, ClusterRequest, ClusterRequests
<1>3. ASSUME NEW arg, NEW h,
             h = Handler("follow", arg, {[to |-> "review-summary"], [to |-> "apply-status"]})
      PROVE  ClusterHandler(h)
  <2>1. /\ Shaped(h) /\ h.of = "follow"
        /\ h.asked = {[to |-> "review-summary"], [to |-> "apply-status"]}
    BY <1>3 DEF Handler, Shaped, HandlerFields
  <2>2. \A q \in h.asked : q.to \in {"review-summary", "apply-status"}
    BY <2>1
  <2> QED
    BY <2>1, <2>2 DEF ClusterHandler, ClusterRequest, ClusterRequests
<1> QED
  BY <1>1, <1>2, <1>3

LEMMA ClusterButtons ==
  ASSUME NEW q, NEW shown, q.to \in ClusterRequests,
         q.to = "approve-safe" => q = [to |-> "approve-safe"],
         q.to = "approve-cluster" => Shown(q.id[1]) = shown
  PROVE  ClusterHandler(Handler("cluster-click", shown, {q}))
<1> DEFINE h == Handler("cluster-click", shown, {q})
<1>1. Shaped(h) /\ h.arg = shown /\ h.asked = {q}
  BY DEF Handler, Shaped, HandlerFields
<1> QED
  BY <1>1 DEF ClusterHandler, ClusterRequest

\* A step of the page changes one handler at most.
ClusterStep ==
  /\ UNCHANGED <<api, adrift>>
  /\ \/ run' = run
     \/ \E k \in Slots : \E h : ClusterHandler(h) /\ run' = [run EXCEPT ![k] = h]

LEMMA ClustersStep ==
  ASSUME Clusters, ~ ClusterEvent PROVE ClusterStep
<1>1. CASE Confirm
  <2>1. PICK c \in Cards : Press([to |-> "approve-cluster", id |-> c.id], c.shown)
    BY <1>1 DEF Confirm
  <2>2. PICK p \in ShownProposals : \E id \in IdsOf(view.summary, p) :
          c.id = id /\ c.shown = Shown(view.summary[p].decision)
    BY DEF Cards
  <2>3. Shown(c.id[1]) = c.shown
    BY <2>2, IdDecides
  <2>4. ASSUME NEW q, q = [to |-> "approve-cluster", id |-> c.id]
        PROVE  ClusterHandler(Handler("cluster-click", c.shown, {q}))
    <3>1. q.to = "approve-cluster" /\ q.id = c.id
      BY <2>4
    <3> QED
      BY <2>3, <3>1, ClusterButtons DEF ClusterRequests
  <2> QED
    BY <2>1, <2>4 DEF Press, Begin, Click, ClusterStep
<1>2. CASE EditTarget
  <2>1. PICK c, target : Press([to |-> "edit-cluster", id |-> c.id, target |-> target], c.shown)
    BY <1>2 DEF EditTarget
  <2>2. ASSUME NEW q, q = [to |-> "edit-cluster", id |-> c.id, target |-> target]
        PROVE  ClusterHandler(Handler("cluster-click", c.shown, {q}))
    <3>1. q.to = "edit-cluster"
      BY <2>2
    <3> QED
      BY <3>1, ClusterButtons DEF ClusterRequests
  <2> QED
    BY <2>1, <2>2 DEF Press, Begin, Click, ClusterStep
<1>3. CASE ApproveSafe \/ StartApply
  <2>1. PICK to \in {"approve-safe", "apply"} : Press([to |-> to], Keep)
    BY <1>3 DEF ApproveSafe, StartApply
  <2>2. ASSUME NEW q, q = [to |-> to]
        PROVE  ClusterHandler(Handler("cluster-click", Keep, {q}))
    <3>1. q.to = to /\ (to = "approve-safe" => q = [to |-> "approve-safe"])
      BY <2>2
    <3> QED
      BY <3>1, ClusterButtons DEF ClusterRequests
  <2> QED
    BY <2>1, <2>2 DEF Press, Begin, Click, ClusterStep
<1>4. CASE PollClusters \/ PollApply
  BY <1>4, ClusterLoads DEF PollClusters, PollApply, Begin, Timer, ClusterStep
<1>5. CASE \E k \in Slots : ClusterClicked(k)
  BY <1>5, ClusterLoads DEF ClusterClicked, Becomes, Ends, ClusterStep
<1>6. CASE \E k \in Slots : ClustersLoaded(k) \/ Followed(k)
  BY <1>6, ClusterLoads DEF ClustersLoaded, Followed, Becomes, Ends, ClusterStep
<1> QED
  BY <1>1, <1>2, <1>3, <1>4, <1>5, <1>6 DEF Clusters

LEMMA ClustersInitially ==
  ASSUME Init, page = "clusters" PROVE ClustersInv
<1>1. ClustersInit /\ Opened({LoadClusters("poll")})
  BY DEF Init
<1>2. run = [k \in Slots |-> IF k = 1 THEN LoadClusters("poll") ELSE Idle] /\ adrift = {}
  BY <1>1 DEF Opened
<1>3. \A k \in Slots : run[k] \in {LoadClusters("poll"), Idle}
  BY <1>2
<1>4. \A k \in Slots : ClusterHandler(run[k])
  BY <1>3, ClusterLoads
<1>5. MailsStored(api)
  BY <1>1 DEF ClustersInit, MailsStored
<1> QED
  BY <1>2, <1>4, <1>5 DEF ClustersInv, ClusterHandler, Slotted

LEMMA ClustersKept ==
  ASSUME ClustersInv, adrift' = adrift, MailsStored(api'),
         NEW k \in Slots, NEW h, ClusterHandler(h), run' = [run EXCEPT ![k] = h]
  PROVE  ClustersInv'
<1>1. Slotted' /\ run'[k] = h /\ \A j \in Slots \ {k} : run'[j] = run[j]
  BY OneSlot DEF ClustersInv, ClusterHandler
<1>2. \A j \in Slots : ClusterHandler(run[j])
  BY DEF ClustersInv
<1>3. \A j \in Slots : ClusterHandler(run'[j])
  BY <1>1, <1>2
<1> QED
  BY <1>1, <1>3 DEF ClustersInv, ClusterHandler, MailsStored, ClusterRequest

\* What a step approves, and for which handler.
ShownIsApproved ==
  \A k \in Slots, p \in Proposals :
    /\ ~ api.mail[p].approved /\ api'.mail[p].approved
    /\ Running(k, "cluster-click") /\ run'[k] # run[k]
    /\ run[k].asked # {[to |-> "approve-safe"]}
    => Shown(api.mail[p].decision) = run[k].arg

LEMMA ClustersAnswered ==
  ASSUME ClustersInv, page = "clusters", NEW k \in Slots, Served(k) \/ Lost(k)
  PROVE  ClustersInv' /\ ShownIsApproved
<1>1. Slotted /\ MailsStored(api)
  BY DEF ClustersInv
<1>2. PICK q \in run[k].asked : \E o \in ClusterReply(q) : \E h : ServedAs(k, q, o, h)
  BY <1>1, AnsweredOrLost DEF Reply
<1>3. PICK o, h : o \in ClusterReply(q) /\ ServedAs(k, q, o, h)
  BY <1>2
<1>4. ClusterRequest(run[k], q)
  BY DEF ClustersInv, ClusterHandler
<1>5. /\ DOMAIN h = HandlerFields /\ h.of = run[k].of /\ h.arg = run[k].arg
      /\ h.asked = run[k].asked \ {q}
  BY <1>3 DEF ServedAs, Answering
<1>6. ClusterHandler(h)
  <2> SUFFICES ASSUME NEW r \in h.asked PROVE ClusterRequest(h, r)
    BY <1>5 DEF ClusterHandler, Shaped
  <2>1. ClusterRequest(run[k], r) /\ r # q
    BY <1>5 DEF ClustersInv, ClusterHandler
  <2>2. run[k].of # "cluster-click"
    BY <2>1, <1>4, <1>5 DEF ClusterRequest
  <2> QED
    BY <2>1, <2>2, <1>5 DEF ClusterRequest
<1>7. /\ MailsStored(o.api)
      /\ \A p \in Proposals : ~ api.mail[p].approved /\ o.api.mail[p].approved =>
           \/ q.to = "approve-safe"
           \/ q.to = "approve-cluster" /\ q.id[1] = api.mail[p].decision
  BY <1>1, <1>3, <1>4, OnlyConfirmed DEF ClusterRequest
<1>8. api' \in {api, o.api} /\ adrift' = adrift /\ run' = [run EXCEPT ![k] = h]
  BY <1>3 DEF ServedAs
<1>9. ClustersInv'
  BY <1>1, <1>6, <1>7, <1>8, ClustersKept
<1>10. ShownIsApproved
  <2> SUFFICES ASSUME NEW j \in Slots, NEW p \in Proposals,
                      ~ api.mail[p].approved, api'.mail[p].approved,
                      Running(j, "cluster-click"), run'[j] # run[j],
                      run[j].asked # {[to |-> "approve-safe"]}
               PROVE  Shown(api.mail[p].decision) = run[j].arg
    BY DEF ShownIsApproved
  <2>1. j = k
    BY <1>1, <1>8 DEF Slotted
  <2>2. run[k].of = "cluster-click" /\ q.to # "approve-safe"
    BY <2>1, <1>4 DEF Running, ClusterRequest
  <2>3. q.to = "approve-cluster" /\ q.id[1] = api.mail[p].decision
    BY <1>7, <1>8, <2>2
  <2> QED
    BY <2>1, <2>2, <2>3, <1>4 DEF ClusterRequest
<1> QED
  BY <1>9, <1>10

LEMMA ClustersSteps ==
  ASSUME Next, page = "clusters", adrift = {}
  PROVE  Clusters \/ \E k \in Slots : Served(k) \/ Lost(k)
BY DEF Next, Processing, Review, Notifications, Account, Smtp, Memory, Learning, RulesPage,
       Structure, Onboarding, Forgotten

LEMMA ClustersNext ==
  ASSUME ClustersInv, page = "clusters", [Next]_vars
  PROVE  ClustersInv' /\ ShownIsApproved
<1>0. MailsStored(api)
  BY DEF ClustersInv
<1>1. CASE UNCHANGED vars
  BY <1>1 DEF vars, tab, ClustersInv, ShownIsApproved, Slotted, MailsStored
<1>2. CASE Clusters /\ ~ ClusterEvent
  <2>1. ClusterStep
    BY <1>2, ClustersStep
  <2>2. ShownIsApproved
    BY <2>1 DEF ClusterStep, ShownIsApproved
  <2>3. CASE run' = run
    BY <2>1, <2>2, <2>3 DEF ClusterStep, ClustersInv, Slotted, MailsStored
  <2>4. CASE run' # run
    <3>1. PICK k, h : k \in Slots /\ ClusterHandler(h) /\ run' = [run EXCEPT ![k] = h]
      BY <2>1, <2>4 DEF ClusterStep
    <3>2. adrift' = adrift /\ MailsStored(api')
      BY <1>0, <2>1 DEF ClusterStep
    <3> QED
      BY <2>2, <3>1, <3>2, ClustersKept
  <2> QED
    BY <2>2, <2>3, <2>4
<1>3. CASE ClusterEvent
  <2>1. run' = run /\ adrift' = adrift
    BY <1>3 DEF ClusterEvent, Event, tab
  <2>2. MailsStored(api')
    <3>1. CASE \/ api' = [api EXCEPT !.job = "completed"]
               \/ \E state \in {"completed", "stopped"} : api' = [api EXCEPT !.apply = state]
      BY <3>1, <1>0 DEF MailsStored
    <3>2. CASE \E p \in Proposals, target \in Folders \cup {Keep} :
                 api' = [api EXCEPT !.mail = Redirect(@, {p}, target)]
      <4>1. PICK p, target :
                   p \in Proposals /\ api' = [api EXCEPT !.mail = Redirect(@, {p}, target)]
        BY <3>2
      <4>2. DOMAIN api' = DOMAIN api /\ api'.mail = Redirect(api.mail, {p}, target)
        BY <4>1, <1>0 DEF MailsStored
      <4> QED
        BY <4>2, <1>0, RedirectApproves DEF MailsStored
    <3> QED
      BY <3>1, <3>2, <1>3 DEF ClusterEvent
  <2>3. ClustersInv'
    BY <2>1, <2>2 DEF ClustersInv, Slotted, MailsStored
  <2>4. ShownIsApproved
    BY <2>1 DEF ShownIsApproved
  <2> QED
    BY <2>3, <2>4
<1>4. CASE \E k \in Slots : Served(k) \/ Lost(k)
  <2>1. PICK k \in Slots : Served(k) \/ Lost(k)
    BY <1>4
  <2> QED
    BY <2>1, ClustersAnswered
<1> QED
  BY <1>1, <1>2, <1>3, <1>4, ClustersSteps DEF ClustersInv

\* However colleagues redirect mails and answers arrive late, a group is confirmed
\* only as the card showed it whose button was pressed (app/processing/review).
THEOREM ConfirmedAsShown == Spec => ApprovedAsShown
<1>1. Init => (page = "clusters" => ClustersInv)
  BY ClustersInitially
<1>2. (page = "clusters" => ClustersInv) /\ [Next]_vars => (page = "clusters" => ClustersInv)'
  BY ClustersNext, PageStays
<1>3. (page = "clusters" => ClustersInv) /\ [Next]_vars => (page = "clusters" => ShownIsApproved)
  BY ClustersNext
<1> QED
  BY <1>1, <1>2, <1>3, PTL DEF Spec, ApprovedAsShown, ShownIsApproved

-----------------------------------------------------------------------------
(* The review page: corrections and confirmations settle the classification only. *)

ReviewRequests == {"review", "metadata", "correct", "route", "dismiss", "retry"}

\* The handlers of the page send one request at a time.
ReviewHandler(h) ==
  Shaped(h) /\ \A q \in h.asked : q.to \in ReviewRequests /\ h.asked = {q}

RowFields ==
  {"place", "topic", "doubtful", "unsure", "routing", "action", "suspicious", "dismissed"}

RowsStored(a) ==
  /\ DOMAIN a = {"rows", "memory", "failure"}
  /\ DOMAIN a.rows = Items
  /\ \A i \in Items : DOMAIN a.rows[i] = RowFields

ReviewInv ==
  /\ Slotted
  /\ adrift = {}
  /\ RowsStored(api)
  /\ \A k \in Slots : ReviewHandler(run[k])

\* A row becomes another one, which may have a pending routing settled.
Becoming(row, to, settled) ==
  /\ DOMAIN to = RowFields
  /\ to.suspicious = row.suspicious
  /\ row.routing /\ ~ to.routing => settled

LEMMA CorrectedRow ==
  ASSUME NEW row, DOMAIN row = RowFields, NEW c
  PROVE  Becoming(row, Corrected(row, c), FALSE)
<1>1. \/ Corrected(row, c) = row
      \/ Corrected(row, c) = [row EXCEPT !.place = c.place, !.topic = c.topic, !.doubtful = FALSE]
  BY DEF Corrected
<1> QED
  BY <1>1 DEF Becoming, RowFields

LEMMA ConfirmedRow ==
  ASSUME NEW row, NEW first, Becoming(row, first, FALSE)
  PROVE  Becoming(row, Confirmed(first), FALSE)
BY DEF Becoming, Confirmed, RowFields

LEMMA RoutedRow ==
  ASSUME NEW row, DOMAIN row = RowFields, NEW decision
  PROVE  Becoming(row, Routed(row, decision), TRUE)
BY DEF Becoming, Routed, RowFields

\* One row of the API becomes another.
RowBecomes(a, b, settled) ==
  /\ RowsStored(b)
  /\ \A i \in Items : Becoming(a.rows[i], b.rows[i], settled)

LEMMA SameRows ==
  ASSUME RowsStored(api), NEW b, DOMAIN b = DOMAIN api, b.rows = api.rows
  PROVE  RowBecomes(api, b, FALSE)
BY DEF RowsStored, RowBecomes, Becoming

LEMMA OneRow ==
  ASSUME RowsStored(api), NEW i, NEW row, NEW b, NEW settled,
         DOMAIN b = DOMAIN api, b.rows = [api.rows EXCEPT ![i] = row],
         i \in Items => Becoming(api.rows[i], row, settled)
  PROVE  RowBecomes(api, b, settled)
<1>1. /\ DOMAIN b.rows = Items
      /\ \A j \in Items : b.rows[j] = IF j = i THEN row ELSE api.rows[j]
  BY DEF RowsStored
<1>2. \A j \in Items : Becoming(api.rows[j], b.rows[j], settled)
  BY <1>1 DEF RowsStored, Becoming
<1>3. RowsStored(b)
  BY <1>1, <1>2 DEF RowsStored, Becoming
<1> QED
  BY <1>2, <1>3 DEF RowBecomes

\* Only a routing decision settles a routing.
LEMMA ReviewRows ==
  ASSUME RowsStored(api), NEW q, q.to \in ReviewRequests, NEW o \in ReviewReply(q)
  PROVE  RowBecomes(api, o.api, q.to = "route")
<1>0. DOMAIN api = {"rows", "memory", "failure"} /\ \A i \in Items : DOMAIN api.rows[i] = RowFields
  BY DEF RowsStored
<1>1. CASE o = No
  BY <1>1, NoIs, SameRows DEF RowBecomes, Becoming
<1>2. CASE o # No /\ q.to \in {"review", "metadata"}
  <2>1. PICK answer : o = Ok(api, answer)
    BY <1>2 DEF ReviewReply
  <2>2. o.api = api
    BY <2>1, OkIs
  <2> QED
    BY <2>2, SameRows DEF RowBecomes, Becoming
<1>3. CASE o # No /\ q.to = "correct"
  <2> DEFINE row == api.rows[q.item]
             first == Corrected(row, q.with)
             memory == Recall(q.item, first, q.with)
  <2>1. \/ o = Ok(Store(q.item, Confirmed(first), RecallLate(first, q.with, memory)), "item")
        \/ o = [Ok(Store(q.item, first, memory), Refused) EXCEPT !.ok = FALSE]
    BY <1>3 DEF ReviewReply, ConfirmOutcomes
  <2>2. \/ o.api = Store(q.item, Confirmed(first), RecallLate(first, q.with, memory))
        \/ o.api = Store(q.item, first, memory)
    BY <2>1 DEF Ok
  <2>3. q.item \in Items =>
          Becoming(row, first, FALSE) /\ Becoming(row, Confirmed(first), FALSE)
    BY <1>0, <2>1, CorrectedRow, ConfirmedRow
  <2> HIDE DEF first, memory
  <2>4. \E to, m : /\ q.item \in Items => Becoming(row, to, FALSE)
                   /\ o.api = [api EXCEPT !.rows[q.item] = to, !.memory[q.item] = m]
    BY <2>2, <2>3 DEF Store
  <2>5. PICK to, m : /\ q.item \in Items => Becoming(row, to, FALSE)
                     /\ o.api = [api EXCEPT !.rows[q.item] = to, !.memory[q.item] = m]
    BY <2>4
  <2>6. DOMAIN o.api = DOMAIN api /\ o.api.rows = [api.rows EXCEPT ![q.item] = to]
    BY <2>5, <1>0
  <2>7. RowBecomes(api, o.api, FALSE)
    BY <2>5, <2>6, OneRow
  <2> QED
    BY <2>7 DEF RowBecomes, Becoming
<1>4. CASE o # No /\ q.to = "route"
  <2> DEFINE to == Routed(api.rows[q.item], q.decision)
  <2>1. o = Ok(Store(q.item, to, api.memory[q.item]), "item")
    BY <1>4 DEF ReviewReply
  <2>2. o.api = [api EXCEPT !.rows[q.item] = to, !.memory[q.item] = api.memory[q.item]]
    BY <2>1, OkIs DEF Store
  <2>3. DOMAIN o.api = DOMAIN api /\ o.api.rows = [api.rows EXCEPT ![q.item] = to]
    BY <2>2, <1>0
  <2>4. q.item \in Items => Becoming(api.rows[q.item], to, TRUE)
    BY <1>0, <2>1, RoutedRow
  <2> HIDE DEF to
  <2>5. RowBecomes(api, o.api, TRUE)
    BY <2>3, <2>4, OneRow
  <2> QED
    BY <1>4, <2>5
<1>5. CASE o # No /\ q.to = "dismiss"
  <2> DEFINE to == [api.rows[q.item] EXCEPT !.dismissed = TRUE]
  <2>1. o = Ok([api EXCEPT !.rows[q.item].dismissed = TRUE], "gone")
    BY <1>5 DEF ReviewReply
  <2>2. o.api = [api EXCEPT !.rows[q.item].dismissed = TRUE]
    BY <2>1, OkIs
  <2>3. DOMAIN o.api = DOMAIN api /\ o.api.rows = [api.rows EXCEPT ![q.item] = to]
    BY <2>2, <1>0
  <2>4. q.item \in Items => Becoming(api.rows[q.item], to, FALSE)
    BY <1>0 DEF Becoming, RowFields
  <2> HIDE DEF to
  <2>5. RowBecomes(api, o.api, FALSE)
    BY <2>3, <2>4, OneRow
  <2> QED
    BY <2>5 DEF RowBecomes, Becoming
<1>6. CASE o # No /\ q.to = "retry"
  <2>1. o = Ok([api EXCEPT !.failure = "retrying"], "retrying")
    BY <1>6 DEF ReviewReply
  <2>2. o.api = [api EXCEPT !.failure = "retrying"]
    BY <2>1, OkIs
  <2>3. DOMAIN o.api = DOMAIN api /\ o.api.rows = api.rows
    BY <2>2, <1>0
  <2>4. RowBecomes(api, o.api, FALSE)
    BY <2>3, SameRows
  <2> QED
    BY <2>4 DEF RowBecomes, Becoming
<1> QED
  BY <1>1, <1>2, <1>3, <1>4, <1>5, <1>6 DEF ReviewRequests

\* The handlers of the page.
LEMMA ReviewLoads ==
  /\ ReviewHandler(Idle)
  /\ \A arg : ReviewHandler(LoadReview(arg))
<1>1. ReviewHandler(Idle)
  BY IdleIs DEF ReviewHandler
<1>2. ASSUME NEW arg PROVE ReviewHandler(LoadReview(arg))
  <2>1. Shaped(LoadReview(arg)) /\ LoadReview(arg).asked = {[to |-> "review"]}
    BY DEF LoadReview, Handler, Shaped, HandlerFields
  <2> QED
    BY <2>1 DEF ReviewHandler, ReviewRequests
<1> QED
  BY <1>1, <1>2

LEMMA ReviewButtons ==
  ASSUME NEW of, NEW arg, NEW q, q.to \in ReviewRequests
  PROVE  ReviewHandler(Handler(of, arg, {q}))
<1>1. Shaped(Handler(of, arg, {q})) /\ Handler(of, arg, {q}).asked = {q}
  BY DEF Handler, Shaped, HandlerFields
<1> QED
  BY <1>1 DEF ReviewHandler

\* A step of the page changes one handler at most, and nothing in the API.
ReviewStep ==
  /\ UNCHANGED <<api, adrift>>
  /\ \/ run' = run
     \/ \E k \in Slots : \E h : ReviewHandler(h) /\ run' = [run EXCEPT ![k] = h]

LEMMA ReviewPressed ==
  ASSUME NEW i, NEW q, q.to \in ReviewRequests, RunBusy(i, q)
  PROVE  ReviewStep
BY ReviewButtons DEF RunBusy, Begin, Click, ReviewStep

LEMMA ReviewsStep ==
  ASSUME Review, ~ ReviewEvent PROVE ReviewStep
<1>1. CASE ConfirmRow \/ SaveCorrection
  <2>1. PICK i, with : RunBusy(i, [to |-> "correct", item |-> i, with |-> with])
    BY <1>1 DEF ConfirmRow, SaveCorrection
  <2>2. [to |-> "correct", item |-> i, with |-> with].to \in ReviewRequests
    BY DEF ReviewRequests
  <2> QED
    BY <2>1, <2>2, ReviewPressed
<1>2. CASE RouteRow
  <2>1. PICK i, decision : RunBusy(i, [to |-> "route", item |-> i, decision |-> decision])
    BY <1>2 DEF RouteRow
  <2>2. [to |-> "route", item |-> i, decision |-> decision].to \in ReviewRequests
    BY DEF ReviewRequests
  <2> QED
    BY <2>1, <2>2, ReviewPressed
<1>3. CASE DismissRow
  <2>1. PICK i : RunBusy(i, [to |-> "dismiss", item |-> i])
    BY <1>3 DEF DismissRow
  <2>2. [to |-> "dismiss", item |-> i].to \in ReviewRequests
    BY DEF ReviewRequests
  <2> QED
    BY <2>1, <2>2, ReviewPressed
<1>4. CASE RetryFailure
  <2>1. RunBusy("failure", [to |-> "retry"])
    BY <1>4 DEF RetryFailure
  <2>2. [to |-> "retry"].to \in ReviewRequests
    BY DEF ReviewRequests
  <2> QED
    BY <2>1, <2>2, ReviewPressed
<1>5. CASE OpenEditor
  <2>1. [to |-> "metadata"].to \in ReviewRequests
    BY DEF ReviewRequests
  <2>2. ReviewHandler(Handler("load-folders", "none", {[to |-> "metadata"]}))
    BY <2>1, ReviewButtons
  <2> QED
    BY <1>5, <2>2 DEF OpenEditor, Begin, Timer, ReviewStep
<1>6. CASE Expand
  BY <1>6 DEF Expand, Timer, ReviewStep
<1>7. CASE ReloadReview
  BY <1>7, ReviewLoads DEF ReloadReview, Begin, Timer, ReviewStep
<1>8. CASE \E k \in Slots : FoldersLoaded(k) \/ ReviewAnswered(k) \/ ReviewLoaded(k)
  BY <1>8, ReviewLoads DEF FoldersLoaded, ReviewAnswered, ReviewLoaded, Becomes, Ends, ReviewStep
<1> QED
  BY <1>1, <1>2, <1>3, <1>4, <1>5, <1>6, <1>7, <1>8 DEF Review

\* A colleague changes one row, and ends no routing but by a decision.
LEMMA ReviewEventRows ==
  ASSUME RowsStored(api), ReviewEvent
  PROVE  RowBecomes(api, api', TRUE) /\ run' = run /\ adrift' = adrift
<1>0. DOMAIN api = {"rows", "memory", "failure"} /\ \A i \in Items : DOMAIN api.rows[i] = RowFields
  BY DEF RowsStored
<1>1. run' = run /\ adrift' = adrift
  BY DEF ReviewEvent, Event, tab
<1>2. ASSUME NEW i \in Items, NEW to, Becoming(api.rows[i], to, TRUE),
             api' = [api EXCEPT !.rows[i] = to]
      PROVE  RowBecomes(api, api', TRUE)
  <2>1. DOMAIN api' = DOMAIN api /\ api'.rows = [api.rows EXCEPT ![i] = to]
    BY <1>0, <1>2
  <2> QED
    BY <1>2, <2>1, OneRow
<1>3. CASE \E i \in Items, p \in InMailbox, topic \in Topics :
             api' = [api EXCEPT !.rows[i] =
                       Confirmed(Corrected(api.rows[i], [place |-> p, topic |-> topic]))]
  <2>1. PICK i, p, topic :
             /\ i \in Items
             /\ api' = [api EXCEPT !.rows[i] =
                          Confirmed(Corrected(api.rows[i], [place |-> p, topic |-> topic]))]
    BY <1>3
  <2>2. Becoming(api.rows[i], Confirmed(Corrected(api.rows[i], [place |-> p, topic |-> topic])),
                 FALSE)
    BY <1>0, <2>1, CorrectedRow, ConfirmedRow
  <2>3. Becoming(api.rows[i], Confirmed(Corrected(api.rows[i], [place |-> p, topic |-> topic])),
                 TRUE)
    BY <2>2 DEF Becoming
  <2> QED
    BY <1>1, <2>1, <2>3, <1>2
<1>4. CASE \E i \in Items, decision \in {"approve", "reject"} :
             api' = [api EXCEPT !.rows[i] = Routed(@, decision)]
  <2>1. PICK i, decision : i \in Items /\ api' = [api EXCEPT !.rows[i] = Routed(@, decision)]
    BY <1>4
  <2>2. Becoming(api.rows[i], Routed(api.rows[i], decision), TRUE)
    BY <1>0, <2>1, RoutedRow
  <2>3. api' = [api EXCEPT !.rows[i] = Routed(api.rows[i], decision)]
    BY <2>1, <1>0
  <2> QED
    BY <1>1, <2>1, <2>2, <2>3, <1>2
<1>5. CASE \E i \in Items : api' = [api EXCEPT !.rows[i].dismissed = TRUE]
  <2>1. PICK i \in Items : api' = [api EXCEPT !.rows[i].dismissed = TRUE]
    BY <1>5
  <2>2. Becoming(api.rows[i], [api.rows[i] EXCEPT !.dismissed = TRUE], TRUE)
    BY <1>0 DEF Becoming, RowFields
  <2>3. api' = [api EXCEPT !.rows[i] = [api.rows[i] EXCEPT !.dismissed = TRUE]]
    BY <2>1, <1>0
  <2> QED
    BY <1>1, <2>2, <2>3, <1>2
<1>6. CASE api' = [api EXCEPT !.failure = "review"]
  <2>1. DOMAIN api' = DOMAIN api /\ api'.rows = api.rows
    BY <1>6, <1>0
  <2> QED
    BY <1>1, <2>1, SameRows DEF RowBecomes, Becoming
<1> QED
  BY <1>1, <1>3, <1>4, <1>5, <1>6 DEF ReviewEvent

LEMMA ReviewInitially ==
  ASSUME Init, page = "review" PROVE ReviewInv
<1>1. ReviewInit /\ Opened({LoadReview("open")})
  BY DEF Init
<1>2. run = [k \in Slots |-> IF k = 1 THEN LoadReview("open") ELSE Idle] /\ adrift = {}
  BY <1>1 DEF Opened
<1>3. \A k \in Slots : run[k] \in {LoadReview("open"), Idle}
  BY <1>2
<1>4. \A k \in Slots : ReviewHandler(run[k])
  BY <1>3, ReviewLoads
<1>5. PICK rows, memory :
        /\ rows \in [Items -> Proposed]
        /\ api = [rows |-> rows, memory |-> memory, failure |-> "failed"]
  BY <1>1 DEF ReviewInit
<1>6. DOMAIN rows = Items /\ \A i \in Items : rows[i] \in Proposed
  BY <1>5
<1>7. \A i \in Items : DOMAIN rows[i] = RowFields
  BY <1>6 DEF Proposed, RowFields
<1>8. RowsStored(api)
  BY <1>5, <1>6, <1>7 DEF RowsStored
<1> QED
  BY <1>2, <1>4, <1>8 DEF ReviewInv, ReviewHandler, Slotted

LEMMA ReviewKept ==
  ASSUME ReviewInv, adrift' = adrift, RowsStored(api'),
         NEW k \in Slots, NEW h, ReviewHandler(h), run' = [run EXCEPT ![k] = h]
  PROVE  ReviewInv'
<1>1. Slotted' /\ run'[k] = h /\ \A j \in Slots \ {k} : run'[j] = run[j]
  BY OneSlot DEF ReviewInv, ReviewHandler
<1>2. \A j \in Slots : ReviewHandler(run[j])
  BY DEF ReviewInv
<1>3. \A j \in Slots : ReviewHandler(run'[j])
  BY <1>1, <1>2
<1> QED
  BY <1>1, <1>3 DEF ReviewInv, ReviewHandler, RowsStored

\* What a step may settle of a row.
AskedIsSettled ==
  \A i \in Items :
    /\ api.rows[i].suspicious /\ InInbox(api.rows[i]) /\ ~ InInbox(api'.rows[i])
       => api'.rows[i].dismissed
    /\ api.rows[i].routing /\ ~ api'.rows[i].routing
       => \A k \in Slots : \A q \in run[k].asked :
            run'[k] # run[k] /\ q.to = "correct" => q.item # i

LEMMA RowsSettled ==
  ASSUME NEW settled, RowBecomes(api, api', settled),
         settled => \A k \in Slots : \A q \in run[k].asked :
                      run'[k] # run[k] => q.to # "correct"
  PROVE  AskedIsSettled
<1> SUFFICES ASSUME NEW i \in Items
             PROVE  /\ api.rows[i].suspicious /\ InInbox(api.rows[i]) /\ ~ InInbox(api'.rows[i])
                       => api'.rows[i].dismissed
                    /\ api.rows[i].routing /\ ~ api'.rows[i].routing => settled
  BY DEF AskedIsSettled
<1>1. /\ api'.rows[i].suspicious = api.rows[i].suspicious
      /\ api.rows[i].routing /\ ~ api'.rows[i].routing => settled
  BY DEF RowBecomes, Becoming
<1> QED
  BY <1>1 DEF InInbox, RequiresReview

LEMMA ReviewServed ==
  ASSUME ReviewInv, page = "review", NEW k \in Slots, Served(k) \/ Lost(k)
  PROVE  ReviewInv' /\ AskedIsSettled
<1>1. Slotted /\ RowsStored(api) /\ ReviewHandler(run[k])
  BY DEF ReviewInv
<1>2. PICK q \in run[k].asked : \E o \in ReviewReply(q) : \E h : ServedAs(k, q, o, h)
  BY <1>1, AnsweredOrLost DEF Reply
<1>3. PICK o \in ReviewReply(q) : \E h : ServedAs(k, q, o, h)
  BY <1>2
<1>4. PICK h : ServedAs(k, q, o, h)
  BY <1>3
<1>5. q.to \in ReviewRequests /\ run[k].asked = {q}
  BY <1>1 DEF ReviewHandler
<1>6. ReviewHandler(h)
  BY <1>4, <1>5 DEF ServedAs, Answering, ReviewHandler, Shaped
<1>7. RowBecomes(api, o.api, q.to = "route")
  BY <1>1, <1>5, ReviewRows
<1>8. RowBecomes(api, api', q.to = "route")
  BY <1>1, <1>4, <1>7 DEF ServedAs, RowBecomes, Becoming, RowsStored
<1>9. ReviewInv'
  BY <1>4, <1>6, <1>8, ReviewKept DEF ServedAs, RowBecomes
<1>10. \A j \in Slots : run'[j] # run[j] => run[j].asked = {q}
  BY <1>1, <1>4, <1>5 DEF ServedAs, Slotted
<1>11. AskedIsSettled
  BY <1>8, <1>10, RowsSettled
<1> QED
  BY <1>9, <1>11

LEMMA ReviewSteps ==
  ASSUME Next, page = "review", adrift = {}
  PROVE  Review \/ \E k \in Slots : Served(k) \/ Lost(k)
BY DEF Next, Clusters, Processing, Notifications, Account, Smtp, Memory, Learning, RulesPage,
       Structure, Onboarding, Forgotten

LEMMA ReviewNext ==
  ASSUME ReviewInv, page = "review", [Next]_vars
  PROVE  ReviewInv' /\ AskedIsSettled
<1>0. RowsStored(api)
  BY DEF ReviewInv
<1>1. ASSUME api' = api PROVE AskedIsSettled
  <2>1. RowBecomes(api, api', FALSE)
    BY <1>0, <1>1, SameRows
  <2> QED
    BY <2>1, RowsSettled
<1>2. CASE UNCHANGED vars
  <2>1. ReviewInv'
    BY <1>2 DEF vars, tab, ReviewInv, Slotted, RowsStored
  <2> QED
    BY <1>1, <1>2, <2>1 DEF vars
<1>3. CASE Review /\ ~ ReviewEvent
  <2>1. ReviewStep
    BY <1>3, ReviewsStep
  <2>2. CASE run' = run
    BY <2>1, <2>2, <1>1 DEF ReviewStep, ReviewInv, Slotted, RowsStored
  <2>3. CASE run' # run
    <3>1. PICK k, h : k \in Slots /\ ReviewHandler(h) /\ run' = [run EXCEPT ![k] = h]
      BY <2>1, <2>3 DEF ReviewStep
    <3>2. api' = api /\ adrift' = adrift /\ RowsStored(api')
      BY <1>0, <2>1 DEF ReviewStep
    <3> QED
      BY <1>1, <3>1, <3>2, ReviewKept
  <2> QED
    BY <2>2, <2>3
<1>4. CASE ReviewEvent
  <2>1. RowBecomes(api, api', TRUE) /\ run' = run /\ adrift' = adrift
    BY <1>0, <1>4, ReviewEventRows
  <2>2. ReviewInv'
    BY <2>1 DEF RowBecomes, ReviewInv, Slotted, RowsStored
  <2>3. AskedIsSettled
    BY <2>1, RowsSettled
  <2> QED
    BY <2>2, <2>3
<1>5. CASE \E k \in Slots : Served(k) \/ Lost(k)
  <2>1. PICK k \in Slots : Served(k) \/ Lost(k)
    BY <1>5
  <2> QED
    BY <2>1, ReviewServed
<1> QED
  BY <1>2, <1>3, <1>4, <1>5, ReviewSteps DEF ReviewInv

\* Whatever other clicks and colleagues do meanwhile, a suspicious mail leaves the review
\* inbox only when it is dismissed, and a correction ends no routing (app/review).
THEOREM ReviewSettlesWhatIsAsked == Spec => OnlyAskedIsSettled
<1>1. Init => (page = "review" => ReviewInv)
  BY ReviewInitially
<1>2. (page = "review" => ReviewInv) /\ [Next]_vars => (page = "review" => ReviewInv)'
  BY ReviewNext, PageStays
<1>3. (page = "review" => ReviewInv) /\ [Next]_vars => (page = "review" => AskedIsSettled)
  BY ReviewNext
<1> QED
  BY <1>1, <1>2, <1>3, PTL DEF Spec, OnlyAskedIsSettled, AskedIsSettled

-----------------------------------------------------------------------------
(* The pages of remembered decisions: enabled entries agree. *)

Contradicts(c, d) ==
  c.enabled /\ d.enabled /\ c.match = d.match /\ c.outcome # d.outcome

\* Entries that no requests for them tangled agree; what has been written and not yet
\* committed has disabled what contradicts it; a row stays as a request loaded it, or it
\* is disabled or deleted; and requests in progress together tangle their entries.
Agreeing(a) ==
  \A e, f \in Present(a.entries) :
    Apart(a.tangled, e, f) => ~ Contradicts(a.entries[e], a.entries[f])
Superseding(a) ==
  \A t \in a.writing : t.written =>
    \A f \in Present(a.entries) \ {t.entry} :
      /\ Apart(a.tangled, t.entry, f)
      /\ Contradicts(a.entries[f], t.to)
      => f \in t.disabled
AsSeen(d, seen) ==
  /\ d.match = seen.match /\ d.outcome = seen.outcome
  /\ d.enabled => seen.enabled
Unmoved(a) ==
  \A t \in a.writing :
    ~ t.written /\ t.seen # Absent /\ {t.entry} \notin a.tangled =>
      a.entries[t.entry] = Absent \/ AsSeen(a.entries[t.entry], t.seen)
Entangled(a) ==
  \A t, u \in a.writing : t # u => {t.entry, u.entry} \in a.tangled

MemoryStored(a) ==
  /\ DOMAIN a = {"entries", "writing", "tangled"}
  /\ a.entries \in [Entries -> Decided \cup {Absent}] /\ a.writing \subseteq Writings
  /\ Agreeing(a) /\ Superseding(a) /\ Unmoved(a) /\ Entangled(a)

LEMMA AbsentIsNotDecided == Absent \notin Decided
BY DEF Absent, Decided

\* A request begins, and is tangled with those in progress.
LEMMA WritingBegun ==
  ASSUME MemoryStored(api), NEW by \in SUBSET Slots, NEW e \in Entries, NEW to \in Decided,
         BeginWriting(by, e, to)
  PROVE  MemoryStored(api')
<1> DEFINE new == [by |-> by, entry |-> e, to |-> to, seen |-> api.entries[e],
                   written |-> FALSE, disabled |-> {}]
<1>0. /\ DOMAIN api = {"entries", "writing", "tangled"}
      /\ api.entries \in [Entries -> Decided \cup {Absent}] /\ api.writing \subseteq Writings
      /\ Agreeing(api) /\ Superseding(api) /\ Unmoved(api) /\ Entangled(api)
  BY DEF MemoryStored
<1>1. /\ DOMAIN api' = DOMAIN api /\ api'.entries = api.entries
      /\ api'.writing = api.writing \cup {new}
      /\ api'.tangled = api.tangled \cup {{e, t.entry} : t \in api.writing}
  BY <1>0 DEF BeginWriting
<1>2. /\ new \in Writings /\ new.entry = e /\ new.seen = api.entries[e]
      /\ ~ new.written
  BY <1>0 DEF Writings
<1> HIDE DEF new
<1>3. Agreeing(api') /\ Superseding(api')
  <2>1. \A x, y : Apart(api'.tangled, x, y) => Apart(api.tangled, x, y)
    BY <1>1 DEF Apart
  <2>2. Agreeing(api')
    BY <1>0, <1>1, <2>1 DEF Agreeing
  <2>3. \A t \in api'.writing : t.written => t \in api.writing
    BY <1>1, <1>2
  <2> QED
    BY <1>0, <1>1, <2>1, <2>2, <2>3 DEF Superseding
<1>4. Unmoved(api')
  <2>1. AsSeen(api.entries[e], new.seen)
    BY <1>2 DEF AsSeen
  <2> QED
    BY <1>0, <1>1, <1>2, <2>1 DEF Unmoved
<1>5. Entangled(api')
  <2> SUFFICES ASSUME NEW t \in api'.writing, NEW u \in api'.writing, t # u
               PROVE  {t.entry, u.entry} \in api'.tangled
    BY DEF Entangled
  <2>1. CASE t \in api.writing /\ u \in api.writing
    BY <1>0, <1>1, <2>1 DEF Entangled
  <2>2. CASE t = new /\ u \in api.writing
    BY <1>1, <1>2, <2>2
  <2>3. CASE u = new /\ t \in api.writing
    <3>1. {t.entry, u.entry} = {e, t.entry}
      BY <1>2, <2>3
    <3> QED
      BY <1>1, <2>3, <3>1
  <2> QED
    BY <1>1, <2>1, <2>2, <2>3
<1> QED
  BY <1>0, <1>1, <1>2, <1>3, <1>4, <1>5 DEF MemoryStored

\* An entry is deleted.
LEMMA EntryDeleted ==
  ASSUME MemoryStored(api), NEW e \in Entries, NEW a,
         a = [api EXCEPT !.entries[e] = Absent]
  PROVE  MemoryStored(a)
<1>0. /\ DOMAIN api = {"entries", "writing", "tangled"}
      /\ api.entries \in [Entries -> Decided \cup {Absent}] /\ api.writing \subseteq Writings
      /\ Agreeing(api) /\ Superseding(api) /\ Unmoved(api) /\ Entangled(api)
  BY DEF MemoryStored
<1>1. /\ DOMAIN a = DOMAIN api /\ a.writing = api.writing /\ a.tangled = api.tangled
      /\ a.entries = [api.entries EXCEPT ![e] = Absent]
  BY <1>0
<1>2. /\ a.entries \in [Entries -> Decided \cup {Absent}]
      /\ \A f \in Entries : a.entries[f] = Absent \/ a.entries[f] = api.entries[f]
      /\ \A f \in Present(a.entries) :
           f \in Present(api.entries) /\ a.entries[f] = api.entries[f]
  BY <1>0, <1>1 DEF Present
<1>3. \A t \in api.writing : t.entry \in Entries
  BY <1>0 DEF Writings
<1>4. Agreeing(a)
  BY <1>0, <1>1, <1>2 DEF Agreeing
<1>5. Superseding(a)
  BY <1>0, <1>1, <1>2 DEF Superseding
<1>6. Unmoved(a)
  BY <1>0, <1>1, <1>2, <1>3 DEF Unmoved
<1>7. Entangled(a)
  BY <1>0, <1>1 DEF Entangled
<1> QED
  BY <1>0, <1>1, <1>2, <1>4, <1>5, <1>6, <1>7 DEF MemoryStored

\* Requests end, or go on for nobody: each that is left was one in progress.
LEMMA WritingsLeft ==
  ASSUME MemoryStored(api), DOMAIN api' = DOMAIN api,
         api'.entries = api.entries, api'.tangled = api.tangled,
         api'.writing \subseteq Writings,
         \A t \in api'.writing : t \in api.writing \/
           \E u \in api.writing \ api'.writing : t = [u EXCEPT !.by = {}]
  PROVE  MemoryStored(api')
<1>0. /\ DOMAIN api = {"entries", "writing", "tangled"}
      /\ api.entries \in [Entries -> Decided \cup {Absent}] /\ api.writing \subseteq Writings
      /\ Agreeing(api) /\ Superseding(api) /\ Unmoved(api) /\ Entangled(api)
  BY DEF MemoryStored
<1>1. \A t \in api'.writing : \E u \in api.writing :
        /\ t = u \/ (t = [u EXCEPT !.by = {}] /\ u \notin api'.writing)
        /\ t.entry = u.entry /\ t.to = u.to /\ t.seen = u.seen
        /\ t.written = u.written /\ t.disabled = u.disabled
  BY <1>0 DEF Writings
<1>2. Agreeing(api')
  BY <1>0 DEF Agreeing
<1>3. Superseding(api')
  BY <1>0, <1>1 DEF Superseding
<1>4. Unmoved(api')
  BY <1>0, <1>1 DEF Unmoved
<1>5. Entangled(api')
  <2> SUFFICES ASSUME NEW t \in api'.writing, NEW u \in api'.writing, t # u
               PROVE  {t.entry, u.entry} \in api.tangled
    BY DEF Entangled
  <2>1. PICK v \in api.writing :
          /\ t = v \/ (t = [v EXCEPT !.by = {}] /\ v \notin api'.writing)
          /\ t.entry = v.entry
    BY <1>1
  <2>2. PICK w \in api.writing :
          /\ u = w \/ (u = [w EXCEPT !.by = {}] /\ w \notin api'.writing)
          /\ u.entry = w.entry
    BY <1>1
  <2>3. v # w
    BY <2>1, <2>2
  <2> QED
    BY <1>0, <2>1, <2>2, <2>3 DEF Entangled
<1> QED
  BY <1>0, <1>2, <1>3, <1>4, <1>5 DEF MemoryStored

\* A row is written: what contradicts it is disabled with it, unless another request for
\* the entry has changed it since it was loaded.
LEMMA RowWritten ==
  ASSUME MemoryStored(api), NEW t \in api.writing, ~ t.written,
         t.seen # Absent => api.entries[t.entry] # Absent,
         api' = [api EXCEPT !.writing =
                   (@ \ {t}) \cup {[t EXCEPT !.to = Row(t), !.written = TRUE,
                                             !.disabled = Superseded(t)]}]
  PROVE  MemoryStored(api')
<1> DEFINE new == [t EXCEPT !.to = Row(t), !.written = TRUE, !.disabled = Superseded(t)]
           now == api.entries[t.entry]
<1>0. /\ DOMAIN api = {"entries", "writing", "tangled"}
      /\ api.entries \in [Entries -> Decided \cup {Absent}] /\ api.writing \subseteq Writings
      /\ Agreeing(api) /\ Superseding(api) /\ Unmoved(api) /\ Entangled(api)
  BY DEF MemoryStored
<1>1. /\ DOMAIN api' = DOMAIN api /\ api'.entries = api.entries /\ api'.tangled = api.tangled
      /\ api'.writing = (api.writing \ {t}) \cup {new}
  BY <1>0
<1>2. /\ t.entry \in Entries /\ t.to \in Decided /\ t.seen \in Decided \cup {Absent}
      /\ t.seen # Absent => t.seen \in Decided /\ now \in Decided
  BY <1>0, AbsentIsNotDecided DEF Writings
<1>3. Row(t) \in Decided
  <2>1. CASE t.seen = Absent
    BY <1>2, <2>1 DEF Row
  <2>2. CASE t.seen # Absent
    <3>1. /\ Column(t.to.match, t.seen.match, now.match) \in Matches
          /\ Column(t.to.outcome, t.seen.outcome, now.outcome) \in Outcomes
          /\ Column(t.to.enabled, t.seen.enabled, now.enabled) \in BOOLEAN
      BY <1>2, <2>2 DEF Column, Decided
    <3> HIDE DEF now
    <3>2. Row(t) = [match |-> Column(t.to.match, t.seen.match, now.match),
                    outcome |-> Column(t.to.outcome, t.seen.outcome, now.outcome),
                    enabled |-> Column(t.to.enabled, t.seen.enabled, now.enabled)]
      BY <2>2 DEF Row, now
    <3> QED
      BY <3>1, <3>2 DEF Decided
  <2> QED
    BY <2>1, <2>2
<1>4. /\ new \in Writings /\ new.entry = t.entry /\ new.to = Row(t) /\ new.written
      /\ new.disabled = Superseded(t)
  <2>1. Superseded(t) \subseteq Entries
    BY DEF Superseded, Contradicting, Present
  <2> QED
    BY <1>0, <1>3, <2>1 DEF Writings
<1>5. ASSUME {t.entry} \notin api.tangled, NEW d, Contradicts(d, Row(t))
      PROVE  Contradicts(d, t.to) /\ (t.seen = Absent \/ t.to.enabled)
  <2>1. CASE t.seen = Absent
    BY <1>5, <2>1 DEF Row
  <2>2. CASE t.seen # Absent
    <3>1. AsSeen(now, t.seen)
      BY <1>0, <1>5, <2>2 DEF Unmoved
    <3>2. /\ Row(t).match = Column(t.to.match, t.seen.match, now.match)
          /\ Row(t).outcome = Column(t.to.outcome, t.seen.outcome, now.outcome)
          /\ Row(t).enabled = Column(t.to.enabled, t.seen.enabled, now.enabled)
      BY <2>2 DEF Row
    <3>3. Row(t).match = t.to.match /\ Row(t).outcome = t.to.outcome
      BY <3>1, <3>2 DEF Column, AsSeen
    <3>4. Row(t).enabled => t.to.enabled
      <4>1. t.to.enabled \in BOOLEAN /\ t.seen.enabled \in BOOLEAN
        BY <1>2, <2>2 DEF Decided
      <4> QED
        BY <3>1, <3>2, <4>1 DEF Column, AsSeen
    <3> QED
      BY <1>5, <3>3, <3>4 DEF Contradicts
  <2> QED
    BY <2>1, <2>2
<1> HIDE DEF new
<1>6. Agreeing(api')
  BY <1>0, <1>1 DEF Agreeing
<1>7. Superseding(api')
  <2> SUFFICES ASSUME NEW u \in api'.writing, u.written,
                      NEW f \in Present(api.entries) \ {u.entry},
                      Apart(api.tangled, u.entry, f), Contradicts(api.entries[f], u.to)
               PROVE  f \in u.disabled
    BY <1>1 DEF Superseding
  <2>1. CASE u \in api.writing
    BY <1>0, <2>1 DEF Superseding
  <2>2. CASE u = new
    <3>1. {t.entry} \notin api.tangled
      BY <1>4, <2>2 DEF Apart
    <3>2. Contradicts(api.entries[f], t.to) /\ (t.seen = Absent \/ t.to.enabled)
      BY <1>4, <1>5, <2>2, <3>1
    <3>3. f \in Superseded(t)
      BY <1>4, <2>2, <3>2 DEF Superseded, Contradicting, Contradicts
    <3> QED
      BY <1>4, <2>2, <3>3
  <2> QED
    BY <1>1, <2>1, <2>2
<1>8. Unmoved(api')
  BY <1>0, <1>1, <1>4 DEF Unmoved
<1>9. Entangled(api')
  BY <1>0, <1>1, <1>4 DEF Entangled
<1> QED
  BY <1>0, <1>1, <1>4, <1>6, <1>7, <1>8, <1>9 DEF MemoryStored

\* A commit makes the entry agree with those that it was not tangled with.
LEMMA WritingCommitted ==
  ASSUME MemoryStored(api), NEW t \in api.writing, t.written,
         api' = [api EXCEPT !.entries = Committed(t), !.writing = @ \ {t}]
  PROVE  MemoryStored(api')
<1>0. /\ DOMAIN api = {"entries", "writing", "tangled"}
      /\ api.entries \in [Entries -> Decided \cup {Absent}] /\ api.writing \subseteq Writings
      /\ Agreeing(api) /\ Superseding(api) /\ Unmoved(api) /\ Entangled(api)
  BY DEF MemoryStored
<1>1. /\ DOMAIN api' = DOMAIN api /\ api'.entries = Committed(t)
      /\ api'.tangled = api.tangled /\ api'.writing = api.writing \ {t}
  BY <1>0
<1>2. t.entry \in Entries /\ t.to \in Decided
  BY <1>0 DEF Writings
<1> DEFINE new == api'.entries
<1>3. /\ DOMAIN new = Entries /\ new[t.entry] = t.to
      /\ \A f \in Entries \ {t.entry} :
           \/ /\ f \in t.disabled /\ api.entries[f] # Absent
              /\ new[f] = [api.entries[f] EXCEPT !.enabled = FALSE]
           \/ /\ f \notin t.disabled \/ api.entries[f] = Absent
              /\ new[f] = api.entries[f]
  BY <1>1, <1>2 DEF Committed, Present
<1> HIDE DEF new
<1>4. ASSUME NEW f \in Entries \ {t.entry}
      PROVE  /\ new[f] \in Decided \cup {Absent}
             /\ api.entries[f] = Absent => new[f] = Absent
             /\ api.entries[f] # Absent => AsSeen(new[f], api.entries[f])
             /\ new[f] # Absent /\ new[f].enabled =>
                  /\ new[f] = api.entries[f] /\ f \in Present(api.entries)
                  /\ f \notin t.disabled
  <2>1. CASE /\ f \in t.disabled /\ api.entries[f] # Absent
             /\ new[f] = [api.entries[f] EXCEPT !.enabled = FALSE]
    <3>1. api.entries[f] \in Decided
      BY <1>0, <2>1
    <3>2. /\ new[f] \in Decided /\ ~ new[f].enabled
          /\ new[f].match = api.entries[f].match /\ new[f].outcome = api.entries[f].outcome
      BY <2>1, <3>1 DEF Decided
    <3> QED
      BY <2>1, <3>2 DEF AsSeen
  <2>2. CASE (f \notin t.disabled \/ api.entries[f] = Absent) /\ new[f] = api.entries[f]
    BY <1>0, <2>2 DEF AsSeen, Present
  <2> QED
    BY <1>3, <2>1, <2>2
<1>5. new \in [Entries -> Decided \cup {Absent}]
  <2>1. \A f \in Entries : new[f] \in Decided \cup {Absent}
    BY <1>2, <1>3, <1>4
  <2>2. new = [f \in Entries |-> new[f]]
    BY <1>1, <1>3 DEF Committed, new
  <2> QED
    BY <2>1, <2>2
<1>6. ASSUME NEW f \in Present(new) \ {t.entry}, Apart(api.tangled, t.entry, f)
      PROVE  ~ Contradicts(new[f], t.to)
  <2>1. f \in Entries /\ new[f] # Absent
    BY <1>6 DEF Present
  <2>2. CASE new[f].enabled
    <3>1. new[f] = api.entries[f] /\ f \in Present(api.entries) /\ f \notin t.disabled
      BY <1>4, <1>6, <2>1, <2>2
    <3> QED
      BY <1>0, <1>6, <3>1 DEF Superseding
  <2> QED
    BY <2>2 DEF Contradicts
<1>7. Agreeing(api')
  <2> SUFFICES ASSUME NEW e \in Present(new), NEW f \in Present(new),
                      Apart(api.tangled, e, f), Contradicts(new[e], new[f])
               PROVE  FALSE
    BY <1>1 DEF Agreeing, new
  <2>0. e \in Entries /\ f \in Entries /\ new[e] # Absent /\ new[f] # Absent
    BY DEF Present
  <2>1. CASE e = t.entry /\ f # t.entry
    <3>1. Contradicts(new[f], t.to)
      BY <1>3, <2>1 DEF Contradicts
    <3> QED
      BY <1>6, <2>1, <3>1
  <2>2. CASE f = t.entry /\ e # t.entry
    <3>1. Contradicts(new[e], t.to)
      BY <1>3, <2>2
    <3>2. Apart(api.tangled, t.entry, e)
      BY <2>2 DEF Apart
    <3> QED
      BY <1>6, <2>2, <3>1, <3>2
  <2>3. CASE e # t.entry /\ f # t.entry
    <3>1. /\ new[e] = api.entries[e] /\ e \in Present(api.entries)
          /\ new[f] = api.entries[f] /\ f \in Present(api.entries)
      BY <1>4, <2>0, <2>3 DEF Contradicts
    <3> QED
      BY <1>0, <3>1 DEF Agreeing
  <2>4. CASE e = f
    BY <2>4 DEF Contradicts
  <2> QED
    BY <2>1, <2>2, <2>3, <2>4
<1>8. Superseding(api')
  <2> SUFFICES ASSUME NEW u \in api.writing \ {t}, u.written,
                      NEW f \in Present(new) \ {u.entry},
                      Apart(api.tangled, u.entry, f), Contradicts(new[f], u.to)
               PROVE  f \in u.disabled
    BY <1>1 DEF Superseding, new
  <2>0. f \in Entries /\ new[f] # Absent
    BY DEF Present
  <2>1. f # t.entry
    <3>1. {u.entry, t.entry} \in api.tangled
      BY <1>0 DEF Entangled
    <3> QED
      BY <3>1 DEF Apart
  <2>2. new[f] = api.entries[f] /\ f \in Present(api.entries)
    BY <1>4, <2>0, <2>1 DEF Contradicts
  <2> QED
    BY <1>0, <2>2 DEF Superseding
<1>9. Unmoved(api')
  <2> SUFFICES ASSUME NEW u \in api.writing \ {t}, ~ u.written, u.seen # Absent,
                      {u.entry} \notin api.tangled
               PROVE  new[u.entry] = Absent \/ AsSeen(new[u.entry], u.seen)
    BY <1>1 DEF Unmoved, new
  <2>1. u.entry \in Entries
    BY <1>0 DEF Writings
  <2>2. u.entry # t.entry
    <3>1. {u.entry, t.entry} \in api.tangled
      BY <1>0 DEF Entangled
    <3>2. u.entry = t.entry => {u.entry, t.entry} = {u.entry}
      OBVIOUS
    <3> QED
      BY <3>1, <3>2
  <2>3. api.entries[u.entry] = Absent \/ AsSeen(api.entries[u.entry], u.seen)
    BY <1>0 DEF Unmoved
  <2> QED
    BY <1>4, <2>1, <2>2, <2>3 DEF AsSeen
<1>10. Entangled(api')
  BY <1>0, <1>1 DEF Entangled
<1> QED
  BY <1>0, <1>1, <1>5, <1>7, <1>8, <1>9, <1>10 DEF MemoryStored, new

\* The lists that the API answers with.
IsList(l) == DOMAIN l \subseteq Entries /\ \A e \in DOMAIN l : l[e] \in Decided

MemoryRequest(q) ==
  /\ q.to \in {"mailboxes", "memory", "create-entry", "replace-entry", "delete-entry"}
  /\ q.to \in {"create-entry", "replace-entry"} => q.decided \in Decided
  /\ q.to \in {"replace-entry", "delete-entry"} => q.entry \in Entries

LEMMA MemoryServes ==
  ASSUME MemoryStored(api), NEW q, MemoryRequest(q), NEW o \in MemoryReply(q)
  PROVE  MemoryStored(o.api) /\ (q.to = "memory" => IsList(o.answer))
<1>1. CASE o = No /\ q.to # "memory"
  BY <1>1, NoIs
<1>2. CASE q.to = "mailboxes"
  <2>1. o = Ok(api, Boxes)
    BY <1>2 DEF MemoryReply
  <2>2. o.api = api
    BY <2>1, OkIs
  <2> QED
    BY <1>2, <2>2
<1>3. CASE q.to = "memory"
  <2>1. o = Ok(api, ListOf(q.box))
    BY <1>3 DEF MemoryReply
  <2>2. o.api = api /\ o.answer = ListOf(q.box)
    BY <2>1, OkIs
  <2>3. IsList(ListOf(q.box))
    BY DEF MemoryStored, IsList, ListOf, Present
  <2> QED
    BY <2>2, <2>3
<1>4. CASE q.to \in {"create-entry", "replace-entry"}
  BY <1>4 DEF MemoryReply
<1>5. CASE q.to = "delete-entry" /\ o # No
  <2>1. o = Ok([api EXCEPT !.entries[q.entry] = Absent], "deleted")
    BY <1>5 DEF MemoryReply
  <2>2. o.api = [api EXCEPT !.entries[q.entry] = Absent]
    BY <2>1, OkIs
  <2> QED
    BY <1>5, <2>2, EntryDeleted DEF MemoryRequest
<1> QED
  BY <1>1, <1>2, <1>3, <1>4, <1>5 DEF MemoryRequest

Listing == [to |-> "memory", box |-> view.box]

\* The handlers of the pages: what they ask for, and the lists that they have.
MemoryHandler(h) ==
  /\ Shaped(h)
  /\ \A q \in h.asked : MemoryRequest(q)
  /\ DOMAIN h = HandlerFields =>
       /\ h.settles = FALSE
       /\ \A q \in DOMAIN h.got : q.to = "memory" => IsList(h.got[q])
       /\ h.of = "load-lists" => \A q \in h.asked \cup DOMAIN h.got : q.to = "memory"

\* A list that is loaded for the memory page is that of its mailbox.
LoadsMine(h) ==
  h.of = "load-memory" => h.failed \/ Listing \in h.asked \cup DOMAIN h.got

ListsInv ==
  /\ Slotted
  /\ adrift = {}
  /\ MemoryStored(api)
  /\ \A k \in Slots : MemoryHandler(run[k])

MemoryShown ==
  /\ DOMAIN view = {"box", "entries", "editing", "draft", "busy", "error"}
  /\ IsList(view.entries)
  /\ view.editing \in Entries => view.draft \in Decided

MemoryInv ==
  /\ ListsInv
  /\ MemoryShown
  /\ \A k \in Slots : LoadsMine(run[k])

LearningShown ==
  /\ DOMAIN view = {"entries", "loading", "modal", "open", "busy"}
  /\ IsList(view.entries)

LearningInv == ListsInv /\ LearningShown

LEMMA EmptyIsList == IsList(<<>>)
BY DEF IsList

\* A handler that has just begun.
LEMMA NewMemoryHandler ==
  ASSUME NEW of, NEW arg, NEW asked, \A q \in asked : MemoryRequest(q),
         of = "load-lists" => \A q \in asked : q.to = "memory"
  PROVE  MemoryHandler(Handler(of, arg, asked))
<1> DEFINE h == Handler(of, arg, asked)
<1>1. /\ DOMAIN h = HandlerFields /\ h.of = of /\ h.asked = asked /\ h.settles = FALSE
      /\ h.got = <<>>
  BY DEF Handler, HandlerFields
<1>2. DOMAIN h.got = {}
  BY <1>1
<1> HIDE DEF h
<1> QED
  BY <1>1, <1>2 DEF MemoryHandler, Shaped, h

LEMMA MemoryHandlers ==
  /\ MemoryHandler(Idle) /\ LoadsMine(Idle)
  /\ \A by : MemoryHandler(LoadMemory(by)) /\ LoadsMine(LoadMemory(by))
  /\ MemoryHandler(LoadLearning)
  /\ \A boxes : MemoryHandler(LoadLists(boxes))
<1>1. MemoryHandler(Idle) /\ LoadsMine(Idle)
  <2>1. Idle.of = "idle" /\ Idle.asked = {} /\ DOMAIN Idle # HandlerFields
    BY DEF Idle, HandlerFields
  <2> QED
    BY <2>1, IdleIs DEF MemoryHandler, LoadsMine
<1>2. ASSUME NEW by PROVE MemoryHandler(LoadMemory(by)) /\ LoadsMine(LoadMemory(by))
  <2>1. MemoryRequest(Listing)
    BY DEF MemoryRequest, Listing
  <2>2. LoadMemory(by) = Handler("load-memory", by, {Listing})
    BY DEF LoadMemory, Listing
  <2>3. MemoryHandler(LoadMemory(by))
    BY <2>1, <2>2, NewMemoryHandler
  <2>4. LoadMemory(by).asked = {Listing}
    BY <2>2 DEF Handler
  <2> QED
    BY <2>3, <2>4 DEF LoadsMine
<1>3. MemoryHandler(LoadLearning)
  <2>1. MemoryRequest([to |-> "mailboxes"])
    BY DEF MemoryRequest
  <2> QED
    BY <2>1, NewMemoryHandler DEF LoadLearning
<1>4. ASSUME NEW boxes PROVE MemoryHandler(LoadLists(boxes))
  <2>1. \A b : [to |-> "memory", box |-> b].to = "memory"
    OBVIOUS
  <2>2. \A q \in {[to |-> "memory", box |-> b] : b \in boxes} : q.to = "memory"
    BY <2>1
  <2>3. \A q \in {[to |-> "memory", box |-> b] : b \in boxes} : MemoryRequest(q)
    BY <2>2 DEF MemoryRequest
  <2> QED
    BY <2>2, <2>3, NewMemoryHandler DEF LoadLists
<1> QED
  BY <1>1, <1>2, <1>3, <1>4

\* A button asks for one thing.
LEMMA MemoryButtons ==
  ASSUME NEW of, of \notin {"load-lists", "load-memory"}, NEW arg, NEW q, MemoryRequest(q)
  PROVE  MemoryHandler(Handler(of, arg, {q})) /\ LoadsMine(Handler(of, arg, {q}))
<1>1. MemoryHandler(Handler(of, arg, {q}))
  BY NewMemoryHandler
<1>2. Handler(of, arg, {q}).of = of
  BY DEF Handler
<1> QED
  BY <1>1, <1>2 DEF LoadsMine

LEMMA ReplaceRequest ==
  ASSUME NEW e \in Entries, NEW decided \in Decided
  PROVE  MemoryRequest([to |-> "replace-entry", entry |-> e, decided |-> decided])
BY DEF MemoryRequest

LEMMA ToggledIsDecided ==
  ASSUME NEW d \in Decided PROVE [d EXCEPT !.enabled = ~ @] \in Decided
BY DEF Decided

\* A step of the memory page.
MemoryStep ==
  /\ UNCHANGED <<api, adrift>>
  /\ MemoryShown' /\ view'.box = view.box
  /\ \/ run' = run
     \/ \E k \in Slots : \E h :
          /\ MemoryHandler(h) /\ LoadsMine(h)
          /\ run' = [run EXCEPT ![k] = h]

\* A change of the view that leaves the entries and what is edited alone, or ends it.
LEMMA StillShown ==
  ASSUME MemoryShown, DOMAIN view' = DOMAIN view,
         view'.entries = view.entries \/ IsList(view'.entries),
         \/ view'.editing = view.editing /\ view'.draft = view.draft
         \/ view'.editing = "none"
         \/ view'.draft \in Decided
  PROVE  MemoryShown'
<1>1. IsList(view'.entries)
  BY DEF MemoryShown
<1>2. view'.editing \in Entries => view'.draft \in Decided
  BY LearningAssumption DEF MemoryShown
<1> QED
  BY <1>1, <1>2 DEF MemoryShown, IsList

LEMMA MemoryPressed ==
  ASSUME MemoryShown, NEW e, NEW q, MemoryRequest(q), PressEntry(e, q)
  PROVE  MemoryStep
<1>1. view' = [view EXCEPT !.busy = e, !.error = FALSE]
  BY DEF PressEntry
<1>2. /\ DOMAIN view' = DOMAIN view /\ view'.entries = view.entries
      /\ view'.editing = view.editing /\ view'.draft = view.draft /\ view'.box = view.box
  BY <1>1 DEF MemoryShown
<1>3. MemoryShown'
  BY <1>2, StillShown
<1>4. /\ MemoryHandler(Handler("entry-click", q.to, {q}))
      /\ LoadsMine(Handler("entry-click", q.to, {q}))
  BY MemoryButtons
<1> QED
  BY <1>2, <1>3, <1>4 DEF PressEntry, Begin, Click, MemoryStep

LEMMA MemoryArrives ==
  ASSUME MemoryShown, NEW k \in Slots, MemoryHandler(run[k]), LoadsMine(run[k]), Slotted,
         MemoryLoaded(k)
  PROVE  MemoryStep
<1> DEFINE busy == IF run[k].arg = "click" THEN "none" ELSE view.busy
<1>0. run' = [run EXCEPT ![k] = Idle] /\ api' = api /\ adrift' = adrift
  BY DEF MemoryLoaded, Ends, Becomes
<1> SUFFICES MemoryShown' /\ view'.box = view.box
  BY <1>0, MemoryHandlers DEF MemoryStep
<1>1. CASE Answered(k, "load-memory")
  <2>1. view' = [view EXCEPT !.entries = run[k].got[Listing], !.busy = busy]
    BY <1>1 DEF MemoryLoaded, Listing, Answered, Rejected, Running
  <2>2. Listing \in DOMAIN run[k].got
    BY <1>1 DEF Answered, Running, LoadsMine
  <2>3. DOMAIN run[k] = HandlerFields
    BY <1>1, IdleIs DEF Answered, Running, Slotted, Shaped
  <2>4. IsList(run[k].got[Listing])
    BY <2>2, <2>3 DEF MemoryHandler, Listing
  <2> HIDE DEF busy
  <2>5. /\ DOMAIN view' = DOMAIN view /\ view'.entries = run[k].got[Listing]
        /\ view'.editing = view.editing /\ view'.draft = view.draft /\ view'.box = view.box
    BY <2>1 DEF MemoryShown
  <2> QED
    BY <2>4, <2>5, StillShown
<1>2. CASE Rejected(k, "load-memory")
  <2>1. view' = [view EXCEPT !.entries = <<>>, !.busy = busy, !.error = TRUE]
    BY <1>2 DEF MemoryLoaded, Answered, Rejected
  <2> HIDE DEF busy
  <2>2. /\ DOMAIN view' = DOMAIN view /\ view'.entries = <<>>
        /\ view'.editing = view.editing /\ view'.draft = view.draft /\ view'.box = view.box
    BY <2>1 DEF MemoryShown
  <2> QED
    BY <2>2, StillShown, EmptyIsList
<1> QED
  BY <1>1, <1>2 DEF MemoryLoaded

LEMMA MemorySteps ==
  ASSUME MemoryInv, Memory, ~ MemoryServer PROVE MemoryStep
<1>0. MemoryShown /\ DOMAIN view.entries \subseteq Entries
  BY DEF MemoryInv, MemoryShown, IsList
<1>1. ASSUME NEW e \in DOMAIN view.entries, ToggleEntry(e) PROVE MemoryStep
  <2> DEFINE decided == [view.entries[e] EXCEPT !.enabled = ~ @]
  <2>1. e \in Entries /\ decided \in Decided
    BY <1>0, ToggledIsDecided DEF MemoryShown, IsList
  <2>2. PressEntry(e, [to |-> "replace-entry", entry |-> e, decided |-> decided])
    BY <1>1 DEF ToggleEntry
  <2> HIDE DEF decided
  <2> QED
    BY <1>0, <2>1, <2>2, MemoryPressed, ReplaceRequest
<1>2. ASSUME NEW e \in DOMAIN view.entries, RemoveEntry(e) PROVE MemoryStep
  <2>1. e \in Entries
    BY <1>0
  <2>2. MemoryRequest([to |-> "delete-entry", entry |-> e])
    BY <2>1 DEF MemoryRequest
  <2> QED
    BY <1>0, <1>2, <2>2, MemoryPressed DEF RemoveEntry
<1>3. ASSUME NEW e \in DOMAIN view.entries, SaveEntry(e) PROVE MemoryStep
  <2>1. e \in Entries /\ view.draft \in Decided
    BY <1>0, <1>3 DEF SaveEntry, MemoryShown
  <2> QED
    BY <1>0, <1>3, <2>1, MemoryPressed, ReplaceRequest DEF SaveEntry
<1>4. ASSUME NEW e \in DOMAIN view.entries, BeginEdit(e) PROVE MemoryStep
  <2>1. view' = [view EXCEPT !.editing = e, !.draft = view.entries[e], !.error = FALSE]
    BY <1>4 DEF BeginEdit
  <2>2. /\ DOMAIN view' = DOMAIN view /\ view'.entries = view.entries
        /\ view'.draft \in Decided /\ view'.box = view.box
    BY <1>0, <2>1 DEF MemoryShown, IsList
  <2>3. MemoryShown'
    BY <1>0, <2>2, StillShown
  <2> QED
    BY <1>4, <2>2, <2>3 DEF BeginEdit, Timer, MemoryStep
<1>5. ASSUME NEW e \in DOMAIN view.entries, PatchDraft(e) PROVE MemoryStep
  <2>1. e \in Entries /\ view.draft \in Decided
    BY <1>0, <1>5 DEF PatchDraft, MemoryShown
  <2>2. PICK m \in Matches : \E outcome \in Outcomes :
          view' = [view EXCEPT !.draft.match = m, !.draft.outcome = outcome]
    BY <1>5 DEF PatchDraft
  <2>3. PICK outcome \in Outcomes :
          view' = [view EXCEPT !.draft.match = m, !.draft.outcome = outcome]
    BY <2>2
  <2>4. DOMAIN view' = DOMAIN view /\ view'.entries = view.entries /\ view'.box = view.box
    BY <1>0, <2>3 DEF MemoryShown
  <2>5. view'.draft = [view.draft EXCEPT !.match = m, !.outcome = outcome]
    BY <1>0, <2>3 DEF MemoryShown
  <2>6. view'.draft \in Decided
    BY <2>1, <2>5 DEF Decided
  <2>7. MemoryShown'
    BY <1>0, <2>4, <2>6, StillShown
  <2> QED
    BY <1>5, <2>4, <2>7 DEF PatchDraft, Timer, MemoryStep
<1>6. CASE CancelEdit
  <2>1. view' = [view EXCEPT !.editing = "none", !.draft = Absent]
    BY <1>6 DEF CancelEdit
  <2>2. /\ DOMAIN view' = DOMAIN view /\ view'.entries = view.entries
        /\ view'.editing = "none" /\ view'.box = view.box
    BY <1>0, <2>1 DEF MemoryShown
  <2>3. MemoryShown'
    BY <1>0, <2>2, StillShown
  <2> QED
    BY <1>6, <2>2, <2>3 DEF CancelEdit, Timer, MemoryStep
<1>7. CASE ReloadMemory
  <2>1. view' = [view EXCEPT !.error = FALSE]
    BY <1>7 DEF ReloadMemory
  <2>2. /\ DOMAIN view' = DOMAIN view /\ view'.entries = view.entries
        /\ view'.editing = view.editing /\ view'.draft = view.draft /\ view'.box = view.box
    BY <1>0, <2>1 DEF MemoryShown
  <2>3. MemoryShown'
    BY <1>0, <2>2, StillShown
  <2> QED
    BY <1>7, <2>2, <2>3, MemoryHandlers DEF ReloadMemory, Begin, Timer, MemoryStep
<1>8. ASSUME NEW k \in Slots, EntryClicked(k) PROVE MemoryStep
  <2>1. \/ view' = view
        \/ view' = [view EXCEPT !.editing = "none", !.draft = Absent]
        \/ view' = [view EXCEPT !.busy = "none", !.error = TRUE]
    BY <1>8 DEF EntryClicked
  <2>2. /\ DOMAIN view' = DOMAIN view /\ view'.entries = view.entries /\ view'.box = view.box
        /\ \/ view'.editing = view.editing /\ view'.draft = view.draft
           \/ view'.editing = "none"
    BY <1>0, <2>1 DEF MemoryShown
  <2>3. MemoryShown'
    BY <1>0, <2>2, StillShown
  <2> QED
    BY <1>8, <2>2, <2>3, MemoryHandlers DEF EntryClicked, Becomes, Ends, MemoryStep
<1>9. ASSUME NEW k \in Slots, MemoryLoaded(k) PROVE MemoryStep
  BY <1>0, <1>9, MemoryArrives DEF MemoryInv, ListsInv
<1> QED
  BY <1>1, <1>2, <1>3, <1>4, <1>5, <1>6, <1>7, <1>8, <1>9 DEF Memory

\* At first no request is in progress.
LEMMA SomeAgree ==
  ASSUME api \in [entries : SomeEntries, writing : {{}}, tangled : {{}}]
  PROVE  MemoryStored(api)
<1>1. /\ DOMAIN api = {"entries", "writing", "tangled"}
      /\ api.entries \in SomeEntries /\ api.writing = {}
  OBVIOUS
<1>2. Agreeing(api)
  BY <1>1 DEF SomeEntries, Agreeing, Contradicts
<1> QED
  BY <1>1, <1>2 DEF SomeEntries, MemoryStored, Superseding, Unmoved, Entangled

LEMMA MemoryInitially ==
  ASSUME Init, page = "memory" PROVE MemoryInv
<1>1. MemoryInit /\ Opened({LoadMemory("open")})
  BY DEF Init
<1>2. run = [k \in Slots |-> IF k = 1 THEN LoadMemory("open") ELSE Idle] /\ adrift = {}
  BY <1>1 DEF Opened
<1>3. \A k \in Slots : run[k] \in {LoadMemory("open"), Idle}
  BY <1>2
<1>4. \A k \in Slots : MemoryHandler(run[k]) /\ LoadsMine(run[k])
  BY <1>3, MemoryHandlers
<1>5. MemoryStored(api)
  BY <1>1, SomeAgree DEF MemoryInit
<1>6. MemoryShown
  <2>1. PICK box : view = [box |-> box, entries |-> <<>>, editing |-> "none", draft |-> Absent,
                           busy |-> "none", error |-> FALSE]
    BY <1>1 DEF MemoryInit
  <2> QED
    BY <2>1, EmptyIsList, LearningAssumption DEF MemoryShown
<1> QED
  BY <1>2, <1>4, <1>5, <1>6 DEF MemoryInv, ListsInv, MemoryHandler, Slotted

\* One handler changes.
LEMMA ListsKept ==
  ASSUME ListsInv, adrift' = adrift, MemoryStored(api'),
         NEW k \in Slots, NEW h, MemoryHandler(h), run' = [run EXCEPT ![k] = h]
  PROVE  ListsInv' /\ run'[k] = h /\ \A j \in Slots \ {k} : run'[j] = run[j]
<1>1. Slotted' /\ run'[k] = h /\ \A j \in Slots \ {k} : run'[j] = run[j]
  BY OneSlot DEF ListsInv, MemoryHandler
<1>2. \A j \in Slots : MemoryHandler(run[j])
  BY DEF ListsInv
<1>3. \A j \in Slots : MemoryHandler(run'[j])
  BY <1>1, <1>2
<1> QED
  BY <1>1, <1>3 DEF ListsInv, MemoryHandler, MemoryStored

\* A list that is answered is kept, and what is loaded stays loaded.
LEMMA ListAnswered ==
  ASSUME ListsInv, adrift' = adrift, MemoryStored(api'),
         NEW k \in Slots, NEW q \in run[k].asked, NEW ok, NEW answer, NEW h,
         Answering(run[k], q, ok, answer, h), run' = [run EXCEPT ![k] = h],
         ok /\ q.to = "memory" => IsList(answer)
  PROVE  /\ ListsInv'
         /\ (\A j \in Slots : LoadsMine(run[j])) => (\A j \in Slots : LoadsMine(run'[j]))
<1>1. MemoryHandler(run[k])
  BY DEF ListsInv
<1>2. MemoryRequest(q) /\ DOMAIN run[k] = HandlerFields
  BY <1>1, IdleIs DEF MemoryHandler, Shaped
<1>3. /\ DOMAIN h = HandlerFields
      /\ h.of = run[k].of /\ h.settles = FALSE /\ h.asked = run[k].asked \ {q}
      /\ \/ /\ ok /\ h.failed = run[k].failed
            /\ h.got = Over(run[k].got, [r \in {q} |-> answer])
         \/ h.got = run[k].got /\ h.failed = TRUE
  BY <1>1, <1>2 DEF Answering, MemoryHandler
<1>4. /\ DOMAIN h.got \subseteq DOMAIN run[k].got \cup {q}
      /\ \A r \in DOMAIN h.got :
           \/ r \in DOMAIN run[k].got /\ h.got[r] = run[k].got[r]
           \/ ok /\ r = q /\ h.got[r] = answer
      /\ h.failed \/ DOMAIN h.got = DOMAIN run[k].got \cup {q}
  <2>1. CASE h.got = run[k].got /\ h.failed = TRUE
    BY <2>1
  <2>2. CASE ok /\ h.got = Over(run[k].got, [r \in {q} |-> answer])
    <3>1. /\ DOMAIN h.got = DOMAIN run[k].got \cup {q}
          /\ \A r \in DOMAIN run[k].got : h.got[r] = run[k].got[r]
          /\ q \notin DOMAIN run[k].got => h.got[q] = answer
      BY <2>2 DEF Over
    <3> QED
      BY <2>2, <3>1
  <2> QED
    BY <1>3, <2>1, <2>2
<1>5. MemoryHandler(h)
  <2>1. \A r \in DOMAIN h.got : r.to = "memory" => IsList(h.got[r])
    BY <1>1, <1>2, <1>4 DEF MemoryHandler
  <2>2. h.of = "load-lists" => \A r \in h.asked \cup DOMAIN h.got : r.to = "memory"
    BY <1>1, <1>2, <1>3, <1>4 DEF MemoryHandler
  <2>3. \A r \in h.asked : MemoryRequest(r)
    BY <1>1, <1>3 DEF MemoryHandler
  <2> QED
    BY <1>3, <2>1, <2>2, <2>3 DEF MemoryHandler, Shaped
<1>6. ListsInv' /\ run'[k] = h /\ \A j \in Slots \ {k} : run'[j] = run[j]
  BY <1>5, ListsKept
<1>7. LoadsMine(run[k]) => LoadsMine(h)
  BY <1>3, <1>4 DEF LoadsMine
<1> QED
  BY <1>6, <1>7

LEMMA ListsServed ==
  ASSUME ListsInv, page \in {"memory", "learning"}, NEW k \in Slots, Served(k) \/ Lost(k)
  PROVE  /\ ListsInv' /\ view' = view
         /\ (\A j \in Slots : LoadsMine(run[j])) => (\A j \in Slots : LoadsMine(run'[j]))
<1>1. Slotted /\ MemoryStored(api) /\ MemoryHandler(run[k])
  BY DEF ListsInv
<1>2. PICK q \in run[k].asked : \E o \in MemoryReply(q) : \E h : ServedAs(k, q, o, h)
  BY <1>1, AnsweredOrLost DEF Reply
<1>3. PICK o \in MemoryReply(q) : \E h : ServedAs(k, q, o, h)
  BY <1>2
<1>4. PICK h : ServedAs(k, q, o, h)
  BY <1>3
<1>5. MemoryStored(o.api) /\ (q.to = "memory" => IsList(o.answer))
  BY <1>1, <1>3, MemoryServes DEF MemoryHandler
<1>6. /\ run' = [run EXCEPT ![k] = h] /\ view' = view /\ adrift' = adrift
      /\ api' \in {api, o.api}
      /\ \/ Answering(run[k], q, o.ok, o.answer, h)
         \/ Answering(run[k], q, FALSE, Refused, h)
  BY <1>4 DEF ServedAs
<1>7. MemoryStored(api')
  BY <1>1, <1>5, <1>6
<1>8. CASE Answering(run[k], q, o.ok, o.answer, h)
  BY <1>5, <1>6, <1>7, <1>8, ListAnswered
<1>9. CASE Answering(run[k], q, FALSE, Refused, h)
  BY <1>6, <1>7, <1>9, ListAnswered
<1> QED
  BY <1>6, <1>8, <1>9

\* What the API does on its own: the page has the answer to a change at most.
LEMMA WriterAnswered ==
  ASSUME MemoryStored(api), NEW t \in api.writing, NEW ok, NEW answer,
         AnswerWriter(t, ok, answer)
  PROVE  \/ run' = run
         \/ \E k \in Slots : \E q \in run[k].asked :
              WriteAsked(k, q) /\ Receive(k, q, ok, answer)
<1>1. t.by \subseteq Slots
  BY DEF MemoryStored, Writings
<1> QED
  BY <1>1 DEF AnswerWriter

LEMMA ServerKeepsStored ==
  ASSUME MemoryStored(api), \A k \in Slots : MemoryHandler(run[k]), MemoryServer
  PROVE  /\ MemoryStored(api') /\ UNCHANGED <<view, adrift>>
         /\ \/ run' = run
            \/ \E k \in Slots : \E q \in run[k].asked : \E ok, answer :
                 WriteAsked(k, q) /\ Receive(k, q, ok, answer)
<1>0. /\ DOMAIN api = {"entries", "writing", "tangled"} /\ api.writing \subseteq Writings
      /\ \A f \in Entries : api.entries[f] \in Decided \cup {Absent}
  BY DEF MemoryStored
<1>1. CASE MemoryEvent
  <2>1. PICK e \in Entries :
          \/ \E decided \in Decided : BeginWriting({}, e, decided)
          \/ api' = [api EXCEPT !.entries[e] = Absent]
    BY <1>1 DEF MemoryEvent
  <2>2. MemoryStored(api')
    BY <2>1, WritingBegun, EntryDeleted
  <2> QED
    BY <1>1, <2>2 DEF MemoryEvent, Event, tab
<1>2. ASSUME NEW k \in Slots, LoadEntry(k)
      PROVE  /\ MemoryStored(api') /\ UNCHANGED <<view, adrift>>
             /\ \/ run' = run
                \/ \E q \in run[k].asked : \E ok, answer :
                     WriteAsked(k, q) /\ Receive(k, q, ok, answer)
  <2>1. PICK q \in run[k].asked :
          /\ WriteAsked(k, q)
          /\ \/ (\E e \in Entries : BeginWriting({k}, e, q.decided)) /\ run' = run
             \/ Receive(k, q, FALSE, Refused) /\ api' = api
    BY <1>2 DEF LoadEntry
  <2>2. q.decided \in Decided
    BY <1>2, <2>1 DEF MemoryHandler, MemoryRequest, WriteAsked
  <2>3. MemoryStored(api')
    BY <2>1, <2>2, WritingBegun
  <2> QED
    BY <1>2, <2>1, <2>3 DEF LoadEntry, Server
<1>3. ASSUME NEW k \in Slots, LoseEntry(k)
      PROVE  /\ MemoryStored(api') /\ UNCHANGED <<view, adrift>>
             /\ \E q \in run[k].asked : \E ok, answer :
                  WriteAsked(k, q) /\ Receive(k, q, ok, answer)
  <2> DEFINE mine == {t \in api.writing : k \in t.by}
  <2>1. PICK goingOn \in {{}, {[t EXCEPT !.by = {}] : t \in mine}} :
          api' = [api EXCEPT !.writing = (@ \ mine) \cup goingOn]
    BY <1>3 DEF LoseEntry
  <2>2. /\ DOMAIN api' = DOMAIN api /\ api'.entries = api.entries
        /\ api'.tangled = api.tangled /\ api'.writing = (api.writing \ mine) \cup goingOn
    BY <1>0, <2>1
  <2>3. \A t \in mine : /\ [t EXCEPT !.by = {}] \in Writings
                        /\ k \notin [t EXCEPT !.by = {}].by
    BY <1>0 DEF Writings
  <2>4. api'.writing \subseteq Writings
    BY <1>0, <2>2, <2>3
  <2>5. \A t \in mine : t \notin api'.writing
    BY <2>2, <2>3
  <2>6. \A t \in api'.writing : t \in api.writing \/
           \E u \in api.writing \ api'.writing : t = [u EXCEPT !.by = {}]
    BY <2>2, <2>5
  <2>7. MemoryStored(api')
    BY <2>2, <2>4, <2>6, WritingsLeft
  <2> QED
    BY <1>3, <2>7 DEF LoseEntry, Server
<1>4. ASSUME NEW t \in api.writing, WriteEntry(t)
      PROVE  /\ MemoryStored(api') /\ UNCHANGED <<view, adrift>>
             /\ \/ run' = run \/ AnswerWriter(t, FALSE, Refused)
  <2>1. CASE /\ t.seen # Absent => api.entries[t.entry] # Absent
             /\ api' = [api EXCEPT !.writing =
                          (@ \ {t}) \cup {[t EXCEPT !.to = Row(t), !.written = TRUE,
                                                    !.disabled = Superseded(t)]}]
             /\ run' = run
    BY <1>4, <2>1, RowWritten DEF WriteEntry, Server
  <2>2. CASE /\ api' = [api EXCEPT !.writing = @ \ {t}]
             /\ AnswerWriter(t, FALSE, Refused)
    <3>1. /\ DOMAIN api' = DOMAIN api /\ api'.entries = api.entries
          /\ api'.tangled = api.tangled /\ api'.writing = api.writing \ {t}
      BY <1>0, <2>2
    <3>2. MemoryStored(api')
      BY <1>0, <3>1, WritingsLeft
    <3> QED
      BY <1>4, <2>2, <3>2 DEF WriteEntry, Server
  <2> QED
    BY <1>4, <2>1, <2>2 DEF WriteEntry
<1>5. ASSUME NEW t \in api.writing, CommitEntry(t)
      PROVE  /\ MemoryStored(api') /\ UNCHANGED <<view, adrift>>
             /\ AnswerWriter(t, TRUE, t.entry)
  BY <1>5, WritingCommitted DEF CommitEntry, Server
<1> QED
  BY <1>1, <1>2, <1>3, <1>4, <1>5, WriterAnswered DEF MemoryServer

LEMMA ServerKeeps ==
  ASSUME ListsInv, MemoryServer
  PROVE  /\ ListsInv' /\ view' = view
         /\ (\A j \in Slots : LoadsMine(run[j])) => (\A j \in Slots : LoadsMine(run'[j]))
<1>1. MemoryStored(api) /\ Slotted /\ \A k \in Slots : MemoryHandler(run[k])
  BY DEF ListsInv
<1>2. /\ MemoryStored(api') /\ UNCHANGED <<view, adrift>>
      /\ \/ run' = run
         \/ \E k \in Slots : \E q \in run[k].asked : \E ok, answer :
              WriteAsked(k, q) /\ Receive(k, q, ok, answer)
  BY <1>1, ServerKeepsStored
<1>3. CASE run' = run
  <2>1. ListsInv'
    BY <1>1, <1>2, <1>3 DEF ListsInv, Slotted, MemoryHandler, MemoryStored
  <2> QED
    BY <1>2, <1>3, <2>1
<1>4. CASE run' # run
  <2>1. PICK k \in Slots : \E q \in run[k].asked : \E ok, answer :
          WriteAsked(k, q) /\ Receive(k, q, ok, answer)
    BY <1>2, <1>4
  <2>2. PICK q \in run[k].asked : \E ok, answer :
          WriteAsked(k, q) /\ Receive(k, q, ok, answer)
    BY <2>1
  <2>3. PICK ok, answer : WriteAsked(k, q) /\ Receive(k, q, ok, answer)
    BY <2>2
  <2>4. PICK h : Answering(run[k], q, ok, answer, h) /\ run' = [run EXCEPT ![k] = h]
    BY <1>1, <2>3, OneReceived
  <2>5. q.to # "memory"
    BY <2>3 DEF WriteAsked
  <2> QED
    BY <1>2, <2>4, <2>5, ListAnswered
<1> QED
  BY <1>3, <1>4

LEMMA MemoryStepsAll ==
  ASSUME Next, page = "memory", adrift = {}
  PROVE  Memory \/ \E k \in Slots : Served(k) \/ Lost(k)
BY DEF Next, Clusters, Processing, Review, Notifications, Account, Smtp, Learning, RulesPage,
       Structure, Onboarding, Forgotten

LEMMA LearningStepsAll ==
  ASSUME Next, page = "learning", adrift = {}
  PROVE  Learning \/ \E k \in Slots : Served(k) \/ Lost(k)
BY DEF Next, Clusters, Processing, Review, Notifications, Account, Smtp, Memory, RulesPage,
       Structure, Onboarding, Forgotten

LEMMA MemoryNext ==
  ASSUME MemoryInv, page = "memory", [Next]_vars
  PROVE  MemoryInv'
<1>0. ListsInv /\ MemoryShown /\ MemoryStored(api) /\ \A k \in Slots : LoadsMine(run[k])
  BY DEF MemoryInv, ListsInv
<1>1. ASSUME run' = run, adrift' = adrift, MemoryStored(api') PROVE ListsInv'
  BY <1>0, <1>1 DEF ListsInv, Slotted, MemoryHandler, MemoryStored
<1>2. ASSUME run' = run, view'.box = view.box PROVE \A k \in Slots : LoadsMine(run[k])'
  BY <1>0, <1>2 DEF LoadsMine, Listing
<1>3. CASE UNCHANGED vars
  <2>1. run' = run /\ adrift' = adrift /\ view' = view /\ MemoryStored(api')
    BY <1>0, <1>3 DEF vars, tab, MemoryStored
  <2> QED
    BY <1>0, <1>1, <1>2, <2>1 DEF MemoryInv, MemoryShown
<1>4. CASE Memory /\ ~ MemoryServer
  <2>1. MemoryStep
    BY <1>4, MemorySteps
  <2>2. adrift' = adrift /\ MemoryStored(api') /\ MemoryShown' /\ view'.box = view.box
    BY <1>0, <2>1 DEF MemoryStep, MemoryStored
  <2>3. CASE run' = run
    BY <1>1, <1>2, <2>2, <2>3 DEF MemoryInv
  <2>4. CASE run' # run
    <3>1. PICK k, h : /\ k \in Slots /\ MemoryHandler(h) /\ LoadsMine(h)
                      /\ run' = [run EXCEPT ![k] = h]
      BY <2>1, <2>4 DEF MemoryStep
    <3>2. ListsInv' /\ run'[k] = h /\ \A j \in Slots \ {k} : run'[j] = run[j]
      BY <1>0, <2>2, <3>1, ListsKept
    <3>3. \A j \in Slots : LoadsMine(run'[j])
      BY <1>0, <3>1, <3>2
    <3>4. \A j \in Slots : LoadsMine(run[j])'
      BY <2>2, <3>3 DEF LoadsMine, Listing
    <3> QED
      BY <2>2, <3>2, <3>4 DEF MemoryInv
  <2> QED
    BY <2>3, <2>4
<1>5. CASE MemoryServer
  <2>1. ListsInv' /\ view' = view /\ \A j \in Slots : LoadsMine(run'[j])
    BY <1>0, <1>5, ServerKeeps
  <2>2. \A j \in Slots : LoadsMine(run[j])'
    BY <2>1 DEF LoadsMine, Listing
  <2> QED
    BY <1>0, <2>1, <2>2 DEF MemoryInv, MemoryShown
<1>6. CASE \E k \in Slots : Served(k) \/ Lost(k)
  <2>1. PICK k \in Slots : Served(k) \/ Lost(k)
    BY <1>6
  <2>2. ListsInv' /\ view' = view /\ \A j \in Slots : LoadsMine(run'[j])
    BY <1>0, <2>1, ListsServed
  <2>3. \A j \in Slots : LoadsMine(run[j])'
    BY <2>2 DEF LoadsMine, Listing
  <2> QED
    BY <1>0, <2>2, <2>3 DEF MemoryInv, MemoryShown
<1> QED
  BY <1>3, <1>4, <1>5, <1>6, MemoryStepsAll DEF MemoryInv, ListsInv

-----------------------------------------------------------------------------
(* The learning page. *)

LearningStep ==
  /\ UNCHANGED <<api, adrift>>
  /\ LearningShown'
  /\ \/ run' = run
     \/ \E k \in Slots : \E h : MemoryHandler(h) /\ run' = [run EXCEPT ![k] = h]

LEMMA ListsAreShown ==
  ASSUME LearningShown, Slotted, NEW k \in Slots, MemoryHandler(run[k]),
         Answered(k, "load-lists"), LearningLoaded(k)
  PROVE  LearningShown'
<1> DEFINE Got(e) == {q \in DOMAIN run[k].got : e \in DOMAIN run[k].got[q]}
           list == [e \in {f \in Entries : Got(f) # {}} |->
                      run[k].got[CHOOSE q \in Got(e) : TRUE][e]]
<1>1. view' = [view EXCEPT !.loading = FALSE, !.entries = list]
  BY DEF LearningLoaded, Answered, Rejected, Running
<1>2. DOMAIN run[k] = HandlerFields
  BY IdleIs DEF Answered, Running, Slotted, Shaped
<1>3. \A q \in DOMAIN run[k].got : IsList(run[k].got[q])
  BY <1>2 DEF MemoryHandler, Answered, Running
<1>4. IsList(list)
  <2>1. ASSUME NEW e \in DOMAIN list PROVE list[e] \in Decided
    <3>1. PICK q \in Got(e) : list[e] = run[k].got[q][e]
      BY <2>1
    <3> QED
      BY <1>3, <3>1 DEF IsList
  <2> QED
    BY <2>1 DEF IsList
<1> HIDE DEF list
<1>5. DOMAIN view' = DOMAIN view /\ view'.entries = list
  BY <1>1 DEF LearningShown
<1> QED
  BY <1>4, <1>5 DEF LearningShown, IsList

LEMMA StillLearning ==
  ASSUME LearningShown, DOMAIN view' = DOMAIN view, view'.entries = view.entries
  PROVE  LearningShown'
BY DEF LearningShown, IsList

LEMMA LearningSteps ==
  ASSUME LearningInv, Learning, ~ MemoryServer PROVE LearningStep
<1>0. LearningShown /\ Slotted /\ \A k \in Slots : MemoryHandler(run[k])
  BY DEF LearningInv, ListsInv
<1>1. ASSUME NEW e, ToggleEnabled(e) PROVE LearningStep
  <2> DEFINE decided == [view.entries[e] EXCEPT !.enabled = ~ @]
  <2>1. e \in Entries /\ decided \in Decided
    BY <1>0, <1>1, ToggledIsDecided DEF ToggleEnabled, LearningShown, IsList
  <2>2. Begin(Handler("toggle", e,
                      {[to |-> "replace-entry", entry |-> e, decided |-> decided]}))
    BY <1>1 DEF ToggleEnabled
  <2> HIDE DEF decided
  <2>3. MemoryHandler(Handler("toggle", e,
                        {[to |-> "replace-entry", entry |-> e, decided |-> decided]}))
    BY <2>1, MemoryButtons, ReplaceRequest
  <2>4. LearningShown'
    BY <1>0, <1>1, StillLearning DEF ToggleEnabled
  <2> QED
    BY <1>1, <2>2, <2>3, <2>4 DEF ToggleEnabled, Begin, Click, LearningStep
<1>2. CASE OpenModal \/ CloseModal
  <2>1. DOMAIN view' = DOMAIN view /\ view'.entries = view.entries
    BY <1>0, <1>2 DEF OpenModal, CloseModal, LearningShown
  <2> QED
    BY <1>0, <1>2, <2>1, StillLearning DEF OpenModal, CloseModal, Click, Timer, LearningStep
<1>3. CASE SubmitRule
  <2>1. view' = [view EXCEPT !.busy = TRUE]
    BY <1>3 DEF SubmitRule
  <2>2. DOMAIN view' = DOMAIN view /\ view'.entries = view.entries
    BY <1>0, <2>1 DEF LearningShown
  <2>3. PICK m \in Matches, outcome \in Outcomes :
          Begin(Handler("create-rule", view.modal,
                  {[to |-> "create-entry",
                    decided |-> [match |-> m, outcome |-> outcome, enabled |-> TRUE]]}))
    BY <1>3 DEF SubmitRule
  <2>4. [match |-> m, outcome |-> outcome, enabled |-> TRUE] \in Decided
    BY DEF Decided
  <2>5. MemoryRequest([to |-> "create-entry",
                       decided |-> [match |-> m, outcome |-> outcome, enabled |-> TRUE]])
    BY <2>4 DEF MemoryRequest
  <2>6. MemoryHandler(Handler("create-rule", view.modal,
                  {[to |-> "create-entry",
                    decided |-> [match |-> m, outcome |-> outcome, enabled |-> TRUE]]}))
    BY <2>5, MemoryButtons
  <2>7. LearningShown'
    BY <1>0, <2>2, StillLearning
  <2> QED
    BY <1>3, <2>3, <2>6, <2>7 DEF SubmitRule, Begin, Click, LearningStep
<1>4. ASSUME NEW k \in Slots, LearningLoaded(k) PROVE LearningStep
  <2>1. LearningShown'
    <3>1. CASE Answered(k, "load-lists")
      BY <1>0, <1>4, <3>1, ListsAreShown
    <3>2. CASE ~ Answered(k, "load-lists")
      <4>1. view' = view \/ view' = [view EXCEPT !.loading = FALSE]
        BY <1>4, <3>2 DEF LearningLoaded
      <4>2. DOMAIN view' = DOMAIN view /\ view'.entries = view.entries
        BY <1>0, <4>1 DEF LearningShown
      <4> QED
        BY <1>0, <4>2, StillLearning
    <3> QED
      BY <3>1, <3>2
  <2> QED
    BY <1>4, <2>1, MemoryHandlers DEF LearningLoaded, Becomes, Ends, LearningStep
<1>5. ASSUME NEW k \in Slots, LearningClicked(k) PROVE LearningStep
  <2>1. \/ view' = view
        \/ view' = [view EXCEPT !.loading = TRUE]
        \/ view' = [view EXCEPT !.loading = TRUE, !.open = FALSE]
        \/ \E busy : view' = [view EXCEPT !.busy = busy]
    BY <1>5 DEF LearningClicked
  <2>2. DOMAIN view' = DOMAIN view /\ view'.entries = view.entries
    BY <1>0, <2>1 DEF LearningShown
  <2>3. LearningShown'
    BY <1>0, <2>2, StillLearning
  <2> QED
    BY <1>5, <2>3, MemoryHandlers DEF LearningClicked, Becomes, Ends, LearningStep
<1> QED
  BY <1>1, <1>2, <1>3, <1>4, <1>5 DEF Learning

LEMMA LearningInitially ==
  ASSUME Init, page = "learning" PROVE LearningInv
<1>1. LearningInit /\ Opened({LoadLearning})
  BY DEF Init
<1>2. run = [k \in Slots |-> IF k = 1 THEN LoadLearning ELSE Idle] /\ adrift = {}
  BY <1>1 DEF Opened
<1>3. \A k \in Slots : run[k] \in {LoadLearning, Idle}
  BY <1>2
<1>4. \A k \in Slots : MemoryHandler(run[k])
  BY <1>3, MemoryHandlers
<1>5. MemoryStored(api)
  BY <1>1, SomeAgree DEF LearningInit
<1>6. LearningShown
  BY <1>1, EmptyIsList DEF LearningInit, LearningShown
<1> QED
  BY <1>2, <1>4, <1>5, <1>6 DEF LearningInv, ListsInv, MemoryHandler, Slotted

LEMMA LearningNext ==
  ASSUME LearningInv, page = "learning", [Next]_vars
  PROVE  LearningInv'
<1>0. ListsInv /\ LearningShown /\ MemoryStored(api)
  BY DEF LearningInv, ListsInv
<1>1. ASSUME run' = run, adrift' = adrift, MemoryStored(api') PROVE ListsInv'
  BY <1>0, <1>1 DEF ListsInv, Slotted, MemoryHandler, MemoryStored
<1>2. CASE UNCHANGED vars
  <2>1. run' = run /\ adrift' = adrift /\ view' = view /\ MemoryStored(api')
    BY <1>0, <1>2 DEF vars, tab, MemoryStored
  <2> QED
    BY <1>0, <1>1, <2>1 DEF LearningInv, LearningShown
<1>3. CASE Learning /\ ~ MemoryServer
  <2>1. LearningStep
    BY <1>3, LearningSteps
  <2>2. adrift' = adrift /\ MemoryStored(api') /\ LearningShown'
    BY <1>0, <2>1 DEF LearningStep, MemoryStored
  <2>3. CASE run' = run
    BY <1>1, <2>2, <2>3 DEF LearningInv
  <2>4. CASE run' # run
    <3>1. PICK k, h : k \in Slots /\ MemoryHandler(h) /\ run' = [run EXCEPT ![k] = h]
      BY <2>1, <2>4 DEF LearningStep
    <3> QED
      BY <1>0, <2>2, <3>1, ListsKept DEF LearningInv
  <2> QED
    BY <2>3, <2>4
<1>4. CASE MemoryServer
  <2>1. ListsInv' /\ view' = view
    BY <1>0, <1>4, ServerKeeps
  <2> QED
    BY <1>0, <2>1 DEF LearningInv, LearningShown
<1>5. CASE \E k \in Slots : Served(k) \/ Lost(k)
  <2>1. PICK k \in Slots : Served(k) \/ Lost(k)
    BY <1>5
  <2>2. ListsInv' /\ view' = view
    BY <1>0, <2>1, ListsServed
  <2> QED
    BY <1>0, <2>2 DEF LearningInv, LearningShown
<1> QED
  BY <1>2, <1>3, <1>4, <1>5, LearningStepsAll DEF LearningInv, ListsInv

\* Enabled entries with the same match never contradict each other, whatever stale entries
\* the memory and the learning page resend, and wherever other requests for other entries
\* have got to, unless requests for the two, or two for one of them, were in progress
\* together: their transactions take no lock on what they do not write
\* (repositories/decision_memory.py).
THEOREM EntriesAgree == Spec => []MemoryAgrees
<1> DEFINE I == (page = "memory" => MemoryInv) /\ (page = "learning" => LearningInv)
<1>1. Init => I
  BY MemoryInitially, LearningInitially
<1>2. I /\ [Next]_vars => I'
  BY MemoryNext, LearningNext, PageStays
<1>3. I => MemoryAgrees
  BY DEF MemoryInv, LearningInv, ListsInv, MemoryStored, Agreeing, Contradicts, MemoryAgrees
<1> QED
  BY <1>1, <1>2, <1>3, PTL DEF Spec

-----------------------------------------------------------------------------
(* The structure pages: what is mapped exists, and only what was approved is    *)
(* created.                                                                     *)

AllMapped(items) == \A id \in DOMAIN items : items[id] \in Mapped

ApplyFields == {"by", "box", "items", "routes", "phase", "folders", "todo"}

\* What has been found and made for an apply that has listed the folders.
Found(a, folders) ==
  a.box \in Managed =>
    /\ a.folders \subseteq folders[a.box]
    /\ \A id \in DOMAIN a.items :
         \/ id \in a.todo
         \/ a.items[id].name \in folders[a.box]
         \/ Lower[a.items[id].name] \in InLower(a.folders)

\* Every reuse was found, and only what was not found is to be created.
Checked(a) ==
  /\ \A id \in a.todo : id \in DOMAIN a.items /\ Lower[a.items[id].name] \notin InLower(a.folders)
  /\ \A id \in DOMAIN a.items :
       a.items[id].action = "reuse" => Lower[a.items[id].name] \in InLower(a.folders)

SoundApply(a, folders) ==
  /\ DOMAIN a = ApplyFields
  /\ AllMapped(a.items)
  /\ a.phase = "listed" => Found(a, folders) /\ Checked(a)

Exists(config, folders) ==
  \A box \in Managed : \A id \in DOMAIN config[box].items :
    config[box].items[id] \in folders[box]

StructureStored(a) ==
  /\ DOMAIN a = {"folders", "applies", "config"}
  /\ a.folders \in [Managed -> SUBSET Names]
  /\ DOMAIN a.config = Managed
  /\ Exists(a.config, a.folders)
  /\ \A b \in a.applies : SoundApply(b, a.folders)

\* Folders that come harm nothing.
LEMMA FoldersCome ==
  ASSUME NEW a, NEW folders, NEW more, SoundApply(a, folders),
         \A box \in Managed : folders[box] \subseteq more[box]
  PROVE  SoundApply(a, more)
<1>1. a.phase = "listed" => Found(a, more)
  BY DEF SoundApply, Found
<1> QED
  BY <1>1 DEF SoundApply

\* The applies that are under way change, and nothing else.
LEMMA AppliesChange ==
  ASSUME NEW a, StructureStored(a), NEW applies, NEW b, b = [a EXCEPT !.applies = applies],
         \A c \in applies : c \in a.applies \/ SoundApply(c, a.folders)
  PROVE  StructureStored(b) /\ b.folders = a.folders /\ b.config = a.config /\ b.applies = applies
<1>1. DOMAIN b = DOMAIN a /\ b.folders = a.folders /\ b.config = a.config /\ b.applies = applies
  BY DEF StructureStored
<1> QED
  BY <1>1 DEF StructureStored

\* An apply that begins, or that has ended.
LEMMA AppliesBegin ==
  ASSUME NEW by, NEW box, NEW items, NEW routes, NEW folders, AllMapped(items)
  PROVE  SoundApply(Apply(by, box, items, routes), folders)
BY DEF Apply, SoundApply, ApplyFields

LEMMA AppliesEnd ==
  ASSUME NEW a, NEW folders, SoundApply(a, folders), NEW phase, phase # "listed"
  PROVE  SoundApply([a EXCEPT !.phase = phase, !.folders = {}, !.todo = {}], folders)
BY DEF SoundApply, ApplyFields

LEMMA ApplyEnds ==
  ASSUME NEW a \in api.applies, NEW b, StructureStored(b), SoundApply(a, b.folders),
         NEW phase, phase # "listed", Ended(a, phase, b)
  PROVE  StructureStored(api') /\ api'.folders = b.folders
<1> DEFINE done == [a EXCEPT !.phase = phase, !.folders = {}, !.todo = {}]
<1>1. SoundApply(done, b.folders)
  BY AppliesEnd
<1> HIDE DEF done
<1>2. PICK c : /\ c = b \/ c = [b EXCEPT !.applies = @ \cup {done}]
               /\ api' = [c EXCEPT !.applies = @ \ {a}]
  BY DEF Ended, ApplyStep, done
<1>3. StructureStored(c) /\ c.folders = b.folders
  <2>1. CASE c = b
    BY <2>1
  <2>2. CASE c = [b EXCEPT !.applies = @ \cup {done}]
    <3>1. c = [b EXCEPT !.applies = b.applies \cup {done}]
      BY <2>2 DEF StructureStored
    <3> QED
      BY <1>1, <3>1, AppliesChange
  <2> QED
    BY <1>2, <2>1, <2>2
<1>4. api' = [c EXCEPT !.applies = c.applies \ {a}]
  BY <1>2, <1>3 DEF StructureStored
<1> QED
  BY <1>3, <1>4, AppliesChange

\* The name that is stored is one that the mailbox has.
LEMMA StoredNameIs ==
  ASSUME NEW name, NEW names
  PROVE  StoredName(name, names) \in names \/
         (StoredName(name, names) = name /\ Lower[name] \notin InLower(names))
BY DEF StoredName, InLower

LEMMA Listing1 ==
  ASSUME StructureStored(api), NEW a \in api.applies, ApplyListed(a)
  PROVE  StructureStored(api') /\ api'.folders = api.folders
<1>0. SoundApply(a, api.folders)
  BY DEF StructureStored
<1> DEFINE folders == api.folders[a.box]
<1>1. CASE MissingReuse(a, folders) # {}
  <2>1. Ended(a, "refused", api)
    BY <1>1 DEF ApplyListed
  <2> QED
    BY <1>0, <2>1, ApplyEnds
<1>2. CASE MissingReuse(a, folders) = {}
  <2> DEFINE todo == {id \in DOMAIN a.items : Lower[a.items[id].name] \notin InLower(folders)}
             b == [a EXCEPT !.phase = "listed", !.folders = folders, !.todo = todo]
  <2>1. Onward(a, b)
    BY <1>2 DEF ApplyListed
  <2>2. /\ DOMAIN b = ApplyFields /\ b.box = a.box /\ b.items = a.items
        /\ b.folders = folders /\ b.todo = todo
    BY <1>0 DEF SoundApply, ApplyFields
  <2>3. Checked(b)
    BY <1>2, <2>2 DEF Checked, MissingReuse
  <2>4. Found(b, api.folders)
    BY <2>2 DEF Found
  <2>5. SoundApply(b, api.folders)
    BY <1>0, <2>2, <2>3, <2>4 DEF SoundApply
  <2> HIDE DEF b
  <2>6. PICK c : c = [api EXCEPT !.applies = @ \cup {b}] /\ api' = [c EXCEPT !.applies = @ \ {a}]
    BY <2>1 DEF Onward, ApplyStep
  <2>7. c = [api EXCEPT !.applies = api.applies \cup {b}]
    BY <2>6 DEF StructureStored
  <2>8. StructureStored(c) /\ c.folders = api.folders
    BY <2>5, <2>7, AppliesChange
  <2>9. api' = [c EXCEPT !.applies = c.applies \ {a}]
    BY <2>6, <2>8 DEF StructureStored
  <2> QED
    BY <2>8, <2>9, AppliesChange
<1> QED
  BY <1>1, <1>2

\* A folder is created for an item that was to be created.
LEMMA Creating ==
  ASSUME StructureStored(api), NEW a \in api.applies, FolderCreated(a)
  PROVE  /\ StructureStored(api')
         /\ \A box \in Managed : \A n \in api'.folders[box] \ api.folders[box] :
              /\ a.box = box
              /\ \E id \in DOMAIN a.items : a.items[id] = [name |-> n, action |-> "create"]
              /\ \A id \in DOMAIN a.items :
                   a.items[id].action = "reuse" =>
                     Lower[a.items[id].name] \in InLower(a.folders)
<1>0. /\ SoundApply(a, api.folders) /\ a.phase = "listed"
      /\ api.folders \in [Managed -> SUBSET Names]
  BY DEF StructureStored, FolderCreated
<1>1. PICK id \in a.todo :
        ApplyStep(a, [api EXCEPT !.folders[a.box] = @ \cup {a.items[id].name},
                                 !.applies = @ \cup {[a EXCEPT !.todo = @ \ {id}]}])
  BY DEF FolderCreated
<1> DEFINE name == a.items[id].name
           b == [a EXCEPT !.todo = @ \ {id}]
<1>2. /\ id \in DOMAIN a.items /\ a.items[id] \in Mapped
      /\ Lower[name] \notin InLower(a.folders)
  BY <1>0, <1>1 DEF SoundApply, Checked, AllMapped
<1>3. name \in Names /\ a.items[id] = [name |-> name, action |-> "create"]
  <2>1. a.items[id].action # "reuse"
    BY <1>0, <1>2 DEF SoundApply, Checked
  <2> QED
    BY <1>2, <2>1 DEF Mapped
<1>4. /\ DOMAIN b = ApplyFields /\ b.box = a.box /\ b.items = a.items /\ b.phase = "listed"
      /\ b.folders = a.folders /\ b.todo = a.todo \ {id}
  BY <1>0 DEF SoundApply, ApplyFields
<1> HIDE DEF b
<1>5. PICK c : /\ c = [api EXCEPT !.folders[a.box] = @ \cup {name},
                                  !.applies = @ \cup {b}]
               /\ api' = [c EXCEPT !.applies = @ \ {a}]
  BY <1>1 DEF ApplyStep, b
<1>6. /\ DOMAIN c = DOMAIN api /\ c.config = api.config /\ c.applies = api.applies \cup {b}
      /\ c.folders = [api.folders EXCEPT ![a.box] = @ \cup {name}]
  BY <1>5 DEF StructureStored
<1> HIDE DEF name
<1>7. /\ c.folders \in [Managed -> SUBSET Names]
      /\ \A box \in Managed :
           c.folders[box] = IF box = a.box THEN api.folders[box] \cup {name} ELSE api.folders[box]
  BY <1>0, <1>3, <1>6
<1>8. SoundApply(b, c.folders)
  <2>1. Checked(b)
    BY <1>0, <1>4 DEF SoundApply, Checked
  <2>2. Found(b, c.folders)
    BY <1>0, <1>4, <1>7 DEF SoundApply, Found, name
  <2> QED
    BY <1>0, <1>4, <2>1, <2>2 DEF SoundApply
<1>9. \A d \in api.applies : SoundApply(d, c.folders)
  <2>1. \A box \in Managed : api.folders[box] \subseteq c.folders[box]
    BY <1>7
  <2>2. \A d \in api.applies : SoundApply(d, api.folders)
    BY DEF StructureStored
  <2> QED
    BY <2>1, <2>2, FoldersCome
<1>10. Exists(c.config, c.folders)
  BY <1>6, <1>7 DEF StructureStored, Exists
<1>11. StructureStored(c)
  BY <1>6, <1>7, <1>8, <1>9, <1>10 DEF StructureStored
<1>12. api' = [c EXCEPT !.applies = c.applies \ {a}]
  BY <1>5, <1>11 DEF StructureStored
<1>13. StructureStored(api') /\ api'.folders = c.folders
  BY <1>11, <1>12, AppliesChange
<1>14. \A box \in Managed : \A n \in api'.folders[box] \ api.folders[box] : a.box = box /\ n = name
  BY <1>7, <1>13
<1> QED
  BY <1>0, <1>2, <1>3, <1>13, <1>14 DEF SoundApply, Checked

LEMMA Storing1 ==
  ASSUME StructureStored(api), NEW a \in api.applies, ApplyStored(a)
  PROVE  StructureStored(api') /\ api'.folders = api.folders
<1> DEFINE items == [id \in DOMAIN a.items |-> StoredName(a.items[id].name, a.folders)]
           config == [items |-> items, routes |-> a.routes]
           b == [api EXCEPT !.config[a.box] = config]
<1>0. /\ SoundApply(a, api.folders) /\ a.phase = "listed" /\ a.todo = {}
      /\ Ended(a, "stored", b)
  BY DEF StructureStored, ApplyStored
<1>1. DOMAIN items = DOMAIN a.items /\ config.items = items
  OBVIOUS
<1>2. a.box \in Managed => \A id \in DOMAIN items : items[id] \in api.folders[a.box]
  <2> SUFFICES ASSUME a.box \in Managed, NEW id \in DOMAIN a.items
               PROVE  StoredName(a.items[id].name, a.folders) \in api.folders[a.box]
    OBVIOUS
  <2> QED
    BY <1>0, StoredNameIs DEF SoundApply, Found
<1> HIDE DEF config, items
<1>3. /\ DOMAIN b = DOMAIN api /\ b.folders = api.folders /\ b.applies = api.applies
      /\ b.config = [api.config EXCEPT ![a.box] = config]
  BY DEF StructureStored
<1> HIDE DEF b
<1>4. DOMAIN b.config = Managed /\ Exists(b.config, b.folders)
  BY <1>1, <1>2, <1>3 DEF StructureStored, Exists
<1>5. StructureStored(b)
  BY <1>3, <1>4 DEF StructureStored
<1>6. StructureStored(api') /\ api'.folders = b.folders
  BY <1>0, <1>3, <1>5, ApplyEnds
<1> QED
  BY <1>3, <1>6

LEMMA Failing ==
  ASSUME StructureStored(api), NEW a \in api.applies, ApplyFailed(a)
  PROVE  StructureStored(api') /\ api'.folders = api.folders
<1>1. SoundApply(a, api.folders)
  BY DEF StructureStored
<1> QED
  BY <1>1, ApplyEnds DEF ApplyFailed

\* Requests and answers of the pages.
StructureRequest(q) ==
  /\ q.to \in {"mailboxes", "current", "proposal", "apply-structure"}
  /\ q.to \in {"current", "proposal"} => q.box \in Managed
  /\ q.to = "apply-structure" => AllMapped(q.items)

NamedItems(items) == \A id \in DOMAIN items : items[id] \in Names

Usable(q, answer) ==
  /\ q.to = "current" => NamedItems(answer.items)
  /\ q.to = "proposal" => AllMapped(answer.items)

LEMMA StructureServes ==
  ASSUME StructureStored(api), NEW q, StructureRequest(q), NEW o \in StructureReply(q)
  PROVE  /\ StructureStored(o.api) /\ o.api.folders = api.folders
         /\ Usable(q, o.answer)
<1>1. CASE q.to = "mailboxes"
  <2>1. o = Ok(api, Managed)
    BY <1>1 DEF StructureReply
  <2>2. o.api = api
    BY <2>1, OkIs
  <2> QED
    BY <1>1, <2>2 DEF Usable
<1>2. CASE q.to = "current"
  <2>1. o = Ok(api, api.config[q.box])
    BY <1>2 DEF StructureReply
  <2>2. o.api = api /\ o.answer = api.config[q.box]
    BY <2>1 DEF Ok
  <2>3. q.box \in Managed
    BY <1>2 DEF StructureRequest
  <2>4. NamedItems(api.config[q.box].items)
    BY <2>3 DEF StructureStored, Exists, NamedItems
  <2> QED
    BY <1>2, <2>2, <2>4 DEF Usable
<1>3. CASE q.to = "proposal"
  <2>1. PICK p \in Suggested(q.box) : o = Ok(api, p)
    BY <1>3 DEF StructureReply
  <2>2. o.api = api /\ o.answer = p
    BY <2>1, OkIs
  <2>3. p.items \in [FolderIds -> Mapped]
    BY DEF Suggested
  <2> QED
    BY <1>3, <2>2, <2>3 DEF Usable, AllMapped
<1>4. CASE q.to = "apply-structure" /\ o = No
  BY <1>4, NoIs DEF Usable
<1>5. CASE q.to = "apply-structure" /\ o # No
  <2>1. PICK a : o = [api |-> [api EXCEPT !.applies = @ \ {a}],
                      ok |-> a.phase = "stored", answer |-> a.phase]
    BY <1>5 DEF StructureReply
  <2>2. o.api = [api EXCEPT !.applies = api.applies \ {a}]
    BY <2>1 DEF StructureStored
  <2>3. StructureStored(o.api) /\ o.api.folders = api.folders
    BY <2>2, AppliesChange
  <2> QED
    BY <1>5, <2>3 DEF Usable
<1> QED
  BY <1>1, <1>2, <1>3, <1>4, <1>5 DEF StructureRequest

\* A colleague, or a mail client, changes the mailbox: what is mapped stays.
LEMMA StructureEvents ==
  ASSUME StructureStored(api), StructureEvent
  PROVE  StructureStored(api')
<1>0. /\ DOMAIN api = {"folders", "applies", "config"} /\ Exists(api.config, api.folders)
      /\ api.folders \in [Managed -> SUBSET Names] /\ DOMAIN api.config = Managed
      /\ \A b \in api.applies : SoundApply(b, api.folders)
  BY DEF StructureStored
<1>1. ASSUME NEW box \in Managed, NEW items \in [FolderIds -> Mapped],
             api' = [api EXCEPT !.applies = @ \cup {Apply(Colleague, box, items, {})}]
      PROVE  StructureStored(api')
  <2> DEFINE b == Apply(Colleague, box, items, {})
  <2>1. SoundApply(b, api.folders)
    BY AppliesBegin DEF AllMapped
  <2> HIDE DEF b
  <2>2. api' = [api EXCEPT !.applies = api.applies \cup {b}]
    BY <1>0, <1>1 DEF b
  <2> QED
    BY <2>1, <2>2, AppliesChange
<1>2. ASSUME NEW box \in Managed, NEW n \in Names,
             api' = [api EXCEPT !.folders[box] = @ \cup {n}]
      PROVE  StructureStored(api')
  <2>1. /\ DOMAIN api' = DOMAIN api /\ api'.config = api.config /\ api'.applies = api.applies
        /\ api'.folders = [api.folders EXCEPT ![box] = @ \cup {n}]
    BY <1>0, <1>2
  <2>2. /\ api'.folders \in [Managed -> SUBSET Names]
        /\ \A c \in Managed : api.folders[c] \subseteq api'.folders[c]
    BY <1>0, <2>1
  <2>3. \A b \in api.applies : SoundApply(b, api'.folders)
    BY <1>0, <2>2, FoldersCome
  <2> QED
    BY <1>0, <2>1, <2>2, <2>3 DEF StructureStored, Exists
<1>3. ASSUME NEW box \in Managed, NEW n \in api.folders[box], api.applies = {},
             \A id \in DOMAIN api.config[box].items : api.config[box].items[id] # n,
             api' = [api EXCEPT !.folders[box] = @ \ {n}]
      PROVE  StructureStored(api')
  <2>1. /\ DOMAIN api' = DOMAIN api /\ api'.config = api.config /\ api'.applies = {}
        /\ api'.folders = [api.folders EXCEPT ![box] = @ \ {n}]
    BY <1>0, <1>3
  <2>2. /\ api'.folders \in [Managed -> SUBSET Names]
        /\ \A c \in Managed \ {box} : api'.folders[c] = api.folders[c]
        /\ api'.folders[box] = api.folders[box] \ {n}
    BY <1>0, <2>1
  <2>3. Exists(api'.config, api'.folders)
    BY <1>0, <1>3, <2>1, <2>2 DEF Exists
  <2> QED
    BY <1>0, <2>1, <2>2, <2>3 DEF StructureStored
<1>4. PICK box \in Managed :
       \/ \E items \in [FolderIds -> Mapped] :
            api' = [api EXCEPT !.applies = @ \cup {Apply(Colleague, box, items, {})}]
       \/ \E n \in Names : api' = [api EXCEPT !.folders[box] = @ \cup {n}]
       \/ \E n \in api.folders[box] :
            /\ api.applies = {}
            /\ \A id \in DOMAIN api.config[box].items :
                 api.config[box].items[id] # n
            /\ api' = [api EXCEPT !.folders[box] = @ \ {n}]
  BY DEF StructureEvent
<1> QED
  BY <1>1, <1>2, <1>3, <1>4

-----------------------------------------------------------------------------
(* Drafts. *)

IsDraft(d) == d = NoDraft \/ (DOMAIN d = {"box", "items", "routes"} /\ AllMapped(d.items))

Asks(h, q) == h.failed \/ q \in h.asked \cup DOMAIN h.got

StructureHandler(h) ==
  /\ Shaped(h)
  /\ DOMAIN h = HandlerFields =>
       /\ h.settles = FALSE
       /\ \A q \in h.asked : StructureRequest(q)
       /\ \A q \in DOMAIN h.got : Usable(q, h.got[q])
       /\ h.of = "load-current" => Asks(h, [to |-> "current", box |-> h.arg])
       /\ h.of = "discover" =>
            Asks(h, [to |-> "proposal", box |-> h.arg.box]) /\ IsDraft(h.arg.saved)

StructureShown ==
  /\ DOMAIN view = {"at", "box", "draft", "saved", "loading", "scanning", "busy", "applied",
                    "stored", "tries"}
  /\ view.at \in {"folders", "discovery", "mapping", "review"}
  /\ view.at # "review" => view.box \in Managed \cup {"none"}
  /\ IsDraft(view.draft) /\ IsDraft(view.saved)
  /\ DOMAIN view.stored = Managed /\ \A box \in Managed : IsDraft(view.stored[box])

StructureRun ==
  /\ DOMAIN run = Slots
  /\ \A k \in Slots : StructureHandler(run[k])
  /\ view.at = "review" => \A k \in Slots : run[k].of # "load-list"

StructureInv ==
  /\ adrift = {}
  /\ moves \in Nat
  /\ StructureRun
  /\ StructureStored(api)
  /\ StructureShown

LEMMA NewStructureHandler ==
  ASSUME NEW of, NEW arg, NEW q, StructureRequest(q),
         of = "load-current" => q = [to |-> "current", box |-> arg],
         of = "discover" => q = [to |-> "proposal", box |-> arg.box] /\ IsDraft(arg.saved)
  PROVE  StructureHandler(Handler(of, arg, {q})) /\ Handler(of, arg, {q}).of = of
<1> DEFINE h == Handler(of, arg, {q})
<1>1. /\ DOMAIN h = HandlerFields /\ h.of = of /\ h.arg = arg /\ h.asked = {q}
      /\ h.settles = FALSE /\ h.got = <<>>
  BY DEF Handler, HandlerFields
<1>2. DOMAIN h.got = {}
  BY <1>1
<1> HIDE DEF h
<1>3. StructureHandler(h)
  BY <1>1, <1>2 DEF StructureHandler, Shaped, Asks
<1> QED
  BY <1>1, <1>3 DEF h

LEMMA StructureHandlers ==
  /\ StructureHandler(Idle) /\ Idle.of = "idle"
  /\ \A box : StructureHandler(LoadList(box)) /\ LoadList(box).of = "load-list"
  /\ \A box \in Managed :
       StructureHandler(LoadCurrent(box)) /\ LoadCurrent(box).of = "load-current"
  /\ \A box \in Managed : \A saved : IsDraft(saved) =>
       StructureHandler(Discovery(box, saved)) /\ Discovery(box, saved).of = "discover"
<1>1. StructureHandler(Idle) /\ Idle.of = "idle"
  <2>1. DOMAIN Idle # HandlerFields
    BY DEF Idle, HandlerFields
  <2> QED
    BY <2>1, IdleIs DEF StructureHandler
<1>2. ASSUME NEW box PROVE StructureHandler(LoadList(box)) /\ LoadList(box).of = "load-list"
  <2>1. StructureRequest([to |-> "mailboxes"])
    BY DEF StructureRequest
  <2> QED
    BY <2>1, NewStructureHandler DEF LoadList
<1>3. ASSUME NEW box \in Managed
      PROVE  StructureHandler(LoadCurrent(box)) /\ LoadCurrent(box).of = "load-current"
  <2>1. StructureRequest([to |-> "current", box |-> box])
    BY DEF StructureRequest
  <2> QED
    BY <2>1, NewStructureHandler DEF LoadCurrent
<1>4. ASSUME NEW box \in Managed, NEW saved, IsDraft(saved)
      PROVE  StructureHandler(Discovery(box, saved)) /\ Discovery(box, saved).of = "discover"
  <2>1. StructureRequest([to |-> "proposal", box |-> box])
    BY DEF StructureRequest
  <2>2. [box |-> box, saved |-> saved].box = box /\ [box |-> box, saved |-> saved].saved = saved
    OBVIOUS
  <2> QED
    BY <1>4, <2>1, <2>2, NewStructureHandler DEF Discovery
<1> QED
  BY <1>1, <1>2, <1>3, <1>4

\* Drafts that are made of what is stored, or of what is proposed.
LEMMA CurrentIsDraft ==
  ASSUME NEW box, NEW config, NamedItems(config.items)
  PROVE  IsDraft(CurrentDraft(box, config))
<1>1. CASE config = NotConfigured
  BY <1>1 DEF CurrentDraft, IsDraft
<1>2. CASE config # NotConfigured
  <2> DEFINE items == [id \in DOMAIN config.items |->
                         [name |-> config.items[id], action |-> "reuse"]]
  <2>1. CurrentDraft(box, config) = [box |-> box, routes |-> config.routes, items |-> items]
    BY <1>2 DEF CurrentDraft
  <2>2. AllMapped(items)
    BY DEF AllMapped, NamedItems, Mapped
  <2> HIDE DEF items
  <2> QED
    BY <2>1, <2>2 DEF IsDraft
<1> QED
  BY <1>1, <1>2

LEMMA MergedIsDraft ==
  ASSUME NEW box, NEW proposal, NEW saved, IsDraft(saved), AllMapped(proposal.items)
  PROVE  IsDraft(Merged(box, proposal, saved))
<1> DEFINE items == IF saved = NoDraft THEN proposal.items ELSE Over(saved.items, proposal.items)
<1>1. AllMapped(items)
  <2>1. CASE saved = NoDraft
    BY <2>1
  <2>2. CASE saved # NoDraft
    BY <2>2 DEF IsDraft, AllMapped, Over
  <2> QED
    BY <2>1, <2>2
<1>2. \E routes : Merged(box, proposal, saved) = [box |-> box, items |-> items, routes |-> routes]
  BY DEF Merged
<1> HIDE DEF items
<1> QED
  BY <1>1, <1>2 DEF IsDraft

-----------------------------------------------------------------------------
(* Steps of the structure pages. *)

StructureStep ==
  /\ UNCHANGED <<api, adrift>>
  /\ StructureShown' /\ StructureRun'
  /\ moves' \in {moves, moves + 1}

\* The handlers stay, one of them changes, or another page begins with its own.
LEMMA SameRun ==
  ASSUME StructureRun, run' = run, view'.at = view.at
  PROVE  StructureRun'
BY DEF StructureRun, StructureHandler

LEMMA OneRuns ==
  ASSUME StructureRun, NEW k \in Slots, NEW h, StructureHandler(h), h.of # "load-list",
         run' = [run EXCEPT ![k] = h], view'.at = view.at
  PROVE  StructureRun'
<1>1. /\ DOMAIN run' = Slots /\ run'[k] = h
      /\ \A j \in Slots \ {k} : run'[j] = run[j]
  BY DEF StructureRun
<1>2. \A j \in Slots : StructureHandler(run'[j])
  BY <1>1 DEF StructureRun
<1> QED
  BY <1>1, <1>2 DEF StructureRun, StructureHandler

LEMMA Begins ==
  ASSUME StructureRun, NEW h, StructureHandler(h), h.of # "load-list", Begin(h),
         view'.at = view.at
  PROVE  StructureRun'
<1>1. PICK k \in Slots : run' = [run EXCEPT ![k] = h]
  BY DEF Begin
<1> QED
  BY <1>1, OneRuns

LEMMA IsOver ==
  ASSUME StructureRun, NEW k \in Slots, Ends(k), view'.at = view.at
  PROVE  StructureRun' /\ UNCHANGED <<api, adrift, moves>>
<1>1. run' = [run EXCEPT ![k] = Idle] /\ UNCHANGED <<api, adrift, moves>>
  BY DEF Ends, Becomes
<1> QED
  BY <1>1, OneRuns, StructureHandlers

\* Another page is opened.
LEMMA GoesOn ==
  ASSUME StructureInv, NEW at \in {"folders", "discovery", "mapping"}, NEW box, NEW stored,
         Goes(at, box, stored),
         DOMAIN stored = Managed, \A b \in Managed : IsDraft(stored[b])
  PROVE  StructureStep
<1>1. /\ view' = Page(at, stored, view.tries)
      /\ run' = [k \in Slots |-> IF k = 1 THEN LoadList(box) ELSE Idle]
      /\ UNCHANGED <<api, adrift, moves>>
  BY DEF Goes, Timer
<1>2. \A k \in Slots : StructureHandler(run'[k])
  BY <1>1, StructureHandlers
<1>3. /\ view'.at = at /\ view'.box = "none" /\ view'.draft = NoDraft /\ view'.saved = NoDraft
      /\ view'.stored = stored
      /\ DOMAIN view' = {"at", "box", "draft", "saved", "loading", "scanning", "busy", "applied",
                         "stored", "tries"}
  BY <1>1 DEF Page
<1>4. StructureShown'
  BY <1>3 DEF StructureShown, IsDraft
<1>5. StructureRun'
  BY <1>1, <1>2, <1>3 DEF StructureRun, StructureHandler
<1> QED
  BY <1>1, <1>4, <1>5 DEF StructureStep

LEMMA KeepingIs ==
  ASSUME StructureShown, NEW draft, IsDraft(draft)
  PROVE  /\ DOMAIN Keeping(draft) = Managed
         /\ \A b \in Managed : IsDraft(Keeping(draft)[b])
BY DEF StructureShown, Keeping

LEMMA OpensPage ==
  ASSUME StructureInv,
         StartSetup \/ NextToMapping \/ BackToDiscovery \/ BackToMapping \/ BackToFolders
  PROVE  StructureStep
<1>1. /\ StructureShown /\ IsDraft(view.draft)
      /\ DOMAIN view.stored = Managed /\ \A b \in Managed : IsDraft(view.stored[b])
  BY DEF StructureInv, StructureShown
<1>2. CASE StartSetup
  BY <1>1, <1>2, GoesOn DEF StartSetup
<1>3. CASE NextToMapping
  BY <1>1, <1>3, GoesOn, KeepingIs DEF NextToMapping
<1>4. CASE BackToDiscovery
  BY <1>1, <1>4, GoesOn, KeepingIs DEF BackToDiscovery
<1>5. CASE BackToMapping
  BY <1>1, <1>5, GoesOn, KeepingIs DEF BackToMapping
<1>6. CASE BackToFolders
  BY <1>1, <1>6, GoesOn DEF BackToFolders
<1> QED
  BY <1>2, <1>3, <1>4, <1>5, <1>6

\* What is shown changes in some of its parts only.
LEMMA ShownStays ==
  ASSUME StructureShown, DOMAIN view' = DOMAIN view, view'.at = view.at,
         view'.box = view.box \/ view'.box \in Managed,
         view'.stored = view.stored, IsDraft(view'.draft), IsDraft(view'.saved)
  PROVE  StructureShown'
BY DEF StructureShown, IsDraft

LEMMA EditsItem ==
  ASSUME StructureInv, EditItem PROVE StructureStep
<1>1. StructureShown /\ StructureRun /\ IsDraft(view.draft) /\ IsDraft(view.saved)
  BY DEF StructureInv, StructureShown
<1>2. PICK id \in DOMAIN view.draft.items, to \in Mapped :
        view' = [view EXCEPT !.draft.items[id] = to]
  BY DEF EditItem
<1>3. /\ DOMAIN view.draft = {"box", "items", "routes"} /\ AllMapped(view.draft.items)
  BY <1>1 DEF EditItem, IsDraft
<1>4. /\ DOMAIN view' = DOMAIN view /\ view'.at = view.at /\ view'.box = view.box
      /\ view'.stored = view.stored /\ view'.saved = view.saved
      /\ view'.draft = [view.draft EXCEPT !.items = [@ EXCEPT ![id] = to]]
  BY <1>1, <1>2 DEF StructureShown
<1>5. DOMAIN view'.draft = {"box", "items", "routes"}
      /\ view'.draft.items = [view.draft.items EXCEPT ![id] = to]
  BY <1>3, <1>4
<1>6. AllMapped(view'.draft.items)
  BY <1>3, <1>5 DEF AllMapped
<1>7. StructureShown'
  BY <1>1, <1>4, <1>5, <1>6, ShownStays DEF IsDraft
<1>8. run' = run /\ UNCHANGED <<api, adrift>> /\ moves' \in {moves, moves + 1}
  BY DEF EditItem, Click, Move
<1> QED
  BY <1>1, <1>4, <1>7, <1>8, SameRun DEF StructureStep

LEMMA EditsRoutes ==
  ASSUME StructureInv, EditRoutes PROVE StructureStep
<1>1. StructureShown /\ StructureRun /\ IsDraft(view.draft) /\ IsDraft(view.saved)
  BY DEF StructureInv, StructureShown
<1>2. PICK to : view' = [view EXCEPT !.draft.routes = to]
  BY DEF EditRoutes
<1>3. /\ DOMAIN view' = DOMAIN view /\ view'.at = view.at /\ view'.box = view.box
      /\ view'.stored = view.stored /\ view'.saved = view.saved
      /\ view'.draft = [view.draft EXCEPT !.routes = to]
  BY <1>1, <1>2 DEF StructureShown
<1>4. DOMAIN view.draft = {"box", "items", "routes"} /\ AllMapped(view.draft.items)
  BY <1>1 DEF EditRoutes, IsDraft
<1>5. DOMAIN view'.draft = {"box", "items", "routes"} /\ view'.draft.items = view.draft.items
  BY <1>3, <1>4
<1>6. StructureShown'
  BY <1>1, <1>3, <1>4, <1>5, ShownStays DEF IsDraft
<1>7. run' = run /\ UNCHANGED <<api, adrift>> /\ moves' \in {moves, moves + 1}
  BY DEF EditRoutes, Click, Move
<1> QED
  BY <1>1, <1>3, <1>6, <1>7, SameRun DEF StructureStep

\* The page for the review begins with the draft that it is to show.
LEMMA ReviewBegins ==
  ASSUME StructureInv, NextToReview PROVE StructureStep
<1>1. /\ StructureShown /\ view.draft # NoDraft
      /\ DOMAIN view.draft = {"box", "items", "routes"} /\ AllMapped(view.draft.items)
  BY DEF StructureInv, StructureShown, NextToReview, IsDraft
<1> DEFINE draft == [view.draft EXCEPT !.routes = {r \in @ : r[1] # Blank}]
<1>2. /\ view' = [Page("review", Keeping(draft), view.tries) EXCEPT
                    !.box = draft.box, !.draft = draft]
      /\ run' = [k \in Slots |-> Idle] /\ UNCHANGED <<api, adrift, moves>>
  BY DEF NextToReview, Timer
<1>3. IsDraft(draft)
  BY <1>1 DEF IsDraft
<1> HIDE DEF draft
<1>4. /\ view'.at = "review" /\ view'.draft = draft /\ view'.saved = NoDraft
      /\ view'.stored = Keeping(draft)
      /\ DOMAIN view' = {"at", "box", "draft", "saved", "loading", "scanning", "busy", "applied",
                         "stored", "tries"}
  BY <1>2 DEF Page
<1>5. StructureShown'
  BY <1>1, <1>3, <1>4, KeepingIs DEF StructureShown, IsDraft
<1>6. \A k \in Slots : run'[k] = Idle
  BY <1>2
<1>7. StructureRun'
  BY <1>2, <1>6, StructureHandlers DEF StructureRun, StructureHandler
<1> QED
  BY <1>2, <1>5, <1>7 DEF StructureStep

LEMMA Discovers ==
  ASSUME StructureInv, Discover PROVE StructureStep
<1>1. /\ StructureShown /\ StructureRun /\ IsDraft(view.draft) /\ IsDraft(view.saved)
      /\ view.box \in Managed
  BY DEF StructureInv, StructureShown, Discover
<1>2. view' = [view EXCEPT !.scanning = TRUE] /\ Begin(Discovery(view.box, view.saved))
      /\ UNCHANGED <<api, adrift, moves>>
  BY DEF Discover, Timer
<1>3. /\ DOMAIN view' = DOMAIN view /\ view'.at = view.at /\ view'.box = view.box
      /\ view'.stored = view.stored /\ view'.saved = view.saved /\ view'.draft = view.draft
  BY <1>1, <1>2 DEF StructureShown
<1>4. /\ StructureHandler(Discovery(view.box, view.saved))
      /\ Discovery(view.box, view.saved).of # "load-list"
  BY <1>1, StructureHandlers
<1>5. StructureRun'
  BY <1>1, <1>2, <1>3, <1>4, Begins
<1> QED
  BY <1>1, <1>2, <1>3, <1>5, ShownStays DEF StructureStep

LEMMA Applies ==
  ASSUME StructureInv, ApplyDraft PROVE StructureStep
<1>1. /\ StructureShown /\ StructureRun /\ IsDraft(view.draft) /\ IsDraft(view.saved)
      /\ AllMapped(view.draft.items)
  BY DEF StructureInv, StructureShown, ApplyDraft, IsDraft
<1> DEFINE q == [to |-> "apply-structure", try |-> view'.tries, box |-> view.draft.box,
                 items |-> view.draft.items, routes |-> view.draft.routes]
<1>2. /\ view' = [view EXCEPT !.busy = TRUE, !.tries = @ + 1]
      /\ Begin(Handler("apply", view'.tries, {q}))
      /\ UNCHANGED <<api, adrift>> /\ moves' = moves + 1
  BY DEF ApplyDraft, Click, Move
<1>3. /\ DOMAIN view' = DOMAIN view /\ view'.at = view.at /\ view'.box = view.box
      /\ view'.stored = view.stored /\ view'.saved = view.saved /\ view'.draft = view.draft
  BY <1>1, <1>2 DEF StructureShown
<1>4. StructureRequest(q)
  BY <1>1 DEF StructureRequest
<1> HIDE DEF q
<1>5. /\ StructureHandler(Handler("apply", view'.tries, {q}))
      /\ Handler("apply", view'.tries, {q}).of # "load-list"
  BY <1>4, NewStructureHandler
<1>6. StructureRun'
  BY <1>1, <1>2, <1>3, <1>5, Begins
<1> QED
  BY <1>1, <1>2, <1>3, <1>6, ShownStays DEF StructureStep

\* A mailbox is chosen.  handlers: as they are, or without the one that loaded the list.
LEMMA ChoosesBox ==
  ASSUME StructureInv, NEW box \in Managed, NEW handlers,
         DOMAIN handlers = Slots, \A k \in Slots : StructureHandler(handlers[k]),
         view.at # "review", Chosen(box, handlers), UNCHANGED <<api, adrift, moves>>
  PROVE  StructureStep
<1>1. /\ StructureShown /\ IsDraft(view.draft) /\ IsDraft(view.saved)
      /\ view.at \in {"folders", "discovery", "mapping"} /\ IsDraft(view.stored[box])
  BY DEF StructureInv, StructureShown
<1> DEFINE kept == [k \in Slots |-> IF handlers[k].of = "load-current" THEN Idle ELSE handlers[k]]
           Loads == \E k \in Slots : run' = [kept EXCEPT ![k] = LoadCurrent(box)]
<1>2. \A k \in Slots : StructureHandler(kept[k])
  BY StructureHandlers
<1>3. /\ run' = kept \/ Loads
      /\ \/ view' = [view EXCEPT !.box = box]
         \/ view' = [view EXCEPT !.box = box, !.loading = TRUE]
         \/ view' = [view EXCEPT !.box = box, !.draft = view.stored[box]]
  <2>1. CASE view.at = "folders"
    BY <2>1 DEF Chosen
  <2>2. CASE view.at = "discovery"
    BY <2>2 DEF Chosen
  <2>3. CASE view.at = "mapping" /\ view.stored[box] # NoDraft
    BY <2>3 DEF Chosen
  <2>4. CASE view.at = "mapping" /\ view.stored[box] = NoDraft
    BY <2>4 DEF Chosen
  <2> QED
    BY <1>1, <2>1, <2>2, <2>3, <2>4
<1>4. DOMAIN run' = Slots /\ \A k \in Slots : StructureHandler(run'[k])
  <2>1. CASE run' = kept
    BY <1>2, <2>1
  <2>2. CASE Loads
    <3>1. PICK k \in Slots : run' = [kept EXCEPT ![k] = LoadCurrent(box)]
      BY <2>2
    <3>2. DOMAIN kept = Slots
      OBVIOUS
    <3> HIDE DEF kept
    <3>3. /\ DOMAIN run' = Slots /\ run'[k] = LoadCurrent(box)
          /\ \A j \in Slots \ {k} : run'[j] = kept[j]
      BY <3>1, <3>2
    <3> QED
      BY <1>2, <3>3, StructureHandlers
  <2> QED
    BY <1>3, <2>1, <2>2
<1> HIDE DEF kept
<1>5. /\ DOMAIN view' = DOMAIN view /\ view'.at = view.at /\ view'.box = box
      /\ view'.stored = view.stored /\ view'.saved = view.saved
      /\ view'.draft \in {view.draft, view.stored[box]}
  BY <1>1, <1>3 DEF StructureShown
<1>6. StructureShown'
  BY <1>1, <1>5, ShownStays
<1>7. StructureRun'
  BY <1>4, <1>5 DEF StructureRun, StructureHandler
<1> QED
  BY <1>6, <1>7 DEF StructureStep

LEMMA ChoosesMailbox ==
  ASSUME StructureInv, NEW box \in Managed, ChooseMailbox(box) PROVE StructureStep
BY ChoosesBox DEF ChooseMailbox, Timer, StructureInv, StructureRun

LEMMA ListArrives ==
  ASSUME StructureInv, NEW k \in Slots, ListLoaded(k) PROVE StructureStep
<1>1. /\ StructureShown /\ StructureRun /\ IsDraft(view.draft) /\ IsDraft(view.saved)
      /\ DOMAIN run = Slots /\ \A j \in Slots : StructureHandler(run[j])
  BY DEF StructureInv, StructureRun, StructureShown
<1>2. CASE Answered(k, "load-list")
  <2>1. view.at # "review"
    BY <1>1, <1>2 DEF StructureRun, Answered, Running
  <2>2. ~ Rejected(k, "load-list")
    BY <1>2 DEF Answered, Rejected
  <2>3. PICK box \in Managed : Chosen(box, [run EXCEPT ![k] = Idle])
    BY <2>2 DEF ListLoaded
  <2>4. UNCHANGED <<api, adrift, moves>>
    BY <2>2 DEF ListLoaded, Timer
  <2> DEFINE handlers == [run EXCEPT ![k] = Idle]
  <2>5. DOMAIN handlers = Slots /\ \A j \in Slots : StructureHandler(handlers[j])
    BY <1>1, StructureHandlers
  <2> HIDE DEF handlers
  <2>6. Chosen(box, handlers)
    BY <2>3 DEF handlers
  <2> QED
    BY <2>1, <2>4, <2>5, <2>6, ChoosesBox
<1>3. CASE ~ Answered(k, "load-list")
  <2>1. Ends(k) /\ view' = view
    BY <1>3 DEF ListLoaded
  <2>2. StructureRun' /\ UNCHANGED <<api, adrift, moves>>
    BY <1>1, <2>1, IsOver
  <2> QED
    BY <1>1, <2>1, <2>2, ShownStays DEF StructureStep
<1> QED
  BY <1>2, <1>3

\* What was loaded or found becomes the draft.
LEMMA CurrentArrives ==
  ASSUME StructureInv, NEW k \in Slots, CurrentLoaded(k) PROVE StructureStep
<1>1. /\ StructureShown /\ StructureRun /\ IsDraft(view.draft) /\ IsDraft(view.saved)
      /\ StructureHandler(run[k])
  BY DEF StructureInv, StructureRun, StructureShown
<1> DEFINE q == [to |-> "current", box |-> run[k].arg]
           draft == CurrentDraft(run[k].arg, run[k].got[q])
<1>2. CASE Answered(k, "load-current")
  <2>1. /\ Ends(k)
        /\ \/ view' = [view EXCEPT !.draft = draft]
           \/ view' = [view EXCEPT !.draft = draft, !.saved = draft, !.loading = FALSE]
    BY <1>2 DEF CurrentLoaded, Answered, Rejected
  <2>2. DOMAIN run[k] = HandlerFields
    BY <1>1, <1>2, StructureHandlers DEF StructureHandler, Shaped, Answered, Running
  <2>3. q \in DOMAIN run[k].got
    BY <1>1, <1>2, <2>2 DEF StructureHandler, Asks, Answered, Running
  <2>4. NamedItems(run[k].got[q].items)
    BY <1>1, <2>2, <2>3 DEF StructureHandler, Usable
  <2>5. IsDraft(draft)
    BY <2>4, CurrentIsDraft
  <2> HIDE DEF draft
  <2>6. /\ DOMAIN view' = DOMAIN view /\ view'.at = view.at /\ view'.box = view.box
        /\ view'.stored = view.stored /\ view'.draft = draft
        /\ view'.saved \in {view.saved, draft}
    BY <1>1, <2>1 DEF StructureShown
  <2>7. StructureRun' /\ UNCHANGED <<api, adrift, moves>>
    BY <1>1, <2>1, <2>6, IsOver
  <2> QED
    BY <1>1, <2>5, <2>6, <2>7, ShownStays DEF StructureStep
<1>3. CASE ~ Answered(k, "load-current")
  <2>1. Ends(k) /\ view' = [view EXCEPT !.loading = FALSE]
    BY <1>3 DEF CurrentLoaded
  <2>2. /\ DOMAIN view' = DOMAIN view /\ view'.at = view.at /\ view'.box = view.box
        /\ view'.stored = view.stored /\ view'.saved = view.saved /\ view'.draft = view.draft
    BY <1>1, <2>1 DEF StructureShown
  <2>3. StructureRun' /\ UNCHANGED <<api, adrift, moves>>
    BY <1>1, <2>1, <2>2, IsOver
  <2> QED
    BY <1>1, <2>2, <2>3, ShownStays DEF StructureStep
<1> QED
  BY <1>2, <1>3

LEMMA ProposalArrives ==
  ASSUME StructureInv, NEW k \in Slots, Discovered(k) PROVE StructureStep
<1>1. /\ StructureShown /\ StructureRun /\ IsDraft(view.draft) /\ IsDraft(view.saved)
      /\ StructureHandler(run[k])
  BY DEF StructureInv, StructureRun, StructureShown
<1> DEFINE of == run[k].arg
           q == [to |-> "proposal", box |-> of.box]
           draft == Merged(of.box, run[k].got[q], of.saved)
<1>2. CASE Answered(k, "discover")
  <2>1. Ends(k) /\ view' = [view EXCEPT !.draft = draft, !.scanning = FALSE]
    BY <1>2 DEF Discovered, Answered, Rejected
  <2>2. DOMAIN run[k] = HandlerFields
    BY <1>1, <1>2, StructureHandlers DEF StructureHandler, Shaped, Answered, Running
  <2>3. q \in DOMAIN run[k].got /\ IsDraft(of.saved)
    BY <1>1, <1>2, <2>2 DEF StructureHandler, Asks, Answered, Running
  <2>4. AllMapped(run[k].got[q].items)
    BY <1>1, <2>2, <2>3 DEF StructureHandler, Usable
  <2>5. IsDraft(draft)
    BY <2>3, <2>4, MergedIsDraft
  <2> HIDE DEF draft
  <2>6. /\ DOMAIN view' = DOMAIN view /\ view'.at = view.at /\ view'.box = view.box
        /\ view'.stored = view.stored /\ view'.draft = draft /\ view'.saved = view.saved
    BY <1>1, <2>1 DEF StructureShown
  <2>7. StructureRun' /\ UNCHANGED <<api, adrift, moves>>
    BY <1>1, <2>1, <2>6, IsOver
  <2> QED
    BY <1>1, <2>5, <2>6, <2>7, ShownStays DEF StructureStep
<1>3. CASE ~ Answered(k, "discover")
  <2>1. Ends(k) /\ view' = [view EXCEPT !.scanning = FALSE]
    BY <1>3 DEF Discovered
  <2>2. /\ DOMAIN view' = DOMAIN view /\ view'.at = view.at /\ view'.box = view.box
        /\ view'.stored = view.stored /\ view'.saved = view.saved /\ view'.draft = view.draft
    BY <1>1, <2>1 DEF StructureShown
  <2>3. StructureRun' /\ UNCHANGED <<api, adrift, moves>>
    BY <1>1, <2>1, <2>2, IsOver
  <2> QED
    BY <1>1, <2>2, <2>3, ShownStays DEF StructureStep
<1> QED
  BY <1>2, <1>3

LEMMA ApplyArrives ==
  ASSUME StructureInv, NEW k \in Slots, DraftApplied(k) PROVE StructureStep
<1>1. /\ StructureShown /\ StructureRun /\ IsDraft(view.draft) /\ IsDraft(view.saved)
      /\ DOMAIN view.stored = Managed /\ \A b \in Managed : IsDraft(view.stored[b])
  BY DEF StructureInv, StructureShown
<1>2. /\ Ends(k)
      /\ \/ view' = [view EXCEPT !.busy = FALSE, !.applied = TRUE,
                                 !.stored[view.draft.box] = NoDraft]
         \/ view' = [view EXCEPT !.busy = FALSE]
  BY DEF DraftApplied
<1>3. /\ DOMAIN view' = DOMAIN view /\ view'.at = view.at /\ view'.box = view.box
      /\ view'.saved = view.saved /\ view'.draft = view.draft
      /\ view'.stored \in {view.stored, [view.stored EXCEPT ![view.draft.box] = NoDraft]}
  BY <1>1, <1>2 DEF StructureShown
<1>4. DOMAIN view'.stored = Managed /\ \A b \in Managed : IsDraft(view'.stored[b])
  BY <1>1, <1>3 DEF IsDraft
<1>5. StructureRun' /\ UNCHANGED <<api, adrift, moves>>
  BY <1>1, <1>2, <1>3, IsOver
<1>6. StructureShown'
  BY <1>1, <1>3, <1>4 DEF StructureShown, IsDraft
<1> QED
  BY <1>5, <1>6 DEF StructureStep

-----------------------------------------------------------------------------
(* Steps of the API. *)

\* What comes to exist is there for an item that was approved as one to create.
Approved ==
  \A box \in Managed : \A n \in api'.folders[box] \ api.folders[box] :
    \E a \in api.applies :
      /\ a.box = box
      /\ \E id \in DOMAIN a.items : a.items[id] = [name |-> n, action |-> "create"]
      /\ \A id \in DOMAIN a.items :
           a.items[id].action = "reuse" => Lower[a.items[id].name] \in InLower(a.folders)

ApiStep == UNCHANGED <<view, run, adrift, moves>> /\ StructureStored(api') /\ Approved

LEMMA ApiSteps ==
  ASSUME StructureInv,
         ApplyReceived \/ \E a \in api.applies :
           ApplyListed(a) \/ FolderCreated(a) \/ ApplyStored(a) \/ ApplyFailed(a)
  PROVE  ApiStep
<1>0. StructureStored(api) /\ \A k \in Slots : StructureHandler(run[k])
  BY DEF StructureInv, StructureRun
<1>1. ASSUME StructureStored(api'), api'.folders = api.folders
      PROVE  StructureStored(api') /\ Approved
  BY <1>1 DEF Approved
<1>2. CASE ApplyReceived
  <2>1. PICK k \in Slots : \E q \in run[k].asked :
          /\ q.to = "apply-structure"
          /\ api' = [api EXCEPT !.applies = @ \cup {Apply(q.try, q.box, q.items, q.routes)}]
    BY <1>2 DEF ApplyReceived
  <2>2. PICK q \in run[k].asked :
          /\ q.to = "apply-structure"
          /\ api' = [api EXCEPT !.applies = @ \cup {Apply(q.try, q.box, q.items, q.routes)}]
    BY <2>1
  <2>3. AllMapped(q.items)
    BY <1>0, <2>2, IdleIs DEF StructureHandler, Shaped, StructureRequest
  <2> DEFINE a == Apply(q.try, q.box, q.items, q.routes)
  <2>4. SoundApply(a, api.folders)
    BY <2>3, AppliesBegin
  <2> HIDE DEF a
  <2>5. api' = [api EXCEPT !.applies = api.applies \cup {a}]
    BY <1>0, <2>2 DEF StructureStored, a
  <2>6. StructureStored(api') /\ api'.folders = api.folders
    BY <1>0, <2>4, <2>5, AppliesChange
  <2> QED
    BY <1>1, <1>2, <2>6 DEF ApiStep, ApplyReceived, tab
<1>3. ASSUME NEW a \in api.applies, ApplyListed(a) PROVE ApiStep
  <2>1. UNCHANGED <<view, run, adrift, moves>>
    BY <1>3 DEF ApplyListed, Ended, Onward, ApplyStep, tab
  <2> QED
    BY <1>0, <1>1, <1>3, <2>1, Listing1 DEF ApiStep
<1>4. ASSUME NEW a \in api.applies, FolderCreated(a) PROVE ApiStep
  <2>1. UNCHANGED <<view, run, adrift, moves>>
    BY <1>4 DEF FolderCreated, ApplyStep, tab
  <2> QED
    BY <1>0, <1>4, <2>1, Creating DEF ApiStep, Approved
<1>5. ASSUME NEW a \in api.applies, ApplyStored(a) PROVE ApiStep
  <2>1. UNCHANGED <<view, run, adrift, moves>>
    BY <1>5 DEF ApplyStored, Ended, ApplyStep, tab
  <2> QED
    BY <1>0, <1>1, <1>5, <2>1, Storing1 DEF ApiStep
<1>6. ASSUME NEW a \in api.applies, ApplyFailed(a) PROVE ApiStep
  <2>1. UNCHANGED <<view, run, adrift, moves>>
    BY <1>6 DEF ApplyFailed, Ended, ApplyStep, tab
  <2> QED
    BY <1>0, <1>1, <1>6, <2>1, Failing DEF ApiStep
<1> QED
  BY <1>2, <1>3, <1>4, <1>5, <1>6

\* A request of the page is served, or lost.
LEMMA StructureServed ==
  ASSUME StructureInv, page = "structure", NEW k \in Slots, Served(k) \/ Lost(k)
  PROVE  /\ StructureRun' /\ view' = view /\ adrift' = adrift /\ moves' \in {moves, moves + 1}
         /\ StructureStored(api') /\ api'.folders = api.folders
<1>1. /\ StructureStored(api) /\ DOMAIN run = Slots /\ StructureRun
      /\ \A j \in Slots : StructureHandler(run[j])
  BY DEF StructureInv, StructureRun
<1>2. Slotted
  BY <1>1 DEF Slotted, StructureHandler
<1>3. PICK q \in run[k].asked : \E o \in StructureReply(q) : \E h : ServedAs(k, q, o, h)
  BY <1>2, AnsweredOrLost DEF Reply
<1>4. PICK o \in StructureReply(q) : \E h : ServedAs(k, q, o, h)
  BY <1>3
<1>5. PICK h : ServedAs(k, q, o, h)
  BY <1>4
<1>6. /\ StructureRequest(q) /\ DOMAIN run[k] = HandlerFields /\ run[k].settles = FALSE
      /\ StructureHandler(run[k])
  BY <1>1, <1>3, IdleIs DEF StructureHandler, Shaped
<1>7. /\ StructureStored(o.api) /\ o.api.folders = api.folders
      /\ Usable(q, o.answer)
  BY <1>1, <1>6, StructureServes
<1>8. /\ run' = [run EXCEPT ![k] = h] /\ view' = view /\ adrift' = adrift
      /\ api' \in {api, o.api}
      /\ DOMAIN h = HandlerFields /\ h.of = run[k].of /\ h.arg = run[k].arg
      /\ h.settles = FALSE /\ h.asked = run[k].asked \ {q}
      /\ \/ h.got = Over(run[k].got, [r \in {q} |-> o.answer]) /\ h.failed = run[k].failed
         \/ h.got = run[k].got /\ h.failed = TRUE
  BY <1>5, <1>6 DEF ServedAs, Answering
<1>9. StructureHandler(h)
  <2>1. CASE h.got = run[k].got /\ h.failed = TRUE
    BY <1>6, <1>8, <2>1 DEF StructureHandler, Shaped, Asks
  <2>2. CASE h.got = Over(run[k].got, [r \in {q} |-> o.answer]) /\ h.failed = run[k].failed
    <3>1. /\ DOMAIN h.got = DOMAIN run[k].got \cup {q}
          /\ \A r \in DOMAIN run[k].got : h.got[r] = run[k].got[r]
          /\ q \notin DOMAIN run[k].got => h.got[q] = o.answer
      BY <2>2 DEF Over
    <3>2. h.asked \cup DOMAIN h.got = run[k].asked \cup DOMAIN run[k].got
      BY <1>3, <1>8, <3>1
    <3>3. \A r \in DOMAIN h.got : Usable(r, h.got[r])
      BY <1>6, <1>7, <3>1 DEF StructureHandler
    <3>4. /\ \A r \in h.asked : StructureRequest(r)
          /\ h.of = "load-current" => Asks(h, [to |-> "current", box |-> h.arg])
          /\ h.of = "discover" =>
               Asks(h, [to |-> "proposal", box |-> h.arg.box]) /\ IsDraft(h.arg.saved)
      BY <1>6, <1>8, <2>2, <3>2 DEF StructureHandler, Asks
    <3> QED
      BY <1>8, <3>3, <3>4 DEF StructureHandler, Shaped
  <2> QED
    BY <1>8, <2>1, <2>2
<1>10. /\ DOMAIN run' = Slots /\ run'[k] = h
       /\ \A j \in Slots \ {k} : run'[j] = run[j]
  BY <1>1, <1>8
<1>11. \A j \in Slots : StructureHandler(run'[j])
  BY <1>1, <1>9, <1>10
<1>12. \A j \in Slots : run'[j].of = run[j].of
  BY <1>8, <1>10
<1>13. StructureRun'
  BY <1>1, <1>8, <1>10, <1>11, <1>12 DEF StructureRun, StructureHandler
<1>14. moves' \in {moves, moves + 1}
  BY DEF Served, Lost, Serve, Lose, Move
<1> QED
  BY <1>1, <1>7, <1>8, <1>13, <1>14

LEMMA StructureInitially ==
  ASSUME Init, page = "structure" PROVE StructureInv
<1>1. StructureInit /\ Opened({LoadList("none")})
  BY DEF Init
<1>2. run = [k \in Slots |-> IF k = 1 THEN LoadList("none") ELSE Idle] /\ adrift = {} /\ moves = 0
  BY <1>1 DEF Opened
<1>3. \A k \in Slots : StructureHandler(run[k])
  BY <1>2, StructureHandlers
<1>4. view = Page("folders", [box \in Managed |-> NoDraft], 0)
  BY <1>1 DEF StructureInit
<1>5. StructureShown /\ view.at = "folders"
  BY <1>4 DEF Page, StructureShown, IsDraft
<1> DEFINE Some == UNION {Fits[id] : id \in FolderIds}
<1>6. PICK folders \in [Managed -> {{}} \cup {{n} : n \in Some}] :
        \E configured \in SUBSET Managed :
          api = [folders |-> folders, applies |-> {},
                 config |-> [box \in Managed |->
                   IF box \in configured /\ folders[box] # {}
                     THEN [items |-> [id \in FolderIds |-> CHOOSE n \in folders[box] : TRUE],
                           routes |-> DefaultRoutes]
                     ELSE NotConfigured]]
  BY <1>1 DEF StructureInit
<1>7. PICK configured \in SUBSET Managed :
          api = [folders |-> folders, applies |-> {},
                 config |-> [box \in Managed |->
                   IF box \in configured /\ folders[box] # {}
                     THEN [items |-> [id \in FolderIds |-> CHOOSE n \in folders[box] : TRUE],
                           routes |-> DefaultRoutes]
                     ELSE NotConfigured]]
  BY <1>6
<1>8. Some \subseteq Names
  BY StructureAssumption
<1>9. folders \in [Managed -> SUBSET Names]
  BY <1>6, <1>8
<1>10. /\ DOMAIN api = {"folders", "applies", "config"} /\ api.folders = folders
       /\ api.applies = {} /\ DOMAIN api.config = Managed
  BY <1>7
<1>11. ASSUME NEW box \in Managed, NEW id \in DOMAIN api.config[box].items
       PROVE  api.config[box].items[id] \in api.folders[box]
  <2>1. CASE box \in configured /\ folders[box] # {}
    <3>1. api.config[box].items = [i \in FolderIds |-> CHOOSE n \in folders[box] : TRUE]
      BY <1>7, <2>1
    <3> QED
      BY <1>10, <1>11, <2>1, <3>1
  <2>2. CASE ~ (box \in configured /\ folders[box] # {})
    <3>1. api.config[box].items = <<>>
      BY <1>7, <2>2 DEF NotConfigured
    <3> QED
      BY <1>11, <3>1
  <2> QED
    BY <2>1, <2>2
<1>12. StructureStored(api)
  BY <1>9, <1>10, <1>11 DEF StructureStored, Exists
<1>13. StructureRun
  BY <1>2, <1>3, <1>5 DEF StructureRun
<1> QED
  BY <1>2, <1>5, <1>12, <1>13 DEF StructureInv

LEMMA StructureStepsAll ==
  ASSUME Next, page = "structure", adrift = {}
  PROVE  Structure \/ \E k \in Slots : Served(k) \/ Lost(k)
BY DEF Next, Clusters, Processing, Review, Notifications, Account, Smtp, Memory, Learning,
       RulesPage, Onboarding, Forgotten

LEMMA StructureSteps ==
  ASSUME StructureInv, Structure, ~ StructureEvent
  PROVE  StructureStep \/ ApiStep
BY OpensPage, Discovers, EditsItem, EditsRoutes, ReviewBegins, Applies, ChoosesMailbox, ApiSteps,
   ListArrives, CurrentArrives, ProposalArrives, ApplyArrives DEF Structure

LEMMA ShownAsBefore ==
  ASSUME StructureShown, view' = view PROVE StructureShown'
BY DEF StructureShown, IsDraft

LEMMA RunsAsBefore ==
  ASSUME StructureRun, UNCHANGED <<view, run>> PROVE StructureRun'
BY SameRun

\* Every step keeps the invariant, and what it creates was approved.
LEMMA StructureNext ==
  ASSUME StructureInv, page = "structure", [Next]_vars
  PROVE  StructureInv' /\ (moves' = moves => Approved)
<1>0. /\ StructureStored(api) /\ StructureShown /\ StructureRun /\ adrift = {} /\ moves \in Nat
  BY DEF StructureInv
<1>1. ASSUME api'.folders = api.folders PROVE Approved
  BY <1>1 DEF Approved
<1>2. moves + 1 # moves /\ moves + 1 \in Nat
  BY <1>0
<1>3. ASSUME StructureStored(api') PROVE StructureStored(api)'
  BY <1>3 DEF StructureStored
<1>4. CASE UNCHANGED vars
  <2>1. UNCHANGED <<view, run, adrift, moves, api>>
    BY <1>4 DEF vars, tab
  <2> QED
    BY <1>0, <1>1, <1>3, <2>1, ShownAsBefore, RunsAsBefore DEF StructureInv
<1>5. CASE StructureEvent
  <2>1. UNCHANGED <<view, run, adrift>> /\ moves' = moves + 1
    BY <1>5 DEF StructureEvent, Event, Move, tab
  <2>2. StructureStored(api')
    BY <1>0, <1>5, StructureEvents
  <2> QED
    BY <1>0, <1>2, <1>3, <2>1, <2>2, ShownAsBefore, RunsAsBefore DEF StructureInv
<1>6. CASE StructureStep
  <2>1. UNCHANGED <<api, adrift>> /\ StructureShown' /\ StructureRun' /\ moves' \in Nat
    BY <1>0, <1>2, <1>6 DEF StructureStep
  <2> QED
    BY <1>0, <1>1, <1>3, <2>1 DEF StructureInv
<1>7. CASE ApiStep
  BY <1>0, <1>3, <1>7, ShownAsBefore, RunsAsBefore DEF StructureInv, ApiStep
<1>8. CASE \E k \in Slots : Served(k) \/ Lost(k)
  <2>1. PICK k \in Slots : Served(k) \/ Lost(k)
    BY <1>8
  <2>2. /\ StructureRun' /\ view' = view /\ adrift' = adrift /\ moves' \in {moves, moves + 1}
        /\ StructureStored(api') /\ api'.folders = api.folders
    BY <2>1, StructureServed
  <2>3. moves' \in Nat
    BY <1>0, <1>2, <2>2
  <2> QED
    BY <1>0, <1>1, <1>3, <2>2, <2>3, ShownAsBefore DEF StructureInv
<1> QED
  BY <1>0, <1>4, <1>5, <1>6, <1>7, <1>8, StructureStepsAll, StructureSteps

\* Every folder to which mail is routed exists in the mailbox, whatever fails between its
\* creation and the mapping that names it (MailboxStructureService.apply).
THEOREM WhatIsMappedExists == Spec => []MappedFoldersExist
<1> DEFINE I == page = "structure" => StructureInv
<1>1. Init => I
  BY StructureInitially
<1>2. I /\ [Next]_vars => I'
  BY StructureNext, PageStays
<1>3. I => MappedFoldersExist
  BY DEF StructureInv, StructureStored, Exists, MappedFoldersExist
<1> QED
  BY <1>1, <1>2, <1>3, PTL DEF Spec

\* A folder is created for an item that was approved as one to create, and only once every
\* reuse of the same draft was found in the mailbox (MailboxStructureService.apply).
THEOREM CreatedAsApproved == Spec => OnlyApprovedIsCreated
<1> DEFINE I == page = "structure" => StructureInv
           A == page = "structure" /\ moves' = moves =>
             \A box \in Managed : \A n \in api'.folders[box] \ api.folders[box] :
               \E a \in api.applies :
                 /\ a.box = box
                 /\ \E id \in DOMAIN a.items :
                      a.items[id] = [name |-> n, action |-> "create"]
                 /\ \A id \in DOMAIN a.items :
                      a.items[id].action = "reuse" =>
                        Lower[a.items[id].name] \in InLower(a.folders)
<1>1. Init => I
  BY StructureInitially
<1>2. I /\ [Next]_vars => I'
  BY StructureNext, PageStays
<1>3. I /\ [Next]_vars => [A]_vars
  BY StructureNext DEF Approved
<1> QED
  BY <1>1, <1>2, <1>3, PTL DEF Spec, OnlyApprovedIsCreated

-----------------------------------------------------------------------------
(* The account page: what is typed is kept. *)

CardFields == {"editing", "form", "busy"}

AccountShown(v) ==
  /\ DOMAIN v = {"box", "content", "access", "ticked", "busy", "left", "timer",
                 "connection", "policy"}
  /\ DOMAIN v.connection = CardFields /\ DOMAIN v.policy = CardFields

\* w follows v, and does not touch what is typed.
Keeps(v, w) ==
  /\ AccountShown(w)
  /\ v.connection.editing /\ w.connection.editing =>
       w.connection.form \in {v.connection.form, "typed"}

AccountHandler(h) == Shaped(h) /\ (h.of = "save-card" => h.arg \in {"connection", "policy"})

AccountRun == DOMAIN run = Slots /\ \A k \in Slots : AccountHandler(run[k])

AccountInv == AccountShown(view) /\ AccountRun

AccountStep == Keeps(view, view') /\ AccountRun'

LEMMA Untouched ==
  ASSUME NEW v, AccountShown(v), NEW w, DOMAIN w = DOMAIN v,
         w.connection = v.connection, DOMAIN w.policy = CardFields
  PROVE  Keeps(v, w)
BY DEF AccountShown, Keeps

LEMMA Onwards ==
  ASSUME NEW v, NEW w, Keeps(v, w), NEW x, DOMAIN x = DOMAIN w,
         x.connection = w.connection, DOMAIN x.policy = CardFields
  PROVE  Keeps(v, x)
BY DEF AccountShown, Keeps

LEMMA CardIs ==
  ASSUME NEW value
  PROVE  DOMAIN Card(value) = CardFields /\ Card(value).editing = FALSE
BY DEF Card, CardFields

\* The cards go away, or stay as they are.
LEMMA Mounting ==
  ASSUME NEW v, NEW w, Keeps(v, w)
  PROVE  Keeps(v, Mounted(w))
<1>1. CASE w.box = NotLoaded \/ Manages(w)
  BY <1>1 DEF Mounted
<1>2. CASE ~ (w.box = NotLoaded \/ Manages(w))
  <2> DEFINE m == [w EXCEPT !.connection = Card(w.box.connection)]
  <2>1. Mounted(w) = m
    BY <1>2 DEF Mounted
  <2>2. /\ DOMAIN m = DOMAIN w /\ m.policy = w.policy
        /\ m.connection = Card(w.box.connection)
    BY DEF Keeps, AccountShown
  <2> HIDE DEF m
  <2>3. Keeps(v, m)
    BY <2>2, CardIs DEF Keeps, AccountShown
  <2> QED
    BY <2>1, <2>3
<1> QED
  BY <1>1, <1>2

LEMMA BoxIsShown ==
  ASSUME NEW v, NEW w, Keeps(v, w), NEW box,
         w.connection.editing => v.connection.editing
  PROVE  Keeps(v, WithBox(w, box))
<1> DEFINE x == [w EXCEPT !.box = box, !.policy.form = box.policy,
                          !.connection.form = IF w.connection.editing THEN @ ELSE box.connection]
<1>1. WithBox(w, box) = Mounted(x)
  BY DEF WithBox
<1>2. /\ DOMAIN x = DOMAIN w
      /\ x.policy = [w.policy EXCEPT !.form = box.policy]
      /\ x.connection = [w.connection EXCEPT !.form =
                           IF w.connection.editing THEN @ ELSE box.connection]
  BY DEF Keeps, AccountShown
<1> HIDE DEF x
<1>3. /\ DOMAIN x.policy = CardFields /\ DOMAIN x.connection = CardFields
      /\ x.connection.editing = w.connection.editing
      /\ w.connection.editing => x.connection.form = w.connection.form
  BY <1>2 DEF Keeps, AccountShown, CardFields
<1>4. Keeps(v, x)
  BY <1>2, <1>3 DEF Keeps, AccountShown
<1> QED
  BY <1>1, <1>4, Mounting

LEMMA AccessIsShown ==
  ASSUME NEW v, NEW w, Keeps(v, w), NEW access, NEW ticked
  PROVE  Keeps(v, WithAccess(w, access, ticked))
<1> DEFINE x == [w EXCEPT !.access = access, !.ticked = ticked]
<1>1. WithAccess(w, access, ticked) = Mounted(x)
  BY DEF WithAccess
<1>2. DOMAIN x = DOMAIN w /\ x.policy = w.policy /\ x.connection = w.connection
  BY DEF Keeps, AccountShown
<1> HIDE DEF x
<1>3. Keeps(v, x)
  BY <1>2, Onwards DEF Keeps, AccountShown
<1> QED
  BY <1>1, <1>3, Mounting

\* Handlers.
LEMMA NewAccountHandler ==
  ASSUME NEW of, NEW arg, NEW asked, of = "save-card" => arg \in {"connection", "policy"}
  PROVE  AccountHandler(Handler(of, arg, asked))
BY DEF Handler, AccountHandler, Shaped, HandlerFields

LEMMA IdleIsAccount == AccountHandler(Idle)
BY IdleIs DEF AccountHandler

LEMMA AccountLoads ==
  ASSUME NEW arg
  PROVE  /\ AccountHandler(LoadAccount(arg)) /\ AccountHandler(LoadManaged(arg))
         /\ AccountHandler(LoadCycles(arg)) /\ AccountHandler(LoadAccess(arg))
BY NewAccountHandler DEF LoadAccount, LoadManaged, LoadCycles, LoadAccess

LEMMA AccountChanges ==
  ASSUME AccountRun, NEW k \in Slots, NEW h, AccountHandler(h), run' = [run EXCEPT ![k] = h]
  PROVE  AccountRun'
<1>1. DOMAIN run' = Slots /\ \A j \in Slots : AccountHandler(run'[j])
  BY DEF AccountRun
<1> QED
  BY <1>1 DEF AccountRun, AccountHandler

LEMMA AccountSame ==
  ASSUME AccountRun, run' = run PROVE AccountRun'
BY DEF AccountRun, AccountHandler

LEMMA AccountBegins ==
  ASSUME AccountRun, NEW h, AccountHandler(h), Begin(h) PROVE AccountRun'
<1>1. PICK k \in Slots : run' = [run EXCEPT ![k] = h]
  BY DEF Begin
<1> QED
  BY <1>1, AccountChanges

LEMMA AccountBecomes ==
  ASSUME AccountRun, NEW k \in Slots, NEW h, AccountHandler(h), Becomes(k, h) PROVE AccountRun'
BY AccountChanges DEF Becomes

LEMMA AccountEnds ==
  ASSUME AccountRun, NEW k \in Slots, Ends(k) PROVE AccountRun'
BY AccountBecomes, IdleIsAccount DEF Ends

LEMMA LoadEnds ==
  ASSUME AccountRun, NEW k \in Slots, NEW v, Keeps(view, v), Loaded(k, v) PROVE AccountStep
<1>1. view' = [v EXCEPT !.busy = @ /\ run[k].arg.by # "click"] /\ Ends(k)
  BY DEF Loaded
<1>2. DOMAIN view' = DOMAIN v /\ view'.connection = v.connection /\ view'.policy = v.policy
  BY <1>1 DEF Keeps, AccountShown
<1>3. Keeps(view, view')
  BY <1>2, Onwards DEF Keeps, AccountShown
<1> QED
  BY <1>1, <1>3, AccountEnds DEF AccountStep

LEMMA AccessIsNext ==
  ASSUME AccountRun, NEW k \in Slots, NEW v, Keeps(view, v), NEW box, AccessNext(k, box, v)
  PROVE  AccountStep
<1>1. CASE box.mode = "shared"
  <2>1. Becomes(k, LoadAccess([by |-> run[k].arg.by, box |-> box])) /\ view' = v
    BY <1>1 DEF AccessNext
  <2> QED
    BY <2>1, AccountLoads, AccountBecomes DEF AccountStep
<1>2. CASE box.mode # "shared"
  <2>1. Loaded(k, WithAccess(v, NotLoaded, {}))
    BY <1>2 DEF AccessNext
  <2> QED
    BY <2>1, AccessIsShown, LoadEnds
<1> QED
  BY <1>1, <1>2

\* Answers of loads.
LEMMA AccountArrives ==
  ASSUME AccountInv, NEW k \in Slots, AccountLoaded(k) PROVE AccountStep
<1>0. AccountShown(view) /\ AccountRun /\ Keeps(view, view)
  BY Untouched DEF AccountInv, AccountShown
<1>1. CASE Answered(k, "load-account")
  <2> DEFINE box == run[k].got[[to |-> "account"]]
  <2>1. \/ Becomes(k, LoadManaged(run[k].arg.by)) /\ UNCHANGED view
        \/ /\ view' = [WithBox(view, box) EXCEPT !.content = TRUE]
           /\ Becomes(k, LoadCycles([by |-> run[k].arg.by, box |-> box]))
    BY <1>1 DEF AccountLoaded, Answered, Rejected, Running
  <2>2. CASE Becomes(k, LoadManaged(run[k].arg.by)) /\ UNCHANGED view
    <3>1. AccountRun'
      BY <1>0, <2>2, AccountLoads, AccountBecomes
    <3> QED
      BY <1>0, <2>2, <3>1 DEF AccountStep
  <2>3. CASE /\ view' = [WithBox(view, box) EXCEPT !.content = TRUE]
             /\ Becomes(k, LoadCycles([by |-> run[k].arg.by, box |-> box]))
    <3> DEFINE w == WithBox(view, box)
    <3>1. Keeps(view, w)
      BY <1>0, BoxIsShown
    <3> HIDE DEF w
    <3>2. view' = [w EXCEPT !.content = TRUE]
      BY <2>3 DEF w
    <3>3. DOMAIN view' = DOMAIN w /\ view'.connection = w.connection /\ view'.policy = w.policy
      BY <3>1, <3>2 DEF Keeps, AccountShown
    <3>4. Keeps(view, view')
      BY <3>1, <3>3, Onwards DEF Keeps, AccountShown
    <3>5. AccountRun'
      BY <1>0, <2>3, AccountLoads, AccountBecomes
    <3> QED
      BY <3>4, <3>5 DEF AccountStep
  <2> QED
    BY <2>1, <2>2, <2>3
<1>2. CASE Answered(k, "load-managed")
  <2> DEFINE box == run[k].got[[to |-> "management"]]
             w == WithBox(view, box)
             v == [w EXCEPT !.content = FALSE]
  <2>1. AccessNext(k, box, v)
    BY <1>2 DEF AccountLoaded, Answered, Rejected, Running
  <2>2. Keeps(view, w)
    BY <1>0, BoxIsShown
  <2> HIDE DEF w
  <2>3. DOMAIN v = DOMAIN w /\ v.connection = w.connection /\ v.policy = w.policy
    BY <2>2 DEF Keeps, AccountShown
  <2>4. Keeps(view, v)
    BY <2>2, <2>3, Onwards DEF Keeps, AccountShown
  <2> QED
    BY <1>0, <2>1, <2>4, AccessIsNext
<1>3. CASE Rejected(k, "load-account") /\ Loaded(k, view)
  BY <1>0, <1>3, LoadEnds
<1>4. CASE Rejected(k, "load-managed") /\ Loaded(k, view)
  BY <1>0, <1>4, LoadEnds
<1> QED
  BY <1>1, <1>2, <1>3, <1>4 DEF AccountLoaded

LEMMA CyclesArrive ==
  ASSUME AccountInv, NEW k \in Slots, CyclesLoaded(k) PROVE AccountStep
<1>1. AccountShown(view) /\ AccountRun /\ Keeps(view, view)
  BY Untouched DEF AccountInv, AccountShown
<1> QED
  BY <1>1, AccessIsNext DEF CyclesLoaded

LEMMA AccessArrives ==
  ASSUME AccountInv, NEW k \in Slots, AccessLoaded(k) PROVE AccountStep
<1>1. AccountShown(view) /\ AccountRun /\ Keeps(view, view)
  BY Untouched DEF AccountInv, AccountShown
<1> DEFINE users == run[k].got[[to |-> "access"]]
<1>2. \/ Loaded(k, WithAccess(view, NotLoaded, view.ticked))
      \/ Loaded(k, WithAccess(view, users, users))
      \/ Loaded(k, view)
  BY DEF AccessLoaded
<1> QED
  BY <1>1, <1>2, AccessIsShown, LoadEnds

\* Buttons, and their answers.
LEMMA BoxPressed ==
  ASSUME AccountInv, NEW of, of # "save-card", NEW request, PressBox(of, request)
  PROVE  AccountStep
<1>1. AccountShown(view) /\ AccountRun
  BY DEF AccountInv
<1>2. view' = [view EXCEPT !.busy = TRUE] /\ Begin(Handler(of, [by |-> "click"], {request}))
  BY DEF PressBox
<1>3. /\ DOMAIN view' = DOMAIN view
      /\ view'.connection = view.connection /\ view'.policy = view.policy
  BY <1>1, <1>2 DEF AccountShown
<1>4. Keeps(view, view')
  BY <1>1, <1>3, Untouched DEF AccountShown
<1> QED
  BY <1>1, <1>2, <1>4, NewAccountHandler, AccountBegins DEF AccountStep

LEMMA BoxAnswered ==
  ASSUME AccountInv, NEW k \in Slots, BoxClicked(k) PROVE AccountStep
<1>1. AccountShown(view) /\ AccountRun /\ Keeps(view, view)
  BY Untouched DEF AccountInv, AccountShown
<1> DEFINE q == CHOOSE r \in DOMAIN run[k].got : TRUE
           answer == run[k].got[q]
           w == WithAccess(view, answer, answer)
<1>2. \/ /\ \/ view' = [view EXCEPT !.busy = FALSE, !.timer = TRUE]
            \/ view' = [view EXCEPT !.left = TRUE, !.busy = FALSE]
            \/ view' = [view EXCEPT !.left = TRUE]
            \/ view' = [view EXCEPT !.busy = FALSE]
            \/ view' = [w EXCEPT !.content = Me \in answer, !.busy = FALSE]
         /\ Ends(k)
      \/ Becomes(k, LoadAccount("click")) /\ UNCHANGED view
  BY DEF BoxClicked
<1>3. Keeps(view, w)
  BY <1>1, AccessIsShown
<1> HIDE DEF w
<1>4. AccountRun'
  BY <1>1, <1>2, AccountEnds, AccountLoads, AccountBecomes
<1>5. CASE view' = [w EXCEPT !.content = Me \in answer, !.busy = FALSE]
  <2>1. DOMAIN view' = DOMAIN w /\ view'.connection = w.connection /\ view'.policy = w.policy
    BY <1>3, <1>5 DEF Keeps, AccountShown
  <2> QED
    BY <1>3, <1>4, <2>1, Onwards DEF Keeps, AccountShown, AccountStep
<1>6. CASE view' # [w EXCEPT !.content = Me \in answer, !.busy = FALSE]
  <2>1. /\ DOMAIN view' = DOMAIN view
        /\ view'.connection = view.connection /\ view'.policy = view.policy
    BY <1>1, <1>2, <1>6 DEF AccountShown
  <2> QED
    BY <1>1, <1>4, <2>1, Untouched DEF AccountShown, AccountStep
<1> QED
  BY <1>5, <1>6

LEMMA AccountReloads ==
  ASSUME AccountInv, ReloadAfterRun PROVE AccountStep
<1>1. AccountShown(view) /\ AccountRun
  BY DEF AccountInv
<1>2. view' = [view EXCEPT !.timer = FALSE] /\ Begin(LoadAccount("timer"))
  BY DEF ReloadAfterRun
<1>3. /\ DOMAIN view' = DOMAIN view
      /\ view'.connection = view.connection /\ view'.policy = view.policy
  BY <1>1, <1>2 DEF AccountShown
<1>4. Keeps(view, view')
  BY <1>1, <1>3, Untouched DEF AccountShown
<1> QED
  BY <1>1, <1>2, <1>4, AccountLoads, AccountBegins DEF AccountStep

\* The two cards.
LEMMA CardsEdited ==
  ASSUME AccountInv,
         EditConnection \/ CancelConnection \/ (\E u \in Users : Tick(u))
           \/ \E card \in {"connection", "policy"} : Type(card)
  PROVE  AccountStep
<1>1. /\ AccountShown(view) /\ AccountRun
      /\ DOMAIN view.connection = CardFields /\ DOMAIN view.policy = CardFields
  BY DEF AccountInv, AccountShown
<1>2. AccountRun'
  BY <1>1, AccountSame DEF EditConnection, CancelConnection, Tick, Type
<1>3. CASE EditConnection
  <2>1. view' = [view EXCEPT !.connection.editing = TRUE] /\ ~ view.connection.editing
    BY <1>3 DEF EditConnection
  <2>2. /\ DOMAIN view' = DOMAIN view
        /\ DOMAIN view'.connection = CardFields /\ view'.policy = view.policy
    BY <1>1, <2>1 DEF AccountShown
  <2> QED
    BY <1>1, <1>2, <2>1, <2>2 DEF Keeps, AccountShown, AccountStep
<1>4. CASE CancelConnection
  <2>1. view' = [view EXCEPT !.connection = Card(view.box.connection)]
    BY <1>4 DEF CancelConnection
  <2>2. /\ DOMAIN view' = DOMAIN view /\ view'.policy = view.policy
        /\ view'.connection = Card(view.box.connection)
    BY <1>1, <2>1 DEF AccountShown
  <2> QED
    BY <1>1, <1>2, <2>2, CardIs DEF Keeps, AccountShown, AccountStep
<1>5. ASSUME NEW u \in Users, Tick(u) PROVE AccountStep
  <2>1. PICK ticked : view' = [view EXCEPT !.ticked = ticked]
    BY <1>5 DEF Tick
  <2>2. /\ DOMAIN view' = DOMAIN view
        /\ view'.connection = view.connection /\ view'.policy = view.policy
    BY <1>1, <2>1 DEF AccountShown
  <2> QED
    BY <1>1, <1>2, <2>2, Untouched DEF AccountStep
<1>6. CASE Type("connection")
  <2>1. view' = [view EXCEPT !["connection"].form = "typed"]
    BY <1>6 DEF Type
  <2>2. /\ DOMAIN view' = DOMAIN view /\ view'.policy = view.policy
        /\ view'.connection = [view.connection EXCEPT !.form = "typed"]
    BY <1>1, <2>1 DEF AccountShown
  <2>3. DOMAIN view'.connection = CardFields /\ view'.connection.form = "typed"
    BY <1>1, <2>2 DEF CardFields
  <2> QED
    BY <1>1, <1>2, <2>2, <2>3 DEF Keeps, AccountShown, AccountStep
<1>7. CASE Type("policy")
  <2>1. view' = [view EXCEPT !["policy"].form = "typed"]
    BY <1>7 DEF Type
  <2>2. /\ DOMAIN view' = DOMAIN view /\ view'.connection = view.connection
        /\ view'.policy = [view.policy EXCEPT !.form = "typed"]
    BY <1>1, <2>1 DEF AccountShown
  <2>3. DOMAIN view'.policy = CardFields
    BY <1>1, <2>2 DEF CardFields
  <2> QED
    BY <1>1, <1>2, <2>2, <2>3, Untouched DEF AccountStep
<1> QED
  BY <1>3, <1>4, <1>5, <1>6, <1>7

\* Parts of a card other than what is typed change.
LEMMA CardChanges ==
  ASSUME AccountShown(view), NEW card \in {"connection", "policy"}, NEW w, NEW c,
         w = [view EXCEPT ![card] = c], DOMAIN c = CardFields, c.form = view[card].form
  PROVE  Keeps(view, w)
<1>1. DOMAIN w = DOMAIN view /\ w[card] = c
      /\ \A other \in {"connection", "policy"} \ {card} : w[other] = view[other]
  BY DEF AccountShown
<1> QED
  BY <1>1 DEF Keeps, AccountShown

LEMMA CardIsSaved ==
  ASSUME AccountInv, NEW card \in {"connection", "policy"}, SaveCard(card)
  PROVE  AccountStep
<1>1. AccountShown(view) /\ AccountRun /\ DOMAIN view[card] = CardFields
  BY DEF AccountInv, AccountShown
<1> DEFINE c == [view[card] EXCEPT !.busy = TRUE]
<1>2. view' = [view EXCEPT ![card].busy = TRUE]
  BY DEF SaveCard
<1>3. view' = [view EXCEPT ![card] = c]
  BY <1>2
<1>4. DOMAIN c = CardFields /\ c.form = view[card].form
  BY <1>1 DEF CardFields
<1> HIDE DEF c
<1>5. Keeps(view, view')
  BY <1>1, <1>3, <1>4, CardChanges
<1>6. PICK asked : Begin(Handler("save-card", card, asked))
  BY DEF SaveCard
<1> QED
  BY <1>1, <1>5, <1>6, NewAccountHandler, AccountBegins DEF AccountStep

LEMMA CardAnswered ==
  ASSUME AccountInv, NEW k \in Slots, CardSaved(k) PROVE AccountStep
<1>1. AccountShown(view) /\ AccountRun /\ AccountHandler(run[k])
  BY DEF AccountInv, AccountRun
<1> DEFINE card == run[k].arg
           answer == run[k].got[CHOOSE r \in DOMAIN run[k].got : TRUE]
<1>2. card \in {"connection", "policy"} /\ Ends(k)
  BY <1>1 DEF CardSaved, AccountHandler, Answered, Rejected, Running
<1>3. DOMAIN view[card] = CardFields
  BY <1>1, <1>2 DEF AccountShown
<1>4. AccountRun'
  BY <1>1, <1>2, AccountEnds
<1>5. CASE view' = [view EXCEPT ![card].busy = FALSE]
  <2> DEFINE c == [view[card] EXCEPT !.busy = FALSE]
  <2>1. view' = [view EXCEPT ![card] = c]
    BY <1>5
  <2>2. DOMAIN c = CardFields /\ c.form = view[card].form
    BY <1>3 DEF CardFields
  <2> HIDE DEF c
  <2> QED
    BY <1>1, <1>2, <1>4, <2>1, <2>2, CardChanges DEF AccountStep
<1>6. CASE view' = WithBox([view EXCEPT ![card].busy = FALSE, ![card].editing = FALSE], answer)
  <2> DEFINE w == [view EXCEPT ![card].busy = FALSE, ![card].editing = FALSE]
             c == [view[card] EXCEPT !.busy = FALSE, !.editing = FALSE]
  <2>1. w = [view EXCEPT ![card] = c]
    BY <1>1, <1>2, <1>3 DEF AccountShown
  <2>2. DOMAIN c = CardFields /\ c.form = view[card].form /\ c.editing = FALSE
    BY <1>3 DEF CardFields
  <2>3. view' = WithBox(w, answer)
    BY <1>6
  <2> HIDE DEF w, c
  <2>4. Keeps(view, w)
    BY <1>1, <1>2, <2>1, <2>2, CardChanges
  <2>5. w.connection.editing => view.connection.editing
    BY <1>1, <1>2, <2>1, <2>2 DEF AccountShown
  <2> QED
    BY <1>4, <2>3, <2>4, <2>5, BoxIsShown DEF AccountStep
<1> QED
  BY <1>5, <1>6 DEF CardSaved

LEMMA AccountSteps ==
  ASSUME AccountInv, Account PROVE AccountStep
<1>1. CASE AccountEvent
  <2>1. UNCHANGED <<view, run>>
    BY <1>1 DEF AccountEvent, Event, tab
  <2> QED
    BY <2>1, Untouched, AccountSame DEF AccountInv, AccountShown, AccountStep
<1>2. CASE \/ RunNow \/ Disconnect \/ SaveSharedAccess \/ MakeShared
           \/ TransferPrivate \/ MakePrivate
  BY <1>2, BoxPressed DEF RunNow, Disconnect, SaveSharedAccess, MakeShared, TransferPrivate,
     MakePrivate
<1> QED
  BY <1>1, <1>2, AccountReloads, CardsEdited, CardIsSaved, AccountArrives, CyclesArrive,
     AccessArrives, BoxAnswered, CardAnswered DEF Account

LEMMA AccountServed ==
  ASSUME AccountInv, NEW k \in Slots, Served(k) \/ Lost(k) PROVE AccountStep
<1>1. AccountShown(view) /\ AccountRun /\ AccountHandler(run[k])
  BY DEF AccountInv, AccountRun
<1>2. Slotted
  BY <1>1 DEF Slotted, AccountRun, AccountHandler
<1>3. PICK q \in run[k].asked : \E o \in Reply(q) : \E h : ServedAs(k, q, o, h)
  BY <1>2, AnsweredOrLost
<1>4. PICK o \in Reply(q) : \E h : ServedAs(k, q, o, h)
  BY <1>3
<1>5. PICK h : ServedAs(k, q, o, h)
  BY <1>4
<1>6. /\ run' = [run EXCEPT ![k] = h] /\ view' = view
      /\ DOMAIN h = HandlerFields /\ h.of = run[k].of /\ h.arg = run[k].arg
  BY <1>5 DEF ServedAs, Answering
<1>7. AccountHandler(h)
  BY <1>1, <1>6 DEF AccountHandler, Shaped
<1> QED
  BY <1>1, <1>6, <1>7, Untouched, AccountChanges DEF AccountShown, AccountStep

LEMMA AccountInitially ==
  ASSUME Init, page = "account" PROVE AccountInv
<1>1. AccountInit /\ Opened({LoadAccount("open")})
  BY DEF Init
<1>2. run = [k \in Slots |-> IF k = 1 THEN LoadAccount("open") ELSE Idle]
  BY <1>1 DEF Opened
<1>3. AccountRun
  BY <1>2, AccountLoads, IdleIsAccount DEF AccountRun
<1>4. view = [box |-> NotLoaded, content |-> TRUE, access |-> NotLoaded, ticked |-> {},
              busy |-> FALSE, left |-> FALSE, timer |-> FALSE,
              connection |-> Card("stored"), policy |-> Card("stored")]
  BY <1>1 DEF AccountInit
<1>5. AccountShown(view)
  BY <1>4, CardIs DEF AccountShown
<1> QED
  BY <1>3, <1>5 DEF AccountInv

LEMMA AccountNext ==
  ASSUME AccountInv, page = "account", [Next]_vars PROVE AccountStep
<1>1. CASE UNCHANGED vars \/ Forgotten
  <2>1. UNCHANGED <<view, run>>
    BY <1>1 DEF vars, tab, Forgotten, ServeAdrift
  <2> QED
    BY <2>1, Untouched, AccountSame DEF AccountInv, AccountShown, AccountStep
<1>2. CASE Account
  BY <1>2, AccountSteps
<1>3. CASE \E k \in Slots : Served(k) \/ Lost(k)
  BY <1>3, AccountServed
<1> QED
  BY <1>1, <1>2, <1>3 DEF Next, Clusters, Processing, Review, Notifications, Smtp, Memory,
     Learning, RulesPage, Structure, Onboarding

\* What is typed into the connection card survives every answer that arrives meanwhile
\* (the effect of ConnectionSettingsCard, app/accounts/[id]).
THEOREM TypingIsKept == Spec => TypedIsKept
<1> DEFINE I == page = "account" => AccountInv
           A == page = "account" /\ view.connection.editing /\ view'.connection.editing
                  => view'.connection.form \in {view.connection.form, "typed"}
<1>1. Init => I
  BY AccountInitially
<1>2. I /\ [Next]_vars => I'
  <2> SUFFICES ASSUME I, [Next]_vars, page' = "account" PROVE AccountInv'
    OBVIOUS
  <2>1. AccountStep
    BY AccountNext, PageStays
  <2> QED
    BY <2>1 DEF AccountStep, Keeps, AccountInv, AccountShown
<1>3. I /\ [Next]_vars => [A]_vars
  BY AccountNext DEF AccountStep, Keeps
<1> QED
  BY <1>1, <1>2, <1>3, PTL DEF Spec, TypedIsKept

-----------------------------------------------------------------------------
(* The wizard: what its last step says is true. *)

\* Naturals have a least one among them; the wizard takes up the oldest mailbox.
LEMMA LeastNatural ==
  ASSUME NEW T, T \subseteq Nat, T # {}
  PROVE  \E x \in T : \A y \in T : x <= y
<1>1. IsWellFoundedOn(OpToRel(<, Nat), Nat)
  BY NatLessThanWellFounded, Zenon
<1>2. \E x \in T : \A y \in T : ~ (<<y, x>> \in OpToRel(<, Nat))
  BY <1>1, WFMin, Zenon
<1>3. PICK x \in T : \A y \in T : ~ (<<y, x>> \in OpToRel(<, Nat))
  BY <1>2, Zenon
<1>4. \A y \in T : ~ (y < x)
  BY <1>3 DEF OpToRel
<1> QED
  BY <1>4

Buttons == {"oauth", "test", "privacy", "behavior", "existing"}
MainHandlers == Buttons \cup {"load-wizard"}
Steps == {"welcome", "mailbox", "privacy", "behavior", "existing", "ready"}
Begun == {"active", "ended"}

WizardStored(a) == DOMAIN a = {"boxes", "job", "admin"} /\ DOMAIN a.job = Connected

\* A backfill that has begun stays begun.
JobsKept(job, later) == \A i \in Connected : job[i] \in Begun => later[i] \in Begun

IsTold(box) == box.id \in Connected

OfBox == {"own", "share", "replace-access", "patch", "backfills", "start-backfill"}

WizardRequest(q) ==
  /\ q.to \in OfBox \cup {"accounts", "members", "test", "authorize", "create"}
  /\ q.to \in OfBox => q.box \in Connected

\* What a button asks for; the last one asks about the mailbox that is shown.
Sends(of, q, box) ==
  /\ WizardRequest(q)
  /\ of = "load-wizard" => q = [to |-> "accounts"]
  /\ of = "privacy" => q.to \in {"create", "own", "share", "replace-access"}
  /\ of = "behavior" => q.to = "patch"
  /\ of = "existing" =>
       q.to \in {"backfills", "start-backfill"} /\ q.box = box.id /\ box # NoMailbox

\* What is true of an answer from then on.
Truthful(q, answer, job) ==
  /\ q.to = "accounts" => \A box \in answer : IsTold(box)
  /\ q.to \in {"create", "own", "share", "patch"} => IsTold(answer)
  /\ q.to = "start-backfill" \/ (q.to = "backfills" /\ Underway(answer)) =>
       job[q.box] \in Begun

WizardHandler(h, box, job) ==
  /\ Shaped(h)
  /\ h.of \in MainHandlers \cup {"idle", "load-members"}
  /\ DOMAIN h = HandlerFields =>
       /\ h.settles = FALSE
       /\ h.failed \/ \E q : h.asked \cup DOMAIN h.got = {q}
       /\ \A q \in h.asked \cup DOMAIN h.got : Sends(h.of, q, box)
       /\ \A q \in DOMAIN h.got : Truthful(q, h.got[q], job)

WizardShown ==
  /\ DOMAIN view = {"step", "loading", "busy", "left", "box", "analyze", "asked", "admin"}
  /\ view.step \in Steps
  /\ view.box # NoMailbox => IsTold(view.box)

\* One button is at work, or the load that the wizard begins with.
OneMain ==
  /\ \A j, k \in Slots : run[j].of \in MainHandlers /\ run[k].of \in MainHandlers => j = k
  /\ \A k \in Slots : run[k].of = "load-wizard" => view.loading
  /\ \A k \in Slots : run[k].of \in Buttons => view.busy /\ ~ view.loading

ReadyHolds ==
  view.step = "ready" /\ view.analyze =>
    view.box # NoMailbox /\ api.job[view.box.id] \in Begun

WizardInv ==
  /\ Slotted
  /\ adrift = {}
  /\ WizardStored(api)
  /\ WizardShown
  /\ \A k \in Slots : WizardHandler(run[k], view.box, api.job)
  /\ OneMain
  /\ ReadyHolds

\* A request of the wizard ends no backfill.
Outcome(q, o) ==
  /\ WizardStored(o.api) /\ JobsKept(api.job, o.api.job)
  /\ o.ok => Truthful(q, o.answer, o.api.job)

LEMMA Refusing ==
  ASSUME WizardStored(api), NEW q, NEW o, o = No PROVE Outcome(q, o)
BY NoIs DEF Outcome, JobsKept, WizardStored

LEMMA Storing ==
  ASSUME WizardStored(api), NEW q, q.to \in {"create", "own", "share", "replace-access", "patch"},
         NEW i \in Connected, NEW box, NEW o, o = Stored(i, box)
  PROVE  Outcome(q, o)
<1>1. o.api = [api EXCEPT !.boxes[i] = box] /\ o.answer = Told(i, box)
  BY OkIs DEF Stored
<1>2. WizardStored(o.api) /\ o.api.job = api.job
  BY <1>1 DEF WizardStored
<1>3. IsTold(o.answer)
  BY <1>1 DEF IsTold, Told
<1> QED
  BY <1>2, <1>3 DEF Outcome, JobsKept, Truthful

LEMMA Reading ==
  ASSUME WizardStored(api), NEW q, NEW answer, Truthful(q, answer, api.job),
         NEW o, o = Ok(api, answer)
  PROVE  Outcome(q, o)
<1>1. o.api = api /\ o.answer = answer
  BY OkIs
<1> QED
  BY <1>1 DEF Outcome, JobsKept, WizardStored

LEMMA WizardServes ==
  ASSUME WizardStored(api), NEW q, WizardRequest(q), NEW o \in OnboardingReply(q)
  PROVE  Outcome(q, o)
<1>1. CASE o = No
  BY <1>1, Refusing
<1>2. CASE o # No /\ q.to = "accounts"
  <2> DEFINE told == {Told(i, api.boxes[i]) : i \in {j \in Used : Accessible(api.boxes[j], Me)}}
  <2>1. o = Ok(api, told)
    BY <1>2 DEF OnboardingReply
  <2>2. \A box \in told : IsTold(box)
    BY DEF Told, IsTold, Used
  <2> HIDE DEF told
  <2>3. Truthful(q, told, api.job)
    BY <1>2, <2>2 DEF Truthful
  <2> QED
    BY <2>1, <2>3, Reading
<1>3. CASE o # No /\ q.to \in {"members", "test", "authorize"}
  <2>1. PICK answer : o = Ok(api, answer)
    BY <1>3 DEF OnboardingReply
  <2>2. Truthful(q, answer, api.job)
    BY <1>3 DEF Truthful
  <2> QED
    BY <2>1, <2>2, Reading
<1>4. CASE o # No /\ q.to = "create"
  <2>1. o \in CreateReply(q)
    BY <1>4 DEF OnboardingReply
  <2>2. PICK i \in Connected : o = Stored(i, Fresh("imap", q.mode, q.users))
    BY <1>4, <2>1 DEF CreateReply
  <2> QED
    BY <1>4, <2>2, Storing
<1>5. CASE o # No /\ q.to \in OfBox
  <2>0. q.box \in Connected
    BY <1>5 DEF WizardRequest
  <2>1. o \in ManagedReply(q)
    BY <1>5 DEF OnboardingReply, OfBox
  <2>2. CASE q.to \in {"own", "share", "replace-access", "patch"}
    <3>1. \E box : o = Stored(q.box, box)
      BY <1>5, <2>1, <2>2 DEF ManagedReply
    <3> QED
      BY <2>0, <2>2, <3>1, Storing
  <2>3. CASE q.to = "backfills"
    <3>1. o = Ok(api, api.job[q.box])
      BY <2>1, <2>3 DEF ManagedReply
    <3>2. Truthful(q, api.job[q.box], api.job)
      BY <2>3 DEF Truthful, Underway, Begun
    <3> QED
      BY <3>1, <3>2, Reading
  <2>4. CASE q.to = "start-backfill"
    <3>1. o = Ok([api EXCEPT !.job[q.box] = "active"], "started")
      BY <1>5, <2>1, <2>4 DEF ManagedReply
    <3>2. o.api = [api EXCEPT !.job[q.box] = "active"]
      BY <3>1 DEF Ok
    <3>3. /\ WizardStored(o.api)
          /\ \A i \in Connected : o.api.job[i] = IF i = q.box THEN "active" ELSE api.job[i]
      BY <2>0, <3>2 DEF WizardStored
    <3> QED
      BY <2>0, <2>4, <3>3 DEF Outcome, JobsKept, Truthful, Begun
  <2> QED
    BY <1>5, <2>2, <2>3, <2>4 DEF OfBox
<1> QED
  BY <1>1, <1>2, <1>3, <1>4, <1>5 DEF WizardRequest

\* Others end no backfill that has not begun, and forget none.
LEMMA WizardEvents ==
  ASSUME WizardStored(api), OnboardingEvent
  PROVE  /\ WizardStored(api') /\ JobsKept(api.job, api'.job)
         /\ UNCHANGED <<page, view, run, adrift>>
<1>1. UNCHANGED <<page, view, run, adrift>>
  BY DEF OnboardingEvent, Event, tab
<1>2. CASE \/ \E i, box : api' = [api EXCEPT !.boxes[i] = box]
           \/ \E i \in Used : \E u, users :
                api' \in {[api EXCEPT !.boxes[i] = SharedBy(@, u, users)],
                          [api EXCEPT !.boxes[i] = OwnedBy(@, u)],
                          [api EXCEPT !.boxes[i].mode = "deleted", !.boxes[i].owner = Nobody]}
  <2>1. DOMAIN api' = DOMAIN api /\ api'.job = api.job
    BY <1>2 DEF WizardStored
  <2> QED
    BY <1>1, <2>1 DEF WizardStored, JobsKept
<1>3. CASE \E i \in Used : \E job \in Begun : api' = [api EXCEPT !.job[i] = job]
  <2>1. PICK i \in Used, job \in Begun : api' = [api EXCEPT !.job[i] = job]
    BY <1>3
  <2>2. /\ WizardStored(api')
        /\ \A j \in Connected : api'.job[j] = IF j = i THEN job ELSE api.job[j]
    BY <2>1 DEF WizardStored, Used
  <2> QED
    BY <1>1, <2>2 DEF JobsKept
<1> QED
  BY <1>2, <1>3 DEF OnboardingEvent, Begun

\* A handler that has just begun.
LEMMA NewWizardHandler ==
  ASSUME NEW of \in MainHandlers \cup {"load-members"}, NEW arg, NEW q, NEW box, NEW job,
         Sends(of, q, box)
  PROVE  WizardHandler(Handler(of, arg, {q}), box, job) /\ Handler(of, arg, {q}).of = of
<1> DEFINE h == Handler(of, arg, {q})
<1>1. /\ DOMAIN h = HandlerFields /\ h.of = of /\ h.asked = {q} /\ h.settles = FALSE
      /\ h.got = <<>>
  BY DEF Handler, HandlerFields
<1>2. DOMAIN h.got = {}
  BY <1>1
<1> HIDE DEF h
<1>3. h.asked \cup DOMAIN h.got = {q}
  BY <1>1, <1>2
<1>4. WizardHandler(h, box, job)
  BY <1>1, <1>2, <1>3 DEF WizardHandler, Shaped
<1> QED
  BY <1>1, <1>4 DEF h

LEMMA IdleIsWizard == \A box, job : WizardHandler(Idle, box, job)
<1>1. Idle.of = "idle" /\ DOMAIN Idle # HandlerFields
  BY DEF Idle, HandlerFields
<1> QED
  BY <1>1, IdleIs DEF WizardHandler

\* What one handler is told or does leaves the others as they are.
LEMMA WizardHandlerStays ==
  ASSUME NEW h, NEW box, NEW job, NEW shown, NEW later, WizardHandler(h, box, job),
         JobsKept(job, later), shown = box \/ h.of # "existing"
  PROVE  WizardHandler(h, shown, later)
<1>1. ASSUME NEW q, Sends(h.of, q, box) PROVE Sends(h.of, q, shown)
  BY <1>1 DEF Sends
<1>2. ASSUME NEW q, Sends(h.of, q, box), NEW answer, Truthful(q, answer, job)
      PROVE  Truthful(q, answer, later)
  BY <1>2 DEF Truthful, Sends, WizardRequest, OfBox, JobsKept
<1> QED
  BY <1>1, <1>2 DEF WizardHandler

\* One handler changes, and the view with it.
LEMMA WizardKept ==
  ASSUME WizardInv, adrift' = adrift, WizardStored(api'), JobsKept(api.job, api'.job),
         NEW k \in Slots, NEW h, run' = [run EXCEPT ![k] = h],
         WizardHandler(h, view'.box, api'.job), WizardShown', ReadyHolds',
         view'.box = view.box \/ run[k].of \in MainHandlers,
         \/ h.of \notin MainHandlers
         \/ run[k].of = h.of
         \/ \A j \in Slots : run[j].of \notin MainHandlers,
         h.of = "load-wizard" => view'.loading,
         h.of \in Buttons => view'.busy /\ ~ view'.loading,
         run[k].of \in MainHandlers \/ h.of \in MainHandlers
           \/ (view'.busy = view.busy /\ view'.loading = view.loading)
  PROVE  WizardInv'
<1>1. Slotted' /\ run'[k] = h /\ \A j \in Slots \ {k} : run'[j] = run[j]
  BY OneSlot DEF WizardInv, WizardHandler
<1>2. \A j \in Slots \ {k} : run[k].of \in MainHandlers => run[j].of \notin MainHandlers
  BY DEF WizardInv, OneMain
<1>3. \A j \in Slots : WizardHandler(run'[j], view'.box, api'.job)
  <2> SUFFICES ASSUME NEW j \in Slots \ {k} PROVE WizardHandler(run[j], view'.box, api'.job)
    BY <1>1
  <2>1. WizardHandler(run[j], view.box, api.job)
    BY DEF WizardInv
  <2>2. view'.box = view.box \/ run[j].of # "existing"
    BY <1>2 DEF MainHandlers, Buttons
  <2> QED
    BY <2>1, <2>2, WizardHandlerStays
<1>4. \A i, j \in Slots : run'[i].of \in MainHandlers /\ run'[j].of \in MainHandlers => i = j
  BY <1>1, <1>2 DEF WizardInv, OneMain
<1>5. \A j \in Slots : /\ run'[j].of = "load-wizard" => view'.loading
                       /\ run'[j].of \in Buttons => view'.busy /\ ~ view'.loading
  <2> SUFFICES ASSUME NEW j \in Slots \ {k}
               PROVE  /\ run[j].of = "load-wizard" => view'.loading
                      /\ run[j].of \in Buttons => view'.busy /\ ~ view'.loading
    BY <1>1
  <2>1. CASE run[j].of \notin MainHandlers
    BY <2>1 DEF MainHandlers
  <2>2. CASE run[j].of \in MainHandlers
    <3>1. run[k].of \notin MainHandlers /\ h.of \notin MainHandlers
      BY <1>2, <2>2
    <3> QED
      BY <3>1 DEF WizardInv, OneMain
  <2> QED
    BY <2>1, <2>2
<1>6. OneMain'
  BY <1>4, <1>5 DEF OneMain
<1>7. WizardStored(api)'
  BY DEF WizardStored
<1>8. \A j \in Slots : WizardHandler(run[j], view.box, api.job)'
  BY <1>3 DEF WizardHandler, Shaped, Sends, Truthful, IsTold
<1> QED
  BY <1>1, <1>6, <1>7, <1>8 DEF WizardInv

\* An answer is the truth when it arrives.
LEMMA WizardServed ==
  ASSUME WizardInv, page = "onboarding", NEW k \in Slots, Served(k) \/ Lost(k)
  PROVE  WizardInv'
<1>1. /\ Slotted /\ WizardStored(api) /\ WizardHandler(run[k], view.box, api.job)
      /\ WizardShown /\ ReadyHolds /\ OneMain
  BY DEF WizardInv
<1>2. PICK q \in run[k].asked : \E o \in OnboardingReply(q) : \E h : ServedAs(k, q, o, h)
  BY <1>1, AnsweredOrLost DEF Reply
<1>3. PICK o \in OnboardingReply(q) : \E h : ServedAs(k, q, o, h)
  BY <1>2
<1>4. PICK h : ServedAs(k, q, o, h)
  BY <1>3
<1>5. /\ DOMAIN run[k] = HandlerFields /\ run[k].settles = FALSE
      /\ Sends(run[k].of, q, view.box)
  BY <1>1, <1>2, IdleIs DEF WizardHandler, Shaped
<1>6. Outcome(q, o)
  BY <1>1, <1>5, WizardServes DEF Sends
<1>7. /\ run' = [run EXCEPT ![k] = h] /\ view' = view /\ adrift' = adrift
      /\ DOMAIN h = HandlerFields
      /\ h.of = run[k].of /\ h.settles = FALSE /\ h.asked = run[k].asked \ {q}
      /\ \/ /\ h.got = Over(run[k].got, [r \in {q} |-> o.answer]) /\ h.failed = run[k].failed
            /\ o.ok /\ api' = o.api
         \/ h.got = run[k].got /\ h.failed = TRUE /\ api' \in {api, o.api}
  BY <1>4, <1>5 DEF ServedAs, Answering
<1>8. WizardStored(api') /\ JobsKept(api.job, api'.job)
  <2>1. JobsKept(api.job, api.job)
    BY DEF JobsKept
  <2> QED
    BY <1>1, <1>6, <1>7, <2>1 DEF Outcome
<1>9. WizardHandler(run[k], view.box, api'.job)
  BY <1>1, <1>8, WizardHandlerStays
<1>10. WizardHandler(h, view.box, api'.job)
  <2>1. CASE h.got = run[k].got /\ h.failed = TRUE
    BY <1>5, <1>7, <1>9, <2>1 DEF WizardHandler, Shaped
  <2>2. CASE /\ h.got = Over(run[k].got, [r \in {q} |-> o.answer]) /\ h.failed = run[k].failed
             /\ o.ok /\ api' = o.api
    <3>1. Truthful(q, o.answer, api'.job)
      BY <1>6, <2>2 DEF Outcome
    <3>2. /\ DOMAIN h.got = DOMAIN run[k].got \cup {q}
          /\ \A r \in DOMAIN run[k].got : h.got[r] = run[k].got[r]
          /\ q \notin DOMAIN run[k].got => h.got[q] = o.answer
      BY <2>2 DEF Over
    <3>3. h.asked \cup DOMAIN h.got = run[k].asked \cup DOMAIN run[k].got
      BY <1>7, <3>2
    <3>4. \A r \in DOMAIN h.got : Truthful(r, h.got[r], api'.job)
      BY <1>5, <1>9, <3>1, <3>2 DEF WizardHandler
    <3> QED
      BY <1>5, <1>7, <1>9, <2>2, <3>3, <3>4 DEF WizardHandler, Shaped
  <2> QED
    BY <1>7, <2>1, <2>2
<1>11. WizardShown' /\ ReadyHolds'
  BY <1>1, <1>7, <1>8 DEF WizardShown, ReadyHolds, JobsKept, IsTold
<1>12. /\ h.of = "load-wizard" => view'.loading
       /\ h.of \in Buttons => view'.busy /\ ~ view'.loading
  BY <1>1, <1>7 DEF OneMain
<1> QED
  BY <1>7, <1>8, <1>10, <1>11, <1>12, WizardKept

\* The user looks elsewhere, and nothing is asked.
LEMMA WizardLooks ==
  ASSUME WizardInv, UNCHANGED <<api, run, adrift>>, DOMAIN view' = DOMAIN view,
         view'.box = view.box, view'.busy = view.busy, view'.loading = view.loading,
         view'.step \in Steps, ReadyHolds'
  PROVE  WizardInv'
<1>1. WizardShown' /\ OneMain' /\ Slotted' /\ WizardStored(api')
  BY DEF WizardInv, WizardShown, OneMain, Slotted, WizardStored, IsTold
<1>2. \A k \in Slots : WizardHandler(run'[k], view'.box, api'.job)
  BY DEF WizardInv
<1> QED
  BY <1>1, <1>2 DEF WizardInv, WizardStored

\* Where the buttons lead, without a request.
Led(step, left, analyze) ==
  view' = [view EXCEPT !.step = step, !.left = left, !.analyze = analyze]

LEMMA WizardLed ==
  ASSUME WizardInv, UNCHANGED <<api, run, adrift>>,
         NEW step \in Steps, NEW left, NEW analyze, Led(step, left, analyze),
         step # "ready" \/ ~ analyze \/ (step = view.step /\ analyze = view.analyze)
  PROVE  WizardInv'
<1>1. /\ DOMAIN view' = DOMAIN view /\ view'.box = view.box /\ view'.busy = view.busy
      /\ view'.loading = view.loading /\ view'.step = step /\ view'.analyze = analyze
  BY DEF WizardInv, WizardShown, Led
<1>2. ReadyHolds'
  BY <1>1 DEF WizardInv, ReadyHolds
<1> QED
  BY <1>1, <1>2, WizardLooks

LEMMA BackLeads ==
  ASSUME NEW step \in Steps, step # "welcome"
  PROVE  Before(step) \in Steps /\ Before(step) # "ready"
BY DEF Before, Steps

\* A button that sends a request.
LEMMA WizardPressed ==
  ASSUME WizardInv, NEW of \in Buttons, NEW q, Sends(of, q, view.box), ~ view.loading,
         Wait(of, q)
  PROVE  WizardInv'
<1> DEFINE h == Handler(of, "click", {q})
<1>1. PICK k \in Slots : Free(k) /\ run' = [run EXCEPT ![k] = h]
  BY DEF Wait, Begin
<1>2. run[k].of = "idle"
  BY <1>1, IdleIs DEF Free
<1>3. view' = [view EXCEPT !.busy = TRUE] /\ ~ view.busy /\ api' = api /\ adrift' = adrift
  BY DEF Wait, Timer
<1>4. /\ DOMAIN view' = DOMAIN view /\ view'.box = view.box /\ view'.busy = TRUE
      /\ view'.loading = view.loading /\ view'.step = view.step /\ view'.analyze = view.analyze
  BY <1>3 DEF WizardInv, WizardShown
<1>5. WizardShown' /\ ReadyHolds'
  BY <1>3, <1>4 DEF WizardInv, WizardShown, ReadyHolds, IsTold
<1>6. WizardHandler(h, view'.box, api'.job) /\ h.of = of
  BY <1>4, NewWizardHandler DEF MainHandlers
<1> HIDE DEF h
<1>7. \A j \in Slots : run[j].of \notin MainHandlers
  BY <1>3 DEF WizardInv, OneMain, MainHandlers
<1>8. WizardStored(api') /\ JobsKept(api.job, api'.job)
  BY <1>3 DEF WizardInv, WizardStored, JobsKept
<1>9. of # "load-wizard" /\ h.of \in MainHandlers
  BY <1>6 DEF Buttons, MainHandlers
<1> QED
  BY <1>1, <1>3, <1>4, <1>5, <1>6, <1>7, <1>8, <1>9, WizardKept

\* The answer of a handler that waits for nothing more.
LEMMA WizardAnswer ==
  ASSUME WizardInv, NEW k \in Slots, NEW of, of # "idle", Answered(k, of),
         NEW q, q = CHOOSE r \in DOMAIN run[k].got : TRUE
  PROVE  /\ DOMAIN run[k].got = {q} /\ Sends(of, q, view.box)
         /\ Truthful(q, run[k].got[q], api.job)
<1>1. run[k].of = of /\ ~ run[k].failed /\ run[k].asked = {}
  BY DEF Answered, Running
<1>2. DOMAIN run[k] = HandlerFields
  BY <1>1, IdleIs DEF WizardInv, Slotted, Shaped
<1>3. WizardHandler(run[k], view.box, api.job)
  BY DEF WizardInv
<1>4. PICK r : DOMAIN run[k].got = {r}
  BY <1>1, <1>2, <1>3 DEF WizardHandler
<1>5. q = r
  BY <1>4
<1> QED
  BY <1>1, <1>2, <1>3, <1>4, <1>5 DEF WizardHandler

\* A main handler ends, or asks for more.
LEMMA WizardGoesOn ==
  ASSUME WizardInv, NEW k \in Slots, run[k].of \in MainHandlers, NEW h,
         h = Idle \/ h.of = run[k].of, WizardHandler(h, view'.box, api.job), Becomes(k, h),
         DOMAIN view' = DOMAIN view, view'.step \in Steps,
         view'.box = view.box \/ IsTold(view'.box), ReadyHolds',
         h # Idle => view'.busy = view.busy /\ view'.loading = view.loading
  PROVE  WizardInv'
<1>1. run' = [run EXCEPT ![k] = h] /\ api' = api /\ adrift' = adrift
  BY DEF Becomes
<1>2. WizardStored(api') /\ JobsKept(api.job, api'.job)
  BY <1>1 DEF WizardInv, WizardStored, JobsKept
<1>3. WizardShown'
  BY DEF WizardInv, WizardShown, IsTold
<1>4. h.of \notin MainHandlers \/ run[k].of = h.of
  BY IdleIs DEF MainHandlers, Buttons
<1>5. /\ h.of = "load-wizard" => view'.loading
      /\ h.of \in Buttons => view'.busy /\ ~ view'.loading
  <2>1. CASE h = Idle
    BY <2>1, IdleIs DEF Buttons
  <2>2. CASE h # Idle
    BY <2>2 DEF WizardInv, OneMain
  <2> QED
    BY <2>1, <2>2
<1>6. WizardHandler(h, view'.box, api'.job)
  BY <1>1
<1> QED
  BY <1>1, <1>2, <1>3, <1>4, <1>5, <1>6, WizardKept

LEMMA OldestIs ==
  ASSUME NEW boxes, boxes # {}, \A box \in boxes : IsTold(box)
  PROVE  Oldest(boxes) \in boxes
<1> DEFINE ids == {box.id : box \in boxes}
<1>1. ids \subseteq Nat /\ ids # {}
  BY OnboardingAssumption DEF IsTold
<1>2. PICK least \in ids : \A i \in ids : least <= i
  BY <1>1, LeastNatural
<1>3. PICK box \in boxes : box.id = least
  BY <1>2
<1>4. \A other \in boxes : box.id <= other.id
  BY <1>2, <1>3
<1>5. \E old \in boxes : \A other \in boxes : old.id <= other.id
  BY <1>4
<1> QED
  BY <1>5 DEF Oldest

LEMMA WizardArrives ==
  ASSUME WizardInv, NEW k \in Slots, WizardLoaded(k)
  PROVE  WizardInv'
<1>0. WizardShown /\ WizardHandler(run[k], view.box, api.job) /\ ReadyHolds
  BY DEF WizardInv
<1>1. run[k].of = "load-wizard" /\ Becomes(k, Idle)
  BY DEF WizardLoaded, Answered, Rejected, Running, Ends
<1>2. WizardHandler(Idle, view'.box, api.job) /\ run[k].of \in MainHandlers
  BY <1>1, IdleIsWizard DEF MainHandlers
<1>3. CASE Rejected(k, "load-wizard")
  <2>1. view' = [view EXCEPT !.loading = FALSE]
    BY <1>3 DEF WizardLoaded, Answered, Rejected
  <2>2. /\ DOMAIN view' = DOMAIN view /\ view'.box = view.box /\ view'.step = view.step
        /\ view'.analyze = view.analyze
    BY <1>0, <2>1 DEF WizardShown
  <2>3. ReadyHolds' /\ view'.step \in Steps
    BY <1>0, <1>1, <2>2 DEF Becomes, ReadyHolds, WizardShown
  <2> QED
    BY <1>1, <1>2, <2>2, <2>3, WizardGoesOn
<1>4. CASE Answered(k, "load-wizard")
  <2> DEFINE boxes == run[k].got[[to |-> "accounts"]]
             own == {box \in boxes : box.kind = "oauth"}
  <2>1. PICK q : q = CHOOSE r \in DOMAIN run[k].got : TRUE
    OBVIOUS
  <2>2. /\ Sends("load-wizard", q, view.box)
        /\ Truthful(q, run[k].got[q], api.job)
    BY <1>4, <2>1, WizardAnswer
  <2>3. \A box \in boxes : IsTold(box)
    BY <2>2 DEF Sends, Truthful
  <2>4. boxes # {} => IsTold(Oldest(boxes))
    BY <2>3, OldestIs
  <2>5. \A box \in own : IsTold(box)
    BY <2>3
  <2>6. own # {} => IsTold(Oldest(own))
    BY <2>5, OldestIs
  <2>7. \/ view' = [[view EXCEPT !.loading = FALSE] EXCEPT !.step = "mailbox"]
        \/ \E step \in {"welcome", "mailbox"} :
             view' = [[view EXCEPT !.loading = FALSE] EXCEPT
                        !.step = step, !.box = IF boxes = {} THEN @ ELSE Oldest(boxes)]
        \/ own # {} /\ view' = [[view EXCEPT !.loading = FALSE] EXCEPT
                                  !.step = "privacy", !.box = Oldest(own)]
    BY <1>4 DEF WizardLoaded, Rejected, Answered
  <2> HIDE DEF boxes, own
  <2>8. /\ DOMAIN view' = DOMAIN view /\ view'.step \in {"welcome", "mailbox", "privacy"}
        /\ view'.box = view.box \/ IsTold(view'.box)
    BY <1>0, <2>4, <2>6, <2>7 DEF WizardShown
  <2>9. view'.step \in Steps /\ ReadyHolds'
    BY <2>8 DEF Steps, ReadyHolds
  <2> QED
    BY <1>1, <1>2, <2>8, <2>9, WizardGoesOn
<1> QED
  BY <1>3, <1>4 DEF WizardLoaded

LEMMA MembersArrive ==
  ASSUME WizardInv, NEW k \in Slots, MembersLoaded(k)
  PROVE  WizardInv'
<1>0. WizardShown /\ ReadyHolds
  BY DEF WizardInv
<1>1. /\ run[k].of = "load-members" /\ run' = [run EXCEPT ![k] = Idle]
      /\ api' = api /\ adrift' = adrift
  BY DEF MembersLoaded, Answered, Rejected, Running, Ends, Becomes
<1>2. view' = view \/ \E admin : view' = [view EXCEPT !.admin = admin]
  BY DEF MembersLoaded
<1>3. /\ DOMAIN view' = DOMAIN view /\ view'.box = view.box /\ view'.step = view.step
      /\ view'.analyze = view.analyze /\ view'.busy = view.busy /\ view'.loading = view.loading
  BY <1>0, <1>2 DEF WizardShown
<1>4. WizardShown' /\ ReadyHolds'
  BY <1>0, <1>1, <1>3 DEF WizardShown, ReadyHolds, IsTold
<1>5. WizardStored(api') /\ JobsKept(api.job, api'.job)
  BY <1>1 DEF WizardInv, WizardStored, JobsKept
<1>6. WizardHandler(Idle, view'.box, api'.job) /\ Idle.of = "idle"
  BY IdleIsWizard, IdleIs
<1>7. Idle.of \notin MainHandlers /\ Idle.of \notin Buttons /\ Idle.of # "load-wizard"
  BY <1>6 DEF MainHandlers, Buttons
<1> QED
  BY <1>1, <1>3, <1>4, <1>5, <1>6, <1>7, WizardKept

LEMMA SessionArrives ==
  ASSUME WizardInv, SessionKnown
  PROVE  WizardInv'
<1>0. WizardShown /\ ReadyHolds
  BY DEF WizardInv
<1>1. PICK k \in Slots : Free(k) /\ run' = [run EXCEPT ![k] = LoadMembers]
  BY DEF SessionKnown, Begin
<1>2. run[k].of = "idle" /\ api' = api /\ adrift' = adrift
  BY <1>1, IdleIs DEF Free, SessionKnown, Timer
<1>3. view' = [view EXCEPT !.asked = TRUE]
  BY DEF SessionKnown
<1>4. /\ DOMAIN view' = DOMAIN view /\ view'.box = view.box /\ view'.step = view.step
      /\ view'.analyze = view.analyze /\ view'.busy = view.busy /\ view'.loading = view.loading
  BY <1>0, <1>3 DEF WizardShown
<1>5. WizardShown' /\ ReadyHolds'
  BY <1>0, <1>2, <1>4 DEF WizardShown, ReadyHolds, IsTold
<1>6. WizardStored(api') /\ JobsKept(api.job, api'.job)
  BY <1>2 DEF WizardInv, WizardStored, JobsKept
<1>7. Sends("load-members", [to |-> "members"], view'.box)
  BY DEF Sends, WizardRequest, OfBox
<1>8. WizardHandler(LoadMembers, view'.box, api'.job) /\ LoadMembers.of = "load-members"
  BY <1>7, NewWizardHandler DEF LoadMembers
<1>9. /\ LoadMembers.of \notin MainHandlers /\ LoadMembers.of \notin Buttons
      /\ LoadMembers.of # "load-wizard"
  BY <1>8 DEF MainHandlers, Buttons
<1> QED
  BY <1>1, <1>2, <1>4, <1>5, <1>6, <1>8, <1>9, WizardKept

\* A button is done, and the wizard shows v.
LEMMA ButtonDone ==
  ASSUME WizardInv, NEW k \in Slots, run[k].of \in Buttons, NEW v, Done(k, v),
         DOMAIN v = DOMAIN view, v.step \in Steps,
         v.box = view.box \/ IsTold(v.box),
         v.step = "ready" /\ v.analyze => v.box # NoMailbox /\ api.job[v.box.id] \in Begun
  PROVE  WizardInv'
<1>0. WizardShown
  BY DEF WizardInv
<1>1. view' = [v EXCEPT !.busy = FALSE] /\ Becomes(k, Idle) /\ api' = api
  BY DEF Done, Ends, Becomes
<1>2. /\ DOMAIN view' = DOMAIN view /\ view'.step = v.step /\ view'.box = v.box
      /\ view'.analyze = v.analyze
  BY <1>0, <1>1 DEF WizardShown
<1>3. ReadyHolds'
  BY <1>1, <1>2 DEF ReadyHolds
<1>4. WizardHandler(Idle, view'.box, api.job) /\ run[k].of \in MainHandlers
  BY IdleIsWizard DEF MainHandlers
<1> QED
  BY <1>1, <1>2, <1>3, <1>4, WizardGoesOn

\* What the answer to a button does: only the last one says that the wizard is ready.
LEMMA ButtonAnswered ==
  ASSUME WizardInv, NEW k \in Slots, WizardAnswered(k)
  PROVE  WizardInv'
<1>0. WizardShown /\ ReadyHolds
  BY DEF WizardInv
<1>1. run[k].of \in Buttons /\ run[k].of \in MainHandlers
  BY DEF WizardAnswered, Answered, Rejected, Running, Buttons, MainHandlers
<1> DEFINE q == CHOOSE r \in DOMAIN run[k].got : TRUE
           answer == run[k].got[q]
<1>2. ASSUME NEW of \in Buttons, Answered(k, of)
      PROVE  /\ Sends(of, q, view.box) /\ Truthful(q, answer, api.job)
             /\ of = run[k].of
  BY <1>2, WizardAnswer DEF Buttons, Answered, Running
<1>3. CASE Answered(k, "oauth") /\ view' = [view EXCEPT !.left = TRUE] /\ Ends(k)
  <2>1. /\ DOMAIN view' = DOMAIN view /\ view'.step = view.step /\ view'.box = view.box
        /\ view'.analyze = view.analyze
    BY <1>0, <1>3 DEF WizardShown
  <2>2. api' = api /\ Becomes(k, Idle)
    BY <1>3 DEF Ends, Becomes
  <2>3. ReadyHolds' /\ view'.step \in Steps
    BY <1>0, <2>1, <2>2 DEF ReadyHolds, WizardShown
  <2>4. WizardHandler(Idle, view'.box, api.job)
    BY IdleIsWizard
  <2> QED
    BY <1>1, <2>1, <2>2, <2>3, <2>4, WizardGoesOn
<1>4. CASE Answered(k, "test") /\ Done(k, [view EXCEPT !.step = "privacy"])
  <2>1. ASSUME NEW v, v = [view EXCEPT !.step = "privacy"], Done(k, v) PROVE WizardInv'
    <3>1. DOMAIN v = DOMAIN view /\ v.step = "privacy" /\ v.box = view.box
      BY <1>0, <2>1 DEF WizardShown
    <3> QED
      BY <1>1, <2>1, <3>1, ButtonDone DEF Steps
  <2> QED
    BY <1>4, <2>1
<1>5. CASE /\ Answered(k, "privacy")
           /\ Done(k, [view EXCEPT !.step = "behavior",
                                   !.box = IF q.to = "replace-access" THEN @ ELSE answer])
  <2>1. q.to = "replace-access" \/ IsTold(answer)
    BY <1>2, <1>5 DEF Sends, Truthful, Buttons
  <2>2. \E box : /\ box = view.box \/ IsTold(box)
                 /\ Done(k, [view EXCEPT !.step = "behavior", !.box = box])
    <3>1. CASE q.to = "replace-access"
      <4>1. Done(k, [view EXCEPT !.step = "behavior", !.box = view.box])
        BY <1>0, <1>5, <3>1 DEF WizardShown
      <4> QED
        BY <4>1
    <3>2. CASE q.to # "replace-access"
      <4>1. Done(k, [view EXCEPT !.step = "behavior", !.box = answer])
        BY <1>5, <3>2
      <4> QED
        BY <2>1, <3>2, <4>1
    <3> QED
      BY <3>1, <3>2
  <2>3. PICK box : /\ box = view.box \/ IsTold(box)
                   /\ Done(k, [view EXCEPT !.step = "behavior", !.box = box])
    BY <2>2
  <2>4. ASSUME NEW v, v = [view EXCEPT !.step = "behavior", !.box = box], Done(k, v)
        PROVE  WizardInv'
    <3>1. DOMAIN v = DOMAIN view /\ v.step = "behavior" /\ v.box = box
      BY <1>0, <2>4 DEF WizardShown
    <3> QED
      BY <1>1, <2>3, <2>4, <3>1, ButtonDone DEF Steps
  <2> QED
    BY <2>3, <2>4
<1>6. CASE /\ Answered(k, "behavior")
           /\ Done(k, [view EXCEPT !.step = "existing", !.box = answer])
  <2>1. IsTold(answer)
    BY <1>2, <1>6 DEF Sends, Truthful, Buttons
  <2> HIDE DEF answer
  <2>2. ASSUME NEW v, v = [view EXCEPT !.step = "existing", !.box = answer], Done(k, v)
        PROVE  WizardInv'
    <3>1. DOMAIN v = DOMAIN view /\ v.step = "existing" /\ v.box = answer
      BY <1>0, <2>2 DEF WizardShown
    <3> QED
      BY <1>1, <2>1, <2>2, <3>1, ButtonDone DEF Steps
  <2> QED
    BY <1>6, <2>2
<1>7. CASE Answered(k, "existing") /\ q.to = "backfills" /\ ~ Underway(answer)
  <2>1. /\ Becomes(k, Handler("existing", "click", {[to |-> "start-backfill", box |-> q.box]}))
        /\ view' = view
    BY <1>7 DEF WizardAnswered, Answered, Rejected, Running
  <2>2. Sends("existing", q, view.box) /\ run[k].of = "existing"
    BY <1>2, <1>7 DEF Buttons
  <2> HIDE DEF q
  <2>3. Sends("existing", [to |-> "start-backfill", box |-> q.box], view.box)
    BY <1>7, <2>2 DEF Sends, WizardRequest, OfBox
  <2>4. ASSUME NEW h, h = Handler("existing", "click", {[to |-> "start-backfill", box |-> q.box]})
        PROVE  WizardHandler(h, view'.box, api.job) /\ h.of = run[k].of
    BY <2>1, <2>2, <2>3, <2>4, NewWizardHandler DEF MainHandlers, Buttons
  <2>5. ReadyHolds' /\ view'.step \in Steps
    BY <1>0, <2>1 DEF Becomes, ReadyHolds, WizardShown
  <2> QED
    BY <1>1, <2>1, <2>4, <2>5, WizardGoesOn
<1>8. CASE Answered(k, "existing") /\ ~ (q.to = "backfills" /\ ~ Underway(answer))
  <2>1. Done(k, [view EXCEPT !.step = "ready"])
    BY <1>8 DEF WizardAnswered, Answered, Rejected, Running
  <2>2. Sends("existing", q, view.box) /\ Truthful(q, answer, api.job)
    BY <1>2, <1>8 DEF Buttons
  <2>3. view.box # NoMailbox /\ api.job[view.box.id] \in Begun
    BY <1>8, <2>2 DEF Sends, Truthful
  <2>4. ASSUME NEW v, v = [view EXCEPT !.step = "ready"], Done(k, v) PROVE WizardInv'
    <3>1. DOMAIN v = DOMAIN view /\ v.step = "ready" /\ v.box = view.box
      BY <1>0, <2>4 DEF WizardShown
    <3> QED
      BY <1>1, <2>3, <2>4, <3>1, ButtonDone DEF Steps
  <2> QED
    BY <2>1, <2>4
<1>9. CASE Done(k, view)
  BY <1>0, <1>1, <1>9, ButtonDone DEF ReadyHolds, WizardShown
<1> QED
  BY <1>3, <1>4, <1>5, <1>6, <1>7, <1>8, <1>9 DEF WizardAnswered

LEMMA ButtonsPressed ==
  ASSUME WizardInv, ConnectOAuth \/ ContinueFromMailbox \/ SavePrivacy \/ SaveBehavior
                      \/ FinishExisting
  PROVE  WizardInv'
<1>0. WizardShown
  BY DEF WizardInv
<1>1. ASSUME NEW of \in Buttons, NEW q, Sends(of, q, view.box), ~ view.loading, Wait(of, q)
      PROVE  WizardInv'
  BY <1>1, WizardPressed
<1>2. ASSUME NEW step \in Steps, view' = [view EXCEPT !.step = step],
             UNCHANGED <<api, run, adrift>>, step # "ready" \/ ~ view.analyze
      PROVE  WizardInv'
  <2>1. Led(step, view.left, view.analyze)
    BY <1>0, <1>2 DEF Led, WizardShown
  <2> QED
    BY <1>2, <2>1, WizardLed
<1>3. CASE ConnectOAuth
  <2>1. Sends("oauth", [to |-> "authorize"], view.box)
    BY DEF Sends, WizardRequest, OfBox
  <2> QED
    BY <1>1, <1>3, <2>1 DEF ConnectOAuth, At, Buttons
<1>4. CASE ContinueFromMailbox
  <2>1. Sends("test", ImapConnection, view.box)
    BY DEF Sends, WizardRequest, OfBox, ImapConnection
  <2> QED
    BY <1>1, <1>2, <1>4, <2>1 DEF ContinueFromMailbox, At, Buttons, Look, Timer, Steps
<1>5. CASE SavePrivacy
  <2>0. ~ view.loading
    BY <1>5 DEF SavePrivacy, At
  <2>1. PICK form : \/ /\ view.box = NoMailbox
                       /\ Wait("privacy", AccountPayload(form))
                    \/ /\ view.box # NoMailbox
                       /\ Wait("privacy", [to |-> IF form.mode = "shared" THEN "share" ELSE "own",
                                           box |-> view.box.id, users |-> form.users])
                    \/ /\ view.box.mode = "shared"
                       /\ Wait("privacy", [to |-> "replace-access", box |-> view.box.id,
                                           users |-> form.users])
                    \/ Look([view EXCEPT !.step = "behavior"])
    BY <1>5 DEF SavePrivacy
  <2>2. CASE Wait("privacy", AccountPayload(form))
    <3>1. Sends("privacy", AccountPayload(form), view.box)
      BY DEF Sends, WizardRequest, OfBox, AccountPayload
    <3> QED
      BY <1>1, <2>0, <2>2, <3>1 DEF Buttons
  <2>3. ASSUME NEW to \in {"own", "share", "replace-access"}, view.box # NoMailbox,
               Wait("privacy", [to |-> to, box |-> view.box.id, users |-> form.users])
        PROVE  WizardInv'
    <3>1. view.box.id \in Connected
      BY <1>0, <2>3 DEF WizardShown, IsTold
    <3>2. Sends("privacy", [to |-> to, box |-> view.box.id, users |-> form.users], view.box)
      BY <3>1 DEF Sends, WizardRequest, OfBox
    <3> QED
      BY <1>1, <2>0, <2>3, <3>2 DEF Buttons
  <2>4. CASE view.box # NoMailbox
             /\ Wait("privacy", [to |-> IF form.mode = "shared" THEN "share" ELSE "own",
                                 box |-> view.box.id, users |-> form.users])
    <3>1. (IF form.mode = "shared" THEN "share" ELSE "own") \in {"own", "share"}
      OBVIOUS
    <3> QED
      BY <2>3, <2>4, <3>1
  <2>5. CASE view.box.mode = "shared"
             /\ Wait("privacy", [to |-> "replace-access", box |-> view.box.id,
                                 users |-> form.users])
    <3>1. view.box # NoMailbox
      BY <2>5 DEF NoMailbox
    <3> QED
      BY <2>3, <2>5, <3>1
  <2>6. CASE Look([view EXCEPT !.step = "behavior"])
    BY <1>2, <2>6 DEF Look, Timer, Steps
  <2> QED
    BY <2>1, <2>2, <2>4, <2>5, <2>6
<1>6. CASE SaveBehavior
  <2>1. view.box # NoMailbox /\ view.box.id \in Connected
    BY <1>0, <1>6 DEF SaveBehavior, WizardShown, IsTold
  <2>2. Sends("behavior", [to |-> "patch", box |-> view.box.id], view.box)
    BY <2>1 DEF Sends, WizardRequest, OfBox
  <2> QED
    BY <1>1, <1>6, <2>2 DEF SaveBehavior, At, Buttons
<1>7. CASE FinishExisting
  <2>1. view.box # NoMailbox /\ view.box.id \in Connected
    BY <1>0, <1>7 DEF FinishExisting, WizardShown, IsTold
  <2>2. Sends("existing", [to |-> "backfills", box |-> view.box.id], view.box)
    BY <2>1 DEF Sends, WizardRequest, OfBox
  <2> QED
    BY <1>1, <1>2, <1>7, <2>2 DEF FinishExisting, At, Buttons, Look, Timer, Steps
<1> QED
  BY <1>3, <1>4, <1>5, <1>6, <1>7

LEMMA WizardSteps ==
  ASSUME WizardInv, Onboarding, ~ OnboardingEvent PROVE WizardInv'
<1>0. WizardShown
  BY DEF WizardInv
<1>1. CASE ToMailbox
  <2>1. Led("mailbox", view.left, view.analyze)
    BY <1>0, <1>1 DEF ToMailbox, Look, Led, WizardShown
  <2> QED
    BY <1>1, <2>1, WizardLed DEF ToMailbox, Look, Timer, Steps
<1>2. CASE Back
  <2>1. view.step \in Steps /\ view.step # "welcome"
    BY <1>0, <1>2 DEF Back, WizardShown
  <2>2. Before(view.step) \in Steps /\ Before(view.step) # "ready"
    BY <2>1, BackLeads
  <2>3. view' = [view EXCEPT !.step = Before(view.step)] /\ UNCHANGED <<api, run, adrift>>
    BY <1>0, <1>2 DEF Back, Look, Timer, WizardShown
  <2>4. Led(Before(view.step), view.left, view.analyze)
    BY <1>0, <2>3 DEF Led, WizardShown
  <2> QED
    BY <2>2, <2>3, <2>4, WizardLed
<1>3. CASE OpenMailflow
  <2>1. Led(view.step, TRUE, view.analyze)
    BY <1>0, <1>3 DEF OpenMailflow, Look, Led, WizardShown
  <2> QED
    BY <1>0, <1>3, <2>1, WizardLed DEF OpenMailflow, Look, Timer, WizardShown
<1>4. CASE ToggleAnalyze
  <2>1. Led("existing", view.left, ~ view.analyze)
    BY <1>0, <1>4 DEF ToggleAnalyze, At, Look, Led, WizardShown
  <2> QED
    BY <1>4, <2>1, WizardLed DEF ToggleAnalyze, Look, Timer, Steps
<1>5. CASE SessionKnown
  BY <1>5, SessionArrives
<1>6. CASE ConnectOAuth \/ ContinueFromMailbox \/ SavePrivacy \/ SaveBehavior \/ FinishExisting
  BY <1>6, ButtonsPressed
<1>7. CASE \E k \in Slots : WizardLoaded(k) \/ MembersLoaded(k) \/ WizardAnswered(k)
  BY <1>7, WizardArrives, MembersArrive, ButtonAnswered
<1> QED
  BY <1>1, <1>2, <1>3, <1>4, <1>5, <1>6, <1>7 DEF Onboarding

LEMMA WizardInitially ==
  ASSUME Init, page = "onboarding" PROVE WizardInv
<1>1. OnboardingInit /\ Opened({LoadWizard(way) : way \in {"plain", "new", "connected"}})
  BY DEF Init
<1>2. PICK way : /\ run = [k \in Slots |-> IF k = 1 THEN LoadWizard(way) ELSE Idle]
                 /\ adrift = {}
  BY <1>1 DEF Opened
<1>3. \A k \in Slots : run[k] \in {LoadWizard(way), Idle}
  BY <1>2
<1>4. Sends("load-wizard", [to |-> "accounts"], view.box)
  BY DEF Sends, WizardRequest, OfBox
<1>5. WizardHandler(LoadWizard(way), view.box, api.job) /\ LoadWizard(way).of = "load-wizard"
  BY <1>4, NewWizardHandler DEF LoadWizard, MainHandlers
<1>6. \A k \in Slots : WizardHandler(run[k], view.box, api.job)
  BY <1>3, <1>5, IdleIsWizard
<1>7. view = [step |-> "welcome", loading |-> TRUE, busy |-> FALSE, left |-> FALSE,
              box |-> NoMailbox, analyze |-> TRUE, asked |-> FALSE, admin |-> FALSE]
  BY <1>1 DEF OnboardingInit
<1>8. WizardShown /\ ReadyHolds
  BY <1>7 DEF WizardShown, ReadyHolds, Steps
<1>9. OneMain
  <2>1. Idle.of \notin MainHandlers /\ LoadWizard(way).of \notin Buttons
    BY <1>5, IdleIs DEF MainHandlers, Buttons
  <2>2. \A k \in Slots : run[k].of \in MainHandlers => k = 1
    BY <1>2, <2>1
  <2>3. view.loading
    BY <1>7
  <2>4. \A k \in Slots : run[k].of \notin Buttons
    BY <1>3, <2>1 DEF MainHandlers
  <2> QED
    BY <2>2, <2>3, <2>4 DEF OneMain
<1>10. WizardStored(api)
  <2>1. \E boxes, job, admin : /\ api = [boxes |-> boxes, job |-> job, admin |-> admin]
                               /\ DOMAIN job = Connected
    BY <1>1 DEF OnboardingInit
  <2> QED
    BY <2>1 DEF WizardStored
<1>11. Slotted
  BY <1>2, <1>6 DEF Slotted, WizardHandler
<1> QED
  BY <1>2, <1>6, <1>8, <1>9, <1>10, <1>11 DEF WizardInv

LEMMA WizardStepsAll ==
  ASSUME Next, page = "onboarding", adrift = {}
  PROVE  Onboarding \/ \E k \in Slots : Served(k) \/ Lost(k)
BY DEF Next, Clusters, Processing, Review, Notifications, Account, Smtp, Memory, Learning,
       RulesPage, Structure, Forgotten

LEMMA WizardNext ==
  ASSUME WizardInv, page = "onboarding", [Next]_vars
  PROVE  WizardInv'
<1>0. \A k \in Slots : WizardHandler(run[k], view.box, api.job)
  BY DEF WizardInv
<1>1. ASSUME UNCHANGED <<view, run, adrift>>, WizardStored(api'), JobsKept(api.job, api'.job)
      PROVE  WizardInv'
  <2>1. \A k \in Slots : WizardHandler(run[k], view.box, api'.job)
    BY <1>0, <1>1, WizardHandlerStays
  <2>2. \A k \in Slots : WizardHandler(run[k], view.box, api.job)'
    BY <1>1, <2>1 DEF WizardHandler, Shaped, Sends, Truthful, IsTold
  <2>3. WizardShown' /\ OneMain' /\ Slotted' /\ ReadyHolds' /\ WizardStored(api)'
    BY <1>1 DEF WizardInv, WizardShown, OneMain, Slotted, ReadyHolds, JobsKept, IsTold,
                WizardStored
  <2> QED
    BY <1>1, <2>2, <2>3 DEF WizardInv
<1>2. CASE UNCHANGED vars
  <2>1. WizardStored(api') /\ JobsKept(api.job, api'.job) /\ UNCHANGED <<view, run, adrift>>
    BY <1>2 DEF vars, tab, WizardInv, WizardStored, JobsKept
  <2> QED
    BY <1>1, <2>1
<1>3. CASE Onboarding /\ ~ OnboardingEvent
  BY <1>3, WizardSteps
<1>4. CASE OnboardingEvent
  <2>1. WizardStored(api)
    BY DEF WizardInv
  <2> QED
    BY <1>1, <1>4, <2>1, WizardEvents
<1>5. CASE \E k \in Slots : Served(k) \/ Lost(k)
  BY <1>5, WizardServed
<1> QED
  BY <1>2, <1>3, <1>4, <1>5, WizardStepsAll DEF WizardInv

\* When the wizard says that the existing mail is being analysed, a backfill of the mailbox
\* has begun, whatever was lost, refused or changed elsewhere on the way (app/onboarding).
THEOREM ReadyTellsTheTruth == Spec => []ReadyIsTrue
<1> DEFINE I == page = "onboarding" => WizardInv
<1>1. Init => I
  BY WizardInitially
<1>2. I /\ [Next]_vars => I'
  BY WizardNext, PageStays
<1>3. I => ReadyIsTrue
  BY DEF WizardInv, ReadyHolds, Begun, ReadyIsTrue
<1> QED
  BY <1>1, <1>2, <1>3, PTL DEF Spec
==============================================================================
