----------------------------- MODULE BulkPages -----------------------------
(***************************************************************************)
(* The two pages about historical runs.  "clusters" is                     *)
(* app/processing/review: the proposals of a dry run in groups of the same *)
(* decision, to be confirmed, redirected and applied.  "processing" is     *)
(* app/processing: the runs of all mailboxes, to be paused and resumed.    *)
(* Both poll as long as they show something that runs.                     *)
(***************************************************************************)
EXTENDS Tab

CONSTANTS
  Proposals,   \* proposals of the dry run
  Domains,     \* domains of their senders
  DomainOf,    \* domain of the sender of a proposal
  Suspicious,  \* proposals with suspicious_content
  Doubtful,    \* proposals classified as review_required
  Folders,     \* folders a proposal can be moved to
  Runs         \* runs of the mailboxes, each in an account of its own

ASSUME BulkAssumption ==
  DomainOf \in [Proposals -> Domains] /\ Suspicious \cup Doubtful \subseteq Proposals

RunStates == {"running", "paused", "completed", "failed", "cancelled"}

\* A paused application has an error: its entry was refused, or the worker
\* stopped it.
ApplyStates == {"none", "running", "refused", "stopped", "completed"}

\* The decision of a snapshot, and how the page writes it.
Decisions == [folder : Folders, moves : BOOLEAN]
Keep == "keep"
Shown(decision) == IF decision.moves THEN decision.folder ELSE Keep

\* What the application does to an approved proposal is left out.
Mails == [Proposals -> [decision : Decisions, approved : BOOLEAN]]

-----------------------------------------------------------------------------
(* Groups of proposals in the API. *)

AllDomains == "all-domains"

\* Mutated form of ClusterId: the hash leaves out the action.
ClusterIdByFolder(decision, domain) == <<decision.folder, domain>>

\* A group is known by a hash of its decision, a subgroup by a hash of that and
\* of the domain.
ClusterId(decision, domain) == <<decision, domain>>

IdsOf(mail, p) == {ClusterId(mail[p].decision, d) : d \in {AllDomains, DomainOf[p]}}
Members(mail, id) == {p \in Proposals : id \in IdsOf(mail, p)}
Undecided(mail) == {p \in Proposals : ~ mail[p].approved}

\* A doubtful proposal that was confirmed no longer requires a review.
Safe(mail) == {p \in Proposals \ Suspicious : p \in Doubtful => mail[p].approved}

\* A group is confirmed without its suspicious members.
Approve(mail, P) ==
  [p \in Proposals |->
     IF p \in P \ Suspicious THEN [mail[p] EXCEPT !.approved = TRUE] ELSE mail[p]]

\* Keeping a mail leaves the folder of its proposal alone.
Redirect(mail, P, target) ==
  [p \in Proposals |->
     IF p \notin P \cap Undecided(mail) THEN mail[p]
     ELSE IF target = Keep THEN [mail[p] EXCEPT !.decision.moves = FALSE]
     ELSE [mail[p] EXCEPT !.decision = [folder |-> target, moves |-> TRUE]]]

\* An application is created once, or resumed when its queue entry was refused.
\* The entry may be refused again.
StartOutcomes ==
  IF api.apply \in {"running", "completed", "stopped"} THEN {Ok(api, api.apply)}
  ELSE IF api.apply = "none" /\ Undecided(api.mail) = Proposals
    THEN {No}
    ELSE {Ok([api EXCEPT !.apply = state], state) : state \in {"running", "refused"}}

ClusterReply(q) ==
  CASE q.to = "review-summary" -> {Ok(api, api.mail)}
    [] q.to = "backfills" -> {Ok(api, api.job)}
    [] q.to = "apply-status" -> {Ok(api, api.apply)}
    [] q.to = "approve-safe" ->
         {Ok([api EXCEPT !.mail = Approve(@, Safe(@))], "approved")}
    [] q.to = "approve-cluster" ->
         IF Members(api.mail, q.id) = {} THEN {No}
         ELSE {Ok([api EXCEPT !.mail = Approve(@, Members(@, q.id))], "approved")}
    [] q.to = "edit-cluster" ->
         IF Members(api.mail, q.id) = {} THEN {No}
         ELSE {Ok([api EXCEPT !.mail = Redirect(@, Members(@, q.id), q.target)], "edited")}
    [] q.to = "apply" -> IF api.job # "completed" THEN {No} ELSE StartOutcomes

-----------------------------------------------------------------------------
(* app/processing/review *)

\* load; the folders that are offered as targets are left out.
LoadClusters(arg) ==
  Handler("load-clusters", arg,
          {[to |-> "review-summary"], [to |-> "backfills"], [to |-> "apply-status"]})

ClustersInit ==
  /\ api \in [mail : [Proposals -> [decision : Decisions, approved : {FALSE}]],
              job : {"running", "completed"}, apply : {"none", "running"}]
  /\ api.job = "completed" \/ api.apply = "none"
  /\ view = [summary |-> NotLoaded, job |-> "none", apply |-> "none", busy |-> FALSE]

ShownProposals == IF view.summary = NotLoaded THEN {} ELSE Proposals

\* A card of the page stands for a group of the summary it shows.
Cards ==
  UNION {{[id |-> id, shown |-> Shown(view.summary[p].decision),
           proposed |-> Members(view.summary, id) \cap Undecided(view.summary),
           only |-> Members(view.summary, id) \subseteq Suspicious] :
            id \in IdsOf(view.summary, p)} : p \in ShownProposals}

\* A button that sends a request and disables the others meanwhile.
Press(request, shown) ==
  /\ Click
  /\ ~ view.busy /\ view' = [view EXCEPT !.busy = TRUE]
  /\ Begin(Handler("cluster-click", shown, {request}))

\* What approveCluster asks for, given the card it is called on.
Confirm ==
  \E c \in Cards :
    /\ c.proposed # {} /\ ~ c.only
    /\ Press([to |-> "approve-cluster", id |-> c.id], c.shown)

EditTarget ==
  \E c \in Cards, target \in Folders \cup {Keep} :
    /\ target # c.shown
    /\ Press([to |-> "edit-cluster", id |-> c.id, target |-> target], c.shown)

ApproveSafe ==
  /\ view.summary # NotLoaded /\ Safe(view.summary) # {}
  /\ view.apply # "running"
  /\ Press([to |-> "approve-safe"], Keep)

CanApply ==
  /\ view.job = "completed" /\ view.apply \in {"none", "refused"}
  /\ \E p \in ShownProposals : view.summary[p].approved

StartApply == CanApply /\ Press([to |-> "apply"], Keep)

\* A click has been answered: everything is loaded again before the buttons are
\* enabled.
ClusterClicked(k) ==
  \/ /\ Answered(k, "cluster-click")
     /\ view' = IF [to |-> "apply"] \in DOMAIN run[k].got
                  THEN [view EXCEPT !.apply = run[k].got[[to |-> "apply"]]] ELSE view
     /\ Becomes(k, LoadClusters("click"))
  \/ /\ Rejected(k, "cluster-click")
     /\ view' = [view EXCEPT !.busy = FALSE]
     /\ Ends(k)

\* Only the load of a click clears the busy flag.
Busy(k) == view.busy /\ run[k].arg # "click"

ClustersLoaded(k) ==
  LET got == run[k].got
  IN \/ /\ Answered(k, "load-clusters")
        /\ view' = [summary |-> got[[to |-> "review-summary"]],
                    job |-> got[[to |-> "backfills"]],
                    apply |-> got[[to |-> "apply-status"]], busy |-> Busy(k)]
        /\ Ends(k)
     \/ /\ Rejected(k, "load-clusters")
        /\ view' = [view EXCEPT !.busy = Busy(k)]
        /\ Ends(k)

\* The two intervals: as long as the dry run is shown as running, everything is
\* loaded; as long as the application is, its progress and the summary.
PollClusters ==
  /\ view.job = "running"
  /\ Begin(LoadClusters("poll"))
  /\ Timer /\ UNCHANGED view

PollApply ==
  /\ view.apply = "running"
  /\ Begin(Handler("follow", "poll", {[to |-> "review-summary"], [to |-> "apply-status"]}))
  /\ Timer /\ UNCHANGED view

Followed(k) ==
  \/ /\ Answered(k, "follow")
     /\ view' = [view EXCEPT !.summary = run[k].got[[to |-> "review-summary"]],
                             !.apply = run[k].got[[to |-> "apply-status"]]]
     /\ Ends(k)
  \/ Rejected(k, "follow") /\ UNCHANGED view /\ Ends(k)

\* The dry run and the application go on, and a colleague decides.
ClusterEvent ==
  /\ Event
  /\ \/ api.job = "running" /\ api' = [api EXCEPT !.job = "completed"]
     \/ /\ api.apply = "running"
        /\ \E state \in {"completed", "stopped"} : api' = [api EXCEPT !.apply = state]
     \/ \E p \in Proposals, target \in Folders \cup {Keep} :
          api' = [api EXCEPT !.mail = Redirect(@, {p}, target)]

-----------------------------------------------------------------------------
(* app/processing *)

PauseFrom == {"running", "paused"}
ResumeFrom == {"running", "paused", "failed"}

\* A run that is resumed is paused again when its queue entry is refused.
ProcessingReply(q) ==
  CASE q.to = "accounts" -> {Ok(api, Runs)}
    [] q.to = "runs" -> {Ok(api, api.runs[q.run])}
    [] q.to = "pause" ->
         IF api.runs[q.run] \notin PauseFrom THEN {No}
         ELSE {Ok([api EXCEPT !.runs[q.run] = "paused"], "paused")}
    [] q.to = "resume" ->
         IF api.runs[q.run] \notin ResumeFrom THEN {No}
         ELSE {Ok([api EXCEPT !.runs[q.run] = state], state) :
                 state \in IF api.runs[q.run] = "running" THEN {"running"}
                                                        ELSE {"running", "paused"}}

\* load: the accounts first, then the runs of each of them.
LoadRuns(arg) == Handler("load-runs", arg, {[to |-> "accounts"]})
ListRuns(arg, accounts) ==
  Handler("list-runs", arg, {[to |-> "runs", run |-> r] : r \in accounts})

ProcessingInit ==
  /\ api \in [runs : [Runs -> {"running", "paused", "failed"}]]
  /\ view = [runs |-> <<>>, busy |-> FALSE]

ShownAs(states) == {r \in DOMAIN view.runs : view.runs[r] \in states}

PollRuns ==
  /\ ShownAs({"running"}) # {}
  /\ Begin(LoadRuns("poll"))
  /\ Timer /\ UNCHANGED view

RunsLoaded(k) ==
  \/ /\ Answered(k, "load-runs")
     /\ Becomes(k, ListRuns(run[k].arg, run[k].got[[to |-> "accounts"]]))
     /\ UNCHANGED view
  \/ /\ Answered(k, "list-runs")
     /\ view' = [runs |-> [r \in Runs |-> run[k].got[[to |-> "runs", run |-> r]]],
                 busy |-> Busy(k)]
     /\ Ends(k)
  \/ /\ Rejected(k, "load-runs") \/ Rejected(k, "list-runs")
     /\ view' = [view EXCEPT !.busy = Busy(k)]
     /\ Ends(k)

\* The two buttons send one request for each run that is shown in such a state.
Ask(handler) ==
  /\ Click
  /\ ~ view.busy /\ view' = [view EXCEPT !.busy = TRUE]
  /\ handler.asked # {}
  /\ Begin(handler)

PauseAll ==
  Ask(Handler("pause-all", "click",
              {[to |-> "pause", run |-> r] : r \in ShownAs({"running"})}))
RestartFailed ==
  Ask(Settling("restart-failed", "click",
               {[to |-> "resume", run |-> r] : r \in ShownAs({"failed", "paused"})}))

\* pauseAll gives up when one run refuses to pause, the others are paused all
\* the same; restartFailed counts the refusals.
RunsAnswered(k) ==
  \/ /\ Answered(k, "pause-all") \/ Answered(k, "restart-failed")
     /\ Becomes(k, LoadRuns("click"))
     /\ UNCHANGED view
  \/ /\ Rejected(k, "pause-all")
     /\ view' = [view EXCEPT !.busy = FALSE]
     /\ GivesUp(k)

RunEvent ==
  /\ Event
  /\ \E r \in Runs :
       \/ /\ api.runs[r] = "running"
          /\ \E state \in {"paused", "completed", "failed", "cancelled"} :
               api' = [api EXCEPT !.runs[r] = state]
       \/ /\ api.runs[r] \in {"paused", "failed"}
          /\ api' = [api EXCEPT !.runs[r] = "cancelled"]

-----------------------------------------------------------------------------
(* What the pages promise. *)

\* A group is confirmed as the card showed it when the button was pressed,
\* although colleagues redirect mails and older answers arrive meanwhile:
\* every mail that the request approves goes where the card said
\* (approveCluster, select_cluster_proposals).
ApprovedAsShown ==
  [][page = "clusters" =>
       \A k \in Slots, p \in Proposals :
         /\ ~ api.mail[p].approved /\ api'.mail[p].approved
         /\ Running(k, "cluster-click") /\ run'[k] # run[k]
         /\ run[k].asked # {[to |-> "approve-safe"]}
         => Shown(api.mail[p].decision) = run[k].arg]_vars
=============================================================================
