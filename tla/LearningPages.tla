---------------------------- MODULE LearningPages ----------------------------
(***************************************************************************)
(* The pages about what the classifier reuses.  "memory" is                *)
(* app/accounts/[id]/decision-memory, the remembered decisions of one      *)
(* mailbox; "learning" is app/learning, those of all mailboxes; "rules" is *)
(* app/settings/rules, the domain and keyword rules, internal domains and  *)
(* action policies of the mailbox that is selected.                        *)
(***************************************************************************)
EXTENDS Tab

CONSTANTS
  Boxes,      \* mailboxes
  Entries,    \* ids of remembered decisions
  Matches,    \* what an entry matches: sender, domain, subject and thread
  BoxOf,      \* the mailbox of a match, since an entry never crosses mailboxes
  Outcomes,   \* decisions: category, importance, routing target ...
  Rules       \* ids of rules

ASSUME LearningAssumption ==
  /\ BoxOf \in [Matches -> Boxes]
  /\ "none" \notin Entries

\* Nothing in the code stores entries of the source ai_observed, so all are trusted.
Decided == [match : Matches, outcome : Outcomes, enabled : BOOLEAN]
Absent == [match |-> "no-entry"]

-----------------------------------------------------------------------------
(* Remembered decisions in the API. *)

Present(entries) == {e \in Entries : entries[e] # Absent}

\* The transaction of a request that creates or replaces an entry: whose slot it is for
\* (for others none), the entry and what it is to become, the row as it was loaded
\* (Absent for a new one), whether the row is written, and which rows it has disabled.
Writings == [by : SUBSET Slots, entry : Entries, to : Decided, seen : Decided \cup {Absent},
             written : BOOLEAN, disabled : SUBSET Entries]

\* Two requests for an entry, or one for each of two, were in progress together: the
\* history is a set of sets of one or two entries.
Apart(tangled, e, f) == {{e, f}, {e}, {f}} \cap tangled = {}

\* A transaction has begun.  An id that is used by a transaction is not given twice.
BeginWriting(by, e, to) ==
  /\ api.entries[e] = Absent => \A t \in api.writing : t.entry # e
  /\ api' = [api EXCEPT
       !.writing = @ \cup {[by |-> by, entry |-> e, to |-> to, seen |-> api.entries[e],
                            written |-> FALSE, disabled |-> {}]},
       !.tangled = @ \cup {{e, t.entry} : t \in api.writing}]

\* Rows that a transaction has written and not committed make other writers wait.
Locked(e) == \E t \in api.writing : t.written /\ (e = t.entry \/ e \in t.disabled)

\* The rows that _supersede_conflicts disables, as far as they are committed.
Contradicting(e, to) ==
  {f \in Present(api.entries) \ {e} :
     /\ api.entries[f].enabled
     /\ api.entries[f].match = to.match /\ api.entries[f].outcome # to.outcome}

\* Mutated form of Superseded: only a new entry disables what contradicts it.
SupersededByNew(t) == IF t.seen = Absent THEN Contradicting(t.entry, t.to) ELSE {}

\* create_entry lets the new entry win, and is then given the flag that was sent.
Superseded(t) ==
  IF t.seen = Absent \/ t.to.enabled THEN Contradicting(t.entry, t.to) ELSE {}

\* Only the columns are written that differ from the row that was loaded.
Column(new, old, now) == IF new # old THEN new ELSE now
Row(t) ==
  LET now == api.entries[t.entry]
  IN IF t.seen = Absent THEN t.to
     ELSE [match |-> Column(t.to.match, t.seen.match, now.match),
           outcome |-> Column(t.to.outcome, t.seen.outcome, now.outcome),
           enabled |-> Column(t.to.enabled, t.seen.enabled, now.enabled)]

ListOf(box) ==
  [e \in {f \in Present(api.entries) : BoxOf[api.entries[f].match] = box} |-> api.entries[e]]

MemoryReply(q) ==
  CASE q.to = "mailboxes" -> {Ok(api, Boxes)}
    [] q.to = "memory" -> {Ok(api, ListOf(q.box))}
    [] q.to = "delete-entry" ->
         IF api.entries[q.entry] = Absent THEN {No}
         ELSE IF Locked(q.entry) THEN {}
         ELSE {Ok([api EXCEPT !.entries[q.entry] = Absent], "deleted")}
    [] OTHER -> {}

\* Requests that create or replace an entry take several steps.
WriteAsked(k, q) ==
  Waiting(k) /\ q \in run[k].asked /\ q.to \in {"create-entry", "replace-entry"}

\* The page that waits gets the answer.
AnswerWriter(t, ok, answer) ==
  IF t.by = {} THEN UNCHANGED run
  ELSE \E k \in t.by : \E q \in run[k].asked :
         WriteAsked(k, q) /\ Receive(k, q, ok, answer)

Server == UNCHANGED <<page, view, adrift>>

\* The request arrives: a new entry is made, one is loaded, or it is refused.
LoadEntry(k) ==
  \E q \in run[k].asked :
    /\ WriteAsked(k, q) /\ \A t \in api.writing : k \notin t.by
    /\ \/ /\ \E e \in Entries :
               /\ IF q.to = "create-entry" THEN api.entries[e] = Absent
                  ELSE e = q.entry /\ api.entries[e] # Absent
               /\ BeginWriting({k}, e, q.decided)
          /\ UNCHANGED run
       \/ /\ q.to = "replace-entry" => api.entries[q.entry] = Absent
          /\ Receive(k, q, FALSE, Refused) /\ UNCHANGED api
    /\ Server /\ UNCHANGED moves

\* The row is written, and then those that contradict it are disabled; the rows are
\* locked.  A row that was deleted meanwhile cannot be written.
WriteEntry(t) ==
  /\ ~ t.written /\ ~ Locked(t.entry)
  /\ \/ /\ t.seen # Absent => api.entries[t.entry] # Absent
        /\ \A f \in Superseded(t) : ~ Locked(f)
        /\ api' = [api EXCEPT !.writing =
                     (@ \ {t}) \cup {[t EXCEPT !.to = Row(t), !.written = TRUE,
                                               !.disabled = Superseded(t)]}]
        /\ UNCHANGED run
     \/ /\ t.seen # Absent /\ api.entries[t.entry] = Absent
        /\ api' = [api EXCEPT !.writing = @ \ {t}]
        /\ AnswerWriter(t, FALSE, Refused)
  /\ Server /\ UNCHANGED moves

Committed(t) ==
  [f \in Entries |->
     IF f = t.entry THEN t.to
     ELSE IF f \in t.disabled \cap Present(api.entries)
       THEN [api.entries[f] EXCEPT !.enabled = FALSE] ELSE api.entries[f]]

CommitEntry(t) ==
  /\ t.written
  /\ api' = [api EXCEPT !.entries = Committed(t), !.writing = @ \ {t}]
  /\ AnswerWriter(t, TRUE, t.entry)
  /\ Server /\ UNCHANGED moves

\* The request or its connection is lost, or the API dies: what has begun is undone, or
\* goes on without the page.
LoseEntry(k) ==
  /\ Move
  /\ \E q \in run[k].asked :
       WriteAsked(k, q) /\ Receive(k, q, FALSE, Refused)
  /\ LET mine == {t \in api.writing : k \in t.by}
     IN \E goingOn \in {{}, {[t EXCEPT !.by = {}] : t \in mine}} :
          api' = [api EXCEPT !.writing = (@ \ mine) \cup goingOn]
  /\ Server

\* Other users, and corrections in the review inbox.
MemoryEvent ==
  /\ Event
  /\ \E e \in Entries :
       \/ \E decided \in Decided :
            (api.entries[e] = Absent => decided.enabled) /\ BeginWriting({}, e, decided)
       \/ /\ api.entries[e] # Absent /\ ~ Locked(e)
          /\ api' = [api EXCEPT !.entries[e] = Absent]

MemoryServer ==
  \/ MemoryEvent
  \/ \E k \in Slots : LoadEntry(k) \/ LoseEntry(k)
  \/ \E t \in api.writing : WriteEntry(t) \/ CommitEntry(t)

\* Of the entries that exist at first one is enabled at most.
SomeEntries ==
  {entries \in [Entries -> Decided \cup {Absent}] :
     \A e, f \in Present(entries) : entries[e].enabled /\ entries[f].enabled => e = f}

-----------------------------------------------------------------------------
(* app/accounts/[id]/decision-memory *)

LoadMemory(by) == Handler("load-memory", by, {[to |-> "memory", box |-> view.box]})

MemoryInit ==
  /\ api \in [entries : SomeEntries, writing : {{}}, tangled : {{}}]
  /\ \E box \in Boxes :
       view = [box |-> box, entries |-> <<>>, editing |-> "none", draft |-> Absent,
               busy |-> "none", error |-> FALSE]

\* runBusy remembers one busy entry, and only its buttons are disabled.
PressEntry(e, request) ==
  /\ Click
  /\ e \in DOMAIN view.entries
  /\ view.busy # e /\ view' = [view EXCEPT !.busy = e, !.error = FALSE]
  /\ Begin(Handler("entry-click", request.to, {request}))

ToggleEntry(e) ==
  /\ view.editing # e
  /\ LET shown == view.entries[e]
     IN PressEntry(e, [to |-> "replace-entry", entry |-> e,
                       decided |-> [shown EXCEPT !.enabled = ~ @]])
RemoveEntry(e) == view.editing # e /\ PressEntry(e, [to |-> "delete-entry", entry |-> e])

BeginEdit(e) ==
  /\ view.editing # e /\ view.busy # e
  /\ view' = [view EXCEPT !.editing = e, !.draft = view.entries[e], !.error = FALSE]
  /\ UNCHANGED run /\ Timer

\* The subject and the decision can be edited.
PatchDraft(e) ==
  /\ view.editing = e
  /\ \E m \in Matches, outcome \in Outcomes :
       /\ BoxOf[m] = view.box
       /\ view' = [view EXCEPT !.draft.match = m, !.draft.outcome = outcome]
  /\ UNCHANGED run /\ Timer

SaveEntry(e) ==
  /\ view.editing = e
  /\ PressEntry(e, [to |-> "replace-entry", entry |-> e, decided |-> view.draft])

CancelEdit ==
  /\ view.editing # "none" /\ view.busy # view.editing
  /\ view' = [view EXCEPT !.editing = "none", !.draft = Absent]
  /\ UNCHANGED run /\ Timer

\* A save ends whatever is being edited; then the list is loaded.
EntryClicked(k) ==
  \/ /\ Answered(k, "entry-click")
     /\ view' = IF run[k].arg = "delete-entry" THEN view
                ELSE [view EXCEPT !.editing = "none", !.draft = Absent]
     /\ Becomes(k, LoadMemory("click"))
  \/ /\ Rejected(k, "entry-click")
     /\ view' = [view EXCEPT !.busy = "none", !.error = TRUE]
     /\ Ends(k)

\* A list that cannot be loaded is shown as empty.
MemoryLoaded(k) ==
  LET busy == IF run[k].arg = "click" THEN "none" ELSE view.busy
  IN \/ /\ Answered(k, "load-memory")
        /\ view' = [view EXCEPT !.entries = run[k].got[[to |-> "memory", box |-> view.box]],
                                !.busy = busy]
        /\ Ends(k)
     \/ /\ Rejected(k, "load-memory")
        /\ view' = [view EXCEPT !.entries = <<>>, !.busy = busy, !.error = TRUE]
        /\ Ends(k)

ReloadMemory ==
  /\ view.error /\ view' = [view EXCEPT !.error = FALSE]
  /\ Begin(LoadMemory("reload"))
  /\ Timer

-----------------------------------------------------------------------------
(* app/learning *)

LoadLearning == Handler("load-mailboxes", "load", {[to |-> "mailboxes"]})
LoadLists(boxes) ==
  Handler("load-lists", "load", {[to |-> "memory", box |-> b] : b \in boxes})

LearningInit ==
  /\ api \in [entries : SomeEntries, writing : {{}}, tangled : {{}}]
  /\ view = [entries |-> <<>>, loading |-> TRUE, modal |-> 0, open |-> FALSE, busy |-> FALSE]

\* Promise.all: the page keeps what it has when one list fails.
LearningLoaded(k) ==
  \/ /\ Answered(k, "load-mailboxes") /\ UNCHANGED view
     /\ Becomes(k, LoadLists(run[k].got[[to |-> "mailboxes"]]))
  \/ /\ Answered(k, "load-lists")
     /\ LET Got(e) == {q \in DOMAIN run[k].got : e \in DOMAIN run[k].got[q]}
        IN view' = [view EXCEPT !.loading = FALSE,
                      !.entries = [e \in {f \in Entries : Got(f) # {}} |->
                                     run[k].got[CHOOSE q \in Got(e) : TRUE][e]]]
     /\ Ends(k)
  \/ /\ Rejected(k, "load-mailboxes") \/ Rejected(k, "load-lists")
     /\ view' = [view EXCEPT !.loading = FALSE]
     /\ Ends(k)

\* There is no busy flag: a second click sends the same entry again.
ToggleEnabled(e) ==
  /\ Click /\ UNCHANGED view
  /\ ~ view.loading /\ e \in DOMAIN view.entries
  /\ Begin(Handler("toggle", e,
                   {[to |-> "replace-entry", entry |-> e,
                     decided |-> [view.entries[e] EXCEPT !.enabled = ~ @]]}))

OpenModal ==
  /\ ~ view.open
  /\ view' = [view EXCEPT !.open = TRUE, !.modal = @ + 1, !.busy = FALSE]
  /\ Click /\ UNCHANGED run
CloseModal ==
  /\ view.open /\ view' = [view EXCEPT !.open = FALSE]
  /\ UNCHANGED run /\ Timer

SubmitRule ==
  /\ Click
  /\ view.open /\ ~ view.busy /\ view' = [view EXCEPT !.busy = TRUE]
  /\ \E m \in Matches, outcome \in Outcomes :
       Begin(Handler("create-rule", view.modal,
                     {[to |-> "create-entry",
                       decided |-> [match |-> m, outcome |-> outcome, enabled |-> TRUE]]}))

\* An entry that was made closes whichever dialog is open.
LearningClicked(k) ==
  \/ Answered(k, "toggle") /\ Becomes(k, LoadLearning)
     /\ view' = [view EXCEPT !.loading = TRUE]
  \/ Rejected(k, "toggle") /\ UNCHANGED view /\ Ends(k)
  \/ Answered(k, "create-rule") /\ Becomes(k, LoadLearning)
     /\ view' = [view EXCEPT !.loading = TRUE, !.open = FALSE]
  \/ Rejected(k, "create-rule") /\ Ends(k)
     /\ view' = [view EXCEPT !.busy = @ /\ run[k].arg # view.modal]

-----------------------------------------------------------------------------
(* app/settings/rules *)

RuleKinds == {"domain", "keyword", "internal"}

\* Mutated form of RuleOf: a rule is looked for by its id alone.
RuleById(q) == {r \in api.rules : r.id = q.rule /\ r.kind = q.kind}

\* A rule is looked for in the mailbox that the request names.
RuleOf(q) == {r \in api.rules : r.id = q.rule /\ r.kind = q.kind /\ r.box = q.box}

RulesReply(q) ==
  CASE q.to = "mailboxes" -> {Ok(api, api.policy)}
    [] q.to = "set-policy" -> {No, Ok([api EXCEPT !.policy[q.box] = q.policy], "saved")}
    [] q.to = "rules" -> {Ok(api, {r \in api.rules : r.box = q.box /\ r.kind = q.kind})}
    [] q.to = "create-rule" ->
         {Ok([api EXCEPT !.rules = @ \cup {[id |-> id, kind |-> q.kind, box |-> q.box]},
                         !.unused = @ \ {id}], id) : id \in api.unused} \cup {No}
    [] q.to = "remove-rule" ->
         IF RuleOf(q) = {} THEN {No}
         ELSE {Ok([api EXCEPT !.rules = @ \ RuleOf(q)], "deleted")}

LoadBoxes(by) == Handler("load-boxes", by, {[to |-> "mailboxes"]})
LoadRulesOf(by, box) ==
  Handler("load-rules", by, {[to |-> "rules", kind |-> kind, box |-> box] : kind \in RuleKinds})

RulesInit ==
  /\ \E id \in {CHOOSE id \in Rules : TRUE}, kind \in RuleKinds, box \in Boxes :
       api = [rules |-> {[id |-> id, kind |-> kind, box |-> box]}, unused |-> Rules \ {id},
              policy |-> [b \in Boxes |-> "off"]]
  /\ view = [boxes |-> <<>>, box |-> "none", rules |-> {}, busy |-> FALSE]

\* A mailbox is selected, by the user or as the first: its rules are loaded, and
\* those that are shown stay until they are.
SelectBox(box) ==
  /\ view.box # box /\ box \in DOMAIN view.boxes
  /\ view' = [view EXCEPT !.box = box]
  /\ Click /\ Begin(LoadRulesOf("select", box))

BoxesLoaded(k) ==
  \/ /\ Answered(k, "load-boxes") /\ run[k].arg = "open"
     /\ \E box \in Boxes :
          /\ view' = [view EXCEPT !.boxes = run[k].got[[to |-> "mailboxes"]], !.box = box]
          /\ Becomes(k, LoadRulesOf("select", box))
  \/ /\ Answered(k, "load-boxes") /\ run[k].arg = "click"
     /\ view' = [view EXCEPT !.boxes = run[k].got[[to |-> "mailboxes"]], !.busy = FALSE]
     /\ Ends(k)
  \/ /\ Rejected(k, "load-boxes")
     /\ view' = [view EXCEPT !.busy = @ /\ run[k].arg # "click"]
     /\ Ends(k)

\* The rules that arrive are shown, whichever mailbox is selected by then.
RulesArrive(k) ==
  \/ /\ Answered(k, "load-rules")
     /\ view' = [view EXCEPT !.rules = UNION {run[k].got[q] : q \in DOMAIN run[k].got},
                             !.busy = @ /\ run[k].arg # "click"]
     /\ Ends(k)
  \/ /\ Rejected(k, "load-rules")
     /\ view' = [view EXCEPT !.busy = @ /\ run[k].arg # "click"]
     /\ Ends(k)

PressRules(of, request) ==
  /\ Click
  /\ view.box # "none"
  /\ ~ view.busy /\ view' = [view EXCEPT !.busy = TRUE]
  /\ Begin(Handler(of, view.box, {request}))

UpdatePolicy ==
  \E policy \in {"automatic", "off"} :
    PressRules("policy", [to |-> "set-policy", box |-> view.box, policy |-> policy])
AddRule ==
  \E kind \in RuleKinds :
    PressRules("rule", [to |-> "create-rule", kind |-> kind, box |-> view.box])
RemoveRule ==
  \E r \in view.rules :
    PressRules("rule", [to |-> "remove-rule", rule |-> r.id, kind |-> r.kind, box |-> view.box])

RulesClicked(k) ==
  \/ Answered(k, "policy") /\ Becomes(k, LoadBoxes("click")) /\ UNCHANGED view
  \/ Answered(k, "rule") /\ Becomes(k, LoadRulesOf("click", run[k].arg)) /\ UNCHANGED view
  \/ /\ Rejected(k, "policy") \/ Rejected(k, "rule")
     /\ view' = [view EXCEPT !.busy = FALSE]
     /\ Ends(k)

RulesEvent ==
  /\ Event
  /\ \E r \in api.rules : api' = [api EXCEPT !.rules = @ \ {r}]

-----------------------------------------------------------------------------
(* What the pages promise. *)

\* Two enabled entries with the same match never contradict each other, although
\* pages resend entries as they last saw them, and entries are edited, disabled and
\* enabled again elsewhere (docs/DECISION_MEMORY.md: "New conflicting trusted
\* decisions disable the older trusted entry").  The exception: requests for the two
\* entries, or two for one of them, were in progress together, since neither sees
\* what the other has not committed.
MemoryAgrees ==
  page \in {"memory", "learning"} =>
    \A e, f \in Present(api.entries) :
      /\ api.entries[e].enabled /\ api.entries[f].enabled
      /\ api.entries[e].match = api.entries[f].match
      /\ Apart(api.tangled, e, f)
      => api.entries[e].outcome = api.entries[f].outcome

\* A click removes a rule only from the mailbox that is selected, although the rules
\* that are shown may be those of another one, whose answer came late.
RemovedWhereSelected ==
  [][page = "rules" =>
       \A k \in Slots : \A q \in run[k].asked :
         q.to = "remove-rule" /\ run'[k] # run[k] =>
           \A r \in api.rules \ api'.rules : r.box = run[k].arg]_vars
=============================================================================
