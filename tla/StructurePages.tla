--------------------------- MODULE StructurePages ---------------------------
(***************************************************************************)
(* The pages with which a manager maps categories to folders of a mailbox: *)
(* settings/folders, folder-discovery, category-mapping, structure-review. *)
(* A draft is handed on from page to page in the session storage of the    *)
(* tab, and is applied to the mailbox in the end.  Here the API is not one *)
(* step: it lists the folders, creates those that are missing one by one,  *)
(* and then stores the mapping, while a colleague does the same.           *)
(***************************************************************************)
EXTENDS Tab

CONSTANTS
  Managed,     \* mailboxes that the user manages
  FolderIds,   \* what is mapped to a folder: work, invoices ...
  Names,       \* names of folders
  Lower,       \* a name in lower case, by which names are compared
  Label,       \* the name that is proposed for an id
  Fits, Near,  \* names that mean an id in some language; names similar to these
  Categories   \* pairs of category and subcategory

ASSUME StructureAssumption ==
  /\ Lower \in [Names -> Names]
  /\ Label \in [FolderIds -> Names]
  /\ Fits \in [FolderIds -> SUBSET Names] /\ Near \in [FolderIds -> SUBSET Names]

Blank == ""
NoDraft == [box |-> "none"]
NotConfigured == [items |-> <<>>, routes |-> {}]

Mapped == [name : Names, action : {"reuse", "create"}]

-----------------------------------------------------------------------------
(* The API. *)

\* build_proposal and proposalToDraft.  A similar name is proposed as if it were
\* to be created.
ProposedItems(names, id) ==
  CASE names \cap Fits[id] # {} -> {[name |-> n, action |-> "reuse"] : n \in names \cap Fits[id]}
    [] names \cap Fits[id] = {} /\ names \cap Near[id] # {} ->
         {[name |-> n, action |-> "create"] : n \in names \cap Near[id]}
    [] OTHER -> {[name |-> Label[id], action |-> "create"]}
DefaultRoutes == {<<c, CHOOSE id \in FolderIds : TRUE>> : c \in Categories}
Suggested(box) ==
  {[items |-> items, routes |-> DefaultRoutes] :
     items \in {f \in [FolderIds -> Mapped] :
                  \A id \in FolderIds : f[id] \in ProposedItems(api.folders[box], id)}}

\* StructureApply: a category is mapped once, and to a folder of the payload.
Valid(items, routes) ==
  /\ \A r, s \in routes : r[1] = s[1] => r = s
  /\ \A r \in routes : r[2] \in DOMAIN items

InLower(names) == {Lower[n] : n \in names}

\* Mutated form of MissingReuse: nothing that is to be reused is looked for.
NothingMissing(a, folders) == {}

MissingReuse(a, folders) ==
  {id \in DOMAIN a.items :
     a.items[id].action = "reuse" /\ Lower[a.items[id].name] \notin InLower(folders)}

\* Mutated form of StoredName: the name is stored as it was typed.
NameAsTyped(name, names) == name

\* The name that the mailbox has for it.
StoredName(name, names) ==
  IF Lower[name] \in InLower(names) THEN CHOOSE n \in names : Lower[n] = Lower[name] ELSE name

\* MailboxStructureService.apply: each request that was received is under way by
\* itself, whether or not the page still waits for it.
Apply(by, box, items, routes) ==
  [by |-> by, box |-> box, items |-> items, routes |-> routes, phase |-> "received",
   folders |-> {}, todo |-> {}]
Colleague == 0

ApplyStep(a, b) ==
  /\ api' = [b EXCEPT !.applies = @ \ {a}]
  /\ UNCHANGED <<page, tab, moves>>
Onward(a, b) == ApplyStep(a, [api EXCEPT !.applies = @ \cup {b}])

\* The result is kept for a page that waits for it.
Ended(a, phase, b) ==
  ApplyStep(a,
    IF \E k \in Slots : \E q \in run[k].asked : q.to = "apply-structure" /\ q.try = a.by
      THEN [b EXCEPT !.applies = @ \cup
              {[a EXCEPT !.phase = phase, !.folders = {}, !.todo = {}]}]
      ELSE b)

ApplyReceived ==
  /\ \E k \in Slots : \E q \in run[k].asked :
       /\ q.to = "apply-structure" /\ Valid(q.items, q.routes)
       /\ \A a \in api.applies : a.by # q.try
       /\ api' = [api EXCEPT !.applies = @ \cup {Apply(q.try, q.box, q.items, q.routes)}]
  /\ UNCHANGED <<page, tab, moves>>

\* Every reuse is checked before the first folder is created.
ApplyListed(a) ==
  /\ a.phase = "received"
  /\ LET folders == api.folders[a.box]
     IN IF MissingReuse(a, folders) # {} THEN Ended(a, "refused", api)
        ELSE Onward(a, [a EXCEPT !.phase = "listed", !.folders = folders,
                                 !.todo = {id \in DOMAIN a.items :
                                   Lower[a.items[id].name] \notin InLower(folders)}])

FolderCreated(a) ==
  /\ a.phase = "listed"
  /\ \E id \in a.todo :
       ApplyStep(a, [api EXCEPT !.folders[a.box] = @ \cup {a.items[id].name},
                                !.applies = @ \cup {[a EXCEPT !.todo = @ \ {id}]}])

ApplyStored(a) ==
  /\ a.phase = "listed" /\ a.todo = {}
  /\ Ended(a, "stored",
           [api EXCEPT !.config[a.box] =
              [items |-> [id \in DOMAIN a.items |-> StoredName(a.items[id].name, a.folders)],
               routes |-> a.routes]])

\* The mail server or the database fails.
ApplyFailed(a) == a.phase \in {"received", "listed"} /\ Ended(a, "refused", api)

StructureReply(q) ==
  CASE q.to = "mailboxes" -> {Ok(api, Managed)}
    [] q.to = "current" -> {Ok(api, api.config[q.box])}
    [] q.to = "proposal" -> {Ok(api, p) : p \in Suggested(q.box)}
    [] q.to = "apply-structure" ->
         IF ~ Valid(q.items, q.routes) THEN {No}
         ELSE {[api |-> [api EXCEPT !.applies = @ \ {a}],
                ok |-> a.phase = "stored", answer |-> a.phase] :
                 a \in {b \in api.applies : b.by = q.try /\ b.phase \in {"stored", "refused"}}}

\* A colleague applies a draft; a mail client creates a folder, or removes one.  One
\* that is mapped, or may be about to be, is not removed: nothing would notice that.
StructureEvent ==
  /\ Event
  /\ \E box \in Managed :
       \/ \E items \in [FolderIds -> Mapped] :
            /\ \A a \in api.applies : a.by # Colleague
            /\ api' = [api EXCEPT !.applies = @ \cup {Apply(Colleague, box, items, {})}]
       \/ \E n \in Names : api' = [api EXCEPT !.folders[box] = @ \cup {n}]
       \/ \E n \in api.folders[box] :
            /\ api.applies = {}
            /\ \A id \in DOMAIN api.config[box].items :
                 api.config[box].items[id] # n
            /\ api' = [api EXCEPT !.folders[box] = @ \ {n}]

-----------------------------------------------------------------------------
(* The pages. *)

LoadList(box) == Handler("load-list", box, {[to |-> "mailboxes"]})
LoadCurrent(box) == Handler("load-current", box, {[to |-> "current", box |-> box]})
Discovery(box, saved) == Handler("discover", [box |-> box, saved |-> saved],
                                 {[to |-> "proposal", box |-> box]})

\* stored, tries: what stays when another page is opened.
Page(at, stored, tries) ==
  [at |-> at, box |-> "none", draft |-> NoDraft, saved |-> NoDraft, loading |-> FALSE,
   scanning |-> FALSE, busy |-> FALSE, applied |-> FALSE, stored |-> stored, tries |-> tries]

\* A mailbox may be configured already.
StructureInit ==
  /\ \E folders \in [Managed -> {{}} \cup {{n} : n \in UNION {Fits[id] : id \in FolderIds}}],
        configured \in SUBSET Managed :
       api = [folders |-> folders, applies |-> {},
              config |-> [box \in Managed |->
                IF box \in configured /\ folders[box] # {}
                  THEN [items |-> [id \in FolderIds |-> CHOOSE n \in folders[box] : TRUE],
                        routes |-> DefaultRoutes]
                  ELSE NotConfigured]]
  /\ view = Page("folders", [box \in Managed |-> NoDraft], 0)

\* currentToDraft and mergeStructureDraft: what is stored wins over what is proposed.
CurrentDraft(box, config) ==
  IF config = NotConfigured THEN NoDraft
  ELSE [box |-> box, routes |-> config.routes,
        items |-> [id \in DOMAIN config.items |-> [name |-> config.items[id], action |-> "reuse"]]]
Merged(box, proposal, saved) ==
  [box |-> box,
   items |-> IF saved = NoDraft THEN proposal.items ELSE Over(saved.items, proposal.items),
   routes |-> IF saved = NoDraft THEN proposal.routes
              ELSE saved.routes \cup {r \in proposal.routes : \A s \in saved.routes : s[1] # r[1]}]

\* Another page is opened, for the mailbox in its address.  Answers that the last one
\* waits for are ignored.
Goes(at, box, stored) ==
  /\ view' = Page(at, stored, view.tries)
  /\ run' = [k \in Slots |-> IF k = 1 THEN LoadList(box) ELSE Idle]
  /\ Timer
Keeping(draft) == [view.stored EXCEPT ![draft.box] = draft]

\* The mailbox is shown, and loaded by what waits for the choice: the page for
\* folders shows only what the list says, and the one for categories first looks for
\* a draft.  handlers: those in progress.
Chosen(box, handlers) ==
  LET kept == [k \in Slots |-> IF handlers[k].of = "load-current" THEN Idle ELSE handlers[k]]
      Loads == \E k \in Slots :
                 /\ kept[k] = Idle /\ \A j \in Slots : kept[j] = Idle => k <= j
                 /\ run' = [kept EXCEPT ![k] = LoadCurrent(box)]
  IN CASE view.at = "folders" -> view' = [view EXCEPT !.box = box] /\ run' = kept
       [] view.at = "discovery" -> view' = [view EXCEPT !.box = box, !.loading = TRUE] /\ Loads
       [] view.at = "mapping" /\ view.stored[box] # NoDraft ->
            view' = [view EXCEPT !.box = box, !.draft = view.stored[box]] /\ run' = kept
       [] view.at = "mapping" /\ view.stored[box] = NoDraft ->
            view' = [view EXCEPT !.box = box] /\ Loads

ListLoaded(k) ==
  \/ /\ Answered(k, "load-list")
     /\ \E box \in Managed :
          /\ run[k].arg \in Managed => box = run[k].arg
          /\ Chosen(box, [run EXCEPT ![k] = Idle])
     /\ Timer
  \/ Rejected(k, "load-list") /\ UNCHANGED view /\ Ends(k)

\* While it loads and has no draft, the page for categories shows only that.
Shows == view.at = "mapping" /\ view.draft = NoDraft =>
           \A k \in Slots : ~ Running(k, "load-list") /\ ~ Running(k, "load-current")

ChooseMailbox(box) ==
  /\ view.at # "review" /\ view.box \notin {box, "none"} /\ Shows
  /\ Chosen(box, run)
  /\ Timer

\* What could not be loaded leaves the draft of the mailbox before.
CurrentLoaded(k) ==
  \/ /\ Answered(k, "load-current")
     /\ LET box == run[k].arg
            draft == CurrentDraft(box, run[k].got[[to |-> "current", box |-> box]])
        IN view' = IF view.at = "mapping" THEN [view EXCEPT !.draft = draft]
                   ELSE [view EXCEPT !.draft = draft, !.saved = draft, !.loading = FALSE]
     /\ Ends(k)
  \/ /\ Rejected(k, "load-current")
     /\ view' = [view EXCEPT !.loading = FALSE]
     /\ Ends(k)

\* settings/folders
StartSetup == view.at = "folders" /\ view.box # "none" /\ Goes("discovery", view.box, view.stored)

\* settings/folder-discovery
Discover ==
  /\ view.at = "discovery" /\ view.box # "none" /\ ~ view.loading /\ ~ view.scanning
  /\ view' = [view EXCEPT !.scanning = TRUE]
  /\ Begin(Discovery(view.box, view.saved))
  /\ Timer

Discovered(k) ==
  \/ /\ Answered(k, "discover")
     /\ LET of == run[k].arg
            proposal == run[k].got[[to |-> "proposal", box |-> of.box]]
        IN view' = [view EXCEPT !.draft = Merged(of.box, proposal, of.saved), !.scanning = FALSE]
     /\ Ends(k)
  \/ Rejected(k, "discover") /\ view' = [view EXCEPT !.scanning = FALSE] /\ Ends(k)

\* updateFolder
EditItem ==
  /\ view.at = "discovery" /\ ~ view.loading /\ view.draft # NoDraft
  /\ \E id \in DOMAIN view.draft.items, to \in Mapped :
       view' = [view EXCEPT !.draft.items[id] = to]
  /\ UNCHANGED run /\ Click

NextToMapping ==
  /\ view.at = "discovery" /\ ~ view.loading /\ view.draft # NoDraft
  /\ Goes("mapping", view.draft.box, Keeping(view.draft))

\* addRoute, removeRoute and updateRoute of settings/category-mapping.
EditedRoutes(draft) ==
  LET folders == DOMAIN draft.items
      routes == draft.routes
  IN {routes \cup {<<Blank, id>>} : id \in folders}
     \cup {routes \ {r} : r \in routes}
     \cup {(routes \ {r}) \cup {<<c, id>>} : r \in routes, c \in Categories, id \in folders}

EditRoutes ==
  /\ view.at = "mapping" /\ view.draft # NoDraft
  /\ \E to \in EditedRoutes(view.draft) : view' = [view EXCEPT !.draft.routes = to]
  /\ UNCHANGED run /\ Click

BackToDiscovery ==
  /\ view.at \in {"mapping", "review"} /\ Shows
  /\ IF view.draft # NoDraft
       THEN view.at = "mapping" /\ Goes("discovery", view.draft.box, Keeping(view.draft))
       ELSE ~ view.applied /\ Goes("discovery", view.box, view.stored)

\* Routes without a category are dropped, and the page to come reads the draft.
NextToReview ==
  /\ view.at = "mapping" /\ view.draft # NoDraft
  /\ LET draft == [view.draft EXCEPT !.routes = {r \in @ : r[1] # Blank}]
     IN view' = [Page("review", Keeping(draft), view.tries) EXCEPT
                   !.box = draft.box, !.draft = draft]
  /\ run' = [k \in Slots |-> Idle]
  /\ Timer

\* settings/structure-review
ApplyDraft ==
  /\ Click
  /\ view.at = "review" /\ view.draft # NoDraft /\ ~ view.applied
  /\ ~ view.busy /\ view' = [view EXCEPT !.busy = TRUE, !.tries = @ + 1]
  /\ Begin(Handler("apply", view'.tries,
                   {[to |-> "apply-structure", try |-> view'.tries, box |-> view.draft.box,
                     items |-> view.draft.items, routes |-> view.draft.routes]}))

DraftApplied(k) ==
  \/ /\ Answered(k, "apply")
     /\ view' = [view EXCEPT !.busy = FALSE, !.applied = TRUE, !.stored[view.draft.box] = NoDraft]
     /\ Ends(k)
  \/ Rejected(k, "apply") /\ view' = [view EXCEPT !.busy = FALSE] /\ Ends(k)

BackToMapping ==
  /\ view.at = "review" /\ view.draft # NoDraft /\ ~ view.applied /\ ~ view.busy
  /\ Goes("mapping", view.draft.box, Keeping(view.draft))
BackToFolders == view.at = "review" /\ view.applied /\ Goes("folders", "none", view.stored)

-----------------------------------------------------------------------------
(* What the pages promise. *)

\* Folders to which mail is routed exist in the mailbox: a mapping is stored with the
\* names that the mailbox has, and after all folders that were missing were created,
\* whatever fails and whoever else applies a draft.
MappedFoldersExist ==
  page = "structure" =>
    \A box \in Managed : \A id \in DOMAIN api.config[box].items :
      api.config[box].items[id] \in api.folders[box]

\* A folder is created only for an item that was confirmed as one to create, even if
\* what the review showed as there to be reused has been removed since (the test
\* test_apply_creates_only_approved_missing_folders, and "Validate every requested
\* reuse before the first provider mutation").
OnlyApprovedIsCreated ==
  [][page = "structure" /\ moves' = moves =>
       \A box \in Managed : \A n \in api'.folders[box] \ api.folders[box] :
         \E a \in api.applies :
           /\ a.box = box
           /\ \E id \in DOMAIN a.items :
                a.items[id] = [name |-> n, action |-> "create"]
           /\ \A id \in DOMAIN a.items :
                a.items[id].action = "reuse" =>
                  Lower[a.items[id].name] \in InLower(a.folders)]_vars
=============================================================================
