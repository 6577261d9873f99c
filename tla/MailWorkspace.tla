--------------------------- MODULE MailWorkspace ---------------------------
(***************************************************************************)
(* The mail page of the web application (app/mail/use-*.ts) over the       *)
(* mailboxes it shows, while the live cycle moves mail as well.            *)
(*                                                                         *)
(* The page keeps one record of state that several asynchronous functions  *)
(* read and write: loading the list, the folders of an account, opening a  *)
(* message, an action, a drop of several messages, undoing it.  Each is a  *)
(* task that goes on whenever its request is answered; none is cancelled.  *)
(* A task works with what it has captured when it was started.             *)
(*                                                                         *)
(* Requests that only read are answered in one step.                       *)
(***************************************************************************)
EXTENDS Mailbox

CONSTANTS
  Inbox, Archive,  \* folder of each account with that role
  Threaded,        \* messages that belong to a thread
  Links,           \* messages that a link may open
  Unfiled,         \* messages that the live cycle has still to file
  MaxCommands,     \* bound: what the user does with a request
  MaxTasks,        \* bound: tasks under way when the user does more
  MaxIncidents,    \* bound: incidents
  Incidents        \* kinds of incident that may happen

ASSUME PageAssumption ==
  /\ Inbox \in [Accounts -> Names] /\ Archive \in [Accounts -> Names]
  /\ \A a \in Accounts : {Inbox[a], Archive[a]} \subseteq Has[a]
  /\ Threaded \subseteq Messages /\ Links \subseteq Messages /\ Unfiled \subseteq Messages
  /\ MaxCommands \in Nat /\ MaxTasks \in Nat /\ MaxIncidents \in Nat
  /\ Incidents \subseteq {"imap", "answer", "read", "worker"}

VARIABLES
  page,   \* state of the hooks
  tasks,  \* asynchronous functions that have not ended
  commands, incidents

vars == <<mailbox, page, tasks, commands, incidents>>

None == [msg |-> 0]
Roles == {"role inbox", "role archive"}
Filters == Accounts \cup {"all"}

AccountOf(q) == Owner[q.msg]
Pointer(x) == [msg |-> x.msg, folder |-> x.folder, uid |-> x.uid]
Exists(q) == \E x \in copies : Pointer(x) = q

View == [filter |-> page.filter, folder |-> page.folder]

NoView == [filter |-> "all", folder |-> "null"]

\* A task knows the command that started it (id), where it is (at), the view, the
\* account of the metadata and the selected message (was) at its start, the
\* message it is about (ptr), and, for a drop or an undo, what it has still to move
\* (queue) and what it has moved (done).
Task(n, kind, at) ==
  [id |-> n, kind |-> kind, at |-> at, view |-> NoView, account |-> "null",
   ptr |-> None, was |-> None, wants |-> {}, unread |-> FALSE, to |-> "",
   queue |-> {}, done |-> {}, call |-> 0]

Listing(n, view) == [Task(n, "list", "list") EXCEPT !.view = view]

FolderTask(n, a) == [Task(n, "folders", "start") EXCEPT !.account = a]

Acting(n, kind, at) == [Task(n, kind, at) EXCEPT !.view = View, !.was = page.selected]

Linked == {[msg |-> m, folder |-> Arrived[m], uid |-> m] : m \in Links}

\* ensureMetadata has what it needs, whatever account that is the metadata of.
Cached(a) == page.metadata # "null" /\ page.filter = a

Ensuring(n, a) ==
  IF Cached(a) THEN {}
  ELSE {[Task(n, "ensure", "start") EXCEPT !.account = a]}

Waiting(n, kind, q, wants) ==
  [Task(n, kind, "start") EXCEPT
     !.ptr = q, !.account = IF Cached(AccountOf(q)) THEN page.metadata ELSE AccountOf(q),
     !.wants = wants \cup (IF Cached(AccountOf(q)) THEN {} ELSE {"metadata"})]

\* The page is opened by itself, or by a link to one message.
Init ==
  /\ MailboxInit
  /\ page \in
       [filter : Filters, folder : {"null"}, rows : {{}}, loading : {TRUE},
        metadata : {"null"}, moveFolder : {""}, selected : {None}, thread : {0},
        opening : BOOLEAN, acting : {FALSE}, undo : {{}}, menu : {None}]
  /\ LET loads == {Listing(0, View)}
            \cup (IF page.filter = "all" THEN {} ELSE {FolderTask(0, page.filter)})
     IN \/ ~ page.opening /\ tasks = loads
        \/ /\ page.opening
           /\ \E q \in Linked :
                /\ page.filter = AccountOf(q)
                /\ tasks = loads \cup {Waiting(0, "open", q, {"detail"})}
                                 \cup Ensuring(0, AccountOf(q))
  /\ commands = 0 /\ incidents = 0

Command ==
  /\ commands < MaxCommands /\ commands' = commands + 1
  /\ Cardinality(tasks) < MaxTasks

Incident(kind) ==
  /\ kind \in Incidents
  /\ incidents < MaxIncidents /\ incidents' = incidents + 1

Become(t, u) == tasks' = (tasks \ {t}) \cup {u}
End(t) == tasks' = tasks \ {t}

-----------------------------------------------------------------------------
(* What the user does. *)

\* Changing the filter or the folder loads the list once more.
Reloading(p) ==
  IF p.filter # page.filter \/ p.folder # page.folder
    THEN [p EXCEPT !.loading = TRUE] ELSE p
ReloadTasks(n, p) ==
  IF p.filter # page.filter \/ p.folder # page.folder
    THEN {Listing(n, [filter |-> p.filter, folder |-> p.folder])} ELSE {}

ChangeAccount(a) ==
  /\ Command
  /\ LET cleared == [page EXCEPT !.filter = a, !.selected = None, !.thread = 0,
                                 !.folder = IF a = "all" THEN "role inbox" ELSE "null"]
         p == IF a = "all" /\ page.filter # "all"
                THEN [cleared EXCEPT !.metadata = "null", !.moveFolder = ""]
                ELSE cleared
     IN /\ page' = Reloading(p)
        /\ tasks' = tasks \cup ReloadTasks(commands', p) \cup
             (IF a \in {"all", page.filter} THEN {} ELSE {FolderTask(commands', a)})
  /\ UNCHANGED <<mailbox, incidents>>

\* The folders shown are those of the metadata, or the roles.
ShownFolders ==
  IF page.filter = "all" THEN Roles
  ELSE IF page.metadata = "null" THEN {} ELSE Has[page.metadata]

ChooseFolder(f) ==
  /\ f \in ShownFolders /\ f # page.folder
  /\ Command
  /\ LET p == [page EXCEPT !.folder = f]
     IN page' = Reloading(p) /\ tasks' = tasks \cup ReloadTasks(commands', p)
  /\ UNCHANGED <<mailbox, incidents>>

Refresh ==
  /\ Command
  /\ page' = [page EXCEPT !.loading = TRUE]
  /\ tasks' = tasks \cup {Listing(commands', View)}
  /\ UNCHANGED <<mailbox, incidents>>

ShownRows == IF page.loading THEN {} ELSE page.rows
Shown == ShownRows \cup ({page.selected} \ {None})

OpenMessage(q) ==
  /\ q \in ShownRows
  /\ Command
  /\ page' = [page EXCEPT !.opening = TRUE]
  /\ tasks' = tasks \cup {Waiting(commands', "open", q, {"detail"})}
                    \cup Ensuring(commands', AccountOf(q))
  /\ UNCHANGED <<mailbox, incidents>>

MoveOf(q, f) == [msg |-> q.msg, uid |-> q.uid, from |-> q.folder, to |-> f]

\* One row is dragged to a folder, or with it the selected rows of its account;
\* any rows may be selected.
Drop(Q, f) ==
  /\ Q \subseteq ShownRows /\ f \in ShownFolders
  /\ Cardinality({AccountOf(q) : q \in Q}) = 1
  /\ LET candidates == {q \in Q : AccountOf(q) = page.filter /\ q.folder # f}
     IN /\ candidates # {}
        /\ Command
        /\ tasks' = tasks \cup {[Acting(commands', "drop", "next") EXCEPT
                                   !.was = None, !.queue = {MoveOf(q, f) : q \in candidates}]}
  /\ page' = [page EXCEPT !.acting = TRUE]
  /\ UNCHANGED <<mailbox, incidents>>

UndoLastMove ==
  /\ page.undo # {}
  /\ Command
  /\ page' = [page EXCEPT !.undo = {}, !.acting = TRUE]
  /\ tasks' = tasks \cup {[Acting(commands', "undo", "next") EXCEPT
                               !.was = None, !.queue = page.undo]}
  /\ UNCHANGED <<mailbox, incidents>>

DismissUndo ==
  /\ page.undo # {}
  /\ page' = [page EXCEPT !.undo = {}]
  /\ UNCHANGED <<mailbox, tasks, commands, incidents>>

OpenMenu(q) ==
  /\ q \in Shown
  /\ Command
  /\ tasks' = tasks \cup {Waiting(commands', "menu", q, {})} \cup Ensuring(commands', AccountOf(q))
  /\ UNCHANGED <<mailbox, page, incidents>>

CloseMenu ==
  /\ page.menu # None
  /\ page' = [page EXCEPT !.menu = None]
  /\ UNCHANGED <<mailbox, tasks, commands, incidents>>

\* runActionFor sends its request at once.
StartAct(t, kind, to) ==
  \E c \in Calls :
    /\ Ask(c, kind, t.ptr.msg, t.ptr.uid, t.ptr.folder, to)
    /\ page' = [page EXCEPT !.acting = TRUE, !.menu = None]
    /\ tasks' = (tasks \ {t}) \cup {[t EXCEPT !.kind = "act", !.at = "act", !.to = to,
                                              !.account = "null", !.call = c]}
    /\ UNCHANGED <<copies, last>>

\* The server finds the folder for archive (and in the same way trash, spam).
Archiving(q) ==
  /\ q \in ({page.selected, page.menu} \ {None})
  /\ Command
  /\ StartAct([Acting(commands', "act", "act") EXCEPT !.ptr = q], "move", Archive[AccountOf(q)])
  /\ UNCHANGED incidents

MarkRead(kind) ==
  /\ page.menu # None
  /\ Command
  /\ StartAct([Acting(commands', "act", "act") EXCEPT !.ptr = page.menu], kind, page.menu.folder)
  /\ UNCHANGED incidents

\* The move control of the toolbar offers the folders of the metadata.
PickFolder(f) ==
  /\ page.selected # None /\ page.metadata # "null"
  /\ f \in (Has[page.metadata] \ {page.selected.folder}) \cup {""}
  /\ page' = [page EXCEPT !.moveFolder = f]
  /\ UNCHANGED <<mailbox, tasks, commands, incidents>>

MoveByToolbar ==
  /\ page.selected # None /\ page.metadata # "null"
  /\ page.moveFolder # "" /\ ~ page.acting
  /\ Command
  /\ StartAct([Acting(commands', "act", "act") EXCEPT !.ptr = page.selected], "move", page.moveFolder)
  /\ UNCHANGED incidents

MoveByMenu ==
  /\ page.menu # None
  /\ Command
  /\ page' = [page EXCEPT !.menu = None]
  /\ tasks' = tasks \cup {[Waiting(commands', "prompt", page.menu, {}) EXCEPT
                               !.view = View, !.was = page.selected]}
                    \cup Ensuring(commands', AccountOf(page.menu))
  /\ UNCHANGED <<mailbox, incidents>>

Insight ==
  /\ page.menu # None
  /\ Command
  /\ page' = [page EXCEPT !.menu = None]
  /\ tasks' = tasks \cup
       {[Task(commands', "insight", "start") EXCEPT
           !.ptr = page.menu, !.wants = IF page.menu = page.selected THEN {} ELSE {"detail"}]}
  /\ UNCHANGED <<mailbox, incidents>>

-----------------------------------------------------------------------------
(* What the page does with the answers. *)

Accounted(view) == IF view.filter = "all" THEN Accounts ELSE {view.filter}

\* Without a folder the inbox is listed; in all accounts a role.
RealFolder(view, a) ==
  IF view.folder \in {"null", "role inbox"} THEN Inbox[a]
  ELSE IF view.folder = "role archive" THEN Archive[a] ELSE view.folder

Listable(view) == \A a \in Accounted(view) : RealFolder(view, a) \in Has[a]

Listed(view) ==
  {Pointer(x) : x \in {y \in copies : /\ Owner[y.msg] \in Accounted(view)
                                      /\ y.folder = RealFolder(view, Owner[y.msg])}}

\* loadInbox, alone or at the end of an action.
ListAnswered(t) ==
  /\ t.at = "list"
  /\ page' = [page EXCEPT !.rows = IF Listable(t.view) THEN Listed(t.view) ELSE @,
                          !.loading = FALSE, !.acting = @ /\ t.kind # "act"]
  /\ End(t)
  /\ UNCHANGED <<mailbox, commands, incidents>>

\* loadMetadata: choosing the inbox loads the list for the present filter.
FoldersAnswered(t) ==
  /\ t.kind = "folders"
  /\ LET p == [page EXCEPT !.metadata = t.account, !.moveFolder = Archive[t.account],
                           !.folder = IF @ \in Names THEN @ ELSE Inbox[t.account]]
     IN /\ page' = Reloading(p)
        /\ tasks' = (tasks \ {t}) \cup ReloadTasks(t.id, p)
  /\ UNCHANGED <<mailbox, commands, incidents>>

\* The task that has asked for the metadata goes on.
EnsureAnswered(t) ==
  /\ t.kind = "ensure"
  /\ page' = [page EXCEPT !.metadata = t.account, !.moveFolder = Archive[t.account]]
  /\ tasks' = {IF u.id = t.id THEN [u EXCEPT !.wants = @ \ {"metadata"}] ELSE u
                 : u \in tasks \ {t}}
  /\ UNCHANGED <<mailbox, commands, incidents>>

\* Mutated form of Failed: the action is not ended.
FailedActing(t) ==
  /\ page' = [page EXCEPT !.opening = @ /\ t.kind # "open"]
  /\ End(t)

Failed(t) ==
  /\ page' = [page EXCEPT !.opening = @ /\ t.kind # "open",
                          !.acting = @ /\ t.kind # "act"]
  /\ End(t)

DetailAnswered(t) ==
  /\ t.at = "start" /\ "detail" \in t.wants
  /\ IF Exists(t.ptr)
       THEN /\ Become(t, [t EXCEPT !.wants = @ \ {"detail"},
                                   !.unread = \E x \in copies : Pointer(x) = t.ptr /\ ~ x.seen])
            /\ UNCHANGED page
       ELSE Failed(t)
  /\ UNCHANGED <<mailbox, commands, incidents>>

\* openDetail shows the message and goes on with its thread, if it has one.
Show(t) ==
  /\ page' = [page EXCEPT !.selected = t.ptr,
                          !.thread = IF t.ptr.msg \in Threaded THEN @ ELSE 0,
                          !.opening = @ /\ t.ptr.msg \in Threaded]
  /\ IF t.ptr.msg \in Threaded
       THEN Become(t, [t EXCEPT !.at = "thread", !.call = 0])
       ELSE End(t)

Opened(t) ==
  /\ t.kind = "open" /\ t.at = "start" /\ t.wants = {}
  /\ IF t.unread
       THEN \E c \in Calls :
              /\ Ask(c, "read", t.ptr.msg, t.ptr.uid, t.ptr.folder, t.ptr.folder)
              /\ Become(t, [t EXCEPT !.at = "mark", !.call = c])
              /\ UNCHANGED <<copies, last, page>>
       ELSE Show(t) /\ UNCHANGED mailbox
  /\ UNCHANGED <<commands, incidents>>

\* The call is answered, or its answer is lost while the server goes on.
Settled(t, outcome) ==
  \/ /\ call[t.call].at = outcome
     /\ Release(t.call)
     /\ UNCHANGED incidents
  \/ /\ outcome = "failed"
     /\ Incident("answer")
     /\ UNCHANGED call

MarkAnswered(t) ==
  /\ t.at = "mark"
  /\ \/ Settled(t, "done") /\ Show(t)
     \/ Settled(t, "failed") /\ Failed(t)
  /\ UNCHANGED <<copies, last, commands>>

\* openDetail and showInsight.
ThreadAnswered(t) ==
  /\ \/ t.at = "thread"
     \/ t.kind = "insight" /\ t.wants = {}
  /\ page' = [page EXCEPT !.selected = IF t.kind = "insight" THEN t.ptr ELSE @,
                          !.thread = IF t.ptr.msg \in Threaded THEN t.ptr.msg ELSE 0,
                          !.opening = @ /\ t.kind # "open"]
  /\ End(t)
  /\ UNCHANGED <<mailbox, commands, incidents>>

MenuReady(t) ==
  /\ t.kind = "menu" /\ t.wants = {}
  /\ page' = [page EXCEPT !.menu = t.ptr]
  /\ End(t)
  /\ UNCHANGED <<mailbox, commands, incidents>>

\* moveFromContext: the user types one of the folders offered, or goes back.
Prompted(t) ==
  /\ t.kind = "prompt" /\ t.wants = {}
  /\ \/ \E f \in Has[t.account] \ {t.ptr.folder} : StartAct(t, "move", f)
     \/ End(t) /\ UNCHANGED <<mailbox, page>>
  /\ UNCHANGED <<commands, incidents>>

\* refreshSelectedAfterAction, with the message that was selected at the start.
ActAnswered(t) ==
  /\ t.at = "act"
  /\ \/ /\ Settled(t, "failed") /\ Failed(t)
     \/ /\ Settled(t, "done")
        /\ LET gone == t.was = t.ptr /\ t.to # t.ptr.folder
               next == IF t.was = t.ptr /\ ~ gone THEN "refresh" ELSE "list"
           IN /\ Become(t, [t EXCEPT !.at = next, !.call = 0])
              /\ page' = [page EXCEPT !.selected = IF gone THEN None ELSE @,
                                      !.thread = IF gone THEN 0 ELSE @,
                                      !.loading = @ \/ next = "list"]
  /\ UNCHANGED <<copies, last, commands>>

RefreshAnswered(t) ==
  /\ t.at = "refresh"
  /\ IF Exists(t.ptr)
       THEN /\ page' = [page EXCEPT !.selected = t.ptr, !.loading = TRUE]
            /\ Become(t, [t EXCEPT !.at = "list"])
       ELSE Failed(t)
  /\ UNCHANGED <<mailbox, commands, incidents>>

\* A drop and an undo send one request after the other.
NextMove(t) ==
  /\ t.at = "next" /\ t.queue # {}
  /\ \E c \in Calls, v \in t.queue :
       /\ IF t.kind = "drop" THEN Ask(c, "move", v.msg, v.uid, v.from, v.to)
                             ELSE Ask(c, "undo", v.msg, 0, v.to, v.from)
       /\ Become(t, [t EXCEPT !.at = "move", !.call = c, !.queue = @ \ {v}])
  /\ UNCHANGED <<copies, last, page, commands, incidents>>

\* The finally blocks of both.
Finished(t, p) ==
  /\ page' = [p EXCEPT !.acting = FALSE, !.loading = TRUE]
  /\ Become(t, Listing(t.id, t.view))

\* What a call was asked to move.
Asked(c) == [msg |-> call[c].msg, uid |-> call[c].uid, from |-> call[c].folder,
             to |-> call[c].to]

\* Mutated form of MoveAnswered: a move is noted before it is answered.
MoveNotedFirst(t) ==
  /\ t.at = "move"
  /\ LET noted == t.done \cup {Asked(t.call)}
     IN \/ /\ Settled(t, "done")
           /\ Become(t, [t EXCEPT !.at = "next", !.call = 0, !.done =
                           IF t.kind = "drop" THEN noted ELSE @])
           /\ UNCHANGED page
        \/ /\ Settled(t, "failed")
           /\ Finished(t, [page EXCEPT !.undo = IF t.kind = "drop" THEN noted ELSE @])
  /\ UNCHANGED <<copies, last, commands>>

MoveAnswered(t) ==
  /\ t.at = "move"
  /\ \/ /\ Settled(t, "done")
        /\ Become(t, [t EXCEPT !.at = "next", !.call = 0, !.done =
                        IF t.kind = "drop" THEN @ \cup {Asked(t.call)} ELSE @])
        /\ UNCHANGED page
     \/ /\ Settled(t, "failed")
        /\ Finished(t, [page EXCEPT !.undo =
                          IF t.kind = "drop" /\ t.done # {} THEN t.done ELSE @])
  /\ UNCHANGED <<copies, last, commands>>

MovesDone(t) ==
  /\ t.at = "next" /\ t.queue = {}
  /\ Finished(t, IF t.kind = "drop"
                   THEN [page EXCEPT !.undo = t.done, !.selected = None, !.thread = 0]
                   ELSE page)
  /\ UNCHANGED <<mailbox, commands, incidents>>

\* A request that only reads fails.
ReadFails(t) ==
  /\ t.call = 0 /\ t.at # "next"
  /\ "detail" \in t.wants \/ t.kind \in {"ensure", "folders", "insight"}
       \/ t.at \in {"thread", "refresh", "list"}
  /\ Incident("read")
  /\ \/ /\ t.kind = "ensure"
        /\ LET waiting == {u \in tasks : u.id = t.id /\ "metadata" \in u.wants}
           IN /\ tasks' = tasks \ (waiting \cup {t})
              /\ page' = [page EXCEPT !.opening = @ /\ \A u \in waiting : u.kind # "open"]
     \/ /\ t.kind # "ensure"
        /\ IF t.at = "list"
             THEN /\ page' = [page EXCEPT !.loading = FALSE, !.acting = @ /\ t.kind # "act"]
                  /\ End(t)
             ELSE Failed(t)
  /\ UNCHANGED <<mailbox, commands>>

-----------------------------------------------------------------------------
(* The server goes on by itself, and so does the live cycle. *)

Serve(c) ==
  /\ ServerStep(c)
  /\ UNCHANGED <<page, tasks, commands, incidents>>

CallFails(c) ==
  /\ Fail(c) /\ Incident("imap")
  /\ UNCHANGED <<page, tasks, commands>>

\* A call whose answer was lost, or that was a worker's.
Forget(c) ==
  /\ Release(c)
  /\ \A t \in tasks : t.call # c
  /\ UNCHANGED <<copies, last, page, tasks, commands, incidents>>

\* The live cycle files a message that it has found in the inbox.
WorkerMoves(c) ==
  /\ Incident("worker")
  /\ \E x \in copies, f \in Names :
       /\ x.msg \in Unfiled /\ x.folder = Inbox[Owner[x.msg]]
       /\ f \in Has[Owner[x.msg]] \ {x.folder}
       /\ Ask(c, "move", x.msg, x.uid, x.folder, f)
  /\ UNCHANGED <<copies, last, page, tasks, commands>>

-----------------------------------------------------------------------------
UserStep ==
  \/ \E a \in Filters : ChangeAccount(a)
  \/ \E f \in Names \cup Roles : ChooseFolder(f)
  \/ \E Q \in SUBSET ShownRows, f \in Names : Drop(Q, f)
  \/ \E f \in Names \cup {""} : PickFolder(f)
  \/ \E q \in Shown : OpenMessage(q) \/ OpenMenu(q)
  \/ \E q \in {page.selected, page.menu} : Archiving(q)
  \/ \E kind \in {"read", "unread"} : MarkRead(kind)
  \/ Refresh \/ UndoLastMove \/ DismissUndo \/ CloseMenu
  \/ MoveByToolbar \/ MoveByMenu \/ Insight

PageStep(t) ==
  \/ ListAnswered(t) \/ FoldersAnswered(t) \/ EnsureAnswered(t) \/ DetailAnswered(t)
  \/ Opened(t) \/ MarkAnswered(t) \/ ThreadAnswered(t) \/ MenuReady(t) \/ Prompted(t)
  \/ ActAnswered(t) \/ RefreshAnswered(t) \/ NextMove(t) \/ MoveAnswered(t) \/ MovesDone(t)

Next ==
  \/ UserStep
  \/ \E t \in tasks : PageStep(t) \/ ReadFails(t)
  \/ \E c \in Calls : Serve(c) \/ CallFails(c) \/ Forget(c) \/ WorkerMoves(c)

\* Requests are answered and the answers handled; the user may stop at any time.
Fairness ==
  /\ WF_vars(\E t \in tasks : PageStep(t))
  /\ \A c \in Calls : WF_vars(Serve(c) \/ Forget(c))

Spec == Init /\ [][Next]_vars
FairSpec == Spec /\ Fairness

-----------------------------------------------------------------------------
(* Properties. *)

\* Undo offers only moves that were made: of a drop that fails at one message,
\* or loses an answer, exactly those whose original has left its folder.
UndoIsExact ==
  \A v \in page.undo : ~ Exists([msg |-> v.msg, folder |-> v.from, uid |-> v.uid])

\* The page does not stay busy.
PageSettles == (page.loading \/ page.opening \/ page.acting) ~>
                 ~ (page.loading \/ page.opening \/ page.acting)
=============================================================================
