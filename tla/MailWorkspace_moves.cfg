\* One account, two messages: drops, undo, archive under failures and a worker.
SPECIFICATION FairSpec
CONSTANTS
  NumMessages = 2
  Accounts = {"a"}
  Owner <- OneOwner
  Names = {"INBOX", "Archive"}
  Has <- OneHas
  Arrived <- MCArrived
  Unread = {1}
  Calls = {1, 2}
  Inbox <- MCInbox
  Archive <- OneArchive
  Threaded = {1}
  Links = {}
  Unfiled = {1}
  MaxCommands = 2
  MaxTasks = 2
  MaxIncidents = 1
  Incidents = {"imap", "answer", "read", "worker"}
INVARIANT NeverLost UndoIsExact
PROPERTY KeepsCustody PageSettles
CHECK_DEADLOCK FALSE
