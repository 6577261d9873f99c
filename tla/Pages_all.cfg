SPECIFICATION Spec
CONSTANTS
  Slots = {1, 2}
  Refused = Refused
  NotLoaded = NotLoaded
  MaxMoves = 2
  Proposals = {"p1", "p2"}
  Domains = {"d1", "d2"}
  DomainOf <- MCDomainOf
  Suspicious = {}
  Doubtful = {"p2"}
  Folders = {"f1"}
  Runs = {"r1", "r2"}
  Items = {"m1"}
  Places = {"Work", "work", "Arbeit"}
  InMailbox = {"Work"}
  PlaceLabel <- MCPlaceLabel
  PlaceOfLabel <- MCPlaceOfLabel
  Topics = {"invoice", "Rechnung"}
  TopicLabel <- MCTopicLabel
  Notes = {"n1", "n2"}
  Users = {"me", "ann"}
  Me = "me"
  NotFound = NotFound
  Boxes = {"b1", "b2"}
  Entries = {"e1", "e2"}
  Matches = {"s1"}
  BoxOf <- MCBoxOf
  Outcomes = {"d1", "d2"}
  Rules = {"r1", "r2"}
  Managed = {mail1, mail2}
  FolderIds = {"work"}
  Names = {"Arbeit", "arbeit"}
  Lower <- MCLower
  Label <- MCLabel
  Fits <- MCFits
  Near <- MCNear
  Categories = {"c1"}
  Connected = {1, 2}
SYMMETRY MailboxesAlike
INVARIANT MemoryAgrees MappedFoldersExist ReadyIsTrue
PROPERTY ApprovedAsShown OnlyAskedIsSettled TypedIsKept RemovedWhereSelected OnlyApprovedIsCreated
CHECK_DEADLOCK FALSE
