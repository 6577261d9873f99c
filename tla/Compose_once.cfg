\* One tab: lost requests, answers and connections, crashes, SMTP failures.
SPECIFICATION FairSpec
CONSTANTS
  t1 = t1
  t2 = t2
  k1 = k1
  k2 = k2
  k3 = k3
  Tabs = {t1}
  Requests = {k1, k2}
  Opened = {"draft"}
  Files = {1}
  Addressed = {1}
  MaxVersion = 1
  MaxCommands = 2
  MaxIncidents = 2
  Incidents = {"drop", "crash", "smtp"}
INVARIANT TwiceOnlyInOverlap SentWasDelivered OnlyAccepted
PROPERTY SendEnds
CHECK_DEADLOCK FALSE
