\* Two tabs send the same draft.
SPECIFICATION Spec
CONSTANTS
  t1 = t1
  t2 = t2
  k1 = k1
  k2 = k2
  k3 = k3
  Tabs = {t1, t2}
  Requests = {k1, k2}
  Opened = {"draft", "failed"}
  Files = {1}
  Addressed = {0}
  MaxVersion = 0
  MaxCommands = 2
  MaxIncidents = 0
  Incidents = {}
INVARIANT DeliveredOnce
CHECK_DEADLOCK FALSE
