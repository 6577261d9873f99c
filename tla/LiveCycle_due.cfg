\* The intervals of the code: a cron and an account of five minutes, results that
\* are kept for an hour, keys for a day.  No incident, no manual run.
SPECIFICATION Spec
CONSTANTS
  Accounts = {"a"}
  NumMail = 1
  Owner <- OneOwner
  Early = {1}
  Poison = {}
  Batch = 20
  Limit = 100
  Interval = 1
  KeepResult = 12
  KeyLife = 288
  MaxTries = 3
  Slots = {1}
  MaxCommands = 0
  MaxIncidents = 0
  Incidents = {}
PROPERTY DueIsPickedUp
CHECK_DEADLOCK FALSE
