\* Two accounts: the plan allows one message a day, a cycle takes up to two, and
\* the first message cannot be classified.
SPECIFICATION FairSpec
CONSTANTS
  Accounts = {"a", "b"}
  NumMail = 4
  Owner <- TwoOwners
  Early = {1, 2, 4}
  Poison = {1}
  Batch = 2
  Limit = 1
  Interval = 1
  KeepResult = 2
  KeyLife = 3
  MaxTries = 2
  Slots = {1}
  MaxCommands = 1
  MaxIncidents = 1
  Incidents = {"imap", "model", "db", "crash", "timeout", "pause"}
INVARIANT StoredIsFiled CopiedAtMostOnce HandledWithinQuota
PROPERTY EveryMailHandled
CHECK_DEADLOCK FALSE
