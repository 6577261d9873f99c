\* One batch at a time, everything may go wrong twice: messages are counted once, a
\* retrying failure has a task, and the job comes to an end.
SPECIFICATION FairSpec
CONSTANTS
  w1 = w1
  w2 = w2
  MaxUid = 3
  History = {1, 2}
  BatchSize = 2
  MaxAttempts = 1
  MaxTries = 2
  Slots = {w1}
  MaxRetryIds = 2
  MaxIncidents = 2
  MaxCommands = 1
  Incidents = {"transient", "hard", "degraded", "crash", "raise", "expunge", "pause", "redis", "uidvalidity", "deliver", "retry_raise", "overflow", "api_crash"}
INVARIANT EachCountedOnce RetryingHasTask
PROPERTY BackfillEnds
CHECK_DEADLOCK FALSE
