\* Two workers, whose batches of the same job overlap after a resume, a restart or a
\* crash: everything may go wrong once, and users interfere.
SPECIFICATION Spec
CONSTANTS
  w1 = w1
  w2 = w2
  MaxUid = 3
  History = {1, 2}
  BatchSize = 2
  MaxAttempts = 2
  MaxTries = 3
  Slots = {w1, w2}
  MaxRetryIds = 2
  MaxIncidents = 1
  MaxCommands = 2
  Incidents = {"transient", "hard", "degraded", "crash", "raise", "expunge", "pause", "redis", "uidvalidity", "deliver", "retry_raise", "overflow", "api_crash"}
INVARIANT NothingSkipped ResolvedHasProposal CompletedIsComplete RunningHasEntry
PROPERTY StoppedStaysStopped
CHECK_DEADLOCK FALSE
SYMMETRY Symmetry
