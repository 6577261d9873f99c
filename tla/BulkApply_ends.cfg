SPECIFICATION FairSpec
CONSTANTS
  Proposals = {1, 2}
  Suspicious = {}
  Doubtful = {}
  Tagged = {}
  Moved = {}
  BatchSize = 1
  MaxTries = 2
  Slots = {w1, w2}
  Reviewers = {h1}
  Starters = {c1, c2}
  MaxReviews = 1
  MaxStarts = 2
  MaxVersion = 0
  MaxEntries = 3
  MaxIncidents = 2
  Incidents = {"crash", "raise", "pause", "redis", "api_crash"}
  w1 = w1
  w2 = w2
  h1 = h1
  h2 = h2
  c1 = c1
  c2 = c2
INVARIANT RunningIsQueued
PROPERTY ApplyEnds
CHECK_DEADLOCK FALSE
