SPECIFICATION Spec
CONSTANTS
  Proposals = {1, 2}
  Suspicious = {}
  Doubtful = {2}
  Tagged = {1, 2}
  Moved = {1}
  BatchSize = 2
  MaxTries = 2
  Slots = {w1}
  Reviewers = {h1, h2}
  Starters = {c1}
  MaxReviews = 2
  MaxStarts = 1
  MaxVersion = 1
  MaxEntries = 2
  MaxIncidents = 2
  Incidents = {"crash", "raise", "imap", "missing", "uidvalidity"}
  w1 = w1
  h1 = h1
  h2 = h2
  w2 = w2
  c1 = c1
  c2 = c2
INVARIANT AppliedWasApproved NothingUncounted
CHECK_DEADLOCK FALSE
SYMMETRY Symmetry
