\* Three hubs, so that a walk has two peers; one request, two sessions.
CONSTANTS
  Hubs = {h1, h2, h3}
  Sessions = {s1, s2}
  Requests = {r1}
  None = None
  MaxFaults = 2
SPECIFICATION Spec
SYMMETRY Symmetry
CHECK_DEADLOCK FALSE
INVARIANTS TypeOK BodiedAtMostOnce RepeatedOnlyAfterFailure AnswerTruthful EachHubTriedOnce NoNeedless502
