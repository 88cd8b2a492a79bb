\* Two requests: one that is answered and one in flight.
\* The process ends, so the model stops.
CONSTANTS
  Requests = {r1, r2}
SPECIFICATION FairSpec
INVARIANTS TypeOK CutHasCause
PROPERTIES EndsForRestart PendingEnds
CHECK_DEADLOCK FALSE
