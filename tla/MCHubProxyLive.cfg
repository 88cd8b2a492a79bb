\* Three hubs, one session: walks of two peers, with one fault on the way.
CONSTANTS
  Hubs = {h1, h2, h3}
  Sessions = {s1}
  Requests = {r1}
  None = None
  MaxFaults = 1
SPECIFICATION FairSpec
CHECK_DEADLOCK FALSE
PROPERTIES EveryRequestEnds
