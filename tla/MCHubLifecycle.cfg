\* Both servers, up to two requests on each; liveness included.
CONSTANTS
  Servers = {api, peer}
  MaxInFlight = 2
SPECIFICATION FairSpec
INVARIANTS TypeOK ExitIsDrained
PROPERTIES SignalEnds
