\* Three hubs and paths up to the length of the prefix and one more.
CONSTANTS
  IPs = {i1, i2, i3}
  Segments = {"", "proxy", "ns", "name"}
  MaxPath = 4
SPECIFICATION Spec
INVARIANTS WalkReachesAllPeers PathPreserved
