\* Two clusters, two requests, three sessions of either cluster.
CONSTANTS
  Keys = {k1, k2}
  Sessions = {s1, s2, s3}
  Requests = {r1, r2}
  Connects = {c1}
  None = None
  DialError = DialError
SPECIFICATION Spec
SYMMETRY Symmetry
INVARIANTS TypeOK ReachesOwnCluster CarriedOnlyWithCluster
