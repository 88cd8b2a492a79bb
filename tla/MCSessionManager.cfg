\* Two clusters of the same name in two namespaces; no symmetry, since CallsReturn
\* is a liveness property.
CONSTANTS
  Namespaces = {n1, n2}
  Names = {a}
  Sessions = {s1, s2}
  Threads = {t1, t2}
  AcceptBacklog = 1
  None = None
  DialError = DialError
SPECIFICATION FairSpec
INVARIANTS TypeOK NoOrphan ListedOnce
PROPERTIES DialsOwnCluster FailsOnlyWhenNoneOpen ImplementsPool CallsReturn
