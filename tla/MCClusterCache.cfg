\* Two Clusters of one name, every scope of the informer; a client and other programs.
CONSTANTS
  Namespaces = {a, b}
  Names = {x}
  Clients = {c1}
  All = All
  None = None
  MaxWrites = 3
SPECIFICATION FairSpec
INVARIANTS CacheIsSnapshot NoLostUpdate
PROPERTIES CacheCatchesUp
