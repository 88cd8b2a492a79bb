\* Two Clusters of one name, every scope of the informer, any objects at first.
CONSTANTS
  Namespaces = {a, b}
  Names = {x}
  All = All
  MaxWrites = 5
SPECIFICATION Spec
INVARIANTS MissesOnlyTheGap
