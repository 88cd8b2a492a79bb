\* The one type that the program has, two goroutines, two stop channels.
CONSTANTS
  Types = {t1}
  Threads = {g1, g2}
  Chans = {c1, c2}
  None = None
SPECIFICATION FairSpec
INVARIANTS Shared RunOnce WaitTellsTruth
PROPERTIES CallsReturn WaitEnds
