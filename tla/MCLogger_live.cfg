CONSTANTS
  Thread = {t1, t2}
  Item = {i1, i2, i3}
  NULL = NULL
  Types = {"normal", "synchronous", "none"}
  TimeSpan = 0
  MaxTime = 0
  MaxShutdowns = 2
  MayFail = FALSE
SPECIFICATION FairSpec
PROPERTIES EveryItemLeaves ShutdownEnds
\* The calls are bounded, and the logging thread may wait for ever.
CHECK_DEADLOCK FALSE
