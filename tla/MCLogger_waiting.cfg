CONSTANTS
  Thread = {t1}
  Item = {i1, i2}
  NULL = NULL
  Types = {"normal"}
  TimeSpan = 0
  MaxTime = 0
  MaxShutdowns = 1
  MayFail = FALSE
SPECIFICATION Spec
INVARIANTS AllWaitingWritten
\* The calls are bounded, and the logging thread may wait for ever.
CHECK_DEADLOCK FALSE
