CONSTANTS
  Thread = {t1, t2}
  Item = {i1, i2}
  NULL = NULL
  Types = {"synchronous"}
  TimeSpan = 0
  MaxTime = 0
  MaxShutdowns = 1
  MayFail = FALSE
SPECIFICATION Spec
PROPERTIES SafeLogging
\* The calls are bounded, and the logging thread may wait for ever.
CHECK_DEADLOCK FALSE
