CONSTANTS
  Thread = {t1, t2}
  Item = {i1, i2, i3}
  NULL = NULL
  Types = {"normal", "synchronous", "none"}
  TimeSpan = 1
  MaxTime = 1
  MaxShutdowns = 1
  MayFail = TRUE
SPECIFICATION Spec
INVARIANTS TypeOK NoDanglingItem NoLostSignal OwnFile NoLeak
PROPERTIES QueueSpec
SYMMETRY Symmetric
\* The calls are bounded, and the logging thread may wait for ever.
CHECK_DEADLOCK FALSE
