CONSTANTS
  CommandArraySize = 7
  Programs <- JumpPrograms
  Leftover = {0, 5}
  GlobalStepLimit = 12
  LocalStepLimit = 0
  FunctionLevelLimit = 2
  MaxHostCalls = 0
SPECIFICATION Spec
INVARIANTS TypeOK LocalsOfRunningFunction LabelsAreLocal GosubsSorted CallersGosubsKept
PROPERTIES StopIsFinal
\* A program that ended stays ended.
CHECK_DEADLOCK FALSE
