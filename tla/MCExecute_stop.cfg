CONSTANTS
  CommandArraySize = 7
  Programs <- StopTwice
  Leftover = {0}
  GlobalStepLimit = 10
  LocalStepLimit = 0
  FunctionLevelLimit = 2
  MaxHostCalls = 0
SPECIFICATION Spec
PROPERTIES StopIsFinal
\* A program that ended stays ended.
CHECK_DEADLOCK FALSE
