CONSTANTS
  CommandArraySize = 7
  Programs <- ResumeTwice
  Leftover = {0}
  GlobalStepLimit = 10
  LocalStepLimit = 0
  FunctionLevelLimit = 2
  MaxHostCalls = 0
SPECIFICATION Spec
PROPERTIES ResumeInHandler
\* A program that ended stays ended.
CHECK_DEADLOCK FALSE
