CONSTANTS
  CommandArraySize = 7
  Programs <- EndingPrograms
  Leftover = {0}
  GlobalStepLimit = 9
  LocalStepLimit = 4
  FunctionLevelLimit = 1
  MaxHostCalls = 2
SPECIFICATION FairSpec
INVARIANTS StepLimit LevelLimit
PROPERTIES Terminates ErrorsFindHandlers
\* A program that ended stays ended.
CHECK_DEADLOCK FALSE
