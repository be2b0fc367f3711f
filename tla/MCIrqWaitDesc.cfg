CONSTANTS
  Loops = {"desc64"}
  MaxXfers = 1
SPECIFICATION Spec
PROPERTY EveryWaitEnds
CHECK_DEADLOCK FALSE
