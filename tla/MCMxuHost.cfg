CONSTANTS
  NCells = 2
  NFields = 1
  MaxPolls = 2
  MaxRuns = 3
  Posted = 2
SPECIFICATION Spec
INVARIANT OwnProduct
INVARIANT DoneWhenNotBusy
PROPERTY EveryRunPasses
