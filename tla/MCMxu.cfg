CONSTANTS
  DEPTH = 16
  ADDRS = 256
  Batches <- MCBatches
  TileBases <- MCTileBases
  BootConfigs <- MCBootConfigs
SPECIFICATION Spec
INVARIANT WeightsInPlace
PROPERTY ImplementsJob
