CONSTANTS
  DEPTH = 16
  ADDRS = 256
  Batches <- MCBatches
  TileBases <- MCTileBases
  BootConfigs <- MCLongConfigs
SPECIFICATION Spec
INVARIANT EveryValidRowWritten
