CONSTANTS
  DEPTH = 2
  ADDRS = 16
  Batches <- MCBatches
  TileBases <- MCTileBases
  BootConfigs <- MCBootConfigs
SPECIFICATION CtrlSpec
INVARIANT CtrlTypeOK
INVARIANT PairsExact
