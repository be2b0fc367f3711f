CONSTANTS
  Parts = {"systolic", "fmatmul", "dotp", "printf", "string"}
  N = 3
  Tiles = {tile1, tile2}
  Names = {row1, row2}
  NoRow = NoRow
  M = 32
  VLMAX1 = 16
  Programs = {"dotproduct", "fdotproduct"}
  vsize = 512
  VLEN = 64
  Junk = Junk
  Calls <- MCCalls
  Bits <- MCBits
  NTOA_BUFFER = 7
  FTOA_BUFFER = 12
  MaxPow = 6
  thres_max = 50
  Den = 200
  MemSize = 24
  Word = 2
  Top = 5
  Bytes = 5
  Memories <- MCMemories
SPECIFICATION MCSpec
INVARIANTS ProductRight ProductComplete PrefetchInside EveryProductOnce IntegersReadBack FloatsRound OutputIsPrefix BlockMoved ZeroMeansEqual
CHECK_DEADLOCK FALSE
