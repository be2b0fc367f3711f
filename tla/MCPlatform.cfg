CONSTANTS
  Parts = {"bsp", "syscalls", "axu", "vmma", "asicdma", "dmareg", "inval"}
  Progs = {"hello_world", "failing_test", "clint_test", "default_slave", "trap_test"}
  TimerBits = 12
  FrameBits = 10
  FlushBits = 12
  HeapEnd = 8
  StackTops = {6, 12}
  Requests = {0, 2, 3, 9}
  Releases = {1, 3}
  MaxCalls = 5
  Suites <- MCSuites
  MaxTimeouts = 2
  LutEntries <- MCLutEntries
  TokensPerRow = 2
  NliLatency = 2
  FlushCycles = 7
  VmJobs <- MCJobs
  VmBudget = 40
  MAXMN = 5
  Lanes = 4
  AdWords = 2
  AdJobs = 3
  IdBits = 4
  Outstanding = 3
  Transfers = 20
  Bursts <- MCBursts
  MaxTxns = 2
  L1LineWidth = 4
  MaxWrites = 4
SPECIFICATION MCSpec
INVARIANTS ResumeExact OutputComplete OutputWhole InterruptsOnce HeapBlocksApart HealthyUnitPasses SpareMeansTrue OwnWord WaitMeansLanded NoStaleLine
PROPERTIES ProgramEnds SuiteEnds WaitsReturn
CHECK_DEADLOCK FALSE
