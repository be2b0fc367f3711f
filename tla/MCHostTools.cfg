CONSTANTS
  Parts = {"memutil", "preload", "simctrl", "bitbang", "uart"}
  AddrBits = 4
  Setups <- MCSetups
  Scopes <- MCScopes
  Depth <- MCDepth
  Programs0 <- MCPrograms0
  WordBytes = 2
  SramWords = 8
  CommandArgs <- MCCommandArgs
  Options <- MCOptions
  ExtensionSays = {"ok", "exit", "fail"}
  Builds = {TRUE, FALSE}
  ResetDelay = 1
  ResetLength = 1
  MaxTime = 6
  MaxSignals = 2
  Impls = {"dpi", "simjtag"}
  Scripts <- MCScripts
  MaxSessions = 2
  CYCLES_PER_SYMBOL = 2
  Typed <- MCTyped
  LogPaths = {"", "bad", "log"}
  PtySize = 2
SPECIFICATION MCSpec
INVARIANTS AreasDisjoint StagingExact MemoryHoldsElf ProgramLoaded TraceFileClosed ReplyIsCurrent LineEchoes
PROPERTIES StopEnds FirstDebuggerServed
CHECK_DEADLOCK FALSE
