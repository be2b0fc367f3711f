CONSTANTS
  Loops = {"gbuf", "desc64", "macro"}
  MaxXfers = 3
SPECIFICATION Spec
INVARIANT FlagMeansLanded
PROPERTY MacroWaitsEnd
\* main returns, and a hart may sleep for ever (see MCIrqWaitDesc.cfg)
CHECK_DEADLOCK FALSE
