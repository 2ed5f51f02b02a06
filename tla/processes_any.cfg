CONSTANTS
  MAX_NUM_PROCESSES = 3
  MaxPid = 4
  SleepTimes = {0, 2}
  Liberties = {"no_sleeper", "orphan", "stranger", "init_exits", "exhaust", "fork"}
SPECIFICATION Spec
INVARIANTS TypeOK EachProcessInOnePlace StatusMatchesPlace TimersMatchSleepers OneGuardianEach
PROPERTIES OnlyAwaitedExitLosesPointer
\* The machine stops for good at shutdown and after a fault.
CHECK_DEADLOCK FALSE
