CONSTANTS
  MAX_NUM_PROCESSES = 4
  MaxPid = 4
  SleepTimes = {1}
  Liberties = {}
SPECIFICATION FairSpec
INVARIANTS ParentPointersLive NeverFaults NoLostWakeup WaitReturnsAskedChild
PROPERTIES ReapedIsReported ReadyRuns SleeperWakes
\* The machine stops for good at shutdown and after a fault.
CHECK_DEADLOCK FALSE
