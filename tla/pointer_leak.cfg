CONSTANTS
  MAX_NUM_PROCESSES = 3
  MaxPid = 5
  SleepTimes = {1}
  Liberties = {}
SPECIFICATION Spec
INVARIANTS SpawnFindsPointer
\* The machine stops for good at shutdown and after a fault.
CHECK_DEADLOCK FALSE
