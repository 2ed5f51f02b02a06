CONSTANTS
  MAX_NUM_PROCESSES = 4
  MaxPid = 4
  SleepTimes = {1}
  Liberties = {"stranger"}
SPECIFICATION Spec
INVARIANTS NoWaitForStranger
\* The machine stops for good at shutdown and after a fault.
CHECK_DEADLOCK FALSE
