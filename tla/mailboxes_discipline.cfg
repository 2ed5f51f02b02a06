CONSTANTS
  p1 = p1
  p2 = p2
  i1 = i1
  i2 = i2
  Proc = {p1, p2}
  Ids = {i1}
  Msgs = {"a", "b"}
  MAX_NUM_RESOURCES = 2
  MAX_NUM_MESSAGES = 2
  MAX_NUM_DESCRIPTORS = 2
  MQ_MAX_MSG_SIZE = 2
  Modes <- ModesExclusive
  MaxFd = 2
  Liberties = {}
SPECIFICATION Spec
INVARIANTS CounterIsLength NeverFaults
PROPERTIES FailedCallChangesNothing QueuesKeepPromise
\* The machine stops for good after a fault.
CHECK_DEADLOCK FALSE
