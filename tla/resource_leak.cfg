CONSTANTS
  p1 = p1
  p2 = p2
  i1 = i1
  i2 = i2
  Proc = {p1, p2}
  Ids = {i1}
  Msgs = {"a"}
  MAX_NUM_RESOURCES = 2
  MAX_NUM_MESSAGES = 2
  MAX_NUM_DESCRIPTORS = 2
  MQ_MAX_MSG_SIZE = 2
  Modes <- ModesPlain
  MaxFd = 3
  Liberties = {"exhaust"}
SPECIFICATION Spec
PROPERTIES CreateReportsFailure
\* The machine stops for good after a fault.
CHECK_DEADLOCK FALSE
