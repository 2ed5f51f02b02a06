CONSTANTS
  MAX_NUM_PROCESSES = 4
  MaxPid = 4
  SleepTimes = {1}
  Liberties = {}
  MAX_NUM_RESOURCES = 4
  MAX_NUM_MESSAGES = 8
  MQ_MAX_MSG_SIZE = 2
  Ids = {0, 1, 2, 3}
  Msgs = {"msg0,0", "msg0,1", "msg0,2", "msg0,3", "msg0,4",
          "msg1,0", "msg1,1", "msg1,2", "msg1,3", "msg1,4",
          "msg2,0", "msg2,1", "msg2,2", "msg2,3", "msg2,4",
          "msg3,0", "msg3,1", "msg3,2", "msg3,3", "msg3,4"}
  Modes = {}
  MaxFd = 4
  MailLiberties = {"undrained", "unclosed", "exhaust"}
  SLEEP = 2
  M_blocking = 5
  N = 4
  P = 2
  M = 2
  buf <- Texts
  naps = 1
SPECIFICATION TestSpec
INVARIANTS SuccessfulSendReturnsZero
\* The machine stops for good at shutdown.
CHECK_DEADLOCK FALSE
