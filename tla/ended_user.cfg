CONSTANTS
  MAX_NUM_PROCESSES = 3
  MaxPid = 5
  SleepTimes = {}
  Liberties = {}
  MAX_NUM_RESOURCES = 1
  MAX_NUM_MESSAGES = 1
  MQ_MAX_MSG_SIZE = 1
  Ids = {0}
  Msgs = {"m"}
  Modes <- ModesPlain
  MaxFd = 1
  MailLiberties = {"unclosed"}
  SLEEP = 1
SPECIFICATION SysSpec
INVARIANTS EndedProcessesUseNothing
