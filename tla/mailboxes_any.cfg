CONSTANTS
  p1 = p1
  p2 = p2
  i1 = i1
  i2 = i2
  Proc = {p1, p2}
  Ids = {i1, i2}
  Msgs = {"a"}
  MAX_NUM_RESOURCES = 2
  MAX_NUM_MESSAGES = 1
  MAX_NUM_DESCRIPTORS = 2
  MQ_MAX_MSG_SIZE = 1
  Modes <- ModesExclusive
  MaxFd = 1
  Liberties = {"undrained", "unclosed", "exhaust", "plain", "destroy_mq", "no_sleeper"}
SPECIFICATION Spec
INVARIANTS TypeOK EachBlockInOnePlace DescriptorsAgree MessagesConserved
PROPERTIES OnlyNewQueueLosesResource FailedCallOnlyAdds
SYMMETRY Symmetric
\* The machine stops for good after a fault.
CHECK_DEADLOCK FALSE
