SPECIFICATION FairSpec
CONSTANTS
  Writer = {w1, w2}
  Reader = {r1}
  None = None
  PIPESIZE = 2
  Wrap = 4
  MaxReq = 3
  MaxSent = 4
  MaxFaults = 1
INVARIANTS SleepersWaitRightly InOrder
PROPERTIES CallsReturn
CHECK_DEADLOCK FALSE
