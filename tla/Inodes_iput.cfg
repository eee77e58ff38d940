CONSTANTS
  Thread = {t1, t2}
  None = None
  Name = {"a"}
  Path <- OneName
  Disk <- Empty
  Inum = {1, 2}
  Call = {"mkdir", "unlink"}
  MayFail = FALSE
  MaxCalls = 4
  MaxCrashes = 0
SPECIFICATION Spec
INVARIANT OrphansFreed
CHECK_DEADLOCK FALSE
