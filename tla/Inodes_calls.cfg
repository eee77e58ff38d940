CONSTANTS
  Thread = {t1, t2}
  None = None
  Name = {"a", "b"}
  Path <- TwoLevels
  Disk <- Trees
  Inum = {1, 2, 3}
  Call = {"open", "create", "mkdir", "mknod", "link", "unlink", "close", "chdir"}
  MayFail = TRUE
  MaxCalls = 3
  MaxCrashes = 1
SPECIFICATION Spec
INVARIANTS LinksCovered  ReferencesExact NoLockCycle
PROPERTY BootLeavesNoOrphan
SYMMETRY Symm
CHECK_DEADLOCK FALSE
