CONSTANTS
  Proc = {1, 2}
  Inum = {1, 2, 3}
  NBLOCKS = 6
  NDIRECT = 2
  BSIZE = 2
  MAXOPBLOCKS = 6
  NFILE = 3
  NOFILE = 3
  Pipe = {1}
  Device = {3}
  None = None
  MaxFaults = 1
  Load <- Loads
SPECIFICATION Spec
INVARIANTS FilesExact ObjectsExact BlocksExact BytesRight LogBudget
CHECK_DEADLOCK FALSE
