SPECIFICATION Spec
CONSTANTS
  c1 = c1
  c2 = c2
  CPU = {c1, c2}
  NPROC = 4
  None = None
  KThreads = {2}
  KillPids = {3, 4}
  MaxPid = 6
SYMMETRY Symmetry
INVARIANTS StackExclusive NoMissedExit ParentAlive
