\* Two threads work in a log with room for two operations, which use all they
\* reserve, and the machine crashes twice, the second time also in recovery.
SPECIFICATION FairSpec
CONSTANTS
  Proc = {p1, p2}
  Block = {a, b}
  Val = {0, 1}
  InitVal = 0
  None = None
  MAXOPBLOCKS = 1
  LOGBLOCKS = 2
  OpBlocks = 1
  MaxCalls = 1
  MaxCrashes = 2
INVARIANTS NoPanic SleeperHasWaker QuiescentDurable
PROPERTIES RefinesAtomicDisk SleeperWakes
