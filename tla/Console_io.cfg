CONSTANTS
  h1 = h1
  h2 = h2
  Hart = {h1, h2}
  None = None
  INPUT_BUF_SIZE = 2
  Wrap = 4
  CHUNK = 1
  Load <- Loads
SPECIFICATION Spec
INVARIANTS InputExact NoSleeperForgotten InterruptSafe TxFits
CHECK_DEADLOCK FALSE
