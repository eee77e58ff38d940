SPECIFICATION FairSpec
CONSTANTS
  Proc = {1, 2}
  First = 1
  h1 = h1
  h2 = h2
  Hart = {h1, h2}
  Hart0 = h1
  Sig = {2, 3}
  SIGKILL = 9
  Load <- MCLoad
INVARIANTS MainUndisturbed FrameExact
 
\* A process may exit for good.
CHECK_DEADLOCK FALSE
