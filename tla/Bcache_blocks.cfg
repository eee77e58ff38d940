CONSTANTS
  t1 = t1  t2 = t2  t3 = t3
  b1 = b1  b2 = b2  b3 = b3
  k1 = k1  k2 = k2  k3 = k3
  Thread = {t1, t2, t3}
  Buf = {b1, b2, b3}
  Block = {k1, k2, k3}
  Load <- Loads
  None = None
  NUM = 8
  Wrap = 8
SPECIFICATION Spec
SYMMETRY Symm
INVARIANTS DescriptorsExact DeviceHasOwner NoRequestForgotten OneBufferPerBlock SeesLastWrite
