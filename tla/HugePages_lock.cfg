CONSTANTS
  Proc = {1, 2}
  H = 2
  NRegions = 2
  Small = {1, 2, 3, 4, 5, 6, 7, 8, 9, 10, 11, 12, 13, 14}
  Held = {{}, {1, 2, 3, 4, 5}, {22}}
  Huge = {21, 22}
  Text = {1, 2}
  Argc = 2
  Val = {1}
SPECIFICATION KhSpec
INVARIANTS TableStable
CHECK_DEADLOCK FALSE
