SPECIFICATION Spec
CONSTANTS
  NPAGES = 7
  First = 1
  MAX_ORDER = 2
  HUGE_ORDER = 1
  ObjSizes = {1, 2}
  PGSIZE = 4
  MaxObjs = 2
  Sizes = {1, 2, 3}
INVARIANTS ObjectsExact PagesExact
PROPERTIES RefinesPageAlloc
