CONSTANTS
  WordSize = 2
  PageSize = 4
  NPages = 3
  HdrSize = 2
  SizeMod = 32
  Requests <- MCRequests
  Threads = {t1, t2}
  t1 = t1
  t2 = t2
SYMMETRY Symmetry
SPECIFICATION Spec
INVARIANTS ListSound NoAdjacentFree ClaimExclusive AllocSound PagesSound
PROPERTIES LeaseKept
