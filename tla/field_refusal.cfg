\* A lost answer is enough for a refusal to be called synced.
SPECIFICATION Spec
CONSTANTS
  Ops = {o1, o2}
  Tabs = {t1}
  Requests = {r1}
  Rows = {x}
  ChunkSize = 1
  MaxVersion = 2
  Mishaps = {"lost"}
INVARIANTS RefusalSurfaces
CHECK_DEADLOCK FALSE
