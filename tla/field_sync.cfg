\* Two tabs flush two operations in one batch; transactions fail, the server dies
\* and tabs are closed while it works.
SPECIFICATION Spec
CONSTANTS
  Ops = {o1, o2}
  Tabs = {t1, t2}
  Requests = {r1, r2}
  Rows = {x}
  ChunkSize = 2
  MaxVersion = 2
  Mishaps = {"db", "crash", "close"}
SYMMETRY Interchangeable
INVARIANTS TypeOK AppliedOnce OneWinsPerVersion SettledIsRecorded
CHECK_DEADLOCK FALSE
