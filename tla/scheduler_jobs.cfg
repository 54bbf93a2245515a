\* Overlapping ticks of two processes: crashes, database errors, retries, edits.
SPECIFICATION Spec
CONSTANTS
  api = api
  worker = worker
  t1 = t1
  t2 = t2
  d1 = d1
  d2 = d2
  known = known
  unknown = unknown
  Nobody = Nobody
  JobTypes = {known, unknown}
  Handlers = {known}
  Procs = {api, worker}
  Ticks = {t1, t2}
  ProcOf <- TwoTicks
  Defs = {d1}
  DefSpecs <- OnlyOneShot
  AttemptLimits = {0, 2}
  Env = {"crash", "db", "retry", "edit"}
  MaxJobs = 2
  MaxAdHoc = 1
  MaxClock = 1
SYMMETRY Interchangeable
INVARIANTS TypeOK HeldIsRunning SingleOwner QueuedIsClaimable NoLostFiring
PROPERTIES OnlyOwnerSettles ImplementsWorkQueue
