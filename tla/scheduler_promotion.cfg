\* Overlapping ticks of two processes promote a definition and run its jobs.
SPECIFICATION FairSpec
CONSTANTS
  api = api
  worker = worker
  t1 = t1
  t2 = t2
  d1 = d1
  d2 = d2
  known = known
  unknown = unknown
  Nobody = Nobody
  JobTypes = {known, unknown}
  Handlers = {known}
  Procs = {api, worker}
  Ticks = {t1, t2}
  ProcOf <- TwoTicks
  Defs = {d1}
  DefSpecs <- BothSpecs
  AttemptLimits = {1}
  Env = {}
  MaxJobs = 7
  MaxAdHoc = 1
  MaxClock = 3
INVARIANTS FiringsBounded CadenceKept
PROPERTIES OwedIsPromoted EveryJobSettles
