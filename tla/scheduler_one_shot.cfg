\* Two overlapping ticks promote a one-shot twice.
SPECIFICATION Spec
CONSTANTS
  api = api
  worker = worker
  t1 = t1
  t2 = t2
  d1 = d1
  d2 = d2
  known = known
  unknown = unknown
  Nobody = Nobody
  JobTypes = {known, unknown}
  Handlers = {known}
  Procs = {api, worker}
  Ticks = {t1, t2}
  ProcOf <- TwoTicks
  Defs = {d1}
  DefSpecs <- OnlyOneShot
  AttemptLimits = {1}
  Env = {}
  MaxJobs = 2
  MaxAdHoc = 0
  MaxClock = 1
PROPERTIES OneShotFiresOnce
