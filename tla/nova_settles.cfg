\* One process drains two tenants: Nova down, slow drains, retries by hand, no crash.
SPECIFICATION NovaFairSpec
CONSTANTS
  api = api
  worker = worker
  t1 = t1
  t2 = t2
  acme = acme
  bell = bell
  Nobody = Nobody
  JobTypes = {acme, bell}
  Handlers = {acme, bell}
  Procs = {api}
  Ticks = {t1}
  ProcOf <- OneTick
  Defs = {}
  DefSpecs <- NoSpecs
  AttemptLimits = {1}
  Env = {}
  MaxJobs = 8
  MaxAdHoc = 0
  MaxClock = 0
  TenantOf <- AcmeBell
  MaxRows = 2
  MaxAttempts = 2
  DrainAttempts = 1
  Trouble = {"down", "slow", "requeue"}
INVARIANTS DeliveredWasAccepted
PROPERTIES EveryEventSettles
