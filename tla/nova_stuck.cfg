\* A crash leaves rows delivering; nothing reclaims them.
SPECIFICATION NovaFairSpec
CONSTANTS
  api = api
  worker = worker
  t1 = t1
  t2 = t2
  acme = acme
  bell = bell
  Nobody = Nobody
  JobTypes = {acme}
  Handlers = {acme}
  Procs = {api}
  Ticks = {t1}
  ProcOf <- OneTick
  Defs = {}
  DefSpecs <- NoSpecs
  AttemptLimits = {}
  Env = {"crash"}
  MaxJobs = 3
  MaxAdHoc = 0
  MaxClock = 0
  TenantOf <- AllAcme
  MaxRows = 2
  MaxAttempts = 2
  DrainAttempts = 2
  Trouble = {}
PROPERTIES DeliveringIsReclaimed
