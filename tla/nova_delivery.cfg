\* Two processes promote and run the drains of one tenant; crashes, database errors, Nova down.
SPECIFICATION NovaSpec
CONSTANTS
  api = api
  worker = worker
  t1 = t1
  t2 = t2
  acme = acme
  bell = bell
  Nobody = Nobody
  JobTypes = {acme}
  Handlers = {acme}
  Procs = {api, worker}
  Ticks = {t1, t2}
  ProcOf <- TwoTicks
  Defs = {}
  DefSpecs <- NoSpecs
  AttemptLimits = {2}
  Env = {"crash", "db"}
  MaxJobs = 4
  MaxAdHoc = 0
  MaxClock = 0
  TenantOf <- AllAcme
  MaxRows = 1
  MaxAttempts = 2
  DrainAttempts = 2
  Trouble = {"down", "off"}
SYMMETRY Interchangeable
INVARIANTS NovaTypeOK OneDrainPerRow DeadSpentLadder DrainsBounded
PROPERTIES ImplementsDelivery
