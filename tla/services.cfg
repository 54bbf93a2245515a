\* Seven services, each moving on its own: two tasks, requests, ticks, uploads,
\* approvals, three scheduled.  Some come to rest: every edit uploaded, every document closed.
SPECIFICATION ServicesSpec
CONSTANTS
  w1 = w1
  k1 = k1
  k2 = k2
  v1 = v1
  v2 = v2
  p1 = p1
  d1 = d1
  g1 = g1
  g2 = g2
  m1 = m1
  s1 = s1
  c1 = c1
  a1 = a1
  a2 = a2
  r1 = r1
  r2 = r2
  key1 = key1
  key2 = key2
  t1 = t1
  t2 = t2
  u1 = u1
  u2 = u2
  n1 = n1
  n2 = n2
  n3 = n3
  NoBody = NoBody
  ByHand = ByHand
  MaxAnswers = 2
  MaxByPeople = 1
  Seed = Seed
  Unknown = Unknown
  Tasks = {k1, k2}
  Workers = {w1}
  MaxRetries = 1
  MaxConcurrent = 1
  MaxPolls = 2
  MaxCrashes = 1
  Mishaps = {"crash", "db", "slow", "cancel"}
  Requests = {r1, r2}
  Keys = {key1, key2}
  Bodies <- MCBodies
  Packages = {p1}
  Values = {v1, v2}
  DiffJobs = {d1}
  MaxChanges = 2
  MaxFailures = 1
  PackJobs = {g1, g2}
  Ticks = {t1, t2}
  Cost = 1
  MaxAttempts = 2
  MaxDelta = 1
  MaxGrants = 2
  Edits = {m1}
  Uploads = {u1, u2}
  Sheets = {s1}
  Entries = {c1}
  Amounts = {0, 1, 2}
  Approvers = {a1, a2}
  Activities = {n1, n2, n3}
  Durations = {0, 2}
  Lags <- MCLags
INVARIANTS ServicesTypeOK ExecutionsBounded ConcurrencyBounded OneAtWork AnswersAgree NoRepeats OverdraftBounded PackedOnce EditedOnce PostedOnce CriticalPathIsTrue
PROPERTIES AtRestStays EveryTaskSettles EveryChangeTold
CHECK_DEADLOCK FALSE
