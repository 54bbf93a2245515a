\* A rejected document is corrected and emitted again.
SPECIFICATION Spec
CONSTANTS
  w1 = w1
  w2 = w2
  q1 = q1
  q2 = q2
  d1 = d1
  d2 = d2
  Docs = {d1}
  Workers = {w1}
  Requests = {q1}
  MaxAttempts = 2
  MaxRevision = 1
  Mishaps = {}
PROPERTIES CorrectedIsEmitted
