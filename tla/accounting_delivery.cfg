\* Two drain passes over two documents; crashes and failing statements.
SPECIFICATION Spec
CONSTANTS
  w1 = w1
  w2 = w2
  q1 = q1
  q2 = q2
  d1 = d1
  d2 = d2
  Docs = {d1, d2}
  Workers = {w1, w2}
  Requests = {q1}
  MaxAttempts = 2
  MaxRevision = 1
  Mishaps = {"crash", "db"}
SYMMETRY Interchangeable
INVARIANTS TypeOK OnePassPerJob SendsCounted
PROPERTIES ImplementsDelivery
