SPECIFICATION Spec
CONSTANTS
  Subs = {s1}
  MaxEvents = 2
  Wants <- MCWantsAll
  Writers = {w1, w2}
  InOrder = TRUE
  Dispatchers = {d1, d2}
  OnceDispatchers = {d2}
  Batch = 1
  MaxAttempts = 1
  Lease = 1
  Timeout = 0
  Backoff <- MCBackoff
  Prompt = TRUE
  MaxFailures = 1
  None = None
  s1 = s1
  d1 = d1
  d2 = d2
  w1 = w1
  w2 = w2
INVARIANTS TypeOK NothingSkipped OnceSends
SYMMETRY MCSymmetry
