SPECIFICATION Spec
CONSTANTS
  Subs = {s1}
  MaxEvents = 2
  Wants <- MCWantsAll
  Writers = {w1, w2}
  InOrder = FALSE
  Dispatchers = {d1}
  OnceDispatchers = {}
  Batch = 1
  MaxAttempts = 2
  Lease = 2
  Timeout = 1
  Backoff <- MCBackoff
  Prompt = TRUE
  MaxFailures = 0
  None = None
  s1 = s1
  d1 = d1
  d2 = d2
  w1 = w1
  w2 = w2
INVARIANTS NothingSkipped
