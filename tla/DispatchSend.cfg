SPECIFICATION LiveSpec
CONSTANTS
  Subs = {s1}
  MaxEvents = 1
  Wants <- MCWantsAll
  Writers = {w1}
  InOrder = TRUE
  Dispatchers = {d1, d2}
  OnceDispatchers = {d2}
  Batch = 1
  MaxAttempts = 2
  Lease = 2
  Timeout = 1
  Backoff <- MCBackoff
  Prompt = TRUE
  MaxFailures = 1
  None = None
  s1 = s1
  d1 = d1
  d2 = d2
  w1 = w1
  w2 = w2
INVARIANTS OneTaskPerDelivery AttemptsBounded
PROPERTIES ImplementsOutbox EveryDeliverySettles EveryWantedIsQueued
