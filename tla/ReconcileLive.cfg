SPECIFICATION LiveSpec
CONSTANTS
  MaxPayments = 2
  Invoices = {i1}
  Account <- MCOneAccount
  Asset <- MCOneAsset
  Amount <- MCAmount
  Keyless = {}
  ByReference <- MCAllFirst
  ByNumber <- MCNone
  InOrder = TRUE
  Engines = {e1, e2}
  OnceEngines = {e2}
  Batch = 1
  ByHand = {}
  MaxFailures = 1
  None = None
  i1 = i1
  e1 = e1
  e2 = e2
INVARIANTS NoneSkipped OnceDecides NoneStranded
PROPERTIES EveryPayableMatches
