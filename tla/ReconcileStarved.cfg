SPECIFICATION LiveSpec
CONSTANTS
  MaxPayments = 2
  Invoices = {i1}
  Account <- MCOneAccount
  Asset <- MCOneAsset
  Amount <- MCAmount
  Keyless = {}
  ByReference <- MCLastFirst
  ByNumber <- MCNone
  InOrder = TRUE
  Engines = {e1}
  OnceEngines = {}
  Batch = 1
  ByHand = {}
  MaxFailures = 0
  None = None
  i1 = i1
  e1 = e1
  e2 = e2
PROPERTIES EveryPayableMatches
