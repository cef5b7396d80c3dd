SPECIFICATION Spec
CONSTANTS
  MaxPayments = 2
  Invoices = {i1}
  Account <- MCOneAccount
  Asset <- MCOneAsset
  Amount <- MCAmount
  Keyless = {}
  ByReference <- MCAllFirst
  ByNumber <- MCNone
  InOrder = TRUE
  Engines = {e1}
  OnceEngines = {}
  Batch = 1
  ByHand = {"match", "ignore"}
  MaxFailures = 0
  None = None
  i1 = i1
  e1 = e1
  e2 = e2
PROPERTIES HandDecisionsStand
