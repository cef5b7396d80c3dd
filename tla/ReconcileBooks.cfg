SPECIFICATION Spec
CONSTANTS
  MaxPayments = 2
  Invoices = {i1}
  Account <- MCOneAccount
  Asset <- MCOneAsset
  Amount <- MCAmount
  Keyless = {}
  ByReference <- MCLastFirst
  ByNumber <- MCAllFirst
  InOrder = FALSE
  Engines = {e1, e2}
  OnceEngines = {}
  Batch = 1
  ByHand = {"match", "ignore", "cancel"}
  MaxFailures = 1
  None = None
  i1 = i1
  e1 = e1
  e2 = e2
INVARIANTS TypeOK ReceivedIsAllocated MatchedIsAllocated OnePassPerPayment WaitsOverInvoices
PROPERTIES ImplementsSettlement
