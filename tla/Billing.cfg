SPECIFICATION LiveSpec
CONSTANTS
  None = None
  Hash = Hash
  Half = 4
  I64Max = 3
  I128Max = 250
  Decimals = 2
  Accounts = {"A"}
  Contracts = {"T"}
  Clerks = {k1}
  Commands <- MCCommands
  ClassicAssets = {"native", "usd"}
  Chains <- MCChains
  FirstReference = 1
  MaxReference = 2
  MaxEvents = 2
  k1 = k1
INVARIANTS TypeOK RecordedAsSent MatchedToNamed AmountAsTyped OnlyRegisteredIndexed
PROPERTIES ReferenceFirst EventuallyMatched
