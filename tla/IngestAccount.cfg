SPECIFICATION LiveSpec
CONSTANTS
  NumEvents = 4
  Ledger <- MCLedger
  Paying = {3}
  StartLedger = 2
  PageLimit = 2
  PageCursors = {TRUE, FALSE}
  Runners = {r1, r2}
  OnceRunners = {r2}
  InitTip = 3
  MaxLedger = 4
  MaxRestarts = 1
  None = None
  r1 = r1
  r2 = r2
INVARIANTS TypeOK NothingLost CaughtUp PaidOnce
PROPERTIES ImplementsFeed EveryEventHandled
