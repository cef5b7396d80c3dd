SPECIFICATION Spec
CONSTANTS
  NumEvents = 3
  Ledger <- MCLateLedger
  Paying = {}
  StartLedger = None
  PageLimit = 2
  PageCursors = {TRUE, FALSE}
  Runners = {r1}
  OnceRunners = {}
  InitTip = 1
  MaxLedger = 3
  MaxRestarts = 2
  None = None
  r1 = r1
PROPERTIES CursorNeverBack NoReplayBehindCursor ReadingKept
