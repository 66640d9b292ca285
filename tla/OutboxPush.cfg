\* The tick and the read loop race, with backlogs below and above one replay.
SPECIFICATION PushSpec
CONSTANTS
  Flushers = {tick, reply}
  Ticker = tick
  MaxEvents = 4
  Limit = 2
  MaxRestarts = 1
INVARIANTS OnlyOverflowSkipped AtMostTwice
PROPERTIES EventuallyPushed
