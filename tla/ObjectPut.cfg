CONSTANTS
  Writers = {w1, w2, w3, w4}
  Unlocked = {w3, w4}
  Nobody = nobody
  NParts = 2
  MaxFiles = 3
  MaxCrashes = 2
SPECIFICATION PutSpec
INVARIANTS FailureIsRace GetIsWhole
CHECK_DEADLOCK FALSE
