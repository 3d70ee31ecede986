CONSTANTS
  Requests = {r1}
  Hints = {h1}
  NoQuote = NoQuote
  Quotes = {NoQuote, 1}
  Operations = {o1, o2}
  Patches <- ScorePatches
  Budget <- MasterAndReset
  FirstSettings <- Ending
  MaxPoints = 0
  MaxFaults = 1
  MaxTime = 1
SPECIFICATION FairSpec
PROPERTIES MarkerComesDown
CHECK_DEADLOCK FALSE
