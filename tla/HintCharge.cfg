CONSTANTS
  Requests = {r1, r2}
  Hints = {h1, h2}
  NoQuote = NoQuote
  Quotes = {NoQuote}
  Operations = {o1, o2}
  Patches <- ScorePatches
  Budget <- WriteAndDelete
  FirstSettings <- Selling
  MaxPoints = 1
  MaxFaults = 0
  MaxTime = 0
SPECIFICATION Spec
SYMMETRY MCSymmetry
INVARIANTS HintInv
PROPERTIES ChargesAffordable
CHECK_DEADLOCK FALSE
