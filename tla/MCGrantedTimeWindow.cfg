SPECIFICATION FairSpec
CONSTANTS
  r1 = r1
  r2 = r2
  Ranks = {r1, r2}
  Links <- Parallel
  Bounds <- SomeBounds
  Infinity = 7
  Delays = {0, 1}
  TxTimes = {0}
  MaxTime = 4
  MaxEvents = 3
  MaxRuns = 1
INVARIANTS TypeOK NeverLate GrantIsSafe EndTogether
PROPERTY ImplementsContract RunReturns
