SPECIFICATION Spec
CONSTANTS
  FirstPosition = "origin"
  FirstOrientation <- Orientation
  FirstModel = "first"
  FirstColor = "white"
  TrailLength = 3
  Nodes = {1, 2}
  Scenarios <- Shown
  TimeSteps <- Steps
  MaxTime = 2
INVARIANTS TapeIsWhole PositionIsReplayed TrailShowsPath LagIsOneFrame
