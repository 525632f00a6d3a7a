SPECIFICATION Spec
CONSTANTS
  XYSeries = {"line"}
  CategoryOrder <- Categories
  Members <- Collection
  HighestValue <- Both
  AutoUpdate = {"state"}
  AutoUpdateInterval = 2
  AutoUpdateIncrement = 3
  Streams = {"tx", "rx"}
  NoStream = "none"
  NewLine = "end"
  WideCharacters = {}
  Scenarios <- Loads
  TimeSteps <- ForwardAndBack
  Units = {1, 2}
  MaxTape = 9
  MaxTime = 6
INVARIANTS ChartsAreReplayed AxesSpanThePoints LogIsReplayed WidgetsAgree
