SPECIFICATION ChartSpec
CONSTANTS
  Points = 3
  Counts = {0, 1, 2, 3, 5, 7, 12, 100, 234}
  RectWidth = 300
  RectHeight = 192
  Pointer = {0, 29, 30, 116, 117, 203, 204, 289, 290, 300}
INVARIANTS ScaleFits LabelsNear TooltipAtPointer
