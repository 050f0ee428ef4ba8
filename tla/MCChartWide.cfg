SPECIFICATION ChartSpec
CONSTANTS
  Points = 30
  Counts = {1}
  RectWidth = 480
  RectHeight = 192
  Pointer <- AllPixels
INVARIANTS HitTargets
