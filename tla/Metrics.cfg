SPECIFICATION Spec
CONSTANTS
  VelocityWindow = 3
  Bucket = 2
  ChartWindow = 6
  MaxTime = 9
  MaxTotal = 4
INVARIANTS VelocityExact BucketsExact
CHECK_DEADLOCK FALSE
