SPECIFICATION Spec
CONSTANTS
  Source = {s1, s2, s3}
  NoSource = NoSource
  BaseDelay = 1
  MaxDelay = 5
  MaxEvents = 3
  PayloadSizes = {0, 1}
  MaxFactor = 8
  MaxTotal = 5
INVARIANT ErrorMeansReconnecting
