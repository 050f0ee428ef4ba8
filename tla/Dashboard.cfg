SPECIFICATION DashboardSpec
CONSTANTS
  Source = {s1, s2, s3}
  NoSource = NoSource
  BaseDelay = 1
  MaxDelay = 5
  MaxEvents = 2
  PayloadSizes = {0, 1}
  MaxFactor = 8
  MaxTotal = 4
INVARIANTS OneConnection SourceOrTimer StatusTrue BufferIsNewest ErrorTextTrue
PROPERTIES Backoff HighlightedOnce HighlightEnds
