SPECIFICATION Spec
CONSTANTS
  Event = {e1, e2, e3, e4}
  Worker = {w1}
  Client = {c1, c2}
  Array = {a1, a2, a3, a4, a5}
  BufferSize = 1
  BatchSize = 2
  ChannelSize = 1
  MaxCrashes = 1
SYMMETRY Symmetry
INVARIANTS StreamedTrue BoundedLoss
CHECK_DEADLOCK FALSE
