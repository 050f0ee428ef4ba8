SPECIFICATION Spec
CONSTANTS
  Publisher = {p1, p2}
  Client = {c1}
  Capacity = 2
  NoOne = NoOne
  MaxPublish = 2
  BatchLen = 2
INVARIANTS PublisherOrder NoLeak WireComplete
PROPERTIES BrokenConnectionLeaves DrainedConnectionServed
CHECK_DEADLOCK FALSE
