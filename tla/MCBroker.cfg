SPECIFICATION Spec
CONSTANTS
  Publisher = {p1, p2}
  Client = {c1, c2}
  Capacity = 1
  NoOne = NoOne
  MaxPublish = 1
INVARIANT NoPanic
PROPERTIES FanOut CallsReturn
