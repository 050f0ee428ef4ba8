SPECIFICATION Spec
CONSTANTS
  Worker = {w1, w2}
  NoOne = NoOne
  BatchLen = 2
  MaxCalls = 2
  MaxCrashes = 1
INVARIANTS AllOrNothing 
PROPERTIES ImplementsStore CallReturns
CHECK_DEADLOCK FALSE
