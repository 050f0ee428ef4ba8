\* A tick stands for 5 seconds: requests are read in one, the shutdown waits
\* three, and the scheduler may hold up a handler for one.
SPECIFICATION Spec
CONSTANTS
  Request = {r1, r2, r3}
  BatchSize = 2
  ReadTimeout = 1
  Delay = 1
  Grace = 3
INVARIANTS NoSubmitOnClosed DrainedBeforeClose AnswerTrue
PROPERTY ShutdownEnds
CHECK_DEADLOCK FALSE
