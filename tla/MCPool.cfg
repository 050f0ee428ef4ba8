SPECIFICATION Spec
CONSTANTS
  Event = {e1, e2}
  Worker = {w1, w2}
  BufferSize = 1
  BatchSize = 2
INVARIANTS Conservation WorkerOrder PublishedCommitted DrainedOnReturn
PROPERTIES ImplementsPipeline EventuallySettled ShutdownReturns
CHECK_DEADLOCK FALSE
