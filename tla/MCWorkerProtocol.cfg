CONSTANTS
  q1 = q1
  q2 = q2
  Queries <- TwoQueries
  MaxRows = 5
  WorkerChunk = 2
  ChunkSize = 2
  MaxOutstanding = 2
SPECIFICATION MCSpec
INVARIANTS StreamIsExact NoLostWakeup NothingAfterDone FlowControl ShownAsStored
PROPERTIES ImplementsStream CallsEnd
CHECK_DEADLOCK FALSE
