SPECIFICATION Spec
CONSTANTS
  call1 = call1
  h1 = h1
  h2 = h2
  Calls = {call1}
  Children = {h1, h2}
  CallOf <- OneBatch
  Mode <- Batches
  Scoped = {}
  Limit = 2
INVARIANTS DrainReports
CHECK_DEADLOCK FALSE
