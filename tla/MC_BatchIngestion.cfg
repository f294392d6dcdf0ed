SPECIFICATION FairSpec
CONSTANTS
  b1 = b1  b2 = b2  w1 = w1  w2 = w2  w3 = w3  x = x  y = y
  Invalid = Invalid
  Nobody = Nobody
  Batches <- MCBatches
  Jobs <- MCJobs
  BatchOf <- MCBatchOf
  Ids <- MCIds
  RowsOf <- MCRowsOf
  MaxTries = 2
  MaxFaults = 2
INVARIANTS
  BatchTellsOneStory
PROPERTIES
  TerminalBatchKept
  EveryRunEnds
  StoredRowsReachAgents
