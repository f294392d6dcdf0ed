SPECIFICATION FairSpec
CONSTANTS
  b1 = b1  b2 = b2  w1 = w1  w2 = w2  w3 = w3  x = x  y = y
  Invalid = Invalid
  Nobody = Nobody
  Batches <- OneBatch
  Jobs <- OneJob
  BatchOf <- OneBatchOf
  Ids <- MCIds
  RowsOf <- OneRowsOf
  MaxTries = 2
  MaxFaults = 0
PROPERTIES
  SentBatchIsRun
