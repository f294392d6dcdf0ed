SPECIFICATION FairSpec
CONSTANTS
  NoJob = NoJob
  Jobs = {j1}
  MaxTries = 5
  MaxAttempts = 6
  MaxFaults = 0
PROPERTIES
  EveryRowSettles
