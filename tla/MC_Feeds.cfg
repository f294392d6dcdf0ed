CONSTANTS
  Unanswered = Unanswered
  Refused = Refused
  Lost = Lost
  Feeds <- Kinds
  Kind <- MCKind
  Rows <- MCRows
  Started <- MCStarted
  MaxExpiries = 2
  Order <- MCOrder
  Setups <- MCSetups
  MaxDeliveries = 2
  j1 = j1  j2 = j2
  NoJob = NoJob
  Jobs <- MCJobs
  MaxTries = 2
  MaxAttempts = 3
  MaxFaults = 2
SPECIFICATION AllSpec
INVARIANTS
  SentOnceAndSaidSo
  ReplayIsEarned
  RowsTellWhatHappened
PROPERTIES
  EveryRowReported
  JobsStayWithTheirRows
CHECK_DEADLOCK FALSE
