CONSTANTS
  Sessions = {s1, s2}
  Complaints = {"c1"}
  Records <- MCRecords
  Batches <- MCBatches
  RowsOf <- MCRowsOf
  MaxAttempts = 2
  MaxWork = 3
  LongTerms = {"long"}
  Onboarded = {"SBS-001234"}
  ListLimit = 2
  SUPERVISOR_INSTITUTIONS = {"ours"}
  Payloads = {"p1", "p2"}
  Copies = {"first", "again", "other"}
  RequestOf <- MCRequestOf
  Offset <- MCOffset
  Unsigned = Unsigned
  Limit = 1
  Window = 2
  Second = 2
  KeyTTL = 3
  Skew = 1
  Future = 1
  ReplayTTL = 5
  TokenTTL = 4
  Grace = 1
  MaxStall = 1
  MaxTime = 5
  SenderDrift = {2}
  MaxAdmin = 1
SPECIFICATION RulesSpec
SYMMETRY Symmetry
INVARIANTS
  ValidationIsEarned
  SubmissionsReadOpenly
  TextIsRedacted
  WorseLooksWorse
  FindingsAgree
  SheetsFit
  AcceptedOnce
  LimiterIsFair
