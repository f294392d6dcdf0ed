CONSTANTS
  Submissions = {"s1"}
  Sandboxed = {"s1"}
  Dispatches = {"d1"}
  Backfill = "b"
  Callers <- MCCallers
  Process <- MCProcess
  Tier1 <- MCTier1
  Ids = {"c0", "c1"}
  Existing = {"c0"}
  NoId = "none"
  MaxTries = 2
  MaxScans = 1
  MaxIterations = 2
  MaxFaults = 1
  Seeders = {"g1", "j1", "n1"}
  KindOf <- MCKindOf
  Complaints = {1, 2, 3}
  Named <- MCNamed
  Posts <- MCPosts
  Jobs = {"k1", "k2", "k3"}
  Adapters <- MCAdapters
  AliasOf <- MCAliasOf
  FraudTerms <- MCFraudTerms
  LastDay = 3
  Lookback = 1
  Calls = {"a1", "a2", "a3"}
  MaxAttempts = 3
  Corpus <- MCCorpus
  Reported <- MCReported
  Enrichers = {"e1", "e2"}
  SourceOf <- MCSourceOf
  Outcomes = {"favor_entidad"}
  Lags = {1, 2}
  RECENT_WINDOW_DAYS = 1
  LastDate = 3
  MaxPatches = 1
SPECIFICATION AllSpec
INVARIANTS RunsTellTheirEnd StoredAndAnnounced ChainOnceUnlessRaced ScriptsLeaveOneStory EveryPostOneSignal
           GivesUpOnlyWhenOvertaken
CHECK_DEADLOCK FALSE
