SPECIFICATION ReadersSpec
CONSTANTS
  c1 = c1  c2 = c2  c3 = c3
  Clients <- MCClients
  MaxFaults = 2
  Rows <- MCRows
  Walkers = {"pendiente", "rejections"}
  WalkOf <- MCWalkOf
  PageSize = 1
  Workers = {"p", "q"}
  NoKey = NoKey
  MaxRestarts = 1
  v1 = v1
  f1 = f1  f2 = f2  f3 = f3
  NoId = NoId
  Viewers <- MCViewers
  Facts <- MCFacts
  RingSize = 2
  QueueSize = 1
  MaxConnects = 3
  MaxReboots = 1
  Arrivals <- MCArrivals
  Tier1 = "banco"
  Tier2 = "coopac"
  DayLength = 2
  LongWindow = 3
  RECENT_LIMIT = 1
  TopLimit = 2
  AnomalyLimit = 1
  QueueLimit = 2
  LastTime = 2
  MaxCommits = 3
  Connections = {"k1", "k2", "k3"}
  Posts = {"post1", "post2", "post3"}
  Streams = {"stream"}
  NoUser = NoUser
  NoResult = NoResult
  MaxReads = 1
CHECK_DEADLOCK FALSE
INVARIANTS
  AppliedOnceUnlessRaced
  WalksAreWhole
  ViewFollowsEvents
  PagesAddUp
  StallsOnlyWhenCrowded
PROPERTIES
  WritesAreSafe
  StreamsCatchUp
