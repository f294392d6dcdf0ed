SPECIFICATION BothSpec
CONSTANTS
  s1 = s1  s2 = s2  d1 = d1  d2 = d2
  NoRequest = NoRequest
  Requests <- MCRequests
  Decides <- MCDecides
  MaxFaults = 2
  Saves = {"draft a", "draft b", "draft c"}
  Heads = {"page"}
  MaxSendBacks = 1
INVARIANTS
  OneStoryUnlessRaced
  AnswersAreTrue
  NarrativesKeepTheirWord
PROPERTIES
  EveryDecisionAnnounced
