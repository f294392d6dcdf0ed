SPECIFICATION BothSpec
CONSTANTS
  s1 = s1  s2 = s2  d1 = d1  d2 = d2
  NoRequest = NoRequest
  Requests <- FewRequests
  Decides <- MCDecides
  MaxFaults = 0
  Saves = {"draft a"}
  Heads = {"page"}
  MaxSendBacks = 0
INVARIANTS
  NoSecondObservation
