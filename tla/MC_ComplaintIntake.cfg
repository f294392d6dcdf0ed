SPECIFICATION FairSpec
CONSTANTS
  r1 = r1  r2 = r2  r3 = r3
  k1 = k1  k2 = k2
  a = a  b = b  x = x
  bank1 = bank1  bank2 = bank2
  c1 = c1  c2 = c2
  Nobody = Nobody
  NoBody = NoBody
  Requests <- MCRequests
  Keys <- MCKeys
  Bodies <- MCBodies
  Institutions <- MCInstitutions
  Complaints <- MCComplaints
  InstitutionOf <- MCInstitutionOf
  BodyInstitution <- MCBodyInstitution
  ComplaintOf <- MCComplaintOf
  MaxRetries = 3
  MaxFailures = 2
INVARIANTS
  AtMostOnce
  RowsAreTrue
  AnswersAreTrue
  AgentsStartOnce
PROPERTIES
  EveryRequestAnswered
  KeepsPromise
