SPECIFICATION FairSpec
CONSTANTS
  Groups = {g1, g2}
  Jobs = {j1, j2}
  Requests = {r1}
  Statuses = {TRUE, FALSE}
  MaxTime = 1
  MaxFails = 1
  Never = Never
  NoCall = NoCall
INVARIANTS OpeningAnnounced
PROPERTIES OpensOnTime DueOpens
