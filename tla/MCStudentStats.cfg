CONSTANTS
  s1 = s1
  s2 = s2
  quiz = quiz
  medal = medal
  i1 = i1
  i2 = i2
  i3 = i3
  i4 = i4
  novice = novice
  master = master
  Keep = Keep
  NoRank = NoRank
  NoRow = NoRow
  NoCall = NoCall
  Unlimited = Unlimited
  Students = {s1, s2}
  Activities = {quiz}
  Badges = {}
  Ranks = {novice, master}
  Required <- MCRequired
  RowIds = {i1, i2, i3, i4}
  Rewards = {1}
  Calls <- OverlapCalls
  MaxGranted = 1
  Requests = {r1, r2}
SPECIFICATION FairSpec
INVARIANTS BalanceCovered
PROPERTIES RequestsEnd
