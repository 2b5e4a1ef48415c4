CONSTANTS
  s1 = s1
  s2 = s2
  quiz = quiz
  medal = medal
  i1 = i1
  i2 = i2
  i3 = i3
  i4 = i4
  novice = novice
  master = master
  Keep = Keep
  NoRank = NoRank
  NoRow = NoRow
  NoCall = NoCall
  Unlimited = Unlimited
  Students = {s1}
  Activities = {quiz}
  Badges = {medal}
  Ranks = {novice, master}
  Required <- MCRequired
  RowIds = {i1, i2}
  Rewards = {0, 2}
  Calls <- OneRowCalls
  MaxGranted = 3
  Requests = {r1}
SPECIFICATION Spec
INVARIANTS SpentIsGone RankFollowsEarned
