SPECIFICATION Spec
CONSTANTS
  lec = lec
  stu = stu
  org = org
  tea = tea
  mem = mem
  g1 = g1
  g2 = g2
  k1 = k1
  k2 = k2
  b1 = b1
  b2 = b2
  s1 = s1
  s2 = s2
  a1 = a1
  a2 = a2
  e1 = e1
  e2 = e2
  p1 = p1
  p2 = p2
  o1 = o1
  o2 = o2
  t1 = t1
  t2 = t2
  Accounts <- MCAccounts
  Callers <- MCCallers
  Orders <- MCOrders
  Starts <- MCStarts
  NoOrg = NoOrg
  NoRow = NoRow
  Groups = {g1, g2}
  RankIds = {k1, k2}
  BadgeIds = {b1, b2}
  EarnedIds = {e1, e2}
  StageIds = {s1, s2}
  ActivityIds = {a1, a2}
  PostIds = {p1, p2}
  OfferIds = {o1, o2}
  TemplateIds = {t1, t2}
  Students = {mem}
  Unlimited = Unlimited
  Keep = Keep
  NoCall = NoCall
  LivesSent = {1, 2, Unlimited}
  Thresholds = {0, 1}
  Reward = 1
  Requests = {r1, r2}
  MaxCalls = 2
INVARIANTS RanksSettled StartWithinLives PublishedAnnounced PromotionsInGroup ProfileRankShown
SYMMETRY MCSymmetry
CHECK_DEADLOCK FALSE
