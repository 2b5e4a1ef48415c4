SPECIFICATION Spec
CONSTANTS
  root = root
  uni = uni
  student = student
  super = super
  Tokens = {t1, t2}
  Users = {root}
  Orgs = {uni, private}
  Private = private
  Roles = {student, super}
  Super = super
  Rank <- MCRank
  Requests = {r1, r2}
  Idle = 3
  AbsoluteMax = 5
  Threshold = 2
  Slowest = 1
  MaxTime = 3
  Links = {l1}
  Bootstrap = {root}
  Validity = 1
  Cooldown = 1
  Mixed = FALSE
  StartMember <- MCMember
  NoLink = NoLink
  NoOrg = NoOrg
  NoSession = NoSession
  NoRole = NoRole
  NoCall = NoCall
CHECK_DEADLOCK FALSE
SYMMETRY MCSymmetry
INVARIANTS KeptAlive RevokedIsOver OneLoginPerLink LinkNotLost
