SPECIFICATION Spec
CONSTANTS
  Orgs = {o1}
  Certs = {c1, c2, c3}
  Private = o0
  Keys = {k1, k2}
  Requests = {r1, r2}
  MaxCalls = 2
  Browsers = {b1}
  Unborn = Unborn
  Gone = Gone
  NoCert = NoCert
  NoKey = NoKey
  NoCall = NoCall
  Out = Out
SYMMETRY Symmetry
INVARIANTS ListedIsReady StrategyIsRecent AdmittedWhileReady
CHECK_DEADLOCK FALSE
