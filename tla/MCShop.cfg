CONSTANTS
  s1 = s1
  s2 = s2
  book = book
  life = life
  Unlimited = Unlimited
  Requests = {r1, r2}
  Students <- MCStudents
  Items <- MCItems
  ExtraLife <- MCExtraLife
  Prices <- MCPrices
  Limit <- MCLimit
  LockedFor <- MCLockedFor
  LifeCap = 2
  StartCurrency <- MCStartCurrency
  StartLives <- MCStartLives
  StartStock <- MCStartStock
SPECIFICATION FairSpec
INVARIANTS
  SnapshotsCurrent
  StockConserved
  BalanceConserved
  InventoryExplained
  LimitRespected
PROPERTIES
  ImplementsLedger
  RequestsEnd
