SPECIFICATION StoreFairSpec
CONSTANTS
  MaxDay = 4
  MonthOf <- MCMonthOf
  Ttl = 3
  NoFile = NoFile
  Torn = Torn
  MaxLines = 1
  MaxCuts = 2
INVARIANTS RetainedReadable
PROPERTIES ExpiredDeletedIfWhole
