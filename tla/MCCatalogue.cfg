SPECIFICATION CatalogueSpec
CONSTANTS
  Items = {life, book}
  ExtraLife = life
  Cats = {c1}
  Stocks = {1}
  Edits = {r1, r2}
  Unlimited = Unlimited
  Keep = Keep
  Unborn = Unborn
  Gone = Gone
  NoCat = NoCat
  NoListing = NoListing
  NoEdit = NoEdit
INVARIANTS PageSound
PROPERTY StockUntouched
SYMMETRY MCSymmetry
CHECK_DEADLOCK FALSE
