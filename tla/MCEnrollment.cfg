SPECIFICATION Spec
CONSTANTS
  Students = {ann, bob}
  Names = {code}
  CodeIds = {c1}
  Requests = {r1, r2}
  Keep = Keep
  Updates <- MCUpdates
  Limits <- MCLimits
  MaxIds = 2
  MaxTime = 1
  MaxSeats = 2
  Unlimited = Unlimited
  NoCode = NoCode
  Gone = Gone
  NoRow = NoRow
  NoCall = NoCall
  Direct = Direct
INVARIANTS AdmittedArePaid CompleteOrBroken
PROPERTY SeatsWithinLimit
SYMMETRY MCSymmetry
