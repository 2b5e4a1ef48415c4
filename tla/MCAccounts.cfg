SPECIFICATION Spec
CONSTANTS
  lower = lower
  upper = upper
  UserIds = {u1, u2}
  AccountIds = {a1, a2, a3}
  Emails = {lower, upper}
  Fold <- MCFold
  Bootstrap = lower
  BootOrg = internal
  Orgs = {internal}
  Roles = {super, administrator}
  Super = super
  Administrator = administrator
  Mapped = {administrator}
  Editors = {u1}
  Requests = {r1, r2}
  Unborn = Unborn
  Gone = Gone
  NoCall = NoCall
  NoRole = NoRole
SYMMETRY MCSymmetry
CHECK_DEADLOCK FALSE
INVARIANTS FewDuplicates CompletedOnceSubmitted
PROPERTIES KeptUserHasAccount
