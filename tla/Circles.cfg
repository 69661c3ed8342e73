SPECIFICATION PartSpec
CONSTANTS
  org = org
  ann = ann
  h1 = h1
  h2 = h2
  Users = {org, ann}
  Organizer = org
  Handlers = {h1, h2}
  Disputers = {ann}
  Limits = {2}
  Rounds = {1, 2}
  MaxEventTotal = 1
INVARIANTS ActiveHasRound RoundJustified ReplayCountedOnce
PROPERTIES MembershipOneWay
SYMMETRY Symmetric
CHECK_DEADLOCK FALSE
