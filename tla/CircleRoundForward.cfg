SPECIFICATION Spec
CONSTANTS
  Users = {org, ann}
  Organizer = org
  Handlers = {h1}
  Disputers = {}
  Limits = {2}
  Rounds = {1}
  MaxEventTotal = 0
PROPERTY RoundForwardOnly
CHECK_DEADLOCK FALSE
