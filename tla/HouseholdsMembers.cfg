SPECIFICATION Spec

CONSTANTS
  u1 = u1
  u2 = u2
  u3 = u3
  h1 = h1
  h2 = h2
  i1 = i1
  i2 = i2
  r1 = r1
  r2 = r2
  User = {u1, u2, u3}
  Household = {h1, h2}
  Invite = {i1, i2}
  Request = {r1, r2}
  TTL = 1
  MaxClock = 1

INVARIANTS
  TypeOK
  OneOwner
  ActiveHasACause
  LostOnlyInARace

PROPERTY InviteSingleUse

ACTION_CONSTRAINT OneHousehold
CHECK_DEADLOCK FALSE
SYMMETRY Symmetry
