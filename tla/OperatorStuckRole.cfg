SPECIFICATION Spec
CONSTANTS
  a = a
  b = b
  d = d
  plain = plain
  Servers = {}
  Names = {a, b}
  RoleObjects = {a, b}
  DatabaseObjects = {d}
  MembershipObjects <- OneMembership
  Wish <- TwoLists
  NoWish = NoWish
  Publics = {}
  NoOwner = NoOwner
  MaxEvents = 2
PROPERTY RolesGo
CHECK_DEADLOCK FALSE
