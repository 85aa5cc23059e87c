SPECIFICATION InstalledLate
CONSTANTS
  a = a
  b = b
  d = d
  plain = plain
  Servers = {}
  Names = {a, b}
  RoleObjects = {a, b}
  DatabaseObjects = {d}
  MembershipObjects <- OneMembership
  Wish <- OneList
  NoWish = NoWish
  Publics = {}
  NoOwner = NoOwner
  MaxEvents = 4
INVARIANT TypeOK
PROPERTIES TearsDown Serves StepsOfManagedResource
CHECK_DEADLOCK FALSE
