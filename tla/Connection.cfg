SPECIFICATION OneAtFirst
CONSTANTS
  n1 = n1
  n2 = n2
  v1 = v1
  v2 = v2
  Namespaces = {n1, n2}
  Values = {v1, v2}
  Unset = Unset
  Specs <- Specs1
  Contents <- Contents1
  Absent = Absent
  Error = Error
  MaxEdits = 2
INVARIANTS TypeOK LookupSound
PROPERTY FollowsObjects
CHECK_DEADLOCK FALSE
