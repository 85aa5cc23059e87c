SPECIFICATION SteadyFairSpec
CONSTANTS
  s1 = s1
  k1 = k1
  r1 = r1
  r2 = r2
  ref1 = ref1
  fin = fin
  foreign1 = foreign1
  Keys = {k1}
  Specs <- GivenAndTaken
  NoSpec = NoSpec
  Finalizer = fin
  Foreign = {foreign1}
  MaxEdits = 3
  MaxFaults = 1
  Names = {r1, r2}
  Servers = {s1}
  Refs = {ref1}
CHECK_DEADLOCK FALSE
INVARIANTS TypeOK NoOrphanMembership ReadyMeansRevoked
PROPERTIES NeverRevokesLive Converges Deprovisions
