SPECIFICATION Spec
CONSTANTS
  s1 = s1
  k1 = k1
  r1 = r1
  r2 = r2
  ref1 = ref1
  fin = fin
  foreign1 = foreign1
  Keys = {k1}
  Specs <- Given
  NoSpec = NoSpec
  Finalizer = fin
  Foreign = {}
  MaxEdits = 2
  MaxFaults = 1
  Names = {r1, r2}
  Servers = {s1}
  Refs = {ref1}
INVARIANT CleanRevocation
CHECK_DEADLOCK FALSE
