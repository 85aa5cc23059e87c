SPECIFICATION SteadySpec
CONSTANTS
  s1 = s1
  k1 = k1
  db1 = db1
  a = a
  b = b
  pub = pub
  ref1 = ref1
  fin = fin
  foreign1 = foreign1
  Keys = {k1}
  Specs <- SecretAndMoved
  NoSpec = NoSpec
  Finalizer = fin
  Foreign = {}
  MaxEdits = 3
  MaxFaults = 1
  Names = {a, b, pub}
  Publics = {pub}
  NoOwner = NoOwner
  Servers = {s1}
  Databases = {db1}
  NameOf <- NameOfMC
  Refs = {ref1}
  MaxEntries = 2
  MaxLate = 0
INVARIANTS TypeOK ReadyIsReal NoOrphanDatabase
PROPERTIES DisturbsNothing RefinesManagedResource
CHECK_DEADLOCK FALSE
