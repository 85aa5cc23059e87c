SPECIFICATION Spec
CONSTANTS
  k1 = k1
  s1 = s1
  name1 = name1
  a1 = a1
  pw1 = pw1
  fin = fin
  foreign1 = foreign1
  Keys = {k1}
  Specs <- ThreeSpecs
  NoSpec = NoSpec
  Finalizer = fin
  Foreign = {foreign1}
  MaxEdits = 3
  MaxFaults = 1
  Attributes = {a1}
  Defaults = {}
  Passwords = {pw1}
  NoPassword = NoPassword
  Servers = {s1}
  Names = {name1}
  NameOf <- NameOfMC
INVARIANTS TypeOK RoleInv NoOrphanRole ReadyIsReal StatusCoherent
PROPERTIES NeverDropsLive RefinesManagedResource
CHECK_DEADLOCK FALSE
