SPECIFICATION Spec
CONSTANTS
  k1 = k1
  s1 = s1
  name1 = name1
  a1 = a1
  pw1 = pw1
  fin = fin
  foreign1 = foreign1
  Keys = {k1}
  Specs <- OneSpec
  NoSpec = NoSpec
  Finalizer = fin
  Foreign = {}
  MaxEdits = 1
  MaxFaults = 1
  Attributes = {a1}
  Defaults = {}
  Passwords = {pw1}
  NoPassword = NoPassword
  Servers = {s1}
  Names = {name1}
  NameOf <- NameOfMC
INVARIANT SettledIsReady
CHECK_DEADLOCK FALSE
