CONSTANTS
  s1 = s1
  s2 = s2
  b1 = b1
  b2 = b2
  c1 = c1
  c2 = c2
  n1 = n1
  n2 = n2
  NoBinder = NoBinder
  Names = {n1, n2}
  Servers = {s1, s2}
  Clients = {c1, c2}
  Owner <- TwoServers
  Isolated = {c1}
  Listeners = {c1, c2}
  Sites <- MCSites
SPECIFICATION FairSpec
CHECK_DEADLOCK FALSE
INVARIANTS TablesSound
PROPERTIES AllTold
