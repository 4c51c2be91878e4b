CONSTANTS
  Users = {t1, t2}
  Looper = looper
  Proxies = {p1, p2}
  MaxLinks = 2
  Uses <- MCUses
  Pool = {w1, w2, w3}
  Outside = {o1, o2}
  Maxima = {1, 2, 3}
  MaxCommands = 4
  Headers <- MCHeaders
  Sent <- MCSent
  SizeMax = 1023
SPECIFICATION MCSpec
CHECK_DEADLOCK FALSE
SYMMETRY Symmetry
INVARIANTS CommandsSound ProxySound DeathsTold ThreadsCounted ObjectsSound
