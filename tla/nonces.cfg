CONSTANTS
  Threads = {t1, t2}
  Principals = {p1}
  Nonces = {n1, n2, n3}
  Timestamps = {0, 1, 2, 3}
  MaxPerPrincipal = 2
  MaxTTL = 1
  Skew = 1
  MaxClock = 3
SPECIFICATION Spec
INVARIANTS
  TypeOK
  RememberedWhileFresh
  NoFreshReplay
