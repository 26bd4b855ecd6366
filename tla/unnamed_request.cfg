CONSTANTS
  u1 = u1  u2 = u2  r1 = r1  r0 = r0  NoId = NoId
  Servers = {"t"}
  Principals = {u1, u2}
  RequestIds = {r1, r0}
  EmptyId = r0
  Requested <- MCRequested
  MaxServed = 1

SPECIFICATION ObservationsSpec
INVARIANTS AlarmMeansUnseen
CHECK_DEADLOCK FALSE
