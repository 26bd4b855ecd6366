CONSTANTS
  s1 = s1  s2 = s2  x = x  y = y
  Stores = {s1, s2}
  Keys <- MCKeys
  Terms = {x, y}
  MaxStored = 3

  t1 = t1  t2 = t2
  Never = Never  NoMandate = NoMandate  Unreadable = Unreadable
  Callers = {t1}
  OwnerId = "owner"
  Held <- MCHeld
  Offered <- MCOffered
  Requests <- MCRequests
  MaxRoots = 1
  MaxContexts = 3
  MaxTime = 1

  k1 = k1  k2 = k2  Unbound = Unbound  Absent = Absent  Withdrawn = Withdrawn
  Workers = {t1, t2}
  Tokens = {k1, k2}
  Contents = {x, y}
  Bootstrap <- MCBootstrap
  MaxProvisions = 3

  u1 = u1  u2 = u2  r1 = r1  r0 = r0  NoId = NoId
  Servers = {t1, t2}
  Principals = {u1, u2}
  RequestIds = {r1, r0}
  EmptyId = r0
  Requested <- MCRequested
  MaxServed = 3

SPECIFICATION SupportSpec
INVARIANTS
  SupportTypesOK
  AcknowledgedRows IntegrityUnlessRaced ReadsAreCurrent
  AllowedByTheLineage AllowedByALiveCapability DecidesByTheBest RecordNamesTheCheck
  OnlyTheBootstrapToken
  CitesItsObservation AlarmsNeedOverlap ExecutionAlarmHasACause
PROPERTIES
  SealedStaysAsItIs OwnerKeyStays ObservedIsEnforced
CHECK_DEADLOCK FALSE
