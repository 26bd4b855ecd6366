CONSTANTS
  Never = Never  NoMandate = NoMandate  Unreadable = Unreadable
  Callers = {"t"}
  OwnerId = "owner"
  Held <- MCHeld
  Offered <- MCOffered
  Requests <- MCRequests
  MaxRoots = 1
  MaxContexts = 3
  MaxTime = 1

SPECIFICATION DelegationSpec
INVARIANTS ChildWithinParent
CHECK_DEADLOCK FALSE
