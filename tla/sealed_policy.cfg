CONSTANTS
  k1 = k1  k2 = k2  Unbound = Unbound  Absent = Absent  Withdrawn = Withdrawn
  Workers = {"w"}
  Tokens = {k1, k2}
  Contents = {"x", "y"}
  Bootstrap <- MCBootstrap
  MaxProvisions = 3

SPECIFICATION ProvisioningSpec
PROPERTIES SealedPolicyIsImmutable
CHECK_DEADLOCK FALSE
