CONSTANTS
  owner = owner  agent = agent
  commit = commit  high = high  low = low
  held = held  reissued = reissued  rdec = rdec
  Threads = {t1}
  Escalations = {e1}
  Principals = {owner, agent}
  Owner = owner
  Payloads = {commit, high}
  ActionOf <- MCActionOf
  RiskOf <- MCRiskOf
  Capabilities = {held, reissued, rdec}
  Holder <- MCHolder
  Scope <- MCScope
  Deciding = {rdec}
  Policies = {p1, p2}
  Identities = {i1, i2}
  None = None
  AuditOutcomes = {"written", "failed", "no_hash"}
  MaxCalls = 5
SPECIFICATION Spec
SYMMETRY Interchangeable
INVARIANTS
  PermitWasApproved
  RedeemedAtMostOnce
