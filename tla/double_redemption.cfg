CONSTANTS
  owner = owner  agent = agent
  commit = commit  high = high  low = low
  held = held  reissued = reissued  rdec = rdec
  Threads = {t1, t2}
  Escalations = {e1}
  Principals = {owner, agent}
  Owner = owner
  Payloads = {commit}
  ActionOf <- MCActionOf
  RiskOf <- MCRiskOf
  Capabilities = {held, rdec}
  Holder <- MCHolder
  Scope <- MCScope
  Deciding = {rdec}
  Policies = {p1}
  Identities = {i1}
  None = None
  AuditOutcomes = {"written", "failed"}
  MaxCalls = 4
SPECIFICATION Spec
SYMMETRY Interchangeable
INVARIANTS
  RedeemedAtMostOnce
