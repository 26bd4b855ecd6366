CONSTANTS
  Junk = Junk
  FailedWrites = {"nothing"}
  CrashedWrites = {"nothing", "partial", "whole"}
  MaxWrites = 4
  MaxDamage = 2

  Consumers = {c1, c2}
  Escalations = {e1, e2}
  Nonces = {n1, n2}
  Timestamps = {0, 1}
  MaxTTL = 1
  Skew = 0
  AuditOutcomes = {"written", "failed", "late"}
  MaxClock = 2
  MaxRestarts = 1
  MaxAudited = 3

  owner = owner
  Threads = {t1, t2}
  Evidence = {i1}
  Principals = {owner, p1, p2}
  Owner = owner
  Digests = {d1}
  None = None
  MaxCalls = 5

SPECIFICATION RecordsSpec
SYMMETRY Interchangeable
INVARIANTS
  TypeOK AcknowledgedSurvive HeadIsTheFile Reopens AnchorHolds
  ApprovalTypeOK SingleUse NonceUsedOnce NothingBurned UsesAreAudited
  EvidenceTypeOK JournalTellsRecords DigestBeforeVerdict
PROPERTIES
  SeparatesProducers
