CONSTANTS
  Junk = Junk
  FailedWrites = {"nothing"}
  CrashedWrites = {"nothing", "partial", "unterminated", "whole"}
  MaxWrites = 4
  MaxDamage = 0
SPECIFICATION Spec
INVARIANTS
  AcknowledgedSurvive
