SPECIFICATION Spec
CONSTANTS
  AccessTargets = {laptop}
  ApplicationTargets = {k2}
  None = None
  Capacity = 2
  MaxSequence = 2
  ClockValidAfter = 1
  Hour = 2
  Day = 3
  Safety = 1
  StartWall = 2
  Settings = {0, 1, 5}
  MaxTime = 3
  MaxRequests = 2
  MaxFaults = 1
  MaxClockSets = 1
  MaxChanges = 1
  Categories = {k1, k2}
  Applications = {a1, a2}
  NoClass = NoClass
  MaxEvidence = 3
  DayMinutes = 3
  WeekDays = 3
  Default = Default
INVARIANTS TypeOK RevokedForGood NoOverstay
           VerdictStands NearestRuleDecides ApprovalEndRevokes MergedByEvidence DatapathAgrees
PROPERTIES LedgerKept JournaledInForce FailedCreateUndone
