SPECIFICATION Spec
CONSTANTS
  i1 = i1
  i2 = i2
  Interfaces = {i1}
  Desires <- TwoPolicies
  Off = Off
  None = None
  Partial = Partial
  Conditions = {"GENERATIONS_UNREADABLE"}
  MaxFaults = 0
  MaxChanges = 2
  MaxFlushes = 0
INVARIANT GenerationNamesPolicy
