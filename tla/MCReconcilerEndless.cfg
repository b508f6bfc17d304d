SPECIFICATION Spec
CONSTANTS
  i1 = i1
  i2 = i2
  Interfaces = {i1}
  Desires <- TwoPolicies
  Off = Off
  None = None
  Partial = Partial
  Conditions = {"ENDLESS_OBSERVATIONS"}
  MaxFaults = 0
  MaxChanges = 1
  MaxFlushes = 0
PROPERTY SetLossRepaired
