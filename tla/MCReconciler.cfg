SPECIFICATION Spec
CONSTANTS
  i1 = i1
  i2 = i2
  Interfaces = {i1, i2}
  Desires <- AllDesires
  Off = Off
  None = None
  Partial = Partial
  Conditions = {}
  MaxFaults = 1
  MaxChanges = 2
  MaxFlushes = 1
INVARIANTS TypeOK GenerationNamesPolicy SingleFaultNeutral
PROPERTIES HealthIsEnough Converges
