CONSTANTS
  lan = lan
  guest = guest
  Interfaces = {lan, guest}
  None = None
  Foreign = Foreign
  MaxPrograms = 3
  MaxFaults = 2
  MaxEvents = 2
SPECIFICATION Spec
SYMMETRY Symmetry
INVARIANTS TypeOK Controllable SuccessTruthful
PROPERTIES ForeignUntouched
