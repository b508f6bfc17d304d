SPECIFICATION Spec
CONSTANTS
  Procs = {p1, p2}
  CPUs = {c1, c2}
  NoProc = NoProc
  MaxVersion = 3
INVARIANTS TypeOK ActiveComplete
PROPERTIES ReaderSlotFrozen AtomicallyPublished
SYMMETRY Symmetry
