SPECIFICATION Spec
CONSTANTS
  CPUs = {c1, c2}
  f1 = f1
  f2 = f2
  video = video
  Flows = {f1, f2}
  Classes = {video}
  Unclassified = Unclassified
  Capacity = 2
  Snapshots <- MCSnapshots
SYMMETRY CPUSymmetry
INVARIANTS TypeOK PendingConserved PendingHasOwner PendingBounded CachedVerdictTruthful OwnSnapshotEnforced
