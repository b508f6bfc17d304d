CONSTANTS
  tv = tv
  video = video
  None = None
  Identities = {tv}
  Classes = {video}
  Flows <- MCFlows
  Policies <- MCBroadPolicies
  Topologies <- MCTopologies
  BroadUnpublished = TRUE
  MaxCandidates = 2
  MaxPasses = 2
  Capacity = 3
  MaxEvents = 2
SPECIFICATION Spec
INVARIANTS StaleEvicted
