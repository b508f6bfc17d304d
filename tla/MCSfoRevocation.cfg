CONSTANTS
  tv = tv
  video = video
  None = None
  Identities = {tv}
  Classes = {video}
  Flows <- MCFlows
  Policies <- MCPolicies
  Topologies <- MCTopologies
  BroadUnpublished = FALSE
  MaxCandidates = 1
  MaxPasses = 2
  Capacity = 3
  MaxEvents = 2
SPECIFICATION MCSpec
INVARIANTS TypeOK StaleEvicted AuthorizationTruthful
PROPERTIES EventuallyEvicted
