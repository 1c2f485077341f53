\* Zones only grow, no faults: the placement completes and follows the nodes.
SPECIFICATION FairSpec
CONSTANTS
  N = 2
  MaxZones = 2
  InitialZones = {1}
  MaxInfra = 2
  Growing = {2}
  MaxSpecChanges = 1
  MaxRestarts = 0
  MaxDeletes = 0
  GrowOnly = TRUE
  Faults = {}
  None = None
  Nodes <- MCNodes
CHECK_DEADLOCK FALSE
PROPERTIES
  AssignedKept
  StatusSettles
