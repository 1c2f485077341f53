\* Two nodes, zones change, a node leaves, the orchestrator restarts, calls fail.
SPECIFICATION Spec
CONSTANTS
  N = 2
  MaxZones = 2
  InitialZones = {1, 2}
  MaxInfra = 1
  Growing = {2}
  MaxSpecChanges = 1
  MaxRestarts = 1
  MaxDeletes = 1
  GrowOnly = FALSE
  Faults = {"ensure", "mirror"}
  None = None
  Nodes <- MCNodes
CHECK_DEADLOCK FALSE
INVARIANTS
  TypeOK
  Disjoint
  AssignedPublished
PROPERTIES
  WithinZones
