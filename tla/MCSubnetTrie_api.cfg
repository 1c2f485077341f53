\* The whole SubnetManager interface on a /27: 8 leaves, 15 prefixes.
SPECIFICATION Spec
CONSTANTS
  Depth = 3
  Tenants = {t1, t2, t3, t4}
  None = None
  Blocks <- MCBlocks
  Prefixes <- MCPrefixes
SYMMETRY Symmetry
INVARIANTS
  TypeOK
  FlagsMatchMap
  MergeAssertions
  Tiling
  DepthIsHeadroom
PROPERTIES
  OnlyReduceOversizes
  ImplementsAllocator
