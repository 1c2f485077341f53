\* Any calls, on the subnets of a /28: three sizes, four starting points.
SPECIFICATION Spec
CONSTANTS
  Depth = 2
  PodKeys = {p1, p2}
  NoIP = NoIP
  Networks <- MCNetworks
SYMMETRY Symmetry
INVARIANTS
  TypeOK
  AddressesUnique
  InPodRange
  ExpandSucceeds
PROPERTIES
  OnlyRepeatLeaks
