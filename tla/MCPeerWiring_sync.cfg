\* Two peers beside another tenant, while the local tenant comes and goes.
SPECIFICATION FairSpec
CONSTANTS
  Peers = {n1, n2}
  Shared = TRUE
  Ready = TRUE
  InboxSize = 2
  MaxUpdates = 3
  MaxCommands = 2
  Faults = {"delete"}
  Incomplete = Incomplete
  None = None
  Infos <- MCInfos
CHECK_DEADLOCK FALSE
INVARIANTS
  TypeOK
  PeersProgrammed
PROPERTIES
  NothingLeft
  PeersFollow
