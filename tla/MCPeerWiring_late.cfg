\* The tenant comes to the local node beside another tenant.
SPECIFICATION FairSpec
CONSTANTS
  Peers = {n1}
  Shared = TRUE
  Ready = FALSE
  InboxSize = 1
  MaxUpdates = 1
  MaxCommands = 1
  Faults = {}
  Incomplete = Incomplete
  None = None
  Infos <- MCInfos
CHECK_DEADLOCK FALSE
PROPERTIES
  PeersWired
