\* Fair goroutines; two tenants with pods on a /29, each of which can grow
\* over the subnet of the other when that one is removed.
SPECIFICATION FairSpec
CONSTANTS
  Depth = 1
  Tenants = {t1, t2}
  ManyPods = {t2}
  OnePod = {t1}
  PodKeys = {p1, p2}
  None = None
  MailboxSize = 1
  MaxStarts = 1
  MaxSandboxes = 1
  Faults = {"create", "policy", "update", "veth", "pod"}
  Blocks <- MCBlocks
  Prefixes <- MCPrefixes
  Pods <- MCPods
CHECK_DEADLOCK FALSE
PROPERTIES
  ImplementsNode
  CommandsEnd
