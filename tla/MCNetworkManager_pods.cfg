\* One tenant with two pods that come, time out and go, beside a neighbour:
\* two actors in the life of each tenant, two sandboxes per pod.
SPECIFICATION Spec
CONSTANTS
  Depth = 1
  Tenants = {t1, t2}
  ManyPods = {t1}
  OnePod = {}
  PodKeys = {p1, p2}
  None = None
  MailboxSize = 1
  MaxStarts = 2
  MaxSandboxes = 2
  Faults = {"veth"}
  Blocks <- MCBlocks
  Prefixes <- MCPrefixes
  Pods <- MCPods
SYMMETRY PodSymmetry
CHECK_DEADLOCK FALSE
INVARIANTS
  TypeOK
  
  GatewayReachable
  OneExpansionSuffices
