\* Every kernel and iptables call but UpdatePod's may fail; tenants are
\* created twice.
SPECIFICATION Spec
CONSTANTS
  Depth = 1
  Tenants = {t1, t2}
  ManyPods = {t1}
  OnePod = {}
  PodKeys = {p1, p2}
  None = None
  MailboxSize = 1
  MaxStarts = 2
  MaxSandboxes = 1
  Faults = {"create", "policy", "delete", "update", "veth"}
  Blocks <- MCBlocks
  Prefixes <- MCPrefixes
  Pods <- MCPods
SYMMETRY PodSymmetry
CHECK_DEADLOCK FALSE
INVARIANTS
  WithinAllocation
  CleanSlate
  OnlyRootLeaks
  GatewayInSubnet
