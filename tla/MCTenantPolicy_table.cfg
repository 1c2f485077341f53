\* Two private tenants and the default come and go, the daemon restarts, calls
\* fail, kube-proxy comes.
SPECIFICATION Spec
CONSTANTS
  a = a
  b = b
  Private = {a, b}
  Default = default
  ChainOf <- MCChainOf
  KubeFirst = TRUE
  MaxOps = 7
  MaxRestarts = 1
  MaxFaults = 1
  None = None
CHECK_DEADLOCK FALSE
INVARIANTS
  TypeOK
  Isolated
  Connected
PROPERTIES
  CleanRemoval
