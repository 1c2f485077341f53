\* Three calls about two sandboxes of a pod, two at a time, while the actor of
\* the default tenant comes and goes; the pod may be annotated with a tenant
\* that is not on the node.
SPECIFICATION Spec
CONSTANTS
  MaxConns = 2
  s1 = s1
  s2 = s2
  p1 = p1
  Sandboxes = {s1, s2}
  Pods = {p1}
  PodOf <- MCPodOf
  Tenants = {default, t1}
  DefaultTenant = default
  Hosted = {default}
  None = None
  MailboxSize = 1
  MaxActors = 1
  MaxCalls = 3
  Timed = {TRUE}
  Codecs = {"json", "bin", "junk"}
  Commands = {"ADD", "DEL", "CHECK", "STATUS", "GC"}
CHECK_DEADLOCK FALSE
INVARIANTS
  TypeOK
  AnswersEarned
  NeverStuck
PROPERTIES
  OneWay
