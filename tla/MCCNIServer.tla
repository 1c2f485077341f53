---------------------------- MODULE MCCNIServer ----------------------------
(* Instances of CNIServer for TLC: two sandboxes of one pod.               *)
EXTENDS CNIServer, TLC

CONSTANTS s1, s2, p1

MCPodOf == (s1 :> p1) @@ (s2 :> p1)
=============================================================================
