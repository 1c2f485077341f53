------------------------------ MODULE MCPeerWiring ------------------------------
(* PeerWiring with four entries: a subnet that grows under the same VTEP,   *)
(* and VTEPs that have been created anew, on an old and on a new subnet.    *)
EXTENDS PeerWiring

MCInfos == {[ip |-> "ip1", mac |-> "mac1", net |-> "net1"],
            [ip |-> "ip1", mac |-> "mac1", net |-> "net2"],
            [ip |-> "ip1", mac |-> "mac2", net |-> "net1"],
            [ip |-> "ip2", mac |-> "mac2", net |-> "net2"]}
=================================================================================
