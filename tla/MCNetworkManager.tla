--------------------------- MODULE MCNetworkManager ---------------------------
(* NetworkManager over a CIDR of 2^Depth /30 blocks.                       *)
EXTENDS NetworkManager, TLC

CONSTANTS
  Depth,    \* levels of the trie below the root: 30 - root mask
  ManyPods, \* the tenants with all pods
  OnePod    \* the tenants with one

MCBlocks == 0 .. 2 ^ Depth - 1

MCPrefixes ==
  UNION {{(i * 2 ^ d) .. ((i + 1) * 2 ^ d - 1) : i \in 0 .. 2 ^ (Depth - d) - 1} : d \in 0 .. Depth}

FirstPod == CHOOSE k \in PodKeys : TRUE

MCPods == (ManyPods \X PodKeys) \cup (OnePod \X {FirstPod})

PodSymmetry == Permutations(PodKeys)
===============================================================================
