----------------------------- MODULE MCSubnetTrie -----------------------------
(* SubnetTrie over a CIDR of 2^Depth /30 blocks.                           *)
EXTENDS SubnetTrie, TLC

CONSTANT Depth  \* levels of the trie below the root: 30 - root mask

MCBlocks == 0 .. (2^Depth - 1)

MCPrefixes ==
  UNION {{(k * 2^h) .. ((k + 1) * 2^h - 1) : k \in 0 .. (2^(Depth - h) - 1)} : h \in 0 .. Depth}

Symmetry == Permutations(Tenants)
==============================================================================
