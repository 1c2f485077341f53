----------------------------- MODULE MCBitmapIPAM -----------------------------
(* BitmapIPAM with the subnets of a trie over 2^Depth /30 blocks.          *)
EXTENDS BitmapIPAM, TLC

CONSTANT Depth

MCNetworks ==
  UNION {{[base |-> k * 2^(h + 2), total |-> 2^(h + 2)] : k \in 0 .. (2^(Depth - h) - 1)} :
         h \in 0 .. Depth}

Symmetry == Permutations(PodKeys)
==============================================================================
