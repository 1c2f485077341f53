--------------------------- MODULE SubnetAllocator ---------------------------
(***************************************************************************)
(* What the subnet manager of a node promises to its callers, with no      *)
(* trie in sight: every tenant holds a range of the node's /30 blocks, and *)
(* no block is ever held by two tenants.  SubnetTrie implements it.        *)
(***************************************************************************)
CONSTANTS
  Tenants,  \* tenant identifiers
  Blocks    \* the /30 blocks of the node's CIDR

VARIABLE held  \* held[t]: the blocks of tenant t, {} when it holds none

Others(t) == UNION {held[u] : u \in Tenants \ {t}}

Init == held = [t \in Tenants |-> {}]

(* A tenant that holds nothing is given blocks that nobody holds.          *)
Grant(t, r) ==
  /\ held[t] = {}
  /\ r # {}
  /\ r \cap Others(t) = {}
  /\ held' = [held EXCEPT ![t] = r]

(* A tenant's range grows around the blocks it already holds.              *)
Grow(t, r) ==
  /\ held[t] # {}
  /\ held[t] \subseteq r
  /\ r # held[t]
  /\ r \cap Others(t) = {}
  /\ held' = [held EXCEPT ![t] = r]

(* A tenant gives part of its range back.                                  *)
Shrink(t, r) ==
  /\ r # {}
  /\ r \subseteq held[t]
  /\ r # held[t]
  /\ held' = [held EXCEPT ![t] = r]

(* A tenant gives its whole range back.                                    *)
Free(t) ==
  /\ held[t] # {}
  /\ held' = [held EXCEPT ![t] = {}]

Next ==
  \E t \in Tenants :
    \/ Free(t)
    \/ \E r \in SUBSET Blocks : Grant(t, r) \/ Grow(t, r) \/ Shrink(t, r)

Spec == Init /\ [][Next]_held
==============================================================================
