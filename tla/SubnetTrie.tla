------------------------------ MODULE SubnetTrie ------------------------------
(***************************************************************************)
(* The per-node subnet manager: pkg/network/subnet/trie/trie.go            *)
(* (TrieManager) over pkg/data/trie (IPTrie, TrieNode).                    *)
(*                                                                         *)
(* The node's CIDR is divided by a binary trie down to /30 prefixes.  A    *)
(* prefix is modelled by the set of /30 blocks it covers, so "descendant"  *)
(* is inclusion and two prefixes clash when they intersect.  Every method  *)
(* runs under TrieManager.mu, hence one atomic action per method.  A call  *)
(* that returns an error, or returns an existing prefix, changes nothing   *)
(* and is not an action; its condition is the negation of a guard.         *)
(***************************************************************************)
EXTENDS Integers, FiniteSets

CONSTANTS
  Tenants,   \* the ids that TrieManager is called with
  Blocks,    \* the /30 blocks of RootCIDR, in address order: integers
  Prefixes,  \* the prefixes a trie over Blocks can hold
  None       \* nil in AllocMap, "" in TrieNode.ID

Root == Blocks

(* maskSize >= leafSize: the node is a /30.                                *)
IsLeaf(p) == Cardinality(p) = 1

(* SplitSubnet: the lower half of p, and the rest.                         *)
LowerHalf(p) ==
  {b \in p : 2 * Cardinality({c \in p : c < b}) < Cardinality(p)}

UpperHalf(p) == p \ LowerHalf(p)

(* TrieNode.Parent: the smallest prefix that properly contains p.          *)
Parent(p) ==
  CHOOSE q \in Prefixes :
    /\ p \subseteq q /\ p # q
    /\ \A r \in Prefixes : p \subseteq r /\ p # r => q \subseteq r

(* getSibling: the other child of the parent.                              *)
Sibling(p) == Parent(p) \ p

(* Two prefixes are nested or disjoint.                                    *)
Laminar ==
  \A p, q \in Prefixes : p \subseteq q \/ q \subseteq p \/ p \cap q = {}

(* Every prefix but the root is one half of its parent.                    *)
HasParent ==
  \A p \in Prefixes \ {Root} :
    /\ Parent(p) \in Prefixes /\ Sibling(p) \in Prefixes
    /\ p \subseteq Parent(p) /\ p # Parent(p)
    /\ \A r \in Prefixes : p \subseteq r /\ p # r => Parent(p) \subseteq r

(* Every prefix larger than a /30 splits into two prefixes, and everything *)
(* below it lies in one of them.                                           *)
Splits ==
  \A p \in Prefixes : ~IsLeaf(p) =>
    /\ LowerHalf(p) \in Prefixes /\ UpperHalf(p) \in Prefixes
    /\ \A q \in Prefixes : q \subseteq p /\ q # p =>
         q \subseteq LowerHalf(p) \/ q \subseteq UpperHalf(p)

ASSUME PrefixTree ==
  /\ IsFiniteSet(Blocks)
  /\ Root \in Prefixes
  /\ \A p \in Prefixes : p \subseteq Blocks /\ p # {}
  /\ Laminar
  /\ HasParent
  /\ Splits

ASSUME NoneIsNobody == None \notin Prefixes /\ None \notin Tenants

VARIABLES
  linked,   \* the prefixes whose TrieNode is reachable from Root
  owner,    \* Allocated and ID of the nodes: None when Allocated is false
  AllocMap  \* tenant id -> its node, None when absent

vars == <<linked, owner, AllocMap>>

-----------------------------------------------------------------------------
(* Both Children of node p are nil.                                        *)
Childless(p) == \A q \in linked : q \subseteq p => q = p

(* hasAllocatedDescendants: p itself or a node below it is allocated.      *)
hasAllocatedDescendants(p) ==
  \E q \in linked : q \subseteq p /\ owner[q] # None

(* findFreeLeavesRecursive: childless nodes with no allocated ancestor.    *)
FindAllFree ==
  {p \in linked : Childless(p) /\ \A q \in linked : p \subseteq q => owner[q] = None}

(* Faulty variant: the walk looks at the sibling, not below it.            *)
DepthOfSiblingsOnly(p) ==
  LET walk[q \in Prefixes] ==
        IF q = Root THEN 0
        ELSE IF owner[Sibling(q)] # None THEN 0
        ELSE 1 + walk[Parent(q)]
  IN walk[p]

(* The walk from a node towards the root counts the merges that it could   *)
(* make: it ends at the root or at a sibling that is, or holds, an         *)
(* allocation.                                                             *)
FreeMerges[q \in Prefixes] ==
  IF q = Root THEN 0
  ELSE IF hasAllocatedDescendants(Sibling(q)) THEN 0
  ELSE 1 + FreeMerges[Parent(q)]

MaxExpandableDepth(p) == FreeMerges[p]

(* p lies to the left of q.                                                *)
Before(p, q) == \E a \in p : \A b \in q : a < b

-----------------------------------------------------------------------------
(* NewTrieManager: the trie built down to the /30 leaves, none allocated.  *)
Init ==
  /\ linked = Prefixes
  /\ owner = [p \in Prefixes |-> None]
  /\ AllocMap = [t \in Tenants |-> None]

(* The scan of Allocate keeps the first leaf of greatest expansion depth.  *)
BestNode(p) ==
  /\ p \in FindAllFree
  /\ \A q \in FindAllFree :
       \/ MaxExpandableDepth(q) < MaxExpandableDepth(p)
       \/ MaxExpandableDepth(q) = MaxExpandableDepth(p) /\ (q = p \/ Before(p, q))

Allocate(id) ==
  /\ AllocMap[id] = None
  /\ \E best \in FindAllFree :
       /\ BestNode(best)
       /\ owner' = [owner EXCEPT ![best] = id]
       /\ AllocMap' = [AllocMap EXCEPT ![id] = best]
  /\ UNCHANGED linked

(* Faulty variant: the subtree is not rebuilt.                             *)
DeallocateNoRebuild(id) ==
  /\ AllocMap[id] # None
  /\ AllocMap[id] # Root
  /\ owner' = [owner EXCEPT ![AllocMap[id]] = None]
  /\ AllocMap' = [AllocMap EXCEPT ![id] = None]
  /\ UNCHANGED linked

(* Faulty variant: a /30 is split as well.                                 *)
DeallocateSplitLeaf(id) ==
  LET node == AllocMap[id] IN
  /\ node # None
  /\ node # Root
  /\ owner' = [owner EXCEPT ![node] = None]
  /\ AllocMap' = [AllocMap EXCEPT ![id] = None]
  /\ linked' = linked \cup {LowerHalf(node), UpperHalf(node)}

(* Deallocate and Release: an error when the tenant holds the root.  The   *)
(* node is cleared and its subtree rebuilt, from new nodes, down to /30.   *)
Deallocate(id) ==
  LET node == AllocMap[id] IN
  /\ node # None
  /\ node # Root
  /\ owner' = [q \in Prefixes |-> IF q \subseteq node THEN None ELSE owner[q]]
  /\ AllocMap' = [AllocMap EXCEPT ![id] = None]
  /\ linked' = linked \cup {q \in Prefixes : q \subseteq node}

(* Faulty variant: only the sibling's own Allocated flag is looked at.     *)
ExpandOverNephews(id) ==
  LET node == AllocMap[id]
      parent == Parent(node)
  IN
  /\ node # None
  /\ node # Root
  /\ owner[Sibling(node)] = None
  /\ owner' = [owner EXCEPT ![parent] = id, ![node] = None]
  /\ linked' = {q \in linked : q \subseteq parent => q = parent}
  /\ AllocMap' = [AllocMap EXCEPT ![id] = parent]

(* Faulty variant: AllocMap keeps the node that was merged away.           *)
ExpandStaleMap(id) ==
  LET node == AllocMap[id]
      parent == Parent(node)
  IN
  /\ node # None
  /\ node # Root
  /\ ~hasAllocatedDescendants(Sibling(node))
  /\ owner' = [owner EXCEPT ![parent] = id, ![node] = None]
  /\ linked' = {q \in linked : q \subseteq parent => q = parent}
  /\ UNCHANGED AllocMap

(* Expand: the tenant's node is merged with its free sibling.              *)
Expand(id) ==
  LET node == AllocMap[id]
      parent == Parent(node)
      sibling == Sibling(node)
  IN
  /\ node # None
  /\ node # Root
  /\ sibling \in linked
  /\ ~hasAllocatedDescendants(sibling)
  /\ owner[parent] = None
  /\ owner' = [owner EXCEPT ![parent] = id, ![node] = None, ![sibling] = None]
  /\ linked' = {q \in linked : q \subseteq parent => q = parent}
  /\ AllocMap' = [AllocMap EXCEPT ![id] = parent]

(* Faulty variant: the node stays allocated above its left child.          *)
ReduceKeepFlag(id) ==
  LET node == AllocMap[id]
      left == LowerHalf(node)
  IN
  /\ node # None
  /\ ~IsLeaf(node)
  /\ linked' = {q \in linked : q \subseteq node => q = node} \cup {left, UpperHalf(node)}
  /\ owner' = [owner EXCEPT ![left] = owner[node]]
  /\ AllocMap' = [AllocMap EXCEPT ![id] = left]

(* Faulty variant: only the left child is created.                         *)
ReduceLeftOnly(id) ==
  LET node == AllocMap[id]
      left == LowerHalf(node)
  IN
  /\ node # None
  /\ ~IsLeaf(node)
  /\ linked' = {q \in linked : q \subseteq node => q = node} \cup {left}
  /\ owner' = [owner EXCEPT ![node] = None, ![left] = owner[node]]
  /\ AllocMap' = [AllocMap EXCEPT ![id] = left]

(* Reduce: two new children, the allocation moves to the left one.  The    *)
(* right one stays as it is created, without children.                     *)
Reduce(id) ==
  LET node == AllocMap[id]
      left == LowerHalf(node)
      right == UpperHalf(node)
  IN
  /\ node # None
  /\ ~IsLeaf(node)
  /\ linked' = {q \in linked : q \subseteq node => q = node} \cup {left, right}
  /\ owner' = [owner EXCEPT ![node] = None, ![left] = owner[node], ![right] = None]
  /\ AllocMap' = [AllocMap EXCEPT ![owner[node]] = left]

Next ==
  \E id \in Tenants : Allocate(id) \/ Deallocate(id) \/ Expand(id) \/ Reduce(id)

Spec == Init /\ [][Next]_vars

-----------------------------------------------------------------------------
(* Type correctness of the trie's three pieces of state.                   *)
TypeOK ==
  /\ linked \subseteq Prefixes
  /\ owner \in [Prefixes -> Tenants \cup {None}]
  /\ AllocMap \in [Tenants -> Prefixes \cup {None}]

(* Isolation: the prefixes that AllocMap gives to two tenants never        *)
(* overlap, whatever sequence of Allocate, Expand, Reduce and Deallocate   *)
(* produced them.                                                          *)
Disjoint ==
  \A t, u \in Tenants :
    t # u /\ AllocMap[t] # None /\ AllocMap[u] # None
      => AllocMap[t] \cap AllocMap[u] = {}

(* AllocMap and the Allocated/ID fields of the reachable nodes describe    *)
(* the same allocations; a map entry never points to a node that Merge or  *)
(* Deallocate has cut off the trie.                                        *)
FlagsMatchMap ==
  /\ \A t \in Tenants :
       AllocMap[t] # None => AllocMap[t] \in linked /\ owner[AllocMap[t]] = t
  /\ \A p \in linked :
       owner[p] # None => AllocMap[owner[p]] = p

(* The two branches of Merge that the code calls impossible ("error of nil *)
(* sibling should not appear", "PANIC - UNSTABLE STATE") are unreachable.  *)
MergeAssertions ==
  \A t \in Tenants :
    AllocMap[t] \notin {None, Root} =>
      /\ Sibling(AllocMap[t]) \in linked
      /\ owner[Parent(AllocMap[t])] = None

(* No address space is lost or counted twice: the childless nodes tile the *)
(* node's CIDR, so each block is either allocated or found by FindAllFree. *)
Tiling ==
  \A b \in Blocks :
    \E p \in linked :
      /\ b \in p /\ Childless(p)
      /\ \A q \in linked : b \in q /\ Childless(q) => q = p

(* The expansion depth that Allocate maximises is the tenant's real        *)
(* headroom: the number of enclosing prefixes in which nothing is          *)
(* allocated.                                                              *)
DepthIsHeadroom ==
  \A p \in FindAllFree :
    MaxExpandableDepth(p) =
      Cardinality({q \in Prefixes : /\ p \subseteq q /\ p # q
                                    /\ ~hasAllocatedDescendants(q)})

(* Free leaves larger than a /30: Allocate would hand one out whole.       *)
Oversized == {p \in linked : Childless(p) /\ owner[p] = None /\ ~IsLeaf(p)}

(* Growing and releasing in any order leaves no oversized leaf behind, so  *)
(* that a tenant's first subnet is a /30 ("AllocateSubnet allocates a /30  *)
(* from the trie") and a trie without tenants is the one it was built as.  *)
(* Only Reduce, which the daemon does not call, makes one: its right half  *)
(* gets no children.                                                       *)
OnlyReduceOversizes ==
  [][\/ Oversized' \subseteq Oversized
     \/ \E t \in Tenants : /\ AllocMap[t] # None /\ AllocMap'[t] # None
                           /\ AllocMap'[t] # AllocMap[t] /\ AllocMap'[t] \subseteq AllocMap[t]]_vars

(* The inductive invariant behind Disjoint, FlagsMatchMap and              *)
(* MergeAssertions: what the reachable part of the trie looks like.        *)
AllocatedChildless == \A p \in linked : owner[p] # None => Childless(p)

UpwardClosed == \A p \in linked, q \in Prefixes : p \subseteq q => q \in linked

SiblingsLinked == \A p \in linked \ {Root} : Sibling(p) \in linked

IInv ==
  /\ TypeOK
  /\ FlagsMatchMap
  /\ AllocatedChildless
  /\ UpwardClosed
  /\ SiblingsLinked

(* The trie implements the abstract allocator.                             *)
HeldBy(t) == IF AllocMap[t] = None THEN {} ELSE AllocMap[t]

Allocator == INSTANCE SubnetAllocator WITH held <- [t \in Tenants |-> HeldBy(t)]

(* Every step of the trie is a grant, a growth, a reduction or a release   *)
(* of one tenant's blocks that keeps away from everybody else's.           *)
ImplementsAllocator == Allocator!Spec
==============================================================================
