--------------------------- MODULE SubnetTrieProofs ---------------------------
(***************************************************************************)
(* Theorems about SubnetTrie, for every tree of prefixes that satisfies    *)
(* PrefixTree and every set of tenants.                                    *)
(***************************************************************************)
EXTENDS SubnetTrie, TLAPS, FiniteSetTheorems

-----------------------------------------------------------------------------
(* Facts about the tree of prefixes.                                       *)

(* A prefix and its sibling are disjoint, make up the parent, and are both *)
(* strictly inside it.                                                     *)
LEMMA SiblingFacts ==
  ASSUME NEW p \in Prefixes, p # Root
  PROVE  /\ Parent(p) \in Prefixes /\ Sibling(p) \in Prefixes
         /\ p \subseteq Parent(p) /\ p # Parent(p)
         /\ Sibling(p) \subseteq Parent(p) /\ Sibling(p) # Parent(p)
         /\ p \cap Sibling(p) = {}
         /\ p \cup Sibling(p) = Parent(p)
         /\ p # {} /\ Sibling(p) # {}
<1>1. /\ Parent(p) \in Prefixes /\ Sibling(p) \in Prefixes
      /\ p \subseteq Parent(p) /\ p # Parent(p)
  BY PrefixTree DEF HasParent
<1>2. p # {} /\ Sibling(p) # {}
  BY <1>1, PrefixTree
<1> QED
  BY <1>1, <1>2 DEF Sibling

(* What lies strictly below a parent lies below one of its two children.   *)
LEMMA BelowParent ==
  ASSUME NEW p \in Prefixes, p # Root,
         NEW q \in Prefixes, q \subseteq Parent(p), q # Parent(p)
  PROVE  q \subseteq p \/ q \subseteq Sibling(p)
<1>1. p \subseteq q /\ p # q => Parent(p) \subseteq q
  BY PrefixTree DEF HasParent
<1>2. q \subseteq p \/ p \subseteq q \/ p \cap q = {}
  BY PrefixTree DEF Laminar
<1>3. CASE p \cap q = {}
  BY <1>3, SiblingFacts
<1> QED
  BY <1>1, <1>2, <1>3

(* A prefix that strictly contains a sibling strictly contains the prefix. *)
LEMMA SiblingTogether ==
  ASSUME NEW p \in Prefixes, p # Root,
         NEW q \in Prefixes, Sibling(p) \subseteq q, Sibling(p) # q
  PROVE  p \subseteq q /\ p # q
<1>1. /\ p \subseteq q \/ q \subseteq p \/ p \cap q = {}
      /\ Parent(p) \subseteq q \/ q \subseteq Parent(p) \/ Parent(p) \cap q = {}
  BY SiblingFacts, PrefixTree DEF Laminar
<1>2. ~(q \subseteq p)
  BY SiblingFacts
<1>3. CASE p \subseteq q
  BY <1>2, <1>3
<1>4. CASE p \cap q = {}
  <2>1. ~(Parent(p) \subseteq q) /\ Parent(p) \cap q # {}
    BY <1>4, SiblingFacts
  <2>2. q \subseteq Sibling(p)
    BY <1>1, <1>4, <2>1, SiblingFacts
  <2> QED
    BY <2>2
<1> QED
  BY <1>1, <1>2, <1>3, <1>4

(* SplitSubnet yields two disjoint siblings below the prefix it splits.    *)
LEMMA SplitFacts ==
  ASSUME NEW p \in Prefixes, ~IsLeaf(p)
  PROVE  /\ LowerHalf(p) \in Prefixes /\ UpperHalf(p) \in Prefixes
         /\ LowerHalf(p) \subseteq p /\ UpperHalf(p) \subseteq p
         /\ LowerHalf(p) # p /\ UpperHalf(p) # p
         /\ LowerHalf(p) \cap UpperHalf(p) = {}
         /\ LowerHalf(p) # {} /\ UpperHalf(p) # {}
         /\ \A q \in Prefixes : q \subseteq p /\ q # p =>
              q \subseteq LowerHalf(p) \/ q \subseteq UpperHalf(p)
<1>1. /\ LowerHalf(p) \in Prefixes /\ UpperHalf(p) \in Prefixes
      /\ \A q \in Prefixes : q \subseteq p /\ q # p =>
           q \subseteq LowerHalf(p) \/ q \subseteq UpperHalf(p)
  BY PrefixTree DEF Splits
<1>2. LowerHalf(p) # {} /\ UpperHalf(p) # {}
  BY <1>1, PrefixTree
<1>3. LowerHalf(p) \subseteq p
  BY DEF LowerHalf
<1> HIDE DEF LowerHalf
<1>4. UpperHalf(p) \subseteq p /\ LowerHalf(p) \cap UpperHalf(p) = {}
  BY DEF UpperHalf
<1>5. LowerHalf(p) # p /\ UpperHalf(p) # p
  BY <1>2, <1>3, <1>4
<1> QED
  BY <1>1, <1>2, <1>3, <1>4, <1>5

LEMMA SplitSiblings ==
  ASSUME NEW p \in Prefixes, ~IsLeaf(p)
  PROVE  /\ LowerHalf(p) # Root /\ UpperHalf(p) # Root
         /\ Sibling(LowerHalf(p)) = UpperHalf(p)
         /\ Sibling(UpperHalf(p)) = LowerHalf(p)
<1> DEFINE l == LowerHalf(p)
           u == UpperHalf(p)
<1>1. /\ l \in Prefixes /\ u \in Prefixes /\ l \subseteq p /\ u \subseteq p
      /\ l # p /\ u # p /\ l \cap u = {} /\ l # {} /\ u # {}
      /\ \A q \in Prefixes : q \subseteq p /\ q # p => q \subseteq l \/ q \subseteq u
  BY SplitFacts
<1>2. u = p \ l
  BY DEF UpperHalf
<1> HIDE DEF l, u
<1>3. l # Root /\ u # Root
  BY <1>1, PrefixTree DEF Root
<1>4. ASSUME NEW h \in {l, u} PROVE Parent(h) = p
  <2>1. /\ h \in Prefixes /\ h # Root /\ h # {} /\ h \subseteq p /\ h # p
    BY <1>1, <1>3, <1>4
  <2>2. /\ Parent(h) \in Prefixes /\ h \subseteq Parent(h) /\ h # Parent(h)
        /\ Parent(h) \subseteq p
    BY <2>1, PrefixTree DEF HasParent
  <2>3. ~(Parent(h) \subseteq l) /\ ~(Parent(h) \subseteq u)
    BY <1>1, <1>4, <2>1, <2>2
  <2> QED
    BY <1>1, <2>2, <2>3
<1>5. Sibling(l) = p \ l /\ Sibling(u) = p \ u
  BY <1>4 DEF Sibling
<1>6. p \ u = l
  BY <1>1, <1>2
<1> QED
  BY <1>2, <1>3, <1>5, <1>6 DEF l, u

-----------------------------------------------------------------------------
(* Type correctness.                                                       *)

(* What FindAllFree returns.                                               *)
LEMMA FreeFacts ==
  ASSUME NEW p \in FindAllFree
  PROVE  p \in linked /\ Childless(p) /\ owner[p] = None
BY DEF FindAllFree

(* A node reached through AllocMap is a prefix of the trie.                *)
LEMMA NodeFacts ==
  ASSUME TypeOK, NEW id \in Tenants, AllocMap[id] # None
  PROVE  AllocMap[id] \in Prefixes
BY DEF TypeOK

LEMMA AllocateType ==
  ASSUME TypeOK, NEW id \in Tenants, Allocate(id)
  PROVE  TypeOK'
<1>1. PICK best \in FindAllFree :
        /\ owner' = [owner EXCEPT ![best] = id]
        /\ AllocMap' = [AllocMap EXCEPT ![id] = best]
  BY DEF Allocate
<1>2. best \in Prefixes
  BY FreeFacts DEF TypeOK
<1> QED
  BY <1>1, <1>2 DEF Allocate, TypeOK

LEMMA DeallocateType ==
  ASSUME TypeOK, NEW id \in Tenants, Deallocate(id)
  PROVE  TypeOK'
BY DEF Deallocate, TypeOK

LEMMA ExpandType ==
  ASSUME TypeOK, NEW id \in Tenants, Expand(id)
  PROVE  TypeOK'
<1>1. Parent(AllocMap[id]) \in Prefixes
  BY NodeFacts, SiblingFacts DEF Expand
<1> QED
  BY <1>1 DEF Expand, TypeOK

LEMMA ReduceType ==
  ASSUME TypeOK, NEW id \in Tenants, Reduce(id)
  PROVE  TypeOK'
<1> DEFINE node == AllocMap[id]
           left == LowerHalf(node)
           right == UpperHalf(node)
<1>1. node \in Prefixes /\ ~IsLeaf(node)
  BY NodeFacts DEF Reduce
<1>2. left \in Prefixes /\ right \in Prefixes
  BY <1>1, SplitFacts
<1>3. /\ linked' = {q \in linked : q \subseteq node => q = node} \cup {left, right}
      /\ owner' = [owner EXCEPT ![node] = None, ![left] = owner[node], ![right] = None]
      /\ AllocMap' = [AllocMap EXCEPT ![owner[node]] = left]
  BY DEF Reduce
<1> HIDE DEF node, left, right
<1>4. owner[node] \in Tenants \cup {None}
  BY <1>1 DEF TypeOK
<1> QED
  BY <1>1, <1>2, <1>3, <1>4 DEF TypeOK

(* The fields of the trie keep their types under every method.             *)
THEOREM TypeCorrect == Spec => []TypeOK
<1>1. Init => TypeOK
  BY DEF Init, TypeOK
<1>2. TypeOK /\ [Next]_vars => TypeOK'
  <2>1. ASSUME TypeOK, Next PROVE TypeOK'
    BY <2>1, AllocateType, DeallocateType, ExpandType, ReduceType DEF Next
  <2>2. TypeOK /\ UNCHANGED vars => TypeOK'
    BY DEF TypeOK, vars
  <2> QED
    BY <2>1, <2>2
<1> QED
  BY <1>1, <1>2, PTL DEF Spec

-----------------------------------------------------------------------------
(* The inductive invariant, one lemma per method.                          *)

LEMMA AllocateInv ==
  ASSUME IInv, NEW id \in Tenants, Allocate(id)
  PROVE  IInv'
<1>1. PICK best \in FindAllFree :
        /\ owner' = [owner EXCEPT ![best] = id]
        /\ AllocMap' = [AllocMap EXCEPT ![id] = best]
  BY DEF Allocate
<1>2. best \in linked /\ Childless(best) /\ owner[best] = None /\ best \in Prefixes
  BY FreeFacts DEF IInv, TypeOK
<1>3. linked' = linked /\ AllocMap[id] = None
  BY DEF Allocate
<1>4. TypeOK'
  BY AllocateType DEF IInv
<1>5. FlagsMatchMap'
  <2>1. ASSUME NEW t \in Tenants, AllocMap'[t] # None
        PROVE  AllocMap'[t] \in linked' /\ owner'[AllocMap'[t]] = t
    <3>1. CASE t = id
      BY <1>1, <1>2, <1>3, <3>1 DEF IInv, TypeOK
    <3>2. CASE t # id
      <4>1. AllocMap'[t] = AllocMap[t]
        BY <1>1, <3>2 DEF IInv, TypeOK
      <4>2. AllocMap[t] \in linked /\ owner[AllocMap[t]] = t /\ AllocMap[t] # best
        BY <1>2, <2>1, <4>1, NoneIsNobody DEF IInv, FlagsMatchMap
      <4> QED
        BY <1>1, <1>3, <4>1, <4>2 DEF IInv, TypeOK
    <3> QED
      BY <3>1, <3>2
  <2>2. ASSUME NEW p \in linked', owner'[p] # None
        PROVE  AllocMap'[owner'[p]] = p
    <3>1. CASE p = best
      BY <1>1, <1>2, <3>1 DEF IInv, TypeOK
    <3>2. CASE p # best
      <4>1. owner'[p] = owner[p] /\ owner[p] \in Tenants
        BY <1>1, <1>3, <2>2, <3>2 DEF IInv, TypeOK
      <4>2. AllocMap[owner[p]] = p /\ p \in Prefixes
        BY <1>3, <2>2, <4>1 DEF IInv, FlagsMatchMap, TypeOK
      <4>3. owner[p] # id
        BY <1>3, <4>2, NoneIsNobody
      <4> QED
        BY <1>1, <4>1, <4>2, <4>3 DEF IInv, TypeOK
    <3> QED
      BY <3>1, <3>2
  <2> QED
    BY <2>1, <2>2 DEF FlagsMatchMap
<1>6. AllocatedChildless'
  BY <1>1, <1>2, <1>3 DEF IInv, AllocatedChildless, Childless, TypeOK
<1>7. UpwardClosed' /\ SiblingsLinked'
  BY <1>3 DEF IInv, UpwardClosed, SiblingsLinked
<1> QED
  BY <1>4, <1>5, <1>6, <1>7 DEF IInv

LEMMA DeallocateInv ==
  ASSUME IInv, NEW id \in Tenants, Deallocate(id)
  PROVE  IInv'
<1> DEFINE node == AllocMap[id]
<1>1. /\ node # None /\ node # Root
      /\ owner' = [q \in Prefixes |-> IF q \subseteq node THEN None ELSE owner[q]]
      /\ AllocMap' = [AllocMap EXCEPT ![id] = None]
      /\ linked' = linked \cup {q \in Prefixes : q \subseteq node}
  BY DEF Deallocate
<1>2. node \in Prefixes /\ node \in linked /\ owner[node] = id
  BY <1>1 DEF IInv, TypeOK, FlagsMatchMap
<1>3. \A q \in linked : q \subseteq node => q = node
  BY <1>2, NoneIsNobody DEF IInv, AllocatedChildless, Childless
<1>n. AllocMap[id] = node
  OBVIOUS
<1> HIDE DEF node
<1>4. TypeOK'
  BY DeallocateType DEF IInv
<1>5. FlagsMatchMap'
  <2>1. ASSUME NEW t \in Tenants, AllocMap'[t] # None
        PROVE  AllocMap'[t] \in linked' /\ owner'[AllocMap'[t]] = t
    <3>1. t # id /\ AllocMap'[t] = AllocMap[t]
      BY <1>1, <2>1 DEF IInv, TypeOK
    <3>2. /\ AllocMap[t] \in linked /\ owner[AllocMap[t]] = t
          /\ AllocMap[t] \in Prefixes /\ AllocMap[t] # node
      BY <1>2, <2>1, <3>1 DEF IInv, FlagsMatchMap, TypeOK
    <3>3. ~(AllocMap[t] \subseteq node)
      BY <1>3, <3>2
    <3> QED
      BY <1>1, <3>1, <3>2, <3>3
  <2>2. ASSUME NEW p \in linked', owner'[p] # None
        PROVE  AllocMap'[owner'[p]] = p
    <3>1. p \in Prefixes /\ ~(p \subseteq node) /\ p \in linked /\ owner'[p] = owner[p]
      BY <1>1, <2>2 DEF IInv, TypeOK
    <3>2. AllocMap[owner[p]] = p /\ owner[p] \in Tenants /\ owner[p] # id
      BY <1>n, <2>2, <3>1 DEF IInv, FlagsMatchMap, TypeOK
    <3> QED
      BY <1>1, <3>1, <3>2 DEF IInv, TypeOK
  <2> QED
    BY <2>1, <2>2 DEF FlagsMatchMap
<1>6. AllocatedChildless'
  <2>1. SUFFICES ASSUME NEW p \in linked', owner'[p] # None,
                        NEW q \in linked', q \subseteq p
                 PROVE  q = p
    BY DEF AllocatedChildless, Childless
  <2>2. p \in Prefixes /\ ~(p \subseteq node) /\ p \in linked /\ owner[p] # None
    BY <1>1, <2>1 DEF IInv, TypeOK
  <2>3. \A r \in linked : r \subseteq p => r = p
    BY <2>2 DEF IInv, AllocatedChildless, Childless
  <2>4. CASE q \in linked
    BY <2>1, <2>3, <2>4
  <2>5. CASE q \in Prefixes /\ q \subseteq node
    <3>1. q # {}
      BY <2>5, PrefixTree
    <3>2. node \subseteq p
      BY <1>2, <2>1, <2>2, <2>5, <3>1, PrefixTree DEF Laminar
    <3> QED
      BY <1>2, <2>2, <2>3, <3>2
  <2> QED
    BY <1>1, <2>1, <2>4, <2>5
<1>7. UpwardClosed'
  <2>1. SUFFICES ASSUME NEW p \in linked', NEW q \in Prefixes, p \subseteq q
                 PROVE  q \in linked'
    BY DEF UpwardClosed
  <2>2. CASE p \in linked
    BY <1>1, <2>1, <2>2 DEF IInv, UpwardClosed
  <2>3. CASE p \in Prefixes /\ p \subseteq node
    <3>1. p # {}
      BY <2>3, PrefixTree
    <3>2. q \subseteq node \/ node \subseteq q
      BY <1>2, <2>1, <2>3, <3>1, PrefixTree DEF Laminar
    <3> QED
      BY <1>1, <1>2, <3>2 DEF IInv, UpwardClosed
  <2> QED
    BY <1>1, <2>1, <2>2, <2>3
<1>8. SiblingsLinked'
  <2>1. SUFFICES ASSUME NEW p \in linked', p # Root
                 PROVE  Sibling(p) \in linked'
    BY DEF SiblingsLinked
  <2>2. CASE p \in linked
    BY <1>1, <2>1, <2>2 DEF IInv, SiblingsLinked
  <2>3. CASE p \in Prefixes /\ p \subseteq node /\ p # node
    <3>1. Parent(p) \subseteq node
      BY <1>2, <2>1, <2>3, PrefixTree DEF HasParent
    <3>2. Sibling(p) \in Prefixes /\ Sibling(p) \subseteq node
      BY <2>1, <2>3, <3>1, SiblingFacts
    <3> QED
      BY <1>1, <3>2
  <2> QED
    BY <1>1, <1>2, <2>1, <2>2, <2>3
<1> QED
  BY <1>4, <1>5, <1>6, <1>7, <1>8 DEF IInv

(* The guards of Merge, and what the invariant says of the three nodes.    *)
LEMMA ExpandFacts ==
  ASSUME IInv, NEW id \in Tenants, Expand(id),
         NEW node, node = AllocMap[id],
         NEW parent, parent = Parent(node),
         NEW sibling, sibling = Sibling(node)
  PROVE  /\ node \in Prefixes /\ node # Root /\ node \in linked /\ owner[node] = id
         /\ parent \in Prefixes /\ sibling \in Prefixes /\ sibling \in linked
         /\ parent \in linked /\ owner[parent] = None
         /\ node # parent /\ sibling # parent /\ node # sibling
         /\ owner' = [owner EXCEPT ![parent] = id, ![node] = None, ![sibling] = None]
         /\ linked' = {q \in linked : q \subseteq parent => q = parent}
         /\ AllocMap' = [AllocMap EXCEPT ![id] = parent]
         /\ \A q \in linked : q \subseteq parent /\ owner[q] # None => q = node
<1>1. /\ node # None /\ node # Root /\ sibling \in linked
      /\ ~hasAllocatedDescendants(sibling) /\ owner[parent] = None
      /\ owner' = [owner EXCEPT ![parent] = id, ![node] = None, ![sibling] = None]
      /\ linked' = {q \in linked : q \subseteq parent => q = parent}
      /\ AllocMap' = [AllocMap EXCEPT ![id] = parent]
  BY DEF Expand
<1>2. node \in Prefixes /\ node \in linked /\ owner[node] = id
  BY <1>1 DEF IInv, TypeOK, FlagsMatchMap
<1>3. /\ parent \in Prefixes /\ sibling \in Prefixes /\ node \subseteq parent
      /\ node # parent /\ sibling # parent /\ node # sibling
  BY <1>1, <1>2, SiblingFacts
<1>4. parent \in linked
  BY <1>2, <1>3 DEF IInv, UpwardClosed
<1>5. \A q \in linked : q \subseteq node => q = node
  BY <1>2, NoneIsNobody DEF IInv, AllocatedChildless, Childless
<1>6. ASSUME NEW q \in linked, q \subseteq parent, owner[q] # None PROVE q = node
  <2>1. q \in Prefixes /\ q # parent
    BY <1>1, <1>6 DEF IInv, TypeOK
  <2>2. q \subseteq node \/ q \subseteq sibling
    BY <1>1, <1>2, <1>6, <2>1, BelowParent
  <2>3. ~(q \subseteq sibling)
    BY <1>1, <1>6 DEF hasAllocatedDescendants
  <2> QED
    BY <1>5, <2>2, <2>3
<1> QED
  BY <1>1, <1>2, <1>3, <1>4, <1>6

LEMMA ExpandInv ==
  ASSUME IInv, NEW id \in Tenants, Expand(id)
  PROVE  IInv'
<1> DEFINE node == AllocMap[id]
           parent == Parent(node)
           sibling == Sibling(node)
<1>1. /\ node \in Prefixes /\ node # Root /\ node \in linked /\ owner[node] = id
      /\ parent \in Prefixes /\ sibling \in Prefixes /\ sibling \in linked
      /\ parent \in linked /\ owner[parent] = None
      /\ node # parent /\ sibling # parent /\ node # sibling
      /\ owner' = [owner EXCEPT ![parent] = id, ![node] = None, ![sibling] = None]
      /\ linked' = {q \in linked : q \subseteq parent => q = parent}
      /\ AllocMap' = [AllocMap EXCEPT ![id] = parent]
      /\ \A q \in linked : q \subseteq parent /\ owner[q] # None => q = node
  BY ExpandFacts
<1>n. AllocMap[id] = node
  OBVIOUS
<1> HIDE DEF node, parent, sibling
<1>2. TypeOK'
  BY ExpandType DEF IInv
<1>3. /\ owner'[parent] = id
      /\ \A q \in linked' : q # parent => owner'[q] \in {owner[q], None}
      /\ \A q \in linked' : q # parent /\ q # node /\ q # sibling => owner'[q] = owner[q]
  BY <1>1 DEF IInv, TypeOK
<1>4. FlagsMatchMap'
  <2>1. ASSUME NEW t \in Tenants, AllocMap'[t] # None
        PROVE  AllocMap'[t] \in linked' /\ owner'[AllocMap'[t]] = t
    <3>1. CASE t = id
      BY <1>1, <1>3, <3>1 DEF IInv, TypeOK
    <3>2. CASE t # id
      <4>1. AllocMap'[t] = AllocMap[t]
        BY <1>1, <3>2 DEF IInv, TypeOK
      <4>2. AllocMap[t] \in linked /\ owner[AllocMap[t]] = t /\ AllocMap[t] # node
        BY <1>1, <2>1, <3>2, <4>1 DEF IInv, FlagsMatchMap
      <4>3. ~(AllocMap[t] \subseteq parent)
        BY <1>1, <4>2, NoneIsNobody
      <4>4. sibling \subseteq parent
        BY <1>1, SiblingFacts DEF sibling, parent
      <4>5. AllocMap[t] # parent /\ AllocMap[t] # sibling
        BY <4>3, <4>4
      <4>6. AllocMap[t] \in linked'
        BY <1>1, <4>2, <4>3
      <4>7. owner'[AllocMap[t]] = owner[AllocMap[t]]
        BY <1>3, <4>2, <4>5, <4>6
      <4> QED
        BY <4>1, <4>2, <4>6, <4>7
    <3> QED
      BY <3>1, <3>2
  <2>2. ASSUME NEW p \in linked', owner'[p] # None
        PROVE  AllocMap'[owner'[p]] = p
    <3>1. CASE p = parent
      BY <1>1, <1>3, <3>1 DEF IInv, TypeOK
    <3>2. CASE p # parent
      <4>1. owner'[p] = owner[p] /\ p \in linked /\ p # node /\ p \in Prefixes
        BY <1>1, <1>3, <2>2, <3>2 DEF IInv, TypeOK
      <4>2. AllocMap[owner[p]] = p /\ owner[p] \in Tenants /\ owner[p] # id
        BY <1>n, <2>2, <4>1 DEF IInv, FlagsMatchMap, TypeOK
      <4> QED
        BY <1>1, <4>1, <4>2 DEF IInv, TypeOK
    <3> QED
      BY <3>1, <3>2
  <2> QED
    BY <2>1, <2>2 DEF FlagsMatchMap
<1>5. AllocatedChildless'
  <2>1. SUFFICES ASSUME NEW p \in linked', owner'[p] # None,
                        NEW q \in linked', q \subseteq p
                 PROVE  q = p
    BY DEF AllocatedChildless, Childless
  <2>2. CASE p = parent
    BY <1>1, <2>1, <2>2
  <2>3. CASE p # parent
    <3>1. p \in linked /\ owner[p] # None /\ q \in linked
      BY <1>1, <1>3, <2>1, <2>3
    <3> QED
      BY <2>1, <3>1 DEF IInv, AllocatedChildless, Childless
  <2> QED
    BY <2>2, <2>3
<1>6. UpwardClosed'
  <2>1. SUFFICES ASSUME NEW p \in linked', NEW q \in Prefixes, p \subseteq q
                 PROVE  q \in linked'
    BY DEF UpwardClosed
  <2>2. q \in linked
    BY <1>1, <2>1 DEF IInv, UpwardClosed
  <2>3. q \subseteq parent => q = parent
    BY <1>1, <2>1
  <2> QED
    BY <1>1, <2>2, <2>3
<1>7. SiblingsLinked'
  <2>1. SUFFICES ASSUME NEW p \in linked', p # Root
                 PROVE  Sibling(p) \in linked'
    BY DEF SiblingsLinked
  <2>2. p \in Prefixes /\ Sibling(p) \in linked
    BY <1>1, <2>1 DEF IInv, SiblingsLinked, TypeOK
  <2>3. Sibling(p) \subseteq parent => Sibling(p) = parent
    BY <1>1, <2>1, <2>2, SiblingTogether
  <2> QED
    BY <1>1, <2>2, <2>3
<1> QED
  BY <1>2, <1>4, <1>5, <1>6, <1>7 DEF IInv

LEMMA ReduceInv ==
  ASSUME IInv, NEW id \in Tenants, Reduce(id)
  PROVE  IInv'
<1> DEFINE node == AllocMap[id]
           left == LowerHalf(node)
           right == UpperHalf(node)
<1>1. node # None /\ ~IsLeaf(node)
  BY DEF Reduce
<1>2. node \in Prefixes /\ node \in linked /\ owner[node] = id
  BY <1>1 DEF IInv, TypeOK, FlagsMatchMap
<1>3. /\ linked' = {q \in linked : q \subseteq node => q = node} \cup {left, right}
      /\ owner' = [owner EXCEPT ![node] = None, ![left] = id, ![right] = None]
      /\ AllocMap' = [AllocMap EXCEPT ![id] = left]
  BY <1>2 DEF Reduce
<1>4. \A q \in linked : q \subseteq node => q = node
  BY <1>2, NoneIsNobody DEF IInv, AllocatedChildless, Childless
<1>5. /\ left \in Prefixes /\ right \in Prefixes
      /\ left \subseteq node /\ right \subseteq node /\ left # node /\ right # node
      /\ left \cap right = {} /\ left # {} /\ right # {}
      /\ \A q \in Prefixes : q \subseteq node /\ q # node => q \subseteq left \/ q \subseteq right
  BY <1>1, <1>2, SplitFacts
<1>6. Sibling(left) = right /\ Sibling(right) = left
  BY <1>1, <1>2, SplitSiblings
<1>n. AllocMap[id] = node
  OBVIOUS
<1> HIDE DEF node, left, right
<1>7. linked' = linked \cup {left, right} /\ left \notin linked /\ right \notin linked
  BY <1>3, <1>4, <1>5
<1>8. /\ owner'[left] = id /\ owner'[right] = None /\ owner'[node] = None
      /\ \A q \in linked : q # node => owner'[q] = owner[q]
  BY <1>2, <1>3, <1>5, <1>7 DEF IInv, TypeOK
<1>9. TypeOK'
  BY ReduceType DEF IInv
<1>10. FlagsMatchMap'
  <2>1. ASSUME NEW t \in Tenants, AllocMap'[t] # None
        PROVE  AllocMap'[t] \in linked' /\ owner'[AllocMap'[t]] = t
    <3>1. CASE t = id
      BY <1>3, <1>7, <1>8, <3>1 DEF IInv, TypeOK
    <3>2. CASE t # id
      <4>1. AllocMap'[t] = AllocMap[t]
        BY <1>3, <3>2 DEF IInv, TypeOK
      <4>2. AllocMap[t] \in linked /\ owner[AllocMap[t]] = t /\ AllocMap[t] # node
        BY <1>2, <2>1, <3>2, <4>1 DEF IInv, FlagsMatchMap
      <4> QED
        BY <1>7, <1>8, <4>1, <4>2
    <3> QED
      BY <3>1, <3>2
  <2>2. ASSUME NEW p \in linked', owner'[p] # None
        PROVE  AllocMap'[owner'[p]] = p
    <3>1. CASE p = left
      <4>1. AllocMap'[id] = left
        BY <1>3 DEF IInv, TypeOK
      <4> QED
        BY <1>8, <3>1, <4>1
    <3>2. CASE p # left
      <4>1. p \in linked /\ p # node /\ owner'[p] = owner[p] /\ p \in Prefixes
        BY <1>7, <1>8, <2>2, <3>2 DEF IInv, TypeOK
      <4>2. AllocMap[owner[p]] = p /\ owner[p] \in Tenants /\ owner[p] # id
        BY <1>n, <2>2, <4>1 DEF IInv, FlagsMatchMap, TypeOK
      <4> QED
        BY <1>3, <4>1, <4>2 DEF IInv, TypeOK
    <3> QED
      BY <3>1, <3>2
  <2> QED
    BY <2>1, <2>2 DEF FlagsMatchMap
<1>11. AllocatedChildless'
  <2>1. SUFFICES ASSUME NEW p \in linked', owner'[p] # None,
                        NEW q \in linked', q \subseteq p
                 PROVE  q = p
    BY DEF AllocatedChildless, Childless
  <2>2. CASE p = left
    <3>1. q \in linked => q = node
      BY <1>4, <1>5, <2>1, <2>2
    <3> QED
      BY <1>5, <1>7, <2>1, <2>2, <3>1
  <2>3. CASE p # left
    <3>1. p \in linked /\ p # node /\ owner[p] # None /\ p \in Prefixes
      BY <1>7, <1>8, <2>1, <2>3 DEF IInv, TypeOK
    <3>2. \A r \in linked : r \subseteq p => r = p
      BY <3>1 DEF IInv, AllocatedChildless, Childless
    <3>3. CASE q \in linked
      BY <2>1, <3>2, <3>3
    <3>4. CASE q \in {left, right}
      <4>1. node \subseteq p \/ p \subseteq node
        BY <1>2, <1>5, <2>1, <3>1, <3>4, PrefixTree DEF Laminar
      <4> QED
        BY <1>2, <1>4, <3>1, <3>2, <4>1
    <3> QED
      BY <1>7, <2>1, <3>3, <3>4
  <2> QED
    BY <2>2, <2>3
<1>12. UpwardClosed'
  <2>1. SUFFICES ASSUME NEW p \in linked', NEW q \in Prefixes, p \subseteq q
                 PROVE  q \in linked'
    BY DEF UpwardClosed
  <2>2. CASE p \in linked
    BY <1>7, <2>1, <2>2 DEF IInv, UpwardClosed
  <2>3. CASE p \in {left, right}
    <3>1. q \subseteq node \/ node \subseteq q
      BY <1>2, <1>5, <2>1, <2>3, PrefixTree DEF Laminar
    <3>2. CASE node \subseteq q
      BY <1>2, <1>7, <3>2 DEF IInv, UpwardClosed
    <3>3. CASE q \subseteq node /\ q # node
      <4>1. q \subseteq left \/ q \subseteq right
        BY <1>5, <3>3
      <4>2. q = p
        BY <1>5, <2>1, <2>3, <4>1
      <4> QED
        BY <2>1, <4>2
    <3> QED
      BY <3>1, <3>2, <3>3
  <2> QED
    BY <1>7, <2>1, <2>2, <2>3
<1>13. SiblingsLinked'
  BY <1>6, <1>7 DEF IInv, SiblingsLinked
<1> QED
  BY <1>9, <1>10, <1>11, <1>12, <1>13 DEF IInv

(* The inductive invariant holds of every behaviour of the full interface. *)
THEOREM InvariantHolds == Spec => []IInv
<1>1. Init => IInv
  <2>1. SUFFICES ASSUME Init PROVE IInv
    OBVIOUS
  <2>2. TypeOK /\ FlagsMatchMap /\ AllocatedChildless /\ UpwardClosed
    BY <2>1 DEF Init, TypeOK, FlagsMatchMap, AllocatedChildless, UpwardClosed
  <2>3. SiblingsLinked
    BY <2>1, SiblingFacts DEF Init, SiblingsLinked
  <2> QED
    BY <2>2, <2>3 DEF IInv
<1>2. IInv /\ [Next]_vars => IInv'
  <2>1. ASSUME IInv, Next PROVE IInv'
    BY <2>1, AllocateInv, DeallocateInv, ExpandInv, ReduceInv DEF Next
  <2>2. IInv /\ UNCHANGED vars => IInv'
    BY DEF IInv, TypeOK, FlagsMatchMap, AllocatedChildless, Childless, UpwardClosed,
           SiblingsLinked, vars
  <2> QED
    BY <2>1, <2>2
<1> QED
  BY <1>1, <1>2, PTL DEF Spec

(* Two allocated nodes of a trie that satisfies the invariant are disjoint:*)
(* nested ones would make one a descendant of an allocated node.           *)
LEMMA InvDisjoint == IInv => Disjoint
<1>1. SUFFICES ASSUME IInv, NEW t \in Tenants, NEW u \in Tenants, t # u,
                      AllocMap[t] # None, AllocMap[u] # None
               PROVE  AllocMap[t] \cap AllocMap[u] = {}
  BY DEF Disjoint
<1>2. /\ AllocMap[t] \in linked /\ owner[AllocMap[t]] = t
      /\ AllocMap[u] \in linked /\ owner[AllocMap[u]] = u
      /\ AllocMap[t] \in Prefixes /\ AllocMap[u] \in Prefixes
  BY <1>1 DEF IInv, FlagsMatchMap, TypeOK
<1>3. ~(AllocMap[t] \subseteq AllocMap[u]) /\ ~(AllocMap[u] \subseteq AllocMap[t])
  BY <1>1, <1>2, NoneIsNobody DEF IInv, AllocatedChildless, Childless
<1> QED
  BY <1>2, <1>3, PrefixTree DEF Laminar

(* No two tenants of a node ever hold overlapping subnets, for any CIDR,   *)
(* any set of tenants and any sequence of calls to the subnet manager.     *)
THEOREM TenantIsolation == Spec => []Disjoint
BY InvariantHolds, InvDisjoint, PTL

(* AllocMap and the nodes' Allocated/ID fields never diverge.              *)
THEOREM MapMatchesTrie == Spec => []FlagsMatchMap
<1>1. IInv => FlagsMatchMap
  BY DEF IInv
<1> QED
  BY <1>1, InvariantHolds, PTL

(* The two "should not happen" branches of Merge are dead code.            *)
THEOREM MergeAssertionsHold == Spec => []MergeAssertions
<1>1. IInv => MergeAssertions
  <2>1. SUFFICES ASSUME IInv, NEW t \in Tenants, AllocMap[t] \notin {None, Root}
                 PROVE  /\ Sibling(AllocMap[t]) \in linked
                        /\ owner[Parent(AllocMap[t])] = None
    BY DEF MergeAssertions
  <2>2. AllocMap[t] \in linked /\ AllocMap[t] \in Prefixes
    BY <2>1 DEF IInv, FlagsMatchMap, TypeOK
  <2>3. /\ Parent(AllocMap[t]) \in Prefixes
        /\ AllocMap[t] \subseteq Parent(AllocMap[t]) /\ AllocMap[t] # Parent(AllocMap[t])
    BY <2>1, <2>2, SiblingFacts
  <2>4. Parent(AllocMap[t]) \in linked
    BY <2>1, <2>2, <2>3 DEF IInv, UpwardClosed
  <2>5. owner[Parent(AllocMap[t])] = None
    BY <2>1, <2>2, <2>3, <2>4 DEF IInv, AllocatedChildless, Childless
  <2> QED
    BY <2>1, <2>2, <2>5 DEF IInv, SiblingsLinked
<1> QED
  BY <1>1, InvariantHolds, PTL

-----------------------------------------------------------------------------
(* No address space is lost.                                               *)

(* The root is never cut off: Merge and Reduce cut off what lies strictly  *)
(* below a node.                                                           *)
LEMMA RootStays == Spec => [](IInv /\ Root \in linked)
<1>1. Init => Root \in linked
  BY PrefixTree DEF Init
<1>2. IInv /\ Root \in linked /\ [Next]_vars => (Root \in linked)'
  <2>1. SUFFICES ASSUME IInv, Root \in linked, [Next]_vars PROVE Root \in linked'
    OBVIOUS
  <2>2. CASE UNCHANGED vars
    BY <2>1, <2>2 DEF vars
  <2>3. ASSUME NEW id \in Tenants, Allocate(id) PROVE Root \in linked'
    BY <2>1, <2>3 DEF Allocate
  <2>4. ASSUME NEW id \in Tenants, Deallocate(id) PROVE Root \in linked'
    BY <2>1, <2>4 DEF Deallocate
  <2>5. ASSUME NEW id \in Tenants, Expand(id) PROVE Root \in linked'
    <3>1. AllocMap[id] # None /\ AllocMap[id] # Root
      BY <2>5 DEF Expand
    <3>2. Parent(AllocMap[id]) \in Prefixes
      BY <2>1, <3>1, NodeFacts, SiblingFacts DEF IInv
    <3>3. Root \subseteq Parent(AllocMap[id]) => Root = Parent(AllocMap[id])
      BY <3>2, PrefixTree DEF Root
    <3> QED
      BY <2>1, <2>5, <3>3 DEF Expand
  <2>6. ASSUME NEW id \in Tenants, Reduce(id) PROVE Root \in linked'
    <3>1. AllocMap[id] \in Prefixes
      BY <2>1, <2>6, NodeFacts DEF IInv, Reduce
    <3>2. Root \subseteq AllocMap[id] => Root = AllocMap[id]
      BY <3>1, PrefixTree DEF Root
    <3> QED
      BY <2>1, <2>6, <3>2 DEF Reduce
  <2> QED
    BY <2>1, <2>2, <2>3, <2>4, <2>5, <2>6 DEF Next
<1> QED
  BY <1>1, <1>2, InvariantHolds, PTL DEF Spec

(* A nonempty set of prefixes has a smallest one.                          *)
LEMMA SmallestPrefix ==
  ASSUME NEW S, S \subseteq Prefixes, S # {}
  PROVE  \E p \in S : \A q \in S : q \subseteq p => q = p
<1> DEFINE R == StrictSubsetOrdering(Blocks)
<1>1. IsWellFoundedOn(R, FiniteSubsetsOf(Blocks))
  BY FS_StrictSubsetOrderingWellFounded
<1>2. S \subseteq SUBSET Blocks
  BY PrefixTree
<1>3. S \subseteq FiniteSubsetsOf(Blocks)
  BY <1>2, FS_FiniteSubsetsOfFinite, PrefixTree
<1>4. \A p, q \in SUBSET Blocks : q \subseteq p /\ q # p => <<q, p>> \in R
  BY DEF StrictSubsetOrdering
<1> HIDE DEF R
<1>5. PICK p \in S : \A q \in S : ~(<<q, p>> \in R)
  BY <1>1, <1>3, WFMin
<1> QED
  BY <1>2, <1>4, <1>5

(* A linked node that is not childless has its two halves as children.     *)
LEMMA ChildrenLinked ==
  ASSUME IInv, NEW p \in linked, ~Childless(p)
  PROVE  ~IsLeaf(p) /\ LowerHalf(p) \in linked /\ UpperHalf(p) \in linked
<1>1. PICK q \in linked : q \subseteq p /\ q # p
  BY DEF Childless
<1>2. p \in Prefixes /\ q \in Prefixes
  BY DEF IInv, TypeOK
<1>3. ~IsLeaf(p)
  <2>1. IsFiniteSet(p)
    BY <1>2, FS_Subset, PrefixTree
  <2>2. SUFFICES ASSUME IsLeaf(p) PROVE FALSE
    OBVIOUS
  <2>3. PICK x : p = {x}
    BY <2>1, <2>2, FS_Singleton DEF IsLeaf
  <2>4. q # {}
    BY <1>2, PrefixTree
  <2> QED
    BY <1>1, <2>3, <2>4
<1>4. /\ LowerHalf(p) \in Prefixes /\ UpperHalf(p) \in Prefixes
      /\ q \subseteq LowerHalf(p) \/ q \subseteq UpperHalf(p)
  BY <1>1, <1>2, <1>3, SplitFacts
<1>5. LowerHalf(p) \in linked \/ UpperHalf(p) \in linked
  BY <1>4 DEF IInv, UpwardClosed
<1>6. /\ LowerHalf(p) # Root /\ UpperHalf(p) # Root
      /\ Sibling(LowerHalf(p)) = UpperHalf(p) /\ Sibling(UpperHalf(p)) = LowerHalf(p)
  BY <1>2, <1>3, SplitSiblings
<1> QED
  BY <1>3, <1>5, <1>6 DEF IInv, SiblingsLinked

(* Every block of the CIDR lies in exactly one childless node, however     *)
(* often tenants were grown, reduced and released.                         *)
THEOREM NoBlockLost == Spec => []Tiling
<1>1. IInv /\ Root \in linked => Tiling
  <2>1. SUFFICES ASSUME IInv, Root \in linked, NEW b \in Blocks
                 PROVE  \E p \in linked :
                          /\ b \in p /\ Childless(p)
                          /\ \A q \in linked : b \in q /\ Childless(q) => q = p
    BY DEF Tiling
  <2> DEFINE S == {p \in linked : b \in p}
  <2>2. Root \in S /\ S \subseteq Prefixes
    BY <2>1 DEF IInv, TypeOK, Root
  <2> HIDE DEF S
  <2>3. PICK p \in S : \A q \in S : q \subseteq p => q = p
    BY <2>2, SmallestPrefix
  <2> USE DEF S
  <2>4. Childless(p)
    <3>1. SUFFICES ASSUME ~Childless(p) PROVE FALSE
      OBVIOUS
    <3>2. ~IsLeaf(p) /\ LowerHalf(p) \in linked /\ UpperHalf(p) \in linked
      BY <2>1, <3>1, ChildrenLinked
    <3>3. /\ LowerHalf(p) \subseteq p /\ UpperHalf(p) \subseteq p
          /\ LowerHalf(p) # p /\ UpperHalf(p) # p
      BY <2>2, <3>2, SplitFacts
    <3>4. b \in LowerHalf(p) \/ b \in UpperHalf(p)
      BY DEF UpperHalf
    <3> QED
      BY <2>3, <3>2, <3>3, <3>4
  <2>5. ASSUME NEW q \in linked, b \in q, Childless(q) PROVE q = p
    <3>1. q \subseteq p \/ p \subseteq q
      BY <2>2, <2>5, PrefixTree DEF Laminar
    <3> QED
      BY <2>4, <2>5, <3>1 DEF Childless
  <2> QED
    BY <2>4, <2>5
<1> QED
  BY <1>1, RootStays, PTL

-----------------------------------------------------------------------------
(* What the walk of MaxExpandableDepth counts.                             *)

(* A nonempty set of prefixes has a largest one.                           *)
LEMMA LargestPrefix ==
  ASSUME NEW S, S \subseteq Prefixes, S # {}
  PROVE  \E p \in S : \A q \in S : p \subseteq q => q = p
<1> DEFINE R == StrictSubsetOrdering(Blocks)
           C == {Blocks \ p : p \in S}
<1>1. IsWellFoundedOn(R, FiniteSubsetsOf(Blocks))
  BY FS_StrictSubsetOrderingWellFounded
<1>2. S \subseteq SUBSET Blocks /\ C \subseteq SUBSET Blocks /\ C # {}
  BY PrefixTree
<1>3. C \subseteq FiniteSubsetsOf(Blocks)
  BY <1>2, FS_FiniteSubsetsOfFinite, PrefixTree
<1>4. \A p, q \in SUBSET Blocks : q \subseteq p /\ q # p => <<q, p>> \in R
  BY DEF StrictSubsetOrdering
<1> HIDE DEF R, C
<1>5. PICK c \in C : \A d \in C : ~(<<d, c>> \in R)
  BY <1>1, <1>2, <1>3, WFMin
<1>6. PICK p \in S : c = Blocks \ p
  BY <1>5 DEF C
<1>7. ASSUME NEW q \in S, p \subseteq q PROVE q = p
  <2>1. Blocks \ q \in C /\ Blocks \ q \in SUBSET Blocks /\ c \in SUBSET Blocks
    BY <1>2 DEF C
  <2>2. Blocks \ q \subseteq c
    BY <1>6, <1>7
  <2>3. Blocks \ q = c
    BY <1>4, <1>5, <2>1, <2>2
  <2> QED
    BY <1>2, <1>6, <1>7, <2>3
<1> QED
  BY <1>7

(* The prefixes that q would become by merging again and again until a     *)
(* sibling is not free.                                                    *)
Mergeable(q) ==
  {r \in Prefixes :
     /\ q \subseteq r /\ q # r
     /\ \A s \in Prefixes : q \subseteq s /\ s \subseteq r /\ s # r =>
          ~hasAllocatedDescendants(Sibling(s))}

LEMMA MergeableFinite ==
  ASSUME NEW q \in Prefixes
  PROVE  IsFiniteSet(Mergeable(q)) /\ Cardinality(Mergeable(q)) \in Nat
<1>1. IsFiniteSet(SUBSET Blocks)
  BY FS_SUBSET, PrefixTree
<1>2. Mergeable(q) \subseteq SUBSET Blocks
  BY PrefixTree DEF Mergeable
<1>3. IsFiniteSet(Mergeable(q))
  BY <1>1, <1>2, FS_Subset
<1> QED
  BY <1>3, FS_CardinalityType

LEMMA MergeableRoot == Mergeable(Root) = {}
BY PrefixTree DEF Mergeable, Root

LEMMA MergeableBlocked ==
  ASSUME NEW q \in Prefixes, hasAllocatedDescendants(Sibling(q))
  PROVE  Mergeable(q) = {}
BY DEF Mergeable

LEMMA MergeableParent ==
  ASSUME NEW q \in Prefixes, q # Root, ~hasAllocatedDescendants(Sibling(q))
  PROVE  Cardinality(Mergeable(q)) = 1 + Cardinality(Mergeable(Parent(q)))
<1> DEFINE P == Parent(q)
<1>1. P \in Prefixes /\ q \subseteq P /\ q # P
  BY SiblingFacts
<1>2. \A r \in Prefixes : q \subseteq r /\ q # r => P \subseteq r
  BY PrefixTree DEF HasParent
<1> HIDE DEF P
<1>3. P \notin Mergeable(P)
  BY DEF Mergeable
<1>4. P \in Mergeable(q)
  <2>1. ASSUME NEW s \in Prefixes, q \subseteq s, s \subseteq P, s # P
        PROVE  s = q
    BY <1>2, <2>1
  <2> QED
    BY <1>1, <2>1 DEF Mergeable
<1>5. ASSUME NEW r \in Mergeable(P) PROVE r \in Mergeable(q)
  <2>1. /\ r \in Prefixes /\ P \subseteq r /\ P # r
        /\ \A s \in Prefixes : P \subseteq s /\ s \subseteq r /\ s # r =>
             ~hasAllocatedDescendants(Sibling(s))
    BY <1>5 DEF Mergeable
  <2>2. q \subseteq r /\ q # r
    BY <1>1, <2>1
  <2>3. ASSUME NEW s \in Prefixes, q \subseteq s, s \subseteq r, s # r
        PROVE  ~hasAllocatedDescendants(Sibling(s))
    <3>1. CASE s = q
      BY <3>1
    <3>2. CASE s # q
      <4>1. P \subseteq s
        BY <1>2, <2>3, <3>2
      <4> QED
        BY <2>1, <2>3, <4>1
    <3> QED
      BY <3>1, <3>2
  <2> QED
    BY <2>1, <2>2, <2>3 DEF Mergeable
<1>6. ASSUME NEW r \in Mergeable(q), r # P PROVE r \in Mergeable(P)
  <2>1. /\ r \in Prefixes /\ q \subseteq r /\ q # r
        /\ \A s \in Prefixes : q \subseteq s /\ s \subseteq r /\ s # r =>
             ~hasAllocatedDescendants(Sibling(s))
    BY <1>6 DEF Mergeable
  <2>2. P \subseteq r
    BY <1>2, <2>1
  <2>3. \A s : P \subseteq s => q \subseteq s
    BY <1>1
  <2> QED
    BY <1>6, <2>1, <2>2, <2>3 DEF Mergeable
<1>7. Mergeable(q) = Mergeable(P) \cup {P}
  BY <1>4, <1>5, <1>6
<1>8. IsFiniteSet(Mergeable(P)) /\ Cardinality(Mergeable(P)) \in Nat
  BY <1>1, MergeableFinite
<1>9. Cardinality(Mergeable(P) \cup {P}) = Cardinality(Mergeable(P)) + 1
  BY <1>3, <1>8, FS_AddElement
<1> QED
  BY <1>7, <1>8, <1>9 DEF P

(* The equation that defines FreeMerges has a solution, and FreeMerges is  *)
(* one.                                                                    *)
MergeStep(f, q) ==
  IF q = Root THEN 0
  ELSE IF hasAllocatedDescendants(Sibling(q)) THEN 0
  ELSE 1 + f[Parent(q)]

LEMMA FreeMergesEquation ==
  FreeMerges = [q \in Prefixes |-> MergeStep(FreeMerges, q)]
<1> DEFINE D == [q \in Prefixes |-> Cardinality(Mergeable(q))]
<1>1. ASSUME NEW q \in Prefixes PROVE D[q] = MergeStep(D, q)
  <2>1. CASE q = Root
    BY <2>1, MergeableRoot, FS_EmptySet DEF MergeStep
  <2>2. CASE q # Root /\ hasAllocatedDescendants(Sibling(q))
    BY <2>2, MergeableBlocked, FS_EmptySet DEF MergeStep
  <2>3. CASE q # Root /\ ~hasAllocatedDescendants(Sibling(q))
    <3>1. Parent(q) \in Prefixes
      BY <2>3, SiblingFacts
    <3> QED
      BY <2>3, <3>1, MergeableParent DEF MergeStep
  <2> QED
    BY <2>1, <2>2, <2>3
<1>2. D = [q \in Prefixes |-> MergeStep(D, q)]
  <2> DEFINE E == [q \in Prefixes |-> MergeStep(D, q)]
  <2>1. \A q \in Prefixes : D[q] = E[q]
    BY <1>1
  <2> QED
    BY <2>1
<1>3. \E f : f = [q \in Prefixes |-> MergeStep(f, q)]
  <2> HIDE DEF D
  <2> QED
    BY <1>2
<1>4. FreeMerges = CHOOSE f : f = [q \in Prefixes |-> MergeStep(f, q)]
  BY DEF FreeMerges, MergeStep
<1> QED
  BY <1>3, <1>4, Zenon

LEMMA FreeMergesCount ==
  ASSUME NEW p \in Prefixes
  PROVE  FreeMerges[p] = Cardinality(Mergeable(p))
<1> DEFINE Wrong == {q \in Prefixes : FreeMerges[q] # Cardinality(Mergeable(q))}
<1>1. SUFFICES ASSUME Wrong # {} PROVE FALSE
  OBVIOUS
<1> HIDE DEF Wrong
<1>2. Wrong \subseteq Prefixes
  BY DEF Wrong
<1>3. PICK q \in Wrong : \A r \in Wrong : q \subseteq r => r = q
  BY <1>1, <1>2, LargestPrefix
<1>4. q \in Prefixes /\ FreeMerges[q] # Cardinality(Mergeable(q))
  BY <1>3 DEF Wrong
<1>5. FreeMerges[q] = MergeStep(FreeMerges, q)
  BY <1>4, FreeMergesEquation
<1>6. q # Root
  BY <1>4, <1>5, MergeableRoot, FS_EmptySet DEF MergeStep
<1>7. ~hasAllocatedDescendants(Sibling(q))
  BY <1>4, <1>5, <1>6, MergeableBlocked, FS_EmptySet DEF MergeStep
<1>8. Parent(q) \in Prefixes /\ q \subseteq Parent(q) /\ q # Parent(q)
  BY <1>4, <1>6, SiblingFacts
<1>9. FreeMerges[Parent(q)] = Cardinality(Mergeable(Parent(q)))
  BY <1>3, <1>8 DEF Wrong
<1>10. FreeMerges[q] = 1 + Cardinality(Mergeable(Parent(q)))
  BY <1>5, <1>6, <1>7, <1>9 DEF MergeStep
<1> QED
  BY <1>4, <1>6, <1>7, <1>10, MergeableParent

(* From a free leaf, the merges go exactly as far as the prefixes around   *)
(* it hold no allocation.                                                  *)
LEMMA FreeLeafMerges ==
  ASSUME TypeOK, NEW p \in FindAllFree
  PROVE  Mergeable(p) = {q \in Prefixes : /\ p \subseteq q /\ p # q
                                          /\ ~hasAllocatedDescendants(q)}
<1>1. /\ p \in linked /\ p \in Prefixes /\ linked \subseteq Prefixes
      /\ \A q \in linked : q \subseteq p => q = p
      /\ \A q \in linked : p \subseteq q => owner[q] = None
  BY DEF FindAllFree, Childless, TypeOK
<1>2. ASSUME NEW r \in Mergeable(p), hasAllocatedDescendants(r) PROVE FALSE
  <2>1. /\ r \in Prefixes /\ p \subseteq r /\ p # r
        /\ \A s \in Prefixes : p \subseteq s /\ s \subseteq r /\ s # r =>
             ~hasAllocatedDescendants(Sibling(s))
    BY <1>2 DEF Mergeable
  <2>2. PICK x \in linked : x \subseteq r /\ owner[x] # None
    BY <1>2 DEF hasAllocatedDescendants
  <2>3. x \in Prefixes /\ ~(p \subseteq x) /\ ~(x \subseteq p)
    BY <1>1, <2>2
  <2> DEFINE S == {s \in Prefixes : p \subseteq s /\ ~(x \subseteq s)}
  <2>4. p \in S /\ S \subseteq Prefixes
    BY <1>1, <2>3
  <2> HIDE DEF S
  <2>5. PICK s \in S : \A q \in S : s \subseteq q => q = s
    BY <2>4, LargestPrefix
  <2>6. s \in Prefixes /\ p \subseteq s /\ ~(x \subseteq s)
    BY <2>5 DEF S
  <2>7. p # {}
    BY <1>1, PrefixTree
  <2>8. s \subseteq r /\ s # r
    BY <2>1, <2>2, <2>6, <2>7, PrefixTree DEF Laminar
  <2>9. s # Root
    BY <2>3, <2>6, PrefixTree DEF Root
  <2>10. Parent(s) \in Prefixes /\ s \subseteq Parent(s) /\ s # Parent(s)
    BY <2>6, <2>9, SiblingFacts
  <2>11. x \subseteq Parent(s)
    BY <2>5, <2>6, <2>10 DEF S
  <2>12. x \cap s = {}
    BY <2>3, <2>6, PrefixTree DEF Laminar
  <2>13. x \subseteq Sibling(s)
    BY <2>11, <2>12 DEF Sibling
  <2> QED
    BY <2>1, <2>2, <2>6, <2>8, <2>13 DEF hasAllocatedDescendants
<1>3. ASSUME NEW r \in Prefixes, p \subseteq r, p # r, ~hasAllocatedDescendants(r)
      PROVE  r \in Mergeable(p)
  <2>1. ASSUME NEW s \in Prefixes, p \subseteq s, s \subseteq r, s # r
        PROVE  ~hasAllocatedDescendants(Sibling(s))
    <3>1. s # Root
      BY <1>3, <2>1, PrefixTree DEF Root
    <3>2. Parent(s) \subseteq r
      BY <1>3, <2>1, <3>1, PrefixTree DEF HasParent
    <3>3. Sibling(s) \subseteq r
      BY <3>2 DEF Sibling
    <3> QED
      BY <1>3, <3>3 DEF hasAllocatedDescendants
  <2> QED
    BY <1>3, <2>1 DEF Mergeable
<1>4. \A r \in Mergeable(p) : r \in Prefixes /\ p \subseteq r /\ p # r
  BY DEF Mergeable
<1> QED
  BY <1>2, <1>3, <1>4

(* The depth by which Allocate chooses a leaf is the tenant's real         *)
(* headroom: MaxExpandableDepth, which looks at siblings only, counts the  *)
(* enclosing prefixes in which nothing is allocated.                       *)
THEOREM DepthIsRealHeadroom == Spec => []DepthIsHeadroom
<1>1. TypeOK => DepthIsHeadroom
  <2>1. SUFFICES ASSUME TypeOK, NEW p \in FindAllFree
                 PROVE  MaxExpandableDepth(p) =
                          Cardinality({q \in Prefixes : /\ p \subseteq q /\ p # q
                                                        /\ ~hasAllocatedDescendants(q)})
    BY DEF DepthIsHeadroom
  <2>2. p \in Prefixes
    BY <2>1 DEF FindAllFree, TypeOK
  <2> QED
    BY <2>1, <2>2, FreeMergesCount, FreeLeafMerges DEF MaxExpandableDepth
<1> QED
  BY <1>1, TypeCorrect, PTL

(* Only Reduce leaves a free node behind that is larger than a /30 and has *)
(* no children: merging and releasing, in any order, do not.               *)
THEOREM OnlyReduceLeavesOversized == Spec => OnlyReduceOversizes
<1> DEFINE Reduced == \E t \in Tenants :
             /\ AllocMap[t] # None /\ AllocMap'[t] # None
             /\ AllocMap'[t] # AllocMap[t] /\ AllocMap'[t] \subseteq AllocMap[t]
           Step == Oversized' \subseteq Oversized \/ Reduced
<1>1. ASSUME IInv, NEW id \in Tenants, Allocate(id) PROVE Step
  <2>1. PICK best \in FindAllFree : owner' = [owner EXCEPT ![best] = id]
    BY <1>1 DEF Allocate
  <2>2. linked' = linked
    BY <1>1 DEF Allocate
  <2>3. \A p \in linked : owner'[p] = None => owner[p] = None
    BY <1>1, <2>1, NoneIsNobody DEF IInv, TypeOK
  <2> QED
    BY <2>2, <2>3 DEF Oversized, Childless
<1>2. ASSUME IInv, NEW id \in Tenants, Deallocate(id) PROVE Step
  <2> DEFINE node == AllocMap[id]
  <2>1. /\ owner' = [q \in Prefixes |-> IF q \subseteq node THEN None ELSE owner[q]]
        /\ linked' = linked \cup {q \in Prefixes : q \subseteq node}
    BY <1>2 DEF Deallocate
  <2> HIDE DEF node
  <2>2. ASSUME NEW p \in Oversized' PROVE p \in Oversized
    <3>1. /\ p \in linked' /\ owner'[p] = None /\ ~IsLeaf(p)
          /\ \A q \in linked' : q \subseteq p => q = p
      BY <2>2 DEF Oversized, Childless
    <3>2. p \in Prefixes
      BY <1>2, <2>1, <3>1 DEF IInv, TypeOK
    <3>3. ~(p \subseteq node)
      <4>1. LowerHalf(p) \in Prefixes /\ LowerHalf(p) \subseteq p /\ LowerHalf(p) # p
        BY <3>1, <3>2, SplitFacts
      <4> QED
        BY <2>1, <3>1, <4>1
    <3> QED
      BY <2>1, <3>1, <3>2, <3>3 DEF Oversized, Childless
  <2> QED
    BY <2>2
<1>3. ASSUME IInv, NEW id \in Tenants, Expand(id) PROVE Step
  <2> DEFINE node == AllocMap[id]
             parent == Parent(node)
             sibling == Sibling(node)
  <2>1. /\ node \in Prefixes /\ node # Root
        /\ parent \in Prefixes /\ parent \in linked /\ sibling \in Prefixes
        /\ owner' = [owner EXCEPT ![parent] = id, ![node] = None, ![sibling] = None]
        /\ linked' = {q \in linked : q \subseteq parent => q = parent}
        /\ node # parent /\ sibling # parent
    BY <1>3, ExpandFacts
  <2>2. node \subseteq parent /\ sibling \subseteq parent
    BY <2>1, SiblingFacts
  <2> HIDE DEF node, parent, sibling
  <2>3. owner'[parent] = id
    BY <1>3, <2>1 DEF IInv, TypeOK
  <2>4. ASSUME NEW p \in Oversized' PROVE p \in Oversized
    <3>1. /\ p \in linked' /\ owner'[p] = None /\ ~IsLeaf(p)
          /\ \A q \in linked' : q \subseteq p => q = p
      BY <2>4 DEF Oversized, Childless
    <3>2. p \in Prefixes /\ p \in linked /\ p # parent /\ ~(p \subseteq parent)
      BY <1>3, <2>1, <2>3, <3>1, NoneIsNobody DEF IInv, TypeOK
    <3>3. owner[p] = None
      BY <1>3, <2>1, <2>2, <3>1, <3>2 DEF IInv, TypeOK
    <3>4. ASSUME NEW q \in linked, q \subseteq p PROVE q = p
      <4>1. CASE q \in linked'
        BY <3>1, <3>4, <4>1
      <4>2. CASE q \notin linked'
        <5>1. q \subseteq parent /\ q \in Prefixes
          BY <1>3, <2>1, <4>2 DEF IInv, TypeOK
        <5>2. q # {}
          BY <5>1, PrefixTree
        <5>3. parent \subseteq p
          BY <2>1, <3>2, <3>4, <5>1, <5>2, PrefixTree DEF Laminar
        <5>4. parent \in linked'
          BY <2>1
        <5> QED
          BY <3>1, <3>2, <5>3, <5>4
      <4> QED
        BY <4>1, <4>2
    <3> QED
      BY <3>1, <3>2, <3>3, <3>4 DEF Oversized, Childless
  <2> QED
    BY <2>4
<1>4. ASSUME IInv, NEW id \in Tenants, Reduce(id) PROVE Step
  <2> DEFINE node == AllocMap[id]
             left == LowerHalf(node)
  <2>1. node # None /\ ~IsLeaf(node)
    BY <1>4 DEF Reduce
  <2>2. node \in Prefixes /\ owner[node] = id
    BY <1>4, <2>1 DEF IInv, TypeOK, FlagsMatchMap
  <2>3. AllocMap' = [AllocMap EXCEPT ![id] = left]
    BY <1>4, <2>2 DEF Reduce
  <2>4. left \in Prefixes /\ left \subseteq node /\ left # node
    BY <2>1, <2>2, SplitFacts
  <2> HIDE DEF left
  <2>5. AllocMap'[id] = left
    BY <1>4, <2>3 DEF IInv, TypeOK
  <2>6. Reduced
    BY <2>1, <2>4, <2>5, NoneIsNobody
  <2> QED
    BY <2>6
<1>5. IInv /\ [Next]_vars => [Step]_vars
  BY <1>1, <1>2, <1>3, <1>4 DEF Next
<1> QED
  BY <1>5, InvariantHolds, PTL DEF Spec, OnlyReduceOversizes

-----------------------------------------------------------------------------
(* The trie implements SubnetAllocator.                                    *)

(* What changing one entry of AllocMap does to the abstract ranges.        *)
LEMMA RangeStep ==
  ASSUME TypeOK, NEW id \in Tenants, NEW x \in Prefixes \cup {None},
         AllocMap' = [AllocMap EXCEPT ![id] = x],
         NEW r, r = IF x = None THEN {} ELSE x
  PROVE  [t \in Tenants |-> HeldBy(t)]' = [[t \in Tenants |-> HeldBy(t)] EXCEPT ![id] = r]
<1>1. \A t \in Tenants : AllocMap'[t] = IF t = id THEN x ELSE AllocMap[t]
  BY DEF TypeOK
<1> QED
  BY <1>1 DEF HeldBy

(* A range that is disjoint from every other tenant's avoids their union.  *)
LEMMA AvoidsOthers ==
  ASSUME NEW id \in Tenants, NEW r,
         \A u \in Tenants : u # id => r \cap HeldBy(u) = {}
  PROVE  r \cap Allocator!Others(id) = {}
BY DEF Allocator!Others

(* After a step, Disjoint' keeps the new range away from the other ones.   *)
LEMMA NewRangeAvoidsOthers ==
  ASSUME TypeOK, Disjoint', NEW id \in Tenants, NEW x \in Prefixes,
         AllocMap' = [AllocMap EXCEPT ![id] = x]
  PROVE  x \cap Allocator!Others(id) = {}
<1>1. ASSUME NEW u \in Tenants, u # id PROVE x \cap HeldBy(u) = {}
  <2>1. AllocMap'[u] = AllocMap[u] /\ AllocMap'[id] = x /\ x # None
    BY <1>1, NoneIsNobody DEF TypeOK
  <2> QED
    BY <1>1, <2>1 DEF Disjoint, HeldBy
<1> QED
  BY <1>1, AvoidsOthers

LEMMA StepRefines ==
  ASSUME IInv, Disjoint', Next
  PROVE  Allocator!Next
<1> DEFINE held == [t \in Tenants |-> HeldBy(t)]
<1>t. TypeOK
  BY DEF IInv
<1>1. ASSUME NEW id \in Tenants, Allocate(id) PROVE Allocator!Next
  <2>1. PICK best \in FindAllFree : AllocMap' = [AllocMap EXCEPT ![id] = best]
    BY <1>1 DEF Allocate
  <2>2. best \in Prefixes /\ best # None /\ best # {} /\ best \in SUBSET Blocks
    BY FreeFacts, PrefixTree, NoneIsNobody DEF IInv, TypeOK
  <2>3. held' = [held EXCEPT ![id] = best]
    BY <1>t, <2>1, <2>2, RangeStep
  <2>4. held[id] = {}
    BY <1>1 DEF Allocate, HeldBy
  <2>5. best \cap Allocator!Others(id) = {}
    BY <1>t, <2>1, <2>2, NewRangeAvoidsOthers
  <2>6. Allocator!Grant(id, best)
    BY <2>2, <2>3, <2>4, <2>5 DEF Allocator!Grant
  <2> QED
    BY <2>2, <2>6 DEF Allocator!Next
<1>2. ASSUME NEW id \in Tenants, Deallocate(id) PROVE Allocator!Next
  <2>1. AllocMap' = [AllocMap EXCEPT ![id] = None] /\ AllocMap[id] # None
    BY <1>2 DEF Deallocate
  <2>2. held' = [held EXCEPT ![id] = {}]
    BY <1>t, <2>1, RangeStep
  <2>3. held[id] # {}
    BY <1>t, <2>1, NodeFacts, PrefixTree DEF HeldBy
  <2> QED
    BY <2>2, <2>3 DEF Allocator!Next, Allocator!Free
<1>3. ASSUME NEW id \in Tenants, Expand(id) PROVE Allocator!Next
  <2> DEFINE node == AllocMap[id]
             parent == Parent(node)
  <2>1. /\ node \in Prefixes /\ parent \in Prefixes /\ node \subseteq parent /\ node # parent
        /\ AllocMap' = [AllocMap EXCEPT ![id] = parent]
    BY <1>3, <1>t, NodeFacts, SiblingFacts DEF Expand
  <2>2. held[id] = node
    BY <2>1, NoneIsNobody DEF HeldBy
  <2> HIDE DEF node, parent
  <2>3. parent # None /\ parent \in SUBSET Blocks /\ node # {}
    BY <2>1, PrefixTree, NoneIsNobody
  <2>4. held' = [held EXCEPT ![id] = parent]
    BY <1>t, <2>1, <2>3, RangeStep
  <2>5. parent \cap Allocator!Others(id) = {}
    BY <1>t, <2>1, NewRangeAvoidsOthers
  <2>6. Allocator!Grow(id, parent)
    BY <2>1, <2>2, <2>3, <2>4, <2>5 DEF Allocator!Grow
  <2> QED
    BY <2>3, <2>6 DEF Allocator!Next
<1>4. ASSUME NEW id \in Tenants, Reduce(id) PROVE Allocator!Next
  <2> DEFINE node == AllocMap[id]
             left == LowerHalf(node)
  <2>1. node \in Prefixes /\ ~IsLeaf(node) /\ owner[node] = id
    BY <1>4, <1>t, NodeFacts DEF Reduce, IInv, FlagsMatchMap
  <2>2. /\ left \in Prefixes /\ left \subseteq node /\ left # node /\ left # {}
    BY <2>1, SplitFacts
  <2>3. AllocMap' = [AllocMap EXCEPT ![id] = left]
    BY <1>4, <2>1 DEF Reduce
  <2>4. held[id] = node
    BY <2>1, NoneIsNobody DEF HeldBy
  <2> HIDE DEF node, left
  <2>5. left # None /\ left \in SUBSET Blocks
    BY <2>2, PrefixTree, NoneIsNobody
  <2>6. held' = [held EXCEPT ![id] = left]
    BY <1>t, <2>2, <2>3, <2>5, RangeStep
  <2>7. Allocator!Shrink(id, left)
    BY <2>2, <2>4, <2>6 DEF Allocator!Shrink
  <2> QED
    BY <2>5, <2>7 DEF Allocator!Next
<1> QED
  BY <1>1, <1>2, <1>3, <1>4 DEF Next

(* Every behaviour of the trie is one of the abstract allocator: a grant,  *)
(* a growth, a reduction or a release of one tenant's blocks that never    *)
(* touches a block of another tenant.                                      *)
THEOREM TrieImplementsAllocator == Spec => ImplementsAllocator
<1>1. Init => Allocator!Init
  BY DEF Init, Allocator!Init, HeldBy
<1>2. IInv /\ Disjoint' /\ [Next]_vars => [Allocator!Next]_[t \in Tenants |-> HeldBy(t)]
  <2>1. ASSUME IInv, Disjoint', Next PROVE Allocator!Next
    BY <2>1, StepRefines
  <2>2. UNCHANGED vars => UNCHANGED [t \in Tenants |-> HeldBy(t)]
    BY DEF vars, HeldBy
  <2> QED
    BY <2>1, <2>2
<1> QED
  BY <1>1, <1>2, InvariantHolds, TenantIsolation, PTL
  DEF Spec, ImplementsAllocator, Allocator!Spec
==============================================================================
