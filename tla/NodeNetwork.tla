----------------------------- MODULE NodeNetwork -----------------------------
(***************************************************************************)
(* What a node promises about addresses, with no records, actors, bitmaps  *)
(* or trie in sight.  A tenant holds blocks that no other tenant holds.  A *)
(* pod gets an address in the blocks of its tenant that no other pod has,  *)
(* and keeps it as long as it is attached.  Blocks are given back only     *)
(* when no pod of the tenant is attached.  NetworkManager implements it.   *)
(***************************************************************************)
EXTENDS Integers

CONSTANTS
  Tenants, Blocks,  \* as in SubnetAllocator
  Pods,             \* pairs of a tenant and a key
  None              \* no address

VARIABLES
  held,  \* held[t]: the blocks of tenant t
  addr   \* addr[p]: the address of pod p, None when it is not attached

vars == <<held, addr>>

Ranges == INSTANCE SubnetAllocator

(* The addresses of a set of blocks, four in each.                         *)
AddressesIn(r) == {4 * b + i : b \in r, i \in 0 .. 3}

Init == Ranges!Init /\ addr = [p \in Pods |-> None]

(* A tenant is given blocks, or more of them.                              *)
Extend(t, r) ==
  /\ Ranges!Grant(t, r) \/ Ranges!Grow(t, r)
  /\ UNCHANGED addr

(* A tenant without attached pods gives its blocks back.                   *)
Vacate(t) ==
  /\ \A p \in Pods : p[1] = t => addr[p] = None
  /\ Ranges!Free(t)
  /\ UNCHANGED addr

Attach(p, a) ==
  /\ addr[p] = None
  /\ a \in AddressesIn(held[p[1]])
  /\ \A q \in Pods : addr[q] # a
  /\ addr' = [addr EXCEPT ![p] = a]
  /\ UNCHANGED held

(* The pods in S, one or all of a tenant, lose their interfaces.           *)
Detach(S) ==
  /\ addr' = [p \in Pods |-> IF p \in S THEN None ELSE addr[p]]
  /\ UNCHANGED held

Next ==
  \/ \E t \in Tenants : Vacate(t) \/ \E r \in SUBSET Blocks : Extend(t, r)
  \/ \E p \in Pods : \E a \in AddressesIn(Blocks) : Attach(p, a)
  \/ \E p \in Pods : Detach({p}) \/ Detach({q \in Pods : q[1] = p[1]})

Spec == Init /\ [][Next]_vars
==============================================================================
