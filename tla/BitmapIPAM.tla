------------------------------ MODULE BitmapIPAM ------------------------------
(***************************************************************************)
(* The per-tenant address allocator: pkg/network/ipam/bitmap_ipam.go.      *)
(*                                                                         *)
(* An address is an integer.  A network is [base, total]: the network      *)
(* address and the number of addresses.  base is the VTEP's, base + 1 the  *)
(* bridge's and base + total - 1 the broadcast address; the rest are pod   *)
(* addresses, numbered from 0 in the bitmap.  The bitmap is the set of its *)
(* one bits.  Methods run under ipam.mu: each is one atomic step.  The     *)
(* operators below act on a whole IPAM value, so that NetworkManager can   *)
(* keep one per tenant; the state machine has a single one.                *)
(***************************************************************************)
EXTENDS Integers

CONSTANTS
  PodKeys,   \* "namespace/pod" keys of the IPs map
  Networks,  \* the subnets an IPAM may be created with or expanded to
  NoIP       \* no entry in IPs

Network == [base : Int, total : Int]

(* NewBitmapIPAM refuses a subnet of fewer than four addresses.            *)
ASSUME NetworksAssumption ==
  /\ Networks \subseteq Network
  /\ \A n \in Networks : n.total >= 4

ASSUME NoIPAssumption == NoIP \notin Int

-----------------------------------------------------------------------------
(* Faulty variant: the broadcast address is not excluded.                  *)
CapacityWithBroadcast(n) == n.total - 2

(* capacityLocked: all but the network, bridge and broadcast addresses.    *)
Capacity(n) == IF n.total - 2 <= 1 THEN 0 ELSE n.total - 3

(* Faulty variant: numbered from the bridge's address.                     *)
indexFromBridge(n, idx) == n.base + 1 + idx

indexToIP(n, idx) == n.base + 2 + idx

(* Faulty variant: numbered from the bridge's address.                     *)
indexOfBridge(n, ip) ==
  LET offset == ip - n.base
  IN IF offset < 2 \/ offset >= n.total - 1 THEN -1 ELSE offset - 1

(* ipToIndex, -1 outside the pod range.  base is aligned to total, so the  *)
(* byte-wise difference of ipv4Diff is ip - base inside the network and    *)
(* negative or too large outside.                                          *)
ipToIndex(n, ip) ==
  LET offset == ip - n.base
  IN IF offset < 2 \/ offset >= n.total - 1 THEN -1 ELSE offset - 2

cidrContains(outer, inner) ==
  /\ outer.base <= inner.base
  /\ inner.base + inner.total <= outer.base + outer.total

-----------------------------------------------------------------------------
(* The methods, as functions from an IPAM value to an IPAM value.          *)
NewBitmapIPAM(n) == [Network |-> n, bitmap |-> {}, IPs |-> [k \in PodKeys |-> NoIP]]

FreeIndices(m) == (0 .. Capacity(m.Network) - 1) \ m.bitmap

(* The first zero bit of the bitmap below the capacity.                    *)
FirstFree(m, idx) == idx \in FreeIndices(m) /\ \A i \in FreeIndices(m) : idx <= i

(* Faulty variant: the bit is not set.                                     *)
TakeUnmarked(m, key, idx) ==
  [m EXCEPT !.IPs[key] = indexToIP(m.Network, idx)]

(* Allocate sets bit idx and overwrites the pod's entry, if it has one.    *)
Take(m, key, idx) ==
  [m EXCEPT !.bitmap = @ \cup {idx},
            !.IPs[key] = indexToIP(m.Network, idx)]

(* Faulty variant: the bit is kept.                                        *)
ReleaseEntryOnly(m, ip) ==
  [m EXCEPT !.IPs = [k \in PodKeys |-> IF @[k] = ip THEN NoIP ELSE @[k]]]

(* Free clears the bit and deletes the entry that holds the address.       *)
Release(m, ip) ==
  [m EXCEPT !.bitmap = @ \ {ipToIndex(m.Network, ip)},
            !.IPs = [k \in PodKeys |-> IF @[k] = ip THEN NoIP ELSE @[k]]]

Held(m) == {k \in PodKeys : m.IPs[k] # NoIP}

(* The conditions under which Expand returns nil: the new subnet includes  *)
(* the old one and has room for every address in IPs.                      *)
CanRebase(m, n) ==
  /\ cidrContains(n, m.Network)
  /\ \A k \in Held(m) : ipToIndex(n, m.IPs[k]) >= 0

(* Expand moves to the new network and rebuilds the bitmap from IPs.       *)
Rebase(m, n) ==
  [m EXCEPT !.Network = n,
            !.bitmap = {ipToIndex(n, m.IPs[k]) : k \in Held(m)}]

-----------------------------------------------------------------------------
VARIABLE ipam

Init == \E n \in Networks : ipam = NewBitmapIPAM(n)

Allocate(key) ==
  \E idx \in FreeIndices(ipam) : FirstFree(ipam, idx) /\ ipam' = Take(ipam, key, idx)

(* Any address of a known network; out of range is an error.               *)
Free(ip) ==
  /\ ipToIndex(ipam.Network, ip) >= 0
  /\ ipam' = Release(ipam, ip)

Expand(n) == CanRebase(ipam, n) /\ ipam' = Rebase(ipam, n)

Addresses == UNION {n.base .. (n.base + n.total - 1) : n \in Networks}

Next ==
  \/ \E key \in PodKeys : Allocate(key)
  \/ \E ip \in Addresses : Free(ip)
  \/ \E n \in Networks : Expand(n)

Spec == Init /\ [][Next]_ipam

-----------------------------------------------------------------------------
(* Type correctness; the bitmap never has a bit beyond the capacity, the   *)
(* case the code calls "sanity check, should not happen".                  *)
TypeOK ==
  /\ ipam \in [Network : Networks, bitmap : SUBSET Int, IPs : [PodKeys -> Int \cup {NoIP}]]
  /\ ipam.bitmap \subseteq 0 .. Capacity(ipam.Network) - 1

(* No two pods hold the same address, over any mixture of Allocate, Free   *)
(* and Expand calls.                                                       *)
AddressesUnique ==
  \A j, k \in Held(ipam) : ipam.IPs[j] = ipam.IPs[k] => j = k

(* No pod holds the VTEP, bridge or broadcast address of the network as it *)
(* is now, nor an address outside it, although the entry may date from a   *)
(* smaller network with other reserved addresses.                          *)
InPodRange ==
  \A k \in Held(ipam) :
    /\ ipam.IPs[k] >= ipam.Network.base + 2
    /\ ipam.IPs[k] <= ipam.Network.base + ipam.Network.total - 2

(* An entry's bit is set, so that Allocate passes over it.                 *)
Marked == \A k \in Held(ipam) : ipToIndex(ipam.Network, ipam.IPs[k]) \in ipam.bitmap

(* The error paths of Expand that restore the old network ("existing IP    *)
(* not in expanded subnet", "bitmap index overflow") are unreachable: once *)
(* the subnet contains the old one, Expand succeeds.                       *)
ExpandSucceeds ==
  \A n \in Networks : cidrContains(n, ipam.Network) => CanRebase(ipam, n)

(* Bits of no pod: addresses that cannot be allocated.                     *)
Leaked == ipam.bitmap \ {ipToIndex(ipam.Network, ipam.IPs[k]) : k \in Held(ipam)}

(* Addresses leak in one way only, an Allocate for a pod that has one,     *)
(* whose entry it overwrites; neither Free nor an Expand that moves every  *)
(* index loses any.                                                        *)
OnlyRepeatLeaks ==
  [][\/ Leaked' \subseteq Leaked
     \/ \E k \in Held(ipam) : ipam'.IPs[k] \notin {ipam.IPs[k], NoIP}]_ipam

IInv == TypeOK /\ AddressesUnique /\ InPodRange /\ Marked
==============================================================================
