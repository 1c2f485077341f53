--------------------------- MODULE BitmapIPAMProofs ---------------------------
(***************************************************************************)
(* Theorems about BitmapIPAM, for every set of pods and every set of       *)
(* networks of at least four addresses.                                    *)
(***************************************************************************)
EXTENDS BitmapIPAM, TLAPS

(* The shape of an IPAM value.                                             *)
IPAMType ==
  [Network : Networks, bitmap : SUBSET Int, IPs : [PodKeys -> Int \cup {NoIP}]]

(* A network has at least one pod address, and integers for bounds.        *)
LEMMA NetworkFacts ==
  ASSUME NEW n \in Networks
  PROVE  /\ n.base \in Int /\ n.total \in Int /\ n.total >= 4
         /\ Capacity(n) = n.total - 3
<1>1. n.base \in Int /\ n.total \in Int /\ n.total >= 4
  BY NetworksAssumption DEF Network
<1> QED
  BY <1>1 DEF Capacity

(* indexToIP and ipToIndex are inverse of each other on the pod range.     *)
LEMMA IndexRoundTrip ==
  ASSUME NEW n \in Networks, NEW idx \in 0 .. Capacity(n) - 1
  PROVE  /\ indexToIP(n, idx) \in Int
         /\ ipToIndex(n, indexToIP(n, idx)) = idx
         /\ indexToIP(n, idx) >= n.base + 2
         /\ indexToIP(n, idx) <= n.base + n.total - 2
BY NetworkFacts DEF indexToIP, ipToIndex

(* ipToIndex numbers the pod range from 0 to the capacity.                 *)
LEMMA IndexOfPodAddress ==
  ASSUME NEW n \in Networks, NEW ip \in Int,
         ip >= n.base + 2, ip <= n.base + n.total - 2
  PROVE  /\ ipToIndex(n, ip) \in 0 .. Capacity(n) - 1
         /\ ip = indexToIP(n, ipToIndex(n, ip))
BY NetworkFacts DEF indexToIP, ipToIndex

(* An address that has an index lies in the pod range.                     *)
LEMMA IndexedIsPodAddress ==
  ASSUME NEW n \in Networks, NEW ip \in Int, ipToIndex(n, ip) >= 0
  PROVE  ip >= n.base + 2 /\ ip <= n.base + n.total - 2
BY NetworkFacts DEF ipToIndex

(* The pod range of a network lies in the pod range of a larger one.       *)
LEMMA PodRangeGrows ==
  ASSUME NEW n \in Networks, NEW m \in Networks, cidrContains(m, n),
         NEW ip \in Int, ip >= n.base + 2, ip <= n.base + n.total - 2
  PROVE  ip >= m.base + 2 /\ ip <= m.base + m.total - 2
BY NetworkFacts DEF cidrContains

-----------------------------------------------------------------------------
(* What the invariant says of one held address.                            *)
LEMMA HeldFacts ==
  ASSUME IInv, NEW k \in Held(ipam)
  PROVE  /\ k \in PodKeys /\ ipam.IPs[k] \in Int /\ ipam.Network \in Networks
         /\ ipam.IPs[k] >= ipam.Network.base + 2
         /\ ipam.IPs[k] <= ipam.Network.base + ipam.Network.total - 2
         /\ ipToIndex(ipam.Network, ipam.IPs[k]) \in ipam.bitmap
BY DEF IInv, TypeOK, InPodRange, Marked, Held

LEMMA AllocateInv ==
  ASSUME IInv, NEW key \in PodKeys, Allocate(key)
  PROVE  IInv'
<1> DEFINE n == ipam.Network
<1>1. PICK idx \in FreeIndices(ipam) : ipam' = Take(ipam, key, idx)
  BY DEF Allocate
<1>2. /\ ipam \in IPAMType /\ n \in Networks
      /\ ipam.bitmap \subseteq 0 .. Capacity(n) - 1
  BY DEF IInv, TypeOK, IPAMType
<1>3. idx \in 0 .. Capacity(n) - 1 /\ idx \notin ipam.bitmap
  BY <1>1 DEF FreeIndices
<1>4. /\ ipam'.Network = n
      /\ ipam'.bitmap = ipam.bitmap \cup {idx}
      /\ ipam'.IPs = [ipam.IPs EXCEPT ![key] = indexToIP(n, idx)]
      /\ ipam' = [Network |-> n, bitmap |-> ipam'.bitmap, IPs |-> ipam'.IPs]
  BY <1>1, <1>2 DEF Take, IPAMType
<1>5. /\ indexToIP(n, idx) \in Int /\ ipToIndex(n, indexToIP(n, idx)) = idx
      /\ indexToIP(n, idx) >= n.base + 2 /\ indexToIP(n, idx) <= n.base + n.total - 2
  BY <1>2, <1>3, IndexRoundTrip
<1>6. ASSUME NEW k \in Held(ipam)'
      PROVE  \/ k = key /\ ipam'.IPs[k] = indexToIP(n, idx)
             \/ k # key /\ k \in Held(ipam) /\ ipam'.IPs[k] = ipam.IPs[k]
  BY <1>2, <1>4, <1>6 DEF Held, IPAMType
<1> HIDE DEF n
<1>7. TypeOK'
  <2>1. ipam'.IPs \in [PodKeys -> Int \cup {NoIP}] /\ ipam'.bitmap \in SUBSET Int
    BY <1>2, <1>3, <1>4, <1>5 DEF IPAMType
  <2>2. ipam'.bitmap \subseteq 0 .. Capacity(n) - 1
    BY <1>2, <1>3, <1>4
  <2> QED
    BY <1>2, <1>4, <2>1, <2>2 DEF TypeOK
<1>8. \A k \in Held(ipam) : /\ ipToIndex(n, ipam.IPs[k]) \in ipam.bitmap
                            /\ ipam.IPs[k] >= n.base + 2
                            /\ ipam.IPs[k] <= n.base + n.total - 2
  BY HeldFacts DEF n
<1>9. AddressesUnique'
  <2>1. SUFFICES ASSUME NEW j \in Held(ipam)', NEW k \in Held(ipam)',
                        ipam'.IPs[j] = ipam'.IPs[k]
                 PROVE  j = k
    BY DEF AddressesUnique
  <2>2. \A i \in Held(ipam) : ipam.IPs[i] # indexToIP(n, idx)
    BY <1>3, <1>5, <1>8
  <2>3. \A i, l \in Held(ipam) : ipam.IPs[i] = ipam.IPs[l] => i = l
    BY DEF IInv, AddressesUnique
  <2> QED
    BY <1>6, <2>1, <2>2, <2>3
<1>10. InPodRange' /\ Marked'
  BY <1>4, <1>5, <1>6, <1>8 DEF InPodRange, Marked
<1> QED
  BY <1>7, <1>9, <1>10 DEF IInv

LEMMA FreeInv ==
  ASSUME IInv, NEW ip \in Int, Free(ip)
  PROVE  IInv'
<1> DEFINE n == ipam.Network
           idx == ipToIndex(n, ip)
<1>1. ipam' = Release(ipam, ip) /\ idx >= 0
  BY DEF Free
<1>2. /\ ipam \in IPAMType /\ n \in Networks
      /\ ipam.bitmap \subseteq 0 .. Capacity(n) - 1
  BY DEF IInv, TypeOK, IPAMType
<1>3. /\ ipam'.Network = n
      /\ ipam'.bitmap = ipam.bitmap \ {idx}
      /\ ipam'.IPs = [k \in PodKeys |-> IF ipam.IPs[k] = ip THEN NoIP ELSE ipam.IPs[k]]
      /\ ipam' = [Network |-> n, bitmap |-> ipam'.bitmap, IPs |-> ipam'.IPs]
  BY <1>1, <1>2 DEF Release, IPAMType
<1>4. ASSUME NEW k \in Held(ipam)'
      PROVE  k \in Held(ipam) /\ ipam'.IPs[k] = ipam.IPs[k] /\ ipam.IPs[k] # ip
  BY <1>2, <1>3, <1>4 DEF Held, IPAMType
<1>5. TypeOK'
  BY <1>2, <1>3 DEF TypeOK, IPAMType
<1>6. \A k \in Held(ipam) : /\ ipToIndex(n, ipam.IPs[k]) \in ipam.bitmap
                            /\ ipam.IPs[k] \in Int
                            /\ ipam.IPs[k] >= n.base + 2
                            /\ ipam.IPs[k] <= n.base + n.total - 2
  BY HeldFacts
<1>7. AddressesUnique' /\ InPodRange'
  BY <1>3, <1>4, <1>6 DEF IInv, AddressesUnique, InPodRange
<1>8. Marked'
  <2>1. SUFFICES ASSUME NEW k \in Held(ipam)'
                 PROVE  ipToIndex(n, ipam.IPs[k]) \in ipam.bitmap \ {idx}
    BY <1>3, <1>4 DEF Marked
  <2>2. k \in Held(ipam) /\ ipam.IPs[k] # ip
    BY <1>4
  <2>3. ip >= n.base + 2 /\ ip <= n.base + n.total - 2
    BY <1>1, <1>2, IndexedIsPodAddress
  <2>4. ip = indexToIP(n, idx) /\ ipam.IPs[k] = indexToIP(n, ipToIndex(n, ipam.IPs[k]))
    BY <1>2, <1>6, <2>2, <2>3, IndexOfPodAddress
  <2> QED
    BY <1>6, <2>2, <2>4
<1> QED
  BY <1>5, <1>7, <1>8 DEF IInv

(* Expand finds an index for every address it has to carry over.           *)
LEMMA InvExpandSucceeds == IInv => ExpandSucceeds
<1>1. SUFFICES ASSUME IInv, NEW n \in Networks, cidrContains(n, ipam.Network),
                      NEW k \in Held(ipam)
               PROVE  ipToIndex(n, ipam.IPs[k]) >= 0
  BY DEF ExpandSucceeds, CanRebase
<1>2. ipam.IPs[k] >= n.base + 2 /\ ipam.IPs[k] <= n.base + n.total - 2
  BY <1>1, HeldFacts, PodRangeGrows
<1> QED
  BY <1>1, <1>2, HeldFacts, IndexOfPodAddress, NetworkFacts

LEMMA ExpandInv ==
  ASSUME IInv, NEW n \in Networks, Expand(n)
  PROVE  IInv'
<1>1. ipam' = Rebase(ipam, n) /\ cidrContains(n, ipam.Network)
  BY DEF Expand, CanRebase
<1>2. ipam \in IPAMType
  BY DEF IInv, TypeOK, IPAMType
<1>3. /\ ipam'.Network = n
      /\ ipam'.bitmap = {ipToIndex(n, ipam.IPs[k]) : k \in Held(ipam)}
      /\ ipam'.IPs = ipam.IPs
      /\ ipam' = [Network |-> n, bitmap |-> ipam'.bitmap, IPs |-> ipam'.IPs]
  BY <1>1, <1>2 DEF Rebase, IPAMType
<1>4. Held(ipam)' = Held(ipam)
  BY <1>3 DEF Held
<1>5. ASSUME NEW k \in Held(ipam)
      PROVE  /\ ipam.IPs[k] >= n.base + 2 /\ ipam.IPs[k] <= n.base + n.total - 2
             /\ ipToIndex(n, ipam.IPs[k]) \in 0 .. Capacity(n) - 1
  <2>1. ipam.IPs[k] >= n.base + 2 /\ ipam.IPs[k] <= n.base + n.total - 2
    BY <1>1, <1>5, HeldFacts, PodRangeGrows
  <2> QED
    BY <1>5, <2>1, HeldFacts, IndexOfPodAddress
<1>6. TypeOK'
  <2>1. ipam'.bitmap \subseteq 0 .. Capacity(n) - 1
    BY <1>3, <1>5
  <2>2. ipam'.bitmap \in SUBSET Int
    BY <2>1, NetworkFacts
  <2> QED
    BY <1>2, <1>3, <2>1, <2>2 DEF TypeOK, IPAMType
<1>7. AddressesUnique'
  BY <1>3, <1>4 DEF IInv, AddressesUnique
<1>8. InPodRange' /\ Marked'
  BY <1>3, <1>4, <1>5 DEF InPodRange, Marked
<1> QED
  BY <1>6, <1>7, <1>8 DEF IInv

LEMMA InitInv == Init => IInv
<1>1. SUFFICES ASSUME NEW n \in Networks, ipam = NewBitmapIPAM(n) PROVE IInv
  BY DEF Init
<1>2. Held(ipam) = {}
  BY <1>1 DEF Held, NewBitmapIPAM
<1>3. TypeOK
  BY <1>1 DEF TypeOK, NewBitmapIPAM
<1> QED
  BY <1>2, <1>3 DEF IInv, AddressesUnique, InPodRange, Marked

(* The environment frees integers only.                                    *)
LEMMA AddressesAreIntegers == \A ip \in Addresses : ip \in Int
BY NetworkFacts DEF Addresses

LEMMA NextInv == IInv /\ [Next]_ipam => IInv'
<1>1. ASSUME IInv, Next PROVE IInv'
  BY <1>1, AllocateInv, FreeInv, ExpandInv, AddressesAreIntegers DEF Next
<1>2. IInv /\ UNCHANGED ipam => IInv'
  BY DEF IInv, TypeOK, AddressesUnique, InPodRange, Marked, Held
<1> QED
  BY <1>1, <1>2

(* The inductive invariant holds of every sequence of calls.               *)
THEOREM InvariantHolds == Spec => []IInv
BY InitInv, NextInv, PTL DEF Spec

(* The fields keep their types and no bit beyond the capacity is set.      *)
THEOREM TypeCorrect == Spec => []TypeOK
<1>1. IInv => TypeOK
  BY DEF IInv
<1> QED
  BY <1>1, InvariantHolds, PTL

(* Two pods of a tenant never hold the same address.                       *)
THEOREM UniqueAddresses == Spec => []AddressesUnique
<1>1. IInv => AddressesUnique
  BY DEF IInv
<1> QED
  BY <1>1, InvariantHolds, PTL

(* A pod never holds the VTEP, bridge or broadcast address of the current  *)
(* network, however often the network was expanded.                        *)
THEOREM PodsInRange == Spec => []InPodRange
<1>1. IInv => InPodRange
  BY DEF IInv
<1> QED
  BY <1>1, InvariantHolds, PTL

(* The error returns of Expand that restore the old network are dead code. *)
THEOREM ExpandAlwaysSucceeds == Spec => []ExpandSucceeds
BY InvariantHolds, InvExpandSucceeds, PTL

(* The only leak is that of a second Allocate for a pod that has an        *)
(* address already, for every sequence of calls.                           *)
THEOREM OnlyRepeatedAllocateLeaks == Spec => OnlyRepeatLeaks
<1> DEFINE Repeated == \E k \in Held(ipam) : ipam'.IPs[k] \notin {ipam.IPs[k], NoIP}
           Step == Leaked' \subseteq Leaked \/ Repeated
<1>1. ASSUME IInv, NEW key \in PodKeys, Allocate(key) PROVE Step
  <2> DEFINE n == ipam.Network
  <2>1. PICK idx \in FreeIndices(ipam) : ipam' = Take(ipam, key, idx)
    BY <1>1 DEF Allocate
  <2>2. ipam \in IPAMType /\ n \in Networks
    BY <1>1 DEF IInv, TypeOK, IPAMType
  <2>3. idx \in 0 .. Capacity(n) - 1 /\ idx \notin ipam.bitmap
    BY <2>1 DEF FreeIndices
  <2>4. /\ ipam'.Network = n
        /\ ipam'.bitmap = ipam.bitmap \cup {idx}
        /\ ipam'.IPs = [ipam.IPs EXCEPT ![key] = indexToIP(n, idx)]
    BY <2>1, <2>2 DEF Take, IPAMType
  <2>5. indexToIP(n, idx) \in Int /\ ipToIndex(n, indexToIP(n, idx)) = idx
    BY <2>2, <2>3, IndexRoundTrip
  <2> HIDE DEF n
  <2>6. /\ ipam'.IPs[key] = indexToIP(n, idx) /\ ipam'.IPs[key] # NoIP
        /\ \A k \in PodKeys : k # key => ipam'.IPs[k] = ipam.IPs[k]
    BY <2>2, <2>4, <2>5, NoIPAssumption DEF IPAMType
  <2>7. CASE key \in Held(ipam)
    <3>1. ipToIndex(n, ipam.IPs[key]) \in ipam.bitmap
      BY <1>1, <2>7, HeldFacts DEF n
    <3>2. ipam'.IPs[key] # ipam.IPs[key]
      BY <2>3, <2>5, <2>6, <3>1
    <3> QED
      BY <2>6, <2>7, <3>2
  <2>8. CASE key \notin Held(ipam)
    <3>1. ASSUME NEW i \in Leaked' PROVE i \in Leaked
      <4>1. /\ i \in ipam.bitmap \cup {idx}
            /\ \A k \in PodKeys : ipam'.IPs[k] # NoIP => ipToIndex(n, ipam'.IPs[k]) # i
        BY <2>4, <3>1 DEF Leaked, Held
      <4>2. i # idx
        BY <2>5, <2>6, <4>1
      <4>3. ASSUME NEW k \in Held(ipam) PROVE ipToIndex(n, ipam.IPs[k]) # i
        <5>1. k \in PodKeys /\ k # key /\ ipam.IPs[k] # NoIP
          BY <2>8, <4>3 DEF Held
        <5> QED
          BY <2>6, <4>1, <5>1
      <4> QED
        BY <4>1, <4>2, <4>3 DEF Leaked, n
    <3> QED
      BY <3>1
  <2> QED
    BY <2>7, <2>8
<1>2. ASSUME IInv, NEW ip \in Int, Free(ip) PROVE Step
  <2> DEFINE n == ipam.Network
             idx == ipToIndex(n, ip)
  <2>1. ipam' = Release(ipam, ip)
    BY <1>2 DEF Free
  <2>2. ipam \in IPAMType
    BY <1>2 DEF IInv, TypeOK, IPAMType
  <2>3. /\ ipam'.Network = n
        /\ ipam'.bitmap = ipam.bitmap \ {idx}
        /\ ipam'.IPs = [k \in PodKeys |-> IF ipam.IPs[k] = ip THEN NoIP ELSE ipam.IPs[k]]
    BY <2>1, <2>2 DEF Release, IPAMType
  <2>4. ASSUME NEW i \in Leaked' PROVE i \in Leaked
    <3>1. /\ i \in ipam.bitmap /\ i # idx
          /\ \A k \in PodKeys : ipam'.IPs[k] # NoIP => ipToIndex(n, ipam'.IPs[k]) # i
      BY <2>3, <2>4 DEF Leaked, Held
    <3>2. ASSUME NEW k \in Held(ipam) PROVE ipToIndex(n, ipam.IPs[k]) # i
      <4>1. k \in PodKeys /\ ipam.IPs[k] # NoIP
        BY <3>2 DEF Held
      <4>2. CASE ipam.IPs[k] = ip
        BY <3>1, <4>2
      <4>3. CASE ipam.IPs[k] # ip
        <5>1. ipam'.IPs[k] = ipam.IPs[k]
          BY <2>3, <4>1, <4>3
        <5> QED
          BY <3>1, <4>1, <5>1
      <4> QED
        BY <4>2, <4>3
    <3> QED
      BY <3>1, <3>2 DEF Leaked
  <2> QED
    BY <2>4
<1>3. ASSUME IInv, NEW n \in Networks, Expand(n) PROVE Step
  <2>1. ipam' = Rebase(ipam, n) /\ ipam \in IPAMType
    BY <1>3 DEF Expand, IInv, TypeOK, IPAMType
  <2>2. /\ ipam'.Network = n
        /\ ipam'.bitmap = {ipToIndex(n, ipam.IPs[k]) : k \in Held(ipam)}
        /\ ipam'.IPs = ipam.IPs
    BY <2>1 DEF Rebase, IPAMType
  <2>3. Leaked' = {}
    BY <2>2 DEF Leaked, Held
  <2> QED
    BY <2>3
<1>4. IInv /\ [Next]_ipam => [Step]_ipam
  BY <1>1, <1>2, <1>3, AddressesAreIntegers DEF Next
<1> QED
  BY <1>4, InvariantHolds, PTL DEF Spec, OnlyRepeatLeaks
==============================================================================
