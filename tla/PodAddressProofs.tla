--------------------------- MODULE PodAddressProofs ---------------------------
(***************************************************************************)
(* Theorems about NetworkManager, continued: the tenants' pools of         *)
(* addresses, the trie, and the addresses of the pods.                     *)
(***************************************************************************)
EXTENDS NetworkManagerProofs

-----------------------------------------------------------------------------
(* The pools.                                                              *)

(* Every recorded address is one of the network's pod addresses and marked *)
(* in the bitmap, and no two pods have the same.                           *)
IPAMOK(m) ==
  /\ \A k \in PodKeys : m.IPs[k] # None =>
       /\ m.IPs[k] - m.Network.base - 2 \in 0 .. m.Network.total - 4
       /\ m.IPs[k] - m.Network.base - 2 \in m.bitmap
  /\ \A j, k \in PodKeys : m.IPs[j] # None /\ m.IPs[j] = m.IPs[k] => j = k

Free(m) == (0 .. m.Network.total - 4) \ m.bitmap

(* An actor asks for an expansion only when nothing is free, and after     *)
(* IPAM.Expand something is; the gateway lies outside the record's subnet  *)
(* only while nothing is free or the record is still to follow.            *)
PoolOK(a, r) ==
  /\ IPAMOK(r.IPAM)
  /\ a.pc \in {"lookup", "veth"} => r.IPAM.IPs[a.pod] = a.ip
  /\ a.pc \in Requesting \ {"record", "reconcile"} => Free(r.IPAM) = {}
  /\ a.pc \in {"record", "reconcile"} \/ (a.pc = "ensure" /\ a.attempt > 0) => Free(r.IPAM) # {}
  /\ a.pc \in Requesting => a.attempt = 0
  /\ a.pc \in {"vtep", "ipam", "record"} => r.BridgeIP = FirstIP(a.net)
  /\ \/ Contains(r.Subnet, r.BridgeIP)
     \/ Free(r.IPAM) = {} /\ a.pc \notin {"lookup", "veth"}
     \/ a.pc = "record"

PInv == \A t \in TenantRecords : PoolOK(actor[t], rec[t])

LEMMA FreeIsFree ==
  ASSUME NEW t, NEW m \in IPAMs
  PROVE  IPAM(t)!FreeIndices(m) = Free(m)
<1>1. PICK p \in Prefixes : m.Network = Net(p)
  BY DEF IPAMs
<1>2. IPAM(t)!Capacity(m.Network) = Net(p).total - 3
  BY <1>1, CapacityOfNet
<1>3. Net(p).total - 3 - 1 = Net(p).total - 4
  BY NetFacts
<1> QED
  BY <1>1, <1>2, <1>3 DEF IPAM!FreeIndices, Free

(* The numbers of an IPAM.                                                 *)
LEMMA IPAMNumbers ==
  ASSUME NEW m \in IPAMs
  PROVE  /\ m.Network.base \in Int /\ m.Network.total \in Int /\ m.Network.total >= 4
         /\ m.bitmap \subseteq Nat
         /\ \A k \in PodKeys : m.IPs[k] # None => m.IPs[k] \in Int
<1>1. PICK p \in Prefixes : m.Network = Net(p)
  BY DEF IPAMs
<1>2. ASSUME NEW k \in PodKeys, m.IPs[k] # None PROVE m.IPs[k] \in Int
  BY <1>2, AddressesAreIntegers DEF IPAMs, OrNone
<1>3. m.bitmap \subseteq Nat
  BY DEF IPAMs
<1> QED
  BY <1>1, <1>2, <1>3, NetFacts

(* IPAM.Allocate: the new address is nobody else's.                        *)
LEMMA TakeOK ==
  ASSUME NEW m \in IPAMs, NEW x \in IPAMs, NEW k \in PodKeys, NEW idx, NEW ip \in Int,
         IPAMOK(m), IsTaken(m, x, k, idx, ip)
  PROVE  IPAMOK(x) /\ x.IPs[k] = ip /\ Free(m) # {}
<1>1. /\ x.Network = m.Network /\ x.bitmap = m.bitmap \cup {idx}
      /\ ip = m.Network.base + 2 + idx
      /\ idx \in 0 .. m.Network.total - 4 /\ idx \notin m.bitmap
  BY DEF IsTaken
<1>2. x.IPs = [m.IPs EXCEPT ![k] = ip] /\ m.IPs \in [PodKeys -> OrNone(Addresses)]
  BY DEF IsTaken, IPAMs
<1>3. x.IPs[k] = ip /\ \A j \in PodKeys : j # k => x.IPs[j] = m.IPs[j]
  BY <1>2
<1>4. /\ m.Network.base \in Int /\ m.Network.total \in Int
      /\ \A j \in PodKeys : m.IPs[j] # None => m.IPs[j] \in Int
  BY IPAMNumbers
<1>5. ip - m.Network.base - 2 = idx
  BY <1>1, <1>4
<1>6. ASSUME NEW j \in PodKeys, x.IPs[j] # None
      PROVE  /\ x.IPs[j] - x.Network.base - 2 \in 0 .. x.Network.total - 4
             /\ x.IPs[j] - x.Network.base - 2 \in x.bitmap
             /\ j # k => x.IPs[j] # ip
  BY <1>1, <1>3, <1>5, <1>6 DEF IPAMOK
<1>7. ASSUME NEW i \in PodKeys, NEW j \in PodKeys, x.IPs[i] # None, x.IPs[i] = x.IPs[j]
      PROVE  i = j
  BY <1>3, <1>6, <1>7 DEF IPAMOK
<1>8. idx \in Free(m)
  BY <1>1 DEF Free
<1> QED
  BY <1>3, <1>6, <1>7, <1>8 DEF IPAMOK

(* IPAM.Release: no other pod's address loses its mark.                    *)
LEMMA ReleaseOK ==
  ASSUME NEW m \in IPAMs, NEW x \in IPAMs, NEW ip \in Int, IPAMOK(m), IsReleased(m, x, ip)
  PROVE  IPAMOK(x)
<1>1. /\ x.Network = m.Network /\ m.bitmap \ {ip - m.Network.base - 2} \subseteq x.bitmap
      /\ x.IPs = [k \in PodKeys |-> IF m.IPs[k] = ip THEN None ELSE m.IPs[k]]
  BY DEF IsReleased
<1>2. /\ m.Network.base \in Int /\ m.Network.total \in Int
      /\ \A j \in PodKeys : m.IPs[j] # None => m.IPs[j] \in Int
  BY IPAMNumbers
<1>3. ASSUME NEW k \in PodKeys, x.IPs[k] # None
      PROVE  /\ x.IPs[k] = m.IPs[k] /\ m.IPs[k] # None
             /\ x.IPs[k] - x.Network.base - 2 \in 0 .. x.Network.total - 4
             /\ x.IPs[k] - x.Network.base - 2 \in x.bitmap
  <2>1. x.IPs[k] = m.IPs[k] /\ m.IPs[k] # None /\ m.IPs[k] # ip
    BY <1>1, <1>3
  <2>2. m.IPs[k] - m.Network.base - 2 # ip - m.Network.base - 2
    BY <1>2, <2>1
  <2> QED
    BY <1>1, <2>1, <2>2 DEF IPAMOK
<1>4. ASSUME NEW i \in PodKeys, NEW j \in PodKeys, x.IPs[i] # None, x.IPs[i] = x.IPs[j]
      PROVE  i = j
  BY <1>3, <1>4 DEF IPAMOK
<1> QED
  BY <1>3, <1>4 DEF IPAMOK

(* IPAM.Expand: a strictly larger network has an address that none of the  *)
(* pods can have had.                                                      *)
LEMMA RebaseOK ==
  ASSUME NEW m \in IPAMs, NEW x \in IPAMs, NEW q \in Prefixes, NEW p \in Prefixes,
         IPAMOK(m), m.Network = Net(q), q \subseteq p, q # p, IsRebased(m, x, p)
  PROVE  IPAMOK(x) /\ Free(x) # {}
<1>1. /\ x.Network = Net(p) /\ x.IPs = m.IPs
      /\ \A k \in PodKeys : m.IPs[k] # None => m.IPs[k] - Net(p).base - 2 \in 0 .. Net(p).total - 4
      /\ x.bitmap = {m.IPs[k] - Net(p).base - 2 : k \in {j \in PodKeys : m.IPs[j] # None}}
  BY DEF IsRebased
<1>2. ASSUME NEW k \in PodKeys, m.IPs[k] # None
      PROVE  m.IPs[k] - Net(p).base - 2 \in x.bitmap
  BY <1>1, <1>2
<1>3. IPAMOK(x)
  BY <1>1, <1>2 DEF IPAMOK
<1> DEFINE b == Net(q).base  c == Net(q).total  B == Net(p).base  C == Net(p).total
<1>4. /\ b \in Int /\ c \in Int /\ c >= 4 /\ B \in Int /\ C \in Int /\ C >= 4
      /\ B <= b /\ b + c <= B + C /\ c < C
  BY NetFacts, NetGrows
<1>5. \A k \in PodKeys : m.IPs[k] # None => m.IPs[k] \in Int /\ m.IPs[k] - b - 2 \in 0 .. c - 4
  BY IPAMNumbers DEF IPAMOK
<1> HIDE DEF b, c, B, C
<1>6. CASE B < b
  <2>1. 0 \notin x.bitmap
    <3>1. \A k \in PodKeys : m.IPs[k] # None => m.IPs[k] - B - 2 # 0
      BY <1>4, <1>5, <1>6
    <3> QED
      BY <1>1, <3>1 DEF B
  <2>2. 0 \in 0 .. C - 4
    BY <1>4
  <2> QED
    BY <1>1, <1>3, <2>1, <2>2 DEF Free, C
<1>7. CASE B = b
  <2>1. C - 4 \notin x.bitmap
    <3>1. \A k \in PodKeys : m.IPs[k] # None => m.IPs[k] - B - 2 # C - 4
      BY <1>4, <1>5, <1>7
    <3> QED
      BY <1>1, <3>1 DEF B
  <2>2. C - 4 \in 0 .. C - 4
    BY <1>4
  <2> QED
    BY <1>1, <1>3, <2>1, <2>2 DEF Free, C
<1> QED
  BY <1>4, <1>6, <1>7

-----------------------------------------------------------------------------
(* How the pools survive each step.                                        *)
LEMMA PoolFrame ==
  ASSUME PInv, NEW t,
         \A u \in TenantRecords' : u # t =>
           u \in TenantRecords /\ actor'[u] = actor[u] /\ rec'[u] = rec[u],
         t \in TenantRecords' => PoolOK(actor'[t], rec'[t])
  PROVE  PInv'
<1>1. ASSUME NEW u \in TenantRecords' PROVE PoolOK(actor'[u], rec'[u])
  BY DEF PInv
<1> QED
  BY <1>1 DEF PInv

(* An actor that only waits, or has stopped, promises nothing of its own.  *)
LEMMA PoolRest ==
  ASSUME NEW a, NEW b, NEW r, PoolOK(a, r), a.pc # "record", b.pc \in {"loop", "off", "panic"}
  PROVE  PoolOK(b, r)
BY DEF PoolOK, Requesting

(* A step of an actor.                                                     *)
LEMMA PoolActorStep ==
  ASSUME IInv, PInv, NEW t \in Tenants, actor[t].pc # "off",
         NEW a, actor' = [actor EXCEPT ![t] = a], NEW r, rec' = [rec EXCEPT ![t] = r],
         TenantRecords' = TenantRecords,
         PoolOK(actor[t], rec[t]) => PoolOK(a, r)
  PROVE  PInv'
<1>1. t \in TenantRecords /\ TypeOK
  BY TenantFacts, RunningFacts
<1>2. PoolOK(actor[t], rec[t])
  BY <1>1 DEF PInv
<1>3. /\ actor'[t] = a /\ rec'[t] = r
      /\ \A u \in TenantRecords : u # t => actor'[u] = actor[u] /\ rec'[u] = rec[u]
  BY <1>1 DEF TypeOK
<1> QED
  BY <1>2, <1>3, PoolFrame

LEMMA PoolQuiet ==
  ASSUME IInv, PInv, NEW t \in Tenants, actor[t].pc # "off",
         NEW a, actor' = [actor EXCEPT ![t] = a], UNCHANGED recordVars,
         PoolOK(actor[t], rec[t]) => PoolOK(a, rec[t])
  PROVE  PInv'
<1>1. rec' = [rec EXCEPT ![t] = rec[t]] /\ TenantRecords' = TenantRecords
  BY TenantFacts DEF TypeOK, recordVars
<1> QED
  BY <1>1, PoolActorStep

LEMMA PoolReturn ==
  ASSUME IInv, PInv, NEW t \in Tenants, actor[t].pc \notin {"off", "record"}, Return(t),
         UNCHANGED recordVars
  PROVE  PInv'
<1>1. actor' = [actor EXCEPT ![t] = Loop]
  BY DEF Return
<1>2. PoolOK(actor[t], rec[t]) => PoolOK(Loop, rec[t])
  BY PoolRest, LoopFacts
<1> QED
  BY <1>1, <1>2, PoolQuiet

LEMMA PoolPanic ==
  ASSUME IInv, PInv, NEW t \in Tenants, actor[t].pc \notin {"off", "record"}, Step(t, "panic"),
         UNCHANGED recordVars
  PROVE  PInv'
<1>1. PICK a \in ActorStates :
         /\ actor' = [actor EXCEPT ![t] = a]
         /\ a.pc = "panic" /\ a.pod = actor[t].pod /\ a.live = actor[t].live
         /\ a.attempt = actor[t].attempt /\ a.ip = actor[t].ip /\ a.net = actor[t].net
  BY StepFacts, TenantFacts
<1>2. PoolOK(actor[t], rec[t]) => PoolOK(a, rec[t])
  BY <1>1, PoolRest
<1> QED
  BY <1>1, <1>2, PoolQuiet

(* A step that changes neither an actor nor a record.                      *)
LEMMA PoolSame ==
  ASSUME PInv, UNCHANGED recordVars, actor' = actor
  PROVE  PInv'
BY DEF PInv, recordVars

LEMMA PoolReceiveEnsure ==
  ASSUME IInv, PInv, NEW t \in Tenants, ReceiveEnsure(t)
  PROVE  PInv'
<1> DEFINE m == Head(inbox[t])
<1>1. actor[t].pc = "loop" /\ UNCHANGED recordVars
  BY DEF ReceiveEnsure, Received, Running
<1>2. CASE UNCHANGED actor
  BY <1>1, <1>2, PoolSame
<1>3. CASE actor' = [actor EXCEPT ![t] = [Loop EXCEPT !.pc = "ensure", !.pod = m.pod, !.live = m.live]]
  <2>1. PICK a : a = [Loop EXCEPT !.pc = "ensure", !.pod = m.pod, !.live = m.live]
    OBVIOUS
  <2>2. a.pc = "ensure" /\ a.attempt = Loop.attempt
    BY <2>1, LoopFacts DEF ActorStates
  <2>3. a.attempt = 0
    BY <2>2, LoopFacts
  <2>4. PoolOK(actor[t], rec[t]) => PoolOK(a, rec[t])
    BY <1>1, <2>2, <2>3 DEF PoolOK, Requesting
  <2> QED
    BY <1>1, <1>3, <2>1, <2>4, PoolQuiet
<1> QED
  BY <1>2, <1>3 DEF ReceiveEnsure

LEMMA PoolReceiveStop ==
  ASSUME IInv, PInv, NEW t \in Tenants, ReceiveStop(t)
  PROVE  PInv'
<1>1. actor[t].pc = "loop" /\ actor' = [actor EXCEPT ![t] = Off] /\ UNCHANGED recordVars
  BY DEF ReceiveStop, Running
<1>2. PoolOK(actor[t], rec[t]) => PoolOK(Off, rec[t])
  BY <1>1, PoolRest, LoopFacts
<1> QED
  BY <1>1, <1>2, PoolQuiet

LEMMA PoolAllocate ==
  ASSUME IInv, PInv, NEW t \in Tenants, Allocate(t)
  PROVE  PInv'
<1>1. actor[t].pc = "ensure" /\ TenantRecords' = TenantRecords
  BY DEF Allocate, Running
<1>2. rec[t] \in Records /\ actor[t] \in ActorStates /\ actor[t].pod \in PodKeys
  BY <1>1, RunningFacts, FieldFacts
<1>3. PICK m \in IPAMs, k \in PodKeys : m = rec[t].IPAM /\ k = actor[t].pod
  BY <1>2 DEF Records
<1>4. PICK idx \in IPAM(t)!FreeIndices(m) :
        /\ rec' = [rec EXCEPT ![t].IPAM = IPAM(t)!Take(m, k, idx)]
        /\ actor' = [actor EXCEPT ![t].pc = "lookup",
                                  ![t].ip = IPAM(t)!indexToIP(m.Network, idx)]
  BY <1>3 DEF Allocate
<1>5. PICK x : x = IPAM(t)!Take(m, k, idx)
  OBVIOUS
<1>6. PICK ip : ip = IPAM(t)!indexToIP(m.Network, idx)
  OBVIOUS
<1>7. x \in IPAMs /\ ip \in Addresses /\ ip \in Int /\ IsTaken(m, x, k, idx, ip)
  <2>1. x \in IPAMs /\ ip \in Addresses /\ IsTaken(m, x, k, idx, ip)
    BY <1>5, <1>6, TakeType
  <2> QED
    BY <2>1, AddressesAreIntegers
<1>8. PICK r : r = [rec[t] EXCEPT !.IPAM = x]
  OBVIOUS
<1>9. PICK a : a = [actor[t] EXCEPT !.pc = "lookup", !.ip = ip]
  OBVIOUS
<1>10. rec' = [rec EXCEPT ![t] = r] /\ actor' = [actor EXCEPT ![t] = a]
  BY <1>4, <1>5, <1>6, <1>8, <1>9
<1>11. r.IPAM = x /\ r.Subnet = rec[t].Subnet /\ r.BridgeIP = rec[t].BridgeIP
  BY <1>2, <1>7, <1>8, WithIPAM
<1>12. a.pc = "lookup" /\ a.pod = k /\ a.ip = ip
  BY <1>2, <1>3, <1>9 DEF ActorStates
<1>13. ASSUME PoolOK(actor[t], rec[t]) PROVE PoolOK(a, r)
  <2>1. IPAMOK(m)
    BY <1>3, <1>13 DEF PoolOK
  <2>2. IPAMOK(x) /\ x.IPs[k] = ip /\ Free(m) # {}
    BY <1>7, <2>1, TakeOK
  <2>3. Contains(rec[t].Subnet, rec[t].BridgeIP)
    BY <1>1, <1>3, <1>13, <2>2 DEF PoolOK
  <2> QED
    BY <1>11, <1>12, <2>2, <2>3 DEF PoolOK, Requesting
<1> QED
  BY <1>1, <1>10, <1>13, PoolActorStep

(* Only the first attempt can find the pool exhausted.                     *)
LEMMA PoolExhausted ==
  ASSUME IInv, PInv, NEW t \in Tenants, Exhausted(t)
  PROVE  PInv'
<1>1. actor[t].pc = "ensure" /\ UNCHANGED recordVars
  BY DEF Exhausted, Running
<1>2. CASE Return(t)
  BY <1>1, <1>2, PoolReturn
<1>3. CASE Step(t, "request")
  <2>1. rec[t] \in Records
    BY <1>1, RunningFacts
  <2>2. PICK m \in IPAMs : m = rec[t].IPAM
    BY <2>1 DEF Records
  <2>3. IPAM(t)!FreeIndices(m) = {}
    BY <2>2 DEF Exhausted
  <2>4. Free(m) = {}
    BY <2>3, FreeIsFree
  <2>5. PICK a \in ActorStates :
         /\ actor' = [actor EXCEPT ![t] = a]
         /\ a.pc = "request" /\ a.pod = actor[t].pod /\ a.live = actor[t].live
         /\ a.attempt = actor[t].attempt /\ a.ip = actor[t].ip /\ a.net = actor[t].net
    BY <1>3, StepFacts, TenantFacts
  <2>6. actor[t].attempt \in Nat
    <3>1. actor[t].attempt \in 0 .. maxRetries
      BY FieldFacts DEF ActorStates
    <3> QED
      BY <3>1 DEF maxRetries
  <2>7. ASSUME PoolOK(actor[t], rec[t]) PROVE PoolOK(a, rec[t])
    <3>1. a.attempt = 0
      BY <1>1, <2>2, <2>4, <2>5, <2>6, <2>7 DEF PoolOK
    <3> QED
      BY <1>1, <2>2, <2>4, <2>5, <2>7, <3>1 DEF PoolOK, Requesting
  <2> QED
    BY <1>1, <2>5, <2>7, PoolQuiet
<1> QED
  BY <1>2, <1>3 DEF Exhausted

LEMMA PoolLookupBridge ==
  ASSUME IInv, PInv, NEW t \in Tenants, LookupBridge(t)
  PROVE  PInv'
<1>1. actor[t].pc = "lookup" /\ UNCHANGED recordVars
  BY DEF LookupBridge, Running
<1>2. CASE Return(t)
  BY <1>1, <1>2, PoolReturn
<1>3. CASE Step(t, "veth")
  <2>1. PICK a \in ActorStates :
         /\ actor' = [actor EXCEPT ![t] = a]
         /\ a.pc = "veth" /\ a.pod = actor[t].pod /\ a.live = actor[t].live
         /\ a.attempt = actor[t].attempt /\ a.ip = actor[t].ip /\ a.net = actor[t].net
    BY <1>3, StepFacts, TenantFacts
  <2>2. PoolOK(actor[t], rec[t]) => PoolOK(a, rec[t])
    BY <1>1, <2>1 DEF PoolOK, Requesting
  <2> QED
    BY <1>1, <2>1, <2>2, PoolQuiet
<1> QED
  BY <1>2, <1>3 DEF LookupBridge

LEMMA PoolSetupVeth ==
  ASSUME IInv, PInv, NEW t \in Tenants, SetupVeth(t)
  PROVE  PInv'
<1>1. actor[t].pc = "veth" /\ Return(t) /\ TenantRecords' = TenantRecords
  BY DEF SetupVeth, Running
<1>2. CASE UNCHANGED rec
  BY <1>1, <1>2, PoolReturn DEF recordVars
<1>3. CASE rec' = [rec EXCEPT ![t].IPAM = IPAM(t)!Release(@, actor[t].ip)]
  <2>1. rec[t] \in Records /\ actor[t].ip \in Addresses
    BY <1>1, RunningFacts, FieldFacts
  <2>2. PICK m \in IPAMs, ip \in Int : m = rec[t].IPAM /\ ip = actor[t].ip
    BY <2>1, AddressesAreIntegers DEF Records
  <2>3. PICK x : x = IPAM(t)!Release(m, ip)
    OBVIOUS
  <2>4. x \in IPAMs /\ IsReleased(m, x, ip)
    BY <2>3, ReleaseType
  <2>5. PICK r : r = [rec[t] EXCEPT !.IPAM = x]
    OBVIOUS
  <2>6. rec' = [rec EXCEPT ![t] = r] /\ actor' = [actor EXCEPT ![t] = Loop]
    BY <1>1, <1>3, <2>2, <2>3, <2>5 DEF Return
  <2>7. r.IPAM = x /\ r.Subnet = rec[t].Subnet /\ r.BridgeIP = rec[t].BridgeIP
    BY <2>1, <2>4, <2>5, WithIPAM
  <2>8. ASSUME PoolOK(actor[t], rec[t]) PROVE PoolOK(Loop, r)
    <3>1. IPAMOK(x)
      BY <2>2, <2>4, <2>8, ReleaseOK DEF PoolOK
    <3>2. Contains(rec[t].Subnet, rec[t].BridgeIP)
      BY <1>1, <2>8 DEF PoolOK
    <3> QED
      BY <2>7, <3>1, <3>2, LoopFacts DEF PoolOK, Requesting
  <2> QED
    BY <1>1, <2>6, <2>8, PoolActorStep
<1> QED
  BY <1>2, <1>3 DEF SetupVeth

LEMMA PoolRequestExpansion ==
  ASSUME IInv, PInv, NEW t \in Tenants, RequestExpansion(t)
  PROVE  PInv'
<1>1. actor[t].pc = "request" /\ UNCHANGED recordVars
  BY DEF RequestExpansion, Running
<1>2. CASE Return(t)
  BY <1>1, <1>2, PoolReturn
<1>3. CASE Step(t, "expand")
  <2>1. PICK a \in ActorStates :
         /\ actor' = [actor EXCEPT ![t] = a]
         /\ a.pc = "expand" /\ a.pod = actor[t].pod /\ a.live = actor[t].live
         /\ a.attempt = actor[t].attempt /\ a.ip = actor[t].ip /\ a.net = actor[t].net
    BY <1>3, StepFacts, TenantFacts
  <2>2. PoolOK(actor[t], rec[t]) => PoolOK(a, rec[t])
    BY <1>1, <2>1 DEF PoolOK, Requesting
  <2> QED
    BY <1>1, <2>1, <2>2, PoolQuiet
<1> QED
  BY <1>2, <1>3 DEF RequestExpansion

LEMMA PoolExpandSubnet ==
  ASSUME IInv, PInv, NEW t \in Tenants, ExpandSubnet(t)
  PROVE  PInv'
<1>1. actor[t].pc = "expand" /\ UNCHANGED recordVars
  BY DEF ExpandSubnet, Running
<1>2. CASE Return(t)
  BY <1>1, <1>2, PoolReturn
<1>3. CASE actor' = [actor EXCEPT ![t].pc = "bridge", ![t].net = AllocMap'[t]]
  <2>1. PICK n : n = AllocMap'[t]
    OBVIOUS
  <2>2. PICK a : a = [actor[t] EXCEPT !.pc = "bridge", !.net = n]
    OBVIOUS
  <2>3. a.pc = "bridge" /\ a.pod = actor[t].pod /\ a.attempt = actor[t].attempt
    BY <2>2, FieldFacts DEF ActorStates
  <2>4. actor' = [actor EXCEPT ![t] = a]
    BY <1>3, <2>1, <2>2
  <2>5. PoolOK(actor[t], rec[t]) => PoolOK(a, rec[t])
    BY <1>1, <2>3 DEF PoolOK, Requesting
  <2> QED
    BY <1>1, <2>4, <2>5, PoolQuiet
<1> QED
  BY <1>2, <1>3 DEF ExpandSubnet

(* The gateway moves before the record does, while nothing is free.        *)
LEMMA PoolUpdateBridge ==
  ASSUME IInv, PInv, NEW t \in Tenants, UpdateBridge(t)
  PROVE  PInv'
<1>1. actor[t].pc = "bridge" /\ TenantRecords' = TenantRecords
  BY DEF UpdateBridge, Running
<1>2. CASE Return(t) /\ UNCHANGED rec
  BY <1>1, <1>2, PoolReturn DEF recordVars
<1>3. CASE rec' = [rec EXCEPT ![t].BridgeIP = FirstIP(actor[t].net)] /\ Step(t, "vtep")
  <2>1. PICK a \in ActorStates :
         /\ actor' = [actor EXCEPT ![t] = a]
         /\ a.pc = "vtep" /\ a.pod = actor[t].pod /\ a.live = actor[t].live
         /\ a.attempt = actor[t].attempt /\ a.ip = actor[t].ip /\ a.net = actor[t].net
    BY <1>3, StepFacts, TenantFacts
  <2>2. rec[t] \in Records /\ FirstIP(actor[t].net) \in Addresses
    BY <1>1, RunningFacts, FieldFacts, NetFacts DEF Growing
  <2>3. PICK r : r = [rec[t] EXCEPT !.BridgeIP = FirstIP(actor[t].net)]
    OBVIOUS
  <2>4. r.IPAM = rec[t].IPAM /\ r.Subnet = rec[t].Subnet /\ r.BridgeIP = FirstIP(actor[t].net)
    BY <2>2, <2>3, WithBridgeIP
  <2>5. rec' = [rec EXCEPT ![t] = r]
    BY <1>3, <2>3
  <2>6. PoolOK(actor[t], rec[t]) => PoolOK(a, r)
    BY <1>1, <2>1, <2>4 DEF PoolOK, Requesting
  <2> QED
    BY <1>1, <2>1, <2>5, <2>6, PoolActorStep
<1> QED
  BY <1>2, <1>3 DEF UpdateBridge

LEMMA PoolUpdateVtep ==
  ASSUME IInv, PInv, NEW t \in Tenants, UpdateVtep(t)
  PROVE  PInv'
<1>1. actor[t].pc = "vtep" /\ UNCHANGED recordVars
  BY DEF UpdateVtep, Running
<1>2. CASE Return(t)
  BY <1>1, <1>2, PoolReturn
<1>3. CASE Step(t, "ipam")
  <2>1. PICK a \in ActorStates :
         /\ actor' = [actor EXCEPT ![t] = a]
         /\ a.pc = "ipam" /\ a.pod = actor[t].pod /\ a.live = actor[t].live
         /\ a.attempt = actor[t].attempt /\ a.ip = actor[t].ip /\ a.net = actor[t].net
    BY <1>3, StepFacts, TenantFacts
  <2>2. PoolOK(actor[t], rec[t]) => PoolOK(a, rec[t])
    BY <1>1, <2>1 DEF PoolOK, Requesting
  <2> QED
    BY <1>1, <2>1, <2>2, PoolQuiet
<1>4. CASE Step(t, "panic")
  BY <1>1, <1>4, PoolPanic
<1> QED
  BY <1>2, <1>3, <1>4 DEF UpdateVtep

LEMMA PoolExpandIPAM ==
  ASSUME IInv, PInv, NEW t \in Tenants, ExpandIPAM(t)
  PROVE  PInv'
<1>1. actor[t].pc = "ipam" /\ TenantRecords' = TenantRecords
  BY DEF ExpandIPAM, Running
<1>2. actor[t].net \in Prefixes /\ rec[t] \in Records /\ t \in TenantRecords
  BY <1>1, FieldFacts, RunningFacts DEF Growing
<1>3. PICK m \in IPAMs, n \in Prefixes : m = rec[t].IPAM /\ n = actor[t].net
  BY <1>2 DEF Records
<1>4. CASE Return(t) /\ UNCHANGED rec
  BY <1>1, <1>4, PoolReturn DEF recordVars
<1>5. CASE /\ IPAM(t)!CanRebase(m, Net(n))
           /\ rec' = [rec EXCEPT ![t].IPAM = IPAM(t)!Rebase(m, Net(n))]
           /\ Step(t, "record")
  <2>1. PICK x : x = IPAM(t)!Rebase(m, Net(n))
    OBVIOUS
  <2>2. x \in IPAMs /\ IsRebased(m, x, n)
    BY <1>5, <2>1, RebaseType
  <2>3. PICK a \in ActorStates :
         /\ actor' = [actor EXCEPT ![t] = a]
         /\ a.pc = "record" /\ a.pod = actor[t].pod /\ a.live = actor[t].live
         /\ a.attempt = actor[t].attempt /\ a.ip = actor[t].ip /\ a.net = actor[t].net
    BY <1>5, StepFacts, TenantFacts
  <2>4. PICK r : r = [rec[t] EXCEPT !.IPAM = x]
    OBVIOUS
  <2>5. rec' = [rec EXCEPT ![t] = r]
    BY <1>5, <2>1, <2>4
  <2>6. r.IPAM = x /\ r.Subnet = rec[t].Subnet /\ r.BridgeIP = rec[t].BridgeIP
    BY <1>2, <2>2, <2>4, WithIPAM
  <2>7. PICK q \in Prefixes : q = rec[t].Subnet
    BY <1>2 DEF Records
  <2>8. m.Network = Net(q) /\ q \subseteq n /\ q # n
    BY <1>1, <1>2, <1>3, <2>7, TenantFacts DEF RecordOK, Growing
  <2>9. ASSUME PoolOK(actor[t], rec[t]) PROVE PoolOK(a, r)
    <3>1. IPAMOK(x) /\ Free(x) # {}
      <4>1. IPAMOK(m)
        BY <1>3, <2>9 DEF PoolOK
      <4> QED
        BY <2>2, <2>8, <4>1, RebaseOK
    <3> QED
      BY <1>1, <2>3, <2>6, <2>9, <3>1 DEF PoolOK, Requesting
  <2> QED
    BY <1>1, <2>3, <2>5, <2>9, PoolActorStep
<1> QED
  BY <1>3, <1>4, <1>5 DEF ExpandIPAM

LEMMA PoolExpandRecord ==
  ASSUME IInv, PInv, NEW t \in Tenants, ExpandRecord(t)
  PROVE  PInv'
<1>1. /\ actor[t].pc = "record" /\ TenantRecords' = TenantRecords \cup {t} /\ Step(t, "reconcile")
      /\ rec' = [rec EXCEPT ![t].Subnet = actor[t].net]
  BY DEF ExpandRecord, Running
<1>2. rec[t] \in Records /\ t \in TenantRecords
  BY <1>1, RunningFacts
<1>3. PICK n \in Prefixes : n = actor[t].net
  BY <1>1, FieldFacts DEF Growing
<1>4. PICK a \in ActorStates :
         /\ actor' = [actor EXCEPT ![t] = a]
         /\ a.pc = "reconcile" /\ a.pod = actor[t].pod /\ a.live = actor[t].live
         /\ a.attempt = actor[t].attempt /\ a.ip = actor[t].ip /\ a.net = actor[t].net
  BY <1>1, StepFacts, TenantFacts
<1>5. PICK r : r = [rec[t] EXCEPT !.Subnet = n]
  OBVIOUS
<1>6. r.IPAM = rec[t].IPAM /\ r.Subnet = n /\ r.BridgeIP = rec[t].BridgeIP
  BY <1>2, <1>5, WithSubnet
<1>7. Contains(n, FirstIP(n))
  BY NetFacts
<1>8. PoolOK(actor[t], rec[t]) => PoolOK(a, r)
  BY <1>1, <1>3, <1>4, <1>6, <1>7 DEF PoolOK, Requesting
<1>9. rec' = [rec EXCEPT ![t] = r] /\ TenantRecords' = TenantRecords
  BY <1>1, <1>2, <1>3, <1>5
<1> QED
  BY <1>1, <1>4, <1>8, <1>9, PoolActorStep

LEMMA PoolReconcilePods ==
  ASSUME IInv, PInv, NEW t \in Tenants, ReconcilePods(t)
  PROVE  PInv'
<1>1. actor[t].pc = "reconcile" /\ Again(t) /\ UNCHANGED recordVars
  BY DEF ReconcilePods, Running
<1>2. PICK a \in ActorStates :
           /\ actor' = [actor EXCEPT ![t] = a]
           /\ a.pc = "ensure" /\ a.pod = actor[t].pod /\ a.live = actor[t].live
           /\ a.attempt = actor[t].attempt + 1 /\ a.ip = actor[t].ip /\ a.net = None
  BY <1>1, AgainFacts
<1>3. PoolOK(actor[t], rec[t]) => PoolOK(a, rec[t])
  BY <1>1, <1>2 DEF PoolOK, Requesting
<1> QED
  BY <1>1, <1>2, <1>3, PoolQuiet

LEMMA PoolActor ==
  ASSUME IInv, PInv, NEW t \in Tenants, Actor(t)
  PROVE  PInv'
<1>1. ASSUME ReceiveRemove(t) PROVE PInv'
  BY <1>1, PoolSame DEF ReceiveRemove
<1>2. ASSUME Refuse(t) PROVE PInv'
  BY <1>2, PoolReturn DEF Refuse, Running
<1>3. ASSUME TornRead(t) PROVE PInv'
  BY <1>3, PoolPanic DEF TornRead
<1> QED
  BY <1>1, <1>2, <1>3, PoolReceiveEnsure, PoolReceiveStop, PoolAllocate, PoolExhausted,
     PoolLookupBridge, PoolSetupVeth, PoolRequestExpansion, PoolExpandSubnet, PoolUpdateBridge,
     PoolUpdateVtep, PoolExpandIPAM, PoolExpandRecord, PoolReconcilePods DEF Actor

LEMMA PoolEnsureCommit ==
  ASSUME IInv, PInv, EnsureCommit
  PROVE  PInv'
<1>1. disp.pc = "commit" /\ actor' = actor
  BY DEF EnsureCommit, At, actorVars
<1>2. PICK t \in Tenants : disp.t = t
  BY <1>1, DispFacts
<1>3. /\ TypeOK
      /\ Life(Phase(disp, t), t \in TenantRecords, TenantActors[t], actor[t].pc)
      /\ SubnetOK(Phase(disp, t), t \in TenantRecords, actor[t], rec[t], AllocMap[t])
      /\ AllocMap[t] \in OrNone(Prefixes)
  BY TenantFacts, TypeFacts
<1>4. Phase(disp, t) = "commit"
  BY <1>1, <1>2 DEF Phase
<1>5. t \notin TenantRecords /\ actor[t].pc = "off"
  BY <1>3, <1>4 DEF Life, Ensuring, Removing
<1>6. PICK n \in Prefixes : n = AllocMap[t]
  BY <1>3, <1>4 DEF SubnetOK, OrNone
<1>7. PICK r : r = NewRecord(t, n)
  OBVIOUS
<1>8. TenantRecords' = TenantRecords \cup {t} /\ rec' = [rec EXCEPT ![t] = r]
  BY <1>2, <1>5, <1>6, <1>7 DEF EnsureCommit
<1>9. r.Subnet = n /\ r.BridgeIP = FirstIP(n) /\ r.IPAM = IPAM(t)!NewBitmapIPAM(Net(n))
  BY <1>7, NewRecordFacts
<1>10. \A k \in PodKeys : r.IPAM.IPs[k] = None
  BY <1>9, NewType
<1>11. Contains(r.Subnet, r.BridgeIP)
  BY <1>9, NetFacts
<1>12. PoolOK(actor[t], r)
  BY <1>5, <1>10, <1>11 DEF PoolOK, IPAMOK, Requesting
<1>13. /\ rec'[t] = r
       /\ \A u \in TenantRecords : u # t => rec'[u] = rec[u]
  BY <1>3, <1>8 DEF TypeOK
<1> QED
  BY <1>1, <1>8, <1>12, <1>13, PoolFrame

LEMMA PoolStartTenantActor ==
  ASSUME IInv, PInv, StartTenantActor
  PROVE  PInv'
<1>1. disp.pc = "start" /\ UNCHANGED recordVars
  BY DEF StartTenantActor, At
<1>2. PICK t \in Tenants : disp.t = t
  BY <1>1, DispFacts
<1>3. /\ TypeOK
      /\ Life(Phase(disp, t), t \in TenantRecords, TenantActors[t], actor[t].pc)
  BY TenantFacts
<1>4. Phase(disp, t) = "start"
  BY <1>1, <1>2 DEF Phase
<1>5. t \in TenantRecords /\ TenantActors[t] = 0 /\ actor[t].pc = "off"
  BY <1>3, <1>4 DEF Life, Ensuring, Removing
<1>6. actor' = [actor EXCEPT ![t] = Loop]
  BY <1>2, <1>5 DEF StartTenantActor
<1>7. /\ actor'[t] = Loop /\ TenantRecords \subseteq Tenants
      /\ \A u \in TenantRecords : u # t => actor'[u] = actor[u]
  BY <1>3, <1>6 DEF TypeOK
<1>8. PoolOK(actor[t], rec[t])
  BY <1>5 DEF PInv
<1>9. PoolOK(Loop, rec[t])
  BY <1>5, <1>8, PoolRest, LoopFacts
<1>10. TenantRecords' = TenantRecords /\ rec' = rec
  BY <1>1 DEF recordVars
<1> QED
  BY <1>7, <1>9, <1>10, PoolFrame

(* RemoveTenant's changes of the record.                                   *)
LEMMA PoolClose ==
  ASSUME IInv, PInv, NEW t \in TenantRecords, NEW r, rec' = [rec EXCEPT ![t] = r],
         r.IPAM = rec[t].IPAM, r.Subnet = rec[t].Subnet, r.BridgeIP = rec[t].BridgeIP,
         TenantRecords' = TenantRecords, actor' = actor
  PROVE  PInv'
<1>1. rec \in [Tenants -> OrNone(Records)] /\ TenantRecords \subseteq Tenants
  BY DEF IInv, TypeOK
<1>2. PoolOK(actor[t], rec[t])
  BY DEF PInv
<1>3. PoolOK(actor[t], r)
  BY <1>2 DEF PoolOK
<1> QED
  BY <1>1, <1>3, PoolFrame

LEMMA PoolRemove ==
  ASSUME IInv, PInv, NEW t \in Tenants, RemoveTenant(t)
  PROVE  PInv'
<1>1. /\ t \in TenantRecords /\ rec' = [rec EXCEPT ![t].State = "Closing"]
      /\ TenantRecords' = TenantRecords /\ actor' = actor
  BY DEF RemoveTenant, actorVars
<1>2. rec[t] \in Records
  BY <1>1, TenantFacts, TypeFacts
<1>3. PICK r : r = [rec[t] EXCEPT !.State = "Closing"]
  OBVIOUS
<1>4. r.IPAM = rec[t].IPAM /\ r.Subnet = rec[t].Subnet /\ r.BridgeIP = rec[t].BridgeIP
  BY <1>2, <1>3, ClosingRecord
<1> QED
  BY <1>1, <1>3, <1>4, PoolClose

LEMMA PoolRemoveFields ==
  ASSUME IInv, PInv, RemoveFields
  PROVE  PInv'
<1>1. /\ disp.pc = "nil" /\ rec' = [rec EXCEPT ![disp.t].devices = FALSE]
      /\ TenantRecords' = TenantRecords /\ actor' = actor
  BY DEF RemoveFields, At, actorVars
<1>2. PICK t \in Tenants : disp.t = t /\ Phase(disp, t) = "nil"
  BY <1>1, DispFacts
<1>3. t \in TenantRecords
  BY <1>2, TenantFacts DEF Life, Ensuring
<1>4. rec[t] \in Records
  BY <1>3, TenantFacts, TypeFacts
<1>5. PICK r : r = [rec[t] EXCEPT !.devices = FALSE]
  OBVIOUS
<1>6. r.IPAM = rec[t].IPAM /\ r.Subnet = rec[t].Subnet /\ r.BridgeIP = rec[t].BridgeIP
  BY <1>4, <1>5, ClosingRecord
<1>7. rec' = [rec EXCEPT ![t] = r]
  BY <1>1, <1>2, <1>5
<1> QED
  BY <1>1, <1>3, <1>6, <1>7, PoolClose

LEMMA PoolRemoveRecord ==
  ASSUME IInv, PInv, RemoveRecord
  PROVE  PInv'
<1>1. /\ disp.pc = "drop" /\ TenantRecords' = TenantRecords \ {disp.t} /\ actor' = actor
      /\ rec' = [rec EXCEPT ![disp.t] = IF actor[disp.t].pc = "off" THEN None ELSE @]
  BY DEF RemoveRecord, At, actorVars
<1>2. PICK t \in Tenants : disp.t = t
  BY <1>1, DispFacts
<1>3. TenantRecords \subseteq Tenants /\ rec \in [Tenants -> OrNone(Records)]
  BY DEF IInv, TypeOK
<1>4. \A u \in TenantRecords : u # t => rec'[u] = rec[u]
  BY <1>1, <1>2, <1>3
<1> QED
  BY <1>1, <1>2, <1>4, PoolFrame

LEMMA PoolDispatcher ==
  ASSUME IInv, PInv, Dispatcher
  PROVE  PInv'
<1>1. ASSUME \/ EnsureSubnet \/ EnsureBackend \/ EnsurePolicy \/ RemoveVtep \/ RemoveBridge
             \/ RemoveSubnet \/ RemoveStop \/ RemoveActor
      PROVE  UNCHANGED recordVars /\ actor' = actor
  BY <1>1 DEF EnsureSubnet, EnsureBackend, EnsurePolicy, RemoveVtep, RemoveBridge,
              RemoveSubnet, RemoveStop, RemoveActor, actorVars
<1> QED
  BY <1>1, PoolSame, PoolEnsureCommit, PoolStartTenantActor, PoolRemoveFields, PoolRemoveRecord
     DEF Dispatcher

LEMMA PoolRequest ==
  ASSUME IInv, PInv, NEW p \in Pods, Request(p)
  PROVE  PInv'
<1>1. ASSUME NEW kind, Lookup(p, kind) PROVE PInv'
  BY <1>1, PoolSame DEF Lookup
<1>2. ASSUME Send(p) PROVE PInv'
  BY <1>2, PoolSame DEF Send
<1>3. ASSUME GiveUp(p) PROVE PInv'
  <2>1. PICK t \in Tenants : t = p[1]
    BY PodFacts
  <2>2. actor' = [actor EXCEPT ![t] = Orphaned(actor[t], p[2])] /\ UNCHANGED recordVars
    BY <1>3, <2>1 DEF GiveUp, Orphaned
  <2>3. TypeOK /\ actor[t] \in ActorStates
    BY TenantFacts, TypeFacts
  <2>4. PICK a : a = Orphaned(actor[t], p[2])
    OBVIOUS
  <2>5. /\ a.pc = actor[t].pc /\ a.attempt = actor[t].attempt
        /\ a.ip = actor[t].ip /\ a.net = actor[t].net /\ a.pod = actor[t].pod
    BY <2>3, <2>4, OrphanedFacts
  <2>6. PoolOK(actor[t], rec[t]) => PoolOK(a, rec[t])
    BY <2>5 DEF PoolOK
  <2>7. /\ actor'[t] = a /\ rec' = rec /\ TenantRecords' = TenantRecords
        /\ TenantRecords \subseteq Tenants
        /\ \A u \in TenantRecords : u # t => actor'[u] = actor[u]
    BY <2>2, <2>3, <2>4 DEF TypeOK, recordVars
  <2>8. t \in TenantRecords => PoolOK(actor[t], rec[t])
    BY DEF PInv
  <2> QED
    BY <2>6, <2>7, <2>8, PoolFrame
<1> QED
  BY <1>1, <1>2, <1>3 DEF Request

LEMMA PoolNext == IInv /\ PInv /\ [Next]_vars => PInv'
<1> SUFFICES ASSUME IInv, PInv, [Next]_vars PROVE PInv'
  OBVIOUS
<1>1. ASSUME NEW t \in Tenants, Command(t) PROVE PInv'
  <2>1. ASSUME EnsureTenant(t) PROVE PInv'
    BY <2>1, PoolSame DEF EnsureTenant, actorVars
  <2> QED
    BY <1>1, <2>1, PoolRemove DEF Command
<1>2. ASSUME NEW t \in Tenants, Actor(t) PROVE PInv'
  BY <1>2, PoolActor
<1>3. ASSUME NEW p \in Pods, Request(p) PROVE PInv'
  BY <1>3, PoolRequest
<1>4. ASSUME UNCHANGED vars PROVE PInv'
  BY <1>4, PoolSame DEF vars, actorVars
<1> QED
  BY <1>1, <1>2, <1>3, <1>4, PoolDispatcher DEF Next

(* The pools are sound in every reachable state: the bitmap marks every    *)
(* recorded address, no address is recorded twice, and an expansion leaves *)
(* room.                                                                   *)
THEOREM PoolsSound == Spec => []PInv
<1>1. Init => PInv
  BY DEF Init, PInv
<1> QED
  BY <1>1, PoolNext, InvariantHolds, PTL DEF Spec

(* The retry after an expansion never finds the pool exhausted again.      *)
THEOREM NoSecondExpansion == Spec => []OneExpansionSuffices
<1>1. IInv /\ PInv => OneExpansionSuffices
  <2> SUFFICES ASSUME IInv, PInv, NEW t \in Tenants, actor[t].pc = "request"
               PROVE  actor[t].attempt = 0
    BY DEF OneExpansionSuffices
  <2>1. t \in TenantRecords
    BY RunningFacts
  <2> QED
    BY <2>1 DEF PInv, PoolOK, Requesting
<1> QED
  BY <1>1, InvariantHolds, PoolsSound, PTL

(* The gateway lies in the record's subnet whenever a pod is attached,     *)
(* however an earlier expansion of the tenant has ended.                   *)
THEOREM GatewayAlwaysInSubnet == Spec => []GatewayInSubnet
<1>1. IInv /\ PInv => GatewayInSubnet
  <2> SUFFICES ASSUME IInv, PInv, NEW t \in Tenants, actor[t].pc = "veth"
               PROVE  Contains(rec[t].Subnet, rec[t].BridgeIP)
    BY DEF GatewayInSubnet
  <2>1. t \in TenantRecords
    BY RunningFacts
  <2> QED
    BY <2>1 DEF PInv, PoolOK
<1> QED
  BY <1>1, InvariantHolds, PoolsSound, PTL

-----------------------------------------------------------------------------
(* The trie as the manager uses it, without Reduce.                        *)

(* Exactly the nodes below a tenant's are cut off.                         *)
LinkedOK ==
  \A p \in Prefixes :
    p \in linked <=> \A t \in Tenants : AllocMap[t] # None /\ p \subseteq AllocMap[t] => p = AllocMap[t]

(* The flags of the nodes and the map agree.                               *)
FlagsOK ==
  /\ \A t \in Tenants : AllocMap[t] # None => owner[AllocMap[t]] = t
  /\ \A p \in linked : owner[p] # None => AllocMap[owner[p]] = p

NodesDisjoint ==
  \A t, u \in Tenants :
    t # u /\ AllocMap[t] # None /\ AllocMap[u] # None => AllocMap[t] \cap AllocMap[u] = {}

TrieOK == LinkedOK /\ FlagsOK /\ NodesDisjoint

LEMMA PrefixNotEmpty ==
  ASSUME NEW p \in Prefixes
  PROVE  p # {} /\ p # None
<1>1. PICK a, b \in Int : a <= b /\ p = a .. b
  BY PrefixRange
<1>2. a \in p
  BY <1>1
<1> QED
  BY <1>2, NoneAssumption

LEMMA PrefixInBlocks ==
  ASSUME NEW p \in Prefixes
  PROVE  p \in SUBSET Blocks
<1>1. PICK a, b \in Blocks : a <= b /\ p = a .. b
  BY PrefixAssumption
<1>2. PICK c, d \in Int : Blocks = c .. d
  BY PrefixAssumption DEF Subnet!Root
<1> QED
  BY <1>1, <1>2

LEMMA NestedOrDisjoint ==
  ASSUME NEW p \in Prefixes, NEW q \in Prefixes
  PROVE  p \subseteq q \/ q \subseteq p \/ p \cap q = {}
BY PrefixAssumption DEF Subnet!Laminar

(* The node of a tenant is a node of the trie.                             *)
LEMMA TenantNode ==
  ASSUME Subnet!TypeOK, TrieOK, NEW t \in Tenants, AllocMap[t] # None
  PROVE  AllocMap[t] \in Prefixes /\ AllocMap[t] \in linked /\ owner[AllocMap[t]] = t
<1>1. AllocMap[t] \in Prefixes
  BY DEF Subnet!TypeOK
<1>2. ASSUME NEW u \in Tenants, AllocMap[u] # None, AllocMap[t] \subseteq AllocMap[u]
      PROVE  AllocMap[t] = AllocMap[u]
  BY <1>1, <1>2, PrefixNotEmpty DEF TrieOK, NodesDisjoint
<1> QED
  BY <1>1, <1>2 DEF TrieOK, LinkedOK, FlagsOK

LEMMA AllocateTrie ==
  ASSUME Subnet!TypeOK, TrieOK, NEW t \in Tenants, Subnet!Allocate(t)
  PROVE  TrieOK'
<1>1. PICK best \in Subnet!FindAllFree :
        /\ owner' = [owner EXCEPT ![best] = t]
        /\ AllocMap' = [AllocMap EXCEPT ![t] = best]
  BY DEF Subnet!Allocate
<1>2. linked' = linked /\ AllocMap[t] = None
  BY DEF Subnet!Allocate
<1>3. /\ best \in linked /\ best \in Prefixes /\ owner[best] = None
      /\ \A q \in linked : q \subseteq best => q = best
  BY DEF Subnet!FindAllFree, Subnet!Childless, Subnet!TypeOK
<1>4. best # None /\ best # {}
  BY <1>3, PrefixNotEmpty
<1>5. /\ AllocMap'[t] = best /\ owner'[best] = t
      /\ \A u \in Tenants : u # t => AllocMap'[u] = AllocMap[u]
      /\ \A q \in Prefixes : q # best => owner'[q] = owner[q]
  BY <1>1, <1>3 DEF Subnet!TypeOK
<1>6. ASSUME NEW u \in Tenants, u # t, AllocMap[u] # None PROVE AllocMap[u] \cap best = {}
  <2>1. AllocMap[u] \in Prefixes /\ AllocMap[u] \in linked /\ owner[AllocMap[u]] = u
    BY <1>6, TenantNode
  <2>2. AllocMap[u] # best
    BY <1>3, <2>1, NoneAssumption
  <2>3. ~(best \subseteq AllocMap[u])
    BY <1>3, <1>6, <2>2 DEF TrieOK, LinkedOK
  <2>4. ~(AllocMap[u] \subseteq best)
    BY <1>3, <2>1, <2>2
  <2> QED
    BY <1>3, <2>1, <2>3, <2>4, NestedOrDisjoint
<1>7. NodesDisjoint'
  BY <1>4, <1>5, <1>6 DEF TrieOK, NodesDisjoint
<1>8. LinkedOK'
  <2>1. ASSUME NEW p \in Prefixes
        PROVE  p \in linked <=>
                 \A u \in Tenants : AllocMap'[u] # None /\ p \subseteq AllocMap'[u] => p = AllocMap'[u]
    <3>1. p \in linked <=>
            \A u \in Tenants : AllocMap[u] # None /\ p \subseteq AllocMap[u] => p = AllocMap[u]
      BY DEF TrieOK, LinkedOK
    <3> QED
      BY <1>2, <1>3, <1>5, <3>1
  <2> QED
    BY <1>2, <2>1 DEF LinkedOK
<1>9. \A u \in Tenants : AllocMap'[u] # None => owner'[AllocMap'[u]] = u
  <2>1. ASSUME NEW u \in Tenants, u # t, AllocMap[u] # None PROVE owner'[AllocMap[u]] = u
    BY <1>4, <1>5, <1>6, <2>1, TenantNode
  <2> QED
    BY <1>5, <2>1
<1>10. \A p \in linked' : owner'[p] # None => AllocMap'[owner'[p]] = p
  <2>1. ASSUME NEW p \in linked, p # best, owner[p] # None PROVE AllocMap'[owner[p]] = p
    <3>1. p \in Prefixes /\ owner[p] \in Tenants /\ AllocMap[owner[p]] = p
      BY <2>1 DEF TrieOK, FlagsOK, Subnet!TypeOK
    <3> QED
      BY <1>2, <1>5, <3>1, PrefixNotEmpty
  <2>2. linked \subseteq Prefixes
    BY DEF Subnet!TypeOK
  <2> QED
    BY <1>2, <1>5, <2>1, <2>2
<1> QED
  BY <1>7, <1>8, <1>9, <1>10 DEF TrieOK, FlagsOK

LEMMA DeallocateTrie ==
  ASSUME Subnet!TypeOK, TrieOK, NEW t \in Tenants, Subnet!Deallocate(t)
  PROVE  TrieOK'
<1>1. AllocMap[t] # None
  BY DEF Subnet!Deallocate
<1>2. PICK node \in Prefixes : node = AllocMap[t]
  BY <1>1 DEF Subnet!TypeOK
<1>3. /\ owner' = [q \in Prefixes |-> IF q \subseteq node THEN None ELSE owner[q]]
      /\ AllocMap' = [AllocMap EXCEPT ![t] = None]
      /\ linked' = linked \cup {q \in Prefixes : q \subseteq node}
  BY <1>2 DEF Subnet!Deallocate
<1>4. /\ AllocMap'[t] = None
      /\ \A u \in Tenants : u # t => AllocMap'[u] = AllocMap[u]
      /\ \A q \in Prefixes : owner'[q] = IF q \subseteq node THEN None ELSE owner[q]
  BY <1>3 DEF Subnet!TypeOK
<1>5. ASSUME NEW u \in Tenants, u # t, AllocMap[u] # None PROVE AllocMap[u] \cap node = {}
  BY <1>1, <1>2, <1>5 DEF TrieOK, NodesDisjoint
<1>6. NodesDisjoint'
  BY <1>4 DEF TrieOK, NodesDisjoint
<1>7. LinkedOK'
  <2>1. ASSUME NEW p \in Prefixes
        PROVE  p \in linked' <=>
                 \A u \in Tenants : AllocMap'[u] # None /\ p \subseteq AllocMap'[u] => p = AllocMap'[u]
    <3>1. p \in linked <=>
            \A u \in Tenants : AllocMap[u] # None /\ p \subseteq AllocMap[u] => p = AllocMap[u]
      BY DEF TrieOK, LinkedOK
    <3>2. p \in linked' <=> p \in linked \/ p \subseteq node
      BY <1>3
    <3>3. p # {}
      BY PrefixNotEmpty
    <3>4. ASSUME p \subseteq node, NEW u \in Tenants, u # t, AllocMap[u] # None
          PROVE  ~(p \subseteq AllocMap[u])
      BY <1>5, <3>3, <3>4
    <3> QED
      BY <1>1, <1>2, <1>4, <3>1, <3>2, <3>4
  <2> QED
    BY <2>1 DEF LinkedOK
<1>8. \A u \in Tenants : AllocMap'[u] # None => owner'[AllocMap'[u]] = u
  <2>1. ASSUME NEW u \in Tenants, u # t, AllocMap[u] # None PROVE owner'[AllocMap[u]] = u
    <3>1. AllocMap[u] \in Prefixes /\ owner[AllocMap[u]] = u
      BY <2>1, TenantNode
    <3>2. ~(AllocMap[u] \subseteq node)
      BY <1>5, <2>1, <3>1, PrefixNotEmpty
    <3> QED
      BY <1>4, <3>1, <3>2
  <2> QED
    BY <1>4, <2>1
<1>9. \A p \in linked' : owner'[p] # None => AllocMap'[owner'[p]] = p
  <2>1. SUFFICES ASSUME NEW p \in linked', owner'[p] # None PROVE AllocMap'[owner'[p]] = p
    OBVIOUS
  <2>2. p \in Prefixes
    BY <1>3 DEF Subnet!TypeOK
  <2>3. ~(p \subseteq node) /\ owner'[p] = owner[p]
    BY <1>4, <2>1, <2>2
  <2>4. p \in linked
    BY <1>3, <2>3
  <2>5. AllocMap[owner[p]] = p /\ owner[p] \in Tenants
    BY <2>1, <2>2, <2>3, <2>4 DEF TrieOK, FlagsOK, Subnet!TypeOK
  <2>6. owner[p] # t
    BY <1>2, <2>3, <2>5
  <2> QED
    BY <1>4, <2>3, <2>5, <2>6
<1> QED
  BY <1>6, <1>7, <1>8, <1>9 DEF TrieOK, FlagsOK

LEMMA ExpandTrie ==
  ASSUME Subnet!TypeOK, TrieOK, NEW t \in Tenants, Subnet!Expand(t)
  PROVE  TrieOK'
<1>1. AllocMap[t] # None /\ AllocMap[t] # Subnet!Root
  BY DEF Subnet!Expand
<1>2. PICK node \in Prefixes : node = AllocMap[t]
  BY <1>1 DEF Subnet!TypeOK
<1>3. PICK parent : parent = Subnet!Parent(node)
  OBVIOUS
<1>4. PICK sibling : sibling = Subnet!Sibling(node)
  OBVIOUS
<1>5. /\ sibling = parent \ node
      /\ parent \in Prefixes /\ sibling \in Prefixes /\ node \subseteq parent /\ node # parent
      /\ \A q \in Prefixes : node \subseteq q /\ node # q => parent \subseteq q
  BY <1>1, <1>2, <1>3, <1>4, PrefixAssumption DEF Subnet!HasParent, Subnet!Sibling
<1>6. /\ ~ \E q \in linked : q \subseteq sibling /\ owner[q] # None
      /\ owner' = [owner EXCEPT ![parent] = t, ![node] = None, ![sibling] = None]
      /\ linked' = {q \in linked : q \subseteq parent => q = parent}
      /\ AllocMap' = [AllocMap EXCEPT ![t] = parent]
  BY <1>2, <1>3, <1>4 DEF Subnet!Expand, Subnet!hasAllocatedDescendants
<1>7. parent # sibling /\ parent # None /\ node # {} /\ sibling # {}
  BY <1>5, PrefixNotEmpty
<1>8. /\ AllocMap'[t] = parent /\ owner'[parent] = t
      /\ \A u \in Tenants : u # t => AllocMap'[u] = AllocMap[u]
      /\ \A q \in Prefixes : q \notin {parent, node, sibling} => owner'[q] = owner[q]
  BY <1>5, <1>6, <1>7 DEF Subnet!TypeOK
<1>9. ASSUME NEW u \in Tenants, u # t, AllocMap[u] # None PROVE AllocMap[u] \cap parent = {}
  <2>1. AllocMap[u] \in Prefixes /\ AllocMap[u] \in linked /\ owner[AllocMap[u]] = u
    BY <1>9, TenantNode
  <2>2. AllocMap[u] \cap node = {} /\ AllocMap[u] # {}
    BY <1>1, <1>2, <1>9, <2>1, PrefixNotEmpty DEF TrieOK, NodesDisjoint
  <2>3. ~(parent \subseteq AllocMap[u])
    BY <1>5, <1>7, <2>2
  <2>4. AllocMap[u] \subseteq parent => AllocMap[u] \subseteq sibling
    BY <1>5, <2>2
  <2>5. ~(AllocMap[u] \subseteq sibling)
    BY <1>6, <2>1, NoneAssumption
  <2> QED
    BY <1>5, <2>1, <2>3, <2>4, <2>5, NestedOrDisjoint
<1>10. NodesDisjoint'
  BY <1>7, <1>8, <1>9 DEF TrieOK, NodesDisjoint
<1>11. LinkedOK'
  <2>1. ASSUME NEW p \in Prefixes
        PROVE  p \in linked' <=>
                 \A u \in Tenants : AllocMap'[u] # None /\ p \subseteq AllocMap'[u] => p = AllocMap'[u]
    <3>1. p \in linked <=>
            \A u \in Tenants : AllocMap[u] # None /\ p \subseteq AllocMap[u] => p = AllocMap[u]
      BY DEF TrieOK, LinkedOK
    <3>2. p \in linked' <=> p \in linked /\ (p \subseteq parent => p = parent)
      BY <1>6
    <3>3. (p \subseteq parent => p = parent) => ~(p \subseteq node)
      BY <1>5
    <3> QED
      BY <1>1, <1>2, <1>5, <1>7, <1>8, <3>1, <3>2, <3>3
  <2> QED
    BY <2>1 DEF LinkedOK
<1>12. \A u \in Tenants : AllocMap'[u] # None => owner'[AllocMap'[u]] = u
  <2>1. ASSUME NEW u \in Tenants, u # t, AllocMap[u] # None PROVE owner'[AllocMap[u]] = u
    <3>1. AllocMap[u] \in Prefixes /\ owner[AllocMap[u]] = u
      BY <2>1, TenantNode
    <3>2. AllocMap[u] \notin {parent, node, sibling}
      BY <1>5, <1>7, <1>9, <2>1
    <3> QED
      BY <1>8, <3>1, <3>2
  <2> QED
    BY <1>8, <2>1
<1>13. \A p \in linked' : owner'[p] # None => AllocMap'[owner'[p]] = p
  <2>1. SUFFICES ASSUME NEW p \in linked', owner'[p] # None, p # parent PROVE AllocMap'[owner'[p]] = p
    BY <1>8
  <2>2. p \in linked /\ ~(p \subseteq parent) /\ p \in Prefixes
    BY <1>6, <2>1 DEF Subnet!TypeOK
  <2>3. p \notin {parent, node, sibling}
    BY <1>5, <2>2
  <2>4. owner'[p] = owner[p] /\ AllocMap[owner[p]] = p /\ owner[p] \in Tenants
    BY <1>8, <2>1, <2>2, <2>3 DEF TrieOK, FlagsOK, Subnet!TypeOK
  <2>5. owner[p] # t
    BY <1>2, <2>3, <2>4
  <2> QED
    BY <1>8, <2>4, <2>5
<1> QED
  BY <1>10, <1>11, <1>12, <1>13 DEF TrieOK, FlagsOK

(* Only three calls of the manager touch the trie.                         *)
LEMMA TrieNext == IInv /\ TrieOK /\ [Next]_vars => TrieOK'
<1> SUFFICES ASSUME IInv, TrieOK, [Next]_vars PROVE TrieOK'
  OBVIOUS
<1>1. Subnet!TypeOK
  BY DEF IInv, TypeOK
<1>2. ASSUME UNCHANGED subnetVars PROVE TrieOK'
  BY <1>2 DEF subnetVars, TrieOK, LinkedOK, FlagsOK, NodesDisjoint
<1>3. ASSUME NEW t \in Tenants, TryDeallocate(t) PROVE TrieOK'
  BY <1>1, <1>2, <1>3, DeallocateTrie DEF TryDeallocate
<1>4. ASSUME NEW t \in Tenants, Command(t) PROVE UNCHANGED subnetVars
  BY <1>4 DEF Command, EnsureTenant, RemoveTenant
<1>5. ASSUME NEW t \in Tenants, Actor(t) PROVE TrieOK'
  <2>1. CASE ExpandSubnet(t)
    BY <1>1, <1>2, <2>1, ExpandTrie DEF ExpandSubnet
  <2>2. ASSUME ~ExpandSubnet(t) PROVE UNCHANGED subnetVars
    BY <1>5, <2>2 DEF Actor, ReceiveEnsure, ReceiveRemove, ReceiveStop, Refuse, Allocate, Exhausted,
       LookupBridge, SetupVeth, RequestExpansion, UpdateBridge, UpdateVtep, ExpandIPAM,
       ExpandRecord, ReconcilePods, TornRead
  <2> QED
    BY <1>2, <2>1, <2>2
<1>6. ASSUME NEW p \in Pods, Request(p) PROVE UNCHANGED subnetVars
  BY <1>6 DEF Request, Lookup, Send, GiveUp
<1>7. ASSUME Dispatcher PROVE TrieOK'
  <2>1. disp.pc # "idle" => disp.t \in Tenants
    BY DispFacts
  <2>2. CASE EnsureSubnet
    <3>1. PICK t \in Tenants : t = disp.t
      BY <2>1, <2>2 DEF EnsureSubnet, At
    <3> QED
      BY <1>1, <1>2, <2>2, <3>1, AllocateTrie DEF EnsureSubnet
  <2>3. CASE EnsureBackend \/ EnsurePolicy \/ EnsureCommit \/ RemoveSubnet
    <3>1. PICK t \in Tenants : t = disp.t
      BY <2>1, <2>3 DEF EnsureBackend, EnsurePolicy, EnsureCommit, RemoveSubnet, At
    <3>2. UNCHANGED subnetVars \/ TryDeallocate(t)
      BY <2>3, <3>1 DEF EnsureBackend, EnsurePolicy, EnsureCommit, RemoveSubnet
    <3> QED
      BY <1>2, <1>3, <3>2
  <2>4. CASE \/ StartTenantActor \/ RemoveVtep \/ RemoveBridge \/ RemoveFields
             \/ RemoveStop \/ RemoveActor \/ RemoveRecord
    BY <1>2, <2>4 DEF StartTenantActor, RemoveVtep, RemoveBridge, RemoveFields, RemoveStop,
       RemoveActor, RemoveRecord
  <2> QED
    BY <1>7, <2>2, <2>3, <2>4 DEF Dispatcher
<1>8. ASSUME UNCHANGED vars PROVE TrieOK'
  BY <1>2, <1>8 DEF vars
<1> QED
  BY <1>2, <1>4, <1>5, <1>6, <1>7, <1>8 DEF Next

(* The manager's calls keep the trie and the map of tenants in step, and   *)
(* no two tenants of the node overlap, whichever commands, expansions and  *)
(* failures interleave.                                                    *)
THEOREM TrieSound == Spec => []TrieOK
<1>1. Init => TrieOK
  BY DEF Init, Subnet!Init, TrieOK, LinkedOK, FlagsOK, NodesDisjoint
<1> QED
  BY <1>1, TrieNext, InvariantHolds, PTL DEF Spec

-----------------------------------------------------------------------------
(* Requests, messages and interfaces.                                      *)

Absent(k, box) == \A i \in DOMAIN box : box[i].pod # k

NoEnsure(k, box) == \A i \in DOMAIN box : box[i].pod = k => box[i].kind # "ensure"

(* A message that somebody waits for is the last one about its pod, and    *)
(* the request c is the one that sent it.                                  *)
BoxLive(k, box, c) ==
  \A i \in DOMAIN box : box[i].pod = k /\ box[i].live =>
    /\ c.at = "sent" /\ c.kind = box[i].kind
    /\ \A j \in DOMAIN box : i < j => box[j].pod # k

(* Pod k of a tenant with actor a and mailbox box, its request c and its   *)
(* interface e: nothing that is queued or under way would attach a pod     *)
(* that is attached.                                                       *)
LiveOK(k, a, box, c, e) ==
  /\ a.live /\ a.pod = k => c.at = "sent" /\ c.kind = "ensure" /\ Absent(k, box)
  /\ BoxLive(k, box, c)
  /\ e # None =>
       /\ c.at # "none" => c.kind = "remove"
       /\ a.pod # k
       /\ NoEnsure(k, box)

LInv == \A p \in Pods : LiveOK(p[2], actor[p[1]], inbox[p[1]], call[p], eth[p])

(* A step that concerns the pods of tenant t only.                         *)
LEMMA LiveFrame ==
  ASSUME LInv, NEW t,
         \A u \in Tenants : u # t => actor'[u] = actor[u] /\ inbox'[u] = inbox[u],
         \A p \in Pods : p[1] # t => call'[p] = call[p] /\ eth'[p] = eth[p],
         \A p \in Pods : p[1] = t => LiveOK(p[2], actor'[t], inbox'[t], call'[p], eth'[p])
  PROVE  LInv'
<1>1. ASSUME NEW p \in Pods PROVE LiveOK(p[2], actor'[p[1]], inbox'[p[1]], call'[p], eth'[p])
  <2>1. p[1] \in Tenants
    BY PodFacts
  <2>2. CASE p[1] # t
    BY <2>1, <2>2 DEF LInv
  <2> QED
    BY <2>2
<1> QED
  BY <1>1 DEF LInv

LEMMA LivePod ==
  ASSUME LInv, NEW t, NEW p \in Pods, p[1] = t
  PROVE  LiveOK(p[2], actor[t], inbox[t], call[p], eth[p])
BY DEF LInv

(* Only interfaces go, and no actor, mailbox or request changes.           *)
LEMMA LiveSame ==
  ASSUME LInv, UNCHANGED actorVars, \A p \in Pods : eth'[p] # None => eth[p] # None
  PROVE  LInv'
<1>1. actor' = actor /\ inbox' = inbox /\ call' = call
  BY DEF actorVars
<1>2. ASSUME NEW p \in Pods PROVE LiveOK(p[2], actor'[p[1]], inbox'[p[1]], call'[p], eth'[p])
  <2>1. LiveOK(p[2], actor[p[1]], inbox[p[1]], call[p], eth[p])
    BY DEF LInv
  <2> QED
    BY <1>1, <2>1 DEF LiveOK
<1> QED
  BY <1>2 DEF LInv

(* An actor goes on with its message.                                      *)
LEMMA LiveStep ==
  ASSUME IInv, LInv, NEW t \in Tenants, NEW a,
         actor' = [actor EXCEPT ![t] = a], a.pod = actor[t].pod, a.live = actor[t].live,
         UNCHANGED <<inbox, call>>, \A p \in Pods : eth'[p] # None => eth[p] # None
  PROVE  LInv'
<1>1. actor \in [Tenants -> ActorStates]
  BY DEF IInv, TypeOK
<1>2. actor'[t] = a /\ \A u \in Tenants : u # t => actor'[u] = actor[u]
  BY <1>1
<1>3. ASSUME NEW p \in Pods PROVE LiveOK(p[2], actor'[p[1]], inbox'[p[1]], call'[p], eth'[p])
  <2>1. LiveOK(p[2], actor[p[1]], inbox[p[1]], call[p], eth[p]) /\ p[1] \in Tenants
    BY PodFacts DEF LInv
  <2>2. actor'[p[1]].pod = actor[p[1]].pod /\ actor'[p[1]].live = actor[p[1]].live
    BY <1>2, <2>1
  <2> QED
    BY <2>1, <2>2 DEF LiveOK
<1> QED
  BY <1>3 DEF LInv

LEMMA EndedNone ==
  ASSUME NEW c
  PROVE  Ended(c).at = "none"
BY DEF Ended, NoCall

(* What an answer to message m of tenant t does to the request of pod p.   *)
LEMMA AnswerFacts ==
  ASSUME TypeOK, NEW t, NEW m, Answer(t, m), NEW p \in Pods
  PROVE  /\ m.live /\ p = <<t, m.pod>> => call'[p].at = "none"
         /\ ~(m.live /\ p = <<t, m.pod>>) => call'[p] = call[p]
<1>1. call \in [Pods -> Requests]
  BY DEF TypeOK
<1>2. CASE m.live
  <2>1. call' = [call EXCEPT ![<<t, m.pod>>] = Ended(call[<<t, m.pod>>])]
    BY <1>2 DEF Answer
  <2>2. p = <<t, m.pod>> => call'[p] = Ended(call[p])
    BY <1>1, <2>1
  <2>3. p # <<t, m.pod>> => call'[p] = call[p]
    BY <1>1, <2>1
  <2> QED
    BY <1>2, <2>2, <2>3, EndedNone
<1>3. CASE ~m.live
  BY <1>3 DEF Answer
<1> QED
  BY <1>2, <1>3

(* The end of a handler, which may have attached the pod somebody waits    *)
(* for.                                                                    *)
LEMMA LiveReturn ==
  ASSUME IInv, LInv, NEW t \in Tenants, Return(t), inbox' = inbox,
         \A p \in Pods : eth'[p] = eth[p] \/ (actor[t].live /\ p = <<t, actor[t].pod>>)
  PROVE  LInv'
<1>1. TypeOK /\ actor' = [actor EXCEPT ![t] = Loop] /\ Answer(t, actor[t])
  BY DEF Return, IInv
<1>2. actor'[t] = Loop /\ \A u \in Tenants : u # t => actor'[u] = actor[u]
  BY <1>1 DEF TypeOK
<1>3. Loop.live = FALSE /\ Loop.pod = None
  BY LoopFacts
<1>4. ASSUME NEW p \in Pods, p[1] # t PROVE call'[p] = call[p] /\ eth'[p] = eth[p]
  <2>1. p # <<t, actor[t].pod>>
    BY <1>4
  <2> QED
    BY <1>1, <2>1, AnswerFacts
<1>5. ASSUME NEW p \in Pods, p[1] = t PROVE LiveOK(p[2], Loop, inbox[t], call'[p], eth'[p])
  <2>1. LiveOK(p[2], actor[t], inbox[t], call[p], eth[p]) /\ p[2] # None /\ p = <<t, p[2]>>
    BY <1>5, LivePod, PodFacts
  <2>2. CASE actor[t].live /\ p = <<t, actor[t].pod>>
    <3>1. p[2] = actor[t].pod
      BY <2>2
    <3>2. Absent(p[2], inbox[t])
      BY <2>1, <2>2, <3>1 DEF LiveOK
    <3>3. call'[p].at = "none"
      BY <1>1, <2>2, AnswerFacts
    <3> QED
      BY <1>3, <2>1, <3>2, <3>3 DEF LiveOK, BoxLive, Absent, NoEnsure
  <2>3. CASE ~(actor[t].live /\ p = <<t, actor[t].pod>>)
    <3>1. call'[p] = call[p] /\ eth'[p] = eth[p]
      BY <1>1, <2>3, AnswerFacts
    <3> QED
      BY <1>3, <2>1, <3>1 DEF LiveOK
  <2> QED
    BY <2>2, <2>3
<1> QED
  BY <1>2, <1>4, <1>5, LiveFrame

(* Taking the first message m out of the mailbox.                          *)
LEMMA LiveTail ==
  ASSUME IInv, NEW t \in Tenants, inbox[t] # <<>>, NEW k, NEW c, BoxLive(k, inbox[t], c)
  PROVE  LET m == Head(inbox[t])
             rest == Tail(inbox[t]) IN
         /\ BoxLive(k, rest, c)
         /\ m.pod = k /\ m.live => c.at = "sent" /\ c.kind = m.kind /\ Absent(k, rest)
         /\ NoEnsure(k, inbox[t]) =>
              /\ m.pod = k => m.kind # "ensure"
              /\ NoEnsure(k, rest)
<1> DEFINE box == inbox[t]
           rest == Tail(box)
<1>1. /\ Head(box) = box[1] /\ 1 \in DOMAIN box
      /\ \A i \in DOMAIN rest : i \in Nat /\ i + 1 \in DOMAIN box /\ rest[i] = box[i + 1]
  BY MailFacts
<1>2. DOMAIN rest \subseteq Nat \ {0}
  <2>1. rest \in Seq(Messages)
    BY MailFacts
  <2> HIDE DEF rest
  <2> QED
    BY <2>1
<1> HIDE DEF box, rest
<1>3. BoxLive(k, box, c)
  BY DEF box
<1>4. BoxLive(k, rest, c)
  <2>1. SUFFICES ASSUME NEW i \in DOMAIN rest, rest[i].pod = k, rest[i].live
                 PROVE  /\ c.at = "sent" /\ c.kind = rest[i].kind
                        /\ \A j \in DOMAIN rest : i < j => rest[j].pod # k
    BY DEF BoxLive
  <2>2. /\ c.at = "sent" /\ c.kind = rest[i].kind
        /\ \A j \in DOMAIN box : i + 1 < j => box[j].pod # k
    BY <1>1, <1>3, <2>1 DEF BoxLive
  <2>3. ASSUME NEW j \in DOMAIN rest, i < j PROVE rest[j].pod # k
    BY <1>1, <1>2, <2>2, <2>3
  <2> QED
    BY <2>2, <2>3
<1>5. ASSUME box[1].pod = k, box[1].live
      PROVE  c.at = "sent" /\ c.kind = box[1].kind /\ Absent(k, rest)
  <2>1. /\ c.at = "sent" /\ c.kind = box[1].kind
        /\ \A j \in DOMAIN box : 1 < j => box[j].pod # k
    BY <1>1, <1>3, <1>5 DEF BoxLive
  <2>2. ASSUME NEW j \in DOMAIN rest PROVE rest[j].pod # k
    BY <1>1, <1>2, <2>1
  <2> QED
    BY <2>1, <2>2 DEF Absent
<1>6. ASSUME NoEnsure(k, box)
      PROVE  /\ box[1].pod = k => box[1].kind # "ensure"
             /\ NoEnsure(k, rest)
  BY <1>1, <1>6 DEF NoEnsure
<1> QED
  BY <1>1, <1>4, <1>5, <1>6 DEF box, rest

(* The facts that the three receiving actions share.                       *)
LEMMA LiveReceived ==
  ASSUME IInv, LInv, NEW t \in Tenants, NEW kind, Received(t, kind)
  PROVE  /\ TypeOK /\ actor[t] = Loop /\ inbox[t] # <<>> /\ Head(inbox[t]).kind = kind
         /\ inbox'[t] = Tail(inbox[t]) /\ \A u \in Tenants : u # t => inbox'[u] = inbox[u]
<1>1. /\ actor[t].pc = "loop" /\ inbox[t] # <<>> /\ Head(inbox[t]).kind = kind
      /\ inbox' = [inbox EXCEPT ![t] = Tail(inbox[t])]
  BY DEF Received, Running
<1>2. TypeOK /\ Fields(t, actor[t])
  BY TenantFacts
<1>3. inbox \in [Tenants -> Seq(Messages)]
  BY <1>2 DEF TypeOK
<1> QED
  BY <1>1, <1>2, <1>3 DEF Fields

LEMMA LiveReceiveEnsure ==
  ASSUME IInv, LInv, NEW t \in Tenants, ReceiveEnsure(t)
  PROVE  LInv'
<1>1. PICK m : m = Head(inbox[t])
  OBVIOUS
<1>2. Received(t, "ensure") /\ eth' = eth
  BY DEF ReceiveEnsure, kernelVars
<1>3. /\ TypeOK /\ actor[t] = Loop /\ inbox[t] # <<>> /\ m.kind = "ensure"
      /\ inbox'[t] = Tail(inbox[t]) /\ \A u \in Tenants : u # t => inbox'[u] = inbox[u]
  BY <1>1, <1>2, LiveReceived
<1>4. PICK rest : rest = Tail(inbox[t])
  OBVIOUS
<1>5. Loop.live = FALSE /\ Loop.pod = None /\ Loop \in ActorStates
  BY LoopFacts
<1>6. ASSUME NEW p \in Pods, p[1] = t
      PROVE  /\ p[2] # None /\ p = <<t, p[2]>> /\ BoxLive(p[2], rest, call[p])
             /\ m.pod = p[2] /\ m.live =>
                  call[p].at = "sent" /\ call[p].kind = "ensure" /\ Absent(p[2], rest)
             /\ eth[p] # None =>
                  /\ call[p].at # "none" => call[p].kind = "remove"
                  /\ m.pod # p[2]
                  /\ NoEnsure(p[2], rest)
  <2>1. LiveOK(p[2], actor[t], inbox[t], call[p], eth[p]) /\ p[2] # None /\ p = <<t, p[2]>>
    BY <1>6, LivePod, PodFacts
  <2>2. BoxLive(p[2], inbox[t], call[p])
    BY <2>1 DEF LiveOK
  <2>3. /\ BoxLive(p[2], rest, call[p])
        /\ m.pod = p[2] /\ m.live => call[p].at = "sent" /\ call[p].kind = m.kind /\ Absent(p[2], rest)
        /\ NoEnsure(p[2], inbox[t]) =>
             /\ m.pod = p[2] => m.kind # "ensure"
             /\ NoEnsure(p[2], rest)
    <3>1. inbox[t] # <<>>
      BY <1>3
    <3> QED
      BY <1>1, <1>4, <2>2, <3>1, LiveTail
  <2> QED
    BY <1>3, <2>1, <2>3 DEF LiveOK
<1>7. CASE Answer(t, m) /\ UNCHANGED actor
  <2>1. ASSUME NEW p \in Pods, p[1] # t PROVE call'[p] = call[p]
    <3>1. p # <<t, m.pod>>
      BY <2>1
    <3> QED
      BY <1>3, <1>7, <3>1, AnswerFacts
  <2>2. ASSUME NEW p \in Pods, p[1] = t PROVE LiveOK(p[2], Loop, rest, call'[p], eth[p])
    <3>1. CASE m.live /\ p = <<t, m.pod>>
      <4>1. call'[p].at = "none"
        BY <1>3, <1>7, <3>1, AnswerFacts
      <4>2. m.pod = p[2]
        BY <3>1
      <4>3. Absent(p[2], rest) /\ p[2] # None
        BY <1>6, <2>2, <3>1, <4>2
      <4> QED
        BY <1>5, <4>1, <4>3 DEF LiveOK, BoxLive, Absent, NoEnsure
    <3>2. CASE ~(m.live /\ p = <<t, m.pod>>)
      <4>1. call'[p] = call[p]
        BY <1>3, <1>7, <3>2, AnswerFacts
      <4> QED
        BY <1>5, <1>6, <2>2, <4>1 DEF LiveOK
    <3> QED
      BY <3>1, <3>2
  <2> QED
    BY <1>2, <1>3, <1>4, <1>7, <2>1, <2>2, LiveFrame
<1>8. CASE /\ actor' = [actor EXCEPT ![t] = [Loop EXCEPT !.pc = "ensure", !.pod = m.pod, !.live = m.live]]
           /\ UNCHANGED call
  <2>1. PICK a : a = [Loop EXCEPT !.pc = "ensure", !.pod = m.pod, !.live = m.live]
    OBVIOUS
  <2>2. a.pod = m.pod /\ a.live = m.live
    BY <1>5, <2>1 DEF ActorStates
  <2>3. actor'[t] = a /\ \A u \in Tenants : u # t => actor'[u] = actor[u]
    BY <1>3, <1>8, <2>1 DEF TypeOK
  <2>4. ASSUME NEW p \in Pods, p[1] = t PROVE LiveOK(p[2], a, rest, call[p], eth[p])
    BY <1>6, <2>2, <2>4 DEF LiveOK
  <2> QED
    BY <1>2, <1>3, <1>4, <1>8, <2>3, <2>4, LiveFrame
<1> QED
  BY <1>1, <1>7, <1>8 DEF ReceiveEnsure

LEMMA LiveReceiveRemove ==
  ASSUME IInv, LInv, NEW t \in Tenants, ReceiveRemove(t)
  PROVE  LInv'
<1>1. PICK m : m = Head(inbox[t])
  OBVIOUS
<1>2. /\ Received(t, "remove") /\ Answer(t, m) /\ actor' = actor
      /\ eth' = IF m.live THEN [eth EXCEPT ![<<t, m.pod>>] = None] ELSE eth
  BY <1>1 DEF ReceiveRemove
<1>3. /\ TypeOK /\ actor[t] = Loop /\ inbox[t] # <<>>
      /\ inbox'[t] = Tail(inbox[t]) /\ \A u \in Tenants : u # t => inbox'[u] = inbox[u]
  BY <1>2, LiveReceived
<1>4. PICK rest : rest = Tail(inbox[t])
  OBVIOUS
<1>5. Loop.live = FALSE /\ Loop.pod = None
  BY LoopFacts
<1>6. eth \in [Pods -> OrNone(Interfaces)]
  BY <1>3 DEF TypeOK
<1>7. ASSUME NEW p \in Pods PROVE eth'[p] = eth[p] \/ (m.live /\ p = <<t, m.pod>> /\ eth'[p] = None)
  BY <1>2, <1>6
<1>8. ASSUME NEW p \in Pods, p[1] # t PROVE call'[p] = call[p] /\ eth'[p] = eth[p]
  <2>1. p # <<t, m.pod>>
    BY <1>8
  <2> QED
    BY <1>2, <1>3, <1>7, <2>1, AnswerFacts
<1>9. ASSUME NEW p \in Pods, p[1] = t PROVE LiveOK(p[2], Loop, rest, call'[p], eth'[p])
  <2>1. LiveOK(p[2], Loop, inbox[t], call[p], eth[p]) /\ p[2] # None /\ p = <<t, p[2]>>
    BY <1>3, <1>9, LivePod, PodFacts
  <2>2. BoxLive(p[2], inbox[t], call[p])
    BY <2>1 DEF LiveOK
  <2>3. /\ BoxLive(p[2], rest, call[p])
        /\ m.pod = p[2] /\ m.live => call[p].at = "sent" /\ call[p].kind = m.kind /\ Absent(p[2], rest)
        /\ NoEnsure(p[2], inbox[t]) =>
             /\ m.pod = p[2] => m.kind # "ensure"
             /\ NoEnsure(p[2], rest)
    BY <1>1, <1>3, <1>4, <2>2, LiveTail
  <2>4. CASE m.live /\ p = <<t, m.pod>>
    <3>1. call'[p].at = "none"
      BY <1>2, <1>3, <2>4, AnswerFacts
    <3>2. m.pod = p[2]
      BY <2>4
    <3>3. Absent(p[2], rest)
      BY <2>3, <2>4, <3>2
    <3> QED
      BY <1>5, <2>1, <3>1, <3>3 DEF LiveOK, BoxLive, Absent, NoEnsure
  <2>5. CASE ~(m.live /\ p = <<t, m.pod>>)
    <3>1. call'[p] = call[p] /\ eth'[p] = eth[p]
      BY <1>2, <1>3, <1>7, <2>5, AnswerFacts
    <3> QED
      BY <1>5, <2>1, <2>3, <3>1 DEF LiveOK
  <2> QED
    BY <2>4, <2>5
<1>10. actor'[t] = Loop /\ \A u \in Tenants : actor'[u] = actor[u]
  BY <1>2, <1>3
<1> QED
  BY <1>3, <1>4, <1>8, <1>9, <1>10, LiveFrame

(* An actor that starts or stops has an empty mailbox.                     *)
LEMMA LiveFresh ==
  ASSUME IInv, LInv, NEW t \in Tenants, NEW a \in {Loop, Off},
         actor' = [actor EXCEPT ![t] = a], inbox' = [inbox EXCEPT ![t] = <<>>],
         UNCHANGED <<call, eth>>
  PROVE  LInv'
<1>1. TypeOK
  BY DEF IInv
<1>2. /\ actor'[t] = a /\ inbox'[t] = <<>>
      /\ \A u \in Tenants : u # t => actor'[u] = actor[u] /\ inbox'[u] = inbox[u]
  BY <1>1 DEF TypeOK
<1>3. a.live = FALSE /\ a.pod = None
  BY LoopFacts
<1>4. ASSUME NEW p \in Pods, p[1] = t PROVE LiveOK(p[2], a, <<>>, call[p], eth[p])
  <2>1. LiveOK(p[2], actor[t], inbox[t], call[p], eth[p]) /\ p[2] # None
    BY <1>4, LivePod, PodFacts
  <2>2. DOMAIN <<>> = {}
    OBVIOUS
  <2> QED
    BY <1>3, <2>1, <2>2 DEF LiveOK, BoxLive, NoEnsure
<1> QED
  BY <1>2, <1>4, LiveFrame

(* box is old with message m at its end.                                   *)
AddedTo(old, m, box) ==
  \E n \in Nat : /\ DOMAIN old = 1 .. n /\ DOMAIN box = 1 .. (n + 1) /\ box[n + 1] = m
                 /\ \A i \in 1 .. n : box[i] = old[i]

LEMMA AppendAdds ==
  ASSUME NEW old \in Seq(Messages), NEW m, NEW box, box = Append(old, m)
  PROVE  AddedTo(old, m, box)
<1>1. PICK n \in Nat : n = Len(old)
  OBVIOUS
<1>2. DOMAIN old = 1 .. n /\ DOMAIN box = 1 .. (n + 1) /\ box[n + 1] = m
  BY <1>1
<1>3. \A i \in 1 .. n : box[i] = old[i]
  BY <1>1
<1> QED
  BY <1>2, <1>3 DEF AddedTo

LEMMA LiveAppend ==
  ASSUME NEW old, NEW m, NEW box, AddedTo(old, m, box), NEW k, NEW c
  PROVE  /\ BoxLive(k, old, c) /\ m.pod # k => BoxLive(k, box, c)
         /\ Absent(k, old) /\ m.pod # k => Absent(k, box)
         /\ (\A i \in DOMAIN old : ~(old[i].pod = k /\ old[i].live)) /\ c.at = "sent" /\ c.kind = m.kind
              => BoxLive(k, box, c)
         /\ NoEnsure(k, old) /\ (m.pod = k => m.kind # "ensure") => NoEnsure(k, box)
<1>1. PICK n \in Nat : /\ DOMAIN old = 1 .. n /\ DOMAIN box = 1 .. (n + 1) /\ box[n + 1] = m
                      /\ \A i \in 1 .. n : box[i] = old[i]
  BY DEF AddedTo
<1>2. \A i \in DOMAIN box : (i \in DOMAIN old /\ box[i] = old[i]) \/ (i = n + 1 /\ box[i] = m)
  BY <1>1
<1>3. ASSUME BoxLive(k, old, c), m.pod # k PROVE BoxLive(k, box, c)
  <2>1. SUFFICES ASSUME NEW i \in DOMAIN box, box[i].pod = k, box[i].live
                 PROVE  /\ c.at = "sent" /\ c.kind = box[i].kind
                        /\ \A j \in DOMAIN box : i < j => box[j].pod # k
    BY DEF BoxLive
  <2>2. i \in DOMAIN old /\ box[i] = old[i]
    BY <1>2, <1>3, <2>1
  <2>3. /\ c.at = "sent" /\ c.kind = box[i].kind
        /\ \A j \in DOMAIN old : i < j => old[j].pod # k
    BY <1>3, <2>1, <2>2 DEF BoxLive
  <2> QED
    BY <1>2, <1>3, <2>3
<1>4. ASSUME Absent(k, old), m.pod # k PROVE Absent(k, box)
  BY <1>2, <1>4 DEF Absent
<1>5. ASSUME \A i \in DOMAIN old : ~(old[i].pod = k /\ old[i].live), c.at = "sent", c.kind = m.kind
      PROVE  BoxLive(k, box, c)
  <2>1. SUFFICES ASSUME NEW i \in DOMAIN box, box[i].pod = k, box[i].live
                 PROVE  /\ c.at = "sent" /\ c.kind = box[i].kind
                        /\ \A j \in DOMAIN box : i < j => box[j].pod # k
    BY DEF BoxLive
  <2>2. i = n + 1 /\ box[i] = m
    BY <1>2, <1>5, <2>1
  <2>3. \A j \in DOMAIN box : ~(i < j)
    BY <1>1, <2>2
  <2> QED
    BY <1>5, <2>2, <2>3
<1>6. ASSUME NoEnsure(k, old), m.pod = k => m.kind # "ensure" PROVE NoEnsure(k, box)
  BY <1>2, <1>6 DEF NoEnsure
<1> QED
  BY <1>3, <1>4, <1>5, <1>6

LEMMA LiveRemoveStop ==
  ASSUME IInv, LInv, RemoveStop
  PROVE  LInv'
<1>1. disp.pc = "stop" /\ UNCHANGED <<actor, call, eth>>
  BY DEF RemoveStop, At, kernelVars
<1>2. PICK t \in Tenants : disp.t = t
  BY <1>1, DispFacts
<1>3. CASE UNCHANGED inbox
  BY <1>1, <1>3, LiveSame DEF actorVars
<1>4. CASE inbox' = [inbox EXCEPT ![t] = Append(inbox[t], StopMessage)]
  <2>1. PICK box : box = Append(inbox[t], StopMessage)
    OBVIOUS
  <2>2. inbox'[t] = box /\ \A u \in Tenants : u # t => inbox'[u] = inbox[u]
    BY <1>4, <2>1 DEF IInv, TypeOK
  <2>5. AddedTo(inbox[t], StopMessage, box)
    BY <2>1, TenantFacts, TypeFacts, AppendAdds
  <2>3. StopMessage.pod = None
    BY DEF StopMessage
  <2>4. ASSUME NEW p \in Pods, p[1] = t PROVE LiveOK(p[2], actor[t], box, call[p], eth[p])
    <3>1. LiveOK(p[2], actor[t], inbox[t], call[p], eth[p]) /\ p[2] # None
      BY <2>4, LivePod, PodFacts
    <3>2. BoxLive(p[2], box, call[p])
      BY <2>3, <2>5, <3>1, LiveAppend DEF LiveOK
    <3>3. Absent(p[2], inbox[t]) => Absent(p[2], box)
      BY <2>3, <2>5, <3>1, LiveAppend
    <3>4. NoEnsure(p[2], inbox[t]) => NoEnsure(p[2], box)
      BY <2>3, <2>5, <3>1, LiveAppend
    <3> QED
      BY <3>1, <3>2, <3>3, <3>4 DEF LiveOK
  <2> QED
    BY <1>1, <2>2, <2>4, LiveFrame
<1> QED
  BY <1>2, <1>3, <1>4 DEF RemoveStop

LEMMA LiveLookup ==
  ASSUME IInv, LInv, NEW p \in Pods, NEW kind, Lookup(p, kind), eth[p] # None => kind = "remove"
  PROVE  LInv'
<1>1. PICK t \in Tenants : t = p[1]
  BY PodFacts
<1>2. /\ call[p].at = "none" /\ UNCHANGED <<actor, inbox, eth>>
      /\ call' = [call EXCEPT ![p] =
           [at |-> "found", kind |-> kind, h |-> TenantActors[p[1]],
            sandbox |-> IF kind = "ensure" THEN call[p].sandbox + 1 ELSE call[p].sandbox]]
  BY DEF Lookup, kernelVars
<1>3. /\ call'[p].kind = kind /\ \A q \in Pods : q # p => call'[q] = call[q]
  BY <1>2 DEF IInv, TypeOK
<1>4. ASSUME NEW q \in Pods, q[1] = t PROVE LiveOK(q[2], actor[t], inbox[t], call'[q], eth[q])
  <2>1. LiveOK(q[2], actor[t], inbox[t], call[q], eth[q])
    BY <1>4, LivePod
  <2>2. CASE q = p
    BY <1>2, <1>3, <2>1, <2>2 DEF LiveOK, BoxLive
  <2>3. CASE q # p
    BY <1>3, <2>1, <2>3
  <2> QED
    BY <2>2, <2>3
<1> QED
  BY <1>1, <1>2, <1>3, <1>4, LiveFrame

LEMMA LiveSend ==
  ASSUME IInv, LInv, NEW p \in Pods, Send(p)
  PROVE  LInv'
<1>1. PICK t \in Tenants, k \in PodKeys : t = p[1] /\ k = p[2] /\ p = <<t, k>>
  BY PodFacts
<1>2. /\ call[p].at = "found" /\ UNCHANGED <<actor, eth>>
      /\ call' = [call EXCEPT ![p].at = "sent"]
  BY DEF Send, kernelVars
<1>3. call \in [Pods -> Requests] /\ inbox \in [Tenants -> Seq(Messages)]
  BY DEF IInv, TypeOK
<1>4. /\ call'[p].at = "sent" /\ call'[p].kind = call[p].kind
      /\ \A q \in Pods : q # p => call'[q] = call[q]
  BY <1>2, <1>3 DEF Requests
<1>5. LiveOK(k, actor[t], inbox[t], call[p], eth[p])
  BY <1>1, LivePod
<1>6. /\ ~(actor[t].live /\ actor[t].pod = k)
      /\ \A i \in DOMAIN inbox[t] : ~(inbox[t][i].pod = k /\ inbox[t][i].live)
      /\ eth[p] # None => call[p].kind = "remove"
  BY <1>2, <1>5 DEF LiveOK, BoxLive
<1>7. CASE UNCHANGED inbox
  <2>1. ASSUME NEW q \in Pods, q[1] = t PROVE LiveOK(q[2], actor[t], inbox[t], call'[q], eth[q])
    <3>1. LiveOK(q[2], actor[t], inbox[t], call[q], eth[q])
      BY <2>1, LivePod
    <3>2. CASE q = p
      BY <1>1, <1>4, <1>6, <3>1, <3>2 DEF LiveOK, BoxLive
    <3>3. CASE q # p
      BY <1>4, <3>1, <3>3
    <3> QED
      BY <3>2, <3>3
  <2> QED
    BY <1>1, <1>2, <1>4, <1>7, <2>1, LiveFrame
<1> DEFINE m == [kind |-> call[p].kind, pod |-> k, live |-> TRUE]
<1>8. CASE inbox' = [inbox EXCEPT ![t] = Append(inbox[t], m)]
  <2>1. m.kind = call[p].kind /\ m.pod = k
    OBVIOUS
  <2>2. PICK box : box = Append(inbox[t], m)
    OBVIOUS
  <2>3. inbox'[t] = box /\ \A u \in Tenants : u # t => inbox'[u] = inbox[u]
    BY <1>3, <1>8, <2>2
  <2> HIDE DEF m
  <2>5. AddedTo(inbox[t], m, box)
    BY <1>3, <2>2, AppendAdds
  <2>4. ASSUME NEW q \in Pods, q[1] = t PROVE LiveOK(q[2], actor[t], box, call'[q], eth[q])
    <3>1. LiveOK(q[2], actor[t], inbox[t], call[q], eth[q]) /\ q = <<t, q[2]>>
      BY <2>4, LivePod, PodFacts
    <3>2. CASE q = p
      <4>1. q[2] = k
        BY <1>1, <3>2
      <4>2. BoxLive(k, box, call'[p])
        BY <1>4, <1>6, <2>1, <2>5, LiveAppend
      <4>3. eth[p] # None => NoEnsure(k, box)
        <5>1. SUFFICES ASSUME eth[p] # None
                       PROVE  NoEnsure(k, box)
          OBVIOUS
        <5>2. /\ NoEnsure(k, inbox[t])
              /\ m.kind # "ensure"
          BY <1>5, <1>6, <2>1, <5>1 DEF LiveOK
        <5> QED
          BY <2>5, <5>2, LiveAppend
      <4> QED
        BY <1>4, <1>5, <1>6, <3>2, <4>1, <4>2, <4>3 DEF LiveOK
    <3>3. CASE q # p
      <4>1. q[2] # k
        BY <1>1, <3>1, <3>3
      <4>2. call'[q] = call[q] /\ m.pod # q[2]
        BY <1>4, <2>1, <3>3, <4>1
      <4>3. BoxLive(q[2], box, call[q])
        BY <2>5, <3>1, <4>2, LiveAppend DEF LiveOK
      <4>4. Absent(q[2], inbox[t]) => Absent(q[2], box)
        BY <2>5, <4>2, LiveAppend
      <4>5. NoEnsure(q[2], inbox[t]) => NoEnsure(q[2], box)
        BY <2>5, <4>2, LiveAppend
      <4> QED
        BY <3>1, <4>2, <4>3, <4>4, <4>5 DEF LiveOK
    <3> QED
      BY <3>2, <3>3
  <2> QED
    BY <1>1, <1>2, <1>4, <2>3, <2>4, LiveFrame
<1> QED
  BY <1>1, <1>7, <1>8 DEF Send

LEMMA LiveGiveUp ==
  ASSUME IInv, LInv, NEW p \in Pods, GiveUp(p)
  PROVE  LInv'
<1>1. PICK t \in Tenants, k \in PodKeys : t = p[1] /\ k = p[2] /\ p = <<t, k>>
  BY PodFacts
<1>2. /\ call' = [call EXCEPT ![p] = Ended(@)] /\ eth' = [eth EXCEPT ![p] = None]
      /\ inbox' = [inbox EXCEPT ![t] = [i \in DOMAIN inbox[t] |-> Orphaned(inbox[t][i], k)]]
      /\ actor' = [actor EXCEPT ![t] = Orphaned(actor[t], k)]
  BY <1>1 DEF GiveUp, Orphaned
<1>3. TypeOK /\ actor[t] \in ActorStates /\ inbox[t] \in Seq(Messages)
  BY TenantFacts, TypeFacts
<1>4. PICK box : box = [i \in DOMAIN inbox[t] |-> Orphaned(inbox[t][i], k)]
  OBVIOUS
<1>5. PICK a : a = Orphaned(actor[t], k)
  OBVIOUS
<1>6. /\ actor'[t] = a /\ inbox'[t] = box
      /\ \A u \in Tenants : u # t => actor'[u] = actor[u] /\ inbox'[u] = inbox[u]
  BY <1>2, <1>3, <1>4, <1>5 DEF TypeOK
<1>7. /\ call'[p] = Ended(call[p]) /\ eth'[p] = None
      /\ \A q \in Pods : q # p => call'[q] = call[q] /\ eth'[q] = eth[q]
  BY <1>2, <1>3 DEF TypeOK
<1>8. call'[p].at = "none"
  BY <1>7, EndedNone
<1>9. a.pod = actor[t].pod /\ (a.pod = k => a.live = FALSE) /\ (a.pod # k => a = actor[t])
  BY <1>3, <1>5 DEF Orphaned, ActorStates
<1>10. ASSUME NEW i \in DOMAIN box
       PROVE  /\ i \in DOMAIN inbox[t] /\ box[i].pod = inbox[t][i].pod
              /\ box[i].pod = k => box[i].live = FALSE
              /\ box[i].pod # k => box[i] = inbox[t][i]
  <2>1. PICK m \in Messages : m = inbox[t][i]
    BY <1>3, <1>4
  <2>2. i \in DOMAIN inbox[t] /\ box[i] = Orphaned(m, k)
    BY <1>4, <2>1
  <2> QED
    BY <2>1, <2>2 DEF Orphaned, Messages
<1>11. DOMAIN box = DOMAIN inbox[t]
  BY <1>4
<1>12. ASSUME NEW q \in Pods, q[1] = t PROVE LiveOK(q[2], a, box, call'[q], eth'[q])
  <2>1. LiveOK(q[2], actor[t], inbox[t], call[q], eth[q]) /\ q = <<t, q[2]>>
    BY <1>12, LivePod, PodFacts
  <2>2. CASE q = p
    <3>1. q[2] = k
      BY <1>1, <2>2
    <3>2. BoxLive(k, box, call'[p])
      BY <1>10 DEF BoxLive
    <3> QED
      BY <1>7, <1>9, <2>2, <3>1, <3>2 DEF LiveOK
  <2>3. CASE q # p
    <3>1. q[2] # k /\ call'[q] = call[q] /\ eth'[q] = eth[q]
      BY <1>1, <1>7, <2>1, <2>3
    <3>2. BoxLive(q[2], box, call[q])
      <4>1. BoxLive(q[2], inbox[t], call[q])
        BY <2>1 DEF LiveOK
      <4>2. ASSUME NEW i \in DOMAIN box, box[i].pod = q[2], box[i].live
            PROVE  /\ call[q].at = "sent" /\ call[q].kind = box[i].kind
                   /\ \A j \in DOMAIN box : i < j => box[j].pod # q[2]
        <5>1. box[i] = inbox[t][i] /\ i \in DOMAIN inbox[t]
          BY <1>10, <3>1, <4>2
        <5>2. /\ call[q].at = "sent" /\ call[q].kind = box[i].kind
              /\ \A j \in DOMAIN inbox[t] : i < j => inbox[t][j].pod # q[2]
          BY <4>1, <4>2, <5>1 DEF BoxLive
        <5> QED
          BY <1>10, <1>11, <5>2
      <4> QED
        BY <4>2 DEF BoxLive
    <3>3. Absent(q[2], inbox[t]) => Absent(q[2], box)
      BY <1>10 DEF Absent
    <3>4. NoEnsure(q[2], inbox[t]) => NoEnsure(q[2], box)
      BY <1>10, <3>1 DEF NoEnsure
    <3>5. (a.live /\ a.pod = q[2]) => (actor[t].live /\ actor[t].pod = q[2])
      BY <1>9, <3>1
    <3> QED
      BY <1>9, <2>1, <3>1, <3>2, <3>3, <3>4, <3>5 DEF LiveOK
  <2> QED
    BY <2>2, <2>3
<1>13. \A q \in Pods : q[1] # t => call'[q] = call[q] /\ eth'[q] = eth[q]
  BY <1>1, <1>7
<1> QED
  BY <1>6, <1>12, <1>13, LiveFrame

LEMMA LiveActor ==
  ASSUME IInv, LInv, NEW t \in Tenants, Actor(t)
  PROVE  LInv'
<1>1. ASSUME NEW pc, Step(t, pc), UNCHANGED <<inbox, call, eth>>,
             pc \in {"off", "loop", "ensure", "lookup", "veth", "request", "expand", "bridge",
                     "vtep", "ipam", "record", "reconcile", "panic"}
      PROVE  LInv'
  <2>1. PICK a \in ActorStates :
         /\ actor' = [actor EXCEPT ![t] = a]
         /\ a.pc = pc /\ a.pod = actor[t].pod /\ a.live = actor[t].live
         /\ a.attempt = actor[t].attempt /\ a.ip = actor[t].ip /\ a.net = actor[t].net
    BY <1>1, StepFacts, TenantFacts
  <2> QED
    BY <1>1, <2>1, LiveStep
<1>2. ASSUME Return(t), UNCHANGED <<inbox, eth>> PROVE LInv'
  BY <1>2, LiveReturn
<1>3. ASSUME ReceiveStop(t) PROVE LInv'
  BY <1>3, LiveFresh DEF ReceiveStop, kernelVars
<1>4. ASSUME Refuse(t) PROVE LInv'
  BY <1>2, <1>4 DEF Refuse, kernelVars
<1>5. ASSUME Allocate(t) PROVE LInv'
  <2>1. PICK ip : actor' = [actor EXCEPT ![t].pc = "lookup", ![t].ip = ip]
    BY <1>5 DEF Allocate
  <2>2. PICK a : a = [actor[t] EXCEPT !.pc = "lookup", !.ip = ip]
    OBVIOUS
  <2>3. actor[t] \in ActorStates /\ actor' = [actor EXCEPT ![t] = a]
    BY <2>1, <2>2, FieldFacts
  <2>4. a.pod = actor[t].pod /\ a.live = actor[t].live
    BY <2>2, <2>3 DEF ActorStates
  <2>5. UNCHANGED <<inbox, call, eth>>
    BY <1>5 DEF Allocate, kernelVars
  <2> QED
    BY <2>3, <2>4, <2>5, LiveStep
<1>6. ASSUME Exhausted(t) \/ LookupBridge(t) \/ RequestExpansion(t) PROVE LInv'
  BY <1>1, <1>2, <1>6 DEF Exhausted, LookupBridge, RequestExpansion, kernelVars
<1>7. ASSUME SetupVeth(t) PROVE LInv'
  <2>1. Return(t) /\ inbox' = inbox
    BY <1>7 DEF SetupVeth
  <2>2. ASSUME VethPossible(t), eth' = [eth EXCEPT ![<<t, actor[t].pod>>] = Interface(t)],
               NEW p \in Pods
        PROVE  eth'[p] = eth[p] \/ (actor[t].live /\ p = <<t, actor[t].pod>>)
    BY <2>2 DEF VethPossible, IInv, TypeOK
  <2>3. \A p \in Pods : eth'[p] = eth[p] \/ (actor[t].live /\ p = <<t, actor[t].pod>>)
    BY <1>7, <2>2 DEF SetupVeth
  <2> QED
    BY <2>1, <2>3, LiveReturn
<1>8. ASSUME ExpandSubnet(t) PROVE LInv'
  <2>1. UNCHANGED <<inbox, eth>>
    BY <1>8 DEF ExpandSubnet, kernelVars
  <2>2. ASSUME NEW n, actor' = [actor EXCEPT ![t].pc = "bridge", ![t].net = n], UNCHANGED call
        PROVE  LInv'
    <3>1. PICK a : a = [actor[t] EXCEPT !.pc = "bridge", !.net = n]
      OBVIOUS
    <3>2. actor[t] \in ActorStates /\ actor' = [actor EXCEPT ![t] = a]
      BY <2>2, <3>1, FieldFacts
    <3>3. a.pod = actor[t].pod /\ a.live = actor[t].live
      BY <3>1, <3>2 DEF ActorStates
    <3> QED
      BY <2>1, <2>2, <3>2, <3>3, LiveStep
  <2> QED
    BY <1>2, <1>8, <2>1, <2>2 DEF ExpandSubnet
<1>9. ASSUME UpdateBridge(t) PROVE LInv'
  BY <1>1, <1>2, <1>9 DEF UpdateBridge
<1>10. ASSUME UpdateVtep(t) PROVE LInv'
  BY <1>1, <1>2, <1>10 DEF UpdateVtep
<1>11. ASSUME ExpandIPAM(t) \/ ExpandRecord(t) \/ TornRead(t) PROVE LInv'
  BY <1>1, <1>2, <1>11 DEF ExpandIPAM, ExpandRecord, TornRead, kernelVars
<1>12. ASSUME ReconcilePods(t) PROVE LInv'
  <2>1. actor[t].pc = "reconcile" /\ Again(t) /\ UNCHANGED <<inbox, call>>
    BY <1>12 DEF ReconcilePods, Running
  <2>2. PICK a \in ActorStates :
           /\ actor' = [actor EXCEPT ![t] = a]
           /\ a.pc = "ensure" /\ a.pod = actor[t].pod /\ a.live = actor[t].live
           /\ a.attempt = actor[t].attempt + 1 /\ a.ip = actor[t].ip /\ a.net = None
    BY <2>1, AgainFacts
  <2>3. PICK listed, f : /\ \A p \in listed : eth[p] # None
                         /\ eth' = [p \in Pods |-> IF p \in listed THEN f[p] ELSE eth[p]]
    BY <1>12 DEF ReconcilePods
  <2>4. \A p \in Pods : eth'[p] # None => eth[p] # None
    BY <2>3
  <2> QED
    BY <2>1, <2>2, <2>4, LiveStep
<1> QED
  BY <1>3, <1>4, <1>5, <1>6, <1>7, <1>8, <1>9, <1>10, <1>11, <1>12,
     LiveReceiveEnsure, LiveReceiveRemove DEF Actor

LEMMA LiveNext == IInv /\ LInv /\ [Next]_vars => LInv'
<1> SUFFICES ASSUME IInv, LInv, [Next]_vars PROVE LInv'
  OBVIOUS
<1>1. ASSUME UNCHANGED <<actorVars, eth>> PROVE LInv'
  BY <1>1, LiveSame
<1>2. ASSUME NEW t \in Tenants, Command(t) PROVE LInv'
  BY <1>1, <1>2 DEF Command, EnsureTenant, RemoveTenant, kernelVars
<1>3. ASSUME NEW p \in Pods, Request(p) PROVE LInv'
  BY <1>3, LiveLookup, LiveSend, LiveGiveUp DEF Request
<1>4. ASSUME Dispatcher PROVE LInv'
  <2>1. CASE \/ EnsureSubnet \/ EnsureBackend \/ EnsurePolicy \/ EnsureCommit
             \/ RemoveVtep \/ RemoveFields \/ RemoveSubnet \/ RemoveActor \/ RemoveRecord
    BY <1>1, <2>1 DEF EnsureSubnet, EnsureBackend, EnsurePolicy, EnsureCommit, RemoveVtep,
       RemoveFields, RemoveSubnet, RemoveActor, RemoveRecord, kernelVars
  <2>2. CASE StartTenantActor
    <3>1. PICK t \in Tenants : t = disp.t
      BY <2>2, DispFacts DEF StartTenantActor, At
    <3>2. UNCHANGED <<call, eth>>
      BY <2>2 DEF StartTenantActor, kernelVars
    <3>3. CASE TenantActors[t] = 0
      BY <2>2, <3>1, <3>2, <3>3, LiveFresh DEF StartTenantActor
    <3>4. CASE TenantActors[t] # 0
      BY <1>1, <2>2, <3>1, <3>2, <3>4 DEF StartTenantActor, actorVars
    <3> QED
      BY <3>3, <3>4
  <2>3. CASE RemoveBridge
    <3>1. UNCHANGED actorVars
      BY <2>3 DEF RemoveBridge
    <3>2. \A p \in Pods : eth'[p] # None => eth[p] # None
      BY <2>3 DEF RemoveBridge, kernelVars
    <3> QED
      BY <3>1, <3>2, LiveSame
  <2> QED
    BY <1>4, <2>1, <2>2, <2>3, LiveRemoveStop DEF Dispatcher
<1>5. ASSUME UNCHANGED vars PROVE LInv'
  BY <1>1, <1>5 DEF vars, kernelVars
<1> QED
  BY <1>2, <1>3, <1>4, <1>5, LiveActor DEF Next

(* Nothing that waits in a mailbox or is under way would attach a pod that *)
(* is attached, however requests time out, are repeated and answered late. *)
THEOREM NoDoubleAttach == Spec => []LInv
<1>1. Init => LInv
  BY PodFacts, LoopFacts DEF Init, LInv, LiveOK, BoxLive
<1> QED
  BY <1>1, LiveNext, InvariantHolds, PTL DEF Spec

-----------------------------------------------------------------------------
(* The addresses of the attached pods, when the kernel deletes the links   *)
(* that it is told to delete.                                              *)

(* The phases of RemoveTenant in which the bridge is gone.                 *)
BridgeGone == {"nil", "dealloc"} \cup Released

(* Interface e of pod k, in a tenant with a record (has) r.                *)
AttachOK(e, has, r, k) ==
  e # None => has /\ r.IPAM.IPs[k] # None /\ (e.ip # None => r.IPAM.IPs[k] = e.ip)

AttachInv == \A p \in Pods : AttachOK(eth[p], p[1] \in TenantRecords, rec[p[1]], p[2])

(* A step keeps the recorded address of a pod that stays attached.         *)
Keeping ==
  \A p \in Pods : eth[p] # None /\ eth'[p] # None =>
    rec'[p[1]].IPAM.IPs[p[2]] = rec[p[1]].IPAM.IPs[p[2]]

AttachStep == AttachInv' /\ Keeping

(* With the bridge its pods' interfaces went, and none comes back.         *)
DetachInv ==
  \A t \in Tenants : Phase(disp, t) \in BridgeGone =>
    link[t].bridge = None /\ \A p \in Pods : p[1] = t => eth[p] = None

(* Neither an interface nor a recorded address changes, except that        *)
(* interfaces go.                                                          *)
LEMMA AttachKeep ==
  ASSUME AttachInv, TenantRecords \subseteq TenantRecords',
         \A p \in Pods : eth'[p] # None => eth'[p] = eth[p],
         \A p \in Pods : eth'[p] # None =>
           rec'[p[1]].IPAM.IPs[p[2]] = rec[p[1]].IPAM.IPs[p[2]]
  PROVE  AttachStep
<1>1. ASSUME NEW p \in Pods PROVE AttachOK(eth'[p], p[1] \in TenantRecords', rec'[p[1]], p[2])
  <2>1. AttachOK(eth[p], p[1] \in TenantRecords, rec[p[1]], p[2])
    BY DEF AttachInv
  <2> QED
    BY <2>1 DEF AttachOK
<1>2. Keeping
  BY DEF Keeping
<1> QED
  BY <1>1, <1>2 DEF AttachInv, AttachStep

LEMMA AttachSame ==
  ASSUME AttachInv, UNCHANGED recordVars, \A p \in Pods : eth'[p] # None => eth'[p] = eth[p]
  PROVE  AttachStep
BY AttachKeep DEF recordVars

(* The record r keeps the addresses that tenant t's pods have.             *)
KeepsIPs(t, r) ==
  \A p \in Pods : p[1] = t /\ eth[p] # None => r.IPAM.IPs[p[2]] = rec[t].IPAM.IPs[p[2]]

(* The record of one tenant changes.                                       *)
LEMMA AttachRecord ==
  ASSUME IInv, AttachInv, NEW t \in Tenants, NEW r, rec' = [rec EXCEPT ![t] = r],
         TenantRecords \subseteq TenantRecords', eth' = eth,
         KeepsIPs(t, r)
  PROVE  AttachStep
<1>1. rec \in [Tenants -> OrNone(Records)]
  BY DEF IInv, TypeOK
<1>2. ASSUME NEW p \in Pods, eth'[p] # None
      PROVE  rec'[p[1]].IPAM.IPs[p[2]] = rec[p[1]].IPAM.IPs[p[2]]
  <2>1. p[1] \in Tenants
    BY PodFacts
  <2>2. CASE p[1] = t
    BY <1>1, <1>2, <2>2 DEF KeepsIPs
  <2>3. CASE p[1] # t
    BY <1>1, <2>1, <2>3
  <2> QED
    BY <2>2, <2>3
<1> QED
  BY <1>2, AttachKeep

LEMMA AttachAllocate ==
  ASSUME IInv, LInv, AttachInv, NEW t \in Tenants, Allocate(t)
  PROVE  AttachStep
<1>1. actor[t].pc = "ensure" /\ TenantRecords' = TenantRecords /\ eth' = eth
  BY DEF Allocate, Running, kernelVars
<1>2. rec[t] \in Records /\ actor[t].pod \in PodKeys
  BY <1>1, RunningFacts, FieldFacts
<1>3. PICK m \in IPAMs, k \in PodKeys : m = rec[t].IPAM /\ k = actor[t].pod
  BY <1>2 DEF Records
<1>4. PICK idx \in IPAM(t)!FreeIndices(m) :
        rec' = [rec EXCEPT ![t].IPAM = IPAM(t)!Take(m, k, idx)]
  BY <1>3 DEF Allocate
<1>5. PICK x : x = IPAM(t)!Take(m, k, idx)
  OBVIOUS
<1>6. PICK ip : ip = IPAM(t)!indexToIP(m.Network, idx)
  OBVIOUS
<1>7. x \in IPAMs /\ IsTaken(m, x, k, idx, ip)
  BY <1>5, <1>6, TakeType
<1>8. PICK r : r = [rec[t] EXCEPT !.IPAM = x]
  OBVIOUS
<1>9. rec' = [rec EXCEPT ![t] = r] /\ r.IPAM = x
  BY <1>2, <1>4, <1>5, <1>7, <1>8, WithIPAM
<1>10. ASSUME NEW p \in Pods, p[1] = t, eth[p] # None
       PROVE  r.IPAM.IPs[p[2]] = rec[t].IPAM.IPs[p[2]]
  <2>1. p[2] # k
    BY <1>3, <1>10, LivePod DEF LiveOK
  <2>2. p[2] \in PodKeys
    BY PodFacts
  <2>3. x.IPs = [m.IPs EXCEPT ![k] = ip] /\ m.IPs \in [PodKeys -> OrNone(Addresses)]
    BY <1>7 DEF IsTaken, IPAMs
  <2> QED
    BY <1>3, <1>9, <2>1, <2>2, <2>3
<1>11. KeepsIPs(t, r) /\ TenantRecords \subseteq TenantRecords'
  BY <1>1, <1>10 DEF KeepsIPs
<1> QED
  BY <1>1, <1>9, <1>11, AttachRecord

(* A failed SetupVeth releases the address of its own pod only.            *)
LEMMA AttachSetupVeth ==
  ASSUME IInv, PInv, LInv, AttachInv, NEW t \in Tenants, SetupVeth(t)
  PROVE  AttachStep
<1>1. actor[t].pc = "veth" /\ TenantRecords' = TenantRecords
  BY DEF SetupVeth, Running
<1>2. /\ rec[t] \in Records /\ t \in TenantRecords /\ actor[t].pod \in PodKeys
      /\ actor[t].ip \in Addresses /\ TypeOK /\ <<t, actor[t].pod>> \in Pods
  BY <1>1, RunningFacts, FieldFacts, TenantFacts
<1>3. PICK m \in IPAMs, k \in PodKeys, ip \in Int :
        m = rec[t].IPAM /\ k = actor[t].pod /\ ip = actor[t].ip
  BY <1>2, AddressesAreIntegers DEF Records
<1>4. IPAMOK(m) /\ m.IPs[k] = ip
  BY <1>1, <1>2, <1>3 DEF PInv, PoolOK
<1>5. CASE eth' = [eth EXCEPT ![<<t, actor[t].pod>>] = Interface(t)] /\ UNCHANGED rec
  <2>1. ASSUME NEW p \in Pods PROVE AttachOK(eth'[p], p[1] \in TenantRecords', rec'[p[1]], p[2])
    <3>1. CASE p = <<t, k>>
      <4>1. eth'[p] = Interface(t) /\ p[1] = t /\ p[2] = k
        BY <1>2, <1>3, <1>5, <3>1 DEF TypeOK
      <4>2. eth'[p].ip = ip
        BY <1>3, <4>1 DEF Interface
      <4>3. ip # None
        BY NMAssumption
      <4> QED
        BY <1>1, <1>2, <1>3, <1>4, <1>5, <4>1, <4>2, <4>3 DEF AttachOK
    <3>2. CASE p # <<t, k>>
      <4>1. eth'[p] = eth[p]
        BY <1>2, <1>3, <1>5, <3>2 DEF TypeOK
      <4> QED
        BY <1>1, <1>5, <4>1 DEF AttachInv
    <3> QED
      BY <3>1, <3>2
  <2>2. Keeping
    BY <1>5 DEF Keeping
  <2> QED
    BY <2>1, <2>2 DEF AttachInv, AttachStep
<1>6. CASE rec' = [rec EXCEPT ![t].IPAM = IPAM(t)!Release(@, actor[t].ip)] /\ UNCHANGED eth
  <2>1. PICK x : x = IPAM(t)!Release(m, ip)
    OBVIOUS
  <2>2. x \in IPAMs /\ IsReleased(m, x, ip)
    BY <2>1, ReleaseType
  <2>3. PICK r : r = [rec[t] EXCEPT !.IPAM = x]
    OBVIOUS
  <2>4. rec' = [rec EXCEPT ![t] = r] /\ r.IPAM = x
    BY <1>2, <1>3, <1>6, <2>1, <2>2, <2>3, WithIPAM
  <2>5. ASSUME NEW p \in Pods, p[1] = t, eth[p] # None
        PROVE  r.IPAM.IPs[p[2]] = rec[t].IPAM.IPs[p[2]]
    <3>1. p[2] # k
      BY <1>3, <2>5, LivePod DEF LiveOK
    <3>2. p[2] \in PodKeys
      BY PodFacts
    <3>3. ip # None
      BY NMAssumption
    <3>4. m.IPs[p[2]] # ip
      BY <1>4, <3>1, <3>2, <3>3 DEF IPAMOK
    <3> QED
      BY <1>3, <2>2, <2>4, <3>2, <3>4 DEF IsReleased
  <2>6. KeepsIPs(t, r) /\ TenantRecords \subseteq TenantRecords'
    BY <1>1, <2>5 DEF KeepsIPs
  <2> QED
    BY <1>6, <2>4, <2>6, AttachRecord
<1> QED
  BY <1>5, <1>6 DEF SetupVeth

LEMMA AttachExpandIPAM ==
  ASSUME IInv, AttachInv, NEW t \in Tenants, ExpandIPAM(t)
  PROVE  AttachStep
<1>1. actor[t].pc = "ipam" /\ TenantRecords' = TenantRecords /\ eth' = eth
  BY DEF ExpandIPAM, Running, kernelVars
<1>2. actor[t].net \in Prefixes /\ rec[t] \in Records
  BY <1>1, FieldFacts, RunningFacts DEF Growing
<1>3. PICK m \in IPAMs, n \in Prefixes : m = rec[t].IPAM /\ n = actor[t].net
  BY <1>2 DEF Records
<1>4. CASE UNCHANGED rec
  BY <1>1, <1>4, AttachSame DEF recordVars
<1>5. CASE /\ IPAM(t)!CanRebase(m, Net(n))
           /\ rec' = [rec EXCEPT ![t].IPAM = IPAM(t)!Rebase(m, Net(n))]
  <2>1. PICK x : x = IPAM(t)!Rebase(m, Net(n))
    OBVIOUS
  <2>2. x \in IPAMs /\ IsRebased(m, x, n)
    BY <1>5, <2>1, RebaseType
  <2>3. PICK r : r = [rec[t] EXCEPT !.IPAM = x]
    OBVIOUS
  <2>4. rec' = [rec EXCEPT ![t] = r] /\ r.IPAM = x
    BY <1>2, <1>5, <2>1, <2>2, <2>3, WithIPAM
  <2>5. KeepsIPs(t, r) /\ TenantRecords \subseteq TenantRecords'
    BY <1>1, <1>3, <2>2, <2>4 DEF KeepsIPs, IsRebased
  <2> QED
    BY <1>1, <2>4, <2>5, AttachRecord
<1> QED
  BY <1>3, <1>4, <1>5 DEF ExpandIPAM

(* The steps that change another field of the record.                      *)
LEMMA AttachOtherFields ==
  ASSUME IInv, AttachInv, NEW t \in Tenants, rec[t] \in Records, eth' = eth,
         TenantRecords \subseteq TenantRecords',
         \/ \E n \in Prefixes : rec' = [rec EXCEPT ![t].Subnet = n]
         \/ \E ip \in Addresses : rec' = [rec EXCEPT ![t].BridgeIP = ip]
         \/ rec' = [rec EXCEPT ![t].State = "Closing"]
         \/ rec' = [rec EXCEPT ![t].devices = FALSE]
  PROVE  AttachStep
<1>1. PICK r : rec' = [rec EXCEPT ![t] = r] /\ r.IPAM = rec[t].IPAM
  <2>1. CASE \E n \in Prefixes : rec' = [rec EXCEPT ![t].Subnet = n]
    <3>1. PICK n \in Prefixes : rec' = [rec EXCEPT ![t].Subnet = n]
      BY <2>1
    <3>2. PICK r : r = [rec[t] EXCEPT !.Subnet = n]
      OBVIOUS
    <3>3. rec' = [rec EXCEPT ![t] = r] /\ r.IPAM = rec[t].IPAM
      BY <3>1, <3>2, WithSubnet
    <3> QED
      BY <3>3
  <2>2. CASE \E ip \in Addresses : rec' = [rec EXCEPT ![t].BridgeIP = ip]
    <3>1. PICK ip \in Addresses : rec' = [rec EXCEPT ![t].BridgeIP = ip]
      BY <2>2
    <3>2. PICK r : r = [rec[t] EXCEPT !.BridgeIP = ip]
      OBVIOUS
    <3>3. rec' = [rec EXCEPT ![t] = r] /\ r.IPAM = rec[t].IPAM
      BY <3>1, <3>2, WithBridgeIP
    <3> QED
      BY <3>3
  <2>3. CASE rec' = [rec EXCEPT ![t].State = "Closing"]
    <3>1. PICK r : r = [rec[t] EXCEPT !.State = "Closing"]
      OBVIOUS
    <3>2. rec' = [rec EXCEPT ![t] = r] /\ r.IPAM = rec[t].IPAM
      BY <2>3, <3>1, ClosingRecord
    <3> QED
      BY <3>2
  <2>4. CASE rec' = [rec EXCEPT ![t].devices = FALSE]
    <3>1. PICK r : r = [rec[t] EXCEPT !.devices = FALSE]
      OBVIOUS
    <3>2. rec' = [rec EXCEPT ![t] = r] /\ r.IPAM = rec[t].IPAM
      BY <2>4, <3>1, ClosingRecord
    <3> QED
      BY <3>2
  <2> QED
    BY <2>1, <2>2, <2>3, <2>4
<1>2. KeepsIPs(t, r)
  BY <1>1 DEF KeepsIPs
<1> QED
  BY <1>1, <1>2, AttachRecord

LEMMA AttachUpdate ==
  ASSUME IInv, AttachInv, NEW t \in Tenants, UpdateBridge(t) \/ ExpandRecord(t)
  PROVE  AttachStep
<1>1. actor[t].pc \in {"bridge", "record"}
  BY DEF UpdateBridge, ExpandRecord, Running
<1>2. /\ actor[t].net \in Prefixes /\ rec[t] \in Records /\ eth' = eth
      /\ TenantRecords \subseteq TenantRecords'
  BY <1>1, FieldFacts, RunningFacts DEF Growing, UpdateBridge, ExpandRecord, kernelVars
<1>3. CASE UpdateBridge(t)
  <2>1. CASE UNCHANGED rec
    BY <1>2, <1>3, <2>1, AttachSame DEF UpdateBridge, recordVars
  <2>2. CASE rec' = [rec EXCEPT ![t].BridgeIP = FirstIP(actor[t].net)]
    <3>1. FirstIP(actor[t].net) \in Addresses
      BY <1>2, NetFacts
    <3>2. \E ip \in Addresses : rec' = [rec EXCEPT ![t].BridgeIP = ip]
      BY <2>2, <3>1
    <3> QED
      BY <1>2, <3>2, AttachOtherFields
  <2> QED
    BY <1>3, <2>1, <2>2 DEF UpdateBridge
<1>4. CASE ExpandRecord(t)
  <2>1. \E n \in Prefixes : rec' = [rec EXCEPT ![t].Subnet = n]
    BY <1>2, <1>4 DEF ExpandRecord
  <2> QED
    BY <1>2, <2>1, AttachOtherFields
<1> QED
  BY <1>3, <1>4

(* UpdatePod sets the address of the IPAM's entry.                         *)
LEMMA AttachReconcilePods ==
  ASSUME IInv, AttachInv, NEW t \in Tenants, ReconcilePods(t)
  PROVE  AttachStep
<1> DEFINE listed == {p \in Pods : p[1] = t /\ rec[t].IPAM.IPs[p[2]] # None /\ eth[p] # None}
<1>1. actor[t].pc = "reconcile" /\ UNCHANGED recordVars
  BY DEF ReconcilePods, Running
<1>2. PICK f \in [listed -> UNION {UpdateOutcomes(t, p) : p \in listed}] :
       /\ \A p \in listed : f[p] \in UpdateOutcomes(t, p)
       /\ eth' = [p \in Pods |-> IF p \in listed THEN f[p] ELSE eth[p]]
  BY DEF ReconcilePods
<1>3. TypeOK /\ t \in TenantRecords
  BY <1>1, TenantFacts, RunningFacts
<1>4. ASSUME NEW p \in listed PROVE AttachOK(f[p], TRUE, rec[t], p[2])
  <2>1. p \in Pods /\ p[1] = t /\ eth[p] # None /\ eth[p] \in Interfaces
    BY <1>3, <1>4 DEF TypeOK, OrNone
  <2>2. AttachOK(eth[p], TRUE, rec[t], p[2])
    BY <1>3, <2>1 DEF AttachInv, AttachOK
  <2>3. f[p] \in UpdateOutcomes(t, p)
    BY <1>2, <1>4
  <2>4. CASE f[p] = eth[p]
    BY <2>2, <2>4
  <2>5. CASE f[p] = [eth[p] EXCEPT !.ip = None, !.gw = None]
    <3>1. f[p].ip = None
      BY <2>1, <2>5 DEF Interfaces
    <3> QED
      BY <3>1 DEF AttachOK
  <2>6. CASE f[p] \in {Updated(t, p), [Updated(t, p) EXCEPT !.gw = None]}
    <3>1. f[p].ip = rec[t].IPAM.IPs[p[2]]
      BY <2>6 DEF Updated
    <3> QED
      BY <3>1 DEF AttachOK
  <2> QED
    BY <2>3, <2>4, <2>5, <2>6 DEF UpdateOutcomes
<1>5. ASSUME NEW p \in Pods PROVE AttachOK(eth'[p], p[1] \in TenantRecords', rec'[p[1]], p[2])
  <2>1. CASE p \in listed
    BY <1>1, <1>2, <1>3, <1>4, <2>1 DEF AttachOK, recordVars
  <2>2. CASE p \notin listed
    <3>1. eth'[p] = eth[p]
      BY <1>2, <2>2
    <3> QED
      BY <1>1, <3>1 DEF AttachInv, recordVars
  <2> QED
    BY <2>1, <2>2
<1>6. Keeping
  BY <1>1 DEF Keeping, recordVars
<1> QED
  BY <1>5, <1>6 DEF AttachInv, AttachStep

LEMMA AttachEnsureCommit ==
  ASSUME IInv, AttachInv, EnsureCommit
  PROVE  AttachStep
<1>1. disp.pc = "commit" /\ eth' = eth
  BY DEF EnsureCommit, At
<1>2. PICK t \in Tenants : disp.t = t
  BY <1>1, DispFacts
<1>3. t \notin TenantRecords
  <2>1. /\ Life(Phase(disp, t), t \in TenantRecords, TenantActors[t], actor[t].pc)
        /\ Phase(disp, t) = "commit"
    BY <1>1, <1>2, TenantFacts DEF Phase
  <2> QED
    BY <2>1 DEF Life, Ensuring, Removing
<1>4. PICK r : rec' = [rec EXCEPT ![t] = r] /\ TenantRecords' = TenantRecords \cup {t}
  BY <1>2, <1>3 DEF EnsureCommit
<1>5. KeepsIPs(t, r)
  BY <1>3 DEF KeepsIPs, AttachInv, AttachOK
<1> QED
  BY <1>1, <1>4, <1>5, AttachRecord

LEMMA AttachRemoveRecord ==
  ASSUME IInv, AttachInv, DetachInv, RemoveRecord
  PROVE  AttachStep
<1>1. disp.pc = "drop" /\ eth' = eth
  BY DEF RemoveRecord, At, kernelVars
<1>2. PICK t \in Tenants : disp.t = t
  BY <1>1, DispFacts
<1>3. \A p \in Pods : p[1] = t => eth[p] = None
  BY <1>1, <1>2 DEF DetachInv, Phase, BridgeGone, Released
<1>4. PICK r : rec' = [rec EXCEPT ![t] = r] /\ TenantRecords' = TenantRecords \ {t}
  BY <1>2 DEF RemoveRecord
<1>5. rec \in [Tenants -> OrNone(Records)]
  BY DEF IInv, TypeOK
<1>6. ASSUME NEW p \in Pods PROVE AttachOK(eth'[p], p[1] \in TenantRecords', rec'[p[1]], p[2])
  <2>1. CASE p[1] = t
    BY <1>1, <1>3, <2>1 DEF AttachOK
  <2>2. CASE p[1] # t
    <3>1. rec'[p[1]] = rec[p[1]] /\ (p[1] \in TenantRecords' <=> p[1] \in TenantRecords)
      BY <1>4, <1>5, <2>2, PodFacts
    <3>2. AttachOK(eth[p], p[1] \in TenantRecords, rec[p[1]], p[2])
      BY DEF AttachInv
    <3> QED
      BY <1>1, <3>1, <3>2 DEF AttachOK
  <2> QED
    BY <2>1, <2>2
<1>7. Keeping
  <2>1. ASSUME NEW p \in Pods, eth[p] # None PROVE rec'[p[1]] = rec[p[1]]
    BY <1>3, <1>4, <1>5, <2>1, PodFacts
  <2> QED
    BY <2>1 DEF Keeping
<1> QED
  BY <1>6, <1>7 DEF AttachInv, AttachStep

LEMMA AttachActor ==
  ASSUME IInv, PInv, LInv, AttachInv, NEW t \in Tenants, Actor(t)
  PROVE  AttachStep
<1>1. ASSUME UNCHANGED <<recordVars, eth>> PROVE AttachStep
  BY <1>1, AttachSame
<1>2. ASSUME ReceiveRemove(t) PROVE AttachStep
  <2>1. eth \in [Pods -> OrNone(Interfaces)] /\ UNCHANGED recordVars
    BY <1>2 DEF IInv, TypeOK, ReceiveRemove
  <2>2. \A p \in Pods : eth'[p] # None => eth'[p] = eth[p]
    BY <1>2, <2>1 DEF ReceiveRemove
  <2> QED
    BY <2>1, <2>2, AttachSame
<1>3. ASSUME \/ ReceiveEnsure(t) \/ ReceiveStop(t) \/ Refuse(t) \/ Exhausted(t) \/ LookupBridge(t)
             \/ RequestExpansion(t) \/ ExpandSubnet(t) \/ UpdateVtep(t) \/ TornRead(t)
      PROVE  AttachStep
  <2>1. UNCHANGED <<recordVars, eth>>
    BY <1>3 DEF ReceiveEnsure, ReceiveStop, Refuse, Exhausted, LookupBridge, RequestExpansion,
       ExpandSubnet, UpdateVtep, TornRead, kernelVars
  <2> QED
    BY <1>1, <2>1
<1> QED
  BY <1>2, <1>3, AttachAllocate, AttachSetupVeth, AttachUpdate, AttachExpandIPAM,
     AttachReconcilePods DEF Actor

LEMMA AttachDispatcher ==
  ASSUME IInv, AttachInv, DetachInv, Dispatcher
  PROVE  AttachStep
<1>1. CASE \/ EnsureSubnet \/ EnsureBackend \/ EnsurePolicy \/ StartTenantActor
           \/ RemoveVtep \/ RemoveSubnet \/ RemoveStop \/ RemoveActor
  <2>1. UNCHANGED <<recordVars, eth>>
    BY <1>1 DEF EnsureSubnet, EnsureBackend, EnsurePolicy, StartTenantActor, RemoveVtep,
       RemoveSubnet, RemoveStop, RemoveActor, kernelVars
  <2> QED
    BY <2>1, AttachSame
<1>2. CASE RemoveBridge
  <2>1. UNCHANGED recordVars /\ \A p \in Pods : eth'[p] # None => eth'[p] = eth[p]
    BY <1>2 DEF RemoveBridge, kernelVars
  <2> QED
    BY <2>1, AttachSame
<1>3. CASE RemoveFields
  <2>1. disp.pc = "nil" /\ eth' = eth /\ TenantRecords' = TenantRecords
    BY <1>3 DEF RemoveFields, At, kernelVars
  <2>2. PICK t \in Tenants : disp.t = t
    BY <2>1, DispFacts
  <2>3. t \in TenantRecords
    <3>1. /\ Life(Phase(disp, t), t \in TenantRecords, TenantActors[t], actor[t].pc)
          /\ Phase(disp, t) = "nil"
      BY <2>1, <2>2, TenantFacts DEF Phase
    <3> QED
      BY <3>1 DEF Life, Ensuring
  <2>4. rec[t] \in Records /\ rec' = [rec EXCEPT ![t].devices = FALSE]
    BY <1>3, <2>2, <2>3, TypeFacts DEF IInv, RemoveFields
  <2>5. TenantRecords \subseteq TenantRecords'
    BY <2>1
  <2> QED
    BY <2>1, <2>4, <2>5, AttachOtherFields
<1> QED
  BY <1>1, <1>2, <1>3, AttachEnsureCommit, AttachRemoveRecord DEF Dispatcher

LEMMA AttachRequest ==
  ASSUME IInv, AttachInv, NEW p \in Pods, Request(p)
  PROVE  AttachStep
<1>1. CASE Send(p) \/ \E kind : Lookup(p, kind)
  <2>1. UNCHANGED <<recordVars, eth>>
    BY <1>1 DEF Send, Lookup, kernelVars
  <2> QED
    BY <2>1, AttachSame
<1>2. CASE GiveUp(p)
  <2>1. /\ UNCHANGED recordVars /\ eth' = [eth EXCEPT ![p] = None]
        /\ eth \in [Pods -> OrNone(Interfaces)]
    BY <1>2 DEF GiveUp, IInv, TypeOK
  <2>2. \A q \in Pods : eth'[q] # None => eth'[q] = eth[q]
    BY <2>1
  <2> QED
    BY <2>1, <2>2, AttachSame
<1> QED
  BY <1>1, <1>2 DEF Request

(* A tenant whose bridge is gone stays as it is.                           *)
LEMMA DetachKeep ==
  ASSUME DetachInv,
         \A t \in Tenants : Phase(disp', t) \in BridgeGone =>
           /\ Phase(disp, t) \in BridgeGone
           /\ link[t].bridge = None => link'[t].bridge = None,
         \A p \in Pods : Phase(disp, p[1]) \in BridgeGone /\ eth[p] = None => eth'[p] = None
  PROVE  DetachInv'
<1>1. ASSUME NEW t \in Tenants, Phase(disp', t) \in BridgeGone
      PROVE  link'[t].bridge = None /\ \A p \in Pods : p[1] = t => eth'[p] = None
  BY <1>1 DEF DetachInv
<1> QED
  BY <1>1 DEF DetachInv

(* No step of the actor brings a bridge back, or an interface without it.  *)
LEMMA DetachActor ==
  ASSUME IInv, DetachInv, NEW t \in Tenants, Actor(t)
  PROVE  DetachInv'
<1>1. TypeOK /\ link \in [Tenants -> Links] /\ link[t] \in Links
  BY TenantFacts, TypeFacts
<1>2. disp' = disp
  BY DEF Actor, ReceiveEnsure, ReceiveRemove, ReceiveStop, Refuse, Allocate, Exhausted,
     LookupBridge, SetupVeth, RequestExpansion, ExpandSubnet, UpdateBridge, UpdateVtep,
     ExpandIPAM, ExpandRecord, ReconcilePods, TornRead
<1>3. ASSUME NEW u \in Tenants, link[u].bridge = None PROVE link'[u].bridge = None
  <2>1. CASE UNCHANGED link
    BY <1>3, <2>1
  <2>2. CASE UpdateBridge(t)
    <3>1. CASE link[t].bridge # None
      <4>1. u # t
        BY <1>3, <3>1
      <4> QED
        BY <1>1, <1>3, <2>2, <4>1 DEF UpdateBridge
    <3>2. CASE link[t].bridge = None
      BY <1>3, <2>2, <3>2 DEF UpdateBridge
    <3> QED
      BY <3>1, <3>2
  <2>3. CASE UpdateVtep(t)
    <3>1. CASE u # t
      BY <1>1, <1>3, <2>3, <3>1 DEF UpdateVtep
    <3>2. CASE u = t
      <4>1. CASE UNCHANGED link
        BY <1>3, <4>1
      <4>2. CASE link' = [link EXCEPT ![t].vtep = @ \cup {HostIP(actor[t].net)}]
        BY <1>1, <1>3, <3>2, <4>2 DEF Links
      <4> QED
        BY <2>3, <4>1, <4>2 DEF UpdateVtep
    <3> QED
      BY <3>1, <3>2
  <2> QED
    BY <2>1, <2>2, <2>3 DEF Actor, ReceiveEnsure, ReceiveRemove, ReceiveStop, Refuse, Allocate,
       Exhausted, LookupBridge, SetupVeth, RequestExpansion, ExpandSubnet, ExpandIPAM,
       ExpandRecord, ReconcilePods, TornRead, kernelVars
<1>4. ASSUME NEW p \in Pods, Phase(disp, p[1]) \in BridgeGone, eth[p] = None PROVE eth'[p] = None
  <2>1. eth \in [Pods -> OrNone(Interfaces)] /\ p[1] \in Tenants
    BY <1>1, PodFacts DEF TypeOK
  <2>2. CASE UNCHANGED eth
    BY <1>4, <2>2
  <2>3. CASE ReceiveRemove(t)
    BY <1>4, <2>1, <2>3 DEF ReceiveRemove
  <2>4. CASE SetupVeth(t)
    <3>1. CASE UNCHANGED eth
      BY <1>4, <3>1
    <3>2. CASE VethPossible(t) /\ eth' = [eth EXCEPT ![<<t, actor[t].pod>>] = Interface(t)]
      <4>1. p[1] # t
        BY <1>4, <2>1, <3>2 DEF DetachInv, VethPossible
      <4> QED
        BY <1>4, <2>1, <3>2, <4>1
    <3> QED
      BY <2>4, <3>1, <3>2 DEF SetupVeth
  <2>5. CASE ReconcilePods(t)
    <3>1. PICK listed, f : /\ \A q \in listed : eth[q] # None
                           /\ eth' = [q \in Pods |-> IF q \in listed THEN f[q] ELSE eth[q]]
      BY <2>5 DEF ReconcilePods
    <3> QED
      BY <1>4, <3>1
  <2> QED
    BY <2>2, <2>3, <2>4, <2>5 DEF Actor, ReceiveEnsure, ReceiveStop, Refuse, Allocate,
       Exhausted, LookupBridge, RequestExpansion, ExpandSubnet, UpdateBridge, UpdateVtep,
       ExpandIPAM, ExpandRecord, TornRead, kernelVars
<1> QED
  BY <1>2, <1>3, <1>4, DetachKeep

LEMMA DetachDispatcher ==
  ASSUME "delete" \notin Faults, IInv, DetachInv, Dispatcher
  PROVE  DetachInv'
<1>1. disp.pc # "idle"
  BY DEF Dispatcher, At, EnsureSubnet, EnsureBackend, EnsurePolicy, EnsureCommit,
     StartTenantActor, RemoveVtep, RemoveBridge, RemoveFields, RemoveSubnet, RemoveStop,
     RemoveActor, RemoveRecord
<1>2. PICK t \in Tenants : disp.t = t
  BY <1>1, DispFacts
<1>3. /\ link \in [Tenants -> Links] /\ link[t] \in Links /\ disp \in DispatcherStates
      /\ eth \in [Pods -> OrNone(Interfaces)]
  BY TenantFacts, TypeFacts
<1>4. ASSUME NEW d, disp' = d, d.t \in {t, None}, d.pc \notin BridgeGone, UNCHANGED eth
      PROVE  DetachInv'
  BY <1>4, NoneAssumption DEF DetachInv, Phase, BridgeGone, Released
<1>5. CASE EnsureSubnet \/ EnsureBackend \/ EnsurePolicy \/ EnsureCommit \/ StartTenantActor \/ RemoveRecord
  <2>1. disp' = Idle \/ \E pc \in {"backend", "policy", "commit", "start"} : Goto(pc)
    BY <1>5 DEF EnsureSubnet, EnsureBackend, EnsurePolicy, EnsureCommit, StartTenantActor, RemoveRecord
  <2>2. disp'.t \in {t, None} /\ disp'.pc \notin BridgeGone
    BY <1>2, <1>3, <2>1 DEF Goto, Idle, DispatcherStates, BridgeGone, Released
  <2>3. UNCHANGED eth
    BY <1>5 DEF EnsureSubnet, EnsureBackend, EnsurePolicy, EnsureCommit, StartTenantActor,
       RemoveRecord, kernelVars
  <2> QED
    BY <1>4, <2>2, <2>3
<1>6. CASE RemoveVtep
  <2>1. Goto("bridge") /\ UNCHANGED eth
    BY <1>6 DEF RemoveVtep
  <2>2. disp'.t = t /\ disp'.pc \notin BridgeGone
    BY <1>2, <1>3, <2>1 DEF Goto, DispatcherStates, BridgeGone, Released
  <2> QED
    BY <1>4, <2>1, <2>2
<1>7. CASE RemoveBridge
  <2>1. /\ link' = [link EXCEPT ![t].bridge = None] /\ Goto("nil")
        /\ eth' = [p \in Pods |-> IF p[1] = t THEN None ELSE eth[p]]
    BY <1>2, <1>7 DEF RemoveBridge
  <2>2. disp'.t = t
    BY <1>2, <1>3, <2>1 DEF Goto, DispatcherStates
  <2>3. link'[t].bridge = None
    BY <1>3, <2>1 DEF Links
  <2>4. \A u \in Tenants : u # t => Phase(disp', u) = "idle"
    BY <2>2 DEF Phase
  <2> QED
    BY <2>1, <2>3, <2>4 DEF DetachInv, BridgeGone, Released
<1>8. CASE RemoveFields \/ RemoveSubnet \/ RemoveStop \/ RemoveActor
  <2>1. /\ disp.pc \in BridgeGone /\ UNCHANGED <<link, eth>>
        /\ \E pc \in {"dealloc", "stop", "ack", "drop"} : Goto(pc)
    BY <1>8 DEF RemoveFields, RemoveSubnet, RemoveStop, RemoveActor, At, kernelVars, BridgeGone, Released
  <2>2. disp'.t = t
    BY <1>2, <1>3, <2>1 DEF Goto, DispatcherStates
  <2>3. \A u \in Tenants : Phase(disp', u) \in BridgeGone => Phase(disp, u) \in BridgeGone
    BY <1>2, <2>1, <2>2 DEF Phase, BridgeGone, Released
  <2> QED
    BY <2>1, <2>3, DetachKeep
<1> QED
  BY <1>5, <1>6, <1>7, <1>8 DEF Dispatcher

LEMMA DetachNext ==
  ASSUME "delete" \notin Faults, IInv, DetachInv, [Next]_vars
  PROVE  DetachInv'
<1>1. ASSUME NEW t \in Tenants, Command(t) PROVE DetachInv'
  <2>1. UNCHANGED kernelVars /\ disp.pc = "idle" /\ disp'.pc \in {"subnet", "vtep"}
    BY <1>1 DEF Command, EnsureTenant, RemoveTenant, At
  <2>2. \A u \in Tenants : Phase(disp', u) \notin BridgeGone
    BY <2>1 DEF Phase, BridgeGone, Released
  <2> QED
    BY <2>2 DEF DetachInv
<1>2. ASSUME NEW p \in Pods, Request(p) PROVE DetachInv'
  <2>1. eth \in [Pods -> OrNone(Interfaces)]
    BY DEF IInv, TypeOK
  <2>2. UNCHANGED <<disp, link>> /\ \A q \in Pods : eth[q] = None => eth'[q] = None
    BY <1>2, <2>1 DEF Request, Send, Lookup, GiveUp, kernelVars
  <2> QED
    BY <2>2, DetachKeep
<1>3. ASSUME UNCHANGED vars PROVE DetachInv'
  BY <1>3 DEF vars, kernelVars, DetachInv
<1> QED
  BY <1>1, <1>2, <1>3, DetachActor, DetachDispatcher DEF Next

(* The inductive step, both parts together.                                *)
AInv == AttachInv /\ DetachInv

LEMMA AttachNext ==
  ASSUME IInv, PInv, LInv, AInv, [Next]_vars
  PROVE  AttachStep
<1> USE DEF AInv
<1>1. ASSUME NEW t \in Tenants, Command(t) PROVE AttachStep
  <2>1. eth' = eth
    BY <1>1 DEF Command, EnsureTenant, RemoveTenant, kernelVars
  <2>2. CASE EnsureTenant(t)
    BY <2>1, <2>2, AttachSame DEF EnsureTenant
  <2>3. CASE RemoveTenant(t)
    <3>1. /\ rec[t] \in Records /\ rec' = [rec EXCEPT ![t].State = "Closing"]
          /\ TenantRecords \subseteq TenantRecords'
      BY <2>3, TypeFacts DEF IInv, RemoveTenant
    <3> QED
      BY <2>1, <3>1, AttachOtherFields
  <2> QED
    BY <1>1, <2>2, <2>3 DEF Command
<1>2. ASSUME UNCHANGED vars PROVE AttachStep
  BY <1>2, AttachSame DEF vars, kernelVars
<1> QED
  BY <1>1, <1>2, AttachActor, AttachDispatcher, AttachRequest DEF Next

LEMMA AddressNext ==
  ASSUME "delete" \notin Faults
  PROVE  IInv /\ PInv /\ LInv /\ AInv /\ [Next]_vars => AInv'
BY AttachNext, DetachNext DEF AInv, AttachStep

LEMMA AddressInvariant ==
  ASSUME "delete" \notin Faults
  PROVE  Spec => [](IInv /\ PInv /\ LInv /\ TrieOK /\ AInv)
<1>1. Init => AInv
  BY DEF Init, AInv, AttachInv, AttachOK, DetachInv, Phase, Idle, BridgeGone, Released
<1>2. IInv /\ PInv /\ LInv /\ AInv /\ [Next]_vars => AInv'
  BY AddressNext
<1> QED
  BY <1>1, <1>2, InvariantHolds, PoolsSound, NoDoubleAttach, TrieSound, PTL DEF Spec

(* The address of an attached pod is the one its tenant's IPAM has on      *)
(* record, as long as Backend.Delete does not fail, whatever else does and *)
(* however requests time out and are repeated.                             *)
THEOREM AttachedPodsRecorded ==
  ASSUME "delete" \notin Faults
  PROVE  Spec => []AttachedRecorded
<1>1. AInv => AttachedRecorded
  BY DEF AInv, AttachInv, AttachOK, AttachedRecorded, Attached
<1> QED
  BY <1>1, AddressInvariant, PTL

(* Disjoint prefixes have no address in common.                            *)
LEMMA DisjointNets ==
  ASSUME NEW p \in Prefixes, NEW q \in Prefixes, p \cap q = {},
         NEW ip \in Int, Contains(p, ip)
  PROVE  ~Contains(q, ip)
<1>1. PICK a, b \in Int : a <= b /\ p = a .. b /\ Net(p) = [base |-> 4 * a, total |-> 4 * (b - a + 1)]
  BY PrefixRange
<1>2. PICK c, d \in Int : c <= d /\ q = c .. d /\ Net(q) = [base |-> 4 * c, total |-> 4 * (d - c + 1)]
  BY PrefixRange
<1>3. 4 * a <= ip /\ ip < 4 * a + 4 * (b - a + 1)
  BY <1>1 DEF Contains
<1>4. SUFFICES ASSUME 4 * c <= ip /\ ip < 4 * c + 4 * (d - c + 1) PROVE FALSE
  BY <1>2 DEF Contains
<1>5. a <= d /\ c <= b
  BY <1>3, <1>4
<1>6. CASE a <= c
  BY <1>1, <1>2, <1>5, <1>6
<1>7. CASE c <= a
  BY <1>1, <1>2, <1>5, <1>7
<1> QED
  BY <1>6, <1>7

(* A recorded address lies in its tenant's node of the trie, unless        *)
(* RemoveTenant has given the node back.                                   *)
LEMMA AddressInNode ==
  ASSUME IInv, PInv, NEW t \in TenantRecords, Phase(disp, t) \notin Released,
         NEW k \in PodKeys, rec[t].IPAM.IPs[k] # None
  PROVE  /\ AllocMap[t] \in Prefixes /\ rec[t].IPAM.IPs[k] \in Int
         /\ Contains(AllocMap[t], rec[t].IPAM.IPs[k])
<1>1. t \in Tenants
  BY DEF IInv, TypeOK
<1>2. /\ RecordOK(Phase(disp, t), t \in TenantRecords, actor[t], rec[t])
      /\ SubnetOK(Phase(disp, t), t \in TenantRecords, actor[t], rec[t], AllocMap[t])
      /\ rec[t] \in Records /\ AllocMap[t] \in OrNone(Prefixes)
  BY <1>1, TenantFacts, TypeFacts
<1>3. PICK n \in Prefixes : n = AllocMap[t]
  BY <1>2 DEF SubnetOK, OrNone
<1>4. PICK q \in Prefixes : rec[t].IPAM.Network = Net(q) /\ q \subseteq n
  <2>1. CASE actor[t].pc = "record"
    BY <1>1, <1>2, <1>3, <2>1, FieldFacts DEF RecordOK, SubnetOK, Growing
  <2>2. CASE actor[t].pc # "record"
    <3>1. rec[t].Subnet \in Prefixes
      BY <1>2 DEF Records
    <3> QED
      BY <1>2, <1>3, <2>2, <3>1 DEF RecordOK, SubnetOK
  <2> QED
    BY <2>1, <2>2
<1>5. PICK m \in IPAMs, ip \in {rec[t].IPAM.IPs[k]} : m = rec[t].IPAM
  BY <1>2 DEF Records
<1>6. IPAMOK(m) /\ m.IPs[k] = ip /\ m.IPs[k] # None
  BY <1>5 DEF PInv, PoolOK
<1>7. ip \in Int /\ ip - Net(q).base - 2 \in 0 .. Net(q).total - 4
  BY <1>4, <1>5, <1>6, IPAMNumbers DEF IPAMOK
<1>8. /\ Net(q).base \in Int /\ Net(q).total \in Int /\ Net(n).base \in Int /\ Net(n).total \in Int
      /\ Net(n).base <= Net(q).base
      /\ Net(q).base + Net(q).total <= Net(n).base + Net(n).total
  BY <1>4, NetFacts, NetGrows
<1>9. Contains(n, ip)
  BY <1>7, <1>8 DEF Contains
<1> QED
  BY <1>3, <1>5, <1>7, <1>9

(* Two recorded addresses differ, within a tenant by its IPAM and between  *)
(* tenants by the trie.                                                    *)
LEMMA RecordedApart ==
  ASSUME IInv, PInv, TrieOK,
         NEW t \in TenantRecords, Phase(disp, t) \notin Released, NEW j \in PodKeys,
         NEW u \in TenantRecords, Phase(disp, u) \notin Released, NEW k \in PodKeys,
         rec[t].IPAM.IPs[j] # None, rec[t].IPAM.IPs[j] = rec[u].IPAM.IPs[k]
  PROVE  t = u /\ j = k
<1>1. CASE t = u
  <2>1. IPAMOK(rec[t].IPAM)
    BY DEF PInv, PoolOK
  <2> QED
    BY <1>1, <2>1 DEF IPAMOK
<1>2. CASE t # u
  <2>1. PICK ip : ip = rec[t].IPAM.IPs[j]
    OBVIOUS
  <2>2. /\ AllocMap[t] \in Prefixes /\ ip \in Int /\ Contains(AllocMap[t], ip)
        /\ AllocMap[u] \in Prefixes /\ Contains(AllocMap[u], ip)
    BY <2>1, AddressInNode
  <2>3. t \in Tenants /\ u \in Tenants
    BY DEF IInv, TypeOK
  <2>4. AllocMap[t] \cap AllocMap[u] = {}
    BY <1>2, <2>2, <2>3, PrefixNotEmpty DEF TrieOK, NodesDisjoint
  <2> QED
    BY <2>2, <2>4, DisjointNets
<1> QED
  BY <1>1, <1>2

(* While a pod is attached its tenant has a record with its address, and   *)
(* has not given its node of the trie back.                                *)
LEMMA AttachedFacts ==
  ASSUME AInv, NEW p \in Pods, eth[p] # None
  PROVE  /\ p[1] \in TenantRecords /\ p[2] \in PodKeys /\ p = <<p[1], p[2]>>
         /\ Phase(disp, p[1]) \notin Released
         /\ rec[p[1]].IPAM.IPs[p[2]] # None
         /\ eth[p].ip # None => rec[p[1]].IPAM.IPs[p[2]] = eth[p].ip
BY PodFacts DEF AInv, AttachInv, AttachOK, DetachInv, BridgeGone

LEMMA UniqueFromInvariants ==
  IInv /\ PInv /\ TrieOK /\ AInv => AddressesUnique
<1> SUFFICES ASSUME IInv, PInv, TrieOK, AInv, NEW p \in Pods, NEW q \in Pods,
                    eth[p] # None, eth[q] # None, eth[p].ip # None, eth[p].ip = eth[q].ip
             PROVE  p = q
  BY DEF AddressesUnique, Attached
<1>1. rec[p[1]].IPAM.IPs[p[2]] = eth[p].ip /\ rec[q[1]].IPAM.IPs[q[2]] = eth[p].ip
  BY AttachedFacts
<1>2. p[1] = q[1] /\ p[2] = q[2]
  BY <1>1, AttachedFacts, RecordedApart
<1> QED
  BY <1>2, AttachedFacts

(* No two attached pods of the node ever have the same address, of one     *)
(* tenant or of two, as long as Backend.Delete does not fail: although     *)
(* RemoveTenant gives the subnet back while the tenant's actor is still at *)
(* work, and a neighbour may grow over it at once.                         *)
THEOREM NoAddressTwice ==
  ASSUME "delete" \notin Faults
  PROVE  Spec => []AddressesUnique
BY AddressInvariant, UniqueFromInvariants, PTL

-----------------------------------------------------------------------------
(* The gateways, when no update of a link or of a pod fails either.        *)

(* An attached pod has an address.                                         *)
AddressedInv == \A p \in Pods : eth[p] # None => eth[p].ip # None

LEMMA AddressedNext ==
  ASSUME "pod" \notin Faults, IInv, AddressedInv, [Next]_vars
  PROVE  AddressedInv'
<1>1. ASSUME \A p \in Pods : eth'[p] # None => eth'[p] = eth[p] PROVE AddressedInv'
  BY <1>1 DEF AddressedInv
<1>2. eth \in [Pods -> OrNone(Interfaces)]
  BY DEF IInv, TypeOK
<1>3. ASSUME NEW t \in Tenants, SetupVeth(t) PROVE AddressedInv'
  <2>1. CASE UNCHANGED eth
    BY <1>1, <2>1
  <2>2. CASE eth' = [eth EXCEPT ![<<t, actor[t].pod>>] = Interface(t)]
    <3>1. Interface(t).ip # None
      <4>1. actor[t].ip # None
        BY <1>3, FieldFacts DEF SetupVeth, Running, Fields
      <4> QED
        BY <4>1 DEF Interface
    <3> QED
      BY <1>2, <2>2, <3>1 DEF AddressedInv
  <2> QED
    BY <1>3, <2>1, <2>2 DEF SetupVeth
<1>4. ASSUME NEW t \in Tenants, ReconcilePods(t) PROVE AddressedInv'
  <2> DEFINE listed == {p \in Pods : p[1] = t /\ rec[t].IPAM.IPs[p[2]] # None /\ eth[p] # None}
  <2>1. PICK f : /\ \A p \in listed : f[p] \in UpdateOutcomes(t, p)
                 /\ eth' = [p \in Pods |-> IF p \in listed THEN f[p] ELSE eth[p]]
    BY <1>4 DEF ReconcilePods
  <2>2. ASSUME NEW p \in listed PROVE f[p].ip # None
    <3>1. f[p] \in {eth[p], Updated(t, p)}
      BY <2>1, <2>2 DEF UpdateOutcomes
    <3>2. Updated(t, p).ip # None
      BY <2>2 DEF Updated
    <3>3. eth[p].ip # None
      BY <2>2 DEF AddressedInv
    <3> QED
      BY <3>1, <3>2, <3>3
  <2> HIDE DEF listed
  <2> QED
    BY <2>1, <2>2 DEF AddressedInv
<1>5. ASSUME NEW t \in Tenants, Actor(t) PROVE AddressedInv'
  <2>1. CASE ReceiveRemove(t)
    BY <1>1, <1>2, <2>1 DEF ReceiveRemove
  <2>2. CASE UNCHANGED eth
    BY <1>1, <2>2
  <2> QED
    BY <1>3, <1>4, <1>5, <2>1, <2>2 DEF Actor, ReceiveEnsure, ReceiveStop, Refuse, Allocate,
       Exhausted, LookupBridge, RequestExpansion, ExpandSubnet, UpdateBridge, UpdateVtep,
       ExpandIPAM, ExpandRecord, TornRead, kernelVars
<1>6. ASSUME Dispatcher PROVE AddressedInv'
  <2>1. CASE RemoveBridge
    BY <1>1, <2>1 DEF RemoveBridge, kernelVars
  <2>2. CASE UNCHANGED eth
    BY <1>1, <2>2
  <2> QED
    BY <1>6, <2>1, <2>2 DEF Dispatcher, EnsureSubnet, EnsureBackend, EnsurePolicy, EnsureCommit,
       StartTenantActor, RemoveVtep, RemoveFields, RemoveSubnet, RemoveStop, RemoveActor,
       RemoveRecord, kernelVars
<1>7. ASSUME NEW p \in Pods, Request(p) PROVE AddressedInv'
  <2>1. \A q \in Pods : eth'[q] # None => eth'[q] = eth[q]
    BY <1>2, <1>7 DEF Request, Send, Lookup, GiveUp, kernelVars
  <2> QED
    BY <1>1, <2>1
<1>8. ASSUME NEW t \in Tenants, Command(t) PROVE AddressedInv'
  BY <1>1, <1>8 DEF Command, EnsureTenant, RemoveTenant, kernelVars
<1>9. ASSUME UNCHANGED vars PROVE AddressedInv'
  BY <1>1, <1>9 DEF vars, kernelVars
<1> QED
  BY <1>5, <1>6, <1>7, <1>8, <1>9 DEF Next

(* IPAM.Expand accepts every larger prefix.                                *)
LEMMA RebasePossible ==
  ASSUME NEW t, NEW m \in IPAMs, NEW q \in Prefixes, NEW n \in Prefixes,
         IPAMOK(m), m.Network = Net(q), q \subseteq n
  PROVE  IPAM(t)!CanRebase(m, Net(n))
<1>1. /\ Net(q).base \in Int /\ Net(q).total \in Int /\ Net(n).base \in Int /\ Net(n).total \in Int
      /\ Net(n).base <= Net(q).base
      /\ Net(q).base + Net(q).total <= Net(n).base + Net(n).total
  BY NetFacts, NetGrows
<1>2. ASSUME NEW k \in PodKeys, m.IPs[k] # None
      PROVE  IPAM(t)!ipToIndex(Net(n), m.IPs[k]) >= 0
  <2>1. m.IPs[k] \in Int /\ m.IPs[k] - Net(q).base - 2 \in 0 .. Net(q).total - 4
    BY <1>2, IPAMNumbers DEF IPAMOK
  <2> QED
    BY <1>1, <2>1 DEF IPAM!ipToIndex
<1>3. IPAM(t)!cidrContains(Net(n), m.Network)
  BY <1>1 DEF IPAM!cidrContains
<1> QED
  BY <1>2, <1>3 DEF IPAM!CanRebase, IPAM!Held

(* The links l of a tenant in phase ph, with record r and node n: from     *)
(* Backend.Create to RemoveTenant there are a VTEP and a bridge with the   *)
(* gateway's address.                                                      *)
BackendOK(ph, has, l, r, n) ==
  /\ ph \in {"policy", "commit"} => l.bridge # None /\ FirstIP(n) \in l.bridge /\ l.vtep # None
  /\ has /\ r.State # "Closing" => l.bridge # None /\ r.BridgeIP \in l.bridge /\ l.vtep # None

BackendInv ==
  \A t \in Tenants : BackendOK(Phase(disp, t), t \in TenantRecords, link[t], rec[t], AllocMap[t])

(* A step that concerns tenant t.                                          *)
LEMMA BackendFrame ==
  ASSUME BackendInv, NEW t \in Tenants,
         \A u \in Tenants : u # t =>
           /\ Phase(disp', u) = Phase(disp, u) /\ (u \in TenantRecords' => u \in TenantRecords)
           /\ link'[u] = link[u] /\ rec'[u] = rec[u] /\ AllocMap'[u] = AllocMap[u],
         BackendOK(Phase(disp', t), t \in TenantRecords', link'[t], rec'[t], AllocMap'[t])
  PROVE  BackendInv'
<1>1. ASSUME NEW u \in Tenants, u # t
      PROVE  BackendOK(Phase(disp', u), u \in TenantRecords', link'[u], rec'[u], AllocMap'[u])
  <2>1. BackendOK(Phase(disp, u), u \in TenantRecords, link[u], rec[u], AllocMap[u])
    BY DEF BackendInv
  <2> QED
    BY <1>1, <2>1 DEF BackendOK
<1> QED
  BY <1>1 DEF BackendInv

(* Steps that touch neither link nor record.                               *)
LEMMA BackendSame ==
  ASSUME BackendInv, UNCHANGED <<subnetVars, disp, link>>, UNCHANGED recordVars
  PROVE  BackendInv'
BY DEF BackendInv, recordVars, subnetVars

(* A step of the dispatcher for tenant t, to phase ph.                     *)
LEMMA BackendDisp ==
  ASSUME IInv, BackendInv, NEW t \in Tenants, disp.t \in {t, None}, disp'.t \in {t, None},
         \A u \in Tenants : u # t =>
           /\ u \in TenantRecords' => u \in TenantRecords
           /\ link'[u] = link[u] /\ rec'[u] = rec[u] /\ AllocMap'[u] = AllocMap[u],
         NEW ph, Phase(disp', t) = ph,
         BackendOK(ph, t \in TenantRecords', link'[t], rec'[t], AllocMap'[t])
  PROVE  BackendInv'
<1>1. \A u \in Tenants : u # t => Phase(disp', u) = Phase(disp, u)
  BY NoneAssumption DEF Phase
<1> QED
  BY <1>1, BackendFrame

LEMMA BackendEnsureSubnet ==
  ASSUME IInv, BackendInv, EnsureSubnet
  PROVE  BackendInv'
<1>1. disp.pc = "subnet" /\ UNCHANGED <<recordVars, link>>
  BY DEF EnsureSubnet, At, kernelVars
<1>2. PICK t \in Tenants : disp.t = t
  BY <1>1, DispFacts
<1>3. disp \in DispatcherStates /\ TypeOK
  BY DEF IInv, TypeOK
<1>4. t \notin TenantRecords
  <2>1. /\ Life(Phase(disp, t), t \in TenantRecords, TenantActors[t], actor[t].pc)
        /\ Phase(disp, t) = "subnet"
    BY <1>1, <1>2, TenantFacts DEF Phase
  <2> QED
    BY <2>1 DEF Life, Ensuring, Removing
<1>5. disp' = Idle \/ Goto("backend")
  BY DEF EnsureSubnet
<1>6. disp'.t \in {t, None} /\ Phase(disp', t) \notin {"policy", "commit"}
  BY <1>2, <1>3, <1>5 DEF Goto, Idle, DispatcherStates, Phase
<1>7. OthersKeepNodes(t)
  BY <1>2, <1>3, TrieAllocate, TrieUnchanged DEF EnsureSubnet, TypeOK
<1>8. BackendOK(Phase(disp', t), t \in TenantRecords', link'[t], rec'[t], AllocMap'[t])
  BY <1>1, <1>4, <1>6 DEF BackendOK, recordVars
<1>9. \A u \in Tenants : u # t =>
           /\ u \in TenantRecords' => u \in TenantRecords
           /\ link'[u] = link[u] /\ rec'[u] = rec[u] /\ AllocMap'[u] = AllocMap[u]
  BY <1>1, <1>7 DEF recordVars, OthersKeepNodes
<1> QED
  BY <1>2, <1>6, <1>8, <1>9, BackendDisp

(* What the dispatcher's steps have in common.                             *)
LEMMA EnsuringFacts ==
  ASSUME IInv, disp.pc \in Ensuring
  PROVE  \E t \in Tenants : /\ disp.t = t /\ Phase(disp, t) = disp.pc /\ t \notin TenantRecords
                            /\ (disp.pc # "subnet" => AllocMap[t] \in Prefixes)
                            /\ TypeOK /\ Subnet!TypeOK /\ link \in [Tenants -> Links]
<1>1. PICK t \in Tenants : disp.t = t /\ Phase(disp, t) = disp.pc
  BY DispFacts DEF Ensuring
<1>2. /\ Life(Phase(disp, t), t \in TenantRecords, TenantActors[t], actor[t].pc)
      /\ SubnetOK(Phase(disp, t), t \in TenantRecords, actor[t], rec[t], AllocMap[t])
      /\ TypeOK
  BY TenantFacts
<1>3. t \notin TenantRecords
  BY <1>1, <1>2 DEF Life, Ensuring, Removing
<1>4. /\ AllocMap[t] \in OrNone(Prefixes) /\ Subnet!TypeOK /\ link \in [Tenants -> Links]
  BY <1>2, TypeFacts
<1>5. disp.pc # "subnet" => AllocMap[t] \in Prefixes
  BY <1>1, <1>2, <1>4 DEF SubnetOK, Ensuring, OrNone
<1> QED
  BY <1>1, <1>2, <1>3, <1>4, <1>5

(* EnsureTenant fails: nothing is said of a tenant without a record.       *)
LEMMA BackendFailed ==
  ASSUME IInv, BackendInv, NEW t \in Tenants, disp.t = t, t \notin TenantRecords,
         disp' = Idle, TryDeallocate(t), UNCHANGED recordVars,
         NEW l, link' = [link EXCEPT ![t] = l]
  PROVE  BackendInv'
<1>1. TypeOK /\ Subnet!TypeOK /\ link \in [Tenants -> Links]
  BY TenantFacts, TypeFacts
<1>2. OthersKeepNodes(t)
  BY <1>1, TrieDeallocate
<1>3. disp'.t \in {t, None} /\ Phase(disp', t) = "idle"
  BY IdleFacts
<1>4. BackendOK("idle", t \in TenantRecords', link'[t], rec'[t], AllocMap'[t])
  BY DEF BackendOK, recordVars
<1>5. \A u \in Tenants : u # t =>
           /\ u \in TenantRecords' => u \in TenantRecords
           /\ link'[u] = link[u] /\ rec'[u] = rec[u] /\ AllocMap'[u] = AllocMap[u]
  BY <1>1, <1>2 DEF recordVars, OthersKeepNodes
<1>6. disp.t \in {t, None}
  OBVIOUS
<1> QED
  BY <1>3, <1>4, <1>5, <1>6, BackendDisp

LEMMA BackendEnsureBackend ==
  ASSUME IInv, BackendInv, EnsureBackend
  PROVE  BackendInv'
<1>1. disp.pc = "backend" /\ UNCHANGED recordVars
  BY DEF EnsureBackend, At
<1>2. PICK t \in Tenants : /\ disp.t = t /\ t \notin TenantRecords /\ AllocMap[t] \in Prefixes
                           /\ link \in [Tenants -> Links]
  BY <1>1, EnsuringFacts DEF Ensuring
<1>3. CASE /\ link' = [link EXCEPT ![t] = LinksCreated(t, AllocMap[t])]
           /\ Goto("policy") /\ UNCHANGED subnetVars
  <2>1. PICK d \in DispatcherStates :
           disp' = d /\ d.t = t /\ d.pc = "policy" /\ DispOK(d) /\ Phase(d, t) = "policy"
    BY <1>2, <1>3, GotoFacts
  <2>2. link'[t] = LinksCreated(t, AllocMap[t]) /\ AllocMap' = AllocMap
    BY <1>2, <1>3 DEF subnetVars
  <2>3. BridgeUp(t, AllocMap[t]) # None /\ FirstIP(AllocMap[t]) \in BridgeUp(t, AllocMap[t])
    <3>1. link[t].bridge \in OrNone(SUBSET Addresses) /\ FirstIP(AllocMap[t]) \in Addresses
      BY <1>2, NetFacts DEF Links
    <3>2. BridgeUp(t, AllocMap[t]) \in SUBSET Addresses
      BY <3>1 DEF BridgeUp, OrNone
    <3> QED
      BY <3>2, NoneAssumption DEF BridgeUp
  <2>4. VtepUp(t, AllocMap[t]) # None
    <3>1. {HostIP(AllocMap[t])} \in SUBSET Addresses
      BY <1>2, NetFacts
    <3> QED
      BY <3>1, NoneAssumption DEF VtepUp
  <2>5. BackendOK("policy", t \in TenantRecords', link'[t], rec'[t], AllocMap'[t])
    BY <1>1, <1>2, <2>2, <2>3, <2>4 DEF BackendOK, LinksCreated, recordVars
  <2>6. disp.t \in {t, None} /\ disp'.t \in {t, None} /\ Phase(disp', t) = "policy"
    BY <1>2, <2>1
  <2>7. \A u \in Tenants : u # t =>
           /\ u \in TenantRecords' => u \in TenantRecords
           /\ link'[u] = link[u] /\ rec'[u] = rec[u] /\ AllocMap'[u] = AllocMap[u]
    BY <1>1, <1>2, <1>3, <2>2 DEF recordVars
  <2> QED
    BY <2>5, <2>6, <2>7, BackendDisp
<1>4. CASE /\ \E l \in LinksFailed(t) : link' = [link EXCEPT ![t] = l]
           /\ TryDeallocate(t) /\ disp' = Idle
  BY <1>1, <1>2, <1>4, BackendFailed
<1> QED
  BY <1>2, <1>3, <1>4 DEF EnsureBackend

LEMMA BackendEnsurePolicy ==
  ASSUME IInv, BackendInv, EnsurePolicy
  PROVE  BackendInv'
<1>1. disp.pc = "policy" /\ UNCHANGED recordVars
  BY DEF EnsurePolicy, At
<1>2. PICK t \in Tenants : disp.t = t /\ t \notin TenantRecords /\ Phase(disp, t) = "policy"
  BY <1>1, EnsuringFacts DEF Ensuring
<1>3. CASE Goto("commit") /\ UNCHANGED <<subnetVars, link>>
  <2>1. PICK d \in DispatcherStates :
           disp' = d /\ d.t = t /\ d.pc = "commit" /\ DispOK(d) /\ Phase(d, t) = "commit"
    BY <1>2, <1>3, GotoFacts
  <2>2. link' = link /\ AllocMap' = AllocMap /\ rec' = rec /\ TenantRecords' = TenantRecords
    BY <1>1, <1>3 DEF subnetVars, recordVars
  <2>3. BackendOK("commit", t \in TenantRecords', link'[t], rec'[t], AllocMap'[t])
    <3>1. BackendOK("policy", t \in TenantRecords, link[t], rec[t], AllocMap[t])
      BY <1>2 DEF BackendInv
    <3> QED
      BY <2>2, <3>1 DEF BackendOK
  <2>4. disp.t \in {t, None} /\ disp'.t \in {t, None} /\ Phase(disp', t) = "commit"
    BY <1>2, <2>1
  <2> QED
    BY <2>2, <2>3, <2>4, BackendDisp
<1>4. CASE /\ \E l \in LinksDeleted(link[t]) : link' = [link EXCEPT ![t] = l]
           /\ TryDeallocate(t) /\ disp' = Idle
  BY <1>1, <1>2, <1>4, BackendFailed
<1> QED
  BY <1>2, <1>3, <1>4 DEF EnsurePolicy

LEMMA BackendEnsureCommit ==
  ASSUME IInv, BackendInv, EnsureCommit
  PROVE  BackendInv'
<1>1. disp.pc = "commit"
  BY DEF EnsureCommit, At
<1>2. PICK t \in Tenants : /\ disp.t = t /\ t \notin TenantRecords /\ Phase(disp, t) = "commit"
                           /\ AllocMap[t] \in Prefixes /\ TypeOK
  BY <1>1, EnsuringFacts DEF Ensuring
<1>3. PICK n \in Prefixes : n = AllocMap[t]
  BY <1>2
<1>4. PICK r : r = NewRecord(t, n)
  OBVIOUS
<1>5. /\ TenantRecords' = TenantRecords \cup {t} /\ rec' = [rec EXCEPT ![t] = r]
      /\ Goto("start") /\ UNCHANGED <<subnetVars, link>>
  BY <1>2, <1>3, <1>4 DEF EnsureCommit
<1>6. r.BridgeIP = FirstIP(n)
  BY <1>4, NewRecordFacts
<1>7. PICK d \in DispatcherStates :
         disp' = d /\ d.t = t /\ d.pc = "start" /\ DispOK(d) /\ Phase(d, t) = "start"
  BY <1>2, <1>5, GotoFacts
<1>8. /\ link' = link /\ AllocMap' = AllocMap /\ rec'[t] = r
      /\ \A u \in Tenants : u # t => rec'[u] = rec[u]
  BY <1>2, <1>5 DEF subnetVars, TypeOK
<1>9. BackendOK("start", t \in TenantRecords', link'[t], rec'[t], AllocMap'[t])
  <2>1. BackendOK("commit", t \in TenantRecords, link[t], rec[t], n)
    BY <1>2, <1>3 DEF BackendInv
  <2> QED
    BY <1>6, <1>8, <2>1 DEF BackendOK
<1>10. disp.t \in {t, None} /\ disp'.t \in {t, None} /\ Phase(disp', t) = "start"
  BY <1>2, <1>7
<1>11. \A u \in Tenants : u # t =>
           /\ u \in TenantRecords' => u \in TenantRecords
           /\ link'[u] = link[u] /\ rec'[u] = rec[u] /\ AllocMap'[u] = AllocMap[u]
  BY <1>5, <1>8
<1> QED
  BY <1>9, <1>10, <1>11, BackendDisp

(* RemoveTenant: nothing is said of a closing tenant.                      *)
LEMMA RemovingFacts ==
  ASSUME IInv, disp.pc \in Removing
  PROVE  \E t \in Tenants : /\ disp.t = t /\ t \in TenantRecords /\ rec[t] \in Records
                            /\ rec[t].State = "Closing" /\ TypeOK /\ Subnet!TypeOK
                            /\ disp \in DispatcherStates
<1>1. PICK t \in Tenants : disp.t = t /\ Phase(disp, t) = disp.pc
  BY DispFacts DEF Removing
<1>2. /\ Life(Phase(disp, t), t \in TenantRecords, TenantActors[t], actor[t].pc)
      /\ RecordOK(Phase(disp, t), t \in TenantRecords, actor[t], rec[t])
      /\ TypeOK
  BY TenantFacts
<1>3. t \in TenantRecords
  BY <1>1, <1>2 DEF Life, Ensuring, Removing
<1>4. rec[t].State = "Closing"
  BY <1>1, <1>2, <1>3 DEF RecordOK
<1>5. rec[t] \in Records /\ Subnet!TypeOK /\ disp \in DispatcherStates
  BY <1>2, <1>3, TypeFacts
<1> QED
  BY <1>1, <1>2, <1>3, <1>4, <1>5

LEMMA BackendRemove ==
  ASSUME IInv, BackendInv,
         RemoveVtep \/ RemoveBridge \/ RemoveFields \/ RemoveSubnet \/ RemoveStop \/ RemoveActor \/ RemoveRecord
  PROVE  BackendInv'
<1>1. disp.pc \in Removing
  BY DEF RemoveVtep, RemoveBridge, RemoveFields, RemoveSubnet, RemoveStop, RemoveActor,
     RemoveRecord, At, Removing
<1>2. PICK t \in Tenants : /\ disp.t = t /\ t \in TenantRecords /\ rec[t] \in Records
                           /\ rec[t].State = "Closing" /\ TypeOK /\ Subnet!TypeOK
                           /\ disp \in DispatcherStates
  BY <1>1, RemovingFacts
<1>3. disp' = Idle \/ \E pc \in {"bridge", "nil", "dealloc", "stop", "ack", "drop"} : Goto(pc)
  BY DEF RemoveVtep, RemoveBridge, RemoveFields, RemoveSubnet, RemoveStop, RemoveActor, RemoveRecord
<1>4. disp'.t \in {t, None} /\ Phase(disp', t) \notin {"policy", "commit"}
  BY <1>2, <1>3 DEF Goto, Idle, DispatcherStates, Phase
<1>5. /\ TenantRecords' \subseteq TenantRecords
      /\ \A u \in Tenants : u # t => rec'[u] = rec[u]
      /\ t \notin TenantRecords' \/ rec'[t].State = "Closing"
  <2>1. CASE UNCHANGED recordVars
    BY <1>2, <2>1 DEF recordVars
  <2>2. CASE RemoveFields
    <3>1. TenantRecords' = TenantRecords /\ rec' = [rec EXCEPT ![t].devices = FALSE]
      BY <1>2, <2>2 DEF RemoveFields
    <3>2. \A u \in Tenants : u # t => rec'[u] = rec[u]
      BY <1>2, <3>1 DEF TypeOK
    <3>3. rec'[t].State = "Closing"
      BY <1>2, <3>1 DEF TypeOK, Records
    <3> QED
      BY <3>1, <3>2, <3>3
  <2>3. CASE RemoveRecord
    BY <1>2, <2>3 DEF RemoveRecord, TypeOK
  <2> QED
    BY <2>1, <2>2, <2>3 DEF RemoveVtep, RemoveBridge, RemoveSubnet, RemoveStop, RemoveActor
<1>6. \A u \in Tenants : u # t => link'[u] = link[u]
  BY <1>2 DEF RemoveVtep, RemoveBridge, RemoveFields, RemoveSubnet, RemoveStop, RemoveActor,
     RemoveRecord, kernelVars, TypeOK
<1>7. OthersKeepNodes(t)
  <2>1. CASE RemoveSubnet
    BY <1>2, <2>1, TrieDeallocate DEF RemoveSubnet
  <2>2. CASE UNCHANGED subnetVars
    BY <1>2, <2>2, TrieUnchanged
  <2> QED
    BY <2>1, <2>2 DEF RemoveVtep, RemoveBridge, RemoveFields, RemoveStop, RemoveActor, RemoveRecord
<1>8. BackendOK(Phase(disp', t), t \in TenantRecords', link'[t], rec'[t], AllocMap'[t])
  BY <1>4, <1>5 DEF BackendOK
<1>9. \A u \in Tenants : u # t =>
           /\ u \in TenantRecords' => u \in TenantRecords
           /\ link'[u] = link[u] /\ rec'[u] = rec[u] /\ AllocMap'[u] = AllocMap[u]
  BY <1>5, <1>6, <1>7 DEF OthersKeepNodes
<1>10. disp.t \in {t, None}
  BY <1>2
<1> QED
  BY <1>4, <1>8, <1>9, <1>10, BackendDisp

LEMMA BackendDispatcher ==
  ASSUME IInv, BackendInv, Dispatcher
  PROVE  BackendInv'
<1>1. CASE StartTenantActor
  <2>1. disp.pc = "start" /\ disp' = Idle /\ UNCHANGED <<subnetVars, recordVars, link>>
    BY <1>1 DEF StartTenantActor, At, kernelVars
  <2>2. PICK t \in Tenants : disp.t = t /\ Phase(disp, t) = "start"
    BY <2>1, DispFacts
  <2>3. link' = link /\ AllocMap' = AllocMap /\ rec' = rec /\ TenantRecords' = TenantRecords
    BY <2>1 DEF subnetVars, recordVars
  <2>4. BackendOK("idle", t \in TenantRecords', link'[t], rec'[t], AllocMap'[t])
    <3>1. BackendOK("start", t \in TenantRecords, link[t], rec[t], AllocMap[t])
      BY <2>2 DEF BackendInv
    <3> QED
      BY <2>3, <3>1 DEF BackendOK
  <2>5. disp.t \in {t, None} /\ disp'.t \in {t, None} /\ Phase(disp', t) = "idle"
    BY <2>1, <2>2, IdleFacts
  <2> QED
    BY <2>3, <2>4, <2>5, BackendDisp
<1> QED
  BY <1>1, BackendEnsureSubnet, BackendEnsureBackend, BackendEnsurePolicy, BackendEnsureCommit,
     BackendRemove DEF Dispatcher

LEMMA BackendCommand ==
  ASSUME IInv, BackendInv, NEW t \in Tenants, Command(t)
  PROVE  BackendInv'
<1>1. disp.pc = "idle" /\ UNCHANGED <<subnetVars, link>>
  BY DEF Command, EnsureTenant, RemoveTenant, At, kernelVars
<1>2. disp.t = None /\ TypeOK
  BY <1>1 DEF IInv, DispOK
<1>3. disp.t \in {t, None} /\ disp'.t \in {t, None} /\ Phase(disp', t) \notin {"policy", "commit"}
  BY <1>2 DEF Command, EnsureTenant, RemoveTenant, Phase
<1>4. /\ TenantRecords' = TenantRecords /\ \A u \in Tenants : u # t => rec'[u] = rec[u]
      /\ t \notin TenantRecords \/ rec'[t].State = "Closing"
  <2>1. CASE EnsureTenant(t)
    BY <2>1 DEF EnsureTenant, recordVars
  <2>2. CASE RemoveTenant(t)
    <3>1. TenantRecords' = TenantRecords /\ rec' = [rec EXCEPT ![t].State = "Closing"] /\ rec[t] \in Records
      BY <1>2, <2>2, TypeFacts DEF RemoveTenant
    <3>2. \A u \in Tenants : u # t => rec'[u] = rec[u]
      BY <1>2, <3>1 DEF TypeOK
    <3>3. rec'[t].State = "Closing"
      BY <1>2, <3>1 DEF TypeOK, Records
    <3> QED
      BY <3>1, <3>2, <3>3
  <2> QED
    BY <2>1, <2>2 DEF Command
<1>5. BackendOK(Phase(disp', t), t \in TenantRecords', link'[t], rec'[t], AllocMap'[t])
  BY <1>3, <1>4 DEF BackendOK
<1>6. \A u \in Tenants : u # t =>
           /\ u \in TenantRecords' => u \in TenantRecords
           /\ link'[u] = link[u] /\ rec'[u] = rec[u] /\ AllocMap'[u] = AllocMap[u]
  BY <1>1, <1>4 DEF subnetVars
<1> QED
  BY <1>3, <1>5, <1>6, BackendDisp

(* The steps of the actor that change the IPAM keep the rest of the record.*)
LEMMA IPAMOnly ==
  ASSUME IInv, NEW t \in Tenants, actor[t].pc # "off", NEW x,
         rec' = rec \/ rec' = [rec EXCEPT ![t].IPAM = x]
  PROVE  \E r : /\ rec' = [rec EXCEPT ![t] = r] /\ r.State = rec[t].State
                /\ r.BridgeIP = rec[t].BridgeIP /\ r.Subnet = rec[t].Subnet
<1>1. rec \in [Tenants -> OrNone(Records)] /\ rec[t] \in Records
  BY RunningFacts DEF IInv, TypeOK
<1>2. CASE rec' = rec
  <2>1. rec' = [rec EXCEPT ![t] = rec[t]]
    BY <1>1, <1>2
  <2> QED
    BY <2>1
<1>3. CASE rec' = [rec EXCEPT ![t].IPAM = x]
  <2>1. PICK r : r = [rec[t] EXCEPT !.IPAM = x]
    OBVIOUS
  <2>2. rec' = [rec EXCEPT ![t] = r]
    BY <1>3, <2>1
  <2>3. r.State = rec[t].State /\ r.BridgeIP = rec[t].BridgeIP /\ r.Subnet = rec[t].Subnet
    BY <1>1, <2>1 DEF Records
  <2> QED
    BY <2>2, <2>3
<1> QED
  BY <1>2, <1>3

(* The links of an open tenant.                                            *)
LinksOpen(l, r) ==
  r.State # "Closing" => l.bridge # None /\ r.BridgeIP \in l.bridge /\ l.vtep # None

LEMMA BackendActorStep ==
  ASSUME IInv, BackendInv, NEW t \in Tenants, actor[t].pc # "off", disp' = disp,
         OthersKeepNodes(t), TenantRecords' \subseteq TenantRecords \cup {t},
         NEW l, link' = [link EXCEPT ![t] = l], NEW r, rec' = [rec EXCEPT ![t] = r],
         LinksOpen(link[t], rec[t]) => LinksOpen(l, r)
  PROVE  BackendInv'
<1>1. TypeOK /\ t \in TenantRecords /\ Phase(disp, t) \in ({"idle"} \cup Removing) \ {"drop"}
  BY RunningFacts, TenantFacts
<1>2. /\ link'[t] = l /\ rec'[t] = r
      /\ \A u \in Tenants : u # t => link'[u] = link[u] /\ rec'[u] = rec[u]
  BY <1>1 DEF TypeOK
<1>3. LinksOpen(l, r)
  <2>1. BackendOK(Phase(disp, t), t \in TenantRecords, link[t], rec[t], AllocMap[t])
    BY DEF BackendInv
  <2> QED
    BY <1>1, <2>1 DEF BackendOK, LinksOpen
<1>4. BackendOK(Phase(disp', t), t \in TenantRecords', link'[t], rec'[t], AllocMap'[t])
  BY <1>1, <1>2, <1>3 DEF BackendOK, LinksOpen, Removing
<1>5. \A u \in Tenants : u # t =>
           /\ Phase(disp', u) = Phase(disp, u) /\ (u \in TenantRecords' => u \in TenantRecords)
           /\ link'[u] = link[u] /\ rec'[u] = rec[u] /\ AllocMap'[u] = AllocMap[u]
  BY <1>2 DEF OthersKeepNodes
<1> QED
  BY <1>4, <1>5, BackendFrame

LEMMA BackendUpdateBridge ==
  ASSUME "update" \notin Faults, IInv, BackendInv, NEW t \in Tenants, UpdateBridge(t)
  PROVE  BackendInv'
<1>1. actor[t].pc = "bridge" /\ UNCHANGED <<subnetVars, TenantRecords, disp>>
  BY DEF UpdateBridge, Running
<1>2. /\ actor[t].net \in Prefixes /\ rec[t] \in Records /\ link[t] \in Links
      /\ Subnet!TypeOK
  BY <1>1, FieldFacts, RunningFacts, TenantFacts, TypeFacts DEF Growing
<1>3. CASE UNCHANGED <<link, rec>>
  BY <1>1, <1>3, BackendSame DEF recordVars
<1>4. CASE /\ link' = [link EXCEPT ![t].bridge = {FirstIP(actor[t].net)}]
           /\ rec' = [rec EXCEPT ![t].BridgeIP = FirstIP(actor[t].net)]
  <2>1. PICK ip \in Addresses : ip = FirstIP(actor[t].net)
    BY <1>2, NetFacts
  <2>2. PICK l : l = [link[t] EXCEPT !.bridge = {ip}]
    OBVIOUS
  <2>3. PICK r : r = [rec[t] EXCEPT !.BridgeIP = ip]
    OBVIOUS
  <2>4. link' = [link EXCEPT ![t] = l] /\ rec' = [rec EXCEPT ![t] = r]
    BY <1>4, <2>1, <2>2, <2>3
  <2>5. l.bridge = {ip} /\ l.vtep = link[t].vtep /\ {ip} # None
    BY <1>2, <2>2, NoneAssumption DEF Links
  <2>6. r.BridgeIP = ip /\ r.State = rec[t].State
    BY <1>2, <2>3, WithBridgeIP
  <2>7. LinksOpen(link[t], rec[t]) => LinksOpen(l, r)
    BY <2>5, <2>6 DEF LinksOpen
  <2>8. /\ OthersKeepNodes(t) /\ disp' = disp /\ TenantRecords' \subseteq TenantRecords \cup {t}
        /\ actor[t].pc # "off"
    BY <1>1, <1>2, TrieUnchanged
  <2> QED
    BY <2>4, <2>7, <2>8, BackendActorStep
<1> QED
  BY <1>3, <1>4 DEF UpdateBridge

LEMMA BackendUpdateVtep ==
  ASSUME IInv, BackendInv, NEW t \in Tenants, UpdateVtep(t)
  PROVE  BackendInv'
<1>1. actor[t].pc = "vtep" /\ UNCHANGED <<subnetVars, recordVars, disp>>
  BY DEF UpdateVtep, Running
<1>2. /\ actor[t].net \in Prefixes /\ rec[t] \in Records /\ link[t] \in Links
      /\ Subnet!TypeOK /\ rec \in [Tenants -> OrNone(Records)]
  BY <1>1, FieldFacts, RunningFacts, TenantFacts, TypeFacts DEF Growing
<1>3. CASE UNCHANGED link
  BY <1>1, <1>3, BackendSame
<1>4. CASE link[t].vtep # None /\ link' = [link EXCEPT ![t].vtep = @ \cup {HostIP(actor[t].net)}]
  <2>1. PICK ip \in Addresses : ip = HostIP(actor[t].net)
    BY <1>2, NetFacts
  <2>2. PICK l : l = [link[t] EXCEPT !.vtep = link[t].vtep \cup {ip}]
    OBVIOUS
  <2>3. link' = [link EXCEPT ![t] = l] /\ rec' = [rec EXCEPT ![t] = rec[t]]
    BY <1>1, <1>2, <1>4, <2>1, <2>2 DEF recordVars
  <2>4. link[t].vtep \cup {ip} \in SUBSET Addresses
    BY <1>2, <1>4 DEF Links, OrNone
  <2>5. l.bridge = link[t].bridge /\ l.vtep # None
    BY <1>2, <2>2, <2>4, NoneAssumption DEF Links
  <2>6. LinksOpen(link[t], rec[t]) => LinksOpen(l, rec[t])
    BY <2>5 DEF LinksOpen
  <2>7. /\ OthersKeepNodes(t) /\ disp' = disp /\ TenantRecords' \subseteq TenantRecords \cup {t}
        /\ actor[t].pc # "off"
    BY <1>1, <1>2, TrieUnchanged DEF recordVars
  <2> QED
    BY <2>3, <2>6, <2>7, BackendActorStep
<1> QED
  BY <1>3, <1>4 DEF UpdateVtep

LEMMA BackendActor ==
  ASSUME "update" \notin Faults, IInv, BackendInv, NEW t \in Tenants, Actor(t)
  PROVE  BackendInv'
<1>1. TypeOK /\ Subnet!TypeOK /\ link \in [Tenants -> Links] /\ rec \in [Tenants -> OrNone(Records)]
  BY TenantFacts, TypeFacts
<1>2. link = [link EXCEPT ![t] = link[t]] /\ rec = [rec EXCEPT ![t] = rec[t]]
  BY <1>1
<1>3. ASSUME \/ ReceiveEnsure(t) \/ ReceiveRemove(t) \/ ReceiveStop(t) \/ Refuse(t) \/ Exhausted(t)
             \/ LookupBridge(t) \/ RequestExpansion(t) \/ ReconcilePods(t) \/ TornRead(t)
      PROVE  BackendInv'
  <2>1. UNCHANGED <<subnetVars, disp, link>> /\ UNCHANGED recordVars
    BY <1>3 DEF ReceiveEnsure, ReceiveRemove, ReceiveStop, Refuse, Exhausted, LookupBridge,
       RequestExpansion, ReconcilePods, TornRead, kernelVars
  <2> QED
    BY <2>1, BackendSame
<1>4. ASSUME Allocate(t) \/ SetupVeth(t) \/ ExpandIPAM(t) PROVE BackendInv'
  <2>1. /\ actor[t].pc # "off" /\ disp' = disp /\ TenantRecords' \subseteq TenantRecords \cup {t}
        /\ UNCHANGED subnetVars /\ link' = link
    BY <1>4 DEF Allocate, SetupVeth, ExpandIPAM, Running, kernelVars
  <2>2. PICK x : rec' = rec \/ rec' = [rec EXCEPT ![t].IPAM = x]
    BY <1>4 DEF Allocate, SetupVeth, ExpandIPAM
  <2>3. PICK r : /\ rec' = [rec EXCEPT ![t] = r] /\ r.State = rec[t].State
                 /\ r.BridgeIP = rec[t].BridgeIP /\ r.Subnet = rec[t].Subnet
    BY <2>1, <2>2, IPAMOnly
  <2>4. LinksOpen(link[t], rec[t]) => LinksOpen(link[t], r)
    BY <2>3 DEF LinksOpen
  <2>5. OthersKeepNodes(t) /\ link' = [link EXCEPT ![t] = link[t]]
    BY <1>1, <1>2, <2>1, TrieUnchanged
  <2> QED
    BY <2>1, <2>3, <2>4, <2>5, BackendActorStep
<1>5. ASSUME ExpandSubnet(t) PROVE BackendInv'
  <2>1. actor[t].pc # "off" /\ disp' = disp /\ UNCHANGED recordVars /\ link' = link
    BY <1>5 DEF ExpandSubnet, Running, kernelVars
  <2>2. OthersKeepNodes(t)
    BY <1>1, <1>5, TrieExpand, TrieUnchanged DEF ExpandSubnet
  <2>3. /\ link' = [link EXCEPT ![t] = link[t]] /\ rec' = [rec EXCEPT ![t] = rec[t]]
        /\ TenantRecords' \subseteq TenantRecords \cup {t}
    BY <1>2, <2>1 DEF recordVars
  <2> QED
    BY <2>1, <2>2, <2>3, BackendActorStep
<1>6. ASSUME ExpandRecord(t) PROVE BackendInv'
  <2>1. /\ actor[t].pc # "off" /\ disp' = disp /\ TenantRecords' \subseteq TenantRecords \cup {t}
        /\ UNCHANGED subnetVars /\ link' = link
    BY <1>6 DEF ExpandRecord, Running, kernelVars
  <2>2. rec[t] \in Records
    BY <2>1, RunningFacts
  <2>3. PICK r : r = [rec[t] EXCEPT !.Subnet = actor[t].net]
    OBVIOUS
  <2>4. rec' = [rec EXCEPT ![t] = r]
    BY <1>6, <2>3 DEF ExpandRecord
  <2>5. r.State = rec[t].State /\ r.BridgeIP = rec[t].BridgeIP
    BY <2>2, <2>3 DEF Records
  <2>6. LinksOpen(link[t], rec[t]) => LinksOpen(link[t], r)
    BY <2>5 DEF LinksOpen
  <2>7. OthersKeepNodes(t) /\ link' = [link EXCEPT ![t] = link[t]]
    BY <1>1, <1>2, <2>1, TrieUnchanged
  <2> QED
    BY <2>1, <2>4, <2>6, <2>7, BackendActorStep
<1> QED
  BY <1>3, <1>4, <1>5, <1>6, BackendUpdateBridge, BackendUpdateVtep DEF Actor

LEMMA BackendNext ==
  ASSUME "update" \notin Faults, IInv, BackendInv, [Next]_vars
  PROVE  BackendInv'
<1>1. ASSUME NEW p \in Pods, Request(p) PROVE BackendInv'
  <2>1. UNCHANGED <<subnetVars, disp, link>> /\ UNCHANGED recordVars
    BY <1>1 DEF Request, Lookup, Send, GiveUp, kernelVars
  <2> QED
    BY <2>1, BackendSame
<1>2. ASSUME UNCHANGED vars PROVE BackendInv'
  BY <1>2, BackendSame DEF vars, kernelVars
<1> QED
  BY <1>1, <1>2, BackendCommand, BackendActor, BackendDispatcher DEF Next

(* Interface e of a pod of an open tenant with record r and actor a,       *)
(* except while the actor is between the bridge's update and the pods'.    *)
Rewiring == {"vtep", "ipam", "record", "reconcile"}

WiredOK(has, a, r, e) ==
  has /\ r.State # "Closing" /\ a.pc \notin Rewiring /\ e # None =>
    e.gw = r.BridgeIP /\ e.Subnet = r.Subnet

WiredInv == \A p \in Pods : WiredOK(p[1] \in TenantRecords, actor[p[1]], rec[p[1]], eth[p])

(* A step that concerns tenant t.                                          *)
LEMMA WiredFrame ==
  ASSUME WiredInv, NEW t \in Tenants,
         \A u \in Tenants : u # t =>
           /\ u \in TenantRecords' => u \in TenantRecords
           /\ actor'[u] = actor[u] /\ rec'[u] = rec[u],
         \A p \in Pods : p[1] # t /\ eth'[p] # None => eth'[p] = eth[p],
         \A p \in Pods : p[1] = t => WiredOK(t \in TenantRecords', actor'[t], rec'[t], eth'[p])
  PROVE  WiredInv'
<1>1. ASSUME NEW p \in Pods, p[1] # t
      PROVE  WiredOK(p[1] \in TenantRecords', actor'[p[1]], rec'[p[1]], eth'[p])
  <2>1. WiredOK(p[1] \in TenantRecords, actor[p[1]], rec[p[1]], eth[p]) /\ p[1] \in Tenants
    BY PodFacts DEF WiredInv
  <2> QED
    BY <1>1, <2>1 DEF WiredOK
<1> QED
  BY <1>1 DEF WiredInv

LEMMA WiredSame ==
  ASSUME WiredInv, UNCHANGED recordVars, actor' = actor,
         \A p \in Pods : eth'[p] # None => eth'[p] = eth[p]
  PROVE  WiredInv'
<1>1. ASSUME NEW p \in Pods PROVE WiredOK(p[1] \in TenantRecords', actor'[p[1]], rec'[p[1]], eth'[p])
  <2>1. WiredOK(p[1] \in TenantRecords, actor[p[1]], rec[p[1]], eth[p])
    BY DEF WiredInv
  <2> QED
    BY <2>1 DEF WiredOK, recordVars
<1> QED
  BY <1>1 DEF WiredInv

(* A step of the actor that does not end a rewiring.                       *)
LEMMA WiredActorStep ==
  ASSUME IInv, WiredInv, NEW t \in Tenants, actor[t].pc # "off",
         NEW a, actor' = [actor EXCEPT ![t] = a], NEW r, rec' = [rec EXCEPT ![t] = r],
         TenantRecords' \subseteq TenantRecords \cup {t},
         \A p \in Pods : eth'[p] # None => eth'[p] = eth[p],
         r.State # "Closing" /\ a.pc \notin Rewiring =>
           /\ rec[t].State # "Closing" /\ actor[t].pc \notin Rewiring
           /\ r.BridgeIP = rec[t].BridgeIP /\ r.Subnet = rec[t].Subnet
  PROVE  WiredInv'
<1>1. TypeOK /\ t \in TenantRecords
  BY RunningFacts, TenantFacts
<1>2. /\ actor'[t] = a /\ rec'[t] = r
      /\ \A u \in Tenants : u # t => actor'[u] = actor[u] /\ rec'[u] = rec[u]
  BY <1>1 DEF TypeOK
<1>3. ASSUME NEW p \in Pods, p[1] = t PROVE WiredOK(t \in TenantRecords', actor'[t], rec'[t], eth'[p])
  <2>1. WiredOK(t \in TenantRecords, actor[t], rec[t], eth[p])
    BY <1>3 DEF WiredInv
  <2> QED
    BY <1>1, <1>2, <2>1 DEF WiredOK
<1> QED
  BY <1>2, <1>3, WiredFrame

LEMMA WiredQuiet ==
  ASSUME IInv, WiredInv, NEW t \in Tenants, actor[t].pc # "off",
         NEW a, actor' = [actor EXCEPT ![t] = a], UNCHANGED recordVars,
         \A p \in Pods : eth'[p] # None => eth'[p] = eth[p],
         rec[t].State # "Closing" /\ a.pc \notin Rewiring => actor[t].pc \notin Rewiring
  PROVE  WiredInv'
<1>1. rec' = [rec EXCEPT ![t] = rec[t]] /\ TenantRecords' \subseteq TenantRecords \cup {t}
  BY DEF IInv, TypeOK, recordVars
<1> QED
  BY <1>1, WiredActorStep

LEMMA WiredReturn ==
  ASSUME IInv, WiredInv, NEW t \in Tenants, actor[t].pc # "off", Return(t), UNCHANGED recordVars,
         \A p \in Pods : eth'[p] # None => eth'[p] = eth[p],
         rec[t].State # "Closing" => actor[t].pc \notin Rewiring
  PROVE  WiredInv'
BY WiredQuiet DEF Return

LEMMA WiredStep ==
  ASSUME IInv, WiredInv, NEW t \in Tenants, actor[t].pc # "off", NEW pc, Step(t, pc),
         pc \in {"off", "loop", "ensure", "lookup", "veth", "request", "expand", "bridge",
                 "vtep", "ipam", "record", "reconcile", "panic"},
         UNCHANGED recordVars, eth' = eth,
         rec[t].State # "Closing" /\ pc \notin Rewiring => actor[t].pc \notin Rewiring
  PROVE  WiredInv'
<1>1. PICK a \in ActorStates :
         /\ actor' = [actor EXCEPT ![t] = a]
         /\ a.pc = pc /\ a.pod = actor[t].pod /\ a.live = actor[t].live
         /\ a.attempt = actor[t].attempt /\ a.ip = actor[t].ip /\ a.net = actor[t].net
  BY StepFacts, TenantFacts
<1>2. \A p \in Pods : eth'[p] # None => eth'[p] = eth[p]
  OBVIOUS
<1>3. rec[t].State # "Closing" /\ a.pc \notin Rewiring => actor[t].pc \notin Rewiring
  BY <1>1
<1> QED
  BY <1>1, <1>2, <1>3, WiredQuiet

LEMMA WiredReceive ==
  ASSUME IInv, WiredInv, NEW t \in Tenants, ReceiveEnsure(t) \/ ReceiveRemove(t) \/ ReceiveStop(t)
  PROVE  WiredInv'
<1>1. actor[t].pc = "loop" /\ UNCHANGED recordVars
  BY DEF ReceiveEnsure, ReceiveRemove, ReceiveStop, Received, Running
<1>2. \A p \in Pods : eth'[p] # None => eth'[p] = eth[p]
  BY DEF ReceiveEnsure, ReceiveRemove, ReceiveStop, kernelVars, IInv, TypeOK
<1>3. CASE UNCHANGED actor
  BY <1>1, <1>2, <1>3, WiredSame
<1>4. ASSUME NEW a, actor' = [actor EXCEPT ![t] = a] PROVE WiredInv'
  <2>1. actor[t].pc # "off" /\ actor[t].pc \notin Rewiring
    BY <1>1 DEF Rewiring
  <2> QED
    BY <1>1, <1>2, <1>4, <2>1, WiredQuiet
<1> QED
  BY <1>3, <1>4 DEF ReceiveEnsure, ReceiveRemove, ReceiveStop

LEMMA WiredAllocate ==
  ASSUME IInv, WiredInv, NEW t \in Tenants, Allocate(t)
  PROVE  WiredInv'
<1>1. /\ actor[t].pc # "off" /\ actor[t].pc \notin Rewiring
      /\ TenantRecords' \subseteq TenantRecords \cup {t}
      /\ \A p \in Pods : eth'[p] # None => eth'[p] = eth[p]
  BY DEF Allocate, Running, kernelVars, Rewiring
<1>2. PICK x : rec' = rec \/ rec' = [rec EXCEPT ![t].IPAM = x]
  BY DEF Allocate
<1>3. PICK r : /\ rec' = [rec EXCEPT ![t] = r] /\ r.State = rec[t].State
               /\ r.BridgeIP = rec[t].BridgeIP /\ r.Subnet = rec[t].Subnet
  BY <1>1, <1>2, IPAMOnly
<1>4. PICK ip : actor' = [actor EXCEPT ![t].pc = "lookup", ![t].ip = ip]
  BY DEF Allocate
<1>5. PICK a : a = [actor[t] EXCEPT !.pc = "lookup", !.ip = ip]
  OBVIOUS
<1>6. actor' = [actor EXCEPT ![t] = a]
  BY <1>4, <1>5
<1> QED
  BY <1>1, <1>3, <1>6, WiredActorStep

LEMMA WiredSetupVeth ==
  ASSUME IInv, WiredInv, NEW t \in Tenants, SetupVeth(t)
  PROVE  WiredInv'
<1>1. /\ actor[t].pc # "off" /\ actor[t].pc \notin Rewiring /\ TenantRecords' = TenantRecords
      /\ actor' = [actor EXCEPT ![t] = Loop] /\ TypeOK
  BY DEF SetupVeth, Running, Rewiring, Return, IInv
<1>2. CASE UNCHANGED rec /\ eth' = [eth EXCEPT ![<<t, actor[t].pod>>] = Interface(t)]
  <2>1. /\ actor'[t] = Loop /\ \A u \in Tenants : u # t => actor'[u] = actor[u]
    BY <1>1 DEF TypeOK
  <2>2. ASSUME NEW p \in Pods, p[1] = t PROVE WiredOK(t \in TenantRecords', actor'[t], rec'[t], eth'[p])
    <3>1. CASE p = <<t, actor[t].pod>>
      <4>1. eth'[p] = Interface(t)
        BY <1>1, <1>2, <3>1 DEF TypeOK
      <4> QED
        BY <1>2, <4>1 DEF WiredOK, Interface
    <3>2. CASE p # <<t, actor[t].pod>>
      <4>1. eth'[p] = eth[p]
        BY <1>1, <1>2, <3>2 DEF TypeOK
      <4>2. WiredOK(t \in TenantRecords, actor[t], rec[t], eth[p])
        BY <2>2 DEF WiredInv
      <4> QED
        BY <1>1, <1>2, <4>1, <4>2 DEF WiredOK
    <3> QED
      BY <3>1, <3>2
  <2>3. \A p \in Pods : p[1] # t /\ eth'[p] # None => eth'[p] = eth[p]
    BY <1>1, <1>2 DEF TypeOK
  <2> QED
    BY <1>1, <1>2, <2>1, <2>2, <2>3, WiredFrame
<1>3. CASE UNCHANGED eth
  <2>1. PICK x : rec' = rec \/ rec' = [rec EXCEPT ![t].IPAM = x]
    BY DEF SetupVeth
  <2>2. PICK r : /\ rec' = [rec EXCEPT ![t] = r] /\ r.State = rec[t].State
                 /\ r.BridgeIP = rec[t].BridgeIP /\ r.Subnet = rec[t].Subnet
    BY <1>1, <2>1, IPAMOnly
  <2>3. TenantRecords' \subseteq TenantRecords \cup {t} /\ \A p \in Pods : eth'[p] # None => eth'[p] = eth[p]
    BY <1>1, <1>3
  <2> QED
    BY <1>1, <2>2, <2>3, WiredActorStep
<1> QED
  BY <1>2, <1>3 DEF SetupVeth

LEMMA WiredExpandSubnet ==
  ASSUME IInv, WiredInv, NEW t \in Tenants, ExpandSubnet(t)
  PROVE  WiredInv'
<1>1. /\ actor[t].pc # "off" /\ actor[t].pc \notin Rewiring /\ UNCHANGED recordVars
      /\ \A p \in Pods : eth'[p] # None => eth'[p] = eth[p]
  BY DEF ExpandSubnet, Running, kernelVars, Rewiring
<1>2. CASE Return(t)
  BY <1>1, <1>2, WiredReturn
<1>3. CASE actor' = [actor EXCEPT ![t].pc = "bridge", ![t].net = AllocMap'[t]]
  <2>1. PICK a : a = [actor[t] EXCEPT !.pc = "bridge", !.net = AllocMap'[t]]
    OBVIOUS
  <2>2. actor' = [actor EXCEPT ![t] = a]
    BY <1>3, <2>1
  <2> QED
    BY <1>1, <2>2, WiredQuiet
<1> QED
  BY <1>2, <1>3 DEF ExpandSubnet

(* An open tenant has its backend.                                         *)
LEMMA OpenFacts ==
  ASSUME IInv, BackendInv, NEW t \in Tenants, actor[t].pc # "off", rec[t].State # "Closing"
  PROVE  rec[t].devices /\ link[t].vtep # None
<1>1. t \in TenantRecords
  BY RunningFacts
<1>2. rec[t].devices
  BY <1>1, TenantFacts DEF RecordOK, Removing, Released
<1>3. BackendOK(Phase(disp, t), t \in TenantRecords, link[t], rec[t], AllocMap[t])
  BY DEF BackendInv
<1> QED
  BY <1>1, <1>2, <1>3 DEF BackendOK

LEMMA WiredUpdate ==
  ASSUME "update" \notin Faults, IInv, BackendInv, WiredInv, NEW t \in Tenants,
         UpdateBridge(t) \/ UpdateVtep(t)
  PROVE  WiredInv'
<1>1. /\ actor[t].pc # "off" /\ TenantRecords' \subseteq TenantRecords \cup {t} /\ eth' = eth
      /\ \A p \in Pods : eth'[p] # None => eth'[p] = eth[p]
  BY DEF UpdateBridge, UpdateVtep, Running, recordVars
<1>2. CASE UpdateBridge(t)
  <2>1. CASE Return(t) /\ UNCHANGED rec
    <3>1. UNCHANGED recordVars /\ actor[t].pc \notin Rewiring
      BY <1>2, <2>1 DEF UpdateBridge, recordVars, Running, Rewiring
    <3> QED
      BY <1>1, <2>1, <3>1, WiredReturn
  <2>2. CASE Step(t, "vtep") /\ rec' = [rec EXCEPT ![t].BridgeIP = FirstIP(actor[t].net)]
    <3>1. PICK a \in ActorStates :
           /\ actor' = [actor EXCEPT ![t] = a]
           /\ a.pc = "vtep" /\ a.pod = actor[t].pod /\ a.live = actor[t].live
           /\ a.attempt = actor[t].attempt /\ a.ip = actor[t].ip /\ a.net = actor[t].net
      BY <2>2, StepFacts, TenantFacts
    <3>2. PICK r : rec' = [rec EXCEPT ![t] = r]
      BY <2>2
    <3>3. a.pc \in Rewiring
      BY <3>1 DEF Rewiring
    <3> QED
      BY <1>1, <3>1, <3>2, <3>3, WiredActorStep
  <2> QED
    BY <1>2, <2>1, <2>2 DEF UpdateBridge
<1>3. CASE UpdateVtep(t)
  <2>1. UNCHANGED recordVars
    BY <1>3 DEF UpdateVtep
  <2>2. CASE Step(t, "ipam")
    <3>1. "ipam" \in Rewiring
      BY DEF Rewiring
    <3> QED
      BY <1>1, <2>1, <2>2, <3>1, WiredStep
  <2>3. CASE ~rec[t].devices /\ Step(t, "panic")
    <3>1. rec[t].State = "Closing"
      BY <1>1, <2>3, OpenFacts
    <3> QED
      BY <1>1, <2>1, <2>3, <3>1, WiredStep
  <2>4. CASE link[t].vtep = None /\ Return(t)
    <3>1. rec[t].State = "Closing"
      BY <1>1, <2>4, OpenFacts
    <3> QED
      BY <1>1, <2>1, <2>4, <3>1, WiredReturn
  <2> QED
    BY <1>3, <2>2, <2>3, <2>4 DEF UpdateVtep
<1> QED
  BY <1>2, <1>3

LEMMA WiredExpand ==
  ASSUME IInv, PInv, WiredInv, NEW t \in Tenants, ExpandIPAM(t) \/ ExpandRecord(t)
  PROVE  WiredInv'
<1>1. /\ actor[t].pc \in {"ipam", "record"} /\ TenantRecords' \subseteq TenantRecords \cup {t}
      /\ \A p \in Pods : eth'[p] # None => eth'[p] = eth[p]
  BY DEF ExpandIPAM, ExpandRecord, Running, kernelVars
<1>2. /\ actor[t].net \in Prefixes /\ rec[t] \in Records /\ t \in TenantRecords
      /\ actor[t].pc # "off"
  BY <1>1, FieldFacts, RunningFacts DEF Growing
<1>3. ASSUME NEW pc, pc \in {"record", "reconcile"}, Step(t, pc), NEW r, rec' = [rec EXCEPT ![t] = r]
      PROVE  WiredInv'
  <2>1. PICK a \in ActorStates :
           /\ actor' = [actor EXCEPT ![t] = a]
           /\ a.pc = pc /\ a.pod = actor[t].pod /\ a.live = actor[t].live
           /\ a.attempt = actor[t].attempt /\ a.ip = actor[t].ip /\ a.net = actor[t].net
    BY <1>3, StepFacts, TenantFacts
  <2>2. a.pc \in Rewiring
    BY <1>3, <2>1 DEF Rewiring
  <2> QED
    BY <1>1, <1>2, <1>3, <2>1, <2>2, WiredActorStep
<1>4. CASE ExpandIPAM(t)
  <2>1. PICK m \in IPAMs, n \in Prefixes, q \in Prefixes :
          m = rec[t].IPAM /\ n = actor[t].net /\ q = rec[t].Subnet
    BY <1>2 DEF Records
  <2>2. m.Network = Net(q) /\ q \subseteq n /\ IPAMOK(m)
    <3>1. actor[t].pc = "ipam"
      BY <1>4 DEF ExpandIPAM, Running
    <3> QED
      BY <1>2, <2>1, <3>1, TenantFacts DEF RecordOK, Growing, PInv, PoolOK
  <2>3. IPAM(t)!CanRebase(m, Net(n))
    BY <2>2, RebasePossible
  <2>4. PICK r : rec' = [rec EXCEPT ![t] = r] /\ Step(t, "record")
    BY <1>4, <2>1, <2>3 DEF ExpandIPAM
  <2> QED
    BY <1>3, <2>4
<1>5. CASE ExpandRecord(t)
  <2>1. PICK r : rec' = [rec EXCEPT ![t] = r] /\ Step(t, "reconcile")
    BY <1>5 DEF ExpandRecord
  <2> QED
    BY <1>3, <2>1
<1> QED
  BY <1>4, <1>5

(* Every attached pod is in the IPAM, and therefore updated.               *)
LEMMA WiredReconcilePods ==
  ASSUME "pod" \notin Faults, IInv, AInv, AddressedInv, BackendInv, WiredInv, NEW t \in Tenants,
         ReconcilePods(t)
  PROVE  WiredInv'
<1> DEFINE listed == {p \in Pods : p[1] = t /\ rec[t].IPAM.IPs[p[2]] # None /\ eth[p] # None}
<1>1. actor[t].pc = "reconcile" /\ Again(t) /\ UNCHANGED recordVars
  BY DEF ReconcilePods, Running
<1>2. PICK f : /\ \A p \in listed : f[p] \in UpdateOutcomes(t, p)
               /\ eth' = [p \in Pods |-> IF p \in listed THEN f[p] ELSE eth[p]]
  BY DEF ReconcilePods
<1>3. TypeOK /\ actor[t].pc # "off"
  BY <1>1, TenantFacts
<1>4. ASSUME NEW p \in Pods, p[1] = t, eth[p] # None PROVE p \in listed
  <2>1. eth[p].ip # None
    BY <1>4 DEF AddressedInv
  <2>2. rec[t].IPAM.IPs[p[2]] = eth[p].ip
    BY <1>4, <2>1 DEF AInv, AttachInv, AttachOK
  <2> QED
    BY <1>4, <2>1, <2>2
<1>5. \A p \in listed : p \in Pods /\ p[1] = t
  OBVIOUS
<1> HIDE DEF listed
<1>6. PICK a \in ActorStates :
           /\ actor' = [actor EXCEPT ![t] = a]
           /\ a.pc = "ensure" /\ a.pod = actor[t].pod /\ a.live = actor[t].live
           /\ a.attempt = actor[t].attempt + 1 /\ a.ip = actor[t].ip /\ a.net = None
  BY <1>1, AgainFacts
<1>7. ASSUME NEW p \in Pods, p[1] = t, rec[t].State # "Closing", eth'[p] # None
      PROVE  eth'[p].gw = rec[t].BridgeIP /\ eth'[p].Subnet = rec[t].Subnet
  <2>1. p \in listed /\ eth'[p] = f[p]
    BY <1>2, <1>4, <1>7
  <2>2. rec[t].devices
    BY <1>3, <1>7, OpenFacts
  <2>3. f[p] = Updated(t, p)
    BY <1>2, <2>1, <2>2 DEF UpdateOutcomes
  <2> QED
    BY <2>1, <2>3 DEF Updated
<1>8. ASSUME NEW p \in Pods, p[1] = t PROVE WiredOK(t \in TenantRecords', actor'[t], rec'[t], eth'[p])
  BY <1>1, <1>7, <1>8 DEF WiredOK, recordVars
<1>9. \A u \in Tenants : u # t =>
           /\ u \in TenantRecords' => u \in TenantRecords
           /\ actor'[u] = actor[u] /\ rec'[u] = rec[u]
  BY <1>1, <1>3, <1>6 DEF TypeOK, recordVars
<1>10. \A p \in Pods : p[1] # t /\ eth'[p] # None => eth'[p] = eth[p]
  BY <1>2, <1>5
<1> QED
  BY <1>8, <1>9, <1>10, WiredFrame

LEMMA WiredActor ==
  ASSUME "update" \notin Faults, "pod" \notin Faults,
         IInv, PInv, AInv, AddressedInv, BackendInv, WiredInv, NEW t \in Tenants, Actor(t)
  PROVE  WiredInv'
<1>1. ASSUME Refuse(t) \/ Exhausted(t) \/ LookupBridge(t) \/ RequestExpansion(t) PROVE WiredInv'
  <2>1. /\ actor[t].pc # "off" /\ actor[t].pc \notin Rewiring /\ UNCHANGED recordVars /\ eth' = eth
        /\ \A p \in Pods : eth'[p] # None => eth'[p] = eth[p]
    BY <1>1 DEF Refuse, Exhausted, LookupBridge, RequestExpansion, Running, Rewiring, kernelVars
  <2>2. CASE Return(t)
    BY <2>1, <2>2, WiredReturn
  <2>3. CASE Step(t, "request") \/ Step(t, "veth") \/ Step(t, "expand")
    BY <2>1, <2>3, WiredStep
  <2> QED
    BY <1>1, <2>2, <2>3 DEF Refuse, Exhausted, LookupBridge, RequestExpansion
<1>2. ASSUME TornRead(t) PROVE WiredInv'
  <2>1. /\ actor[t].pc # "off" /\ UNCHANGED recordVars /\ eth' = eth /\ Step(t, "panic")
        /\ disp = [pc |-> "nil", t |-> t]
    BY <1>2 DEF TornRead, kernelVars
  <2>2. rec[t].State = "Closing"
    BY <2>1, RemovingFacts DEF Removing
  <2> QED
    BY <2>1, <2>2, WiredStep
<1> QED
  BY <1>1, <1>2, WiredReceive, WiredAllocate, WiredSetupVeth, WiredExpandSubnet, WiredUpdate,
     WiredExpand, WiredReconcilePods DEF Actor

(* A step of the dispatcher or the kubelet: a new or a closing record.     *)
LEMMA WiredOther ==
  ASSUME IInv, AInv, WiredInv, NEW t \in Tenants, TypeOK,
         \A u \in Tenants : u # t =>
           /\ u \in TenantRecords' => u \in TenantRecords
           /\ actor'[u] = actor[u] /\ rec'[u] = rec[u],
         \A p \in Pods : eth'[p] # None => eth'[p] = eth[p],
         \/ t \notin TenantRecords \/ t \notin TenantRecords' \/ rec'[t].State = "Closing"
         \/ rec'[t] = rec[t] /\ (actor[t].pc \in Rewiring => actor'[t].pc \in Rewiring)
  PROVE  WiredInv'
<1>1. ASSUME NEW p \in Pods, p[1] = t PROVE WiredOK(t \in TenantRecords', actor'[t], rec'[t], eth'[p])
  <2>1. WiredOK(t \in TenantRecords, actor[t], rec[t], eth[p])
    BY <1>1 DEF WiredInv
  <2>2. t \notin TenantRecords => eth[p] = None
    BY <1>1 DEF AInv, AttachInv, AttachOK
  <2> QED
    BY <2>1, <2>2 DEF WiredOK
<1> QED
  BY <1>1, WiredFrame

LEMMA WiredDispatcher ==
  ASSUME IInv, AInv, WiredInv, Dispatcher
  PROVE  WiredInv'
<1>1. CASE \/ EnsureSubnet \/ EnsureBackend \/ EnsurePolicy
           \/ RemoveVtep \/ RemoveBridge \/ RemoveSubnet \/ RemoveStop \/ RemoveActor
  <2>1. UNCHANGED recordVars /\ actor' = actor
    BY <1>1 DEF EnsureSubnet, EnsureBackend, EnsurePolicy, RemoveVtep, RemoveBridge,
       RemoveSubnet, RemoveStop, RemoveActor, actorVars
  <2>2. \A p \in Pods : eth'[p] # None => eth'[p] = eth[p]
    BY <1>1 DEF EnsureSubnet, EnsureBackend, EnsurePolicy, RemoveVtep, RemoveBridge,
       RemoveSubnet, RemoveStop, RemoveActor, kernelVars
  <2> QED
    BY <2>1, <2>2, WiredSame
<1>2. CASE EnsureCommit \/ StartTenantActor \/ RemoveFields \/ RemoveRecord
  <2>1. disp.pc # "idle" /\ \A p \in Pods : eth'[p] # None => eth'[p] = eth[p]
    BY <1>2 DEF EnsureCommit, StartTenantActor, RemoveFields, RemoveRecord, At, kernelVars
  <2>2. PICK t \in Tenants : disp.t = t /\ Phase(disp, t) = disp.pc
    BY <2>1, DispFacts
  <2>3. TypeOK /\ Life(Phase(disp, t), t \in TenantRecords, TenantActors[t], actor[t].pc)
    BY TenantFacts
  <2>4. \A u \in Tenants : u # t =>
           /\ u \in TenantRecords' => u \in TenantRecords
           /\ actor'[u] = actor[u] /\ rec'[u] = rec[u]
    BY <1>2, <2>2, <2>3 DEF EnsureCommit, StartTenantActor, RemoveFields, RemoveRecord,
       recordVars, actorVars, TypeOK
  <2>5. CASE EnsureCommit
    <3>1. t \notin TenantRecords
      BY <2>2, <2>3, <2>5 DEF EnsureCommit, At, Life, Ensuring, Removing
    <3> QED
      BY <2>1, <2>3, <2>4, <3>1, WiredOther
  <2>6. CASE StartTenantActor
    <3>1. rec'[t] = rec[t]
      BY <2>6 DEF StartTenantActor, recordVars
    <3>2. actor[t].pc \notin Rewiring
      BY <2>2, <2>3, <2>6 DEF StartTenantActor, At, Life, Ensuring, Removing, Rewiring
    <3> QED
      BY <2>1, <2>3, <2>4, <3>1, <3>2, WiredOther
  <2>7. CASE RemoveFields
    <3>1. rec[t] \in Records /\ rec[t].State = "Closing"
      BY <2>2, <2>7, RemovingFacts DEF RemoveFields, At, Removing
    <3>2. rec'[t].State = "Closing"
      BY <2>2, <2>3, <2>7, <3>1 DEF RemoveFields, TypeOK, Records
    <3> QED
      BY <2>1, <2>3, <2>4, <3>2, WiredOther
  <2>8. CASE RemoveRecord
    <3>1. t \notin TenantRecords'
      BY <2>2, <2>8 DEF RemoveRecord
    <3> QED
      BY <2>1, <2>3, <2>4, <3>1, WiredOther
  <2> QED
    BY <1>2, <2>5, <2>6, <2>7, <2>8
<1> QED
  BY <1>1, <1>2 DEF Dispatcher

LEMMA WiredRequest ==
  ASSUME IInv, AInv, WiredInv, NEW p \in Pods, Request(p)
  PROVE  WiredInv'
<1>1. CASE Send(p) \/ \E kind : Lookup(p, kind)
  <2>1. UNCHANGED recordVars /\ actor' = actor /\ eth' = eth
    BY <1>1 DEF Send, Lookup, kernelVars
  <2> QED
    BY <2>1, WiredSame
<1>2. CASE GiveUp(p)
  <2>1. PICK t \in Tenants : t = p[1]
    BY PodFacts
  <2>2. /\ actor' = [actor EXCEPT ![t] = Orphaned(actor[t], p[2])] /\ UNCHANGED recordVars
        /\ eth' = [eth EXCEPT ![p] = None]
    BY <1>2, <2>1 DEF GiveUp, Orphaned
  <2>3. TypeOK /\ actor[t] \in ActorStates
    BY TenantFacts, TypeFacts
  <2>4. Orphaned(actor[t], p[2]).pc = actor[t].pc
    BY <2>3, OrphanedFacts
  <2>5. /\ actor'[t].pc = actor[t].pc /\ rec'[t] = rec[t]
        /\ \A u \in Tenants : u # t =>
             /\ u \in TenantRecords' => u \in TenantRecords
             /\ actor'[u] = actor[u] /\ rec'[u] = rec[u]
    BY <2>2, <2>3, <2>4 DEF TypeOK, recordVars
  <2>6. \A q \in Pods : eth'[q] # None => eth'[q] = eth[q]
    BY <2>2, <2>3 DEF TypeOK
  <2> QED
    BY <2>3, <2>5, <2>6, WiredOther
<1> QED
  BY <1>1, <1>2 DEF Request

LEMMA WiredCommand ==
  ASSUME IInv, AInv, WiredInv, NEW t \in Tenants, Command(t)
  PROVE  WiredInv'
<1>1. UNCHANGED <<TenantRecords, actor, eth>>
  BY DEF Command, EnsureTenant, RemoveTenant, recordVars, actorVars, kernelVars
<1>2. CASE EnsureTenant(t)
  BY <1>1, <1>2, WiredSame DEF EnsureTenant
<1>3. CASE RemoveTenant(t)
  <2>1. TypeOK /\ rec[t] \in Records /\ rec' = [rec EXCEPT ![t].State = "Closing"]
    BY <1>3, TypeFacts DEF IInv, RemoveTenant
  <2>2. rec'[t].State = "Closing"
    BY <2>1 DEF TypeOK, Records
  <2>3. \A u \in Tenants : u # t =>
           /\ u \in TenantRecords' => u \in TenantRecords
           /\ actor'[u] = actor[u] /\ rec'[u] = rec[u]
    BY <1>1, <2>1 DEF TypeOK
  <2>4. \A p \in Pods : eth'[p] # None => eth'[p] = eth[p]
    BY <1>1
  <2> QED
    BY <2>1, <2>2, <2>3, <2>4, WiredOther
<1> QED
  BY <1>2, <1>3 DEF Command

GInv == AddressedInv /\ BackendInv /\ WiredInv

LEMMA GatewayNext ==
  ASSUME "update" \notin Faults, "pod" \notin Faults
  PROVE  IInv /\ PInv /\ AInv /\ GInv /\ [Next]_vars => GInv'
<1> SUFFICES ASSUME IInv, PInv, AInv, AddressedInv, BackendInv, WiredInv, [Next]_vars
             PROVE  WiredInv'
  BY AddressedNext, BackendNext DEF GInv
<1>1. ASSUME UNCHANGED vars PROVE WiredInv'
  BY <1>1, WiredSame DEF vars, actorVars, kernelVars
<1> QED
  BY <1>1, WiredActor, WiredDispatcher, WiredRequest, WiredCommand DEF Next

(* Between two messages every attached pod of an open tenant has a gateway *)
(* on its bridge and the mask of its subnet, through every expansion, as   *)
(* long as neither Backend.Delete nor Backend.Update nor UpdatePod fails.  *)
THEOREM GatewaysReachable ==
  ASSUME "delete" \notin Faults, "update" \notin Faults, "pod" \notin Faults
  PROVE  Spec => []GatewayReachable
<1>1. Init => GInv
  <2>1. Init => AddressedInv
    BY DEF Init, AddressedInv
  <2>2. Init => BackendInv
    BY DEF Init, BackendInv, BackendOK, Phase, Idle
  <2>3. Init => WiredInv
    BY DEF Init, WiredInv, WiredOK
  <2> QED
    BY <2>1, <2>2, <2>3 DEF GInv
<1>2. IInv /\ PInv /\ AInv /\ GInv /\ [Next]_vars => GInv'
  BY GatewayNext
<1>3. IInv /\ GInv => GatewayReachable
  <2> SUFFICES ASSUME IInv, BackendInv, WiredInv, NEW p \in Attached, NEW t, t = p[1],
                      t \in TenantRecords, ~Closing(t), actor[t].pc = "loop"
               PROVE  eth[p].gw \in link[t].bridge /\ eth[p].Subnet = rec[t].Subnet
    BY DEF GInv, GatewayReachable
  <2>1. t \in Tenants /\ p \in Pods /\ eth[p] # None /\ rec[t].State # "Closing"
    BY PodFacts DEF Attached, Closing
  <2>2. eth[p].gw = rec[t].BridgeIP /\ eth[p].Subnet = rec[t].Subnet
    BY <2>1 DEF WiredInv, WiredOK, Rewiring
  <2>3. rec[t].BridgeIP \in link[t].bridge
    BY <2>1 DEF BackendInv, BackendOK
  <2> QED
    BY <2>2, <2>3
<1> QED
  BY <1>1, <1>2, <1>3, AddressInvariant, PTL DEF Spec

-----------------------------------------------------------------------------
(* The node implements NodeNetwork.                                        *)

Held == [t \in Tenants |-> HeldBy(t)]
Addr == [p \in Pods |-> AddressOf(p)]

(* The addresses of a prefix are those of its blocks.                      *)
LEMMA InBlocks ==
  ASSUME NEW n \in Prefixes, NEW ip \in Int, Contains(n, ip)
  PROVE  ip \in Node!AddressesIn(n) /\ n \in SUBSET Blocks
<1>1. PICK a, b \in Int : a <= b /\ n = a .. b /\ Net(n) = [base |-> 4 * a, total |-> 4 * (b - a + 1)]
  BY PrefixRange
<1>2. 4 * a <= ip /\ ip < 4 * (b + 1)
  BY <1>1 DEF Contains
<1>3. PICK c \in Int, i \in 0 .. 3 : ip = 4 * c + i
  <2>1. ip = 4 * (ip \div 4) + (ip % 4) /\ ip % 4 \in 0 .. 3 /\ ip \div 4 \in Int
    OBVIOUS
  <2> QED
    BY <2>1
<1>4. c \in n
  BY <1>1, <1>2, <1>3
<1> QED
  BY <1>3, <1>4, PrefixInBlocks DEF Node!AddressesIn

(* What changing one entry of AllocMap does to the blocks held.            *)
LEMMA HeldStep ==
  ASSUME Subnet!TypeOK, NEW t \in Tenants, NEW x,
         AllocMap' = [AllocMap EXCEPT ![t] = x],
         NEW r, r = IF x = None THEN {} ELSE x
  PROVE  Held' = [Held EXCEPT ![t] = r]
<1>1. \A u \in Tenants : AllocMap'[u] = IF u = t THEN x ELSE AllocMap[u]
  BY DEF Subnet!TypeOK
<1> QED
  BY <1>1 DEF Held, HeldBy

(* A new node stays away from what the other tenants hold.                 *)
LEMMA HeldApart ==
  ASSUME Subnet!TypeOK, NodesDisjoint', NEW t \in Tenants, NEW n \in Prefixes,
         AllocMap' = [AllocMap EXCEPT ![t] = n]
  PROVE  n \cap Node!Ranges!Others(t) = {}
<1>1. ASSUME NEW u \in Tenants, u # t PROVE n \cap HeldBy(u) = {}
  <2>1. AllocMap'[u] = AllocMap[u] /\ AllocMap'[t] = n /\ n # None
    BY <1>1, NoneAssumption DEF Subnet!TypeOK
  <2> QED
    BY <1>1, <2>1 DEF NodesDisjoint, HeldBy
<1> QED
  BY <1>1 DEF Node!Ranges!Others

LEMMA GrantsRange ==
  ASSUME Subnet!TypeOK, NodesDisjoint', NEW t \in Tenants, Subnet!Allocate(t)
  PROVE  \E r \in SUBSET Blocks : Node!Ranges!Grant(t, r)
<1>1. PICK best \in Subnet!FindAllFree : AllocMap' = [AllocMap EXCEPT ![t] = best]
  BY DEF Subnet!Allocate
<1>2. best \in Prefixes
  BY DEF Subnet!FindAllFree, Subnet!TypeOK
<1>3. best # None /\ best # {} /\ best \in SUBSET Blocks
  BY <1>2, PrefixNotEmpty, PrefixInBlocks
<1>4. Held' = [Held EXCEPT ![t] = best]
  BY <1>1, <1>3, HeldStep
<1>5. Held[t] = {}
  BY DEF Held, HeldBy, Subnet!Allocate
<1>6. best \cap Node!Ranges!Others(t) = {}
  BY <1>1, <1>2, HeldApart
<1>7. Node!Ranges!Grant(t, best)
  BY <1>3, <1>4, <1>5, <1>6 DEF Node!Ranges!Grant, Held
<1> QED
  BY <1>3, <1>7

LEMMA GrantsBlocks ==
  ASSUME Subnet!TypeOK, NodesDisjoint', NEW t \in Tenants, Subnet!Allocate(t), Addr' = Addr
  PROVE  Node!Next
BY GrantsRange DEF Node!Next, Node!Extend, Addr

LEMMA FreesRange ==
  ASSUME Subnet!TypeOK, NEW t \in Tenants, Subnet!Deallocate(t)
  PROVE  Node!Ranges!Free(t)
<1>1. AllocMap' = [AllocMap EXCEPT ![t] = None] /\ AllocMap[t] # None
  BY DEF Subnet!Deallocate
<1>2. Held' = [Held EXCEPT ![t] = {}]
  BY <1>1, HeldStep
<1>3. Held[t] # {}
  BY <1>1, PrefixNotEmpty DEF Held, HeldBy, Subnet!TypeOK
<1> QED
  BY <1>2, <1>3 DEF Node!Ranges!Free, Held

LEMMA FreesBlocks ==
  ASSUME Subnet!TypeOK, NEW t \in Tenants, Subnet!Deallocate(t), Addr' = Addr,
         \A p \in Pods : p[1] = t => eth[p] = None
  PROVE  Node!Next
<1>1. \A p \in Pods : p[1] = t => Addr[p] = None
  BY DEF Addr, AddressOf
<1> QED
  BY <1>1, FreesRange DEF Node!Next, Node!Vacate, Addr

LEMMA GrowsRange ==
  ASSUME Subnet!TypeOK, NodesDisjoint', NEW t \in Tenants, Subnet!Expand(t)
  PROVE  \E r \in SUBSET Blocks : Node!Ranges!Grow(t, r)
<1>1. AllocMap[t] # None /\ AllocMap[t] # Subnet!Root
  BY DEF Subnet!Expand
<1>2. PICK node \in Prefixes : node = AllocMap[t]
  BY <1>1 DEF Subnet!TypeOK
<1>3. PICK parent : parent = Subnet!Parent(node)
  OBVIOUS
<1>4. parent \in Prefixes /\ node \subseteq parent /\ node # parent
  BY <1>1, <1>2, <1>3, PrefixAssumption DEF Subnet!HasParent
<1>5. AllocMap' = [AllocMap EXCEPT ![t] = parent]
  BY <1>2, <1>3 DEF Subnet!Expand
<1>6. parent # None /\ node # {} /\ parent \in SUBSET Blocks
  BY <1>4, PrefixNotEmpty, PrefixInBlocks
<1>7. Held' = [Held EXCEPT ![t] = parent]
  BY <1>5, <1>6, HeldStep
<1>8. Held[t] = node
  BY <1>1, <1>2 DEF Held, HeldBy
<1>9. parent \cap Node!Ranges!Others(t) = {}
  BY <1>4, <1>5, HeldApart
<1>10. Node!Ranges!Grow(t, parent)
  BY <1>4, <1>6, <1>7, <1>8, <1>9 DEF Node!Ranges!Grow, Held
<1> QED
  BY <1>6, <1>10

LEMMA GrowsBlocks ==
  ASSUME Subnet!TypeOK, NodesDisjoint', NEW t \in Tenants, Subnet!Expand(t), Addr' = Addr
  PROVE  Node!Next
BY GrowsRange DEF Node!Next, Node!Extend, Addr

(* Pods in S lose their interfaces, the other attached ones keep theirs.   *)
LEMMA DetachesPods ==
  ASSUME AllocMap' = AllocMap, Keeping, NEW S,
         \A p \in Pods : eth'[p] = None <=> eth[p] = None \/ p \in S
  PROVE  Node!Detach(S)
<1>1. Held' = Held
  BY DEF Held, HeldBy
<1>2. \A p \in Pods : AddressOf(p)' = IF p \in S THEN None ELSE AddressOf(p)
  BY DEF AddressOf, Keeping
<1>3. Addr' = [p \in Pods |-> IF p \in S THEN None ELSE Addr[p]]
  BY <1>2 DEF Addr
<1> QED
  BY <1>1, <1>3 DEF Node!Detach, Held, Addr

(* No pod is attached or detached.                                         *)
LEMMA AddressesStay ==
  ASSUME Keeping, \A p \in Pods : eth'[p] = None <=> eth[p] = None
  PROVE  Addr' = Addr
<1>1. \A p \in Pods : AddressOf(p)' = AddressOf(p)
  BY DEF AddressOf, Keeping
<1> QED
  BY <1>1 DEF Addr

(* SetupVeth attaches its pod with an address that is the tenant's own and *)
(* that no attached pod has.                                               *)
LEMMA AttachesPod ==
  ASSUME IInv, PInv, LInv, TrieOK, AInv, NEW t \in Tenants, SetupVeth(t), Keeping
  PROVE  Addr' = Addr \/ Node!Next
<1>1. actor[t].pc = "veth" /\ AllocMap' = AllocMap
  BY DEF SetupVeth, Running, subnetVars
<1>2. /\ rec[t] \in Records /\ t \in TenantRecords /\ actor[t].pod \in PodKeys
      /\ actor[t].ip \in Addresses /\ TypeOK /\ <<t, actor[t].pod>> \in Pods
  BY <1>1, RunningFacts, FieldFacts, TenantFacts
<1>3. PICK p \in Pods, k \in PodKeys : p = <<t, actor[t].pod>> /\ k = actor[t].pod
  BY <1>2
<1>4. PICK ip \in Int : ip = rec[t].IPAM.IPs[k]
  BY <1>1, <1>2, <1>3, AddressesAreIntegers DEF PInv, PoolOK
<1>5. CASE UNCHANGED eth
  BY <1>5, AddressesStay
<1>6. CASE VethPossible(t) /\ eth' = [eth EXCEPT ![p] = Interface(t)] /\ UNCHANGED rec
  <2>1. eth[p] = None /\ Phase(disp, t) \notin Released
    BY <1>3, <1>6 DEF VethPossible, AInv, DetachInv, BridgeGone
  <2>2. ip # None
    BY NMAssumption
  <2>3. AllocMap[t] \in Prefixes /\ Contains(AllocMap[t], ip)
    BY <1>2, <1>4, <2>1, <2>2, AddressInNode
  <2>4. /\ Held[t] = AllocMap[t] /\ Held' = Held
        /\ ip \in Node!AddressesIn(Held[t]) /\ ip \in Node!AddressesIn(Blocks)
    BY <1>1, <2>3, InBlocks, PrefixNotEmpty DEF Held, HeldBy, Node!AddressesIn
  <2>5. ASSUME NEW q \in Pods, Addr[q] = ip PROVE FALSE
    <3>1. eth[q] # None /\ rec[q[1]].IPAM.IPs[q[2]] = ip
      BY <2>2, <2>5 DEF Addr, AddressOf
    <3>2. q = p
      BY <1>2, <1>3, <1>4, <2>1, <2>2, <3>1, AttachedFacts, RecordedApart
    <3> QED
      BY <2>1, <3>1, <3>2
  <2>6. Addr[p] = None
    BY <2>1 DEF Addr, AddressOf
  <2>7. Addr' = [Addr EXCEPT ![p] = ip]
    <3>1. \A q \in Pods : eth'[q] = IF q = p THEN Interface(t) ELSE eth[q]
      BY <1>2, <1>6 DEF TypeOK
    <3>2. Interface(t) # None
      BY <1>1, <1>2, InterfaceType, NoneAssumption
    <3>3. \A q \in Pods : AddressOf(q)' = IF q = p THEN ip ELSE AddressOf(q)
      BY <1>3, <1>4, <1>6, <3>1, <3>2 DEF AddressOf
    <3> QED
      BY <3>3 DEF Addr
  <2>8. Node!Attach(p, ip)
    BY <1>3, <2>4, <2>5, <2>6, <2>7 DEF Node!Attach, Held, Addr
  <2> QED
    BY <2>4, <2>8 DEF Node!Next
<1> QED
  BY <1>3, <1>5, <1>6 DEF SetupVeth

(* A step of the node, as NodeNetwork sees it.                             *)
NodeStep == Node!Next \/ UNCHANGED <<Held, Addr>>

LEMMA HeldStays ==
  ASSUME UNCHANGED subnetVars
  PROVE  Held' = Held
BY DEF subnetVars, Held, HeldBy

LEMMA NodeActor ==
  ASSUME IInv, PInv, LInv, TrieOK, AInv, TrieOK', Keeping, NEW t \in Tenants, Actor(t)
  PROVE  NodeStep
<1>1. TypeOK /\ Subnet!TypeOK /\ eth \in [Pods -> OrNone(Interfaces)]
  BY DEF IInv, TypeOK
<1>2. ASSUME UNCHANGED eth PROVE Addr' = Addr
  BY <1>2, AddressesStay
<1>3. CASE ExpandSubnet(t)
  <2>1. Addr' = Addr
    BY <1>2, <1>3 DEF ExpandSubnet, kernelVars
  <2> QED
    BY <1>1, <1>3, <2>1, GrowsBlocks, HeldStays DEF ExpandSubnet, NodeStep, TrieOK
<1>4. CASE SetupVeth(t)
  <2>1. UNCHANGED subnetVars
    BY <1>4 DEF SetupVeth
  <2> QED
    BY <1>4, <2>1, AttachesPod, HeldStays DEF NodeStep
<1>5. CASE ReceiveRemove(t)
  <2>1. UNCHANGED subnetVars
    BY <1>5 DEF ReceiveRemove
  <2>2. CASE UNCHANGED eth
    BY <1>2, <2>1, <2>2, HeldStays DEF NodeStep
  <2>3. ASSUME NEW p, eth' = [eth EXCEPT ![p] = None], p \in Pods PROVE NodeStep
    <3>1. \A q \in Pods : eth'[q] = None <=> eth[q] = None \/ q \in {p}
      BY <1>1, <2>3
    <3>2. Node!Detach({p})
      BY <2>1, <3>1, DetachesPods DEF subnetVars
    <3> QED
      BY <2>3, <3>2 DEF Node!Next, NodeStep
  <2>4. ASSUME NEW p, eth' = [eth EXCEPT ![p] = None], p \notin Pods PROVE UNCHANGED eth
    BY <1>1, <2>4
  <2> QED
    BY <1>5, <2>2, <2>3, <2>4 DEF ReceiveRemove
<1>6. CASE ReconcilePods(t)
  <2> DEFINE listed == {p \in Pods : p[1] = t /\ rec[t].IPAM.IPs[p[2]] # None /\ eth[p] # None}
  <2>1. UNCHANGED subnetVars
    BY <1>6 DEF ReconcilePods
  <2>2. PICK f \in [listed -> UNION {UpdateOutcomes(t, p) : p \in listed}] :
          /\ \A p \in listed : f[p] \in UpdateOutcomes(t, p)
          /\ eth' = [p \in Pods |-> IF p \in listed THEN f[p] ELSE eth[p]]
    BY <1>6 DEF ReconcilePods
  <2>3. t \in TenantRecords /\ rec[t] \in Records
    BY <1>1, <1>6, TenantFacts, RunningFacts DEF ReconcilePods, Running
  <2>4. ASSUME NEW p \in listed PROVE f[p] # None
    <3>1. eth[p] \in Interfaces
      BY <1>1, <2>4 DEF OrNone
    <3>2. UpdateOutcomes(t, p) \subseteq Interfaces
      BY <1>1, <2>3, <2>4, UpdateType
    <3> QED
      BY <2>2, <2>4, <3>2, NoneAssumption
  <2>5. \A p \in Pods : eth'[p] = None <=> eth[p] = None
    BY <2>2, <2>4
  <2> QED
    BY <2>1, <2>5, AddressesStay, HeldStays DEF NodeStep
<1>7. CASE \/ ReceiveEnsure(t) \/ ReceiveStop(t) \/ Refuse(t) \/ Allocate(t) \/ Exhausted(t)
           \/ LookupBridge(t) \/ RequestExpansion(t) \/ UpdateBridge(t) \/ UpdateVtep(t)
           \/ ExpandIPAM(t) \/ ExpandRecord(t) \/ TornRead(t)
  <2>1. UNCHANGED subnetVars /\ UNCHANGED eth
    BY <1>7 DEF ReceiveEnsure, ReceiveStop, Refuse, Allocate, Exhausted, LookupBridge,
       RequestExpansion, UpdateBridge, UpdateVtep, ExpandIPAM, ExpandRecord, TornRead, kernelVars
  <2> QED
    BY <1>2, <2>1, HeldStays DEF NodeStep
<1> QED
  BY <1>3, <1>4, <1>5, <1>6, <1>7 DEF Actor

LEMMA NodeDispatcher ==
  ASSUME "delete" \notin Faults, IInv, TrieOK, AInv, TrieOK', Keeping, Dispatcher
  PROVE  NodeStep
<1>1. Subnet!TypeOK /\ eth \in [Pods -> OrNone(Interfaces)]
  BY DEF IInv, TypeOK
<1>2. PICK t \in Tenants : disp.t = t
  BY DispFacts DEF Dispatcher, At, EnsureSubnet, EnsureBackend, EnsurePolicy, EnsureCommit,
     StartTenantActor, RemoveVtep, RemoveBridge, RemoveFields, RemoveSubnet, RemoveStop,
     RemoveActor, RemoveRecord
<1>3. CASE RemoveBridge
  <2>1. /\ UNCHANGED subnetVars
        /\ eth' = [p \in Pods |-> IF p[1] = t THEN None ELSE eth[p]]
    BY <1>2, <1>3 DEF RemoveBridge
  <2>2. \A p \in Pods : eth'[p] = None <=> eth[p] = None \/ p \in {q \in Pods : q[1] = t}
    BY <2>1
  <2>3. CASE \E p \in Pods : p[1] = t
    <3>1. Node!Detach({q \in Pods : q[1] = t})
      BY <2>1, <2>2, DetachesPods DEF subnetVars
    <3> QED
      BY <2>3, <3>1 DEF Node!Next, NodeStep
  <2>4. CASE \A p \in Pods : p[1] # t
    BY <2>1, <2>4, AddressesStay, HeldStays DEF NodeStep
  <2> QED
    BY <2>3, <2>4
<1>4. ASSUME ~RemoveBridge PROVE Addr' = Addr
  <2>1. UNCHANGED eth
    BY <1>4 DEF Dispatcher, EnsureSubnet, EnsureBackend, EnsurePolicy, EnsureCommit,
       StartTenantActor, RemoveVtep, RemoveFields, RemoveSubnet, RemoveStop,
       RemoveActor, RemoveRecord, kernelVars
  <2> QED
    BY <2>1, AddressesStay
<1>5. ASSUME UNCHANGED subnetVars, ~RemoveBridge PROVE NodeStep
  BY <1>4, <1>5, HeldStays DEF NodeStep
<1>6. ASSUME TryDeallocate(t), \A p \in Pods : p[1] = t => eth[p] = None, ~RemoveBridge PROVE NodeStep
  BY <1>1, <1>4, <1>5, <1>6, FreesBlocks DEF TryDeallocate, NodeStep
<1>7. CASE EnsureSubnet /\ ~RemoveBridge
  BY <1>1, <1>2, <1>4, <1>5, <1>7, GrantsBlocks DEF EnsureSubnet, NodeStep, TrieOK
<1>8. CASE (EnsureBackend \/ EnsurePolicy \/ EnsureCommit) /\ ~RemoveBridge
  <2>1. Phase(disp, t) \in {"backend", "policy", "commit"}
    BY <1>2, <1>8 DEF EnsureBackend, EnsurePolicy, EnsureCommit, At, Phase
  <2>2. Life(Phase(disp, t), t \in TenantRecords, TenantActors[t], actor[t].pc)
    BY TenantFacts
  <2>3. t \notin TenantRecords
    BY <2>1, <2>2 DEF Life, Ensuring, Removing
  <2>4. \A p \in Pods : p[1] = t => eth[p] = None
    BY <2>3, AttachedFacts
  <2>5. UNCHANGED subnetVars \/ TryDeallocate(t)
    BY <1>2, <1>8 DEF EnsureBackend, EnsurePolicy, EnsureCommit
  <2> QED
    BY <1>5, <1>6, <1>8, <2>4, <2>5
<1>9. CASE RemoveSubnet /\ ~RemoveBridge
  <2>1. Phase(disp, t) \in BridgeGone
    BY <1>2, <1>9 DEF RemoveSubnet, At, Phase, BridgeGone
  <2>2. \A p \in Pods : p[1] = t => eth[p] = None
    BY <2>1 DEF AInv, DetachInv
  <2> QED
    BY <1>2, <1>6, <1>9, <2>2 DEF RemoveSubnet
<1>10. CASE (\/ StartTenantActor \/ RemoveVtep \/ RemoveFields \/ RemoveStop \/ RemoveActor
             \/ RemoveRecord) /\ ~RemoveBridge
  BY <1>5, <1>10 DEF StartTenantActor, RemoveVtep, RemoveFields, RemoveStop, RemoveActor, RemoveRecord
<1> QED
  BY <1>3, <1>7, <1>8, <1>9, <1>10 DEF Dispatcher

LEMMA NodeRefines ==
  ASSUME "delete" \notin Faults, IInv, PInv, LInv, TrieOK, AInv, TrieOK', [Next]_vars
  PROVE  NodeStep
<1>1. Keeping
  BY AttachNext DEF AttachStep
<1>2. ASSUME UNCHANGED subnetVars, UNCHANGED eth PROVE NodeStep
  BY <1>1, <1>2, AddressesStay, HeldStays DEF NodeStep
<1>3. ASSUME NEW t \in Tenants, Command(t) PROVE NodeStep
  BY <1>2, <1>3 DEF Command, EnsureTenant, RemoveTenant, kernelVars
<1>4. ASSUME NEW p \in Pods, Request(p) PROVE NodeStep
  <2>1. CASE GiveUp(p)
    <3>1. /\ UNCHANGED subnetVars /\ eth' = [eth EXCEPT ![p] = None]
          /\ eth \in [Pods -> OrNone(Interfaces)]
      BY <2>1 DEF GiveUp, IInv, TypeOK
    <3>2. \A q \in Pods : eth'[q] = None <=> eth[q] = None \/ q \in {p}
      BY <3>1
    <3>3. Node!Detach({p})
      BY <1>1, <3>1, <3>2, DetachesPods DEF subnetVars
    <3> QED
      BY <3>3 DEF Node!Next, NodeStep
  <2>2. CASE Send(p) \/ \E kind : Lookup(p, kind)
    BY <1>2, <2>2 DEF Send, Lookup, kernelVars
  <2> QED
    BY <1>4, <2>1, <2>2 DEF Request
<1>5. CASE UNCHANGED vars
  BY <1>2, <1>5 DEF vars, kernelVars
<1> QED
  BY <1>1, <1>3, <1>4, <1>5, NodeActor, NodeDispatcher DEF Next

(* Every behaviour of the node's network manager is one of NodeNetwork, as *)
(* long as Backend.Delete does not fail: blocks are granted, grown and     *)
(* given back without a pod on them, and a pod is attached with an address *)
(* of its own that it keeps until it is detached, in every interleaving of *)
(* commands, actors, requests, timeouts and other failures.                *)
THEOREM NodeImplementsNetwork ==
  ASSUME "delete" \notin Faults
  PROVE  Spec => ImplementsNode
<1>1. Init => Node!Init
  BY DEF Init, Subnet!Init, Node!Init, Node!Ranges!Init, HeldBy, AddressOf
<1>2. IInv /\ PInv /\ LInv /\ TrieOK /\ AInv /\ TrieOK' /\ [Next]_vars => [Node!Next]_<<Held, Addr>>
  BY NodeRefines DEF NodeStep
<1> QED
  BY <1>1, <1>2, AddressInvariant, PTL
  DEF Spec, ImplementsNode, Node!Spec, Node!vars, Held, Addr

(* A step of the trie, whoever calls it, is one of SubnetAllocator.        *)
RangeStep == Node!Ranges!Next \/ UNCHANGED Held

LEMMA RangeRefines ==
  ASSUME IInv, TrieOK', [Next]_vars
  PROVE  RangeStep
<1>1. Subnet!TypeOK /\ NodesDisjoint'
  BY DEF IInv, TypeOK, TrieOK
<1>2. ASSUME UNCHANGED subnetVars PROVE RangeStep
  BY <1>2, HeldStays DEF RangeStep
<1>3. ASSUME NEW t \in Tenants, TryDeallocate(t) PROVE RangeStep
  BY <1>1, <1>2, <1>3, FreesRange DEF TryDeallocate, RangeStep, Node!Ranges!Next
<1>4. ASSUME NEW t \in Tenants, Command(t) PROVE RangeStep
  BY <1>2, <1>4 DEF Command, EnsureTenant, RemoveTenant
<1>5. ASSUME NEW t \in Tenants, Actor(t) PROVE RangeStep
  <2>1. CASE ExpandSubnet(t)
    BY <1>1, <1>2, <2>1, GrowsRange DEF ExpandSubnet, RangeStep, Node!Ranges!Next
  <2>2. ASSUME ~ExpandSubnet(t) PROVE UNCHANGED subnetVars
    BY <1>5, <2>2 DEF Actor, ReceiveEnsure, ReceiveRemove, ReceiveStop, Refuse, Allocate, Exhausted,
       LookupBridge, SetupVeth, RequestExpansion, UpdateBridge, UpdateVtep, ExpandIPAM,
       ExpandRecord, ReconcilePods, TornRead
  <2> QED
    BY <1>2, <2>1, <2>2
<1>6. ASSUME NEW p \in Pods, Request(p) PROVE RangeStep
  BY <1>2, <1>6 DEF Request, Lookup, Send, GiveUp
<1>7. ASSUME Dispatcher PROVE RangeStep
  <2>1. PICK t \in Tenants : disp.t = t
    BY <1>7, DispFacts DEF Dispatcher, At, EnsureSubnet, EnsureBackend, EnsurePolicy, EnsureCommit,
       StartTenantActor, RemoveVtep, RemoveBridge, RemoveFields, RemoveSubnet, RemoveStop,
       RemoveActor, RemoveRecord
  <2>2. CASE EnsureSubnet
    BY <1>1, <1>2, <2>1, <2>2, GrantsRange DEF EnsureSubnet, RangeStep, Node!Ranges!Next
  <2>3. CASE EnsureBackend \/ EnsurePolicy \/ EnsureCommit \/ RemoveSubnet
    <3>1. UNCHANGED subnetVars \/ TryDeallocate(t)
      BY <2>1, <2>3 DEF EnsureBackend, EnsurePolicy, EnsureCommit, RemoveSubnet
    <3> QED
      BY <1>2, <1>3, <3>1
  <2>4. CASE \/ StartTenantActor \/ RemoveVtep \/ RemoveBridge \/ RemoveFields
             \/ RemoveStop \/ RemoveActor \/ RemoveRecord
    BY <1>2, <2>4 DEF StartTenantActor, RemoveVtep, RemoveBridge, RemoveFields, RemoveStop,
       RemoveActor, RemoveRecord
  <2> QED
    BY <1>7, <2>2, <2>3, <2>4 DEF Dispatcher
<1>8. CASE UNCHANGED vars
  BY <1>2, <1>8 DEF vars
<1> QED
  BY <1>4, <1>5, <1>6, <1>7, <1>8 DEF Next

(* With the dispatcher and every actor calling the one trie, and whatever  *)
(* call fails, the blocks of the tenants follow SubnetAllocator: no block  *)
(* ever has two tenants, and an expansion under way when its tenant is     *)
(* removed takes nothing from the others.                                  *)
THEOREM BlocksStayApart == Spec => BlocksApart
<1>1. Init => Node!Ranges!Init
  BY DEF Init, Subnet!Init, Node!Ranges!Init, HeldBy
<1>2. IInv /\ TrieOK' /\ [Next]_vars => [Node!Ranges!Next]_Held
  BY RangeRefines DEF RangeStep
<1> QED
  BY <1>1, <1>2, InvariantHolds, TrieSound, PTL
  DEF Spec, BlocksApart, Node!Ranges!Spec, Held
==============================================================================
