------------------------- MODULE NetworkManagerProofs -------------------------
(***************************************************************************)
(* Theorems about NetworkManager, for every tree of prefixes, any tenants  *)
(* and pods, any size of the mailboxes and, where nothing else is said,    *)
(* any faults.                                                             *)
(***************************************************************************)
EXTENDS NetworkManager, TLAPS, FiniteSetTheorems, SequenceTheorems

-----------------------------------------------------------------------------
(* The inductive invariant.                                                *)

(* What the dispatcher d is doing for tenant t.                            *)
Phase(d, t) == IF d.t = t THEN d.pc ELSE "idle"

Ensuring == {"subnet", "backend", "policy", "commit"}
Removing == {"vtep", "bridge", "nil", "dealloc", "stop", "ack", "drop"}
Released == {"stop", "ack", "drop"}  \* the subnet has been given back

Requesting == {"request", "expand", "bridge", "vtep", "ipam", "record", "reconcile"}
Growing == {"bridge", "vtep", "ipam", "record"}

(* In phase ph of the dispatcher, whether the tenant has a record (has),   *)
(* which actor is registered (ta) and where its goroutine is (pc).         *)
Life(ph, has, ta, pc) ==
  \/ ph = "idle" /\ has /\ ta # 0 /\ pc # "off"
  \/ ph = "idle" /\ ~has /\ ta = 0 /\ pc = "off"
  \/ ph \in Ensuring /\ ~has /\ ta = 0 /\ pc = "off"
  \/ ph = "start" /\ has /\ ta = 0 /\ pc = "off"
  \/ ph \in Removing \ {"ack", "drop"} /\ has /\ ta # 0 /\ pc # "off"
  \/ ph = "ack" /\ has /\ ta # 0
  \/ ph = "drop" /\ has /\ ta = 0 /\ pc = "off"

(* The local variables of tenant t's actor a.                              *)
Fields(t, a) ==
  /\ a.pc = "off" => a = Off
  /\ a.pc = "loop" => a = Loop
  /\ a.pc \notin {"off", "loop"} => <<t, a.pod>> \in Pods
  /\ a.pc \in {"lookup", "veth"} => a.ip # None
  /\ a.pc \in Requesting => a.attempt < maxRetries
  /\ a.pc \in Growing => a.net # None

(* The record r; while the actor grows the tenant, the record's subnet is  *)
(* a proper part of the new one, and the IPAM moves first.                 *)
RecordOK(ph, has, a, r) ==
  /\ ~has => r = None
  /\ has =>
       /\ r.State = "Closing" <=> ph \in Removing
       /\ ph \notin Released \cup {"dealloc"} => r.devices
       /\ a.pc \in Growing => r.Subnet \subseteq a.net /\ r.Subnet # a.net
       /\ r.IPAM.Network = Net(IF a.pc = "record" THEN a.net ELSE r.Subnet)

(* The tenant's node n in the trie.                                        *)
SubnetOK(ph, has, a, r, n) ==
  /\ has /\ ph \notin Released =>
       /\ n # None /\ r.Subnet \subseteq n
       /\ a.pc \in Growing => a.net \subseteq n
  /\ ph \in {"backend", "policy", "commit"} => n # None
  /\ ph \in Released \cup {"subnet"} \/ (ph = "idle" /\ ~has) => n \in {None, Subnet!Root}

StartsOK(ph, st) == ph \in Ensuring \cup {"start"} => st < MaxStarts

(* The mailbox holds requests for the tenant's own pods, and RemoveTenant's*)
(* message only while RemoveTenant waits for the answer.                   *)
MessageOK(t, m, ph, pc) ==
  IF m.kind = "stop" THEN ph = "ack" /\ pc # "off" ELSE <<t, m.pod>> \in Pods

BoxOK(t, box, ph, pc) == \A i \in DOMAIN box : MessageOK(t, box[i], ph, pc)

TenantOK(t, ph, has, ta, st, a, r, n, box) ==
  /\ Life(ph, has, ta, a.pc)
  /\ Fields(t, a)
  /\ RecordOK(ph, has, a, r)
  /\ SubnetOK(ph, has, a, r, n)
  /\ StartsOK(ph, st)
  /\ BoxOK(t, box, ph, a.pc)

DispOK(d) == d.pc = "idle" <=> d.t = None

IInv ==
  /\ TypeOK
  /\ DispOK(disp)
  /\ \A t \in Tenants :
       TenantOK(t, Phase(disp, t), t \in TenantRecords, TenantActors[t], starts[t],
                actor[t], rec[t], AllocMap[t], inbox[t])

-----------------------------------------------------------------------------
(* Prefixes and addresses.                                                 *)

(* A prefix is a range of blocks, and its network the range of their       *)
(* addresses.                                                              *)
LEMMA PrefixRange ==
  ASSUME NEW p \in Prefixes
  PROVE  \E a, b \in Int : /\ a <= b /\ p = a .. b
                           /\ Net(p) = [base |-> 4 * a, total |-> 4 * (b - a + 1)]
<1>1. PICK a, b \in Blocks : a <= b /\ p = a .. b
  BY PrefixAssumption
<1>2. a \in Int /\ b \in Int
  BY PrefixAssumption
<1> DEFINE m == CHOOSE x \in p : \A c \in p : x <= c
<1>3. a \in p /\ \A c \in p : a <= c
  BY <1>1, <1>2
<1>4. m \in p /\ \A c \in p : m <= c
  BY <1>3
<1>5. m = a
  BY <1>1, <1>2, <1>3, <1>4
<1>6. Cardinality(p) = b - a + 1
  BY <1>1, <1>2, FS_Interval
<1> QED
  BY <1>1, <1>2, <1>5, <1>6 DEF Net

LEMMA NetFacts ==
  ASSUME NEW p \in Prefixes
  PROVE  /\ Net(p).base \in Int /\ Net(p).total \in Int /\ Net(p).total >= 4
         /\ \A ip \in Int : Contains(p, ip) => ip \in Addresses
         /\ FirstIP(p) \in Addresses /\ HostIP(p) \in Addresses
         /\ Contains(p, FirstIP(p))
<1>1. Net(p).base \in Int /\ Net(p).total \in Int /\ Net(p).total >= 4
  BY PrefixRange
<1> HIDE DEF Net
<1>2. ASSUME NEW ip \in Int, Contains(p, ip) PROVE ip \in Addresses
  BY <1>1, <1>2 DEF Addresses, Contains
<1>3. Contains(p, FirstIP(p)) /\ Contains(p, HostIP(p)) /\ FirstIP(p) \in Int /\ HostIP(p) \in Int
  BY <1>1 DEF Contains, FirstIP, HostIP
<1> QED
  BY <1>1, <1>2, <1>3

LEMMA AddressesAreIntegers == Addresses \subseteq Int
BY NetFacts DEF Addresses

(* A larger prefix contains the addresses of a smaller one.                *)
LEMMA NetGrows ==
  ASSUME NEW p \in Prefixes, NEW q \in Prefixes, p \subseteq q
  PROVE  /\ Net(q).base <= Net(p).base
         /\ Net(p).base + Net(p).total <= Net(q).base + Net(q).total
         /\ p # q => Net(p).total < Net(q).total
<1>1. PICK a, b \in Int : a <= b /\ p = a .. b /\ Net(p) = [base |-> 4 * a, total |-> 4 * (b - a + 1)]
  BY PrefixRange
<1>2. PICK c, d \in Int : c <= d /\ q = c .. d /\ Net(q) = [base |-> 4 * c, total |-> 4 * (d - c + 1)]
  BY PrefixRange
<1>3. a \in q /\ b \in q
  BY <1>1
<1>4. c <= a /\ b <= d
  BY <1>2, <1>3
<1>5. p # q => c # a \/ b # d
  BY <1>1, <1>2
<1> QED
  BY <1>1, <1>2, <1>4, <1>5

(* Merge replaces a node by its parent, which is larger.                   *)
LEMMA ParentFacts ==
  ASSUME NEW p \in Prefixes, p # Subnet!Root
  PROVE  Subnet!Parent(p) \in Prefixes /\ p \subseteq Subnet!Parent(p) /\ p # Subnet!Parent(p)
BY PrefixAssumption DEF Subnet!HasParent

-----------------------------------------------------------------------------
(* The calls of the subnet manager: each changes the node of one tenant.   *)
OthersKeepNodes(t) == \A u \in Tenants : u # t => AllocMap'[u] = AllocMap[u]

LEMMA TrieAllocate ==
  ASSUME Subnet!TypeOK, NEW t \in Tenants, Subnet!Allocate(t)
  PROVE  /\ Subnet!TypeOK' /\ OthersKeepNodes(t)
         /\ AllocMap[t] = None /\ AllocMap'[t] \in Prefixes
<1>1. PICK best \in Subnet!FindAllFree :
        /\ owner' = [owner EXCEPT ![best] = t]
        /\ AllocMap' = [AllocMap EXCEPT ![t] = best]
  BY DEF Subnet!Allocate
<1>2. best \in Prefixes
  BY DEF Subnet!FindAllFree, Subnet!TypeOK
<1>3. linked' = linked /\ AllocMap[t] = None
  BY DEF Subnet!Allocate
<1> QED
  BY <1>1, <1>2, <1>3 DEF Subnet!TypeOK, OthersKeepNodes

LEMMA TrieDeallocate ==
  ASSUME Subnet!TypeOK, NEW t \in Tenants, TryDeallocate(t)
  PROVE  /\ Subnet!TypeOK' /\ OthersKeepNodes(t)
         /\ AllocMap'[t] \in {None, Subnet!Root}
<1>1. CASE Subnet!Deallocate(t)
  <2>1. /\ owner' = [q \in Prefixes |-> IF q \subseteq AllocMap[t] THEN None ELSE owner[q]]
        /\ AllocMap' = [AllocMap EXCEPT ![t] = None]
        /\ linked' = linked \cup {q \in Prefixes : q \subseteq AllocMap[t]}
    BY <1>1 DEF Subnet!Deallocate
  <2> QED
    BY <2>1 DEF Subnet!TypeOK, OthersKeepNodes
<1>2. CASE AllocMap[t] \in {None, Subnet!Root} /\ UNCHANGED subnetVars
  BY <1>2 DEF Subnet!TypeOK, OthersKeepNodes, subnetVars
<1> QED
  BY <1>1, <1>2 DEF TryDeallocate

LEMMA TrieExpand ==
  ASSUME Subnet!TypeOK, NEW t \in Tenants, Subnet!Expand(t)
  PROVE  /\ Subnet!TypeOK' /\ OthersKeepNodes(t)
         /\ AllocMap[t] \in Prefixes /\ AllocMap[t] # Subnet!Root
         /\ AllocMap'[t] \in Prefixes /\ AllocMap[t] \subseteq AllocMap'[t] /\ AllocMap[t] # AllocMap'[t]
<1> DEFINE node == AllocMap[t]
           parent == Subnet!Parent(node)
           sibling == Subnet!Sibling(node)
<1>1. /\ node # None /\ node # Subnet!Root
      /\ owner' = [owner EXCEPT ![parent] = t, ![node] = None, ![sibling] = None]
      /\ linked' = {q \in linked : q \subseteq parent => q = parent}
      /\ AllocMap' = [AllocMap EXCEPT ![t] = parent]
  BY DEF Subnet!Expand
<1>2. node \in Prefixes
  BY <1>1 DEF Subnet!TypeOK
<1>3. parent \in Prefixes /\ node \subseteq parent /\ node # parent
  BY <1>1, <1>2, ParentFacts
<1> HIDE DEF parent, sibling
<1> QED
  BY <1>1, <1>2, <1>3 DEF Subnet!TypeOK, OthersKeepNodes

LEMMA TrieUnchanged ==
  ASSUME Subnet!TypeOK, UNCHANGED subnetVars, NEW t
  PROVE  Subnet!TypeOK' /\ OthersKeepNodes(t) /\ AllocMap' = AllocMap
BY DEF Subnet!TypeOK, subnetVars, OthersKeepNodes

-----------------------------------------------------------------------------
(* A step that concerns one tenant.                                        *)

(* What the invariant says of tenant t.                                    *)
Here(t) ==
  TenantOK(t, Phase(disp, t), t \in TenantRecords, TenantActors[t], starts[t],
           actor[t], rec[t], AllocMap[t], inbox[t])

(* Everything of the other tenants stays as it is.                         *)
SameBut(t) ==
  \A u \in Tenants : u # t =>
    /\ Phase(disp', u) = Phase(disp, u)
    /\ u \in TenantRecords' <=> u \in TenantRecords
    /\ TenantActors'[u] = TenantActors[u] /\ starts'[u] = starts[u]
    /\ actor'[u] = actor[u] /\ rec'[u] = rec[u]
    /\ AllocMap'[u] = AllocMap[u] /\ inbox'[u] = inbox[u]

LEMMA OneTenant ==
  ASSUME IInv, NEW t \in Tenants, TypeOK', DispOK(disp'), SameBut(t), Here(t)'
  PROVE  IInv'
<1>1. ASSUME NEW u \in Tenants PROVE Here(u)'
  <2>1. CASE u = t
    BY <2>1
  <2>2. CASE u # t
    <3>1. Here(u)
      BY DEF IInv, Here
    <3>2. /\ Phase(disp', u) = Phase(disp, u)
          /\ u \in TenantRecords' <=> u \in TenantRecords
          /\ TenantActors'[u] = TenantActors[u] /\ starts'[u] = starts[u]
          /\ actor'[u] = actor[u] /\ rec'[u] = rec[u]
          /\ AllocMap'[u] = AllocMap[u] /\ inbox'[u] = inbox[u]
      BY <2>2 DEF SameBut
    <3>3. (u \in TenantRecords') = (u \in TenantRecords)
      BY <3>2
    <3> QED
      BY <3>1, <3>2, <3>3 DEF Here
  <2> QED
    BY <2>1, <2>2
<1> QED
  BY <1>1 DEF IInv, Here

(* The parts of the invariant about tenant t.                              *)
LEMMA TenantFacts ==
  ASSUME IInv, NEW t \in Tenants
  PROVE  /\ TypeOK /\ DispOK(disp) /\ Here(t)
         /\ Life(Phase(disp, t), t \in TenantRecords, TenantActors[t], actor[t].pc)
         /\ Fields(t, actor[t])
         /\ RecordOK(Phase(disp, t), t \in TenantRecords, actor[t], rec[t])
         /\ SubnetOK(Phase(disp, t), t \in TenantRecords, actor[t], rec[t], AllocMap[t])
         /\ StartsOK(Phase(disp, t), starts[t])
         /\ BoxOK(t, inbox[t], Phase(disp, t), actor[t].pc)
BY DEF IInv, Here, TenantOK

LEMMA TypeFacts ==
  ASSUME TypeOK, NEW t \in Tenants
  PROVE  /\ Subnet!TypeOK /\ AllocMap \in [Tenants -> OrNone(Prefixes)]
         /\ TenantRecords \subseteq Tenants
         /\ rec \in [Tenants -> OrNone(Records)]
         /\ t \in TenantRecords => rec[t] \in Records
         /\ actor \in [Tenants -> ActorStates] /\ actor[t] \in ActorStates
         /\ inbox \in [Tenants -> Seq(Messages)] /\ inbox[t] \in Seq(Messages)
         /\ Len(inbox[t]) <= MailboxSize
         /\ disp \in DispatcherStates
         /\ call \in [Pods -> Requests]
         /\ link \in [Tenants -> Links] /\ link[t] \in Links
         /\ eth \in [Pods -> OrNone(Interfaces)]
<1>1. t \in TenantRecords => rec[t] \in Records
  BY DEF TypeOK, OrNone
<1>2. AllocMap \in [Tenants -> OrNone(Prefixes)]
  BY DEF TypeOK, Subnet!TypeOK, OrNone
<1> QED
  BY <1>1, <1>2 DEF TypeOK

(* A tenant whose actor runs has a record.                                 *)
LEMMA RunningFacts ==
  ASSUME IInv, NEW t \in Tenants, actor[t].pc # "off"
  PROVE  /\ t \in TenantRecords /\ rec[t] \in Records /\ rec[t] # None
         /\ Phase(disp, t) \in ({"idle"} \cup Removing) \ {"drop"}
<1>1. Life(Phase(disp, t), t \in TenantRecords, TenantActors[t], actor[t].pc)
  BY TenantFacts
<1>2. t \in TenantRecords /\ Phase(disp, t) \in ({"idle"} \cup Removing) \ {"drop"}
  BY <1>1 DEF Life, Removing
<1>3. rec[t] \in Records
  BY <1>2, TenantFacts, TypeFacts
<1> QED
  BY <1>2, <1>3, NoneAssumption

(* A step of the actor of tenant t.                                        *)
LEMMA ActorStep ==
  ASSUME IInv, NEW t \in Tenants, actor[t].pc # "off",
         NEW a \in ActorStates, a.pc # "off", NEW r \in Records,
         NEW box \in Seq(Messages), Len(box) <= MailboxSize,
         actor' = [actor EXCEPT ![t] = a], rec' = [rec EXCEPT ![t] = r],
         inbox' = [inbox EXCEPT ![t] = box],
         TenantRecords' = TenantRecords, UNCHANGED <<startVars, disp>>,
         Subnet!TypeOK', OthersKeepNodes(t),
         call' \in [Pods -> Requests], link' \in [Tenants -> Links],
         eth' \in [Pods -> OrNone(Interfaces)],
         Fields(t, a), RecordOK(Phase(disp, t), TRUE, a, r),
         SubnetOK(Phase(disp, t), TRUE, a, r, AllocMap'[t]),
         BoxOK(t, box, Phase(disp, t), a.pc)
  PROVE  IInv'
<1>1. /\ TypeOK /\ DispOK(disp) /\ StartsOK(Phase(disp, t), starts[t])
      /\ Life(Phase(disp, t), t \in TenantRecords, TenantActors[t], actor[t].pc)
  BY TenantFacts
<1>2. t \in TenantRecords
  BY RunningFacts
<1>3. /\ actor'[t] = a /\ rec'[t] = r /\ inbox'[t] = box
      /\ \A u \in Tenants : u # t => actor'[u] = actor[u] /\ rec'[u] = rec[u] /\ inbox'[u] = inbox[u]
  BY <1>1 DEF TypeOK
<1>4. TenantActors' = TenantActors /\ starts' = starts /\ disp' = disp
  BY DEF startVars
<1>5. TypeOK'
  <2>1. rec' \in [Tenants -> OrNone(Records)] /\ \A u \in TenantRecords : rec'[u] # None
    <3>1. r # None /\ r \in OrNone(Records)
      BY NoneAssumption DEF OrNone
    <3> QED
      BY <1>1, <1>3, <3>1 DEF TypeOK
  <2>2. actor' \in [Tenants -> ActorStates]
    BY <1>1 DEF TypeOK
  <2>3. inbox' \in [Tenants -> Seq(Messages)] /\ \A u \in Tenants : Len(inbox'[u]) <= MailboxSize
    BY <1>1, <1>3 DEF TypeOK
  <2> QED
    BY <1>1, <1>4, <2>1, <2>2, <2>3 DEF TypeOK
<1>6. SameBut(t)
  BY <1>3, <1>4 DEF SameBut, OthersKeepNodes
<1>7. Here(t)'
  <2>1. Life(Phase(disp, t), TRUE, TenantActors[t], a.pc)
    BY <1>1, <1>2 DEF Life
  <2>2. TenantOK(t, Phase(disp, t), TRUE, TenantActors[t], starts[t], a, r, AllocMap'[t], box)
    BY <1>1, <2>1 DEF TenantOK
  <2>3. (t \in TenantRecords') = TRUE
    BY <1>2
  <2> QED
    BY <1>3, <1>4, <2>2, <2>3 DEF Here
<1> QED
  BY <1>1, <1>4, <1>5, <1>6, <1>7, OneTenant

(* A step of the actor that changes neither record nor trie nor mailbox.   *)
LEMMA QuietStep ==
  ASSUME IInv, NEW t \in Tenants, actor[t].pc \notin {"off", "record"},
         NEW a \in ActorStates, a.pc \notin {"off", "record"},
         actor' = [actor EXCEPT ![t] = a],
         UNCHANGED <<subnetVars, recordVars, startVars, inbox, disp>>,
         call' \in [Pods -> Requests], link' \in [Tenants -> Links],
         eth' \in [Pods -> OrNone(Interfaces)],
         Fields(t, a),
         a.pc \in Growing => actor[t].pc \in Growing /\ a.net = actor[t].net
  PROVE  IInv'
<1>1. /\ TypeOK /\ RecordOK(Phase(disp, t), t \in TenantRecords, actor[t], rec[t])
      /\ SubnetOK(Phase(disp, t), t \in TenantRecords, actor[t], rec[t], AllocMap[t])
      /\ BoxOK(t, inbox[t], Phase(disp, t), actor[t].pc)
  BY TenantFacts
<1>2. t \in TenantRecords /\ rec[t] \in Records
  BY RunningFacts
<1>3. /\ inbox[t] \in Seq(Messages) /\ Len(inbox[t]) <= MailboxSize
      /\ rec' = [rec EXCEPT ![t] = rec[t]] /\ inbox' = [inbox EXCEPT ![t] = inbox[t]]
      /\ TenantRecords' = TenantRecords
  BY <1>1 DEF TypeOK, recordVars
<1>4. Subnet!TypeOK' /\ OthersKeepNodes(t) /\ AllocMap' = AllocMap
  BY <1>1, TrieUnchanged DEF TypeOK
<1>5. RecordOK(Phase(disp, t), TRUE, a, rec[t])
  BY <1>1, <1>2 DEF RecordOK, Growing
<1>6. SubnetOK(Phase(disp, t), TRUE, a, rec[t], AllocMap'[t])
  BY <1>1, <1>2, <1>4 DEF SubnetOK
<1>7. BoxOK(t, inbox[t], Phase(disp, t), a.pc)
  BY <1>1 DEF BoxOK, MessageOK
<1> QED
  BY <1>2, <1>3, <1>4, <1>5, <1>6, <1>7, ActorStep

-----------------------------------------------------------------------------
(* The actor's steps.                                                      *)
LEMMA LoopFacts ==
  /\ Loop \in ActorStates /\ Off \in ActorStates
  /\ Loop.pc = "loop" /\ Loop.pod = None /\ Loop.attempt = 0 /\ Loop.live = FALSE
  /\ Off.pc = "off" /\ Off.pod = None /\ Off.attempt = 0 /\ Off.live = FALSE
  /\ \A t : Fields(t, Loop)
  /\ \A t : Fields(t, Off)
<1>1. Off = [pc |-> "off", pod |-> None, live |-> FALSE, attempt |-> 0, ip |-> None, net |-> None]
  BY DEF Off
<1>2. Off \in ActorStates
  BY <1>1 DEF ActorStates, OrNone, maxRetries
<1>3. Off.pc = "off" /\ Off.pod = None /\ Off.attempt = 0 /\ Off.live = FALSE
  BY <1>1
<1>4. Loop \in ActorStates
  BY <1>2 DEF ActorStates, Loop
<1>5. Loop.pc = "loop" /\ Loop.pod = Off.pod /\ Loop.attempt = Off.attempt /\ Loop.live = Off.live
  BY <1>2 DEF ActorStates, Loop
<1>6. (\A t : Fields(t, Loop)) /\ (\A t : Fields(t, Off))
  BY <1>3, <1>5 DEF Fields, Requesting, Growing
<1> QED
  BY <1>2, <1>3, <1>4, <1>5, <1>6

LEMMA EndedType ==
  ASSUME NEW c \in Requests
  PROVE  Ended(c) \in Requests
<1>1. c.sandbox \in 0 .. MaxSandboxes
  BY DEF Requests
<1>2. Ended(c) = [at |-> "none", kind |-> None, h |-> 0, sandbox |-> c.sandbox]
  BY DEF Ended, NoCall
<1> QED
  BY <1>1, <1>2 DEF Requests, OrNone

LEMMA AnswerType ==
  ASSUME TypeOK, NEW t, NEW m, Answer(t, m)
  PROVE  call' \in [Pods -> Requests]
BY EndedType DEF TypeOK, Answer

(* A handler that ends anywhere but between IPAM.Expand and the record.    *)
LEMMA ReturnInv ==
  ASSUME IInv, NEW t \in Tenants, actor[t].pc \notin {"off", "record"}, Return(t),
         UNCHANGED <<subnetVars, recordVars, startVars, inbox, disp>>,
         link' \in [Tenants -> Links], eth' \in [Pods -> OrNone(Interfaces)]
  PROVE  IInv'
<1>1. actor' = [actor EXCEPT ![t] = Loop] /\ call' \in [Pods -> Requests]
  BY AnswerType, TenantFacts DEF Return
<1>2. Loop.pc \notin {"off", "record"} /\ Loop.pc \notin Growing
  BY LoopFacts DEF Growing
<1> QED
  BY <1>1, <1>2, LoopFacts, QuietStep

(* What a change of the program counter leaves alone.                      *)
LEMMA StepFacts ==
  ASSUME TypeOK, NEW t \in Tenants, NEW pc, Step(t, pc),
         pc \in {"off", "loop", "ensure", "lookup", "veth", "request", "expand", "bridge",
                 "vtep", "ipam", "record", "reconcile", "panic"}
  PROVE  \E a \in ActorStates :
           /\ actor' = [actor EXCEPT ![t] = a]
           /\ a.pc = pc /\ a.pod = actor[t].pod /\ a.live = actor[t].live
           /\ a.attempt = actor[t].attempt /\ a.ip = actor[t].ip /\ a.net = actor[t].net
<1> DEFINE a == [actor[t] EXCEPT !.pc = pc]
<1>1. actor[t] \in ActorStates
  BY DEF TypeOK
<1>2. a \in ActorStates
  BY <1>1 DEF ActorStates
<1>3. /\ a.pc = pc /\ a.pod = actor[t].pod /\ a.live = actor[t].live
      /\ a.attempt = actor[t].attempt /\ a.ip = actor[t].ip /\ a.net = actor[t].net
  BY <1>1 DEF ActorStates
<1>4. actor' = [actor EXCEPT ![t] = a]
  BY DEF Step
<1> HIDE DEF a
<1> QED
  BY <1>2, <1>3, <1>4

(* The first message of a mailbox and the rest.                            *)
LEMMA MailFacts ==
  ASSUME IInv, NEW t \in Tenants, inbox[t] # <<>>
  PROVE  LET box == inbox[t] IN
         /\ Head(box) \in Messages /\ Head(box) = box[1] /\ 1 \in DOMAIN box
         /\ MessageOK(t, Head(box), Phase(disp, t), actor[t].pc)
         /\ Tail(box) \in Seq(Messages) /\ Len(Tail(box)) <= MailboxSize
         /\ \A i \in DOMAIN Tail(box) : i \in Nat /\ i + 1 \in DOMAIN box /\ Tail(box)[i] = box[i + 1]
         /\ BoxOK(t, Tail(box), Phase(disp, t), actor[t].pc)
<1> DEFINE box == inbox[t]
<1>1. box \in Seq(Messages) /\ Len(box) <= MailboxSize /\ box # <<>>
  BY TenantFacts, TypeFacts
<1>2. BoxOK(t, box, Phase(disp, t), actor[t].pc)
  BY TenantFacts
<1> HIDE DEF box
<1>3. /\ Head(box) \in Messages /\ Head(box) = box[1] /\ 1 \in DOMAIN box
      /\ Tail(box) \in Seq(Messages) /\ Len(Tail(box)) <= MailboxSize
      /\ \A i \in DOMAIN Tail(box) : i \in Nat /\ i + 1 \in DOMAIN box /\ Tail(box)[i] = box[i + 1]
  BY <1>1, NMAssumption
<1>4. MessageOK(t, Head(box), Phase(disp, t), actor[t].pc)
  BY <1>2, <1>3 DEF BoxOK
<1>5. BoxOK(t, Tail(box), Phase(disp, t), actor[t].pc)
  BY <1>2, <1>3 DEF BoxOK
<1> QED
  BY <1>3, <1>4, <1>5 DEF box

LEMMA ReceiveStep ==
  ASSUME IInv, NEW t \in Tenants, NEW kind, Received(t, kind),
         NEW a \in ActorStates, a.pc \in {"loop", "ensure"}, Fields(t, a),
         actor' = [actor EXCEPT ![t] = a],
         UNCHANGED <<subnetVars, recordVars, startVars, disp>>,
         call' \in [Pods -> Requests], link' \in [Tenants -> Links],
         eth' \in [Pods -> OrNone(Interfaces)]
  PROVE  IInv'
<1>1. /\ actor[t].pc = "loop" /\ inbox[t] # <<>>
      /\ inbox' = [inbox EXCEPT ![t] = Tail(inbox[t])]
  BY DEF Received, Running
<1>2. /\ TypeOK /\ RecordOK(Phase(disp, t), t \in TenantRecords, actor[t], rec[t])
      /\ SubnetOK(Phase(disp, t), t \in TenantRecords, actor[t], rec[t], AllocMap[t])
  BY TenantFacts
<1>3. t \in TenantRecords /\ rec[t] \in Records
  BY <1>1, RunningFacts
<1>4. /\ rec' = [rec EXCEPT ![t] = rec[t]] /\ TenantRecords' = TenantRecords
  BY <1>2 DEF TypeOK, recordVars
<1>5. Subnet!TypeOK' /\ OthersKeepNodes(t) /\ AllocMap' = AllocMap
  BY <1>2, TrieUnchanged DEF TypeOK
<1>6. RecordOK(Phase(disp, t), TRUE, a, rec[t])
  BY <1>1, <1>2, <1>3 DEF RecordOK, Growing
<1>7. SubnetOK(Phase(disp, t), TRUE, a, rec[t], AllocMap'[t])
  BY <1>2, <1>3, <1>5 DEF SubnetOK, Growing
<1>8. /\ Tail(inbox[t]) \in Seq(Messages) /\ Len(Tail(inbox[t])) <= MailboxSize
      /\ BoxOK(t, Tail(inbox[t]), Phase(disp, t), a.pc)
  <2>1. /\ Tail(inbox[t]) \in Seq(Messages) /\ Len(Tail(inbox[t])) <= MailboxSize
        /\ BoxOK(t, Tail(inbox[t]), Phase(disp, t), actor[t].pc)
    BY <1>1, MailFacts
  <2> QED
    BY <1>1, <2>1 DEF BoxOK, MessageOK
<1> QED
  BY <1>1, <1>3, <1>4, <1>5, <1>6, <1>7, <1>8, ActorStep

LEMMA ReceiveEnsureInv ==
  ASSUME IInv, NEW t \in Tenants, ReceiveEnsure(t)
  PROVE  IInv'
<1> DEFINE m == Head(inbox[t])
<1>1. /\ Received(t, "ensure") /\ actor[t].pc = "loop" /\ inbox[t] # <<>> /\ m.kind = "ensure"
      /\ UNCHANGED <<subnetVars, recordVars, startVars, disp, kernelVars>>
  BY DEF ReceiveEnsure, Received, Running
<1>2. m \in Messages /\ <<t, m.pod>> \in Pods
  BY <1>1, MailFacts DEF MessageOK
<1>3. TypeOK /\ Fields(t, actor[t]) /\ actor[t] \in ActorStates
  BY TenantFacts, TypeFacts
<1>4. link' \in [Tenants -> Links] /\ eth' \in [Pods -> OrNone(Interfaces)]
  BY <1>1, <1>3 DEF TypeOK, kernelVars
<1>5. CASE Answer(t, m) /\ UNCHANGED actor
  <2>1. actor' = [actor EXCEPT ![t] = actor[t]]
    BY <1>3, <1>5 DEF TypeOK
  <2>2. call' \in [Pods -> Requests]
    BY <1>3, <1>5, AnswerType
  <2> QED
    BY <1>1, <1>3, <1>4, <2>1, <2>2, ReceiveStep
<1>6. CASE /\ actor' = [actor EXCEPT ![t] = [Loop EXCEPT !.pc = "ensure", !.pod = m.pod, !.live = m.live]]
           /\ UNCHANGED call
  <2> DEFINE a == [Loop EXCEPT !.pc = "ensure", !.pod = m.pod, !.live = m.live]
  <2>1. m.pod \in OrNone(PodKeys) /\ m.live \in BOOLEAN
    BY <1>2 DEF Messages
  <2>2. a \in ActorStates
    BY <2>1, LoopFacts DEF ActorStates
  <2>3. a.pc = "ensure" /\ a.pod = m.pod
    BY LoopFacts DEF ActorStates
  <2> HIDE DEF a
  <2>4. Fields(t, a)
    BY <1>2, <2>3 DEF Fields, Requesting, Growing
  <2>5. call' \in [Pods -> Requests]
    BY <1>3, <1>6 DEF TypeOK
  <2>6. actor' = [actor EXCEPT ![t] = a]
    BY <1>6 DEF a
  <2> QED
    BY <1>1, <1>4, <2>2, <2>3, <2>4, <2>5, <2>6, ReceiveStep
<1> QED
  BY <1>5, <1>6 DEF ReceiveEnsure

LEMMA ReceiveRemoveInv ==
  ASSUME IInv, NEW t \in Tenants, ReceiveRemove(t)
  PROVE  IInv'
<1> DEFINE m == Head(inbox[t])
<1>1. /\ Received(t, "remove") /\ actor[t].pc = "loop" /\ Answer(t, m)
      /\ eth' = IF m.live THEN [eth EXCEPT ![<<t, m.pod>>] = None] ELSE eth
      /\ UNCHANGED <<subnetVars, recordVars, startVars, disp, actor, link>>
  BY DEF ReceiveRemove, Received, Running
<1>2. TypeOK /\ Fields(t, actor[t]) /\ actor[t] \in ActorStates
  BY TenantFacts, TypeFacts
<1>3. actor' = [actor EXCEPT ![t] = actor[t]] /\ link' \in [Tenants -> Links]
  BY <1>1, <1>2 DEF TypeOK
<1>4. eth' \in [Pods -> OrNone(Interfaces)]
  BY <1>1, <1>2 DEF TypeOK, OrNone
<1>5. call' \in [Pods -> Requests]
  BY <1>1, <1>2, AnswerType
<1> QED
  BY <1>1, <1>2, <1>3, <1>4, <1>5, ReceiveStep

(* RemoveTenant's message ends the goroutine, and RemoveTenant is waiting. *)
LEMMA ReceiveStopInv ==
  ASSUME IInv, NEW t \in Tenants, ReceiveStop(t)
  PROVE  IInv'
<1>1. /\ actor[t].pc = "loop" /\ inbox[t] # <<>> /\ Head(inbox[t]).kind = "stop"
      /\ inbox' = [inbox EXCEPT ![t] = <<>>] /\ actor' = [actor EXCEPT ![t] = Off]
      /\ UNCHANGED <<subnetVars, recordVars, startVars, disp, call, kernelVars>>
  BY DEF ReceiveStop, Running
<1>2. Phase(disp, t) = "ack"
  BY <1>1, MailFacts DEF MessageOK
<1>3. /\ TypeOK /\ DispOK(disp)
      /\ Life(Phase(disp, t), t \in TenantRecords, TenantActors[t], actor[t].pc)
      /\ RecordOK(Phase(disp, t), t \in TenantRecords, actor[t], rec[t])
      /\ SubnetOK(Phase(disp, t), t \in TenantRecords, actor[t], rec[t], AllocMap[t])
      /\ StartsOK(Phase(disp, t), starts[t])
  BY TenantFacts
<1>4. /\ linked' = linked /\ owner' = owner /\ AllocMap' = AllocMap
      /\ TenantRecords' = TenantRecords /\ rec' = rec
      /\ TenantActors' = TenantActors /\ starts' = starts
      /\ disp' = disp /\ call' = call /\ link' = link /\ eth' = eth
  BY <1>1 DEF subnetVars, recordVars, startVars, kernelVars
<1>5. /\ actor'[t] = Off /\ inbox'[t] = <<>>
      /\ \A u \in Tenants : u # t => actor'[u] = actor[u] /\ inbox'[u] = inbox[u]
  BY <1>1, <1>3 DEF TypeOK
<1>6. TypeOK'
  <2>1. actor' \in [Tenants -> ActorStates]
    BY <1>1, <1>3, LoopFacts DEF TypeOK
  <2>2. <<>> \in Seq(Messages) /\ Len(<<>>) <= MailboxSize
    BY NMAssumption
  <2>3. inbox' \in [Tenants -> Seq(Messages)] /\ \A u \in Tenants : Len(inbox'[u]) <= MailboxSize
    BY <1>1, <1>3, <1>5, <2>2 DEF TypeOK
  <2>4. Subnet!TypeOK'
    BY <1>1, <1>3, TrieUnchanged DEF TypeOK
  <2> QED
    BY <1>3, <1>4, <2>1, <2>3, <2>4 DEF TypeOK
<1>7. SameBut(t)
  BY <1>4, <1>5 DEF SameBut
<1>8. TenantOK(t, Phase(disp, t), t \in TenantRecords, TenantActors[t], starts[t],
               Off, rec[t], AllocMap[t], <<>>)
  <2>1. Life(Phase(disp, t), t \in TenantRecords, TenantActors[t], Off.pc)
    BY <1>1, <1>2, <1>3 DEF Life, Ensuring, Removing
  <2>2. RecordOK(Phase(disp, t), t \in TenantRecords, Off, rec[t])
    BY <1>1, <1>3, LoopFacts DEF RecordOK, Growing
  <2>3. SubnetOK(Phase(disp, t), t \in TenantRecords, Off, rec[t], AllocMap[t])
    BY <1>3, LoopFacts DEF SubnetOK, Growing
  <2>4. BoxOK(t, <<>>, Phase(disp, t), Off.pc)
    BY DEF BoxOK
  <2> QED
    BY <1>3, <2>1, <2>2, <2>3, <2>4, LoopFacts DEF TenantOK
<1>9. Here(t)'
  BY <1>4, <1>5, <1>8 DEF Here
<1> QED
  BY <1>3, <1>4, <1>6, <1>7, <1>9, OneTenant

-----------------------------------------------------------------------------
(* The methods of an IPAM, as far as types are concerned.                  *)
LEMMA CapacityOfNet ==
  ASSUME NEW t, NEW p \in Prefixes
  PROVE  IPAM(t)!Capacity(Net(p)) = Net(p).total - 3
BY NetFacts DEF IPAM!Capacity

(* x is the IPAM m after Allocate, Release and Expand.                     *)
IsTaken(m, x, k, idx, ip) ==
  /\ x.Network = m.Network /\ x.bitmap = m.bitmap \cup {idx}
  /\ x.IPs = [m.IPs EXCEPT ![k] = ip]
  /\ ip = m.Network.base + 2 + idx
  /\ idx \in 0 .. m.Network.total - 4 /\ idx \notin m.bitmap

IsReleased(m, x, ip) ==
  /\ x.Network = m.Network
  /\ x.bitmap \subseteq m.bitmap /\ m.bitmap \ {ip - m.Network.base - 2} \subseteq x.bitmap
  /\ x.IPs = [k \in PodKeys |-> IF m.IPs[k] = ip THEN None ELSE m.IPs[k]]

IsRebased(m, x, p) ==
  /\ x.Network = Net(p) /\ x.IPs = m.IPs
  /\ \A k \in PodKeys : m.IPs[k] # None =>
       m.IPs[k] - Net(p).base - 2 \in 0 .. Net(p).total - 4
  /\ x.bitmap = {m.IPs[k] - Net(p).base - 2 : k \in {j \in PodKeys : m.IPs[j] # None}}

LEMMA TakeType ==
  ASSUME NEW t, NEW m \in IPAMs, NEW k \in PodKeys, NEW idx, idx \in IPAM(t)!FreeIndices(m),
         NEW x, x = IPAM(t)!Take(m, k, idx),
         NEW ip, ip = IPAM(t)!indexToIP(m.Network, idx)
  PROVE  x \in IPAMs /\ ip \in Addresses /\ IsTaken(m, x, k, idx, ip)
<1>1. PICK p \in Prefixes : m.Network = Net(p)
  BY DEF IPAMs
<1>2. idx \in 0 .. Net(p).total - 4 /\ idx \notin m.bitmap
  BY <1>1, CapacityOfNet, NetFacts DEF IPAM!FreeIndices
<1>3. ip = m.Network.base + 2 + idx
  BY DEF IPAM!indexToIP
<1>4. ip \in Addresses
  BY <1>1, <1>2, <1>3, NetFacts DEF Contains
<1>5. x.Network = m.Network /\ x.bitmap = m.bitmap \cup {idx}
  BY DEF IPAM!Take, IPAMs
<1>6. x.IPs = [m.IPs EXCEPT ![k] = ip]
  BY DEF IPAM!Take, IPAMs
<1>7. x = [Network |-> x.Network, bitmap |-> x.bitmap, IPs |-> x.IPs]
  BY DEF IPAM!Take, IPAMs
<1>8. x \in IPAMs
  <2>1. x.bitmap \in SUBSET Nat /\ x.Network \in {Net(q) : q \in Prefixes}
    BY <1>2, <1>5 DEF IPAMs
  <2>2. x.IPs \in [PodKeys -> OrNone(Addresses)]
    BY <1>4, <1>6 DEF IPAMs, OrNone
  <2> QED
    BY <1>7, <2>1, <2>2 DEF IPAMs
<1> QED
  BY <1>1, <1>2, <1>3, <1>4, <1>5, <1>6, <1>8 DEF IsTaken

LEMMA ReleaseType ==
  ASSUME NEW t, NEW m \in IPAMs, NEW ip \in Int, NEW x, x = IPAM(t)!Release(m, ip)
  PROVE  x \in IPAMs /\ IsReleased(m, x, ip)
<1>1. x.Network = m.Network /\ x.bitmap = m.bitmap \ {IPAM(t)!ipToIndex(m.Network, ip)}
  BY DEF IPAM!Release, IPAMs
<1>2. x.IPs = [k \in PodKeys |-> IF m.IPs[k] = ip THEN None ELSE m.IPs[k]]
  BY DEF IPAM!Release, IPAMs
<1>3. x = [Network |-> x.Network, bitmap |-> x.bitmap, IPs |-> x.IPs]
  BY DEF IPAM!Release, IPAMs
<1>4. x.bitmap \in SUBSET Nat /\ x.Network \in {Net(q) : q \in Prefixes} /\ m.bitmap \in SUBSET Nat
  BY <1>1 DEF IPAMs
<1>5. x.IPs \in [PodKeys -> OrNone(Addresses)]
  BY <1>2 DEF IPAMs, OrNone
<1>6. x \in IPAMs
  BY <1>3, <1>4, <1>5 DEF IPAMs
<1>7. IPAM(t)!ipToIndex(m.Network, ip) \in {-1, ip - m.Network.base - 2}
  <2>1. PICK p \in Prefixes : m.Network = Net(p)
    BY DEF IPAMs
  <2> QED
    BY <2>1, NetFacts DEF IPAM!ipToIndex
<1>8. x.bitmap \subseteq m.bitmap /\ m.bitmap \ {ip - m.Network.base - 2} \subseteq x.bitmap
  BY <1>1, <1>4, <1>7
<1> QED
  BY <1>1, <1>2, <1>6, <1>8 DEF IsReleased

LEMMA RebaseType ==
  ASSUME NEW t, NEW m \in IPAMs, NEW p \in Prefixes, IPAM(t)!CanRebase(m, Net(p)),
         NEW x, x = IPAM(t)!Rebase(m, Net(p))
  PROVE  x \in IPAMs /\ IsRebased(m, x, p)
<1>1. x.Network = Net(p) /\ x.IPs = m.IPs
  BY DEF IPAM!Rebase, IPAMs
<1>2. x.bitmap = {IPAM(t)!ipToIndex(Net(p), m.IPs[k]) : k \in IPAM(t)!Held(m)}
  BY DEF IPAM!Rebase, IPAMs
<1>3. x = [Network |-> x.Network, bitmap |-> x.bitmap, IPs |-> x.IPs]
  BY DEF IPAM!Rebase, IPAMs
<1>4. ASSUME NEW k \in PodKeys, m.IPs[k] # None
      PROVE  /\ IPAM(t)!ipToIndex(Net(p), m.IPs[k]) = m.IPs[k] - Net(p).base - 2
             /\ m.IPs[k] - Net(p).base - 2 \in 0 .. Net(p).total - 4
  <2>1. IPAM(t)!ipToIndex(Net(p), m.IPs[k]) >= 0
    BY <1>4 DEF IPAM!CanRebase, IPAM!Held
  <2>2. m.IPs[k] \in Int
    BY <1>4, AddressesAreIntegers DEF IPAMs, OrNone
  <2> QED
    BY <2>1, <2>2, NetFacts DEF IPAM!ipToIndex
<1>5. IPAM(t)!Held(m) = {j \in PodKeys : m.IPs[j] # None}
  BY DEF IPAM!Held
<1>6. x.bitmap = {m.IPs[k] - Net(p).base - 2 : k \in {j \in PodKeys : m.IPs[j] # None}}
  BY <1>2, <1>4, <1>5
<1>7. x.bitmap \in SUBSET Nat
  BY <1>4, <1>6, NetFacts
<1>8. x \in IPAMs
  BY <1>1, <1>3, <1>7 DEF IPAMs
<1> QED
  BY <1>1, <1>4, <1>6, <1>8 DEF IsRebased

LEMMA NewType ==
  ASSUME NEW t, NEW p \in Prefixes
  PROVE  /\ IPAM(t)!NewBitmapIPAM(Net(p)) \in IPAMs
         /\ IPAM(t)!NewBitmapIPAM(Net(p)).Network = Net(p)
         /\ IPAM(t)!NewBitmapIPAM(Net(p)).bitmap = {}
         /\ \A k \in PodKeys : IPAM(t)!NewBitmapIPAM(Net(p)).IPs[k] = None
<1>1. IPAM(t)!NewBitmapIPAM(Net(p)) =
        [Network |-> Net(p), bitmap |-> {}, IPs |-> [k \in PodKeys |-> None]]
  BY DEF IPAM!NewBitmapIPAM
<1>2. [k \in PodKeys |-> None] \in [PodKeys -> OrNone(Addresses)]
  BY DEF OrNone
<1> QED
  BY <1>1, <1>2 DEF IPAMs

(* A record with another IPAM, another gateway or another subnet.          *)
LEMMA WithIPAM ==
  ASSUME NEW r \in Records, NEW m \in IPAMs
  PROVE  LET x == [r EXCEPT !.IPAM = m] IN
         /\ x \in Records /\ x.IPAM = m /\ x.Subnet = r.Subnet /\ x.State = r.State
         /\ x.devices = r.devices /\ x.BridgeIP = r.BridgeIP
BY DEF Records

LEMMA WithBridgeIP ==
  ASSUME NEW r \in Records, NEW ip \in Addresses
  PROVE  LET x == [r EXCEPT !.BridgeIP = ip] IN
         /\ x \in Records /\ x.IPAM = r.IPAM /\ x.Subnet = r.Subnet /\ x.State = r.State
         /\ x.devices = r.devices /\ x.BridgeIP = ip
BY DEF Records

LEMMA WithSubnet ==
  ASSUME NEW r \in Records, NEW p \in Prefixes
  PROVE  LET x == [r EXCEPT !.Subnet = p] IN
         /\ x \in Records /\ x.IPAM = r.IPAM /\ x.Subnet = p /\ x.State = r.State
         /\ x.devices = r.devices /\ x.BridgeIP = r.BridgeIP
BY DEF Records

-----------------------------------------------------------------------------
(* The actor's steps, continued.                                           *)

(* A step that changes the record's IPAM or gateway.                       *)
LEMMA RecordStep ==
  ASSUME IInv, NEW t \in Tenants, actor[t].pc # "off",
         NEW a \in ActorStates, a.pc # "off", NEW r \in Records,
         actor' = [actor EXCEPT ![t] = a], rec' = [rec EXCEPT ![t] = r],
         TenantRecords' = TenantRecords,
         UNCHANGED <<subnetVars, startVars, inbox, disp>>,
         call' \in [Pods -> Requests], link' \in [Tenants -> Links],
         eth' \in [Pods -> OrNone(Interfaces)],
         Fields(t, a),
         a.pc \in Growing => actor[t].pc \in Growing /\ a.net = actor[t].net,
         r.State = rec[t].State, r.devices = rec[t].devices, r.Subnet = rec[t].Subnet,
         r.IPAM.Network = Net(IF a.pc = "record" THEN a.net ELSE r.Subnet)
  PROVE  IInv'
<1>1. /\ TypeOK /\ RecordOK(Phase(disp, t), t \in TenantRecords, actor[t], rec[t])
      /\ SubnetOK(Phase(disp, t), t \in TenantRecords, actor[t], rec[t], AllocMap[t])
      /\ BoxOK(t, inbox[t], Phase(disp, t), actor[t].pc)
  BY TenantFacts
<1>2. t \in TenantRecords
  BY RunningFacts
<1>3. /\ inbox[t] \in Seq(Messages) /\ Len(inbox[t]) <= MailboxSize
      /\ inbox' = [inbox EXCEPT ![t] = inbox[t]]
  BY <1>1 DEF TypeOK
<1>4. Subnet!TypeOK' /\ OthersKeepNodes(t) /\ AllocMap' = AllocMap
  BY <1>1, TrieUnchanged DEF TypeOK
<1>5. RecordOK(Phase(disp, t), TRUE, a, r)
  BY <1>1, <1>2 DEF RecordOK
<1>6. SubnetOK(Phase(disp, t), TRUE, a, r, AllocMap'[t])
  BY <1>1, <1>2, <1>4 DEF SubnetOK
<1>7. BoxOK(t, inbox[t], Phase(disp, t), a.pc)
  BY <1>1 DEF BoxOK, MessageOK
<1>8. UNCHANGED <<startVars, disp>>
  OBVIOUS
<1> QED
  BY <1>3, <1>4, <1>5, <1>6, <1>7, <1>8, ActorStep

LEMMA RefuseInv ==
  ASSUME IInv, NEW t \in Tenants, Refuse(t)
  PROVE  IInv'
<1>1. /\ actor[t].pc = "ensure" /\ Return(t)
      /\ UNCHANGED <<subnetVars, recordVars, startVars, inbox, disp, kernelVars>>
  BY DEF Refuse, Running
<1>2. link' \in [Tenants -> Links] /\ eth' \in [Pods -> OrNone(Interfaces)]
  BY <1>1, TenantFacts DEF TypeOK, kernelVars
<1> QED
  BY <1>1, <1>2, ReturnInv

(* What the invariant says of a running actor's fields.                    *)
LEMMA FieldFacts ==
  ASSUME IInv, NEW t \in Tenants
  PROVE  /\ actor[t] \in ActorStates /\ Fields(t, actor[t])
         /\ actor[t].pc \notin {"off", "loop"} => <<t, actor[t].pod>> \in Pods /\ actor[t].pod \in PodKeys
         /\ actor[t].pc \in {"lookup", "veth"} => actor[t].ip \in Addresses
         /\ actor[t].pc \in Growing => actor[t].net \in Prefixes
<1>1. actor[t] \in ActorStates /\ Fields(t, actor[t])
  BY TenantFacts, TypeFacts
<1>2. ASSUME <<t, actor[t].pod>> \in Pods PROVE actor[t].pod \in PodKeys
  <2>1. <<t, actor[t].pod>> \in Tenants \X PodKeys
    BY <1>2, NMAssumption
  <2> QED
    BY <2>1
<1> QED
  BY <1>1, <1>2 DEF Fields, ActorStates, OrNone

LEMMA AllocateInv ==
  ASSUME IInv, NEW t \in Tenants, Allocate(t)
  PROVE  IInv'
<1>1. /\ actor[t].pc = "ensure"
      /\ UNCHANGED <<subnetVars, TenantRecords, startVars, inbox, disp, call, kernelVars>>
  BY DEF Allocate, Running
<1>3. /\ rec[t] \in Records /\ actor[t] \in ActorStates /\ Fields(t, actor[t])
      /\ <<t, actor[t].pod>> \in Pods /\ actor[t].pod \in PodKeys
  BY <1>1, RunningFacts, FieldFacts
<1>4. PICK m \in IPAMs, k \in PodKeys : m = rec[t].IPAM /\ k = actor[t].pod
  BY <1>3 DEF Records
<1>2. PICK idx \in IPAM(t)!FreeIndices(m) :
        /\ rec' = [rec EXCEPT ![t].IPAM = IPAM(t)!Take(m, k, idx)]
        /\ actor' = [actor EXCEPT ![t].pc = "lookup",
                                  ![t].ip = IPAM(t)!indexToIP(m.Network, idx)]
  BY <1>4 DEF Allocate
<1>5. PICK x : x = IPAM(t)!Take(m, k, idx)
  OBVIOUS
<1>6. PICK ip : ip = IPAM(t)!indexToIP(m.Network, idx)
  OBVIOUS
<1>7. x \in IPAMs /\ x.Network = m.Network /\ ip \in Addresses
  <2>1. x \in IPAMs /\ ip \in Addresses /\ IsTaken(m, x, k, idx, ip)
    BY <1>5, <1>6, TakeType
  <2> QED
    BY <2>1 DEF IsTaken
<1> DEFINE r == [rec[t] EXCEPT !.IPAM = x]
           a == [actor[t] EXCEPT !.pc = "lookup", !.ip = ip]
<1>8. rec' = [rec EXCEPT ![t] = r] /\ actor' = [actor EXCEPT ![t] = a]
  BY <1>2, <1>5, <1>6
<1>9. /\ r \in Records /\ r.IPAM = x /\ r.Subnet = rec[t].Subnet /\ r.State = rec[t].State
      /\ r.devices = rec[t].devices
  BY <1>3, <1>7, WithIPAM
<1>10. a \in ActorStates
  BY <1>3, <1>7 DEF ActorStates, OrNone
<1>11. a.pc = "lookup" /\ a.ip = ip /\ a.pod = actor[t].pod
  BY <1>3 DEF ActorStates
<1> HIDE DEF a, r
<1>12. ip # None
  BY <1>7, AddressesAreIntegers, NMAssumption
<1>13. Fields(t, a) /\ a.pc \notin Growing
  BY <1>3, <1>11, <1>12 DEF Fields, Requesting, Growing
<1>14. r.IPAM.Network = Net(IF a.pc = "record" THEN a.net ELSE r.Subnet)
  <2>1. m.Network = Net(rec[t].Subnet)
    BY <1>1, <1>4, TenantFacts, RunningFacts DEF RecordOK
  <2> QED
    BY <1>7, <1>9, <1>11, <2>1
<1>15. /\ TenantRecords' = TenantRecords /\ UNCHANGED <<subnetVars, startVars, inbox, disp>>
       /\ call' \in [Pods -> Requests]
       /\ link' \in [Tenants -> Links] /\ eth' \in [Pods -> OrNone(Interfaces)]
  BY <1>1, TenantFacts DEF TypeOK, kernelVars
<1>16. actor[t].pc # "off" /\ a.pc # "off"
  BY <1>1, <1>11
<1> QED
  BY <1>8, <1>9, <1>10, <1>13, <1>14, <1>15, <1>16, RecordStep

(* A step of the actor that only moves its program counter.                *)
LEMMA MoveInv ==
  ASSUME IInv, NEW t \in Tenants, NEW pc, Step(t, pc),
         actor[t].pc \notin {"off", "loop", "record"},
         pc \in {"veth", "request", "expand", "vtep", "ipam", "panic"},
         pc = "veth" => actor[t].pc = "lookup",
         pc = "request" => actor[t].attempt < maxRetries,
         pc \in {"expand", "vtep", "ipam"} => actor[t].pc \in Requesting,
         pc \in {"vtep", "ipam"} => actor[t].pc \in Growing,
         UNCHANGED <<subnetVars, recordVars, startVars, inbox, disp, call>>,
         link' \in [Tenants -> Links], eth' \in [Pods -> OrNone(Interfaces)]
  PROVE  IInv'
<1>1. PICK a \in ActorStates :
         /\ actor' = [actor EXCEPT ![t] = a]
         /\ a.pc = pc /\ a.pod = actor[t].pod /\ a.live = actor[t].live
         /\ a.attempt = actor[t].attempt /\ a.ip = actor[t].ip /\ a.net = actor[t].net
  BY StepFacts, TenantFacts
<1>2. a.pc \notin {"off", "record"} /\ Fields(t, a)
  BY <1>1, FieldFacts DEF Fields, Requesting, Growing
<1>3. a.pc \in Growing => actor[t].pc \in Growing /\ a.net = actor[t].net
  BY <1>1 DEF Growing
<1>4. call' \in [Pods -> Requests]
  BY TenantFacts DEF TypeOK
<1>5. UNCHANGED <<subnetVars, recordVars, startVars, inbox, disp>>
  OBVIOUS
<1> QED
  BY <1>1, <1>2, <1>3, <1>4, <1>5, QuietStep

LEMMA ExhaustedInv ==
  ASSUME IInv, NEW t \in Tenants, Exhausted(t)
  PROVE  IInv'
<1>1. /\ actor[t].pc = "ensure"
      /\ UNCHANGED <<subnetVars, recordVars, startVars, inbox, disp, kernelVars>>
  BY DEF Exhausted, Running
<1>2. link' \in [Tenants -> Links] /\ eth' \in [Pods -> OrNone(Interfaces)]
  BY <1>1, TenantFacts DEF TypeOK, kernelVars
<1>3. CASE Return(t)
  BY <1>1, <1>2, <1>3, ReturnInv
<1>4. CASE actor[t].attempt # maxRetries /\ Step(t, "request") /\ UNCHANGED call
  <2>1. actor[t].attempt \in 0 .. maxRetries
    BY FieldFacts DEF ActorStates
  <2>2. actor[t].attempt < maxRetries
    BY <1>4, <2>1 DEF maxRetries
  <2> QED
    BY <1>1, <1>2, <1>4, <2>2, MoveInv
<1> QED
  BY <1>3, <1>4 DEF Exhausted

LEMMA LookupBridgeInv ==
  ASSUME IInv, NEW t \in Tenants, LookupBridge(t)
  PROVE  IInv'
<1>1. /\ actor[t].pc = "lookup"
      /\ UNCHANGED <<subnetVars, recordVars, startVars, inbox, disp, kernelVars>>
  BY DEF LookupBridge, Running
<1>2. link' \in [Tenants -> Links] /\ eth' \in [Pods -> OrNone(Interfaces)]
  BY <1>1, TenantFacts DEF TypeOK, kernelVars
<1>3. CASE Return(t)
  BY <1>1, <1>2, <1>3, ReturnInv
<1>4. CASE Step(t, "veth") /\ UNCHANGED call
  BY <1>1, <1>2, <1>4, MoveInv
<1> QED
  BY <1>3, <1>4 DEF LookupBridge

LEMMA InterfaceType ==
  ASSUME IInv, NEW t \in Tenants, actor[t].pc = "veth"
  PROVE  Interface(t) \in Interfaces
<1>1. actor[t].ip \in Addresses /\ rec[t] \in Records
  BY FieldFacts, RunningFacts
<1> QED
  BY <1>1 DEF Interface, Interfaces, Records, OrNone

LEMMA SetupVethInv ==
  ASSUME IInv, NEW t \in Tenants, SetupVeth(t)
  PROVE  IInv'
<1>1. /\ actor[t].pc = "veth" /\ Return(t)
      /\ UNCHANGED <<subnetVars, TenantRecords, startVars, inbox, disp, link>>
  BY DEF SetupVeth, Running
<1>2. TypeOK /\ link' \in [Tenants -> Links]
  BY <1>1, TenantFacts DEF TypeOK
<1>3. CASE UNCHANGED rec /\ eth' = [eth EXCEPT ![<<t, actor[t].pod>>] = Interface(t)]
  <2>1. Interface(t) \in OrNone(Interfaces)
    BY <1>1, InterfaceType DEF OrNone
  <2>2. eth' \in [Pods -> OrNone(Interfaces)]
    BY <1>2, <1>3, <2>1 DEF TypeOK
  <2>3. UNCHANGED <<subnetVars, recordVars, startVars, inbox, disp>>
    BY <1>1, <1>3 DEF recordVars
  <2> QED
    BY <1>1, <1>2, <2>2, <2>3, ReturnInv
<1>4. CASE rec' = [rec EXCEPT ![t].IPAM = IPAM(t)!Release(@, actor[t].ip)] /\ UNCHANGED eth
  <2>1. rec[t] \in Records /\ actor[t].ip \in Addresses
    BY <1>1, RunningFacts, FieldFacts
  <2>2. PICK m \in IPAMs, ip \in Int : m = rec[t].IPAM /\ ip = actor[t].ip
    BY <2>1, AddressesAreIntegers DEF Records
  <2>3. PICK x : x = IPAM(t)!Release(m, ip)
    OBVIOUS
  <2>4. x \in IPAMs /\ x.Network = m.Network
    <3>1. x \in IPAMs /\ IsReleased(m, x, ip)
      BY <2>3, ReleaseType
    <3> QED
      BY <3>1 DEF IsReleased
  <2> DEFINE r == [rec[t] EXCEPT !.IPAM = x]
  <2>5. rec' = [rec EXCEPT ![t] = r]
    BY <1>4, <2>2, <2>3
  <2>6. /\ r \in Records /\ r.IPAM = x /\ r.Subnet = rec[t].Subnet /\ r.State = rec[t].State
        /\ r.devices = rec[t].devices
    BY <2>1, <2>4, WithIPAM
  <2> HIDE DEF r
  <2>7. m.Network = Net(rec[t].Subnet)
    BY <1>1, <2>2, TenantFacts, RunningFacts DEF RecordOK
  <2>8. actor' = [actor EXCEPT ![t] = Loop] /\ call' \in [Pods -> Requests]
    BY <1>1, <1>2, AnswerType DEF Return
  <2>9. /\ Loop \in ActorStates /\ Loop.pc # "off" /\ Fields(t, Loop) /\ Loop.pc \notin Growing
        /\ r.IPAM.Network = Net(IF Loop.pc = "record" THEN Loop.net ELSE r.Subnet)
    BY <2>4, <2>6, <2>7, LoopFacts DEF Growing
  <2>10. eth' \in [Pods -> OrNone(Interfaces)] /\ actor[t].pc # "off"
    BY <1>1, <1>2, <1>4 DEF TypeOK
  <2>11. TenantRecords' = TenantRecords /\ UNCHANGED <<subnetVars, startVars, inbox, disp>>
    BY <1>1
  <2> QED
    BY <1>2, <2>5, <2>6, <2>8, <2>9, <2>10, <2>11, RecordStep
<1> QED
  BY <1>3, <1>4 DEF SetupVeth

LEMMA RequestExpansionInv ==
  ASSUME IInv, NEW t \in Tenants, RequestExpansion(t)
  PROVE  IInv'
<1>1. /\ actor[t].pc = "request"
      /\ UNCHANGED <<subnetVars, recordVars, startVars, inbox, disp, kernelVars>>
  BY DEF RequestExpansion, Running
<1>2. link' \in [Tenants -> Links] /\ eth' \in [Pods -> OrNone(Interfaces)]
  BY <1>1, TenantFacts DEF TypeOK, kernelVars
<1>3. CASE Return(t)
  BY <1>1, <1>2, <1>3, ReturnInv
<1>4. CASE Step(t, "expand") /\ UNCHANGED call
  BY <1>1, <1>2, <1>4, MoveInv DEF Requesting
<1> QED
  BY <1>3, <1>4 DEF RequestExpansion

(* Subnet.Expand: the new node is larger than the record's subnet.         *)
LEMMA ExpandSubnetInv ==
  ASSUME IInv, NEW t \in Tenants, ExpandSubnet(t)
  PROVE  IInv'
<1>1. /\ actor[t].pc = "expand"
      /\ UNCHANGED <<recordVars, startVars, inbox, disp, kernelVars>>
  BY DEF ExpandSubnet, Running
<1>2. TypeOK /\ Subnet!TypeOK
  BY TenantFacts DEF TypeOK
<1>3. link' \in [Tenants -> Links] /\ eth' \in [Pods -> OrNone(Interfaces)]
  BY <1>1, <1>2 DEF TypeOK, kernelVars
<1>4. CASE Return(t) /\ UNCHANGED subnetVars
  BY <1>1, <1>3, <1>4, ReturnInv
<1>5. CASE /\ Subnet!Expand(t)
           /\ actor' = [actor EXCEPT ![t].pc = "bridge", ![t].net = AllocMap'[t]]
           /\ UNCHANGED call
  <2>1. /\ Subnet!TypeOK' /\ OthersKeepNodes(t)
        /\ AllocMap[t] \in Prefixes /\ AllocMap'[t] \in Prefixes
        /\ AllocMap[t] \subseteq AllocMap'[t] /\ AllocMap[t] # AllocMap'[t]
    BY <1>2, <1>5, TrieExpand
  <2>2. PICK n \in Prefixes : n = AllocMap'[t]
    BY <2>1
  <2>3. t \in TenantRecords /\ rec[t] \in Records /\ actor[t] \in ActorStates /\ Fields(t, actor[t])
    BY <1>1, RunningFacts, FieldFacts
  <2> DEFINE a == [actor[t] EXCEPT !.pc = "bridge", !.net = n]
  <2>4. actor' = [actor EXCEPT ![t] = a]
    BY <1>5, <2>2
  <2>5. a \in ActorStates
    BY <2>3 DEF ActorStates, OrNone
  <2>6. a.pc = "bridge" /\ a.net = n /\ a.pod = actor[t].pod /\ a.attempt = actor[t].attempt
    BY <2>3 DEF ActorStates
  <2> HIDE DEF a
  <2>7. Fields(t, a)
    BY <1>1, <2>3, <2>6, NoneAssumption DEF Fields, Requesting, Growing
  <2>8. /\ RecordOK(Phase(disp, t), t \in TenantRecords, actor[t], rec[t])
        /\ SubnetOK(Phase(disp, t), t \in TenantRecords, actor[t], rec[t], AllocMap[t])
        /\ BoxOK(t, inbox[t], Phase(disp, t), actor[t].pc)
    BY TenantFacts
  <2>9. Phase(disp, t) \notin Released
    BY <2>1, <2>8, TrieExpand, <1>2, <1>5, NoneAssumption DEF SubnetOK
  <2>10. rec[t].Subnet \subseteq AllocMap[t]
    BY <2>3, <2>8, <2>9 DEF SubnetOK
  <2>11. rec[t].Subnet \subseteq n /\ rec[t].Subnet # n
    BY <2>1, <2>2, <2>10
  <2>12. RecordOK(Phase(disp, t), TRUE, a, rec[t])
    BY <1>1, <2>3, <2>6, <2>8, <2>11 DEF RecordOK
  <2>13. SubnetOK(Phase(disp, t), TRUE, a, rec[t], AllocMap'[t])
    <3>1. Phase(disp, t) # "subnet"
      BY <1>1, RunningFacts DEF Removing
    <3> QED
      BY <2>2, <2>6, <2>9, <2>11, <3>1, NoneAssumption DEF SubnetOK
  <2>14. BoxOK(t, inbox[t], Phase(disp, t), a.pc)
    BY <1>1, <2>6, <2>8 DEF BoxOK, MessageOK
  <2>15. /\ inbox[t] \in Seq(Messages) /\ Len(inbox[t]) <= MailboxSize
         /\ rec' = [rec EXCEPT ![t] = rec[t]] /\ inbox' = [inbox EXCEPT ![t] = inbox[t]]
         /\ TenantRecords' = TenantRecords /\ UNCHANGED <<startVars, disp>>
         /\ call' \in [Pods -> Requests]
    BY <1>1, <1>2, <1>5 DEF TypeOK, recordVars
  <2>16. actor[t].pc # "off" /\ a.pc # "off"
    BY <1>1, <2>6
  <2> QED
    BY <1>3, <2>1, <2>3, <2>4, <2>5, <2>7, <2>12, <2>13, <2>14, <2>15, <2>16, ActorStep
<1> QED
  BY <1>4, <1>5 DEF ExpandSubnet

(* A link with other addresses.                                            *)
LEMMA LinkType ==
  ASSUME TypeOK, NEW t \in Tenants, NEW S \in OrNone(SUBSET Addresses)
  PROVE  /\ [link EXCEPT ![t].bridge = S] \in [Tenants -> Links]
         /\ [link EXCEPT ![t].vtep = S] \in [Tenants -> Links]
         /\ link[t].vtep # None => link[t].vtep \in SUBSET Addresses
         /\ link[t].bridge # None => link[t].bridge \in SUBSET Addresses
<1>1. link \in [Tenants -> Links] /\ link[t] \in Links
  BY DEF TypeOK
<1>2. [link[t] EXCEPT !.bridge = S] \in Links /\ [link[t] EXCEPT !.vtep = S] \in Links
  BY <1>1 DEF Links
<1>3. /\ link[t].vtep # None => link[t].vtep \in SUBSET Addresses
      /\ link[t].bridge # None => link[t].bridge \in SUBSET Addresses
  BY <1>1 DEF Links, OrNone
<1> QED
  BY <1>1, <1>2, <1>3

LEMMA UpdateBridgeInv ==
  ASSUME IInv, NEW t \in Tenants, UpdateBridge(t)
  PROVE  IInv'
<1>1. /\ actor[t].pc = "bridge" /\ actor[t].pc \in Growing /\ actor[t].pc # "off"
      /\ UNCHANGED <<subnetVars, TenantRecords, startVars, inbox, disp, eth>>
  BY DEF UpdateBridge, Running, Growing
<1>2. TypeOK /\ eth' \in [Pods -> OrNone(Interfaces)]
  BY <1>1, TenantFacts DEF TypeOK
<1>3. actor[t].net \in Prefixes /\ rec[t] \in Records
  BY <1>1, FieldFacts, RunningFacts
<1>4. CASE /\ link' = [link EXCEPT ![t].bridge = {FirstIP(actor[t].net)}]
           /\ rec' = [rec EXCEPT ![t].BridgeIP = FirstIP(actor[t].net)]
           /\ Step(t, "vtep")
           /\ UNCHANGED call
  <2>1. PICK ip \in Addresses : ip = FirstIP(actor[t].net)
    BY <1>3, NetFacts
  <2>2. {ip} \in OrNone(SUBSET Addresses)
    BY DEF OrNone
  <2>3. link' \in [Tenants -> Links]
    BY <1>2, <1>4, <2>1, <2>2, LinkType
  <2>4. PICK a \in ActorStates :
         /\ actor' = [actor EXCEPT ![t] = a]
         /\ a.pc = "vtep" /\ a.pod = actor[t].pod /\ a.live = actor[t].live
         /\ a.attempt = actor[t].attempt /\ a.ip = actor[t].ip /\ a.net = actor[t].net
    BY <1>2, <1>4, StepFacts
  <2> DEFINE r == [rec[t] EXCEPT !.BridgeIP = ip]
  <2>5. rec' = [rec EXCEPT ![t] = r]
    BY <1>4, <2>1
  <2>6. /\ r \in Records /\ r.IPAM = rec[t].IPAM /\ r.Subnet = rec[t].Subnet /\ r.State = rec[t].State
        /\ r.devices = rec[t].devices
    BY <1>3, WithBridgeIP
  <2> HIDE DEF r
  <2>7. Fields(t, a) /\ a.pc # "off" /\ (a.pc \in Growing => actor[t].pc \in Growing /\ a.net = actor[t].net)
    BY <1>1, <2>4, FieldFacts DEF Fields, Requesting, Growing
  <2>8. r.IPAM.Network = Net(IF a.pc = "record" THEN a.net ELSE r.Subnet)
    BY <1>1, <2>4, <2>6, TenantFacts, RunningFacts DEF RecordOK
  <2>9. /\ TenantRecords' = TenantRecords /\ UNCHANGED <<subnetVars, startVars, inbox, disp>>
        /\ call' \in [Pods -> Requests]
    BY <1>1, <1>2, <1>4 DEF TypeOK
  <2> QED
    BY <1>1, <1>2, <2>3, <2>4, <2>5, <2>6, <2>7, <2>8, <2>9, RecordStep
<1>5. CASE link' \in [Tenants -> Links] /\ Return(t) /\ UNCHANGED rec
  <2>1. UNCHANGED <<subnetVars, recordVars, startVars, inbox, disp>>
    BY <1>1, <1>5 DEF recordVars
  <2> QED
    BY <1>1, <1>2, <1>5, <2>1, ReturnInv
<1>6. ASSUME link' = [link EXCEPT ![t].bridge = {}] PROVE link' \in [Tenants -> Links]
  BY <1>2, <1>6, LinkType DEF OrNone
<1>7. ASSUME UNCHANGED link PROVE link' \in [Tenants -> Links]
  BY <1>2, <1>7 DEF TypeOK
<1> QED
  BY <1>4, <1>5, <1>6, <1>7 DEF UpdateBridge

LEMMA UpdateVtepInv ==
  ASSUME IInv, NEW t \in Tenants, UpdateVtep(t)
  PROVE  IInv'
<1>1. /\ actor[t].pc = "vtep" /\ actor[t].pc \in Growing /\ actor[t].pc \in Requesting
      /\ UNCHANGED <<subnetVars, recordVars, startVars, inbox, disp, eth>>
  BY DEF UpdateVtep, Running, Growing, Requesting
<1>2. TypeOK /\ eth' \in [Pods -> OrNone(Interfaces)]
  BY <1>1, TenantFacts DEF TypeOK
<1>3. CASE /\ link[t].vtep # None
           /\ link' = [link EXCEPT ![t].vtep = @ \cup {HostIP(actor[t].net)}]
           /\ Step(t, "ipam") /\ UNCHANGED call
  <2>1. HostIP(actor[t].net) \in Addresses
    BY <1>1, FieldFacts, NetFacts
  <2>2. link[t].vtep \cup {HostIP(actor[t].net)} \in OrNone(SUBSET Addresses)
    BY <1>2, <1>3, <2>1, LinkType DEF OrNone
  <2>3. link' \in [Tenants -> Links]
    BY <1>2, <1>3, <2>2, LinkType
  <2>4. UNCHANGED <<subnetVars, recordVars, startVars, inbox, disp, call>>
    BY <1>1, <1>3
  <2> QED
    BY <1>1, <1>2, <1>3, <2>3, <2>4, MoveInv
<1>4. CASE Return(t) /\ UNCHANGED link
  <2>1. link' \in [Tenants -> Links] /\ UNCHANGED <<subnetVars, recordVars, startVars, inbox, disp>>
    BY <1>1, <1>2, <1>4 DEF TypeOK
  <2> QED
    BY <1>1, <1>2, <1>4, <2>1, ReturnInv
<1>5. CASE Step(t, "panic") /\ UNCHANGED <<link, call>>
  <2>1. link' \in [Tenants -> Links] /\ UNCHANGED <<subnetVars, recordVars, startVars, inbox, disp, call>>
    BY <1>1, <1>2, <1>5 DEF TypeOK
  <2> QED
    BY <1>1, <1>2, <1>5, <2>1, MoveInv
<1> QED
  BY <1>3, <1>4, <1>5 DEF UpdateVtep

LEMMA ExpandIPAMInv ==
  ASSUME IInv, NEW t \in Tenants, ExpandIPAM(t)
  PROVE  IInv'
<1>1. /\ actor[t].pc = "ipam" /\ actor[t].pc \in Growing /\ actor[t].pc # "off"
      /\ UNCHANGED <<subnetVars, TenantRecords, startVars, inbox, disp, kernelVars>>
  BY DEF ExpandIPAM, Running, Growing
<1>2. TypeOK /\ link' \in [Tenants -> Links] /\ eth' \in [Pods -> OrNone(Interfaces)]
  BY <1>1, TenantFacts DEF TypeOK, kernelVars
<1>3. actor[t].net \in Prefixes /\ rec[t] \in Records
  BY <1>1, FieldFacts, RunningFacts
<1>4. PICK m \in IPAMs, n \in Prefixes : m = rec[t].IPAM /\ n = actor[t].net
  BY <1>3 DEF Records
<1>5. CASE /\ IPAM(t)!CanRebase(m, Net(n))
           /\ rec' = [rec EXCEPT ![t].IPAM = IPAM(t)!Rebase(m, Net(n))]
           /\ Step(t, "record")
           /\ UNCHANGED call
  <2>1. PICK x : x = IPAM(t)!Rebase(m, Net(n))
    OBVIOUS
  <2>2. x \in IPAMs /\ x.Network = Net(n)
    <3>1. x \in IPAMs /\ IsRebased(m, x, n)
      BY <1>5, <2>1, RebaseType
    <3> QED
      BY <3>1 DEF IsRebased
  <2>4. PICK a \in ActorStates :
         /\ actor' = [actor EXCEPT ![t] = a]
         /\ a.pc = "record" /\ a.pod = actor[t].pod /\ a.live = actor[t].live
         /\ a.attempt = actor[t].attempt /\ a.ip = actor[t].ip /\ a.net = actor[t].net
    BY <1>2, <1>5, StepFacts
  <2> DEFINE r == [rec[t] EXCEPT !.IPAM = x]
  <2>5. rec' = [rec EXCEPT ![t] = r]
    BY <1>5, <2>1
  <2>6. /\ r \in Records /\ r.IPAM = x /\ r.Subnet = rec[t].Subnet /\ r.State = rec[t].State
        /\ r.devices = rec[t].devices
    BY <1>3, <2>2, WithIPAM
  <2> HIDE DEF r
  <2>7. Fields(t, a) /\ a.pc # "off" /\ (a.pc \in Growing => actor[t].pc \in Growing /\ a.net = actor[t].net)
    BY <1>1, <2>4, FieldFacts DEF Fields, Requesting, Growing
  <2>8. r.IPAM.Network = Net(IF a.pc = "record" THEN a.net ELSE r.Subnet)
    BY <1>4, <2>2, <2>4, <2>6
  <2>9. /\ TenantRecords' = TenantRecords /\ UNCHANGED <<subnetVars, startVars, inbox, disp>>
        /\ call' \in [Pods -> Requests]
    BY <1>1, <1>2, <1>5 DEF TypeOK
  <2> QED
    BY <1>1, <1>2, <2>4, <2>5, <2>6, <2>7, <2>8, <2>9, RecordStep
<1>6. CASE Return(t) /\ UNCHANGED rec
  <2>1. UNCHANGED <<subnetVars, recordVars, startVars, inbox, disp>>
    BY <1>1, <1>6 DEF recordVars
  <2> QED
    BY <1>1, <1>2, <1>6, <2>1, ReturnInv
<1> QED
  BY <1>4, <1>5, <1>6 DEF ExpandIPAM

(* The record takes over the new subnet, which the IPAM has already.       *)
LEMMA ExpandRecordInv ==
  ASSUME IInv, NEW t \in Tenants, ExpandRecord(t)
  PROVE  IInv'
<1>1. /\ actor[t].pc = "record" /\ actor[t].pc \in Growing /\ actor[t].pc # "off"
      /\ rec' = [rec EXCEPT ![t].Subnet = actor[t].net]
      /\ TenantRecords' = TenantRecords \cup {t} /\ Step(t, "reconcile")
      /\ UNCHANGED <<subnetVars, startVars, inbox, call, disp, kernelVars>>
  BY DEF ExpandRecord, Running, Growing
<1>2. TypeOK
  BY TenantFacts
<1>3. t \in TenantRecords /\ rec[t] \in Records
  BY <1>1, RunningFacts
<1>4. PICK n \in Prefixes : n = actor[t].net
  BY <1>1, FieldFacts
<1>5. PICK a \in ActorStates :
         /\ actor' = [actor EXCEPT ![t] = a]
         /\ a.pc = "reconcile" /\ a.pod = actor[t].pod /\ a.live = actor[t].live
         /\ a.attempt = actor[t].attempt /\ a.ip = actor[t].ip /\ a.net = actor[t].net
  BY <1>1, <1>2, StepFacts
<1> DEFINE r == [rec[t] EXCEPT !.Subnet = n]
<1>6. rec' = [rec EXCEPT ![t] = r]
  BY <1>1, <1>4
<1>7. /\ r \in Records /\ r.IPAM = rec[t].IPAM /\ r.Subnet = n /\ r.State = rec[t].State
      /\ r.devices = rec[t].devices
  BY <1>3, WithSubnet
<1> HIDE DEF r
<1>8. Fields(t, a) /\ a.pc # "off" /\ a.pc \notin Growing /\ a.pc # "record"
  BY <1>1, <1>5, FieldFacts DEF Fields, Requesting, Growing
<1>9. /\ RecordOK(Phase(disp, t), t \in TenantRecords, actor[t], rec[t])
      /\ SubnetOK(Phase(disp, t), t \in TenantRecords, actor[t], rec[t], AllocMap[t])
      /\ BoxOK(t, inbox[t], Phase(disp, t), actor[t].pc)
  BY TenantFacts
<1>10. Subnet!TypeOK' /\ OthersKeepNodes(t) /\ AllocMap' = AllocMap
  BY <1>1, <1>2, TrieUnchanged DEF TypeOK
<1>11. RecordOK(Phase(disp, t), TRUE, a, r)
  BY <1>1, <1>3, <1>4, <1>7, <1>8, <1>9 DEF RecordOK
<1>12. SubnetOK(Phase(disp, t), TRUE, a, r, AllocMap'[t])
  BY <1>1, <1>3, <1>4, <1>7, <1>8, <1>9, <1>10 DEF SubnetOK
<1>13. BoxOK(t, inbox[t], Phase(disp, t), a.pc)
  BY <1>1, <1>8, <1>9 DEF BoxOK, MessageOK
<1>14. /\ inbox[t] \in Seq(Messages) /\ Len(inbox[t]) <= MailboxSize
       /\ inbox' = [inbox EXCEPT ![t] = inbox[t]]
       /\ TenantRecords' = TenantRecords /\ UNCHANGED <<startVars, disp>>
       /\ call' \in [Pods -> Requests] /\ link' \in [Tenants -> Links]
       /\ eth' \in [Pods -> OrNone(Interfaces)]
  BY <1>1, <1>2, <1>3 DEF TypeOK, kernelVars
<1> QED
  BY <1>1, <1>5, <1>6, <1>7, <1>8, <1>10, <1>11, <1>12, <1>13, <1>14, ActorStep

(* What UpdatePod may leave of an interface is an interface.               *)
LEMMA UpdateType ==
  ASSUME TypeOK, NEW t \in Tenants, rec[t] \in Records, NEW p \in Pods, eth[p] # None,
         NEW e \in UpdateOutcomes(t, p)
  PROVE  e \in Interfaces
<1>1. eth[p] \in Interfaces
  BY DEF TypeOK, OrNone
<1>2. rec[t].IPAM.IPs[p[2]] \in OrNone(Addresses)
  <2>1. p[2] \in PodKeys
    BY NMAssumption
  <2> QED
    BY <2>1 DEF Records, IPAMs
<1>3. Updated(t, p) \in Interfaces
  BY <1>2 DEF Updated, Records, Interfaces, OrNone
<1>4. [eth[p] EXCEPT !.ip = None, !.gw = None] \in Interfaces
  BY <1>1 DEF Interfaces, OrNone
<1>5. [Updated(t, p) EXCEPT !.gw = None] \in Interfaces
  BY <1>3 DEF Interfaces, OrNone
<1> QED
  BY <1>1, <1>3, <1>4, <1>5 DEF UpdateOutcomes

LEMMA AgainFacts ==
  ASSUME IInv, NEW t \in Tenants, actor[t].pc = "reconcile", Again(t)
  PROVE  \E a \in ActorStates :
           /\ actor' = [actor EXCEPT ![t] = a]
           /\ a.pc = "ensure" /\ a.pod = actor[t].pod /\ a.live = actor[t].live
           /\ a.attempt = actor[t].attempt + 1 /\ a.ip = actor[t].ip /\ a.net = None
<1> DEFINE a == [actor[t] EXCEPT !.pc = "ensure", !.attempt = actor[t].attempt + 1, !.net = None]
<1>1. actor[t] \in ActorStates /\ actor[t].attempt < maxRetries
  BY FieldFacts DEF Fields, Requesting
<1>2. actor[t].attempt \in 0 .. maxRetries
  BY <1>1 DEF ActorStates
<1>3. actor[t].attempt + 1 \in 0 .. maxRetries
  BY <1>1, <1>2 DEF maxRetries
<1>4. a \in ActorStates
  BY <1>1, <1>3 DEF ActorStates, OrNone
<1>5. /\ a.pc = "ensure" /\ a.pod = actor[t].pod /\ a.live = actor[t].live
      /\ a.attempt = actor[t].attempt + 1 /\ a.ip = actor[t].ip /\ a.net = None
  BY <1>1 DEF ActorStates
<1>6. actor' = [actor EXCEPT ![t] = a]
  BY DEF Again
<1> HIDE DEF a
<1> QED
  BY <1>4, <1>5, <1>6

LEMMA ReconcilePodsInv ==
  ASSUME IInv, NEW t \in Tenants, ReconcilePods(t)
  PROVE  IInv'
<1> DEFINE listed == {p \in Pods : p[1] = t /\ rec[t].IPAM.IPs[p[2]] # None /\ eth[p] # None}
<1>1. /\ actor[t].pc = "reconcile" /\ Again(t)
      /\ UNCHANGED <<subnetVars, recordVars, startVars, inbox, call, disp, link>>
  BY DEF ReconcilePods, Running
<1>2. PICK f \in [listed -> UNION {UpdateOutcomes(t, p) : p \in listed}] :
       /\ \A p \in listed : f[p] \in UpdateOutcomes(t, p)
       /\ eth' = [p \in Pods |-> IF p \in listed THEN f[p] ELSE eth[p]]
  BY DEF ReconcilePods
<1>3. TypeOK /\ rec[t] \in Records
  BY <1>1, TenantFacts, RunningFacts
<1>4. \A p \in listed : p \in Pods /\ eth[p] # None
  OBVIOUS
<1> HIDE DEF listed
<1>5. \A p \in listed : f[p] \in Interfaces
  BY <1>2, <1>3, <1>4, UpdateType
<1>6. eth' \in [Pods -> OrNone(Interfaces)]
  BY <1>2, <1>3, <1>5 DEF TypeOK, OrNone
<1>7. PICK a \in ActorStates :
           /\ actor' = [actor EXCEPT ![t] = a]
           /\ a.pc = "ensure" /\ a.pod = actor[t].pod /\ a.live = actor[t].live
           /\ a.attempt = actor[t].attempt + 1 /\ a.ip = actor[t].ip /\ a.net = None
  BY <1>1, AgainFacts
<1>8. Fields(t, a) /\ a.pc \notin Growing
  BY <1>1, <1>7, FieldFacts DEF Fields, Requesting, Growing
<1>9. /\ call' \in [Pods -> Requests] /\ link' \in [Tenants -> Links]
      /\ UNCHANGED <<subnetVars, recordVars, startVars, inbox, disp>>
  BY <1>1, <1>3 DEF TypeOK
<1> QED
  BY <1>1, <1>6, <1>7, <1>8, <1>9, QuietStep

LEMMA TornReadInv ==
  ASSUME IInv, NEW t \in Tenants, TornRead(t)
  PROVE  IInv'
<1>1. /\ actor[t].pc \in {"lookup", "bridge", "reconcile"} /\ Step(t, "panic")
      /\ UNCHANGED <<subnetVars, recordVars, startVars, inbox, call, disp, kernelVars>>
  BY DEF TornRead
<1>2. link' \in [Tenants -> Links] /\ eth' \in [Pods -> OrNone(Interfaces)]
  BY <1>1, TenantFacts DEF TypeOK, kernelVars
<1> QED
  BY <1>1, <1>2, MoveInv

(* Every step of an actor.                                                 *)
LEMMA ActorInv ==
  ASSUME IInv, NEW t \in Tenants, Actor(t)
  PROVE  IInv'
BY ReceiveEnsureInv, ReceiveRemoveInv, ReceiveStopInv, RefuseInv, AllocateInv, ExhaustedInv,
   LookupBridgeInv, SetupVethInv, RequestExpansionInv, ExpandSubnetInv, UpdateBridgeInv,
   UpdateVtepInv, ExpandIPAMInv, ExpandRecordInv, ReconcilePodsInv, TornReadInv DEF Actor

-----------------------------------------------------------------------------
(* The dispatcher's steps.                                                 *)

(* A step of the dispatcher for tenant t.                                  *)
LEMMA DispStep ==
  ASSUME IInv, NEW t \in Tenants, disp.t \in {t, None},
         NEW d \in DispatcherStates, d.t \in {t, None}, DispOK(d), disp' = d,
         NEW ta \in Nat, NEW st \in 0 .. MaxStarts, NEW a \in ActorStates,
         NEW r \in OrNone(Records), NEW box \in Seq(Messages), Len(box) <= MailboxSize,
         TenantActors' = [TenantActors EXCEPT ![t] = ta], starts' = [starts EXCEPT ![t] = st],
         actor' = [actor EXCEPT ![t] = a], rec' = [rec EXCEPT ![t] = r],
         inbox' = [inbox EXCEPT ![t] = box],
         TenantRecords' \in {TenantRecords, TenantRecords \cup {t}, TenantRecords \ {t}},
         t \in TenantRecords' => r # None,
         Subnet!TypeOK', OthersKeepNodes(t),
         call' \in [Pods -> Requests], link' \in [Tenants -> Links],
         eth' \in [Pods -> OrNone(Interfaces)],
         TenantOK(t, Phase(d, t), t \in TenantRecords', ta, st, a, r, AllocMap'[t], box)
  PROVE  IInv'
<1>1. TypeOK
  BY TenantFacts
<1>2. /\ TenantActors'[t] = ta /\ starts'[t] = st /\ actor'[t] = a /\ rec'[t] = r /\ inbox'[t] = box
      /\ \A u \in Tenants : u # t =>
           /\ TenantActors'[u] = TenantActors[u] /\ starts'[u] = starts[u]
           /\ actor'[u] = actor[u] /\ rec'[u] = rec[u] /\ inbox'[u] = inbox[u]
  BY <1>1 DEF TypeOK
<1>3. TenantRecords' \subseteq Tenants /\ \A u \in Tenants : u # t => (u \in TenantRecords' <=> u \in TenantRecords)
  BY <1>1 DEF TypeOK
<1>4. \A u \in Tenants : u # t => Phase(disp', u) = Phase(disp, u)
  BY NoneAssumption DEF Phase
<1>5. TypeOK'
  <2>1. rec' \in [Tenants -> OrNone(Records)] /\ \A u \in TenantRecords' : rec'[u] # None
    BY <1>1, <1>2, <1>3 DEF TypeOK
  <2>2. actor' \in [Tenants -> ActorStates]
    BY <1>1 DEF TypeOK
  <2>3. inbox' \in [Tenants -> Seq(Messages)] /\ \A u \in Tenants : Len(inbox'[u]) <= MailboxSize
    BY <1>1, <1>2 DEF TypeOK
  <2>4. TenantActors' \in [Tenants -> Nat] /\ starts' \in [Tenants -> 0 .. MaxStarts]
    BY <1>1 DEF TypeOK
  <2> QED
    BY <1>3, <2>1, <2>2, <2>3, <2>4 DEF TypeOK
<1>6. SameBut(t)
  BY <1>2, <1>3, <1>4 DEF SameBut, OthersKeepNodes
<1>7. Here(t)'
  BY <1>2 DEF Here
<1> QED
  BY <1>5, <1>6, <1>7, OneTenant

(* One that leaves record, actor and mailbox alone.                        *)
LEMMA DispMove ==
  ASSUME IInv, NEW t \in Tenants, disp.t \in {t, None},
         NEW d \in DispatcherStates, d.t \in {t, None}, DispOK(d), disp' = d,
         UNCHANGED <<recordVars, startVars, actorVars>>,
         Subnet!TypeOK', OthersKeepNodes(t),
         link' \in [Tenants -> Links], eth' \in [Pods -> OrNone(Interfaces)],
         Phase(disp, t) # "ack",
         Life(Phase(d, t), t \in TenantRecords, TenantActors[t], actor[t].pc),
         RecordOK(Phase(d, t), t \in TenantRecords, actor[t], rec[t]),
         SubnetOK(Phase(d, t), t \in TenantRecords, actor[t], rec[t], AllocMap'[t]),
         StartsOK(Phase(d, t), starts[t])
  PROVE  IInv'
<1>1. /\ TypeOK /\ Fields(t, actor[t]) /\ BoxOK(t, inbox[t], Phase(disp, t), actor[t].pc)
  BY TenantFacts
<1>2. BoxOK(t, inbox[t], Phase(d, t), actor[t].pc)
  BY <1>1 DEF BoxOK, MessageOK
<1>3. /\ TenantRecords' = TenantRecords /\ rec' = rec /\ TenantActors' = TenantActors
      /\ starts' = starts /\ actor' = actor /\ inbox' = inbox /\ call' = call
  BY DEF recordVars, startVars, actorVars
<1>4. TenantOK(t, Phase(d, t), t \in TenantRecords, TenantActors[t], starts[t], actor[t], rec[t],
               AllocMap'[t], inbox[t])
  BY <1>1, <1>2 DEF TenantOK
<1>5. /\ TenantActors[t] \in Nat /\ starts[t] \in 0 .. MaxStarts /\ actor[t] \in ActorStates
      /\ rec[t] \in OrNone(Records) /\ inbox[t] \in Seq(Messages) /\ Len(inbox[t]) <= MailboxSize
      /\ TenantActors' = [TenantActors EXCEPT ![t] = TenantActors[t]]
      /\ starts' = [starts EXCEPT ![t] = starts[t]]
      /\ actor' = [actor EXCEPT ![t] = actor[t]] /\ rec' = [rec EXCEPT ![t] = rec[t]]
      /\ inbox' = [inbox EXCEPT ![t] = inbox[t]]
      /\ t \in TenantRecords => rec[t] # None
  BY <1>1, <1>3 DEF TypeOK
<1>6. call' \in [Pods -> Requests]
  BY <1>1, <1>3 DEF TypeOK
<1> QED
  BY <1>3, <1>4, <1>5, <1>6, DispStep

(* The tenant of the command in progress, and the next states.             *)
LEMMA DispFacts ==
  ASSUME IInv, disp.pc # "idle"
  PROVE  /\ disp.t \in Tenants /\ Phase(disp, disp.t) = disp.pc
         /\ Here(disp.t)
<1>1. disp \in DispatcherStates /\ DispOK(disp)
  BY DEF IInv, TypeOK
<1>2. disp.t \in Tenants
  BY <1>1 DEF DispatcherStates, DispOK, OrNone
<1> QED
  BY <1>2 DEF Phase, IInv, Here

LEMMA IdleFacts ==
  ASSUME NEW t \in Tenants
  PROVE  Idle \in DispatcherStates /\ Idle.t = None /\ DispOK(Idle) /\ Phase(Idle, t) = "idle"
BY NoneAssumption DEF Idle, DispatcherStates, DispOK, Phase, OrNone

LEMMA GotoFacts ==
  ASSUME IInv, NEW t \in Tenants, disp.t = t, NEW pc, Goto(pc),
         pc \in {"subnet", "backend", "policy", "commit", "start", "vtep", "bridge",
                 "nil", "dealloc", "stop", "ack", "drop"}
  PROVE  \E d \in DispatcherStates :
           disp' = d /\ d.t = t /\ d.pc = pc /\ DispOK(d) /\ Phase(d, t) = pc
<1> DEFINE d == [disp EXCEPT !.pc = pc]
<1>1. disp \in DispatcherStates /\ DispOK(disp)
  BY DEF IInv, TypeOK
<1>2. d \in DispatcherStates
  BY <1>1 DEF DispatcherStates
<1>3. d.t = t /\ d.pc = pc /\ disp' = d
  BY <1>1 DEF DispatcherStates, Goto
<1> HIDE DEF d
<1>4. DispOK(d) /\ Phase(d, t) = pc
  BY <1>3, NoneAssumption DEF DispOK, Phase
<1> QED
  BY <1>2, <1>3, <1>4

LEMMA EnsureTenantInv ==
  ASSUME IInv, NEW t \in Tenants, EnsureTenant(t)
  PROVE  IInv'
<1>1. /\ disp.pc = "idle" /\ t \notin TenantRecords /\ starts[t] < MaxStarts
      /\ disp' = [pc |-> "subnet", t |-> t]
      /\ UNCHANGED <<subnetVars, recordVars, startVars, actorVars, kernelVars>>
  BY DEF EnsureTenant, At
<1>2. PICK d : d = [pc |-> "subnet", t |-> t]
  OBVIOUS
<1>3. d \in DispatcherStates /\ d.t = t /\ d.pc = "subnet" /\ DispOK(d) /\ Phase(d, t) = "subnet"
  BY <1>2, NoneAssumption DEF DispatcherStates, OrNone, DispOK, Phase
<1>4. /\ TypeOK /\ DispOK(disp)
      /\ Life(Phase(disp, t), t \in TenantRecords, TenantActors[t], actor[t].pc)
      /\ RecordOK(Phase(disp, t), t \in TenantRecords, actor[t], rec[t])
      /\ SubnetOK(Phase(disp, t), t \in TenantRecords, actor[t], rec[t], AllocMap[t])
  BY TenantFacts
<1>5. disp.t = None /\ Phase(disp, t) = "idle"
  BY <1>1, <1>4, NoneAssumption DEF DispOK, Phase
<1>6. /\ Subnet!TypeOK' /\ OthersKeepNodes(t) /\ AllocMap' = AllocMap
      /\ link' \in [Tenants -> Links] /\ eth' \in [Pods -> OrNone(Interfaces)]
  BY <1>1, <1>4, TrieUnchanged DEF TypeOK, kernelVars
<1>7. Life(Phase(d, t), t \in TenantRecords, TenantActors[t], actor[t].pc)
  BY <1>1, <1>3, <1>4, <1>5 DEF Life, Ensuring, Removing
<1>8. RecordOK(Phase(d, t), t \in TenantRecords, actor[t], rec[t])
  BY <1>1, <1>4 DEF RecordOK
<1>9. SubnetOK(Phase(d, t), t \in TenantRecords, actor[t], rec[t], AllocMap'[t])
  BY <1>1, <1>3, <1>4, <1>5, <1>6 DEF SubnetOK, Released
<1>10. StartsOK(Phase(d, t), starts[t])
  BY <1>1 DEF StartsOK
<1>11. UNCHANGED <<recordVars, startVars, actorVars>>
  BY <1>1
<1> QED
  BY <1>1, <1>2, <1>3, <1>5, <1>6, <1>7, <1>8, <1>9, <1>10, <1>11, DispMove

(* A step of EnsureTenant up to the commit: there is no record yet.        *)
LEMMA EnsureStep ==
  ASSUME IInv, NEW t \in Tenants, disp.t = t, disp.pc \in Ensuring,
         NEW d \in DispatcherStates, disp' = d,
         \/ d = Idle /\ AllocMap'[t] \in {None, Subnet!Root}
         \/ d.t = t /\ d.pc \in {"backend", "policy", "commit"} /\ AllocMap'[t] # None,
         Subnet!TypeOK', OthersKeepNodes(t),
         UNCHANGED <<recordVars, startVars, actorVars>>,
         link' \in [Tenants -> Links], eth' \in [Pods -> OrNone(Interfaces)]
  PROVE  IInv'
<1>1. /\ TypeOK /\ DispOK(disp)
      /\ Life(Phase(disp, t), t \in TenantRecords, TenantActors[t], actor[t].pc)
      /\ RecordOK(Phase(disp, t), t \in TenantRecords, actor[t], rec[t])
      /\ StartsOK(Phase(disp, t), starts[t])
  BY TenantFacts
<1>2. Phase(disp, t) = disp.pc /\ Phase(disp, t) # "ack"
  BY DEF Phase, Ensuring
<1>3. t \notin TenantRecords /\ TenantActors[t] = 0 /\ actor[t].pc = "off"
  BY <1>1, <1>2 DEF Life, Ensuring, Removing
<1>4. d.t \in {t, None} /\ DispOK(d)
  BY IdleFacts, NoneAssumption DEF DispOK
<1>5. \/ Phase(d, t) = "idle" /\ AllocMap'[t] \in {None, Subnet!Root}
      \/ Phase(d, t) \in {"backend", "policy", "commit"} /\ AllocMap'[t] # None
  BY IdleFacts DEF Phase
<1>6. Life(Phase(d, t), t \in TenantRecords, TenantActors[t], actor[t].pc)
  BY <1>3, <1>5 DEF Life, Ensuring
<1>7. RecordOK(Phase(d, t), t \in TenantRecords, actor[t], rec[t])
  BY <1>1, <1>3 DEF RecordOK
<1>8. SubnetOK(Phase(d, t), t \in TenantRecords, actor[t], rec[t], AllocMap'[t])
  BY <1>3, <1>5 DEF SubnetOK, Released
<1>9. StartsOK(Phase(d, t), starts[t])
  BY <1>1, <1>2 DEF StartsOK
<1> QED
  BY <1>2, <1>4, <1>6, <1>7, <1>8, <1>9, DispMove

LEMMA EnsureSubnetInv ==
  ASSUME IInv, EnsureSubnet
  PROVE  IInv'
<1>1. /\ disp.pc = "subnet" /\ disp.pc \in Ensuring
      /\ UNCHANGED <<recordVars, startVars, actorVars, kernelVars>>
  BY DEF EnsureSubnet, At, Ensuring
<1>2. PICK t \in Tenants : disp.t = t
  BY <1>1, DispFacts
<1>3. TypeOK /\ Subnet!TypeOK
  BY <1>2, TenantFacts DEF TypeOK
<1>4. /\ link' \in [Tenants -> Links] /\ eth' \in [Pods -> OrNone(Interfaces)]
      /\ UNCHANGED <<recordVars, startVars, actorVars>>
  BY <1>1, <1>3 DEF TypeOK, kernelVars
<1>5. ASSUME Goto("backend"), AllocMap'[t] # None, Subnet!TypeOK', OthersKeepNodes(t)
      PROVE  IInv'
  <2>1. PICK d \in DispatcherStates :
           disp' = d /\ d.t = t /\ d.pc = "backend" /\ DispOK(d) /\ Phase(d, t) = "backend"
    BY <1>2, <1>5, GotoFacts
  <2> QED
    BY <1>1, <1>2, <1>4, <1>5, <2>1, EnsureStep
<1>6. CASE Subnet!Allocate(t) /\ Goto("backend")
  <2>1. Subnet!TypeOK' /\ OthersKeepNodes(t) /\ AllocMap'[t] \in Prefixes
    BY <1>3, <1>6, TrieAllocate
  <2> QED
    BY <1>5, <1>6, <2>1, NoneAssumption
<1>7. CASE AllocMap[t] # None /\ Goto("backend") /\ UNCHANGED subnetVars
  <2>1. Subnet!TypeOK' /\ OthersKeepNodes(t) /\ AllocMap' = AllocMap
    BY <1>3, <1>7, TrieUnchanged
  <2> QED
    BY <1>5, <1>7, <2>1
<1>8. CASE AllocMap[t] = None /\ disp' = Idle /\ UNCHANGED subnetVars
  <2>1. Subnet!TypeOK' /\ OthersKeepNodes(t) /\ AllocMap' = AllocMap
    BY <1>3, <1>8, TrieUnchanged
  <2>2. Idle \in DispatcherStates
    BY IdleFacts
  <2> QED
    BY <1>1, <1>2, <1>4, <1>8, <2>1, <2>2, EnsureStep
<1> QED
  BY <1>2, <1>6, <1>7, <1>8 DEF EnsureSubnet

(* The links that Backend.Create and Delete leave behind.                  *)
LEMMA LinksTypes ==
  ASSUME TypeOK, NEW t \in Tenants
  PROVE  /\ \A p \in Prefixes : LinksCreated(t, p) \in Links
         /\ \A l \in LinksFailed(t) : l \in Links
         /\ \A l \in LinksDeleted(link[t]) : l \in Links
         /\ \A l \in Links : [link EXCEPT ![t] = l] \in [Tenants -> Links]
<1>1. link \in [Tenants -> Links] /\ link[t] \in Links
  BY DEF TypeOK
<1>2. /\ link[t].bridge \in OrNone(SUBSET Addresses) /\ link[t].vtep \in OrNone(SUBSET Addresses)
  BY <1>1 DEF Links
<1>3. ASSUME NEW p \in Prefixes PROVE LinksCreated(t, p) \in Links
  <2>1. FirstIP(p) \in Addresses /\ HostIP(p) \in Addresses
    BY NetFacts
  <2>2. BridgeUp(t, p) \in OrNone(SUBSET Addresses)
    BY <1>2, <2>1 DEF BridgeUp, OrNone
  <2>3. VtepUp(t, p) \in OrNone(SUBSET Addresses)
    BY <1>2, <2>1 DEF VtepUp, OrNone
  <2> QED
    BY <2>2, <2>3 DEF LinksCreated, Links
<1>4. ASSUME NEW l \in LinksFailed(t) PROVE l \in Links
  BY <1>1, <1>2 DEF LinksFailed, Links, OrNone
<1>5. ASSUME NEW l \in LinksDeleted(link[t]) PROVE l \in Links
  BY <1>1, <1>2 DEF LinksDeleted, Links, OrNone, NoLink
<1> QED
  BY <1>1, <1>3, <1>4, <1>5

LEMMA EnsureBackendInv ==
  ASSUME IInv, EnsureBackend
  PROVE  IInv'
<1>1. /\ disp.pc = "backend" /\ disp.pc \in Ensuring
      /\ UNCHANGED <<recordVars, startVars, actorVars, eth>>
  BY DEF EnsureBackend, At, Ensuring
<1>2. PICK t \in Tenants : disp.t = t
  BY <1>1, DispFacts
<1>3. TypeOK /\ Subnet!TypeOK /\ AllocMap[t] \in OrNone(Prefixes)
  BY <1>2, TenantFacts, TypeFacts
<1>4. AllocMap[t] # None /\ AllocMap[t] \in Prefixes
  BY <1>1, <1>2, <1>3, TenantFacts DEF SubnetOK, Phase, OrNone
<1>5. /\ eth' \in [Pods -> OrNone(Interfaces)] /\ UNCHANGED <<recordVars, startVars, actorVars>>
  BY <1>1, <1>3 DEF TypeOK
<1>6. CASE /\ link' = [link EXCEPT ![t] = LinksCreated(t, AllocMap[t])]
           /\ Goto("policy") /\ UNCHANGED subnetVars
  <2>1. link' \in [Tenants -> Links]
    BY <1>3, <1>4, <1>6, LinksTypes
  <2>2. Subnet!TypeOK' /\ OthersKeepNodes(t) /\ AllocMap' = AllocMap
    BY <1>3, <1>6, TrieUnchanged
  <2>3. PICK d \in DispatcherStates :
           disp' = d /\ d.t = t /\ d.pc = "policy" /\ DispOK(d) /\ Phase(d, t) = "policy"
    BY <1>2, <1>6, GotoFacts
  <2> QED
    BY <1>1, <1>2, <1>4, <1>5, <2>1, <2>2, <2>3, EnsureStep
<1>7. CASE /\ \E l \in LinksFailed(t) : link' = [link EXCEPT ![t] = l]
           /\ TryDeallocate(t) /\ disp' = Idle
  <2>1. link' \in [Tenants -> Links]
    BY <1>3, <1>7, LinksTypes
  <2>2. Subnet!TypeOK' /\ OthersKeepNodes(t) /\ AllocMap'[t] \in {None, Subnet!Root}
    BY <1>3, <1>7, TrieDeallocate
  <2>3. Idle \in DispatcherStates
    BY IdleFacts
  <2> QED
    BY <1>1, <1>2, <1>5, <1>7, <2>1, <2>2, <2>3, EnsureStep
<1> QED
  BY <1>2, <1>6, <1>7 DEF EnsureBackend

LEMMA EnsurePolicyInv ==
  ASSUME IInv, EnsurePolicy
  PROVE  IInv'
<1>1. /\ disp.pc = "policy" /\ disp.pc \in Ensuring
      /\ UNCHANGED <<recordVars, startVars, actorVars, eth>>
  BY DEF EnsurePolicy, At, Ensuring
<1>2. PICK t \in Tenants : disp.t = t
  BY <1>1, DispFacts
<1>3. TypeOK /\ Subnet!TypeOK
  BY <1>2, TenantFacts, TypeFacts
<1>4. AllocMap[t] # None
  BY <1>1, <1>2, <1>3, TenantFacts DEF SubnetOK, Phase
<1>5. /\ eth' \in [Pods -> OrNone(Interfaces)] /\ UNCHANGED <<recordVars, startVars, actorVars>>
  BY <1>1, <1>3 DEF TypeOK
<1>6. CASE Goto("commit") /\ UNCHANGED <<subnetVars, link>>
  <2>1. link' \in [Tenants -> Links]
    BY <1>3, <1>6 DEF TypeOK
  <2>2. Subnet!TypeOK' /\ OthersKeepNodes(t) /\ AllocMap' = AllocMap
    BY <1>3, <1>6, TrieUnchanged
  <2>3. PICK d \in DispatcherStates :
           disp' = d /\ d.t = t /\ d.pc = "commit" /\ DispOK(d) /\ Phase(d, t) = "commit"
    BY <1>2, <1>6, GotoFacts
  <2> QED
    BY <1>1, <1>2, <1>4, <1>5, <2>1, <2>2, <2>3, EnsureStep
<1>7. CASE /\ \E l \in LinksDeleted(link[t]) : link' = [link EXCEPT ![t] = l]
           /\ TryDeallocate(t) /\ disp' = Idle
  <2>1. link' \in [Tenants -> Links]
    BY <1>3, <1>7, LinksTypes
  <2>2. Subnet!TypeOK' /\ OthersKeepNodes(t) /\ AllocMap'[t] \in {None, Subnet!Root}
    BY <1>3, <1>7, TrieDeallocate
  <2>3. Idle \in DispatcherStates
    BY IdleFacts
  <2> QED
    BY <1>1, <1>2, <1>5, <1>7, <2>1, <2>2, <2>3, EnsureStep
<1> QED
  BY <1>2, <1>6, <1>7 DEF EnsurePolicy

LEMMA NewRecordFacts ==
  ASSUME NEW t, NEW p \in Prefixes, NEW r, r = NewRecord(t, p)
  PROVE  /\ r \in Records /\ r.Subnet = p /\ r.State = "Ready" /\ r.devices = TRUE
         /\ r.BridgeIP = FirstIP(p) /\ r.IPAM = IPAM(t)!NewBitmapIPAM(Net(p))
<1>1. PICK m : m = IPAM(t)!NewBitmapIPAM(Net(p))
  OBVIOUS
<1>2. m \in IPAMs
  BY <1>1, NewType
<1>3. r = [Subnet |-> p, State |-> "Ready", devices |-> TRUE, BridgeIP |-> FirstIP(p), IPAM |-> m]
  BY <1>1 DEF NewRecord
<1>4. r \in Records
  BY <1>2, <1>3, NetFacts DEF Records
<1> QED
  BY <1>1, <1>3, <1>4

(* The double check before the commit never finds a record.                *)
LEMMA EnsureCommitInv ==
  ASSUME IInv, EnsureCommit
  PROVE  IInv'
<1>1. /\ disp.pc = "commit" /\ UNCHANGED <<startVars, actorVars, eth>>
  BY DEF EnsureCommit, At
<1>2. PICK t \in Tenants : disp.t = t
  BY <1>1, DispFacts
<1>3. /\ TypeOK /\ Fields(t, actor[t])
      /\ Life(Phase(disp, t), t \in TenantRecords, TenantActors[t], actor[t].pc)
      /\ SubnetOK(Phase(disp, t), t \in TenantRecords, actor[t], rec[t], AllocMap[t])
      /\ StartsOK(Phase(disp, t), starts[t])
      /\ BoxOK(t, inbox[t], Phase(disp, t), actor[t].pc)
  BY TenantFacts
<1>4. Phase(disp, t) = "commit"
  BY <1>1, <1>2 DEF Phase
<1>5. t \notin TenantRecords /\ TenantActors[t] = 0 /\ actor[t].pc = "off"
  BY <1>3, <1>4 DEF Life, Ensuring, Removing
<1>6. AllocMap[t] \in OrNone(Prefixes)
  BY <1>3, TypeFacts
<1>7. PICK n \in Prefixes : n = AllocMap[t]
  BY <1>3, <1>4, <1>6 DEF SubnetOK, OrNone
<1>8. PICK r : r = NewRecord(t, n)
  OBVIOUS
<1>9. /\ r \in Records /\ r.Subnet = n /\ r.State = "Ready" /\ r.devices = TRUE
      /\ r.IPAM = IPAM(t)!NewBitmapIPAM(Net(n))
  BY <1>8, NewRecordFacts
<1>10. r.IPAM.Network = Net(n)
  BY <1>9, NewType
<1>11. /\ TenantRecords' = TenantRecords \cup {t} /\ rec' = [rec EXCEPT ![t] = r]
       /\ Goto("start") /\ UNCHANGED <<subnetVars, link>>
  BY <1>2, <1>5, <1>7, <1>8 DEF EnsureCommit
<1>12. PICK d \in DispatcherStates :
           disp' = d /\ d.t = t /\ d.pc = "start" /\ DispOK(d) /\ Phase(d, t) = "start"
  BY <1>2, <1>11, GotoFacts
<1>13. Subnet!TypeOK' /\ OthersKeepNodes(t) /\ AllocMap' = AllocMap
  BY <1>3, <1>11, TrieUnchanged DEF TypeOK
<1>14. TenantOK(t, "start", TRUE, TenantActors[t], starts[t], actor[t], r, AllocMap[t], inbox[t])
  <2>1. Life("start", TRUE, TenantActors[t], actor[t].pc)
    BY <1>5 DEF Life
  <2>2. RecordOK("start", TRUE, actor[t], r)
    BY <1>5, <1>9, <1>10 DEF RecordOK, Removing, Growing
  <2>3. SubnetOK("start", TRUE, actor[t], r, AllocMap[t])
    BY <1>5, <1>7, <1>9, NoneAssumption DEF SubnetOK, Released, Growing
  <2>4. StartsOK("start", starts[t])
    BY <1>3, <1>4 DEF StartsOK, Ensuring
  <2>5. BoxOK(t, inbox[t], "start", actor[t].pc)
    BY <1>3, <1>4 DEF BoxOK, MessageOK
  <2> QED
    BY <1>3, <2>1, <2>2, <2>3, <2>4, <2>5 DEF TenantOK
<1>15. (t \in TenantRecords') = TRUE /\ r # None /\ r \in OrNone(Records)
  BY <1>9, <1>11, NoneAssumption DEF OrNone
<1>16. /\ TenantActors[t] \in Nat /\ starts[t] \in 0 .. MaxStarts /\ actor[t] \in ActorStates
       /\ inbox[t] \in Seq(Messages) /\ Len(inbox[t]) <= MailboxSize
       /\ TenantActors' = [TenantActors EXCEPT ![t] = TenantActors[t]]
       /\ starts' = [starts EXCEPT ![t] = starts[t]]
       /\ actor' = [actor EXCEPT ![t] = actor[t]] /\ inbox' = [inbox EXCEPT ![t] = inbox[t]]
       /\ call' \in [Pods -> Requests] /\ link' \in [Tenants -> Links]
       /\ eth' \in [Pods -> OrNone(Interfaces)]
  BY <1>1, <1>3, <1>11 DEF TypeOK, startVars, actorVars
<1> QED
  BY <1>2, <1>11, <1>12, <1>13, <1>14, <1>15, <1>16, DispStep

LEMMA StartTenantActorInv ==
  ASSUME IInv, StartTenantActor
  PROVE  IInv'
<1>1. /\ disp.pc = "start" /\ disp' = Idle
      /\ UNCHANGED <<subnetVars, recordVars, call, kernelVars>>
  BY DEF StartTenantActor, At
<1>2. PICK t \in Tenants : disp.t = t
  BY <1>1, DispFacts
<1>3. /\ TypeOK
      /\ Life(Phase(disp, t), t \in TenantRecords, TenantActors[t], actor[t].pc)
      /\ RecordOK(Phase(disp, t), t \in TenantRecords, actor[t], rec[t])
      /\ SubnetOK(Phase(disp, t), t \in TenantRecords, actor[t], rec[t], AllocMap[t])
      /\ StartsOK(Phase(disp, t), starts[t])
  BY TenantFacts
<1>4. Phase(disp, t) = "start"
  BY <1>1, <1>2 DEF Phase
<1>5. t \in TenantRecords /\ TenantActors[t] = 0 /\ actor[t].pc = "off"
  BY <1>3, <1>4 DEF Life, Ensuring, Removing
<1>6. starts[t] + 1 \in 0 .. MaxStarts /\ starts[t] + 1 \in Nat /\ starts[t] + 1 # 0
  <2>1. starts[t] \in 0 .. MaxStarts /\ starts[t] < MaxStarts
    BY <1>3, <1>4 DEF StartsOK, TypeOK
  <2> QED
    BY <2>1, NMAssumption
<1>7. PICK st : st = starts[t] + 1
  OBVIOUS
<1>8. /\ starts' = [starts EXCEPT ![t] = st] /\ TenantActors' = [TenantActors EXCEPT ![t] = st]
      /\ actor' = [actor EXCEPT ![t] = Loop] /\ inbox' = [inbox EXCEPT ![t] = <<>>]
  BY <1>2, <1>5, <1>7 DEF StartTenantActor
<1>9. Subnet!TypeOK' /\ OthersKeepNodes(t) /\ AllocMap' = AllocMap
  BY <1>1, <1>3, TrieUnchanged DEF TypeOK
<1>10. TenantOK(t, "idle", TRUE, st, st, Loop, rec[t], AllocMap[t], <<>>)
  <2>1. Life("idle", TRUE, st, Loop.pc)
    BY <1>6, <1>7, LoopFacts DEF Life
  <2>2. RecordOK("idle", TRUE, Loop, rec[t])
    BY <1>3, <1>4, <1>5, LoopFacts DEF RecordOK, Removing, Growing, Released
  <2>3. SubnetOK("idle", TRUE, Loop, rec[t], AllocMap[t])
    BY <1>3, <1>4, <1>5, LoopFacts DEF SubnetOK, Released, Growing
  <2>4. StartsOK("idle", st) /\ BoxOK(t, <<>>, "idle", Loop.pc)
    BY DEF StartsOK, Ensuring, BoxOK
  <2> QED
    BY <2>1, <2>2, <2>3, <2>4, LoopFacts DEF TenantOK
<1>11. /\ <<>> \in Seq(Messages) /\ Len(<<>>) <= MailboxSize
       /\ rec[t] \in OrNone(Records) /\ rec[t] # None /\ rec' = [rec EXCEPT ![t] = rec[t]]
       /\ TenantRecords' = TenantRecords
       /\ call' \in [Pods -> Requests] /\ link' \in [Tenants -> Links]
       /\ eth' \in [Pods -> OrNone(Interfaces)]
  BY <1>1, <1>3, <1>5, NMAssumption DEF TypeOK, recordVars, kernelVars
<1>12. (t \in TenantRecords') = TRUE
  BY <1>5, <1>11
<1>13. st \in Nat /\ st \in 0 .. MaxStarts
  BY <1>6, <1>7
<1> QED
  BY <1>1, <1>2, <1>8, <1>9, <1>10, <1>11, <1>12, <1>13, IdleFacts, LoopFacts, DispStep

LEMMA ClosingRecord ==
  ASSUME NEW r \in Records
  PROVE  /\ LET x == [r EXCEPT !.State = "Closing"] IN
              /\ x \in Records /\ x.IPAM = r.IPAM /\ x.Subnet = r.Subnet /\ x.State = "Closing"
              /\ x.devices = r.devices /\ x.BridgeIP = r.BridgeIP
         /\ LET x == [r EXCEPT !.devices = FALSE] IN
              /\ x \in Records /\ x.IPAM = r.IPAM /\ x.Subnet = r.Subnet /\ x.State = r.State
              /\ x.BridgeIP = r.BridgeIP
BY DEF Records

(* RemoveTenant's changes of the record.                                   *)
LEMMA CloseStep ==
  ASSUME IInv, NEW t \in Tenants, disp.t \in {t, None}, Phase(disp, t) \in {"idle", "nil"},
         t \in TenantRecords, NEW r \in Records, rec' = [rec EXCEPT ![t] = r],
         r.IPAM = rec[t].IPAM, r.Subnet = rec[t].Subnet, r.State = "Closing",
         NEW d \in DispatcherStates, disp' = d, d.t = t,
         \/ d.pc = "vtep" /\ r.devices
         \/ d.pc = "dealloc",
         UNCHANGED <<subnetVars, TenantRecords, startVars, actorVars, kernelVars>>
  PROVE  IInv'
<1>1. /\ TypeOK /\ Fields(t, actor[t])
      /\ Life(Phase(disp, t), t \in TenantRecords, TenantActors[t], actor[t].pc)
      /\ RecordOK(Phase(disp, t), t \in TenantRecords, actor[t], rec[t])
      /\ SubnetOK(Phase(disp, t), t \in TenantRecords, actor[t], rec[t], AllocMap[t])
      /\ StartsOK(Phase(disp, t), starts[t])
      /\ BoxOK(t, inbox[t], Phase(disp, t), actor[t].pc)
  BY TenantFacts
<1>2. DispOK(d) /\ Phase(d, t) = d.pc /\ Phase(d, t) \in {"vtep", "dealloc"}
  BY NoneAssumption DEF DispOK, Phase
<1>3. TenantActors[t] # 0 /\ actor[t].pc # "off"
  BY <1>1 DEF Life, Ensuring, Removing
<1>4. Subnet!TypeOK' /\ OthersKeepNodes(t) /\ AllocMap' = AllocMap
  BY <1>1, TrieUnchanged DEF TypeOK
<1>5. TenantOK(t, Phase(d, t), TRUE, TenantActors[t], starts[t], actor[t], r, AllocMap[t], inbox[t])
  <2>1. Life(Phase(d, t), TRUE, TenantActors[t], actor[t].pc)
    BY <1>2, <1>3 DEF Life, Removing
  <2>2. RecordOK(Phase(d, t), TRUE, actor[t], r)
    BY <1>1, <1>2 DEF RecordOK, Removing
  <2>3. SubnetOK(Phase(d, t), TRUE, actor[t], r, AllocMap[t])
    BY <1>1, <1>2 DEF SubnetOK, Released
  <2>4. StartsOK(Phase(d, t), starts[t])
    BY <1>2 DEF StartsOK, Ensuring
  <2>5. BoxOK(t, inbox[t], Phase(d, t), actor[t].pc)
    BY <1>1 DEF BoxOK, MessageOK
  <2> QED
    BY <1>1, <2>1, <2>2, <2>3, <2>4, <2>5 DEF TenantOK
<1>6. (t \in TenantRecords') = TRUE /\ TenantRecords' = TenantRecords /\ r # None /\ r \in OrNone(Records)
  BY NoneAssumption DEF OrNone
<1>7. /\ TenantActors[t] \in Nat /\ starts[t] \in 0 .. MaxStarts /\ actor[t] \in ActorStates
      /\ inbox[t] \in Seq(Messages) /\ Len(inbox[t]) <= MailboxSize
      /\ TenantActors' = [TenantActors EXCEPT ![t] = TenantActors[t]]
      /\ starts' = [starts EXCEPT ![t] = starts[t]]
      /\ actor' = [actor EXCEPT ![t] = actor[t]] /\ inbox' = [inbox EXCEPT ![t] = inbox[t]]
      /\ call' \in [Pods -> Requests] /\ link' \in [Tenants -> Links]
      /\ eth' \in [Pods -> OrNone(Interfaces)]
  BY <1>1 DEF TypeOK, startVars, actorVars, kernelVars
<1> QED
  BY <1>2, <1>4, <1>5, <1>6, <1>7, DispStep

LEMMA RemoveTenantInv ==
  ASSUME IInv, NEW t \in Tenants, RemoveTenant(t)
  PROVE  IInv'
<1>1. /\ disp.pc = "idle" /\ t \in TenantRecords /\ rec' = [rec EXCEPT ![t].State = "Closing"]
      /\ disp' = [pc |-> "vtep", t |-> t]
      /\ UNCHANGED <<subnetVars, TenantRecords, startVars, actorVars, kernelVars>>
  BY DEF RemoveTenant, At
<1>2. PICK d : d = [pc |-> "vtep", t |-> t]
  OBVIOUS
<1>3. d \in DispatcherStates /\ d.t = t /\ d.pc = "vtep"
  BY <1>2 DEF DispatcherStates, OrNone
<1>4. /\ TypeOK /\ DispOK(disp)
      /\ RecordOK(Phase(disp, t), t \in TenantRecords, actor[t], rec[t])
  BY TenantFacts
<1>5. disp.t = None /\ Phase(disp, t) = "idle"
  BY <1>1, <1>4, NoneAssumption DEF DispOK, Phase
<1>6. rec[t] \in Records
  BY <1>1, <1>4, TypeFacts
<1> DEFINE r == [rec[t] EXCEPT !.State = "Closing"]
<1>7. rec' = [rec EXCEPT ![t] = r]
  BY <1>1
<1>8. /\ r \in Records /\ r.IPAM = rec[t].IPAM /\ r.Subnet = rec[t].Subnet /\ r.State = "Closing"
      /\ r.devices = rec[t].devices
  BY <1>6, ClosingRecord
<1>9. rec[t].devices
  BY <1>1, <1>4, <1>5 DEF RecordOK, Released
<1>10. r.devices
  BY <1>8, <1>9
<1> HIDE DEF r
<1> QED
  BY <1>1, <1>2, <1>3, <1>5, <1>7, <1>8, <1>10, CloseStep

LEMMA RemoveFieldsInv ==
  ASSUME IInv, RemoveFields
  PROVE  IInv'
<1>1. /\ disp.pc = "nil" /\ rec' = [rec EXCEPT ![disp.t].devices = FALSE] /\ Goto("dealloc")
      /\ UNCHANGED <<subnetVars, TenantRecords, startVars, actorVars, kernelVars>>
  BY DEF RemoveFields, At
<1>2. PICK t \in Tenants : disp.t = t
  BY <1>1, DispFacts
<1>3. PICK d \in DispatcherStates :
           disp' = d /\ d.t = t /\ d.pc = "dealloc" /\ DispOK(d) /\ Phase(d, t) = "dealloc"
  BY <1>1, <1>2, GotoFacts
<1>4. /\ TypeOK
      /\ Life(Phase(disp, t), t \in TenantRecords, TenantActors[t], actor[t].pc)
      /\ RecordOK(Phase(disp, t), t \in TenantRecords, actor[t], rec[t])
  BY TenantFacts
<1>5. Phase(disp, t) = "nil"
  BY <1>1, <1>2 DEF Phase
<1>6. t \in TenantRecords
  BY <1>4, <1>5 DEF Life, Ensuring
<1>7. rec[t] \in Records /\ rec[t].State = "Closing"
  BY <1>4, <1>5, <1>6, TypeFacts DEF RecordOK, Removing
<1> DEFINE r == [rec[t] EXCEPT !.devices = FALSE]
<1>8. rec' = [rec EXCEPT ![t] = r]
  BY <1>1, <1>2
<1>9. r \in Records /\ r.IPAM = rec[t].IPAM /\ r.Subnet = rec[t].Subnet /\ r.State = "Closing"
  BY <1>7, ClosingRecord
<1> HIDE DEF r
<1> QED
  BY <1>1, <1>2, <1>3, <1>5, <1>6, <1>8, <1>9, CloseStep

(* Backend.Delete, as far as the links are concerned.                      *)
LEMMA RemoveLinkStep ==
  ASSUME IInv, NEW t \in Tenants, disp.t = t, disp.pc \in {"vtep", "bridge"},
         NEW pc \in {"bridge", "nil", "dealloc"}, Goto(pc),
         UNCHANGED <<subnetVars, recordVars, startVars, actorVars>>,
         link' \in [Tenants -> Links], eth' \in [Pods -> OrNone(Interfaces)]
  PROVE  IInv'
<1>1. PICK d \in DispatcherStates : disp' = d /\ d.t = t /\ d.pc = pc /\ DispOK(d) /\ Phase(d, t) = pc
  BY GotoFacts
<1>2. /\ TypeOK
      /\ Life(Phase(disp, t), t \in TenantRecords, TenantActors[t], actor[t].pc)
      /\ RecordOK(Phase(disp, t), t \in TenantRecords, actor[t], rec[t])
      /\ SubnetOK(Phase(disp, t), t \in TenantRecords, actor[t], rec[t], AllocMap[t])
  BY TenantFacts
<1>3. Phase(disp, t) \in {"vtep", "bridge"}
  BY DEF Phase
<1>4. Subnet!TypeOK' /\ OthersKeepNodes(t) /\ AllocMap' = AllocMap
  BY <1>2, TrieUnchanged DEF TypeOK
<1>5. Life(Phase(d, t), t \in TenantRecords, TenantActors[t], actor[t].pc)
  BY <1>1, <1>2, <1>3 DEF Life, Ensuring, Removing
<1>6. RecordOK(Phase(d, t), t \in TenantRecords, actor[t], rec[t])
  BY <1>1, <1>2, <1>3 DEF RecordOK, Removing, Released
<1>7. SubnetOK(Phase(d, t), t \in TenantRecords, actor[t], rec[t], AllocMap'[t])
  BY <1>1, <1>2, <1>3, <1>4 DEF SubnetOK, Released
<1>8. StartsOK(Phase(d, t), starts[t])
  BY <1>1 DEF StartsOK, Ensuring
<1>9. UNCHANGED <<recordVars, startVars, actorVars>>
  OBVIOUS
<1> QED
  BY <1>1, <1>3, <1>4, <1>5, <1>6, <1>7, <1>8, <1>9, DispMove

LEMMA RemoveVtepInv ==
  ASSUME IInv, RemoveVtep
  PROVE  IInv'
<1>1. disp.pc = "vtep" /\ UNCHANGED <<subnetVars, recordVars, startVars, actorVars, eth>>
  BY DEF RemoveVtep, At
<1>2. PICK t \in Tenants : disp.t = t
  BY <1>1, DispFacts
<1>3. TypeOK
  BY TenantFacts, <1>2
<1>4. eth' \in [Pods -> OrNone(Interfaces)] /\ UNCHANGED <<subnetVars, recordVars, startVars, actorVars>>
  BY <1>1, <1>3 DEF TypeOK
<1>5. CASE link' = [link EXCEPT ![t].vtep = None] /\ Goto("bridge")
  <2>1. link' \in [Tenants -> Links]
    BY <1>3, <1>5, LinkType DEF OrNone
  <2> QED
    BY <1>1, <1>2, <1>4, <1>5, <2>1, RemoveLinkStep
<1>6. CASE Goto("dealloc") /\ UNCHANGED link
  <2>1. link' \in [Tenants -> Links]
    BY <1>3, <1>6 DEF TypeOK
  <2> QED
    BY <1>1, <1>2, <1>4, <1>6, <2>1, RemoveLinkStep
<1> QED
  BY <1>2, <1>5, <1>6 DEF RemoveVtep

LEMMA RemoveBridgeInv ==
  ASSUME IInv, RemoveBridge
  PROVE  IInv'
<1>1. disp.pc = "bridge" /\ UNCHANGED <<subnetVars, recordVars, startVars, actorVars>>
  BY DEF RemoveBridge, At
<1>2. PICK t \in Tenants : disp.t = t
  BY <1>1, DispFacts
<1>3. TypeOK
  BY TenantFacts, <1>2
<1>4. CASE /\ link' = [link EXCEPT ![t].bridge = None] /\ Goto("nil")
           /\ eth' = [p \in Pods |-> IF p[1] = t THEN None ELSE eth[p]]
  <2>1. link' \in [Tenants -> Links]
    BY <1>3, <1>4, LinkType DEF OrNone
  <2>2. eth' \in [Pods -> OrNone(Interfaces)]
    BY <1>3, <1>4 DEF TypeOK, OrNone
  <2> QED
    BY <1>1, <1>2, <1>4, <2>1, <2>2, RemoveLinkStep
<1>5. CASE Goto("dealloc") /\ UNCHANGED kernelVars
  <2>1. link' \in [Tenants -> Links] /\ eth' \in [Pods -> OrNone(Interfaces)]
    BY <1>3, <1>5 DEF TypeOK, kernelVars
  <2> QED
    BY <1>1, <1>2, <1>5, <2>1, RemoveLinkStep
<1> QED
  BY <1>2, <1>4, <1>5 DEF RemoveBridge

LEMMA RemoveSubnetInv ==
  ASSUME IInv, RemoveSubnet
  PROVE  IInv'
<1>1. /\ disp.pc = "dealloc" /\ TryDeallocate(disp.t) /\ Goto("stop")
      /\ UNCHANGED <<recordVars, startVars, actorVars, kernelVars>>
  BY DEF RemoveSubnet, At
<1>2. PICK t \in Tenants : disp.t = t
  BY <1>1, DispFacts
<1>3. PICK d \in DispatcherStates :
           disp' = d /\ d.t = t /\ d.pc = "stop" /\ DispOK(d) /\ Phase(d, t) = "stop"
  BY <1>1, <1>2, GotoFacts
<1>4. /\ TypeOK
      /\ Life(Phase(disp, t), t \in TenantRecords, TenantActors[t], actor[t].pc)
      /\ RecordOK(Phase(disp, t), t \in TenantRecords, actor[t], rec[t])
  BY TenantFacts
<1>5. Phase(disp, t) = "dealloc"
  BY <1>1, <1>2 DEF Phase
<1>6. Subnet!TypeOK' /\ OthersKeepNodes(t) /\ AllocMap'[t] \in {None, Subnet!Root}
  BY <1>1, <1>2, <1>4, TrieDeallocate DEF TypeOK
<1>7. Life(Phase(d, t), t \in TenantRecords, TenantActors[t], actor[t].pc)
  BY <1>3, <1>4, <1>5 DEF Life, Ensuring, Removing
<1>8. RecordOK(Phase(d, t), t \in TenantRecords, actor[t], rec[t])
  BY <1>3, <1>4, <1>5 DEF RecordOK, Removing, Released
<1>9. SubnetOK(Phase(d, t), t \in TenantRecords, actor[t], rec[t], AllocMap'[t])
  BY <1>3, <1>6 DEF SubnetOK, Released
<1>10. StartsOK(Phase(d, t), starts[t])
  BY <1>3 DEF StartsOK, Ensuring
<1>11. /\ UNCHANGED <<recordVars, startVars, actorVars>>
       /\ link' \in [Tenants -> Links] /\ eth' \in [Pods -> OrNone(Interfaces)]
  BY <1>1, <1>4 DEF TypeOK, kernelVars
<1> QED
  BY <1>2, <1>3, <1>5, <1>6, <1>7, <1>8, <1>9, <1>10, <1>11, DispMove

(* A message at the end of a mailbox that is not full.                     *)
LEMMA SendFacts ==
  ASSUME NEW box \in Seq(Messages), Len(box) < MailboxSize, NEW m \in Messages,
         NEW x, x = Append(box, m)
  PROVE  /\ x \in Seq(Messages) /\ Len(x) <= MailboxSize
         /\ \A i \in DOMAIN x : (i \in DOMAIN box /\ x[i] = box[i]) \/ (i = Len(box) + 1 /\ x[i] = m)
BY NMAssumption

LEMMA RemoveStopInv ==
  ASSUME IInv, RemoveStop
  PROVE  IInv'
<1>1. /\ disp.pc = "stop"
      /\ UNCHANGED <<subnetVars, recordVars, startVars, actor, call, kernelVars>>
  BY DEF RemoveStop, At
<1>2. PICK t \in Tenants : disp.t = t
  BY <1>1, DispFacts
<1>3. /\ TypeOK /\ Fields(t, actor[t])
      /\ Life(Phase(disp, t), t \in TenantRecords, TenantActors[t], actor[t].pc)
      /\ RecordOK(Phase(disp, t), t \in TenantRecords, actor[t], rec[t])
      /\ SubnetOK(Phase(disp, t), t \in TenantRecords, actor[t], rec[t], AllocMap[t])
      /\ BoxOK(t, inbox[t], Phase(disp, t), actor[t].pc)
  BY TenantFacts
<1>4. Phase(disp, t) = "stop"
  BY <1>1, <1>2 DEF Phase
<1>5. t \in TenantRecords /\ TenantActors[t] # 0 /\ actor[t].pc # "off"
  BY <1>3, <1>4 DEF Life, Ensuring
<1>6. /\ Len(inbox[t]) < MailboxSize /\ Goto("ack")
      /\ inbox' = [inbox EXCEPT ![t] = Append(inbox[t], StopMessage)]
  BY <1>2, <1>5 DEF RemoveStop
<1>7. PICK d \in DispatcherStates :
           disp' = d /\ d.t = t /\ d.pc = "ack" /\ DispOK(d) /\ Phase(d, t) = "ack"
  BY <1>2, <1>6, GotoFacts
<1>8. StopMessage \in Messages /\ StopMessage.kind = "stop"
  BY DEF StopMessage, Messages, OrNone
<1>9. inbox[t] \in Seq(Messages)
  BY <1>3, TypeFacts
<1>10. PICK box : box = Append(inbox[t], StopMessage)
  OBVIOUS
<1>11. /\ box \in Seq(Messages) /\ Len(box) <= MailboxSize
       /\ \A i \in DOMAIN box : \/ i \in DOMAIN inbox[t] /\ box[i] = inbox[t][i]
                                \/ i = Len(inbox[t]) + 1 /\ box[i] = StopMessage
  BY <1>6, <1>8, <1>9, <1>10, SendFacts
<1>12. Subnet!TypeOK' /\ OthersKeepNodes(t) /\ AllocMap' = AllocMap
  BY <1>1, <1>3, TrieUnchanged DEF TypeOK
<1>13. TenantOK(t, "ack", TRUE, TenantActors[t], starts[t], actor[t], rec[t], AllocMap[t], box)
  <2>1. Life("ack", TRUE, TenantActors[t], actor[t].pc)
    BY <1>5 DEF Life
  <2>2. RecordOK("ack", TRUE, actor[t], rec[t])
    BY <1>3, <1>4, <1>5 DEF RecordOK, Removing, Released
  <2>3. SubnetOK("ack", TRUE, actor[t], rec[t], AllocMap[t])
    BY <1>3, <1>4 DEF SubnetOK, Released
  <2>4. StartsOK("ack", starts[t])
    BY DEF StartsOK, Ensuring
  <2>5. BoxOK(t, box, "ack", actor[t].pc)
    BY <1>3, <1>4, <1>5, <1>8, <1>11 DEF BoxOK, MessageOK
  <2> QED
    BY <1>3, <2>1, <2>2, <2>3, <2>4, <2>5 DEF TenantOK
<1>14. /\ TenantActors[t] \in Nat /\ starts[t] \in 0 .. MaxStarts /\ actor[t] \in ActorStates
       /\ TenantActors' = [TenantActors EXCEPT ![t] = TenantActors[t]]
       /\ starts' = [starts EXCEPT ![t] = starts[t]]
       /\ actor' = [actor EXCEPT ![t] = actor[t]] /\ rec' = [rec EXCEPT ![t] = rec[t]]
       /\ rec[t] \in OrNone(Records) /\ rec[t] # None
       /\ call' \in [Pods -> Requests] /\ link' \in [Tenants -> Links]
       /\ eth' \in [Pods -> OrNone(Interfaces)] /\ TenantRecords' = TenantRecords
  BY <1>1, <1>3, <1>5 DEF TypeOK, startVars, recordVars, kernelVars
<1>15. (t \in TenantRecords') = TRUE /\ inbox' = [inbox EXCEPT ![t] = box]
  BY <1>5, <1>6, <1>10, <1>14
<1>16. box \in Seq(Messages) /\ Len(box) <= MailboxSize
  BY <1>11
<1>17. TenantOK(t, Phase(d, t), t \in TenantRecords', TenantActors[t], starts[t], actor[t], rec[t],
                AllocMap'[t], box)
  BY <1>7, <1>12, <1>13, <1>15
<1> QED
  BY <1>2, <1>7, <1>12, <1>14, <1>15, <1>16, <1>17, DispStep

LEMMA RemoveActorInv ==
  ASSUME IInv, RemoveActor
  PROVE  IInv'
<1>1. /\ disp.pc = "ack" /\ actor[disp.t].pc = "off" /\ Goto("drop")
      /\ TenantActors' = [TenantActors EXCEPT ![disp.t] = 0]
      /\ UNCHANGED <<subnetVars, recordVars, starts, actorVars, kernelVars>>
  BY DEF RemoveActor, At
<1>2. PICK t \in Tenants : disp.t = t
  BY <1>1, DispFacts
<1>3. PICK d \in DispatcherStates :
           disp' = d /\ d.t = t /\ d.pc = "drop" /\ DispOK(d) /\ Phase(d, t) = "drop"
  BY <1>1, <1>2, GotoFacts
<1>4. /\ TypeOK /\ Fields(t, actor[t])
      /\ Life(Phase(disp, t), t \in TenantRecords, TenantActors[t], actor[t].pc)
      /\ RecordOK(Phase(disp, t), t \in TenantRecords, actor[t], rec[t])
      /\ SubnetOK(Phase(disp, t), t \in TenantRecords, actor[t], rec[t], AllocMap[t])
      /\ BoxOK(t, inbox[t], Phase(disp, t), actor[t].pc)
  BY TenantFacts
<1>5. Phase(disp, t) = "ack"
  BY <1>1, <1>2 DEF Phase
<1>6. t \in TenantRecords
  BY <1>4, <1>5 DEF Life, Ensuring
<1>7. Subnet!TypeOK' /\ OthersKeepNodes(t) /\ AllocMap' = AllocMap
  BY <1>1, <1>4, TrieUnchanged DEF TypeOK
<1>8. TenantOK(t, "drop", TRUE, 0, starts[t], actor[t], rec[t], AllocMap[t], inbox[t])
  <2>1. Life("drop", TRUE, 0, actor[t].pc)
    BY <1>1, <1>2 DEF Life
  <2>2. RecordOK("drop", TRUE, actor[t], rec[t])
    BY <1>4, <1>5, <1>6 DEF RecordOK, Removing, Released
  <2>3. SubnetOK("drop", TRUE, actor[t], rec[t], AllocMap[t])
    BY <1>4, <1>5 DEF SubnetOK, Released
  <2>4. StartsOK("drop", starts[t])
    BY DEF StartsOK, Ensuring
  <2>5. BoxOK(t, inbox[t], "drop", actor[t].pc)
    BY <1>1, <1>2, <1>4 DEF BoxOK, MessageOK
  <2> QED
    BY <1>4, <2>1, <2>2, <2>3, <2>4, <2>5 DEF TenantOK
<1>9. /\ starts[t] \in 0 .. MaxStarts /\ actor[t] \in ActorStates
      /\ inbox[t] \in Seq(Messages) /\ Len(inbox[t]) <= MailboxSize
      /\ TenantActors' = [TenantActors EXCEPT ![t] = 0]
      /\ starts' = [starts EXCEPT ![t] = starts[t]] /\ inbox' = [inbox EXCEPT ![t] = inbox[t]]
      /\ actor' = [actor EXCEPT ![t] = actor[t]] /\ rec' = [rec EXCEPT ![t] = rec[t]]
      /\ rec[t] \in OrNone(Records) /\ rec[t] # None
      /\ call' \in [Pods -> Requests] /\ link' \in [Tenants -> Links]
      /\ eth' \in [Pods -> OrNone(Interfaces)] /\ TenantRecords' = TenantRecords
  BY <1>1, <1>2, <1>4, <1>6 DEF TypeOK, actorVars, recordVars, kernelVars
<1>10. (t \in TenantRecords') = TRUE /\ 0 \in Nat
  BY <1>6, <1>9
<1> QED
  BY <1>2, <1>3, <1>7, <1>8, <1>9, <1>10, DispStep

LEMMA RemoveRecordInv ==
  ASSUME IInv, RemoveRecord
  PROVE  IInv'
<1>1. /\ disp.pc = "drop" /\ disp' = Idle /\ TenantRecords' = TenantRecords \ {disp.t}
      /\ rec' = [rec EXCEPT ![disp.t] = IF actor[disp.t].pc = "off" THEN None ELSE @]
      /\ UNCHANGED <<subnetVars, startVars, actorVars, kernelVars>>
  BY DEF RemoveRecord, At
<1>2. PICK t \in Tenants : disp.t = t
  BY <1>1, DispFacts
<1>3. /\ TypeOK /\ Fields(t, actor[t])
      /\ Life(Phase(disp, t), t \in TenantRecords, TenantActors[t], actor[t].pc)
      /\ SubnetOK(Phase(disp, t), t \in TenantRecords, actor[t], rec[t], AllocMap[t])
      /\ BoxOK(t, inbox[t], Phase(disp, t), actor[t].pc)
  BY TenantFacts
<1>4. Phase(disp, t) = "drop"
  BY <1>1, <1>2 DEF Phase
<1>5. TenantActors[t] = 0 /\ actor[t].pc = "off"
  BY <1>3, <1>4 DEF Life, Ensuring, Removing
<1>6. rec' = [rec EXCEPT ![t] = None]
  BY <1>1, <1>2, <1>5
<1>7. Subnet!TypeOK' /\ OthersKeepNodes(t) /\ AllocMap' = AllocMap
  BY <1>1, <1>3, TrieUnchanged DEF TypeOK
<1>8. TenantOK(t, "idle", FALSE, TenantActors[t], starts[t], actor[t], None, AllocMap[t], inbox[t])
  <2>1. Life("idle", FALSE, TenantActors[t], actor[t].pc)
    BY <1>5 DEF Life
  <2>2. RecordOK("idle", FALSE, actor[t], None)
    BY DEF RecordOK
  <2>3. SubnetOK("idle", FALSE, actor[t], None, AllocMap[t])
    BY <1>3, <1>4 DEF SubnetOK, Released
  <2>4. StartsOK("idle", starts[t])
    BY DEF StartsOK, Ensuring
  <2>5. BoxOK(t, inbox[t], "idle", actor[t].pc)
    BY <1>3, <1>4 DEF BoxOK, MessageOK
  <2> QED
    BY <1>3, <2>1, <2>2, <2>3, <2>4, <2>5 DEF TenantOK
<1>9. /\ TenantActors[t] \in Nat /\ starts[t] \in 0 .. MaxStarts /\ actor[t] \in ActorStates
      /\ inbox[t] \in Seq(Messages) /\ Len(inbox[t]) <= MailboxSize
      /\ TenantActors' = [TenantActors EXCEPT ![t] = TenantActors[t]]
      /\ starts' = [starts EXCEPT ![t] = starts[t]] /\ inbox' = [inbox EXCEPT ![t] = inbox[t]]
      /\ actor' = [actor EXCEPT ![t] = actor[t]]
      /\ call' \in [Pods -> Requests] /\ link' \in [Tenants -> Links]
      /\ eth' \in [Pods -> OrNone(Interfaces)]
  BY <1>1, <1>3 DEF TypeOK, actorVars, startVars, kernelVars
<1>10. (t \in TenantRecords') = FALSE /\ None \in OrNone(Records) /\ TenantRecords' = TenantRecords \ {t}
  BY <1>1, <1>2 DEF OrNone
<1>11. TenantOK(t, Phase(Idle, t), t \in TenantRecords', TenantActors[t], starts[t], actor[t], None,
                AllocMap'[t], inbox[t])
  BY <1>7, <1>8, <1>10, IdleFacts
<1>12. /\ ~(t \in TenantRecords') /\ disp.t \in {t, None}
       /\ Idle \in DispatcherStates /\ Idle.t \in {t, None} /\ DispOK(Idle)
       /\ TenantRecords' \in {TenantRecords, TenantRecords \cup {t}, TenantRecords \ {t}}
  BY <1>2, <1>10, IdleFacts
<1> QED
  BY <1>1, <1>6, <1>7, <1>9, <1>10, <1>11, <1>12, DispStep

LEMMA DispatcherInv ==
  ASSUME IInv, Dispatcher
  PROVE  IInv'
BY EnsureSubnetInv, EnsureBackendInv, EnsurePolicyInv, EnsureCommitInv, StartTenantActorInv,
   RemoveVtepInv, RemoveBridgeInv, RemoveFieldsInv, RemoveSubnetInv, RemoveStopInv,
   RemoveActorInv, RemoveRecordInv DEF Dispatcher

-----------------------------------------------------------------------------
(* The requests' steps.                                                    *)

(* A request for tenant t changes its mailbox, and of its actor only       *)
(* whether somebody waits for the answer.                                  *)
LEMMA RequestStep ==
  ASSUME IInv, NEW t \in Tenants, NEW a \in ActorStates,
         a.pc = actor[t].pc, a.attempt = actor[t].attempt, a.ip = actor[t].ip, a.net = actor[t].net,
         a.pod = actor[t].pod, a.pc \in {"off", "loop"} => a = actor[t],
         NEW box \in Seq(Messages), Len(box) <= MailboxSize,
         BoxOK(t, box, Phase(disp, t), actor[t].pc),
         actor' = [actor EXCEPT ![t] = a], inbox' = [inbox EXCEPT ![t] = box],
         UNCHANGED <<subnetVars, recordVars, startVars, disp>>,
         call' \in [Pods -> Requests], link' \in [Tenants -> Links],
         eth' \in [Pods -> OrNone(Interfaces)]
  PROVE  IInv'
<1>1. /\ TypeOK /\ DispOK(disp) /\ Fields(t, actor[t])
      /\ Life(Phase(disp, t), t \in TenantRecords, TenantActors[t], actor[t].pc)
      /\ RecordOK(Phase(disp, t), t \in TenantRecords, actor[t], rec[t])
      /\ SubnetOK(Phase(disp, t), t \in TenantRecords, actor[t], rec[t], AllocMap[t])
      /\ StartsOK(Phase(disp, t), starts[t])
  BY TenantFacts
<1>2. /\ AllocMap' = AllocMap /\ TenantRecords' = TenantRecords /\ rec' = rec
      /\ TenantActors' = TenantActors /\ starts' = starts /\ disp' = disp
  BY DEF subnetVars, recordVars, startVars
<1>3. /\ actor'[t] = a /\ inbox'[t] = box
      /\ \A u \in Tenants : u # t => actor'[u] = actor[u] /\ inbox'[u] = inbox[u]
  BY <1>1 DEF TypeOK
<1>4. TypeOK'
  <2>1. Subnet!TypeOK'
    BY <1>1, TrieUnchanged DEF TypeOK
  <2>2. actor' \in [Tenants -> ActorStates]
    BY <1>1 DEF TypeOK
  <2>3. inbox' \in [Tenants -> Seq(Messages)] /\ \A u \in Tenants : Len(inbox'[u]) <= MailboxSize
    BY <1>1, <1>3 DEF TypeOK
  <2> QED
    BY <1>1, <1>2, <2>1, <2>2, <2>3 DEF TypeOK
<1>5. SameBut(t)
  BY <1>2, <1>3 DEF SameBut
<1>6. TenantOK(t, Phase(disp, t), t \in TenantRecords, TenantActors[t], starts[t],
               a, rec[t], AllocMap[t], box)
  <2>1. Life(Phase(disp, t), t \in TenantRecords, TenantActors[t], a.pc)
    BY <1>1
  <2>2. Fields(t, a)
    BY <1>1 DEF Fields
  <2>3. RecordOK(Phase(disp, t), t \in TenantRecords, a, rec[t])
    BY <1>1 DEF RecordOK
  <2>4. SubnetOK(Phase(disp, t), t \in TenantRecords, a, rec[t], AllocMap[t])
    BY <1>1 DEF SubnetOK
  <2>5. BoxOK(t, box, Phase(disp, t), a.pc)
    OBVIOUS
  <2> QED
    BY <1>1, <2>1, <2>2, <2>3, <2>4, <2>5 DEF TenantOK
<1>7. Here(t)'
  BY <1>2, <1>3, <1>6 DEF Here
<1> QED
  BY <1>1, <1>2, <1>4, <1>5, <1>7, OneTenant

LEMMA PodFacts ==
  ASSUME NEW p \in Pods
  PROVE  p[1] \in Tenants /\ p[2] \in PodKeys /\ p = <<p[1], p[2]>> /\ p[2] # None
BY NMAssumption

LEMMA LookupInv ==
  ASSUME IInv, NEW p \in Pods, NEW kind \in {"ensure", "remove"}, Lookup(p, kind)
  PROVE  IInv'
<1>1. PICK t \in Tenants : t = p[1]
  BY PodFacts
<1>2. /\ TypeOK /\ BoxOK(t, inbox[t], Phase(disp, t), actor[t].pc)
  BY TenantFacts
<1>3. /\ kind = "ensure" => call[p].sandbox < MaxSandboxes
      /\ call' = [call EXCEPT ![p] =
           [at |-> "found", kind |-> kind, h |-> TenantActors[t],
            sandbox |-> IF kind = "ensure" THEN call[p].sandbox + 1 ELSE call[p].sandbox]]
      /\ UNCHANGED <<subnetVars, recordVars, startVars, actor, inbox, disp, kernelVars>>
  BY <1>1 DEF Lookup
<1>4. call[p].sandbox \in 0 .. MaxSandboxes /\ TenantActors[t] \in Nat
  BY <1>2 DEF TypeOK, Requests
<1>5. PICK s : s = IF kind = "ensure" THEN call[p].sandbox + 1 ELSE call[p].sandbox
  OBVIOUS
<1>6. s \in 0 .. MaxSandboxes
  BY <1>3, <1>4, <1>5, NMAssumption
<1>7. [at |-> "found", kind |-> kind, h |-> TenantActors[t], sandbox |-> s] \in Requests
  BY <1>4, <1>6 DEF Requests
<1>8. call' \in [Pods -> Requests]
  BY <1>2, <1>3, <1>5, <1>7 DEF TypeOK
<1>9. /\ actor[t] \in ActorStates /\ inbox[t] \in Seq(Messages) /\ Len(inbox[t]) <= MailboxSize
      /\ actor' = [actor EXCEPT ![t] = actor[t]] /\ inbox' = [inbox EXCEPT ![t] = inbox[t]]
      /\ UNCHANGED <<subnetVars, recordVars, startVars, disp>>
      /\ link' \in [Tenants -> Links] /\ eth' \in [Pods -> OrNone(Interfaces)]
  BY <1>2, <1>3 DEF TypeOK, kernelVars
<1> QED
  BY <1>2, <1>8, <1>9, RequestStep

LEMMA SendInv ==
  ASSUME IInv, NEW p \in Pods, Send(p)
  PROVE  IInv'
<1>1. PICK t \in Tenants : t = p[1]
  BY PodFacts
<1>2. /\ TypeOK /\ BoxOK(t, inbox[t], Phase(disp, t), actor[t].pc)
  BY TenantFacts
<1>3. /\ call[p].at = "found" /\ call' = [call EXCEPT ![p].at = "sent"]
      /\ UNCHANGED <<subnetVars, recordVars, startVars, actor, disp, kernelVars>>
  BY DEF Send
<1>4. call[p] \in Requests
  BY <1>2 DEF TypeOK
<1>5. call[p] \in [at : {"found", "sent"}, kind : {"ensure", "remove"}, h : Nat, sandbox : 0 .. MaxSandboxes]
  BY <1>3, <1>4 DEF Requests
<1>6. [call[p] EXCEPT !.at = "sent"] \in Requests
  BY <1>5 DEF Requests
<1>7. call' \in [Pods -> Requests]
  BY <1>2, <1>3, <1>6 DEF TypeOK
<1>8. /\ actor[t] \in ActorStates /\ inbox[t] \in Seq(Messages) /\ Len(inbox[t]) <= MailboxSize
      /\ actor' = [actor EXCEPT ![t] = actor[t]]
      /\ UNCHANGED <<subnetVars, recordVars, startVars, disp>>
      /\ link' \in [Tenants -> Links] /\ eth' \in [Pods -> OrNone(Interfaces)]
  BY <1>2, <1>3 DEF TypeOK, kernelVars
<1> DEFINE m == [kind |-> call[p].kind, pod |-> p[2], live |-> TRUE]
<1>9. CASE Len(inbox[t]) < MailboxSize /\ inbox' = [inbox EXCEPT ![t] = Append(inbox[t], m)]
  <2>1. m \in Messages
    BY <1>5, PodFacts DEF Messages, OrNone
  <2>2. m.kind # "stop" /\ <<t, m.pod>> \in Pods
    BY <1>1, <1>5, PodFacts
  <2> HIDE DEF m
  <2>3. PICK box : box = Append(inbox[t], m)
    OBVIOUS
  <2>4. /\ box \in Seq(Messages) /\ Len(box) <= MailboxSize
        /\ \A i \in DOMAIN box : (i \in DOMAIN inbox[t] /\ box[i] = inbox[t][i]) \/ box[i] = m
    BY <1>8, <1>9, <2>1, <2>3, SendFacts
  <2>5. BoxOK(t, box, Phase(disp, t), actor[t].pc)
    BY <1>2, <2>2, <2>4 DEF BoxOK, MessageOK
  <2>6. box \in Seq(Messages) /\ Len(box) <= MailboxSize /\ inbox' = [inbox EXCEPT ![t] = box]
    BY <1>9, <2>3, <2>4
  <2> QED
    BY <1>7, <1>8, <2>5, <2>6, RequestStep
<1>10. CASE UNCHANGED inbox
  <2>1. inbox' = [inbox EXCEPT ![t] = inbox[t]]
    BY <1>2, <1>10 DEF TypeOK
  <2> QED
    BY <1>2, <1>7, <1>8, <2>1, RequestStep
<1> QED
  BY <1>1, <1>9, <1>10 DEF Send

(* A message or an actor after the request for pod key k was given up.     *)
Orphaned(m, k) == IF m.pod = k THEN [m EXCEPT !.live = FALSE] ELSE m

LEMMA OrphanedFacts ==
  ASSUME NEW k
  PROVE  /\ \A m \in Messages : /\ Orphaned(m, k) \in Messages /\ Orphaned(m, k).kind = m.kind
                                /\ Orphaned(m, k).pod = m.pod
         /\ \A a \in ActorStates :
              /\ Orphaned(a, k) \in ActorStates /\ Orphaned(a, k).pc = a.pc /\ Orphaned(a, k).pod = a.pod
              /\ Orphaned(a, k).attempt = a.attempt /\ Orphaned(a, k).ip = a.ip
              /\ Orphaned(a, k).net = a.net
<1>1. ASSUME NEW m \in Messages
      PROVE  Orphaned(m, k) \in Messages /\ Orphaned(m, k).kind = m.kind /\ Orphaned(m, k).pod = m.pod
  <2>1. [m EXCEPT !.live = FALSE] \in Messages
    BY DEF Messages
  <2>2. [m EXCEPT !.live = FALSE].kind = m.kind /\ [m EXCEPT !.live = FALSE].pod = m.pod
    BY DEF Messages
  <2> QED
    BY <2>1, <2>2 DEF Orphaned
<1>2. ASSUME NEW a \in ActorStates
      PROVE  /\ Orphaned(a, k) \in ActorStates /\ Orphaned(a, k).pc = a.pc /\ Orphaned(a, k).pod = a.pod
             /\ Orphaned(a, k).attempt = a.attempt /\ Orphaned(a, k).ip = a.ip
             /\ Orphaned(a, k).net = a.net
  <2>1. [a EXCEPT !.live = FALSE] \in ActorStates
    BY DEF ActorStates
  <2>2. PICK x : x = [a EXCEPT !.live = FALSE]
    OBVIOUS
  <2>3. x.pc = a.pc /\ x.pod = a.pod /\ x.attempt = a.attempt /\ x.ip = a.ip /\ x.net = a.net
    BY <2>2 DEF ActorStates
  <2> QED
    BY <2>1, <2>2, <2>3 DEF Orphaned
<1> QED
  BY <1>1, <1>2

LEMMA GiveUpInv ==
  ASSUME IInv, NEW p \in Pods, GiveUp(p)
  PROVE  IInv'
<1>1. PICK t \in Tenants : t = p[1]
  BY PodFacts
<1>2. /\ TypeOK /\ BoxOK(t, inbox[t], Phase(disp, t), actor[t].pc) /\ Fields(t, actor[t])
      /\ actor[t] \in ActorStates /\ inbox[t] \in Seq(Messages) /\ Len(inbox[t]) <= MailboxSize
  BY TenantFacts, TypeFacts
<1>3. /\ call' = [call EXCEPT ![p] = Ended(@)] /\ eth' = [eth EXCEPT ![p] = None]
      /\ inbox' = [inbox EXCEPT ![t] = [i \in DOMAIN inbox[t] |-> Orphaned(inbox[t][i], p[2])]]
      /\ actor' = [actor EXCEPT ![t] = Orphaned(actor[t], p[2])]
      /\ UNCHANGED <<subnetVars, recordVars, startVars, disp, link>>
  BY <1>1 DEF GiveUp, Orphaned
<1>4. call' \in [Pods -> Requests] /\ link' \in [Tenants -> Links]
  BY <1>2, <1>3, EndedType DEF TypeOK
<1>5. eth' \in [Pods -> OrNone(Interfaces)]
  BY <1>2, <1>3 DEF TypeOK, OrNone
<1>6. PICK box : box = [i \in DOMAIN inbox[t] |-> Orphaned(inbox[t][i], p[2])]
  OBVIOUS
<1>7. DOMAIN inbox[t] = 1 .. Len(inbox[t]) /\ \A i \in DOMAIN inbox[t] : inbox[t][i] \in Messages
  BY <1>2
<1>8. /\ DOMAIN box = DOMAIN inbox[t] /\ \A i \in DOMAIN box : box[i] = Orphaned(inbox[t][i], p[2])
      /\ \A i \in DOMAIN box : box[i] \in Messages
  BY <1>6, <1>7, OrphanedFacts
<1>9. box \in Seq(Messages) /\ Len(box) <= MailboxSize
  <2>1. Len(inbox[t]) \in Nat
    BY <1>2
  <2>2. box = [i \in 1 .. Len(inbox[t]) |-> box[i]] /\ \A i \in 1 .. Len(inbox[t]) : box[i] \in Messages
    BY <1>6, <1>7, <1>8
  <2>3. box \in Seq(Messages)
    BY <2>1, <2>2
  <2>4. Len(box) = Len(inbox[t])
    BY <1>7, <1>8, <2>1, <2>3
  <2> QED
    BY <1>2, <2>3, <2>4
<1>10. BoxOK(t, box, Phase(disp, t), actor[t].pc)
  <2>1. \A i \in DOMAIN box : box[i].kind = inbox[t][i].kind /\ box[i].pod = inbox[t][i].pod
    BY <1>7, <1>8, OrphanedFacts
  <2> QED
    BY <1>2, <1>8, <2>1 DEF BoxOK, MessageOK
<1>11. PICK a : a = Orphaned(actor[t], p[2])
  OBVIOUS
<1>12. /\ a \in ActorStates /\ a.pc = actor[t].pc /\ a.attempt = actor[t].attempt
       /\ a.ip = actor[t].ip /\ a.net = actor[t].net /\ a.pod = actor[t].pod
  BY <1>2, <1>11, OrphanedFacts
<1>13. a.pc \in {"off", "loop"} => a = actor[t]
  BY <1>2, <1>11, <1>12, PodFacts, LoopFacts DEF Fields, Orphaned
<1>14. actor' = [actor EXCEPT ![t] = a] /\ inbox' = [inbox EXCEPT ![t] = box]
  BY <1>3, <1>6, <1>11
<1>15. UNCHANGED <<subnetVars, recordVars, startVars, disp>>
  BY <1>3
<1> QED
  BY <1>4, <1>5, <1>9, <1>10, <1>12, <1>13, <1>14, <1>15, RequestStep

LEMMA RequestInv ==
  ASSUME IInv, NEW p \in Pods, Request(p)
  PROVE  IInv'
BY LookupInv, SendInv, GiveUpInv DEF Request

-----------------------------------------------------------------------------
(* The invariant.                                                          *)
LEMMA InitInv == Init => IInv
<1> SUFFICES ASSUME Init PROVE IInv
  OBVIOUS
<1>1. /\ TenantRecords = {} /\ rec = [t \in Tenants |-> None]
      /\ TenantActors = [t \in Tenants |-> 0] /\ starts = [t \in Tenants |-> 0]
      /\ actor = [t \in Tenants |-> Off] /\ inbox = [t \in Tenants |-> <<>>]
      /\ disp = Idle /\ call = [p \in Pods |-> NoCall]
      /\ link = [t \in Tenants |-> NoLink] /\ eth = [p \in Pods |-> None]
  BY DEF Init
<1>2. Subnet!TypeOK /\ AllocMap = [t \in Tenants |-> None]
  BY PrefixAssumption DEF Init, Subnet!Init, Subnet!TypeOK
<1>3. NoCall \in Requests /\ NoLink \in Links
  BY NMAssumption DEF NoCall, NoLink, Requests, Links, OrNone
<1>4. Idle \in DispatcherStates /\ DispOK(Idle)
  BY DEF Idle, DispatcherStates, DispOK, OrNone
<1>5. TypeOK
  <2>1. inbox \in [Tenants -> Seq(Messages)] /\ \A t \in Tenants : Len(inbox[t]) <= MailboxSize
    BY <1>1, NMAssumption
  <2>2. TenantActors \in [Tenants -> Nat] /\ starts \in [Tenants -> 0 .. MaxStarts]
    BY <1>1, NMAssumption
  <2>3. actor \in [Tenants -> ActorStates]
    BY <1>1, LoopFacts
  <2>4. rec \in [Tenants -> OrNone(Records)] /\ eth \in [Pods -> OrNone(Interfaces)]
    BY <1>1 DEF OrNone
  <2>5. call \in [Pods -> Requests] /\ link \in [Tenants -> Links]
    BY <1>1, <1>3
  <2> QED
    BY <1>1, <1>2, <1>4, <2>1, <2>2, <2>3, <2>4, <2>5 DEF TypeOK
<1>6. ASSUME NEW t \in Tenants PROVE Here(t)
  <2>1. Phase(disp, t) = "idle" /\ (t \in TenantRecords) = FALSE
    BY <1>1, IdleFacts
  <2>2. TenantOK(t, "idle", FALSE, 0, 0, Off, None, None, <<>>)
    <3>1. Life("idle", FALSE, 0, Off.pc)
      BY LoopFacts DEF Life
    <3>2. RecordOK("idle", FALSE, Off, None) /\ SubnetOK("idle", FALSE, Off, None, None)
      BY DEF RecordOK, SubnetOK
    <3>3. StartsOK("idle", 0) /\ BoxOK(t, <<>>, "idle", Off.pc)
      BY DEF StartsOK, Ensuring, BoxOK
    <3> QED
      BY <3>1, <3>2, <3>3, LoopFacts DEF TenantOK
  <2>3. /\ TenantActors[t] = 0 /\ starts[t] = 0 /\ actor[t] = Off /\ rec[t] = None
        /\ AllocMap[t] = None /\ inbox[t] = <<>>
    BY <1>1, <1>2
  <2> QED
    BY <2>1, <2>2, <2>3 DEF Here
<1> QED
  BY <1>1, <1>4, <1>5, <1>6 DEF IInv, Here

LEMMA StutterInv ==
  ASSUME IInv, UNCHANGED vars
  PROVE  IInv'
<1>1. /\ linked' = linked /\ owner' = owner /\ AllocMap' = AllocMap
      /\ TenantRecords' = TenantRecords /\ rec' = rec
      /\ TenantActors' = TenantActors /\ starts' = starts
      /\ actor' = actor /\ inbox' = inbox /\ call' = call
      /\ disp' = disp /\ link' = link /\ eth' = eth
  BY DEF vars, subnetVars, recordVars, startVars, actorVars, kernelVars
<1>2. Subnet!TypeOK'
  BY <1>1 DEF IInv, TypeOK, Subnet!TypeOK
<1>3. TypeOK'
  BY <1>1, <1>2 DEF IInv, TypeOK
<1> QED
  BY <1>1, <1>3 DEF IInv

LEMMA NextInv == IInv /\ [Next]_vars => IInv'
<1> SUFFICES ASSUME IInv, [Next]_vars PROVE IInv'
  OBVIOUS
<1>1. ASSUME NEW t \in Tenants, Command(t) PROVE IInv'
  BY <1>1, EnsureTenantInv, RemoveTenantInv DEF Command
<1>2. ASSUME NEW t \in Tenants, Actor(t) PROVE IInv'
  BY <1>2, ActorInv
<1>3. ASSUME Dispatcher PROVE IInv'
  BY <1>3, DispatcherInv
<1>4. ASSUME NEW p \in Pods, Request(p) PROVE IInv'
  BY <1>4, RequestInv
<1> QED
  BY <1>1, <1>2, <1>3, <1>4, StutterInv DEF Next

(* The inductive invariant holds in every reachable state: what the record,*)
(* the actor, its mailbox, the trie and RemoveTenant's or EnsureTenant's   *)
(* progress say about one tenant always fits together.                     *)
THEOREM InvariantHolds == Spec => []IInv
BY InitInv, NextInv, PTL DEF Spec

(* Type correctness.                                                       *)
THEOREM TypeCorrect == Spec => []TypeOK
<1>1. IInv => TypeOK
  BY DEF IInv
<1> QED
  BY <1>1, InvariantHolds, PTL

(* Between two commands a tenant has a record exactly if it has an actor,  *)
(* and EnsureTenant finds nothing of the tenant's former life.             *)
THEOREM NothingLeftBehind == Spec => []CleanSlate
<1>1. IInv => CleanSlate
  <2> SUFFICES ASSUME IInv PROVE CleanSlate
    OBVIOUS
  <2>1. ASSUME disp.pc = "idle", NEW t \in Tenants
        PROVE  (t \in TenantRecords <=> TenantActors[t] # 0) /\ (t \in TenantRecords <=> actor[t].pc # "off")
    <3>1. /\ DispOK(disp) /\ Life(Phase(disp, t), t \in TenantRecords, TenantActors[t], actor[t].pc)
      BY TenantFacts
    <3>2. Phase(disp, t) = "idle"
      BY <2>1, <3>1, NoneAssumption DEF DispOK, Phase
    <3> QED
      BY <3>1, <3>2 DEF Life, Ensuring, Removing
  <2>2. ASSUME disp.pc \in {"subnet", "backend", "policy", "commit", "start"}
        PROVE  /\ actor[disp.t].pc = "off" /\ TenantActors[disp.t] = 0
               /\ disp.t \in TenantRecords <=> disp.pc = "start"
    <3>1. PICK t \in Tenants : t = disp.t /\ Phase(disp, t) = disp.pc
      BY <2>2, DispFacts
    <3>2. Life(Phase(disp, t), t \in TenantRecords, TenantActors[t], actor[t].pc)
      BY TenantFacts
    <3> QED
      BY <2>2, <3>1, <3>2 DEF Life, Ensuring, Removing
  <2> QED
    BY <2>1, <2>2 DEF CleanSlate
<1> QED
  BY <1>1, InvariantHolds, PTL

(* The record of an open tenant claims no more than the trie has granted.  *)
THEOREM RecordsWithinGrants == Spec => []WithinAllocation
<1>1. IInv => WithinAllocation
  <2> SUFFICES ASSUME IInv, NEW t \in TenantRecords, ~Closing(t)
               PROVE  /\ AllocMap[t] # None /\ rec[t].Subnet \subseteq AllocMap[t]
                      /\ actor[t].pc # "record" => rec[t].IPAM.Network = Net(rec[t].Subnet)
    BY DEF WithinAllocation
  <2>1. t \in Tenants
    BY DEF IInv, TypeOK
  <2>2. /\ RecordOK(Phase(disp, t), t \in TenantRecords, actor[t], rec[t])
        /\ SubnetOK(Phase(disp, t), t \in TenantRecords, actor[t], rec[t], AllocMap[t])
    BY <2>1, TenantFacts
  <2>3. Phase(disp, t) \notin Released
    BY <2>2 DEF RecordOK, Closing, Removing, Released
  <2> QED
    BY <2>2, <2>3 DEF RecordOK, SubnetOK
<1> QED
  BY <1>1, InvariantHolds, PTL

(* No subnet without a tenant is lost, but the root.                       *)
THEOREM OnlyTheRootLeaks == Spec => []OnlyRootLeaks
<1>1. IInv => OnlyRootLeaks
  <2> SUFFICES ASSUME IInv, disp.pc = "idle", NEW t \in Tenants \ TenantRecords
               PROVE  AllocMap[t] \in {None, Subnet!Root}
    BY DEF OnlyRootLeaks
  <2>1. /\ DispOK(disp)
        /\ SubnetOK(Phase(disp, t), t \in TenantRecords, actor[t], rec[t], AllocMap[t])
    BY TenantFacts
  <2>2. Phase(disp, t) = "idle"
    BY <2>1, NoneAssumption DEF DispOK, Phase
  <2> QED
    BY <2>1, <2>2 DEF SubnetOK
<1> QED
  BY <1>1, InvariantHolds, PTL

==============================================================================
