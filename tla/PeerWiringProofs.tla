--------------------------- MODULE PeerWiringProofs ---------------------------
(***************************************************************************)
(* Proofs about PeerWiring, for every set of peers and of entries, every   *)
(* size of the inbox and any number of changes.  A kernel call that fails  *)
(* inside EnsurePeer or RemovePeer breaks both properties (see README), so *)
(* the two theorems about the kernel's tables assume that none does; a     *)
(* VTEP that cannot be deleted is allowed.                                 *)
(***************************************************************************)
EXTENDS PeerWiring, TLAPS

-----------------------------------------------------------------------------
(* The managers of ARP, FDB and routes.                                    *)

(* Kernel tables of the tenant's VTEP.                                     *)
IsTables(k) ==
  /\ DOMAIN k = {"arp", "fdb", "routes"}
  /\ k.arp \subseteq {<<n, i.ip, i.mac>> : n \in Peers, i \in Infos}
  /\ k.fdb \subseteq {<<n, i.mac>> : n \in Peers, i \in Infos}
  /\ k.routes \subseteq {<<n, i.net, i.ip>> : n \in Peers, i \in Infos}

(* Tables that have all three entries of node n as it has published i.     *)
Programmed(k, n, i) ==
  /\ <<n, i.ip, i.mac>> \in k.arp
  /\ <<n, i.mac>> \in k.fdb
  /\ <<n, i.net, i.ip>> \in k.routes

(* What removePeerEntries leaves behind when it succeeds.                  *)
Removed(k, n, i) == RouteDelete(FdbDelete(ArpDelete(k, n, i), n, i), n, i)

(* What ensurePeerEntries leaves behind when it succeeds.                  *)
Added(k, n, i) == RouteAdd(RouteClear(FdbAdd(ArpAdd(k, n, i), n, i), n, i), n, i)

(* Deleting the entries of a peer deletes nothing else that the record     *)
(* could have stored.                                                      *)
LEMMA RemovedEntries ==
  ASSUME NEW k, IsTables(k), NEW n \in Peers, NEW i \in Infos
  PROVE  /\ DOMAIN Removed(k, n, i) = {"arp", "fdb", "routes"}
         /\ Removed(k, n, i).arp = {e \in k.arp : <<e[1], e[2]>> # <<n, i.ip>>}
         /\ Removed(k, n, i).fdb = k.fdb \ {<<n, i.mac>>}
         /\ Removed(k, n, i).routes = k.routes \ {<<n, i.net, i.ip>>}
BY DEF IsTables, Removed, RouteDelete, FdbDelete, ArpDelete

LEMMA AddedEntries ==
  ASSUME NEW k, IsTables(k), NEW n \in Peers, NEW i \in Infos
  PROVE  /\ DOMAIN Added(k, n, i) = {"arp", "fdb", "routes"}
         /\ Added(k, n, i).arp = {e \in k.arp : <<e[1], e[2]>> # <<n, i.ip>>} \cup {<<n, i.ip, i.mac>>}
         /\ Added(k, n, i).fdb = k.fdb \cup {<<n, i.mac>>}
         /\ Added(k, n, i).routes =
              {r \in k.routes : <<r[1], r[2]>> # <<n, i.net>>} \cup {<<n, i.net, i.ip>>}
BY DEF IsTables, Added, RouteAdd, RouteClear, FdbAdd, ArpAdd

LEMMA RemovedIsTables ==
  ASSUME NEW k, IsTables(k), NEW n \in Peers, NEW i \in Infos
  PROVE  IsTables(Removed(k, n, i))
BY RemovedEntries DEF IsTables

LEMMA AddedIsTables ==
  ASSUME NEW k, IsTables(k), NEW n \in Peers, NEW i \in Infos
  PROVE  IsTables(Added(k, n, i))
BY AddedEntries DEF IsTables

(* Every outcome of the two functions, be it after an error, is a table.   *)
LEMMA RemoveOutcomes ==
  ASSUME NEW k, IsTables(k), NEW n \in Peers, NEW i \in Infos,
         NEW o \in removePeerEntries(k, n, i)
  PROVE  /\ IsTables(o.tables)
         /\ "kernel" \notin Faults => o.ok /\ o.tables = Removed(k, n, i)
<1>1. CASE o \in Succeeds(Removed(k, n, i))
  BY <1>1, RemovedIsTables DEF Succeeds
<1>2. CASE o \in FailsAfter({k, ArpDelete(k, n, i), FdbDelete(ArpDelete(k, n, i), n, i)})
  <2>1. PICK x \in {k, ArpDelete(k, n, i), FdbDelete(ArpDelete(k, n, i), n, i)} : o.tables = x
    BY <1>2 DEF FailsAfter
  <2>2. "kernel" \in Faults
    BY <1>2 DEF FailsAfter
  <2>3. IsTables(ArpDelete(k, n, i))
    BY DEF IsTables, ArpDelete
  <2>4. IsTables(FdbDelete(ArpDelete(k, n, i), n, i))
    BY <2>3 DEF IsTables, FdbDelete
  <2> QED
    BY <2>1, <2>2, <2>3, <2>4
<1> QED
  BY <1>1, <1>2 DEF removePeerEntries, Removed

LEMMA EnsureOutcomes ==
  ASSUME NEW k, IsTables(k), NEW n \in Peers, NEW i \in Infos,
         NEW o \in ensurePeerEntries(k, n, i)
  PROVE  /\ IsTables(o.tables)
         /\ o.ok \in BOOLEAN
         /\ o.ok => o.tables = Added(k, n, i)
         /\ "kernel" \notin Faults => o.ok
<1> DEFINE arp == ArpAdd(k, n, i)
           fdb == FdbAdd(arp, n, i)
           cleared == RouteClear(fdb, n, i)
<1>1. CASE o \in Succeeds(Added(k, n, i))
  <2>1. o.ok = TRUE /\ o.tables = Added(k, n, i)
    BY <1>1 DEF Succeeds
  <2> QED
    BY <2>1, AddedIsTables
<1>2. CASE o \in FailsAfter({k, arp, fdb, cleared})
  <2>1. /\ o.tables \in {k, arp, fdb, cleared}
        /\ o.ok = FALSE
        /\ "kernel" \in Faults
    BY <1>2 DEF FailsAfter
  <2>2. IsTables(arp)
    BY DEF IsTables, ArpAdd
  <2>3. IsTables(fdb)
    BY <2>2 DEF IsTables, FdbAdd
  <2>4. IsTables(cleared)
    BY <2>3 DEF IsTables, RouteClear
  <2> QED
    BY <2>1, <2>2, <2>3, <2>4
<1> QED
  BY <1>1, <1>2 DEF ensurePeerEntries, Added

-----------------------------------------------------------------------------
(* The state.                                                              *)

(* A tenant without a record has no peers: deleting the record is all that *)
(* RemoveTenant does about them.                                           *)
NoRecordNoPeers == ~record => peers = NoPeers

(* What the first message of the inbox can be.                             *)
LEMMA HeadMessage ==
  ASSUME TypeOK, inbox # <<>>
  PROVE  /\ Head(inbox) \in Messages
         /\ Tail(inbox) \in Seq(Messages) /\ Len(Tail(inbox)) <= InboxSize
         /\ Head(inbox).op = "ensure-peer" =>
              Head(inbox).node \in Peers /\ Head(inbox).info \in Infos
         /\ Head(inbox).op = "remove-peer" => Head(inbox).node \in Peers
<1>1. /\ Head(inbox) \in Messages
      /\ Tail(inbox) \in Seq(Messages) /\ Len(Tail(inbox)) <= InboxSize
  BY PeerAssumption DEF TypeOK
<1>2. CASE Head(inbox) \in [op : {"ensure", "remove"}]
  BY <1>1, <1>2
<1>3. CASE Head(inbox) \in [op : {"remove-peer"}, node : Peers]
  BY <1>1, <1>3
<1>4. CASE Head(inbox) \in [op : {"ensure-peer"}, node : Peers, info : Infos]
  BY <1>1, <1>4
<1> QED
  BY <1>1, <1>2, <1>3, <1>4 DEF Messages

LEMMA EnqueueType ==
  ASSUME TypeOK, NEW c \in Messages, Enqueue(c)
  PROVE  inbox' \in Seq(Messages) /\ Len(inbox') <= InboxSize
BY PeerAssumption DEF TypeOK, Enqueue

LEMMA TablesType == TypeOK => IsTables(tables)
BY DEF TypeOK, IsTables

LEMMA InitType == Init => TypeOK /\ NoRecordNoPeers
BY PeerAssumption DEF Init, TypeOK, NoRecordNoPeers, NoPeers, NoEntries, Entries

LEMMA NoPeersType == NoPeers \in [Peers -> Infos \cup {None}]
BY DEF NoPeers

(* One step of EnsurePeer, as what it does to the stored peers and to the  *)
(* tables.                                                                 *)
LEMMA EnsurePeerStep ==
  ASSUME TypeOK, EnsurePeer
  PROVE  LET n == Head(inbox).node
             i == Head(inbox).info
             bare == IF peers[n] = None THEN tables ELSE Removed(tables, n, peers[n])
         IN
         /\ n \in Peers /\ i \in Infos
         /\ IsTables(bare) /\ IsTables(tables')
         /\ peers' \in [Peers -> Infos \cup {None}]
         /\ "kernel" \notin Faults =>
              \/ peers' = peers /\ tables' = tables
              \/ record /\ peers' = [peers EXCEPT ![n] = i] /\ tables' = Added(bare, n, i)
         /\ ~record => peers' = peers
<1> DEFINE n == Head(inbox).node
           i == Head(inbox).info
           bare == IF peers[n] = None THEN tables ELSE Removed(tables, n, peers[n])
<1>1. n \in Peers /\ i \in Infos
  BY HeadMessage DEF EnsurePeer, Receive
<1>2. IsTables(tables) /\ IsTables(bare)
  BY <1>1, TablesType, RemovedIsTables DEF TypeOK
<1>3. CASE ~record \/ lookupPeerState(n, i)
  <2>1. peers' = peers /\ tables' = tables
    BY <1>3 DEF EnsurePeer
  <2> QED
    BY <1>1, <1>2, <2>1 DEF TypeOK
<1>4. CASE ~(~record \/ lookupPeerState(n, i))
  <2>1. PICK removed \in (IF getStoredPeer(n) THEN removePeerEntries(tables, n, peers[n])
                          ELSE Succeeds(tables)) :
          IF ~removed.ok
          THEN tables' = removed.tables /\ UNCHANGED peers
          ELSE \E added \in ensurePeerEntries(removed.tables, n, i) :
                 /\ tables' = added.tables
                 /\ IF added.ok THEN storePeerState(n, i) ELSE deletePeerState(n)
    BY <1>4 DEF EnsurePeer
  <2>2. /\ IsTables(removed.tables)
        /\ "kernel" \notin Faults => removed.ok /\ removed.tables = bare
    <3>1. CASE getStoredPeer(n)
      <4>1. peers[n] \in Infos
        BY <3>1, <1>1 DEF getStoredPeer, TypeOK
      <4>2. removed \in removePeerEntries(tables, n, peers[n])
        BY <2>1, <3>1
      <4> QED
        BY <1>1, <1>2, <3>1, <4>1, <4>2, RemoveOutcomes DEF getStoredPeer
    <3>2. CASE ~getStoredPeer(n)
      BY <2>1, <3>2, <1>2 DEF getStoredPeer, Succeeds
    <3> QED
      BY <3>1, <3>2
  <2>3. CASE ~removed.ok
    <3>1. tables' = removed.tables /\ peers' = peers
      BY <2>1, <2>3
    <3> QED
      BY <1>1, <1>2, <1>4, <2>2, <2>3, <3>1 DEF TypeOK
  <2>4. CASE removed.ok
    <3>1. PICK added \in ensurePeerEntries(removed.tables, n, i) :
            /\ tables' = added.tables
            /\ IF added.ok THEN storePeerState(n, i) ELSE deletePeerState(n)
      BY <2>1, <2>4
    <3>2. /\ IsTables(added.tables)
          /\ added.ok => added.tables = Added(removed.tables, n, i)
          /\ "kernel" \notin Faults => added.ok
      BY <1>1, <2>2, EnsureOutcomes
    <3>3. peers' \in [Peers -> Infos \cup {None}]
      BY <1>1, <3>1 DEF storePeerState, deletePeerState, TypeOK
    <3>4. "kernel" \notin Faults => /\ peers' = [peers EXCEPT ![n] = i]
                                    /\ tables' = Added(bare, n, i)
      BY <2>2, <3>1, <3>2 DEF storePeerState
    <3> QED
      BY <1>1, <1>2, <1>4, <3>1, <3>2, <3>3, <3>4
  <2> QED
    BY <2>3, <2>4
<1> QED
  BY <1>3, <1>4

LEMMA RemovePeerStep ==
  ASSUME TypeOK, RemovePeer
  PROVE  LET n == Head(inbox).node IN
         /\ n \in Peers
         /\ IsTables(tables')
         /\ peers' \in [Peers -> Infos \cup {None}]
         /\ "kernel" \notin Faults =>
              \/ peers' = peers /\ tables' = tables
              \/ /\ record /\ peers[n] # None
                 /\ peers' = [peers EXCEPT ![n] = None]
                 /\ tables' = Removed(tables, n, peers[n])
         /\ ~record => peers' = peers
<1> DEFINE n == Head(inbox).node
<1>1. n \in Peers
  BY HeadMessage DEF RemovePeer, Receive
<1>2. IsTables(tables)
  BY TablesType
<1>3. CASE ~record \/ ~getStoredPeer(n)
  <2>1. peers' = peers /\ tables' = tables
    BY <1>3 DEF RemovePeer
  <2> QED
    BY <1>1, <1>2, <2>1 DEF TypeOK
<1>4. CASE ~(~record \/ ~getStoredPeer(n))
  <2>1. PICK removed \in removePeerEntries(tables, n, peers[n]) :
          /\ tables' = removed.tables
          /\ IF removed.ok THEN deletePeerState(n) ELSE UNCHANGED peers
    BY <1>4 DEF RemovePeer
  <2>2. peers[n] \in Infos
    BY <1>1, <1>4 DEF getStoredPeer, TypeOK
  <2>3. /\ IsTables(removed.tables)
        /\ "kernel" \notin Faults => removed.ok /\ removed.tables = Removed(tables, n, peers[n])
    BY <1>1, <1>2, <2>1, <2>2, RemoveOutcomes
  <2>4. peers' \in [Peers -> Infos \cup {None}]
    BY <1>1, <2>1 DEF deletePeerState, TypeOK
  <2> QED
    BY <1>1, <1>4, <2>1, <2>3, <2>4 DEF deletePeerState, getStoredPeer
<1> QED
  BY <1>3, <1>4

-----------------------------------------------------------------------------
(* Types.                                                                  *)
LEMMA NextType ==
  ASSUME TypeOK, NoRecordNoPeers, Next
  PROVE  TypeOK' /\ NoRecordNoPeers'
<1>1. CASE EnsureTenant
  <2>1. inbox' \in Seq(Messages) /\ Len(inbox') <= InboxSize
    BY <1>1, HeadMessage DEF EnsureTenant, Receive
  <2>2. peers' \in [Peers -> Infos \cup {None}]
    BY <1>1, NoPeersType DEF EnsureTenant, TypeOK
  <2> QED
    BY <1>1, <2>1, <2>2 DEF EnsureTenant, TypeOK, NoRecordNoPeers
<1>2. CASE RemoveTenant
  <2>1. inbox' \in Seq(Messages) /\ Len(inbox') <= InboxSize
    BY <1>2, HeadMessage DEF RemoveTenant, Receive
  <2>2. IsTables(tables')
    <3>1. tables' \in {tables, NoEntries}
      BY <1>2 DEF RemoveTenant
    <3>2. IsTables(NoEntries)
      BY DEF IsTables, NoEntries
    <3> QED
      BY <3>1, <3>2, TablesType
  <2>3. record' = FALSE /\ peers' = NoPeers /\ NoPeers \in [Peers -> Infos \cup {None}]
    BY <1>2, NoPeersType DEF RemoveTenant
  <2>4. UNCHANGED <<store, known, items, updates, commands>>
    BY <1>2 DEF RemoveTenant
  <2>5. record' \in BOOLEAN /\ peers' \in [Peers -> Infos \cup {None}]
    BY <2>3
  <2>6. NoRecordNoPeers'
    BY <2>3 DEF NoRecordNoPeers, NoPeers
  <2> QED
    BY <2>1, <2>2, <2>4, <2>5, <2>6 DEF TypeOK, IsTables
<1>3. CASE EnsurePeer
  <2>1. inbox' \in Seq(Messages) /\ Len(inbox') <= InboxSize
    BY <1>3, HeadMessage DEF EnsurePeer, Receive
  <2>2. /\ IsTables(tables') /\ peers' \in [Peers -> Infos \cup {None}]
        /\ ~record => peers' = peers
    BY <1>3, EnsurePeerStep
  <2>3. UNCHANGED <<store, known, items, record, updates, commands>>
    BY <1>3 DEF EnsurePeer
  <2> QED
    BY <2>1, <2>2, <2>3 DEF TypeOK, NoRecordNoPeers, IsTables, NoPeers
<1>4. CASE RemovePeer
  <2>1. inbox' \in Seq(Messages) /\ Len(inbox') <= InboxSize
    BY <1>4, HeadMessage DEF RemovePeer, Receive
  <2>2. /\ IsTables(tables') /\ peers' \in [Peers -> Infos \cup {None}]
        /\ ~record => peers' = peers
    BY <1>4, RemovePeerStep
  <2>3. UNCHANGED <<store, known, items, record, updates, commands>>
    BY <1>4 DEF RemovePeer
  <2> QED
    BY <2>1, <2>2, <2>3 DEF TypeOK, NoRecordNoPeers, IsTables, NoPeers
<1>5. ASSUME NEW n \in Peers, Deliver(n)
      PROVE  TypeOK' /\ NoRecordNoPeers'
  BY <1>5 DEF Deliver, TypeOK, NoRecordNoPeers, NoPeers
<1>6. ASSUME NEW n \in Peers, ReconcileNodeStoreUpdate(n)
      PROVE  TypeOK' /\ NoRecordNoPeers'
  <2>1. PeerCommand(n) \in Messages
    <3>1. known[n] \in Infos \cup {None}
      BY <1>6 DEF ReconcileNodeStoreUpdate, Deferred, TypeOK, Entries
    <3>2. CASE known[n] = None
      BY <3>2 DEF PeerCommand, Messages
    <3>3. CASE known[n] \in Infos
      BY <3>3, PeerAssumption DEF PeerCommand, Messages
    <3> QED
      BY <3>1, <3>2, <3>3
  <2>2. inbox' \in Seq(Messages) /\ Len(inbox') <= InboxSize
    BY <1>6, <2>1, EnqueueType DEF ReconcileNodeStoreUpdate, TypeOK
  <2> QED
    BY <1>6, <2>2 DEF ReconcileNodeStoreUpdate, TypeOK, NoRecordNoPeers, NoPeers
<1>7. ASSUME NEW n \in Peers, NEW i \in Entries, Publish(n, i)
      PROVE  TypeOK' /\ NoRecordNoPeers'
  BY <1>7, PeerAssumption DEF Publish, TypeOK, NoRecordNoPeers, NoPeers
<1>8. ASSUME NEW op \in {"ensure", "remove"}, Command(op)
      PROVE  TypeOK' /\ NoRecordNoPeers'
  <2>1. [op |-> op] \in Messages
    BY DEF Messages
  <2>2. inbox' \in Seq(Messages) /\ Len(inbox') <= InboxSize
    BY <1>8, <2>1, EnqueueType DEF Command
  <2> QED
    BY <1>8, <2>2, PeerAssumption DEF Command, TypeOK, NoRecordNoPeers, NoPeers
<1> QED
  BY <1>1, <1>2, <1>3, <1>4, <1>5, <1>6, <1>7, <1>8 DEF Next, Dispatch

LEMMA StutterType == TypeOK /\ NoRecordNoPeers /\ UNCHANGED vars => TypeOK' /\ NoRecordNoPeers'
BY DEF vars, TypeOK, NoRecordNoPeers, NoPeers

LEMMA TypeInvariant == Spec => [](TypeOK /\ NoRecordNoPeers)
BY InitType, NextType, StutterType, PTL DEF Spec

(* Every message in the inbox is one that the dispatcher can carry out, an *)
(* incomplete entry never becomes a command (reconcileNodeStoreUpdate),    *)
(* and the tables hold only entries of published infos.                    *)
THEOREM TypeCorrect == Spec => []TypeOK
BY TypeInvariant, PTL

-----------------------------------------------------------------------------
(* The entries of the stored peers are in the kernel.                      *)

LEMMA StoredIsInfo == TypeOK => \A n \in Stored : n \in Peers /\ peers[n] \in Infos
BY DEF Stored, TypeOK

(* Programming node n leaves the entries of the other nodes alone.         *)
LEMMA AddedProgrammed ==
  ASSUME NEW k, IsTables(k), NEW n \in Peers, NEW i \in Infos
  PROVE  /\ Programmed(Added(k, n, i), n, i)
         /\ \A m \in Peers, j \in Infos : m # n /\ Programmed(k, m, j) => Programmed(Added(k, n, i), m, j)
BY AddedEntries DEF Programmed

LEMMA RemovedProgrammed ==
  ASSUME NEW k, IsTables(k), NEW n \in Peers, NEW i \in Infos
  PROVE  \A m \in Peers, j \in Infos : m # n /\ Programmed(k, m, j) => Programmed(Removed(k, n, i), m, j)
BY RemovedEntries DEF Programmed

LEMMA NextProgrammed ==
  ASSUME "kernel" \notin Faults, TypeOK, NoRecordNoPeers, PeersProgrammed, Next
  PROVE  PeersProgrammed'
<1> USE DEF Programmed
<1>1. ASSUME peers' = peers, tables' = tables PROVE PeersProgrammed'
  BY <1>1 DEF PeersProgrammed, Stored
<1>2. ASSUME peers' = NoPeers PROVE PeersProgrammed'
  BY <1>2 DEF PeersProgrammed, Stored, NoPeers
<1>3. CASE EnsureTenant
  BY <1>1, <1>2, <1>3 DEF EnsureTenant
<1>4. CASE RemoveTenant
  BY <1>2, <1>4 DEF RemoveTenant
<1>5. CASE EnsurePeer
  <2> DEFINE n == Head(inbox).node
             i == Head(inbox).info
             bare == IF peers[n] = None THEN tables ELSE Removed(tables, n, peers[n])
  <2>1. /\ n \in Peers /\ i \in Infos /\ IsTables(bare)
        /\ \/ peers' = peers /\ tables' = tables
           \/ peers' = [peers EXCEPT ![n] = i] /\ tables' = Added(bare, n, i)
    BY <1>5, EnsurePeerStep
  <2>2. CASE peers' = [peers EXCEPT ![n] = i] /\ tables' = Added(bare, n, i)
    <3>1. SUFFICES ASSUME NEW m \in Peers, peers'[m] # None
                   PROVE  Programmed(tables', m, peers'[m])
      BY DEF PeersProgrammed, Stored
    <3>2. CASE m = n
      <4>1. peers'[m] = i
        BY <2>1, <2>2, <3>2 DEF TypeOK
      <4> QED
        BY <2>1, <2>2, <3>2, <4>1, AddedProgrammed
    <3>3. CASE m # n
      <4>1. peers'[m] = peers[m] /\ peers[m] \in Infos
        BY <2>1, <2>2, <3>1, <3>3 DEF TypeOK
      <4>2. Programmed(tables, m, peers[m])
        BY <3>1, <4>1 DEF PeersProgrammed, Stored
      <4>3. Programmed(bare, m, peers[m])
        <5>1. CASE peers[n] = None
          BY <4>2, <5>1
        <5>2. CASE peers[n] # None
          <6>1. peers[n] \in Infos
            BY <2>1, <5>2 DEF TypeOK
          <6> QED
            BY <2>1, <3>3, <4>1, <4>2, <5>2, <6>1, RemovedProgrammed, TablesType
        <5> QED
          BY <5>1, <5>2
      <4> QED
        BY <2>1, <2>2, <3>3, <4>1, <4>3, AddedProgrammed
    <3> QED
      BY <3>2, <3>3
  <2> QED
    BY <1>1, <2>1, <2>2
<1>6. CASE RemovePeer
  <2> DEFINE n == Head(inbox).node
  <2>1. /\ n \in Peers
        /\ \/ peers' = peers /\ tables' = tables
           \/ /\ peers[n] # None /\ peers' = [peers EXCEPT ![n] = None]
              /\ tables' = Removed(tables, n, peers[n])
    BY <1>6, RemovePeerStep
  <2>2. CASE /\ peers[n] # None /\ peers' = [peers EXCEPT ![n] = None]
             /\ tables' = Removed(tables, n, peers[n])
    <3>1. SUFFICES ASSUME NEW m \in Peers, peers'[m] # None
                   PROVE  Programmed(tables', m, peers'[m])
      BY DEF PeersProgrammed, Stored
    <3>2. m # n /\ peers'[m] = peers[m] /\ peers[m] \in Infos /\ peers[n] \in Infos
      BY <2>1, <2>2, <3>1 DEF TypeOK
    <3>3. Programmed(tables, m, peers[m])
      BY <3>1, <3>2 DEF PeersProgrammed, Stored
    <3> QED
      BY <2>1, <2>2, <3>2, <3>3, RemovedProgrammed, TablesType
  <2> QED
    BY <1>1, <2>1, <2>2
<1>7. ASSUME NEW n \in Peers, Deliver(n) \/ ReconcileNodeStoreUpdate(n) PROVE PeersProgrammed'
  BY <1>1, <1>7 DEF Deliver, ReconcileNodeStoreUpdate
<1>8. ASSUME NEW n \in Peers, NEW i \in Entries, Publish(n, i) PROVE PeersProgrammed'
  BY <1>1, <1>8 DEF Publish
<1>9. ASSUME NEW op \in {"ensure", "remove"}, Command(op) PROVE PeersProgrammed'
  BY <1>1, <1>9 DEF Command
<1> QED
  BY <1>3, <1>4, <1>5, <1>6, <1>7, <1>8, <1>9 DEF Next, Dispatch

(* A peer that the record has stored has its three kernel entries, however *)
(* its NodeStore changes and whenever the tenant comes and goes, as long   *)
(* as no kernel call inside EnsurePeer and RemovePeer fails.               *)
THEOREM StoredPeersProgrammed ==
  ASSUME "kernel" \notin Faults
  PROVE  Spec => []PeersProgrammed
<1>1. Init => PeersProgrammed
  BY DEF Init, PeersProgrammed, Stored, NoPeers
<1>2. TypeOK /\ NoRecordNoPeers /\ PeersProgrammed /\ [Next]_vars => PeersProgrammed'
  <2>1. ASSUME PeersProgrammed, UNCHANGED vars PROVE PeersProgrammed'
    BY <2>1 DEF PeersProgrammed, Stored, vars
  <2> QED
    BY <2>1, NextProgrammed
<1> QED
  BY <1>1, <1>2, TypeInvariant, PTL DEF Spec

-----------------------------------------------------------------------------
(* Nothing of a former peer is left.                                       *)

(* The entries of the stored peers, by table.                              *)
Own ==
  [arp    |-> {<<n, peers[n].ip, peers[n].mac>> : n \in Stored},
   fdb    |-> {<<n, peers[n].mac>> : n \in Stored},
   routes |-> {<<n, peers[n].net, peers[n].ip>> : n \in Stored}]

(* A step in which every entry that it adds is one of a stored peer, and   *)
(* every entry of a peer that it forgets goes, leaves nothing.             *)
LEMMA NothingNew ==
  ASSUME \A x \in {"arp", "fdb", "routes"} : tables'[x] \ Own'[x] \subseteq tables[x] \ Own[x]
  PROVE  \A x \in DOMAIN Foreign : Foreign'[x] \subseteq Foreign[x]
BY DEF Foreign, Own

LEMMA SamePeers ==
  ASSUME peers' = peers, tables' = tables
  PROVE  \A x \in DOMAIN Foreign : Foreign'[x] \subseteq Foreign[x]
BY DEF Foreign, Stored

LEMMA NextNothingLeft ==
  ASSUME "kernel" \notin Faults, TypeOK, NoRecordNoPeers, Next, record' = record
  PROVE  \A x \in DOMAIN Foreign : Foreign'[x] \subseteq Foreign[x]
<1>1. CASE EnsureTenant
  <2>1. peers' = peers /\ tables' = tables
    BY <1>1 DEF EnsureTenant
  <2> QED
    BY <2>1, SamePeers
<1>2. CASE RemoveTenant
  <2>1. peers' = peers /\ tables' = tables
    BY <1>2 DEF RemoveTenant, NoRecordNoPeers
  <2> QED
    BY <2>1, SamePeers
<1>3. CASE EnsurePeer
  <2> DEFINE n == Head(inbox).node
             i == Head(inbox).info
             bare == IF peers[n] = None THEN tables ELSE Removed(tables, n, peers[n])
  <2>1. /\ n \in Peers /\ i \in Infos /\ IsTables(bare)
        /\ \/ peers' = peers /\ tables' = tables
           \/ peers' = [peers EXCEPT ![n] = i] /\ tables' = Added(bare, n, i)
    BY <1>3, EnsurePeerStep
  <2>2. CASE peers' = [peers EXCEPT ![n] = i] /\ tables' = Added(bare, n, i)
    <3>1. \A m \in Peers : peers'[m] = IF m = n THEN i ELSE peers[m]
      BY <2>2 DEF TypeOK
    <3>2. n \in Stored' /\ \A m \in Stored : m # n => m \in Stored'
      BY <2>1, <3>1, PeerAssumption DEF Stored
    <3>3. /\ tables'.arp \subseteq bare.arp \cup {<<n, i.ip, i.mac>>}
          /\ tables'.fdb \subseteq bare.fdb \cup {<<n, i.mac>>}
          /\ tables'.routes \subseteq bare.routes \cup {<<n, i.net, i.ip>>}
      BY <2>1, <2>2, AddedEntries
    <3>4. /\ bare.arp \subseteq tables.arp
          /\ bare.fdb \subseteq tables.fdb
          /\ bare.routes \subseteq tables.routes
          /\ n \in Stored => /\ <<n, peers[n].ip, peers[n].mac>> \notin bare.arp
                             /\ <<n, peers[n].mac>> \notin bare.fdb
                             /\ <<n, peers[n].net, peers[n].ip>> \notin bare.routes
      <4>1. CASE peers[n] = None
        BY <4>1 DEF Stored
      <4>2. CASE peers[n] # None
        <5>1. peers[n] \in Infos
          BY <2>1, <4>2 DEF TypeOK
        <5> QED
          BY <2>1, <4>2, <5>1, RemovedEntries, TablesType
      <4> QED
        BY <4>1, <4>2
    <3>5. tables'.arp \ Own'.arp \subseteq tables.arp \ Own.arp
      BY <2>1, <3>1, <3>2, <3>3, <3>4 DEF Own, Stored
    <3>6. tables'.fdb \ Own'.fdb \subseteq tables.fdb \ Own.fdb
      BY <2>1, <3>1, <3>2, <3>3, <3>4 DEF Own, Stored
    <3>7. tables'.routes \ Own'.routes \subseteq tables.routes \ Own.routes
      BY <2>1, <3>1, <3>2, <3>3, <3>4 DEF Own, Stored
    <3> QED
      BY <3>5, <3>6, <3>7, NothingNew
  <2> QED
    BY <2>1, <2>2, SamePeers
<1>4. CASE RemovePeer
  <2> DEFINE n == Head(inbox).node
  <2>1. /\ n \in Peers
        /\ \/ peers' = peers /\ tables' = tables
           \/ /\ peers[n] # None /\ peers' = [peers EXCEPT ![n] = None]
              /\ tables' = Removed(tables, n, peers[n])
    BY <1>4, RemovePeerStep
  <2>2. CASE /\ peers[n] # None /\ peers' = [peers EXCEPT ![n] = None]
             /\ tables' = Removed(tables, n, peers[n])
    <3>1. \A m \in Peers : peers'[m] = IF m = n THEN None ELSE peers[m]
      BY <2>2 DEF TypeOK
    <3>2. \A m \in Stored : m # n => m \in Stored'
      BY <2>1, <3>1 DEF Stored
    <3>3. /\ tables'.arp \subseteq tables.arp \ {<<n, peers[n].ip, peers[n].mac>>}
          /\ tables'.fdb \subseteq tables.fdb \ {<<n, peers[n].mac>>}
          /\ tables'.routes \subseteq tables.routes \ {<<n, peers[n].net, peers[n].ip>>}
      <4>1. peers[n] \in Infos
        BY <2>1, <2>2 DEF TypeOK
      <4> QED
        BY <2>1, <2>2, <4>1, RemovedEntries, TablesType
    <3>4. tables'.arp \ Own'.arp \subseteq tables.arp \ Own.arp
      BY <2>1, <3>1, <3>2, <3>3 DEF Own, Stored
    <3>5. tables'.fdb \ Own'.fdb \subseteq tables.fdb \ Own.fdb
      BY <2>1, <3>1, <3>2, <3>3 DEF Own, Stored
    <3>6. tables'.routes \ Own'.routes \subseteq tables.routes \ Own.routes
      BY <2>1, <3>1, <3>2, <3>3 DEF Own, Stored
    <3> QED
      BY <3>4, <3>5, <3>6, NothingNew
  <2> QED
    BY <2>1, <2>2, SamePeers
<1>5. ASSUME NEW n \in Peers, Deliver(n) \/ ReconcileNodeStoreUpdate(n)
      PROVE  peers' = peers /\ tables' = tables
  BY <1>5 DEF Deliver, ReconcileNodeStoreUpdate
<1>6. ASSUME NEW n \in Peers, NEW i \in Entries, Publish(n, i)
      PROVE  peers' = peers /\ tables' = tables
  BY <1>6 DEF Publish
<1>7. ASSUME NEW op \in {"ensure", "remove"}, Command(op)
      PROVE  peers' = peers /\ tables' = tables
  BY <1>7 DEF Command
<1> QED
  BY <1>1, <1>2, <1>3, <1>4, <1>5, <1>6, <1>7, SamePeers DEF Next, Dispatch

(* EnsurePeer and RemovePeer leave no entry of a former peer or of a former*)
(* version of a peer behind, as long as none of their kernel calls fails.  *)
THEOREM FormerPeersGone ==
  ASSUME "kernel" \notin Faults
  PROVE  Spec => NothingLeft
<1>1. TypeOK /\ NoRecordNoPeers /\ [Next]_vars =>
        [record' = record => \A x \in DOMAIN Foreign : Foreign'[x] \subseteq Foreign[x]]_vars
  BY NextNothingLeft
<1> QED
  BY <1>1, TypeInvariant, PTL DEF Spec, NothingLeft
===============================================================================
