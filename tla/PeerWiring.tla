------------------------------ MODULE PeerWiring ------------------------------
(***************************************************************************)
(* How a node learns of the other nodes of a tenant: the daemon's NodeStore*)
(* handlers and reconcileNodeStoreUpdate (internal/daemon), the dispatcher,*)
(* EnsurePeer and RemovePeer (internal/nmanager/nops.go) and the netlink   *)
(* managers of ARP, FDB and routes (pkg/network).  One tenant is followed, *)
(* on one node.                                                            *)
(*                                                                         *)
(* The dispatcher's goroutine is the only one that programs the kernel, so *)
(* a command is one step; each kernel call in it may fail, which ends it.  *)
(* The daemon's worker runs beside it and looks at the local records when  *)
(* it takes a work item, before the commands already in the inbox are done.*)
(* The kernel's tables and the other nodes are external.                   *)
(***************************************************************************)
EXTENDS Naturals, Sequences

CONSTANTS
  Peers,       \* the other nodes
  Infos,       \* what a NodeStore can say of the tenant: the VTEP's address
               \* and MAC and the subnet, which no two nodes have in common
  Shared,      \* another tenant is on all nodes all the time
  Ready,       \* the tenant is on the local node from the beginning
  InboxSize,   \* capacity of the dispatcher's inbox (128)
  MaxUpdates,  \* bound: changes of other nodes' NodeStores
  MaxCommands, \* bound: tenant commands on the local node
  Faults,      \* the kernel calls that may fail
  Incomplete,  \* an entry without the VTEP: a snapshot during a removal
  None

ASSUME PeerAssumption ==
  /\ \A i \in Infos : DOMAIN i = {"ip", "mac", "net"}
  /\ Shared \in BOOLEAN /\ Ready \in BOOLEAN
  /\ InboxSize \in Nat \ {0} /\ MaxUpdates \in Nat /\ MaxCommands \in Nat
  /\ Faults \subseteq {"kernel", "delete"}
  /\ None \notin Infos /\ Incomplete \notin Infos \cup {None}

VARIABLES
  store,    \* the tenant's entry in another node's NodeStore, None if none
  known,    \* the daemon's copy of it
  items,    \* the nodes with a work item in the daemon's queue
  inbox,    \* the dispatcher's inbox
  record,   \* the tenant has a record on the local node
  peers,    \* its Peers: the entry a peer was programmed with, None if none
  tables,   \* kernel: the entries on the tenant's VTEP
  updates, commands  \* counters for the bounds

vars == <<store, known, items, inbox, record, peers, tables, updates, commands>>

NoPeers == [n \in Peers |-> None]
NoEntries == [arp |-> {}, fdb |-> {}, routes |-> {}]

(* NodeStores that are there at startup are delivered as added, which      *)
(* makes a work item.                                                      *)
Init ==
  /\ store = NoPeers /\ known = NoPeers
  /\ items = Peers
  /\ inbox = <<>>
  /\ record = Ready
  /\ peers = NoPeers /\ tables = NoEntries
  /\ updates = 0 /\ commands = 0

-----------------------------------------------------------------------------
(* The managers of ARP, FDB and routes.                                    *)

(* NeighSet replaces the entry of the address.                             *)
ArpAdd(k, n, i) == [k EXCEPT !.arp = {e \in @ : <<e[1], e[2]>> # <<n, i.ip>>} \cup {<<n, i.ip, i.mac>>}]
ArpDelete(k, n, i) == [k EXCEPT !.arp = {e \in @ : <<e[1], e[2]>> # <<n, i.ip>>}]

(* The destination of an FDB entry is the node's address, which is fixed.  *)
FdbAdd(k, n, i) == [k EXCEPT !.fdb = @ \cup {<<n, i.mac>>}]
FdbDelete(k, n, i) == [k EXCEPT !.fdb = @ \ {<<n, i.mac>>}]

(* Route.Update deletes the routes to the subnet and adds the new one.     *)
RouteClear(k, n, i) == [k EXCEPT !.routes = {r \in @ : <<r[1], r[2]>> # <<n, i.net>>}]
RouteAdd(k, n, i) == [k EXCEPT !.routes = @ \cup {<<n, i.net, i.ip>>}]
RouteDelete(k, n, i) == [k EXCEPT !.routes = @ \ {<<n, i.net, i.ip>>}]

Succeeds(k) == {[tables |-> k, ok |-> TRUE]}
FailsAfter(ks) == IF "kernel" \in Faults THEN {[tables |-> k, ok |-> FALSE] : k \in ks} ELSE {}

(* Deleting an entry that is not there is no error.                        *)
removePeerEntries(k, n, i) ==
  LET arp == ArpDelete(k, n, i)
      fdb == FdbDelete(arp, n, i)
  IN  Succeeds(RouteDelete(fdb, n, i)) \cup FailsAfter({k, arp, fdb})

ensurePeerEntries(k, n, i) ==
  LET arp == ArpAdd(k, n, i)
      fdb == FdbAdd(arp, n, i)
      cleared == RouteClear(fdb, n, i)
  IN  Succeeds(RouteAdd(cleared, n, i)) \cup FailsAfter({k, arp, fdb, cleared})

-----------------------------------------------------------------------------
(* The record's Peers.                                                     *)
lookupPeerState(n, i) == peers[n] = i  \* nothing to do for the peer
getStoredPeer(n) == peers[n] # None
storePeerState(n, i) == peers' = [peers EXCEPT ![n] = i]
deletePeerState(n) == peers' = [peers EXCEPT ![n] = None]

(* The dispatcher's commands.                                              *)
Receive(op) == inbox # <<>> /\ Head(inbox).op = op /\ inbox' = Tail(inbox)

Enqueue(c) == Len(inbox) < InboxSize /\ inbox' = Append(inbox, c)

(* The record of a new tenant has no peers.                                *)
EnsureTenant ==
  /\ Receive("ensure")
  /\ record' = TRUE
  /\ peers' = IF record THEN peers ELSE NoPeers
  /\ UNCHANGED <<store, known, items, tables, updates, commands>>

(* With the VTEP its entries go; when it cannot be deleted they stay.      *)
RemoveTenant ==
  /\ Receive("remove")
  /\ record' = FALSE /\ peers' = NoPeers
  /\ \/ tables' = IF record THEN NoEntries ELSE tables
     \/ "delete" \in Faults /\ UNCHANGED tables
  /\ UNCHANGED <<store, known, items, updates, commands>>

(* Faulty variant: the entries of the former peer stay.                    *)
EnsurePeerKeepPrevious ==
  LET n == Head(inbox).node
      i == Head(inbox).info IN
  /\ Receive("ensure-peer")
  /\ IF ~record \/ lookupPeerState(n, i)
     THEN UNCHANGED <<peers, tables>>
     ELSE \E added \in ensurePeerEntries(tables, n, i) :
            /\ tables' = added.tables
            /\ IF added.ok THEN storePeerState(n, i) ELSE deletePeerState(n)
  /\ UNCHANGED <<store, known, items, record, updates, commands>>

(* Faulty variant: the new entries are made before the former ones go.     *)
EnsurePeerAddFirst ==
  LET n == Head(inbox).node
      i == Head(inbox).info IN
  /\ Receive("ensure-peer")
  /\ IF ~record \/ lookupPeerState(n, i)
     THEN UNCHANGED <<peers, tables>>
     ELSE \E added \in ensurePeerEntries(tables, n, i) :
          \E removed \in IF getStoredPeer(n) THEN removePeerEntries(added.tables, n, peers[n])
                         ELSE Succeeds(added.tables) :
            /\ tables' = removed.tables
            /\ storePeerState(n, i)
  /\ UNCHANGED <<store, known, items, record, updates, commands>>

(* EnsurePeer: nothing for a peer that is stored as it is; else the entries*)
(* of the stored peer are removed, the peer is forgotten, the new entries  *)
(* are made and the peer is stored.  An error ends it and is dropped.      *)
EnsurePeer ==
  LET n == Head(inbox).node
      i == Head(inbox).info IN
  /\ Receive("ensure-peer")
  /\ IF ~record \/ lookupPeerState(n, i)
     THEN UNCHANGED <<peers, tables>>
     ELSE \E removed \in IF getStoredPeer(n) THEN removePeerEntries(tables, n, peers[n])
                         ELSE Succeeds(tables) :
            IF ~removed.ok
            THEN tables' = removed.tables /\ UNCHANGED peers
            ELSE \E added \in ensurePeerEntries(removed.tables, n, i) :
                   /\ tables' = added.tables
                   /\ IF added.ok THEN storePeerState(n, i) ELSE deletePeerState(n)
  /\ UNCHANGED <<store, known, items, record, updates, commands>>

(* RemovePeer: the entries of the peer as it is stored.                    *)
RemovePeer ==
  LET n == Head(inbox).node IN
  /\ Receive("remove-peer")
  /\ IF ~record \/ ~getStoredPeer(n)
     THEN UNCHANGED <<peers, tables>>
     ELSE \E removed \in removePeerEntries(tables, n, peers[n]) :
            /\ tables' = removed.tables
            /\ IF removed.ok THEN deletePeerState(n) ELSE UNCHANGED peers
  /\ UNCHANGED <<store, known, items, record, updates, commands>>

-----------------------------------------------------------------------------
(* The daemon's operator.                                                  *)

(* Faulty variant: only the tenants that the new version has are compared. *)
DeliverNoRemoval(n) ==
  /\ known[n] # store[n]
  /\ known' = [known EXCEPT ![n] = store[n]]
  /\ items' = IF store[n] = None THEN items ELSE items \cup {n}
  /\ UNCHANGED <<store, inbox, record, peers, tables, updates, commands>>

(* updateNodestoreEventHandler: a work item when the entry has changed.    *)
Deliver(n) ==
  /\ known[n] # store[n]
  /\ known' = [known EXCEPT ![n] = store[n]]
  /\ items' = items \cup {n}
  /\ UNCHANGED <<store, inbox, record, peers, tables, updates, commands>>

(* Faulty variant: incomplete entries are not refused.                     *)
DeferredEmpty(n) == ~Shared /\ (~record \/ known[n] = None)

(* The item is put back while the local node or the other one has no       *)
(* tenant at all, and while the entry is incomplete.                       *)
Deferred(n) ==
  \/ ~Shared /\ (~record \/ known[n] = None)
  \/ known[n] = Incomplete

(* ensurePeer and removePeer of the operator.                              *)
PeerCommand(n) ==
  IF known[n] = None THEN [op |-> "remove-peer", node |-> n]
  ELSE [op |-> "ensure-peer", node |-> n, info |-> known[n]]

(* reconcileNodeStoreUpdate: for the tenant, if it has a local record, a   *)
(* command to ensure or to remove the peer; Enqueue waits for room.        *)
ReconcileNodeStoreUpdate(n) ==
  /\ n \in items /\ ~Deferred(n)
  /\ items' = items \ {n}
  /\ IF record
     THEN Enqueue(PeerCommand(n))
     ELSE UNCHANGED inbox
  /\ UNCHANGED <<store, known, record, peers, tables, updates, commands>>

-----------------------------------------------------------------------------
(* The environment.                                                        *)

(* What a snapshot of another node can say of the tenant.                  *)
Entries == Infos \cup {Incomplete, None}

(* Another node publishes the tenant, a change of it, or its removal.      *)
Publish(n, i) ==
  /\ updates < MaxUpdates /\ i # store[n]
  /\ updates' = updates + 1
  /\ store' = [store EXCEPT ![n] = i]
  /\ UNCHANGED <<known, items, inbox, record, peers, tables, commands>>

(* The Tenant's events make the daemon ensure or remove the local tenant.  *)
Command(op) ==
  /\ commands < MaxCommands
  /\ commands' = commands + 1
  /\ Enqueue([op |-> op])
  /\ UNCHANGED <<store, known, items, record, peers, tables, updates>>

Dispatch == EnsureTenant \/ RemoveTenant \/ EnsurePeer \/ RemovePeer

Next ==
  \/ Dispatch
  \/ \E n \in Peers : Deliver(n) \/ ReconcileNodeStoreUpdate(n)
  \/ \E n \in Peers : \E i \in Entries : Publish(n, i)
  \/ \E op \in {"ensure", "remove"} : Command(op)

Spec == Init /\ [][Next]_vars

(* Watches deliver; the dispatcher runs; the worker comes back to an item  *)
(* that was put back, and the inbox has room for it again and again.       *)
FairSpec ==
  /\ Spec
  /\ WF_vars(Dispatch)
  /\ \A n \in Peers : WF_vars(Deliver(n)) /\ SF_vars(ReconcileNodeStoreUpdate(n))

-----------------------------------------------------------------------------
Messages ==
  [op : {"ensure", "remove"}] \cup [op : {"remove-peer"}, node : Peers]
  \cup [op : {"ensure-peer"}, node : Peers, info : Infos]

(* Type correctness.                                                       *)
TypeOK ==
  /\ store \in [Peers -> Entries] /\ known \in [Peers -> Entries]
  /\ items \subseteq Peers
  /\ inbox \in Seq(Messages) /\ Len(inbox) <= InboxSize
  /\ record \in BOOLEAN
  /\ peers \in [Peers -> Infos \cup {None}]
  /\ DOMAIN tables = {"arp", "fdb", "routes"}
  /\ tables.arp \subseteq {<<n, i.ip, i.mac>> : n \in Peers, i \in Infos}
  /\ tables.fdb \subseteq {<<n, i.mac>> : n \in Peers, i \in Infos}
  /\ tables.routes \subseteq {<<n, i.net, i.ip>> : n \in Peers, i \in Infos}
  /\ updates \in 0 .. MaxUpdates /\ commands \in 0 .. MaxCommands

Stored == {n \in Peers : peers[n] # None}

(* A peer that the record has stored is programmed: its ARP, FDB and route *)
(* entries are in the kernel.  EnsurePeer skips such a peer, so nothing    *)
(* else would bring a missing entry back.                                  *)
PeersProgrammed ==
  \A n \in Stored :
    /\ <<n, peers[n].ip, peers[n].mac>> \in tables.arp
    /\ <<n, peers[n].mac>> \in tables.fdb
    /\ <<n, peers[n].net, peers[n].ip>> \in tables.routes

(* Entries of no stored peer.                                              *)
Foreign ==
  [arp    |-> tables.arp    \ {<<n, peers[n].ip, peers[n].mac>> : n \in Stored},
   fdb    |-> tables.fdb    \ {<<n, peers[n].mac>> : n \in Stored},
   routes |-> tables.routes \ {<<n, peers[n].net, peers[n].ip>> : n \in Stored}]

(* While no kernel call of EnsurePeer and RemovePeer fails, they leave no  *)
(* entry of no stored peer, however the peer's entry has changed: no       *)
(* traffic goes to a VTEP or for a subnet that a node has given up.  Only  *)
(* a tenant whose VTEP cannot be deleted leaves entries.                   *)
NothingLeft ==
  [][record' = record => \A x \in DOMAIN Foreign : Foreign'[x] \subseteq Foreign[x]]_vars

(* While another tenant is on all nodes, a peer with a work item is in the *)
(* end programmed as its node has published it, and removed when it has    *)
(* not, unless the tenant is removed or the entry is incomplete.           *)
PeersFollow ==
  \A n \in Peers :
    record /\ n \in items ~> ~record \/ store[n] = Incomplete \/ peers[n] = store[n]

-----------------------------------------------------------------------------
(* What a comment says and the code does not do.                           *)

(* "seed peer reconciliation immediately so EnsurePeer runs at least once":*)
(* a node that has published the tenant is in the end a peer of a node that*)
(* has it, also when the tenant came to the local node later.              *)
PeersWired ==
  <>[](record => \A n \in Peers : store[n] \in Infos => peers[n] = store[n])
===============================================================================
