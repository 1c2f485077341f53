------------------------------ MODULE Placement ------------------------------
(***************************************************************************)
(* The placement of one tenant on the nodes of the cluster: the            *)
(* orchestrator (internal/orchestrator) on the worker of pkg/operator, and *)
(* the part of every node's daemon that answers it (internal/daemon).      *)
(*                                                                         *)
(* The Tenant's status names the nodes that are to set the tenant up       *)
(* (AwaitingNodeConfiguration) and the nodes that have (AssignedNodes, with*)
(* what the node has published about the tenant).  A daemon that finds its *)
(* node awaiting ensures the tenant and publishes it in its NodeStore; the *)
(* orchestrator hears of that and moves the node to the assigned ones.     *)
(*                                                                         *)
(* Both sides act on informer caches that lag behind the API server.  A    *)
(* status write with a stale resource version is refused and the work item *)
(* is put back.  Versions are abstracted to whether a copy is current.     *)
(* Several changes of one object may be delivered as one.  The API server, *)
(* its watches and the administrator are external.                         *)
(***************************************************************************)
EXTENDS Integers, FiniteSets

CONSTANTS
  Nodes,          \* node names, numbers so that they can be sorted
  MaxZones,       \* bound: spec.zones
  InitialZones,   \* spec.zones of the Tenant when it is created
  MaxInfra,       \* bound: versions of the tenant's infrastructure on a node
  Growing,        \* nodes on which the tenant's subnet grows
  MaxSpecChanges, \* bound: changes of spec.zones
  MaxRestarts,    \* bound: restarts of the orchestrator
  MaxDeletes,     \* bound: NodeStores deleted
  GrowOnly,       \* spec.zones is only ever increased
  Faults,         \* the daemon's calls that may fail
  None

ASSUME PlacementAssumption ==
  /\ Nodes \subseteq Nat /\ IsFiniteSet(Nodes)
  /\ MaxZones \in Nat \ {0} /\ MaxInfra \in Nat \ {0}
  /\ InitialZones \subseteq 1 .. MaxZones /\ Growing \subseteq Nodes
  /\ MaxSpecChanges \in Nat /\ MaxRestarts \in Nat /\ MaxDeletes \in Nat
  /\ GrowOnly \in BOOLEAN
  /\ Faults \subseteq {"ensure", "mirror"}
  /\ None \notin Nat

VARIABLES
  api,      \* the Tenant on the API server
  cache,    \* the orchestrator's copy of it, None before the first delivery
  fresh,    \* the copy has the API server's resource version
  newSpec,  \* the generation has changed since the last delivery
  store,    \* the tenant's entry in a node's NodeStore: None without a
            \* NodeStore, 0 without an entry
  scache,   \* the orchestrator's copies of the NodeStores
  queue,    \* the work items waiting in the orchestrator's queue
  work,     \* the status write that the worker is about to make
  dfresh,   \* a node's daemon has seen the current version of the Tenant
  ensure,   \* it has an EnsureTenant command in its dispatcher
  infra,    \* the version of its infrastructure for the tenant, 0 without
  mirror,   \* it has a network-manager event in its queue
  gone,     \* nodes whose NodeStore has been deleted
  changes, restarts  \* counters for the bounds

tenantVars == <<api, fresh, newSpec, dfresh>>
storeVars  == <<store, gone>>
cacheVars  == <<cache, scache>>
workVars   == <<queue, work>>
daemonVars == <<ensure, infra, mirror>>
bounds     == <<changes, restarts>>
vars == <<tenantVars, storeVars, cacheVars, workVars, daemonVars, bounds>>

Items == {"tenant-add", "tenant-update", "store-add", "store-update", "store-delete"}

NoNode == [n \in Nodes |-> 0]
Assigned(as) == {n \in Nodes : as[n] # 0}
Stores(s) == {n \in Nodes : s[n] # None}
Least(a, b) == IF a < b THEN a ELSE b

(* Faulty variant: a node without a NodeStore is taken for one with.       *)
PublishedRaw(s) == s

(* What the NodeStores say of the tenant.                                  *)
Published(s) == [n \in Nodes |-> IF s[n] = None THEN 0 ELSE s[n]]

Init ==
  /\ api \in [zones : InitialZones, awaiting : {{}}, assigned : {NoNode}, finalizer : {FALSE}]
  /\ cache = None /\ fresh = FALSE /\ newSpec = FALSE
  /\ store = [n \in Nodes |-> None] /\ scache = store
  /\ queue = {} /\ work = None
  /\ dfresh = [n \in Nodes |-> FALSE] /\ ensure = dfresh /\ mirror = dfresh
  /\ infra = NoNode
  /\ gone = {} /\ changes = 0 /\ restarts = 0

(* The API server stores a changed Tenant: no copy is current any more,    *)
(* and the write under way will be refused.                                *)
Outdate ==
  /\ fresh' = FALSE
  /\ dfresh' = [n \in Nodes |-> FALSE]

Refused(w) == IF w = None THEN None ELSE [w EXCEPT !.ok = FALSE]

-----------------------------------------------------------------------------
(* The orchestrator's informers: deliveries, with the handlers they call.  *)

(* addEventTenantHandler, and updateEventTenantHandler, which is interested*)
(* in the generation only.                                                 *)
DeliverTenant ==
  /\ ~fresh
  /\ cache' = api /\ fresh' = TRUE /\ newSpec' = FALSE
  /\ queue' = queue \cup (IF cache = None THEN {"tenant-add"} ELSE {})
                    \cup (IF cache # None /\ newSpec THEN {"tenant-update"} ELSE {})
  /\ UNCHANGED <<api, dfresh, storeVars, scache, work, daemonVars, bounds>>

Total(t) == Cardinality(t.awaiting) + Cardinality(Assigned(t.assigned))

(* addEventNodestoreHandler: for a tenant whose total is not its zones.    *)
(* A NodeStore is created without tenants.                                 *)
DeliverStoreAdd(n) ==
  /\ scache[n] = None /\ store[n] # None
  /\ scache' = [scache EXCEPT ![n] = 0]
  /\ queue' = queue \cup (IF cache # None /\ Total(cache) # cache.zones THEN {"store-add"} ELSE {})
  /\ UNCHANGED <<tenantVars, storeVars, cache, work, daemonVars, bounds>>

(* updateEventNodestoreHandler: the entry of the tenant has changed.       *)
DeliverStoreUpdate(n) ==
  /\ scache[n] # None /\ store[n] # None /\ scache[n] # store[n]
  /\ scache' = [scache EXCEPT ![n] = store[n]]
  /\ queue' = queue \cup {"store-update"}
  /\ UNCHANGED <<tenantVars, storeVars, cache, work, daemonVars, bounds>>

(* deleteEventNodestoreHandler: for the tenants the NodeStore has.         *)
DeliverStoreDelete(n) ==
  /\ scache[n] # None /\ store[n] = None
  /\ scache' = [scache EXCEPT ![n] = None]
  /\ queue' = queue \cup (IF scache[n] # 0 THEN {"store-delete"} ELSE {})
  /\ UNCHANGED <<tenantVars, storeVars, cache, work, daemonVars, bounds>>

-----------------------------------------------------------------------------
(* The orchestrator's worker.  It takes an item, reads the caches, and     *)
(* either is done with the item or goes on to write the status.  Without   *)
(* the Tenant in the cache it fails and the item is put back.              *)
Take(item) == work = None /\ item \in queue /\ cache # None

Done(item) == queue' = queue \ {item} /\ work' = None

Write(item, aw, as, ok, again) ==
  /\ queue' = queue \ {item}
  /\ work' = [item |-> item, awaiting |-> aw, assigned |-> as, ok |-> ok, again |-> again]

(* ensureTenantFinalizer: a patch, which makes the copy stale that the     *)
(* worker goes on with.                                                    *)
EnsureFinalizer ==
  /\ api' = [api EXCEPT !.finalizer = TRUE]
  /\ IF api.finalizer THEN UNCHANGED <<fresh, dfresh>> ELSE Outdate
  /\ UNCHANGED newSpec

(* The k first nodes of S in the order of their names.                     *)
First(S, k) == {n \in S : Cardinality({m \in S : m < n}) < k}

(* Faulty variant: an assigned node may stay awaiting.                     *)
RecomputeNoDedup(zones, aw, as, stores) ==
  LET used == aw \cup Assigned(as)
      delta == zones - (Cardinality(aw) + Cardinality(Assigned(as)))
  IN  IF delta >= 0
      THEN {[awaiting |-> aw \cup First(stores \ used, delta), assigned |-> as]}
      ELSE {[awaiting |-> aw,
             assigned |-> [n \in Nodes |-> IF n \in cut THEN 0 ELSE as[n]]] :
              cut \in {S \in SUBSET Assigned(as) :
                         Cardinality(S) = Least(-delta, Cardinality(Assigned(as)))}}

(* Faulty variant: an assigned node too many is kept.                      *)
RecomputeShortTrim(zones, aw, as, stores) ==
  LET awaiting == aw \ Assigned(as)
      used == awaiting \cup Assigned(as)
      delta == zones - Cardinality(used)
  IN  IF delta >= 0
      THEN {[awaiting |-> awaiting \cup First(stores \ used, delta), assigned |-> as]}
      ELSE {[awaiting |-> awaiting,
             assigned |-> [n \in Nodes |-> IF n \in cut THEN 0 ELSE as[n]]] :
              cut \in {S \in SUBSET Assigned(as) : Cardinality(S) = -delta - 1}}

(* Faulty variant: nodes that are needed are assigned at once.             *)
RecomputeAssignAtOnce(zones, aw, as, stores) ==
  LET awaiting == aw \ Assigned(as)
      used == awaiting \cup Assigned(as)
      delta == zones - Cardinality(used)
      new == First(stores \ used, delta)
  IN  IF delta >= 0
      THEN {[awaiting |-> awaiting,
             assigned |-> [n \in Nodes |-> IF n \in new THEN 1 ELSE as[n]]]}
      ELSE {[awaiting |-> awaiting, assigned |-> NoNode]}

(* recomputeAwaitingAndAssignedForZones: assigned nodes are no longer      *)
(* awaiting; missing nodes are added to awaiting, in the order of their    *)
(* names, while there are any; surplus nodes are cut from the end of the   *)
(* assigned list, whose order is that of a map, and never from awaiting.   *)
Recompute(zones, aw, as, stores) ==
  LET awaiting == aw \ Assigned(as)
      used == awaiting \cup Assigned(as)
      delta == zones - Cardinality(used)
  IN  IF delta >= 0
      THEN {[awaiting |-> awaiting \cup First(stores \ used, delta), assigned |-> as]}
      ELSE {[awaiting |-> awaiting,
             assigned |-> [n \in Nodes |-> IF n \in cut THEN 0 ELSE as[n]]] :
              cut \in {S \in SUBSET Assigned(as) :
                         Cardinality(S) = Least(-delta, Cardinality(Assigned(as)))}}

(* selectInitialAwaitingNodes: as many as zones, or all, in any order.     *)
selectInitialAwaitingNodes(zones, stores) ==
  {S \in SUBSET stores : Cardinality(S) = Least(zones, Cardinality(stores))}

(* reconcileTenantAdd: seeds awaiting once; an error without NodeStores.   *)
ReconcileTenantAdd ==
  LET stores == Stores(scache) IN
  /\ Take("tenant-add")
  /\ EnsureFinalizer
  /\ \/ /\ Total(cache) > 0
        /\ Done("tenant-add")
     \/ /\ Total(cache) = 0 /\ stores = {}
        /\ UNCHANGED workVars
     \/ /\ Total(cache) = 0 /\ stores # {}
        /\ \E seed \in selectInitialAwaitingNodes(cache.zones, stores) :
             Write("tenant-add", seed, cache.assigned, fresh /\ cache.finalizer, FALSE)
  /\ UNCHANGED <<storeVars, cacheVars, daemonVars, bounds>>

(* reconcileTenantUpdate: recomputes the status of the cached Tenant.      *)
ReconcileTenantUpdate ==
  /\ Take("tenant-update")
  /\ EnsureFinalizer
  /\ \E r \in Recompute(cache.zones, cache.awaiting, cache.assigned, Stores(scache)) :
       IF r.awaiting = cache.awaiting /\ r.assigned = cache.assigned
       THEN Done("tenant-update")
       ELSE Write("tenant-update", r.awaiting, r.assigned, fresh /\ cache.finalizer, FALSE)
  /\ UNCHANGED <<storeVars, cacheVars, daemonVars, bounds>>

(* Faulty variant: the entries are compared by name.                       *)
ReconcileByName(item) ==
  LET stores == Stores(scache)
      built == Published(scache) IN
  /\ item \in {"store-add", "store-update"} /\ Take(item)
  /\ \E r \in Recompute(cache.zones, cache.awaiting, built, stores) :
       IF r.awaiting = cache.awaiting /\ Assigned(r.assigned) = Assigned(cache.assigned)
       THEN Done(item)
       ELSE Write(item, r.awaiting, r.assigned, fresh,
                  Cardinality(stores) >= cache.zones /\ Cardinality(Assigned(r.assigned)) # cache.zones)
  /\ UNCHANGED <<tenantVars, storeVars, cacheVars, daemonVars, bounds>>

(* reconcileNodestoreAdd and reconcileNodestoreUpdate: the assigned nodes  *)
(* are rebuilt from the NodeStores.  The write is skipped when nothing     *)
(* changes and nothing had to be cut from the rebuilt list.  After it the  *)
(* item is put back while there are enough nodes and not all are assigned. *)
ReconcileNodestoreUpdate(item) ==
  LET stores == Stores(scache)
      built == Published(scache) IN
  /\ item \in {"store-add", "store-update"} /\ Take(item)
  /\ \E r \in Recompute(cache.zones, cache.awaiting, built, stores) :
       IF r.awaiting = cache.awaiting /\ r.assigned = cache.assigned /\ r.assigned = built
       THEN Done(item)
       ELSE Write(item, r.awaiting, r.assigned, fresh,
                  Cardinality(stores) >= cache.zones /\ Cardinality(Assigned(r.assigned)) # cache.zones)
  /\ UNCHANGED <<tenantVars, storeVars, cacheVars, daemonVars, bounds>>

(* reconcileNodestoreDelete looks for an assigned node with the tenant's   *)
(* name, which there is not, and returns.                                  *)
ReconcileNodestoreDelete ==
  /\ Take("store-delete")
  /\ Done("store-delete")
  /\ UNCHANGED <<tenantVars, storeVars, cacheVars, daemonVars, bounds>>

PutBack(w) == queue' = queue \cup {w.item}

(* Faulty variant: the write ignores the resource version.                 *)
CommitBlind ==
  /\ work # None
  /\ api' = [api EXCEPT !.awaiting = work.awaiting, !.assigned = work.assigned]
  /\ IF api' = api THEN UNCHANGED <<fresh, dfresh>> ELSE Outdate
  /\ IF work.again THEN PutBack(work) ELSE UNCHANGED queue
  /\ work' = None
  /\ UNCHANGED <<newSpec, storeVars, cacheVars, daemonVars, bounds>>

(* UpdateStatus and the rest of BaseOperator.worker: an error puts the     *)
(* item back.  A write that changes nothing makes no new version.          *)
Commit ==
  /\ work # None
  /\ IF work.ok
     THEN /\ api' = [api EXCEPT !.awaiting = work.awaiting, !.assigned = work.assigned]
          /\ IF api' = api THEN UNCHANGED <<fresh, dfresh>> ELSE Outdate
          /\ IF work.again THEN PutBack(work) ELSE UNCHANGED queue
     ELSE PutBack(work) /\ UNCHANGED <<api, fresh, dfresh>>
  /\ work' = None
  /\ UNCHANGED <<newSpec, storeVars, cacheVars, daemonVars, bounds>>

Reconcile(item) ==
  \/ item = "tenant-add" /\ ReconcileTenantAdd
  \/ item = "tenant-update" /\ ReconcileTenantUpdate
  \/ ReconcileNodestoreUpdate(item)
  \/ item = "store-delete" /\ ReconcileNodestoreDelete

(* The orchestrator restarts.  BaseOperator.Run waits for the caches, and  *)
(* the informers' handlers see everything as added; those of the NodeStores*)
(* may be called before the Tenants are listed, and find no tenant.        *)
Restart ==
  /\ restarts < MaxRestarts /\ cache # None
  /\ restarts' = restarts + 1
  /\ cache' = api /\ fresh' = TRUE /\ newSpec' = FALSE
  /\ scache' = store
  /\ \E late \in SUBSET (IF Total(api) # api.zones /\ Stores(store) # {} THEN {"store-add"} ELSE {}) :
       queue' = {"tenant-add"} \cup late
  /\ work' = None
  /\ UNCHANGED <<api, dfresh, storeVars, daemonVars, changes>>

-----------------------------------------------------------------------------
(* A node's daemon.                                                        *)
Up(n) == store[n] # None

(* The Tenant handlers and reconcileTenantSourceAdd/Update: EnsureTenant   *)
(* when the node is awaiting and not assigned.                             *)
Observe(n) ==
  /\ Up(n) /\ ~dfresh[n]
  /\ dfresh' = [dfresh EXCEPT ![n] = TRUE]
  /\ ensure' = [ensure EXCEPT ![n] = @ \/ (n \in api.awaiting /\ api.assigned[n] = 0)]
  /\ UNCHANGED <<api, fresh, newSpec, storeVars, cacheVars, workVars, infra, mirror, bounds>>

(* EnsureTenant on the dispatcher: it returns at once, without an event,   *)
(* when the tenant is there; an error is not tried again.                  *)
EnsureTenant(n) ==
  /\ Up(n) /\ ensure[n]
  /\ ensure' = [ensure EXCEPT ![n] = FALSE]
  /\ \/ infra[n] = 0 /\ infra' = [infra EXCEPT ![n] = 1] /\ mirror' = [mirror EXCEPT ![n] = TRUE]
     \/ infra[n] # 0 /\ UNCHANGED <<infra, mirror>>
     \/ infra[n] = 0 /\ "ensure" \in Faults /\ UNCHANGED <<infra, mirror>>
  /\ UNCHANGED <<tenantVars, storeVars, cacheVars, workVars, bounds>>

(* A new pod makes the tenant's subnet grow, and the manager emits.        *)
Expand(n) ==
  /\ Up(n) /\ n \in Growing /\ infra[n] # 0 /\ infra[n] < MaxInfra
  /\ infra' = [infra EXCEPT ![n] = @ + 1]
  /\ mirror' = [mirror EXCEPT ![n] = TRUE]
  /\ UNCHANGED <<tenantVars, storeVars, cacheVars, workVars, ensure, bounds>>

(* reconcileNodestoreTenantUpdate: the snapshot overwrites the NodeStore's *)
(* status; when the NodeStore cannot be read the event is dropped.         *)
Mirror(n) ==
  /\ Up(n) /\ mirror[n]
  /\ mirror' = [mirror EXCEPT ![n] = FALSE]
  /\ \/ store' = [store EXCEPT ![n] = infra[n]]
     \/ "mirror" \in Faults /\ UNCHANGED store
  /\ UNCHANGED <<tenantVars, gone, cacheVars, workVars, ensure, infra, bounds>>

-----------------------------------------------------------------------------
(* The environment.                                                        *)

(* A daemon starts on a node and creates the NodeStore.                    *)
Join(n) ==
  /\ store[n] = None /\ n \notin gone
  /\ store' = [store EXCEPT ![n] = 0]
  /\ UNCHANGED <<tenantVars, gone, cacheVars, workVars, daemonVars, bounds>>

(* The administrator changes spec.zones, whose minimum is 1.               *)
ChangeZones(z) ==
  /\ changes < MaxSpecChanges
  /\ z # api.zones /\ (GrowOnly => z > api.zones)
  /\ changes' = changes + 1
  /\ api' = [api EXCEPT !.zones = z] /\ newSpec' = TRUE /\ Outdate
  /\ work' = Refused(work)
  /\ UNCHANGED <<storeVars, cacheVars, queue, daemonVars, restarts>>

(* A node leaves the cluster and its NodeStore is deleted.                 *)
DeleteStore(n) ==
  /\ Cardinality(gone) < MaxDeletes
  /\ store[n] # None /\ scache[n] = store[n]
  /\ gone' = gone \cup {n}
  /\ store' = [store EXCEPT ![n] = None]
  /\ UNCHANGED <<tenantVars, cacheVars, workVars, daemonVars, bounds>>

Deliver(n) == DeliverStoreAdd(n) \/ DeliverStoreUpdate(n) \/ DeliverStoreDelete(n)

Daemon(n) == Observe(n) \/ EnsureTenant(n) \/ Mirror(n)

Next ==
  \/ DeliverTenant \/ Commit \/ Restart
  \/ \E item \in Items : Reconcile(item)
  \/ \E n \in Nodes : Deliver(n) \/ Daemon(n) \/ Expand(n) \/ Join(n) \/ DeleteStore(n)
  \/ \E z \in 1 .. MaxZones : ChangeZones(z)

Spec == Init /\ [][Next]_vars

(* Watches deliver, daemons and the worker go on.  The work queue is       *)
(* first-in first-out, so that every item has its turn whatever is put     *)
(* back.  Nothing is assumed of the environment.                           *)
FairSpec ==
  /\ Spec
  /\ WF_vars(DeliverTenant) /\ WF_vars(Commit)
  /\ \A item \in Items : SF_vars(Reconcile(item))
  /\ \A n \in Nodes : WF_vars(Deliver(n)) /\ WF_vars(Daemon(n))

-----------------------------------------------------------------------------
Tenant == [zones : 1 .. MaxZones, awaiting : SUBSET Nodes,
           assigned : [Nodes -> 0 .. MaxInfra], finalizer : BOOLEAN]

StoreCopies == [Nodes -> (0 .. MaxInfra) \cup {None}]

(* Type correctness.                                                       *)
TypeOK ==
  /\ api \in Tenant /\ cache \in Tenant \cup {None}
  /\ fresh \in BOOLEAN /\ newSpec \in BOOLEAN
  /\ store \in StoreCopies /\ scache \in StoreCopies
  /\ queue \subseteq Items
  /\ work \in [item : Items, awaiting : SUBSET Nodes, assigned : [Nodes -> 0 .. MaxInfra],
               ok : BOOLEAN, again : BOOLEAN] \cup {None}
  /\ dfresh \in [Nodes -> BOOLEAN] /\ ensure \in [Nodes -> BOOLEAN] /\ mirror \in [Nodes -> BOOLEAN]
  /\ infra \in [Nodes -> 0 .. MaxInfra]
  /\ gone \subseteq Nodes
  /\ changes \in 0 .. MaxSpecChanges /\ restarts \in 0 .. MaxRestarts

(* No node is both awaiting and assigned, although the two lists are       *)
(* rebuilt from different caches (recomputeAwaitingAndAssignedForZones     *)
(* "de-dups awaiting vs assigned").                                        *)
Disjoint == api.awaiting \cap Assigned(api.assigned) = {}

(* Whenever the orchestrator changes the lists they have, together, at most*)
(* the zones that the spec has at that moment, except that awaiting nodes  *)
(* are never cut.                                                          *)
WithinZones ==
  [][(api'.awaiting # api.awaiting \/ api'.assigned # api.assigned) =>
       Total(api') <= api'.zones \/ api'.assigned = NoNode]_vars

(* The status never says more of a node than the node has published: no    *)
(* node is assigned before its daemon has set the tenant up.               *)
AssignedPublished ==
  \A n \in Nodes \ gone : api.assigned[n] <= Published(store)[n]

(* While zones only grow, an assigned node stays assigned and its entry is *)
(* never replaced by an older one, whatever stale copy the worker had.     *)
AssignedKept == [][\A n \in Nodes : api'.assigned[n] >= api.assigned[n]]_vars

(* In the end as many nodes are assigned as the spec asks for, or all, and *)
(* the status has what every node has published, its last expansion        *)
(* included.                                                               *)
StatusSettles ==
  <>[](/\ Cardinality(Assigned(api.assigned)) = Least(api.zones, Cardinality(Stores(store)))
       /\ \A n \in Nodes \ gone : api.assigned[n] = Published(store)[n])
=============================================================================
