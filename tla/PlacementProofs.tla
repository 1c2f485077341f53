---------------------------- MODULE PlacementProofs ----------------------------
(***************************************************************************)
(* Proofs about Placement, for any set of nodes, any zones, and any number *)
(* of changes, restarts and deleted NodeStores.                            *)
(***************************************************************************)
EXTENDS Placement, TLAPS, FiniteSetTheorems

-----------------------------------------------------------------------------
(* The inductive invariant.                                                *)

WriteType == [item : Items, awaiting : SUBSET Nodes, assigned : [Nodes -> 0 .. MaxInfra],
              ok : BOOLEAN, again : BOOLEAN]

(* The lists of t, a Tenant's status or one that is about to be written,   *)
(* have no node in common.                                                 *)
Apart(t) == t.awaiting \cap Assigned(t.assigned) = {}

(* They keep to the zones, or only awaiting nodes are left.                *)
Fits(t, zones) == Total(t) <= zones \/ t.assigned = NoNode

(* Entries that are not ahead of those of p, except for nodes in g.        *)
Behind(asg, p, g) == \A n \in Nodes \ g : asg[n] <= p[n]

(* Every list of assigned nodes, the API server's, the copy's and the one  *)
(* about to be written, is behind the NodeStores, the copies of the        *)
(* NodeStores are too, and the NodeStores are behind the nodes.            *)
BehindOK ==
  /\ Behind(api.assigned, Published(store), gone)
  /\ cache # None => Behind(cache.assigned, Published(store), gone)
  /\ work # None => Behind(work.assigned, Published(store), gone)
  /\ Behind(Published(scache), Published(store), gone)
  /\ Behind(Published(store), infra, {})

(* The write that will be accepted keeps to the zones of the API server's  *)
(* Tenant, not only to those of the copy it was computed from.             *)
WriteOK ==
  work # None => Apart(work) /\ (work.ok => Fits(work, api.zones))

FreshOK == fresh => cache = api

IInv == TypeOK /\ Disjoint /\ WriteOK /\ FreshOK /\ BehindOK

-----------------------------------------------------------------------------
(* While zones only grow and no NodeStore is deleted.                      *)

(* The nodes in either list.                                               *)
Members(t) == t.awaiting \cup Assigned(t.assigned)

(* A node that was told to set the tenant up stays in one of the lists,    *)
(* and the lists together keep to the zones.                               *)
MembersOK ==
  /\ \A n \in Nodes : ensure[n] \/ infra[n] # 0 => n \in Members(api)
  /\ Cardinality(Members(api)) <= api.zones

(* The orchestrator's copies of the NodeStores are ahead of every list.    *)
CopiesOK ==
  /\ Behind(api.assigned, Published(scache), {})
  /\ cache # None => Behind(cache.assigned, Published(scache), {})
  /\ work # None => Behind(work.assigned, Published(scache), {})

(* A write that will be accepted loses nothing.                            *)
WriteKeeps ==
  work # None /\ work.ok =>
    /\ Behind(api.assigned, work.assigned, {})
    /\ Members(api) \subseteq Members(work)
    /\ Cardinality(Members(work)) <= api.zones

GrowOK == gone = {} /\ MembersOK /\ CopiesOK /\ WriteKeeps

GrowInv == IInv /\ GrowOK

-----------------------------------------------------------------------------
(* Facts about sets of nodes.                                              *)

LEMMA Constants ==
  /\ \A n \in Nodes : n \in Nat
  /\ MaxZones \in Nat /\ MaxInfra \in Nat /\ 1 <= MaxInfra /\ None \notin Nat
BY PlacementAssumption

LEMMA FiniteNodes ==
  ASSUME NEW S \in SUBSET Nodes
  PROVE  IsFiniteSet(S) /\ Cardinality(S) \in Nat
BY PlacementAssumption, FS_Subset, FS_CardinalityType

LEMMA AssignedNodes == \A asg : Assigned(asg) \in SUBSET Nodes
BY DEF Assigned

LEMMA NoneAssigned == Assigned(NoNode) = {}
BY DEF Assigned, NoNode

LEMMA LargestRank ==
  ASSUME NEW k \in Nat, NEW T, T \subseteq 0 .. k, T # {}
  PROVE  \E x \in T : \A y \in T : y <= x
<1> DEFINE R == {ss \in Nat \X Nat : ss[1] < ss[2]}
           U == {k - y : y \in T}
<1>1. IsWellFoundedOn(R, Nat)
  BY NatLessThanWellFounded DEF OpToRel
<1>2. \A x, y \in Nat : x < y => <<x, y>> \in R
  OBVIOUS
<1>3. U \subseteq Nat /\ U # {}
  <2>1. \A y \in T : k - y \in Nat
    OBVIOUS
  <2> QED
    BY <2>1
<1> HIDE DEF R
<1>4. PICK u \in U : \A w \in U : ~ (<<w, u>> \in R)
  BY <1>1, <1>3, WFMin
<1>5. PICK x \in T : u = k - x
  BY <1>4
<1>6. ASSUME NEW y \in T PROVE y <= x
  <2>1. k - y \in U /\ k - y \in Nat /\ u \in Nat
    BY <1>3
  <2>2. ~(k - y < u)
    BY <1>2, <1>4, <2>1
  <2> QED
    BY <1>5, <2>2
<1> QED
  BY <1>6

(* First takes at most as many nodes as it is asked for.                   *)
LEMMA FirstBound ==
  ASSUME NEW S \in SUBSET Nodes, NEW k \in Nat
  PROVE  First(S, k) \in SUBSET S /\ Cardinality(First(S, k)) <= k
<1> DEFINE below(n) == {m \in S : m < n}
           F == First(S, k)
           ranks == {Cardinality(below(n)) : n \in F}
<1>1. F \in SUBSET S /\ F \in SUBSET Nodes
  BY DEF First
<1>2. CASE F = {}
  BY <1>2, FS_EmptySet
<1>3. CASE F # {}
  <2>1. \A n \in S : below(n) \in SUBSET Nodes /\ Cardinality(below(n)) \in Nat
    BY FiniteNodes
  <2>2. \A n \in F : Cardinality(below(n)) < k
    BY DEF First
  <2>3. ranks \subseteq 0 .. k /\ ranks # {}
    <3>1. \A n \in F : Cardinality(below(n)) \in 0 .. k
      BY <1>1, <2>1, <2>2
    <3> QED
      BY <1>3, <3>1
  <2>4. PICK c \in ranks : \A d \in ranks : d <= c
    BY <2>3, LargestRank
  <2>5. PICK x \in F : c = Cardinality(below(x))
    BY <2>4
  <2>6. ASSUME NEW y \in F, y # x PROVE y \in below(x)
    <3>1. SUFFICES ASSUME x < y PROVE FALSE
      BY <1>1, <2>6, Constants
    <3>2. below(x) \cup {x} \in SUBSET below(y) /\ x \notin below(x)
      BY <1>1, <3>1, Constants
    <3>3. Cardinality(below(x) \cup {x}) = Cardinality(below(x)) + 1
      BY <1>1, <2>1, <3>2, FiniteNodes, FS_AddElement
    <3>4. Cardinality(below(x) \cup {x}) <= Cardinality(below(y))
      BY <1>1, <2>1, <3>2, FiniteNodes, FS_Subset
    <3>5. Cardinality(below(y)) <= c
      BY <2>4
    <3> QED
      BY <1>1, <2>1, <2>5, <3>3, <3>4, <3>5
  <2>7. F \in SUBSET (below(x) \cup {x})
    BY <2>6
  <2>8. IsFiniteSet(below(x)) /\ Cardinality(below(x)) \in Nat
    BY <1>1, <2>1, FiniteNodes
  <2>9. /\ IsFiniteSet(below(x) \cup {x})
        /\ Cardinality(below(x) \cup {x}) <= Cardinality(below(x)) + 1
    BY <2>8, FS_AddElement
  <2>10. Cardinality(F) <= Cardinality(below(x) \cup {x})
    BY <2>7, <2>9, FS_Subset
  <2>11. Cardinality(below(x)) < k /\ Cardinality(F) \in Nat
    BY <1>1, <2>2, FiniteNodes
  <2>12. Cardinality(below(x) \cup {x}) \in Nat
    BY <2>9, FS_CardinalityType
  <2> QED
    BY <1>1, <2>8, <2>9, <2>10, <2>11, <2>12
<1> QED
  BY <1>2, <1>3

LEMMA DisjointUnion ==
  ASSUME NEW S \in SUBSET Nodes, NEW T \in SUBSET Nodes, S \cap T = {}
  PROVE  Cardinality(S \cup T) = Cardinality(S) + Cardinality(T)
<1>1. IsFiniteSet(S) /\ IsFiniteSet(T) /\ Cardinality(S) \in Nat /\ Cardinality(T) \in Nat
  BY FiniteNodes
<1>2. Cardinality(S \cup T) = Cardinality(S) + Cardinality(T) - Cardinality(S \cap T)
  BY <1>1, FS_Union
<1> QED
  BY <1>1, <1>2, FS_EmptySet

(* Lists r computed from aw and asg have all nodes of those, if they keep  *)
(* to the zones.                                                           *)
KeepsAll(r, zones, aw, asg) ==
  Cardinality(aw \cup Assigned(asg)) <= zones =>
    /\ r.assigned = asg /\ aw \cup Assigned(asg) \subseteq Members(r)
    /\ Cardinality(Members(r)) <= zones

(* recomputeAwaitingAndAssignedForZones.                                   *)
LEMMA RecomputeResult ==
  ASSUME NEW zones \in 1 .. MaxZones, NEW aw \in SUBSET Nodes,
         NEW asg \in [Nodes -> 0 .. MaxInfra], NEW stores \in SUBSET Nodes,
         NEW r \in Recompute(zones, aw, asg, stores)
  PROVE  /\ r.awaiting \in SUBSET Nodes /\ r.assigned \in [Nodes -> 0 .. MaxInfra]
         /\ Apart(r) /\ Fits(r, zones) /\ Behind(r.assigned, asg, {})
         /\ KeepsAll(r, zones, aw, asg)
<1> DEFINE A == Assigned(asg)
           awaiting == aw \ A
           used == awaiting \cup A
           delta == zones - Cardinality(used)
           new == First(stores \ used, delta)
<1>1. zones \in Nat /\ A \in SUBSET Nodes /\ awaiting \in SUBSET Nodes /\ used \in SUBSET Nodes
  BY AssignedNodes, Constants
<1>2. /\ Cardinality(used) = Cardinality(awaiting) + Cardinality(A)
      /\ Cardinality(used) \in Nat /\ Cardinality(awaiting) \in Nat /\ Cardinality(A) \in Nat
  BY <1>1, DisjointUnion, FiniteNodes
<1>3. used = aw \cup Assigned(asg) /\ delta \in Int
  BY <1>1, <1>2
<1>4. CASE delta >= 0
  <2>1. r = [awaiting |-> awaiting \cup new, assigned |-> asg]
    BY <1>4 DEF Recompute
  <2>2. new \in SUBSET (stores \ used) /\ Cardinality(new) <= delta /\ Cardinality(new) \in Nat
    BY <1>1, <1>3, <1>4, FirstBound, FiniteNodes
  <2>3. used \cup new \in SUBSET Nodes /\ Cardinality(used \cup new) = Cardinality(used) + Cardinality(new)
    BY <1>1, <2>2, DisjointUnion
  <2>4. Cardinality(used \cup new) <= zones
    BY <1>1, <1>2, <2>2, <2>3
  <2>5. r.awaiting \in SUBSET Nodes /\ r.assigned = asg /\ Apart(r)
    BY <1>1, <2>1, <2>2 DEF Apart
  <2>6. Members(r) = used \cup new
    BY <2>1 DEF Members
  <2>7. Total(r) = Cardinality(Members(r))
    BY <1>1, <2>5, DisjointUnion, AssignedNodes DEF Total, Members, Apart
  <2>8. Behind(asg, asg, {})
    BY Constants DEF Behind
  <2> QED
    BY <1>3, <2>4, <2>5, <2>6, <2>7, <2>8 DEF Fits, KeepsAll
<1>5. CASE ~(delta >= 0)
  <2>1. PICK cut \in SUBSET A :
          /\ Cardinality(cut) = Least(-delta, Cardinality(A))
          /\ r = [awaiting |-> awaiting, assigned |-> [n \in Nodes |-> IF n \in cut THEN 0 ELSE asg[n]]]
    BY <1>5 DEF Recompute
  <2>2. /\ r.awaiting = awaiting /\ r.assigned \in [Nodes -> 0 .. MaxInfra]
        /\ \A n \in Nodes : r.assigned[n] = IF n \in cut THEN 0 ELSE asg[n]
    BY <2>1, Constants
  <2>3. Assigned(r.assigned) = A \ cut
    BY <2>2 DEF Assigned
  <2>4. Apart(r)
    BY <2>2, <2>3 DEF Apart
  <2>5. Behind(r.assigned, asg, {})
    BY <2>2, Constants DEF Behind
  <2>6. ~(Cardinality(aw \cup Assigned(asg)) <= zones)
    BY <1>1, <1>2, <1>3, <1>5
  <2>7. Fits(r, zones)
    <3>1. CASE -delta <= Cardinality(A)
      <4>1. Cardinality(cut) = -delta
        BY <1>2, <1>3, <2>1, <3>1 DEF Least
      <4>2. Cardinality(A \ cut) = Cardinality(A) - Cardinality(A \cap cut) /\ A \cap cut = cut
        BY <1>1, <2>1, FiniteNodes, FS_Difference
      <4>3. Total(r) = Cardinality(awaiting) + Cardinality(A \ cut)
        BY <2>2, <2>3 DEF Total
      <4>4. Cardinality(cut) = Cardinality(used) - zones
        BY <1>1, <1>2, <4>1
      <4>5. Cardinality(A \ cut) = Cardinality(A) - Cardinality(cut)
        BY <4>2
      <4> HIDE DEF used, delta, awaiting, A, new
      <4>6. Total(r) = zones
        BY <1>1, <1>2, <4>3, <4>4, <4>5
      <4> QED
        BY <1>1, <4>6 DEF Fits
    <3>2. CASE ~(-delta <= Cardinality(A))
      <4>1. Cardinality(cut) = Cardinality(A)
        BY <1>2, <1>3, <2>1, <3>2 DEF Least
      <4>2. cut = A
        BY <1>1, <2>1, <4>1, FiniteNodes, FS_Subset
      <4>3. r.assigned = NoNode
        BY <2>2, <4>2 DEF NoNode, Assigned
      <4> QED
        BY <4>3 DEF Fits
    <3> QED
      BY <3>1, <3>2
  <2> QED
    BY <1>1, <2>2, <2>4, <2>5, <2>6, <2>7 DEF KeepsAll
<1> QED
  BY <1>4, <1>5

LEMMA BehindTrans ==
  ASSUME NEW f \in [Nodes -> 0 .. MaxInfra], NEW g \in [Nodes -> 0 .. MaxInfra], NEW h, NEW x,
         h \in [Nodes -> 0 .. MaxInfra], Behind(f, g, {}), Behind(g, h, x)
  PROVE  Behind(f, h, x)
BY Constants DEF Behind

LEMMA PublishedType ==
  ASSUME NEW s \in StoreCopies
  PROVE  /\ Published(s) \in [Nodes -> 0 .. MaxInfra]
         /\ \A n \in Nodes : Published(s)[n] = IF s[n] = None THEN 0 ELSE s[n]
<1>1. \A n \in Nodes : (IF s[n] = None THEN 0 ELSE s[n]) \in 0 .. MaxInfra
  BY Constants DEF StoreCopies
<1> QED
  BY <1>1 DEF Published

LEMMA StoreType ==
  ASSUME IInv
  PROVE  Published(store) \in [Nodes -> 0 .. MaxInfra] /\ Published(scache) \in [Nodes -> 0 .. MaxInfra]
BY PublishedType DEF IInv, TypeOK

-----------------------------------------------------------------------------
(* The orchestrator's informers.                                           *)

LEMMA DeliverTenantInv ==
  ASSUME IInv, DeliverTenant
  PROVE  IInv'
<1>1. TypeOK'
  BY DEF IInv, TypeOK, DeliverTenant, Items, storeVars, daemonVars, bounds
<1>2. Disjoint' /\ WriteOK' /\ FreshOK' /\ BehindOK'
  BY DEF IInv, Disjoint, WriteOK, FreshOK, BehindOK, DeliverTenant, storeVars, daemonVars
<1> QED
  BY <1>1, <1>2 DEF IInv

LEMMA DeliverInv ==
  ASSUME IInv, NEW n \in Nodes, Deliver(n)
  PROVE  IInv'
<1>1. /\ UNCHANGED <<tenantVars, storeVars, cache, work, daemonVars, bounds>>
      /\ queue' \subseteq Items
  BY DEF IInv, TypeOK, Deliver, DeliverStoreAdd, DeliverStoreUpdate, DeliverStoreDelete, Items
<1>2. scache \in StoreCopies /\ store \in StoreCopies
  BY DEF IInv, TypeOK
<1> DEFINE v == IF store[n] = None THEN None ELSE IF scache[n] = None THEN 0 ELSE store[n]
<1>3. v \in (0 .. MaxInfra) \cup {None} /\ scache' = [scache EXCEPT ![n] = v]
  BY <1>2, Constants
  DEF StoreCopies, Deliver, DeliverStoreAdd, DeliverStoreUpdate, DeliverStoreDelete
<1>4. /\ scache' \in StoreCopies /\ scache'[n] = v
      /\ \A m \in Nodes \ {n} : scache'[m] = scache[m]
  BY <1>2, <1>3 DEF StoreCopies
<1>5. TypeOK'
  BY <1>1, <1>4 DEF IInv, TypeOK, tenantVars, storeVars, daemonVars, bounds
<1>6. Behind(Published(scache'), Published(store), gone)
  <2>1. Published(scache')[n] <= Published(store)[n]
    <3>1. Published(store)[n] \in Nat /\ Published(store)[n] = IF store[n] = None THEN 0 ELSE store[n]
      BY <1>2, PublishedType
    <3>2. Published(scache')[n] = IF v = None THEN 0 ELSE v
      BY <1>4, PublishedType
    <3> QED
      BY <3>1, <3>2, Constants
  <2>2. \A m \in Nodes \ {n} : Published(scache')[m] = Published(scache)[m]
    BY <1>2, <1>4, PublishedType
  <2> QED
    BY <2>1, <2>2 DEF IInv, BehindOK, Behind
<1>7. BehindOK'
  BY <1>1, <1>6 DEF IInv, BehindOK, tenantVars, storeVars, daemonVars
<1>8. Disjoint' /\ WriteOK' /\ FreshOK'
  BY <1>1 DEF IInv, Disjoint, WriteOK, FreshOK, tenantVars
<1> QED
  BY <1>5, <1>7, <1>8 DEF IInv

-----------------------------------------------------------------------------
(* The orchestrator's worker.                                              *)

(* A step of the worker that reads the caches and may prepare a write.     *)
LEMMA WorkerStep ==
  ASSUME IInv, work = None, queue' \subseteq Items,
         UNCHANGED <<storeVars, cacheVars, daemonVars, bounds>>,
         api' \in Tenant, api'.zones = api.zones,
         api'.awaiting = api.awaiting, api'.assigned = api.assigned,
         fresh' \in BOOLEAN, fresh' => fresh /\ api' = api,
         newSpec' \in BOOLEAN, dfresh' \in [Nodes -> BOOLEAN],
         \/ work' = None
         \/ /\ work' \in WriteType /\ Apart(work')
            /\ Behind(work'.assigned, Published(store), gone)
            /\ work'.ok => Fits(work', api.zones)
  PROVE  IInv'
<1>1. TypeOK'
  BY DEF IInv, TypeOK, WriteType, storeVars, cacheVars, daemonVars, bounds
<1>2. Disjoint' /\ WriteOK'
  BY DEF IInv, Disjoint, WriteOK
<1>3. FreshOK' /\ BehindOK'
  BY DEF IInv, FreshOK, BehindOK, storeVars, cacheVars, daemonVars
<1> QED
  BY <1>1, <1>2, <1>3 DEF IInv

LEMMA FinalizerStep ==
  ASSUME IInv, EnsureFinalizer
  PROVE  /\ api' \in Tenant /\ api'.zones = api.zones
         /\ api'.awaiting = api.awaiting /\ api'.assigned = api.assigned
         /\ fresh' \in BOOLEAN /\ (fresh' => fresh /\ api' = api)
         /\ newSpec' \in BOOLEAN /\ dfresh' \in [Nodes -> BOOLEAN]
         /\ api.finalizer => api' = api
<1>1. /\ api \in Tenant /\ api.finalizer \in BOOLEAN
      /\ fresh \in BOOLEAN /\ newSpec \in BOOLEAN /\ dfresh \in [Nodes -> BOOLEAN]
  BY DEF IInv, TypeOK, Tenant
<1>2. /\ api' \in Tenant /\ api'.zones = api.zones
      /\ api'.awaiting = api.awaiting /\ api'.assigned = api.assigned
  BY <1>1 DEF EnsureFinalizer, Tenant
<1>3. api.finalizer => api' = api
  BY <1>1 DEF EnsureFinalizer, Tenant
<1>4. CASE api.finalizer
  BY <1>1, <1>2, <1>3, <1>4 DEF EnsureFinalizer
<1>5. CASE ~api.finalizer
  BY <1>1, <1>2, <1>5 DEF EnsureFinalizer, Outdate
<1> QED
  BY <1>4, <1>5

LEMMA ReconcileTenantAddInv ==
  ASSUME IInv, ReconcileTenantAdd
  PROVE  IInv'
<1>1. /\ work = None /\ cache # None /\ cache \in Tenant /\ "tenant-add" \in Items
      /\ fresh \in BOOLEAN /\ cache.finalizer \in BOOLEAN
      /\ UNCHANGED <<storeVars, cacheVars, daemonVars, bounds>> /\ EnsureFinalizer
  BY DEF IInv, TypeOK, ReconcileTenantAdd, Take, Tenant, Items
<1>2. queue' \subseteq Items
  BY DEF IInv, TypeOK, ReconcileTenantAdd, Done, Write, workVars
<1>3. CASE work' = None
  BY <1>1, <1>2, <1>3, FinalizerStep, WorkerStep
<1>4. ASSUME Total(cache) = 0,
             NEW seed \in selectInitialAwaitingNodes(cache.zones, Stores(scache)),
             Write("tenant-add", seed, cache.assigned, fresh /\ cache.finalizer, FALSE)
      PROVE  IInv'
  <2> DEFINE ok == fresh /\ cache.finalizer
  <2>1. ok \in BOOLEAN
    OBVIOUS
  <2>2. /\ seed \in SUBSET Nodes /\ cache.assigned \in [Nodes -> 0 .. MaxInfra]
        /\ cache.zones \in Nat /\ Cardinality(seed) = Least(cache.zones, Cardinality(Stores(scache)))
    BY <1>1, <1>4, Constants DEF selectInitialAwaitingNodes, Stores, Tenant
  <2>3. Assigned(cache.assigned) = {}
    <3>1. /\ cache.awaiting \in SUBSET Nodes
          /\ Cardinality(cache.awaiting) \in Nat /\ Cardinality(Assigned(cache.assigned)) \in Nat
      BY <1>1, AssignedNodes, FiniteNodes DEF Tenant
    <3>2. Cardinality(Assigned(cache.assigned)) = 0
      BY <1>4, <3>1 DEF Total
    <3> QED
      BY <3>2, AssignedNodes, FiniteNodes, FS_EmptySet
  <2>4. Cardinality(seed) <= cache.zones /\ Cardinality(seed) \in Nat
    <3>1. Cardinality(Stores(scache)) \in Nat
      BY FiniteNodes DEF Stores
    <3> QED
      BY <2>2, <3>1, FiniteNodes DEF Least
  <2>5. work' = [item |-> "tenant-add", awaiting |-> seed, assigned |-> cache.assigned,
                 ok |-> ok, again |-> FALSE]
    BY <1>4 DEF Write
  <2>6. /\ work'.awaiting = seed /\ work'.assigned = cache.assigned /\ work'.ok = ok
    BY <2>5
  <2>7. work' \in WriteType
    BY <1>1, <2>1, <2>2, <2>5 DEF WriteType
  <2>8. Apart(work')
    BY <2>3, <2>6 DEF Apart
  <2>9. Behind(work'.assigned, Published(store), gone)
    BY <1>1, <2>6 DEF IInv, BehindOK
  <2>10. Fits(work', cache.zones)
    <3>1. Total(work') = Cardinality(seed) + 0
      BY <2>3, <2>6, FS_EmptySet DEF Total
    <3> QED
      BY <2>2, <2>4, <3>1 DEF Fits
  <2>11. work'.ok => Fits(work', api.zones)
    <3>1. work'.ok => fresh
      BY <2>6
    <3> QED
      BY <2>10, <3>1 DEF IInv, FreshOK
  <2> QED
    BY <1>1, <1>2, <2>7, <2>8, <2>9, <2>11, FinalizerStep, WorkerStep
<1>5. work' = None \/ (Total(cache) = 0 /\
        \E seed \in selectInitialAwaitingNodes(cache.zones, Stores(scache)) :
          Write("tenant-add", seed, cache.assigned, fresh /\ cache.finalizer, FALSE))
  BY <1>1 DEF ReconcileTenantAdd, Done, workVars
<1> QED
  BY <1>3, <1>4, <1>5

LEMMA ReconcileTenantUpdateInv ==
  ASSUME IInv, ReconcileTenantUpdate
  PROVE  IInv'
<1>1. /\ work = None /\ cache # None /\ cache \in Tenant /\ "tenant-update" \in Items
      /\ fresh \in BOOLEAN /\ cache.finalizer \in BOOLEAN
      /\ UNCHANGED <<storeVars, cacheVars, daemonVars, bounds>> /\ EnsureFinalizer
  BY DEF IInv, TypeOK, ReconcileTenantUpdate, Take, Tenant, Items
<1>2. queue' \subseteq Items
  BY DEF IInv, TypeOK, ReconcileTenantUpdate, Done, Write
<1>3. CASE work' = None
  BY <1>1, <1>2, <1>3, FinalizerStep, WorkerStep
<1>4. ASSUME NEW r \in Recompute(cache.zones, cache.awaiting, cache.assigned, Stores(scache)),
             Write("tenant-update", r.awaiting, r.assigned, fresh /\ cache.finalizer, FALSE)
      PROVE  IInv'
  <2> DEFINE ok == fresh /\ cache.finalizer
  <2>1. ok \in BOOLEAN
    OBVIOUS
  <2>2. /\ r.awaiting \in SUBSET Nodes /\ r.assigned \in [Nodes -> 0 .. MaxInfra]
        /\ Apart(r) /\ Fits(r, cache.zones) /\ Behind(r.assigned, cache.assigned, {})
    BY <1>1, <1>4, RecomputeResult DEF Tenant, Stores
  <2>3. work' = [item |-> "tenant-update", awaiting |-> r.awaiting, assigned |-> r.assigned,
                 ok |-> ok, again |-> FALSE]
    BY <1>4 DEF Write
  <2>4. work'.awaiting = r.awaiting /\ work'.assigned = r.assigned /\ work'.ok = ok
    BY <2>3
  <2>5. work' \in WriteType
    BY <1>1, <2>1, <2>2, <2>3 DEF WriteType
  <2>6. Apart(work') /\ Fits(work', cache.zones)
    BY <2>2, <2>4 DEF Apart, Fits, Total
  <2>7. Behind(work'.assigned, Published(store), gone)
    <3>1. Behind(cache.assigned, Published(store), gone)
      BY <1>1 DEF IInv, BehindOK
    <3> QED
      BY <1>1, <2>2, <2>4, <3>1, StoreType, BehindTrans DEF Tenant
  <2>8. work'.ok => Fits(work', api.zones)
    <3>1. work'.ok => fresh
      BY <2>4
    <3> QED
      BY <2>6, <3>1 DEF IInv, FreshOK
  <2> QED
    BY <1>1, <1>2, <2>5, <2>6, <2>7, <2>8, FinalizerStep, WorkerStep
<1>5. work' = None \/
        \E r \in Recompute(cache.zones, cache.awaiting, cache.assigned, Stores(scache)) :
          Write("tenant-update", r.awaiting, r.assigned, fresh /\ cache.finalizer, FALSE)
  BY DEF ReconcileTenantUpdate, Done
<1> QED
  BY <1>3, <1>4, <1>5

LEMMA ReconcileNodestoreUpdateInv ==
  ASSUME IInv, NEW item \in Items, ReconcileNodestoreUpdate(item)
  PROVE  IInv'
<1> DEFINE built == Published(scache)
           more(r) == /\ Cardinality(Stores(scache)) >= cache.zones
                      /\ Cardinality(Assigned(r.assigned)) # cache.zones
<1>1. /\ work = None /\ cache # None /\ cache \in Tenant
      /\ UNCHANGED <<tenantVars, storeVars, cacheVars, daemonVars, bounds>>
  BY DEF IInv, TypeOK, ReconcileNodestoreUpdate, Take
<1>2. queue' \subseteq Items
  BY DEF IInv, TypeOK, ReconcileNodestoreUpdate, Done, Write
<1>3. /\ api' = api /\ api' \in Tenant /\ fresh' = fresh /\ fresh' \in BOOLEAN
      /\ newSpec' \in BOOLEAN /\ dfresh' \in [Nodes -> BOOLEAN]
  BY <1>1 DEF tenantVars, IInv, TypeOK
<1>4. CASE work' = None
  BY <1>1, <1>2, <1>3, <1>4, WorkerStep
<1>5. ASSUME NEW r \in Recompute(cache.zones, cache.awaiting, built, Stores(scache)),
             Write(item, r.awaiting, r.assigned, fresh, more(r))
      PROVE  IInv'
  <2>1. built \in [Nodes -> 0 .. MaxInfra]
    BY PublishedType DEF IInv, TypeOK
  <2> HIDE DEF built
  <2>2. /\ r.awaiting \in SUBSET Nodes /\ r.assigned \in [Nodes -> 0 .. MaxInfra]
        /\ Apart(r) /\ Fits(r, cache.zones) /\ Behind(r.assigned, built, {})
    BY <1>1, <1>5, <2>1, RecomputeResult DEF Tenant, Stores
  <2>3. more(r) \in BOOLEAN
    OBVIOUS
  <2> HIDE DEF more
  <2>4. work' = [item |-> item, awaiting |-> r.awaiting, assigned |-> r.assigned,
                 ok |-> fresh, again |-> more(r)]
    BY <1>5 DEF Write
  <2>5. work'.awaiting = r.awaiting /\ work'.assigned = r.assigned /\ work'.ok = fresh
    BY <2>4
  <2>6. work' \in WriteType
    BY <1>3, <2>2, <2>3, <2>4 DEF WriteType
  <2>7. Apart(work') /\ Fits(work', cache.zones)
    BY <2>2, <2>5 DEF Apart, Fits, Total
  <2>8. Behind(work'.assigned, Published(store), gone)
    <3>1. Behind(built, Published(store), gone)
      BY DEF IInv, BehindOK, built
    <3> QED
      BY <2>1, <2>2, <2>5, <3>1, StoreType, BehindTrans
  <2>9. work'.ok => Fits(work', api.zones)
    BY <2>5, <2>7 DEF IInv, FreshOK
  <2> QED
    BY <1>1, <1>2, <1>3, <2>6, <2>7, <2>8, <2>9, WorkerStep
<1>6. work' = None \/
        \E r \in Recompute(cache.zones, cache.awaiting, built, Stores(scache)) :
          Write(item, r.awaiting, r.assigned, fresh, more(r))
  BY DEF ReconcileNodestoreUpdate, Done
<1> QED
  BY <1>4, <1>5, <1>6

LEMMA ReconcileNodestoreDeleteInv ==
  ASSUME IInv, ReconcileNodestoreDelete
  PROVE  IInv'
<1>1. /\ work = None /\ work' = None /\ queue' \subseteq Items
      /\ UNCHANGED <<tenantVars, storeVars, cacheVars, daemonVars, bounds>>
  BY DEF IInv, TypeOK, ReconcileNodestoreDelete, Take, Done
<1>2. /\ api' = api /\ api' \in Tenant /\ fresh' = fresh /\ fresh' \in BOOLEAN
      /\ newSpec' \in BOOLEAN /\ dfresh' \in [Nodes -> BOOLEAN]
  BY <1>1 DEF tenantVars, IInv, TypeOK
<1> QED
  BY <1>1, <1>2, WorkerStep

(* UpdateStatus: what is written is what the worker has computed.          *)
LEMMA CommitInv ==
  ASSUME IInv, Commit
  PROVE  IInv'
<1>1. /\ work \in WriteType /\ work.ok \in BOOLEAN /\ api \in Tenant /\ work' = None
      /\ UNCHANGED <<newSpec, storeVars, cacheVars, daemonVars, bounds>>
      /\ fresh \in BOOLEAN /\ dfresh \in [Nodes -> BOOLEAN]
  BY DEF IInv, TypeOK, WriteType, Commit
<1>2. queue' \subseteq Items
  BY <1>1 DEF IInv, TypeOK, Commit, PutBack, WriteType
<1>3. CASE work.ok
  <2>1. api' = [api EXCEPT !.awaiting = work.awaiting, !.assigned = work.assigned]
    BY <1>3 DEF Commit
  <2>2. /\ api' \in Tenant /\ api'.awaiting = work.awaiting /\ api'.assigned = work.assigned
    BY <1>1, <2>1 DEF Tenant, WriteType
  <2>3. fresh' \in BOOLEAN /\ (fresh' => fresh /\ api' = api) /\ dfresh' \in [Nodes -> BOOLEAN]
    BY <1>1, <1>3 DEF Commit, Outdate
  <2>4. TypeOK'
    BY <1>1, <1>2, <2>2, <2>3 DEF IInv, TypeOK, storeVars, cacheVars, daemonVars, bounds
  <2>5. Disjoint'
    BY <1>1, <2>2 DEF IInv, WriteOK, Apart, Disjoint, Commit
  <2>6. BehindOK'
    BY <1>1, <2>2 DEF IInv, BehindOK, storeVars, cacheVars, daemonVars, Commit
  <2>7. WriteOK' /\ FreshOK'
    BY <1>1, <2>3 DEF IInv, WriteOK, FreshOK, cacheVars
  <2> QED
    BY <2>4, <2>5, <2>6, <2>7 DEF IInv
<1>4. CASE ~work.ok
  <2>1. UNCHANGED <<api, fresh, dfresh>>
    BY <1>4 DEF Commit
  <2>2. TypeOK'
    BY <1>1, <1>2, <2>1 DEF IInv, TypeOK, storeVars, cacheVars, daemonVars, bounds
  <2>3. Disjoint' /\ WriteOK' /\ FreshOK' /\ BehindOK'
    BY <1>1, <2>1 DEF IInv, Disjoint, WriteOK, FreshOK, BehindOK, storeVars, cacheVars, daemonVars
  <2> QED
    BY <2>2, <2>3 DEF IInv
<1> QED
  BY <1>1, <1>3, <1>4

LEMMA RestartInv ==
  ASSUME IInv, Restart
  PROVE  IInv'
<1>1. /\ UNCHANGED <<api, dfresh, storeVars, daemonVars, changes>>
      /\ work' = None /\ cache' = api /\ fresh' = TRUE /\ newSpec' = FALSE /\ scache' = store
  BY DEF Restart
<1>2. queue' \subseteq Items
  BY DEF Restart, Items
<1>3. restarts' \in 0 .. MaxRestarts
  BY PlacementAssumption DEF IInv, TypeOK, Restart
<1>4. TypeOK'
  BY <1>1, <1>2, <1>3 DEF IInv, TypeOK, storeVars, daemonVars
<1>5. Behind(Published(store), Published(store), gone)
  BY StoreType, Constants DEF Behind
<1>6. Disjoint' /\ WriteOK' /\ FreshOK' /\ BehindOK'
  BY <1>1, <1>5 DEF IInv, Disjoint, WriteOK, FreshOK, BehindOK, storeVars, daemonVars
<1> QED
  BY <1>4, <1>6 DEF IInv

-----------------------------------------------------------------------------
(* A node's daemon, and the environment.                                   *)

LEMMA ObserveInv ==
  ASSUME IInv, NEW n \in Nodes, Observe(n)
  PROVE  IInv'
<1>1. UNCHANGED <<api, fresh, newSpec, storeVars, cacheVars, workVars, infra, mirror, bounds>>
  BY DEF Observe
<1>2. dfresh' \in [Nodes -> BOOLEAN] /\ ensure' \in [Nodes -> BOOLEAN]
  <2> DEFINE e == ensure[n] \/ (n \in api.awaiting /\ api.assigned[n] = 0)
  <2>1. e \in BOOLEAN
    OBVIOUS
  <2>2. ensure' = [ensure EXCEPT ![n] = e] /\ dfresh' = [dfresh EXCEPT ![n] = TRUE]
    BY DEF Observe
  <2> HIDE DEF e
  <2> QED
    BY <2>1, <2>2 DEF IInv, TypeOK
<1>3. TypeOK'
  BY <1>1, <1>2 DEF IInv, TypeOK, storeVars, cacheVars, workVars, bounds
<1>4. Disjoint' /\ WriteOK' /\ FreshOK' /\ BehindOK'
  BY <1>1 DEF IInv, Disjoint, WriteOK, FreshOK, BehindOK, storeVars, cacheVars, workVars
<1> QED
  BY <1>3, <1>4 DEF IInv

(* The infrastructure of a node gets another version, or stays as it is.   *)
LEMMA InfraStep ==
  ASSUME IInv, NEW n \in Nodes, UNCHANGED <<tenantVars, storeVars, cacheVars, workVars, bounds>>,
         ensure' \in [Nodes -> BOOLEAN], mirror' \in [Nodes -> BOOLEAN],
         \/ infra' = infra
         \/ \E v \in 0 .. MaxInfra : infra[n] <= v /\ infra' = [infra EXCEPT ![n] = v]
  PROVE  IInv'
<1>1. infra \in [Nodes -> 0 .. MaxInfra]
  BY DEF IInv, TypeOK
<1>2. infra' \in [Nodes -> 0 .. MaxInfra] /\ Behind(infra, infra', {})
  BY <1>1, Constants DEF Behind
<1>3. Behind(Published(store), infra', {})
  BY <1>1, <1>2, StoreType, BehindTrans DEF IInv, BehindOK
<1>4. TypeOK'
  BY <1>2 DEF IInv, TypeOK, tenantVars, storeVars, cacheVars, workVars, bounds
<1>5. BehindOK'
  BY <1>3 DEF IInv, BehindOK, tenantVars, storeVars, cacheVars, workVars
<1>6. Disjoint' /\ WriteOK' /\ FreshOK'
  BY DEF IInv, Disjoint, WriteOK, FreshOK, tenantVars, cacheVars, workVars
<1> QED
  BY <1>4, <1>5, <1>6 DEF IInv

LEMMA EnsureTenantInv ==
  ASSUME IInv, NEW n \in Nodes, EnsureTenant(n)
  PROVE  IInv'
<1>1. UNCHANGED <<tenantVars, storeVars, cacheVars, workVars, bounds>>
  BY DEF EnsureTenant
<1>2. ensure' \in [Nodes -> BOOLEAN]
  BY DEF IInv, TypeOK, EnsureTenant
<1>3. mirror' \in [Nodes -> BOOLEAN]
  BY DEF IInv, TypeOK, EnsureTenant
<1>4. infra' = infra \/ (infra[n] <= 1 /\ infra' = [infra EXCEPT ![n] = 1])
  BY Constants DEF EnsureTenant
<1>5. 1 \in 0 .. MaxInfra
  BY Constants
<1> QED
  BY <1>1, <1>2, <1>3, <1>4, <1>5, InfraStep

LEMMA ExpandInv ==
  ASSUME IInv, NEW n \in Nodes, Expand(n)
  PROVE  IInv'
<1>1. UNCHANGED <<tenantVars, storeVars, cacheVars, workVars, ensure, bounds>>
  BY DEF Expand
<1>2. ensure' \in [Nodes -> BOOLEAN]
  BY <1>1 DEF IInv, TypeOK
<1>3. mirror' \in [Nodes -> BOOLEAN]
  BY DEF IInv, TypeOK, Expand
<1>4. infra[n] + 1 \in 0 .. MaxInfra /\ infra[n] <= infra[n] + 1 /\ infra' = [infra EXCEPT ![n] = infra[n] + 1]
  BY Constants DEF IInv, TypeOK, Expand
<1> QED
  BY <1>1, <1>2, <1>3, <1>4, InfraStep

(* The NodeStores change while no Tenant does, and never backwards except  *)
(* for nodes that are gone.                                                *)
LEMMA StoreStep ==
  ASSUME IInv, UNCHANGED <<tenantVars, cacheVars, workVars, ensure, infra, bounds>>,
         store' \in StoreCopies, mirror' \in [Nodes -> BOOLEAN],
         gone' \in SUBSET Nodes, gone \subseteq gone',
         Behind(Published(store), Published(store'), gone'), Behind(Published(store'), infra, {})
  PROVE  IInv'
<1>1. TypeOK'
  BY DEF IInv, TypeOK, tenantVars, cacheVars, workVars, bounds
<1>2. ASSUME NEW f \in [Nodes -> 0 .. MaxInfra], Behind(f, Published(store), gone)
      PROVE  Behind(f, Published(store'), gone')
  <2>1. Published(store') \in [Nodes -> 0 .. MaxInfra] /\ Published(store) \in [Nodes -> 0 .. MaxInfra]
    BY PublishedType, StoreType
  <2> QED
    BY <1>2, <2>1, Constants DEF Behind
<1>3. Behind(api.assigned, Published(store'), gone')
  BY <1>2 DEF IInv, TypeOK, Tenant, BehindOK
<1>4. cache # None => Behind(cache.assigned, Published(store'), gone')
  BY <1>2 DEF IInv, TypeOK, Tenant, BehindOK
<1>5. work # None => Behind(work.assigned, Published(store'), gone')
  BY <1>2 DEF IInv, TypeOK, BehindOK
<1>6. Behind(Published(scache), Published(store'), gone')
  BY <1>2, StoreType DEF IInv, BehindOK
<1>7. BehindOK'
  BY <1>3, <1>4, <1>5, <1>6 DEF IInv, BehindOK, tenantVars, cacheVars, workVars
<1>8. Disjoint' /\ WriteOK' /\ FreshOK'
  BY DEF IInv, Disjoint, WriteOK, FreshOK, tenantVars, cacheVars, workVars
<1> QED
  BY <1>1, <1>7, <1>8 DEF IInv

LEMMA MirrorInv ==
  ASSUME IInv, NEW n \in Nodes, Mirror(n)
  PROVE  IInv'
<1>1. /\ UNCHANGED <<tenantVars, gone, cacheVars, workVars, ensure, infra, bounds>>
      /\ store \in StoreCopies /\ gone \in SUBSET Nodes /\ infra \in [Nodes -> 0 .. MaxInfra]
  BY DEF IInv, TypeOK, Mirror
<1>2. mirror' \in [Nodes -> BOOLEAN]
  BY DEF IInv, TypeOK, Mirror
<1>3. Behind(Published(store), infra, {})
  BY DEF IInv, BehindOK
<1>4. CASE store' = store
  <2>1. Behind(Published(store), Published(store'), gone)
    BY <1>4, StoreType, Constants DEF Behind
  <2> QED
    BY <1>1, <1>2, <1>3, <1>4, <2>1, StoreStep
<1>5. CASE store' = [store EXCEPT ![n] = infra[n]]
  <2>1. /\ store' \in StoreCopies /\ store'[n] = infra[n] /\ infra[n] # None
        /\ \A m \in Nodes \ {n} : store'[m] = store[m]
    BY <1>1, <1>5, Constants DEF StoreCopies
  <2>2. /\ Published(store')[n] = infra[n]
        /\ \A m \in Nodes \ {n} : Published(store')[m] = Published(store)[m]
    BY <1>1, <2>1, PublishedType
  <2>3. Behind(Published(store), Published(store'), gone) /\ Behind(Published(store'), infra, {})
    BY <1>1, <1>3, <2>2, StoreType, Constants DEF Behind
  <2> QED
    BY <1>1, <1>2, <2>1, <2>3, StoreStep
<1> QED
  BY <1>4, <1>5 DEF Mirror

LEMMA JoinInv ==
  ASSUME IInv, NEW n \in Nodes, Join(n)
  PROVE  IInv'
<1>1. /\ UNCHANGED <<tenantVars, gone, cacheVars, workVars, daemonVars, bounds>>
      /\ store \in StoreCopies /\ gone \in SUBSET Nodes /\ infra \in [Nodes -> 0 .. MaxInfra]
      /\ store[n] = None /\ store' = [store EXCEPT ![n] = 0]
  BY DEF IInv, TypeOK, Join
<1>2. /\ UNCHANGED <<ensure, infra>> /\ mirror' \in [Nodes -> BOOLEAN]
  BY <1>1 DEF IInv, TypeOK, daemonVars
<1>3. /\ store' \in StoreCopies /\ store'[n] = 0 /\ 0 # None
      /\ \A m \in Nodes \ {n} : store'[m] = store[m]
  BY <1>1, Constants DEF StoreCopies
<1>4. \A m \in Nodes : Published(store')[m] = Published(store)[m]
  BY <1>1, <1>3, PublishedType
<1>5. Behind(Published(store), Published(store'), gone) /\ Behind(Published(store'), infra, {})
  BY <1>4, StoreType, Constants DEF Behind, IInv, BehindOK
<1> QED
  BY <1>1, <1>2, <1>3, <1>5, StoreStep

LEMMA DeleteStoreInv ==
  ASSUME IInv, NEW n \in Nodes, DeleteStore(n)
  PROVE  IInv'
<1>1. /\ UNCHANGED <<tenantVars, cacheVars, workVars, daemonVars, bounds>>
      /\ store \in StoreCopies /\ gone \in SUBSET Nodes /\ infra \in [Nodes -> 0 .. MaxInfra]
      /\ store' = [store EXCEPT ![n] = None] /\ gone' = gone \cup {n}
  BY DEF IInv, TypeOK, DeleteStore
<1>2. /\ UNCHANGED <<ensure, infra>> /\ mirror' \in [Nodes -> BOOLEAN]
  BY <1>1 DEF IInv, TypeOK, daemonVars
<1>3. /\ store' \in StoreCopies /\ store'[n] = None
      /\ \A m \in Nodes \ {n} : store'[m] = store[m]
  BY <1>1 DEF StoreCopies
<1>4. Published(store')[n] = 0 /\ \A m \in Nodes \ {n} : Published(store')[m] = Published(store)[m]
  BY <1>1, <1>3, PublishedType
<1>5. Behind(Published(store), Published(store'), gone')
  <2>1. \A m \in Nodes \ gone' : Published(store')[m] = Published(store)[m]
    BY <1>1, <1>4
  <2>2. \A m \in Nodes : Published(store)[m] \in Nat
    BY StoreType
  <2> QED
    BY <2>1, <2>2 DEF Behind
<1>6. Behind(Published(store'), infra, {})
  <2>1. Behind(Published(store), infra, {}) /\ infra[n] \in 0 .. MaxInfra
    BY <1>1 DEF IInv, BehindOK
  <2>2. 0 <= infra[n]
    BY <2>1, Constants
  <2> QED
    BY <1>4, <2>1, <2>2 DEF Behind
<1> QED
  BY <1>1, <1>2, <1>3, <1>5, <1>6, StoreStep

(* The write under way was computed for the old zones: it is refused.      *)
LEMMA ChangeZonesInv ==
  ASSUME IInv, NEW z \in 1 .. MaxZones, ChangeZones(z)
  PROVE  IInv'
<1>1. /\ UNCHANGED <<storeVars, cacheVars, queue, daemonVars, restarts>>
      /\ fresh' = FALSE /\ newSpec' = TRUE /\ dfresh' \in [Nodes -> BOOLEAN]
  BY DEF ChangeZones, Outdate
<1>2. /\ api' \in Tenant /\ api'.awaiting = api.awaiting /\ api'.assigned = api.assigned
  BY DEF IInv, TypeOK, Tenant, ChangeZones
<1>3. changes' \in 0 .. MaxSpecChanges
  BY PlacementAssumption DEF IInv, TypeOK, ChangeZones
<1>4. work = None => work' = None
  BY DEF ChangeZones, Refused
<1>5. ASSUME work # None
      PROVE  /\ work' \in WriteType /\ ~work'.ok
             /\ work'.awaiting = work.awaiting /\ work'.assigned = work.assigned
  <2>1. work \in WriteType /\ work' = [work EXCEPT !.ok = FALSE]
    BY <1>5 DEF IInv, TypeOK, WriteType, ChangeZones, Refused
  <2> QED
    BY <2>1 DEF WriteType
<1>6. TypeOK'
  BY <1>1, <1>2, <1>3, <1>4, <1>5 DEF IInv, TypeOK, WriteType, storeVars, cacheVars, daemonVars
<1>7. Disjoint' /\ FreshOK'
  BY <1>1, <1>2 DEF IInv, Disjoint, FreshOK
<1>8. WriteOK'
  BY <1>4, <1>5 DEF IInv, WriteOK, Apart
<1>9. BehindOK'
  BY <1>1, <1>2, <1>4, <1>5 DEF IInv, BehindOK, storeVars, cacheVars, daemonVars
<1> QED
  BY <1>6, <1>7, <1>8, <1>9 DEF IInv

LEMMA InitInv == Init => IInv
<1> SUFFICES ASSUME Init PROVE IInv
  OBVIOUS
<1>1. /\ api \in Tenant /\ api.awaiting = {} /\ api.assigned = NoNode
  <2>1. PICK z \in InitialZones :
          api = [zones |-> z, awaiting |-> {}, assigned |-> NoNode, finalizer |-> FALSE]
    BY DEF Init
  <2>2. NoNode \in [Nodes -> 0 .. MaxInfra] /\ z \in 1 .. MaxZones
    BY PlacementAssumption DEF NoNode
  <2> QED
    BY <2>1, <2>2 DEF Tenant
<1>2. store \in StoreCopies /\ scache = store
  BY DEF Init, StoreCopies
<1>3. dfresh \in [Nodes -> BOOLEAN] /\ ensure \in [Nodes -> BOOLEAN] /\ mirror \in [Nodes -> BOOLEAN]
  BY DEF Init
<1>4. /\ infra \in [Nodes -> 0 .. MaxInfra] /\ gone = {} /\ changes \in 0 .. MaxSpecChanges
      /\ restarts \in 0 .. MaxRestarts /\ infra = NoNode
  BY PlacementAssumption DEF Init, NoNode
<1>5. TypeOK
  BY <1>1, <1>2, <1>3, <1>4 DEF Init, TypeOK
<1>6. Disjoint /\ WriteOK /\ FreshOK
  BY <1>1 DEF Init, Disjoint, WriteOK, FreshOK
<1>7. \A n \in Nodes : Published(store)[n] = 0 /\ NoNode[n] = 0
  BY <1>2, PublishedType DEF Init, NoNode
<1>8. BehindOK
  BY <1>1, <1>2, <1>4, <1>7 DEF Init, BehindOK, Behind
<1> QED
  BY <1>5, <1>6, <1>8 DEF IInv

LEMMA NextInv ==
  ASSUME IInv, [Next]_vars
  PROVE  IInv'
<1>1. CASE UNCHANGED vars
  BY <1>1 DEF IInv, TypeOK, Disjoint, WriteOK, FreshOK, BehindOK, vars, tenantVars, storeVars,
              cacheVars, workVars, daemonVars, bounds
<1>2. ASSUME NEW item \in Items, Reconcile(item) PROVE IInv'
  BY <1>2, ReconcileTenantAddInv, ReconcileTenantUpdateInv, ReconcileNodestoreUpdateInv,
     ReconcileNodestoreDeleteInv DEF Reconcile
<1>3. ASSUME NEW n \in Nodes,
             Deliver(n) \/ Daemon(n) \/ Expand(n) \/ Join(n) \/ DeleteStore(n)
      PROVE  IInv'
  BY <1>3, DeliverInv, ObserveInv, EnsureTenantInv, MirrorInv, ExpandInv, JoinInv, DeleteStoreInv
  DEF Daemon
<1> QED
  BY <1>1, <1>2, <1>3, DeliverTenantInv, CommitInv, RestartInv, ChangeZonesInv DEF Next

(* The status is consistent with what was published, and a write that will *)
(* be accepted is one for the zones that the spec has.                     *)
THEOREM InvariantHolds == Spec => []IInv
BY InitInv, NextInv, PTL DEF Spec

(* The Tenant, its copies, the NodeStores and the write under way have     *)
(* their types: no version or list gets out of its range.                  *)
THEOREM TypeCorrect == Spec => []TypeOK
BY InvariantHolds, PTL DEF IInv

(* No node is both awaiting and assigned, although the two lists are       *)
(* computed from different caches.                                         *)
THEOREM ListsDisjoint == Spec => []Disjoint
BY InvariantHolds, PTL DEF IInv

(* No node is assigned before its daemon has published the tenant, and no  *)
(* entry is ahead of what the node has published.                          *)
THEOREM StatusBehindNodes == Spec => []AssignedPublished
<1>1. IInv => AssignedPublished
  BY DEF IInv, BehindOK, Behind, AssignedPublished
<1> QED
  BY <1>1, InvariantHolds, PTL

(* A status write never exceeds the zones that the spec has when it is     *)
(* accepted, unless awaiting nodes alone do.                               *)
THEOREM WritesWithinZones == Spec => WithinZones
<1> DEFINE Lists == api'.awaiting # api.awaiting \/ api'.assigned # api.assigned
<1>1. ASSUME IInv, [Next]_vars
      PROVE  [Lists => Total(api') <= api'.zones \/ api'.assigned = NoNode]_vars
  <2>1. SUFFICES ASSUME Next, Lists PROVE Total(api') <= api'.zones \/ api'.assigned = NoNode
    BY <1>1
  <2>2. CASE Commit
    <3>1. work.ok
      BY <2>1, <2>2 DEF Commit
    <3>2. api' = [api EXCEPT !.awaiting = work.awaiting, !.assigned = work.assigned] /\ api \in Tenant
      BY <1>1, <2>2, <3>1 DEF Commit, IInv, TypeOK
    <3>3. api'.awaiting = work.awaiting /\ api'.assigned = work.assigned /\ api'.zones = api.zones
      BY <3>2 DEF Tenant
    <3>4. Fits(work, api.zones)
      BY <1>1, <2>2, <3>1 DEF IInv, WriteOK, Commit
    <3> QED
      BY <3>3, <3>4 DEF Fits, Total
  <2>3. ASSUME NEW item \in Items, Reconcile(item) PROVE FALSE
    <3>1. api'.awaiting = api.awaiting /\ api'.assigned = api.assigned
      BY <1>1, <2>3, FinalizerStep
      DEF Reconcile, ReconcileTenantAdd, ReconcileTenantUpdate, ReconcileNodestoreUpdate,
          ReconcileNodestoreDelete, tenantVars
    <3> QED
      BY <2>1, <3>1
  <2>4. ASSUME NEW z \in 1 .. MaxZones, ChangeZones(z) PROVE FALSE
    <3>1. api'.awaiting = api.awaiting /\ api'.assigned = api.assigned
      BY <1>1, <2>4 DEF ChangeZones, IInv, TypeOK, Tenant
    <3> QED
      BY <2>1, <3>1
  <2>5. ASSUME NEW n \in Nodes, Deliver(n) \/ Daemon(n) \/ Expand(n) \/ Join(n) \/ DeleteStore(n)
        PROVE  FALSE
    BY <2>1, <2>5 DEF Deliver, DeliverStoreAdd, DeliverStoreUpdate, DeliverStoreDelete, Daemon,
       Observe, EnsureTenant, Mirror, Expand, Join, DeleteStore, tenantVars
  <2> QED
    BY <2>1, <2>2, <2>3, <2>4, <2>5 DEF Next, DeliverTenant, Restart
<1>2. (IInv /\ [Next]_vars) => [Lists => Total(api') <= api'.zones \/ api'.assigned = NoNode]_vars
  BY <1>1
<1>3. Spec => [][Lists => Total(api') <= api'.zones \/ api'.assigned = NoNode]_vars
  BY <1>2, InvariantHolds, PTL DEF Spec
<1> QED
  BY <1>3 DEF WithinZones

-----------------------------------------------------------------------------
(* While zones only grow and no NodeStore is deleted, nothing is taken     *)
(* back.                                                                   *)

(* Tenants whose lists are the same have the same members.                 *)
LEMMA SameMembers ==
  ASSUME NEW t, NEW u, t.awaiting = u.awaiting, t.assigned = u.assigned
  PROVE  Members(t) = Members(u)
BY DEF Members

LEMMA MembersNodes ==
  ASSUME GrowInv
  PROVE  /\ Members(api) \in SUBSET Nodes /\ Cardinality(Members(api)) \in Nat
         /\ api.zones \in 1 .. MaxZones /\ api.awaiting \in SUBSET Nodes
         /\ api.assigned \in [Nodes -> 0 .. MaxInfra]
<1>1. /\ api.awaiting \in SUBSET Nodes /\ api.zones \in 1 .. MaxZones
      /\ api.assigned \in [Nodes -> 0 .. MaxInfra]
  BY DEF GrowInv, IInv, TypeOK, Tenant
<1>2. Members(api) \in SUBSET Nodes
  BY <1>1, AssignedNodes DEF Members
<1> QED
  BY <1>1, <1>2, FiniteNodes

(* A step of the worker: a write that will be accepted must lose nothing.  *)
LEMMA WorkerKeeps ==
  ASSUME GrowInv, UNCHANGED <<storeVars, cacheVars, daemonVars>>,
         api'.zones = api.zones, api'.awaiting = api.awaiting, api'.assigned = api.assigned,
         \/ work' = None
         \/ /\ Behind(work'.assigned, Published(scache), {})
            /\ work'.ok => /\ Behind(api.assigned, work'.assigned, {})
                           /\ Members(api) \subseteq Members(work')
                           /\ Cardinality(Members(work')) <= api.zones
  PROVE  GrowOK'
<1>1. Members(api') = Members(api)
  BY SameMembers
<1>2. gone' = {} /\ MembersOK'
  BY <1>1 DEF GrowInv, GrowOK, MembersOK, storeVars, daemonVars
<1>3. CopiesOK'
  BY DEF GrowInv, GrowOK, CopiesOK, cacheVars
<1>4. WriteKeeps'
  BY <1>1 DEF WriteKeeps
<1> QED
  BY <1>2, <1>3, <1>4 DEF GrowOK

LEMMA TenantAddKeeps ==
  ASSUME GrowInv, ReconcileTenantAdd
  PROVE  GrowOK'
<1>1. /\ work = None /\ cache # None /\ cache \in Tenant /\ fresh \in BOOLEAN
      /\ UNCHANGED <<storeVars, cacheVars, daemonVars>>
      /\ api'.zones = api.zones /\ api'.awaiting = api.awaiting /\ api'.assigned = api.assigned
  BY FinalizerStep DEF GrowInv, IInv, TypeOK, ReconcileTenantAdd, Take
<1>2. CASE work' = None
  BY <1>1, <1>2, WorkerKeeps
<1>3. ASSUME Total(cache) = 0,
             NEW seed \in selectInitialAwaitingNodes(cache.zones, Stores(scache)),
             Write("tenant-add", seed, cache.assigned, fresh /\ cache.finalizer, FALSE)
      PROVE  GrowOK'
  <2>1. /\ work'.awaiting = seed /\ work'.assigned = cache.assigned
        /\ work'.ok = (fresh /\ cache.finalizer)
    BY <1>3 DEF Write
  <2>2. cache.awaiting \in SUBSET Nodes /\ cache.zones \in Nat /\ seed \in SUBSET Nodes
    BY <1>1, <1>3, Constants DEF Tenant, selectInitialAwaitingNodes, Stores
  <2>3. cache.awaiting = {} /\ Assigned(cache.assigned) = {}
    <3>1. Cardinality(cache.awaiting) \in Nat /\ Cardinality(Assigned(cache.assigned)) \in Nat
      BY <2>2, AssignedNodes, FiniteNodes
    <3>2. Cardinality(cache.awaiting) = 0 /\ Cardinality(Assigned(cache.assigned)) = 0
      BY <1>3, <3>1 DEF Total
    <3> QED
      BY <2>2, <3>2, AssignedNodes, FiniteNodes, FS_EmptySet
  <2>4. Behind(work'.assigned, Published(scache), {})
    BY <1>1, <2>1 DEF GrowInv, GrowOK, CopiesOK
  <2>5. Members(work') = seed
    BY <2>1, <2>3 DEF Members
  <2>6. Cardinality(seed) <= cache.zones
    <3>1. Cardinality(Stores(scache)) \in Nat
      BY FiniteNodes DEF Stores
    <3> QED
      BY <1>3, <2>2, <3>1 DEF Least, selectInitialAwaitingNodes
  <2>7. ASSUME work'.ok
        PROVE  /\ Behind(api.assigned, work'.assigned, {})
               /\ Members(api) \subseteq Members(work')
               /\ Cardinality(Members(work')) <= api.zones
    <3>1. cache = api
      BY <2>1, <2>7 DEF GrowInv, IInv, FreshOK
    <3>2. Members(api) = {}
      BY <2>3, <3>1 DEF Members
    <3>3. Behind(api.assigned, api.assigned, {})
      BY MembersNodes, Constants DEF Behind
    <3> QED
      BY <2>1, <2>5, <2>6, <3>1, <3>2, <3>3
  <2> QED
    BY <1>1, <2>4, <2>7, WorkerKeeps
<1>4. work' = None \/ (Total(cache) = 0 /\
        \E seed \in selectInitialAwaitingNodes(cache.zones, Stores(scache)) :
          Write("tenant-add", seed, cache.assigned, fresh /\ cache.finalizer, FALSE))
  BY <1>1 DEF ReconcileTenantAdd, Done, workVars
<1> QED
  BY <1>2, <1>3, <1>4

LEMMA TenantUpdateKeeps ==
  ASSUME GrowInv, ReconcileTenantUpdate
  PROVE  GrowOK'
<1>1. /\ work = None /\ cache # None /\ cache \in Tenant /\ fresh \in BOOLEAN
      /\ UNCHANGED <<storeVars, cacheVars, daemonVars>>
      /\ api'.zones = api.zones /\ api'.awaiting = api.awaiting /\ api'.assigned = api.assigned
  BY FinalizerStep DEF GrowInv, IInv, TypeOK, ReconcileTenantUpdate, Take
<1>2. CASE work' = None
  BY <1>1, <1>2, WorkerKeeps
<1>3. ASSUME NEW r \in Recompute(cache.zones, cache.awaiting, cache.assigned, Stores(scache)),
             Write("tenant-update", r.awaiting, r.assigned, fresh /\ cache.finalizer, FALSE)
      PROVE  GrowOK'
  <2>1. /\ work'.awaiting = r.awaiting /\ work'.assigned = r.assigned
        /\ work'.ok = (fresh /\ cache.finalizer)
    BY <1>3 DEF Write
  <2>2. /\ r.assigned \in [Nodes -> 0 .. MaxInfra] /\ Behind(r.assigned, cache.assigned, {})
        /\ KeepsAll(r, cache.zones, cache.awaiting, cache.assigned)
    BY <1>1, <1>3, RecomputeResult DEF Tenant, Stores
  <2>3. Behind(work'.assigned, Published(scache), {})
    <3>1. Behind(cache.assigned, Published(scache), {})
      BY <1>1 DEF GrowInv, GrowOK, CopiesOK
    <3> QED
      BY <1>1, <2>1, <2>2, <3>1, StoreType, BehindTrans DEF Tenant, GrowInv
  <2>4. ASSUME work'.ok
        PROVE  /\ Behind(api.assigned, work'.assigned, {})
               /\ Members(api) \subseteq Members(work')
               /\ Cardinality(Members(work')) <= api.zones
    <3>1. cache = api
      BY <2>1, <2>4 DEF GrowInv, IInv, FreshOK
    <3>2. cache.awaiting \cup Assigned(cache.assigned) = Members(api) /\ Members(work') = Members(r)
      BY <2>1, <3>1 DEF Members
    <3>3. Cardinality(Members(api)) <= api.zones
      BY DEF GrowInv, GrowOK, MembersOK
    <3>4. Behind(api.assigned, api.assigned, {})
      BY MembersNodes, Constants DEF Behind
    <3> QED
      BY <2>1, <2>2, <3>1, <3>2, <3>3, <3>4 DEF KeepsAll
  <2> QED
    BY <1>1, <2>3, <2>4, WorkerKeeps
<1>4. work' = None \/
        \E r \in Recompute(cache.zones, cache.awaiting, cache.assigned, Stores(scache)) :
          Write("tenant-update", r.awaiting, r.assigned, fresh /\ cache.finalizer, FALSE)
  BY DEF ReconcileTenantUpdate, Done
<1> QED
  BY <1>2, <1>3, <1>4

(* The nodes that have published the tenant are members already, so that   *)
(* the lists rebuilt from the NodeStores are not too long to keep.         *)
LEMMA StoreUpdateKeeps ==
  ASSUME GrowInv, NEW item \in Items, ReconcileNodestoreUpdate(item)
  PROVE  GrowOK'
<1> DEFINE built == Published(scache)
           more(r) == /\ Cardinality(Stores(scache)) >= cache.zones
                      /\ Cardinality(Assigned(r.assigned)) # cache.zones
<1>1. /\ work = None /\ cache # None /\ cache \in Tenant
      /\ UNCHANGED <<storeVars, cacheVars, daemonVars>> /\ api' = api
  BY DEF GrowInv, IInv, TypeOK, ReconcileNodestoreUpdate, Take, tenantVars
<1>2. CASE work' = None
  BY <1>1, <1>2, WorkerKeeps
<1>3. ASSUME NEW r \in Recompute(cache.zones, cache.awaiting, built, Stores(scache)),
             Write(item, r.awaiting, r.assigned, fresh, more(r))
      PROVE  GrowOK'
  <2>1. built \in [Nodes -> 0 .. MaxInfra]
    BY StoreType DEF GrowInv
  <2> HIDE DEF built
  <2>2. /\ r.assigned \in [Nodes -> 0 .. MaxInfra] /\ Behind(r.assigned, built, {})
        /\ KeepsAll(r, cache.zones, cache.awaiting, built)
    BY <1>1, <1>3, <2>1, RecomputeResult DEF Tenant, Stores
  <2>3. work'.awaiting = r.awaiting /\ work'.assigned = r.assigned /\ work'.ok = fresh
    BY <1>3 DEF Write
  <2>4. Behind(work'.assigned, Published(scache), {})
    BY <2>2, <2>3 DEF built
  <2>5. ASSUME work'.ok
        PROVE  /\ Behind(api.assigned, work'.assigned, {})
               /\ Members(api) \subseteq Members(work')
               /\ Cardinality(Members(work')) <= api.zones
    <3>1. cache = api
      BY <2>3, <2>5 DEF GrowInv, IInv, FreshOK
    <3>2. Behind(api.assigned, built, {})
      BY DEF GrowInv, GrowOK, CopiesOK, built
    <3>3. Assigned(built) \subseteq Members(api)
      <4>1. SUFFICES ASSUME NEW n \in Nodes, built[n] # 0 PROVE n \in Members(api)
        BY DEF Assigned
      <4>2. built[n] <= Published(store)[n] /\ Published(store)[n] <= infra[n]
        BY DEF GrowInv, GrowOK, IInv, BehindOK, Behind, built
      <4>3. built[n] \in Nat /\ Published(store)[n] \in Nat /\ infra[n] \in Nat
        BY <2>1, StoreType DEF GrowInv, IInv, TypeOK
      <4>4. infra[n] # 0
        BY <4>1, <4>2, <4>3
      <4> QED
        BY <4>4 DEF GrowInv, GrowOK, MembersOK
    <3>4. Assigned(api.assigned) \subseteq Assigned(built)
      <4>1. SUFFICES ASSUME NEW n \in Nodes, api.assigned[n] # 0 PROVE built[n] # 0
        BY DEF Assigned
      <4>2. api.assigned[n] <= built[n] /\ api.assigned[n] \in Nat /\ built[n] \in Nat
        BY <2>1, <3>2, MembersNodes DEF Behind
      <4> QED
        BY <4>1, <4>2
    <3>5. cache.awaiting \cup Assigned(built) = Members(api)
      BY <3>1, <3>3, <3>4 DEF Members
    <3>6. Cardinality(Members(api)) <= api.zones
      BY DEF GrowInv, GrowOK, MembersOK
    <3>7. Members(work') = Members(r)
      BY <2>3 DEF Members
    <3> QED
      BY <2>2, <2>3, <3>1, <3>2, <3>5, <3>6, <3>7 DEF KeepsAll
  <2> QED
    BY <1>1, <2>4, <2>5, WorkerKeeps
<1>4. work' = None \/
        \E r \in Recompute(cache.zones, cache.awaiting, built, Stores(scache)) :
          Write(item, r.awaiting, r.assigned, fresh, more(r))
  BY DEF ReconcileNodestoreUpdate, Done
<1> QED
  BY <1>2, <1>3, <1>4

LEMMA StoreDeleteKeeps ==
  ASSUME GrowInv, ReconcileNodestoreDelete
  PROVE  GrowOK'
<1>1. work' = None /\ UNCHANGED <<storeVars, cacheVars, daemonVars>> /\ api' = api
  BY DEF ReconcileNodestoreDelete, Done, tenantVars
<1> QED
  BY <1>1, WorkerKeeps

LEMMA CommitKeeps ==
  ASSUME GrowInv, Commit
  PROVE  /\ GrowOK' /\ Behind(api.assigned, api'.assigned, {})
<1>1. /\ work' = None /\ UNCHANGED <<storeVars, cacheVars, daemonVars>> /\ work # None
      /\ work.ok \in BOOLEAN
  BY DEF GrowInv, IInv, TypeOK, Commit
<1>2. CASE work.ok
  <2>1. api' = [api EXCEPT !.awaiting = work.awaiting, !.assigned = work.assigned] /\ api \in Tenant
    BY <1>2 DEF Commit, GrowInv, IInv, TypeOK
  <2>2. api'.awaiting = work.awaiting /\ api'.assigned = work.assigned /\ api'.zones = api.zones
    BY <2>1 DEF Tenant
  <2>3. Members(api') = Members(work)
    BY <2>2, SameMembers
  <2>4. /\ Behind(api.assigned, work.assigned, {})
        /\ Members(api) \subseteq Members(work) /\ Cardinality(Members(work)) <= api.zones
    BY <1>1, <1>2 DEF GrowInv, GrowOK, WriteKeeps
  <2>5. gone' = {} /\ MembersOK'
    BY <1>1, <2>2, <2>3, <2>4 DEF GrowInv, GrowOK, MembersOK, storeVars, daemonVars
  <2>6. CopiesOK'
    BY <1>1, <2>2 DEF GrowInv, GrowOK, CopiesOK, cacheVars
  <2>7. WriteKeeps'
    BY <1>1 DEF WriteKeeps
  <2> QED
    BY <2>2, <2>4, <2>5, <2>6, <2>7 DEF GrowOK
<1>3. CASE ~work.ok
  <2>1. api' = api
    BY <1>3 DEF Commit
  <2>2. Behind(api.assigned, api.assigned, {})
    BY MembersNodes, Constants DEF Behind
  <2> QED
    BY <1>1, <2>1, <2>2, WorkerKeeps
<1> QED
  BY <1>1, <1>2, <1>3

LEMMA DeliverKeeps ==
  ASSUME GrowInv, NEW n \in Nodes, Deliver(n)
  PROVE  GrowOK'
<1>1. UNCHANGED <<tenantVars, storeVars, cache, work, daemonVars>>
  BY DEF Deliver, DeliverStoreAdd, DeliverStoreUpdate, DeliverStoreDelete
<1>2. /\ scache \in StoreCopies /\ store \in StoreCopies /\ scache' \in StoreCopies
      /\ \A m \in Nodes \ {n} : scache'[m] = scache[m]
      /\ \/ scache[n] = None
         \/ store[n] # None /\ scache'[n] = store[n]
         \/ store[n] = None
  <2>1. scache \in StoreCopies /\ store \in StoreCopies
    BY DEF GrowInv, IInv, TypeOK
  <2>2. scache' \in StoreCopies
    BY DeliverInv DEF GrowInv, IInv, TypeOK
  <2> QED
    BY <2>1, <2>2
    DEF StoreCopies, Deliver, DeliverStoreAdd, DeliverStoreUpdate, DeliverStoreDelete
<1> DEFINE old == Published(scache)
           newer == Published(scache')
           stored == Published(store)
<1>3. old \in [Nodes -> 0 .. MaxInfra] /\ newer \in [Nodes -> 0 .. MaxInfra] /\ stored \in [Nodes -> 0 .. MaxInfra]
  BY <1>2, PublishedType
<1>4. \A m \in Nodes \ {n} : newer[m] = old[m]
  BY <1>2, PublishedType
<1>5. old[n] = 0 \/ newer[n] = stored[n] \/ stored[n] = 0
  BY <1>2, PublishedType
<1>6. Behind(old, stored, {})
  BY DEF GrowInv, GrowOK, IInv, BehindOK
<1> HIDE DEF old, newer, stored
<1>7. old[n] <= newer[n]
  <2>1. old[n] \in Nat /\ newer[n] \in Nat /\ stored[n] \in Nat /\ old[n] <= stored[n]
    BY <1>3, <1>6 DEF Behind
  <2> QED
    BY <1>5, <2>1
<1>8. Behind(old, newer, {})
  BY <1>3, <1>4, <1>7 DEF Behind
<1>9. ASSUME NEW f \in [Nodes -> 0 .. MaxInfra], Behind(f, old, {}) PROVE Behind(f, newer, {})
  BY <1>3, <1>8, <1>9, BehindTrans
<1>10. CopiesOK'
  <2>1. Behind(api.assigned, newer, {})
    BY <1>9, MembersNodes DEF GrowInv, GrowOK, CopiesOK, old
  <2>2. cache # None => Behind(cache.assigned, newer, {})
    BY <1>9 DEF GrowInv, GrowOK, CopiesOK, IInv, TypeOK, Tenant, old
  <2>3. work # None => Behind(work.assigned, newer, {})
    BY <1>9 DEF GrowInv, GrowOK, CopiesOK, IInv, TypeOK, old
  <2> QED
    BY <1>1, <2>1, <2>2, <2>3 DEF CopiesOK, tenantVars, newer
<1>11. gone' = {} /\ MembersOK' /\ WriteKeeps'
  BY <1>1 DEF GrowInv, GrowOK, MembersOK, WriteKeeps, tenantVars, storeVars, daemonVars
<1> QED
  BY <1>10, <1>11 DEF GrowOK

LEMMA OthersKeep ==
  ASSUME GrowInv, GrowOnly = TRUE, MaxDeletes = 0,
         \/ DeliverTenant \/ Restart
         \/ \E n \in Nodes : Daemon(n) \/ Expand(n) \/ Join(n) \/ DeleteStore(n)
         \/ \E z \in 1 .. MaxZones : ChangeZones(z)
  PROVE  GrowOK' /\ api'.assigned = api.assigned
<1>1. CASE DeliverTenant
  BY <1>1 DEF GrowInv, GrowOK, MembersOK, CopiesOK, WriteKeeps, DeliverTenant, storeVars, daemonVars
<1>2. CASE Restart
  <2>1. /\ UNCHANGED <<api, storeVars, daemonVars>> /\ work' = None /\ cache' = api /\ scache' = store
    BY <1>2 DEF Restart
  <2>2. Behind(api.assigned, Published(store), {})
    BY DEF GrowInv, GrowOK, IInv, BehindOK
  <2> QED
    BY <2>1, <2>2 DEF GrowInv, GrowOK, MembersOK, CopiesOK, WriteKeeps, storeVars, daemonVars
<1>3. ASSUME NEW n \in Nodes, Daemon(n) \/ Expand(n) \/ Join(n) \/ DeleteStore(n)
      PROVE  GrowOK' /\ api'.assigned = api.assigned
  <2>1. ~DeleteStore(n)
    <3>1. Cardinality(gone) = 0
      BY FS_EmptySet DEF GrowInv, GrowOK
    <3> QED
      BY <3>1 DEF DeleteStore
  <2>2. UNCHANGED <<api, gone, cacheVars, workVars>>
    BY <1>3, <2>1 DEF Daemon, Observe, EnsureTenant, Mirror, Expand, Join, tenantVars, storeVars
  <2>3. gone' = {} /\ CopiesOK' /\ WriteKeeps'
    BY <2>2 DEF GrowInv, GrowOK, CopiesOK, WriteKeeps, cacheVars, workVars
  <2>4. ASSUME NEW m \in Nodes, ensure'[m] \/ infra'[m] # 0 PROVE m \in Members(api)
    <3>1. ensure \in [Nodes -> BOOLEAN] /\ infra \in [Nodes -> 0 .. MaxInfra]
      BY DEF GrowInv, IInv, TypeOK
    <3>2. ensure[m] \/ infra[m] # 0 => m \in Members(api)
      BY DEF GrowInv, GrowOK, MembersOK
    <3>3. CASE Observe(n)
      <4>1. infra' = infra /\ (ensure'[m] => ensure[m] \/ m \in api.awaiting)
        BY <3>1, <3>3 DEF Observe
      <4> QED
        BY <2>4, <3>2, <4>1 DEF Members
    <3>4. CASE EnsureTenant(n)
      <4>1. (ensure'[m] => ensure[m]) /\ (infra'[m] # 0 => infra[m] # 0 \/ ensure[m])
        BY <3>1, <3>4 DEF EnsureTenant
      <4> QED
        BY <2>4, <3>2, <4>1
    <3>5. CASE Expand(n)
      <4>1. ensure' = ensure /\ (infra'[m] # 0 => infra[m] # 0)
        BY <3>1, <3>5 DEF Expand
      <4> QED
        BY <2>4, <3>2, <4>1
    <3>6. CASE Mirror(n) \/ Join(n)
      BY <2>4, <3>2, <3>6 DEF Mirror, Join, daemonVars
    <3> QED
      BY <1>3, <2>1, <3>3, <3>4, <3>5, <3>6 DEF Daemon
  <2>5. MembersOK'
    BY <2>2, <2>4 DEF GrowInv, GrowOK, MembersOK
  <2> QED
    BY <2>2, <2>3, <2>5 DEF GrowOK
<1>4. ASSUME NEW z \in 1 .. MaxZones, ChangeZones(z) PROVE GrowOK' /\ api'.assigned = api.assigned
  <2>1. UNCHANGED <<storeVars, cacheVars, daemonVars>> /\ z > api.zones
    BY <1>4 DEF ChangeZones
  <2>2. api'.zones = z /\ api'.awaiting = api.awaiting /\ api'.assigned = api.assigned
    BY <1>4 DEF ChangeZones, GrowInv, IInv, TypeOK, Tenant
  <2>3. Members(api') = Members(api)
    BY <2>2, SameMembers
  <2>4. gone' = {} /\ MembersOK'
    BY <2>1, <2>2, <2>3, MembersNodes, Constants DEF GrowInv, GrowOK, MembersOK, storeVars, daemonVars
  <2>5. work' = None \/ (work # None /\ ~work'.ok /\ work'.assigned = work.assigned)
    <3>1. CASE work = None
      BY <1>4, <3>1 DEF ChangeZones, Refused
    <3>2. CASE work # None
      <4>1. work \in WriteType /\ work' = [work EXCEPT !.ok = FALSE]
        BY <1>4, <3>2 DEF GrowInv, IInv, TypeOK, WriteType, ChangeZones, Refused
      <4> QED
        BY <3>2, <4>1 DEF WriteType
    <3> QED
      BY <3>1, <3>2
  <2>6. CopiesOK' /\ WriteKeeps'
    BY <2>1, <2>2, <2>5 DEF GrowInv, GrowOK, CopiesOK, WriteKeeps, cacheVars
  <2> QED
    BY <2>2, <2>4, <2>6 DEF GrowOK
<1> QED
  BY <1>1, <1>2, <1>3, <1>4 DEF DeliverTenant

LEMMA InitGrow == Init => GrowInv
<1> SUFFICES ASSUME Init PROVE GrowInv
  OBVIOUS
<1>1. IInv
  BY InitInv
<1>2. api.awaiting = {} /\ api.assigned = NoNode /\ api.zones \in Nat
  BY <1>1, Constants DEF Init, IInv, TypeOK, Tenant
<1>3. Members(api) = {}
  BY <1>2, NoneAssigned DEF Members
<1>4. Cardinality(Members(api)) <= api.zones
  BY <1>2, <1>3, FS_EmptySet
<1>5. \A n \in Nodes : ~ensure[n] /\ infra[n] = 0
  BY DEF Init, NoNode
<1>6. MembersOK
  BY <1>4, <1>5 DEF MembersOK
<1>7. \A n \in Nodes : Published(scache)[n] = 0 /\ NoNode[n] = 0
  BY <1>1, PublishedType DEF IInv, TypeOK, Init, NoNode
<1>8. CopiesOK /\ WriteKeeps
  BY <1>2, <1>7 DEF Init, CopiesOK, WriteKeeps, Behind
<1> QED
  BY <1>1, <1>6, <1>8 DEF Init, GrowInv, GrowOK

LEMMA NextGrow ==
  ASSUME GrowInv, [Next]_vars, GrowOnly = TRUE, MaxDeletes = 0
  PROVE  /\ GrowInv'
         /\ [\A n \in Nodes : api'.assigned[n] >= api.assigned[n]]_vars
<1>1. IInv'
  BY NextInv DEF GrowInv
<1>2. /\ \A n \in Nodes : api.assigned[n] \in Nat
      /\ \A n \in Nodes : api'.assigned[n] \in Nat
  BY <1>1 DEF GrowInv, IInv, TypeOK, Tenant
<1>3. CASE UNCHANGED vars
  BY <1>1, <1>3 DEF GrowInv, GrowOK, MembersOK, CopiesOK, WriteKeeps, vars, tenantVars, storeVars,
                    cacheVars, workVars, daemonVars
<1>4. CASE Commit
  BY <1>1, <1>2, <1>4, CommitKeeps DEF GrowInv, Behind
<1>5. ASSUME GrowOK', api'.assigned = api.assigned
      PROVE  GrowInv' /\ \A n \in Nodes : api'.assigned[n] >= api.assigned[n]
  BY <1>1, <1>2, <1>5 DEF GrowInv
<1>6. ASSUME NEW item \in Items, Reconcile(item) PROVE GrowOK' /\ api'.assigned = api.assigned
  <2>1. GrowOK'
    BY <1>6, TenantAddKeeps, TenantUpdateKeeps, StoreUpdateKeeps, StoreDeleteKeeps DEF Reconcile
  <2>2. api'.assigned = api.assigned
    BY <1>6, FinalizerStep
    DEF GrowInv, Reconcile, ReconcileTenantAdd, ReconcileTenantUpdate, ReconcileNodestoreUpdate,
        ReconcileNodestoreDelete, tenantVars
  <2> QED
    BY <2>1, <2>2
<1>7. ASSUME NEW n \in Nodes, Deliver(n) PROVE GrowOK' /\ api'.assigned = api.assigned
  BY <1>7, DeliverKeeps
  DEF Deliver, DeliverStoreAdd, DeliverStoreUpdate, DeliverStoreDelete, tenantVars
<1> QED
  BY <1>3, <1>4, <1>5, <1>6, <1>7, OthersKeep DEF Next

(* While zones only grow and no NodeStore is deleted, an assigned node     *)
(* stays assigned and its entry never gets older, whatever stale copies    *)
(* the worker has used and however often the orchestrator restarts.        *)
THEOREM AssignmentsKept ==
  ASSUME GrowOnly = TRUE, MaxDeletes = 0
  PROVE  Spec => AssignedKept
<1>1. GrowInv /\ [Next]_vars => GrowInv'
  BY NextGrow
<1>2. GrowInv /\ [Next]_vars => [\A n \in Nodes : api'.assigned[n] >= api.assigned[n]]_vars
  BY NextGrow
<1> QED
  BY <1>1, <1>2, InitGrow, PTL DEF Spec, AssignedKept
=============================================================================
