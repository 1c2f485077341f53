---------------------------- MODULE TenantPolicy ----------------------------
(***************************************************************************)
(* The filter table of a node: who may talk to whom.                       *)
(*                                                                         *)
(* Source: pkg/network/policy/tenant (the chains of tenants), the node     *)
(* policies that the daemon sets when it starts (pkg/network/policy/node,  *)
(* initNodePolicies), and EnsureTenant and RemoveTenant of                 *)
(* internal/nmanager/tops.go as far as they use them.  The dispatcher runs *)
(* one operation at a time, but an operation is a script of single calls of*)
(* iptables: between any two of them packets flow, kube-proxy changes the  *)
(* table, or the daemon ends, and the table outlives it.                   *)
(*                                                                         *)
(* The chains: FORWARD, which belongs to the kernel and to everybody; the  *)
(* anchor SETERA-PRIV-FORWARD, to which FORWARD jumps; and FW-<tenant> for *)
(* each private tenant, to which the anchor jumps by ingress interface.    *)
(***************************************************************************)
EXTENDS Integers, Sequences, SequencesExt

CONSTANTS
  Private,      \* tenants with isolation
  Default,      \* the default tenant
  ChainOf,      \* fwChain: FW-<tenant>, other runes replaced, cut to 29
  KubeFirst,    \* kube-proxy's rules come before those of the default tenant
  MaxOps,       \* bound: operations on tenants
  MaxRestarts,  \* bound: restarts of the daemon
  MaxFaults,    \* bound: calls that fail for a reason outside the table
  None          \* any interface, no rule, no chain, no tenant

Tenants == Private \cup {Default}
FORWARD == "FORWARD"
Anchor == "SETERA-PRIV-FORWARD"
Chains == {FORWARD, Anchor} \cup {ChainOf[t] : t \in Tenants}

ASSUME ConstantsAssumption ==
  /\ Default \notin Private /\ None \notin Tenants \cup (Tenants \X {"br", "vx"})
  /\ DOMAIN ChainOf = Tenants
  /\ \A t \in Tenants : ChainOf[t] \notin {FORWARD, Anchor, "ACCEPT", "DROP", "KUBE", None}
  /\ KubeFirst \in BOOLEAN
  /\ MaxOps \in Nat /\ MaxRestarts \in Nat /\ MaxFaults \in Nat

VARIABLES
  made,      \* the chains that exist
  rules,     \* the rules of each chain, none if it does not exist
  policy,    \* the policy of FORWARD
  links,     \* tenants whose bridge and VTEP are in the kernel
  records,   \* nm.TenantRecords
  op,        \* what the daemon is doing: kind and tenant
  todo,      \* the calls that the operation still has to make
  pos,       \* the position found by afterDefaultBlockPosition
  ops, restarts, faults

table == <<made, rules, policy>>
vars == <<table, links, records, op, todo, pos, ops, restarts, faults>>

Idle == [kind |-> "idle", t |-> None]
Down == [kind |-> "down", t |-> None]

-----------------------------------------------------------------------------
(* Interfaces and rules.                                                   *)

\* The bridge and the VTEP of a tenant.
br(t) == <<t, "br">>
vx(t) == <<t, "vx">>
Ifaces(t) == {br(t), vx(t)}

\* A rule: ingress and egress interface, target, and its comment.
Rule(i, o, to, tag) == [in |-> i, out |-> o, to |-> to, tag |-> tag]

\* Rules of kube-proxy leave tenants' packets to the rules behind them.
KubeRule == Rule(None, None, "KUBE", "kube")
AnchorRule == Rule(None, None, Anchor, "anchor")
Ingress(t, i) == Rule(i, None, ChainOf[t], t)
Egress(t, o) == Rule(None, o, "ACCEPT", t)
Extra(o) == Rule(None, o, "ACCEPT", None)
DefaultDrop(t) == Rule(None, None, "DROP", t)
DefaultIngress(i) == Rule(i, None, "ACCEPT", "default")
DefaultEgress(o) == Rule(None, o, "ACCEPT", "default")

DefaultRules == {DefaultIngress(i) : i \in Ifaces(Default)}
                  \cup {DefaultEgress(o) : o \in Ifaces(Default)}

-----------------------------------------------------------------------------
(* What the kernel does with a packet from interface i to interface o.     *)

\* The first of the rules of a chain that decides says d; v is what each says.
Decides(v, d) ==
  \E k \in DOMAIN v : v[k] = d /\ \A j \in 1..(k - 1) : v[j] = "next"

Decision(v, otherwise) ==
  CASE Decides(v, "ACCEPT") -> "ACCEPT"
    [] Decides(v, "DROP") -> "DROP"
    [] OTHER -> otherwise

\* What a rule says, with sub what the chain says that it may jump to.
Says(r, i, o, sub) ==
  IF ~(r.in \in {None, i} /\ r.out \in {None, o}) THEN "next"
  ELSE IF r.to \in {"ACCEPT", "DROP"} THEN r.to
  ELSE IF r.to = "KUBE" THEN "next" ELSE sub

InTenantChain(c, i, o) ==
  Decision([k \in DOMAIN rules[c] |-> Says(rules[c][k], i, o, "next")], "next")

InAnchor(i, o) ==
  Decision([k \in DOMAIN rules[Anchor] |->
              Says(rules[Anchor][k], i, o, InTenantChain(rules[Anchor][k].to, i, o))], "next")

Accepted(i, o) ==
  Decision([k \in DOMAIN rules[FORWARD] |->
              Says(rules[FORWARD][k], i, o, InAnchor(i, o))], policy) = "ACCEPT"

-----------------------------------------------------------------------------
(* Calls: function, chain, rule, and whether the caller goes on after an   *)
(* error.                                                                  *)

Call(fn, c, r) == [fn |-> fn, chain |-> c, rule |-> r, tolerated |-> FALSE]
Tolerated(k) == [k EXCEPT !.tolerated = TRUE]

\* The target of a rule is there.
TargetMade(r) == r.to \in Chains => r.to \in made

\* The table lets call k succeed.  ClearChain makes a chain that is missing,
\* EnsureChain does not mind one that is there.  A rule is inserted at most one
\* place behind the last; a chain is deleted when it is empty and no rule jumps
\* to it.
Possible(k) ==
  CASE k.fn = "NewChain" -> k.chain \notin made
    [] k.fn = "AppendUnique" -> k.chain \in made /\ TargetMade(k.rule)
    [] k.fn = "InsertAnchor" ->
         \/ Contains(rules[FORWARD], k.rule)
         \/ TargetMade(k.rule) /\ pos <= Len(rules[FORWARD]) + 1
    [] k.fn = "Delete" -> Contains(rules[k.chain], k.rule)
    [] k.fn = "DeleteChain" ->
         /\ k.chain \in made /\ rules[k.chain] = <<>>
         /\ \A c \in made : \A r \in ToSet(rules[c]) : r.to # k.chain
    [] OTHER -> TRUE

\* Rules q with r put at position p unless they have it.
InsertUnique(q, p, r) == IF Contains(q, r) THEN q ELSE InsertAt(q, p, r)

\* Faulty variant: no place is found where there is nothing to come after.
afterDefaultBlockOnly(q) ==
  LET firstKube == SelectInSeq(q, LAMBDA r : r.tag = "kube")
      lastDefault == SelectLastInSeq(q, LAMBDA r : r.tag = "default")
  IN IF firstKube > 0 THEN firstKube + 1
     ELSE IF lastDefault > 0 THEN lastDefault + 2 ELSE 0

\* afterDefaultBlockPosition, where q are the rules of FORWARD.  The listing of
\* a chain begins with its policy, so the k-th rule is its entry k + 1: the
\* place found is the one behind kube-proxy's first rule or, without one, two
\* behind the default tenant's last.
afterDefaultBlockPosition(q) ==
  LET firstKube == SelectInSeq(q, LAMBDA r : r.tag = "kube")
      lastDefault == SelectLastInSeq(q, LAMBDA r : r.tag = "default")
  IN IF firstKube > 0 THEN firstKube + 1
     ELSE IF lastDefault > 0 THEN lastDefault + 2 ELSE 1

\* What call k does to chain c.
RulesAfter(k, c) ==
  IF c # k.chain THEN rules[c]
  ELSE CASE k.fn \in {"ClearChain", "DeleteChain"} -> <<>>
         [] k.fn = "AppendUnique" -> InsertUnique(rules[c], Len(rules[c]) + 1, k.rule)
         [] k.fn = "InsertTop" -> InsertUnique(rules[c], 1, k.rule)
         [] k.fn = "InsertAnchor" -> InsertUnique(rules[c], pos, k.rule)
         [] k.fn = "Delete" -> RemoveFirst(rules[c], k.rule)
         [] OTHER -> rules[c]

Execute(k) ==
  /\ rules' = [c \in Chains |-> RulesAfter(k, c)]
  /\ made' = CASE k.fn \in {"NewChain", "EnsureChain", "ClearChain"} -> made \cup {k.chain}
               [] k.fn = "DeleteChain" -> made \ {k.chain}
               [] OTHER -> made
  /\ policy' = IF k.fn = "ChangePolicy" THEN "DROP" ELSE policy
  /\ pos' = IF k.fn = "List" THEN afterDefaultBlockPosition(rules[FORWARD]) ELSE pos

-----------------------------------------------------------------------------
(* Scripts.                                                                *)

\* The sysctls of the host: forwarding, and bridged packets pass the table.
EnsureIPForwarding == <<Call("Sysctl", None, None)>>
EnsureBridgeNetfilter == <<Call("Sysctl", None, None)>>

\* What no rule of FORWARD decides is dropped.
EnsureForwardPolicyDrop == <<Call("ChangePolicy", None, None)>>

\* The rule of the nat table for what leaves the cluster.
EnsureClusterMasquerade == <<Call("Masquerade", None, None)>>

\* initNodePolicies, before the first tenant.
initNodePolicies ==
  EnsureIPForwarding \o EnsureBridgeNetfilter \o EnsureForwardPolicyDrop
    \o EnsureClusterMasquerade

\* ensurePrivateAnchor: between Delete and InsertUnique no private tenant is
\* reachable.
ensurePrivateAnchor ==
  <<Call("EnsureChain", Anchor, None),
    Tolerated(Call("Delete", FORWARD, AnchorRule)),
    Call("List", FORWARD, None),
    Call("InsertAnchor", FORWARD, AnchorRule)>>

\* Faulty variant: every tenant on the node is let through.
allTenantIfaces ==
  SetToSeq(UNION {Ifaces(t) : t \in records})

\* defaultTenantIfaces: nothing while the default tenant has no record.
defaultTenantIfaces ==
  IF Default \in records THEN <<br(Default), vx(Default)>> ELSE <<>>

\* EnsureTenantChains: the tenant's chain is there, and empty.
EnsureTenantChains(t) ==
  <<Tolerated(Call("NewChain", ChainOf[t], None)), Call("ClearChain", ChainOf[t], None)>>

\* EnsureTenantIsolation of private tenant t.
EnsureTenantIsolation(t) ==
  LET fw == ChainOf[t] IN
  EnsureTenantChains(t)
    \o ensurePrivateAnchor
    \o <<Call("AppendUnique", Anchor, Ingress(t, vx(t))),
         Call("AppendUnique", Anchor, Ingress(t, br(t))),
         Call("AppendUnique", fw, Egress(t, br(t))),
         Call("AppendUnique", fw, Egress(t, vx(t)))>>
    \o [n \in DOMAIN defaultTenantIfaces |->
          Call("AppendUnique", fw, Extra(defaultTenantIfaces[n]))]
    \o <<Call("AppendUnique", fw, DefaultDrop(t))>>

\* Faulty variant: the rules go behind those that are there.
EnsureDefaultTenantAtEnd ==
  <<Call("AppendUnique", FORWARD, DefaultEgress(vx(Default))),
    Call("AppendUnique", FORWARD, DefaultEgress(br(Default))),
    Call("AppendUnique", FORWARD, DefaultIngress(vx(Default))),
    Call("AppendUnique", FORWARD, DefaultIngress(br(Default)))>> \o ensurePrivateAnchor

\* EnsureDefaultTenant: accepted both ways, ahead of everything.
EnsureDefaultTenant ==
  <<Call("InsertTop", FORWARD, DefaultEgress(vx(Default))),
    Call("InsertTop", FORWARD, DefaultEgress(br(Default))),
    Call("InsertTop", FORWARD, DefaultIngress(vx(Default))),
    Call("InsertTop", FORWARD, DefaultIngress(br(Default)))>> \o ensurePrivateAnchor

\* Faulty variant: only the jump from the bridge is removed.
DeleteBridgeJump(t) ==
  <<Call("Delete", Anchor, Ingress(t, br(t))),
    Call("ClearChain", ChainOf[t], None), Call("DeleteChain", ChainOf[t], None)>>

\* DeleteTenantChains.  The default tenant has no jump in the anchor: its first
\* call fails, and its rules in FORWARD stay.
DeleteTenantChains(t) ==
  <<Call("Delete", Anchor, Ingress(t, br(t))), Call("Delete", Anchor, Ingress(t, vx(t))),
    Call("ClearChain", ChainOf[t], None), Call("DeleteChain", ChainOf[t], None)>>

-----------------------------------------------------------------------------
(* The operations of the daemon.                                           *)

\* EnsureTenant: nothing for a tenant with a record; else its devices are made
\* and the policy begins.
EnsureTenant(t) ==
  /\ op = Idle /\ t \notin records /\ ops < MaxOps
  /\ links' = links \cup {t}
  /\ op' = [kind |-> "ensure", t |-> t]
  /\ todo' = IF t = Default THEN EnsureDefaultTenant ELSE EnsureTenantIsolation(t)
  /\ ops' = ops + 1
  /\ UNCHANGED <<table, records, pos, restarts, faults>>

\* RemoveTenant: the devices go first, if they can be deleted.
RemoveTenant(t) ==
  /\ op = Idle /\ t \in records /\ ops < MaxOps
  /\ links' \in {links, links \ {t}}
  /\ op' = [kind |-> "remove", t |-> t]
  /\ todo' = DeleteTenantChains(t)
  /\ ops' = ops + 1
  /\ UNCHANGED <<table, records, pos, restarts, faults>>

\* The operation has made all its calls.
Complete ==
  /\ op' = Idle /\ todo' = <<>>
  /\ records' = CASE op.kind = "ensure" -> records \cup {op.t}
                  [] op.kind = "remove" -> records \ {op.t}
                  [] OTHER -> records
  /\ UNCHANGED links

\* A call has failed and ends the operation: EnsureTenant deletes the devices,
\* if it can, and leaves the chains; RemoveTenant does not mind; the daemon does
\* not start.
Abort ==
  /\ op' = (IF op.kind = "start" THEN Down ELSE Idle) /\ todo' = <<>>
  /\ records' = IF op.kind = "remove" THEN records \ {op.t} ELSE records
  /\ links' \in {links, IF op.kind = "ensure" THEN links \ {op.t} ELSE links}

Proceed ==
  \/ Len(todo) = 1 /\ Complete
  \/ Len(todo) > 1 /\ todo' = Tail(todo) /\ UNCHANGED <<op, records, links>>

\* The operation makes its next call.
MakeCall ==
  /\ todo # <<>>
  /\ \/ Possible(Head(todo)) /\ Execute(Head(todo)) /\ Proceed
     \/ /\ ~Possible(Head(todo))
        /\ IF Head(todo).tolerated THEN Proceed ELSE Abort
        /\ UNCHANGED <<table, pos>>
  /\ UNCHANGED <<ops, restarts, faults>>

\* The call fails whatever the table holds: the lock of iptables, a sysctl, a
\* killed child process.
CallFails ==
  /\ todo # <<>> /\ faults < MaxFaults
  /\ IF Head(todo).tolerated THEN Proceed ELSE Abort
  /\ faults' = faults + 1
  /\ UNCHANGED <<table, pos, ops, restarts>>

\* The daemon ends at any moment and starts again: it has no records; the table
\* and the devices are as they were.
Restart ==
  /\ restarts < MaxRestarts /\ restarts' = restarts + 1
  /\ records' = {}
  /\ op' = [kind |-> "start", t |-> None]
  /\ todo' = initNodePolicies
  /\ UNCHANGED <<table, links, pos, ops, faults>>

\* kube-proxy puts its rule at the top.
KubeProxyInserts ==
  /\ ~Contains(rules[FORWARD], KubeRule)
  /\ KubeFirst => DefaultRules \cap ToSet(rules[FORWARD]) = {}
  /\ rules' = [rules EXCEPT ![FORWARD] = <<KubeRule>> \o @]
  /\ UNCHANGED <<made, policy, links, records, op, todo, pos, ops, restarts, faults>>

\* A node that has never run the daemon.
Init ==
  /\ made = {FORWARD}
  /\ rules = [c \in Chains |-> <<>>]
  /\ policy = "ACCEPT"
  /\ links = {} /\ records = {}
  /\ op = [kind |-> "start", t |-> None] /\ todo = initNodePolicies
  /\ pos = 1
  /\ ops = 0 /\ restarts = 0 /\ faults = 0

Next ==
  \/ \E t \in Tenants : EnsureTenant(t) \/ RemoveTenant(t)
  \/ MakeCall
  \/ CallFails
  \/ Restart
  \/ KubeProxyInserts

Spec == Init /\ [][Next]_vars

-----------------------------------------------------------------------------
AnyIface == {None} \cup UNION {Ifaces(t) : t \in Tenants}

Rules == [in : AnyIface, out : AnyIface, to : Chains \cup {"ACCEPT", "DROP", "KUBE"},
          tag : Tenants \cup {"default", "kube", "anchor", None}]

Calls == [fn : {"Sysctl", "ChangePolicy", "Masquerade", "NewChain", "EnsureChain",
                "ClearChain", "DeleteChain", "AppendUnique", "InsertTop", "InsertAnchor",
                "Delete", "List"},
          chain : Chains \cup {None}, rule : Rules \cup {None}, tolerated : BOOLEAN]

(* The shape of the state; a chain that does not exist has no rules.       *)
TypeOK ==
  /\ made \subseteq Chains /\ FORWARD \in made
  /\ rules \in [Chains -> Seq(Rules)]
  /\ \A c \in Chains \ made : rules[c] = <<>>
  /\ policy \in {"ACCEPT", "DROP"}
  /\ links \subseteq Tenants /\ records \subseteq Tenants
  /\ op \in [kind : {"idle", "down", "start", "ensure", "remove"}, t : Tenants \cup {None}]
  /\ todo \in Seq(Calls)
  /\ (todo = <<>>) = (op.kind \in {"idle", "down"})
  /\ pos \in Nat \ {0}
  /\ ops \in 0..MaxOps /\ restarts \in 0..MaxRestarts /\ faults \in 0..MaxFaults

(* Private tenants never reach each other: no packet from a device of one  *)
(* to a device of another is forwarded, between any two calls of any       *)
(* operation, after failed calls and half-made chains, and while a         *)
(* restarted daemon knows nothing of the tenants on its node.              *)
Isolated ==
  \A s, t \in Private \cap links : s # t =>
    \A i \in Ifaces(s), o \in Ifaces(t) : ~Accepted(i, o)

\* Between two operations none of whose calls has failed, where kube-proxy's
\* rules, if there are rules of the default tenant, give the anchor a place.
Settled ==
  /\ op = Idle /\ faults = 0
  /\ Contains(rules[FORWARD], KubeRule) \/ DefaultRules \cap ToSet(rules[FORWARD]) = {}

(* What has been set up works: all packets from and to the default tenant  *)
(* are accepted as long as it has its record, also while others come and   *)
(* go; and, between operations, those of a private tenant to its own       *)
(* devices, which the anchor must not lose in the course of the others'    *)
(* (EnsureDefaultTenant, ensurePrivateAnchor).                             *)
Connected ==
  /\ Default \in records =>
       \A t \in links : \A i \in Ifaces(t), d \in Ifaces(Default) :
         Accepted(i, d) /\ Accepted(d, i)
  /\ Settled =>
       \A t \in Private \cap records : \A i, o \in Ifaces(t) : Accepted(i, o)

(* RemoveTenant leaves nothing of a private tenant in the table, whatever  *)
(* happened before it, unless a call of its own or an earlier one fails    *)
(* for an outside reason (DeleteTenantChains).                             *)
CleanRemoval ==
  [][ op.kind = "remove" /\ op.t \in Private /\ op' = Idle /\ faults' = 0 =>
        /\ ChainOf[op.t] \notin made'
        /\ \A r \in ToSet(rules[Anchor]') : r.in \notin Ifaces(op.t) ]_vars
=============================================================================
