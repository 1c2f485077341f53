---------------------------- MODULE NetworkManager ----------------------------
(***************************************************************************)
(* The node's network manager, internal/nmanager (tops.go, pops.go,        *)
(* expansion.go, actor_tenant.go, actors.go, manager.go), over the subnet  *)
(* trie, the tenants' IPAMs and the bridge+VTEP backend.                   *)
(*                                                                         *)
(* Goroutines: the dispatcher (internal/dispatcher), which runs            *)
(* EnsureTenant and RemoveTenant one after the other; one actor per        *)
(* tenant, which serves the tenant's mailbox; and the CNI server's, one    *)
(* per request.  An action is the code between two points where another    *)
(* goroutine's step can be seen: a lock of nm.mu, a call of the subnet     *)
(* manager, an access to the backend's unsynchronised fields, a kernel     *)
(* call, a channel operation.  The IPAM of a tenant is used by its actor   *)
(* only.  The kernel's links and the kubelet are external.                 *)
(***************************************************************************)
EXTENDS Integers, Sequences, FiniteSets

CONSTANTS
  Tenants, Blocks, Prefixes, None,  \* as in SubnetTrie; None is also nil
  PodKeys,      \* "namespace/pod" keys
  Pods,         \* the pods there are, pairs of a tenant and a key
  MailboxSize,  \* capacity of an actor's inbox (128)
  MaxStarts,    \* bound: actors started per tenant
  MaxSandboxes, \* bound: ADD requests per pod
  Faults        \* the kinds of kernel calls that may fail

ASSUME NMAssumption ==
  /\ Pods \subseteq Tenants \X PodKeys
  /\ MailboxSize \in Nat \ {0}
  /\ MaxStarts \in Nat /\ MaxSandboxes \in Nat
  /\ None \notin PodKeys /\ None \notin Int
  /\ Faults \subseteq {"create", "policy", "delete", "veth", "update", "pod"}

VARIABLES
  linked, owner, AllocMap,  \* nm.Subnet, see SubnetTrie
  TenantRecords,  \* the tenants with an entry in nm.TenantRecords
  rec,            \* a tenant's TenantRecord; devices: the backend's fields
                  \* (devices and device managers) are not nil
  TenantActors,   \* nm.TenantActors: which of the tenant's actors, 0 if none
  starts,         \* the number of actors started for a tenant
  actor,          \* the goroutine of a tenant's last actor
  inbox,          \* and its mailbox
  disp,           \* the dispatcher goroutine
  call,           \* the CNI request in progress for a pod
  link,           \* kernel: a tenant's bridge and VTEP links
  eth             \* kernel: a pod's interface, attached to the bridge

subnetVars == <<linked, owner, AllocMap>>
recordVars == <<TenantRecords, rec>>
actorVars  == <<actor, inbox, call>>
startVars  == <<TenantActors, starts>>
kernelVars == <<link, eth>>
vars == <<subnetVars, recordVars, startVars, actorVars, disp, kernelVars>>

(* A prefix as the network that IPAM and the devices see: four addresses   *)
(* per /30 block.                                                          *)
Net(p) == [base  |-> 4 * (CHOOSE b \in p : \A c \in p : b <= c),
           total |-> 4 * Cardinality(p)]

Subnet == INSTANCE SubnetTrie

IPAM(t) == INSTANCE BitmapIPAM WITH
             Networks <- {Net(p) : p \in Prefixes}, NoIP <- None, ipam <- rec[t].IPAM

HostIP(p) == Net(p).base       \* the VTEP's address
FirstIP(p) == Net(p).base + 1  \* the bridge's address, the pods' gateway

Contains(p, ip) == Net(p).base <= ip /\ ip < Net(p).base + Net(p).total

-----------------------------------------------------------------------------
(* The states of the goroutines.                                           *)
maxRetries == 2

Idle == [pc |-> "idle", t |-> None]  \* the dispatcher between commands

Off == [pc |-> "off", pod |-> None, live |-> FALSE, attempt |-> 0,
        ip |-> None, net |-> None]   \* no actor, or one that has stopped
Loop == [Off EXCEPT !.pc = "loop"]   \* an actor waiting for a message

NoCall == [at |-> "none", kind |-> None, h |-> 0, sandbox |-> 0]

Ended(c) == [NoCall EXCEPT !.sandbox = c.sandbox]  \* no request in progress

NoLink == [bridge |-> None, vtep |-> None]

(* The values of the variables.                                            *)
Addresses == UNION {Net(p).base .. (Net(p).base + Net(p).total - 1) : p \in Prefixes}
OrNone(S) == S \cup {None}

IPAMs == [Network : {Net(p) : p \in Prefixes}, bitmap : SUBSET Nat, IPs : [PodKeys -> OrNone(Addresses)]]

Records ==
  [Subnet : Prefixes, State : {"Ready", "Closing"}, devices : BOOLEAN, BridgeIP : Addresses, IPAM : IPAMs]

ActorStates ==
  [pc : {"off", "loop", "ensure", "lookup", "veth", "request", "expand", "bridge",
         "vtep", "ipam", "record", "reconcile", "panic"},
   pod : OrNone(PodKeys), live : BOOLEAN, attempt : 0 .. maxRetries,
   ip : OrNone(Addresses), net : OrNone(Prefixes)]

Messages == [kind : {"ensure", "remove", "stop"}, pod : OrNone(PodKeys), live : BOOLEAN]

DispatcherStates ==
  [pc : {"idle", "subnet", "backend", "policy", "commit", "start", "vtep", "bridge",
         "nil", "dealloc", "stop", "ack", "drop"}, t : OrNone(Tenants)]

Requests ==
  [at : {"none"}, kind : {None}, h : {0}, sandbox : 0 .. MaxSandboxes] \cup
  [at : {"found", "sent"}, kind : {"ensure", "remove"}, h : Nat, sandbox : 0 .. MaxSandboxes]

Links == [bridge : OrNone(SUBSET Addresses), vtep : OrNone(SUBSET Addresses)]

Interfaces == [ip : OrNone(Addresses), Subnet : Prefixes, gw : OrNone(Addresses)]

(* The prefixes are a tree, as in SubnetTrie, of ranges of blocks.         *)
ASSUME PrefixAssumption ==
  /\ Subnet!Root \in Prefixes /\ Subnet!Laminar /\ Subnet!HasParent
  /\ Blocks \subseteq Int
  /\ \A p \in Prefixes : \E a, b \in Blocks : a <= b /\ p = a .. b

(* nil is not a value.                                                     *)
ASSUME NoneAssumption ==
  /\ None \notin Tenants /\ None \notin Prefixes
  /\ None \notin Records /\ None \notin Interfaces /\ \A S \in SUBSET Addresses : S # None

(* The daemon crashes as a whole when one goroutine panics.                *)
Panicked == \E t \in Tenants : actor[t].pc = "panic"

Closing(t) == rec[t].State = "Closing"

(* NewNetworkManager: no tenants, the whole CIDR free.                     *)
Init ==
  /\ Subnet!Init
  /\ TenantRecords = {}
  /\ rec = [t \in Tenants |-> None]
  /\ TenantActors = [t \in Tenants |-> 0]
  /\ starts = [t \in Tenants |-> 0]
  /\ actor = [t \in Tenants |-> Off]
  /\ inbox = [t \in Tenants |-> <<>>]
  /\ disp = Idle
  /\ call = [p \in Pods |-> NoCall]
  /\ link = [t \in Tenants |-> NoLink]
  /\ eth = [p \in Pods |-> None]

-----------------------------------------------------------------------------
(* EnsureTenant, on the dispatcher goroutine.                              *)
At(pc) == ~Panicked /\ disp.pc = pc

Goto(pc) == disp' = [disp EXCEPT !.pc = pc]

(* The fast path returns when the tenant has a record.                     *)
EnsureTenant(t) ==
  /\ At("idle")
  /\ t \notin TenantRecords
  /\ starts[t] < MaxStarts
  /\ disp' = [pc |-> "subnet", t |-> t]
  /\ UNCHANGED <<subnetVars, recordVars, startVars, actorVars, kernelVars>>

(* Subnet.Allocate: a new /30, the prefix the tenant already has, or an    *)
(* error when nothing is free.                                             *)
EnsureSubnet ==
  /\ At("subnet")
  /\ \/ Subnet!Allocate(disp.t) /\ Goto("backend")
     \/ AllocMap[disp.t] # None /\ Goto("backend") /\ UNCHANGED subnetVars
     \/ /\ AllocMap[disp.t] = None /\ Subnet!FindAllFree = {}
        /\ disp' = Idle
        /\ UNCHANGED subnetVars
  /\ UNCHANGED <<recordVars, startVars, actorVars, kernelVars>>

(* Subnet.Deallocate with its error ignored.                               *)
TryDeallocate(t) ==
  \/ Subnet!Deallocate(t)
  \/ AllocMap[t] \in {None, Subnet!Root} /\ UNCHANGED subnetVars

(* ensureBridge creates the link if need be and adds the address;          *)
(* SetupVxlan adds the address only when the link has none.                *)
BridgeUp(t, p) == (IF link[t].bridge = None THEN {} ELSE link[t].bridge) \cup {FirstIP(p)}
VtepUp(t, p) == IF link[t].vtep \in {None, {}} THEN {HostIP(p)} ELSE link[t].vtep

LinksCreated(t, p) == [bridge |-> BridgeUp(t, p), vtep |-> VtepUp(t, p)]

(* When the bridge fails it may be left up without its address; when the   *)
(* VTEP fails the bridge is deleted again.                                 *)
LinksFailed(t) ==
  {link[t],
   [link[t] EXCEPT !.bridge = IF @ = None THEN {} ELSE @],
   [link[t] EXCEPT !.bridge = None]}

(* Faulty variant: the error return forgets the subnet.                    *)
EnsureBackendKeepSubnet ==
  /\ At("backend")
  /\ \/ /\ link' = [link EXCEPT ![disp.t] = LinksCreated(disp.t, AllocMap[disp.t])]
        /\ Goto("policy")
     \/ /\ "create" \in Faults
        /\ \E l \in LinksFailed(disp.t) : link' = [link EXCEPT ![disp.t] = l]
        /\ disp' = Idle
  /\ UNCHANGED <<subnetVars, recordVars, startVars, actorVars, eth>>

(* Backend.Create; on an error the subnet is released.                     *)
EnsureBackend ==
  /\ At("backend")
  /\ \/ /\ link' = [link EXCEPT ![disp.t] = LinksCreated(disp.t, AllocMap[disp.t])]
        /\ Goto("policy")
        /\ UNCHANGED subnetVars
     \/ /\ "create" \in Faults
        /\ \E l \in LinksFailed(disp.t) : link' = [link EXCEPT ![disp.t] = l]
        /\ TryDeallocate(disp.t)
        /\ disp' = Idle
  /\ UNCHANGED <<recordVars, startVars, actorVars, eth>>

(* Backend.Delete from the links' point of view: the VTEP first, and an    *)
(* error there leaves the bridge.                                          *)
LinksDeleted(l) ==
  {NoLink} \cup
  (IF "delete" \in Faults THEN {l, [l EXCEPT !.vtep = None]} ELSE {})

(* The isolation chains, then NewBitmapIPAM, which accepts every prefix of *)
(* the trie.                                                               *)
EnsurePolicy ==
  /\ At("policy")
  /\ \/ Goto("commit") /\ UNCHANGED <<subnetVars, link>>
     \/ /\ "policy" \in Faults
        /\ \E l \in LinksDeleted(link[disp.t]) : link' = [link EXCEPT ![disp.t] = l]
        /\ TryDeallocate(disp.t)
        /\ disp' = Idle
  /\ UNCHANGED <<recordVars, startVars, actorVars, eth>>

NewRecord(t, p) == [Subnet |-> p, State |-> "Ready",
                    devices |-> TRUE, BridgeIP |-> FirstIP(p),
                    IPAM |-> IPAM(t)!NewBitmapIPAM(Net(p))]

(* The record, unless somebody else has put one there meanwhile.           *)
EnsureCommit ==
  LET t == disp.t IN
  /\ At("commit")
  /\ IF t \notin TenantRecords
     THEN /\ TenantRecords' = TenantRecords \cup {t}
          /\ rec' = [rec EXCEPT ![t] = NewRecord(t, AllocMap[t])]
          /\ Goto("start")
          /\ UNCHANGED <<subnetVars, link>>
     ELSE /\ \E l \in LinksDeleted(link[t]) : link' = [link EXCEPT ![t] = l]
          /\ TryDeallocate(t)
          /\ disp' = Idle
          /\ UNCHANGED recordVars
  /\ UNCHANGED <<startVars, actorVars, eth>>

StartTenantActor ==
  LET t == disp.t IN
  /\ At("start")
  /\ IF TenantActors[t] = 0
     THEN /\ starts' = [starts EXCEPT ![t] = @ + 1]
          /\ TenantActors' = [TenantActors EXCEPT ![t] = starts[t] + 1]
          /\ actor' = [actor EXCEPT ![t] = Loop]
          /\ inbox' = [inbox EXCEPT ![t] = <<>>]
     ELSE UNCHANGED <<startVars, actor, inbox>>
  /\ disp' = Idle
  /\ UNCHANGED <<subnetVars, recordVars, call, kernelVars>>

-----------------------------------------------------------------------------
(* RemoveTenant, on the dispatcher goroutine.                              *)

(* Returns when the tenant has no record; else marks it as closing.        *)
RemoveTenant(t) ==
  /\ At("idle")
  /\ t \in TenantRecords
  /\ rec' = [rec EXCEPT ![t].State = "Closing"]
  /\ disp' = [pc |-> "vtep", t |-> t]
  /\ UNCHANGED <<subnetVars, TenantRecords, startVars, actorVars, kernelVars>>

(* Faulty variant: the subnet is released before the devices are deleted.  *)
RemoveVtepAfterSubnet ==
  /\ At("vtep")
  /\ TryDeallocate(disp.t)
  /\ \/ link' = [link EXCEPT ![disp.t].vtep = None] /\ Goto("bridge")
     \/ "delete" \in Faults /\ Goto("dealloc") /\ UNCHANGED link
  /\ UNCHANGED <<recordVars, startVars, actorVars, eth>>

(* Backend.Delete, its error ignored: the VTEP link, ...                   *)
RemoveVtep ==
  /\ At("vtep")
  /\ \/ link' = [link EXCEPT ![disp.t].vtep = None] /\ Goto("bridge")
     \/ "delete" \in Faults /\ Goto("dealloc") /\ UNCHANGED link
  /\ UNCHANGED <<subnetVars, recordVars, startVars, actorVars, eth>>

(* ... the bridge link, which detaches the pods, ...                       *)
RemoveBridge ==
  /\ At("bridge")
  /\ \/ /\ link' = [link EXCEPT ![disp.t].bridge = None]
        /\ eth' = [p \in Pods |-> IF p[1] = disp.t THEN None ELSE eth[p]]
        /\ Goto("nil")
     \/ "delete" \in Faults /\ Goto("dealloc") /\ UNCHANGED kernelVars
  /\ UNCHANGED <<subnetVars, recordVars, startVars, actorVars>>

(* ... and the fields: devices and device managers become nil, without a   *)
(* lock.                                                                   *)
RemoveFields ==
  /\ At("nil")
  /\ rec' = [rec EXCEPT ![disp.t].devices = FALSE]
  /\ Goto("dealloc")
  /\ UNCHANGED <<subnetVars, TenantRecords, startVars, actorVars, kernelVars>>

(* Subnet.Deallocate, then DeleteTenantChains, errors ignored.             *)
RemoveSubnet ==
  /\ At("dealloc")
  /\ TryDeallocate(disp.t)
  /\ Goto("stop")
  /\ UNCHANGED <<recordVars, startVars, actorVars, kernelVars>>

(* actor.Stop: a message at the end of the mailbox, once there is room.    *)
StopMessage == [kind |-> "stop", pod |-> None, live |-> TRUE]

RemoveStop ==
  /\ At("stop")
  /\ IF TenantActors[disp.t] = 0
     THEN Goto("drop") /\ UNCHANGED inbox
     ELSE /\ Len(inbox[disp.t]) < MailboxSize
          /\ inbox' = [inbox EXCEPT ![disp.t] = Append(@, StopMessage)]
          /\ Goto("ack")
  /\ UNCHANGED <<subnetVars, recordVars, startVars, actor, call, kernelVars>>

(* Faulty variant: the handle is dropped without waiting for the answer.   *)
RemoveActorNoWait ==
  /\ At("ack")
  /\ TenantActors' = [TenantActors EXCEPT ![disp.t] = 0]
  /\ Goto("drop")
  /\ UNCHANGED <<subnetVars, recordVars, starts, actorVars, kernelVars>>

(* The actor's answer, after which its goroutine is gone.                  *)
RemoveActor ==
  /\ At("ack")
  /\ actor[disp.t].pc = "off"
  /\ TenantActors' = [TenantActors EXCEPT ![disp.t] = 0]
  /\ Goto("drop")
  /\ UNCHANGED <<subnetVars, recordVars, starts, actorVars, kernelVars>>

(* Faulty variant: the entry is set to nil instead of deleted.             *)
RemoveRecordNil ==
  /\ At("drop")
  /\ rec' = [rec EXCEPT ![disp.t] = None]
  /\ disp' = Idle
  /\ UNCHANGED <<subnetVars, TenantRecords, startVars, actorVars, kernelVars>>

(* The record becomes garbage once the actor, too, has dropped it.         *)
RemoveRecord ==
  /\ At("drop")
  /\ TenantRecords' = TenantRecords \ {disp.t}
  /\ rec' = [rec EXCEPT ![disp.t] = IF actor[disp.t].pc = "off" THEN None ELSE @]
  /\ disp' = Idle
  /\ UNCHANGED <<subnetVars, startVars, actorVars, kernelVars>>

-----------------------------------------------------------------------------
(* CNI requests.  The kubelet has one request per pod under way, ADD       *)
(* (EnsurePod) for a new sandbox and DEL (RemovePod) for an attached one.  *)

(* GetTenantActor through the router: an error without an actor.           *)
Lookup(p, kind) ==
  /\ ~Panicked
  /\ call[p].at = "none"
  /\ TenantActors[p[1]] # 0
  /\ kind = "ensure" => call[p].sandbox < MaxSandboxes
  /\ call' = [call EXCEPT ![p] =
       [at |-> "found", kind |-> kind, h |-> TenantActors[p[1]],
        sandbox |-> IF kind = "ensure" THEN @.sandbox + 1 ELSE @.sandbox]]
  /\ UNCHANGED <<subnetVars, recordVars, startVars, actor, inbox, disp, kernelVars>>

(* The send to the inbox of the actor that was found.  If that actor has   *)
(* stopped by now nobody receives the message.                             *)
Send(p) ==
  LET t == p[1] IN
  /\ ~Panicked
  /\ call[p].at = "found"
  /\ call' = [call EXCEPT ![p].at = "sent"]
  /\ IF call[p].h = starts[t] /\ actor[t].pc # "off"
     THEN /\ Len(inbox[t]) < MailboxSize
          /\ inbox' = [inbox EXCEPT ![t] =
               Append(@, [kind |-> call[p].kind, pod |-> p[2], live |-> TRUE])]
     ELSE UNCHANGED inbox
  /\ UNCHANGED <<subnetVars, recordVars, startVars, actor, disp, kernelVars>>

(* The request's context ends before the send, or the timeout before the   *)
(* answer.  The kubelet gives the sandbox up, and the pod's interface goes *)
(* with it; a message still under way finds its network namespace gone.    *)
GiveUp(p) ==
  LET t == p[1]
      Orphan(m) == IF m.pod = p[2] THEN [m EXCEPT !.live = FALSE] ELSE m
  IN
  /\ ~Panicked
  /\ call[p].at # "none"
  /\ call' = [call EXCEPT ![p] = Ended(@)]
  /\ eth' = [eth EXCEPT ![p] = None]
  /\ inbox' = [inbox EXCEPT ![t] = [i \in DOMAIN @ |-> Orphan(@[i])]]
  /\ actor' = [actor EXCEPT ![t] = Orphan(@)]
  /\ UNCHANGED <<subnetVars, recordVars, startVars, disp, link>>

-----------------------------------------------------------------------------
(* The actor of tenant t.                                                  *)
Running(t, pc) == ~Panicked /\ actor[t].pc = pc

Step(t, pc) == actor' = [actor EXCEPT ![t].pc = pc]

(* The answer to message m reaches the request if it is still waiting.     *)
Answer(t, m) ==
  call' = IF m.live THEN [call EXCEPT ![<<t, m.pod>>] = Ended(@)] ELSE call

(* The end of the handler: answer, and back to the mailbox.                *)
Return(t) == actor' = [actor EXCEPT ![t] = Loop] /\ Answer(t, actor[t])

Received(t, kind) ==
  /\ Running(t, "loop")
  /\ inbox[t] # <<>>
  /\ Head(inbox[t]).kind = kind
  /\ inbox' = [inbox EXCEPT ![t] = Tail(@)]

(* msgEnsure, gated by the state of the record.                            *)
ReceiveEnsure(t) ==
  LET m == Head(inbox[t]) IN
  /\ Received(t, "ensure")
  /\ IF t \in TenantRecords /\ Closing(t)
     THEN Answer(t, m) /\ UNCHANGED actor
     ELSE /\ actor' = [actor EXCEPT ![t] = [Loop EXCEPT !.pc = "ensure", !.pod = m.pod, !.live = m.live]]
          /\ UNCHANGED call
  /\ UNCHANGED <<subnetVars, recordVars, startVars, disp, kernelVars>>

(* msgRemove: RemovePod releases nothing.  After the answer the kubelet    *)
(* deletes the sandbox.                                                    *)
ReceiveRemove(t) ==
  LET m == Head(inbox[t]) IN
  /\ Received(t, "remove")
  /\ Answer(t, m)
  /\ eth' = IF m.live THEN [eth EXCEPT ![<<t, m.pod>>] = None] ELSE eth
  /\ UNCHANGED <<subnetVars, recordVars, startVars, disp, actor, link>>

(* Faulty variant: the message is dropped and the loop goes on.            *)
ReceiveStopIgnored(t) ==
  /\ Received(t, "stop")
  /\ UNCHANGED <<subnetVars, recordVars, startVars, disp, actor, call, kernelVars>>

(* msgStop: answer and return; what is left in the mailbox is lost.        *)
ReceiveStop(t) ==
  /\ Running(t, "loop")
  /\ inbox[t] # <<>>
  /\ Head(inbox[t]).kind = "stop"
  /\ inbox' = [inbox EXCEPT ![t] = <<>>]
  /\ actor' = [actor EXCEPT ![t] = Off]
  /\ UNCHANGED <<subnetVars, recordVars, startVars, disp, call, kernelVars>>

(* EnsurePod returns an error without a record or when it is closing.      *)
Refuse(t) ==
  /\ Running(t, "ensure")
  /\ t \notin TenantRecords \/ Closing(t)
  /\ Return(t)
  /\ UNCHANGED <<subnetVars, recordVars, startVars, inbox, disp, kernelVars>>

(* IPAM.Allocate finds an address, ...                                     *)
Allocate(t) ==
  LET m == rec[t].IPAM IN
  /\ Running(t, "ensure")
  /\ t \in TenantRecords /\ ~Closing(t)
  /\ \E idx \in IPAM(t)!FreeIndices(m) :
       /\ IPAM(t)!FirstFree(m, idx)
       /\ rec' = [rec EXCEPT ![t].IPAM = IPAM(t)!Take(m, actor[t].pod, idx)]
       /\ actor' = [actor EXCEPT ![t].pc = "lookup",
                                 ![t].ip = IPAM(t)!indexToIP(m.Network, idx)]
  /\ UNCHANGED <<subnetVars, TenantRecords, startVars, inbox, disp, call, kernelVars>>

(* ... or none, and the actor asks for an expansion, maxRetries times.     *)
Exhausted(t) ==
  /\ Running(t, "ensure")
  /\ t \in TenantRecords /\ ~Closing(t)
  /\ IPAM(t)!FreeIndices(rec[t].IPAM) = {}
  /\ IF actor[t].attempt = maxRetries
     THEN Return(t)
     ELSE Step(t, "request") /\ UNCHANGED call
  /\ UNCHANGED <<subnetVars, recordVars, startVars, inbox, disp, kernelVars>>

(* backend.Bridge: without a device EnsurePod returns an error and leaves  *)
(* the address allocated.                                                  *)
LookupBridge(t) ==
  /\ Running(t, "lookup")
  /\ IF rec[t].devices
     THEN Step(t, "veth") /\ UNCHANGED call
     ELSE Return(t)
  /\ UNCHANGED <<subnetVars, recordVars, startVars, inbox, disp, kernelVars>>

(* What SetupVeth checks before it succeeds: the gateway lies in the pod's *)
(* subnet, the bridge link and the sandbox exist, and the sandbox has no   *)
(* such interface yet.                                                     *)
VethPossible(t) ==
  /\ Contains(rec[t].Subnet, rec[t].BridgeIP)
  /\ link[t].bridge # None
  /\ actor[t].live
  /\ eth[<<t, actor[t].pod>>] = None

Interface(t) == [ip |-> actor[t].ip, Subnet |-> rec[t].Subnet, gw |-> rec[t].BridgeIP]

(* Faulty variant: the address is given back in any case.                  *)
SetupVethFree(t) ==
  /\ Running(t, "veth")
  /\ rec' = [rec EXCEPT ![t].IPAM = IPAM(t)!Release(@, actor[t].ip)]
  /\ eth' = IF VethPossible(t)
            THEN [eth EXCEPT ![<<t, actor[t].pod>>] = Interface(t)] ELSE eth
  /\ Return(t)
  /\ UNCHANGED <<subnetVars, TenantRecords, startVars, inbox, disp, link>>

(* SetupVeth; a failure gives the address back.                            *)
SetupVeth(t) ==
  /\ Running(t, "veth")
  /\ \/ /\ VethPossible(t)
        /\ eth' = [eth EXCEPT ![<<t, actor[t].pod>>] = Interface(t)]
        /\ UNCHANGED rec
     \/ /\ ~VethPossible(t) \/ "veth" \in Faults
        /\ rec' = [rec EXCEPT ![t].IPAM = IPAM(t)!Release(@, actor[t].ip)]
        /\ UNCHANGED eth
  /\ Return(t)
  /\ UNCHANGED <<subnetVars, TenantRecords, startVars, inbox, disp, link>>

-----------------------------------------------------------------------------
(* The actor's expansion of the tenant.                                    *)

(* requestTenantExpansion's check, under nm.mu.  rec.expandCh is nil here: *)
(* the tenant's only actor is the only caller.                             *)
RequestExpansion(t) ==
  /\ Running(t, "request")
  /\ IF t \notin TenantRecords \/ Closing(t)
     THEN Return(t)
     ELSE Step(t, "expand") /\ UNCHANGED call
  /\ UNCHANGED <<subnetVars, recordVars, startVars, inbox, disp, kernelVars>>

(* ExpandTenant: Subnet.Expand, ...                                        *)
ExpandSubnet(t) ==
  /\ Running(t, "expand")
  /\ \/ /\ Subnet!Expand(t)
        /\ actor' = [actor EXCEPT ![t].pc = "bridge", ![t].net = AllocMap'[t]]
        /\ UNCHANGED call
     \/ /\ AllocMap[t] \notin {None, Subnet!Root} =>
             Subnet!hasAllocatedDescendants(Subnet!Sibling(AllocMap[t]))
        /\ Return(t)
        /\ UNCHANGED subnetVars
  /\ UNCHANGED <<recordVars, startVars, inbox, disp, kernelVars>>

(* ... Backend.Update of the bridge, whose addresses are flushed before    *)
(* the new one is set, ...                                                 *)
UpdateBridge(t) ==
  /\ Running(t, "bridge")
  /\ \/ /\ rec[t].devices /\ link[t].bridge # None
        /\ link' = [link EXCEPT ![t].bridge = {FirstIP(actor[t].net)}]
        /\ rec' = [rec EXCEPT ![t].BridgeIP = FirstIP(actor[t].net)]
        /\ Step(t, "vtep")
        /\ UNCHANGED call
     \/ /\ rec[t].devices /\ link[t].bridge # None
        /\ "update" \in Faults
        /\ link' = [link EXCEPT ![t].bridge = {}]
        /\ Return(t)
        /\ UNCHANGED rec
     \/ /\ ~rec[t].devices \/ link[t].bridge = None
        /\ Return(t)
        /\ UNCHANGED <<link, rec>>
  /\ UNCHANGED <<subnetVars, TenantRecords, startVars, inbox, disp, eth>>

(* ... and of the VTEP, which keeps the addresses it has.  A method with a *)
(* value receiver is called through vtepManager: nil panics.               *)
UpdateVtep(t) ==
  /\ Running(t, "vtep")
  /\ \/ /\ rec[t].devices /\ link[t].vtep # None
        /\ link' = [link EXCEPT ![t].vtep = @ \cup {HostIP(actor[t].net)}]
        /\ Step(t, "ipam")
        /\ UNCHANGED call
     \/ /\ rec[t].devices
        /\ link[t].vtep = None \/ "update" \in Faults
        /\ Return(t)
        /\ UNCHANGED link
     \/ /\ ~rec[t].devices
        /\ Step(t, "panic")
        /\ UNCHANGED <<link, call>>
  /\ UNCHANGED <<subnetVars, recordVars, startVars, inbox, disp, eth>>

(* Faulty variant: the IPAM keeps the old network.                         *)
ExpandIPAMSkipped(t) ==
  /\ Running(t, "ipam")
  /\ Step(t, "record")
  /\ UNCHANGED <<subnetVars, recordVars, startVars, inbox, call, disp, kernelVars>>

(* IPAM.Expand, ...                                                        *)
ExpandIPAM(t) ==
  LET m == rec[t].IPAM IN
  /\ Running(t, "ipam")
  /\ IF IPAM(t)!CanRebase(m, Net(actor[t].net))
     THEN /\ rec' = [rec EXCEPT ![t].IPAM = IPAM(t)!Rebase(m, Net(actor[t].net))]
          /\ Step(t, "record")
          /\ UNCHANGED call
     ELSE Return(t) /\ UNCHANGED rec
  /\ UNCHANGED <<subnetVars, TenantRecords, startVars, inbox, disp, kernelVars>>

(* Faulty variant: the record keeps the old subnet.                        *)
ExpandRecordStale(t) ==
  /\ Running(t, "record")
  /\ TenantRecords' = TenantRecords \cup {t}
  /\ Step(t, "reconcile")
  /\ UNCHANGED <<subnetVars, rec, startVars, inbox, call, disp, kernelVars>>

(* ... and the record, which is put back into the map.                     *)
ExpandRecord(t) ==
  /\ Running(t, "record")
  /\ rec' = [rec EXCEPT ![t].Subnet = actor[t].net]
  /\ TenantRecords' = TenantRecords \cup {t}
  /\ Step(t, "reconcile")
  /\ UNCHANGED <<subnetVars, startVars, inbox, call, disp, kernelVars>>

Again(t) == actor' = [actor EXCEPT ![t].pc = "ensure", ![t].attempt = @ + 1, ![t].net = None]

(* UpdatePod: the address of the IPAM entry, the new mask and gateway.     *)
Updated(t, p) == [ip |-> rec[t].IPAM.IPs[p[2]], Subnet |-> rec[t].Subnet, gw |-> rec[t].BridgeIP]

(* Faulty variant: the pods are left as they are.                          *)
ReconcileNobody(t) ==
  /\ Running(t, "reconcile")
  /\ Again(t)
  /\ UNCHANGED <<subnetVars, recordVars, startVars, inbox, call, disp, kernelVars>>

(* UpdatePod flushes the interface's addresses, with which its routes go,  *)
(* sets the new address and then the default route; it may fail before and *)
(* after each of these, and it does when the backend has no bridge.        *)
UpdateOutcomes(t, p) ==
  IF ~rec[t].devices THEN {eth[p]}
  ELSE {Updated(t, p)} \cup
       (IF "pod" \in Faults
        THEN {eth[p], [eth[p] EXCEPT !.ip = None, !.gw = None], [Updated(t, p) EXCEPT !.gw = None]}
        ELSE {})

(* reconcileExistingPods: UpdatePod for every pod of the IPAM; errors are  *)
(* logged and forgotten.                                                   *)
ReconcilePods(t) ==
  LET listed == {p \in Pods : p[1] = t /\ rec[t].IPAM.IPs[p[2]] # None /\ eth[p] # None} IN
  /\ Running(t, "reconcile")
  /\ \E f \in [listed -> UNION {UpdateOutcomes(t, p) : p \in listed}] :
       /\ \A p \in listed : f[p] \in UpdateOutcomes(t, p)
       /\ eth' = [p \in Pods |-> IF p \in listed THEN f[p] ELSE eth[p]]
  /\ Again(t)
  /\ UNCHANGED <<subnetVars, recordVars, startVars, inbox, call, disp, link>>

(* bv.Bridge and bv.VTEP are two-word interface values, read by the actor  *)
(* without a lock and, in Devices, twice.  A read during the writes of     *)
(* RemoveFields may see a nil device behind a check that passed.           *)
TornRead(t) ==
  /\ actor[t].pc \in {"lookup", "bridge", "reconcile"} /\ ~Panicked
  /\ disp = [pc |-> "nil", t |-> t]
  /\ Step(t, "panic")
  /\ UNCHANGED <<subnetVars, recordVars, startVars, inbox, call, disp, kernelVars>>

-----------------------------------------------------------------------------
Dispatcher ==
  \/ EnsureSubnet \/ EnsureBackend \/ EnsurePolicy \/ EnsureCommit \/ StartTenantActor
  \/ RemoveVtep \/ RemoveBridge \/ RemoveFields \/ RemoveSubnet
  \/ RemoveStop \/ RemoveActor \/ RemoveRecord

Actor(t) ==
  \/ ReceiveEnsure(t) \/ ReceiveRemove(t) \/ ReceiveStop(t)
  \/ Refuse(t) \/ Allocate(t) \/ Exhausted(t) \/ LookupBridge(t) \/ SetupVeth(t)
  \/ RequestExpansion(t) \/ ExpandSubnet(t) \/ UpdateBridge(t) \/ UpdateVtep(t)
  \/ ExpandIPAM(t) \/ ExpandRecord(t) \/ ReconcilePods(t) \/ TornRead(t)

(* The kubelet's requests: ADD only for a pod that is not attached.        *)
Request(p) ==
  \/ eth[p] = None /\ Lookup(p, "ensure")
  \/ eth[p] # None /\ Lookup(p, "remove")
  \/ Send(p)
  \/ GiveUp(p)

Command(t) == EnsureTenant(t) \/ RemoveTenant(t)

Next ==
  \/ \E t \in Tenants : Command(t) \/ Actor(t)
  \/ Dispatcher
  \/ \E p \in Pods : Request(p)

Spec == Init /\ [][Next]_vars

(* Runnable goroutines run: the Go scheduler is fair, and nothing in a     *)
(* step waits for another goroutine except the channel operations that are *)
(* guards here.  Senders blocked on a full channel are served in the order *)
(* of their arrival, so Stop's message gets in however many requests       *)
(* compete with it.  Requests and commands need not come.                  *)
FairSpec ==
  /\ Spec
  /\ WF_vars(Dispatcher)
  /\ SF_vars(RemoveStop)
  /\ \A t \in Tenants : WF_vars(Actor(t))

-----------------------------------------------------------------------------
(* Type correctness.                                                       *)
TypeOK ==
  /\ Subnet!TypeOK
  /\ TenantRecords \subseteq Tenants
  /\ rec \in [Tenants -> OrNone(Records)]
  /\ \A t \in TenantRecords : rec[t] # None
  /\ TenantActors \in [Tenants -> Nat] /\ starts \in [Tenants -> 0 .. MaxStarts]
  /\ actor \in [Tenants -> ActorStates]
  /\ inbox \in [Tenants -> Seq(Messages)] /\ \A t \in Tenants : Len(inbox[t]) <= MailboxSize
  /\ disp \in DispatcherStates
  /\ call \in [Pods -> Requests]
  /\ link \in [Tenants -> Links]
  /\ eth \in [Pods -> OrNone(Interfaces)]

Attached == {p \in Pods : eth[p] # None}

(* No two attached pods of the node have the same address, of one tenant   *)
(* or of two, although RemoveTenant gives a tenant's subnet back while its *)
(* actor may still be attaching a pod or growing that subnet, and a        *)
(* neighbour may grow over it at once.                                     *)
AddressesUnique ==
  \A p, q \in Attached : eth[p].ip # None /\ eth[p].ip = eth[q].ip => p = q

(* The address on a pod's interface is the one that the tenant's IPAM has  *)
(* recorded for the pod, so that the IPAM cannot hand it out again; also   *)
(* when an ADD timed out, was processed late and was repeated.             *)
AttachedRecorded ==
  \A p \in Attached :
    eth[p].ip # None => p[1] \in TenantRecords /\ rec[p[1]].IPAM.IPs[p[2]] = eth[p].ip

(* The record of an open tenant claims no more than the trie has granted,  *)
(* and its IPAM covers exactly the record's subnet, except between the two *)
(* assignments of ExpandTenant.                                            *)
WithinAllocation ==
  \A t \in TenantRecords :
    ~Closing(t) =>
      /\ AllocMap[t] # None
      /\ rec[t].Subnet \subseteq AllocMap[t]
      /\ actor[t].pc # "record" => rec[t].IPAM.Network = Net(rec[t].Subnet)

(* Between two commands a tenant has a record exactly if it has a          *)
(* registered actor, and exactly if an actor's goroutine runs: RemoveTenant*)
(* leaves no actor behind, and the record that ExpandTenant puts back is   *)
(* never one that RemoveTenant has deleted.  EnsureTenant therefore finds  *)
(* nothing of the tenant's former life: the branch of its double check,    *)
(* which would release the subnet of a live tenant, is unreachable.        *)
CleanSlate ==
  /\ disp.pc = "idle" =>
       \A t \in Tenants :
         /\ t \in TenantRecords <=> TenantActors[t] # 0
         /\ t \in TenantRecords <=> actor[t].pc # "off"
  /\ disp.pc \in {"subnet", "backend", "policy", "commit", "start"} =>
       /\ actor[disp.t].pc = "off"
       /\ TenantActors[disp.t] = 0
       /\ disp.t \in TenantRecords <=> disp.pc = "start"

(* A subnet without a tenant is never lost, whatever step of EnsureTenant  *)
(* fails and however RemoveTenant interleaves with an expansion; the one   *)
(* exception is the root, which Deallocate refuses to release.             *)
OnlyRootLeaks ==
  disp.pc = "idle" =>
    \A t \in Tenants \ TenantRecords : AllocMap[t] \in {None, Subnet!Root}

(* One expansion is enough: the retry never finds the IPAM exhausted again,*)
(* so the last of the maxRetries attempts is never made.                   *)
OneExpansionSuffices == \A t \in Tenants : actor[t].pc = "request" => actor[t].attempt = 0

(* SetupVeth's check that the gateway lies in the pod's subnet never fails,*)
(* although an expansion that fails half way has moved the bridge to an    *)
(* address outside the recorded subnet.                                    *)
GatewayInSubnet ==
  \A t \in Tenants : actor[t].pc = "veth" => Contains(rec[t].Subnet, rec[t].BridgeIP)

(* Between two messages every attached pod of an open tenant has a gateway *)
(* that is an address of the bridge, and the mask of the tenant's subnet,  *)
(* provided UpdatePod does not fail: its errors are logged and forgotten.  *)
GatewayReachable ==
  \A p \in Attached :
    LET t == p[1] IN
    t \in TenantRecords /\ ~Closing(t) /\ actor[t].pc = "loop" =>
      eth[p].gw \in link[t].bridge /\ eth[p].Subnet = rec[t].Subnet

(* What the node promises about addresses.  A pod's address is the one on  *)
(* record: a failed UpdatePod can take it from the interface, and the next *)
(* one puts it back.                                                       *)
HeldBy(t) == IF AllocMap[t] = None THEN {} ELSE AllocMap[t]
AddressOf(p) == IF eth[p] = None THEN None ELSE rec[p[1]].IPAM.IPs[p[2]]

Node == INSTANCE NodeNetwork WITH
          held <- [t \in Tenants |-> HeldBy(t)], addr <- [p \in Pods |-> AddressOf(p)]

(* The node implements that promise in every interleaving of the commands, *)
(* the actors and the requests: a tenant's blocks stay away from the       *)
(* others' and are given back only once its pods are detached, although    *)
(* RemoveTenant frees the subnet before it stops the actor; and an         *)
(* attached pod keeps its address, in its tenant's blocks, over every      *)
(* expansion.                                                              *)
ImplementsNode == Node!Spec

(* Of that promise, the part about blocks holds whatever fails: also after *)
(* a device that could not be deleted, an expansion cut short by the       *)
(* removal of its tenant or a roll-back, no block has two tenants and a    *)
(* range only grows around the blocks its tenant has, or is given back     *)
(* whole.  The dispatcher and the actors call the one trie as they come.   *)
BlocksApart == Node!Ranges!Spec

(* Every command ends: RemoveTenant is not kept waiting for ever by a full *)
(* mailbox or a busy actor.                                                *)
CommandsEnd == disp.pc # "idle" ~> (disp.pc = "idle" \/ Panicked)

-----------------------------------------------------------------------------
(* What a comment says and the code does not do.                           *)

(* Teardown is gated from pod operations ("Mark as closing to gate pod     *)
(* operations while teardown proceeds"), so it cannot crash one.           *)
NoPanic == ~Panicked
=============================================================================
