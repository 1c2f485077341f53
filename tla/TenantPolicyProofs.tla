-------------------------- MODULE TenantPolicyProofs --------------------------
(***************************************************************************)
(* Proofs about TenantPolicy, for any number of tenants, operations,       *)
(* restarts and failing calls, and wherever kube-proxy puts its rules.     *)
(***************************************************************************)
EXTENDS TenantPolicy, TLAPS, SequenceTheorems, WellFoundedInduction

-----------------------------------------------------------------------------
(* The inductive invariant.                                                *)

(* The rules that the chain of a private tenant may have.                  *)
TenantRules(t) ==
  {Egress(t, o) : o \in Ifaces(t)} \cup {Extra(o) : o \in Ifaces(Default)} \cup {DefaultDrop(t)}

(* The rules that a chain may have: whoever adds a rule adds it where it   *)
(* belongs.                                                                *)
AllowedIn(c) ==
  {r \in Rules :
     \/ c = FORWARD /\ r \in DefaultRules \cup {AnchorRule, KubeRule}
     \/ c = Anchor /\ \E t \in Private : \E i \in Ifaces(t) : r = Ingress(t, i)
     \/ \E t \in Private : c = ChainOf[t] /\ r \in TenantRules(t)}

(* The calls that operations make.                                         *)
GoodCalls ==
  {k \in Calls :
     /\ k.fn \in {"AppendUnique", "InsertTop", "InsertAnchor", "Delete"} => k.chain \in Chains
     /\ k.fn \in {"AppendUnique", "InsertTop", "InsertAnchor"} => k.rule \in AllowedIn(k.chain)
     /\ k.fn \in {"InsertTop", "InsertAnchor"} => k.chain = FORWARD
     /\ k.fn \in {"NewChain", "EnsureChain", "ClearChain", "DeleteChain"} =>
          k.chain \in Chains \ {FORWARD}}

(* A call that sets the policy of FORWARD or ends the daemon's start.      *)
SetsPolicy(k) == k.fn = "ChangePolicy" /\ ~k.tolerated

TableOK ==
  /\ made \subseteq Chains /\ FORWARD \in made
  /\ rules \in [Chains -> Seq(Rules)]
  /\ \A c \in Chains : rules[c] \in Seq(AllowedIn(c))
  /\ \A c \in Chains \ made : rules[c] = <<>>
  /\ pos \in Nat \ {0}

OpOK ==
  /\ links \subseteq Tenants /\ records \subseteq Tenants
  /\ op \in [kind : {"idle", "down", "start", "ensure", "remove"}, t : Tenants \cup {None}]
  /\ op.kind \in {"ensure", "remove"} => op.t \in Tenants
  /\ todo \in Seq(GoodCalls)
  /\ todo = <<>> <=> op.kind \in {"idle", "down"}

(* FORWARD accepts what no rule decides only on a node that has no tenants *)
(* yet, and the daemon does not get as far as tenants without changing it. *)
PolicyOK ==
  /\ policy \in {"ACCEPT", "DROP"}
  /\ policy = "ACCEPT" =>
       /\ links = {} /\ op.kind \in {"start", "down"}
       /\ op.kind = "start" => \E n \in 1..Len(todo) : SetsPolicy(todo[n])

BoundsOK == ops \in 0..MaxOps /\ restarts \in 0..MaxRestarts /\ faults \in 0..MaxFaults

IInv == TableOK /\ OpOK /\ PolicyOK /\ BoundsOK

-----------------------------------------------------------------------------
(* Sequences.                                                              *)

(* A set of numbers that is not empty has a least one.                     *)
LEMMA LeastNumber ==
  ASSUME NEW T, T \subseteq Nat, T # {}
  PROVE  \E x \in T : \A y \in T : x <= y
<1> DEFINE R == {ss \in Nat \X Nat : ss[1] < ss[2]}
<1>1. IsWellFoundedOn(R, Nat)
  BY NatLessThanWellFounded DEF OpToRel
<1>2. \A x, y \in Nat : x < y => <<x, y>> \in R
  OBVIOUS
<1> HIDE DEF R
<1>3. PICK x \in T : \A y \in T : ~ (<<y, x>> \in R)
  BY <1>1, WFMin
<1>4. ASSUME NEW y \in T PROVE x <= y
  <2>1. x \in Nat /\ y \in Nat /\ ~(y < x)
    BY <1>2, <1>3
  <2> QED
    BY <2>1
<1> QED
  BY <1>4

(* A set of numbers up to n that is not empty has a greatest one.          *)
LEMMA GreatestNumber ==
  ASSUME NEW n \in Nat, NEW T, T \subseteq 1..n, T # {}
  PROVE  \E x \in T : \A y \in T : x >= y
<1> DEFINE U == {m \in Nat : \A y \in T : y <= m}
<1>1. n \in U
  OBVIOUS
<1>2. PICK x \in U : \A m \in U : x <= m
  BY <1>1, LeastNumber
<1>3. x \in T
  <2>1. SUFFICES ASSUME x \notin T PROVE FALSE
    OBVIOUS
  <2>2. PICK y \in T : TRUE
    OBVIOUS
  <2>3. x \in Nat /\ x >= 1
    BY <2>2
  <2>4. \A z \in T : z <= x - 1
    BY <2>1, <2>3
  <2>5. x - 1 \in U
    BY <2>3, <2>4
  <2> QED
    BY <1>2, <2>3, <2>5
<1> QED
  BY <1>3

LEMMA MinIn ==
  ASSUME NEW n \in Nat, NEW T, T \subseteq 1..n, T # {}
  PROVE  Min(T) \in T
<1>1. T \subseteq Nat
  OBVIOUS
<1>2. \E x \in T : \A y \in T : x =< y
  BY <1>1, LeastNumber
<1> QED
  BY <1>2 DEF Min

LEMMA MaxIn ==
  ASSUME NEW n \in Nat, NEW T, T \subseteq 1..n, T # {}
  PROVE  Max(T) \in T
BY GreatestNumber DEF Max

(* InsertAt and RemoveFirst of SequencesExt neither leave the set of the   *)
(* elements nor make a sequence empty that should not be.                  *)
LEMMA InsertIsSeq ==
  ASSUME NEW S, NEW q \in Seq(S), NEW p \in 1..(Len(q) + 1), NEW e \in S
  PROVE  InsertAt(q, p, e) \in Seq(S)
<1>1. SubSeq(q, 1, p - 1) \in Seq(S)
  <2>1. \A i \in 1..(p - 1) : q[i] \in S
    OBVIOUS
  <2> QED
    BY <2>1, SubSeqProperties
<1>2. SubSeq(q, p, Len(q)) \in Seq(S)
  <2>1. \A i \in p..Len(q) : q[i] \in S
    OBVIOUS
  <2> QED
    BY <2>1, SubSeqProperties
<1>3. <<e>> \in Seq(S)
  OBVIOUS
<1>4. SubSeq(q, 1, p - 1) \o <<e>> \in Seq(S)
  BY <1>1, <1>3, ConcatProperties
<1> QED
  BY <1>2, <1>4, ConcatProperties DEF InsertAt

LEMMA RemoveIsSeq ==
  ASSUME NEW S, NEW q \in Seq(S), NEW e
  PROVE  RemoveFirst(q, e) \in Seq(S)
<1> DEFINE I == {i \in 1..Len(q) : q[i] = e}
           k == Min(I)
<1>1. CASE I = {}
  BY <1>1 DEF RemoveFirst
<1>2. CASE I # {}
  <2>1. k \in 1..Len(q)
    <3>1. k \in I
      BY <1>2, I \subseteq 1..Len(q), Len(q) \in Nat, MinIn
    <3> QED
      BY <3>1
  <2> HIDE DEF k
  <2>2. SubSeq(q, 1, k - 1) \in Seq(S)
    <3>1. \A i \in 1..(k - 1) : q[i] \in S
      BY <2>1
    <3> QED
      BY <2>1, <3>1, SubSeqProperties
  <2>3. SubSeq(q, k + 1, Len(q)) \in Seq(S)
    <3>1. \A i \in (k + 1)..Len(q) : q[i] \in S
      BY <2>1
    <3> QED
      BY <2>1, <3>1, SubSeqProperties
  <2>4. RemoveAt(q, k) \in Seq(S)
    BY <2>2, <2>3, ConcatProperties DEF RemoveAt
  <2>5. RemoveFirst(q, e) = RemoveAt(q, k)
    BY <1>2 DEF RemoveFirst, SelectInSeq, k
  <2> QED
    BY <2>4, <2>5
<1> QED
  BY <1>1, <1>2

LEMMA InsertUniqueIsSeq ==
  ASSUME NEW S, NEW q \in Seq(S), NEW p \in Nat \ {0}, NEW e \in S,
         Contains(q, e) \/ p <= Len(q) + 1
  PROVE  InsertUnique(q, p, e) \in Seq(S)
<1>1. CASE Contains(q, e)
  BY <1>1 DEF InsertUnique
<1>2. CASE ~Contains(q, e)
  <2>1. p \in 1..(Len(q) + 1)
    BY <1>2
  <2> QED
    BY <1>2, <2>1, InsertIsSeq DEF InsertUnique
<1> QED
  BY <1>1, <1>2

LEMMA ConcatAt ==
  ASSUME NEW S, NEW u \in Seq(S), NEW v \in Seq(S)
  PROVE  /\ u \o v \in Seq(S) /\ Len(u \o v) = Len(u) + Len(v)
         /\ \A i \in 1..Len(u) : (u \o v)[i] = u[i]
         /\ \A i \in 1..Len(v) : (u \o v)[Len(u) + i] = v[i]
OBVIOUS

(* afterDefaultBlockPosition always finds a position.                      *)
LEMMA PositionFound ==
  ASSUME NEW q \in Seq(Rules)
  PROVE  afterDefaultBlockPosition(q) \in Nat \ {0}
<1> DEFINE K == {i \in 1..Len(q) : q[i].tag = "kube"}
           D == {i \in 1..Len(q) : q[i].tag = "default"}
           firstKube == IF K # {} THEN Min(K) ELSE 0
           lastDefault == IF D # {} THEN Max(D) ELSE 0
<1>1. firstKube \in Nat
  <2>1. CASE K # {}
    <3>1. Min(K) \in K
      BY <2>1, K \subseteq 1..Len(q), Len(q) \in Nat, MinIn
    <3> QED
      BY <2>1, <3>1
  <2> QED
    BY <2>1
<1>2. lastDefault \in Nat
  <2>1. CASE D # {}
    <3>1. Max(D) \in D
      BY <2>1, D \subseteq 1..Len(q), Len(q) \in Nat, MaxIn
    <3> QED
      BY <2>1, <3>1
  <2> QED
    BY <2>1
<1>3. afterDefaultBlockPosition(q) =
        IF firstKube > 0 THEN firstKube + 1
        ELSE IF lastDefault > 0 THEN lastDefault + 2 ELSE 1
  BY DEF afterDefaultBlockPosition, SelectInSeq, SelectLastInSeq
<1> HIDE DEF firstKube, lastDefault
<1> QED
  BY <1>1, <1>2, <1>3

-----------------------------------------------------------------------------
(* The calls of the operations are good ones.                              *)

LEMMA AnyIfaceHas ==
  None \in AnyIface /\ \A t \in Tenants : \A i \in Ifaces(t) : i \in AnyIface
BY Zenon DEF AnyIface

LEMMA ForwardRules ==
  /\ AnchorRule \in AllowedIn(FORWARD) /\ KubeRule \in AllowedIn(FORWARD)
  /\ \A i \in Ifaces(Default) :
       DefaultIngress(i) \in AllowedIn(FORWARD) /\ DefaultEgress(i) \in AllowedIn(FORWARD)
<1>1. AnchorRule \in Rules /\ KubeRule \in Rules
  BY AnyIfaceHas DEF AnchorRule, KubeRule, Rule, Rules, Chains
<1>2. ASSUME NEW i \in Ifaces(Default)
      PROVE  /\ DefaultIngress(i) \in Rules /\ DefaultEgress(i) \in Rules
             /\ DefaultIngress(i) \in DefaultRules /\ DefaultEgress(i) \in DefaultRules
  <2>1. i \in AnyIface /\ None \in AnyIface
    BY AnyIfaceHas DEF Tenants
  <2> QED
    BY <2>1 DEF DefaultIngress, DefaultEgress, DefaultRules, Rule, Rules
<1> QED
  BY <1>1, <1>2 DEF AllowedIn

LEMMA PrivateRules ==
  ASSUME NEW t \in Private
  PROVE  /\ \A i \in Ifaces(t) : /\ Ingress(t, i) \in AllowedIn(Anchor)
                                 /\ Egress(t, i) \in AllowedIn(ChainOf[t])
         /\ \A i \in Ifaces(Default) : Extra(i) \in AllowedIn(ChainOf[t])
         /\ DefaultDrop(t) \in AllowedIn(ChainOf[t])
<1>1. t \in Tenants /\ Default \in Tenants /\ None \in AnyIface /\ ChainOf[t] \in Chains
  BY AnyIfaceHas DEF Tenants, Chains
<1>2. Ifaces(t) \subseteq AnyIface /\ Ifaces(Default) \subseteq AnyIface
  BY <1>1, AnyIfaceHas
<1>3. DefaultDrop(t) \in Rules
  BY <1>1 DEF DefaultDrop, Rule, Rules
<1>4. ASSUME NEW i \in AnyIface
      PROVE  Ingress(t, i) \in Rules /\ Egress(t, i) \in Rules /\ Extra(i) \in Rules
  BY <1>1 DEF Ingress, Egress, Extra, Rule, Rules
<1> QED
  BY <1>2, <1>3, <1>4 DEF AllowedIn, TenantRules

LEMMA GoodCall ==
  ASSUME NEW c, NEW r
  PROVE  /\ Call("Sysctl", None, None) \in GoodCalls
         /\ Call("ChangePolicy", None, None) \in GoodCalls
         /\ Call("Masquerade", None, None) \in GoodCalls
         /\ Call("List", FORWARD, None) \in GoodCalls
         /\ c \in Chains \ {FORWARD} =>
              /\ Call("NewChain", c, None) \in GoodCalls
              /\ Tolerated(Call("NewChain", c, None)) \in GoodCalls
              /\ Call("EnsureChain", c, None) \in GoodCalls
              /\ Call("ClearChain", c, None) \in GoodCalls
              /\ Call("DeleteChain", c, None) \in GoodCalls
         /\ c \in Chains /\ r \in Rules =>
              Call("Delete", c, r) \in GoodCalls /\ Tolerated(Call("Delete", c, r)) \in GoodCalls
         /\ c \in Chains /\ r \in AllowedIn(c) => Call("AppendUnique", c, r) \in GoodCalls
         /\ r \in AllowedIn(FORWARD) => /\ Call("InsertTop", FORWARD, r) \in GoodCalls
                                        /\ Call("InsertAnchor", FORWARD, r) \in GoodCalls
<1>1. FORWARD \in Chains /\ None \in Chains \cup {None}
  BY DEF Chains
<1>2. AllowedIn(c) \subseteq Rules /\ AllowedIn(FORWARD) \subseteq Rules
  BY DEF AllowedIn
<1>3. /\ Call("Sysctl", None, None) \in GoodCalls
      /\ Call("ChangePolicy", None, None) \in GoodCalls
      /\ Call("Masquerade", None, None) \in GoodCalls
      /\ Call("List", FORWARD, None) \in GoodCalls
  BY <1>1 DEF Call, Calls, GoodCalls
<1>4. ASSUME c \in Chains \ {FORWARD}
      PROVE  /\ Call("NewChain", c, None) \in GoodCalls
             /\ Tolerated(Call("NewChain", c, None)) \in GoodCalls
             /\ Call("EnsureChain", c, None) \in GoodCalls
             /\ Call("ClearChain", c, None) \in GoodCalls
             /\ Call("DeleteChain", c, None) \in GoodCalls
  BY <1>4 DEF Call, Tolerated, Calls, GoodCalls
<1>5. ASSUME c \in Chains, r \in Rules
      PROVE  Call("Delete", c, r) \in GoodCalls /\ Tolerated(Call("Delete", c, r)) \in GoodCalls
  BY <1>5 DEF Call, Tolerated, Calls, GoodCalls
<1>6. ASSUME c \in Chains, r \in AllowedIn(c) PROVE Call("AppendUnique", c, r) \in GoodCalls
  BY <1>2, <1>6 DEF Call, Calls, GoodCalls
<1>7. ASSUME r \in AllowedIn(FORWARD)
      PROVE  Call("InsertTop", FORWARD, r) \in GoodCalls /\ Call("InsertAnchor", FORWARD, r) \in GoodCalls
  BY <1>1, <1>2, <1>7 DEF Call, Calls, GoodCalls
<1> QED
  BY <1>3, <1>4, <1>5, <1>6, <1>7

LEMMA ChainsKnown ==
  /\ FORWARD \in Chains /\ Anchor \in Chains \ {FORWARD}
  /\ \A t \in Tenants : ChainOf[t] \in Chains \ {FORWARD}
BY ConstantsAssumption DEF Chains, FORWARD, Anchor

LEMMA AllowedAreRules == \A c : AllowedIn(c) \subseteq Rules
BY DEF AllowedIn

LEMMA StartScript ==
  /\ initNodePolicies \in Seq(GoodCalls) /\ initNodePolicies # <<>>
  /\ \E n \in 1..Len(initNodePolicies) : SetsPolicy(initNodePolicies[n])
<1> DEFINE s == Call("Sysctl", None, None)
           p == Call("ChangePolicy", None, None)
           q == Call("Masquerade", None, None)
<1>1. s \in GoodCalls /\ p \in GoodCalls /\ q \in GoodCalls
  BY GoodCall
<1>2. SetsPolicy(p)
  BY DEF Call, SetsPolicy
<1> HIDE DEF s, p, q
<1>3. initNodePolicies = ((<<s>> \o <<s>>) \o <<p>>) \o <<q>>
  BY DEF initNodePolicies, EnsureIPForwarding, EnsureBridgeNetfilter, EnsureForwardPolicyDrop,
         EnsureClusterMasquerade, s, p, q
<1> DEFINE d == <<q>>
           b == <<p>>
           a == (<<s>> \o <<s>>) \o b
<1>4. <<s>> \o <<s>> \in Seq(GoodCalls) /\ Len(<<s>> \o <<s>>) = 2
  BY <1>1
<1>5. b \in Seq(GoodCalls) /\ Len(b) = 1 /\ b[1] = p /\ d \in Seq(GoodCalls) /\ Len(d) = 1
  BY <1>1
<1> HIDE DEF b, d
<1>6. a \in Seq(GoodCalls) /\ Len(a) = 2 + 1 /\ a[2 + 1] = p
  BY <1>4, <1>5, 1 \in 1..1, ConcatAt
<1> HIDE DEF a
<1>7. a \o d \in Seq(GoodCalls) /\ Len(a \o d) = 4 /\ (a \o d)[3] = p
  BY <1>5, <1>6, 3 \in 1..3, ConcatAt
<1>8. initNodePolicies = a \o d
  BY <1>3 DEF a, b, d
<1>9. a \o d # <<>>
  BY <1>7
<1> QED
  BY <1>2, <1>7, <1>8, <1>9

LEMMA AnchorScript == ensurePrivateAnchor \in Seq(GoodCalls)
<1> DEFINE k1 == Call("EnsureChain", Anchor, None)
           k2 == Tolerated(Call("Delete", FORWARD, AnchorRule))
           k3 == Call("List", FORWARD, None)
           k4 == Call("InsertAnchor", FORWARD, AnchorRule)
<1>1. k1 \in GoodCalls /\ k2 \in GoodCalls /\ k3 \in GoodCalls /\ k4 \in GoodCalls
  BY GoodCall, ChainsKnown, ForwardRules, AllowedAreRules
<1> HIDE DEF k1, k2, k3, k4
<1>2. ensurePrivateAnchor = <<k1, k2, k3, k4>>
  BY DEF ensurePrivateAnchor, k1, k2, k3, k4
<1> QED
  BY <1>1, <1>2

LEMMA DefaultScript == EnsureDefaultTenant \in Seq(GoodCalls) /\ EnsureDefaultTenant # <<>>
<1> DEFINE k1 == Call("InsertTop", FORWARD, DefaultEgress(vx(Default)))
           k2 == Call("InsertTop", FORWARD, DefaultEgress(br(Default)))
           k3 == Call("InsertTop", FORWARD, DefaultIngress(vx(Default)))
           k4 == Call("InsertTop", FORWARD, DefaultIngress(br(Default)))
<1>1. br(Default) \in Ifaces(Default) /\ vx(Default) \in Ifaces(Default)
  BY DEF Ifaces
<1>2. k1 \in GoodCalls /\ k2 \in GoodCalls /\ k3 \in GoodCalls /\ k4 \in GoodCalls
  BY <1>1, GoodCall, ForwardRules
<1> HIDE DEF k1, k2, k3, k4
<1>3. EnsureDefaultTenant = <<k1, k2, k3, k4>> \o ensurePrivateAnchor
  BY DEF EnsureDefaultTenant, k1, k2, k3, k4
<1>4. <<k1, k2, k3, k4>> \in Seq(GoodCalls) /\ <<k1, k2, k3, k4>> # <<>>
  BY <1>2
<1> QED
  BY <1>3, <1>4, AnchorScript, ConcatProperties, ConcatEqualIffEmpty

LEMMA IsolationScript ==
  ASSUME NEW t \in Private
  PROVE  EnsureTenantIsolation(t) \in Seq(GoodCalls) /\ EnsureTenantIsolation(t) # <<>>
<1> DEFINE fw == ChainOf[t]
           s1 == EnsureTenantChains(t)
           k1 == Call("AppendUnique", Anchor, Ingress(t, vx(t)))
           k2 == Call("AppendUnique", Anchor, Ingress(t, br(t)))
           k3 == Call("AppendUnique", fw, Egress(t, br(t)))
           k4 == Call("AppendUnique", fw, Egress(t, vx(t)))
           s3 == <<k1, k2, k3, k4>>
           s4 == [n \in DOMAIN defaultTenantIfaces |->
                    Call("AppendUnique", fw, Extra(defaultTenantIfaces[n]))]
           k5 == Call("AppendUnique", fw, DefaultDrop(t))
<1>1. /\ br(t) \in Ifaces(t) /\ vx(t) \in Ifaces(t)
      /\ br(Default) \in Ifaces(Default) /\ vx(Default) \in Ifaces(Default)
  BY DEF Ifaces
<1>2. fw \in Chains \ {FORWARD} /\ Anchor \in Chains
  BY ChainsKnown DEF Tenants
<1>3. s1 \in Seq(GoodCalls)
  <2> DEFINE n1 == Tolerated(Call("NewChain", fw, None))
             n2 == Call("ClearChain", fw, None)
  <2>1. n1 \in GoodCalls /\ n2 \in GoodCalls
    BY <1>2, GoodCall
  <2> HIDE DEF n1, n2
  <2>2. s1 = <<n1, n2>>
    BY DEF EnsureTenantChains, n1, n2
  <2> QED
    BY <2>1, <2>2
<1>4. s3 \in Seq(GoodCalls)
  <2>1. k1 \in GoodCalls /\ k2 \in GoodCalls /\ k3 \in GoodCalls /\ k4 \in GoodCalls
    BY <1>1, <1>2, GoodCall, PrivateRules
  <2> HIDE DEF k1, k2, k3, k4
  <2> QED
    BY <2>1
<1>5. s4 \in Seq(GoodCalls)
  <2>1. defaultTenantIfaces \in Seq(Ifaces(Default))
    BY <1>1 DEF defaultTenantIfaces
  <2>2. DOMAIN defaultTenantIfaces = 1..Len(defaultTenantIfaces) /\ Len(defaultTenantIfaces) \in Nat
    BY <2>1
  <2>3. \A n \in 1..Len(defaultTenantIfaces) :
          Call("AppendUnique", fw, Extra(defaultTenantIfaces[n])) \in GoodCalls
    BY <1>2, <2>1, GoodCall, PrivateRules
  <2> QED
    BY <2>2, <2>3
<1>6. <<k5>> \in Seq(GoodCalls) /\ <<k5>> # <<>>
  <2>1. k5 \in GoodCalls
    BY <1>2, GoodCall, PrivateRules
  <2> QED
    BY <2>1
<1>7. EnsureTenantIsolation(t) = (((s1 \o ensurePrivateAnchor) \o s3) \o s4) \o <<k5>>
  BY DEF EnsureTenantIsolation
<1> HIDE DEF s1, s3, s4, k5
<1>8. ((s1 \o ensurePrivateAnchor) \o s3) \o s4 \in Seq(GoodCalls)
  BY <1>3, <1>4, <1>5, AnchorScript, ConcatProperties
<1> QED
  BY <1>6, <1>7, <1>8, ConcatProperties, ConcatEqualIffEmpty

(* The default tenant has no jump in the anchor, but the call that is to   *)
(* delete it is a call like any other.                                     *)
LEMMA DeleteScript ==
  ASSUME NEW t \in Tenants
  PROVE  DeleteTenantChains(t) \in Seq(GoodCalls) /\ DeleteTenantChains(t) # <<>>
<1> DEFINE k1 == Call("Delete", Anchor, Ingress(t, br(t)))
           k2 == Call("Delete", Anchor, Ingress(t, vx(t)))
           k3 == Call("ClearChain", ChainOf[t], None)
           k4 == Call("DeleteChain", ChainOf[t], None)
<1>1. Ingress(t, br(t)) \in Rules /\ Ingress(t, vx(t)) \in Rules
  <2>1. br(t) \in AnyIface /\ vx(t) \in AnyIface /\ None \in AnyIface
    BY AnyIfaceHas DEF Ifaces
  <2> QED
    BY <2>1, ChainsKnown DEF Ingress, Rule, Rules
<1>2. k1 \in GoodCalls /\ k2 \in GoodCalls /\ k3 \in GoodCalls /\ k4 \in GoodCalls
  BY <1>1, GoodCall, ChainsKnown
<1> HIDE DEF k1, k2, k3, k4
<1>3. DeleteTenantChains(t) = <<k1, k2, k3, k4>>
  BY DEF DeleteTenantChains, k1, k2, k3, k4
<1> QED
  BY <1>2, <1>3

-----------------------------------------------------------------------------
(* The calls.                                                              *)

(* A call that the table allows leaves only rules where they belong, and   *)
(* none in a chain that does not exist.                                    *)
LEMMA CallRules ==
  ASSUME TableOK, NEW k \in GoodCalls, Possible(k), NEW c \in Chains
  PROVE  RulesAfter(k, c) \in Seq(AllowedIn(c))
<1> DEFINE q == rules[c]
<1>1. q \in Seq(AllowedIn(c)) /\ Len(q) \in Nat /\ pos \in Nat \ {0}
  BY DEF TableOK
<1>2. CASE c # k.chain
  BY <1>1, <1>2 DEF RulesAfter
<1>3. CASE c = k.chain
  <2>1. CASE k.fn \in {"ClearChain", "DeleteChain"}
    <3>1. RulesAfter(k, c) = <<>>
      BY <1>3, <2>1 DEF RulesAfter
    <3> QED
      BY <3>1, EmptySeq
  <2>2. CASE k.fn = "AppendUnique"
    <3>1. k.rule \in AllowedIn(c)
      BY <1>3, <2>2 DEF GoodCalls
    <3>2. InsertUnique(q, Len(q) + 1, k.rule) \in Seq(AllowedIn(c))
      BY <1>1, <3>1, InsertUniqueIsSeq
    <3> QED
      BY <1>3, <2>2, <3>2 DEF RulesAfter
  <2>3. CASE k.fn = "InsertTop"
    <3>1. k.rule \in AllowedIn(c)
      BY <1>3, <2>3 DEF GoodCalls
    <3>2. InsertUnique(q, 1, k.rule) \in Seq(AllowedIn(c))
      BY <1>1, <3>1, InsertUniqueIsSeq
    <3> QED
      BY <1>3, <2>3, <3>2 DEF RulesAfter
  <2>4. CASE k.fn = "InsertAnchor"
    <3>1. k.rule \in AllowedIn(c) /\ c = FORWARD
      BY <1>3, <2>4 DEF GoodCalls
    <3>2. Contains(q, k.rule) \/ pos <= Len(q) + 1
      BY <2>4, <3>1 DEF Possible
    <3>3. InsertUnique(q, pos, k.rule) \in Seq(AllowedIn(c))
      BY <1>1, <3>1, <3>2, InsertUniqueIsSeq
    <3> QED
      BY <1>3, <2>4, <3>3 DEF RulesAfter
  <2>5. CASE k.fn = "Delete"
    <3>1. RemoveFirst(q, k.rule) \in Seq(AllowedIn(c))
      BY <1>1, RemoveIsSeq
    <3> QED
      BY <1>3, <2>5, <3>1 DEF RulesAfter
  <2>6. CASE k.fn \notin {"ClearChain", "DeleteChain", "AppendUnique", "InsertTop", "InsertAnchor", "Delete"}
    BY <1>1, <2>6 DEF RulesAfter
  <2> QED
    BY <2>1, <2>2, <2>3, <2>4, <2>5, <2>6
<1> QED
  BY <1>2, <1>3

LEMMA ExecuteTable ==
  ASSUME TableOK, NEW k \in GoodCalls, Possible(k), Execute(k)
  PROVE  TableOK'
<1>1. k.chain \in Chains \cup {None} /\ rules' = [c \in Chains |-> RulesAfter(k, c)]
  BY DEF GoodCalls, Calls, Execute
<1>2. made' \subseteq Chains /\ FORWARD \in made'
  BY ChainsKnown DEF TableOK, Execute, GoodCalls
<1>3. \A c \in Chains : rules'[c] \in Seq(AllowedIn(c))
  BY <1>1, CallRules
<1>4. rules' \in [Chains -> Seq(Rules)]
  <2>1. \A c \in Chains : RulesAfter(k, c) \in Seq(Rules)
    BY CallRules, AllowedAreRules, SeqMonotonic
  <2> QED
    BY <1>1, <2>1
<1>5. ASSUME NEW c \in Chains \ made' PROVE rules'[c] = <<>>
  <2>1. rules'[c] = RulesAfter(k, c)
    BY <1>1
  <2>2. CASE c # k.chain
    <3>1. c \notin made
      BY <1>5, <2>2 DEF Execute
    <3> QED
      BY <2>1, <2>2, <3>1 DEF RulesAfter, TableOK
  <2>3. CASE c = k.chain /\ k.fn = "DeleteChain"
    BY <2>1, <2>3 DEF RulesAfter
  <2>4. CASE c = k.chain /\ k.fn # "DeleteChain"
    <3>1. c \notin made /\ k.fn \notin {"NewChain", "EnsureChain", "ClearChain"}
      BY <1>5, <2>4 DEF Execute
    <3>2. rules[c] = <<>> /\ c # FORWARD
      BY <3>1 DEF TableOK
    <3>3. k.fn \notin {"AppendUnique", "InsertTop", "InsertAnchor"}
      BY <2>4, <3>1, <3>2 DEF Possible, GoodCalls
    <3>4. k.fn # "Delete"
      BY <2>4, <3>2 DEF Possible, Contains
    <3> QED
      BY <2>1, <2>4, <3>1, <3>2, <3>3, <3>4 DEF RulesAfter
  <2> QED
    BY <2>2, <2>3, <2>4
<1>6. pos' \in Nat \ {0}
  BY PositionFound, ChainsKnown DEF Execute, TableOK
<1> QED
  BY <1>2, <1>3, <1>4, <1>5, <1>6 DEF TableOK

LEMMA ExecutePolicy ==
  ASSUME PolicyOK, NEW k, Execute(k)
  PROVE  /\ policy' \in {"ACCEPT", "DROP"}
         /\ policy' = "ACCEPT" => policy = "ACCEPT" /\ k.fn # "ChangePolicy"
BY DEF PolicyOK, Execute

(* A call of the daemon's start that sets the policy always can.           *)
LEMMA PolicyPossible ==
  ASSUME NEW k, SetsPolicy(k)
  PROVE  Possible(k)
BY DEF SetsPolicy, Possible

LEMMA HeadTail ==
  ASSUME OpOK, todo # <<>>
  PROVE  /\ Head(todo) \in GoodCalls /\ Head(todo) = todo[1]
         /\ Tail(todo) \in Seq(GoodCalls) /\ Len(todo) \in Nat \ {0}
         /\ Len(Tail(todo)) = Len(todo) - 1
         /\ \A n \in 1..(Len(todo) - 1) : Tail(todo)[n] = todo[n + 1]
         /\ op.kind \in {"start", "ensure", "remove"}
BY DEF OpOK

(* The operation goes on or is complete.  If the policy still accepts, the *)
(* call was not the one that sets it, which then is still to come.         *)
LEMMA ProceedInv ==
  ASSUME OpOK, PolicyOK, todo # <<>>, Proceed,
         policy' \in {"ACCEPT", "DROP"},
         policy' = "ACCEPT" => policy = "ACCEPT" /\ ~SetsPolicy(Head(todo))
  PROVE  OpOK' /\ PolicyOK'
<1>1. CASE Len(todo) = 1 /\ Complete
  <2>1. OpOK'
    BY <1>1, HeadTail DEF OpOK, Complete, Idle
  <2>2. ASSUME policy' = "ACCEPT" PROVE FALSE
    <3>1. op.kind = "start"
      BY <2>2, HeadTail DEF PolicyOK
    <3>2. PICK n \in 1..Len(todo) : SetsPolicy(todo[n])
      BY <2>2, <3>1 DEF PolicyOK
    <3>3. n = 1
      BY <1>1, <3>2
    <3> QED
      BY <2>2, <3>2, <3>3, HeadTail
  <2> QED
    BY <2>1, <2>2 DEF PolicyOK
<1>2. CASE Len(todo) > 1 /\ todo' = Tail(todo) /\ UNCHANGED <<op, records, links>>
  <2>1. todo' # <<>> /\ todo' \in Seq(GoodCalls)
    <3>1. todo' \in Seq(GoodCalls) /\ Len(todo') >= 1
      BY <1>2, HeadTail
    <3> QED
      BY <3>1, EmptySeq
  <2>2. OpOK'
    BY <1>2, <2>1, HeadTail DEF OpOK
  <2>3. ASSUME policy' = "ACCEPT", op.kind = "start"
        PROVE  \E n \in 1..Len(todo') : SetsPolicy(todo'[n])
    <3>1. PICK n \in 1..Len(todo) : SetsPolicy(todo[n])
      BY <2>3 DEF PolicyOK
    <3>2. n # 1
      BY <2>3, <3>1, HeadTail
    <3>3. n - 1 \in 1..Len(todo') /\ todo'[n - 1] = todo[n]
      BY <1>2, <3>1, <3>2, HeadTail
    <3> QED
      BY <3>1, <3>3
  <2> QED
    BY <1>2, <2>2, <2>3 DEF PolicyOK
<1> QED
  BY <1>1, <1>2 DEF Proceed

(* The operation ends with an error.                                       *)
LEMMA AbortInv ==
  ASSUME OpOK, PolicyOK, todo # <<>>, Abort, policy' = policy
  PROVE  OpOK' /\ PolicyOK'
<1>1. OpOK'
  BY HeadTail DEF OpOK, Abort, Idle, Down
<1>2. PolicyOK'
  BY HeadTail DEF PolicyOK, Abort, Down
<1> QED
  BY <1>1, <1>2

LEMMA MakeCallInv ==
  ASSUME IInv, MakeCall
  PROVE  IInv'
<1> DEFINE k == Head(todo)
<1>1. TableOK /\ OpOK /\ PolicyOK /\ todo # <<>> /\ k \in GoodCalls
  BY HeadTail DEF IInv, MakeCall
<1>2. BoundsOK'
  BY DEF IInv, BoundsOK, MakeCall
<1>3. CASE Possible(k) /\ Execute(k) /\ Proceed
  BY <1>1, <1>2, <1>3, ExecuteTable, ExecutePolicy, ProceedInv DEF IInv, SetsPolicy
<1>4. CASE ~Possible(k) /\ (IF k.tolerated THEN Proceed ELSE Abort) /\ UNCHANGED <<table, pos>>
  <2>1. TableOK' /\ policy' = policy
    BY <1>1, <1>4 DEF TableOK, table
  <2>2. ~SetsPolicy(k)
    BY <1>4, PolicyPossible
  <2>3. OpOK' /\ PolicyOK'
    BY <1>1, <1>4, <2>1, <2>2, ProceedInv, AbortInv DEF PolicyOK
  <2> QED
    BY <1>2, <2>1, <2>3 DEF IInv
<1> QED
  BY <1>3, <1>4 DEF MakeCall

LEMMA CallFailsInv ==
  ASSUME IInv, CallFails
  PROVE  IInv'
<1> DEFINE k == Head(todo)
<1>1. TableOK /\ OpOK /\ PolicyOK /\ todo # <<>>
  BY DEF IInv, CallFails
<1>2. BoundsOK'
  BY ConstantsAssumption DEF IInv, BoundsOK, CallFails
<1>3. TableOK' /\ policy' = policy
  BY <1>1 DEF TableOK, table, CallFails
<1>4. CASE k.tolerated /\ Proceed
  <2>1. ~SetsPolicy(k)
    BY <1>4 DEF SetsPolicy
  <2>2. OpOK' /\ PolicyOK'
    BY <1>1, <1>3, <1>4, <2>1, ProceedInv DEF PolicyOK
  <2> QED
    BY <1>2, <1>3, <2>2 DEF IInv
<1>5. CASE Abort
  BY <1>1, <1>2, <1>3, <1>5, AbortInv DEF IInv
<1> QED
  BY <1>4, <1>5 DEF CallFails

-----------------------------------------------------------------------------
(* The other actions.                                                      *)

LEMMA EnsureTenantInv ==
  ASSUME IInv, NEW t \in Tenants, EnsureTenant(t)
  PROVE  IInv'
<1>1. TableOK' /\ policy' = policy /\ BoundsOK'
  BY ConstantsAssumption DEF IInv, TableOK, BoundsOK, EnsureTenant, table
<1>2. policy = "DROP"
  BY DEF IInv, PolicyOK, EnsureTenant, Idle
<1>3. todo' \in Seq(GoodCalls) /\ todo' # <<>>
  BY DefaultScript, IsolationScript DEF EnsureTenant, Tenants
<1>4. OpOK'
  BY <1>3 DEF IInv, OpOK, EnsureTenant
<1> QED
  BY <1>1, <1>2, <1>4 DEF IInv, PolicyOK

LEMMA RemoveTenantInv ==
  ASSUME IInv, NEW t \in Tenants, RemoveTenant(t)
  PROVE  IInv'
<1>1. TableOK' /\ policy' = policy /\ BoundsOK'
  BY ConstantsAssumption DEF IInv, TableOK, BoundsOK, RemoveTenant, table
<1>2. policy = "DROP"
  BY DEF IInv, PolicyOK, RemoveTenant, Idle
<1>3. todo' \in Seq(GoodCalls) /\ todo' # <<>>
  BY DeleteScript DEF RemoveTenant
<1>4. OpOK'
  BY <1>3 DEF IInv, OpOK, RemoveTenant
<1> QED
  BY <1>1, <1>2, <1>4 DEF IInv, PolicyOK

(* The devices outlive the daemon, but then so does the policy.            *)
LEMMA RestartInv ==
  ASSUME IInv, Restart
  PROVE  IInv'
<1>1. TableOK' /\ policy' = policy /\ links' = links /\ BoundsOK'
  BY ConstantsAssumption DEF IInv, TableOK, BoundsOK, Restart, table
<1>2. OpOK'
  BY StartScript DEF IInv, OpOK, Restart
<1>3. PolicyOK'
  BY <1>1, StartScript DEF IInv, PolicyOK, Restart
<1> QED
  BY <1>1, <1>2, <1>3 DEF IInv

LEMMA KubeProxyInsertsInv ==
  ASSUME IInv, KubeProxyInserts
  PROVE  IInv'
<1> DEFINE q == <<KubeRule>> \o rules[FORWARD]
<1>1. rules[FORWARD] \in Seq(AllowedIn(FORWARD))
  BY ChainsKnown DEF IInv, TableOK
<1>2. <<KubeRule>> \in Seq(AllowedIn(FORWARD))
  BY ForwardRules
<1>3. q \in Seq(AllowedIn(FORWARD))
  BY <1>1, <1>2, ConcatProperties
<1>4. q \in Seq(Rules)
  BY <1>3, AllowedAreRules, SeqMonotonic
<1>5. rules' = [rules EXCEPT ![FORWARD] = q]
  BY DEF KubeProxyInserts
<1> HIDE DEF q
<1>6. TableOK'
  BY <1>3, <1>4, <1>5, ChainsKnown DEF IInv, TableOK, KubeProxyInserts
<1>7. OpOK' /\ PolicyOK' /\ BoundsOK'
  BY DEF IInv, OpOK, PolicyOK, BoundsOK, KubeProxyInserts
<1> QED
  BY <1>6, <1>7 DEF IInv

LEMMA InitInv == Init => IInv
<1> SUFFICES ASSUME Init PROVE IInv
  OBVIOUS
<1>1. TableOK
  BY ChainsKnown, EmptySeq DEF Init, TableOK
<1>2. OpOK
  BY StartScript DEF Init, OpOK
<1>3. PolicyOK
  BY StartScript DEF Init, PolicyOK
<1>4. BoundsOK
  BY ConstantsAssumption DEF Init, BoundsOK
<1> QED
  BY <1>1, <1>2, <1>3, <1>4 DEF IInv

LEMMA NextInv ==
  ASSUME IInv, [Next]_vars
  PROVE  IInv'
<1>1. CASE UNCHANGED vars
  BY <1>1 DEF IInv, TableOK, OpOK, PolicyOK, BoundsOK, vars, table
<1> QED
  BY <1>1, EnsureTenantInv, RemoveTenantInv, MakeCallInv, CallFailsInv, RestartInv,
     KubeProxyInsertsInv DEF Next

(* Every chain has only rules of its own kind, and every call still to be  *)
(* made keeps it so.                                                       *)
THEOREM InvariantHolds == Spec => []IInv
BY InitInv, NextInv, PTL DEF Spec

(* The state has its shape, a chain that does not exist has no rules, and  *)
(* an operation is under way exactly while it has calls to make.           *)
THEOREM TypeCorrect == Spec => []TypeOK
<1>1. IInv => TypeOK
  <2> SUFFICES ASSUME IInv PROVE TypeOK
    OBVIOUS
  <2>1. todo \in Seq(Calls)
    BY SeqMonotonic DEF IInv, OpOK, GoodCalls
  <2> QED
    BY <2>1 DEF IInv, TableOK, OpOK, PolicyOK, BoundsOK, TypeOK
<1> QED
  BY <1>1, InvariantHolds, PTL

-----------------------------------------------------------------------------
(* Isolation.                                                              *)

LEMMA NoneAccepts ==
  ASSUME NEW v, NEW d, \A k \in DOMAIN v : v[k] # "ACCEPT", d # "ACCEPT"
  PROVE  Decision(v, d) # "ACCEPT"
BY DEF Decision, Decides

LEMMA IfacesApart ==
  ASSUME NEW s \in Tenants, NEW t \in Tenants, s # t, NEW i \in Ifaces(s), NEW o \in Ifaces(t)
  PROVE  i # o /\ i # None /\ o # None
BY ConstantsAssumption DEF Ifaces, br, vx

(* No chain of a private tenant accepts a packet to another one.           *)
LEMMA TenantChainIsolates ==
  ASSUME TableOK, NEW s \in Private, NEW t \in Private, s # t,
         \A u, w \in Private : ChainOf[u] = ChainOf[w] => u = w,
         NEW i \in Ifaces(s), NEW o \in Ifaces(t)
  PROVE  InTenantChain(ChainOf[s], i, o) # "ACCEPT"
<1> DEFINE c == ChainOf[s]
<1>1. rules[c] \in Seq(AllowedIn(c)) /\ c \notin {FORWARD, Anchor}
  BY ConstantsAssumption, ChainsKnown DEF TableOK, Tenants
<1>2. ASSUME NEW k \in DOMAIN rules[c] PROVE Says(rules[c][k], i, o, "next") # "ACCEPT"
  <2>1. rules[c][k] \in AllowedIn(c)
    BY <1>1
  <2>2. rules[c][k] \in TenantRules(s)
    BY <1>1, <2>1 DEF AllowedIn
  <2>3. CASE \E p \in Ifaces(s) : rules[c][k] = Egress(s, p)
    BY <2>3, IfacesApart DEF Egress, Rule, Says, Tenants
  <2>4. CASE \E p \in Ifaces(Default) : rules[c][k] = Extra(p)
    BY <2>4, IfacesApart, ConstantsAssumption DEF Extra, Rule, Says, Tenants
  <2>5. CASE rules[c][k] = DefaultDrop(s)
    BY <2>5 DEF DefaultDrop, Rule, Says
  <2> QED
    BY <2>2, <2>3, <2>4, <2>5 DEF TenantRules
<1> QED
  BY <1>2, NoneAccepts DEF InTenantChain

(* The anchor hands a packet only to the chain of the tenant it is from.   *)
LEMMA AnchorIsolates ==
  ASSUME TableOK, NEW s \in Private, NEW t \in Private, s # t,
         \A u, w \in Private : ChainOf[u] = ChainOf[w] => u = w,
         NEW i \in Ifaces(s), NEW o \in Ifaces(t)
  PROVE  InAnchor(i, o) # "ACCEPT"
<1>1. rules[Anchor] \in Seq(AllowedIn(Anchor))
  BY ChainsKnown DEF TableOK
<1>2. ASSUME NEW k \in DOMAIN rules[Anchor]
      PROVE  Says(rules[Anchor][k], i, o, InTenantChain(rules[Anchor][k].to, i, o)) # "ACCEPT"
  <2> DEFINE r == rules[Anchor][k]
  <2>1. r \in AllowedIn(Anchor)
    BY <1>1
  <2>2. PICK u \in Private : \E j \in Ifaces(u) : r = Ingress(u, j)
    BY <2>1, ConstantsAssumption DEF AllowedIn, FORWARD, Anchor, Tenants
  <2> PICK j \in Ifaces(u) : r = Ingress(u, j)
    BY <2>2
  <2>3. r.in = j /\ r.to = ChainOf[u]
    BY DEF Ingress, Rule
  <2> HIDE DEF r
  <2>4. CASE j = i
    <3>1. u = s
      BY <2>4, IfacesApart DEF Tenants
    <3>2. InTenantChain(r.to, i, o) # "ACCEPT"
      BY <2>3, <3>1, TenantChainIsolates
    <3>3. r.to # "ACCEPT"
      BY <2>3, ConstantsAssumption DEF Tenants
    <3> QED
      BY <3>2, <3>3 DEF Says, r
  <2>5. CASE j # i
    <3>1. j # None
      BY IfacesApart, ConstantsAssumption DEF Tenants
    <3> QED
      BY <2>3, <2>5, <3>1 DEF Says, r
  <2> QED
    BY <2>4, <2>5
<1> QED
  BY <1>2, NoneAccepts DEF InAnchor

(* Private tenants never reach each other, whatever calls fail and         *)
(* whenever the daemon ends, provided that every tenant has a chain of its *)
(* own (fwChain cuts the names).                                           *)
THEOREM PrivateTenantsIsolated ==
  ASSUME \A u, w \in Private : ChainOf[u] = ChainOf[w] => u = w
  PROVE  Spec => []Isolated
<1>1. IInv => Isolated
  <2> SUFFICES ASSUME IInv, NEW s \in Private \cap links, NEW t \in Private \cap links, s # t,
                      NEW i \in Ifaces(s), NEW o \in Ifaces(t)
               PROVE  ~Accepted(i, o)
    BY DEF Isolated
  <2>1. policy # "ACCEPT"
    BY DEF IInv, PolicyOK
  <2>2. rules[FORWARD] \in Seq(AllowedIn(FORWARD))
    BY ChainsKnown DEF IInv, TableOK
  <2>3. InAnchor(i, o) # "ACCEPT"
    BY AnchorIsolates DEF IInv
  <2>4. ASSUME NEW k \in DOMAIN rules[FORWARD]
        PROVE  Says(rules[FORWARD][k], i, o, InAnchor(i, o)) # "ACCEPT"
    <3>1. rules[FORWARD][k] \in AllowedIn(FORWARD)
      BY <2>2
    <3>2. rules[FORWARD][k] \in DefaultRules \cup {AnchorRule, KubeRule}
      BY <3>1, ConstantsAssumption DEF AllowedIn, FORWARD, Anchor, Tenants
    <3>3. CASE \E j \in Ifaces(Default) : rules[FORWARD][k] = DefaultIngress(j)
      BY <3>3, IfacesApart, ConstantsAssumption DEF DefaultIngress, Rule, Says, Tenants
    <3>4. CASE \E j \in Ifaces(Default) : rules[FORWARD][k] = DefaultEgress(j)
      BY <3>4, IfacesApart, ConstantsAssumption DEF DefaultEgress, Rule, Says, Tenants
    <3>5. CASE rules[FORWARD][k] \in {AnchorRule, KubeRule}
      BY <2>3, <3>5 DEF AnchorRule, KubeRule, Anchor, Rule, Says
    <3> QED
      BY <3>2, <3>3, <3>4, <3>5 DEF DefaultRules
  <2> QED
    BY <2>1, <2>4, NoneAccepts DEF Accepted
<1> QED
  BY <1>1, InvariantHolds, PTL

-----------------------------------------------------------------------------
(* What has been set up stays, and what is removed goes.  The invariant    *)
(* follows the script of an operation: what a tenant needs is in the table *)
(* or in the calls still to be made.                                       *)

NewCall(t) == Tolerated(Call("NewChain", ChainOf[t], None))
ClearCall(t) == Call("ClearChain", ChainOf[t], None)
DeleteCall(t) == Call("DeleteChain", ChainOf[t], None)
JumpCall(t, i) == Call("AppendUnique", Anchor, Ingress(t, i))
UnjumpCall(t, i) == Call("Delete", Anchor, Ingress(t, i))
RuleCall(t, r) == Call("AppendUnique", ChainOf[t], r)
TopCall(r) == Call("InsertTop", FORWARD, r)
AnchorCall == Call("EnsureChain", Anchor, None)
UnhookCall == Tolerated(Call("Delete", FORWARD, AnchorRule))
ListCall == Call("List", FORWARD, None)
HookCall == Call("InsertAnchor", FORWARD, AnchorRule)

(* The calls of EnsureTenant of t.                                         *)
EnsureCalls(t) ==
  {AnchorCall, UnhookCall, ListCall, HookCall}
    \cup IF t = Default THEN {TopCall(r) : r \in DefaultRules}
         ELSE {NewCall(t), ClearCall(t)} \cup {JumpCall(t, i) : i \in Ifaces(t)}
                \cup {RuleCall(t, r) : r \in TenantRules(t)}

Later(s, n, k) == \E m \in (n + 1)..Len(s) : s[m] = k

(* The order of the calls in what is left of EnsureTenant of t.            *)
InPlace(t, s, n) ==
  /\ s[n] \in EnsureCalls(t)
  /\ s[n].fn = "Delete" => Later(s, n, HookCall)
  /\ s[n].fn \in {"Delete", "InsertTop"} => Later(s, n, ListCall)
  /\ s[n].fn = "ClearChain" => \A o \in Ifaces(t) : Later(s, n, RuleCall(t, Egress(t, o)))
  /\ s[n] = RuleCall(t, DefaultDrop(t)) => n = Len(s)
  /\ s[n].fn = "AppendUnique" => ~Later(s, n, HookCall)
  /\ s[n].fn = "InsertAnchor" => \A k \in {AnchorCall, ListCall, HookCall} : ~Later(s, n, k)

EnsureTodo(t, s) == \A n \in 1..Len(s) : InPlace(t, s, n)

ScriptOK ==
  /\ op.kind = "start" =>
       \A n \in 1..Len(todo) : todo[n].fn \in {"Sysctl", "ChangePolicy", "Masquerade"}
  /\ op.kind = "ensure" => EnsureTodo(op.t, todo) /\ op.t \notin records
  /\ op.kind = "remove" /\ op.t = Default => todo = DeleteTenantChains(Default)

NoDup(q) == \A m, n \in 1..Len(q) : q[m] = q[n] => m = n

Before(q, A, B) == \A m, n \in 1..Len(q) : q[m] \in A /\ q[n] \in B => m < n

EgressRules(t) == {Egress(t, o) : o \in Ifaces(t)}
Ordered(t, q) == Before(q, EgressRules(t), {DefaultDrop(t)})

(* In rules rs the anchor hands packets from interface i of t to its chain.*)
Jump(rs, t, i) == Contains(rs[Anchor], Ingress(t, i))

(* With chains md and rules rs private tenant t has all that its own       *)
(* traffic needs.                                                          *)
Whole(md, rs, t) ==
  /\ ChainOf[t] \in md
  /\ \A i \in Ifaces(t) : Jump(rs, t, i)
  /\ \A o \in Ifaces(t) : Contains(rs[ChainOf[t]], Egress(t, o))
  /\ Ordered(t, rs[ChainOf[t]])

(* Once the chain has been cleared, its rules come in their order; s are   *)
(* the calls still to be made.                                             *)
Filling(rs, s, t) ==
  /\ \A o \in Ifaces(t) : \/ Contains(rs[ChainOf[t]], Egress(t, o))
                          \/ Contains(s, RuleCall(t, Egress(t, o)))
  /\ Ordered(t, rs[ChainOf[t]])
  /\ Contains(rs[ChainOf[t]], DefaultDrop(t)) =>
       \A o \in Ifaces(t) : ~Contains(s, RuleCall(t, Egress(t, o)))

Building(md, rs, s, t) ==
  /\ ChainOf[t] \in md \/ Contains(s, ClearCall(t))
  /\ \A i \in Ifaces(t) : Jump(rs, t, i) \/ Contains(s, JumpCall(t, i))
  /\ Contains(s, ClearCall(t)) \/ Filling(rs, s, t)

(* The four calls of DeleteTenantChains, none of which the table refuses.  *)
Removing(md, rs, s, t) ==
  /\ ChainOf[t] \in md
  /\ \/ /\ s = <<UnjumpCall(t, br(t)), UnjumpCall(t, vx(t)), ClearCall(t), DeleteCall(t)>>
        /\ Jump(rs, t, br(t)) /\ Jump(rs, t, vx(t))
     \/ /\ s = <<UnjumpCall(t, vx(t)), ClearCall(t), DeleteCall(t)>>
        /\ ~Jump(rs, t, br(t)) /\ Jump(rs, t, vx(t))
     \/ /\ s = <<ClearCall(t), DeleteCall(t)>>
        /\ ~Jump(rs, t, br(t)) /\ ~Jump(rs, t, vx(t))
     \/ /\ s = <<DeleteCall(t)>> /\ rs[ChainOf[t]] = <<>>
        /\ ~Jump(rs, t, br(t)) /\ ~Jump(rs, t, vx(t))

Doing(kind, t) == op = [kind |-> kind, t |-> t]

PrivateOK(t) ==
  /\ t \in records /\ ~Doing("remove", t) => Whole(made, rules, t)
  /\ Doing("ensure", t) => Building(made, rules, todo, t)
  /\ Doing("remove", t) => Removing(made, rules, todo, t)

SetupInv == ScriptOK /\ NoDup(rules[Anchor]) /\ \A t \in Private : PrivateOK(t)

-----------------------------------------------------------------------------
(* What insertion and removal do to the places of a sequence.              *)

LEMMA InsertPlaces ==
  ASSUME NEW S, NEW q \in Seq(S), NEW p \in 1..(Len(q) + 1), NEW e \in S
  PROVE  /\ Len(InsertAt(q, p, e)) = Len(q) + 1
         /\ \A i \in 1..(p - 1) : InsertAt(q, p, e)[i] = q[i]
         /\ InsertAt(q, p, e)[p] = e
         /\ \A i \in p..Len(q) : InsertAt(q, p, e)[i + 1] = q[i]
<1> DEFINE u == SubSeq(q, 1, p - 1)
           v == SubSeq(q, p, Len(q))
           w == u \o <<e>>
<1>1. u \in Seq(S) /\ Len(u) = p - 1 /\ \A i \in 1..(p - 1) : u[i] = q[i]
  <2>1. \A i \in 1..(p - 1) : q[i] \in S
    OBVIOUS
  <2>2. /\ u \in Seq(S) /\ Len(u) = IF 1 <= p - 1 THEN (p - 1) - 1 + 1 ELSE 0
        /\ \A i \in 1..((p - 1) - 1 + 1) : u[i] = q[1 + i - 1]
    BY <2>1, SubSeqProperties
  <2> QED
    BY <2>2
<1>2. v \in Seq(S) /\ Len(v) = Len(q) - p + 1 /\ \A i \in 1..(Len(q) - p + 1) : v[i] = q[p + i - 1]
  <2>1. \A i \in p..Len(q) : q[i] \in S
    OBVIOUS
  <2>2. /\ v \in Seq(S) /\ Len(v) = IF p <= Len(q) THEN Len(q) - p + 1 ELSE 0
        /\ \A i \in 1..(Len(q) - p + 1) : v[i] = q[p + i - 1]
    BY <2>1, SubSeqProperties
  <2> QED
    BY <2>2
<1> HIDE DEF u, v
<1>3. <<e>> \in Seq(S) /\ Len(<<e>>) = 1 /\ <<e>>[1] = e
  OBVIOUS
<1>4. /\ w \in Seq(S) /\ Len(w) = p /\ w[p] = e
      /\ \A i \in 1..(p - 1) : w[i] = q[i]
  BY <1>1, <1>3, ConcatProperties
<1> HIDE DEF w
<1>5. /\ Len(w \o v) = Len(q) + 1
      /\ \A i \in 1..p : (w \o v)[i] = w[i]
      /\ \A i \in p..Len(q) : (w \o v)[i + 1] = q[i]
  <2>1. /\ Len(w \o v) = Len(w) + Len(v)
        /\ \A i \in 1..(Len(w) + Len(v)) : (w \o v)[i] = IF i <= Len(w) THEN w[i] ELSE v[i - Len(w)]
    BY <1>2, <1>4, ConcatProperties
  <2>2. Len(w) + Len(v) = Len(q) + 1
    BY <1>2, <1>4
  <2>3. \A i \in p..Len(q) : (i + 1) - p \in 1..(Len(q) - p + 1) /\ p + ((i + 1) - p) - 1 = i
    OBVIOUS
  <2> QED
    BY <1>2, <1>4, <2>1, <2>2, <2>3
<1>6. InsertAt(q, p, e) = w \o v
  BY DEF InsertAt, w, u, v
<1> QED
  BY <1>4, <1>5, <1>6

LEMMA RemovePlaces ==
  ASSUME NEW S, NEW q \in Seq(S), NEW e, Contains(q, e)
  PROVE  \E k \in 1..Len(q) :
           /\ q[k] = e /\ Len(RemoveFirst(q, e)) = Len(q) - 1
           /\ \A i \in 1..(k - 1) : RemoveFirst(q, e)[i] = q[i]
           /\ \A i \in k..(Len(q) - 1) : RemoveFirst(q, e)[i] = q[i + 1]
<1> DEFINE I == {i \in 1..Len(q) : q[i] = e}
<1>1. Min(I) \in I
  BY Len(q) \in Nat, MinIn DEF Contains
<1>2. RemoveFirst(q, e) = RemoveAt(q, Min(I))
  BY DEF RemoveFirst, SelectInSeq, Contains
<1>3. PICK k \in 1..Len(q) : k = Min(I) /\ q[k] = e
  BY <1>1
<1> DEFINE u == SubSeq(q, 1, k - 1)
           v == SubSeq(q, k + 1, Len(q))
<1>4. u \in Seq(S) /\ Len(u) = k - 1 /\ \A i \in 1..(k - 1) : u[i] = q[i]
  <2>1. \A i \in 1..(k - 1) : q[i] \in S
    OBVIOUS
  <2>2. /\ u \in Seq(S) /\ Len(u) = IF 1 <= k - 1 THEN (k - 1) - 1 + 1 ELSE 0
        /\ \A i \in 1..((k - 1) - 1 + 1) : u[i] = q[1 + i - 1]
    BY <2>1, SubSeqProperties
  <2> QED
    BY <2>2
<1>5. v \in Seq(S) /\ Len(v) = Len(q) - k /\ \A i \in 1..(Len(q) - k) : v[i] = q[k + i]
  <2>1. \A i \in (k + 1)..Len(q) : q[i] \in S
    OBVIOUS
  <2>2. /\ v \in Seq(S) /\ Len(v) = IF k + 1 <= Len(q) THEN Len(q) - (k + 1) + 1 ELSE 0
        /\ \A i \in 1..(Len(q) - (k + 1) + 1) : v[i] = q[k + 1 + i - 1]
    BY <2>1, SubSeqProperties
  <2> QED
    BY <2>2
<1> HIDE DEF u, v
<1>6. /\ Len(u \o v) = Len(q) - 1
      /\ \A i \in 1..(k - 1) : (u \o v)[i] = q[i]
      /\ \A i \in k..(Len(q) - 1) : (u \o v)[i] = q[i + 1]
  <2>1. /\ Len(u \o v) = Len(u) + Len(v)
        /\ \A i \in 1..(Len(u) + Len(v)) : (u \o v)[i] = IF i <= Len(u) THEN u[i] ELSE v[i - Len(u)]
    BY <1>4, <1>5, ConcatProperties
  <2>2. Len(u) + Len(v) = Len(q) - 1
    BY <1>4, <1>5
  <2>3. ASSUME NEW i \in k..(Len(q) - 1) PROVE (u \o v)[i] = q[i + 1]
    <3>1. i - (k - 1) \in 1..(Len(q) - k) /\ k + (i - (k - 1)) = i + 1
      OBVIOUS
    <3>2. v[i - (k - 1)] = q[k + (i - (k - 1))]
      BY <1>5, <3>1
    <3>3. (u \o v)[i] = v[i - (k - 1)]
      BY <1>4, <2>1, <2>2
    <3> QED
      BY <3>1, <3>2, <3>3
  <2>4. \A i \in 1..(k - 1) : (u \o v)[i] = q[i]
    BY <1>4, <2>1, <2>2
  <2> QED
    BY <2>1, <2>2, <2>3, <2>4
<1>7. RemoveFirst(q, e) = u \o v
  BY <1>2, <1>3 DEF RemoveAt, u, v
<1> QED
  BY <1>3, <1>6, <1>7

(* Every place of the new sequence has the element of an old place.        *)
LEMMA InsertBack ==
  ASSUME NEW S, NEW q \in Seq(S), NEW p \in 1..(Len(q) + 1), NEW e \in S,
         NEW n \in 1..Len(InsertAt(q, p, e))
  PROVE  \/ n = p /\ InsertAt(q, p, e)[n] = e
         \/ n # p /\ \E i \in 1..Len(q) : /\ InsertAt(q, p, e)[n] = q[i]
                                          /\ ((i = n /\ n < p) \/ (i = n - 1 /\ n > p))
<1> DEFINE w == InsertAt(q, p, e)
<1>1. /\ Len(w) = Len(q) + 1 /\ w[p] = e
      /\ \A i \in 1..(p - 1) : w[i] = q[i]
      /\ \A i \in p..Len(q) : w[i + 1] = q[i]
  BY InsertPlaces
<1> HIDE DEF w
<1>2. CASE n > p
  <2>1. n - 1 \in p..Len(q) /\ (n - 1) + 1 = n
    BY <1>1, <1>2 DEF w
  <2>2. w[(n - 1) + 1] = q[n - 1]
    BY <1>1, <2>1
  <2>3. PICK i \in 1..Len(q) : i = n - 1
    BY <2>1
  <2> QED
    BY <1>2, <2>1, <2>2, <2>3 DEF w
<1>3. CASE n < p
  <2>1. n \in 1..Len(q) /\ n \in 1..(p - 1)
    BY <1>3
  <2>2. PICK i \in 1..Len(q) : i = n
    BY <2>1
  <2> QED
    BY <1>1, <1>3, <2>1, <2>2 DEF w
<1> QED
  BY <1>1, <1>2, <1>3 DEF w

LEMMA RemoveBack ==
  ASSUME NEW S, NEW q \in Seq(S), NEW e, Contains(q, e)
  PROVE  \E k \in 1..Len(q) :
           /\ q[k] = e /\ Len(RemoveFirst(q, e)) = Len(q) - 1
           /\ \A n \in 1..(Len(q) - 1) : \E i \in 1..Len(q) :
                RemoveFirst(q, e)[n] = q[i] /\ ((i = n /\ n < k) \/ (i = n + 1 /\ n >= k))
<1>1. PICK k \in 1..Len(q) :
           /\ q[k] = e /\ Len(RemoveFirst(q, e)) = Len(q) - 1
           /\ \A i \in 1..(k - 1) : RemoveFirst(q, e)[i] = q[i]
           /\ \A i \in k..(Len(q) - 1) : RemoveFirst(q, e)[i] = q[i + 1]
  BY RemovePlaces
<1>2. Len(q) \in Nat
  OBVIOUS
<1>3. ASSUME NEW n \in 1..(Len(q) - 1)
      PROVE  \E i \in 1..Len(q) :
               RemoveFirst(q, e)[n] = q[i] /\ ((i = n /\ n < k) \/ (i = n + 1 /\ n >= k))
  <2>1. CASE n < k
    <3>1. PICK i \in 1..Len(q) : i = n
      BY <1>2
    <3> QED
      BY <1>1, <1>2, <2>1, <3>1
  <2>2. CASE n >= k
    <3>1. PICK i \in 1..Len(q) : i = n + 1
      BY <1>2
    <3> QED
      BY <1>1, <1>2, <2>2, <3>1
  <2> QED
    BY <1>2, <2>1, <2>2
<1> QED
  BY <1>1, <1>3

(* InsertUnique adds its rule and nothing else, and no rule twice.         *)
LEMMA InsertUniqueHas ==
  ASSUME NEW S, NEW q \in Seq(S), NEW p \in Nat \ {0}, NEW e \in S,
         Contains(q, e) \/ p <= Len(q) + 1
  PROVE  /\ \A x : Contains(InsertUnique(q, p, e), x) <=> Contains(q, x) \/ x = e
         /\ NoDup(q) => NoDup(InsertUnique(q, p, e))
<1>1. CASE Contains(q, e)
  BY <1>1 DEF InsertUnique
<1>2. CASE ~Contains(q, e)
  <2>1. p \in 1..(Len(q) + 1) /\ Len(q) \in Nat
    BY <1>2
  <2>2. PICK w : w = InsertAt(q, p, e)
    OBVIOUS
  <2>3. /\ Len(w) = Len(q) + 1 /\ w[p] = e
        /\ \A i \in 1..(p - 1) : w[i] = q[i]
        /\ \A i \in p..Len(q) : w[i + 1] = q[i]
    BY <2>1, <2>2, InsertPlaces
  <2>4. \A n \in 1..Len(w) :
          \/ n = p /\ w[n] = e
          \/ n # p /\ \E i \in 1..Len(q) : w[n] = q[i] /\ ((i = n /\ n < p) \/ (i = n - 1 /\ n > p))
    BY <2>1, <2>2, InsertBack
  <2>5. ASSUME NEW x, Contains(w, x) PROVE Contains(q, x) \/ x = e
    BY <2>4, <2>5 DEF Contains
  <2>6. Contains(w, e)
    BY <2>1, <2>3 DEF Contains
  <2>7. ASSUME NEW x, Contains(q, x) PROVE Contains(w, x)
    <3>1. PICK n \in 1..Len(q) : q[n] = x
      BY <2>7 DEF Contains
    <3>2. CASE n < p
      BY <2>1, <2>3, <3>1, <3>2 DEF Contains
    <3>3. CASE n >= p
      <4>1. w[n + 1] = x /\ n + 1 \in 1..Len(w)
        BY <2>1, <2>3, <3>1, <3>3
      <4> QED
        BY <4>1 DEF Contains
    <3> QED
      BY <2>1, <3>2, <3>3
  <2>8. ASSUME NoDup(q), NEW m \in 1..Len(w), NEW n \in 1..Len(w), w[m] = w[n] PROVE m = n
    <3>1. m = p <=> n = p
      BY <1>2, <2>4, <2>8 DEF Contains
    <3>2. CASE m # p /\ n # p
      <4>1. PICK i \in 1..Len(q) : q[i] = w[m] /\ ((i = m /\ m < p) \/ (i = m - 1 /\ m > p))
        BY <2>4, <3>2
      <4>2. PICK j \in 1..Len(q) : q[j] = w[n] /\ ((j = n /\ n < p) \/ (j = n - 1 /\ n > p))
        BY <2>4, <3>2
      <4>3. i = j
        BY <2>8, <4>1, <4>2 DEF NoDup
      <4> QED
        BY <2>1, <4>1, <4>2, <4>3
    <3> QED
      BY <3>1, <3>2
  <2>9. InsertUnique(q, p, e) = w
    BY <1>2, <2>2 DEF InsertUnique
  <2> QED
    BY <2>5, <2>6, <2>7, <2>8, <2>9 DEF NoDup
<1> QED
  BY <1>1, <1>2

(* Where no rule is there twice, RemoveFirst removes its rule altogether,  *)
(* and in any case nothing else.                                           *)
LEMMA RemoveFirstHas ==
  ASSUME NEW S, NEW q \in Seq(S), NEW e, Contains(q, e)
  PROVE  /\ \A x : x # e => (Contains(RemoveFirst(q, e), x) <=> Contains(q, x))
         /\ NoDup(q) => NoDup(RemoveFirst(q, e)) /\ ~Contains(RemoveFirst(q, e), e)
<1>1. PICK w : w = RemoveFirst(q, e)
  OBVIOUS
<1>2. PICK k \in 1..Len(q) :
           /\ q[k] = e /\ Len(w) = Len(q) - 1
           /\ \A i \in 1..(k - 1) : w[i] = q[i]
           /\ \A i \in k..(Len(q) - 1) : w[i] = q[i + 1]
  <2>1. \E k \in 1..Len(q) :
           /\ q[k] = e /\ Len(RemoveFirst(q, e)) = Len(q) - 1
           /\ \A i \in 1..(k - 1) : RemoveFirst(q, e)[i] = q[i]
           /\ \A i \in k..(Len(q) - 1) : RemoveFirst(q, e)[i] = q[i + 1]
    BY RemovePlaces
  <2> QED
    BY <1>1, <2>1, Zenon
<1>3. Len(q) \in Nat
  OBVIOUS
<1>4. ASSUME NEW x, Contains(w, x) PROVE Contains(q, x)
  <2>1. PICK n \in 1..(Len(q) - 1) : w[n] = x
    BY <1>2, <1>4 DEF Contains
  <2>2. n \in 1..Len(q) /\ n + 1 \in 1..Len(q)
    BY <1>3
  <2>3. x = q[n] \/ x = q[n + 1]
    BY <1>2, <2>1
  <2> QED
    BY <2>2, <2>3 DEF Contains
<1>5. ASSUME NEW x, x # e, Contains(q, x) PROVE Contains(w, x)
  <2>1. PICK n \in 1..Len(q) : q[n] = x
    BY <1>5 DEF Contains
  <2>2. CASE n < k
    <3>1. n \in 1..Len(w) /\ w[n] = x
      BY <1>2, <1>3, <2>1, <2>2
    <3> QED
      BY <3>1 DEF Contains
  <2>3. CASE n > k
    <3>1. n - 1 \in 1..Len(w) /\ w[n - 1] = q[(n - 1) + 1]
      BY <1>2, <1>3, <2>3
    <3>2. (n - 1) + 1 = n
      BY <1>3
    <3> QED
      BY <2>1, <3>1, <3>2 DEF Contains
  <2> QED
    BY <1>2, <1>3, <1>5, <2>1, <2>2, <2>3
<1>6. ASSUME NoDup(q) PROVE NoDup(w) /\ ~Contains(w, e)
  <2>1. ASSUME NEW n \in 1..Len(w)
        PROVE  \E i \in 1..Len(q) : q[i] = w[n] /\ i # k /\ ((i = n /\ n < k) \/ (i = n + 1 /\ n >= k))
    <3>1. CASE n < k
      <4>1. PICK i \in 1..Len(q) : i = n
        BY <1>2, <1>3
      <4> QED
        BY <1>2, <1>3, <3>1, <4>1
    <3>2. CASE n >= k
      <4>1. PICK i \in 1..Len(q) : i = n + 1
        BY <1>2, <1>3
      <4> QED
        BY <1>2, <1>3, <3>2, <4>1
    <3> QED
      BY <1>2, <1>3, <3>1, <3>2
  <2>2. ~Contains(w, e)
    BY <1>2, <1>6, <2>1 DEF Contains, NoDup
  <2>3. ASSUME NEW m \in 1..Len(w), NEW n \in 1..Len(w), w[m] = w[n] PROVE m = n
    <3>1. PICK i \in 1..Len(q) : q[i] = w[m] /\ ((i = m /\ m < k) \/ (i = m + 1 /\ m >= k))
      BY <2>1
    <3>2. PICK j \in 1..Len(q) : q[j] = w[n] /\ ((j = n /\ n < k) \/ (j = n + 1 /\ n >= k))
      BY <2>1
    <3>3. i = j
      BY <1>6, <2>3, <3>1, <3>2 DEF NoDup
    <3> QED
      BY <1>2, <1>3, <3>1, <3>2, <3>3
  <2> QED
    BY <2>2, <2>3 DEF NoDup
<1> QED
  BY <1>1, <1>4, <1>5, <1>6

(* Order is kept by an insertion that respects it, and by a removal.       *)
LEMMA InsertUniqueBefore ==
  ASSUME NEW S, NEW q \in Seq(S), NEW p \in Nat \ {0}, NEW e \in S,
         Contains(q, e) \/ p <= Len(q) + 1,
         NEW A, NEW B, A \cap B = {}, Before(q, A, B),
         e \in A => \A n \in 1..Len(q) : q[n] \in B => n >= p,
         e \in B => \A n \in 1..Len(q) : q[n] \in A => n < p
  PROVE  Before(InsertUnique(q, p, e), A, B)
<1>1. CASE Contains(q, e)
  BY <1>1 DEF InsertUnique
<1>2. CASE ~Contains(q, e)
  <2>1. p \in 1..(Len(q) + 1) /\ Len(q) \in Nat
    BY <1>2
  <2>2. PICK w : w = InsertAt(q, p, e)
    OBVIOUS
  <2>3. Len(w) = Len(q) + 1
    BY <2>1, <2>2, InsertPlaces
  <2>4. \A n \in 1..Len(w) :
          \/ n = p /\ w[n] = e
          \/ n # p /\ \E i \in 1..Len(q) : w[n] = q[i] /\ ((i = n /\ n < p) \/ (i = n - 1 /\ n > p))
    BY <2>1, <2>2, InsertBack
  <2>5. ASSUME NEW m \in 1..Len(w), NEW n \in 1..Len(w), w[m] \in A, w[n] \in B PROVE m < n
    <3>1. CASE m = p
      <4>1. e \in A /\ n # p
        BY <2>4, <2>5, <3>1
      <4>2. CASE n < p
        BY <2>1, <2>4, <2>5, <4>1, <4>2
      <4> QED
        BY <2>1, <3>1, <4>1, <4>2
    <3>2. CASE n = p /\ m # p
      <4>1. e \in B
        BY <2>4, <2>5, <3>2
      <4>2. CASE m > p
        <5>1. PICK i \in 1..Len(q) : q[i] \in A /\ i = m - 1
          BY <2>1, <2>4, <2>5, <4>2
        <5>2. i < p
          BY <4>1, <5>1
        <5> QED
          BY <2>1, <4>2, <5>1, <5>2
      <4> QED
        BY <2>1, <3>2, <4>2
    <3>3. CASE m # p /\ n # p
      <4>1. PICK i \in 1..Len(q) : q[i] \in A /\ ((i = m /\ m < p) \/ (i = m - 1 /\ m > p))
        BY <2>4, <2>5, <3>3
      <4>2. PICK j \in 1..Len(q) : q[j] \in B /\ ((j = n /\ n < p) \/ (j = n - 1 /\ n > p))
        BY <2>4, <2>5, <3>3
      <4>3. i < j
        BY <4>1, <4>2 DEF Before
      <4> QED
        BY <2>1, <4>1, <4>2, <4>3
    <3> QED
      BY <3>1, <3>2, <3>3
  <2>6. InsertUnique(q, p, e) = w
    BY <1>2, <2>2 DEF InsertUnique
  <2> QED
    BY <2>5, <2>6 DEF Before
<1> QED
  BY <1>1, <1>2

LEMMA RemoveFirstBefore ==
  ASSUME NEW S, NEW q \in Seq(S), NEW e, Contains(q, e), NEW A, NEW B, Before(q, A, B)
  PROVE  Before(RemoveFirst(q, e), A, B)
<1>1. PICK w : w = RemoveFirst(q, e)
  OBVIOUS
<1>2. PICK k \in 1..Len(q) :
           /\ q[k] = e /\ Len(w) = Len(q) - 1
           /\ \A n \in 1..(Len(q) - 1) : \E i \in 1..Len(q) :
                w[n] = q[i] /\ ((i = n /\ n < k) \/ (i = n + 1 /\ n >= k))
  <2>1. \E k \in 1..Len(q) :
           /\ q[k] = e /\ Len(RemoveFirst(q, e)) = Len(q) - 1
           /\ \A n \in 1..(Len(q) - 1) : \E i \in 1..Len(q) :
                RemoveFirst(q, e)[n] = q[i] /\ ((i = n /\ n < k) \/ (i = n + 1 /\ n >= k))
    BY RemoveBack
  <2> QED
    BY <1>1, <2>1, Zenon
<1>3. Len(q) \in Nat
  OBVIOUS
<1>4. ASSUME NEW n \in 1..Len(w)
      PROVE  \E i \in 1..Len(q) : q[i] = w[n] /\ ((i = n /\ n < k) \/ (i = n + 1 /\ n >= k))
  BY <1>2, <1>3
<1>5. ASSUME NEW m \in 1..Len(w), NEW n \in 1..Len(w), w[m] \in A, w[n] \in B PROVE m < n
  <2>1. PICK i \in 1..Len(q) : q[i] = w[m] /\ ((i = m /\ m < k) \/ (i = m + 1 /\ m >= k))
    BY <1>4
  <2>2. PICK j \in 1..Len(q) : q[j] = w[n] /\ ((j = n /\ n < k) \/ (j = n + 1 /\ n >= k))
    BY <1>4
  <2>3. i < j
    BY <1>5, <2>1, <2>2 DEF Before
  <2> QED
    BY <1>2, <1>3, <2>1, <2>2, <2>3
<1> QED
  BY <1>1, <1>5 DEF Before

-----------------------------------------------------------------------------
(* The scripts have their calls in the order that the invariant needs.     *)

LEMMA AnchorPlaces ==
  /\ ensurePrivateAnchor \in Seq(GoodCalls) /\ Len(ensurePrivateAnchor) = 4
  /\ ensurePrivateAnchor[1] = AnchorCall /\ ensurePrivateAnchor[2] = UnhookCall
  /\ ensurePrivateAnchor[3] = ListCall /\ ensurePrivateAnchor[4] = HookCall
<1>1. ensurePrivateAnchor = <<AnchorCall, UnhookCall, ListCall, HookCall>>
  BY DEF ensurePrivateAnchor, AnchorCall, UnhookCall, ListCall, HookCall
<1> QED
  BY <1>1, AnchorScript

LEMMA IsolationPlaces ==
  ASSUME NEW t \in Private
  PROVE  \E s \in Seq(GoodCalls) : \E h \in Nat :
           /\ s = EnsureTenantIsolation(t) /\ Len(s) = h /\ h >= 11
           /\ s[1] = NewCall(t) /\ s[2] = ClearCall(t)
           /\ s[3] = AnchorCall /\ s[4] = UnhookCall /\ s[5] = ListCall /\ s[6] = HookCall
           /\ s[7] = JumpCall(t, vx(t)) /\ s[8] = JumpCall(t, br(t))
           /\ s[9] = RuleCall(t, Egress(t, br(t))) /\ s[10] = RuleCall(t, Egress(t, vx(t)))
           /\ \A n \in 11..(h - 1) : \E d \in Ifaces(Default) : s[n] = RuleCall(t, Extra(d))
           /\ s[h] = RuleCall(t, DefaultDrop(t))
<1> DEFINE k1 == JumpCall(t, vx(t))
           k2 == JumpCall(t, br(t))
           k3 == RuleCall(t, Egress(t, br(t)))
           k4 == RuleCall(t, Egress(t, vx(t)))
           k5 == RuleCall(t, DefaultDrop(t))
           s1 == <<NewCall(t), ClearCall(t)>>
           s2 == ensurePrivateAnchor
           s3 == <<k1, k2, k3, k4>>
           s4 == [n \in DOMAIN defaultTenantIfaces |-> RuleCall(t, Extra(defaultTenantIfaces[n]))]
           s5 == <<k5>>
<1>1. /\ br(t) \in Ifaces(t) /\ vx(t) \in Ifaces(t)
      /\ br(Default) \in Ifaces(Default) /\ vx(Default) \in Ifaces(Default)
      /\ ChainOf[t] \in Chains \ {FORWARD} /\ Anchor \in Chains
  BY ChainsKnown DEF Ifaces, Tenants
<1>2. NewCall(t) \in GoodCalls /\ ClearCall(t) \in GoodCalls
  BY <1>1, GoodCall DEF NewCall, ClearCall
<1>3. k1 \in GoodCalls /\ k2 \in GoodCalls /\ k3 \in GoodCalls /\ k4 \in GoodCalls /\ k5 \in GoodCalls
  BY <1>1, GoodCall, PrivateRules DEF JumpCall, RuleCall
<1>4. EnsureTenantIsolation(t) = (((s1 \o s2) \o s3) \o s4) \o s5
  BY DEF EnsureTenantIsolation, EnsureTenantChains, NewCall, ClearCall, JumpCall, RuleCall
<1> HIDE DEF k1, k2, k3, k4, k5
<1>5. s1 \in Seq(GoodCalls) /\ Len(s1) = 2 /\ s1[1] = NewCall(t) /\ s1[2] = ClearCall(t)
  BY <1>2
<1>6. s3 \in Seq(GoodCalls) /\ Len(s3) = 4 /\ s3[1] = k1 /\ s3[2] = k2 /\ s3[3] = k3 /\ s3[4] = k4
  BY <1>3
<1>7. s5 \in Seq(GoodCalls) /\ Len(s5) = 1 /\ s5[1] = k5
  BY <1>3
<1>8. /\ s4 \in Seq(GoodCalls)
      /\ \A n \in 1..Len(s4) : \E d \in Ifaces(Default) : s4[n] = RuleCall(t, Extra(d))
  <2>1. defaultTenantIfaces \in Seq(Ifaces(Default))
    BY <1>1 DEF defaultTenantIfaces
  <2>2. DOMAIN defaultTenantIfaces = 1..Len(defaultTenantIfaces) /\ Len(defaultTenantIfaces) \in Nat
    BY <2>1
  <2>3. \A n \in 1..Len(defaultTenantIfaces) : RuleCall(t, Extra(defaultTenantIfaces[n])) \in GoodCalls
    BY <1>1, <2>1, GoodCall, PrivateRules DEF RuleCall
  <2>4. s4 \in Seq(GoodCalls) /\ Len(s4) = Len(defaultTenantIfaces)
    BY <2>2, <2>3
  <2> QED
    BY <2>1, <2>2, <2>4
<1> HIDE DEF s1, s2, s3, s4, s5
<1>9. s2 \in Seq(GoodCalls) /\ Len(s2) = 4
  BY AnchorPlaces DEF s2
<1>10. PICK a : a = s1 \o s2
  OBVIOUS
<1>11. /\ a \in Seq(GoodCalls) /\ Len(a) = 6
       /\ \A n \in 1..2 : a[n] = s1[n]
       /\ \A n \in 1..4 : a[2 + n] = s2[n]
  <2>1. s1 \in Seq(GoodCalls) /\ s2 \in Seq(GoodCalls)
    BY <1>5, <1>9
  <2>2. /\ s1 \o s2 \in Seq(GoodCalls) /\ Len(s1 \o s2) = Len(s1) + Len(s2)
        /\ \A n \in 1..Len(s1) : (s1 \o s2)[n] = s1[n]
        /\ \A n \in 1..Len(s2) : (s1 \o s2)[Len(s1) + n] = s2[n]
    BY ONLY <2>1, ConcatAt
  <2> QED
    BY <1>5, <1>9, <1>10, <2>2
<1>12. PICK b : b = a \o s3
  OBVIOUS
<1>13. /\ b \in Seq(GoodCalls) /\ Len(b) = 10
       /\ \A n \in 1..6 : b[n] = a[n]
       /\ \A n \in 1..4 : b[6 + n] = s3[n]
  <2>1. a \in Seq(GoodCalls) /\ s3 \in Seq(GoodCalls)
    BY <1>6, <1>11
  <2>2. /\ a \o s3 \in Seq(GoodCalls) /\ Len(a \o s3) = Len(a) + Len(s3)
        /\ \A n \in 1..Len(a) : (a \o s3)[n] = a[n]
        /\ \A n \in 1..Len(s3) : (a \o s3)[Len(a) + n] = s3[n]
    BY ONLY <2>1, ConcatAt
  <2>3. Len(a) = 6 /\ Len(s3) = 4
    BY <1>6, <1>11
  <2>4. /\ b \in Seq(GoodCalls) /\ Len(b) = Len(a) + Len(s3)
        /\ \A n \in 1..Len(a) : b[n] = a[n]
        /\ \A n \in 1..Len(s3) : b[Len(a) + n] = s3[n]
    BY ONLY <1>12, <2>2, Zenon
  <2> QED
    BY ONLY <2>3, <2>4
<1>14. PICK g \in Nat : g = Len(s4)
  BY <1>8
<1>15. PICK c : c = b \o s4
  OBVIOUS
<1>16. /\ c \in Seq(GoodCalls) /\ Len(c) = 10 + g
       /\ \A n \in 1..10 : c[n] = b[n]
       /\ \A n \in 1..g : c[10 + n] = s4[n]
  <2>1. b \in Seq(GoodCalls) /\ s4 \in Seq(GoodCalls)
    BY <1>8, <1>13
  <2>2. /\ b \o s4 \in Seq(GoodCalls) /\ Len(b \o s4) = Len(b) + Len(s4)
        /\ \A n \in 1..Len(b) : (b \o s4)[n] = b[n]
        /\ \A n \in 1..Len(s4) : (b \o s4)[Len(b) + n] = s4[n]
    BY ONLY <2>1, ConcatAt
  <2> QED
    BY <1>13, <1>14, <1>15, <2>2
<1>17. PICK s : s = c \o s5
  OBVIOUS
<1>18. /\ s \in Seq(GoodCalls) /\ Len(s) = 10 + g + 1
       /\ \A n \in 1..(10 + g) : s[n] = c[n]
       /\ \A n \in 1..1 : s[10 + g + n] = s5[n]
  <2>1. c \in Seq(GoodCalls) /\ s5 \in Seq(GoodCalls)
    BY <1>7, <1>16
  <2>2. /\ c \o s5 \in Seq(GoodCalls) /\ Len(c \o s5) = Len(c) + Len(s5)
        /\ \A n \in 1..Len(c) : (c \o s5)[n] = c[n]
        /\ \A n \in 1..Len(s5) : (c \o s5)[Len(c) + n] = s5[n]
    BY ONLY <2>1, ConcatAt
  <2> QED
    BY <1>7, <1>14, <1>16, <1>17, <2>2
<1>19. /\ s[1] = NewCall(t) /\ s[2] = ClearCall(t)
  <2>1. s[1] = s1[1] /\ s[2] = s1[2]
    BY <1>11, <1>13, <1>14, <1>16, <1>18
  <2> QED
    BY <1>5, <2>1
<1>20. s[3] = AnchorCall /\ s[4] = UnhookCall /\ s[5] = ListCall /\ s[6] = HookCall
  <2>1. a[2 + 1] = s2[1] /\ a[2 + 2] = s2[2] /\ a[2 + 3] = s2[3] /\ a[2 + 4] = s2[4]
    BY <1>11
  <2>2. s[3] = a[3] /\ s[4] = a[4] /\ s[5] = a[5] /\ s[6] = a[6]
    BY <1>13, <1>14, <1>16, <1>18
  <2> QED
    BY <2>1, <2>2, AnchorPlaces DEF s2
<1>21. s[7] = k1 /\ s[8] = k2 /\ s[9] = k3 /\ s[10] = k4
  <2>1. b[6 + 1] = s3[1] /\ b[6 + 2] = s3[2] /\ b[6 + 3] = s3[3] /\ b[6 + 4] = s3[4]
    BY <1>13
  <2>2. s[7] = b[7] /\ s[8] = b[8] /\ s[9] = b[9] /\ s[10] = b[10]
    BY <1>14, <1>16, <1>18
  <2> QED
    BY <1>6, <2>1, <2>2
<1>22. ASSUME NEW n \in 11..(10 + g)
       PROVE  \E d \in Ifaces(Default) : s[n] = RuleCall(t, Extra(d))
  <2>1. PICK m \in 1..g : n = 10 + m
    <3>1. n - 10 \in 1..g /\ n = 10 + (n - 10)
      BY <1>14
    <3> QED
      BY <3>1
  <2>2. s[n] = c[n] /\ c[10 + m] = s4[m]
    BY <1>14, <1>16, <1>18
  <2> QED
    BY <1>8, <1>14, <2>1, <2>2
<1>23. s[10 + g + 1] = k5
  BY <1>7, <1>18
<1>24. s = EnsureTenantIsolation(t)
  BY <1>4, <1>10, <1>12, <1>15, <1>17
<1>25. PICK h \in Nat : h = 10 + g + 1
  BY <1>14
<1>26. h >= 11 /\ h - 1 = 10 + g
  BY <1>14, <1>25
<1> QED
  BY <1>18, <1>19, <1>20, <1>21, <1>22, <1>23, <1>24, <1>25, <1>26 DEF k1, k2, k3, k4, k5

LEMMA CallFields ==
  /\ \A t : /\ NewCall(t).fn = "NewChain" /\ NewCall(t).chain = ChainOf[t] /\ NewCall(t).tolerated
            /\ ClearCall(t).fn = "ClearChain" /\ ClearCall(t).chain = ChainOf[t]
            /\ ~ClearCall(t).tolerated
            /\ DeleteCall(t).fn = "DeleteChain" /\ DeleteCall(t).chain = ChainOf[t]
  /\ \A t, i : /\ JumpCall(t, i).fn = "AppendUnique" /\ JumpCall(t, i).chain = Anchor
               /\ JumpCall(t, i).rule = Ingress(t, i) /\ ~JumpCall(t, i).tolerated
               /\ UnjumpCall(t, i).fn = "Delete" /\ UnjumpCall(t, i).chain = Anchor
               /\ UnjumpCall(t, i).rule = Ingress(t, i)
  /\ \A t, r : /\ RuleCall(t, r).fn = "AppendUnique" /\ RuleCall(t, r).chain = ChainOf[t]
               /\ RuleCall(t, r).rule = r /\ ~RuleCall(t, r).tolerated
  /\ \A r : /\ TopCall(r).fn = "InsertTop" /\ TopCall(r).chain = FORWARD /\ TopCall(r).rule = r
            /\ ~TopCall(r).tolerated
  /\ AnchorCall.fn = "EnsureChain" /\ AnchorCall.chain = Anchor /\ ~AnchorCall.tolerated
  /\ UnhookCall.fn = "Delete" /\ UnhookCall.chain = FORWARD /\ UnhookCall.rule = AnchorRule
  /\ UnhookCall.tolerated
  /\ ListCall.fn = "List" /\ ListCall.chain = FORWARD /\ ~ListCall.tolerated
  /\ HookCall.fn = "InsertAnchor" /\ HookCall.chain = FORWARD /\ HookCall.rule = AnchorRule
  /\ ~HookCall.tolerated
BY DEF NewCall, ClearCall, DeleteCall, JumpCall, UnjumpCall, RuleCall, TopCall, AnchorCall,
       UnhookCall, ListCall, HookCall, Call, Tolerated

LEMMA DropApart ==
  ASSUME NEW t \in Private, NEW i
  PROVE  RuleCall(t, Egress(t, i)) # RuleCall(t, DefaultDrop(t))
         /\ RuleCall(t, Extra(i)) # RuleCall(t, DefaultDrop(t))
         /\ JumpCall(t, i) # RuleCall(t, DefaultDrop(t))
<1>1. Egress(t, i) # DefaultDrop(t) /\ Extra(i) # DefaultDrop(t)
  BY DEF Egress, Extra, DefaultDrop, Rule
<1>2. ChainOf[t] # Anchor
  BY ConstantsAssumption DEF Tenants
<1> QED
  BY <1>1, <1>2, CallFields

LEMMA IsolationInOrder ==
  ASSUME NEW t \in Private
  PROVE  EnsureTodo(t, EnsureTenantIsolation(t))
<1>1. PICK s \in Seq(GoodCalls), h \in Nat :
           /\ s = EnsureTenantIsolation(t) /\ Len(s) = h /\ h >= 11
           /\ s[1] = NewCall(t) /\ s[2] = ClearCall(t)
           /\ s[3] = AnchorCall /\ s[4] = UnhookCall /\ s[5] = ListCall /\ s[6] = HookCall
           /\ s[7] = JumpCall(t, vx(t)) /\ s[8] = JumpCall(t, br(t))
           /\ s[9] = RuleCall(t, Egress(t, br(t))) /\ s[10] = RuleCall(t, Egress(t, vx(t)))
           /\ \A n \in 11..(h - 1) : \E d \in Ifaces(Default) : s[n] = RuleCall(t, Extra(d))
           /\ s[h] = RuleCall(t, DefaultDrop(t))
  BY IsolationPlaces
<1>2. t # Default
  BY ConstantsAssumption
<1>3. ASSUME NEW n \in 7..h
      PROVE  s[n].fn = "AppendUnique" /\ s[n] \notin {AnchorCall, ListCall, HookCall}
  <2>1. CASE n \in 7..10
    BY <1>1, <2>1, CallFields
  <2>2. CASE n \in 11..(h - 1)
    BY <1>1, <2>2, CallFields
  <2>3. CASE n = h
    BY <1>1, <2>3, CallFields
  <2> QED
    BY <1>1, <2>1, <2>2, <2>3
<1>4. ASSUME NEW n \in 7..h PROVE ~Later(s, n, HookCall)
  BY <1>1, <1>3 DEF Later
<1>5. /\ Later(s, 4, HookCall) /\ Later(s, 4, ListCall)
      /\ \A k \in {AnchorCall, ListCall, HookCall} : ~Later(s, 6, k)
  BY <1>1, <1>3 DEF Later
<1>6. ASSUME NEW o \in Ifaces(t) PROVE Later(s, 2, RuleCall(t, Egress(t, o)))
  BY <1>1 DEF Later, Ifaces
<1>7. ASSUME NEW n \in 1..h PROVE s[n] \in EnsureCalls(t)
  <2>1. br(t) \in Ifaces(t) /\ vx(t) \in Ifaces(t)
    BY DEF Ifaces
  <2>2. CASE n \in 1..6
    BY <1>1, <1>2, <2>2 DEF EnsureCalls
  <2>3. CASE n \in 7..8
    BY <1>1, <1>2, <2>1, <2>3 DEF EnsureCalls
  <2>4. CASE n \in 9..10
    <3>1. Egress(t, br(t)) \in TenantRules(t) /\ Egress(t, vx(t)) \in TenantRules(t)
      BY <2>1 DEF TenantRules
    <3> QED
      BY <1>1, <1>2, <2>4, <3>1 DEF EnsureCalls
  <2>5. CASE n \in 11..(h - 1)
    <3>1. PICK d \in Ifaces(Default) : s[n] = RuleCall(t, Extra(d))
      BY <1>1, <2>5
    <3>2. Extra(d) \in TenantRules(t)
      BY DEF TenantRules
    <3> QED
      BY <1>2, <3>1, <3>2 DEF EnsureCalls
  <2>6. CASE n = h
    <3>1. DefaultDrop(t) \in TenantRules(t)
      BY DEF TenantRules
    <3> QED
      BY <1>1, <1>2, <2>6, <3>1 DEF EnsureCalls
  <2> QED
    BY <1>1, <2>2, <2>3, <2>4, <2>5, <2>6
<1>8. ASSUME NEW n \in 1..h, s[n] = RuleCall(t, DefaultDrop(t)) PROVE n = h
  <2>1. n \notin 1..6
    BY <1>1, <1>8, CallFields
  <2>2. n \notin 7..10
    BY <1>1, <1>8, DropApart
  <2>3. n \notin 11..(h - 1)
    BY <1>1, <1>8, DropApart
  <2> QED
    BY <1>1, <2>1, <2>2, <2>3
<1>9. ASSUME NEW n \in 1..h PROVE InPlace(t, s, n)
  <2>1. CASE n \in 7..h
    BY <1>1, <1>3, <1>4, <1>7, <1>8, <2>1 DEF InPlace
  <2>2. CASE n \in 1..6
    <3>1. s[n].fn # "AppendUnique" /\ s[n].fn # "InsertTop"
      BY <1>1, <2>2, CallFields
    <3>2. s[n].fn = "Delete" => n = 4
      BY <1>1, <2>2, CallFields
    <3>3. s[n].fn = "ClearChain" => n = 2
      BY <1>1, <2>2, CallFields
    <3>4. s[n].fn = "InsertAnchor" => n = 6
      BY <1>1, <2>2, CallFields
    <3> QED
      BY <1>1, <1>5, <1>6, <1>7, <1>8, <3>1, <3>2, <3>3, <3>4 DEF InPlace
  <2> QED
    BY <1>1, <2>1, <2>2
<1> QED
  BY <1>1, <1>9 DEF EnsureTodo

LEMMA DefaultPlaces ==
  \E s \in Seq(GoodCalls) :
    /\ s = EnsureDefaultTenant /\ Len(s) = 8
    /\ s[1] = TopCall(DefaultEgress(vx(Default))) /\ s[2] = TopCall(DefaultEgress(br(Default)))
    /\ s[3] = TopCall(DefaultIngress(vx(Default))) /\ s[4] = TopCall(DefaultIngress(br(Default)))
    /\ s[5] = AnchorCall /\ s[6] = UnhookCall /\ s[7] = ListCall /\ s[8] = HookCall
<1> DEFINE k1 == TopCall(DefaultEgress(vx(Default)))
           k2 == TopCall(DefaultEgress(br(Default)))
           k3 == TopCall(DefaultIngress(vx(Default)))
           k4 == TopCall(DefaultIngress(br(Default)))
           u == <<k1, k2, k3, k4>>
           v == ensurePrivateAnchor
<1>1. br(Default) \in Ifaces(Default) /\ vx(Default) \in Ifaces(Default)
  BY DEF Ifaces
<1>2. k1 \in GoodCalls /\ k2 \in GoodCalls /\ k3 \in GoodCalls /\ k4 \in GoodCalls
  BY <1>1, GoodCall, ForwardRules DEF TopCall
<1>3. EnsureDefaultTenant = u \o v
  BY DEF EnsureDefaultTenant, TopCall
<1> HIDE DEF k1, k2, k3, k4
<1>4. u \in Seq(GoodCalls) /\ Len(u) = 4 /\ u[1] = k1 /\ u[2] = k2 /\ u[3] = k3 /\ u[4] = k4
  BY <1>2
<1> HIDE DEF u, v
<1>5. v \in Seq(GoodCalls) /\ Len(v) = 4
  BY AnchorPlaces DEF v
<1>6. u \in Seq(GoodCalls) /\ v \in Seq(GoodCalls)
  BY <1>4, <1>5
<1>7. /\ u \o v \in Seq(GoodCalls) /\ Len(u \o v) = Len(u) + Len(v)
      /\ \A n \in 1..Len(u) : (u \o v)[n] = u[n]
      /\ \A n \in 1..Len(v) : (u \o v)[Len(u) + n] = v[n]
  BY ONLY <1>6, ConcatAt
<1>8. PICK s : s = u \o v
  OBVIOUS
<1>9. /\ s \in Seq(GoodCalls) /\ Len(s) = Len(u) + Len(v)
      /\ \A n \in 1..Len(u) : s[n] = u[n]
      /\ \A n \in 1..Len(v) : s[Len(u) + n] = v[n]
  BY ONLY <1>7, <1>8, Zenon
<1>10. /\ s \in Seq(GoodCalls) /\ Len(s) = 8
       /\ \A n \in 1..4 : s[n] = u[n]
       /\ \A n \in 1..4 : s[4 + n] = v[n]
  <2>1. Len(u) = 4 /\ Len(v) = 4
    BY <1>4, <1>5
  <2> QED
    BY ONLY <1>9, <2>1
<1>11. s[4 + 1] = v[1] /\ s[4 + 2] = v[2] /\ s[4 + 3] = v[3] /\ s[4 + 4] = v[4]
  BY <1>10
<1>12. s[5] = AnchorCall /\ s[6] = UnhookCall /\ s[7] = ListCall /\ s[8] = HookCall
  BY <1>11, AnchorPlaces DEF v
<1>13. s[1] = k1 /\ s[2] = k2 /\ s[3] = k3 /\ s[4] = k4
  BY <1>4, <1>10
<1> QED
  BY <1>3, <1>8, <1>10, <1>12, <1>13 DEF k1, k2, k3, k4

LEMMA DefaultInOrder ==
  EnsureTodo(Default, EnsureDefaultTenant)
<1>1. PICK s \in Seq(GoodCalls) :
    /\ s = EnsureDefaultTenant /\ Len(s) = 8
    /\ s[1] = TopCall(DefaultEgress(vx(Default))) /\ s[2] = TopCall(DefaultEgress(br(Default)))
    /\ s[3] = TopCall(DefaultIngress(vx(Default))) /\ s[4] = TopCall(DefaultIngress(br(Default)))
    /\ s[5] = AnchorCall /\ s[6] = UnhookCall /\ s[7] = ListCall /\ s[8] = HookCall
  BY DefaultPlaces
<1>2. ASSUME NEW n \in 1..4 PROVE \E r \in DefaultRules : s[n] = TopCall(r)
  <2>1. br(Default) \in Ifaces(Default) /\ vx(Default) \in Ifaces(Default)
    BY DEF Ifaces
  <2>2. /\ DefaultEgress(vx(Default)) \in DefaultRules /\ DefaultEgress(br(Default)) \in DefaultRules
        /\ DefaultIngress(vx(Default)) \in DefaultRules /\ DefaultIngress(br(Default)) \in DefaultRules
    BY <2>1, Zenon DEF DefaultRules
  <2>3. n = 1 \/ n = 2 \/ n = 3 \/ n = 4
    OBVIOUS
  <2> QED
    BY <1>1, <2>2, <2>3
<1>3. ASSUME NEW n \in 1..4 PROVE s[n].fn = "InsertTop" /\ s[n] \in EnsureCalls(Default)
  <2>1. PICK r \in DefaultRules : s[n] = TopCall(r)
    BY <1>2
  <2> QED
    BY <2>1, CallFields DEF EnsureCalls
<1>4. ASSUME NEW n \in 5..8
      PROVE  /\ s[n].fn \notin {"ClearChain", "AppendUnique", "InsertTop"}
             /\ s[n].fn = "Delete" => n = 6
             /\ s[n].fn = "InsertAnchor" => n = 8
             /\ s[n] \in EnsureCalls(Default)
  BY <1>1, CallFields DEF EnsureCalls
<1>5. /\ Later(s, 6, HookCall) /\ Later(s, 6, ListCall) /\ \A n \in 1..4 : Later(s, n, ListCall)
      /\ \A k : ~Later(s, 8, k)
  BY <1>1 DEF Later
<1>6. RuleCall(Default, DefaultDrop(Default)).fn = "AppendUnique"
  BY CallFields
<1>7. ASSUME NEW n \in 1..8 PROVE InPlace(Default, s, n)
  <2>1. CASE n \in 1..4
    BY <1>3, <1>5, <1>6, <2>1 DEF InPlace
  <2>2. CASE n \in 5..8
    BY <1>4, <1>5, <1>6, <2>2 DEF InPlace
  <2> QED
    BY <2>1, <2>2
<1> QED
  BY <1>1, <1>7 DEF EnsureTodo

(* What is left of a script in order is in order.                          *)
LEMMA TailInOrder ==
  ASSUME NEW S, NEW s \in Seq(S), Len(s) > 1, NEW t, EnsureTodo(t, s)
  PROVE  EnsureTodo(t, Tail(s))
<1>1. /\ Len(s) \in Nat /\ Len(Tail(s)) = Len(s) - 1
      /\ \A n \in 1..(Len(s) - 1) : Tail(s)[n] = s[n + 1]
  OBVIOUS
<1>2. PICK u : u = Tail(s)
  OBVIOUS
<1>3. ASSUME NEW n \in 1..Len(u), NEW k PROVE Later(u, n, k) <=> Later(s, n + 1, k)
  <2>1. ASSUME NEW m \in (n + 1)..Len(u), u[m] = k PROVE Later(s, n + 1, k)
    <3>1. m + 1 \in ((n + 1) + 1)..Len(s) /\ s[m + 1] = k
      BY <1>1, <1>2, <2>1
    <3> QED
      BY <3>1 DEF Later
  <2>2. ASSUME NEW m \in ((n + 1) + 1)..Len(s), s[m] = k PROVE Later(u, n, k)
    <3>1. m - 1 \in (n + 1)..Len(u) /\ (m - 1) + 1 = m /\ m - 1 \in 1..(Len(s) - 1)
      BY <1>1, <1>2
    <3>2. u[m - 1] = s[(m - 1) + 1]
      BY <1>1, <1>2, <3>1
    <3> QED
      BY <2>2, <3>1, <3>2 DEF Later
  <2> QED
    BY <2>1, <2>2 DEF Later
<1>4. ASSUME NEW n \in 1..Len(u) PROVE InPlace(t, u, n)
  <2>1. n + 1 \in 1..Len(s) /\ u[n] = s[n + 1] /\ (n + 1 = Len(s) => n = Len(u))
    BY <1>1, <1>2
  <2>2. InPlace(t, s, n + 1)
    BY <2>1 DEF EnsureTodo
  <2> QED
    BY <1>3, <2>1, <2>2 DEF InPlace
<1> QED
  BY <1>2, <1>4 DEF EnsureTodo

-----------------------------------------------------------------------------
(* The calls of EnsureTenant.                                              *)

LEMMA EnsureCallKinds ==
  ASSUME NEW t \in Tenants, NEW k \in EnsureCalls(t)
  PROVE  /\ \/ k.chain = FORWARD /\ k.fn \in {"Delete", "List", "InsertAnchor", "InsertTop"}
            \/ k.chain = Anchor /\ k.fn \in {"EnsureChain", "AppendUnique"}
            \/ t \in Private /\ k \in {NewCall(t), ClearCall(t)}
            \/ t \in Private /\ \E r \in TenantRules(t) : k = RuleCall(t, r)
         /\ k.tolerated => k \in {NewCall(t), UnhookCall}
<1>1. CASE k \in {AnchorCall, UnhookCall, ListCall, HookCall}
  BY <1>1, CallFields
<1>2. CASE t = Default /\ \E r \in DefaultRules : k = TopCall(r)
  BY <1>2, CallFields
<1>3. CASE t # Default
  <2>1. t \in Private
    BY <1>3 DEF Tenants
  <2>2. CASE k \in {NewCall(t), ClearCall(t)}
    BY <2>1, <2>2, CallFields
  <2>3. CASE \E i \in Ifaces(t) : k = JumpCall(t, i)
    <3>1. PICK i \in Ifaces(t) : k = JumpCall(t, i)
      BY <2>3
    <3>2. k.fn = "AppendUnique" /\ k.chain = Anchor /\ ~k.tolerated
      BY <3>1 DEF JumpCall, Call
    <3> QED
      BY <3>2
  <2>4. CASE \E r \in TenantRules(t) : k = RuleCall(t, r)
    <3>1. PICK r \in TenantRules(t) : k = RuleCall(t, r)
      BY <2>4
    <3>2. ~k.tolerated
      BY <3>1, CallFields
    <3> QED
      BY <2>1, <3>1, <3>2
  <2> QED
    BY <1>1, <1>3, <2>2, <2>3, <2>4 DEF EnsureCalls
<1> QED
  BY <1>1, <1>2, <1>3 DEF EnsureCalls

LEMMA TailHas ==
  ASSUME NEW S, NEW s \in Seq(S), s # <<>>
  PROVE  \A x : Contains(s, x) <=> x = Head(s) \/ Contains(Tail(s), x)
<1>1. /\ Len(s) \in Nat \ {0} /\ Len(Tail(s)) = Len(s) - 1 /\ Head(s) = s[1]
      /\ \A n \in 1..(Len(s) - 1) : Tail(s)[n] = s[n + 1]
  OBVIOUS
<1>2. PICK u : u = Tail(s)
  OBVIOUS
<1>3. ASSUME NEW x, Contains(s, x), x # s[1] PROVE Contains(u, x)
  <2>1. PICK n \in 1..Len(s) : s[n] = x
    BY <1>3 DEF Contains
  <2>2. n # 1 /\ Len(u) = Len(s) - 1
    BY <1>1, <1>2, <1>3, <2>1
  <2>3. PICK m \in 1..(Len(s) - 1) : n = m + 1
    <3>1. n - 1 \in 1..(Len(s) - 1) /\ n = (n - 1) + 1
      BY <1>1, <2>2
    <3> QED
      BY <3>1
  <2>4. u[m] = s[m + 1]
    BY <1>1, <1>2
  <2> QED
    BY <2>1, <2>2, <2>3, <2>4 DEF Contains
<1>4. ASSUME NEW x, Contains(u, x) PROVE Contains(s, x)
  <2>1. PICK n \in 1..Len(u) : u[n] = x
    BY <1>4 DEF Contains
  <2>2. n + 1 \in 1..Len(s) /\ s[n + 1] = x
    BY <1>1, <1>2, <2>1
  <2> QED
    BY <2>2 DEF Contains
<1>5. Contains(s, s[1])
  BY <1>1 DEF Contains
<1> QED
  BY <1>1, <1>2, <1>3, <1>4, <1>5

LEMMA ExecuteRules ==
  ASSUME NEW k, Execute(k), NEW c \in Chains
  PROVE  /\ rules'[c] = RulesAfter(k, c)
         /\ c # k.chain => rules'[c] = rules[c]
         /\ k.fn \in {"Sysctl", "ChangePolicy", "Masquerade", "NewChain", "EnsureChain", "List"} =>
              rules'[c] = rules[c]
         /\ k.fn # "DeleteChain" => made \subseteq made'
<1>1. rules'[c] = RulesAfter(k, c)
  BY DEF Execute
<1> QED
  BY <1>1 DEF RulesAfter, Execute

(* What calls do to the anchor.                                            *)
LEMMA ExecuteAnchor ==
  ASSUME TableOK, NoDup(rules[Anchor]), NEW k \in GoodCalls, Possible(k), Execute(k),
         k.chain = Anchor => k.fn \in {"EnsureChain", "AppendUnique", "Delete"}
  PROVE  /\ NoDup(rules'[Anchor])
         /\ \A x : Contains(rules'[Anchor], x) <=>
              IF k.chain = Anchor /\ k.fn = "AppendUnique" THEN Contains(rules[Anchor], x) \/ x = k.rule
              ELSE IF k.chain = Anchor /\ k.fn = "Delete" THEN Contains(rules[Anchor], x) /\ x # k.rule
              ELSE Contains(rules[Anchor], x)
<1> DEFINE q == rules[Anchor]
<1>1. Anchor \in Chains /\ q \in Seq(AllowedIn(Anchor)) /\ Len(q) \in Nat
  BY ChainsKnown DEF TableOK
<1>2. CASE k.chain # Anchor \/ k.fn = "EnsureChain"
  <2>1. rules'[Anchor] = q
    BY <1>1, <1>2, ExecuteRules
  <2> QED
    BY <1>2, <2>1
<1>3. CASE k.chain = Anchor /\ k.fn = "AppendUnique"
  <2>1. rules'[Anchor] = InsertUnique(q, Len(q) + 1, k.rule)
    BY <1>1, <1>3, ExecuteRules DEF RulesAfter
  <2>2. k.rule \in AllowedIn(Anchor) /\ Len(q) + 1 \in Nat \ {0} /\ Len(q) + 1 <= Len(q) + 1
    BY <1>1, <1>3 DEF GoodCalls
  <2>3. /\ \A x : Contains(InsertUnique(q, Len(q) + 1, k.rule), x) <=> Contains(q, x) \/ x = k.rule
        /\ NoDup(InsertUnique(q, Len(q) + 1, k.rule))
    BY <1>1, <2>2, InsertUniqueHas
  <2> QED
    BY <1>3, <2>1, <2>3
<1>4. CASE k.chain = Anchor /\ k.fn = "Delete"
  <2>1. rules'[Anchor] = RemoveFirst(q, k.rule)
    BY <1>1, <1>4, ExecuteRules DEF RulesAfter
  <2>2. Contains(q, k.rule)
    BY <1>4 DEF Possible
  <2>3. /\ \A x : x # k.rule => (Contains(RemoveFirst(q, k.rule), x) <=> Contains(q, x))
        /\ NoDup(RemoveFirst(q, k.rule)) /\ ~Contains(RemoveFirst(q, k.rule), k.rule)
    BY <1>1, <2>2, RemoveFirstHas
  <2> QED
    BY <1>4, <2>1, <2>3
<1> QED
  BY <1>2, <1>3, <1>4

(* A call that is not about t leaves it whole.                             *)
LEMMA OthersWhole ==
  ASSUME TableOK, NoDup(rules[Anchor]), NEW k \in GoodCalls, Possible(k), Execute(k),
         NEW t \in Private, Whole(made, rules, t), k.chain # ChainOf[t],
         k.chain = Anchor => \/ k.fn \in {"EnsureChain", "AppendUnique"}
                             \/ k.fn = "Delete" /\ \A i \in Ifaces(t) : k.rule # Ingress(t, i)
  PROVE  Whole(made', rules', t)
<1>1. ChainOf[t] \in Chains
  BY ChainsKnown DEF Tenants
<1>2. rules'[ChainOf[t]] = rules[ChainOf[t]]
  BY <1>1, ExecuteRules
<1>3. ChainOf[t] \in made'
  BY DEF Execute, Whole
<1>4. \A i \in Ifaces(t) : Jump(rules', t, i)
  BY ExecuteAnchor DEF Whole, Jump
<1> QED
  BY <1>2, <1>3, <1>4 DEF Whole

LEMMA RulesApart ==
  ASSUME NEW t \in Private, NEW o, NEW p
  PROVE  /\ Egress(t, o) # DefaultDrop(t) /\ Extra(p) # DefaultDrop(t) /\ Egress(t, o) # Extra(p)
         /\ (RuleCall(t, Egress(t, o)) = RuleCall(t, Egress(t, p))) => Egress(t, o) = Egress(t, p)
         /\ RuleCall(t, Egress(t, o)) # RuleCall(t, Extra(p))
<1>1. t # None
  BY ConstantsAssumption DEF Tenants
<1>2. Egress(t, o) # DefaultDrop(t) /\ Extra(p) # DefaultDrop(t) /\ Egress(t, o) # Extra(p)
  BY <1>1 DEF Egress, Extra, DefaultDrop, Rule
<1> QED
  BY <1>2, CallFields

(* The chain of the tenant under way.                                      *)
LEMMA FillingStep ==
  ASSUME TableOK, NEW t \in Private, NEW s \in Seq(GoodCalls), s # <<>>, EnsureTodo(t, s),
         Filling(rules, s, t), NEW k, k = Head(s), k # ClearCall(t),
         \/ Possible(k) /\ Execute(k)
         \/ k.tolerated /\ rules' = rules
  PROVE  Filling(rules', Tail(s), t)
<1> DEFINE c == ChainOf[t]
           q == rules[c]
<1>1. c \in Chains /\ q \in Seq(AllowedIn(c)) /\ Len(q) \in Nat
  BY ChainsKnown DEF TableOK, Tenants
<1>2. /\ \A x : Contains(s, x) <=> x = k \/ Contains(Tail(s), x)
      /\ k \in GoodCalls /\ InPlace(t, s, 1) /\ k = s[1] /\ Len(s) \in Nat \ {0}
  BY TailHas DEF EnsureTodo
<1>3. k \in EnsureCalls(t)
  BY <1>2 DEF InPlace
<1>4. CASE rules'[c] = q /\ \A o \in Ifaces(t) : k # RuleCall(t, Egress(t, o))
  BY <1>2, <1>4 DEF Filling
<1>5. CASE k.chain \in {FORWARD, Anchor}
  <2>1. c \notin {FORWARD, Anchor}
    BY ConstantsAssumption DEF Tenants
  <2>2. rules'[c] = q
    BY <1>1, <1>5, <2>1, ExecuteRules
  <2>3. \A o \in Ifaces(t) : k # RuleCall(t, Egress(t, o))
    BY <1>5, <2>1, CallFields
  <2> QED
    BY <1>4, <2>2, <2>3
<1>6. CASE k = NewCall(t)
  <2>1. k.fn = "NewChain"
    BY <1>6, CallFields
  <2>2. rules'[c] = q
    BY <1>1, <2>1, ExecuteRules
  <2>3. \A o \in Ifaces(t) : k # RuleCall(t, Egress(t, o))
    BY <2>1, CallFields
  <2> QED
    BY <1>4, <2>2, <2>3
<1>7. ASSUME NEW r \in TenantRules(t), k = RuleCall(t, r)
      PROVE  Filling(rules', Tail(s), t)
  <2>1. k.fn = "AppendUnique" /\ k.chain = c /\ k.rule = r /\ ~k.tolerated
    BY <1>7, CallFields
  <2>2. r \in AllowedIn(c)
    BY <1>2, <2>1 DEF GoodCalls
  <2>3. PICK w : w = InsertUnique(q, Len(q) + 1, r)
    OBVIOUS
  <2>4. rules'[c] = w
    BY <1>1, <2>1, <2>3, ExecuteRules DEF RulesAfter
  <2>5. Len(q) + 1 \in Nat \ {0} /\ Len(q) + 1 <= Len(q) + 1
    BY <1>1
  <2>6. \A x : Contains(w, x) <=> Contains(q, x) \/ x = r
    BY <1>1, <2>2, <2>3, <2>5, InsertUniqueHas
  <2>7. ASSUME NEW o \in Ifaces(t)
        PROVE  Contains(w, Egress(t, o)) \/ Contains(Tail(s), RuleCall(t, Egress(t, o)))
    <3>1. CASE Contains(q, Egress(t, o))
      BY <2>6, <3>1
    <3>2. CASE RuleCall(t, Egress(t, o)) = k
      <4>1. Egress(t, o) = r
        BY <1>7, <3>2, CallFields
      <4> QED
        BY <2>6, <4>1
    <3> QED
      BY <1>2, <3>1, <3>2 DEF Filling
  <2>8. EgressRules(t) \cap {DefaultDrop(t)} = {}
    BY RulesApart DEF EgressRules
  <2>9. Ordered(t, w)
    <3>1. ASSUME r \in EgressRules(t), NEW n \in 1..Len(q), q[n] \in {DefaultDrop(t)}
          PROVE  n >= Len(q) + 1
      <4>1. PICK o \in Ifaces(t) : r = Egress(t, o)
        BY <3>1 DEF EgressRules
      <4>2. Contains(s, RuleCall(t, Egress(t, o))) /\ Contains(q, DefaultDrop(t))
        BY <1>2, <1>7, <3>1, <4>1 DEF Contains
      <4> QED
        BY <4>2 DEF Filling
    <3>2. ASSUME r \in {DefaultDrop(t)}, NEW n \in 1..Len(q), q[n] \in EgressRules(t)
          PROVE  n < Len(q) + 1
      BY <1>1
    <3>3. Before(q, EgressRules(t), {DefaultDrop(t)})
      BY DEF Filling, Ordered
    <3>4. Before(InsertUnique(q, Len(q) + 1, r), EgressRules(t), {DefaultDrop(t)})
      BY <1>1, <2>2, <2>5, <2>8, <3>1, <3>2, <3>3, InsertUniqueBefore
    <3> QED
      BY <2>3, <3>4 DEF Ordered
  <2>10. ASSUME Contains(w, DefaultDrop(t)), NEW o \in Ifaces(t)
         PROVE  ~Contains(Tail(s), RuleCall(t, Egress(t, o)))
    <3>1. CASE r = DefaultDrop(t)
      <4>1. Len(s) = 1
        BY <1>2, <1>7, <3>1 DEF InPlace
      <4>2. Len(Tail(s)) = Len(s) - 1
        BY s # <<>>, s \in Seq(GoodCalls)
      <4>3. PICK u : u = Tail(s)
        OBVIOUS
      <4>4. Len(u) = 0
        BY <4>1, <4>2, <4>3
      <4>5. \A x : ~Contains(u, x)
        BY <4>4 DEF Contains
      <4> QED
        BY <4>3, <4>5
    <3>2. CASE r # DefaultDrop(t)
      BY <1>2, <2>6, <2>10, <3>2 DEF Filling
    <3> QED
      BY <3>1, <3>2
  <2> QED
    BY <2>4, <2>7, <2>9, <2>10 DEF Filling
<1> QED
  BY <1>3, <1>5, <1>6, <1>7, EnsureCallKinds DEF Tenants

(* What the tenant under way needs stays in the table or is still to come. *)
LEMMA BuildingStep ==
  ASSUME TableOK, NoDup(rules[Anchor]), NEW t \in Private,
         NEW s \in Seq(GoodCalls), s # <<>>, EnsureTodo(t, s),
         Building(made, rules, s, t), NEW k, k = Head(s),
         \/ Possible(k) /\ Execute(k)
         \/ k.tolerated /\ rules' = rules /\ made' = made
  PROVE  Building(made', rules', Tail(s), t)
<1> DEFINE c == ChainOf[t]
<1>1. c \in Chains /\ rules[c] \in Seq(AllowedIn(c)) /\ c \notin {FORWARD, Anchor}
  BY ChainsKnown, ConstantsAssumption DEF TableOK, Tenants
<1>2. /\ \A x : Contains(s, x) <=> x = k \/ Contains(Tail(s), x)
      /\ k \in GoodCalls /\ InPlace(t, s, 1) /\ k = s[1] /\ Len(s) \in Nat \ {0}
  BY TailHas DEF EnsureTodo
<1>3. k \in EnsureCalls(t) /\ t \in Tenants
  BY <1>2 DEF InPlace, Tenants
<1>4. k.fn # "DeleteChain"
  BY <1>3, EnsureCallKinds, CallFields
<1>5. made \subseteq made'
  BY <1>1, <1>4, ExecuteRules
<1>6. k = ClearCall(t) => Execute(k)
  BY CallFields
<1>7. c \in made' \/ Contains(Tail(s), ClearCall(t))
  <2>1. CASE c \in made
    BY <1>5, <2>1
  <2>2. CASE k = ClearCall(t)
    <3>1. k.fn = "ClearChain" /\ k.chain = c
      BY <2>2, CallFields
    <3> QED
      BY <1>6, <2>2, <3>1 DEF Execute
  <2> QED
    BY <1>2, <2>1, <2>2 DEF Building
<1>8. ASSUME NEW i \in Ifaces(t) PROVE Jump(rules', t, i) \/ Contains(Tail(s), JumpCall(t, i))
  <2>1. k.chain = Anchor => k.fn \in {"EnsureChain", "AppendUnique"}
    BY <1>1, <1>3, EnsureCallKinds, CallFields, ChainsKnown
  <2>2. CASE Jump(rules, t, i)
    BY <1>2, <2>1, <2>2, ExecuteAnchor DEF Jump
  <2>3. CASE k = JumpCall(t, i)
    <3>1. k.fn = "AppendUnique" /\ k.chain = Anchor /\ k.rule = Ingress(t, i) /\ ~k.tolerated
      BY <2>3 DEF JumpCall, Call
    <3> QED
      BY <1>2, <3>1, ExecuteAnchor DEF Jump
  <2> QED
    BY <1>2, <2>2, <2>3 DEF Building
<1>9. Contains(Tail(s), ClearCall(t)) \/ Filling(rules', Tail(s), t)
  <2>1. CASE k = ClearCall(t)
    <3>1. k.fn = "ClearChain" /\ k.chain = c
      BY <2>1, CallFields
    <3>2. rules'[c] = <<>>
      BY <1>1, <1>6, <2>1, <3>1, ExecuteRules DEF RulesAfter
    <3>3. ASSUME NEW o \in Ifaces(t) PROVE Contains(Tail(s), RuleCall(t, Egress(t, o)))
      <4>1. Later(s, 1, RuleCall(t, Egress(t, o)))
        BY <1>2, <3>1 DEF InPlace
      <4>2. Contains(s, RuleCall(t, Egress(t, o)))
        BY <4>1 DEF Later, Contains
      <4>3. RuleCall(t, Egress(t, o)) # k
        BY <3>1, CallFields
      <4> QED
        BY <1>2, <4>2, <4>3
    <3>4. \A x : ~Contains(<<>>, x)
      BY DEF Contains
    <3>5. Ordered(t, <<>>)
      BY DEF Ordered, Before
    <3> QED
      BY <3>2, <3>3, <3>4, <3>5 DEF Filling
  <2>2. CASE k # ClearCall(t)
    <3>1. CASE Filling(rules, s, t)
      BY <2>2, <3>1, FillingStep
    <3> QED
      BY <1>2, <2>2, <3>1 DEF Building
  <2> QED
    BY <2>1, <2>2
<1> QED
  BY <1>7, <1>8, <1>9 DEF Building

(* A tenant whose script is through is whole.                              *)
LEMMA Built ==
  ASSUME NEW md, NEW rs, NEW t, Building(md, rs, <<>>, t)
  PROVE  Whole(md, rs, t)
<1>1. \A x : ~Contains(<<>>, x)
  BY DEF Contains
<1> QED
  BY <1>1 DEF Building, Filling, Whole

-----------------------------------------------------------------------------
(* The invariant of what has been set up is kept, if every private tenant  *)
(* has a chain of its own.                                                 *)

OwnChains == \A u, w \in Private : ChainOf[u] = ChainOf[w] => u = w

(* Call k is made, or fails and is tolerated.                              *)
Passed(k) ==
  \/ Possible(k) /\ Execute(k)
  \/ k.tolerated /\ UNCHANGED <<rules, made, pos>>

LEMMA SubjectKnown ==
  ASSUME OpOK, op.kind \in {"ensure", "remove"}
  PROVE  op.t \in Tenants /\ Doing(op.kind, op.t)
BY DEF OpOK, Doing

LEMMA DoingWhat ==
  ASSUME NEW kind, NEW t, Doing(kind, t)
  PROVE  op.kind = kind /\ op.t = t
BY DEF Doing

LEMMA IdleDoesNothing ==
  ASSUME op.kind \notin {"ensure", "remove"}, NEW t
  PROVE  ~Doing("ensure", t) /\ ~Doing("remove", t)
BY DoingWhat

(* An operation ends, and the table stays as it is.                        *)
LEMMA EndedSetup ==
  ASSUME OpOK, SetupInv, rules' = rules, made' = made, op' \in {Idle, Down},
         records' \subseteq records, op.kind = "remove" => op.t \notin records'
  PROVE  SetupInv'
<1>1. op'.kind \in {"idle", "down"}
  BY DEF Idle, Down
<1>2. ScriptOK'
  BY <1>1 DEF ScriptOK
<1>3. \A t \in Private : ~Doing("ensure", t)' /\ ~Doing("remove", t)'
  BY <1>1 DEF Doing
<1>4. ASSUME NEW t \in Private, t \in records' PROVE Whole(made', rules', t)
  <2>1. ~Doing("remove", t)
    BY <1>4, DoingWhat
  <2> QED
    BY <1>4, <2>1 DEF SetupInv, PrivateOK
<1> QED
  BY <1>2, <1>3, <1>4 DEF SetupInv, PrivateOK

(* EnsureTenant goes on or is complete.                                    *)
LEMMA EnsureProceeds ==
  ASSUME OwnChains, IInv, SetupInv, op.kind = "ensure", todo # <<>>, Passed(Head(todo)), Proceed
  PROVE  SetupInv'
<1> DEFINE k == Head(todo)
           u == op.t
<1>1. /\ TableOK /\ OpOK /\ NoDup(rules[Anchor]) /\ todo \in Seq(GoodCalls) /\ k \in GoodCalls
      /\ EnsureTodo(u, todo) /\ u \notin records /\ u \in Tenants /\ Doing("ensure", u)
  BY HeadTail, SubjectKnown DEF IInv, OpOK, SetupInv, ScriptOK
<1>2. InPlace(u, todo, 1) /\ k = todo[1] /\ Len(todo) \in Nat \ {0}
  BY <1>1, HeadTail DEF EnsureTodo
<1>3. k \in EnsureCalls(u)
  BY <1>2 DEF InPlace
<1>4. /\ k.chain = Anchor => k.fn \in {"EnsureChain", "AppendUnique"}
      /\ k.chain \in {FORWARD, Anchor} \/ (u \in Private /\ k.chain = ChainOf[u])
  <2>1. u \in Private => ChainOf[u] # Anchor
    BY ConstantsAssumption DEF Tenants
  <2>2. ChainOf[u] # Anchor \/ u \notin Private
    BY <2>1
  <2>3. CASE k.chain = FORWARD
    BY <2>3 DEF FORWARD, Anchor
  <2>4. CASE k.chain = Anchor /\ k.fn \in {"EnsureChain", "AppendUnique"}
    BY <2>4
  <2>5. CASE u \in Private /\ k.chain = ChainOf[u]
    BY <2>2, <2>5
  <2>6. CASE u \in Private /\ k \in {NewCall(u), ClearCall(u)}
    BY <2>5, <2>6, CallFields
  <2>7. CASE u \in Private /\ \E r \in TenantRules(u) : k = RuleCall(u, r)
    BY <2>5, <2>7, CallFields
  <2>8. \/ k.chain = FORWARD
        \/ k.chain = Anchor /\ k.fn \in {"EnsureChain", "AppendUnique"}
        \/ u \in Private /\ k \in {NewCall(u), ClearCall(u)}
        \/ u \in Private /\ \E r \in TenantRules(u) : k = RuleCall(u, r)
    BY <1>1, <1>3, EnsureCallKinds
  <2> QED
    BY <2>3, <2>4, <2>6, <2>7, <2>8
<1>5. NoDup(rules'[Anchor])
  BY <1>1, <1>4, ExecuteAnchor DEF Passed
<1>6. ASSUME NEW t \in Private, t # u, Whole(made, rules, t) PROVE Whole(made', rules', t)
  <2>1. k.chain # ChainOf[t]
    BY <1>4, <1>6, ConstantsAssumption DEF OwnChains, Tenants
  <2> QED
    BY <1>1, <1>4, <1>6, <2>1, OthersWhole DEF Passed
<1>7. \A t \in Private : t \in records => Whole(made, rules, t)
  BY DoingWhat DEF SetupInv, PrivateOK
<1>8. u \in Private => Building(made', rules', Tail(todo), u)
  BY <1>1, BuildingStep DEF SetupInv, PrivateOK, Passed
<1>9. CASE Len(todo) = 1 /\ Complete
  <2>1. Tail(todo) = <<>>
    <3>1. Tail(todo) \in Seq(GoodCalls) /\ Len(Tail(todo)) = 0
      BY <1>1, <1>9, HeadTail
    <3> QED
      BY <3>1, EmptySeq
  <2>2. op'.kind = "idle" /\ records' = records \cup {u}
    BY <1>9 DEF Complete, Idle
  <2>3. \A t \in Private : t \in records' => Whole(made', rules', t)
    BY <1>1, <1>6, <1>7, <1>8, <2>1, <2>2, Built
  <2>4. \A t \in Private : ~Doing("ensure", t)' /\ ~Doing("remove", t)'
    BY <2>2 DEF Doing
  <2>5. ScriptOK'
    BY <2>2 DEF ScriptOK
  <2> QED
    BY <1>5, <2>3, <2>4, <2>5 DEF SetupInv, PrivateOK
<1>10. CASE Len(todo) > 1 /\ todo' = Tail(todo) /\ UNCHANGED <<op, records, links>>
  <2>1. EnsureTodo(u, todo')
    BY <1>1, <1>10, TailInOrder
  <2>2. ScriptOK'
    BY <1>1, <1>10, <2>1 DEF ScriptOK
  <2>3. ASSUME NEW t \in Private PROVE PrivateOK(t)'
    <3>1. /\ Doing("ensure", t)' => t = u
          /\ ~Doing("remove", t)'
      BY <1>10 DEF Doing
    <3>2. t \in records' => Whole(made', rules', t)
      BY <1>1, <1>6, <1>7, <1>10
    <3> QED
      BY <1>8, <1>10, <3>1, <3>2 DEF PrivateOK
  <2> QED
    BY <1>5, <2>2, <2>3 DEF SetupInv
<1> QED
  BY <1>9, <1>10 DEF Proceed

(* The daemon's start has nothing to do with chains.                       *)
LEMMA StartProceeds ==
  ASSUME IInv, SetupInv, op.kind = "start", todo # <<>>, Passed(Head(todo)), Proceed
  PROVE  SetupInv'
<1> DEFINE k == Head(todo)
<1>1. OpOK /\ k = todo[1] /\ Len(todo) \in Nat \ {0}
  BY HeadTail DEF IInv
<1>2. k.fn \in {"Sysctl", "ChangePolicy", "Masquerade"}
  BY <1>1 DEF SetupInv, ScriptOK
<1>3. rules' = rules /\ made' = made
  <2>1. CASE Execute(k)
    <3>1. \A c \in Chains : rules'[c] = rules[c]
      BY <1>2, <2>1, ExecuteRules
    <3>2. rules' = [c \in Chains |-> rules'[c]] /\ rules = [c \in Chains |-> rules[c]]
      BY <2>1 DEF Execute, IInv, TableOK
    <3>3. made' = made
      BY <1>2, <2>1 DEF Execute
    <3> QED
      BY <3>1, <3>2, <3>3
  <2> QED
    BY <2>1 DEF Passed
<1>4. CASE Len(todo) = 1 /\ Complete
  <2>1. op' = Idle /\ records' = records
    BY <1>4 DEF Complete
  <2> QED
    BY <1>1, <1>3, <2>1, EndedSetup
<1>5. CASE Len(todo) > 1 /\ todo' = Tail(todo) /\ UNCHANGED <<op, records, links>>
  <2>1. \A n \in 1..Len(todo') : n + 1 \in 1..Len(todo) /\ todo'[n] = todo[n + 1]
    BY <1>1, <1>5, HeadTail
  <2>2. ScriptOK'
    BY <1>5, <2>1 DEF SetupInv, ScriptOK
  <2>3. ASSUME NEW t \in Private PROVE PrivateOK(t)'
    <3>1. ~Doing("ensure", t) /\ ~Doing("remove", t) /\ ~Doing("ensure", t)' /\ ~Doing("remove", t)'
      BY <1>5 DEF Doing
    <3> QED
      BY <1>3, <1>5, <3>1 DEF SetupInv, PrivateOK
  <2> QED
    BY <1>3, <2>2, <2>3 DEF SetupInv
<1> QED
  BY <1>4, <1>5 DEF Proceed

LEMMA AbortSetup ==
  ASSUME IInv, SetupInv, Abort, rules' = rules, made' = made
  PROVE  SetupInv'
<1>1. op' \in {Idle, Down} /\ records' \subseteq records
  BY DEF Abort
<1>2. op.kind = "remove" => op.t \notin records'
  BY DEF Abort
<1> QED
  BY <1>1, <1>2, EndedSetup DEF IInv

(* What the rules of the table can jump to.                                *)
LEMMA OnlyAnchorJumps ==
  ASSUME OwnChains, TableOK, NEW u \in Private, ~Jump(rules, u, br(u)), ~Jump(rules, u, vx(u)),
         NEW c \in made, NEW r \in ToSet(rules[c])
  PROVE  r.to # ChainOf[u]
<1>1. PICK n \in 1..Len(rules[c]) : r = rules[c][n]
  BY DEF ToSet, TableOK
<1>2. c \in Chains /\ r \in AllowedIn(c)
  BY <1>1 DEF TableOK
<1>3. ChainOf[u] \notin {"ACCEPT", "DROP", "KUBE", Anchor}
  BY ConstantsAssumption DEF Tenants
<1>4. CASE r \in DefaultRules \cup {AnchorRule, KubeRule}
  <2>1. CASE r \in DefaultRules
    BY <1>3, <2>1 DEF DefaultRules, DefaultIngress, DefaultEgress, Rule
  <2> QED
    BY <1>3, <1>4, <2>1 DEF AnchorRule, KubeRule, Rule
<1>5. ASSUME c = Anchor, NEW t \in Private, NEW i \in Ifaces(t), r = Ingress(t, i)
      PROVE  r.to # ChainOf[u]
  <2>1. r.to = ChainOf[t]
    BY <1>5 DEF Ingress, Rule
  <2>2. Contains(rules[Anchor], Ingress(t, i))
    BY <1>1, <1>5 DEF Contains
  <2>3. t # u
    BY <2>2 DEF Jump, Ifaces
  <2> QED
    BY <2>1, <2>3 DEF OwnChains
<1>6. ASSUME NEW t \in Private, r \in TenantRules(t)
      PROVE  r.to # ChainOf[u]
  BY <1>3, <1>6 DEF TenantRules, Egress, Extra, DefaultDrop, Rule
<1> QED
  BY <1>2, <1>4, <1>5, <1>6 DEF AllowedIn

(* Every call of RemoveTenant is one that the table allows.                *)
LEMMA RemoveIsPossible ==
  ASSUME OwnChains, TableOK, NEW u \in Private, Removing(made, rules, todo, u)
  PROVE  Possible(Head(todo)) /\ ~Head(todo).tolerated
<1> DEFINE k == Head(todo)
<1>1. ASSUME NEW i \in Ifaces(u), k = UnjumpCall(u, i), Jump(rules, u, i)
      PROVE  Possible(k) /\ ~k.tolerated
  <2>1. k.fn = "Delete" /\ k.chain = Anchor /\ k.rule = Ingress(u, i) /\ ~k.tolerated
    BY <1>1 DEF UnjumpCall, Call
  <2> QED
    BY <1>1, <2>1 DEF Possible, Jump
<1>2. CASE k = ClearCall(u)
  BY <1>2, CallFields DEF Possible
<1>3. CASE k = DeleteCall(u) /\ rules[ChainOf[u]] = <<>> /\ ~Jump(rules, u, br(u)) /\ ~Jump(rules, u, vx(u))
  <2>1. k.fn = "DeleteChain" /\ k.chain = ChainOf[u] /\ ~k.tolerated
    BY <1>3 DEF DeleteCall, Call
  <2>2. ChainOf[u] \in made
    BY DEF Removing
  <2>3. \A c \in made : \A r \in ToSet(rules[c]) : r.to # ChainOf[u]
    BY <1>3, OnlyAnchorJumps
  <2> QED
    BY <1>3, <2>1, <2>2, <2>3 DEF Possible
<1>4. br(u) \in Ifaces(u) /\ vx(u) \in Ifaces(u)
  BY DEF Ifaces
<1> QED
  BY <1>1, <1>2, <1>3, <1>4 DEF Removing

LEMMA IngressApart ==
  ASSUME NEW t, NEW w, NEW i, NEW j, Ingress(t, i) = Ingress(w, j)
  PROVE  t = w /\ i = j
BY DEF Ingress, Rule

(* What a call of RemoveTenant does to the tenant.                         *)
LEMMA RemoveStep ==
  ASSUME OwnChains, TableOK, NoDup(rules[Anchor]), NEW u \in Private, NEW s \in Seq(GoodCalls),
         Removing(made, rules, s, u), NEW k, k = Head(s), Possible(k), Execute(k)
  PROVE  /\ Len(s) > 1 => Removing(made', rules', Tail(s), u)
         /\ Len(s) = 1 => /\ ChainOf[u] \notin made'
                          /\ \A i \in Ifaces(u) : ~Jump(rules', u, i)
<1> DEFINE c == ChainOf[u]
           b == br(u)
           v == vx(u)
<1>1. c \in Chains /\ c \notin {FORWARD, Anchor} /\ c \in made /\ b # v
  BY ChainsKnown, ConstantsAssumption DEF Tenants, Removing, br, vx
<1>2. s # <<>>
  BY DEF Removing
<1>3. k \in GoodCalls
  BY <1>2
<1>4. ASSUME NEW i \in Ifaces(u), k = UnjumpCall(u, i)
      PROVE  /\ made' = made /\ ~Jump(rules', u, i)
             /\ \A j : j # i => (Jump(rules', u, j) <=> Jump(rules, u, j))
  <2>1. k.fn = "Delete" /\ k.chain = Anchor /\ k.rule = Ingress(u, i)
    BY <1>4 DEF UnjumpCall, Call
  <2>2. \A x : Contains(rules'[Anchor], x) <=> Contains(rules[Anchor], x) /\ x # Ingress(u, i)
    BY <1>3, <2>1, ExecuteAnchor
  <2>3. made' = made
    BY <2>1 DEF Execute
  <2> QED
    BY <2>2, <2>3, IngressApart DEF Jump
<1>5. CASE k \in {ClearCall(u), DeleteCall(u)}
  <2>1. k.chain = c /\ k.fn \in {"ClearChain", "DeleteChain"}
    BY <1>5, CallFields
  <2>2. rules'[c] = <<>>
    BY <1>1, <2>1, ExecuteRules DEF RulesAfter
  <2>3. rules'[Anchor] = rules[Anchor]
    BY <1>1, <2>1, ChainsKnown, ExecuteRules
  <2>4. \A i : Jump(rules', u, i) <=> Jump(rules, u, i)
    BY <2>3 DEF Jump
  <2>5. k = ClearCall(u) => c \in made'
    BY <1>1, <2>1, CallFields DEF Execute
  <2>6. k = DeleteCall(u) => c \notin made'
    BY <2>1, CallFields DEF Execute
  <2>7. CASE s = <<ClearCall(u), DeleteCall(u)>> /\ ~Jump(rules, u, b) /\ ~Jump(rules, u, v)
    <3>1. k = ClearCall(u) /\ Tail(s) = <<DeleteCall(u)>> /\ Len(s) = 2
      BY <2>7
    <3> QED
      BY <2>2, <2>4, <2>5, <2>7, <3>1 DEF Removing
  <2>8. CASE s = <<DeleteCall(u)>> /\ ~Jump(rules, u, b) /\ ~Jump(rules, u, v)
    <3>1. k = DeleteCall(u) /\ Len(s) = 1
      BY <2>8
    <3> QED
      BY <2>4, <2>6, <2>8, <3>1 DEF Ifaces
  <2>9. k # UnjumpCall(u, b) /\ k # UnjumpCall(u, v)
    BY <2>1, CallFields
  <2> QED
    BY <2>7, <2>8, <2>9 DEF Removing
<1>6. CASE /\ s = <<UnjumpCall(u, b), UnjumpCall(u, v), ClearCall(u), DeleteCall(u)>>
           /\ Jump(rules, u, b) /\ Jump(rules, u, v)
  <2>1. /\ k = UnjumpCall(u, b) /\ Len(s) = 4
        /\ Tail(s) = <<UnjumpCall(u, v), ClearCall(u), DeleteCall(u)>>
    BY <1>6
  <2>2. b \in Ifaces(u)
    BY DEF Ifaces
  <2>3. made' = made /\ ~Jump(rules', u, b) /\ Jump(rules', u, v)
    BY <1>1, <1>4, <1>6, <2>1, <2>2
  <2> QED
    BY <1>1, <2>1, <2>3 DEF Removing
<1>7. CASE /\ s = <<UnjumpCall(u, v), ClearCall(u), DeleteCall(u)>>
           /\ ~Jump(rules, u, b) /\ Jump(rules, u, v)
  <2>1. k = UnjumpCall(u, v) /\ Len(s) = 3 /\ Tail(s) = <<ClearCall(u), DeleteCall(u)>>
    BY <1>7
  <2>2. v \in Ifaces(u)
    BY DEF Ifaces
  <2>3. made' = made /\ ~Jump(rules', u, b) /\ ~Jump(rules', u, v)
    BY <1>1, <1>4, <1>7, <2>1, <2>2
  <2> QED
    BY <1>1, <2>1, <2>3 DEF Removing
<1>8. CASE s = <<ClearCall(u), DeleteCall(u)>> \/ s = <<DeleteCall(u)>>
  BY <1>5, <1>8
<1> QED
  BY <1>6, <1>7, <1>8 DEF Removing

LEMMA RemoveCalls ==
  ASSUME NEW u \in Private, Removing(made, rules, todo, u)
  PROVE  LET k == Head(todo)
         IN  \/ k.chain = Anchor /\ k.fn = "Delete" /\ \E i \in Ifaces(u) : k.rule = Ingress(u, i)
             \/ k.chain = ChainOf[u] /\ k.fn \in {"ClearChain", "DeleteChain"}
<1> DEFINE k == Head(todo)
<1>1. \/ \E i \in Ifaces(u) : k = UnjumpCall(u, i)
      \/ k = ClearCall(u) \/ k = DeleteCall(u)
  BY DEF Removing, Ifaces
<1> QED
  BY <1>1, CallFields

(* RemoveTenant of a private tenant goes on or is complete.                *)
LEMMA RemoveProceeds ==
  ASSUME OwnChains, IInv, SetupInv, op.kind = "remove", op.t \in Private, todo # <<>>,
         Possible(Head(todo)), Execute(Head(todo)), Proceed
  PROVE  SetupInv'
<1> DEFINE k == Head(todo)
           u == op.t
<1>1. /\ TableOK /\ OpOK /\ NoDup(rules[Anchor]) /\ todo \in Seq(GoodCalls) /\ k \in GoodCalls
      /\ Doing("remove", u)
  BY HeadTail, SubjectKnown DEF IInv, OpOK, SetupInv
<1>2. Removing(made, rules, todo, u)
  BY <1>1 DEF SetupInv, PrivateOK
<1>3. \/ k.chain = Anchor /\ k.fn = "Delete" /\ \E i \in Ifaces(u) : k.rule = Ingress(u, i)
      \/ k.chain = ChainOf[u]
  BY <1>2, RemoveCalls
<1>4. ChainOf[u] # Anchor
  BY ConstantsAssumption DEF Tenants
<1>5. NoDup(rules'[Anchor])
  BY <1>1, <1>3, <1>4, ExecuteAnchor
<1>6. ASSUME NEW t \in Private, t # u, t \in records PROVE Whole(made', rules', t)
  <2>1. Whole(made, rules, t)
    BY <1>6, DoingWhat DEF SetupInv, PrivateOK
  <2>2. k.chain # ChainOf[t]
    BY <1>3, <1>6, ConstantsAssumption DEF OwnChains, Tenants
  <2>3. k.chain = Anchor => k.fn = "Delete" /\ \A i \in Ifaces(t) : k.rule # Ingress(t, i)
    BY <1>3, <1>4, <1>6, IngressApart
  <2> QED
    BY <1>1, <2>1, <2>2, <2>3, OthersWhole
<1>7. CASE Len(todo) = 1 /\ Complete
  <2>1. op'.kind = "idle" /\ records' = records \ {u}
    BY <1>7 DEF Complete, Idle
  <2>2. \A t \in Private : ~Doing("ensure", t)' /\ ~Doing("remove", t)'
    BY <2>1 DEF Doing
  <2>3. ScriptOK'
    BY <2>1 DEF ScriptOK
  <2>4. \A t \in Private : t \in records' => Whole(made', rules', t)
    BY <1>6, <2>1
  <2> QED
    BY <1>5, <2>2, <2>3, <2>4 DEF SetupInv, PrivateOK
<1>8. CASE Len(todo) > 1 /\ todo' = Tail(todo) /\ UNCHANGED <<op, records, links>>
  <2>1. Removing(made', rules', todo', u)
    BY <1>1, <1>2, <1>8, RemoveStep
  <2>2. ScriptOK'
    BY <1>8, ConstantsAssumption DEF ScriptOK
  <2>3. ASSUME NEW t \in Private PROVE PrivateOK(t)'
    <3>1. /\ Doing("remove", t)' <=> t = u
          /\ ~Doing("ensure", t)'
      BY <1>1, <1>8 DEF Doing
    <3> QED
      BY <1>6, <1>8, <2>1, <3>1 DEF PrivateOK
  <2> QED
    BY <1>5, <2>2, <2>3 DEF SetupInv
<1> QED
  BY <1>7, <1>8 DEF Proceed

(* The default tenant has no jump in the anchor: its removal ends with the *)
(* first call.                                                             *)
LEMMA DefaultStays ==
  ASSUME IInv, SetupInv, op.kind = "remove", op.t = Default
  PROVE  ~Possible(Head(todo)) /\ ~Head(todo).tolerated
<1> DEFINE k == Head(todo)
<1>1. todo = DeleteTenantChains(Default)
  BY DEF SetupInv, ScriptOK
<1>2. k = UnjumpCall(Default, br(Default))
  BY <1>1 DEF DeleteTenantChains, UnjumpCall
<1>3. k.fn = "Delete" /\ k.chain = Anchor /\ k.rule = Ingress(Default, br(Default)) /\ ~k.tolerated
  BY <1>2 DEF UnjumpCall, Call
<1>4. rules[Anchor] \in Seq(AllowedIn(Anchor))
  BY ChainsKnown DEF IInv, TableOK
<1>5. ASSUME Contains(rules[Anchor], k.rule) PROVE FALSE
  <2>1. k.rule \in AllowedIn(Anchor)
    BY <1>4, <1>5 DEF Contains
  <2>2. \E t \in Private : \E i \in Ifaces(t) : k.rule = Ingress(t, i)
    BY <2>1, ConstantsAssumption DEF AllowedIn, FORWARD, Anchor, Tenants
  <2>3. PICK t \in Private : \E i : k.rule = Ingress(t, i)
    BY <2>2
  <2>4. t = Default
    BY <1>3, <2>3, IngressApart
  <2> QED
    BY <2>4, ConstantsAssumption
<1> QED
  BY <1>3, <1>5 DEF Possible

LEMMA MakeCallSetup ==
  ASSUME OwnChains, IInv, SetupInv, MakeCall
  PROVE  SetupInv'
<1> DEFINE k == Head(todo)
<1>1. OpOK /\ todo # <<>>
  BY DEF IInv, MakeCall
<1>2. op.kind \in {"start", "ensure", "remove"}
  BY <1>1, HeadTail
<1>3. CASE op.kind = "remove"
  <2>1. op.t \in Tenants /\ Doing("remove", op.t)
    BY <1>1, <1>3, SubjectKnown
  <2>2. CASE op.t \in Private
    <3>1. Removing(made, rules, todo, op.t)
      BY <2>1, <2>2 DEF SetupInv, PrivateOK
    <3>2. Possible(k)
      BY <2>2, <3>1, RemoveIsPossible DEF IInv
    <3> QED
      BY <1>1, <1>3, <2>2, <3>2, RemoveProceeds DEF MakeCall
  <2>3. CASE op.t = Default
    <3>1. ~Possible(k) /\ ~k.tolerated
      BY <1>3, <2>3, DefaultStays
    <3>2. Abort /\ rules' = rules /\ made' = made
      BY <3>1 DEF MakeCall, table
    <3> QED
      BY <3>2, AbortSetup
  <2> QED
    BY <2>1, <2>2, <2>3 DEF Tenants
<1>4. CASE op.kind # "remove"
  <2>1. CASE Passed(k) /\ Proceed
    BY <1>1, <1>2, <1>4, <2>1, EnsureProceeds, StartProceeds
  <2>2. CASE Abort /\ rules' = rules /\ made' = made
    BY <2>2, AbortSetup
  <2>3. (Passed(k) /\ Proceed) \/ (Abort /\ rules' = rules /\ made' = made)
    BY DEF MakeCall, Passed, table
  <2> QED
    BY <2>1, <2>2, <2>3
<1> QED
  BY <1>3, <1>4

LEMMA CallFailsSetup ==
  ASSUME OwnChains, IInv, SetupInv, CallFails
  PROVE  SetupInv'
<1> DEFINE k == Head(todo)
<1>1. OpOK /\ todo # <<>> /\ rules' = rules /\ made' = made /\ pos' = pos
  BY DEF IInv, CallFails, table
<1>2. op.kind \in {"start", "ensure", "remove"}
  BY <1>1, HeadTail
<1>3. CASE Abort
  BY <1>1, <1>3, AbortSetup
<1>4. CASE k.tolerated /\ Proceed
  <2>1. Passed(k)
    BY <1>1, <1>4 DEF Passed
  <2>2. ASSUME op.kind = "remove" PROVE FALSE
    <3>1. op.t \in Tenants /\ Doing("remove", op.t)
      BY <1>1, <2>2, SubjectKnown
    <3>2. op.t # Default
      BY <1>4, <2>2, DefaultStays
    <3>3. op.t \in Private
      BY <3>1, <3>2 DEF Tenants
    <3>4. Removing(made, rules, todo, op.t)
      BY <3>1, <3>3 DEF SetupInv, PrivateOK
    <3> QED
      BY <1>4, <3>3, <3>4, RemoveIsPossible DEF IInv
  <2> QED
    BY <1>1, <1>2, <1>4, <2>1, <2>2, EnsureProceeds, StartProceeds
<1> QED
  BY <1>3, <1>4 DEF CallFails

(* EnsureTenant begins: all that the tenant needs is in its script.        *)
LEMMA EnsureTenantSetup ==
  ASSUME IInv, SetupInv, NEW u \in Tenants, EnsureTenant(u)
  PROVE  SetupInv'
<1>1. /\ rules' = rules /\ made' = made /\ records' = records /\ u \notin records
      /\ op' = [kind |-> "ensure", t |-> u] /\ op = Idle
  BY DEF EnsureTenant, table
<1>2. EnsureTodo(u, todo')
  BY IsolationInOrder, DefaultInOrder DEF EnsureTenant, Tenants
<1>3. ScriptOK'
  BY <1>1, <1>2 DEF ScriptOK
<1>4. ASSUME u \in Private PROVE Building(made, rules, todo', u)
  <2>1. todo' = EnsureTenantIsolation(u)
    BY <1>4, ConstantsAssumption DEF EnsureTenant
  <2>2. PICK s \in Seq(GoodCalls), h \in Nat :
             /\ s = EnsureTenantIsolation(u) /\ Len(s) = h /\ h >= 11
             /\ s[2] = ClearCall(u) /\ s[7] = JumpCall(u, vx(u)) /\ s[8] = JumpCall(u, br(u))
    BY <1>4, IsolationPlaces
  <2>3. Contains(s, s[2]) /\ Contains(s, s[7]) /\ Contains(s, s[8])
    BY <2>2 DEF Contains
  <2> QED
    BY <2>1, <2>2, <2>3 DEF Building, Ifaces
<1>5. ASSUME NEW t \in Private PROVE PrivateOK(t)'
  <2>1. ~Doing("remove", t) /\ ~Doing("remove", t)' /\ (Doing("ensure", t)' => t = u)
    BY <1>1 DEF Doing, Idle
  <2> QED
    BY <1>1, <1>4, <2>1 DEF SetupInv, PrivateOK
<1> QED
  BY <1>1, <1>3, <1>5 DEF SetupInv

LEMMA RemoveTenantSetup ==
  ASSUME IInv, SetupInv, NEW u \in Tenants, RemoveTenant(u)
  PROVE  SetupInv'
<1>1. /\ rules' = rules /\ made' = made /\ records' = records /\ u \in records
      /\ op' = [kind |-> "remove", t |-> u] /\ op = Idle /\ todo' = DeleteTenantChains(u)
  BY DEF RemoveTenant, table
<1>2. ScriptOK'
  BY <1>1 DEF ScriptOK
<1>3. ASSUME NEW t \in Private PROVE PrivateOK(t)'
  <2>1. /\ ~Doing("remove", t) /\ ~Doing("ensure", t)' /\ (Doing("remove", t)' <=> t = u)
    BY <1>1 DEF Doing, Idle
  <2>2. t \in records => Whole(made, rules, t)
    BY <2>1 DEF SetupInv, PrivateOK
  <2>3. ASSUME t = u PROVE Removing(made, rules, todo', t)
    <3>1. todo' = <<UnjumpCall(t, br(t)), UnjumpCall(t, vx(t)), ClearCall(t), DeleteCall(t)>>
      BY <1>1, <2>3 DEF DeleteTenantChains, UnjumpCall, ClearCall, DeleteCall
    <3> QED
      BY <1>1, <2>2, <2>3, <3>1 DEF Removing, Whole, Ifaces
  <2> QED
    BY <1>1, <2>1, <2>2, <2>3 DEF PrivateOK
<1> QED
  BY <1>1, <1>2, <1>3 DEF SetupInv

(* The start of the daemon touches no chain.                               *)
LEMMA StartCalls ==
  \A n \in 1..Len(initNodePolicies) :
    initNodePolicies[n].fn \in {"Sysctl", "ChangePolicy", "Masquerade"}
<1> DEFINE a == Call("Sysctl", None, None)
           b == Call("ChangePolicy", None, None)
           c == Call("Masquerade", None, None)
           S == {k \in {a, b, c} : k.fn \in {"Sysctl", "ChangePolicy", "Masquerade"}}
<1>1. a \in S /\ b \in S /\ c \in S
  BY DEF Call
<1>2. initNodePolicies = ((<<a>> \o <<a>>) \o <<b>>) \o <<c>>
  BY DEF initNodePolicies, EnsureIPForwarding, EnsureBridgeNetfilter, EnsureForwardPolicyDrop,
         EnsureClusterMasquerade
<1>3. \A k \in S : k.fn \in {"Sysctl", "ChangePolicy", "Masquerade"}
  OBVIOUS
<1> HIDE DEF a, b, c, S
<1>4. <<a>> \in Seq(S) /\ <<b>> \in Seq(S) /\ <<c>> \in Seq(S)
  BY <1>1
<1>5. initNodePolicies \in Seq(S)
  BY <1>2, <1>4, ConcatProperties
<1> QED
  BY <1>3, <1>5

LEMMA RestartSetup ==
  ASSUME IInv, SetupInv, Restart
  PROVE  SetupInv'
<1>1. /\ rules' = rules /\ made' = made /\ records' = {} /\ op'.kind = "start"
      /\ todo' = initNodePolicies
  BY DEF Restart, table
<1>2. ScriptOK'
  BY <1>1, StartCalls DEF ScriptOK
<1>3. \A t \in Private : ~Doing("ensure", t)' /\ ~Doing("remove", t)'
  BY <1>1 DEF Doing
<1> QED
  BY <1>1, <1>2, <1>3 DEF SetupInv, PrivateOK

(* kube-proxy's rule is in FORWARD, of which nothing here depends.         *)
LEMMA KubeProxySetup ==
  ASSUME IInv, SetupInv, KubeProxyInserts
  PROVE  SetupInv'
<1>1. UNCHANGED <<made, records, op, todo>>
  BY DEF KubeProxyInserts
<1>2. \A c \in Chains : c # FORWARD => rules'[c] = rules[c]
  BY DEF KubeProxyInserts, IInv, TableOK
<1>3. rules'[Anchor] = rules[Anchor]
  BY <1>2, ChainsKnown DEF FORWARD, Anchor
<1>4. ASSUME NEW t \in Private PROVE rules'[ChainOf[t]] = rules[ChainOf[t]]
  BY <1>2, ChainsKnown, ConstantsAssumption DEF Tenants
<1>5. ASSUME NEW t \in Private PROVE PrivateOK(t)'
  <2>1. PrivateOK(t)
    BY DEF SetupInv
  <2>2. \A i : Jump(rules', t, i) <=> Jump(rules, t, i)
    BY <1>3 DEF Jump
  <2>3. Whole(made, rules, t) => Whole(made', rules', t)
    BY <1>1, <1>4, <2>2 DEF Whole
  <2>4. Building(made, rules, todo, t) => Building(made', rules', todo', t)
    BY <1>1, <1>4, <2>2 DEF Building, Filling
  <2>5. Removing(made, rules, todo, t) => Removing(made', rules', todo', t)
    BY <1>1, <1>4, <2>2 DEF Removing
  <2> QED
    BY <1>1, <2>1, <2>3, <2>4, <2>5 DEF PrivateOK, Doing
<1>6. ScriptOK'
  BY <1>1 DEF SetupInv, ScriptOK
<1> QED
  BY <1>3, <1>5, <1>6 DEF SetupInv

LEMMA InitSetup == Init => SetupInv
<1> SUFFICES ASSUME Init PROVE SetupInv
  OBVIOUS
<1>1. op.kind = "start" /\ todo = initNodePolicies /\ records = {} /\ rules[Anchor] = <<>>
  BY ChainsKnown DEF Init
<1>2. ScriptOK
  BY <1>1, StartCalls DEF ScriptOK
<1>3. NoDup(rules[Anchor])
  BY <1>1 DEF NoDup
<1>4. \A t \in Private : ~Doing("ensure", t) /\ ~Doing("remove", t)
  BY <1>1 DEF Doing
<1> QED
  BY <1>1, <1>2, <1>3, <1>4 DEF SetupInv, PrivateOK

LEMMA NextSetup ==
  ASSUME OwnChains, IInv, SetupInv, [Next]_vars
  PROVE  SetupInv'
<1>1. CASE UNCHANGED vars
  BY <1>1 DEF SetupInv, ScriptOK, PrivateOK, Doing, Whole, Jump, Building, Filling, Removing,
              vars, table
<1> QED
  BY <1>1, EnsureTenantSetup, RemoveTenantSetup, MakeCallSetup, CallFailsSetup, RestartSetup,
     KubeProxySetup DEF Next

(* A private tenant with a record has its chain, both jumps to it, and its *)
(* rules ahead of the drop; a removal under way is refused nothing.        *)
THEOREM SetupHolds ==
  ASSUME OwnChains
  PROVE  Spec => []SetupInv
<1>1. IInv /\ SetupInv /\ [Next]_vars => SetupInv'
  BY NextSetup
<1> QED
  BY <1>1, InitSetup, InvariantHolds, PTL DEF Spec

LEMMA LastCallCleans ==
  ASSUME OwnChains, IInv, SetupInv, op.kind = "remove", op.t \in Private, MakeCall, op' = Idle
  PROVE  /\ ChainOf[op.t] \notin made'
         /\ \A r \in ToSet(rules'[Anchor]) : r.in \notin Ifaces(op.t)
<1> DEFINE k == Head(todo)
           u == op.t
<1>1. /\ TableOK /\ OpOK /\ NoDup(rules[Anchor]) /\ todo \in Seq(GoodCalls) /\ k \in GoodCalls
      /\ todo # <<>> /\ Doing("remove", u)
  BY HeadTail, SubjectKnown DEF IInv, OpOK, SetupInv, MakeCall
<1>2. Removing(made, rules, todo, u)
  BY <1>1 DEF SetupInv, PrivateOK
<1>3. Possible(k)
  BY <1>1, <1>2, RemoveIsPossible
<1>4. Execute(k) /\ Proceed
  BY <1>3 DEF MakeCall
<1>5. Len(todo) = 1
  BY <1>4 DEF Proceed, Idle
<1>6. ChainOf[u] \notin made' /\ \A i \in Ifaces(u) : ~Jump(rules', u, i)
  BY <1>1, <1>2, <1>3, <1>4, <1>5, RemoveStep
<1>7. rules'[Anchor] \in Seq(AllowedIn(Anchor))
  <2>1. TableOK'
    BY <1>1, <1>3, <1>4, ExecuteTable
  <2> QED
    BY <2>1, ChainsKnown DEF TableOK
<1>8. ASSUME NEW r \in ToSet(rules'[Anchor]), r.in \in Ifaces(u) PROVE FALSE
  <2>1. PICK n \in 1..Len(rules'[Anchor]) : r = rules'[Anchor][n]
    BY <1>7, <1>8 DEF ToSet
  <2>2. r \in AllowedIn(Anchor)
    BY <1>7, <2>1
  <2>3. \E t \in Private : \E i \in Ifaces(t) : r = Ingress(t, i)
    BY <2>2, ConstantsAssumption DEF AllowedIn, FORWARD, Anchor, Tenants
  <2>4. PICK t \in Private : \E i \in Ifaces(t) : r = Ingress(t, i)
    BY <2>3
  <2>5. PICK i \in Ifaces(t) : r = Ingress(t, i)
    BY <2>4
  <2>6. r.in = i
    BY <2>5 DEF Ingress, Rule
  <2>7. t = u
    BY <1>8, <2>6, IfacesApart DEF Tenants
  <2>8. Contains(rules'[Anchor], Ingress(u, i)) /\ i \in Ifaces(u)
    BY <2>1, <2>5, <2>7 DEF Contains
  <2> QED
    BY <1>6, <2>8 DEF Jump
<1> QED
  BY <1>6, <1>8

(* RemoveTenant leaves nothing of a private tenant in the table, whatever  *)
(* happened before it and however kube-proxy and restarts interfere,       *)
(* unless a call fails for an outside reason, provided that every private  *)
(* tenant has a chain of its own (fwChain cuts the names).                 *)
THEOREM RemovalLeavesNothing ==
  ASSUME OwnChains
  PROVE  Spec => CleanRemoval
<1>1. IInv /\ SetupInv /\ [Next]_vars =>
        [ op.kind = "remove" /\ op.t \in Private /\ op' = Idle /\ faults' = 0 =>
            /\ ChainOf[op.t] \notin made'
            /\ \A r \in ToSet(rules[Anchor]') : r.in \notin Ifaces(op.t) ]_vars
  <2> SUFFICES ASSUME IInv, SetupInv, Next, op.kind = "remove", op.t \in Private, op' = Idle,
                      faults' = 0
               PROVE  /\ ChainOf[op.t] \notin made'
                      /\ \A r \in ToSet(rules'[Anchor]) : r.in \notin Ifaces(op.t)
    BY DEF vars
  <2>1. ~\E t \in Tenants : EnsureTenant(t) \/ RemoveTenant(t)
    BY DEF EnsureTenant, RemoveTenant, Idle
  <2>2. ~CallFails
    BY DEF IInv, BoundsOK, CallFails
  <2>3. ~Restart /\ ~KubeProxyInserts
    BY DEF Restart, KubeProxyInserts, Idle
  <2> QED
    BY <2>1, <2>2, <2>3, LastCallCleans DEF Next
<1> QED
  BY <1>1, InvariantHolds, SetupHolds, PTL DEF Spec, CleanRemoval

-----------------------------------------------------------------------------
(* FORWARD, where kube-proxy's rule is not put ahead of the default        *)
(* tenant's.                                                               *)

(* Rules of the default tenant without kube-proxy's: the place found for   *)
(* the anchor's jump can be beyond the end.                                *)
Astray ==
  /\ ~Contains(rules[FORWARD], KubeRule)
  /\ \E r \in DefaultRules : Contains(rules[FORWARD], r)

(* The place found is behind the default tenant's rules, and is one.       *)
Placed ==
  /\ \A n \in 1..Len(rules[FORWARD]) : rules[FORWARD][n] \in DefaultRules => n < pos
  /\ pos <= Len(rules[FORWARD]) + 1 \/ Astray

(* The default tenant's rules come before all others.                      *)
DefaultFirst == Before(rules[FORWARD], DefaultRules, {AnchorRule, KubeRule})

(* They are there, or are still to be inserted.                            *)
DefaultOK ==
  \A r \in DefaultRules :
    /\ Default \in records => Contains(rules[FORWARD], r)
    /\ Doing("ensure", Default) => Contains(rules[FORWARD], r) \/ Contains(todo, TopCall(r))

(* The jump to the anchor, with s still to be called, will have its place. *)
Hooking(s) ==
  Contains(s, HookCall) =>
    /\ Contains(s, ListCall) \/ Placed
    /\ Contains(s, AnchorCall) \/ Anchor \in made

Hooked(s) == Contains(rules[FORWARD], AnchorRule) \/ Contains(s, HookCall) \/ Astray

ForwardInv ==
  /\ DefaultFirst /\ DefaultOK /\ Hooking(todo)
  /\ faults = 0 /\ (op.kind = "ensure" \/ records \cap Private # {}) => Hooked(todo)

(* Rules of FORWARD by their kind.                                         *)
LEMMA ForwardKinds ==
  ASSUME NEW r \in AllowedIn(FORWARD)
  PROVE  /\ r \in DefaultRules \/ r = AnchorRule \/ r = KubeRule
         /\ r.tag = "default" <=> r \in DefaultRules
         /\ r.tag = "kube" <=> r = KubeRule
<1>1. r \in DefaultRules \cup {AnchorRule, KubeRule}
  BY ConstantsAssumption DEF AllowedIn, FORWARD, Anchor, Tenants
<1>2. \A x \in DefaultRules : x.tag = "default"
  BY DEF DefaultRules, DefaultIngress, DefaultEgress, Rule
<1>3. AnchorRule.tag = "anchor" /\ KubeRule.tag = "kube"
  BY DEF AnchorRule, KubeRule, Rule
<1> QED
  BY <1>1, <1>2, <1>3

LEMMA ForwardApart ==
  AnchorRule \notin DefaultRules /\ KubeRule \notin DefaultRules /\ AnchorRule # KubeRule
<1>1. \A x \in DefaultRules : x.tag = "default"
  BY DEF DefaultRules, DefaultIngress, DefaultEgress, Rule
<1>2. AnchorRule.tag = "anchor" /\ KubeRule.tag = "kube"
  BY DEF AnchorRule, KubeRule, Rule
<1> QED
  BY <1>1, <1>2

(* The place that afterDefaultBlockPosition finds is behind the rules of   *)
(* the default tenant, and there is such a place unless only those rules   *)
(* are there.                                                              *)
LEMMA PositionBehind ==
  ASSUME NEW q \in Seq(AllowedIn(FORWARD)), Before(q, DefaultRules, {AnchorRule, KubeRule})
  PROVE  LET p == afterDefaultBlockPosition(q)
         IN  /\ \A n \in 1..Len(q) : q[n] \in DefaultRules => n < p
             /\ \/ p <= Len(q) + 1
                \/ ~Contains(q, KubeRule) /\ \E r \in DefaultRules : Contains(q, r)
<1> DEFINE K == {i \in 1..Len(q) : q[i].tag = "kube"}
           D == {i \in 1..Len(q) : q[i].tag = "default"}
           firstKube == IF K # {} THEN Min(K) ELSE 0
           lastDefault == IF D # {} THEN Max(D) ELSE 0
           p == afterDefaultBlockPosition(q)
<1>1. p = IF firstKube > 0 THEN firstKube + 1
          ELSE IF lastDefault > 0 THEN lastDefault + 2 ELSE 1
  BY DEF afterDefaultBlockPosition, SelectInSeq, SelectLastInSeq
<1>2. Len(q) \in Nat /\ \A n \in 1..Len(q) : q[n] \in AllowedIn(FORWARD)
  OBVIOUS
<1>3. /\ \A n \in 1..Len(q) : n \in K <=> q[n] = KubeRule
      /\ \A n \in 1..Len(q) : n \in D <=> q[n] \in DefaultRules
  BY <1>2, ForwardKinds
<1>4. K # {} => Min(K) \in K
  BY K \subseteq 1..Len(q), <1>2, MinIn
<1>5. D # {} => Max(D) \in D /\ \A n \in D : n <= Max(D)
  BY D \subseteq 1..Len(q), <1>2, GreatestNumber DEF Max
<1>6. K \subseteq 1..Len(q) /\ D \subseteq 1..Len(q)
  OBVIOUS
<1> HIDE DEF K, D, p
<1>7. CASE K # {}
  <2>1. PICK k \in 1..Len(q) : k = Min(K) /\ k \in K
    BY <1>4, <1>6, <1>7
  <2>2. p = k + 1 /\ q[k] = KubeRule
    BY <1>1, <1>2, <1>3, <1>7, <2>1
  <2>3. \A n \in 1..Len(q) : q[n] \in DefaultRules => n < k
    BY <2>2 DEF Before
  <2> QED
    BY <1>2, <2>2, <2>3 DEF p
<1>8. CASE K = {} /\ D # {}
  <2>1. PICK m \in 1..Len(q) : m = Max(D) /\ m \in D /\ \A n \in D : n <= m
    BY <1>5, <1>6, <1>8
  <2>2. p = m + 2 /\ q[m] \in DefaultRules
    BY <1>1, <1>2, <1>3, <1>8, <2>1
  <2>3. ~Contains(q, KubeRule) /\ Contains(q, q[m])
    BY <1>3, <1>8 DEF Contains
  <2>4. \A n \in 1..Len(q) : q[n] \in DefaultRules => n < p
    BY <1>2, <1>3, <2>1, <2>2
  <2> QED
    BY <2>2, <2>3, <2>4 DEF p
<1>9. CASE K = {} /\ D = {}
  <2>1. p = 1
    BY <1>1, <1>9
  <2> QED
    BY <1>2, <1>3, <1>9, <2>1 DEF p
<1> QED
  BY <1>7, <1>8, <1>9

-----------------------------------------------------------------------------
(* What the chains decide.                                                 *)

(* A rule that accepts decides if those before it do not drop.             *)
LEMMA AcceptDecides ==
  ASSUME NEW N \in Nat, NEW v, DOMAIN v = 1..N, NEW n \in 1..N, v[n] = "ACCEPT",
         \A j \in 1..(n - 1) : v[j] \in {"next", "ACCEPT"}, NEW d
  PROVE  Decision(v, d) = "ACCEPT"
<1> DEFINE T == {j \in 1..n : v[j] = "ACCEPT"}
<1>1. T \subseteq Nat /\ n \in T
  OBVIOUS
<1>2. PICK k \in T : \A j \in T : k <= j
  BY <1>1, LeastNumber
<1>3. k \in 1..N /\ k <= n /\ v[k] = "ACCEPT"
  BY <1>2
<1>4. \A j \in 1..(k - 1) : v[j] = "next"
  BY <1>2, <1>3
<1>5. Decides(v, "ACCEPT")
  BY <1>3, <1>4 DEF Decides
<1>6. ASSUME Decides(v, "DROP") PROVE FALSE
  <2>1. PICK m \in 1..N : v[m] = "DROP" /\ \A j \in 1..(m - 1) : v[j] = "next"
    BY <1>6 DEF Decides
  <2>2. m # k /\ ~(k < m) /\ ~(m < k)
    BY <1>3, <1>4, <2>1
  <2> QED
    BY <1>3, <2>1, <2>2
<1> QED
  BY <1>5, <1>6 DEF Decision

(* The interfaces of a tenant are not those of another, nor None.          *)
LEMMA IfaceKnown ==
  ASSUME NEW t \in Tenants, NEW i \in Ifaces(t)
  PROVE  i # None /\ \A w \in Tenants : i \in Ifaces(w) => w = t
BY ConstantsAssumption, IfacesApart DEF Ifaces, br, vx

(* The chain of a private tenant accepts what goes to its own devices.     *)
LEMMA ChainAcceptsOwn ==
  ASSUME OwnChains, TableOK, NEW t \in Private, Whole(made, rules, t),
         NEW i \in Ifaces(t), NEW o \in Ifaces(t)
  PROVE  InTenantChain(ChainOf[t], i, o) = "ACCEPT"
<1> DEFINE c == ChainOf[t]
           q == rules[c]
           v == [k \in DOMAIN q |-> Says(q[k], i, o, "next")]
<1>1. q \in Seq(AllowedIn(c)) /\ c \notin {FORWARD, Anchor} /\ Len(q) \in Nat
  BY ConstantsAssumption, ChainsKnown DEF TableOK, Tenants
<1>2. DOMAIN v = 1..Len(q) /\ \A k \in 1..Len(q) : v[k] = Says(q[k], i, o, "next")
  BY <1>1
<1>3. PICK n \in 1..Len(q) : q[n] = Egress(t, o)
  BY DEF Whole, Contains
<1>4. v[n] = "ACCEPT"
  <2>1. q[n].in = None /\ q[n].out = o /\ q[n].to = "ACCEPT"
    BY <1>3 DEF Egress, Rule
  <2> QED
    BY <1>2, <2>1 DEF Says
<1>5. ASSUME NEW j \in 1..(n - 1) PROVE v[j] \in {"next", "ACCEPT"}
  <2>1. j \in 1..Len(q) /\ ~(n < j)
    BY <1>1
  <2>2. q[j] \in TenantRules(t)
    <3>1. q[j] \in AllowedIn(c)
      BY <1>1, <2>1
    <3> QED
      BY <1>1, <3>1 DEF AllowedIn, OwnChains
  <2>3. q[j] # DefaultDrop(t)
    <3>1. Before(q, EgressRules(t), {DefaultDrop(t)}) /\ q[n] \in EgressRules(t)
      BY <1>3 DEF Whole, Ordered, EgressRules
    <3>2. q[j] \in {DefaultDrop(t)} => n < j
      BY <2>1, <3>1 DEF Before
    <3> QED
      BY <2>1, <3>2
  <2>4. q[j].to = "ACCEPT"
    <3>1. (\E p \in Ifaces(t) : q[j] = Egress(t, p)) \/ (\E p \in Ifaces(Default) : q[j] = Extra(p))
      BY <2>2, <2>3 DEF TenantRules
    <3>2. \A p : Egress(t, p).to = "ACCEPT" /\ Extra(p).to = "ACCEPT"
      BY DEF Egress, Extra, Rule
    <3> QED
      BY <3>1, <3>2
  <2>5. PICK r : r = q[j]
    OBVIOUS
  <2>6. Says(r, i, o, "next") \in {"next", "ACCEPT"}
    BY <2>4, <2>5 DEF Says
  <2>7. v[j] = Says(r, i, o, "next")
    BY <1>2, <2>1, <2>5
  <2> QED
    BY <2>6, <2>7
<1> HIDE DEF v
<1>6. Decision(v, "next") = "ACCEPT"
  BY <1>1, <1>2, <1>4, <1>5, AcceptDecides
<1> QED
  BY <1>6 DEF InTenantChain, v

LEMMA AnchorAcceptsOwn ==
  ASSUME OwnChains, TableOK, NEW t \in Private, Whole(made, rules, t),
         NEW i \in Ifaces(t), NEW o \in Ifaces(t)
  PROVE  InAnchor(i, o) = "ACCEPT"
<1> DEFINE q == rules[Anchor]
           v == [k \in DOMAIN q |-> Says(q[k], i, o, InTenantChain(q[k].to, i, o))]
<1>1. q \in Seq(AllowedIn(Anchor)) /\ Len(q) \in Nat
  BY ChainsKnown DEF TableOK
<1>2. /\ DOMAIN v = 1..Len(q)
      /\ \A k \in 1..Len(q) : v[k] = Says(q[k], i, o, InTenantChain(q[k].to, i, o))
  BY <1>1
<1>3. InTenantChain(ChainOf[t], i, o) = "ACCEPT"
  BY ChainAcceptsOwn
<1>4. ASSUME NEW k \in 1..Len(q), NEW r, r = q[k], NEW x, x = InTenantChain(r.to, i, o)
      PROVE  /\ Says(r, i, o, x) \in {"next", "ACCEPT"}
             /\ r = Ingress(t, i) => Says(r, i, o, x) = "ACCEPT"
  <2>1. r \in AllowedIn(Anchor)
    BY <1>1, <1>4
  <2>2. PICK w \in Private : \E p \in Ifaces(w) : r = Ingress(w, p)
    BY <2>1, ConstantsAssumption DEF AllowedIn, FORWARD, Anchor, Tenants
  <2>3. PICK p \in Ifaces(w) : r = Ingress(w, p)
    BY <2>2
  <2>4. r.in = p /\ r.out = None /\ r.to = ChainOf[w]
    BY <2>3 DEF Ingress, Rule
  <2>5. p # None /\ (p = i => w = t)
    BY IfaceKnown DEF Tenants
  <2>6. ChainOf[w] \notin {"ACCEPT", "DROP", "KUBE"}
    BY ConstantsAssumption DEF Tenants
  <2>7. CASE p = i
    <3>1. x = "ACCEPT"
      BY <1>3, <1>4, <2>4, <2>5, <2>7
    <3> QED
      BY <2>4, <2>6, <2>7, <3>1 DEF Says
  <2>8. CASE p # i
    <3>1. r # Ingress(t, i)
      BY <2>3, <2>8, IngressApart
    <3> QED
      BY <2>4, <2>5, <2>8, <3>1 DEF Says
  <2> QED
    BY <2>7, <2>8
<1>5. \A k \in 1..Len(q) : /\ v[k] \in {"next", "ACCEPT"}
                           /\ q[k] = Ingress(t, i) => v[k] = "ACCEPT"
  BY <1>2, <1>4
<1>6. PICK n \in 1..Len(q) : q[n] = Ingress(t, i)
  BY DEF Whole, Jump, Contains
<1> HIDE DEF v
<1>7. \A j \in 1..(n - 1) : v[j] \in {"next", "ACCEPT"}
  BY <1>1, <1>5
<1>8. Decision(v, "next") = "ACCEPT"
  BY <1>1, <1>2, <1>5, <1>6, <1>7, AcceptDecides
<1> QED
  BY <1>8 DEF InAnchor, v

(* What a rule of FORWARD says of a packet between devices of tenants.     *)
LEMMA ForwardSays ==
  ASSUME NEW r \in AllowedIn(FORWARD), NEW i, NEW o, NEW x
  PROVE  /\ r \in DefaultRules => Says(r, i, o, x) \in {"next", "ACCEPT"}
         /\ r = KubeRule => Says(r, i, o, x) = "next"
         /\ r = AnchorRule => Says(r, i, o, x) = x
         /\ (r = DefaultIngress(i) \/ r = DefaultEgress(o)) => Says(r, i, o, x) = "ACCEPT"
<1>1. /\ \A d : /\ DefaultIngress(d).in = d /\ DefaultIngress(d).out = None
                /\ DefaultIngress(d).to = "ACCEPT"
      /\ \A d : /\ DefaultEgress(d).in = None /\ DefaultEgress(d).out = d
                /\ DefaultEgress(d).to = "ACCEPT"
  BY DEF DefaultIngress, DefaultEgress, Rule
<1>2. /\ KubeRule.in = None /\ KubeRule.out = None /\ KubeRule.to = "KUBE"
      /\ AnchorRule.in = None /\ AnchorRule.out = None /\ AnchorRule.to = Anchor
      /\ Anchor \notin {"ACCEPT", "DROP", "KUBE"}
  BY DEF KubeRule, AnchorRule, Rule, Anchor
<1>3. r \in DefaultRules => r.to = "ACCEPT"
  BY <1>1 DEF DefaultRules
<1>4. r \in DefaultRules => Says(r, i, o, x) \in {"next", "ACCEPT"}
  BY <1>3 DEF Says
<1>5. /\ r = KubeRule => Says(r, i, o, x) = "next"
      /\ r = AnchorRule => Says(r, i, o, x) = x
  BY <1>2 DEF Says
<1>6. (r = DefaultIngress(i) \/ r = DefaultEgress(o)) => Says(r, i, o, x) = "ACCEPT"
  BY <1>1 DEF Says
<1> QED
  BY <1>4, <1>5, <1>6

(* All packets from and to the default tenant are accepted while its rules *)
(* are there.                                                              *)
LEMMA DefaultAccepted ==
  ASSUME TableOK, DefaultFirst, NEW i, NEW o, NEW e \in DefaultRules, Contains(rules[FORWARD], e),
         e = DefaultIngress(i) \/ e = DefaultEgress(o)
  PROVE  Accepted(i, o)
<1> DEFINE q == rules[FORWARD]
           x == InAnchor(i, o)
           v == [k \in DOMAIN q |-> Says(q[k], i, o, x)]
<1>1. q \in Seq(AllowedIn(FORWARD)) /\ Len(q) \in Nat
  BY ChainsKnown DEF TableOK
<1>2. DOMAIN v = 1..Len(q) /\ \A k \in 1..Len(q) : v[k] = Says(q[k], i, o, x)
  BY <1>1
<1> HIDE DEF x
<1>3. PICK n \in 1..Len(q) : q[n] = e
  BY DEF Contains
<1>4. v[n] = "ACCEPT"
  <2>1. e \in AllowedIn(FORWARD)
    BY <1>1, <1>3
  <2>2. Says(e, i, o, x) = "ACCEPT"
    BY <2>1, ForwardSays
  <2> QED
    BY <1>2, <1>3, <2>2
<1>5. ASSUME NEW j \in 1..(n - 1) PROVE v[j] \in {"next", "ACCEPT"}
  <2>1. j \in 1..Len(q) /\ ~(n < j)
    BY <1>1
  <2>2. PICK r \in AllowedIn(FORWARD) : r = q[j]
    BY <1>1, <2>1
  <2>3. r \notin {AnchorRule, KubeRule}
    <3>1. q[j] \in {AnchorRule, KubeRule} => n < j
      BY <1>3, <2>1 DEF DefaultFirst, Before
    <3> QED
      BY <2>1, <2>2, <3>1
  <2>4. r \in DefaultRules
    BY <2>3, ForwardKinds
  <2>5. Says(r, i, o, x) \in {"next", "ACCEPT"}
    BY <2>4, ForwardSays
  <2> QED
    BY <1>2, <2>1, <2>2, <2>5
<1> HIDE DEF v
<1>6. Decision(v, policy) = "ACCEPT"
  BY <1>1, <1>2, <1>4, <1>5, AcceptDecides
<1> QED
  BY <1>6 DEF Accepted, v, x

LEMMA OwnAccepted ==
  ASSUME OwnChains, TableOK, NEW t \in Private, Whole(made, rules, t),
         Contains(rules[FORWARD], AnchorRule), NEW i \in Ifaces(t), NEW o \in Ifaces(t)
  PROVE  Accepted(i, o)
<1> DEFINE q == rules[FORWARD]
           x == InAnchor(i, o)
           v == [k \in DOMAIN q |-> Says(q[k], i, o, x)]
<1>1. q \in Seq(AllowedIn(FORWARD)) /\ Len(q) \in Nat
  BY ChainsKnown DEF TableOK
<1>2. DOMAIN v = 1..Len(q) /\ \A k \in 1..Len(q) : v[k] = Says(q[k], i, o, x)
  BY <1>1
<1>3. x = "ACCEPT"
  BY AnchorAcceptsOwn
<1> HIDE DEF x
<1>4. PICK n \in 1..Len(q) : q[n] = AnchorRule
  BY DEF Contains
<1>5. ASSUME NEW j \in 1..Len(q)
      PROVE  v[j] \in {"next", "ACCEPT"} /\ (q[j] = AnchorRule => v[j] = "ACCEPT")
  <2>1. PICK r \in AllowedIn(FORWARD) : r = q[j]
    BY <1>1
  <2>2. r \in DefaultRules \/ r = AnchorRule \/ r = KubeRule
    BY ForwardKinds
  <2>3. /\ r \in DefaultRules => Says(r, i, o, x) \in {"next", "ACCEPT"}
        /\ r = KubeRule => Says(r, i, o, x) = "next"
        /\ r = AnchorRule => Says(r, i, o, x) = x
    BY ForwardSays
  <2> QED
    BY <1>2, <1>3, <2>1, <2>2, <2>3
<1> HIDE DEF v
<1>6. v[n] = "ACCEPT" /\ \A j \in 1..(n - 1) : v[j] \in {"next", "ACCEPT"}
  BY <1>1, <1>4, <1>5
<1>7. Decision(v, policy) = "ACCEPT"
  BY <1>1, <1>2, <1>6, AcceptDecides
<1> QED
  BY <1>7 DEF Accepted, v, x

LEMMA InvConnects ==
  ASSUME OwnChains, IInv, SetupInv, ForwardInv
  PROVE  Connected
<1>1. TableOK /\ OpOK
  BY DEF IInv
<1>2. ASSUME Default \in records, NEW i, NEW d \in Ifaces(Default)
      PROVE  Accepted(i, d) /\ Accepted(d, i)
  <2>1. DefaultIngress(d) \in DefaultRules /\ DefaultEgress(d) \in DefaultRules
    BY DEF DefaultRules
  <2>2. Contains(rules[FORWARD], DefaultIngress(d)) /\ Contains(rules[FORWARD], DefaultEgress(d))
    BY <1>2, <2>1 DEF ForwardInv, DefaultOK
  <2> QED
    BY <1>1, <2>1, <2>2, DefaultAccepted DEF ForwardInv
<1>3. ASSUME Settled, NEW t \in Private \cap records, NEW i \in Ifaces(t), NEW o \in Ifaces(t)
      PROVE  Accepted(i, o)
  <2>1. todo = <<>> /\ ~Doing("remove", t)
    BY <1>1, <1>3 DEF Settled, OpOK, Idle, Doing
  <2>2. Whole(made, rules, t)
    BY <2>1 DEF SetupInv, PrivateOK
  <2>3. ~Contains(todo, HookCall)
    BY <2>1 DEF Contains
  <2>4. ~Astray
    <3>1. ASSUME NEW r \in DefaultRules, Contains(rules[FORWARD], r)
          PROVE  r \in ToSet(rules[FORWARD])
      BY <1>1, <3>1, ChainsKnown DEF Contains, ToSet, TableOK
    <3> QED
      BY <1>3, <3>1 DEF Settled, Astray
  <2>5. Contains(rules[FORWARD], AnchorRule)
    BY <1>3, <2>3, <2>4 DEF Settled, ForwardInv, Hooked
  <2> QED
    BY <1>1, <2>2, <2>5, OwnAccepted
<1> QED
  BY <1>2, <1>3 DEF Connected

-----------------------------------------------------------------------------
(* The invariant of FORWARD is kept.                                       *)

LEMMA TailLater ==
  ASSUME NEW S, NEW s \in Seq(S), s # <<>>
  PROVE  \A x : Contains(Tail(s), x) <=> Later(s, 1, x)
<1>1. /\ Len(s) \in Nat \ {0} /\ Len(Tail(s)) = Len(s) - 1
      /\ \A n \in 1..(Len(s) - 1) : Tail(s)[n] = s[n + 1]
  OBVIOUS
<1>2. PICK u : u = Tail(s)
  OBVIOUS
<1>3. ASSUME NEW x, Contains(u, x) PROVE Later(s, 1, x)
  <2>1. PICK n \in 1..Len(u) : u[n] = x
    BY <1>3 DEF Contains
  <2>2. n + 1 \in (1 + 1)..Len(s) /\ s[n + 1] = x
    BY <1>1, <1>2, <2>1
  <2> QED
    BY <2>2 DEF Later
<1>4. ASSUME NEW x, Later(s, 1, x) PROVE Contains(u, x)
  <2>1. PICK m \in (1 + 1)..Len(s) : s[m] = x
    BY <1>4 DEF Later
  <2>2. PICK n \in 1..(Len(s) - 1) : m = n + 1
    <3>1. m - 1 \in 1..(Len(s) - 1) /\ m = (m - 1) + 1
      BY <1>1
    <3> QED
      BY <3>1
  <2>3. u[n] = x /\ n \in 1..Len(u)
    BY <1>1, <1>2, <2>1, <2>2
  <2> QED
    BY <2>3 DEF Contains
<1> QED
  BY <1>2, <1>3, <1>4

(* What call k leaves behind in FORWARD, with s still to be called.        *)
ForwardStep(k, s) ==
  /\ DefaultFirst'
  /\ \A r \in DefaultRules :
       Contains(rules[FORWARD], r) \/ k = TopCall(r) => Contains(rules'[FORWARD], r)
  /\ Hooking(s)'
  /\ Hooked(todo) => Hooked(s)'

(* A call that is not about FORWARD.                                       *)
LEMMA OtherChainStep ==
  ASSUME IInv, ForwardInv, todo # <<>>, NEW k, k = Head(todo),
         k.chain # FORWARD \/ k.fn \in {"Sysctl", "ChangePolicy", "Masquerade"}, k.fn # "List", k.fn = "DeleteChain" => k.chain # Anchor,
         \/ Possible(k) /\ Execute(k)
         \/ UNCHANGED <<rules, made, pos>> /\ k.tolerated,
         NEW s, s = Tail(todo)
  PROVE  ForwardStep(k, s)
<1>1. /\ \A x : Contains(todo, x) <=> x = k \/ Contains(s, x)
  BY TailHas DEF IInv, OpOK
<1>2. rules'[FORWARD] = rules[FORWARD] /\ pos' = pos
  BY ExecuteRules, ChainsKnown DEF Execute
<1>3. k # HookCall /\ k # ListCall /\ \A r : k # TopCall(r)
  BY CallFields
<1>4. Anchor \in made => Anchor \in made'
  BY DEF Execute
<1>5. k = AnchorCall => Anchor \in made'
  BY CallFields DEF Execute
<1>6. DefaultFirst' /\ (Placed <=> Placed') /\ (Astray <=> Astray')
  BY <1>2 DEF ForwardInv, DefaultFirst, Placed, Astray
<1>7. Hooking(s)'
  BY <1>1, <1>3, <1>4, <1>5, <1>6 DEF ForwardInv, Hooking
<1>8. Hooked(todo) => Hooked(s)'
  BY <1>1, <1>2, <1>3, <1>6 DEF Hooked
<1> QED
  BY <1>2, <1>3, <1>6, <1>7, <1>8 DEF ForwardStep

LEMMA TopStep ==
  ASSUME IInv, ForwardInv, todo # <<>>, NEW e \in DefaultRules, TopCall(e) = Head(todo),
         InPlace(op.t, todo, 1), Execute(TopCall(e)), NEW s, s = Tail(todo)
  PROVE  ForwardStep(TopCall(e), s)
<1> DEFINE k == TopCall(e)
           q == rules[FORWARD]
<1>1. /\ k.fn = "InsertTop" /\ k.chain = FORWARD /\ k.rule = e
      /\ k # HookCall /\ k # ListCall /\ k # AnchorCall
  BY CallFields
<1>2. \A x : Contains(todo, x) <=> x = k \/ Contains(s, x)
  BY TailHas DEF IInv, OpOK
<1>3. Contains(s, ListCall)
  <2>1. Later(todo, 1, ListCall)
    BY <1>1, HeadTail DEF InPlace, IInv
  <2> QED
    BY <2>1, TailLater DEF IInv, OpOK
<1>4. q \in Seq(AllowedIn(FORWARD)) /\ Len(q) \in Nat /\ FORWARD \in Chains
  BY ChainsKnown DEF IInv, TableOK
<1>5. e \in AllowedIn(FORWARD)
  BY ForwardRules DEF DefaultRules
<1>6. PICK w : w = InsertUnique(q, 1, e)
  OBVIOUS
<1>7. rules'[FORWARD] = w
  BY <1>1, <1>4, <1>6, ExecuteRules DEF RulesAfter
<1>8. \A x : Contains(w, x) <=> Contains(q, x) \/ x = e
  BY <1>4, <1>5, <1>6, InsertUniqueHas
<1>9. DefaultFirst'
  <2>1. DefaultRules \cap {AnchorRule, KubeRule} = {}
    BY ForwardApart
  <2>2. e \notin {AnchorRule, KubeRule}
    BY ForwardApart
  <2>3. \A n \in 1..Len(q) : n >= 1
    BY <1>4
  <2>4. Before(q, DefaultRules, {AnchorRule, KubeRule})
    BY DEF ForwardInv, DefaultFirst
  <2>5. 1 \in Nat \ {0} /\ 1 <= Len(q) + 1
    BY <1>4
  <2>6. Before(InsertUnique(q, 1, e), DefaultRules, {AnchorRule, KubeRule})
    BY <1>4, <1>5, <2>1, <2>2, <2>3, <2>4, <2>5, InsertUniqueBefore
  <2> QED
    BY <1>6, <1>7, <2>6 DEF DefaultFirst
<1>10. made' = made
  BY <1>1 DEF Execute
<1>11. Hooking(s)'
  BY <1>1, <1>2, <1>3, <1>10 DEF ForwardInv, Hooking
<1>12. Astray => Astray'
  BY <1>7, <1>8, ForwardApart DEF Astray
<1>13. Hooked(todo) => Hooked(s)'
  BY <1>1, <1>2, <1>7, <1>8, <1>12 DEF Hooked
<1>14. \A r : k = TopCall(r) => r = e
  BY CallFields
<1> QED
  BY <1>7, <1>8, <1>9, <1>11, <1>13, <1>14 DEF ForwardStep

LEMMA UnhookStep ==
  ASSUME IInv, ForwardInv, todo # <<>>, UnhookCall = Head(todo), InPlace(op.t, todo, 1),
         \/ Possible(UnhookCall) /\ Execute(UnhookCall)
         \/ UNCHANGED <<rules, made, pos>>,
         NEW s, s = Tail(todo)
  PROVE  ForwardStep(UnhookCall, s)
<1> DEFINE k == UnhookCall
           q == rules[FORWARD]
<1>1. /\ k.fn = "Delete" /\ k.chain = FORWARD /\ k.rule = AnchorRule
      /\ k # HookCall /\ k # ListCall /\ k # AnchorCall /\ \A r : k # TopCall(r)
  BY CallFields
<1>2. \A x : Contains(todo, x) <=> x = k \/ Contains(s, x)
  BY TailHas DEF IInv, OpOK
<1>3. Contains(s, ListCall) /\ Contains(s, HookCall)
  <2>1. Later(todo, 1, ListCall) /\ Later(todo, 1, HookCall)
    BY <1>1, HeadTail DEF InPlace, IInv
  <2> QED
    BY <2>1, TailLater DEF IInv, OpOK
<1>4. q \in Seq(AllowedIn(FORWARD)) /\ FORWARD \in Chains
  BY ChainsKnown DEF IInv, TableOK
<1>5. made' = made
  BY <1>1 DEF Execute
<1>6. Hooking(s)' /\ Hooked(s)'
  BY <1>1, <1>2, <1>3, <1>5 DEF ForwardInv, Hooking, Hooked
<1>7. CASE rules' = rules
  BY <1>1, <1>6, <1>7 DEF ForwardInv, ForwardStep, DefaultFirst
<1>8. CASE Possible(k) /\ Execute(k)
  <2>1. Contains(q, AnchorRule)
    BY <1>1, <1>8 DEF Possible
  <2>2. rules'[FORWARD] = RemoveFirst(q, AnchorRule)
    BY <1>1, <1>4, <1>8, ExecuteRules DEF RulesAfter
  <2>3. \A x : x # AnchorRule => (Contains(RemoveFirst(q, AnchorRule), x) <=> Contains(q, x))
    BY <1>4, <2>1, RemoveFirstHas
  <2>4. Before(q, DefaultRules, {AnchorRule, KubeRule})
    BY DEF ForwardInv, DefaultFirst
  <2>5. Before(RemoveFirst(q, AnchorRule), DefaultRules, {AnchorRule, KubeRule})
    BY <1>4, <2>1, <2>4, RemoveFirstBefore
  <2>6. \A r \in DefaultRules : r # AnchorRule
    BY ForwardApart
  <2> QED
    BY <1>1, <1>6, <2>2, <2>3, <2>5, <2>6 DEF ForwardStep, DefaultFirst
<1> QED
  BY <1>7, <1>8

LEMMA ListStep ==
  ASSUME IInv, ForwardInv, todo # <<>>, ListCall = Head(todo), Execute(ListCall),
         NEW s, s = Tail(todo)
  PROVE  ForwardStep(ListCall, s)
<1> DEFINE k == ListCall
           q == rules[FORWARD]
<1>1. /\ k.fn = "List" /\ k.chain = FORWARD
      /\ k # HookCall /\ k # AnchorCall /\ \A r : k # TopCall(r)
  BY CallFields
<1>2. \A x : Contains(todo, x) <=> x = k \/ Contains(s, x)
  BY TailHas DEF IInv, OpOK
<1>3. q \in Seq(AllowedIn(FORWARD)) /\ FORWARD \in Chains
  BY ChainsKnown DEF IInv, TableOK
<1>4. rules'[FORWARD] = q /\ made' = made /\ pos' = afterDefaultBlockPosition(q)
  BY <1>1, <1>3, ExecuteRules DEF Execute
<1>5. DefaultFirst' /\ (Astray <=> Astray')
  BY <1>4 DEF ForwardInv, DefaultFirst, Astray
<1>6. Before(q, DefaultRules, {AnchorRule, KubeRule})
  BY DEF ForwardInv, DefaultFirst
<1>7. PICK p : p = afterDefaultBlockPosition(q)
  OBVIOUS
<1>8. /\ \A n \in 1..Len(q) : q[n] \in DefaultRules => n < p
      /\ \/ p <= Len(q) + 1
         \/ ~Contains(q, KubeRule) /\ \E r \in DefaultRules : Contains(q, r)
  BY <1>3, <1>6, <1>7, PositionBehind
<1>9. Placed'
  BY <1>4, <1>7, <1>8 DEF Placed, Astray
<1>10. Hooking(s)'
  BY <1>1, <1>2, <1>4, <1>9 DEF ForwardInv, Hooking
<1>11. Hooked(todo) => Hooked(s)'
  BY <1>1, <1>2, <1>4, <1>5 DEF Hooked
<1> QED
  BY <1>1, <1>4, <1>5, <1>10, <1>11 DEF ForwardStep

LEMMA HookStep ==
  ASSUME IInv, ForwardInv, todo # <<>>, HookCall = Head(todo), InPlace(op.t, todo, 1),
         Possible(HookCall), Execute(HookCall), NEW s, s = Tail(todo)
  PROVE  ForwardStep(HookCall, s)
<1> DEFINE k == HookCall
           q == rules[FORWARD]
<1>1. /\ k.fn = "InsertAnchor" /\ k.chain = FORWARD /\ k.rule = AnchorRule
      /\ \A r : k # TopCall(r)
  BY CallFields
<1>2. Contains(todo, k) /\ \A x : Contains(todo, x) <=> x = k \/ Contains(s, x)
  BY TailHas DEF IInv, OpOK
<1>3. ~Contains(s, ListCall) /\ ~Contains(s, HookCall)
  <2>1. ~Later(todo, 1, ListCall) /\ ~Later(todo, 1, HookCall)
    BY <1>1, HeadTail DEF InPlace, IInv
  <2> QED
    BY <2>1, TailLater DEF IInv, OpOK
<1>4. Placed
  <2>1. ListCall # k
    BY <1>1, CallFields
  <2> QED
    BY <1>2, <1>3, <2>1 DEF ForwardInv, Hooking
<1>5. q \in Seq(AllowedIn(FORWARD)) /\ Len(q) \in Nat /\ FORWARD \in Chains /\ pos \in Nat \ {0}
  BY ChainsKnown DEF IInv, TableOK
<1>6. Contains(q, AnchorRule) \/ pos <= Len(q) + 1
  BY <1>1 DEF Possible
<1>7. rules'[FORWARD] = InsertUnique(q, pos, AnchorRule)
  BY <1>1, <1>5, ExecuteRules DEF RulesAfter
<1>8. AnchorRule \in AllowedIn(FORWARD) /\ AnchorRule \notin DefaultRules
  BY ForwardRules, ForwardApart
<1>9. PICK p \in Nat \ {0} : p = pos
  BY <1>5
<1>10. \A x : Contains(InsertUnique(q, p, AnchorRule), x) <=> Contains(q, x) \/ x = AnchorRule
  BY <1>5, <1>6, <1>8, <1>9, InsertUniqueHas
<1>11. Before(InsertUnique(q, p, AnchorRule), DefaultRules, {AnchorRule, KubeRule})
  <2>1. DefaultRules \cap {AnchorRule, KubeRule} = {}
    BY ForwardApart
  <2>2. \A n \in 1..Len(q) : q[n] \in DefaultRules => n < p
    BY <1>4, <1>9 DEF Placed
  <2>3. Before(q, DefaultRules, {AnchorRule, KubeRule})
    BY DEF ForwardInv, DefaultFirst
  <2>4. Contains(q, AnchorRule) \/ p <= Len(q) + 1
    BY <1>6, <1>9
  <2> QED
    BY <1>5, <1>8, <2>1, <2>2, <2>3, <2>4, InsertUniqueBefore
<1>12. DefaultFirst'
  BY <1>7, <1>9, <1>11 DEF DefaultFirst
<1>13. Hooking(s)' /\ Hooked(s)'
  BY <1>3, <1>7, <1>9, <1>10 DEF Hooking, Hooked
<1> QED
  BY <1>1, <1>7, <1>9, <1>10, <1>12, <1>13 DEF ForwardStep

LEMMA EnsureCallStep ==
  ASSUME IInv, SetupInv, ForwardInv, op.kind = "ensure", todo # <<>>, NEW k, k = Head(todo), Passed(k),
         NEW s, s = Tail(todo)
  PROVE  ForwardStep(k, s)
<1> DEFINE u == op.t
<1>1. u \in Tenants /\ EnsureTodo(u, todo) /\ k = todo[1] /\ Len(todo) \in Nat \ {0}
  BY SubjectKnown, HeadTail DEF SetupInv, ScriptOK, IInv
<1>2. InPlace(u, todo, 1) /\ k \in EnsureCalls(u)
  <2>1. InPlace(u, todo, 1)
    BY <1>1 DEF EnsureTodo
  <2> QED
    BY <1>1, <2>1 DEF InPlace
<1>3. CASE k = UnhookCall
  BY <1>2, <1>3, UnhookStep DEF Passed
<1>4. CASE k = ListCall
  <2>1. ~k.tolerated
    BY <1>4, CallFields
  <2> QED
    BY <1>4, <2>1, ListStep DEF Passed
<1>5. CASE k = HookCall
  <2>1. ~k.tolerated
    BY <1>5, CallFields
  <2> QED
    BY <1>2, <1>5, <2>1, HookStep DEF Passed
<1>6. CASE \E r \in DefaultRules : k = TopCall(r)
  <2>1. PICK r \in DefaultRules : k = TopCall(r)
    BY <1>6
  <2>2. ~k.tolerated
    BY <2>1, CallFields
  <2>3. Execute(TopCall(r)) /\ TopCall(r) = Head(todo)
    BY <2>1, <2>2 DEF Passed
  <2>4. ForwardStep(TopCall(r), s)
    BY <1>2, <2>3, TopStep
  <2> QED
    BY <2>1, <2>4
<1>7. ASSUME k.chain # FORWARD, k.fn \notin {"List", "DeleteChain"} PROVE ForwardStep(k, s)
  BY <1>7, OtherChainStep DEF Passed
<1>8. CASE k = AnchorCall
  <2>1. k.chain # FORWARD /\ k.fn \notin {"List", "DeleteChain"}
    BY <1>8, CallFields DEF FORWARD, Anchor
  <2> QED
    BY <1>7, <2>1
<1>9. CASE /\ u # Default
           /\ \/ k \in {NewCall(u), ClearCall(u)}
              \/ \E i \in Ifaces(u) : k = JumpCall(u, i)
              \/ \E r \in TenantRules(u) : k = RuleCall(u, r)
  <2>1. k.chain = ChainOf[u] \/ k.chain = Anchor
    BY <1>9, CallFields
  <2>2. k.fn \notin {"List", "DeleteChain"}
    BY <1>9, CallFields
  <2>3. ChainOf[u] # FORWARD /\ Anchor # FORWARD
    BY <1>1, ConstantsAssumption DEF FORWARD, Anchor
  <2> QED
    BY <1>7, <2>1, <2>2, <2>3
<1>10. CASE k \in {AnchorCall, UnhookCall, ListCall, HookCall}
  BY <1>3, <1>4, <1>5, <1>8, <1>10
<1>11. CASE u = Default
  <2>1. k \in {AnchorCall, UnhookCall, ListCall, HookCall} \/ \E r \in DefaultRules : k = TopCall(r)
    BY <1>2, <1>11 DEF EnsureCalls
  <2> QED
    BY <1>6, <1>10, <2>1
<1>12. CASE u # Default
  <2>1. \/ k \in {AnchorCall, UnhookCall, ListCall, HookCall}
        \/ k \in {NewCall(u), ClearCall(u)}
        \/ \E i \in Ifaces(u) : k = JumpCall(u, i)
        \/ \E r \in TenantRules(u) : k = RuleCall(u, r)
    BY <1>2, <1>12 DEF EnsureCalls
  <2> QED
    BY <1>9, <1>10, <1>12, <2>1
<1> QED
  BY <1>11, <1>12

LEMMA CallStep ==
  ASSUME OwnChains, IInv, SetupInv, ForwardInv, todo # <<>>, NEW k, k = Head(todo), Passed(k),
         NEW s, s = Tail(todo)
  PROVE  ForwardStep(k, s)
<1>1. op.kind \in {"start", "ensure", "remove"} /\ k = todo[1] /\ Len(todo) \in Nat \ {0}
  BY HeadTail DEF IInv
<1>2. CASE op.kind = "ensure"
  BY <1>2, EnsureCallStep
<1>3. CASE op.kind = "start"
  <2>1. k.fn \in {"Sysctl", "ChangePolicy", "Masquerade"}
    BY <1>1, <1>3 DEF SetupInv, ScriptOK
  <2> QED
    BY <2>1, OtherChainStep DEF Passed
<1>4. CASE op.kind = "remove"
  <2>1. op.t \in Tenants /\ Doing("remove", op.t)
    BY <1>4, SubjectKnown DEF IInv
  <2>2. op.t # Default
    BY <1>4, DefaultStays DEF Passed
  <2>3. op.t \in Private
    BY <2>1, <2>2 DEF Tenants
  <2>4. Removing(made, rules, todo, op.t)
    BY <2>1, <2>3 DEF SetupInv, PrivateOK
  <2>5. \/ k.chain = Anchor /\ k.fn = "Delete"
        \/ k.chain = ChainOf[op.t] /\ k.fn \in {"ClearChain", "DeleteChain"}
    BY <2>3, <2>4, RemoveCalls
  <2>6. ChainOf[op.t] \notin {FORWARD, Anchor} /\ Anchor # FORWARD
    BY <2>1, ConstantsAssumption DEF FORWARD, Anchor
  <2> QED
    BY <2>5, <2>6, OtherChainStep DEF Passed
<1> QED
  BY <1>1, <1>2, <1>3, <1>4

(* The operation goes on or is complete.                                   *)
LEMMA ForwardProceeds ==
  ASSUME OwnChains, IInv, SetupInv, ForwardInv, todo # <<>>, Passed(Head(todo)), Proceed,
         faults' = 0 => faults = 0
  PROVE  ForwardInv'
<1>1. PICK k, s : k = Head(todo) /\ s = Tail(todo)
  OBVIOUS
<1>2. ForwardStep(k, s)
  BY <1>1, CallStep
<1>3. /\ \A x : Contains(todo, x) <=> x = k \/ Contains(s, x)
      /\ Len(s) = Len(todo) - 1 /\ Len(todo) \in Nat \ {0} /\ s \in Seq(GoodCalls)
  BY <1>1, TailHas, HeadTail DEF IInv, OpOK
<1>4. CASE Len(todo) = 1 /\ Complete
  <2>1. s = <<>> /\ todo' = s /\ op'.kind = "idle"
    <3>1. Len(s) = 0
      BY <1>3, <1>4
    <3>2. s = <<>>
      BY <1>3, <3>1, EmptySeq
    <3> QED
      BY <1>4, <3>2 DEF Complete, Idle
  <2>2. \A x : ~Contains(s, x)
    BY <2>1 DEF Contains
  <2>3. records' \subseteq records \/ (op.kind = "ensure" /\ records' = records \cup {op.t})
    BY <1>4 DEF Complete
  <2>4. ASSUME NEW r \in DefaultRules, Default \in records' PROVE Contains(rules'[FORWARD], r)
    <3>1. Default \in records \/ Doing("ensure", Default)
      BY <2>3, <2>4, SubjectKnown DEF IInv
    <3>2. Contains(rules[FORWARD], r) \/ Contains(todo, TopCall(r))
      BY <3>1 DEF ForwardInv, DefaultOK
    <3> QED
      BY <1>2, <1>3, <2>2, <3>2 DEF ForwardStep
  <2>5. DefaultOK'
    BY <2>1, <2>4 DEF DefaultOK, Doing
  <2>6. ASSUME faults' = 0, records' \cap Private # {} PROVE Hooked(s)'
    <3>1. records \cap Private # {} \/ op.kind = "ensure"
      BY <2>3, <2>6
    <3>2. Hooked(todo)
      BY <2>6, <3>1 DEF ForwardInv
    <3> QED
      BY <1>2, <3>2 DEF ForwardStep
  <2> QED
    BY <1>2, <2>1, <2>5, <2>6 DEF ForwardInv, ForwardStep, Hooking, Hooked
<1>5. CASE Len(todo) > 1 /\ todo' = Tail(todo) /\ UNCHANGED <<op, records, links>>
  <2>1. todo' = s
    BY <1>1, <1>5
  <2>2. DefaultOK'
    <3>1. ASSUME NEW r \in DefaultRules
          PROVE  /\ Default \in records => Contains(rules'[FORWARD], r)
                 /\ Doing("ensure", Default) => Contains(rules'[FORWARD], r) \/ Contains(s, TopCall(r))
      BY <1>2, <1>3 DEF ForwardInv, DefaultOK, ForwardStep
    <3> QED
      BY <1>5, <2>1, <3>1 DEF DefaultOK, Doing
  <2>3. ASSUME faults' = 0, op'.kind = "ensure" \/ records' \cap Private # {} PROVE Hooked(s)'
    BY <1>2, <1>5, <2>3 DEF ForwardInv, ForwardStep
  <2> QED
    BY <1>2, <2>1, <2>2, <2>3 DEF ForwardInv, ForwardStep, Hooking, Hooked
<1> QED
  BY <1>4, <1>5 DEF Proceed

(* A call that the table refuses leaves the jump to the anchor where it    *)
(* is, or there is no place for it.                                        *)
LEMMA RefusedCall ==
  ASSUME OwnChains, IInv, SetupInv, ForwardInv, todo # <<>>, ~Possible(Head(todo)),
         ~Head(todo).tolerated, Contains(todo, HookCall)
  PROVE  Astray
<1>1. PICK k, s : k = Head(todo) /\ s = Tail(todo)
  OBVIOUS
<1>2. \A x : Contains(todo, x) <=> x = k \/ Contains(s, x)
  BY <1>1, TailHas DEF IInv, OpOK
<1>3. op.kind \in {"start", "ensure", "remove"} /\ k = todo[1] /\ Len(todo) \in Nat \ {0}
  BY <1>1, HeadTail DEF IInv
<1>4. op.kind # "start"
  <2>1. op.kind = "start" => k.fn \in {"Sysctl", "ChangePolicy", "Masquerade"}
    BY <1>3 DEF SetupInv, ScriptOK
  <2> QED
    BY <1>1, <2>1 DEF Possible
<1>5. CASE op.kind = "remove"
  <2>1. op.t \in Tenants /\ Doing("remove", op.t)
    BY <1>5, SubjectKnown DEF IInv
  <2>2. op.t \notin Private
    <3>1. op.t \in Private => Removing(made, rules, todo, op.t)
      BY <2>1 DEF SetupInv, PrivateOK
    <3> QED
      BY <3>1, RemoveIsPossible DEF IInv
  <2>3. todo = DeleteTenantChains(Default)
    BY <1>5, <2>1, <2>2 DEF Tenants, SetupInv, ScriptOK
  <2>4. todo = <<UnjumpCall(Default, br(Default)), UnjumpCall(Default, vx(Default)),
                 ClearCall(Default), DeleteCall(Default)>>
    BY <2>3 DEF DeleteTenantChains, UnjumpCall, ClearCall, DeleteCall
  <2>5. HookCall \notin {UnjumpCall(Default, br(Default)), UnjumpCall(Default, vx(Default)),
                         ClearCall(Default), DeleteCall(Default)}
    BY CallFields
  <2> QED
    BY <2>4, <2>5 DEF Contains
<1>6. CASE op.kind = "ensure"
  <2>1. op.t \in Tenants /\ EnsureTodo(op.t, todo)
    BY <1>6, SubjectKnown DEF IInv, SetupInv, ScriptOK
  <2>2. InPlace(op.t, todo, 1)
    BY <1>3, <2>1 DEF EnsureTodo
  <2>3. k \in EnsureCalls(op.t)
    BY <1>3, <2>2 DEF InPlace
  <2>4. \A x : Contains(s, x) <=> Later(todo, 1, x)
    BY <1>1, TailLater DEF IInv, OpOK
  <2>5. k.fn \in {"NewChain", "AppendUnique", "InsertAnchor", "Delete", "DeleteChain"}
    BY <1>1 DEF Possible
  <2>6. CASE k.fn = "AppendUnique"
    <3>1. k # HookCall /\ ~Contains(s, HookCall)
      BY <1>3, <2>2, <2>4, <2>6, CallFields DEF InPlace
    <3> QED
      BY <1>2, <3>1
  <2>7. CASE k = HookCall
    <3>1. k.fn = "InsertAnchor" /\ k.rule = AnchorRule /\ k.chain = FORWARD
      BY <2>7, CallFields
    <3>2. ~Contains(s, ListCall) /\ ~Contains(s, AnchorCall)
      BY <1>3, <2>2, <2>4, <3>1 DEF InPlace
    <3>3. ListCall # k /\ AnchorCall # k
      BY <3>1, CallFields
    <3>4. Placed /\ Anchor \in made
      BY <1>2, <2>7, <3>2, <3>3 DEF ForwardInv, Hooking
    <3>5. TargetMade(AnchorRule)
      BY <3>4 DEF TargetMade, AnchorRule, Rule
    <3>6. ~(pos <= Len(rules[FORWARD]) + 1)
      BY <1>1, <3>1, <3>5 DEF Possible
    <3> QED
      BY <3>4, <3>6 DEF Placed
  <2>8. k.fn = "InsertAnchor" => k = HookCall
    <3>1. \/ k \in {AnchorCall, UnhookCall, ListCall, HookCall}
          \/ \E r \in DefaultRules : k = TopCall(r)
          \/ k \in {NewCall(op.t), ClearCall(op.t)}
          \/ \E i \in Ifaces(op.t) : k = JumpCall(op.t, i)
          \/ \E r \in TenantRules(op.t) : k = RuleCall(op.t, r)
      BY <2>3 DEF EnsureCalls
    <3> QED
      BY <3>1, CallFields
  <2>9. k.fn \notin {"NewChain", "Delete", "DeleteChain"}
    <3>1. \/ k \in {AnchorCall, ListCall, HookCall}
          \/ \E r \in DefaultRules : k = TopCall(r)
          \/ k = ClearCall(op.t)
          \/ \E i \in Ifaces(op.t) : k = JumpCall(op.t, i)
          \/ \E r \in TenantRules(op.t) : k = RuleCall(op.t, r)
      BY <1>1, <2>3, CallFields DEF EnsureCalls
    <3> QED
      BY <3>1, CallFields
  <2> QED
    BY <2>5, <2>6, <2>7, <2>8, <2>9
<1> QED
  BY <1>3, <1>4, <1>5, <1>6

(* The operation ends with an error.                                       *)
LEMMA ForwardAborts ==
  ASSUME OwnChains, IInv, SetupInv, ForwardInv, todo # <<>>, Abort, UNCHANGED <<rules, made, pos>>,
         faults' = 0 => faults = 0 /\ ~Possible(Head(todo)) /\ ~Head(todo).tolerated
  PROVE  ForwardInv'
<1>1. todo' = <<>> /\ op'.kind \in {"idle", "down"} /\ records' \subseteq records
  BY DEF Abort, Idle, Down
<1>2. \A x : ~Contains(todo', x)
  BY <1>1 DEF Contains
<1>3. DefaultFirst' /\ (Astray <=> Astray')
  BY DEF ForwardInv, DefaultFirst, Astray
<1>4. DefaultOK'
  BY <1>1 DEF ForwardInv, DefaultOK, Doing
<1>5. Hooking(todo)'
  BY <1>2 DEF Hooking
<1>6. ASSUME faults' = 0, records' \cap Private # {} PROVE Hooked(todo)'
  <2>1. Hooked(todo)
    BY <1>1, <1>6 DEF ForwardInv
  <2>2. Contains(todo, HookCall) => Astray
    BY <1>6, RefusedCall
  <2> QED
    BY <1>3, <2>1, <2>2 DEF Hooked
<1> QED
  BY <1>1, <1>3, <1>4, <1>5, <1>6 DEF ForwardInv

LEMMA MakeCallForward ==
  ASSUME OwnChains, IInv, SetupInv, ForwardInv, MakeCall
  PROVE  ForwardInv'
<1> DEFINE k == Head(todo)
<1>1. todo # <<>> /\ faults' = faults
  BY DEF MakeCall
<1>2. CASE Possible(k) /\ Execute(k) /\ Proceed
  BY <1>1, <1>2, ForwardProceeds DEF Passed
<1>3. CASE ~Possible(k) /\ (IF k.tolerated THEN Proceed ELSE Abort) /\ UNCHANGED <<table, pos>>
  <2>1. UNCHANGED <<rules, made, pos>>
    BY <1>3 DEF table
  <2>2. CASE k.tolerated
    BY <1>1, <1>3, <2>1, <2>2, ForwardProceeds DEF Passed
  <2>3. CASE ~k.tolerated
    BY <1>1, <1>3, <2>1, <2>3, ForwardAborts
  <2> QED
    BY <2>2, <2>3
<1> QED
  BY <1>2, <1>3 DEF MakeCall

LEMMA CallFailsForward ==
  ASSUME OwnChains, IInv, SetupInv, ForwardInv, CallFails
  PROVE  ForwardInv'
<1> DEFINE k == Head(todo)
<1>1. todo # <<>> /\ faults' # 0 /\ UNCHANGED <<rules, made, pos>>
  BY DEF CallFails, IInv, BoundsOK, table
<1>2. CASE k.tolerated /\ Proceed
  BY <1>1, <1>2, ForwardProceeds DEF Passed
<1>3. CASE Abort
  BY <1>1, <1>3, ForwardAborts
<1> QED
  BY <1>2, <1>3 DEF CallFails

(* EnsureTenant begins: what FORWARD needs is in its script.               *)
LEMMA EnsureScriptHooks ==
  ASSUME NEW t \in Tenants, NEW s,
         s = IF t = Default THEN EnsureDefaultTenant ELSE EnsureTenantIsolation(t)
  PROVE  /\ Contains(s, HookCall) /\ Contains(s, ListCall) /\ Contains(s, AnchorCall)
         /\ t = Default => \A r \in DefaultRules : Contains(s, TopCall(r))
<1>1. CASE t = Default
  <2>1. /\ Len(s) = 8
        /\ s[1] = TopCall(DefaultEgress(vx(Default))) /\ s[2] = TopCall(DefaultEgress(br(Default)))
        /\ s[3] = TopCall(DefaultIngress(vx(Default))) /\ s[4] = TopCall(DefaultIngress(br(Default)))
        /\ s[5] = AnchorCall /\ s[7] = ListCall /\ s[8] = HookCall
    BY <1>1, DefaultPlaces
  <2>2. \A n \in 1..8 : Contains(s, s[n])
    BY <2>1 DEF Contains
  <2>3. ASSUME NEW r \in DefaultRules PROVE \E n \in 1..8 : s[n] = TopCall(r)
    <3>1. \/ r = DefaultIngress(br(Default)) \/ r = DefaultIngress(vx(Default))
          \/ r = DefaultEgress(br(Default)) \/ r = DefaultEgress(vx(Default))
      BY DEF DefaultRules, Ifaces
    <3> QED
      BY <2>1, <3>1
  <2> QED
    BY <2>1, <2>2, <2>3
<1>2. CASE t # Default
  <2>1. t \in Private
    BY <1>2 DEF Tenants
  <2>2. PICK h \in Nat : Len(s) = h /\ h >= 11 /\ s[3] = AnchorCall /\ s[5] = ListCall /\ s[6] = HookCall
    BY <1>2, <2>1, IsolationPlaces
  <2>3. Contains(s, s[3]) /\ Contains(s, s[5]) /\ Contains(s, s[6])
    BY <2>2 DEF Contains
  <2> QED
    BY <1>2, <2>2, <2>3
<1> QED
  BY <1>1, <1>2

LEMMA EnsureTenantForward ==
  ASSUME IInv, ForwardInv, NEW t \in Tenants, EnsureTenant(t)
  PROVE  ForwardInv'
<1>1. /\ UNCHANGED <<rules, made, pos, records>> /\ op' = [kind |-> "ensure", t |-> t]
  BY DEF EnsureTenant, table
<1>2. PICK s : s = todo' /\ s = IF t = Default THEN EnsureDefaultTenant ELSE EnsureTenantIsolation(t)
  BY DEF EnsureTenant
<1>3. /\ Contains(s, HookCall) /\ Contains(s, ListCall) /\ Contains(s, AnchorCall)
      /\ t = Default => \A r \in DefaultRules : Contains(s, TopCall(r))
  BY <1>2, EnsureScriptHooks
<1>4. DefaultFirst'
  BY <1>1 DEF ForwardInv, DefaultFirst
<1>5. DefaultOK'
  BY <1>1, <1>2, <1>3 DEF ForwardInv, DefaultOK, Doing
<1>6. Hooking(todo)' /\ Hooked(todo)'
  BY <1>2, <1>3 DEF Hooking, Hooked
<1> QED
  BY <1>4, <1>5, <1>6 DEF ForwardInv

(* An operation begins that does not hook the anchor.                      *)
LEMMA NoHookForward ==
  ASSUME ForwardInv, UNCHANGED <<rules, made, pos, faults>>, records' \subseteq records,
         op'.kind # "ensure", ~Contains(todo', HookCall),
         todo = <<>> \/ records' = {}
  PROVE  ForwardInv'
<1>1. DefaultFirst' /\ (Astray <=> Astray')
  BY DEF ForwardInv, DefaultFirst, Astray
<1>2. DefaultOK'
  BY DEF ForwardInv, DefaultOK, Doing
<1>3. Hooking(todo)'
  BY DEF Hooking
<1>4. ASSUME faults' = 0, records' \cap Private # {} PROVE Hooked(todo)'
  <2>1. ~Contains(todo, HookCall)
    BY <1>4 DEF Contains
  <2>2. Hooked(todo)
    BY <1>4 DEF ForwardInv
  <2> QED
    BY <1>1, <2>1, <2>2 DEF Hooked
<1> QED
  BY <1>1, <1>2, <1>3, <1>4 DEF ForwardInv

LEMMA RemoveTenantForward ==
  ASSUME IInv, ForwardInv, NEW t \in Tenants, RemoveTenant(t)
  PROVE  ForwardInv'
<1>1. /\ UNCHANGED <<rules, made, pos, faults, records>> /\ op'.kind = "remove"
      /\ op = Idle /\ todo' = DeleteTenantChains(t)
  BY DEF RemoveTenant, table
<1>2. todo = <<>>
  BY <1>1 DEF IInv, OpOK, Idle
<1>3. todo' = <<UnjumpCall(t, br(t)), UnjumpCall(t, vx(t)), ClearCall(t), DeleteCall(t)>>
  BY <1>1 DEF DeleteTenantChains, UnjumpCall, ClearCall, DeleteCall
<1>4. HookCall \notin {UnjumpCall(t, br(t)), UnjumpCall(t, vx(t)), ClearCall(t), DeleteCall(t)}
  BY CallFields
<1>5. ~Contains(todo', HookCall)
  BY <1>3, <1>4 DEF Contains
<1> QED
  BY <1>1, <1>2, <1>5, NoHookForward

LEMMA RestartForward ==
  ASSUME ForwardInv, Restart
  PROVE  ForwardInv'
<1>1. /\ UNCHANGED <<rules, made, pos, faults>> /\ records' = {} /\ op'.kind = "start"
      /\ todo' = initNodePolicies
  BY DEF Restart, table
<1>2. ~Contains(initNodePolicies, HookCall)
  BY StartCalls, CallFields DEF Contains
<1> QED
  BY <1>1, <1>2, NoHookForward

(* kube-proxy's rule comes first, but there are no rules of the default    *)
(* tenant then, and what the daemon inserts later comes before it.         *)
LEMMA KubeProxyForward ==
  ASSUME KubeFirst, IInv, ForwardInv, KubeProxyInserts
  PROVE  ForwardInv'
<1> DEFINE q == rules[FORWARD]
<1>1. q \in Seq(AllowedIn(FORWARD)) /\ Len(q) \in Nat /\ FORWARD \in Chains
  BY ChainsKnown DEF IInv, TableOK
<1>2. UNCHANGED <<made, pos, records, op, todo, faults>>
  BY DEF KubeProxyInserts
<1>3. PICK w : w = <<KubeRule>> \o q
  OBVIOUS
<1>4. rules'[FORWARD] = w
  BY <1>1, <1>3 DEF KubeProxyInserts, IInv, TableOK
<1>5. /\ Len(w) = Len(q) + 1 /\ w[1] = KubeRule
      /\ \A n \in 1..Len(w) : n = 1 \/ \E m \in 1..Len(q) : w[n] = q[m] /\ n = m + 1
      /\ \A m \in 1..Len(q) : w[m + 1] = q[m]
  <2>1. <<KubeRule>> \in Seq(AllowedIn(FORWARD)) /\ q \in Seq(AllowedIn(FORWARD))
    BY <1>1, ForwardRules
  <2>2. /\ Len(<<KubeRule>> \o q) = Len(<<KubeRule>>) + Len(q)
        /\ \A n \in 1..Len(<<KubeRule>>) : (<<KubeRule>> \o q)[n] = <<KubeRule>>[n]
        /\ \A n \in 1..Len(q) : (<<KubeRule>> \o q)[Len(<<KubeRule>>) + n] = q[n]
    BY ONLY <2>1, ConcatAt
  <2>3. Len(<<KubeRule>>) = 1 /\ <<KubeRule>>[1] = KubeRule
    OBVIOUS
  <2>4. Len(w) = 1 + Len(q) /\ w[1] = KubeRule /\ \A n \in 1..Len(q) : w[1 + n] = q[n]
    BY <1>3, <2>2, <2>3
  <2>5. ASSUME NEW n \in 1..Len(w), n # 1 PROVE \E m \in 1..Len(q) : w[n] = q[m] /\ n = m + 1
    <3>1. PICK m \in 1..Len(q) : n = 1 + m
      <4>1. n - 1 \in 1..Len(q) /\ n = 1 + (n - 1)
        BY <1>1, <2>4, <2>5
      <4> QED
        BY <4>1
    <3> QED
      BY <2>4, <3>1
  <2> QED
    BY <1>1, <2>4, <2>5
<1>6. \A n \in 1..Len(q) : q[n] \notin DefaultRules
  <2>1. DefaultRules \cap ToSet(q) = {}
    BY DEF KubeProxyInserts
  <2> QED
    BY <1>1, <2>1 DEF ToSet
<1>7. \A n \in 1..Len(w) : w[n] \notin DefaultRules
  BY <1>5, <1>6, ForwardApart
<1>8. \A x : Contains(q, x) => Contains(w, x)
  <2>1. ASSUME NEW m \in 1..Len(q) PROVE Contains(w, q[m])
    <3>1. m + 1 \in 1..Len(w) /\ w[m + 1] = q[m]
      BY <1>1, <1>5
    <3> QED
      BY <3>1 DEF Contains
  <2> QED
    BY <2>1 DEF Contains
<1>9. DefaultFirst'
  BY <1>4, <1>7 DEF DefaultFirst, Before
<1>10. DefaultOK'
  BY <1>2, <1>4, <1>8 DEF ForwardInv, DefaultOK, Doing
<1>11. ~Astray
  BY <1>6 DEF Astray, Contains
<1>12. Placed => Placed'
  BY <1>1, <1>2, <1>4, <1>5, <1>7, <1>11 DEF Placed, IInv, TableOK
<1>13. Hooking(todo)'
  BY <1>2, <1>12 DEF ForwardInv, Hooking
<1>14. Hooked(todo) => Hooked(todo)'
  BY <1>2, <1>4, <1>8, <1>11 DEF Hooked
<1> QED
  BY <1>2, <1>9, <1>10, <1>13, <1>14 DEF ForwardInv

LEMMA InitForward == Init => ForwardInv
<1> SUFFICES ASSUME Init PROVE ForwardInv
  OBVIOUS
<1>1. /\ op.kind = "start" /\ todo = initNodePolicies /\ records = {}
      /\ rules[FORWARD] = <<>>
  BY ChainsKnown DEF Init
<1>2. ~Contains(initNodePolicies, HookCall)
  BY StartCalls, CallFields DEF Contains
<1>3. DefaultFirst
  BY <1>1 DEF DefaultFirst, Before
<1>4. DefaultOK
  BY <1>1 DEF DefaultOK, Doing
<1> QED
  BY <1>1, <1>2, <1>3, <1>4 DEF ForwardInv, Hooking

LEMMA NextForward ==
  ASSUME KubeFirst, OwnChains, IInv, SetupInv, ForwardInv, [Next]_vars
  PROVE  ForwardInv'
<1>1. CASE UNCHANGED vars
  BY <1>1 DEF ForwardInv, DefaultFirst, DefaultOK, Hooking, Hooked, Placed, Astray, Doing,
              vars, table
<1> QED
  BY <1>1, EnsureTenantForward, RemoveTenantForward, MakeCallForward, CallFailsForward,
     RestartForward, KubeProxyForward DEF Next

(* What has been set up works: the default tenant is reached by all and    *)
(* reaches all as long as it has its record, and between operations, none  *)
(* of whose calls has failed, every private tenant reaches its own         *)
(* devices, provided that each has a chain of its own (fwChain cuts the    *)
(* names) and that kube-proxy is not later than the default tenant's rules *)
(* (afterDefaultBlockPosition puts the anchor behind kube-proxy's rule).   *)
THEOREM SetUpTenantsConnected ==
  ASSUME KubeFirst, OwnChains
  PROVE  Spec => []Connected
<1>1. IInv /\ SetupInv /\ ForwardInv /\ [Next]_vars => ForwardInv'
  BY NextForward
<1>2. IInv /\ SetupInv /\ ForwardInv => Connected
  BY InvConnects
<1> QED
  BY <1>1, <1>2, InitForward, InvariantHolds, SetupHolds, PTL DEF Spec

=============================================================================
