---------------------------- MODULE CNIServerProofs ----------------------------
(***************************************************************************)
(* Proofs about CNIServer, for every set of sandboxes, pods and tenants,   *)
(* any number of connections, actors and calls, and mailboxes of any size. *)
(***************************************************************************)
EXTENDS CNIServer, TLAPS

-----------------------------------------------------------------------------
(* The inductive invariant: what a goroutine, a cache entry and a mailbox  *)
(* know about the sandbox they are about.  A is the set of sandboxes that  *)
(* have their interface.                                                   *)

ConnType ==
  [st : Stages, cmd : {"ADD", "DEL", "CHECK", "STATUS", "GC"}, sb : Sandboxes \cup {None},
   codec : {"json", "bin", "junk"}, timed : BOOLEAN, tenant : Tenants \cup {None},
   actor : 0..MaxActors, ok : BOOLEAN, result : Sandboxes \cup {None}, client : BOOLEAN]

(* The result that request r carries has been earned.                      *)
Earned(r, A) == r.result = r.sb /\ (r.cmd = "ADD" => r.sb \in A)

(* A connection with its stage: who has passed the resolver has a sandbox  *)
(* and a tenant, who talks to an actor has one, and a success is earned.   *)
ConnOK(r, A) ==
  /\ r \in ConnType
  /\ (r.cmd \in {"STATUS", "GC"}) <=> (r.sb = None)
  /\ r.st \in {"cache", "expired", "route"} => r.tenant \in Tenants /\ r.sb # None
  /\ r.st \in {"send", "wait", "replied"} => r.actor \in Actors /\ r.cmd \in {"ADD", "DEL"}
  /\ r.st \in {"replied", "write"} /\ r.ok /\ r.cmd \in {"ADD", "DEL"} => Earned(r, A)

EntryType == [cmd : {"ADD", "DEL"}, key : {"ADD", "DEL"} \X Sandboxes,
              result : Sandboxes, old : BOOLEAN]

(* An entry of the cache: its result is the one of the sandbox in its key. *)
EntryOK(e, A) ==
  /\ e \in EntryType
  /\ e.key = <<e.cmd, e.result>>
  /\ e.cmd = "ADD" => e.result \in A

(* A message that somebody waits for is the request of that connection; cs *)
(* are the connections.                                                    *)
MessageOK(m, a, cs) ==
  /\ m \in Messages
  /\ m.cmd # "STOP" => m.sb # None
  /\ m.cmd = "STOP" => m.reply = None
  /\ m.reply # None =>
       LET r == cs[m.reply] IN r.st = "wait" /\ r.actor = a /\ r.cmd = m.cmd /\ r.sb = m.sb

(* No reply channel is in a mailbox twice.                                 *)
MailOK(q, a, cs) ==
  /\ q \in Seq(Messages) /\ Len(q) <= MailboxSize
  /\ \A i \in 1..Len(q) : MessageOK(q[i], a, cs)
  /\ \A i, j \in 1..Len(q) : q[i].reply = q[j].reply /\ q[i].reply # None => i = j

ConnsOK == conn \in [Conns -> ConnType] /\ \A c \in Conns : ConnOK(conn[c], attached)

CacheOK ==
  /\ cache \in [Pods -> EntryType \cup {None}]
  /\ \A u \in Pods : cache[u] # None => EntryOK(cache[u], attached)

MailsOK == mail \in [Actors -> Seq(Messages)] /\ \A a \in Actors : MailOK(mail[a], a, conn)

ActorsOK == current \in [Tenants -> 0..MaxActors] /\ running \in [Actors -> BOOLEAN]

AddedOK == attached \subseteq Sandboxes /\ added \subseteq attached

IInv == ConnsOK /\ CacheOK /\ MailsOK /\ ActorsOK /\ AddedOK

-----------------------------------------------------------------------------
(* Facts that the actions have in common.                                  *)

LEMMA ClosedOK == \A A : ConnOK(Closed, A)
BY ConstantsAssumption DEF ConnOK, ConnType, Closed, Stages, Earned

(* Interfaces only ever appear: RemovePod is a stub.                       *)
LEMMA ConnMono ==
  ASSUME NEW r, NEW A, NEW B, A \subseteq B, ConnOK(r, A)
  PROVE  ConnOK(r, B)
BY DEF ConnOK, Earned

LEMMA EntryMono ==
  ASSUME NEW e, NEW A, NEW B, A \subseteq B, EntryOK(e, A)
  PROVE  EntryOK(e, B)
BY DEF EntryOK

(* A step of one goroutine that nobody's message refers to.                *)
LEMMA ConnStep ==
  ASSUME ConnsOK, MailsOK, NEW c \in Conns, NEW r, ConnOK(r, attached),
         conn[c].st # "wait", conn' = [conn EXCEPT ![c] = r],
         UNCHANGED <<mail, attached>>
  PROVE  ConnsOK' /\ MailsOK'
<1>1. r \in ConnType
  BY DEF ConnOK
<1>2. conn' \in [Conns -> ConnType] /\ \A d \in Conns : conn'[d] = IF d = c THEN r ELSE conn[d]
  BY <1>1 DEF ConnsOK
<1>3. ConnsOK'
  BY <1>2 DEF ConnsOK
<1>4. ASSUME NEW a \in Actors, NEW i \in 1..Len(mail[a]) PROVE MessageOK(mail[a][i], a, conn')
  <2>1. MessageOK(mail[a][i], a, conn)
    BY <1>4 DEF MailsOK, MailOK
  <2>2. mail[a][i].reply # None => mail[a][i].reply \in Conns /\ mail[a][i].reply # c
    BY <2>1 DEF MessageOK, Messages
  <2> QED
    BY <1>2, <2>1, <2>2 DEF MessageOK
<1>5. MailsOK'
  BY <1>4 DEF MailsOK, MailOK
<1> QED
  BY <1>3, <1>5

(* The record of a connection whose response is ready.                     *)
Replied(r, ok, result) ==
  [r EXCEPT !.st = "write", !.ok = ok, !.result = result, !.tenant = None, !.actor = 0]

LEMMA RepliedOK ==
  ASSUME NEW A, NEW r, ConnOK(r, A), NEW ok \in BOOLEAN, NEW result \in Sandboxes \cup {None},
         ok /\ r.cmd \in {"ADD", "DEL"} => result = r.sb /\ (r.cmd = "ADD" => r.sb \in A)
  PROVE  ConnOK(Replied(r, ok, result), A)
<1>1. r \in ConnType /\ 0 \in 0..MaxActors /\ "write" \in Stages
  BY ConstantsAssumption DEF ConnOK, Stages
<1>2. Replied(r, ok, result) \in ConnType
  BY <1>1 DEF ConnType, Replied
<1>3. /\ Replied(r, ok, result).st = "write"
      /\ Replied(r, ok, result).ok = ok
      /\ Replied(r, ok, result).result = result
      /\ Replied(r, ok, result).cmd = r.cmd
      /\ Replied(r, ok, result).sb = r.sb
  BY <1>1 DEF ConnType, Replied
<1> QED
  BY <1>2, <1>3 DEF ConnOK, Earned

LEMMA RespondStep ==
  ASSUME ConnsOK, MailsOK, NEW c \in Conns, NEW ok \in BOOLEAN,
         NEW result \in Sandboxes \cup {None}, Respond(c, ok, result),
         ok /\ conn[c].cmd \in {"ADD", "DEL"} =>
           result = conn[c].sb /\ (conn[c].cmd = "ADD" => conn[c].sb \in attached),
         conn[c].st # "wait", UNCHANGED <<mail, attached>>
  PROVE  ConnsOK' /\ MailsOK'
<1>1. conn' = [conn EXCEPT ![c] = Replied(conn[c], ok, result)]
  BY DEF Respond, Replied
<1>2. ConnOK(Replied(conn[c], ok, result), attached)
  BY RepliedOK DEF ConnsOK
<1> QED
  BY <1>1, <1>2, ConnStep

(* A plugin that ends with a success has been told of one that is earned.  *)
LEMMA PluginEndsOK ==
  ASSUME ConnsOK, AddedOK, NEW c \in Conns, NEW ok \in BOOLEAN, PluginEnds(c, ok),
         ok => conn[c].st = "write" /\ conn[c].ok, UNCHANGED attached
  PROVE  AddedOK'
<1>1. conn[c].cmd = "ADD" /\ ok => conn[c].sb \in attached
  BY DEF ConnsOK, ConnOK, Earned
<1> QED
  BY <1>1 DEF PluginEnds, AddedOK

(* A goroutine that goes on to stage st with the rest of its record.       *)
LEMMA GoOnStep ==
  ASSUME ConnsOK, MailsOK, NEW c \in Conns, NEW st \in Stages, GoOn(c, st),
         conn[c].st # "wait",
         st \in {"expired", "route"} /\ conn[c].st \in {"cache", "expired"},
         UNCHANGED <<mail, attached>>
  PROVE  ConnsOK' /\ MailsOK'
<1> DEFINE r == [conn[c] EXCEPT !.st = st]
<1>1. conn[c] \in ConnType /\ ConnOK(conn[c], attached)
  BY DEF ConnsOK
<1>2. r \in ConnType
  BY <1>1 DEF ConnType
<1>3. /\ r.st = st /\ r.cmd = conn[c].cmd /\ r.sb = conn[c].sb /\ r.tenant = conn[c].tenant
  BY <1>1 DEF ConnType
<1>4. ConnOK(r, attached)
  BY <1>1, <1>2, <1>3 DEF ConnOK
<1>5. conn' = [conn EXCEPT ![c] = r]
  BY DEF GoOn
<1> QED
  BY <1>4, <1>5, ConnStep

-----------------------------------------------------------------------------
(* One lemma per action.                                                   *)
LEMMA CallInv ==
  ASSUME IInv, NEW c \in Conns, NEW s \in Sandboxes \cup {None}, NEW cmd \in Commands,
         NEW codec \in Codecs, NEW timed \in Timed, Call(c, s, cmd, codec, timed)
  PROVE  IInv'
<1> DEFINE r == [Closed EXCEPT !.st = "read", !.cmd = cmd, !.sb = s,
                               !.codec = codec, !.timed = timed, !.client = TRUE]
<1>1. /\ cmd \in {"ADD", "DEL", "CHECK", "STATUS", "GC"} /\ codec \in {"json", "bin", "junk"}
      /\ timed \in BOOLEAN /\ 0 \in 0..MaxActors /\ (cmd \in {"STATUS", "GC"}) = (s = None)
  BY ConstantsAssumption DEF Call
<1>2. /\ r.st = "read" /\ r.cmd = cmd /\ r.sb = s
      /\ r \in ConnType
  BY <1>1 DEF Closed, ConnType, Stages
<1>3. ConnOK(r, attached)
  BY <1>1, <1>2 DEF ConnOK
<1>4. ConnsOK' /\ MailsOK'
  BY <1>3, ConnStep DEF IInv, Call
<1> QED
  BY <1>4 DEF IInv, Call, CacheOK, ActorsOK, AddedOK

LEMMA ClientGivesUpInv ==
  ASSUME IInv, NEW c \in Conns, ClientGivesUp(c)
  PROVE  IInv'
<1> DEFINE r == [conn[c] EXCEPT !.client = FALSE]
<1>1. conn[c] \in ConnType /\ ConnOK(conn[c], attached)
  BY DEF IInv, ConnsOK
<1>2. r \in ConnType
  BY <1>1 DEF ConnType
<1>3. /\ r.st = conn[c].st /\ r.cmd = conn[c].cmd /\ r.sb = conn[c].sb
      /\ r.tenant = conn[c].tenant /\ r.actor = conn[c].actor
      /\ r.ok = conn[c].ok /\ r.result = conn[c].result
  BY <1>1 DEF ConnType
<1>4. ConnOK(r, attached)
  BY <1>1, <1>2, <1>3 DEF ConnOK, Earned
<1>5. \A d \in Conns : conn'[d] = IF d = c THEN r ELSE conn[d]
  BY DEF IInv, ConnsOK, ClientGivesUp
<1>6. ConnsOK'
  BY <1>2, <1>4, <1>5 DEF IInv, ConnsOK, ClientGivesUp
<1>7. ASSUME NEW a \in Actors, NEW i \in 1..Len(mail[a]) PROVE MessageOK(mail[a][i], a, conn')
  <2>1. MessageOK(mail[a][i], a, conn)
    BY <1>7 DEF IInv, MailsOK, MailOK
  <2>2. mail[a][i].reply # None => mail[a][i].reply \in Conns
    BY <2>1 DEF MessageOK, Messages
  <2>3. \A d \in Conns : /\ conn'[d].st = conn[d].st /\ conn'[d].actor = conn[d].actor
                         /\ conn'[d].cmd = conn[d].cmd /\ conn'[d].sb = conn[d].sb
    BY <1>3, <1>5
  <2> QED
    BY <2>1, <2>2, <2>3 DEF MessageOK, ClientGivesUp
<1>8. MailsOK'
  BY <1>7 DEF IInv, MailsOK, MailOK, ClientGivesUp
<1>9. AddedOK'
  BY PluginEndsOK DEF IInv, ClientGivesUp
<1> QED
  BY <1>6, <1>8, <1>9 DEF IInv, ClientGivesUp, CacheOK, ActorsOK

LEMMA RejectFrameInv ==
  ASSUME IInv, NEW c \in Conns, RejectFrame(c)
  PROVE  IInv'
<1>1. ConnsOK' /\ MailsOK'
  BY ClosedOK, ConnStep DEF IInv, RejectFrame
<1>2. AddedOK'
  BY PluginEndsOK DEF IInv, RejectFrame
<1> QED
  BY <1>1, <1>2 DEF IInv, RejectFrame, CacheOK, ActorsOK

LEMMA WriteResponseInv ==
  ASSUME IInv, NEW c \in Conns, WriteResponse(c)
  PROVE  IInv'
<1>1. ConnsOK' /\ MailsOK'
  BY ClosedOK, ConnStep DEF IInv, WriteResponse
<1>2. conn[c].ok \in BOOLEAN
  BY DEF IInv, ConnsOK, ConnType
<1>3. AddedOK'
  BY <1>2, PluginEndsOK DEF IInv, WriteResponse
<1> QED
  BY <1>1, <1>3 DEF IInv, WriteResponse, CacheOK, ActorsOK

LEMMA AnswerDirectlyInv ==
  ASSUME IInv, NEW c \in Conns, AnswerDirectly(c)
  PROVE  IInv'
<1>1. ConnsOK' /\ MailsOK'
  BY RespondStep DEF IInv, AnswerDirectly
<1> QED
  BY <1>1 DEF IInv, AnswerDirectly, CacheOK, ActorsOK, AddedOK

LEMMA ResolveInv ==
  ASSUME IInv, NEW c \in Conns, NEW x \in Annotations, Resolve(c, x)
  PROVE  IInv'
<1>1. CASE x = Missing
  <2>1. Respond(c, FALSE, None) \/ x # Missing
    BY DEF Resolve
  <2>2. ConnsOK' /\ MailsOK'
    BY <1>1, <2>1, RespondStep DEF IInv, Resolve
  <2> QED
    BY <2>2 DEF IInv, Resolve, CacheOK, ActorsOK, AddedOK
<1>2. CASE x # Missing
  <2> DEFINE r == [conn[c] EXCEPT !.st = "cache", !.tenant = TenantOf(x)]
  <2>1. TenantOf(x) \in Tenants
    BY <1>2, ConstantsAssumption DEF TenantOf, Annotations
  <2>2. conn[c] \in ConnType /\ ConnOK(conn[c], attached) /\ conn[c].st = "read"
    BY DEF IInv, ConnsOK, Resolve
  <2>3. r \in ConnType
    BY <2>1, <2>2 DEF ConnType, Stages
  <2>4. /\ r.st = "cache" /\ r.tenant = TenantOf(x)
        /\ r.cmd = conn[c].cmd /\ r.sb = conn[c].sb
    BY <2>2 DEF ConnType
  <2>5. ConnOK(r, attached)
    BY <2>1, <2>2, <2>3, <2>4 DEF ConnOK, Resolve
  <2>6. conn' = [conn EXCEPT ![c] = r]
    <3>1. conn' = [conn EXCEPT ![c].st = "cache", ![c].tenant = TenantOf(x)]
      BY <1>2 DEF Resolve
    <3> QED
      BY <3>1 DEF IInv, ConnsOK
  <2>7. ConnsOK' /\ MailsOK'
    BY <2>2, <2>5, <2>6, ConnStep DEF IInv, Resolve
  <2> QED
    BY <2>7 DEF IInv, Resolve, CacheOK, ActorsOK, AddedOK
<1> QED
  BY <1>1, <1>2

LEMMA LookInCacheInv ==
  ASSUME IInv, NEW c \in Conns, LookInCache(c)
  PROVE  IInv'
<1> DEFINE u == PodOf[conn[c].sb]
           e == cache[u]
<1>1. /\ conn[c] \in ConnType /\ ConnOK(conn[c], attached) /\ conn[c].st = "cache"
      /\ conn[c].sb \in Sandboxes /\ u \in Pods
  <2>1. conn[c] \in ConnType /\ ConnOK(conn[c], attached) /\ conn[c].st = "cache"
    BY DEF IInv, ConnsOK, LookInCache
  <2> QED
    BY <2>1, ConstantsAssumption DEF ConnType, ConnOK
<1>2. CASE /\ e # None /\ Hit(conn[c], e)
           /\ cache' = [cache EXCEPT ![u].old = FALSE]
           /\ Respond(c, TRUE, e.result)
  <2>1. EntryOK(e, attached) /\ e \in EntryType
    BY <1>1, <1>2 DEF IInv, CacheOK, EntryOK
  <2>2. e.result \in Sandboxes
    BY <2>1 DEF EntryType
  <2>3. conn[c].cmd \in {"ADD", "DEL"} =>
          e.result = conn[c].sb /\ (conn[c].cmd = "ADD" => conn[c].sb \in attached)
    BY <1>2, <2>1 DEF Hit, EntryOK, computeIdemKey
  <2>4. ConnsOK' /\ MailsOK'
    BY <1>1, <1>2, <2>2, <2>3, RespondStep DEF IInv, LookInCache
  <2>5. [e EXCEPT !.old = FALSE] \in EntryType /\ EntryOK([e EXCEPT !.old = FALSE], attached)
    BY <2>1 DEF EntryType, EntryOK
  <2>6. CacheOK'
    BY <1>1, <1>2, <2>5 DEF IInv, CacheOK, LookInCache
  <2> QED
    BY <2>4, <2>6 DEF IInv, LookInCache, ActorsOK, AddedOK
<1>3. CASE GoOn(c, "expired") /\ UNCHANGED cache
  <2>1. ConnsOK' /\ MailsOK'
    BY <1>1, <1>3, GoOnStep DEF IInv, LookInCache, Stages
  <2> QED
    BY <1>3, <2>1 DEF IInv, LookInCache, CacheOK, ActorsOK, AddedOK
<1>4. CASE GoOn(c, "route") /\ UNCHANGED cache
  <2>1. ConnsOK' /\ MailsOK'
    BY <1>1, <1>4, GoOnStep DEF IInv, LookInCache, Stages
  <2> QED
    BY <1>4, <2>1 DEF IInv, LookInCache, CacheOK, ActorsOK, AddedOK
<1> QED
  BY <1>2, <1>3, <1>4 DEF LookInCache

LEMMA DeleteExpiredInv ==
  ASSUME IInv, NEW c \in Conns, DeleteExpired(c)
  PROVE  IInv'
<1>1. ConnsOK' /\ MailsOK'
  BY GoOnStep DEF IInv, DeleteExpired, Stages
<1>2. CacheOK'
  BY DEF IInv, CacheOK, DeleteExpired
<1> QED
  BY <1>1, <1>2 DEF IInv, DeleteExpired, ActorsOK, AddedOK

LEMMA RouteInv ==
  ASSUME IInv, NEW c \in Conns, Route(c)
  PROVE  IInv'
<1> DEFINE a == current[conn[c].tenant]
<1>1. /\ conn[c] \in ConnType /\ ConnOK(conn[c], attached) /\ conn[c].st = "route"
      /\ conn[c].tenant \in Tenants /\ a \in 0..MaxActors
  <2>1. conn[c] \in ConnType /\ ConnOK(conn[c], attached) /\ conn[c].st = "route"
    BY DEF IInv, ConnsOK, Route
  <2> QED
    BY <2>1 DEF ConnOK, IInv, ActorsOK
<1>2. ConnsOK' /\ MailsOK'
  <2>1. CASE conn[c].cmd = "CHECK" /\ Respond(c, TRUE, None)
    BY <1>1, <2>1, RespondStep DEF IInv, Route
  <2>2. CASE conn[c].cmd # "CHECK" /\ a = 0 /\ Respond(c, FALSE, None)
    BY <1>1, <2>2, RespondStep DEF IInv, Route
  <2>3. CASE /\ conn[c].cmd # "CHECK" /\ a # 0
             /\ conn' = [conn EXCEPT ![c].st = "send", ![c].actor = a, ![c].tenant = None]
    <3> DEFINE r == [conn[c] EXCEPT !.st = "send", !.actor = a, !.tenant = None]
    <3>1. r \in ConnType
      BY <1>1 DEF ConnType, Stages
    <3>2. /\ r.st = "send" /\ r.actor = a /\ r.cmd = conn[c].cmd /\ r.sb = conn[c].sb
      BY <1>1 DEF ConnType
    <3>3. conn[c].cmd \in {"ADD", "DEL"} /\ a \in Actors
      BY <1>1, <2>3, ConstantsAssumption DEF ConnOK, ConnType, Actors
    <3>4. ConnOK(r, attached)
      BY <1>1, <3>1, <3>2, <3>3 DEF ConnOK
    <3>5. conn' = [conn EXCEPT ![c] = r]
      BY <2>3 DEF IInv, ConnsOK
    <3> QED
      BY <1>1, <3>4, <3>5, ConnStep DEF IInv, Route
  <2> QED
    BY <2>1, <2>2, <2>3 DEF Route
<1> QED
  BY <1>2 DEF IInv, Route, CacheOK, ActorsOK, AddedOK

LEMMA SendTimesOutInv ==
  ASSUME IInv, NEW c \in Conns, SendTimesOut(c)
  PROVE  IInv'
<1>1. ConnsOK' /\ MailsOK'
  BY RespondStep DEF IInv, SendTimesOut
<1> QED
  BY <1>1 DEF IInv, SendTimesOut, CacheOK, ActorsOK, AddedOK

LEMMA TakeErrorInv ==
  ASSUME IInv, NEW c \in Conns, TakeError(c)
  PROVE  IInv'
<1>1. ConnsOK' /\ MailsOK'
  BY RespondStep DEF IInv, TakeError
<1> QED
  BY <1>1 DEF IInv, TakeError, CacheOK, ActorsOK, AddedOK

LEMMA TakeResultInv ==
  ASSUME IInv, NEW c \in Conns, TakeResult(c)
  PROVE  IInv'
<1> DEFINE e == [cmd |-> conn[c].cmd, key |-> computeIdemKey(conn[c]),
                 result |-> conn[c].result, old |-> FALSE]
<1>1. /\ conn[c] \in ConnType /\ ConnOK(conn[c], attached) /\ conn[c].st = "replied" /\ conn[c].ok
  BY DEF IInv, ConnsOK, TakeResult
<1>2. /\ conn[c].cmd \in {"ADD", "DEL"} /\ conn[c].result = conn[c].sb
      /\ conn[c].cmd = "ADD" => conn[c].sb \in attached
      /\ conn[c].sb \in Sandboxes /\ PodOf[conn[c].sb] \in Pods
  BY <1>1, ConstantsAssumption DEF ConnOK, Earned, ConnType
<1>3. e \in EntryType /\ EntryOK(e, attached)
  BY <1>2 DEF EntryType, EntryOK, computeIdemKey
<1>4. CacheOK'
  BY <1>2, <1>3 DEF IInv, CacheOK, TakeResult
<1>5. ConnsOK' /\ MailsOK'
  BY <1>1, <1>2, RespondStep DEF IInv, TakeResult
<1> QED
  BY <1>4, <1>5 DEF IInv, TakeResult, ActorsOK, AddedOK

-----------------------------------------------------------------------------
(* The actions on mailboxes.                                               *)

(* What a mailbox says of one message.                                     *)
LEMMA MessageFacts ==
  ASSUME MailsOK, NEW a \in Actors, NEW i \in 1..Len(mail[a])
  PROVE  /\ mail[a][i] \in Messages /\ MessageOK(mail[a][i], a, conn)
         /\ mail[a][i].reply # None => mail[a][i].reply \in Conns
BY DEF MailsOK, MailOK, MessageOK, Messages

LEMMA EnqueueInv ==
  ASSUME IInv, NEW c \in Conns, Enqueue(c)
  PROVE  IInv'
<1> DEFINE a == conn[c].actor
           m == [cmd |-> conn[c].cmd, sb |-> conn[c].sb, reply |-> c]
           r == [conn[c] EXCEPT !.st = "wait"]
<1>1. /\ conn[c] \in ConnType /\ ConnOK(conn[c], attached) /\ conn[c].st = "send"
  BY DEF IInv, ConnsOK, Enqueue
<1>2. /\ a \in Actors /\ conn[c].cmd \in {"ADD", "DEL"} /\ conn[c].sb \in Sandboxes
  BY <1>1 DEF ConnOK, ConnType
<1>3. r \in ConnType
  BY <1>1 DEF ConnType, Stages
<1>4. /\ r.st = "wait" /\ r.actor = a /\ r.cmd = conn[c].cmd /\ r.sb = conn[c].sb
  BY <1>1 DEF ConnType
<1>5. ConnOK(r, attached)
  BY <1>1, <1>2, <1>3, <1>4 DEF ConnOK
<1>6. conn' = [conn EXCEPT ![c] = r]
  BY DEF Enqueue, GoOn
<1>7. conn' \in [Conns -> ConnType] /\ \A d \in Conns : conn'[d] = IF d = c THEN r ELSE conn[d]
  BY <1>3, <1>6 DEF IInv, ConnsOK
<1>8. ConnsOK'
  BY <1>5, <1>7 DEF IInv, ConnsOK, Enqueue
<1>9. m \in Messages /\ m.reply = c /\ m.cmd = conn[c].cmd /\ m.sb = conn[c].sb
  BY <1>2 DEF Messages
<1>10. MessageOK(m, a, conn')
  <2>1. c # None /\ m.sb # None /\ m.cmd # "STOP"
    BY <1>2, <1>9, ConstantsAssumption DEF Conns
  <2>2. conn'[c] = r
    BY <1>7
  <2> QED
    BY <1>4, <1>7, <1>9, <2>1, <2>2 DEF MessageOK
<1>11. mail[a] \in Seq(Messages) /\ Len(mail[a]) < MailboxSize
  BY <1>2 DEF IInv, MailsOK, Enqueue
<1>12. mail' \in [Actors -> Seq(Messages)]
       /\ \A b \in Actors : mail'[b] = IF b = a THEN Append(mail[a], m) ELSE mail[b]
  <2>1. Append(mail[a], m) \in Seq(Messages)
    BY <1>9, <1>11
  <2>2. mail' = [mail EXCEPT ![a] = Append(mail[a], m)]
    BY DEF Enqueue
  <2>3. mail \in [Actors -> Seq(Messages)]
    BY DEF IInv, MailsOK
  <2> QED
    BY <1>2, <2>1, <2>2, <2>3
<1>13. ASSUME NEW b \in Actors, NEW i \in 1..Len(mail[b])
       PROVE  MessageOK(mail[b][i], b, conn) /\ mail[b][i].reply # c
              /\ MessageOK(mail[b][i], b, conn')
  <2>1. MessageOK(mail[b][i], b, conn) /\ (mail[b][i].reply # None => mail[b][i].reply \in Conns)
    BY MessageFacts DEF IInv
  <2>2. mail[b][i].reply # c
    BY <1>1, <2>1, ConstantsAssumption DEF MessageOK, Conns
  <2> QED
    BY <1>7, <2>1, <2>2 DEF MessageOK
<1>14. ASSUME NEW b \in Actors PROVE MailOK(mail'[b], b, conn')
  <2>1. CASE b # a
    <3>1. mail'[b] = mail[b]
      BY <1>12, <2>1
    <3>2. MailOK(mail[b], b, conn)
      BY DEF IInv, MailsOK
    <3> QED
      BY <1>13, <3>1, <3>2 DEF MailOK
  <2>2. CASE b = a
    <3>1. mail'[b] = Append(mail[a], m)
      BY <1>12, <2>2
    <3>2. /\ Append(mail[a], m) \in Seq(Messages)
          /\ Len(Append(mail[a], m)) = Len(mail[a]) + 1 /\ Len(mail[a]) \in Nat
          /\ \A i \in 1..Len(mail[a]) : Append(mail[a], m)[i] = mail[a][i]
          /\ Append(mail[a], m)[Len(mail[a]) + 1] = m
      BY <1>9, <1>11
    <3>3. \A i \in 1..Len(mail'[b]) : MessageOK(mail'[b][i], b, conn')
      BY <1>2, <1>4, <1>10, <1>13, <2>2, <3>1, <3>2
    <3>4. MailOK(mail[a], a, conn)
      BY <1>2 DEF IInv, MailsOK
    <3>5. \A i, j \in 1..Len(mail'[b]) :
            mail'[b][i].reply = mail'[b][j].reply /\ mail'[b][i].reply # None => i = j
      BY <1>2, <1>9, <1>13, <3>1, <3>2, <3>4 DEF MailOK
    <3>6. mail'[b] \in Seq(Messages) /\ Len(mail'[b]) <= MailboxSize
      BY <1>11, <3>1, <3>2, ConstantsAssumption
    <3> QED
      BY <3>3, <3>5, <3>6 DEF MailOK
  <2> QED
    BY <2>1, <2>2
<1>15. MailsOK'
  BY <1>12, <1>14 DEF MailsOK
<1> QED
  BY <1>8, <1>15 DEF IInv, Enqueue, CacheOK, ActorsOK, AddedOK

(* Orphaned changes the reply channels only.                               *)
LEMMA OrphanedFacts ==
  ASSUME NEW q \in Seq(Messages), NEW c
  PROVE  /\ Orphaned(q, c) \in Seq(Messages) /\ Len(Orphaned(q, c)) = Len(q)
         /\ \A i \in 1..Len(q) :
              /\ Orphaned(q, c)[i].cmd = q[i].cmd /\ Orphaned(q, c)[i].sb = q[i].sb
              /\ Orphaned(q, c)[i].reply = IF q[i].reply = c THEN None ELSE q[i].reply
<1>1. \A i \in 1..Len(q) : q[i] \in Messages
  OBVIOUS
<1>2. \A i \in 1..Len(q) : [q[i] EXCEPT !.reply = None] \in Messages
  BY <1>1 DEF Messages
<1>3. /\ Len(q) \in Nat /\ DOMAIN Orphaned(q, c) = 1..Len(q)
      /\ \A i \in 1..Len(q) : Orphaned(q, c)[i] =
           IF q[i].reply = c THEN [q[i] EXCEPT !.reply = None] ELSE q[i]
  BY DEF Orphaned
<1>4. \A i \in 1..Len(q) : Orphaned(q, c)[i] \in Messages
  BY <1>1, <1>2, <1>3
<1>5. Orphaned(q, c) \in Seq(Messages) /\ Len(Orphaned(q, c)) = Len(q)
  BY <1>1, <1>2 DEF Orphaned
<1> QED
  BY <1>1, <1>3, <1>5 DEF Messages

LEMMA WaitTimesOutInv ==
  ASSUME IInv, NEW c \in Conns, WaitTimesOut(c)
  PROVE  IInv'
<1> DEFINE a == conn[c].actor
           r == Replied(conn[c], FALSE, None)
           q == Orphaned(mail[a], c)
<1>1. /\ conn[c] \in ConnType /\ ConnOK(conn[c], attached) /\ conn[c].st \in {"wait", "replied"}
  BY DEF IInv, ConnsOK, WaitTimesOut, InMailbox
<1>2. a \in Actors /\ mail[a] \in Seq(Messages) /\ MailOK(mail[a], a, conn)
  BY <1>1 DEF ConnOK, IInv, MailsOK
<1>3. ConnOK(r, attached) /\ r \in ConnType
  <2>1. ConnOK(r, attached)
    BY <1>1, RepliedOK
  <2> QED
    BY <2>1 DEF ConnOK
<1>4. conn' = [conn EXCEPT ![c] = r]
  BY DEF WaitTimesOut, Respond, Replied
<1>5. conn' \in [Conns -> ConnType] /\ \A d \in Conns : conn'[d] = IF d = c THEN r ELSE conn[d]
  BY <1>3, <1>4 DEF IInv, ConnsOK
<1>6. ConnsOK'
  BY <1>3, <1>5 DEF IInv, ConnsOK, WaitTimesOut
<1>7. q \in Seq(Messages) /\ Len(q) = Len(mail[a])
  BY <1>2, OrphanedFacts
<1>8. mail' \in [Actors -> Seq(Messages)]
      /\ \A b \in Actors : mail'[b] = IF b = a THEN q ELSE mail[b]
  <2>1. mail' = [mail EXCEPT ![a] = q]
    BY DEF WaitTimesOut
  <2>2. mail \in [Actors -> Seq(Messages)]
    BY DEF IInv, MailsOK
  <2> QED
    BY <1>2, <1>7, <2>1, <2>2
<1>9. MailOK(q, a, conn')
  <2>1. ASSUME NEW i \in 1..Len(q) PROVE MessageOK(q[i], a, conn')
    <3>1. MessageOK(mail[a][i], a, conn) /\ (mail[a][i].reply # None => mail[a][i].reply \in Conns)
      BY <1>2, <1>7, MessageFacts DEF IInv
    <3>2. /\ q[i].cmd = mail[a][i].cmd /\ q[i].sb = mail[a][i].sb
          /\ q[i].reply = IF mail[a][i].reply = c THEN None ELSE mail[a][i].reply
          /\ q[i] \in Messages
      BY <1>2, <1>7, OrphanedFacts
    <3> QED
      BY <1>5, <3>1, <3>2 DEF MessageOK
  <2>2. \A i, j \in 1..Len(q) : q[i].reply = q[j].reply /\ q[i].reply # None => i = j
    <3>1. \A i \in 1..Len(mail[a]) :
            q[i].reply = IF mail[a][i].reply = c THEN None ELSE mail[a][i].reply
      BY <1>2, OrphanedFacts
    <3> QED
      BY <1>2, <1>7, <3>1 DEF MailOK
  <2>3. Len(q) <= MailboxSize
    BY <1>2, <1>7 DEF MailOK
  <2> QED
    BY <1>7, <2>1, <2>2, <2>3 DEF MailOK
<1>10. ASSUME NEW b \in Actors, b # a PROVE MailOK(mail[b], b, conn')
  <2>1. ASSUME NEW i \in 1..Len(mail[b]) PROVE MessageOK(mail[b][i], b, conn')
    <3>1. MessageOK(mail[b][i], b, conn) /\ (mail[b][i].reply # None => mail[b][i].reply \in Conns)
      BY MessageFacts DEF IInv
    <3>2. mail[b][i].reply # None => mail[b][i].reply # c
      BY <1>10, <3>1 DEF MessageOK
    <3> QED
      BY <1>5, <3>1, <3>2 DEF MessageOK
  <2> QED
    BY <2>1 DEF MailOK, IInv, MailsOK
<1>11. MailsOK'
  BY <1>8, <1>9, <1>10 DEF MailsOK
<1> QED
  BY <1>6, <1>11 DEF IInv, WaitTimesOut, CacheOK, ActorsOK, AddedOK

(* The first message is taken out of a mailbox.                            *)
LEMMA TailOK ==
  ASSUME NEW a, NEW cs, NEW q, MailOK(q, a, cs), q # <<>>
  PROVE  /\ MailOK(Tail(q), a, cs)
         /\ Head(q) = q[1] /\ 1 \in 1..Len(q)
         /\ \A i \in 1..Len(Tail(q)) : Tail(q)[i].reply # None => Tail(q)[i].reply # Head(q).reply
<1>1. /\ q \in Seq(Messages) /\ Len(q) \in Nat /\ Len(q) > 0 /\ Len(q) <= MailboxSize
      /\ Head(q) = q[1] /\ Tail(q) \in Seq(Messages) /\ Len(Tail(q)) = Len(q) - 1
      /\ \A i \in 1..Len(Tail(q)) : i + 1 \in 1..Len(q) /\ Tail(q)[i] = q[i + 1]
  BY DEF MailOK
<1>2. \A i \in 1..Len(Tail(q)) : MessageOK(Tail(q)[i], a, cs)
  BY <1>1 DEF MailOK
<1>3. \A i, j \in 1..Len(q) : q[i].reply = q[j].reply /\ q[i].reply # None => i = j
  BY DEF MailOK
<1>4. \A i, j \in 1..Len(Tail(q)) :
        Tail(q)[i].reply = Tail(q)[j].reply /\ Tail(q)[i].reply # None => i = j
  <2>1. SUFFICES ASSUME NEW i \in 1..Len(Tail(q)), NEW j \in 1..Len(Tail(q)),
                        q[i + 1].reply = q[j + 1].reply, q[i + 1].reply # None
                 PROVE  i = j
    BY <1>1
  <2>2. i + 1 = j + 1
    BY <1>1, <1>3, <2>1
  <2> QED
    BY <1>1, <2>2
<1>5. Len(Tail(q)) <= MailboxSize
  BY <1>1, ConstantsAssumption
<1>6. ASSUME NEW i \in 1..Len(Tail(q)), Tail(q)[i].reply # None
      PROVE  Tail(q)[i].reply # Head(q).reply
  <2>1. i + 1 \in 1..Len(q) /\ 1 \in 1..Len(q) /\ i + 1 # 1
    BY <1>1
  <2> QED
    BY <1>1, <1>3, <1>6, <2>1
<1> QED
  BY <1>1, <1>2, <1>4, <1>5, <1>6 DEF MailOK

(* An actor answers a request.                                             *)
LEMMA AnswerStep ==
  ASSUME ConnsOK, MailsOK, NEW a \in Actors, mail[a] # <<>>, Head(mail[a]).cmd # "STOP",
         NEW ok \in BOOLEAN, NEW result \in Sandboxes \cup {None}, Answer(a, ok, result),
         attached \subseteq attached',
         ok => /\ result = Head(mail[a]).sb
               /\ Head(mail[a]).cmd = "ADD" => Head(mail[a]).sb \in attached'
  PROVE  ConnsOK' /\ MailsOK'
<1> DEFINE c == Head(mail[a]).reply
           r == [conn[c] EXCEPT !.st = "replied", !.ok = ok, !.result = result]
<1>1. /\ MailOK(mail[a], a, conn) /\ MailOK(Tail(mail[a]), a, conn)
      /\ MessageOK(Head(mail[a]), a, conn) /\ (c # None => c \in Conns)
      /\ \A i \in 1..Len(Tail(mail[a])) : Tail(mail[a])[i].reply # None => Tail(mail[a])[i].reply # c
  <2>1. MailOK(mail[a], a, conn)
    BY DEF MailsOK
  <2> QED
    BY <2>1, TailOK, MessageFacts
<1>2. mail' \in [Actors -> Seq(Messages)]
      /\ \A b \in Actors : mail'[b] = IF b = a THEN Tail(mail[a]) ELSE mail[b]
  <2>1. Tail(mail[a]) \in Seq(Messages) /\ mail \in [Actors -> Seq(Messages)]
    BY <1>1 DEF MailOK, MailsOK
  <2> QED
    BY <2>1 DEF Answer
<1>3. CASE c = None
  <2>1. conn' = conn
    BY <1>3 DEF Answer
  <2>2. ConnsOK'
    BY <2>1, ConnMono DEF ConnsOK
  <2>3. \A b \in Actors : MailOK(mail'[b], b, conn')
    BY <1>1, <1>2, <2>1 DEF MailsOK
  <2> QED
    BY <1>2, <2>2, <2>3 DEF MailsOK
<1>4. CASE c # None
  <2>1. /\ c \in Conns /\ conn[c].st = "wait" /\ conn[c].actor = a
        /\ conn[c].cmd = Head(mail[a]).cmd /\ conn[c].sb = Head(mail[a]).sb
        /\ conn[c] \in ConnType /\ ConnOK(conn[c], attached)
    BY <1>1, <1>4 DEF MessageOK, ConnsOK
  <2>2. conn' = [conn EXCEPT ![c] = r]
    BY <1>4 DEF Answer
  <2>3. r \in ConnType
    BY <2>1 DEF ConnType, Stages
  <2>4. /\ r.st = "replied" /\ r.ok = ok /\ r.result = result /\ r.cmd = conn[c].cmd
        /\ r.sb = conn[c].sb /\ r.actor = conn[c].actor
    BY <2>1 DEF ConnType
  <2>5. ConnOK(r, attached')
    BY <2>1, <2>3, <2>4 DEF ConnOK, Earned
  <2>6. conn' \in [Conns -> ConnType] /\ \A d \in Conns : conn'[d] = IF d = c THEN r ELSE conn[d]
    BY <2>2, <2>3 DEF ConnsOK
  <2>7. ConnsOK'
    BY <2>5, <2>6, ConnMono DEF ConnsOK
  <2>8. ASSUME NEW b \in Actors, NEW i \in 1..Len(mail'[b])
        PROVE  MessageOK(mail'[b][i], b, conn')
    <3>1. /\ MessageOK(mail'[b][i], b, conn)
          /\ mail'[b][i].reply # None => mail'[b][i].reply \in Conns /\ mail'[b][i].reply # c
      <4>1. CASE b = a
        <5>1. mail'[b] = Tail(mail[a])
          BY <1>2, <4>1
        <5>2. MessageOK(mail'[b][i], b, conn)
          BY <1>1, <2>8, <4>1, <5>1 DEF MailOK
        <5> QED
          BY <1>1, <2>8, <5>1, <5>2 DEF MessageOK, Messages
      <4>2. CASE b # a
        <5>1. MessageOK(mail[b][i], b, conn) /\ (mail[b][i].reply # None => mail[b][i].reply \in Conns)
          BY <1>2, <2>8, <4>2, MessageFacts
        <5>2. mail'[b] = mail[b]
          BY <1>2, <4>2
        <5> QED
          BY <2>1, <4>2, <5>1, <5>2 DEF MessageOK
      <4> QED
        BY <4>1, <4>2
    <3> QED
      BY <2>6, <3>1 DEF MessageOK
  <2>9. ASSUME NEW b \in Actors PROVE MailOK(mail'[b], b, conn)
    BY <1>1, <1>2, <2>9 DEF MailsOK
  <2>10. ASSUME NEW b \in Actors PROVE MailOK(mail'[b], b, conn')
    BY <2>8, <2>9 DEF MailOK
  <2> QED
    BY <1>2, <2>7, <2>10 DEF MailsOK
<1> QED
  BY <1>3, <1>4

LEMMA HeadFacts ==
  ASSUME MailsOK, NEW a \in Actors, mail[a] # <<>>
  PROVE  /\ Head(mail[a]) \in Messages
         /\ Head(mail[a]).cmd # "STOP" => Head(mail[a]).sb \in Sandboxes
<1>1. Head(mail[a]) = mail[a][1] /\ 1 \in 1..Len(mail[a])
  BY TailOK DEF MailsOK
<1>2. MessageOK(mail[a][1], a, conn)
  BY <1>1, MessageFacts
<1> QED
  BY <1>1, <1>2 DEF MessageOK, Messages

LEMMA ActorEnsuresInv ==
  ASSUME IInv, NEW a \in Actors, ActorEnsures(a)
  PROVE  IInv'
<1> DEFINE s == Head(mail[a]).sb
<1>1. mail[a] # <<>> /\ Head(mail[a]).cmd = "ADD" /\ s \in Sandboxes
  BY HeadFacts DEF ActorEnsures, IInv
<1>2. /\ ConnsOK' /\ MailsOK'
      /\ attached \subseteq attached' /\ attached' \subseteq Sandboxes
  <2>1. CASE Answer(a, FALSE, None) /\ UNCHANGED attached
    BY <1>1, <2>1, AnswerStep DEF IInv, AddedOK
  <2>2. ASSUME NEW ok \in BOOLEAN, attached' = attached \cup {s},
               Answer(a, ok, IF ok THEN s ELSE None)
        PROVE  /\ ConnsOK' /\ MailsOK'
               /\ attached \subseteq attached' /\ attached' \subseteq Sandboxes
    <3>1. (IF ok THEN s ELSE None) \in Sandboxes \cup {None}
      BY <1>1
    <3>2. ok => (IF ok THEN s ELSE None) = s
      OBVIOUS
    <3>3. ConnsOK' /\ MailsOK'
      BY <1>1, <2>2, <3>1, <3>2, AnswerStep DEF IInv
    <3> QED
      BY <1>1, <2>2, <3>3 DEF IInv, AddedOK
  <2> QED
    BY <2>1, <2>2 DEF ActorEnsures
<1>3. CacheOK'
  BY <1>2, EntryMono DEF IInv, CacheOK, ActorEnsures
<1> QED
  BY <1>2, <1>3 DEF IInv, ActorEnsures, ActorsOK, AddedOK

LEMMA ActorRemovesInv ==
  ASSUME IInv, NEW a \in Actors, ActorRemoves(a)
  PROVE  IInv'
<1> DEFINE s == Head(mail[a]).sb
<1>1. /\ mail[a] # <<>> /\ Head(mail[a]).cmd = "DEL" /\ s \in Sandboxes
      /\ attached' = attached
  BY HeadFacts DEF ActorRemoves, IInv
<1>2. ConnsOK' /\ MailsOK'
  <2>1. CASE Answer(a, FALSE, None)
    BY <1>1, <2>1, AnswerStep DEF IInv
  <2>2. CASE Answer(a, TRUE, s)
    BY <1>1, <2>2, AnswerStep DEF IInv
  <2> QED
    BY <2>1, <2>2 DEF ActorRemoves
<1> QED
  BY <1>2 DEF IInv, ActorRemoves, CacheOK, ActorsOK, AddedOK

(* A mailbox that changes without a change of the connections.             *)
LEMMA MailStep ==
  ASSUME MailsOK, NEW a \in Actors, NEW q, MailOK(q, a, conn), conn' = conn,
         mail' = [mail EXCEPT ![a] = q]
  PROVE  MailsOK'
<1>1. q \in Seq(Messages) /\ mail \in [Actors -> Seq(Messages)]
  BY DEF MailOK, MailsOK
<1>2. mail' \in [Actors -> Seq(Messages)]
      /\ \A b \in Actors : mail'[b] = IF b = a THEN q ELSE mail[b]
  BY <1>1
<1> QED
  BY <1>2 DEF MailsOK

LEMMA ActorStopsInv ==
  ASSUME IInv, NEW a \in Actors, ActorStops(a)
  PROVE  IInv'
<1>1. MailOK(Tail(mail[a]), a, conn)
  BY TailOK DEF IInv, MailsOK, ActorStops
<1>2. MailsOK'
  BY <1>1, MailStep DEF IInv, ActorStops
<1> QED
  BY <1>2 DEF IInv, ActorStops, ConnsOK, CacheOK, ActorsOK, AddedOK

LEMMA SendStopInv ==
  ASSUME IInv, NEW t \in Tenants, SendStop(t)
  PROVE  IInv'
<1> DEFINE a == current[t]
           m == [cmd |-> "STOP", sb |-> None, reply |-> None]
           q == Append(mail[a], m)
<1>1. a \in Actors
  BY ConstantsAssumption DEF IInv, ActorsOK, SendStop, Actors
<1>2. m \in Messages /\ MessageOK(m, a, conn)
  BY DEF Messages, MessageOK
<1>3. /\ mail[a] \in Seq(Messages) /\ MailOK(mail[a], a, conn) /\ Len(mail[a]) < MailboxSize
  BY <1>1 DEF IInv, MailsOK, SendStop
<1>4. /\ q \in Seq(Messages) /\ Len(q) = Len(mail[a]) + 1 /\ Len(mail[a]) \in Nat
      /\ \A i \in 1..Len(mail[a]) : q[i] = mail[a][i]
      /\ q[Len(mail[a]) + 1] = m
  BY <1>2, <1>3
<1>5. MailOK(q, a, conn)
  <2>1. \A i \in 1..Len(q) : MessageOK(q[i], a, conn)
    BY <1>2, <1>3, <1>4 DEF MailOK
  <2>2. \A i, j \in 1..Len(q) : q[i].reply = q[j].reply /\ q[i].reply # None => i = j
    BY <1>3, <1>4 DEF MailOK
  <2>3. Len(q) <= MailboxSize
    BY <1>3, <1>4, ConstantsAssumption
  <2> QED
    BY <1>4, <2>1, <2>2, <2>3 DEF MailOK
<1>6. MailsOK'
  <2>1. mail' = [mail EXCEPT ![a] = q] /\ conn' = conn
    BY DEF SendStop
  <2> QED
    BY <1>1, <1>5, <2>1, MailStep DEF IInv
<1> QED
  BY <1>6 DEF IInv, SendStop, ConnsOK, CacheOK, ActorsOK, AddedOK

LEMMA ActorTableInv ==
  ASSUME IInv, NEW t \in Tenants,
         (\E a \in Actors : StartTenantActor(t, a)) \/ DropActor(t)
  PROVE  IInv'
<1>1. ASSUME NEW a \in Actors, StartTenantActor(t, a) PROVE IInv'
  <2>1. running' \in [Actors -> BOOLEAN]
    BY <1>1, Zenon DEF IInv, ActorsOK, StartTenantActor
  <2>2. current' \in [Tenants -> 0..MaxActors]
    BY <1>1, ConstantsAssumption DEF IInv, ActorsOK, StartTenantActor, Actors
  <2> QED
    BY <1>1, <2>1, <2>2 DEF IInv, StartTenantActor, ConnsOK, CacheOK, MailsOK, ActorsOK, AddedOK
<1>2. CASE DropActor(t)
  BY <1>2, ConstantsAssumption DEF IInv, DropActor, ConnsOK, CacheOK, MailsOK, ActorsOK, AddedOK
<1> QED
  BY <1>1, <1>2

LEMMA EntryAgesInv ==
  ASSUME IInv, NEW u \in Pods, EntryAges(u)
  PROVE  IInv'
<1> DEFINE e == [cache[u] EXCEPT !.old = TRUE]
<1>1. EntryOK(cache[u], attached) /\ cache[u] \in EntryType
  BY DEF IInv, CacheOK, EntryOK, EntryAges
<1>2. e \in EntryType /\ EntryOK(e, attached)
  BY <1>1 DEF EntryType, EntryOK
<1>3. CacheOK'
  BY <1>2 DEF IInv, CacheOK, EntryAges
<1> QED
  BY <1>3 DEF IInv, EntryAges, ConnsOK, MailsOK, ActorsOK, AddedOK

-----------------------------------------------------------------------------
LEMMA InitInv == Init => IInv
<1> SUFFICES ASSUME Init PROVE IInv
  OBVIOUS
<1>1. ConnsOK
  <2>1. Closed \in ConnType
    BY ClosedOK DEF ConnOK
  <2> QED
    BY <2>1, ClosedOK DEF Init, ConnsOK
<1>2. CacheOK
  BY DEF Init, CacheOK
<1>3. MailsOK
  <2>1. \A a : MailOK(<<>>, a, conn)
    BY ConstantsAssumption DEF MailOK
  <2> QED
    BY <2>1 DEF Init, MailsOK
<1>4. ActorsOK
  BY ConstantsAssumption DEF Init, ActorsOK, Actors
<1>5. AddedOK
  BY DEF Init, AddedOK
<1> QED
  BY <1>1, <1>2, <1>3, <1>4, <1>5 DEF IInv

LEMMA NextInv ==
  ASSUME IInv, [Next]_vars
  PROVE  IInv'
<1>1. CASE UNCHANGED vars
  BY <1>1 DEF IInv, vars, ConnsOK, CacheOK, MailsOK, ActorsOK, AddedOK
<1>2. ASSUME NEW c \in Conns, handleConn(c) PROVE IInv'
  BY <1>2, RejectFrameInv, AnswerDirectlyInv, ResolveInv, LookInCacheInv, DeleteExpiredInv,
     RouteInv, EnqueueInv, SendTimesOutInv, TakeErrorInv, TakeResultInv, WaitTimesOutInv,
     WriteResponseInv DEF handleConn
<1>3. ASSUME NEW t \in Hosted, NEW a \in Actors, StartTenantActor(t, a) PROVE IInv'
  <2>1. t \in Tenants
    BY ConstantsAssumption
  <2> QED
    BY <1>3, <2>1, ActorTableInv
<1>4. CASE Next
  BY <1>2, <1>3, <1>4, CallInv, ClientGivesUpInv, ActorEnsuresInv, ActorRemovesInv, ActorStopsInv,
     SendStopInv, ActorTableInv, EntryAgesInv DEF Next
<1> QED
  BY <1>1, <1>4

(* What is known about a sandbox stays true of it in every mailbox, cache  *)
(* entry and response.                                                     *)
THEOREM InvariantHolds == Spec => []IInv
BY InitInv, NextInv, PTL DEF Spec

(* A goroutine that waits for an actor has one, no mailbox overflows, and  *)
(* the cache holds results of ADD and DEL only.                            *)
THEOREM TypeCorrect == Spec => []TypeOK
<1>1. IInv => TypeOK
  <2> SUFFICES ASSUME IInv PROVE TypeOK
    OBVIOUS
  <2>1. ASSUME NEW c \in Conns
        PROVE  /\ conn[c].st \in Stages /\ conn[c].sb \in Sandboxes \cup {None}
               /\ conn[c].result \in Sandboxes \cup {None}
               /\ conn[c].st \in {"send", "wait", "replied"} => conn[c].actor \in Actors
    BY <2>1 DEF IInv, ConnsOK, ConnOK, ConnType
  <2>2. ASSUME NEW u \in Pods, cache[u] # None
        PROVE  cache[u].cmd \in {"ADD", "DEL"} /\ cache[u].result \in Sandboxes \cup {None}
    BY <2>2 DEF IInv, CacheOK, EntryOK, EntryType
  <2>3. ASSUME NEW a \in Actors
        PROVE  Len(mail[a]) <= MailboxSize /\ \A i \in 1..Len(mail[a]) : mail[a][i] \in Messages
    BY <2>3 DEF IInv, MailsOK, MailOK
  <2> QED
    BY <2>1, <2>2, <2>3 DEF IInv, ActorsOK, AddedOK, TypeOK
<1> QED
  BY <1>1, InvariantHolds, PTL

(* No success is made up: whatever the order in which requests, timeouts,  *)
(* late work of actors and expiring cache entries follow each other, an    *)
(* ADD or DEL that is answered as done was done for that very sandbox, and *)
(* the runtime takes no sandbox without an interface for added.            *)
THEOREM NoSuccessMadeUp == Spec => []AnswersEarned
<1>1. IInv => AnswersEarned
  BY DEF IInv, ConnsOK, ConnOK, Earned, AddedOK, AnswersEarned
<1> QED
  BY <1>1, InvariantHolds, PTL

-----------------------------------------------------------------------------
(* A request goes one way.                                                 *)

(* What a step may make of an open connection r.                           *)
Onward(r, n) ==
  \/ n = r \/ n = [r EXCEPT !.client = FALSE]
  \/ Position(n.st) > Position(r.st)

(* A step about connection c alone takes it onward.                        *)
OnwardOf(c) ==
  \A d \in Conns : conn[d].st # "closed" => IF d = c THEN Onward(conn[d], conn'[d])
                                            ELSE conn'[d] = conn[d]

LEMMA Moves ==
  ASSUME conn \in [Conns -> ConnType], NEW c \in Conns, NEW n, conn' = [conn EXCEPT ![c] = n],
         Position(n.st) > Position(conn[c].st)
  PROVE  OnwardOf(c)
BY DEF OnwardOf, Onward

LEMMA MovesTo ==
  ASSUME conn \in [Conns -> ConnType], NEW c \in Conns, NEW st, GoOn(c, st),
         Position(st) > Position(conn[c].st)
  PROVE  OnwardOf(c)
<1>1. [conn[c] EXCEPT !.st = st].st = st
  BY DEF ConnType
<1> QED
  BY <1>1, Moves DEF GoOn

LEMMA MovesToWrite ==
  ASSUME conn \in [Conns -> ConnType], NEW c \in Conns, NEW ok, NEW result, Respond(c, ok, result),
         8 > Position(conn[c].st)
  PROVE  OnwardOf(c)
<1>1. Replied(conn[c], ok, result).st = "write"
  BY DEF ConnType, Replied
<1>2. Position("write") = 8
  BY DEF Position
<1> QED
  BY <1>1, <1>2, Moves DEF Respond, Replied

LEMMA GoroutineOnward ==
  ASSUME IInv, NEW c \in Conns, handleConn(c)
  PROVE  OnwardOf(c)
<1>1. conn \in [Conns -> ConnType]
  BY DEF IInv, ConnsOK
<1>2. CASE RejectFrame(c) \/ WriteResponse(c)
  <2>1. conn' = [conn EXCEPT ![c] = Closed] /\ conn[c].st \in {"read", "write"}
    BY <1>2 DEF RejectFrame, WriteResponse
  <2>2. Position(Closed.st) > Position(conn[c].st)
    BY <2>1 DEF Closed, Position
  <2> QED
    BY <1>1, <2>1, <2>2, Moves
<1>3. CASE AnswerDirectly(c) \/ SendTimesOut(c) \/ TakeError(c) \/ TakeResult(c) \/ WaitTimesOut(c)
  <2>1. /\ conn[c].st \in {"read", "send", "wait", "replied"}
        /\ \/ Respond(c, TRUE, None) \/ Respond(c, FALSE, None)
           \/ Respond(c, TRUE, conn[c].result)
    BY <1>3 DEF AnswerDirectly, SendTimesOut, TakeError, TakeResult, WaitTimesOut, InMailbox
  <2>2. 8 > Position(conn[c].st)
    BY <2>1 DEF Position
  <2> QED
    BY <1>1, <2>1, <2>2, MovesToWrite
<1>4. ASSUME NEW x \in Annotations, Resolve(c, x) PROVE OnwardOf(c)
  <2>1. conn[c].st = "read" /\ Position(conn[c].st) = 1
    BY <1>4 DEF Resolve, Position
  <2>2. CASE \E ok, result : Respond(c, ok, result)
    BY <1>1, <2>1, <2>2, MovesToWrite
  <2>3. CASE conn' = [conn EXCEPT ![c].st = "cache", ![c].tenant = TenantOf(x)]
    <3> DEFINE n == [conn[c] EXCEPT !.st = "cache", !.tenant = TenantOf(x)]
    <3>1. n.st = "cache" /\ conn' = [conn EXCEPT ![c] = n]
      BY <1>1, <2>3 DEF ConnType
    <3>2. Position("cache") > Position(conn[c].st)
      BY <2>1 DEF Position
    <3> QED
      BY <1>1, <3>1, <3>2, Moves
  <2> QED
    BY <1>4, <2>2, <2>3 DEF Resolve
<1>5. CASE LookInCache(c)
  <2>1. conn[c].st = "cache" /\ Position(conn[c].st) = 2
    BY <1>5 DEF LookInCache, Position
  <2>2. (\E ok, result : Respond(c, ok, result)) \/ GoOn(c, "expired") \/ GoOn(c, "route")
    BY <1>5 DEF LookInCache
  <2>3. Position("expired") = 3 /\ Position("route") = 4
    BY DEF Position
  <2> QED
    BY <1>1, <2>1, <2>2, <2>3, MovesToWrite, MovesTo
<1>6. CASE DeleteExpired(c)
  <2>1. Position("route") > Position(conn[c].st) /\ GoOn(c, "route")
    BY <1>6 DEF DeleteExpired, Position
  <2> QED
    BY <1>1, <2>1, MovesTo
<1>7. CASE Route(c)
  <2>1. conn[c].st = "route" /\ Position(conn[c].st) = 4
    BY <1>7 DEF Route, Position
  <2>2. CASE \E ok, result : Respond(c, ok, result)
    BY <1>1, <2>1, <2>2, MovesToWrite
  <2>3. CASE conn' = [conn EXCEPT ![c].st = "send", ![c].actor = current[conn[c].tenant],
                                  ![c].tenant = None]
    <3> DEFINE n == [conn[c] EXCEPT !.st = "send", !.actor = current[conn[c].tenant],
                                    !.tenant = None]
    <3>1. n.st = "send" /\ conn' = [conn EXCEPT ![c] = n]
      BY <1>1, <2>3 DEF ConnType
    <3>2. Position("send") > Position(conn[c].st)
      BY <2>1 DEF Position
    <3> QED
      BY <1>1, <3>1, <3>2, Moves
  <2> QED
    BY <1>7, <2>2, <2>3 DEF Route
<1>8. CASE Enqueue(c)
  <2>1. Position("wait") > Position(conn[c].st) /\ GoOn(c, "wait")
    BY <1>8 DEF Enqueue, Position
  <2> QED
    BY <1>1, <2>1, MovesTo
<1> QED
  BY <1>2, <1>3, <1>4, <1>5, <1>6, <1>7, <1>8 DEF handleConn

(* An actor answers only a goroutine that waits for that answer.           *)
LEMMA AnswerOnward ==
  ASSUME IInv, NEW a \in Actors, mail[a] # <<>>, NEW ok, NEW result, Answer(a, ok, result)
  PROVE  \A d \in Conns : Onward(conn[d], conn'[d])
<1>1. conn \in [Conns -> ConnType]
  BY DEF IInv, ConnsOK
<1>2. MessageOK(Head(mail[a]), a, conn)
  BY DEF IInv, MailsOK, MailOK
<1> DEFINE c == Head(mail[a]).reply
<1>3. CASE c = None
  BY <1>3 DEF Answer, Onward
<1>4. CASE c # None
  <2>1. c \in Conns /\ conn[c].st = "wait"
    BY <1>2, <1>4 DEF MessageOK, Messages
  <2> DEFINE n == [conn[c] EXCEPT !.st = "replied", !.ok = ok, !.result = result]
  <2>2. conn' = [conn EXCEPT ![c] = n] /\ n.st = "replied"
    BY <1>1, <1>4, <2>1 DEF Answer, ConnType
  <2>3. Position("replied") > Position(conn[c].st)
    BY <2>1 DEF Position
  <2> HIDE DEF c, n
  <2>4. \A d \in Conns : conn'[d] = IF d = c THEN n ELSE conn[d]
    BY <1>1, <2>1, <2>2
  <2> QED
    BY <2>2, <2>3, <2>4 DEF Onward
<1> QED
  BY <1>3, <1>4

(* No step takes a request back to an earlier stage, and every step of its *)
(* goroutine takes it to a later one: a request that can always go on      *)
(* (NeverStuck) is answered after at most eight steps, and an actor that   *)
(* answers too late answers nobody.                                        *)
THEOREM RequestsGoOneWay == Spec => OneWay
<1>1. ASSUME IInv, [Next]_vars, NEW c \in Conns, conn[c].st # "closed"
      PROVE  Onward(conn[c], conn'[c])
  <2>1. conn \in [Conns -> ConnType]
    BY <1>1 DEF IInv, ConnsOK
  <2>2. CASE conn' = conn
    BY <2>2 DEF Onward
  <2>3. ASSUME NEW d \in Conns, NEW s, NEW cmd, NEW codec, NEW timed,
               Call(d, s, cmd, codec, timed)
        PROVE  conn'[c] = conn[c]
    BY <1>1, <2>1, <2>3 DEF Call
  <2>4. ASSUME NEW d \in Conns, ClientGivesUp(d) PROVE Onward(conn[c], conn'[c])
    <3>1. conn'[c] = IF c = d THEN [conn[c] EXCEPT !.client = FALSE] ELSE conn[c]
      BY <2>1, <2>4 DEF ClientGivesUp
    <3> QED
      BY <3>1 DEF Onward
  <2>5. ASSUME NEW d \in Conns, handleConn(d) PROVE Onward(conn[c], conn'[c])
    <3>1. OnwardOf(d)
      BY <1>1, <2>5, GoroutineOnward
    <3> QED
      BY <1>1, <3>1 DEF OnwardOf, Onward
  <2>6. ASSUME NEW a \in Actors, ActorEnsures(a) \/ ActorRemoves(a)
        PROVE  Onward(conn[c], conn'[c])
    <3>1. mail[a] # <<>> /\ \E ok, result : Answer(a, ok, result)
      BY <2>6 DEF ActorEnsures, ActorRemoves
    <3> QED
      BY <1>1, <2>6, <3>1, AnswerOnward
  <2>7. ASSUME \/ \E a \in Actors : ActorStops(a)
               \/ \E t \in Hosted, a \in Actors : StartTenantActor(t, a)
               \/ \E t \in Tenants : SendStop(t) \/ DropActor(t)
               \/ \E u \in Pods : EntryAges(u)
               \/ UNCHANGED vars
        PROVE  conn' = conn
    BY <2>7 DEF ActorStops, StartTenantActor, SendStop, DropActor, EntryAges, vars
  <2> QED
    BY <1>1, <2>2, <2>3, <2>4, <2>5, <2>6, <2>7 DEF Next, Onward
<1>2. IInv /\ [Next]_vars =>
        \A c \in Conns : conn[c].st # "closed" /\ conn'[c] # conn[c] =>
          \/ conn'[c] = [conn[c] EXCEPT !.client = FALSE]
          \/ Position(conn'[c].st) > Position(conn[c].st)
  BY <1>1 DEF Onward
<1> QED
  BY <1>2, InvariantHolds, PTL DEF Spec, OneWay
================================================================================
