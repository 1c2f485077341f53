------------------------------ MODULE CNIServer ------------------------------
(***************************************************************************)
(* The path of a CNI call: the plugin process that the container runtime   *)
(* starts, one request over a Unix socket, the goroutine that the daemon   *)
(* starts for the connection, the resolver that finds the pod's tenant, the*)
(* cache of results, the router and the mailbox of the tenant's actor.     *)
(*                                                                         *)
(* Source: internal/cniplugin, pkg/transport/uds, pkg/wire,                *)
(* internal/daemon/cniserver.go, internal/resolver, internal/router and    *)
(* the client side of internal/nmanager/actor_tenant.go.  What an actor    *)
(* does with a pod is the subject of NetworkManager; here it succeeds or   *)
(* fails, and gives a sandbox an address at most once, because a second    *)
(* veth of the same name is refused.  The result of a request is therefore *)
(* written as the sandbox that the actor has worked for: of an ADD, its    *)
(* address; of a DEL, nothing but that it was done.                        *)
(*                                                                         *)
(* A sandbox is a container ID with its netns and interface; a pod that is *)
(* restarted has a new sandbox under the same UID.                         *)
(***************************************************************************)
EXTENDS Naturals, Sequences, FiniteSets

CONSTANTS
  MaxConns,     \* bound: connections open at one time
  Sandboxes,    \* container IDs
  Pods,         \* pod UIDs
  PodOf,        \* the pod of a sandbox
  Tenants,      \* tenants, DefaultTenant among them
  DefaultTenant,
  Hosted,       \* tenants that the node can have
  None,         \* no address, no cache entry, no tenant, nobody
  MailboxSize,  \* capacity of an actor's mailbox
  MaxActors,    \* actors, running or still referred to, at one time
  MaxCalls,     \* bound: calls of the runtime
  Timed,        \* whether requests carry a timeout: the plugin's do
  Codecs,       \* encodings that clients use: "json", "bin" or "junk"
  Commands      \* commands that clients send

ASSUME ConstantsAssumption ==
  /\ PodOf \in [Sandboxes -> Pods]
  /\ DefaultTenant \in Tenants /\ Hosted \subseteq Tenants
  /\ MaxConns \in Nat \ {0}
  /\ MailboxSize \in Nat \ {0} /\ MaxActors \in Nat \ {0}
  /\ Codecs \subseteq {"json", "bin", "junk"}
  /\ Commands \subseteq {"ADD", "DEL", "CHECK", "STATUS", "GC"}
  /\ MaxCalls \in Nat
  /\ Timed \subseteq BOOLEAN
  /\ None \notin Sandboxes \cup Tenants \cup Pods \cup 1..MaxConns

VARIABLES
  conn,      \* a connection: the request, where its goroutine is, its response
  cache,     \* the server's cache, by pod UID
  current,   \* the tenant's actor in the manager's map, 0 for none
  running,   \* the goroutine of an actor has not ended
  mail,      \* the mailbox of an actor
  attached,  \* sandboxes that have their interface, with an address
  added,     \* sandboxes that the runtime takes for added
  calls      \* calls of the runtime so far

vars == <<conn, cache, current, running, mail, attached, added, calls>>

Conns == 1..MaxConns
Actors == 1..MaxActors
Missing == "missing"          \* the informer has no pod of this UID
NoLabel == "unannotated"      \* the pod has no tenant annotation

\* What the informer's store says of a pod.
Annotations == (Tenants \ {DefaultTenant}) \cup {Missing, NoLabel}

\* The states of a connection's goroutine.
Stages == {"closed", "read", "cache", "expired", "route", "send", "wait",
           "replied", "write"}

Closed == [st |-> "closed", cmd |-> "GC", sb |-> None, codec |-> "json",
           timed |-> TRUE, tenant |-> None, actor |-> 0, ok |-> FALSE,
           result |-> None, client |-> FALSE]

\* Requests that wait for a place in a mailbox or for an answer from it.
InMailbox(r) == r.st \in {"wait", "replied"}

-----------------------------------------------------------------------------
(* The wire.  The binary encoding has no field for the pod, so a request   *)
(* that comes in that way has no UID.                                      *)

\* ReadHeader and the choice of a codec: magic and length are right and
\* the body can be decoded.
WellFramed(r) == r.codec # "junk"

\* The pod UID in the decoded request.
RequestUID(r) == IF r.codec = "bin" THEN None ELSE PodOf[r.sb]

\* The key that the plugin computes: a hash over the command and all that
\* names the sandbox.
computeIdemKey(r) == <<r.cmd, r.sb>>

-----------------------------------------------------------------------------
(* The plugin.                                                             *)

\* The plugin of connection c ends: Add and Check report an error, Del hides
\* it.  Nobody hears of it when the plugin has ended before.
PluginEnds(c, ok) ==
  LET r == conn[c] IN
  added' = CASE r.client /\ r.cmd = "DEL" -> added \ {r.sb}
             [] r.client /\ r.cmd = "ADD" /\ ok -> added \cup {r.sb}
             [] OTHER -> added

\* Add, Check, Del, GC, Status: the plugin connects and sends its request.
\* The runtime makes one call at a time for a sandbox and repeats an ADD that
\* has not succeeded; a call that has timed out may still be worked on by the
\* daemon.  The timeout of a request is 5 s; other clients of the socket may
\* leave it out.  (Connections are alike: the first free one is taken.)
Call(c, s, cmd, codec, timed) ==
  /\ conn[c].st = "closed" /\ \A d \in 1..(c - 1) : conn[d].st # "closed"
  /\ (cmd \in {"STATUS", "GC"}) = (s = None)
  /\ s # None => \A d \in Conns : conn[d].client => conn[d].sb # s
  /\ cmd = "ADD" => s \notin added
  /\ cmd = "CHECK" => s \in added
  /\ conn' = [conn EXCEPT ![c] =
                [Closed EXCEPT !.st = "read", !.cmd = cmd, !.sb = s,
                               !.codec = codec, !.timed = timed, !.client = TRUE]]
  /\ calls < MaxCalls /\ calls' = calls + 1
  /\ UNCHANGED <<cache, current, running, mail, attached, added>>

\* The deadline of the client's socket passes before the response has come.
ClientGivesUp(c) ==
  /\ conn[c].client
  /\ PluginEnds(c, FALSE)
  /\ conn' = [conn EXCEPT ![c].client = FALSE]
  /\ UNCHANGED <<cache, current, running, mail, attached, calls>>

-----------------------------------------------------------------------------
(* The goroutine of a connection, handleConn.                              *)

\* The response of connection c is ready to be written.
Respond(c, ok, result) ==
  conn' = [conn EXCEPT ![c] = [@ EXCEPT !.st = "write", !.ok = ok, !.result = result,
                                        !.tenant = None, !.actor = 0]]

\* Connection c goes on with the next stage.
GoOn(c, st) == conn' = [conn EXCEPT ![c].st = st]

\* ReadRequest: bad magic, an unknown codec or a broken body ends the
\* connection without a response.
RejectFrame(c) ==
  /\ conn[c].st = "read" /\ ~WellFramed(conn[c])
  /\ PluginEnds(c, FALSE)
  /\ conn' = [conn EXCEPT ![c] = Closed]
  /\ UNCHANGED <<cache, current, running, mail, attached, calls>>

\* handleStatusRequest and handleGCRequest: answered at once.
AnswerDirectly(c) ==
  /\ conn[c].st = "read" /\ WellFramed(conn[c]) /\ conn[c].cmd \in {"STATUS", "GC"}
  /\ Respond(c, TRUE, None)
  /\ UNCHANGED <<cache, current, running, mail, attached, added, calls>>

\* The tenant of a pod with annotation x, or the default.
TenantOf(x) == IF x = NoLabel THEN DefaultTenant ELSE x

\* resolveTenantForRequest and Resolve, with x what the informer's store says
\* of the pod at this moment: pods come and go and their annotation changes.
\* A pod that is not in the store (not yet synced, or gone) is an error.
Resolve(c, x) ==
  /\ conn[c].st = "read" /\ WellFramed(conn[c]) /\ conn[c].cmd \notin {"STATUS", "GC"}
  /\ RequestUID(conn[c]) = None => x = Missing
  /\ \/ x = Missing /\ Respond(c, FALSE, None)
     \/ x # Missing /\ conn' = [conn EXCEPT ![c].st = "cache", ![c].tenant = TenantOf(x)]
  /\ UNCHANGED <<cache, current, running, mail, attached, added, calls>>

\* Faulty variant: the keys are not compared.
HitAnyKey(r, e) == ~e.old /\ e.cmd = IF r.cmd = "DEL" THEN "DEL" ELSE "ADD"

\* The cache answers request r: ADD and DEL from an entry of the same command
\* and the same key, CHECK from any ADD of the pod.
Hit(r, e) ==
  /\ ~e.old
  /\ \/ r.cmd \in {"ADD", "DEL"} /\ e.cmd = r.cmd /\ e.key = computeIdemKey(r)
     \/ r.cmd = "CHECK" /\ e.cmd = "ADD"

\* The cache at the start of handleTenantCommand.  A hit makes the entry young
\* again (cacheTouch).  An entry that was found too old is deleted later,
\* under another lock.
LookInCache(c) ==
  /\ conn[c].st = "cache"
  /\ LET u == PodOf[conn[c].sb]
         e == cache[u] IN
     \/ /\ e # None /\ Hit(conn[c], e)
        /\ cache' = [cache EXCEPT ![u].old = FALSE]
        /\ Respond(c, TRUE, e.result)
     \/ /\ e # None /\ e.old
        /\ GoOn(c, "expired")
        /\ UNCHANGED cache
     \/ /\ ~(e # None /\ (e.old \/ Hit(conn[c], e)))
        /\ GoOn(c, "route")
        /\ UNCHANGED cache
  /\ UNCHANGED <<current, running, mail, attached, added, calls>>

\* cacheGet deletes the pod's entry, whichever it is by now.
DeleteExpired(c) ==
  /\ conn[c].st = "expired"
  /\ cache' = [cache EXCEPT ![PodOf[conn[c].sb]] = None]
  /\ GoOn(c, "route")
  /\ UNCHANGED <<current, running, mail, attached, added, calls>>

\* Faulty variant: a tenant without an actor is not refused.
RouteBlindly(c) ==
  /\ conn[c].st = "route"
  /\ conn' = [conn EXCEPT ![c].st = "send", ![c].actor = current[conn[c].tenant]]
  /\ UNCHANGED <<cache, current, running, mail, attached, added, calls>>

\* CHECK is answered without a look at the pod.  ADD and DEL go through the
\* router, which finds the tenant's actor or fails.
Route(c) ==
  /\ conn[c].st = "route"
  /\ LET a == current[conn[c].tenant] IN
     \/ conn[c].cmd = "CHECK" /\ Respond(c, TRUE, None)
     \/ conn[c].cmd # "CHECK" /\ a = 0 /\ Respond(c, FALSE, None)
     \/ /\ conn[c].cmd # "CHECK" /\ a # 0
        /\ conn' = [conn EXCEPT ![c].st = "send", ![c].actor = a, ![c].tenant = None]
  /\ UNCHANGED <<cache, current, running, mail, attached, added, calls>>

\* EnsurePod and RemovePod of the actor, first select: a place in the mailbox.
Enqueue(c) ==
  /\ conn[c].st = "send"
  /\ LET a == conn[c].actor IN
     /\ Len(mail[a]) < MailboxSize
     /\ mail' = [mail EXCEPT ![a] =
                   Append(@, [cmd |-> conn[c].cmd, sb |-> conn[c].sb, reply |-> c])]
  /\ GoOn(c, "wait")
  /\ UNCHANGED <<cache, current, running, attached, added, calls>>

\* Faulty variant: the send does not look at the context.
SendBlocks(c) == FALSE /\ UNCHANGED vars

\* First select, ctx.Done: only the context of a request with a timeout ends.
SendTimesOut(c) ==
  /\ conn[c].st = "send"
  /\ conn[c].timed
  /\ Respond(c, FALSE, None)
  /\ UNCHANGED <<cache, current, running, mail, attached, added, calls>>

\* Second select, the reply is an error.
TakeError(c) ==
  /\ conn[c].st = "replied" /\ ~conn[c].ok
  /\ Respond(c, FALSE, None)
  /\ UNCHANGED <<cache, current, running, mail, attached, added, calls>>

\* Mailbox q when nobody waits for the reply to c any more.
Orphaned(q, c) ==
  [i \in 1..Len(q) |-> IF q[i].reply = c THEN [q[i] EXCEPT !.reply = None] ELSE q[i]]

\* Faulty variant: the reply channel outlives the wait, so that a late answer
\* finds whatever the goroutine does by then.
WaitKeepsChannel(c) ==
  /\ InMailbox(conn[c])
  /\ conn' = [conn EXCEPT ![c] = [@ EXCEPT !.st = "write", !.ok = FALSE, !.result = None]]
  /\ UNCHANGED <<cache, current, running, mail, attached, added, calls>>

\* Second select, the timer (what is left of the context's time, or 10 s).  The
\* message stays in the mailbox.
WaitTimesOut(c) ==
  /\ InMailbox(conn[c])
  /\ mail' = [mail EXCEPT ![conn[c].actor] = Orphaned(@, c)]
  /\ Respond(c, FALSE, None)
  /\ UNCHANGED <<cache, current, running, attached, added, calls>>

\* Second select, the reply is a result, which the goroutine of the request
\* puts into the cache some time after the actor has answered (cacheStore).
TakeResult(c) ==
  /\ conn[c].st = "replied" /\ conn[c].ok
  /\ cache' = [cache EXCEPT ![PodOf[conn[c].sb]] =
                 [cmd |-> conn[c].cmd, key |-> computeIdemKey(conn[c]),
                  result |-> conn[c].result, old |-> FALSE]]
  /\ Respond(c, TRUE, conn[c].result)
  /\ UNCHANGED <<current, running, mail, attached, added, calls>>

\* WriteResponse, and the connection is closed.  A client that has given up
\* does not see it.
WriteResponse(c) ==
  /\ conn[c].st = "write"
  /\ PluginEnds(c, conn[c].ok)
  /\ conn' = [conn EXCEPT ![c] = Closed]
  /\ UNCHANGED <<cache, current, running, mail, attached, calls>>

\* The steps of the goroutine of connection c.
handleConn(c) ==
  \/ RejectFrame(c)
  \/ AnswerDirectly(c)
  \/ \E x \in Annotations : Resolve(c, x)
  \/ LookInCache(c)
  \/ DeleteExpired(c)
  \/ Route(c)
  \/ Enqueue(c)
  \/ SendTimesOut(c)
  \/ TakeError(c)
  \/ TakeResult(c)
  \/ WaitTimesOut(c)
  \/ WriteResponse(c)

-----------------------------------------------------------------------------
(* The actors.                                                             *)

\* An actor takes its next message; with a reply channel nobody reads the
\* reply is lost.
Answer(a, ok, result) ==
  LET c == Head(mail[a]).reply IN
  /\ mail' = [mail EXCEPT ![a] = Tail(@)]
  /\ conn' = IF c = None THEN conn
             ELSE [conn EXCEPT ![c] = [@ EXCEPT !.st = "replied", !.ok = ok, !.result = result]]

\* EnsurePod: no address is left, the tenant is closing, or the veth fails,
\* with or without an interface left behind; or it works.  A sandbox that has
\* the interface is refused.
ActorEnsures(a) ==
  /\ running[a] /\ mail[a] # <<>> /\ Head(mail[a]).cmd = "ADD"
  /\ LET s == Head(mail[a]).sb IN
     \/ Answer(a, FALSE, None) /\ UNCHANGED attached
     \/ \E ok \in BOOLEAN :
          /\ s \notin attached
          /\ attached' = attached \cup {s}
          /\ Answer(a, ok, IF ok THEN s ELSE None)
  /\ UNCHANGED <<cache, current, running, added, calls>>

\* RemovePod: fails when the tenant's record is gone.
ActorRemoves(a) ==
  /\ running[a] /\ mail[a] # <<>> /\ Head(mail[a]).cmd = "DEL"
  /\ \/ Answer(a, FALSE, None)
     \/ Answer(a, TRUE, Head(mail[a]).sb)
  /\ UNCHANGED <<cache, current, running, attached, added, calls>>

\* The goroutine of an actor ends at the message of Stop; what is behind that
\* message stays in the mailbox.
ActorStops(a) ==
  /\ running[a] /\ mail[a] # <<>> /\ Head(mail[a]).cmd = "STOP"
  /\ running' = [running EXCEPT ![a] = FALSE]
  /\ mail' = [mail EXCEPT ![a] = Tail(@)]
  /\ UNCHANGED <<conn, cache, current, attached, added, calls>>

\* EnsureTenant starts an actor for the tenant, with a new mailbox: one that
\* no goroutine refers to.
StartTenantActor(t, a) ==
  /\ current[t] = 0
  /\ mail[a] = <<>> /\ ~running[a]
  /\ \A u \in Tenants : current[u] # a
  /\ \A c \in Conns : conn[c].actor # a
  /\ current' = [current EXCEPT ![t] = a]
  /\ running' = [running EXCEPT ![a] = TRUE]
  /\ UNCHANGED <<conn, cache, mail, attached, added, calls>>

\* RemoveTenant, Stop: its message goes through the same mailbox.
SendStop(t) ==
  LET a == current[t] IN
  /\ a # 0 /\ running[a]
  /\ Len(mail[a]) < MailboxSize
  /\ \A i \in 1..Len(mail[a]) : mail[a][i].cmd # "STOP"
  /\ mail' = [mail EXCEPT ![a] = Append(@, [cmd |-> "STOP", sb |-> None, reply |-> None])]
  /\ UNCHANGED <<conn, cache, current, running, attached, added, calls>>

\* RemoveTenant, after Stop has returned: the actor leaves the map.
DropActor(t) ==
  /\ current[t] # 0 /\ ~running[current[t]]
  /\ current' = [current EXCEPT ![t] = 0]
  /\ UNCHANGED <<conn, cache, running, mail, attached, added, calls>>

-----------------------------------------------------------------------------
(* The clock.                                                              *)

\* Ten minutes pass without a use of an entry.
EntryAges(u) ==
  /\ cache[u] # None /\ ~cache[u].old
  /\ cache' = [cache EXCEPT ![u].old = TRUE]
  /\ UNCHANGED <<conn, current, running, mail, attached, added, calls>>

-----------------------------------------------------------------------------
\* The server is started after the dispatcher and the operator: the default
\* tenant's actor may run.
Init ==
  /\ conn = [c \in Conns |-> Closed]
  /\ cache = [u \in Pods |-> None]
  /\ current \in {[t \in Tenants |-> 0], [t \in Tenants |-> IF t = DefaultTenant THEN 1 ELSE 0]}
  /\ running = [a \in Actors |-> \E t \in Tenants : current[t] = a]
  /\ mail = [a \in Actors |-> <<>>]
  /\ attached = {}
  /\ added = {}
  /\ calls = 0

Next ==
  \/ \E c \in Conns, s \in Sandboxes \cup {None}, cmd \in Commands, codec \in Codecs,
        timed \in Timed : Call(c, s, cmd, codec, timed)
  \/ \E c \in Conns : ClientGivesUp(c) \/ handleConn(c)
  \/ \E a \in Actors : ActorEnsures(a) \/ ActorRemoves(a) \/ ActorStops(a)
  \/ \E t \in Hosted, a \in Actors : StartTenantActor(t, a)
  \/ \E t \in Tenants : SendStop(t) \/ DropActor(t)
  \/ \E u \in Pods : EntryAges(u)

Spec == Init /\ [][Next]_vars

-----------------------------------------------------------------------------
Messages == [cmd : {"ADD", "DEL", "STOP"}, sb : Sandboxes \cup {None},
             reply : Conns \cup {None}]

(* The shape of the state; a goroutine that talks to an actor has one.     *)
TypeOK ==
  /\ \A c \in Conns :
       /\ conn[c].st \in Stages
       /\ conn[c].sb \in Sandboxes \cup {None}
       /\ conn[c].result \in Sandboxes \cup {None}
       /\ conn[c].st \in {"send", "wait", "replied"} => conn[c].actor \in Actors
  /\ \A u \in Pods : cache[u] # None =>
       /\ cache[u].cmd \in {"ADD", "DEL"}
       /\ cache[u].result \in Sandboxes \cup {None}
  /\ current \in [Tenants -> 0..MaxActors]
  /\ running \in [Actors -> BOOLEAN]
  /\ \A a \in Actors :
       /\ Len(mail[a]) <= MailboxSize
       /\ \A i \in 1..Len(mail[a]) : mail[a][i] \in Messages
  /\ attached \subseteq Sandboxes
  /\ added \subseteq Sandboxes

(* A success is never made up: an ADD that the server answers as done,     *)
(* fresh or from the cache, names the address that is on the interface of  *)
(* that very sandbox, so that the runtime is never told that a sandbox     *)
(* without an interface has been added; and a DEL that the server answers  *)
(* as done has been carried out for that sandbox; over timeouts, late work *)
(* of actors, expired entries, new sandboxes of a pod and changes of its   *)
(* tenant (handleTenantCommand, cacheStore).                               *)
AnswersEarned ==
  /\ \A c \in Conns : conn[c].st = "write" /\ conn[c].ok /\ conn[c].cmd \in {"ADD", "DEL"} =>
       conn[c].result = conn[c].sb
  /\ added \subseteq attached

(* A request with a timeout is never stuck: its goroutine can always go on,*)
(* also when the actor it waits for has stopped or its mailbox stays full  *)
(* (handleConn, EnsurePod and RemovePod of the actor).                     *)
NeverStuck ==
  \A c \in Conns : conn[c].st # "closed" /\ conn[c].timed => ENABLED handleConn(c)

\* How far the goroutine of a connection has come.
Position(st) ==
  CASE st = "read" -> 1 [] st = "cache" -> 2 [] st = "expired" -> 3
    [] st = "route" -> 4 [] st = "send" -> 5 [] st = "wait" -> 6
    [] st = "replied" -> 7 [] st = "write" -> 8 [] OTHER -> 9

(* A request goes one way, whoever acts on it: no step of its goroutine    *)
(* leaves it where it was, and the late answer of an actor to a request    *)
(* that has timed out never takes it, or the next request on the           *)
(* connection, back to an earlier stage.  With NeverStuck a request with a *)
(* timeout is answered after at most eight steps (handleConn, and the      *)
(* reply channel that EnsurePod and RemovePod make for each call).         *)
OneWay ==
  [][\A c \in Conns : conn[c].st # "closed" /\ conn'[c] # conn[c] =>
       \/ conn'[c] = [conn[c] EXCEPT !.client = FALSE]
       \/ Position(conn'[c].st) > Position(conn[c].st)]_vars

=============================================================================
