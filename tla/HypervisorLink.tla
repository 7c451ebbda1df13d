---------------------------- MODULE HypervisorLink ----------------------------
(***************************************************************************)
(* The link between wyliodrind (the server) and wyliodrin_hypervisor: two  *)
(* redis channels, wsrvhyp towards the hypervisor and whypsrv back.        *)
(*                                                                         *)
(* Each daemon publishes on a connection of its own, the context c of      *)
(* communication.c and of wredis.c, and listens on a second one, which an  *)
(* event loop in a thread of its own serves.  A thread that connects and   *)
(* the subscriber it starts share a name: an element of Inits (server) or  *)
(* of Clients (hypervisor).                                                *)
(*                                                                         *)
(* The hypervisor guards its context by pub_mutex.  The server does not:   *)
(* main, the subscribers and the subscriber to signals of Communication    *)
(* call hiredis on c as they come.  Two threads inside one context share   *)
(* its buffers, and what was written by one may leave twice, late or not   *)
(* at all; the bytes of two commands mixed are none that the hypervisor    *)
(* decodes.  `shared' remembers that this happened.                        *)
(*                                                                         *)
(* redis keeps nothing: a message goes to who is subscribed when it is     *)
(* published.  redis, the server and the hypervisor may fail and start     *)
(* again.                                                                  *)
(***************************************************************************)
EXTENDS Integers, Sequences

CONSTANTS
  Main,        \* the server's main thread
  Inits,       \* names of its connecting and listening threads
  Clients,     \* names of the hypervisor's
  MaxRequests, \* bound on the requests of the owner
  MaxQueue,    \* bound on the messages waiting in a connection
  MaxFailures  \* bound on the failures of redis and of the daemons

ASSUME ConstantsAssumption ==
  /\ Inits # {} /\ Clients # {} /\ Main \notin Inits
  /\ MaxRequests \in Nat /\ MaxQueue \in Nat \ {0} /\ MaxFailures \in Nat

VARIABLES
  redis,      \* redis runs
  failures,   \* how often something failed
  accepted,   \* requests the server has published
  executed,   \* the last request the hypervisor has executed
  shared,     \* two threads of the server were inside its context at once
  (* the server *)
  ctx,        \* its context c
  on,         \* the context each thread is inside of, publishing
  inProgress, \* is_connetion_in_progress
  init,       \* init_communication_routine, for each thread
  sub,        \* start_hypervisor_subscriber_routine, for each thread
  inbox,      \* what waits in the subscriber's connection
  recent,     \* time_of_last_hypervior_msg is at most pong_timeout old
  (* the hypervisor *)
  hctx,       \* its context c
  client,     \* init_redis_routine and start_subscriber_routine
  orders      \* what waits in the subscriber's connection

server     == <<ctx, on, inProgress, init, sub, inbox, recent>>
hypervisor == <<hctx, client, orders>>
vars == <<redis, failures, accepted, executed, shared, server, hypervisor>>

\* "broken": the peer is gone and nobody has noticed; "err": c->err is set.
Contexts == {"null", "ok", "broken", "err"}

\* A subscription: none, being made, served, or cut off by redis.
SubStates    == {"none", "connecting", "on", "closed"}
InitStates   == {"none", "start", "connect", "spawn"}
ClientStates == {"none", "connect", "announce", "spawn", "subscribe", "on", "closed"}

\* A request is a number; Ack is the reply to SUBSCRIBE.
Requests == 1 .. MaxRequests
Ping == 0
Ack  == "ack"
ToHyp    == {Ping} \cup Requests
ToServer == {Ack, "pong", "answer"}

\* A thread is outside, or inside a call on c, or on a context that worked
\* and was replaced.  Main is inside with the request it has just accepted,
\* a subscriber with a ping.
Threads == Inits \cup {Main}
Places  == {"none", "c", "old"}
Inside  == {u \in Threads : on[u] # "none"}
Message(u) == IF u = Main THEN accepted ELSE Ping

Subscribed == {s \in Inits : sub[s] = "on"}
Listening  == {h \in Clients : client[h] = "on"}

-----------------------------------------------------------------------------
(* redis *)

\* PUBLISH on a context: redis copies the message to every subscriber.
\* Without a connection that works the message is dropped, and c->err set.
Deliver(queues, receivers, m) ==
  [q \in DOMAIN queues |-> IF q \in receivers THEN Append(queues[q], m) ELSE queues[q]]

After(context) == IF context = "broken" THEN "err" ELSE context

\* communication.c publish: nothing is tested.  On a context that does not
\* work hiredis fails at once; else the thread is inside until the reply.
Enter(u) ==
  IF ctx = "ok"
  THEN /\ on' = [on EXCEPT ![u] = "c"]
       /\ shared' = (shared \/ \E v \in Threads : on[v] = "c")
       /\ UNCHANGED ctx
  ELSE ctx' = After(ctx) /\ UNCHANGED <<on, shared>>

Leave(u) ==
  /\ u \in Inside
  /\ on' = [on EXCEPT ![u] = "none"]
  /\ orders' = Deliver(orders, Listening, Message(u))
  /\ UNCHANGED ctx

\* wredis.c publish: dropped at once when the connection is known bad.
HypPublish(m) ==
  /\ hctx' = After(hctx)
  /\ inbox' = IF hctx = "ok" THEN Deliver(inbox, Subscribed, m) ELSE inbox

\* Once the buffers have been shared: nothing leaves, and hiredis may note an
\* error; or something leaves again that was written before.
Lose(u) ==
  /\ u \in Inside
  /\ on' = [on EXCEPT ![u] = "none"]
  /\ ctx' \in IF on[u] = "c" THEN {ctx, "err"} ELSE {ctx}
  /\ UNCHANGED orders

LeaveAgain ==
  /\ Inside # {}
  /\ \A h \in Clients : Len(orders[h]) < MaxQueue
  /\ \A s \in Inits : Len(inbox[s]) < MaxQueue
  /\ \E m \in {Ping} \cup 1 .. accepted : orders' = Deliver(orders, Listening, m)
  /\ UNCHANGED <<ctx, on>>

Cut(state) == IF state = "on" THEN "closed" ELSE state

\* What had not left redis is lost: a prefix of each queue stays.
Kept(queues, k) == [q \in DOMAIN queues |->
  IF k < Len(queues[q]) THEN SubSeq(queues[q], 1, k) ELSE queues[q]]

\* A call that waits for its reply fails with redis.
RedisFails ==
  /\ redis /\ failures < MaxFailures
  /\ redis' = FALSE
  /\ failures' = failures + 1
  /\ ctx' = IF ctx # "ok" THEN ctx
            ELSE IF \E u \in Threads : on[u] = "c" THEN "err" ELSE "broken"
  /\ hctx' = IF hctx = "ok" THEN "broken" ELSE hctx
  /\ on' = [u \in Threads |-> "none"]
  /\ sub' = [s \in Inits |-> Cut(sub[s])]
  /\ client' = [h \in Clients |-> Cut(client[h])]
  /\ \E k \in 0 .. MaxQueue : inbox' = Kept(inbox, k) /\ orders' = Kept(orders, k)
  /\ UNCHANGED <<accepted, executed, shared, inProgress, init, recent>>

RedisStarts ==
  /\ ~redis
  /\ redis' = TRUE
  /\ UNCHANGED <<failures, accepted, executed, shared, server, hypervisor>>

-----------------------------------------------------------------------------
(* The server *)

\* One thread of a pool, whichever, in the given state, the others unused.
OneOf(pool, state) ==
  LET first == CHOOSE t \in pool : TRUE
  IN  [t \in pool |-> IF t = first THEN state ELSE "none"]

\* The thread that called hiredis gets its reply.
Publish(u) ==
  /\ ~shared
  /\ Leave(u)
  /\ UNCHANGED <<redis, failures, accepted, executed, shared, inProgress, init, sub,
                 inbox, recent, hctx, client>>

Mangle ==
  /\ shared
  /\ LeaveAgain \/ \E u \in Threads : Leave(u) \/ Lose(u)
  /\ UNCHANGED <<redis, failures, accepted, executed, shared, inProgress, init, sub,
                 inbox, recent, hctx, client>>

\* The subscriber to signals empties the table of a project over c
\* (Communication), while another thread is inside.
SignalsShare ==
  /\ \E u \in Threads : on[u] = "c"
  /\ shared' = TRUE
  /\ UNCHANGED <<redis, failures, accepted, executed, server, hypervisor>>

\* communication(): on a context that is not usable, a new connection is
\* made unless one is being made already.  Otherwise the stanza is published
\* to the programs of the board, who are not modelled: what counts is who
\* else is inside meanwhile.
RecvCommunication ==
  /\ on[Main] = "none"
  /\ \/ /\ ctx \in {"null", "err"} /\ ~inProgress
        /\ \E t \in Inits :
             /\ init[t] = "none" /\ sub[t] = "none"
             /\ init' = [init EXCEPT ![t] = "start"]
        /\ UNCHANGED <<ctx, shared>>
     \/ /\ ctx \in {"ok", "broken"}
        /\ ctx' = After(ctx)
        /\ shared' = (shared \/ \E u \in Threads : on[u] = "c")
        /\ UNCHANGED init
  /\ UNCHANGED <<redis, failures, accepted, executed, on, inProgress, sub, inbox,
                 recent, hypervisor>>

\* Mutant: the subscriber is started before the connection is made.
InitFlagSpawns(t) ==
  /\ init[t] = "start"
  /\ init' = [init EXCEPT ![t] = "spawn"]
  /\ inProgress' = TRUE
  /\ UNCHANGED <<redis, failures, accepted, executed, shared, ctx, on, sub, inbox,
                 recent, hypervisor>>

\* The flag is set by the thread that connects, not by who starts it.
InitFlag(t) ==
  /\ init[t] = "start"
  /\ init' = [init EXCEPT ![t] = "connect"]
  /\ inProgress' = TRUE
  /\ UNCHANGED <<redis, failures, accepted, executed, shared, ctx, on, sub, inbox,
                 recent, hypervisor>>

\* One attempt of the loop.  The old context is not freed, and whoever is
\* inside stays in it.
InitConnect(t) ==
  /\ init[t] = "connect"
  /\ ctx' = IF redis THEN "ok" ELSE "err"
  /\ on' = [u \in Threads |-> IF on[u] = "c" THEN "old" ELSE on[u]]
  /\ init' = IF redis THEN [init EXCEPT ![t] = "spawn"] ELSE init
  /\ UNCHANGED <<redis, failures, accepted, executed, shared, inProgress, sub, inbox,
                 recent, hypervisor>>

InitSpawn(t) ==
  /\ init[t] = "spawn"
  /\ init' = [init EXCEPT ![t] = "none"]
  /\ sub' = [sub EXCEPT ![t] = "connecting"]
  /\ inProgress' = FALSE
  /\ UNCHANGED <<redis, failures, accepted, executed, shared, ctx, on, inbox,
                 recent, hypervisor>>

\* A subscriber that cannot connect ends, and nobody starts another.
SubConnect(t) ==
  /\ sub[t] = "connecting"
  /\ sub' = [sub EXCEPT ![t] = IF redis THEN "on" ELSE "none"]
  /\ inbox' = [inbox EXCEPT ![t] = IF redis THEN <<Ack>> ELSE <<>>]
  /\ UNCHANGED <<redis, failures, accepted, executed, shared, ctx, on,
                 inProgress, init, recent, hypervisor>>

\* Mutant: only an answer proves that the hypervisor lives.
ProvesAnswering(m) == m = "answer"

\* time_of_last_hypervior_msg is set by what is not the reply to SUBSCRIBE.
ProvesAlive(m) == m # Ack

\* onHypervisorMessage: the ack is answered by a ping, and every message
\* proves that the hypervisor lives.  An answer goes to the owner.
SubReceive(t) ==
  /\ on[t] = "none"
  /\ sub[t] \in {"on", "closed"} /\ inbox[t] # <<>>
  /\ inbox' = [inbox EXCEPT ![t] = Tail(@)]
  /\ LET m == Head(inbox[t]) IN
     /\ IF m = Ack THEN Enter(t) ELSE UNCHANGED <<ctx, on, shared>>
     /\ recent' = (recent \/ ProvesAlive(m))
  /\ UNCHANGED <<redis, failures, accepted, executed, inProgress, init, sub,
                 hypervisor>>

\* reply == NULL: the event loop has nothing left and the thread ends.
SubClosed(t) ==
  /\ on[t] = "none"
  /\ sub[t] = "closed" /\ inbox[t] = <<>>
  /\ sub' = [sub EXCEPT ![t] = "none"]
  /\ UNCHANGED <<redis, failures, accepted, executed, shared, ctx, on,
                 inProgress, init, inbox, recent, hypervisor>>

\* shells(): a request is dropped while the hypervisor has been silent for
\* longer than pong_timeout (that changes nothing), and published otherwise.
RecvShells ==
  /\ on[Main] = "none"
  /\ recent /\ accepted < MaxRequests
  /\ accepted' = accepted + 1
  /\ Enter(Main)
  /\ UNCHANGED <<redis, failures, executed, inProgress, init, sub, inbox, recent,
                 hypervisor>>

\* pong_timeout + 1 seconds went by without a message.
Expire ==
  /\ recent
  /\ recent' = FALSE
  /\ UNCHANGED <<redis, failures, accepted, executed, shared, ctx, on,
                 inProgress, init, sub, inbox, hypervisor>>

\* The server dies and is started again; at its first XMPP connection it
\* loads the module, and init_communication starts a thread.
ServerFails ==
  /\ failures < MaxFailures
  /\ failures' = failures + 1
  /\ ctx' = "null"
  /\ on' = [u \in Threads |-> "none"]
  /\ inProgress' = FALSE
  /\ init' = OneOf(Inits, "start")
  /\ sub' = [t \in Inits |-> "none"]
  /\ inbox' = [t \in Inits |-> <<>>]
  /\ recent' = FALSE
  /\ UNCHANGED <<redis, accepted, executed, shared, hypervisor>>

-----------------------------------------------------------------------------
(* The hypervisor *)

\* init_redis_routine: one attempt, the first pong, the subscriber.
ClientConnect(h) ==
  /\ client[h] = "connect"
  /\ hctx' = IF redis THEN "ok" ELSE "err"
  /\ client' = IF redis THEN [client EXCEPT ![h] = "announce"] ELSE client
  /\ UNCHANGED <<redis, failures, accepted, executed, shared, server, orders>>

ClientAnnounce(h) ==
  /\ client[h] = "announce"
  /\ client' = [client EXCEPT ![h] = "spawn"]
  /\ HypPublish("pong")
  /\ UNCHANGED <<redis, failures, accepted, executed, shared, ctx, on,
                 inProgress, init, sub, recent, orders>>

ClientSpawn(h) ==
  /\ client[h] = "spawn"
  /\ client' = [client EXCEPT ![h] = "subscribe"]
  /\ UNCHANGED <<redis, failures, accepted, executed, shared, server, hctx, orders>>

\* Mutant: the subscriber goes on when it has started another.
ReconnectTwice(h) ==
  \E k \in {j \in Clients : client[j] = "none"} :
    client' = [client EXCEPT ![h] = "subscribe", ![k] = "connect"]

\* init_redis: a new thread connects, and the subscriber that noticed ends,
\* so that the new one may have its name.
Reconnect(h) == client' = [client EXCEPT ![h] = "connect"]

\* start_subscriber_routine: a connection that is refused at once ends the
\* thread for good; one that fails later calls onMessage with no reply.
ClientSubscribe(h) ==
  /\ client[h] = "subscribe"
  /\ IF redis THEN client' = [client EXCEPT ![h] = "on"]
     ELSE client' = [client EXCEPT ![h] = "none"] \/ Reconnect(h)
  /\ UNCHANGED <<redis, failures, accepted, executed, shared, server, hctx, orders>>

\* onMessage: ping is answered by pong; a request is executed by shells(),
\* which publishes an answer to some of them.
ClientReceive(h) ==
  /\ client[h] \in {"on", "closed"} /\ orders[h] # <<>>
  /\ orders' = [orders EXCEPT ![h] = Tail(@)]
  /\ LET m == Head(orders[h]) IN
     IF m = Ping
     THEN HypPublish("pong") /\ UNCHANGED executed
     ELSE /\ executed' = m
          /\ HypPublish("answer") \/ UNCHANGED <<hctx, inbox>>
  /\ UNCHANGED <<redis, failures, accepted, shared, ctx, on, inProgress, init,
                 sub, recent, client>>

\* Mutant: a subscriber that lost its connection just ends.
ClientEnds(h) ==
  /\ client[h] = "closed" /\ orders[h] = <<>>
  /\ client' = [client EXCEPT ![h] = "none"]
  /\ UNCHANGED <<redis, failures, accepted, executed, shared, server, hctx, orders>>

\* onMessage without a reply: init_redis.
ClientClosed(h) ==
  /\ client[h] = "closed" /\ orders[h] = <<>>
  /\ Reconnect(h)
  /\ UNCHANGED <<redis, failures, accepted, executed, shared, server, hctx, orders>>

\* The loop of main: sleep(pong_timeout), and a pong.
SendPong ==
  /\ \A s \in Inits : Len(inbox[s]) < MaxQueue
  /\ HypPublish("pong")
  /\ UNCHANGED <<redis, failures, accepted, executed, shared, ctx, on,
                 inProgress, init, sub, recent, client, orders>>

\* The hypervisor starts again, and main calls init_redis.
HypervisorFails ==
  /\ failures < MaxFailures
  /\ failures' = failures + 1
  /\ hctx' = "null"
  /\ client' = OneOf(Clients, "connect")
  /\ orders' = [h \in Clients |-> <<>>]
  /\ UNCHANGED <<redis, accepted, executed, shared, server>>

-----------------------------------------------------------------------------

Init ==
  /\ redis \in BOOLEAN
  /\ failures = 0
  /\ accepted = 0
  /\ executed = 0
  /\ shared = FALSE
  /\ ctx = "null"
  /\ on = [u \in Threads |-> "none"]
  /\ inProgress = FALSE
  /\ init = OneOf(Inits, "start")
  /\ sub = [t \in Inits |-> "none"]
  /\ inbox = [t \in Inits |-> <<>>]
  /\ recent = FALSE
  /\ hctx = "null"
  /\ client = OneOf(Clients, "connect")
  /\ orders = [h \in Clients |-> <<>>]

InitStep(t) == InitFlag(t) \/ InitConnect(t) \/ InitSpawn(t)
SubStep(t)  == SubConnect(t) \/ SubReceive(t) \/ SubClosed(t)

ClientStep(h) ==
  \/ ClientConnect(h) \/ ClientAnnounce(h) \/ ClientSpawn(h)
  \/ ClientSubscribe(h) \/ ClientReceive(h) \/ ClientClosed(h)

Next ==
  \/ RedisFails \/ RedisStarts
  \/ ServerFails \/ HypervisorFails
  \/ RecvCommunication \/ RecvShells \/ Expire
  \/ \E u \in Threads : Publish(u)
  \/ SignalsShare \/ Mangle
  \/ \E t \in Inits : InitStep(t) \/ SubStep(t)
  \/ \E h \in Clients : ClientStep(h)
  \/ SendPong

Spec == Init /\ [][Next]_vars

\* Every thread is scheduled and main wakes up again and again.  hiredis
\* comes back with a reply or an error, but for a context that was shared,
\* where another thread may have taken the reply.  Nothing is promised of
\* the owner, of time, and of failures and repairs.
Fairness ==
  /\ \A u \in Threads : WF_vars(Publish(u))
  /\ \A t \in Inits : WF_vars(InitStep(t)) /\ WF_vars(SubStep(t))
  /\ \A h \in Clients : WF_vars(ClientStep(h))
  /\ WF_vars(SendPong)

FairSpec == Spec /\ Fairness

-----------------------------------------------------------------------------
(* What must hold *)

\* Every variable holds a value of its kind.
TypeOK ==
  /\ redis \in BOOLEAN
  /\ failures \in 0 .. MaxFailures
  /\ accepted \in 0 .. MaxRequests
  /\ executed \in 0 .. MaxRequests
  /\ shared \in BOOLEAN
  /\ ctx \in Contexts
  /\ on \in [Threads -> Places]
  /\ inProgress \in BOOLEAN
  /\ init \in [Inits -> InitStates]
  /\ sub \in [Inits -> SubStates]
  /\ inbox \in [Inits -> Seq(ToServer)]
  /\ recent \in BOOLEAN
  /\ hctx \in Contexts
  /\ client \in [Clients -> ClientStates]
  /\ orders \in [Clients -> Seq(ToHyp)]

\* publish() of the server hands c to hiredis without a test, and c is NULL
\* until the first connection.  Whoever may publish has a context: a proxy
\* that heard the hypervisor, and a subscriber, whose thread was started by
\* a connection that worked, whatever was made and lost since.
PublisherHasContext ==
  recent \/ (\E t \in Inits : sub[t] # "none" \/ init[t] = "spawn") => ctx # "null"

\* The hypervisor executes commands in one thread: at most one client is
\* connecting, subscribing or served, although a lost connection starts a
\* new thread from within the old one.
OneClient == \A h, k \in Clients : client[h] # "none" /\ client[k] # "none" => h = k

\* The last request that may have left main.
Sent == IF on[Main] = "none" THEN accepted ELSE accepted - 1

\* Until two threads were inside the server's context at once, the requests
\* that wait are in the order they were accepted, after the last one
\* executed, and the one main is publishing comes after them.
OrdersInOrder ==
  ~shared =>
    /\ executed <= Sent
    /\ \A h \in Clients : \A i \in 1 .. Len(orders[h]) : orders[h][i] # Ping =>
         /\ executed < orders[h][i]
         /\ orders[h][i] <= Sent
         /\ \A j \in 1 .. i - 1 : orders[h][j] # Ping => orders[h][j] < orders[h][i]

\* Whatever the threads do, what waits or was executed is what the server
\* accepted.
OrdersAreAccepted ==
  /\ executed <= accepted
  /\ on[Main] = "none" \/ accepted > 0
  /\ \A h \in Clients : \A i \in 1 .. Len(orders[h]) : orders[h][i] <= accepted

\* Orders wait in a connection that is served, and are gone with it.
OrdersAreOfAClient ==
  \A h \in Clients : orders[h] # <<>> => client[h] \in {"on", "closed"}

\* The inductive invariant: one client executes, and what waits for it was
\* accepted and is in order, until two threads of the server shared c.
IInv ==
  /\ TypeOK
  /\ PublisherHasContext
  /\ OneClient
  /\ OrdersInOrder
  /\ OrdersAreAccepted
  /\ OrdersAreOfAClient

\* The link implements the channel: across failures and reconnections, and
\* until two threads of the server were inside its context at once, no
\* request is executed twice, or after a later one.
Channel == INSTANCE RequestChannel
           WITH accepted <- accepted, executed <- executed, shared <- shared
ImplementsChannel == Channel!Spec

\* While redis stays up a client that connects, subscribes or lost its
\* connection listens in the end: a hypervisor is deaf for good only if
\* redis refused its subscriber at once.
HypervisorListens ==
  (\E h \in Clients : client[h] # "none") ~> (Listening # {} \/ ~redis)

\* A server that listens hears the hypervisor, which speaks even when it is
\* deaf: a request is then accepted.  A subscriber whose reply another
\* thread took may wait for ever.
ServerHears ==
  (Subscribed # {}) ~>
    (recent \/ shared \/ ~redis \/ hctx # "ok" \/ Subscribed = {})
=============================================================================
