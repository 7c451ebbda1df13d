------------------------- MODULE HypervisorLinkProofs -------------------------
(***************************************************************************)
(* Proofs about HypervisorLink, for every number of threads, of requests   *)
(* and of failures: its invariants, and that it implements RequestChannel. *)
(* Each conjunct of IInv is preserved by a lemma of its own.               *)
(***************************************************************************)
EXTENDS HypervisorLink, TLAPS

-----------------------------------------------------------------------------
(* The helpers *)

\* OneOf gives the state to one thread of the pool and none to the others.
LEMMA OneOfFact ==
  ASSUME NEW pool, NEW state
  PROVE  /\ OneOf(pool, state) \in [pool -> {state, "none"}]
         /\ \A a, b \in pool : OneOf(pool, state)[a] # "none"
              /\ OneOf(pool, state)[b] # "none" => a = b
<1> DEFINE first == CHOOSE t \in pool : TRUE
<1> HIDE DEF first
<1>1. OneOf(pool, state) = [t \in pool |-> IF t = first THEN state ELSE "none"]
  BY Zenon DEF OneOf, first
<1> QED
  BY <1>1

\* What remains of one queue is its beginning.
LEMMA KeptOf ==
  ASSUME NEW P, NEW S, NEW queues \in [P -> Seq(S)], NEW k \in Nat, NEW q \in P
  PROVE  /\ Kept(queues, k)[q] \in Seq(S)
         /\ Len(Kept(queues, k)[q]) <= Len(queues[q])
         /\ \A i \in 1 .. Len(Kept(queues, k)[q]) : Kept(queues, k)[q][i] = queues[q][i]
<1> DEFINE s == queues[q]
<1>1. s \in Seq(S) /\ Len(s) \in Nat
  OBVIOUS
<1>2. CASE k < Len(s)
  <2>1. Kept(queues, k)[q] = SubSeq(s, 1, k)
    BY <1>2 DEF Kept
  <2>2. SubSeq(s, 1, k) \in Seq(S) /\ Len(SubSeq(s, 1, k)) = k
        /\ \A i \in 1 .. k : SubSeq(s, 1, k)[i] = s[i]
    BY <1>1, <1>2
  <2> QED
    BY <2>1, <2>2, <1>1, <1>2
<1>3. CASE ~(k < Len(s))
  BY <1>1, <1>3 DEF Kept
<1> QED
  BY <1>2, <1>3

\* What remains are queues.
LEMMA KeptFact ==
  ASSUME NEW P, NEW S, NEW queues \in [P -> Seq(S)], NEW k \in Nat
  PROVE  Kept(queues, k) \in [P -> Seq(S)]
<1>1. \A q \in P : Kept(queues, k)[q] \in Seq(S)
  BY KeptOf
<1> QED
  BY <1>1 DEF Kept

\* A message is added to the queues of some receivers.
LEMMA DeliverFact ==
  ASSUME NEW P, NEW S, NEW queues \in [P -> Seq(S)], NEW R, NEW m \in S
  PROVE  /\ Deliver(queues, R, m) \in [P -> Seq(S)]
         /\ \A q \in P : \/ Deliver(queues, R, m)[q] = queues[q]
                         \/ q \in R /\ Deliver(queues, R, m)[q] = Append(queues[q], m)
  BY DEF Deliver

\* A message that leaves the server follows what waits for the one that
\* listens.
LEMMA LeaveFact ==
  ASSUME TypeOK, NEW m \in ToHyp, orders' = Deliver(orders, Listening, m)
  PROVE  /\ orders' \in [Clients -> Seq(ToHyp)]
         /\ \A h \in Clients : \/ orders'[h] = orders[h]
                               \/ client[h] = "on" /\ orders'[h] = Append(orders[h], m)
<1>1. orders \in [Clients -> Seq(ToHyp)]
  BY DEF TypeOK
<1>2. /\ Deliver(orders, Listening, m) \in [Clients -> Seq(ToHyp)]
      /\ \A h \in Clients :
           \/ Deliver(orders, Listening, m)[h] = orders[h]
           \/ h \in Listening
              /\ Deliver(orders, Listening, m)[h] = Append(orders[h], m)
  BY <1>1, DeliverFact
<1> QED
  BY <1>1, <1>2 DEF Listening

\* What a call of hiredis does to the contexts.
LEMMA EnterFact ==
  ASSUME TypeOK, NEW u \in Threads, Enter(u)
  PROVE  /\ ctx' \in Contexts /\ (ctx' = "null" <=> ctx = "null")
         /\ on' \in [Threads -> Places]
         /\ shared' \in BOOLEAN /\ (shared => shared')
         /\ \A v \in Threads : v # u => on'[v] = on[v]
  BY DEF Enter, TypeOK, Contexts, Places, After

\* What it publishes is a ping or the last request that was accepted.
LEMMA MessageFact ==
  ASSUME TypeOK, OrdersAreAccepted, NEW u \in Threads, on[u] # "none"
  PROVE  Message(u) \in ToHyp /\ Message(u) <= accepted
  BY ConstantsAssumption DEF Message, TypeOK, OrdersAreAccepted, ToHyp, Requests, Ping, Threads

\* What publish() of the hypervisor does to its context and to the inboxes.
LEMMA HypPublishFact ==
  ASSUME TypeOK, NEW m \in ToServer, HypPublish(m)
  PROVE  /\ inbox' \in [Inits -> Seq(ToServer)]
         /\ hctx' \in Contexts
         /\ \A t \in Inits : inbox'[t] = inbox[t] \/ inbox'[t] = Append(inbox[t], m)
<1>1. inbox \in [Inits -> Seq(ToServer)] /\ hctx \in Contexts
  BY DEF TypeOK
<1>2. /\ Deliver(inbox, Subscribed, m) \in [Inits -> Seq(ToServer)]
      /\ \A t \in Inits :
           \/ Deliver(inbox, Subscribed, m)[t] = inbox[t]
           \/ Deliver(inbox, Subscribed, m)[t] = Append(inbox[t], m)
  BY <1>1, DeliverFact
<1> QED
  BY <1>1, <1>2 DEF HypPublish, After, Contexts

\* A queue that is not empty has a first message and a rest.
LEMMA HeadTail ==
  ASSUME NEW S, NEW s \in Seq(S), s # <<>>
  PROVE  /\ Head(s) \in S /\ Tail(s) \in Seq(S) /\ Head(s) = s[1]
         /\ Len(s) \in Nat /\ Len(s) >= 1 /\ Len(Tail(s)) = Len(s) - 1
         /\ \A i \in 1 .. Len(Tail(s)) : Tail(s)[i] = s[i + 1]
  OBVIOUS

-----------------------------------------------------------------------------
(* Types *)

\* The initial states satisfy the invariant.
LEMMA InitInvariant == Init => IInv
<1> SUFFICES ASSUME Init PROVE IInv
  OBVIOUS
<1>1. /\ init \in [Inits -> {"start", "none"}]
      /\ client \in [Clients -> {"connect", "none"}]
      /\ OneClient
  BY OneOfFact DEF Init, OneClient
<1>2. /\ inbox \in [Inits -> Seq(ToServer)] /\ \A t \in Inits : inbox[t] = <<>>
      /\ orders \in [Clients -> Seq(ToHyp)] /\ \A h \in Clients : orders[h] = <<>>
  BY DEF Init
<1>3. TypeOK
  <2>1. /\ init \in [Inits -> InitStates] /\ client \in [Clients -> ClientStates]
        /\ sub \in [Inits -> SubStates]
    BY <1>1 DEF Init, InitStates, SubStates, ClientStates
  <2>2. failures \in 0 .. MaxFailures /\ accepted \in 0 .. MaxRequests
        /\ executed \in 0 .. MaxRequests
    BY ConstantsAssumption DEF Init
  <2> QED
    BY <2>1, <2>2, <1>2 DEF Init, TypeOK, Contexts, Places
<1>4. PublisherHasContext
  BY <1>1 DEF Init, PublisherHasContext
<1>5. OrdersInOrder /\ OrdersAreAccepted /\ OrdersAreOfAClient
  BY <1>2 DEF Init, OrdersInOrder, OrdersAreAccepted, OrdersAreOfAClient, Sent, Threads
<1> QED
  BY <1>1, <1>3, <1>4, <1>5 DEF IInv

\* A step of a thread of the server keeps the types.
LEMMA TypeOfServerThreads ==
  ASSUME TypeOK, NEW t \in Inits, InitStep(t) \/ SubStep(t)
  PROVE  TypeOK'
<1>1. CASE InitFlag(t)
  BY <1>1 DEF InitFlag, TypeOK, InitStates, hypervisor
<1>2. CASE InitConnect(t)
  BY <1>2 DEF InitConnect, TypeOK, InitStates, Contexts, Places, hypervisor
<1>3. CASE InitSpawn(t)
  BY <1>3 DEF InitSpawn, TypeOK, InitStates, SubStates, hypervisor
<1>4. CASE SubConnect(t)
  <2>1. <<Ack>> \in Seq(ToServer) /\ <<>> \in Seq(ToServer)
    BY DEF ToServer
  <2> QED
    BY <1>4, <2>1 DEF SubConnect, TypeOK, SubStates, hypervisor
<1>5. CASE SubReceive(t)
  <2> DEFINE m == Head(inbox[t])
  <2>1. m \in ToServer /\ Tail(inbox[t]) \in Seq(ToServer)
    BY <1>5, HeadTail DEF SubReceive, TypeOK
  <2>2. ctx' \in Contexts /\ on' \in [Threads -> Places] /\ shared' \in BOOLEAN
    BY <1>5, EnterFact DEF SubReceive, TypeOK, Threads
  <2> QED
    BY <1>5, <2>1, <2>2 DEF SubReceive, TypeOK, ProvesAlive, hypervisor
<1>6. CASE SubClosed(t)
  BY <1>6 DEF SubClosed, TypeOK, SubStates, hypervisor
<1> QED
  BY <1>1, <1>2, <1>3, <1>4, <1>5, <1>6 DEF InitStep, SubStep

\* A step of a thread of the hypervisor keeps the types.
LEMMA TypeOfHypervisorThreads ==
  ASSUME TypeOK, NEW h \in Clients, ClientStep(h)
  PROVE  TypeOK'
<1>1. CASE ClientConnect(h)
  BY <1>1 DEF ClientConnect, TypeOK, ClientStates, Contexts, server
<1>2. CASE ClientAnnounce(h)
  <2>1. inbox' \in [Inits -> Seq(ToServer)] /\ hctx' \in Contexts
    BY <1>2, HypPublishFact DEF ClientAnnounce, ToServer
  <2> QED
    BY <1>2, <2>1 DEF ClientAnnounce, TypeOK, ClientStates
<1>3. CASE ClientSpawn(h)
  BY <1>3 DEF ClientSpawn, TypeOK, ClientStates, server
<1>4. CASE ClientSubscribe(h)
  BY <1>4 DEF ClientSubscribe, Reconnect, TypeOK, ClientStates, server
<1>5. CASE ClientReceive(h)
  <2> DEFINE m == Head(orders[h])
  <2>1. m \in ToHyp /\ Tail(orders[h]) \in Seq(ToHyp)
    BY <1>5, HeadTail DEF ClientReceive, TypeOK
  <2>3. inbox' \in [Inits -> Seq(ToServer)] /\ hctx' \in Contexts
    <3>1. HypPublish("answer") \/ HypPublish("pong") \/ UNCHANGED <<hctx, inbox>>
      BY <1>5 DEF ClientReceive
    <3> QED
      BY <3>1, HypPublishFact DEF TypeOK, ToServer
  <2>4. executed' \in 0 .. MaxRequests
    BY <1>5, <2>1 DEF ClientReceive, TypeOK, ToHyp, Requests
  <2> QED
    BY <1>5, <2>1, <2>3, <2>4 DEF ClientReceive, TypeOK
<1>6. CASE ClientClosed(h)
  BY <1>6 DEF ClientClosed, Reconnect, TypeOK, ClientStates, server
<1> QED
  BY <1>1, <1>2, <1>3, <1>4, <1>5, <1>6 DEF ClientStep

\* Every other step keeps the types.
LEMMA TypeStep ==
  ASSUME TypeOK, OrdersAreAccepted, [Next]_vars
  PROVE  TypeOK'
<1> USE ConstantsAssumption
<1>1. CASE RedisFails
  <2>1. inbox \in [Inits -> Seq(ToServer)] /\ orders \in [Clients -> Seq(ToHyp)]
    BY DEF TypeOK
  <2>2. PICK k \in 0 .. MaxQueue : inbox' = Kept(inbox, k) /\ orders' = Kept(orders, k)
    BY <1>1 DEF RedisFails
  <2>3. inbox' \in [Inits -> Seq(ToServer)] /\ orders' \in [Clients -> Seq(ToHyp)]
    <3>1. k \in Nat
      OBVIOUS
    <3>2. Kept(inbox, k) \in [Inits -> Seq(ToServer)]
      BY <2>1, <3>1, KeptFact
    <3>3. Kept(orders, k) \in [Clients -> Seq(ToHyp)]
      BY <2>1, <3>1, KeptFact
    <3> QED
      BY <2>2, <3>2, <3>3
  <2>4. sub' \in [Inits -> SubStates] /\ client' \in [Clients -> ClientStates]
    BY <1>1 DEF RedisFails, TypeOK, SubStates, ClientStates, Cut
  <2>5. /\ ctx' \in Contexts /\ hctx' \in Contexts /\ failures' \in 0 .. MaxFailures
        /\ on' \in [Threads -> Places]
    BY <1>1 DEF RedisFails, TypeOK, Contexts, Places
  <2> QED
    BY <1>1, <2>3, <2>4, <2>5 DEF RedisFails, TypeOK
<1>2. CASE RedisStarts
  BY <1>2 DEF RedisStarts, TypeOK, server, hypervisor
<1>3. CASE ServerFails
  <2>1. init' \in [Inits -> {"start", "none"}]
    BY <1>3, OneOfFact DEF ServerFails
  <2> QED
    <3>1. /\ init' \in [Inits -> InitStates] /\ sub' \in [Inits -> SubStates]
          /\ inbox' \in [Inits -> Seq(ToServer)]
      BY <1>3, <2>1 DEF ServerFails, SubStates, InitStates
    <3>2. ctx' \in Contexts /\ failures' \in 0 .. MaxFailures /\ on' \in [Threads -> Places]
      BY <1>3 DEF ServerFails, TypeOK, Contexts, Places
    <3> QED
      BY <1>3, <3>1, <3>2 DEF ServerFails, TypeOK, hypervisor
<1>4. CASE HypervisorFails
  <2>1. client' \in [Clients -> {"connect", "none"}]
    BY <1>4, OneOfFact DEF HypervisorFails
  <2> QED
    BY <1>4, <2>1 DEF HypervisorFails, TypeOK, Contexts, ClientStates, server
<1>5. CASE RecvCommunication
  BY <1>5 DEF RecvCommunication, TypeOK, Contexts, InitStates, After, hypervisor
<1>6. CASE RecvShells
  <2>1. accepted' \in 0 .. MaxRequests
    BY <1>6 DEF RecvShells, TypeOK
  <2>2. ctx' \in Contexts /\ on' \in [Threads -> Places] /\ shared' \in BOOLEAN
    BY <1>6, EnterFact DEF RecvShells, Threads
  <2> QED
    BY <1>6, <2>1, <2>2 DEF RecvShells, TypeOK, hypervisor
<1>7. CASE Expire
  BY <1>7 DEF Expire, TypeOK, hypervisor
<1>8. CASE SendPong
  BY <1>8, HypPublishFact DEF SendPong, TypeOK, ToServer
<1>9. CASE UNCHANGED vars
  BY <1>9 DEF vars, server, hypervisor, TypeOK
<1>10. ASSUME NEW u \in Threads, Leave(u)
       PROVE  orders' \in [Clients -> Seq(ToHyp)] /\ on' \in [Threads -> Places] /\ ctx' \in Contexts
  <2>1. Message(u) \in ToHyp
    BY <1>10, MessageFact DEF Leave, Inside
  <2> QED
    BY <1>10, <2>1, LeaveFact DEF Leave, TypeOK, Places
<1>11. ASSUME NEW u \in Threads, Publish(u)
       PROVE  TypeOK'
  BY <1>10, <1>11 DEF Publish, TypeOK
<1>12. CASE Mangle
  <2>1. orders' \in [Clients -> Seq(ToHyp)] /\ on' \in [Threads -> Places] /\ ctx' \in Contexts
    <3>1. CASE LeaveAgain
      <4>1. PICK m \in {Ping} \cup 1 .. accepted : orders' = Deliver(orders, Listening, m)
        BY <3>1 DEF LeaveAgain
      <4>2. m \in ToHyp
        BY <4>1 DEF TypeOK, ToHyp, Requests
      <4> QED
        BY <3>1, <4>1, <4>2, LeaveFact DEF LeaveAgain, TypeOK
    <3>2. ASSUME NEW u \in Threads, Lose(u)
          PROVE  orders' \in [Clients -> Seq(ToHyp)] /\ on' \in [Threads -> Places] /\ ctx' \in Contexts
      BY <3>2 DEF Lose, TypeOK, Places, Contexts
    <3> QED
      BY <1>10, <1>12, <3>1, <3>2 DEF Mangle
  <2> QED
    BY <1>12, <2>1 DEF Mangle, TypeOK
<1>13. CASE SignalsShare
  BY <1>13 DEF SignalsShare, TypeOK, server, hypervisor
<1> QED
  BY <1>1, <1>2, <1>3, <1>4, <1>5, <1>6, <1>7, <1>8, <1>9, <1>11, <1>12, <1>13,
     TypeOfServerThreads, TypeOfHypervisorThreads DEF Next
-----------------------------------------------------------------------------
(* The other conjuncts of IInv *)

\* Whoever may publish has a context: nothing sets it to NULL but a crash,
\* which ends every thread with it.
LEMMA ContextStep ==
  ASSUME TypeOK, PublisherHasContext, [Next]_vars
  PROVE  PublisherHasContext'
<1> USE DEF PublisherHasContext
<1>1. CASE RedisFails
  BY <1>1 DEF RedisFails, TypeOK, Cut
<1>2. CASE RedisStarts \/ HypervisorFails \/ Expire \/ SendPong \/ UNCHANGED vars
  BY <1>2 DEF RedisStarts, HypervisorFails, Expire, SendPong, vars, server
<1>3. CASE ServerFails
  BY <1>3, OneOfFact DEF ServerFails
<1>4. CASE RecvCommunication
  BY <1>4 DEF RecvCommunication, After, TypeOK
<1>5. CASE RecvShells
  BY <1>5, EnterFact DEF RecvShells, Threads
<1>6. ASSUME NEW t \in Inits, InitStep(t)
      PROVE  PublisherHasContext'
  <2>1. CASE InitFlag(t)
    BY <2>1 DEF InitFlag, TypeOK
  <2>2. CASE InitConnect(t)
    BY <2>2 DEF InitConnect
  <2>3. CASE InitSpawn(t)
    BY <2>3 DEF InitSpawn, TypeOK
  <2> QED
    BY <1>6, <2>1, <2>2, <2>3 DEF InitStep
<1>7. ASSUME NEW t \in Inits, SubStep(t)
      PROVE  PublisherHasContext'
  <2>1. CASE SubConnect(t)
    BY <2>1 DEF SubConnect, TypeOK
  <2>2. CASE SubReceive(t)
    BY <2>2, EnterFact DEF SubReceive, Threads
  <2>3. CASE SubClosed(t)
    BY <2>3 DEF SubClosed, TypeOK
  <2> QED
    BY <1>7, <2>1, <2>2, <2>3 DEF SubStep
<1>8. ASSUME NEW h \in Clients, ClientStep(h)
      PROVE  PublisherHasContext'
  BY <1>8 DEF ClientStep, ClientConnect, ClientAnnounce, ClientSpawn, ClientSubscribe,
              ClientReceive, ClientClosed, server
<1>9. ASSUME NEW u \in Threads, Publish(u)
      PROVE  PublisherHasContext'
  BY <1>9 DEF Publish, Leave
<1>10. CASE Mangle
  BY <1>10 DEF Mangle, Leave, Lose, LeaveAgain
<1>11. CASE SignalsShare
  BY <1>11 DEF SignalsShare, server
<1> QED
  BY <1>1, <1>2, <1>3, <1>4, <1>5, <1>6, <1>7, <1>8, <1>9, <1>10, <1>11 DEF Next

\* A client starts another only as it ends.
LEMMA ClientsStep ==
  ASSUME TypeOK, OneClient, [Next]_vars
  PROVE  OneClient'
<1> USE DEF OneClient, TypeOK
<1>1. CASE RedisFails
  BY <1>1 DEF RedisFails, Cut
<1>2. CASE RedisStarts \/ ServerFails \/ RecvCommunication \/ RecvShells \/ Expire
           \/ SendPong \/ SignalsShare \/ Mangle \/ (\E u \in Threads : Publish(u))
           \/ UNCHANGED vars
  BY <1>2 DEF RedisStarts, ServerFails, RecvCommunication, RecvShells, Expire, SendPong,
              SignalsShare, Mangle, Publish, vars, hypervisor
<1>3. CASE HypervisorFails
  BY <1>3, OneOfFact DEF HypervisorFails
<1>4. ASSUME NEW t \in Inits, InitStep(t) \/ SubStep(t)
      PROVE  OneClient'
  BY <1>4 DEF InitStep, InitFlag, InitConnect, InitSpawn, SubStep, SubConnect,
              SubReceive, SubClosed, hypervisor
<1>5. ASSUME NEW h \in Clients, ClientStep(h)
      PROVE  OneClient'
  <2>1. CASE client' = client
    BY <2>1
  <2>2. CASE \E s \in ClientStates : client[h] # "none" /\ client' = [client EXCEPT ![h] = s]
    BY <2>2
  <2> QED
    BY <1>5, <2>1, <2>2
    DEF ClientStep, ClientConnect, ClientAnnounce, ClientSpawn, ClientSubscribe,
        Reconnect, ClientReceive, ClientClosed, ClientStates
<1> QED
  BY <1>1, <1>2, <1>3, <1>4, <1>5 DEF Next

-----------------------------------------------------------------------------
(* The order of the requests *)

\* OrdersInOrder of one queue, after request e and up to request a.
InOrder(s, e, a) ==
  \A i \in 1 .. Len(s) : s[i] # Ping =>
    /\ e < s[i]
    /\ s[i] <= a
    /\ \A j \in 1 .. i - 1 : s[j] # Ping => s[j] < s[i]

\* OrdersInOrder speaks of each queue alone.
LEMMA OrdersApart ==
  OrdersInOrder <=> (~shared => /\ executed <= Sent
                               /\ \A h \in Clients : InOrder(orders[h], executed, Sent))
  BY DEF OrdersInOrder, InOrder

\* A ping, or the next request, may follow.
LEMMA AppendInOrder ==
  ASSUME NEW s \in Seq(ToHyp), NEW e \in Nat, NEW a \in Nat, e <= a,
         InOrder(s, e, a), NEW m, m = Ping \/ m = a + 1
  PROVE  InOrder(Append(s, m), e, a + 1) /\ (m = Ping => InOrder(Append(s, m), e, a))
<1> DEFINE l == Append(s, m)
<1>1. Len(l) = Len(s) + 1 /\ l[Len(l)] = m /\ \A i \in 1 .. Len(s) : l[i] = s[i]
  OBVIOUS
<1>2. Len(s) \in Nat /\ \A i \in 1 .. Len(s) : s[i] \in Int
  BY DEF ToHyp, Requests, Ping
<1> HIDE DEF l
<1>3. \A i \in 1 .. Len(s) : s[i] # Ping => s[i] < a + 1
  BY <1>2 DEF InOrder
<1> QED
  BY <1>1, <1>2, <1>3 DEF InOrder

\* A request, once taken, is before the rest of its queue.
LEMMA TailInOrder ==
  ASSUME NEW s \in Seq(ToHyp), s # <<>>, NEW e \in Nat, NEW a \in Nat, InOrder(s, e, a)
  PROVE  /\ InOrder(Tail(s), e, a)
         /\ Head(s) # Ping => InOrder(Tail(s), Head(s), a) /\ e < Head(s) /\ Head(s) <= a
<1>1. /\ Head(s) = s[1] /\ Len(s) \in Nat /\ Len(s) >= 1 /\ Len(Tail(s)) = Len(s) - 1
      /\ \A i \in 1 .. Len(Tail(s)) : Tail(s)[i] = s[i + 1]
  BY HeadTail
<1> DEFINE r == Tail(s)
<1> HIDE DEF r
<1>2. \A i \in 1 .. Len(r) : r[i] = s[i + 1] /\ i + 1 \in 1 .. Len(s)
  BY <1>1 DEF r
<1>3. \A i \in 1 .. Len(r), j \in 1 .. Len(r) : j < i => j + 1 \in 1 .. (i + 1) - 1
  OBVIOUS
<1>4. InOrder(r, e, a)
  BY <1>1, <1>2 DEF InOrder, r
<1>5. ASSUME s[1] # Ping
      PROVE  InOrder(r, s[1], a) /\ e < s[1] /\ s[1] <= a
  <2>1. e < s[1] /\ s[1] <= a
    BY <1>1, <1>5 DEF InOrder
  <2>2. ASSUME NEW i \in 1 .. Len(r), r[i] # Ping
        PROVE  s[1] < r[i]
    BY <1>1, <1>2, <1>5, <2>2 DEF InOrder
  <2> QED
    BY <2>1, <2>2, <1>4 DEF InOrder
<1> QED
  BY <1>1, <1>4, <1>5 DEF r

\* A prefix of a queue in order is in order.
LEMMA PrefixInOrder ==
  ASSUME NEW s \in Seq(ToHyp), NEW r \in Seq(ToHyp), Len(r) <= Len(s),
         \A i \in 1 .. Len(r) : r[i] = s[i],
         NEW e, NEW a, InOrder(s, e, a)
  PROVE  InOrder(r, e, a)
<1>1. Len(r) \in Nat /\ Len(s) \in Nat
  OBVIOUS
<1> QED
  BY <1>1 DEF InOrder

\* What is in order up to a request is so up to a later one.
LEMMA LaterInOrder ==
  ASSUME NEW s \in Seq(ToHyp), NEW e, NEW a \in Int, NEW b \in Int, a <= b, InOrder(s, e, a)
  PROVE  InOrder(s, e, b)
<1>1. Len(s) \in Nat /\ \A i \in 1 .. Len(s) : s[i] \in Int
  BY DEF ToHyp, Requests, Ping
<1> QED
  BY <1>1 DEF InOrder

\* What is known of the queues.
Orders == OrdersInOrder /\ OrdersAreAccepted /\ OrdersAreOfAClient

\* The numbers are numbers.
LEMMA Numbers ==
  ASSUME TypeOK, OrdersAreAccepted
  PROVE  /\ executed \in Nat /\ accepted \in Nat /\ Sent \in Nat
         /\ Sent <= accepted
         /\ orders \in [Clients -> Seq(ToHyp)]
         /\ on[Main] # "none" => accepted = Sent + 1
         /\ on[Main] = "none" => accepted = Sent
  BY DEF TypeOK, OrdersAreAccepted, Sent

\* A step that executes and publishes nothing, whatever it takes from the
\* ends of the queues, keeps them as they must be.
LEMMA ShorterQueues ==
  ASSUME TypeOK, Orders, TypeOK',
         UNCHANGED executed, accepted <= accepted', Sent <= Sent',
         shared => shared', on'[Main] = "none" \/ accepted' > 0,
         \A h \in Clients :
           /\ Len(orders'[h]) <= Len(orders[h])
           /\ \A i \in 1 .. Len(orders'[h]) : orders'[h][i] = orders[h][i]
           /\ orders'[h] # <<>> /\ client[h] \in {"on", "closed"}
                => client'[h] \in {"on", "closed"}
  PROVE  Orders'
<1>1. /\ executed \in Nat /\ Sent \in Int /\ Sent' \in Int /\ accepted \in Nat /\ accepted' \in Nat
      /\ orders \in [Clients -> Seq(ToHyp)] /\ orders' \in [Clients -> Seq(ToHyp)]
  BY DEF TypeOK, Sent
<1>2. ASSUME NEW h \in Clients
      PROVE  /\ orders[h] \in Seq(ToHyp) /\ orders'[h] \in Seq(ToHyp)
             /\ Len(orders'[h]) \in Nat /\ Len(orders[h]) \in Nat
             /\ orders'[h] # <<>> => orders[h] # <<>>
             /\ \A i \in 1 .. Len(orders'[h]) : orders'[h][i] \in Int
  <2>1. orders[h] \in Seq(ToHyp) /\ orders'[h] \in Seq(ToHyp)
    BY <1>1
  <2>2. \A i \in 1 .. Len(orders'[h]) : orders'[h][i] \in Int
    BY <2>1 DEF ToHyp, Requests, Ping
  <2> QED
    BY <2>1, <2>2
<1>3. OrdersAreAccepted'
  BY <1>1, <1>2 DEF Orders, OrdersAreAccepted
<1>4. OrdersAreOfAClient'
  BY <1>2 DEF Orders, OrdersAreOfAClient
<1>5. ASSUME ~shared'
      PROVE  executed' <= Sent' /\ \A h \in Clients : InOrder(orders'[h], executed', Sent')
  <2>1. executed <= Sent /\ \A h \in Clients : InOrder(orders[h], executed, Sent)
    BY <1>5, OrdersApart DEF Orders
  <2>2. ASSUME NEW h \in Clients
        PROVE  InOrder(orders'[h], executed, Sent')
    <3>1. InOrder(orders'[h], executed, Sent)
      BY <1>2, <2>1, PrefixInOrder
    <3> QED
      BY <1>1, <1>2, <3>1, LaterInOrder
  <2> QED
    BY <1>1, <2>1, <2>2
<1>6. OrdersInOrder'
  BY <1>5 DEF OrdersInOrder, InOrder
<1> QED
  BY <1>3, <1>4, <1>6 DEF Orders

\* A message that leaves the server follows what waits, unless the context
\* was shared.
LEMMA LongerQueues ==
  ASSUME TypeOK, Orders, NEW m \in ToHyp, orders' = Deliver(orders, Listening, m),
         m <= accepted, UNCHANGED <<accepted, executed, shared, client>>,
         on'[Main] = "none" \/ on'[Main] = on[Main],
         shared \/ (m = Ping /\ Sent' = Sent) \/ (m = Sent + 1 /\ Sent' = Sent + 1)
  PROVE  Orders'
<1>1. /\ executed \in Nat /\ Sent \in Nat /\ accepted \in Nat
      /\ orders \in [Clients -> Seq(ToHyp)]
  BY Numbers DEF Orders
<1>2. \A h \in Clients : \/ orders'[h] = orders[h]
                         \/ client[h] = "on" /\ orders'[h] = Append(orders[h], m)
  BY LeaveFact
<1>3. OrdersAreAccepted'
  <2>1. ASSUME NEW h \in Clients
        PROVE  \A i \in 1 .. Len(orders'[h]) : orders'[h][i] <= accepted
    <3>1. orders[h] \in Seq(ToHyp) /\ \A i \in 1 .. Len(orders[h]) : orders[h][i] <= accepted
      BY <1>1 DEF Orders, OrdersAreAccepted
    <3>2. CASE orders'[h] = Append(orders[h], m)
      <4> DEFINE l == Append(orders[h], m)
      <4>1. Len(orders[h]) \in Nat /\ Len(l) = Len(orders[h]) + 1 /\ l[Len(l)] = m
            /\ \A i \in 1 .. Len(orders[h]) : l[i] = orders[h][i]
        BY <3>1
      <4> HIDE DEF l
      <4>2. \A i \in 1 .. Len(l) : l[i] <= accepted
        BY <3>1, <4>1
      <4> QED
        BY <3>2, <4>2 DEF l
    <3> QED
      BY <1>2, <3>1, <3>2
  <2> QED
    BY <2>1 DEF Orders, OrdersAreAccepted
<1>4. OrdersAreOfAClient'
  BY <1>2 DEF Orders, OrdersAreOfAClient
<1>5. ASSUME ~shared'
      PROVE  executed' <= Sent' /\ \A h \in Clients : InOrder(orders'[h], executed', Sent')
  <2>1. executed <= Sent /\ \A h \in Clients : InOrder(orders[h], executed, Sent)
    BY <1>5, OrdersApart DEF Orders
  <2>2. (m = Ping /\ Sent' = Sent) \/ (m = Sent + 1 /\ Sent' = Sent + 1)
    BY <1>5
  <2>3. ASSUME NEW h \in Clients
        PROVE  InOrder(orders'[h], executed, Sent')
    <3>1. orders[h] \in Seq(ToHyp) /\ InOrder(orders[h], executed, Sent)
      BY <1>1, <2>1
    <3>2. InOrder(orders[h], executed, Sent + 1)
      BY <1>1, <3>1, LaterInOrder
    <3>3. /\ InOrder(Append(orders[h], m), executed, Sent + 1)
          /\ m = Ping => InOrder(Append(orders[h], m), executed, Sent)
      BY <1>1, <2>1, <2>2, <3>1, AppendInOrder
    <3> QED
      BY <1>2, <2>2, <3>1, <3>2, <3>3
  <2> QED
    BY <1>1, <2>1, <2>2, <2>3
<1>6. OrdersInOrder'
  BY <1>5 DEF OrdersInOrder, InOrder
<1> QED
  BY <1>3, <1>4, <1>6 DEF Orders

\* A client that executes a request is the only one with orders.  The
\* request is after the last one executed, or the context was shared: the
\* step is one of the channel.
LEMMA ReceiveStep ==
  ASSUME TypeOK, OneClient, Orders, NEW h \in Clients, ClientReceive(h)
  PROVE  /\ Orders'
         /\ UNCHANGED <<accepted, shared>>
         /\ UNCHANGED executed \/ Channel!Execute \/ Channel!Repeat
<1> DEFINE s == orders[h]
           m == Head(s)
<1>1. /\ s \in Seq(ToHyp) /\ s # <<>> /\ orders \in [Clients -> Seq(ToHyp)]
      /\ executed \in Nat /\ accepted \in Nat /\ Sent \in Nat /\ Sent <= accepted
  BY Numbers DEF Orders, ClientReceive
<1>2. /\ m \in ToHyp /\ m = s[1] /\ Len(s) \in Nat /\ Len(s) >= 1
      /\ \A i \in 1 .. Len(Tail(s)) : i + 1 \in 1 .. Len(s) /\ Tail(s)[i] = s[i + 1]
  BY <1>1, HeadTail
<1>3. /\ orders'[h] = Tail(s) /\ \A k \in Clients \ {h} : orders'[k] = orders[k]
      /\ executed' = IF m = Ping THEN executed ELSE m
      /\ UNCHANGED <<accepted, client, shared, on>>
  BY <1>1 DEF ClientReceive
<1>4. \A k \in Clients \ {h} : orders[k] = <<>>
  BY <1>1 DEF Orders, OneClient, OrdersAreOfAClient, ClientReceive
<1>5. m <= accepted /\ executed' <= accepted /\ executed' \in Nat
  <2>1. m <= accepted
    BY <1>2 DEF Orders, OrdersAreAccepted
  <2> QED
    BY <1>1, <1>2, <1>3, <2>1 DEF Orders, OrdersAreAccepted, ToHyp, Requests, Ping
<1>6. OrdersAreAccepted'
  <2>1. \A i \in 1 .. Len(Tail(s)) : Tail(s)[i] <= accepted
    BY <1>2 DEF Orders, OrdersAreAccepted
  <2>2. \A k \in Clients : \A i \in 1 .. Len(orders'[k]) : orders'[k][i] <= accepted
    BY <1>3, <2>1 DEF Orders, OrdersAreAccepted
  <2> QED
    BY <1>3, <1>5, <2>2 DEF Orders, OrdersAreAccepted
<1>7. OrdersAreOfAClient'
  BY <1>1, <1>3, <1>4 DEF Orders, OrdersAreOfAClient, ClientReceive
<1>8. ASSUME ~shared
      PROVE  /\ executed' <= Sent /\ \A k \in Clients : InOrder(orders'[k], executed', Sent)
             /\ m # Ping => executed < m
  <2>1. executed <= Sent /\ InOrder(s, executed, Sent)
    BY <1>8, OrdersApart DEF Orders
  <2>2. /\ InOrder(Tail(s), executed, Sent)
        /\ m # Ping => InOrder(Tail(s), m, Sent) /\ executed < m /\ m <= Sent
    BY <1>1, <2>1, TailInOrder
  <2>3. \A x, y : InOrder(<<>>, x, y)
    BY DEF InOrder
  <2>4. \A k \in Clients : InOrder(orders'[k], executed', Sent)
    BY <1>3, <1>4, <2>2, <2>3
  <2> QED
    BY <1>3, <2>1, <2>2, <2>4
<1>9. Sent' = Sent
  BY <1>3 DEF Sent
<1>10. OrdersInOrder'
  BY <1>3, <1>8, <1>9 DEF OrdersInOrder, InOrder
<1>11. m # Ping => Channel!Execute \/ Channel!Repeat
  BY <1>1, <1>2, <1>3, <1>5, <1>8 DEF ToHyp, Requests, Ping, Channel!Execute, Channel!Repeat, TypeOK
<1> QED
  BY <1>3, <1>6, <1>7, <1>10, <1>11 DEF Orders

\* Every step keeps the queues as they must be, and is a step of the channel.
LEMMA OrdersStep ==
  ASSUME TypeOK, OneClient, Orders, [Next]_vars
  PROVE  Orders' /\ [Channel!Next]_<<accepted, executed, shared>>
<1>1. TypeOK' /\ OrdersAreAccepted
  BY TypeStep DEF Orders
<1>2. /\ executed \in Nat /\ accepted \in Nat /\ Sent \in Nat /\ Sent <= accepted
      /\ orders \in [Clients -> Seq(ToHyp)] /\ orders' \in [Clients -> Seq(ToHyp)]
      /\ shared \in BOOLEAN /\ shared' \in BOOLEAN
      /\ on[Main] # "none" => accepted = Sent + 1
      /\ on[Main] = "none" => accepted = Sent
      /\ on[Main] = "none" \/ accepted > 0
  BY <1>1, Numbers DEF TypeOK, Orders, OrdersAreAccepted
<1>3. Main \in Threads /\ Main \notin Inits /\ Inits \subseteq Threads
  BY ConstantsAssumption DEF Threads
<1>4. ASSUME shared => shared', accepted' = accepted, executed' = executed
      PROVE  [Channel!Next]_<<accepted, executed, shared>>
  BY <1>2, <1>4 DEF Channel!Next, Channel!Share
<1>5. ASSUME UNCHANGED <<accepted, executed, client, orders>>, shared => shared',
             on'[Main] = "none" <=> on[Main] = "none"
      PROVE  Orders' /\ [Channel!Next]_<<accepted, executed, shared>>
  <2>1. Sent' = Sent
    BY <1>5 DEF Sent
  <2>2. \A h \in Clients : Len(orders[h]) \in Nat
    BY <1>2
  <2> QED
    BY <1>1, <1>2, <1>4, <1>5, <2>1, <2>2, ShorterQueues
<1>6. CASE RedisFails
  <2>1. PICK k \in 0 .. MaxQueue : orders' = Kept(orders, k)
    BY <1>6 DEF RedisFails
  <2>2. k \in Nat
    BY <2>1, ConstantsAssumption
  <2>3. ASSUME NEW h \in Clients
        PROVE  /\ Len(orders'[h]) <= Len(orders[h])
               /\ \A i \in 1 .. Len(orders'[h]) : orders'[h][i] = orders[h][i]
               /\ client[h] \in {"on", "closed"} => client'[h] \in {"on", "closed"}
    <3>1. /\ Len(Kept(orders, k)[h]) <= Len(orders[h])
          /\ \A i \in 1 .. Len(Kept(orders, k)[h]) : Kept(orders, k)[h][i] = orders[h][i]
      BY <1>2, <2>2, KeptOf
    <3> QED
      BY <1>6, <2>1, <3>1 DEF RedisFails, Cut, TypeOK
  <2>4. UNCHANGED <<accepted, executed, shared>> /\ on'[Main] = "none"
    BY <1>3, <1>6 DEF RedisFails
  <2>5. Sent' = accepted
    BY <2>4 DEF Sent
  <2> QED
    BY <1>1, <1>2, <1>4, <2>3, <2>4, <2>5, ShorterQueues
<1>7. CASE RedisStarts \/ Expire \/ SendPong \/ UNCHANGED vars
  BY <1>5, <1>7 DEF RedisStarts, Expire, SendPong, vars, server, hypervisor
<1>8. CASE RecvCommunication \/ SignalsShare
  BY <1>5, <1>8 DEF RecvCommunication, SignalsShare, server, hypervisor
<1>9. CASE ServerFails
  <2>1. UNCHANGED <<accepted, executed, shared, orders, client>> /\ on'[Main] = "none"
    BY <1>3, <1>9 DEF ServerFails, hypervisor
  <2>2. Sent' = accepted
    BY <2>1 DEF Sent
  <2>3. \A h \in Clients : Len(orders[h]) \in Nat
    BY <1>2
  <2> QED
    BY <1>1, <1>2, <1>4, <2>1, <2>2, <2>3, ShorterQueues
<1>10. CASE HypervisorFails
  <2>1. UNCHANGED <<accepted, executed, shared, on>> /\ \A h \in Clients : orders'[h] = <<>>
    BY <1>10 DEF HypervisorFails, server
  <2>2. Sent' = Sent
    BY <2>1 DEF Sent
  <2>3. \A h \in Clients : Len(orders[h]) \in Nat /\ Len(orders'[h]) = 0
    BY <1>2, <2>1
  <2> QED
    BY <1>1, <1>2, <1>4, <2>1, <2>2, <2>3, ShorterQueues
<1>11. CASE RecvShells
  <2>1. /\ accepted' = accepted + 1 /\ UNCHANGED <<executed, orders, client>>
        /\ on[Main] = "none"
    BY <1>11 DEF RecvShells, hypervisor
  <2>2. shared => shared'
    BY <1>3, <1>11, EnterFact DEF RecvShells
  <2>3. Sent' \in {accepted, accepted + 1}
    BY <1>2, <2>1 DEF Sent
  <2>4. \A h \in Clients : Len(orders[h]) \in Nat
    BY <1>2
  <2>5. Orders'
    BY <1>1, <1>2, <2>1, <2>2, <2>3, <2>4, ShorterQueues
  <2> QED
    BY <1>2, <2>1, <2>2, <2>5 DEF Channel!Next, Channel!Accept, Channel!Share
<1>12. ASSUME NEW u \in Threads, Leave(u), UNCHANGED <<accepted, executed, shared, client>>
       PROVE  Orders' /\ [Channel!Next]_<<accepted, executed, shared>>
  <2>1. Message(u) \in ToHyp /\ Message(u) <= accepted
    BY <1>1, <1>12, MessageFact DEF Leave, Inside
  <2>2. on'[Main] = IF u = Main THEN "none" ELSE on[Main]
    BY <1>3, <1>12 DEF Leave, TypeOK
  <2>3. \/ Message(u) = Ping /\ Sent' = Sent
        \/ Message(u) = Sent + 1 /\ Sent' = Sent + 1
    BY <1>2, <1>12, <2>2 DEF Message, Sent, Leave, Inside
  <2>4. orders' = Deliver(orders, Listening, Message(u))
    BY <1>12 DEF Leave
  <2>5. Orders'
    BY <1>12, <2>1, <2>2, <2>3, <2>4, LongerQueues
  <2> QED
    BY <1>4, <1>12, <2>5
<1>13. ASSUME NEW u \in Threads, Publish(u)
       PROVE  Orders' /\ [Channel!Next]_<<accepted, executed, shared>>
  BY <1>12, <1>13 DEF Publish
<1>14. CASE Mangle
  <2>1. UNCHANGED <<accepted, executed, shared, client>> /\ shared
    BY <1>14 DEF Mangle
  <2>2. CASE LeaveAgain
    <3>1. PICK m \in {Ping} \cup 1 .. accepted : orders' = Deliver(orders, Listening, m)
      BY <2>2 DEF LeaveAgain
    <3>2. m \in ToHyp
      BY <3>1, ConstantsAssumption DEF TypeOK, ToHyp, Requests
    <3>5. m <= accepted
      BY <1>2, <3>1 DEF Ping
    <3>3. on' = on
      BY <2>2 DEF LeaveAgain
    <3>4. Orders'
      BY <2>1, <3>1, <3>2, <3>3, <3>5, LongerQueues
    <3> QED
      BY <1>4, <2>1, <3>4
  <2>3. ASSUME NEW u \in Threads, Lose(u)
        PROVE  Orders' /\ [Channel!Next]_<<accepted, executed, shared>>
    <3>1. orders' = orders /\ on'[Main] \in {"none", on[Main]}
      BY <1>3, <2>3 DEF Lose, TypeOK
    <3>2. Sent' \in {Sent, accepted}
      BY <2>1, <3>1 DEF Sent
    <3>3. \A h \in Clients : Len(orders[h]) \in Nat
      BY <1>2
    <3> QED
      BY <1>1, <1>2, <1>4, <2>1, <3>1, <3>2, <3>3, ShorterQueues
  <2> QED
    BY <1>12, <1>14, <2>1, <2>2, <2>3 DEF Mangle
<1>15. ASSUME NEW t \in Inits, InitStep(t)
       PROVE  Orders' /\ [Channel!Next]_<<accepted, executed, shared>>
  <2>1. UNCHANGED <<accepted, executed, client, orders, shared>>
    BY <1>15 DEF InitStep, InitFlag, InitConnect, InitSpawn, hypervisor
  <2>2. on'[Main] = "none" <=> on[Main] = "none"
    BY <1>3, <1>15 DEF InitStep, InitFlag, InitConnect, InitSpawn
  <2> QED
    BY <1>5, <2>1, <2>2
<1>16. ASSUME NEW t \in Inits, SubStep(t)
       PROVE  Orders' /\ [Channel!Next]_<<accepted, executed, shared>>
  <2>1. UNCHANGED <<accepted, executed, client, orders>>
    BY <1>16 DEF SubStep, SubConnect, SubReceive, SubClosed, hypervisor
  <2>2. (shared => shared') /\ on'[Main] = on[Main]
    BY <1>3, <1>16, EnterFact DEF SubStep, SubConnect, SubReceive, SubClosed
  <2> QED
    BY <1>5, <2>1, <2>2
<1>17. ASSUME NEW h \in Clients, ClientStep(h)
       PROVE  Orders' /\ [Channel!Next]_<<accepted, executed, shared>>
  <2>1. CASE ClientReceive(h)
    BY <2>1, ReceiveStep DEF Channel!Next
  <2>2. CASE ClientConnect(h) \/ ClientAnnounce(h) \/ ClientSpawn(h) \/ ClientSubscribe(h)
             \/ ClientClosed(h)
    <3>1. UNCHANGED <<accepted, executed, orders, shared, on>>
      BY <2>2 DEF ClientConnect, ClientAnnounce, ClientSpawn, ClientSubscribe,
                  ClientClosed, server
    <3>2. \A k \in Clients : orders[k] # <<>> => client'[k] = client[k]
      <4>1. orders[h] = <<>>
        BY <2>2 DEF ClientConnect, ClientAnnounce, ClientSpawn, ClientSubscribe,
                    ClientClosed, Orders, OrdersAreOfAClient
      <4>2. \A k \in Clients \ {h} : client'[k] = client[k]
        BY <2>2 DEF ClientConnect, ClientAnnounce, ClientSpawn, ClientSubscribe,
                    ClientClosed, Reconnect, TypeOK
      <4> QED
        BY <4>1, <4>2
    <3>3. Sent' = Sent
      BY <3>1 DEF Sent
    <3>4. \A k \in Clients : Len(orders[k]) \in Nat
      BY <1>2
    <3> QED
      BY <1>1, <1>2, <1>4, <3>1, <3>2, <3>3, <3>4, ShorterQueues
  <2> QED
    BY <1>17, <2>1, <2>2 DEF ClientStep
<1> QED
  BY <1>6, <1>7, <1>8, <1>9, <1>10, <1>11, <1>13, <1>14, <1>15, <1>16, <1>17 DEF Next

-----------------------------------------------------------------------------
(* The theorems *)

\* IInv holds in every state: the commands of the owner have one thread to
\* execute them, however often the connection was lost, and until two threads
\* of the server were inside its context at once they wait in their order.
THEOREM Inductive == Spec => []IInv
<1>1. Init => IInv
  BY InitInvariant
<1>2. IInv /\ [Next]_vars => IInv'
  <2> SUFFICES ASSUME IInv, [Next]_vars PROVE IInv'
    OBVIOUS
  <2>1. TypeOK' /\ PublisherHasContext' /\ OneClient'
    BY TypeStep, ContextStep, ClientsStep DEF IInv
  <2>2. Orders'
    BY OrdersStep DEF IInv, Orders
  <2> QED
    BY <2>1, <2>2 DEF IInv, Orders
<1> QED
  BY <1>1, <1>2, PTL DEF Spec

\* The server never publishes on a context it does not have: publish() in
\* communication.c needs no test for NULL.
THEOREM ContextCorrect == Spec => []PublisherHasContext
<1>1. IInv => PublisherHasContext
  BY DEF IInv
<1> QED
  BY <1>1, Inductive, PTL

\* The link, with its failures, its reconnections and the context that the
\* threads of the server share, implements the channel.
THEOREM ChannelCorrect == Spec => ImplementsChannel
<1>1. Init => Channel!Init
  BY DEF Init, Channel!Init
<1>2. IInv /\ [Next]_vars => [Channel!Next]_<<accepted, executed, shared>>
  BY OrdersStep DEF IInv, Orders
<1> QED
  BY <1>1, <1>2, Inductive, PTL DEF Spec, ImplementsChannel, Channel!Spec
=============================================================================
