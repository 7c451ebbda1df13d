----------------------------- MODULE ServerProofs -----------------------------
(***************************************************************************)
(* What holds of the server for any number of builds, connections, senders *)
(* and signals.  Its parts do not share variables but for the connection,  *)
(* so that each has an invariant of its own.                               *)
(***************************************************************************)
EXTENDS Server, FiniteSetTheorems, TLAPS

-----------------------------------------------------------------------------
(* The connection *)

\* The present connection is alive for as long as the event loop may run handlers.
ConnInv ==
  /\ main \in {"connecting", "listening", "publishing", "waiting", "locking", "stopping"} => global_conn \in live
  /\ is_xmpp_connection_set => main \in {"listening", "publishing", "waiting"}
  /\ is_owner_online => is_xmpp_connection_set

\* Whatever the main thread does keeps the invariant of the connection.
LEMMA ConnStep == ASSUME ConnInv, [Next]_vars PROVE ConnInv'
<1> USE DEF ConnInv, Spend, Event, RareEvent, flags, connection, Dispatching
<1>1. CASE ConnectionNext
  <2>1. CASE NewConnection BY <2>1 DEF NewConnection
  <2>2. CASE Attempt BY <2>2 DEF Attempt
  <2>3. CASE Connected BY <2>3 DEF Connected
  <2>4. CASE ConnectionError BY <2>4 DEF ConnectionError
  <2>5. CASE Release BY <2>5 DEF Release
  <2>6. CASE Forget BY <2>6 DEF Forget
  <2>7. CASE OwnerComes BY <2>7 DEF OwnerComes
  <2>8. CASE OwnerLeaves BY <2>8 DEF OwnerLeaves
  <2>9. CASE SignalFiles BY <2>9 DEF SignalFiles
  <2>10. CASE FilesAnswer BY <2>10 DEF FilesAnswer
  <2> QED BY <1>1, <2>1, <2>2, <2>3, <2>4, <2>5, <2>6, <2>7, <2>8, <2>9, <2>10 DEF ConnectionNext
<1>2. CASE MakeNext
  <2>1. UNCHANGED connection
    BY <1>2 DEF MakeNext, BuildWithoutRequest, Build, ThreadStep, ChildStep, ChildWrites, ReaderStep,
       OpenPipes, Fork, Close, WriteStatus, Exit, Output, ReaderReads, ReaderGets, ReaderAtEnd, ReaderSends,
       ReaderPasses, FileAnswers, OtherOpens, OtherCloses
  <2> QED BY <2>1
<1>3. CASE PsNext
  <2>1. UNCHANGED connection
    BY <1>3 DEF PsNext, ps_send, ps_stop, SenderStep, SenderTests, SenderSends, SenderWakes, ProcessIsGone
  <2> QED BY <2>1
<1>4. CASE CommunicationNext
  <2>1. CASE Publish BY <2>1 DEF Publish
  <2>2. CASE Published BY <2>2 DEF Published
  <2>3. CASE ~Publish /\ ~Published
    <3>1. UNCHANGED connection
      BY <1>4, <2>3 DEF CommunicationNext, Push, RelayTests, RelaySends, WorkerStep, AskRange, Ranged, Post,
         PostFails, Trimmed, ContextBreaks
    <3> QED BY <3>1
  <2> QED BY <2>1, <2>2, <2>3
<1>5. CASE UNCHANGED vars BY <1>5 DEF vars
<1> QED BY <1>1, <1>2, <1>3, <1>4, <1>5 DEF Next

\* The flags that every thread tests before it uses the connection tell the truth
\* (conn_handler in wxmpp.c), for any number of connections and losses.
THEOREM FlagsCorrect == Spec => []FlagsMatchConnection
<1>1. Init => ConnInv BY DEF Init, ConnectionInit, ConnInv
<1>2. ConnInv /\ [Next]_vars => ConnInv' BY ConnStep
<1>3. ConnInv => FlagsMatchConnection BY DEF ConnInv, FlagsMatchConnection
<1> QED BY <1>1, <1>2, <1>3, PTL DEF Spec

-----------------------------------------------------------------------------
(* The task manager *)

\* A thread of the task manager, and the connection it was given.
PsInv ==
  /\ made \in Nat
  /\ global_conn \in Nat
  /\ sender \in [Senders -> [at : {"none", "test", "list", "sleep"}, conn : Nat]]
  /\ SendingHasSender

\* The numbers of connections are only made by the main thread.
LEMMA NumbersStep ==
  ASSUME PsInv, [Next]_vars
  PROVE  made' \in Nat /\ global_conn' \in Nat
<1>1. CASE ConnectionNext
  BY <1>1 DEF PsInv, ConnectionNext, NewConnection, Attempt, Connected, ConnectionError, Release, Forget,
     OwnerComes, OwnerLeaves, SignalFiles, FilesAnswer
<1>2. CASE MakeNext
  BY <1>2 DEF PsInv, connection, MakeNext, BuildWithoutRequest, Build, ThreadStep, ChildStep, ChildWrites,
     ReaderStep, OpenPipes, Fork, Close, WriteStatus, Exit, Output, ReaderReads, ReaderGets, ReaderAtEnd,
     ReaderSends, ReaderPasses, FileAnswers, OtherOpens, OtherCloses
<1>3. CASE PsNext
  BY <1>3 DEF PsInv, connection, PsNext, ps_send, ps_stop, SenderStep, SenderTests, SenderSends, SenderWakes,
     ProcessIsGone
<1>4. CASE CommunicationNext
  BY <1>4 DEF PsInv, connection, CommunicationNext, Publish, Published, Push, RelayTests, RelaySends,
     WorkerStep, AskRange, Ranged, Post, PostFails, Trimmed, ContextBreaks
<1>5. CASE UNCHANGED vars
  BY <1>5 DEF PsInv, vars, connection
<1> QED
  BY <1>1, <1>2, <1>3, <1>4, <1>5 DEF Next

\* A sender ends only when it reads a flag that is down, and the flag only goes up
\* with a sender that starts.
LEMMA PsStep == ASSUME PsInv, [Next]_vars PROVE PsInv'
<1>1. made' \in Nat /\ global_conn' \in Nat
  BY NumbersStep
<1> USE DEF PsInv, SendingHasSender, tasks
<1>2. CASE UNCHANGED tasks
  BY <1>1, <1>2
<1>3. CASE ps_send
  <2>1. PICK s \in Senders : sender' = [sender EXCEPT ![s] = [at |-> "test", conn |-> global_conn]]
    BY <1>3 DEF ps_send
  <2> QED
    BY <1>1, <2>1
<1>4. CASE ps_stop
  BY <1>1, <1>4 DEF ps_stop
<1>5. ASSUME NEW s \in Senders, SenderTests(s) PROVE PsInv'
  <2>1. CASE keep_sending
    BY <1>1, <1>5, <2>1 DEF SenderTests, Move
  <2>2. CASE ~keep_sending
    BY <1>1, <1>5, <2>2 DEF SenderTests, NoSender
  <2> QED
    BY <2>1, <2>2
<1>6. ASSUME NEW s \in Senders, SenderSends(s) PROVE PsInv'
  BY <1>1, <1>6 DEF SenderSends, Move
<1>7. ASSUME NEW s \in Senders, SenderWakes(s) PROVE PsInv'
  BY <1>1, <1>7 DEF SenderWakes, Move
<1>8. ASSUME NEW s \in Senders, ProcessIsGone(s) PROVE PsInv'
  BY <1>2, <1>8 DEF ProcessIsGone
<1>9. CASE PsNext
  BY <1>3, <1>4, <1>5, <1>6, <1>7, <1>8, <1>9 DEF PsNext, SenderStep
<1>10. CASE ConnectionNext \/ MakeNext \/ CommunicationNext \/ UNCHANGED vars
  BY <1>2, <1>10 DEF ConnectionNext, MakeNext, CommunicationNext, vars
<1> QED
  BY <1>9, <1>10 DEF Next

\* The flag keep_sending, which is all that ps_send looks at, is never up without a
\* thread that lists the processes, for any number of commands and of threads.
THEOREM SendingCorrect == Spec => []SendingHasSender
<1>1. Init => PsInv
  BY DEF Init, ConnectionInit, PsInit, PsInv, SendingHasSender, NoSender
<1>2. PsInv /\ [Next]_vars => PsInv'
  BY PsStep
<1>3. PsInv => SendingHasSender
  BY DEF PsInv
<1> QED
  BY <1>1, <1>2, <1>3, PTL DEF Spec

-----------------------------------------------------------------------------
(* The builds *)

Block == [of : Pipes, n : Nat]

\* What a reader knows in each of its states.
Reader ==
  {r \in [at : {"none", "ready", "waiting", "sending", "strayed", "passing", "ended"}, fd : Descriptors \cup {0},
          on : Pipes \cup {NoPipe}, block : Block \cup {NoBlock}] :
     /\ r.at \in {"ready", "waiting", "sending", "strayed", "passing"} => r.fd \in Descriptors
     /\ r.at = "waiting" => r.on \in Pipes
     /\ r.at = "sending" => r.block \in Block}

MakeType ==
  /\ content \in [Pipes -> Seq(Block)]
  /\ written \in [Pipes -> Nat]
  /\ table \in [Descriptors -> Pipes \cup {NoPipe, OtherFile}]
  /\ reader \in [Pipes -> Reader]
  /\ sent \in [Pipes -> Seq(Block)]
  /\ DOMAIN build = Builds

\* How many blocks of a pipe were taken out of it.
Gone(p) == written[p] - Len(content[p])

\* The same, after a step: p may be an expression of the new state.
GoneAfter(p) == written'[p] - Len(content'[p])

\* A pipe holds what was written last, in order.
ContentInv ==
  \A p \in Pipes :
    /\ Len(content[p]) <= written[p]
    /\ \A i \in 1..Len(content[p]) : content[p][i] = [of |-> p, n |-> Gone(p) + i]

\* What was taken comes before what the pipe holds, and a reader sends it in order.
SentInv ==
  \A p \in Pipes :
    /\ reader[p].at = "sending" =>
         /\ reader[p].block.n <= Gone(reader[p].block.of)
         /\ \A i \in 1..Len(sent[p]) :
              sent[p][i].of = reader[p].block.of => sent[p][i].n < reader[p].block.n
    /\ \A i \in 1..Len(sent[p]) :
         /\ sent[p][i].n <= Gone(sent[p][i].of)
         /\ \A j \in 1..Len(sent[p]) :
              i < j /\ sent[p][i].of = sent[p][j].of => sent[p][i].n < sent[p][j].n

OrderInv == MakeType /\ ContentInv /\ SentInv

\* The steps of a build that disturb neither its pipes nor their readers.
Silent == UNCHANGED <<table, content, written, reader, sent>> /\ DOMAIN build' = DOMAIN build

LEMMA SilentSteps ==
  ASSUME MakeType, NEW b \in Builds, Build(b) \/ Fork(b) \/ Exit(b) \/ BuildWithoutRequest
  PROVE  Silent
  BY DEF MakeType, Silent, Build, Fork, Exit, BuildWithoutRequest, Advance, builds

\* A pipe is a build and one of its outputs.
LEMMA PipesArePairs ==
  /\ NoPipe \notin Pipes /\ OtherFile \notin Pipes /\ OtherFile # NoPipe
  /\ \A p \in Pipes : p[1] \in Builds /\ p[2] \in {"stdout", "stderr", "status"} /\ p = <<p[1], p[2]>>
<1>1. \A p \in Pipes : p[1] \in Builds /\ p[2] \in {"stdout", "stderr", "status"} /\ p = <<p[1], p[2]>>
  BY MakeAssumption
<1>2. NoPipe \notin Pipes /\ OtherFile \notin Pipes /\ OtherFile # NoPipe
  BY <1>1 DEF NoPipe, OtherFile
<1> QED
  BY <1>1, <1>2

\* What was taken out of a pipe is a number of blocks.
LEMMA GoneIsNatural == ASSUME MakeType, ContentInv PROVE \A p \in Pipes : Gone(p) \in Nat
<1> SUFFICES ASSUME NEW p \in Pipes PROVE Gone(p) \in Nat
  OBVIOUS
<1>1. written[p] \in Nat /\ content[p] \in Seq(Block)
  BY DEF MakeType
<1>2. Len(content[p]) \in Nat /\ Len(content[p]) <= written[p]
  BY <1>1 DEF ContentInv
<1>3. written[p] - Len(content[p]) \in Nat
  BY <1>1, <1>2
<1> QED
  BY <1>3 DEF Gone

\* What Put does to the pipe: one more block, the next one.
LEMMA PutAppends ==
  ASSUME MakeType, ContentInv, NEW p \in Pipes, Put(p)
  PROVE  /\ written' \in [Pipes -> Nat]
         /\ content' \in [Pipes -> Seq(Block)]
         /\ ContentInv'
         /\ \A q \in Pipes : Gone(q)' = Gone(q)
<1> DEFINE new == [of |-> p, n |-> written[p] + 1]
<1>1. new \in Block
  BY DEF MakeType, Block
<1>2. written' = [written EXCEPT ![p] = @ + 1] /\ content' = [content EXCEPT ![p] = Append(@, new)]
  BY DEF Put
<1>3. written' \in [Pipes -> Nat] /\ content' \in [Pipes -> Seq(Block)]
  BY <1>1, <1>2 DEF MakeType
<1>4. \A q \in Pipes : q # p => written'[q] = written[q] /\ content'[q] = content[q]
  BY <1>2 DEF MakeType
<1>5. /\ written'[p] = written[p] + 1
      /\ content'[p] = Append(content[p], new)
      /\ content[p] \in Seq(Block)
      /\ written[p] \in Nat
  BY <1>2 DEF MakeType
<1>6. /\ Len(content'[p]) = Len(content[p]) + 1
      /\ \A i \in 1..Len(content[p]) : content'[p][i] = content[p][i]
      /\ content'[p][Len(content[p]) + 1] = new
  BY <1>1, <1>5
<1>7. \A q \in Pipes : Gone(q)' = Gone(q)
  <2>1. Len(content[p]) \in Nat
    BY <1>5
  <2>2. Gone(p)' = Gone(p)
    BY <1>5, <1>6, <2>1 DEF Gone
  <2> QED
    BY <1>4, <2>2 DEF Gone
<1>8. ContentInv'
  <2> SUFFICES ASSUME NEW q \in Pipes
               PROVE  /\ Len(content'[q]) <= written'[q]
                      /\ \A i \in 1..Len(content'[q]) : content'[q][i] = [of |-> q, n |-> Gone(q)' + i]
    BY DEF ContentInv
  <2>1. CASE q # p
    BY <1>4, <1>7, <2>1 DEF ContentInv
  <2>2. CASE q = p
    <3>1. Len(content'[p]) <= written'[p]
      BY <1>5, <1>6 DEF ContentInv
    <3>2. ASSUME NEW i \in 1..Len(content'[p]) PROVE content'[p][i] = [of |-> p, n |-> Gone(p)' + i]
      <4>1. CASE i \in 1..Len(content[p])
        BY <1>6, <1>7, <4>1 DEF ContentInv
      <4>2. CASE i = Len(content[p]) + 1
        <5>1. Gone(p)' + i = written[p] + 1
          BY <1>5, <1>7, <4>2 DEF Gone
        <5> QED
          BY <1>6, <4>2, <5>1
      <4> QED
        BY <1>5, <1>6, <4>1, <4>2
    <3> QED
      BY <2>2, <3>1, <3>2
  <2> QED
    BY <2>1, <2>2
<1> QED
  BY <1>3, <1>7, <1>8

\* A reader that has nothing new to send disturbs no order.
LEMMA ReadersMove ==
  ASSUME OrderInv, UNCHANGED <<content, written, sent>>, DOMAIN build' = DOMAIN build,
         table' \in [Descriptors -> Pipes \cup {NoPipe, OtherFile}],
         reader' \in [Pipes -> Reader],
         \A p \in Pipes : reader'[p] = reader[p] \/ reader'[p].at # "sending"
  PROVE  OrderInv'
<1>1. MakeType'
  BY DEF OrderInv, MakeType
<1>2. ContentInv'
  BY DEF OrderInv, ContentInv, Gone
<1>3. SentInv'
  <2>1. \A p : Gone(p)' = Gone(p)
    BY DEF Gone
  <2>2. sent' = sent
    OBVIOUS
  <2> QED
    BY <2>1, <2>2 DEF OrderInv, SentInv
<1> QED
  BY <1>1, <1>2, <1>3 DEF OrderInv

\* A reader that reads a number, finds the end of its pipe or deals with another file
\* has no block of a build afterwards.
LEMMA ReaderTurns ==
  ASSUME MakeType, NEW p \in Pipes, ReaderReads(p) \/ ReaderAtEnd(p) \/ FileAnswers(p) \/ ReaderPasses(p)
  PROVE  \E r \in Reader :
           /\ r.at \notin {"none", "sending"} /\ r.fd = reader[p].fd
           /\ reader' = [reader EXCEPT ![p] = r]
           /\ r.at = "waiting" => r.on = table[r.fd] /\ r.on \in Pipes
           /\ reader[p].at # "none" /\ reader[p].fd \in Descriptors
           /\ UNCHANGED <<build, table, content, written, sent>>
<1>1. reader[p] \in Reader
  BY DEF MakeType
<1>2. CASE ReaderReads(p)
  <2> DEFINE on == table[reader[p].fd]
  <2>1. reader[p].at = "ready" /\ reader[p].fd \in Descriptors
    BY <1>1, <1>2 DEF ReaderReads, Reader
  <2>2. on \in Pipes \cup {NoPipe, OtherFile}
    BY <2>1 DEF MakeType
  <2>3. UNCHANGED <<build, table, content, written, sent>>
    BY <1>2 DEF ReaderReads
  <2>4. CASE on = NoPipe
    <3>1. reader' = [reader EXCEPT ![p] = [reader[p] EXCEPT !.at = "ended"]]
      BY <1>2, <2>4, PipesArePairs DEF ReaderReads
    <3>2. [reader[p] EXCEPT !.at = "ended"] \in Reader
      BY <1>1 DEF Reader
    <3> QED
      BY <1>1, <2>1, <2>3, <3>1, <3>2 DEF Reader
  <2>5. CASE on = OtherFile
    <3>1. on # NoPipe
      BY <2>5 DEF OtherFile, NoPipe
    <3>2. reader' = [reader EXCEPT ![p] = [reader[p] EXCEPT !.at = "strayed"]]
      BY <1>2, <2>5, <3>1 DEF ReaderReads
    <3>3. [reader[p] EXCEPT !.at = "strayed"] \in Reader
      BY <1>1, <2>1 DEF Reader
    <3> QED
      BY <1>1, <2>1, <2>3, <3>2, <3>3 DEF Reader
  <2>6. CASE on \in Pipes
    <3>1. on # NoPipe /\ on # OtherFile
      BY <2>6, PipesArePairs
    <3> DEFINE r == [reader[p] EXCEPT !.at = "waiting", !.on = on]
    <3>2. reader' = [reader EXCEPT ![p] = r]
      BY <1>2, <3>1 DEF ReaderReads
    <3>3. r \in Reader /\ r.at = "waiting" /\ r.on = on /\ r.fd = reader[p].fd
      BY <1>1, <2>1, <2>6 DEF Reader
    <3> HIDE DEF r
    <3> QED
      BY <1>2, <2>1, <2>3, <2>6, <3>2, <3>3
  <2> QED
    BY <2>2, <2>4, <2>5, <2>6
<1>3. CASE ReaderAtEnd(p)
  <2> DEFINE r == [reader[p] EXCEPT !.at = "ready", !.on = NoPipe]
  <2>1. /\ reader[p].at = "waiting" /\ reader' = [reader EXCEPT ![p] = r]
        /\ UNCHANGED <<build, table, content, written, sent>>
    BY <1>3 DEF ReaderAtEnd
  <2>2. r \in Reader /\ r.at = "ready" /\ r.fd = reader[p].fd /\ reader[p].fd \in Descriptors
    BY <1>1, <2>1 DEF Reader
  <2> HIDE DEF r
  <2> QED
    BY <2>1, <2>2
<1>4. CASE FileAnswers(p) \/ ReaderPasses(p)
  <2>1. PICK at \in {"passing", "ready", "ended"} :
          /\ reader[p].at \in {"strayed", "passing"} /\ reader' = [reader EXCEPT ![p].at = at]
          /\ UNCHANGED <<build, table, content, written, sent>>
    BY <1>4 DEF FileAnswers, ReaderPasses
  <2> DEFINE r == [reader[p] EXCEPT !.at = at]
  <2>2. r \in Reader /\ r.at = at /\ r.fd = reader[p].fd /\ reader[p].fd \in Descriptors
    BY <1>1, <2>1 DEF Reader
  <2>3. reader' = [reader EXCEPT ![p] = r]
    BY <2>1
  <2> HIDE DEF r
  <2> QED
    BY <2>1, <2>2, <2>3
<1> QED
  BY <1>2, <1>3, <1>4

\* What another part of the server opens or closes is no pipe of a build.
LEMMA TableTurns ==
  ASSUME MakeType, OtherOpens \/ \E d \in Descriptors : OtherCloses(d)
  PROVE  /\ table' \in [Descriptors -> Pipes \cup {NoPipe, OtherFile}]
         /\ \A d \in Descriptors : table[d] \in Pipes \/ table'[d] \in Pipes => table'[d] = table[d]
         /\ UNCHANGED <<build, content, written, reader, sent, stray>>
<1>1. PICK d \in Descriptors : \E t \in {NoPipe, OtherFile} :
        table[d] \in {NoPipe, OtherFile} /\ table' = [table EXCEPT ![d] = t]
  BY DEF OtherOpens, OtherCloses, Free
<1>2. UNCHANGED <<build, content, written, reader, sent, stray>>
  BY DEF OtherOpens, OtherCloses
<1> QED
  BY <1>1, <1>2, PipesArePairs DEF MakeType

\* Every step of a build keeps the order of its blocks.
LEMMA OrderStep == ASSUME OrderInv, [Next]_vars PROVE OrderInv'
<1>1. CASE Silent
  BY <1>1 DEF Silent, OrderInv, MakeType, ContentInv, SentInv, Gone
<1>2. ASSUME NEW b \in Builds, OpenPipes(b) PROVE OrderInv'
  <2>1. PICK number \in [Its(b) -> Free] :
          /\ table' = [d \in Descriptors |->
                         IF \E p \in Its(b) : number[p] = d
                         THEN CHOOSE p \in Its(b) : number[p] = d ELSE table[d]]
          /\ reader' = [p \in Pipes |->
                          IF p \in Its(b) THEN [NoReader EXCEPT !.at = "ready", !.fd = number[p]]
                          ELSE reader[p]]
    BY <1>2 DEF OpenPipes
  <2>2. UNCHANGED <<content, written, sent>> /\ DOMAIN build' = DOMAIN build
    BY <1>2 DEF OpenPipes, OrderInv, MakeType
  <2>3. Its(b) \subseteq Pipes /\ Free \subseteq Descriptors
    BY DEF Its, Free
  <2>4. table' \in [Descriptors -> Pipes \cup {NoPipe, OtherFile}]
    BY <2>1, <2>3 DEF OrderInv, MakeType
  <2>5. ASSUME NEW p \in Pipes
        PROVE  reader'[p] \in Reader /\ (reader'[p] = reader[p] \/ reader'[p].at # "sending")
    <3>1. CASE p \notin Its(b)
      BY <2>1, <3>1 DEF OrderInv, MakeType
    <3>2. CASE p \in Its(b)
      <4>1. reader'[p] = [at |-> "ready", fd |-> number[p], on |-> NoPipe, block |-> NoBlock]
        BY <2>1, <3>2 DEF NoReader
      <4>2. number[p] \in Descriptors
        BY <2>1, <2>3, <3>2
      <4> QED
        BY <4>1, <4>2 DEF Reader
    <3> QED
      BY <3>1, <3>2
  <2>6. reader' \in [Pipes -> Reader]
    BY <2>1, <2>5
  <2> QED
    BY <2>2, <2>4, <2>5, <2>6, ReadersMove
<1>3. ASSUME NEW p \in Pipes, Put(p), UNCHANGED <<table, reader, sent>>, DOMAIN build' = DOMAIN build
      PROVE  OrderInv'
  <2>1. MakeType /\ ContentInv
    BY DEF OrderInv
  <2>2. /\ written' \in [Pipes -> Nat]
        /\ content' \in [Pipes -> Seq(Block)]
        /\ ContentInv'
        /\ \A q \in Pipes : Gone(q)' = Gone(q)
    BY <1>3, <2>1, PutAppends
  <2>3. MakeType'
    BY <1>3, <2>2 DEF OrderInv, MakeType
  <2>4. SentInv'
    <3>1. ASSUME NEW q \in Pipes
          PROVE  /\ reader[q].at = "sending" => reader[q].block.of \in Pipes
                 /\ \A i \in 1..Len(sent[q]) : sent[q][i].of \in Pipes
      <4>1. reader[q] \in Reader /\ sent[q] \in Seq(Block)
        BY DEF OrderInv, MakeType
      <4>2. \A i \in 1..Len(sent[q]) : sent[q][i] \in Block
        BY <4>1
      <4> QED
        BY <4>1, <4>2 DEF Reader, Block
    <3>2. reader' = reader /\ sent' = sent
      BY <1>3
    <3> QED
      BY <2>2, <3>1, <3>2 DEF OrderInv, SentInv
  <2> QED
    BY <2>2, <2>3, <2>4 DEF OrderInv
<1>4. ASSUME NEW b \in Builds, Close(b) PROVE OrderInv'
  <2>1. PICK p \in Its(b) : table' = [d \in Descriptors |-> IF table[d] = p THEN NoPipe ELSE table[d]]
    BY <1>4 DEF Close
  <2>2. UNCHANGED <<content, written, reader, sent>> /\ DOMAIN build' = DOMAIN build
    BY <1>4 DEF Close, Closes, OrderInv, MakeType
  <2> QED
    BY <2>1, <2>2 DEF OrderInv, MakeType, ContentInv, SentInv, Gone
<1>5. ASSUME NEW p \in Pipes, NEW r \in Reader, r.at # "sending",
             reader' = [reader EXCEPT ![p] = r], UNCHANGED <<build, table, content, written, sent>>
      PROVE  OrderInv'
  <2>1. reader' \in [Pipes -> Reader] /\ reader'[p] = r /\ \A q \in Pipes : q # p => reader'[q] = reader[q]
    BY <1>5 DEF OrderInv, MakeType
  <2>2. table' \in [Descriptors -> Pipes \cup {NoPipe, OtherFile}]
    BY <1>5 DEF OrderInv, MakeType
  <2> QED
    BY <1>5, <2>1, <2>2, ReadersMove
<1>6. ASSUME NEW p \in Pipes, ReaderGets(p) PROVE OrderInv'
  <2>0. PICK q \in Pipes : q = reader[p].on
    BY <1>6 DEF ReaderGets, OrderInv, MakeType, Reader
  <2> DEFINE block == Head(content[q])
  <2>1. /\ reader[p] \in Reader /\ reader[p].at = "waiting" /\ q \in Pipes
        /\ content[q] \in Seq(Block) /\ content[q] # <<>> /\ written[q] \in Nat
    BY <1>6, <2>0 DEF ReaderGets, OrderInv, MakeType, Reader
  <2>2. /\ content' = [content EXCEPT ![q] = Tail(@)]
        /\ reader' = [reader EXCEPT ![p].at = "sending", ![p].on = NoPipe, ![p].block = block]
        /\ UNCHANGED <<build, table, written, sent>>
    BY <1>6, <2>0 DEF ReaderGets
  <2>3. /\ block \in Block
        /\ block = content[q][1]
        /\ Tail(content[q]) \in Seq(Block)
        /\ Len(content[q]) \in Nat /\ Len(content[q]) > 0
        /\ Len(Tail(content[q])) = Len(content[q]) - 1
        /\ \A i \in 1..(Len(content[q]) - 1) : Tail(content[q])[i] = content[q][i + 1]
    BY <2>1
  <2>4. block = [of |-> q, n |-> Gone(q) + 1]
    BY <2>1, <2>3 DEF OrderInv, ContentInv
  <2>5. /\ content'[q] = Tail(content[q])
        /\ \A r \in Pipes : r # q => content'[r] = content[r]
        /\ content' \in [Pipes -> Seq(Block)]
    BY <2>1, <2>2, <2>3 DEF OrderInv, MakeType
  <2>6. GoneAfter(q) = Gone(q) + 1 /\ \A r \in Pipes : r # q => GoneAfter(r) = Gone(r)
    BY <2>1, <2>2, <2>3, <2>5 DEF Gone, GoneAfter
  <2>7. reader'[p] = [reader[p] EXCEPT !.at = "sending", !.on = NoPipe, !.block = block]
        /\ \A r \in Pipes : r # p => reader'[r] = reader[r]
    BY <2>2 DEF OrderInv, MakeType
  <2>8. reader'[p].at = "sending" /\ reader'[p].block = block /\ reader'[p] \in Reader
    BY <2>1, <2>3, <2>7 DEF Reader
  <2>9. MakeType'
    BY <2>2, <2>5, <2>7, <2>8 DEF OrderInv, MakeType
  <2>10. ContentInv'
    <3> SUFFICES ASSUME NEW r \in Pipes
                 PROVE  /\ Len(content'[r]) <= written'[r]
                        /\ \A i \in 1..Len(content'[r]) : content'[r][i] = [of |-> r, n |-> GoneAfter(r) + i]
      BY DEF ContentInv, Gone, GoneAfter
    <3>1. CASE r # q
      BY <2>2, <2>5, <2>6, <3>1 DEF OrderInv, ContentInv
    <3>2. CASE r = q
      <4>1. Len(content'[q]) = Len(content[q]) - 1
        BY <2>3, <2>5
      <4>2. Gone(q) \in Nat
        BY <2>1, GoneIsNatural DEF OrderInv
      <4>3. ASSUME NEW i \in 1..(Len(content[q]) - 1)
            PROVE  content'[q][i] = [of |-> q, n |-> GoneAfter(q) + i]
        <5>1. content'[q][i] = content[q][i + 1] /\ i + 1 \in 1..Len(content[q])
          BY <2>3, <2>5
        <5>2. content[q][i + 1] = [of |-> q, n |-> Gone(q) + (i + 1)]
          BY <2>1, <5>1 DEF OrderInv, ContentInv
        <5>3. Gone(q) + (i + 1) = GoneAfter(q) + i
          BY <2>6, <4>2
        <5> QED
          BY <5>1, <5>2, <5>3
      <4>4. Len(content'[q]) <= written'[q]
        BY <2>1, <2>2, <2>3, <4>1 DEF OrderInv, ContentInv
      <4> QED
        BY <3>2, <4>1, <4>3, <4>4
    <3> QED
      BY <3>1, <3>2
  <2>11. \A r \in Pipes : Gone(r) \in Nat /\ GoneAfter(r) \in Nat /\ Gone(r) <= GoneAfter(r)
    BY <2>6, GoneIsNatural DEF OrderInv
  <2>12. SentInv'
    <3> SUFFICES ASSUME NEW r \in Pipes
                 PROVE  /\ reader'[r].at = "sending" =>
                             /\ reader'[r].block.n <= GoneAfter(reader'[r].block.of)
                             /\ \A i \in 1..Len(sent'[r]) :
                                  sent'[r][i].of = reader'[r].block.of => sent'[r][i].n < reader'[r].block.n
                        /\ \A i \in 1..Len(sent'[r]) :
                             /\ sent'[r][i].n <= GoneAfter(sent'[r][i].of)
                             /\ \A j \in 1..Len(sent'[r]) :
                                  i < j /\ sent'[r][i].of = sent'[r][j].of => sent'[r][i].n < sent'[r][j].n
      BY DEF SentInv, Gone, GoneAfter
    <3>1. sent'[r] = sent[r] /\ sent[r] \in Seq(Block)
      BY <2>2 DEF OrderInv, MakeType
    <3>2. \A i \in 1..Len(sent[r]) : sent[r][i] \in Block
      BY <3>1
    <3>3. \A i \in 1..Len(sent[r]) :
             /\ sent[r][i].n <= Gone(sent[r][i].of)
             /\ sent[r][i].of \in Pipes
             /\ sent[r][i].n \in Nat
             /\ \A j \in 1..Len(sent[r]) :
                  i < j /\ sent[r][i].of = sent[r][j].of => sent[r][i].n < sent[r][j].n
      BY <3>2 DEF OrderInv, SentInv, Block
    <3>4. \A i \in 1..Len(sent[r]) : sent[r][i].n <= GoneAfter(sent[r][i].of)
      BY <2>11, <3>3
    <3>5. CASE r = p
      <4>1. \A i \in 1..Len(sent[p]) : sent[p][i].of = q => sent[p][i].n < Gone(q) + 1
        BY <2>1, <2>11, <3>3, <3>5
      <4>2. block.of = q /\ block.n = Gone(q) + 1 /\ block.n <= GoneAfter(q)
        BY <2>1, <2>4, <2>6, <2>11
      <4> QED
        BY <2>8, <3>1, <3>3, <3>4, <3>5, <4>1, <4>2
    <3>6. CASE r # p
      <4>1. reader'[r] = reader[r]
        BY <2>7, <3>6
      <4>2. reader[r].at = "sending" => reader[r].block.of \in Pipes /\ reader[r].block.n \in Nat
        BY DEF OrderInv, MakeType, Reader, Block
      <4>3. reader[r].at = "sending" => reader[r].block.n <= GoneAfter(reader[r].block.of)
        BY <2>11, <4>2 DEF OrderInv, SentInv
      <4> QED
        BY <3>1, <3>3, <3>4, <4>1, <4>3 DEF OrderInv, SentInv
    <3> QED
      BY <3>5, <3>6
  <2> QED
    BY <2>9, <2>10, <2>12 DEF OrderInv
<1>7. ASSUME NEW p \in Pipes, ReaderReads(p) \/ ReaderAtEnd(p) \/ FileAnswers(p) \/ ReaderPasses(p)
      PROVE  OrderInv'
  <2>0. MakeType
    BY DEF OrderInv
  <2>1. PICK r \in Reader : /\ r.at # "sending" /\ reader' = [reader EXCEPT ![p] = r]
                            /\ UNCHANGED <<build, table, content, written, sent>>
    BY <1>7, <2>0, ReaderTurns
  <2> QED
    BY <1>5, <2>1
<1>8. ASSUME NEW p \in Pipes, ReaderSends(p) PROVE OrderInv'
  <2> DEFINE block == reader[p].block
  <2>1. /\ reader[p] \in Reader /\ reader[p].at = "sending" /\ block \in Block
        /\ sent[p] \in Seq(Block)
    BY <1>8 DEF ReaderSends, OrderInv, MakeType, Reader
  <2>2. /\ sent' = [sent EXCEPT ![p] = Append(@, block)]
        /\ reader' = [reader EXCEPT ![p].at = "ready", ![p].block = NoBlock]
        /\ UNCHANGED <<build, table, content, written>>
    BY <1>8 DEF ReaderSends
  <2>3. /\ sent'[p] = Append(sent[p], block)
        /\ \A r \in Pipes : r # p => sent'[r] = sent[r]
        /\ sent' \in [Pipes -> Seq(Block)]
    BY <2>1, <2>2 DEF OrderInv, MakeType
  <2>4. /\ Len(sent'[p]) = Len(sent[p]) + 1
        /\ Len(sent[p]) \in Nat
        /\ sent'[p][Len(sent[p]) + 1] = block
        /\ \A i \in 1..Len(sent[p]) : sent'[p][i] = sent[p][i]
    BY <2>1, <2>3
  <2>5. reader'[p] = [reader[p] EXCEPT !.at = "ready", !.block = NoBlock]
        /\ \A r \in Pipes : r # p => reader'[r] = reader[r]
    BY <2>2 DEF OrderInv, MakeType
  <2>6. reader'[p].at = "ready" /\ reader'[p] \in Reader
    BY <2>1, <2>5 DEF Reader
  <2>7. MakeType'
    BY <2>2, <2>3, <2>5, <2>6 DEF OrderInv, MakeType
  <2>8. ContentInv'
    BY <2>2 DEF OrderInv, ContentInv, Gone
  <2>9. \A r : GoneAfter(r) = Gone(r)
    BY <2>2 DEF Gone, GoneAfter
  <2>10. SentInv'
    <3> SUFFICES ASSUME NEW r \in Pipes
                 PROVE  /\ reader'[r].at = "sending" =>
                             /\ reader'[r].block.n <= GoneAfter(reader'[r].block.of)
                             /\ \A i \in 1..Len(sent'[r]) :
                                  sent'[r][i].of = reader'[r].block.of => sent'[r][i].n < reader'[r].block.n
                        /\ \A i \in 1..Len(sent'[r]) :
                             /\ sent'[r][i].n <= GoneAfter(sent'[r][i].of)
                             /\ \A j \in 1..Len(sent'[r]) :
                                  i < j /\ sent'[r][i].of = sent'[r][j].of => sent'[r][i].n < sent'[r][j].n
      BY DEF SentInv, Gone, GoneAfter
    <3>1. CASE r # p
      BY <2>3, <2>5, <2>9, <3>1 DEF OrderInv, SentInv
    <3>2. CASE r = p
      <4>1. /\ block.n <= Gone(block.of)
            /\ \A i \in 1..Len(sent[p]) : sent[p][i].of = block.of => sent[p][i].n < block.n
        BY <2>1 DEF OrderInv, SentInv
      <4>2. \A i \in 1..Len(sent[p]) :
              /\ sent[p][i].n <= Gone(sent[p][i].of)
              /\ \A j \in 1..Len(sent[p]) :
                   i < j /\ sent[p][i].of = sent[p][j].of => sent[p][i].n < sent[p][j].n
        BY DEF OrderInv, SentInv
      <4>3. ASSUME NEW i \in 1..Len(sent'[p])
            PROVE  /\ sent'[p][i].n <= GoneAfter(sent'[p][i].of)
                   /\ \A j \in 1..Len(sent'[p]) :
                        i < j /\ sent'[p][i].of = sent'[p][j].of => sent'[p][i].n < sent'[p][j].n
        <5>1. CASE i \in 1..Len(sent[p])
          <6>1. sent'[p][i] = sent[p][i] /\ sent[p][i].n <= GoneAfter(sent'[p][i].of)
            BY <2>4, <2>9, <4>2, <5>1
          <6>2. ASSUME NEW j \in 1..Len(sent'[p]), i < j, sent'[p][i].of = sent'[p][j].of
                PROVE  sent'[p][i].n < sent'[p][j].n
            <7>1. CASE j \in 1..Len(sent[p])
              BY <2>4, <4>2, <5>1, <6>1, <6>2, <7>1
            <7>2. CASE j = Len(sent[p]) + 1
              BY <2>4, <4>1, <5>1, <6>1, <6>2, <7>2
            <7> QED
              BY <2>4, <7>1, <7>2
          <6> QED
            BY <6>1, <6>2
        <5>2. CASE i = Len(sent[p]) + 1
          BY <2>4, <2>9, <4>1, <5>2
        <5> QED
          BY <2>4, <5>1, <5>2
      <4> QED
        BY <2>6, <3>2, <4>3
    <3> QED
      BY <3>1, <3>2
  <2> QED
    BY <2>7, <2>8, <2>10 DEF OrderInv
<1>9. CASE MakeNext
  <2>1. ASSUME NEW b \in Builds, Output(b, "stdout") \/ Output(b, "stderr") \/ WriteStatus(b) PROVE OrderInv'
    <3>1. PICK p \in Pipes : Put(p)
      BY <2>1, MakeAssumption DEF Output, WriteStatus
    <3>2. UNCHANGED <<table, reader, sent>> /\ DOMAIN build' = DOMAIN build
      BY <2>1 DEF Output, WriteStatus, Advance, OrderInv, MakeType
    <3> QED
      BY <1>3, <3>1, <3>2
  <2>2. ASSUME NEW b \in Builds, Build(b) \/ Fork(b) \/ Exit(b) PROVE OrderInv'
    BY <1>1, <2>2, SilentSteps DEF OrderInv
  <2>3. CASE BuildWithoutRequest
    BY <1>1, <2>3 DEF BuildWithoutRequest, builds, Silent
  <2>4. ASSUME OtherOpens \/ \E d \in Descriptors : OtherCloses(d) PROVE OrderInv'
    <3>1. /\ table' \in [Descriptors -> Pipes \cup {NoPipe, OtherFile}]
          /\ UNCHANGED <<build, content, written, reader, sent>>
      BY <2>4, TableTurns DEF OrderInv
    <3> QED
      BY <3>1, ReadersMove DEF OrderInv, MakeType
  <2> QED
    BY <1>2, <1>4, <1>6, <1>7, <1>8, <1>9, <2>1, <2>2, <2>3, <2>4
       DEF MakeNext, ThreadStep, ChildStep, ChildWrites, ReaderStep
<1>10. CASE ConnectionNext \/ PsNext \/ CommunicationNext \/ UNCHANGED vars
  BY <1>1, <1>10 DEF ConnectionNext, PsNext, CommunicationNext, vars, builds, Silent
<1> QED
  BY <1>9, <1>10 DEF Next

\* At first no pipe holds anything.
LEMMA OrderInit == Init => OrderInv
<1> SUFFICES ASSUME Init PROVE OrderInv
  OBVIOUS
<1>1. MakeType
  BY DEF Init, MakeInit, MakeType, Reader, NoReader, Block
<1>2. ContentInv /\ SentInv
  BY DEF Init, MakeInit, ContentInv, SentInv, NoReader
<1> QED
  BY <1>1, <1>2 DEF OrderInv

\* Whatever number a reader reads, it sends what a build wrote once and in the order
\* it was written (make.c), for any number of builds and blocks.
THEOREM OutputCorrect == Spec => []OutputInOrder
<1>1. OrderInv => OutputInOrder
  <2> SUFFICES ASSUME OrderInv, NEW p \in Pipes, NEW i \in DOMAIN sent[p]
               PROVE  /\ sent[p][i].n <= written[sent[p][i].of]
                      /\ \A j \in DOMAIN sent[p] :
                           i < j /\ sent[p][i].of = sent[p][j].of => sent[p][i].n < sent[p][j].n
    BY DEF OutputInOrder
  <2>1. sent[p] \in Seq(Block) /\ DOMAIN sent[p] = 1..Len(sent[p])
    BY DEF OrderInv, MakeType
  <2>2. sent[p][i] \in Block
    BY <2>1
  <2>3. sent[p][i].n <= Gone(sent[p][i].of) /\ sent[p][i].of \in Pipes /\ sent[p][i].n \in Nat
    BY <2>1, <2>2 DEF OrderInv, SentInv, Block
  <2>4. written[sent[p][i].of] \in Nat /\ content[sent[p][i].of] \in Seq(Block)
    BY <2>3 DEF OrderInv, MakeType
  <2>5. sent[p][i].n <= written[sent[p][i].of]
    BY <2>3, <2>4 DEF Gone
  <2> QED
    BY <2>1, <2>5 DEF OrderInv, SentInv
<1> QED
  BY <1>1, OrderInit, OrderStep, PTL DEF Spec

-----------------------------------------------------------------------------
(* Whose output the owner is sent (Make): a reader knows its pipe by the   *)
(* number of its descriptor, which may come to stand for another pipe.     *)

BuildRecord ==
  [at : {"none", "asked", "piped", "running", "written", "exited", "closing", "closed"},
   conn : Nat, after : SUBSET Builds, closed : SUBSET Pipes]

\* Before it makes its pipes a build has none.
Unmade(b) == build[b].at \in {"none", "asked"}

\* The pipe is made, and its reader started.
Opened(p) == reader[p].at # "none"

\* What the reader of r sends may come from q: from its own pipe, or from that of a
\* build that made its pipes after some were closed of the build of r.
Reuses(r, q) == r = q \/ r[1] \in build[q[1]].after

From(r, q) == Opened(q) /\ Reuses(r, q)

\* The same, after a step: q may be an expression of the new state.
FromAfter(r, q) == reader'[q].at # "none" /\ (r = q \/ r[1] \in build'[q[1]].after)

\* A number stands for the pipe it was made for until that one is closed, and what a
\* reader waits on, holds or has sent comes from a pipe its number stood for.
ReuseInv ==
  /\ PsInv
  /\ OrderInv
  /\ build \in [Builds -> BuildRecord]
  /\ \A b \in Builds : Unmade(b) => build[b].closed = {} /\ \A p \in Its(b) : ~Opened(p)
  /\ \A p \in Pipes : Opened(p) => /\ reader[p].fd \in Descriptors
                                   /\ p \in build[p[1]].closed \/ table[reader[p].fd] = p
  /\ \A d \in Descriptors : table[d] \in Pipes => Opened(table[d]) /\ reader[table[d]].fd = d
  /\ \A r \in Pipes :
       /\ Opened(r) /\ table[reader[r].fd] \in Pipes => Reuses(r, table[reader[r].fd])
       /\ reader[r].at = "waiting" => From(r, reader[r].on)
       /\ reader[r].at = "sending" => From(r, reader[r].block.of)
       /\ \A i \in 1..Len(sent[r]) : From(r, sent[r][i].of)

\* The descriptors are numbers.
LEMMA NumbersAreNatural == Descriptors \subseteq Nat
  BY DEF Descriptors

\* What a reader refers to is a pipe.
LEMMA Types ==
  ASSUME OrderInv
  PROVE  /\ \A d \in Descriptors : table[d] \in Pipes \cup {NoPipe, OtherFile}
         /\ \A r \in Pipes :
              /\ reader[r] \in Reader
              /\ reader[r].at = "waiting" => reader[r].on \in Pipes
              /\ reader[r].at = "sending" => reader[r].block.of \in Pipes
              /\ \A i \in 1..Len(sent[r]) : sent[r][i].of \in Pipes
<1>1. \A r \in Pipes : reader[r] \in Reader /\ sent[r] \in Seq(Block)
  BY DEF OrderInv, MakeType
<1>2. \A r \in Pipes : \A i \in 1..Len(sent[r]) : sent[r][i] \in Block
  BY <1>1
<1> QED
  BY <1>1, <1>2 DEF OrderInv, MakeType, Reader, Block

-----------------------------------------------------------------------------
(* Steps *)

\* A build that goes on: of what the readers know only the record of a build without
\* pipes may change.
LEMMA BuildMoves ==
  ASSUME ReuseInv, OrderInv', PsInv', UNCHANGED <<table, reader, sent>>,
         NEW b \in Builds, NEW r \in BuildRecord, build' = [build EXCEPT ![b] = r],
         r.closed = build[b].closed, r.after = build[b].after \/ Unmade(b),
         r.at \in {"none", "asked"} => Unmade(b)
  PROVE  ReuseInv'
<1>1. build' \in [Builds -> BuildRecord]
  BY DEF ReuseInv
<1>2. build'[b] = r /\ \A c \in Builds : c # b => build'[c] = build[c]
  BY DEF ReuseInv
<1>3. \A c \in Builds : build'[c].closed = build[c].closed /\ (Unmade(c)' => Unmade(c))
  BY <1>2 DEF Unmade
<1>4. \A q \in Pipes : Opened(q) => build'[q[1]].after = build[q[1]].after
  BY <1>2, PipesArePairs DEF ReuseInv, Its
<1>5. \A q : Opened(q)' <=> Opened(q)
  BY DEF Opened
<1>6. \A x, q \in Pipes : Opened(q) /\ Reuses(x, q) => Reuses(x, q)'
  BY <1>4 DEF Reuses
<1>7. \A x, q \in Pipes : From(x, q) => From(x, q)'
  BY <1>5, <1>6 DEF From
<1>8. \A x \in Pipes : Opened(x) => reader[x].fd \in Descriptors
  BY DEF ReuseInv
<1>9. \A x \in Pipes : Opened(x) /\ table[reader[x].fd] \in Pipes =>
        Opened(table[reader[x].fd])
  BY <1>8, Types DEF ReuseInv
<1>10. \A x \in Pipes :
         /\ Opened(x) /\ table[reader[x].fd] \in Pipes => Reuses(x, table[reader[x].fd])'
         /\ reader[x].at = "waiting" => From(x, reader[x].on)'
         /\ reader[x].at = "sending" => From(x, reader[x].block.of)'
         /\ \A i \in 1..Len(sent[x]) : From(x, sent[x][i].of)'
  BY <1>6, <1>7, <1>9, Types DEF ReuseInv
<1> QED
  BY <1>1, <1>3, <1>5, <1>10, PipesArePairs DEF ReuseInv

\* A reader that goes on, with its number, from what its number may stand for.
LEMMA ReaderMoves ==
  ASSUME ReuseInv, OrderInv', PsInv', UNCHANGED <<build, table>>,
         NEW p \in Pipes, Opened(p), NEW r \in Reader, reader' = [reader EXCEPT ![p] = r],
         r.at # "none", r.fd = reader[p].fd,
         r.at = "waiting" => From(p, r.on),
         r.at = "sending" => From(p, r.block.of),
         \A x \in Pipes : \A i \in 1..Len(sent'[x]) : From(x, sent'[x][i].of)
  PROVE  ReuseInv'
<1>1. reader'[p] = r /\ \A q \in Pipes : q # p => reader'[q] = reader[q]
  BY DEF ReuseInv, OrderInv, MakeType
<1>2. \A q \in Pipes : (Opened(q)' <=> Opened(q)) /\ reader'[q].fd = reader[q].fd
  BY <1>1 DEF Opened
<1>3. \A x, q \in Pipes : (Reuses(x, q)' <=> Reuses(x, q)) /\ (FromAfter(x, q) <=> From(x, q))
  BY <1>2 DEF Reuses, From, FromAfter, Opened
<1>4. /\ \A d \in Descriptors : table'[d] \in Pipes \cup {NoPipe, OtherFile}
      /\ \A x \in Pipes :
           /\ reader'[x].at = "waiting" => reader'[x].on \in Pipes
           /\ reader'[x].at = "sending" => reader'[x].block.of \in Pipes
           /\ \A i \in 1..Len(sent'[x]) : sent'[x][i].of \in Pipes
  <2>1. \A x \in Pipes : reader'[x] \in Reader /\ sent'[x] \in Seq(Block)
    BY DEF OrderInv, MakeType
  <2>2. \A x \in Pipes : \A i \in 1..Len(sent'[x]) : sent'[x][i] \in Block
    BY <2>1
  <2> QED
    BY <2>1, <2>2 DEF OrderInv, MakeType, Reader, Block
<1>5. \A x \in Pipes : \A i \in 1..Len(sent'[x]) : FromAfter(x, sent'[x][i].of)
  BY <1>3, <1>4
<1>6. \A x \in Pipes :
        /\ reader'[x].at = "waiting" => From(x, reader'[x].on)
        /\ reader'[x].at = "sending" => From(x, reader'[x].block.of)
  BY <1>1 DEF ReuseInv
<1>7. \A x \in Pipes :
        /\ reader'[x].at = "waiting" => FromAfter(x, reader'[x].on)
        /\ reader'[x].at = "sending" => FromAfter(x, reader'[x].block.of)
  BY <1>3, <1>4, <1>6
<1>8. \A x \in Pipes : Opened(x)' /\ table'[reader'[x].fd] \in Pipes => Reuses(x, table[reader[x].fd])'
  <2> SUFFICES ASSUME NEW x \in Pipes, Opened(x)', table'[reader'[x].fd] \in Pipes
               PROVE  Reuses(x, table[reader[x].fd])'
    OBVIOUS
  <2>1. Opened(x) /\ table'[reader'[x].fd] = table[reader[x].fd] /\ reader[x].fd \in Descriptors
    BY <1>2 DEF ReuseInv
  <2>2. table[reader[x].fd] \in Pipes /\ Reuses(x, table[reader[x].fd])
    BY <2>1, Types DEF ReuseInv
  <2> QED
    BY <2>1, <2>2 DEF Reuses
<1>9. \A b \in Builds : Unmade(b)' => build'[b].closed = {} /\ \A q \in Its(b) : ~Opened(q)'
  BY <1>2 DEF ReuseInv, Unmade, Its
<1>10. \A q \in Pipes : Opened(q)' => /\ reader'[q].fd \in Descriptors
                                      /\ q \in build'[q[1]].closed \/ table'[reader'[q].fd] = q
  BY <1>2 DEF ReuseInv
<1>11. \A d \in Descriptors : table'[d] \in Pipes => Opened(table[d])' /\ reader'[table'[d]].fd = d
  <2> SUFFICES ASSUME NEW d \in Descriptors, table'[d] \in Pipes
               PROVE  Opened(table[d])' /\ reader'[table'[d]].fd = d
    OBVIOUS
  <2>1. table[d] \in Pipes /\ table'[d] = table[d] /\ Opened(table[d]) /\ reader[table[d]].fd = d
    BY Types DEF ReuseInv
  <2> QED
    BY <1>2, <2>1 DEF Opened
<1> QED
  BY <1>5, <1>7, <1>8, <1>9, <1>10, <1>11 DEF ReuseInv, From, FromAfter, Opened, Reuses

\* A build that makes its pipes: the numbers they take were those of pipes that are
\* closed, and whoever still knows a number comes from a build that closed them.
LEMMA OpenStep ==
  ASSUME ReuseInv, OrderInv', PsInv', NEW b \in Builds, OpenPipes(b)
  PROVE  ReuseInv'
<1> DEFINE r == [build[b] EXCEPT !.at = "piped", !.after = Closing]
<1>1. PICK number \in [Its(b) -> Free] :
        /\ Lowest(b, number)
        /\ table' = [d \in Descriptors |->
                       IF \E p \in Its(b) : number[p] = d
                       THEN CHOOSE p \in Its(b) : number[p] = d ELSE table[d]]
        /\ reader' = [p \in Pipes |->
                        IF p \in Its(b) THEN [NoReader EXCEPT !.at = "ready", !.fd = number[p]]
                        ELSE reader[p]]
  BY DEF OpenPipes
<1>2. /\ build[b].at = "asked" /\ sent' = sent
      /\ build' = [build EXCEPT ![b].at = "piped", ![b].after = Closing]
  BY DEF OpenPipes
<1>3. /\ r \in BuildRecord /\ r.at = "piped" /\ r.after = Closing /\ r.closed = build[b].closed
  <2>1. build[b] \in BuildRecord /\ Closing \in SUBSET Builds
    BY DEF ReuseInv, Closing
  <2> QED
    BY <2>1 DEF BuildRecord
<1>4. /\ build' \in [Builds -> BuildRecord] /\ build'[b] = r
      /\ \A c \in Builds : c # b => build'[c] = build[c]
  <2>1. build' = [build EXCEPT ![b] = r]
    BY <1>2
  <2> HIDE DEF r
  <2> QED
    BY <1>3, <2>1 DEF ReuseInv
<1> HIDE DEF r
<1>5. Its(b) \subseteq Pipes /\ Free \subseteq Descriptors
  BY DEF Its, Free
<1>6. \A p \in Its(b) : ~Opened(p) /\ number[p] \in Descriptors /\ table[number[p]] = NoPipe
  BY <1>1, <1>2 DEF ReuseInv, Unmade, Free
<1>7. \A p \in Its(b) : reader'[p].at = "ready" /\ reader'[p].fd = number[p]
  BY <1>1, <1>5 DEF NoReader
<1>8. \A p \in Pipes : p \notin Its(b) => reader'[p] = reader[p]
  BY <1>1
<1>9. \A p, q \in Its(b) : number[p] = number[q] => p = q
  <2> SUFFICES ASSUME NEW p \in Its(b), NEW q \in Its(b), p # q PROVE number[p] # number[q]
    OBVIOUS
  <2>1. number[p] \in Nat /\ number[q] \in Nat
    BY <1>6, NumbersAreNatural DEF Descriptors
  <2>2. Before(p, q) \/ Before(q, p)
    <3>1. p[1] = b /\ q[1] = b
      BY DEF Its
    <3>2. p[2] # q[2]
      BY <1>5, <3>1, PipesArePairs
    <3> QED
      BY <1>5, <3>2, PipesArePairs DEF Before, Rank
  <2> QED
    <3>1. Before(p, q) => number[p] < number[q]
      BY <1>1 DEF Lowest
    <3>2. Before(q, p) => number[q] < number[p]
      BY <1>1 DEF Lowest
    <3> QED
      BY <2>1, <2>2, <3>1, <3>2
<1>10. \A p \in Its(b) : table'[number[p]] = p
  BY <1>1, <1>6, <1>9
<1>11. \A d \in Descriptors : (\A p \in Its(b) : number[p] # d) => table'[d] = table[d]
  BY <1>1
<1>12. \A q \in Pipes : Opened(q) => /\ Opened(q)' /\ q \notin Its(b)
                                    /\ reader'[q] = reader[q]
                                    /\ build'[q[1]] = build[q[1]]
  <2> SUFFICES ASSUME NEW q \in Pipes, Opened(q)
               PROVE  q \notin Its(b) /\ reader'[q] = reader[q] /\ build'[q[1]] = build[q[1]]
    BY DEF Opened
  <2>1. q \notin Its(b)
    BY <1>6
  <2>2. q[1] # b /\ q[1] \in Builds
    BY <2>1, PipesArePairs DEF Its
  <2> QED
    BY <1>4, <1>8, <2>1, <2>2
<1>13. \A x, q \in Pipes : From(x, q) => FromAfter(x, q)
  BY <1>12 DEF From, FromAfter, Reuses, Opened
<1>14. \A x \in Pipes :
         /\ reader'[x].at = "waiting" => FromAfter(x, reader'[x].on)
         /\ reader'[x].at = "sending" => FromAfter(x, reader'[x].block.of)
         /\ \A i \in 1..Len(sent'[x]) : FromAfter(x, sent'[x][i].of)
  <2> SUFFICES ASSUME NEW x \in Pipes
               PROVE  /\ reader'[x].at = "waiting" => FromAfter(x, reader'[x].on)
                      /\ reader'[x].at = "sending" => FromAfter(x, reader'[x].block.of)
                      /\ \A i \in 1..Len(sent'[x]) : FromAfter(x, sent'[x][i].of)
    OBVIOUS
  <2>1. \A i \in 1..Len(sent'[x]) : FromAfter(x, sent'[x][i].of)
    BY <1>2, <1>13, Types DEF ReuseInv
  <2>2. CASE x \in Its(b)
    BY <1>7, <2>1, <2>2
  <2>3. CASE x \notin Its(b)
    BY <1>8, <1>13, <2>1, <2>3, Types DEF ReuseInv
  <2> QED
    BY <2>2, <2>3
<1>15. \A x \in Pipes : Opened(x)' => x \in Its(b) \/ Opened(x)
  BY <1>8 DEF Opened
<1>16. \A x \in Pipes : Opened(x)' => /\ reader'[x].fd \in Descriptors
                                      /\ x \in build'[x[1]].closed \/ table'[reader'[x].fd] = x
  <2> SUFFICES ASSUME NEW x \in Pipes, Opened(x)'
               PROVE  /\ reader'[x].fd \in Descriptors
                      /\ x \in build'[x[1]].closed \/ table'[reader'[x].fd] = x
    OBVIOUS
  <2>1. CASE x \in Its(b)
    BY <1>6, <1>7, <1>10, <2>1
  <2>2. CASE x \notin Its(b)
    <3>1. Opened(x) /\ reader'[x] = reader[x] /\ build'[x[1]] = build[x[1]]
      BY <1>12, <1>15, <2>2
    <3>2. reader[x].fd \in Descriptors /\ (x \in build[x[1]].closed \/ table[reader[x].fd] = x)
      BY <3>1 DEF ReuseInv
    <3>3. table[reader[x].fd] = x => table'[reader[x].fd] = x
      BY <1>6, <1>11, <3>2, PipesArePairs
    <3> QED
      BY <3>1, <3>2, <3>3
  <2> QED
    BY <2>1, <2>2
<1>17. \A d \in Descriptors : table'[d] \in Pipes => Opened(table[d])' /\ reader'[table'[d]].fd = d
  <2> SUFFICES ASSUME NEW d \in Descriptors, table'[d] \in Pipes
               PROVE  Opened(table[d])' /\ reader'[table'[d]].fd = d
    OBVIOUS
  <2>1. CASE \E p \in Its(b) : number[p] = d
    BY <1>7, <1>10, <2>1 DEF Opened
  <2>2. CASE \A p \in Its(b) : number[p] # d
    <3>1. table'[d] = table[d] /\ table[d] \in Pipes
      BY <1>11, <2>2, Types DEF ReuseInv
    <3>2. Opened(table[d]) /\ reader[table[d]].fd = d
      BY <3>1 DEF ReuseInv
    <3> QED
      BY <1>12, <3>1, <3>2 DEF Opened
  <2> QED
    BY <2>1, <2>2
<1>18. \A x \in Pipes : Opened(x)' /\ table'[reader'[x].fd] \in Pipes => Reuses(x, table[reader[x].fd])'
  <2> SUFFICES ASSUME NEW x \in Pipes, Opened(x)', table'[reader'[x].fd] \in Pipes
               PROVE  Reuses(x, table[reader[x].fd])'
    OBVIOUS
  <2>1. CASE x \in Its(b)
    BY <1>7, <1>10, <2>1 DEF Reuses
  <2>2. CASE x \notin Its(b)
    <3> DEFINE d == reader[x].fd
    <3>1. /\ Opened(x) /\ reader'[x].fd = d /\ d \in Descriptors
          /\ x \in build[x[1]].closed \/ table[d] = x
      BY <1>12, <1>15, <2>2 DEF ReuseInv
    <3>2. CASE \E p \in Its(b) : number[p] = d
      <4>1. PICK p \in Its(b) : number[p] = d
        BY <3>2
      <4>2. table'[d] = p /\ p[1] = b
        BY <1>10, <4>1 DEF Its
      <4>3. x \in build[x[1]].closed
        BY <1>6, <3>1, <4>1, PipesArePairs
      <4>4. x[1] \in Closing
        BY <4>3, PipesArePairs DEF Closing
      <4>5. x[1] \in build'[p[1]].after
        BY <1>3, <1>4, <4>2, <4>4
      <4> QED
        BY <3>1, <4>2, <4>5 DEF Reuses
    <3>3. CASE \A p \in Its(b) : number[p] # d
      <4>1. table'[d] = table[d] /\ table[d] \in Pipes
        BY <1>11, <3>1, <3>3, Types DEF ReuseInv
      <4>2. Opened(table[d]) /\ Reuses(x, table[d])
        BY <3>1, <4>1 DEF ReuseInv
      <4>3. build'[table[d][1]] = build[table[d][1]]
        BY <1>12, <4>1, <4>2
      <4> QED
        BY <3>1, <4>1, <4>2, <4>3 DEF Reuses
    <3> QED
      BY <3>2, <3>3
  <2> QED
    BY <2>1, <2>2
<1>19. \A c \in Builds : Unmade(c)' => build'[c].closed = {} /\ \A q \in Its(c) : ~Opened(q)'
  <2> SUFFICES ASSUME NEW c \in Builds, Unmade(c)'
               PROVE  build'[c].closed = {} /\ \A q \in Its(c) : ~Opened(q)'
    OBVIOUS
  <2>1. c # b /\ build'[c] = build[c] /\ Unmade(c)
    BY <1>3, <1>4 DEF Unmade
  <2>2. \A q \in Its(c) : q \in Pipes /\ q \notin Its(b)
    BY <2>1 DEF Its
  <2> QED
    BY <1>15, <2>1, <2>2 DEF ReuseInv
<1>20. \A x \in Pipes :
         /\ reader'[x].at = "waiting" => From(x, reader[x].on)'
         /\ reader'[x].at = "sending" => From(x, reader[x].block.of)'
         /\ \A i \in 1..Len(sent'[x]) : From(x, sent[x][i].of)'
  BY <1>14 DEF From, FromAfter, Opened, Reuses
<1> QED
  BY <1>4, <1>16, <1>17, <1>18, <1>19, <1>20 DEF ReuseInv

\* A build that closes one of its pipes: its number stands for nothing, or for another
\* pipe that it already stood for.
LEMMA CloseStep ==
  ASSUME ReuseInv, OrderInv', PsInv', NEW b \in Builds, Close(b)
  PROVE  ReuseInv'
<1>1. PICK p \in Its(b) :
        /\ table' = [d \in Descriptors |-> IF table[d] = p THEN NoPipe ELSE table[d]]
        /\ Closes(b, p)
  BY DEF Close
<1>2. UNCHANGED <<reader, sent>> /\ p \in Pipes /\ p[1] = b
  BY <1>1 DEF Close, Its
<1> DEFINE at == IF Its(b) \subseteq build[b].closed \cup {p} THEN "closed" ELSE "closing"
           r == [build[b] EXCEPT !.closed = @ \cup {p}, !.at = at]
<1>3. build' = [build EXCEPT ![b] = r]
  BY <1>1 DEF Closes
<1>4. r \in BuildRecord /\ r.at \in {"closed", "closing"} /\ r.after = build[b].after /\ r.closed = build[b].closed \cup {p}
  <2>1. build[b] \in BuildRecord /\ at \in {"closed", "closing"}
    BY DEF ReuseInv
  <2> HIDE DEF at
  <2> QED
    BY <1>2, <2>1 DEF BuildRecord
<1> HIDE DEF r
<1>5. /\ build' \in [Builds -> BuildRecord] /\ build'[b] = r
      /\ \A c \in Builds : c # b => build'[c] = build[c]
  BY <1>3, <1>4 DEF ReuseInv
<1>6. \A q \in Pipes : /\ build'[q[1]].after = build[q[1]].after
                       /\ build[q[1]].closed \subseteq build'[q[1]].closed
  BY <1>4, <1>5, PipesArePairs
<1>7. \A x, q \in Pipes : (From(x, q) => FromAfter(x, q)) /\ (Reuses(x, q) => Reuses(x, q)')
  BY <1>2, <1>6 DEF From, FromAfter, Reuses, Opened
<1>8. \A x \in Pipes :
        /\ reader'[x].at = "waiting" => From(x, reader[x].on)'
        /\ reader'[x].at = "sending" => From(x, reader[x].block.of)'
        /\ \A i \in 1..Len(sent'[x]) : From(x, sent[x][i].of)'
  <2>1. \A x \in Pipes :
          /\ reader[x].at = "waiting" => FromAfter(x, reader[x].on)
          /\ reader[x].at = "sending" => FromAfter(x, reader[x].block.of)
          /\ \A i \in 1..Len(sent[x]) : FromAfter(x, sent[x][i].of)
    BY <1>7, Types DEF ReuseInv
  <2> QED
    BY <1>2, <2>1 DEF From, FromAfter, Opened, Reuses
<1>9. \A d \in Descriptors : table'[d] \in Pipes => table'[d] = table[d] /\ table[d] \in Pipes
  BY <1>1, PipesArePairs DEF ReuseInv
<1>10. \A d \in Descriptors : table'[d] \in Pipes => Opened(table[d])' /\ reader'[table'[d]].fd = d
  BY <1>2, <1>9 DEF ReuseInv, Opened
<1>11. \A x \in Pipes : Opened(x)' => Opened(x) /\ reader'[x].fd = reader[x].fd /\ reader[x].fd \in Descriptors
  BY <1>2 DEF ReuseInv, Opened
<1>12. \A x \in Pipes : Opened(x)' /\ table'[reader'[x].fd] \in Pipes => Reuses(x, table[reader[x].fd])'
  <2> SUFFICES ASSUME NEW x \in Pipes, Opened(x)', table'[reader'[x].fd] \in Pipes
               PROVE  Reuses(x, table[reader[x].fd])'
    OBVIOUS
  <2> DEFINE d == reader[x].fd
  <2>1. Opened(x) /\ reader'[x].fd = d /\ d \in Descriptors
    BY <1>11
  <2>2. table'[d] = table[d] /\ table[d] \in Pipes
    BY <1>9, <2>1
  <2>3. Reuses(x, table[d])
    BY <2>1, <2>2 DEF ReuseInv
  <2>4. build'[table[d][1]].after = build[table[d][1]].after
    BY <1>6, <2>2
  <2> QED
    BY <2>1, <2>2, <2>3, <2>4 DEF Reuses
<1>13. \A x \in Pipes : Opened(x)' => /\ reader'[x].fd \in Descriptors
                                      /\ x \in build'[x[1]].closed \/ table'[reader'[x].fd] = x
  <2> SUFFICES ASSUME NEW x \in Pipes, Opened(x)'
               PROVE  x \in build'[x[1]].closed \/ table'[reader'[x].fd] = x
    BY <1>11
  <2>1. CASE x = p
    BY <1>2, <1>4, <1>5, <2>1
  <2>2. CASE x # p
    BY <1>1, <1>6, <1>11, <2>2 DEF ReuseInv
  <2> QED
    BY <2>1, <2>2
<1>14. \A c \in Builds : Unmade(c)' => build'[c].closed = {} /\ \A q \in Its(c) : ~Opened(q)'
  <2> SUFFICES ASSUME NEW c \in Builds, Unmade(c)'
               PROVE  build'[c].closed = {} /\ \A q \in Its(c) : ~Opened(q)'
    OBVIOUS
  <2>1. c # b
    BY <1>4, <1>5 DEF Unmade
  <2> QED
    BY <1>2, <1>5, <2>1 DEF ReuseInv, Unmade, Opened
<1> QED
  BY <1>5, <1>8, <1>10, <1>12, <1>13, <1>14 DEF ReuseInv

\* A reader stays within what its number stands for, or stood for when it began to wait.
LEMMA ReaderSteps ==
  ASSUME ReuseInv, OrderInv', PsInv', NEW p \in Pipes, ReaderStep(p) \/ FileAnswers(p)
  PROVE  ReuseInv'
<1>1. reader[p] \in Reader /\ DOMAIN reader = Pipes /\ \A q \in Pipes : content[q] \in Seq(Block)
  BY DEF ReuseInv, OrderInv, MakeType
<1>2. \A x \in Pipes : \A i \in 1..Len(sent[x]) : From(x, sent[x][i].of)
  BY DEF ReuseInv
<1>3. CASE ReaderReads(p) \/ ReaderAtEnd(p) \/ ReaderPasses(p) \/ FileAnswers(p)
  <2>1. MakeType
    BY DEF ReuseInv, OrderInv
  <2>2. PICK r \in Reader :
          /\ r.at \notin {"none", "sending"} /\ r.fd = reader[p].fd
          /\ reader' = [reader EXCEPT ![p] = r]
          /\ r.at = "waiting" => r.on = table[r.fd] /\ r.on \in Pipes
          /\ reader[p].at # "none" /\ reader[p].fd \in Descriptors
          /\ UNCHANGED <<build, table, content, written, sent>>
    BY <1>3, <2>1, ReaderTurns
  <2>3. Opened(p) /\ (r.at = "waiting" => From(p, r.on))
    BY <2>2 DEF Opened, ReuseInv, From
  <2> QED
    BY <1>2, <2>2, <2>3, ReaderMoves
<1>4. CASE ReaderGets(p)
  <2> DEFINE q == reader[p].on
             block == Head(content[q])
             r == [reader[p] EXCEPT !.at = "sending", !.on = NoPipe, !.block = block]
  <2>1. /\ reader[p].at = "waiting" /\ content[q] # <<>>
        /\ UNCHANGED <<build, table, sent>> /\ reader' = [reader EXCEPT ![p] = r]
    BY <1>4 DEF ReaderGets
  <2>2. q \in Pipes /\ Opened(p) /\ From(p, q)
    BY <2>1, Types DEF Opened, ReuseInv
  <2>3. block \in Block /\ block = content[q][1] /\ 1 \in 1..Len(content[q])
    BY <1>1, <2>1, <2>2
  <2>4. block.of = q
    <3> HIDE DEF block, q
    <3>1. content[q][1] = [of |-> q, n |-> Gone(q) + 1]
      BY <2>2, <2>3 DEF ReuseInv, OrderInv, ContentInv
    <3> QED
      BY <2>3, <3>1
  <2> HIDE DEF block, q
  <2>5. r \in Reader /\ r.at = "sending" /\ r.fd = reader[p].fd /\ r.block.of = q
    BY <1>1, <2>1, <2>3, <2>4 DEF Reader
  <2> HIDE DEF r
  <2> QED
    BY <1>2, <2>1, <2>2, <2>5, ReaderMoves
<1>6. CASE ReaderSends(p)
  <2> DEFINE block == reader[p].block
             r == [reader[p] EXCEPT !.at = "ready", !.block = NoBlock]
  <2>1. /\ reader[p].at = "sending" /\ UNCHANGED <<build, table>> /\ reader' = [reader EXCEPT ![p] = r]
        /\ sent' = [sent EXCEPT ![p] = Append(@, block)]
    BY <1>6 DEF ReaderSends
  <2>2. r \in Reader /\ r.at = "ready" /\ r.fd = reader[p].fd /\ Opened(p)
    BY <1>1, <2>1 DEF Reader, Opened
  <2>3. From(p, block.of) /\ block \in Block
    BY <1>1, <2>1 DEF ReuseInv, Reader
  <2> HIDE DEF r, block
  <2>4. ASSUME NEW x \in Pipes, NEW i \in 1..Len(sent'[x]) PROVE From(x, sent'[x][i].of)
    <3>1. CASE x # p
      <4>1. sent'[x] = sent[x]
        BY <2>1, <3>1 DEF ReuseInv, OrderInv, MakeType
      <4> QED
        BY <1>2, <4>1
    <3>2. CASE x = p
      <4>1. sent'[p] = Append(sent[p], block) /\ sent[p] \in Seq(Block)
        BY <2>1 DEF ReuseInv, OrderInv, MakeType
      <4>2. (i \in 1..Len(sent[p]) /\ sent'[p][i] = sent[p][i]) \/ sent'[p][i] = block
        BY <2>3, <3>2, <4>1
      <4> QED
        BY <1>2, <2>3, <3>2, <4>2
    <3> QED
      BY <3>1, <3>2
  <2> QED
    BY <2>1, <2>2, <2>4, ReaderMoves
<1> QED
  BY <1>3, <1>4, <1>6 DEF ReaderStep

\* Of the steps of a build and of all the others, only OpenPipes and Close change what
\* the numbers stand for.
LEMMA ReuseStep == ASSUME ReuseInv, [Next]_vars PROVE ReuseInv'
<1>1. PsInv' /\ OrderInv'
  BY PsStep, OrderStep DEF ReuseInv
<1>2. CASE UNCHANGED builds
  BY <1>1, <1>2 DEF builds, ReuseInv, Unmade, Opened, From, Reuses
<1>3. ASSUME NEW b \in Builds, Build(b) PROVE ReuseInv'
  <2> DEFINE r == [at |-> "asked", conn |-> global_conn, after |-> {}, closed |-> {}]
  <2>1. /\ build[b].at = "none" /\ build' = [build EXCEPT ![b] = r] /\ UNCHANGED <<table, reader, sent>>
    BY <1>3 DEF Build
  <2>2. Unmade(b) /\ r.closed = build[b].closed
    BY <2>1 DEF Unmade, ReuseInv
  <2>3. r \in BuildRecord
    BY DEF BuildRecord, ReuseInv, PsInv
  <2> HIDE DEF r
  <2> QED
    BY <1>1, <2>1, <2>2, <2>3, BuildMoves
<1>4. ASSUME NEW b \in Builds, NEW from, NEW to \in {"running", "written", "exited"},
             Advance(b, from, to), UNCHANGED <<table, reader, sent>>
      PROVE  ReuseInv'
  <2> DEFINE r == [build[b] EXCEPT !.at = to]
  <2>1. build' = [build EXCEPT ![b] = r]
    BY <1>4 DEF Advance
  <2>2. r \in BuildRecord /\ r.at = to /\ r.after = build[b].after /\ r.closed = build[b].closed
    BY DEF ReuseInv, BuildRecord
  <2> HIDE DEF r
  <2> QED
    BY <1>1, <1>4, <2>1, <2>2, BuildMoves
<1>5. ASSUME NEW b \in Builds, Fork(b) \/ WriteStatus(b) \/ Exit(b) PROVE ReuseInv'
  <2>1. CASE Fork(b)
    BY <1>4, <2>1 DEF Fork
  <2>2. CASE WriteStatus(b)
    BY <1>4, <2>2 DEF WriteStatus
  <2>3. CASE Exit(b)
    BY <1>4, <2>3 DEF Exit
  <2> QED
    BY <1>5, <2>1, <2>2, <2>3
<1>6. ASSUME NEW b \in Builds, ChildWrites(b) PROVE ReuseInv'
  <2>1. UNCHANGED <<build, table, reader, sent>>
    BY <1>6 DEF ChildWrites, Output
  <2>2. build[b] \in BuildRecord /\ build' = [build EXCEPT ![b] = build[b]]
    BY <2>1 DEF ReuseInv
  <2> QED
    BY <1>1, <2>1, <2>2, BuildMoves DEF Unmade
<1>9. ASSUME OtherOpens \/ \E d \in Descriptors : OtherCloses(d) PROVE ReuseInv'
  <2>1. MakeType
    BY DEF ReuseInv, OrderInv
  <2>2. /\ \A d \in Descriptors : table[d] \in Pipes \/ table'[d] \in Pipes => table'[d] = table[d]
        /\ UNCHANGED <<build, reader, sent>>
    BY <1>9, <2>1, TableTurns
  <2> QED
    BY <1>1, <2>2 DEF ReuseInv, Unmade, Opened, From, Reuses
<1>7. CASE MakeNext
  <2>1. CASE BuildWithoutRequest
    BY <1>2, <2>1 DEF BuildWithoutRequest
  <2>2. ASSUME NEW b \in Builds, OpenPipes(b) \/ Close(b) PROVE ReuseInv'
    BY <1>1, <2>2, OpenStep, CloseStep
  <2>3. ASSUME NEW p \in Pipes, ReaderStep(p) \/ FileAnswers(p) PROVE ReuseInv'
    BY <1>1, <2>3, ReaderSteps
  <2> QED
    BY <1>3, <1>5, <1>6, <1>7, <1>9, <2>1, <2>2, <2>3 DEF MakeNext, ThreadStep, ChildStep
<1>8. CASE ConnectionNext \/ PsNext \/ CommunicationNext \/ UNCHANGED vars
  BY <1>2, <1>8 DEF ConnectionNext, PsNext, CommunicationNext, vars
<1> QED
  BY <1>7, <1>8 DEF Next

\* At first there is neither a build nor a reader.
LEMMA ReuseInit == Init => ReuseInv
<1> SUFFICES ASSUME Init PROVE ReuseInv
  OBVIOUS
<1>1. PsInv
  BY DEF Init, ConnectionInit, PsInit, PsInv, SendingHasSender, NoSender
<1>2. OrderInv
  BY OrderInit
<1>3. build \in [Builds -> BuildRecord] /\ \A b \in Builds : build[b].closed = {}
  BY DEF Init, MakeInit, BuildRecord
<1>4. /\ \A p \in Pipes : reader[p].at = "none" /\ sent[p] = <<>>
      /\ \A d \in Descriptors : table[d] = NoPipe
  BY DEF Init, MakeInit, NoReader
<1> QED
  BY <1>1, <1>2, <1>3, <1>4, PipesArePairs DEF ReuseInv, Opened, Its

\* A reader that is astray, or was, is one whose pipe is closed.
StrayInv ==
  /\ ReuseInv
  /\ \A p \in Pipes : reader[p].at \in {"strayed", "passing"} => p \in build[p[1]].closed
  /\ \A p \in stray : p \in Pipes /\ p \in build[p[1]].closed

\* A pipe that is closed stays closed.
LEMMA ClosedStays ==
  ASSUME ReuseInv, [Next]_vars, NEW p \in Pipes, p \in build[p[1]].closed
  PROVE  p \in build'[p[1]].closed
<1>1. p[1] \in Builds /\ build \in [Builds -> BuildRecord] /\ ~Unmade(p[1])
  BY PipesArePairs DEF ReuseInv
<1> USE <1>1
<1>2. CASE MakeNext
  <2>1. ASSUME NEW b \in Builds, Build(b) PROVE p \in build'[p[1]].closed
    BY <2>1 DEF Build, Unmade
  <2>2. ASSUME NEW b \in Builds, ThreadStep(b) PROVE p \in build'[p[1]].closed
    <3>1. CASE OpenPipes(b)
      <4>1. build' = [build EXCEPT ![b].at = "piped", ![b].after = Closing]
        BY <3>1 DEF OpenPipes
      <4>2. \A c \in Builds : build'[c].closed = build[c].closed
        BY <4>1 DEF BuildRecord
      <4> QED
        BY <4>2
    <3>2. CASE Fork(b)
      BY <3>2 DEF Fork, Advance
    <3>3. CASE Close(b)
      <4>1. PICK q \in Its(b) : Closes(b, q)
        BY <3>3 DEF Close
      <4>2. \A c \in Builds : build[c].closed \subseteq build'[c].closed
        BY <4>1 DEF Closes, BuildRecord
      <4> QED
        BY <4>2
    <3> QED
      BY <2>2, <3>1, <3>2, <3>3 DEF ThreadStep
  <2>3. ASSUME NEW b \in Builds, ChildStep(b) \/ ChildWrites(b) PROVE p \in build'[p[1]].closed
    <3>1. build' = build \/ \E at : build' = [build EXCEPT ![b].at = at]
      BY <2>3 DEF ChildStep, ChildWrites, WriteStatus, Exit, Output, Advance
    <3>2. \A c \in Builds : build'[c].closed = build[c].closed
      BY <3>1 DEF BuildRecord
    <3> QED
      BY <3>2
  <2>4. ASSUME NEW q \in Pipes, ReaderStep(q) \/ FileAnswers(q) PROVE p \in build'[p[1]].closed
    BY <2>4 DEF ReaderStep, ReaderReads, ReaderGets, ReaderAtEnd, ReaderSends, ReaderPasses, FileAnswers
  <2>5. CASE BuildWithoutRequest \/ OtherOpens \/ \E d \in Descriptors : OtherCloses(d)
    BY <2>5 DEF BuildWithoutRequest, builds, OtherOpens, OtherCloses
  <2> QED
    BY <1>2, <2>1, <2>2, <2>3, <2>4, <2>5 DEF MakeNext
<1>3. CASE ConnectionNext \/ PsNext \/ CommunicationNext \/ UNCHANGED vars
  BY <1>3 DEF ConnectionNext, PsNext, CommunicationNext, vars, builds
<1> QED
  BY <1>2, <1>3 DEF Next

\* A reader goes astray only where its number stands for another file, and no longer for
\* its own pipe.
LEMMA StrayStep == ASSUME StrayInv, [Next]_vars PROVE StrayInv'
<1>1. ReuseInv /\ ReuseInv'
  BY ReuseStep DEF StrayInv
<1>2. \A p \in Pipes : p \in build[p[1]].closed => p \in build'[p[1]].closed
  BY <1>1, ClosedStays
<1>3. ASSUME UNCHANGED stray,
             \A p \in Pipes : reader'[p].at \in {"strayed", "passing"} => reader[p].at \in {"strayed", "passing"}
      PROVE  StrayInv'
  BY <1>1, <1>2, <1>3 DEF StrayInv
<1>4. DOMAIN reader = Pipes
  BY <1>1 DEF ReuseInv, OrderInv, MakeType
<1>5. ASSUME NEW p \in Pipes, ReaderReads(p) PROVE StrayInv'
  <2>1. /\ reader[p].at = "ready" /\ stray' = stray
        /\ \A q \in Pipes : q # p => reader'[q] = reader[q]
    BY <1>4, <1>5 DEF ReaderReads
  <2>2. CASE table[reader[p].fd] = OtherFile
    <3>1. p \in build[p[1]].closed
      BY <1>1, <2>1, <2>2, PipesArePairs DEF ReuseInv, Opened
    <3> QED
      BY <1>1, <1>2, <2>1, <3>1 DEF StrayInv
  <2>3. CASE table[reader[p].fd] # OtherFile
    <3>1. reader'[p].at \in {"ended", "waiting"}
      BY <1>4, <1>5, <2>3 DEF ReaderReads
    <3> QED
      BY <1>3, <2>1, <3>1
  <2> QED
    BY <2>2, <2>3
<1>6. ASSUME NEW p \in Pipes, FileAnswers(p) \/ ReaderPasses(p) PROVE StrayInv'
  <2>1. /\ reader[p].at \in {"strayed", "passing"} /\ stray' \subseteq stray \cup {p}
        /\ \A q \in Pipes : q # p => reader'[q] = reader[q]
    BY <1>4, <1>6 DEF FileAnswers, ReaderPasses
  <2> QED
    BY <1>1, <1>2, <2>1 DEF StrayInv
<1>7. ASSUME NEW p \in Pipes, ReaderGets(p) \/ ReaderAtEnd(p) \/ ReaderSends(p) PROVE StrayInv'
  <2>1. /\ stray' = stray /\ reader'[p].at \in {"sending", "ready"}
        /\ \A q \in Pipes : q # p => reader'[q] = reader[q]
    <3>1. CASE ReaderGets(p)
      BY <1>4, <3>1 DEF ReaderGets
    <3>2. CASE ReaderAtEnd(p)
      BY <1>4, <3>2 DEF ReaderAtEnd
    <3>3. CASE ReaderSends(p)
      BY <1>4, <3>3 DEF ReaderSends
    <3> QED
      BY <1>7, <3>1, <3>2, <3>3
  <2> QED
    BY <1>3, <2>1
<1>8. ASSUME NEW b \in Builds, OpenPipes(b) PROVE StrayInv'
  <2>1. stray' = stray /\ \A q \in Pipes : reader'[q] = reader[q] \/ reader'[q].at = "ready"
    BY <1>8 DEF OpenPipes, NoReader
  <2> QED
    BY <1>3, <2>1
<1>9. ASSUME UNCHANGED <<reader, stray>> PROVE StrayInv'
  BY <1>3, <1>9
<1>10. CASE MakeNext
  <2>1. ASSUME NEW b \in Builds, Build(b) \/ Fork(b) \/ Close(b) \/ ChildStep(b) \/ ChildWrites(b) PROVE StrayInv'
    BY <1>9, <2>1 DEF Build, Fork, Close, ChildStep, ChildWrites, WriteStatus, Exit, Output
  <2>2. CASE BuildWithoutRequest \/ OtherOpens \/ \E d \in Descriptors : OtherCloses(d)
    BY <1>9, <2>2 DEF BuildWithoutRequest, builds, OtherOpens, OtherCloses
  <2> QED
    BY <1>5, <1>6, <1>7, <1>8, <1>10, <2>1, <2>2 DEF MakeNext, ThreadStep, ReaderStep
<1>11. CASE ConnectionNext \/ PsNext \/ CommunicationNext \/ UNCHANGED vars
  BY <1>9, <1>11 DEF ConnectionNext, PsNext, CommunicationNext, vars, builds
<1> QED
  BY <1>10, <1>11 DEF Next

\* What a build did not write is sent under its request only by a reader that outlived
\* its own pipe, whose number the pipes of another build or another file of the server
\* took afterwards (make.c), for any number of builds, of files and of blocks.
THEOREM MixingCorrect == Spec => []MixedOnlyByReuse
<1>1. StrayInv => MixedOnlyByReuse
  <2> SUFFICES ASSUME StrayInv PROVE MixedOnlyByReuse
    OBVIOUS
  <2>1. ASSUME NEW p \in Pipes, NEW i \in DOMAIN sent[p], sent[p][i].of[1] # p[1]
        PROVE  p[1] \in build[sent[p][i].of[1]].after
    <3>1. sent[p] \in Seq(Block)
      BY DEF StrayInv, ReuseInv, OrderInv, MakeType
    <3>2. i \in 1..Len(sent[p])
      BY <3>1
    <3>3. From(p, sent[p][i].of)
      BY <3>2 DEF StrayInv, ReuseInv
    <3> QED
      BY <2>1, <3>3 DEF From, Reuses
  <2> QED
    BY <2>1 DEF MixedOnlyByReuse, StrayInv
<1>2. Init => StrayInv
  BY ReuseInit DEF Init, MakeInit, NoReader, StrayInv
<1>3. StrayInv /\ [Next]_vars => StrayInv'
  BY StrayStep
<1> QED
  BY <1>1, <1>2, <1>3, PTL DEF Spec

-----------------------------------------------------------------------------
(* Redis on the server's side (Communication): the replies on the shared   *)
(* connection for any number of threads, and the lists of signals where    *)
(* one thread handles the signals of one project.                          *)

\* A value in the list of a project, and a thread of onWyliodrinMessage.
Value == [of : Projects, n : Nat, valid : BOOLEAN]
WorkerRecord ==
  [at : {"idle", "range", "post", "trim"}, project : Projects \cup {NoProject}, got : Seq(Value)]

SignalType ==
  /\ list \in [Projects -> Seq(Value)]
  /\ announced \in [Workers -> Seq(Projects)]
  /\ worker \in [Workers -> WorkerRecord]
  /\ \A w \in Workers : worker[w].at # "idle" => worker[w].project \in Projects
  /\ context \in {"ok", "broken"}
  /\ replies \in Seq(Seq(Value))
  /\ pushed \in Nat

\* As many replies are coming as there are threads in a command.
EveryCommandHasReply == context = "ok" => Len(replies) = Cardinality(InCommand)

ReplyInv == SignalType /\ EveryCommandHasReply

-----------------------------------------------------------------------------
(* The operators *)

\* The beginning of a list of values, and what is left of it.
LEMMA FirstIsPrefix ==
  ASSUME NEW n \in Nat, NEW s \in Seq(Value)
  PROVE  /\ First(n, s) \in Seq(Value)
         /\ Len(First(n, s)) = IF n < Len(s) THEN n ELSE Len(s)
         /\ \A i \in 1..Len(First(n, s)) : First(n, s)[i] = s[i]
         /\ SubSeq(s, Len(First(n, s)) + 1, Len(s)) \in Seq(Value)
<1> DEFINE m == IF n < Len(s) THEN n ELSE Len(s)
<1>1. m \in Nat /\ m <= Len(s) /\ First(n, s) = SubSeq(s, 1, m)
  BY DEF First
<1>2. /\ SubSeq(s, 1, m) \in Seq(Value)
      /\ Len(SubSeq(s, 1, m)) = m
      /\ \A i \in 1..m : SubSeq(s, 1, m)[i] = s[i]
  BY <1>1
<1> HIDE DEF m
<1>3. SubSeq(s, m + 1, Len(s)) \in Seq(Value)
  BY <1>1
<1> QED
  BY <1>1, <1>2, <1>3 DEF m

\* The threads in a command are finitely many, for the threads are.
LEMMA InCommandFinite == IsFiniteSet(InCommand) /\ Cardinality(InCommand) \in Nat
<1> DEFINE W == {w \in Workers : worker[w].at \in {"range", "trim"}}
<1>1. IsFiniteSet(W)
  BY CommunicationAssumption, FS_Subset
<1>2. IsFiniteSet(W \cup {"main"}) /\ IsFiniteSet(W \cup {})
  BY <1>1, FS_AddElement
<1>3. IsFiniteSet(InCommand)
  BY <1>2 DEF InCommand
<1> QED
  BY <1>3, FS_CardinalityType

\* A sequence of replies that grows or shrinks, and the replies it offers.
LEMMA RepliesType ==
  ASSUME NEW s \in Seq(Seq(Value)), NEW v \in Seq(Value)
  PROVE  /\ Append(s, v) \in Seq(Seq(Value)) /\ Len(Append(s, v)) = Len(s) + 1
         /\ s # <<>> => Tail(s) \in Seq(Seq(Value)) /\ Len(Tail(s)) = Len(s) - 1
         /\ \A i \in DOMAIN s : s[i] \in Seq(Value)
  OBVIOUS

LEMMA OfferedType == ASSUME replies \in Seq(Seq(Value)) PROVE Offered \subseteq Seq(Value)
<1>1. NoArray \in Seq(Value)
  BY DEF NoArray
<1>2. \A i \in DOMAIN replies : replies[i] \in Seq(Value)
  BY <1>1, RepliesType
<1> QED
  BY <1>1, <1>2 DEF Offered

\* A thread enters its command as it is sent, and leaves it with one reply less.
LEMMA EnterCommand ==
  ASSUME ReplyInv, NEW x, x \notin InCommand, InCommand' = InCommand \cup {x}, context' = context,
         NEW r \in Seq(Value), Sends(r)
  PROVE  EveryCommandHasReply' /\ replies' \in Seq(Seq(Value))
<1>1. Cardinality(InCommand)' = Cardinality(InCommand) + 1
  BY InCommandFinite, FS_AddElement
<1>2. /\ replies \in Seq(Seq(Value))
      /\ replies' = replies \/ replies' = Append(replies, r)
      /\ context = "ok" => replies' = Append(replies, r)
  BY DEF Sends, ReplyInv, SignalType
<1>3. replies' \in Seq(Seq(Value)) /\ (context = "ok" => Len(replies') = Len(replies) + 1)
  BY <1>2, RepliesType
<1> QED
  BY <1>1, <1>3 DEF ReplyInv, EveryCommandHasReply

LEMMA LeaveCommand ==
  ASSUME ReplyInv, NEW x, x \in InCommand, InCommand' = InCommand \ {x}, context' = context,
         NEW r \in Offered, Takes(r)
  PROVE  EveryCommandHasReply' /\ replies' \in Seq(Seq(Value)) /\ r \in Seq(Value)
<1>1. Cardinality(InCommand)' = Cardinality(InCommand) - 1
  BY InCommandFinite, FS_RemoveElement
<1>2. replies \in Seq(Seq(Value)) /\ <<>> \in Seq(Value)
  BY DEF ReplyInv, SignalType
<1>3. r \in Seq(Value)
  BY <1>2, OfferedType
<1>4. \/ context = "ok" /\ replies # <<>> /\ replies' = Tail(replies)
      \/ context = "broken" /\ replies' = replies
  BY DEF Takes
<1>5. replies' \in Seq(Seq(Value)) /\ (context = "ok" => Len(replies') = Len(replies) - 1)
  <2>1. CASE replies # <<>> /\ replies' = Tail(replies)
    BY <1>2, <1>4, <2>1, RepliesType
  <2>2. CASE context = "broken" /\ replies' = replies
    BY <1>2, <2>2
  <2> QED
    BY <1>4, <2>1, <2>2
<1> QED
  BY <1>1, <1>3, <1>5 DEF ReplyInv, EveryCommandHasReply

-----------------------------------------------------------------------------
(* Replies *)

\* Nobody of those who run commands moves, and the programs push nothing.
Undisturbed ==
  /\ UNCHANGED <<list, announced, worker, context, replies, posted, trimmed, pushed>>
  /\ main' = "publishing" <=> main = "publishing"

LEMMA UndisturbedKeeps == ASSUME ReplyInv, Undisturbed PROVE ReplyInv'
<1>1. InCommand' = InCommand
  BY DEF Undisturbed, InCommand
<1>2. Cardinality(InCommand)' = Cardinality(InCommand)
  BY <1>1
<1> QED
  BY <1>2 DEF ReplyInv, SignalType, Undisturbed, EveryCommandHasReply

\* The steps that run no command on the shared connection.
LEMMA IdleSteps ==
  ASSUME ConnectionNext \/ MakeNext \/ PsNext \/ RelayTests \/ RelaySends \/ UNCHANGED vars
  PROVE  Undisturbed
<1> USE DEF Undisturbed, connection
<1>1. CASE ConnectionNext
  BY <1>1 DEF ConnectionNext, NewConnection, Attempt, Connected, ConnectionError, Release, Forget,
     OwnerComes, OwnerLeaves, SignalFiles, FilesAnswer, Dispatching, signals
<1>2. CASE MakeNext
  BY <1>2 DEF MakeNext, BuildWithoutRequest, Build, ThreadStep, ChildStep, ChildWrites, ReaderStep,
     OpenPipes, Fork, Close, WriteStatus, Exit, Output, ReaderReads, ReaderGets, ReaderAtEnd, ReaderSends,
     ReaderPasses, FileAnswers, OtherOpens, OtherCloses, signals
<1>3. CASE PsNext
  BY <1>3 DEF PsNext, ps_send, ps_stop, SenderStep, SenderTests, SenderSends, SenderWakes, ProcessIsGone, signals
<1>4. CASE RelayTests \/ RelaySends
  BY <1>4 DEF RelayTests, RelaySends, signals
<1>5. CASE UNCHANGED vars
  BY <1>5 DEF vars, signals
<1> QED
  BY <1>1, <1>2, <1>3, <1>4, <1>5

\* A thread that moves from one place to another, and what it takes along.
LEMMA WorkerMoves ==
  ASSUME SignalType, NEW w \in Workers, NEW r \in WorkerRecord,
         r.at # "idle" => r.project \in Projects,
         worker' = [worker EXCEPT ![w] = r]
  PROVE  /\ worker' \in [Workers -> WorkerRecord]
         /\ \A v \in Workers : worker'[v].at # "idle" => worker'[v].project \in Projects
         /\ worker'[w] = r
         /\ \A v \in Workers : v # w => worker'[v] = worker[v]
  BY DEF SignalType

\* What is left of a list when its beginning is removed.
LEMMA TrimmedType ==
  ASSUME SignalType, NEW project \in Projects, NEW got \in Seq(Value),
         list' = list \/ Trim(project, Len(got))
  PROVE  list' \in [Projects -> Seq(Value)]
<1>1. CASE list' = list
  BY <1>1 DEF SignalType
<1>2. CASE Trim(project, Len(got))
  <2> DEFINE gone == First(Len(got), list[project])
             rest == SubSeq(list[project], Len(gone) + 1, Len(list[project]))
  <2>1. list' = [list EXCEPT ![project] = rest]
    BY <1>2 DEF Trim
  <2>2. rest \in Seq(Value)
    BY FirstIsPrefix DEF SignalType
  <2> HIDE DEF rest
  <2> QED
    BY <2>1, <2>2 DEF SignalType
<1> QED
  BY <1>1, <1>2

\* Every step leaves as many replies as there are threads that wait for one.
LEMMA ReplyStep == ASSUME ReplyInv, [Next]_vars PROVE ReplyInv'
<1> USE DEF ReplyInv
<1>1. ASSUME NEW p \in Projects, Push(p) PROVE ReplyInv'
  <2>1. PICK valid \in BOOLEAN :
          list' = [list EXCEPT ![p] = Append(@, [of |-> p, n |-> pushed', valid |-> valid])]
    BY <1>1 DEF Push
  <2>2. pushed' \in Nat /\ announced' = [w \in Workers |-> Append(announced[w], p)]
    BY <1>1 DEF Push, SignalType
  <2>3. [of |-> p, n |-> pushed', valid |-> valid] \in Value
    BY <2>2 DEF Value
  <2>4. list' \in [Projects -> Seq(Value)] /\ announced' \in [Workers -> Seq(Projects)]
    BY <2>1, <2>2, <2>3 DEF SignalType
  <2>5. UNCHANGED <<worker, context, replies, main>>
    BY <1>1 DEF Push, connection
  <2>6. Cardinality(InCommand)' = Cardinality(InCommand)
    BY <2>5 DEF InCommand
  <2> QED
    BY <2>2, <2>4, <2>5, <2>6 DEF SignalType, EveryCommandHasReply
<1>2. CASE Publish
  <2>1. main = "listening" /\ main' = "publishing" /\ UNCHANGED <<worker, context>> /\ Sends(<<>>)
    BY <1>2 DEF Publish, Dispatching, NoArray
  <2>2. "main" \notin InCommand /\ InCommand' = InCommand \cup {"main"}
    BY <2>1, CommunicationAssumption DEF InCommand
  <2>3. <<>> \in Seq(Value)
    OBVIOUS
  <2>4. EveryCommandHasReply' /\ replies' \in Seq(Seq(Value))
    BY <2>1, <2>2, <2>3, EnterCommand
  <2> QED
    BY <1>2, <2>4 DEF Publish, SignalType
<1>3. CASE Published
  <2>1. PICK reply \in Offered : /\ main = "publishing" /\ main' = "listening"
                                 /\ UNCHANGED <<worker, context>> /\ Takes(reply)
    BY <1>3 DEF Published
  <2>2. "main" \in InCommand /\ InCommand' = InCommand \ {"main"}
    BY <2>1, CommunicationAssumption DEF InCommand
  <2>3. EveryCommandHasReply' /\ replies' \in Seq(Seq(Value))
    BY <2>1, <2>2, LeaveCommand
  <2> QED
    BY <1>3, <2>3 DEF Published, SignalType
<1>4. ASSUME NEW w \in Workers, AskRange(w) PROVE ReplyInv'
  <2> DEFINE project == Head(announced[w])
             r == [Idle EXCEPT !.at = "range", !.project = project]
  <2>1. /\ worker[w].at = "idle" /\ worker' = [worker EXCEPT ![w] = r]
        /\ Sends(First(MaxRange, list[project]))
        /\ announced[w] # <<>> /\ announced' = [announced EXCEPT ![w] = Tail(@)]
        /\ UNCHANGED <<list, context, pushed, main>>
    BY <1>4 DEF AskRange, connection
  <2>2. project \in Projects /\ announced' \in [Workers -> Seq(Projects)]
    BY <2>1 DEF SignalType
  <2>3. First(MaxRange, list[project]) \in Seq(Value)
    BY <2>2, FirstIsPrefix, CommunicationAssumption DEF SignalType
  <2>4. r \in WorkerRecord /\ r.at = "range" /\ r.project = project
    <3>1. <<>> \in Seq(Value)
      OBVIOUS
    <3> HIDE DEF project
    <3>2. Idle \in WorkerRecord
      BY <3>1 DEF WorkerRecord, Idle
    <3> QED
      BY <2>2, <3>2 DEF WorkerRecord, r
  <2>5. /\ worker' \in [Workers -> WorkerRecord]
        /\ \A v \in Workers : worker'[v].at # "idle" => worker'[v].project \in Projects
        /\ worker'[w] = r
        /\ \A v \in Workers : v # w => worker'[v] = worker[v]
    BY <2>1, <2>2, <2>4, WorkerMoves
  <2>6. w \notin InCommand /\ InCommand' = InCommand \cup {w}
    BY <2>1, <2>4, <2>5, CommunicationAssumption DEF InCommand
  <2>7. EveryCommandHasReply' /\ replies' \in Seq(Seq(Value))
    BY <2>1, <2>3, <2>6, EnterCommand
  <2> QED
    BY <2>1, <2>2, <2>5, <2>7 DEF SignalType
<1>5. ASSUME NEW w \in Workers, Ranged(w) PROVE ReplyInv'
  <2>1. PICK reply \in Offered :
        /\ worker[w].at = "range" /\ Takes(reply) /\ UNCHANGED <<list, announced, context, pushed, main>>
        /\ \/ worker' = [worker EXCEPT ![w].at = "post", ![w].got = reply]
           \/ worker' = [worker EXCEPT ![w] = Idle]
    BY <1>5 DEF Ranged, Rest, connection
  <2>2. worker[w] \in WorkerRecord /\ worker[w].project \in Projects
    BY <2>1 DEF SignalType
  <2>3. reply \in Seq(Value)
    BY OfferedType DEF SignalType
  <2>4. PICK r \in WorkerRecord : /\ r.at \notin {"range", "trim"}
                                  /\ r.at # "idle" => r.project \in Projects
                                  /\ worker' = [worker EXCEPT ![w] = r]
    <3>1. CASE worker' = [worker EXCEPT ![w].at = "post", ![w].got = reply]
      <4> DEFINE r == [worker[w] EXCEPT !.at = "post", !.got = reply]
      <4>1. r \in WorkerRecord /\ r.at = "post" /\ r.project = worker[w].project
        BY <2>2, <2>3 DEF WorkerRecord
      <4>2. worker' = [worker EXCEPT ![w] = r]
        BY <3>1
      <4> QED
        BY <2>2, <4>1, <4>2
    <3>2. CASE worker' = [worker EXCEPT ![w] = Idle]
      <4>1. Idle \in WorkerRecord /\ Idle.at = "idle"
        BY DEF Idle, WorkerRecord
      <4> QED
        BY <3>2, <4>1
    <3> QED
      BY <2>1, <3>1, <3>2
  <2>5. /\ worker' \in [Workers -> WorkerRecord]
        /\ \A v \in Workers : worker'[v].at # "idle" => worker'[v].project \in Projects
        /\ worker'[w] = r
        /\ \A v \in Workers : v # w => worker'[v] = worker[v]
    BY <2>4, WorkerMoves
  <2>6. w \in InCommand /\ InCommand' = InCommand \ {w}
    BY <2>1, <2>4, <2>5, CommunicationAssumption DEF InCommand
  <2>7. EveryCommandHasReply' /\ replies' \in Seq(Seq(Value))
    BY <2>1, <2>6, LeaveCommand
  <2> QED
    BY <2>1, <2>5, <2>7 DEF SignalType
<1>6. ASSUME NEW w \in Workers, Post(w) PROVE ReplyInv'
  <2> DEFINE project == worker[w].project
             r == [worker[w] EXCEPT !.at = "trim"]
  <2>1. /\ worker[w].at = "post" /\ worker' = [worker EXCEPT ![w].at = "trim"] /\ Sends(<<>>)
        /\ \/ Trim(project, Len(worker[w].got)) /\ context' = context
           \/ list' = list /\ context' = "broken"
        /\ UNCHANGED <<announced, pushed, main>>
    BY <1>6 DEF Post, Go, NoArray, connection
  <2>2. worker[w] \in WorkerRecord /\ project \in Projects /\ worker[w].got \in Seq(Value)
    BY <2>1 DEF SignalType, WorkerRecord
  <2>3. r \in WorkerRecord /\ r.at = "trim" /\ r.project = project /\ worker' = [worker EXCEPT ![w] = r]
    BY <2>1, <2>2 DEF WorkerRecord
  <2>4. /\ worker' \in [Workers -> WorkerRecord]
        /\ \A v \in Workers : worker'[v].at # "idle" => worker'[v].project \in Projects
        /\ worker'[w] = r
        /\ \A v \in Workers : v # w => worker'[v] = worker[v]
    BY <2>2, <2>3, WorkerMoves
  <2>5. w \notin InCommand /\ InCommand' = InCommand \cup {w}
    BY <2>1, <2>3, <2>4, CommunicationAssumption DEF InCommand
  <2>6. <<>> \in Seq(Value)
    OBVIOUS
  <2>7. replies' \in Seq(Seq(Value)) /\ (context' = context => EveryCommandHasReply')
    <3>1. CASE context' = context
      BY <2>1, <2>5, <2>6, <3>1, EnterCommand
    <3>2. replies' = replies \/ replies' = Append(replies, <<>>)
      BY <2>1 DEF Sends
    <3>3. replies' \in Seq(Seq(Value))
      BY <2>6, <3>2, RepliesType DEF SignalType
    <3> QED
      BY <3>1, <3>3
  <2>8. list' \in [Projects -> Seq(Value)]
    BY <2>1, <2>2, TrimmedType
  <2>9. context' = "broken" => EveryCommandHasReply'
    BY DEF EveryCommandHasReply
  <2> QED
    BY <2>1, <2>4, <2>7, <2>8, <2>9 DEF SignalType
<1>7. ASSUME NEW w \in Workers, PostFails(w) PROVE ReplyInv'
  <2>1. /\ worker[w].at = "post" /\ worker' = [worker EXCEPT ![w] = Idle]
        /\ UNCHANGED <<list, announced, context, replies, pushed, main>>
    BY <1>7 DEF PostFails, Rest, connection
  <2>2. Idle \in WorkerRecord /\ Idle.at = "idle"
    BY DEF Idle, WorkerRecord
  <2>3. /\ worker' \in [Workers -> WorkerRecord]
        /\ \A v \in Workers : worker'[v].at # "idle" => worker'[v].project \in Projects
        /\ worker'[w] = Idle
        /\ \A v \in Workers : v # w => worker'[v] = worker[v]
    BY <2>1, <2>2, WorkerMoves
  <2>4. InCommand' = InCommand
    BY <2>1, <2>2, <2>3 DEF InCommand
  <2>5. Cardinality(InCommand)' = Cardinality(InCommand)
    BY <2>4
  <2> QED
    BY <2>1, <2>3, <2>5 DEF SignalType, EveryCommandHasReply
<1>8. ASSUME NEW w \in Workers, Trimmed(w) PROVE ReplyInv'
  <2>1. PICK reply \in Offered :
        /\ worker[w].at = "trim" /\ Takes(reply) /\ worker' = [worker EXCEPT ![w] = Idle]
        /\ UNCHANGED <<list, announced, context, pushed, main>>
    BY <1>8 DEF Trimmed, Rest, connection
  <2>2. Idle \in WorkerRecord /\ Idle.at = "idle"
    BY DEF Idle, WorkerRecord
  <2>3. /\ worker' \in [Workers -> WorkerRecord]
        /\ \A v \in Workers : worker'[v].at # "idle" => worker'[v].project \in Projects
        /\ worker'[w] = Idle
        /\ \A v \in Workers : v # w => worker'[v] = worker[v]
    BY <2>1, <2>2, WorkerMoves
  <2>4. w \in InCommand /\ InCommand' = InCommand \ {w}
    BY <2>1, <2>2, <2>3, CommunicationAssumption DEF InCommand
  <2>5. EveryCommandHasReply' /\ replies' \in Seq(Seq(Value))
    BY <2>1, <2>4, LeaveCommand
  <2> QED
    BY <2>1, <2>3, <2>5 DEF SignalType
<1>9. CASE ConnectionNext \/ MakeNext \/ PsNext \/ RelayTests \/ RelaySends \/ UNCHANGED vars
  BY <1>9, IdleSteps, UndisturbedKeeps
<1>10. CASE ContextBreaks
  <2>1. UNCHANGED <<announced, worker, replies, pushed>> /\ context' = "broken"
    BY <1>10 DEF ContextBreaks
  <2>2. list' \in [Projects -> Seq(Value)]
    <3>1. CASE list' = list
      BY <3>1 DEF SignalType
    <3>2. CASE \E w \in Workers : worker[w].at = "trim" /\ Trim(worker[w].project, Len(worker[w].got))
      <4>1. PICK w \in Workers : worker[w].at = "trim" /\ Trim(worker[w].project, Len(worker[w].got))
        BY <3>2
      <4>2. worker[w].project \in Projects /\ worker[w].got \in Seq(Value)
        BY <4>1 DEF SignalType, WorkerRecord
      <4> QED
        BY <4>1, <4>2, TrimmedType
    <3> QED
      BY <1>10, <3>1, <3>2 DEF ContextBreaks
  <2> QED
    BY <2>1, <2>2 DEF SignalType, EveryCommandHasReply
<1> QED
  BY <1>1, <1>2, <1>3, <1>4, <1>5, <1>6, <1>7, <1>8, <1>9, <1>10 DEF Next, CommunicationNext, WorkerStep

\* At first no thread is in a command.
LEMMA ReplyInit == Init => ReplyInv
<1> SUFFICES ASSUME Init PROVE ReplyInv
  OBVIOUS
<1>1. SignalType
  BY DEF Init, CommunicationInit, SignalType, WorkerRecord, Idle
<1>2. InCommand = {}
  BY DEF Init, CommunicationInit, ConnectionInit, InCommand, Idle
<1>3. Len(replies) = 0
  BY DEF Init, CommunicationInit
<1> QED
  BY <1>1, <1>2, <1>3, FS_EmptySet DEF ReplyInv, EveryCommandHasReply

-----------------------------------------------------------------------------
(* Signals, where one thread handles the signals of one project *)

\* r is the beginning of l.
Begins(r, l) == Len(r) <= Len(l) /\ \A i \in 1..Len(r) : r[i] = l[i]

\* What a thread has read, or may still take for what it reads, is at the beginning of
\* the list until the thread removes it; a reply that is older than that is taken by
\* the time the thread, which waits for its own, goes on.  All this, while the context
\* is not broken.
SignalInv ==
  /\ ReplyInv
  /\ OnlyPostedIsTrimmed
  /\ context = "ok" => \A w \in Workers :
       /\ worker[w].at # "trim" =>
            \A p \in Projects : \A i \in 1..Len(replies) : Begins(replies[i], list[p])
       /\ worker[w].at = "post" => \A p \in Projects : Begins(worker[w].got, list[p])
       /\ worker[w].at = "trim" => replies # <<>> /\ replies[Len(replies)] = NoArray

LEMMA AppendBegins ==
  ASSUME NEW r \in Seq(Value), NEW l \in Seq(Value), NEW v \in Value, Begins(r, l)
  PROVE  Begins(r, Append(l, v))
<1>1. Len(Append(l, v)) = Len(l) + 1 /\ \A i \in 1..Len(l) : Append(l, v)[i] = l[i]
  OBVIOUS
<1>2. \A i \in 1..Len(r) : i \in 1..Len(l)
  BY DEF Begins
<1> QED
  BY <1>1, <1>2 DEF Begins

\* A reply that is sent, and the oldest reply that is taken.
LEMMA Appended ==
  ASSUME NEW s \in Seq(Seq(Value)), NEW r \in Seq(Value)
  PROVE  /\ Append(s, r) # <<>> /\ Append(s, r)[Len(Append(s, r))] = r
         /\ \A i \in 1..Len(Append(s, r)) : 
              (i \in 1..Len(s) /\ Append(s, r)[i] = s[i]) \/ Append(s, r)[i] = r
  OBVIOUS

LEMMA Tailed ==
  ASSUME NEW s \in Seq(Seq(Value)), s # <<>>
  PROVE  /\ Len(Tail(s)) = Len(s) - 1
         /\ \A i \in 1..Len(Tail(s)) : i + 1 \in 1..Len(s) /\ Tail(s)[i] = s[i + 1]
         /\ 1 \in 1..Len(s) /\ Head(s) = s[1]
  OBVIOUS

LEMMA NoArrayBegins == ASSUME NEW l \in Seq(Value) PROVE Begins(NoArray, l)
  BY DEF Begins, NoArray

\* The beginning of a list that is as long as what was read is what was read.
LEMMA FirstIsRead ==
  ASSUME NEW r \in Seq(Value), NEW l \in Seq(Value), Begins(r, l)
  PROVE  ValuesOf(First(Len(r), l)) = ValuesOf(r)
<1>1. /\ First(Len(r), l) \in Seq(Value)
      /\ Len(First(Len(r), l)) = Len(r)
      /\ \A i \in 1..Len(r) : First(Len(r), l)[i] = l[i]
  <2>1. Len(r) \in Nat /\ Len(l) \in Nat /\ Len(r) <= Len(l)
    BY DEF Begins
  <2>2. Len(First(Len(r), l)) = Len(r)
    BY <2>1, FirstIsPrefix
  <2> QED
    BY <2>1, <2>2, FirstIsPrefix
<1>2. \A i \in 1..Len(r) : First(Len(r), l)[i] = r[i]
  BY <1>1 DEF Begins
<1>3. DOMAIN First(Len(r), l) = 1..Len(r) /\ DOMAIN r = 1..Len(r)
  BY <1>1
<1> QED
  BY <1>2, <1>3 DEF ValuesOf

\* The thread that waits for LTRIM, and the main thread if it publishes.
LEMMA FewReplies ==
  ASSUME ReplyInv, context = "ok", NEW w, Workers = {w}, worker[w].at = "trim"
  PROVE  Len(replies) = IF main = "publishing" THEN 2 ELSE 1
<1>1. CASE main = "publishing"
  <2>1. InCommand = {w} \cup {"main"}
    BY <1>1 DEF InCommand
  <2>2. IsFiniteSet({w}) /\ Cardinality({w}) = 1
    BY FS_Singleton
  <2>3. "main" \notin {w}
    BY CommunicationAssumption
  <2>4. Cardinality({w} \cup {"main"}) = Cardinality({w}) + 1
    BY <2>2, <2>3, FS_AddElement
  <2>5. Cardinality(InCommand) = Cardinality({w} \cup {"main"})
    BY <2>1, Zenon
  <2>6. Cardinality(InCommand) = 2
    BY <2>2, <2>4, <2>5
  <2> QED
    BY <1>1, <2>6 DEF ReplyInv, EveryCommandHasReply
<1>2. CASE main # "publishing"
  <2>1. InCommand = {w}
    BY <1>2 DEF InCommand
  <2> QED
    BY <1>2, <2>1, FS_Singleton DEF ReplyInv, EveryCommandHasReply
<1> QED
  BY <1>1, <1>2

\* A context that is broken stays so.
LEMMA StaysBroken == ASSUME ReplyInv, [Next]_vars, context' = "ok" PROVE context = "ok"
<1>1. CASE CommunicationNext
  BY <1>1 DEF CommunicationNext, Push, Publish, Published, RelayTests, RelaySends, WorkerStep, AskRange,
     Ranged, Post, PostFails, Trimmed, ContextBreaks
<1>2. CASE ConnectionNext \/ MakeNext \/ PsNext \/ UNCHANGED vars
  BY <1>2, IdleSteps DEF Undisturbed
<1> QED
  BY <1>1, <1>2 DEF Next

\* Every step of one thread and of one project, among all those of the server.
LEMMA SignalStep ==
  ASSUME NEW w, Workers = {w}, NEW p, Projects = {p}, SignalInv, [Next]_vars
  PROVE  SignalInv'
<1>1. ReplyInv'
  BY ReplyStep DEF SignalInv
<1> SUFFICES ASSUME context' = "ok"
             PROVE  /\ OnlyPostedIsTrimmed'
                    /\ worker'[w].at # "trim" => \A i \in 1..Len(replies') : Begins(replies'[i], list'[p])
                    /\ worker'[w].at = "post" => Begins(worker'[w].got, list'[p])
                    /\ worker'[w].at = "trim" => replies' # <<>> /\ replies'[Len(replies')] = NoArray
  BY <1>1 DEF SignalInv, NoArray, OnlyPostedIsTrimmed
<1>0. context = "ok" /\ ~ContextBreaks
  BY StaysBroken DEF ContextBreaks, SignalInv, ReplyInv
<1>2. /\ SignalType /\ OnlyPostedIsTrimmed
      /\ worker[w].at # "trim" => \A i \in 1..Len(replies) : Begins(replies[i], list[p])
      /\ worker[w].at = "post" => Begins(worker[w].got, list[p])
      /\ worker[w].at = "trim" => replies # <<>> /\ replies[Len(replies)] = NoArray
  BY <1>0 DEF SignalInv, ReplyInv
<1>3. /\ replies \in Seq(Seq(Value)) /\ list[p] \in Seq(Value)
      /\ worker[w] \in WorkerRecord
      /\ worker[w].got \in Seq(Value)
      /\ worker[w].at # "idle" => worker[w].project = p
  BY <1>2 DEF SignalType, WorkerRecord
<1>4. \A i \in 1..Len(replies) : replies[i] \in Seq(Value)
  BY <1>3
<1> USE <1>0
<1>5. CASE Push(p)
  <2>1. PICK valid \in BOOLEAN :
          list' = [list EXCEPT ![p] = Append(@, [of |-> p, n |-> pushed', valid |-> valid])]
    BY <1>5 DEF Push
  <2> DEFINE v == [of |-> p, n |-> pushed', valid |-> valid]
  <2>2. v \in Value
    BY <1>2, <1>5 DEF Push, Value, SignalType
  <2>3. list'[p] = Append(list[p], v)
    BY <1>2, <2>1 DEF SignalType
  <2>4. UNCHANGED <<worker, replies, posted, trimmed>>
    BY <1>5 DEF Push
  <2> HIDE DEF v
  <2>5. \A r \in Seq(Value) : Begins(r, list[p]) => Begins(r, list'[p])
    BY <1>3, <2>2, <2>3, AppendBegins
  <2> QED
    BY <1>2, <1>3, <1>4, <2>4, <2>5 DEF OnlyPostedIsTrimmed
<1>6. CASE Publish
  <2>1. UNCHANGED <<list, worker, posted, trimmed>> /\ replies' = Append(replies, NoArray) /\ NoArray \in Seq(Value)
    BY <1>6, <1>0 DEF Publish, Sends, NoArray
  <2>2. Begins(NoArray, list[p])
    BY <1>3, NoArrayBegins
  <2> QED
    BY <1>2, <1>3, <2>1, <2>2, Appended DEF OnlyPostedIsTrimmed
<1>7. CASE Published
  <2>1. /\ UNCHANGED <<list, worker, posted, trimmed>> /\ main = "publishing"
        /\ replies # <<>> /\ replies' = Tail(replies)
    BY <1>7, <1>0 DEF Published, Takes
  <2>2. worker[w].at = "trim" => Len(replies) = 2
    BY <2>1, FewReplies DEF SignalInv
  <2>3. worker[w].at = "trim" => Len(replies') = 1 /\ replies'[1] = replies[2] /\ replies' # <<>>
    <3>1. /\ Len(Tail(replies)) = Len(replies) - 1
          /\ \A i \in 1..Len(Tail(replies)) : Tail(replies)[i] = replies[i + 1]
      BY <1>3, <2>1, Tailed
    <3>2. CASE Len(replies) = 2
      <4>1. Len(replies') = 1
        BY <2>1, <3>1, <3>2
      <4>2. Tail(replies)[1] = replies[2]
        <5>1. 1 \in 1..Len(Tail(replies))
          BY <3>1, <3>2
        <5> QED
          BY <3>1, <5>1
      <4>3. replies' # <<>>
        BY <4>1
      <4>4. replies'[1] = replies[2]
        BY <2>1, <4>2, Zenon
      <4> QED
        BY <4>1, <4>3, <4>4
    <3> QED
      BY <2>2, <3>2
  <2>4. worker[w].at # "trim" => \A i \in 1..Len(replies') : Begins(replies'[i], list[p])
    BY <1>2, <1>3, <2>1, Tailed
  <2>5. worker[w].at = "trim" => replies' # <<>> /\ replies'[Len(replies')] = NoArray
    BY <1>2, <2>2, <2>3
  <2> QED
    BY <1>2, <2>1, <2>4, <2>5 DEF OnlyPostedIsTrimmed
<1>8. CASE AskRange(w)
  <2>1. /\ UNCHANGED <<list, posted, trimmed>> /\ worker[w].at = "idle"
        /\ worker' = [worker EXCEPT ![w] = [Idle EXCEPT !.at = "range", !.project = Head(announced[w])]]
        /\ replies' = Append(replies, First(MaxRange, list[Head(announced[w])]))
        /\ announced[w] # <<>>
    BY <1>8, <1>0 DEF AskRange, Sends
  <2>2. Head(announced[w]) = p
    BY <1>2, <2>1 DEF SignalType
  <2>3. worker'[w].at = "range"
    BY <1>2, <2>1 DEF SignalType, Idle
  <2> DEFINE r == First(MaxRange, list[p])
  <2>4. r \in Seq(Value) /\ Begins(r, list[p])
    BY <1>3, CommunicationAssumption, FirstIsPrefix DEF Begins
  <2>5. replies' = Append(replies, r)
    BY <2>1, <2>2
  <2> HIDE DEF r
  <2>6. \A i \in 1..Len(replies') : Begins(replies'[i], list[p])
    BY <1>2, <1>3, <2>1, <2>4, <2>5, Appended
  <2> QED
    BY <1>2, <2>1, <2>3, <2>6 DEF OnlyPostedIsTrimmed
<1>9. CASE Ranged(w)
  <2>1. /\ UNCHANGED <<list, posted, trimmed>> /\ worker[w].at = "range"
        /\ replies # <<>> /\ replies' = Tail(replies)
        /\ \/ worker' = [worker EXCEPT ![w].at = "post", ![w].got = Head(replies)]
           \/ worker' = [worker EXCEPT ![w] = Idle]
    BY <1>9, <1>0 DEF Ranged, Rest, Takes
  <2>2. Begins(Head(replies), list[p])
    BY <1>2, <1>3, <2>1, Tailed
  <2>3. /\ worker'[w].at \in {"post", "idle"}
        /\ worker'[w].at = "post" => worker'[w].got = Head(replies)
    BY <1>2, <1>3, <2>1 DEF SignalType, WorkerRecord, Idle
  <2>4. \A i \in 1..Len(replies') : Begins(replies'[i], list[p])
    BY <1>2, <1>3, <2>1, Tailed
  <2> QED
    BY <1>2, <2>1, <2>2, <2>3, <2>4 DEF OnlyPostedIsTrimmed
<1>10. CASE Post(w)
  <2> DEFINE got == worker[w].got
             gone == First(Len(got), list[p])
  <2>1. /\ worker[w].at = "post" /\ worker[w].project = p
        /\ posted' = posted \cup Posting(w)
        /\ trimmed' = trimmed \cup ValuesOf(gone)
        /\ worker' = [worker EXCEPT ![w].at = "trim"]
        /\ replies' = Append(replies, NoArray)
    BY <1>3, <1>10, <1>0 DEF Post, Trim, Go, Sends
  <2>2. worker'[w].at = "trim"
    BY <1>2, <1>3, <2>1 DEF SignalType, WorkerRecord
  <2>3. ValuesOf(gone) = ValuesOf(got)
    BY <1>2, <1>3, <2>1, FirstIsRead
  <2> HIDE DEF gone
  <2>4. ASSUME NEW v \in ValuesOf(got), v.valid PROVE \E post \in posted' : post.value = v
    <3>1. [project |-> p, value |-> v] \in Posting(w)
      BY <2>1, <2>4 DEF Posting
    <3> QED
      BY <2>1, <3>1
  <2>5. OnlyPostedIsTrimmed'
    BY <1>2, <2>1, <2>3, <2>4 DEF OnlyPostedIsTrimmed
  <2>6. NoArray \in Seq(Value)
    BY DEF NoArray
  <2>7. replies' # <<>> /\ replies'[Len(replies')] = NoArray
    BY <1>3, <2>1, <2>6, Appended
  <2> QED
    BY <2>2, <2>5, <2>7
<1>11. CASE PostFails(w)
  <2>1. /\ UNCHANGED <<list, replies, trimmed>> /\ worker[w].at = "post"
        /\ posted \subseteq posted' /\ worker' = [worker EXCEPT ![w] = Idle]
    BY <1>11 DEF PostFails, Rest
  <2>2. worker'[w].at = "idle"
    BY <1>2, <2>1 DEF SignalType, Idle
  <2> QED
    BY <1>2, <2>1, <2>2 DEF OnlyPostedIsTrimmed
<1>12. CASE Trimmed(w)
  <2>1. /\ UNCHANGED <<list, posted, trimmed>> /\ worker[w].at = "trim"
        /\ replies # <<>> /\ replies' = Tail(replies) /\ worker' = [worker EXCEPT ![w] = Idle]
    BY <1>12, <1>0 DEF Trimmed, Rest, Takes
  <2>2. Len(replies) \in {1, 2}
    BY <2>1, FewReplies DEF SignalInv
  <2>3. \A i \in 1..Len(replies') : i = 1 /\ Len(replies) = 2 /\ replies'[i] = replies[2]
    BY <1>3, <2>1, <2>2, Tailed
  <2>4. \A i \in 1..Len(replies') : replies'[i] = NoArray
    BY <1>2, <2>1, <2>3
  <2>5. \A i \in 1..Len(replies') : Begins(replies'[i], list[p])
    BY <1>3, <2>4, NoArrayBegins
  <2>6. worker'[w].at = "idle"
    BY <1>2, <2>1 DEF SignalType, Idle
  <2> QED
    BY <1>2, <2>1, <2>5, <2>6 DEF OnlyPostedIsTrimmed
<1>13. CASE ConnectionNext \/ MakeNext \/ PsNext \/ RelayTests \/ RelaySends \/ UNCHANGED vars
  <2>1. UNCHANGED <<list, worker, replies, posted, trimmed>>
    BY <1>13, IdleSteps DEF Undisturbed
  <2> QED
    BY <1>2, <2>1 DEF OnlyPostedIsTrimmed
<1> QED
  BY <1>5, <1>6, <1>7, <1>8, <1>9, <1>10, <1>11, <1>12, <1>13 DEF Next, CommunicationNext, WorkerStep

\* No signal is removed from its list before the web server has got it
\* (onWyliodrinMessage in communication.c): where one thread handles the signals of one
\* project, for any number of signals and of values read at once.
THEOREM PostedCorrect ==
  ASSUME NEW w, Workers = {w}, NEW p, Projects = {p}
  PROVE  Spec => []OnlyPostedIsTrimmed
<1>1. Init => SignalInv
  <2> SUFFICES ASSUME Init PROVE SignalInv
    OBVIOUS
  <2>1. ReplyInv
    BY ReplyInit
  <2>2. replies = <<>> /\ trimmed = {} /\ \A v \in Workers : worker[v].at = "idle"
    BY DEF Init, CommunicationInit, Idle
  <2> QED
    BY <2>1, <2>2 DEF SignalInv, OnlyPostedIsTrimmed
<1>2. SignalInv /\ [Next]_vars => SignalInv'
  BY SignalStep
<1>3. SignalInv => OnlyPostedIsTrimmed
  BY DEF SignalInv
<1> QED
  BY <1>1, <1>2, <1>3, PTL DEF Spec
=============================================================================
