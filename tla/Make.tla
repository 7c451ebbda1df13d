--------------------------------- MODULE Make ---------------------------------
(***************************************************************************)
(* Builds (make.c).  A build has a thread that makes three pipes, starts a *)
(* reader thread on each, forks the child that runs make, waits for it and *)
(* closes the pipes.  The readers know a pipe by the number of its         *)
(* descriptor, which the next pipe takes once it is closed; a reader that  *)
(* already waits keeps the pipe it waits on.  The rest of the process      *)
(* opens files and sockets too (/proc, redis, XMPP, HTTP), and a number    *)
(* may come to stand for one of those.  Of the pipes only the reading ends *)
(* have numbers here; who holds a writing end is in writers, and a number  *)
(* that it takes is as good as closed for a reader: read() fails on it.    *)
(***************************************************************************)
EXTENDS XmppConnection

CONSTANTS
  Builds,     \* the requests of the owner
  BuildCost,  \* how much of the bound on events a build takes
  Pipes,      \* the pipes that are followed: <<build, stream>>
  MaxOutput,  \* how many blocks a build writes on each of its outputs
  PipeSize,   \* how many blocks a pipe holds
  MaxOthers   \* how many files of others are open at once

ASSUME MakeAssumption ==
  /\ Pipes \subseteq Builds \X {"stdout", "stderr", "status"}
  /\ \A b \in Builds : <<b, "status">> \in Pipes
  /\ IsFiniteSet(Pipes)
  /\ BuildCost \in Nat
  /\ MaxOutput \in Nat
  /\ PipeSize \in Nat \ {0}
  /\ MaxOthers \in Nat

NoPipe == <<>>
OtherFile == <<"another", "file">>  \* of the server, but no pipe of a build
Server == "server"

\* The pipes of a build, in the order in which they are made and closed.
Its(b) == {p \in Pipes : p[1] = b}
Rank == [stdout |-> 1, stderr |-> 2, status |-> 3]
Before(p, q) == Rank[p[2]] < Rank[q[2]]

VARIABLES
  build,   \* Builds -> [at, conn, after, closed]: after is the builds that closed pipes before it made its own, closed is those it has closed
  table,   \* the descriptors: number -> the pipe it reads, OtherFile or NoPipe
  content, \* Pipes -> the blocks in it
  writers, \* Pipes -> who holds its writing end
  written, \* Pipes -> how many blocks were written
  reader,  \* Pipes -> [at, fd, on, block]
  sent,    \* Pipes -> the blocks of builds its reader has sent to the owner
  stray    \* the pipes whose readers have sent something of another file

builds == <<build, table, content, writers, written, reader, sent, stray>>

Descriptors == 1..(Cardinality(Pipes) + MaxOthers)
NoBlock == [of |-> NoPipe, n |-> 0]
NoReader == [at |-> "none", fd |-> 0, on |-> NoPipe, block |-> NoBlock]

MakeInit ==
  /\ build = [b \in Builds |-> [at |-> "none", conn |-> 0, after |-> {}, closed |-> {}]]
  /\ table = [d \in Descriptors |-> NoPipe]
  /\ content = [p \in Pipes |-> <<>>]
  /\ writers = [p \in Pipes |-> {}]
  /\ written = [p \in Pipes |-> 0]
  /\ reader = [p \in Pipes |-> NoReader]
  /\ sent = [p \in Pipes |-> <<>>]
  /\ stray = {}

Advance(b, from, to) ==
  /\ build[b].at = from
  /\ build' = [build EXCEPT ![b].at = to]

-----------------------------------------------------------------------------
(* make() *)

Build(b) ==
  /\ Dispatching
  /\ Spend(BuildCost)
  /\ build[b].at = "none"
  /\ build' = [build EXCEPT ![b] = [at |-> "asked", conn |-> global_conn, after |-> {}, closed |-> {}]]
  /\ UNCHANGED <<table, content, writers, written, reader, sent, stray, connection, crashed>>

\* A request that lacks its number (or, without FUSE, its address) is copied all the same.
BuildWithoutRequest ==
  /\ Dispatching
  /\ Event
  /\ crashed' = "attribute"
  /\ UNCHANGED <<builds, connection>>

-----------------------------------------------------------------------------
(* fork_thread *)

Free == {d \in Descriptors : table[d] = NoPipe}

\* The pipes of a build take the lowest numbers, in the order they are made.
Lowest(b, number) ==
  /\ \A p, q \in Its(b) : Before(p, q) => number[p] < number[q]
  /\ \A p \in Its(b), d \in Free : d < number[p] => \E q \in Its(b) : number[q] = d

\* The builds some pipe of which is closed.
Closing == {b \in Builds : build[b].closed # {}}

\* Another part of the server opens a file or a socket, which takes the lowest number,
\* and closes it.
OtherOpens ==
  /\ RareEvent
  /\ Cardinality({d \in Descriptors : table[d] = OtherFile}) < MaxOthers
  /\ \E d \in Free :
       /\ \A e \in Free : d <= e
       /\ table' = [table EXCEPT ![d] = OtherFile]
  /\ UNCHANGED <<build, content, writers, written, reader, sent, stray, connection, crashed>>

OtherCloses(d) ==
  /\ table[d] = OtherFile
  /\ table' = [table EXCEPT ![d] = NoPipe]
  /\ UNCHANGED <<build, content, writers, written, reader, sent, stray, connection, crashed, events>>

\* The pipes and, on each, the thread that reads it.
OpenPipes(b) ==
  /\ build[b].at = "asked"
  /\ build' = [build EXCEPT ![b].at = "piped", ![b].after = Closing]
  /\ \E number \in [Its(b) -> Free] :
       /\ Lowest(b, number)
       /\ table' = [d \in Descriptors |->
                      IF \E p \in Its(b) : number[p] = d
                      THEN CHOOSE p \in Its(b) : number[p] = d ELSE table[d]]
       /\ reader' = [p \in Pipes |->
                       IF p \in Its(b) THEN [NoReader EXCEPT !.at = "ready", !.fd = number[p]]
                       ELSE reader[p]]
  /\ writers' = [p \in Pipes |-> IF p \in Its(b) THEN {Server} ELSE writers[p]]
  /\ UNCHANGED <<content, written, sent, stray, connection, crashed, events>>

\* Wrong: the server closes the reading ends it has given to its readers.
ForkCloses(b) ==
  /\ Advance(b, "piped", "running")
  /\ writers' = [p \in Pipes |-> IF Server \in writers[p] THEN writers[p] \cup {b} ELSE writers[p]]
  /\ table' = [d \in Descriptors |-> IF table[d] \in Its(b) THEN NoPipe ELSE table[d]]
  /\ UNCHANGED <<content, written, reader, sent, stray, connection, crashed, events>>

\* The child holds a copy of every writing end the server has open.
Fork(b) ==
  /\ Advance(b, "piped", "running")
  /\ writers' = [p \in Pipes |-> IF Server \in writers[p] THEN writers[p] \cup {b} ELSE writers[p]]
  /\ UNCHANGED <<table, content, written, reader, sent, stray, connection, crashed, events>>

Put(p) ==
  /\ Len(content[p]) < PipeSize
  /\ written' = [written EXCEPT ![p] = @ + 1]
  /\ content' = [content EXCEPT ![p] = Append(@, [of |-> p, n |-> written[p] + 1])]

\* The child: make writes on its outputs, and waits while the pipe is full.
Output(b, s) ==
  /\ build[b].at = "running"
  /\ <<b, s>> \in Pipes
  /\ written[<<b, s>>] < MaxOutput
  /\ Put(<<b, s>>)
  /\ UNCHANGED <<build, table, writers, reader, sent, stray, connection, crashed, events>>

\* The child writes the status of make, and ends.
WriteStatus(b) ==
  /\ Advance(b, "running", "written")
  /\ Put(<<b, "status">>)
  /\ UNCHANGED <<table, writers, reader, sent, stray, connection, crashed, events>>

Exit(b) ==
  /\ Advance(b, "written", "exited")
  /\ writers' = [p \in Pipes |-> writers[p] \ {b}]
  /\ UNCHANGED <<table, content, written, reader, sent, stray, connection, crashed, events>>

\* The pipe of a build that is closed next.
IsNext(b, p) ==
  /\ p \notin build[b].closed
  /\ \A q \in Its(b) : Before(q, p) => q \in build[b].closed

Closes(b, p) ==
  build' = [build EXCEPT ![b].closed = @ \cup {p},
                         ![b].at = IF Its(b) \subseteq build[b].closed \cup {p} THEN "closed" ELSE "closing"]

\* Wrong: only the writing ends are closed.
CloseWriting(b) ==
  /\ build[b].at \in {"exited", "closing"}
  /\ \E p \in Its(b) :
       /\ IsNext(b, p)
       /\ writers' = [writers EXCEPT ![p] = @ \ {Server}]
       /\ Closes(b, p)
  /\ UNCHANGED <<table, content, written, reader, sent, stray, connection, crashed, events>>

\* waitpid returned: the thread closes both ends of each pipe, in order.
Close(b) ==
  /\ build[b].at \in {"exited", "closing"}
  /\ \E p \in Its(b) :
       /\ IsNext(b, p)
       /\ table' = [d \in Descriptors |-> IF table[d] = p THEN NoPipe ELSE table[d]]
       /\ writers' = [writers EXCEPT ![p] = @ \ {Server}]
       /\ Closes(b, p)
  /\ UNCHANGED <<content, written, reader, sent, stray, connection, crashed, events>>

-----------------------------------------------------------------------------
(* out_read_thread, err_read_thread and status_read_thread *)

\* read() on a number that is no descriptor fails, and ends the thread.
ReaderReads(p) ==
  /\ reader[p].at = "ready"
  /\ LET on == table[reader[p].fd]
     IN  reader' = [reader EXCEPT ![p] =
                      CASE on = NoPipe    -> [@ EXCEPT !.at = "ended"]
                        [] on = OtherFile -> [@ EXCEPT !.at = "strayed"]
                        [] OTHER          -> [@ EXCEPT !.at = "waiting", !.on = on]]
  /\ UNCHANGED <<build, table, content, writers, written, sent, stray, connection, crashed, events>>

ReaderGets(p) ==
  LET q == reader[p].on
  IN  /\ reader[p].at = "waiting"
      /\ content[q] # <<>>
      /\ content' = [content EXCEPT ![q] = Tail(@)]
      /\ reader' = [reader EXCEPT ![p].at = "sending", ![p].on = NoPipe, ![p].block = Head(content[q])]
      /\ UNCHANGED <<build, table, writers, written, sent, stray, connection, crashed, events>>

\* read() returned 0, which is neither data nor an error.
ReaderAtEnd(p) ==
  LET q == reader[p].on
  IN  /\ reader[p].at = "waiting"
      /\ content[q] = <<>>
      /\ writers[q] = {}
      /\ reader' = [reader EXCEPT ![p].at = "ready", ![p].on = NoPipe]
      /\ UNCHANGED <<build, table, content, writers, written, sent, stray, connection, crashed, events>>

\* What another file makes of a read: it gives bytes, its end or an error, or lets the
\* reader wait, as a socket may for ever.  Who should have got the bytes does not.
FileAnswers(p) ==
  /\ reader[p].at = "strayed"
  /\ \E at \in {"passing", "ready", "ended"} : reader' = [reader EXCEPT ![p].at = at]
  /\ UNCHANGED <<build, table, content, writers, written, sent, stray, connection, crashed, events>>

\* The bytes of another file are sent to the owner as what the build wrote.
ReaderPasses(p) ==
  /\ reader[p].at = "passing"
  /\ Use(build[p[1]].conn)
  /\ stray' = stray \cup {p}
  /\ reader' = [reader EXCEPT ![p].at = "ready"]
  /\ UNCHANGED <<build, table, content, writers, written, sent, connection, events>>

\* Wrong: what is sent on a connection that is lost is sent again.
ReaderSendsAgain(p) ==
  /\ reader[p].at = "sending"
  /\ Len(sent[p]) < 3
  /\ Use(build[p[1]].conn)
  /\ sent' = [sent EXCEPT ![p] = Append(@, reader[p].block)]
  /\ reader' = IF build[p[1]].conn = global_conn
               THEN [reader EXCEPT ![p].at = "ready", ![p].block = NoBlock] ELSE reader
  /\ UNCHANGED <<build, table, content, writers, written, stray, connection, events>>

ReaderSends(p) ==
  /\ reader[p].at = "sending"
  /\ Use(build[p[1]].conn)
  /\ sent' = [sent EXCEPT ![p] = Append(@, reader[p].block)]
  /\ reader' = [reader EXCEPT ![p].at = "ready", ![p].block = NoBlock]
  /\ UNCHANGED <<build, table, content, writers, written, stray, connection, events>>

ReaderStep(p) == ReaderReads(p) \/ ReaderGets(p) \/ ReaderAtEnd(p) \/ ReaderSends(p) \/ ReaderPasses(p)

ThreadStep(b) == OpenPipes(b) \/ Fork(b) \/ Close(b)

ChildStep(b) == WriteStatus(b) \/ Exit(b)

ChildWrites(b) == \E s \in {"stdout", "stderr"} : Output(b, s)
=============================================================================
