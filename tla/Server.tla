-------------------------------- MODULE Server --------------------------------
(***************************************************************************)
(* The server: its main thread, which runs the event loop and the handlers *)
(* (XmppConnection), and the threads they start: those of the builds       *)
(* (Make), of the task manager (Ps) and of redis (Communication).          *)
(***************************************************************************)
EXTENDS Make, Ps, Communication

vars == <<connection, crashed, events, builds, tasks, signals>>

Init == ConnectionInit /\ MakeInit /\ PsInit /\ CommunicationInit

ConnectionNext ==
  /\ \/ NewConnection
     \/ Attempt
     \/ Connected
     \/ ConnectionError
     \/ SignalFiles
     \/ FilesAnswer
     \/ Release
     \/ Forget
     \/ OwnerComes
     \/ OwnerLeaves
  /\ UNCHANGED <<builds, tasks, signals>>

MakeNext ==
  /\ \/ BuildWithoutRequest
     \/ OtherOpens
     \/ \E d \in Descriptors : OtherCloses(d)
     \/ \E b \in Builds : Build(b) \/ ThreadStep(b) \/ ChildStep(b) \/ ChildWrites(b)
     \/ \E p \in Pipes : ReaderStep(p) \/ FileAnswers(p)
  /\ UNCHANGED <<tasks, signals>>

PsNext ==
  /\ \/ ps_send
     \/ ps_stop
     \/ \E s \in Senders : SenderStep(s) \/ ProcessIsGone(s)
  /\ UNCHANGED <<builds, signals>>

CommunicationNext ==
  /\ \/ \E p \in Projects : Push(p)
     \/ Publish
     \/ Published
     \/ RelayTests
     \/ RelaySends
     \/ \E w \in Workers : WorkerStep(w) \/ PostFails(w)
     \/ ContextBreaks
  /\ UNCHANGED <<builds, tasks>>

\* Nothing runs once the process has ended.
Running == crashed = "no"

Next == Running /\ (ConnectionNext \/ MakeNext \/ PsNext \/ CommunicationNext)

Spec == Init /\ [][Next]_vars

\* The threads run.  Neither the owner, the programs, redis nor the network need do
\* anything, and a file of another part of the server may let a reader wait for ever;
\* but a connection that was lost is given up, and the next attempt is made.
Threads ==
  /\ WF_vars(Running /\ (NewConnection \/ Attempt \/ SignalFiles \/ Release \/ Forget) /\ UNCHANGED <<builds, tasks, signals>>)
  /\ \A b \in Builds :
       WF_vars(Running /\ (ThreadStep(b) \/ ChildStep(b)) /\ UNCHANGED <<tasks, signals>>)
  /\ \A p \in Pipes : WF_vars(Running /\ ReaderStep(p) /\ UNCHANGED <<tasks, signals>>)
  /\ \A s \in Senders : WF_vars(Running /\ SenderStep(s) /\ UNCHANGED <<builds, signals>>)

FairSpec == Spec /\ Threads

-----------------------------------------------------------------------------
(* Properties *)

\* The flag that every thread tests before it uses the connection is only true
\* while the connection is there and its handlers run (wxmpp.c), and the owner is
\* only online on such a connection, however often it is lost in between.
FlagsMatchConnection ==
  /\ is_xmpp_connection_set => global_conn \in live /\ main \in {"listening", "publishing", "waiting"}
  /\ is_owner_online => is_xmpp_connection_set

\* While keep_sending is true there is a thread that lists the processes (ps.c):
\* a second command to send, which is ignored, would otherwise never be served.
SendingHasSender == keep_sending => \E s \in Senders : sender[s].at # "none"

\* What a build did not write is sent under its request only by a reader that outlived
\* its own pipe (make.c): a block of another build only if that build made its pipes
\* after some of the reader's were closed, for it reads a number that now is theirs; the
\* bytes of another file only if the pipe of the reader itself is closed.
MixedOnlyByReuse ==
  /\ \A p \in Pipes : \A i \in DOMAIN sent[p] :
       LET of == sent[p][i].of[1]
       IN  of # p[1] => p[1] \in build[of].after
  /\ \A p \in stray : p \in build[p[1]].closed

\* Of what a build writes on an output, each reader sends what it gets in order and
\* once, and never before it was written (out_read_thread), whichever pipes it reads.
OutputInOrder ==
  \A p \in Pipes : \A i \in DOMAIN sent[p] :
    /\ sent[p][i].n <= written[sent[p][i].of]
    /\ \A j \in DOMAIN sent[p] :
         i < j /\ sent[p][i].of = sent[p][j].of => sent[p][i].n < sent[p][j].n

\* No signal leaves the list of its project before it was posted to the web server
\* (onWyliodrinMessage), but for those that are not valid and are skipped, unless two
\* threads that were in redisCommand at once broke the context.  So it is where one
\* thread handles the signals of one project: the main thread may take the reply of that
\* thread, or leave its own to it, and among several projects the wrong list is trimmed.
OnlyPostedIsTrimmed ==
  context = "ok" => \A v \in trimmed : v.valid => \E post \in posted : post.value = v

\* A reader reads, or sends what it has read of, a file that is no pipe of a build.
Astray(p) ==
  \/ reader[p].at \in {"strayed", "passing"}
  \/ reader[p].at = "ready" /\ table[reader[p].fd] = OtherFile

\* A build that the owner asked for ends, for its readers empty its pipes while its
\* child waits to write, and then the readers end, for the lack of a descriptor (the
\* comment at make.c:272 expects it), though they may have read another's by then; those
\* do not end whose number another part of the server has taken for a file that stays.
BuildsEnd ==
  \A b \in Builds :
    build[b].at = "asked"
      ~> \/ ~Running
         \/ /\ build[b].at = "closed"
            /\ \A p \in Pipes : p[1] = b => reader[p].at = "ended" \/ Astray(p)

\* After a stop every thread that lists the processes ends, unless it is started
\* again (ps.c).
StopEndsSenders ==
  ~keep_sending ~> keep_sending \/ ~Running \/ \A s \in Senders : sender[s].at = "none"

\* A connection that is lost is made again (xmpp_connect), until the bound is reached
\* and except on the board "server", and unless an answer to files.c that lacked an
\* attribute had left its mutex locked: then the handler waits for it for ever.
LostIsRetried ==
  main = "locking"
    ~> \/ main = "listening" \/ ~Running
       \/ (main = "start" /\ made = MaxConnections) \/ ~Retries
       \/ mutex_kept

\* When the reader of an output, which has sent the beginning of it, has ended, it
\* has sent all that the build wrote (docs/source/makemodule.rst:21).  It need not
\* have: the pipe is closed while the reader sends.
OutputIsSent ==
  \A p \in Pipes : reader[p].at = "ended" /\ sent[p] # <<>> => content[p] = <<>>
=============================================================================
