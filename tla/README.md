# A TLA+ model of wyliodrin-server

This directory holds TLA+ specifications of the two daemons of this repository,
the configurations with which TLC checks them, and proofs that TLAPS checks.
Names in the modules are those of the code wherever TLA+ allows it.

## 1. The system

A board runs two processes.

* **wyliodrind** (`wtalk.c`, `wxmpp/`) talks XMPP with the *owner*, the program
  in the cloud that a user works with.  One thread runs the XMPP event loop and
  calls, for each stanza, the module it is meant for.
* **wyliodrin_hypervisor** (`hypervisor/`) opens the shells and runs the
  projects of the user.  It is a process of its own so that they survive a
  restart of the server.

The two exchange MessagePack maps over the redis channels `wsrvhyp` (server to
hypervisor) and `whypsrv` (back), `docs/redis-hypervisor-protocol.md`.

| component | code (lines) | state | operations | threads and hazards |
|---|---|---|---|---|
| hypervisor shells | `hypervisor/shells/shells.c` (1200) | `shells_vector`, the `shell_t`s, mutex, project files in `/tmp/wyliodrin` | open, close, keys, status, poweroff, disconnect, resize; reader of each shell | the redis subscriber and one reader per shell; slots read outside the mutex, files written outside it, restarts, an error path that keeps the mutex |
| files | `files/files.c` (538) | four flags, condition variable, mutex, last answer of each kind | FUSE getattr, readdir, open, read; answers `attributes`, `list`, `read` | FUSE thread and XMPP thread; flags cleared outside the mutex, late or lost answers, lost connections |
| XMPP connection | `wxmpp/wxmpp.c` (497) | context, connection, `is_owner_online` | connect, reconnect, presence, ping, message dispatch | the event loop; others send on the connection it releases |
| server shells proxy | `shells/shells.c` (182) | time of the last hypervisor message | translate a stanza and publish it | drops requests of a silent hypervisor |
| communication | `communication/communication.c` (846) | redis contexts, key tables | messages between boards, answers of the hypervisor, signals | main thread and both subscribers share one redis context without a lock; LRANGE and LTRIM are not one step |
| hypervisor redis | `hypervisor/wredis/wredis.c` (216) | publisher and subscriber contexts | connect, publish, deliver, reconnect | announces itself before it has subscribed |
| hypervisor main | `hypervisor/wyliodrin_hypervisor.c` (297) | settings | start, periodic `pong` | |
| logs | `logs/logs.c` (246), `hypervisor/logs/logs.c` (235) | buffer of 1024 entries, mutex | `add_log`, sender thread | every thread logs; checks and resets outside the mutex |
| make | `make/make.c` (360) | | build: child process and three readers of its pipes | pipes closed before their readers have drained them |
| ps | `ps/ps.c` (221) | `keep_sending` | send, stop | stop and send may leave two senders |
| server main | `wtalk.c` (546) | settings | start, mount, load modules | sequential |
| network, wjson, base64, libds | 76, 86, 102, 897 | | pure or sequential helpers | |
| cmp | `cmp/cmp.c` (2892) twice | | vendored MessagePack codec | |

What makes each part correct:

* shells: the table and the live shells agree, so nothing is freed twice or
  lost; a project file names a shell of its project; the mutex comes back; dead
  shells are freed and crashed background projects restarted.
* files: no wakeup is lost; a lost connection ends every call; a call returns
  the answer to its own question; the connection error can always be told.
* redis link: a request that the server accepts is executed at most once and in
  order, as long as no two threads of the server are inside its redis context at
  once; nothing is published without a context; who lost a connection listens again.
* logs: no string is used after it was freed, or sent twice; what was accepted
  leaves the buffer; logging never blocks a thread.
* make, ps: the output of a build is sent once and in order, and under the request
  of another build only through a reused descriptor; the build and its readers
  end; the flag that asks for process lists has a thread behind it.
* XMPP connection: its flags never say more than is true, and it is made again.
* communication: no signal leaves redis before the web server has it, as long as
  the shared redis context is whole.
* messages: what the owner asks arrives at the hypervisor as it was asked (if the
  stanza has its `gadgetid`), and an answer arrives at the owner as it was given (up
  to a zero byte), through stanza, MessagePack, base64, hash map and back.
* codec: what was written is what is read, at any bound and buffer size.

## 2. Modules

| module | what it is |
|---|---|
| `HypervisorShells` | specification of `hypervisor/shells/shells.c` |
| `SessionTable` | what the owner may rely on of it: the abstract specification `HypervisorShells` implements |
| `Files` | specification of `files/files.c`, with the part of `wxmpp/wxmpp.c` that tells it about connection and owner |
| `Logs` | specification of `logs/logs.c` and of `hypervisor/logs/logs.c` |
| `HypervisorLink` | the redis link between the daemons: `communication/communication.c`, `shells/shells.c`, `hypervisor/wredis/wredis.c`, the pong of the hypervisor's main loop |
| `RequestChannel` | what the link promises: the abstract specification `HypervisorLink` implements |
| `MessagePack`, `MessagePackReader` | operators: the writers and the readers of `cmp/cmp.c` |
| `Codec` | a machine that writes items into a buffer and reads them at the other end |
| `Base64`, `Hashmap` | operators: `base64/base64.c`, the map of `hypervisor/libds/` |
| `ShellProtocol` | operators: the translations stanza, map, attributes, answer, stanza |
| `ShellMessages` | the path of the messages about shells through both daemons, made of them |
| `XmppConnection` | the server's main thread: `wxmpp/wxmpp.c` |
| `Make`, `Ps`, `Communication` | the threads of `make/make.c`, `ps/ps.c`, and the redis commands of `communication/communication.c`; each EXTENDS `XmppConnection` |
| `Server` | the composition of the last four, and their properties |
| `MC*` | the instances TLC checks |
| `*Proofs` | theorems on `HypervisorShells`, `Files`, `Logs`, `HypervisorLink`, `Server`, `Codec` and `ShellMessages`; `MessagePackProofs` holds the lemmas on the codec's operators, which the last two use |

Modules with theorems, and what they use, have no RECURSIVE operator.

### HypervisorShells

A thread is the `Handler` (the redis subscriber, which runs one command after
the other) or the reader of a shell.  `shells_vector` is `slots`, a `shell_t`
is an element of `Shells` with its fields in `shell`, the mutex is `lock`, the
files are `file`.  `pc` and `loc` are the position and the locals of a thread.
`proc` is the child process.

A step is what one thread does between two points where another could tell the
difference: the test of a slot, the critical section entered, left, the use of
the slot after it, the creation of a project file, its write, the start of the
reader.  The read of a project file (open, read, close) is one step.  The
critical sections that touch nothing another thread reads without the mutex
(`Alloc`, `Free`) are one step; those of the commands are two (`LockShell`,
`UpdateShell`), because between `free` and `strdup` the reader may see the
dangling request ("freed").

Choices worth knowing:

* A shell index that comes from the owner is in range; the file of a project
  that is empty leaves the index uninitialised, so it names any slot, or none
  (then the process crashes).
* A request that lacks an attribute and is dropped without an answer is a
  stutter.  Copying output to redis changes no state and is left out, as are
  the environment and argv of the child, and failures of malloc and
  `pthread_create`.
* "crash" stands for a non-zero exit code or SIGSEGV, "clean" for every other
  end.  The stop command of the boards (`setup/settings_*.json`) is `kill -9`,
  so a closed shell dies "clean".
* A NULL pointer ends the process (`Crash`); supervisord or systemd
  (`setup/wyliodrin-hypervisor-*.conf`) start it again (`Boot`), which empties
  `/tmp/wyliodrin`.
* The reader's path buffer has 64 bytes, the opener's 128: `LongIds` are the
  project ids whose file the reader therefore never removes.

Properties.  `SlotsMatchShells`, `FileNamesItsProject` and
`MutexLostOnlyByOverflow` are the safety of the table, of the project files and
of the mutex; `SlotsAreReleasedFirst` (proved, not checked on its own) is what a
step may do to a slot; `ImplementsTable` is the refinement of `SessionTable`:
`Sessions` are the occupied slots with the project, the connection and the
process of their shell, `Found` the projects whose file holds a number (those of
`LongIds` excepted).  Every step of a thread is then one change of one
session, or none: it gets the lowest free number, the owner comes to it or leaves it,
its process ends, its project is announced, it is released once its process has
ended; or the hypervisor ends and nothing is found any more.  What it does not
promise is that a command reaches the session it was meant for: a number is
tested, and used later.
`DeadShellsAreFreed`, `BackgroundCrashIsRepaired` and `HandlerComesBack` are
what must eventually happen.  The mutex *is* lost in one case, a table found
full: the properties say that this is the only one.  A background project that
crashed is back in the end, but for the cases `BackgroundCrashIsRepaired` names; one
of them is a `forkpty` that fails in the restart itself (`shells.c:467-468`), which
nobody answers or repeats.  `ForkMayFail` is TRUE in every run of the shells, so
that this case is met.

### Files

The FUSE thread (`fuse_main` runs with `-s`) makes a `Call`, clears the flags
after a connection error, checks the owner, sends its request and sleeps until
its flag is up.  The XMPP thread handles an answer (`Receive`, `Handle`), a
presence (`Presence`), or an error of the connection (`ConnectionError`,
`LockForError`, `Raise`, `SignalError`, `Reconnect`).  The flags that are up
are the set `signals`.

* An answer is the path it is about: attributes, entries and content do not
  matter to the properties.  `asked` is the bag of requests the owner has not
  answered; it answers in any order, at any time, or never.
* The flags are plain variables written by one thread while the other may read
  them, so `Clear` and `Raise` write them one by one in any order.
* Sending on a connection that is not up drops the request; on none at all
  (between the release and the next `xmpp_conn_new`) it uses a NULL pointer.
  A crash is followed at once by a restart.
* The entries appended before a malformed entry are never seen, because that
  branch keeps the mutex for ever.  `open` changes no state.
* The board "server", which does not reconnect, is not modelled.

Properties.  `NoLostWakeup` is the condition variable used rightly;
`WaitsOnLiveConnection` that the loss of the connection reaches every call
although flags and presence are handled outside the mutex;
`OwnAnswerUntilError` that answers and requests match.  After the first error
they need not (`AlwaysOwnAnswer` is refuted).

### Logs

Every thread may call `add_log` (the `Writers`); one thread posts the buffer
(the `Sender`).  The two daemons have their own copy of the module: `program`
says which one runs, and is chosen in the initial state.

* A writer tests the size (`Enter`), perhaps discards old logs (`DiscardFree`,
  `DiscardReset`, server only), stores its string under the mutex (`Store`) and
  counts it (`Increment`).  `logs_size++` is a read and a write, because the
  server resets the size without the mutex.
* The sender tests the size without the mutex (`Wake`), builds its message
  under it (`Build`, `BuildFails`) and posts (`PostFails`, `PostSucceeds`); the
  hypervisor empties the buffer in `Build`, the server after the POST.
* An entry is the string it points at; `Freed` is a pointer to nothing alive.
  A string may be allocated again once nobody points at it.
* A string may be stored past the end of the table, since the size is tested
  for equality and outside the mutex.  The process may survive that for a
  while (`MaxSize`) or end.  Use of freed memory ends the process (`Dangle`),
  but reading it in the server may go unnoticed; a double free that corrupts
  the allocator silently is not modelled.
* The first log is made by the main thread before it starts any other, so the
  start of the sender is the initial state.

Properties.  `HypervisorTakesOnce`: no string is used after it was freed, freed
twice, or posted twice, in the hypervisor; the server keeps none of these.
`LogReturns` and `LogIsTaken`: a log neither blocks its caller nor stays in the
buffer, unless the hypervisor's sender kept the mutex (`Lost`), which it does
when `calloc` fails (`hypervisor/logs/logs.c:141-145`).  What stays possible,
and is no property: the hypervisor loses what it fails to post.

### HypervisorLink

Each daemon publishes on a context `c` of its own (`ctx`, `hctx`) and listens on
a second connection, served by a thread.  The thread that connects
(`InitFlag`, `InitConnect`, `InitSpawn`; `ClientConnect`, `ClientAnnounce`,
`ClientSpawn`) and the subscriber it starts (`SubConnect`, `SubReceive`,
`SubClosed`; `ClientSubscribe`, `ClientReceive`, `ClientClosed`) share a name,
an element of `Inits` or `Clients`.  `inProgress` is set by the new thread and
not by who starts it, so that two stanzas may start two of everything.  redis
delivers a copy to those who are subscribed at that moment.  redis, the server
and the hypervisor may each fail (`MaxFailures` in all); a queue that is cut
keeps a beginning of what it held.  Requests are numbered as the server accepts
them; `recent` says that the last pong is not older than the timeout, which may
expire at any time (`Expire`).

The hypervisor publishes under a mutex (`pub_mutex`), so its `HypPublish` is one
step.  The server does not: `publish` (`communication.c:840-844`) enters hiredis
(`Enter`) and leaves it with the reply (`Publish`), and meanwhile other threads
may enter: the main thread with a request (`RecvShells`) or a stanza for other
boards (`RecvCommunication`), a subscriber with its ping (`SubReceive`), the
subscriber to signals (`SignalsShare`).  `on` says which context each thread is
inside of; one that is replaced by a reconnection is not freed, and whoever is
inside stays in it.  `shared` remembers that two were inside one context at once.
From then on (`Mangle`) a thread may leave with its message delivered (`Leave`) or
lost (`Lose`), and anything that was written before may leave once more
(`LeaveAgain`).

`ImplementsChannel` is the refinement: `accepted`, `executed` and `shared` under
`RequestChannel`, by the identity on the three.  A request may be lost.  Until two
threads of the server were inside its context at once, none is executed twice
or out of order, whatever fails; after that, one may be (`Repeat`), and still
none that was not accepted.  `OneClient`, a part of `IInv`, is the heart of it: a
client that lost its connection starts another, and must have no other part left
that executes.  `PublisherHasContext`: who publishes was started by a connection
that worked.  `HypervisorListens`: while redis stays
up, a hypervisor that lost a connection listens again.  `ServerHears`: a server
that listens hears the hypervisor, even one that does not hear it, unless the
context was shared: then the subscriber's reply may be gone, and it waits for ever.

### MessagePack, Base64, Hashmap, ShellProtocol

A number is its bytes, so that widths and signs are those of the code.  `Codec`
writes at most `MaxItems` items out of values that lie next to every bound of the
format, into buffers of several sizes, and reads them.  `ReadsWhatWasWritten`
compares with the item itself, not with another decoder.  A failed write leaves
its beginning in the buffer (`BufferKept`), which the readers must not take for
an item; `IntegersInRange` has its own definition of a range (by sign
extension), and `KindsAgree` compares three ways of reading one object.

The one library is copied into both daemons; the writers are mapped in the
server's copy and the readers in the hypervisor's.  Error codes are left out.
Of libds only the map is called.

`ShellMessages` uses the operators on both sides of the queues `wsrvhyp` and
`whypsrv`.  Attributes and actions are words, their values are bytes.
`CommandsAreUnderstood` compares the map of the hypervisor with the stanza,
`AnswersAreUnderstood` the stanza the owner gets with what the handler meant;
`ShortRequestsAreAnswered` is what the fixed buffers of the answers need: an
answer is lost only for a request of more than 36 bytes, or an identifier of a
shell of more than 7 or of a project of more than 64.  Base64
has a definition of its own here (`Base64Of`, by bits).  Four things the
properties say as they are:

* The header of the map announces two pairs less than there are attributes
  (`shells/shells.c:129-130`), for `xmlns` and `gadgetid`.  Nobody looks for
  `gadgetid`: in a stanza without it the hypervisor reads one pair too few, and the
  last attribute (`Unread`), or the text if there is no other pair, is lost.
  `tests/mocha/tests/test9.js` and `test10.js` send such stanzas; that they
  arrive whole is `EveryAttributeArrives`, which is refuted.
* Output, and the text of a stanza, end at their first zero byte.  That the
  output is sent back whole is `OutputIsSentBack`, which is refuted.
* The key of a request goes out with five bytes of the memory behind it
  (`AfterLiteral`), which the server must ignore.
* A shell is named as `strtol` reads it (`SlotNamed`): blanks, a sign and zeros
  may come first, and the empty string is shell 0.  The code checks no range;
  a number beyond the table, which would read memory behind it, is modelled as one
  no shell has.

The assumptions on the constants are what the code and XMPP give: a stanza has
each attribute once and has `xmlns`, by which `message_handler` finds its module,
its values are strings without a zero byte (`IsStanza`); a shell is read at most
`BUFSIZE` bytes at a time, an exit code is printed into eight bytes, a shell's
number is less than `MAX_SHELLS`.  The hash is any function.  Two tests of
`shells()` are not here: that the hypervisor is alive (`:90`) is in
`HypervisorLink`, and stanzas of others than the owner (`:92-93`) are none of
`Stanzas`.

### Server

* `XmppConnection`.  One thread runs `xmpp_connect`: `NewConnection`, `Attempt`,
  the event loop (handlers are actions with `Dispatching`), `ConnectionError`,
  `SignalFiles`, `Release`, `Forget`.  Connections are numbered; `live` are those not
  released.  A thread that uses one that is not may end the process (`Use`), or get
  away with it.  Threads keep the connection they were started with.  The handler of
  a loss locks the mutex of `files.c` (`wxmpp.c:268`) before it stops the loop: the
  main thread is "locking" until `SignalFiles`, and that needs `~mutex_kept`.  An
  answer to files without an attribute keeps the mutex for ever (`FilesAnswer`,
  `files.c:396`); the next answer then waits in its handler ("waiting").
* `Make`.  A build has its thread (`OpenPipes`, `Fork`, `Close`), its child
  (`Output`, `WriteStatus`, `Exit`) and a reader on each pipe.  `table` gives what is
  behind a descriptor: the pipe of a build, nothing, or another file or socket of the
  server (`OtherFile`: /proc, redis, XMPP, HTTP), which is opened and closed at any
  time (`OtherOpens`, `OtherCloses`).  Numbers are taken from the lowest, and taken
  again once closed.  `writers` says who has the writing end of a pipe, which every
  child inherits that is forked meanwhile.  A reader that already waits in
  `read` keeps its pipe (`on`); one that comes back finds what the number is
  then, or fails and ends; end of file is neither data nor error, and it reads
  again.  A reader whose number has become another file is "strayed": the file lets
  it wait, gives an end or an error, or gives bytes (`FileAnswers`), which the
  reader sends to the owner as output of its build (`ReaderPasses`; `stray`
  remembers it).  The three `pipe` calls and the start of the readers are one step
  (`OpenPipes`), so that the pipes of two builds do not alternate; `close` is
  one step for each pipe.  Only reading ends have numbers: a number taken by a
  writing end fails a reader like a closed one.
* `Ps`.  A sender tests the flag, lists, sleeps.  `ps_stop` clears the flag, and
  `ps_send` starts a new sender although the old one may not have woken up.
* `Communication`.  `replies` is the pipeline of the one context: a thread sends
  its command and takes the first reply there is, whoever it is for.  Once two
  threads have been in a command at once, `ContextBreaks` may make `context`
  "broken": then the process may end, a thread may be given any reply that was
  there, an answer without values (`NoArray`), or none, for it need not come back
  (no step of `Communication` is fair), and an LTRIM may be lost or run again.
  `AskRange`, `Ranged`, `Post` or `PostFails`, `Trimmed` are the handling of an
  announced signal; a POST that the web server answers with an error counts as
  done, as it does for curl.  The build without USEMSGPACK is modelled, the one
  `CMakeLists.txt` makes.

`crashed` says that the process ended: released connection, process that went
away while it was listed, build request without a number, broken context.

Properties.

* `FlagsMatchConnection`, `LostIsRetried` (connection): a lost connection is made
  again, unless the mutex of files was kept.
* `SendingHasSender`, `StopEndsSenders` (Ps).
* `OutputInOrder`: a reader sends what it gets of an output once and in order, whichever
  pipes it reads.  `MixedOnlyByReuse`: it sends a block of another build only if that
  build made its pipes after some of its own were closed (`after`), and the bytes
  of another file only once its own pipe is closed (`closed`).  `BuildsEnd`: the
  build and its readers end, but for a reader whose number was taken by another
  file that stays (`Astray`): it may read a socket for ever.
* `OnlyPostedIsTrimmed`: a signal is not deleted before the web server has it, as long
  as `context` is "ok".  It is checked for one project and one subscriber.  With two
  subscribers (`communication.c:773` may start two, see `HypervisorLink`), or with
  two projects, a reply may go to the wrong thread even while every reply comes in its
  turn, and values are posted and trimmed under the wrong project: there
  `OnlyPostedIsTrimmed` does not hold.

## 3. Runs

| run | question | bounds | result |
|---|---|---|---|
| `shells_commands` | type and mutex under every command | 1 slot, 2 shells, 2 projects (one long id) | holds |
| `shells_two` | table and files, refinement of `SessionTable` | 2 slots, 3 shells, 2 projects | holds |
| `shells_live` | frees, restarts, progress | small table, fair threads | holds |
| `files_safe` | wakeups, lost connections, own answers | 2 paths, 2 kinds of call, 1 copy of a request | holds |
| `files_live` | the caller is released | 1 path, 2 kinds of call, fair threads | holds |
| `logs_send` | strings used once, writers released, logs taken | both programs, 2 writers, 4 strings, table of 2 overrun by at most 1, fair threads | holds |
| `link` | contexts, refinement of `RequestChannel`, both sides return, inductive invariant | main thread, 2 threads on each side, 2 requests, 1 failure, extra pongs and copies only into empty queues, fair threads | holds |
| `codec` | what is written is read, ranges, kinds | 1 or 2 items out of some 60, 9 buffer sizes | holds |
| `messages` | stanza to hypervisor, answer to owner | 2 stanzas out of 29, with and without `gadgetid`, 1 output, 2 shells | holds |
| `server_threads` | flags, builds, senders, signals | 2 connections, 2 builds (3 pipes followed), 1 other file at a time, 2 senders, 1 project, 4 events, some count as 2, fair threads | holds |
| `shells_orphan` | `hypervisor/shells/shells.c:497`: a failed open kills its child | table of 1 | refuted |
| `build_output` | `makemodule.rst:21`: the output is sent | 1 build, 2 blocks | refuted |

Bounds.  Two openers of one project and a table that can be full and not full
need two slots and three shells; a restart in flight holds no slot, so
`Cardinality(Shells) >= MaxShells + MaxRestarts` never keeps an opener from a
free structure.  `MaxRestarts` bounds how many crashed children are being
restarted at once.  For files, a wrong answer needs two paths, a flag confused
with another needs two kinds of call, and a late answer needs one request that
outlives its call.  Paths are interchangeable, hence the symmetry of the safety
runs; the liveness runs use none.

For logs, two writers that pass the test together overrun a table of two by
one; four strings fill the table while both writers hold one, or while a full
message is posted.

For the link, a request executed twice needs two clients or a context two threads
share, a wrong order two requests, and every way back one failure.  `MaxQueue`
bounds only the pong of the main loop and what leaves twice, so that a queue has
room for the acknowledgment, an answer and a request besides.  For the codec, the values lie on
both sides of every width and length at which the format changes; two items
show that one ends where the next begins.  For the messages, two stanzas show
that nothing is left of the first, and two buckets that keys share one.

For the server, `MaxEvents` bounds what the owner, the network and the programs
do.  A build (`BuildCost`), and what happens rarely (`RareEvent`: the owner comes, a
message is relayed, an answer to files, another file), counts twice, so that two
builds meet each other, or one build meets another file, a loss of the
connection, a stop of the sender or a signal, and not all at once.  One output of the first build and the
status of both (`SomePipes`) are enough for a number to be taken over by
another stream and another request.
Two blocks in a pipe of one make the child wait for its reader.

Deadlock is not checked: the processes really may stop, when the mutex is lost.
The liveness properties say "or the mutex was lost" where the code allows it.

Fairness.  Each thread is scheduled (weak fairness of its steps), and a thread
that keeps finding the mutex free gets it (strong fairness of the steps that
lock: pthread mutexes give no order, but no thread is passed over for ever).
The sender of the
logs is also assumed to find memory at some time when it asks again and again
(strong fairness of `Build`).  Nothing is assumed of the owner, of the network, of
the death of children, or of a reboot.  In the link the threads and the periodic
pong are fair, and hiredis comes back to a thread (`Publish`) while the context was
not shared; after that nothing is promised (`Mangle` is not fair).  In the
server the threads of builds, the readers, the senders and the main thread's
way from a loss to the next attempt are fair, the attempt is taken to succeed at
some time, and a child of a build to end; another file need not answer a reader
(`FileAnswers` is not fair), nor redis a thread.  The event loop need not get any stanza, and
programs need not push anything.

## 4. Proofs

The `*Proofs` modules prove, for every value of the constants that satisfies the
named assumptions, that a strengthening (`IInv`, or the invariants named
below) is inductive and that the safety properties follow.  Each was checked
with TLC before it was proved.

*Shells.*  The invariants are not inductive alone.  `OpenersOwnNewShells`
adds that the slot an opener works on holds a shell whose reader has not started
and which no other opener works on: that is why starting the reader from the
slot, outside the mutex, is right.  `ProjectIsKnown` and `ChildrenMatchReaders`
say that a thread that touches a project file has a project, and that a reader
past `waitpid` has a dead child.  A project file names a shell because a reader
removes the file in the same critical section that frees its slot, and because
an opener writes only while its shell is in the table.  `TableCorrect` is the
refinement, one lemma for each way a thread touches the table (`AllocOpens`,
`WriteFileAnnounces`, `UpdateShellConnects`, `DeathIsSeen`, `FreeReleases`, `CrashResets`; every other
step leaves the mapped variables, `AllKept`), and `FoundCorrect` draws from it
that a project is found under a session of its own.

*Files.*  `OnlineIsConnected` says that nobody sees the owner online while an
error is handled, since `conn_handler` lowers `is_owner_online` before it
touches the flags; `WaitersAreSignaled` that from there on the flag of the call
is only ever raised; `OneAnswerDue` that before the first error the owner owes
at most the answer to the call that waits.

*Logs.*  `EntriesAlive` says that a hypervisor's table holds strings exactly up
to the size, plus the one just stored by the writer that has the mutex, and that
this writer read the size the table still has; `StringsOwned` that a string not
stored yet has one owner and is not in the message.  The test of the size
outside the mutex is nowhere used: that it is stale can overrun the table, and
cannot make a string be freed or sent twice.

*Link.*  `IInv` joins six named parts.  A context is never NULL where it is
used because who subscribes was started by who connected (`PublisherHasContext`).
There is one client (`OneClient`), which holds orders only while it is served
(`OrdersAreOfAClient`).  As long as no two threads of the server were inside its
context at once, what waits is in the order in which it was accepted, after the last
one executed, and the request the main thread is publishing is later than all of
it (`OrdersInOrder`, `Sent`): it has not left yet, since nobody else is inside.
`OrdersAreAccepted` is what remains after that, and holds always.
`ChannelCorrect` is the refinement: `Init` implies the abstract `Init`, and each
step is an abstract step or leaves the three variables; a request received is
`Execute` before the context was shared, and `Execute` or `Repeat` after.

*Server.*  The parts share no variable but those of the connection, so each has an
invariant of its own.  `FlagsCorrect`: from `Connected` to `ConnectionError` the
main thread is in the event loop, and it alone releases connections.
`SendingCorrect`: a sender ends only in a step that finds the flag down.
`OutputCorrect`: `ContentInv` says that a pipe holds the last blocks written, in
order; `SentInv` that what a reader sent, and what it is about to send, was
taken out of the pipes before what they hold now.  Which descriptor it reads
does not matter, which is why descriptors taken over cannot change the order.
`MixingCorrect`: `ReuseInv` says that a number stands for the
pipe it was made for until that pipe is closed, so that a reader's pipe is its
own or one of a build that made its pipes after some of its own were closed;
`StrayInv`, that a reader which reads another file, or has sent something of one,
is one whose pipe is closed, because another file only takes a number that is free.

*Signals.*  `PostedCorrect`: while the context is whole there are as many replies to
come as threads in a command (`ReplyInv`), and `SignalInv` says that what was
read, or may still be taken, is the beginning of the list, because programs append at
the other end and only the subscriber trims.  It is proved for one
subscriber and one project, the assumptions of the theorem.

*Codec.*  `MessagePackProofs` follows one object: `WriteStops` says what a writer
that runs out of room leaves, `ObjectWritten` which bytes an object becomes,
`ObjectRead` that `cmp_read_object` finds the object in them again at any place of any
buffer, and fails where one byte is missing; `UnsignedFirst`, `SignedFirst` and
`LengthTypes` that the type a writer chooses holds the value.  In `CodecProofs` an
item is a header and the bytes after it (`ItemWritten`, `ItemRead`, `ItemStops`).
The invariant `CodecInv` says that the buffer is the bytes of the items that were
written and perhaps a beginning of the next one's (`Written`), and that the
readers stand at the end of an item and have the values of those before it
(`Read`).  The only assumptions are that a buffer has a size and that an item's value is one its writer can be
called with (`ItemsAssumption`): 64-bit integers, strings and data of less than
2^32 bytes, a float or a double.  It leaves out what the C types rule out and,
for `cmp_write_object`, objects whose value is wider than their type.
The library states its induction theorems for operators, which the provers cannot
instantiate; where a proof goes through the pieces or the items one by one,
`UpTo` gives induction on a set (the least number outside of it does not
exist), and `Recursion` unrolls a recursive function.

*Messages.*  `ShellMessagesProofs` takes the operators in the order a message
meets them.  For a command: the room of the request is at least the size of its
map, since an attribute takes less in it than in the text (`StanzaFits`); the map
read back is the list of its pairs (`MapBytes`, from the codec's lemmas, and an
induction on the pairs), or of all but the last one where the header announces
one less because the stanza has no `gadgetid` (`AnnouncedPairs`, `IgnoredAttributes`); put into a hash map one by one they are found again under their
keys and nothing is under any other, whatever the hash (`CommandHeard`); and the
text is decoded to the bytes that were encoded (`DecodeBase64`, by the
residue of the position modulo four and of the size modulo three).
`CommandsInv` then says that what is on its way to the hypervisor is what
`shells()` wrote of a known stanza, and that what it heard last is what `onMessage`
reads in that.  For an answer: `EncodedIs` says that the bit buffer of
`base64_encode` gives the sextets of the definition, `AnswerConveys` that a map of
an action's key, the fields and perhaps a text becomes the stanza that says so,
and `OpenAnswer`, `CloseAnswer`, `StatusAnswer` and `KeysAnswer` are
shown to be such maps that fit in 256, 128 or 64 bytes more than the
text when the fields are short.  `AnswersInv` says that each answer on its way is one that
will be understood as it was meant, and that what was lost was long.  That the
handlers keep it needs `CommandsInv`: the request they answer with is the one of the
stanza, hence a string of C.

Only model-checked: the liveness properties, which need fairness.

## 5. Divergences between code and documents

Two have a run that refutes the document's claim: `shells_orphan` and
`build_output`; the lines are in `PROJECT.json`.  Seven more are stated in the
modules, with a comment that says so.  TLC refutes each when it is added to a configuration of that module:

| formula | claim | why not |
|---|---|---|
| `RunningMatchesState` in `HypervisorShells` | `shellsmodule.rst:41`: "running" is the state of the project | the project file is written after the mutex is released (`shells.c:521`) |
| `CloseIsAnswered` in `HypervisorShells` | `shellsmodule.rst:85`: the close response carries the request | the request is read outside the mutex (`shells.c:1137`) |
| `ErrorCanBeSignaled` in `Files` | `xmpphandling.rst:38`: a connection error is signalled to files | a malformed answer leaves the mutex locked (`files.c:396`) |
| `AlwaysOwnAnswer` in `Files` | `protocol_files:10`: an answer is the one asked for | answers carry no identity (`files.c:137`) |
| `EveryAttributeArrives` in `ShellMessages` | `tests/mocha/tests/test9.js:88-95` and `test10.js:100-106` send stanzas without `gadgetid` and wait for their answer | the header of the map is then one pair short (`shells/shells.c:129-130`), and the hypervisor does not read the last attribute; an open needs each of the four it has |
| `OutputIsSentBack` in `ShellMessages` | `shellsmodule.rst:20-21, 53-55`: everything that comes out of the shell is sent back by `keys` | the server encodes it as a string of C, up to its first zero byte (`communication/communication.c:563`) |
| `EmptiedWasSent` in `Logs` | `logshandling.rst`: entries are popped and sent | the server empties more than it posted (`logs.c:209`) |

Hazards that no property covers, besides those of `PROJECT.json`: a project file
that exists and a request without userid, which gets no answer and leaves a
descriptor open (`hypervisor/shells/shells.c:430`); output of a shell that is
published before the answer that tells its id (`:541`); the size `read` returns
to FUSE (`files/files.c:303`); the server's table of logs, tested and freed
outside the mutex (`logs/logs.c:80`); logs lost by a POST that fails
(`hypervisor/logs/logs.c:157`) or sent before the jid is known (`:167`); a
build request without its number (`make/make.c:322`) and a process that ends while
it is listed (`ps/ps.c:81`), each of which ends the server; a sender that keeps
a released connection while a new `send` is ignored (`ps/ps.c:192`); one signal
that is not JSON at the head of a list, which stays there for ever
(`communication/communication.c:421`).  The models of `Make`, `Ps` and
`Communication` let the last four happen.

## 6. Plan

1. The composition of the shells with the link: which session a command reaches
   that waited in redis.
2. The order of the messages on `whypsrv`: a shell's output against the answer
   to its open.

## 7. Not modelled

`wtalk.c` and the start of `wyliodrin_hypervisor.c` read settings, mount and
drop privileges before any thread runs; `wjson` and `network` are sequential input;
the logging macros have no state; the scripts and board settings were read for how
processes start and stop.  Removal and iteration in libds, its list, heap and
tree are called by nobody.  Failures of `pipe`, `fork`, `malloc` and
`pthread_create` are not modelled.  The USEMSGPACK variant of
`communication.c` is not built.
