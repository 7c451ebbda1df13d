---------------------------- MODULE XmppConnection ----------------------------
(***************************************************************************)
(* The server's main thread (wxmpp.c): it makes a connection, runs the     *)
(* event loop of libstrophe, which calls the handlers, and when the        *)
(* connection is lost releases it and makes another.  The handlers of the  *)
(* modules start threads, and give them the connection of that moment:     *)
(* connections are numbered, so that one can tell which of them is alive.  *)
(* What the loss does to a call of files.c that waits is in Files; here    *)
(* only the mutex of files.c matters, which an answer may leave locked.    *)
(***************************************************************************)
EXTENDS Naturals, Sequences, FiniteSets

CONSTANTS
  MaxConnections,  \* how many connections are made
  MaxEvents,       \* how many stanzas, messages and losses come from outside
  Retries          \* is the board something else than "server"?

ASSUME ConnectionAssumption ==
  /\ MaxConnections \in Nat
  /\ MaxEvents \in Nat
  /\ Retries \in BOOLEAN

VARIABLES
  main,                   \* where the main thread is
  made,                   \* the number of the last connection made
  live,                   \* the connections that are not released
  global_conn,            \* the number of a connection, or 0 for NULL
  is_xmpp_connection_set,
  is_owner_online,
  modules,                \* are the modules initialized?
  mutex_kept,             \* has an answer left the mutex of files.c locked?
  crashed,                \* has the process ended, and for what cause?
  events                  \* how much came from outside

flags == <<is_xmpp_connection_set, is_owner_online>>
connection == <<main, made, live, global_conn, flags, modules, mutex_kept>>

ConnectionInit ==
  /\ main = "start"
  /\ made = 0
  /\ live = {}
  /\ global_conn = 0
  /\ is_xmpp_connection_set = FALSE
  /\ is_owner_online = FALSE
  /\ modules = FALSE
  /\ mutex_kept = FALSE
  /\ crashed = "no"
  /\ events = 0

\* Something comes from outside, that takes n of what the bound leaves.
Spend(n) == events + n <= MaxEvents /\ events' = events + n
Event == Spend(1)
RareEvent == Spend(2)

\* The process ends, or not, by the use of a connection that was released.
Use(conn) == crashed' \in IF conn \in live THEN {"no"} ELSE {"no", "connection"}

-----------------------------------------------------------------------------
(* xmpp_connect *)

NewConnection ==
  /\ main = "start"
  /\ made < MaxConnections
  /\ made' = made + 1
  /\ live' = live \cup {made'}
  /\ global_conn' = made'
  /\ main' = "connecting"
  /\ UNCHANGED <<flags, modules, mutex_kept, crashed, events>>

\* An attempt that fails changes nothing, and is repeated.
Attempt ==
  /\ main = "connecting"
  /\ main' = "listening"
  /\ UNCHANGED <<made, live, global_conn, flags, modules, mutex_kept, crashed, events>>

Release ==
  /\ main = "stopping"
  /\ live' = live \ {global_conn}
  /\ main' = "releasing"
  /\ UNCHANGED <<made, global_conn, flags, modules, mutex_kept, crashed, events>>

\* Wrong: one loss is the end, as it is on the board "server".
ForgetEnds ==
  /\ main = "releasing"
  /\ global_conn' = 0
  /\ main' = "ended"
  /\ UNCHANGED <<made, live, flags, modules, mutex_kept, crashed, events>>

Forget ==
  /\ main = "releasing"
  /\ global_conn' = 0
  /\ main' = IF Retries THEN "start" ELSE "ended"
  /\ UNCHANGED <<made, live, flags, modules, mutex_kept, crashed, events>>

-----------------------------------------------------------------------------
(* conn_handler and presence_handler *)

Connected ==
  /\ main = "listening"
  /\ ~is_xmpp_connection_set
  /\ is_xmpp_connection_set' = TRUE
  /\ modules' = TRUE
  /\ UNCHANGED <<main, made, live, global_conn, is_owner_online, mutex_kept, crashed, events>>

\* Wrong: the loss of the connection only stops the loop.
ConnectionErrorStops ==
  /\ Event
  /\ main = "listening"
  /\ main' = "locking"
  /\ UNCHANGED <<made, live, global_conn, flags, modules, mutex_kept, crashed>>

\* The handler takes the mutex of files.c next.
ConnectionError ==
  /\ Event
  /\ main = "listening"
  /\ is_xmpp_connection_set' = FALSE
  /\ is_owner_online' = FALSE
  /\ main' = "locking"
  /\ UNCHANGED <<made, live, global_conn, modules, mutex_kept, crashed>>

\* It gets the mutex, for the threads of files.c release it or wait (see Files), and
\* stops the loop; if the mutex is kept, it waits here for ever.
SignalFiles ==
  /\ main = "locking"
  /\ ~mutex_kept
  /\ main' = "stopping"
  /\ UNCHANGED <<made, live, global_conn, flags, modules, mutex_kept, crashed, events>>

\* A handler runs on the main thread, while the connection is there.
Dispatching == main = "listening" /\ is_xmpp_connection_set

OwnerComes ==
  /\ Dispatching
  /\ RareEvent
  /\ ~is_owner_online
  /\ is_owner_online' = TRUE
  /\ UNCHANGED <<main, made, live, global_conn, is_xmpp_connection_set, modules, mutex_kept, crashed>>

OwnerLeaves ==
  /\ Dispatching
  /\ Event
  /\ is_owner_online
  /\ is_owner_online' = FALSE
  /\ UNCHANGED <<main, made, live, global_conn, is_xmpp_connection_set, modules, mutex_kept, crashed>>

\* files() with an answer that lacks an attribute returns with the mutex locked, and
\* the next answer waits for it; other answers are in Files.
FilesAnswer ==
  /\ Dispatching
  /\ RareEvent
  /\ mutex_kept' = TRUE
  /\ main' = IF mutex_kept THEN "waiting" ELSE main
  /\ UNCHANGED <<made, live, global_conn, flags, modules, crashed>>

=============================================================================
