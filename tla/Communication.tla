----------------------------- MODULE Communication -----------------------------
(***************************************************************************)
(* The server's side of redis on a board (communication.c) while redis is  *)
(* there (HypervisorLink has its failures): what programs publish for other*)
(* boards, what the owner sends to programs, and the signals of projects,  *)
(* which wait in lists of redis and are announced on a channel.            *)
(*                                                                         *)
(* c is one context without a lock: a thread that runs a command writes it *)
(* and takes the oldest reply, whoever it is for.  redis runs commands in  *)
(* the order they arrive.  Two threads that are in a command at once may   *)
(* break the buffers of the context; then a thread may get any reply, or   *)
(* none and wait for ever, and its command is lost or run again.           *)
(***************************************************************************)
EXTENDS XmppConnection

CONSTANTS
  Projects,  \* the projects whose programs send signals
  Workers,   \* the threads subscribed to the channel wyliodrin
  MaxRange,  \* how many values are read at once
  MaxSignals \* how many values the programs push

ASSUME CommunicationAssumption ==
  /\ IsFiniteSet(Workers)
  /\ "main" \notin Workers
  /\ MaxRange \in Nat \ {0}
  /\ MaxSignals \in Nat

VARIABLES
  list,      \* Projects -> the values in its list
  announced, \* Workers -> the projects announced to it, which it has not handled
  worker,    \* Workers -> [at, project, got]
  context,   \* c: "ok" or "broken"
  replies,   \* the replies on c that no thread has taken; if c is broken, any that may come
  posted,    \* what the web server got: [project, value]
  trimmed,   \* the values LTRIM has removed
  relay,     \* where onMessage is
  pushed     \* how many values were pushed

signals == <<list, announced, worker, context, replies, posted, trimmed, relay, pushed>>

NoProject == "no project"
Idle == [at |-> "idle", project |-> NoProject, got |-> <<>>]

First(n, values) == SubSeq(values, 1, IF n < Len(values) THEN n ELSE Len(values))

CommunicationInit ==
  /\ list = [p \in Projects |-> <<>>]
  /\ announced = [w \in Workers |-> <<>>]
  /\ worker = [w \in Workers |-> Idle]
  /\ context = "ok"
  /\ replies = <<>>
  /\ posted = {}
  /\ trimmed = {}
  /\ relay = "idle"
  /\ pushed = 0

-----------------------------------------------------------------------------
(* libwyliodrin, in the programs of the projects *)

Push(project) ==
  /\ Event
  /\ modules
  /\ pushed < MaxSignals
  /\ pushed' = pushed + 1
  /\ \E valid \in BOOLEAN :
       list' = [list EXCEPT ![project] = Append(@, [of |-> project, n |-> pushed', valid |-> valid])]
  /\ announced' = [w \in Workers |-> Append(announced[w], project)]
  /\ UNCHANGED <<worker, context, replies, posted, trimmed, relay, connection, crashed>>

-----------------------------------------------------------------------------
(* redisCommand on c *)

\* What is no array has no values: a number, an error or no reply at all.
NoArray == <<>>

\* A reply is the values of an array, or NoArray.
Sends(reply) ==
  replies' = IF context = "broken" /\ \E i \in DOMAIN replies : replies[i] = reply
             THEN replies ELSE Append(replies, reply)

\* The replies that a thread may be given, and what is left of them.
Offered == {NoArray} \cup {replies[i] : i \in DOMAIN replies}

Takes(reply) ==
  \/ /\ context = "ok"
     /\ replies # <<>> /\ reply = Head(replies)
     /\ replies' = Tail(replies)
  \/ /\ context = "broken"
     /\ UNCHANGED replies

\* The threads that are in redisCommand.
InCommand == {w \in Workers : worker[w].at \in {"range", "trim"}}
                \cup (IF main = "publishing" THEN {"main"} ELSE {})

ValuesOf(values) == {values[i] : i \in DOMAIN values}

\* As many values as were read go away, whatever the list holds now.
Trim(project, n) ==
  LET gone == First(n, list[project])
  IN  /\ list' = [list EXCEPT ![project] = SubSeq(@, Len(gone) + 1, Len(@))]
      /\ trimmed' = trimmed \cup ValuesOf(gone)

\* Two threads use the context at once, or one uses it when it is broken: the process may
\* end, and an LTRIM that is under way may be run once more.
ContextBreaks ==
  /\ Cardinality(InCommand) > 1 \/ (context = "broken" /\ InCommand # {})
  /\ context' = "broken"
  /\ crashed' \in {"no", "context"}
  /\ \/ UNCHANGED <<list, trimmed>>
     \/ \E w \in Workers : worker[w].at = "trim" /\ Trim(worker[w].project, Len(worker[w].got))
  /\ UNCHANGED <<announced, worker, replies, posted, relay, pushed, connection, events>>

-----------------------------------------------------------------------------
(* communication(), or shells(), on the main thread *)

Publish ==
  /\ Dispatching
  /\ Event
  /\ Sends(NoArray)
  /\ main' = "publishing"
  /\ UNCHANGED <<list, announced, worker, context, posted, trimmed, relay, pushed>>
  /\ UNCHANGED <<made, live, global_conn, flags, modules, mutex_kept, crashed>>

Published ==
  /\ main = "publishing"
  /\ \E reply \in Offered : Takes(reply)
  /\ main' = "listening"
  /\ UNCHANGED <<list, announced, worker, context, posted, trimmed, relay, pushed>>
  /\ UNCHANGED <<made, live, global_conn, flags, modules, mutex_kept, crashed, events>>

-----------------------------------------------------------------------------
(* onMessage: what a program sends to another board, if it is in reach *)

RelayTests ==
  /\ RareEvent
  /\ modules
  /\ relay = "idle"
  /\ is_xmpp_connection_set
  /\ relay' = "send"
  /\ UNCHANGED <<list, announced, worker, context, replies, posted, trimmed, pushed, connection, crashed>>

\* The connection is read again, when it may be gone: NULL ends the process.
RelaySends ==
  /\ relay = "send"
  /\ relay' = "idle"
  /\ IF global_conn = 0 THEN crashed' = "connection" ELSE Use(global_conn)
  /\ UNCHANGED <<list, announced, worker, context, replies, posted, trimmed, pushed, connection, events>>

-----------------------------------------------------------------------------
(* onWyliodrinMessage: the signals of a project *)

Go(w, at) == worker' = [worker EXCEPT ![w].at = at]
Rest(w) == worker' = [worker EXCEPT ![w] = Idle]

AskRange(w) ==
  /\ worker[w].at = "idle"
  /\ announced[w] # <<>>
  /\ LET project == Head(announced[w])
     IN  /\ worker' = [worker EXCEPT ![w] = [Idle EXCEPT !.at = "range", !.project = project]]
         /\ Sends(First(MaxRange, list[project]))
  /\ announced' = [announced EXCEPT ![w] = Tail(@)]
  /\ UNCHANGED <<list, context, posted, trimmed, relay, pushed, connection, crashed, events>>

\* Only an array that begins with a valid value is handled further.
Ranged(w) ==
  /\ worker[w].at = "range"
  /\ \E reply \in Offered :
       /\ Takes(reply)
       /\ IF reply # NoArray /\ Head(reply).valid
          THEN worker' = [worker EXCEPT ![w].at = "post", ![w].got = reply]
          ELSE Rest(w)
  /\ UNCHANGED <<list, announced, context, posted, trimmed, relay, pushed, connection, crashed, events>>

\* What the web server gets: the valid values, under the project announced.
Posting(w) == {[project |-> worker[w].project, value |-> v] :
                 v \in {u \in ValuesOf(worker[w].got) : u.valid}}

\* The POST, which curl reports as done whatever the web server says of it, and the LTRIM,
\* which only a context that is broken or that another thread is using may lose.
Post(w) ==
  /\ worker[w].at = "post"
  /\ posted' = posted \cup Posting(w)
  /\ \/ Trim(worker[w].project, Len(worker[w].got)) /\ UNCHANGED context
     \/ /\ InCommand # {} \/ context = "broken"
        /\ context' = "broken"
        /\ UNCHANGED <<list, trimmed>>
  /\ Sends(NoArray)
  /\ Go(w, "trim")
  /\ UNCHANGED <<announced, relay, pushed, connection, crashed, events>>

\* Wrong: the values are removed although the POST failed.
PostFailsTrims(w) ==
  /\ worker[w].at = "post"
  /\ posted' \in {posted, posted \cup Posting(w)}
  /\ Trim(worker[w].project, Len(worker[w].got))
  /\ Sends(NoArray)
  /\ Go(w, "trim")
  /\ UNCHANGED <<announced, context, relay, pushed, connection, crashed, events>>

\* The web server may have got the values when the POST fails, and keeps them.
PostFails(w) ==
  /\ worker[w].at = "post"
  /\ posted' \in {posted, posted \cup Posting(w)}
  /\ Rest(w)
  /\ UNCHANGED <<list, announced, context, replies, trimmed, relay, pushed, connection, crashed, events>>

Trimmed(w) ==
  /\ worker[w].at = "trim"
  /\ \E reply \in Offered : Takes(reply)
  /\ Rest(w)
  /\ UNCHANGED <<list, announced, context, posted, trimmed, relay, pushed, connection, crashed, events>>

WorkerStep(w) == AskRange(w) \/ Ranged(w) \/ Post(w) \/ Trimmed(w)
=============================================================================
