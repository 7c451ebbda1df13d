---------------------------------- MODULE Ps ----------------------------------
(***************************************************************************)
(* The task manager (ps.c): a thread that lists the processes every five   *)
(* seconds for as long as keep_sending is true.  The flag is all that the  *)
(* handler knows of the thread.                                            *)
(***************************************************************************)
EXTENDS XmppConnection

CONSTANT Senders  \* the threads that may run send_tasks_routine

VARIABLES
  keep_sending,
  sender          \* Senders -> [at, conn]

tasks == <<keep_sending, sender>>

NoSender == [at |-> "none", conn |-> 0]

PsInit ==
  /\ keep_sending = FALSE
  /\ sender = [s \in Senders |-> NoSender]

\* ps_send: the flag tells whether a sender was started; if so, nothing is done.
ps_send ==
  /\ Dispatching
  /\ ~keep_sending
  /\ Event
  /\ \E s \in Senders :
       /\ sender[s].at = "none"
       /\ keep_sending' = TRUE
       /\ sender' = [sender EXCEPT ![s] = [at |-> "test", conn |-> global_conn]]
  /\ UNCHANGED <<connection, crashed>>

\* Wrong: the thread is cancelled, the flag stays.
ps_stopCancels ==
  /\ Dispatching
  /\ Event
  /\ \E s \in Senders : sender' = [sender EXCEPT ![s] = NoSender]
  /\ UNCHANGED <<keep_sending, connection, crashed>>

ps_stop ==
  /\ Dispatching
  /\ Event
  /\ keep_sending' = FALSE
  /\ UNCHANGED <<sender, connection, crashed>>

Move(s, at) == sender' = [sender EXCEPT ![s].at = at]

\* The test of the loop: one more list, or the end of the thread.
SenderTests(s) ==
  /\ sender[s].at = "test"
  /\ IF keep_sending THEN Move(s, "list") ELSE sender' = [sender EXCEPT ![s] = NoSender]
  /\ UNCHANGED <<keep_sending, connection, crashed, events>>

\* The list is sent on the connection the thread was started with.
SenderSends(s) ==
  /\ sender[s].at = "list"
  /\ Use(sender[s].conn)
  /\ Move(s, "sleep")
  /\ UNCHANGED <<keep_sending, connection, events>>

\* A process ended after its directory was listed: so does the server.
ProcessIsGone(s) ==
  /\ sender[s].at = "list"
  /\ crashed' = "process"
  /\ UNCHANGED <<tasks, connection, events>>

\* Wrong: the flag is tested once, before the loop.
SenderWakesToList(s) ==
  /\ sender[s].at = "sleep"
  /\ Move(s, "list")
  /\ UNCHANGED <<keep_sending, connection, crashed, events>>

SenderWakes(s) ==
  /\ sender[s].at = "sleep"
  /\ Move(s, "test")
  /\ UNCHANGED <<keep_sending, connection, crashed, events>>

SenderStep(s) == SenderTests(s) \/ SenderSends(s) \/ SenderWakes(s)
=============================================================================
