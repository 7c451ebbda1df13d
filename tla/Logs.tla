-------------------------------- MODULE Logs --------------------------------
(***************************************************************************)
(* The logs component of both daemons: logs/logs.c in wyliodrind and       *)
(* hypervisor/logs/logs.c in wyliodrin_hypervisor.  Any thread may call    *)
(* add_log, the Writers; one thread, the Sender, wakes up every second and *)
(* posts the buffer to the cloud.                                          *)
(*                                                                         *)
(* The programs differ.  The hypervisor drops a log when the buffer is     *)
(* full, and empties the buffer, under the mutex, before it posts.  The    *)
(* server discards the whole buffer when it is full, without the mutex,    *)
(* and empties it, also without the mutex, after a POST that succeeded.    *)
(*                                                                         *)
(* The model begins once the main thread has started the sender, with the  *)
(* first log of all, when no other thread exists.                          *)
(***************************************************************************)
EXTENDS Naturals, FiniteSets

CONSTANTS
  Programs,      \* "server", "hypervisor"
  Writers,       \* the threads that log
  Entries,       \* the strings that add_log builds
  MaxLogs,       \* MAX_LOGS, the length of the table
  MaxSize,       \* bound: how far the process survives writes past the table
  Sender, Freed, NULL

ASSUME ConstantsAssumption ==
  /\ Programs \subseteq {"server", "hypervisor"}
  /\ MaxLogs \in Nat \ {0}
  /\ MaxSize \in Nat /\ MaxLogs <= MaxSize
  /\ Sender \notin Writers
  /\ NULL \notin Writers \cup Entries \cup {Sender}
  /\ Freed \notin Entries

VARIABLES
  program,   \* which of the two this is
  size,      \* logs_size
  logs,      \* the table: a string, or a pointer to nothing that is alive
  lock,      \* the holder of logs_mutex, or NULL
  wpc,       \* where each writer is
  str,       \* the string it has built
  seen,      \* logs_size, as read by its logs_size++
  spc,       \* where the sender is
  batch,     \* the strings in big_msg
  dangling   \* history: a string was used, or freed, after it was freed

writerVars == <<wpc, str, seen>>
senderVars == <<spc, batch>>
vars == <<program, size, logs, lock, writerVars, senderVars, dangling>>

Index == 0 .. MaxSize - 1

NoLogs == [i \in Index |-> Freed]

Init ==
  /\ program \in Programs
  /\ size = 0 /\ logs = NoLogs
  /\ lock = NULL
  /\ wpc = [w \in Writers |-> "idle"]
  /\ str = [w \in Writers |-> NULL]
  /\ seen = [w \in Writers |-> 0]
  /\ spc = "asleep" /\ batch = {}
  /\ dangling = FALSE

\* The process ends, and its service manager starts it again.
Restart ==
  /\ size' = 0 /\ logs' = NoLogs
  /\ lock' = NULL
  /\ wpc' = [w \in Writers |-> "idle"]
  /\ str' = [w \in Writers |-> NULL]
  /\ seen' = [w \in Writers |-> 0]
  /\ spc' = "asleep" /\ batch' = {}
  /\ UNCHANGED program

Buffered == {logs[i] : i \in {j \in Index : j < size}}

\* The strings that somebody still points at.
InUse == {logs[i] : i \in Index} \cup {str[w] : w \in Writers} \cup batch

\* The table after free(logs[i]) for every i below logs_size.
Emptied == [i \in Index |-> IF i < size THEN Freed ELSE logs[i]]

\* What is no string any more is used, and the process does not survive it.
\* (A second free that the allocator does not notice is left out.)
Dangle ==
  /\ dangling' = TRUE
  /\ Restart

-----------------------------------------------------------------------------
(* add_log *)

\* The size is tested without the mutex, for equality.  A hypervisor whose
\* buffer is full returns.
Enter(w) ==
  /\ wpc[w] = "idle"
  /\ \/ size # MaxLogs /\ wpc' = [wpc EXCEPT ![w] = "store"]
     \/ size = MaxLogs /\ program = "server" /\ wpc' = [wpc EXCEPT ![w] = "discard"]
  /\ \E e \in Entries \ InUse : str' = [str EXCEPT ![w] = e]
  /\ UNCHANGED <<program, size, logs, lock, seen, senderVars, dangling>>

\* Discard old logs, without the mutex: free them, then reset the size.
DiscardFree(w) ==
  /\ wpc[w] = "discard"
  /\ \/ Freed \in Buffered /\ Dangle
     \/ /\ Freed \notin Buffered
        /\ logs' = Emptied
        /\ wpc' = [wpc EXCEPT ![w] = "reset"]
        /\ UNCHANGED <<program, size, lock, str, seen, senderVars, dangling>>

DiscardReset(w) ==
  /\ wpc[w] = "reset"
  /\ size' = 0
  /\ wpc' = [wpc EXCEPT ![w] = "store"]
  /\ UNCHANGED <<program, logs, lock, str, seen, senderVars, dangling>>

\* A string stored past the table overwrites memory of somebody else; the
\* process may or may not survive that.
Store(w) ==
  /\ wpc[w] = "store"
  /\ lock = NULL
  /\ \/ /\ size < MaxSize
        /\ lock' = w
        /\ logs' = [logs EXCEPT ![size] = str[w]]
        /\ seen' = [seen EXCEPT ![w] = size]
        /\ str' = [str EXCEPT ![w] = NULL]
        /\ wpc' = [wpc EXCEPT ![w] = "increment"]
        /\ UNCHANGED <<program, size, senderVars, dangling>>
     \/ size >= MaxLogs /\ Restart /\ UNCHANGED dangling

\* logs_size++ is a read and a write; other threads write logs_size too.
Increment(w) ==
  /\ wpc[w] = "increment"
  /\ size' = seen[w] + 1
  /\ lock' = NULL
  /\ wpc' = [wpc EXCEPT ![w] = "idle"]
  /\ seen' = [seen EXCEPT ![w] = 0]
  /\ UNCHANGED <<program, logs, str, senderVars, dangling>>

-----------------------------------------------------------------------------
(* send_logs_routine *)

\* Mutant: one log alone is not sent.
MoreThanOne == size > 1

SomethingToSend == size # 0

Wake ==
  /\ spc = "asleep"
  /\ SomethingToSend
  /\ spc' = "build"
  /\ UNCHANGED <<program, size, logs, lock, writerVars, batch, dangling>>

\* Mutant: neither program unlocks.
NeverUnlocked == Sender

\* Without memory for the message the server unlocks; the hypervisor does not.
LockOnceFailed == IF program = "hypervisor" THEN Sender ELSE NULL

BuildFails ==
  /\ spc = "build"
  /\ lock = NULL
  /\ lock' = LockOnceFailed
  /\ spc' = "asleep"
  /\ UNCHANGED <<program, size, logs, writerVars, batch, dangling>>

\* The server adds logs[logs_size - 1] last, and logs_size may be 0 by now.
NotAlive == Freed \in Buffered \/ (program = "server" /\ size = 0)

\* Mutant: the hypervisor forgets to reset the size.
ForgottenSize == size

\* The hypervisor empties the buffer here.
SizeOnceBuilt == IF program = "hypervisor" THEN 0 ELSE size

\* The message is built under the mutex.  The server, which does not free here,
\* may survive a string that is gone, but not a loop to the index -1.
Build ==
  /\ spc = "build"
  /\ lock = NULL
  /\ \/ NotAlive /\ Dangle
     \/ /\ NotAlive => program = "server" /\ size # 0
        /\ batch' = Buffered \ {Freed}
        /\ dangling' = (dangling \/ NotAlive)
        /\ logs' = IF program = "hypervisor" THEN Emptied ELSE logs
        /\ size' = SizeOnceBuilt
        /\ spc' = "post"
        /\ UNCHANGED <<program, lock, writerVars>>

\* Anything from curl_easy_init on may fail.
PostFails ==
  /\ spc = "post"
  /\ spc' = "asleep" /\ batch' = {}
  /\ UNCHANGED <<program, size, logs, lock, writerVars, dangling>>

\* The POST is over; the server empties the buffer, without the mutex.
PostSucceeds ==
  /\ spc = "post"
  /\ \/ /\ program = "hypervisor"
        /\ spc' = "asleep" /\ batch' = {}
        /\ UNCHANGED <<program, size, logs, lock, writerVars, dangling>>
     \/ /\ program = "server"
        /\ Freed \in Buffered
        /\ Dangle
     \/ /\ program = "server"
        /\ Freed \notin Buffered
        /\ logs' = Emptied
        /\ spc' = "reset" /\ batch' = {}
        /\ UNCHANGED <<program, size, lock, writerVars, dangling>>

Reset ==
  /\ spc = "reset"
  /\ size' = 0
  /\ spc' = "asleep"
  /\ UNCHANGED <<program, logs, lock, writerVars, batch, dangling>>

-----------------------------------------------------------------------------

WriterStep(w) == DiscardFree(w) \/ DiscardReset(w) \/ Increment(w)
SenderStep == Wake \/ PostFails \/ PostSucceeds \/ Reset

Next ==
  \/ \E w \in Writers : Enter(w) \/ WriterStep(w) \/ Store(w)
  \/ SenderStep \/ BuildFails \/ Build

Spec == Init /\ [][Next]_vars

\* Threads are scheduled, a thread that keeps finding the mutex free gets it,
\* curl gives up after 50 seconds, and memory does not run out for ever.
Fairness ==
  /\ \A w \in Writers : WF_vars(WriterStep(w)) /\ SF_vars(Store(w))
  /\ WF_vars(SenderStep) /\ SF_vars(Build)

FairSpec == Spec /\ Fairness

-----------------------------------------------------------------------------
(* What must hold *)

\* Every variable holds a value of its kind.
TypeOK ==
  /\ program \in Programs
  /\ size \in 0 .. MaxSize
  /\ logs \in [Index -> Entries \cup {Freed}]
  /\ lock \in Writers \cup {Sender, NULL}
  /\ wpc \in [Writers -> {"idle", "discard", "reset", "store", "increment"}]
  /\ str \in [Writers -> Entries \cup {NULL}]
  /\ seen \in [Writers -> 0 .. MaxSize]
  /\ spc \in {"asleep", "build", "post", "reset"}
  /\ batch \subseteq Entries
  /\ dangling \in BOOLEAN

\* In the hypervisor no string is used or freed after it was freed, and none
\* is posted twice, although writers test the size outside the mutex and may
\* write past the table.  In the server neither holds.
HypervisorTakesOnce ==
  program = "hypervisor" => ~dangling /\ batch \cap Buffered = {}

\* Why: a hypervisor's strings are alive up to the size and not beyond it,
\* but for the one that the writer with the mutex has just stored, and this
\* writer read the size that the table still has.
Counted(i) == i < size \/ (i = size /\ \E w \in Writers : wpc[w] = "increment")

EntriesAlive ==
  program = "hypervisor" =>
    /\ spc # "reset"
    /\ \A w \in Writers : wpc[w] \notin {"discard", "reset"}
    /\ \A i \in Index : logs[i] \notin batch /\ (logs[i] # Freed <=> Counted(i))
    /\ \A w \in Writers : wpc[w] = "increment" => lock = w /\ seen[w] = size

\* A string that is not stored yet has one owner.
StringsOwned ==
  /\ \A w \in Writers : wpc[w] \in {"discard", "reset", "store"} => str[w] \in Entries
  /\ \A w \in Writers : wpc[w] = "increment" => seen[w] < MaxSize
  /\ \A w \in Writers : str[w] # NULL =>
       /\ str[w] \notin batch
       /\ \A i \in Index : logs[i] # str[w]
       /\ \A v \in Writers : str[v] = str[w] => v = w

IInv ==
  /\ TypeOK
  /\ HypervisorTakesOnce
  /\ EntriesAlive
  /\ StringsOwned

\* The sender of a hypervisor kept the mutex when calloc failed.
Lost == program = "hypervisor" /\ lock = Sender

\* Logging never blocks a thread for ever, unless the mutex was kept.
LogReturns == \A w \in Writers : wpc[w] # "idle" ~> (wpc[w] = "idle" \/ Lost)

\* What is logged is taken for a POST, or emptied without (by a server that
\* discards old logs or has just posted); it does not stay in the buffer.
LogIsTaken ==
  \A e \in Entries : e \in Buffered ~> (e \in batch \/ e \notin Buffered \/ Lost)

-----------------------------------------------------------------------------
(* What the repository says of the program and the code does not do *)

\* logshandling.rst: "the entries in the log queue are popped and send";
\* protocol_logs: "If the POST call succeeded the buffer is emptied".  So what
\* a server empties after a POST was in the POST.
EmptiedWasSent ==
  [][spc = "post" /\ spc' = "reset" => Buffered \subseteq batch]_vars
=============================================================================
