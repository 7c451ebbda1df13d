-------------------------- MODULE HypervisorShells --------------------------
(***************************************************************************)
(* The shells component of wyliodrin_hypervisor (hypervisor/shells).       *)
(*                                                                         *)
(* One thread, the redis subscriber, executes the commands of the owner    *)
(* one after the other: it is the Handler.  Every open shell has a         *)
(* detached thread of its own (read_routine) that copies the output of     *)
(* the child process, notices its death, frees the shell and, for a        *)
(* project that crashed in the background, opens the project again.  A     *)
(* shell_t and its reader thread share a name: an element of Shells.       *)
(*                                                                         *)
(* The threads share shells_vector (slots), the mutex shells_lock (lock)   *)
(* and the files /tmp/wyliodrin/<projectid> (file), which hold the index   *)
(* of the slot a project runs in.  A step of the model is what a thread    *)
(* does between two points where another thread can tell the difference.   *)
(***************************************************************************)
EXTENDS Integers, FiniteSets

CONSTANTS
  MaxShells,   \* MAX_SHELLS, the length of shells_vector
  Shells,      \* the shell_t structures, each with its reader thread
  Projects,    \* project ids
  LongIds,     \* ids the reader's 64-byte path buffer truncates
  Deaths,      \* how children may die: "clean" and "crash"
  Commands,    \* the actions the owner sends
  UserGiven,   \* whether its open requests carry a userid
  ForkMayFail, \* forkpty may fail for want of processes or terminals
  MaxRestarts, \* bound on crashed children whose restart is not over
  Handler,     \* the thread that executes the owner's commands
  NULL

ASSUME ConstantsAssumption ==
  /\ MaxShells \in Nat \ {0}
  /\ LongIds \subseteq Projects
  /\ Deaths \subseteq {"clean", "crash"}
  /\ Commands \subseteq {"open", "close", "background", "keys", "disconnect",
                        "resize", "status", "poweroff"}
  /\ UserGiven \subseteq BOOLEAN
  /\ ForkMayFail \in BOOLEAN
  /\ MaxRestarts \in Nat
  /\ Handler \notin Shells
  /\ NULL \notin Shells \cup Projects \cup {Handler}

Slots   == 0 .. MaxShells - 1
Threads == Shells \cup {Handler}

\* What a project file may hold besides the index of a slot.
Absent == -1
Empty  == -2

VARIABLES
  up,       \* the hypervisor process runs
  lock,     \* the holder of shells_lock, or NULL
  slots,    \* shells_vector
  shell,    \* the shell_t structures
  proc,     \* the child process of each shell
  file,     \* the project files
  pc,       \* where each thread is
  loc,      \* the local variables of each thread
  orphans   \* children left without a shell by a failed open

vars == <<up, lock, slots, shell, proc, file, pc, loc, orphans>>

\* request is the message whose id the shell answers to; "freed" is the
\* dangling pointer between free() and strdup().
RequestKinds == {"open", "close", "keys", "freed"}

ShellRec == [id: Slots, proj: Projects \cup {NULL}, user: BOOLEAN,
             request: RequestKinds \cup {NULL}, connected: BOOLEAN]
NoShell  == [id |-> 0, proj |-> NULL, user |-> FALSE,
             request |-> NULL, connected |-> FALSE]

Ops == {"none", "open", "close", "background", "keys", "disconnect",
        "resize", "restart", "status", "error"}

\* op: the command; proj, user: its p and u;
\* slot: its shellid, or the slot an open works on; linked: the project
\* file a thread has open is still in /tmp/wyliodrin; running: "ru" of the
\* answer; sent: the request the reader put in the close response.
Locals   == [op: Ops, proj: Projects \cup {NULL}, user: BOOLEAN,
             slot: Slots, linked: BOOLEAN,
             running: BOOLEAN, sent: RequestKinds \cup {NULL}]
NoLocals == [op |-> "none", proj |-> NULL, user |-> FALSE,
             slot |-> 0, linked |-> FALSE, running |-> FALSE, sent |-> NULL]

OpenSteps    == {"lookup", "fork", "alloc", "mkfile", "write", "spawn"}
HandlerSteps == OpenSteps \cup {"idle", "check", "lock", "update", "use", "answer"}
ReaderSteps  == OpenSteps \cup {"error", "unused", "new", "reading", "decide", "free"}

\* While its reader is here a shell_t is in shells_vector.
Allocated == {"new", "reading", "decide", "free"}

\* Mutant: a reader loops for another message instead of ending.
RestInLoop(t) == IF t = Handler THEN "idle" ELSE "check"

Rest(t) == IF t = Handler THEN "idle" ELSE "unused"

Init ==
  /\ up = TRUE
  /\ lock = NULL
  /\ slots = [i \in Slots |-> NULL]
  /\ shell = [s \in Shells |-> NoShell]
  /\ proc = [s \in Shells |-> "none"]
  /\ file = [p \in Projects |-> Absent]
  /\ pc = [t \in Threads |-> Rest(t)]
  /\ loc = [t \in Threads |-> NoLocals]
  /\ orphans = 0

-----------------------------------------------------------------------------
(* Helpers *)

Goto(t, step) == pc' = [pc EXCEPT ![t] = step]

\* The thread is done: the handler waits for a message, a reader ends.
Return(t) ==
  /\ Goto(t, Rest(t))
  /\ loc' = [loc EXCEPT ![t] = NoLocals]

\* label _error of open_shell_or_project.
FailOpen(t) ==
  IF t = Handler
  THEN /\ Goto(t, "answer")
       /\ loc' = [loc EXCEPT ![t] = [NoLocals EXCEPT !.op = "error"]]
  ELSE Goto(t, "error") /\ UNCHANGED loc

\* A NULL pointer is dereferenced: the process, its threads and its memory
\* are gone; the project files stay.
Crash ==
  /\ up' = FALSE
  /\ lock' = NULL
  /\ slots' = [i \in Slots |-> NULL]
  /\ shell' = [s \in Shells |-> NoShell]
  /\ proc' = [s \in Shells |-> "none"]
  /\ pc' = [t \in Threads |-> Rest(t)]
  /\ loc' = [t \in Threads |-> NoLocals]
  /\ orphans' = 0
  /\ UNCHANGED file

\* Mutant: the search stops one entry late.
FirstFreeLate(i) == \A j \in Slots : j < i - 1 => slots[j] # NULL

\* get_entry_in_shells_vector
FirstFree(i) ==
  /\ slots[i] = NULL
  /\ \A j \in Slots : j < i => slots[j] # NULL

Full == \A i \in Slots : slots[i] # NULL

-----------------------------------------------------------------------------
(* The commands of the owner *)

\* shells_open: a request without width or height is refused at once.
RecvOpen(p, u) ==
  /\ pc[Handler] = "idle"
  /\ Goto(Handler, IF p = NULL THEN "fork" ELSE "lookup")
  /\ loc' = [loc EXCEPT ![Handler] =
       [NoLocals EXCEPT !.op = "open", !.proj = p, !.user = u]]
  /\ UNCHANGED <<up, lock, slots, shell, proc, file, orphans>>

RecvBadOpen ==
  /\ pc[Handler] = "idle"
  /\ FailOpen(Handler)
  /\ UNCHANGED <<up, lock, slots, shell, proc, file, orphans>>

\* close, keys, disconnect and resize name a shell by its index.
RecvShellCommand(op, i) ==
  /\ pc[Handler] = "idle"
  /\ Goto(Handler, "check")
  /\ loc' = [loc EXCEPT ![Handler] = [NoLocals EXCEPT !.op = op, !.slot = i]]
  /\ UNCHANGED <<up, lock, slots, shell, proc, file, orphans>>

\* shells_status: a project is running when its file can be opened.
RecvStatus(p) ==
  /\ pc[Handler] = "idle"
  /\ Goto(Handler, "answer")
  /\ loc' = [loc EXCEPT ![Handler] =
       [NoLocals EXCEPT !.op = "status", !.proj = p, !.running = file[p] # Absent]]
  /\ UNCHANGED <<up, lock, slots, shell, proc, file, orphans>>

\* shells_poweroff ends the process whatever the readers are doing.
RecvPoweroff ==
  /\ pc[Handler] = "idle"
  /\ Crash

-----------------------------------------------------------------------------
(* open_shell_or_project, run by the handler and by restarting readers *)

\* A file that exists names the slot of a running project.  A restart, or
\* an owner that sends no userid, returns without a word.  An empty file
\* leaves shell_index uninitialised: it may name any slot, or none.
Lookup(t) ==
  /\ pc[t] = "lookup"
  /\ \/ /\ file[loc[t].proj] = Absent
        /\ Goto(t, "fork")
        /\ UNCHANGED <<up, lock, slots, shell, proc, loc, orphans, file>>
     \/ /\ file[loc[t].proj] # Absent
        /\ t # Handler \/ ~loc[t].user
        /\ Return(t)
        /\ UNCHANGED <<up, lock, slots, shell, proc, orphans, file>>
     \/ /\ file[loc[t].proj] # Absent
        /\ t = Handler /\ loc[t].user
        /\ \E i \in Slots :
             /\ file[loc[t].proj] \in {i, Empty}
             /\ loc' = [loc EXCEPT ![t].slot = i]
        /\ Goto(t, "check")
        /\ UNCHANGED <<up, lock, slots, shell, proc, orphans, file>>
     \/ /\ file[loc[t].proj] = Empty
        /\ t = Handler /\ loc[t].user
        /\ Crash

\* strtol on the width and height of a request may fail, and so may forkpty.
Fork(t) ==
  /\ pc[t] = "fork"
  /\ \/ Goto(t, "alloc") /\ UNCHANGED loc
     \/ (t = Handler \/ ForkMayFail) /\ FailOpen(t)
  /\ UNCHANGED <<up, lock, slots, shell, proc, file, orphans>>

\* allocate_memory_for_new_shell: a restart has no request.
NewShell(t, i) ==
  [id |-> i, proj |-> loc[t].proj, user |-> loc[t].user,
   request |-> IF t = Handler THEN "open" ELSE NULL,
   connected |-> t = Handler]

\* The critical section that takes a slot.  Without a free one the code
\* jumps to _error, past the unlock and without killing the child.
Alloc(t) ==
  /\ pc[t] = "alloc"
  /\ lock = NULL
  /\ \/ /\ Full
        /\ lock' = t
        /\ orphans' = orphans + 1
        /\ FailOpen(t)
        /\ UNCHANGED <<up, slots, shell, proc, file>>
     \/ \E i \in Slots, s \in Shells :
        /\ FirstFree(i)
        /\ pc[s] = "unused"
        /\ slots' = [slots EXCEPT ![i] = s]
        /\ shell' = [shell EXCEPT ![s] = NewShell(t, i)]
        /\ proc' = [proc EXCEPT ![s] = "running"]
        /\ pc' = [pc EXCEPT ![s] = "new",
                            ![t] = IF loc[t].proj = NULL THEN "spawn" ELSE "mkfile"]
        /\ loc' = [loc EXCEPT ![t].slot = i]
        /\ UNCHANGED <<up, lock, file, orphans>>

\* open(O_CREAT), after the mutex is released.
MkFile(t) ==
  /\ pc[t] = "mkfile"
  /\ file' = [file EXCEPT ![loc[t].proj] = IF @ = Absent THEN Empty ELSE @]
  /\ loc' = [loc EXCEPT ![t].linked = TRUE]
  /\ Goto(t, "write")
  /\ UNCHANGED <<up, lock, slots, shell, proc, orphans>>

\* The index goes to the file that was opened, removed since or not.
WriteFile(t) ==
  /\ pc[t] = "write"
  /\ file' = IF loc[t].linked
             THEN [file EXCEPT ![loc[t].proj] = loc[t].slot]
             ELSE file
  /\ loc' = [loc EXCEPT ![t].linked = FALSE]
  /\ Goto(t, "spawn")
  /\ UNCHANGED <<up, lock, slots, shell, proc, orphans>>

\* pthread_create: the reader gets the shell found in the slot.
Spawn(t) ==
  /\ pc[t] = "spawn"
  /\ pc' = [pc EXCEPT ![slots[loc[t].slot]] = "reading",
                      ![t] = IF t = Handler THEN "answer" ELSE Rest(t)]
  /\ loc' = IF t = Handler THEN loc ELSE [loc EXCEPT ![t] = NoLocals]
  /\ UNCHANGED <<up, lock, slots, shell, proc, file, orphans>>

\* send_shells_open_response, and the answer to a status request.
Answer ==
  /\ pc[Handler] = "answer"
  /\ Return(Handler)
  /\ UNCHANGED <<up, lock, slots, shell, proc, file, orphans>>

-----------------------------------------------------------------------------
(* Commands on a shell that exists *)

\* The test for NULL, made before the mutex is taken.  A close of a shell
\* that is gone is answered; the other commands are dropped.
CheckSlot ==
  /\ pc[Handler] = "check"
  /\ \/ /\ slots[loc[Handler].slot] = NULL
        /\ Return(Handler)
     \/ /\ slots[loc[Handler].slot] # NULL
        /\ Goto(Handler, IF loc[Handler].op = "resize" THEN "use" ELSE "lock")
        /\ UNCHANGED loc
  /\ UNCHANGED <<up, lock, slots, shell, proc, file, orphans>>

\* The slot is read again under the mutex, and not tested again.
LockShell ==
  /\ pc[Handler] = "lock"
  /\ lock = NULL
  /\ \/ slots[loc[Handler].slot] = NULL /\ Crash
     \/ \E s \in Shells :
        /\ slots[loc[Handler].slot] = s
        /\ lock' = Handler
        /\ shell' = IF loc[Handler].op = "disconnect" THEN shell
                    ELSE [shell EXCEPT ![s].request = "freed"]
        /\ Goto(Handler, "update")
        /\ UNCHANGED <<up, slots, proc, file, loc, orphans>>

\* What each command leaves in the shell, and what it does next.
Updated(rec) ==
  CASE loc[Handler].op = "open" ->
         [rec EXCEPT !.request = "open", !.user = TRUE, !.connected = TRUE]
    [] loc[Handler].op \in {"close", "background"} ->
         [rec EXCEPT !.request = "close", !.connected = FALSE]
    [] loc[Handler].op = "keys" -> [rec EXCEPT !.request = "keys"]
    [] OTHER -> [rec EXCEPT !.connected = FALSE]

\* Mutant: the branch that ends the close of a background project returns
\* without unlocking.
UnlockForgotten == lock' = IF loc[Handler].op = "background" THEN lock ELSE NULL

Unlock == lock' = NULL

UpdateShell ==
  /\ pc[Handler] = "update"
  /\ shell' = [shell EXCEPT ![slots[loc[Handler].slot]] = Updated(@)]
  /\ Unlock
  /\ CASE loc[Handler].op = "open" ->
            /\ Goto(Handler, "answer")
            /\ loc' = [loc EXCEPT ![Handler].running = TRUE]
       [] loc[Handler].op \in {"close", "keys"} ->
            Goto(Handler, "use") /\ UNCHANGED loc
       [] OTHER -> Return(Handler)
  /\ UNCHANGED <<up, slots, proc, file, orphans>>

\* pid (close) or fdm (keys, resize) is read from the slot without the
\* mutex.  The stop command of the boards is kill -9.
UseShell ==
  /\ pc[Handler] = "use"
  /\ \/ slots[loc[Handler].slot] = NULL /\ Crash
     \/ \E s \in Shells :
        /\ slots[loc[Handler].slot] = s
        /\ proc' = IF loc[Handler].op = "close" /\ proc[s] = "running"
                   THEN [proc EXCEPT ![s] = "clean"] ELSE proc
        /\ Return(Handler)
        /\ UNCHANGED <<up, lock, slots, shell, file, orphans>>

-----------------------------------------------------------------------------
(* read_routine *)

\* Crashed children and the restarts they led to.
Restarts == {s \in Shells : proc[s] = "crash" \/ pc[s] \in OpenSteps \cup {"error"}}

\* "crash" stands for a non-zero exit code or SIGSEGV.
ChildDies(s) ==
  /\ proc[s] = "running"
  /\ \E d \in Deaths :
       /\ d = "crash" => Cardinality(Restarts) < MaxRestarts
       /\ proc' = [proc EXCEPT ![s] = d]
  /\ UNCHANGED <<up, lock, slots, shell, file, pc, loc, orphans>>

\* send_shells_close_response, to the last request; without one it is not sent.
SendCloseResponse(s) == loc' = [loc EXCEPT ![s].sent = shell[s].request]

\* Mutant: the reader does not wait for the child it reaps.
ReaderExitEarly(s) ==
  /\ pc[s] = "reading"
  /\ SendCloseResponse(s)
  /\ Goto(s, "decide")
  /\ UNCHANGED <<up, lock, slots, shell, proc, file, orphans>>

\* read fails, and waitpid returns.
ReaderExit(s) ==
  /\ pc[s] = "reading"
  /\ proc[s] # "running"
  /\ SendCloseResponse(s)
  /\ Goto(s, "decide")
  /\ UNCHANGED <<up, lock, slots, shell, proc, file, orphans>>

\* Taken without the mutex: a project nobody is connected to is restarted
\* if it crashed.  strdup(NULL) of an absent userid ends the process.
Decide(s) ==
  LET restarts == ~shell[s].connected /\ shell[s].proj # NULL /\ proc[s] = "crash"
  IN
  /\ pc[s] = "decide"
  /\ \/ /\ restarts /\ ~shell[s].user
        /\ Crash
     \/ /\ restarts => shell[s].user
        /\ loc' = IF restarts
                  THEN [loc EXCEPT ![s].op = "restart", ![s].user = TRUE,
                                   ![s].proj = shell[s].proj]
                  ELSE loc
        /\ Goto(s, "free")
        /\ UNCHANGED <<up, lock, slots, shell, proc, file, orphans>>

\* Mutant: the project file is left behind.
RemovesNothing(s) == {}

\* The path is built in 64 bytes: a longer name is not removed.
RemovedFiles(s) == {shell[s].proj} \ (LongIds \cup {NULL})

\* The critical section that removes the project file and frees the slot.
Free(s) ==
  /\ pc[s] = "free"
  /\ lock = NULL
  /\ file' = [p \in Projects |-> IF p \in RemovedFiles(s) THEN Absent ELSE file[p]]
  /\ slots' = [slots EXCEPT ![shell[s].id] = NULL]
  /\ shell' = [shell EXCEPT ![s] = NoShell]
  /\ proc' = [proc EXCEPT ![s] = "none"]
  /\ loc' = [t \in Threads |->
       CASE t = s /\ loc[s].op = "restart"  -> [loc[s] EXCEPT !.sent = NULL]
         [] t = s /\ loc[s].op # "restart"  -> NoLocals
         [] t # s -> [loc[t] EXCEPT !.linked = @ /\ loc[t].proj \notin RemovedFiles(s)]]
  /\ Goto(s, IF loc[s].op = "restart" THEN "lookup" ELSE Rest(s))
  /\ UNCHANGED <<up, lock, orphans>>

\* A restart that failed has nobody to answer: the reader logs it and ends,
\* and the project is not tried again.
GiveUp(s) ==
  /\ pc[s] = "error"
  /\ Return(s)
  /\ UNCHANGED <<up, lock, slots, shell, proc, file, orphans>>

-----------------------------------------------------------------------------

\* init_shells: the service manager starts the process again.
Boot ==
  /\ ~up
  /\ up' = TRUE
  /\ file' = [p \in Projects |-> Absent]
  /\ UNCHANGED <<lock, slots, shell, proc, pc, loc, orphans>>

Command ==
  \/ /\ "open" \in Commands
     /\ \/ \E p \in Projects \cup {NULL}, u \in UserGiven : RecvOpen(p, u)
        \/ RecvBadOpen
  \/ \E op \in Commands \cap {"close", "background", "keys", "disconnect", "resize"},
        i \in Slots : RecvShellCommand(op, i)
  \/ "status" \in Commands /\ \E p \in Projects : RecvStatus(p)
  \/ "poweroff" \in Commands /\ RecvPoweroff

\* The steps that wait for nothing, and those that wait for the mutex.
OpenStep(t) == Lookup(t) \/ Fork(t) \/ MkFile(t) \/ WriteFile(t) \/ Spawn(t)
HandlerStep == OpenStep(Handler) \/ Answer \/ CheckSlot \/ UpdateShell \/ UseShell
HandlerLock == Alloc(Handler) \/ LockShell
ReaderStep(s) == OpenStep(s) \/ ReaderExit(s) \/ Decide(s) \/ GiveUp(s)
ReaderLock(s) == Alloc(s) \/ Free(s)

Running ==
  \/ Command
  \/ HandlerStep
  \/ HandlerLock
  \/ \E s \in Shells : ReaderStep(s) \/ ReaderLock(s) \/ ChildDies(s)

Next == (up /\ Running) \/ Boot

Spec == Init /\ [][Next]_vars

\* Every thread is scheduled, and a thread that keeps finding the mutex free
\* gets it.  Commands, deaths of children and reboots are not promised.
Fairness ==
  /\ WF_vars(up /\ HandlerStep)
  /\ SF_vars(up /\ HandlerLock)
  /\ \A s \in Shells : WF_vars(up /\ ReaderStep(s)) /\ SF_vars(up /\ ReaderLock(s))

FairSpec == Spec /\ Fairness

-----------------------------------------------------------------------------
(* What must hold *)

\* Every variable holds a value of its kind.
TypeOK ==
  /\ up \in BOOLEAN
  /\ lock \in Threads \cup {NULL}
  /\ slots \in [Slots -> Shells \cup {NULL}]
  /\ shell \in [Shells -> ShellRec]
  /\ proc \in [Shells -> {"none", "running", "clean", "crash"}]
  /\ file \in [Projects -> Slots \cup {Absent, Empty}]
  /\ pc \in [Threads -> HandlerSteps \cup ReaderSteps]
  /\ pc[Handler] \in HandlerSteps
  /\ \A s \in Shells : pc[s] \in ReaderSteps
  /\ loc \in [Threads -> Locals]
  /\ orphans \in Nat

\* shells_vector and the live shell_t structures point at each other.  So a
\* reader frees its own shell and no other, exactly once, and no slot is
\* handed out while a reader still works on what is in it, although slots
\* are read, and readers started, outside the mutex.
SlotsMatchShells ==
  /\ \A i \in Slots : slots[i] # NULL =>
       pc[slots[i]] \in Allocated /\ shell[slots[i]].id = i
  /\ \A s \in Shells : pc[s] \in Allocated => slots[shell[s].id] = s

\* A project file exists only while a shell of its project is in the table,
\* and names the slot of such a shell or nothing yet: a status answer never
\* reports a project that is gone, and no request is led to a shell of
\* another project, although the file is written after the mutex is released
\* and may be written by two openers of the same project.
FileNamesItsProject ==
  up => \A p \in Projects \ LongIds : file[p] # Absent =>
    \E s \in Shells :
      /\ pc[s] \in Allocated
      /\ shell[s].proj = p
      /\ file[p] \in {shell[s].id, Empty}

\* The mutex is held by the handler between LockShell and UpdateShell, or
\* for ever by a thread that found the table full; that happens once in the
\* life of the process, whatever the interleaving.
MutexLostOnlyByOverflow ==
  /\ pc[Handler] = "update" => lock = Handler /\ slots[loc[Handler].slot] # NULL
  /\ lock # NULL /\ pc[Handler] # "update" => orphans = 1
  /\ orphans # 0 => lock # NULL /\ pc[Handler] # "update"

\* A slot changes hands only through a free: a shell that is in the table
\* stays there until its child is dead and its reader has reaped it.
SlotsAreReleasedFirst ==
  [][up' => \A i \in Slots : slots[i] # NULL /\ slots'[i] # slots[i] =>
       /\ slots'[i] = NULL
       /\ pc[slots[i]] = "free"
       /\ proc[slots[i]] \in {"clean", "crash"}]_vars

\* The inductive invariant also needs who owns the shell that has no reader
\* yet, that a thread which uses a project file has a project, and that a
\* reader past waitpid has a dead child.
Opening == {"mkfile", "write", "spawn"}

OpenersOwnNewShells ==
  /\ \A t \in Threads : pc[t] \in Opening =>
       /\ slots[loc[t].slot] # NULL
       /\ pc[slots[loc[t].slot]] = "new"
       /\ shell[slots[loc[t].slot]].proj = loc[t].proj
  /\ \A t, u \in Threads :
       pc[t] \in Opening /\ pc[u] \in Opening /\ loc[t].slot = loc[u].slot => t = u

ProjectIsKnown ==
  /\ \A t \in Threads : pc[t] \in {"lookup", "mkfile", "write"} => loc[t].proj # NULL
  /\ \A t \in Threads : loc[t].op = "restart" => loc[t].proj # NULL

ChildrenMatchReaders ==
  \A s \in Shells :
    /\ pc[s] \in {"new", "reading"} => proc[s] # "none"
    /\ pc[s] \in {"decide", "free"} => proc[s] \in {"clean", "crash"}

IInv ==
  /\ TypeOK
  /\ SlotsMatchShells
  /\ FileNamesItsProject
  /\ MutexLostOnlyByOverflow
  /\ OpenersOwnNewShells
  /\ ProjectIsKnown
  /\ ChildrenMatchReaders

\* What is to be seen of all this: the sessions in the table, and the projects
\* whose file holds a number.
InUse == {i \in Slots : slots[i] # NULL}
Session(i) == [project |-> shell[slots[i]].proj, connected |-> shell[slots[i]].connected,
               process |-> proc[slots[i]]]
Sessions == [i \in InUse |-> Session(i)]

Announced == {p \in Projects \ LongIds : up /\ file[p] \in Slots}
Found == [p \in Announced |-> file[p]]

\* The threads together work on the table as if each step on it were one: a
\* session gets the lowest free number, keeps its project, ends once and goes
\* after it has ended; and what is found under a number is there.
Table == INSTANCE SessionTable WITH
  Programs <- Projects \cup {NULL}, Projects <- Projects \ LongIds,
  table <- Sessions, found <- Found
ImplementsTable == Table!Spec

Stuck == orphans # 0

\* A child that dies is reaped and its slot is freed, unless the mutex was
\* lost by an overflow.
DeadShellsAreFreed ==
  \A s \in Shells : proc[s] \in {"clean", "crash"} ~> (proc[s] = "none" \/ Stuck)

\* A project that crashes with nobody connected is in the table again after
\* its reader is done, or the handler opened it meanwhile, unless the one
\* attempt its reader makes fails: forkpty has no process or no terminal
\* left, and the project is lost without a word to its owner.
BackgroundCrashIsRepaired ==
  \A s \in Shells, p \in Projects \ LongIds :
    (loc[s].op = "restart" /\ loc[s].proj = p) ~>
      \/ \E r \in Shells \ {s} : pc[r] \in Allocated /\ shell[r].proj = p
      \/ pc[s] = "error"
      \/ Stuck
      \/ ~up

\* The handler comes back for the next command, unless the mutex is lost.
HandlerComesBack == pc[Handler] # "idle" ~> (pc[Handler] = "idle" \/ Stuck)

-----------------------------------------------------------------------------
(* What the repository says of the program and the code does not do *)

\* shells.c: "If an error occurs after this point, the child process should
\* be killed": no open leaves a child without a shell.
FailedOpenKillsChild == orphans = 0

\* shellsmodule.rst: "running" in an open response corresponds to the state
\* of the project.
RunningMatchesState ==
  pc[Handler] = "answer" /\ loc[Handler].op = "open" /\ loc[Handler].proj # NULL =>
    LET others == {s \in Shells :
                     /\ pc[s] \in {"reading", "decide"}
                     /\ shell[s].proj = loc[Handler].proj
                     /\ shell[s].id # loc[Handler].slot}
    IN  ~loc[Handler].running => others = {}

\* shellsmodule.rst: the close response of a shell that was asked to close
\* carries the request that asked for it.
CloseIsAnswered ==
  \A s \in Shells : pc[s] = "free" /\ shell[s].request = "close"
                      => loc[s].sent = "close"
=============================================================================
