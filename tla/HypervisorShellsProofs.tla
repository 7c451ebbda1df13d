----------------------- MODULE HypervisorShellsProofs -----------------------
(***************************************************************************)
(* What TLAPS proves of HypervisorShells for every number of slots, shells *)
(* and projects, every way children die and every command of the owner.    *)
(***************************************************************************)
EXTENDS HypervisorShells, TLAPS

-----------------------------------------------------------------------------
(* Type correctness *)

\* The records a thread or a shell starts from have the right type.
LEMMA EmptyRecords ==
  /\ 0 \in Slots
  /\ NoShell \in ShellRec
  /\ NoLocals \in Locals
<1>1. 0 \in Slots
  BY ConstantsAssumption DEF Slots
<1> QED
  BY <1>1 DEF NoShell, ShellRec, NoLocals, Locals, Ops

\* Where a thread rests.
LEMMA RestType ==
  ASSUME NEW t \in Threads
  PROVE  /\ Rest(t) \in HandlerSteps \cup ReaderSteps
         /\ t = Handler => Rest(t) = "idle"
         /\ t \in Shells => Rest(t) = "unused" /\ t # Handler
BY ConstantsAssumption DEF Rest, HandlerSteps, ReaderSteps, Threads

LEMMA InitTypeOK == Init => TypeOK
<1> SUFFICES ASSUME Init PROVE TypeOK
  OBVIOUS
<1>1. pc \in [Threads -> HandlerSteps \cup ReaderSteps]
  BY RestType DEF Init
<1>2. pc[Handler] \in HandlerSteps /\ \A s \in Shells : pc[s] \in ReaderSteps
  BY RestType DEF Init, HandlerSteps, ReaderSteps, Threads
<1>3. file \in [Projects -> Slots \cup {Absent, Empty}]
  BY DEF Init
<1> QED
  BY <1>1, <1>2, <1>3, EmptyRecords DEF Init, TypeOK

\* After a crash everything but the files is as it was at the start.
LEMMA CrashTypeOK == TypeOK /\ Crash => TypeOK'
<1> SUFFICES ASSUME TypeOK, Crash PROVE TypeOK'
  OBVIOUS
<1>1. (pc \in [Threads -> HandlerSteps \cup ReaderSteps])'
  BY RestType DEF Crash
<1>2. (pc[Handler] \in HandlerSteps /\ \A s \in Shells : pc[s] \in ReaderSteps)'
  BY RestType DEF Crash, HandlerSteps, ReaderSteps, Threads
<1> QED
  BY <1>1, <1>2, EmptyRecords DEF Crash, TypeOK

\* A program counter set by Goto is one the thread may have.
LEMMA GotoType ==
  ASSUME TypeOK, NEW t \in Threads, NEW step,
         t = Handler => step \in HandlerSteps,
         t # Handler => step \in ReaderSteps,
         Goto(t, step)
  PROVE  /\ (pc \in [Threads -> HandlerSteps \cup ReaderSteps])'
         /\ (pc[Handler] \in HandlerSteps)'
         /\ (\A s \in Shells : pc[s] \in ReaderSteps)'
BY ConstantsAssumption DEF TypeOK, Goto, Threads

LEMMA ReturnType ==
  ASSUME TypeOK, NEW t \in Threads, Return(t)
  PROVE  /\ (pc \in [Threads -> HandlerSteps \cup ReaderSteps])'
         /\ (pc[Handler] \in HandlerSteps)'
         /\ (\A s \in Shells : pc[s] \in ReaderSteps)'
         /\ (loc \in [Threads -> Locals])'
<1>1. /\ t = Handler => Rest(t) \in HandlerSteps
      /\ t # Handler => Rest(t) \in ReaderSteps
  BY DEF Rest, HandlerSteps, ReaderSteps
<1>2. Goto(t, Rest(t)) /\ loc' = [loc EXCEPT ![t] = NoLocals]
  BY DEF Return
<1>3. (loc \in [Threads -> Locals])'
  BY <1>2, EmptyRecords DEF TypeOK
<1> QED
  BY <1>1, <1>2, <1>3, GotoType

LEMMA FailOpenType ==
  ASSUME TypeOK, NEW t \in Threads, FailOpen(t)
  PROVE  /\ (pc \in [Threads -> HandlerSteps \cup ReaderSteps])'
         /\ (pc[Handler] \in HandlerSteps)'
         /\ (\A s \in Shells : pc[s] \in ReaderSteps)'
         /\ (loc \in [Threads -> Locals])'
<1>1. CASE t = Handler
  <2>1. Goto(t, "answer") /\ loc' = [loc EXCEPT ![t] = [NoLocals EXCEPT !.op = "error"]]
    BY <1>1 DEF FailOpen
  <2>2. [NoLocals EXCEPT !.op = "error"] \in Locals
    BY EmptyRecords DEF NoLocals, Locals, Ops
  <2>3. (loc \in [Threads -> Locals])'
    BY <2>1, <2>2 DEF TypeOK
  <2> QED
    BY <1>1, <2>1, <2>3, GotoType DEF HandlerSteps
<1>2. CASE t # Handler
  <2>1. Goto(t, "error") /\ loc' = loc
    BY <1>2 DEF FailOpen
  <2> QED
    BY <1>2, <2>1, GotoType DEF HandlerSteps, ReaderSteps, TypeOK
<1> QED
  BY <1>1, <1>2

LEMMA CommandTypeOK == TypeOK /\ Command => TypeOK'
<1> SUFFICES ASSUME TypeOK, Command PROVE TypeOK'
  OBVIOUS
<1>0. Handler \in Threads
  BY DEF Threads
<1>1. ASSUME NEW p \in Projects \cup {NULL}, NEW u \in UserGiven, RecvOpen(p, u)
      PROVE TypeOK'
  <2> DEFINE l == [NoLocals EXCEPT !.op = "open", !.proj = p, !.user = u]
  <2>1. l \in Locals
    BY EmptyRecords, ConstantsAssumption DEF NoLocals, Locals, Ops
  <2>2. (loc \in [Threads -> Locals])'
    BY <1>1, <2>1 DEF RecvOpen, TypeOK
  <2>3. Goto(Handler, IF p = NULL THEN "fork" ELSE "lookup")
    BY <1>1 DEF RecvOpen
  <2>4. (IF p = NULL THEN "fork" ELSE "lookup") \in HandlerSteps
    BY DEF HandlerSteps, OpenSteps
  <2> QED
    BY <1>0, <1>1, <2>2, <2>3, <2>4, GotoType DEF RecvOpen, TypeOK
<1>2. CASE RecvBadOpen
  BY <1>0, <1>2, FailOpenType DEF RecvBadOpen, TypeOK
<1>3. ASSUME NEW op \in Commands \cap {"close", "background", "keys", "disconnect", "resize"},
             NEW i \in Slots, RecvShellCommand(op, i)
      PROVE TypeOK'
  <2> DEFINE l == [NoLocals EXCEPT !.op = op, !.slot = i]
  <2>1. l \in Locals
    BY EmptyRecords DEF NoLocals, Locals, Ops
  <2>2. (loc \in [Threads -> Locals])'
    BY <1>3, <2>1 DEF RecvShellCommand, TypeOK
  <2>3. Goto(Handler, "check") /\ "check" \in HandlerSteps
    BY <1>3 DEF RecvShellCommand, HandlerSteps
  <2> QED
    BY <1>0, <1>3, <2>2, <2>3, GotoType DEF RecvShellCommand, TypeOK
<1>4. ASSUME NEW p \in Projects, RecvStatus(p)
      PROVE TypeOK'
  <2> DEFINE l == [NoLocals EXCEPT !.op = "status", !.proj = p, !.running = file[p] # Absent]
  <2>1. l \in Locals
    BY EmptyRecords DEF NoLocals, Locals, Ops
  <2>2. (loc \in [Threads -> Locals])'
    BY <1>4, <2>1 DEF RecvStatus, TypeOK
  <2>3. Goto(Handler, "answer") /\ "answer" \in HandlerSteps
    BY <1>4 DEF RecvStatus, HandlerSteps
  <2> QED
    BY <1>0, <1>4, <2>2, <2>3, GotoType DEF RecvStatus, TypeOK
<1>5. CASE RecvPoweroff
  BY <1>5, CrashTypeOK DEF RecvPoweroff
<1> QED
  BY <1>1, <1>2, <1>3, <1>4, <1>5 DEF Command

\* A field of a thread's locals given a value of its type.
LEMMA LocalsField ==
  ASSUME TypeOK, NEW t \in Threads
  PROVE  /\ loc[t] \in Locals
         /\ \A i \in Slots : [loc EXCEPT ![t].slot = i] \in [Threads -> Locals]
         /\ \A b \in BOOLEAN :
              /\ [loc EXCEPT ![t].linked = b] \in [Threads -> Locals]
              /\ [loc EXCEPT ![t].running = b] \in [Threads -> Locals]
         /\ \A r \in RequestKinds \cup {NULL} :
              [loc EXCEPT ![t].sent = r] \in [Threads -> Locals]
<1>1. loc \in [Threads -> Locals]
  BY DEF TypeOK
<1>2. loc[t] \in Locals
  BY <1>1
<1> QED
  BY <1>1, <1>2 DEF Locals

LEMMA OpenTypeOK ==
  ASSUME TypeOK, NEW t \in Threads,
         Lookup(t) \/ Fork(t) \/ Alloc(t) \/ MkFile(t) \/ WriteFile(t) \/ Spawn(t)
  PROVE  TypeOK'
<1>0. /\ loc[t].slot \in Slots
      /\ loc[t].proj \in Projects \cup {NULL}
      /\ loc[t].user \in BOOLEAN
  BY LocalsField DEF Locals
<1>s. OpenSteps \subseteq HandlerSteps /\ OpenSteps \subseteq ReaderSteps
  BY DEF HandlerSteps, ReaderSteps
<1>1. CASE Lookup(t)
  <2>1. CASE Crash
    BY <2>1, CrashTypeOK
  <2>2. CASE Goto(t, "fork") /\ UNCHANGED <<up, lock, slots, shell, proc, loc, orphans, file>>
    <3>1. "fork" \in HandlerSteps /\ "fork" \in ReaderSteps
      BY <1>s DEF OpenSteps
    <3> QED
      BY <2>2, <3>1, GotoType DEF TypeOK
  <2>3. CASE Return(t) /\ UNCHANGED <<up, lock, slots, shell, proc, orphans, file>>
    BY <2>3, ReturnType DEF TypeOK
  <2>4. CASE /\ t = Handler
             /\ \E i \in Slots : loc' = [loc EXCEPT ![t].slot = i]
             /\ Goto(t, "check")
             /\ UNCHANGED <<up, lock, slots, shell, proc, orphans, file>>
    <3>1. (loc \in [Threads -> Locals])'
      BY <2>4, LocalsField
    <3>2. "check" \in HandlerSteps
      BY DEF HandlerSteps
    <3> QED
      BY <2>4, <3>1, <3>2, GotoType DEF TypeOK
  <2> QED
    BY <1>1, <2>1, <2>2, <2>3, <2>4 DEF Lookup
<1>2. CASE Fork(t)
  <2>1. "alloc" \in HandlerSteps /\ "alloc" \in ReaderSteps
    BY <1>s DEF OpenSteps
  <2> QED
    BY <1>2, <2>1, GotoType, FailOpenType DEF Fork, TypeOK
<1>3. CASE Alloc(t)
  <2>1. CASE /\ lock' = t
             /\ orphans' = orphans + 1
             /\ FailOpen(t)
             /\ UNCHANGED <<up, slots, shell, proc, file>>
    BY <2>1, FailOpenType DEF TypeOK
  <2>2. ASSUME NEW i \in Slots, NEW s \in Shells,
               pc[s] = "unused",
               slots' = [slots EXCEPT ![i] = s],
               shell' = [shell EXCEPT ![s] =
                 [id |-> i, proj |-> loc[t].proj, user |-> loc[t].user,
                  request |-> IF t = Handler THEN "open" ELSE NULL,
                  connected |-> t = Handler]],
               proc' = [proc EXCEPT ![s] = "running"],
               pc' = [pc EXCEPT ![s] = "new",
                                ![t] = IF loc[t].proj = NULL THEN "spawn" ELSE "mkfile"],
               loc' = [loc EXCEPT ![t].slot = i],
               UNCHANGED <<up, lock, file, orphans>>
        PROVE TypeOK'
    <3>1. [id |-> i, proj |-> loc[t].proj, user |-> loc[t].user,
           request |-> IF t = Handler THEN "open" ELSE NULL,
           connected |-> t = Handler] \in ShellRec
      BY <1>0 DEF ShellRec, RequestKinds
    <3>2. (shell \in [Shells -> ShellRec])'
      BY <2>2, <3>1 DEF TypeOK
    <3>3. (loc \in [Threads -> Locals])'
      BY <2>2, LocalsField
    <3>4. /\ (IF loc[t].proj = NULL THEN "spawn" ELSE "mkfile") \in OpenSteps
          /\ "new" \in ReaderSteps
      BY DEF OpenSteps, ReaderSteps
    <3>5. /\ (pc \in [Threads -> HandlerSteps \cup ReaderSteps])'
          /\ (pc[Handler] \in HandlerSteps)'
          /\ (\A r \in Shells : pc[r] \in ReaderSteps)'
      BY <2>2, <3>4, <1>s, ConstantsAssumption DEF TypeOK, Threads
    <3> QED
      BY <2>2, <3>2, <3>3, <3>5 DEF TypeOK
  <2> QED
    BY <1>3, <2>1, <2>2 DEF Alloc, NewShell
<1>4. CASE MkFile(t)
  <2>1. "write" \in HandlerSteps /\ "write" \in ReaderSteps
    BY <1>s DEF OpenSteps
  <2>2. (loc \in [Threads -> Locals])'
    BY <1>4, LocalsField DEF MkFile
  <2>3. (file \in [Projects -> Slots \cup {Absent, Empty}])'
    BY <1>4 DEF MkFile, TypeOK
  <2> QED
    BY <1>4, <2>1, <2>2, <2>3, GotoType DEF MkFile, TypeOK
<1>5. CASE WriteFile(t)
  <2>1. "spawn" \in HandlerSteps /\ "spawn" \in ReaderSteps
    BY <1>s DEF OpenSteps
  <2>2. (loc \in [Threads -> Locals])'
    BY <1>5, LocalsField DEF WriteFile
  <2>3. (file \in [Projects -> Slots \cup {Absent, Empty}])'
    BY <1>0, <1>5 DEF WriteFile, TypeOK
  <2> QED
    BY <1>5, <2>1, <2>2, <2>3, GotoType DEF WriteFile, TypeOK
<1>6. CASE Spawn(t)
  <2>1. slots[loc[t].slot] \in Shells \cup {NULL}
    BY <1>0 DEF TypeOK
  <2>2. (loc \in [Threads -> Locals])'
    BY <1>6, EmptyRecords DEF Spawn, TypeOK
  <2>3. /\ (IF t = Handler THEN "answer" ELSE Rest(t)) \in HandlerSteps \cup ReaderSteps
        /\ t = Handler => (IF t = Handler THEN "answer" ELSE Rest(t)) \in HandlerSteps
        /\ t # Handler => (IF t = Handler THEN "answer" ELSE Rest(t)) \in ReaderSteps
        /\ "reading" \in ReaderSteps
    BY DEF HandlerSteps, ReaderSteps, Rest
  <2>4. /\ (pc \in [Threads -> HandlerSteps \cup ReaderSteps])'
        /\ (pc[Handler] \in HandlerSteps)'
        /\ (\A r \in Shells : pc[r] \in ReaderSteps)'
    BY <1>6, <2>1, <2>3, ConstantsAssumption DEF Spawn, TypeOK, Threads
  <2> QED
    BY <1>6, <2>2, <2>4 DEF Spawn, TypeOK
<1> QED
  BY <1>1, <1>2, <1>3, <1>4, <1>5, <1>6

LEMMA HandlerTypeOK ==
  ASSUME TypeOK, Answer \/ CheckSlot \/ LockShell \/ UpdateShell \/ UseShell
  PROVE  TypeOK'
<1>0. Handler \in Threads /\ loc[Handler] \in Locals /\ loc[Handler].slot \in Slots
  BY LocalsField DEF Threads, Locals
<1>1. CASE Answer
  BY <1>0, <1>1, ReturnType DEF Answer, TypeOK
<1>2. CASE CheckSlot
  <2>1. CASE Return(Handler)
    BY <1>0, <1>2, <2>1, ReturnType DEF CheckSlot, TypeOK
  <2>2. CASE /\ Goto(Handler, IF loc[Handler].op = "resize" THEN "use" ELSE "lock")
             /\ UNCHANGED loc
    <3>1. (IF loc[Handler].op = "resize" THEN "use" ELSE "lock") \in HandlerSteps
      BY DEF HandlerSteps
    <3> QED
      BY <1>0, <1>2, <2>2, <3>1, GotoType DEF CheckSlot, TypeOK
  <2> QED
    BY <1>2, <2>1, <2>2 DEF CheckSlot
<1>3. CASE LockShell
  <2>1. CASE Crash
    BY <2>1, CrashTypeOK
  <2>2. ASSUME NEW s \in Shells,
               lock' = Handler,
               shell' = IF loc[Handler].op = "disconnect" THEN shell
                        ELSE [shell EXCEPT ![s].request = "freed"],
               Goto(Handler, "update"),
               UNCHANGED <<up, slots, proc, file, loc, orphans>>
        PROVE TypeOK'
    <3>1. (shell \in [Shells -> ShellRec])'
      BY <2>2 DEF TypeOK, ShellRec, RequestKinds
    <3>2. "update" \in HandlerSteps
      BY DEF HandlerSteps
    <3> QED
      BY <1>0, <2>2, <3>1, <3>2, GotoType DEF TypeOK
  <2> QED
    BY <1>3, <2>1, <2>2 DEF LockShell
<1>4. CASE UpdateShell
  <2>1. \A rec \in ShellRec : Updated(rec) \in ShellRec
    BY DEF Updated, ShellRec, RequestKinds
  <2>2. (shell \in [Shells -> ShellRec])'
    BY <1>4, <2>1 DEF UpdateShell, Unlock, TypeOK
  <2>3. CASE Goto(Handler, "answer") /\ loc' = [loc EXCEPT ![Handler].running = TRUE]
    <3>1. (loc \in [Threads -> Locals])'
      BY <1>0, <2>3, LocalsField
    <3>2. "answer" \in HandlerSteps
      BY DEF HandlerSteps
    <3> QED
      BY <1>0, <1>4, <2>2, <2>3, <3>1, <3>2, GotoType DEF UpdateShell, Unlock, TypeOK
  <2>4. CASE Goto(Handler, "use") /\ UNCHANGED loc
    <3>1. "use" \in HandlerSteps
      BY DEF HandlerSteps
    <3> QED
      BY <1>0, <1>4, <2>2, <2>4, <3>1, GotoType DEF UpdateShell, Unlock, TypeOK
  <2>5. CASE Return(Handler)
    BY <1>0, <1>4, <2>2, <2>5, ReturnType DEF UpdateShell, Unlock, TypeOK
  <2> QED
    BY <1>4, <2>3, <2>4, <2>5 DEF UpdateShell, Unlock
<1>5. CASE UseShell
  <2>1. CASE Crash
    BY <2>1, CrashTypeOK
  <2>2. ASSUME NEW s \in Shells,
               proc' = IF loc[Handler].op = "close" /\ proc[s] = "running"
                       THEN [proc EXCEPT ![s] = "clean"] ELSE proc,
               Return(Handler),
               UNCHANGED <<up, lock, slots, shell, file, orphans>>
        PROVE TypeOK'
    BY <1>0, <2>2, ReturnType DEF TypeOK
  <2> QED
    BY <1>5, <2>1, <2>2 DEF UseShell
<1> QED
  BY <1>1, <1>2, <1>3, <1>4, <1>5

LEMMA ReaderTypeOK ==
  ASSUME TypeOK, NEW s \in Shells,
         ChildDies(s) \/ ReaderExit(s) \/ Decide(s) \/ Free(s) \/ GiveUp(s)
  PROVE  TypeOK'
<1>0. s \in Threads /\ s # Handler /\ shell[s] \in ShellRec /\ loc[s] \in Locals
  BY LocalsField, ConstantsAssumption DEF TypeOK, Threads
<1>1. CASE ChildDies(s)
  BY <1>1, ConstantsAssumption DEF ChildDies, TypeOK
<1>2. CASE ReaderExit(s)
  <2>1. (loc \in [Threads -> Locals])'
    BY <1>0, <1>2, LocalsField DEF ReaderExit, SendCloseResponse, ShellRec
  <2>2. "decide" \in ReaderSteps
    BY DEF ReaderSteps
  <2> QED
    BY <1>0, <1>2, <2>1, <2>2, GotoType DEF ReaderExit, SendCloseResponse, TypeOK
<1>3. CASE Decide(s)
  <2>1. CASE Crash
    BY <2>1, CrashTypeOK
  <2>2. CASE ~Crash
    <3>1. (loc \in [Threads -> Locals])'
      <4>1. \/ loc' = loc
            \/ loc' = [loc EXCEPT ![s].op = "restart", ![s].user = TRUE,
                                  ![s].proj = shell[s].proj]
        BY <1>3, <2>2 DEF Decide
      <4>2. shell[s].proj \in Projects \cup {NULL} /\ "restart" \in Ops
        BY <1>0 DEF ShellRec, Ops
      <4> QED
        BY <1>0, <4>1, <4>2 DEF TypeOK, Locals
    <3>2. Goto(s, "free") /\ "free" \in ReaderSteps
      BY <1>3, <2>2 DEF Decide, ReaderSteps
    <3> QED
      BY <1>0, <1>3, <2>2, <3>1, <3>2, GotoType DEF Decide, TypeOK
  <2> QED
    BY <2>1, <2>2
<1>4. CASE Free(s)
  <2>1. (file \in [Projects -> Slots \cup {Absent, Empty}])'
    BY <1>4 DEF Free, TypeOK
  <2>2. (loc \in [Threads -> Locals])'
    <3> SUFFICES ASSUME NEW t \in Threads PROVE loc'[t] \in Locals
      BY <1>4 DEF Free
    <3>1. loc[t] \in Locals
      BY LocalsField
    <3>2. CASE t = s /\ loc[s].op = "restart"
      <4>1. loc'[t] = [loc[s] EXCEPT !.sent = NULL]
        BY <1>4, <3>2 DEF Free
      <4> QED
        BY <1>0, <4>1 DEF Locals
    <3>3. CASE t = s /\ loc[s].op # "restart"
      BY <1>4, <3>3, EmptyRecords DEF Free
    <3>4. CASE t # s
      <4>1. loc'[t] = [loc[t] EXCEPT !.linked = @ /\ loc[t].proj \notin RemovedFiles(s)]
        BY <1>4, <3>4 DEF Free
      <4> QED
        BY <3>1, <4>1 DEF Locals
    <3> QED
      BY <3>2, <3>3, <3>4
  <2>3. (IF loc[s].op = "restart" THEN "lookup" ELSE Rest(s)) \in ReaderSteps
    BY <1>0 DEF Rest, ReaderSteps, OpenSteps
  <2>4. /\ (pc \in [Threads -> HandlerSteps \cup ReaderSteps])'
        /\ (pc[Handler] \in HandlerSteps)'
        /\ (\A r \in Shells : pc[r] \in ReaderSteps)'
    BY <1>0, <1>4, <2>3, GotoType DEF Free
  <2>5. (slots \in [Slots -> Shells \cup {NULL}])'
    BY <1>4 DEF Free, TypeOK
  <2>6. (shell \in [Shells -> ShellRec])'
    BY <1>4, EmptyRecords DEF Free, TypeOK
  <2> QED
    BY <1>4, <2>1, <2>2, <2>4, <2>5, <2>6 DEF Free, TypeOK
<1>5. CASE GiveUp(s)
  BY <1>0, <1>5, ReturnType DEF GiveUp, TypeOK
<1> QED
  BY <1>1, <1>2, <1>3, <1>4, <1>5

LEMMA NextTypeOK == TypeOK /\ [Next]_vars => TypeOK'
<1> SUFFICES ASSUME TypeOK, [Next]_vars PROVE TypeOK'
  OBVIOUS
<1>1. CASE Command
  BY <1>1, CommandTypeOK
<1>2. CASE HandlerStep \/ HandlerLock
  BY <1>2, OpenTypeOK, HandlerTypeOK DEF HandlerStep, HandlerLock, OpenStep, Threads
<1>3. ASSUME NEW s \in Shells, ReaderStep(s) \/ ReaderLock(s) \/ ChildDies(s)
      PROVE TypeOK'
  BY <1>3, OpenTypeOK, ReaderTypeOK DEF ReaderStep, ReaderLock, OpenStep, Threads
<1>4. CASE Boot
  BY <1>4 DEF Boot, TypeOK
<1>5. CASE UNCHANGED vars
  BY <1>5 DEF vars, TypeOK
<1> QED
  BY <1>1, <1>2, <1>3, <1>4, <1>5 DEF Next, Running

\* Type correctness, for every value of the constants.
THEOREM TypeCorrect == Spec => []TypeOK
<1> QED
  BY InitTypeOK, NextTypeOK, PTL DEF Spec

-----------------------------------------------------------------------------
(* The inductive invariant *)

LEMMA InitIInv == Init => IInv
<1> SUFFICES ASSUME Init PROVE IInv
  OBVIOUS
<1>1. TypeOK
  BY InitTypeOK
<1>2. \A t \in Threads : pc[t] \in {"idle", "unused"}
  BY DEF Init, Rest
<1>3. Handler \in Threads /\ Shells \subseteq Threads
  BY DEF Threads
<1>4. \A p \in Projects : file[p] = Absent
  BY DEF Init
<1>5. \A i \in Slots : slots[i] = NULL
  BY DEF Init
<1>6. \A t \in Threads : loc[t].op = "none"
  BY DEF Init, NoLocals
<1> QED
  BY <1>1, <1>2, <1>3, <1>4, <1>5, <1>6
  DEF Init, IInv, SlotsMatchShells, FileNamesItsProject, MutexLostOnlyByOverflow,
      OpenersOwnNewShells, ProjectIsKnown, ChildrenMatchReaders, Allocated, Opening

LEMMA CrashIInv == IInv /\ Crash => IInv'
<1> SUFFICES ASSUME IInv, Crash PROVE IInv'
  OBVIOUS
<1>1. TypeOK'
  BY CrashTypeOK DEF IInv
<1>2. \A t \in Threads : pc'[t] \in {"idle", "unused"}
  BY DEF Crash, Rest
<1>3. Handler \in Threads /\ Shells \subseteq Threads
  BY DEF Threads
<1>4. \A i \in Slots : slots'[i] = NULL
  BY DEF Crash
<1>5. \A t \in Threads : loc'[t].op = "none"
  BY DEF Crash, NoLocals
<1>6. ~up' /\ lock' = NULL /\ orphans' = 0
  BY DEF Crash
<1> QED
  BY <1>1, <1>2, <1>3, <1>4, <1>5, <1>6
  DEF IInv, SlotsMatchShells, FileNamesItsProject, MutexLostOnlyByOverflow,
      OpenersOwnNewShells, ProjectIsKnown, ChildrenMatchReaders, Allocated, Opening

\* The project files stay right while every shell in the table stays there.
LEMMA FilesKept ==
  ASSUME FileNamesItsProject, up' => up, UNCHANGED file,
         \A s \in Shells : pc[s] \in Allocated =>
           /\ pc'[s] \in Allocated
           /\ shell'[s].id = shell[s].id
           /\ shell'[s].proj = shell[s].proj
  PROVE  FileNamesItsProject'
BY DEF FileNamesItsProject

\* A thread that neither takes nor leaves a slot or a project file keeps the
\* invariant if it keeps what the mutex promises, whatever it does to its own
\* locals, to the requests of the shells and to the children that run.
LEMMA TableKeptIInv ==
  ASSUME IInv, TypeOK', NEW t \in Threads, NEW step,
         Goto(t, step),
         pc[t] \notin Allocated \cup Opening,
         step \notin Allocated \cup Opening,
         step = "lookup" => loc'[t].proj # NULL,
         loc'[t].op = "restart" => loc'[t].proj # NULL,
         \A u \in Threads \ {t} : loc'[u] = loc[u],
         \A s \in Shells : /\ shell'[s].id = shell[s].id
                           /\ shell'[s].proj = shell[s].proj,
         \A s \in Shells : \/ proc'[s] = proc[s]
                           \/ proc[s] = "running" /\ proc'[s] = "clean",
         MutexLostOnlyByOverflow',
         UNCHANGED <<up, slots, file>>
  PROVE  IInv'
<1>1. /\ pc'[t] = step
      /\ \A u \in Threads \ {t} : pc'[u] = pc[u]
  BY DEF IInv, TypeOK, Goto
<1>2. Handler \in Threads /\ Shells \subseteq Threads /\ NULL \notin Shells
  BY ConstantsAssumption DEF Threads
<1>3. SlotsMatchShells'
  <2>1. ASSUME NEW i \in Slots, slots[i] # NULL
        PROVE  pc'[slots[i]] \in Allocated /\ shell'[slots[i]].id = i
    <3>1. slots[i] \in Shells /\ pc[slots[i]] \in Allocated /\ shell[slots[i]].id = i
      BY <2>1 DEF IInv, TypeOK, SlotsMatchShells
    <3> QED
      BY <1>1, <1>2, <3>1
  <2>2. ASSUME NEW s \in Shells, pc'[s] \in Allocated
        PROVE  slots[shell'[s].id] = s
    BY <1>1, <1>2, <2>2 DEF IInv, SlotsMatchShells
  <2> QED
    BY <2>1, <2>2 DEF SlotsMatchShells
<1>4. FileNamesItsProject'
  BY <1>1, <1>2, FilesKept DEF IInv
<1>5. OpenersOwnNewShells'
  <2>1. \A u \in Threads : pc'[u] \in Opening => pc[u] \in Opening /\ loc'[u] = loc[u]
    BY <1>1
  <2>2. \A u \in Threads : pc[u] \in Opening =>
          /\ slots[loc[u].slot] # NULL
          /\ pc[slots[loc[u].slot]] = "new"
          /\ shell[slots[loc[u].slot]].proj = loc[u].proj
    BY DEF IInv, OpenersOwnNewShells
  <2>3. \A u \in Threads : pc[u] \in Opening => slots[loc[u].slot] \in Shells
    BY <2>2, LocalsField DEF IInv, TypeOK, Locals
  <2>4. \A u \in Threads : pc[u] \in Opening =>
          /\ pc'[slots[loc[u].slot]] = "new"
          /\ shell'[slots[loc[u].slot]].proj = loc[u].proj
    BY <1>1, <1>2, <2>2, <2>3 DEF Allocated
  <2> QED
    BY <2>1, <2>2, <2>4 DEF IInv, OpenersOwnNewShells
<1>6. ProjectIsKnown'
  <2>1. \A u \in Threads : pc'[u] \in {"lookup", "mkfile", "write"} => loc'[u].proj # NULL
    BY <1>1 DEF IInv, ProjectIsKnown, Opening
  <2>2. \A u \in Threads : loc'[u].op = "restart" => loc'[u].proj # NULL
    BY DEF IInv, ProjectIsKnown
  <2> QED
    BY <2>1, <2>2 DEF ProjectIsKnown
<1>7. ChildrenMatchReaders'
  BY <1>1, <1>2 DEF IInv, ChildrenMatchReaders, Allocated
<1> QED
  BY <1>3, <1>4, <1>5, <1>6, <1>7 DEF IInv

\* A step that only moves its thread, away from the mutex.
LEMMA LocalStepIInv ==
  ASSUME IInv, TypeOK', NEW t \in Threads, NEW step,
         Goto(t, step),
         pc[t] \notin Allocated \cup Opening \cup {"update"},
         step \notin Allocated \cup Opening \cup {"update"},
         step = "lookup" => loc'[t].proj # NULL,
         loc'[t].op = "restart" => loc'[t].proj # NULL,
         \A u \in Threads \ {t} : loc'[u] = loc[u],
         UNCHANGED <<up, lock, slots, shell, proc, file, orphans>>
  PROVE  IInv'
<1>1. MutexLostOnlyByOverflow'
  <2>1. pc'[Handler] = "update" <=> pc[Handler] = "update"
    BY DEF IInv, TypeOK, Goto, Threads
  <2>2. pc[Handler] = "update" => loc'[Handler].slot = loc[Handler].slot
    BY DEF Threads
  <2> QED
    BY <2>1, <2>2 DEF IInv, MutexLostOnlyByOverflow
<1> QED
  BY <1>1, TableKeptIInv

LEMMA CommandIInv == IInv /\ Command => IInv'
<1> SUFFICES ASSUME IInv, Command PROVE IInv'
  OBVIOUS
<1>0. TypeOK' /\ Handler \in Threads
  BY CommandTypeOK DEF IInv, Threads
<1>1. CASE RecvPoweroff
  BY <1>1, CrashIInv DEF RecvPoweroff
<1>2. CASE ~RecvPoweroff
  <2>1. PICK step \in {"fork", "lookup", "answer", "check"}, l \in Locals :
          /\ Goto(Handler, step)
          /\ loc' = [loc EXCEPT ![Handler] = l]
          /\ step = "lookup" => l.proj # NULL
          /\ l.op # "restart"
    <3>1. ASSUME NEW p \in Projects \cup {NULL}, NEW u \in UserGiven, RecvOpen(p, u)
          PROVE  \E step \in {"fork", "lookup"} :
                   /\ Goto(Handler, step)
                   /\ step = "lookup" => loc'[Handler].proj # NULL
                   /\ loc'[Handler].op = "open"
                   /\ loc' = [loc EXCEPT ![Handler] = loc'[Handler]]
      BY <1>0, <3>1 DEF RecvOpen, IInv, TypeOK, NoLocals
    <3>2. CASE RecvBadOpen
      BY <1>0, <3>2 DEF RecvBadOpen, FailOpen, IInv, TypeOK, NoLocals
    <3>3. ASSUME NEW op \in Commands \cap {"close", "background", "keys", "disconnect", "resize"},
                 NEW i \in Slots, RecvShellCommand(op, i)
          PROVE  /\ Goto(Handler, "check")
                 /\ loc'[Handler].op = op
                 /\ loc' = [loc EXCEPT ![Handler] = loc'[Handler]]
      BY <1>0, <3>3 DEF RecvShellCommand, IInv, TypeOK, NoLocals
    <3>4. ASSUME NEW p \in Projects, RecvStatus(p)
          PROVE  /\ Goto(Handler, "answer")
                 /\ loc'[Handler].op = "status"
                 /\ loc' = [loc EXCEPT ![Handler] = loc'[Handler]]
      BY <1>0, <3>4 DEF RecvStatus, IInv, TypeOK, NoLocals
    <3>5. loc'[Handler] \in Locals
      BY <1>0 DEF TypeOK
    <3>6. RecvBadOpen => /\ Goto(Handler, "answer")
                         /\ loc'[Handler].op = "error"
                         /\ loc' = [loc EXCEPT ![Handler] = loc'[Handler]]
      BY <1>0 DEF RecvBadOpen, FailOpen, IInv, TypeOK, NoLocals
    <3> QED
      BY <1>2, <3>1, <3>3, <3>4, <3>5, <3>6 DEF Command
  <2>2. /\ pc[Handler] = "idle"
        /\ UNCHANGED <<up, lock, slots, shell, proc, file, orphans>>
    BY <1>2 DEF Command, RecvOpen, RecvBadOpen, RecvShellCommand, RecvStatus
  <2>3. /\ loc'[Handler] = l
        /\ \A u \in Threads \ {Handler} : loc'[u] = loc[u]
    BY <1>0, <2>1 DEF IInv, TypeOK
  <2> QED
    BY <1>0, <2>1, <2>2, <2>3, LocalStepIInv DEF Allocated, Opening
<1> QED
  BY <1>1, <1>2

\* The ends of an operation, before a shell has been taken.
LEMMA ReturnIInv ==
  ASSUME IInv, TypeOK', NEW t \in Threads, Return(t) \/ FailOpen(t),
         pc[t] \notin Allocated \cup Opening \cup {"update"},
         UNCHANGED <<up, lock, slots, shell, proc, file, orphans>>
  PROVE  IInv'
<1>1. PICK step \in {"idle", "unused", "answer", "error"} : Goto(t, step)
  BY DEF Return, FailOpen, Rest
<1>2. /\ loc'[t].op = "restart" => loc'[t].proj # NULL
      /\ \A u \in Threads \ {t} : loc'[u] = loc[u]
  BY DEF Return, FailOpen, IInv, TypeOK, ProjectIsKnown, NoLocals
<1> QED
  BY <1>1, <1>2, LocalStepIInv DEF Allocated, Opening

LEMMA LookupIInv == ASSUME IInv, NEW t \in Threads, Lookup(t) PROVE IInv'
<1>0. TypeOK' /\ pc[t] \notin Allocated \cup Opening \cup {"update"}
  BY OpenTypeOK DEF IInv, Lookup, Allocated, Opening
<1>1. CASE Crash
  BY <1>1, CrashIInv
<1>2. CASE Goto(t, "fork") /\ UNCHANGED <<up, lock, slots, shell, proc, loc, orphans, file>>
  <2>1. loc'[t].op = "restart" => loc'[t].proj # NULL
    BY <1>2 DEF IInv, ProjectIsKnown, Lookup
  <2> QED
    BY <1>0, <1>2, <2>1, LocalStepIInv DEF Lookup, IInv, ProjectIsKnown, Allocated, Opening
<1>3. CASE Return(t) /\ UNCHANGED <<up, lock, slots, shell, proc, orphans, file>>
  BY <1>0, <1>3, ReturnIInv
<1>4. ASSUME t = Handler,
             NEW i \in Slots,
             loc' = [loc EXCEPT ![t].slot = i],
             Goto(t, "check"),
             UNCHANGED <<up, lock, slots, shell, proc, orphans, file>>
      PROVE IInv'
  <2>1. /\ loc'[t].proj = loc[t].proj
        /\ \A u \in Threads \ {t} : loc'[u] = loc[u]
    BY <1>4 DEF IInv, TypeOK
  <2> QED
    BY <1>0, <1>4, <2>1, LocalStepIInv DEF Lookup, IInv, ProjectIsKnown, Allocated, Opening
<1> QED
  BY <1>1, <1>2, <1>3, <1>4 DEF Lookup

LEMMA ForkIInv == ASSUME IInv, NEW t \in Threads, Fork(t) PROVE IInv'
<1>0. TypeOK' /\ pc[t] \notin Allocated \cup Opening \cup {"update"}
  BY OpenTypeOK DEF IInv, Fork, Allocated, Opening
<1>1. CASE Goto(t, "alloc") /\ UNCHANGED loc
  <2>1. loc'[t].op = "restart" => loc'[t].proj # NULL
    BY <1>1 DEF IInv, ProjectIsKnown
  <2> QED
    BY <1>0, <1>1, <2>1, LocalStepIInv DEF Fork, Allocated, Opening
<1>2. CASE FailOpen(t)
  BY <1>0, <1>2, ReturnIInv DEF Fork
<1> QED
  BY <1>1, <1>2 DEF Fork

LEMMA AllocIInv == ASSUME IInv, NEW t \in Threads, Alloc(t) PROVE IInv'
<1>0. TypeOK'
  BY OpenTypeOK DEF IInv
<1>1. /\ Handler \in Threads /\ Shells \subseteq Threads
      /\ NULL \notin Shells \cup {Handler} /\ Handler \notin Shells
  BY ConstantsAssumption DEF Threads
<1>2. CASE /\ lock' = t
           /\ orphans' = orphans + 1
           /\ FailOpen(t)
           /\ UNCHANGED <<up, slots, shell, proc, file>>
  <2>1. PICK step \in {"answer", "error"} :
          /\ pc' = [pc EXCEPT ![t] = step]
          /\ \A u \in Threads \ {t} : loc'[u] = loc[u]
          /\ loc'[t].op = "restart" => loc'[t].proj # NULL
    BY <1>2 DEF FailOpen, Goto, IInv, TypeOK, ProjectIsKnown, NoLocals
  <2>2. pc[t] = "alloc" /\ lock = NULL /\ t # NULL
    BY ConstantsAssumption DEF Alloc, NewShell, Threads
  <2>3. /\ pc'[t] = step
        /\ \A u \in Threads \ {t} : pc'[u] = pc[u]
    BY <2>1 DEF IInv, TypeOK
  <2>4. orphans = 0 /\ pc[Handler] # "update" /\ pc'[Handler] # "update"
    BY <1>1, <2>2, <2>3 DEF IInv, TypeOK, MutexLostOnlyByOverflow
  <2>5. MutexLostOnlyByOverflow'
    BY <1>2, <2>2, <2>4 DEF MutexLostOnlyByOverflow
  <2>6. SlotsMatchShells'
    BY <1>1, <1>2, <2>2, <2>3 DEF IInv, SlotsMatchShells, TypeOK, Allocated
  <2>7. FileNamesItsProject'
    BY <1>1, <1>2, <2>2, <2>3, FilesKept DEF IInv, Allocated
  <2>8. OpenersOwnNewShells'
    <3>1. \A u \in Threads : pc'[u] \in Opening => pc[u] \in Opening /\ u # t /\ loc'[u] = loc[u]
      BY <2>1, <2>2, <2>3 DEF Opening
    <3>2. \A u \in Threads : pc[u] \in Opening => slots[loc[u].slot] \in Shells
      BY LocalsField DEF IInv, TypeOK, Locals, OpenersOwnNewShells
    <3> QED
      BY <1>1, <1>2, <2>2, <2>3, <3>1, <3>2 DEF IInv, OpenersOwnNewShells
  <2>9. ProjectIsKnown'
    BY <1>1, <2>1, <2>3 DEF IInv, ProjectIsKnown
  <2>10. ChildrenMatchReaders'
    BY <1>1, <1>2, <2>3 DEF IInv, ChildrenMatchReaders
  <2> QED
    BY <1>0, <2>5, <2>6, <2>7, <2>8, <2>9, <2>10 DEF IInv
<1>3. ASSUME NEW i \in Slots, NEW s \in Shells,
             FirstFree(i),
             pc[s] = "unused",
             slots' = [slots EXCEPT ![i] = s],
             shell' = [shell EXCEPT ![s] =
               [id |-> i, proj |-> loc[t].proj, user |-> loc[t].user,
                request |-> IF t = Handler THEN "open" ELSE NULL,
                connected |-> t = Handler]],
             proc' = [proc EXCEPT ![s] = "running"],
             pc' = [pc EXCEPT ![s] = "new",
                              ![t] = IF loc[t].proj = NULL THEN "spawn" ELSE "mkfile"],
             loc' = [loc EXCEPT ![t].slot = i],
             UNCHANGED <<up, lock, file, orphans>>
      PROVE IInv'
  <2>1. pc[t] = "alloc" /\ t # s /\ slots[i] = NULL
    BY <1>3 DEF Alloc, FirstFree
  <2>2. /\ pc'[s] = "new"
        /\ pc'[t] = IF loc[t].proj = NULL THEN "spawn" ELSE "mkfile"
        /\ \A u \in Threads \ {s, t} : pc'[u] = pc[u]
        /\ slots'[i] = s
        /\ \A j \in Slots \ {i} : slots'[j] = slots[j]
        /\ shell'[s].id = i /\ shell'[s].proj = loc[t].proj
        /\ \A r \in Shells \ {s} : shell'[r] = shell[r]
        /\ loc'[t].slot = i /\ loc'[t].proj = loc[t].proj /\ loc'[t].op = loc[t].op
        /\ \A u \in Threads \ {t} : loc'[u] = loc[u]
    BY <1>1, <1>3, <2>1 DEF IInv, TypeOK
  <2>3. SlotsMatchShells'
    <3>1. ASSUME NEW j \in Slots, slots'[j] # NULL
          PROVE  pc'[slots'[j]] \in Allocated /\ shell'[slots'[j]].id = j
      <4>1. CASE j = i
        BY <2>2, <4>1 DEF Allocated
      <4>2. CASE j # i
        <5>1. /\ slots[j] \in Shells
              /\ pc[slots[j]] \in Allocated
              /\ shell[slots[j]].id = j
          BY <2>2, <3>1, <4>2 DEF IInv, TypeOK, SlotsMatchShells
        <5>2. slots[j] # s /\ slots[j] # t
          BY <1>3, <2>1, <5>1 DEF Allocated
        <5> QED
          BY <1>1, <2>2, <4>2, <5>1, <5>2
      <4> QED
        BY <4>1, <4>2
    <3>2. ASSUME NEW r \in Shells, pc'[r] \in Allocated
          PROVE  slots'[shell'[r].id] = r
      <4>1. CASE r = s
        BY <2>2, <4>1
      <4>2. CASE r # s
        <5>1. r # t /\ pc[r] \in Allocated
          BY <1>1, <2>2, <3>2, <4>2 DEF Allocated
        <5>2. slots[shell[r].id] = r /\ shell[r].id \in Slots
          BY <5>1 DEF IInv, SlotsMatchShells, TypeOK, ShellRec
        <5> QED
          BY <1>1, <2>1, <2>2, <4>2, <5>2
      <4> QED
        BY <4>1, <4>2
    <3> QED
      BY <3>1, <3>2 DEF SlotsMatchShells
  <2>4. FileNamesItsProject'
    <3>1. \A r \in Shells : pc[r] \in Allocated => r # s /\ r # t
      BY <1>3, <2>1 DEF Allocated
    <3> QED
      BY <1>1, <1>3, <2>2, <3>1, FilesKept DEF IInv
  <2>5. MutexLostOnlyByOverflow'
    <3>1. lock = NULL
      BY DEF Alloc
    <3>2. pc[Handler] # "update" /\ pc'[Handler] # "update"
      BY <1>1, <2>2, <3>1 DEF IInv, MutexLostOnlyByOverflow, Threads
    <3> QED
      BY <1>3, <3>1, <3>2 DEF IInv, MutexLostOnlyByOverflow
  <2>6. OpenersOwnNewShells'
    <3>1. \A u \in Threads \ {t} : pc'[u] \in Opening =>
            /\ pc[u] \in Opening /\ loc'[u] = loc[u]
            /\ slots[loc[u].slot] \in Shells
            /\ loc[u].slot \in Slots
            /\ pc[slots[loc[u].slot]] = "new"
            /\ shell[slots[loc[u].slot]].proj = loc[u].proj
      BY <1>1, <2>2, LocalsField DEF IInv, TypeOK, Locals, OpenersOwnNewShells, Opening
    <3>2. \A u \in Threads \ {t} : pc'[u] \in Opening =>
            /\ loc[u].slot # i
            /\ slots[loc[u].slot] # s
            /\ slots[loc[u].slot] # t
      BY <1>1, <1>3, <2>1, <3>1
    <3> QED
      BY <1>1, <2>2, <3>1, <3>2 DEF IInv, OpenersOwnNewShells
  <2>7. ProjectIsKnown'
    BY <1>1, <2>2 DEF IInv, ProjectIsKnown
  <2>8. ChildrenMatchReaders'
    BY <1>1, <1>3, <2>2 DEF IInv, TypeOK, ChildrenMatchReaders
  <2> QED
    BY <1>0, <2>3, <2>4, <2>5, <2>6, <2>7, <2>8 DEF IInv
<1> QED
  BY <1>2, <1>3 DEF Alloc, NewShell

\* The two writes of an opener to its project file.
LEMMA WriteStepIInv ==
  ASSUME IInv, TypeOK', NEW t \in Threads,
         pc[t] \in {"mkfile", "write"},
         Goto(t, IF pc[t] = "mkfile" THEN "write" ELSE "spawn"),
         \E b \in BOOLEAN : loc' = [loc EXCEPT ![t].linked = b],
         FileNamesItsProject',
         UNCHANGED <<up, lock, slots, shell, proc, orphans>>
  PROVE  IInv'
<1>1. /\ Handler \in Threads /\ Shells \subseteq Threads
      /\ NULL \notin Shells /\ Handler \notin Shells
  BY ConstantsAssumption DEF Threads
<1>2. /\ pc'[t] \in {"write", "spawn"}
      /\ \A u \in Threads \ {t} : pc'[u] = pc[u]
  BY DEF Goto, IInv, TypeOK
<1>3. \A u \in Threads : /\ loc'[u].slot = loc[u].slot
                         /\ loc'[u].proj = loc[u].proj
                         /\ loc'[u].op = loc[u].op
  BY DEF IInv, TypeOK
<1>4. SlotsMatchShells'
  BY <1>1, <1>2 DEF IInv, TypeOK, SlotsMatchShells, Allocated
<1>5. MutexLostOnlyByOverflow'
  BY <1>1, <1>2, <1>3 DEF IInv, MutexLostOnlyByOverflow
<1>6. OpenersOwnNewShells'
  <2>1. \A u \in Threads : pc'[u] \in Opening => pc[u] \in Opening
    BY <1>2 DEF Opening
  <2>2. \A u \in Threads : pc[u] \in Opening => slots[loc[u].slot] \in Shells
    BY LocalsField DEF IInv, TypeOK, Locals, OpenersOwnNewShells
  <2>3. \A u \in Threads : pc[u] \in Opening => pc'[slots[loc[u].slot]] = "new"
    BY <1>1, <1>2, <2>2 DEF IInv, OpenersOwnNewShells
  <2> QED
    BY <1>3, <2>1, <2>3 DEF IInv, OpenersOwnNewShells
<1>7. ProjectIsKnown'
  BY <1>2, <1>3 DEF IInv, ProjectIsKnown
<1>8. ChildrenMatchReaders'
  BY <1>1, <1>2 DEF IInv, ChildrenMatchReaders
<1> QED
  BY <1>4, <1>5, <1>6, <1>7, <1>8 DEF IInv

\* What an opener may write about its project: nothing, or the slot of the
\* shell it opened.
LEMMA OpenerNamesItsSlot ==
  ASSUME IInv, NEW t \in Threads,
         pc[t] \in {"mkfile", "write"},
         Goto(t, IF pc[t] = "mkfile" THEN "write" ELSE "spawn"),
         \A p \in Projects : \/ file'[p] = file[p]
                             \/ p = loc[t].proj /\ file'[p] \in {loc[t].slot, Empty},
         UNCHANGED <<up, slots, shell>>
  PROVE  FileNamesItsProject'
<1> DEFINE s == slots[loc[t].slot]
<1>1. /\ s \in Shells
      /\ pc[s] = "new"
      /\ shell[s].proj = loc[t].proj
      /\ shell[s].id = loc[t].slot
  BY LocalsField
  DEF IInv, TypeOK, Locals, OpenersOwnNewShells, SlotsMatchShells, Opening
<1>2. \A r \in Shells : pc[r] \in Allocated => pc'[r] = pc[r]
  BY DEF Goto, IInv, TypeOK, Allocated, Threads
<1> HIDE DEF s
<1> SUFFICES ASSUME up, NEW p \in Projects \ LongIds, file'[p] # Absent
             PROVE  \E r \in Shells : /\ pc[r] \in Allocated
                                      /\ shell[r].proj = p
                                      /\ file'[p] \in {shell[r].id, Empty}
  BY <1>2 DEF FileNamesItsProject
<1>3. CASE file'[p] = file[p]
  BY <1>3 DEF IInv, FileNamesItsProject
<1>4. CASE p = loc[t].proj /\ file'[p] \in {loc[t].slot, Empty}
  BY <1>1, <1>4 DEF Allocated
<1> QED
  BY <1>3, <1>4

LEMMA MkFileIInv == ASSUME IInv, NEW t \in Threads, MkFile(t) PROVE IInv'
<1>1. TypeOK'
  BY OpenTypeOK DEF IInv
<1>2. loc[t].proj \in Projects
  BY LocalsField DEF MkFile, IInv, TypeOK, Locals, ProjectIsKnown
<1>3. \A p \in Projects : \/ file'[p] = file[p]
                          \/ p = loc[t].proj /\ file'[p] = Empty
  <2>1. file' = [file EXCEPT ![loc[t].proj] = IF @ = Absent THEN Empty ELSE @]
    BY DEF MkFile
  <2>2. file \in [Projects -> Slots \cup {Absent, Empty}]
    BY DEF IInv, TypeOK
  <2> QED
    BY <1>2, <2>1, <2>2
<1>4. FileNamesItsProject'
  BY <1>3, OpenerNamesItsSlot DEF MkFile
<1> QED
  BY <1>1, <1>4, WriteStepIInv DEF MkFile

LEMMA WriteFileIInv == ASSUME IInv, NEW t \in Threads, WriteFile(t) PROVE IInv'
<1>1. TypeOK'
  BY OpenTypeOK DEF IInv
<1>2. loc[t].proj \in Projects
  BY LocalsField DEF WriteFile, IInv, TypeOK, Locals, ProjectIsKnown
<1>3. \A p \in Projects : \/ file'[p] = file[p]
                          \/ p = loc[t].proj /\ file'[p] = loc[t].slot
  <2>1. \/ file' = file
        \/ file' = [file EXCEPT ![loc[t].proj] = loc[t].slot]
    BY DEF WriteFile
  <2>2. file \in [Projects -> Slots \cup {Absent, Empty}]
    BY DEF IInv, TypeOK
  <2> QED
    BY <1>2, <2>1, <2>2
<1>4. FileNamesItsProject'
  BY <1>3, OpenerNamesItsSlot DEF WriteFile
<1> QED
  BY <1>1, <1>4, WriteStepIInv DEF WriteFile

LEMMA SpawnIInv == ASSUME IInv, NEW t \in Threads, Spawn(t) PROVE IInv'
<1>0. TypeOK'
  BY OpenTypeOK DEF IInv
<1>1. /\ Handler \in Threads /\ Shells \subseteq Threads
      /\ NULL \notin Shells /\ Handler \notin Shells
  BY ConstantsAssumption DEF Threads
<1> DEFINE s == slots[loc[t].slot]
<1>2. loc[t].slot \in Slots /\ s \in Shells /\ pc[s] = "new" /\ pc[t] = "spawn"
  BY LocalsField DEF Spawn, IInv, TypeOK, Locals, OpenersOwnNewShells, Opening
<1>3. /\ pc'[s] = "reading"
      /\ pc'[t] \in {"answer", "unused"}
      /\ \A u \in Threads \ {s, t} : pc'[u] = pc[u]
  BY <1>1, <1>2 DEF Spawn, IInv, TypeOK, Rest, Threads
<1>4. /\ \A u \in Threads \ {t} : loc'[u] = loc[u]
      /\ loc'[t] = loc[t] \/ loc'[t].op = "none"
  BY DEF Spawn, IInv, TypeOK, NoLocals
<1>5. UNCHANGED <<up, lock, slots, shell, proc, file, orphans>>
  BY DEF Spawn
<1> HIDE DEF s
<1>6. SlotsMatchShells'
  BY <1>1, <1>2, <1>3, <1>5 DEF IInv, TypeOK, SlotsMatchShells, Allocated
<1>7. FileNamesItsProject'
  BY <1>1, <1>2, <1>3, <1>5, FilesKept DEF IInv, Allocated
<1>8. MutexLostOnlyByOverflow'
  BY <1>1, <1>2, <1>3, <1>4, <1>5 DEF IInv, MutexLostOnlyByOverflow
<1>9. OpenersOwnNewShells'
  <2>1. \A u \in Threads : pc'[u] \in Opening => /\ u # t
                                                 /\ pc[u] \in Opening
                                                 /\ loc'[u] = loc[u]
    BY <1>3, <1>4 DEF Opening
  <2>2. \A u \in Threads : pc[u] \in Opening => /\ loc[u].slot \in Slots
                                                /\ slots[loc[u].slot] \in Shells
                                                /\ pc[slots[loc[u].slot]] = "new"
                                                /\ shell[slots[loc[u].slot]].id = loc[u].slot
    BY LocalsField DEF IInv, TypeOK, Locals, OpenersOwnNewShells, SlotsMatchShells
  <2>3. \A u \in Threads : pc[u] \in Opening /\ u # t => loc[u].slot # loc[t].slot
    BY <1>2 DEF IInv, OpenersOwnNewShells, Opening
  <2>4. shell[s].id = loc[t].slot
    BY <1>2, <2>2 DEF Opening, s
  <2>5. \A u \in Threads : pc[u] \in Opening /\ u # t =>
          slots[loc[u].slot] # s /\ slots[loc[u].slot] # t
    BY <1>2, <2>2, <2>3, <2>4
  <2>6. \A u \in Threads : pc[u] \in Opening /\ u # t => pc'[slots[loc[u].slot]] = "new"
    BY <1>1, <1>3, <2>2, <2>5
  <2> QED
    BY <1>5, <2>1, <2>2, <2>6 DEF IInv, OpenersOwnNewShells
<1>10. ProjectIsKnown'
  BY <1>3, <1>4 DEF IInv, ProjectIsKnown
<1>11. ChildrenMatchReaders'
  BY <1>1, <1>2, <1>3, <1>5 DEF IInv, ChildrenMatchReaders
<1> QED
  BY <1>0, <1>6, <1>7, <1>8, <1>9, <1>10, <1>11 DEF IInv

LEMMA OpenIInv ==
  ASSUME IInv, NEW t \in Threads, OpenStep(t) \/ Alloc(t)
  PROVE  IInv'
BY LookupIInv, ForkIInv, MkFileIInv, WriteFileIInv, SpawnIInv, AllocIInv DEF OpenStep

LEMMA AnswerIInv == IInv /\ Answer => IInv'
BY ReturnIInv, HandlerTypeOK DEF IInv, Answer, Threads, Allocated, Opening

LEMMA CheckSlotIInv == IInv /\ CheckSlot => IInv'
<1> SUFFICES ASSUME IInv, CheckSlot PROVE IInv'
  OBVIOUS
<1>0. TypeOK' /\ Handler \in Threads /\ pc[Handler] \notin Allocated \cup Opening \cup {"update"}
  BY HandlerTypeOK DEF IInv, CheckSlot, Threads, Allocated, Opening
<1>1. CASE Return(Handler)
  BY <1>0, <1>1, ReturnIInv DEF CheckSlot
<1>2. CASE ~Return(Handler)
  <2>1. PICK step \in {"use", "lock"} : Goto(Handler, step) /\ UNCHANGED loc
    BY <1>2 DEF CheckSlot
  <2>2. loc'[Handler].op = "restart" => loc'[Handler].proj # NULL
    BY <1>0, <2>1 DEF IInv, ProjectIsKnown
  <2> QED
    BY <1>0, <2>1, <2>2, LocalStepIInv DEF CheckSlot, Allocated, Opening
<1> QED
  BY <1>1, <1>2

LEMMA LockShellIInv == IInv /\ LockShell => IInv'
<1> SUFFICES ASSUME IInv, LockShell PROVE IInv'
  OBVIOUS
<1>0. TypeOK' /\ Handler \in Threads
  BY HandlerTypeOK DEF IInv, Threads
<1>1. CASE Crash
  BY <1>1, CrashIInv
<1>2. CASE ~Crash
  <2>1. /\ lock = NULL /\ lock' = Handler
        /\ slots[loc[Handler].slot] \in Shells
        /\ Goto(Handler, "update")
        /\ pc[Handler] = "lock"
        /\ UNCHANGED <<up, slots, proc, file, loc, orphans>>
    BY <1>2 DEF LockShell
  <2>2. \A s \in Shells : shell'[s].id = shell[s].id /\ shell'[s].proj = shell[s].proj
    <3>1. \/ shell' = shell
          \/ \E r \in Shells : shell' = [shell EXCEPT ![r].request = "freed"]
      BY <1>2 DEF LockShell
    <3>2. shell \in [Shells -> ShellRec]
      BY DEF IInv, TypeOK
    <3> QED
      BY <3>1, <3>2 DEF ShellRec
  <2>3. MutexLostOnlyByOverflow'
    <3>1. pc'[Handler] = "update" /\ orphans = 0
      BY <1>0, <2>1 DEF Goto, IInv, TypeOK, MutexLostOnlyByOverflow
    <3> QED
      BY <2>1, <3>1, ConstantsAssumption DEF MutexLostOnlyByOverflow
  <2>4. loc'[Handler].op = "restart" => loc'[Handler].proj # NULL
    BY <1>0, <2>1 DEF IInv, ProjectIsKnown
  <2> QED
    BY <1>0, <2>1, <2>2, <2>3, <2>4, TableKeptIInv DEF Allocated, Opening
<1> QED
  BY <1>1, <1>2

LEMMA UpdateShellIInv == IInv /\ UpdateShell => IInv'
<1> SUFFICES ASSUME IInv, UpdateShell PROVE IInv'
  OBVIOUS
<1>0. TypeOK' /\ Handler \in Threads
  BY HandlerTypeOK DEF IInv, Threads
<1>1. PICK step \in {"answer", "use", "idle"} : Goto(Handler, step)
  BY DEF UpdateShell, Unlock, Return, Rest
<1>2. /\ \A u \in Threads \ {Handler} : loc'[u] = loc[u]
      /\ loc'[Handler].op = "restart" => loc'[Handler].proj # NULL
  <2>1. \/ loc' = loc
        \/ loc' = [loc EXCEPT ![Handler].running = TRUE]
        \/ loc' = [loc EXCEPT ![Handler] = NoLocals]
    BY DEF UpdateShell, Unlock, Return
  <2>2. loc \in [Threads -> Locals]
    BY DEF IInv, TypeOK
  <2>3. loc'[Handler].op = "restart" =>
          loc[Handler].op = "restart" /\ loc'[Handler].proj = loc[Handler].proj
    BY <1>0, <2>1, <2>2 DEF Locals, NoLocals
  <2> QED
    BY <1>0, <2>1, <2>2, <2>3 DEF IInv, ProjectIsKnown
<1>3. \A rec \in ShellRec : Updated(rec).id = rec.id /\ Updated(rec).proj = rec.proj
  BY DEF Updated, ShellRec
<1>4. \A s \in Shells : shell'[s].id = shell[s].id /\ shell'[s].proj = shell[s].proj
  BY <1>3 DEF UpdateShell, Unlock, IInv, TypeOK
<1>5. MutexLostOnlyByOverflow'
  <2>1. pc[Handler] = "update" /\ lock' = NULL /\ orphans' = 0
    BY DEF UpdateShell, Unlock, IInv, MutexLostOnlyByOverflow
  <2>2. pc'[Handler] # "update"
    BY <1>0, <1>1 DEF Goto, IInv, TypeOK
  <2> QED
    BY <2>1, <2>2 DEF MutexLostOnlyByOverflow
<1>6. pc[Handler] = "update" /\ UNCHANGED <<up, slots, proc, file>>
  BY DEF UpdateShell, Unlock
<1> QED
  BY <1>0, <1>1, <1>2, <1>4, <1>5, <1>6, TableKeptIInv DEF Allocated, Opening

LEMMA UseShellIInv == IInv /\ UseShell => IInv'
<1> SUFFICES ASSUME IInv, UseShell PROVE IInv'
  OBVIOUS
<1>0. TypeOK' /\ Handler \in Threads
  BY HandlerTypeOK DEF IInv, Threads
<1>1. CASE Crash
  BY <1>1, CrashIInv
<1>2. CASE ~Crash
  <2>1. /\ pc[Handler] = "use"
        /\ Return(Handler)
        /\ UNCHANGED <<up, lock, slots, shell, file, orphans>>
    BY <1>2 DEF UseShell
  <2>2. \A s \in Shells : \/ proc'[s] = proc[s]
                          \/ proc[s] = "running" /\ proc'[s] = "clean"
    BY <1>2 DEF UseShell, IInv, TypeOK
  <2>3. /\ Goto(Handler, "idle")
        /\ loc'[Handler].op = "none"
        /\ \A u \in Threads \ {Handler} : loc'[u] = loc[u]
    BY <1>0, <2>1 DEF Return, Rest, IInv, TypeOK, NoLocals
  <2>4. MutexLostOnlyByOverflow'
    BY <1>0, <2>1, <2>3 DEF Goto, IInv, TypeOK, MutexLostOnlyByOverflow
  <2> QED
    BY <1>0, <2>1, <2>2, <2>3, <2>4, TableKeptIInv DEF Allocated, Opening
<1> QED
  BY <1>1, <1>2

LEMMA ChildDiesIInv == ASSUME IInv, NEW s \in Shells, ChildDies(s) PROVE IInv'
<1>1. TypeOK'
  BY ReaderTypeOK DEF IInv
<1>2. \A r \in Shells : \/ proc'[r] = proc[r]
                        \/ proc[r] = "running" /\ proc'[r] \in {"clean", "crash"}
  <2>1. PICK d \in Deaths : proc' = [proc EXCEPT ![s] = d]
    BY DEF ChildDies
  <2>2. d \in {"clean", "crash"} /\ proc[s] = "running"
    BY ConstantsAssumption DEF ChildDies
  <2> QED
    BY <2>1, <2>2 DEF IInv, TypeOK
<1>3. ChildrenMatchReaders'
  BY <1>2 DEF ChildDies, IInv, ChildrenMatchReaders
<1> QED
  BY <1>1, <1>3
  DEF ChildDies, IInv, SlotsMatchShells, FileNamesItsProject, MutexLostOnlyByOverflow,
      OpenersOwnNewShells, ProjectIsKnown

\* A reader on its way from the death of its child to the free.
LEMMA ReaderMovesIInv ==
  ASSUME IInv, TypeOK', NEW s \in Shells, NEW step \in {"decide", "free"},
         Goto(s, step),
         pc[s] \in {"reading", "decide"},
         proc[s] \in {"clean", "crash"},
         \A u \in Threads \ {s} : loc'[u] = loc[u],
         loc'[s].op = "restart" => loc'[s].proj # NULL,
         UNCHANGED <<up, lock, slots, shell, proc, file, orphans>>
  PROVE  IInv'
<1>1. /\ Handler \in Threads /\ Shells \subseteq Threads
      /\ NULL \notin Shells /\ Handler \notin Shells
  BY ConstantsAssumption DEF Threads
<1>2. /\ pc'[s] = step
      /\ \A u \in Threads \ {s} : pc'[u] = pc[u]
  BY <1>1 DEF IInv, TypeOK, Goto
<1>3. SlotsMatchShells'
  BY <1>1, <1>2 DEF IInv, TypeOK, SlotsMatchShells, Allocated
<1>4. FileNamesItsProject'
  BY <1>1, <1>2, FilesKept DEF IInv, Allocated
<1>5. MutexLostOnlyByOverflow'
  BY <1>1, <1>2 DEF IInv, MutexLostOnlyByOverflow
<1>6. OpenersOwnNewShells'
  <2>1. \A u \in Threads : pc'[u] \in Opening => pc[u] \in Opening /\ loc'[u] = loc[u]
    BY <1>2 DEF Opening
  <2>2. \A u \in Threads : pc[u] \in Opening => slots[loc[u].slot] \in Shells
    BY LocalsField DEF IInv, TypeOK, Locals, OpenersOwnNewShells
  <2>3. \A u \in Threads : pc[u] \in Opening => pc'[slots[loc[u].slot]] = "new"
    BY <1>1, <1>2, <2>2 DEF IInv, OpenersOwnNewShells
  <2> QED
    BY <2>1, <2>3 DEF IInv, OpenersOwnNewShells
<1>7. ProjectIsKnown'
  BY <1>1, <1>2 DEF IInv, ProjectIsKnown
<1>8. ChildrenMatchReaders'
  BY <1>1, <1>2 DEF IInv, ChildrenMatchReaders
<1> QED
  BY <1>3, <1>4, <1>5, <1>6, <1>7, <1>8 DEF IInv

LEMMA ReaderExitIInv == ASSUME IInv, NEW s \in Shells, ReaderExit(s) PROVE IInv'
<1>0. TypeOK' /\ s \in Threads
  BY ReaderTypeOK DEF IInv, Threads
<1>1. proc[s] \in {"clean", "crash"}
  BY DEF ReaderExit, SendCloseResponse, IInv, TypeOK, ChildrenMatchReaders
<1>2. /\ \A u \in Threads \ {s} : loc'[u] = loc[u]
      /\ loc'[s].op = loc[s].op /\ loc'[s].proj = loc[s].proj
  BY <1>0 DEF ReaderExit, SendCloseResponse, IInv, TypeOK
<1>3. loc'[s].op = "restart" => loc'[s].proj # NULL
  BY <1>0, <1>2 DEF IInv, ProjectIsKnown
<1> QED
  BY <1>0, <1>1, <1>2, <1>3, ReaderMovesIInv DEF ReaderExit, SendCloseResponse

LEMMA GiveUpIInv == ASSUME IInv, NEW s \in Shells, GiveUp(s) PROVE IInv'
<1>1. TypeOK' /\ s \in Threads
  BY ReaderTypeOK DEF IInv, Threads
<1> QED
  BY <1>1, ReturnIInv DEF GiveUp, Allocated, Opening

LEMMA DecideIInv == ASSUME IInv, NEW s \in Shells, Decide(s) PROVE IInv'
<1>0. TypeOK' /\ s \in Threads
  BY ReaderTypeOK DEF IInv, Threads
<1>1. CASE Crash
  BY <1>1, CrashIInv
<1>2. CASE ~Crash
  <2>1. proc[s] \in {"clean", "crash"}
    BY DEF Decide, IInv, TypeOK, ChildrenMatchReaders
  <2>2. \/ loc' = loc
        \/ /\ shell[s].proj # NULL
           /\ loc' = [loc EXCEPT ![s].op = "restart", ![s].user = TRUE,
                                 ![s].proj = shell[s].proj]
    BY <1>2 DEF Decide
  <2>3. /\ \A u \in Threads \ {s} : loc'[u] = loc[u]
        /\ loc'[s].op = "restart" => loc'[s].proj # NULL
    <3>1. loc \in [Threads -> Locals]
      BY DEF IInv, TypeOK
    <3>2. \A u \in Threads \ {s} : loc'[u] = loc[u]
      BY <1>0, <2>2, <3>1
    <3>3. \/ loc' = loc
          \/ loc'[s].proj = shell[s].proj /\ shell[s].proj # NULL
      BY <1>0, <2>2, <3>1 DEF Locals
    <3> QED
      BY <1>0, <3>2, <3>3 DEF IInv, ProjectIsKnown
  <2> QED
    BY <1>0, <1>2, <2>1, <2>3, ReaderMovesIInv DEF Decide
<1> QED
  BY <1>1, <1>2

LEMMA FreeIInv == ASSUME IInv, NEW s \in Shells, Free(s) PROVE IInv'
<1>0. TypeOK'
  BY ReaderTypeOK DEF IInv
<1>1. /\ Handler \in Threads /\ Shells \subseteq Threads
      /\ NULL \notin Shells /\ Handler \notin Shells /\ s \in Threads
  BY ConstantsAssumption DEF Threads
<1> DEFINE i == shell[s].id
<1>2. i \in Slots /\ slots[i] = s /\ pc[s] = "free"
  BY DEF Free, IInv, SlotsMatchShells, TypeOK, ShellRec, Allocated
<1>3. /\ pc'[s] \in {"lookup", "unused"}
      /\ pc'[s] = "lookup" => loc[s].op = "restart"
      /\ \A u \in Threads \ {s} : pc'[u] = pc[u]
  BY <1>1 DEF Free, Goto, Rest, IInv, TypeOK
<1>4. /\ slots'[i] = NULL
      /\ \A j \in Slots \ {i} : slots'[j] = slots[j]
      /\ \A r \in Shells \ {s} : shell'[r] = shell[r] /\ proc'[r] = proc[r]
  BY <1>2 DEF Free, IInv, TypeOK
<1>5. /\ \A u \in Threads \ {s} : /\ loc'[u].slot = loc[u].slot
                                  /\ loc'[u].proj = loc[u].proj
                                  /\ loc'[u].op = loc[u].op
      /\ loc[s].op = "restart" => loc'[s].proj = loc[s].proj
      /\ loc[s].op # "restart" => loc'[s].op = "none"
  <2>1. \A u \in Threads : loc[u] \in Locals
    BY DEF IInv, TypeOK
  <2>2. ASSUME NEW u \in Threads, u # s
        PROVE  loc'[u] = [loc[u] EXCEPT !.linked = @ /\ loc[u].proj \notin RemovedFiles(s)]
    BY <2>2 DEF Free
  <2>3. loc[s].op = "restart" => loc'[s] = [loc[s] EXCEPT !.sent = NULL]
    BY <1>1 DEF Free
  <2>4. loc[s].op # "restart" => loc'[s] = NoLocals
    BY <1>1 DEF Free
  <2>5. \A u \in Threads \ {s} : /\ loc'[u].slot = loc[u].slot
                                 /\ loc'[u].proj = loc[u].proj
                                 /\ loc'[u].op = loc[u].op
    BY <2>1, <2>2 DEF Locals
  <2>6. loc[s].op = "restart" => loc'[s].proj = loc[s].proj
    BY <1>1, <2>1, <2>3 DEF Locals
  <2>7. loc[s].op # "restart" => loc'[s].op = "none"
    BY <2>4 DEF NoLocals
  <2> QED
    BY <2>5, <2>6, <2>7
<1>6. \A p \in Projects : file'[p] = IF p \in RemovedFiles(s) THEN Absent ELSE file[p]
  BY DEF Free
<1>7. up' = up /\ lock = NULL /\ lock' = NULL /\ orphans' = orphans
  BY DEF Free
<1> HIDE DEF i
<1>8. \A j \in Slots : slots[j] # NULL => slots[j] \in Shells /\ (slots[j] = s => j = i)
  BY DEF IInv, TypeOK, SlotsMatchShells, i
<1>9. SlotsMatchShells'
  <2>1. ASSUME NEW j \in Slots, slots'[j] # NULL
        PROVE  pc'[slots'[j]] \in Allocated /\ shell'[slots'[j]].id = j
    <3>1. j # i /\ slots'[j] = slots[j] /\ slots[j] \in Shells \ {s}
      BY <1>4, <1>8, <2>1
    <3> QED
      BY <1>1, <1>3, <1>4, <2>1, <3>1 DEF IInv, SlotsMatchShells
  <2>2. ASSUME NEW r \in Shells, pc'[r] \in Allocated
        PROVE  slots'[shell'[r].id] = r
    <3>1. r # s /\ pc[r] \in Allocated
      BY <1>1, <1>3, <2>2 DEF Allocated
    <3>2. slots[shell[r].id] = r /\ shell[r].id \in Slots
      BY <3>1 DEF IInv, SlotsMatchShells, TypeOK, ShellRec
    <3>3. shell[r].id # i
      BY <1>2, <3>1, <3>2
    <3> QED
      BY <1>4, <3>1, <3>2, <3>3
  <2> QED
    BY <2>1, <2>2 DEF SlotsMatchShells
<1>10. FileNamesItsProject'
  <2> SUFFICES ASSUME up, NEW p \in Projects \ LongIds, file'[p] # Absent
               PROVE  \E r \in Shells : /\ pc'[r] \in Allocated
                                        /\ shell'[r].proj = p
                                        /\ file'[p] \in {shell'[r].id, Empty}
    BY <1>7 DEF FileNamesItsProject
  <2>1. p \notin RemovedFiles(s) /\ file'[p] = file[p]
    BY <1>6
  <2>2. shell[s].proj # p
    BY <2>1, ConstantsAssumption DEF RemovedFiles
  <2>3. PICK r \in Shells : /\ pc[r] \in Allocated
                            /\ shell[r].proj = p
                            /\ file[p] \in {shell[r].id, Empty}
    BY <2>1 DEF IInv, FileNamesItsProject
  <2>4. r # s
    BY <2>2, <2>3
  <2> QED
    BY <1>1, <1>3, <1>4, <2>1, <2>3, <2>4
<1>11. MutexLostOnlyByOverflow'
  BY <1>1, <1>3, <1>5, <1>7, ConstantsAssumption DEF IInv, MutexLostOnlyByOverflow
<1>12. OpenersOwnNewShells'
  <2>1. \A u \in Threads : pc'[u] \in Opening => u # s /\ pc[u] \in Opening
    BY <1>3 DEF Opening
  <2>2. \A u \in Threads : pc[u] \in Opening =>
          /\ loc[u].slot \in Slots
          /\ slots[loc[u].slot] # NULL
          /\ slots[loc[u].slot] \in Shells
          /\ pc[slots[loc[u].slot]] = "new"
          /\ shell[slots[loc[u].slot]].proj = loc[u].proj
    BY LocalsField DEF IInv, TypeOK, Locals, OpenersOwnNewShells
  <2>3. \A u \in Threads : pc[u] \in Opening => slots[loc[u].slot] # s /\ loc[u].slot # i
    BY <1>2, <2>2
  <2>4. \A u \in Threads : pc[u] \in Opening =>
          /\ slots'[loc[u].slot] = slots[loc[u].slot]
          /\ pc'[slots[loc[u].slot]] = "new"
          /\ shell'[slots[loc[u].slot]].proj = loc[u].proj
    BY <1>1, <1>3, <1>4, <2>2, <2>3
  <2> QED
    BY <1>5, <2>1, <2>2, <2>4 DEF IInv, OpenersOwnNewShells
<1>13. ProjectIsKnown'
  BY <1>1, <1>3, <1>5 DEF IInv, ProjectIsKnown
<1>14. ChildrenMatchReaders'
  BY <1>1, <1>3, <1>4 DEF IInv, ChildrenMatchReaders
<1> QED
  BY <1>0, <1>9, <1>10, <1>11, <1>12, <1>13, <1>14 DEF IInv

LEMMA BootIInv == IInv /\ Boot => IInv'
<1> SUFFICES ASSUME IInv, Boot PROVE IInv'
  OBVIOUS
<1>1. TypeOK'
  BY DEF Boot, IInv, TypeOK
<1>2. FileNamesItsProject'
  BY DEF Boot, FileNamesItsProject
<1> QED
  BY <1>1, <1>2
  DEF Boot, IInv, SlotsMatchShells, MutexLostOnlyByOverflow, OpenersOwnNewShells,
      ProjectIsKnown, ChildrenMatchReaders

LEMMA NextIInv == IInv /\ [Next]_vars => IInv'
<1> SUFFICES ASSUME IInv, [Next]_vars PROVE IInv'
  OBVIOUS
<1>1. CASE Command
  BY <1>1, CommandIInv
<1>2. CASE HandlerStep \/ HandlerLock
  BY <1>2, OpenIInv, AnswerIInv, CheckSlotIInv, LockShellIInv, UpdateShellIInv, UseShellIInv
  DEF HandlerStep, HandlerLock, Threads
<1>3. ASSUME NEW s \in Shells, ReaderStep(s) \/ ReaderLock(s) \/ ChildDies(s)
      PROVE  IInv'
  BY <1>3, OpenIInv, ReaderExitIInv, DecideIInv, GiveUpIInv, FreeIInv, ChildDiesIInv
  DEF ReaderStep, ReaderLock, Threads
<1>4. CASE Boot
  BY <1>4, BootIInv
<1>5. CASE UNCHANGED vars
  BY <1>5 DEF vars, IInv, TypeOK, SlotsMatchShells, FileNamesItsProject,
      MutexLostOnlyByOverflow, OpenersOwnNewShells, ProjectIsKnown, ChildrenMatchReaders
<1> QED
  BY <1>1, <1>2, <1>3, <1>4, <1>5 DEF Next, Running

\* The invariant is inductive, for every table size, set of projects and
\* number of restarts.
THEOREM Inductive == Spec => []IInv
<1> QED
  BY InitIInv, NextIInv, PTL DEF Spec

\* shells_vector and the live shells point at each other in every reachable
\* state, although slots are read and readers started outside the mutex.
THEOREM SlotsCorrect == Spec => []SlotsMatchShells
<1>1. IInv => SlotsMatchShells
  BY DEF IInv
<1> QED
  BY <1>1, Inductive, PTL

\* A project file exists only while a shell of its project is in the table,
\* and names the slot of such a shell or nothing yet.
THEOREM FilesCorrect == Spec => []FileNamesItsProject
<1>1. IInv => FileNamesItsProject
  BY DEF IInv
<1> QED
  BY <1>1, Inductive, PTL

\* Nothing but an open that found the table full keeps the mutex for ever.
THEOREM MutexCorrect == Spec => []MutexLostOnlyByOverflow
<1>1. IInv => MutexLostOnlyByOverflow
  BY DEF IInv
<1> QED
  BY <1>1, Inductive, PTL

-----------------------------------------------------------------------------
(* An action property *)

\* The slots a step changes, unless the process ends.
LEMMA SlotsKept ==
  ASSUME IInv, [Next]_vars, up'
  PROVE  \/ UNCHANGED slots
         \/ \E t \in Threads : Alloc(t)
         \/ \E s \in Shells : Free(s)
<1>1. CASE Command
  BY <1>1 DEF Command, RecvOpen, RecvBadOpen, RecvShellCommand, RecvStatus, RecvPoweroff, Crash
<1>2. ASSUME NEW t \in Threads, OpenStep(t)
      PROVE  UNCHANGED slots
  BY <1>2 DEF OpenStep, Lookup, Fork, MkFile, WriteFile, Spawn, Crash
<1>3. CASE HandlerStep \/ HandlerLock
  BY <1>2, <1>3 DEF HandlerStep, HandlerLock, Answer, CheckSlot, UpdateShell, UseShell,
                    LockShell, Crash, Threads
<1>4. ASSUME NEW s \in Shells, ReaderStep(s) \/ ReaderLock(s) \/ ChildDies(s)
      PROVE  UNCHANGED slots \/ Alloc(s) \/ Free(s)
  BY <1>2, <1>4 DEF ReaderStep, ReaderLock, ReaderExit, Decide, GiveUp, ChildDies, Crash, Threads
<1>5. CASE Boot \/ UNCHANGED vars
  BY <1>5 DEF Boot, vars
<1> QED
  BY <1>1, <1>3, <1>4, <1>5 DEF Next, Running, Threads

\* A slot changes hands only when the reader of its shell, whose child is
\* dead and reaped, frees it.
THEOREM ReleaseCorrect == Spec => SlotsAreReleasedFirst
<1> DEFINE Released(i) == /\ slots'[i] = NULL
                          /\ pc[slots[i]] = "free"
                          /\ proc[slots[i]] \in {"clean", "crash"}
<1>1. ASSUME IInv, [Next]_vars, up',
             NEW i \in Slots, slots[i] # NULL, slots'[i] # slots[i]
      PROVE  Released(i)
  <2>1. ASSUME NEW t \in Threads, Alloc(t)
        PROVE  FALSE
    <3>1. \/ slots' = slots
          \/ \E j \in Slots, s \in Shells :
               slots[j] = NULL /\ slots' = [slots EXCEPT ![j] = s]
      BY <2>1 DEF Alloc, FirstFree
    <3>2. slots \in [Slots -> Shells \cup {NULL}]
      BY <1>1 DEF IInv, TypeOK
    <3> QED
      BY <1>1, <3>1, <3>2
  <2>2. ASSUME NEW s \in Shells, Free(s)
        PROVE  Released(i)
    <3>1. slots \in [Slots -> Shells \cup {NULL}] /\ slots' = [slots EXCEPT ![shell[s].id] = NULL]
      BY <1>1, <2>2 DEF Free, IInv, TypeOK
    <3>2. i = shell[s].id /\ slots'[i] = NULL
      BY <1>1, <3>1
    <3>3. pc[s] = "free"
      BY <2>2 DEF Free
    <3>4. slots[i] = s
      BY <1>1, <3>2, <3>3 DEF IInv, SlotsMatchShells, Allocated
    <3>5. proc[s] \in {"clean", "crash"}
      BY <1>1, <3>3 DEF IInv, ChildrenMatchReaders
    <3> QED
      BY <3>2, <3>3, <3>4, <3>5
  <2> QED
    BY <1>1, <2>1, <2>2, SlotsKept
<1>2. IInv /\ [Next]_vars =>
        [up' => \A i \in Slots : slots[i] # NULL /\ slots'[i] # slots[i] => Released(i)]_vars
  BY <1>1 DEF vars
<1> QED
  BY <1>2, Inductive, PTL DEF Spec, SlotsAreReleasedFirst

-----------------------------------------------------------------------------
(* The abstract table of sessions *)

\* A step that leaves the slots, and in the shells that are in them what can be
\* seen of a session, leaves the sessions.
LEMMA SessionsKept ==
  ASSUME slots' = slots,
         \A i \in InUse : /\ shell'[slots[i]].proj = shell[slots[i]].proj
                          /\ shell'[slots[i]].connected = shell[slots[i]].connected
                          /\ proc'[slots[i]] = proc[slots[i]]
  PROVE  Sessions' = Sessions
<1>1. InUse' = InUse
  BY DEF InUse
<1>2. \A i \in InUse : Session(i)' = Session(i)
  BY DEF Session
<1> QED
  BY <1>1, <1>2 DEF Sessions

LEMMA AllKept ==
  ASSUME UNCHANGED <<up, slots, shell, proc, file>>
  PROVE  UNCHANGED Table!vars
<1>1. Sessions' = Sessions
  BY SessionsKept
<1>2. Found' = Found
  BY DEF Found, Announced
<1> QED
  BY <1>1, <1>2 DEF Table!vars

LEMMA CrashResets == ASSUME Crash PROVE Table!Reset
<1>1. InUse' = {} /\ Announced' = {}
  BY DEF Crash, InUse, Announced
<1>2. Sessions' = Table!Nothing
  BY <1>1 DEF Sessions, Table!Nothing
<1>3. Found' = Table!Nothing
  BY <1>1 DEF Found, Table!Nothing
<1> QED
  BY <1>2, <1>3 DEF Table!Reset

\* The steps of an open: the slot taken, and the number written.
LEMMA AllocOpens ==
  ASSUME IInv, NEW t \in Threads, Alloc(t)
  PROVE  [Table!Next]_(Table!vars)
<1>1. CASE UNCHANGED <<up, slots, shell, proc, file>>
  BY <1>1, AllKept
<1>2. ASSUME NEW i \in Slots, NEW s \in Shells, FirstFree(i), pc[s] = "unused",
             slots' = [slots EXCEPT ![i] = s],
             shell' = [shell EXCEPT ![s] = NewShell(t, i)],
             proc' = [proc EXCEPT ![s] = "running"],
             UNCHANGED <<up, file>>
      PROVE  Table!Next
  <2> DEFINE p == loc[t].proj
             c == (t = Handler)
             session == [project |-> p, connected |-> c, process |-> "running"]
  <2>1. /\ slots \in [Slots -> Shells \cup {NULL}]
        /\ shell \in [Shells -> ShellRec]
        /\ proc \in [Shells -> {"none", "running", "clean", "crash"}]
        /\ p \in Projects \cup {NULL}
    BY <1>2 DEF IInv, TypeOK, Locals
  <2>2. s # NULL
    BY ConstantsAssumption
  <2>3. slots[i] = NULL /\ \A j \in Slots : j < i => slots[j] # NULL
    BY <1>2 DEF FirstFree
  <2>4. InUse' = InUse \cup {i} /\ i \notin InUse
    BY <1>2, <2>1, <2>2, <2>3 DEF InUse
  <2>5. Session(i)' = session
    BY <1>2, <2>1 DEF Session, NewShell
  <2>6. ASSUME NEW j \in InUse PROVE Session(j)' = Session(j)
    <3>1. j \in Slots /\ slots[j] # NULL /\ j # i
      BY <2>6, <2>4 DEF InUse
    <3>2. slots[j] \in Shells /\ slots'[j] = slots[j]
      BY <3>1, <1>2, <2>1
    <3>3. slots[j] # s
      BY <3>1, <1>2 DEF IInv, SlotsMatchShells, Allocated
    <3> QED
      BY <3>2, <3>3, <1>2, <2>1 DEF Session
  <2>7. DOMAIN Sessions = InUse
    BY DEF Sessions
  <2>8. Sessions' = [j \in DOMAIN Sessions \cup {i} |-> IF j = i THEN session ELSE Sessions[j]]
    <3>1. \A j \in InUse : Sessions[j] = Session(j)
      BY DEF Sessions
    <3>2. Sessions' = [j \in InUse' |-> Session(j)']
      BY DEF Sessions
    <3> QED
      BY <3>1, <3>2, <2>4, <2>5, <2>6, <2>7
  <2>9. \A j \in Slots : j < i => j \in DOMAIN Sessions
    BY <2>3, <2>7 DEF InUse
  <2>10. Found' = Found
    BY <1>2 DEF Found, Announced
  <2>11. Table!Open(i, p, c)
    BY <2>4, <2>7, <2>8, <2>9, <2>10 DEF Table!Open
  <2>12. c \in BOOLEAN
    OBVIOUS
  <2> QED
    BY <2>1, <2>11, <2>12 DEF Table!Next
<1> QED
  BY <1>1, <1>2 DEF Alloc

LEMMA MkFileUnseen ==
  ASSUME IInv, NEW t \in Threads, MkFile(t)
  PROVE  UNCHANGED Table!vars
<1>1. Sessions' = Sessions
  BY SessionsKept DEF MkFile
<1>2. \A p \in Projects : file'[p] = file[p] \/ (file[p] = Absent /\ file'[p] = Empty)
  BY DEF MkFile, IInv, TypeOK
<1>3. Absent \notin Slots /\ Empty \notin Slots
  BY DEF Slots, Absent, Empty
<1>4. Announced' = Announced /\ \A p \in Announced : file'[p] = file[p]
  BY <1>2, <1>3 DEF Announced, MkFile
<1>5. Found' = Found
  BY <1>4 DEF Found
<1> QED
  BY <1>1, <1>5 DEF Table!vars

LEMMA WriteFileAnnounces ==
  ASSUME IInv, up, NEW t \in Threads, WriteFile(t)
  PROVE  [Table!Next]_(Table!vars)
<1> DEFINE i == loc[t].slot
           p == loc[t].proj
<1>1. Sessions' = Sessions
  BY SessionsKept DEF WriteFile
<1>2. /\ slots[i] # NULL /\ i \in Slots
      /\ shell[slots[i]].proj = p /\ p # NULL /\ p \in Projects \cup {NULL}
  BY DEF IInv, TypeOK, OpenersOwnNewShells, Opening, ProjectIsKnown, WriteFile, Locals
<1>3. i \in InUse /\ DOMAIN Sessions = InUse /\ DOMAIN Found = Announced
  BY <1>2 DEF InUse, Sessions, Found
<1>4. Sessions[i].project = p
  BY <1>2, <1>3 DEF Sessions, Session
<1>5. file \in [Projects -> Slots \cup {Absent, Empty}] /\ up' = up
  BY DEF IInv, TypeOK, WriteFile
<1>6. CASE file' = file
  <2>1. Found' = Found
    BY <1>5, <1>6 DEF Found, Announced
  <2> QED
    BY <1>1, <2>1 DEF Table!vars
<1>7. CASE file' = [file EXCEPT ![p] = i] /\ p \in LongIds
  <2>1. \A q \in Projects \ LongIds : file'[q] = file[q]
    BY <1>5, <1>7
  <2>2. Announced' = Announced /\ \A q \in Announced : file'[q] = file[q]
    BY <1>5, <2>1 DEF Announced
  <2>3. Found' = Found
    BY <2>2 DEF Found
  <2> QED
    BY <1>1, <2>3 DEF Table!vars
<1>8. CASE file' = [file EXCEPT ![p] = i] /\ p \notin LongIds
  <2>1. p \in Projects \ LongIds /\ file'[p] = i
    BY <1>2, <1>5, <1>8
  <2>2. \A q \in Projects : q # p => file'[q] = file[q]
    BY <1>5, <1>8
  <2>3. Announced' = Announced \cup {p}
    BY <1>2, <1>5, <2>1, <2>2 DEF Announced
  <2>4. Found' = [q \in Announced \cup {p} |-> IF q = p THEN i ELSE Found[q]]
    <3>1. Found' = [q \in Announced \cup {p} |-> file'[q]]
      BY <2>3 DEF Found
    <3>2. \A q \in Announced : Found[q] = file[q] /\ q \in Projects
      BY DEF Found, Announced
    <3> QED
      BY <2>1, <2>2, <3>1, <3>2
  <2>5. Table!Announce(i)
    BY <1>1, <1>3, <1>4, <2>1, <2>4 DEF Table!Announce
  <2> QED
    BY <1>2, <2>5 DEF Table!Next
<1> QED
  BY <1>6, <1>7, <1>8 DEF WriteFile

LEMMA OpenStepSeen ==
  ASSUME IInv, up, NEW t \in Threads, OpenStep(t)
  PROVE  [Table!Next]_(Table!vars)
<1>1. CASE Lookup(t)
  BY <1>1, AllKept, CrashResets DEF Lookup, Table!Next
<1>2. CASE Fork(t) \/ Spawn(t)
  BY <1>2, AllKept DEF Fork, Spawn
<1>3. CASE MkFile(t)
  BY <1>3, MkFileUnseen
<1>4. CASE WriteFile(t)
  BY <1>4, WriteFileAnnounces
<1> QED
  BY <1>1, <1>2, <1>3, <1>4 DEF OpenStep

\* A step of the handler on a shell that is in the table.
LEMMA UpdateShellConnects ==
  ASSUME IInv, UpdateShell
  PROVE  Table!Next
<1>1. PICK i \in Slots : i = loc[Handler].slot
  BY DEF IInv, TypeOK, Locals, Threads
<1>2. slots[i] # NULL /\ slots[i] \in Shells /\ shell \in [Shells -> ShellRec]
  BY <1>1 DEF IInv, TypeOK, MutexLostOnlyByOverflow, UpdateShell
<1>3. PICK c \in BOOLEAN : c = Updated(shell[slots[i]]).connected
  BY <1>2 DEF Updated, ShellRec
<1>4. Updated(shell[slots[i]]).proj = shell[slots[i]].proj
  BY <1>2 DEF Updated, ShellRec
<1>5. shell' = [shell EXCEPT ![slots[i]] = Updated(shell[slots[i]])]
  BY <1>1, <1>2 DEF UpdateShell
<1>6. slots' = slots /\ proc' = proc /\ file' = file /\ up' = up
  BY DEF UpdateShell
<1>7. i \in InUse /\ InUse' = InUse /\ DOMAIN Sessions = InUse
  BY <1>2, <1>6 DEF InUse, Sessions
<1>8. ASSUME NEW j \in InUse, j # i PROVE Session(j)' = Session(j)
  <2>1. slots[j] \in Shells /\ slots[j] # slots[i]
    BY <1>2, <1>8 DEF InUse, IInv, TypeOK, SlotsMatchShells
  <2> QED
    BY <1>2, <1>5, <1>6, <2>1 DEF Session
<1>9. Session(i)' = [Session(i) EXCEPT !.connected = c]
  BY <1>2, <1>3, <1>4, <1>5, <1>6 DEF Session
<1>10. Sessions' = [Sessions EXCEPT ![i].connected = c]
  BY <1>7, <1>8, <1>9 DEF Sessions
<1>11. Found' = Found
  BY <1>6 DEF Found, Announced
<1>12. Table!Connect(i, c)
  BY <1>7, <1>10, <1>11 DEF Table!Connect
<1> QED
  BY <1>12 DEF Table!Next

\* The process of a shell ends: the owner closed it, or it died.
LEMMA DeathIsSeen ==
  ASSUME IInv, NEW s \in Shells, NEW d \in {"clean", "crash"}, proc[s] = "running",
         proc' = [proc EXCEPT ![s] = d], UNCHANGED <<up, slots, shell, file>>
  PROVE  [Table!Next]_(Table!vars)
<1> DEFINE i == shell[s].id
<1>1. /\ slots \in [Slots -> Shells \cup {NULL}] /\ NULL \notin Shells
      /\ shell \in [Shells -> ShellRec]
      /\ proc \in [Shells -> {"none", "running", "clean", "crash"}]
  BY ConstantsAssumption DEF IInv, TypeOK
<1>2. ASSUME NEW j \in InUse, slots[j] # s PROVE Session(j)' = Session(j)
  BY <1>1, <1>2 DEF Session, InUse
<1>3. InUse' = InUse /\ DOMAIN Sessions = InUse /\ Found' = Found
  BY DEF InUse, Sessions, Found, Announced
<1>4. CASE \A j \in InUse : slots[j] # s
  <2>1. Sessions' = Sessions
    BY <1>2, <1>3, <1>4 DEF Sessions
  <2> QED
    BY <1>3, <2>1 DEF Table!vars
<1>5. ASSUME NEW j \in InUse, slots[j] = s PROVE Table!Next
  <2>1. j = i /\ j \in Slots
    BY <1>1, <1>5 DEF InUse, IInv, SlotsMatchShells
  <2>2. \A k \in InUse : k # j => slots[k] # s
    BY <1>1, <1>5, <2>1 DEF InUse, IInv, SlotsMatchShells
  <2>3. Session(j)' = [Session(j) EXCEPT !.process = d] /\ Session(j).process = "running"
    BY <1>1, <1>5 DEF Session
  <2>4. Sessions' = [Sessions EXCEPT ![j].process = d]
    BY <1>2, <1>3, <2>2, <2>3 DEF Sessions
  <2>5. Sessions[j].process = "running"
    BY <2>3 DEF Sessions
  <2>6. Table!End(j, d)
    BY <1>3, <2>4, <2>5 DEF Table!End
  <2> QED
    BY <2>1, <2>6 DEF Table!Next
<1> QED
  BY <1>4, <1>5

LEMMA HandlerStepSeen ==
  ASSUME IInv, up, HandlerStep \/ HandlerLock
  PROVE  [Table!Next]_(Table!vars)
<1>0. Handler \in Threads
  BY DEF Threads
<1>1. CASE OpenStep(Handler) \/ Alloc(Handler)
  BY <1>0, <1>1, OpenStepSeen, AllocOpens
<1>2. CASE Answer \/ CheckSlot
  BY <1>2, AllKept DEF Answer, CheckSlot
<1>3. CASE UpdateShell
  BY <1>3, UpdateShellConnects
<1>4. CASE LockShell
  <2>1. CASE Crash
    BY <2>1, CrashResets DEF Table!Next
  <2>2. CASE ~Crash
    <3>1. /\ slots' = slots /\ proc' = proc /\ file' = file /\ up' = up
          /\ \/ shell' = shell
             \/ \E s \in Shells : shell' = [shell EXCEPT ![s].request = "freed"]
      BY <1>4, <2>2 DEF LockShell
    <3>2. /\ shell \in [Shells -> ShellRec]
          /\ \A i \in InUse : slots[i] \in Shells
      BY DEF IInv, TypeOK, InUse
    <3>3. \A s \in Shells : shell'[s].proj = shell[s].proj /\ shell'[s].connected = shell[s].connected
      BY <3>1, <3>2 DEF ShellRec
    <3>4. Sessions' = Sessions
      BY <3>1, <3>2, <3>3, SessionsKept
    <3>5. Found' = Found
      BY <3>1 DEF Found, Announced
    <3> QED
      BY <3>4, <3>5 DEF Table!vars
  <2> QED
    BY <2>1, <2>2
<1>5. CASE UseShell
  <2>1. CASE Crash
    BY <2>1, CrashResets DEF Table!Next
  <2>2. CASE ~Crash /\ proc' = proc
    BY <1>5, <2>2, AllKept DEF UseShell
  <2>3. CASE ~Crash /\ proc' # proc
    <3>1. PICK s \in Shells : /\ proc[s] = "running" /\ proc' = [proc EXCEPT ![s] = "clean"]
                              /\ UNCHANGED <<up, slots, shell, file>>
      BY <1>5, <2>3 DEF UseShell
    <3> QED
      BY <3>1, DeathIsSeen
  <2> QED
    BY <2>1, <2>2, <2>3
<1> QED
  BY <1>1, <1>2, <1>3, <1>4, <1>5 DEF HandlerStep, HandlerLock

\* The slot is given back.
LEMMA FreeReleases ==
  ASSUME IInv, NEW s \in Shells, Free(s)
  PROVE  Table!Next
<1> DEFINE i == shell[s].id
           p == shell[s].proj
<1>1. /\ slots \in [Slots -> Shells \cup {NULL}] /\ NULL \notin Shells
      /\ shell \in [Shells -> ShellRec]
      /\ proc \in [Shells -> {"none", "running", "clean", "crash"}]
      /\ file \in [Projects -> Slots \cup {Absent, Empty}]
      /\ LongIds \subseteq Projects /\ NULL \notin Projects
  BY ConstantsAssumption DEF IInv, TypeOK
<1>2. slots[i] = s /\ i \in Slots /\ proc[s] \in {"clean", "crash"}
  BY <1>1 DEF Free, IInv, SlotsMatchShells, Allocated, ChildrenMatchReaders, ShellRec
<1>3. i \in InUse /\ InUse' = InUse \ {i} /\ DOMAIN Sessions = InUse /\ DOMAIN Found = Announced
  BY <1>1, <1>2 DEF Free, InUse, Sessions, Found
<1>4. Sessions[i].process # "running" /\ Sessions[i].project = p
  BY <1>2, <1>3 DEF Sessions, Session
<1>5. ASSUME NEW j \in InUse, j # i PROVE Session(j)' = Session(j)
  <2>1. slots[j] \in Shells /\ slots[j] # s /\ slots'[j] = slots[j]
    BY <1>1, <1>2, <1>5 DEF Free, InUse, IInv, SlotsMatchShells
  <2> QED
    BY <1>1, <2>1 DEF Free, Session
<1>6. Sessions' = [j \in DOMAIN Sessions \ {i} |-> Sessions[j]]
  BY <1>3, <1>5 DEF Sessions
<1>7. Absent \notin Slots /\ up' = up
  BY DEF Free, Slots, Absent
<1>8. \A q \in Projects \ LongIds : file'[q] = IF q = p THEN Absent ELSE file[q]
  BY <1>1 DEF Free, RemovedFiles
<1>9. Announced' = Announced \ {p} /\ \A q \in Announced \ {p} : file'[q] = file[q]
  BY <1>7, <1>8 DEF Announced
<1>10. Found' = [q \in DOMAIN Found \ {p} |-> Found[q]]
  BY <1>3, <1>9 DEF Found
<1>11. Table!Release(i)
  BY <1>3, <1>4, <1>6, <1>10 DEF Table!Release
<1> QED
  BY <1>2, <1>11 DEF Table!Next

LEMMA ReaderStepSeen ==
  ASSUME IInv, up, NEW s \in Shells, ReaderStep(s) \/ ReaderLock(s) \/ ChildDies(s)
  PROVE  [Table!Next]_(Table!vars)
<1>0. s \in Threads
  BY DEF Threads
<1>1. CASE OpenStep(s) \/ Alloc(s)
  BY <1>0, <1>1, OpenStepSeen, AllocOpens
<1>2. CASE ReaderExit(s) \/ Decide(s) \/ GiveUp(s)
  BY <1>2, AllKept, CrashResets DEF ReaderExit, Decide, GiveUp, Table!Next
<1>3. CASE Free(s)
  BY <1>3, FreeReleases
<1>4. CASE ChildDies(s)
  BY <1>4, DeathIsSeen, ConstantsAssumption DEF ChildDies
<1> QED
  BY <1>1, <1>2, <1>3, <1>4 DEF ReaderStep, ReaderLock

LEMMA CommandSeen ==
  ASSUME Command
  PROVE  [Table!Next]_(Table!vars)
<1>1. CASE RecvPoweroff
  BY <1>1, CrashResets DEF RecvPoweroff, Table!Next
<1>2. CASE ~RecvPoweroff
  BY <1>2, AllKept DEF Command, RecvOpen, RecvBadOpen, RecvShellCommand, RecvStatus
<1> QED
  BY <1>1, <1>2

LEMMA BootUnseen ==
  ASSUME Boot
  PROVE  UNCHANGED Table!vars
<1>1. Sessions' = Sessions
  BY SessionsKept DEF Boot
<1>2. Announced = {} /\ Announced' = {}
  BY DEF Boot, Announced, Slots, Absent
<1>3. Found' = Found
  BY <1>2 DEF Found
<1> QED
  BY <1>1, <1>3 DEF Table!vars

LEMMA TableStep == IInv /\ [Next]_vars => [Table!Next]_(Table!vars)
<1> SUFFICES ASSUME IInv, [Next]_vars PROVE [Table!Next]_(Table!vars)
  OBVIOUS
<1>1. CASE UNCHANGED vars
  BY <1>1, AllKept DEF vars
<1>2. CASE Boot
  BY <1>2, BootUnseen
<1>3. CASE up /\ Running
  BY <1>3, CommandSeen, HandlerStepSeen, ReaderStepSeen DEF Running
<1> QED
  BY <1>1, <1>2, <1>3 DEF Next

\* HypervisorShells implements SessionTable: seen from outside, the commands of
\* the owner, the openers, the readers and the restarts, with all their steps
\* outside the mutex, change the table one whole session at a time.
THEOREM TableCorrect == Spec => ImplementsTable
<1>1. Init => Table!Init
  <2> SUFFICES ASSUME Init PROVE Table!Init
    OBVIOUS
  <2>1. InUse = {} /\ Announced = {}
    BY DEF Init, InUse, Announced, Slots, Absent
  <2>2. Sessions = Table!Nothing /\ Found = Table!Nothing
    BY <2>1 DEF Sessions, Found, Table!Nothing
  <2> QED
    BY <2>2 DEF Table!Init
<1> QED
  BY <1>1, TableStep, Inductive, PTL DEF Spec, ImplementsTable, Table!Spec

\* What the specification of the table says holds of the hypervisor: a project
\* that is found is found under a session of its own.
THEOREM FoundCorrect == Spec => []Table!FoundIsThere
<1>1. Table!Init => Table!FoundIsThere
  BY DEF Table!Init, Table!Nothing, Table!FoundIsThere
<1>2. Table!FoundIsThere /\ [Table!Next]_(Table!vars) => Table!FoundIsThere'
  <2> SUFFICES ASSUME Table!FoundIsThere, [Table!Next]_(Table!vars) PROVE Table!FoundIsThere'
    OBVIOUS
  <2>1. ASSUME NEW i \in Slots, NEW program \in Projects \cup {NULL}, NEW connected \in BOOLEAN,
               Table!Open(i, program, connected)
        PROVE  Table!FoundIsThere'
    BY <2>1 DEF Table!Open, Table!FoundIsThere
  <2>2. ASSUME NEW i \in Slots, NEW connected \in BOOLEAN, Table!Connect(i, connected)
        PROVE  Table!FoundIsThere'
    BY <2>2 DEF Table!Connect, Table!FoundIsThere
  <2>3. ASSUME NEW i \in Slots, NEW death \in {"clean", "crash"}, Table!End(i, death)
        PROVE  Table!FoundIsThere'
    BY <2>3 DEF Table!End, Table!FoundIsThere
  <2>4. ASSUME NEW i \in Slots, Table!Announce(i) \/ Table!Release(i)
        PROVE  Table!FoundIsThere'
    BY <2>4 DEF Table!Announce, Table!Release, Table!FoundIsThere
  <2>5. CASE Table!Reset
    BY <2>5 DEF Table!Reset, Table!Nothing, Table!FoundIsThere
  <2>6. CASE UNCHANGED Table!vars
    BY <2>6 DEF Table!vars, Table!FoundIsThere
  <2> QED
    BY <2>1, <2>2, <2>3, <2>4, <2>5, <2>6 DEF Table!Next
<1> QED
  BY <1>1, <1>2, TableCorrect, PTL DEF ImplementsTable, Table!Spec
=============================================================================
