----------------------------- MODULE LogsProofs -----------------------------
(***************************************************************************)
(* Proofs about Logs, for every number of writers, length of the table and *)
(* set of strings, and both programs: IInv is inductive, and with it a     *)
(* hypervisor uses, frees and posts every string once.                     *)
(***************************************************************************)
EXTENDS Logs, TLAPS

\* Before the first log the invariant holds.
LEMMA InitIInv == Init => IInv
<1> SUFFICES ASSUME Init PROVE IInv
  OBVIOUS
<1> USE ConstantsAssumption DEF Init, NoLogs, Index
<1>1. TypeOK
  <2>1. logs \in [Index -> Entries \cup {Freed}] /\ size \in 0 .. MaxSize
    OBVIOUS
  <2> QED
    BY <2>1 DEF TypeOK
<1>2. HypervisorTakesOnce /\ EntriesAlive
  BY <1>1 DEF HypervisorTakesOnce, EntriesAlive, Buffered, TypeOK, Counted
<1>3. StringsOwned
  BY DEF StringsOwned
<1> QED
  BY <1>1, <1>2, <1>3 DEF IInv

\* A restarted process has no log either.
LEMMA RestartIInv == IInv /\ Restart /\ UNCHANGED dangling => IInv'
<1> SUFFICES ASSUME IInv, Restart, UNCHANGED dangling PROVE IInv'
  OBVIOUS
<1> USE ConstantsAssumption DEF Restart, NoLogs, Index
<1>1. TypeOK'
  BY DEF IInv, TypeOK
<1>2. HypervisorTakesOnce' /\ EntriesAlive'
  BY <1>1 DEF IInv, HypervisorTakesOnce, EntriesAlive, Buffered, TypeOK, Counted
<1>3. StringsOwned'
  BY DEF StringsOwned
<1> QED
  BY <1>1, <1>2, <1>3 DEF IInv

\* In a server anything may dangle.
LEMMA DangleIInv == IInv /\ Dangle /\ program = "server" => IInv'
<1> SUFFICES ASSUME IInv, Dangle, program = "server" PROVE IInv'
  OBVIOUS
<1> USE ConstantsAssumption DEF Dangle, Restart, NoLogs, Index
<1>1. TypeOK'
  BY DEF IInv, TypeOK
<1>2. HypervisorTakesOnce' /\ EntriesAlive'
  BY DEF HypervisorTakesOnce, EntriesAlive
<1>3. StringsOwned'
  BY DEF StringsOwned
<1> QED
  BY <1>1, <1>2, <1>3 DEF IInv

\* A writer that passes the test owns the string it builds.
LEMMA EnterIInv == ASSUME NEW w \in Writers, IInv, Enter(w) PROVE IInv'
<1> USE ConstantsAssumption DEF Enter, senderVars
<1>1. PICK e \in Entries \ InUse : str' = [str EXCEPT ![w] = e]
  OBVIOUS
<1>2. TypeOK'
  BY <1>1 DEF IInv, TypeOK
<1>3. HypervisorTakesOnce' /\ EntriesAlive'
  <2>1. \A i \in Index : Counted(i)' <=> Counted(i)
    BY DEF Counted, IInv, TypeOK
  <2> QED
    BY <2>1 DEF IInv, TypeOK, HypervisorTakesOnce, EntriesAlive, Buffered
<1>4. StringsOwned'
  BY <1>1, <1>2 DEF IInv, TypeOK, StringsOwned, InUse
<1> QED
  BY <1>2, <1>3, <1>4 DEF IInv

\* Only a server discards.
LEMMA DiscardFreeIInv == ASSUME NEW w \in Writers, IInv, DiscardFree(w) PROVE IInv'
<1> USE ConstantsAssumption
<1>1. program = "server"
  BY DEF IInv, TypeOK, EntriesAlive, DiscardFree
<1>2. CASE Dangle
  BY <1>1, <1>2, DangleIInv
<1>3. CASE ~Dangle
  <2> USE <1>3 DEF DiscardFree, Emptied, senderVars
  <2>1. TypeOK'
    BY DEF IInv, TypeOK, Index
  <2>2. HypervisorTakesOnce' /\ EntriesAlive'
    BY <1>1 DEF HypervisorTakesOnce, EntriesAlive
  <2>3. StringsOwned'
    BY <2>1 DEF IInv, TypeOK, StringsOwned
  <2> QED
    BY <2>1, <2>2, <2>3 DEF IInv
<1> QED
  BY <1>2, <1>3

LEMMA DiscardResetIInv == ASSUME NEW w \in Writers, IInv, DiscardReset(w) PROVE IInv'
<1> USE ConstantsAssumption DEF DiscardReset, senderVars
<1>1. TypeOK'
  BY DEF IInv, TypeOK
<1>2. HypervisorTakesOnce' /\ EntriesAlive'
  BY DEF IInv, TypeOK, HypervisorTakesOnce, EntriesAlive
<1>3. StringsOwned'
  BY DEF IInv, TypeOK, StringsOwned
<1> QED
  BY <1>1, <1>2, <1>3 DEF IInv

\* With the mutex free nothing is stored beyond the size, so the writer fills
\* the first place that is not counted.
LEMMA StoreIInv == ASSUME NEW w \in Writers, IInv, Store(w) PROVE IInv'
<1> USE ConstantsAssumption
<1>1. CASE Restart /\ UNCHANGED dangling
  BY <1>1, RestartIInv
<1>2. CASE ~(Restart /\ UNCHANGED dangling)
  <2> USE <1>2 DEF Store, senderVars
  <2>1. size \in Index /\ str[w] \in Entries /\ str[w] # Freed
    BY DEF IInv, TypeOK, StringsOwned, Index
  <2>2. TypeOK'
    <3>1. logs' \in [Index -> Entries \cup {Freed}]
      BY <2>1 DEF IInv, TypeOK
    <3>2. lock' \in Writers /\ seen' \in [Writers -> 0 .. MaxSize]
      BY <2>1 DEF IInv, TypeOK, Index
    <3>3. wpc' \in [Writers -> {"idle", "discard", "reset", "store", "increment"}]
      BY DEF IInv, TypeOK
    <3>4. str' \in [Writers -> Entries \cup {NULL}]
      BY DEF IInv, TypeOK
    <3> QED
      BY <3>1, <3>2, <3>3, <3>4 DEF IInv, TypeOK
  <2>3. ASSUME program = "hypervisor" PROVE \A v \in Writers : wpc[v] # "increment"
    BY <2>3 DEF IInv, TypeOK, EntriesAlive
  <2>4. \A i \in Index : logs'[i] = IF i = size THEN str[w] ELSE logs[i]
    BY <2>1 DEF IInv, TypeOK
  <2>5. ASSUME program = "hypervisor" PROVE \A i \in Index : Counted(i)' <=> Counted(i) \/ i = size
    BY <2>3, <2>5 DEF Counted, IInv, TypeOK, Index
  <2>6. EntriesAlive'
    BY <2>1, <2>3, <2>4, <2>5 DEF IInv, TypeOK, EntriesAlive, StringsOwned
  <2>7. HypervisorTakesOnce'
    BY <2>6 DEF IInv, HypervisorTakesOnce, EntriesAlive, Buffered
  <2>8. StringsOwned'
    <3>1. \A v \in Writers : str'[v] = IF v = w THEN NULL ELSE str[v]
      BY DEF IInv, TypeOK
    <3>2. \A v \in Writers : wpc'[v] = IF v = w THEN "increment" ELSE wpc[v]
      BY DEF IInv, TypeOK
    <3>3. \A v \in Writers : seen'[v] = IF v = w THEN size ELSE seen[v]
      BY DEF IInv, TypeOK
    <3>4. size < MaxSize /\ batch' = batch
      BY <2>1 DEF IInv, TypeOK, Index
    <3> QED
      BY <2>1, <2>4, <3>1, <3>2, <3>3, <3>4 DEF IInv, StringsOwned
  <2> QED
    BY <2>2, <2>6, <2>7, <2>8 DEF IInv
<1> QED
  BY <1>1, <1>2

\* The string stored is counted: nobody else changed the size.
LEMMA IncrementIInv == ASSUME NEW w \in Writers, IInv, Increment(w) PROVE IInv'
<1> USE ConstantsAssumption DEF Increment, senderVars
<1>1. TypeOK'
  BY DEF IInv, TypeOK, StringsOwned
<1>2. ASSUME program = "hypervisor"
      PROVE  /\ \A v \in Writers : wpc'[v] # "increment"
             /\ \A i \in Index : Counted(i)' <=> Counted(i)
  <2>1. \A v \in Writers : wpc'[v] # "increment"
    BY <1>2 DEF IInv, TypeOK, EntriesAlive
  <2>2. size' = size + 1 /\ size \in Nat
    BY <1>2 DEF IInv, TypeOK, EntriesAlive
  <2> QED
    BY <2>1, <2>2 DEF Counted, Index
<1>3. EntriesAlive'
  BY <1>2 DEF IInv, TypeOK, EntriesAlive
<1>4. HypervisorTakesOnce'
  BY <1>3 DEF IInv, HypervisorTakesOnce, EntriesAlive, Buffered
<1>5. StringsOwned'
  BY DEF IInv, TypeOK, StringsOwned
<1> QED
  BY <1>1, <1>3, <1>4, <1>5 DEF IInv

\* What only moves the sender, or drops its message, keeps the invariant.
LEMMA SenderMoves ==
  ASSUME IInv, UNCHANGED <<program, size, logs, writerVars, dangling>>,
         batch' \subseteq batch, spc' \in {"asleep", "build", "post"},
         \/ lock' = lock
         \/ lock = NULL /\ lock' = Sender
  PROVE  IInv'
<1> USE ConstantsAssumption DEF writerVars
<1>1. TypeOK'
  BY DEF IInv, TypeOK
<1>2. \A i \in Index : Counted(i)' <=> Counted(i)
  BY DEF Counted
<1>3. EntriesAlive'
  BY <1>2 DEF IInv, EntriesAlive
<1>4. HypervisorTakesOnce'
  BY DEF IInv, HypervisorTakesOnce, Buffered
<1>5. StringsOwned'
  BY DEF IInv, StringsOwned
<1> QED
  BY <1>1, <1>3, <1>4, <1>5 DEF IInv

\* A hypervisor takes everything that is counted, and all of it is alive.
LEMMA BuildIInv == IInv /\ Build => IInv'
<1> SUFFICES ASSUME IInv, Build PROVE IInv'
  OBVIOUS
<1> USE ConstantsAssumption
<1>1. CASE Dangle /\ NotAlive
  <2>1. program = "server"
    BY <1>1 DEF IInv, TypeOK, NotAlive, Buffered, EntriesAlive, Counted
  <2> QED
    BY <1>1, <2>1, DangleIInv
<1>2. CASE ~(Dangle /\ NotAlive)
  <2> USE <1>2 DEF Build, writerVars
  <2>1. batch' = Buffered \ {Freed} /\ batch' \subseteq Entries
    BY DEF Buffered, IInv, TypeOK
  <2>2. \A i \in Index : logs'[i] \in {logs[i], Freed}
    BY DEF Emptied, IInv, TypeOK
  <2>3. TypeOK'
    <3>1. dangling' \in BOOLEAN
      OBVIOUS
    <3>2. logs' \in [Index -> Entries \cup {Freed}]
      BY DEF IInv, TypeOK, Emptied
    <3> QED
      BY <2>1, <3>1, <3>2 DEF IInv, TypeOK, SizeOnceBuilt
  <2>4. ASSUME program = "hypervisor"
        PROVE  /\ \A v \in Writers : wpc'[v] # "increment"
               /\ \A i \in Index : logs'[i] = Freed
               /\ size' = 0
    <3>1. \A v \in Writers : wpc[v] # "increment"
      BY <2>4 DEF IInv, TypeOK, EntriesAlive
    <3>2. \A i \in Index : i < size \/ logs[i] = Freed
      BY <2>4, <3>1 DEF IInv, EntriesAlive, Counted
    <3> QED
      BY <2>4, <3>1, <3>2 DEF Emptied, SizeOnceBuilt, writerVars
  <2>5. EntriesAlive'
    BY <2>1, <2>4 DEF IInv, EntriesAlive, Counted, Index, writerVars
  <2>6. HypervisorTakesOnce'
    <3>1. program = "hypervisor" => dangling' = dangling
      BY DEF IInv, TypeOK
    <3> QED
      BY <2>5, <3>1 DEF IInv, HypervisorTakesOnce, EntriesAlive, Buffered
  <2>7. StringsOwned'
    BY <2>1, <2>2 DEF IInv, TypeOK, StringsOwned, Buffered, writerVars
  <2> QED
    BY <2>3, <2>5, <2>6, <2>7 DEF IInv
<1> QED
  BY <1>1, <1>2 DEF Build

\* Only a server empties its buffer after the POST.
LEMMA PostSucceedsIInv == IInv /\ PostSucceeds => IInv'
<1> SUFFICES ASSUME IInv, PostSucceeds PROVE IInv'
  OBVIOUS
<1> USE ConstantsAssumption
<1>1. CASE program = "hypervisor"
  BY <1>1, SenderMoves DEF PostSucceeds
<1>2. CASE program = "server" /\ Dangle
  BY <1>2, DangleIInv
<1>3. CASE program = "server" /\ ~Dangle
  <2> USE <1>3 DEF PostSucceeds, Emptied
  <2>1. TypeOK'
    BY DEF IInv, TypeOK, Index, writerVars
  <2>2. HypervisorTakesOnce' /\ EntriesAlive'
    BY DEF HypervisorTakesOnce, EntriesAlive
  <2>3. StringsOwned'
    BY <2>1 DEF IInv, TypeOK, StringsOwned, writerVars
  <2> QED
    BY <2>1, <2>2, <2>3 DEF IInv
<1> QED
  BY <1>1, <1>2, <1>3 DEF PostSucceeds

LEMMA ResetIInv == IInv /\ Reset => IInv'
<1> SUFFICES ASSUME IInv, Reset PROVE IInv'
  OBVIOUS
<1> USE ConstantsAssumption DEF Reset, writerVars
<1>1. TypeOK'
  BY DEF IInv, TypeOK
<1>2. HypervisorTakesOnce' /\ EntriesAlive'
  BY DEF IInv, HypervisorTakesOnce, EntriesAlive
<1>3. StringsOwned'
  BY DEF IInv, StringsOwned
<1> QED
  BY <1>1, <1>2, <1>3 DEF IInv

\* Every step keeps the invariant.
LEMMA NextIInv == IInv /\ [Next]_vars => IInv'
<1> SUFFICES ASSUME IInv, [Next]_vars PROVE IInv'
  OBVIOUS
<1>1. ASSUME NEW w \in Writers, Enter(w) \/ WriterStep(w) \/ Store(w) PROVE IInv'
  BY <1>1, EnterIInv, DiscardFreeIInv, DiscardResetIInv, StoreIInv, IncrementIInv DEF WriterStep
<1>2. CASE Wake \/ PostFails
  BY <1>2, SenderMoves DEF Wake, PostFails
<1>3. CASE BuildFails
  BY <1>3, SenderMoves DEF BuildFails, LockOnceFailed
<1>4. CASE PostSucceeds \/ Reset \/ Build
  BY <1>4, PostSucceedsIInv, ResetIInv, BuildIInv
<1>5. CASE UNCHANGED vars
  BY <1>5 DEF vars, writerVars, senderVars, IInv, TypeOK, HypervisorTakesOnce, EntriesAlive,
              StringsOwned, Buffered, Counted
<1> QED
  BY <1>1, <1>2, <1>3, <1>4, <1>5 DEF Next, SenderStep

\* The strengthening of the invariants holds in every reachable state.
THEOREM Inductive == Spec => []IInv
<1> QED
  BY InitIInv, NextIInv, PTL DEF Spec

\* A hypervisor neither uses nor frees a string after it freed it, and posts
\* none twice, although its writers test the size outside the mutex.
THEOREM TakesOnceCorrect == Spec => []HypervisorTakesOnce
<1>1. IInv => HypervisorTakesOnce
  BY DEF IInv
<1> QED
  BY <1>1, Inductive, PTL
=============================================================================
