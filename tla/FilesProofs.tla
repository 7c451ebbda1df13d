---------------------------- MODULE FilesProofs ----------------------------
(***************************************************************************)
(* What TLAPS proves of Files for every set of paths, calls and answers.   *)
(***************************************************************************)
EXTENDS Files, TLAPS

\* A crash leaves the types of a process that starts.
LEMMA CrashType == TypeOK /\ Crash => TypeOK'
<1>1. NoData \in [CallNames -> SUBSET Paths]
  BY DEF NoData
<1> QED
  BY <1>1 DEF Crash, TypeOK

\* The call and the path of a request.
LEMMA RequestType ==
  ASSUME NEW r \in Requests
  PROVE  r.call \in CallNames /\ r.path \in Paths
BY DEF Requests

\* Every step keeps the types.
LEMMA TypeStep == TypeOK /\ [Next]_vars => TypeOK'
<1> SUFFICES ASSUME TypeOK, [Next]_vars PROVE TypeOK'
  OBVIOUS
<1>1. ASSUME NEW r \in Requests, Call(r) PROVE TypeOK'
  BY <1>1 DEF Call, TypeOK, answers, fuseVars, xmppVars
<1>2. ASSUME NEW f \in Flags, Clear(f) PROVE TypeOK'
  BY <1>2 DEF Clear, TypeOK, answers, fuseVars, xmppVars
<1>3. ASSUME Check PROVE TypeOK'
  BY <1>3 DEF Check, TypeOK, answers, fuseVars, xmppVars
<1>4. ASSUME Send PROVE TypeOK'
  <2>1. CASE Crash
    BY <2>1, CrashType
  <2>2. CASE ~Crash
    <3>1. asked' \in [Requests -> 0 .. MaxAsked]
      <4>1. CASE UNCHANGED asked
        BY <4>1 DEF TypeOK
      <4>2. CASE asked[call] < MaxAsked /\ asked' = [asked EXCEPT ![call] = @ + 1]
        <5>1. call \in Requests
          BY <1>4 DEF Send, TypeOK
        <5>2. asked[call] + 1 \in 0 .. MaxAsked
          BY <4>2, <5>1, ConstantsAssumption DEF TypeOK
        <5> QED
          BY <4>2, <5>1, <5>2 DEF TypeOK
      <4> QED
        BY <1>4, <2>2, <4>1, <4>2 DEF Send
    <3> QED
      BY <1>4, <2>2, <3>1 DEF Send, TypeOK, answers, xmppVars
  <2> QED
    BY <2>1, <2>2
<1>5. ASSUME SleepAgain PROVE TypeOK'
  BY <1>5 DEF SleepAgain, TypeOK, answers, fuseVars, xmppVars
<1>6. ASSUME Return PROVE TypeOK'
  BY <1>6, CrashType DEF Return, Lowered, UsesNull, TypeOK, answers, fuseVars, xmppVars
<1>7. ASSUME NEW r \in Requests, Receive(r) PROVE TypeOK'
  BY <1>7, ConstantsAssumption DEF Receive, TypeOK, answers, fuseVars, xmppVars
<1>8. ASSUME Handle PROVE TypeOK'
  <2>1. stanza.call \in CallNames /\ stanza.path \in Paths
    BY <1>8, RequestType DEF Handle, TypeOK
  <2>2. data' \in [CallNames -> SUBSET Paths]
    <3>1. PICK a \in Answers : data' = [data EXCEPT ![stanza.call] = Kept(a)]
      BY <1>8 DEF Handle
    <3>2. Kept(a) \in SUBSET Paths
      BY <2>1 DEF Kept, KeptAttr, KeptRead, KeptList, TypeOK, CallNames
    <3> QED
      BY <2>1, <3>1, <3>2 DEF TypeOK
  <2>3. signals' \subseteq Flags
    BY <1>8, <2>1 DEF Handle, TypeOK, Flags, CallNames
  <2> QED
    BY <1>8, <2>2, <2>3 DEF Handle, WakeCaller, Wake, TypeOK
<1>9. ASSUME HandleBad PROVE TypeOK'
  BY <1>9 DEF HandleBad, TypeOK, answers, fuseVars, xmppVars
<1>10. ASSUME Presence PROVE TypeOK'
  BY <1>10 DEF Presence, TypeOK, answers, fuseVars, xmppVars
<1>11. ASSUME ConnectionError PROVE TypeOK'
  BY <1>11 DEF ConnectionError, TypeOK, answers, fuseVars, xmppVars
<1>12. ASSUME LockForError PROVE TypeOK'
  BY <1>12 DEF LockForError, Raised, TypeOK, answers, fuseVars, xmppVars
<1>13. ASSUME NEW f \in Flags, Raise(f) PROVE TypeOK'
  BY <1>13 DEF Raise, TypeOK, answers, fuseVars, xmppVars
<1>14. ASSUME SignalError PROVE TypeOK'
  BY <1>14 DEF SignalError, Wake, TypeOK, answers, fuseVars, xmppVars
<1>15. ASSUME Reconnect PROVE TypeOK'
  BY <1>15 DEF Reconnect, TypeOK, answers, fuseVars, xmppVars
<1>16. CASE UNCHANGED vars
  BY <1>16 DEF vars, answers, fuseVars, xmppVars, TypeOK, answers, fuseVars, xmppVars
<1> QED
  BY <1>1, <1>2, <1>3, <1>4, <1>5, <1>6, <1>7, <1>8, <1>9, <1>10, <1>11, <1>12, <1>13, <1>14, <1>15, <1>16
     DEF Next, FuseStep, FuseLock, XmppStep, XmppLock

\* No step puts a call to sleep whose flag is up, or raises the flag of a sleeping call
\* without waking it.
LEMMA WakeupStep == TypeOK /\ NoLostWakeup /\ [Next]_vars => NoLostWakeup'
<1> SUFFICES ASSUME TypeOK, NoLostWakeup, [Next]_vars PROVE NoLostWakeup'
  OBVIOUS
<1>1. ASSUME NEW r \in Requests, Call(r) PROVE NoLostWakeup'
  BY <1>1 DEF Call, NoLostWakeup, answers, fuseVars, xmppVars
<1>2. ASSUME NEW f \in Flags, Clear(f) PROVE NoLostWakeup'
  BY <1>2 DEF Clear, NoLostWakeup, answers, fuseVars, xmppVars
<1>3. ASSUME Check PROVE NoLostWakeup'
  BY <1>3 DEF Check, NoLostWakeup, answers, fuseVars, xmppVars
<1>4. ASSUME Send PROVE NoLostWakeup'
  BY <1>4 DEF Send, Crash, NoLostWakeup, answers, fuseVars, xmppVars
<1>5. ASSUME SleepAgain PROVE NoLostWakeup'
  BY <1>5 DEF SleepAgain, NoLostWakeup, answers, fuseVars, xmppVars
<1>6. ASSUME Return PROVE NoLostWakeup'
  BY <1>6 DEF Return, Crash, UsesNull, NoLostWakeup, answers, fuseVars, xmppVars
<1>7. ASSUME NEW r \in Requests, Receive(r) PROVE NoLostWakeup'
  BY <1>7 DEF Receive, NoLostWakeup, answers, fuseVars, xmppVars
<1>8. ASSUME Handle PROVE NoLostWakeup'
  BY <1>8 DEF Handle, WakeCaller, Wake, NoLostWakeup, answers, fuseVars, xmppVars
<1>9. ASSUME HandleBad PROVE NoLostWakeup'
  BY <1>9 DEF HandleBad, NoLostWakeup, answers, fuseVars, xmppVars
<1>10. ASSUME Presence PROVE NoLostWakeup'
  BY <1>10 DEF Presence, NoLostWakeup, answers, fuseVars, xmppVars
<1>11. ASSUME ConnectionError PROVE NoLostWakeup'
  BY <1>11 DEF ConnectionError, NoLostWakeup, answers, fuseVars, xmppVars
<1>12. ASSUME LockForError PROVE NoLostWakeup'
  BY <1>12 DEF LockForError, Raised, NoLostWakeup, answers, fuseVars, xmppVars
<1>13. ASSUME NEW f \in Flags, Raise(f) PROVE NoLostWakeup'
  BY <1>13 DEF Raise, NoLostWakeup, answers, fuseVars, xmppVars
<1>14. ASSUME SignalError PROVE NoLostWakeup'
  BY <1>14 DEF SignalError, Wake, NoLostWakeup, answers, fuseVars, xmppVars
<1>15. ASSUME Reconnect PROVE NoLostWakeup'
  BY <1>15 DEF Reconnect, NoLostWakeup, answers, fuseVars, xmppVars
<1>16. CASE UNCHANGED vars
  BY <1>16 DEF vars, answers, fuseVars, xmppVars, NoLostWakeup, answers, fuseVars, xmppVars
<1> QED
  BY <1>1, <1>2, <1>3, <1>4, <1>5, <1>6, <1>7, <1>8, <1>9, <1>10, <1>11, <1>12, <1>13, <1>14, <1>15, <1>16
     DEF Next, FuseStep, FuseLock, XmppStep, XmppLock

\* The owner is online only on a connection that is up and has no error to report.
LEMMA OnlineStep == TypeOK /\ OnlineIsConnected /\ [Next]_vars => OnlineIsConnected'
<1> SUFFICES ASSUME TypeOK, OnlineIsConnected, [Next]_vars PROVE OnlineIsConnected'
  OBVIOUS
<1>1. ASSUME NEW r \in Requests, Call(r) PROVE OnlineIsConnected'
  BY <1>1 DEF Call, OnlineIsConnected, answers, fuseVars, xmppVars
<1>2. ASSUME NEW f \in Flags, Clear(f) PROVE OnlineIsConnected'
  BY <1>2 DEF Clear, OnlineIsConnected, answers, fuseVars, xmppVars
<1>3. ASSUME Check PROVE OnlineIsConnected'
  BY <1>3 DEF Check, OnlineIsConnected, answers, fuseVars, xmppVars
<1>4. ASSUME Send PROVE OnlineIsConnected'
  BY <1>4 DEF Send, Crash, OnlineIsConnected, answers, fuseVars, xmppVars
<1>5. ASSUME SleepAgain PROVE OnlineIsConnected'
  BY <1>5 DEF SleepAgain, OnlineIsConnected, answers, fuseVars, xmppVars
<1>6. ASSUME Return PROVE OnlineIsConnected'
  BY <1>6 DEF Return, Crash, UsesNull, OnlineIsConnected, answers, fuseVars, xmppVars
<1>7. ASSUME NEW r \in Requests, Receive(r) PROVE OnlineIsConnected'
  BY <1>7 DEF Receive, OnlineIsConnected, answers, fuseVars, xmppVars
<1>8. ASSUME Handle PROVE OnlineIsConnected'
  BY <1>8 DEF Handle, OnlineIsConnected, answers, fuseVars, xmppVars
<1>9. ASSUME HandleBad PROVE OnlineIsConnected'
  BY <1>9 DEF HandleBad, OnlineIsConnected, answers, fuseVars, xmppVars
<1>10. ASSUME Presence PROVE OnlineIsConnected'
  BY <1>10 DEF Presence, OnlineIsConnected, answers, fuseVars, xmppVars
<1>11. ASSUME ConnectionError PROVE OnlineIsConnected'
  BY <1>11 DEF ConnectionError, OnlineIsConnected, answers, fuseVars, xmppVars
<1>12. ASSUME LockForError PROVE OnlineIsConnected'
  BY <1>12 DEF LockForError, OnlineIsConnected, answers, fuseVars, xmppVars
<1>13. ASSUME NEW f \in Flags, Raise(f) PROVE OnlineIsConnected'
  BY <1>13 DEF Raise, OnlineIsConnected, answers, fuseVars, xmppVars
<1>14. ASSUME SignalError PROVE OnlineIsConnected'
  BY <1>14 DEF SignalError, OnlineIsConnected, answers, fuseVars, xmppVars
<1>15. ASSUME Reconnect PROVE OnlineIsConnected'
  BY <1>15 DEF Reconnect, OnlineIsConnected, answers, fuseVars, xmppVars
<1>16. CASE UNCHANGED vars
  BY <1>16 DEF vars, answers, fuseVars, xmppVars, OnlineIsConnected, answers, fuseVars, xmppVars
<1> QED
  BY <1>1, <1>2, <1>3, <1>4, <1>5, <1>6, <1>7, <1>8, <1>9, <1>10, <1>11, <1>12, <1>13, <1>14, <1>15, <1>16
     DEF Next, FuseStep, FuseLock, XmppStep, XmppLock

\* A call that saw the owner online finds its flag up once the connection is lost.
LEMMA WaitersStep == TypeOK /\ OnlineIsConnected /\ WaitersAreSignaled /\ [Next]_vars => WaitersAreSignaled'
<1> SUFFICES ASSUME TypeOK, OnlineIsConnected, WaitersAreSignaled, [Next]_vars PROVE WaitersAreSignaled'
  OBVIOUS
<1>1. ASSUME NEW r \in Requests, Call(r) PROVE WaitersAreSignaled'
  BY <1>1 DEF Call, OnlineIsConnected, WaitersAreSignaled, Waiting, answers, fuseVars, xmppVars
<1>2. ASSUME NEW f \in Flags, Clear(f) PROVE WaitersAreSignaled'
  BY <1>2 DEF Clear, OnlineIsConnected, WaitersAreSignaled, Waiting, answers, fuseVars, xmppVars
<1>3. ASSUME Check PROVE WaitersAreSignaled'
  BY <1>3 DEF Check, OnlineIsConnected, WaitersAreSignaled, Waiting, answers, fuseVars, xmppVars
<1>4. ASSUME Send PROVE WaitersAreSignaled'
  BY <1>4 DEF Send, Crash, OnlineIsConnected, WaitersAreSignaled, Waiting, answers, fuseVars, xmppVars
<1>5. ASSUME SleepAgain PROVE WaitersAreSignaled'
  BY <1>5 DEF SleepAgain, OnlineIsConnected, WaitersAreSignaled, Waiting, answers, fuseVars, xmppVars
<1>6. ASSUME Return PROVE WaitersAreSignaled'
  BY <1>6 DEF Return, Crash, UsesNull, OnlineIsConnected, WaitersAreSignaled, Waiting, answers, fuseVars, xmppVars
<1>7. ASSUME NEW r \in Requests, Receive(r) PROVE WaitersAreSignaled'
  BY <1>7 DEF Receive, OnlineIsConnected, WaitersAreSignaled, Waiting, answers, fuseVars, xmppVars
<1>8. ASSUME Handle PROVE WaitersAreSignaled'
  BY <1>8 DEF Handle, WakeCaller, Wake, OnlineIsConnected, WaitersAreSignaled, Waiting, answers, fuseVars, xmppVars
<1>9. ASSUME HandleBad PROVE WaitersAreSignaled'
  BY <1>9 DEF HandleBad, OnlineIsConnected, WaitersAreSignaled, Waiting, answers, fuseVars, xmppVars
<1>10. ASSUME Presence PROVE WaitersAreSignaled'
  BY <1>10 DEF Presence, OnlineIsConnected, WaitersAreSignaled, Waiting, answers, fuseVars, xmppVars
<1>11. ASSUME ConnectionError PROVE WaitersAreSignaled'
  BY <1>11 DEF ConnectionError, OnlineIsConnected, WaitersAreSignaled, Waiting, answers, fuseVars, xmppVars
<1>12. ASSUME LockForError PROVE WaitersAreSignaled'
  BY <1>12 DEF LockForError, Raised, Flags, TypeOK, Requests, CallNames, OnlineIsConnected, WaitersAreSignaled, Waiting, answers, fuseVars, xmppVars
<1>13. ASSUME NEW f \in Flags, Raise(f) PROVE WaitersAreSignaled'
  BY <1>13 DEF Raise, OnlineIsConnected, WaitersAreSignaled, Waiting, answers, fuseVars, xmppVars
<1>14. ASSUME SignalError PROVE WaitersAreSignaled'
  BY <1>14 DEF SignalError, Wake, OnlineIsConnected, WaitersAreSignaled, Waiting, answers, fuseVars, xmppVars
<1>15. ASSUME Reconnect PROVE WaitersAreSignaled'
  BY <1>15 DEF Reconnect, OnlineIsConnected, WaitersAreSignaled, Waiting, answers, fuseVars, xmppVars
<1>16. CASE UNCHANGED vars
  BY <1>16 DEF vars, answers, fuseVars, xmppVars, OnlineIsConnected, WaitersAreSignaled, Waiting, answers, fuseVars, xmppVars
<1> QED
  BY <1>1, <1>2, <1>3, <1>4, <1>5, <1>6, <1>7, <1>8, <1>9, <1>10, <1>11, <1>12, <1>13, <1>14, <1>15, <1>16
     DEF Next, FuseStep, FuseLock, XmppStep, XmppLock

\* Until the first error the owner owes at most the answer to the call that waits.
LEMMA AnswerStep == TypeOK /\ OneAnswerDue /\ [Next]_vars => OneAnswerDue'
<1> SUFFICES ASSUME TypeOK, OneAnswerDue, [Next]_vars PROVE OneAnswerDue'
  OBVIOUS
<1>1. ASSUME NEW r \in Requests, Call(r) PROVE OneAnswerDue'
  BY <1>1 DEF Call, OneAnswerDue, Outstanding, TypeOK, answers, fuseVars, xmppVars
<1>2. ASSUME NEW f \in Flags, Clear(f) PROVE OneAnswerDue'
  BY <1>2 DEF Clear, OneAnswerDue, Outstanding, TypeOK, answers, fuseVars, xmppVars
<1>3. ASSUME Check PROVE OneAnswerDue'
  BY <1>3 DEF Check, OneAnswerDue, Outstanding, TypeOK, answers, fuseVars, xmppVars
<1>4. ASSUME Send PROVE OneAnswerDue'
  BY <1>4 DEF Send, Crash, OneAnswerDue, Outstanding, TypeOK, answers, fuseVars, xmppVars
<1>5. ASSUME SleepAgain PROVE OneAnswerDue'
  BY <1>5 DEF SleepAgain, OneAnswerDue, Outstanding, TypeOK, answers, fuseVars, xmppVars
<1>6. ASSUME Return PROVE OneAnswerDue'
  <2> SUFFICES ASSUME ~errors PROVE OneAnswerDue'
    BY <1>6 DEF Return, Crash, OneAnswerDue
  <2>1. /\ fpc = "woken" /\ call \in Requests
        /\ signals = {call.call} /\ Outstanding = {} /\ xpc = "idle"
    BY <1>6 DEF Return, OneAnswerDue, TypeOK
  <2>2. Outstanding' = {}
    BY <1>6, <2>1 DEF Return, Crash, Outstanding
  <2>3. CASE Crash
    BY <2>2, <2>3 DEF Crash, NoData, CallNames, OneAnswerDue
  <2>4. CASE ~Crash
    <3>1. signals' = {}
      BY <1>6, <2>1, <2>4 DEF Return, Lowered, OneAnswerDue
    <3>2. data'["list"] = {}
      <4>1. CASE call.call = "list"
        BY <1>6, <2>4, <4>1 DEF Return, OneAnswerDue, TypeOK, CallNames
      <4>2. CASE call.call # "list"
        BY <1>6, <2>1, <2>4, <4>2 DEF Return, OneAnswerDue, TypeOK, CallNames
      <4> QED
        BY <4>1, <4>2
    <3> QED
      BY <1>6, <2>1, <2>2, <2>4, <3>1, <3>2 DEF Return, OneAnswerDue, xmppVars
  <2> QED
    BY <2>3, <2>4
<1>7. ASSUME NEW r \in Requests, Receive(r) PROVE OneAnswerDue'
  BY <1>7 DEF Receive, OneAnswerDue, Outstanding, TypeOK, answers, fuseVars, xmppVars
<1>8. ASSUME Handle PROVE OneAnswerDue'
  <2> SUFFICES ASSUME ~errors PROVE OneAnswerDue'
    BY <1>8 DEF Handle, OneAnswerDue
  <2>1. /\ fpc \in {"asleep", "woken"} /\ call \in Requests /\ stanza = call
        /\ Outstanding = {} /\ signals = {} /\ data["list"] = {}
        /\ conn = "up" /\ asked[call] <= 1
    BY <1>8 DEF Handle, OneAnswerDue, TypeOK
  <2>2. signals' = {call.call} /\ Outstanding' = {} /\ fpc' = "woken"
    BY <1>8, <2>1 DEF Handle, WakeCaller, Wake, Outstanding
  <2>3. PICK a \in Answers : data' = [data EXCEPT ![call.call] = Kept(a)]
    BY <1>8, <2>1 DEF Handle
  <2>4. data'[call.call] \subseteq {call.path}
    BY <2>1, <2>3, RequestType DEF Kept, KeptAttr, KeptRead, KeptList, TypeOK, CallNames
  <2>5. data'["list"] # {} => call.call = "list"
    BY <2>1, <2>3, RequestType DEF TypeOK, CallNames
  <2>6. call' = call /\ conn' = conn /\ xpc' = "idle" /\ errors' = errors /\ asked' = asked
    BY <1>8 DEF Handle
  <2>7. call.call # "fail"
    BY <2>1, RequestType DEF CallNames
  <2> QED
    BY <2>1, <2>2, <2>4, <2>5, <2>6, <2>7 DEF OneAnswerDue
<1>9. ASSUME HandleBad PROVE OneAnswerDue'
  BY <1>9 DEF HandleBad, OneAnswerDue, Outstanding, TypeOK, answers, fuseVars, xmppVars
<1>10. ASSUME Presence PROVE OneAnswerDue'
  BY <1>10 DEF Presence, OneAnswerDue, Outstanding, TypeOK, answers, fuseVars, xmppVars
<1>11. ASSUME ConnectionError PROVE OneAnswerDue'
  BY <1>11 DEF ConnectionError, OneAnswerDue, Outstanding, TypeOK, answers, fuseVars, xmppVars
<1>12. ASSUME LockForError PROVE OneAnswerDue'
  BY <1>12 DEF LockForError, OneAnswerDue, Outstanding, TypeOK, answers, fuseVars, xmppVars
<1>13. ASSUME NEW f \in Flags, Raise(f) PROVE OneAnswerDue'
  BY <1>13 DEF Raise, OneAnswerDue, Outstanding, TypeOK, answers, fuseVars, xmppVars
<1>14. ASSUME SignalError PROVE OneAnswerDue'
  BY <1>14 DEF SignalError, Wake, OneAnswerDue, Outstanding, TypeOK, answers, fuseVars, xmppVars
<1>15. ASSUME Reconnect PROVE OneAnswerDue'
  BY <1>15 DEF Reconnect, OneAnswerDue, Outstanding, TypeOK, answers, fuseVars, xmppVars
<1>16. CASE UNCHANGED vars
  BY <1>16 DEF vars, answers, fuseVars, xmppVars, OneAnswerDue, Outstanding, TypeOK, answers, fuseVars, xmppVars
<1> QED
  BY <1>1, <1>2, <1>3, <1>4, <1>5, <1>6, <1>7, <1>8, <1>9, <1>10, <1>11, <1>12, <1>13, <1>14, <1>15, <1>16
     DEF Next, FuseStep, FuseLock, XmppStep, XmppLock

-----------------------------------------------------------------------------
(* The theorems *)

\* At the start nothing is asked, raised or waited for.
LEMMA InitIInv == Init => IInv
<1> SUFFICES ASSUME Init PROVE IInv
  OBVIOUS
<1>1. data \in [CallNames -> SUBSET Paths] /\ data["list"] = {}
  BY DEF Init, NoData, CallNames
<1>2. asked \in [Requests -> 0 .. MaxAsked] /\ Outstanding = {}
  BY ConstantsAssumption DEF Init, Outstanding
<1>3. TypeOK
  BY <1>1, <1>2 DEF Init, TypeOK
<1> QED
  BY <1>1, <1>2, <1>3 DEF Init, IInv, NoLostWakeup, OnlineIsConnected,
     WaitersAreSignaled, Waiting, OneAnswerDue

\* The inductive invariant.
THEOREM Inductive == Spec => []IInv
<1>1. IInv /\ [Next]_vars => IInv'
  BY TypeStep, WakeupStep, OnlineStep, WaitersStep, AnswerStep DEF IInv
<1> QED
  BY <1>1, InitIInv, PTL DEF Spec

\* No wakeup of a FUSE call is lost.
THEOREM WakeupCorrect == Spec => []NoLostWakeup
BY Inductive, PTL DEF IInv

\* The loss of the connection is signalled to every call that waits.
THEOREM SignalCorrect == Spec => []WaitsOnLiveConnection
<1>1. IInv => WaitsOnLiveConnection
  BY DEF IInv, WaitersAreSignaled, Waiting, WaitsOnLiveConnection
<1> QED
  BY <1>1, Inductive, PTL

\* Until the first connection error a call returns the answer to its own
\* question.
THEOREM AnswerCorrect == Spec => []OwnAnswerUntilError
<1>1. IInv => OwnAnswerUntilError
  BY DEF IInv, OneAnswerDue, OwnAnswer, OwnAnswerUntilError
<1> QED
  BY <1>1, Inductive, PTL
=============================================================================
