------------------------------- MODULE Files -------------------------------
(***************************************************************************)
(* The files component of wyliodrind (files/files.c), with the part of     *)
(* wxmpp/wxmpp.c that tells it about the connection.                       *)
(*                                                                         *)
(* The FUSE thread serves one call at a time (fuse_main runs with -s): it  *)
(* asks the owner over XMPP and sleeps on the condition variable until     *)
(* the XMPP thread raises the flag of the call.  The XMPP thread handles   *)
(* one event after the other: answers of the owner, its presence, and the  *)
(* loss and return of the connection.  The two share the mutex, the flags  *)
(* (signals), is_owner_online (read and written without the mutex), the    *)
(* connection and the last answers (data).                                 *)
(*                                                                         *)
(* Calls and flags have the same names.  An answer is the path it is       *)
(* about: the attributes, the entries or the content themselves do not     *)
(* matter here.                                                            *)
(***************************************************************************)
EXTENDS Naturals, FiniteSets

CONSTANTS
  Paths,     \* what the kernel asks for
  Calls,     \* the calls it makes: "attr", "list", "read"
  Answers,   \* "ok", "error", and "bad": one that lacks an attribute
  MaxAsked,  \* bound on the copies of a request the owner has not answered
  Fuse, Xmpp, NULL

ASSUME ConstantsAssumption ==
  /\ Calls \subseteq {"attr", "list", "read"}
  /\ Answers \subseteq {"ok", "error", "bad"}
  /\ MaxAsked \in Nat \ {0}
  /\ Fuse # Xmpp /\ NULL \notin {Fuse, Xmpp}

Flags == {"attr", "list", "read", "fail"}

VARIABLES
  conn,      \* the XMPP connection
  online,    \* is_owner_online
  mutex,     \* its holder, or NULL
  signals,   \* the flags that are up: signal_attr, signal_list, ...
  data,      \* attributes, root and read_data: the paths they are about
  loaded,    \* read_data is not NULL
  fpc,       \* where the FUSE thread is
  call,      \* its call
  clearing,  \* the flags it has still to clear
  xpc,       \* where the XMPP thread is
  stanza,    \* the answer it handles
  raising,   \* the flags it has still to raise
  asked,     \* how many answers the owner owes for each call and path
  errors     \* history: a connection error has happened

fuseVars == <<fpc, call, clearing>>
xmppVars == <<xpc, stanza, raising>>
answers == <<data, loaded>>
vars == <<conn, online, mutex, signals, answers, fuseVars, xmppVars, asked, errors>>

CallNames == {"attr", "list", "read"}
Requests  == [call: CallNames, path: Paths]
NoRequest == [call |-> NULL, path |-> NULL]

NoData == [c \in CallNames |-> {}]

Init ==
  /\ conn = "up"
  /\ online = FALSE
  /\ mutex = NULL
  /\ signals = {}
  /\ data = NoData /\ loaded = FALSE
  /\ fpc = "idle" /\ call = NoRequest /\ clearing = {}
  /\ xpc = "idle" /\ stanza = NoRequest /\ raising = {}
  /\ asked = [r \in Requests |-> 0]
  /\ errors = FALSE

\* A NULL pointer is used.  The service manager starts the process again;
\* the owner still has what it was asked.
Crash ==
  /\ conn' = "up"
  /\ online' = FALSE
  /\ mutex' = NULL
  /\ signals' = {}
  /\ data' = NoData /\ loaded' = FALSE
  /\ fpc' = "idle" /\ call' = NoRequest /\ clearing' = {}
  /\ xpc' = "idle" /\ stanza' = NoRequest /\ raising' = {}
  /\ UNCHANGED <<asked, errors>>

Free(t) == mutex \in {NULL, t}

-----------------------------------------------------------------------------
(* The FUSE thread: wfuse_getattr, wfuse_readdir and wfuse_read *)

\* After a connection error the flags are cleared, without the mutex.
Call(r) ==
  /\ fpc = "idle"
  /\ call' = r
  /\ IF "fail" \in signals
     THEN fpc' = "clear" /\ clearing' = Flags
     ELSE fpc' = "check" /\ UNCHANGED clearing
  /\ UNCHANGED <<conn, online, mutex, signals, answers, xmppVars, asked, errors>>

\* Plain assignments: they may take effect in any order.
Clear(f) ==
  /\ fpc = "clear"
  /\ f \in clearing
  /\ signals' = signals \ {f}
  /\ clearing' = clearing \ {f}
  /\ fpc' = IF clearing = {f} THEN "check" ELSE "clear"
  /\ UNCHANGED <<conn, online, mutex, answers, call, xmppVars, asked, errors>>

\* is_owner_online is read once, before the mutex is taken.
Check ==
  /\ fpc = "check"
  /\ IF online
     THEN fpc' = "lock" /\ UNCHANGED call
     ELSE fpc' = "idle" /\ call' = NoRequest
  /\ UNCHANGED <<conn, online, mutex, signals, answers, clearing, xmppVars, asked, errors>>

\* The request goes out under the mutex; without a connection it is
\* dropped, and before the next one is made its pointers are NULL.  The
\* thread goes to sleep unless its flag is up.
Send ==
  /\ fpc = "lock"
  /\ mutex = NULL
  /\ \/ conn = "none" /\ Crash
     \/ /\ conn # "none"
        /\ \/ /\ conn = "up" /\ asked[call] < MaxAsked
              /\ asked' = [asked EXCEPT ![call] = @ + 1]
           \/ UNCHANGED asked
        /\ IF call.call \in signals
           THEN fpc' = "woken" /\ mutex' = Fuse
           ELSE fpc' = "asleep" /\ UNCHANGED mutex
        /\ UNCHANGED <<conn, online, signals, answers, call, clearing, xmppVars, errors>>

\* Woken for another call.
SleepAgain ==
  /\ fpc = "woken"
  /\ Free(Fuse)
  /\ call.call \notin signals
  /\ fpc' = "asleep"
  /\ UNCHANGED <<conn, online, mutex, signals, answers, call, clearing, xmppVars, asked, errors>>

\* Mutant: a call that succeeds leaves its flag up.
LoweredOnFailure == IF "fail" \in signals THEN Flags ELSE {}

\* The flags a finished call lowers.
Lowered == IF "fail" \in signals THEN Flags ELSE {call.call}

UsesNull == call.call = "read" /\ "fail" \notin signals /\ ~loaded

\* The call fails, or returns what the last answer of its kind left behind;
\* the entries of a directory are consumed.
Return ==
  /\ fpc = "woken"
  /\ Free(Fuse)
  /\ call.call \in signals
  /\ \/ UsesNull /\ Crash
     \/ /\ ~UsesNull
        /\ signals' = signals \ Lowered
        /\ data' = IF call.call = "list" /\ "fail" \notin signals
                   THEN [data EXCEPT !["list"] = {}] ELSE data
        /\ mutex' = NULL
        /\ fpc' = "idle" /\ call' = NoRequest
        /\ UNCHANGED <<conn, online, loaded, clearing, xmppVars, asked, errors>>

-----------------------------------------------------------------------------
(* The XMPP thread *)

\* pthread_cond_signal
Wake == fpc' = IF fpc = "asleep" THEN "woken" ELSE fpc

\* files: the answer of the owner to any request, at any time.
Receive(r) ==
  /\ xpc = "idle" /\ conn = "up"
  /\ asked[r] > 0
  /\ asked' = [asked EXCEPT ![r] = @ - 1]
  /\ xpc' = "files" /\ stanza' = r
  /\ UNCHANGED <<conn, online, mutex, signals, answers, fuseVars, raising, errors>>

\* Mutant: the answer is stored and nobody is woken.
WakeForgotten == UNCHANGED fpc

WakeCaller == Wake

\* What files_attr, files_read and files_list keep: an error invalidates the
\* attributes, and leaves the text empty; entries are added to those that
\* nobody consumed.
KeptAttr(a) == IF a = "ok" THEN {stanza.path} ELSE {}
KeptRead(a) == IF a = "ok" THEN {stanza.path} ELSE {}
KeptList(a) == IF a = "ok" THEN data["list"] \cup {stanza.path} ELSE data["list"]

Kept(a) ==
  CASE stanza.call = "attr" -> KeptAttr(a)
    [] stanza.call = "read" -> KeptRead(a)
    [] stanza.call = "list" -> KeptList(a)

\* The answer is kept and its flag raised under the mutex.
Handle ==
  /\ xpc = "files"
  /\ mutex = NULL
  /\ \E a \in Answers \ {"bad"} : data' = [data EXCEPT ![stanza.call] = Kept(a)]
  /\ loaded' = (loaded \/ stanza.call = "read")
  /\ signals' = signals \cup {stanza.call}
  /\ WakeCaller
  /\ xpc' = "idle" /\ stanza' = NoRequest
  /\ UNCHANGED <<conn, online, mutex, call, clearing, raising, asked, errors>>

\* An attribute is missing or the text does not decode: werr2 returns with
\* the mutex held.
HandleBad ==
  /\ "bad" \in Answers
  /\ xpc = "files"
  /\ mutex = NULL
  /\ mutex' = Xmpp
  /\ xpc' = "idle" /\ stanza' = NoRequest
  /\ UNCHANGED <<conn, online, signals, answers, fuseVars, raising, asked, errors>>

\* presence_handler: nobody is woken when the owner leaves.
Presence ==
  /\ xpc = "idle" /\ conn = "up"
  /\ online' = ~online
  /\ UNCHANGED <<conn, mutex, signals, answers, fuseVars, xmppVars, asked, errors>>

\* conn_handler, called with an error.
ConnectionError ==
  /\ xpc = "idle" /\ conn \in {"up", "connecting"}
  /\ online' = FALSE
  /\ errors' = TRUE
  /\ xpc' = "error"
  /\ UNCHANGED <<conn, mutex, signals, answers, fuseVars, stanza, raising, asked>>

\* Mutant: the flag of readdir is forgotten.
RaisedWithoutList == Flags \ {"list"}

Raised == Flags

LockForError ==
  /\ xpc = "error"
  /\ mutex = NULL
  /\ mutex' = Xmpp
  /\ xpc' = "raise" /\ raising' = Raised
  /\ UNCHANGED <<conn, online, signals, answers, fuseVars, stanza, asked, errors>>

Raise(f) ==
  /\ xpc = "raise"
  /\ f \in raising
  /\ signals' = signals \cup {f}
  /\ raising' = raising \ {f}
  /\ UNCHANGED <<conn, online, mutex, answers, fuseVars, xpc, stanza, asked, errors>>

\* The event loop is stopped, and xmpp_connect goes on.
SignalError ==
  /\ xpc = "raise" /\ raising = {}
  /\ Wake
  /\ mutex' = NULL
  /\ conn' = "leaving"
  /\ xpc' = "idle"
  /\ UNCHANGED <<online, signals, answers, call, clearing, stanza, raising, asked, errors>>

\* xmpp_connect: release the connection, make another one, connect.
Reconnect ==
  /\ xpc = "idle"
  /\ \/ conn = "leaving"    /\ conn' = "none"
     \/ conn = "none"       /\ conn' = "connecting"
     \/ conn = "connecting" /\ conn' = "up"
  /\ UNCHANGED <<online, mutex, signals, answers, fuseVars, xmppVars, asked, errors>>

-----------------------------------------------------------------------------

FuseStep == Check \/ \E f \in Flags : Clear(f)
FuseLock == Send \/ SleepAgain \/ Return
XmppStep == SignalError \/ \E f \in Flags : Raise(f)
XmppLock == Handle \/ HandleBad \/ LockForError

Next ==
  \/ \E r \in Requests : (r.call \in Calls /\ Call(r)) \/ Receive(r)
  \/ FuseStep \/ FuseLock
  \/ XmppStep \/ XmppLock
  \/ Presence \/ ConnectionError \/ Reconnect

Spec == Init /\ [][Next]_vars

\* Both threads are scheduled, and a thread that keeps finding the mutex
\* free gets it.  Nothing is promised of the owner, nor of the network.
Fairness ==
  /\ WF_vars(FuseStep) /\ SF_vars(FuseLock)
  /\ WF_vars(XmppStep) /\ SF_vars(XmppLock)

FairSpec == Spec /\ Fairness

-----------------------------------------------------------------------------
(* What must hold *)

\* Every variable holds a value of its kind.
TypeOK ==
  /\ conn \in {"up", "leaving", "none", "connecting"}
  /\ online \in BOOLEAN
  /\ mutex \in {NULL, Fuse, Xmpp}
  /\ signals \subseteq Flags
  /\ data \in [CallNames -> SUBSET Paths]
  /\ loaded \in BOOLEAN
  /\ fpc \in {"idle", "clear", "check", "lock", "asleep", "woken"}
  /\ call \in Requests \cup {NoRequest}
  /\ fpc # "idle" => call \in Requests
  /\ clearing \subseteq Flags
  /\ xpc \in {"idle", "files", "error", "raise"}
  /\ stanza \in Requests \cup {NoRequest}
  /\ xpc = "files" => stanza \in Requests
  /\ raising \subseteq Flags
  /\ asked \in [Requests -> 0 .. MaxAsked]
  /\ errors \in BOOLEAN

\* The mutex was kept by the handler of an answer.
Lost == mutex = Xmpp /\ xpc # "raise"

\* No wakeup is lost: a sleeping call has its flag down, or the thread that
\* raises it has not signalled the condition yet.
NoLostWakeup ==
  fpc = "asleep" => call.call \notin signals \/ xpc = "raise"

\* The loss of the connection reaches every call: nobody is left waiting
\* for an answer on a connection that is gone.  The flags are cleared, and
\* the presence of the owner is checked, outside the mutex, so the order in
\* which conn_handler writes them and the caller reads them matters.
WaitsOnLiveConnection ==
  fpc \in {"asleep", "woken"} =>
    \/ conn = "up"
    \/ call.call \in signals

\* Until the first connection error a call returns the answer to its own
\* question, although answers carry no identity, owners come and go, and
\* requests and answers may be lost.
OwnAnswer ==
  fpc = "woken" /\ call.call \in signals /\ "fail" \notin signals =>
    data[call.call] \subseteq {call.path}

OwnAnswerUntilError == ~errors => OwnAnswer

\* Why the loss of the connection reaches every call: from the moment the
\* owner was seen online until the call returns, the flag of the call is
\* only ever raised; and nobody is seen online while an error is handled.
OnlineIsConnected == online => conn = "up" /\ xpc \notin {"error", "raise"}

Waiting == {"lock", "asleep", "woken"}

WaitersAreSignaled ==
  fpc \in Waiting =>
    /\ conn = "up" \/ call.call \in signals
    /\ xpc = "raise" => call.call \in signals \cup raising

\* Why a call gets its own answer until the first error: the owner owes at
\* most that one, and whatever is still in the process belongs to the call.
Outstanding == {r \in Requests : asked[r] # 0}

OneAnswerDue ==
  ~errors =>
    /\ conn = "up" /\ xpc \in {"idle", "files"} /\ fpc # "clear"
    /\ "fail" \notin signals
    /\ fpc \notin {"asleep", "woken"} =>
         signals = {} /\ Outstanding = {} /\ xpc = "idle" /\ data["list"] = {}
    /\ fpc \in {"asleep", "woken"} =>
         /\ Outstanding \subseteq {call}
         /\ asked[call] <= 1
         /\ xpc = "files" => stanza = call /\ Outstanding = {} /\ signals = {}
         /\ signals # {} =>
              /\ signals = {call.call} /\ Outstanding = {}
              /\ data[call.call] \subseteq {call.path}
         /\ data["list"] # {} => signals = {"list"}

IInv ==
  /\ TypeOK
  /\ NoLostWakeup
  /\ OnlineIsConnected
  /\ WaitersAreSignaled
  /\ OneAnswerDue

\* A connection error ends the call that waits, unless the mutex was lost.
ErrorReleasesCaller ==
  (xpc = "error" /\ fpc = "asleep") ~> (fpc = "idle" \/ Lost)

\* An answer to the call that waits ends it, unless the mutex was lost.
AnswerReleasesCaller ==
  (xpc = "files" /\ fpc = "asleep" /\ stanza.call = call.call)
    ~> (fpc = "idle" \/ Lost)

-----------------------------------------------------------------------------
(* What the repository says of the program and the code does not do *)

\* xmpphandling.rst: "In case of a connection error, the error must be
\* signaled to the files module": the thread that does it can take the mutex.
ErrorCanBeSignaled == ~(xpc = "error" /\ Lost)

\* protocol_files: the answer to a request is what it asked for, whatever
\* happened to the connection.
AlwaysOwnAnswer == OwnAnswer
=============================================================================
