---------------------------- MODULE RequestChannel ----------------------------
(***************************************************************************)
(* What the redis link between the two daemons promises of the owner's     *)
(* requests.  They may be lost.  As long as the threads of the server do   *)
(* not share its context they are never executed twice or out of order;    *)
(* once two of them did, what was accepted may be executed again.  The     *)
(* requests the server accepts are numbered 1, 2, ...                      *)
(***************************************************************************)
EXTENDS Naturals

VARIABLES
  accepted,  \* how many requests the server has accepted
  executed,  \* the last request the hypervisor has executed, 0 at first
  shared     \* two threads of the server were inside its context at once

Init == accepted = 0 /\ executed = 0 /\ shared = FALSE

Accept == accepted' = accepted + 1 /\ UNCHANGED executed

\* The requests between the last one and this one are lost for good.
Execute == executed' \in executed + 1 .. accepted /\ UNCHANGED accepted

\* The buffers of a shared context hold what was written before.
Repeat == shared /\ executed' \in 1 .. accepted /\ UNCHANGED accepted

\* A thread may find another inside with any step but those of the hypervisor.
Share == shared' \in {shared, TRUE}

Next ==
  \/ (Accept \/ UNCHANGED <<accepted, executed>>) /\ Share
  \/ (Execute \/ Repeat) /\ UNCHANGED shared

Spec == Init /\ [][Next]_<<accepted, executed, shared>>
=============================================================================
