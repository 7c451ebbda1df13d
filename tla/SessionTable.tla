----------------------------- MODULE SessionTable -----------------------------
(***************************************************************************)
(* What the hypervisor promises of the shells it runs: a table of          *)
(* sessions, and for each project the session under which it is found.     *)
(* The threads that work on the table, what they know of it and what they  *)
(* wait for are not to be seen: HypervisorShells implements this.          *)
(***************************************************************************)
EXTENDS Naturals

CONSTANTS
  Slots,     \* the numbers a session may have
  Programs,  \* what a session may run: a project, or a shell of no project
  Projects   \* the projects that can be found

VARIABLES
  table,  \* the sessions there are, by their number
  found   \* the number under which a project is found, while it is

vars == <<table, found>>

Nothing == [x \in {} |-> x]

Init == table = Nothing /\ found = Nothing

\* A session takes the lowest number that is free, and keeps its project.
Open(i, program, connected) ==
  /\ i \notin DOMAIN table
  /\ \A j \in Slots : j < i => j \in DOMAIN table
  /\ table' = [j \in DOMAIN table \cup {i} |->
                IF j = i THEN [project |-> program, connected |-> connected, process |-> "running"]
                ELSE table[j]]
  /\ UNCHANGED found

\* The owner comes to a session, or leaves it.
Connect(i, connected) ==
  /\ i \in DOMAIN table
  /\ table' = [table EXCEPT ![i].connected = connected]
  /\ UNCHANGED found

\* The process of a session ends once.
End(i, death) ==
  /\ i \in DOMAIN table
  /\ table[i].process = "running"
  /\ table' = [table EXCEPT ![i].process = death]
  /\ UNCHANGED found

\* From now on the project is found under this number.
Announce(i) ==
  /\ i \in DOMAIN table
  /\ table[i].project \in Projects
  /\ found' = [p \in DOMAIN found \cup {table[i].project} |->
                 IF p = table[i].project THEN i ELSE found[p]]
  /\ UNCHANGED table

\* A number is free again once the process has ended, and with the session goes
\* what its project was found under.
Release(i) ==
  /\ i \in DOMAIN table
  /\ table[i].process # "running"
  /\ table' = [j \in DOMAIN table \ {i} |-> table[j]]
  /\ found' = [p \in DOMAIN found \ {table[i].project} |-> found[p]]

\* The hypervisor ends: nothing is left of the table, and nothing is found.
Reset == table' = Nothing /\ found' = Nothing

Next ==
  \/ \E i \in Slots :
       \/ \E program \in Programs, connected \in BOOLEAN : Open(i, program, connected)
       \/ \E connected \in BOOLEAN : Connect(i, connected)
       \/ \E death \in {"clean", "crash"} : End(i, death)
       \/ Announce(i)
       \/ Release(i)
  \/ Reset

Spec == Init /\ [][Next]_vars

\* A project is found under the number of a session of its own.
FoundIsThere ==
  \A p \in DOMAIN found : found[p] \in DOMAIN table /\ table[found[p]].project = p
=============================================================================
