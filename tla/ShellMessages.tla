----------------------------- MODULE ShellMessages -----------------------------
(***************************************************************************)
(* The messages about shells, from the owner's stanza to the stanza the    *)
(* owner gets: the server's shells(), redis, the hypervisor's onMessage    *)
(* and the handler it ends in, the threads that read the shells, and the   *)
(* server's onHypervisorMessage.  Each is one action: they run on three    *)
(* threads of two processes, which only share the queues of redis, and the *)
(* request of each shell, which HypervisorShells follows in all its steps. *)
(* The connections are those of HypervisorLink: here they do not fail, and *)
(* the test of shells() that the hypervisor is alive is there; the stanzas *)
(* are those of the owner, for any other's are dropped before all this.    *)
(***************************************************************************)
EXTENDS ShellProtocol

CONSTANTS
  Stanzas,   \* the stanzas the owner may send
  Outputs,   \* what a shell may write at once
  Codes,     \* the exit codes of a shell, as strings
  Slots,     \* the shells the hypervisor has room for
  MaxSent,   \* how many stanzas the owner sends
  MaxOutputs \* how many times the shells write

Names(stanza) == {a.name : a \in ToSet(stanza.attrs)}

\* A stanza has each attribute once; xmlns, by which message_handler knows it,
\* is one of them, and gadgetid may be.  Its values have no zero byte, and its
\* text is shorter than 2^32 bytes.
IsStanza(stanza) ==
  /\ stanza.attrs \in Seq([name : DOMAIN NameLength, word : DOMAIN WordLength, value : String])
  /\ \A i, j \in DOMAIN stanza.attrs : stanza.attrs[i].name = stanza.attrs[j].name => i = j
  /\ "xmlns" \in Names(stanza)
  /\ stanza.text \in String \cup {Null}
  /\ LengthFits(StanzaLength(stanza), 4)

\* An exit code is printed into eight bytes; a shell is read BUFSIZE bytes at
\* a time, and there are MAX_SHELLS of them.
ASSUME StanzasAssumption == \A stanza \in Stanzas : IsStanza(stanza)
ASSUME OutputsAssumption == \A text \in Outputs : text \in Seq(Byte) /\ Len(text) \in 1 .. 1024
ASSUME CodesAssumption == \A code \in Codes : code \in String /\ Len(code) <= 7
ASSUME SlotsAssumption == Slots \subseteq 0 .. 255

VARIABLES
  requests,  \* the channel wsrvhyp: [bytes, of], of is the stanza
  answers,   \* the channel whypsrv: [bytes, of], of is what is meant
  shell,     \* slot -> the request and whether the owner listens, or Null
  sent,      \* every stanza the owner has sent
  heard,     \* the last command: [hm, of], or Null
  told,      \* the last stanza of an answer: [stanza, of], or Null
  lost,      \* what the last answers that did not fit meant
  outputs    \* how many times the shells wrote

vars == <<requests, answers, shell, sent, heard, told, lost, outputs>>

Init ==
  /\ requests = <<>>
  /\ answers = <<>>
  /\ shell = [i \in Slots |-> Null]
  /\ sent = <<>>
  /\ heard = Null
  /\ told = Null
  /\ lost = {}
  /\ outputs = 0

-----------------------------------------------------------------------------
(* The server *)

Submit(bytes, stanza) ==
  requests' = IF bytes = Null THEN requests ELSE Append(requests, [bytes |-> bytes, of |-> stanza])

OwnerSends(stanza) ==
  /\ Len(sent) < MaxSent
  /\ sent' = Append(sent, stanza)
  /\ Submit(shells(stanza), stanza)
  /\ UNCHANGED <<answers, shell, heard, told, lost, outputs>>

ServerReceives ==
  /\ answers # <<>>
  /\ answers' = Tail(answers)
  /\ told' = [stanza |-> onHypervisorMessage(Head(answers).bytes), of |-> Head(answers).of]
  /\ UNCHANGED <<requests, shell, sent, heard, lost, outputs>>

-----------------------------------------------------------------------------
(* The hypervisor: the handlers of its commands *)

\* What an answer means: its fields, by the names the owner knows.
Meaning(action, request, others) ==
  [name \in DOMAIN AnswerKeys |->
     CASE name = "action" -> action
       [] name = "request" -> request
       [] name \in DOMAIN others -> others[name]
       [] OTHER -> Null]

\* Send one answer: it is lost when it does not fit in its buffer.
Publish(bytes, meaning, text) ==
  LET of == [fields |-> meaning, text |-> text]
  IN  IF bytes = Null THEN answers' = answers /\ lost' = lost \cup {of}
      ELSE answers' = Append(answers, [bytes |-> bytes, of |-> of]) /\ lost' = lost

Silent == UNCHANGED <<answers, lost>>

\* The shell that strtol finds named: blanks, a sign, zeros and its number; no
\* bytes at all name shell 0.  (No range is checked, and beyond the table there
\* is no saying what is read: here, that there is no such shell.)
SlotNamed(shellid) ==
  {i \in Slots :
     \/ i = 0 /\ shellid = <<>>
     \/ \E k \in 0 .. Len(shellid) : \E blanks \in 0 .. k : \E sign \in 0 .. 1 :
          /\ SubSeq(shellid, k + 1, Len(shellid)) = Digits(i)
          /\ \A j \in 1 .. blanks : shellid[j] \in {32} \cup 9 .. 13
          /\ sign = 1 => blanks < k /\ shellid[blanks + 1] \in IF i = 0 THEN {43, 45} ELSE {43}
          /\ \A j \in blanks + sign + 1 .. k : shellid[j] = 48}

FailOpen(request) ==
  IF request = Null THEN Silent
  ELSE Publish(OpenAnswer(request, FALSE, 0, FALSE),
               Meaning("open", request, [response |-> Error]), Null)

SucceedOpen(request, i, running) ==
  /\ shell' = [shell EXCEPT ![i] = [request |-> request, connected |-> TRUE]]
  /\ Publish(OpenAnswer(request, TRUE, i, running),
             Meaning("open", request,
                     [response |-> Done, shellid |-> Digits(i), running |-> Text(running)]), Null)

\* A shell in a new slot, a project that runs in the one it has, or no shell (and
\* no answer for a running project when nobody says who opens it):
\* which of them is decided by the rest of the hypervisor.
Open(hm) ==
  LET request == hashmap_get(hm, <<114>>)
      complete == /\ request # Null
                  /\ hashmap_get(hm, <<119>>) # Null
                  /\ hashmap_get(hm, <<104>>) # Null
      project == hashmap_get(hm, <<112>>) # Null
  IN  \/ FailOpen(request) /\ UNCHANGED shell
      \/ project /\ hashmap_get(hm, <<117>>) = Null /\ Silent /\ UNCHANGED shell
      \/ /\ complete
         /\ \/ \E i \in Slots : shell[i] = Null /\ SucceedOpen(request, i, FALSE)
            \/ \E i \in Slots : /\ project
                                /\ hashmap_get(hm, <<117>>) # Null
                                /\ shell[i] # Null
                                /\ SucceedOpen(request, i, TRUE)

Close(hm) ==
  LET request == hashmap_get(hm, <<114>>)
      shellid == hashmap_get(hm, <<115>>)
      named == {i \in SlotNamed(shellid) : shell[i] # Null}
  IN  IF request = Null \/ shellid = Null THEN Silent /\ UNCHANGED shell
      ELSE IF named = {}
           THEN /\ Publish(CloseAnswer(request, shellid, <<45, 49>>),
                           Meaning("close", request, [shellid |-> shellid, code |-> <<45, 49>>]), Null)
                /\ UNCHANGED shell
      ELSE /\ shell' = [i \in Slots |->
                          IF i \in named THEN [request |-> request, connected |-> FALSE] ELSE shell[i]]
           /\ Silent

Keys(hm) ==
  LET request == hashmap_get(hm, <<114>>)
      shellid == hashmap_get(hm, <<115>>)
      text == hashmap_get(hm, TextKey)
      named == {i \in SlotNamed(shellid) : shell[i] # Null}
  IN  IF request = Null \/ shellid = Null THEN Silent /\ UNCHANGED shell
      ELSE IF text = <<>>
           THEN /\ \E after \in AfterLiteral :
                     Publish(KeysAnswer(request, shellid, <<>>, after),
                             Meaning("keys", request, [shellid |-> shellid]), <<>>)
                /\ UNCHANGED shell
      ELSE /\ shell' = [i \in Slots |-> IF i \in named THEN [shell[i] EXCEPT !.request = request]
                                        ELSE shell[i]]
           /\ Silent

Status(hm) ==
  LET request == hashmap_get(hm, <<114>>)
      project == hashmap_get(hm, <<112>>)
  IN  /\ IF request = Null \/ project = Null THEN Silent
         ELSE \E running \in BOOLEAN :
                Publish(StatusAnswer(request, project, running),
                        Meaning("status", request, [projectid |-> project, running |-> Text(running)]),
                        Null)
      /\ UNCHANGED shell

Disconnect(hm) ==
  LET request == hashmap_get(hm, <<114>>)
      shellid == hashmap_get(hm, <<115>>)
      named == {i \in SlotNamed(shellid) : shell[i] # Null}
  IN  /\ IF request = Null \/ shellid = Null THEN UNCHANGED shell
         ELSE shell' = [i \in Slots |-> IF i \in named THEN [shell[i] EXCEPT !.connected = FALSE]
                                        ELSE shell[i]]
      /\ Silent

\* The process ends, and another one starts with no shells: what was on its
\* way to the first one is lost.
Poweroff == shell' = [i \in Slots |-> Null] /\ Silent

Handle(hm) ==
  LET handler == IF hm = Null THEN {} ELSE Handler(hm)
  IN  /\ requests' = IF handler = {"poweroff"} THEN <<>> ELSE Tail(requests)
      /\ heard' = [hm |-> hm, of |-> Head(requests).of]
      /\ CASE handler = {"open"} -> Open(hm)
           [] handler = {"close"} -> Close(hm)
           [] handler = {"keys"} -> Keys(hm)
           [] handler = {"status"} -> Status(hm)
           [] handler = {"disconnect"} -> Disconnect(hm)
           [] handler = {"poweroff"} -> Poweroff
           [] handler \in {{}, {"resize"}} -> Silent /\ UNCHANGED shell

HypervisorReceives ==
  /\ requests # <<>>
  /\ Handle(onMessage(Head(requests).bytes))
  /\ UNCHANGED <<sent, told, outputs>>

-----------------------------------------------------------------------------
(* The hypervisor: the threads that read the shells *)

\* Output goes to the owner only while the owner listens to the shell.
ShellWrites(i, text) ==
  /\ shell[i] # Null
  /\ outputs < MaxOutputs
  /\ outputs' = outputs + 1
  /\ IF shell[i].connected
     THEN \E after \in AfterLiteral :
            Publish(KeysAnswer(shell[i].request, Digits(i), text, after),
                    Meaning("keys", shell[i].request, [shellid |-> Digits(i)]), text)
     ELSE Silent
  /\ UNCHANGED <<requests, shell, sent, heard, told>>

ShellEnds(i, code) ==
  /\ shell[i] # Null
  /\ shell' = [shell EXCEPT ![i] = Null]
  /\ Publish(CloseAnswer(shell[i].request, Digits(i), code),
             Meaning("close", shell[i].request, [shellid |-> Digits(i), code |-> code]), Null)
  /\ UNCHANGED <<requests, sent, heard, told, outputs>>

-----------------------------------------------------------------------------

Next ==
  \/ \E stanza \in Stanzas : OwnerSends(stanza)
  \/ HypervisorReceives
  \/ \E i \in Slots : \E text \in Outputs : ShellWrites(i, text)
  \/ \E i \in Slots : \E code \in Codes : ShellEnds(i, code)
  \/ ServerReceives

Spec == Init /\ [][Next]_vars

-----------------------------------------------------------------------------
(* Properties *)

\* A text in base64, by its definition: the bits, six by six, the last ones
\* filled with zeros.
Bit(data, k) == IF k \div 8 + 1 > Len(data) THEN 0
                ELSE (data[k \div 8 + 1] \div <<128, 64, 32, 16, 8, 4, 2, 1>>[(k % 8) + 1]) % 2
Sextet(data, k) ==
  LET b(i) == Bit(data, 6 * k + i)
  IN  32 * b(0) + 16 * b(1) + 8 * b(2) + 4 * b(3) + 2 * b(4) + b(5)
Base64Of(data) ==
  [k \in 1 .. EncodedSize(Len(data)) - 1 |->
     IF k <= (8 * Len(data) + 5) \div 6 THEN Alphabet[Sextet(data, k - 1)] ELSE 61]

\* The last attribute for the hypervisor, when the header of its map is one
\* pair short: shells() always leaves out two, and only xmlns is always there.
Unread(stanza) ==
  {i \in DOMAIN stanza.attrs :
     /\ "gadgetid" \notin Names(stanza)
     /\ Kept(stanza.attrs[i])
     /\ \A j \in DOMAIN stanza.attrs : j > i => ~Kept(stanza.attrs[j])}

\* The attributes and the text that come through are found in the map of the
\* hypervisor, each once, under its letter, whatever their order and the
\* buckets of their keys.
Arrives(hm, of, through, text) ==
  /\ \A name \in DOMAIN AttributeKeys :
       LET given == {i \in through : of.attrs[i].name = name}
           value == hashmap_get(hm, AttributeKeys[name])
       IN  IF given = {} THEN value = Null ELSE value \in {ValueOf(of.attrs[i]) : i \in given}
  /\ (hashmap_get(hm, TextKey) # Null) = text
  /\ \A data \in Outputs :
       text /\ of.text = Base64Of(data) => hashmap_get(hm, TextKey) = CString(data)

\* The hypervisor finds in its map every attribute of a stanza with gadgetid,
\* and its text, decoded as far as it is base64 and up to its first zero byte.
\* Of a stanza without gadgetid it finds all but the last pair: that is the last
\* attribute, or the text if there is nothing else.  (Which texts are decoded is
\* said of those that are the base64 of something.)
CommandsAreUnderstood ==
  heard # Null =>
    LET of == heard.of
        unread == Unread(of)
    IN  /\ heard.hm # Null
        /\ Arrives(heard.hm, of, DOMAIN of.attrs \ unread,
                   "gadgetid" \in Names(of) \/ unread # {})

\* What the tests of the repository count on (tests/mocha/tests/test9.js:88-95
\* and test10.js:100-106, which send shells without gadgetid and wait for its
\* answer): every attribute arrives, with gadgetid or without.  The code breaks
\* it, as the property before this one says, so no run has it.
EveryAttributeArrives ==
  heard # Null => heard.hm # Null /\ Arrives(heard.hm, heard.of, DOMAIN heard.of.attrs, TRUE)

\* A stanza the server understands goes through, because the buffer is never
\* too small; and one with an attribute or an action it does not know, does not.
KnownStanzasGoThrough ==
  [][sent' # sent => (Known(Last(sent')) <=> requests' # requests)]_vars

\* The owner is told what the hypervisor meant: every answer that is published
\* is one the server understands, with the same fields, and the output of the
\* shell up to its first zero byte.  (The rest of it is lost on the server's
\* side, which the documentation does not know of: OutputIsSentBack.)
AnswersAreUnderstood ==
  told # Null =>
    LET fields == told.of.fields
    IN  /\ told.stanza # Null
        /\ told.stanza.action = fields.action
        /\ \A name \in DOMAIN fields \ {"action"} : told.stanza.attrs[name] = fields[name]
        /\ told.stanza.text = IF told.of.text = Null THEN Null ELSE Base64Of(CString(told.of.text))

\* What the documentation says (docs/source/shellsmodule.rst:20-21, 53-55): all
\* that comes out of the shell is sent back.  Output with a zero byte breaks it,
\* because the server takes it for a string of C; so no run has it.
OutputIsSentBack ==
  told # Null /\ told.of.text # Null => told.stanza # Null /\ told.stanza.text = Base64Of(told.of.text)

\* An answer is lost only for the length of what the owner asked with: never
\* when the request has no more than 36 bytes, the length of a UUID, the
\* identifier of a shell no more than 7, and that of a project no more than 64.
ShortRequestsAreAnswered ==
  \A of \in lost :
    \/ Len(of.fields.request) > 36
    \/ of.fields.shellid # Null /\ Len(of.fields.shellid) > 7
    \/ of.fields.projectid # Null /\ Len(of.fields.projectid) > 64
=============================================================================
