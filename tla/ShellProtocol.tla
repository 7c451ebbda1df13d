----------------------------- MODULE ShellProtocol -----------------------------
(***************************************************************************)
(* The messages of the two daemons about shells.  The server turns the     *)
(* shells stanza of the owner into a MessagePack map with one-letter keys; *)
(* the hypervisor reads the map into a hash map; its answers go the other  *)
(* way, each written into a buffer of fixed size.                          *)
(*                                                                         *)
(* A string is the sequence of its bytes; the names of attributes and of   *)
(* actions are left as words.                                              *)
(***************************************************************************)
EXTENDS MessagePackReader, Base64, Hashmap

CONSTANT AfterLiteral  \* what may follow the string "r" in memory: five bytes

ASSUME AfterLiteralAssumption == AfterLiteral \subseteq [1 .. 5 -> Byte]

-----------------------------------------------------------------------------
(* Names *)

\* init_shells: the names the server takes from the owner.
AttributeKeys == [width |-> <<119>>, height |-> <<104>>, request |-> <<114>>, action |-> <<97>>,
                  projectid |-> <<112>>, shellid |-> <<115>>, userid |-> <<117>>]
ActionKeys == [open |-> <<111>>, close |-> <<99>>, keys |-> <<107>>, status |-> <<115>>,
               poweroff |-> <<112>>, disconnect |-> <<100>>, resize |-> <<114>>]

\* init_communication: the names the server gives to the owner.
AnswerKeys == [width |-> <<119>>, height |-> <<104>>, request |-> <<114>>, action |-> <<97>>,
               projectid |-> <<112>>, shellid |-> <<115>>, userid |-> <<117>>, code |-> <<99>>,
               running |-> <<114, 117>>, response |-> <<114, 101>>]
AnswerActionKeys == [open |-> <<111>>, close |-> <<99>>, keys |-> <<107>>, status |-> <<115>>,
                     poweroff |-> <<112>>, disconnect |-> <<100>>]

Named(table, key) == {name \in DOMAIN table : table[name] = key}

TextKey == <<116>>

\* The keys of a command, for which the hash finds a bucket; a map of them.
CommandKeys == {AttributeKeys[name] : name \in DOMAIN AttributeKeys} \cup {TextKey}
ASSUME BucketAssumption == NumBuckets \in Nat \ {0} /\ \A key \in CommandKeys : Bucket(key) \in 1 .. NumBuckets

String == Seq(1 .. 255)   \* a string of C, without its end
HashMaps == [1 .. NumBuckets -> Seq([key : String, val : String])]

\* A string of C ends with its first zero byte.
CString(bytes) ==
  LET zeros == {i \in DOMAIN bytes : bytes[i] = 0}
  IN  IF zeros = {} THEN bytes
      ELSE SubSeq(bytes, 1, (CHOOSE i \in zeros : \A j \in zeros : i <= j) - 1)

-----------------------------------------------------------------------------
(* From the owner to the hypervisor *)

\* A stanza has attributes in any order, [name, word, value], of which the
\* value of the action is a word, and it may have a text.
ValueOf(a) == IF a.name = "action" THEN ActionKeys[a.word] ELSE a.value
Ignored == {"gadgetid", "xmlns"}
Kept(a) == a.name \notin Ignored
Known(stanza) ==
  \A a \in ToSet(stanza.attrs) :
    Kept(a) => /\ a.name \in DOMAIN AttributeKeys
               /\ a.name = "action" => a.word \in DOMAIN ActionKeys

\* The length of the text of a stanza: <shells name="value" ...>text</shells>
WordLength == [open |-> 4, close |-> 5, keys |-> 4, status |-> 6, poweroff |-> 8,
               disconnect |-> 10, resize |-> 6, none |-> 0, attach |-> 6]
NameLength == [width |-> 5, height |-> 6, request |-> 7, action |-> 6, projectid |-> 9, shellid |-> 7,
               userid |-> 6, gadgetid |-> 8, xmlns |-> 5, background |-> 10]
AttributeLength(a) == NameLength[a.name] + WordLength[a.word] + Len(a.value) + 4
StanzaLength(stanza) ==
  LET length[i \in 0 .. Len(stanza.attrs)] ==
        IF i = 0 THEN IF stanza.text = Null THEN 9 ELSE 17 + Len(stanza.text)
        ELSE length[i - 1] + AttributeLength(stanza.attrs[i])
  IN  length[Len(stanza.attrs)]

Decoded(stanza, room) ==
  IF stanza.text = Null THEN <<>> ELSE CString(Decode(stanza.text, room).out)

\* A map of so many keys and values, and these pairs of them.
MapOf(size, pairs) ==
  WriteMap(size) \o FlattenSeq([i \in DOMAIN pairs |-> WriteStr(pairs[i][1]) \o WriteStr(pairs[i][2])])

\* The text, decoded, and then the attributes.
RequestPairs(stanza) ==
  LET attrs == stanza.attrs
  IN  << <<TextKey, Decoded(stanza, (StanzaLength(stanza) * 3) \div 4 + 1)>> >>
      \o FlattenSeq([i \in DOMAIN attrs |->
           IF Kept(attrs[i]) THEN << <<AttributeKeys[attrs[i].name], ValueOf(attrs[i])>> >> ELSE <<>>])

\* Mutant: the buffer is as long as its decoded text may be.
RoomForText(stanza) == (StanzaLength(stanza) * 3) \div 4 + 1

RoomForRequest(stanza) == StanzaLength(stanza)

\* shells(): what the server publishes, or nothing.
shells(stanza) ==
  LET w == Write(<<>>, RoomForRequest(stanza), MapOf(2 + 2 * Len(stanza.attrs) - 4, RequestPairs(stanza)))
  IN  IF Known(stanza) /\ w.ok THEN w.out ELSE Null

\* A key and then a value: both of them are strings, or the reading fails.
Pair(key, val) == IF key.ok /\ val.ok THEN Result(TRUE, val.at, [key |-> key.v, val |-> val.v])
                  ELSE Failure(val.at)
ReadValue(buf, key) == Pair(key, ReadStr(buf, key.at))
ReadStrings(buf, at) == ReadValue(buf, ReadStr(buf, at))

\* The pairs of a map, one after the other, and nothing more after a failure:
\* Put makes the next value of made out of a key, a value and the one before.
ReadMore(buf, read, Put(_, _)) == IF read.ok THEN Put(read, ReadStrings(buf, read.at)) ELSE read
ReadPairs(buf, map, made, Put(_, _)) ==
  LET read[i \in 0 .. map.v \div 2] ==
        IF i = 0 THEN Result(map.ok, map.at, made) ELSE ReadMore(buf, read[i - 1], Put)
  IN  read[map.v \div 2]

\* One key and one value, into the hash map.
ReadPair(read, pair) ==
  Then(pair, LAMBDA p : hashmap_put(read.v, CString(p.key), CString(p.val)))

OrNull(r) == IF r.ok THEN r.v ELSE Null

\* onMessage of the hypervisor: the map it hands to shells(), or nothing.
onMessage(buf) == OrNull(ReadPairs(buf, ReadMap(buf, 0), create_hashmap, ReadPair))

\* shells() of the hypervisor: the handler, by the first letter in any case.
Lower(byte) == IF byte \in 65 .. 90 THEN byte + 32 ELSE byte
Handler(hm) ==
  LET action == hashmap_get(hm, <<97>>)
  IN  IF action = Null \/ action = <<>> THEN {} ELSE Named(ActionKeys, <<Lower(action[1])>>)

-----------------------------------------------------------------------------
(* From the hypervisor to the owner *)

\* What is published of an answer: nothing when it does not fit.
Written(w) == IF w.ok THEN w.out ELSE Null
Answer(room, pairs) == Written(Write(<<>>, room, MapOf(2 * Len(pairs), pairs)))

Done  == <<100, 111, 110, 101>>
Error == <<101, 114, 114, 111, 114>>
Digits(id) ==   \* of a shell: fewer than MAX_SHELLS
  IF id < 10 THEN <<48 + id>>
  ELSE IF id < 100 THEN <<48 + id \div 10, 48 + (id % 10)>>
  ELSE <<48 + id \div 100, 48 + ((id \div 10) % 10), 48 + (id % 10)>>
Text(flag) == IF flag THEN <<116, 114, 117, 101>> ELSE <<102, 97, 108, 115, 101>>

\* The action and the request of an answer.
Heading(key, request) == << <<<<97>>, key>>, <<<<114>>, request>> >>

\* Mutant: the identifier of the shell is left out.
OpenAnswerNoShell(request, success, id, running) ==
  Answer(256, Heading(<<111>>, request) \o
              IF success THEN << <<<<114, 101>>, Done>>, <<<<114, 117>>, Text(running)>> >>
              ELSE << <<<<114, 101>>, Error>> >>)

OpenAnswer(request, success, id, running) ==
  Answer(256, Heading(<<111>>, request) \o
              IF success THEN << <<<<114, 101>>, Done>>, <<<<115>>, Digits(id)>>, <<<<114, 117>>, Text(running)>> >>
              ELSE << <<<<114, 101>>, Error>> >>)

CloseAnswer(request, shellid, code) ==
  Answer(128, Heading(<<99>>, request) \o << <<<<115>>, shellid>>, <<<<99>>, code>> >>)

StatusAnswer(request, projectid, running) ==
  Answer(128, Heading(<<115>>, request) \o << <<<<112>>, projectid>>, <<<<114, 117>>, Text(running)>> >>)

\* The key of the request is written with seven bytes, of which the string
\* has two: the end of the string is read from its second byte.
RequestKey(after) == <<114, 0>> \o after

\* Mutant: the answer gets no more room for the keys themselves.
RoomOnlyForText(text) == EncodedSize(Len(text))

RoomForKeys(text) == IF text = <<>> THEN 64 ELSE 64 + EncodedSize(Len(text))

\* The answer to no keys, and the output of a shell.
KeysAnswer(request, shellid, text, after) ==
  Answer(RoomForKeys(text), << <<<<97>>, <<107>>>>, <<RequestKey(after), request>>, <<<<115>>, shellid>>,
                               <<TextKey, text>> >>)

-----------------------------------------------------------------------------
(* The server's reading of an answer *)

\* Mutant: the text is taken with all the bytes that came.
WholeText(val) == val

CText(val) == CString(val)

EncodeAll(text) == Encode(text, EncodedSize(Len(text)))

\* One pair becomes the text of the stanza, or an attribute of it.
TakePair(read, pair) ==
  LET names == Named(AnswerKeys, CString(pair.v.key))
      actions == Named(AnswerActionKeys, CString(pair.v.val))
      value == CString(pair.v.val)
  IN  CASE ~pair.ok -> pair
        [] pair.ok /\ CString(pair.v.key) = TextKey ->
             Result(TRUE, pair.at, [read.v EXCEPT !.text = EncodeAll(CText(pair.v.val))])
        [] pair.ok /\ names = {"action"} /\ actions # {} ->
             Result(TRUE, pair.at, [read.v EXCEPT !.action = CHOOSE a \in actions : TRUE])
        [] pair.ok /\ names \notin {{}, {"action"}} ->
             Result(TRUE, pair.at, [read.v EXCEPT !.attrs[CHOOSE n \in names : TRUE] = value])
        [] OTHER -> Failure(pair.at)

AnswerStanzas == [action : DOMAIN AnswerActionKeys \cup {"none"}, text : Seq(Byte) \cup {Null},
                  attrs : [DOMAIN AnswerKeys -> String \cup {Null}]]

\* What stands for nothing is none of the values it stands beside.
ASSUME NullAssumption == Null \notin Seq(Byte) \cup HashMaps \cup AnswerStanzas

\* onHypervisorMessage: the stanza the owner gets, or nothing.
onHypervisorMessage(buf) ==
  OrNull(ReadPairs(buf, ReadMap(buf, 0),
                   [action |-> "none", text |-> Null, attrs |-> [n \in DOMAIN AnswerKeys |-> Null]],
                   TakePair))
=============================================================================
