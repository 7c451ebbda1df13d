---------------------------- MODULE MCShellMessages ----------------------------
EXTENDS ShellMessages

\* Two buckets, so that keys share one.
MCBucket(key) == 1 + ((Len(key) + key[1]) % 2)

MCFilled(n) == [i \in 1 .. n |-> 97 + (i % 7)]
MCAttr(name, value) == [name |-> name, word |-> "none", value |-> value]
MCAction(word) == [name |-> "action", word |-> word, value |-> <<>>]

MCGadget == MCAttr("gadgetid", MCFilled(3))
MCNamespace == MCAttr("xmlns", MCFilled(9))
MCId(n) == MCAttr("request", MCFilled(n))
MCShell(i) == MCAttr("shellid", Digits(i))
MCProject == MCAttr("projectid", MCFilled(8))
MCUser == MCAttr("userid", MCFilled(5))
MCSizeOf == <<MCAttr("width", <<57, 48>>), MCAttr("height", <<50, 49>>)>>
MCStanza(attrs, text) == [attrs |-> <<MCNamespace>> \o attrs \o <<MCGadget>>, text |-> text]

\* Output and input of a shell: text, a zero byte, every kind of bits.
MCOutputs == {<<108, 115, 10>>, <<97, 0, 98>>, <<0>>, <<62, 250>>}

\* Without gadgetid: the open of tests/mocha/tests/test9.js, in two orders (what
\* is lost is the height, or the action); text that comes through, or does not.
MCPlain(attrs, text) == [attrs |-> attrs \o <<MCNamespace>>, text |-> text]
MCPlainStanzas ==
  {MCPlain(<<MCId(1), MCAction("open")>> \o MCSizeOf, Null),
   MCPlain(<<MCId(1)>> \o MCSizeOf \o <<MCAction("open")>>, Null),
   MCPlain(<<MCAction("keys"), MCId(1), MCShell(0), MCProject>>, <<81, 81>>),
   MCPlain(<<>>, Base64Of(<<108, 115, 10>>))}

\* Requests of 1, 36, 60 and 300 bytes; unknown names; values left out.
MCStanzas ==
  {MCStanza(<<MCId(n), MCAction("open")>> \o MCSizeOf, Null) : n \in {0, 36, 300}}
  \cup {MCStanza(MCSizeOf \o <<MCAction("open"), MCProject, MCUser, MCId(36)>>, Null),
        MCStanza(<<MCAction("open"), MCId(36)>>, Null),
        MCStanza(<<MCAction("open")>> \o MCSizeOf, Null)}
  \cup {MCStanza(<<MCAction("keys"), MCId(n), MCShell(0)>>, Null) : n \in {36, 60}}
  \cup {MCStanza(<<MCShell(0), MCId(1), MCAction("keys")>>, Base64Of(data)) : data \in MCOutputs}
  \cup {MCStanza(<<MCAction("keys"), MCId(1), MCShell(0)>>, <<81, 32, 81>>),
        MCStanza(<<MCAction("keys"), MCId(1)>>, <<81>>)}
  \cup {MCStanza(<<MCId(n), MCShell(i), MCAction("close")>>, Null) : n \in {36, 300}, i \in {0, 7}}
  \cup {MCStanza(<<MCId(n), MCAttr("projectid", MCFilled(64)), MCAction("status")>>, Null) : n \in {36, 300}}
  \cup {MCStanza(<<MCId(1), MCAction(word), MCShell(0)>>, Null) :
          word \in {"resize", "poweroff", "attach"}}
  \cup {MCStanza(<<MCId(1), MCAttr("shellid", <<32, 43, 48, 48>>), MCAction("disconnect")>>, Null)}
  \cup {MCStanza(<<MCId(1), MCShell(0), MCAction("close"), MCAttr("background", <<49>>)>>, Null)}
  \cup MCPlainStanzas

MCAfterLiteral == {<<0, 0, 0, 0, 0>>, <<116, 0, 115, 0, 97>>}
MCCodes == {<<48>>, <<50, 53, 53>>}
=============================================================================
