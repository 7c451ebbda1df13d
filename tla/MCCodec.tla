------------------------------- MODULE MCCodec -------------------------------
EXTENDS Codec

\* Numbers next to the bounds of each width, as eight bytes.
MCPositive ==
  {ZeroExtend(b) : b \in {<<127>>, <<128>>, <<255>>, <<1, 0>>, <<127, 255>>, <<128, 0>>, <<1, 0, 0>>,
                          <<128, 0, 0, 0>>, <<255, 255, 255, 255>>, <<1, 0, 0, 0, 0>>}}
MCNegative ==
  {SignExtend(b) : b \in {<<255>>, <<224>>, <<223>>, <<128>>, <<255, 127>>, <<128, 0>>,
                          <<255, 127, 255>>, <<128, 0, 0, 0>>, <<255, 127, 255, 255, 255>>}}
MCBig == {<<128, 0, 0, 0, 0, 0, 0, 0>>, <<127, 255, 255, 255, 255, 255, 255, 255>>}

MCItem(kind, value) == [kind |-> kind, value |-> value]
Filled(n) == [i \in 1 .. n |-> i % 251]

MCItems ==
  {MCItem("integer", n) : n \in MCPositive \cup MCNegative \cup MCBig}
  \cup {MCItem("uinteger", n) : n \in MCBig \cup {ZeroExtend(<<200>>)}}
  \cup {MCItem("sfix", SignExtend(b)) : b \in {<<127>>, <<224>>, <<223>>}}
  \cup {MCItem(k, Filled(n)) : k \in {"str", "bin"}, n \in {0, 31, 32, 256}}
  \cup {MCItem("strv4", Filled(n)) : n \in {32}}
  \cup {MCItem("ext", <<7>> \o Filled(n)) : n \in {0, 1, 3, 8, 16, 256}}
  \cup {MCItem(k, <<n>>) : k \in {"array", "map"}, n \in {0, 15, 16, 65536}}
  \cup {MCItem("nil", <<0>>), MCItem("boolean", <<0>>), MCItem("boolean", <<1>>),
        MCItem("decimal", Filled(4)), MCItem("decimal", Filled(8)),
        MCItem("float", Filled(4)), MCItem("double", Filled(8)),
        MCItem("s8", SignExtend(<<5>>)), MCItem("s16", SignExtend(<<255, 5>>)),
        MCItem("u64", ZeroExtend(<<9>>)), MCItem("str32", <<3>>), MCItem("ext32", <<3, 200>>)}

MCSizes == {0, 1, 3, 5, 9, 17, 40, 262, 600}
=============================================================================
