------------------------------ MODULE CodecProofs ------------------------------
(***************************************************************************)
(* What is written is read, for every item, every buffer and any number of *)
(* items of a message: an item is a header, whose object MessagePackProofs *)
(* follows, and the bytes after it.                                        *)
(***************************************************************************)
EXTENDS Codec, MessagePackProofs

-----------------------------------------------------------------------------
(* Items: a header and what comes after it *)

Refuses(item) == item.kind = "sfix" /\ item.value[8] \in 128 .. 223

HeaderType(item) ==
  LET v == item.value
  IN  CASE item.kind = "integer"  -> IntegerType(v)
        [] item.kind = "uinteger" -> UIntegerType(v)
        [] item.kind = "sfix"     -> IF v[8] < 128 THEN "pfix" ELSE "nfix"
        [] item.kind = "str"      -> StrType(Len(v))
        [] item.kind = "strv4"    -> StrTypeV4(Len(v))
        [] item.kind = "bin"      -> BinType(Len(v))
        [] item.kind = "array"    -> ArrayType(v[1])
        [] item.kind = "map"      -> MapType(v[1])
        [] item.kind = "ext"      -> ExtTypeOf(Len(Tail(v)))
        [] item.kind = "decimal"  -> IF Len(v) = 4 THEN "float" ELSE "double"
        [] OTHER                  -> item.kind

HeaderValue(item) ==
  LET v == item.value
  IN  CASE item.kind \in {"integer", "uinteger", "sfix", "decimal"} -> v
        [] item.kind \in {"str", "strv4", "bin"} -> Len(v)
        [] item.kind \in {"array", "map"} -> v[1]
        [] item.kind = "ext" -> [size |-> Len(Tail(v)), type |-> v[1]]
        [] OTHER -> ToObject(item).as

DataOf(item) == IF item.kind \in {"str", "strv4", "bin"} THEN item.value
                ELSE IF item.kind = "ext" THEN Tail(item.value) ELSE <<>>

HeaderOf(item) == Header(HeaderType(item), HeaderValue(item))

Kinds == {"integer", "uinteger", "sfix", "str", "strv4", "bin", "array", "map", "ext", "decimal"}

\* What IsItem says of the items of each kind.
LEMMA IsItemOf ==
  ASSUME NEW item, IsItem(item)
  PROVE  LET k == item.kind
             v == item.value
         IN  /\ k \in {"integer", "uinteger"} => v \in Bytes8
             /\ k = "sfix" => v \in Bytes8 /\ IsSigned(v, 1)
             /\ k \in {"str", "strv4", "bin"} => v \in Seq(Byte) /\ LengthFits(Len(v), 4)
             /\ k \in {"array", "map"} => v = <<v[1]>> /\ LengthFits(v[1], 4)
             /\ k = "ext" => v \in Seq(Byte) /\ v # <<>> /\ LengthFits(Len(v) - 1, 4)
             /\ k = "decimal" => v \in [1 .. 4 -> Byte] \/ v \in [1 .. 8 -> Byte]
             /\ k \notin Kinds => IsValue(k, ToObject(item).as) /\ v = FromObject(ToObject(item))
<1> DEFINE k == item.kind
           v == item.value
           N == v \in Bytes8
           F == v \in Bytes8 /\ IsSigned(v, 1)
           S == v \in Seq(Byte) /\ LengthFits(Len(v), 4)
           A == v = <<v[1]>> /\ LengthFits(v[1], 4)
           E == v \in Seq(Byte) /\ v # <<>> /\ LengthFits(Len(v) - 1, 4)
           D == v \in [1 .. 4 -> Byte] \/ v \in [1 .. 8 -> Byte]
           O == IsValue(k, ToObject(item).as) /\ v = FromObject(ToObject(item))
<1>1. \/ k \in {"integer", "uinteger"} /\ N
      \/ k = "sfix" /\ F
      \/ k \in {"str", "strv4", "bin"} /\ S
      \/ k \in {"array", "map"} /\ A
      \/ k = "ext" /\ E
      \/ k = "decimal" /\ D
      \/ k \notin Kinds /\ O
  BY Zenon DEF IsItem, Bytes8, Kinds
<1> HIDE DEF N, F, S, A, E, D, O, k
<1>2. /\ (k \in {"integer", "uinteger"} => N) /\ (k = "sfix" => F)
      /\ (k \in {"str", "strv4", "bin"} => S) /\ (k \in {"array", "map"} => A)
      /\ (k = "ext" => E) /\ (k = "decimal" => D) /\ (k \notin Kinds => O)
  BY <1>1 DEF Kinds
<1> QED
  BY <1>2, Zenon DEF N, F, S, A, E, D, O, k

LEMMA ItemValue ==
  ASSUME NEW item, IsItem(item), ~Refuses(item)
  PROVE  IsValue(HeaderType(item), HeaderValue(item)) /\ DataOf(item) \in Seq(Byte)
<1> DEFINE k == item.kind
           v == item.value
<1>1. CASE k \in {"integer", "uinteger"}
  <2>1. v \in Bytes8
    BY <1>1, IsItemOf
  <2>2. IsValue(IntegerType(v), v)
    <3>1. CASE v[1] < 128
      BY <2>1, <3>1, UnsignedFirst DEF IntegerType
    <3>2. CASE v[1] >= 128
      BY <2>1, <3>2, SignedFirst
    <3>3. v[1] \in Byte
      BY <2>1 DEF Bytes8
    <3> QED
      BY <3>1, <3>2, <3>3 DEF Byte
  <2>3. IsValue(UIntegerType(v), v)
    BY <2>1, UnsignedFirst
  <2> QED
    BY <1>1, <2>2, <2>3 DEF HeaderType, HeaderValue, DataOf
<1>2. CASE k = "sfix"
  <2>1. v \in Bytes8 /\ IsSigned(v, 1)
    BY <1>2, IsItemOf
  <2>2. v[8] \in 0 .. 127 \/ v[8] \in 224 .. 255
    BY <1>2, <2>1 DEF Refuses, Bytes8, Byte
  <2>3. (v[8] \in 0 .. 127 => IsValue("pfix", v)) /\ (v[8] \in 224 .. 255 => IsValue("nfix", v))
    BY <2>1, Zenon DEF IsValue, Bytes8
  <2> QED
    BY <1>2, <2>2, <2>3 DEF HeaderType, HeaderValue, DataOf
<1>3. CASE k \in {"str", "strv4", "bin"}
  <2>1. v \in Seq(Byte) /\ LengthFits(Len(v), 4)
    BY <1>3, IsItemOf
  <2> QED
    BY <1>3, <2>1, LengthTypes DEF HeaderType, HeaderValue, DataOf
<1>4. CASE k \in {"array", "map"}
  <2>1. LengthFits(v[1], 4)
    BY <1>4, IsItemOf
  <2> QED
    BY <1>4, <2>1, LengthTypes DEF HeaderType, HeaderValue, DataOf
<1>5. CASE k = "ext"
  <2>1. v \in Seq(Byte) /\ v # <<>> /\ LengthFits(Len(v) - 1, 4)
    BY <1>5, IsItemOf
  <2>2. Tail(v) \in Seq(Byte) /\ Len(Tail(v)) = Len(v) - 1 /\ v[1] \in Byte
    BY <2>1
  <2> QED
    BY <1>5, <2>1, <2>2, LengthTypes DEF HeaderType, HeaderValue, DataOf
<1>6. CASE k = "decimal"
  <2>1. v \in [1 .. 4 -> Byte] \/ v \in [1 .. 8 -> Byte]
    BY <1>6, IsItemOf
  <2>2. Width["float"] = 4 /\ Width["double"] = 8
    BY DEF Width
  <2>3. CASE v \in [1 .. 4 -> Byte]
    <3>1. Len(v) = 4
      BY <2>3, FourBytes
    <3>2. IsValue("float", v)
      BY <2>2, <2>3 DEF IsValue
    <3> QED
      BY <1>6, <3>1, <3>2 DEF HeaderType, HeaderValue, DataOf
  <2>4. CASE v \in [1 .. 8 -> Byte]
    <3>1. Len(v) # 4
      <4>1. v \in Bytes8
        BY <2>4 DEF Bytes8
      <4>2. Len(v) = 8
        BY <4>1, EightBytes
      <4> QED
        BY <4>2
    <3>2. IsValue("double", v)
      BY <2>2, <2>4 DEF IsValue
    <3> QED
      BY <1>6, <3>1, <3>2 DEF HeaderType, HeaderValue, DataOf
  <2> QED
    BY <2>1, <2>3, <2>4
<1>7. CASE k \notin Kinds
  <2>1. IsValue(k, ToObject(item).as)
    BY <1>7, IsItemOf
  <2> QED
    BY <1>7, <2>1 DEF HeaderType, HeaderValue, DataOf, Kinds
<1> QED
  BY <1>1, <1>2, <1>3, <1>4, <1>5, <1>6, <1>7 DEF Kinds

LEMMA ToObjectIs ==
  ASSUME NEW item
  PROVE  ToObject(item) = Object(item.kind, ToObject(item).as)
<1>1. \A x : Object(item.kind, x) = Object(item.kind, Object(item.kind, x).as)
  BY DEF Object
<1> QED
  BY <1>1, Zenon DEF ToObject

LEMMA ItemPieces ==
  ASSUME NEW item, IsItem(item), ~Refuses(item)
  PROVE  Pieces(item) = LET p == ObjectPieces(Object(HeaderType(item), HeaderValue(item)))
                        IN  IF DataOf(item) = <<>> /\ item.kind # "ext" THEN p ELSE Append(p, DataOf(item))
<1> DEFINE k == item.kind
           v == item.value
           o == Object(HeaderType(item), HeaderValue(item))
           p == ObjectPieces(o)
<1>1. o.type = HeaderType(item) /\ o.as = HeaderValue(item)
  BY DEF Object
<1>2. p \in Seq(Seq(Byte))
  BY ItemValue, ObjectWritten DEF Whole
<1>3. /\ o.type \in Strs => p = StrPieces(o)
      /\ o.type \in Bins => p = BinPieces(o)
      /\ o.type \in Arrays => p = ArrayPieces(o)
      /\ o.type \in Maps => p = MapPieces(o)
      /\ o.type \in {"float", "double"} => p = FloatPieces(o)
  <2> HIDE DEF o
  <2>1. Fixexts = {"fixext1", "fixext2", "fixext4", "fixext8", "fixext16"}
    BY DEF Fixexts, Fixext
  <2> QED
    BY <2>1 DEF ObjectPieces, Unsigned, Signed, Exts, Strs, Bins, Arrays, Maps
<1>4. CASE k = "integer"
  <2>1. Pieces(item) = WriteInteger(v) /\ HeaderType(item) = IntegerType(v) /\ HeaderValue(item) = v /\ DataOf(item) = <<>>
    BY <1>4 DEF Pieces, HeaderType, HeaderValue, DataOf
  <2> QED
    BY <1>4, <2>1 DEF WriteInteger
<1>5. CASE k = "uinteger"
  <2>1. Pieces(item) = WriteUInteger(v) /\ HeaderType(item) = UIntegerType(v) /\ HeaderValue(item) = v /\ DataOf(item) = <<>>
    BY <1>5 DEF Pieces, HeaderType, HeaderValue, DataOf
  <2> QED
    BY <1>5, <2>1 DEF WriteUInteger
<1>6. CASE k = "sfix"
  <2>1. /\ Pieces(item) = WriteSfix(v) /\ HeaderType(item) = (IF v[8] < 128 THEN "pfix" ELSE "nfix")
        /\ HeaderValue(item) = v /\ DataOf(item) = <<>>
    BY <1>6 DEF Pieces, HeaderType, HeaderValue, DataOf
  <2> QED
    BY <1>6, <2>1 DEF WriteSfix
<1>7. ASSUME NEW q, NEW d \in Seq(Byte), q = p, DataOf(item) = d, k # "ext", Pieces(item) = q \o Data(d)
      PROVE  Pieces(item) = IF DataOf(item) = <<>> /\ k # "ext" THEN p ELSE Append(p, DataOf(item))
  <2> HIDE DEF p
  <2>1. CASE d = <<>>
    <3>1. Data(d) = <<>> /\ q \o <<>> = q
      BY <1>2, <1>7, <2>1 DEF Data
    <3> QED
      BY <1>7, <2>1, <3>1
  <2>2. CASE d # <<>>
    <3>1. Data(d) = <<d>>
      BY <2>2 DEF Data
    <3>2. q \o <<d>> = Append(q, d)
      BY <1>2, <1>7, AppendIsConcat
    <3> QED
      BY <1>7, <2>2, <3>1, <3>2
  <2> QED
    BY <2>1, <2>2
<1>8. CASE k \in {"str", "strv4", "bin"}
  <2>1. v \in Seq(Byte) /\ LengthFits(Len(v), 4)
    BY <1>8, IsItemOf
  <2>2. DataOf(item) = v /\ HeaderValue(item) = Len(v)
    BY <1>8 DEF DataOf, HeaderValue
  <2>3. CASE k = "str"
    <3>1. Pieces(item) = WriteStr(v) /\ HeaderType(item) = StrType(Len(v))
      BY <2>3 DEF Pieces, HeaderType
    <3>2. StrPieces(o) = p
      BY <1>1, <1>3, <2>1, <3>1, LengthTypes
    <3> QED
      BY <1>7, <2>1, <2>2, <2>3, <3>1, <3>2 DEF WriteStr
  <2>4. CASE k = "strv4"
    <3>1. Pieces(item) = WriteStrV4(v) /\ HeaderType(item) = StrTypeV4(Len(v))
      BY <2>4 DEF Pieces, HeaderType
    <3>2. StrPieces(o) = p
      BY <1>1, <1>3, <2>1, <3>1, LengthTypes
    <3> QED
      BY <1>7, <2>1, <2>2, <2>4, <3>1, <3>2 DEF WriteStrV4
  <2>5. CASE k = "bin"
    <3>1. Pieces(item) = WriteBin(v) /\ HeaderType(item) = BinType(Len(v))
      BY <2>5 DEF Pieces, HeaderType
    <3>2. BinPieces(o) = p
      BY <1>1, <1>3, <2>1, <3>1, LengthTypes
    <3> QED
      BY <1>7, <2>1, <2>2, <2>5, <3>1, <3>2 DEF WriteBin
  <2> QED
    BY <1>8, <2>3, <2>4, <2>5
<1>9. CASE k \in {"array", "map"}
  <2>1. LengthFits(v[1], 4)
    BY <1>9, IsItemOf
  <2>2. DataOf(item) = <<>> /\ HeaderValue(item) = v[1]
    BY <1>9 DEF DataOf, HeaderValue
  <2>3. CASE k = "array"
    <3>1. Pieces(item) = WriteArray(v[1]) /\ HeaderType(item) = ArrayType(v[1])
      BY <2>3 DEF Pieces, HeaderType
    <3>2. ArrayPieces(o) = p
      BY <1>1, <1>3, <2>1, <3>1, LengthTypes
    <3> QED
      BY <2>2, <2>3, <3>1, <3>2 DEF WriteArray
  <2>4. CASE k = "map"
    <3>1. Pieces(item) = WriteMap(v[1]) /\ HeaderType(item) = MapType(v[1])
      BY <2>4 DEF Pieces, HeaderType
    <3>2. MapPieces(o) = p
      BY <1>1, <1>3, <2>1, <3>1, LengthTypes
    <3> QED
      BY <2>2, <2>4, <3>1, <3>2 DEF WriteMap
  <2> QED
    BY <1>9, <2>3, <2>4
<1>10. CASE k = "ext"
  <2>1. /\ Pieces(item) = WriteExt(v[1], Tail(v)) /\ HeaderType(item) = ExtTypeOf(Len(Tail(v)))
        /\ HeaderValue(item) = [size |-> Len(Tail(v)), type |-> v[1]] /\ DataOf(item) = Tail(v)
    BY <1>10 DEF Pieces, HeaderType, HeaderValue, DataOf
  <2> QED
    BY <1>10, <2>1, Zenon DEF WriteExt
<1>11. CASE k = "decimal"
  <2>1. /\ Pieces(item) = WriteDecimal(v) /\ HeaderType(item) = (IF Len(v) = 4 THEN "float" ELSE "double")
        /\ HeaderValue(item) = v /\ DataOf(item) = <<>>
    BY <1>11 DEF Pieces, HeaderType, HeaderValue, DataOf
  <2>2. FloatPieces(o) = p
    BY <1>1, <1>3, <2>1
  <2> QED
    BY <1>11, <2>1, <2>2 DEF WriteDecimal
<1>12. CASE k \notin Kinds
  <2>1. HeaderType(item) = k /\ HeaderValue(item) = ToObject(item).as /\ DataOf(item) = <<>> /\ k # "ext"
    BY <1>12 DEF HeaderType, HeaderValue, DataOf, Kinds
  <2>2. ToObject(item) = Object(k, ToObject(item).as)
    BY ToObjectIs
  <2>3. IsValue(k, ToObject(item).as)
    BY <1>12, IsItemOf
  <2>4. CASE k = "nil"
    <3>1. Pieces(item) = WriteNil
      BY <2>4 DEF Pieces
    <3>2. ToObject(item).as = 0
      BY <2>3, <2>4, ObjectKinds
    <3> QED
      BY <2>1, <2>4, <3>1, <3>2 DEF WriteNil
  <2>5. CASE k = "boolean"
    <3>1. Pieces(item) = WriteBool(v[1] = 1)
      BY <2>5 DEF Pieces
    <3>2. ToObject(item).as = (v[1] = 1)
      <4>1. Fixexts = {"fixext1", "fixext2", "fixext4", "fixext8", "fixext16"}
        BY DEF Fixexts, Fixext
      <4>2. /\ k \notin {"pfix", "nfix", "float", "double"} \cup Signed \cup Unsigned
            /\ k \notin Strs \cup Bins \cup Arrays \cup Maps \cup {"nil"} /\ k \notin Exts \cup Fixexts
        BY <2>5, <4>1 DEF Signed, Unsigned, Strs, Bins, Arrays, Maps, Exts
      <4>3. \A x : Object(k, x).as = x
        BY DEF Object
      <4>4. ToObject(item) = Object(k, v[1] = 1)
        BY <2>5, <4>2, Zenon DEF ToObject
      <4> QED
        BY <4>3, <4>4, Zenon
    <3> QED
      BY <2>1, <2>5, <3>1, <3>2, Zenon DEF WriteBool
  <2>6. CASE k \in {"str16", "str32"}
    <3>1. Pieces(item) = ObjectPiecesV4(ToObject(item))
      BY <2>6 DEF Pieces
    <3>2. ToObject(item).type # "str8"
      BY <2>6 DEF ToObject, Object
    <3> QED
      BY <2>1, <2>2, <3>1, <3>2, Zenon DEF ObjectPiecesV4
  <2>7. CASE k \notin {"nil", "boolean", "str16", "str32"}
    <3>1. Pieces(item) = ObjectPieces(ToObject(item))
      BY <1>12, <2>7, Zenon DEF Pieces, Kinds
    <3> QED
      BY <2>1, <2>2, <3>1, Zenon
  <2> QED
    BY <2>4, <2>5, <2>6, <2>7
<1> QED
  BY <1>4, <1>5, <1>6, <1>8, <1>9, <1>10, <1>11, <1>12 DEF Kinds

LEMMA ItemRefused ==
  ASSUME NEW item, IsItem(item), Refuses(item)
  PROVE  Pieces(item) = Refused /\ Bytes(item) = <<>>
<1> DEFINE v == item.value
           o == Object("nfix", v)
<1>1. item.kind = "sfix" /\ ~(v[8] < 128) /\ ~(v[8] >= 224)
  BY DEF Refuses
<1>2. Pieces(item) = ObjectPieces(o)
  BY <1>1 DEF Pieces, WriteSfix
<1>3. ObjectPieces(o) = FixnumPieces(o) /\ o.type = "nfix" /\ o.as = v
  <2>1. o.type = "nfix" /\ o.as = v
    BY DEF Object
  <2>2. Fixexts = {"fixext1", "fixext2", "fixext4", "fixext8", "fixext16"}
    BY DEF Fixexts, Fixext
  <2> HIDE DEF o
  <2> QED
    BY <2>1, <2>2 DEF ObjectPieces, Unsigned, Signed, Exts, Strs, Bins, Arrays, Maps
<1>4. Pieces(item) = Refused
  <2> HIDE DEF o
  <2> QED
    BY <1>1, <1>2, <1>3 DEF FixnumPieces
<1>5. FlattenSeq(<< <<>> >>) = <<>>
  <2>1. <<>> \in Seq(Byte)
    OBVIOUS
  <2> QED
    BY <2>1, FlattenPieces
<1> QED
  BY <1>4, <1>5 DEF Bytes, Refused

LEMMA ItemWritten ==
  ASSUME NEW item, IsItem(item), ~Refuses(item)
  PROVE  /\ Pieces(item) \in Seq(Seq(Byte)) /\ Pieces(item) # <<>>
         /\ \A i \in 1 .. Len(Pieces(item)) : Pieces(item)[i] = <<>> => NoData(item) /\ i = Len(Pieces(item))
         /\ HeaderOf(item) \in Seq(Byte) /\ HeaderOf(item) # <<>> /\ DataOf(item) \in Seq(Byte)
         /\ Bytes(item) = HeaderOf(item) \o DataOf(item)
         /\ Bytes(item) \in Seq(Byte) /\ Bytes(item) # <<>>
<1> DEFINE p == ObjectPieces(Object(HeaderType(item), HeaderValue(item)))
           h == HeaderOf(item)
           d == DataOf(item)
<1>1. d \in Seq(Byte)
  BY ItemValue
<1>2. Whole(p) /\ FlattenSeq(p) = h /\ h \in Seq(Byte) /\ h # <<>>
  BY ItemValue, ObjectWritten DEF HeaderOf
<1>3. Pieces(item) = IF d = <<>> /\ item.kind # "ext" THEN p ELSE Append(p, d)
  BY ItemPieces
<1>4. d = <<>> /\ item.kind = "ext" => NoData(item)
  <2> SUFFICES ASSUME d = <<>>, item.kind = "ext" PROVE Len(item.value) = 1
    BY DEF NoData
  <2>1. item.value \in Seq(Byte) /\ item.value # <<>>
    BY IsItemOf
  <2>2. Tail(item.value) = <<>>
    BY DEF DataOf
  <2> DEFINE s == item.value
  <2> HIDE DEF s
  <2>3. s \in Seq(Byte) /\ s # <<>>
    BY <2>1 DEF s
  <2>4. Len(Tail(s)) = Len(s) - 1 /\ Len(s) \in Nat
    BY <2>3
  <2>5. Tail(s) = <<>> /\ Len(<<>>) = 0
    BY <2>2 DEF s
  <2>6. Len(s) = 1
    <3>1. Len(Tail(s)) = 0
      BY <2>5, Zenon
    <3> QED
      BY <2>4, <3>1
  <2> QED
    BY <2>6 DEF s
<1> HIDE DEF p, h, d
<1>5. h \o d \in Seq(Byte) /\ h \o d # <<>>
  BY <1>1, <1>2
<1>6. CASE d = <<>> /\ item.kind # "ext"
  <2>1. h \o d = h
    BY <1>2, <1>6
  <2>2. Bytes(item) = h
    BY <1>2, <1>3, <1>6 DEF Bytes
  <2> QED
    BY <1>1, <1>2, <1>3, <1>6, <2>1, <2>2 DEF Whole, h, d
<1>7. CASE ~(d = <<>> /\ item.kind # "ext")
  <2> DEFINE q == Append(p, d)
  <2>1. Pieces(item) = q
    BY <1>3, <1>7
  <2>2. p \in Seq(Seq(Byte)) /\ \A i \in 1 .. Len(p) : p[i] # <<>>
    BY <1>2 DEF Whole
  <2>3. /\ q \in Seq(Seq(Byte)) /\ q # <<>> /\ Len(q) = Len(p) + 1
        /\ q[Len(p) + 1] = d /\ \A i \in 1 .. Len(p) : q[i] = p[i]
    BY <1>1, <2>2, AppendProperties
  <2>4. FlattenSeq(q) = h \o d
    BY <1>1, <1>2, <2>2, FlattenAppend
  <2> HIDE DEF q
  <2>5. ASSUME NEW i \in 1 .. Len(q), q[i] = <<>> PROVE NoData(item) /\ i = Len(q)
    <3>1. i \in 1 .. Len(p) \/ i = Len(p) + 1
      BY <2>2, <2>3
    <3>2. i = Len(p) + 1
      BY <2>2, <2>3, <2>5, <3>1
    <3> QED
      BY <1>4, <1>7, <2>3, <2>5, <3>2
  <2>6. Bytes(item) = h \o d
    BY <2>1, <2>4 DEF Bytes
  <2> QED
    BY <1>1, <1>2, <1>5, <2>1, <2>3, <2>5, <2>6 DEF h, d
<1> QED
  BY <1>6, <1>7

Alone(r) == Then(r, LAMBDA n : <<n>>)

LEMMA ThenAlone ==
  ASSUME NEW r, NEW o, NEW at0, NEW x, r = IF o.ok THEN Result(TRUE, at0, x) ELSE Failure(at0)
  PROVE  Alone(r) = IF o.ok THEN Result(TRUE, at0, <<x>>) ELSE Failure(at0)
<1>1. Alone(r) = IF r.ok THEN Result(TRUE, r.at, <<r.v>>) ELSE Failure(r.at)
  BY DEF Alone, Then
<1>2. /\ Result(TRUE, at0, x).ok = TRUE /\ Result(TRUE, at0, x).at = at0 /\ Result(TRUE, at0, x).v = x
      /\ Failure(at0).ok = FALSE /\ Failure(at0).at = at0
  BY DEF Result, Failure
<1> QED
  BY <1>1, <1>2, Zenon

\* The reader of an item that is one object.
LEMMA HeaderRead ==
  ASSUME NEW item, IsItem(item), ~Refuses(item), item.kind \notin {"str", "strv4", "bin", "ext"}, NEW buf, NEW at0,
         ReadObject(buf, at0).v = Object(HeaderType(item), HeaderValue(item))
  PROVE  LET r == ReadObject(buf, at0)
         IN  ReadItem(buf, at0, item) = IF r.ok THEN Result(TRUE, r.at, item.value) ELSE Failure(r.at)
<1> DEFINE k == item.kind
           v == item.value
           r == ReadObject(buf, at0)
           t == HeaderType(item)
<1>1. r.v.type = t /\ r.v.as = HeaderValue(item)
  BY DEF Object
<1>2. CASE k = "integer"
  <2>1. v \in Bytes8 /\ v[1] \in Byte
    BY <1>2, IsItemOf DEF Bytes8
  <2>2. t = IntegerType(v) /\ r.v.as = v
    BY <1>1, <1>2 DEF HeaderType, HeaderValue
  <2>3. \/ t \in {"pfix", "u8", "u16", "u32", "u64"} /\ v[1] < 128
        \/ t \in {"nfix", "s8", "s16", "s32", "s64"}
    <3>1. CASE v[1] < 128
      BY <2>1, <2>2, <3>1, UnsignedFirst DEF IntegerType, FirstUnsigned
    <3>2. CASE v[1] >= 128
      BY <2>1, <2>2, <3>2, SignedFirst DEF FirstSigned
    <3> QED
      BY <2>1, <3>1, <3>2 DEF Byte
  <2>4. /\ SignedReader["long"].types = {"pfix", "nfix", "s8", "u8", "s16", "u16", "s32", "u32", "s64"}
        /\ SignedReader["long"].guarded = "u64" /\ SignedReader["long"].width = 8
    BY DEF SignedReader
  <2>5. HasNoSignBit(v, 8) <=> v[1] < 128
    BY DEF HasNoSignBit
  <2>6. ReadItem(buf, at0, item) = ReadSignedInteger(buf, at0, "long")
    BY <1>2 DEF ReadItem
  <2>7. \/ r.v.type \in SignedReader["long"].types
        \/ r.v.type = SignedReader["long"].guarded /\ HasNoSignBit(r.v.as, SignedReader["long"].width)
    <3> HIDE DEF r, t, v
    <3> QED
      BY <1>1, <2>2, <2>3, <2>4, <2>5
  <2>8. ReadSignedInteger(buf, at0, "long") = IF r.ok THEN Result(TRUE, r.at, r.v.as) ELSE Failure(r.at)
    BY <2>7, TypedReaders
  <2> QED
    BY <2>2, <2>6, <2>8
<1>3. CASE k = "uinteger"
  <2>1. v \in Bytes8
    BY <1>3, IsItemOf
  <2>2. t = UIntegerType(v) /\ r.v.as = v
    BY <1>1, <1>3 DEF HeaderType, HeaderValue
  <2>3. r.v.type \in UnsignedReader["ulong"]
    BY <1>1, <2>1, <2>2, UnsignedFirst DEF FirstUnsigned, UnsignedReader
  <2>4. ReadItem(buf, at0, item) = ReadUnsignedInteger(buf, at0, "ulong")
    BY <1>3 DEF ReadItem
  <2>5. ReadUnsignedInteger(buf, at0, "ulong") = IF r.ok THEN Result(TRUE, r.at, r.v.as) ELSE Failure(r.at)
    BY <2>3, TypedReaders
  <2> QED
    BY <2>2, <2>4, <2>5
<1>4. CASE k = "sfix"
  <2>1. t \in {"pfix", "nfix"} /\ r.v.as = v
    BY <1>1, <1>4 DEF HeaderType, HeaderValue
  <2>2. ReadItem(buf, at0, item) = ReadSfix(buf, at0)
    BY <1>4 DEF ReadItem
  <2>3. ReadSfix(buf, at0) = IF r.ok THEN Result(TRUE, r.at, r.v.as) ELSE Failure(r.at)
    BY <1>1, <2>1, TypedReaders
  <2> QED
    BY <2>1, <2>2, <2>3
<1>5. CASE k = "decimal"
  <2>1. t \in {"float", "double"} /\ r.v.as = v
    BY <1>1, <1>5 DEF HeaderType, HeaderValue
  <2>2. ReadItem(buf, at0, item) = ReadDecimal(buf, at0)
    BY <1>5 DEF ReadItem
  <2>3. ReadDecimal(buf, at0) = IF r.ok THEN Result(TRUE, r.at, r.v.as) ELSE Failure(r.at)
    BY <1>1, <2>1, TypedReaders
  <2> QED
    BY <2>1, <2>2, <2>3
<1>6. CASE k = "array"
  <2>1. v = <<v[1]>> /\ LengthFits(v[1], 4)
    BY <1>6, IsItemOf
  <2>2. t \in Arrays /\ r.v.as = v[1]
    BY <1>1, <1>6, <2>1, LengthTypes DEF HeaderType, HeaderValue
  <2>3. ReadItem(buf, at0, item) = Alone(ReadArray(buf, at0))
    BY <1>6 DEF ReadItem, Alone
  <2>4. ReadArray(buf, at0) = IF r.ok THEN Result(TRUE, r.at, v[1]) ELSE Failure(r.at)
    BY <1>1, <2>2, TypedReaders
  <2>5. Alone(ReadArray(buf, at0)) = IF r.ok THEN Result(TRUE, r.at, <<v[1]>>) ELSE Failure(r.at)
    BY <2>4, ThenAlone
  <2> QED
    BY <2>1, <2>3, <2>5
<1>7. CASE k = "map"
  <2>1. v = <<v[1]>> /\ LengthFits(v[1], 4)
    BY <1>7, IsItemOf
  <2>2. t \in Maps /\ r.v.as = v[1]
    BY <1>1, <1>7, <2>1, LengthTypes DEF HeaderType, HeaderValue
  <2>3. ReadItem(buf, at0, item) = Alone(ReadMap(buf, at0))
    BY <1>7 DEF ReadItem, Alone
  <2>4. ReadMap(buf, at0) = IF r.ok THEN Result(TRUE, r.at, v[1]) ELSE Failure(r.at)
    BY <1>1, <2>2, TypedReaders
  <2>5. Alone(ReadMap(buf, at0)) = IF r.ok THEN Result(TRUE, r.at, <<v[1]>>) ELSE Failure(r.at)
    BY <2>4, ThenAlone
  <2> QED
    BY <2>1, <2>3, <2>5
<1>8. CASE k \notin Kinds
  <2>1. r.v = ToObject(item) /\ v = FromObject(ToObject(item))
    <3>1. HeaderType(item) = k /\ HeaderValue(item) = ToObject(item).as
      BY <1>8 DEF HeaderType, HeaderValue, Kinds
    <3> QED
      BY <1>8, <3>1, IsItemOf, ToObjectIs
  <2>2. ReadItem(buf, at0, item) = Then(r, FromObject)
    BY <1>8, Zenon DEF ReadItem, Kinds
  <2> QED
    BY <2>1, <2>2, Zenon DEF Then
<1> QED
  BY <1>2, <1>3, <1>4, <1>5, <1>6, <1>7, <1>8 DEF Kinds

LEMMA ExtDataRead ==
  ASSUME NEW buf \in Seq(Byte), NEW from \in Nat, NEW h \in Seq(Byte), NEW d \in Seq(Byte),
         Agrees(buf, from, h \o d), NEW type, NEW marker,
         Finds(marker, buf, from, h, [size |-> Len(d), type |-> type])
  PROVE  Finds(ExtData(marker, buf), buf, from, h \o d, <<type, d>>)
<1> DEFINE r == ExtData(marker, buf)
           at0 == from + Len(h)
           data == Take(buf, marker.at, marker.v.size)
           then == Take(buf, at0, Len(d))
<1>1. Agrees(buf, at0, d) /\ at0 \in Nat
  BY AgreesWithParts
<1>2. r = IF ~marker.ok THEN marker
          ELSE IF data.ok THEN Result(TRUE, data.at, <<marker.v.type, data.v>>) ELSE Failure(data.at)
  BY DEF ExtData, Then
<1>3. ~Reaches(buf, from, h) => r.ok = FALSE
  BY <1>2 DEF Finds
<1>4. Reaches(buf, from, h) => marker.ok /\ data = then /\ marker.v.type = type
  BY DEF Finds, Result
<1> HIDE DEF r, at0, data
<1>5. Finds(then, buf, at0, d, d)
  BY <1>1, FindsTaken
<1> HIDE DEF then
<1>6. ASSUME Reaches(buf, from, h) PROVE Finds(r, buf, at0, d, <<type, d>>)
  <2>1. r = IF then.ok THEN Result(TRUE, then.at, <<type, then.v>>) ELSE Failure(then.at)
    BY <1>2, <1>4, <1>6, Zenon
  <2>2. then = Result(TRUE, at0 + Len(d), d) => r = Result(TRUE, at0 + Len(d), <<type, d>>)
    BY <2>1 DEF Result
  <2>3. then.ok = FALSE => r = Failure(then.at)
    BY <2>1, Zenon
  <2> QED
    BY <1>5, <2>2, <2>3, FindsMade
<1> QED
  BY <1>3, <1>6, FindsAfter DEF r, at0

LEMMA ReaderFails ==
  ASSUME NEW item, NEW buf, NEW at0, ReadObject(buf, at0).ok = FALSE
  PROVE  ReadItem(buf, at0, item).ok = FALSE
<1> DEFINE r == ReadObject(buf, at0)
           f == Failure(r.at)
           k == item.kind
<1>1. f.ok = FALSE /\ f.at = r.at
  BY DEF Failure, Result
<1>2. /\ ReadSignedInteger(buf, at0, "long") = f /\ ReadUnsignedInteger(buf, at0, "ulong") = f
      /\ ReadSfix(buf, at0) = f /\ ReadDecimal(buf, at0) = f /\ ReadStrSize(buf, at0) = f /\ ReadBinSize(buf, at0) = f
      /\ ReadArray(buf, at0) = f /\ ReadMap(buf, at0) = f /\ ReadExtMarker(buf, at0) = f
  BY TypedReaders
<1> HIDE DEF f
<1>3. ReadStr(buf, at0) = f
  BY <1>1, <1>2, Zenon DEF ReadStr, Sized
<1>4. ReadBin(buf, at0, Len(item.value)) = f
  BY <1>1, <1>2, Zenon DEF ReadBin, Bounded, Sized
<1>5. ReadExt(buf, at0) = f
  BY <1>1, <1>2, Zenon DEF ReadExt, ExtData
<1>6. /\ Then(f, LAMBDA n : <<n>>).ok = FALSE /\ Then(f, LAMBDA e : <<e[1]>> \o e[2]).ok = FALSE
      /\ Then(r, FromObject).ok = FALSE
  <2>1. Failure(f.at).ok = FALSE /\ Failure(r.at).ok = FALSE
    BY DEF Failure, Result
  <2> QED
    BY <1>1, <2>1, Zenon DEF Then
<1>7. CASE k \in Kinds
  <2>1. \/ ReadItem(buf, at0, item) = f
        \/ ReadItem(buf, at0, item) = Then(f, LAMBDA n : <<n>>)
        \/ ReadItem(buf, at0, item) = Then(f, LAMBDA e : <<e[1]>> \o e[2])
    BY <1>2, <1>3, <1>4, <1>5, <1>7 DEF ReadItem, Kinds
  <2> QED
    BY <1>1, <1>6, <2>1
<1>8. CASE k \notin Kinds
  <2>1. ReadItem(buf, at0, item) = Then(r, FromObject)
    BY <1>8, Zenon DEF ReadItem, Kinds
  <2> QED
    BY <1>6, <2>1
<1> QED
  BY <1>7, <1>8

LEMMA ItemRead ==
  ASSUME NEW item, IsItem(item), ~Refuses(item), NEW buf \in Seq(Byte), NEW from \in Nat,
         Agrees(buf, from, Bytes(item))
  PROVE  /\ Finds(ReadItem(buf, from, item), buf, from, Bytes(item), item.value)
         /\ Finds(ReadObject(buf, from), buf, from, HeaderOf(item), Object(HeaderType(item), HeaderValue(item)))
<1> DEFINE k == item.kind
           v == item.value
           h == HeaderOf(item)
           d == DataOf(item)
           t == HeaderType(item)
           x == HeaderValue(item)
           r == ReadObject(buf, from)
           read == ReadItem(buf, from, item)
<1>1. h \in Seq(Byte) /\ d \in Seq(Byte) /\ Bytes(item) = h \o d
  BY ItemWritten
<1>2. Agrees(buf, from, h \o d) /\ Agrees(buf, from, h)
  BY <1>1, AgreesWithParts
<1>3. IsValue(t, x) /\ h = Header(t, x)
  BY ItemValue DEF HeaderOf
<1>4. Finds(r, buf, from, h, Object(t, x))
  BY <1>2, <1>3, ObjectRead
<1>5. Object(t, x).type = t /\ Object(t, x).as = x
  BY DEF Object
<1>6. Reaches(buf, from, h) => r.ok = TRUE /\ r.at = from + Len(h) /\ r.v = Object(t, x)
  BY <1>4 DEF Finds, Result
<1>7. ~Reaches(buf, from, h) => r.ok = FALSE
  BY <1>4 DEF Finds
<1>8. CASE k \notin {"str", "strv4", "bin", "ext"}
  <2>1. Bytes(item) = h
    <3>1. d = <<>>
      BY <1>8 DEF DataOf
    <3> HIDE DEF h, d
    <3>2. h \o <<>> = h
      BY <1>1
    <3> QED
      BY <1>1, <3>1, <3>2
  <2>2. Reaches(buf, from, h) => read = Result(TRUE, from + Len(h), v)
    BY <1>6, <1>8, HeaderRead
  <2>3. ~Reaches(buf, from, h) => read.ok = FALSE
    BY <1>7, ReaderFails
  <2> QED
    BY <1>4, <2>1, <2>2, <2>3, Zenon DEF Finds
<1>9. CASE k \in {"str", "strv4", "bin"}
  <2>1. v \in Seq(Byte) /\ LengthFits(Len(v), 4)
    BY <1>9, IsItemOf
  <2>2. d = v /\ x = Len(v)
    BY <1>9 DEF DataOf, HeaderValue
  <2>3. CASE k \in {"str", "strv4"}
    <3> DEFINE size0 == ReadStrSize(buf, from)
    <3>1. t \in Strs
      BY <2>1, <2>3, LengthTypes DEF HeaderType
    <3>2. size0 = IF r.ok /\ r.v.type \in Strs THEN Result(TRUE, r.at, r.v.as) ELSE Failure(r.at)
      BY TypedReaders
    <3>3. r = Result(TRUE, from + Len(h), Object(t, x)) => size0 = Result(TRUE, from + Len(h), Len(v))
      <4> HIDE DEF r, t, x, h, size0
      <4>1. HAVE r = Result(TRUE, from + Len(h), Object(t, x))
      <4>2. r.ok = TRUE /\ r.at = from + Len(h) /\ r.v = Object(t, x)
        BY <4>1 DEF Result
      <4> QED
        BY <1>5, <2>2, <3>1, <3>2, <4>2, Zenon
    <3>4. r.ok = FALSE => size0 = Failure(r.at)
      BY <3>2
    <3> HIDE DEF size0
    <3>5. Finds(size0, buf, from, h, Len(d))
      BY <1>4, <2>2, <3>3, <3>4, FindsMade
    <3>6. read = Sized(size0, buf)
      BY <2>3 DEF ReadItem, ReadStr, size0
    <3>7. Finds(Sized(size0, buf), buf, from, h \o d, d)
      BY <1>1, <1>2, <3>5, SizedData
    <3> QED
      BY <1>1, <1>4, <2>2, <3>6, <3>7
  <2>4. CASE k = "bin"
    <3> DEFINE size0 == Bounded(ReadBinSize(buf, from), Len(v))
    <3>1. t \in Bins
      BY <2>1, <2>4, LengthTypes DEF HeaderType
    <3>2. ReadBinSize(buf, from) = IF r.ok /\ r.v.type \in Bins THEN Result(TRUE, r.at, r.v.as) ELSE Failure(r.at)
      BY TypedReaders
    <3>3. r = Result(TRUE, from + Len(h), Object(t, x)) => size0 = Result(TRUE, from + Len(h), Len(v))
      <4>1. HAVE r = Result(TRUE, from + Len(h), Object(t, x))
      <4>2. r.ok = TRUE /\ r.at = from + Len(h) /\ r.v = Object(t, x)
        BY <4>1 DEF Result
      <4>3. ReadBinSize(buf, from) = Result(TRUE, from + Len(h), Len(v))
        <5> HIDE DEF r, t, x, h
        <5> QED
          BY <1>5, <2>2, <3>1, <3>2, <4>2, Zenon
      <4>4. ~(Result(TRUE, from + Len(h), Len(v)).v > Len(v))
        <5> DEFINE m == Len(v)
                   z == Result(TRUE, from + Len(h), m).v
        <5>1. m \in Nat
          BY <2>1
        <5> HIDE DEF m
        <5>2. z = m
          BY DEF Result
        <5> HIDE DEF z
        <5>3. ~(z > m)
          BY <5>1, <5>2
        <5> QED
          BY <5>3, Zenon DEF z, m
      <4> QED
        BY <4>3, <4>4, Zenon DEF Bounded
    <3>4. r.ok = FALSE => size0 = Failure(r.at)
      <4>1. Failure(r.at).ok = FALSE
        BY DEF Failure, Result
      <4> QED
        BY <3>2, <4>1, Zenon DEF Bounded
    <3> HIDE DEF size0
    <3>5. Finds(size0, buf, from, h, Len(d))
      BY <1>4, <2>2, <3>3, <3>4, FindsMade
    <3>6. read = Sized(size0, buf)
      BY <2>4 DEF ReadItem, ReadBin, size0
    <3>7. Finds(Sized(size0, buf), buf, from, h \o d, d)
      BY <1>1, <1>2, <3>5, SizedData
    <3> QED
      BY <1>1, <1>4, <2>2, <3>6, <3>7
  <2> QED
    BY <1>9, <2>3, <2>4
<1>10. CASE k = "ext"
  <2> DEFINE marker == ReadExtMarker(buf, from)
             data == ExtData(marker, buf)
  <2>1. v \in Seq(Byte) /\ v # <<>> /\ LengthFits(Len(v) - 1, 4)
    BY <1>10, IsItemOf
  <2>2. d = Tail(v) /\ x = [size |-> Len(d), type |-> v[1]] /\ t = ExtTypeOf(Len(d))
    BY <1>10 DEF DataOf, HeaderValue, HeaderType
  <2>3. Len(d) = Len(v) - 1 /\ v[1] \in Byte /\ <<v[1]>> \o d = v
    BY <2>1, <2>2
  <2>4. t \in Exts \cup Fixexts
    BY <2>1, <2>2, <2>3, LengthTypes
  <2>5. marker = IF r.ok /\ r.v.type \in Exts \cup Fixexts THEN Result(TRUE, r.at, r.v.as) ELSE Failure(r.at)
    BY TypedReaders
  <2>6. r = Result(TRUE, from + Len(h), Object(t, x)) => marker = Result(TRUE, from + Len(h), x)
    <3>1. HAVE r = Result(TRUE, from + Len(h), Object(t, x))
    <3>2. r.ok = TRUE /\ r.at = from + Len(h) /\ r.v = Object(t, x)
      BY <3>1 DEF Result
    <3> HIDE DEF r, t, x, h, marker
    <3> QED
      BY <1>5, <2>4, <2>5, <3>2, Zenon
  <2>7. r.ok = FALSE => marker = Failure(r.at)
    BY <2>5
  <2> HIDE DEF marker
  <2>8. Finds(marker, buf, from, h, [size |-> Len(d), type |-> v[1]])
    <3>1. x = [size |-> Len(d), type |-> v[1]]
      BY <2>2
    <3> HIDE DEF r, x, h, t, d
    <3>2. Finds(marker, buf, from, h, x)
      BY <1>4, <2>6, <2>7, FindsMade
    <3> QED
      BY <3>1, <3>2, Zenon
  <2>9. Finds(data, buf, from, h \o d, <<v[1], d>>)
    BY <1>1, <1>2, <2>8, ExtDataRead
  <2>10. read = IF data.ok THEN Result(TRUE, data.at, <<data.v[1]>> \o data.v[2]) ELSE Failure(data.at)
    BY <1>10 DEF ReadItem, ReadExt, Then, marker
  <2> HIDE DEF data
  <2> DEFINE e == from + Len(h \o d)
  <2>11. data = Result(TRUE, e, <<v[1], d>>) => read = Result(TRUE, e, v)
    <3> HIDE DEF e
    <3>1. HAVE data = Result(TRUE, e, <<v[1], d>>)
    <3>2. data.ok = TRUE /\ data.at = e /\ data.v[1] = v[1] /\ data.v[2] = d
      BY <3>1 DEF Result
    <3> QED
      BY <2>3, <2>10, <3>2, Zenon
  <2>12. data.ok = FALSE => read = Failure(data.at)
    BY <2>10, Zenon
  <2>13. Finds(read, buf, from, h \o d, v)
    <3> DEFINE b == h \o d
               found == <<v[1], d>>
    <3>1. Finds(data, buf, from, b, found)
      BY <2>9
    <3>2. data = Result(TRUE, from + Len(b), found) => read = Result(TRUE, from + Len(b), v)
      BY <2>11 DEF e
    <3> HIDE DEF b, found, read, v
    <3>3. Finds(read, buf, from, b, v)
      BY <2>12, <3>1, <3>2, FindsMade
    <3> QED
      BY <3>3 DEF b
  <2> QED
    BY <1>1, <1>4, <2>13
<1> QED
  BY <1>8, <1>9, <1>10

-----------------------------------------------------------------------------
(* Messages *)

Encoded(its, n) == [i \in 1 .. n |-> Bytes(its[i])]
Sent(its, n) == FlattenSeq(Encoded(its, n))

LEMMA BytesAreBytes ==
  ASSUME NEW item \in Items
  PROVE  IsItem(item) /\ Bytes(item) \in Seq(Byte)
<1>1. IsItem(item)
  BY ItemsAssumption
<1>2. CASE Refuses(item)
  <2>1. Bytes(item) = <<>>
    BY <1>1, <1>2, ItemRefused
  <2> QED
    BY <1>1, <2>1
<1>3. CASE ~Refuses(item)
  BY <1>1, <1>3, ItemWritten
<1> QED
  BY <1>2, <1>3

LEMMA SentGrows ==
  ASSUME NEW its \in Seq(Items)
  PROVE  /\ Sent(its, 0) = <<>>
         /\ \A n \in 0 .. Len(its) : Sent(its, n) \in Seq(Byte)
         /\ \A n \in 1 .. Len(its) : Sent(its, n) = Sent(its, n - 1) \o Bytes(its[n])
         /\ \A n \in 0 .. Len(its) : \A g \in 0 .. n :
              \E rest \in Seq(Byte) : Sent(its, n) = Sent(its, g) \o rest
<1> DEFINE N == Len(its)
           s == Encoded(its, N)
           f == Beginnings(s)
<1>1. N \in Nat /\ \A i \in 1 .. N : its[i] \in Items
  OBVIOUS
<1> HIDE DEF N
<1>2. \A i \in 1 .. N : Bytes(its[i]) \in Seq(Byte)
  BY <1>1, BytesAreBytes
<1>3. s \in Seq(Seq(Byte)) /\ Len(s) = N /\ \A i \in 1 .. N : s[i] = Bytes(its[i])
  <2> DEFINE B(i) == Bytes(its[i])
  <2> HIDE DEF B
  <2>1. \A i \in 1 .. N : B(i) \in Seq(Byte)
    BY <1>2 DEF B
  <2>2. s = [i \in 1 .. N |-> B(i)]
    BY DEF Encoded, B
  <2> HIDE DEF s
  <2>3. s \in Seq(Seq(Byte)) /\ Len(s) = N /\ \A i \in 1 .. N : s[i] = B(i)
    BY <1>1, <2>1, <2>2
  <2> QED
    BY <2>3 DEF B
<1>4. \A n \in 0 .. N : SubSeq(s, 1, n) = Encoded(its, n)
  <2> TAKE n \in 0 .. N
  <2> DEFINE B(i) == Bytes(its[i])
             e == Encoded(its, n)
  <2> HIDE DEF B, s
  <2>1. e = [i \in 1 .. n |-> B(i)]
    BY DEF Encoded, B
  <2>2. \A i \in 1 .. N : s[i] = B(i)
    BY <1>3 DEF B
  <2>3. SubSeq(s, 1, n) = [i \in 1 .. n |-> s[i]]
    BY <1>1, <1>3
  <2>4. \A i \in 1 .. n : s[i] = B(i)
    BY <1>1, <2>2
  <2>5. [i \in 1 .. n |-> s[i]] = [i \in 1 .. n |-> B(i)]
    BY <2>4, Zenon
  <2> HIDE DEF e
  <2> QED
    BY <2>1, <2>3, <2>5, Zenon DEF e
<1> HIDE DEF s, f
<1>5. /\ f[0] = <<>>
      /\ \A i \in 0 .. N : f[i] \in Seq(Byte)
      /\ \A i \in 1 .. N : f[i] = f[i - 1] \o s[i]
  BY <1>3, BeginningsGrow DEF f
<1>6. \A n \in 0 .. N : f[n] = Sent(its, n)
  BY <1>3, <1>4 DEF f, Beginnings, Sent
<1>7. ASSUME NEW n \in 0 .. N, NEW g \in 0 .. n
      PROVE  \E rest \in Seq(Byte) : Sent(its, n) = Sent(its, g) \o rest
  <2> DEFINE t == Encoded(its, n)
  <2>1. t \in Seq(Seq(Byte)) /\ Len(t) = n
    <3>1. SubSeq(s, 1, n) \in Seq(Seq(Byte)) /\ Len(SubSeq(s, 1, n)) = n
      BY <1>1, <1>3
    <3> QED
      BY <1>4, <3>1
  <2>2. SubSeq(t, 1, g) = Encoded(its, g)
    <3>1. SubSeq(SubSeq(s, 1, n), 1, g) = SubSeq(s, 1, g)
      BY <1>1, <1>3
    <3> QED
      BY <1>1, <1>4, <3>1
  <2> HIDE DEF t
  <2>3. \E rest \in Seq(Byte) : FlattenSeq(t) = FlattenSeq(SubSeq(t, 1, g)) \o rest
    BY <2>1, FlattenSplit
  <2> QED
    BY <2>2, <2>3 DEF Sent, t
<1>8. Sent(its, 0) = <<>>
  BY <1>1, <1>5, <1>6
<1>9. \A n \in 0 .. N : Sent(its, n) \in Seq(Byte)
  BY <1>5, <1>6
<1>10. ASSUME NEW n \in 1 .. N PROVE Sent(its, n) = Sent(its, n - 1) \o Bytes(its[n])
  <2>1. n \in 0 .. N /\ n - 1 \in 0 .. N
    BY <1>1
  <2>2. f[n] = f[n - 1] \o s[n] /\ s[n] = Bytes(its[n])
    BY <1>3, <1>5
  <2> QED
    BY <1>6, <2>1, <2>2
<1> QED
  BY <1>7, <1>8, <1>9, <1>10 DEF N

\* Where the bytes of an item are in a buffer that goes on after them, or
\* that has only some of them.
LEMMA ItemThere ==
  ASSUME NEW a \in Seq(Byte), NEW b \in Seq(Byte), NEW c \in Seq(Byte)
  PROVE  /\ Agrees((a \o b) \o c, Len(a), b) /\ Reaches((a \o b) \o c, Len(a), b)
         /\ Agrees(a \o b, Len(a), b \o c)
         /\ Reaches(a \o b, Len(a), b \o c) => c = <<>>
<1> DEFINE ab == a \o b
           abc == ab \o c
           bc == b \o c
<1>1. /\ Len(ab) = Len(a) + Len(b) /\ Len(abc) = Len(a) + Len(b) + Len(c) /\ Len(bc) = Len(b) + Len(c)
      /\ Len(a) \in Nat /\ Len(b) \in Nat /\ Len(c) \in Nat
      /\ \A i \in 1 .. Len(b) : ab[Len(a) + i] = b[i]
      /\ \A i \in 1 .. Len(b) : bc[i] = b[i]
      /\ \A i \in 1 .. Len(a) + Len(b) : abc[i] = ab[i]
      /\ Len(c) = 0 => c = <<>>
  OBVIOUS
<1> HIDE DEF ab, abc, bc
<1>2. ASSUME NEW i \in 1 .. Len(b) PROVE abc[Len(a) + i] = b[i]
  <2>1. Len(a) + i \in 1 .. Len(a) + Len(b)
    BY <1>1
  <2> QED
    BY <1>1, <2>1
<1>3. Agrees(abc, Len(a), b) /\ Reaches(abc, Len(a), b)
  BY <1>1, <1>2 DEF Agrees, Reaches
<1>4. ASSUME NEW i \in 1 .. Len(bc), Len(a) + i <= Len(ab) PROVE ab[Len(a) + i] = bc[i]
  <2>1. i \in 1 .. Len(b)
    BY <1>1, <1>4
  <2> QED
    BY <1>1, <2>1
<1>5. Agrees(ab, Len(a), bc)
  BY <1>4 DEF Agrees
<1>6. Reaches(ab, Len(a), bc) => c = <<>>
  BY <1>1 DEF Reaches
<1> QED
  BY <1>3, <1>5, <1>6 DEF ab, abc, bc

\* What a writer that fails leaves of its item: the pieces that had room.
Unfinished(item, sent, buf, limit) ==
  IF Refuses(item) THEN buf = sent
  ELSE \E part, rest \in Seq(Byte) :
         /\ buf = sent \o part /\ Bytes(item) = part \o rest
         /\ NoData(item) \/ (rest # <<>> /\ limit < Len(sent \o Bytes(item)))

LEMMA ItemStops ==
  ASSUME NEW item, IsItem(item), NEW sent \in Seq(Byte), NEW limit \in Nat, Len(sent) <= limit
  PROVE  LET w == Write(sent, limit, Pieces(item))
         IN  /\ w.out \in Seq(Byte) /\ Len(w.out) <= limit
             /\ w.ok => ~Refuses(item) /\ w.out = sent \o Bytes(item)
             /\ ~w.ok => Unfinished(item, sent, w.out, limit)
<1> DEFINE p == Pieces(item)
           w == Write(sent, limit, p)
           part(k) == FlattenSeq(SubSeq(p, 1, k))
<1>1. p \in Seq(Seq(Byte)) /\ Bytes(item) = FlattenSeq(p)
  <2>1. CASE Refuses(item)
    <3>1. p = Refused
      BY <2>1, ItemRefused
    <3>2. Refused \in Seq(Seq(Byte))
      BY DEF Refused
    <3> QED
      BY <3>1, <3>2 DEF Bytes
  <2>2. CASE ~Refuses(item)
    BY <2>2, ItemWritten DEF Bytes
  <2> QED
    BY <2>1, <2>2
<1> HIDE DEF p
<1>2. PICK k \in 0 .. Len(p) : Stops(sent, limit, p, k)
  BY <1>1, WriteStops
<1>3. /\ w.out = sent \o part(k)
      /\ w.ok <=> k = Len(p)
      /\ \A i \in 1 .. k : p[i] # <<>>
      /\ Len(sent \o part(k)) <= limit
      /\ k < Len(p) => p[k + 1] = <<>> \/ Len(sent \o part(k)) + Len(p[k + 1]) > limit
  BY <1>2 DEF Stops
<1>4. Len(p) \in Nat /\ k \in Nat /\ k <= Len(p)
  BY <1>1
<1>5. \A i \in 0 .. Len(p) : part(i) \in Seq(Byte)
  <2> TAKE i \in 0 .. Len(p)
  <2>1. SubSeq(p, 1, i) \in Seq(Seq(Byte))
    BY <1>1
  <2> QED
    BY <2>1, FlattenType
<1> HIDE DEF w
<1>6. w.out \in Seq(Byte) /\ Len(w.out) <= limit
  <2>1. part(k) \in Seq(Byte)
    BY <1>5
  <2> HIDE DEF part
  <2> QED
    BY <1>3, <2>1
<1>7. ASSUME w.ok PROVE ~Refuses(item) /\ w.out = sent \o Bytes(item)
  <2>1. k = Len(p)
    BY <1>3, <1>7
  <2>2. SubSeq(p, 1, k) = p
    BY <1>1, <2>1, SubSeqFull
  <2>3. part(k) = Bytes(item)
    BY <1>1, <2>2
  <2>4. ~Refuses(item)
    <3>1. SUFFICES ASSUME Refuses(item) PROVE FALSE
      OBVIOUS
    <3>2. Len(p) = 1 /\ p[1] = <<>>
      BY <3>1, ItemRefused DEF p, Refused
    <3> QED
      BY <1>3, <2>1, <3>2
  <2> QED
    BY <1>3, <2>3, <2>4, Zenon
<1>8. ASSUME ~w.ok PROVE Unfinished(item, sent, w.out, limit)
  <2>1. k < Len(p)
    BY <1>3, <1>4, <1>8
  <2>2. k + 1 \in 1 .. Len(p) /\ k + 1 \in 0 .. Len(p) /\ (k + 1) - 1 = k
    BY <1>4, <2>1
  <2>3. part(k + 1) = part(k) \o p[k + 1]
    <3> DEFINE f == Beginnings(p)
    <3>1. f[k + 1] = f[(k + 1) - 1] \o p[k + 1]
      BY <1>1, <2>2, BeginningsGrow
    <3>2. f[k + 1] = part(k + 1) /\ f[k] = part(k)
      BY <2>2 DEF Beginnings
    <3> QED
      BY <2>2, <3>1, <3>2
  <2>4. CASE Refuses(item)
    <3>1. p = << <<>> >>
      BY <2>4, ItemRefused DEF p, Refused
    <3>2. k = 0
      BY <1>4, <2>1, <3>1
    <3>3. SubSeq(p, 1, 0) = <<>>
      BY <3>1
    <3>4. part(k) = <<>>
      BY <3>2, <3>3, FlattenEmpty
    <3>5. sent \o <<>> = sent
      OBVIOUS
    <3>6. w.out = sent
      BY <1>3, <3>4, <3>5, Zenon
    <3> QED
      BY <2>4, <3>6 DEF Unfinished
  <2>5. CASE ~Refuses(item)
    <3>1. p[k + 1] \in Seq(Byte) /\ part(k) \in Seq(Byte) /\ part(k + 1) \in Seq(Byte)
      BY <1>1, <1>5, <2>2
    <3>2. PICK more \in Seq(Byte) : FlattenSeq(p) = part(k + 1) \o more
      BY <1>1, <2>2, FlattenSplit
    <3> DEFINE a == part(k)
               b == p[k + 1]
               rest == b \o more
               whole == Bytes(item)
    <3>3. a \in Seq(Byte) /\ b \in Seq(Byte) /\ whole = (a \o b) \o more
      BY <1>1, <2>3, <3>1, <3>2
    <3> HIDE DEF a, b, whole
    <3>4. rest \in Seq(Byte) /\ whole = a \o rest
      <4>1. rest \in Seq(Byte)
        BY <3>3
      <4>2. a \in Seq(Byte) /\ b \in Seq(Byte)
        BY <3>3
      <4>3. (a \o b) \o more = a \o rest
        BY <4>2
      <4> HIDE DEF rest
      <4> QED
        BY <3>3, <4>1, <4>3, Zenon
    <3>5. b = <<>> => NoData(item)
      BY <2>2, <2>5, ItemWritten DEF b, p
    <3>6. ASSUME b # <<>> PROVE rest # <<>> /\ limit < Len(sent \o whole)
      <4>1. Len(sent \o a) + Len(b) > limit
        BY <1>3, <2>1, <3>6 DEF a, b
      <4>2. /\ Len(sent \o a) = Len(sent) + Len(a) /\ Len(sent \o whole) = Len(sent) + Len(whole)
            /\ Len(whole) = Len(a) + Len(b) + Len(more) /\ Len(rest) = Len(b) + Len(more)
            /\ Len(sent) \in Nat /\ Len(a) \in Nat /\ Len(b) \in Nat /\ Len(more) \in Nat
        BY <3>3
      <4>3. Len(b) # 0
        BY <3>3, <3>6
      <4> HIDE DEF rest
      <4>4. Len(rest) # 0 /\ limit < Len(sent \o whole)
        BY <4>1, <4>2, <4>3
      <4>5. Len(<<>>) = 0
        OBVIOUS
      <4> QED
        BY <4>4, <4>5, Zenon
    <3>7. w.out = sent \o a
      BY <1>3 DEF a
    <3> HIDE DEF rest
    <3>8. Bytes(item) = a \o rest
      BY <3>4 DEF whole
    <3>9. NoData(item) \/ (rest # <<>> /\ limit < Len(sent \o Bytes(item)))
      BY <3>5, <3>6 DEF whole
    <3> QED
      BY <2>5, <3>3, <3>4, <3>7, <3>8, <3>9 DEF Unfinished
  <2> QED
    BY <2>4, <2>5
<1> QED
  BY <1>6, <1>7, <1>8 DEF w, p

-----------------------------------------------------------------------------
(* The inductive invariant *)

Types ==
  /\ size \in Nat /\ items \in Seq(Items) /\ next \in 1 .. Len(items) + 1
  /\ out \in Seq(Byte) /\ Len(out) <= size
  /\ got \in Seq({item.value : item \in Items})
  /\ writing \in BOOLEAN /\ reading \in BOOLEAN

\* The buffer holds the items before next, and when a writer has failed what
\* it left of its item.
Written ==
  /\ \A i \in 1 .. next - 1 : ~Refuses(items[i])
  /\ writing => next <= Len(items)
  /\ writing \/ next > Len(items) => out = Sent(items, next - 1)
  /\ ~writing /\ next <= Len(items) => Unfinished(items[next], Sent(items, next - 1), out, size)

\* The readers are at the end of an item, and have read those before it.
Read ==
  /\ Len(got) <= next /\ Len(got) <= Len(items)
  /\ Len(got) = next => NoData(items[next]) /\ out = Sent(items, next)
  /\ \A i \in 1 .. Len(got) : got[i] = items[i].value
  /\ writing => got = <<>> /\ ~reading
  /\ reading => Len(got) < Len(items)
  /\ ~writing /\ ~reading => Len(got) >= next - 1
  /\ writing \/ reading => at = Len(Sent(items, Len(got)))

CodecInv == Types /\ Written /\ Read

LEMMA NothingLeft ==
  ASSUME NEW buf \in Seq(Byte), NEW item
  PROVE  ReadItem(buf, Len(buf), item).ok = FALSE
<1>1. Len(buf) \in Nat /\ Len(buf) + 1 > Len(buf)
  OBVIOUS
<1>2. Take(buf, Len(buf), 1) = Failure(Len(buf))
  BY <1>1 DEF Take
<1> DEFINE marker == Take(buf, Len(buf), 1)
<1>3. marker.ok = FALSE
  BY <1>2 DEF Failure, Result
<1>4. ReadObject(buf, Len(buf)) = marker
  <2> HIDE DEF marker
  <2>1. ReadMarked(buf, marker) = marker
    BY <1>3 DEF ReadMarked
  <2> QED
    BY <2>1 DEF ReadObject, marker
<1> QED
  BY <1>3, <1>4, ReaderFails

\* What the reader of the item after those that were read finds.
LEMMA NextFound ==
  ASSUME CodecInv, reading
  PROVE  LET g == Len(got) + 1
             r == ReadItem(out, at, items[g])
         IN  /\ g < next => r.ok
             /\ r.ok => /\ r.at = Len(Sent(items, g)) /\ r.v = items[g].value /\ g <= next
                        /\ g = next => NoData(items[next]) /\ out = Sent(items, next)
<1> DEFINE g == Len(got) + 1
           item == items[g]
           a == Sent(items, g - 1)
           b == Bytes(item)
           r == ReadItem(out, at, item)
<1> USE DEF CodecInv
<1>1. /\ next \in Nat /\ next <= Len(items) + 1 /\ Len(items) \in Nat /\ g \in 1 .. Len(items) /\ g \in Nat
      /\ g - 1 = Len(got) /\ g - 1 <= next /\ writing = FALSE
  BY DEF Types, Read
<1>2. items \in Seq(Items) /\ out \in Seq(Byte) /\ item \in Items /\ (next <= Len(items) => items[next] \in Items)
  BY <1>1 DEF Types
<1>3. IsItem(item) /\ b \in Seq(Byte)
  BY <1>2, BytesAreBytes
<1> HIDE DEF g
<1>4. \A n \in 0 .. Len(items) : Sent(items, n) \in Seq(Byte)
  BY <1>2, SentGrows
<1>5. a \in Seq(Byte) /\ at = Len(a) /\ Sent(items, g) = a \o b
  <2>1. g - 1 \in 0 .. Len(items)
    BY <1>1
  <2>2. at = Len(Sent(items, Len(got)))
    BY DEF Read
  <2> QED
    BY <1>1, <1>2, <2>1, <2>2, SentGrows
<1>6. Len(Sent(items, g)) = Len(a) + Len(b)
  <2> HIDE DEF a, b
  <2>1. Len(a \o b) = Len(a) + Len(b)
    BY <1>3, <1>5
  <2> QED
    BY <1>5, <2>1
<1>7. ASSUME g < next PROVE r.ok /\ r.at = Len(Sent(items, g)) /\ r.v = item.value
  <2> DEFINE s == Sent(items, next - 1)
  <2>1. next - 1 \in 0 .. Len(items) /\ g \in 0 .. next - 1 /\ g \in 1 .. next - 1
    BY <1>1, <1>7
  <2>2. s \in Seq(Byte)
    BY <1>4, <2>1
  <2> HIDE DEF s
  <2>3. PICK part \in Seq(Byte) : out = s \o part
    <3>1. <<>> \in Seq(Byte) /\ s = s \o <<>>
      BY <2>2
    <3>2. CASE next > Len(items)
      BY <3>1, <3>2 DEF Written, s
    <3>3. CASE next <= Len(items)
      <4>1. Unfinished(items[next], s, out, size)
        BY <1>1, <3>3 DEF Written, s
      <4> QED
        BY <3>1, <4>1 DEF Unfinished
    <3> QED
      BY <1>1, <3>2, <3>3
  <2>4. PICK rest \in Seq(Byte) : s = (a \o b) \o rest
    BY <1>2, <1>5, <2>1, SentGrows DEF s
  <2>5. ~Refuses(item)
    BY <2>1 DEF Written
  <2> HIDE DEF a, b
  <2> DEFINE ab == a \o b
             c == rest \o part
  <2>6. ab \in Seq(Byte) /\ c \in Seq(Byte)
    BY <1>3, <1>5
  <2> HIDE DEF ab
  <2>7. (ab \o rest) \o part = ab \o c
    BY <2>6
  <2>8. out = ab \o c
    BY <2>3, <2>4, <2>7 DEF ab
  <2> HIDE DEF c
  <2>9. Agrees(out, Len(a), b) /\ Reaches(out, Len(a), b)
    BY <1>3, <1>5, <2>6, <2>8, ItemThere DEF ab
  <2>10. Len(a) \in Nat
    BY <1>5
  <2>11. Finds(r, out, Len(a), b, item.value)
    BY <1>2, <1>3, <1>5, <2>5, <2>9, <2>10, ItemRead DEF b
  <2>12. r = Result(TRUE, Len(a) + Len(b), item.value)
    BY <2>9, <2>11 DEF Finds
  <2> QED
    BY <1>6, <2>12 DEF Result
<1>8. ASSUME g = next, r.ok
      PROVE  r.at = Len(Sent(items, g)) /\ r.v = item.value /\ NoData(items[next]) /\ out = Sent(items, next)
  <2>1. Unfinished(item, a, out, size)
    BY <1>1, <1>8 DEF Written
  <2>2. ~Refuses(item)
    <3>1. SUFFICES ASSUME Refuses(item) PROVE FALSE
      OBVIOUS
    <3>2. out = a
      BY <2>1, <3>1 DEF Unfinished
    <3>3. r.ok = FALSE
      BY <1>2, <1>5, <3>2, NothingLeft
    <3> QED
      BY <1>8, <3>3
  <2>3. PICK part \in Seq(Byte), rest \in Seq(Byte) :
          /\ out = a \o part /\ b = part \o rest
          /\ NoData(item) \/ (rest # <<>> /\ size < Len(a \o b))
    BY <2>1, <2>2 DEF Unfinished
  <2>4. Len(a) \in Nat
    BY <1>5
  <2>5. Agrees(out, Len(a), b) /\ (Reaches(out, Len(a), b) => rest = <<>>)
    <3> HIDE DEF a, b
    <3> QED
      BY <1>5, <2>3, ItemThere
  <2>6. Finds(r, out, Len(a), b, item.value)
    BY <1>2, <1>3, <1>5, <2>2, <2>4, <2>5, ItemRead
  <2>7. Reaches(out, Len(a), b)
    BY <1>8, <2>6 DEF Finds
  <2>8. rest = <<>>
    BY <2>5, <2>7
  <2>9. NoData(item)
    BY <2>3, <2>8
  <2>10. part \o <<>> = part
    OBVIOUS
  <2>11. out = a \o b
    BY <2>3, <2>8, <2>10
  <2>12. r = Result(TRUE, Len(a) + Len(b), item.value)
    BY <2>6, <2>7 DEF Finds
  <2>13. r.at = Len(a) + Len(b) /\ r.v = item.value
    BY <2>12 DEF Result
  <2> QED
    BY <1>5, <1>6, <1>8, <2>9, <2>11, <2>13
<1>9. ASSUME g > next PROVE ~r.ok
  <2>1. g - 1 = next
    BY <1>1, <1>9
  <2>2. out = a
    BY <1>1, <2>1 DEF Read
  <2> QED
    BY <1>2, <1>5, <2>2, NothingLeft
<1>10. g < next \/ g = next \/ g > next
  BY <1>1
<1>11. g < next => r.ok
  BY <1>7
<1>12. r.ok => /\ r.at = Len(Sent(items, g)) /\ r.v = item.value /\ g <= next
               /\ g = next => NoData(items[next]) /\ out = Sent(items, next)
  <2>1. CASE g < next
    BY <1>1, <1>7, <2>1
  <2>2. CASE g = next
    BY <1>1, <1>8, <2>2
  <2>3. CASE g > next
    BY <1>9, <2>3
  <2> QED
    BY <1>10, <2>1, <2>2, <2>3
<1> QED
  BY <1>11, <1>12 DEF g

LEMMA Starts == Init => CodecInv
<1> SUFFICES ASSUME Init PROVE CodecInv
  OBVIOUS
<1>1. PICK n \in 1 .. MaxItems : items \in [1 .. n -> Items]
  BY DEF Init
<1>2. n \in Nat /\ items \in Seq(Items) /\ Len(items) = n
  BY <1>1, CodecAssumption
<1>3. next = 1 /\ out = <<>> /\ writing = TRUE /\ at = 0 /\ got = <<>> /\ reading = FALSE /\ size \in Nat
  BY CodecAssumption DEF Init
<1>4. Len(<<>>) = 0 /\ <<>> \in Seq(Byte) /\ <<>> \in Seq({item.value : item \in Items})
  OBVIOUS
<1>5. Sent(items, 0) = <<>>
  BY <1>2, SentGrows
<1>6. Types
  <2>1. next \in 1 .. Len(items) + 1 /\ Len(out) <= size
    BY <1>2, <1>3, <1>4
  <2>2. writing \in BOOLEAN /\ reading \in BOOLEAN
    BY <1>3, Zenon
  <2> QED
    BY <1>2, <1>3, <1>4, <2>1, <2>2 DEF Types
<1>7. Written
  BY <1>1, <1>2, <1>3, <1>5 DEF Written
<1>8. Read
  BY <1>1, <1>2, <1>3, <1>4, <1>5 DEF Read
<1> QED
  BY <1>6, <1>7, <1>8 DEF CodecInv

LEMMA WriteKeeps ==
  ASSUME CodecInv, WriteItem
  PROVE  CodecInv'
<1> USE DEF CodecInv
<1> DEFINE item == items[next]
           w == Write(out, size, Pieces(item))
<1>1. /\ writing /\ out' = w.out /\ next' = (IF w.ok THEN next + 1 ELSE next)
      /\ writing' = (w.ok /\ next < Len(items)) /\ reading' = (~w.ok \/ next = Len(items))
      /\ UNCHANGED <<size, items, at, got>>
  BY DEF WriteItem
<1>2. /\ items \in Seq(Items) /\ next \in 1 .. Len(items) /\ Len(items) \in Nat /\ next \in Nat /\ item \in Items
      /\ out \in Seq(Byte) /\ size \in Nat /\ Len(out) <= size
  BY <1>1 DEF Types, Written
<1>3. out = Sent(items, next - 1) /\ Sent(items, next) = out \o Bytes(item)
  BY <1>1, <1>2, SentGrows DEF Written
<1>4. got = <<>> /\ Len(<<>>) = 0 /\ at = Len(Sent(items, 0))
  BY <1>1 DEF Read
<1>5. IsItem(item)
  BY <1>2, BytesAreBytes
<1>6. /\ w.out \in Seq(Byte) /\ Len(w.out) <= size
      /\ w.ok => ~Refuses(item) /\ w.out = out \o Bytes(item)
      /\ ~w.ok => Unfinished(item, out, w.out, size)
  BY <1>2, <1>5, ItemStops
<1> HIDE DEF w
<1>7. Types'
  <2>1. next' \in 1 .. Len(items) + 1
    BY <1>1, <1>2
  <2>2. writing' \in BOOLEAN /\ reading' \in BOOLEAN
    BY <1>1, Zenon
  <2> QED
    BY <1>1, <1>6, <2>1, <2>2 DEF Types
<1>8. CASE w.ok
  <2>1. next' = next + 1 /\ next' - 1 = next
    BY <1>1, <1>2, <1>8
  <2>2. (writing' <=> next < Len(items)) /\ (reading' <=> next = Len(items))
    BY <1>1, <1>8, Zenon
  <2>3. out' = Sent(items, next)
    BY <1>1, <1>3, <1>6, <1>8
  <2>4. Written'
    <3>1. \A i \in 1 .. next : ~Refuses(items[i])
      <4> TAKE i \in 1 .. next
      <4>1. i = next \/ i \in 1 .. next - 1
        BY <1>2
      <4> QED
        BY <1>6, <1>8, <4>1 DEF Written
    <3>2. writing' => next' <= Len(items)
      BY <1>2, <2>1, <2>2
    <3>3. ~writing' => next = Len(items)
      BY <1>2, <2>2
    <3>4. ~writing' => ~(next' <= Len(items))
      BY <1>2, <2>1, <3>3
    <3> QED
      BY <1>1, <2>1, <2>3, <3>1, <3>2, <3>4 DEF Written
  <2>5. Read'
    <3>1. Len(got') = 0 /\ 0 <= next' /\ 0 # next' /\ 0 < Len(items) /\ 0 <= Len(items)
      BY <1>1, <1>2, <1>4, <2>1
    <3>2. (writing' => ~reading') /\ (writing' \/ reading')
      BY <1>2, <2>2
    <3> QED
      BY <1>1, <1>4, <3>1, <3>2 DEF Read
  <2> QED
    BY <1>7, <2>4, <2>5
<1>9. CASE ~w.ok
  <2>1. next' = next /\ writing' = FALSE /\ reading' = TRUE
    BY <1>1, <1>9
  <2>2. Unfinished(items[next], Sent(items, next - 1), w.out, size)
    BY <1>3, <1>6, <1>9
  <2>3. Written'
    BY <1>1, <1>2, <2>1, <2>2 DEF Written
  <2>4. Read'
    <3>1. Len(got') = 0 /\ 0 <= next' /\ 0 # next' /\ 0 < Len(items) /\ 0 <= Len(items)
      BY <1>1, <1>2, <1>4, <2>1
    <3> QED
      BY <1>1, <1>4, <2>1, <3>1 DEF Read
  <2> QED
    BY <1>7, <2>3, <2>4
<1> QED
  BY <1>8, <1>9

LEMMA ReadKeeps ==
  ASSUME CodecInv, ReadNext
  PROVE  CodecInv'
<1> DEFINE g == Len(got) + 1
           item == items[g]
           r == ReadItem(out, at, item)
<1>1. /\ reading /\ at' = r.at /\ got' = (IF r.ok THEN Append(got, r.v) ELSE got)
      /\ reading' = (r.ok /\ g < Len(items))
      /\ UNCHANGED <<size, items, next, out, writing>>
  BY DEF ReadNext
<1>2. /\ g < next => r.ok
      /\ r.ok => /\ r.at = Len(Sent(items, g)) /\ r.v = item.value /\ g <= next
                 /\ g = next => NoData(items[next]) /\ out = Sent(items, next)
  BY <1>1, NextFound
<1> HIDE DEF r
<1> USE DEF CodecInv
<1>3. /\ writing = FALSE /\ items \in Seq(Items) /\ Len(items) \in Nat /\ next \in Nat /\ next <= Len(items) + 1
      /\ got \in Seq({x.value : x \in Items}) /\ g \in 1 .. Len(items) /\ Len(got) \in Nat /\ Len(got) = g - 1
  BY <1>1 DEF Types, Read
<1>4. item.value \in {x.value : x \in Items}
  BY <1>3
<1>5. /\ reading' \in BOOLEAN
      /\ r.ok => /\ got' \in Seq({x.value : x \in Items}) /\ Len(got') = g /\ got'[g] = item.value
                 /\ \A i \in 1 .. g - 1 : got'[i] = got[i]
      /\ ~r.ok => got' = got
  <2>1. reading' \in BOOLEAN
    BY <1>1, Zenon
  <2>2. ASSUME r.ok
        PROVE  /\ got' \in Seq({x.value : x \in Items}) /\ Len(got') = g /\ got'[g] = item.value
               /\ \A i \in 1 .. g - 1 : got'[i] = got[i]
    <3> DEFINE V == {x.value : x \in Items}
               v == item.value
    <3>1. got' = Append(got, v)
      BY <1>1, <1>2, <2>2
    <3>2. got \in Seq(V) /\ v \in V
      BY <1>3, <1>4
    <3> HIDE DEF V, v
    <3>3. got' \in Seq(V) /\ Len(got') = g /\ got'[g] = v /\ \A i \in 1 .. g - 1 : got'[i] = got[i]
      BY <3>1, <3>2
    <3> QED
      BY <3>3 DEF V, v
  <2> QED
    BY <1>1, <2>1, <2>2
<1>6. Types'
  BY <1>1, <1>5 DEF Types
<1>7. Written'
  BY <1>1 DEF Written
<1>8. CASE r.ok
  <2>1. /\ g <= next /\ g <= Len(items) /\ (g = next => NoData(items[next]) /\ out = Sent(items, next))
        /\ at' = Len(Sent(items, g))
    BY <1>1, <1>2, <1>3, <1>8
  <2>2. \A i \in 1 .. g : got'[i] = items[i].value
    <3> TAKE i \in 1 .. g
    <3>1. i = g \/ (i \in 1 .. g - 1 /\ i \in 1 .. Len(got))
      BY <1>3
    <3> QED
      BY <1>5, <1>8, <3>1 DEF Read
  <2>3. (reading' => g < Len(items)) /\ (~reading' => g >= next - 1)
    <3>1. reading' <=> g < Len(items)
      BY <1>1, <1>8, Zenon
    <3> QED
      BY <1>3, <3>1
  <2>4. Len(got') = g
    BY <1>5, <1>8
  <2> HIDE DEF g
  <2>5. Read'
    BY <1>1, <1>3, <2>1, <2>2, <2>3, <2>4 DEF Read
  <2> QED
    BY <1>6, <1>7, <2>5
<1>9. CASE ~r.ok
  <2>1. got' = got /\ ~reading' /\ g - 1 >= next - 1
    <3>1. got' = got /\ ~reading' /\ ~(g < next)
      BY <1>1, <1>2, <1>9, Zenon
    <3> QED
      BY <1>3, <3>1
  <2>2. Read'
    BY <1>1, <1>3, <2>1 DEF Read
  <2> QED
    BY <1>6, <1>7, <2>2
<1> QED
  BY <1>8, <1>9

\* What is in the buffer, and what was read of it, at every step of a message:
\* the inductive invariant of the writers and the readers of cmp.c.
THEOREM CodecInvHolds == Spec => []CodecInv
<1>1. Init => CodecInv
  BY Starts
<1>2. CodecInv /\ [Next]_vars => CodecInv'
  <2> SUFFICES ASSUME CodecInv, [Next]_vars PROVE CodecInv'
    OBVIOUS
  <2>1. CASE WriteItem
    BY <2>1, WriteKeeps
  <2>2. CASE ReadNext
    BY <2>2, ReadKeeps
  <2>3. CASE UNCHANGED vars
    BY <2>3 DEF vars, CodecInv, Types, Written, Read
  <2> QED
    BY <2>1, <2>2, <2>3 DEF Next
<1> QED
  BY <1>1, <1>2, PTL DEF Spec

-----------------------------------------------------------------------------
(* The buffer and what is read of it *)

LEMMA PrefixMade ==
  ASSUME NEW a \in Seq(Byte), NEW b \in Seq(Byte)
  PROVE  IsPrefix(a, a \o b) /\ (b # <<>> => IsStrictPrefix(a, a \o b))
<1> DEFINE c == a \o b
<1>1. /\ Len(c) = Len(a) + Len(b) /\ Len(a) \in Nat /\ Len(b) \in Nat /\ (b # <<>> => Len(b) # 0)
      /\ \A i \in 1 .. Len(a) : c[i] = a[i]
  OBVIOUS
<1>2. SubSeq(a, 1, Len(a)) = [i \in 1 .. Len(a) |-> a[i]] /\ SubSeq(c, 1, Len(a)) = [i \in 1 .. Len(a) |-> c[i]]
  <2>1. c \in Seq(Byte)
    OBVIOUS
  <2> HIDE DEF c
  <2> QED
    BY <1>1, <2>1
<1> HIDE DEF c
<1>3. [i \in 1 .. Len(a) |-> c[i]] = [i \in 1 .. Len(a) |-> a[i]]
  BY <1>1, Zenon
<1>4. IsPrefix(a, c)
  BY <1>1, <1>2, <1>3 DEF IsPrefix
<1>5. b # <<>> => a # c
  BY <1>1
<1> QED
  BY <1>4, <1>5 DEF IsStrictPrefix, c

\* What a writer leaves behind, for an item that is not refused.
LEMMA PartKept ==
  ASSUME NEW item, IsItem(item), NEW sent \in Seq(Byte), NEW buf, NEW limit,
         Unfinished(item, sent, buf, limit)
  PROVE  /\ IsPrefix(sent, buf)
         /\ \/ IsStrictPrefix(buf, sent \o Bytes(item)) /\ limit < Len(sent \o Bytes(item))
            \/ item.kind = "sfix" /\ buf = sent
            \/ NoData(item)
<1>1. sent = sent \o <<>> /\ <<>> \in Seq(Byte)
  OBVIOUS
<1>2. CASE Refuses(item)
  <2>1. buf = sent /\ item.kind = "sfix"
    BY <1>2 DEF Unfinished, Refuses
  <2>2. IsPrefix(sent, sent \o <<>>)
    BY <1>1, PrefixMade
  <2> QED
    BY <1>1, <2>1, <2>2
<1>3. CASE ~Refuses(item)
  <2>1. PICK part \in Seq(Byte), rest \in Seq(Byte) :
          /\ buf = sent \o part /\ Bytes(item) = part \o rest
          /\ NoData(item) \/ (rest # <<>> /\ limit < Len(sent \o Bytes(item)))
    BY <1>3 DEF Unfinished
  <2>2. IsPrefix(sent, sent \o part)
    BY PrefixMade
  <2> DEFINE some == sent \o part
             whole == sent \o (part \o rest)
  <2>3. some \in Seq(Byte) /\ (sent \o part) \o rest = whole
    OBVIOUS
  <2> HIDE DEF some
  <2>4. rest # <<>> => IsStrictPrefix(some, some \o rest)
    BY <2>3, PrefixMade
  <2> HIDE DEF whole
  <2>5. rest # <<>> => IsStrictPrefix(buf, whole)
    BY <2>1, <2>3, <2>4 DEF some
  <2>6. sent \o Bytes(item) = whole
    BY <2>1 DEF whole
  <2> QED
    BY <2>1, <2>2, <2>5, <2>6
<1> QED
  BY <1>2, <1>3

\* The buffer holds the items that were written and less than the whole of the
\* next one, and a writer fails only when its item has no room or its number
\* does not fit: string_writer and the cmp_write_* on it, for any items and
\* any size of buffer.
THEOREM BufferIsKept == Spec => []BufferKept
<1>1. CodecInv => BufferKept
  <2> SUFFICES ASSUME CodecInv PROVE BufferKept
    OBVIOUS
  <2> USE DEF CodecInv
  <2> DEFINE sent == Sent(items, next - 1)
             item == items[next]
  <2>1. sent = FlattenSeq([i \in 1 .. next - 1 |-> Bytes(items[i])])
    BY DEF Sent, Encoded
  <2>2. /\ Len(out) <= size /\ next \in Nat /\ Len(items) \in Nat /\ next <= Len(items) + 1
        /\ items \in Seq(Items) /\ next - 1 \in 0 .. Len(items)
        /\ next <= Len(items) => item \in Items
    BY DEF Types
  <2>3. sent \in Seq(Byte)
    BY <2>2, SentGrows
  <2>4. sent = sent \o <<>> /\ <<>> \in Seq(Byte)
    <3> HIDE DEF sent
    <3> QED
      BY <2>3
  <2> HIDE DEF sent
  <2>5. IsPrefix(sent, sent)
    BY <2>3, <2>4, PrefixMade
  <2>6. CASE next > Len(items)
    <3>1. out = sent
      BY <2>6 DEF Written, sent
    <3>2. ~(next <= Len(items))
      BY <2>2, <2>6
    <3> QED
      BY <2>1, <2>2, <2>5, <3>1, <3>2 DEF BufferKept
  <2>7. CASE next <= Len(items) /\ writing
    <3>1. out = sent
      BY <2>7 DEF Written, sent
    <3>2. IsItem(item) /\ Bytes(item) \in Seq(Byte)
      BY <2>2, <2>7, BytesAreBytes
    <3>3. CASE Refuses(item)
      BY <2>1, <2>2, <2>5, <3>1, <3>3 DEF BufferKept, Refuses
    <3>4. CASE ~Refuses(item)
      <4>1. IsStrictPrefix(sent, sent \o Bytes(item))
        BY <2>3, <3>2, <3>4, ItemWritten, PrefixMade
      <4> QED
        BY <2>1, <2>2, <2>5, <2>7, <3>1, <4>1 DEF BufferKept
    <3> QED
      BY <3>3, <3>4
  <2>8. CASE next <= Len(items) /\ ~writing
    <3>1. Unfinished(item, sent, out, size) /\ IsItem(item)
      BY <2>2, <2>8, BytesAreBytes DEF Written, sent
    <3>2. /\ IsPrefix(sent, out)
          /\ \/ IsStrictPrefix(out, sent \o Bytes(item)) /\ size < Len(sent \o Bytes(item))
             \/ item.kind = "sfix" /\ out = sent
             \/ NoData(item)
      BY <2>3, <3>1, PartKept
    <3> QED
      BY <2>1, <2>2, <3>2 DEF BufferKept
  <2> QED
    BY <2>2, <2>6, <2>7, <2>8
<1> QED
  BY <1>1, CodecInvHolds, PTL

\* The readers find the values that were written, in their order, as far as
\* the buffer had room, and stop only when they have found them all: the
\* cmp_read_* that goes with each cmp_write_*, for any items and any buffer.
THEOREM ReadersFindWhatWasWritten == Spec => []ReadsWhatWasWritten
<1>1. CodecInv => ReadsWhatWasWritten
  <2> SUFFICES ASSUME CodecInv PROVE ReadsWhatWasWritten
    OBVIOUS
  <2> USE DEF CodecInv
  <2>1. ASSUME NEW i \in 1 .. Len(got) PROVE got[i] = items[i].value /\ (i < next \/ NoData(items[i]))
    <3>1. i <= next /\ (i = next => Len(got) = next) /\ i \in Nat /\ next \in Nat
      BY DEF Types, Read
    <3> QED
      BY <3>1 DEF Read
  <2> QED
    BY <2>1 DEF Read, ReadsWhatWasWritten
<1> QED
  BY <1>1, CodecInvHolds, PTL

-----------------------------------------------------------------------------
(* The header of an item that was written *)

LEMMA ItemAlone ==
  ASSUME NEW item, IsItem(item), ~Refuses(item)
  PROVE  ReadObject(Bytes(item), 0)
           = Result(TRUE, Len(HeaderOf(item)), Object(HeaderType(item), HeaderValue(item)))
<1> DEFINE buf == Bytes(item)
           h == HeaderOf(item)
           d == DataOf(item)
           o == Object(HeaderType(item), HeaderValue(item))
           r == ReadObject(buf, 0)
<1>1. buf \in Seq(Byte) /\ h \in Seq(Byte) /\ d \in Seq(Byte) /\ buf = h \o d
  BY ItemWritten
<1>2. Agrees(buf, 0, buf)
  <2> HIDE DEF buf
  <2> QED
    BY <1>1 DEF Agrees
<1>3. Finds(r, buf, 0, h, o)
  BY <1>1, <1>2, ItemRead
<1> HIDE DEF buf, h, d, o, r
<1>4. 0 + Len(h) <= Len(buf) /\ 0 + Len(h) = Len(h)
  BY <1>1
<1>5. r = Result(TRUE, 0 + Len(h), o)
  BY <1>3, <1>4 DEF Finds, Reaches
<1>6. r = Result(TRUE, Len(h), o)
  BY <1>4, <1>5
<1> QED
  BY <1>6 DEF buf, h, o, r

LEMMA SentItem ==
  ASSUME CodecInv, NEW i \in 1 .. next - 1
  PROVE  IsItem(items[i]) /\ ~Refuses(items[i])
<1>1. items[i] \in Items /\ ~Refuses(items[i])
  BY DEF CodecInv, Types, Written
<1> QED
  BY <1>1, BytesAreBytes

\* The header that cmp_read_object reads of an item, cmp_write_object writes
\* again as it was: for every item the writers can be given.
THEOREM WhatIsReadIsWrittenAgain == Spec => []WritesWhatWasRead
<1>1. CodecInv => WritesWhatWasRead
  <2> SUFFICES ASSUME CodecInv, NEW i \in 1 .. next - 1
               PROVE  LET header == ReadObject(Bytes(items[i]), 0)
                      IN  /\ header.ok
                          /\ FlattenSeq(ObjectPieces(header.v)) = SubSeq(Bytes(items[i]), 1, header.at)
    BY Zenon DEF WritesWhatWasRead
  <2> DEFINE item == items[i]
             h == HeaderOf(item)
             o == Object(HeaderType(item), HeaderValue(item))
             header == ReadObject(Bytes(item), 0)
  <2>1. IsItem(item) /\ ~Refuses(item)
    BY SentItem
  <2>2. header = Result(TRUE, Len(h), o)
    BY <2>1, ItemAlone
  <2>3. header.ok = TRUE /\ header.at = Len(h) /\ header.v = o
    BY <2>2 DEF Result
  <2>4. FlattenSeq(ObjectPieces(o)) = h
    BY <2>1, ItemValue, ObjectWritten DEF HeaderOf
  <2>5. SubSeq(Bytes(item), 1, Len(h)) = h
    <3> DEFINE d == DataOf(item)
    <3>1. h \in Seq(Byte) /\ d \in Seq(Byte) /\ Bytes(item) = h \o d
      BY <2>1, ItemWritten
    <3> HIDE DEF h, d
    <3>2. SubSeq(h \o d, 1, Len(h)) = h
      BY <3>1
    <3> QED
      BY <3>1, <3>2
  <2> HIDE DEF header
  <2> QED
    BY <2>3, <2>4, <2>5, Zenon DEF header
<1> QED
  BY <1>1, CodecInvHolds, PTL

-----------------------------------------------------------------------------
(* The ranges of the integers *)

\* Which integers the signed readers take, by the type they came in.
TakesSigned(r, t, n) ==
  t \in SignedReader[r].types \/ (t = SignedReader[r].guarded /\ HasNoSignBit(n, SignedReader[r].width))

LEMMA IntegersRead ==
  ASSUME NEW buf, NEW t, NEW n, NEW e, ReadObject(buf, 0) = Result(TRUE, e, Object(t, n))
  PROVE  /\ \A r : ReadSignedInteger(buf, 0, r).ok <=> TakesSigned(r, t, n)
         /\ \A r : ReadUnsignedInteger(buf, 0, r).ok <=> t \in UnsignedReader[r]
<1> DEFINE o == ReadObject(buf, 0)
<1>1. o.ok = TRUE /\ o.v.type = t /\ o.v.as = n
  BY DEF Result, Object
<1> HIDE DEF o
<1>2. \A x, y : Result(TRUE, x, y).ok /\ ~Failure(x).ok
  BY DEF Failure, Result
<1>3. ASSUME NEW r PROVE ReadSignedInteger(buf, 0, r).ok <=> TakesSigned(r, t, n)
  <2>1. ReadSignedInteger(buf, 0, r) = IF TakesSigned(r, t, n) THEN Result(TRUE, o.at, o.v.as) ELSE Failure(o.at)
    BY <1>1, TypedReaders, Zenon DEF TakesSigned, o
  <2> QED
    BY <1>2, <2>1, Zenon
<1>4. ASSUME NEW r PROVE ReadUnsignedInteger(buf, 0, r).ok <=> t \in UnsignedReader[r]
  <2>1. ReadUnsignedInteger(buf, 0, r) = IF t \in UnsignedReader[r] THEN Result(TRUE, o.at, o.v.as) ELSE Failure(o.at)
    BY <1>1, TypedReaders, Zenon DEF o
  <2> QED
    BY <1>2, <2>1, Zenon
<1> QED
  BY <1>3, <1>4

LEMMA IntegerKinds ==
  ASSUME NEW t, NEW n
  PROVE  /\ DOMAIN SignedReader = {"char", "short", "int", "long"}
         /\ DOMAIN UnsignedReader = {"uchar", "ushort", "uint", "ulong"}
         /\ TakesSigned("char", t, n) <=> t \in {"pfix", "nfix", "s8"} \/ (t = "u8" /\ n[8] < 128)
         /\ TakesSigned("short", t, n) <=> t \in {"pfix", "nfix", "s8", "u8", "s16"} \/ (t = "u16" /\ n[7] < 128)
         /\ TakesSigned("int", t, n) <=>
              t \in {"pfix", "nfix", "s8", "u8", "s16", "u16", "s32"} \/ (t = "u32" /\ n[5] < 128)
         /\ TakesSigned("long", t, n) <=>
              t \in {"pfix", "nfix", "s8", "u8", "s16", "u16", "s32", "u32", "s64"} \/ (t = "u64" /\ n[1] < 128)
         /\ \A r \in DOMAIN SignedReader : AsSigned(Object(t, n), r).ok <=> TakesSigned(r, t, n)
         /\ \A r \in DOMAIN UnsignedReader : AsUnsigned(Object(t, n), r).ok <=> t \in UnsignedReader[r]
<1> DEFINE o == Object(t, n)
<1>1. o.type = t /\ o.as = n
  BY DEF Object
<1> HIDE DEF o
<1>2. DOMAIN SignedReader = {"char", "short", "int", "long"} /\ DOMAIN UnsignedReader = {"uchar", "ushort", "uint", "ulong"}
  BY DEF SignedReader, UnsignedReader
<1>3. /\ \A w : HasNoSignBit(n, w) <=> n[9 - w] < 128
      /\ 9 - 1 = 8 /\ 9 - 2 = 7 /\ 9 - 4 = 5 /\ 9 - 8 = 1
  BY DEF HasNoSignBit
<1>4. /\ HasNoSignBit(n, 1) <=> n[8] < 128
      /\ HasNoSignBit(n, 2) <=> n[7] < 128
      /\ HasNoSignBit(n, 4) <=> n[5] < 128
      /\ HasNoSignBit(n, 8) <=> n[1] < 128
  BY <1>3, Zenon
<1>5. /\ SignedReader["char"].types = {"pfix", "nfix", "s8"}
      /\ SignedReader["short"].types = {"pfix", "nfix", "s8", "u8", "s16"}
      /\ SignedReader["int"].types = {"pfix", "nfix", "s8", "u8", "s16", "u16", "s32"}
      /\ SignedReader["long"].types = {"pfix", "nfix", "s8", "u8", "s16", "u16", "s32", "u32", "s64"}
      /\ SignedReader["char"].guarded = "u8" /\ SignedReader["char"].width = 1
      /\ SignedReader["short"].guarded = "u16" /\ SignedReader["short"].width = 2
      /\ SignedReader["int"].guarded = "u32" /\ SignedReader["int"].width = 4
      /\ SignedReader["long"].guarded = "u64" /\ SignedReader["long"].width = 8
  BY DEF SignedReader
<1>6. /\ TakesSigned("char", t, n) <=> t \in {"pfix", "nfix", "s8"} \/ (t = "u8" /\ n[8] < 128)
      /\ TakesSigned("short", t, n) <=> t \in {"pfix", "nfix", "s8", "u8", "s16"} \/ (t = "u16" /\ n[7] < 128)
      /\ TakesSigned("int", t, n) <=>
           t \in {"pfix", "nfix", "s8", "u8", "s16", "u16", "s32"} \/ (t = "u32" /\ n[5] < 128)
      /\ TakesSigned("long", t, n) <=>
           t \in {"pfix", "nfix", "s8", "u8", "s16", "u16", "s32", "u32", "s64"} \/ (t = "u64" /\ n[1] < 128)
  BY <1>4, <1>5, Zenon DEF TakesSigned
<1>7. /\ IsSignedKind["char"] = {"nfix", "s8"} /\ IsSignedKind["short"] = {"nfix", "s8", "s16"}
      /\ IsSignedKind["int"] = {"nfix", "s8", "s16", "s32"}
      /\ IsSignedKind["long"] = {"nfix", "s8", "s16", "s32", "s64"}
  BY DEF IsSignedKind
<1>8. ASSUME NEW r \in DOMAIN SignedReader PROVE AsSigned(o, r).ok <=> TakesSigned(r, t, n)
  <2> DEFINE G == t = SignedReader[r].guarded /\ HasNoSignBit(n, SignedReader[r].width)
  <2>1. AsSigned(o, r).ok <=> \/ t \in {"pfix"} \cup IsSignedKind[r]
                              \/ r # "char" /\ t = "u8"
                              \/ r \in {"int", "long"} /\ t = "u16"
                              \/ r = "long" /\ t = "u32"
                              \/ G
    BY <1>1, Zenon DEF AsSigned
  <2> HIDE DEF G
  <2>2. (\/ t \in {"pfix"} \cup IsSignedKind[r]
         \/ r # "char" /\ t = "u8"
         \/ r \in {"int", "long"} /\ t = "u16"
         \/ r = "long" /\ t = "u32") <=> t \in SignedReader[r].types
    BY <1>2, <1>5, <1>7
  <2> QED
    BY <2>1, <2>2, Zenon DEF TakesSigned, G
<1>9. ASSUME NEW r \in DOMAIN UnsignedReader PROVE AsUnsigned(o, r).ok <=> t \in UnsignedReader[r]
  <2>1. IsUnsignedKind = UnsignedReader
    BY DEF IsUnsignedKind, UnsignedReader
  <2> QED
    BY <1>1, <2>1, Zenon DEF AsUnsigned
<1> QED
  BY <1>2, <1>6, <1>8, <1>9 DEF o

LEMMA Ranges ==
  ASSUME NEW n \in Bytes8
  PROVE  /\ IsUnsigned(n, 1) => IsUnsigned(n, 2) /\ n[7] < 128
         /\ IsUnsigned(n, 2) => IsUnsigned(n, 4) /\ n[5] < 128
         /\ IsUnsigned(n, 4) => n[1] < 128
         /\ n[1] < 128 => /\ IsSigned(n, 1) <=> IsUnsigned(n, 1) /\ n[8] < 128
                          /\ IsSigned(n, 2) <=> IsUnsigned(n, 2) /\ n[7] < 128
                          /\ IsSigned(n, 4) <=> IsUnsigned(n, 4) /\ n[5] < 128
         /\ n[1] >= 128 => /\ IsSigned(n, 1) => IsSigned(n, 2)
                           /\ IsSigned(n, 2) => IsSigned(n, 4)
<1> DEFINE Up(k, b) == \A i \in 1 .. k : n[i] = b
<1>1. /\ IsUnsigned(n, 1) <=> Up(7, 0)
      /\ IsUnsigned(n, 2) <=> Up(6, 0)
      /\ IsUnsigned(n, 4) <=> Up(4, 0)
  <2>1. 8 - 1 = 7 /\ 8 - 2 = 6 /\ 8 - 4 = 4
    OBVIOUS
  <2> QED
    BY <2>1, FitsUnsigned
<1>2. /\ IsSigned(n, 1) <=> Up(7, Sign(n, 1))
      /\ IsSigned(n, 2) <=> Up(6, Sign(n, 2))
      /\ IsSigned(n, 4) <=> Up(4, Sign(n, 4))
  <2>1. 8 - 1 = 7 /\ 8 - 2 = 6 /\ 8 - 4 = 4
    OBVIOUS
  <2> QED
    BY <2>1, FitsSigned
<1>3. /\ Sign(n, 1) = IF n[8] >= 128 THEN 255 ELSE 0
      /\ Sign(n, 2) = IF n[7] >= 128 THEN 255 ELSE 0
      /\ Sign(n, 4) = IF n[5] >= 128 THEN 255 ELSE 0
  BY DEF Sign
<1>4. \A i \in 1 .. 8 : n[i] \in Nat
  BY DEF Bytes8, Byte
<1>5. /\ \A b : Up(7, b) <=> Up(6, b) /\ n[7] = b
      /\ \A b : Up(6, b) <=> Up(4, b) /\ n[5] = b /\ n[6] = b
      /\ \A b : Up(4, b) => n[1] = b
  <2>1. /\ \A i \in 1 .. 7 : i \in 1 .. 6 \/ i = 7
        /\ \A i \in 1 .. 6 : i \in 1 .. 4 \/ i = 5 \/ i = 6
        /\ \A i \in 1 .. 6 : i \in 1 .. 7
        /\ \A i \in 1 .. 4 : i \in 1 .. 6
        /\ 7 \in 1 .. 7 /\ 6 \in 1 .. 6 /\ 5 \in 1 .. 6 /\ 1 \in 1 .. 4
    OBVIOUS
  <2> QED
    BY <2>1, Zenon
<1> HIDE DEF Up
<1> QED
  BY <1>1, <1>2, <1>3, <1>4, <1>5

\* What the readers take of the first type that holds a number.
LEMMA RangesRead ==
  ASSUME NEW n \in Bytes8, NEW t
  PROVE  /\ FirstUnsigned(n, t) =>
              /\ TakesSigned("char", t, n) <=> n[1] < 128 /\ IsSigned(n, 1)
              /\ TakesSigned("short", t, n) <=> n[1] < 128 /\ IsSigned(n, 2)
              /\ TakesSigned("int", t, n) <=> n[1] < 128 /\ IsSigned(n, 4)
              /\ TakesSigned("long", t, n) <=> n[1] < 128
              /\ t \in UnsignedReader["uchar"] <=> IsUnsigned(n, 1)
              /\ t \in UnsignedReader["ushort"] <=> IsUnsigned(n, 2)
              /\ t \in UnsignedReader["uint"] <=> IsUnsigned(n, 4)
              /\ t \in UnsignedReader["ulong"]
              /\ \A r \in DOMAIN SignedReader : t \notin IsSignedKind[r]
         /\ n[1] >= 128 /\ FirstSigned(n, t) =>
              /\ TakesSigned("char", t, n) <=> IsSigned(n, 1)
              /\ TakesSigned("short", t, n) <=> IsSigned(n, 2)
              /\ TakesSigned("int", t, n) <=> IsSigned(n, 4)
              /\ TakesSigned("long", t, n)
              /\ \A r \in DOMAIN UnsignedReader : t \notin UnsignedReader[r]
              /\ \A r \in DOMAIN SignedReader : t \in IsSignedKind[r] <=> TakesSigned(r, t, n)
<1>1. n[1] \in Nat /\ n[5] \in Nat /\ n[7] \in Nat /\ n[8] \in Nat
  BY DEF Bytes8, Byte
<1>2. /\ UnsignedReader["uchar"] = {"pfix", "u8"} /\ UnsignedReader["ushort"] = {"pfix", "u8", "u16"}
      /\ UnsignedReader["uint"] = {"pfix", "u8", "u16", "u32"}
      /\ UnsignedReader["ulong"] = {"pfix", "u8", "u16", "u32", "u64"}
      /\ IsSignedKind["char"] = {"nfix", "s8"} /\ IsSignedKind["short"] = {"nfix", "s8", "s16"}
      /\ IsSignedKind["int"] = {"nfix", "s8", "s16", "s32"}
      /\ IsSignedKind["long"] = {"nfix", "s8", "s16", "s32", "s64"}
  BY DEF UnsignedReader, IsSignedKind
<1>3. /\ DOMAIN SignedReader = {"char", "short", "int", "long"}
      /\ DOMAIN UnsignedReader = {"uchar", "ushort", "uint", "ulong"}
  BY IntegerKinds
<1> DEFINE u1 == IsUnsigned(n, 1)
           u2 == IsUnsigned(n, 2)
           u4 == IsUnsigned(n, 4)
           s1 == IsSigned(n, 1)
           s2 == IsSigned(n, 2)
           s4 == IsSigned(n, 4)
           c == TakesSigned("char", t, n)
           s == TakesSigned("short", t, n)
           i == TakesSigned("int", t, n)
           l == TakesSigned("long", t, n)
<1>4. /\ u1 => u2 /\ n[7] < 128
      /\ u2 => u4 /\ n[5] < 128
      /\ u4 => n[1] < 128
      /\ n[1] < 128 => (s1 <=> u1 /\ n[8] < 128) /\ (s2 <=> u2 /\ n[7] < 128) /\ (s4 <=> u4 /\ n[5] < 128)
      /\ n[1] >= 128 => (s1 => s2) /\ (s2 => s4)
  BY Ranges
<1>5. /\ c <=> t \in {"pfix", "nfix", "s8"} \/ (t = "u8" /\ n[8] < 128)
      /\ s <=> t \in {"pfix", "nfix", "s8", "u8", "s16"} \/ (t = "u16" /\ n[7] < 128)
      /\ i <=> t \in {"pfix", "nfix", "s8", "u8", "s16", "u16", "s32"} \/ (t = "u32" /\ n[5] < 128)
      /\ l <=> t \in {"pfix", "nfix", "s8", "u8", "s16", "u16", "s32", "u32", "s64"} \/ (t = "u64" /\ n[1] < 128)
  BY IntegerKinds
<1>6. ASSUME FirstUnsigned(n, t)
      PROVE  /\ c <=> n[1] < 128 /\ s1
             /\ s <=> n[1] < 128 /\ s2
             /\ i <=> n[1] < 128 /\ s4
             /\ l <=> n[1] < 128
             /\ t \in UnsignedReader["uchar"] <=> u1
             /\ t \in UnsignedReader["ushort"] <=> u2
             /\ t \in UnsignedReader["uint"] <=> u4
             /\ t \in UnsignedReader["ulong"]
             /\ \A r \in DOMAIN SignedReader : t \notin IsSignedKind[r]
  <2>1. /\ t \in {"pfix", "u8", "u16", "u32", "u64"}
        /\ t = "pfix" => u1 /\ n[8] < 128
        /\ t = "u8" => u1 /\ ~(n[8] < 128)
        /\ t = "u16" => u2 /\ ~u1
        /\ t = "u32" => u4 /\ ~u2
        /\ t = "u64" => ~u4
    BY <1>1, <1>6 DEF FirstUnsigned
  <2> HIDE DEF u1, u2, u4, s1, s2, s4, c, s, i, l
  <2>2. CASE t = "pfix"
    BY <1>2, <1>3, <1>4, <1>5, <2>1, <2>2
  <2>3. CASE t = "u8"
    BY <1>2, <1>3, <1>4, <1>5, <2>1, <2>3
  <2>4. CASE t = "u16"
    BY <1>2, <1>3, <1>4, <1>5, <2>1, <2>4
  <2>5. CASE t = "u32"
    BY <1>2, <1>3, <1>4, <1>5, <2>1, <2>5
  <2>6. CASE t = "u64"
    BY <1>2, <1>3, <1>4, <1>5, <2>1, <2>6
  <2> QED
    BY <2>1, <2>2, <2>3, <2>4, <2>5, <2>6
<1>7. ASSUME n[1] >= 128, FirstSigned(n, t)
      PROVE  /\ c <=> s1
             /\ s <=> s2
             /\ i <=> s4
             /\ l
             /\ \A r \in DOMAIN UnsignedReader : t \notin UnsignedReader[r]
             /\ \A r \in DOMAIN SignedReader : t \in IsSignedKind[r] <=> TakesSigned(r, t, n)
  <2>1. /\ t \in {"nfix", "s8", "s16", "s32", "s64"}
        /\ t \in {"nfix", "s8"} => s1
        /\ t = "s16" => s2 /\ ~s1
        /\ t = "s32" => s4 /\ ~s2
        /\ t = "s64" => ~s4
    BY <1>7 DEF FirstSigned
  <2> HIDE DEF u1, u2, u4, s1, s2, s4, c, s, i, l
  <2>2. (c <=> s1) /\ (s <=> s2) /\ (i <=> s4) /\ l
    BY <1>4, <1>5, <1>7, <2>1
  <2>3. \A r \in DOMAIN UnsignedReader : t \notin UnsignedReader[r]
    BY <1>2, <1>3, <2>1
  <2>4. /\ t \in IsSignedKind["char"] <=> c
        /\ t \in IsSignedKind["short"] <=> s
        /\ t \in IsSignedKind["int"] <=> i
        /\ t \in IsSignedKind["long"] <=> l
    BY <1>2, <1>5, <2>1
  <2>5. \A r \in DOMAIN SignedReader : t \in IsSignedKind[r] <=> TakesSigned(r, t, n)
    BY <1>3, <2>4, Zenon DEF c, s, i, l
  <2> QED
    BY <2>2, <2>3, <2>5
<1> QED
  BY <1>6, <1>7

\* IntegersInRange, of one item.
InRange(item) ==
  LET n == item.value
      buf == Bytes(item)
      o == ReadObject(buf, 0).v
      negative == item.kind = "integer" /\ n[1] >= 128
      fits == [char |-> IsSigned(n, 1), short |-> IsSigned(n, 2), int |-> IsSigned(n, 4),
               long |-> item.kind = "integer" \/ n[1] < 128,
               uchar |-> IsUnsigned(n, 1), ushort |-> IsUnsigned(n, 2),
               uint |-> IsUnsigned(n, 4), ulong |-> TRUE]
  IN  /\ \A r \in DOMAIN SignedReader :
           /\ ReadSignedInteger(buf, 0, r).ok
                <=> fits[r] /\ (item.kind = "integer" \/ n[1] < 128)
           /\ AsSigned(o, r).ok <=> ReadSignedInteger(buf, 0, r).ok
           /\ o.type \in IsSignedKind[r] <=> negative /\ fits[r]
      /\ \A r \in DOMAIN UnsignedReader :
           /\ ReadUnsignedInteger(buf, 0, r).ok <=> fits[r] /\ ~negative
           /\ AsUnsigned(o, r).ok <=> ReadUnsignedInteger(buf, 0, r).ok

LEMMA ItemInRange ==
  ASSUME NEW item, IsItem(item), ~Refuses(item), item.kind \in {"integer", "uinteger"}
  PROVE  InRange(item)
<1> DEFINE n == item.value
           buf == Bytes(item)
           o == ReadObject(buf, 0).v
           t == HeaderType(item)
           signed == item.kind = "integer"
           negative == signed /\ n[1] >= 128
           fits == [char |-> IsSigned(n, 1), short |-> IsSigned(n, 2), int |-> IsSigned(n, 4),
                    long |-> signed \/ n[1] < 128,
                    uchar |-> IsUnsigned(n, 1), ushort |-> IsUnsigned(n, 2),
                    uint |-> IsUnsigned(n, 4), ulong |-> TRUE]
           s(r) == ReadSignedInteger(buf, 0, r).ok
           u(r) == ReadUnsignedInteger(buf, 0, r).ok
<1>1. n \in Bytes8 /\ HeaderValue(item) = n
  BY IsItemOf DEF HeaderValue
<1>2. ReadObject(buf, 0) = Result(TRUE, Len(HeaderOf(item)), Object(t, n))
  BY <1>1, ItemAlone
<1>3. o = Object(t, n) /\ o.type = t
  BY <1>2 DEF Result, Object
<1>4. /\ \A r : s(r) <=> TakesSigned(r, t, n)
      /\ \A r : u(r) <=> t \in UnsignedReader[r]
  BY <1>2, IntegersRead
<1>5. n[1] \in Nat /\ (n[1] >= 128 <=> ~(n[1] < 128))
  BY <1>1 DEF Bytes8, Byte
<1>6. /\ DOMAIN SignedReader = {"char", "short", "int", "long"}
      /\ DOMAIN UnsignedReader = {"uchar", "ushort", "uint", "ulong"}
      /\ \A r \in DOMAIN SignedReader : AsSigned(o, r).ok <=> TakesSigned(r, t, n)
      /\ \A r \in DOMAIN UnsignedReader : AsUnsigned(o, r).ok <=> t \in UnsignedReader[r]
  BY <1>3, IntegerKinds
<1>7. negative \/ ~negative
  OBVIOUS
<1>8. ~negative => FirstUnsigned(n, t)
  <2>1. item.kind = "uinteger" => t = UIntegerType(n)
    BY DEF HeaderType
  <2>2. signed => t = IntegerType(n)
    BY DEF HeaderType
  <2>3. signed /\ n[1] < 128 => t = UIntegerType(n)
    BY <2>2 DEF IntegerType
  <2>4. FirstUnsigned(n, UIntegerType(n))
    BY <1>1, UnsignedFirst
  <2> HIDE DEF t, n
  <2> QED
    BY <1>5, <2>1, <2>3, <2>4
<1>9. negative => FirstSigned(n, t) /\ n[1] >= 128
  <2>1. signed => t = IntegerType(n)
    BY DEF HeaderType
  <2> QED
    BY <1>1, <2>1, SignedFirst
<1>10. /\ fits["char"] <=> IsSigned(n, 1)
       /\ fits["short"] <=> IsSigned(n, 2)
       /\ fits["int"] <=> IsSigned(n, 4)
       /\ fits["long"] <=> signed \/ n[1] < 128
       /\ fits["uchar"] <=> IsUnsigned(n, 1)
       /\ fits["ushort"] <=> IsUnsigned(n, 2)
       /\ fits["uint"] <=> IsUnsigned(n, 4)
       /\ fits["ulong"]
  <2> HIDE DEF n, signed
  <2> QED
    OBVIOUS
<1> HIDE DEF n, buf, o, t, fits, s, u
<1>11. signed => n[1] < 128 \/ n[1] >= 128
  BY <1>5
<1>12. ASSUME ~negative
       PROVE  /\ s("char") <=> fits["char"] /\ (signed \/ n[1] < 128)
              /\ s("short") <=> fits["short"] /\ (signed \/ n[1] < 128)
              /\ s("int") <=> fits["int"] /\ (signed \/ n[1] < 128)
              /\ s("long") <=> fits["long"] /\ (signed \/ n[1] < 128)
              /\ u("uchar") <=> fits["uchar"]
              /\ u("ushort") <=> fits["ushort"]
              /\ u("uint") <=> fits["uint"]
              /\ u("ulong") <=> fits["ulong"]
              /\ \A r \in DOMAIN SignedReader : o.type \notin IsSignedKind[r]
  <2>1. signed \/ n[1] < 128 <=> n[1] < 128
    BY <1>11, <1>12
  <2>2. FirstUnsigned(n, t)
    BY <1>8, <1>12
  <2>3. /\ s("char") <=> n[1] < 128 /\ IsSigned(n, 1)
        /\ s("short") <=> n[1] < 128 /\ IsSigned(n, 2)
        /\ s("int") <=> n[1] < 128 /\ IsSigned(n, 4)
        /\ s("long") <=> n[1] < 128
    BY <1>1, <1>4, <2>2, RangesRead, Zenon
  <2>4. /\ u("uchar") <=> IsUnsigned(n, 1)
        /\ u("ushort") <=> IsUnsigned(n, 2)
        /\ u("uint") <=> IsUnsigned(n, 4)
        /\ u("ulong")
    BY <1>1, <1>4, <2>2, RangesRead, Zenon
  <2>5. \A r \in DOMAIN SignedReader : o.type \notin IsSignedKind[r]
    <3>1. \A r \in DOMAIN SignedReader : t \notin IsSignedKind[r]
      BY <1>1, <2>2, RangesRead, Zenon
    <3> QED
      BY <1>3, <3>1
  <2> HIDE DEF signed
  <2>6. /\ s("char") <=> fits["char"] /\ (signed \/ n[1] < 128)
        /\ s("short") <=> fits["short"] /\ (signed \/ n[1] < 128)
        /\ s("int") <=> fits["int"] /\ (signed \/ n[1] < 128)
        /\ s("long") <=> fits["long"] /\ (signed \/ n[1] < 128)
    BY <1>10, <2>1, <2>3, Zenon
  <2> QED
    BY <1>10, <2>4, <2>5, <2>6, Zenon
<1>13. ASSUME negative
       PROVE  /\ s("char") <=> fits["char"]
              /\ s("short") <=> fits["short"]
              /\ s("int") <=> fits["int"]
              /\ s("long") <=> fits["long"]
              /\ \A r \in DOMAIN UnsignedReader : ~u(r)
              /\ \A r \in DOMAIN SignedReader : o.type \in IsSignedKind[r] <=> s(r)
  <2>1. FirstSigned(n, t) /\ n[1] >= 128 /\ signed
    BY <1>9, <1>13
  <2>2. /\ s("char") <=> IsSigned(n, 1)
        /\ s("short") <=> IsSigned(n, 2)
        /\ s("int") <=> IsSigned(n, 4)
        /\ s("long")
    BY <1>1, <1>4, <2>1, RangesRead, Zenon
  <2>3. \A r \in DOMAIN UnsignedReader : ~u(r)
    BY <1>1, <1>4, <2>1, RangesRead, Zenon
  <2>4. \A r \in DOMAIN SignedReader : o.type \in IsSignedKind[r] <=> s(r)
    <3>1. \A r \in DOMAIN SignedReader : t \in IsSignedKind[r] <=> s(r)
      BY <1>1, <1>4, <2>1, RangesRead, Zenon
    <3> HIDE DEF signed
    <3> QED
      BY <1>3, <3>1
  <2> HIDE DEF signed
  <2> QED
    BY <1>10, <2>1, <2>2, <2>3, <2>4, Zenon
<1>14. ASSUME NEW r \in DOMAIN SignedReader
       PROVE  /\ s(r) <=> fits[r] /\ (signed \/ n[1] < 128)
              /\ AsSigned(o, r).ok <=> s(r)
              /\ o.type \in IsSignedKind[r] <=> negative /\ fits[r]
  <2>1. r = "char" \/ r = "short" \/ r = "int" \/ r = "long"
    BY <1>6
  <2>2. negative => signed
    OBVIOUS
  <2> HIDE DEF negative, signed
  <2>3. CASE negative
    <3>1. s(r) <=> fits[r]
      BY <1>13, <2>1, <2>3, Zenon
    <3> QED
      BY <1>4, <1>6, <1>13, <2>2, <2>3, <3>1, Zenon
  <2>4. CASE ~negative
    <3>1. s(r) <=> fits[r] /\ (signed \/ n[1] < 128)
      BY <1>12, <2>1, <2>4, Zenon
    <3> QED
      BY <1>4, <1>6, <1>12, <2>4, <3>1, Zenon
  <2> QED
    BY <2>3, <2>4
<1>15. ASSUME NEW r \in DOMAIN UnsignedReader
       PROVE  /\ u(r) <=> fits[r] /\ ~negative
              /\ AsUnsigned(o, r).ok <=> u(r)
  <2>1. r = "uchar" \/ r = "ushort" \/ r = "uint" \/ r = "ulong"
    BY <1>6
  <2> HIDE DEF negative, signed
  <2>2. CASE negative
    BY <1>4, <1>6, <1>13, <2>2, Zenon
  <2>3. CASE ~negative
    <3>1. u(r) <=> fits[r]
      BY <1>12, <2>1, <2>3, Zenon
    <3> QED
      BY <1>4, <1>6, <2>3, <3>1, Zenon
  <2> QED
    BY <2>2, <2>3
<1> QED
  BY <1>14, <1>15, Zenon DEF InRange, n, buf, o, fits, s, u

\* An integer reader takes a number exactly when it is in the range of its
\* result, whatever the type its writer chose, and cmp_object_as_<type> and
\* cmp_object_is_<type> agree with it: for every 64-bit number.
THEOREM IntegersAreInRange == Spec => []IntegersInRange
<1>1. CodecInv => IntegersInRange
  <2> SUFFICES ASSUME CodecInv, NEW i \in 1 .. next - 1, items[i].kind \in {"integer", "uinteger"}
               PROVE  InRange(items[i])
    BY Zenon DEF IntegersInRange, InRange
  <2>1. IsItem(items[i]) /\ ~Refuses(items[i])
    BY SentItem
  <2> QED
    BY <2>1, ItemInRange, Zenon
<1> QED
  BY <1>1, CodecInvHolds, PTL

-----------------------------------------------------------------------------
(* The kinds of the objects *)

Integral == {"pfix", "nfix"} \cup Unsigned \cup Signed

\* An object is an integer or of exactly one of the other kinds.
LEMMA OneKind ==
  ASSUME NEW t, NEW x, IsValue(t, x)
  PROVE  /\ DOMAIN IsOtherKind = {"float", "double", "nil", "bool", "str", "bin", "array", "map", "ext"}
         /\ t \in Integral => \A k \in DOMAIN IsOtherKind : t \notin IsOtherKind[k]
         /\ t \notin Integral => \E k \in DOMAIN IsOtherKind : t \in IsOtherKind[k]
         /\ \A k, l \in DOMAIN IsOtherKind : t \in IsOtherKind[k] /\ t \in IsOtherKind[l] => k = l
<1>1. DOMAIN IsOtherKind = {"float", "double", "nil", "bool", "str", "bin", "array", "map", "ext"}
  BY DEF IsOtherKind
<1>2. Fixexts = {"fixext1", "fixext2", "fixext4", "fixext8", "fixext16"}
  BY DEF Fixexts, Fixext
<1>3. Integral = {"pfix", "nfix", "u8", "u16", "u32", "u64", "s8", "s16", "s32", "s64"}
  BY DEF Integral, Unsigned, Signed
<1>4. /\ IsOtherKind["float"] = {"float"} /\ IsOtherKind["double"] = {"double"}
      /\ IsOtherKind["nil"] = {"nil"} /\ IsOtherKind["bool"] = {"boolean"}
      /\ IsOtherKind["str"] = {"fixstr", "str8", "str16", "str32"}
      /\ IsOtherKind["bin"] = {"bin8", "bin16", "bin32"}
      /\ IsOtherKind["array"] = {"fixarray", "array16", "array32"}
      /\ IsOtherKind["map"] = {"fixmap", "map16", "map32"}
      /\ IsOtherKind["ext"] = {"ext8", "ext16", "ext32", "fixext1", "fixext2", "fixext4", "fixext8", "fixext16"}
  <2>1. IsOtherKind["ext"] = Exts \cup Fixexts
    BY DEF IsOtherKind
  <2>2. IsOtherKind["ext"] = {"ext8", "ext16", "ext32", "fixext1", "fixext2", "fixext4", "fixext8", "fixext16"}
    BY <1>2, <2>1 DEF Exts
  <2>3. /\ IsOtherKind["str"] = Strs /\ IsOtherKind["bin"] = Bins
        /\ IsOtherKind["array"] = Arrays /\ IsOtherKind["map"] = Maps
        /\ IsOtherKind["float"] = {"float"} /\ IsOtherKind["double"] = {"double"}
        /\ IsOtherKind["nil"] = {"nil"} /\ IsOtherKind["bool"] = {"boolean"}
    BY DEF IsOtherKind
  <2> QED
    BY <2>2, <2>3 DEF Strs, Bins, Arrays, Maps
<1>5. \/ t \in Integral \/ t \in {"float", "double", "nil", "boolean"}
      \/ t \in {"fixstr", "str8", "str16", "str32"} \/ t \in {"bin8", "bin16", "bin32"}
      \/ t \in {"fixarray", "array16", "array32"} \/ t \in {"fixmap", "map16", "map32"}
      \/ t \in {"ext8", "ext16", "ext32", "fixext1", "fixext2", "fixext4", "fixext8", "fixext16"}
  <2>1. t \in Small \cup (DOMAIN Marker \ {"nil", "false", "true"})
    BY ObjectKinds
  <2> QED
    BY <1>2, <1>3, <2>1, MarkerTypes DEF Small, Unsigned, Signed, Strs, Bins, Arrays, Maps, Exts
<1>6. t \in Integral => \A k \in DOMAIN IsOtherKind : t \notin IsOtherKind[k]
  BY <1>1, <1>3, <1>4
<1>7. t \notin Integral => \E k \in DOMAIN IsOtherKind : t \in IsOtherKind[k]
  BY <1>1, <1>4, <1>5
<1>8. ASSUME NEW k \in DOMAIN IsOtherKind, NEW l \in DOMAIN IsOtherKind, t \in IsOtherKind[k], t \in IsOtherKind[l]
      PROVE  k = l
  BY <1>1, <1>4, <1>8
<1> QED
  BY <1>1, <1>6, <1>7, <1>8

LEMMA KindsTaken ==
  ASSUME NEW buf, NEW t, NEW x, NEW e, ReadObject(buf, 0) = Result(TRUE, e, Object(t, x)),
         NEW k \in DOMAIN IsOtherKind
  PROVE  Typed(buf, k).ok <=> t \in IsOtherKind[k]
<1> DEFINE r == ReadObject(buf, 0)
           Takes(accepts) == IF accepts THEN Result(TRUE, e, x) ELSE Failure(e)
<1>1. r.ok = TRUE /\ r.at = e /\ r.v.type = t /\ r.v.as = x
  BY DEF Result, Object
<1>2. /\ \A a : ReadExactly(buf, 0, a) = Takes(t = a)
      /\ ReadStrSize(buf, 0) = Takes(t \in Strs)
      /\ ReadBinSize(buf, 0) = Takes(t \in Bins)
      /\ ReadArray(buf, 0) = Takes(t \in Arrays)
      /\ ReadMap(buf, 0) = Takes(t \in Maps)
      /\ ReadExtMarker(buf, 0) = Takes(t \in Exts \cup Fixexts)
  <2> HIDE DEF r
  <2> QED
    BY <1>1, TypedReaders, Zenon DEF r
<1>3. k \in {"float", "double", "nil", "bool", "str", "bin", "array", "map", "ext"}
  BY DEF IsOtherKind
<1>4. /\ IsOtherKind["float"] = {"float"} /\ IsOtherKind["double"] = {"double"}
      /\ IsOtherKind["nil"] = {"nil"} /\ IsOtherKind["bool"] = {"boolean"}
      /\ IsOtherKind["str"] = Strs /\ IsOtherKind["bin"] = Bins
      /\ IsOtherKind["array"] = Arrays /\ IsOtherKind["map"] = Maps /\ IsOtherKind["ext"] = Exts \cup Fixexts
  BY DEF IsOtherKind
<1>5. /\ k = "float" => Typed(buf, k) = ReadExactly(buf, 0, "float")
      /\ k = "double" => Typed(buf, k) = ReadExactly(buf, 0, "double")
      /\ k = "nil" => Typed(buf, k) = ReadExactly(buf, 0, "nil")
      /\ k = "bool" => Typed(buf, k) = ReadExactly(buf, 0, "boolean")
      /\ k = "str" => Typed(buf, k) = ReadStrSize(buf, 0)
      /\ k = "bin" => Typed(buf, k) = ReadBinSize(buf, 0)
      /\ k = "array" => Typed(buf, k) = ReadArray(buf, 0)
      /\ k = "map" => Typed(buf, k) = ReadMap(buf, 0)
      /\ k = "ext" => Typed(buf, k) = ReadExtMarker(buf, 0)
  BY DEF Typed, ReadSingle
<1>6. Result(TRUE, e, x).ok = TRUE /\ Failure(e).ok = FALSE
  BY DEF Failure, Result
<1>7. t \in IsOtherKind[k] => Typed(buf, k) = Result(TRUE, e, x)
  BY <1>2, <1>3, <1>4, <1>5
<1>8. ASSUME t \notin IsOtherKind[k] PROVE Typed(buf, k) = Failure(e)
  <2>1. CASE k = "float" \/ k = "double"
    <3>1. t # k
      BY <1>4, <1>8, <2>1
    <3>2. Typed(buf, k) = ReadExactly(buf, 0, k)
      BY <1>5, <2>1
    <3> QED
      BY <1>2, <3>1, <3>2
  <2>2. CASE k = "nil" \/ k = "bool"
    BY <1>2, <1>4, <1>5, <1>8, <2>2
  <2>3. CASE k = "str" \/ k = "bin"
    BY <1>2, <1>4, <1>5, <1>8, <2>3
  <2>4. CASE k = "array" \/ k = "map" \/ k = "ext"
    BY <1>2, <1>4, <1>5, <1>8, <2>4
  <2> QED
    BY <1>3, <2>1, <2>2, <2>3, <2>4
<1> QED
  BY <1>6, <1>7, <1>8

\* The length in the header of a string or of a binary is that of its data,
\* when it is written with them.
LEMMA DataBound ==
  ASSUME NEW item, IsItem(item), ~Refuses(item), HeaderType(item) \in Strs \cup Bins
  PROVE  HeaderValue(item) \in Nat /\ Len(DataOf(item)) <= HeaderValue(item)
<1> DEFINE k == item.kind
           v == item.value
           t == HeaderType(item)
           x == HeaderValue(item)
<1>1. x \in Nat
  <2>1. IsValue(t, x) /\ t \in Strs \cup Bins
    BY ItemValue
  <2> HIDE DEF t, x
  <2>2. t = "fixstr" => x \in 0 .. 31
    <3>1. "fixstr" \in DOMAIN FixSize /\ FixSize["fixstr"] = 31
      BY DEF FixSize
    <3>2. t \in DOMAIN FixSize => x \in 0 .. FixSize[t]
      BY <2>1, ObjectKinds
    <3> QED
      BY <3>1, <3>2
  <2>3. t # "fixstr" => LengthFits(x, Width[t])
    BY <2>1, ObjectKinds
  <2> QED
    BY <2>2, <2>3 DEF LengthFits
<1>2. CASE k \in {"str", "strv4", "bin"}
  <2>1. v \in Seq(Byte) /\ x = Len(v) /\ DataOf(item) = v
    BY <1>2, IsItemOf DEF HeaderValue, DataOf
  <2> HIDE DEF v
  <2> QED
    BY <1>1, <2>1
<1>3. CASE k = "ext"
  <2>1. LengthFits(Len(v) - 1, 4) /\ v \in Seq(Byte) /\ v # <<>>
    BY <1>3, IsItemOf
  <2>2. Len(Tail(v)) = Len(v) - 1 /\ v[1] \in Byte
    BY <2>1
  <2>3. t = ExtTypeOf(Len(Tail(v)))
    BY <1>3 DEF HeaderType
  <2>4. t \in Exts \cup Fixexts
    BY <2>1, <2>2, <2>3, LengthTypes
  <2>5. Fixexts = {"fixext1", "fixext2", "fixext4", "fixext8", "fixext16"}
    BY DEF Fixexts, Fixext
  <2> HIDE DEF t
  <2>6. FALSE
    BY <2>4, <2>5 DEF t, Exts, Strs, Bins
  <2> QED
    BY <2>6
<1>4. CASE k \notin {"str", "strv4", "bin", "ext"}
  <2>1. DataOf(item) = <<>> /\ Len(<<>>) = 0
    BY <1>4 DEF DataOf
  <2> QED
    BY <1>1, <2>1
<1> QED
  BY <1>2, <1>3, <1>4

\* KindsAgree, of one item.
KindsOf(item) ==
  LET buf == Bytes(item)
      header == ReadObject(buf, 0)
      o == header.v
      integer == AsSigned(o, "long").ok \/ AsUnsigned(o, "ulong").ok
      takes == {k \in DOMAIN IsOtherKind : Typed(buf, k).ok}
      data == Len(buf) - header.at
  IN  /\ IF integer THEN takes = {} ELSE \E k \in takes : takes = {k}
      /\ \A k \in DOMAIN IsOtherKind : AsOther(o, k).ok <=> k \in takes
      /\ ReadStr(buf, 0).ok => /\ ToStr(buf, header.at, o, data + 1) = ReadStr(buf, 0)
                               /\ ~ToStr(buf, header.at, o, data).ok
      /\ ReadBin(buf, 0, data).ok => ToBin(buf, header.at, o, data) = ReadBin(buf, 0, data)
      /\ o.type \in Fixexts => ReadFixext(buf, 0, o.type) = ReadExt(buf, 0)
      /\ o.type \in Exts => ReadSizedExt(buf, 0, o.type) = ReadExt(buf, 0)

LEMMA ItemKinds ==
  ASSUME NEW item, IsItem(item), ~Refuses(item)
  PROVE  KindsOf(item)
<1> DEFINE buf == Bytes(item)
           t == HeaderType(item)
           x == HeaderValue(item)
           header == ReadObject(buf, 0)
           o == header.v
           e == Len(HeaderOf(item))
           integer == AsSigned(o, "long").ok \/ AsUnsigned(o, "ulong").ok
           takes == {k \in DOMAIN IsOtherKind : Typed(buf, k).ok}
           data == Len(buf) - header.at
           str == ReadStr(buf, 0)
           bin == ReadBin(buf, 0, data)
           there == Take(buf, e, x)
<1>1. IsValue(t, x)
  BY ItemValue
<1>2. header = Result(TRUE, e, Object(t, x))
  BY ItemAlone
<1>3. header.ok = TRUE /\ header.at = e /\ o = Object(t, x) /\ o.type = t /\ o.as = x
  BY <1>2 DEF Result, Object
<1>4. /\ Len(buf) \in Nat /\ e \in Nat /\ e <= Len(buf) /\ data \in Nat /\ data = Len(buf) - e
      /\ Len(DataOf(item)) = data
  <2> DEFINE h == HeaderOf(item)
             d == DataOf(item)
  <2>1. h \in Seq(Byte) /\ d \in Seq(Byte) /\ buf = h \o d
    BY ItemWritten
  <2> HIDE DEF h, d, header
  <2>2. Len(h \o d) = Len(h) + Len(d) /\ Len(h) \in Nat /\ Len(d) \in Nat
    BY <2>1
  <2>3. Len(buf) = Len(h) + Len(d) /\ e = Len(h) /\ header.at = e
    BY <1>3, <2>1, <2>2 DEF h
  <2> HIDE DEF buf, e
  <2> QED
    BY <2>2, <2>3 DEF d
<1>5. t \in Strs \cup Bins => x \in Nat /\ data <= x
  BY <1>4, DataBound
<1>6. \A k \in DOMAIN IsOtherKind : k \in takes <=> t \in IsOtherKind[k]
  BY <1>2, KindsTaken
<1>7. integer <=> t \in Integral
  <2>1. integer <=> TakesSigned("long", t, x) \/ t \in UnsignedReader["ulong"]
    BY <1>3, IntegerKinds
  <2>2. UnsignedReader["ulong"] = {"pfix", "u8", "u16", "u32", "u64"}
    BY DEF UnsignedReader
  <2>3. TakesSigned("long", t, x) <=>
          t \in {"pfix", "nfix", "s8", "u8", "s16", "u16", "s32", "u32", "s64"} \/ (t = "u64" /\ x[1] < 128)
    BY IntegerKinds
  <2> HIDE DEF t, x, integer
  <2> QED
    BY <2>1, <2>2, <2>3 DEF Integral, Unsigned, Signed
<1>8. \A k \in DOMAIN IsOtherKind : AsOther(o, k).ok <=> t \in IsOtherKind[k]
  BY <1>3, Zenon DEF AsOther
<1>9. /\ ReadStrSize(buf, 0) = IF t \in Strs THEN Result(TRUE, e, x) ELSE Failure(e)
      /\ ReadBinSize(buf, 0) = IF t \in Bins THEN Result(TRUE, e, x) ELSE Failure(e)
      /\ ReadExtMarker(buf, 0) = IF t \in Exts \cup Fixexts THEN Result(TRUE, e, x) ELSE Failure(e)
      /\ ReadExactly(buf, 0, t) = Result(TRUE, e, x)
  <2> HIDE DEF header
  <2> QED
    BY <1>3, TypedReaders, Zenon DEF header
<1>10. /\ Failure(e).ok = FALSE /\ Result(TRUE, e, x).ok = TRUE
       /\ Result(TRUE, e, x).at = e /\ Result(TRUE, e, x).v = x
  BY DEF Failure, Result
<1>11. there.ok => e + x <= Len(buf) \/ x \notin Nat
  <2> HIDE DEF buf, e, x
  <2>1. CASE e + x > Len(buf)
    <3>1. there = Failure(e)
      BY <2>1 DEF Take
    <3> QED
      BY <3>1 DEF Failure, Result
  <2>2. CASE ~(e + x > Len(buf))
    BY <1>4, <2>2
  <2> QED
    BY <2>1, <2>2
<1> HIDE DEF header, o, buf, t, x, e, data, integer, takes, there
<1>12. IF integer THEN takes = {} ELSE \E k \in takes : takes = {k}
  <2>1. takes \subseteq DOMAIN IsOtherKind
    BY DEF takes
  <2>2. CASE integer
    <3>1. \A k \in DOMAIN IsOtherKind : t \notin IsOtherKind[k]
      BY <1>1, <1>7, <2>2, OneKind
    <3> QED
      BY <1>6, <2>1, <2>2, <3>1
  <2>3. CASE ~integer
    <3>1. PICK k \in DOMAIN IsOtherKind : t \in IsOtherKind[k]
      BY <1>1, <1>7, <2>3, OneKind
    <3>2. \A l \in DOMAIN IsOtherKind : t \in IsOtherKind[l] => l = k
      BY <1>1, <3>1, OneKind
    <3>3. k \in takes /\ takes = {k}
      BY <1>6, <2>1, <3>1, <3>2
    <3> QED
      BY <2>3, <3>3
  <2> QED
    BY <2>2, <2>3
<1>13. ASSUME str.ok PROVE ToStr(buf, e, o, data + 1) = str /\ ~ToStr(buf, e, o, data).ok
  <2>1. str = Sized(ReadStrSize(buf, 0), buf)
    BY DEF ReadStr
  <2> HIDE DEF str
  <2>2. t \in Strs
    <3>1. t \notin Strs => str = Failure(e)
      BY <1>9, <1>10, <2>1, Zenon DEF Sized
    <3> QED
      BY <1>10, <1>13, <3>1
  <2>3. str = there
    BY <1>9, <1>10, <2>1, <2>2, Zenon DEF Sized, there
  <2>4. x + 1 <= data + 1 /\ ~(x + 1 <= data)
    BY <1>4, <1>5, <1>11, <1>13, <2>2, <2>3
  <2>5. ToStr(buf, e, o, data + 1) = there
    BY <1>3, <2>2, <2>4, Zenon DEF ToStr, there
  <2>6. ToStr(buf, e, o, data) = Failure(e)
    BY <1>3, <2>2, <2>4, Zenon DEF ToStr
  <2> QED
    BY <1>10, <2>3, <2>5, <2>6
<1>14. ASSUME bin.ok PROVE ToBin(buf, e, o, data) = bin
  <2> DEFINE size0 == ReadBinSize(buf, 0)
             some == Bounded(size0, data)
  <2>1. bin = Sized(some, buf)
    BY DEF ReadBin
  <2> HIDE DEF bin, size0
  <2>2. t \in Bins /\ ~(x > data)
    <3>1. t \notin Bins => some = Failure(e)
      BY <1>9, <1>10, Zenon DEF Bounded, size0
    <3>2. t \in Bins /\ x > data => some = Failure(e)
      BY <1>9, <1>10, Zenon DEF Bounded, size0
    <3>3. some = Failure(e) => bin.ok = FALSE
      BY <1>10, <2>1, Zenon DEF Sized
    <3> QED
      BY <1>14, <3>1, <3>2, <3>3
  <2>3. some = Result(TRUE, e, x)
    BY <1>9, <1>10, <2>2, Zenon DEF Bounded, size0
  <2> HIDE DEF some
  <2>4. bin = there
    BY <1>10, <2>1, <2>3, Zenon DEF Sized, there
  <2>5. x <= data
    BY <1>4, <1>5, <2>2
  <2> QED
    BY <1>3, <2>2, <2>4, <2>5, Zenon DEF ToBin, there
<1>15. t \in Fixexts => ReadFixext(buf, 0, t) = ReadExt(buf, 0)
  BY <1>9 DEF ReadFixext, ReadExt
<1>16. t \in Exts => ReadSizedExt(buf, 0, t) = ReadExt(buf, 0)
  BY <1>9 DEF ReadSizedExt, ReadExt
<1>17. \A k \in DOMAIN IsOtherKind : AsOther(o, k).ok <=> k \in takes
  BY <1>6, <1>8
<1>18. header.at = e /\ o.type = t
  BY <1>3
<1>19. /\ str.ok => /\ ToStr(buf, header.at, o, data + 1) = str
                    /\ ~ToStr(buf, header.at, o, data).ok
       /\ bin.ok => ToBin(buf, header.at, o, data) = bin
       /\ o.type \in Fixexts => ReadFixext(buf, 0, o.type) = ReadExt(buf, 0)
       /\ o.type \in Exts => ReadSizedExt(buf, 0, o.type) = ReadExt(buf, 0)
  BY <1>13, <1>14, <1>15, <1>16, <1>18, Zenon
<1> QED
  BY <1>12, <1>17, <1>19, Zenon DEF KindsOf, buf, header, o, integer, takes, data

\* An object is of one kind, and the typed readers, cmp_object_is_<kind>,
\* cmp_object_as_<kind> and cmp_object_to_str and to_bin agree on which: for
\* every item the writers can be given.
THEOREM TheKindsAgree == Spec => []KindsAgree
<1>1. CodecInv => KindsAgree
  <2> SUFFICES ASSUME CodecInv, NEW i \in 1 .. next - 1 PROVE KindsOf(items[i])
    BY Zenon DEF KindsAgree, KindsOf
  <2> QED
    BY SentItem, ItemKinds
<1> QED
  BY <1>1, CodecInvHolds, PTL
=============================================================================
