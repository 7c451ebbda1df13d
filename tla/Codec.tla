--------------------------------- MODULE Codec ---------------------------------
(***************************************************************************)
(* A context of cmp.c, used the way both daemons use it: cmp_init on a     *)
(* buffer of some size, a call of a writer for each item until one fails;  *)
(* the bytes that were written (writer_offset of them) are published; at   *)
(* the other end cmp_init on as many bytes as were received, and a call of *)
(* a reader for each item until one fails.                                 *)
(***************************************************************************)
EXTENDS MessagePackReader

CONSTANTS
  Items,   \* the items, each [kind |-> ..., value |-> a sequence of numbers]
  Sizes,   \* the sizes of the buffer
  MaxItems \* the items of one message

ASSUME CodecAssumption == Sizes \subseteq Nat /\ MaxItems \in Nat

VARIABLES
  size,    \* the size of the buffer
  items,   \* what is to be written
  next,    \* the item that is written next
  out,     \* the buffer, up to writer_offset
  writing, \* no writer has failed yet, and there are items left
  at,      \* reader_offset
  got,     \* the values that were read
  reading  \* the message is published, and no reader has failed yet

vars == <<size, items, next, out, writing, at, got, reading>>

-----------------------------------------------------------------------------
(* Items *)

\* The object of an item that is written with cmp_write_object.
ToObject(item) ==
  LET v == item.value
  IN  Object(item.kind,
        CASE item.kind \in {"pfix", "nfix", "float", "double"} \cup Signed \cup Unsigned -> v
          [] item.kind \in Strs \cup Bins \cup Arrays \cup Maps \cup {"nil"} -> v[1]
          [] item.kind = "boolean" -> v[1] = 1
          [] item.kind \in Exts \cup Fixexts -> [size |-> v[1], type |-> v[2]])

\* And the value of an object that was read.
FromObject(o) ==
  CASE o.type \in {"pfix", "nfix", "float", "double"} \cup Signed \cup Unsigned -> o.as
    [] o.type \in Strs \cup Bins \cup Arrays \cup Maps \cup {"nil"} -> <<o.as>>
    [] o.type = "boolean" -> <<IF o.as THEN 1 ELSE 0>>
    [] o.type \in Exts \cup Fixexts -> <<o.as.size, o.as.type>>

\* The pieces an item is written in: a long string header by
\* cmp_write_object_v4, any other header by cmp_write_object.
Pieces(item) ==
  LET v == item.value
  IN  CASE item.kind = "integer"  -> WriteInteger(v)
        [] item.kind = "uinteger" -> WriteUInteger(v)
        [] item.kind = "sfix"     -> WriteSfix(v)
        [] item.kind = "str"      -> WriteStr(v)
        [] item.kind = "strv4"    -> WriteStrV4(v)
        [] item.kind = "bin"      -> WriteBin(v)
        [] item.kind = "array"    -> WriteArray(v[1])
        [] item.kind = "map"      -> WriteMap(v[1])
        [] item.kind = "ext"      -> WriteExt(v[1], Tail(v))
        [] item.kind = "decimal"  -> WriteDecimal(v)
        [] item.kind = "nil"      -> WriteNil
        [] item.kind = "boolean"  -> WriteBool(v[1] = 1)
        [] item.kind \in {"str16", "str32"} -> ObjectPiecesV4(ToObject(item))
        [] OTHER                  -> ObjectPieces(ToObject(item))

\* The reader that goes with the writer.
ReadItem(buf, offset, item) ==
  LET k == item.kind
  IN  CASE k = "integer"        -> ReadSignedInteger(buf, offset, "long")
        [] k = "uinteger"       -> ReadUnsignedInteger(buf, offset, "ulong")
        [] k = "sfix"           -> ReadSfix(buf, offset)
        [] k \in {"str", "strv4"} -> ReadStr(buf, offset)
        [] k = "bin"            -> ReadBin(buf, offset, Len(item.value))
        [] k = "array"          -> Then(ReadArray(buf, offset), LAMBDA n : <<n>>)
        [] k = "map"            -> Then(ReadMap(buf, offset), LAMBDA n : <<n>>)
        [] k = "decimal"        -> ReadDecimal(buf, offset)
        [] k = "ext"            -> Then(ReadExt(buf, offset), LAMBDA e : <<e[1]>> \o e[2])
        [] OTHER                -> Then(ReadObject(buf, offset), FromObject)

-----------------------------------------------------------------------------
(* What may be asked of the writers *)

\* The items whose value is one of the arguments of their writer.
IsItem(item) ==
  LET k == item.kind
      v == item.value
  IN  \/ k \in {"integer", "uinteger"} /\ v \in [1 .. 8 -> Byte]
      \/ k = "sfix" /\ v \in [1 .. 8 -> Byte] /\ IsSigned(v, 1)
      \/ k \in {"str", "strv4", "bin"} /\ v \in Seq(Byte) /\ LengthFits(Len(v), 4)
      \/ k \in {"array", "map"} /\ v = <<v[1]>> /\ LengthFits(v[1], 4)
      \/ k = "ext" /\ v \in Seq(Byte) /\ v # <<>> /\ LengthFits(Len(v) - 1, 4)
      \/ k = "decimal" /\ (v \in [1 .. 4 -> Byte] \/ v \in [1 .. 8 -> Byte])
      \/ /\ k \notin {"integer", "uinteger", "sfix", "str", "strv4", "bin", "array", "map", "ext", "decimal"}
         /\ IsValue(k, ToObject(item).as) /\ v = FromObject(ToObject(item))

ASSUME ItemsAssumption == \A item \in Items : IsItem(item)

-----------------------------------------------------------------------------

Init ==
  /\ size \in Sizes
  /\ items \in UNION {[1 .. n -> Items] : n \in 1 .. MaxItems}
  /\ next = 1
  /\ out = <<>>
  /\ writing = TRUE
  /\ at = 0
  /\ got = <<>>
  /\ reading = FALSE

\* One call of a writer: the code returns from its handler when it fails.
WriteItem ==
  /\ writing
  /\ LET w == Write(out, size, Pieces(items[next]))
     IN  /\ out' = w.out
         /\ next' = IF w.ok THEN next + 1 ELSE next
         /\ writing' = (w.ok /\ next < Len(items))
         /\ reading' = (~w.ok \/ next = Len(items))
  /\ UNCHANGED <<size, items, at, got>>

\* One call of a reader.
ReadNext ==
  /\ reading
  /\ LET r == ReadItem(out, at, items[Len(got) + 1])
     IN  /\ at' = r.at
         /\ got' = IF r.ok THEN Append(got, r.v) ELSE got
         /\ reading' = (r.ok /\ Len(got) + 1 < Len(items))
  /\ UNCHANGED <<size, items, next, out, writing>>

Next == WriteItem \/ ReadNext

Spec == Init /\ [][Next]_vars

-----------------------------------------------------------------------------
(* Properties *)

\* An extension of no data, which is refused when all its bytes are written.
NoData(item) == item.kind = "ext" /\ Len(item.value) = 1

\* string_writer never writes past the buffer, and the writer that fails
\* leaves only a beginning of its item behind: what is in the buffer is the
\* items that were written, and less than the whole of the next one.  And a
\* writer fails only when the buffer has no room for its item, or its number
\* does not fit in the type that was asked for.
Bytes(item) == FlattenSeq(Pieces(item))
BufferKept ==
  LET sent == FlattenSeq([i \in 1 .. next - 1 |-> Bytes(items[i])])
  IN  /\ Len(out) <= size
      /\ IsPrefix(sent, out)
      /\ next <= Len(items) =>
           \/ /\ IsStrictPrefix(out, sent \o Bytes(items[next]))
              /\ writing \/ size < Len(sent \o Bytes(items[next]))
           \/ items[next].kind = "sfix" /\ out = sent
           \/ NoData(items[next])

\* The readers find again, in their order, the values the writers were given,
\* whatever the buffer had room for; and when they have stopped they have
\* found every item that was written, and nothing else.
ReadsWhatWasWritten ==
  /\ \A i \in 1 .. Len(got) :
       got[i] = items[i].value /\ (i < next \/ NoData(items[i]))
  /\ ~writing /\ ~reading => Len(got) >= next - 1

\* Every integer reader accepts an integer exactly when it is in the range of
\* its result, however the integer was written, and cmp_object_as_<type> and
\* cmp_object_is_<type> agree with it on the object itself.
IntegersInRange ==
  \A i \in 1 .. next - 1 :
    LET n == items[i].value
        buf == Bytes(items[i])
        o == ReadObject(buf, 0).v
        negative == items[i].kind = "integer" /\ n[1] >= 128
        fits == [char |-> IsSigned(n, 1), short |-> IsSigned(n, 2), int |-> IsSigned(n, 4),
                 long |-> items[i].kind = "integer" \/ n[1] < 128,
                 uchar |-> IsUnsigned(n, 1), ushort |-> IsUnsigned(n, 2),
                 uint |-> IsUnsigned(n, 4), ulong |-> TRUE]
    IN  items[i].kind \in {"integer", "uinteger"} =>
          /\ \A r \in DOMAIN SignedReader :
               /\ ReadSignedInteger(buf, 0, r).ok
                    <=> fits[r] /\ (items[i].kind = "integer" \/ n[1] < 128)
               /\ AsSigned(o, r).ok <=> ReadSignedInteger(buf, 0, r).ok
               /\ o.type \in IsSignedKind[r] <=> negative /\ fits[r]
          /\ \A r \in DOMAIN UnsignedReader :
               /\ ReadUnsignedInteger(buf, 0, r).ok <=> fits[r] /\ ~negative
               /\ AsUnsigned(o, r).ok <=> ReadUnsignedInteger(buf, 0, r).ok

\* An object is of one kind: of all the typed readers, only those for the
\* kind of what was written take it, cmp_object_is_<kind> and
\* cmp_object_as_<kind> say the same, and cmp_object_to_str and to_bin read
\* what cmp_read_str and cmp_read_bin read, when there is as much room.
Typed(buf, kind) ==
  CASE kind \in {"float", "double"} -> ReadExactly(buf, 0, kind)
    [] kind = "nil" -> ReadSingle(buf, 0, "nil")
    [] kind = "bool" -> ReadSingle(buf, 0, "boolean")
    [] kind = "str" -> ReadStrSize(buf, 0)
    [] kind = "bin" -> ReadBinSize(buf, 0)
    [] kind = "array" -> ReadArray(buf, 0)
    [] kind = "map" -> ReadMap(buf, 0)
    [] kind = "ext" -> ReadExtMarker(buf, 0)

KindsAgree ==
  \A i \in 1 .. next - 1 :
    LET buf == Bytes(items[i])
        header == ReadObject(buf, 0)
        o == header.v
        integer == AsSigned(o, "long").ok \/ AsUnsigned(o, "ulong").ok
        takes == {k \in DOMAIN IsOtherKind : Typed(buf, k).ok}
        data == Len(buf) - header.at
    IN  /\ IF integer THEN takes = {} ELSE \E k \in takes : takes = {k}
        /\ \A k \in DOMAIN IsOtherKind : AsOther(o, k).ok <=> k \in takes
        /\ ReadStr(buf, 0).ok => /\ ToStr(buf, header.at, o, data + 1) = ReadStr(buf, 0)
                                 /\ ~ToStr(buf, header.at, o, data).ok
        /\ ReadBin(buf, 0, data).ok => ToBin(buf, header.at, o, data) = ReadBin(buf, 0, data)
        /\ o.type \in Fixexts => ReadFixext(buf, 0, o.type) = ReadExt(buf, 0)
        /\ o.type \in Exts => ReadSizedExt(buf, 0, o.type) = ReadExt(buf, 0)

\* What cmp_read_object reads, cmp_write_object writes again as it was: the
\* header of an item that is passed on is the header that was received.
WritesWhatWasRead ==
  \A i \in 1 .. next - 1 :
    LET header == ReadObject(Bytes(items[i]), 0)
    IN  /\ header.ok
        /\ FlattenSeq(ObjectPieces(header.v)) = SubSeq(Bytes(items[i]), 1, header.at)
=============================================================================
