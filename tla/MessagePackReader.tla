--------------------------- MODULE MessagePackReader ---------------------------
(***************************************************************************)
(* The readers of cmp.c: cmp_read_object, the typed readers made from it,  *)
(* and the operators cmp_object_is_* and cmp_object_as_* on what it read.  *)
(*                                                                         *)
(* A reader works on the bytes buf from the offset at, and results in      *)
(* whether it succeeded, the new offset, and the value: a failure leaves   *)
(* the offset after what was read before it.                               *)
(***************************************************************************)
EXTENDS MessagePack

Result(ok, at, v) == [ok |-> ok, at |-> at, v |-> v]
Failure(at) == Result(FALSE, at, 0)

-----------------------------------------------------------------------------
(* cmp_read_object *)

\* string_reader: limit bytes, or none when there are fewer.
Take(buf, at, limit) ==
  IF at + limit > Len(buf) THEN Failure(at)
  ELSE Result(TRUE, at + limit, SubSeq(buf, at + 1, at + limit))

\* What is made of the bytes that were read, if they were.
Then(r, Value(_)) == IF r.ok THEN Result(TRUE, r.at, Value(r.v)) ELSE Failure(r.at)

\* The types that are told, with their value, by the marker alone.
ReadFixed(m, at) ==
  LET fix == CHOOSE t \in {"fixmap", "fixarray", "fixstr"} :
               FixBase[t] <= m /\ m <= FixBase[t] + FixSize[t]
  IN  Result(TRUE, at, CASE m <= 127 -> Object("pfix", ZeroExtend(<<m>>))
                         [] m \in 128 .. 191 -> Object(fix, m - FixBase[fix])
                         [] m = Marker.nil -> Object("nil", 0)
                         [] m \in {Marker.false, Marker.true} -> Object("boolean", m = Marker.true)
                         [] m >= 224 -> Object("nfix", SignExtend(<<m>>)))

ReadSized(buf, at, t) ==
  Then(Take(buf, at, Width[t]), LAMBDA bytes : Object(t, Natural(bytes)))
ReadBinHeader(buf, at, t) == ReadSized(buf, at, t)
ReadLongHeader(buf, at, t) == ReadSized(buf, at, t)

\* Two reads: the length, and then the type.
ReadExtType(buf, size, t) ==
  IF ~size.ok THEN size
  ELSE Then(Take(buf, size.at, 1),
            LAMBDA type : Object(t, [size |-> Natural(size.v), type |-> type[1]]))
ReadExtHeader(buf, at, t) == ReadExtType(buf, Take(buf, at, Width[t]), t)

ReadFloat(buf, at, t) == Then(Take(buf, at, Width[t]), LAMBDA bytes : Object(t, bytes))
ReadUnsigned(buf, at, t) ==
  Then(Take(buf, at, Width[t]), LAMBDA bytes : Object(t, ZeroExtend(bytes)))

\* Mutant: a negative number is read as if it had no sign.
ReadSignedAsUnsigned(buf, at, t) == ReadUnsigned(buf, at, t)

ReadSigned(buf, at, t) ==
  Then(Take(buf, at, Width[t]), LAMBDA bytes : Object(t, SignExtend(bytes)))
ReadFixextHeader(buf, at, t) ==
  Then(Take(buf, at, 1), LAMBDA type : Object(t, [size |-> Fixext[t], type |-> type[1]]))

\* The one marker that stands for nothing is 0xC1.
ReadMarked(buf, marker) ==
  LET m == marker.v[1]
      t == CHOOSE x \in DOMAIN Marker : Marker[x] = m
  IN  CASE ~marker.ok -> marker
        [] marker.ok /\ m = 193 -> Failure(marker.at)
        [] marker.ok /\ (m <= 192 \/ m \in {194, 195} \/ m >= 224) -> ReadFixed(m, marker.at)
        [] marker.ok /\ m \in 196 .. 223 ->
             CASE t \in Bins -> ReadBinHeader(buf, marker.at, t)
               [] t \in Exts -> ReadExtHeader(buf, marker.at, t)
               [] t \in {"float", "double"} -> ReadFloat(buf, marker.at, t)
               [] t \in Unsigned -> ReadUnsigned(buf, marker.at, t)
               [] t \in Signed -> ReadSigned(buf, marker.at, t)
               [] t \in Fixexts -> ReadFixextHeader(buf, marker.at, t)
               [] t \in Strs \cup Arrays \cup Maps -> ReadLongHeader(buf, marker.at, t)

ReadObject(buf, at) == ReadMarked(buf, Take(buf, at, 1))

-----------------------------------------------------------------------------
(* The typed readers *)

\* Read an object, and fail when it is of another type: its bytes are gone.
Accept(o, Accepts(_)) == IF o.ok /\ Accepts(o.v) THEN Result(TRUE, o.at, o.v.as) ELSE Failure(o.at)
ReadAs(buf, at, Accepts(_)) == Accept(ReadObject(buf, at), Accepts)

\* cmp_read_<type>, for the readers that want one type, or a fixnum.
ReadExactly(buf, at, type) == ReadAs(buf, at, LAMBDA o : o.type = type)
ReadSfix(buf, at) == ReadAs(buf, at, LAMBDA o : o.type \in {"pfix", "nfix"})

\* cmp_read_char, short, int and long: the types they take as they are, and
\* the one they take when its value has no more bits than theirs.
SignedReader == [
  char  |-> [types |-> {"pfix", "nfix", "s8"}, guarded |-> "u8", width |-> 1],
  short |-> [types |-> {"pfix", "nfix", "s8", "u8", "s16"}, guarded |-> "u16", width |-> 2],
  int   |-> [types |-> {"pfix", "nfix", "s8", "u8", "s16", "u16", "s32"},
             guarded |-> "u32", width |-> 4],
  long  |-> [types |-> {"pfix", "nfix", "s8", "u8", "s16", "u16", "s32", "u32", "s64"},
             guarded |-> "u64", width |-> 8]]

\* Mutant: what the guard tests is forgotten.
FitsAnyway(n, w) == TRUE

HasNoSignBit(n, w) == n[9 - w] < 128

ReadSignedInteger(buf, at, r) ==
  LET reader == SignedReader[r]
  IN  ReadAs(buf, at, LAMBDA o :
        o.type \in reader.types \/ (o.type = reader.guarded /\ HasNoSignBit(o.as, reader.width)))

\* cmp_read_uchar, ushort, uint and ulong: what has a sign is refused.
UnsignedReader == [
  uchar  |-> {"pfix", "u8"},
  ushort |-> {"pfix", "u8", "u16"},
  uint   |-> {"pfix", "u8", "u16", "u32"},
  ulong  |-> {"pfix", "u8", "u16", "u32", "u64"}]

ReadUnsignedInteger(buf, at, r) == ReadAs(buf, at, LAMBDA o : o.type \in UnsignedReader[r])

ReadDecimal(buf, at) == ReadAs(buf, at, LAMBDA o : o.type \in {"float", "double"})
ReadSingle(buf, at, type) == ReadExactly(buf, at, type)
ReadStrSize(buf, at) == ReadAs(buf, at, LAMBDA o : o.type \in Strs)
ReadBinSize(buf, at) == ReadAs(buf, at, LAMBDA o : o.type \in Bins)
ReadArray(buf, at) == ReadAs(buf, at, LAMBDA o : o.type \in Arrays)
ReadMap(buf, at) == ReadAs(buf, at, LAMBDA o : o.type \in Maps)
ReadExtMarker(buf, at) == ReadAs(buf, at, LAMBDA o : o.type \in Exts \cup Fixexts)

\* A length, and then as many bytes.
Sized(size, buf) == IF size.ok THEN Take(buf, size.at, size.v) ELSE size

\* cmp_read_str allocates what it needs; cmp_read_bin refuses more than room.
ReadStr(buf, at) == Sized(ReadStrSize(buf, at), buf)
Bounded(size, room) == IF size.ok /\ size.v > room THEN Failure(size.at) ELSE size
ReadBin(buf, at, room) == Sized(Bounded(ReadBinSize(buf, at), room), buf)

\* The data of an extension, of one type or of any of them.
ExtData(marker, buf) ==
  IF ~marker.ok THEN marker
  ELSE Then(Take(buf, marker.at, marker.v.size), LAMBDA data : <<marker.v.type, data>>)
ReadFixext(buf, at, type) == ExtData(ReadExactly(buf, at, type), buf)
ReadSizedExt(buf, at, type) == ExtData(ReadExactly(buf, at, type), buf)
ReadExt(buf, at) == ExtData(ReadExtMarker(buf, at), buf)

-----------------------------------------------------------------------------
(* cmp_object_is_* and cmp_object_as_* *)

\* A number with a sign is of the signed kinds only when it is negative.
IsSignedKind == [
  char |-> {"nfix", "s8"}, short |-> {"nfix", "s8", "s16"},
  int  |-> {"nfix", "s8", "s16", "s32"}, long |-> {"nfix", "s8", "s16", "s32", "s64"}]
IsUnsignedKind == [
  uchar |-> {"pfix", "u8"}, ushort |-> {"pfix", "u8", "u16"},
  uint |-> {"pfix", "u8", "u16", "u32"}, ulong |-> {"pfix", "u8", "u16", "u32", "u64"}]
\* Mutant: the strings that are not in MessagePack v4 are forgotten.
IsOtherKindV4 == [
  float |-> {"float"}, double |-> {"double"}, nil |-> {"nil"}, bool |-> {"boolean"},
  str |-> Strs \ {"str8"}, bin |-> Bins, array |-> Arrays, map |-> Maps, ext |-> Exts \cup Fixexts]

IsOtherKind == [
  float |-> {"float"}, double |-> {"double"}, nil |-> {"nil"}, bool |-> {"boolean"},
  str |-> Strs, bin |-> Bins, array |-> Arrays, map |-> Maps, ext |-> Exts \cup Fixexts]

\* Whether, and as what, an object is taken as a signed or an unsigned kind.
AsSigned(o, kind) ==
  [ok |-> \/ o.type \in {"pfix"} \cup IsSignedKind[kind]
          \/ kind # "char" /\ o.type = "u8"
          \/ kind \in {"int", "long"} /\ o.type = "u16"
          \/ kind = "long" /\ o.type = "u32"
          \/ o.type = SignedReader[kind].guarded /\ HasNoSignBit(o.as, SignedReader[kind].width),
   v |-> o.as]
AsUnsigned(o, kind) == [ok |-> o.type \in IsUnsignedKind[kind], v |-> o.as]
AsOther(o, kind) == [ok |-> o.type \in IsOtherKind[kind], v |-> o.as]

\* cmp_object_to_str and to_bin: the data after the header o, into a buffer
\* with room bytes; a string needs one more for its end.
ToStr(buf, at, o, room) ==
  IF o.type \in Strs /\ o.as + 1 <= room THEN Take(buf, at, o.as) ELSE Failure(at)
ToBin(buf, at, o, room) ==
  IF o.type \in Bins /\ o.as <= room THEN Take(buf, at, o.as) ELSE Failure(at)
=============================================================================
