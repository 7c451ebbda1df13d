------------------------------ MODULE MessagePack ------------------------------
(***************************************************************************)
(* The writers of cmp.c, the MessagePack library both daemons carry: which *)
(* type each value is given, the bytes it becomes, and what happens at the *)
(* end of the buffer of a context.  The error codes are left out: a writer *)
(* succeeds or fails.                                                      *)
(*                                                                         *)
(* An integer is its eight bytes, most significant first, so that nothing  *)
(* is lost of the 64 bits; a length is a number.                           *)
(***************************************************************************)
EXTENDS Integers, Sequences, SequencesExt

-----------------------------------------------------------------------------
(* The types *)

\* The types that have a marker of their own, and how many bytes of length
\* or of value follow it.
Marker == [
  nil |-> 192, false |-> 194, true |-> 195, bin8 |-> 196, bin16 |-> 197, bin32 |-> 198,
  ext8 |-> 199, ext16 |-> 200, ext32 |-> 201, float |-> 202, double |-> 203,
  u8 |-> 204, u16 |-> 205, u32 |-> 206, u64 |-> 207,
  s8 |-> 208, s16 |-> 209, s32 |-> 210, s64 |-> 211,
  fixext1 |-> 212, fixext2 |-> 213, fixext4 |-> 214, fixext8 |-> 215, fixext16 |-> 216,
  str8 |-> 217, str16 |-> 218, str32 |-> 219,
  array16 |-> 220, array32 |-> 221, map16 |-> 222, map32 |-> 223]

Width == [
  bin8 |-> 1, bin16 |-> 2, bin32 |-> 4, ext8 |-> 1, ext16 |-> 2, ext32 |-> 4,
  float |-> 4, double |-> 8, u8 |-> 1, u16 |-> 2, u32 |-> 4, u64 |-> 8,
  s8 |-> 1, s16 |-> 2, s32 |-> 4, s64 |-> 8, str8 |-> 1, str16 |-> 2, str32 |-> 4,
  array16 |-> 2, array32 |-> 4, map16 |-> 2, map32 |-> 4]

Fixext == [fixext1 |-> 1, fixext2 |-> 2, fixext4 |-> 4, fixext8 |-> 8, fixext16 |-> 16]

\* The types whose marker holds a small length: its base and the largest one.
FixBase == [fixmap |-> 128, fixarray |-> 144, fixstr |-> 160]
FixSize == [fixmap |-> 15, fixarray |-> 15, fixstr |-> 31]

Strs     == {"fixstr", "str8", "str16", "str32"}
Bins     == {"bin8", "bin16", "bin32"}
Arrays   == {"fixarray", "array16", "array32"}
Maps     == {"fixmap", "map16", "map32"}
Exts     == {"ext8", "ext16", "ext32"}
Fixexts  == DOMAIN Fixext
Unsigned == {"u8", "u16", "u32", "u64"}
Signed   == {"s8", "s16", "s32", "s64"}

\* An object: a type and its value or length.
Object(type, as) == [type |-> type, as |-> as]

-----------------------------------------------------------------------------
(* Numbers *)

Extend(bytes, with) == [i \in 1 .. 8 - Len(bytes) |-> with] \o bytes
ZeroExtend(bytes)   == Extend(bytes, 0)
SignExtend(bytes)   == Extend(bytes, IF bytes[1] >= 128 THEN 255 ELSE 0)

Low(n, w)        == SubSeq(n, 9 - w, 8)
IsUnsigned(n, w) == ZeroExtend(Low(n, w)) = n
IsSigned(n, w)   == SignExtend(Low(n, w)) = n

\* A length in one, two or four bytes, and back.
BigEndian(n, w) ==
  SubSeq(<<n \div 16777216, (n \div 65536) % 256, (n \div 256) % 256, n % 256>>, 5 - w, 4)
Natural(bytes) ==
  LET b == ZeroExtend(bytes) IN 16777216 * b[5] + 65536 * b[6] + 256 * b[7] + b[8]

UIntegerType(n) ==
  IF IsUnsigned(n, 1) /\ n[8] <= 127 THEN "pfix"
  ELSE CHOOSE t \in Unsigned :
         /\ IsUnsigned(n, Width[t])
         /\ \A u \in Unsigned : IsUnsigned(n, Width[u]) => Width[t] <= Width[u]

IntegerType(n) ==
  IF n[1] < 128 THEN UIntegerType(n)
  ELSE IF IsSigned(n, 1) /\ n[8] >= 224 THEN "nfix"
  ELSE CHOOSE t \in Signed :
         /\ IsSigned(n, Width[t])
         /\ \A u \in Signed : IsSigned(n, Width[u]) => Width[t] <= Width[u]

\* The type of a length: the one in the marker, or the shortest that holds it.
FixOr(fix, size, long) == IF size <= FixSize[fix] THEN fix ELSE long
StrType(size) == FixOr("fixstr", size,
  IF size <= 255 THEN "str8" ELSE IF size <= 65535 THEN "str16" ELSE "str32")
StrTypeV4(size) == FixOr("fixstr", size, IF size <= 65535 THEN "str16" ELSE "str32")
BinType(size) == IF size <= 255 THEN "bin8" ELSE IF size <= 65535 THEN "bin16" ELSE "bin32"
ArrayType(size) == FixOr("fixarray", size, IF size <= 65535 THEN "array16" ELSE "array32")
MapType(size) == FixOr("fixmap", size, IF size <= 65535 THEN "map16" ELSE "map32")

ExtTypeOf(size) ==
  IF size \in {1, 2, 4, 8, 16} THEN CHOOSE t \in Fixexts : Fixext[t] = size
  ELSE IF size <= 255 THEN "ext8" ELSE IF size <= 65535 THEN "ext16" ELSE "ext32"

-----------------------------------------------------------------------------
(* What an object may be asked to hold *)

Byte == 0 .. 255

\* A length that w bytes hold.
LengthFits(n, w) ==
  /\ n \in Nat
  /\ \/ w = 1 /\ n <= 255
     \/ w = 2 /\ n <= 65535
     \/ w = 4 /\ n \div 16777216 <= 255

\* The values an object of a type may have.
IsValue(type, v) ==
  \/ type = "pfix" /\ v \in [1 .. 8 -> Byte] /\ IsSigned(v, 1) /\ v[8] \in 0 .. 127
  \/ type = "nfix" /\ v \in [1 .. 8 -> Byte] /\ IsSigned(v, 1) /\ v[8] \in 224 .. 255
  \/ type \in Unsigned /\ v \in [1 .. 8 -> Byte] /\ IsUnsigned(v, Width[type])
  \/ type \in Signed /\ v \in [1 .. 8 -> Byte] /\ IsSigned(v, Width[type])
  \/ type \in {"float", "double"} /\ v \in [1 .. Width[type] -> Byte]
  \/ type = "nil" /\ v = 0
  \/ type = "boolean" /\ v \in BOOLEAN
  \/ type \in DOMAIN FixSize /\ v \in 0 .. FixSize[type]
  \/ type \in (Strs \cup Bins \cup Arrays \cup Maps) \ DOMAIN FixSize /\ LengthFits(v, Width[type])
  \/ type \in Exts /\ v \in [size : Nat, type : Byte] /\ LengthFits(v.size, Width[type])
  \/ type \in Fixexts /\ v \in [size : {Fixext[type]}, type : Byte]

-----------------------------------------------------------------------------
(* The bytes of an object, in the pieces that are written one by one *)

\* A piece of no bytes is one the context does not write: the writer fails.
Refused == << <<>> >>

\* pfix and nfix refuse a value that does not fit.
FixnumPieces(o) ==
  IF (o.type = "pfix" /\ o.as[8] <= 127) \/ (o.type = "nfix" /\ o.as[8] >= 224)
  THEN << <<o.as[8]>> >> ELSE Refused

NumberPieces(o) == << <<Marker[o.type]>>, Low(o.as, Width[o.type]) >>
SignedPieces(o) == NumberPieces(o)
UnsignedPieces(o) == NumberPieces(o)
FloatPieces(o) == << <<Marker[o.type]>>, o.as >>
SinglePieces(o) ==
  << <<Marker[IF o.type = "nil" THEN "nil" ELSE IF o.as THEN "true" ELSE "false"]>> >>

FixPieces(o) == IF o.as <= FixSize[o.type] THEN << <<FixBase[o.type] + o.as>> >> ELSE Refused
SizedPieces(o) == << <<Marker[o.type]>>, BigEndian(o.as, Width[o.type]) >>

StrPieces(o)   == IF o.type = "fixstr" THEN FixPieces(o) ELSE SizedPieces(o)
BinPieces(o)   == SizedPieces(o)
ArrayPieces(o) == IF o.type = "fixarray" THEN FixPieces(o) ELSE SizedPieces(o)
MapPieces(o)   == IF o.type = "fixmap" THEN FixPieces(o) ELSE SizedPieces(o)

FixextPieces(o) == << <<Marker[o.type]>>, <<o.as.type>> >>

\* Mutant: the type of an extension goes before its length.
ExtPiecesSwapped(o) ==
  << <<Marker[o.type]>>, <<o.as.type>>, BigEndian(o.as.size, Width[o.type]) >>

ExtPieces(o) ==
  << <<Marker[o.type]>>, BigEndian(o.as.size, Width[o.type]), <<o.as.type>> >>

\* cmp_write_object: the header of an object, and cmp_write_object_v4, for
\* which there is no str8.
ObjectPieces(o) ==
  CASE o.type \in {"pfix", "nfix"} -> FixnumPieces(o)
    [] o.type \in {"nil", "boolean"} -> SinglePieces(o)
    [] o.type \in {"float", "double"} -> FloatPieces(o)
    [] o.type \in Unsigned -> UnsignedPieces(o)
    [] o.type \in Signed -> SignedPieces(o)
    [] o.type \in Strs -> StrPieces(o)
    [] o.type \in Bins -> BinPieces(o)
    [] o.type \in Arrays -> ArrayPieces(o)
    [] o.type \in Maps -> MapPieces(o)
    [] o.type \in Fixexts -> FixextPieces(o)
    [] o.type \in Exts -> ExtPieces(o)

ObjectPiecesV4(o) == IF o.type = "str8" THEN Refused ELSE ObjectPieces(o)

-----------------------------------------------------------------------------
(* The writers: what a call of cmp_write_<name> writes *)

\* The data of a string or of a binary is not written when there is none;
\* the data of an extension always is, and none of it cannot be.
Data(data) == IF data = <<>> THEN <<>> ELSE <<data>>

WriteInteger(n)  == ObjectPieces(Object(IntegerType(n), n))
WriteUInteger(n) == ObjectPieces(Object(UIntegerType(n), n))
WriteSfix(n)     == ObjectPieces(Object(IF n[8] < 128 THEN "pfix" ELSE "nfix", n))
WriteNil         == ObjectPieces(Object("nil", 0))
WriteBool(b)     == ObjectPieces(Object("boolean", b))
WriteStr(data)   == StrPieces(Object(StrType(Len(data)), Len(data))) \o Data(data)
WriteStrV4(data) == StrPieces(Object(StrTypeV4(Len(data)), Len(data))) \o Data(data)
WriteBin(data)   == BinPieces(Object(BinType(Len(data)), Len(data))) \o Data(data)
WriteArray(size) == ArrayPieces(Object(ArrayType(size), size))
WriteMap(size)   == MapPieces(Object(MapType(size), size))

WriteExt(type, data) ==
  LET size == Len(data)
  IN  Append(ObjectPieces(Object(ExtTypeOf(size), [size |-> size, type |-> type])), data)

\* A decimal is written as a float when it is one exactly, four bytes and
\* not eight.
WriteDecimal(d) == FloatPieces(Object(IF Len(d) = 4 THEN "float" ELSE "double", d))

-----------------------------------------------------------------------------
(* The context *)

\* string_writer: a piece is written whole, or not at all.
\* Mutant: the bound forgets the byte that is written.
FitsAlmost(out, piece, size) == Len(out) + Len(piece) <= size + 1

Fits(out, piece, size) == Len(out) + Len(piece) <= size

\* A writer stops at the first piece that is refused.  What it wrote before
\* that stays in the buffer.
Write(out, size, pieces) ==
  LET written[i \in 0 .. Len(pieces)] ==
        IF i = 0 THEN [out |-> out, ok |-> TRUE]
        ELSE LET w == written[i - 1]
             IN  IF w.ok /\ pieces[i] # <<>> /\ Fits(w.out, pieces[i], size)
                 THEN [out |-> w.out \o pieces[i], ok |-> TRUE]
                 ELSE [out |-> w.out, ok |-> FALSE]
  IN  written[Len(pieces)]
=============================================================================
