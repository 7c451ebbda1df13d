-------------------------- MODULE ShellMessagesProofs --------------------------
(***************************************************************************)
(* The messages about shells, for every stanza, request, output and hash:  *)
(* what one end writes is what the other end understands, through the map, *)
(* the hash map, base64 and the strings of C.                              *)
(***************************************************************************)
EXTENDS ShellMessages, MessagePackProofs

-----------------------------------------------------------------------------
(* Sequences of sequences *)

LEMMA Regrouped ==
  ASSUME NEW X, NEW a \in Seq(X), NEW b \in Seq(X), NEW c \in Seq(X)
  PROVE  (a \o b) \o c = Joined(a, b, c)
  BY SMTT(40) DEF Joined

LEMMA FlattenConcat ==
  ASSUME NEW X, NEW a \in Seq(Seq(X)), NEW b \in Seq(Seq(X))
  PROVE  FlattenSeq(a \o b) = FlattenSeq(a) \o FlattenSeq(b)
<1> DEFINE N == Len(b)
           g == Beginnings(b)
           S == {k \in 0 .. N : FlattenSeq(a \o SubSeq(b, 1, k)) = FlattenSeq(a) \o g[k]}
           x == FlattenSeq(a)
<1>1. N \in Nat /\ 0 \in Nat /\ x \in Seq(X)
  BY FlattenType
<1>2. /\ g[0] = <<>> /\ g[N] = FlattenSeq(b)
      /\ \A k \in 0 .. N : g[k] \in Seq(X)
      /\ \A k \in 1 .. N : g[k] = g[k - 1] \o b[k]
  BY BeginningsGrow
<1> HIDE DEF g, x
<1>3. 0 \in S
  <2>1. SubSeq(b, 1, 0) = <<>> /\ a \o <<>> = a /\ 0 \in 0 .. N
    BY <1>1
  <2>2. x \o <<>> = x
    BY <1>1
  <2> QED
    BY <1>2, <2>1, <2>2 DEF x
<1>4. ASSUME NEW k \in 0 + 1 .. N, k - 1 \in S PROVE k \in S
  <2> DEFINE p == SubSeq(b, 1, k - 1)
             e == b[k]
             y == g[k - 1]
  <2>1. k \in 1 .. N /\ k \in 0 .. N /\ k - 1 \in 0 .. N
    BY <1>1
  <2>2. SubSeq(b, 1, k) = Append(p, e) /\ p \in Seq(Seq(X)) /\ e \in Seq(X)
    BY <2>1
  <2>3. y \in Seq(X) /\ g[k] = y \o e
    BY <1>2, <2>1
  <2>4. FlattenSeq(a \o p) = x \o y
    BY <1>4 DEF x
  <2> HIDE DEF p, e, y
  <2>5. a \o Append(p, e) = Append(a \o p, e) /\ a \o p \in Seq(Seq(X))
    <3> DEFINE Y == Seq(X)
    <3>1. a \in Seq(Y) /\ p \in Seq(Y) /\ e \in Y
      BY <2>2
    <3> HIDE DEF Y
    <3>2. a \o p \in Seq(Y) /\ <<e>> \in Seq(Y)
      BY <3>1
    <3>3. Append(p, e) = p \o <<e>> /\ Append(a \o p, e) = (a \o p) \o <<e>>
      BY <3>1, <3>2, AppendIsConcat
    <3>4. (a \o p) \o <<e>> = Joined(a, p, <<e>>)
      BY <3>1, <3>2, Regrouped
    <3>5. Joined(a, p, <<e>>) = a \o (p \o <<e>>)
      BY DEF Joined
    <3> QED
      BY <3>2, <3>3, <3>4, <3>5, Zenon DEF Y
  <2>6. FlattenSeq(Append(a \o p, e)) = FlattenSeq(a \o p) \o e
    BY <2>2, <2>5, FlattenAppend
  <2>7. (x \o y) \o e = x \o (y \o e)
    <3>1. (x \o y) \o e = Joined(x, y, e)
      BY <1>1, <2>2, <2>3, Regrouped
    <3> QED
      BY <3>1 DEF Joined
  <2>8. FlattenSeq(a \o SubSeq(b, 1, k)) = x \o g[k]
    BY <2>2, <2>3, <2>4, <2>5, <2>6, <2>7, Zenon
  <2> QED
    BY <2>1, <2>8 DEF x
<1> HIDE DEF S
<1>5. \A k \in 0 .. N : k \in S
  BY <1>1, <1>3, <1>4, UpTo
<1>6. N \in S
  BY <1>1, <1>5
<1>7. SubSeq(b, 1, N) = b
  BY SubSeqFull
<1> QED
  BY <1>2, <1>6, <1>7 DEF S, x

\* To flatten what is flat already of its parts, flatten the parts first.
Flattened(ss) == [i \in 1 .. Len(ss) |-> FlattenSeq(ss[i])]

LEMMA FlattenTwice ==
  ASSUME NEW X, NEW ss \in Seq(Seq(Seq(X)))
  PROVE  /\ Flattened(ss) \in Seq(Seq(X))
         /\ FlattenSeq(FlattenSeq(ss)) = FlattenSeq(Flattened(ss))
<1> DEFINE N == Len(ss)
           t == Flattened(ss)
           f == Beginnings(ss)
           g == Beginnings(t)
           S == {k \in 0 .. N : FlattenSeq(f[k]) = g[k]}
<1>1. N \in Nat /\ 0 \in Nat
  OBVIOUS
<1>2. t \in Seq(Seq(X)) /\ Len(t) = N /\ \A i \in 1 .. N : t[i] = FlattenSeq(ss[i])
  <2>1. \A i \in 1 .. N : FlattenSeq(ss[i]) \in Seq(X)
    <3> TAKE i \in 1 .. N
    <3>1. ss[i] \in Seq(Seq(X))
      OBVIOUS
    <3> QED
      BY <3>1, FlattenType
  <2> QED
    BY <2>1 DEF Flattened
<1> HIDE DEF t
<1>3. /\ f[0] = <<>> /\ f[N] = FlattenSeq(ss)
      /\ \A k \in 0 .. N : f[k] \in Seq(Seq(X))
      /\ \A k \in 1 .. N : f[k] = f[k - 1] \o ss[k]
  BY BeginningsGrow
<1>4. /\ g[0] = <<>> /\ g[N] = FlattenSeq(t)
      /\ \A k \in 1 .. N : g[k] = g[k - 1] \o t[k]
  BY <1>2, BeginningsGrow
<1> HIDE DEF f, g
<1>5. 0 \in S
  BY <1>1, <1>3, <1>4, FlattenEmpty
<1>6. ASSUME NEW k \in 0 + 1 .. N, k - 1 \in S PROVE k \in S
  <2>1. k \in 1 .. N /\ k \in 0 .. N /\ k - 1 \in 0 .. N
    BY <1>1
  <2>2. f[k - 1] \in Seq(Seq(X)) /\ ss[k] \in Seq(Seq(X)) /\ f[k] = f[k - 1] \o ss[k]
    <3>1. ss[k] \in Seq(Seq(X))
      BY <2>1, ElementOfSeq
    <3> QED
      BY <1>3, <2>1, <3>1
  <2>3. FlattenSeq(f[k]) = FlattenSeq(f[k - 1]) \o FlattenSeq(ss[k])
    BY <2>2, FlattenConcat
  <2>4. FlattenSeq(f[k - 1]) = g[k - 1]
    BY <1>6
  <2> QED
    BY <1>2, <1>4, <2>1, <2>3, <2>4
<1> HIDE DEF S
<1>7. \A k \in 0 .. N : k \in S
  BY <1>1, <1>5, <1>6, UpTo
<1>8. N \in S
  BY <1>1, <1>7
<1> QED
  BY <1>2, <1>3, <1>4, <1>8 DEF S, t

-----------------------------------------------------------------------------
(* What is written whole *)

\* When every piece has bytes, only the size of the buffer is in the way.
LEMMA WholeWritten ==
  ASSUME NEW pieces, Whole(pieces), NEW limit \in Nat
  PROVE  LET w == Write(<<>>, limit, pieces)
         IN  /\ w.ok <=> Len(FlattenSeq(pieces)) <= limit
             /\ w.ok => w.out = FlattenSeq(pieces)
<1> DEFINE w == Write(<<>>, limit, pieces)
           N == Len(pieces)
           f == Beginnings(pieces)
           all == FlattenSeq(pieces)
<1>1. pieces \in Seq(Seq(Byte)) /\ N \in Nat /\ \A i \in 1 .. N : pieces[i] # <<>>
  BY DEF Whole
<1>2. PICK k \in 0 .. N : Stops(<<>>, limit, pieces, k)
  <2>1. <<>> \in Seq(Byte) /\ Len(<<>>) <= limit
    OBVIOUS
  <2> QED
    BY <1>1, <2>1, WriteStops
<1>3. /\ f[N] = all
      /\ \A i \in 0 .. N : f[i] \in Seq(Byte) /\ f[i] = FlattenSeq(SubSeq(pieces, 1, i))
      /\ \A i \in 1 .. N : f[i] = f[i - 1] \o pieces[i]
  BY <1>1, BeginningsGrow DEF Beginnings
<1> HIDE DEF f
<1>4. /\ w.out = <<>> \o f[k]
      /\ w.ok <=> k = N
      /\ Len(<<>> \o f[k]) <= limit
      /\ k < N => pieces[k + 1] = <<>> \/ Len(<<>> \o f[k]) + Len(pieces[k + 1]) > limit
  BY <1>2, <1>3, Zenon DEF Stops
<1>5. <<>> \o f[k] = f[k] /\ f[k] \in Seq(Byte)
  BY <1>3
<1> HIDE DEF w, all, N
<1>6. CASE k = N
  BY <1>3, <1>4, <1>5, <1>6 DEF w, all
<1>7. CASE k # N
  <2>1. k + 1 \in 1 .. N /\ k + 1 \in 0 .. N /\ k < N /\ (k + 1) - 1 = k
    BY <1>1, <1>7
  <2>2. PICK rest \in Seq(Byte) : all = f[k + 1] \o rest
    <3>1. \E rest \in Seq(Byte) : FlattenSeq(pieces) = FlattenSeq(SubSeq(pieces, 1, k + 1)) \o rest
      BY <1>1, <2>1, FlattenSplit DEF N
    <3> QED
      BY <1>3, <2>1, <3>1 DEF all
  <2>3. f[k + 1] = f[k] \o pieces[k + 1] /\ pieces[k + 1] \in Seq(Byte)
    BY <1>1, <1>3, <2>1, ElementOfSeq DEF N
  <2>4. Len(all) > limit
    <3> DEFINE x == f[k]
               y == pieces[k + 1]
    <3>1. x \in Seq(Byte) /\ y \in Seq(Byte) /\ all = (x \o y) \o rest /\ Len(x) + Len(y) > limit
      BY <1>1, <1>4, <1>5, <2>1, <2>2, <2>3
    <3> HIDE DEF x, y
    <3>2. x \o y \in Seq(Byte) /\ Len(x \o y) = Len(x) + Len(y)
      BY <3>1
    <3>3. Len(all) = Len(x \o y) + Len(rest)
      BY <3>1, <3>2
    <3> QED
      BY <3>1, <3>2, <3>3
  <2>5. w.ok = FALSE \/ ~w.ok
    BY <1>4, <1>7
  <2> QED
    BY <1>4, <1>7, <2>4 DEF w, all
<1> QED
  BY <1>6, <1>7

LEMMA WholeConcat ==
  ASSUME NEW a, NEW b, Whole(a), Whole(b)
  PROVE  Whole(a \o b)
<1> DEFINE X == Seq(Byte)
<1>1. /\ a \in Seq(X) /\ b \in Seq(X) /\ a # <<>>
      /\ (\A i \in 1 .. Len(a) : a[i] # <<>>) /\ (\A i \in 1 .. Len(b) : b[i] # <<>>)
  BY DEF Whole
<1> HIDE DEF X
<1>2. a \o b \in Seq(X) /\ a \o b # <<>> /\ \A i \in 1 .. Len(a \o b) : (a \o b)[i] # <<>>
  BY <1>1
<1> QED
  BY <1>2 DEF Whole, X

\* A string that is written whole, and its bytes.
Writable(s) == s \in Seq(Byte) /\ LengthFits(Len(s), 4)
StringBytes(s) == Header(StrType(Len(s)), Len(s)) \o s

LEMMA StringWritten ==
  ASSUME NEW s, Writable(s)
  PROVE  Whole(WriteStr(s)) /\ FlattenSeq(WriteStr(s)) = StringBytes(s) /\ StringBytes(s) \in Seq(Byte)
<1> DEFINE n == Len(s)
           t == StrType(n)
           o == Object(t, n)
           p == ObjectPieces(o)
           h == Header(t, n)
<1>1. t \in Strs /\ IsValue(t, n) /\ s \in Seq(Byte)
  BY LengthTypes DEF Writable
<1>2. Whole(p) /\ FlattenSeq(p) = h /\ h \in Seq(Byte)
  BY <1>1, ObjectWritten
<1>3. StrPieces(o) = p
  <2>1. o.type = t
    BY DEF Object
  <2> HIDE DEF o
  <2>2. Fixexts = {"fixext1", "fixext2", "fixext4", "fixext8", "fixext16"}
    BY DEF Fixexts, Fixext
  <2> QED
    BY <1>1, <2>1, <2>2 DEF ObjectPieces, Unsigned, Signed, Exts, Strs, Bins, Arrays, Maps
<1>4. WriteStr(s) = p \o Data(s)
  BY <1>3 DEF WriteStr
<1>5. p \in Seq(Seq(Byte))
  BY <1>2 DEF Whole
<1> HIDE DEF p, h
<1>6. CASE s = <<>>
  <2>1. p \o <<>> = p
    BY <1>5
  <2>2. h \o <<>> = h
    BY <1>2
  <2> QED
    BY <1>2, <1>4, <1>6, <2>1, <2>2 DEF Data, StringBytes, h
<1>7. CASE s # <<>>
  <2>1. WriteStr(s) = p \o <<s>> /\ p \o <<s>> = Append(p, s)
    BY <1>1, <1>4, <1>5, <1>7, AppendIsConcat DEF Data
  <2>2. FlattenSeq(Append(p, s)) = h \o s
    BY <1>1, <1>2, <1>5, FlattenAppend
  <2>3. Whole(<<s>>)
    BY <1>1, <1>7, WholePieces
  <2>4. Whole(p \o <<s>>)
    BY <1>2, <2>3, WholeConcat
  <2>5. h \o s \in Seq(Byte)
    BY <1>1, <1>2
  <2> QED
    BY <2>1, <2>2, <2>4, <2>5, Zenon DEF StringBytes, h
<1> QED
  BY <1>6, <1>7

\* Where the bytes of a string are, the string is read.
There(buf, from, bytes) == Agrees(buf, from, bytes) /\ Reaches(buf, from, bytes)

LEMMA StringRead ==
  ASSUME NEW s, Writable(s), NEW buf \in Seq(Byte), NEW from \in Nat, There(buf, from, StringBytes(s))
  PROVE  ReadStr(buf, from) = Result(TRUE, from + Len(StringBytes(s)), s)
<1> DEFINE n == Len(s)
           t == StrType(n)
           h == Header(t, n)
           r == ReadObject(buf, from)
           size0 == ReadStrSize(buf, from)
<1>1. t \in Strs /\ IsValue(t, n) /\ s \in Seq(Byte)
  BY LengthTypes DEF Writable
<1>2. h \in Seq(Byte)
  BY <1>1, ObjectWritten
<1>3. Agrees(buf, from, h \o s)
  BY DEF There, StringBytes
<1>4. Agrees(buf, from, h)
  BY <1>1, <1>2, <1>3, AgreesWithParts
<1>5. Finds(r, buf, from, h, Object(t, n))
  BY <1>1, <1>4, ObjectRead
<1>6. size0 = IF r.ok /\ r.v.type \in Strs THEN Result(TRUE, r.at, r.v.as) ELSE Failure(r.at)
  BY TypedReaders
<1>7. Object(t, n).type = t /\ Object(t, n).as = n
  BY DEF Object
<1> HIDE DEF r, t, n, h, size0
<1>8. r = Result(TRUE, from + Len(h), Object(t, n)) => size0 = Result(TRUE, from + Len(h), n)
  <2>1. HAVE r = Result(TRUE, from + Len(h), Object(t, n))
  <2>2. r.ok = TRUE /\ r.at = from + Len(h) /\ r.v = Object(t, n)
    BY <2>1 DEF Result
  <2> QED
    BY <1>1, <1>6, <1>7, <2>2, Zenon
<1>9. r.ok = FALSE => size0 = Failure(r.at)
  BY <1>6
<1>10. Finds(size0, buf, from, h, Len(s))
  BY <1>5, <1>8, <1>9, FindsMade DEF n
<1>11. ReadStr(buf, from) = Sized(size0, buf)
  BY DEF ReadStr, size0
<1>12. Finds(Sized(size0, buf), buf, from, h \o s, s)
  BY <1>1, <1>2, <1>3, <1>10, SizedData
<1> QED
  BY <1>11, <1>12, Zenon DEF There, StringBytes, Finds, h, t, n

LEMMA MapRead ==
  ASSUME NEW n, LengthFits(n, 4), NEW buf \in Seq(Byte), NEW from \in Nat, There(buf, from, Header(MapType(n), n))
  PROVE  ReadMap(buf, from) = Result(TRUE, from + Len(Header(MapType(n), n)), n)
<1> DEFINE t == MapType(n)
           h == Header(t, n)
           r == ReadObject(buf, from)
           o == Object(t, n)
<1>1. t \in Maps /\ IsValue(t, n)
  BY LengthTypes
<1>2. Finds(r, buf, from, h, o)
  BY <1>1, ObjectRead DEF There
<1>3. ReadMap(buf, from) = IF r.ok /\ r.v.type \in Maps THEN Result(TRUE, r.at, r.v.as) ELSE Failure(r.at)
  BY TypedReaders
<1>4. o.type = t /\ o.as = n
  BY DEF Object
<1>5. Reaches(buf, from, h)
  BY DEF There
<1> HIDE DEF r, t, h, o
<1>6. r = Result(TRUE, from + Len(h), o)
  BY <1>2, <1>5 DEF Finds
<1>7. r.ok = TRUE /\ r.at = from + Len(h) /\ r.v = o
  BY <1>6 DEF Result
<1>8. ReadMap(buf, from) = Result(TRUE, from + Len(h), n)
  BY <1>1, <1>3, <1>4, <1>7, Zenon
<1> QED
  BY <1>8 DEF h, t

LEMMA MapHeader ==
  ASSUME NEW n, LengthFits(n, 4)
  PROVE  /\ Whole(WriteMap(n)) /\ FlattenSeq(WriteMap(n)) = Header(MapType(n), n)
         /\ Header(MapType(n), n) \in Seq(Byte)
<1> DEFINE t == MapType(n)
           o == Object(t, n)
           p == ObjectPieces(o)
<1>1. t \in Maps /\ IsValue(t, n)
  BY LengthTypes
<1>2. Whole(p) /\ FlattenSeq(p) = Header(t, n) /\ Header(t, n) \in Seq(Byte)
  BY <1>1, ObjectWritten
<1>3. MapPieces(o) = p
  <2>1. o.type = t
    BY DEF Object
  <2> HIDE DEF o
  <2>2. Fixexts = {"fixext1", "fixext2", "fixext4", "fixext8", "fixext16"}
    BY DEF Fixexts, Fixext
  <2> QED
    BY <1>1, <2>1, <2>2 DEF ObjectPieces, Unsigned, Signed, Exts, Strs, Bins, Arrays, Maps
<1> QED
  BY <1>2, <1>3 DEF WriteMap

-----------------------------------------------------------------------------
(* The bytes of a map, and reading them again *)

Pairs == Seq(Seq(Byte) \X Seq(Byte))
AllWritable(pairs) == \A i \in 1 .. Len(pairs) : Writable(pairs[i][1]) /\ Writable(pairs[i][2])
PairBytes(pair) == StringBytes(pair[1]) \o StringBytes(pair[2])
BytesOf(pairs) == [i \in 1 .. Len(pairs) |-> PairBytes(pairs[i])]
MapBytes(size, pairs) == Header(MapType(size), size) \o FlattenSeq(BytesOf(pairs))

LEMMA WholeFlat ==
  ASSUME NEW a, Whole(a), NEW ss \in Seq(Seq(Seq(Byte))), \A i \in 1 .. Len(ss) : Whole(ss[i])
  PROVE  Whole(a \o FlattenSeq(ss))
<1> DEFINE N == Len(ss)
           f == Beginnings(ss)
           S == {k \in 0 .. N : Whole(a \o f[k])}
<1>1. /\ f[0] = <<>> /\ f[N] = FlattenSeq(ss)
      /\ \A k \in 0 .. N : f[k] \in Seq(Seq(Byte))
      /\ \A k \in 1 .. N : f[k] = f[k - 1] \o ss[k]
  BY BeginningsGrow
<1>2. a \in Seq(Seq(Byte)) /\ N \in Nat /\ 0 \in Nat
  BY DEF Whole
<1> HIDE DEF f
<1>3. 0 \in S
  <2>1. a \o <<>> = a /\ 0 \in 0 .. N
    BY <1>2
  <2> QED
    BY <1>1, <2>1
<1>4. ASSUME NEW k \in 0 + 1 .. N, k - 1 \in S PROVE k \in S
  <2>1. k \in 1 .. N /\ k \in 0 .. N /\ k - 1 \in 0 .. N
    BY <1>2
  <2>2. Whole((a \o f[k - 1]) \o ss[k])
    BY <1>4, <2>1, WholeConcat
  <2>3. (a \o f[k - 1]) \o ss[k] = a \o (f[k - 1] \o ss[k])
    <3> DEFINE x == f[k - 1]
               y == ss[k]
               X == Seq(Byte)
    <3>1. x \in Seq(X) /\ y \in Seq(X) /\ a \in Seq(X)
      BY <1>1, <1>2, <2>1, ElementOfSeq
    <3> HIDE DEF x, y, X
    <3>2. (a \o x) \o y = Joined(a, x, y)
      BY <3>1, Regrouped
    <3> QED
      BY <3>2 DEF Joined, x, y
  <2> QED
    BY <1>1, <2>1, <2>2, <2>3
<1> HIDE DEF S
<1>5. \A k \in 0 .. N : k \in S
  BY <1>2, <1>3, <1>4, UpTo
<1>6. N \in S
  BY <1>2, <1>5
<1> QED
  BY <1>1, <1>6 DEF S

LEMMA PairType ==
  ASSUME NEW pairs \in Pairs, NEW i \in 1 .. Len(pairs)
  PROVE  pairs[i][1] \in Seq(Byte) /\ pairs[i][2] \in Seq(Byte) /\ pairs[i] = <<pairs[i][1], pairs[i][2]>>
<1>1. pairs[i] \in Seq(Byte) \X Seq(Byte)
  BY ElementOfSeq DEF Pairs
<1> QED
  BY <1>1

LEMMA BytesOfPairs ==
  ASSUME NEW pairs \in Pairs, AllWritable(pairs)
  PROVE  /\ BytesOf(pairs) \in Seq(Seq(Byte)) /\ Len(BytesOf(pairs)) = Len(pairs)
         /\ \A i \in 1 .. Len(pairs) : BytesOf(pairs)[i] = PairBytes(pairs[i]) /\ PairBytes(pairs[i]) \in Seq(Byte)
<1>1. \A i \in 1 .. Len(pairs) : PairBytes(pairs[i]) \in Seq(Byte)
  <2> TAKE i \in 1 .. Len(pairs)
  <2> DEFINE x == StringBytes(pairs[i][1])
             y == StringBytes(pairs[i][2])
  <2>1. x \in Seq(Byte) /\ y \in Seq(Byte)
    BY StringWritten DEF AllWritable
  <2> HIDE DEF x, y
  <2>2. x \o y \in Seq(Byte)
    BY <2>1
  <2> QED
    BY <2>2 DEF PairBytes, x, y
<1>2. Len(pairs) \in Nat
  BY DEF Pairs
<1> QED
  BY <1>1, <1>2 DEF BytesOf

LEMMA MapWritten ==
  ASSUME NEW pairs \in Pairs, AllWritable(pairs), NEW size, LengthFits(size, 4)
  PROVE  /\ Whole(MapOf(size, pairs)) /\ FlattenSeq(MapOf(size, pairs)) = MapBytes(size, pairs)
         /\ MapBytes(size, pairs) \in Seq(Byte)
<1> DEFINE N == Len(pairs)
           ss == [i \in DOMAIN pairs |-> WriteStr(pairs[i][1]) \o WriteStr(pairs[i][2])]
           m == WriteMap(size)
           h == Header(MapType(size), size)
<1>1. N \in Nat /\ DOMAIN pairs = 1 .. N
  BY DEF Pairs
<1>2. \A i \in 1 .. N : /\ Whole(WriteStr(pairs[i][1]) \o WriteStr(pairs[i][2]))
                        /\ FlattenSeq(WriteStr(pairs[i][1]) \o WriteStr(pairs[i][2])) = PairBytes(pairs[i])
  <2> TAKE i \in 1 .. N
  <2> DEFINE a == WriteStr(pairs[i][1])
             b == WriteStr(pairs[i][2])
  <2>1. /\ Whole(a) /\ FlattenSeq(a) = StringBytes(pairs[i][1])
        /\ Whole(b) /\ FlattenSeq(b) = StringBytes(pairs[i][2])
    BY StringWritten DEF AllWritable
  <2> HIDE DEF a, b
  <2>2. Whole(a \o b)
    BY <2>1, WholeConcat
  <2>3. FlattenSeq(a \o b) = FlattenSeq(a) \o FlattenSeq(b)
    <3>1. a \in Seq(Seq(Byte)) /\ b \in Seq(Seq(Byte))
      BY <2>1 DEF Whole
    <3> QED
      BY <3>1, FlattenConcat
  <2> QED
    BY <2>1, <2>2, <2>3 DEF PairBytes, a, b
<1>3. Len(ss) = N /\ \A i \in 1 .. N : ss[i] = WriteStr(pairs[i][1]) \o WriteStr(pairs[i][2])
  BY <1>1
<1>4. ss \in Seq(Seq(Seq(Byte)))
  <2>1. \A i \in 1 .. N : WriteStr(pairs[i][1]) \o WriteStr(pairs[i][2]) \in Seq(Seq(Byte))
    BY <1>2, Zenon DEF Whole
  <2> QED
    BY <1>1, <2>1
<1> HIDE DEF ss, m, h
<1>5. Flattened(ss) = BytesOf(pairs)
  BY <1>2, <1>3 DEF Flattened, BytesOf
<1>6. FlattenSeq(FlattenSeq(ss)) = FlattenSeq(BytesOf(pairs))
  BY <1>4, <1>5, FlattenTwice
<1>7. Whole(m) /\ FlattenSeq(m) = h /\ h \in Seq(Byte)
  BY MapHeader DEF m, h
<1>8. MapOf(size, pairs) = m \o FlattenSeq(ss)
  BY DEF MapOf, m, ss
<1>9. Whole(m \o FlattenSeq(ss))
  BY <1>2, <1>3, <1>4, <1>7, WholeFlat
<1>10. FlattenSeq(m \o FlattenSeq(ss)) = h \o FlattenSeq(BytesOf(pairs))
  <2>1. m \in Seq(Seq(Byte)) /\ FlattenSeq(ss) \in Seq(Seq(Byte))
    BY <1>4, <1>7, FlattenType DEF Whole
  <2>2. FlattenSeq(m \o FlattenSeq(ss)) = FlattenSeq(m) \o FlattenSeq(FlattenSeq(ss))
    BY <2>1, FlattenConcat
  <2> QED
    BY <1>6, <1>7, <2>2
<1>11. h \o FlattenSeq(BytesOf(pairs)) \in Seq(Byte)
  <2>1. FlattenSeq(BytesOf(pairs)) \in Seq(Byte)
    BY BytesOfPairs, FlattenType
  <2> QED
    BY <1>7, <2>1
<1> QED
  BY <1>8, <1>9, <1>10, <1>11 DEF MapBytes, h

LEMMA ThereInside ==
  ASSUME NEW a \in Seq(Byte), NEW b \in Seq(Byte), NEW c \in Seq(Byte)
  PROVE  There(a \o (b \o c), Len(a), b)
<1> DEFINE ab == a \o b
           abc == ab \o c
<1>1. /\ Len(ab) = Len(a) + Len(b) /\ Len(abc) = Len(a) + Len(b) + Len(c)
      /\ Len(a) \in Nat /\ Len(b) \in Nat /\ Len(c) \in Nat
      /\ \A i \in 1 .. Len(b) : ab[Len(a) + i] = b[i]
      /\ \A i \in 1 .. Len(a) + Len(b) : abc[i] = ab[i]
  OBVIOUS
<1>2. abc = a \o (b \o c)
  <2>1. abc = Joined(a, b, c)
    BY Regrouped
  <2> QED
    BY <2>1 DEF Joined
<1> HIDE DEF ab, abc
<1>3. ASSUME NEW i \in 1 .. Len(b) PROVE abc[Len(a) + i] = b[i]
  <2>1. Len(a) + i \in 1 .. Len(a) + Len(b)
    BY <1>1
  <2> QED
    BY <1>1, <2>1
<1>4. Agrees(abc, Len(a), b) /\ Reaches(abc, Len(a), b)
  BY <1>1, <1>3 DEF Agrees, Reaches
<1> QED
  BY <1>2, <1>4, Zenon DEF There

LEMMA TherePart ==
  ASSUME NEW buf \in Seq(Byte), NEW from \in Nat, NEW a \in Seq(Byte), NEW b \in Seq(Byte), There(buf, from, a \o b)
  PROVE  There(buf, from, a) /\ There(buf, from + Len(a), b)
<1>1. Agrees(buf, from, a) /\ Agrees(buf, from + Len(a), b)
  BY AgreesWithParts DEF There
<1>2. Len(a \o b) = Len(a) + Len(b) /\ Len(a) \in Nat /\ Len(b) \in Nat /\ Len(buf) \in Nat
  OBVIOUS
<1>3. from + Len(a \o b) <= Len(buf)
  BY DEF There, Reaches
<1> QED
  BY <1>1, <1>2, <1>3 DEF There, Reaches

\* Where the i-th pair of a map ends.
EndOf(size, pairs, i) == Len(Header(MapType(size), size)) + Len(Beginnings(BytesOf(pairs))[i])

LEMMA PairRead ==
  ASSUME NEW pairs \in Pairs, AllWritable(pairs), NEW size, LengthFits(size, 4), NEW i \in 1 .. Len(pairs)
  PROVE  ReadStrings(MapBytes(size, pairs), EndOf(size, pairs, i - 1)) =
           Result(TRUE, EndOf(size, pairs, i), [key |-> pairs[i][1], val |-> pairs[i][2]])
<1> DEFINE buf == MapBytes(size, pairs)
           h == Header(MapType(size), size)
           s == BytesOf(pairs)
           N == Len(pairs)
           g == Beginnings(s)
           x == StringBytes(pairs[i][1])
           y == StringBytes(pairs[i][2])
           from == EndOf(size, pairs, i - 1)
<1>1. N \in Nat /\ i - 1 \in 0 .. N /\ i \in 0 .. N
  BY DEF Pairs
<1>2. /\ s \in Seq(Seq(Byte)) /\ Len(s) = N /\ s[i] = x \o y
      /\ x \in Seq(Byte) /\ y \in Seq(Byte)
  BY BytesOfPairs, StringWritten DEF AllWritable, PairBytes
<1>3. /\ \A k \in 0 .. N : g[k] \in Seq(Byte) /\ g[k] = FlattenSeq(SubSeq(s, 1, k))
      /\ \A k \in 1 .. N : g[k] = g[k - 1] \o s[k]
  BY <1>2, BeginningsGrow DEF Beginnings
<1>4. h \in Seq(Byte) /\ buf \in Seq(Byte)
  BY MapHeader, MapWritten
<1> HIDE DEF h, s, g, x, y
<1>5. PICK rest \in Seq(Byte) : FlattenSeq(s) = g[i] \o rest
  <2>1. \E rest \in Seq(Byte) : FlattenSeq(s) = FlattenSeq(SubSeq(s, 1, i)) \o rest
    BY <1>1, <1>2, FlattenSplit, ZenonT(60)
  <2> QED
    BY <1>1, <1>3, <2>1
<1> DEFINE b == g[i - 1]
           p == x \o y
<1>6. b \in Seq(Byte) /\ p \in Seq(Byte) /\ g[i] = b \o p
  <2>1. b \in Seq(Byte) /\ g[i] = b \o s[i]
    BY <1>1, <1>3
  <2>2. p \in Seq(Byte)
    BY <1>2
  <2> QED
    BY <1>2, <2>1, <2>2
<1>7. from = Len(h) + Len(b) /\ EndOf(size, pairs, i) = Len(h) + Len(g[i])
  BY DEF EndOf, h, g, s
<1>8. buf = h \o (g[i] \o rest)
  BY <1>5 DEF MapBytes, h, s
<1> HIDE DEF b, buf, from, p
<1>9. There(buf, from, p) /\ from \in Nat
  <2> DEFINE a == h \o b
  <2>1. a \in Seq(Byte) /\ Len(a) = from /\ from \in Nat
    BY <1>4, <1>6, <1>7
  <2>2. buf = h \o ((b \o p) \o rest)
    BY <1>6, <1>8
  <2>3. (b \o p) \o rest = b \o (p \o rest) /\ p \o rest \in Seq(Byte)
    <3>1. (b \o p) \o rest = Joined(b, p, rest)
      BY <1>6, Regrouped
    <3>2. p \o rest \in Seq(Byte)
      BY <1>6
    <3> QED
      BY <3>1, <3>2 DEF Joined
  <2>4. a \o (p \o rest) = h \o (b \o (p \o rest))
    <3> DEFINE q == p \o rest
    <3>1. q \in Seq(Byte)
      BY <2>3
    <3> HIDE DEF q
    <3>2. (h \o b) \o q = Joined(h, b, q)
      BY <1>4, <1>6, <3>1, Regrouped
    <3> QED
      BY <3>2 DEF Joined, q
  <2>5. buf = a \o (p \o rest)
    BY <2>2, <2>3, <2>4, Zenon
  <2> HIDE DEF a
  <2>6. There(a \o (p \o rest), Len(a), p)
    BY <1>6, <2>1, ThereInside
  <2> QED
    BY <2>1, <2>5, <2>6, Zenon
<1>10. There(buf, from, x) /\ There(buf, from + Len(x), y)
  BY <1>2, <1>4, <1>9, TherePart DEF p
<1>11. ReadStr(buf, from) = Result(TRUE, from + Len(x), pairs[i][1])
  BY <1>4, <1>9, <1>10, StringRead DEF AllWritable, x
<1>12. ReadStr(buf, from + Len(x)) = Result(TRUE, (from + Len(x)) + Len(y), pairs[i][2])
  <2>1. from + Len(x) \in Nat
    BY <1>2, <1>9
  <2> QED
    BY <1>4, <1>10, <2>1, StringRead DEF AllWritable, y
<1>13. (from + Len(x)) + Len(y) = EndOf(size, pairs, i)
  <2>1. Len(p) = Len(x) + Len(y) /\ Len(x) \in Nat /\ Len(y) \in Nat
    BY <1>2, SMTT(40) DEF p
  <2>2. Len(g[i]) = Len(b) + Len(p) /\ Len(b) \in Nat /\ Len(h) \in Nat
    BY <1>4, <1>6
  <2> QED
    BY <1>7, <2>1, <2>2
<1> DEFINE at0 == from + Len(x)
           k == pairs[i][1]
           v == pairs[i][2]
<1> HIDE DEF at0, k, v
<1>14. ReadStr(buf, from) = Result(TRUE, at0, k) /\ ReadStr(buf, at0) = Result(TRUE, EndOf(size, pairs, i), v)
  BY <1>11, <1>12, <1>13 DEF at0, k, v
<1>15. ReadStrings(buf, from) = Result(TRUE, EndOf(size, pairs, i), [key |-> k, val |-> v])
  <2> DEFINE key == Result(TRUE, at0, k)
             val == Result(TRUE, EndOf(size, pairs, i), v)
  <2>1. key.at = at0 /\ key.ok = TRUE /\ val.ok = TRUE /\ key.v = k /\ val.v = v /\ val.at = EndOf(size, pairs, i)
    BY DEF Result
  <2>2. ReadStr(buf, from) = key /\ ReadStr(buf, at0) = val
    BY <1>14
  <2> HIDE DEF key, val
  <2>3. ReadStrings(buf, from) = Pair(key, val)
    BY <2>1, <2>2, Zenon DEF ReadStrings, ReadValue
  <2> QED
    BY <2>1, <2>3 DEF Pair
<1> QED
  BY <1>15 DEF buf, from, k, v

-----------------------------------------------------------------------------
(* The strings of C *)

LEMMA Least ==
  ASSUME NEW T, T \subseteq Nat, T # {}
  PROVE  \E x \in T : \A y \in T : x <= y
<1>1. IsWellFoundedOn(OpToRel(<, Nat), Nat)
  BY NatLessThanWellFounded, Zenon
<1>2. PICK x \in T : \A y \in T : ~(<<y, x>> \in OpToRel(<, Nat))
  BY <1>1, WFMin, Zenon
<1>3. \A y \in T : ~(y < x)
  BY <1>2 DEF OpToRel
<1>4. \A y \in T : x <= y
  BY <1>3
<1> QED
  BY <1>4

LEMMA CutString ==
  ASSUME NEW bytes \in Seq(Byte), NEW n \in 1 .. Len(bytes), bytes[n] = 0, \A i \in 1 .. n - 1 : bytes[i] # 0
  PROVE  CString(bytes) = SubSeq(bytes, 1, n - 1)
<1> DEFINE zeros == {i \in DOMAIN bytes : bytes[i] = 0}
           first == CHOOSE i \in zeros : \A j \in zeros : i <= j
<1>1. n \in zeros /\ \A j \in zeros : n <= j
  <2>1. n \in zeros
    OBVIOUS
  <2>2. ASSUME NEW j \in zeros, ~(n <= j) PROVE FALSE
    <3>1. j \in 1 .. n - 1 /\ bytes[j] = 0
      BY <2>2
    <3> QED
      BY <3>1
  <2> QED
    BY <2>1, <2>2
<1>2. \A j \in zeros : j \in Nat
  OBVIOUS
<1>3. CString(bytes) = IF zeros = {} THEN bytes ELSE SubSeq(bytes, 1, first - 1)
  BY DEF CString
<1> HIDE DEF zeros
<1>4. first = n
  <2>1. first \in zeros /\ \A j \in zeros : first <= j
    BY <1>1
  <2>2. first \in Nat /\ n \in Nat /\ first <= n /\ n <= first
    BY <1>1, <1>2, <2>1
  <2> QED
    BY <2>2
<1> QED
  BY <1>1, <1>3, <1>4

LEMMA WholeString ==
  ASSUME NEW bytes \in Seq(Byte), \A i \in 1 .. Len(bytes) : bytes[i] # 0
  PROVE  CString(bytes) = bytes
<1>1. {i \in DOMAIN bytes : bytes[i] = 0} = {}
  OBVIOUS
<1> QED
  BY <1>1 DEF CString

LEMMA Retyped ==
  ASSUME NEW X, NEW Y, NEW s \in Seq(X), \A i \in 1 .. Len(s) : s[i] \in Y
  PROVE  s \in Seq(Y)
<1>1. s \in [1 .. Len(s) -> Y] /\ Len(s) \in Nat
  OBVIOUS
<1> QED
  BY <1>1, SeqDef

LEMMA StringOf ==
  ASSUME NEW s \in Seq(Byte), \A i \in 1 .. Len(s) : s[i] # 0
  PROVE  s \in String
<1> DEFINE C == 1 .. 255
<1>1. \A x \in Byte : x # 0 => x \in C
  BY DEF Byte
<1> HIDE DEF C
<1>2. \A i \in 1 .. Len(s) : s[i] \in C
  BY <1>1, ElementOfSeq
<1>3. s \in Seq(C)
  BY <1>2, Retyped
<1> QED
  BY <1>3 DEF C, String

LEMMA StringIsBytes == String \subseteq Seq(Byte) /\ \A s \in String : CString(s) = s
<1>1. ASSUME NEW s \in String PROVE s \in Seq(Byte) /\ \A i \in 1 .. Len(s) : s[i] # 0
  <2> DEFINE C == 1 .. 255
  <2>1. s \in Seq(C)
    BY DEF String
  <2>2. \A x \in C : x \in Byte /\ x # 0
    BY DEF Byte
  <2> HIDE DEF C
  <2>3. \A i \in 1 .. Len(s) : s[i] \in Byte /\ s[i] # 0
    BY <2>1, <2>2, ElementOfSeq
  <2> QED
    BY <2>1, <2>3, Retyped
<1> QED
  BY <1>1, WholeString

LEMMA CStringType ==
  ASSUME NEW bytes \in Seq(Byte)
  PROVE  CString(bytes) \in String /\ Len(CString(bytes)) <= Len(bytes) /\ CString(bytes) \in Seq(Byte)
<1> DEFINE zeros == {i \in 1 .. Len(bytes) : bytes[i] = 0}
<1>1. CASE zeros = {}
  <2>1. \A i \in 1 .. Len(bytes) : bytes[i] # 0
    BY <1>1
  <2>2. CString(bytes) = bytes
    BY <2>1, WholeString
  <2>3. bytes \in String
    BY <2>1, StringOf
  <2> QED
    BY <2>2, <2>3
<1>2. CASE zeros # {}
  <2>1. PICK n \in zeros : \A j \in zeros : n <= j
    <3>1. zeros \subseteq Nat
      OBVIOUS
    <3> HIDE DEF zeros
    <3> QED
      BY <1>2, <3>1, Least
  <2>2. \A i \in 1 .. n - 1 : bytes[i] # 0
    <3> SUFFICES ASSUME NEW i \in 1 .. n - 1, bytes[i] = 0 PROVE FALSE
      OBVIOUS
    <3>1. i \in zeros
      OBVIOUS
    <3> QED
      BY <2>1, <3>1
  <2>3. CString(bytes) = SubSeq(bytes, 1, n - 1)
    BY <2>2, CutString
  <2>4. SubSeq(bytes, 1, n - 1) \in String /\ Len(SubSeq(bytes, 1, n - 1)) <= Len(bytes)
    <3> DEFINE s == SubSeq(bytes, 1, n - 1)
    <3>1. s \in Seq(Byte) /\ Len(s) = n - 1 /\ \A i \in 1 .. n - 1 : s[i] = bytes[i] /\ bytes[i] \in Byte
      OBVIOUS
    <3> HIDE DEF s
    <3>2. \A i \in 1 .. Len(s) : s[i] # 0
      BY <2>2, <3>1
    <3>3. s \in String
      BY <3>1, <3>2, StringOf
    <3> QED
      BY <3>1, <3>3 DEF s
  <2> QED
    BY <2>3, <2>4, StringIsBytes
<1> QED
  BY <1>1, <1>2

-----------------------------------------------------------------------------
(* The hash map *)

LEMMA KeysAre ==
  /\ CommandKeys = {<<119>>, <<104>>, <<114>>, <<97>>, <<112>>, <<115>>, <<117>>, <<116>>}
  /\ CommandKeys \subseteq String
<1>1. DOMAIN AttributeKeys = {"width", "height", "request", "action", "projectid", "shellid", "userid"}
  BY DEF AttributeKeys
<1>2. CommandKeys = {<<119>>, <<104>>, <<114>>, <<97>>, <<112>>, <<115>>, <<117>>, <<116>>}
  BY <1>1 DEF CommandKeys, AttributeKeys, TextKey
<1>3. \A c \in 1 .. 255 : <<c>> \in String
  BY DEF String
<1> QED
  BY <1>2, <1>3

Items == [key : String, val : String]

LEMMA EmptyMap ==
  create_hashmap \in HashMaps /\ \A key \in CommandKeys : hashmap_get(create_hashmap, key) = Null
<1>1. <<>> \in Seq([key : String, val : String]) /\ DOMAIN <<>> = {}
  OBVIOUS
<1>2. create_hashmap \in HashMaps
  BY <1>1 DEF create_hashmap, HashMaps
<1>3. ASSUME NEW key \in CommandKeys PROVE Positions(create_hashmap, key) = {}
  <2>1. create_hashmap[Bucket(key)] = <<>>
    BY BucketAssumption DEF create_hashmap
  <2> QED
    BY <1>1, <2>1 DEF Positions
<1> QED
  BY <1>2, <1>3 DEF hashmap_get

\* The bucket of a key after a put, and the item there.
LEMMA PutBucket ==
  ASSUME NEW m \in HashMaps, NEW key \in CommandKeys, NEW val \in String
  PROVE  LET c == m[Bucket(key)]
             d == hashmap_put(m, key, val)[Bucket(key)]
             item == [key |-> key, val |-> val]
         IN  /\ hashmap_put(m, key, val) \in HashMaps
             /\ \A b \in 1 .. NumBuckets : b # Bucket(key) => hashmap_put(m, key, val)[b] = m[b]
             /\ c \in Seq(Items) /\ d \in Seq(Items)
             /\ Positions(m, key) = {} => d = Append(c, item)
             /\ Positions(m, key) # {} =>
                  Len(d) = Len(c) /\ \A i \in 1 .. Len(c) : d[i] = IF c[i].key = key THEN item ELSE c[i]
<1> DEFINE c == m[Bucket(key)]
           item == [key |-> key, val |-> val]
           new == IF Positions(m, key) = {} THEN Append(c, item)
                  ELSE [i \in DOMAIN c |-> IF c[i].key = key THEN item ELSE c[i]]
           put == hashmap_put(m, key, val)
<1>1. item \in Items /\ Bucket(key) \in 1 .. NumBuckets /\ m \in [1 .. NumBuckets -> Seq(Items)]
  <2>1. key \in String /\ Bucket(key) \in 1 .. NumBuckets
    BY BucketAssumption, KeysAre
  <2> QED
    BY <2>1 DEF Items, HashMaps
<1>2. c \in Seq(Items) /\ DOMAIN c = 1 .. Len(c) /\ Len(c) \in Nat
  BY <1>1
<1>3. put = [m EXCEPT ![Bucket(key)] = new]
  BY DEF hashmap_put
<1> HIDE DEF item, c
<1>4. /\ Positions(m, key) = {} => new = Append(c, item)
      /\ Positions(m, key) # {} => Len(new) = Len(c) /\ \A i \in 1 .. Len(c) : new[i] = IF c[i].key = key THEN item ELSE c[i]
      /\ new \in Seq(Items)
  <2>1. CASE Positions(m, key) = {}
    BY <1>1, <1>2, <2>1
  <2>2. CASE Positions(m, key) # {}
    <3>1. new = [i \in 1 .. Len(c) |-> IF c[i].key = key THEN item ELSE c[i]]
      BY <1>2, <2>2, Zenon
    <3>2. \A i \in 1 .. Len(c) : (IF c[i].key = key THEN item ELSE c[i]) \in Items
      BY <1>1, <1>2
    <3> HIDE DEF new
    <3>3. new \in [1 .. Len(c) -> Items]
      BY <3>1, <3>2
    <3>4. new \in Seq(Items) /\ Len(new) = Len(c)
      BY <1>2, <3>3, SeqDef
    <3>5. \A i \in 1 .. Len(c) : new[i] = IF c[i].key = key THEN item ELSE c[i]
      BY <3>1
    <3> QED
      BY <2>2, <3>4, <3>5
  <2> QED
    BY <2>1, <2>2
<1> HIDE DEF new, put
<1>5. /\ put \in [1 .. NumBuckets -> Seq(Items)] /\ put[Bucket(key)] = new
      /\ \A b \in 1 .. NumBuckets : b # Bucket(key) => put[b] = m[b]
  BY <1>1, <1>3, <1>4
<1> QED
  BY <1>2, <1>4, <1>5 DEF HashMaps, Items, put, c, item

\* The item that is found for a key.
Found(m, key, i) ==
  /\ i \in Positions(m, key) /\ \A j \in Positions(m, key) : i <= j
  /\ hashmap_get(m, key) = m[Bucket(key)][i].val

LEMMA GetFinds ==
  ASSUME NEW m, NEW key, m[Bucket(key)] \in Seq(Items)
  PROVE  /\ Positions(m, key) = {} => hashmap_get(m, key) = Null
         /\ Positions(m, key) # {} => \E i \in Nat : Found(m, key, i)
<1> DEFINE P == Positions(m, key)
           first == CHOOSE i \in P : \A j \in P : i <= j
<1>1. P \subseteq Nat
  BY DEF Positions
<1>2. hashmap_get(m, key) = IF P = {} THEN Null ELSE m[Bucket(key)][first].val
  BY DEF hashmap_get
<1>3. ASSUME P # {} PROVE first \in P /\ \A j \in P : first <= j
  <2> HIDE DEF P
  <2>1. \E i \in P : \A j \in P : i <= j
    BY <1>1, <1>3, Least
  <2> QED
    BY <2>1
<1> HIDE DEF first
<1> QED
  BY <1>1, <1>2, <1>3 DEF Found

LEMMA GetType ==
  ASSUME NEW m \in HashMaps, NEW key \in CommandKeys
  PROVE  hashmap_get(m, key) \in String \cup {Null} /\ m[Bucket(key)] \in Seq(Items)
<1>1. m[Bucket(key)] \in Seq(Items)
  BY BucketAssumption DEF HashMaps, Items
<1>2. CASE Positions(m, key) = {}
  BY <1>1, <1>2, GetFinds
<1>3. CASE Positions(m, key) # {}
  <2>1. PICK i \in Nat : Found(m, key, i)
    BY <1>1, <1>3, GetFinds
  <2>2. i \in 1 .. Len(m[Bucket(key)])
    BY <1>1, <2>1 DEF Found, Positions
  <2>3. m[Bucket(key)][i] \in Items
    BY <1>1, <2>2, ElementOfSeq
  <2> QED
    BY <1>1, <2>1, <2>3 DEF Found, Items
<1> QED
  BY <1>2, <1>3

\* What is put is what is got, and nothing else changes.
LEMMA PutGet ==
  ASSUME NEW m \in HashMaps, NEW key \in CommandKeys, NEW val \in String, NEW other \in CommandKeys
  PROVE  hashmap_get(hashmap_put(m, key, val), other) = IF other = key THEN val ELSE hashmap_get(m, other)
<1> DEFINE put == hashmap_put(m, key, val)
           b == Bucket(key)
           c == m[b]
           d == put[b]
           item == [key |-> key, val |-> val]
           P == Positions(m, key)
<1>1. /\ put \in HashMaps /\ c \in Seq(Items) /\ d \in Seq(Items)
      /\ \A x \in 1 .. NumBuckets : x # b => put[x] = m[x]
      /\ P = {} => d = Append(c, item)
      /\ P # {} => Len(d) = Len(c) /\ \A i \in 1 .. Len(c) : d[i] = IF c[i].key = key THEN item ELSE c[i]
  BY PutBucket
<1>2. item.key = key /\ item.val = val
  OBVIOUS
<1>3. /\ put[Bucket(other)] \in Seq(Items) /\ m[Bucket(other)] \in Seq(Items)
      /\ Bucket(other) \in 1 .. NumBuckets
  BY <1>1, GetType, BucketAssumption
<1>4. /\ \A i : i \in P <=> i \in 1 .. Len(c) /\ c[i].key = key
      /\ \A i : i \in Positions(put, key) <=> i \in 1 .. Len(d) /\ d[i].key = key
  BY <1>1 DEF Positions
<1> HIDE DEF put, b, c, d, item, P
<1>5. P = {} => /\ Len(d) = Len(c) + 1 /\ d[Len(c) + 1] = item
                /\ \A i \in 1 .. Len(c) : d[i] = c[i]
  BY <1>1
<1>6. Len(c) \in Nat
  BY <1>1
<1>7. CASE other = key
  <2>1. \A i : i \in Positions(put, key) => d[i] = item
    <3>1. CASE P = {}
      <4>1. \A i \in 1 .. Len(c) : d[i].key # key
        BY <1>4, <1>5, <3>1
      <4>2. \A i \in 1 .. Len(d) : i \in 1 .. Len(c) \/ i = Len(c) + 1
        BY <1>5, <1>6, <3>1
      <4> QED
        BY <1>4, <1>5, <3>1, <4>1, <4>2
    <3>2. CASE P # {}
      BY <1>1, <1>4, <3>2
    <3> QED
      BY <3>1, <3>2
  <2>2. Positions(put, key) # {}
    <3>1. CASE P = {}
      <4>1. Len(c) + 1 \in 1 .. Len(d)
        BY <1>5, <1>6, <3>1
      <4> QED
        BY <1>2, <1>4, <1>5, <3>1, <4>1
    <3>2. CASE P # {}
      <4>1. PICK i : i \in P
        BY <3>2
      <4> QED
        BY <1>1, <1>2, <1>4, <3>2, <4>1
    <3> QED
      BY <3>1, <3>2
  <2>3. PICK i \in Nat : Found(put, key, i)
    BY <1>3, <1>7, <2>2, GetFinds
  <2>4. hashmap_get(put, key) = d[i].val /\ i \in Positions(put, key)
    BY <2>3 DEF Found, d, b
  <2> QED
    BY <1>2, <1>7, <2>1, <2>4 DEF put
<1>8. CASE other # key
  <2>1. /\ Positions(put, other) = Positions(m, other)
        /\ \A i \in Positions(m, other) : put[Bucket(other)][i] = m[Bucket(other)][i]
    <3>1. CASE Bucket(other) # b
      <4>1. put[Bucket(other)] = m[Bucket(other)]
        BY <1>1, <1>3, <3>1
      <4> QED
        BY <4>1 DEF Positions
    <3>2. CASE Bucket(other) = b
      <4>1. \A i : i \in Positions(m, other) <=> i \in 1 .. Len(c) /\ c[i].key = other
        BY <1>1, <3>2 DEF Positions, c
      <4>2. \A i : i \in Positions(put, other) <=> i \in 1 .. Len(d) /\ d[i].key = other
        BY <1>1, <3>2 DEF Positions, d
      <4>3. CASE P = {}
        <5>1. \A i : i \in 1 .. Len(d) /\ d[i].key = other <=> i \in 1 .. Len(c) /\ c[i].key = other
          <6>1. \A i : i \in 1 .. Len(d) <=> i \in 1 .. Len(c) \/ i = Len(c) + 1
            BY <1>5, <1>6, <4>3
          <6> QED
            BY <1>2, <1>5, <1>8, <4>3, <6>1
        <5> QED
          BY <1>5, <3>2, <4>1, <4>2, <4>3, <5>1 DEF c, d
      <4>4. CASE P # {}
        <5>1. \A i \in 1 .. Len(c) : d[i].key = other <=> c[i].key = other
          BY <1>1, <1>2, <1>8, <4>4
        <5>2. \A i \in 1 .. Len(c) : c[i].key = other => d[i] = c[i]
          BY <1>1, <1>8, <4>4
        <5> QED
          BY <1>1, <3>2, <4>1, <4>2, <4>4, <5>1, <5>2 DEF c, d
      <4> QED
        BY <4>3, <4>4
    <3> QED
      BY <3>1, <3>2
  <2>2. CASE Positions(m, other) = {}
    BY <1>3, <1>8, <2>1, <2>2, GetFinds DEF put
  <2>3. CASE Positions(m, other) # {}
    <3>1. PICK i \in Nat : Found(m, other, i)
      BY <1>3, <2>3, GetFinds
    <3>2. PICK j \in Nat : Found(put, other, j)
      BY <1>3, <2>1, <2>3, GetFinds
    <3>3. i \in Positions(m, other) /\ j \in Positions(m, other) /\ i <= j /\ j <= i
      BY <2>1, <3>1, <3>2 DEF Found
    <3>4. i = j
      BY <3>3
    <3> QED
      BY <1>8, <2>1, <3>1, <3>2, <3>3, <3>4 DEF Found, put
  <2> QED
    BY <2>2, <2>3
<1> QED
  BY <1>7, <1>8

-----------------------------------------------------------------------------
(* The hypervisor reads a command *)

\* The pairs of a command: the keys are among those it looks for.
IsCommand(pairs) ==
  pairs \in Pairs /\ AllWritable(pairs) /\ \A i \in 1 .. Len(pairs) : pairs[i][1] \in CommandKeys

\* The hash map after each pair.
Collects(pairs, f) ==
  /\ f \in [0 .. Len(pairs) -> HashMaps] /\ f[0] = create_hashmap
  /\ \A i \in 1 .. Len(pairs) : f[i] = hashmap_put(f[i - 1], pairs[i][1], CString(pairs[i][2]))

LEMMA CommandPair ==
  ASSUME NEW pairs, IsCommand(pairs), NEW i \in 1 .. Len(pairs)
  PROVE  /\ pairs[i][1] \in CommandKeys /\ CString(pairs[i][2]) \in String
         /\ CString(pairs[i][1]) = pairs[i][1]
<1>1. pairs[i][1] \in CommandKeys /\ pairs[i][2] \in Seq(Byte)
  BY PairType DEF IsCommand
<1> QED
  BY <1>1, KeysAre, StringIsBytes, CStringType, ZenonT(60)

LEMMA Collecting ==
  ASSUME NEW pairs, IsCommand(pairs)
  PROVE  \E f : Collects(pairs, f)
<1> DEFINE N == Len(pairs)
           put(m, i) == hashmap_put(m, pairs[i][1], CString(pairs[i][2]))
           step == [p \in HashMaps \X Nat |-> IF p[2] \in 1 .. N THEN put(p[1], p[2]) ELSE p[1]]
<1>1. N \in Nat
  BY DEF IsCommand, Pairs
<1>2. \A m \in HashMaps, i \in 1 .. N : put(m, i) \in HashMaps
  BY CommandPair, PutBucket
<1> HIDE DEF put, N
<1>3. step \in [HashMaps \X Nat -> HashMaps]
  BY <1>2
<1>4. \A m \in HashMaps, i \in 1 .. N : step[<<m, i>>] = put(m, i)
  BY <1>1
<1> HIDE DEF step
<1>5. PICK f \in [0 .. N -> HashMaps] : Recursive(f, 0, N, create_hashmap, step)
  BY <1>1, <1>3, 0 \in Nat, 0 <= N, EmptyMap, Recursion, Zenon
<1>6. \A i \in 1 .. N : f[i] = put(f[i - 1], i)
  <2> TAKE i \in 1 .. N
  <2>1. i \in 0 + 1 .. N /\ i - 1 \in 0 .. N
    BY <1>1
  <2> QED
    BY <1>4, <1>5, <2>1 DEF Recursive
<1>7. f[0] = create_hashmap
  BY <1>5 DEF Recursive
<1> QED
  BY <1>6, <1>7 DEF Collects, N, put

\* The last value that is given to a key by the first pairs, if any.
LEMMA CollectedGet ==
  ASSUME NEW pairs, IsCommand(pairs), NEW f, Collects(pairs, f), NEW key \in CommandKeys,
         NEW n \in 0 .. Len(pairs)
  PROVE  LET given == {i \in 1 .. n : pairs[i][1] = key}
             value == hashmap_get(f[n], key)
         IN  /\ given = {} => value = Null
             /\ given # {} => \E i \in given : value = CString(pairs[i][2])
<1> DEFINE N == Len(pairs)
           given(k) == {i \in 1 .. k : pairs[i][1] = key}
           value(k) == hashmap_get(f[k], key)
           Right(k) == /\ given(k) = {} => value(k) = Null
                       /\ given(k) # {} => \E i \in given(k) : value(k) = CString(pairs[i][2])
           S == {k \in 0 .. N : Right(k)}
<1>1. N \in Nat /\ 0 \in Nat
  BY DEF IsCommand, Pairs
<1>2. 0 \in S
  <2>1. value(0) = Null
    BY EmptyMap DEF Collects
  <2>2. given(0) = {} /\ 0 \in 0 .. N
    BY <1>1
  <2> HIDE DEF given, value
  <2> QED
    BY <2>1, <2>2
<1>3. ASSUME NEW k \in 0 + 1 .. N, k - 1 \in S PROVE k \in S
  <2>1. k \in 1 .. N /\ k - 1 \in 0 .. N /\ k \in 0 .. N
    BY <1>1
  <2>2. value(k) = IF key = pairs[k][1] THEN CString(pairs[k][2]) ELSE value(k - 1)
    <3>1. f[k] = hashmap_put(f[k - 1], pairs[k][1], CString(pairs[k][2])) /\ f[k - 1] \in HashMaps
      BY <2>1 DEF Collects
    <3>2. pairs[k][1] \in CommandKeys /\ CString(pairs[k][2]) \in String
      BY <2>1, CommandPair
    <3> QED
      BY <3>1, <3>2, PutGet
  <2>3. \A i : i \in given(k) <=> i \in given(k - 1) \/ (i = k /\ pairs[k][1] = key)
    <3>1. \A i : i \in 1 .. k <=> i \in 1 .. k - 1 \/ i = k
      BY <2>1
    <3> QED
      BY <3>1
  <2>4. Right(k - 1)
    BY <1>3
  <2> HIDE DEF given, value
  <2>5. CASE key = pairs[k][1]
    <3>1. k \in given(k) /\ value(k) = CString(pairs[k][2])
      BY <2>2, <2>3, <2>5
    <3> QED
      BY <2>1, <3>1
  <2>6. CASE key # pairs[k][1]
    <3>1. given(k) = given(k - 1) /\ value(k) = value(k - 1)
      BY <2>2, <2>3, <2>6
    <3> QED
      BY <2>1, <2>4, <3>1
  <2> QED
    BY <2>5, <2>6
<1> HIDE DEF S
<1>4. \A k \in 0 .. N : k \in S
  BY <1>1, <1>2, <1>3, UpTo
<1>5. n \in S
  BY <1>4
<1> QED
  BY <1>5 DEF S

LEMMA MapBegins ==
  ASSUME NEW pairs \in Pairs, AllWritable(pairs), NEW size, LengthFits(size, 4)
  PROVE  ReadMap(MapBytes(size, pairs), 0) = Result(TRUE, EndOf(size, pairs, 0), size)
<1> DEFINE h == Header(MapType(size), size)
           rest == FlattenSeq(BytesOf(pairs))
           buf == MapBytes(size, pairs)
<1>1. h \in Seq(Byte) /\ rest \in Seq(Byte) /\ buf \in Seq(Byte)
  BY MapHeader, BytesOfPairs, FlattenType, MapWritten
<1>2. There(buf, 0, h)
  <2>1. buf = h \o rest
    BY DEF MapBytes
  <2> HIDE DEF h, rest, buf
  <2>2. <<>> \in Seq(Byte) /\ Len(<<>>) = 0 /\ <<>> \o (h \o rest) = h \o rest
    BY <1>1
  <2>3. There(<<>> \o (h \o rest), Len(<<>>), h)
    BY <1>1, <2>2, ThereInside
  <2> QED
    BY <2>1, <2>2, <2>3
<1>3. ReadMap(buf, 0) = Result(TRUE, 0 + Len(h), size)
  BY <1>1, <1>2, MapRead
<1>4. Beginnings(BytesOf(pairs))[0] = <<>>
  BY BytesOfPairs, BeginningsGrow
<1>5. EndOf(size, pairs, 0) = Len(h) + 0 /\ Len(h) \in Nat
  BY <1>1, <1>4 DEF EndOf
<1>6. EndOf(size, pairs, 0) = 0 + Len(h)
  <2> HIDE DEF h
  <2> QED
    BY <1>5
<1> QED
  BY <1>3, <1>6

\* The hypervisor reads as many of the pairs as the header says.
LEMMA CommandRead ==
  ASSUME NEW pairs, IsCommand(pairs), NEW N \in 0 .. Len(pairs), LengthFits(2 * N, 4)
  PROVE  \E f : Collects(pairs, f) /\ onMessage(MapBytes(2 * N, pairs)) = f[N]
<1> DEFINE size == 2 * N
           buf == MapBytes(size, pairs)
           at(i) == EndOf(size, pairs, i)
           map == ReadMap(buf, 0)
           more(r) == IF r.ok THEN ReadPair(r, ReadStrings(buf, r.at)) ELSE r
           start == Result(map.ok, map.at, create_hashmap)
           Next0(g) == [i \in 0 .. map.v \div 2 |-> IF i = 0 THEN start ELSE more(g[i - 1])]
           read == CHOOSE g : g = Next0(g)
<1>1. N \in Nat /\ pairs \in Pairs /\ AllWritable(pairs) /\ \A i \in 1 .. N : i \in 1 .. Len(pairs)
  BY DEF IsCommand, Pairs
<1>2. map.ok = TRUE /\ map.at = at(0) /\ map.v = size
  BY <1>1, MapBegins DEF Result
<1>3. map.v \div 2 = N
  <2>1. (2 * N) \div 2 = N
    BY <1>1
  <2> QED
    BY <1>2, <2>1
<1>4. onMessage(buf) = OrNull(read[map.v \div 2])
  BY DEF onMessage, ReadPairs, ReadMore
<1>5. PICK f : Collects(pairs, f)
  BY Collecting
<1> DEFINE result == [i \in 0 .. N |-> Result(TRUE, at(i), f[i])]
<1>6. \A i \in 1 .. N : ReadStrings(buf, at(i - 1)) = Result(TRUE, at(i), [key |-> pairs[i][1], val |-> pairs[i][2]])
  BY <1>1, PairRead
<1>7. \A i \in 1 .. N : more(Result(TRUE, at(i - 1), f[i - 1])) = Result(TRUE, at(i), f[i])
  <2> TAKE i \in 1 .. N
  <2> DEFINE r == Result(TRUE, at(i - 1), f[i - 1])
             k == pairs[i][1]
             v == pairs[i][2]
             pair == Result(TRUE, at(i), [key |-> k, val |-> v])
  <2>1. r.ok = TRUE /\ r.at = at(i - 1) /\ r.v = f[i - 1]
    BY DEF Result
  <2>2. pair.ok = TRUE /\ pair.at = at(i) /\ pair.v.key = k /\ pair.v.val = v
    BY DEF Result
  <2>3. ReadStrings(buf, at(i - 1)) = pair
    BY <1>6
  <2>4. f[i] = hashmap_put(f[i - 1], CString(k), CString(v))
    BY <1>1, <1>5, CommandPair DEF Collects
  <2> HIDE DEF r, k, v, pair, buf, at
  <2>5. more(r) = ReadPair(r, pair)
    BY <2>1, <2>3
  <2>6. ReadPair(r, pair) = Result(TRUE, at(i), hashmap_put(r.v, CString(k), CString(v)))
    BY <2>2, Zenon DEF ReadPair, Then
  <2> QED
    BY <2>1, <2>4, <2>5, <2>6 DEF r
<1> HIDE DEF more, at, map, buf, size
<1>8. start = Result(TRUE, at(0), f[0])
  BY <1>2, <1>5 DEF Collects
<1> HIDE DEF start
<1>9. result = Next0(result)
  <2>1. \A i \in 0 .. N : result[i] = IF i = 0 THEN start ELSE more(result[i - 1])
    <3> TAKE i \in 0 .. N
    <3>1. CASE i = 0
      BY <1>1, <1>8, <3>1
    <3>2. CASE i # 0
      <4>1. i \in 1 .. N /\ i - 1 \in 0 .. N
        BY <1>1, <3>2
      <4>2. result[i] = Result(TRUE, at(i), f[i]) /\ result[i - 1] = Result(TRUE, at(i - 1), f[i - 1])
        BY <4>1
      <4> QED
        BY <1>7, <3>2, <4>1, <4>2
    <3> QED
      BY <3>1, <3>2
  <2> QED
    BY <1>3, <2>1
<1>10. read = Next0(read)
  <2> HIDE DEF Next0, result
  <2> QED
    BY <1>9
<1> HIDE DEF read
<1>11. \A i \in 0 .. N : read[i] = IF i = 0 THEN start ELSE more(read[i - 1])
  BY <1>3, <1>10
<1> HIDE DEF Next0
<1>12. read[N] = Result(TRUE, at(N), f[N])
  <2> DEFINE S == {i \in 0 .. N : read[i] = Result(TRUE, at(i), f[i])}
  <2>1. 0 \in S
    <3>1. 0 \in 0 .. N
      BY <1>1
    <3>2. read[0] = start
      BY <1>11, <3>1
    <3> QED
      BY <1>8, <3>1, <3>2
  <2>2. ASSUME NEW i \in 0 + 1 .. N, i - 1 \in S PROVE i \in S
    <3>1. i \in 1 .. N /\ i \in 0 .. N /\ i # 0
      BY <1>1
    <3>2. read[i] = more(read[i - 1])
      BY <1>11, <3>1
    <3> QED
      BY <1>7, <2>2, <3>1, <3>2
  <2> HIDE DEF S
  <2>3. \A i \in 0 .. N : i \in S
    BY <1>1, <2>1, <2>2, 0 \in Nat, UpTo
  <2>4. N \in S
    BY <1>1, <2>3
  <2> QED
    BY <2>4 DEF S
<1>13. OrNull(Result(TRUE, at(N), f[N])) = f[N]
  BY DEF OrNull, Result
<1>14. onMessage(buf) = f[N]
  BY <1>3, <1>4, <1>12, <1>13
<1> QED
  BY <1>5, <1>14 DEF buf, size

-----------------------------------------------------------------------------
(* The room a message takes *)

LEMMA StringLength ==
  ASSUME NEW s, Writable(s)
  PROVE  /\ Len(StringBytes(s)) \in Nat
         /\ Len(StringBytes(s)) <= Len(s) + 5
         /\ Len(s) <= 255 => Len(StringBytes(s)) <= Len(s) + 2
         /\ Len(s) <= 31 => Len(StringBytes(s)) = Len(s) + 1
<1> DEFINE n == Len(s)
           t == StrType(n)
           h == Header(t, n)
<1>1. t \in Strs /\ IsValue(t, n) /\ s \in Seq(Byte) /\ n \in Nat
  BY LengthTypes DEF Writable
<1>2. h \in Seq(Byte)
  BY <1>1, ObjectWritten
<1>3. Len(StringBytes(s)) = Len(h) + n
  <2> HIDE DEF h
  <2>1. StringBytes(s) = h \o s
    BY DEF StringBytes, h
  <2> QED
    BY <1>1, <1>2, <2>1
<1>4. t = IF n <= 31 THEN "fixstr" ELSE IF n <= 255 THEN "str8" ELSE IF n <= 65535 THEN "str16" ELSE "str32"
  BY FixLengths DEF StrType, FixOr
<1>5. t = "fixstr" => Len(h) = 1
  BY DEF Header, Small
<1>6. ASSUME t # "fixstr" PROVE Len(h) = 1 + Width[t] /\ Width[t] \in {1, 2, 4}
  <2>1. t \in Strs \ {"fixstr"} /\ t \notin Small
    BY <1>1, <1>6 DEF Strs, Small
  <2>2. Width[t] \in {1, 2, 4} /\ LengthFits(n, Width[t])
    BY <1>1, <2>1, Widths, ObjectKinds
  <2>3. Len(BigEndian(n, Width[t])) = Width[t] /\ BigEndian(n, Width[t]) \in Seq(Byte)
    BY <2>2, LengthKept
  <2>4. Body(t, n) = BigEndian(n, Width[t])
    <3>1. Fixexts = {"fixext1", "fixext2", "fixext4", "fixext8", "fixext16"}
      BY DEF Fixexts, Fixext
    <3> QED
      BY <2>1, <3>1 DEF Body, Unsigned, Signed, Exts, Strs, Bins, Arrays, Maps
  <2>5. h = <<Marker[t]>> \o BigEndian(n, Width[t])
    BY <2>1, <2>4 DEF Header
  <2> DEFINE b == BigEndian(n, Width[t])
             m == Marker[t]
  <2>6. Len(<<m>> \o b) = 1 + Len(b)
    <3> HIDE DEF m, b
    <3>1. b \in Seq(Byte)
      BY <2>3 DEF b
    <3>2. m \in Byte
      BY <2>1, MarkerTypes, MarkerByte DEF m
    <3> QED
      BY <3>1, <3>2
  <2> QED
    BY <2>2, <2>3, <2>5, <2>6
<1>7. Width["str8"] = 1 /\ Width["str16"] = 2 /\ Width["str32"] = 4
  BY DEF Width
<1> HIDE DEF t, h, n
<1> DEFINE k == Len(h)
           all == Len(StringBytes(s))
<1> HIDE DEF k, all
<1>8. n \in Nat /\ k \in Nat /\ all = k + n
  BY <1>1, <1>2, <1>3 DEF k, all
<1>9. n <= 31 => k = 1
  BY <1>4, <1>5 DEF k
<1>10. n > 31 /\ n <= 255 => k = 2
  <2>1. n > 31 /\ n <= 255 => t = "str8"
    BY <1>4, <1>8
  <2>2. t = "str8" => k = 1 + 1
    BY <1>6, <1>7 DEF k
  <2> QED
    BY <2>1, <2>2
<1>11. n > 255 => k <= 5
  <2>1. n > 255 => t \in {"str16", "str32"}
    BY <1>4, <1>8
  <2>2. t \in {"str16", "str32"} => k \in {1 + 2, 1 + 4}
    BY <1>6, <1>7 DEF k
  <2> QED
    BY <2>1, <2>2
<1>12. all \in Nat /\ all <= n + 5 /\ (n <= 255 => all <= n + 2) /\ (n <= 31 => all = n + 1)
  BY <1>8, <1>9, <1>10, <1>11
<1> QED
  BY <1>12, Zenon DEF all, n

LEMMA MapHeaderLength ==
  ASSUME NEW n, LengthFits(n, 4)
  PROVE  /\ Len(Header(MapType(n), n)) \in Nat /\ Len(Header(MapType(n), n)) <= 5
         /\ n <= 15 => Len(Header(MapType(n), n)) = 1
<1> DEFINE t == MapType(n)
           h == Header(t, n)
<1>1. t \in Maps /\ IsValue(t, n) /\ n \in Nat
  BY LengthTypes DEF LengthFits
<1>2. h \in Seq(Byte)
  BY <1>1, ObjectWritten
<1>3. t = IF n <= 15 THEN "fixmap" ELSE IF n <= 65535 THEN "map16" ELSE "map32"
  BY FixLengths DEF MapType, FixOr
<1>4. t = "fixmap" => Len(h) = 1
  BY DEF Header, Small
<1>5. ASSUME t # "fixmap" PROVE Len(h) = 1 + Width[t] /\ Width[t] \in {1, 2, 4}
  <2>1. t \in Maps \ {"fixmap"} /\ t \notin Small
    BY <1>1, <1>5 DEF Maps, Small
  <2>2. Width[t] \in {1, 2, 4} /\ LengthFits(n, Width[t])
    BY <1>1, <2>1, Widths, ObjectKinds
  <2>3. Len(BigEndian(n, Width[t])) = Width[t] /\ BigEndian(n, Width[t]) \in Seq(Byte)
    BY <2>2, LengthKept
  <2>4. Body(t, n) = BigEndian(n, Width[t])
    <3>1. Fixexts = {"fixext1", "fixext2", "fixext4", "fixext8", "fixext16"}
      BY DEF Fixexts, Fixext
    <3> QED
      BY <2>1, <3>1 DEF Body, Unsigned, Signed, Exts, Strs, Bins, Arrays, Maps
  <2>5. h = <<Marker[t]>> \o BigEndian(n, Width[t])
    BY <2>1, <2>4 DEF Header
  <2> DEFINE b == BigEndian(n, Width[t])
             m == Marker[t]
  <2>6. Len(<<m>> \o b) = 1 + Len(b)
    <3> HIDE DEF m, b
    <3>1. b \in Seq(Byte)
      BY <2>3 DEF b
    <3>2. m \in Byte
      BY <2>1, MarkerTypes, MarkerByte DEF m
    <3> QED
      BY <3>1, <3>2
  <2> QED
    BY <2>2, <2>3, <2>5, <2>6
<1> HIDE DEF t, h
<1>6. Width["map16"] = 2 /\ Width["map32"] = 4 /\ Len(h) \in Nat
  BY <1>2 DEF Width
<1>7. n <= 15 => Len(h) = 1
  BY <1>3, <1>4
<1>8. Len(h) <= 5
  <2>1. CASE t = "fixmap"
    BY <1>4, <2>1
  <2>2. CASE t # "fixmap"
    BY <1>5, <2>2
  <2> QED
    BY <2>1, <2>2
<1> QED
  BY <1>6, <1>7, <1>8 DEF t, h

\* Two functions that take the same steps end in the same value.
LEMMA SameEnd ==
  ASSUME NEW n \in Nat, NEW f, NEW w, w[0] = f[0], \A i \in 1 .. n : w[i - 1] = f[i - 1] => w[i] = f[i]
  PROVE  w[n] = f[n]
<1> DEFINE S == {i \in 0 .. n : w[i] = f[i]}
<1>1. 0 \in S
  OBVIOUS
<1>2. ASSUME NEW i \in 0 + 1 .. n, i - 1 \in S PROVE i \in S
  <2>1. i \in 1 .. n /\ i \in 0 .. n
    OBVIOUS
  <2> QED
    BY <1>2, <2>1
<1> HIDE DEF S
<1>3. \A i \in 0 .. n : i \in S
  BY <1>1, <1>2, 0 \in Nat, UpTo
<1>4. n \in S
  BY <1>3
<1> QED
  BY <1>4 DEF S

Attribute == [name : DOMAIN NameLength, word : DOMAIN WordLength, value : String]

LEMMA AttributeRoom ==
  ASSUME NEW a \in Attribute
  PROVE  /\ AttributeLength(a) \in Nat /\ AttributeLength(a) >= Len(a.value) + 9 /\ Len(a.value) \in Nat
         /\ a.name = "action" => AttributeLength(a) >= 10
<1>1. \A n \in DOMAIN NameLength : NameLength[n] \in Nat /\ NameLength[n] >= 5
  BY DEF NameLength
<1>2. \A w \in DOMAIN WordLength : WordLength[w] \in Nat
  BY DEF WordLength
<1>3. NameLength["action"] = 6
  BY DEF NameLength
<1>4. a.name \in DOMAIN NameLength /\ a.word \in DOMAIN WordLength /\ a.value \in String
  BY DEF Attribute
<1>5. Len(a.value) \in Nat
  BY <1>4 DEF String
<1> QED
  <2> DEFINE x == NameLength[a.name]
             y == WordLength[a.word]
             z == Len(a.value)
  <2>1. x \in Nat /\ x >= 5 /\ y \in Nat /\ z \in Nat /\ (a.name = "action" => x = 6)
    BY <1>1, <1>2, <1>3, <1>4, <1>5
  <2>2. AttributeLength(a) = x + y + z + 4
    BY DEF AttributeLength
  <2> HIDE DEF x, y, z
  <2>3. AttributeLength(a) \in Nat /\ AttributeLength(a) >= z + 9 /\ (a.name = "action" => AttributeLength(a) >= 10)
    BY <2>1, <2>2
  <2> QED
    BY <2>1, <2>3 DEF z

\* The length of the first attributes of a stanza, and of what is around them.
Growing(stanza, f) ==
  /\ f \in [0 .. Len(stanza.attrs) -> Nat]
  /\ f[0] = IF stanza.text = Null THEN 9 ELSE 17 + Len(stanza.text)
  /\ \A i \in 1 .. Len(stanza.attrs) : f[i] = f[i - 1] + AttributeLength(stanza.attrs[i])
  /\ f[Len(stanza.attrs)] = StanzaLength(stanza)

LEMMA StanzaAttributes ==
  ASSUME NEW stanza, IsStanza(stanza)
  PROVE  /\ stanza.attrs \in Seq(Attribute) /\ Len(stanza.attrs) \in Nat /\ DOMAIN stanza.attrs = 1 .. Len(stanza.attrs)
         /\ \A i \in 1 .. Len(stanza.attrs) : stanza.attrs[i] \in Attribute
         /\ stanza.text # Null => stanza.text \in String /\ stanza.text \in Seq(Byte) /\ Len(stanza.text) \in Nat
<1>1. stanza.attrs \in Seq(Attribute)
  BY DEF IsStanza, Attribute
<1>2. stanza.text # Null => stanza.text \in String
  BY DEF IsStanza
<1>3. stanza.text # Null => stanza.text \in Seq(Byte)
  BY <1>2, StringIsBytes
<1> QED
  BY <1>1, <1>2, <1>3, ElementOfSeq

LEMMA StanzaGrows ==
  ASSUME NEW stanza, IsStanza(stanza)
  PROVE  \E f : Growing(stanza, f)
<1> DEFINE attrs == stanza.attrs
           N == Len(attrs)
           base == IF stanza.text = Null THEN 9 ELSE 17 + Len(stanza.text)
           len(i) == AttributeLength(attrs[i])
           step == [p \in Nat \X Nat |-> IF p[2] \in 1 .. N THEN p[1] + len(p[2]) ELSE p[1]]
           Next0(g) == [i \in 0 .. N |-> IF i = 0 THEN base ELSE g[i - 1] + AttributeLength(attrs[i])]
           length == CHOOSE g : g = Next0(g)
<1>1. N \in Nat /\ base \in Nat /\ \A i \in 1 .. N : len(i) \in Nat
  BY StanzaAttributes, AttributeRoom
<1>2. StanzaLength(stanza) = length[N]
  BY DEF StanzaLength
<1> HIDE DEF base
<1>3. step \in [Nat \X Nat -> Nat] /\ \A x \in Nat, i \in 1 .. N : step[<<x, i>>] = x + len(i)
  <2> HIDE DEF len, N
  <2> QED
    BY <1>1
<1> HIDE DEF step
<1>4. PICK f \in [0 .. N -> Nat] : Recursive(f, 0, N, base, step)
  <2> HIDE DEF N
  <2> QED
    BY <1>1, <1>3, 0 \in Nat, 0 <= N, Recursion, Zenon
<1>5. f[0] = base /\ \A i \in 1 .. N : f[i] = f[i - 1] + len(i)
  <2>1. \A i \in 1 .. N : i \in 0 + 1 .. N /\ i - 1 \in 0 .. N
    BY <1>1
  <2> HIDE DEF len, N
  <2> QED
    BY <1>3, <1>4, <2>1 DEF Recursive
<1>6. f = Next0(f)
  <2>1. \A i \in 0 .. N : f[i] = IF i = 0 THEN base ELSE f[i - 1] + AttributeLength(attrs[i])
    <3>1. \A i \in 0 .. N : i = 0 \/ i \in 1 .. N
      BY <1>1
    <3> HIDE DEF N, attrs
    <3> QED
      BY <1>5, <3>1 DEF len
  <2> QED
    BY <2>1
<1>7. length = Next0(length)
  <2> HIDE DEF Next0
  <2> QED
    BY <1>6
<1> HIDE DEF length
<1>8. length[0] = base /\ \A i \in 1 .. N : length[i] = length[i - 1] + len(i)
  <2>1. 0 \in 0 .. N /\ \A i \in 1 .. N : i \in 0 .. N /\ i # 0
    BY <1>1
  <2> QED
    BY <1>7, <2>1
<1> HIDE DEF Next0
<1>9. length[N] = f[N]
  <2> HIDE DEF len, N
  <2>1. length[0] = f[0] /\ \A i \in 1 .. N : length[i - 1] = f[i - 1] => length[i] = f[i]
    BY <1>5, <1>8
  <2> QED
    BY <1>1, <2>1, SameEnd
<1> QED
  BY <1>2, <1>4, <1>5, <1>9 DEF Growing, base

-----------------------------------------------------------------------------
(* Decoding base64 *)

LEMMA ShiftedIs ==
  ASSUME NEW v \in Nat, NEW i \in Nat
  PROVE  /\ i % 4 \in 0 .. 3 /\ Shifted(v, i) \in Nat
         /\ i % 4 = 1 => Shifted(v, i) = v \div 16
         /\ i % 4 = 2 => Shifted(v, i) = v \div 4
         /\ i % 4 = 3 => Shifted(v, i) = v
<1> DEFINE r == i % 4
           by == <<64, 16, 4, 1>>
<1>1. r \in 0 .. 3
  OBVIOUS
<1>2. by[1] = 64 /\ by[2] = 16 /\ by[3] = 4 /\ by[4] = 1
  OBVIOUS
<1>3. Shifted(v, i) = v \div by[r + 1]
  BY DEF Shifted
<1> HIDE DEF r, by
<1>4. v \div 64 \in Nat /\ v \div 16 \in Nat /\ v \div 4 \in Nat /\ v \div 1 = v
  OBVIOUS
<1>5. CASE r = 0
  BY <1>1, <1>2, <1>3, <1>4, <1>5 DEF r
<1>6. CASE r = 1
  <2>1. by[r + 1] = 16
    BY <1>2, <1>6
  <2> QED
    BY <1>3, <1>4, <1>6, <2>1 DEF r
<1>7. CASE r = 2
  <2>1. by[r + 1] = 4
    BY <1>2, <1>7
  <2> QED
    BY <1>3, <1>4, <1>7, <2>1 DEF r
<1>8. CASE r = 3
  <2>1. by[r + 1] = 1
    BY <1>2, <1>8
  <2> QED
    BY <1>3, <1>4, <1>8, <2>1 DEF r
<1> QED
  BY <1>1, <1>5, <1>6, <1>7, <1>8

\* The last bits that were read.
Window == 0 .. 4095
Decoding == [bits : Window, out : Seq(Byte), done : BOOLEAN, rc : {0, -1}]

\* What joins the bits of one character, and the bytes that come of it.
Joins(d, v) == (64 * d.bits + v) % 4096
Gives(d, i, v, room) ==
  IF GivesByte(i) /\ Len(d.out) < room THEN Append(d.out, Shifted(Joins(d, v), i) % 256) ELSE d.out

\* The four parts of the decoding.
After(bits, out, done, rc) == [bits |-> bits, out |-> out, done |-> done, rc |-> rc]

LEMMA AfterParts ==
  ASSUME NEW d \in Decoding
  PROVE  /\ d.bits \in Window /\ d.out \in Seq(Byte) /\ d.rc \in {0, -1}
         /\ d.done \in BOOLEAN
         /\ d = After(d.bits, d.out, d.done, d.rc)
BY DEF Decoding, After

LEMMA AfterType ==
  ASSUME NEW bits \in Window, NEW out \in Seq(Byte), NEW done \in BOOLEAN, NEW rc \in {0, -1}
  PROVE  /\ After(bits, out, done, rc) \in Decoding
         /\ After(bits, out, done, rc).out = out
         /\ After(bits, out, done, rc).done = done
BY DEF Decoding, After

LEMMA AfterResult ==
  ASSUME NEW a, NEW b, NEW c, NEW f, NEW y, NEW e, e = After(a, b, c, f)
  PROVE  [e EXCEPT !.rc = y] = After(a, b, c, y)
BY DEF After

LEMMA AfterChanges ==
  ASSUME NEW d \in Decoding, NEW x, NEW y
  PROVE  /\ [d EXCEPT !.done = x] = After(d.bits, d.out, x, d.rc)
         /\ [d EXCEPT !.bits = x, !.out = y] = After(x, y, d.done, d.rc)
<1>1. [d EXCEPT !.done = x] = After(d.bits, d.out, x, d.rc)
  BY DEF Decoding, After
<1>2. ASSUME NEW e, NEW a, NEW b, NEW c, NEW f, e = After(a, b, c, f)
      PROVE  [e EXCEPT !.out = y] = After(a, y, c, f)
  BY <1>2 DEF After
<1>3. [d EXCEPT !.bits = x] = After(x, d.out, d.done, d.rc)
  BY DEF Decoding, After
<1>4. [d EXCEPT !.bits = x, !.out = y] = After(x, y, d.done, d.rc)
  <2> DEFINE e == [d EXCEPT !.bits = x]
  <2>1. [d EXCEPT !.bits = x, !.out = y] = [e EXCEPT !.out = y]
    OBVIOUS
  <2> HIDE DEF e
  <2>2. e = After(x, d.out, d.done, d.rc)
    BY <1>3 DEF e
  <2>3. [e EXCEPT !.out = y] = After(x, y, d.done, d.rc)
    BY <1>2, <2>2
  <2> QED
    BY <2>1, <2>3
<1> QED
  BY <1>1, <1>4

LEMMA JoinsIs ==
  ASSUME NEW d \in Decoding, NEW v \in 0 .. 63
  PROVE  Joins(d, v) \in Window /\ Joins(d, v) \in Nat
<1> DEFINE m == 64 * d.bits + v
<1>1. m \in Nat
  <2> DEFINE b == d.bits
  <2>1. b \in Window
    BY AfterParts
  <2> HIDE DEF b
  <2>2. 64 * b + v \in Nat
    BY <2>1, SMT DEF Window
  <2> QED
    BY <2>2 DEF b
<1> HIDE DEF m
<1>2. m % 4096 \in Window
  BY <1>1, SMT DEF Window
<1>3. Joins(d, v) = m % 4096
  BY DEF Joins, m
<1> DEFINE r == m % 4096
<1> HIDE DEF r
<1>4. r \in Window => r \in Nat
  BY SMT DEF Window
<1> QED
  BY <1>2, <1>3, <1>4 DEF r

LEMMA GivesIs ==
  ASSUME NEW d \in Decoding, NEW i \in Nat, NEW v \in 0 .. 63, NEW room
  PROVE  /\ Gives(d, i, v, room) \in Seq(Byte)
         /\ Len(Gives(d, i, v, room)) <= Len(d.out) + 1
<1> DEFINE m == Shifted(Joins(d, v), i)
           b == m % 256
           out == d.out
<1>1. m \in Nat
  <2>1. Joins(d, v) \in Nat
    BY JoinsIs
  <2> QED
    BY <2>1, ShiftedIs
<1>2. Gives(d, i, v, room) = Append(out, b) \/ Gives(d, i, v, room) = out
  BY DEF Gives
<1>3. out \in Seq(Byte)
  BY AfterParts
<1> HIDE DEF m, out
<1>4. b \in Byte
  BY <1>1 DEF Byte
<1> HIDE DEF b
<1> QED
  BY <1>2, <1>3, <1>4, SMTT(40) DEF out

LEMMA DecodeCharIs ==
  ASSUME NEW d \in Decoding, NEW i \in Nat, NEW c, NEW room
  PROVE  /\ DecodeChar(d, i, c, room) \in Decoding
         /\ d.done => DecodeChar(d, i, c, room) = d
         /\ ~d.done /\ c \in End => DecodeChar(d, i, c, room).out = d.out /\ DecodeChar(d, i, c, room).done
         /\ \A v : ~d.done /\ c \notin End /\ Values(c) = {v} =>
              DecodeChar(d, i, c, room) = After(Joins(d, v), Gives(d, i, v, room), d.done, d.rc)
         /\ Len(DecodeChar(d, i, c, room).out) <= Len(d.out) + 1 /\ Len(d.out) \in Nat
<1> DEFINE r == DecodeChar(d, i, c, room)
           v == CHOOSE v \in Values(c) : TRUE
           bits == d.bits
           out == d.out
           done == d.done
           rc == d.rc
<1>1. bits \in Window /\ out \in Seq(Byte) /\ rc \in {0, -1}
  BY AfterParts
<1>2. done \in BOOLEAN /\ d = After(bits, out, done, rc)
  BY AfterParts
<1>3. Len(out) \in Nat /\ Len(out) <= Len(out) + 1
  <2> HIDE DEF out
  <2> QED
    BY <1>1
<1>4. TRUE \in BOOLEAN /\ -1 \in {0, -1}
  OBVIOUS
<1>5. CASE done \/ c \in End
  <2>1. r = [d EXCEPT !.done = TRUE]
    BY <1>5 DEF DecodeChar
  <2>2. r = After(bits, out, TRUE, rc)
    BY <2>1, AfterChanges, Zenon
  <2> HIDE DEF bits, out, rc
  <2>3. r \in Decoding /\ r.out = out /\ r.done = TRUE
    <3> HIDE DEF r
    <3> QED
      BY <1>1, <1>4, <2>2, AfterType
  <2>4. done => r = d
    <3> HAVE done
    <3>1. done = TRUE
      BY <1>2
    <3> HIDE DEF done, r
    <3> QED
      BY <1>2, <2>2, <3>1, Zenon
  <2>5. Len(r.out) <= Len(d.out) + 1
    BY <1>3, <2>3 DEF out
  <2> HIDE DEF r
  <2> QED
    BY <1>3, <1>5, <2>3, <2>4, <2>5, Zenon DEF out, r
<1>6. CASE ~(done \/ c \in End) /\ Values(c) = {}
  <2>1. r = [d EXCEPT !.done = TRUE, !.rc = -1]
    BY <1>6 DEF DecodeChar
  <2>2. r = After(bits, out, TRUE, -1)
    <3> DEFINE e == [d EXCEPT !.done = TRUE]
    <3>1. r = [e EXCEPT !.rc = -1]
      BY <2>1
    <3>2. e = After(bits, out, TRUE, rc)
      BY AfterChanges, Zenon
    <3> DEFINE yes == TRUE
               none == -1
    <3> HIDE DEF e, r, bits, out, rc, yes, none
    <3>3. [e EXCEPT !.rc = none] = After(bits, out, yes, none)
      <4>1. e = After(bits, out, yes, rc)
        BY <3>2 DEF yes
      <4> QED
        BY <4>1, AfterResult
    <3> QED
      BY <3>1, <3>3 DEF yes, none
  <2> HIDE DEF bits, out, rc
  <2>3. r \in Decoding /\ r.out = out
    <3> HIDE DEF r
    <3> QED
      BY <1>1, <1>4, <2>2, AfterType
  <2>4. \A x : Values(c) # {x}
    BY <1>6
  <2>5. Len(r.out) <= Len(d.out) + 1
    BY <1>3, <2>3 DEF out
  <2> HIDE DEF r
  <2> QED
    BY <1>3, <1>6, <2>3, <2>4, <2>5, Zenon DEF out, r
<1>7. CASE ~(done \/ c \in End) /\ Values(c) # {}
  <2>1. v \in Values(c) /\ v \in 0 .. 63
    BY <1>7 DEF Values
  <2> DEFINE j == Joins(d, v)
             g == Gives(d, i, v, room)
  <2>2. r = [d EXCEPT !.bits = j, !.out = g]
    BY <1>7, Zenon DEF DecodeChar, Joins, Gives
  <2>3. r = After(j, g, done, rc)
    <3> HIDE DEF j, g
    <3> QED
      BY <2>2, AfterChanges, Zenon
  <2>4. \A x : Values(c) = {x} => v = x
    BY <2>1
  <2> HIDE DEF v
  <2>5. j \in Window /\ g \in Seq(Byte) /\ Len(g) <= Len(out) + 1
    <3>1. v \in 0 .. 63
      BY <2>1
    <3> QED
      BY <3>1, JoinsIs, GivesIs
  <2>6. r \in Decoding /\ r.out = g
    <3> HIDE DEF j, g, bits, out, done, rc, r
    <3> QED
      BY <1>1, <1>2, <2>3, <2>5, AfterType
  <2>7. \A x : Values(c) = {x} => r = After(Joins(d, x), Gives(d, i, x, room), d.done, d.rc)
    BY <2>3, <2>4, Zenon
  <2>8. Len(r.out) <= Len(d.out) + 1
    BY <2>5, <2>6
  <2> HIDE DEF r
  <2> QED
    BY <1>3, <1>7, <2>6, <2>7, <2>8, Zenon DEF out, r
<1> HIDE DEF r, out
<1> QED
  BY <1>5, <1>6, <1>7

\* What is decoded after each character.
Decodes(in, room, d) ==
  /\ d \in [0 .. Len(in) -> Decoding]
  /\ d[0] = After(0, <<>>, FALSE, 0)
  /\ \A i \in 1 .. Len(in) : d[i] = DecodeChar(d[i - 1], i - 1, in[i], room)
  /\ Decode(in, room).out = d[Len(in)].out

LEMMA DecodeSteps ==
  ASSUME NEW in \in Seq(Byte), NEW room
  PROVE  \E d : Decodes(in, room, d)
<1> DEFINE N == Len(in)
           base == [bits |-> 0, out |-> <<>>, done |-> FALSE, rc |-> 0]
           after(x, i) == DecodeChar(x, i - 1, in[i], room)
           step == [p \in Decoding \X Nat |-> IF p[2] \in 1 .. N THEN after(p[1], p[2]) ELSE p[1]]
           Next0(g) == [i \in 0 .. N |-> IF i = 0 THEN base ELSE DecodeChar(g[i - 1], i - 1, in[i], room)]
           w == CHOOSE g : g = Next0(g)
<1>1. N \in Nat /\ base \in Decoding
  BY SMT DEF Decoding, Window
<1>2. Decode(in, room).out = w[N].out
  BY DEF Decode
<1> HIDE DEF base
<1>3. \A x \in Decoding, i \in 1 .. N : after(x, i) \in Decoding
  <2> TAKE x \in Decoding, i \in 1 .. N
  <2>1. i - 1 \in Nat
    OBVIOUS
  <2> QED
    BY <2>1, DecodeCharIs
<1>4. step \in [Decoding \X Nat -> Decoding] /\ \A x \in Decoding, i \in 1 .. N : step[<<x, i>>] = after(x, i)
  <2> HIDE DEF after, N
  <2> QED
    BY <1>1, <1>3
<1> HIDE DEF step
<1>5. PICK f \in [0 .. N -> Decoding] : Recursive(f, 0, N, base, step)
  <2> HIDE DEF N
  <2> QED
    BY <1>1, <1>4, 0 \in Nat, 0 <= N, Recursion, Zenon
<1>6. f[0] = base /\ \A i \in 1 .. N : f[i] = after(f[i - 1], i)
  <2>1. \A i \in 1 .. N : i \in 0 + 1 .. N /\ i - 1 \in 0 .. N
    BY <1>1
  <2> HIDE DEF after, N
  <2> QED
    BY <1>4, <1>5, <2>1 DEF Recursive
<1>7. f = Next0(f)
  <2>1. \A i \in 0 .. N : f[i] = IF i = 0 THEN base ELSE DecodeChar(f[i - 1], i - 1, in[i], room)
    <3>1. \A i \in 0 .. N : i = 0 \/ i \in 1 .. N
      BY <1>1
    <3> HIDE DEF N
    <3> QED
      BY <1>6, <3>1
  <2> QED
    BY <2>1
<1>8. w = Next0(w)
  <2> HIDE DEF Next0
  <2> QED
    BY <1>7
<1> HIDE DEF w
<1>9. w[0] = base /\ \A i \in 1 .. N : w[i] = after(w[i - 1], i)
  <2>1. 0 \in 0 .. N /\ \A i \in 1 .. N : i \in 0 .. N /\ i # 0
    BY <1>1
  <2> QED
    BY <1>8, <2>1
<1> HIDE DEF Next0
<1>10. w[N] = f[N]
  <2>1. w[0] = f[0] /\ \A i \in 1 .. N : w[i - 1] = f[i - 1] => w[i] = f[i]
    BY <1>6, <1>9
  <2> HIDE DEF N
  <2> QED
    BY <1>1, <2>1, SameEnd
<1> QED
  BY <1>2, <1>6, <1>10 DEF Decodes, base, After

LEMMA DecodeLength ==
  ASSUME NEW in \in Seq(Byte), NEW room
  PROVE  Decode(in, room).out \in Seq(Byte) /\ Len(Decode(in, room).out) <= Len(in)
<1> DEFINE N == Len(in)
<1>1. PICK d : Decodes(in, room, d)
  BY DecodeSteps
<1> DEFINE S == {i \in 0 .. N : Len(d[i].out) \in Nat /\ Len(d[i].out) <= i}
<1>2. N \in Nat /\ \A i \in 0 .. N : d[i] \in Decoding /\ d[i].out \in Seq(Byte)
  BY <1>1, AfterParts DEF Decodes
<1>3. 0 \in S
  <2>1. d[0].out = <<>>
    BY <1>1 DEF Decodes, After
  <2> QED
    BY <1>2, <2>1
<1>4. ASSUME NEW i \in 1 .. N, i - 1 \in S PROVE i \in S
  <2>1. d[i - 1] \in Decoding /\ i - 1 \in Nat /\ i \in 0 .. N
    BY <1>2
  <2>2. d[i] = DecodeChar(d[i - 1], i - 1, in[i], room)
    BY <1>1 DEF Decodes
  <2>3. Len(d[i].out) <= Len(d[i - 1].out) + 1
    BY <2>1, <2>2, DecodeCharIs
  <2>4. d[i].out \in Seq(Byte)
    BY <1>2, <2>1
  <2> DEFINE x == Len(d[i].out)
             y == Len(d[i - 1].out)
  <2>5. x \in Nat
    BY <2>4
  <2>6. y \in Nat /\ y <= i - 1
    BY <1>4
  <2> HIDE DEF x, y
  <2>7. x <= i
    BY <1>2, <2>3, <2>5, <2>6, SMTT(40) DEF x, y
  <2> QED
    BY <2>1, <2>5, <2>7 DEF x
<1> HIDE DEF S
<1>5. \A i \in 0 .. N : i \in S
  <2> HIDE DEF N
  <2>1. \A i \in 0 + 1 .. N : i - 1 \in S => i \in S
    BY <1>2, <1>4
  <2> QED
    BY <1>2, <1>3, <2>1, 0 \in Nat, UpTo
<1>6. N \in 0 .. N
  BY <1>2
<1>7. Len(d[N].out) <= N /\ d[N].out \in Seq(Byte)
  BY <1>2, <1>5, <1>6 DEF S
<1> QED
  BY <1>1, <1>7 DEF Decodes

LEMMA DecodedIs ==
  ASSUME NEW stanza, IsStanza(stanza), NEW room
  PROVE  /\ Decoded(stanza, room) \in String /\ Decoded(stanza, room) \in Seq(Byte)
         /\ Len(Decoded(stanza, room)) \in Nat
         /\ stanza.text = Null => Len(Decoded(stanza, room)) = 0
         /\ stanza.text # Null => Len(Decoded(stanza, room)) <= Len(stanza.text)
<1>1. CASE stanza.text = Null
  <2>1. Decoded(stanza, room) = <<>>
    BY <1>1 DEF Decoded
  <2>2. <<>> \in String /\ <<>> \in Seq(Byte) /\ Len(<<>>) = 0
    BY DEF String
  <2> QED
    BY <1>1, <2>1, <2>2
<1>2. CASE stanza.text # Null
  <2> DEFINE o == Decode(stanza.text, room).out
             c == CString(o)
  <2>1. stanza.text \in Seq(Byte) /\ Len(stanza.text) \in Nat
    BY <1>2, StanzaAttributes
  <2>2. o \in Seq(Byte) /\ Len(o) <= Len(stanza.text)
    BY <2>1, DecodeLength
  <2>3. Decoded(stanza, room) = c
    BY <1>2 DEF Decoded
  <2> HIDE DEF o
  <2>4. c \in String /\ c \in Seq(Byte) /\ Len(c) <= Len(o)
    BY <2>2, CStringType
  <2> HIDE DEF c
  <2>5. Len(o) \in Nat /\ Len(c) \in Nat
    BY <2>2, <2>4
  <2> QED
    BY <1>2, <2>1, <2>2, <2>3, <2>4, <2>5
<1> QED
  BY <1>1, <1>2

-----------------------------------------------------------------------------
(* The command that is made of a stanza *)

AttributePair(a) == <<AttributeKeys[a.name], ValueOf(a)>>
OptionalPair(a) == IF Kept(a) THEN <<AttributePair(a)>> ELSE <<>>
Optional(stanza) == [i \in 1 .. Len(stanza.attrs) |-> OptionalPair(stanza.attrs[i])]
TextPair(stanza) == <<TextKey, Decoded(stanza, (StanzaLength(stanza) * 3) \div 4 + 1)>>

LEMMA FitsBelow ==
  ASSUME NEW m \in Nat, NEW n, LengthFits(n, 4), m <= n
  PROVE  LengthFits(m, 4)
<1>1. n \in Nat /\ n \div 16777216 <= 255
  BY SMT DEF LengthFits
<1>2. m \div 16777216 <= n \div 16777216
  BY <1>1, SMT
<1>3. m \div 16777216 <= 255
  BY <1>1, <1>2, SMT
<1> QED
  BY <1>3 DEF LengthFits

LEMMA SmallFits ==
  ASSUME NEW m \in 0 .. 255
  PROVE  LengthFits(m, 4)
<1>1. m \div 16777216 <= 255
  BY SMT
<1> QED
  BY <1>1 DEF LengthFits

\* An attribute that is kept becomes a pair with less bytes than it had.
LEMMA AttributeIsPair ==
  ASSUME NEW a \in Attribute, Kept(a), a.name \in DOMAIN AttributeKeys,
         a.name = "action" => a.word \in DOMAIN ActionKeys, LengthFits(Len(a.value), 4)
  PROVE  /\ AttributePair(a) \in Seq(Byte) \X Seq(Byte)
         /\ AttributePair(a)[1] = AttributeKeys[a.name] /\ AttributePair(a)[2] = ValueOf(a)
         /\ AttributeKeys[a.name] \in CommandKeys /\ ValueOf(a) \in String
         /\ Writable(AttributeKeys[a.name]) /\ Writable(ValueOf(a))
         /\ Len(PairBytes(AttributePair(a))) <= AttributeLength(a)
<1> DEFINE key == AttributeKeys[a.name]
           val == ValueOf(a)
<1>1. AttributePair(a) = <<key, val>>
  BY DEF AttributePair
<1>2. key \in CommandKeys
  BY DEF CommandKeys
<1>3. key \in String /\ key \in Seq(Byte)
  BY <1>2, KeysAre, StringIsBytes
<1>4. Len(key) = 1
  <2>1. \A n \in DOMAIN AttributeKeys : Len(AttributeKeys[n]) = 1
    BY DEF AttributeKeys
  <2> QED
    BY <2>1
<1>5. a.value \in String /\ Len(a.value) \in Nat
  BY AttributeRoom DEF Attribute
<1>6. val \in String /\ (a.name = "action" => Len(val) = 1) /\ (a.name # "action" => val = a.value)
  <2>1. \A n \in DOMAIN ActionKeys : ActionKeys[n] \in String /\ Len(ActionKeys[n]) = 1
    <3> DEFINE C == 1 .. 255
    <3>1. 111 \in C /\ 99 \in C /\ 107 \in C /\ 115 \in C /\ 112 \in C /\ 100 \in C /\ 114 \in C
      BY SMT
    <3>2. String = Seq(C)
      BY DEF String
    <3> HIDE DEF C
    <3>3. \A n \in DOMAIN ActionKeys : \E c \in C : ActionKeys[n] = <<c>>
      BY <3>1 DEF ActionKeys
    <3>4. \A c \in C : <<c>> \in Seq(C) /\ Len(<<c>>) = 1
      OBVIOUS
    <3> QED
      BY <3>2, <3>3, <3>4
  <2> QED
    BY <1>5, <2>1 DEF ValueOf
<1> HIDE DEF key, val
<1>7. val \in Seq(Byte) /\ Len(val) \in Nat
  BY <1>6, StringIsBytes
<1>8. Writable(key)
  BY <1>3, <1>4, SmallFits DEF Writable
<1>9. Writable(val)
  <2>1. CASE a.name = "action"
    <3>1. Len(val) = 1
      BY <1>6, <2>1
    <3>2. 1 \in 0 .. 255
      BY SMT
    <3>3. LengthFits(1, 4)
      BY <3>2, SmallFits
    <3> QED
      BY <1>7, <3>1, <3>3 DEF Writable
  <2>2. CASE a.name # "action"
    BY <1>6, <1>7, <2>2 DEF Writable
  <2> QED
    BY <2>1, <2>2
<1>10. PairBytes(<<key, val>>) = StringBytes(key) \o StringBytes(val)
  BY DEF PairBytes
<1> DEFINE k == StringBytes(key)
           v == StringBytes(val)
           s == AttributeLength(a)
<1>11. k \in Seq(Byte) /\ v \in Seq(Byte)
  BY <1>8, <1>9, StringWritten
<1>12. Len(k) = 2 /\ Len(v) \in Nat /\ Len(v) <= Len(val) + 5 /\ (Len(val) <= 31 => Len(v) = Len(val) + 1)
  <2>1. Len(k) = Len(key) + 1
    <3>1. Len(key) <= 31
      BY <1>4, SMT
    <3> QED
      BY <1>8, <3>1, StringLength
  <2> HIDE DEF k
  <2>2. Len(k) = 2
    BY <1>4, <2>1
  <2> QED
    BY <1>9, <2>2, StringLength
<1>13. s \in Nat /\ s >= Len(a.value) + 9 /\ (a.name = "action" => s >= 10)
  BY AttributeRoom
<1> HIDE DEF k, v, s
<1>14. Len(k \o v) = Len(k) + Len(v)
  BY <1>11
<1>15. Len(k \o v) <= s
  <2>1. CASE a.name = "action"
    <3> DEFINE x == Len(v)
    <3>1. Len(val) = 1
      BY <1>6, <2>1
    <3>2. x = 2
      BY <1>12, <3>1, SMT
    <3> QED
      BY <1>12, <1>13, <1>14, <2>1, <3>2
  <2>2. CASE a.name # "action"
    BY <1>5, <1>6, <1>12, <1>13, <1>14, <2>2
  <2> QED
    BY <2>1, <2>2
<1> QED
  <2>1. Len(PairBytes(AttributePair(a))) <= AttributeLength(a)
    BY <1>1, <1>10, <1>15 DEF k, v, s
  <2>2. AttributePair(a)[1] = key /\ AttributePair(a)[2] = val /\ AttributePair(a) \in Seq(Byte) \X Seq(Byte)
    BY <1>1, <1>3, <1>7
  <2> QED
    BY <1>2, <1>6, <1>8, <1>9, <2>1, <2>2 DEF key, val

LEMMA OnePairMore ==
  ASSUME NEW pairs \in Pairs, AllWritable(pairs), NEW pair \in Seq(Byte) \X Seq(Byte),
         Writable(pair[1]), Writable(pair[2])
  PROVE  /\ Append(pairs, pair) \in Pairs /\ AllWritable(Append(pairs, pair))
         /\ Len(Append(pairs, pair)) = Len(pairs) + 1
         /\ FlattenSeq(BytesOf(pairs)) \in Seq(Byte) /\ PairBytes(pair) \in Seq(Byte)
         /\ FlattenSeq(BytesOf(Append(pairs, pair))) = FlattenSeq(BytesOf(pairs)) \o PairBytes(pair)
<1> DEFINE more == Append(pairs, pair)
           n == Len(pairs)
           X == Seq(Byte) \X Seq(Byte)
<1>1. pairs \in Seq(X) /\ pair \in X
  BY DEF Pairs
<1> HIDE DEF X
<1>2. more \in Seq(X) /\ Len(more) = n + 1 /\ n \in Nat /\ more[n + 1] = pair
      /\ \A i \in 1 .. n : more[i] = pairs[i]
  BY <1>1
<1> HIDE DEF more
<1>3. more \in Pairs
  BY <1>2 DEF Pairs, X
<1>4. \A i \in 1 .. n + 1 : i \in 1 .. n \/ i = n + 1
  BY <1>2
<1>5. AllWritable(more)
  <2> SUFFICES ASSUME NEW i \in 1 .. n + 1 PROVE Writable(more[i][1]) /\ Writable(more[i][2])
    BY <1>2 DEF AllWritable
  <2>1. CASE i \in 1 .. n
    BY <1>2, <2>1 DEF AllWritable
  <2>2. CASE i = n + 1
    BY <1>2, <2>2
  <2> QED
    BY <1>4, <2>1, <2>2
<1>6. BytesOf(more) = Append(BytesOf(pairs), PairBytes(pair))
  <2> DEFINE b == BytesOf(pairs)
             m == BytesOf(more)
  <2>1. b \in Seq(Seq(Byte)) /\ Len(b) = n /\ \A i \in 1 .. n : b[i] = PairBytes(pairs[i])
    BY BytesOfPairs
  <2>2. m \in Seq(Seq(Byte)) /\ Len(m) = n + 1
        /\ \A i \in 1 .. n + 1 : m[i] = PairBytes(more[i]) /\ PairBytes(more[i]) \in Seq(Byte)
    BY <1>2, <1>3, <1>5, BytesOfPairs
  <2>3. n + 1 \in 1 .. n + 1 /\ \A i \in 1 .. n : i \in 1 .. n + 1
    BY <1>2
  <2>4. PairBytes(pair) \in Seq(Byte) /\ m[n + 1] = PairBytes(pair) /\ \A i \in 1 .. n : m[i] = b[i]
    BY <1>2, <2>1, <2>2, <2>3
  <2> HIDE DEF b, m, n
  <2> DEFINE Y == Seq(Byte)
             z == PairBytes(pair)
  <2> HIDE DEF Y, z
  <2>5. m = Append(b, z)
    <3>1. m \in Seq(Y) /\ b \in Seq(Y) /\ z \in Y /\ m[n + 1] = z
      BY <2>1, <2>2, <2>4 DEF Y, z
    <3> QED
      BY <1>2, <2>1, <2>2, <2>4, <3>1
  <2> QED
    BY <2>5 DEF b, m, z
<1>7. PairBytes(pair) \in Seq(Byte)
  <2>1. n + 1 \in 1 .. Len(more)
    BY <1>2
  <2>2. PairBytes(more[n + 1]) \in Seq(Byte)
    BY <1>3, <1>5, <2>1, BytesOfPairs
  <2> QED
    BY <1>2, <2>2
<1>8. BytesOf(pairs) \in Seq(Seq(Byte))
  BY BytesOfPairs
<1>9. FlattenSeq(BytesOf(pairs)) \in Seq(Byte)
  BY <1>8, FlattenType
<1>10. FlattenSeq(BytesOf(more)) = FlattenSeq(BytesOf(pairs)) \o PairBytes(pair)
  BY <1>6, <1>7, <1>8, FlattenAppend
<1> QED
  BY <1>2, <1>3, <1>5, <1>7, <1>9, <1>10 DEF more

\* Whether a stanza has gadgetid, and how many attributes are left out.
HasGadget(stanza) == "gadgetid" \in Names(stanza)
LeftOut(stanza) == IF HasGadget(stanza) THEN 2 ELSE 1

\* Where the attributes that are left out are (gadgetid at 0 when there is
\* none), and how many of them are among the first ones.
IgnoredAt(stanza, g, x) ==
  /\ g \in 0 .. Len(stanza.attrs) /\ x \in 1 .. Len(stanza.attrs) /\ g # x
  /\ g >= 1 <=> HasGadget(stanza)
  /\ \A i \in 1 .. Len(stanza.attrs) : Kept(stanza.attrs[i]) <=> i \notin {g, x}
Before(i, k) == IF 1 <= i /\ i <= k THEN 1 ELSE 0

LEMMA IgnoredAttributes ==
  ASSUME NEW stanza, IsStanza(stanza)
  PROVE  \E g, x : IgnoredAt(stanza, g, x)
<1> DEFINE attrs == stanza.attrs
           N == Len(attrs)
<1>1. attrs \in Seq(Attribute) /\ N \in Nat /\ DOMAIN attrs = 1 .. N
  BY StanzaAttributes
<1>2. Names(stanza) = {attrs[i].name : i \in 1 .. N}
  <2>1. ToSet(attrs) = {attrs[i] : i \in 1 .. N}
    BY <1>1 DEF ToSet
  <2> QED
    BY <2>1 DEF Names
<1>3. PICK x \in 1 .. N : attrs[x].name = "xmlns"
  BY <1>2 DEF IsStanza
<1>4. PICK g \in 0 .. N : IF HasGadget(stanza) THEN g >= 1 /\ attrs[g].name = "gadgetid" ELSE g = 0
  <2>1. CASE HasGadget(stanza)
    <3>1. PICK i \in 1 .. N : attrs[i].name = "gadgetid"
      BY <1>2, <2>1 DEF HasGadget
    <3>2. i \in 0 .. N /\ i >= 1
      BY <1>1
    <3> QED
      BY <2>1, <3>1, <3>2
  <2>2. CASE ~HasGadget(stanza)
    <3>1. 0 \in 0 .. N
      BY <1>1
    <3> QED
      BY <2>2, <3>1
  <2> QED
    BY <2>1, <2>2
<1>5. \A n : n \in Ignored <=> n = "gadgetid" \/ n = "xmlns"
  BY DEF Ignored
<1>6. g # x
  <2>1. CASE HasGadget(stanza)
    BY <1>3, <1>4, <2>1
  <2>2. CASE ~HasGadget(stanza)
    BY <1>1, <1>3, <1>4, <2>2
  <2> QED
    BY <2>1, <2>2
<1>7. \A i, j \in 1 .. N : attrs[i].name = attrs[j].name => i = j
  BY <1>1 DEF IsStanza
<1>8. g >= 1 <=> HasGadget(stanza)
  BY <1>1, <1>4
<1>9. \A i \in 1 .. N : attrs[i].name = "gadgetid" <=> i = g
  <2> TAKE i \in 1 .. N
  <2>1. CASE HasGadget(stanza)
    <3>1. g \in 1 .. N /\ attrs[g].name = "gadgetid"
      BY <1>1, <1>4, <2>1
    <3> QED
      BY <1>7, <3>1
  <2>2. CASE ~HasGadget(stanza)
    <3>1. g = 0 /\ i # 0
      BY <1>1, <1>4, <2>2
    <3> QED
      BY <1>2, <2>2, <3>1 DEF HasGadget
  <2> QED
    BY <2>1, <2>2
<1>10. \A i \in 1 .. N : attrs[i].name = "xmlns" <=> i = x
  BY <1>3, <1>7
<1>11. \A i \in 1 .. N : Kept(attrs[i]) <=> i \notin {g, x}
  BY <1>5, <1>9, <1>10 DEF Kept
<1> QED
  BY <1>3, <1>6, <1>8, <1>11 DEF IgnoredAt

\* A kept attribute that another one follows, among the first ones.
KeptAt(stanza, i) == Kept(stanza.attrs[i])
Followed(stanza, i, k) == \E l \in 1 .. k : l > i /\ KeptAt(stanza, l)
Becomes(stanza, i, pair) == KeptAt(stanza, i) /\ pair = AttributePair(stanza.attrs[i])

\* What the first attributes have become: the last pair is that of the last one.
KeptOf(stanza, pairs, k) ==
  /\ pairs \in Pairs /\ AllWritable(pairs)
  /\ \A j \in 1 .. Len(pairs) : \E i \in 1 .. k : Becomes(stanza, i, pairs[j])
  /\ \A i \in 1 .. k : KeptAt(stanza, i) => \E j \in 1 .. Len(pairs) : Becomes(stanza, i, pairs[j])
  /\ \A j \in 1 .. Len(pairs) - 1 : \E i \in 1 .. k : Followed(stanza, i, k) /\ Becomes(stanza, i, pairs[j])
  /\ \A i \in 1 .. k : KeptAt(stanza, i) /\ Followed(stanza, i, k) =>
       \E j \in 1 .. Len(pairs) - 1 : Becomes(stanza, i, pairs[j])

LEMMA StanzaFits ==
  ASSUME NEW stanza, IsStanza(stanza), NEW f, Growing(stanza, f)
  PROVE  /\ \A i \in 1 .. Len(stanza.attrs) : LengthFits(Len(stanza.attrs[i].value), 4)
         /\ \A k \in 0 .. Len(stanza.attrs) : f[k] \in Nat /\ 9 * k <= f[k]
         /\ f[0] <= StanzaLength(stanza)
<1> DEFINE N == Len(stanza.attrs)
           len(i) == AttributeLength(stanza.attrs[i])
           val(i) == Len(stanza.attrs[i].value)
<1>1. N \in Nat /\ \A i \in 1 .. N : len(i) \in Nat /\ val(i) \in Nat /\ len(i) >= val(i) + 9
  <2>1. N \in Nat
    BY StanzaAttributes
  <2>2. ASSUME NEW i \in 1 .. N PROVE len(i) \in Nat /\ val(i) \in Nat /\ len(i) >= val(i) + 9
    <3>1. stanza.attrs[i] \in Attribute
      BY StanzaAttributes
    <3> QED
      BY <3>1, AttributeRoom
  <2> QED
    BY <2>1, <2>2
<1>2. \A k \in 0 .. N : f[k] \in Nat
  BY DEF Growing
<1>3. \A i \in 1 .. N : f[i] = f[i - 1] + len(i)
  BY DEF Growing
<1>4. f[N] = StanzaLength(stanza) /\ LengthFits(f[N], 4)
  BY DEF Growing, IsStanza
<1> HIDE DEF N, len, val
<1> DEFINE room(k) == 9 * k <= f[k] /\ f[0] <= f[k] /\ \A i \in 1 .. k : val(i) <= f[k]
           S == {k \in 0 .. N : room(k)}
<1>15. \A k \in 0 .. N : k \in S <=> room(k)
  <2> HIDE DEF room
  <2> QED
    BY Zenon
<1> HIDE DEF S
<1>16. S \subseteq 0 .. N
  <2> HIDE DEF room
  <2> QED
    BY Zenon DEF S
<1>5. 0 \in S
  <2>1. 0 \in 0 .. N /\ room(0)
    BY <1>1, <1>2
  <2> QED
    BY <1>15, <2>1, Zenon
<1>6. ASSUME NEW k \in 1 .. N, k - 1 \in S PROVE k \in S
  <2>1. k - 1 \in 0 .. N /\ k \in 0 .. N /\ \A i \in 1 .. k : i \in 1 .. k - 1 \/ i = k
    BY <1>1
  <2> DEFINE a == f[k - 1]
             b == f[k]
             c == len(k)
  <2>2. a \in Nat /\ b = a + c /\ c \in Nat /\ c >= 9 /\ val(k) <= c /\ val(k) \in Nat
    BY <1>1, <1>2, <1>3, <2>1
  <2>6. room(k - 1)
    <3> HIDE DEF room
    <3> QED
      BY <1>6, <1>15, <2>1
  <2>3. 9 * (k - 1) <= a /\ \A i \in 1 .. k - 1 : val(i) <= a /\ val(i) \in Nat
    BY <1>1, <2>6
  <2> HIDE DEF a, b, c
  <2>4. 9 * k <= b /\ a <= b /\ val(k) <= b /\ f[0] <= b
    <3>1. f[0] <= a /\ f[0] \in Nat
      BY <1>1, <1>2, <2>6 DEF a
    <3> QED
      BY <2>1, <2>2, <2>3, <3>1
  <2>5. \A i \in 1 .. k : val(i) <= b
    <3> TAKE i \in 1 .. k
    <3>1. CASE i = k
      BY <2>4, <3>1
    <3>2. CASE i \in 1 .. k - 1
      <4>1. val(i) <= a /\ val(i) \in Nat
        BY <2>3, <3>2
      <4> QED
        BY <2>2, <2>4, <4>1
    <3> QED
      BY <2>1, <3>1, <3>2
  <2>7. room(k)
    BY <2>1, <2>4, <2>5 DEF b
  <2> HIDE DEF room
  <2> QED
    BY <1>15, <2>1, <2>7
<1>7. \A k \in 0 .. N : k \in S
  <2> HIDE DEF room
  <2>1. \A i \in 0 + 1 .. N : i - 1 \in S => i \in S
    BY <1>1, <1>6
  <2> QED
    BY <1>1, <1>5, <2>1, 0 \in Nat, UpTo
<1>17. \A k \in 0 .. N : room(k)
  <2> HIDE DEF room
  <2> QED
    BY <1>7, <1>15
<1>8. \A k \in 0 .. N : 9 * k <= f[k]
  BY <1>17
<1>18. N \in 0 .. N
  BY <1>1
<1>9. \A i \in 1 .. N : val(i) <= f[N]
  BY <1>17, <1>18
<1>11. f[0] <= f[N]
  BY <1>17, <1>18
<1> HIDE DEF room
<1>10. \A i \in 1 .. N : LengthFits(val(i), 4)
  BY <1>1, <1>4, <1>9, FitsBelow
<1>12. \A i \in 1 .. Len(stanza.attrs) : LengthFits(Len(stanza.attrs[i].value), 4)
  BY <1>10 DEF N, val
<1>13. \A k \in 0 .. Len(stanza.attrs) : f[k] \in Nat /\ 9 * k <= f[k]
  BY <1>2, <1>8 DEF N
<1>14. f[0] <= StanzaLength(stanza)
  BY <1>4, <1>11
<1> QED
  BY <1>12, <1>13, <1>14, Zenon

\* One attribute more.
LEMMA KeptMore ==
  ASSUME NEW stanza, IsStanza(stanza), Known(stanza), NEW k \in 1 .. Len(stanza.attrs),
         NEW pairs, KeptOf(stanza, pairs, k - 1)
  PROVE  LET more == pairs \o OptionalPair(stanza.attrs[k])
         IN  /\ KeptOf(stanza, more, k)
             /\ Len(pairs) \in Nat
             /\ Len(more) = Len(pairs) + (IF Kept(stanza.attrs[k]) THEN 1 ELSE 0)
             /\ Len(FlattenSeq(BytesOf(pairs))) \in Nat
             /\ Len(FlattenSeq(BytesOf(more))) <= Len(FlattenSeq(BytesOf(pairs))) + AttributeLength(stanza.attrs[k])
<1> DEFINE a == stanza.attrs[k]
           pair == AttributePair(a)
           more == pairs \o OptionalPair(a)
           room == AttributeLength(a)
           old == FlattenSeq(BytesOf(pairs))
<1>1. a \in Attribute /\ a \in ToSet(stanza.attrs) /\ Len(stanza.attrs) \in Nat
  BY StanzaAttributes DEF ToSet
<1>2. room \in Nat
  BY <1>1, AttributeRoom
<1>3. pairs \in Pairs /\ AllWritable(pairs) /\ Len(pairs) \in Nat
  BY DEF KeptOf, Pairs
<1>4. old \in Seq(Byte) /\ Len(old) \in Nat
  <2>1. BytesOf(pairs) \in Seq(Seq(Byte))
    BY <1>3, BytesOfPairs
  <2>2. old \in Seq(Byte)
    BY <2>1, FlattenType
  <2> HIDE DEF old
  <2> QED
    BY <2>2
<1>5. \A i \in 1 .. k : i \in 1 .. k - 1 \/ i = k
  BY <1>1
<1>6. k \in 1 .. k /\ \A i \in 1 .. k - 1 : i \in 1 .. k
  BY <1>1
<1>7. CASE ~Kept(a)
  <2>1. OptionalPair(a) = <<>>
    BY <1>7 DEF OptionalPair
  <2>2. more = pairs
    BY <1>3, <2>1, ConcatEmptySeq DEF Pairs
  <2>3. KeptOf(stanza, pairs, k)
    <3>1. \A j \in 1 .. Len(pairs) : \E i \in 1 .. k : Becomes(stanza, i, pairs[j])
      BY <1>6 DEF KeptOf
    <3>2. \A i \in 1 .. k : KeptAt(stanza, i) => i \in 1 .. k - 1
      BY <1>5, <1>7 DEF KeptAt
    <3>3. \A i : Followed(stanza, i, k) <=> Followed(stanza, i, k - 1)
      BY <1>6, <3>2 DEF Followed
    <3>4. \A i \in 1 .. k : KeptAt(stanza, i) => \E j \in 1 .. Len(pairs) : Becomes(stanza, i, pairs[j])
      BY <3>2 DEF KeptOf
    <3>5. \A j \in 1 .. Len(pairs) - 1 : \E i \in 1 .. k : Followed(stanza, i, k) /\ Becomes(stanza, i, pairs[j])
      BY <1>6, <3>3 DEF KeptOf
    <3>6. \A i \in 1 .. k : KeptAt(stanza, i) /\ Followed(stanza, i, k) =>
            \E j \in 1 .. Len(pairs) - 1 : Becomes(stanza, i, pairs[j])
      BY <3>2, <3>3 DEF KeptOf
    <3> QED
      BY <1>3, <3>1, <3>4, <3>5, <3>6 DEF KeptOf
  <2> DEFINE m == Len(old)
             n == Len(pairs)
  <2>4. m <= m + room /\ n = n + 0
    <3> HIDE DEF m, n, room
    <3>1. m \in Nat /\ n \in Nat
      BY <1>3, <1>4 DEF m, n
    <3> QED
      BY <1>2, <3>1
  <2>5. Len(pairs) = Len(pairs) + (IF Kept(a) THEN 1 ELSE 0)
    BY <1>7, <2>4
  <2> QED
    BY <1>3, <1>4, <2>2, <2>3, <2>4, <2>5
<1>8. CASE Kept(a)
  <2>1. more = Append(pairs, pair)
    <3>1. OptionalPair(a) = <<pair>>
      BY <1>8 DEF OptionalPair
    <3> HIDE DEF pair
    <3>2. pairs \o <<pair>> = Append(pairs, pair)
      BY <1>3 DEF Pairs
    <3> QED
      BY <3>1, <3>2
  <2>2. PICK f : Growing(stanza, f)
    BY StanzaGrows
  <2>3. /\ pair \in Seq(Byte) \X Seq(Byte) /\ Writable(pair[1]) /\ Writable(pair[2])
        /\ Len(PairBytes(pair)) <= room
    <3>1. a.name \in DOMAIN AttributeKeys /\ (a.name = "action" => a.word \in DOMAIN ActionKeys)
      BY <1>1, <1>8 DEF Known
    <3>2. LengthFits(Len(a.value), 4)
      BY <2>2, StanzaFits
    <3> QED
      BY <1>1, <1>8, <3>1, <3>2, AttributeIsPair
  <2> HIDE DEF pair
  <2> DEFINE new == Append(pairs, pair)
             n == Len(pairs)
  <2>4. new \in Pairs /\ AllWritable(new) /\ Len(new) = n + 1
    BY <1>3, <2>3, OnePairMore
  <2>5. PairBytes(pair) \in Seq(Byte) /\ FlattenSeq(BytesOf(new)) = old \o PairBytes(pair)
    BY <1>3, <2>3, OnePairMore
  <2>6. new[n + 1] = pair /\ \A j \in 1 .. n : new[j] = pairs[j]
    BY <1>3 DEF Pairs
  <2> HIDE DEF new, n
  <2>7. KeptOf(stanza, new, k)
    <3>1. n \in Nat /\ (\A j \in 1 .. n + 1 : j \in 1 .. n \/ j = n + 1) /\ n + 1 \in 1 .. n + 1 /\ \A j \in 1 .. n : j \in 1 .. n + 1
      BY <1>3 DEF n
    <3>2. \A j \in 1 .. n : \E i \in 1 .. k - 1 : Becomes(stanza, i, pairs[j])
      BY DEF KeptOf, n
    <3>3. \A i \in 1 .. k - 1 : KeptAt(stanza, i) => \E j \in 1 .. n : Becomes(stanza, i, pairs[j])
      BY DEF KeptOf, n
    <3>4. KeptAt(stanza, k) /\ Becomes(stanza, k, new[n + 1])
      BY <1>8, <2>6 DEF KeptAt, Becomes, pair
    <3>5. \A i \in 1 .. k : Followed(stanza, i, k) <=> (i \in 1 .. k - 1 /\ (KeptAt(stanza, k)))
      <4>1. \A i \in 1 .. k - 1 : k > i
        BY <1>1
      <4>2. \A l \in 1 .. k : ~(l > k)
        BY <1>1
      <4> QED
        BY <1>5, <1>6, <3>4, <4>1, <4>2 DEF Followed
    <3>6. \A j \in 1 .. n + 1 : \E i \in 1 .. k : Becomes(stanza, i, new[j])
      <4> TAKE j \in 1 .. n + 1
      <4>1. CASE j = n + 1
        BY <1>6, <3>4, <4>1
      <4>2. CASE j \in 1 .. n
        BY <1>6, <2>6, <3>2, <4>2
      <4> QED
        BY <3>1, <4>1, <4>2
    <3>7. \A i \in 1 .. k : KeptAt(stanza, i) => \E j \in 1 .. n + 1 : Becomes(stanza, i, new[j])
      <4> TAKE i \in 1 .. k
      <4> HAVE KeptAt(stanza, i)
      <4>1. CASE i = k
        BY <3>1, <3>4, <4>1
      <4>2. CASE i \in 1 .. k - 1
        BY <2>6, <3>1, <3>3, <4>2
      <4> QED
        BY <1>5, <4>1, <4>2
    <3>8. \A j \in 1 .. n : \E i \in 1 .. k : Followed(stanza, i, k) /\ Becomes(stanza, i, new[j])
      <4> TAKE j \in 1 .. n
      <4>1. PICK i \in 1 .. k - 1 : Becomes(stanza, i, pairs[j])
        BY <3>2
      <4> QED
        BY <1>6, <2>6, <3>4, <3>5, <4>1
    <3>9. \A i \in 1 .. k : KeptAt(stanza, i) /\ Followed(stanza, i, k) => \E j \in 1 .. n : Becomes(stanza, i, new[j])
      BY <2>6, <3>3, <3>5
    <3>10. Len(new) = n + 1 /\ Len(new) - 1 = n
      BY <2>4, <3>1
    <3> DEFINE m == Len(new)
               o == Len(new) - 1
    <3> HIDE DEF m, o
    <3>11. m = n + 1 /\ o = n
      BY <3>10 DEF m, o
    <3>12. /\ \A j \in 1 .. m : \E i \in 1 .. k : Becomes(stanza, i, new[j])
           /\ \A i \in 1 .. k : KeptAt(stanza, i) => \E j \in 1 .. m : Becomes(stanza, i, new[j])
           /\ \A j \in 1 .. o : \E i \in 1 .. k : Followed(stanza, i, k) /\ Becomes(stanza, i, new[j])
           /\ \A i \in 1 .. k : KeptAt(stanza, i) /\ Followed(stanza, i, k) => \E j \in 1 .. o : Becomes(stanza, i, new[j])
      BY <3>6, <3>7, <3>8, <3>9, <3>11
    <3> QED
      BY <2>4, <3>12, Zenon DEF KeptOf, m, o
  <2>8. Len(FlattenSeq(BytesOf(new))) <= Len(old) + room
    <3> DEFINE p == PairBytes(pair)
    <3>1. Len(p) <= room
      BY <2>3
    <3> HIDE DEF p, old, room
    <3>2. Len(old \o p) = Len(old) + Len(p) /\ Len(p) \in Nat
      BY <1>4, <2>5 DEF p
    <3>3. Len(old \o p) <= Len(old) + room
      BY <1>2, <1>4, <3>1, <3>2
    <3> QED
      BY <2>5, <3>3 DEF p
  <2> QED
    BY <1>3, <1>4, <1>8, <2>1, <2>4, <2>7, <2>8 DEF new, n
<1> QED
  BY <1>7, <1>8

LEMMA OptionalType ==
  ASSUME NEW stanza, IsStanza(stanza), Known(stanza)
  PROVE  Optional(stanza) \in Seq(Pairs) /\ Len(Optional(stanza)) = Len(stanza.attrs)
<1> DEFINE N == Len(stanza.attrs)
<1>1. PICK f : Growing(stanza, f)
  BY StanzaGrows
<1>2. N \in Nat /\ DOMAIN stanza.attrs = 1 .. N /\ \A i \in 1 .. N : stanza.attrs[i] \in Attribute
  BY StanzaAttributes
<1>3. \A i \in 1 .. N : OptionalPair(stanza.attrs[i]) \in Pairs
  <2> TAKE i \in 1 .. N
  <2> DEFINE a == stanza.attrs[i]
  <2>1. a \in ToSet(stanza.attrs) /\ a \in Attribute
    BY <1>2 DEF ToSet
  <2>2. LengthFits(Len(a.value), 4)
    BY <1>1, StanzaFits
  <2> HIDE DEF a
  <2>3. CASE Kept(a)
    <3>1. AttributePair(a) \in Seq(Byte) \X Seq(Byte)
      BY <2>1, <2>2, <2>3, AttributeIsPair DEF Known
    <3>2. OptionalPair(a) = <<AttributePair(a)>>
      BY <2>3 DEF OptionalPair
    <3> DEFINE p == AttributePair(a)
    <3> HIDE DEF p
    <3>3. <<p>> \in Pairs
      BY <3>1 DEF Pairs, p
    <3> QED
      BY <3>2, <3>3 DEF a, p
  <2>4. CASE ~Kept(a)
    <3>1. OptionalPair(a) = <<>>
      BY <2>4 DEF OptionalPair
    <3> QED
      BY <3>1 DEF a, Pairs
  <2> QED
    BY <2>3, <2>4
<1> HIDE DEF N
<1> DEFINE P == Pairs
           o(i) == OptionalPair(stanza.attrs[i])
           s == [i \in 1 .. N |-> o(i)]
<1>4. \A i \in 1 .. N : o(i) \in P
  BY <1>3
<1> HIDE DEF P, o
<1>5. s \in Seq(P) /\ Len(s) = N
  BY <1>2, <1>4, SeqDef
<1> QED
  BY <1>5 DEF Optional, P, o, N

\* All of them: those that are left out are missing, and the pairs have no
\* more bytes than the attributes.
LEMMA KeptAttributes ==
  ASSUME NEW stanza, IsStanza(stanza), Known(stanza), NEW f, Growing(stanza, f)
  PROVE  LET pairs == FlattenSeq(Optional(stanza))
             N == Len(stanza.attrs)
         IN  /\ KeptOf(stanza, pairs, N)
             /\ Len(pairs) = N - LeftOut(stanza) /\ N >= LeftOut(stanza)
             /\ f[0] + Len(FlattenSeq(BytesOf(pairs))) <= f[N]
<1> DEFINE N == Len(stanza.attrs)
           opt == Optional(stanza)
           q == Beginnings(opt)
           bytes(k) == Len(FlattenSeq(BytesOf(q[k])))
<1>1. PICK g, x : IgnoredAt(stanza, g, x)
  BY IgnoredAttributes
<1> DEFINE missing(k) == Before(g, k) + Before(x, k)
           S == {k \in 0 .. N : /\ KeptOf(stanza, q[k], k)
                                /\ Len(q[k]) = k - missing(k)
                                /\ f[0] + bytes(k) <= f[k]}
<1>2. N \in Nat /\ opt \in Seq(Pairs) /\ Len(opt) = N
  BY StanzaAttributes, OptionalType
<1> DEFINE X == Seq(Byte) \X Seq(Byte)
<1>3. opt \in Seq(Seq(X))
  BY <1>2 DEF Pairs
<1> HIDE DEF X
<1>4. q[0] = <<>> /\ q[N] = FlattenSeq(opt) /\ \A k \in 1 .. N : q[k] = q[k - 1] \o opt[k]
  BY <1>2, <1>3, BeginningsGrow
<1>5. \A k \in 1 .. N : opt[k] = OptionalPair(stanza.attrs[k])
  BY DEF Optional
<1>6. g \in 0 .. N /\ x \in 1 .. N /\ g # x /\ \A i \in 1 .. N : Kept(stanza.attrs[i]) <=> i \notin {g, x}
  BY <1>1 DEF IgnoredAt
<1> HIDE DEF q, opt
<1>7. 0 \in S
  <2>1. KeptOf(stanza, <<>>, 0)
    <3>1. <<>> \in Pairs /\ Len(<<>>) = 0 /\ \A i : i \notin 1 .. 0
      BY DEF Pairs
    <3> QED
      BY <3>1 DEF KeptOf, AllWritable
  <2>2. FlattenSeq(BytesOf(<<>>)) = <<>>
    <3>1. BytesOf(<<>>) = <<>>
      BY DEF BytesOf
    <3> QED
      BY <3>1, FlattenEmpty
  <2>3. bytes(0) = 0 /\ Len(q[0]) = 0
    BY <1>4, <2>2
  <2>4. missing(0) = 0
    BY <1>2, <1>6 DEF Before
  <2>5. f[0] \in Nat /\ 0 \in 0 .. N
    BY <1>2 DEF Growing
  <2> HIDE DEF bytes, missing
  <2>6. Len(q[0]) = 0 - missing(0) /\ f[0] + bytes(0) <= f[0]
    BY <2>3, <2>4, <2>5
  <2> QED
    BY <1>4, <2>1, <2>5, <2>6
<1>8. ASSUME NEW k \in 1 .. N, k - 1 \in S PROVE k \in S
  <2> DEFINE old == q[k - 1]
             kept == IF Kept(stanza.attrs[k]) THEN 1 ELSE 0
             room == AttributeLength(stanza.attrs[k])
  <2>1. KeptOf(stanza, old, k - 1) /\ Len(old) = (k - 1) - missing(k - 1) /\ f[0] + bytes(k - 1) <= f[k - 1]
    BY <1>8
  <2>2. q[k] = old \o OptionalPair(stanza.attrs[k])
    BY <1>4, <1>5
  <2>3. KeptOf(stanza, q[k], k) /\ Len(q[k]) = Len(old) + kept /\ Len(old) \in Nat
        /\ bytes(k - 1) \in Nat /\ bytes(k) <= bytes(k - 1) + room
    <3> DEFINE new == old \o OptionalPair(stanza.attrs[k])
    <3>1. KeptOf(stanza, old, k - 1)
      BY <2>1
    <3> HIDE DEF old
    <3>2. KeptOf(stanza, new, k)
      BY <3>1, KeptMore
    <3>3. Len(new) = Len(old) + kept /\ Len(old) \in Nat
      BY <3>1, KeptMore
    <3>4. Len(FlattenSeq(BytesOf(old))) \in Nat
      BY <3>1, KeptMore
    <3>5. Len(FlattenSeq(BytesOf(new))) <= Len(FlattenSeq(BytesOf(old))) + room
      BY <3>1, KeptMore
    <3>6. q[k] = new
      BY <2>2
    <3> HIDE DEF new, kept, room
    <3> QED
      BY <3>2, <3>3, <3>4, <3>5, <3>6 DEF old
  <2>4. missing(k) = missing(k - 1) + 1 - kept /\ missing(k) \in Nat /\ missing(k - 1) \in Nat
    <3>1. Kept(stanza.attrs[k]) <=> k # g /\ k # x
      BY <1>6
    <3>2. Before(g, k) = IF k = g THEN Before(g, k - 1) + 1 ELSE Before(g, k - 1)
      BY <1>2, <1>6 DEF Before
    <3>3. Before(x, k) = IF k = x THEN Before(x, k - 1) + 1 ELSE Before(x, k - 1)
      BY <1>2, <1>6 DEF Before
    <3>4. Before(g, k - 1) \in Nat /\ Before(x, k - 1) \in Nat
      BY DEF Before
    <3> QED
      BY <1>6, <3>1, <3>2, <3>3, <3>4, SMTT(40)
  <2>5. f[k] = f[k - 1] + room /\ f[k - 1] \in Nat /\ f[0] \in Nat /\ room \in Nat
    <3>1. k - 1 \in 0 .. N /\ 0 \in 0 .. N /\ stanza.attrs[k] \in Attribute
      BY <1>2, StanzaAttributes
    <3> QED
      BY <3>1, AttributeRoom DEF Growing
  <2>6. kept \in {0, 1}
    OBVIOUS
  <2>7. k \in 0 .. N /\ k \in Nat
    BY <1>2
  <2>8. bytes(k) \in Nat
    <3>1. BytesOf(q[k]) \in Seq(Seq(Byte))
      BY <2>3, BytesOfPairs DEF KeptOf
    <3> DEFINE z == FlattenSeq(BytesOf(q[k]))
    <3>2. z \in Seq(Byte)
      BY <3>1, FlattenType
    <3> HIDE DEF z
    <3>3. Len(z) \in Nat
      BY <3>2
    <3> QED
      BY <3>3 DEF z
  <2> HIDE DEF kept, room, missing, bytes, S
  <2>9. Len(q[k]) = k - missing(k)
    BY <2>1, <2>3, <2>4, <2>6, <2>7
  <2>10. f[0] + bytes(k) <= f[k]
    BY <2>1, <2>3, <2>5, <2>8, SMTT(40)
  <2> QED
    BY <2>3, <2>7, <2>9, <2>10 DEF S
<1> HIDE DEF S
<1>9. \A k \in 0 .. N : k \in S
  <2> HIDE DEF N
  <2>1. \A i \in 0 + 1 .. N : i - 1 \in S => i \in S
    BY <1>2, <1>8
  <2> QED
    BY <1>2, <1>7, <2>1, 0 \in Nat, UpTo
<1>10. N \in S
  BY <1>2, <1>9
<1>11. missing(N) = LeftOut(stanza) /\ N >= LeftOut(stanza)
  <2>1. Before(x, N) = 1 /\ Before(g, N) = (IF g >= 1 THEN 1 ELSE 0)
    BY <1>2, <1>6 DEF Before
  <2>2. LeftOut(stanza) = IF g >= 1 THEN 2 ELSE 1
    BY <1>1 DEF IgnoredAt, LeftOut
  <2>3. g >= 1 => N >= 2
    BY <1>2, <1>6
  <2> QED
    BY <1>2, <1>6, <2>1, <2>2, <2>3
<1> HIDE DEF missing, bytes
<1>12. KeptOf(stanza, q[N], N) /\ Len(q[N]) = N - LeftOut(stanza) /\ f[0] + bytes(N) <= f[N]
  BY <1>10, <1>11 DEF S
<1> QED
  BY <1>4, <1>11, <1>12 DEF bytes, opt

LEMMA FirstPair ==
  ASSUME NEW pair \in Seq(Byte) \X Seq(Byte), Writable(pair[1]), Writable(pair[2]),
         NEW pairs \in Pairs, AllWritable(pairs)
  PROVE  LET all == <<pair>> \o pairs
         IN  /\ all \in Pairs /\ AllWritable(all) /\ Len(all) = Len(pairs) + 1
             /\ all[1] = pair /\ \A i \in 1 .. Len(pairs) : all[i + 1] = pairs[i]
             /\ FlattenSeq(BytesOf(all)) = PairBytes(pair) \o FlattenSeq(BytesOf(pairs))
             /\ PairBytes(pair) \in Seq(Byte) /\ FlattenSeq(BytesOf(pairs)) \in Seq(Byte)
<1> DEFINE all == <<pair>> \o pairs
           n == Len(pairs)
           X == Seq(Byte) \X Seq(Byte)
<1>1. pairs \in Seq(X) /\ pair \in X
  BY DEF Pairs
<1> HIDE DEF X
<1>2. all \in Seq(X) /\ Len(all) = n + 1 /\ n \in Nat /\ all[1] = pair
      /\ \A i \in 1 .. n : all[i + 1] = pairs[i]
  BY <1>1
<1> HIDE DEF all
<1>3. \A i \in 1 .. n + 1 : i = 1 \/ (i - 1 \in 1 .. n /\ i = (i - 1) + 1)
  BY <1>2
<1>4. all \in Pairs
  BY <1>2 DEF Pairs, X
<1>5. AllWritable(all)
  <2> SUFFICES ASSUME NEW i \in 1 .. n + 1 PROVE Writable(all[i][1]) /\ Writable(all[i][2])
    BY <1>2 DEF AllWritable
  <2>1. CASE i = 1
    BY <1>2, <2>1
  <2>2. CASE i - 1 \in 1 .. n /\ i = (i - 1) + 1
    <3>1. all[i] = pairs[i - 1]
      BY <1>2, <2>2
    <3> QED
      BY <2>2, <3>1 DEF AllWritable
  <2> QED
    BY <1>3, <2>1, <2>2
<1> DEFINE b == BytesOf(pairs)
           m == BytesOf(all)
           z == PairBytes(pair)
           Y == Seq(Byte)
<1>6. b \in Seq(Y) /\ Len(b) = n /\ \A i \in 1 .. n : b[i] = PairBytes(pairs[i])
  BY BytesOfPairs
<1>7. m \in Seq(Y) /\ Len(m) = n + 1 /\ \A i \in 1 .. n + 1 : m[i] = PairBytes(all[i]) /\ PairBytes(all[i]) \in Y
  BY <1>2, <1>4, <1>5, BytesOfPairs
<1>8. 1 \in 1 .. n + 1 /\ \A i \in 1 .. n : i + 1 \in 1 .. n + 1
  BY <1>2
<1>9. z \in Y /\ m[1] = z /\ \A i \in 1 .. n : m[i + 1] = b[i]
  BY <1>2, <1>6, <1>7, <1>8
<1> HIDE DEF b, m, z, Y, n
<1>10. m = <<z>> \o b
  <2>1. <<z>> \in Seq(Y) /\ Len(<<z>>) = 1
    BY <1>9
  <2> DEFINE c == <<z>> \o b
  <2>2. c \in Seq(Y) /\ Len(c) = n + 1 /\ c[1] = z /\ \A i \in 1 .. n : c[i + 1] = b[i]
    BY <1>2, <1>6, <1>9 DEF n
  <2> HIDE DEF c
  <2>3. \A i \in 1 .. n + 1 : m[i] = c[i]
    <3> TAKE i \in 1 .. n + 1
    <3>1. CASE i = 1
      BY <1>9, <2>2, <3>1
    <3>2. CASE i - 1 \in 1 .. n /\ i = (i - 1) + 1
      <4> DEFINE j == i - 1
      <4>1. j \in 1 .. n /\ i = j + 1
        BY <3>2
      <4> HIDE DEF j
      <4> QED
        BY <1>9, <2>2, <4>1
    <3> QED
      BY <1>3, <3>1, <3>2
  <2>4. m = c
    BY <1>7, <2>2, <2>3
  <2> QED
    BY <2>4 DEF c
<1>11. FlattenSeq(<<z>>) = z
  <2>1. <<>> \in Seq(Y) /\ Append(<<>>, z) = <<z>>
    BY <1>9
  <2>2. Append(<<>>, z) = <<z>> /\ <<>> \in Seq(Seq(Byte)) /\ z \in Seq(Byte)
    BY <1>9, <2>1 DEF Y
  <2>3. FlattenSeq(Append(<<>>, z)) = FlattenSeq(<<>>) \o z
    BY <2>2, FlattenAppend
  <2>4. FlattenSeq(<<z>>) = <<>> \o z
    BY <2>2, <2>3, FlattenEmpty
  <2> QED
    BY <2>2, <2>4
<1>12. <<z>> \in Seq(Seq(Byte)) /\ b \in Seq(Seq(Byte))
  BY <1>6, <1>9 DEF Y
<1>13. FlattenSeq(m) = z \o FlattenSeq(b)
  BY <1>10, <1>11, <1>12, FlattenConcat
<1>14. FlattenSeq(b) \in Seq(Byte) /\ z \in Seq(Byte)
  BY <1>9, <1>12, FlattenType DEF Y
<1> QED
  BY <1>2, <1>4, <1>5, <1>13, <1>14 DEF all, b, m, z, n

LEMMA TextIsPair ==
  ASSUME NEW stanza, IsStanza(stanza), NEW f, Growing(stanza, f)
  PROVE  /\ TextPair(stanza) \in Seq(Byte) \X Seq(Byte)
         /\ TextPair(stanza)[1] = TextKey /\ Writable(TextPair(stanza)[1])
         /\ TextPair(stanza)[2] = Decoded(stanza, (StanzaLength(stanza) * 3) \div 4 + 1)
         /\ Writable(TextPair(stanza)[2])
         /\ TextPair(stanza)[2] \in String
         /\ Len(PairBytes(TextPair(stanza))) + 5 <= f[0]
<1> DEFINE val == Decoded(stanza, (StanzaLength(stanza) * 3) \div 4 + 1)
           pair == TextPair(stanza)
           n == Len(stanza.text)
<1>1. pair = <<TextKey, val>>
  BY DEF TextPair
<1>2. /\ val \in Seq(Byte) /\ val \in String /\ Len(val) \in Nat
      /\ stanza.text = Null => Len(val) = 0
      /\ stanza.text # Null => Len(val) <= n
  BY DecodedIs
<1> HIDE DEF val
<1>3. f[0] = IF stanza.text = Null THEN 9 ELSE 17 + n
  BY DEF Growing
<1>4. LengthFits(Len(val), 4)
  <2>1. CASE stanza.text = Null
    <3>1. 0 \in 0 .. 255
      BY SMT
    <3>2. LengthFits(0, 4)
      BY <3>1, SmallFits
    <3> QED
      BY <1>2, <2>1, <3>2
  <2>2. CASE stanza.text # Null
    <3>1. n \in Nat /\ LengthFits(StanzaLength(stanza), 4) /\ stanza.attrs \in Seq(Attribute)
      BY <2>2, StanzaAttributes DEF IsStanza
    <3>2. f[Len(stanza.attrs)] = StanzaLength(stanza)
      BY DEF Growing
    <3>3. f[0] <= StanzaLength(stanza)
      BY StanzaFits
    <3>4. Len(val) <= StanzaLength(stanza)
      <4> DEFINE s == StanzaLength(stanza)
      <4>1. s \in Nat
        BY <3>1 DEF LengthFits
      <4> HIDE DEF s, n
      <4>2. Len(val) <= s
        BY <1>2, <1>3, <2>2, <3>1, <3>3, <4>1 DEF s
      <4> QED
        BY <4>2 DEF s
    <3> QED
      BY <1>2, <3>1, <3>4, FitsBelow
  <2> QED
    BY <2>1, <2>2
<1>5. Writable(val)
  BY <1>2, <1>4 DEF Writable
<1>6. TextKey \in Seq(Byte) /\ Len(TextKey) = 1
  BY DEF TextKey, Byte
<1>7. Writable(TextKey)
  <2>1. 1 \in 0 .. 255
    BY SMT
  <2>2. LengthFits(1, 4)
    BY <2>1, SmallFits
  <2> QED
    BY <1>6, <2>2 DEF Writable
<1> DEFINE k == StringBytes(TextKey)
           v == StringBytes(val)
<1>8. k \in Seq(Byte) /\ v \in Seq(Byte)
  BY <1>5, <1>7, StringWritten
<1>9. Len(k) = 2
  <2>1. Len(TextKey) <= 31
    BY <1>6, SMT
  <2>2. Len(k) = Len(TextKey) + 1
    BY <1>7, <2>1, StringLength
  <2> HIDE DEF k
  <2> QED
    BY <1>6, <2>2
<1>10. Len(v) \in Nat /\ Len(v) <= Len(val) + 5 /\ (Len(val) <= 31 => Len(v) = Len(val) + 1)
  BY <1>5, StringLength
<1>11. PairBytes(pair) = k \o v
  BY <1>1 DEF PairBytes
<1> HIDE DEF k, v, pair
<1>12. Len(k \o v) = Len(k) + Len(v)
  BY <1>8
<1>13. Len(k \o v) + 5 <= f[0]
  <2>1. CASE stanza.text = Null
    <3> DEFINE m == Len(v)
    <3>1. Len(val) = 0 /\ f[0] = 9
      BY <1>2, <1>3, <2>1
    <3>2. m = 1
      BY <1>10, <3>1, SMT
    <3> QED
      BY <1>9, <1>12, <3>1, <3>2
  <2>2. CASE stanza.text # Null
    <3>1. n \in Nat /\ f[0] = 17 + n
      BY <1>3, <2>2, StanzaAttributes
    <3> HIDE DEF n
    <3> QED
      BY <1>2, <1>9, <1>10, <1>12, <2>2, <3>1
  <2> QED
    BY <2>1, <2>2
<1> QED
  <2>1. Len(PairBytes(pair)) + 5 <= f[0]
    BY <1>11, <1>13
  <2>2. pair[1] = TextKey /\ pair[2] = val /\ pair \in Seq(Byte) \X Seq(Byte)
    BY <1>1, <1>2, <1>6
  <2> QED
    BY <1>2, <1>5, <1>7, <2>1, <2>2 DEF pair, val

\* What the pairs of a request are: the text, and then the attributes.
PairsOf(stanza, pairs) ==
  /\ pairs[1] = TextPair(stanza)
  /\ \A j \in 2 .. Len(pairs) : \E i \in 1 .. Len(stanza.attrs) : Becomes(stanza, i, pairs[j])
  /\ \A i \in 1 .. Len(stanza.attrs) : KeptAt(stanza, i) => \E j \in 2 .. Len(pairs) : Becomes(stanza, i, pairs[j])
  /\ \A j \in 2 .. Len(pairs) - 1 : \E i \in 1 .. Len(stanza.attrs) :
       Followed(stanza, i, Len(stanza.attrs)) /\ Becomes(stanza, i, pairs[j])
  /\ \A i \in 1 .. Len(stanza.attrs) : KeptAt(stanza, i) /\ Followed(stanza, i, Len(stanza.attrs)) =>
       \E j \in 2 .. Len(pairs) - 1 : Becomes(stanza, i, pairs[j])

LEMMA RequestPairsAre ==
  ASSUME NEW stanza, IsStanza(stanza), Known(stanza), NEW f, Growing(stanza, f)
  PROVE  LET pairs == RequestPairs(stanza)
             N == Len(stanza.attrs)
         IN  /\ IsCommand(pairs) /\ PairsOf(stanza, pairs)
             /\ Len(pairs) = N + 1 - LeftOut(stanza) /\ N >= LeftOut(stanza)
             /\ FlattenSeq(BytesOf(pairs)) \in Seq(Byte)
             /\ Len(FlattenSeq(BytesOf(pairs))) + 5 <= StanzaLength(stanza)
<1> DEFINE attrs == stanza.attrs
           N == Len(attrs)
           rest == FlattenSeq(Optional(stanza))
           text == TextPair(stanza)
           pairs == RequestPairs(stanza)
           all == <<text>> \o rest
           bytes(p) == FlattenSeq(BytesOf(p))
<1>1. N \in Nat /\ DOMAIN attrs = 1 .. N /\ \A i \in 1 .. N : attrs[i] \in Attribute
  BY StanzaAttributes
<1>2. pairs = all
  <2>1. Optional(stanza) = [i \in DOMAIN attrs |->
          IF Kept(attrs[i]) THEN << <<AttributeKeys[attrs[i].name], ValueOf(attrs[i])>> >> ELSE <<>>]
    BY <1>1 DEF Optional, OptionalPair, AttributePair
  <2> QED
    BY <2>1 DEF RequestPairs, TextPair
<1>3. KeptOf(stanza, rest, N) /\ Len(rest) = N - LeftOut(stanza) /\ N >= LeftOut(stanza) /\ f[0] + Len(bytes(rest)) <= f[N]
  BY KeptAttributes
<1>4. rest \in Pairs /\ AllWritable(rest)
  BY <1>3 DEF KeptOf
<1>5. /\ text \in Seq(Byte) \X Seq(Byte) /\ text[1] = TextKey /\ Writable(text[1]) /\ Writable(text[2])
      /\ Len(PairBytes(text)) + 5 <= f[0]
  BY TextIsPair
<1> HIDE DEF pairs, rest, text
<1>6. /\ all \in Pairs /\ AllWritable(all) /\ Len(all) = Len(rest) + 1
      /\ all[1] = text /\ \A i \in 1 .. Len(rest) : all[i + 1] = rest[i]
  BY <1>4, <1>5, FirstPair
<1>7. bytes(all) = PairBytes(text) \o bytes(rest) /\ PairBytes(text) \in Seq(Byte) /\ bytes(rest) \in Seq(Byte)
  BY <1>4, <1>5, FirstPair
<1> HIDE DEF all
<1> DEFINE m == Len(rest)
<1>8. m \in Nat /\ Len(all) = m + 1 /\ Len(all) = N + 1 - LeftOut(stanza)
  <2>1. LeftOut(stanza) \in Nat
    BY DEF LeftOut
  <2> QED
    BY <1>1, <1>3, <1>6, <2>1
<1>9. \A j \in 2 .. m + 1 : j - 1 \in 1 .. m /\ j = (j - 1) + 1
  BY <1>8
<1>10. \A j \in 1 .. m : j + 1 \in 2 .. m + 1
  BY <1>8
<1>11. (\A j \in 2 .. m : j - 1 \in 1 .. m - 1 /\ j \in 2 .. m + 1) /\ \A j \in 1 .. m - 1 : j + 1 \in 2 .. m /\ j \in 1 .. m
  BY <1>8
<1>12. PairsOf(stanza, all)
  <2> DEFINE a == Len(all)
             b == Len(all) - 1
             c == Len(rest) - 1
  <2>1. a = m + 1 /\ b = m /\ c = m - 1
    BY <1>8
  <2>2. /\ \A j \in 1 .. m : \E i \in 1 .. N : Becomes(stanza, i, rest[j])
        /\ \A i \in 1 .. N : KeptAt(stanza, i) => \E j \in 1 .. m : Becomes(stanza, i, rest[j])
        /\ \A j \in 1 .. c : \E i \in 1 .. N : Followed(stanza, i, N) /\ Becomes(stanza, i, rest[j])
        /\ \A i \in 1 .. N : KeptAt(stanza, i) /\ Followed(stanza, i, N) => \E j \in 1 .. c : Becomes(stanza, i, rest[j])
    BY <1>3, Zenon DEF KeptOf
  <2>3. \A j \in 1 .. m : all[j + 1] = rest[j]
    BY <1>6
  <2>4. \A j \in 2 .. m + 1 : all[j] = rest[j - 1]
    BY <1>9, <2>3
  <2> HIDE DEF a, b, c, m, N
  <2>5. \A j \in 2 .. a : \E i \in 1 .. N : Becomes(stanza, i, all[j])
    BY <1>9, <2>1, <2>2, <2>4
  <2>6. \A i \in 1 .. N : KeptAt(stanza, i) => \E j \in 2 .. a : Becomes(stanza, i, all[j])
    <3> TAKE i \in 1 .. N
    <3> HAVE KeptAt(stanza, i)
    <3>1. PICK j \in 1 .. m : Becomes(stanza, i, rest[j])
      BY <2>2
    <3> QED
      BY <1>10, <2>1, <2>3, <3>1
  <2>7. \A j \in 2 .. b : \E i \in 1 .. N : Followed(stanza, i, N) /\ Becomes(stanza, i, all[j])
    BY <1>11, <2>1, <2>2, <2>4
  <2>8. \A i \in 1 .. N : KeptAt(stanza, i) /\ Followed(stanza, i, N) => \E j \in 2 .. b : Becomes(stanza, i, all[j])
    <3> TAKE i \in 1 .. N
    <3> HAVE KeptAt(stanza, i) /\ Followed(stanza, i, N)
    <3>1. PICK j \in 1 .. c : Becomes(stanza, i, rest[j])
      BY <2>2
    <3> QED
      BY <1>11, <2>1, <2>3, <3>1
  <2> QED
    BY <1>6, <2>5, <2>6, <2>7, <2>8, Zenon DEF PairsOf, text, a, b, N
<1>13. IsCommand(all)
  <2>1. TextKey \in CommandKeys
    BY DEF CommandKeys
  <2>2. \A i \in 1 .. N : Kept(attrs[i]) => AttributePair(attrs[i])[1] \in CommandKeys
    <3> TAKE i \in 1 .. N
    <3> HAVE Kept(attrs[i])
    <3> DEFINE a == attrs[i]
    <3>1. a \in ToSet(attrs) /\ a \in Attribute
      BY <1>1 DEF ToSet
    <3>2. LengthFits(Len(a.value), 4)
      BY StanzaFits
    <3>3. a.name \in DOMAIN AttributeKeys /\ (a.name = "action" => a.word \in DOMAIN ActionKeys)
      BY <3>1 DEF Known
    <3> HIDE DEF a
    <3>4. Kept(a)
      BY DEF a
    <3>5. AttributePair(a)[1] = AttributeKeys[a.name] /\ AttributeKeys[a.name] \in CommandKeys
      BY <3>1, <3>2, <3>3, <3>4, AttributeIsPair
    <3> QED
      BY <3>5 DEF a
  <2>3. \A j \in 1 .. Len(all) : all[j][1] \in CommandKeys
    <3> TAKE j \in 1 .. Len(all)
    <3>1. CASE j = 1
      BY <1>5, <1>6, <2>1, <3>1
    <3>2. CASE j # 1
      <4>1. j \in 2 .. Len(all)
        BY <1>1, <1>8, <3>2
      <4>2. PICK i \in 1 .. N : Kept(attrs[i]) /\ all[j] = AttributePair(attrs[i])
        BY <1>12, <4>1 DEF PairsOf, Becomes, KeptAt
      <4> QED
        BY <2>2, <4>2
    <3> QED
      BY <3>1, <3>2
  <2> QED
    BY <1>6, <2>3 DEF IsCommand
<1>14. bytes(all) \in Seq(Byte) /\ Len(bytes(all)) + 5 <= StanzaLength(stanza)
  <2> DEFINE x == PairBytes(text)
             y == bytes(rest)
  <2>1. x \in Seq(Byte) /\ y \in Seq(Byte) /\ Len(x) + 5 <= f[0] /\ f[0] + Len(y) <= f[N]
    BY <1>3, <1>5, <1>7
  <2>2. f[N] = StanzaLength(stanza) /\ f[0] \in Nat /\ f[N] \in Nat
    BY <1>1 DEF Growing
  <2> HIDE DEF x, y, N
  <2>3. x \o y \in Seq(Byte) /\ Len(x \o y) = Len(x) + Len(y) /\ Len(x) \in Nat /\ Len(y) \in Nat
    BY <2>1
  <2>4. Len(x \o y) + 5 <= f[N]
    BY <2>1, <2>2, <2>3
  <2> QED
    BY <1>7, <2>2, <2>3, <2>4 DEF x, y
<1>15. all = RequestPairs(stanza)
  BY <1>2 DEF pairs
<1> HIDE DEF bytes
<1>16. IsCommand(all) /\ PairsOf(stanza, all) /\ Len(all) = N + 1 - LeftOut(stanza) /\ N >= LeftOut(stanza)
       /\ bytes(all) \in Seq(Byte) /\ Len(bytes(all)) + 5 <= StanzaLength(stanza)
  BY <1>3, <1>8, <1>12, <1>13, <1>14
<1> QED
  BY <1>15, <1>16 DEF bytes

\* The attributes and the text that come through: the header announces one pair
\* less than the stanza has attributes, and that many of the first are read.
Through(stanza) == DOMAIN stanza.attrs \ Unread(stanza)
TextThrough(stanza) == HasGadget(stanza) \/ Unread(stanza) # {}
Announced(stanza) == Len(stanza.attrs) - 1

PairsRead(stanza, pairs, n) ==
  /\ n >= 1 <=> TextThrough(stanza)
  /\ n >= 1 => pairs[1] = TextPair(stanza)
  /\ \A j \in 2 .. n : \E i \in Through(stanza) : Becomes(stanza, i, pairs[j])
  /\ \A i \in Through(stanza) : KeptAt(stanza, i) => \E j \in 2 .. n : Becomes(stanza, i, pairs[j])

LEMMA AnnouncedPairs ==
  ASSUME NEW stanza, IsStanza(stanza), NEW pairs, PairsOf(stanza, pairs),
         Len(pairs) = Len(stanza.attrs) + 1 - LeftOut(stanza), Len(stanza.attrs) >= LeftOut(stanza)
  PROVE  Announced(stanza) \in 0 .. Len(pairs) /\ PairsRead(stanza, pairs, Announced(stanza))
<1> DEFINE N == Len(stanza.attrs)
           P == Len(pairs)
           n == Announced(stanza)
<1>1. N \in Nat /\ DOMAIN stanza.attrs = 1 .. N
  BY StanzaAttributes
<1>2. /\ pairs[1] = TextPair(stanza)
      /\ \A j \in 2 .. P : \E i \in 1 .. N : Becomes(stanza, i, pairs[j])
      /\ \A i \in 1 .. N : KeptAt(stanza, i) => \E j \in 2 .. P : Becomes(stanza, i, pairs[j])
      /\ \A j \in 2 .. P - 1 : \E i \in 1 .. N : Followed(stanza, i, N) /\ Becomes(stanza, i, pairs[j])
      /\ \A i \in 1 .. N : KeptAt(stanza, i) /\ Followed(stanza, i, N) => \E j \in 2 .. P - 1 : Becomes(stanza, i, pairs[j])
  BY DEF PairsOf
<1>3. PICK g, x : IgnoredAt(stanza, g, x)
  BY IgnoredAttributes
<1>4. /\ g \in 0 .. N /\ x \in 1 .. N /\ g # x /\ (g >= 1 <=> HasGadget(stanza))
      /\ \A i \in 1 .. N : KeptAt(stanza, i) <=> i \notin {g, x}
  BY <1>3 DEF IgnoredAt, KeptAt
<1>5. P = N + 1 - LeftOut(stanza) /\ N >= LeftOut(stanza) /\ n = N - 1
  BY DEF Announced
<1>6. \A i : i \in Through(stanza) <=> i \in 1 .. N /\ (HasGadget(stanza) \/ ~KeptAt(stanza, i) \/ Followed(stanza, i, N))
  BY <1>1 DEF Through, Unread, HasGadget, KeptAt, Followed
<1>7. \A i, j : Becomes(stanza, i, pairs[j]) => KeptAt(stanza, i)
  BY DEF Becomes
<1> HIDE DEF N, P, n
<1>8. CASE HasGadget(stanza)
  <2>1. n = P /\ n \in 0 .. P /\ n >= 1
    BY <1>1, <1>5, <1>8 DEF LeftOut
  <2>2. TextThrough(stanza)
    BY <1>8 DEF TextThrough
  <2>3. \A j \in 2 .. n : \E i \in Through(stanza) : Becomes(stanza, i, pairs[j])
    BY <1>2, <1>6, <1>8, <2>1
  <2>4. \A i \in Through(stanza) : KeptAt(stanza, i) => \E j \in 2 .. n : Becomes(stanza, i, pairs[j])
    BY <1>2, <1>6, <2>1
  <2> QED
    BY <1>2, <2>1, <2>2, <2>3, <2>4 DEF PairsRead, P, n
<1>9. CASE ~HasGadget(stanza)
  <2>1. n = P - 1 /\ n \in 0 .. P /\ N >= 1
    BY <1>1, <1>5, <1>9 DEF LeftOut
  <2>2. n >= 1 <=> TextThrough(stanza)
    <3>1. Unread(stanza) = {i \in 1 .. N : KeptAt(stanza, i) /\ ~Followed(stanza, i, N)}
      BY <1>1, <1>9 DEF Unread, HasGadget, KeptAt, Followed
    <3>2. g = 0 /\ \A i \in 1 .. N : KeptAt(stanza, i) <=> i # x
      BY <1>1, <1>4, <1>9
    <3>3. ASSUME n >= 1 PROVE Unread(stanza) # {}
      <4> DEFINE i == IF x = N THEN N - 1 ELSE N
      <4>1. N >= 2
        BY <1>1, <1>5, <3>3
      <4>2. i \in 1 .. N /\ i # x /\ \A l \in 1 .. N : l > i => l = x
        BY <1>1, <1>4, <4>1
      <4> HIDE DEF i
      <4>3. KeptAt(stanza, i) /\ ~Followed(stanza, i, N)
        BY <3>2, <4>2 DEF Followed
      <4> QED
        BY <3>1, <4>2, <4>3
    <3>4. ASSUME NEW i \in Unread(stanza) PROVE n >= 1
      <4>1. i \in 1 .. N /\ i # x
        BY <3>1, <3>2
      <4> QED
        BY <1>1, <1>4, <1>5, <4>1
    <3> QED
      BY <1>9, <3>3, <3>4 DEF TextThrough
  <2>3. \A j \in 2 .. n : \E i \in Through(stanza) : Becomes(stanza, i, pairs[j])
    BY <1>2, <1>6, <2>1
  <2>4. \A i \in Through(stanza) : KeptAt(stanza, i) => \E j \in 2 .. n : Becomes(stanza, i, pairs[j])
    BY <1>2, <1>6, <1>9, <2>1
  <2> QED
    BY <1>2, <2>1, <2>2, <2>3, <2>4 DEF PairsRead, P, n
<1> QED
  BY <1>8, <1>9

\* What the server publishes for a stanza: always, when it knows what is in it.
LEMMA ShellsIs ==
  ASSUME NEW stanza, IsStanza(stanza)
  PROVE  LET pairs == RequestPairs(stanza)
             n == Announced(stanza)
         IN  /\ Known(stanza) =>
                  /\ IsCommand(pairs) /\ n \in 0 .. Len(pairs) /\ PairsRead(stanza, pairs, n) /\ LengthFits(2 * n, 4)
                  /\ shells(stanza) = MapBytes(2 * n, pairs)
                  /\ shells(stanza) \in Seq(Byte) /\ shells(stanza) # Null
             /\ ~Known(stanza) => shells(stanza) = Null
<1> DEFINE pairs == RequestPairs(stanza)
           N == Len(stanza.attrs)
           n == Announced(stanza)
           size == 2 * n
<1>1. ASSUME ~Known(stanza) PROVE shells(stanza) = Null
  BY <1>1 DEF shells
<1>2. ASSUME Known(stanza)
      PROVE  /\ IsCommand(pairs) /\ n \in 0 .. Len(pairs) /\ PairsRead(stanza, pairs, n) /\ LengthFits(size, 4)
             /\ shells(stanza) = MapBytes(size, pairs)
             /\ shells(stanza) \in Seq(Byte) /\ shells(stanza) # Null
  <2>1. PICK f : Growing(stanza, f)
    BY StanzaGrows
  <2>2. /\ IsCommand(pairs) /\ PairsOf(stanza, pairs) /\ Len(pairs) = N + 1 - LeftOut(stanza) /\ N >= LeftOut(stanza)
        /\ FlattenSeq(BytesOf(pairs)) \in Seq(Byte)
        /\ Len(FlattenSeq(BytesOf(pairs))) + 5 <= StanzaLength(stanza)
    BY <1>2, <2>1, RequestPairsAre
  <2>20. n \in 0 .. Len(pairs) /\ PairsRead(stanza, pairs, n)
    BY <2>2, AnnouncedPairs
  <2>3. N \in Nat /\ 9 * N <= StanzaLength(stanza) /\ LengthFits(StanzaLength(stanza), 4)
    <3>1. N \in Nat
      BY StanzaAttributes
    <3>2. N \in 0 .. N
      BY <3>1
    <3>3. 9 * N <= f[N]
      BY <2>1, <3>2, StanzaFits
    <3> QED
      BY <2>1, <3>1, <3>3 DEF Growing, IsStanza
  <2> DEFINE body == FlattenSeq(BytesOf(pairs))
             head == Header(MapType(size), size)
             L == StanzaLength(stanza)
  <2>21. n = N - 1
    BY DEF Announced
  <2> HIDE DEF pairs, N, n
  <2>4. size = 2 + 2 * N - 4 /\ size \in Nat
    BY <2>3, <2>20, <2>21
  <2>5. L \in Nat
    BY <2>3 DEF LengthFits
  <2> HIDE DEF size
  <2>6. LengthFits(size, 4)
    <3> HIDE DEF L
    <3>1. size <= L
      BY <2>3, <2>4, <2>5 DEF L
    <3>2. LengthFits(L, 4)
      BY <2>3 DEF L
    <3> QED
      BY <2>4, <3>1, <3>2, FitsBelow
  <2>7. pairs \in Pairs /\ AllWritable(pairs)
    BY <2>2 DEF IsCommand
  <2>8. Whole(MapOf(size, pairs)) /\ FlattenSeq(MapOf(size, pairs)) = MapBytes(size, pairs)
        /\ MapBytes(size, pairs) \in Seq(Byte)
    BY <2>6, <2>7, MapWritten
  <2>9. head \in Seq(Byte) /\ Len(head) \in Nat /\ Len(head) <= 5
    BY <2>6, MapHeader, MapHeaderLength
  <2>10. MapBytes(size, pairs) = head \o body
    BY DEF MapBytes
  <2>11. Len(MapBytes(size, pairs)) <= L
    <3> HIDE DEF head, body, L
    <3>1. body \in Seq(Byte) /\ Len(body) + 5 <= L
      BY <2>2 DEF body, L
    <3>2. Len(head \o body) = Len(head) + Len(body) /\ Len(body) \in Nat
      BY <2>9, <3>1
    <3>3. Len(head \o body) <= L
      BY <2>5, <2>9, <3>1, <3>2
    <3> QED
      BY <2>10, <3>3
  <2> DEFINE w == Write(<<>>, L, MapOf(size, pairs))
  <2>12. w.ok /\ w.out = MapBytes(size, pairs)
    BY <2>5, <2>8, <2>11, WholeWritten
  <2>13. shells(stanza) = w.out
    <3>1. shells(stanza) = IF Known(stanza) /\ Write(<<>>, L, MapOf(2 + 2 * N - 4, pairs)).ok
                           THEN Write(<<>>, L, MapOf(2 + 2 * N - 4, pairs)).out ELSE Null
      BY DEF shells, RoomForRequest, pairs, N
    <3> QED
      BY <1>2, <2>4, <2>12, <3>1
  <2>14. shells(stanza) # Null
    BY <2>8, <2>12, <2>13, NullAssumption
  <2> QED
    BY <2>2, <2>6, <2>8, <2>12, <2>13, <2>14, <2>20
<1> QED
  BY <1>1, <1>2

-----------------------------------------------------------------------------
(* What the hypervisor hears *)

\* The strings that can be written.
Words == {s \in String : LengthFits(Len(s), 4)}

LEMMA WordIs ==
  ASSUME NEW s \in Words
  PROVE  /\ s \in String /\ s \in Seq(Byte) /\ CString(s) = s /\ Len(s) \in Nat
         /\ LengthFits(Len(s), 4) /\ Writable(s) /\ s # Null
<1>1. s \in String /\ LengthFits(Len(s), 4)
  BY DEF Words
<1>2. s \in Seq(Byte) /\ CString(s) = s
  BY <1>1, StringIsBytes
<1>3. s # Null
  BY <1>2, NullAssumption
<1>4. Len(s) \in Nat
  BY <1>2
<1> QED
  BY <1>1, <1>2, <1>3, <1>4 DEF Writable

LEMMA ShorterWord ==
  ASSUME NEW bytes, Writable(bytes)
  PROVE  CString(bytes) \in Words
<1> DEFINE c == CString(bytes)
<1>1. bytes \in Seq(Byte) /\ LengthFits(Len(bytes), 4)
  BY DEF Writable
<1>2. c \in String /\ c \in Seq(Byte) /\ Len(c) <= Len(bytes)
  BY <1>1, CStringType
<1> HIDE DEF c
<1>3. Len(c) \in Nat
  BY <1>2
<1>4. LengthFits(Len(c), 4)
  BY <1>1, <1>2, <1>3, FitsBelow
<1> QED
  BY <1>2, <1>4 DEF Words, c

\* The attributes with a name, of those that come through: they are all the same.
GivenAt(stanza, name) == {i \in Through(stanza) : stanza.attrs[i].name = name}

\* What the hypervisor finds in the map it has read.
Hears(stanza, hm) ==
  /\ hm \in HashMaps /\ hm # Null
  /\ \A key \in CommandKeys : hashmap_get(hm, key) \in Words \cup {Null}
  /\ hashmap_get(hm, TextKey) = IF TextThrough(stanza) THEN TextPair(stanza)[2] ELSE Null
  /\ \A name \in DOMAIN AttributeKeys :
       /\ GivenAt(stanza, name) = {} => hashmap_get(hm, AttributeKeys[name]) = Null
       /\ GivenAt(stanza, name) # {} => \E i \in GivenAt(stanza, name) :
            hashmap_get(hm, AttributeKeys[name]) = ValueOf(stanza.attrs[i])

LEMMA KeysDiffer ==
  /\ \A m, n \in DOMAIN AttributeKeys : AttributeKeys[m] = AttributeKeys[n] => m = n
  /\ \A n \in DOMAIN AttributeKeys : AttributeKeys[n] # TextKey /\ n \notin Ignored
<1>1. DOMAIN AttributeKeys = {"width", "height", "request", "action", "projectid", "shellid", "userid"}
  BY DEF AttributeKeys
<1> DEFINE letter == [width |-> 119, height |-> 104, request |-> 114, action |-> 97,
                      projectid |-> 112, shellid |-> 115, userid |-> 117]
<1>2. \A n \in DOMAIN AttributeKeys : AttributeKeys[n] = <<letter[n]>>
  BY <1>1 DEF AttributeKeys
<1>3. \A m, n \in DOMAIN AttributeKeys : letter[m] = letter[n] => m = n
  BY <1>1, SMT
<1>4. \A n \in DOMAIN AttributeKeys : letter[n] # 116
  BY <1>1, SMT
<1>5. \A a, b : <<a>> = <<b>> => a = b
  OBVIOUS
<1>6. \A n \in DOMAIN AttributeKeys : n \notin Ignored
  BY <1>1 DEF Ignored
<1> HIDE DEF letter
<1> QED
  BY <1>2, <1>3, <1>4, <1>5, <1>6 DEF TextKey

LEMMA CommandHeard ==
  ASSUME NEW stanza, IsStanza(stanza), Known(stanza)
  PROVE  Hears(stanza, onMessage(shells(stanza)))
<1> DEFINE pairs == RequestPairs(stanza)
           hm == onMessage(shells(stanza))
           attrs == stanza.attrs
           N == Len(attrs)
           n == Announced(stanza)
<1>1. /\ IsCommand(pairs) /\ n \in 0 .. Len(pairs) /\ PairsRead(stanza, pairs, n) /\ LengthFits(2 * n, 4)
      /\ shells(stanza) = MapBytes(2 * n, pairs)
  BY ShellsIs
<1> HIDE DEF pairs, n
<1>2. PICK f : Collects(pairs, f) /\ hm = f[n]
  <2>1. \E f : Collects(pairs, f) /\ onMessage(MapBytes(2 * n, pairs)) = f[n]
    BY <1>1, CommandRead
  <2> QED
    BY <1>1, <2>1
<1> HIDE DEF hm
<1>3. n \in Nat /\ AllWritable(pairs) /\ \A i \in 1 .. n : i \in 1 .. Len(pairs)
  BY <1>1 DEF IsCommand, Pairs
<1>4. hm \in HashMaps /\ hm # Null
  <2>1. n \in 0 .. Len(pairs)
    BY <1>1
  <2>2. hm \in HashMaps
    BY <1>2, <2>1 DEF Collects
  <2> QED
    BY <2>2, NullAssumption
<1>5. ASSUME NEW key \in CommandKeys
      PROVE  LET given == {i \in 1 .. n : pairs[i][1] = key}
                 value == hashmap_get(hm, key)
             IN  /\ given = {} => value = Null
                 /\ given # {} => \E i \in given : value = CString(pairs[i][2])
  BY <1>1, <1>2, CollectedGet
<1>6. \A key \in CommandKeys : hashmap_get(hm, key) \in Words \cup {Null}
  <2> TAKE key \in CommandKeys
  <2>1. hashmap_get(hm, key) = Null \/ \E i \in 1 .. n : hashmap_get(hm, key) = CString(pairs[i][2])
    BY <1>5
  <2>2. \A i \in 1 .. n : CString(pairs[i][2]) \in Words
    BY <1>3, ShorterWord DEF AllWritable
  <2> QED
    BY <2>1, <2>2
<1>7. PICK g : Growing(stanza, g)
  BY StanzaGrows
<1>8. /\ n >= 1 => pairs[1][1] = TextKey /\ pairs[1][2] = TextPair(stanza)[2] /\ TextPair(stanza)[2] \in String
  BY <1>1, <1>7, TextIsPair DEF PairsRead
<1>9. /\ n >= 1 <=> TextThrough(stanza)
      /\ \A j \in 2 .. n : \E i \in Through(stanza) : Becomes(stanza, i, pairs[j])
      /\ \A i \in Through(stanza) : KeptAt(stanza, i) => \E j \in 2 .. n : Becomes(stanza, i, pairs[j])
      /\ \A i \in Through(stanza) : i \in 1 .. N
  <2>1. \A i \in Through(stanza) : i \in 1 .. N
    BY StanzaAttributes DEF Through
  <2> QED
    BY <1>1, <2>1 DEF PairsRead
<1>10. ASSUME NEW i \in 1 .. N, Kept(attrs[i])
       PROVE  /\ attrs[i].name \in DOMAIN AttributeKeys /\ ValueOf(attrs[i]) \in String
              /\ AttributePair(attrs[i])[1] = AttributeKeys[attrs[i].name]
              /\ AttributePair(attrs[i])[2] = ValueOf(attrs[i])
  <2> DEFINE a == attrs[i]
  <2>1. a \in ToSet(attrs) /\ a \in Attribute
    BY StanzaAttributes DEF ToSet
  <2>2. LengthFits(Len(a.value), 4)
    BY <1>7, StanzaFits
  <2>3. a.name \in DOMAIN AttributeKeys /\ (a.name = "action" => a.word \in DOMAIN ActionKeys)
    BY <1>10, <2>1 DEF Known
  <2> HIDE DEF a
  <2>4. Kept(a)
    BY <1>10 DEF a
  <2>5. AttributePair(a)[1] = AttributeKeys[a.name] /\ AttributePair(a)[2] = ValueOf(a) /\ ValueOf(a) \in String
    BY <2>1, <2>2, <2>3, <2>4, AttributeIsPair
  <2> QED
    BY <2>3, <2>5 DEF a
<1>11. ASSUME NEW j \in 2 .. n
       PROVE  \E i \in Through(stanza) : /\ Kept(attrs[i]) /\ attrs[i].name \in DOMAIN AttributeKeys
                                         /\ pairs[j][1] = AttributeKeys[attrs[i].name]
                                         /\ CString(pairs[j][2]) = ValueOf(attrs[i])
  <2>1. PICK i \in Through(stanza) : Kept(attrs[i]) /\ pairs[j] = AttributePair(attrs[i])
    BY <1>9 DEF Becomes, KeptAt
  <2>2. attrs[i].name \in DOMAIN AttributeKeys /\ ValueOf(attrs[i]) \in String
        /\ pairs[j][1] = AttributeKeys[attrs[i].name] /\ pairs[j][2] = ValueOf(attrs[i])
    BY <1>9, <1>10, <2>1
  <2>3. CString(pairs[j][2]) = ValueOf(attrs[i])
    BY <2>2, StringIsBytes
  <2> QED
    BY <2>1, <2>2, <2>3
<1>12. \A j \in 1 .. n : j = 1 \/ j \in 2 .. n
  BY <1>3
<1>13. hashmap_get(hm, TextKey) = IF TextThrough(stanza) THEN TextPair(stanza)[2] ELSE Null
  <2>1. TextKey \in CommandKeys
    BY DEF CommandKeys
  <2>2. CASE n >= 1
    <3>1. 1 \in 1 .. n
      BY <1>3, <2>2
    <3>2. \A j \in 1 .. n : pairs[j][1] = TextKey => j = 1
      BY <1>11, <1>12, KeysDiffer
    <3>3. hashmap_get(hm, TextKey) = CString(pairs[1][2])
      BY <1>5, <1>8, <2>1, <2>2, <3>1, <3>2
    <3> QED
      BY <1>8, <1>9, <2>2, <3>3, StringIsBytes
  <2>3. CASE ~(n >= 1)
    <3>1. {i \in 1 .. n : pairs[i][1] = TextKey} = {}
      BY <1>3, <2>3
    <3>2. hashmap_get(hm, TextKey) = Null
      BY <1>5, <2>1, <3>1
    <3> QED
      BY <1>9, <2>3, <3>2
  <2> QED
    BY <2>2, <2>3
<1>14. ASSUME NEW name \in DOMAIN AttributeKeys
       PROVE  /\ GivenAt(stanza, name) = {} => hashmap_get(hm, AttributeKeys[name]) = Null
              /\ GivenAt(stanza, name) # {} => \E i \in GivenAt(stanza, name) :
                   hashmap_get(hm, AttributeKeys[name]) = ValueOf(attrs[i])
  <2> DEFINE key == AttributeKeys[name]
             given == {i \in 1 .. n : pairs[i][1] = key}
             value == hashmap_get(hm, key)
  <2>1. key \in CommandKeys /\ key # TextKey
    BY KeysDiffer DEF CommandKeys
  <2>2. (given = {} => value = Null) /\ (given # {} => \E i \in given : value = CString(pairs[i][2]))
    BY <1>5, <2>1
  <2>3. \A j \in given : \E i \in GivenAt(stanza, name) : CString(pairs[j][2]) = ValueOf(attrs[i])
    <3> TAKE j \in given
    <3>1. j \in 2 .. n
      <4>1. n >= 1
        BY <1>3
      <4> QED
        BY <1>8, <1>12, <2>1, <4>1
    <3>2. PICK i \in Through(stanza) : /\ attrs[i].name \in DOMAIN AttributeKeys
                                       /\ pairs[j][1] = AttributeKeys[attrs[i].name]
                                       /\ CString(pairs[j][2]) = ValueOf(attrs[i])
      BY <1>11, <3>1
    <3>3. attrs[i].name = name
      BY <3>2, KeysDiffer
    <3> QED
      BY <3>2, <3>3 DEF GivenAt
  <2>4. GivenAt(stanza, name) # {} => given # {}
    <3> HAVE GivenAt(stanza, name) # {}
    <3>1. PICK i \in Through(stanza) : attrs[i].name = name
      BY DEF GivenAt
    <3>2. Kept(attrs[i])
      BY <3>1, KeysDiffer DEF Kept
    <3>3. PICK j \in 2 .. n : pairs[j] = AttributePair(attrs[i])
      BY <1>9, <3>2 DEF Becomes, KeptAt
    <3>4. pairs[j][1] = key /\ j \in 1 .. n
      BY <1>3, <1>9, <1>10, <3>1, <3>2, <3>3
    <3> QED
      BY <3>4
  <2> HIDE DEF given, value
  <2>5. GivenAt(stanza, name) = {} => value = Null
    BY <2>2, <2>3
  <2>6. GivenAt(stanza, name) # {} => \E i \in GivenAt(stanza, name) : value = ValueOf(attrs[i])
    BY <2>2, <2>3, <2>4
  <2> QED
    BY <2>5, <2>6 DEF value
<1> QED
  BY <1>4, <1>6, <1>13, <1>14 DEF Hears, hm

-----------------------------------------------------------------------------
(* A text in base64 *)

LEMMA AlphabetIs ==
  ASSUME NEW v \in 0 .. 63
  PROVE  Alphabet[v] \in Byte /\ Alphabet[v] \notin End /\ Values(Alphabet[v]) = {v}
<1> DEFINE char(x) == IF x <= 25 THEN x + 65 ELSE IF x <= 51 THEN x + 71
                      ELSE IF x <= 61 THEN x - 4 ELSE IF x = 62 THEN 43 ELSE 47
<1>1. \A x \in 0 .. 63 : Alphabet[x] = char(x)
  BY DEF Alphabet
<1>2. \A x \in 0 .. 63 : char(x) \in 0 .. 255 /\ char(x) # 0 /\ char(x) # 61
  BY SMT
<1>3. \A x, y \in 0 .. 63 : char(x) = char(y) => x = y
  BY SMT
<1> HIDE DEF char
<1>4. Values(Alphabet[v]) = {v}
  BY <1>1, <1>3 DEF Values
<1>5. char(v) \in Byte /\ char(v) \notin End
  BY <1>2 DEF End, Byte
<1> QED
  BY <1>1, <1>4, <1>5

\* The bytes of a text, and zeros after them.
ByteAt(data, i) == IF i <= Len(data) THEN data[i] ELSE 0

LEMMA ByteAtIs ==
  ASSUME NEW data \in Seq(Byte), NEW i \in Nat \ {0}
  PROVE  ByteAt(data, i) \in Byte /\ ByteAt(data, i) \in 0 .. 255 /\ ByteAt(data, i) \in Nat
<1>1. i <= Len(data) => data[i] \in Byte
  BY ElementOfSeq
<1>2. 0 \in Byte /\ \A b \in Byte : b \in 0 .. 255 /\ b \in Nat
  BY SMT DEF Byte
<1> QED
  BY <1>1, <1>2 DEF ByteAt

\* The bits of a byte, the highest one first.
Weight == <<128, 64, 32, 16, 8, 4, 2, 1>>
BitOf(x, r) == (x \div Weight[r + 1]) % 2

LEMMA BitIs ==
  ASSUME NEW data \in Seq(Byte), NEW q \in Nat, NEW r \in 0 .. 7
  PROVE  Bit(data, 8 * q + r) = BitOf(ByteAt(data, q + 1), r)
<1> DEFINE k == 8 * q + r
<1>1. k \div 8 = q /\ k % 8 = r
  OBVIOUS
<1>2. Bit(data, k) = IF k \div 8 + 1 > Len(data) THEN 0
                     ELSE (data[k \div 8 + 1] \div Weight[(k % 8) + 1]) % 2
  BY DEF Bit, Weight
<1> HIDE DEF k
<1>3. Bit(data, k) = IF q + 1 > Len(data) THEN 0 ELSE (data[q + 1] \div Weight[r + 1]) % 2
  BY <1>1, <1>2
<1>4. CASE q + 1 > Len(data)
  <2>1. ByteAt(data, q + 1) = 0
    BY <1>4 DEF ByteAt
  <2>2. Weight[r + 1] \in Nat \ {0}
    BY SMTT(40) DEF Weight
  <2> DEFINE w == Weight[r + 1]
  <2> HIDE DEF w
  <2>3. (0 \div w) % 2 = 0
    <3>1. w \in Nat \ {0}
      BY <2>2 DEF w
    <3>2. 0 \div w = 0
      BY <3>1
    <3> QED
      BY <3>2
  <2> QED
    BY <1>3, <1>4, <2>1, <2>3 DEF BitOf, w, k
<1>5. CASE ~(q + 1 > Len(data))
  <2>1. ByteAt(data, q + 1) = data[q + 1]
    BY <1>5 DEF ByteAt
  <2> QED
    BY <1>3, <1>5, <2>1 DEF BitOf, k
<1> QED
  BY <1>4, <1>5

LEMMA ByteBits ==
  ASSUME NEW x \in 0 .. 255
  PROVE  LET c(r) == BitOf(x, r)
         IN  /\ x \div 4 = 32 * c(0) + 16 * c(1) + 8 * c(2) + 4 * c(3) + 2 * c(4) + c(5)
             /\ x % 4 = 2 * c(6) + c(7)
             /\ x \div 16 = 8 * c(0) + 4 * c(1) + 2 * c(2) + c(3)
             /\ x % 16 = 8 * c(4) + 4 * c(5) + 2 * c(6) + c(7)
             /\ x \div 64 = 2 * c(0) + c(1)
             /\ x % 64 = 32 * c(2) + 16 * c(3) + 8 * c(4) + 4 * c(5) + 2 * c(6) + c(7)
             /\ \A r \in 0 .. 7 : c(r) \in {0, 1}
<1> DEFINE c(r) == BitOf(x, r)
<1>1. /\ c(0) = (x \div 128) % 2 /\ c(1) = (x \div 64) % 2 /\ c(2) = (x \div 32) % 2 /\ c(3) = (x \div 16) % 2
      /\ c(4) = (x \div 8) % 2 /\ c(5) = (x \div 4) % 2 /\ c(6) = (x \div 2) % 2 /\ c(7) = (x \div 1) % 2
  BY DEF BitOf, Weight
<1>2. x \div 128 = (x \div 128) % 2
  BY SMT
<1>3. x \div 64 = 2 * (x \div 128) + ((x \div 64) % 2)
  BY SMT
<1>4. x \div 32 = 2 * (x \div 64) + ((x \div 32) % 2)
  BY SMT
<1>5. x \div 16 = 2 * (x \div 32) + ((x \div 16) % 2)
  BY SMT
<1>6. x \div 8 = 2 * (x \div 16) + ((x \div 8) % 2)
  BY SMT
<1>7. x \div 4 = 2 * (x \div 8) + ((x \div 4) % 2)
  BY SMT
<1>8. x \div 2 = 2 * (x \div 4) + ((x \div 2) % 2)
  BY SMT
<1>9. x = 2 * (x \div 2) + ((x \div 1) % 2)
  BY SMT
<1>10. x = 4 * (x \div 4) + (x % 4) /\ x = 16 * (x \div 16) + (x % 16) /\ x = 64 * (x \div 64) + (x % 64)
  BY SMT
<1>11. \A y \in Nat : y % 2 \in {0, 1}
  BY SMT
<1>12. x \div 128 \in Nat /\ x \div 64 \in Nat /\ x \div 32 \in Nat /\ x \div 16 \in Nat /\ x \div 8 \in Nat
       /\ x \div 4 \in Nat /\ x \div 2 \in Nat /\ x \div 1 \in Nat /\ x % 4 \in Nat /\ x % 16 \in Nat /\ x % 64 \in Nat
  BY SMT
<1>13. /\ c(0) \in {0, 1} /\ c(1) \in {0, 1} /\ c(2) \in {0, 1} /\ c(3) \in {0, 1}
       /\ c(4) \in {0, 1} /\ c(5) \in {0, 1} /\ c(6) \in {0, 1} /\ c(7) \in {0, 1}
  BY <1>1, <1>11, <1>12
<1>14. \A r \in 0 .. 7 : c(r) \in {0, 1}
  <2>1. \A r \in 0 .. 7 : r = 0 \/ r = 1 \/ r = 2 \/ r = 3 \/ r = 4 \/ r = 5 \/ r = 6 \/ r = 7
    BY SMT
  <2> HIDE DEF c
  <2> QED
    BY <1>13, <2>1
<1> DEFINE c0 == c(0) c1 == c(1) c2 == c(2) c3 == c(3) c4 == c(4) c5 == c(5) c6 == c(6) c7 == c(7)
           h7 == x \div 128 h6 == x \div 64 h5 == x \div 32 h4 == x \div 16 h3 == x \div 8 h2 == x \div 4 h1 == x \div 2
           m4 == x % 4 m16 == x % 16 m64 == x % 64
<1>15. /\ h7 = c0 /\ h6 = 2 * h7 + c1 /\ h5 = 2 * h6 + c2 /\ h4 = 2 * h5 + c3 /\ h3 = 2 * h4 + c4
       /\ h2 = 2 * h3 + c5 /\ h1 = 2 * h2 + c6 /\ x = 2 * h1 + c7
       /\ x = 4 * h2 + m4 /\ x = 16 * h4 + m16 /\ x = 64 * h6 + m64
  BY <1>1, <1>2, <1>3, <1>4, <1>5, <1>6, <1>7, <1>8, <1>9, <1>10
<1>16. /\ h7 \in Nat /\ h6 \in Nat /\ h5 \in Nat /\ h4 \in Nat /\ h3 \in Nat /\ h2 \in Nat /\ h1 \in Nat
       /\ m4 \in Nat /\ m16 \in Nat /\ m64 \in Nat
  BY <1>12
<1>17. /\ c0 \in {0, 1} /\ c1 \in {0, 1} /\ c2 \in {0, 1} /\ c3 \in {0, 1}
       /\ c4 \in {0, 1} /\ c5 \in {0, 1} /\ c6 \in {0, 1} /\ c7 \in {0, 1}
  BY <1>13
<1> HIDE DEF c0, c1, c2, c3, c4, c5, c6, c7, h7, h6, h5, h4, h3, h2, h1, m4, m16, m64
<1>18. h6 = 2 * c0 + c1 /\ h4 = 8 * c0 + 4 * c1 + 2 * c2 + c3
       /\ h2 = 32 * c0 + 16 * c1 + 8 * c2 + 4 * c3 + 2 * c4 + c5
  BY <1>15, <1>16, <1>17
<1>19. m4 = 2 * c6 + c7 /\ m16 = 8 * c4 + 4 * c5 + 2 * c6 + c7
       /\ m64 = 32 * c2 + 16 * c3 + 8 * c4 + 4 * c5 + 2 * c6 + c7
  BY <1>15, <1>16, <1>17
<1> HIDE DEF c
<1> QED
  BY <1>14, <1>18, <1>19 DEF c, c0, c1, c2, c3, c4, c5, c6, c7, h6, h4, h2, m4, m16, m64

\* Three bytes are four sextets.
LEMMA SextetsAre ==
  ASSUME NEW data \in Seq(Byte), NEW m \in Nat
  PROVE  LET x == ByteAt(data, 3 * m + 1)
             y == ByteAt(data, 3 * m + 2)
             z == ByteAt(data, 3 * m + 3)
         IN  /\ Sextet(data, 4 * m) = x \div 4
             /\ Sextet(data, 4 * m + 1) = 16 * (x % 4) + y \div 16
             /\ Sextet(data, 4 * m + 2) = 4 * (y % 16) + z \div 64
             /\ Sextet(data, 4 * m + 3) = z % 64
<1> DEFINE x == ByteAt(data, 3 * m + 1)
           y == ByteAt(data, 3 * m + 2)
           z == ByteAt(data, 3 * m + 3)
           a(k) == Bit(data, k)
           b(q, r) == Bit(data, 8 * q + r)
<1>1. x \in 0 .. 255 /\ y \in 0 .. 255 /\ z \in 0 .. 255
  <2>1. 3 * m + 1 \in Nat \ {0} /\ 3 * m + 2 \in Nat \ {0} /\ 3 * m + 3 \in Nat \ {0}
    OBVIOUS
  <2> QED
    BY <2>1, ByteAtIs
<1>2. \A r \in 0 .. 7 : /\ b(3 * m, r) = BitOf(x, r)
                        /\ b(3 * m + 1, r) = BitOf(y, r)
                        /\ b(3 * m + 2, r) = BitOf(z, r)
  <2> TAKE r \in 0 .. 7
  <2>1. 3 * m \in Nat /\ 3 * m + 1 \in Nat /\ 3 * m + 2 \in Nat
    OBVIOUS
  <2>2. (3 * m + 1) + 1 = 3 * m + 2 /\ (3 * m + 2) + 1 = 3 * m + 3
    OBVIOUS
  <2>3. b(3 * m, r) = BitOf(ByteAt(data, 3 * m + 1), r)
    BY <2>1, BitIs
  <2>4. b(3 * m + 1, r) = BitOf(ByteAt(data, (3 * m + 1) + 1), r)
    BY <2>1, BitIs
  <2>5. b(3 * m + 2, r) = BitOf(ByteAt(data, (3 * m + 2) + 1), r)
    BY <2>1, BitIs
  <2> QED
    BY <2>2, <2>3, <2>4, <2>5
<1>3. \A k : Sextet(data, k) = 32 * a(6 * k + 0) + 16 * a(6 * k + 1) + 8 * a(6 * k + 2) + 4 * a(6 * k + 3)
                               + 2 * a(6 * k + 4) + a(6 * k + 5)
  BY DEF Sextet
<1> HIDE DEF x, y, z
<1>4. Sextet(data, 4 * m) = x \div 4
  <2> DEFINE k == 4 * m
  <2>1. /\ 6 * k + 0 = 8 * (3 * m) + 0 /\ 6 * k + 1 = 8 * (3 * m) + 1 /\ 6 * k + 2 = 8 * (3 * m) + 2
        /\ 6 * k + 3 = 8 * (3 * m) + 3 /\ 6 * k + 4 = 8 * (3 * m) + 4 /\ 6 * k + 5 = 8 * (3 * m) + 5
    OBVIOUS
  <2>2. 0 \in 0 .. 7 /\ 1 \in 0 .. 7 /\ 2 \in 0 .. 7 /\ 3 \in 0 .. 7 /\ 4 \in 0 .. 7 /\ 5 \in 0 .. 7
    OBVIOUS
  <2>3. Sextet(data, k) = 32 * BitOf(x, 0) + 16 * BitOf(x, 1) + 8 * BitOf(x, 2) + 4 * BitOf(x, 3)
                          + 2 * BitOf(x, 4) + BitOf(x, 5)
    <3>1. /\ a(6 * k + 0) = BitOf(x, 0) /\ a(6 * k + 1) = BitOf(x, 1) /\ a(6 * k + 2) = BitOf(x, 2)
          /\ a(6 * k + 3) = BitOf(x, 3) /\ a(6 * k + 4) = BitOf(x, 4) /\ a(6 * k + 5) = BitOf(x, 5)
      BY <1>2, <2>1, <2>2
    <3> HIDE DEF a, k
    <3> QED
      BY <1>3, <3>1
  <2> QED
    BY <1>1, <2>3, ByteBits
<1>5. Sextet(data, 4 * m + 1) = 16 * (x % 4) + y \div 16
  <2> DEFINE k == 4 * m + 1
  <2>1. /\ 6 * k + 0 = 8 * (3 * m) + 6 /\ 6 * k + 1 = 8 * (3 * m) + 7 /\ 6 * k + 2 = 8 * (3 * m + 1) + 0
        /\ 6 * k + 3 = 8 * (3 * m + 1) + 1 /\ 6 * k + 4 = 8 * (3 * m + 1) + 2 /\ 6 * k + 5 = 8 * (3 * m + 1) + 3
    OBVIOUS
  <2>2. 0 \in 0 .. 7 /\ 1 \in 0 .. 7 /\ 2 \in 0 .. 7 /\ 3 \in 0 .. 7 /\ 6 \in 0 .. 7 /\ 7 \in 0 .. 7
    OBVIOUS
  <2>3. Sextet(data, k) = 32 * BitOf(x, 6) + 16 * BitOf(x, 7) + 8 * BitOf(y, 0) + 4 * BitOf(y, 1)
                          + 2 * BitOf(y, 2) + BitOf(y, 3)
    <3>1. /\ a(6 * k + 0) = BitOf(x, 6) /\ a(6 * k + 1) = BitOf(x, 7) /\ a(6 * k + 2) = BitOf(y, 0)
          /\ a(6 * k + 3) = BitOf(y, 1) /\ a(6 * k + 4) = BitOf(y, 2) /\ a(6 * k + 5) = BitOf(y, 3)
      BY <1>2, <2>1, <2>2
    <3> HIDE DEF a, k
    <3> QED
      BY <1>3, <3>1
  <2>4. x % 4 = 2 * BitOf(x, 6) + BitOf(x, 7) /\ BitOf(x, 6) \in {0, 1} /\ BitOf(x, 7) \in {0, 1}
    BY <1>1, <2>2, ByteBits
  <2>5. y \div 16 = 8 * BitOf(y, 0) + 4 * BitOf(y, 1) + 2 * BitOf(y, 2) + BitOf(y, 3)
        /\ BitOf(y, 0) \in {0, 1} /\ BitOf(y, 1) \in {0, 1} /\ BitOf(y, 2) \in {0, 1} /\ BitOf(y, 3) \in {0, 1}
    BY <1>1, <2>2, ByteBits
  <2> HIDE DEF k
  <2>6. Sextet(data, k) = 16 * (x % 4) + y \div 16
    BY <2>3, <2>4, <2>5, SMTT(40)
  <2> QED
    BY <2>6 DEF k
<1>6. Sextet(data, 4 * m + 2) = 4 * (y % 16) + z \div 64
  <2> DEFINE k == 4 * m + 2
  <2>1. /\ 6 * k + 0 = 8 * (3 * m + 1) + 4 /\ 6 * k + 1 = 8 * (3 * m + 1) + 5 /\ 6 * k + 2 = 8 * (3 * m + 1) + 6
        /\ 6 * k + 3 = 8 * (3 * m + 1) + 7 /\ 6 * k + 4 = 8 * (3 * m + 2) + 0 /\ 6 * k + 5 = 8 * (3 * m + 2) + 1
    OBVIOUS
  <2>2. 0 \in 0 .. 7 /\ 1 \in 0 .. 7 /\ 4 \in 0 .. 7 /\ 5 \in 0 .. 7 /\ 6 \in 0 .. 7 /\ 7 \in 0 .. 7
    OBVIOUS
  <2>3. Sextet(data, k) = 32 * BitOf(y, 4) + 16 * BitOf(y, 5) + 8 * BitOf(y, 6) + 4 * BitOf(y, 7)
                          + 2 * BitOf(z, 0) + BitOf(z, 1)
    <3>1. /\ a(6 * k + 0) = BitOf(y, 4) /\ a(6 * k + 1) = BitOf(y, 5) /\ a(6 * k + 2) = BitOf(y, 6)
          /\ a(6 * k + 3) = BitOf(y, 7) /\ a(6 * k + 4) = BitOf(z, 0) /\ a(6 * k + 5) = BitOf(z, 1)
      BY <1>2, <2>1, <2>2
    <3> HIDE DEF a, k
    <3> QED
      BY <1>3, <3>1
  <2>4. y % 16 = 8 * BitOf(y, 4) + 4 * BitOf(y, 5) + 2 * BitOf(y, 6) + BitOf(y, 7)
        /\ BitOf(y, 4) \in {0, 1} /\ BitOf(y, 5) \in {0, 1} /\ BitOf(y, 6) \in {0, 1} /\ BitOf(y, 7) \in {0, 1}
    BY <1>1, <2>2, ByteBits
  <2>5. z \div 64 = 2 * BitOf(z, 0) + BitOf(z, 1) /\ BitOf(z, 0) \in {0, 1} /\ BitOf(z, 1) \in {0, 1}
    BY <1>1, <2>2, ByteBits
  <2> HIDE DEF k
  <2>6. Sextet(data, k) = 4 * (y % 16) + z \div 64
    BY <2>3, <2>4, <2>5, SMTT(40)
  <2> QED
    BY <2>6 DEF k
<1>7. Sextet(data, 4 * m + 3) = z % 64
  <2> DEFINE k == 4 * m + 3
  <2>1. /\ 6 * k + 0 = 8 * (3 * m + 2) + 2 /\ 6 * k + 1 = 8 * (3 * m + 2) + 3 /\ 6 * k + 2 = 8 * (3 * m + 2) + 4
        /\ 6 * k + 3 = 8 * (3 * m + 2) + 5 /\ 6 * k + 4 = 8 * (3 * m + 2) + 6 /\ 6 * k + 5 = 8 * (3 * m + 2) + 7
    OBVIOUS
  <2>2. 2 \in 0 .. 7 /\ 3 \in 0 .. 7 /\ 4 \in 0 .. 7 /\ 5 \in 0 .. 7 /\ 6 \in 0 .. 7 /\ 7 \in 0 .. 7
    OBVIOUS
  <2>3. Sextet(data, k) = 32 * BitOf(z, 2) + 16 * BitOf(z, 3) + 8 * BitOf(z, 4) + 4 * BitOf(z, 5)
                          + 2 * BitOf(z, 6) + BitOf(z, 7)
    <3>1. /\ a(6 * k + 0) = BitOf(z, 2) /\ a(6 * k + 1) = BitOf(z, 3) /\ a(6 * k + 2) = BitOf(z, 4)
          /\ a(6 * k + 3) = BitOf(z, 5) /\ a(6 * k + 4) = BitOf(z, 6) /\ a(6 * k + 5) = BitOf(z, 7)
      BY <1>2, <2>1, <2>2
    <3> HIDE DEF a, k
    <3> QED
      BY <1>3, <3>1
  <2> QED
    BY <1>1, <2>3, ByteBits
<1> QED
  BY <1>4, <1>5, <1>6, <1>7 DEF x, y, z

\* How many characters stand for so many bytes, and how many there are.
Sextets(n) == (8 * n + 5) \div 6

LEMMA SextetsNumber ==
  ASSUME NEW n \in Nat
  PROVE  /\ Sextets(n) \in 0 .. EncodedSize(n) - 1 /\ EncodedSize(n) \in Nat
         /\ EncodedSize(n) - 1 = 4 * ((n + 2) \div 3) /\ EncodedSize(n) - 1 \in Nat
         /\ (6 * Sextets(n)) \div 8 = n
         /\ \A m \in Nat : \A r \in 1 .. 3 : 4 * m + r < Sextets(n) => 3 * m + r <= n
<1> DEFINE c == (8 * n + 5) \div 6
           e == (n + 2) \div 3
<1>1. 6 * c <= 8 * n + 5 /\ 8 * n + 5 < 6 * c + 6 /\ c \in Nat
  BY SMT
<1>2. 3 * e <= n + 2 /\ n + 2 < 3 * e + 3 /\ e \in Nat
  BY SMT
<1>3. Sextets(n) = c /\ EncodedSize(n) = 4 * e + 1
  BY DEF Sextets, EncodedSize
<1> HIDE DEF c, e
<1>4. c <= 4 * e
  BY <1>1, <1>2
<1>5. (6 * c) \div 8 = n
  <2>1. 8 * n <= 6 * c /\ 6 * c < 8 * n + 8
    BY <1>1
  <2> DEFINE k == 6 * c
  <2>2. k \in Nat
    BY <1>1
  <2> HIDE DEF k
  <2>3. k \div 8 = n
    BY <2>1, <2>2, SMT DEF k
  <2> QED
    BY <2>3 DEF k
<1>6. \A m \in Nat : \A r \in 1 .. 3 : 4 * m + r < c => 3 * m + r <= n
  BY <1>1
<1> QED
  BY <1>1, <1>2, <1>3, <1>4, <1>5, <1>6 DEF e

LEMMA InGroup ==
  ASSUME NEW i \in Nat
  PROVE  \E m \in Nat : \E r \in 0 .. 3 : i = 4 * m + r /\ i % 4 = r
<1> DEFINE m == i \div 4
           r == i % 4
<1>1. m \in Nat /\ r \in 0 .. 3 /\ i = 4 * m + r
  BY SMT
<1> QED
  BY <1>1

LEMMA SextetType ==
  ASSUME NEW data \in Seq(Byte), NEW i \in Nat
  PROVE  Sextet(data, i) \in 0 .. 63
<1>1. PICK m \in Nat, r \in 0 .. 3 : i = 4 * m + r
  BY InGroup
<1> DEFINE x == ByteAt(data, 3 * m + 1)
           y == ByteAt(data, 3 * m + 2)
           z == ByteAt(data, 3 * m + 3)
<1>2. x \in 0 .. 255 /\ y \in 0 .. 255 /\ z \in 0 .. 255
  <2>1. 3 * m + 1 \in Nat \ {0} /\ 3 * m + 2 \in Nat \ {0} /\ 3 * m + 3 \in Nat \ {0}
    OBVIOUS
  <2> QED
    BY <2>1, ByteAtIs
<1>3. /\ Sextet(data, 4 * m) = x \div 4
      /\ Sextet(data, 4 * m + 1) = 16 * (x % 4) + y \div 16
      /\ Sextet(data, 4 * m + 2) = 4 * (y % 16) + z \div 64
      /\ Sextet(data, 4 * m + 3) = z % 64
  BY SextetsAre
<1> HIDE DEF x, y, z
<1>4. /\ x \div 4 \in 0 .. 63 /\ x % 4 \in 0 .. 3 /\ y \div 16 \in 0 .. 15 /\ y % 16 \in 0 .. 15
      /\ z \div 64 \in 0 .. 3 /\ z % 64 \in 0 .. 63
  BY <1>2, SMT
<1> DEFINE a == x % 4
           b == y \div 16
           c == y % 16
           d == z \div 64
<1>5. 16 * a + b \in 0 .. 63 /\ 4 * c + d \in 0 .. 63
  <2>1. a \in 0 .. 3 /\ b \in 0 .. 15 /\ c \in 0 .. 15 /\ d \in 0 .. 3
    BY <1>4
  <2> HIDE DEF a, b, c, d
  <2> QED
    BY <2>1
<1> HIDE DEF a, b, c, d
<1>6. CASE r = 0
  BY <1>1, <1>3, <1>4, <1>6
<1>7. CASE r = 1
  BY <1>1, <1>3, <1>5, <1>7 DEF a, b
<1>8. CASE r = 2
  BY <1>1, <1>3, <1>5, <1>8 DEF c, d
<1>9. CASE r = 3
  BY <1>1, <1>3, <1>4, <1>9
<1> QED
  BY <1>6, <1>7, <1>8, <1>9

LEMMA Base64Is ==
  ASSUME NEW data \in Seq(Byte)
  PROVE  LET text == Base64Of(data)
             n == Len(data)
         IN  /\ text \in Seq(Byte) /\ Len(text) = EncodedSize(n) - 1
             /\ \A k \in 1 .. Len(text) : text[k] = IF k <= Sextets(n) THEN Alphabet[Sextet(data, k - 1)] ELSE 61
<1> DEFINE n == Len(data)
           L == EncodedSize(n) - 1
           char(k) == IF k <= Sextets(n) THEN Alphabet[Sextet(data, k - 1)] ELSE 61
           text == [k \in 1 .. L |-> char(k)]
<1>1. n \in Nat
  OBVIOUS
<1>2. L \in Nat
  BY <1>1, SextetsNumber
<1>3. \A k \in 1 .. L : char(k) \in Byte
  <2> TAKE k \in 1 .. L
  <2>1. Sextet(data, k - 1) \in 0 .. 63
    <3>1. k - 1 \in Nat
      BY <1>2
    <3> QED
      BY <3>1, SextetType
  <2>2. Alphabet[Sextet(data, k - 1)] \in Byte
    BY <2>1, AlphabetIs
  <2>3. 61 \in Byte
    BY SMT DEF Byte
  <2> QED
    BY <2>2, <2>3
<1>4. Base64Of(data) = text
  BY DEF Base64Of, Sextets
<1> HIDE DEF L, char
<1>5. text \in Seq(Byte) /\ Len(text) = L /\ \A k \in 1 .. L : text[k] = char(k)
  BY <1>2, <1>3
<1> HIDE DEF text
<1> QED
  BY <1>4, <1>5 DEF L, char

\* A sextet joins the one before it.
LEMMA JoinsLast ==
  ASSUME NEW d \in Decoding, NEW s \in 0 .. 63
  PROVE  Joins(d, s) = 64 * (d.bits % 64) + s /\ Joins(d, s) % 64 = s
<1> DEFINE b == d.bits
<1>1. b \in Nat
  <2>1. b \in Window
    BY AfterParts
  <2> HIDE DEF b
  <2> QED
    BY <2>1, SMT DEF Window
<1>2. Joins(d, s) = (64 * b + s) % 4096
  BY DEF Joins
<1> HIDE DEF b
<1> DEFINE q == b \div 64
           r == b % 64
<1>3. b = 64 * q + r /\ q \in Nat /\ r \in 0 .. 63
  BY <1>1, SMT
<1> HIDE DEF q, r
<1> DEFINE t == 64 * r + s
<1>4. 64 * b + s = 4096 * q + t /\ t \in Nat /\ t < 4096
  BY <1>3, SMT
<1>5. t % 64 = s
  <2>1. r \in Nat /\ s \in Nat /\ s < 64
    BY <1>3
  <2> QED
    BY <2>1, SMT
<1> HIDE DEF t
<1>6. (4096 * q + t) % 4096 = t
  BY <1>3, <1>4, SMT
<1> QED
  BY <1>2, <1>4, <1>5, <1>6 DEF t, r, b

\* The second, third and fourth characters of four give the three bytes.
LEMMA ByteGiven ==
  ASSUME NEW data \in Seq(Byte), NEW m \in Nat, NEW r \in 1 .. 3, NEW j,
         j = 64 * Sextet(data, 4 * m + r - 1) + Sextet(data, 4 * m + r)
  PROVE  Shifted(j, 4 * m + r) % 256 = ByteAt(data, 3 * m + r)
<1> DEFINE x == ByteAt(data, 3 * m + 1)
           y == ByteAt(data, 3 * m + 2)
           z == ByteAt(data, 3 * m + 3)
           i == 4 * m + r
<1>1. x \in 0 .. 255 /\ y \in 0 .. 255 /\ z \in 0 .. 255
  <2>1. 3 * m + 1 \in Nat \ {0} /\ 3 * m + 2 \in Nat \ {0} /\ 3 * m + 3 \in Nat \ {0}
    OBVIOUS
  <2> QED
    BY <2>1, ByteAtIs
<1>2. /\ Sextet(data, 4 * m) = x \div 4
      /\ Sextet(data, 4 * m + 1) = 16 * (x % 4) + y \div 16
      /\ Sextet(data, 4 * m + 2) = 4 * (y % 16) + z \div 64
      /\ Sextet(data, 4 * m + 3) = z % 64
  BY SextetsAre
<1>3. i \in Nat /\ i - 1 \in Nat /\ i % 4 = r
  BY SMT
<1>4. j \in Nat
  <2> DEFINE u == Sextet(data, i)
             v == Sextet(data, i - 1)
  <2>1. u \in 0 .. 63 /\ v \in 0 .. 63
    BY <1>3, SextetType
  <2>2. j = 64 * v + u
    BY <1>3
  <2>3. u \in Nat /\ v \in Nat
    <3> HIDE DEF u, v
    <3> QED
      BY <2>1
  <2> HIDE DEF u, v
  <2> QED
    BY <2>2, <2>3
<1> HIDE DEF x, y, z
<1>5. CASE r = 1
  <2>1. Shifted(j, i) = j \div 16
    BY <1>3, <1>4, <1>5, ShiftedIs
  <2>2. 4 * m + r - 1 = 4 * m /\ 4 * m + r = 4 * m + 1
    BY <1>5
  <2>3. j = 64 * (x \div 4) + (16 * (x % 4) + y \div 16)
    BY <1>2, <2>2
  <2> DEFINE a == x \div 4
             b == x % 4
             c == y \div 16
  <2>4. a \in Nat /\ b \in 0 .. 3 /\ c \in 0 .. 15 /\ x = 4 * a + b
    BY <1>1, SMT
  <2> HIDE DEF a, b, c
  <2>5. j = 16 * x + c
    BY <2>3, <2>4, <1>1 DEF a, b, c
  <2>6. j \div 16 = x
    BY <1>1, <2>4, <2>5, SMT
  <2>7. x % 256 = x
    BY <1>1, SMT
  <2> QED
    BY <1>5, <2>1, <2>6, <2>7 DEF x
<1>6. CASE r = 2
  <2>1. Shifted(j, i) = j \div 4
    BY <1>3, <1>4, <1>6, ShiftedIs
  <2>2. 4 * m + r - 1 = 4 * m + 1 /\ 4 * m + r = 4 * m + 2
    BY <1>6
  <2>3. j = 64 * (16 * (x % 4) + y \div 16) + (4 * (y % 16) + z \div 64)
    BY <1>2, <2>2
  <2> DEFINE a == x % 4
             b == y \div 16
             c == y % 16
             d == z \div 64
  <2>4. a \in 0 .. 3 /\ b \in 0 .. 15 /\ c \in 0 .. 15 /\ d \in 0 .. 3 /\ y = 16 * b + c
    BY <1>1, SMT
  <2> HIDE DEF a, b, c, d
  <2>5. j = 4 * (256 * a + y) + d
    BY <2>3, <2>4, <1>1 DEF a, b, c, d
  <2> DEFINE k == 256 * a + y
  <2>6. k \in Nat /\ k % 256 = y
    BY <1>1, <2>4, SMT
  <2> HIDE DEF k
  <2>7. j = 4 * k + d
    BY <2>5 DEF k
  <2>8. j \div 4 = k
    BY <2>4, <2>6, <2>7, SMT
  <2> QED
    BY <1>6, <2>1, <2>6, <2>8 DEF y
<1>7. CASE r = 3
  <2>1. Shifted(j, i) = j
    BY <1>3, <1>4, <1>7, ShiftedIs
  <2>2. 4 * m + r - 1 = 4 * m + 2 /\ 4 * m + r = 4 * m + 3
    BY <1>7
  <2>3. j = 64 * (4 * (y % 16) + z \div 64) + (z % 64)
    BY <1>2, <2>2
  <2> DEFINE a == y % 16
             b == z \div 64
             c == z % 64
  <2>4. a \in 0 .. 15 /\ b \in 0 .. 3 /\ c \in 0 .. 63 /\ z = 64 * b + c
    BY <1>1, SMT
  <2> HIDE DEF a, b, c
  <2>5. j = 256 * a + z
    BY <2>3, <2>4, <1>1 DEF a, b, c
  <2>6. (256 * a + z) % 256 = z
    BY <1>1, <2>4, SMT
  <2> QED
    BY <1>7, <2>1, <2>5, <2>6 DEF z
<1> QED
  BY <1>5, <1>6, <1>7

\* After the first i characters of a text in base64: the bytes that are told
\* by them, and the last of the sextets.
HasDecoded(d, data, i) ==
  /\ d.done = FALSE
  /\ i >= 1 => d.bits % 64 = Sextet(data, i - 1)
  /\ d.out = SubSeq(data, 1, (6 * i) \div 8)

LEMMA DecodeSextet ==
  ASSUME NEW data \in Seq(Byte), NEW room \in Nat, Len(data) <= room,
         NEW d \in Decoding, NEW i \in Nat, i < Sextets(Len(data)), HasDecoded(d, data, i)
  PROVE  HasDecoded(DecodeChar(d, i, Alphabet[Sextet(data, i)], room), data, i + 1)
<1> DEFINE s == Sextet(data, i)
           n == Len(data)
           next == DecodeChar(d, i, Alphabet[s], room)
           j == Joins(d, s)
           k == (6 * i) \div 8
           out == SubSeq(data, 1, k)
<1>1. s \in 0 .. 63 /\ n \in Nat
  BY SextetType
<1>2. d.done = FALSE /\ (i >= 1 => d.bits % 64 = Sextet(data, i - 1)) /\ d.out = out
  BY DEF HasDecoded
<1> HIDE DEF s
<1>3. next = After(j, Gives(d, i, s, room), d.done, d.rc)
  <2>1. Alphabet[s] \notin End /\ Values(Alphabet[s]) = {s}
    BY <1>1, AlphabetIs
  <2>2. ~d.done
    BY <1>2
  <2> QED
    BY <2>1, <2>2, DecodeCharIs
<1>4. next.done = FALSE /\ next.bits = j /\ next.out = Gives(d, i, s, room)
  <2> DEFINE g == Gives(d, i, s, room)
             dd == d.done
             rc == d.rc
  <2>1. \A a, b, c, e : After(a, b, c, e).bits = a /\ After(a, b, c, e).out = b /\ After(a, b, c, e).done = c
    BY DEF After
  <2> HIDE DEF g, rc, j, next
  <2>2. next.bits = j /\ next.out = g /\ next.done = dd
    BY <1>3, <2>1 DEF g, rc
  <2> QED
    BY <1>2, <2>2 DEF g
<1>5. j = 64 * (d.bits % 64) + s /\ j % 64 = s
  BY <1>1, JoinsLast
<1>6. PICK m \in Nat, r \in 0 .. 3 : i = 4 * m + r /\ i % 4 = r
  BY InGroup
<1>7. Gives(d, i, s, room) = SubSeq(data, 1, (6 * (i + 1)) \div 8)
  <2>1. Gives(d, i, s, room) = IF i % 4 # 0 /\ Len(out) < room THEN Append(out, Shifted(j, i) % 256) ELSE out
    BY <1>2 DEF Gives, GivesByte
  <2>2. CASE r = 0
    <3>1. Gives(d, i, s, room) = out
      BY <1>6, <2>1, <2>2
    <3>2. k = 3 * m
      <4>1. 6 * i = 8 * (3 * m)
        BY <1>6, <2>2
      <4> QED
        BY <4>1, SMT
    <3>3. (6 * (i + 1)) \div 8 = 3 * m
      <4>1. 6 * (i + 1) = 8 * (3 * m) + 6
        BY <1>6, <2>2
      <4> QED
        BY <4>1, SMT
    <3> QED
      BY <3>1, <3>2, <3>3
  <2>3. CASE r # 0
    <3> DEFINE p == 3 * m + r
    <3>1. r \in 1 .. 3 /\ p \in Nat \ {0}
      BY <2>3
    <3>2. k = p - 1
      <4>1. 8 * (p - 1) <= 6 * i /\ 6 * i < 8 * (p - 1) + 8 /\ p - 1 \in Nat
        BY <1>6, <3>1
      <4> DEFINE q == p - 1
                 w == 6 * i
      <4>2. w \in Nat /\ q \in Nat /\ 8 * q <= w /\ w < 8 * q + 8
        BY <4>1
      <4> HIDE DEF q, w
      <4>3. w \div 8 = q
        BY <4>2, SMT
      <4> QED
        BY <4>3 DEF q, w
    <3>3. (6 * (i + 1)) \div 8 = p
      <4> DEFINE w == 6 * (i + 1)
      <4>1. 8 * p <= w /\ w < 8 * p + 8 /\ w \in Nat
        BY <1>6, <3>1
      <4> HIDE DEF w, p
      <4>2. w \div 8 = p
        BY <3>1, <4>1, SMT
      <4> QED
        BY <4>2 DEF w
    <3>4. p <= n
      BY <1>1, <1>6, <3>1, SextetsNumber
    <3>5. j = 64 * Sextet(data, i - 1) + s
      <4>1. i >= 1
        BY <1>6, <3>1
      <4> QED
        BY <1>2, <1>5, <4>1
    <3>6. Shifted(j, i) % 256 = data[p]
      <4>1. j = 64 * Sextet(data, 4 * m + r - 1) + Sextet(data, 4 * m + r)
        BY <1>6, <3>5 DEF s
      <4>2. Shifted(j, 4 * m + r) % 256 = ByteAt(data, 3 * m + r)
        BY <3>1, <4>1, ByteGiven, SMTT(40)
      <4> QED
        BY <1>6, <3>4, <4>2 DEF ByteAt
    <3> DEFINE b == Shifted(j, i) % 256
    <3> HIDE DEF b, p, k, j
    <3>7. out \in Seq(Byte) /\ Len(out) = p - 1 /\ \A x \in 1 .. p - 1 : out[x] = data[x]
      BY <1>1, <3>1, <3>2, <3>4
    <3>8. Len(out) < room
      BY <1>1, <3>1, <3>4, <3>7
    <3>9. i % 4 # 0
      BY <1>6, <2>3
    <3> HIDE DEF out
    <3>10. Gives(d, i, s, room) = Append(out, data[p])
      BY <2>1, <3>6, <3>8, <3>9 DEF b
    <3>11. Append(out, data[p]) = SubSeq(data, 1, p)
      <4>1. data[p] \in Byte /\ p \in 1 .. n
        BY <1>1, <3>1, <3>4, ElementOfSeq
      <4> DEFINE u == Append(out, data[p])
                 v == SubSeq(data, 1, p)
      <4>2. u \in Seq(Byte) /\ Len(u) = p /\ u[p] = data[p] /\ \A x \in 1 .. p - 1 : u[x] = data[x]
        BY <3>1, <3>7, <4>1
      <4>3. v \in Seq(Byte) /\ Len(v) = p /\ \A x \in 1 .. p : v[x] = data[x]
        BY <1>1, <4>1
      <4> HIDE DEF u, v
      <4>4. \A x \in 1 .. p : x = p \/ x \in 1 .. p - 1
        BY <3>1
      <4>5. u = v
        BY <4>2, <4>3, <4>4
      <4> QED
        BY <4>5 DEF u, v
    <3> QED
      BY <3>3, <3>10, <3>11
  <2> QED
    BY <2>2, <2>3
<1>8. (i + 1) - 1 = i
  OBVIOUS
<1> HIDE DEF next
<1> QED
  BY <1>4, <1>5, <1>7, <1>8 DEF HasDecoded, s, next

\* A text in base64 is decoded to what was encoded.
LEMMA DecodeBase64 ==
  ASSUME NEW data \in Seq(Byte), NEW room \in Nat, Len(data) <= room
  PROVE  Decode(Base64Of(data), room).out = data
<1> DEFINE text == Base64Of(data)
           n == Len(data)
           C == Sextets(n)
           L == Len(text)
<1>1. /\ text \in Seq(Byte) /\ L = EncodedSize(n) - 1
      /\ \A k \in 1 .. L : text[k] = IF k <= C THEN Alphabet[Sextet(data, k - 1)] ELSE 61
  BY Base64Is
<1>2. n \in Nat /\ C \in 0 .. L /\ L \in Nat /\ C \in Nat /\ (6 * C) \div 8 = n
  <2>1. n \in Nat
    OBVIOUS
  <2>2. C \in 0 .. EncodedSize(n) - 1 /\ EncodedSize(n) - 1 \in Nat /\ (6 * C) \div 8 = n
    BY <2>1, SextetsNumber
  <2> HIDE DEF C, L, n
  <2> QED
    BY <1>1, <2>1, <2>2
<1>3. PICK d : Decodes(text, room, d)
  BY <1>1, DecodeSteps
<1> HIDE DEF text
<1>4. /\ \A i \in 0 .. L : d[i] \in Decoding
      /\ d[0] = After(0, <<>>, FALSE, 0)
      /\ \A i \in 1 .. L : d[i] = DecodeChar(d[i - 1], i - 1, text[i], room)
      /\ Decode(text, room).out = d[L].out
  BY <1>3 DEF Decodes
<1> HIDE DEF C, L
<1> DEFINE S == {i \in 0 .. C : HasDecoded(d[i], data, i)}
<1>5. 0 \in S
  <2>1. d[0].done = FALSE /\ d[0].out = <<>>
    BY <1>4 DEF After
  <2>2. (6 * 0) \div 8 = 0
    BY SMT
  <2>3. SubSeq(data, 1, 0) = <<>>
    BY <1>2
  <2>4. 0 \in 0 .. C /\ ~(0 >= 1)
    BY <1>2
  <2>5. HasDecoded(d[0], data, 0)
    BY <2>1, <2>2, <2>3, <2>4 DEF HasDecoded
  <2> QED
    BY <2>4, <2>5
<1>6. ASSUME NEW i \in 1 .. C, i - 1 \in S PROVE i \in S
  <2>1. i - 1 \in Nat /\ i - 1 < C /\ i \in 0 .. C /\ i \in 1 .. L /\ i - 1 \in 0 .. L /\ (i - 1) + 1 = i /\ i <= C
    BY <1>2
  <2>2. HasDecoded(d[i - 1], data, i - 1) /\ d[i - 1] \in Decoding
    BY <1>4, <1>6, <2>1
  <2>3. d[i] = DecodeChar(d[i - 1], i - 1, Alphabet[Sextet(data, i - 1)], room)
    BY <1>1, <1>4, <2>1 DEF C, L
  <2> DEFINE x == i - 1
             y == d[i - 1]
             c == Alphabet[Sextet(data, x)]
  <2>4. x \in Nat /\ x < Sextets(Len(data)) /\ y \in Decoding /\ HasDecoded(y, data, x)
    BY <2>1, <2>2 DEF C
  <2>5. HasDecoded(DecodeChar(y, x, c, room), data, x + 1)
    <3> HIDE DEF x, y
    <3> QED
      BY <2>4, DecodeSextet
  <2>6. HasDecoded(d[i], data, i)
    BY <2>1, <2>3, <2>5
  <2> QED
    BY <2>1, <2>6
<1>7. C \in S
  <2> HIDE DEF S
  <2>1. \A i \in 0 + 1 .. C : i - 1 \in S => i \in S
    BY <1>2, <1>6
  <2>2. \A i \in 0 .. C : i \in S
    BY <1>2, <1>5, <2>1, 0 \in Nat, UpTo
  <2> QED
    BY <1>2, <2>2
<1>8. d[C].out = data
  <2>1. d[C].out = SubSeq(data, 1, n)
    BY <1>2, <1>7 DEF HasDecoded
  <2> QED
    BY <2>1, SubSeqFull
<1> DEFINE T == {i \in C .. L : d[i].out = data /\ (i = C \/ d[i].done)}
<1>9. C \in T
  BY <1>2, <1>8
<1>10. ASSUME NEW i \in C + 1 .. L, i - 1 \in T PROVE i \in T
  <2>1. i \in 1 .. L /\ i - 1 \in 0 .. L /\ ~(i <= C) /\ i - 1 \in Nat /\ i \in C .. L
    BY <1>2
  <2>2. text[i] = 61
    BY <1>1, <2>1 DEF C, L
  <2>3. text[i] \in End
    BY <2>2 DEF End
  <2> DEFINE y == d[i - 1]
             x == i - 1
             c == text[i]
  <2>4. y \in Decoding /\ y.out = data /\ x \in Nat /\ c \in End /\ d[i] = DecodeChar(y, x, c, room)
    BY <1>4, <1>10, <2>1, <2>3
  <2> HIDE DEF x, y, c, S, T
  <2>5. y.done => DecodeChar(y, x, c, room) = y
    BY <2>4, DecodeCharIs
  <2>6. ~y.done => DecodeChar(y, x, c, room).out = y.out /\ DecodeChar(y, x, c, room).done
    BY <2>4, DecodeCharIs
  <2>7. d[i].out = data /\ d[i].done
    BY <2>4, <2>5, <2>6
  <2> QED
    BY <2>1, <2>7 DEF T
<1>11. L \in T
  <2> HIDE DEF S, T
  <2>1. \A i \in C .. L : i \in T
    <3>1. C \in Nat
      BY <1>2
    <3> QED
      BY <1>2, <1>9, <1>10, <3>1, UpTo
  <2> QED
    BY <1>2, <2>1
<1> QED
  BY <1>4, <1>11 DEF text

-----------------------------------------------------------------------------
(* The commands *)

\* What is on its way to the hypervisor is what the server wrote of a stanza it
\* knows, and what the hypervisor heard last is what it made of such bytes; the
\* request of a shell is one it can write.
KnownStanzas == {stanza \in Stanzas : Known(stanza)}
Submitted == {[bytes |-> shells(stanza), of |-> stanza] : stanza \in KnownStanzas}
Hearings == {[hm |-> onMessage(shells(stanza)), of |-> stanza] : stanza \in KnownStanzas}
OpenShells == [request : Words, connected : BOOLEAN]

CommandsInv ==
  /\ requests \in Seq(Submitted)
  /\ sent \in Seq(Stanzas)
  /\ heard \in Hearings \cup {Null}
  /\ shell \in [Slots -> OpenShells \cup {Null}]

LEMMA KnownStanza ==
  ASSUME NEW stanza \in KnownStanzas
  PROVE  /\ IsStanza(stanza) /\ Known(stanza) /\ Hears(stanza, onMessage(shells(stanza)))
         /\ shells(stanza) \in Seq(Byte) /\ shells(stanza) # Null
<1>1. IsStanza(stanza) /\ Known(stanza)
  BY StanzasAssumption DEF KnownStanzas
<1> QED
  BY <1>1, ShellsIs, CommandHeard

Handlers == {{}, {"open"}, {"close"}, {"keys"}, {"status"}, {"poweroff"}, {"disconnect"}, {"resize"}}

LEMMA HandlerIs ==
  ASSUME NEW hm
  PROVE  Handler(hm) \in Handlers
<1>1. DOMAIN ActionKeys = {"open", "close", "keys", "status", "poweroff", "disconnect", "resize"}
  BY DEF ActionKeys
<1> DEFINE letter == [open |-> 111, close |-> 99, keys |-> 107, status |-> 115,
                      poweroff |-> 112, disconnect |-> 100, resize |-> 114]
<1>2. \A n \in DOMAIN ActionKeys : ActionKeys[n] = <<letter[n]>>
  BY <1>1 DEF ActionKeys
<1>3. \A m, n \in DOMAIN ActionKeys : letter[m] = letter[n] => m = n
  BY <1>1, SMT
<1>4. \A a, b : <<a>> = <<b>> => a = b
  OBVIOUS
<1> HIDE DEF letter
<1>5. \A m, n \in DOMAIN ActionKeys : ActionKeys[m] = ActionKeys[n] => m = n
  BY <1>2, <1>3, <1>4
<1>6. ASSUME NEW key PROVE Named(ActionKeys, key) \in Handlers
  <2>1. CASE Named(ActionKeys, key) = {}
    BY <2>1 DEF Handlers
  <2>2. ASSUME NEW n \in Named(ActionKeys, key) PROVE Named(ActionKeys, key) \in Handlers
    <3>1. Named(ActionKeys, key) = {n}
      BY <1>5 DEF Named
    <3>2. n \in DOMAIN ActionKeys
      BY DEF Named
    <3> QED
      BY <1>1, <3>1, <3>2 DEF Handlers
  <2> QED
    BY <2>1, <2>2
<1>7. {} \in Handlers
  BY DEF Handlers
<1> QED
  BY <1>6, <1>7 DEF Handler

LEMMA Handled ==
  ASSUME NEW hm, hm # Null, Handle(hm)
  PROVE  /\ requests' = <<>> \/ requests' = Tail(requests)
         /\ heard' = [hm |-> hm, of |-> Head(requests).of]
         /\ \/ Open(hm) \/ Close(hm) \/ Keys(hm) \/ Status(hm) \/ Disconnect(hm) \/ Poweroff
            \/ Silent /\ UNCHANGED shell
<1> DEFINE h == Handler(hm)
<1>1. /\ requests' = IF h = {"poweroff"} THEN <<>> ELSE Tail(requests)
      /\ heard' = [hm |-> hm, of |-> Head(requests).of]
      /\ CASE h = {"open"} -> Open(hm)
           [] h = {"close"} -> Close(hm)
           [] h = {"keys"} -> Keys(hm)
           [] h = {"status"} -> Status(hm)
           [] h = {"disconnect"} -> Disconnect(hm)
           [] h = {"poweroff"} -> Poweroff
           [] h \in {{}, {"resize"}} -> Silent /\ UNCHANGED shell
  BY DEF Handle
<1>2. h \in Handlers
  BY HandlerIs
<1> HIDE DEF h
<1>3. \A x, y \in Handlers : x \in {y} <=> x = y
  OBVIOUS
<1> DEFINE opens == Open(hm) closes == Close(hm) types == Keys(hm) asks == Status(hm)
           leaves == Disconnect(hm) ends == Poweroff nothing == Silent /\ UNCHANGED shell
<1> HIDE DEF opens, closes, types, asks, leaves, ends, nothing
<1>4. opens \/ closes \/ types \/ asks \/ leaves \/ ends \/ nothing
  <2>1. CASE h # {"open"} /\ h # {"close"} /\ h # {"keys"} /\ h # {"status"} /\ h # {"disconnect"} /\ h # {"poweroff"}
    <3>1. h \in {{}, {"resize"}}
      BY <1>2, <2>1 DEF Handlers
    <3> QED
      BY <1>1, <2>1, <3>1 DEF nothing
  <2>2. CASE h = {"open"}
    BY <1>1, <2>2 DEF opens
  <2>3. CASE h = {"close"}
    BY <1>1, <2>3 DEF closes
  <2>4. CASE h = {"keys"}
    BY <1>1, <2>4 DEF types
  <2>5. CASE h = {"status"}
    BY <1>1, <2>5 DEF asks
  <2>6. CASE h = {"disconnect"}
    BY <1>1, <2>6 DEF leaves
  <2>7. CASE h = {"poweroff"}
    BY <1>1, <2>7 DEF ends
  <2> QED
    BY <2>1, <2>2, <2>3, <2>4, <2>5, <2>6, <2>7
<1>5. requests' = <<>> \/ requests' = Tail(requests)
  BY <1>1
<1> QED
  BY <1>1, <1>4, <1>5 DEF opens, closes, types, asks, leaves, ends, nothing

\* The request of a command, if there is one.
LEMMA CommandWords ==
  ASSUME NEW stanza, NEW hm, Hears(stanza, hm)
  PROVE  \A key \in {<<119>>, <<104>>, <<114>>, <<97>>, <<112>>, <<115>>, <<117>>, TextKey} :
           hashmap_get(hm, key) \in Words \cup {Null}
BY KeysAre DEF Hears, TextKey

LEMMA ShellAfter ==
  ASSUME CommandsInv, NEW stanza, NEW hm, Hears(stanza, hm), Handle(hm)
  PROVE  shell' \in [Slots -> OpenShells \cup {Null}]
<1> DEFINE Shell == OpenShells \cup {Null}
           request == hashmap_get(hm, <<114>>)
<1>1. request \in Words \cup {Null}
  BY CommandWords
<1>2. shell \in [Slots -> Shell] /\ Null \in Shell
  BY DEF CommandsInv
<1>3. \A r \in Words, c \in BOOLEAN : [request |-> r, connected |-> c] \in Shell
  BY DEF OpenShells
<1>4. \A s \in Shell : s # Null =>
        /\ \A r \in Words : [s EXCEPT !.request = r] \in Shell
        /\ [s EXCEPT !.connected = FALSE] \in Shell
  BY DEF OpenShells
<1>5. hm # Null
  BY DEF Hears
<1>6. \/ Open(hm) \/ Close(hm) \/ Keys(hm) \/ Status(hm) \/ Disconnect(hm) \/ Poweroff
      \/ Silent /\ UNCHANGED shell
  BY <1>5, Handled
<1> HIDE DEF Shell, request
<1>7. CASE UNCHANGED shell
  BY <1>2, <1>7 DEF Shell
<1>8. CASE Open(hm)
  <2>1. \/ UNCHANGED shell
        \/ request # Null /\ \E i \in Slots : shell' = [shell EXCEPT ![i] = [request |-> request, connected |-> TRUE]]
    BY <1>8 DEF Open, SucceedOpen, request
  <2>2. ASSUME request # Null, NEW i \in Slots,
               shell' = [shell EXCEPT ![i] = [request |-> request, connected |-> TRUE]]
        PROVE  shell' \in [Slots -> Shell]
    <3> DEFINE new == [request |-> request, connected |-> TRUE]
    <3>1. new \in Shell
      BY <1>1, <1>3, <2>2, TRUE \in BOOLEAN
    <3> HIDE DEF new
    <3>2. shell' = [shell EXCEPT ![i] = new]
      BY <2>2 DEF new
    <3> QED
      BY <1>2, <3>1, <3>2
  <2> QED
    BY <1>7, <2>1, <2>2 DEF Shell
<1>9. CASE Close(hm)
  <2> DEFINE named == {i \in SlotNamed(hashmap_get(hm, <<115>>)) : shell[i] # Null}
  <2>1. \/ UNCHANGED shell
        \/ request # Null /\ shell' = [i \in Slots |-> IF i \in named THEN [request |-> request, connected |-> FALSE] ELSE shell[i]]
    BY <1>9 DEF Close, request
  <2>2. ASSUME request # Null,
               shell' = [i \in Slots |-> IF i \in named THEN [request |-> request, connected |-> FALSE] ELSE shell[i]]
        PROVE  shell' \in [Slots -> Shell]
    <3> HIDE DEF named
    <3> DEFINE new == [request |-> request, connected |-> FALSE]
    <3>1. new \in Shell
      BY <1>1, <1>3, <2>2, FALSE \in BOOLEAN
    <3> HIDE DEF new
    <3>2. shell' = [i \in Slots |-> IF i \in named THEN new ELSE shell[i]]
      BY <2>2 DEF new
    <3> QED
      BY <1>2, <3>1, <3>2
  <2> QED
    BY <1>7, <2>1, <2>2 DEF Shell
<1>10. CASE Keys(hm)
  <2> DEFINE named == {i \in SlotNamed(hashmap_get(hm, <<115>>)) : shell[i] # Null}
  <2>1. \/ UNCHANGED shell
        \/ request # Null /\ shell' = [i \in Slots |-> IF i \in named THEN [shell[i] EXCEPT !.request = request] ELSE shell[i]]
    BY <1>10 DEF Keys, request
  <2>2. ASSUME request # Null,
               shell' = [i \in Slots |-> IF i \in named THEN [shell[i] EXCEPT !.request = request] ELSE shell[i]]
        PROVE  shell' \in [Slots -> Shell]
    <3> DEFINE new(i) == IF i \in named THEN [shell[i] EXCEPT !.request = request] ELSE shell[i]
    <3>1. \A i \in Slots : new(i) \in Shell
      BY <1>1, <1>2, <1>4, <2>2
    <3> HIDE DEF new
    <3>2. [i \in Slots |-> new(i)] \in [Slots -> Shell]
      BY <3>1
    <3> QED
      BY <2>2, <3>2 DEF new
  <2> QED
    BY <1>7, <2>1, <2>2 DEF Shell
<1>11. CASE Status(hm)
  BY <1>7, <1>11 DEF Status
<1>12. CASE Disconnect(hm)
  <2> DEFINE named == {i \in SlotNamed(hashmap_get(hm, <<115>>)) : shell[i] # Null}
             new(i) == IF i \in named THEN [shell[i] EXCEPT !.connected = FALSE] ELSE shell[i]
  <2>1. UNCHANGED shell \/ shell' = [i \in Slots |-> new(i)]
    BY <1>12 DEF Disconnect
  <2>2. \A i \in Slots : new(i) \in Shell
    BY <1>2, <1>4
  <2> HIDE DEF new
  <2>3. [i \in Slots |-> new(i)] \in [Slots -> Shell]
    BY <2>2
  <2> QED
    BY <1>7, <2>1, <2>3 DEF Shell
<1>13. CASE Poweroff
  BY <1>2, <1>13 DEF Poweroff, Shell
<1> QED
  BY <1>6, <1>7, <1>8, <1>9, <1>10, <1>11, <1>12, <1>13

LEMMA CommandsNext ==
  ASSUME CommandsInv, [Next]_vars
  PROVE  CommandsInv'
<1>1. requests \in Seq(Submitted) /\ sent \in Seq(Stanzas) /\ heard \in Hearings \cup {Null}
      /\ shell \in [Slots -> OpenShells \cup {Null}]
  BY DEF CommandsInv
<1>2. ASSUME NEW stanza \in Stanzas, OwnerSends(stanza) PROVE CommandsInv'
  <2>1. sent' = Append(sent, stanza) /\ heard' = heard /\ shell' = shell
        /\ requests' = IF shells(stanza) = Null THEN requests
                       ELSE Append(requests, [bytes |-> shells(stanza), of |-> stanza])
    BY <1>2 DEF OwnerSends, Submit
  <2>2. requests' \in Seq(Submitted)
    <3>1. CASE shells(stanza) = Null
      BY <1>1, <2>1, <3>1
    <3>2. CASE shells(stanza) # Null
      <4>1. IsStanza(stanza)
        BY StanzasAssumption
      <4>2. Known(stanza)
        BY <3>2, <4>1, ShellsIs
      <4> DEFINE m == [bytes |-> shells(stanza), of |-> stanza]
      <4>3. m \in Submitted
        BY <4>2 DEF Submitted, KnownStanzas
      <4> HIDE DEF m
      <4>4. requests' = Append(requests, m)
        BY <2>1, <3>2 DEF m
      <4> QED
        BY <1>1, <4>3, <4>4
    <3> QED
      BY <3>1, <3>2
  <2>3. sent' \in Seq(Stanzas)
    BY <1>1, <2>1
  <2> QED
    BY <1>1, <2>1, <2>2, <2>3 DEF CommandsInv
<1>3. ASSUME HypervisorReceives PROVE CommandsInv'
  <2>1. requests # <<>> /\ Handle(onMessage(Head(requests).bytes)) /\ sent' = sent
    BY <1>3 DEF HypervisorReceives
  <2>2. Head(requests) \in Submitted /\ Tail(requests) \in Seq(Submitted)
    BY <1>1, <2>1
  <2>3. PICK stanza \in KnownStanzas : Head(requests) = [bytes |-> shells(stanza), of |-> stanza]
    BY <2>2 DEF Submitted
  <2> DEFINE hm == onMessage(shells(stanza))
  <2>4. Head(requests).bytes = shells(stanza) /\ Head(requests).of = stanza
    BY <2>3
  <2>5. Handle(hm) /\ Hears(stanza, hm)
    BY <2>1, <2>4, KnownStanza
  <2> HIDE DEF hm
  <2>6. hm # Null
    BY <2>5 DEF Hears
  <2>7. (requests' = <<>> \/ requests' = Tail(requests)) /\ heard' = [hm |-> hm, of |-> stanza]
    BY <2>4, <2>5, <2>6, Handled
  <2>8. shell' \in [Slots -> OpenShells \cup {Null}]
    BY <2>5, ShellAfter
  <2>9. heard' \in Hearings
    BY <2>7 DEF Hearings, hm
  <2>10. requests' \in Seq(Submitted)
    <3>1. <<>> \in Seq(Submitted)
      OBVIOUS
    <3> QED
      BY <2>2, <2>7, <3>1, Zenon
  <2> QED
    BY <1>1, <2>1, <2>8, <2>9, <2>10 DEF CommandsInv
<1>4. ASSUME NEW i \in Slots, NEW text \in Outputs, ShellWrites(i, text) PROVE CommandsInv'
  BY <1>1, <1>4 DEF ShellWrites, CommandsInv
<1>5. ASSUME NEW i \in Slots, NEW code \in Codes, ShellEnds(i, code) PROVE CommandsInv'
  <2>1. shell' = [shell EXCEPT ![i] = Null] /\ requests' = requests /\ sent' = sent /\ heard' = heard
    BY <1>5 DEF ShellEnds
  <2> QED
    BY <1>1, <2>1 DEF CommandsInv
<1>6. ASSUME ServerReceives PROVE CommandsInv'
  BY <1>1, <1>6 DEF ServerReceives, CommandsInv
<1>7. ASSUME UNCHANGED vars PROVE CommandsInv'
  BY <1>1, <1>7 DEF vars, CommandsInv
<1> QED
  BY <1>2, <1>3, <1>4, <1>5, <1>6, <1>7 DEF Next

\* At every moment: what is on its way to the hypervisor, what it heard last and
\* the requests of its shells are what the stanzas of the owner have become.
THEOREM CommandsInvHolds == Spec => []CommandsInv
<1>1. Init => CommandsInv
  <2>1. <<>> \in Seq(Submitted) /\ <<>> \in Seq(Stanzas) /\ [i \in Slots |-> Null] \in [Slots -> OpenShells \cup {Null}]
    OBVIOUS
  <2> QED
    BY <2>1 DEF Init, CommandsInv
<1>2. CommandsInv /\ [Next]_vars => CommandsInv'
  BY CommandsNext
<1> QED
  BY <1>1, <1>2, PTL DEF Spec

\* The text of a command, when the owner sent it in base64.
LEMMA TextHeard ==
  ASSUME NEW stanza, IsStanza(stanza), NEW data \in Seq(Byte), stanza.text = Base64Of(data)
  PROVE  TextPair(stanza)[2] = CString(data)
<1> DEFINE size == StanzaLength(stanza)
           room == (size * 3) \div 4 + 1
           n == Len(data)
<1>1. TextPair(stanza)[2] = Decoded(stanza, room)
  BY DEF TextPair
<1>2. stanza.text \in Seq(Byte) /\ Len(stanza.text) = EncodedSize(n) - 1
  BY Base64Is
<1>3. stanza.text # Null
  BY <1>2, NullAssumption
<1>4. room \in Nat /\ n <= room
  <2>1. PICK f : Growing(stanza, f)
    BY StanzaGrows
  <2>2. f[0] = 17 + Len(stanza.text) /\ f[0] <= size
    BY <1>3, <2>1, StanzaFits DEF Growing
  <2>3. n \in Nat
    OBVIOUS
  <2>4. Len(stanza.text) = 4 * ((n + 2) \div 3) /\ Len(stanza.text) \in Nat
    BY <1>2, <2>3, SextetsNumber
  <2>5. size \in Nat
    BY DEF IsStanza, LengthFits
  <2> DEFINE l == Len(stanza.text)
             q == (n + 2) \div 3
  <2> HIDE DEF n, l, size
  <2>6. q \in Nat /\ n <= 3 * q
    BY <2>3, SMT
  <2>7. l = 4 * q /\ 17 + l <= size /\ l \in Nat
    BY <2>2, <2>4 DEF l
  <2> HIDE DEF q
  <2>8. (size * 3) \div 4 >= 3 * q /\ (size * 3) \div 4 \in Nat
    BY <2>5, <2>6, <2>7, SMT
  <2> DEFINE t == (size * 3) \div 4
  <2> HIDE DEF t
  <2>9. t + 1 \in Nat /\ n <= t + 1
    <3>1. t >= 3 * q /\ t \in Nat
      BY <2>8 DEF t
    <3> QED
      BY <2>3, <2>6, <3>1
  <2> QED
    BY <2>9 DEF t
<1> HIDE DEF room
<1>5. Decode(stanza.text, room).out = data
  BY <1>4, DecodeBase64
<1> QED
  BY <1>1, <1>3, <1>5 DEF Decoded

\* The hypervisor finds in its map every attribute of a stanza with gadgetid,
\* each under its letter, and the text decoded; of a stanza without it, all but
\* the last pair: however many there are, however long, and in whatever buckets.
THEOREM CommandsAreUnderstoodAlways == Spec => []CommandsAreUnderstood
<1>1. CommandsInv => CommandsAreUnderstood
  <2> SUFFICES ASSUME CommandsInv, heard # Null PROVE CommandsAreUnderstood
    BY DEF CommandsAreUnderstood
  <2>1. heard \in Hearings
    BY DEF CommandsInv
  <2>2. PICK of \in KnownStanzas : heard = [hm |-> onMessage(shells(of)), of |-> of]
    BY <2>1 DEF Hearings
  <2> DEFINE hm == onMessage(shells(of))
             attrs == of.attrs
             through == Through(of)
             text == TextThrough(of)
             given(name) == {i \in through : attrs[i].name = name}
             value(name) == hashmap_get(hm, AttributeKeys[name])
  <2>3. heard.hm = hm /\ heard.of = of
    BY <2>2
  <2>4. IsStanza(of) /\ Hears(of, hm)
    BY KnownStanza
  <2> HIDE DEF hm
  <2>5. hm # Null
    BY <2>4 DEF Hears
  <2>6. ASSUME NEW name \in DOMAIN AttributeKeys
        PROVE  IF given(name) = {} THEN value(name) = Null ELSE value(name) \in {ValueOf(attrs[i]) : i \in given(name)}
    <3>1. given(name) = GivenAt(of, name)
      BY DEF GivenAt
    <3>2. GivenAt(of, name) = {} => value(name) = Null
      BY <2>4 DEF Hears
    <3>3. GivenAt(of, name) # {} => \E i \in GivenAt(of, name) : value(name) = ValueOf(attrs[i])
      BY <2>4 DEF Hears
    <3> HIDE DEF value, given
    <3> QED
      BY <3>1, <3>2, <3>3
  <2>7. hashmap_get(hm, TextKey) = IF text THEN TextPair(of)[2] ELSE Null
    BY <2>4 DEF Hears
  <2>8. text \in BOOLEAN /\ (hashmap_get(hm, TextKey) # Null) = text
    <3>1. PICK f : Growing(of, f)
      BY <2>4, StanzaGrows
    <3>2. TextPair(of)[2] \in Seq(Byte)
      BY <2>4, <3>1, TextIsPair DEF Writable
    <3>3. TextPair(of)[2] # Null /\ text \in BOOLEAN
      BY <3>2, NullAssumption DEF TextThrough, HasGadget
    <3> HIDE DEF text
    <3> QED
      BY <2>7, <3>3
  <2>9. ASSUME NEW data \in Outputs, text /\ of.text = Base64Of(data)
        PROVE  hashmap_get(hm, TextKey) = CString(data)
    <3>1. data \in Seq(Byte)
      BY OutputsAssumption, ZenonT(60)
    <3>2. TextPair(of)[2] = CString(data)
      BY <2>4, <2>9, <3>1, TextHeard
    <3> HIDE DEF text
    <3> QED
      BY <2>7, <2>9, <3>2
  <2>10. Arrives(hm, of, through, text)
    <3> HIDE DEF text, through
    <3> QED
      BY <2>6, <2>8, <2>9, Zenon DEF Arrives
  <2>11. /\ hm # Null
         /\ Arrives(hm, of, DOMAIN of.attrs \ Unread(of), "gadgetid" \in Names(of) \/ Unread(of) # {})
    BY <2>5, <2>10, Zenon DEF Through, TextThrough, HasGadget
  <2> HIDE DEF text, through, attrs, value, given
  <2>12. /\ heard.hm # Null
         /\ Arrives(heard.hm, heard.of, DOMAIN heard.of.attrs \ Unread(heard.of),
                  "gadgetid" \in Names(heard.of) \/ Unread(heard.of) # {})
    BY <2>3, <2>11, Zenon
  <2> QED
    BY <2>12, Zenon DEF CommandsAreUnderstood
<1> QED
  BY <1>1, CommandsInvHolds, PTL

\* The server publishes something for a stanza exactly when it knows every
\* attribute and the action: the buffer it writes into is never too small.
THEOREM KnownStanzasGoThroughAlways == Spec => KnownStanzasGoThrough
<1> DEFINE Goes == sent' # sent => (Known(Last(sent')) <=> requests' # requests)
<1>1. ASSUME CommandsInv, [Next]_vars PROVE Goes \/ UNCHANGED vars
  <2>1. requests \in Seq(Submitted) /\ sent \in Seq(Stanzas)
    BY <1>1 DEF CommandsInv
  <2>2. ASSUME NEW stanza \in Stanzas, OwnerSends(stanza) PROVE Goes
    <3>1. sent' = Append(sent, stanza)
          /\ requests' = IF shells(stanza) = Null THEN requests
                         ELSE Append(requests, [bytes |-> shells(stanza), of |-> stanza])
      BY <2>2 DEF OwnerSends, Submit
    <3>2. IsStanza(stanza)
      BY StanzasAssumption
    <3>3. Last(sent') = stanza
      BY <2>1, <3>1 DEF Last
    <3>4. Known(stanza) <=> shells(stanza) # Null
      BY <3>2, ShellsIs
    <3>5. \A x : Append(requests, x) # requests
      <4> TAKE x
      <4>1. Len(Append(requests, x)) = Len(requests) + 1 /\ Len(requests) \in Nat
        BY <2>1
      <4> QED
        BY <4>1
    <3> DEFINE m == [bytes |-> shells(stanza), of |-> stanza]
    <3>6. requests' = IF shells(stanza) = Null THEN requests ELSE Append(requests, m)
      BY <3>1
    <3> HIDE DEF m
    <3> QED
      BY <3>3, <3>4, <3>5, <3>6
  <2>3. ASSUME UNCHANGED sent PROVE Goes
    BY <2>3
  <2>4. UNCHANGED sent \/ \E stanza \in Stanzas : OwnerSends(stanza)
    BY <1>1 DEF Next, vars, HypervisorReceives, ShellWrites, ShellEnds, ServerReceives
  <2> QED
    BY <2>2, <2>3, <2>4
<1>2. CommandsInv /\ [Next]_vars => [Goes]_vars
  BY <1>1
<1> QED
  BY <1>2, CommandsInvHolds, PTL DEF Spec, KnownStanzasGoThrough

-----------------------------------------------------------------------------
(* The text of an answer, in base64 *)

\* The bytes of a text, and zeros before and after them.
At(data, i) == IF i >= 1 THEN ByteAt(data, i) ELSE 0

LEMMA AtIs ==
  ASSUME NEW data \in Seq(Byte), NEW i \in Int
  PROVE  At(data, i) \in 0 .. 255 /\ At(data, i) \in Nat /\ At(data, i) <= 255
<1>1. CASE i >= 1
  <2>1. i \in Nat \ {0}
    BY <1>1
  <2>2. ByteAt(data, i) \in 0 .. 255
    BY <2>1, ByteAtIs
  <2>3. At(data, i) = ByteAt(data, i)
    BY <1>1 DEF At
  <2>4. \A u \in 0 .. 255 : u \in Nat /\ u <= 255
    BY SMT
  <2> QED
    BY <2>2, <2>3, <2>4, Zenon
<1>2. CASE ~(i >= 1)
  BY <1>2, SMT DEF At
<1> QED
  BY <1>1, <1>2

\* The six bits that begin t bits before the end of two bytes, x and y, the last
\* ones filled with zeros.
Six(x, y, t) == ((64 * (256 * x + y)) \div Two[t]) % 64

SixesAre(x, y) ==
  /\ Six(x, y, 14) = x % 64
  /\ Six(x, y, 12) = 4 * (x % 16) + y \div 64
  /\ Six(x, y, 10) = 16 * (x % 4) + y \div 16
  /\ Six(x, y, 8) = y \div 4
  /\ Six(x, y, 6) = y % 64
  /\ Six(x, y, 4) = 4 * (y % 16)
  /\ Six(x, y, 2) = 16 * (y % 4)

LEMMA SixBits ==
  ASSUME NEW x \in 0 .. 255, NEW y \in 0 .. 255
  PROVE  SixesAre(x, y)
<1> DEFINE w == 64 * (256 * x + y)
<1>1. w = 16384 * x + 64 * y /\ w \in Nat /\ x \in Nat /\ y \in Nat /\ y < 256
  BY SMT
<1>2. /\ Two[14] = 16384 /\ Two[12] = 4096 /\ Two[10] = 1024 /\ Two[8] = 256
      /\ Two[6] = 64 /\ Two[4] = 16 /\ Two[2] = 4
  BY DEF Two
<1> HIDE DEF w
<1>3. (w \div 16384) % 64 = x % 64
  <2>1. w \div 16384 = x
    BY <1>1, SMT
  <2> QED
    BY <2>1
<1>4. (w \div 4096) % 64 = 4 * (x % 16) + y \div 64
  <2> DEFINE b == y \div 64
             c == y % 64
             p == x \div 16
             q == x % 16
  <2>1. y = 64 * b + c /\ b \in 0 .. 3 /\ c \in 0 .. 63 /\ x = 16 * p + q /\ p \in Nat /\ q \in 0 .. 15
    BY <1>1, SMT
  <2> HIDE DEF b, c, p, q
  <2> DEFINE k == 4 * x + b
  <2>2. w = 4096 * k + 64 * c /\ k \in Nat /\ k = 64 * p + (4 * q + b)
    BY <1>1, <2>1, SMT
  <2> HIDE DEF k
  <2>3. w \div 4096 = k
    BY <2>1, <2>2, SMT
  <2>4. k % 64 = 4 * q + b
    BY <2>1, <2>2, SMT
  <2> QED
    BY <2>3, <2>4 DEF b, q
<1>5. (w \div 1024) % 64 = 16 * (x % 4) + y \div 16
  <2> DEFINE b == y \div 16
             c == y % 16
             p == x \div 4
             q == x % 4
  <2>1. y = 16 * b + c /\ b \in 0 .. 15 /\ c \in 0 .. 15 /\ x = 4 * p + q /\ p \in Nat /\ q \in 0 .. 3
    BY <1>1, SMT
  <2> HIDE DEF b, c, p, q
  <2> DEFINE k == 16 * x + b
  <2>2. w = 1024 * k + 64 * c /\ k \in Nat /\ k = 64 * p + (16 * q + b)
    BY <1>1, <2>1, SMT
  <2> HIDE DEF k
  <2>3. w \div 1024 = k
    BY <2>1, <2>2, SMT
  <2>4. k % 64 = 16 * q + b
    BY <2>1, <2>2, SMT
  <2> QED
    BY <2>3, <2>4 DEF b, q
<1>6. (w \div 256) % 64 = y \div 4
  <2> DEFINE b == y \div 4
             c == y % 4
  <2>1. y = 4 * b + c /\ b \in 0 .. 63 /\ c \in 0 .. 3
    BY <1>1, SMT
  <2> HIDE DEF b, c
  <2> DEFINE k == 64 * x + b
  <2>2. w = 256 * k + 64 * c /\ k \in Nat
    BY <1>1, <2>1, SMT
  <2>3. k % 64 = b
    BY <1>1, <2>1, SMT
  <2> HIDE DEF k
  <2>4. w \div 256 = k
    BY <2>1, <2>2, SMT
  <2> QED
    BY <2>3, <2>4 DEF b
<1>7. (w \div 64) % 64 = y % 64
  <2> DEFINE k == 256 * x + y
  <2>1. w = 64 * k /\ k \in Nat
    BY <1>1, SMT
  <2>2. k % 64 = y % 64
    BY <1>1, SMT
  <2> HIDE DEF k
  <2>3. w \div 64 = k
    BY <2>1, SMT
  <2> QED
    BY <2>2, <2>3
<1>8. (w \div 16) % 64 = 4 * (y % 16)
  <2> DEFINE p == y \div 16
             q == y % 16
             k == 64 * (16 * x + p) + 4 * q
  <2>1. y = 16 * p + q /\ p \in 0 .. 15 /\ q \in 0 .. 15
    BY <1>1, SMT
  <2> HIDE DEF p, q
  <2>2. w = 16 * k /\ k \in Nat
    BY <1>1, <2>1, SMT
  <2>3. k % 64 = 4 * q
    BY <1>1, <2>1, SMT
  <2> HIDE DEF k
  <2>4. w \div 16 = k
    BY <2>2, SMT
  <2> QED
    BY <2>3, <2>4 DEF q
<1>9. (w \div 4) % 64 = 16 * (y % 4)
  <2> DEFINE p == y \div 4
             q == y % 4
             k == 64 * (64 * x + p) + 16 * q
  <2>1. y = 4 * p + q /\ p \in 0 .. 63 /\ q \in 0 .. 3
    BY <1>1, SMT
  <2> HIDE DEF p, q
  <2>2. w = 4 * k /\ k \in Nat
    BY <1>1, <2>1, SMT
  <2>3. k % 64 = 16 * q
    BY <1>1, <2>1, SMT
  <2> HIDE DEF k
  <2>4. w \div 4 = k
    BY <2>2, SMT
  <2> QED
    BY <2>3, <2>4 DEF q
<1> QED
  BY <1>2, <1>3, <1>4, <1>5, <1>6, <1>7, <1>8, <1>9 DEF w, Six, SixesAre

LEMMA EncodedSextet ==
  ASSUME NEW data \in Seq(Byte), NEW i \in Nat \ {0}, NEW t \in {2, 4, 6, 8, 10, 12, 14}, NEW s \in Nat,
         6 * s = 8 * i - t, t <= 6 => i >= Len(data)
  PROVE  Six(At(data, i - 1), At(data, i), t) = Sextet(data, s)
<1> DEFINE x == At(data, i - 1)
           y == At(data, i)
           z == ByteAt(data, i + 1)
           six(k) == Six(x, y, k)
<1>1. x \in 0 .. 255 /\ y \in 0 .. 255
  BY AtIs, SMTT(40)
<1> HIDE DEF x, y
<1>2. /\ six(14) = x % 64 /\ six(12) = 4 * (x % 16) + y \div 64 /\ six(10) = 16 * (x % 4) + y \div 16
      /\ six(8) = y \div 4 /\ six(6) = y % 64 /\ six(4) = 4 * (y % 16) /\ six(2) = 16 * (y % 4)
  <2>1. SixesAre(x, y)
    BY <1>1, SixBits, Zenon
  <2> QED
    BY <2>1 DEF SixesAre
<1>3. PICK m \in Nat, r \in 0 .. 3 : s = 4 * m + r
  BY InGroup
<1> DEFINE a == ByteAt(data, 3 * m + 1)
           b == ByteAt(data, 3 * m + 2)
           c == ByteAt(data, 3 * m + 3)
<1>4. /\ Sextet(data, 4 * m) = a \div 4
      /\ Sextet(data, 4 * m + 1) = 16 * (a % 4) + b \div 16
      /\ Sextet(data, 4 * m + 2) = 4 * (b % 16) + c \div 64
      /\ Sextet(data, 4 * m + 3) = c % 64
  BY SextetsAre
<1>5. y = ByteAt(data, i)
  BY DEF At, y
<1>6. i >= 2 => x = ByteAt(data, i - 1)
  BY DEF At, x
<1>7. t <= 6 => z = 0
  <2>1. Len(data) \in Nat
    OBVIOUS
  <2> QED
    BY <2>1 DEF ByteAt
<1>8. 24 * m + 6 * r = 8 * i - t
  BY <1>3
<1>9. 0 \div 16 = 0 /\ 0 \div 64 = 0
  BY SMT
<1>10. 16 * (y % 4) + 0 = 16 * (y % 4) /\ 4 * (y % 16) + 0 = 4 * (y % 16)
  BY <1>1, SMT
<1> HIDE DEF six
<1>11. CASE t = 14
  <2>1. r = 3 /\ i - 1 = 3 * m + 3 /\ i >= 2
    BY <1>8, <1>11
  <2> QED
    BY <1>2, <1>3, <1>4, <1>6, <1>11, <2>1 DEF six, x, y
<1>12. CASE t = 12
  <2>1. r = 2 /\ i - 1 = 3 * m + 2 /\ i = 3 * m + 3 /\ i >= 2
    BY <1>8, <1>12
  <2> QED
    BY <1>2, <1>3, <1>4, <1>5, <1>6, <1>12, <2>1 DEF six, x, y
<1>13. CASE t = 10
  <2>1. r = 1 /\ i - 1 = 3 * m + 1 /\ i = 3 * m + 2 /\ i >= 2
    BY <1>8, <1>13
  <2> QED
    BY <1>2, <1>3, <1>4, <1>5, <1>6, <1>13, <2>1 DEF six, x, y
<1>14. CASE t = 8
  <2>1. r = 0 /\ i = 3 * m + 1 /\ s = 4 * m
    BY <1>3, <1>8, <1>14
  <2> QED
    BY <1>2, <1>4, <1>5, <1>14, <2>1 DEF six, x, y
<1>15. CASE t = 6
  <2>1. r = 3 /\ i = 3 * m + 3
    BY <1>8, <1>15
  <2> QED
    BY <1>2, <1>3, <1>4, <1>5, <1>15, <2>1 DEF six, x, y
<1>16. CASE t = 4
  <2>1. r = 2 /\ i = 3 * m + 2 /\ i + 1 = 3 * m + 3 /\ t <= 6
    BY <1>8, <1>16
  <2>2. b = y /\ c = 0
    BY <1>5, <1>7, <2>1
  <2> HIDE DEF b, c
  <2>3. Sextet(data, s) = 4 * (y % 16) + 0
    BY <1>3, <1>4, <1>9, <2>1, <2>2
  <2>4. six(t) = Sextet(data, s)
    BY <1>2, <1>10, <1>16, <2>3
  <2> QED
    BY <2>4 DEF six, x, y
<1>17. CASE t = 2
  <2>1. r = 1 /\ i = 3 * m + 1 /\ i + 1 = 3 * m + 2 /\ t <= 6
    BY <1>8, <1>17
  <2>2. a = y /\ b = 0
    BY <1>5, <1>7, <2>1
  <2> HIDE DEF a, b
  <2>3. Sextet(data, s) = 16 * (y % 4) + 0
    BY <1>3, <1>4, <1>9, <2>1, <2>2
  <2>4. six(t) = Sextet(data, s)
    BY <1>2, <1>10, <1>17, <2>3
  <2> QED
    BY <2>4 DEF six, x, y
<1> QED
  BY <1>11, <1>12, <1>13, <1>14, <1>15, <1>16, <1>17

\* How many characters the first i bytes of a text have become, the bits that are
\* left before each of the next ones, and what the encoder knows after them.
Given(n, i) == IF i = n THEN Sextets(n) ELSE IF i = 0 THEN 0 ELSE (8 * i - 1) \div 6
ToGo(i, c, k) == (8 * i - 6 * c) - 6 * (k - 1)
Encoding(bits, shift, out) == [bits |-> bits, shift |-> shift, out |-> out]
CharsOf(data, n) == [k \in 1 .. n |-> Alphabet[Sextet(data, k - 1)]]
EncodingOf(data, i) ==
  Encoding(256 * At(data, i - 1) + At(data, i), 8 * i - 6 * Given(Len(data), i), CharsOf(data, Given(Len(data), i)))

\* A byte gives the characters it completes, and the last one all that is left.
Completes(n, i, c, d, chars) ==
  /\ c \in Nat /\ d \in Nat /\ chars \in Nat /\ d = c + chars
  /\ \A k \in 1 .. chars : /\ ToGo(i, c, k) \in {2, 4, 6, 8, 10, 12, 14}
                           /\ ToGo(i, c, k) <= 6 => i = n
                           /\ 6 * (c + k - 1) = 8 * i - ToGo(i, c, k)

LEMMA CharactersAre ==
  ASSUME NEW n \in Nat, NEW i \in 1 .. n
  PROVE  Completes(n, i, Given(n, i - 1), Given(n, i), Characters(8 * i - 6 * Given(n, i - 1), i = n))
<1> DEFINE c == Given(n, i - 1)
           d == Given(n, i)
           sh == 8 * i - 6 * c
           chars == Characters(sh, i = n)
<1>1. c \in Nat /\ sh \in {8, 10, 12, 14}
  <2>1. CASE i = 1
    <3>1. i - 1 = 0 /\ i - 1 # n
      BY <2>1
    <3>2. c = 0
      BY <3>1 DEF Given
    <3> QED
      BY <2>1, <3>2
  <2>2. CASE i # 1
    <3>1. i - 1 # 0 /\ i - 1 # n /\ 8 * (i - 1) - 1 \in Nat
      BY <2>2
    <3> DEFINE u == 8 * (i - 1) - 1
               q == u \div 6
    <3>2. c = q
      BY <3>1 DEF Given
    <3>3. u \in Nat /\ u = 8 * i - 9
      BY <3>1
    <3> HIDE DEF u
    <3>4. 6 * q <= u /\ u < 6 * q + 6 /\ q \in Nat
      BY <3>3, SMT
    <3> HIDE DEF q
    <3> DEFINE h == 4 * i - 3 * q
    <3>5. sh = 2 * h /\ h \in Int
      BY <3>2, <3>4
    <3>6. 2 * h >= 9 /\ 2 * h < 15
      BY <3>3, <3>4
    <3> HIDE DEF h
    <3>7. h = 5 \/ h = 6 \/ h = 7
      BY <3>5, <3>6
    <3> QED
      BY <3>2, <3>4, <3>5, <3>7
  <2> QED
    BY <2>1, <2>2
<1>2. chars = IF i = n THEN (sh + 5) \div 6 ELSE (sh - 1) \div 6
  BY DEF Characters
<1>3. d = IF i = n THEN (8 * i + 5) \div 6 ELSE (8 * i - 1) \div 6
  <2>1. i # 0
    OBVIOUS
  <2> QED
    BY <2>1 DEF Given, Sextets
<1> HIDE DEF c, d
<1>4. 8 * i = 6 * c + sh
  BY <1>1
<1> HIDE DEF sh, chars
<1>5. (6 * c + sh + 5) \div 6 = c + (sh + 5) \div 6 /\ (6 * c + sh - 1) \div 6 = c + (sh - 1) \div 6
  BY <1>1, SMT
<1>6. d = c + chars
  <2>1. 8 * i + 5 = 6 * c + sh + 5 /\ 8 * i - 1 = 6 * c + sh - 1
    BY <1>1, <1>4
  <2>2. CASE i = n
    <3>1. d = (6 * c + sh + 5) \div 6 /\ chars = (sh + 5) \div 6
      BY <1>2, <1>3, <2>1, <2>2
    <3> QED
      BY <1>5, <3>1
  <2>3. CASE i # n
    <3>1. d = (6 * c + sh - 1) \div 6 /\ chars = (sh - 1) \div 6
      BY <1>2, <1>3, <2>1, <2>3
    <3> QED
      BY <1>5, <3>1
  <2> QED
    BY <2>2, <2>3
<1>7. /\ sh = 8 => (sh + 5) \div 6 = 2 /\ (sh - 1) \div 6 = 1
      /\ sh = 10 => (sh + 5) \div 6 = 2 /\ (sh - 1) \div 6 = 1
      /\ sh = 12 => (sh + 5) \div 6 = 2 /\ (sh - 1) \div 6 = 1
      /\ sh = 14 => (sh + 5) \div 6 = 3 /\ (sh - 1) \div 6 = 2
  BY SMT
<1>8. chars \in 1 .. 3
  BY <1>1, <1>2, <1>7
<1>9. \A k \in 1 .. chars :
        LET t == sh - 6 * (k - 1)
        IN  t \in {2, 4, 6, 8, 10, 12, 14} /\ (t <= 6 => i = n) /\ 6 * (c + k - 1) = 8 * i - t
  <2> TAKE k \in 1 .. chars
  <2>1. k = 1 \/ k = 2 \/ k = 3
    BY <1>8
  <2>2. 6 * (c + k - 1) = 8 * i - (sh - 6 * (k - 1))
    <3>1. k \in Int /\ sh \in Int /\ c \in Int /\ i \in Int
      BY <1>1, <2>1
    <3> HIDE DEF sh
    <3> QED
      BY <1>4, <3>1
  <2>3. sh - 6 * (k - 1) \in {2, 4, 6, 8, 10, 12, 14} /\ (sh - 6 * (k - 1) <= 6 => i = n)
    <3>1. CASE i = n
      BY <1>1, <1>2, <1>7, <2>1, <3>1
    <3>2. CASE i # n
      BY <1>1, <1>2, <1>7, <2>1, <3>2
    <3> QED
      BY <3>1, <3>2
  <2> QED
    BY <2>2, <2>3
<1>10. d \in Nat
  BY <1>1, <1>6, <1>8
<1>11. Completes(n, i, c, d, chars)
  BY <1>1, <1>6, <1>8, <1>9, <1>10 DEF sh, ToGo, Completes
<1> QED
  BY <1>11 DEF c, d, sh, chars

LEMMA CharsOfIs ==
  ASSUME NEW data \in Seq(Byte), NEW n \in Nat
  PROVE  /\ CharsOf(data, n) \in Seq(Byte) /\ Len(CharsOf(data, n)) = n
         /\ \A k \in 1 .. n : CharsOf(data, n)[k] = Alphabet[Sextet(data, k - 1)]
<1> DEFINE char(k) == Alphabet[Sextet(data, k - 1)]
<1>1. \A k \in 1 .. n : char(k) \in Byte
  <2> TAKE k \in 1 .. n
  <2>1. Sextet(data, k - 1) \in 0 .. 63
    <3>1. k - 1 \in Nat
      OBVIOUS
    <3> QED
      BY <3>1, SextetType
  <2> QED
    BY <2>1, AlphabetIs
<1>2. CharsOf(data, n) = [k \in 1 .. n |-> char(k)]
  BY DEF CharsOf
<1> HIDE DEF char
<1> DEFINE s == [k \in 1 .. n |-> char(k)]
<1>3. s \in Seq(Byte) /\ Len(s) = n /\ \A k \in 1 .. n : s[k] = char(k)
  BY <1>1
<1> HIDE DEF s
<1> QED
  BY <1>2, <1>3 DEF s, char

\* The encoder after a byte, by the bits it has then.
EncodedWith(b, h, m, out) ==
  Encoding(b, h - 6 * m, out \o [k \in 1 .. m |-> Alphabet[((64 * b) \div Two[h - 6 * (k - 1)]) % 64]])

LEMMA EncodeByteIs ==
  ASSUME NEW data \in Seq(Byte), NEW i \in 1 .. Len(data)
  PROVE  EncodeByte(EncodingOf(data, i - 1), data[i], i = Len(data)) = EncodingOf(data, i)
<1> DEFINE n == Len(data)
           last == i = n
           c == Given(n, i - 1)
           d == Given(n, i)
           sh == 8 * i - 6 * c
           chars == Characters(sh, last)
           p == At(data, (i - 1) - 1)
           x == At(data, i - 1)
           y == At(data, i)
           bits == 256 * x + y
           t(k) == ToGo(i, c, k)
           six(k) == Six(x, y, t(k))
           more == [k \in 1 .. chars |-> Alphabet[six(k)]]
           e == EncodingOf(data, i - 1)
<1>1. n \in Nat /\ i \in Nat \ {0}
  OBVIOUS
<1>2. p \in 0 .. 255 /\ x \in 0 .. 255 /\ y \in 0 .. 255 /\ y = data[i]
  <2>1. p \in 0 .. 255 /\ x \in 0 .. 255 /\ y \in 0 .. 255
    <3>1. (i - 1) - 1 \in Int /\ i - 1 \in Int /\ i \in Int
      OBVIOUS
    <3> QED
      BY <3>1, AtIs, Zenon
  <2>2. y = data[i]
    BY DEF At, ByteAt
  <2> QED
    BY <2>1, <2>2
<1>3. /\ c \in Nat /\ d \in Nat /\ chars \in Nat /\ d = c + chars
      /\ \A k \in 1 .. chars : t(k) \in {2, 4, 6, 8, 10, 12, 14} /\ (t(k) <= 6 => last) /\ 6 * (c + k - 1) = 8 * i - t(k)
  <2>1. Completes(n, i, c, d, chars)
    BY <1>1, CharactersAre
  <2> HIDE DEF n, c, d, chars, sh
  <2> QED
    BY <2>1 DEF Completes
<1>4. e.bits = 256 * p + x /\ e.shift = 8 * (i - 1) - 6 * c /\ e.out = CharsOf(data, c)
  BY DEF EncodingOf, Encoding
<1>5. \A k \in 1 .. chars : six(k) = Sextet(data, c + k - 1)
  <2> TAKE k \in 1 .. chars
  <2>1. t(k) \in {2, 4, 6, 8, 10, 12, 14} /\ (t(k) <= 6 => last) /\ 6 * (c + k - 1) = 8 * i - t(k)
    BY <1>3
  <2>2. c + k - 1 \in Nat
    BY <1>3
  <2> DEFINE tt == t(k)
             s == c + k - 1
  <2>3. tt <= 6 => i >= Len(data)
    BY <1>1, <2>1
  <2>4. tt \in {2, 4, 6, 8, 10, 12, 14} /\ s \in Nat /\ 6 * s = 8 * i - tt
    BY <2>1, <2>2
  <2> HIDE DEF tt, s, n, c, sh, chars
  <2>5. Six(At(data, i - 1), At(data, i), tt) = Sextet(data, s)
    BY <1>1, <2>3, <2>4, EncodedSextet
  <2> QED
    BY <2>5 DEF tt, s
<1>6. CharsOf(data, c) \o more = CharsOf(data, d)
  <2> DEFINE a == CharsOf(data, c)
             b == CharsOf(data, d)
  <2>1. a \in Seq(Byte) /\ Len(a) = c /\ \A k \in 1 .. c : a[k] = Alphabet[Sextet(data, k - 1)]
    BY <1>3, CharsOfIs
  <2>2. b \in Seq(Byte) /\ Len(b) = d /\ \A k \in 1 .. d : b[k] = Alphabet[Sextet(data, k - 1)]
    BY <1>3, CharsOfIs
  <2>3. \A k \in 1 .. chars : Alphabet[six(k)] \in Byte
    <3> TAKE k \in 1 .. chars
    <3>1. c + k - 1 \in Nat
      BY <1>3
    <3>2. Sextet(data, c + k - 1) \in 0 .. 63
      BY <3>1, SextetType
    <3> QED
      BY <1>5, <3>2, AlphabetIs
  <2> HIDE DEF six, chars, c, d, a, b
  <2>4. more \in Seq(Byte) /\ Len(more) = chars /\ \A k \in 1 .. chars : more[k] = Alphabet[six(k)]
    BY <1>3, <2>3
  <2> HIDE DEF more
  <2>a. c \in Nat /\ d \in Nat /\ chars \in Nat /\ d = c + chars
    BY <1>3
  <2>5. Len(a \o more) = d /\ a \o more \in Seq(Byte)
    <3>1. a \in Seq(Byte)
      BY <2>1
    <3>2. more \in Seq(Byte)
      BY <2>4
    <3>3. a \o more \in Seq(Byte) /\ Len(a \o more) = Len(a) + Len(more)
      BY <3>1, <3>2
    <3>4. Len(a) = c /\ Len(more) = chars
      BY <2>1, <2>4
    <3> QED
      BY <2>a, <3>3, <3>4
  <2>6. \A k \in 1 .. d : (a \o more)[k] = b[k]
    <3> TAKE k \in 1 .. d
    <3>1. CASE k <= c
      <4>1. (a \o more)[k] = a[k] /\ k \in 1 .. c
        BY <2>a, <2>1, <2>4, <3>1
      <4> QED
        BY <2>1, <2>2, <4>1
    <3>2. CASE ~(k <= c)
      <4> DEFINE l == k - c
      <4>1. (a \o more)[k] = more[l] /\ l \in 1 .. chars /\ c + l - 1 = k - 1
        BY <2>a, <2>1, <2>4, <3>2
      <4> HIDE DEF l
      <4>2. more[l] = Alphabet[Sextet(data, c + l - 1)]
        BY <1>5, <2>4, <4>1
      <4> QED
        BY <2>2, <4>1, <4>2
    <3> QED
      BY <3>1, <3>2
  <2> DEFINE z == a \o more
  <2> HIDE DEF z
  <2>7. z \in Seq(Byte) /\ Len(z) = d /\ \A k \in 1 .. d : z[k] = b[k]
    BY <2>5, <2>6 DEF z
  <2>8. z = b
    BY <2>a, <2>2, <2>7
  <2> QED
    BY <2>8 DEF z, a, b
<1>7. (256 * e.bits + data[i]) % 65536 = bits
  <2> DEFINE eb == e.bits
             db == data[i]
  <2>1. eb = 256 * p + x /\ db = y
    BY <1>2, <1>4
  <2> HIDE DEF eb, db, p, x, y
  <2> DEFINE z == 256 * x + y
  <2>2. z \in Nat /\ z < 65536
    <3>1. x \in Nat /\ y \in Nat /\ x <= 255 /\ y <= 255
      BY AtIs, SMTT(40) DEF x, y
    <3> QED
      BY <3>1, SMT
  <2>5. 256 * eb + db = 65536 * p + z
    BY <1>2, <2>1, SMT
  <2> HIDE DEF z
  <2>3. (65536 * p + z) % 65536 = z
    BY <1>2, <2>2, SMT
  <2>4. (256 * eb + db) % 65536 = z
    BY <2>3, <2>5
  <2> QED
    BY <2>4 DEF eb, db, z, x, y
<1>8. e.shift + 8 = sh
  <2> DEFINE es == e.shift
  <2>1. es = 8 * (i - 1) - 6 * c
    BY <1>4
  <2> HIDE DEF es, c
  <2>2. es + 8 = 8 * i - 6 * c
    BY <1>1, <1>3, <2>1
  <2> QED
    BY <2>2 DEF es
<1>9. sh - 6 * chars = 8 * i - 6 * d
  <2> HIDE DEF c, d, chars
  <2> QED
    BY <1>1, <1>3
<1>10. EncodeByte(e, data[i], last) =
         EncodedWith((256 * e.bits + data[i]) % 65536, e.shift + 8, Characters(e.shift + 8, last), e.out)
  BY DEF EncodeByte, EncodedWith, Encoding
<1>11. EncodeByte(e, data[i], last) = Encoding(bits, sh - 6 * chars, e.out \o more)
  <2>1. EncodeByte(e, data[i], last) = EncodedWith(bits, sh, chars, e.out)
    <3> HIDE DEF e, bits, sh
    <3> QED
      BY <1>7, <1>8, <1>10
  <2>2. EncodedWith(bits, sh, chars, e.out) = Encoding(bits, sh - 6 * chars, e.out \o more)
    <3> HIDE DEF e, chars
    <3> QED
      BY DEF EncodedWith, Six, ToGo
  <2> QED
    BY <2>1, <2>2
<1>12. EncodingOf(data, i) = Encoding(bits, 8 * i - 6 * d, CharsOf(data, d))
  BY DEF EncodingOf
<1>13. EncodeByte(e, data[i], last) = Encoding(bits, 8 * i - 6 * d, CharsOf(data, d))
  <2> HIDE DEF e, bits, sh, more, chars, d, c
  <2> QED
    BY <1>4, <1>6, <1>9, <1>11
<1> QED
  BY <1>12, <1>13

LEMMA EncodeSteps ==
  ASSUME NEW data \in Seq(Byte)
  PROVE  Encode(data, EncodedSize(Len(data))) =
           CharsOf(data, Sextets(Len(data))) \o [k \in 1 .. (-Sextets(Len(data))) % 4 |-> 61]
<1> DEFINE n == Len(data)
           base == [bits |-> 0, shift |-> 0, out |-> <<>>]
           after(x, i) == EncodeByte(x, data[i], i = n)
           Next0(g) == [i \in 0 .. n |-> IF i = 0 THEN base ELSE EncodeByte(g[i - 1], data[i], i = n)]
           e == CHOOSE g : g = Next0(g)
           f == [i \in 0 .. n |-> EncodingOf(data, i)]
           room == EncodedSize(n)
<1>1. n \in Nat /\ room \in Nat
  <2>1. n \in Nat
    OBVIOUS
  <2> QED
    BY <2>1, SextetsNumber
<1>2. Encode(data, room) = e[n].out \o [k \in 1 .. (-Len(e[n].out)) % 4 |-> 61]
  <2>1. ~(room < EncodedSize(Len(data)))
    BY <1>1
  <2> HIDE DEF room
  <2> QED
    BY <2>1, Zenon DEF Encode
<1>3. \A i \in 1 .. n : after(f[i - 1], i) = f[i]
  <2> TAKE i \in 1 .. n
  <2>1. i - 1 \in 0 .. n /\ i \in 0 .. n
    BY <1>1
  <2>2. f[i - 1] = EncodingOf(data, i - 1) /\ f[i] = EncodingOf(data, i)
    BY <2>1
  <2> HIDE DEF f
  <2> QED
    BY <2>2, EncodeByteIs
<1>4. Given(n, 0) = 0
  <2>1. (8 * 0 + 5) \div 6 = 0
    BY SMT
  <2> QED
    BY <2>1 DEF Given, Sextets
<1>5. f[0] = base
  <2>1. f[0] = EncodingOf(data, 0)
    BY <1>1
  <2>2. At(data, 0 - 1) = 0 /\ At(data, 0) = 0
    BY DEF At
  <2>3. EncodingOf(data, 0) = Encoding(256 * 0 + 0, 8 * 0 - 6 * 0, CharsOf(data, 0))
    BY <1>4, <2>2 DEF EncodingOf
  <2>4. CharsOf(data, 0) = <<>>
    BY CharsOfIs
  <2>5. 256 * 0 + 0 = 0 /\ 8 * 0 - 6 * 0 = 0
    BY SMT
  <2>6. EncodingOf(data, 0) = Encoding(0, 0, <<>>)
    BY <2>3, <2>4, <2>5
  <2> HIDE DEF f
  <2> QED
    BY <2>1, <2>6 DEF Encoding
<1> HIDE DEF base
<1>6. f = Next0(f)
  <2>1. \A i \in 0 .. n : f[i] = IF i = 0 THEN base ELSE EncodeByte(f[i - 1], data[i], i = n)
    <3> TAKE i \in 0 .. n
    <3>1. CASE i = 0
      <4> HIDE DEF f
      <4> QED
        BY <1>5, <3>1
    <3>2. CASE i # 0
      <4>1. i \in 1 .. n
        BY <1>1, <3>2
      <4>2. f[i] = EncodeByte(f[i - 1], data[i], i = n)
        BY <1>3, <4>1
      <4> HIDE DEF f
      <4> QED
        BY <3>2, <4>2
    <3> QED
      BY <3>1, <3>2
  <2> DEFINE F == [i \in 0 .. n |-> f[i]]
  <2>2. f = F
    BY Zenon
  <2> HIDE DEF f
  <2> QED
    BY <2>1, <2>2
<1>7. e = Next0(e)
  <2> HIDE DEF Next0, f
  <2> QED
    BY <1>6
<1> HIDE DEF e
<1>8. e[0] = base /\ \A i \in 1 .. n : e[i] = after(e[i - 1], i)
  <2>1. 0 \in 0 .. n /\ \A i \in 1 .. n : i \in 0 .. n /\ i # 0
    BY <1>1
  <2> QED
    BY <1>7, <2>1
<1> HIDE DEF Next0
<1>9. e[n] = f[n]
  <2> HIDE DEF f, after, n
  <2>1. e[0] = f[0] /\ \A i \in 1 .. n : e[i - 1] = f[i - 1] => e[i] = f[i]
    BY <1>3, <1>5, <1>8
  <2> QED
    BY <1>1, <2>1, SameEnd
<1>10. e[n].out = CharsOf(data, Sextets(n))
  <2>1. f[n] = EncodingOf(data, n)
    BY <1>1
  <2>2. Given(n, n) = Sextets(n)
    BY DEF Given
  <2>3. EncodingOf(data, n).out = CharsOf(data, Sextets(n))
    BY <2>2 DEF EncodingOf, Encoding
  <2> HIDE DEF f
  <2> QED
    BY <1>9, <2>1, <2>3
<1>11. Len(CharsOf(data, Sextets(n))) = Sextets(n)
  <2>1. Sextets(n) \in Nat
    BY <1>1, SextetsNumber
  <2> QED
    BY <2>1, CharsOfIs
<1> DEFINE chars == CharsOf(data, Sextets(n))
<1> HIDE DEF chars
<1>12. e[n].out = chars /\ Len(chars) = Sextets(n)
  BY <1>10, <1>11 DEF chars
<1>13. Encode(data, room) = chars \o [k \in 1 .. (-Sextets(n)) % 4 |-> 61]
  <2> HIDE DEF room
  <2> QED
    BY <1>2, <1>12
<1> QED
  BY <1>13 DEF chars

\* What the server sends of a text is that text in base64.
LEMMA EncodedIs ==
  ASSUME NEW data \in Seq(Byte)
  PROVE  Encode(data, EncodedSize(Len(data))) = Base64Of(data)
<1> DEFINE n == Len(data)
           C == Sextets(n)
           L == EncodedSize(n) - 1
           a == CharsOf(data, C)
           p == (-C) % 4
           fill == [k \in 1 .. p |-> 61]
           text == Base64Of(data)
<1>1. n \in Nat /\ C \in Nat /\ L \in Nat /\ L = 4 * ((n + 2) \div 3)
  <2>1. n \in Nat
    OBVIOUS
  <2> QED
    BY <2>1, SextetsNumber
<1>2. p \in Nat /\ C + p = L
  <2> DEFINE q == (n + 2) \div 3
  <2>1. 3 * q <= n + 2 /\ n + 2 < 3 * q + 3 /\ q \in Nat
    BY <1>1, SMT
  <2>2. 6 * C <= 8 * n + 5 /\ 8 * n + 5 < 6 * C + 6
    BY <1>1, SMT DEF Sextets
  <2> HIDE DEF q, C
  <2> DEFINE r == 4 * q - C
  <2>3. r \in 0 .. 2
    <3>1. n = 3 * q - 2 \/ n = 3 * q - 1 \/ n = 3 * q
      BY <1>1, <2>1
    <3> QED
      BY <1>1, <2>1, <2>2, <3>1
  <2>4. -C = 4 * (-q) + r /\ -q \in Int
    BY <1>1, <2>1
  <2> HIDE DEF r
  <2>5. p = r
    BY <2>3, <2>4, SMT
  <2>6. L = 4 * q
    BY <1>1 DEF q
  <2>7. r = 4 * q - C
    BY DEF r
  <2> HIDE DEF L, p
  <2> QED
    BY <1>1, <2>1, <2>3, <2>5, <2>6, <2>7
<1>3. a \in Seq(Byte) /\ Len(a) = C /\ \A k \in 1 .. C : a[k] = Alphabet[Sextet(data, k - 1)]
  BY <1>1, CharsOfIs
<1>4. text \in Seq(Byte) /\ Len(text) = L
      /\ \A k \in 1 .. L : text[k] = IF k <= C THEN Alphabet[Sextet(data, k - 1)] ELSE 61
  BY Base64Is
<1> HIDE DEF text, a, L, C, p
<1>5. fill \in Seq(Byte) /\ Len(fill) = p /\ \A k \in 1 .. p : fill[k] = 61
  <2>1. 61 \in Byte
    BY SMT DEF Byte
  <2> QED
    BY <1>2, <2>1
<1> HIDE DEF fill
<1> DEFINE all == a \o fill
<1>6. all \in Seq(Byte) /\ Len(all) = L
  BY <1>1, <1>2, <1>3, <1>5, SMTT(40)
<1>7. \A k \in 1 .. L : all[k] = text[k]
  <2> TAKE k \in 1 .. L
  <2>1. CASE k <= C
    <3>1. all[k] = a[k] /\ k \in 1 .. C
      BY <1>1, <1>2, <1>3, <1>5, <2>1
    <3> QED
      BY <1>3, <1>4, <2>1, <3>1
  <2>2. CASE ~(k <= C)
    <3>1. all[k] = fill[k - C] /\ k - C \in 1 .. p
      BY <1>1, <1>2, <1>3, <1>5, <2>2
    <3>2. text[k] = 61
      BY <1>4, <2>2
    <3> QED
      BY <1>5, <3>1, <3>2
  <2> QED
    BY <2>1, <2>2
<1> HIDE DEF all
<1>8. all = text
  BY <1>1, <1>4, <1>6, <1>7
<1>9. Encode(data, EncodedSize(n)) = all
  BY EncodeSteps DEF all, a, fill, C, p
<1> QED
  BY <1>8, <1>9 DEF text

-----------------------------------------------------------------------------
(* What the server reads of an answer *)

StanzaOf(action, text, attrs) == [action |-> action, text |-> text, attrs |-> attrs]
NoAttrs == [n \in DOMAIN AnswerKeys |-> Null]
NoStanza == StanzaOf("none", Null, NoAttrs)
PairOf(pair) == [key |-> pair[1], val |-> pair[2]]

\* Reading the pair, the server makes the second stanza of the first one.
Reads(v, pair, w) ==
  \A from, at : TakePair(Result(TRUE, from, v), Result(TRUE, at, PairOf(pair))) = Result(TRUE, at, w)

LEMMA AnswerNames ==
  /\ DOMAIN AnswerKeys = {"width", "height", "request", "action", "projectid", "shellid", "userid", "code",
                          "running", "response"}
  /\ \A name \in DOMAIN AnswerKeys : Named(AnswerKeys, AnswerKeys[name]) = {name} /\ AnswerKeys[name] # TextKey
<1>1. DOMAIN AnswerKeys = {"width", "height", "request", "action", "projectid", "shellid", "userid", "code",
                           "running", "response"}
  BY DEF AnswerKeys
<1> DEFINE one == [width |-> 119, height |-> 104, request |-> 114, action |-> 97, projectid |-> 112,
                   shellid |-> 115, userid |-> 117, code |-> 99]
           two == [running |-> 117, response |-> 101]
<1>2. DOMAIN AnswerKeys = DOMAIN one \cup DOMAIN two
  BY <1>1
<1>3. \A n \in DOMAIN one : AnswerKeys[n] = <<one[n]>>
  BY DEF AnswerKeys
<1>4. \A n \in DOMAIN two : AnswerKeys[n] = <<114, two[n]>>
  BY DEF AnswerKeys
<1>5. \A m, n \in DOMAIN one : one[m] = one[n] => m = n
  BY SMT
<1>6. \A m, n \in DOMAIN two : two[m] = two[n] => m = n
  BY SMT
<1>7. \A n \in DOMAIN one : one[n] # 116
  BY SMT
<1>8. \A a, b, c, d : (<<a>> = <<b>> => a = b) /\ (<<a, b>> = <<c, d>> => b = d) /\ <<a>> # <<b, c>>
  OBVIOUS
<1> HIDE DEF one, two
<1>9. \A m, n \in DOMAIN AnswerKeys : AnswerKeys[m] = AnswerKeys[n] => m = n
  BY <1>2, <1>3, <1>4, <1>5, <1>6, <1>8
<1>10. \A n \in DOMAIN AnswerKeys : AnswerKeys[n] # TextKey
  BY <1>2, <1>3, <1>4, <1>7, <1>8 DEF TextKey
<1>11. \A n \in DOMAIN AnswerKeys : Named(AnswerKeys, AnswerKeys[n]) = {n}
  BY <1>9 DEF Named
<1> QED
  BY <1>1, <1>10, <1>11

LEMMA AnswerActionNames ==
  ASSUME NEW name \in DOMAIN AnswerActionKeys
  PROVE  Named(AnswerActionKeys, AnswerActionKeys[name]) = {name}
<1> DEFINE one == [open |-> 111, close |-> 99, keys |-> 107, status |-> 115, poweroff |-> 112, disconnect |-> 100]
<1>1. DOMAIN AnswerActionKeys = DOMAIN one /\ \A n \in DOMAIN one : AnswerActionKeys[n] = <<one[n]>>
  BY DEF AnswerActionKeys
<1>2. \A m, n \in DOMAIN one : one[m] = one[n] => m = n
  BY SMT
<1>3. \A a, b : <<a>> = <<b>> => a = b
  OBVIOUS
<1> HIDE DEF one
<1>4. \A m, n \in DOMAIN AnswerActionKeys : AnswerActionKeys[m] = AnswerActionKeys[n] => m = n
  BY <1>1, <1>2, <1>3
<1> QED
  BY <1>4 DEF Named

\* The parts of a pair that was read, and of a stanza that is made of another.
LEMMA StanzaParts ==
  ASSUME NEW a, NEW t, NEW s, NEW x
  PROVE  /\ [StanzaOf(a, t, s) EXCEPT !.action = x] = StanzaOf(x, t, s)
         /\ [StanzaOf(a, t, s) EXCEPT !.text = x] = StanzaOf(a, x, s)
         /\ StanzaOf(a, t, s).action = a /\ StanzaOf(a, t, s).text = t /\ StanzaOf(a, t, s).attrs = s
  BY DEF StanzaOf

LEMMA StanzaAttribute ==
  ASSUME NEW a, NEW t, NEW s, NEW x, NEW n
  PROVE  [StanzaOf(a, t, s) EXCEPT !.attrs[n] = x] = StanzaOf(a, t, [s EXCEPT ![n] = x])
  BY DEF StanzaOf

LEMMA ReadsAction ==
  ASSUME NEW t, NEW s, NEW old, NEW name \in DOMAIN AnswerActionKeys
  PROVE  Reads(StanzaOf(old, t, s), <<<<97>>, AnswerActionKeys[name]>>, StanzaOf(name, t, s))
<1> DEFINE v == StanzaOf(old, t, s)
           key == <<97>>
           val == AnswerActionKeys[name]
           pair == <<key, val>>
<1> SUFFICES ASSUME NEW from, NEW at
             PROVE  TakePair(Result(TRUE, from, v), Result(TRUE, at, PairOf(pair))) = Result(TRUE, at, StanzaOf(name, t, s))
  BY DEF Reads
<1>1. key \in String /\ val \in String
  <2>1. 97 \in 1 .. 255
    BY SMT
  <2> DEFINE letters == {97, 99, 100, 107, 111, 112, 115}
  <2>2. \A m \in DOMAIN AnswerActionKeys : \E c \in letters : AnswerActionKeys[m] = <<c>>
    BY DEF AnswerActionKeys
  <2>3. \A c \in letters : c \in 1 .. 255
    BY SMT
  <2> HIDE DEF letters
  <2> DEFINE chars == 1 .. 255
  <2>4. 97 \in chars /\ \A c \in letters : c \in chars
    BY <2>1, <2>3
  <2> HIDE DEF chars
  <2>5. key \in Seq(chars) /\ val \in Seq(chars)
    <3>1. PICK c \in letters : val = <<c>>
      BY <2>2
    <3>2. <<97>> \in Seq(chars) /\ <<c>> \in Seq(chars)
      BY <2>4
    <3> HIDE DEF val
    <3> QED
      BY <3>1, <3>2
  <2> QED
    BY <2>5 DEF String, chars
<1>2. CString(key) = key /\ CString(val) = val
  BY <1>1, StringIsBytes
<1>3. key = AnswerKeys["action"] /\ "action" \in DOMAIN AnswerKeys
  BY DEF AnswerKeys
<1>4. Named(AnswerKeys, key) = {"action"} /\ key # TextKey
  BY <1>3, AnswerNames
<1>5. Named(AnswerActionKeys, val) = {name}
  BY AnswerActionNames
<1> DEFINE r == Result(TRUE, from, v)
           q == Result(TRUE, at, PairOf(pair))
<1>6. q.ok = TRUE /\ q.at = at /\ q.v.key = key /\ q.v.val = val /\ r.v = v
  BY DEF Result, PairOf
<1>7. [v EXCEPT !.action = name] = StanzaOf(name, t, s)
  BY StanzaParts
<1>8. (CHOOSE a \in {name} : TRUE) = name /\ {name} # {}
  OBVIOUS
<1> HIDE DEF r, q, v, key, val
<1> QED
  BY <1>2, <1>4, <1>5, <1>6, <1>7, <1>8 DEF TakePair, r, q

LEMMA ReadsAttribute ==
  ASSUME NEW a, NEW t, NEW s, NEW name \in DOMAIN AnswerKeys \ {"action"}, NEW key, CString(key) = AnswerKeys[name],
         NEW val \in String
  PROVE  Reads(StanzaOf(a, t, s), <<key, val>>, StanzaOf(a, t, [s EXCEPT ![name] = val]))
<1> DEFINE v == StanzaOf(a, t, s)
           pair == <<key, val>>
           w == StanzaOf(a, t, [s EXCEPT ![name] = val])
<1> SUFFICES ASSUME NEW from, NEW at
             PROVE  TakePair(Result(TRUE, from, v), Result(TRUE, at, PairOf(pair))) = Result(TRUE, at, w)
  BY DEF Reads
<1>1. CString(val) = val
  BY StringIsBytes
<1>2. Named(AnswerKeys, CString(key)) = {name} /\ CString(key) # TextKey
  BY AnswerNames
<1> DEFINE r == Result(TRUE, from, v)
           q == Result(TRUE, at, PairOf(pair))
<1>3. q.ok = TRUE /\ q.at = at /\ q.v.key = key /\ q.v.val = val /\ r.v = v
  BY DEF Result, PairOf
<1>4. [v EXCEPT !.attrs[name] = val] = w
  BY StanzaAttribute
<1>5. (CHOOSE x \in {name} : TRUE) = name /\ {name} # {} /\ {name} # {"action"}
  OBVIOUS
<1> HIDE DEF r, q, v, w
<1> QED
  BY <1>1, <1>2, <1>3, <1>4, <1>5 DEF TakePair, r, q

LEMMA ReadsText ==
  ASSUME NEW a, NEW t, NEW s, NEW text \in Seq(Byte)
  PROVE  Reads(StanzaOf(a, t, s), <<TextKey, text>>, StanzaOf(a, Base64Of(CString(text)), s))
<1> DEFINE v == StanzaOf(a, t, s)
           pair == <<TextKey, text>>
           w == StanzaOf(a, Base64Of(CString(text)), s)
<1> SUFFICES ASSUME NEW from, NEW at
             PROVE  TakePair(Result(TRUE, from, v), Result(TRUE, at, PairOf(pair))) = Result(TRUE, at, w)
  BY DEF Reads
<1>1. CString(TextKey) = TextKey
  <2>1. 116 \in 1 .. 255
    BY SMT
  <2>2. TextKey \in String
    BY <2>1 DEF TextKey, String
  <2> QED
    BY <2>2, StringIsBytes
<1>2. EncodeAll(CText(text)) = Base64Of(CString(text))
  <2>1. CString(text) \in Seq(Byte)
    BY CStringType
  <2> QED
    BY <2>1, EncodedIs DEF EncodeAll, CText
<1> DEFINE r == Result(TRUE, from, v)
           q == Result(TRUE, at, PairOf(pair))
<1>3. q.ok = TRUE /\ q.at = at /\ q.v.key = TextKey /\ q.v.val = text /\ r.v = v
  BY DEF Result, PairOf
<1>4. [v EXCEPT !.text = Base64Of(CString(text))] = w
  BY StanzaParts
<1>5. Named(AnswerKeys, TextKey) = {}
  BY AnswerNames DEF Named
<1> HIDE DEF r, q, v, w
<1> QED
  BY <1>1, <1>2, <1>3, <1>4, <1>5 DEF TakePair, r, q

\* Pairs of which the server makes the stanza v, and the bytes they take.
Steps(pairs, f, v) ==
  /\ f[0] = NoStanza /\ f[Len(pairs)] = v
  /\ \A i \in 1 .. Len(pairs) : Reads(f[i - 1], pairs[i], f[i])
Conveys(pairs, v, size) ==
  /\ pairs \in Pairs /\ AllWritable(pairs) /\ size \in Nat /\ Len(FlattenSeq(BytesOf(pairs))) = size
  /\ \E f : Steps(pairs, f, v)

LEMMA ConveysNothing == Conveys(<<>>, NoStanza, 0)
<1> DEFINE f == [i \in 0 .. 0 |-> NoStanza]
<1>1. f[0] = NoStanza
  OBVIOUS
<1>2. <<>> \in Pairs /\ Len(<<>>) = 0 /\ \A i \in 1 .. Len(<<>>) : FALSE
  BY DEF Pairs
<1> HIDE DEF f
<1>3. Steps(<<>>, f, NoStanza)
  BY <1>1, <1>2 DEF Steps
<1>4. AllWritable(<<>>)
  BY <1>2 DEF AllWritable
<1>5. BytesOf(<<>>) = <<>>
  BY <1>2 DEF BytesOf
<1>6. FlattenSeq(<<>>) = <<>>
  BY FlattenEmpty
<1> QED
  BY <1>2, <1>3, <1>4, <1>5, <1>6 DEF Conveys

LEMMA ConveysMore ==
  ASSUME NEW pairs, NEW v, NEW size, Conveys(pairs, v, size),
         NEW pair \in Seq(Byte) \X Seq(Byte), Writable(pair[1]), Writable(pair[2]), NEW w, Reads(v, pair, w)
  PROVE  /\ Conveys(Append(pairs, pair), w, size + (Len(StringBytes(pair[1])) + Len(StringBytes(pair[2]))))
         /\ Len(Append(pairs, pair)) = Len(pairs) + 1
<1> DEFINE more == Append(pairs, pair)
           n == Len(pairs)
           X == Seq(Byte) \X Seq(Byte)
<1>1. pairs \in Pairs /\ AllWritable(pairs) /\ size \in Nat /\ Len(FlattenSeq(BytesOf(pairs))) = size
  BY DEF Conveys
<1>2. PICK f : Steps(pairs, f, v)
  BY DEF Conveys
<1>3. /\ more \in Pairs /\ AllWritable(more) /\ Len(more) = n + 1
      /\ FlattenSeq(BytesOf(pairs)) \in Seq(Byte) /\ PairBytes(pair) \in Seq(Byte)
      /\ FlattenSeq(BytesOf(more)) = FlattenSeq(BytesOf(pairs)) \o PairBytes(pair)
  BY <1>1, OnePairMore
<1>4. n \in Nat /\ more[n + 1] = pair /\ \A i \in 1 .. n : more[i] = pairs[i]
  <2>1. pairs \in Seq(X) /\ pair \in X
    BY <1>1 DEF Pairs
  <2> HIDE DEF X
  <2> QED
    BY <2>1
<1> HIDE DEF more
<1> DEFINE g == [i \in 0 .. n + 1 |-> IF i = n + 1 THEN w ELSE f[i]]
<1>5. Steps(more, g, w)
  <2>1. g[0] = f[0] /\ g[n + 1] = w /\ g[n] = f[n]
    BY <1>4
  <2>2. f[0] = NoStanza /\ f[n] = v /\ \A i \in 1 .. n : Reads(f[i - 1], pairs[i], f[i])
    BY <1>2 DEF Steps
  <2>3. \A i \in 1 .. n + 1 : Reads(g[i - 1], more[i], g[i])
    <3> TAKE i \in 1 .. n + 1
    <3>1. CASE i = n + 1
      <4>1. i - 1 = n
        BY <1>4, <3>1
      <4> HIDE DEF g
      <4> QED
        BY <1>4, <2>1, <2>2, <3>1, <4>1
    <3>2. CASE i # n + 1
      <4>1. i \in 1 .. n /\ g[i] = f[i] /\ g[i - 1] = f[i - 1]
        BY <1>4, <3>2
      <4> HIDE DEF g
      <4> QED
        BY <1>4, <2>2, <4>1
    <3> QED
      BY <3>1, <3>2
  <2> HIDE DEF g
  <2> QED
    BY <1>3, <2>1, <2>2, <2>3 DEF Steps
<1>6. Len(FlattenSeq(BytesOf(more))) = size + Len(PairBytes(pair)) /\ Len(PairBytes(pair)) \in Nat
  <2> DEFINE a == FlattenSeq(BytesOf(pairs))
             b == PairBytes(pair)
  <2>1. a \in Seq(Byte) /\ b \in Seq(Byte) /\ FlattenSeq(BytesOf(more)) = a \o b
    BY <1>3
  <2>2. Len(a) = size
    BY <1>1
  <2> HIDE DEF a, b
  <2>3. Len(a \o b) = Len(a) + Len(b) /\ Len(b) \in Nat
    BY <2>1
  <2> QED
    BY <2>1, <2>2, <2>3 DEF b
<1>7. Len(PairBytes(pair)) = Len(StringBytes(pair[1])) + Len(StringBytes(pair[2]))
  <2> DEFINE a == StringBytes(pair[1])
             b == StringBytes(pair[2])
  <2>1. a \in Seq(Byte) /\ b \in Seq(Byte)
    BY StringWritten
  <2>2. PairBytes(pair) = a \o b
    BY DEF PairBytes
  <2> HIDE DEF a, b
  <2>3. Len(PairBytes(pair)) = Len(a) + Len(b)
    BY <2>1, <2>2
  <2> QED
    BY <2>3 DEF a, b
<1> DEFINE total == size + (Len(StringBytes(pair[1])) + Len(StringBytes(pair[2])))
<1>8. total \in Nat /\ Len(FlattenSeq(BytesOf(more))) = total
  BY <1>1, <1>6, <1>7
<1> HIDE DEF total, g
<1>9. Conveys(more, w, total)
  BY <1>3, <1>5, <1>8 DEF Conveys
<1> QED
  BY <1>3, <1>9 DEF total, more

LEMMA AnswerRead ==
  ASSUME NEW pairs \in Pairs, AllWritable(pairs), LengthFits(2 * Len(pairs), 4), NEW v, NEW f, Steps(pairs, f, v)
  PROVE  onHypervisorMessage(MapBytes(2 * Len(pairs), pairs)) = v
<1> DEFINE N == Len(pairs)
           size == 2 * N
           buf == MapBytes(size, pairs)
           at(i) == EndOf(size, pairs, i)
           map == ReadMap(buf, 0)
           more(r) == IF r.ok THEN TakePair(r, ReadStrings(buf, r.at)) ELSE r
           start == Result(map.ok, map.at, NoStanza)
           Next0(g) == [i \in 0 .. map.v \div 2 |-> IF i = 0 THEN start ELSE more(g[i - 1])]
           read == CHOOSE g : g = Next0(g)
           result == [i \in 0 .. N |-> Result(TRUE, at(i), f[i])]
<1>1. N \in Nat
  BY DEF Pairs
<1>2. map.ok = TRUE /\ map.at = at(0) /\ map.v = size
  BY <1>1, MapBegins DEF Result
<1>3. map.v \div 2 = N
  <2>1. (2 * N) \div 2 = N
    BY <1>1
  <2> QED
    BY <1>2, <2>1
<1>4. onHypervisorMessage(buf) = OrNull(read[map.v \div 2])
  BY DEF onHypervisorMessage, ReadPairs, ReadMore, NoStanza, StanzaOf, NoAttrs
<1>5. f[0] = NoStanza /\ f[N] = v /\ \A i \in 1 .. N : Reads(f[i - 1], pairs[i], f[i])
  BY DEF Steps
<1>6. \A i \in 1 .. N : ReadStrings(buf, at(i - 1)) = Result(TRUE, at(i), PairOf(pairs[i]))
  BY <1>1, PairRead DEF PairOf
<1>7. \A i \in 1 .. N : more(Result(TRUE, at(i - 1), f[i - 1])) = Result(TRUE, at(i), f[i])
  <2> TAKE i \in 1 .. N
  <2> DEFINE r == Result(TRUE, at(i - 1), f[i - 1])
             pair == Result(TRUE, at(i), PairOf(pairs[i]))
  <2>1. r.ok = TRUE /\ r.at = at(i - 1)
    BY DEF Result
  <2>2. ReadStrings(buf, at(i - 1)) = pair
    BY <1>6
  <2>3. TakePair(r, pair) = Result(TRUE, at(i), f[i])
    BY <1>5 DEF Reads
  <2> HIDE DEF r, pair, buf, at
  <2>4. more(r) = TakePair(r, pair)
    BY <2>1, <2>2
  <2> QED
    BY <2>3, <2>4 DEF r
<1> HIDE DEF more, at, map, buf, size
<1>8. start = Result(TRUE, at(0), f[0])
  BY <1>2, <1>5
<1> HIDE DEF start
<1>9. result = Next0(result)
  <2>1. \A i \in 0 .. N : result[i] = IF i = 0 THEN start ELSE more(result[i - 1])
    <3> TAKE i \in 0 .. N
    <3>1. CASE i = 0
      BY <1>1, <1>8, <3>1
    <3>2. CASE i # 0
      <4>1. i \in 1 .. N /\ i - 1 \in 0 .. N
        BY <1>1, <3>2
      <4>2. result[i] = Result(TRUE, at(i), f[i]) /\ result[i - 1] = Result(TRUE, at(i - 1), f[i - 1])
        BY <4>1
      <4> QED
        BY <1>7, <3>2, <4>1, <4>2
    <3> QED
      BY <3>1, <3>2
  <2> QED
    BY <1>3, <2>1
<1>10. read = Next0(read)
  <2> HIDE DEF Next0, result
  <2> QED
    BY <1>9
<1> HIDE DEF read
<1>11. \A i \in 0 .. N : read[i] = IF i = 0 THEN start ELSE more(read[i - 1])
  BY <1>3, <1>10
<1> HIDE DEF Next0
<1>12. read[N] = Result(TRUE, at(N), f[N])
  <2> DEFINE w == result
  <2>1. read[0] = start /\ \A i \in 1 .. N : read[i] = more(read[i - 1])
    <3>1. 0 \in 0 .. N /\ \A i \in 1 .. N : i \in 0 .. N /\ i # 0
      BY <1>1
    <3> QED
      BY <1>11, <3>1
  <2>2. w[0] = start /\ \A i \in 1 .. N : w[i] = more(w[i - 1])
    <3>1. 0 \in 0 .. N /\ \A i \in 1 .. N : i \in 0 .. N /\ i - 1 \in 0 .. N
      BY <1>1
    <3>2. \A i \in 0 .. N : w[i] = Result(TRUE, at(i), f[i])
      OBVIOUS
    <3> HIDE DEF w
    <3> QED
      BY <1>7, <1>8, <3>1, <3>2
  <2>3. w[N] = Result(TRUE, at(N), f[N])
    BY <1>1
  <2> HIDE DEF w, N
  <2>4. read[N] = w[N]
    BY <1>1, <2>1, <2>2, SameEnd
  <2> QED
    BY <2>3, <2>4
<1>13. OrNull(Result(TRUE, at(N), f[N])) = f[N]
  BY DEF OrNull, Result
<1>14. onHypervisorMessage(buf) = f[N]
  BY <1>3, <1>4, <1>12, <1>13
<1> QED
  BY <1>5, <1>14 DEF buf, size

\* An answer that fits is read as what it conveys; it does not when it is longer
\* than its buffer, and only then.
LEMMA AnswerConveys ==
  ASSUME NEW pairs, NEW v, NEW size, Conveys(pairs, v, size), Len(pairs) <= 7, NEW room \in Nat
  PROVE  /\ Answer(room, pairs) # Null =>
              Answer(room, pairs) \in Seq(Byte) /\ onHypervisorMessage(Answer(room, pairs)) = v
         /\ Answer(room, pairs) = Null => size + 1 > room
<1> DEFINE n == 2 * Len(pairs)
           bytes == MapBytes(n, pairs)
           w == Write(<<>>, room, MapOf(n, pairs))
<1>1. pairs \in Pairs /\ AllWritable(pairs) /\ size \in Nat /\ Len(FlattenSeq(BytesOf(pairs))) = size
  BY DEF Conveys
<1>2. PICK f : Steps(pairs, f, v)
  BY DEF Conveys
<1>3. Len(pairs) \in Nat
  BY <1>1 DEF Pairs
<1>4. n \in 0 .. 15 /\ n \in Nat
  BY <1>3, SMTT(40)
<1>5. LengthFits(n, 4)
  <2>1. n \in 0 .. 255
    BY <1>4
  <2> QED
    BY <2>1, SmallFits
<1>6. onHypervisorMessage(bytes) = v
  BY <1>1, <1>2, <1>5, AnswerRead
<1> HIDE DEF n
<1>7. Whole(MapOf(n, pairs)) /\ FlattenSeq(MapOf(n, pairs)) = bytes /\ bytes \in Seq(Byte)
  BY <1>1, <1>5, MapWritten
<1>8. (w.ok <=> Len(bytes) <= room) /\ (w.ok => w.out = bytes)
  BY <1>7, WholeWritten
<1>9. Len(bytes) = size + 1
  <2> DEFINE h == Header(MapType(n), n)
             b == FlattenSeq(BytesOf(pairs))
  <2>1. h \in Seq(Byte) /\ Len(h) = 1
    BY <1>4, <1>5, MapHeader, MapHeaderLength
  <2>2. b \in Seq(Byte)
    <3>1. BytesOf(pairs) \in Seq(Seq(Byte))
      BY <1>1, BytesOfPairs
    <3> QED
      BY <3>1, FlattenType
  <2>3. bytes = h \o b
    BY DEF MapBytes
  <2>4. Len(b) = size
    BY <1>1
  <2> HIDE DEF h, b, bytes
  <2>5. Len(h \o b) = Len(h) + Len(b)
    <3>1. h \in Seq(Byte)
      BY <2>1
    <3> QED
      BY <2>2, <3>1
  <2> QED
    BY <1>1, <2>1, <2>3, <2>4, <2>5
<1>10. Answer(room, pairs) = IF w.ok THEN w.out ELSE Null
  BY DEF Answer, Written, n
<1>11. Null \notin Seq(Byte)
  BY NullAssumption
<1> HIDE DEF bytes, w
<1>12. CASE w.ok
  <2>1. Answer(room, pairs) = bytes
    BY <1>8, <1>10, <1>12
  <2> QED
    BY <1>6, <1>7, <1>11, <2>1
<1>13. CASE ~w.ok
  <2>1. Answer(room, pairs) = Null
    BY <1>10, <1>13
  <2>2. ~(size + 1 <= room)
    BY <1>8, <1>9, <1>13
  <2>3. size + 1 > room
    BY <1>1, <2>2
  <2> QED
    BY <2>1, <2>3
<1> QED
  BY <1>12, <1>13

-----------------------------------------------------------------------------
(* The answers *)

\* The strings that the hypervisor writes of its own.
Short == {s \in String : Len(s) <= 31}

LEMMA ShortIs ==
  ASSUME NEW s \in Short
  PROVE  /\ s \in Words /\ s \in Seq(Byte) /\ Writable(s) /\ CString(s) = s /\ Len(s) \in Nat /\ Len(s) <= 31
         /\ Len(StringBytes(s)) = Len(s) + 1
<1>1. s \in String /\ Len(s) <= 31 /\ s \in Seq(Byte) /\ CString(s) = s
  BY StringIsBytes DEF Short
<1>2. Len(s) \in Nat
  BY <1>1
<1>3. LengthFits(Len(s), 4)
  <2>1. \A l \in Nat : l <= 31 => l \in 0 .. 255
    BY SMT
  <2> QED
    BY <1>1, <1>2, <2>1, SmallFits
<1>4. Writable(s)
  BY <1>1, <1>3 DEF Writable
<1>5. Len(StringBytes(s)) = Len(s) + 1
  BY <1>1, <1>4, StringLength
<1> QED
  BY <1>1, <1>2, <1>3, <1>4, <1>5 DEF Words

LEMMA ShortString ==
  ASSUME NEW s, s \in String, NEW l \in Nat, Len(s) = l, l <= 31
  PROVE  s \in Short
<1>1. Len(s) <= 31
  OBVIOUS
<1> QED
  BY <1>1, Zenon DEF Short

\* What is made of five places is a sequence of five.
LEMMA TupleIsSeq ==
  ASSUME NEW n \in Nat, NEW X, NEW f \in [1 .. n -> X]
  PROVE  f \in Seq(X) /\ Len(f) = n
OBVIOUS

LEMMA ShortLiterals ==
  ASSUME NEW S, S = 1 .. 255, NEW a \in S, NEW b \in S
  PROVE  /\ <<a>> \in Short /\ Len(<<a>>) = 1
         /\ <<a, b>> \in Short /\ Len(<<a, b>>) = 2
<1>1. <<a>> \in Seq(S) /\ <<a, b>> \in Seq(S) /\ Len(<<a>>) = 1 /\ Len(<<a, b>>) = 2
  OBVIOUS
<1> QED
  <2>1. <<a>> \in String /\ <<a, b>> \in String
    BY <1>1 DEF String
  <2> DEFINE one == <<a>>
             two == <<a, b>>
  <2>2. one \in String /\ two \in String /\ Len(one) = 1 /\ Len(two) = 2
    BY <1>1, <2>1
  <2> HIDE DEF one, two
  <2>3. one \in Short /\ two \in Short
    <3>1. 1 \in Nat /\ 2 \in Nat /\ 1 <= 31 /\ 2 <= 31
      BY SMT
    <3> QED
      BY <2>2, <3>1, ShortString
  <2> QED
    BY <1>1, <2>3 DEF one, two

LEMMA Literals ==
  /\ <<97>> \in Short /\ <<114>> \in Short /\ <<99>> \in Short /\ <<115>> \in Short /\ <<112>> \in Short
  /\ TextKey \in Short /\ Len(TextKey) = 1
  /\ \A name \in DOMAIN AnswerActionKeys : AnswerActionKeys[name] \in Short /\ Len(AnswerActionKeys[name]) = 1
  /\ <<114, 101>> \in Short /\ <<114, 117>> \in Short /\ <<45, 49>> \in Short
  /\ Len(<<114, 101>>) = 2 /\ Len(<<114, 117>>) = 2 /\ Len(<<45, 49>>) = 2
  /\ Len(<<97>>) = 1 /\ Len(<<114>>) = 1 /\ Len(<<99>>) = 1 /\ Len(<<115>>) = 1 /\ Len(<<112>>) = 1
<1> DEFINE S == 1 .. 255
<1>1. /\ 97 \in S /\ 99 \in S /\ 100 \in S /\ 101 \in S /\ 107 \in S /\ 111 \in S /\ 112 \in S /\ 114 \in S
      /\ 115 \in S /\ 116 \in S /\ 117 \in S /\ 45 \in S /\ 49 \in S
  BY SMT
<1>2. \A a, b \in S : <<a>> \in Short /\ Len(<<a>>) = 1 /\ <<a, b>> \in Short /\ Len(<<a, b>>) = 2
  BY ShortLiterals, ZenonT(60)
<1> DEFINE letters == {97, 99, 100, 107, 111, 112, 115}
<1>3. \A m \in DOMAIN AnswerActionKeys : \E c \in letters : AnswerActionKeys[m] = <<c>>
  BY DEF AnswerActionKeys
<1> HIDE DEF S
<1>4. \A c \in letters : c \in S
  BY <1>1
<1> HIDE DEF letters
<1>5. \A name \in DOMAIN AnswerActionKeys : AnswerActionKeys[name] \in Short /\ Len(AnswerActionKeys[name]) = 1
  BY <1>2, <1>3, <1>4
<1> QED
  BY <1>1, <1>2, <1>5, ZenonT(60) DEF TextKey

LEMMA LiteralValues ==
  /\ Done \in Short /\ Len(Done) = 4 /\ Error \in Short /\ Len(Error) = 5
  /\ \A flag \in BOOLEAN : Text(flag) \in Short /\ Len(Text(flag)) <= 5
<1> DEFINE S == 1 .. 255
<1>1. /\ 100 \in S /\ 111 \in S /\ 110 \in S /\ 101 \in S /\ 114 \in S /\ 116 \in S /\ 117 \in S
      /\ 102 \in S /\ 97 \in S /\ 108 \in S /\ 115 \in S
  BY SMT
<1>5. Seq(S) = String
  BY DEF String
<1> HIDE DEF S
<1>2. Done \in Seq(S) /\ Len(Done) = 4
  BY <1>1 DEF Done
<1>3. Error \in Seq(S) /\ Len(Error) = 5
  BY <1>1 DEF Error
<1>4. \A flag \in BOOLEAN : Text(flag) \in Seq(S) /\ Len(Text(flag)) \in {4, 5}
  <2>1. /\ <<116, 114, 117, 101>> \in Seq(S) /\ Len(<<116, 114, 117, 101>>) = 4
        /\ <<102, 97, 108, 115, 101>> \in Seq(S) /\ Len(<<102, 97, 108, 115, 101>>) = 5
    BY <1>1
  <2> QED
    BY <2>1 DEF Text
<1>6. 4 \in Nat /\ 5 \in Nat /\ 4 <= 31 /\ 5 <= 31 /\ 4 <= 5 /\ 5 <= 5
  BY SMT
<1>7. Done \in Short /\ Error \in Short
  BY <1>2, <1>3, <1>5, <1>6, ShortString
<1>8. ASSUME NEW flag \in BOOLEAN PROVE Text(flag) \in Short /\ Len(Text(flag)) <= 5
  <2>1. Text(flag) \in String /\ (Len(Text(flag)) = 4 \/ Len(Text(flag)) = 5)
    BY <1>4, <1>5
  <2> DEFINE d == Text(flag)
  <2> HIDE DEF d
  <2>2. d \in String /\ (Len(d) = 4 \/ Len(d) = 5)
    BY <2>1 DEF d
  <2>3. d \in Short
    BY <1>6, <2>2, ShortString
  <2>4. Len(d) <= 5
    BY <1>6, <2>2
  <2> QED
    BY <2>3, <2>4 DEF d
<1> QED
  BY <1>2, <1>3, <1>7, <1>8

LEMMA ShortDigits ==
  ASSUME NEW d, d \in String, Len(d) = 1 \/ Len(d) = 2 \/ Len(d) = 3
  PROVE  d \in Short /\ Len(d) <= 3
<1>1. 1 \in Nat /\ 2 \in Nat /\ 3 \in Nat /\ 1 <= 31 /\ 2 <= 31 /\ 3 <= 31 /\ 1 <= 3 /\ 2 <= 3 /\ 3 <= 3
  BY SMT
<1>2. d \in Short
  BY <1>1, ShortString
<1>3. Len(d) <= 3
  BY <1>1
<1> QED
  BY <1>2, <1>3

LEMMA DigitsIs ==
  ASSUME NEW i \in 0 .. 255
  PROVE  Digits(i) \in Short /\ Len(Digits(i)) <= 3
<1> DEFINE S == 1 .. 255
           d == Digits(i)
<1>4. Seq(S) = String
  BY DEF String
<1>1. CASE i < 10
  <2> DEFINE a == 48 + i
  <2>1. a \in S
    BY <1>1, SMT
  <2>2. Digits(i) = <<a>>
    BY <1>1 DEF Digits
  <2> HIDE DEF S, a
  <2>3. d \in Seq(S) /\ Len(d) = 1
    BY <2>1, <2>2
  <2> QED
    BY <1>4, <2>3, ShortDigits
<1>2. CASE ~(i < 10) /\ i < 100
  <2> DEFINE a == 48 + i \div 10
             b == 48 + (i % 10)
  <2>1. a \in S /\ b \in S
    BY <1>2, SMT
  <2>2. Digits(i) = <<a, b>>
    BY <1>2 DEF Digits
  <2> HIDE DEF S, a, b
  <2>3. d \in Seq(S) /\ Len(d) = 2
    BY <2>1, <2>2
  <2> QED
    BY <1>4, <2>3, ShortDigits
<1>3. CASE ~(i < 10) /\ ~(i < 100)
  <2> DEFINE a == 48 + i \div 100
             b == 48 + ((i \div 10) % 10)
             c == 48 + (i % 10)
  <2>1. a \in S /\ b \in S /\ c \in S
    BY <1>3, SMT
  <2>2. Digits(i) = <<a, b, c>>
    BY <1>3 DEF Digits
  <2> HIDE DEF S, a, b, c
  <2>3. d \in Seq(S) /\ Len(d) = 3
    BY <2>1, <2>2
  <2> QED
    BY <1>4, <2>3, ShortDigits
<1> QED
  BY <1>1, <1>2, <1>3

\* The server takes the bytes after the key of a request for none of it.
LEMMA RequestKeyIs ==
  ASSUME NEW after \in AfterLiteral
  PROVE  /\ RequestKey(after) \in Seq(Byte) /\ Len(RequestKey(after)) = 7
         /\ CString(RequestKey(after)) = <<114>>
<1> DEFINE key == RequestKey(after)
           lead == <<114, 0>>
<1>1. after \in [1 .. 5 -> Byte]
  BY AfterLiteralAssumption
<1>2. after \in Seq(Byte) /\ Len(after) = 5
  <2>1. 5 \in Nat
    BY SMT
  <2> QED
    BY <1>1, <2>1, TupleIsSeq, Zenon
<1>3. 114 \in Byte /\ 0 \in Byte /\ 114 # 0
  BY SMT DEF Byte
<1>4. lead \in Seq(Byte) /\ Len(lead) = 2 /\ lead[1] = 114 /\ lead[2] = 0
  BY <1>3
<1>5. key = lead \o after
  BY DEF RequestKey
<1> HIDE DEF key, lead
<1>6. key \in Seq(Byte) /\ Len(key) = 7 /\ key[1] = 114 /\ key[2] = 0
  <2>1. lead \in Seq(Byte) /\ after \in Seq(Byte)
    BY <1>2, <1>4
  <2>2. key \in Seq(Byte) /\ Len(key) = Len(lead) + Len(after) /\ \A i \in 1 .. Len(lead) : key[i] = lead[i]
    BY <1>5, <2>1
  <2> QED
    BY <1>2, <1>4, <2>2
<1>7. CString(key) = SubSeq(key, 1, 1)
  <2>1. 2 \in 1 .. Len(key) /\ \A i \in 1 .. 2 - 1 : key[i] # 0
    BY <1>3, <1>6
  <2>2. 2 - 1 = 1
    OBVIOUS
  <2> QED
    <3>1. key \in Seq(Byte) /\ key[2] = 0
      BY <1>6
    <3>2. CString(key) = SubSeq(key, 1, 2 - 1)
      BY <2>1, <3>1, CutString, Zenon
    <3> QED
      BY <2>2, <3>2
<1>8. SubSeq(key, 1, 1) = <<114>>
  <2> DEFINE one == SubSeq(key, 1, 1)
  <2>1. one \in Seq(Byte) /\ Len(one) = 1 /\ one[1] = key[1]
    BY <1>6
  <2> HIDE DEF one
  <2>2. one = <<114>>
    BY <1>6, <2>1
  <2> QED
    BY <2>2 DEF one
<1> QED
  BY <1>6, <1>7, <1>8 DEF key

LEMMA AppendIs ==
  ASSUME NEW X, NEW s \in Seq(X), NEW e \in X
  PROVE  /\ Append(s, e) \in Seq(X)
         /\ Len(Append(s, e)) = Len(s) + 1
         /\ \A i \in 1 .. Len(s) : Append(s, e)[i] = s[i]
         /\ Append(s, e)[Len(s) + 1] = e
BY AppendProperties

LEMMA Appends ==
  ASSUME NEW X, NEW a \in X, NEW b \in X, NEW c \in X, NEW d \in X, NEW f \in X
  PROVE  /\ Append(<<a>>, b) = <<a, b>> /\ Append(<<a, b>>, c) = <<a, b, c>>
         /\ Append(<<a, b, c>>, d) = <<a, b, c, d>> /\ Append(<<a, b, c, d>>, f) = <<a, b, c, d, f>>
         /\ Len(<<a, b>>) = 2 /\ Len(<<a, b, c>>) = 3 /\ Len(<<a, b, c, d>>) = 4 /\ Len(<<a, b, c, d, f>>) = 5
<1>1. Append(<<a>>, b) = <<a, b>>
  <2> DEFINE s == <<a>>
             u == Append(s, b)
  <2>1. s \in Seq(X) /\ Len(s) = 1 /\ s[1] = a
    OBVIOUS
  <2> HIDE DEF s
  <2>2. u \in Seq(X) /\ Len(u) = 2 /\ u[1] = a /\ u[2] = b
    <3>1. s \in Seq(X)
      BY <2>1
    <3>2. u \in Seq(X) /\ Len(u) = Len(s) + 1 /\ (\A i \in 1 .. Len(s) : u[i] = s[i]) /\ u[Len(s) + 1] = b
      BY <3>1, AppendIs
    <3> HIDE DEF u
    <3> QED
      BY <2>1, <3>2
  <2> HIDE DEF u
  <2>3. u = <<a, b>>
    BY <2>2
  <2> QED
    BY <2>3 DEF u, s
<1>2. Append(<<a, b>>, c) = <<a, b, c>>
  <2> DEFINE s == <<a, b>>
             u == Append(s, c)
  <2>1. s \in Seq(X) /\ Len(s) = 2 /\ s[1] = a /\ s[2] = b
    OBVIOUS
  <2> HIDE DEF s
  <2>2. u \in Seq(X) /\ Len(u) = 3 /\ u[1] = a /\ u[2] = b /\ u[3] = c
    <3>1. s \in Seq(X)
      BY <2>1
    <3>2. u \in Seq(X) /\ Len(u) = Len(s) + 1 /\ (\A i \in 1 .. Len(s) : u[i] = s[i]) /\ u[Len(s) + 1] = c
      BY <3>1, AppendIs
    <3> HIDE DEF u
    <3> QED
      BY <2>1, <3>2
  <2> HIDE DEF u
  <2>3. u = <<a, b, c>>
    BY <2>2
  <2> QED
    BY <2>3 DEF u, s
<1>3. Append(<<a, b, c>>, d) = <<a, b, c, d>>
  <2> DEFINE s == <<a, b, c>>
             u == Append(s, d)
  <2>1. s \in Seq(X) /\ Len(s) = 3 /\ s[1] = a /\ s[2] = b /\ s[3] = c
    OBVIOUS
  <2> HIDE DEF s
  <2>2. u \in Seq(X) /\ Len(u) = 4 /\ u[1] = a /\ u[2] = b /\ u[3] = c /\ u[4] = d
    <3>1. s \in Seq(X)
      BY <2>1
    <3>2. u \in Seq(X) /\ Len(u) = Len(s) + 1 /\ (\A i \in 1 .. Len(s) : u[i] = s[i]) /\ u[Len(s) + 1] = d
      BY <3>1, AppendIs
    <3> HIDE DEF u
    <3> QED
      BY <2>1, <3>2
  <2> HIDE DEF u
  <2>3. u = <<a, b, c, d>>
    BY <2>2
  <2> QED
    BY <2>3 DEF u, s
<1>4. Append(<<a, b, c, d>>, f) = <<a, b, c, d, f>>
  <2> DEFINE s == <<a, b, c, d>>
             u == Append(s, f)
  <2>1. s \in Seq(X) /\ Len(s) = 4 /\ s[1] = a /\ s[2] = b /\ s[3] = c /\ s[4] = d
    OBVIOUS
  <2> HIDE DEF s
  <2>2. u \in Seq(X) /\ Len(u) = 5 /\ u[1] = a /\ u[2] = b /\ u[3] = c /\ u[4] = d /\ u[5] = f
    <3>1. s \in Seq(X)
      BY <2>1
    <3>2. u \in Seq(X) /\ Len(u) = Len(s) + 1 /\ (\A i \in 1 .. Len(s) : u[i] = s[i]) /\ u[Len(s) + 1] = f
      BY <3>1, AppendIs
    <3> HIDE DEF u
    <3> QED
      BY <2>1, <3>2
  <2> HIDE DEF u
  <2>3. u = <<a, b, c, d, f>>
    BY <2>2
  <2> QED
    BY <2>3 DEF u, s
<1>5. Len(<<a, b>>) = 2 /\ Len(<<a, b, c>>) = 3 /\ Len(<<a, b, c, d>>) = 4 /\ Len(<<a, b, c, d, f>>) = 5
  OBVIOUS
<1> QED
  BY <1>1, <1>2, <1>3, <1>4, <1>5

\* The first two pairs of every answer: what it is about, and its request.
LEMMA HeadingConveys ==
  ASSUME NEW name \in DOMAIN AnswerActionKeys, NEW key, Writable(key), CString(key) = << 114 >>, NEW r \in Words
  PROVE  Conveys(<< <<<<97>>, AnswerActionKeys[name]>>, <<key, r>> >>,
                 StanzaOf(name, Null, [NoAttrs EXCEPT !["request"] = r]),
                 4 + (Len(StringBytes(key)) + Len(StringBytes(r))))
<1> DEFINE a == <<97>>
           act == AnswerActionKeys[name]
           first == <<a, act>>
           second == <<key, r>>
           v1 == StanzaOf(name, Null, NoAttrs)
           v2 == StanzaOf(name, Null, [NoAttrs EXCEPT !["request"] = r])
           more == Len(StringBytes(key)) + Len(StringBytes(r))
<1>1. Reads(NoStanza, first, v1)
  BY ReadsAction DEF NoStanza
<1>2. Reads(v1, second, v2)
  <2>1. AnswerKeys["request"] = <<114>> /\ "request" \in DOMAIN AnswerKeys \ {"action"}
    BY DEF AnswerKeys
  <2>2. r \in String
    BY WordIs
  <2> DEFINE k == "request"
  <2>3. k \in DOMAIN AnswerKeys \ {"action"} /\ CString(key) = AnswerKeys[k]
    BY <2>1
  <2> HIDE DEF k
  <2>4. Reads(StanzaOf(name, Null, NoAttrs), <<key, r>>, StanzaOf(name, Null, [NoAttrs EXCEPT ![k] = r]))
    BY <2>2, <2>3, ReadsAttribute
  <2> QED
    BY <2>4 DEF k
<1>3. a \in Short /\ act \in Short /\ Len(a) = 1 /\ Len(act) = 1
  BY Literals
<1>4. Writable(a) /\ Writable(act) /\ Writable(key) /\ Writable(r)
  <2> HIDE DEF a, act
  <2> QED
    BY <1>3, ShortIs, WordIs
<1>5. Len(StringBytes(a)) = 2 /\ Len(StringBytes(act)) = 2
  <2> HIDE DEF a, act
  <2>1. Len(StringBytes(a)) = Len(a) + 1 /\ Len(StringBytes(act)) = Len(act) + 1
    BY <1>3, ShortIs
  <2>2. 1 + 1 = 2
    OBVIOUS
  <2> QED
    BY <1>3, <2>1, <2>2
<1>6. first \in Seq(Byte) \X Seq(Byte) /\ first[1] = a /\ first[2] = act
      /\ second \in Seq(Byte) \X Seq(Byte) /\ second[1] = key /\ second[2] = r
  <2> HIDE DEF a, act
  <2> QED
    BY <1>4 DEF Writable
<1> HIDE DEF a, act, first, second, v1, v2
<1>7. Conveys(Append(<<>>, first), v1, 4)
  <2>1. Conveys(Append(<<>>, first), v1, 0 + (Len(StringBytes(first[1])) + Len(StringBytes(first[2]))))
    BY <1>1, <1>4, <1>6, ConveysNothing, ConveysMore
  <2>2. 0 + (2 + 2) = 4
    OBVIOUS
  <2> QED
    BY <1>5, <1>6, <2>1, <2>2
<1>8. Append(<<>>, first) = <<first>>
  OBVIOUS
<1>9. Conveys(Append(<<first>>, second), v2, 4 + more)
  <2>1. Conveys(<<first>>, v1, 4)
    BY <1>7, <1>8
  <2>2. Conveys(Append(<<first>>, second), v2, 4 + (Len(StringBytes(second[1])) + Len(StringBytes(second[2]))))
    BY <1>2, <1>4, <1>6, <2>1, ConveysMore
  <2> QED
    BY <1>6, <2>2
<1>10. Append(<<first>>, second) = <<first, second>>
  <2> DEFINE X == Seq(Byte) \X Seq(Byte)
  <2> HIDE DEF X
  <2>1. first \in X /\ second \in X
    BY <1>6 DEF X
  <2> QED
    BY <2>1, Appends
<1> QED
  BY <1>9, <1>10 DEF first, second, v2, a, act

\* One more attribute.
LEMMA AttributeConveys ==
  ASSUME NEW pairs, NEW a, NEW t, NEW s, NEW size, Conveys(pairs, StanzaOf(a, t, s), size),
         NEW name \in DOMAIN AnswerKeys \ {"action"}, NEW key \in Short, AnswerKeys[name] = key, NEW val \in Words
  PROVE  Conveys(Append(pairs, <<key, val>>), StanzaOf(a, t, [s EXCEPT ![name] = val]),
                 size + ((Len(key) + 1) + Len(StringBytes(val))))
<1> DEFINE pair == <<key, val>>
           w == StanzaOf(a, t, [s EXCEPT ![name] = val])
<1>1. CString(key) = AnswerKeys[name] /\ Writable(key) /\ Len(StringBytes(key)) = Len(key) + 1
  BY ShortIs
<1>2. Writable(val) /\ val \in String
  BY WordIs
<1>3. Reads(StanzaOf(a, t, s), pair, w)
  BY <1>1, <1>2, ReadsAttribute
<1>4. pair \in Seq(Byte) \X Seq(Byte) /\ pair[1] = key /\ pair[2] = val
  BY <1>1, <1>2 DEF Writable
<1> HIDE DEF pair, w
<1>5. Conveys(Append(pairs, pair), w, size + (Len(StringBytes(pair[1])) + Len(StringBytes(pair[2]))))
  BY <1>1, <1>2, <1>3, <1>4, ConveysMore
<1> QED
  BY <1>1, <1>4, <1>5 DEF pair, w

\* The text of an answer.
LEMMA TextConveys ==
  ASSUME NEW pairs, NEW a, NEW t, NEW s, NEW size, Conveys(pairs, StanzaOf(a, t, s), size),
         NEW text, Writable(text)
  PROVE  Conveys(Append(pairs, <<TextKey, text>>), StanzaOf(a, Base64Of(CString(text)), s),
                 size + (2 + Len(StringBytes(text))))
<1> DEFINE pair == <<TextKey, text>>
           w == StanzaOf(a, Base64Of(CString(text)), s)
<1>1. TextKey \in Short /\ Len(TextKey) = 1
  BY Literals
<1>2. Writable(TextKey) /\ Len(StringBytes(TextKey)) = 2
  <2>1. Writable(TextKey) /\ Len(StringBytes(TextKey)) = Len(TextKey) + 1
    BY <1>1, ShortIs
  <2>2. 1 + 1 = 2
    OBVIOUS
  <2> QED
    BY <1>1, <2>1, <2>2
<1>3. text \in Seq(Byte)
  BY DEF Writable
<1>4. Reads(StanzaOf(a, t, s), pair, w)
  BY <1>3, ReadsText
<1>5. pair \in Seq(Byte) \X Seq(Byte) /\ pair[1] = TextKey /\ pair[2] = text
  BY <1>2, <1>3 DEF Writable
<1> HIDE DEF pair, w
<1>6. Conveys(Append(pairs, pair), w, size + (Len(StringBytes(pair[1])) + Len(StringBytes(pair[2]))))
  BY <1>2, <1>4, <1>5, ConveysMore
<1> QED
  BY <1>2, <1>5, <1>6 DEF pair, w

\* The stanza says what was meant; what was meant is longer than there is room for.
TellsOf(stanza, of) ==
  /\ stanza # Null
  /\ stanza.action = of.fields.action
  /\ \A name \in DOMAIN of.fields \ {"action"} : stanza.attrs[name] = of.fields[name]
  /\ stanza.text = IF of.text = Null THEN Null ELSE Base64Of(CString(of.text))
IsLong(of) ==
  \/ Len(of.fields.request) > 36
  \/ of.fields.shellid # Null /\ Len(of.fields.shellid) > 7
  \/ of.fields.projectid # Null /\ Len(of.fields.projectid) > 64

\* Bytes that the server understands, or no bytes for what is too long.
Answers(bytes, of) ==
  IF bytes = Null THEN IsLong(of) ELSE bytes \in Seq(Byte) /\ TellsOf(onHypervisorMessage(bytes), of)

Attributes == [DOMAIN AnswerKeys -> String \cup {Null}]

LEMMA NoAttributes == NoAttrs \in Attributes
BY DEF NoAttrs, Attributes

LEMMA MoreAttributes ==
  ASSUME NEW s \in Attributes, NEW name \in DOMAIN AnswerKeys, NEW val \in Words
  PROVE  [s EXCEPT ![name] = val] \in Attributes
<1>1. val \in String
  BY WordIs
<1> QED
  BY <1>1 DEF Attributes

\* The pairs say what is meant, in a room that is enough unless it is long.
AnswerFits(pairs, room, of, a, t, s, size) ==
  /\ Len(pairs) <= 7 /\ room \in Nat /\ (~IsLong(of) => size + 1 <= room)
  /\ a \in DOMAIN AnswerActionKeys /\ t \in Seq(Byte) \cup {Null} /\ s \in Attributes
  /\ Conveys(pairs, StanzaOf(a, t, s), size)
  /\ a = of.fields.action /\ t = IF of.text = Null THEN Null ELSE Base64Of(CString(of.text))
  /\ \A name \in DOMAIN of.fields \ {"action"} : s[name] = of.fields[name]

LEMMA Answered ==
  ASSUME NEW pairs, NEW room, NEW of, NEW a, NEW t, NEW s, NEW size, AnswerFits(pairs, room, of, a, t, s, size)
  PROVE  Answers(Answer(room, pairs), of)
<1> DEFINE v == StanzaOf(a, t, s)
           bytes == Answer(room, pairs)
<1> USE DEF AnswerFits
<1>1. v # Null
  <2>1. v \in AnswerStanzas
    BY DEF StanzaOf, AnswerStanzas, Attributes
  <2> HIDE DEF v
  <2> QED
    BY <2>1, NullAssumption
<1>2. TellsOf(v, of)
  <2>1. v.action = a /\ v.text = t /\ v.attrs = s
    BY StanzaParts
  <2> HIDE DEF v
  <2> QED
    BY <1>1, <2>1 DEF TellsOf
<1>3. /\ bytes # Null => bytes \in Seq(Byte) /\ onHypervisorMessage(bytes) = v
      /\ bytes = Null => size + 1 > room
  BY AnswerConveys
<1>4. size \in Nat
  BY DEF Conveys
<1>5. CASE bytes # Null
  <2> HIDE DEF v, bytes
  <2>1. bytes \in Seq(Byte) /\ TellsOf(onHypervisorMessage(bytes), of)
    BY <1>2, <1>3, <1>5
  <2> QED
    BY <1>5, <2>1 DEF Answers, bytes
<1>6. CASE bytes = Null
  <2> HIDE DEF v, bytes
  <2>1. size + 1 > room
    BY <1>3, <1>6
  <2>2. ~(size + 1 <= room)
    BY <1>4, <2>1
  <2>3. IsLong(of)
    BY <2>2
  <2> QED
    BY <1>6, <2>3 DEF Answers, bytes
<1> QED
  BY <1>5, <1>6

\* What is meant, field by field.
Means(of, action, request, others, text) ==
  /\ DOMAIN of.fields = DOMAIN AnswerKeys /\ of.text = text
  /\ of.fields.action = action /\ of.fields.request = request
  /\ \A name \in DOMAIN AnswerKeys \ {"action", "request"} :
       of.fields[name] = IF name \in DOMAIN others THEN others[name] ELSE Null

LEMMA MeaningIs ==
  ASSUME NEW action, NEW request, NEW others, NEW text, "action" \notin DOMAIN others, "request" \notin DOMAIN others
  PROVE  Means([fields |-> Meaning(action, request, others), text |-> text], action, request, others, text)
<1> DEFINE m == Meaning(action, request, others)
<1> DEFINE of == [fields |-> m, text |-> text]
<1>1. of.fields = m /\ of.text = text
  OBVIOUS
<1>2. "action" \in DOMAIN AnswerKeys /\ "request" \in DOMAIN AnswerKeys
  BY DEF AnswerKeys
<1>3. DOMAIN m = DOMAIN AnswerKeys /\ m.action = action /\ m.request = request
  <2>1. DOMAIN m = DOMAIN AnswerKeys
    BY DEF Meaning
  <2> DEFINE field(name) == CASE name = "action" -> action
                              [] name = "request" -> request
                              [] name \in DOMAIN others -> others[name]
                              [] OTHER -> Null
  <2>2. m = [name \in DOMAIN AnswerKeys |-> field(name)]
    BY DEF Meaning
  <2>3. field("action") = action
    OBVIOUS
  <2>4. field("request") = request
    BY "request" # "action"
  <2> HIDE DEF m, field
  <2>5. m["action"] = field("action") /\ m["request"] = field("request")
    BY <1>2, <2>2
  <2> QED
    BY <2>1, <2>3, <2>4, <2>5
<1>4. \A name \in DOMAIN AnswerKeys \ {"action", "request"} :
        m[name] = IF name \in DOMAIN others THEN others[name] ELSE Null
  BY DEF Meaning
<1> HIDE DEF m, of
<1>5. Means(of, action, request, others, text)
  BY <1>1, <1>3, <1>4 DEF Means
<1> QED
  BY <1>5 DEF m, of

LEMMA WordBytes ==
  ASSUME NEW s \in Words
  PROVE  /\ Len(StringBytes(s)) \in Nat /\ Len(s) \in Nat
         /\ \A n \in Nat : Len(s) <= n /\ n <= 31 => Len(StringBytes(s)) <= n + 1
         /\ \A n \in Nat : Len(s) <= n /\ n <= 255 => Len(StringBytes(s)) <= n + 2
<1>1. Writable(s) /\ Len(s) \in Nat
  BY WordIs
<1>2. /\ Len(StringBytes(s)) \in Nat
      /\ Len(s) <= 255 => Len(StringBytes(s)) <= Len(s) + 2
      /\ Len(s) <= 31 => Len(StringBytes(s)) = Len(s) + 1
  BY <1>1, StringLength
<1> DEFINE l == Len(s)
           b == Len(StringBytes(s))
<1> HIDE DEF l, b
<1>3. l \in Nat /\ b \in Nat /\ (l <= 255 => b <= l + 2) /\ (l <= 31 => b = l + 1)
  BY <1>1, <1>2 DEF l, b
<1>4. /\ \A n \in Nat : l <= n /\ n <= 31 => b <= n + 1
      /\ \A n \in Nat : l <= n /\ n <= 255 => b <= n + 2
  BY <1>3
<1> QED
  BY <1>3, <1>4 DEF l, b

\* What is not long.
LEMMA NotLong ==
  ASSUME NEW of, ~IsLong(of)
  PROVE  /\ of.fields.request \in Words => Len(StringBytes(of.fields.request)) <= 38
         /\ of.fields.shellid \in Words => Len(StringBytes(of.fields.shellid)) <= 8
         /\ of.fields.projectid \in Words => Len(StringBytes(of.fields.projectid)) <= 66
<1>1. 36 \in Nat /\ 7 \in Nat /\ 64 \in Nat /\ 36 <= 255 /\ 7 <= 31 /\ 64 <= 255 /\ 36 + 2 = 38 /\ 7 + 1 = 8 /\ 64 + 2 = 66
  BY SMT
<1>2. ASSUME NEW s \in Words, ~(Len(s) > 36) PROVE Len(StringBytes(s)) <= 38
  <2>1. Len(s) <= 36
    BY <1>2, WordBytes
  <2>2. Len(StringBytes(s)) <= 36 + 2
    BY <1>1, <2>1, WordBytes, Zenon
  <2> QED
    BY <1>1, <2>2
<1>3. ASSUME NEW s \in Words, ~(Len(s) > 7) PROVE Len(StringBytes(s)) <= 8
  <2>1. Len(s) <= 7
    BY <1>3, WordBytes
  <2>2. Len(StringBytes(s)) <= 7 + 1
    BY <1>1, <2>1, WordBytes, Zenon
  <2> QED
    BY <1>1, <2>2
<1>4. ASSUME NEW s \in Words, ~(Len(s) > 64) PROVE Len(StringBytes(s)) <= 66
  <2>1. Len(s) <= 64
    BY <1>4, WordBytes
  <2>2. Len(StringBytes(s)) <= 64 + 2
    BY <1>1, <2>1, WordBytes, Zenon
  <2> QED
    BY <1>1, <2>2
<1>5. \A s \in Words : s # Null
  BY WordIs
<1> QED
  BY <1>2, <1>3, <1>4, <1>5 DEF IsLong

\* The heading of an answer with a key of one letter.
LEMMA HeadingIs ==
  ASSUME NEW name \in DOMAIN AnswerActionKeys, NEW key, key = AnswerActionKeys[name], NEW r \in Words
  PROVE  /\ Heading(key, r) = << <<<<97>>, key>>, <<<<114>>, r>> >>
         /\ Conveys(Heading(key, r), StanzaOf(name, Null, [NoAttrs EXCEPT !["request"] = r]),
                    6 + Len(StringBytes(r)))
<1> DEFINE letter == <<114>>
<1>1. letter \in Short /\ Len(letter) = 1
  BY Literals
<1>2. Heading(key, r) = << <<<<97>>, key>>, <<letter, r>> >>
  BY DEF Heading
<1>3. CString(letter) = <<114>>
  <2>1. CString(letter) = letter
    <3> HIDE DEF letter
    <3> QED
      BY <1>1, ShortIs
  <2> QED
    BY <2>1
<1> HIDE DEF letter
<1>4. Writable(letter) /\ Len(StringBytes(letter)) = 2
  <2>1. Writable(letter) /\ Len(StringBytes(letter)) = Len(letter) + 1
    BY <1>1, ShortIs
  <2>2. 1 + 1 = 2
    OBVIOUS
  <2> QED
    BY <1>1, <2>1, <2>2
<1>5. Conveys(<< <<<<97>>, key>>, <<letter, r>> >>, StanzaOf(name, Null, [NoAttrs EXCEPT !["request"] = r]),
              4 + (Len(StringBytes(letter)) + Len(StringBytes(r))))
  BY <1>3, <1>4, HeadingConveys
<1>6. 4 + (Len(StringBytes(letter)) + Len(StringBytes(r))) = 6 + Len(StringBytes(r))
  <2>1. Len(StringBytes(r)) \in Nat
    BY WordBytes
  <2> DEFINE l == Len(StringBytes(r))
  <2> HIDE DEF l
  <2>2. 4 + (2 + l) = 6 + l
    BY <2>1 DEF l
  <2> QED
    BY <1>4, <2>2 DEF l
<1> QED
  BY <1>2, <1>5, <1>6 DEF letter

LEMMA HeadJoins ==
  ASSUME NEW X, NEW h \in Seq(X), NEW x \in X, NEW y \in X, NEW z \in X
  PROVE  /\ h \o <<x>> = Append(h, x)
         /\ h \o <<x, y>> = Append(Append(h, x), y)
         /\ h \o <<x, y, z>> = Append(Append(Append(h, x), y), z)
         /\ Append(h, x) \in Seq(X) /\ Append(Append(h, x), y) \in Seq(X)
         /\ Len(Append(h, x)) = Len(h) + 1 /\ Len(Append(Append(h, x), y)) = Len(h) + 2
         /\ Len(Append(Append(Append(h, x), y), z)) = Len(h) + 3
<1> DEFINE a == Append(h, x)
           b == Append(a, y)
           c == Append(b, z)
           n == Len(h)
<1>1. a \in Seq(X) /\ Len(a) = n + 1 /\ a = h \o <<x>>
  BY AppendIs, AppendIsConcat
<1>2. b \in Seq(X) /\ Len(b) = Len(a) + 1 /\ b = a \o <<y>>
  <2>1. a \in Seq(X)
    BY <1>1
  <2> HIDE DEF a
  <2> QED
    BY <2>1, AppendIs, AppendIsConcat
<1>3. c \in Seq(X) /\ Len(c) = Len(b) + 1 /\ c = b \o <<z>>
  <2>1. b \in Seq(X)
    BY <1>2
  <2> HIDE DEF b
  <2> QED
    BY <2>1, AppendIs, AppendIsConcat
<1> DEFINE p == <<x>>
           q == <<y>>
           r == <<z>>
           s == <<y, z>>
           t == <<x, y>>
<1>4. p \in Seq(X) /\ q \in Seq(X) /\ r \in Seq(X)
  OBVIOUS
<1>5. Append(p, y) = <<x, y>> /\ Append(q, z) = <<y, z>> /\ Append(t, z) = <<x, y, z>>
  BY Appends, ZenonT(60)
<1>6. t \in Seq(X)
  OBVIOUS
<1>7. n \in Nat
  OBVIOUS
<1>8. h \o t = b
  <2> HIDE DEF a, b, p, q
  <2>1. t = p \o q
    BY <1>4, <1>5, AppendIsConcat DEF q
  <2> HIDE DEF t
  <2>2. h \o (p \o q) = (h \o p) \o q
    BY <1>4, ConcatAssociative
  <2>3. a = h \o p /\ b = a \o q
    BY <1>1, <1>2 DEF p, q
  <2> QED
    BY <2>1, <2>2, <2>3
<1>9. h \o <<x, y, z>> = c
  <2> HIDE DEF a, b, c, r, t
  <2>1. <<x, y, z>> = t \o r
    BY <1>5, <1>6, AppendIsConcat DEF r
  <2>2. h \o (t \o r) = (h \o t) \o r
    <3>1. r \in Seq(X)
      BY <1>4
    <3> QED
      BY <1>6, <3>1, ConcatAssociative, SMTT(40)
  <2>3. c = b \o r
    BY <1>3 DEF r
  <2> QED
    BY <1>8, <2>1, <2>2, <2>3
<1> HIDE DEF a, b, c, n
<1>10. Len(b) = n + 2 /\ Len(c) = n + 3
  BY <1>1, <1>2, <1>3, <1>7
<1> QED
  BY <1>1, <1>2, <1>3, <1>8, <1>9, <1>10 DEF a, b, c, n, t

\* A pair of a key and a value.
LEMMA ShortPair ==
  ASSUME NEW key \in Short, NEW val \in Words
  PROVE  <<key, val>> \in Seq(Byte) \X Seq(Byte)
<1>1. key \in Seq(Byte) /\ val \in Seq(Byte)
  BY ShortIs, WordIs
<1> QED
  BY <1>1

\* The owner is told that a shell could not be opened.
LEMMA FailureAnswered ==
  ASSUME NEW r \in Words, NEW id, NEW running
  PROVE  Answers(OpenAnswer(r, FALSE, id, running),
                 [fields |-> Meaning("open", r, [response |-> Error]), text |-> Null])
<1> DEFINE others == [response |-> Error]
           of == [fields |-> Meaning("open", r, others), text |-> Null]
           h == Heading(<<111>>, r)
           R == Len(StringBytes(r))
           key == <<114, 101>>
           p == <<key, Error>>
           s1 == [NoAttrs EXCEPT !["request"] = r]
           s2 == [s1 EXCEPT !["response"] = Error]
           E == Len(StringBytes(Error))
           size == (6 + R) + (3 + E)
           X == Seq(Byte) \X Seq(Byte)
<1>1. OpenAnswer(r, FALSE, id, running) = Answer(256, h \o <<p>>)
  BY DEF OpenAnswer
<1>2. /\ DOMAIN of.fields = DOMAIN AnswerKeys /\ of.text = Null /\ of.fields.action = "open" /\ of.fields.request = r
      /\ \A name \in DOMAIN AnswerKeys \ {"action", "request"} :
           of.fields[name] = IF name = "response" THEN Error ELSE Null
  <2>1. DOMAIN others = {"response"} /\ others["response"] = Error
    OBVIOUS
  <2>2. "action" \notin DOMAIN others /\ "request" \notin DOMAIN others
    BY <2>1
  <2> HIDE DEF others
  <2>3. Means(of, "open", r, others, Null)
    BY <2>2, MeaningIs
  <2> HIDE DEF of
  <2> QED
    BY <2>1, <2>3 DEF Means
<1>3. "open" \in DOMAIN AnswerActionKeys /\ AnswerActionKeys["open"] = <<111>>
  BY DEF AnswerActionKeys
<1>4. "request" \in DOMAIN AnswerKeys /\ "response" \in DOMAIN AnswerKeys \ {"action"} /\ AnswerKeys["response"] = key
  BY DEF AnswerKeys
<1>5. key \in Short /\ Len(key) = 2 /\ Error \in Words /\ E = 6
  <2>1. Error \in Short /\ Len(Error) = 5
    BY LiteralValues
  <2>2. Error \in Words /\ E = Len(Error) + 1
    BY <2>1, ShortIs
  <2>3. 5 + 1 = 6
    OBVIOUS
  <2> QED
    BY <2>1, <2>2, <2>3, Literals
<1>6. s1 \in Attributes /\ s2 \in Attributes
  <2>1. s1 \in Attributes
    BY <1>4, NoAttributes, MoreAttributes
  <2> HIDE DEF s1
  <2> QED
    BY <1>4, <1>5, <2>1, MoreAttributes
<1>7. \A name \in DOMAIN AnswerKeys \ {"action"} :
        s2[name] = IF name = "request" THEN r ELSE IF name = "response" THEN Error ELSE Null
  BY DEF NoAttrs
<1>8. Conveys(h, StanzaOf("open", Null, s1), 6 + R)
  BY <1>3, HeadingIs
<1>9. h \in Seq(X) /\ Len(h) = 2
  <2>1. h \in Seq(X)
    BY <1>8 DEF Conveys, Pairs
  <2> QED
    BY <2>1 DEF Heading
<1>10. p \in X
  BY <1>5, ShortPair
<1> HIDE DEF of, others, h, key, s1, R, E, X
<1>11. Conveys(Append(h, p), StanzaOf("open", Null, s2), (6 + R) + ((Len(key) + 1) + E))
  BY <1>4, <1>5, <1>8, AttributeConveys DEF E
<1>12. Conveys(Append(h, p), StanzaOf("open", Null, s2), size)
  <2>1. 2 + 1 = 3
    OBVIOUS
  <2> QED
    BY <1>5, <1>11, <2>1
<1>13. h \o <<p>> = Append(h, p) /\ Len(Append(h, p)) = 3
  <2>1. h \in Seq(X)
    BY <1>9
  <2>2. h \o <<p>> = Append(h, p) /\ Len(Append(h, p)) = Len(h) + 1
    BY <1>10, <2>1, HeadJoins
  <2>3. 2 + 1 = 3
    OBVIOUS
  <2> QED
    BY <1>9, <2>2, <2>3
<1>14. ~IsLong(of) => size + 1 <= 256
  <2> SUFFICES ASSUME ~IsLong(of) PROVE size + 1 <= 256
    OBVIOUS
  <2>1. R <= 38 /\ R \in Nat
    BY <1>2, NotLong, WordBytes DEF R
  <2> QED
    BY <1>5, <2>1, SMT
<1>15. \A name \in DOMAIN of.fields \ {"action"} : s2[name] = of.fields[name]
  BY <1>2, <1>7
<1> HIDE DEF s2, size, p
<1> DEFINE pairs == Append(h, p)
<1> HIDE DEF pairs
<1>16. Answers(Answer(256, pairs), of)
  <2>1. 256 \in Nat /\ 3 <= 7
    BY SMT
  <2>2. Len(pairs) <= 7
    BY <1>13, <2>1 DEF pairs
  <2>3. Null = IF of.text = Null THEN Null ELSE Base64Of(CString(of.text))
    BY <1>2
  <2>4. Conveys(pairs, StanzaOf("open", Null, s2), size)
    BY <1>12 DEF pairs
  <2>5. "open" = of.fields.action
    BY <1>2
  <2>6. Null \in Seq(Byte) \cup {Null}
    OBVIOUS
  <2>7. AnswerFits(pairs, 256, of, "open", Null, s2, size)
    BY <1>3, <1>6, <1>14, <1>15, <2>1, <2>2, <2>3, <2>4, <2>5, <2>6 DEF AnswerFits
  <2> QED
    BY <2>7, Answered
<1> QED
  BY <1>1, <1>13, <1>16 DEF of, pairs, others

\* An answer with two attributes after its heading.
TwoMore(r, m, v, n, w) == [[[NoAttrs EXCEPT !["request"] = r] EXCEPT ![m] = v] EXCEPT ![n] = w]
PairSize(key, val) == (Len(key) + 1) + Len(StringBytes(val))

Pair2(key, r, j, v, k, w) == Append(Append(Heading(key, r), <<j, v>>), <<k, w>>)
Size2(r, j, v, k, w) == ((6 + Len(StringBytes(r))) + PairSize(j, v)) + PairSize(k, w)
ConveysTwo(name, key, r, m, j, v, n, k, w) ==
  /\ Conveys(Pair2(key, r, j, v, k, w), StanzaOf(name, Null, TwoMore(r, m, v, n, w)), Size2(r, j, v, k, w))
  /\ Heading(key, r) \o << <<j, v>>, <<k, w>> >> = Pair2(key, r, j, v, k, w)
  /\ Len(Pair2(key, r, j, v, k, w)) = 4
  /\ TwoMore(r, m, v, n, w) \in Attributes

LEMMA TwoConveyed ==
  ASSUME NEW name \in DOMAIN AnswerActionKeys, NEW key, key = AnswerActionKeys[name], NEW r \in Words,
         NEW m \in DOMAIN AnswerKeys \ {"action"}, NEW j \in Short, AnswerKeys[m] = j, NEW v \in Words,
         NEW n \in DOMAIN AnswerKeys \ {"action"}, NEW k \in Short, AnswerKeys[n] = k, NEW w \in Words
  PROVE  ConveysTwo(name, key, r, m, j, v, n, k, w)
<1> DEFINE h == Heading(key, r)
           p == <<j, v>>
           q == <<k, w>>
           a == Append(h, p)
           b == Append(a, q)
           s1 == [NoAttrs EXCEPT !["request"] = r]
           s2 == [s1 EXCEPT ![m] = v]
           s3 == [s2 EXCEPT ![n] = w]
           R == Len(StringBytes(r))
           X == Seq(Byte) \X Seq(Byte)
<1>1. s3 = TwoMore(r, m, v, n, w)
  BY DEF TwoMore
<1>2. s1 \in Attributes
  <2>1. "request" \in DOMAIN AnswerKeys
    BY DEF AnswerKeys
  <2> QED
    BY <2>1, NoAttributes, MoreAttributes
<1>3. Conveys(h, StanzaOf(name, Null, s1), 6 + R)
  BY HeadingIs
<1>4. h \in Seq(X) /\ Len(h) = 2
  <2>1. h \in Seq(X)
    BY <1>3 DEF Conveys, Pairs
  <2> QED
    BY <2>1 DEF Heading
<1> HIDE DEF h, s1, R
<1>5. Conveys(a, StanzaOf(name, Null, s2), (6 + R) + PairSize(j, v))
  BY <1>3, AttributeConveys DEF PairSize
<1>6. s2 \in Attributes
  BY <1>2, MoreAttributes
<1> HIDE DEF a, s2
<1>7. Conveys(b, StanzaOf(name, Null, s3), ((6 + R) + PairSize(j, v)) + PairSize(k, w))
  BY <1>5, AttributeConveys DEF PairSize
<1>8. s3 \in Attributes
  BY <1>6, MoreAttributes
<1>9. p \in X /\ q \in X
  BY ShortPair
<1> HIDE DEF X, s3, p, q
<1>10. h \o <<p, q>> = b /\ Len(b) = 4
  <2>1. h \in Seq(X) /\ p \in X /\ q \in X
    BY <1>4, <1>9
  <2>2. h \o <<p, q>> = b /\ Len(b) = Len(h) + 2
    BY <2>1, HeadJoins DEF a
  <2>3. 2 + 2 = 4
    OBVIOUS
  <2> QED
    BY <1>4, <2>2, <2>3
<1> QED
  BY <1>1, <1>7, <1>8, <1>10 DEF ConveysTwo, Pair2, Size2, h, p, q, a, b, R

\* The size of a pair whose value has so many bytes.
LEMMA PairSizeIs ==
  ASSUME NEW key \in Short, NEW val \in Words
  PROVE  /\ PairSize(key, val) \in Nat
         /\ \A b \in Nat : Len(StringBytes(val)) <= b => PairSize(key, val) <= (Len(key) + 1) + b
<1>1. Len(StringBytes(val)) \in Nat /\ Len(key) \in Nat
  BY WordBytes, ShortIs
<1> DEFINE x == Len(StringBytes(val))
           l == Len(key)
<1> HIDE DEF x, l
<1>2. PairSize(key, val) = (l + 1) + x
  BY DEF PairSize, x, l
<1>3. x \in Nat /\ l \in Nat
  BY <1>1 DEF x, l
<1>4. PairSize(key, val) \in Nat /\ \A b \in Nat : x <= b => PairSize(key, val) <= (l + 1) + b
  BY <1>2, <1>3
<1> QED
  BY <1>4 DEF x, l

\* The owner is told which shell was closed, and with what code.
LEMMA CloseAnswered ==
  ASSUME NEW r \in Words, NEW shellid \in Words, NEW code \in Words, Len(code) <= 7
  PROVE  Answers(CloseAnswer(r, shellid, code),
                 [fields |-> Meaning("close", r, [shellid |-> shellid, code |-> code]), text |-> Null])
<1> DEFINE others == [shellid |-> shellid, code |-> code]
           of == [fields |-> Meaning("close", r, others), text |-> Null]
           h == Heading(<<99>>, r)
           j == <<115>>
           k == <<99>>
           pairs == Append(Append(h, <<j, shellid>>), <<k, code>>)
           s == TwoMore(r, "shellid", shellid, "code", code)
           R == Len(StringBytes(r))
           size == ((6 + R) + PairSize(j, shellid)) + PairSize(k, code)
<1>1. CloseAnswer(r, shellid, code) = Answer(128, h \o << <<j, shellid>>, <<k, code>> >>)
  BY DEF CloseAnswer
<1>2. /\ DOMAIN of.fields = DOMAIN AnswerKeys /\ of.text = Null /\ of.fields.action = "close" /\ of.fields.request = r
      /\ \A name \in DOMAIN AnswerKeys \ {"action", "request"} :
           of.fields[name] = IF name = "shellid" THEN shellid ELSE IF name = "code" THEN code ELSE Null
  <2>1. DOMAIN others = {"shellid", "code"} /\ others["shellid"] = shellid /\ others["code"] = code
    OBVIOUS
  <2>2. "action" \notin DOMAIN others /\ "request" \notin DOMAIN others
    BY <2>1
  <2> HIDE DEF others
  <2>3. Means(of, "close", r, others, Null)
    BY <2>2, MeaningIs
  <2> HIDE DEF of
  <2> QED
    BY <2>1, <2>3 DEF Means
<1>3. "close" \in DOMAIN AnswerActionKeys /\ AnswerActionKeys["close"] = k
  BY DEF AnswerActionKeys
<1>4. /\ "shellid" \in DOMAIN AnswerKeys \ {"action"} /\ AnswerKeys["shellid"] = j
      /\ "code" \in DOMAIN AnswerKeys \ {"action"} /\ AnswerKeys["code"] = k
  BY DEF AnswerKeys
<1>5. j \in Short /\ Len(j) = 1 /\ k \in Short /\ Len(k) = 1
  BY Literals
<1>6. \A name \in DOMAIN AnswerKeys \ {"action"} :
        s[name] = IF name = "code" THEN code ELSE IF name = "shellid" THEN shellid
                  ELSE IF name = "request" THEN r ELSE Null
  BY DEF NoAttrs, TwoMore
<1>7. /\ Conveys(pairs, StanzaOf("close", Null, s), size) /\ s \in Attributes /\ Len(pairs) = 4
      /\ h \o << <<j, shellid>>, <<k, code>> >> = pairs
  <2> HIDE DEF j, k
  <2>1. ConveysTwo("close", k, r, "shellid", j, shellid, "code", k, code)
    BY <1>3, <1>4, <1>5, TwoConveyed
  <2> QED
    BY <2>1 DEF ConveysTwo, Pair2, Size2, k
<1> HIDE DEF h, s, pairs, j, k, others, of, R
<1>8. ~IsLong(of) => size + 1 <= 128
  <2> SUFFICES ASSUME ~IsLong(of) PROVE size + 1 <= 128
    OBVIOUS
  <2>1. R <= 38 /\ R \in Nat
    BY <1>2, NotLong, WordBytes DEF R
  <2>2. Len(StringBytes(shellid)) <= 8
    <3>1. of.fields.shellid = shellid
      BY <1>2, <1>4
    <3> QED
      BY <3>1, NotLong
  <2>3. Len(StringBytes(code)) <= 8
    <3>1. 7 \in Nat /\ 7 <= 31 /\ 7 + 1 = 8
      BY SMT
    <3>2. Len(StringBytes(code)) <= 7 + 1
      BY <3>1, WordBytes, Zenon
    <3> QED
      BY <3>1, <3>2
  <2> DEFINE x == PairSize(j, shellid)
             y == PairSize(k, code)
  <2>4. x \in Nat /\ y \in Nat /\ x <= (1 + 1) + 8 /\ y <= (1 + 1) + 8
    <3>1. 1 \in Nat /\ 8 \in Nat
      BY SMT
    <3>2. x \in Nat /\ x <= (1 + 1) + 8
      BY <1>5, <2>2, <3>1, PairSizeIs
    <3>3. y \in Nat /\ y <= (1 + 1) + 8
      BY <1>5, <2>3, <3>1, PairSizeIs
    <3> QED
      BY <3>2, <3>3
  <2> HIDE DEF x, y
  <2>5. ((6 + R) + x) + y + 1 <= 128
    BY <2>1, <2>4
  <2> QED
    BY <2>5 DEF x, y
<1>9. \A name \in DOMAIN of.fields \ {"action"} : s[name] = of.fields[name]
  BY <1>2, <1>6
<1> HIDE DEF size
<1>10. AnswerFits(pairs, 128, of, "close", Null, s, size)
  <2>1. 128 \in Nat /\ 4 <= 7
    BY SMT
  <2>2. Null = IF of.text = Null THEN Null ELSE Base64Of(CString(of.text))
    BY <1>2
  <2>3. Null \in Seq(Byte) \cup {Null}
    OBVIOUS
  <2> QED
    BY <1>2, <1>3, <1>7, <1>8, <1>9, <2>1, <2>2, <2>3 DEF AnswerFits
<1> QED
  BY <1>1, <1>7, <1>10, Answered, ZenonT(60) DEF of, others

\* The owner is told whether a project runs.
LEMMA StatusAnswered ==
  ASSUME NEW r \in Words, NEW projectid \in Words, NEW running \in BOOLEAN
  PROVE  Answers(StatusAnswer(r, projectid, running),
                 [fields |-> Meaning("status", r, [projectid |-> projectid, running |-> Text(running)]), text |-> Null])
<1> DEFINE flag == Text(running)
           others == [projectid |-> projectid, running |-> flag]
           of == [fields |-> Meaning("status", r, others), text |-> Null]
           h == Heading(<<115>>, r)
           action == <<115>>
           j == <<112>>
           k == <<114, 117>>
           pairs == Append(Append(h, <<j, projectid>>), <<k, flag>>)
           s == TwoMore(r, "projectid", projectid, "running", flag)
           R == Len(StringBytes(r))
           size == ((6 + R) + PairSize(j, projectid)) + PairSize(k, flag)
<1>1. StatusAnswer(r, projectid, running) = Answer(128, h \o << <<j, projectid>>, <<k, flag>> >>)
  BY DEF StatusAnswer
<1>2. /\ DOMAIN of.fields = DOMAIN AnswerKeys /\ of.text = Null /\ of.fields.action = "status" /\ of.fields.request = r
      /\ \A name \in DOMAIN AnswerKeys \ {"action", "request"} :
           of.fields[name] = IF name = "projectid" THEN projectid ELSE IF name = "running" THEN flag ELSE Null
  <2> HIDE DEF flag
  <2>1. DOMAIN others = {"projectid", "running"} /\ others["projectid"] = projectid /\ others["running"] = flag
    OBVIOUS
  <2>2. "action" \notin DOMAIN others /\ "request" \notin DOMAIN others
    BY <2>1
  <2> HIDE DEF others
  <2>3. Means(of, "status", r, others, Null)
    BY <2>2, MeaningIs
  <2> HIDE DEF of
  <2> QED
    BY <2>1, <2>3 DEF Means
<1>3. "status" \in DOMAIN AnswerActionKeys /\ AnswerActionKeys["status"] = action
  BY DEF AnswerActionKeys
<1>4. /\ "projectid" \in DOMAIN AnswerKeys \ {"action"} /\ AnswerKeys["projectid"] = j
      /\ "running" \in DOMAIN AnswerKeys \ {"action"} /\ AnswerKeys["running"] = k
  BY DEF AnswerKeys
<1>5. j \in Short /\ Len(j) = 1 /\ k \in Short /\ Len(k) = 2
  BY Literals
<1>6. flag \in Words /\ Len(flag) <= 5
  <2>1. flag \in Short /\ Len(flag) <= 5
    BY LiteralValues
  <2> HIDE DEF flag
  <2> QED
    BY <2>1, ShortIs
<1> HIDE DEF flag
<1>7. \A name \in DOMAIN AnswerKeys \ {"action"} :
        s[name] = IF name = "running" THEN flag ELSE IF name = "projectid" THEN projectid
                  ELSE IF name = "request" THEN r ELSE Null
  BY DEF NoAttrs, TwoMore
<1>8. /\ Conveys(pairs, StanzaOf("status", Null, s), size) /\ s \in Attributes /\ Len(pairs) = 4
      /\ h \o << <<j, projectid>>, <<k, flag>> >> = pairs
  <2> HIDE DEF j, k, action
  <2>1. ConveysTwo("status", action, r, "projectid", j, projectid, "running", k, flag)
    BY <1>3, <1>4, <1>5, <1>6, TwoConveyed
  <2> QED
    BY <2>1 DEF ConveysTwo, Pair2, Size2, action
<1> HIDE DEF h, s, pairs, j, k, action, others, of, R
<1>9. ~IsLong(of) => size + 1 <= 128
  <2> SUFFICES ASSUME ~IsLong(of) PROVE size + 1 <= 128
    OBVIOUS
  <2>1. R <= 38 /\ R \in Nat
    BY <1>2, NotLong, WordBytes DEF R
  <2>2. Len(StringBytes(projectid)) <= 66
    <3>1. of.fields.projectid = projectid
      BY <1>2, <1>4
    <3> QED
      BY <3>1, NotLong
  <2>3. Len(StringBytes(flag)) <= 6
    <3>1. 5 \in Nat /\ 5 <= 31 /\ 5 + 1 = 6
      BY SMT
    <3>2. Len(StringBytes(flag)) <= 5 + 1
      BY <1>6, <3>1, WordBytes, Zenon
    <3> QED
      BY <3>1, <3>2
  <2> DEFINE x == PairSize(j, projectid)
             y == PairSize(k, flag)
  <2>4. x \in Nat /\ y \in Nat /\ x <= (1 + 1) + 66 /\ y <= (2 + 1) + 6
    <3>1. 1 \in Nat /\ 2 \in Nat /\ 66 \in Nat /\ 6 \in Nat
      BY SMT
    <3>2. x \in Nat /\ x <= (1 + 1) + 66
      BY <1>5, <2>2, <3>1, PairSizeIs
    <3>3. y \in Nat /\ y <= (2 + 1) + 6
      BY <1>5, <1>6, <2>3, <3>1, PairSizeIs
    <3> QED
      BY <3>2, <3>3
  <2> HIDE DEF x, y
  <2>5. ((6 + R) + x) + y + 1 <= 128
    BY <2>1, <2>4
  <2> QED
    BY <2>5 DEF x, y
<1>10. \A name \in DOMAIN of.fields \ {"action"} : s[name] = of.fields[name]
  BY <1>2, <1>7
<1> HIDE DEF size
<1>11. AnswerFits(pairs, 128, of, "status", Null, s, size)
  <2>1. 128 \in Nat /\ 4 <= 7
    BY SMT
  <2>2. Null = IF of.text = Null THEN Null ELSE Base64Of(CString(of.text))
    BY <1>2
  <2>3. Null \in Seq(Byte) \cup {Null}
    OBVIOUS
  <2> QED
    BY <1>2, <1>3, <1>8, <1>9, <1>10, <2>1, <2>2, <2>3 DEF AnswerFits
<1> QED
  BY <1>1, <1>8, <1>11, Answered, ZenonT(60) DEF of, others, flag

\* The owner is told which shell was opened for the request.
LEMMA SuccessAnswered ==
  ASSUME NEW r \in Words, NEW i \in 0 .. 255, NEW running \in BOOLEAN
  PROVE  Answers(OpenAnswer(r, TRUE, i, running),
                 [fields |-> Meaning("open", r, [response |-> Done, shellid |-> Digits(i), running |-> Text(running)]),
                  text |-> Null])
<1> DEFINE flag == Text(running)
           id == Digits(i)
           others == [response |-> Done, shellid |-> id, running |-> flag]
           of == [fields |-> Meaning("open", r, others), text |-> Null]
           h == Heading(<<111>>, r)
           action == <<111>>
           j == <<114, 101>>
           k == <<115>>
           l == <<114, 117>>
           two == Append(Append(h, <<j, Done>>), <<k, id>>)
           pairs == Append(two, <<l, flag>>)
           s2 == TwoMore(r, "response", Done, "shellid", id)
           s == [s2 EXCEPT !["running"] = flag]
           R == Len(StringBytes(r))
           first == ((6 + R) + PairSize(j, Done)) + PairSize(k, id)
           size == first + PairSize(l, flag)
           X == Seq(Byte) \X Seq(Byte)
<1>1. OpenAnswer(r, TRUE, i, running) = Answer(256, h \o << <<j, Done>>, <<k, id>>, <<l, flag>> >>)
  BY DEF OpenAnswer
<1>2. /\ DOMAIN of.fields = DOMAIN AnswerKeys /\ of.text = Null /\ of.fields.action = "open" /\ of.fields.request = r
      /\ \A name \in DOMAIN AnswerKeys \ {"action", "request"} :
           of.fields[name] = IF name = "response" THEN Done ELSE IF name = "shellid" THEN id
                             ELSE IF name = "running" THEN flag ELSE Null
  <2> HIDE DEF flag, id
  <2>1. /\ DOMAIN others = {"response", "shellid", "running"}
        /\ others["response"] = Done /\ others["shellid"] = id /\ others["running"] = flag
    OBVIOUS
  <2>2. "action" \notin DOMAIN others /\ "request" \notin DOMAIN others
    BY <2>1
  <2> HIDE DEF others
  <2>3. Means(of, "open", r, others, Null)
    BY <2>2, MeaningIs
  <2> HIDE DEF of
  <2> QED
    BY <2>1, <2>3 DEF Means
<1>3. "open" \in DOMAIN AnswerActionKeys /\ AnswerActionKeys["open"] = action
  BY DEF AnswerActionKeys
<1>4. /\ "response" \in DOMAIN AnswerKeys \ {"action"} /\ AnswerKeys["response"] = j
      /\ "shellid" \in DOMAIN AnswerKeys \ {"action"} /\ AnswerKeys["shellid"] = k
      /\ "running" \in DOMAIN AnswerKeys \ {"action"} /\ AnswerKeys["running"] = l
  BY DEF AnswerKeys
<1>5. j \in Short /\ Len(j) = 2 /\ k \in Short /\ Len(k) = 1 /\ l \in Short /\ Len(l) = 2
  BY Literals
<1>6. flag \in Words /\ Len(flag) <= 5 /\ id \in Words /\ Len(id) <= 3 /\ Done \in Words /\ Len(Done) <= 5
  <2>1. flag \in Short /\ Len(flag) <= 5 /\ id \in Short /\ Len(id) <= 3
    BY LiteralValues, DigitsIs
  <2> HIDE DEF flag, id
  <2>2. Done \in Short /\ Len(Done) = 4 /\ 4 <= 5
    BY LiteralValues, SMT
  <2> QED
    BY <2>1, <2>2, ShortIs
<1> HIDE DEF flag, id
<1>7. \A name \in DOMAIN AnswerKeys \ {"action"} :
        s[name] = IF name = "running" THEN flag ELSE IF name = "shellid" THEN id
                  ELSE IF name = "response" THEN Done ELSE IF name = "request" THEN r ELSE Null
  BY DEF NoAttrs, TwoMore
<1>8. Conveys(two, StanzaOf("open", Null, s2), first) /\ s2 \in Attributes /\ Len(two) = 4
  <2> HIDE DEF j, k, action
  <2>2. j \in Short /\ k \in Short /\ id \in Words /\ Done \in Words
    BY <1>5, <1>6
  <2>3. /\ "response" \in DOMAIN AnswerKeys \ {"action"} /\ AnswerKeys["response"] = j
        /\ "shellid" \in DOMAIN AnswerKeys \ {"action"} /\ AnswerKeys["shellid"] = k
    BY <1>4
  <2>1. ConveysTwo("open", action, r, "response", j, Done, "shellid", k, id)
    BY <1>3, <2>2, <2>3, TwoConveyed
  <2> QED
    BY <2>1 DEF ConveysTwo, Pair2, Size2, action
<1>9. Conveys(pairs, StanzaOf("open", Null, s), size) /\ s \in Attributes
  <2> HIDE DEF two, s2, first, l
  <2>1. Conveys(pairs, StanzaOf("open", Null, s), size)
    BY <1>4, <1>5, <1>6, <1>8, AttributeConveys, ZenonT(60) DEF PairSize
  <2>2. s \in Attributes
    BY <1>4, <1>6, <1>8, MoreAttributes
  <2> QED
    BY <2>1, <2>2
<1>10. h \o << <<j, Done>>, <<k, id>>, <<l, flag>> >> = pairs /\ Len(pairs) = 5
  <2> DEFINE p == <<j, Done>>
             q == <<k, id>>
             o == <<l, flag>>
  <2>1. h \in Seq(X) /\ Len(h) = 2
    <3>1. Conveys(h, StanzaOf("open", Null, [NoAttrs EXCEPT !["request"] = r]), 6 + R)
      BY <1>3, HeadingIs
    <3>2. h \in Seq(X)
      BY <3>1 DEF Conveys, Pairs
    <3> QED
      BY <3>2 DEF Heading
  <2> HIDE DEF j, k, l, h
  <2>2. p \in X /\ q \in X /\ o \in X
    BY <1>5, <1>6, ShortPair
  <2> HIDE DEF p, q, o, X
  <2>3. h \in Seq(X) /\ p \in X /\ q \in X /\ o \in X
    BY <2>1, <2>2
  <2>4. h \o <<p, q, o>> = Append(Append(Append(h, p), q), o) /\ Len(Append(Append(Append(h, p), q), o)) = Len(h) + 3
    BY <2>3, HeadJoins
  <2>5. 2 + 3 = 5
    OBVIOUS
  <2> QED
    BY <2>1, <2>4, <2>5 DEF p, q, o
<1> HIDE DEF h, s, pairs, j, k, l, action, others, of, R, two, s2
<1>11. ~IsLong(of) => size + 1 <= 256
  <2> SUFFICES ASSUME ~IsLong(of) PROVE size + 1 <= 256
    OBVIOUS
  <2>1. R <= 38 /\ R \in Nat
    BY <1>2, NotLong, WordBytes DEF R
  <2>2. Len(StringBytes(flag)) <= 6 /\ Len(StringBytes(id)) <= 4 /\ Len(StringBytes(Done)) <= 6
    <3>1. 5 \in Nat /\ 5 <= 31 /\ 5 + 1 = 6 /\ 3 \in Nat /\ 3 <= 31 /\ 3 + 1 = 4
      BY SMT
    <3>2. Len(StringBytes(flag)) <= 5 + 1
      BY <1>6, <3>1, WordBytes, Zenon
    <3>3. Len(StringBytes(id)) <= 3 + 1
      BY <1>6, <3>1, WordBytes, Zenon
    <3>4. Len(StringBytes(Done)) <= 5 + 1
      BY <1>6, <3>1, WordBytes, Zenon
    <3> QED
      BY <3>1, <3>2, <3>3, <3>4
  <2> DEFINE x == PairSize(j, Done)
             y == PairSize(k, id)
             z == PairSize(l, flag)
  <2>3. x \in Nat /\ y \in Nat /\ z \in Nat /\ x <= (2 + 1) + 6 /\ y <= (1 + 1) + 4 /\ z <= (2 + 1) + 6
    <3>1. 1 \in Nat /\ 2 \in Nat /\ 4 \in Nat /\ 6 \in Nat
      BY SMT
    <3>2. x \in Nat /\ x <= (2 + 1) + 6
      BY <1>5, <1>6, <2>2, <3>1, PairSizeIs
    <3>3. y \in Nat /\ y <= (1 + 1) + 4
      BY <1>5, <1>6, <2>2, <3>1, PairSizeIs
    <3>4. z \in Nat /\ z <= (2 + 1) + 6
      BY <1>5, <1>6, <2>2, <3>1, PairSizeIs
    <3> QED
      BY <3>2, <3>3, <3>4
  <2> HIDE DEF x, y, z
  <2>4. (((6 + R) + x) + y) + z + 1 <= 256
    BY <2>1, <2>3
  <2> QED
    BY <2>4 DEF x, y, z
<1>12. \A name \in DOMAIN of.fields \ {"action"} : s[name] = of.fields[name]
  BY <1>2, <1>7
<1> HIDE DEF size, first
<1>13. AnswerFits(pairs, 256, of, "open", Null, s, size)
  <2>1. 256 \in Nat /\ 5 <= 7
    BY SMT
  <2>2. Null = IF of.text = Null THEN Null ELSE Base64Of(CString(of.text))
    BY <1>2
  <2>3. Null \in Seq(Byte) \cup {Null}
    OBVIOUS
  <2> QED
    BY <1>2, <1>3, <1>9, <1>10, <1>11, <1>12, <2>1, <2>2, <2>3 DEF AnswerFits
<1> QED
  BY <1>1, <1>10, <1>13, Answered, ZenonT(60) DEF of, others, flag, id

\* There is room for any text that is read from a shell.
LEMMA RoomIsEnough ==
  ASSUME NEW text \in Seq(Byte), Len(text) <= 1024
  PROVE  /\ Writable(text) /\ Len(StringBytes(text)) \in Nat
         /\ RoomForKeys(text) \in Nat /\ 63 + Len(StringBytes(text)) <= RoomForKeys(text)
<1> DEFINE n == Len(text)
           T == Len(StringBytes(text))
<1>1. n \in Nat
  OBVIOUS
<1>2. Writable(text)
  <2>1. \A l \in Nat : l <= 1024 => LengthFits(l, 4)
    <3> TAKE l \in Nat
    <3> HAVE l <= 1024
    <3>1. l \div 16777216 <= 255
      BY SMT
    <3> QED
      BY <3>1 DEF LengthFits
  <2> QED
    BY <1>1, <2>1 DEF Writable
<1>3. T \in Nat /\ T <= n + 5 /\ (n <= 255 => T <= n + 2) /\ (n <= 31 => T = n + 1)
  BY <1>2, StringLength
<1>4. EncodedSize(n) \in Nat /\ EncodedSize(n) - 1 = 4 * ((n + 2) \div 3)
  BY <1>1, SextetsNumber
<1>5. (text = <<>> => n = 0) /\ (text # <<>> => n >= 1)
  OBVIOUS
<1> DEFINE E == EncodedSize(n)
           q == (n + 2) \div 3
<1>6. RoomForKeys(text) = IF text = <<>> THEN 64 ELSE 64 + E
  BY DEF RoomForKeys
<1> HIDE DEF n, T, E
<1>7. q \in Nat /\ 3 * q >= n
  BY <1>1, SMT
<1>8. E \in Nat /\ E = 4 * q + 1
  <2>1. E \in Nat /\ E - 1 = 4 * q
    BY <1>4 DEF E
  <2> HIDE DEF q
  <2> QED
    BY <1>7, <2>1
<1> HIDE DEF q
<1>9. 63 + T <= RoomForKeys(text) /\ RoomForKeys(text) \in Nat
  <2>1. CASE text = <<>>
    <3>1. n = 0 /\ T = 1
      BY <1>3, <1>5, <2>1
    <3> QED
      BY <1>6, <2>1, <3>1
  <2>2. CASE text # <<>>
    <3>1. T <= 2 + 4 * q
      <4>1. CASE n <= 31
        BY <1>1, <1>3, <1>7, <4>1
      <4>2. CASE n > 31
        BY <1>1, <1>3, <1>7, <4>2
      <4> QED
        BY <1>1, <4>1, <4>2
    <3>2. RoomForKeys(text) = 64 + E
      BY <1>6, <2>2
    <3> QED
      BY <1>3, <1>7, <1>8, <3>1, <3>2
  <2> QED
    BY <2>1, <2>2
<1> QED
  BY <1>2, <1>3, <1>9 DEF T

\* The owner is told what the shell wrote.
LEMMA KeysAnswered ==
  ASSUME NEW r \in Words, NEW shellid \in Words, NEW text \in Seq(Byte), Len(text) <= 1024, NEW after \in AfterLiteral
  PROVE  Answers(KeysAnswer(r, shellid, text, after),
                 [fields |-> Meaning("keys", r, [shellid |-> shellid]), text |-> text])
<1> DEFINE others == [shellid |-> shellid]
           of == [fields |-> Meaning("keys", r, others), text |-> text]
           key == RequestKey(after)
           action == <<107>>
           j == <<115>>
           p1 == <<<<97>>, action>>
           p2 == <<key, r>>
           p3 == <<j, shellid>>
           p4 == <<TextKey, text>>
           h == <<p1, p2>>
           pairs == <<p1, p2, p3, p4>>
           s1 == [NoAttrs EXCEPT !["request"] = r]
           s == [s1 EXCEPT !["shellid"] = shellid]
           R == Len(StringBytes(r))
           T == Len(StringBytes(text))
           encoded == Base64Of(CString(text))
           room == RoomForKeys(text)
           size == ((12 + R) + PairSize(j, shellid)) + (2 + T)
           X == Seq(Byte) \X Seq(Byte)
<1>1. KeysAnswer(r, shellid, text, after) = Answer(room, pairs)
  BY DEF KeysAnswer
<1>2. /\ DOMAIN of.fields = DOMAIN AnswerKeys /\ of.text = text /\ of.fields.action = "keys" /\ of.fields.request = r
      /\ \A name \in DOMAIN AnswerKeys \ {"action", "request"} :
           of.fields[name] = IF name = "shellid" THEN shellid ELSE Null
  <2>1. DOMAIN others = {"shellid"} /\ others["shellid"] = shellid
    OBVIOUS
  <2>2. "action" \notin DOMAIN others /\ "request" \notin DOMAIN others
    BY <2>1
  <2> HIDE DEF others
  <2>3. Means(of, "keys", r, others, text)
    BY <2>2, MeaningIs
  <2> HIDE DEF of
  <2> QED
    BY <2>1, <2>3 DEF Means
<1>3. "keys" \in DOMAIN AnswerActionKeys /\ AnswerActionKeys["keys"] = action
  BY DEF AnswerActionKeys
<1>4. "shellid" \in DOMAIN AnswerKeys \ {"action"} /\ AnswerKeys["shellid"] = j /\ "request" \in DOMAIN AnswerKeys
  BY DEF AnswerKeys
<1>5. j \in Short /\ Len(j) = 1
  BY Literals
<1>6. Writable(key) /\ CString(key) = <<114>> /\ Len(StringBytes(key)) = 8
  <2>1. key \in Seq(Byte) /\ Len(key) = 7 /\ CString(key) = <<114>>
    BY RequestKeyIs
  <2> HIDE DEF key
  <2>2. 7 \in 0 .. 255 /\ 7 <= 31 /\ 7 + 1 = 8
    BY SMT
  <2>3. Writable(key)
    <3>1. LengthFits(7, 4)
      BY <2>2, SmallFits
    <3> QED
      BY <2>1, <3>1 DEF Writable
  <2>4. Len(key) <= 31 => Len(StringBytes(key)) = Len(key) + 1
    BY <2>3, StringLength
  <2> QED
    BY <2>1, <2>2, <2>3, <2>4
<1>7. Writable(text) /\ T \in Nat /\ room \in Nat /\ 63 + T <= room
  BY RoomIsEnough
<1>8. encoded \in Seq(Byte) /\ text # Null
  <2>1. CString(text) \in Seq(Byte)
    BY CStringType
  <2> QED
    BY <2>1, Base64Is, NullAssumption
<1>9. s1 \in Attributes /\ s \in Attributes
  <2>1. s1 \in Attributes
    BY <1>4, NoAttributes, MoreAttributes
  <2> HIDE DEF s1
  <2> QED
    BY <1>4, <2>1, MoreAttributes
<1>10. \A name \in DOMAIN AnswerKeys \ {"action"} :
        s[name] = IF name = "shellid" THEN shellid ELSE IF name = "request" THEN r ELSE Null
  BY DEF NoAttrs
<1>11. Conveys(h, StanzaOf("keys", Null, s1), 12 + R)
  <2> HIDE DEF key, action
  <2>1. Conveys(<< <<<<97>>, AnswerActionKeys["keys"]>>, <<key, r>> >>, StanzaOf("keys", Null, s1),
                4 + (Len(StringBytes(key)) + Len(StringBytes(r))))
    BY <1>3, <1>6, HeadingConveys, ZenonT(60)
  <2>2. 4 + (Len(StringBytes(key)) + Len(StringBytes(r))) = 12 + R
    <3>1. R \in Nat
      BY WordBytes
    <3> HIDE DEF R
    <3>2. 4 + (8 + R) = 12 + R
      BY <3>1
    <3> QED
      BY <1>6, <3>2 DEF R
  <2> QED
    BY <1>3, <2>1, <2>2
<1>12. pairs = Append(Append(h, p3), p4) /\ Len(pairs) = 4
  <2>1. p3 \in X
    BY <1>5, ShortPair
  <2>2. p4 \in X
    <3>1. TextKey \in Short
      BY Literals
    <3> QED
      BY <3>1, ShortIs
  <2>3. p1 \in X /\ p2 \in X
    <3>1. <<97>> \in Short /\ action \in Short
      BY <1>3, Literals
    <3>2. <<97>> \in Seq(Byte) /\ action \in Seq(Byte)
      BY <3>1, ShortIs
    <3>3. key \in Seq(Byte) /\ r \in Seq(Byte)
      BY <1>6, WordIs DEF Writable
    <3> HIDE DEF key, action
    <3> QED
      BY <3>2, <3>3, ZenonT(60)
  <2> HIDE DEF X, p1, p2, p3, p4
  <2> QED
    BY <2>1, <2>2, <2>3, Appends
<1> HIDE DEF h, j, s1, R, T, p3, pairs, key, action, encoded, X, of, others, room
<1> DEFINE three == Append(h, p3)
<1>13. Conveys(three, StanzaOf("keys", Null, s), (12 + R) + PairSize(j, shellid))
  BY <1>4, <1>5, <1>11, AttributeConveys, ZenonT(60) DEF PairSize, p3
<1> HIDE DEF three, s
<1>14. Conveys(Append(three, p4), StanzaOf("keys", encoded, s), size)
  BY <1>7, <1>13, TextConveys DEF encoded, T
<1>15. Conveys(pairs, StanzaOf("keys", encoded, s), size)
  BY <1>12, <1>14 DEF three
<1>16. ~IsLong(of) => size + 1 <= room
  <2> SUFFICES ASSUME ~IsLong(of) PROVE size + 1 <= room
    OBVIOUS
  <2>1. R <= 38 /\ R \in Nat
    BY <1>2, NotLong, WordBytes DEF R
  <2>2. Len(StringBytes(shellid)) <= 8
    <3>1. of.fields.shellid = shellid
      BY <1>2, <1>4
    <3> QED
      BY <3>1, NotLong
  <2> DEFINE x == PairSize(j, shellid)
  <2>3. x \in Nat /\ x <= (1 + 1) + 8
    <3>1. 1 \in Nat /\ 8 \in Nat
      BY SMT
    <3>2. x \in Nat /\ x <= (1 + 1) + 8
      BY <1>5, <2>2, <3>1, PairSizeIs, ZenonT(60)
    <3> QED
      BY <3>2
  <2> HIDE DEF x
  <2>4. ((12 + R) + x) + (2 + T) + 1 <= room
    BY <1>7, <2>1, <2>3
  <2> QED
    BY <2>4 DEF x
<1>17. \A name \in DOMAIN of.fields \ {"action"} : s[name] = of.fields[name]
  BY <1>2, <1>10
<1> HIDE DEF size
<1>18. AnswerFits(pairs, room, of, "keys", encoded, s, size)
  <2>1. 4 <= 7
    BY SMT
  <2>2. encoded = IF of.text = Null THEN Null ELSE Base64Of(CString(of.text))
    BY <1>2, <1>8 DEF encoded
  <2>3. encoded \in Seq(Byte) \cup {Null}
    BY <1>8
  <2> QED
    BY <1>2, <1>3, <1>7, <1>9, <1>12, <1>15, <1>16, <1>17, <2>1, <2>2, <2>3 DEF AnswerFits
<1> QED
  BY <1>1, <1>18, Answered DEF of, others

\* What is on its way to the server is understood, and what was lost was long;
\* what the server made of the last answer is what was meant.
Understood(m) == TellsOf(onHypervisorMessage(m.bytes), m.of)
Answering ==
  /\ \E S : answers \in Seq(S) /\ \A m \in S : Understood(m)
  /\ \A of \in lost : IsLong(of)
Telling == told # Null => TellsOf(told.stanza, told.of)

AnswersInv == CommandsInv /\ Answering /\ Telling

LEMMA SilentKeeps ==
  ASSUME Answering, Silent
  PROVE  Answering'
BY DEF Answering, Silent

LEMMA PublishKeeps ==
  ASSUME Answering, NEW bytes, NEW meaning, NEW text, Publish(bytes, meaning, text),
         Answers(bytes, [fields |-> meaning, text |-> text])
  PROVE  Answering'
<1> DEFINE of == [fields |-> meaning, text |-> text]
           m == [bytes |-> bytes, of |-> of]
<1>1. IF bytes = Null THEN answers' = answers /\ lost' = lost \cup {of}
      ELSE answers' = Append(answers, m) /\ lost' = lost
  BY DEF Publish
<1>2. m.bytes = bytes /\ m.of = of
  OBVIOUS
<1>3. Answers(bytes, of)
  OBVIOUS
<1> HIDE DEF m, of
<1>4. CASE bytes = Null
  <2>1. IsLong(of)
    BY <1>3, <1>4 DEF Answers
  <2>2. answers' = answers /\ lost' = lost \cup {of}
    BY <1>1, <1>4
  <2> QED
    BY <2>1, <2>2 DEF Answering
<1>5. CASE bytes # Null
  <2>1. Understood(m)
    BY <1>2, <1>3, <1>5 DEF Answers, Understood
  <2>2. answers' = Append(answers, m) /\ lost' = lost
    BY <1>1, <1>5
  <2>3. PICK S : answers \in Seq(S) /\ \A x \in S : Understood(x)
    BY DEF Answering
  <2> DEFINE more == S \cup {m}
  <2>4. \A x \in more : Understood(x)
    BY <2>1, <2>3
  <2>5. m \in more /\ \A x \in S : x \in more
    OBVIOUS
  <2> HIDE DEF more
  <2>6. answers \in Seq(more)
    <3>1. answers \in Seq(S)
      BY <2>3
    <3>2. \A i \in 1 .. Len(answers) : answers[i] \in more
      BY <2>5, <3>1, ElementOfSeq
    <3> QED
      BY <3>1, <3>2, Retyped
  <2>7. answers' \in Seq(more)
    BY <2>2, <2>5, <2>6
  <2>8. \A of1 \in lost' : IsLong(of1)
    BY <2>2 DEF Answering
  <2> QED
    BY <2>4, <2>7, <2>8 DEF Answering
<1> QED
  BY <1>4, <1>5

\* A shell has a short name.
LEMMA ShortWords == Short \subseteq Words /\ \A i \in Slots : i \in 0 .. 255 /\ Digits(i) \in Words
<1>1. \A s \in Short : s \in Words
  BY ShortIs
<1>2. ASSUME NEW i \in Slots PROVE i \in 0 .. 255 /\ Digits(i) \in Words
  <2>1. i \in 0 .. 255
    BY SlotsAssumption
  <2> QED
    BY <1>1, <2>1, DigitsIs
<1> QED
  BY <1>1, <1>2

LEMMA CommandAnswered ==
  ASSUME CommandsInv, Answering, NEW stanza, NEW hm, Hears(stanza, hm), Handle(hm)
  PROVE  Answering'
<1> DEFINE request == hashmap_get(hm, <<114>>)
           shellid == hashmap_get(hm, <<115>>)
           project == hashmap_get(hm, <<112>>)
<1>1. request \in Words \cup {Null} /\ shellid \in Words \cup {Null} /\ project \in Words \cup {Null}
  BY CommandWords
<1>2. hm # Null
  BY DEF Hears
<1>3. \/ Open(hm) \/ Close(hm) \/ Keys(hm) \/ Status(hm) \/ Disconnect(hm) \/ Poweroff
      \/ Silent /\ UNCHANGED shell
  BY <1>2, Handled
<1>4. CASE Silent
  BY <1>4, SilentKeeps
<1>5. CASE Open(hm)
  <2>1. \/ FailOpen(request) \/ Silent
        \/ request # Null /\ \E i \in Slots : \E running \in BOOLEAN : SucceedOpen(request, i, running)
    <3> HIDE DEF request, shellid, project
    <3> USE DEF request
    <3> QED
      BY <1>5, TRUE \in BOOLEAN, FALSE \in BOOLEAN DEF Open
  <2> HIDE DEF request
  <2>2. CASE FailOpen(request)
    <3>1. CASE request = Null
      BY <1>4, <2>2, <3>1 DEF FailOpen
    <3>2. CASE request # Null
      <4> DEFINE bytes == OpenAnswer(request, FALSE, 0, FALSE)
                 meaning == Meaning("open", request, [response |-> Error])
      <4>1. Publish(bytes, meaning, Null)
        BY <2>2, <3>2 DEF FailOpen
      <4>2. Answers(bytes, [fields |-> meaning, text |-> Null])
        BY <1>1, <3>2, FailureAnswered
      <4> HIDE DEF bytes, meaning
      <4> QED
        BY <4>1, <4>2, PublishKeeps
    <3> QED
      BY <3>1, <3>2
  <2>3. ASSUME request # Null, NEW i \in Slots, NEW running \in BOOLEAN, SucceedOpen(request, i, running)
        PROVE  Answering'
    <3> DEFINE bytes == OpenAnswer(request, TRUE, i, running)
               meaning == Meaning("open", request, [response |-> Done, shellid |-> Digits(i), running |-> Text(running)])
    <3>1. Publish(bytes, meaning, Null)
      BY <2>3 DEF SucceedOpen
    <3>2. Answers(bytes, [fields |-> meaning, text |-> Null])
      <4>1. i \in 0 .. 255
        BY ShortWords
      <4> QED
        BY <1>1, <2>3, <4>1, SuccessAnswered, ZenonT(60)
    <3> HIDE DEF bytes, meaning
    <3> QED
      BY <3>1, <3>2, PublishKeeps
  <2> QED
    BY <1>4, <2>1, <2>2, <2>3
<1>6. CASE Close(hm)
  <2> DEFINE code == <<45, 49>>
             bytes == CloseAnswer(request, shellid, code)
             meaning == Meaning("close", request, [shellid |-> shellid, code |-> code])
  <2>1. Silent \/ (request # Null /\ shellid # Null /\ Publish(bytes, meaning, Null))
    <3> DEFINE named == {i \in SlotNamed(shellid) : shell[i] # Null}
               given == request = Null \/ shellid = Null
               publishes == Publish(bytes, meaning, Null)
               hides == shell' = [i \in Slots |->
                          IF i \in named THEN [request |-> request, connected |-> FALSE] ELSE shell[i]]
    <3>1. IF given THEN Silent /\ UNCHANGED shell
          ELSE IF named = {} THEN publishes /\ UNCHANGED shell
          ELSE hides /\ Silent
      BY <1>6 DEF Close
    <3>2. ~given => request # Null /\ shellid # Null
      OBVIOUS
    <3> HIDE DEF named, given, publishes, hides
    <3>3. Silent \/ (~given /\ publishes)
      BY <3>1
    <3> QED
      BY <3>2, <3>3 DEF publishes
  <2>2. code \in Words /\ Len(code) <= 7
    <3>1. code \in Short /\ Len(code) = 2 /\ 2 <= 7
      BY Literals, SMT
    <3> QED
      BY <3>1, ShortWords
  <2> HIDE DEF code, request, shellid
  <2>3. CASE request # Null /\ shellid # Null /\ Publish(bytes, meaning, Null)
    <3>1. Answers(bytes, [fields |-> meaning, text |-> Null])
      BY <1>1, <2>2, <2>3, CloseAnswered
    <3> HIDE DEF bytes, meaning
    <3> QED
      BY <2>3, <3>1, PublishKeeps
  <2> QED
    BY <1>4, <2>1, <2>3
<1>7. CASE Keys(hm)
  <2> DEFINE bytes(after) == KeysAnswer(request, shellid, <<>>, after)
             meaning == Meaning("keys", request, [shellid |-> shellid])
  <2>1. \/ Silent
        \/ request # Null /\ shellid # Null /\ \E after \in AfterLiteral : Publish(bytes(after), meaning, <<>>)
    <3> DEFINE named == {i \in SlotNamed(shellid) : shell[i] # Null}
               given == request = Null \/ shellid = Null
               none == hashmap_get(hm, TextKey) = <<>>
               publishes == \E after \in AfterLiteral : Publish(bytes(after), meaning, <<>>)
               takes == shell' = [i \in Slots |-> IF i \in named THEN [shell[i] EXCEPT !.request = request]
                                                  ELSE shell[i]]
    <3>1. IF given THEN Silent /\ UNCHANGED shell
          ELSE IF none THEN publishes /\ UNCHANGED shell
          ELSE takes /\ Silent
      BY <1>7 DEF Keys
    <3>2. ~given => request # Null /\ shellid # Null
      OBVIOUS
    <3> HIDE DEF named, given, none, publishes, takes
    <3>3. Silent \/ (~given /\ publishes)
      BY <3>1
    <3> QED
      BY <3>2, <3>3 DEF publishes
  <2> HIDE DEF request, shellid
  <2>2. ASSUME request # Null, shellid # Null, NEW after \in AfterLiteral, Publish(bytes(after), meaning, <<>>)
        PROVE  Answering'
    <3> DEFINE nothing == <<>>
               meant == [fields |-> meaning, text |-> nothing]
    <3>1. nothing \in Seq(Byte) /\ Len(nothing) <= 1024
      OBVIOUS
    <3>2. Publish(bytes(after), meaning, nothing) /\ bytes(after) = KeysAnswer(request, shellid, nothing, after)
      BY <2>2
    <3> HIDE DEF nothing
    <3>3. Answers(KeysAnswer(request, shellid, nothing, after), meant)
      BY <1>1, <2>2, <3>1, KeysAnswered
    <3> HIDE DEF bytes, meaning
    <3> QED
      BY <3>2, <3>3, PublishKeeps
  <2> QED
    BY <1>4, <2>1, <2>2
<1>8. CASE Status(hm)
  <2> DEFINE bytes(running) == StatusAnswer(request, project, running)
             meaning(running) == Meaning("status", request, [projectid |-> project, running |-> Text(running)])
  <2>1. \/ Silent
        \/ request # Null /\ project # Null /\ \E running \in BOOLEAN : Publish(bytes(running), meaning(running), Null)
    BY <1>8 DEF Status
  <2> HIDE DEF request, project
  <2>2. ASSUME request # Null, project # Null, NEW running \in BOOLEAN, Publish(bytes(running), meaning(running), Null)
        PROVE  Answering'
    <3>1. Answers(bytes(running), [fields |-> meaning(running), text |-> Null])
      BY <1>1, <2>2, StatusAnswered
    <3> HIDE DEF bytes, meaning
    <3> QED
      BY <2>2, <3>1, PublishKeeps
  <2> QED
    BY <1>4, <2>1, <2>2
<1>9. CASE Disconnect(hm)
  BY <1>4, <1>9 DEF Disconnect
<1>10. CASE Poweroff
  BY <1>4, <1>10 DEF Poweroff
<1> QED
  BY <1>3, <1>4, <1>5, <1>6, <1>7, <1>8, <1>9, <1>10

LEMMA OutputAnswered ==
  ASSUME CommandsInv, Answering, NEW i \in Slots, NEW text \in Outputs, ShellWrites(i, text)
  PROVE  Answering'
<1> DEFINE request == shell[i].request
           id == Digits(i)
           bytes(after) == KeysAnswer(request, id, text, after)
           meaning == Meaning("keys", request, [shellid |-> id])
<1>1. shell[i] # Null /\ (Silent \/ \E after \in AfterLiteral : Publish(bytes(after), meaning, text))
  BY DEF ShellWrites
<1>2. request \in Words /\ id \in Words
  <2>1. shell[i] \in OpenShells
    BY <1>1 DEF CommandsInv
  <2> QED
    BY <2>1, ShortWords DEF OpenShells
<1>3. text \in Seq(Byte) /\ Len(text) <= 1024
  <2> DEFINE sizes == 1 .. 1024
  <2>1. text \in Seq(Byte) /\ Len(text) \in sizes
    BY OutputsAssumption, ZenonT(60)
  <2>2. \A l \in sizes : l <= 1024
    BY SMT
  <2> HIDE DEF sizes
  <2>3. Len(text) <= 1024
    BY <2>1, <2>2
  <2> QED
    BY <2>1, <2>3
<1> HIDE DEF request, id
<1>4. ASSUME NEW after \in AfterLiteral, Publish(bytes(after), meaning, text) PROVE Answering'
  <2>1. Answers(bytes(after), [fields |-> meaning, text |-> text])
    BY <1>2, <1>3, KeysAnswered
  <2> HIDE DEF bytes, meaning
  <2> QED
    BY <1>4, <2>1, PublishKeeps
<1> QED
  BY <1>1, <1>4, SilentKeeps

LEMMA EndAnswered ==
  ASSUME CommandsInv, Answering, NEW i \in Slots, NEW code \in Codes, ShellEnds(i, code)
  PROVE  Answering'
<1> DEFINE request == shell[i].request
           id == Digits(i)
           bytes == CloseAnswer(request, id, code)
           meaning == Meaning("close", request, [shellid |-> id, code |-> code])
<1>1. shell[i] # Null /\ Publish(bytes, meaning, Null)
  BY DEF ShellEnds
<1>2. request \in Words /\ id \in Words
  <2>1. shell[i] \in OpenShells
    BY <1>1 DEF CommandsInv
  <2> QED
    BY <2>1, ShortWords DEF OpenShells
<1>3. code \in Words /\ Len(code) <= 7
  <2>1. code \in String /\ Len(code) <= 7
    BY CodesAssumption
  <2>2. Len(code) \in Nat
    BY <2>1, StringIsBytes
  <2>3. \A l \in Nat : l <= 7 => l <= 31
    BY SMT
  <2>4. code \in Short
    BY <2>1, <2>2, <2>3, ShortString, Zenon
  <2> QED
    BY <2>1, <2>4, ShortWords
<1> HIDE DEF request, id
<1>4. Answers(bytes, [fields |-> meaning, text |-> Null])
  BY <1>2, <1>3, CloseAnswered
<1> HIDE DEF bytes, meaning
<1> QED
  BY <1>1, <1>4, PublishKeeps

LEMMA AnswersNext ==
  ASSUME AnswersInv, [Next]_vars
  PROVE  AnswersInv'
<1>1. CommandsInv /\ Answering /\ Telling
  BY DEF AnswersInv
<1>2. CommandsInv'
  BY <1>1, CommandsNext
<1>3. ASSUME UNCHANGED <<answers, lost>> PROVE Answering'
  BY <1>1, <1>3 DEF Answering
<1>4. ASSUME UNCHANGED told PROVE Telling'
  BY <1>1, <1>4 DEF Telling
<1>5. ASSUME NEW stanza \in Stanzas, OwnerSends(stanza) PROVE Answering' /\ Telling'
  BY <1>3, <1>4, <1>5 DEF OwnerSends
<1>6. ASSUME HypervisorReceives PROVE Answering' /\ Telling'
  <2>1. requests # <<>> /\ Handle(onMessage(Head(requests).bytes)) /\ told' = told
    BY <1>6 DEF HypervisorReceives
  <2>2. requests \in Seq(Submitted)
    BY <1>1 DEF CommandsInv
  <2>3. Head(requests) \in Submitted
    BY <2>1, <2>2
  <2>4. PICK stanza \in KnownStanzas : Head(requests) = [bytes |-> shells(stanza), of |-> stanza]
    BY <2>3 DEF Submitted
  <2> DEFINE hm == onMessage(shells(stanza))
  <2>5. Handle(hm) /\ Hears(stanza, hm)
    BY <2>1, <2>4, KnownStanza
  <2> HIDE DEF hm
  <2>6. Answering'
    BY <1>1, <2>5, CommandAnswered
  <2> QED
    BY <1>4, <2>1, <2>6
<1>7. ASSUME NEW i \in Slots, NEW text \in Outputs, ShellWrites(i, text) PROVE Answering' /\ Telling'
  <2>1. Answering'
    BY <1>1, <1>7, OutputAnswered
  <2>2. UNCHANGED told
    BY <1>7 DEF ShellWrites
  <2> QED
    BY <1>4, <2>1, <2>2
<1>8. ASSUME NEW i \in Slots, NEW code \in Codes, ShellEnds(i, code) PROVE Answering' /\ Telling'
  <2>1. Answering'
    BY <1>1, <1>8, EndAnswered
  <2>2. UNCHANGED told
    BY <1>8 DEF ShellEnds
  <2> QED
    BY <1>4, <2>1, <2>2
<1>9. ASSUME ServerReceives PROVE Answering' /\ Telling'
  <2>1. /\ answers # <<>> /\ answers' = Tail(answers) /\ lost' = lost
        /\ told' = [stanza |-> onHypervisorMessage(Head(answers).bytes), of |-> Head(answers).of]
    BY <1>9 DEF ServerReceives
  <2>2. PICK S : answers \in Seq(S) /\ \A m \in S : Understood(m)
    BY <1>1 DEF Answering
  <2>3. Head(answers) \in S /\ Tail(answers) \in Seq(S)
    BY <2>1, <2>2
  <2>4. Understood(Head(answers))
    BY <2>2, <2>3
  <2>5. told'.stanza = onHypervisorMessage(Head(answers).bytes) /\ told'.of = Head(answers).of
    BY <2>1
  <2>6. Telling'
    BY <2>4, <2>5 DEF Telling, Understood
  <2>7. Answering'
    BY <1>1, <2>1, <2>2, <2>3 DEF Answering
  <2> QED
    BY <2>6, <2>7
<1>10. ASSUME UNCHANGED vars PROVE Answering' /\ Telling'
  BY <1>3, <1>4, <1>10 DEF vars
<1>11. Answering' /\ Telling'
  BY <1>5, <1>6, <1>7, <1>8, <1>9, <1>10 DEF Next
<1> QED
  BY <1>2, <1>11 DEF AnswersInv

\* At every moment: each answer on its way to the server is one that the server
\* will understand as it was meant, and no answer was lost but for its length.
THEOREM AnswersInvHolds == Spec => []AnswersInv
<1>1. Init => AnswersInv
  <2> SUFFICES ASSUME Init PROVE AnswersInv
    OBVIOUS
  <2>1. CommandsInv
    <3>1. <<>> \in Seq(Submitted) /\ <<>> \in Seq(Stanzas) /\ [i \in Slots |-> Null] \in [Slots -> OpenShells \cup {Null}]
      OBVIOUS
    <3> QED
      BY <3>1 DEF Init, CommandsInv
  <2>2. Answering
    <3>1. answers = <<>> /\ lost = {}
      BY DEF Init
    <3>2. answers \in Seq({}) /\ \A m \in {} : Understood(m)
      BY <3>1
    <3> QED
      BY <3>1, <3>2 DEF Answering
  <2>3. Telling
    BY DEF Init, Telling
  <2> QED
    BY <2>1, <2>2, <2>3 DEF AnswersInv
<1>2. AnswersInv /\ [Next]_vars => AnswersInv'
  BY AnswersNext
<1> QED
  BY <1>1, <1>2, PTL DEF Spec

\* The owner is told what the hypervisor meant, for every request, shell, output
\* and code: the map, the strings of C and base64 lose nothing of it.
THEOREM AnswersAreUnderstoodAlways == Spec => []AnswersAreUnderstood
<1>1. AnswersInv => AnswersAreUnderstood
  <2> SUFFICES ASSUME AnswersInv, told # Null PROVE AnswersAreUnderstood
    BY DEF AnswersAreUnderstood
  <2>1. TellsOf(told.stanza, told.of)
    BY DEF AnswersInv, Telling
  <2> QED
    BY <2>1 DEF TellsOf, AnswersAreUnderstood
<1> QED
  BY <1>1, AnswersInvHolds, PTL

\* An answer is lost only for a long request, identifier of a shell or of a
\* project, and never for the text of the shell, however long it may be.
THEOREM ShortRequestsAreAnsweredAlways == Spec => []ShortRequestsAreAnswered
<1>1. AnswersInv => ShortRequestsAreAnswered
  BY DEF AnswersInv, Answering, IsLong, ShortRequestsAreAnswered
<1> QED
  BY <1>1, AnswersInvHolds, PTL
=============================================================================
