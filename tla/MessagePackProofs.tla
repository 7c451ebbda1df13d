---------------------------- MODULE MessagePackProofs ----------------------------
(***************************************************************************)
(* What the writers and the readers of cmp.c do with one object: the bytes *)
(* an object becomes, that a reader finds in them the object again at any  *)
(* place of any buffer, and that a writer gives a number or a length a     *)
(* type that holds it.  A sequence of pieces is followed with an induction *)
(* stated on sets, because the library's takes an operator.                *)
(***************************************************************************)
EXTENDS MessagePackReader, SequenceTheorems, NaturalsInduction, WellFoundedInduction, TLAPS

-----------------------------------------------------------------------------
(* Induction and recursion over numbers *)

LEMMA UpTo ==
  ASSUME NEW a \in Nat, NEW n \in Nat, NEW S, a \in S,
         \A i \in a + 1 .. n : i - 1 \in S => i \in S
  PROVE  \A i \in a .. n : i \in S
<1> DEFINE T == (a .. n) \ S
<1> SUFFICES ASSUME T # {} PROVE FALSE
  OBVIOUS
<1>1. T \subseteq Nat
  OBVIOUS
<1>2. IsWellFoundedOn(OpToRel(<, Nat), Nat)
  BY NatLessThanWellFounded
<1>3. PICK x \in T : \A y \in T : ~(<<y, x>> \in OpToRel(<, Nat))
  BY <1>1, <1>2, WFMin, Zenon
<1>4. \A y \in T : ~(y < x)
  <2> HIDE DEF T
  <2> QED
    BY <1>1, <1>3 DEF OpToRel
<1>5. x \in a + 1 .. n /\ x - 1 \in a .. n /\ x - 1 < x
  OBVIOUS
<1>6. x - 1 \in S
  BY <1>4, <1>5
<1> QED
  BY <1>5, <1>6

Recursive(f, a, n, base, step) ==
  f[a] = base /\ \A i \in a + 1 .. n : f[i] = step[<<f[i - 1], i>>]

LEMMA Recursion ==
  ASSUME NEW X, NEW a \in Nat, NEW n \in Nat, a <= n, NEW base \in X, NEW step \in [X \X Nat -> X]
  PROVE  \E f \in [a .. n -> X] : Recursive(f, a, n, base, step)
<1> DEFINE Good(k, f) == f[a] = base /\ \A i \in a + 1 .. k : f[i] = step[<<f[i - 1], i>>]
           S == {k \in Nat : \E f \in [a .. k -> X] : Good(k, f)}
<1>1. a \in S
  <2>1. [i \in a .. a |-> base] \in [a .. a -> X] /\ Good(a, [i \in a .. a |-> base])
    OBVIOUS
  <2> QED
    BY <2>1
<1>2. ASSUME NEW k \in a + 1 .. n, k - 1 \in S PROVE k \in S
  <2>1. PICK f \in [a .. k - 1 -> X] : Good(k - 1, f)
    BY <1>2
  <2> HIDE DEF S
  <2> DEFINE g == [i \in a .. k |-> IF i < k THEN f[i] ELSE step[<<f[k - 1], k>>]]
  <2>2. f[k - 1] \in X /\ k \in Nat
    OBVIOUS
  <2>3. g \in [a .. k -> X]
    BY <2>2
  <2>4. \A i \in a .. k - 1 : g[i] = f[i]
    OBVIOUS
  <2>5. g[k] = step[<<g[k - 1], k>>]
    <3>1. k \in a .. k /\ k - 1 \in a .. k - 1
      OBVIOUS
    <3>2. g[k] = step[<<f[k - 1], k>>]
      BY <3>1
    <3>3. g[k - 1] = f[k - 1]
      BY <2>4, <3>1
    <3> QED
      BY <3>2, <3>3, Zenon
  <2>6. \A i \in a + 1 .. k - 1 : g[i] = step[<<g[i - 1], i>>]
    BY <2>1, <2>4
  <2>7. g[a] = base
    BY <2>1, <2>4
  <2> HIDE DEF g
  <2>8. Good(k, g)
    <3>1. \A i \in a + 1 .. k : i \in a + 1 .. k - 1 \/ i = k
      OBVIOUS
    <3> QED
      BY <2>5, <2>6, <2>7, <3>1
  <2> QED
    BY <2>3, <2>8 DEF S
<1> HIDE DEF S
<1>3. n \in S
  BY <1>1, <1>2, UpTo
<1> QED
  BY <1>3 DEF S, Recursive

Flattening(f, s) ==
  /\ f[1] = s[1]
  /\ \A i \in 2 .. Len(s) : f[i] = f[i - 1] \o s[i]
  /\ FlattenSeq(s) = f[Len(s)]

LEMMA FlattenSteps ==
  ASSUME NEW X, NEW s \in Seq(Seq(X)), s # <<>>
  PROVE  \E f \in [1 .. Len(s) -> Seq(X)] : Flattening(f, s)
<1> DEFINE N == Len(s)
           step == [p \in Seq(X) \X Nat |-> IF p[2] \in 1 .. N THEN p[1] \o s[p[2]] ELSE p[1]]
<1>1. step \in [Seq(X) \X Nat -> Seq(X)]
  OBVIOUS
<1>2. N \in Nat /\ 1 <= N /\ s[1] \in Seq(X)
  OBVIOUS
<1>3. PICK f \in [1 .. N -> Seq(X)] : f[1] = s[1] /\ \A i \in 2 .. N : f[i] = step[<<f[i - 1], i>>]
  <2> HIDE DEF step, N
  <2>1. \E f \in [1 .. N -> Seq(X)] : Recursive(f, 1, N, s[1], step)
    BY <1>1, <1>2, 1 \in Nat, Recursion, Zenon
  <2> QED
    BY <2>1, 1 + 1 = 2 DEF Recursive
<1>4. \A i \in 2 .. N : f[i] = f[i - 1] \o s[i]
  <2> SUFFICES ASSUME NEW i \in 2 .. N PROVE step[<<f[i - 1], i>>] = f[i - 1] \o s[i]
    BY <1>3
  <2>1. i - 1 \in 1 .. N /\ i \in 1 .. N /\ i \in Nat
    BY <1>2
  <2>2. f[i - 1] \in Seq(X)
    BY <2>1
  <2>3. <<f[i - 1], i>> \in Seq(X) \X Nat
    BY <2>1, <2>2
  <2> QED
    BY <2>1, <2>3
<1> HIDE DEF step
<1> DEFINE Body(g) == [i \in 1 .. N |-> IF i = 1 THEN s[i] ELSE g[i - 1] \o s[i]]
           ff == CHOOSE g : g = Body(g)
<1>5. f = Body(f)
  <2>1. \A i \in 1 .. N : f[i] = IF i = 1 THEN s[i] ELSE f[i - 1] \o s[i]
    <3>1. \A i \in 1 .. N : i = 1 \/ i \in 2 .. N
      OBVIOUS
    <3> QED
      BY <1>3, <1>4, <3>1
  <2> QED
    BY <2>1
<1>6. ff = Body(ff)
  <2> HIDE DEF Body
  <2> QED BY <1>5
<1>7. FlattenSeq(s) = ff[N]
  BY DEF FlattenSeq
<1> HIDE DEF ff
<1>8. \A i \in 1 .. N : ff[i] = IF i = 1 THEN s[i] ELSE ff[i - 1] \o s[i]
  BY <1>6
<1> HIDE DEF Body
<1>9. ff[N] = f[N]
  <2> DEFINE S == {i \in 1 .. N : ff[i] = f[i]}
  <2>1. 1 \in S
    BY <1>2, <1>3, <1>8
  <2>2. ASSUME NEW i \in 2 .. N, i - 1 \in S PROVE i \in S
    <3>1. i \in 1 .. N /\ i - 1 \in 1 .. N /\ i # 1
      BY <1>2
    <3>2. ff[i] = ff[i - 1] \o s[i] /\ f[i] = f[i - 1] \o s[i]
      BY <1>4, <1>8, <3>1
    <3> QED
      BY <2>2, <3>1, <3>2
  <2> HIDE DEF S
  <2>3. \A i \in 1 + 1 .. N : i - 1 \in S => i \in S
    BY <2>2
  <2>4. \A i \in 1 .. N : i \in S
    BY <2>1, <2>3, <1>2, UpTo
  <2>5. N \in S
    BY <2>4, <1>2
  <2> QED BY <2>5 DEF S
<1> QED
  BY <1>3, <1>4, <1>7, <1>9 DEF Flattening

-----------------------------------------------------------------------------
(* FlattenSeq *)

LEMMA FlattenType ==
  ASSUME NEW X, NEW s \in Seq(Seq(X))
  PROVE  FlattenSeq(s) \in Seq(X)
<1>1. CASE s = <<>>
  BY <1>1 DEF FlattenSeq
<1>2. CASE s # <<>>
  <2>1. Len(s) \in 1 .. Len(s)
    BY <1>2
  <2>2. PICK f \in [1 .. Len(s) -> Seq(X)] : Flattening(f, s)
    BY <1>2, FlattenSteps
  <2> QED
    BY <2>1, <2>2 DEF Flattening
<1> QED
  BY <1>1, <1>2

LEMMA FlattenEmpty == FlattenSeq(<<>>) = <<>>
  BY DEF FlattenSeq

LEMMA FlattenAppend ==
  ASSUME NEW X, NEW s \in Seq(Seq(X)), NEW e \in Seq(X)
  PROVE  FlattenSeq(Append(s, e)) = FlattenSeq(s) \o e
<1> DEFINE t == Append(s, e)
           N == Len(s)
<1>1. /\ t \in Seq(Seq(X)) /\ t # <<>> /\ Len(t) = N + 1
      /\ t[N + 1] = e /\ \A i \in 1 .. N : t[i] = s[i]
  <2>1. t \in Seq(Seq(X)) /\ Len(t) = N + 1
    OBVIOUS
  <2>2. t[N + 1] = e /\ \A i \in 1 .. N : t[i] = s[i]
    OBVIOUS
  <2> QED
    BY <2>1, <2>2
<1>2. N \in Nat
  OBVIOUS
<1> HIDE DEF t
<1>3. PICK g \in [1 .. N + 1 -> Seq(X)] :
        g[1] = t[1] /\ (\A i \in 2 .. N + 1 : g[i] = g[i - 1] \o t[i]) /\ FlattenSeq(t) = g[N + 1]
  <2>1. PICK g \in [1 .. Len(t) -> Seq(X)] : Flattening(g, t)
    BY <1>1, FlattenSteps
  <2> QED
    BY <1>1, <2>1 DEF Flattening
<1>4. CASE s = <<>>
  <2>1. FlattenSeq(t) = e
    BY <1>1, <1>3, <1>4
  <2>2. FlattenSeq(s) = <<>>
    BY <1>4, FlattenEmpty
  <2> QED
    BY <2>1, <2>2 DEF t
<1>5. CASE s # <<>>
  <2>1. N >= 1
    BY <1>5
  <2>2. PICK f \in [1 .. N -> Seq(X)] :
          f[1] = s[1] /\ (\A i \in 2 .. N : f[i] = f[i - 1] \o s[i]) /\ FlattenSeq(s) = f[N]
    BY <1>5, FlattenSteps DEF Flattening
  <2> DEFINE S == {i \in 1 .. N : g[i] = f[i]}
  <2>3. 1 \in S
    BY <1>1, <1>3, <2>1, <2>2
  <2>4. ASSUME NEW i \in 1 + 1 .. N, i - 1 \in S PROVE i \in S
    <3>1. i \in 1 .. N /\ i \in 2 .. N /\ i \in 2 .. N + 1 /\ g[i - 1] = f[i - 1]
      BY <1>2, <2>4
    <3>2. g[i] = g[i - 1] \o t[i] /\ f[i] = f[i - 1] \o s[i] /\ t[i] = s[i]
      BY <1>1, <1>3, <2>2, <3>1
    <3> QED
      BY <3>1, <3>2
  <2> HIDE DEF S
  <2>5. \A i \in 1 .. N : i \in S
    BY <2>3, <2>4, <1>2, UpTo
  <2>6. g[N] = f[N]
    BY <2>5, <2>1, <1>2 DEF S
  <2>7. N + 1 \in 2 .. N + 1 /\ (N + 1) - 1 = N
    BY <1>2, <2>1
  <2>8. g[N + 1] = g[N] \o t[N + 1]
    BY <1>3, <2>7
  <2> QED
    BY <1>1, <1>3, <2>2, <2>6, <2>8 DEF t
<1> QED
  BY <1>4, <1>5

LEMMA FlattenPieces ==
  ASSUME NEW X, NEW a \in Seq(X), NEW b \in Seq(X)
  PROVE  FlattenSeq(<<a>>) = a /\ FlattenSeq(<<a, b>>) = a \o b
<1>1. <<>> \in Seq(Seq(X)) /\ <<a>> = Append(<<>>, a) /\ <<>> \o a = a
  OBVIOUS
<1>2. <<a>> \in Seq(Seq(X)) /\ <<a, b>> = Append(<<a>>, b)
  OBVIOUS
<1>3. FlattenSeq(<<a>>) = a
  BY <1>1, FlattenEmpty, FlattenAppend
<1> QED
  BY <1>2, <1>3, FlattenAppend

Joined(a, b, c) == a \o (b \o c)

LEMMA FlattenThree ==
  ASSUME NEW X, NEW a \in Seq(X), NEW b \in Seq(X), NEW c \in Seq(X)
  PROVE  FlattenSeq(<<a, b, c>>) = Joined(a, b, c)
<1>1. <<a, b>> \in Seq(Seq(X)) /\ <<a, b, c>> = Append(<<a, b>>, c)
  OBVIOUS
<1>2. FlattenSeq(<<a, b>>) = a \o b
  BY FlattenPieces
<1>3. FlattenSeq(<<a, b, c>>) = FlattenSeq(<<a, b>>) \o c
  BY <1>1, FlattenAppend
<1>4. (a \o b) \o c = a \o (b \o c)
  OBVIOUS
<1> QED
  BY <1>2, <1>3, <1>4 DEF Joined

\* What the beginnings of a sequence of sequences become.
Beginnings(s) == [i \in 0 .. Len(s) |-> FlattenSeq(SubSeq(s, 1, i))]

LEMMA BeginningsGrow ==
  ASSUME NEW X, NEW s \in Seq(Seq(X))
  PROVE  LET f == Beginnings(s)
         IN  /\ f[0] = <<>> /\ f[Len(s)] = FlattenSeq(s)
             /\ \A i \in 0 .. Len(s) : f[i] \in Seq(X)
             /\ \A i \in 1 .. Len(s) : f[i] = f[i - 1] \o s[i]
<1> DEFINE f == Beginnings(s)
<1>1. \A i \in 0 .. Len(s) : f[i] = FlattenSeq(SubSeq(s, 1, i))
  BY DEF Beginnings
<1> HIDE DEF f
<1>2. \A i \in 0 .. Len(s) : f[i] \in Seq(X)
  <2>1. \A i \in 0 .. Len(s) : SubSeq(s, 1, i) \in Seq(Seq(X))
    OBVIOUS
  <2> QED
    BY <1>1, <2>1, FlattenType
<1>3. \A i \in 1 .. Len(s) : f[i] = f[i - 1] \o s[i]
  <2> TAKE i \in 1 .. Len(s)
  <2>1. SubSeq(s, 1, i) = Append(SubSeq(s, 1, i - 1), s[i]) /\ s[i] \in Seq(X)
    OBVIOUS
  <2>2. SubSeq(s, 1, i - 1) \in Seq(Seq(X))
    OBVIOUS
  <2>3. FlattenSeq(SubSeq(s, 1, i)) = FlattenSeq(SubSeq(s, 1, i - 1)) \o s[i]
    BY <2>1, <2>2, FlattenAppend
  <2>4. i \in 0 .. Len(s) /\ i - 1 \in 0 .. Len(s)
    OBVIOUS
  <2> QED
    BY <1>1, <2>3, <2>4
<1>4. f[0] = <<>>
  <2>1. SubSeq(s, 1, 0) = <<>> /\ 0 \in 0 .. Len(s)
    OBVIOUS
  <2> QED
    BY <1>1, <2>1, FlattenEmpty
<1>5. f[Len(s)] = FlattenSeq(s)
  <2>1. SubSeq(s, 1, Len(s)) = s /\ Len(s) \in 0 .. Len(s)
    BY SubSeqFull
  <2> QED
    BY <1>1, <2>1
<1> QED
  BY <1>2, <1>3, <1>4, <1>5 DEF f

\* What is left out of a sequence of sequences is left out at the end.
LEMMA FlattenSplit ==
  ASSUME NEW X, NEW s \in Seq(Seq(X)), NEW k \in 0 .. Len(s)
  PROVE  \E rest \in Seq(X) : FlattenSeq(s) = FlattenSeq(SubSeq(s, 1, k)) \o rest
<1> DEFINE f == Beginnings(s)
           S == {i \in k .. Len(s) : \E rest \in Seq(X) : f[i] = f[k] \o rest}
<1>1. k \in Nat /\ Len(s) \in Nat /\ k <= Len(s)
  OBVIOUS
<1>2. \A i \in 0 .. Len(s) : f[i] \in Seq(X)
  BY BeginningsGrow
<1>3. \A i \in 1 .. Len(s) : f[i] = f[i - 1] \o s[i]
  BY BeginningsGrow
<1>4. f[Len(s)] = FlattenSeq(s) /\ f[k] = FlattenSeq(SubSeq(s, 1, k))
  BY BeginningsGrow DEF Beginnings
<1> HIDE DEF f
<1>5. k \in S
  <2>1. f[k] = f[k] \o <<>> /\ <<>> \in Seq(X)
    BY <1>2, ConcatEmptySeq
  <2>2. k \in k .. Len(s)
    BY <1>1
  <2> QED
    BY <2>1, <2>2, Zenon
<1>6. ASSUME NEW i \in k + 1 .. Len(s), i - 1 \in S PROVE i \in S
  <2>1. PICK r \in Seq(X) : f[i - 1] = f[k] \o r
    BY <1>6
  <2>2. i \in 1 .. Len(s) /\ s[i] \in Seq(X) /\ f[k] \in Seq(X)
    BY <1>1, <1>2
  <2>3. f[i] = f[k] \o (r \o s[i]) /\ r \o s[i] \in Seq(X)
    <3>1. f[i] = (f[k] \o r) \o s[i]
      BY <1>3, <2>1, <2>2
    <3>2. (f[k] \o r) \o s[i] = f[k] \o (r \o s[i])
      <4> DEFINE u == f[k]
                 v == s[i]
      <4>1. u \in Seq(X) /\ v \in Seq(X)
        BY <2>2
      <4> HIDE DEF u, v
      <4>2. (u \o r) \o v = u \o (r \o v)
        BY <4>1
      <4> QED
        BY <4>2 DEF u, v
    <3> QED
      BY <2>2, <3>1, <3>2
  <2>4. i \in k .. Len(s)
    BY <1>1
  <2> QED
    BY <2>3, <2>4
<1> HIDE DEF S
<1>7. \A i \in k .. Len(s) : i \in S
  BY <1>1, <1>5, <1>6, UpTo
<1>8. Len(s) \in S
  BY <1>1, <1>7
<1> QED
  BY <1>4, <1>8 DEF S

-----------------------------------------------------------------------------
(* The writers *)

\* A writer writes the first pieces, up to one that is empty or does not fit.
Stops(buf, limit, pieces, k) ==
  /\ Write(buf, limit, pieces).out = buf \o FlattenSeq(SubSeq(pieces, 1, k))
  /\ Write(buf, limit, pieces).ok <=> k = Len(pieces)
  /\ \A i \in 1 .. k : pieces[i] # <<>>
  /\ Len(buf \o FlattenSeq(SubSeq(pieces, 1, k))) <= limit
  /\ k < Len(pieces) =>
       \/ pieces[k + 1] = <<>>
       \/ Len(buf \o FlattenSeq(SubSeq(pieces, 1, k))) + Len(pieces[k + 1]) > limit

LEMMA WriteStops ==
  ASSUME NEW X, NEW buf \in Seq(X), NEW limit \in Nat, NEW pieces \in Seq(Seq(X)), Len(buf) <= limit
  PROVE  \E k \in 0 .. Len(pieces) : Stops(buf, limit, pieces, k)
<1> DEFINE N == Len(pieces)
           R == [out : Seq(X), ok : BOOLEAN]
           after(w, i) == IF w.ok /\ pieces[i] # <<>> /\ Fits(w.out, pieces[i], limit)
                          THEN [out |-> w.out \o pieces[i], ok |-> TRUE]
                          ELSE [out |-> w.out, ok |-> FALSE]
           start == [out |-> buf, ok |-> TRUE]
           Body(g) == [i \in 0 .. N |-> IF i = 0 THEN start ELSE after(g[i - 1], i)]
           w == CHOOSE g : g = Body(g)
           step == [p \in R \X Nat |-> IF p[2] \in 1 .. N THEN after(p[1], p[2]) ELSE p[1]]
<1>1. N \in Nat /\ start \in R
  OBVIOUS
<1>2. \A v \in R, i \in 1 .. N : after(v, i) \in R
  <2> TAKE v \in R, i \in 1 .. N
  <2>1. pieces[i] \in Seq(X) /\ v.out \in Seq(X)
    OBVIOUS
  <2>2. v.out \o pieces[i] \in Seq(X)
    BY <2>1
  <2> QED
    BY <2>1, <2>2
<1>3. Write(buf, limit, pieces) = w[N]
  BY DEF Write
<1> HIDE DEF after, start
<1>4. step \in [R \X Nat -> R]
  BY <1>2
<1>5. PICK f \in [0 .. N -> R] : Recursive(f, 0, N, start, step)
  <2> HIDE DEF step, N, R
  <2> QED
    BY <1>1, <1>4, 0 \in Nat, 0 <= N, Recursion, Zenon
<1>6. \A i \in 1 .. N : f[i] = after(f[i - 1], i)
  <2> SUFFICES ASSUME NEW i \in 1 .. N PROVE f[i] = after(f[i - 1], i)
    OBVIOUS
  <2>1. i \in 0 + 1 .. N /\ i - 1 \in 0 .. N /\ i \in Nat
    BY <1>1
  <2>2. <<f[i - 1], i>> \in R \X Nat
    BY <2>1
  <2>3. f[i] = step[<<f[i - 1], i>>]
    BY <1>5, <2>1 DEF Recursive
  <2> QED
    BY <2>2, <2>3
<1> HIDE DEF step, N, R
<1>7. f = Body(f)
  <2>1. \A i \in 0 .. N : f[i] = IF i = 0 THEN start ELSE after(f[i - 1], i)
    <3>1. \A i \in 0 .. N : i = 0 \/ i \in 1 .. N
      BY <1>1
    <3> QED
      BY <1>5, <1>6, <3>1 DEF Recursive
  <2> QED
    BY <2>1
<1>8. w = Body(w)
  <2> HIDE DEF Body
  <2> QED
    BY <1>7
<1> HIDE DEF w
<1>9. w[0] = start /\ \A i \in 1 .. N : w[i] = after(w[i - 1], i)
  BY <1>8, <1>1
<1> HIDE DEF Body
<1> DEFINE F == Beginnings(pieces)
<1>10. /\ F[0] = <<>> /\ \A i \in 0 .. N : F[i] \in Seq(X)
       /\ \A i \in 1 .. N : F[i] = F[i - 1] \o pieces[i]
       /\ \A i \in 0 .. N : F[i] = FlattenSeq(SubSeq(pieces, 1, i))
  BY BeginningsGrow DEF N, Beginnings
<1> HIDE DEF F
<1> DEFINE At(k, i) ==
             /\ w[i].out = buf \o F[k] /\ (w[i].ok <=> k = i)
             /\ \A j \in 1 .. k : pieces[j] # <<>>
             /\ Len(buf \o F[k]) <= limit
             /\ k < i => pieces[k + 1] = <<>> \/ Len(buf \o F[k]) + Len(pieces[k + 1]) > limit
           S == {i \in 0 .. N : \E k \in 0 .. i : At(k, i)}
<1>11. 0 \in S
  <2>1. buf \o F[0] = buf
    BY <1>10
  <2>2. w[0].out = buf \o F[0] /\ w[0].ok
    BY <1>9, <2>1 DEF start
  <2>3. Len(buf \o F[0]) <= limit
    BY <2>1
  <2>4. At(0, 0)
    BY <2>2, <2>3
  <2>5. 0 \in 0 .. N /\ 0 \in 0 .. 0
    BY <1>1
  <2> HIDE DEF At
  <2> QED
    BY <2>4, <2>5
<1>12. ASSUME NEW i \in 0 + 1 .. N, i - 1 \in S PROVE i \in S
  <2>1. PICK k \in 0 .. i - 1 : At(k, i - 1)
    BY <1>12
  <2> HIDE DEF S
  <2>2. i \in 1 .. N /\ i \in 0 .. N /\ k \in 0 .. N /\ k \in Nat /\ k \in 0 .. i /\ i \in Nat
    BY <1>1
  <2>3. w[i] = after(w[i - 1], i)
    BY <1>9, <2>2
  <2>4. pieces[i] \in Seq(X) /\ F[k] \in Seq(X)
    BY <1>10, <2>2 DEF N
  <2>5. Len(buf \o F[k]) \in Nat /\ Len(pieces[i]) \in Nat
    BY <2>4
  <2>6. w[i - 1].out = buf \o F[k] /\ (w[i - 1].ok <=> k = i - 1)
    BY <2>1
  <2>7. CASE k = i - 1 /\ pieces[i] # <<>> /\ Len(buf \o F[k]) + Len(pieces[i]) <= limit
    <3>1. F[i] = F[k] \o pieces[i]
      BY <1>10, <2>2, <2>7
    <3>2. (buf \o F[k]) \o pieces[i] = buf \o F[i]
      <4> DEFINE u == F[k]
                 v == pieces[i]
      <4>1. u \in Seq(X) /\ v \in Seq(X)
        BY <2>4
      <4> HIDE DEF u, v
      <4>2. (buf \o u) \o v = buf \o (u \o v)
        BY <4>1
      <4> QED
        BY <3>1, <4>2 DEF u, v
    <3>3. w[i].out = buf \o F[i] /\ w[i].ok
      <4>1. w[i - 1].ok /\ Fits(w[i - 1].out, pieces[i], limit)
        BY <2>6, <2>7 DEF Fits
      <4> DEFINE v == w[i - 1].out
      <4>2. w[i] = [out |-> v \o pieces[i], ok |-> TRUE]
        BY <2>3, <2>7, <4>1, Zenon DEF after
      <4>3. v = buf \o F[k]
        BY <2>6
      <4> HIDE DEF v
      <4>4. w[i].out = v \o pieces[i] /\ w[i].ok
        BY <4>2
      <4>5. v \o pieces[i] = buf \o F[i]
        BY <3>2, <4>3
      <4> QED
        BY <4>4, <4>5
    <3>4. Len(buf \o F[i]) <= limit
      <4>1. Len((buf \o F[k]) \o pieces[i]) = Len(buf \o F[k]) + Len(pieces[i])
        BY <2>4
      <4> QED
        BY <2>7, <3>2, <4>1
    <3>5. \A j \in 1 .. i : pieces[j] # <<>>
      BY <2>1, <2>2, <2>7
    <3>6. ~(i < i)
      BY <2>2
    <3>7. At(i, i)
      BY <3>3, <3>4, <3>5, <3>6, Zenon
    <3> HIDE DEF At
    <3> QED
      BY <2>2, <3>7 DEF S
  <2>8. CASE k < i - 1 \/ pieces[i] = <<>> \/ Len(buf \o F[k]) + Len(pieces[i]) > limit
    <3>1. ~(w[i - 1].ok /\ pieces[i] # <<>> /\ Fits(w[i - 1].out, pieces[i], limit))
      <4>1. CASE k < i - 1
        <5>1. k # i - 1
          BY <2>2, <4>1
        <5> QED
          BY <2>6, <5>1, Zenon
      <4>2. CASE pieces[i] = <<>>
        BY <4>2, Zenon
      <4>3. CASE Len(buf \o F[k]) + Len(pieces[i]) > limit
        <5>1. ~(Len(buf \o F[k]) + Len(pieces[i]) <= limit)
          <6> DEFINE m == Len(buf \o F[k])
                     n == Len(pieces[i])
          <6>1. m \in Nat /\ n \in Nat /\ m + n > limit
            BY <2>5, <4>3, Zenon
          <6> HIDE DEF m, n
          <6>2. ~(m + n <= limit)
            BY <6>1
          <6> QED
            BY <6>2 DEF m, n
        <5>2. ~Fits(w[i - 1].out, pieces[i], limit)
          BY <2>6, <5>1, Zenon DEF Fits
        <5> QED
          BY <5>2, Zenon
      <4> QED
        BY <2>8, <4>1, <4>2, <4>3
    <3>2. w[i].out = w[i - 1].out /\ w[i].ok = FALSE
      BY <2>3, <3>1 DEF after
    <3>3. k < i /\ k # i
      BY <2>2
    <3>4. pieces[k + 1] = <<>> \/ Len(buf \o F[k]) + Len(pieces[k + 1]) > limit
      <4>1. k < i - 1 \/ k + 1 = i
        BY <2>2
      <4> QED
        BY <2>1, <2>8, <4>1
    <3>5. (\A j \in 1 .. k : pieces[j] # <<>>) /\ Len(buf \o F[k]) <= limit
      BY <2>1
    <3>6. At(k, i)
      BY <2>6, <3>2, <3>3, <3>4, <3>5
    <3> HIDE DEF At
    <3> QED
      BY <2>2, <3>6 DEF S
  <2> HIDE DEF At
  <2> QED
    <3>1. k < i - 1 \/ k = i - 1
      BY <2>2
    <3>2. \/ Len(buf \o F[k]) + Len(pieces[i]) <= limit
          \/ Len(buf \o F[k]) + Len(pieces[i]) > limit
      <4> DEFINE m == Len(buf \o F[k])
                 n == Len(pieces[i])
      <4>1. m \in Nat /\ n \in Nat
        BY <2>5, Zenon
      <4> HIDE DEF m, n
      <4>2. m + n <= limit \/ m + n > limit
        BY <4>1
      <4> QED
        BY <4>2 DEF m, n
    <3> QED
      BY <2>7, <2>8, <3>1, <3>2, Zenon
<1> HIDE DEF S
<1>13. N \in S
  <2>1. \A i \in 0 .. N : i \in S
    BY <1>1, <1>11, <1>12, UpTo
  <2> QED
    BY <1>1, <2>1
<1>14. PICK k \in 0 .. N : At(k, N)
  BY <1>13 DEF S
<1> QED
  BY <1>3, <1>10, <1>14 DEF Stops, N

-----------------------------------------------------------------------------
(* Numbers and bytes *)

Bytes8 == [1 .. 8 -> Byte]

LEMMA EightBytes == Bytes8 \subseteq Seq(Byte) /\ \A n \in Bytes8 : Len(n) = 8
<1>1. ASSUME NEW n \in Bytes8 PROVE n \in Seq(Byte) /\ Len(n) = 8
  <2>1. n \in UNION {[1 .. k -> Byte] : k \in Nat}
    BY 8 \in Nat DEF Bytes8
  <2>2. n \in Seq(Byte)
    BY <2>1, SeqDef
  <2>3. DOMAIN n = 1 .. 8
    BY DEF Bytes8
  <2> QED
    BY <2>2, <2>3
<1> QED
  BY <1>1

LEMMA FourBytes ==
  ASSUME NEW n \in [1 .. 4 -> Byte]
  PROVE  n \in Seq(Byte) /\ Len(n) = 4
<1>1. n \in UNION {[1 .. k -> Byte] : k \in Nat} /\ DOMAIN n = 1 .. 4
  OBVIOUS
<1>2. n \in Seq(Byte)
  BY <1>1, SeqDef
<1> QED
  BY <1>1, <1>2

LEMMA ExtendBytes ==
  ASSUME NEW b \in Seq(Byte), Len(b) \in {1, 2, 4, 8}, NEW with \in Byte
  PROVE  /\ Extend(b, with) \in Bytes8
         /\ \A i \in 1 .. 8 : Extend(b, with)[i] = IF i <= 8 - Len(b) THEN with ELSE b[i - (8 - Len(b))]
<1> DEFINE k == 8 - Len(b)
           fill == [i \in 1 .. k |-> with]
           z == fill \o b
<1>1. k \in Nat /\ Len(b) \in Nat /\ k + Len(b) = 8
  <2> DEFINE m == Len(b)
  <2>1. m = 1 \/ m = 2 \/ m = 4 \/ m = 8
    OBVIOUS
  <2> HIDE DEF m
  <2>2. 8 - m \in Nat /\ m \in Nat /\ (8 - m) + m = 8
    BY <2>1
  <2> QED
    BY <2>2 DEF m
<1>2. Extend(b, with) = z
  BY DEF Extend
<1> HIDE DEF k
<1>3. fill \in Seq(Byte) /\ Len(fill) = k
  <2>1. fill \in [1 .. k -> Byte]
    OBVIOUS
  <2>2. fill \in UNION {[1 .. j -> Byte] : j \in Nat}
    BY <1>1, <2>1
  <2>3. fill \in Seq(Byte)
    BY <2>2, SeqDef
  <2> QED
    BY <1>1, <2>3
<1>4. \A i \in 1 .. k : fill[i] = with
  OBVIOUS
<1> HIDE DEF fill
<1>5. z \in Seq(Byte) /\ Len(z) = 8 /\ \A i \in 1 .. 8 : z[i] = IF i <= k THEN fill[i] ELSE b[i - k]
  <2>1. /\ z \in Seq(Byte) /\ Len(z) = Len(fill) + Len(b)
        /\ \A i \in 1 .. Len(fill) + Len(b) : z[i] = IF i <= Len(fill) THEN fill[i] ELSE b[i - Len(fill)]
    BY <1>3, ConcatProperties
  <2> QED
    BY <1>1, <1>3, <2>1, Zenon
<1> HIDE DEF z
<1>6. \A i \in 1 .. 8 : z[i] = IF i <= k THEN with ELSE b[i - k]
  BY <1>1, <1>4, <1>5
<1>7. z \in Bytes8
  BY <1>5, LenProperties DEF Bytes8
<1> QED
  BY <1>2, <1>6, <1>7 DEF k

LEMMA LowBytes ==
  ASSUME NEW n \in Bytes8, NEW w \in {1, 2, 4, 8}
  PROVE  /\ Low(n, w) \in Seq(Byte) /\ Len(Low(n, w)) = w
         /\ \A i \in 1 .. w : Low(n, w)[i] = n[8 - w + i]
<1>1. n \in Seq(Byte) /\ Len(n) = 8
  BY EightBytes
<1>2. 9 - w \in Int /\ 9 - w <= 8 /\ 9 - w >= 1
  OBVIOUS
<1>3. \A i \in 9 - w .. 8 : n[i] \in Byte
  BY <1>2 DEF Bytes8
<1>4. /\ SubSeq(n, 9 - w, 8) \in Seq(Byte)
      /\ Len(SubSeq(n, 9 - w, 8)) = (8 - (9 - w)) + 1
      /\ \A i \in 1 .. (8 - (9 - w)) + 1 : SubSeq(n, 9 - w, 8)[i] = n[((9 - w) + i) - 1]
  BY <1>2, <1>3, SubSeqProperties
<1> QED
  BY <1>4 DEF Low

\* A length is read as it was written.
LEMMA LengthKept ==
  ASSUME NEW n, NEW w \in {1, 2, 4}, LengthFits(n, w)
  PROVE  BigEndian(n, w) \in Seq(Byte) /\ Len(BigEndian(n, w)) = w /\ Natural(BigEndian(n, w)) = n
<1> DEFINE d == <<n \div 16777216, (n \div 65536) % 256, (n \div 256) % 256, n % 256>>
           b == BigEndian(n, w)
<1>1. n \in Nat
  BY DEF LengthFits
<1>2. d \in Seq(Byte) /\ Len(d) = 4
  <2>1. n \div 16777216 \in Byte
    BY <1>1, SMT DEF LengthFits, Byte
  <2>2. (n \div 65536) % 256 \in Byte /\ (n \div 256) % 256 \in Byte /\ n % 256 \in Byte
    BY <1>1, SMT DEF Byte
  <2> QED
    BY <2>1, <2>2
<1>3. b = SubSeq(d, 5 - w, 4)
  BY DEF BigEndian
<1> HIDE DEF d, b
<1>4. b \in Seq(Byte) /\ Len(b) = w /\ \A i \in 1 .. w : b[i] = d[(4 - w) + i]
  <2>1. 5 - w \in Int /\ 5 - w <= 4 /\ 5 - w >= 1
    OBVIOUS
  <2>2. \A i \in 5 - w .. 4 : d[i] \in Byte
    BY <1>2, <2>1
  <2>3. b \in Seq(Byte) /\ Len(b) = (4 - (5 - w)) + 1 /\ \A i \in 1 .. (4 - (5 - w)) + 1 : b[i] = d[((5 - w) + i) - 1]
    BY <1>3, <2>1, <2>2, SubSeqProperties
  <2> QED
    BY <2>3
<1> DEFINE z == ZeroExtend(b)
<1>5. \A i \in 1 .. 8 : z[i] = IF i <= 8 - w THEN 0 ELSE d[i - 4]
  <2>1. \A i \in 1 .. 8 : z[i] = IF i <= 8 - w THEN 0 ELSE b[i - (8 - w)]
    BY <1>4, ExtendBytes, 0 \in Byte DEF ZeroExtend, Byte
  <2>2. \A i \in 1 .. 8 : ~(i <= 8 - w) => b[i - (8 - w)] = d[i - 4]
    <3> SUFFICES ASSUME NEW i \in 1 .. 8, ~(i <= 8 - w) PROVE b[i - (8 - w)] = d[i - 4]
      OBVIOUS
    <3>1. i - (8 - w) \in 1 .. w /\ (4 - w) + (i - (8 - w)) = i - 4
      OBVIOUS
    <3> QED
      BY <1>4, <3>1
  <2> QED
    BY <2>1, <2>2
<1>6. Natural(b) = 16777216 * z[5] + 65536 * z[6] + 256 * z[7] + z[8]
  BY SMT DEF Natural
<1> HIDE DEF z
<1>7. /\ d[1] = n \div 16777216 /\ d[2] = (n \div 65536) % 256
      /\ d[3] = (n \div 256) % 256 /\ d[4] = n % 256
  BY DEF d
<1>8. ASSUME w = 1 PROVE Natural(b) = n
  <2>1. z[5] = 0 /\ z[6] = 0 /\ z[7] = 0 /\ z[8] = n % 256
    BY <1>5, <1>7, <1>8
  <2>2. n <= 255
    BY <1>8 DEF LengthFits
  <2>3. n % 256 = n
    BY <1>1, <2>2, SMT
  <2>4. z[8] = n
    BY <2>1, <2>3
  <2> QED
    BY <1>1, <1>6, <2>1, <2>4, SMT
<1>9. ASSUME w = 2 PROVE Natural(b) = n
  <2> DEFINE hi == (n \div 256) % 256
             lo == n % 256
  <2>1. z[5] = 0 /\ z[6] = 0 /\ z[7] = hi /\ z[8] = lo
    BY <1>5, <1>7, <1>9
  <2>2. n <= 65535
    BY <1>9 DEF LengthFits
  <2>3. hi \in Nat /\ lo \in Nat /\ 256 * hi + lo = n
    BY <1>1, <2>2, SMT
  <2> HIDE DEF hi, lo
  <2> QED
    BY <1>6, <2>1, <2>3, SMT
<1>10. ASSUME w = 4 PROVE Natural(b) = n
  <2> DEFINE top == n \div 16777216
             up  == (n \div 65536) % 256
             hi  == (n \div 256) % 256
             lo  == n % 256
  <2>1. z[5] = top /\ z[6] = up /\ z[7] = hi /\ z[8] = lo
    BY <1>5, <1>7, <1>10, SMT
  <2>2. /\ top \in Nat /\ up \in Nat /\ hi \in Nat /\ lo \in Nat
        /\ 16777216 * top + 65536 * up + 256 * hi + lo = n
    BY <1>1, SMT
  <2> HIDE DEF top, up, hi, lo
  <2> QED
    BY <1>6, <2>1, <2>2, SMT
<1>11. Natural(b) = n
  BY <1>8, <1>9, <1>10
<1> QED
  BY <1>4, <1>11 DEF b

Sign(n, w) == IF n[9 - w] >= 128 THEN 255 ELSE 0

\* A number fits in w bytes when the bytes before them say nothing more.
LEMMA FitsUnsigned ==
  ASSUME NEW n \in Bytes8, NEW w \in {1, 2, 4, 8}
  PROVE  IsUnsigned(n, w) <=> \A i \in 1 .. 8 - w : n[i] = 0
<1> DEFINE b == Low(n, w)
           z == ZeroExtend(b)
<1>1. b \in Seq(Byte) /\ Len(b) = w /\ \A i \in 1 .. w : b[i] = n[8 - w + i]
  BY LowBytes
<1> HIDE DEF b
<1>2. z \in Bytes8 /\ \A i \in 1 .. 8 : z[i] = IF i <= 8 - w THEN 0 ELSE b[i - (8 - w)]
  BY <1>1, ExtendBytes, 0 \in Byte DEF ZeroExtend, Byte
<1>3. IsUnsigned(n, w) <=> z = n
  BY DEF IsUnsigned, b
<1> HIDE DEF z
<1>4. \A i \in 1 .. 8 : ~(i <= 8 - w) => b[i - (8 - w)] = n[i]
  <2> SUFFICES ASSUME NEW i \in 1 .. 8, ~(i <= 8 - w) PROVE b[i - (8 - w)] = n[i]
    OBVIOUS
  <2>1. i - (8 - w) \in 1 .. w /\ 8 - w + (i - (8 - w)) = i
    OBVIOUS
  <2> QED
    BY <1>1, <2>1
<1>5. \A i \in 1 .. 8 - w : i \in 1 .. 8 /\ i <= 8 - w
  OBVIOUS
<1>6. z = n <=> \A i \in 1 .. 8 : z[i] = n[i]
  BY <1>2 DEF Bytes8
<1> QED
  BY <1>2, <1>3, <1>4, <1>5, <1>6

LEMMA FitsSigned ==
  ASSUME NEW n \in Bytes8, NEW w \in {1, 2, 4, 8}
  PROVE  IsSigned(n, w) <=> \A i \in 1 .. 8 - w : n[i] = Sign(n, w)
<1> DEFINE b == Low(n, w)
           z == SignExtend(b)
<1>1. b \in Seq(Byte) /\ Len(b) = w /\ \A i \in 1 .. w : b[i] = n[8 - w + i]
  BY LowBytes
<1> HIDE DEF b
<1>2. b[1] = n[9 - w]
  <2>1. 1 \in 1 .. w /\ 8 - w + 1 = 9 - w
    OBVIOUS
  <2> QED
    BY <1>1, <2>1
<1>3. z \in Bytes8 /\ \A i \in 1 .. 8 : z[i] = IF i <= 8 - w THEN Sign(n, w) ELSE b[i - (8 - w)]
  <2>1. Sign(n, w) \in Byte
    BY DEF Sign, Byte
  <2>2. z = Extend(b, Sign(n, w))
    BY <1>2 DEF SignExtend, Sign
  <2> QED
    BY <1>1, <2>1, <2>2, ExtendBytes
<1>4. IsSigned(n, w) <=> z = n
  BY DEF IsSigned, b
<1> HIDE DEF z
<1>5. \A i \in 1 .. 8 : ~(i <= 8 - w) => b[i - (8 - w)] = n[i]
  <2> SUFFICES ASSUME NEW i \in 1 .. 8, ~(i <= 8 - w) PROVE b[i - (8 - w)] = n[i]
    OBVIOUS
  <2>1. i - (8 - w) \in 1 .. w /\ 8 - w + (i - (8 - w)) = i
    OBVIOUS
  <2> QED
    BY <1>1, <2>1
<1>6. \A i \in 1 .. 8 - w : i \in 1 .. 8 /\ i <= 8 - w
  OBVIOUS
<1>7. z = n <=> \A i \in 1 .. 8 : z[i] = n[i]
  BY <1>3 DEF Bytes8
<1> QED
  BY <1>3, <1>4, <1>5, <1>6, <1>7

-----------------------------------------------------------------------------
(* What a reader finds in a buffer *)

\* From an offset on the buffer holds these bytes, as far as it goes.
Agrees(buf, from, bytes) ==
  \A i \in 1 .. Len(bytes) : from + i <= Len(buf) => buf[from + i] = bytes[i]
Reaches(buf, from, bytes) == from + Len(bytes) <= Len(buf)

LEMMA AgreesWithParts ==
  ASSUME NEW buf \in Seq(Byte), NEW from \in Nat, NEW a \in Seq(Byte), NEW b \in Seq(Byte),
         Agrees(buf, from, a \o b)
  PROVE  Agrees(buf, from, a) /\ Agrees(buf, from + Len(a), b)
<1> DEFINE c == a \o b
<1>1. /\ Len(c) = Len(a) + Len(b) /\ Len(a) \in Nat /\ Len(b) \in Nat
      /\ \A i \in 1 .. Len(a) : c[i] = a[i]
      /\ \A i \in 1 .. Len(b) : c[Len(a) + i] = b[i]
  OBVIOUS
<1>2. \A i \in 1 .. Len(c) : from + i <= Len(buf) => buf[from + i] = c[i]
  BY DEF Agrees
<1> HIDE DEF c
<1>3. ASSUME NEW i \in 1 .. Len(a), from + i <= Len(buf) PROVE buf[from + i] = a[i]
  <2>1. i \in 1 .. Len(c)
    BY <1>1
  <2> QED
    BY <1>1, <1>2, <1>3, <2>1
<1>4. ASSUME NEW i \in 1 .. Len(b), (from + Len(a)) + i <= Len(buf) PROVE buf[(from + Len(a)) + i] = b[i]
  <2>1. Len(a) + i \in 1 .. Len(c) /\ (from + Len(a)) + i = from + (Len(a) + i)
    BY <1>1
  <2> QED
    BY <1>1, <1>2, <1>4, <2>1
<1> QED
  BY <1>3, <1>4 DEF Agrees

LEMMA TakeThere ==
  ASSUME NEW buf \in Seq(Byte), NEW from \in Nat, NEW bytes \in Seq(Byte), Agrees(buf, from, bytes)
  PROVE  Take(buf, from, Len(bytes)) =
           IF Reaches(buf, from, bytes) THEN Result(TRUE, from + Len(bytes), bytes) ELSE Failure(from)
<1> DEFINE k == Len(bytes)
<1>1. k \in Nat /\ Len(buf) \in Nat
  OBVIOUS
<1>2. CASE from + k > Len(buf)
  <2> HIDE DEF k
  <2>1. ~(from + k <= Len(buf))
    BY <1>1, <1>2
  <2> QED
    BY <1>2, <2>1 DEF Take, Reaches, k
<1>3. CASE from + k <= Len(buf)
  <2>1. SubSeq(buf, from + 1, from + k) = bytes
    <3>1. from + 1 \in Int /\ from + k \in Int /\ \A i \in from + 1 .. from + k : buf[i] \in Byte
      BY <1>1, <1>3
    <3> DEFINE t == SubSeq(buf, from + 1, from + k)
    <3>2. /\ t \in Seq(Byte)
          /\ Len(t) = IF from + 1 <= from + k THEN (from + k) - (from + 1) + 1 ELSE 0
          /\ \A i \in 1 .. (from + k) - (from + 1) + 1 : t[i] = buf[((from + 1) + i) - 1]
      BY <3>1, SubSeqProperties
    <3> HIDE DEF t
    <3>3. Len(t) = k
      BY <1>1, <3>2
    <3>4. \A i \in 1 .. k : t[i] = buf[from + i]
      BY <1>1, <3>2
    <3>5. \A i \in 1 .. k : from + i <= Len(buf)
      BY <1>1, <1>3
    <3>6. \A i \in 1 .. k : t[i] = bytes[i]
      BY <3>4, <3>5 DEF Agrees
    <3> QED
      BY <3>2, <3>3, <3>6, SeqEqual DEF t
  <2>2. ~(from + k > Len(buf))
    BY <1>1, <1>3
  <2> QED
    BY <1>3, <2>1, <2>2 DEF Take, Reaches
<1>4. from + k > Len(buf) \/ from + k <= Len(buf)
  <2> HIDE DEF k
  <2> QED
    BY <1>1
<1> QED
  BY <1>2, <1>3, <1>4, Zenon

\* A reader finds a value in some bytes when they are all there, and fails
\* when they are not.
Finds(r, buf, from, bytes, v) ==
  /\ Reaches(buf, from, bytes) => r = Result(TRUE, from + Len(bytes), v)
  /\ ~Reaches(buf, from, bytes) => r.ok = FALSE

LEMMA FindsTaken ==
  ASSUME NEW buf \in Seq(Byte), NEW from \in Nat, NEW bytes \in Seq(Byte), Agrees(buf, from, bytes),
         NEW w, w = Len(bytes)
  PROVE  Finds(Take(buf, from, w), buf, from, bytes, bytes)
<1>1. Take(buf, from, w) = IF Reaches(buf, from, bytes) THEN Result(TRUE, from + Len(bytes), bytes) ELSE Failure(from)
  BY TakeThere
<1>2. Failure(from).ok = FALSE
  BY DEF Failure, Result
<1> QED
  BY <1>1, <1>2 DEF Finds

\* A reader that goes on where another one stopped.
LEMMA FindsAfter ==
  ASSUME NEW buf \in Seq(Byte), NEW from \in Nat, NEW a \in Seq(Byte), NEW b \in Seq(Byte),
         NEW r, NEW v,
         Reaches(buf, from, a) => Finds(r, buf, from + Len(a), b, v),
         ~Reaches(buf, from, a) => r.ok = FALSE
  PROVE  Finds(r, buf, from, a \o b, v)
<1> DEFINE m == Len(a)
           n == Len(b)
           l == Len(buf)
<1>1. m \in Nat /\ n \in Nat /\ l \in Nat /\ Len(a \o b) = m + n
  OBVIOUS
<1>2. /\ Reaches(buf, from, a) <=> from + m <= l
      /\ Reaches(buf, from + m, b) <=> (from + m) + n <= l
      /\ Reaches(buf, from, a \o b) <=> from + (m + n) <= l
  BY <1>1 DEF Reaches
<1> HIDE DEF m, n, l
<1>3. from + (m + n) = (from + m) + n /\ (from + (m + n) <= l => from + m <= l)
  BY <1>1
<1>4. CASE Reaches(buf, from, a)
  <2>1. Finds(r, buf, from + m, b, v)
    BY <1>4 DEF m
  <2>2. Reaches(buf, from, a \o b) <=> Reaches(buf, from + m, b)
    BY <1>2, <1>3
  <2> QED
    BY <1>1, <1>3, <2>1, <2>2 DEF Finds, n
<1>5. CASE ~Reaches(buf, from, a)
  <2>1. ~Reaches(buf, from, a \o b)
    BY <1>2, <1>3, <1>5
  <2> QED
    BY <1>5, <2>1 DEF Finds
<1> QED
  BY <1>4, <1>5

\* What is made of the bytes that were found.
LEMMA FindsMade ==
  ASSUME NEW buf, NEW from, NEW bytes, NEW r, NEW v, NEW made, NEW o,
         Finds(r, buf, from, bytes, v),
         r = Result(TRUE, from + Len(bytes), v) => made = Result(TRUE, from + Len(bytes), o),
         r.ok = FALSE => made = Failure(r.at)
  PROVE  Finds(made, buf, from, bytes, o)
<1>1. Failure(r.at).ok = FALSE
  BY DEF Failure, Result
<1> QED
  BY <1>1, Zenon DEF Finds

-----------------------------------------------------------------------------
(* The headers of objects *)

\* The two ways a marker is read as a type are inverse to each other.
LEMMA MarkerTypes ==
  /\ DOMAIN Marker =
       {"nil", "false", "true"} \cup Bins \cup Exts \cup {"float", "double"} \cup Unsigned \cup Signed
         \cup Fixexts \cup (Strs \ {"fixstr"}) \cup (Arrays \ {"fixarray"}) \cup (Maps \ {"fixmap"})
  /\ Marker["nil"] = 192 /\ Marker["false"] = 194 /\ Marker["true"] = 195
  /\ \A t \in DOMAIN Marker :
       /\ Marker[t] \in 192 .. 223 /\ Marker[t] # 193
       /\ t \notin {"nil", "false", "true"} => Marker[t] \in 196 .. 223
       /\ (CHOOSE x \in DOMAIN Marker : Marker[x] = Marker[t]) = t
<1>1. DOMAIN Marker =
        {"nil", "false", "true", "bin8", "bin16", "bin32", "ext8", "ext16", "ext32", "float", "double",
         "u8", "u16", "u32", "u64", "s8", "s16", "s32", "s64",
         "fixext1", "fixext2", "fixext4", "fixext8", "fixext16", "str8", "str16", "str32",
         "array16", "array32", "map16", "map32"}
  BY DEF Marker
<1>2. /\ Marker["nil"] = 192 /\ Marker["false"] = 194 /\ Marker["true"] = 195
      /\ Marker["bin8"] = 196 /\ Marker["bin16"] = 197 /\ Marker["bin32"] = 198
      /\ Marker["ext8"] = 199 /\ Marker["ext16"] = 200 /\ Marker["ext32"] = 201
      /\ Marker["float"] = 202 /\ Marker["double"] = 203
      /\ Marker["u8"] = 204 /\ Marker["u16"] = 205 /\ Marker["u32"] = 206 /\ Marker["u64"] = 207
      /\ Marker["s8"] = 208 /\ Marker["s16"] = 209 /\ Marker["s32"] = 210 /\ Marker["s64"] = 211
      /\ Marker["fixext1"] = 212 /\ Marker["fixext2"] = 213 /\ Marker["fixext4"] = 214
      /\ Marker["fixext8"] = 215 /\ Marker["fixext16"] = 216
      /\ Marker["str8"] = 217 /\ Marker["str16"] = 218 /\ Marker["str32"] = 219
      /\ Marker["array16"] = 220 /\ Marker["array32"] = 221
      /\ Marker["map16"] = 222 /\ Marker["map32"] = 223
  BY DEF Marker
<1>3. \A t, x \in DOMAIN Marker : Marker[x] = Marker[t] => x = t
  BY <1>1, <1>2
<1>4. \A t \in DOMAIN Marker :
        /\ Marker[t] \in 192 .. 223 /\ Marker[t] # 193
        /\ t \notin {"nil", "false", "true"} => Marker[t] \in 196 .. 223
  BY <1>1, <1>2
<1>5. \A t \in DOMAIN Marker : (CHOOSE x \in DOMAIN Marker : Marker[x] = Marker[t]) = t
  BY <1>3
<1>6. Fixexts = {"fixext1", "fixext2", "fixext4", "fixext8", "fixext16"}
  BY DEF Fixexts, Fixext
<1>7. DOMAIN Marker =
        {"nil", "false", "true"} \cup Bins \cup Exts \cup {"float", "double"} \cup Unsigned \cup Signed
          \cup Fixexts \cup (Strs \ {"fixstr"}) \cup (Arrays \ {"fixarray"}) \cup (Maps \ {"fixmap"})
  BY <1>1, <1>6 DEF Bins, Exts, Unsigned, Signed, Strs, Arrays, Maps
<1> QED
  BY <1>2, <1>4, <1>5, <1>7

LEMMA MarkerByte ==
  ASSUME NEW t \in DOMAIN Marker
  PROVE  Marker[t] \in Byte
  BY MarkerTypes DEF Byte

LEMMA Widths ==
  /\ \A t \in Unsigned \cup Signed \cup {"float", "double"} : Width[t] \in {1, 2, 4, 8}
  /\ \A t \in Bins \cup Exts \cup (Strs \ {"fixstr"}) \cup (Arrays \ {"fixarray"}) \cup (Maps \ {"fixmap"}) :
       Width[t] \in {1, 2, 4}
<1>1. /\ Width["bin8"] = 1 /\ Width["bin16"] = 2 /\ Width["bin32"] = 4
      /\ Width["ext8"] = 1 /\ Width["ext16"] = 2 /\ Width["ext32"] = 4
      /\ Width["float"] = 4 /\ Width["double"] = 8
      /\ Width["u8"] = 1 /\ Width["u16"] = 2 /\ Width["u32"] = 4 /\ Width["u64"] = 8
      /\ Width["s8"] = 1 /\ Width["s16"] = 2 /\ Width["s32"] = 4 /\ Width["s64"] = 8
      /\ Width["str8"] = 1 /\ Width["str16"] = 2 /\ Width["str32"] = 4
      /\ Width["array16"] = 2 /\ Width["array32"] = 4 /\ Width["map16"] = 2 /\ Width["map32"] = 4
  BY DEF Width
<1> QED
  BY <1>1 DEF Bins, Exts, Unsigned, Signed, Strs, Arrays, Maps

LEMMA OneByte ==
  ASSUME NEW m \in Byte
  PROVE  <<m>> \in Seq(Byte) /\ Len(<<m>>) = 1 /\ <<m>>[1] = m /\ <<m>> # <<>>
  OBVIOUS

\* cmp_read_object reads the marker, and goes on from it.
LEMMA MarkerRead ==
  ASSUME NEW buf \in Seq(Byte), NEW from \in Nat, NEW m \in Byte, Agrees(buf, from, <<m>>)
  PROVE  /\ Reaches(buf, from, <<m>>) => ReadObject(buf, from) = ReadMarked(buf, Result(TRUE, from + 1, <<m>>))
         /\ ~Reaches(buf, from, <<m>>) => ReadObject(buf, from).ok = FALSE
<1> DEFINE r == Take(buf, from, 1)
<1>1. Finds(r, buf, from, <<m>>, <<m>>)
  BY OneByte, FindsTaken
<1>2. ReadObject(buf, from) = ReadMarked(buf, r)
  BY DEF ReadObject
<1> HIDE DEF r
<1>3. r.ok = FALSE => ReadMarked(buf, r) = r
  BY DEF ReadMarked
<1>4. Len(<<m>>) = 1
  OBVIOUS
<1> QED
  BY <1>1, <1>2, <1>3, <1>4 DEF Finds

LEMMA ByteRead ==
  ASSUME NEW buf \in Seq(Byte), NEW from \in Nat, NEW m \in Byte, Agrees(buf, from, <<m>>), NEW o,
         ReadMarked(buf, Result(TRUE, from + 1, <<m>>)) = Result(TRUE, from + 1, o)
  PROVE  Finds(ReadObject(buf, from), buf, from, <<m>>, o)
  BY MarkerRead, OneByte DEF Finds

\* The reader of what follows a marker, for every type that has one.
LEMMA MarkedRead ==
  ASSUME NEW buf, NEW at0, NEW t \in DOMAIN Marker \ {"nil", "false", "true"}
  PROVE  LET r == ReadMarked(buf, Result(TRUE, at0, <<Marker[t]>>))
         IN  /\ t \in Bins \cup Strs \cup Arrays \cup Maps => r = ReadSized(buf, at0, t)
             /\ t \in Exts => r = ReadExtHeader(buf, at0, t)
             /\ t \in {"float", "double"} => r = ReadFloat(buf, at0, t)
             /\ t \in Unsigned => r = ReadUnsigned(buf, at0, t)
             /\ t \in Signed => r = ReadSigned(buf, at0, t)
             /\ t \in Fixexts => r = ReadFixextHeader(buf, at0, t)
<1> DEFINE M == Result(TRUE, at0, <<Marker[t]>>)
           r == ReadMarked(buf, M)
           Reader(x) == CASE x \in Bins -> ReadBinHeader(buf, M.at, x)
                          [] x \in Exts -> ReadExtHeader(buf, M.at, x)
                          [] x \in {"float", "double"} -> ReadFloat(buf, M.at, x)
                          [] x \in Unsigned -> ReadUnsigned(buf, M.at, x)
                          [] x \in Signed -> ReadSigned(buf, M.at, x)
                          [] x \in Fixexts -> ReadFixextHeader(buf, M.at, x)
                          [] x \in Strs \cup Arrays \cup Maps -> ReadLongHeader(buf, M.at, x)
<1>1. Marker[t] \in 196 .. 223 /\ (CHOOSE x \in DOMAIN Marker : Marker[x] = Marker[t]) = t
  BY MarkerTypes
<1>2. M.ok = TRUE /\ M.v[1] = Marker[t] /\ M.at = at0
  BY DEF Result
<1> HIDE DEF M
<1>3. /\ M.ok /\ ~(M.v[1] = 193) /\ ~(M.v[1] <= 192 \/ M.v[1] \in {194, 195} \/ M.v[1] >= 224)
      /\ M.v[1] \in 196 .. 223
  BY <1>1, <1>2
<1>4. r = Reader(CHOOSE x \in DOMAIN Marker : Marker[x] = M.v[1])
  BY <1>3 DEF ReadMarked
<1>5. r = Reader(t)
  BY <1>1, <1>2, <1>4
<1> HIDE DEF r
<1>6. Fixexts = {"fixext1", "fixext2", "fixext4", "fixext8", "fixext16"}
  BY DEF Fixexts, Fixext
<1> QED
  BY <1>2, <1>5, <1>6 DEF Bins, Exts, Unsigned, Signed, Strs, Arrays, Maps, ReadBinHeader, ReadLongHeader, r, M

\* What follows a marker, and the object it becomes.
Body(t, v) ==
  CASE t \in {"float", "double"} -> v
    [] t \in Unsigned \cup Signed -> Low(v, Width[t])
    [] t \in Fixexts -> <<v.type>>
    [] t \in Exts -> BigEndian(v.size, Width[t]) \o <<v.type>>
    [] t \in Bins \cup Strs \cup Arrays \cup Maps -> BigEndian(v, Width[t])

LEMMA SizedRead ==
  ASSUME NEW buf \in Seq(Byte), NEW at0 \in Nat, NEW t, NEW n, Width[t] \in {1, 2, 4}, LengthFits(n, Width[t]),
         Agrees(buf, at0, BigEndian(n, Width[t]))
  PROVE  Finds(ReadSized(buf, at0, t), buf, at0, BigEndian(n, Width[t]), Object(t, n))
<1> DEFINE w == Width[t]
           b == BigEndian(n, w)
           r == Take(buf, at0, w)
<1>1. b \in Seq(Byte) /\ Len(b) = w /\ Natural(b) = n
  BY LengthKept
<1> HIDE DEF b
<1>2. Finds(r, buf, at0, b, b)
  BY <1>1, FindsTaken DEF b
<1> HIDE DEF r
<1>3. ReadSized(buf, at0, t) = IF r.ok THEN Result(TRUE, r.at, Object(t, Natural(r.v))) ELSE Failure(r.at)
  BY DEF ReadSized, Then, r
<1>4. r = Result(TRUE, at0 + Len(b), b) => ReadSized(buf, at0, t) = Result(TRUE, at0 + Len(b), Object(t, n))
  BY <1>1, <1>3 DEF Result
<1>5. r.ok = FALSE => ReadSized(buf, at0, t) = Failure(r.at)
  BY <1>3
<1> QED
  BY <1>2, <1>4, <1>5, FindsMade DEF b

LEMMA FloatRead ==
  ASSUME NEW buf \in Seq(Byte), NEW at0 \in Nat, NEW t, NEW v \in Seq(Byte), Len(v) = Width[t], Agrees(buf, at0, v)
  PROVE  Finds(ReadFloat(buf, at0, t), buf, at0, v, Object(t, v))
<1> DEFINE r == Take(buf, at0, Width[t])
<1>1. Finds(r, buf, at0, v, v)
  BY FindsTaken
<1> HIDE DEF r
<1>2. ReadFloat(buf, at0, t) = IF r.ok THEN Result(TRUE, r.at, Object(t, r.v)) ELSE Failure(r.at)
  BY DEF ReadFloat, Then, r
<1>3. r = Result(TRUE, at0 + Len(v), v) => ReadFloat(buf, at0, t) = Result(TRUE, at0 + Len(v), Object(t, v))
  BY <1>2 DEF Result
<1>4. r.ok = FALSE => ReadFloat(buf, at0, t) = Failure(r.at)
  BY <1>2
<1> QED
  BY <1>1, <1>3, <1>4, FindsMade

LEMMA NumberRead ==
  ASSUME NEW buf \in Seq(Byte), NEW at0 \in Nat, NEW t, NEW n \in Bytes8, Width[t] \in {1, 2, 4, 8},
         Agrees(buf, at0, Low(n, Width[t]))
  PROVE  /\ IsUnsigned(n, Width[t]) =>
              Finds(ReadUnsigned(buf, at0, t), buf, at0, Low(n, Width[t]), Object(t, n))
         /\ IsSigned(n, Width[t]) =>
              Finds(ReadSigned(buf, at0, t), buf, at0, Low(n, Width[t]), Object(t, n))
<1> DEFINE b == Low(n, Width[t])
           r == Take(buf, at0, Width[t])
<1>1. b \in Seq(Byte) /\ Len(b) = Width[t]
  BY LowBytes
<1>2. (IsUnsigned(n, Width[t]) <=> ZeroExtend(b) = n) /\ (IsSigned(n, Width[t]) <=> SignExtend(b) = n)
  BY DEF IsUnsigned, IsSigned
<1> HIDE DEF b
<1>3. Finds(r, buf, at0, b, b)
  BY <1>1, FindsTaken DEF b
<1> HIDE DEF r
<1>4. /\ ReadUnsigned(buf, at0, t) =
           IF r.ok THEN Result(TRUE, r.at, Object(t, ZeroExtend(r.v))) ELSE Failure(r.at)
      /\ ReadSigned(buf, at0, t) =
           IF r.ok THEN Result(TRUE, r.at, Object(t, SignExtend(r.v))) ELSE Failure(r.at)
  BY DEF ReadUnsigned, ReadSigned, Then, r
<1>5. r = Result(TRUE, at0 + Len(b), b) =>
        /\ ReadUnsigned(buf, at0, t) = Result(TRUE, at0 + Len(b), Object(t, ZeroExtend(b)))
        /\ ReadSigned(buf, at0, t) = Result(TRUE, at0 + Len(b), Object(t, SignExtend(b)))
  BY <1>4 DEF Result
<1>6. r.ok = FALSE => ReadUnsigned(buf, at0, t) = Failure(r.at) /\ ReadSigned(buf, at0, t) = Failure(r.at)
  BY <1>4
<1>7. Finds(ReadUnsigned(buf, at0, t), buf, at0, b, Object(t, ZeroExtend(b)))
  BY <1>3, <1>5, <1>6, FindsMade
<1>8. Finds(ReadSigned(buf, at0, t), buf, at0, b, Object(t, SignExtend(b)))
  BY <1>3, <1>5, <1>6, FindsMade
<1> QED
  BY <1>2, <1>7, <1>8 DEF b

LEMMA FixextRead ==
  ASSUME NEW buf \in Seq(Byte), NEW at0 \in Nat, NEW t, NEW v, v \in [size : {Fixext[t]}, type : Byte],
         Agrees(buf, at0, <<v.type>>)
  PROVE  Finds(ReadFixextHeader(buf, at0, t), buf, at0, <<v.type>>, Object(t, v))
<1> DEFINE r == Take(buf, at0, 1)
<1>1. v.type \in Byte /\ v = [size |-> Fixext[t], type |-> v.type]
  OBVIOUS
<1>2. Finds(r, buf, at0, <<v.type>>, <<v.type>>)
  BY <1>1, OneByte, FindsTaken
<1> HIDE DEF r
<1>3. ReadFixextHeader(buf, at0, t) =
        IF r.ok THEN Result(TRUE, r.at, Object(t, [size |-> Fixext[t], type |-> r.v[1]])) ELSE Failure(r.at)
  BY DEF ReadFixextHeader, Then, r
<1> DEFINE b == <<v.type>>
<1>4. b[1] = v.type
  OBVIOUS
<1> HIDE DEF b
<1>5. r = Result(TRUE, at0 + Len(b), b) => ReadFixextHeader(buf, at0, t) = Result(TRUE, at0 + Len(b), Object(t, v))
  <2> HAVE r = Result(TRUE, at0 + Len(b), b)
  <2>1. r.ok = TRUE /\ r.at = at0 + Len(b) /\ r.v = b
    BY DEF Result
  <2>2. [size |-> Fixext[t], type |-> r.v[1]] = v
    BY <1>1, <1>4, <2>1, Zenon
  <2> QED
    BY <1>3, <2>1, <2>2, Zenon
<1>6. r.ok = FALSE => ReadFixextHeader(buf, at0, t) = Failure(r.at)
  BY <1>3
<1> QED
  BY <1>2, <1>5, <1>6, FindsMade DEF b

LEMMA ExtRead ==
  ASSUME NEW buf \in Seq(Byte), NEW at0 \in Nat, NEW t, NEW v, v \in [size : Nat, type : Byte],
         Width[t] \in {1, 2, 4}, LengthFits(v.size, Width[t]),
         Agrees(buf, at0, BigEndian(v.size, Width[t]) \o <<v.type>>)
  PROVE  Finds(ReadExtHeader(buf, at0, t), buf, at0, BigEndian(v.size, Width[t]) \o <<v.type>>, Object(t, v))
<1> DEFINE w == Width[t]
           b == BigEndian(v.size, w)
           size0 == Take(buf, at0, w)
           r == ReadExtHeader(buf, at0, t)
           type0 == Take(buf, at0 + w, 1)
<1>1. v.type \in Byte /\ v.size \in Nat /\ v = [size |-> v.size, type |-> v.type]
  OBVIOUS
<1>2. b \in Seq(Byte) /\ Len(b) = w /\ Natural(b) = v.size
  BY <1>1, LengthKept
<1>3. <<v.type>> \in Seq(Byte) /\ Len(<<v.type>>) = 1 /\ <<v.type>>[1] = v.type
  BY <1>1, OneByte
<1> HIDE DEF b
<1>4. Agrees(buf, at0, b) /\ Agrees(buf, at0 + w, <<v.type>>)
  BY <1>2, <1>3, AgreesWithParts DEF b
<1>5. Finds(size0, buf, at0, b, b)
  BY <1>2, <1>4, FindsTaken
<1>6. Finds(type0, buf, at0 + w, <<v.type>>, <<v.type>>)
  <2>1. at0 + w \in Nat
    OBVIOUS
  <2> QED
    BY <1>3, <1>4, <2>1, FindsTaken
<1> HIDE DEF size0
<1>7. r = IF ~size0.ok THEN size0
          ELSE LET y == Take(buf, size0.at, 1)
               IN  IF y.ok THEN Result(TRUE, y.at, Object(t, [size |-> Natural(size0.v), type |-> y.v[1]]))
                   ELSE Failure(y.at)
  BY DEF ReadExtHeader, ReadExtType, Then, size0
<1> HIDE DEF r
<1>8. ~Reaches(buf, at0, b) => r.ok = FALSE
  BY <1>5, <1>7 DEF Finds
<1>9. ASSUME Reaches(buf, at0, b)
      PROVE  Finds(r, buf, at0 + w, <<v.type>>, Object(t, v))
  <2>1. size0.ok /\ size0.at = at0 + w /\ size0.v = b
    BY <1>2, <1>5, <1>9 DEF Finds, Result
  <2>2. Take(buf, size0.at, 1) = type0
    BY <2>1
  <2> HIDE DEF type0
  <2>3. r = IF type0.ok THEN Result(TRUE, type0.at, Object(t, [size |-> v.size, type |-> type0.v[1]]))
            ELSE Failure(type0.at)
    BY <1>2, <1>7, <2>1, <2>2
  <2> DEFINE c == <<v.type>>
             b0 == at0 + w
  <2>4. c[1] = v.type
    BY <1>3
  <2>5. Finds(type0, buf, b0, c, c)
    BY <1>6
  <2> HIDE DEF c, b0
  <2>6. type0 = Result(TRUE, b0 + Len(c), c) => r = Result(TRUE, b0 + Len(c), Object(t, v))
    <3> HAVE type0 = Result(TRUE, b0 + Len(c), c)
    <3>1. type0.ok = TRUE /\ type0.at = b0 + Len(c) /\ type0.v = c
      BY DEF Result
    <3>2. [size |-> v.size, type |-> type0.v[1]] = v
      BY <1>1, <2>4, <3>1, Zenon
    <3> QED
      BY <2>3, <3>1, <3>2, Zenon
  <2>7. type0.ok = FALSE => r = Failure(type0.at)
    BY <2>3
  <2> QED
    BY <2>5, <2>6, <2>7, FindsMade DEF c, b0
<1>10. Finds(r, buf, at0, b \o <<v.type>>, Object(t, v))
  BY <1>2, <1>3, <1>8, <1>9, FindsAfter
<1> QED
  BY <1>10 DEF r, b

LEMMA LastByte ==
  ASSUME NEW n \in Bytes8
  PROVE  /\ Low(n, 1) = <<n[8]>> /\ n[8] \in Byte
         /\ IsSigned(n, 1) => n = IF n[8] < 128 THEN ZeroExtend(<<n[8]>>) ELSE SignExtend(<<n[8]>>)
<1> DEFINE b == Low(n, 1)
<1>1. b \in Seq(Byte) /\ Len(b) = 1 /\ \A i \in 1 .. 1 : b[i] = n[8 - 1 + i]
  BY LowBytes
<1>2. IsSigned(n, 1) => SignExtend(b) = n
  BY DEF IsSigned
<1> HIDE DEF b
<1>3. b[1] = n[8] /\ n[8] \in Byte
  <2>1. 1 \in 1 .. 1 /\ 8 - 1 + 1 = 8
    OBVIOUS
  <2>2. n[8] \in Byte
    BY DEF Bytes8
  <2> QED
    BY <1>1, <2>1, <2>2
<1>4. b = <<n[8]>>
  <2>1. <<n[8]>> \in Seq(Byte) /\ Len(<<n[8]>>) = 1 /\ <<n[8]>>[1] = n[8]
    BY <1>3, OneByte
  <2> QED
    BY <1>1, <1>3, <2>1, SeqEqual
<1>5. n[8] < 128 => SignExtend(b) = ZeroExtend(b)
  BY <1>3 DEF SignExtend, ZeroExtend, Byte
<1> QED
  BY <1>2, <1>3, <1>4, <1>5 DEF b

\* The objects that are one byte.
Small == {"pfix", "nfix", "nil", "boolean", "fixstr", "fixarray", "fixmap"}
SmallByte(t, v) ==
  CASE t \in {"pfix", "nfix"} -> v[8]
    [] t = "nil" -> 192
    [] t = "boolean" -> IF v THEN 195 ELSE 194
    [] t \in {"fixstr", "fixarray", "fixmap"} -> FixBase[t] + v

LEMMA FixedRead ==
  ASSUME NEW buf, NEW at0, NEW m \in Byte, m <= 192 \/ m \in {194, 195} \/ m >= 224
  PROVE  ReadMarked(buf, Result(TRUE, at0, <<m>>)) = ReadFixed(m, at0)
<1> DEFINE M == Result(TRUE, at0, <<m>>)
<1>1. M.ok = TRUE /\ M.v[1] = m /\ M.at = at0
  BY DEF Result
<1> HIDE DEF M
<1>2. M.ok /\ ~(M.v[1] = 193) /\ (M.v[1] <= 192 \/ M.v[1] \in {194, 195} \/ M.v[1] >= 224)
  BY <1>1 DEF Byte
<1>3. ReadMarked(buf, M) = ReadFixed(M.v[1], M.at)
  BY <1>2 DEF ReadMarked
<1> QED
  BY <1>1, <1>3 DEF M

LEMMA FixLengths ==
  /\ DOMAIN FixSize = {"fixmap", "fixarray", "fixstr"}
  /\ FixSize["fixmap"] = 15 /\ FixSize["fixarray"] = 15 /\ FixSize["fixstr"] = 31
  /\ FixBase["fixmap"] = 128 /\ FixBase["fixarray"] = 144 /\ FixBase["fixstr"] = 160
  BY DEF FixSize, FixBase

\* What IsValue says of the objects of each type.
LEMMA ObjectKinds ==
  ASSUME NEW t, NEW v, IsValue(t, v)
  PROVE  /\ t \in Small \cup (DOMAIN Marker \ {"nil", "false", "true"})
         /\ t = "pfix" => v \in Bytes8 /\ IsSigned(v, 1) /\ v[8] \in 0 .. 127
         /\ t = "nfix" => v \in Bytes8 /\ IsSigned(v, 1) /\ v[8] \in 224 .. 255
         /\ t \in Unsigned => v \in Bytes8 /\ IsUnsigned(v, Width[t])
         /\ t \in Signed => v \in Bytes8 /\ IsSigned(v, Width[t])
         /\ t \in {"float", "double"} => v \in [1 .. Width[t] -> Byte]
         /\ t = "nil" => v = 0
         /\ t = "boolean" => v \in BOOLEAN
         /\ t \in DOMAIN FixSize => v \in 0 .. FixSize[t]
         /\ t \in Bins \cup (Strs \ {"fixstr"}) \cup (Arrays \ {"fixarray"}) \cup (Maps \ {"fixmap"}) =>
              LengthFits(v, Width[t])
         /\ t \in Exts => v \in [size : Nat, type : Byte] /\ LengthFits(v.size, Width[t])
         /\ t \in Fixexts => v \in [size : {Fixext[t]}, type : Byte]
<1> DEFINE Fix == {"fixmap", "fixarray", "fixstr"}
           Pfix == v \in Bytes8 /\ IsSigned(v, 1) /\ v[8] \in 0 .. 127
           Nfix == v \in Bytes8 /\ IsSigned(v, 1) /\ v[8] \in 224 .. 255
           U == v \in Bytes8 /\ IsUnsigned(v, Width[t])
           S == v \in Bytes8 /\ IsSigned(v, Width[t])
           F == v \in [1 .. Width[t] -> Byte]
           B == v \in BOOLEAN
           X == v \in 0 .. FixSize[t]
           L == LengthFits(v, Width[t])
           E == v \in [size : Nat, type : Byte] /\ LengthFits(v.size, Width[t])
           D == v \in [size : {Fixext[t]}, type : Byte]
<1>1. DOMAIN FixSize = Fix
  BY FixLengths
<1>2. Fixexts = {"fixext1", "fixext2", "fixext4", "fixext8", "fixext16"}
  BY DEF Fixexts, Fixext
<1>3. \/ t = "pfix" /\ Pfix
      \/ t = "nfix" /\ Nfix
      \/ t \in Unsigned /\ U
      \/ t \in Signed /\ S
      \/ t \in {"float", "double"} /\ F
      \/ t = "nil" /\ v = 0
      \/ t = "boolean" /\ B
      \/ t \in DOMAIN FixSize /\ X
      \/ t \in (Strs \cup Bins \cup Arrays \cup Maps) \ DOMAIN FixSize /\ L
      \/ t \in Exts /\ E
      \/ t \in Fixexts /\ D
  BY Zenon DEF IsValue, Bytes8
<1> HIDE DEF Pfix, Nfix, U, S, F, B, X, L, E, D
<1>4. t \in Small \cup (DOMAIN Marker \ {"nil", "false", "true"})
  BY <1>1, <1>2, <1>3, MarkerTypes DEF Small, Unsigned, Signed, Strs, Bins, Arrays, Maps, Exts
<1>5. /\ (t = "pfix" => Pfix) /\ (t = "nfix" => Nfix)
      /\ (t \in Unsigned => U) /\ (t \in Signed => S) /\ (t \in {"float", "double"} => F)
      /\ (t = "nil" => v = 0) /\ (t = "boolean" => B) /\ (t \in DOMAIN FixSize => X)
      /\ t \in Bins \cup (Strs \ {"fixstr"}) \cup (Arrays \ {"fixarray"}) \cup (Maps \ {"fixmap"}) => L
      /\ (t \in Exts => E) /\ (t \in Fixexts => D)
  BY <1>1, <1>2, <1>3 DEF Unsigned, Signed, Strs, Bins, Arrays, Maps, Exts
<1> QED
  BY <1>4, <1>5, Zenon DEF Pfix, Nfix, U, S, F, B, X, L, E, D

LEMMA SmallRead ==
  ASSUME NEW t \in Small, NEW v, IsValue(t, v), NEW buf, NEW at0
  PROVE  /\ SmallByte(t, v) \in Byte
         /\ ReadMarked(buf, Result(TRUE, at0, <<SmallByte(t, v)>>)) = Result(TRUE, at0, Object(t, v))
<1> DEFINE m == SmallByte(t, v)
<1>1. \A n \in Byte : n <= 192 \/ n \in {194, 195} \/ n >= 224 =>
        ReadMarked(buf, Result(TRUE, at0, <<n>>)) = ReadFixed(n, at0)
  BY FixedRead
<1>2. Marker.nil = 192 /\ Marker.false = 194 /\ Marker.true = 195
  BY DEF Marker
<1>3. CASE t \in {"pfix", "nfix"}
  <2>1. /\ v \in Bytes8 /\ IsSigned(v, 1)
        /\ (t = "pfix" => v[8] \in 0 .. 127) /\ (t = "nfix" => v[8] \in 224 .. 255)
    BY <1>3, ObjectKinds
  <2>2. m = v[8] /\ m \in Byte /\ (m <= 127 \/ m >= 224) /\ (m <= 192 \/ m \in {194, 195} \/ m >= 224)
    BY <1>3, <2>1 DEF SmallByte, Byte
  <2>3. v = IF m < 128 THEN ZeroExtend(<<m>>) ELSE SignExtend(<<m>>)
    BY <2>1, <2>2, LastByte
  <2> HIDE DEF m
  <2>4. ReadMarked(buf, Result(TRUE, at0, <<m>>)) = ReadFixed(m, at0)
    BY <2>2, FixedRead
  <2>5. CASE t = "pfix"
    <3>1. m <= 127 /\ m < 128
      BY <2>1, <2>2, <2>5
    <3>2. ReadFixed(m, at0) = Result(TRUE, at0, Object("pfix", ZeroExtend(<<m>>)))
      <4>1. m \notin 128 .. 191 /\ ~(m = Marker.nil) /\ m \notin {Marker.false, Marker.true} /\ ~(m >= 224)
        BY <1>2, <2>2, <3>1 DEF Byte
      <4> QED
        BY <3>1, <4>1, Zenon DEF ReadFixed
    <3> QED
      BY <2>2, <2>3, <2>4, <2>5, <3>1, <3>2 DEF m
  <2>6. CASE t = "nfix"
    <3>1. m >= 224 /\ ~(m < 128) /\ ~(m <= 127) /\ m \notin 128 .. 191 /\ m # 192 /\ m \notin {194, 195}
      BY <2>1, <2>2, <2>6
    <3>2. ReadFixed(m, at0) = Result(TRUE, at0, Object("nfix", SignExtend(<<m>>)))
      BY <1>2, <3>1 DEF ReadFixed
    <3> QED
      BY <2>2, <2>3, <2>4, <2>6, <3>1, <3>2 DEF m
  <2> QED
    BY <1>3, <2>5, <2>6
<1>4. CASE t = "nil"
  <2>1. v = 0 /\ m = 192
    BY <1>4, ObjectKinds DEF SmallByte
  <2>2. ReadMarked(buf, Result(TRUE, at0, <<192>>)) = ReadFixed(192, at0)
    <3>1. 192 \in Byte /\ 192 <= 192
      BY DEF Byte
    <3> QED
      BY <1>1, <3>1, Zenon
  <2>3. ReadFixed(192, at0) = Result(TRUE, at0, Object("nil", 0))
    BY <1>2 DEF ReadFixed
  <2>4. m \in Byte
    BY <2>1 DEF Byte
  <2> HIDE DEF m
  <2> QED
    BY <1>4, <2>1, <2>2, <2>3, <2>4, Zenon DEF m
<1>5. CASE t = "boolean"
  <2>1. v \in BOOLEAN /\ m = IF v THEN 195 ELSE 194
    BY <1>5, ObjectKinds DEF SmallByte
  <2>2. /\ ReadMarked(buf, Result(TRUE, at0, <<194>>)) = ReadFixed(194, at0)
        /\ ReadMarked(buf, Result(TRUE, at0, <<195>>)) = ReadFixed(195, at0)
    <3>1. 194 \in Byte /\ 195 \in Byte /\ 194 \in {194, 195} /\ 195 \in {194, 195}
      BY DEF Byte
    <3> QED
      BY <1>1, <3>1, Zenon
  <2>3. /\ ReadFixed(194, at0) = Result(TRUE, at0, Object("boolean", FALSE))
        /\ ReadFixed(195, at0) = Result(TRUE, at0, Object("boolean", TRUE))
    <3>1. /\ ReadFixed(194, at0) = Result(TRUE, at0, Object("boolean", 194 = Marker.true))
          /\ ReadFixed(195, at0) = Result(TRUE, at0, Object("boolean", 195 = Marker.true))
      BY <1>2 DEF ReadFixed
    <3>2. (194 = Marker.true) = FALSE /\ (195 = Marker.true) = TRUE
      BY <1>2
    <3> QED
      BY <3>1, <3>2, Zenon
  <2>4. m \in Byte
    BY <2>1 DEF Byte
  <2> HIDE DEF m
  <2> QED
    BY <1>5, <2>1, <2>2, <2>3, <2>4, Zenon DEF m
<1>6. CASE t \in {"fixstr", "fixarray", "fixmap"}
  <2>1. v \in 0 .. FixSize[t] /\ m = FixBase[t] + v
    BY <1>6, ObjectKinds, FixLengths DEF SmallByte
  <2> DEFINE fix == CHOOSE x \in {"fixmap", "fixarray", "fixstr"} :
                      FixBase[x] <= m /\ m <= FixBase[x] + FixSize[x]
  <2>2. m \in 128 .. 191 /\ m \in Byte /\ ~(m <= 127)
    BY <1>6, <2>1, FixLengths DEF Byte
  <2>3. \A x \in {"fixmap", "fixarray", "fixstr"} :
          FixBase[x] <= m /\ m <= FixBase[x] + FixSize[x] <=> x = t
    BY <1>6, <2>1, <2>2, FixLengths
  <2>4. m - FixBase[t] = v
    BY <1>6, <2>1, FixLengths
  <2> HIDE DEF m
  <2>5. fix = t
    BY <1>6, <2>3
  <2>6. ReadMarked(buf, Result(TRUE, at0, <<m>>)) = ReadFixed(m, at0)
    <3>1. m <= 192
      BY <2>2
    <3> QED
      BY <1>1, <2>2, <3>1, Zenon
  <2>7. ReadFixed(m, at0) = Result(TRUE, at0, Object(fix, m - FixBase[fix]))
    <3>1. ~(m = Marker.nil) /\ m \notin {Marker.false, Marker.true} /\ ~(m >= 224)
      BY <1>2, <2>2
    <3> QED
      BY <2>2, <3>1, Zenon DEF ReadFixed
  <2> QED
    BY <2>2, <2>4, <2>5, <2>6, <2>7 DEF m
<1> QED
  BY <1>3, <1>4, <1>5, <1>6 DEF Small

LEMMA SmallPieces ==
  ASSUME NEW t \in Small, NEW v, IsValue(t, v)
  PROVE  ObjectPieces(Object(t, v)) = << <<SmallByte(t, v)>> >>
<1> DEFINE o == Object(t, v)
<1>0. Fixexts = {"fixext1", "fixext2", "fixext4", "fixext8", "fixext16"}
  BY DEF Fixexts, Fixext
<1>1. o.type = t /\ o.as = v
  BY DEF Object
<1>2. Marker["nil"] = 192 /\ Marker["false"] = 194 /\ Marker["true"] = 195
  BY MarkerTypes
<1> HIDE DEF o
<1>3. CASE t \in {"pfix", "nfix"}
  <2>1. (t = "pfix" /\ v[8] <= 127) \/ (t = "nfix" /\ v[8] >= 224)
    <3>1. (t = "pfix" => v[8] \in 0 .. 127) /\ (t = "nfix" => v[8] \in 224 .. 255)
      BY ObjectKinds
    <3> QED
      BY <1>3, <3>1
  <2>2. ObjectPieces(o) = FixnumPieces(o)
    BY <1>0, <1>1, <1>3 DEF ObjectPieces, Unsigned, Signed, Exts, Strs, Bins, Arrays, Maps
  <2> QED
    BY <1>1, <1>3, <2>1, <2>2, Zenon DEF FixnumPieces, SmallByte, o
<1>4. CASE t \in {"nil", "boolean"}
  <2>1. ObjectPieces(o) = SinglePieces(o)
    BY <1>0, <1>1, <1>4 DEF ObjectPieces, Unsigned, Signed, Exts, Strs, Bins, Arrays, Maps
  <2>2. t = "boolean" => v \in BOOLEAN
    BY ObjectKinds
  <2>3. Marker[IF t = "nil" THEN "nil" ELSE IF v THEN "true" ELSE "false"] = SmallByte(t, v)
    BY <1>2, <1>4, <2>2 DEF SmallByte
  <2> QED
    BY <1>1, <2>1, <2>3, Zenon DEF SinglePieces, o
<1>5. CASE t \in {"fixstr", "fixarray", "fixmap"}
  <2>1. v <= FixSize[t]
    BY <1>5, ObjectKinds, FixLengths
  <2>2. ObjectPieces(o) = FixPieces(o)
    BY <1>0, <1>1, <1>5 DEF ObjectPieces, StrPieces, ArrayPieces, MapPieces, Unsigned, Signed, Exts, Strs, Bins, Arrays, Maps
  <2>3. SmallByte(t, v) = FixBase[t] + v
    BY <1>5 DEF SmallByte
  <2> QED
    BY <1>1, <2>1, <2>2, <2>3, Zenon DEF FixPieces, o
<1> QED
  BY <1>3, <1>4, <1>5 DEF Small

LEMMA BodyBytes ==
  ASSUME NEW t \in DOMAIN Marker \ {"nil", "false", "true"}, NEW v, IsValue(t, v)
  PROVE  /\ Body(t, v) \in Seq(Byte) /\ Body(t, v) # <<>>
         /\ t \in Exts => /\ BigEndian(v.size, Width[t]) \in Seq(Byte) /\ BigEndian(v.size, Width[t]) # <<>>
                          /\ v.type \in Byte
<1>1. Fixexts = {"fixext1", "fixext2", "fixext4", "fixext8", "fixext16"}
  BY DEF Fixexts, Fixext
<1>2. CASE t \in {"float", "double"}
  <2>1. v \in [1 .. Width[t] -> Byte] /\ Width[t] \in {1, 2, 4, 8}
    BY <1>2, ObjectKinds, Widths
  <2>2. v \in UNION {[1 .. k -> Byte] : k \in Nat} /\ DOMAIN v = 1 .. Width[t]
    BY <2>1
  <2>3. v \in Seq(Byte) /\ v # <<>>
    BY <2>1, <2>2, SeqDef
  <2> QED
    BY <1>1, <1>2, <2>3 DEF Body, Unsigned, Signed, Exts, Strs, Bins, Arrays, Maps
<1>3. CASE t \in Unsigned \cup Signed
  <2>1. v \in Bytes8 /\ Width[t] \in {1, 2, 4, 8}
    BY <1>3, ObjectKinds, Widths
  <2>2. Low(v, Width[t]) \in Seq(Byte) /\ Len(Low(v, Width[t])) = Width[t]
    BY <2>1, LowBytes
  <2>3. Low(v, Width[t]) # <<>>
    BY <2>1, <2>2
  <2> QED
    BY <1>1, <1>3, <2>2, <2>3 DEF Body, Unsigned, Signed, Exts, Strs, Bins, Arrays, Maps
<1>4. CASE t \in Fixexts
  <2>1. v.type \in Byte
    BY <1>4, ObjectKinds
  <2> QED
    BY <1>1, <1>4, <2>1, OneByte DEF Body, Unsigned, Signed, Exts, Strs, Bins, Arrays, Maps
<1>5. CASE t \in Exts
  <2>1. v.type \in Byte /\ LengthFits(v.size, Width[t]) /\ Width[t] \in {1, 2, 4}
    BY <1>5, ObjectKinds, Widths
  <2> DEFINE b == BigEndian(v.size, Width[t])
  <2>2. b \in Seq(Byte) /\ Len(b) = Width[t]
    BY <2>1, LengthKept
  <2> HIDE DEF b
  <2>3. b # <<>>
    BY <2>1, <2>2
  <2>4. Body(t, v) = b \o <<v.type>>
    BY <1>1, <1>5 DEF Body, Unsigned, Signed, Exts, Strs, Bins, Arrays, Maps, b
  <2>5. b \o <<v.type>> \in Seq(Byte) /\ b \o <<v.type>> # <<>>
    <3>1. <<v.type>> \in Seq(Byte)
      BY <2>1, OneByte
    <3> QED
      BY <2>2, <2>3, <3>1
  <2> QED
    BY <2>1, <2>2, <2>3, <2>4, <2>5 DEF b
<1>6. CASE t \in Bins \cup (Strs \ {"fixstr"}) \cup (Arrays \ {"fixarray"}) \cup (Maps \ {"fixmap"})
  <2>1. LengthFits(v, Width[t]) /\ Width[t] \in {1, 2, 4}
    BY <1>6, ObjectKinds, Widths
  <2>2. BigEndian(v, Width[t]) \in Seq(Byte) /\ Len(BigEndian(v, Width[t])) = Width[t]
    BY <2>1, LengthKept
  <2>3. BigEndian(v, Width[t]) # <<>>
    BY <2>1, <2>2
  <2>4. Body(t, v) = BigEndian(v, Width[t]) /\ t \notin Exts
    BY <1>1, <1>6 DEF Body, Exts, Unsigned, Signed, Bins, Strs, Arrays, Maps
  <2> QED
    BY <2>2, <2>3, <2>4
<1> QED
  BY <1>2, <1>3, <1>4, <1>5, <1>6, MarkerTypes

LEMMA MarkedPieces ==
  ASSUME NEW t \in DOMAIN Marker \ {"nil", "false", "true"}, NEW v, IsValue(t, v)
  PROVE  ObjectPieces(Object(t, v)) =
           IF t \in Exts THEN << <<Marker[t]>>, BigEndian(v.size, Width[t]), <<v.type>> >>
           ELSE << <<Marker[t]>>, Body(t, v) >>
<1> DEFINE o == Object(t, v)
<1>1. o.type = t /\ o.as = v
  BY DEF Object
<1>2. Fixexts = {"fixext1", "fixext2", "fixext4", "fixext8", "fixext16"}
  BY DEF Fixexts, Fixext
<1> HIDE DEF o
<1>3. CASE t \in {"float", "double"}
  <2>1. ObjectPieces(o) = FloatPieces(o) /\ Body(t, v) = v /\ t \notin Exts
    BY <1>1, <1>2, <1>3 DEF ObjectPieces, Body, Unsigned, Signed, Exts, Strs, Bins, Arrays, Maps
  <2> QED
    BY <1>1, <2>1, Zenon DEF FloatPieces, o
<1>4. CASE t \in Unsigned \cup Signed
  <2>1. ObjectPieces(o) = NumberPieces(o) /\ Body(t, v) = Low(v, Width[t]) /\ t \notin Exts
    BY <1>1, <1>2, <1>4 DEF ObjectPieces, UnsignedPieces, SignedPieces, Body, Unsigned, Signed, Exts, Strs, Bins, Arrays, Maps
  <2> QED
    BY <1>1, <2>1, Zenon DEF NumberPieces, o
<1>5. CASE t \in Fixexts
  <2>1. ObjectPieces(o) = FixextPieces(o) /\ Body(t, v) = <<v.type>> /\ t \notin Exts
    BY <1>1, <1>2, <1>5 DEF ObjectPieces, Body, Unsigned, Signed, Exts, Strs, Bins, Arrays, Maps
  <2> QED
    BY <1>1, <2>1, Zenon DEF FixextPieces, o
<1>6. CASE t \in Exts
  <2>1. ObjectPieces(o) = ExtPieces(o)
    BY <1>1, <1>2, <1>6 DEF ObjectPieces, Unsigned, Signed, Exts, Strs, Bins, Arrays, Maps
  <2> QED
    BY <1>1, <1>6, <2>1, Zenon DEF ExtPieces, o
<1>7. CASE t \in Bins \cup (Strs \ {"fixstr"}) \cup (Arrays \ {"fixarray"}) \cup (Maps \ {"fixmap"})
  <2>1. ObjectPieces(o) = SizedPieces(o) /\ Body(t, v) = BigEndian(v, Width[t]) /\ t \notin Exts
    BY <1>1, <1>2, <1>7 DEF ObjectPieces, StrPieces, BinPieces, ArrayPieces, MapPieces, Body,
                            Unsigned, Signed, Exts, Strs, Bins, Arrays, Maps
  <2> QED
    BY <1>1, <2>1, Zenon DEF SizedPieces, o
<1> QED
  BY <1>3, <1>4, <1>5, <1>6, <1>7, MarkerTypes

\* The bytes of a header, and the reader that finds the object again in them.
Header(t, v) == IF t \in Small THEN <<SmallByte(t, v)>> ELSE <<Marker[t]>> \o Body(t, v)

\* A writer that is asked for no more than it can write leaves no piece empty.
Whole(pieces) == pieces \in Seq(Seq(Byte)) /\ pieces # <<>> /\ \A i \in 1 .. Len(pieces) : pieces[i] # <<>>

LEMMA WholePieces ==
  ASSUME NEW a \in Seq(Byte), NEW b \in Seq(Byte), NEW c \in Seq(Byte)
  PROVE  /\ a # <<>> => Whole(<<a>>)
         /\ a # <<>> /\ b # <<>> => Whole(<<a, b>>)
         /\ a # <<>> /\ b # <<>> /\ c # <<>> => Whole(<<a, b, c>>)
<1>1. <<a>> \in Seq(Seq(Byte)) /\ <<a, b>> \in Seq(Seq(Byte)) /\ <<a, b, c>> \in Seq(Seq(Byte))
  OBVIOUS
<1>2. /\ Len(<<a>>) = 1 /\ <<a>>[1] = a
      /\ Len(<<a, b>>) = 2 /\ <<a, b>>[1] = a /\ <<a, b>>[2] = b
      /\ Len(<<a, b, c>>) = 3 /\ <<a, b, c>>[1] = a /\ <<a, b, c>>[2] = b /\ <<a, b, c>>[3] = c
  OBVIOUS
<1>3. <<a>> # <<>> /\ <<a, b>> # <<>> /\ <<a, b, c>> # <<>>
  OBVIOUS
<1>4. /\ \A i \in 1 .. 1 : i = 1
      /\ \A i \in 1 .. 2 : i = 1 \/ i = 2
      /\ \A i \in 1 .. 3 : i = 1 \/ i = 2 \/ i = 3
  OBVIOUS
<1> QED
  BY <1>1, <1>2, <1>3, <1>4, Zenon DEF Whole

LEMMA ObjectWritten ==
  ASSUME NEW t, NEW v, IsValue(t, v)
  PROVE  /\ Whole(ObjectPieces(Object(t, v))) /\ FlattenSeq(ObjectPieces(Object(t, v))) = Header(t, v)
         /\ Header(t, v) \in Seq(Byte) /\ Header(t, v) # <<>>
<1> DEFINE p == ObjectPieces(Object(t, v))
           m == <<Marker[t]>>
<1>1. CASE t \in Small
  <2> DEFINE b == SmallByte(t, v)
  <2>1. b \in Byte
    BY <1>1, SmallRead
  <2>2. p = << <<b>> >> /\ Header(t, v) = <<b>>
    BY <1>1, SmallPieces DEF Header
  <2> HIDE DEF b, p
  <2>3. <<b>> \in Seq(Byte) /\ <<b>> # <<>>
    BY <2>1, OneByte
  <2> QED
    BY <2>2, <2>3, WholePieces, FlattenPieces DEF p
<1>2. CASE t \in DOMAIN Marker \ {"nil", "false", "true"}
  <2>1. Marker[t] \in Byte
    BY <1>2, MarkerByte
  <2>2. m \in Seq(Byte) /\ m # <<>>
    BY <2>1, OneByte
  <2>3. Header(t, v) = m \o Body(t, v)
    <3>1. t \notin Small
      <4>1. Fixexts = {"fixext1", "fixext2", "fixext4", "fixext8", "fixext16"}
        BY DEF Fixexts, Fixext
      <4> QED
        BY <1>2, <4>1, MarkerTypes DEF Small, Bins, Exts, Unsigned, Signed, Strs, Arrays, Maps
    <3> QED
      BY <3>1 DEF Header
  <2> HIDE DEF m
  <2>4. Body(t, v) \in Seq(Byte) /\ Body(t, v) # <<>>
    BY <1>2, BodyBytes
  <2>5. Header(t, v) \in Seq(Byte) /\ Header(t, v) # <<>>
    <3> DEFINE b == Body(t, v)
    <3>1. b \in Seq(Byte)
      BY <2>4
    <3> HIDE DEF b
    <3>2. m \o b \in Seq(Byte) /\ m \o b # <<>>
      BY <2>2, <3>1
    <3> QED
      BY <2>3, <3>2 DEF b
  <2>6. CASE t \in Exts
    <3> DEFINE b == BigEndian(v.size, Width[t])
               c == <<v.type>>
    <3>1. b \in Seq(Byte) /\ b # <<>> /\ c \in Seq(Byte) /\ c # <<>>
      BY <1>2, <2>6, BodyBytes, OneByte
    <3>2. p = <<m, b, c>>
      BY <1>2, <2>6, MarkedPieces DEF m
    <3>3. Body(t, v) = b \o c
      <4>1. Fixexts = {"fixext1", "fixext2", "fixext4", "fixext8", "fixext16"}
        BY DEF Fixexts, Fixext
      <4> QED
        BY <2>6, <4>1 DEF Body, Bins, Exts, Unsigned, Signed, Strs, Arrays, Maps
    <3> HIDE DEF b, c
    <3>4. FlattenSeq(<<m, b, c>>) = Joined(m, b, c)
      BY <2>2, <3>1, FlattenThree
    <3> HIDE DEF p
    <3>5. Whole(p)
      BY <2>2, <3>1, <3>2, WholePieces, Zenon
    <3>6. FlattenSeq(p) = m \o (b \o c)
      BY <3>2, <3>4, Zenon DEF Joined
    <3> QED
      BY <2>3, <2>5, <3>3, <3>5, <3>6 DEF p
  <2>7. CASE t \notin Exts
    <3> DEFINE b == Body(t, v)
    <3>1. p = <<m, b>>
      BY <1>2, <2>7, MarkedPieces DEF m
    <3> HIDE DEF b, p
    <3>2. b \in Seq(Byte) /\ b # <<>>
      BY <2>4 DEF b
    <3>3. Whole(p) /\ FlattenSeq(p) = m \o b
      BY <2>2, <3>1, <3>2, WholePieces, FlattenPieces
    <3> QED
      BY <2>3, <2>5, <3>3 DEF p, b
  <2> QED
    BY <2>6, <2>7
<1> QED
  BY <1>1, <1>2, ObjectKinds

\* The object is found in its bytes, and in no part of them.
LEMMA ObjectRead ==
  ASSUME NEW t, NEW v, IsValue(t, v), NEW buf \in Seq(Byte), NEW from \in Nat, Agrees(buf, from, Header(t, v))
  PROVE  Finds(ReadObject(buf, from), buf, from, Header(t, v), Object(t, v))
<1>1. CASE t \in Small
  <2>1. Header(t, v) = <<SmallByte(t, v)>>
    BY <1>1 DEF Header
  <2>2. /\ SmallByte(t, v) \in Byte
        /\ ReadMarked(buf, Result(TRUE, from + 1, <<SmallByte(t, v)>>)) = Result(TRUE, from + 1, Object(t, v))
    BY <1>1, SmallRead
  <2> QED
    BY <2>1, <2>2, ByteRead
<1>2. CASE t \in DOMAIN Marker \ {"nil", "false", "true"}
  <2> DEFINE m == Marker[t]
             b == Body(t, v)
             r == ReadObject(buf, from)
             rest == ReadMarked(buf, Result(TRUE, from + 1, <<m>>))
             at0 == from + 1
  <2>1. m \in Byte
    BY <1>2, MarkerByte
  <2>2. Fixexts = {"fixext1", "fixext2", "fixext4", "fixext8", "fixext16"}
    BY DEF Fixexts, Fixext
  <2>3. Header(t, v) = <<m>> \o b
    <3>1. t \notin Small
      BY <1>2, <2>2, MarkerTypes DEF Small, Bins, Exts, Unsigned, Signed, Strs, Arrays, Maps
    <3> QED
      BY <3>1 DEF Header
  <2>4. b \in Seq(Byte)
    BY <1>2, BodyBytes
  <2>5. <<m>> \in Seq(Byte) /\ Len(<<m>>) = 1
    BY <2>1, OneByte
  <2>6. at0 \in Nat
    OBVIOUS
  <2>7. Agrees(buf, from, <<m>>) /\ Agrees(buf, at0, b)
    <3> HIDE DEF m, b
    <3> QED
      BY <2>3, <2>4, <2>5, AgreesWithParts
  <2>8. /\ Reaches(buf, from, <<m>>) => r = rest
        /\ ~Reaches(buf, from, <<m>>) => r.ok = FALSE
    BY <2>1, <2>7, MarkerRead
  <2>9. Finds(rest, buf, at0, b, Object(t, v))
    <3>1. LET x == ReadMarked(buf, Result(TRUE, at0, <<Marker[t]>>))
          IN  /\ t \in Bins \cup Strs \cup Arrays \cup Maps => x = ReadSized(buf, at0, t)
              /\ t \in Exts => x = ReadExtHeader(buf, at0, t)
              /\ t \in {"float", "double"} => x = ReadFloat(buf, at0, t)
              /\ t \in Unsigned => x = ReadUnsigned(buf, at0, t)
              /\ t \in Signed => x = ReadSigned(buf, at0, t)
              /\ t \in Fixexts => x = ReadFixextHeader(buf, at0, t)
      BY <1>2, MarkedRead
    <3> HIDE DEF at0
    <3>2. CASE t \in {"float", "double"}
      <4>1. v \in [1 .. Width[t] -> Byte] /\ Width[t] \in {1, 2, 4, 8}
        BY <3>2, ObjectKinds, Widths
      <4>2. v \in UNION {[1 .. k -> Byte] : k \in Nat} /\ DOMAIN v = 1 .. Width[t]
        BY <4>1
      <4>3. v \in Seq(Byte) /\ Len(v) = Width[t]
        BY <4>1, <4>2, SeqDef
      <4>4. b = v
        BY <2>2, <3>2 DEF Body, Unsigned, Signed, Exts, Strs, Bins, Arrays, Maps
      <4> QED
        BY <2>6, <2>7, <3>1, <3>2, <4>3, <4>4, FloatRead DEF at0
    <3>3. CASE t \in Unsigned \cup Signed
      <4>1. v \in Bytes8 /\ Width[t] \in {1, 2, 4, 8} /\ (t \in Unsigned => IsUnsigned(v, Width[t]))
            /\ (t \in Signed => IsSigned(v, Width[t]))
        BY <3>3, ObjectKinds, Widths
      <4>2. b = Low(v, Width[t])
        BY <2>2, <3>3 DEF Body, Unsigned, Signed, Exts, Strs, Bins, Arrays, Maps
      <4>3. /\ IsUnsigned(v, Width[t]) => Finds(ReadUnsigned(buf, at0, t), buf, at0, b, Object(t, v))
            /\ IsSigned(v, Width[t]) => Finds(ReadSigned(buf, at0, t), buf, at0, b, Object(t, v))
        BY <2>6, <2>7, <4>1, <4>2, NumberRead DEF at0
      <4> QED
        BY <3>1, <3>3, <4>1, <4>3 DEF at0
    <3>4. CASE t \in Fixexts
      <4>1. v \in [size : {Fixext[t]}, type : Byte]
        BY <3>4, ObjectKinds
      <4>2. b = <<v.type>>
        BY <2>2, <3>4 DEF Body, Unsigned, Signed, Exts, Strs, Bins, Arrays, Maps
      <4> QED
        BY <2>6, <2>7, <3>1, <3>4, <4>1, <4>2, FixextRead DEF at0
    <3>5. CASE t \in Exts
      <4>1. v \in [size : Nat, type : Byte] /\ LengthFits(v.size, Width[t]) /\ Width[t] \in {1, 2, 4}
        BY <3>5, ObjectKinds, Widths
      <4>2. b = BigEndian(v.size, Width[t]) \o <<v.type>>
        BY <2>2, <3>5 DEF Body, Unsigned, Signed, Exts, Strs, Bins, Arrays, Maps
      <4> QED
        BY <2>6, <2>7, <3>1, <3>5, <4>1, <4>2, ExtRead DEF at0
    <3>6. CASE t \in Bins \cup (Strs \ {"fixstr"}) \cup (Arrays \ {"fixarray"}) \cup (Maps \ {"fixmap"})
      <4>1. LengthFits(v, Width[t]) /\ Width[t] \in {1, 2, 4}
        BY <3>6, ObjectKinds, Widths
      <4>2. b = BigEndian(v, Width[t]) /\ t \in Bins \cup Strs \cup Arrays \cup Maps
        BY <2>2, <3>6 DEF Body, Unsigned, Signed, Exts, Strs, Bins, Arrays, Maps
      <4>3. Finds(ReadSized(buf, at0, t), buf, at0, b, Object(t, v))
        BY <2>6, <2>7, <4>1, <4>2, SizedRead
      <4>4. rest = ReadSized(buf, at0, t)
        BY <3>1, <4>2 DEF at0
      <4> QED
        BY <4>3, <4>4
    <3> QED
      BY <1>2, <3>2, <3>3, <3>4, <3>5, <3>6, MarkerTypes
  <2> HIDE DEF m, b, r, rest, at0
  <2>10. Finds(r, buf, from, <<m>> \o b, Object(t, v))
    <3>1. Reaches(buf, from, <<m>>) => Finds(r, buf, from + Len(<<m>>), b, Object(t, v))
      BY <2>5, <2>8, <2>9 DEF at0
    <3> QED
      BY <2>4, <2>5, <2>8, <3>1, FindsAfter
  <2> QED
    BY <2>3, <2>10 DEF r
<1> QED
  BY <1>1, <1>2, ObjectKinds

-----------------------------------------------------------------------------
(* The types that are given to numbers and to lengths *)

\* A number is given the first type that holds it.
FirstUnsigned(n, t) ==
  /\ t \in {"pfix", "u8", "u16", "u32", "u64"}
  /\ t = "pfix" => IsUnsigned(n, 1) /\ n[8] <= 127
  /\ t = "u8" => IsUnsigned(n, 1) /\ n[8] >= 128
  /\ t = "u16" => IsUnsigned(n, 2) /\ ~IsUnsigned(n, 1)
  /\ t = "u32" => IsUnsigned(n, 4) /\ ~IsUnsigned(n, 2)
  /\ t = "u64" => IsUnsigned(n, 8) /\ ~IsUnsigned(n, 4)

LEMMA UnsignedFirst ==
  ASSUME NEW n \in Bytes8
  PROVE  FirstUnsigned(n, UIntegerType(n)) /\ IsValue(UIntegerType(n), n)
<1> DEFINE P(u) == /\ IsUnsigned(n, Width[u])
                   /\ \A x \in Unsigned : IsUnsigned(n, Width[x]) => Width[u] <= Width[x]
           t == UIntegerType(n)
<1>1. n[8] \in Byte /\ IsUnsigned(n, 8)
  <2>1. \A i \in 1 .. 8 - 8 : n[i] = 0
    OBVIOUS
  <2> QED
    BY <2>1, FitsUnsigned DEF Bytes8
<1>2. /\ Width["u8"] = 1 /\ Width["u16"] = 2 /\ Width["u32"] = 4 /\ Width["u64"] = 8
      /\ Unsigned = {"u8", "u16", "u32", "u64"}
  BY DEF Width, Unsigned
<1>3. \E u \in Unsigned : P(u)
  <2>1. CASE IsUnsigned(n, 1)
    <3>1. P("u8")
      BY <1>2, <2>1
    <3> QED
      BY <1>2, <3>1
  <2>2. CASE ~IsUnsigned(n, 1) /\ IsUnsigned(n, 2)
    <3>1. P("u16")
      BY <1>2, <2>2
    <3> QED
      BY <1>2, <3>1
  <2>3. CASE ~IsUnsigned(n, 1) /\ ~IsUnsigned(n, 2) /\ IsUnsigned(n, 4)
    <3>1. P("u32")
      BY <1>2, <2>3
    <3> QED
      BY <1>2, <3>1
  <2>4. CASE ~IsUnsigned(n, 1) /\ ~IsUnsigned(n, 2) /\ ~IsUnsigned(n, 4)
    <3>1. P("u64")
      BY <1>1, <1>2, <2>4
    <3> QED
      BY <1>2, <3>1
  <2> QED
    BY <2>1, <2>2, <2>3, <2>4
<1>4. CASE IsUnsigned(n, 1) /\ n[8] <= 127
  <2>1. t = "pfix"
    BY <1>4 DEF UIntegerType
  <2>2. IsSigned(n, 1)
    <3>1. \A i \in 1 .. 8 - 1 : n[i] = 0
      BY <1>4, FitsUnsigned
    <3>2. Sign(n, 1) = 0
      BY <1>1, <1>4 DEF Sign, Byte
    <3> QED
      BY <3>1, <3>2, FitsSigned
  <2> QED
    BY <1>1, <1>4, <2>1, <2>2 DEF FirstUnsigned, IsValue, Bytes8, Byte
<1>5. CASE ~(IsUnsigned(n, 1) /\ n[8] <= 127)
  <2>1. t = CHOOSE u \in Unsigned : P(u)
    BY <1>5 DEF UIntegerType
  <2>2. t \in Unsigned /\ P(t)
    <3> HIDE DEF P, t
    <3> QED
      BY <1>3, <2>1
  <2>3. /\ t = "u8" => IsUnsigned(n, 1)
        /\ t = "u16" => IsUnsigned(n, 2) /\ ~IsUnsigned(n, 1)
        /\ t = "u32" => IsUnsigned(n, 4) /\ ~IsUnsigned(n, 2)
        /\ t = "u64" => IsUnsigned(n, 8) /\ ~IsUnsigned(n, 4)
    <3> HIDE DEF t
    <3> QED
      BY <1>2, <2>2
  <2>4. t = "u8" => n[8] >= 128
    BY <1>1, <1>5, <2>3 DEF Byte
  <2>5. FirstUnsigned(n, t)
    BY <1>2, <2>2, <2>3, <2>4 DEF FirstUnsigned
  <2>6. IsValue(t, n)
    BY <2>2, Zenon DEF IsValue, Bytes8
  <2> QED
    BY <2>5, <2>6
<1> QED
  BY <1>4, <1>5

FirstSigned(n, t) ==
  /\ t \in {"nfix", "s8", "s16", "s32", "s64"}
  /\ t = "nfix" => IsSigned(n, 1) /\ n[8] >= 224
  /\ t = "s8" => IsSigned(n, 1) /\ n[8] < 224
  /\ t = "s16" => IsSigned(n, 2) /\ ~IsSigned(n, 1)
  /\ t = "s32" => IsSigned(n, 4) /\ ~IsSigned(n, 2)
  /\ t = "s64" => IsSigned(n, 8) /\ ~IsSigned(n, 4)

LEMMA SignedFirst ==
  ASSUME NEW n \in Bytes8, n[1] >= 128
  PROVE  FirstSigned(n, IntegerType(n)) /\ IsValue(IntegerType(n), n)
<1> DEFINE P(u) == /\ IsSigned(n, Width[u])
                   /\ \A x \in Signed : IsSigned(n, Width[x]) => Width[u] <= Width[x]
           t == IntegerType(n)
<1>1. n[8] \in Byte /\ n[1] \in Byte /\ IsSigned(n, 8)
  <2>1. \A i \in 1 .. 8 - 8 : n[i] = Sign(n, 8)
    OBVIOUS
  <2> QED
    BY <2>1, FitsSigned DEF Bytes8
<1>2. /\ Width["s8"] = 1 /\ Width["s16"] = 2 /\ Width["s32"] = 4 /\ Width["s64"] = 8
      /\ Signed = {"s8", "s16", "s32", "s64"}
  BY DEF Width, Signed
<1>3. \E u \in Signed : P(u)
  <2>1. CASE IsSigned(n, 1)
    <3>1. P("s8")
      BY <1>2, <2>1
    <3> QED
      BY <1>2, <3>1
  <2>2. CASE ~IsSigned(n, 1) /\ IsSigned(n, 2)
    <3>1. P("s16")
      BY <1>2, <2>2
    <3> QED
      BY <1>2, <3>1
  <2>3. CASE ~IsSigned(n, 1) /\ ~IsSigned(n, 2) /\ IsSigned(n, 4)
    <3>1. P("s32")
      BY <1>2, <2>3
    <3> QED
      BY <1>2, <3>1
  <2>4. CASE ~IsSigned(n, 1) /\ ~IsSigned(n, 2) /\ ~IsSigned(n, 4)
    <3>1. P("s64")
      BY <1>1, <1>2, <2>4
    <3> QED
      BY <1>2, <3>1
  <2> QED
    BY <2>1, <2>2, <2>3, <2>4
<1>4. ~(n[1] < 128)
  BY <1>1 DEF Byte
<1>5. CASE IsSigned(n, 1) /\ n[8] >= 224
  <2>1. t = "nfix"
    BY <1>4, <1>5 DEF IntegerType
  <2> QED
    BY <1>1, <1>5, <2>1 DEF FirstSigned, IsValue, Bytes8, Byte
<1>6. CASE ~(IsSigned(n, 1) /\ n[8] >= 224)
  <2>1. t = CHOOSE u \in Signed : P(u)
    BY <1>4, <1>6 DEF IntegerType
  <2>2. t \in Signed /\ P(t)
    <3> HIDE DEF P, t
    <3> QED
      BY <1>3, <2>1
  <2>3. /\ t = "s8" => IsSigned(n, 1)
        /\ t = "s16" => IsSigned(n, 2) /\ ~IsSigned(n, 1)
        /\ t = "s32" => IsSigned(n, 4) /\ ~IsSigned(n, 2)
        /\ t = "s64" => IsSigned(n, 8) /\ ~IsSigned(n, 4)
    <3> HIDE DEF t
    <3> QED
      BY <1>2, <2>2
  <2>4. t = "s8" => n[8] < 224
    BY <1>1, <1>6, <2>3 DEF Byte
  <2>5. FirstSigned(n, t)
    BY <1>2, <2>2, <2>3, <2>4 DEF FirstSigned
  <2>6. IsValue(t, n)
    BY <2>2, Zenon DEF IsValue, Bytes8
  <2> QED
    BY <2>5, <2>6
<1> QED
  BY <1>5, <1>6

LEMMA LengthTypes ==
  ASSUME NEW n, LengthFits(n, 4)
  PROVE  /\ StrType(n) \in Strs /\ IsValue(StrType(n), n)
         /\ StrTypeV4(n) \in Strs /\ IsValue(StrTypeV4(n), n)
         /\ BinType(n) \in Bins /\ IsValue(BinType(n), n)
         /\ ArrayType(n) \in Arrays /\ IsValue(ArrayType(n), n)
         /\ MapType(n) \in Maps /\ IsValue(MapType(n), n)
         /\ \A type \in Byte : /\ ExtTypeOf(n) \in Exts \cup Fixexts
                               /\ IsValue(ExtTypeOf(n), [size |-> n, type |-> type])
<1>1. n \in Nat
  BY DEF LengthFits
<1>2. /\ \A t : t \in DOMAIN FixSize /\ n <= FixSize[t] => IsValue(t, n)
      /\ \A t : t \in (Strs \cup Bins \cup Arrays \cup Maps) \ DOMAIN FixSize /\ LengthFits(n, Width[t]) => IsValue(t, n)
  <2>1. \A t \in DOMAIN FixSize : n <= FixSize[t] => n \in 0 .. FixSize[t]
    BY <1>1, FixLengths
  <2> QED
    BY <2>1, Zenon DEF IsValue
<1>3. /\ n <= 255 => LengthFits(n, 1)
      /\ n <= 65535 => LengthFits(n, 2)
  BY <1>1 DEF LengthFits
<1>4. /\ Width["bin8"] = 1 /\ Width["bin16"] = 2 /\ Width["bin32"] = 4
      /\ Width["ext8"] = 1 /\ Width["ext16"] = 2 /\ Width["ext32"] = 4
      /\ Width["str8"] = 1 /\ Width["str16"] = 2 /\ Width["str32"] = 4
      /\ Width["array16"] = 2 /\ Width["array32"] = 4 /\ Width["map16"] = 2 /\ Width["map32"] = 4
  BY DEF Width
<1>5. /\ n <= 31 => IsValue("fixstr", n)
      /\ n <= 15 => IsValue("fixarray", n) /\ IsValue("fixmap", n)
  BY <1>2, FixLengths
<1>6. /\ n <= 255 => IsValue("str8", n) /\ IsValue("bin8", n)
      /\ n <= 65535 => /\ IsValue("str16", n) /\ IsValue("bin16", n)
                       /\ IsValue("array16", n) /\ IsValue("map16", n)
      /\ IsValue("str32", n) /\ IsValue("bin32", n) /\ IsValue("array32", n) /\ IsValue("map32", n)
  BY <1>2, <1>3, <1>4, FixLengths DEF Strs, Bins, Arrays, Maps
<1>7. StrType(n) \in Strs /\ IsValue(StrType(n), n)
  BY <1>5, <1>6, FixLengths DEF StrType, FixOr, Strs
<1>8. StrTypeV4(n) \in Strs /\ IsValue(StrTypeV4(n), n)
  BY <1>5, <1>6, FixLengths DEF StrTypeV4, FixOr, Strs
<1>9. BinType(n) \in Bins /\ IsValue(BinType(n), n)
  BY <1>6 DEF BinType, Bins
<1>10. ArrayType(n) \in Arrays /\ IsValue(ArrayType(n), n)
  BY <1>5, <1>6, FixLengths DEF ArrayType, FixOr, Arrays
<1>11. MapType(n) \in Maps /\ IsValue(MapType(n), n)
  BY <1>5, <1>6, FixLengths DEF MapType, FixOr, Maps
<1>12. ASSUME NEW type \in Byte
       PROVE  ExtTypeOf(n) \in Exts \cup Fixexts /\ IsValue(ExtTypeOf(n), [size |-> n, type |-> type])
  <2> DEFINE v == [size |-> n, type |-> type]
  <2>1. v \in [size : Nat, type : Byte] /\ v.size = n
    BY <1>1
  <2>2. \A t \in Exts : LengthFits(n, Width[t]) => IsValue(t, v)
    BY <2>1, Zenon DEF IsValue
  <2>3. \A t \in Fixexts : Fixext[t] = n => IsValue(t, v)
    <3> TAKE t \in Fixexts
    <3> HAVE Fixext[t] = n
    <3>1. v \in [size : {Fixext[t]}, type : Byte]
      OBVIOUS
    <3> QED
      BY <3>1, Zenon DEF IsValue
  <2>4. CASE n \in {1, 2, 4, 8, 16}
    <3>1. \E t \in Fixexts : Fixext[t] = n
      <4>1. /\ Fixexts = {"fixext1", "fixext2", "fixext4", "fixext8", "fixext16"}
            /\ Fixext["fixext1"] = 1 /\ Fixext["fixext2"] = 2 /\ Fixext["fixext4"] = 4
            /\ Fixext["fixext8"] = 8 /\ Fixext["fixext16"] = 16
        BY DEF Fixexts, Fixext
      <4> QED
        BY <2>4, <4>1
    <3>2. ExtTypeOf(n) = CHOOSE t \in Fixexts : Fixext[t] = n
      BY <2>4 DEF ExtTypeOf
    <3>3. ExtTypeOf(n) \in Fixexts /\ Fixext[ExtTypeOf(n)] = n
      BY <3>1, <3>2
    <3> QED
      BY <2>3, <3>3
  <2>5. CASE n \notin {1, 2, 4, 8, 16}
    <3>1. ExtTypeOf(n) = IF n <= 255 THEN "ext8" ELSE IF n <= 65535 THEN "ext16" ELSE "ext32"
      BY <2>5 DEF ExtTypeOf
    <3>2. ExtTypeOf(n) \in Exts /\ LengthFits(n, Width[ExtTypeOf(n)])
      BY <1>3, <1>4, <3>1 DEF Exts
    <3> QED
      BY <2>2, <3>2
  <2> QED
    BY <2>4, <2>5
<1> QED
  BY <1>7, <1>8, <1>9, <1>10, <1>11, <1>12

-----------------------------------------------------------------------------
(* Every reader, from what cmp_read_object gives it *)

LEMMA TypedReaders ==
  ASSUME NEW buf, NEW at0
  PROVE  LET r == ReadObject(buf, at0)
             Takes(accepts) == IF r.ok /\ accepts THEN Result(TRUE, r.at, r.v.as) ELSE Failure(r.at)
         IN  /\ \A k : ReadSignedInteger(buf, at0, k) =
                         Takes(\/ r.v.type \in SignedReader[k].types
                               \/ r.v.type = SignedReader[k].guarded /\ HasNoSignBit(r.v.as, SignedReader[k].width))
             /\ \A k : ReadUnsignedInteger(buf, at0, k) = Takes(r.v.type \in UnsignedReader[k])
             /\ \A t : ReadExactly(buf, at0, t) = Takes(r.v.type = t)
             /\ ReadSfix(buf, at0) = Takes(r.v.type \in {"pfix", "nfix"})
             /\ ReadDecimal(buf, at0) = Takes(r.v.type \in {"float", "double"})
             /\ ReadStrSize(buf, at0) = Takes(r.v.type \in Strs)
             /\ ReadBinSize(buf, at0) = Takes(r.v.type \in Bins)
             /\ ReadArray(buf, at0) = Takes(r.v.type \in Arrays)
             /\ ReadMap(buf, at0) = Takes(r.v.type \in Maps)
             /\ ReadExtMarker(buf, at0) = Takes(r.v.type \in Exts \cup Fixexts)
  BY DEF ReadSignedInteger, ReadUnsignedInteger, ReadExactly, ReadSfix, ReadDecimal, ReadStrSize, ReadBinSize,
         ReadArray, ReadMap, ReadExtMarker, ReadAs, Accept

\* A reader of data: a header that says how much there is, and then the data.
LEMMA SizedData ==
  ASSUME NEW buf \in Seq(Byte), NEW from \in Nat, NEW h \in Seq(Byte), NEW d \in Seq(Byte),
         Agrees(buf, from, h \o d), NEW size0, Finds(size0, buf, from, h, Len(d))
  PROVE  Finds(Sized(size0, buf), buf, from, h \o d, d)
<1> DEFINE r == Sized(size0, buf)
           at0 == from + Len(h)
<1>1. Agrees(buf, at0, d) /\ at0 \in Nat
  BY AgreesWithParts
<1>2. r = IF size0.ok THEN Take(buf, size0.at, size0.v) ELSE size0
  BY DEF Sized
<1>3. Reaches(buf, from, h) => r = Take(buf, at0, Len(d))
  BY <1>2 DEF Finds, Result
<1>4. ~Reaches(buf, from, h) => r.ok = FALSE
  BY <1>2 DEF Finds
<1> HIDE DEF r, at0
<1>5. Finds(Take(buf, at0, Len(d)), buf, at0, d, d)
  BY <1>1, FindsTaken
<1> QED
  BY <1>3, <1>4, <1>5, FindsAfter DEF r, at0
=============================================================================
