---------------------------- MODULE SequenceLemmas ----------------------------
(***************************************************************************)
(* Lemmas that the proofs about texts and trees share: induction over the  *)
(* natural numbers, and what follows by it about sequences.                *)
(*                                                                         *)
(* The induction is one over sets: a set that holds 0 and with each number *)
(* the next holds all numbers, since a set of numbers has a least element. *)
(* That is a statement without a parameter that is an operator, and thus   *)
(* one that the provers can apply.                                         *)
(***************************************************************************)
EXTENDS Integers, SequencesExt, SequenceTheorems, WellFoundedInduction, TLAPS

LEMMA LeastNumber ==
    ASSUME NEW T, T \subseteq Nat, T # {}
    PROVE  \E x \in T : \A y \in T : x <= y
  <1>. DEFINE R == {p \in Nat \X Nat : p[1] < p[2]}
  <1>1. IsWellFoundedOn(R, Nat)
    BY NatLessThanWellFounded DEF OpToRel
  <1>2. PICK x \in T : \A y \in T : ~ (<<y, x>> \in R)
    <2>. HIDE DEF R
    <2>. QED  BY <1>1, WFMin
  <1>3. ASSUME NEW y \in T PROVE x <= y
    <2>1. x \in Nat /\ y \in Nat /\ ~ (<<y, x>> \in R)
      <3>. HIDE DEF R
      <3>. QED  BY <1>2
    <2>. QED  BY <2>1
  <1>. QED  BY <1>3

LEMMA Induction ==
    ASSUME NEW S, 0 \in S, \A n \in Nat : n \in S => n + 1 \in S
    PROVE  \A n \in Nat : n \in S
  <1>1. SUFFICES ASSUME Nat \ S # {} PROVE FALSE
    OBVIOUS
  <1>2. PICK x \in Nat \ S : \A y \in Nat \ S : x <= y
    BY <1>1, LeastNumber
  <1>3. x # 0 /\ x - 1 \in Nat
    BY <1>2
  <1>. QED  BY <1>2, <1>3

\* Induction from a number down to 1, or up to a bound.
LEMMA InductionUpTo ==
    ASSUME NEW S, NEW m \in Nat, 0 \in S,
           \A n \in 0 .. m - 1 : n \in S => n + 1 \in S
    PROVE  \A n \in 0 .. m : n \in S
  <1>. DEFINE T == {n \in Nat : n <= m => n \in S}
  <1>1. 0 \in T
    OBVIOUS
  <1>2. \A n \in Nat : n \in T => n + 1 \in T
    OBVIOUS
  <1>3. \A n \in Nat : n \in T
    <2>. HIDE DEF T
    <2>. QED  BY <1>1, <1>2, Induction
  <1>. QED  BY <1>3

-------------------------------------------------------------------------------
\* FlattenSeq.

\* The sequences that flattening yields step by step.
Flattens(g, s) ==
    \A n \in 1 .. Len(s) : g[n] = g[n - 1] \o s[n]

\* Concatenation of sequences over a set is associative.
Associates(X) == \A u, v, w \in Seq(X) : (u \o v) \o w = u \o (v \o w)

LEMMA Associative == \A X : Associates(X)
  <1>. SUFFICES ASSUME NEW X, NEW u \in Seq(X), NEW v \in Seq(X), NEW w \in Seq(X)
                PROVE  (u \o v) \o w = u \o (v \o w)
    BY DEF Associates
  <1>. QED  OBVIOUS

\* What a concatenation holds.
ConcatFacts(X) ==
    \A u, v \in Seq(X) :
       /\ u \o v \in Seq(X) /\ Len(u \o v) = Len(u) + Len(v)
       /\ \A k \in 1 .. Len(u) + Len(v) :
             (u \o v)[k] = IF k <= Len(u) THEN u[k] ELSE v[k - Len(u)]

LEMMA ConcatFactsHold == \A X : ConcatFacts(X)
  <1>. SUFFICES ASSUME NEW X, NEW u \in Seq(X), NEW v \in Seq(X)
                PROVE  /\ u \o v \in Seq(X) /\ Len(u \o v) = Len(u) + Len(v)
                       /\ \A k \in 1 .. Len(u) + Len(v) :
                             (u \o v)[k] = IF k <= Len(u) THEN u[k] ELSE v[k - Len(u)]
    BY DEF ConcatFacts
  <1>. QED  BY ConcatProperties

LEMMA FlattenExists ==
    ASSUME NEW X, NEW s \in Seq(Seq(X))
    PROVE  \E g \in [0 .. Len(s) -> Seq(X)] : g[0] = <<>> /\ Flattens(g, s)
  <1>. DEFINE P(n, g) == g[0] = <<>> /\ \A k \in 1 .. n : g[k] = g[k - 1] \o s[k]
              S == {n \in Nat : \E g \in [0 .. n -> Seq(X)] : P(n, g)}
  <1>0. Len(s) \in Nat /\ \A n \in 1 .. Len(s) : s[n] \in Seq(X)
    BY LenProperties, ElementOfSeq
  <1>1. 0 \in S
    <2>. DEFINE h == [k \in 0 .. 0 |-> <<>>]
    <2>1. h \in [0 .. 0 -> Seq(X)]
      BY EmptySeq
    <2>2. P(0, h)
      OBVIOUS
    <2>. QED  BY <2>1, <2>2
  <1>2. ASSUME NEW n \in 0 .. Len(s) - 1, n \in S PROVE n + 1 \in S
    <2>0. n \in Nat /\ n + 1 \in Nat /\ n + 1 \in 1 .. Len(s)
      BY <1>0
    <2>1. PICK g \in [0 .. n -> Seq(X)] : P(n, g)
      BY <1>2
    <2>2. s[n + 1] \in Seq(X) /\ g[n] \in Seq(X)
      BY <1>0, <2>0
    <2>. DEFINE h == [k \in 0 .. n + 1 |-> IF k = n + 1 THEN g[n] \o s[n + 1] ELSE g[k]]
    <2>3. h \in [0 .. n + 1 -> Seq(X)]
      <3>1. g[n] \o s[n + 1] \in Seq(X)
        BY <2>2, ConcatProperties
      <3>2. \A k \in 0 .. n + 1 : k = n + 1 \/ k \in 0 .. n
        BY <2>0
      <3>. QED  BY <3>1, <3>2
    <2>4. P(n + 1, h)
      <3>1. h[0] = g[0]
        BY <2>0
      <3>2. ASSUME NEW k \in 1 .. n + 1 PROVE h[k] = h[k - 1] \o s[k]
        <4>1. CASE k = n + 1
          <5>1. n + 1 \in 0 .. n + 1 /\ n \in 0 .. n + 1 /\ n # n + 1 /\ k - 1 = n
            BY <4>1, <2>0
          <5>2. h[n + 1] = g[n] \o s[n + 1] /\ h[n] = g[n]
            BY <5>1
          <5>. QED  BY <4>1, <5>1, <5>2
        <4>2. CASE k # n + 1
          <5>1. k \in 1 .. n /\ k \in 0 .. n + 1 /\ k - 1 \in 0 .. n + 1 /\ k - 1 # n + 1
            BY <4>2, <2>0
          <5>2. h[k] = g[k] /\ h[k - 1] = g[k - 1]
            BY <5>1, <4>2
          <5>. QED  BY <5>1, <5>2, <2>1
        <4>. QED  BY <4>1, <4>2
      <3>. QED  BY <3>1, <3>2, <2>1
    <2>. HIDE DEF P
    <2>. QED  BY <2>0, <2>3, <2>4
  <1>3. \A n \in 0 .. Len(s) : n \in S
    <2>. HIDE DEF S
    <2>. QED  BY <1>0, <1>1, <1>2, InductionUpTo
  <1>4. Len(s) \in S
    <2>. HIDE DEF S
    <2>. QED  BY <1>0, <1>3
  <1>. QED  BY <1>4 DEF Flattens

LEMMA FlattenIs ==
    ASSUME NEW X, NEW s \in Seq(Seq(X)), NEW g \in [0 .. Len(s) -> Seq(X)],
           g[0] = <<>>, Flattens(g, s)
    PROVE  FlattenSeq(s) = g[Len(s)]
  <1>0. Len(s) \in Nat /\ \A n \in 1 .. Len(s) : s[n] \in Seq(X)
    BY LenProperties, ElementOfSeq
  <1>1. CASE Len(s) = 0
    <2>1. s = <<>>
      BY <1>1, EmptySeq
    <2>. QED  BY <1>1, <2>1 DEF FlattenSeq
  <1>2. CASE Len(s) # 0
    <2>. DEFINE Step(f, i) == IF i = 1 THEN s[i] ELSE f[i - 1] \o s[i]
                Is(f) == f = [i \in 1 .. Len(s) |-> Step(f, i)]
                f == CHOOSE f : Is(f)
                h == [i \in 1 .. Len(s) |-> g[i]]
    <2>0. \A i \in 1 .. Len(s) : g[i] = g[i - 1] \o s[i]
      BY DEF Flattens
    <2>1. ASSUME NEW i \in 1 .. Len(s)
          PROVE  g[i] = Step(h, i)
      <3>1. CASE i = 1
        <4>1. 1 \in 1 .. Len(s) /\ 1 - 1 = 0
          BY <3>1
        <4>2. g[1] = g[0] \o s[1] /\ s[1] \in Seq(X)
          BY <4>1, <2>0, <1>0
        <4>3. g[1] = s[1]
          BY <4>2, ConcatEmptySeq
        <4>. QED  BY <3>1, <4>3
      <3>2. CASE i # 1
        <4>1. i - 1 \in 1 .. Len(s)
          BY <3>2, <1>0
        <4>2. h[i - 1] = g[i - 1]
          BY <4>1
        <4>. QED  BY <3>2, <4>2, <2>0
      <3>. QED  BY <3>1, <3>2
    <2>2. Is(f)
      <3>1. Is(h)
        <4>. HIDE DEF Step
        <4>1. \A i \in 1 .. Len(s) : g[i] = Step(h, i)
          BY <2>1
        <4>2. [i \in 1 .. Len(s) |-> g[i]] = [i \in 1 .. Len(s) |-> Step(h, i)]
          BY <4>1, Zenon
        <4>. QED  BY <4>2, Zenon
      <3>. HIDE DEF Is, h
      <3>. QED  BY <3>1
    <2>. DEFINE S == {n \in 0 .. Len(s) : n # 0 => f[n] = g[n]}
    <2>3. 0 \in S
      BY <1>0
    <2>4. ASSUME NEW n \in 0 .. Len(s) - 1, n \in S PROVE n + 1 \in S
      <3>. HIDE DEF f
      <3>0. n + 1 \in 1 .. Len(s) /\ n \in Nat /\ n + 1 # 0
        BY <1>0
      <3>1. f[n + 1] = Step(f, n + 1)
        <4>. HIDE DEF Step
        <4>. QED  BY <2>2, <3>0
      <3>2. f[n + 1] = IF n = 0 THEN s[n + 1] ELSE f[n] \o s[n + 1]
        BY <3>0, <3>1
      <3>3. g[n + 1] = IF n = 0 THEN s[n + 1] ELSE g[n] \o s[n + 1]
        <4>1. g[n + 1] = Step(h, n + 1)
          <5>. HIDE DEF Step, h
          <5>. QED  BY <2>1, <3>0
        <4>2. n # 0 => h[n] = g[n]
          BY <3>0
        <4>. QED  BY <4>1, <4>2, <3>0
      <3>. QED  BY <3>0, <3>2, <3>3, <2>4
    <2>5. \A n \in 0 .. Len(s) : n \in S
      <3>. HIDE DEF S
      <3>. QED  BY <1>0, <2>3, <2>4, InductionUpTo
    <2>6. f[Len(s)] = g[Len(s)]
      <3>. HIDE DEF f
      <3>1. Len(s) \in 0 .. Len(s)
        BY <1>0
      <3>. HIDE DEF S
      <3>. QED  BY <1>2, <2>5, <3>1 DEF S
    <2>7. FlattenSeq(s) = f[Len(s)]
      BY <1>2 DEF FlattenSeq
    <2>. QED  BY <2>6, <2>7
  <1>. QED  BY <1>1, <1>2

LEMMA FlattenType ==
    ASSUME NEW X, NEW s \in Seq(Seq(X))
    PROVE  FlattenSeq(s) \in Seq(X)
  <1>1. PICK g \in [0 .. Len(s) -> Seq(X)] : g[0] = <<>> /\ Flattens(g, s)
    BY FlattenExists
  <1>2. FlattenSeq(s) = g[Len(s)] /\ Len(s) \in 0 .. Len(s)
    BY <1>1, FlattenIs, LenProperties
  <1>. QED  BY <1>2

LEMMA FlattenEmpty == FlattenSeq(<<>>) = <<>>
  BY DEF FlattenSeq

LEMMA FlattenAppend ==
    ASSUME NEW X, NEW s \in Seq(Seq(X)), NEW x \in Seq(X)
    PROVE  FlattenSeq(Append(s, x)) = FlattenSeq(s) \o x
  <1>1. PICK g \in [0 .. Len(s) -> Seq(X)] : g[0] = <<>> /\ Flattens(g, s)
    BY FlattenExists
  <1>2. FlattenSeq(s) = g[Len(s)]
    BY <1>1, FlattenIs
  <1>. DEFINE n == Len(s)
              t == Append(s, x)
              h == [k \in 0 .. n + 1 |-> IF k = n + 1 THEN g[n] \o x ELSE g[k]]
  <1>3. n \in Nat /\ t \in Seq(Seq(X)) /\ Len(t) = n + 1
    BY LenProperties, AppendProperties
  <1>4. t[n + 1] = x /\ \A k \in 1 .. n : t[k] = s[k]
    BY AppendProperties
  <1>5. h \in [0 .. n + 1 -> Seq(X)]
    <2>1. g[n] \o x \in Seq(X)
      BY <1>3, ConcatProperties, SMTT(30)
    <2>2. \A k \in 0 .. n + 1 : k = n + 1 \/ k \in 0 .. n
      BY <1>3
    <2>. QED  BY <2>1, <2>2
  <1>6. \A k \in 0 .. n : h[k] = g[k]
    BY <1>3
  <1>7. h[n + 1] = h[n] \o t[n + 1]
    BY <1>3, <1>4, <1>6
  <1>8. Flattens(h, t)
    <2>. HIDE DEF h, t
    <2>1. ASSUME NEW k \in 1 .. n + 1 PROVE h[k] = h[k - 1] \o t[k]
      <3>1. CASE k = n + 1
        <4>1. k - 1 = n
          BY <3>1, <1>3
        <4>. QED  BY <3>1, <4>1, <1>7
      <3>2. CASE k # n + 1
        <4>1. k \in 1 .. n /\ k \in 0 .. n /\ k - 1 \in 0 .. n
          BY <3>2, <1>3
        <4>. QED  BY <4>1, <1>1, <1>4, <1>6 DEF Flattens
      <3>. QED  BY <3>1, <3>2
    <2>. QED  BY <2>1, <1>3 DEF Flattens
  <1>9. h[0] = <<>>
    BY <1>1, <1>3, <1>6
  <1>10. FlattenSeq(t) = h[n + 1]
    <2>. HIDE DEF h, t
    <2>. QED  BY <1>3, <1>5, <1>8, <1>9, FlattenIs
  <1>11. h[n + 1] = g[n] \o x
    BY <1>3
  <1>. QED  BY <1>2, <1>10, <1>11

LEMMA FlattenOne ==
    ASSUME NEW X, NEW x \in Seq(X)
    PROVE  FlattenSeq(<<x>>) = x
  <1>1. <<>> \in Seq(Seq(X)) /\ Append(<<>>, x) = <<x>>
    BY EmptySeq
  <1>2. FlattenSeq(<<x>>) = FlattenSeq(<<>>) \o x
    BY <1>1, FlattenAppend
  <1>. QED  BY <1>2, FlattenEmpty, ConcatEmptySeq

LEMMA FlattenConcat ==
    ASSUME NEW X, NEW s \in Seq(Seq(X)), NEW t \in Seq(Seq(X))
    PROVE  FlattenSeq(s \o t) = FlattenSeq(s) \o FlattenSeq(t)
  <1>. DEFINE part(n) == SubSeq(t, 1, n)
              S == {n \in 0 .. Len(t) :
                      FlattenSeq(s \o part(n)) = FlattenSeq(s) \o FlattenSeq(part(n))}
  <1>0. Len(t) \in Nat /\ \A n \in 1 .. Len(t) : t[n] \in Seq(X)
    BY LenProperties, ElementOfSeq
  <1>1. 0 \in S
    <2>1. part(0) = <<>>
      BY SubSeqEmpty
    <2>2. s \o <<>> = s /\ FlattenSeq(s) \o <<>> = FlattenSeq(s)
      BY FlattenType, ConcatEmptySeq
    <2>. HIDE DEF part
    <2>3. FlattenSeq(s \o part(0)) = FlattenSeq(s) \o FlattenSeq(part(0))
      BY <2>1, <2>2, FlattenEmpty
    <2>. QED  BY <1>0, <2>3
  <1>2. ASSUME NEW n \in 0 .. Len(t) - 1, n \in S PROVE n + 1 \in S
    <2>. DEFINE x == t[n + 1]
    <2>1. n \in Nat /\ n + 1 \in 1 .. Len(t) /\ n + 1 \in 0 .. Len(t)
      BY <1>0
    <2>2. x \in Seq(X) /\ part(n) \in Seq(Seq(X))
      <3>1. \A k \in 1 .. n : t[k] \in Seq(X)
        BY <1>0, <2>1
      <3>. QED  BY <3>1, <1>0, <2>1, SubSeqProperties
    <2>3. part(n + 1) = Append(part(n), x)
      <3>1. part(n + 1) = part(n + 1 - 1) \o <<x>>
        BY <2>1, SubSeqRecursiveSecond
      <3>2. part(n) \o <<x>> = Append(part(n), x)
        <4>. HIDE DEF part, x
        <4>. QED  BY <2>2, AppendIsConcat
      <3>. QED  BY <2>1, <3>1, <3>2
    <2>. HIDE DEF part, x
    <2>4. s \o part(n) \in Seq(Seq(X)) /\ s \o Append(part(n), x) = Append(s \o part(n), x)
      <3>1. Append(part(n), x) = part(n) \o <<x>>
        BY <2>2, AppendIsConcat
      <3>2. <<x>> \in Seq(Seq(X))
        BY <2>2
      <3>3. s \o (part(n) \o <<x>>) = (s \o part(n)) \o <<x>> /\ s \o part(n) \in Seq(Seq(X))
        <4>1. s \o part(n) \in Seq(Seq(X))
          BY <2>2, ConcatProperties, SMTT(30)
        <4>2. Associates(Seq(X))
          BY Associative, Zenon
        <4>3. (s \o part(n)) \o <<x>> = s \o (part(n) \o <<x>>)
          <5>. DEFINE u == part(n)
                      w == <<x>>
          <5>1. u \in Seq(Seq(X)) /\ w \in Seq(Seq(X))
            BY <2>2, <3>2
          <5>. HIDE DEF u, w
          <5>2. (s \o u) \o w = s \o (u \o w)
            BY <4>2, <5>1, ZenonT(30) DEF Associates
          <5>. QED  BY <5>2 DEF u, w
        <4>. QED  BY <4>1, <4>3
      <3>4. (s \o part(n)) \o <<x>> = Append(s \o part(n), x)
        BY <2>2, <3>3, AppendIsConcat
      <3>. QED  BY <3>1, <3>3, <3>4
    <2>5. FlattenSeq(s \o part(n + 1)) = FlattenSeq(s \o part(n)) \o x
      BY <2>2, <2>3, <2>4, FlattenAppend
    <2>6. FlattenSeq(part(n + 1)) = FlattenSeq(part(n)) \o x
      BY <2>2, <2>3, FlattenAppend
    <2>7. FlattenSeq(s) \in Seq(X) /\ FlattenSeq(part(n)) \in Seq(X)
      BY <2>2, FlattenType
    <2>8. FlattenSeq(s \o part(n)) = FlattenSeq(s) \o FlattenSeq(part(n))
      BY <1>2
    <2>9. (FlattenSeq(s) \o FlattenSeq(part(n))) \o x = FlattenSeq(s) \o (FlattenSeq(part(n)) \o x)
      <3>1. Associates(X)
        BY Associative, Zenon
      <3>. QED  BY <2>2, <2>7, <3>1, Zenon DEF Associates
    <2>. QED  BY <2>1, <2>5, <2>6, <2>8, <2>9
  <1>3. Len(t) \in S
    <2>. HIDE DEF S
    <2>1. \A n \in 0 .. Len(t) : n \in S
      BY <1>0, <1>1, <1>2, InductionUpTo
    <2>. QED  BY <2>1, <1>0
  <1>4. part(Len(t)) = t
    BY SubSeqFull
  <1>. QED  BY <1>3, <1>4

-------------------------------------------------------------------------------
\* What a function yields of the elements of a sequence, put together.

Mapped(f, s) == [k \in DOMAIN s |-> f[s[k]]]

FlatMap(f, s) == FlattenSeq(Mapped(f, s))

LEMMA MappedFacts ==
    ASSUME NEW T, NEW f, NEW s \in Seq(T)
    PROVE  /\ Len(Mapped(f, s)) = Len(s)
           /\ \A k \in 1 .. Len(s) : Mapped(f, s)[k] = f[s[k]]
  <1>1. DOMAIN s = 1 .. Len(s) /\ Len(s) \in Nat
    BY LenProperties
  <1>2. Mapped(f, s) = [k \in 1 .. Len(s) |-> f[s[k]]]
    BY <1>1 DEF Mapped
  <1>. QED  BY <1>1, <1>2

LEMMA MappedType ==
    ASSUME NEW T, NEW Y, NEW f, \A x \in T : f[x] \in Y, NEW s \in Seq(T)
    PROVE  Mapped(f, s) \in Seq(Y)
  <1>1. DOMAIN s = 1 .. Len(s) /\ Len(s) \in Nat
    BY LenProperties
  <1>2. \A k \in 1 .. Len(s) : f[s[k]] \in Y
    BY ElementOfSeq
  <1>3. Mapped(f, s) = [k \in 1 .. Len(s) |-> f[s[k]]]
    BY <1>1 DEF Mapped
  <1>4. Mapped(f, s) \in [1 .. Len(s) -> Y]
    BY <1>2, <1>3
  <1>5. \A g \in [1 .. Len(s) -> Y] : g \in Seq(Y)
    BY <1>1
  <1>. QED  BY <1>4, <1>5

LEMMA MappedConcat ==
    ASSUME NEW T, NEW f, NEW s \in Seq(T), NEW t \in Seq(T)
    PROVE  Mapped(f, s \o t) = Mapped(f, s) \o Mapped(f, t)
  <1>1. /\ s \o t \in Seq(T) /\ Len(s \o t) = Len(s) + Len(t)
        /\ \A k \in 1 .. Len(s) + Len(t) :
              (s \o t)[k] = IF k <= Len(s) THEN s[k] ELSE t[k - Len(s)]
    BY ConcatProperties
  <1>. DEFINE Y == {f[x] : x \in T}
              u == s \o t
              a == Mapped(f, s)
              b == Mapped(f, t)
              c == Mapped(f, u)
  <1>0. \A x \in T : f[x] \in Y
    OBVIOUS
  <1>. HIDE DEF Y
  <1>2. a \in Seq(Y) /\ Len(a) = Len(s) /\ \A k \in 1 .. Len(s) : a[k] = f[s[k]]
    <2>1. a \in Seq(Y)
      BY <1>0, MappedType
    <2>. QED  BY <2>1, MappedFacts
  <1>3. b \in Seq(Y) /\ Len(b) = Len(t) /\ \A k \in 1 .. Len(t) : b[k] = f[t[k]]
    <2>1. b \in Seq(Y)
      BY <1>0, MappedType
    <2>. QED  BY <2>1, MappedFacts
  <1>4. c \in Seq(Y) /\ Len(c) = Len(u) /\ \A k \in 1 .. Len(u) : c[k] = f[u[k]]
    <2>1. u \in Seq(T)
      BY <1>1
    <2>. HIDE DEF u
    <2>2. c \in Seq(Y)
      BY <1>0, <2>1, MappedType
    <2>. QED  BY <2>1, <2>2, MappedFacts
  <1>5. Len(s) \in Nat /\ Len(t) \in Nat
    BY LenProperties
  <1>. HIDE DEF a, b, c, u
  <1>6. /\ a \o b \in Seq(Y) /\ Len(a \o b) = Len(a) + Len(b)
        /\ \A k \in 1 .. Len(a) + Len(b) : (a \o b)[k] = IF k <= Len(a) THEN a[k] ELSE b[k - Len(a)]
    <2>1. ConcatFacts(Y)
      BY ConcatFactsHold, Zenon
    <2>. QED  BY <1>2, <1>3, <2>1, Zenon DEF ConcatFacts
  <1>7. ASSUME NEW k \in 1 .. Len(c) PROVE c[k] = (a \o b)[k]
    <2>1. k \in 1 .. Len(s) + Len(t) /\ c[k] = f[u[k]]
      BY <1>1, <1>4 DEF u
    <2>2. CASE k <= Len(s)
      <3>1. u[k] = s[k] /\ a[k] = f[s[k]] /\ (a \o b)[k] = a[k]
        BY <2>1, <2>2, <1>1, <1>2, <1>3, <1>5, <1>6 DEF u
      <3>. QED  BY <3>1, <2>1
    <2>3. CASE ~ (k <= Len(s))
      <3>1. k - Len(s) \in 1 .. Len(t)
        BY <2>1, <2>3, <1>5
      <3>2. u[k] = t[k - Len(s)] /\ b[k - Len(s)] = f[t[k - Len(s)]] /\ (a \o b)[k] = b[k - Len(s)]
        BY <3>1, <2>1, <2>3, <1>1, <1>2, <1>3, <1>6 DEF u
      <3>. QED  BY <3>2, <2>1
    <2>. QED  BY <2>2, <2>3
  <1>8. c = a \o b
    <2>1. Len(c) = Len(a \o b)
      BY <1>1, <1>2, <1>3, <1>4, <1>6 DEF u
    <2>2. \A x, y \in Seq(Y) :
            Len(x) = Len(y) /\ (\A k \in 1 .. Len(x) : x[k] = y[k]) => x = y
      BY SeqEqual
    <2>. QED  BY <1>4, <1>6, <1>7, <2>1, <2>2
  <1>. QED  BY <1>8 DEF a, b, c, u

LEMMA MappedEmpty ==
    ASSUME NEW f
    PROVE  Mapped(f, <<>>) = <<>>
  BY DEF Mapped

LEMMA MappedOne ==
    ASSUME NEW f, NEW t
    PROVE  Mapped(f, <<t>>) = <<f[t]>>
  BY DEF Mapped

\* A function that yields sequences.
Yields(f, T, X) == \A t \in T : f[t] \in Seq(X)

LEMMA FlatMapType ==
    ASSUME NEW T, NEW X, NEW f, Yields(f, T, X), NEW s \in Seq(T)
    PROVE  FlatMap(f, s) \in Seq(X)
  BY MappedType, FlattenType DEF Yields, FlatMap

LEMMA FlatMapEmpty ==
    ASSUME NEW f
    PROVE  FlatMap(f, <<>>) = <<>>
  BY MappedEmpty, FlattenEmpty DEF FlatMap

LEMMA FlatMapOne ==
    ASSUME NEW T, NEW X, NEW f, Yields(f, T, X), NEW t \in T
    PROVE  FlatMap(f, <<t>>) = f[t]
  BY MappedOne, FlattenOne DEF FlatMap, Yields

LEMMA FlatMapConcat ==
    ASSUME NEW T, NEW X, NEW f, Yields(f, T, X)
    PROVE  \A s, t \in Seq(T) : FlatMap(f, s \o t) = FlatMap(f, s) \o FlatMap(f, t)
  <1>. SUFFICES ASSUME NEW s \in Seq(T), NEW t \in Seq(T)
                PROVE  FlatMap(f, s \o t) = FlatMap(f, s) \o FlatMap(f, t)
    OBVIOUS
  <1>1. Mapped(f, s) \in Seq(Seq(X)) /\ Mapped(f, t) \in Seq(Seq(X))
    BY MappedType DEF Yields
  <1>2. Mapped(f, s \o t) = Mapped(f, s) \o Mapped(f, t)
    BY MappedConcat
  <1>3. FlattenSeq(Mapped(f, s) \o Mapped(f, t)) = FlattenSeq(Mapped(f, s)) \o FlattenSeq(Mapped(f, t))
    BY <1>1, FlattenConcat
  <1>. QED  BY <1>2, <1>3 DEF FlatMap

LEMMA FlatMapAppend ==
    ASSUME NEW T, NEW X, NEW f, Yields(f, T, X), NEW s \in Seq(T), NEW t \in T
    PROVE  FlatMap(f, Append(s, t)) = FlatMap(f, s) \o f[t]
  <1>1. <<t>> \in Seq(T) /\ Append(s, t) = s \o <<t>>
    BY AppendIsConcat
  <1>2. FlatMap(f, s \o <<t>>) = FlatMap(f, s) \o FlatMap(f, <<t>>)
    <2>1. \A u, v \in Seq(T) : FlatMap(f, u \o v) = FlatMap(f, u) \o FlatMap(f, v)
      BY FlatMapConcat
    <2>. QED  BY <1>1, <2>1, Zenon
  <1>. QED  BY <1>1, <1>2, FlatMapOne

LEMMA FlatMapNone ==
    ASSUME NEW T, NEW X, NEW f, Yields(f, T, X), NEW s \in Seq(T),
           \A k \in 1 .. Len(s) : f[s[k]] = <<>>
    PROVE  FlatMap(f, s) = <<>>
  <1>. DEFINE a == Mapped(f, s)
              g == [k \in 0 .. Len(s) |-> <<>>]
  <1>1. a \in Seq(Seq(X)) /\ Len(a) = Len(s) /\ \A k \in 1 .. Len(s) : a[k] = <<>>
    <2>1. a \in Seq(Seq(X))
      BY MappedType DEF Yields
    <2>2. Len(a) = Len(s) /\ \A k \in 1 .. Len(s) : a[k] = f[s[k]]
      BY MappedFacts
    <2>. QED  BY <2>1, <2>2
  <1>2. Len(s) \in Nat
    BY LenProperties
  <1>. HIDE DEF a
  <1>3. g \in [0 .. Len(a) -> Seq(X)] /\ g[0] = <<>> /\ g[Len(a)] = <<>>
    <2>1. <<>> \in Seq(X)
      BY EmptySeq
    <2>. QED  BY <1>1, <1>2, <2>1
  <1>4. Flattens(g, a)
    <2>1. <<>> \o <<>> = <<>>
      BY EmptySeq, ConcatEmptySeq
    <2>2. ASSUME NEW k \in 1 .. Len(a) PROVE g[k] = <<>> /\ g[k - 1] = <<>> /\ a[k] = <<>>
      <3>1. k \in 0 .. Len(s) /\ k - 1 \in 0 .. Len(s)
        BY <1>1, <1>2
      <3>. QED  BY <3>1, <1>1
    <2>. HIDE DEF g
    <2>. QED  BY <2>1, <2>2 DEF Flattens
  <1>. HIDE DEF g
  <1>5. FlattenSeq(a) = <<>>
    BY <1>1, <1>3, <1>4, FlattenIs
  <1>. QED  BY <1>5 DEF FlatMap, a

\* The same, for all the sequences there are.
Splits(f, T, X) ==
    /\ \A s \in Seq(T) : FlatMap(f, s) \in Seq(X)
    /\ \A s \in Seq(T), t \in T : FlatMap(f, Append(s, t)) = FlatMap(f, s) \o f[t]
    /\ \A s, t \in Seq(T) : FlatMap(f, s \o t) = FlatMap(f, s) \o FlatMap(f, t)

LEMMA FlatMapSplits ==
    ASSUME NEW T, NEW X, NEW f, Yields(f, T, X)
    PROVE  Splits(f, T, X)
  <1>1. \A s \in Seq(T) : FlatMap(f, s) \in Seq(X)
    BY FlatMapType
  <1>2. \A s \in Seq(T), t \in T : FlatMap(f, Append(s, t)) = FlatMap(f, s) \o f[t]
    BY FlatMapAppend
  <1>3. \A s, t \in Seq(T) : FlatMap(f, s \o t) = FlatMap(f, s) \o FlatMap(f, t)
    BY FlatMapConcat
  <1>. QED  BY <1>1, <1>2, <1>3 DEF Splits

\* What is put together in one order may be so in another.
Joins3(a, b, c) == a \o (b \o c) = (a \o b) \o c

Joins4(a, b, c, d) == a \o (b \o (c \o d)) = (a \o (b \o c)) \o d

LEMMA Joined3 ==
    ASSUME NEW X, NEW a \in Seq(X), NEW b \in Seq(X), NEW c \in Seq(X)
    PROVE  Joins3(a, b, c)
  <1>1. a \o (b \o c) = (a \o b) \o c
    OBVIOUS
  <1>. QED  BY <1>1, Zenon DEF Joins3

LEMMA Joined4 ==
    ASSUME NEW X, NEW a \in Seq(X), NEW b \in Seq(X), NEW c \in Seq(X), NEW d \in Seq(X)
    PROVE  Joins4(a, b, c, d)
  <1>1. b \o c \in Seq(X)
    BY ConcatProperties
  <1>2. Joins3(b, c, d) /\ Joins3(a, b \o c, d)
    BY <1>1, Joined3
  <1>. QED  BY <1>2, Zenon DEF Joins3, Joins4

\* Two functions that yield the same of the elements that there are.
LEMMA FlatMapSame ==
    ASSUME NEW T, NEW f, NEW g, NEW s \in Seq(T), \A k \in 1 .. Len(s) : f[s[k]] = g[s[k]]
    PROVE  FlatMap(f, s) = FlatMap(g, s)
  <1>1. DOMAIN s = 1 .. Len(s)
    BY LenProperties
  <1>2. Mapped(f, s) = Mapped(g, s)
    BY <1>1 DEF Mapped
  <1>. QED  BY <1>2 DEF FlatMap

\* Induction over sequences: a set that holds the empty sequence, and with each
\* sequence those that are longer by one element.
LEMMA SeqInduction ==
    ASSUME NEW X, NEW S, <<>> \in S,
           \A s \in Seq(X), x \in X : s \in S => Append(s, x) \in S
    PROVE  \A s \in Seq(X) : s \in S
  <1>. DEFINE N == {n \in Nat : \A s \in Seq(X) : Len(s) = n => s \in S}
  <1>0. \A n : n \in N <=> n \in Nat /\ \A s \in Seq(X) : Len(s) = n => s \in S
    OBVIOUS
  <1>. HIDE DEF N
  <1>1. 0 \in N
    <2>1. \A s \in Seq(X) : Len(s) = 0 => s = <<>>
      BY EmptySeq
    <2>. QED  BY <1>0, <2>1
  <1>2. ASSUME NEW n \in Nat, n \in N PROVE n + 1 \in N
    <2>1. ASSUME NEW s \in Seq(X), Len(s) = n + 1 PROVE s \in S
      <3>. DEFINE t == SubSeq(s, 1, n)
      <3>0. \A k \in 1 .. n + 1 : s[k] \in X
        BY <2>1, ElementOfSeq
      <3>1. t \in Seq(X) /\ Len(t) = n /\ \A k \in 1 .. n : t[k] = s[k]
        BY <2>1, <3>0, SubSeqProperties
      <3>2. s[n + 1] \in X
        <4>1. n + 1 \in 1 .. n + 1
          OBVIOUS
        <4>. QED  BY <3>0, <4>1
      <3>. HIDE DEF t
      <3>3. /\ Append(t, s[n + 1]) \in Seq(X) /\ Len(Append(t, s[n + 1])) = n + 1
            /\ \A k \in 1 .. n : Append(t, s[n + 1])[k] = t[k]
            /\ Append(t, s[n + 1])[n + 1] = s[n + 1]
        BY <3>1, <3>2, AppendProperties
      <3>4. \A k \in 1 .. n + 1 : Append(t, s[n + 1])[k] = s[k]
        <4>1. \A k \in 1 .. n + 1 : k \in 1 .. n \/ k = n + 1
          OBVIOUS
        <4>. QED  BY <3>1, <3>3, <4>1
      <3>5. s = Append(t, s[n + 1])
        BY <2>1, <3>3, <3>4, SeqEqual
      <3>6. t \in S
        BY <1>0, <1>2, <3>1
      <3>. QED  BY <3>1, <3>2, <3>5, <3>6
    <2>2. n + 1 \in Nat
      OBVIOUS
    <2>. QED  BY <1>0, <2>1, <2>2
  <1>3. \A n \in Nat : n \in N
    BY <1>1, <1>2, Induction
  <1>. QED  BY <1>0, <1>3, LenProperties

\* What h yields at once, g yields of what f does.
AfterEach(h, g, f, T) == \A t \in T : h[t] = FlatMap(g, f[t])

Composes(h, g, f, T) == \A s \in Seq(T) : FlatMap(g, FlatMap(f, s)) = FlatMap(h, s)

LEMMA FlatMapCompose ==
    ASSUME NEW T, NEW U, NEW X, NEW f, Yields(f, T, U), NEW g, Yields(g, U, X),
           NEW h, AfterEach(h, g, f, T)
    PROVE  Yields(h, T, X) /\ Composes(h, g, f, T)
  <1>. USE DEF AfterEach, Composes
  <1>1. Yields(h, T, X)
    <2>1. \A t \in T : FlatMap(g, f[t]) \in Seq(X)
      <3>. SUFFICES ASSUME NEW t \in T PROVE FlatMap(g, f[t]) \in Seq(X)
        OBVIOUS
      <3>1. f[t] \in Seq(U)
        BY DEF Yields
      <3>. QED  BY <3>1, FlatMapType
    <2>. QED  BY <2>1 DEF Yields
  <1>. DEFINE S == {s \in Seq(T) : FlatMap(g, FlatMap(f, s)) = FlatMap(h, s)}
  <1>0. \A s : s \in S <=> s \in Seq(T) /\ FlatMap(g, FlatMap(f, s)) = FlatMap(h, s)
    OBVIOUS
  <1>. HIDE DEF S
  <1>2. <<>> \in S
    BY <1>0, FlatMapEmpty, EmptySeq
  <1>3. ASSUME NEW s \in Seq(T), NEW t \in T, s \in S PROVE Append(s, t) \in S
    <2>1. FlatMap(f, Append(s, t)) = FlatMap(f, s) \o f[t]
      BY FlatMapAppend
    <2>2. FlatMap(f, s) \in Seq(U) /\ f[t] \in Seq(U)
      BY FlatMapType DEF Yields
    <2>3. FlatMap(g, FlatMap(f, s) \o f[t]) = FlatMap(g, FlatMap(f, s)) \o FlatMap(g, f[t])
      <3>1. \A u, v \in Seq(U) : FlatMap(g, u \o v) = FlatMap(g, u) \o FlatMap(g, v)
        BY FlatMapConcat
      <3>. QED  BY <2>2, <3>1, Zenon
    <2>4. FlatMap(h, Append(s, t)) = FlatMap(h, s) \o h[t]
      BY <1>1, FlatMapAppend
    <2>5. FlatMap(g, FlatMap(f, s)) = FlatMap(h, s)
      BY <1>0, <1>3
    <2>6. Append(s, t) \in Seq(T)
      BY AppendProperties
    <2>7. FlatMap(g, FlatMap(f, Append(s, t))) = FlatMap(h, Append(s, t))
      BY <2>1, <2>3, <2>4, <2>5
    <2>. QED  BY <1>0, <2>6, <2>7
  <1>4. \A s \in Seq(T) : s \in S
    BY <1>2, <1>3, SeqInduction
  <1>. QED  BY <1>0, <1>1, <1>4

-------------------------------------------------------------------------------
\* The greatest and the least of some numbers.

LEMMA MinFacts ==
    ASSUME NEW S, S \subseteq Nat, S # {}
    PROVE  /\ Min(S) \in S
           /\ \A x \in S : Min(S) <= x
  <1>1. \E x \in S : \A y \in S : x <= y
    BY LeastNumber
  <1>. QED  BY <1>1 DEF Min

LEMMA MaxFacts ==
    ASSUME NEW S, NEW n \in Nat, S \subseteq 0 .. n, S # {}
    PROVE  /\ Max(S) \in S
           /\ \A x \in S : x <= Max(S)
  <1>. DEFINE T == {n - x : x \in S}
  <1>1. \A x \in S : x \in Nat /\ n - x \in Nat
    OBVIOUS
  <1>2. T \subseteq Nat /\ T # {}
    BY <1>1
  <1>3. PICK y \in T : \A z \in T : y <= z
    <2>. HIDE DEF T
    <2>. QED  BY <1>2, LeastNumber
  <1>4. PICK x \in S : y = n - x
    BY <1>3
  <1>5. ASSUME NEW z \in S PROVE z <= x
    <2>1. n - z \in T
      OBVIOUS
    <2>2. y <= n - z
      BY <2>1, <1>3
    <2>. QED  BY <2>2, <1>1, <1>4
  <1>. QED  BY <1>5 DEF Max

-------------------------------------------------------------------------------
\* A fold over a sequence, with a function of what there is and an element.

Stepped(step, y, x) == step[<<y, x>>]

Takes(step, Y, X) == \A y \in Y, x \in X : Stepped(step, y, x) \in Y

Folds(g, step, a, s) ==
    g[0] = a /\ \A n \in 1 .. Len(s) : g[n] = Stepped(step, g[n - 1], s[n])

\* The same, as far as what there is is of a type.
FoldsIn(Y, f, step, a, s) ==
    /\ f[0] = a
    /\ \A n \in 1 .. Len(s) : f[n - 1] \in Y => f[n] = Stepped(step, f[n - 1], s[n])

LEMMA FoldExists ==
    ASSUME NEW X, NEW Y, NEW a \in Y, NEW step, Takes(step, Y, X), NEW s \in Seq(X)
    PROVE  \E g \in [0 .. Len(s) -> Y] : Folds(g, step, a, s)
  <1>. DEFINE P(n, g) == g[0] = a /\ \A k \in 1 .. n : g[k] = Stepped(step, g[k - 1], s[k])
              S == {n \in Nat : \E g \in [0 .. n -> Y] : P(n, g)}
  <1>0. Len(s) \in Nat /\ \A n \in 1 .. Len(s) : s[n] \in X
    BY LenProperties, ElementOfSeq
  <1>1. 0 \in S
    <2>. DEFINE h == [k \in 0 .. 0 |-> a]
    <2>1. h \in [0 .. 0 -> Y] /\ P(0, h)
      OBVIOUS
    <2>. QED  BY <2>1
  <1>2. ASSUME NEW n \in 0 .. Len(s) - 1, n \in S PROVE n + 1 \in S
    <2>0. n \in Nat /\ n + 1 \in Nat /\ n + 1 \in 1 .. Len(s)
      BY <1>0
    <2>1. PICK g \in [0 .. n -> Y] : P(n, g)
      BY <1>2
    <2>. DEFINE y == Stepped(step, g[n], s[n + 1])
    <2>2. y \in Y
      <3>1. g[n] \in Y /\ s[n + 1] \in X
        BY <1>0, <2>0
      <3>. QED  BY <3>1 DEF Takes
    <2>. DEFINE h == [k \in 0 .. n + 1 |-> IF k = n + 1 THEN y ELSE g[k]]
    <2>3. h \in [0 .. n + 1 -> Y]
      <3>2. \A k \in 0 .. n + 1 : k = n + 1 \/ k \in 0 .. n
        BY <2>0
      <3>. HIDE DEF y
      <3>. QED  BY <3>2, <2>2
    <2>4. P(n + 1, h)
      <3>1. h[0] = g[0]
        BY <2>0
      <3>2. ASSUME NEW k \in 1 .. n + 1 PROVE h[k] = Stepped(step, h[k - 1], s[k])
        <4>1. CASE k = n + 1
          <5>1. n + 1 \in 0 .. n + 1 /\ n \in 0 .. n + 1 /\ n # n + 1 /\ k - 1 = n
            BY <4>1, <2>0
          <5>2. h[n + 1] = Stepped(step, g[n], s[n + 1]) /\ h[n] = g[n]
            BY <5>1
          <5>. QED  BY <4>1, <5>1, <5>2
        <4>2. CASE k # n + 1
          <5>1. k \in 1 .. n /\ k \in 0 .. n + 1 /\ k - 1 \in 0 .. n + 1 /\ k - 1 # n + 1
            BY <4>2, <2>0
          <5>2. h[k] = g[k] /\ h[k - 1] = g[k - 1]
            BY <5>1, <4>2
          <5>. QED  BY <5>1, <5>2, <2>1
        <4>. QED  BY <4>1, <4>2
      <3>. QED  BY <3>1, <3>2, <2>1
    <2>. HIDE DEF P
    <2>. QED  BY <2>0, <2>3, <2>4
  <1>3. \A n \in 0 .. Len(s) : n \in S
    <2>. HIDE DEF S
    <2>. QED  BY <1>0, <1>1, <1>2, InductionUpTo
  <1>4. Len(s) \in S
    <2>. HIDE DEF S
    <2>. QED  BY <1>0, <1>3
  <1>. QED  BY <1>4 DEF Folds

Fold(step, a, s) == (CHOOSE g : Folds(g, step, a, s))[Len(s)]

\* Whatever takes the steps of the fold comes to the same.
LEMMA FoldIs ==
    ASSUME NEW X, NEW Y, NEW a \in Y, NEW step, Takes(step, Y, X), NEW s \in Seq(X),
           NEW f, FoldsIn(Y, f, step, a, s)
    PROVE  f[Len(s)] = Fold(step, a, s) /\ f[Len(s)] \in Y
  <1>. DEFINE g == CHOOSE g : Folds(g, step, a, s)
              S == {n \in 0 .. Len(s) : f[n] = g[n] /\ f[n] \in Y}
  <1>0. Len(s) \in Nat /\ \A n \in 1 .. Len(s) : s[n] \in X
    BY LenProperties, ElementOfSeq
  <1>1. Folds(g, step, a, s)
    BY FoldExists
  <1>. HIDE DEF g
  <1>2. 0 \in S
    BY <1>0, <1>1 DEF Folds, FoldsIn
  <1>3. ASSUME NEW n \in 0 .. Len(s) - 1, n \in S PROVE n + 1 \in S
    <2>1. n + 1 \in 1 .. Len(s) /\ (n + 1) - 1 = n
      BY <1>0
    <2>2. f[n] = g[n] /\ f[n] \in Y
      BY <1>3
    <2>3. f[n + 1] = Stepped(step, f[n], s[n + 1]) /\ g[n + 1] = Stepped(step, g[n], s[n + 1])
      BY <2>1, <2>2, <1>1 DEF Folds, FoldsIn
    <2>4. Stepped(step, f[n], s[n + 1]) \in Y
      BY <2>1, <2>2, <1>0 DEF Takes
    <2>. QED  BY <2>1, <2>2, <2>3, <2>4
  <1>4. Len(s) \in S
    <2>. HIDE DEF S
    <2>1. \A n \in 0 .. Len(s) : n \in S
      BY <1>0, <1>2, <1>3, InductionUpTo
    <2>. QED  BY <2>1, <1>0
  <1>. QED  BY <1>4 DEF Fold, g

LEMMA FoldIsThat ==
    ASSUME NEW X, NEW Y, NEW a \in Y, NEW step, Takes(step, Y, X), NEW s \in Seq(X),
           NEW g, Folds(g, step, a, s)
    PROVE  g[Len(s)] = Fold(step, a, s) /\ g[Len(s)] \in Y
  <1>1. FoldsIn(Y, g, step, a, s)
    BY DEF Folds, FoldsIn
  <1>. QED  BY <1>1, FoldIs

LEMMA FoldFacts ==
    ASSUME NEW X, NEW Y, NEW a \in Y, NEW step, Takes(step, Y, X)
    PROVE  /\ Fold(step, a, <<>>) = a
           /\ \A s \in Seq(X) : Fold(step, a, s) \in Y
           /\ \A s \in Seq(X), x \in X :
                 Fold(step, a, Append(s, x)) = Stepped(step, Fold(step, a, s), x)
  <1>1. ASSUME NEW s \in Seq(X)
        PROVE  /\ Fold(step, a, s) \in Y
               /\ s = <<>> => Fold(step, a, s) = a
    <2>1. PICK g \in [0 .. Len(s) -> Y] : Folds(g, step, a, s)
      BY FoldExists
    <2>2. g[0] = a /\ \A n \in 1 .. Len(s) : g[n] = Stepped(step, g[n - 1], s[n])
      BY <2>1 DEF Folds
    <2>3. g[Len(s)] = Fold(step, a, s) /\ g[Len(s)] \in Y
      BY <2>1, FoldIsThat
    <2>. QED  BY <2>2, <2>3
  <1>2. <<>> \in Seq(X)
    BY EmptySeq
  <1>3. ASSUME NEW s \in Seq(X), NEW x \in X
        PROVE  Fold(step, a, Append(s, x)) = Stepped(step, Fold(step, a, s), x)
    <2>. DEFINE t == Append(s, x)
    <2>1. /\ t \in Seq(X) /\ Len(t) = Len(s) + 1 /\ t[Len(s) + 1] = x
          /\ \A k \in 1 .. Len(s) : t[k] = s[k]
          /\ Len(s) \in Nat
      BY AppendProperties, LenProperties
    <2>. HIDE DEF t
    <2>2. PICK g \in [0 .. Len(t) -> Y] : Folds(g, step, a, t)
      BY <2>1, FoldExists
    <2>3. g[0] = a /\ \A n \in 1 .. Len(t) : g[n] = Stepped(step, g[n - 1], t[n])
      BY <2>2 DEF Folds
    <2>4. g[Len(t)] = Fold(step, a, t)
      BY <2>1, <2>2, FoldIsThat
    <2>5. \A n \in 1 .. Len(s) : g[n] = Stepped(step, g[n - 1], s[n])
      <3>1. \A n \in 1 .. Len(s) : n \in 1 .. Len(t)
        BY <2>1
      <3>. QED  BY <2>1, <2>3, <3>1
    <2>6. g[Len(s)] = Fold(step, a, s)
      BY <2>3, <2>5, FoldIsThat DEF Folds
    <2>7. g[Len(t)] = Stepped(step, g[Len(s)], x)
      <3>1. Len(t) \in 1 .. Len(t) /\ Len(t) - 1 = Len(s)
        BY <2>1
      <3>. QED  BY <3>1, <2>1, <2>2 DEF Folds
    <2>. QED  BY <2>4, <2>6, <2>7 DEF t
  <1>. QED  BY <1>1, <1>2, <1>3

\* A fold over two sequences, one after the other.
LEMMA FoldConcat ==
    ASSUME NEW X, NEW Y, NEW a \in Y, NEW step, Takes(step, Y, X),
           NEW s \in Seq(X), NEW t \in Seq(X)
    PROVE  Fold(step, a, s \o t) = Fold(step, Fold(step, a, s), t)
  <1>. DEFINE b == Fold(step, a, s)
              u == s \o t
  <1>0. Len(s) \in Nat /\ Len(t) \in Nat
    BY LenProperties
  <1>1. b \in Y
    BY FoldFacts
  <1>2. /\ u \in Seq(X) /\ Len(u) = Len(s) + Len(t)
        /\ \A k \in 1 .. Len(s) : u[k] = s[k]
        /\ \A k \in 1 .. Len(t) : u[Len(s) + k] = t[k]
    <2>1. /\ u \in Seq(X) /\ Len(u) = Len(s) + Len(t)
          /\ \A k \in 1 .. Len(s) + Len(t) : u[k] = IF k <= Len(s) THEN s[k] ELSE t[k - Len(s)]
      BY ConcatProperties
    <2>2. \A k \in 1 .. Len(s) : u[k] = s[k]
      BY <2>1, <1>0
    <2>3. ASSUME NEW k \in 1 .. Len(t) PROVE u[Len(s) + k] = t[k]
      <3>1. Len(s) + k \in 1 .. Len(s) + Len(t) /\ ~ (Len(s) + k <= Len(s))
            /\ (Len(s) + k) - Len(s) = k
        BY <1>0
      <3>. HIDE DEF u
      <3>. QED  BY <3>1, <2>1
    <2>. QED  BY <2>1, <2>2, <2>3
  <1>. HIDE DEF b, u
  <1>3. PICK g : Folds(g, step, a, u)
    BY <1>2, FoldExists
  <1>4. g[0] = a /\ \A n \in 1 .. Len(u) : g[n] = Stepped(step, g[n - 1], u[n])
    BY <1>3 DEF Folds
  <1>5. g[Len(u)] = Fold(step, a, u)
    <2>1. u \in Seq(X)
      BY <1>2
    <2>. QED  BY <2>1, <1>3, FoldIsThat
  <1>6. g[Len(s)] = b
    <2>1. \A n \in 1 .. Len(s) : g[n] = Stepped(step, g[n - 1], s[n])
      <3>1. \A n \in 1 .. Len(s) : n \in 1 .. Len(u)
        BY <1>0, <1>2
      <3>. QED  BY <1>2, <1>4, <3>1
    <2>. QED  BY <1>4, <2>1, FoldIsThat DEF b, Folds
  <1>. DEFINE h == [n \in 0 .. Len(t) |-> g[Len(s) + n]]
  <1>7. h[0] = b /\ h[Len(t)] = g[Len(u)]
    BY <1>0, <1>2, <1>6
  <1>8. ASSUME NEW n \in 1 .. Len(t) PROVE h[n] = Stepped(step, h[n - 1], t[n])
    <2>1. /\ n \in 0 .. Len(t) /\ n - 1 \in 0 .. Len(t) /\ Len(s) + n \in 1 .. Len(u)
          /\ (Len(s) + n) - 1 = Len(s) + (n - 1)
      BY <1>0, <1>2
    <2>2. h[n] = g[Len(s) + n] /\ h[n - 1] = g[Len(s) + (n - 1)]
      BY <2>1
    <2>3. g[Len(s) + n] = Stepped(step, g[(Len(s) + n) - 1], u[Len(s) + n])
      BY <1>4, <2>1
    <2>. HIDE DEF h
    <2>. QED  BY <2>1, <2>2, <2>3, <1>2
  <1>. HIDE DEF h
  <1>9. h[Len(t)] = Fold(step, b, t)
    BY <1>1, <1>7, <1>8, FoldIsThat DEF Folds
  <1>. QED  BY <1>5, <1>7, <1>9 DEF b, u

-------------------------------------------------------------------------------
\* A sequence without its last element, and with one more.

LEMMA FrontFacts ==
    ASSUME NEW X, NEW s \in Seq(X), s # <<>>
    PROVE  /\ Len(s) \in Nat \ {0}
           /\ Front(s) \in Seq(X) /\ Len(Front(s)) = Len(s) - 1
           /\ s[Len(s)] \in X
           /\ \A k \in 1 .. Len(s) - 1 : Front(s)[k] = s[k]
           /\ s = Append(Front(s), s[Len(s)])
  <1>1. Len(s) \in Nat \ {0}
    BY EmptySeq, LenProperties
  <1>2. PICK n \in Nat \ {0} : n = Len(s)
    BY <1>1
  <1>. DEFINE front == SubSeq(s, 1, n - 1)
  <1>3. /\ front \in Seq(X) /\ Len(front) = n - 1
        /\ \A k \in 1 .. n - 1 : front[k] = s[k]
    BY <1>2
  <1>4. Front(s) = front
    BY <1>2 DEF Front
  <1>5. s[n] \in X
    BY <1>2, ElementOfSeq
  <1>. HIDE DEF front
  <1>6. s = Append(front, s[n])
    <2>1. /\ Append(front, s[n]) \in Seq(X) /\ Len(Append(front, s[n])) = n
          /\ \A k \in 1 .. n - 1 : Append(front, s[n])[k] = front[k]
          /\ Append(front, s[n])[n] = s[n]
      BY <1>3, <1>5, AppendProperties
    <2>2. \A k \in 1 .. n : k \in 1 .. n - 1 \/ k = n
      OBVIOUS
    <2>3. \A k \in 1 .. n : Append(front, s[n])[k] = s[k]
      BY <1>3, <2>1, <2>2
    <2>. QED  BY <1>2, <2>1, <2>3, SeqEqual
  <1>. QED  BY <1>1, <1>2, <1>3, <1>4, <1>5, <1>6

LEMMA AppendFacts ==
    ASSUME NEW X, NEW s \in Seq(X), NEW x \in X
    PROVE  /\ Append(s, x) \in Seq(X) /\ Append(s, x) # <<>>
           /\ Len(s) \in Nat /\ Len(Append(s, x)) = Len(s) + 1
           /\ Append(s, x)[Len(s) + 1] = x
           /\ \A k \in 1 .. Len(s) : Append(s, x)[k] = s[k]
  <1>1. /\ Append(s, x) \in Seq(X) /\ Len(Append(s, x)) = Len(s) + 1
        /\ \A k \in 1 .. Len(s) : Append(s, x)[k] = s[k]
        /\ Append(s, x)[Len(s) + 1] = x
        /\ Len(s) \in Nat
    BY AppendProperties, LenProperties
  <1>2. Append(s, x) # <<>>
    BY <1>1, EmptySeq
  <1>. QED  BY <1>1, <1>2
===============================================================================
