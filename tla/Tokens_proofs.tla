----------------------------- MODULE Tokens_proofs -----------------------------
(***************************************************************************)
(* Proofs about the ways of tokens: the deque of tokens read ahead, the    *)
(* getter that has it, the files in which a pass leaves its tokens, and    *)
(* the parser that takes them.                                             *)
(*                                                                         *)
(* Each operation of IndexedDeque keeps the representation and does to the *)
(* contents what the operation of its name does to a sequence, for any     *)
(* elements, any width of the indices and any sequence of calls.           *)
(*                                                                         *)
(* The buffered getter implements a stream of tokens, for any input, any   *)
(* tokens, any strings and any width of the indices.                       *)
(*                                                                         *)
(* Of the files: an entry that has been written is never written again, so *)
(* that what is known of it stays true while the data file grows           *)
(* (Extends).  What the putter's dictionaries, the records and the         *)
(* getter's caches say of the entries is known in that sense.              *)
(*                                                                         *)
(* Of the parser: each step keeps what the calls that have not returned    *)
(* and the nodes made so far say of the places up to the last one taken.   *)
(* When it has returned there are no others, and the nodes are those that  *)
(* the binding powers ask for.                                             *)
(***************************************************************************)
EXTENDS TokenFiles, BufferedGetter, IndexedDequeClient, PrattParse, SequenceLemmas

\* Indices.

LEMMA IndexArithmetic ==
    ASSUME NEW i \in Indices, NEW j \in Indices
    PROVE  /\ Minus(j, i) \in Indices
           /\ Plus(i, j) \in Indices
           /\ Minus(Plus(i, j), i) = j
           /\ Plus(i, Minus(j, i)) = j
           /\ Minus(j, i) = 0 <=> i = j
    BY SizeModulusAssumption DEF Indices, Plus, Minus

LEMMA StepArithmetic ==
    ASSUME NEW i \in Indices
    PROVE  /\ Minus(i, 1) \in Indices
           /\ Plus(i, 1) \in Indices
           /\ Plus(Minus(i, 1), 1) = i
           /\ Minus(Plus(i, 1), 1) = i
    BY SizeModulusAssumption DEF Indices, Plus, Minus

\* A window of indices that grows or shrinks by one at its front.
LEMMA FrontArithmetic ==
    ASSUME NEW i \in Indices, NEW j \in Indices, Minus(j, i) < MaxSize
    PROVE  /\ Minus(j, Minus(i, 1)) = Minus(j, i) + 1
           /\ \A k \in Indices : Minus(k, Minus(i, 1)) =
                IF k = Minus(i, 1) THEN 0 ELSE Minus(k, i) + 1
    BY SizeModulusAssumption DEF Indices, Plus, Minus, MaxSize

LEMMA DropFrontArithmetic ==
    ASSUME NEW i \in Indices, NEW j \in Indices, i # j
    PROVE  /\ Minus(j, Plus(i, 1)) = Minus(j, i) - 1
           /\ \A k \in Indices : Minus(k, Plus(i, 1)) =
                IF k = i THEN SizeModulus - 1 ELSE Minus(k, i) - 1
    BY SizeModulusAssumption DEF Indices, Plus, Minus

\* The same at its back.
LEMMA BackArithmetic ==
    ASSUME NEW i \in Indices, NEW j \in Indices, Minus(j, i) < MaxSize
    PROVE  Minus(Plus(j, 1), i) = Minus(j, i) + 1
    BY SizeModulusAssumption DEF Indices, Plus, Minus, MaxSize

LEMMA DropBackArithmetic ==
    ASSUME NEW i \in Indices, NEW j \in Indices, i # j
    PROVE  Minus(Minus(j, 1), i) = Minus(j, i) - 1
    BY SizeModulusAssumption DEF Indices, Plus, Minus

\* An index is determined by its distance from the first one.
LEMMA MinusInjective ==
    ASSUME NEW i \in Indices, NEW j \in Indices, NEW k \in Indices,
           Minus(j, i) = Minus(k, i)
    PROVE  j = k
    BY SizeModulusAssumption DEF Indices, Minus

LEMMA IndicesAreNaturals ==
    /\ \A i \in Indices : i \in Nat /\ i < SizeModulus
    /\ \A i \in Nat : i < SizeModulus => i \in Indices
    BY SizeModulusAssumption DEF Indices

-------------------------------------------------------------------------------

\* A deque of which the trie has the right domain and values is well formed.
Represents(trie, i1, i2) ==
    /\ i1 \in Indices
    /\ i2 \in Indices
    /\ DOMAIN trie = {i \in Indices : Minus(i, i1) < Minus(i2, i1)}
    /\ \A i \in DOMAIN trie : trie[i] \in Elements

LEMMA MakeDequeWellFormed ==
    ASSUME NEW trie, NEW i1, NEW i2, Represents(trie, i1, i2)
    PROVE  /\ WellFormed(MakeDeque(trie, i1, i2))
           /\ Size(MakeDeque(trie, i1, i2)) = Minus(i2, i1)
           /\ \A k \in 0 .. Minus(i2, i1) - 1 :
                GetAt(MakeDeque(trie, i1, i2), k) = trie[Plus(i1, k)]
  <1>. USE DEF Represents
  <1>1. Minus(i2, i1) \in Nat /\ Minus(i2, i1) < SizeModulus
    BY IndexArithmetic, IndicesAreNaturals
  <1>2. CASE DOMAIN trie = {}
    <2>1. Minus(i1, i1) = 0
      BY IndicesAreNaturals DEF Minus
    <2>2. Minus(i2, i1) = 0
      BY <1>1, <1>2, <2>1
    <2>3. MakeDeque(trie, i1, i2) = EmptyDeque
      BY <1>2 DEF MakeDeque
    <2>4. 0 \in Indices
      BY SizeModulusAssumption DEF Indices
    <2>5. Size(EmptyDeque) = 0 /\ EmptyDeque.i1 = 0 /\ EmptyDeque.i2 = 0
      BY DEF Size, EmptyDeque, Minus
    <2>6. {i \in Indices : Minus(i, 0) < 0} = {}
      BY IndexArithmetic, IndicesAreNaturals, <2>4
    <2>7. WellFormed(EmptyDeque)
      BY <2>4, <2>5, <2>6 DEF WellFormed, EmptyDeque, EmptyTrie
    <2>. QED  BY <2>2, <2>3, <2>5, <2>7
  <1>3. CASE DOMAIN trie # {}
    <2>1. MakeDeque(trie, i1, i2) = [trie |-> trie, i1 |-> i1, i2 |-> i2]
      BY <1>3 DEF MakeDeque
    <2>2. Minus(i2, i1) # 0
      <3>1. PICK i \in Indices : Minus(i, i1) < Minus(i2, i1)
        BY <1>3
      <3>2. Minus(i, i1) \in Nat
        BY IndexArithmetic, IndicesAreNaturals
      <3>. QED  BY <3>1, <3>2
    <2>. QED  BY <2>1, <2>2 DEF WellFormed, Size, GetAt, DequeIndex
  <1>. QED  BY <1>2, <1>3

\* What is known of a deque that is well formed.
LEMMA WellFormedFacts ==
    ASSUME NEW d, WellFormed(d)
    PROVE  /\ Represents(d.trie, d.i1, d.i2)
           /\ Size(d) \in Nat /\ Size(d) < SizeModulus
           /\ Size(d) = 0 <=> d.i1 = d.i2
           /\ \A k \in 0 .. Size(d) - 1 :
                /\ DequeIndex(d, k) \in DOMAIN d.trie
                /\ GetAt(d, k) \in Elements
                /\ Minus(DequeIndex(d, k), d.i1) = k
           /\ Contents(d) \in Seq(Elements)
           /\ Len(Contents(d)) = Size(d)
  <1>. USE DEF WellFormed
  <1>1. Represents(d.trie, d.i1, d.i2)
    BY DEF Represents, Size
  <1>2. Size(d) \in Nat /\ Size(d) < SizeModulus /\ (Size(d) = 0 <=> d.i1 = d.i2)
    BY IndexArithmetic, IndicesAreNaturals DEF Size
  <1>3. ASSUME NEW k \in 0 .. Size(d) - 1
        PROVE  /\ DequeIndex(d, k) \in DOMAIN d.trie
               /\ GetAt(d, k) \in Elements
               /\ Minus(DequeIndex(d, k), d.i1) = k
    <2>0. k \in Nat /\ k < Size(d)
      BY <1>2
    <2>1. k \in Indices /\ k < Size(d)
      <3>1. k < SizeModulus
        BY <1>2, <2>0, SizeModulusAssumption
      <3>. QED  BY <2>0, <3>1, IndicesAreNaturals
    <2>2. DequeIndex(d, k) \in Indices /\ Minus(DequeIndex(d, k), d.i1) = k
      BY <2>1, IndexArithmetic DEF DequeIndex
    <2>. QED  BY <2>1, <2>2 DEF GetAt
  <1>4. Contents(d) \in [1 .. Size(d) -> Elements]
    <2>1. \A k \in 1 .. Size(d) : k - 1 \in 0 .. Size(d) - 1
      BY <1>2
    <2>. QED  BY <1>3, <2>1 DEF Contents
  <1>. QED  BY <1>1, <1>2, <1>3, <1>4

\* The contents of the result of an operation, element by element.
LEMMA ContentsOf ==
    ASSUME NEW d, WellFormed(d), NEW k \in 1 .. Size(d)
    PROVE  Contents(d)[k] = GetAt(d, k - 1)
    BY DEF Contents

\* What indexed_deque_get returns.
LEMMA GetAtLemma ==
    ASSUME NEW d, WellFormed(d), NEW j \in Nat, j < Size(d)
    PROVE  GetAt(d, j) = Contents(d)[j + 1]
  <1>1. j + 1 \in 1 .. Size(d) /\ j + 1 - 1 = j
    BY WellFormedFacts
  <1>. QED  BY <1>1, ContentsOf

LEMMA EmptyDequeWellFormed ==
    WellFormed(EmptyDeque) /\ Size(EmptyDeque) = 0 /\ Contents(EmptyDeque) = <<>>
  <1>1. 0 \in Indices
    BY SizeModulusAssumption DEF Indices
  <1>2. {i \in Indices : Minus(i, 0) < Minus(0, 0)} = {}
    BY IndicesAreNaturals DEF Minus
  <1>3. Represents(EmptyTrie, 0, 0)
    BY <1>1, <1>2 DEF Represents, EmptyTrie
  <1>4. MakeDeque(EmptyTrie, 0, 0) = EmptyDeque
    BY DEF MakeDeque, EmptyTrie
  <1>5. WellFormed(EmptyDeque) /\ Size(EmptyDeque) = 0
    BY <1>3, <1>4, MakeDequeWellFormed DEF Minus
  <1>. QED  BY <1>5 DEF Contents

\* Two ways to the same index.
LEMMA ShiftArithmetic ==
    ASSUME NEW i \in Indices, NEW k \in Nat, k + 1 < SizeModulus
    PROVE  /\ Plus(Minus(i, 1), k + 1) = Plus(i, k)
           /\ Plus(Plus(i, 1), k) = Plus(i, k + 1)
           /\ Plus(Minus(i, 1), 0) = Minus(i, 1)
           /\ Plus(Minus(i, 1), k + 1) # Minus(i, 1)
           /\ Plus(i, k + 1) # i
    BY SizeModulusAssumption DEF Indices, Plus, Minus

\* Two different distances from the first index are two indices.
LEMMA PlusInjective ==
    ASSUME NEW i \in Indices, NEW j \in Indices, NEW k \in Indices,
           Plus(i, j) = Plus(i, k)
    PROVE  j = k
    BY SizeModulusAssumption DEF Indices, Plus

\* A sequence that agrees with a deque at each place is its contents.
LEMMA SameContents ==
    ASSUME NEW d, WellFormed(d), NEW s \in Seq(Elements), Len(s) = Size(d),
           \A k \in 1 .. Size(d) : s[k] = GetAt(d, k - 1)
    PROVE  Contents(d) = s
  <1>1. s = [k \in 1 .. Size(d) |-> s[k]]
    OBVIOUS
  <1>. QED  BY <1>1 DEF Contents

\* indexed_deque_put_before_first puts the element before the others.
LEMMA PutBeforeFirstLemma ==
    ASSUME NEW d, WellFormed(d), Size(d) < MaxSize, NEW e \in Elements
    PROVE  /\ WellFormed(PutBeforeFirst(d, e))
           /\ Contents(PutBeforeFirst(d, e)) = <<e>> \o Contents(d)
  <1>. DEFINE new == PutBeforeFirst(d, e)
              trie == InsertNode(d.trie, Minus(d.i1, 1), e)
              i1 == Minus(d.i1, 1)
              s == <<e>> \o Contents(d)
  <1>1. /\ d.i1 \in Indices /\ d.i2 \in Indices
        /\ DOMAIN d.trie = {i \in Indices : Minus(i, d.i1) < Size(d)}
        /\ \A i \in DOMAIN d.trie : d.trie[i] \in Elements
        /\ Size(d) = Minus(d.i2, d.i1)
    BY DEF WellFormed, Size
  <1>2. Size(d) \in Nat /\ Size(d) + 1 < SizeModulus
    BY WellFormedFacts, SizeModulusAssumption DEF MaxSize
  <1>3. /\ i1 \in Indices
        /\ Minus(d.i2, i1) = Size(d) + 1
        /\ \A k \in Indices : Minus(k, i1) = IF k = i1 THEN 0 ELSE Minus(k, d.i1) + 1
    BY <1>1, StepArithmetic, FrontArithmetic
  <1>4. DOMAIN trie = {i \in Indices : Minus(i, i1) < Minus(d.i2, i1)}
    <2>1. ASSUME NEW k \in Indices
          PROVE  k \in DOMAIN trie <=> Minus(k, i1) < Minus(d.i2, i1)
      <3>1. k \in DOMAIN trie <=> Minus(k, d.i1) < Size(d) \/ k = i1
        BY <1>1 DEF InsertNode
      <3>2. Minus(k, d.i1) \in Nat
        BY <1>1, IndexArithmetic, IndicesAreNaturals
      <3>3. CASE k = i1
        BY <3>1, <3>3, <1>2, <1>3
      <3>4. CASE k # i1
        <4>1. Minus(k, i1) = Minus(k, d.i1) + 1
          BY <3>4, <1>3
        <4>. HIDE DEF i1
        <4>. QED  BY <3>1, <3>2, <3>4, <4>1, <1>2, <1>3
      <3>. QED  BY <3>3, <3>4
    <2>2. DOMAIN trie \subseteq Indices
      BY <1>1, <1>3 DEF InsertNode
    <2>. QED  BY <2>1, <2>2
  <1>5. \A i \in DOMAIN trie : trie[i] \in Elements
    BY <1>1 DEF InsertNode
  <1>6. Represents(trie, i1, d.i2)
    BY <1>1, <1>3, <1>4, <1>5 DEF Represents
  <1>7. /\ WellFormed(new) /\ Size(new) = Size(d) + 1
        /\ \A k \in 0 .. Size(d) : GetAt(new, k) = trie[Plus(i1, k)]
    <2>1. new = MakeDeque(trie, i1, d.i2)
      BY DEF PutBeforeFirst
    <2>. HIDE DEF trie, i1, new
    <2>2. /\ WellFormed(new) /\ Size(new) = Minus(d.i2, i1)
          /\ \A k \in 0 .. Minus(d.i2, i1) - 1 : GetAt(new, k) = trie[Plus(i1, k)]
      BY <1>6, <2>1, MakeDequeWellFormed
    <2>3. Minus(d.i2, i1) - 1 = Size(d)
      BY <1>2, <1>3
    <2>. QED  BY <1>3, <2>2, <2>3
  <1>8. ASSUME NEW k \in 1 .. Size(new)
        PROVE  s[k] = GetAt(new, k - 1)
    <2>1. k \in 1 .. Size(d) + 1
      BY <1>7
    <2>2. Len(Contents(d)) = Size(d) /\ Contents(d) \in Seq(Elements)
      BY WellFormedFacts
    <2>3. CASE k = 1
      <3>1. trie[i1] = e
        BY DEF InsertNode
      <3>2. GetAt(new, 0) = trie[Plus(i1, 0)]
        BY <1>2, <1>7
      <3>3. Plus(i1, 0) = i1
        BY <1>1, <1>2, ShiftArithmetic
      <3>4. s[1] = e
        BY <2>2
      <3>. QED  BY <2>3, <3>1, <3>2, <3>3, <3>4
    <2>4. CASE k # 1
      <3>1. k - 2 \in Nat /\ k - 2 < Size(d) /\ k - 1 = k - 2 + 1 /\ k - 1 \in 1 .. Size(d)
        BY <1>2, <2>1, <2>4
      <3>2. Plus(i1, k - 1) = DequeIndex(d, k - 2) /\ Plus(i1, k - 1) # i1
        <4>1. k - 2 + 1 < SizeModulus
          BY <1>2, <3>1, SizeModulusAssumption
        <4>. QED  BY <1>1, <3>1, <4>1, ShiftArithmetic DEF DequeIndex
      <3>3. DequeIndex(d, k - 2) \in DOMAIN d.trie
        BY <1>2, <3>1, WellFormedFacts
      <3>4. trie[Plus(i1, k - 1)] = GetAt(d, k - 2)
        BY <3>2, <3>3 DEF InsertNode, GetAt
      <3>5. GetAt(new, k - 1) = trie[Plus(i1, k - 1)]
        BY <1>2, <1>7, <3>1
      <3>6. s[k] = Contents(d)[k - 1]
        BY <2>1, <2>2, <2>4, <1>2
      <3>7. Contents(d)[k - 1] = GetAt(d, k - 1 - 1)
        BY <3>1, ContentsOf
      <3>8. k - 1 - 1 = k - 2
        BY <2>1
      <3>. QED  BY <3>4, <3>5, <3>6, <3>7, <3>8
    <2>. QED  BY <2>3, <2>4
  <1>9. s \in Seq(Elements) /\ Len(s) = Size(new)
    BY <1>7, <1>2, WellFormedFacts
  <1>. HIDE DEF new, s
  <1>10. Contents(new) = s
    BY <1>7, <1>8, <1>9, SameContents
  <1>. QED  BY <1>7, <1>10 DEF new, s


\* indexed_deque_put_after_last puts the element after the others.
LEMMA PutAfterLastLemma ==
    ASSUME NEW d, WellFormed(d), Size(d) < MaxSize, NEW e \in Elements
    PROVE  /\ WellFormed(PutAfterLast(d, e))
           /\ Contents(PutAfterLast(d, e)) = Append(Contents(d), e)
  <1>. DEFINE new == PutAfterLast(d, e)
              trie == InsertNode(d.trie, d.i2, e)
              i2 == Plus(d.i2, 1)
              s == Append(Contents(d), e)
  <1>1. /\ d.i1 \in Indices /\ d.i2 \in Indices
        /\ DOMAIN d.trie = {i \in Indices : Minus(i, d.i1) < Size(d)}
        /\ \A i \in DOMAIN d.trie : d.trie[i] \in Elements
        /\ Size(d) = Minus(d.i2, d.i1)
    BY DEF WellFormed, Size
  <1>2. Size(d) \in Nat /\ Size(d) + 1 < SizeModulus
    BY WellFormedFacts, SizeModulusAssumption DEF MaxSize
  <1>3. i2 \in Indices /\ Minus(i2, d.i1) = Size(d) + 1
    BY <1>1, StepArithmetic, BackArithmetic
  <1>4. DOMAIN trie = {i \in Indices : Minus(i, d.i1) < Minus(i2, d.i1)}
    <2>1. ASSUME NEW k \in Indices
          PROVE  k \in DOMAIN trie <=> Minus(k, d.i1) < Minus(i2, d.i1)
      <3>1. k \in DOMAIN trie <=> Minus(k, d.i1) < Size(d) \/ k = d.i2
        BY <1>1 DEF InsertNode
      <3>2. Minus(k, d.i1) \in Nat
        BY <1>1, IndexArithmetic, IndicesAreNaturals
      <3>3. k = d.i2 <=> Minus(k, d.i1) = Size(d)
        BY <1>1, MinusInjective
      <3>. HIDE DEF i2
      <3>. QED  BY <3>1, <3>2, <3>3, <1>2, <1>3
    <2>2. DOMAIN trie \subseteq Indices
      BY <1>1 DEF InsertNode
    <2>. QED  BY <2>1, <2>2
  <1>5. \A i \in DOMAIN trie : trie[i] \in Elements
    BY <1>1 DEF InsertNode
  <1>6. Represents(trie, d.i1, i2)
    BY <1>1, <1>3, <1>4, <1>5 DEF Represents
  <1>7. /\ WellFormed(new) /\ Size(new) = Size(d) + 1
        /\ \A k \in 0 .. Size(d) : GetAt(new, k) = trie[Plus(d.i1, k)]
    <2>1. new = MakeDeque(trie, d.i1, i2)
      BY DEF PutAfterLast
    <2>. HIDE DEF trie, i2, new
    <2>2. /\ WellFormed(new) /\ Size(new) = Minus(i2, d.i1)
          /\ \A k \in 0 .. Minus(i2, d.i1) - 1 : GetAt(new, k) = trie[Plus(d.i1, k)]
      BY <1>6, <2>1, MakeDequeWellFormed
    <2>3. Minus(i2, d.i1) - 1 = Size(d)
      BY <1>2, <1>3
    <2>. QED  BY <1>3, <2>2, <2>3
  <1>8. ASSUME NEW k \in 1 .. Size(new)
        PROVE  s[k] = GetAt(new, k - 1)
    <2>1. k \in 1 .. Size(d) + 1 /\ k - 1 \in 0 .. Size(d)
      BY <1>2, <1>7
    <2>2. Len(Contents(d)) = Size(d) /\ Contents(d) \in Seq(Elements)
      BY WellFormedFacts
    <2>3. GetAt(new, k - 1) = trie[Plus(d.i1, k - 1)]
      BY <1>7, <2>1
    <2>4. CASE k = Size(d) + 1
      <3>1. Plus(d.i1, k - 1) = d.i2
        BY <1>1, <1>2, <2>4, IndexArithmetic
      <3>2. s[k] = e
        BY <2>2, <2>4
      <3>. QED  BY <2>3, <3>1, <3>2 DEF InsertNode
    <2>5. CASE k # Size(d) + 1
      <3>1. k \in 1 .. Size(d) /\ k - 1 \in 0 .. Size(d) - 1
        BY <1>2, <2>1, <2>5
      <3>2. DequeIndex(d, k - 1) \in DOMAIN d.trie /\ Minus(DequeIndex(d, k - 1), d.i1) = k - 1
        BY <3>1, WellFormedFacts
      <3>3. DequeIndex(d, k - 1) # d.i2
        BY <1>1, <1>2, <3>1, <3>2
      <3>4. trie[Plus(d.i1, k - 1)] = GetAt(d, k - 1)
        BY <3>2, <3>3 DEF InsertNode, GetAt, DequeIndex
      <3>5. s[k] = Contents(d)[k]
        BY <2>2, <3>1
      <3>. QED  BY <2>3, <3>1, <3>4, <3>5, ContentsOf
    <2>. QED  BY <2>4, <2>5
  <1>9. s \in Seq(Elements) /\ Len(s) = Size(new)
    BY <1>7, <1>2, WellFormedFacts
  <1>. HIDE DEF new, s
  <1>10. Contents(new) = s
    BY <1>7, <1>8, <1>9, SameContents
  <1>. QED  BY <1>7, <1>10 DEF new, s

\* indexed_deque_put replaces one element.
LEMMA PutAtLemma ==
    ASSUME NEW d, WellFormed(d), NEW j \in Nat, j < Size(d), NEW e \in Elements
    PROVE  /\ WellFormed(PutAt(d, j, e))
           /\ Contents(PutAt(d, j, e)) = [Contents(d) EXCEPT ![j + 1] = e]
  <1>. DEFINE new == PutAt(d, j, e)
              trie == InsertNode(d.trie, DequeIndex(d, j), e)
              s == [Contents(d) EXCEPT ![j + 1] = e]
  <1>1. Represents(d.trie, d.i1, d.i2) /\ Size(d) = Minus(d.i2, d.i1)
    BY WellFormedFacts DEF Size
  <1>2. Size(d) \in Nat /\ Size(d) < SizeModulus /\ j \in 0 .. Size(d) - 1
    BY WellFormedFacts
  <1>3. DequeIndex(d, j) \in DOMAIN d.trie
    BY <1>2, WellFormedFacts
  <1>4. Represents(trie, d.i1, d.i2)
    BY <1>1, <1>3 DEF Represents, InsertNode
  <1>5. /\ WellFormed(new) /\ Size(new) = Size(d)
        /\ \A k \in 0 .. Size(d) - 1 : GetAt(new, k) = trie[Plus(d.i1, k)]
    <2>1. new = MakeDeque(trie, d.i1, d.i2)
      BY DEF PutAt
    <2>. HIDE DEF trie, new
    <2>. QED  BY <1>1, <1>4, <2>1, MakeDequeWellFormed
  <1>6. ASSUME NEW k \in 1 .. Size(new)
        PROVE  s[k] = GetAt(new, k - 1)
    <2>1. k \in 1 .. Size(d) /\ k - 1 \in 0 .. Size(d) - 1
      BY <1>2, <1>5
    <2>2. Len(Contents(d)) = Size(d) /\ Contents(d) \in Seq(Elements)
      BY WellFormedFacts
    <2>3. GetAt(new, k - 1) = trie[Plus(d.i1, k - 1)]
      BY <1>5, <2>1
    <2>4. CASE k = j + 1
      <3>1. trie[Plus(d.i1, k - 1)] = e
        BY <2>4 DEF InsertNode, DequeIndex
      <3>. QED  BY <2>1, <2>2, <2>3, <2>4, <3>1
    <2>5. CASE k # j + 1
      <3>1. DequeIndex(d, k - 1) \in DOMAIN d.trie /\ Minus(DequeIndex(d, k - 1), d.i1) = k - 1
        BY <2>1, WellFormedFacts
      <3>2. Minus(DequeIndex(d, j), d.i1) = j
        BY <1>2, WellFormedFacts
      <3>3. DequeIndex(d, k - 1) # DequeIndex(d, j)
        BY <2>1, <2>5, <3>1, <3>2
      <3>4. trie[Plus(d.i1, k - 1)] = GetAt(d, k - 1)
        BY <3>1, <3>3 DEF InsertNode, GetAt, DequeIndex
      <3>5. s[k] = Contents(d)[k]
        BY <2>1, <2>2, <2>5
      <3>. QED  BY <2>1, <2>3, <3>4, <3>5, ContentsOf
    <2>. QED  BY <2>4, <2>5
  <1>7. s \in Seq(Elements) /\ Len(s) = Size(new)
    BY <1>5, <1>2, WellFormedFacts
  <1>. HIDE DEF new, s
  <1>8. Contents(new) = s
    BY <1>5, <1>6, <1>7, SameContents
  <1>. QED  BY <1>5, <1>8 DEF new, s


\* Deleting from an empty deque leaves it empty.
LEMMA DeleteEmptyLemma ==
    ASSUME NEW d, WellFormed(d), Size(d) = 0
    PROVE  DeleteFirst(d) = EmptyDeque /\ DeleteLast(d) = EmptyDeque
  <1>1. d = EmptyDeque
    BY DEF WellFormed
  <1>. QED  BY <1>1 DEF DeleteFirst, DeleteLast, DeleteNode, MakeDeque, EmptyDeque, EmptyTrie

\* indexed_deque_delete_first drops the first element and no other.
LEMMA DeleteFirstLemma ==
    ASSUME NEW d, WellFormed(d), Size(d) # 0
    PROVE  /\ WellFormed(DeleteFirst(d))
           /\ Contents(DeleteFirst(d)) = Tail(Contents(d))
  <1>. DEFINE new == DeleteFirst(d)
              trie == DeleteNode(d.trie, d.i1)
              i1 == Plus(d.i1, 1)
              s == Tail(Contents(d))
  <1>1. /\ d.i1 \in Indices /\ d.i2 \in Indices
        /\ DOMAIN d.trie = {i \in Indices : Minus(i, d.i1) < Size(d)}
        /\ \A i \in DOMAIN d.trie : d.trie[i] \in Elements
        /\ Size(d) = Minus(d.i2, d.i1)
        /\ d.i1 # d.i2
    BY WellFormedFacts DEF WellFormed, Size
  <1>2. Size(d) \in Nat /\ Size(d) - 1 \in Nat /\ Size(d) < SizeModulus /\ SizeModulus \in Nat
    BY WellFormedFacts, SizeModulusAssumption
  <1>3. /\ i1 \in Indices
        /\ Minus(d.i2, i1) = Size(d) - 1
        /\ \A k \in Indices : Minus(k, i1) = IF k = d.i1 THEN SizeModulus - 1 ELSE Minus(k, d.i1) - 1
    BY <1>1, StepArithmetic, DropFrontArithmetic
  <1>4. DOMAIN trie = {i \in Indices : Minus(i, i1) < Minus(d.i2, i1)}
    <2>1. ASSUME NEW k \in Indices
          PROVE  k \in DOMAIN trie <=> Minus(k, i1) < Minus(d.i2, i1)
      <3>1. k \in DOMAIN trie <=> Minus(k, d.i1) < Size(d) /\ k # d.i1
        BY <1>1 DEF DeleteNode
      <3>2. Minus(k, d.i1) \in Nat
        BY <1>1, IndexArithmetic, IndicesAreNaturals
      <3>3. CASE k = d.i1
        <4>1. Minus(k, i1) = SizeModulus - 1
          BY <3>3, <1>3
        <4>. HIDE DEF i1
        <4>. QED  BY <3>1, <3>3, <4>1, <1>2, <1>3
      <3>4. CASE k # d.i1
        <4>1. Minus(k, i1) = Minus(k, d.i1) - 1
          BY <3>4, <1>3
        <4>. HIDE DEF i1
        <4>. QED  BY <3>1, <3>2, <3>4, <4>1, <1>2, <1>3
      <3>. QED  BY <3>3, <3>4
    <2>2. DOMAIN trie \subseteq Indices
      BY <1>1 DEF DeleteNode
    <2>. QED  BY <2>1, <2>2
  <1>5. \A i \in DOMAIN trie : trie[i] \in Elements
    BY <1>1 DEF DeleteNode
  <1>6. Represents(trie, i1, d.i2)
    BY <1>1, <1>3, <1>4, <1>5 DEF Represents
  <1>7. /\ WellFormed(new) /\ Size(new) = Size(d) - 1
        /\ \A k \in 0 .. Size(d) - 1 - 1 : GetAt(new, k) = trie[Plus(i1, k)]
    <2>1. new = MakeDeque(trie, i1, d.i2)
      BY DEF DeleteFirst
    <2>. HIDE DEF trie, i1, new
    <2>2. /\ WellFormed(new) /\ Size(new) = Minus(d.i2, i1)
          /\ \A k \in 0 .. Minus(d.i2, i1) - 1 : GetAt(new, k) = trie[Plus(i1, k)]
      BY <1>6, <2>1, MakeDequeWellFormed
    <2>. QED  BY <1>3, <2>2
  <1>8. ASSUME NEW k \in 1 .. Size(new)
        PROVE  s[k] = GetAt(new, k - 1)
    <2>1. k \in 1 .. Size(d) - 1 /\ k - 1 \in 0 .. Size(d) - 1 - 1 /\ k + 1 \in 1 .. Size(d)
      BY <1>2, <1>7
    <2>2. Len(Contents(d)) = Size(d) /\ Contents(d) \in Seq(Elements)
      BY WellFormedFacts
    <2>3. GetAt(new, k - 1) = trie[Plus(i1, k - 1)]
      BY <1>7, <2>1
    <2>4. Plus(i1, k - 1) = DequeIndex(d, k) /\ DequeIndex(d, k) # d.i1
      <3>1. k - 1 \in Nat /\ k - 1 + 1 < SizeModulus /\ k - 1 + 1 = k
        BY <1>2, <2>1
      <3>. QED  BY <1>1, <3>1, ShiftArithmetic DEF DequeIndex
    <2>5. DequeIndex(d, k) \in DOMAIN d.trie
      <3>1. k \in 0 .. Size(d) - 1
        BY <2>1
      <3>. QED  BY <3>1, WellFormedFacts
    <2>6. trie[Plus(i1, k - 1)] = GetAt(d, k)
      BY <2>4, <2>5 DEF DeleteNode, GetAt
    <2>7. s[k] = Contents(d)[k + 1]
      BY <1>2, <2>1, <2>2
    <2>8. Contents(d)[k + 1] = GetAt(d, k)
      <3>1. k + 1 - 1 = k
        BY <2>1
      <3>. QED  BY <2>1, <3>1, ContentsOf
    <2>. QED  BY <2>3, <2>6, <2>7, <2>8
  <1>9. s \in Seq(Elements) /\ Len(s) = Size(new)
    <2>1. Contents(d) \in Seq(Elements) /\ Len(Contents(d)) = Size(d) /\ Contents(d) # <<>>
      BY WellFormedFacts
    <2>. QED  BY <1>7, <2>1
  <1>. HIDE DEF new, s
  <1>10. Contents(new) = s
    BY <1>7, <1>8, <1>9, SameContents
  <1>. QED  BY <1>7, <1>10 DEF new, s

\* indexed_deque_delete_last drops the last element and no other.
LEMMA DeleteLastLemma ==
    ASSUME NEW d, WellFormed(d), Size(d) # 0
    PROVE  /\ WellFormed(DeleteLast(d))
           /\ Contents(DeleteLast(d)) = SubSeq(Contents(d), 1, Size(d) - 1)
  <1>. DEFINE new == DeleteLast(d)
              i2 == Minus(d.i2, 1)
              trie == DeleteNode(d.trie, i2)
              s == SubSeq(Contents(d), 1, Size(d) - 1)
  <1>1. /\ d.i1 \in Indices /\ d.i2 \in Indices
        /\ DOMAIN d.trie = {i \in Indices : Minus(i, d.i1) < Size(d)}
        /\ \A i \in DOMAIN d.trie : d.trie[i] \in Elements
        /\ Size(d) = Minus(d.i2, d.i1)
        /\ d.i1 # d.i2
    BY WellFormedFacts DEF WellFormed, Size
  <1>2. Size(d) \in Nat /\ Size(d) - 1 \in Nat
    BY WellFormedFacts
  <1>3. i2 \in Indices /\ Minus(i2, d.i1) = Size(d) - 1
    BY <1>1, StepArithmetic, DropBackArithmetic
  <1>4. DOMAIN trie = {i \in Indices : Minus(i, d.i1) < Minus(i2, d.i1)}
    <2>1. ASSUME NEW k \in Indices
          PROVE  k \in DOMAIN trie <=> Minus(k, d.i1) < Minus(i2, d.i1)
      <3>1. k \in DOMAIN trie <=> Minus(k, d.i1) < Size(d) /\ k # i2
        BY <1>1 DEF DeleteNode
      <3>2. Minus(k, d.i1) \in Nat
        BY <1>1, IndexArithmetic, IndicesAreNaturals
      <3>3. k = i2 <=> Minus(k, d.i1) = Size(d) - 1
        BY <1>1, <1>3, MinusInjective
      <3>. HIDE DEF i2
      <3>. QED  BY <3>1, <3>2, <3>3, <1>2, <1>3
    <2>2. DOMAIN trie \subseteq Indices
      BY <1>1 DEF DeleteNode
    <2>. QED  BY <2>1, <2>2
  <1>5. \A i \in DOMAIN trie : trie[i] \in Elements
    BY <1>1 DEF DeleteNode
  <1>6. Represents(trie, d.i1, i2)
    BY <1>1, <1>3, <1>4, <1>5 DEF Represents
  <1>7. /\ WellFormed(new) /\ Size(new) = Size(d) - 1
        /\ \A k \in 0 .. Size(d) - 1 - 1 : GetAt(new, k) = trie[Plus(d.i1, k)]
    <2>1. new = MakeDeque(trie, d.i1, i2)
      BY DEF DeleteLast
    <2>. HIDE DEF trie, i2, new
    <2>2. /\ WellFormed(new) /\ Size(new) = Minus(i2, d.i1)
          /\ \A k \in 0 .. Minus(i2, d.i1) - 1 : GetAt(new, k) = trie[Plus(d.i1, k)]
      BY <1>6, <2>1, MakeDequeWellFormed
    <2>. QED  BY <1>3, <2>2
  <1>8. ASSUME NEW k \in 1 .. Size(new)
        PROVE  s[k] = GetAt(new, k - 1)
    <2>1. /\ k \in 1 .. Size(d) - 1 /\ k \in 1 .. Size(d)
          /\ k - 1 \in 0 .. Size(d) - 1 - 1 /\ k - 1 \in 0 .. Size(d) - 1
          /\ k - 1 # Size(d) - 1
      BY <1>2, <1>7
    <2>2. Len(Contents(d)) = Size(d) /\ Contents(d) \in Seq(Elements)
      BY WellFormedFacts
    <2>3. GetAt(new, k - 1) = trie[Plus(d.i1, k - 1)]
      BY <1>7, <2>1
    <2>4. DequeIndex(d, k - 1) \in DOMAIN d.trie /\ Minus(DequeIndex(d, k - 1), d.i1) = k - 1
      BY <2>1, WellFormedFacts
    <2>5. DequeIndex(d, k - 1) # i2
      BY <1>3, <2>1, <2>4
    <2>6. trie[Plus(d.i1, k - 1)] = GetAt(d, k - 1)
      BY <2>4, <2>5 DEF DeleteNode, GetAt, DequeIndex
    <2>7. s[k] = Contents(d)[k]
      BY <1>2, <2>1, <2>2
    <2>. QED  BY <2>1, <2>3, <2>6, <2>7, ContentsOf
  <1>9. s \in Seq(Elements) /\ Len(s) = Size(new)
    <2>1. Contents(d) \in Seq(Elements) /\ Len(Contents(d)) = Size(d)
      BY WellFormedFacts
    <2>2. \A k \in 1 .. Size(d) - 1 : Contents(d)[k] \in Elements
      BY <2>1, <1>2
    <2>. QED  BY <1>2, <1>7, <2>2
  <1>. HIDE DEF new, s
  <1>10. Contents(new) = s
    BY <1>7, <1>8, <1>9, SameContents
  <1>. QED  BY <1>7, <1>10 DEF new, s

\* What indexed_deque_get_first and indexed_deque_get_last return.
LEMMA GetEndsLemma ==
    ASSUME NEW d, WellFormed(d), Size(d) # 0
    PROVE  /\ GetFirst(d) = Contents(d)[1]
           /\ GetLast(d) = Contents(d)[Size(d)]
           /\ GetFirst(d) \in Elements /\ GetLast(d) \in Elements
  <1>1. Size(d) \in Nat /\ d.i1 \in Indices /\ d.i2 \in Indices /\ d.i1 # d.i2
    BY WellFormedFacts DEF WellFormed
  <1>2. 0 \in 0 .. Size(d) - 1 /\ Size(d) - 1 \in 0 .. Size(d) - 1
        /\ 1 \in 1 .. Size(d) /\ Size(d) \in 1 .. Size(d)
    BY <1>1
  <1>3. Plus(d.i1, 0) = d.i1
    BY <1>1, SizeModulusAssumption DEF Indices, Plus
  <1>4. Plus(d.i1, Size(d) - 1) = Minus(d.i2, 1)
    <2>1. Minus(Minus(d.i2, 1), d.i1) = Size(d) - 1
      BY <1>1, DropBackArithmetic DEF Size
    <2>2. Minus(d.i2, 1) \in Indices
      BY <1>1, StepArithmetic
    <2>. QED  BY <1>1, <2>1, <2>2, IndexArithmetic
  <1>5. GetAt(d, 0) = GetFirst(d) /\ GetAt(d, Size(d) - 1) = GetLast(d)
    BY <1>3, <1>4 DEF GetAt, GetFirst, GetLast, DequeIndex
  <1>6. Contents(d)[1] = GetAt(d, 0)
    BY <1>2, ContentsOf
  <1>7. Contents(d)[Size(d)] = GetAt(d, Size(d) - 1)
    BY <1>2, ContentsOf
  <1>8. GetAt(d, 0) \in Elements /\ GetAt(d, Size(d) - 1) \in Elements
    BY <1>2, WellFormedFacts
  <1>. QED  BY <1>5, <1>6, <1>7, <1>8

-------------------------------------------------------------------------------
\* The client of a deque.

LEMMA DequeTypeInvariance == DequeSpec => []DequeTypeOK
  <1>1. DequeInit => DequeTypeOK
    BY EmptyDequeWellFormed DEF DequeInit, DequeTypeOK
  <1>2. DequeTypeOK /\ [DequeNext]_clientVars => DequeTypeOK'
    <2>. SUFFICES ASSUME DequeTypeOK, [DequeNext]_clientVars  PROVE DequeTypeOK'
      OBVIOUS
    <2>. USE DEF DequeTypeOK
    <2>1. ASSUME NEW e \in Elements, CallPutBeforeFirst(e)  PROVE DequeTypeOK'
      BY <2>1, PutBeforeFirstLemma DEF CallPutBeforeFirst
    <2>2. ASSUME NEW e \in Elements, CallPutAfterLast(e)  PROVE DequeTypeOK'
      BY <2>2, PutAfterLastLemma DEF CallPutAfterLast
    <2>3. ASSUME NEW e \in Elements, NEW i \in 0 .. MaxSize, CallPutAt(i, e)
          PROVE  DequeTypeOK'
      <3>1. i \in Nat
        OBVIOUS
      <3>. QED  BY <2>3, <3>1, PutAtLemma DEF CallPutAt
    <2>4. ASSUME NEW i \in 0 .. MaxSize, CallGetAt(i)  PROVE DequeTypeOK'
      <3>1. i \in 0 .. Size(dq) - 1
        BY <2>4, WellFormedFacts DEF CallGetAt
      <3>. QED  BY <2>4, <3>1, WellFormedFacts DEF CallGetAt
    <2>5. ASSUME NEW i, NEW c, IndexError(c, i)  PROVE DequeTypeOK'
      BY <2>5 DEF IndexError
    <2>6. CASE CallGetFirst
      BY <2>6, GetEndsLemma DEF CallGetFirst
    <2>7. CASE CallGetLast
      BY <2>7, GetEndsLemma DEF CallGetLast
    <2>8. CASE CallDeleteFirst
      BY <2>8, DeleteFirstLemma, DeleteEmptyLemma, EmptyDequeWellFormed DEF CallDeleteFirst
    <2>9. CASE CallDeleteLast
      BY <2>9, DeleteLastLemma, DeleteEmptyLemma, EmptyDequeWellFormed DEF CallDeleteLast
    <2>10. CASE UNCHANGED clientVars
      BY <2>10 DEF clientVars
    <2>. QED
      BY <2>1, <2>2, <2>3, <2>4, <2>5, <2>6, <2>7, <2>8, <2>9, <2>10 DEF DequeNext
  <1>. QED  BY <1>1, <1>2, PTL DEF DequeSpec

\* The trie holds an element under each index from _i1 to _i2 - 1 and no
\* other, after any operations of indexed_deque.c.
THEOREM DequeTypeCorrect == DequeSpec => []DequeTypeOK
  BY DequeTypeInvariance

-------------------------------------------------------------------------------

\* The contents of a deque that is well formed, as a sequence.
LEMMA SequenceOfContents ==
    ASSUME NEW d, WellFormed(d)
    PROVE  /\ Contents(d) \in Seq(Elements)
           /\ Len(Contents(d)) = Size(d)
           /\ Size(d) \in Nat
           /\ Contents(d) = <<>> <=> Size(d) = 0
  <1>1. Contents(d) \in Seq(Elements) /\ Len(Contents(d)) = Size(d) /\ Size(d) \in Nat
    BY WellFormedFacts
  <1>. QED  BY <1>1

LEMMA DequeStepRefinement ==
    ASSUME DequeTypeOK, [DequeNext]_clientVars
    PROVE  [Seqs!SeqNext]_Seqs!dequeVars
  <1>. USE DEF DequeTypeOK
  <1>1. ASSUME NEW e \in Elements, CallPutBeforeFirst(e)
        PROVE  Seqs!SeqPutBeforeFirst(e)
    BY <1>1, PutBeforeFirstLemma, SequenceOfContents
       DEF CallPutBeforeFirst, Seqs!SeqPutBeforeFirst
  <1>2. ASSUME NEW e \in Elements, CallPutAfterLast(e)
        PROVE  Seqs!SeqPutAfterLast(e)
    BY <1>2, PutAfterLastLemma, SequenceOfContents
       DEF CallPutAfterLast, Seqs!SeqPutAfterLast
  <1>3. ASSUME NEW e \in Elements, NEW i \in 0 .. MaxSize, CallPutAt(i, e)
        PROVE  Seqs!SeqPutAt(i, e)
    <2>1. i \in Nat
      OBVIOUS
    <2>. QED  BY <1>3, <2>1, PutAtLemma, SequenceOfContents DEF CallPutAt, Seqs!SeqPutAt
  <1>4. ASSUME NEW i \in 0 .. MaxSize, CallGetAt(i)
        PROVE  Seqs!SeqGetAt(i)
    <2>1. i + 1 \in 1 .. Size(dq) /\ i + 1 - 1 = i /\ i < Size(dq)
      BY <1>4, SequenceOfContents DEF CallGetAt
    <2>2. GetAt(dq, i) = Contents(dq)[i + 1]
      BY <2>1, ContentsOf
    <2>. QED  BY <1>4, <2>1, <2>2, SequenceOfContents DEF CallGetAt, Seqs!SeqGetAt
  <1>5. ASSUME NEW e \in Elements, NEW i \in 0 .. MaxSize,
               IndexError(<<"put_at", i, e>>, i)
        PROVE  Seqs!SeqPutAt(i, e)
    <2>1. ~ (i < Size(dq))
      BY <1>5, SequenceOfContents DEF IndexError
    <2>. QED  BY <1>5, <2>1, SequenceOfContents DEF IndexError, Seqs!SeqPutAt
  <1>5a. ASSUME NEW i \in 0 .. MaxSize, IndexError(<<"get_at", i>>, i)
        PROVE  Seqs!SeqGetAt(i)
    <2>1. ~ (i < Size(dq))
      BY <1>5a, SequenceOfContents DEF IndexError
    <2>. QED  BY <1>5a, <2>1, SequenceOfContents DEF IndexError, Seqs!SeqGetAt
  <1>6. ASSUME CallGetFirst  PROVE Seqs!SeqGetFirst
    BY <1>6, GetEndsLemma, SequenceOfContents DEF CallGetFirst, Seqs!SeqGetFirst
  <1>7. ASSUME CallGetLast  PROVE Seqs!SeqGetLast
    BY <1>7, GetEndsLemma, SequenceOfContents DEF CallGetLast, Seqs!SeqGetLast
  <1>8. ASSUME CallDeleteFirst  PROVE Seqs!SeqDeleteFirst
    BY <1>8, DeleteFirstLemma, DeleteEmptyLemma, EmptyDequeWellFormed, SequenceOfContents
       DEF CallDeleteFirst, Seqs!SeqDeleteFirst
  <1>9. ASSUME CallDeleteLast  PROVE Seqs!SeqDeleteLast
    BY <1>9, DeleteLastLemma, DeleteEmptyLemma, EmptyDequeWellFormed, SequenceOfContents
       DEF CallDeleteLast, Seqs!SeqDeleteLast
  <1>10. CASE UNCHANGED clientVars
    BY <1>10 DEF clientVars, Seqs!dequeVars
  <1>11. CASE DequeNext
    BY <1>1, <1>2, <1>3, <1>4, <1>5, <1>5a, <1>6, <1>7, <1>8, <1>9, <1>11
       DEF DequeNext, Seqs!SeqNext
  <1>. QED  BY <1>10, <1>11

\* Each operation of indexed_deque.c does to the elements what the operation
\* of its name does to a sequence.
THEOREM DequeRefinesSequence == DequeSpec => ImplementsDeque
  <1>1. DequeInit => Seqs!SeqInit
    BY EmptyDequeWellFormed DEF DequeInit, Seqs!SeqInit
  <1>2. DequeTypeOK /\ [DequeNext]_clientVars => [Seqs!SeqNext]_Seqs!dequeVars
    BY DequeStepRefinement
  <1>. QED
    BY <1>1, <1>2, DequeTypeInvariance, PTL DEF DequeSpec, ImplementsDeque, Seqs!SeqSpec

-------------------------------------------------------------------------------
\* The buffered getter.

\* The part of a sequence from m to n, which has k elements.
LEMMA PartFacts ==
    ASSUME NEW S, NEW s \in Seq(S), NEW m \in Nat \ {0}, NEW n \in Nat, NEW k \in Nat,
           n <= Len(s), m + k = n + 1
    PROVE  /\ SubSeq(s, m, n) \in Seq(S)
           /\ Len(SubSeq(s, m, n)) = k
           /\ \A i \in 1 .. k : SubSeq(s, m, n)[i] = s[m + i - 1]
  <1>1. \A i \in m .. n : i \in 1 .. Len(s)
    OBVIOUS
  <1>2. \A i \in m .. n : s[i] \in S
    BY <1>1, ElementOfSeq
  <1>3. /\ SubSeq(s, m, n) \in Seq(S)
        /\ Len(SubSeq(s, m, n)) = IF m <= n THEN n - m + 1 ELSE 0
        /\ \A i \in 1 .. n - m + 1 : SubSeq(s, m, n)[i] = s[m + i - 1]
    BY <1>2, SubSeqProperties
  <1>4. n - m + 1 = k /\ (IF m <= n THEN n - m + 1 ELSE 0) = k
    OBVIOUS
  <1>. QED  BY <1>3, <1>4

\* A sequence without its last element.
LEMMA FrontIs ==
    ASSUME NEW S, NEW s \in Seq(S), s # <<>>
    PROVE  /\ Len(s) \in Nat \ {0}
           /\ s[Len(s)] \in S
           /\ SubSeq(s, 1, Len(s) - 1) \in Seq(S)
           /\ Len(SubSeq(s, 1, Len(s) - 1)) = Len(s) - 1
           /\ s = SubSeq(s, 1, Len(s) - 1) \o <<s[Len(s)]>>
  <1>1. Len(s) \in Nat \ {0}
    OBVIOUS
  <1>2. s[Len(s)] \in S
    BY <1>1, ElementOfSeq
  <1>3. Len(s) - 1 \in Nat /\ Len(s) - 1 <= Len(s) /\ 1 + (Len(s) - 1) = Len(s) - 1 + 1
    BY <1>1
  <1>4. SubSeq(s, 1, Len(s) - 1) \in Seq(S) /\ Len(SubSeq(s, 1, Len(s) - 1)) = Len(s) - 1
    BY <1>3, PartFacts
  <1>5. SubSeq(s, 1, Len(s)) = SubSeq(s, 1, Len(s) - 1) \o <<s[Len(s)]>>
    BY <1>1, SubSeqRecursiveSecond
  <1>. QED  BY <1>1, <1>2, <1>4, <1>5, SubSeqFull

\* What the underlying getter answers.
LEMMA NextInputFacts ==
    ASSUME pos \in 0 .. Len(Input)
    PROVE  /\ NextPos \in 0 .. Len(Input)
           /\ NextInput \in Elements \cup {Bad}
    BY GetterAssumption DEF NextPos, NextInput

\* What is known of the contents of a deque.
LEMMA ContentsFacts ==
    ASSUME NEW d, WellFormed(d)
    PROVE  /\ Contents(d) \in Seq(Elements)
           /\ Len(Contents(d)) = Size(d)
           /\ Size(d) \in Nat
  BY WellFormedFacts

\* The size after each operation.
LEMMA PutSizes ==
    ASSUME NEW d, WellFormed(d), Size(d) < MaxSize, NEW e \in Elements
    PROVE  /\ WellFormed(PutBeforeFirst(d, e)) /\ Size(PutBeforeFirst(d, e)) = Size(d) + 1
           /\ WellFormed(PutAfterLast(d, e)) /\ Size(PutAfterLast(d, e)) = Size(d) + 1
  <1>1. Len(<<e>> \o Contents(d)) = Size(d) + 1 /\ Len(Append(Contents(d), e)) = Size(d) + 1
    BY ContentsFacts
  <1>2. WellFormed(PutBeforeFirst(d, e)) /\ Len(Contents(PutBeforeFirst(d, e))) = Size(d) + 1
    BY <1>1, PutBeforeFirstLemma
  <1>3. WellFormed(PutAfterLast(d, e)) /\ Len(Contents(PutAfterLast(d, e))) = Size(d) + 1
    BY <1>1, PutAfterLastLemma
  <1>. QED  BY <1>2, <1>3, ContentsFacts

LEMMA DeleteSizes ==
    ASSUME NEW d, WellFormed(d), Size(d) # 0
    PROVE  WellFormed(DeleteFirst(d)) /\ Size(DeleteFirst(d)) = Size(d) - 1
  <1>1. Len(Tail(Contents(d))) = Size(d) - 1
    BY ContentsFacts
  <1>2. WellFormed(DeleteFirst(d)) /\ Len(Contents(DeleteFirst(d))) = Size(d) - 1
    BY <1>1, DeleteFirstLemma
  <1>. QED  BY <1>2, ContentsFacts

LEMMA GetterTypeInvariance == Spec => []GetterTypeOK
  <1>. USE DEF GetterTypeOK
  <1>1. Init => GetterTypeOK
    <2>. SUFFICES ASSUME Init  PROVE GetterTypeOK
      OBVIOUS
    <2>1. WellFormed(EmptyDeque) /\ Size(EmptyDeque) = 0 /\ 0 <= MaxSize
      BY EmptyDequeWellFormed, SizeModulusAssumption DEF MaxSize
    <2>2. 0 \in 0 .. Len(Input)
      BY GetterAssumption
    <2>3. Len(<<>>) = 0 /\ <<>> \in Seq(Elements) /\ 0 + 0 <= MaxSize
      BY <2>1
    <2>4. /\ pos \in 0 .. Len(Input) /\ WellFormed(buffer)
          /\ tok \in Elements \cup {NullToken} /\ error \in BOOLEAN
      BY <2>1, <2>2 DEF Init
    <2>5. getting \in Nat /\ getting <= Size(buffer)
      BY <2>1 DEF Init
    <2>6. pushing \in Seq(Elements) /\ Len(pushing) + Size(buffer) <= MaxSize
      BY <2>1, <2>3 DEF Init
    <2>. QED  BY <2>4, <2>5, <2>6 DEF Init
  <1>2. GetterTypeOK /\ [Next]_getterVars => GetterTypeOK'
    <2>. SUFFICES ASSUME GetterTypeOK, [Next]_getterVars  PROVE GetterTypeOK'
      OBVIOUS
    <2>0. /\ Size(buffer) \in Nat /\ MaxSize \in Nat
          /\ NextPos \in 0 .. Len(Input) /\ NextInput \in Elements \cup {Bad}
          /\ pushing = <<>> => Len(pushing) = 0
      BY ContentsFacts, NextInputFacts, SizeModulusAssumption DEF MaxSize
    <2>1. CASE GetFromBuffer
      <3>1. WellFormed(buffer') /\ Size(buffer') = Size(buffer) - 1 /\ tok' \in Elements
        BY <2>1, DeleteSizes, GetEndsLemma DEF GetFromBuffer
      <3>2. Size(buffer') \in Nat /\ 0 + Size(buffer') <= MaxSize
        BY <2>0, <2>1, <3>1 DEF GetFromBuffer, Returned
      <3>3. pushing' \in Seq(Elements) /\ Len(pushing') + Size(buffer') <= MaxSize
        BY <2>0, <2>1, <3>2 DEF GetFromBuffer, Returned
      <3>4. getting' \in Nat /\ getting' <= Size(buffer')
        BY <2>1, <3>2 DEF GetFromBuffer, Returned
      <3>. QED  BY <2>0, <2>1, <3>1, <3>3, <3>4 DEF GetFromBuffer, Returned
    <2>2. CASE GetFromSource
      BY <2>0, <2>2 DEF GetFromSource, Returned
    <2>3. ASSUME NEW i \in 0 .. MaxLookAhead, NEW taking \in BOOLEAN, LookAtToken(i, taking)
          PROVE  GetterTypeOK'
      BY <2>3 DEF LookAtToken, Returned
    <2>4. ASSUME NEW t \in Elements, PushBackToken(t)
          PROVE  GetterTypeOK'
      <3>1. WellFormed(buffer') /\ Size(buffer') = Size(buffer) + 1
        BY <2>4, PutSizes DEF PushBackToken
      <3>2. Size(buffer') \in Nat /\ 0 + Size(buffer') <= MaxSize
        BY <2>0, <2>4, <3>1, SizeModulusAssumption DEF PushBackToken, Returned
      <3>3. pushing' \in Seq(Elements) /\ Len(pushing') + Size(buffer') <= MaxSize
        BY <2>0, <2>4, <3>2 DEF PushBackToken, Returned
      <3>4. getting' \in Nat /\ getting' <= Size(buffer')
        BY <2>4, <3>2 DEF PushBackToken, Returned
      <3>. QED  BY <2>0, <2>4, <3>1, <3>3, <3>4 DEF PushBackToken, Returned
    <2>5. ASSUME NEW s \in Strings, PushBackString(s)
          PROVE  GetterTypeOK'
      BY <2>0, <2>5, GetterAssumption DEF PushBackString, Returned
    <2>6. CASE ReadAhead
      <3>1. Size(buffer) < MaxSize
        BY <2>0, <2>6, SizeModulusAssumption DEF ReadAhead, MaxLookAhead
      <3>2. WellFormed(buffer') /\ Size(buffer') = Size(buffer) + 1
        BY <2>0, <2>6, <3>1, PutSizes DEF ReadAhead
      <3>3. Size(buffer) + 1 <= MaxSize
        BY <2>0, <3>1
      <3>. QED  BY <2>0, <2>6, <3>2, <3>3 DEF ReadAhead
    <2>7. CASE ReadAheadFails
      BY <2>0, <2>7 DEF ReadAheadFails
    <2>8. ASSUME NEW accepted \in BOOLEAN, Look(accepted)
          PROVE  GetterTypeOK'
      <3>1. call.ahead \in 0 .. Size(buffer) - 1
        BY <2>0, <2>8 DEF Look
      <3>2. GetAt(buffer, call.ahead) \in Elements
        BY <3>1, WellFormedFacts
      <3>. QED  BY <2>0, <2>8, <3>1, <3>2 DEF Look
    <2>9. CASE GetLookedAt
      <3>1. WellFormed(buffer') /\ Size(buffer') = Size(buffer) - 1
        BY <2>0, <2>9, DeleteSizes DEF GetLookedAt
      <3>2. /\ Size(buffer') \in Nat /\ getting - 1 \in Nat /\ getting - 1 <= Size(buffer')
            /\ 0 + Size(buffer') <= MaxSize /\ pushing = <<>>
        BY <2>0, <2>9, <3>1 DEF GetLookedAt
      <3>3. pushing' \in Seq(Elements) /\ Len(pushing') + Size(buffer') <= MaxSize
        BY <2>0, <2>9, <3>2 DEF GetLookedAt
      <3>. QED  BY <2>9, <3>1, <3>2, <3>3 DEF GetLookedAt
    <2>10. CASE PushBackCodePoint
      <3>1. /\ Len(pushing) \in Nat \ {0}
            /\ pushing[Len(pushing)] \in Elements
        BY <2>10, FrontIs DEF PushBackCodePoint
      <3>2. /\ SubSeq(pushing, 1, Len(pushing) - 1) \in Seq(Elements)
            /\ Len(SubSeq(pushing, 1, Len(pushing) - 1)) = Len(pushing) - 1
        BY <2>10, FrontIs DEF PushBackCodePoint
      <3>3. Size(buffer) < MaxSize
        BY <2>0, <3>1
      <3>4. WellFormed(buffer') /\ Size(buffer') = Size(buffer) + 1
        BY <2>10, <3>1, <3>3, PutSizes DEF PushBackCodePoint
      <3>. QED  BY <2>0, <2>10, <3>1, <3>2, <3>4 DEF PushBackCodePoint
    <2>11. CASE UNCHANGED getterVars
      BY <2>11 DEF getterVars
    <2>12. CASE InCall
      BY <2>6, <2>7, <2>8, <2>9, <2>10, <2>12 DEF InCall
    <2>. HIDE DEF GetterTypeOK
    <2>13. CASE Next
      BY <2>1, <2>2, <2>3, <2>4, <2>5, <2>12, <2>13 DEF Next
    <2>. QED  BY <2>11, <2>13
  <1>. QED  BY <1>1, <1>2, PTL DEF Spec

\* The buffer keeps its representation and the loops their bounds: none takes
\* more tokens than it looked past, none runs over the end of the buffer.
THEOREM GetterTypeCorrect == Spec => []GetterTypeOK
  BY GetterTypeInvariance

-------------------------------------------------------------------------------

\* Sequences put together and taken apart.  The elements are tokens and bad
\* records.
Items == Elements \cup {Bad}

LEMMA TailOfConcat ==
    ASSUME NEW S, NEW c \in Seq(S), NEW u \in Seq(S), c # <<>>
    PROVE  /\ Tail(c) \in Seq(S)
           /\ Tail(c) \o u = Tail(c \o u)
           /\ (c \o u)[1] = c[1]
           /\ c \o u # <<>>
           /\ Len(c \o u) = Len(c) + Len(u)
  <1>1. Len(c) \in Nat \ {0} /\ Len(u) \in Nat
    OBVIOUS
  <1>2. c \o u \in Seq(S) /\ Len(c \o u) = Len(c) + Len(u) /\ c \o u # <<>>
    BY <1>1
  <1>3. Tail(c) \in Seq(S) /\ Len(Tail(c)) = Len(c) - 1
    BY HeadTailProperties
  <1>4. Tail(c) \o u \in Seq(S) /\ Len(Tail(c) \o u) = Len(c) - 1 + Len(u)
    BY <1>3, ConcatProperties
  <1>5. Tail(c \o u) \in Seq(S) /\ Len(Tail(c \o u)) = Len(c) + Len(u) - 1
    BY <1>2, HeadTailProperties
  <1>6. ASSUME NEW i \in 1 .. Len(Tail(c) \o u)
        PROVE  (Tail(c) \o u)[i] = Tail(c \o u)[i]
    <2>1. i + 1 \in 1 .. Len(c) + Len(u) /\ i \in 1 .. Len(c) + Len(u) - 1
      BY <1>1, <1>4
    <2>2. Tail(c \o u)[i] = (c \o u)[i + 1]
      BY <1>2, <1>5, <2>1, HeadTailProperties
    <2>3. (c \o u)[i + 1] = IF i + 1 <= Len(c) THEN c[i + 1] ELSE u[i + 1 - Len(c)]
      BY <2>1, ConcatProperties
    <2>4. (Tail(c) \o u)[i] = IF i <= Len(c) - 1 THEN Tail(c)[i] ELSE u[i - (Len(c) - 1)]
      BY <1>3, <1>4, ConcatProperties
    <2>5. i <= Len(c) - 1 => Tail(c)[i] = c[i + 1]
      BY <1>1, <1>3, <2>1, HeadTailProperties
    <2>6. (i <= Len(c) - 1 <=> i + 1 <= Len(c)) /\ i + 1 - Len(c) = i - (Len(c) - 1)
      BY <1>1, <2>1
    <2>. QED  BY <2>2, <2>3, <2>4, <2>5, <2>6
  <1>7. Tail(c) \o u = Tail(c \o u)
    <2>1. Len(Tail(c) \o u) = Len(Tail(c \o u))
      BY <1>1, <1>4, <1>5
    <2>. QED  BY <1>4, <1>5, <1>6, <2>1, SeqEqual
  <1>8. (c \o u)[1] = c[1]
    BY <1>1, ConcatProperties
  <1>. QED  BY <1>2, <1>3, <1>7, <1>8

\* What is left of a sequence after n elements and after n + 1.
LEMMA SuffixFacts ==
    ASSUME NEW S, NEW s \in Seq(S), NEW n \in Nat, n < Len(s)
    PROVE  /\ SubSeq(s, n + 1, Len(s)) = <<s[n + 1]>> \o SubSeq(s, n + 2, Len(s))
           /\ SubSeq(s, n + 1, Len(s)) \in Seq(S)
           /\ SubSeq(s, n + 2, Len(s)) \in Seq(S)
           /\ s[n + 1] \in S
  <1>1. n + 1 \in 1 .. Len(s) /\ Len(s) \in n + 1 .. Len(s) /\ n + 1 + 1 = n + 2 /\ Len(s) \in Nat
    OBVIOUS
  <1>2. SubSeq(s, n + 1, Len(s)) = <<s[n + 1]>> \o SubSeq(s, n + 1 + 1, Len(s))
    BY <1>1, SubSeqRecursiveFirst
  <1>3. \A i \in 1 .. Len(s) : s[i] \in S
    BY ElementOfSeq
  <1>4. (\A i \in n + 1 .. Len(s) : s[i] \in S) /\ (\A i \in n + 2 .. Len(s) : s[i] \in S)
    BY <1>1, <1>3
  <1>5. SubSeq(s, n + 1, Len(s)) \in Seq(S) /\ SubSeq(s, n + 2, Len(s)) \in Seq(S)
    BY <1>1, <1>4, SubSeqProperties
  <1>. QED  BY <1>1, <1>2, <1>3, <1>5

\* Taking an element off the front shifts the suffixes.
LEMMA SuffixOfTail ==
    ASSUME NEW S, NEW s \in Seq(S), s # <<>>, NEW n \in Nat, n <= Len(s), n # 0
    PROVE  /\ SubSeq(s, n + 1, Len(s)) = SubSeq(Tail(s), n, Len(Tail(s)))
           /\ SubSeq(s, 2, Len(s)) = Tail(s)
  <1>1. PICK t \in Seq(S) : t = Tail(s)
    BY HeadTailProperties
  <1>2. PICK k \in Nat : n + k = Len(s)
    <2>1. Len(s) - n \in Nat /\ n + (Len(s) - n) = Len(s)
      OBVIOUS
    <2>. QED  BY <2>1
  <1>3. Len(s) \in Nat /\ Len(t) \in Nat /\ Len(t) + 1 = Len(s)
    BY <1>1, HeadTailProperties
  <1>4. /\ SubSeq(s, n + 1, Len(s)) \in Seq(S)
        /\ Len(SubSeq(s, n + 1, Len(s))) = k
        /\ \A i \in 1 .. k : SubSeq(s, n + 1, Len(s))[i] = s[n + 1 + i - 1]
    <2>1. n + 1 \in Nat \ {0} /\ n + 1 + k = Len(s) + 1
      BY <1>2, <1>3
    <2>. QED  BY <1>3, <2>1, PartFacts
  <1>5. /\ SubSeq(t, n, Len(t)) \in Seq(S)
        /\ Len(SubSeq(t, n, Len(t))) = k
        /\ \A i \in 1 .. k : SubSeq(t, n, Len(t))[i] = t[n + i - 1]
    <2>1. n \in Nat \ {0} /\ n + k = Len(t) + 1
      BY <1>2, <1>3
    <2>. QED  BY <1>3, <2>1, PartFacts
  <1>6. ASSUME NEW i \in 1 .. k
        PROVE  t[n + i - 1] = s[n + 1 + i - 1]
    <2>1. n + i - 1 \in 1 .. Len(t) /\ n + i - 1 + 1 = n + 1 + i - 1
      BY <1>2, <1>3
    <2>. QED  BY <1>1, <2>1, HeadTailProperties
  <1>7. SubSeq(s, n + 1, Len(s)) = SubSeq(t, n, Len(t))
    BY <1>4, <1>5, <1>6, SeqEqual
  <1>. QED  BY <1>1, <1>7, TailIsSubSeq

\* An element removed from inside of a sequence.
LEMMA RemoveFacts ==
    ASSUME NEW S, NEW c \in Seq(S), NEW x \in S, NEW v \in Seq(S), NEW s,
           s = c \o (<<x>> \o v)
    PROVE  /\ Len(c) < Len(s)
           /\ s[Len(c) + 1] = x
           /\ \A i \in 1 .. Len(c) : s[i] = c[i]
           /\ SubSeq(s, 1, Len(c)) = c
           /\ SubSeq(s, Len(c) + 2, Len(s)) = v
  <1>1. /\ <<x>> \o v \in Seq(S) /\ Len(<<x>> \o v) = 1 + Len(v)
        /\ \A i \in 1 .. 1 + Len(v) : (<<x>> \o v)[i] = IF i = 1 THEN x ELSE v[i - 1]
    OBVIOUS
  <1>2. /\ s \in Seq(S) /\ Len(s) = Len(c) + (1 + Len(v))
        /\ \A i \in 1 .. Len(c) + (1 + Len(v)) :
             s[i] = IF i <= Len(c) THEN c[i] ELSE (<<x>> \o v)[i - Len(c)]
    BY <1>1, ConcatProperties
  <1>3. Len(c) \in Nat /\ Len(v) \in Nat /\ Len(s) \in Nat
    BY <1>2
  <1>4. s[Len(c) + 1] = x
    BY <1>1, <1>2, <1>3
  <1>5. \A i \in 1 .. Len(c) : s[i] = c[i]
    BY <1>2, <1>3
  <1>7. SubSeq(s, 1, Len(c)) = c
    <2>1. 1 + Len(c) = Len(c) + 1 /\ Len(c) <= Len(s) /\ \A i \in 1 .. Len(c) : 1 + i - 1 = i
      BY <1>2, <1>3
    <2>2. /\ SubSeq(s, 1, Len(c)) \in Seq(S)
          /\ Len(SubSeq(s, 1, Len(c))) = Len(c)
          /\ \A i \in 1 .. Len(c) : SubSeq(s, 1, Len(c))[i] = s[1 + i - 1]
      BY <1>2, <1>3, <2>1, PartFacts
    <2>3. \A i \in 1 .. Len(c) : SubSeq(s, 1, Len(c))[i] = c[i]
      BY <1>5, <2>1, <2>2
    <2>. QED  BY <2>2, <2>3, SeqEqual
  <1>8. SubSeq(s, Len(c) + 2, Len(s)) = v
    <2>1. Len(c) + 2 \in Nat \ {0} /\ Len(c) + 2 + Len(v) = Len(s) + 1
      BY <1>2, <1>3
    <2>2. /\ SubSeq(s, Len(c) + 2, Len(s)) \in Seq(S)
          /\ Len(SubSeq(s, Len(c) + 2, Len(s))) = Len(v)
          /\ \A i \in 1 .. Len(v) : SubSeq(s, Len(c) + 2, Len(s))[i] = s[Len(c) + 2 + i - 1]
      <3>1. s \in Seq(S) /\ Len(s) \in Nat /\ Len(v) \in Nat /\ Len(s) <= Len(s)
        BY <1>2, <1>3
      <3>2. PICK m \in Nat \ {0} : m = Len(c) + 2
        BY <2>1
      <3>3. m + Len(v) = Len(s) + 1
        BY <2>1, <3>2
      <3>4. /\ SubSeq(s, m, Len(s)) \in Seq(S)
            /\ Len(SubSeq(s, m, Len(s))) = Len(v)
            /\ \A i \in 1 .. Len(v) : SubSeq(s, m, Len(s))[i] = s[m + i - 1]
        BY <3>1, <3>3, PartFacts
      <3>. QED  BY <3>2, <3>4
    <2>4. ASSUME NEW i \in 1 .. Len(v)
          PROVE  SubSeq(s, Len(c) + 2, Len(s))[i] = v[i]
      <3>1. SubSeq(s, Len(c) + 2, Len(s))[i] = s[Len(c) + 2 + i - 1]
        BY <2>2
      <3>2. /\ Len(c) + 2 + i - 1 \in 1 .. Len(c) + (1 + Len(v))
            /\ ~ (Len(c) + 2 + i - 1 <= Len(c))
            /\ Len(c) + 2 + i - 1 - Len(c) = i + 1
        BY <1>3
      <3>3. s[Len(c) + 2 + i - 1] = (<<x>> \o v)[Len(c) + 2 + i - 1 - Len(c)]
        BY <1>2, <3>2
      <3>4. (<<x>> \o v)[i + 1] = v[i]
        BY <1>1, <1>3
      <3>. QED  BY <3>1, <3>2, <3>3, <3>4
    <2>. QED  BY <2>2, <2>4, SeqEqual
  <1>. QED  BY <1>2, <1>3, <1>4, <1>5, <1>7, <1>8

-------------------------------------------------------------------------------

\* The types of what the stream is put together from.
LEMMA StreamTypes ==
    ASSUME GetterTypeOK
    PROVE  /\ Contents(buffer) \in Seq(Elements) /\ Contents(buffer) \in Seq(Items)
           /\ Len(Contents(buffer)) = Size(buffer) /\ Size(buffer) \in Nat
           /\ Unread \in Seq(Items)
           /\ Ahead \in Seq(Items)
           /\ pushing \in Seq(Items)
           /\ Input \in Seq(Items)
  <1>1. /\ Contents(buffer) \in Seq(Elements) /\ Contents(buffer) \in Seq(Items)
        /\ Len(Contents(buffer)) = Size(buffer) /\ Size(buffer) \in Nat
        /\ pushing \in Seq(Items)
    BY ContentsFacts, SeqMonotonic DEF GetterTypeOK, Items
  <1>2. Input \in Seq(Items)
    BY GetterAssumption DEF Items
  <1>3. Unread \in Seq(Items)
    <2>1. PICK k \in Nat : pos + k = Len(Input)
      <3>1. Len(Input) - pos \in Nat /\ pos + (Len(Input) - pos) = Len(Input)
        BY <1>2 DEF GetterTypeOK
      <3>. QED  BY <3>1
    <2>2. pos + 1 \in Nat \ {0} /\ pos + 1 + k = Len(Input) + 1 /\ Len(Input) \in Nat
      BY <1>2, <2>1 DEF GetterTypeOK
    <2>. QED  BY <1>2, <2>2, PartFacts DEF Unread
  <1>. QED  BY <1>1, <1>2, <1>3 DEF Ahead

\* What the stream is after the contents of the buffer.
LEMMA UnreadFacts ==
    ASSUME GetterTypeOK
    PROVE  /\ pos < Len(Input) => /\ Unread = <<NextInput>> \o SubSeq(Input, NextPos + 1, Len(Input))
                                  /\ SubSeq(Input, NextPos + 1, Len(Input)) \in Seq(Items)
                                  /\ NextInput \in Items
           /\ ~ (pos < Len(Input)) => Unread = <<>> /\ NextInput = Eof /\ NextPos = pos
  <1>1. Input \in Seq(Items) /\ pos \in Nat /\ Len(Input) \in Nat
    BY StreamTypes DEF GetterTypeOK
  <1>2. CASE pos < Len(Input)
    <2>1. NextInput = Input[pos + 1] /\ NextPos + 1 = pos + 2
      BY <1>1, <1>2 DEF NextInput, NextPos
    <2>. QED  BY <1>1, <1>2, <2>1, SuffixFacts DEF Unread
  <1>3. CASE ~ (pos < Len(Input))
    <2>1. Len(Input) < pos + 1 /\ pos + 1 \in Int /\ Len(Input) \in Int
      BY <1>1, <1>3
    <2>. QED  BY <1>3, <2>1, SubSeqEmpty DEF Unread, NextInput, NextPos
  <1>. QED  BY <1>2, <1>3

\* Between calls, and during a look, the stream is what lies ahead.
LEMMA RestIsAhead ==
    ASSUME GetterTypeOK, getting = 0, pushing = <<>>
    PROVE  Rest = Ahead
  BY StreamTypes DEF Rest

LEMMA GetFromBufferStep ==
    ASSUME GetterTypeOK, GetFromBuffer
    PROVE  Stream!TakeToken
  <1>. DEFINE c == Contents(buffer)
  <1>1. /\ call = Idle /\ getting = 0 /\ pushing = <<>> /\ Size(buffer) # 0 /\ WellFormed(buffer)
        /\ UNCHANGED <<pos, call, getting, pushing>> /\ error' = FALSE
        /\ tok' = GetFirst(buffer) /\ buffer' = DeleteFirst(buffer)
    BY DEF GetFromBuffer, Returned, GetterTypeOK
  <1>2. c \in Seq(Items) /\ c # <<>> /\ Unread \in Seq(Items)
    BY <1>1, StreamTypes
  <1>3. GetFirst(buffer) = c[1] /\ GetFirst(buffer) \in Elements
    BY <1>1, GetEndsLemma
  <1>4. Contents(buffer') = Tail(c)
    BY <1>1, DeleteFirstLemma
  <1>5. Unread' = Unread
    BY <1>1 DEF Unread
  <1>6. Rest = Ahead
    BY <1>1, RestIsAhead
  <1>7. Rest' = Tail(Rest)
    <2>1. Ahead' = Tail(Ahead)
      BY <1>2, <1>4, <1>5, TailOfConcat DEF Ahead
    <2>2. Ahead \in Seq(Items) /\ Ahead # <<>>
      BY <1>2, TailOfConcat DEF Ahead
    <2>3. Tail(Ahead) \in Seq(Items)
      BY <2>2, HeadTailProperties
    <2>4. Rest' = Ahead'
      BY <1>1, <2>1, <2>3, ConcatEmptySeq DEF Rest
    <2>. QED  BY <1>6, <2>1, <2>4
  <1>8. Rest # <<>> /\ 0 < Len(Rest) /\ Rest[0 + 1] = GetFirst(buffer)
    <2>1. Ahead # <<>> /\ Ahead \in Seq(Items) /\ Ahead[1] = c[1]
      BY <1>2, TailOfConcat DEF Ahead
    <2>. QED  BY <1>3, <1>6, <2>1
  <1>9. Stream!TokenAt(0) = GetFirst(buffer) /\ Stream!TokenAt(0) # Bad
    BY <1>3, <1>8, GetterAssumption DEF Stream!TokenAt
  <1>. QED  BY <1>1, <1>7, <1>8, <1>9 DEF Stream!TakeToken

LEMMA GetFromSourceStep ==
    ASSUME GetterTypeOK, GetFromSource
    PROVE  Stream!TakeToken \/ Stream!TakeFails
  <1>1. /\ call = Idle /\ getting = 0 /\ pushing = <<>> /\ Size(buffer) = 0 /\ WellFormed(buffer)
        /\ UNCHANGED <<buffer, call, getting, pushing>>
        /\ pos' = NextPos /\ error' = (NextInput = Bad)
        /\ tok' = IF NextInput = Bad THEN tok ELSE NextInput
    BY DEF GetFromSource, Returned, GetterTypeOK
  <1>2. Contents(buffer) = <<>>
    BY <1>1, EmptyDequeWellFormed DEF WellFormed
  <1>3. Rest = Unread
    BY <1>1, <1>2, RestIsAhead, StreamTypes, ConcatEmptySeq DEF Ahead
  <1>4. CASE pos < Len(Input)
    <2>1. PICK v \in Seq(Items) : v = SubSeq(Input, NextPos + 1, Len(Input))
      BY <1>4, UnreadFacts
    <2>2. Unread = <<NextInput>> \o v /\ NextInput \in Items
      BY <1>4, <2>1, UnreadFacts
    <2>3. Unread' = v
      BY <1>1, <2>1 DEF Unread
    <2>4. Rest' = v
      <3>1. Ahead' = v
        BY <1>1, <1>2, <2>3, ConcatEmptySeq DEF Ahead
      <3>. QED  BY <1>1, <3>1, ConcatEmptySeq DEF Rest
    <2>5. Rest # <<>> /\ 0 < Len(Rest) /\ Rest[0 + 1] = NextInput /\ Tail(Rest) = v
      BY <1>3, <2>2
    <2>6. Stream!TokenAt(0) = NextInput
      BY <2>5 DEF Stream!TokenAt
    <2>. QED  BY <1>1, <2>4, <2>5, <2>6 DEF Stream!TakeToken, Stream!TakeFails
  <1>5. CASE ~ (pos < Len(Input))
    <2>1. Unread = <<>> /\ NextInput = Eof /\ pos' = pos
      BY <1>1, <1>5, UnreadFacts
    <2>2. NextInput # Bad
      BY <2>1, GetterAssumption
    <2>3. Unread' = Unread
      BY <2>1 DEF Unread
    <2>4. Rest' = Rest
      BY <1>1, <2>3 DEF Rest, Ahead
    <2>5. Stream!TokenAt(0) = Eof
      BY <1>3, <2>1 DEF Stream!TokenAt
    <2>. QED  BY <1>1, <1>3, <2>1, <2>2, <2>4, <2>5 DEF Stream!TakeToken
  <1>. QED  BY <1>4, <1>5

LEMMA ReadAheadStep ==
    ASSUME GetterTypeOK, ReadAhead
    PROVE  [Stream!RepeatEof]_Stream!streamVars
  <1>. DEFINE c == Contents(buffer)
  <1>1. /\ call # Idle /\ getting = 0 /\ pushing = <<>> /\ WellFormed(buffer)
        /\ NextInput # Bad /\ pos' = NextPos /\ buffer' = PutAfterLast(buffer, NextInput)
        /\ UNCHANGED <<tok, error, call, getting, pushing>>
    BY DEF ReadAhead, GetterTypeOK
  <1>2. Size(buffer) < MaxSize
    BY StreamTypes, SizeModulusAssumption DEF ReadAhead, GetterTypeOK, MaxLookAhead, MaxSize
  <1>3. NextInput \in Elements
    BY <1>1, NextInputFacts DEF GetterTypeOK
  <1>4. Contents(buffer') = Append(c, NextInput)
    BY <1>1, <1>2, <1>3, PutAfterLastLemma
  <1>5. Rest = Ahead /\ c \in Seq(Items)
    BY <1>1, RestIsAhead, StreamTypes
  <1>6. CASE pos < Len(Input)
    <2>1. PICK v \in Seq(Items) : v = SubSeq(Input, NextPos + 1, Len(Input))
      BY <1>6, UnreadFacts
    <2>2. Unread = <<NextInput>> \o v /\ NextInput \in Items
      BY <1>6, <2>1, UnreadFacts
    <2>3. Unread' = v
      BY <1>1, <2>1 DEF Unread
    <2>4. Append(c, NextInput) \o v = c \o (<<NextInput>> \o v)
      <3>1. Append(c, NextInput) = c \o <<NextInput>> /\ <<NextInput>> \in Seq(Items)
        BY <1>5, <2>2, AppendIsConcat
      <3>. QED  BY <1>5, <2>1, <3>1, ConcatAssociative, SMTT(30)
    <2>5. Ahead' = Ahead
      BY <1>4, <2>2, <2>3, <2>4 DEF Ahead
    <2>6. Rest' = Rest
      BY <1>1, <2>5 DEF Rest
    <2>. QED  BY <1>1, <2>6 DEF Stream!streamVars
  <1>7. CASE ~ (pos < Len(Input))
    <2>1. Unread = <<>> /\ NextInput = Eof /\ pos' = pos
      BY <1>1, <1>7, UnreadFacts
    <2>2. Unread' = <<>>
      BY <2>1 DEF Unread
    <2>3. Append(c, Eof) \in Seq(Items)
      BY <1>5, <2>1, <1>3 DEF Items
    <2>4. Ahead = c /\ Ahead' = Append(c, Eof)
      BY <1>4, <1>5, <2>1, <2>2, <2>3, ConcatEmptySeq DEF Ahead
    <2>5. Rest' = Append(Rest, Eof)
      BY <1>1, <1>5, <2>3, <2>4, ConcatEmptySeq DEF Rest
    <2>. QED  BY <1>1, <2>5 DEF Stream!RepeatEof
  <1>. QED  BY <1>6, <1>7

LEMMA ReadAheadFailsStep ==
    ASSUME GetterTypeOK, ReadAheadFails
    PROVE  Stream!LookFails
  <1>. DEFINE c == Contents(buffer)
  <1>1. /\ call # Idle /\ call.ahead \in Nat /\ getting = 0 /\ pushing = <<>> /\ WellFormed(buffer)
        /\ tok = NullToken /\ Size(buffer) <= call.ahead /\ NextInput = Bad
        /\ pos' = NextPos /\ error' = TRUE /\ call' = Idle
        /\ UNCHANGED <<buffer, tok, getting, pushing>>
    BY DEF ReadAheadFails, GetterTypeOK
  <1>2. pos < Len(Input)
    BY <1>1, UnreadFacts, GetterAssumption
  <1>3. PICK v \in Seq(Items) : v = SubSeq(Input, NextPos + 1, Len(Input))
    BY <1>2, UnreadFacts
  <1>4. Unread = <<Bad>> \o v /\ Unread' = v /\ Bad \in Items
    BY <1>1, <1>2, <1>3, UnreadFacts DEF Unread
  <1>5. /\ c \in Seq(Items) /\ c \in Seq(Elements) /\ Len(c) = Size(buffer) /\ Len(c) \in Nat
        /\ Rest = Ahead
    BY <1>1, RestIsAhead, StreamTypes
  <1>6. /\ Rest = c \o (<<Bad>> \o v)
        /\ Rest \in Seq(Items)
    BY <1>4, <1>5, StreamTypes DEF Ahead
  <1>7. Rest' = c \o v
    <2>1. Ahead' = c \o v
      BY <1>1, <1>4 DEF Ahead
    <2>. QED  BY <1>1, <1>5, <2>1, ConcatEmptySeq, ConcatProperties DEF Rest
  <1>. HIDE DEF c
  <1>8. /\ Len(c) < Len(Rest)
        /\ Rest[Len(c) + 1] = Bad
        /\ \A i \in 1 .. Len(c) : Rest[i] = c[i]
        /\ SubSeq(Rest, 1, Len(c)) = c
        /\ SubSeq(Rest, Len(c) + 2, Len(Rest)) = v
    <2>1. c \in Seq(Items) /\ Bad \in Items /\ Rest = c \o (<<Bad>> \o v)
      BY <1>4, <1>5, <1>6
    <2>2. PICK x \in Items : x = Bad
      BY <2>1
    <2>3. PICK r : r = Rest
      OBVIOUS
    <2>4. r = c \o (<<x>> \o v)
      BY <2>1, <2>2, <2>3
    <2>5. /\ Len(c) < Len(r)
          /\ r[Len(c) + 1] = x
          /\ \A i \in 1 .. Len(c) : r[i] = c[i]
          /\ SubSeq(r, 1, Len(c)) = c
          /\ SubSeq(r, Len(c) + 2, Len(r)) = v
      BY <2>1, <2>4, RemoveFacts
    <2>. QED  BY <2>2, <2>3, <2>5
  <1>9. Stream!TokenAt(Len(c)) = Bad
    BY <1>8 DEF Stream!TokenAt
  <1>10. ASSUME NEW k \in 0 .. Len(c) - 1
         PROVE  Stream!TokenAt(k) # Bad
    <2>1. k + 1 \in 1 .. Len(c) /\ k < Len(Rest)
      <3>1. Len(c) \in Nat /\ Len(Rest) \in Nat
        BY <1>5, <1>6, LenProperties
      <3>2. PICK x \in Nat, y \in Nat : x = Len(c) /\ y = Len(Rest) /\ x < y
        BY <1>8, <3>1
      <3>3. k \in 0 .. x - 1
        BY <3>2
      <3>4. k + 1 \in 1 .. x /\ k < y
        BY <3>2, <3>3
      <3>. QED  BY <3>2, <3>4
    <2>2. Rest[k + 1] = c[k + 1] /\ c[k + 1] \in Elements
      BY <1>5, <1>8, <2>1, ElementOfSeq
    <2>. QED  BY <2>1, <2>2, GetterAssumption DEF Stream!TokenAt
  <1>11. Rest' = SubSeq(Rest, 1, Len(c)) \o Stream!Drop(Rest, Len(c) + 1)
    <2>1. Len(c) + 1 + 1 = Len(c) + 2
      BY <1>5
    <2>. QED  BY <1>7, <1>8, <2>1 DEF Stream!Drop
  <1>12. Len(c) \in 0 .. call.ahead
    BY <1>1, <1>5
  <1>. QED  BY <1>1, <1>9, <1>10, <1>11, <1>12 DEF Stream!LookFails

LEMMA LookStep ==
    ASSUME GetterTypeOK, NEW accepted \in BOOLEAN, Look(accepted)
    PROVE  Stream!FinishLook
  <1>. DEFINE c == Contents(buffer)
  <1>1. /\ call # Idle /\ getting = 0 /\ pushing = <<>> /\ WellFormed(buffer)
        /\ call.ahead < Size(buffer)
        /\ accepted => call.taking
        /\ tok' = GetAt(buffer, call.ahead)
        /\ getting' = IF accepted THEN call.ahead + 1 ELSE 0
        /\ call' = Idle
        /\ UNCHANGED <<pos, buffer, error, pushing>>
    BY DEF Look, GetterTypeOK
  <1>0. call.ahead \in Nat
    BY <1>1 DEF GetterTypeOK
  <1>2. /\ c \in Seq(Items) /\ c \in Seq(Elements) /\ Len(c) = Size(buffer) /\ Len(c) \in Nat
        /\ Unread \in Seq(Items) /\ Rest = Ahead /\ Ahead = c \o Unread
    BY <1>1, RestIsAhead, StreamTypes DEF Ahead
  <1>3. ASSUME NEW j \in 0 .. call.ahead
        PROVE  Stream!TokenAt(j) = c[j + 1] /\ Stream!TokenAt(j) # Bad
    <2>1. j + 1 \in 1 .. Len(c) /\ j + 1 \in 1 .. Len(c) + Len(Unread) /\ j < Len(c) + Len(Unread) /\ j + 1 <= Len(c)
      <3>1. call.ahead < Len(c) /\ Len(c) \in Nat /\ Len(Unread) \in Nat
        BY <1>1, <1>2
      <3>. HIDE DEF c
      <3>. QED  BY <1>0, <3>1
    <2>2. Rest[j + 1] = c[j + 1] /\ j < Len(Rest)
      BY <1>2, <2>1, ConcatProperties
    <2>3. c[j + 1] \in Elements
      BY <1>2, <2>1, ElementOfSeq
    <2>. QED  BY <2>2, <2>3, GetterAssumption DEF Stream!TokenAt
  <1>4. tok' = Stream!TokenAt(call.ahead)
    <2>1. call.ahead < Size(buffer)
      BY <1>1
    <2>2. c[call.ahead + 1] = GetAt(buffer, call.ahead)
      BY <1>0, <1>1, <2>1, GetAtLemma
    <2>3. call.ahead \in 0 .. call.ahead
      BY <1>0
    <2>4. Stream!TokenAt(call.ahead) = c[call.ahead + 1]
      BY <1>3, <2>3
    <2>. QED  BY <1>1, <2>2, <2>4
  <1>5. Ahead' = Ahead
    BY <1>1 DEF Ahead, Unread
  <1>6. CASE ~ accepted
    <2>1. Rest' = Rest
      BY <1>1, <1>5, <1>6 DEF Rest
    <2>. QED  BY <1>1, <1>3, <1>4, <2>1 DEF Stream!FinishLook
  <1>7. CASE accepted
    <2>1. getting' = call.ahead + 1 /\ getting' # 0 /\ call.taking
      <3>1. getting' = call.ahead + 1 /\ call.taking
        BY <1>1, <1>7
      <3>. QED  BY <1>0, <3>1
    <2>2. Rest' = SubSeq(Ahead, call.ahead + 1 + 1, Len(Ahead))
      BY <1>5, <2>1 DEF Rest
    <2>3. Rest' = Stream!Drop(Rest, call.ahead + 1)
      BY <1>2, <2>2 DEF Stream!Drop
    <2>. QED  BY <1>1, <1>3, <1>4, <2>1, <2>3 DEF Stream!FinishLook
  <1>. QED  BY <1>6, <1>7

LEMMA GetLookedAtStep ==
    ASSUME GetterTypeOK, GetLookedAt
    PROVE  UNCHANGED Stream!streamVars
  <1>. DEFINE c == Contents(buffer)
  <1>1. /\ getting # 0 /\ getting \in Nat /\ pushing = <<>> /\ WellFormed(buffer)
        /\ getting <= Size(buffer) /\ Size(buffer) # 0
        /\ buffer' = DeleteFirst(buffer) /\ getting' = getting - 1
        /\ UNCHANGED <<pos, tok, error, call, pushing>>
    BY StreamTypes DEF GetLookedAt, GetterTypeOK
  <1>2. /\ c \in Seq(Items) /\ c # <<>> /\ Len(c) = Size(buffer)
        /\ Unread \in Seq(Items) /\ Ahead = c \o Unread
    BY <1>1, StreamTypes DEF Ahead
  <1>3. Contents(buffer') = Tail(c) /\ Unread' = Unread
    BY <1>1, DeleteFirstLemma DEF Unread
  <1>4. Ahead' = Tail(Ahead) /\ Ahead # <<>> /\ Ahead \in Seq(Items)
        /\ Len(Ahead) = Len(c) + Len(Unread)
    BY <1>2, <1>3, TailOfConcat, StreamTypes DEF Ahead
  <1>5. getting <= Len(Ahead)
    BY <1>1, <1>2, <1>4
  <1>6. /\ SubSeq(Ahead, getting + 1, Len(Ahead)) = SubSeq(Tail(Ahead), getting, Len(Tail(Ahead)))
        /\ SubSeq(Ahead, 2, Len(Ahead)) = Tail(Ahead)
    BY <1>1, <1>4, <1>5, SuffixOfTail
  <1>7. Rest = SubSeq(Ahead, getting + 1, Len(Ahead))
    BY <1>1 DEF Rest
  <1>8. Rest' = Rest
    <2>1. CASE getting = 1
      <3>1. getting' = 0 /\ getting + 1 = 2 /\ pushing' = <<>>
        BY <1>1, <2>1
      <3>2. Tail(Ahead) \in Seq(Items)
        BY <1>4, HeadTailProperties
      <3>3. Rest' = Tail(Ahead)
        BY <1>4, <3>1, <3>2, ConcatEmptySeq DEF Rest
      <3>. QED  BY <1>6, <1>7, <3>1, <3>3
    <2>2. CASE getting # 1
      <3>1. getting' # 0 /\ getting' + 1 = getting
        BY <1>1, <2>2
      <3>2. Rest' = SubSeq(Tail(Ahead), getting, Len(Tail(Ahead)))
        BY <1>4, <3>1 DEF Rest
      <3>. QED  BY <1>6, <1>7, <3>2
    <2>. QED  BY <2>1, <2>2
  <1>. QED  BY <1>1, <1>8 DEF Stream!streamVars

\* Pushing back an element that goes before the others.
LEMMA PushedBack ==
    ASSUME GetterTypeOK, NEW e \in Elements, Size(buffer) < MaxSize,
           buffer' = PutBeforeFirst(buffer, e), pos' = pos
    PROVE  Ahead' = <<e>> \o Ahead
  <1>1. Contents(buffer') = <<e>> \o Contents(buffer)
    BY PutBeforeFirstLemma DEF GetterTypeOK
  <1>2. <<e>> \in Seq(Items) /\ Contents(buffer) \in Seq(Items) /\ Unread \in Seq(Items)
    BY StreamTypes DEF Items
  <1>3. Unread' = Unread
    BY DEF Unread
  <1>4. (<<e>> \o Contents(buffer)) \o Unread = <<e>> \o (Contents(buffer) \o Unread)
    BY <1>2, ConcatAssociative
  <1>. QED  BY <1>1, <1>3, <1>4 DEF Ahead

LEMMA PushBackTokenStep ==
    ASSUME GetterTypeOK, NEW t \in Elements, PushBackToken(t)
    PROVE  Stream!PushBack(<<t>>)
  <1>1. /\ call = Idle /\ getting = 0 /\ pushing = <<>> /\ error' = FALSE
        /\ UNCHANGED <<pos, tok, call, getting, pushing>>
    BY DEF PushBackToken, Returned
  <1>2. Ahead' = <<t>> \o Ahead
    BY PushedBack DEF PushBackToken
  <1>3. <<t>> \o Ahead \in Seq(Items)
    BY StreamTypes DEF Items
  <1>4. Rest' = <<t>> \o Rest
    BY <1>1, <1>2, <1>3, RestIsAhead, ConcatEmptySeq DEF Rest
  <1>. QED  BY <1>1, <1>4 DEF Stream!PushBack

LEMMA PushBackStringStep ==
    ASSUME GetterTypeOK, NEW s \in Strings, PushBackString(s)
    PROVE  Stream!PushBack(s)
  <1>1. /\ call = Idle /\ getting = 0 /\ pushing = <<>> /\ error' = FALSE /\ pushing' = s
        /\ UNCHANGED <<pos, buffer, tok, call, getting>>
    BY DEF PushBackString, Returned
  <1>2. Ahead' = Ahead
    BY <1>1 DEF Ahead, Unread
  <1>3. Rest' = s \o Rest
    BY <1>1, <1>2, RestIsAhead DEF Rest
  <1>. QED  BY <1>1, <1>3 DEF Stream!PushBack

LEMMA PushBackCodePointStep ==
    ASSUME GetterTypeOK, PushBackCodePoint
    PROVE  UNCHANGED Stream!streamVars
  <1>. DEFINE front == SubSeq(pushing, 1, Len(pushing) - 1)
              e == pushing[Len(pushing)]
  <1>1. /\ pushing # <<>> /\ getting = 0 /\ pushing \in Seq(Elements)
        /\ buffer' = PutBeforeFirst(buffer, e) /\ pushing' = front
        /\ UNCHANGED <<pos, tok, error, call, getting>>
    BY DEF PushBackCodePoint, GetterTypeOK
  <1>2. /\ Len(pushing) \in Nat \ {0} /\ e \in Elements /\ front \in Seq(Elements)
        /\ pushing = front \o <<e>>
    BY <1>1, FrontIs
  <1>3. Size(buffer) < MaxSize
    <2>1. Len(pushing) + Size(buffer) <= MaxSize /\ MaxSize \in Int /\ Size(buffer) \in Nat
      BY StreamTypes, SizeModulusAssumption DEF GetterTypeOK, MaxSize
    <2>. HIDE DEF front, e
    <2>. QED  BY <1>2, <2>1
  <1>4. Ahead' = <<e>> \o Ahead
    BY <1>1, <1>2, <1>3, PushedBack
  <1>5. front \in Seq(Items) /\ <<e>> \in Seq(Items) /\ Ahead \in Seq(Items)
    <2>. HIDE DEF front, e
    <2>1. Ahead \in Seq(Items)
      BY StreamTypes
    <2>2. front \in Seq(Items)
      BY <1>2, SeqMonotonic DEF Items
    <2>. QED  BY <1>2, <2>1, <2>2 DEF Items
  <1>. HIDE DEF front, e
  <1>6. front \o (<<e>> \o Ahead) = pushing \o Ahead
    BY <1>2, <1>5, ConcatAssociative, SMTT(30)
  <1>7. Rest' = Rest
    BY <1>1, <1>4, <1>6 DEF Rest
  <1>. QED  BY <1>1, <1>7 DEF Stream!streamVars

LEMMA StepRefinement ==
    ASSUME GetterTypeOK, [Next]_getterVars
    PROVE  [Stream!StreamNext]_Stream!streamVars
  <1>1. CASE GetFromBuffer
    BY <1>1, GetFromBufferStep DEF Stream!StreamNext
  <1>2. CASE GetFromSource
    BY <1>2, GetFromSourceStep DEF Stream!StreamNext
  <1>3. ASSUME NEW i \in 0 .. MaxLookAhead, NEW taking \in BOOLEAN, LookAtToken(i, taking)
        PROVE  Stream!StartLook(i, taking)
    <2>1. Rest' = Rest
      BY <1>3 DEF LookAtToken, Rest, Ahead, Unread
    <2>. QED  BY <1>3, <2>1 DEF LookAtToken, Returned, Stream!StartLook
  <1>4. ASSUME NEW t \in Elements, PushBackToken(t)
        PROVE  [Stream!StreamNext]_Stream!streamVars
    BY <1>4, PushBackTokenStep DEF Stream!StreamNext
  <1>5. ASSUME NEW s \in Strings, PushBackString(s)
        PROVE  [Stream!StreamNext]_Stream!streamVars
    BY <1>5, PushBackStringStep DEF Stream!StreamNext
  <1>6. CASE ReadAhead
    BY <1>6, ReadAheadStep DEF Stream!StreamNext
  <1>7. CASE ReadAheadFails
    BY <1>7, ReadAheadFailsStep DEF Stream!StreamNext
  <1>8. ASSUME NEW accepted \in BOOLEAN, Look(accepted)
        PROVE  [Stream!StreamNext]_Stream!streamVars
    BY <1>8, LookStep DEF Stream!StreamNext
  <1>9. CASE GetLookedAt
    BY <1>9, GetLookedAtStep
  <1>10. CASE PushBackCodePoint
    BY <1>10, PushBackCodePointStep
  <1>11. CASE UNCHANGED getterVars
    BY <1>11 DEF getterVars, Stream!streamVars, Rest, Ahead, Unread
  <1>12. ASSUME NEW i \in 0 .. MaxLookAhead, NEW taking \in BOOLEAN, LookAtToken(i, taking)
         PROVE  [Stream!StreamNext]_Stream!streamVars
    BY <1>3, <1>12 DEF Stream!StreamNext
  <1>13. CASE InCall
    BY <1>6, <1>7, <1>8, <1>9, <1>10, <1>13 DEF InCall
  <1>14. CASE Next
    BY <1>1, <1>2, <1>4, <1>5, <1>12, <1>13, <1>14 DEF Next
  <1>. QED  BY <1>11, <1>14

\* Whatever is looked at, taken and pushed back, the client of a buffered
\* getter sees one stream from which nothing is lost, repeated or reordered.
THEOREM GetterRefinesStream == Spec => ImplementsStream
  <1>1. Init => Stream!StreamInit
    <2>. SUFFICES ASSUME Init  PROVE Stream!StreamInit
      OBVIOUS
    <2>1. pos = 0 /\ getting = 0 /\ pushing = <<>> /\ Contents(buffer) = <<>>
      BY EmptyDequeWellFormed DEF Init
    <2>2. Input \in Seq(Items)
      BY GetterAssumption DEF Items
    <2>3. Unread = Input
      BY <2>1, <2>2, SubSeqFull DEF Unread
    <2>4. Rest = Input
      BY <2>1, <2>2, <2>3, ConcatEmptySeq DEF Rest, Ahead
    <2>. QED  BY <2>4 DEF Init, Stream!StreamInit
  <1>2. GetterTypeOK /\ [Next]_getterVars => [Stream!StreamNext]_Stream!streamVars
    BY StepRefinement
  <1>. QED
    BY <1>1, <1>2, GetterTypeInvariance, PTL DEF Spec, ImplementsStream, Stream!StreamSpec

-------------------------------------------------------------------------------
\* The files of tokens.

\* The indexed data file is made of entries, one after the other.
EntryEnd(d, i) == d.index[i] + 1 + d.data[d.index[i] + 1]

EntriesWhole(d) ==
    /\ d \in [data : Seq(Nat), index : Seq(Nat)]
    /\ \A i \in DOMAIN d.index :
          d.index[i] < Len(d.data) /\ EntryEnd(d, i) <= Len(d.data)

Filled(d) ==
    /\ IF Len(d.index) = 0 THEN d.data = <<>>
       ELSE d.index[1] = 0 /\ EntryEnd(d, Len(d.index)) = Len(d.data)
    /\ \A i \in 1 .. Len(d.index) - 1 : d.index[i + 1] = EntryEnd(d, i)

Places(d) == 0 .. Len(d.index) - 1

HasEntry(d, i, bytes) == i \in Places(d) /\ ReadEntry(d, i) = bytes

\* A data file after some writes.
Extends(d, e) ==
    /\ EntriesWhole(e)
    /\ Filled(d) => Filled(e)
    /\ \A i \in Places(d) : HasEntry(e, i, ReadEntry(d, i))

LEMMA ExtendsSelf ==
    ASSUME NEW d, EntriesWhole(d)
    PROVE  Extends(d, d)
  BY DEF Extends, HasEntry

LEMMA ExtendsTransitive ==
    ASSUME NEW d, NEW e, NEW f, Extends(d, e), Extends(e, f)
    PROVE  Extends(d, f)
  BY DEF Extends, HasEntry

LEMMA HasEntryKept ==
    ASSUME NEW d, NEW e, Extends(d, e), NEW i, NEW bytes, HasEntry(d, i, bytes)
    PROVE  HasEntry(e, i, bytes)
  BY DEF Extends, HasEntry

\* What is in a sequence of two others with a number between them.
Joins(s, x, t, u) ==
    /\ u \in Seq(Nat)
    /\ Len(u) = Len(s) + 1 + Len(t)
    /\ \A k \in 1 .. Len(s) : u[k] = s[k]
    /\ u[Len(s) + 1] = x
    /\ \A k \in 1 .. Len(t) : u[Len(s) + 1 + k] = t[k]

LEMMA Joined ==
    ASSUME NEW s \in Seq(Nat), NEW x \in Nat, NEW t \in Seq(Nat), NEW u,
           u = s \o <<x>> \o t
    PROVE  Joins(s, x, t, u)
  <1>. DEFINE h == s \o <<x>>
  <1>1. /\ h \in Seq(Nat) /\ Len(h) = Len(s) + 1 /\ h[Len(s) + 1] = x
        /\ \A k \in 1 .. Len(s) : h[k] = s[k]
    OBVIOUS
  <1>2. u = h \o t
    OBVIOUS
  <1>3. Len(s) \in Nat /\ Len(t) \in Nat
    OBVIOUS
  <1>. HIDE DEF h
  <1>4. u \in Seq(Nat) /\ Len(u) = Len(h) + Len(t)
    BY <1>1, <1>2
  <1>5. \A k \in 1 .. Len(h) : u[k] = h[k]
    BY <1>1, <1>2
  <1>6. ASSUME NEW k \in 1 .. Len(t)
        PROVE  u[Len(s) + 1 + k] = t[k]
    <2>1. /\ Len(h) + k \in 1 .. Len(h) + Len(t) /\ ~ (Len(h) + k <= Len(h))
          /\ (Len(h) + k) - Len(h) = k
      BY <1>1, <1>3
    <2>2. u[Len(h) + k] = t[k]
      BY <1>1, <1>2, <2>1, ConcatProperties
    <2>. QED  BY <1>1, <2>2
  <1>. QED  BY <1>1, <1>3, <1>4, <1>5, <1>6 DEF Joins

\* An entry, by its bytes.
Offset(d, i) == d.index[i + 1]
Length(d, i) == d.data[Offset(d, i) + 1]
Byte(d, i, k) == d.data[Offset(d, i) + 1 + k]

LEMMA EntryIs ==
    ASSUME NEW d, NEW i, Offset(d, i) \in Nat, Length(d, i) \in Nat
    PROVE  ReadEntry(d, i) = [k \in 1 .. Length(d, i) |-> Byte(d, i, k)]
  <1>. DEFINE o == Offset(d, i)
              l == Length(d, i)
  <1>1. ReadEntry(d, i) = SubSeq(d.data, o + 2, o + 1 + l)
    BY DEF ReadEntry, Offset, Length
  <1>2. \A k : Byte(d, i, k) = d.data[o + 1 + k]
    BY DEF Byte
  <1>. HIDE DEF o, l
  <1>3. o \in Nat /\ l \in Nat
    BY DEF o, l
  <1>4. SubSeq(d.data, o + 2, o + 1 + l) = [k \in 1 .. l |-> d.data[o + 1 + k]]
    BY <1>3
  <1>. QED  BY <1>1, <1>2, <1>4 DEF l

\* A write adds an entry, which is what is read at its place, and changes no
\* other.
LEMMA WriteEntryAdds ==
    ASSUME NEW d, EntriesWhole(d), NEW bytes \in Seq(Nat)
    PROVE  /\ Extends(d, WriteEntry(d, bytes))
           /\ HasEntry(WriteEntry(d, bytes), Len(d.index), bytes)
  <1>. DEFINE e == WriteEntry(d, bytes)
              n == Len(d.index)
              m == Len(d.data)
              b == Len(bytes)
  <1>1. n \in Nat /\ m \in Nat /\ b \in Nat
    BY DEF EntriesWhole
  <1>2. e.data = d.data \o <<b>> \o bytes
    BY DEF WriteEntry
  <1>20. Joins(d.data, b, bytes, e.data)
    <2>1. d.data \in Seq(Nat)
      BY DEF EntriesWhole
    <2>. HIDE DEF e, m, b
    <2>. QED  BY <2>1, <1>1, <1>2, Joined
  <1>3. /\ e.data \in Seq(Nat) /\ Len(e.data) = m + 1 + b
        /\ \A k \in 1 .. b : e.data[m + 1 + k] = bytes[k]
    <2>. HIDE DEF e
    <2>. QED  BY <1>20 DEF Joins
  <1>6. /\ \A k \in 1 .. m : e.data[k] = d.data[k]
        /\ e.data[m + 1] = b
    <2>. HIDE DEF e
    <2>. QED  BY <1>20 DEF Joins
  <1>4. /\ e.index \in Seq(Nat) /\ Len(e.index) = n + 1
        /\ \A i \in 1 .. n : e.index[i] = d.index[i]
        /\ e.index[n + 1] = m
    BY <1>1 DEF EntriesWhole, WriteEntry
  <1>5. e = [data |-> e.data, index |-> e.index]
    BY DEF WriteEntry
  <1>. HIDE DEF e
  <1>7. ASSUME NEW i \in 1 .. n
        PROVE  /\ d.index[i] \in Nat /\ d.index[i] < m
               /\ d.data[d.index[i] + 1] \in Nat
               /\ EntryEnd(d, i) <= m /\ EntryEnd(d, i) \in Nat
               /\ EntryEnd(e, i) = EntryEnd(d, i)
    <2>1. d.index[i] \in Nat /\ d.index[i] < m /\ EntryEnd(d, i) <= m
      BY <1>1 DEF EntriesWhole
    <2>2. d.index[i] + 1 \in 1 .. m
      <3>1. PICK x \in Nat : x = d.index[i] /\ x < m
        BY <2>1
      <3>2. PICK y \in Nat : y = m
        BY <1>1
      <3>. HIDE DEF m
      <3>3. x < y
        BY <3>1, <3>2
      <3>4. x + 1 \in 1 .. y
        BY <3>3
      <3>. QED  BY <3>1, <3>2, <3>4
    <2>3. d.data[d.index[i] + 1] \in Nat
      <3>1. d.data \in Seq(Nat)
        BY DEF EntriesWhole
      <3>. QED  BY <2>2, <3>1, ElementOfSeq
    <2>4. e.data[e.index[i] + 1] = d.data[d.index[i] + 1]
      <3>1. e.index[i] = d.index[i]
        BY <1>4
      <3>2. e.data[d.index[i] + 1] = d.data[d.index[i] + 1]
        BY <2>2, <1>6
      <3>. QED  BY <3>1, <3>2
    <2>5. EntryEnd(e, i) = EntryEnd(d, i)
      BY <2>4, <1>4 DEF EntryEnd
    <2>6. EntryEnd(d, i) \in Nat
      <3>1. PICK x \in Nat, y \in Nat : x = d.index[i] /\ y = d.data[d.index[i] + 1]
        BY <2>1, <2>3
      <3>2. x + 1 + y \in Nat
        OBVIOUS
      <3>. QED  BY <3>1, <3>2 DEF EntryEnd
    <2>. QED  BY <2>1, <2>3, <2>5, <2>6
  <1>8. EntryEnd(e, n + 1) = m + 1 + b
    BY <1>4, <1>6 DEF EntryEnd
  <1>9. EntriesWhole(e)
    <2>1. ASSUME NEW i \in DOMAIN e.index
          PROVE  e.index[i] < Len(e.data) /\ EntryEnd(e, i) <= Len(e.data)
      <3>1. CASE i = n + 1
        <4>1. e.index[i] < m + 1 + b
          BY <3>1, <1>1, <1>4
        <4>2. EntryEnd(e, i) <= m + 1 + b
          BY <3>1, <1>1, <1>8
        <4>. QED  BY <4>1, <4>2, <1>3
      <3>2. CASE i \in 1 .. n
        <4>1. e.index[i] < m /\ EntryEnd(e, i) <= m
          BY <3>2, <1>4, <1>7
        <4>2. e.index[i] \in Nat /\ EntryEnd(e, i) \in Nat
          BY <3>2, <1>4, <1>7
        <4>3. Len(e.data) >= m
          BY <1>1, <1>3
        <4>. QED  BY <4>1, <4>2, <4>3, <1>1, <1>3
      <3>3. DOMAIN e.index = 1 .. n + 1
        BY <1>4
      <3>. QED  BY <3>1, <3>2, <3>3, <1>1
    <2>2. e \in [data : Seq(Nat), index : Seq(Nat)]
      BY <1>3, <1>4, <1>5
    <2>. QED  BY <2>1, <2>2 DEF EntriesWhole
  <1>10. ASSUME Filled(d)
         PROVE  Filled(e)
    <2>1. e.index[1] = 0
      <3>1. CASE n = 0
        <4>1. m = 0
          BY <3>1, <1>10 DEF Filled
        <4>. QED  BY <3>1, <4>1, <1>4
      <3>2. CASE n # 0
        <4>1. 1 \in 1 .. n /\ d.index[1] = 0
          BY <3>2, <1>1, <1>10 DEF Filled
        <4>2. e.index[1] = d.index[1]
          BY <4>1, <1>1, <1>4
        <4>. QED  BY <4>1, <4>2
      <3>. QED  BY <3>1, <3>2
    <2>2. EntryEnd(e, n + 1) = Len(e.data)
      BY <1>3, <1>8
    <2>3. ASSUME NEW i \in 1 .. n
          PROVE  e.index[i + 1] = EntryEnd(e, i)
      <3>1. CASE i = n
        BY <3>1, <1>1, <1>4, <1>7, <1>10 DEF Filled
      <3>2. CASE i \in 1 .. n - 1
        <4>1. d.index[i + 1] = EntryEnd(d, i)
          BY <3>2, <1>1, <1>10 DEF Filled
        <4>2. i + 1 \in 1 .. n
          BY <3>2, <1>1
        <4>3. e.index[i + 1] = d.index[i + 1]
          BY <4>2, <1>4
        <4>. QED  BY <4>1, <4>3, <1>7
      <3>. QED  BY <3>1, <3>2, <1>1
    <2>. QED  BY <2>1, <2>2, <2>3, <1>1, <1>4 DEF Filled
  <1>11. ASSUME NEW i \in Places(d)
         PROVE  HasEntry(e, i, ReadEntry(d, i))
    <2>. DEFINE o == d.index[i + 1]
                len == d.data[o + 1]
    <2>1. i + 1 \in 1 .. n /\ i \in Places(e)
      BY <1>1, <1>4 DEF Places
    <2>2. /\ e.index[i + 1] = o /\ o \in Nat /\ o < m
          /\ len \in Nat /\ o + 1 + len <= m
      BY <2>1, <1>4, <1>7 DEF EntryEnd
    <2>3. e.data[o + 1] = len
      <3>1. o + 1 \in 1 .. m
        BY <2>2, <1>1
      <3>. QED  BY <3>1, <1>6
    <2>6. \A k \in 1 .. len : /\ e.data[o + 1 + k] \in Nat
                              /\ e.data[o + 1 + k] = d.data[o + 1 + k]
      <3>. HIDE DEF o, len
      <3>1. \A k \in 1 .. len : o + 1 + k \in 1 .. m
        BY <2>2, <1>1
      <3>2. \A k \in 1 .. m : d.data[k] \in Nat
        BY DEF EntriesWhole
      <3>. QED  BY <3>1, <3>2, <1>6
    <2>7. /\ Offset(d, i) = o /\ Length(d, i) = len
          /\ Offset(e, i) = o /\ Length(e, i) = len
      BY <2>2, <2>3 DEF Offset, Length
    <2>8. \A k \in 1 .. len : Byte(e, i, k) = Byte(d, i, k)
      BY <2>6, <2>7 DEF Byte
    <2>9. ReadEntry(e, i) = ReadEntry(d, i)
      <3>. HIDE DEF o, len
      <3>1. ReadEntry(e, i) = [k \in 1 .. Length(e, i) |-> Byte(e, i, k)]
        BY <2>2, <2>7, EntryIs
      <3>2. ReadEntry(d, i) = [k \in 1 .. Length(d, i) |-> Byte(d, i, k)]
        BY <2>2, <2>7, EntryIs
      <3>. QED  BY <2>7, <2>8, <3>1, <3>2
    <2>. QED  BY <2>1, <2>9 DEF HasEntry
  <1>12. HasEntry(e, n, bytes)
    <2>0. Offset(e, n) = m
      BY <1>4 DEF Offset
    <2>1. /\ Offset(e, n) = m /\ Length(e, n) = b
          /\ \A k \in 1 .. b : Byte(e, n, k) = bytes[k]
      BY <2>0, <1>3, <1>6 DEF Length, Byte
    <2>2. bytes = [k \in 1 .. b |-> bytes[k]]
      BY <1>1
    <2>3. ReadEntry(e, n) = bytes
      BY <2>1, <2>2, <1>1, EntryIs, SMTT(30)
    <2>5. n \in Places(e)
      BY <1>1, <1>4 DEF Places
    <2>. QED  BY <2>3, <2>5 DEF HasEntry
  <1>. QED  BY <1>9, <1>10, <1>11, <1>12 DEF Extends, e

-------------------------------------------------------------------------------
\* The dictionaries and the records of the putter.

NamesKnown(d, map) ==
    \A x \in DOMAIN map : x \in Seq(Nat \ {0}) /\ HasEntry(d, map[x], Nul(x))

TextsKnown(d, map) ==
    \A x \in DOMAIN map : x \in DOMAIN Utf8 /\ HasEntry(d, map[x], U8(x))

RecordKnown(d, r) ==
    /\ \/ r[1] = -1
       \/ \E x \in Seq(Nat \ {0}) : HasEntry(d, r[1], Nul(x))
    /\ \E x \in DOMAIN Utf8 : HasEntry(d, r[4], U8(x))
    /\ \E x \in DOMAIN Utf8 : HasEntry(d, r[5], U8(x))
    /\ r[6] = -1 \/ r[6] \in Places(d)

\* TokenOf, in any data file.
TokenIn(d, r) ==
    [filename |-> IF r[1] < 0 THEN None ELSE UntilNul(ReadEntry(d, r[1])),
     place |-> <<r[2], r[3]>>,
     kind |-> U32(ReadEntry(d, r[4])),
     value |-> U32(ReadEntry(d, r[5])),
     extension |-> IF r[6] < 0 THEN None ELSE ReadEntry(d, r[6])]

LEMMA NulIsBytes ==
    ASSUME NEW x \in Seq(Nat \ {0})
    PROVE  Nul(x) \in Seq(Nat) /\ UntilNul(Nul(x)) = x
  <1>1. /\ Nul(x) \in Seq(Nat) /\ Len(Nul(x)) = Len(x) + 1
        /\ \A i \in 1 .. Len(x) : Nul(x)[i] = x[i]
    BY DEF Nul
  <1>2. UntilNul(Nul(x)) = SubSeq(Nul(x), 1, Len(x))
    BY <1>1 DEF UntilNul
  <1>. QED  BY <1>1, <1>2

LEMMA U32OfU8 ==
    ASSUME NEW x \in DOMAIN Utf8
    PROVE  U8(x) \in Seq(Nat) /\ U32(U8(x)) = x
  <1>1. \A y \in DOMAIN Utf8 : U8(y) = U8(x) => y = x
    BY Utf8Assumption DEF U8
  <1>. QED  BY <1>1, Utf8Assumption DEF U8, U32

\* What is known of the entries stays known.
LEMMA KnownKept ==
    ASSUME NEW d, NEW e, Extends(d, e)
    PROVE  /\ \A map : NamesKnown(d, map) => NamesKnown(e, map)
           /\ \A map : TextsKnown(d, map) => TextsKnown(e, map)
           /\ \A r : RecordKnown(d, r)
                        => RecordKnown(e, r) /\ TokenIn(e, r) = TokenIn(d, r)
  <1>1. \A i, bytes : HasEntry(d, i, bytes) => HasEntry(e, i, bytes)
    BY DEF Extends, HasEntry
  <1>2. \A i \in Places(d) : i \in Places(e) /\ ReadEntry(e, i) = ReadEntry(d, i)
    BY DEF Extends, HasEntry
  <1>3. ASSUME NEW map, NamesKnown(d, map)
        PROVE  NamesKnown(e, map)
    BY <1>1, <1>3 DEF NamesKnown
  <1>4. ASSUME NEW map, TextsKnown(d, map)
        PROVE  TextsKnown(e, map)
    BY <1>1, <1>4 DEF TextsKnown
  <1>5. ASSUME NEW r, RecordKnown(d, r)
        PROVE  RecordKnown(e, r) /\ TokenIn(e, r) = TokenIn(d, r)
    <2>1. RecordKnown(e, r)
      BY <1>1, <1>2, <1>5 DEF RecordKnown
    <2>2. /\ r[1] = -1 \/ r[1] \in Places(d)
          /\ r[4] \in Places(d) /\ r[5] \in Places(d)
          /\ r[6] = -1 \/ r[6] \in Places(d)
      BY <1>5 DEF RecordKnown, HasEntry
    <2>3. /\ r[1] < 0 \/ ReadEntry(e, r[1]) = ReadEntry(d, r[1])
          /\ ReadEntry(e, r[4]) = ReadEntry(d, r[4])
          /\ ReadEntry(e, r[5]) = ReadEntry(d, r[5])
          /\ r[6] < 0 \/ ReadEntry(e, r[6]) = ReadEntry(d, r[6])
      BY <1>2, <2>2
    <2>. QED  BY <2>1, <2>3 DEF TokenIn
  <1>. QED  BY <1>3, <1>4, <1>5

\* A text is in the dictionary afterwards, at a place that has its bytes.
LEMMA InternAdds ==
    ASSUME NEW d, EntriesWhole(d), NEW map, NEW text, NEW bytes \in Seq(Nat),
           text \in DOMAIN map => HasEntry(d, map[text], bytes)
    PROVE  LET s == Intern([df |-> d, map |-> map], text, bytes)
           IN  /\ Extends(d, s.df)
               /\ DOMAIN s.map = DOMAIN map \cup {text}
               /\ \A x \in DOMAIN map : s.map[x] = map[x]
               /\ HasEntry(s.df, s.map[text], bytes)
  <1>. DEFINE s == Intern([df |-> d, map |-> map], text, bytes)
  <1>1. CASE text \in DOMAIN map
    <2>1. s = [df |-> d, map |-> map]
      BY <1>1 DEF Intern
    <2>. QED  BY <1>1, <2>1, ExtendsSelf
  <1>2. CASE text \notin DOMAIN map
    <2>1. s.df = WriteEntry(d, bytes) /\ s.map = With(map, text, Len(d.index))
      BY <1>2 DEF Intern
    <2>2. /\ DOMAIN s.map = DOMAIN map \cup {text}
          /\ s.map[text] = Len(d.index)
          /\ \A x \in DOMAIN map : s.map[x] = map[x]
      BY <1>2, <2>1 DEF With
    <2>. QED  BY <2>1, <2>2, WriteEntryAdds
  <1>. QED  BY <1>1, <1>2

LEMMA NameAdded ==
    ASSUME NEW d, EntriesWhole(d), NEW map, NamesKnown(d, map),
           NEW x \in Seq(Nat \ {0})
    PROVE  LET s == Intern([df |-> d, map |-> map], x, Nul(x))
           IN  /\ Extends(d, s.df)
               /\ NamesKnown(s.df, s.map)
               /\ HasEntry(s.df, s.map[x], Nul(x))
  <1>. DEFINE s == Intern([df |-> d, map |-> map], x, Nul(x))
  <1>1. x \in DOMAIN map => HasEntry(d, map[x], Nul(x))
    BY DEF NamesKnown
  <1>2. Nul(x) \in Seq(Nat)
    BY NulIsBytes
  <1>3. /\ Extends(d, s.df)
        /\ DOMAIN s.map = DOMAIN map \cup {x}
        /\ \A y \in DOMAIN map : s.map[y] = map[y]
        /\ HasEntry(s.df, s.map[x], Nul(x))
    BY <1>1, <1>2, InternAdds
  <1>. HIDE DEF s
  <1>4. NamesKnown(s.df, map)
    BY <1>3, KnownKept
  <1>5. NamesKnown(s.df, s.map)
    BY <1>3, <1>4 DEF NamesKnown
  <1>. QED  BY <1>3, <1>5 DEF s

LEMMA TextAdded ==
    ASSUME NEW d, EntriesWhole(d), NEW map, TextsKnown(d, map),
           NEW x \in DOMAIN Utf8
    PROVE  LET s == Intern([df |-> d, map |-> map], x, U8(x))
           IN  /\ Extends(d, s.df)
               /\ TextsKnown(s.df, s.map)
               /\ DOMAIN s.map = DOMAIN map \cup {x}
  <1>. DEFINE s == Intern([df |-> d, map |-> map], x, U8(x))
  <1>1. x \in DOMAIN map => HasEntry(d, map[x], U8(x))
    BY DEF TextsKnown
  <1>2. U8(x) \in Seq(Nat)
    BY U32OfU8
  <1>3. /\ Extends(d, s.df)
        /\ DOMAIN s.map = DOMAIN map \cup {x}
        /\ \A y \in DOMAIN map : s.map[y] = map[y]
        /\ HasEntry(s.df, s.map[x], U8(x))
    BY <1>1, <1>2, InternAdds
  <1>. HIDE DEF s
  <1>4. TextsKnown(s.df, map)
    BY <1>3, KnownKept
  <1>5. TextsKnown(s.df, s.map)
    BY <1>3, <1>4 DEF TextsKnown
  <1>. QED  BY <1>3, <1>5 DEF s

\* What the steps of put_token_to_files leave in the files and dictionaries.
LEMMA FilenameStored ==
    ASSUME EntriesWhole(df), NamesKnown(df, filenames), NEW t \in Tokens
    PROVE  LET s == StoreFilename(t)
           IN  /\ Extends(df, s.df)
               /\ NamesKnown(s.df, s.map)
               /\ t.filename # None
                     => /\ t.filename \in Seq(Nat \ {0})
                        /\ HasEntry(s.df, s.map[t.filename], Nul(t.filename))
  <1>1. CASE t.filename = None
    <2>1. StoreFilename(t) = [df |-> df, map |-> filenames]
      BY <1>1 DEF StoreFilename
    <2>. QED  BY <1>1, <2>1, ExtendsSelf
  <1>2. CASE t.filename # None
    <2>1. t.filename \in Seq(Nat \ {0})
      BY <1>2, TokensAssumption
    <2>2. StoreFilename(t)
             = Intern([df |-> df, map |-> filenames], t.filename, Nul(t.filename))
      BY <1>2 DEF StoreFilename
    <2>. QED  BY <2>1, <2>2, NameAdded
  <1>. QED  BY <1>1, <1>2

LEMMA KindStored ==
    ASSUME EntriesWhole(df), NamesKnown(df, filenames), TextsKnown(df, strings),
           NEW t \in Tokens, Encodable(t.kind)
    PROVE  LET s == StoreKind(t)
           IN  /\ Extends(StoreFilename(t).df, s.df)
               /\ TextsKnown(s.df, s.map)
               /\ t.kind \in DOMAIN s.map
  <1>. DEFINE d == StoreFilename(t).df
  <1>1. Extends(df, d)
    BY FilenameStored
  <1>2. t.kind \in DOMAIN Utf8
    BY DEF Encodable
  <1>3. StoreKind(t) = Intern([df |-> d, map |-> strings], t.kind, U8(t.kind))
    BY DEF StoreKind
  <1>. HIDE DEF d
  <1>4. EntriesWhole(d) /\ TextsKnown(d, strings)
    BY <1>1, KnownKept DEF Extends
  <1>5. /\ Extends(d, StoreKind(t).df)
        /\ TextsKnown(StoreKind(t).df, StoreKind(t).map)
        /\ t.kind \in DOMAIN StoreKind(t).map
    BY <1>2, <1>3, <1>4, TextAdded
  <1>. QED  BY <1>5 DEF d

LEMMA ValueStored ==
    ASSUME EntriesWhole(df), NamesKnown(df, filenames), TextsKnown(df, strings),
           NEW t \in Tokens, Encodable(t.kind), Encodable(t.value)
    PROVE  LET s == StoreValue(t)
           IN  /\ Extends(StoreKind(t).df, s.df)
               /\ TextsKnown(s.df, s.map)
               /\ t.kind \in DOMAIN s.map /\ t.value \in DOMAIN s.map
  <1>. DEFINE k == StoreKind(t)
  <1>1. Extends(StoreFilename(t).df, k.df) /\ TextsKnown(k.df, k.map) /\ t.kind \in DOMAIN k.map
    BY KindStored
  <1>2. t.value \in DOMAIN Utf8
    BY DEF Encodable
  <1>3. k = [df |-> k.df, map |-> k.map]
    BY DEF StoreKind, Intern
  <1>4. StoreValue(t) = Intern(k, t.value, U8(t.value))
    BY DEF StoreValue
  <1>. HIDE DEF k
  <1>5. EntriesWhole(k.df)
    BY <1>1 DEF Extends
  <1>6. StoreValue(t) = Intern([df |-> k.df, map |-> k.map], t.value, U8(t.value))
    BY <1>3, <1>4
  <1>7. /\ Extends(k.df, StoreValue(t).df)
        /\ TextsKnown(StoreValue(t).df, StoreValue(t).map)
        /\ DOMAIN StoreValue(t).map = DOMAIN k.map \cup {t.value}
    BY <1>1, <1>2, <1>5, <1>6, TextAdded
  <1>. QED  BY <1>1, <1>7 DEF k

LEMMA ExtensionStored ==
    ASSUME NEW t \in Tokens, EntriesWhole(StoreValue(t).df)
    PROVE  /\ Extends(StoreValue(t).df, StoreExtension(t))
           /\ t.extension # None
                 => HasEntry(StoreExtension(t), Len(StoreValue(t).df.index), t.extension)
  <1>. DEFINE d == StoreValue(t).df
  <1>1. StoreExtension(t) = IF t.extension = None THEN d ELSE WriteEntry(d, t.extension)
    BY DEF StoreExtension
  <1>2. t.extension # None => t.extension \in Seq(Nat)
    BY TokensAssumption
  <1>. HIDE DEF d
  <1>3. EntriesWhole(d)
    BY DEF d
  <1>4. /\ Extends(d, StoreExtension(t))
        /\ t.extension # None => HasEntry(StoreExtension(t), Len(d.index), t.extension)
    BY <1>1, <1>2, <1>3, WriteEntryAdds, ExtendsSelf
  <1>. QED  BY <1>4 DEF d

\* A token that has been put is what its record stands for, and what the
\* records before it stand for stays.
NewRecord(t) ==
    <<IF t.filename = None THEN -1 ELSE StoreFilename(t).map[t.filename],
      t.place[1], t.place[2], StoreValue(t).map[t.kind], StoreValue(t).map[t.value],
      IF t.extension = None THEN -1 ELSE Len(StoreValue(t).df.index)>>

Records == Int \X Nat \X Nat \X Int \X Int \X Int

LEMMA TokenStored ==
    ASSUME EntriesWhole(df), NamesKnown(df, filenames), TextsKnown(df, strings),
           NEW t \in Tokens, Encodable(t.kind), Encodable(t.value)
    PROVE  LET e == StoreExtension(t)
           IN  /\ Extends(df, e)
               /\ NamesKnown(e, StoreFilename(t).map)
               /\ TextsKnown(e, StoreValue(t).map)
               /\ NewRecord(t) \in Records
               /\ RecordKnown(e, NewRecord(t))
               /\ TokenIn(e, NewRecord(t)) = t
  <1>. DEFINE e == StoreExtension(t)
              f == StoreFilename(t)
              v == StoreValue(t)
              r == NewRecord(t)
  <1>1. /\ Extends(df, f.df)
        /\ NamesKnown(f.df, f.map)
        /\ t.filename # None
              => /\ t.filename \in Seq(Nat \ {0})
                 /\ HasEntry(f.df, f.map[t.filename], Nul(t.filename))
    BY FilenameStored
  <1>2. Extends(f.df, v.df)
    BY KindStored, ValueStored, ExtendsTransitive
  <1>3. /\ TextsKnown(v.df, v.map)
        /\ t.kind \in DOMAIN v.map /\ t.value \in DOMAIN v.map
    BY ValueStored
  <1>4. /\ Extends(v.df, e)
        /\ t.extension # None => HasEntry(e, Len(v.df.index), t.extension)
    BY <1>2, ExtensionStored DEF Extends
  <1>5. /\ r[1] = IF t.filename = None THEN -1 ELSE f.map[t.filename]
        /\ r[2] = t.place[1] /\ r[3] = t.place[2]
        /\ r[4] = v.map[t.kind] /\ r[5] = v.map[t.value]
        /\ r[6] = IF t.extension = None THEN -1 ELSE Len(v.df.index)
    BY DEF NewRecord
  <1>6. /\ t = [filename |-> t.filename, place |-> t.place, kind |-> t.kind,
               value |-> t.value, extension |-> t.extension]
        /\ t.place = <<t.place[1], t.place[2]>>
    BY TokensAssumption
  <1>. HIDE DEF e, f, v, r
  <1>7. Extends(f.df, e) /\ Extends(df, e)
    BY <1>1, <1>2, <1>4, ExtendsTransitive
  <1>8. NamesKnown(e, f.map)
    BY <1>1, <1>7, KnownKept
  <1>9. TextsKnown(e, v.map)
    BY <1>3, <1>4, KnownKept
  <1>10. t.filename # None
           => /\ t.filename \in Seq(Nat \ {0})
              /\ HasEntry(e, r[1], Nul(t.filename))
    BY <1>1, <1>5, <1>7, HasEntryKept
  <1>11. /\ t.kind \in DOMAIN Utf8 /\ HasEntry(e, r[4], U8(t.kind))
         /\ t.value \in DOMAIN Utf8 /\ HasEntry(e, r[5], U8(t.value))
    BY <1>3, <1>5, <1>9 DEF TextsKnown
  <1>12. t.extension # None => HasEntry(e, r[6], t.extension)
    BY <1>4, <1>5
  <1>13. RecordKnown(e, r)
    BY <1>5, <1>10, <1>11, <1>12 DEF RecordKnown, HasEntry
  <1>18. r \in Records
    <2>1. r[1] \in Int /\ r[4] \in Int /\ r[5] \in Int /\ r[6] \in Int
      BY <1>5, <1>10, <1>11, <1>12, <1>1 DEF HasEntry, Places
    <2>2. r[2] \in Nat /\ r[3] \in Nat
      BY <1>5, TokensAssumption
    <2>3. r = <<r[1], r[2], r[3], r[4], r[5], r[6]>>
      BY DEF r, NewRecord
    <2>. QED  BY <2>1, <2>2, <2>3 DEF Records
  <1>14. (IF r[1] < 0 THEN None ELSE UntilNul(ReadEntry(e, r[1]))) = t.filename
    <2>1. CASE t.filename = None
      BY <2>1, <1>5
    <2>2. CASE t.filename # None
      <3>1. ~ (r[1] < 0) /\ ReadEntry(e, r[1]) = Nul(t.filename)
        BY <2>2, <1>10 DEF HasEntry, Places
      <3>2. UntilNul(Nul(t.filename)) = t.filename
        BY <2>2, <1>10, NulIsBytes
      <3>. QED  BY <3>1, <3>2
    <2>. QED  BY <2>1, <2>2
  <1>15. U32(ReadEntry(e, r[4])) = t.kind /\ U32(ReadEntry(e, r[5])) = t.value
    BY <1>11, U32OfU8 DEF HasEntry
  <1>16. (IF r[6] < 0 THEN None ELSE ReadEntry(e, r[6])) = t.extension
    <2>1. CASE t.extension = None
      BY <2>1, <1>5
    <2>2. CASE t.extension # None
      BY <2>2, <1>12 DEF HasEntry, Places
    <2>. QED  BY <2>1, <2>2
  <1>17. TokenIn(e, r) = t
    BY <1>5, <1>6, <1>14, <1>15, <1>16 DEF TokenIn
  <1>. QED  BY <1>7, <1>8, <1>9, <1>13, <1>17, <1>18 DEF e, f, v, r

-------------------------------------------------------------------------------
\* The inductive invariant.

EntriesInv ==
    /\ EntriesWhole(df)
    /\ Filled(df)
    /\ NamesKnown(df, filenames)
    /\ TextsKnown(df, strings)

RecordsInv ==
    /\ records \in Seq(Records) /\ unwritten \in Seq(Records)
    /\ \A k \in 1 .. Len(records) : RecordKnown(df, records[k])
    /\ \A k \in 1 .. Len(unwritten) : RecordKnown(df, unwritten[k])

PhaseInv ==
    /\ phase \in {"writing", "failed"} => records = <<>>
    /\ phase \notin {"writing", "failed"} => unwritten = <<>>
    /\ phase \in {"writing", "written"} => i_token = 0
    /\ phase = "writing" => got = NoToken
    /\ phase = "reading" => /\ n_tokens = Len(records)
                            /\ i_token \in Nat
                            /\ i_token = 0 \/ i_token < n_tokens

CachesInv ==
    phase = "reading" =>
        /\ \A i \in DOMAIN names : names[i] = UntilNul(ReadEntry(df, i))
        /\ \A i \in DOMAIN texts : texts[i] = U32(ReadEntry(df, i))
        /\ \A i \in DOMAIN extensions : extensions[i] = ReadEntry(df, i)

FilesInv == EntriesInv /\ RecordsInv /\ PhaseInv /\ CachesInv

LEMMA PlacesOfRecord ==
    ASSUME NEW d, NEW r, RecordKnown(d, r)
    PROVE  /\ r[1] = -1 \/ r[1] \in Places(d)
           /\ r[4] \in Places(d) /\ r[5] \in Places(d)
           /\ r[6] = -1 \/ r[6] \in Places(d)
  BY DEF RecordKnown, HasEntry

\* What is recalled at the place i is what was there, or else the entry.
LEMMA RecallIs ==
    ASSUME NEW cache, NEW i, NEW entry
    PROVE  LET c == Recall(cache, i, entry)
           IN  /\ \A j \in DOMAIN c : \/ j \in DOMAIN cache /\ c[j] = cache[j]
                                      \/ j = i /\ c[j] = entry
               /\ DOMAIN cache \subseteq DOMAIN c
               /\ ~ (i < 0) => i \in DOMAIN c
  BY DEF Recall, With

LEMMA FilesInvInit == FilesInit => FilesInv
  <1>. SUFFICES ASSUME FilesInit PROVE FilesInv
    OBVIOUS
  <1>1. /\ df.data = <<>> /\ df.index = <<>> /\ Len(df.index) = 0
        /\ df \in [data : Seq(Nat), index : Seq(Nat)]
    BY DEF FilesInit
  <1>2. EntriesWhole(df) /\ Filled(df)
    BY <1>1 DEF EntriesWhole, Filled
  <1>3. NamesKnown(df, filenames) /\ TextsKnown(df, strings)
    BY DEF FilesInit, NamesKnown, TextsKnown, EmptyMap
  <1>4. RecordsInv
    BY DEF FilesInit, RecordsInv
  <1>5. PhaseInv /\ CachesInv
    BY DEF FilesInit, PhaseInv, CachesInv
  <1>. QED  BY <1>2, <1>3, <1>4, <1>5 DEF FilesInv, EntriesInv

LEMMA FilesInvNext == FilesInv /\ [FilesNext]_fileVars => FilesInv'
  <1>. SUFFICES ASSUME FilesInv, [FilesNext]_fileVars PROVE FilesInv'
    OBVIOUS
  <1>. USE DEF FilesInv
  <1>0. /\ EntriesWhole(df) /\ Filled(df)
        /\ NamesKnown(df, filenames) /\ TextsKnown(df, strings)
    BY DEF EntriesInv
  <1>1. CASE UNCHANGED fileVars
    BY <1>1 DEF fileVars, putterVars, readerVars, EntriesInv, RecordsInv,
                PhaseInv, CachesInv
  <1>2. ASSUME NEW t \in Tokens, PutToken(t)
        PROVE  FilesInv'
    <2>1. /\ Encodable(t.kind) /\ Encodable(t.value)
          /\ df' = StoreExtension(t)
          /\ filenames' = StoreFilename(t).map /\ strings' = StoreValue(t).map
          /\ unwritten' = Append(unwritten, NewRecord(t))
          /\ phase = "writing" /\ phase' = "writing"
          /\ UNCHANGED <<records, n_tokens, i_token, got>>
      BY <1>2 DEF PutToken, PutEntries, NewRecord, readerVars
    <2>2. /\ Extends(df, df')
          /\ NamesKnown(df', filenames') /\ TextsKnown(df', strings')
          /\ NewRecord(t) \in Records
          /\ RecordKnown(df', NewRecord(t))
      BY <2>1, <1>0, TokenStored
    <2>3. EntriesInv'
      BY <2>2, <1>0 DEF EntriesInv, Extends
    <2>4. RecordsInv'
      <3>. DEFINE r == NewRecord(t)
      <3>1. /\ unwritten \in Seq(Records) /\ records \in Seq(Records)
            /\ \A k \in 1 .. Len(records) : RecordKnown(df, records[k])
            /\ \A k \in 1 .. Len(unwritten) : RecordKnown(df, unwritten[k])
        BY DEF RecordsInv
      <3>2. /\ unwritten' \in Seq(Records) /\ Len(unwritten') = Len(unwritten) + 1
            /\ \A k \in 1 .. Len(unwritten) : unwritten'[k] = unwritten[k]
            /\ unwritten'[Len(unwritten) + 1] = r
        <4>. HIDE DEF r
        <4>1. unwritten' = Append(unwritten, r) /\ r \in Records
          BY <2>1, <2>2 DEF r
        <4>. QED  BY <4>1, <3>1
      <3>3. /\ \A k \in 1 .. Len(records) : RecordKnown(df', records[k])
            /\ \A k \in 1 .. Len(unwritten) : RecordKnown(df', unwritten[k])
        BY <3>1, <2>2, KnownKept
      <3>4. ASSUME NEW k \in 1 .. Len(unwritten')
            PROVE  RecordKnown(df', unwritten'[k])
        <4>1. CASE k = Len(unwritten) + 1
          BY <4>1, <3>2, <2>2
        <4>2. CASE k \in 1 .. Len(unwritten)
          BY <4>2, <3>2, <3>3
        <4>3. Len(unwritten) \in Nat
          BY <3>1
        <4>. QED  BY <4>1, <4>2, <4>3, <3>2
      <3>. QED  BY <3>1, <3>2, <3>3, <3>4, <2>1 DEF RecordsInv
    <2>5. PhaseInv' /\ CachesInv'
      BY <2>1 DEF PhaseInv, CachesInv
    <2>. QED  BY <2>3, <2>4, <2>5
  <1>8. ASSUME NEW t \in Tokens, PutRecordFails(t)
        PROVE  FilesInv'
    <2>1. /\ Encodable(t.kind) /\ Encodable(t.value)
          /\ df' = StoreExtension(t)
          /\ filenames' = StoreFilename(t).map /\ strings' = StoreValue(t).map
          /\ phase = "writing" /\ phase' = "failed"
          /\ UNCHANGED <<records, unwritten>>
      BY <1>8 DEF PutRecordFails, PutEntries
    <2>2. Extends(df, df') /\ NamesKnown(df', filenames') /\ TextsKnown(df', strings')
      BY <2>1, <1>0, TokenStored
    <2>3. EntriesInv'
      BY <2>2, <1>0 DEF EntriesInv, Extends
    <2>4. RecordsInv'
      BY <2>1, <2>2, KnownKept DEF RecordsInv
    <2>5. PhaseInv' /\ CachesInv'
      BY <2>1 DEF PhaseInv, CachesInv
    <2>. QED  BY <2>3, <2>4, <2>5
  <1>3. ASSUME NEW t \in Tokens, PutTokenFails(t)
        PROVE  FilesInv'
    <2>1. /\ phase = "writing" /\ phase' = "failed"
          /\ filenames' = StoreFilename(t).map
          /\ UNCHANGED <<records, unwritten>>
      BY <1>3 DEF PutTokenFails
    <2>2. Extends(df, df') /\ NamesKnown(df', filenames') /\ TextsKnown(df', strings')
      <3>. DEFINE f == StoreFilename(t)
                  k == StoreKind(t)
      <3>1. Extends(df, f.df) /\ NamesKnown(f.df, f.map)
        BY <1>0, FilenameStored
      <3>2. CASE Encodable(t.kind)
        <4>1. Extends(f.df, k.df) /\ TextsKnown(k.df, k.map)
          BY <3>2, <1>0, KindStored
        <4>2. df' = k.df /\ filenames' = f.map /\ strings' = k.map
          BY <3>2, <1>3 DEF PutTokenFails
        <4>. HIDE DEF f, k
        <4>3. Extends(df, k.df) /\ NamesKnown(k.df, f.map)
          BY <3>1, <4>1, KnownKept, ExtendsTransitive
        <4>. QED  BY <4>1, <4>2, <4>3
      <3>3. CASE ~ Encodable(t.kind)
        <4>1. df' = f.df /\ filenames' = f.map /\ strings' = strings
          BY <3>3, <1>3 DEF PutTokenFails
        <4>. HIDE DEF f
        <4>2. TextsKnown(f.df, strings)
          BY <3>1, <1>0, KnownKept
        <4>. QED  BY <3>1, <4>1, <4>2
      <3>. QED  BY <3>2, <3>3
    <2>3. EntriesInv'
      BY <2>2, <1>0 DEF EntriesInv, Extends
    <2>4. RecordsInv'
      BY <2>1, <2>2, KnownKept DEF RecordsInv
    <2>5. PhaseInv' /\ CachesInv'
      BY <2>1 DEF PhaseInv, CachesInv
    <2>. QED  BY <2>3, <2>4, <2>5
  <1>4. CASE ClosePutter
    <2>1. /\ phase = "writing" /\ phase' = "written"
          /\ records' = records \o unwritten /\ unwritten' = <<>>
          /\ UNCHANGED <<df, filenames, strings, i_token>>
      BY <1>4 DEF ClosePutter, readerVars
    <2>2. records = <<>> /\ unwritten \in Seq(Records)
      BY <2>1 DEF PhaseInv, RecordsInv
    <2>3. records' = unwritten
      BY <2>1, <2>2
    <2>4. EntriesInv' /\ RecordsInv'
      BY <2>1, <2>2, <2>3 DEF EntriesInv, RecordsInv
    <2>5. PhaseInv' /\ CachesInv'
      BY <2>1 DEF PhaseInv, CachesInv
    <2>. QED  BY <2>4, <2>5
  <1>5. CASE OpenGetter
    <2>1. /\ phase = "written" /\ phase' = "reading"
          /\ n_tokens' = Len(records) /\ i_token' = 0
          /\ names' = EmptyMap /\ texts' = EmptyMap /\ extensions' = EmptyMap
          /\ UNCHANGED <<df, filenames, strings, records, unwritten>>
      BY <1>5 DEF OpenGetter, putterVars
    <2>2. EntriesInv' /\ RecordsInv'
      BY <2>1 DEF EntriesInv, RecordsInv
    <2>3. PhaseInv'
      BY <2>1 DEF PhaseInv
    <2>4. CachesInv'
      BY <2>1 DEF CachesInv, EmptyMap
    <2>. QED  BY <2>2, <2>3, <2>4
  <1>6. CASE GetToken
    <2>1. /\ phase = "reading" /\ phase' = "reading"
          /\ i_token < n_tokens /\ i_token' = NextToken
          /\ UNCHANGED <<df, filenames, strings, records, unwritten, n_tokens>>
      BY <1>6 DEF GetToken, putterVars
    <2>2. EntriesInv' /\ RecordsInv'
      BY <2>1 DEF EntriesInv, RecordsInv
    <2>3. PhaseInv'
      <3>1. n_tokens = Len(records) /\ i_token \in Nat /\ n_tokens \in Nat
        BY <2>1 DEF PhaseInv, RecordsInv
      <3>2. i_token' \in Nat /\ i_token' < n_tokens
        BY <2>1, <3>1 DEF NextToken
      <3>. QED  BY <2>1, <3>1, <3>2 DEF PhaseInv
    <2>4. CachesInv'
      <3>. DEFINE r == records[i_token + 1]
                  k == Recall(texts, r[4], U32(ReadEntry(df, r[4])))
      <3>1. /\ names' = Recall(names, r[1], UntilNul(ReadEntry(df, r[1])))
            /\ texts' = Recall(k, r[5], U32(ReadEntry(df, r[5])))
            /\ extensions' = Recall(extensions, r[6], ReadEntry(df, r[6]))
        BY <1>6 DEF GetToken
      <3>2. /\ \A i \in DOMAIN names : names[i] = UntilNul(ReadEntry(df, i))
            /\ \A i \in DOMAIN texts : texts[i] = U32(ReadEntry(df, i))
            /\ \A i \in DOMAIN extensions : extensions[i] = ReadEntry(df, i)
        BY <2>1 DEF CachesInv
      <3>. HIDE DEF r
      <3>3. \A i \in DOMAIN names' : names'[i] = UntilNul(ReadEntry(df, i))
        BY <3>1, <3>2, RecallIs
      <3>4. \A i \in DOMAIN k : k[i] = U32(ReadEntry(df, i))
        BY <3>2, RecallIs
      <3>5. \A i \in DOMAIN texts' : texts'[i] = U32(ReadEntry(df, i))
        <4>. HIDE DEF k
        <4>. QED  BY <3>1, <3>4, RecallIs
      <3>6. \A i \in DOMAIN extensions' : extensions'[i] = ReadEntry(df, i)
        BY <3>1, <3>2, RecallIs
      <3>. QED  BY <2>1, <3>3, <3>5, <3>6 DEF CachesInv
    <2>. QED  BY <2>2, <2>3, <2>4
  <1>7. CASE GetTokenExits \/ CloseGetter \/ RemoveFiles
    <2>1. /\ phase \notin {"writing", "failed", "written"}
          /\ phase' \in {"exited", "read", "removed"}
          /\ UNCHANGED <<df, filenames, strings, records, unwritten>>
      BY <1>7 DEF GetTokenExits, CloseGetter, RemoveFiles, putterVars
    <2>2. EntriesInv' /\ RecordsInv'
      BY <2>1 DEF EntriesInv, RecordsInv
    <2>3. PhaseInv' /\ CachesInv'
      BY <2>1 DEF PhaseInv, CachesInv
    <2>. QED  BY <2>2, <2>3
  <1>. QED  BY <1>1, <1>2, <1>3, <1>4, <1>5, <1>6, <1>7, <1>8 DEF FilesNext

LEMMA FilesInvAlways == FilesSpec => []FilesInv
  BY FilesInvInit, FilesInvNext, PTL DEF FilesSpec

\* The entries of the indexed data file lie one after the other and fill the
\* data file, whatever tokens are put and wherever putting one fails.
THEOREM EntriesFillDataFileAlways == FilesSpec => []EntriesFillDataFile
  <1>1. FilesInv => EntriesFillDataFile
    BY DEF FilesInv, EntriesInv, Filled, EntryEnd, EntriesFillDataFile
  <1>. QED  BY <1>1, FilesInvAlways, PTL

-------------------------------------------------------------------------------
\* The refinement: the tokens that are stored are what the records stand for.

THEOREM FilesRefineStoredTokens == FilesSpec => ImplementsStoredTokens
  <1>. DEFINE all == records \o unwritten
              stored == [k \in 1 .. Len(all) |-> TokenOf(all[k])]
  <1>1. FilesInit => Stored!StoredInit
    BY DEF FilesInit, Stored!StoredInit
  <1>2. FilesInv /\ [FilesNext]_fileVars => [Stored!StoredNext]_(Stored!storedVars)
    <2>. SUFFICES ASSUME FilesInv, [FilesNext]_fileVars
                  PROVE  [Stored!StoredNext]_(Stored!storedVars)
      OBVIOUS
    <2>0. /\ EntriesWhole(df)
          /\ NamesKnown(df, filenames) /\ TextsKnown(df, strings)
          /\ records \in Seq(Records) /\ unwritten \in Seq(Records)
          /\ \A k \in 1 .. Len(records) : RecordKnown(df, records[k])
          /\ \A k \in 1 .. Len(unwritten) : RecordKnown(df, unwritten[k])
      BY DEF FilesInv, EntriesInv, RecordsInv
    <2>1. CASE UNCHANGED fileVars
      <3>1. UNCHANGED Stored!storedVars
        BY <2>1 DEF fileVars, putterVars, readerVars, Stored!storedVars, TokenOf
      <3>. QED  BY <3>1
    <2>9. /\ phase = "writing" => all = unwritten
          /\ unwritten = <<>> => all = records
      <3>1. phase = "writing" => records = <<>>
        BY DEF FilesInv, PhaseInv
      <3>2. records = <<>> => all = unwritten
        BY <2>0
      <3>3. unwritten = <<>> => all = records
        BY <2>0
      <3>. QED  BY <3>1, <3>2, <3>3
    <2>10. ASSUME UNCHANGED <<df, records, unwritten>>
           PROVE  stored' = stored
      BY <2>10 DEF TokenOf
    <2>11. /\ \A r : TokenOf(r) = TokenIn(df, r)
           /\ \A r : TokenOf(r)' = TokenIn(df', r)
      BY DEF TokenOf, TokenIn
    <2>12. ASSUME Extends(df, df')
           PROVE  \A k \in 1 .. Len(unwritten) :
                     TokenIn(df', unwritten[k]) = TokenIn(df, unwritten[k])
      BY <2>0, <2>12, KnownKept
    <2>2. ASSUME NEW t \in Tokens, PutToken(t)
          PROVE  Stored!Put(t)
      <3>. DEFINE r == NewRecord(t)
      <3>1. /\ Encodable(t.kind) /\ Encodable(t.value)
            /\ df' = StoreExtension(t)
            /\ unwritten' = Append(unwritten, r)
            /\ phase = "writing" /\ phase' = "writing"
            /\ UNCHANGED <<records, i_token, got>>
        BY <2>2 DEF PutToken, PutEntries, NewRecord, readerVars
      <3>2. /\ Extends(df, df') /\ r \in Records
            /\ TokenIn(df', r) = t
        BY <3>1, <2>0, TokenStored
      <3>. HIDE DEF r
      <3>3. records = <<>> /\ all = unwritten
        BY <3>1, <2>9 DEF FilesInv, PhaseInv
      <3>4. all' = Append(unwritten, r)
        BY <3>1, <3>2, <3>3, <2>0
      <3>5. stored = [k \in 1 .. Len(unwritten) |-> TokenIn(df, unwritten[k])]
        BY <3>3, <2>11
      <3>6. stored' = [k \in 1 .. Len(unwritten) + 1 |-> TokenIn(df', Append(unwritten, r)[k])]
        <4>1. Len(all') = Len(unwritten) + 1
          BY <3>2, <3>4, <2>0
        <4>. QED  BY <4>1, <3>4, <2>11
      <3>7. /\ \A k \in 1 .. Len(unwritten) :
                   TokenIn(df', Append(unwritten, r)[k]) = TokenIn(df, unwritten[k])
            /\ TokenIn(df', Append(unwritten, r)[Len(unwritten) + 1]) = t
        BY <3>2, <2>0, <2>12
      <3>8. stored' = Append(stored, t)
        <4>1. Len(unwritten) \in Nat
          BY <2>0
        <4>. HIDE DEF all
        <4>. QED  BY <4>1, <3>5, <3>6, <3>7
      <3>. QED  BY <3>1, <3>8 DEF Stored!Put
    <2>13. ASSUME NEW t \in Tokens, PutRecordFails(t)
           PROVE  Stored!PutFails
      <3>1. /\ Encodable(t.kind) /\ Encodable(t.value)
            /\ df' = StoreExtension(t)
            /\ phase = "writing" /\ phase' = "failed"
            /\ UNCHANGED <<records, unwritten, i_token, got>>
        BY <2>13 DEF PutRecordFails, PutEntries, readerVars
      <3>2. Extends(df, df')
        BY <3>1, <2>0, TokenStored
      <3>3. all = unwritten /\ all' = unwritten
        BY <3>1, <2>9
      <3>4. stored' = stored
        BY <3>2, <3>3, <2>11, <2>12
      <3>. QED  BY <3>1, <3>4 DEF Stored!PutFails
    <2>3. ASSUME NEW t \in Tokens, PutTokenFails(t)
          PROVE  Stored!PutFails
      <3>1. /\ phase = "writing" /\ phase' = "failed"
            /\ UNCHANGED <<records, unwritten, i_token, got>>
        BY <2>3 DEF PutTokenFails, readerVars
      <3>2. Extends(df, df')
        <4>1. Extends(df, StoreFilename(t).df)
          BY <2>0, FilenameStored
        <4>2. CASE Encodable(t.kind)
          BY <4>1, <4>2, <2>0, <2>3, KindStored, ExtendsTransitive DEF PutTokenFails
        <4>3. CASE ~ Encodable(t.kind)
          BY <4>1, <4>3, <2>3 DEF PutTokenFails
        <4>. QED  BY <4>2, <4>3
      <3>3. all = unwritten /\ all' = unwritten
        BY <3>1, <2>9
      <3>4. stored' = stored
        BY <3>2, <3>3, <2>11, <2>12
      <3>. QED  BY <3>1, <3>4 DEF Stored!PutFails
    <2>4. CASE ClosePutter
      <3>1. /\ phase = "writing" /\ phase' = "written"
            /\ records' = all /\ unwritten' = <<>>
            /\ UNCHANGED <<df, i_token, got>>
        BY <2>4 DEF ClosePutter, readerVars
      <3>2. all' = all
        BY <3>1, <2>0, <2>9
      <3>3. stored' = stored
        BY <3>1, <3>2 DEF TokenOf
      <3>4. Stored!GoOn
        BY <3>1, <3>3 DEF Stored!GoOn
      <3>. QED  BY <3>4 DEF Stored!StoredNext
    <2>5. CASE OpenGetter
      <3>1. /\ phase = "written" /\ phase' = "reading"
            /\ i_token = 0 /\ i_token' = 0
            /\ UNCHANGED <<df, records, unwritten, got>>
        BY <2>5 DEF OpenGetter, putterVars, FilesInv, PhaseInv
      <3>2. Stored!GoOn
        BY <3>1, <2>10 DEF Stored!GoOn
      <3>. QED  BY <3>2 DEF Stored!StoredNext
    <2>6. CASE GetToken
      <3>. DEFINE r == records[i_token + 1]
                  k == Recall(texts, r[4], U32(ReadEntry(df, r[4])))
      <3>1. /\ phase = "reading" /\ phase' = "reading"
            /\ i_token < n_tokens /\ i_token' = NextToken
            /\ names' = Recall(names, r[1], UntilNul(ReadEntry(df, r[1])))
            /\ texts' = Recall(k, r[5], U32(ReadEntry(df, r[5])))
            /\ extensions' = Recall(extensions, r[6], ReadEntry(df, r[6]))
            /\ got' = [filename |-> IF r[1] < 0 THEN None ELSE names'[r[1]],
                       place |-> <<r[2], r[3]>>,
                       kind |-> texts'[r[4]],
                       value |-> texts'[r[5]],
                       extension |-> IF r[6] < 0 THEN None ELSE extensions'[r[6]]]
            /\ UNCHANGED <<df, records, unwritten>>
        BY <2>6 DEF GetToken, putterVars
      <3>2. /\ n_tokens = Len(records) /\ i_token \in Nat /\ n_tokens \in Nat
            /\ unwritten = <<>> /\ all = records
        BY <3>1, <2>0, <2>9 DEF FilesInv, PhaseInv
      <3>3. /\ \A i \in DOMAIN names' : names'[i] = UntilNul(ReadEntry(df, i))
            /\ \A i \in DOMAIN texts' : texts'[i] = U32(ReadEntry(df, i))
            /\ \A i \in DOMAIN extensions' : extensions'[i] = ReadEntry(df, i)
        BY <3>1, FilesInvNext DEF FilesInv, CachesInv
      <3>4. i_token + 1 \in 1 .. Len(records) /\ RecordKnown(df, r)
        BY <3>1, <3>2, <2>0
      <3>. HIDE DEF r
      <3>5. /\ r[1] = -1 \/ r[1] \in Places(df)
            /\ r[4] \in Places(df) /\ r[5] \in Places(df)
            /\ r[6] = -1 \/ r[6] \in Places(df)
        BY <3>4, PlacesOfRecord
      <3>6. /\ ~ (r[1] < 0) => r[1] \in DOMAIN names'
            /\ r[4] \in DOMAIN texts' /\ r[5] \in DOMAIN texts'
            /\ ~ (r[6] < 0) => r[6] \in DOMAIN extensions'
        <4>1. ~ (r[4] < 0) /\ ~ (r[5] < 0)
          BY <3>5 DEF Places
        <4>2. r[4] \in DOMAIN k
          BY <4>1, RecallIs
        <4>. HIDE DEF k
        <4>. QED  BY <4>1, <4>2, <3>1, RecallIs
      <3>7. got' = TokenIn(df, r)
        BY <3>1, <3>3, <3>6 DEF TokenIn
      <3>8. stored[i_token + 1] = TokenIn(df, r) /\ Len(stored) = n_tokens /\ stored # <<>>
        <4>1. stored = [j \in 1 .. Len(records) |-> TokenIn(df, records[j])]
          BY <3>2, <2>11
        <4>. HIDE DEF stored
        <4>2. stored[i_token + 1] = TokenIn(df, r)
          BY <4>1, <3>4 DEF r
        <4>3. Len(stored) = n_tokens
          BY <4>1, <3>2
        <4>. QED  BY <4>2, <4>3, <3>1, <3>2
      <3>9. i_token' + 1 = IF i_token + 1 = Len(stored) THEN i_token + 1 ELSE i_token + 1 + 1
        <4>. HIDE DEF stored
        <4>. QED  BY <3>1, <3>2, <3>8 DEF NextToken
      <3>10. stored' = stored
        BY <3>1, <2>10
      <3>11. Stored!Get
        BY <3>1, <3>7, <3>8, <3>9, <3>10 DEF Stored!Get
      <3>. QED  BY <3>11 DEF Stored!StoredNext
    <2>7. CASE GetTokenExits
      <3>1. /\ phase = "reading" /\ phase' = "exited" /\ i_token >= n_tokens
            /\ UNCHANGED <<df, records, unwritten, i_token, got>>
        BY <2>7 DEF GetTokenExits, putterVars, readerVars
      <3>2. /\ n_tokens = Len(records) /\ Len(records) \in Nat /\ i_token \in Nat
            /\ i_token = 0 \/ i_token < n_tokens
            /\ all = records
        BY <3>1, <2>0, <2>9 DEF FilesInv, PhaseInv
      <3>3. Len(records) = 0
        BY <3>1, <3>2
      <3>4. stored = <<>>
        BY <3>2, <3>3
      <3>5. Stored!Exit
        BY <3>1, <3>4, <2>10 DEF Stored!Exit
      <3>. QED  BY <3>5 DEF Stored!StoredNext
    <2>8. CASE CloseGetter \/ RemoveFiles
      <3>1. /\ \/ phase = "reading" /\ phase' = "read"
               \/ phase = "read" /\ phase' = "removed"
            /\ UNCHANGED <<df, records, unwritten, i_token, got>>
        BY <2>8 DEF CloseGetter, RemoveFiles, putterVars, readerVars
      <3>2. Stored!GoOn
        BY <3>1, <2>10 DEF Stored!GoOn
      <3>. QED  BY <3>2 DEF Stored!StoredNext
    <2>. QED  BY <2>1, <2>2, <2>3, <2>4, <2>5, <2>6, <2>7, <2>8, <2>13
              DEF FilesNext, Stored!StoredNext
  <1>. QED  BY <1>1, <1>2, FilesInvAlways, PTL
            DEF FilesSpec, ImplementsStoredTokens, Stored!StoredSpec


-------------------------------------------------------------------------------
\* pratt_parse over any tables.

ParsedKinds == TokenKinds \cup {"EOF"}

Spans == [operator : Nat, from : Nat, to : Nat]

ParseCalls ==
    [operator : Nat, min_power : Int, lhs : Spans, at : {"null denotation", "peek"}]

ParseTyped ==
    /\ parsed \in Seq(ParsedKinds)
    /\ consumed \in Nat /\ (Len(parsed) = consumed \/ Len(parsed) = consumed + 1)
    /\ calls \in Seq(ParseCalls) /\ calls # <<>>
    /\ nodes \subseteq Spans
    /\ parse_status \in {"running", "error", "returned"}

\* Where an operand is due in a text.
DueOn(s) ==
    LET due[p \in 1 .. Len(s) + 1] ==
            \/ p = 1
            \/ IF due[p - 1] THEN s[p - 1] \in DOMAIN NudPower
                             ELSE s[p - 1] \in DOMAIN LedPower
    IN  due

DueAt(s, p) == DueOn(s)[p]

\* The operators, those with an operand to their right, and what they hold it with.
HolderAt(s, p) == s[p] \in DOMAIN (IF DueAt(s, p) THEN NudPower ELSE LedPower)
HoldAt(s, p) == IF DueAt(s, p) THEN NudPower[s[p]] ELSE LedPower[s[p]]
OperatorAt(s, p) == HolderAt(s, p) \/ ~ DueAt(s, p)

\* The power of the token at a place, or of the end.
PowerOn(s, p) == IF p \in 1 .. Len(s) THEN LbpGet(s[p]) ELSE Minimum

TopOf(C) == C[Len(C)]

\* The operators whose handlers have called pratt_parse, which has not returned.
Open(C) == {C[k].operator : k \in 1 .. Len(C)}

\* The operator at place q reaches over place p, as far as is known.
Over(C, N, q, p) == q \in Open(C) \/ \E n \in N : n.operator = q /\ p <= n.to

\* The operand of q ends before place r, if it does not end earlier.
Closes(s, C, N, q, r) ==
    /\ ~ DueAt(s, r) /\ ~ (HoldAt(s, q) < PowerOn(s, r))
    /\ \A h \in q + 1 .. r - 1 : HolderAt(s, h) => ~ Over(C, N, h, r)

\* The place q is that of the last operator that reaches over p, or 0.
Nearest(s, C, N, p, q) ==
    /\ q \in 0 .. p - 1
    /\ q # 0 => HolderAt(s, q) /\ Over(C, N, q, p)
    /\ \A h \in q + 1 .. p - 1 : HolderAt(s, h) => ~ Over(C, N, h, p)

\* The call g is made by f.
Links(s, f, g) ==
    /\ f.operator < g.operator /\ HolderAt(s, g.operator)
    /\ g.min_power = HoldAt(s, g.operator)
    /\ DueAt(s, g.operator) => f.at = "null denotation" /\ g.operator = f.operator + 1
    /\ ~ DueAt(s, g.operator) => f.at = "peek" /\ f.lhs.from = f.operator + 1

Linked(s, C, N) ==
    /\ C[1].operator = 0 /\ C[1].min_power = Minimum
    /\ \A k \in 1 .. Len(C) - 1 :
          /\ Links(s, C[k], C[k + 1])
          /\ ~ DueAt(s, C[k + 1].operator) => Nearest(s, C, N, C[k + 1].operator, C[k].operator)

\* The latest call has its operand up to place T, or waits for it there.
Reaches(s, g, T) ==
    /\ g.operator <= T
    /\ g.at = "null denotation" => g.operator = T /\ DueAt(s, T + 1)
    /\ g.at = "peek" => g.lhs.from = g.operator + 1 /\ g.lhs.to = T /\ ~ DueAt(s, T + 1)

\* The end of the operand of n was seen.
Seen(s, r) == r <= Len(s) \/ \E p \in 1 .. Len(s) : s[p] = "EOF"

NodeFits(s, C, N, T, n) ==
    /\ n.operator \in 1 .. T /\ OperatorAt(s, n.operator) /\ n.operator \notin Open(C)
    /\ n.operator <= n.to /\ n.to <= T
    /\ HolderAt(s, n.operator) =>
          /\ Closes(s, C, N, n.operator, n.to + 1) /\ Seen(s, n.to + 1)
          /\ \A r \in n.operator + 1 .. n.to : ~ Closes(s, C, N, n.operator, r)
    /\ ~ HolderAt(s, n.operator) => n.to = n.operator
    /\ DueAt(s, n.operator) => n.from = n.operator
    /\ ~ DueAt(s, n.operator) => \E q \in Nat : n.from = q + 1 /\ Nearest(s, C, N, n.operator, q)

NodesFit(s, C, N, T) ==
    /\ \A n \in N : NodeFits(s, C, N, T, n)
    /\ \A m, n \in N : m.operator = n.operator => m = n
    /\ \A p \in 1 .. T : OperatorAt(s, p) => p \in Open(C) \/ \E n \in N : n.operator = p
    /\ \A p \in 1 .. T : ~ DueAt(s, p) => Minimum < PowerOn(s, p)

\* No operand of an operator that is open ends up to place T.
OpenFit(s, C, N, T) ==
    \A q \in Open(C) : \A r \in q + 1 .. T : q # 0 => ~ Closes(s, C, N, q, r)

Parsing(s, C, N, T) ==
    /\ Linked(s, C, N) /\ Reaches(s, TopOf(C), T)
    /\ NodesFit(s, C, N, T) /\ OpenFit(s, C, N, T)

\* The tokens that have been taken are those consumed, and the one that ends
\* the input where it is an operand.
TakenFits(s, c, T) ==
    /\ T = c \/ (T = c + 1 /\ T = Len(s) /\ s[T] = "EOF")
    /\ \A p \in 1 .. c : s[p] # "EOF"

ParseFits(s, c, C, N) == \E T \in Nat : TakenFits(s, c, T) /\ Parsing(s, C, N, T)

ParseInv ==
    /\ ParseTyped
    /\ parse_status # "error" => ParseFits(parsed, consumed, calls, nodes)
    /\ parse_status = "returned" =>
          /\ TopOf(calls).operator = 0 /\ TopOf(calls).at = "peek"
          /\ consumed < Len(parsed) /\ LbpGet(parsed[consumed + 1]) = Minimum

-------------------------------------------------------------------------------
\* Where an operand is due.

After(p, due, kind) ==
    \/ p = 1
    \/ IF due THEN kind \in DOMAIN NudPower ELSE kind \in DOMAIN LedPower

DueIs(d, s) == \A p \in 1 .. Len(s) + 1 : d[p] = After(p, d[p - 1], s[p - 1])


LEMMA DueExists ==
    ASSUME NEW s \in Seq(ParsedKinds)
    PROVE  \E d \in [1 .. Len(s) + 1 -> BOOLEAN] : DueIs(d, s)
  <1>. DEFINE step == [x \in BOOLEAN \X ParsedKinds |-> After(2, x[1], x[2])]
  <1>1. \A b \in BOOLEAN, k \in ParsedKinds : Stepped(step, b, k) = After(2, b, k)
    BY DEF Stepped
  <1>. HIDE DEF step
  <1>2. \A p, b, k : After(p, b, k) \in BOOLEAN
    BY DEF After
  <1>3. Takes(step, BOOLEAN, ParsedKinds)
    BY <1>1, <1>2 DEF Takes
  <1>4. PICK j \in [0 .. Len(s) -> BOOLEAN] : Folds(j, step, TRUE, s)
    BY <1>3, FoldExists
  <1>5. PICK n \in Nat : n = Len(s) /\ \A p \in 1 .. n : s[p] \in ParsedKinds
    BY LenProperties, ElementOfSeq
  <1>6. PICK d : d = [p \in 1 .. n + 1 |-> j[p - 1]]
    OBVIOUS
  <1>7. \A p \in 1 .. n + 1 : d[p] = j[p - 1] /\ p - 1 \in 0 .. n
    BY <1>6
  <1>8. d \in [1 .. n + 1 -> BOOLEAN]
    BY <1>4, <1>5, <1>6, <1>7
  <1>9. ASSUME NEW p \in 1 .. n + 1 PROVE d[p] = After(p, d[p - 1], s[p - 1])
    <2>1. CASE p = 1
      <3>1. 1 \in 1 .. n + 1 /\ 1 - 1 = 0
        OBVIOUS
      <3>2. d[1] = TRUE
        BY <1>4, <1>7, <3>1 DEF Folds
      <3>3. After(1, d[1 - 1], s[1 - 1]) = TRUE
        BY Zenon DEF After
      <3>. QED  BY <2>1, <3>2, <3>3
    <2>2. CASE p # 1
      <3>1. p - 1 \in 1 .. n /\ p - 1 \in 1 .. n + 1 /\ (p - 1) - 1 \in 0 .. n
        BY <2>2
      <3>2. d[p] = j[p - 1] /\ d[p - 1] = j[(p - 1) - 1]
        BY <1>7, <3>1
      <3>3. j[p - 1] = Stepped(step, j[(p - 1) - 1], s[p - 1])
        BY <1>4, <1>5, <3>1 DEF Folds
      <3>4. j[(p - 1) - 1] \in BOOLEAN /\ s[p - 1] \in ParsedKinds
        BY <1>4, <1>5, <3>1
      <3>5. d[p] = After(2, d[p - 1], s[p - 1])
        BY <1>1, <3>2, <3>3, <3>4
      <3>6. \A a, k : After(p, a, k) = After(2, a, k)
        BY <2>2 DEF After
      <3>. QED  BY <3>5, <3>6
    <2>. QED  BY <2>1, <2>2
  <1>. QED  BY <1>5, <1>8, <1>9 DEF DueIs

LEMMA DueOnFacts ==
    ASSUME NEW s \in Seq(ParsedKinds)
    PROVE  DueIs(DueOn(s), s)
  <1>0. PICK n \in Nat : n = Len(s)
    BY LenProperties
  <1>1. PICK d \in [1 .. n + 1 -> BOOLEAN] : DueIs(d, s)
    BY <1>0, DueExists
  <1>. DEFINE Is(h) == h = [p \in 1 .. Len(s) + 1 |->
                              \/ p = 1
                              \/ IF h[p - 1] THEN s[p - 1] \in DOMAIN NudPower
                                             ELSE s[p - 1] \in DOMAIN LedPower]
  <1>2. d = [p \in 1 .. n + 1 |-> After(p, d[p - 1], s[p - 1])]
    BY <1>0, <1>1 DEF DueIs
  <1>3. Is(d)
    BY <1>0, <1>2 DEF After
  <1>4. Is(DueOn(s))
    BY <1>3 DEF DueOn
  <1>5. PICK h : h = DueOn(s)
    OBVIOUS
  <1>6. h = [p \in 1 .. n + 1 |-> After(p, h[p - 1], s[p - 1])]
    BY <1>0, <1>4, <1>5 DEF After
  <1>7. DueIs(h, s)
    BY <1>0, <1>6 DEF DueIs
  <1>. QED  BY <1>5, <1>7

LEMMA DueFacts ==
    ASSUME NEW s \in Seq(ParsedKinds)
    PROVE  /\ DueAt(s, 1)
           /\ \A p \in 1 .. Len(s) :
                 /\ DueAt(s, p) => (DueAt(s, p + 1) <=> s[p] \in DOMAIN NudPower)
                 /\ ~ DueAt(s, p) => (DueAt(s, p + 1) <=> s[p] \in DOMAIN LedPower)
  <1>1. PICK h : h = DueOn(s) /\ DueIs(h, s)
    BY DueOnFacts
  <1>2. PICK n \in Nat : n = Len(s)
    BY LenProperties
  <1>3. h[1]
    <2>1. 1 \in 1 .. n + 1
      OBVIOUS
    <2>2. h[1] = After(1, h[1 - 1], s[1 - 1])
      BY <1>1, <1>2, <2>1 DEF DueIs
    <2>. QED  BY <2>2 DEF After
  <1>4. ASSUME NEW p \in 1 .. n
        PROVE  /\ h[p] => (h[p + 1] <=> s[p] \in DOMAIN NudPower)
               /\ ~ h[p] => (h[p + 1] <=> s[p] \in DOMAIN LedPower)
    <2>1. p + 1 \in 1 .. n + 1 /\ p + 1 # 1 /\ (p + 1) - 1 = p
      OBVIOUS
    <2>2. h[p + 1] = After(p + 1, h[p], s[p])
      <3>1. h[p + 1] = After(p + 1, h[(p + 1) - 1], s[(p + 1) - 1])
        BY <1>1, <1>2, <2>1 DEF DueIs
      <3>. QED  BY <2>1, <3>1
    <2>. QED  BY <2>1, <2>2 DEF After
  <1>. QED  BY <1>1, <1>2, <1>3, <1>4 DEF DueAt

\* It depends on what is before.
LEMMA DueSame ==
    ASSUME NEW s \in Seq(ParsedKinds), NEW t \in Seq(ParsedKinds),
           NEW n \in Nat, n <= Len(s), n <= Len(t), \A p \in 1 .. n : s[p] = t[p]
    PROVE  \A p \in 1 .. n + 1 : DueAt(s, p) <=> DueAt(t, p)
  <1>. DEFINE S == {p \in 0 .. n : DueAt(s, p + 1) <=> DueAt(t, p + 1)}
  <1>1. 0 \in S
    <2>1. DueAt(s, 1) /\ DueAt(t, 1)
      BY DueFacts
    <2>2. 0 + 1 = 1 /\ 0 \in 0 .. n
      OBVIOUS
    <2>. QED  BY <2>1, <2>2
  <1>2. ASSUME NEW p \in 0 .. n - 1, p \in S PROVE p + 1 \in S
    <2>1. PICK m \in 1 .. n : m = p + 1 /\ m \in 1 .. Len(s) /\ m \in 1 .. Len(t)
      BY LenProperties
    <2>2. /\ DueAt(s, m) => (DueAt(s, m + 1) <=> s[m] \in DOMAIN NudPower)
          /\ ~ DueAt(s, m) => (DueAt(s, m + 1) <=> s[m] \in DOMAIN LedPower)
      BY <2>1, DueFacts
    <2>3. /\ DueAt(t, m) => (DueAt(t, m + 1) <=> t[m] \in DOMAIN NudPower)
          /\ ~ DueAt(t, m) => (DueAt(t, m + 1) <=> t[m] \in DOMAIN LedPower)
      BY <2>1, DueFacts
    <2>4. DueAt(s, m) <=> DueAt(t, m)
      BY <1>2, <2>1
    <2>5. s[m] = t[m]
      BY <2>1
    <2>6. DueAt(s, m + 1) <=> DueAt(t, m + 1)
      BY <2>2, <2>3, <2>4, <2>5
    <2>. QED  BY <2>1, <2>6
  <1>. HIDE DEF S
  <1>3. \A p \in 0 .. n : p \in S
    BY <1>1, <1>2, InductionUpTo
  <1>4. ASSUME NEW p \in 1 .. n + 1 PROVE DueAt(s, p) <=> DueAt(t, p)
    <2>1. PICK m \in 0 .. n : m + 1 = p
      <3>1. p - 1 \in 0 .. n /\ (p - 1) + 1 = p
        OBVIOUS
      <3>. QED  BY <3>1
    <2>. QED  BY <1>3, <2>1 DEF S
  <1>. QED  BY <1>4

-------------------------------------------------------------------------------
\* What is known of the places up to T stays when the text is read further, and
\* when the calls and the nodes change.

TextKept(s, t, T) ==
    /\ \A p \in 1 .. T + 1 : DueAt(s, p) <=> DueAt(t, p)
    /\ \A p \in 1 .. T : /\ HolderAt(s, p) <=> HolderAt(t, p)
                         /\ HoldAt(s, p) = HoldAt(t, p)
                         /\ PowerOn(s, p) = PowerOn(t, p)
    /\ Seen(s, T + 1) => PowerOn(s, T + 1) = PowerOn(t, T + 1)
    /\ \A r \in Nat : Seen(s, r) => Seen(t, r)

\* So it is known still whether operators reach over the places up to T.
OverKept(C, N, D, M, T) ==
    \A q \in 1 .. T :
        /\ \A p \in 1 .. T : Over(C, N, q, p) <=> Over(D, M, q, p)
        /\ Over(D, M, q, T + 1) => Over(C, N, q, T + 1)

LEMMA TextKeptSame == ASSUME NEW s, NEW T PROVE TextKept(s, s, T)
  BY Zenon DEF TextKept

LEMMA ClosesKept ==
    ASSUME NEW s, NEW t, NEW C, NEW N, NEW D, NEW M, NEW T \in Nat,
           TextKept(s, t, T), OverKept(C, N, D, M, T),
           NEW q \in 1 .. T, NEW r \in 1 .. T
    PROVE  Closes(s, C, N, q, r) <=> Closes(t, D, M, q, r)
  <1>1. \A h \in q + 1 .. r - 1 : h \in 1 .. T
    OBVIOUS
  <1>2. r \in 1 .. T + 1
    OBVIOUS
  <1>3. DueAt(s, r) <=> DueAt(t, r)
    BY <1>2 DEF TextKept
  <1>4. HoldAt(s, q) = HoldAt(t, q) /\ PowerOn(s, r) = PowerOn(t, r)
    BY DEF TextKept
  <1>5. \A h \in q + 1 .. r - 1 :
           (HolderAt(s, h) => ~ Over(C, N, h, r)) <=> (HolderAt(t, h) => ~ Over(D, M, h, r))
    BY <1>1 DEF TextKept, OverKept
  <1>. QED  BY <1>3, <1>4, <1>5 DEF Closes

LEMMA ClosesStill ==
    ASSUME NEW s, NEW t, NEW C, NEW N, NEW D, NEW M, NEW T \in Nat,
           TextKept(s, t, T), OverKept(C, N, D, M, T), Seen(s, T + 1),
           NEW q \in 1 .. T, Closes(s, C, N, q, T + 1)
    PROVE  Closes(t, D, M, q, T + 1)
  <1>1. \A h \in q + 1 .. (T + 1) - 1 : h \in 1 .. T
    OBVIOUS
  <1>2. T + 1 \in 1 .. T + 1
    OBVIOUS
  <1>3. DueAt(s, T + 1) <=> DueAt(t, T + 1)
    BY <1>2 DEF TextKept
  <1>4. HoldAt(s, q) = HoldAt(t, q) /\ PowerOn(s, T + 1) = PowerOn(t, T + 1)
    BY DEF TextKept
  <1>5. \A h \in q + 1 .. (T + 1) - 1 :
           (HolderAt(s, h) => ~ Over(C, N, h, T + 1)) => (HolderAt(t, h) => ~ Over(D, M, h, T + 1))
    BY <1>1 DEF TextKept, OverKept
  <1>. QED  BY <1>3, <1>4, <1>5 DEF Closes

LEMMA NearestKept ==
    ASSUME NEW s, NEW t, NEW C, NEW N, NEW D, NEW M, NEW T \in Nat,
           TextKept(s, t, T), OverKept(C, N, D, M, T),
           NEW p \in 1 .. T, NEW q, Nearest(s, C, N, p, q)
    PROVE  Nearest(t, D, M, p, q)
  <1>1. q \in 0 .. p - 1
    BY DEF Nearest
  <1>2. q # 0 => HolderAt(t, q) /\ Over(D, M, q, p)
    <2>1. q # 0 => q \in 1 .. T
      BY <1>1
    <2>2. q # 0 => HolderAt(s, q) /\ Over(C, N, q, p)
      BY DEF Nearest
    <2>. QED  BY <2>1, <2>2 DEF TextKept, OverKept
  <1>3. ASSUME NEW h \in q + 1 .. p - 1, HolderAt(t, h) PROVE ~ Over(D, M, h, p)
    <2>1. h \in 1 .. T
      BY <1>1
    <2>2. HolderAt(s, h)
      BY <1>3, <2>1 DEF TextKept
    <2>3. ~ Over(C, N, h, p)
      BY <2>2 DEF Nearest
    <2>. QED  BY <2>1, <2>3 DEF OverKept
  <1>. QED  BY <1>1, <1>2, <1>3 DEF Nearest

LEMMA NodeKept ==
    ASSUME NEW s, NEW t, NEW C, NEW N, NEW D, NEW M, NEW T \in Nat, NEW U \in Nat, T <= U,
           TextKept(s, t, T), OverKept(C, N, D, M, T),
           NEW n \in Spans, NodeFits(s, C, N, T, n), n.operator \notin Open(D)
    PROVE  NodeFits(t, D, M, U, n)
  <1>1. PICK p \in 1 .. T, e \in Nat : p = n.operator /\ e = n.to /\ p <= e /\ e <= T
    BY DEF NodeFits, Spans
  <1>2. p \in 1 .. U /\ p <= e /\ e <= U
    BY <1>1
  <1>3. /\ HolderAt(s, p) <=> HolderAt(t, p)
        /\ DueAt(s, p) <=> DueAt(t, p)
    <2>1. p \in 1 .. T + 1
      BY <1>1
    <2>. QED  BY <1>1, <2>1 DEF TextKept
  <1>4. OperatorAt(t, p)
    BY <1>1, <1>3 DEF NodeFits, OperatorAt
  <1>5. ASSUME HolderAt(t, p)
        PROVE  /\ Closes(t, D, M, p, e + 1) /\ Seen(t, e + 1)
               /\ \A r \in p + 1 .. e : ~ Closes(t, D, M, p, r)
    <2>1. /\ Closes(s, C, N, p, e + 1) /\ Seen(s, e + 1)
          /\ \A r \in p + 1 .. e : ~ Closes(s, C, N, p, r)
      BY <1>1, <1>3, <1>5 DEF NodeFits
    <2>2. Seen(t, e + 1)
      BY <1>1, <2>1 DEF TextKept
    <2>3. \A r \in p + 1 .. e : r \in 1 .. T
      BY <1>1
    <2>4. \A r \in p + 1 .. e : ~ Closes(t, D, M, p, r)
      BY <1>1, <2>1, <2>3, ClosesKept
    <2>5. CASE e = T
      BY <1>1, <2>1, <2>2, <2>4, <2>5, ClosesStill
    <2>6. CASE e # T
      <3>1. e + 1 \in 1 .. T
        BY <1>1, <2>6
      <3>2. Closes(t, D, M, p, e + 1)
        BY <1>1, <2>1, <3>1, ClosesKept
      <3>. QED  BY <2>2, <2>4, <3>2
    <2>. QED  BY <2>5, <2>6
  <1>6. ~ HolderAt(t, p) => e = p
    BY <1>1, <1>3 DEF NodeFits
  <1>7. DueAt(t, p) => n.from = p
    BY <1>1, <1>3 DEF NodeFits
  <1>8. ASSUME ~ DueAt(t, p) PROVE \E q \in Nat : n.from = q + 1 /\ Nearest(t, D, M, p, q)
    <2>1. PICK q \in Nat : n.from = q + 1 /\ Nearest(s, C, N, p, q)
      BY <1>1, <1>3, <1>8 DEF NodeFits
    <2>2. Nearest(t, D, M, p, q)
      BY <1>1, <2>1, NearestKept
    <2>. QED  BY <2>1, <2>2
  <1>. QED  BY <1>1, <1>2, <1>4, <1>5, <1>6, <1>7, <1>8 DEF NodeFits

\* The calls in D are those of C, but for those that have returned and for
\* what the latest has parsed.
CallsStay(C, D) ==
    /\ Len(D) <= Len(C) /\ \A k \in 1 .. Len(D) - 1 : D[k] = C[k]
    /\ D[Len(D)].operator = C[Len(D)].operator
    /\ D[Len(D)].min_power = C[Len(D)].min_power

UpTo(C, T) == \A k \in 1 .. Len(C) : C[k].operator <= T

LEMMA LinkedKept ==
    ASSUME NEW s, NEW t, NEW N, NEW M, NEW T \in Nat,
           NEW C \in Seq(ParseCalls), NEW D \in Seq(ParseCalls), C # <<>>, D # <<>>,
           TextKept(s, t, T), OverKept(C, N, D, M, T),
           Linked(s, C, N), UpTo(C, T), CallsStay(C, D)
    PROVE  Linked(t, D, M)
  <1>1. PICK c \in Nat \ {0}, d \in Nat \ {0} : c = Len(C) /\ d = Len(D)
    BY EmptySeq, LenProperties
  <1>0. /\ Len(D) <= Len(C) /\ \A k \in 1 .. Len(D) - 1 : D[k] = C[k]
        /\ D[Len(D)].operator = C[Len(D)].operator
        /\ D[Len(D)].min_power = C[Len(D)].min_power
        /\ \A k \in 1 .. Len(C) : C[k].operator <= T
    BY DEF CallsStay, UpTo
  <1>2. d <= c /\ \A k \in 1 .. d : k \in 1 .. c
    BY <1>0, <1>1
  <1>3. \A k \in 1 .. d : D[k].operator = C[k].operator /\ D[k].min_power = C[k].min_power
    <2>1. \A k \in 1 .. d : k = d \/ k \in 1 .. d - 1
      BY <1>1
    <2>. QED  BY <1>0, <1>1, <2>1
  <1>4. D[1].operator = 0 /\ D[1].min_power = Minimum
    <2>1. 1 \in 1 .. d
      BY <1>1
    <2>. QED  BY <1>3, <2>1 DEF Linked
  <1>5. ASSUME NEW k \in 1 .. d - 1
        PROVE  /\ Links(t, D[k], D[k + 1])
               /\ ~ DueAt(t, D[k + 1].operator) => Nearest(t, D, M, D[k + 1].operator, D[k].operator)
    <2>1. k \in 1 .. c - 1 /\ k \in 1 .. c /\ k + 1 \in 1 .. c /\ k + 1 \in 1 .. d /\ k \in 1 .. d
      BY <1>1, <1>2
    <2>2. PICK f, g : f = C[k] /\ g = C[k + 1]
      OBVIOUS
    <2>3. f \in ParseCalls /\ g \in ParseCalls
      BY <1>1, <2>1, <2>2, ElementOfSeq
    <2>4. Links(s, f, g) /\ (~ DueAt(s, g.operator) => Nearest(s, C, N, g.operator, f.operator))
      BY <1>1, <2>1, <2>2 DEF Linked
    <2>5. D[k] = f /\ D[k + 1].operator = g.operator /\ D[k + 1].min_power = g.min_power
      <3>1. D[k] = C[k]
        BY <1>0, <1>1
      <3>. QED  BY <1>3, <2>1, <2>2, <3>1
    <2>6. g.operator \in 1 .. T /\ g.operator \in 1 .. T + 1
      <3>1. g.operator <= T
        BY <1>0, <1>1, <2>1, <2>2
      <3>2. g.operator \in Nat /\ f.operator \in Nat /\ f.operator < g.operator
        BY <2>3, <2>4 DEF ParseCalls, Links
      <3>. QED  BY <3>1, <3>2
    <2>7. /\ DueAt(s, g.operator) <=> DueAt(t, g.operator)
          /\ HolderAt(s, g.operator) <=> HolderAt(t, g.operator)
          /\ HoldAt(s, g.operator) = HoldAt(t, g.operator)
      BY <2>6 DEF TextKept
    <2>8. Links(t, D[k], D[k + 1])
      BY <2>4, <2>5, <2>7 DEF Links
    <2>9. ~ DueAt(t, g.operator) => Nearest(t, D, M, g.operator, f.operator)
      BY <2>4, <2>6, <2>7, NearestKept
    <2>. QED  BY <2>5, <2>8, <2>9
  <1>. QED  BY <1>1, <1>4, <1>5 DEF Linked

-------------------------------------------------------------------------------
\* The calls that have not returned.

LEMMA OpenAppend ==
    ASSUME NEW C \in Seq(ParseCalls), NEW g \in ParseCalls
    PROVE  Open(Append(C, g)) = Open(C) \cup {g.operator}
  <1>1. PICK c \in Nat, D \in Seq(ParseCalls) :
            /\ c = Len(C) /\ D = Append(C, g) /\ Len(D) = c + 1 /\ D[c + 1] = g
            /\ \A k \in 1 .. c : D[k] = C[k]
    <2>1. /\ Append(C, g) \in Seq(ParseCalls) /\ Len(C) \in Nat
          /\ Len(Append(C, g)) = Len(C) + 1 /\ Append(C, g)[Len(C) + 1] = g
          /\ \A k \in 1 .. Len(C) : Append(C, g)[k] = C[k]
      BY AppendFacts
    <2>. QED  BY <2>1
  <1>2. \A k : k \in 1 .. c + 1 <=> k \in 1 .. c \/ k = c + 1
    BY <1>1
  <1>3. Open(D) = {D[k].operator : k \in 1 .. c + 1} /\ Open(C) = {C[k].operator : k \in 1 .. c}
    BY <1>1 DEF Open
  <1>4. ASSUME NEW q PROVE q \in Open(D) <=> q \in Open(C) \/ q = g.operator
    BY <1>1, <1>2, <1>3
  <1>. QED  BY <1>1, <1>4

\* The latest call is that of the last operator, and what is held with it.
LEMMA OpenFacts ==
    ASSUME NEW s, NEW N, NEW C \in Seq(ParseCalls), C # <<>>, Linked(s, C, N)
    PROVE  /\ TopOf(C) \in ParseCalls
           /\ \A q \in Open(C) :
                 /\ q \in Nat /\ q <= TopOf(C).operator
                 /\ q # 0 => HolderAt(s, q)
           /\ \A k \in 1 .. Len(C) : C[k].operator <= TopOf(C).operator
           /\ TopOf(C).operator \in Open(C)
           /\ TopOf(C).operator = 0 => Len(C) = 1 /\ TopOf(C).min_power = Minimum
           /\ TopOf(C).operator # 0 =>
                 /\ Len(C) > 1
                 /\ TopOf(C).min_power = HoldAt(s, TopOf(C).operator)
                 /\ Open(Front(C)) = Open(C) \ {TopOf(C).operator}
  <1>1. PICK c \in Nat \ {0} : c = Len(C)
    BY EmptySeq, LenProperties
  <1>2. \A k \in 1 .. c : C[k] \in ParseCalls /\ C[k].operator \in Nat
    <2>1. \A k \in 1 .. c : C[k] \in ParseCalls
      BY <1>1, ElementOfSeq
    <2>. QED  BY <2>1 DEF ParseCalls
  <1>3. \A k \in 1 .. c - 1 : Links(s, C[k], C[k + 1])
    BY <1>1 DEF Linked
  <1>4. C[1].operator = 0 /\ C[1].min_power = Minimum
    BY DEF Linked
  <1>5. TopOf(C) = C[c] /\ c \in 1 .. c /\ 1 \in 1 .. c
    BY <1>1 DEF TopOf
  <1>6. \A k \in 2 .. c :
           /\ C[k].operator # 0 /\ HolderAt(s, C[k].operator)
           /\ C[k].min_power = HoldAt(s, C[k].operator)
    <2>1. ASSUME NEW k \in 2 .. c
          PROVE  /\ C[k].operator # 0 /\ HolderAt(s, C[k].operator)
                 /\ C[k].min_power = HoldAt(s, C[k].operator)
      <3>1. k - 1 \in 1 .. c - 1 /\ k - 1 \in 1 .. c /\ k \in 1 .. c /\ (k - 1) + 1 = k
        OBVIOUS
      <3>2. Links(s, C[k - 1], C[k])
        BY <1>3, <3>1
      <3>3. C[k - 1].operator \in Nat /\ C[k].operator \in Nat
        BY <1>2, <3>1
      <3>4. C[k - 1].operator < C[k].operator
        BY <3>2 DEF Links
      <3>5. HolderAt(s, C[k].operator) /\ C[k].min_power = HoldAt(s, C[k].operator)
        BY Zenon, <3>2 DEF Links
      <3>6. C[k].operator # 0
        BY <3>3, <3>4
      <3>. QED  BY <3>5, <3>6
    <2>. QED  BY <2>1
  <1>7. \A k \in 1 .. c : k < c => C[k].operator < C[c].operator
    <2>. DEFINE S == {n \in 0 .. c - 1 : \A k \in 1 .. n + 1 : k < n + 1 => C[k].operator < C[n + 1].operator}
    <2>1. 0 \in S
      BY <1>1
    <2>2. ASSUME NEW n \in 0 .. (c - 1) - 1, n \in S PROVE n + 1 \in S
      <3>1. n + 1 \in 1 .. c - 1 /\ n + 1 \in 1 .. c /\ n + 2 \in 1 .. c /\ (n + 1) + 1 = n + 2 /\ n + 1 \in 0 .. c - 1
        OBVIOUS
      <3>2. C[n + 1].operator < C[n + 2].operator
        BY <1>3, <3>1 DEF Links
      <3>3. ASSUME NEW k \in 1 .. n + 2, k < n + 2 PROVE C[k].operator < C[n + 2].operator
        <4>1. CASE k = n + 1
          BY <3>2, <4>1
        <4>2. CASE k # n + 1
          <5>1. k \in 1 .. n + 1 /\ k < n + 1 /\ k \in 1 .. c
            BY <3>1, <3>3, <4>2
          <5>2. C[k].operator < C[n + 1].operator
            BY <2>2, <5>1
          <5>. QED  BY <1>2, <3>1, <3>2, <5>1, <5>2
        <4>. QED  BY <4>1, <4>2
      <3>. QED  BY <3>1, <3>3
    <2>. HIDE DEF S
    <2>3. \A n \in 0 .. c - 1 : n \in S
      <3>1. c - 1 \in Nat
        OBVIOUS
      <3>. QED  BY <2>1, <2>2, <3>1, InductionUpTo
    <2>4. c - 1 \in S /\ (c - 1) + 1 = c
      BY <2>3
    <2>. QED  BY <2>4 DEF S
  <1>8. \A k \in 1 .. c : C[k].operator <= C[c].operator
    <2>1. \A k \in 1 .. c : k = c \/ k < c
      OBVIOUS
    <2>. QED  BY <1>2, <1>5, <1>7, <2>1
  <1>9. \A k \in 1 .. c : C[k].operator # 0 => HolderAt(s, C[k].operator)
    <2>1. \A k \in 1 .. c : k = 1 \/ k \in 2 .. c
      OBVIOUS
    <2>. QED  BY <1>4, <1>6, <2>1
  <1>10. Open(C) = {C[k].operator : k \in 1 .. c}
    BY <1>1 DEF Open
  <1>11. \A q \in Open(C) : q \in Nat /\ q <= C[c].operator /\ (q # 0 => HolderAt(s, q))
    BY <1>2, <1>8, <1>9, <1>10
  <1>12. C[c].operator \in Open(C)
    BY <1>5, <1>10
  <1>13. C[c].operator = 0 => c = 1 /\ C[c].min_power = Minimum
    <2>1. c = 1 \/ c \in 2 .. c
      OBVIOUS
    <2>. QED  BY <1>4, <1>6, <2>1
  <1>14. ASSUME C[c].operator # 0
         PROVE  /\ c > 1 /\ C[c].min_power = HoldAt(s, C[c].operator)
                /\ Open(Front(C)) = Open(C) \ {C[c].operator}
    <2>1. c \in 2 .. c /\ c > 1
      BY <1>4, <1>14
    <2>2. /\ Len(Front(C)) = c - 1
          /\ \A k \in 1 .. c - 1 : Front(C)[k] = C[k]
      BY <1>1, FrontFacts
    <2>3. Open(Front(C)) = {C[k].operator : k \in 1 .. c - 1}
      BY <2>2 DEF Open
    <2>4. \A k : k \in 1 .. c <=> k \in 1 .. c - 1 \/ k = c
      OBVIOUS
    <2>5. \A k \in 1 .. c - 1 : C[k].operator # C[c].operator
      <3>1. \A k \in 1 .. c - 1 : k \in 1 .. c /\ k < c
        OBVIOUS
      <3>. QED  BY <1>2, <1>5, <1>7, <3>1
    <2>6. ASSUME NEW q PROVE q \in Open(Front(C)) <=> q \in Open(C) /\ q # C[c].operator
      BY <1>10, <2>3, <2>4, <2>5
    <2>. QED  BY <1>6, <2>1, <2>6
  <1>. QED  BY <1>1, <1>2, <1>5, <1>8, <1>11, <1>12, <1>13, <1>14

\* A call with another operand is the same call to its operator.
LEMMA ReplaceFacts ==
    ASSUME NEW C \in Seq(ParseCalls), C # <<>>, NEW g \in ParseCalls,
           g.operator = TopOf(C).operator, g.min_power = TopOf(C).min_power
    PROVE  /\ Append(Front(C), g) \in Seq(ParseCalls) /\ Append(Front(C), g) # <<>>
           /\ TopOf(Append(Front(C), g)) = g
           /\ Open(Append(Front(C), g)) = Open(C)
           /\ Len(Append(Front(C), g)) = Len(C)
           /\ \A k \in 1 .. Len(C) - 1 : Append(Front(C), g)[k] = C[k]
  <1>1. PICK c \in Nat \ {0}, F \in Seq(ParseCalls) :
            /\ c = Len(C) /\ F = Front(C) /\ Len(F) = c - 1 /\ TopOf(C) = C[c]
            /\ \A k \in 1 .. c - 1 : F[k] = C[k]
            /\ C = Append(F, C[c]) /\ C[c] \in ParseCalls
    BY FrontFacts DEF TopOf
  <1>2. PICK D \in Seq(ParseCalls) :
            /\ D = Append(F, g) /\ D # <<>> /\ Len(D) = (c - 1) + 1 /\ D[(c - 1) + 1] = g
            /\ \A k \in 1 .. c - 1 : D[k] = F[k]
    <2>1. /\ Append(F, g) \in Seq(ParseCalls) /\ Append(F, g) # <<>>
          /\ Len(Append(F, g)) = Len(F) + 1 /\ Append(F, g)[Len(F) + 1] = g
          /\ \A k \in 1 .. Len(F) : Append(F, g)[k] = F[k]
      BY AppendFacts
    <2>. QED  BY <1>1, <2>1
  <1>3. (c - 1) + 1 = c
    OBVIOUS
  <1>4. TopOf(D) = g
    BY <1>2, <1>3 DEF TopOf
  <1>5. Open(D) = Open(C)
    <2>1. Open(D) = Open(F) \cup {g.operator}
      BY <1>2, OpenAppend
    <2>2. Open(Append(F, C[c])) = Open(F) \cup {C[c].operator}
      BY <1>1, OpenAppend
    <2>. QED  BY <1>1, <2>1, <2>2
  <1>. QED  BY <1>1, <1>2, <1>3, <1>4, <1>5

LEMMA OverMore ==
    ASSUME NEW C, NEW N, NEW D, NEW M, NEW T \in Nat, NEW x,
           Open(C) \subseteq Open(D), Open(D) \subseteq Open(C) \cup {T + 1},
           N \subseteq M, M \subseteq N \cup {x}, x.operator = T + 1
    PROVE  OverKept(C, N, D, M, T)
  <1>1. ASSUME NEW q \in 1 .. T, NEW p PROVE Over(C, N, q, p) <=> Over(D, M, q, p)
    <2>1. q # T + 1
      OBVIOUS
    <2>2. q \in Open(C) <=> q \in Open(D)
      BY <2>1
    <2>3. (\E n \in N : n.operator = q /\ p <= n.to) <=> (\E n \in M : n.operator = q /\ p <= n.to)
      BY <2>1
    <2>. QED  BY <2>2, <2>3 DEF Over
  <1>. QED  BY <1>1 DEF OverKept

LEMMA OverClosed ==
    ASSUME NEW C, NEW N, NEW D, NEW T \in Nat, NEW x,
           Open(D) = Open(C) \ {x.operator}, x.operator \in Open(C), x.to = T
    PROVE  OverKept(C, N, D, N \cup {x}, T)
  <1>1. ASSUME NEW q \in 1 .. T, q # x.operator, NEW p
        PROVE  Over(C, N, q, p) <=> Over(D, N \cup {x}, q, p)
    <2>1. q \in Open(C) <=> q \in Open(D)
      BY <1>1
    <2>2. (\E n \in N : n.operator = q /\ p <= n.to)
             <=> (\E n \in N \cup {x} : n.operator = q /\ p <= n.to)
      BY <1>1
    <2>. QED  BY <2>1, <2>2 DEF Over
  <1>2. \A p : Over(C, N, x.operator, p)
    BY DEF Over
  <1>3. \A p \in 1 .. T : Over(D, N \cup {x}, x.operator, p)
    BY DEF Over
  <1>. QED  BY <1>1, <1>2, <1>3 DEF OverKept

-------------------------------------------------------------------------------
\* The next token.

LEMMA NodesMore ==
    ASSUME NEW s, NEW t, NEW C, NEW D, NEW N, NEW X, NEW T \in Nat, NEW U \in Nat, T <= U,
           N \subseteq Spans, X \subseteq Spans,
           TextKept(s, t, T), OverKept(C, N, D, N \cup X, T), NodesFit(s, C, N, T),
           \A x, y \in X : x = y,
           \A n \in N, x \in X : n.operator # x.operator,
           \A n \in N : n.operator \notin Open(D),
           \A x \in X : NodeFits(t, D, N \cup X, U, x),
           \A p \in 1 .. T : p \in Open(C) => p \in Open(D) \/ \E x \in X : x.operator = p,
           \A p \in T + 1 .. U :
              /\ OperatorAt(t, p) => p \in Open(D) \/ \E x \in X : x.operator = p
              /\ ~ DueAt(t, p) => Minimum < PowerOn(t, p)
    PROVE  NodesFit(t, D, N \cup X, U)
  <1>1. ASSUME NEW n \in N PROVE NodeFits(t, D, N \cup X, U, n)
    <2>1. n \in Spans /\ NodeFits(s, C, N, T, n)
      BY DEF NodesFit
    <2>. QED  BY <2>1, NodeKept
  <1>2. \A n \in N \cup X : NodeFits(t, D, N \cup X, U, n)
    BY <1>1
  <1>3. \A m, n \in N \cup X : m.operator = n.operator => m = n
    <2>1. \A m, n \in N : m.operator = n.operator => m = n
      BY DEF NodesFit
    <2>. QED  BY <2>1
  <1>4. \A p \in 1 .. U : p \in 1 .. T \/ p \in T + 1 .. U
    OBVIOUS
  <1>5. ASSUME NEW p \in 1 .. T
        PROVE  /\ OperatorAt(t, p) => p \in Open(D) \/ \E n \in N \cup X : n.operator = p
               /\ ~ DueAt(t, p) => Minimum < PowerOn(t, p)
    <2>1. p \in 1 .. T + 1
      OBVIOUS
    <2>2. /\ HolderAt(s, p) <=> HolderAt(t, p)
          /\ DueAt(s, p) <=> DueAt(t, p)
          /\ PowerOn(s, p) = PowerOn(t, p)
      BY <2>1 DEF TextKept
    <2>3. /\ OperatorAt(s, p) => p \in Open(C) \/ \E n \in N : n.operator = p
          /\ ~ DueAt(s, p) => Minimum < PowerOn(s, p)
      BY DEF NodesFit
    <2>4. OperatorAt(s, p) <=> OperatorAt(t, p)
      BY <2>2 DEF OperatorAt
    <2>5. p \in Open(C) => p \in Open(D) \/ \E n \in N \cup X : n.operator = p
      OBVIOUS
    <2>. QED  BY <2>2, <2>3, <2>4, <2>5
  <1>6. \A p \in T + 1 .. U : OperatorAt(t, p) => p \in Open(D) \/ \E n \in N \cup X : n.operator = p
    OBVIOUS
  <1>7. \A p \in 1 .. U : /\ OperatorAt(t, p) => p \in Open(D) \/ \E n \in N \cup X : n.operator = p
                          /\ ~ DueAt(t, p) => Minimum < PowerOn(t, p)
    BY <1>4, <1>5, <1>6
  <1>. QED  BY <1>2, <1>3, <1>7 DEF NodesFit

LEMMA OpenMore ==
    ASSUME NEW s, NEW t, NEW C, NEW D, NEW N, NEW M, NEW T \in Nat, NEW U \in Nat,
           U = T \/ U = T + 1,
           TextKept(s, t, T), OverKept(C, N, D, M, T), OpenFit(s, C, N, T),
           \A q \in Open(C) : q \in 0 .. T,
           \A q \in Open(D) : q \in Open(C) \/ q = U,
           \A q \in Open(C) : q # 0 /\ U = T + 1 => ~ Closes(t, D, M, q, T + 1)
    PROVE  OpenFit(t, D, M, U)
  <1>1. SUFFICES ASSUME NEW q \in Open(D), NEW r \in q + 1 .. U, q # 0
                 PROVE  ~ Closes(t, D, M, q, r)
    BY DEF OpenFit
  <1>2. q \in Open(C) /\ q \in 1 .. T
    <2>1. q # U
      BY <1>1
    <2>. QED  BY <1>1, <2>1
  <1>3. CASE r \in 1 .. T
    <2>1. r \in q + 1 .. T
      BY <1>1, <1>3
    <2>2. ~ Closes(s, C, N, q, r)
      BY <1>1, <1>2, <2>1 DEF OpenFit
    <2>. QED  BY <1>2, <1>3, <2>2, ClosesKept
  <1>4. CASE r \notin 1 .. T
    <2>1. r = T + 1 /\ U = T + 1
      BY <1>1, <1>2, <1>4
    <2>. QED  BY <1>1, <1>2, <2>1
  <1>. QED  BY <1>3, <1>4

\* A token that binds more than the latest call does not end the operand of
\* any operator.
LEMMA BindsMore ==
    ASSUME NEW s, NEW N, NEW C \in Seq(ParseCalls), C # <<>>, Linked(s, C, N),
           NEW T \in Nat, TopOf(C).operator <= T,
           TopOf(C).min_power < PowerOn(s, T + 1),
           NEW D, NEW M, Open(C) \subseteq Open(D),
           NEW q \in Open(C), q # 0
    PROVE  ~ Closes(s, D, M, q, T + 1)
  <1>1. PICK o : o = TopOf(C).operator
    OBVIOUS
  <1>2. /\ q \in Nat /\ q <= o /\ o \in Open(C) /\ o # 0
        /\ HolderAt(s, o) /\ TopOf(C).min_power = HoldAt(s, o)
        /\ o \in Nat
    <2>1. /\ \A p \in Open(C) : p \in Nat /\ p <= o /\ (p # 0 => HolderAt(s, p))
          /\ o \in Open(C)
          /\ o # 0 => TopOf(C).min_power = HoldAt(s, o)
      BY <1>1, OpenFacts
    <2>2. q \in Nat /\ q <= o /\ o \in Nat
      BY <2>1
    <2>3. o # 0
      BY <2>2
    <2>. QED  BY <2>1, <2>2, <2>3
  <1>3. CASE q = o
    BY <1>1, <1>2, <1>3 DEF Closes
  <1>4. CASE q # o
    <2>1. o \in q + 1 .. (T + 1) - 1
      BY <1>1, <1>2, <1>4
    <2>2. Over(D, M, o, T + 1)
      BY <1>2 DEF Over
    <2>. QED  BY <1>2, <2>1, <2>2 DEF Closes
  <1>. QED  BY <1>3, <1>4

\* All that binds more than a call does binds more than nothing.
LEMMA MinPower ==
    ASSUME NEW s, NEW N, NEW C \in Seq(ParseCalls), C # <<>>, Linked(s, C, N)
    PROVE  TopOf(C).min_power \in Int /\ Minimum <= TopOf(C).min_power
  <1>1. PICK o, m : o = TopOf(C).operator /\ m = TopOf(C).min_power
    OBVIOUS
  <1>2. /\ TopOf(C) \in ParseCalls
        /\ o # 0 => HolderAt(s, o) /\ m = HoldAt(s, o)
        /\ o = 0 => m = Minimum
    BY <1>1, OpenFacts
  <1>3. m \in Int
    BY <1>1, <1>2 DEF ParseCalls
  <1>4. HolderAt(s, o) => Minimum <= HoldAt(s, o)
    BY PowersAssumption DEF HolderAt, HoldAt
  <1>5. Minimum <= m
    BY <1>2, <1>4, PowersAssumption
  <1>. QED  BY <1>1, <1>3, <1>5

\* Whatever comes after T is within the latest call.
LEMMA NearestTop ==
    ASSUME NEW s, NEW N, NEW C \in Seq(ParseCalls), C # <<>>, Linked(s, C, N),
           NEW T \in Nat, TopOf(C).operator <= T, NodesFit(s, C, N, T), N \subseteq Spans,
           NEW D, NEW M, OverKept(C, N, D, M, T), TopOf(C).operator \in Open(D)
    PROVE  Nearest(s, D, M, T + 1, TopOf(C).operator)
  <1>1. PICK o : o = TopOf(C).operator
    OBVIOUS
  <1>2. /\ \A p \in Open(C) : p \in Nat /\ p <= o
        /\ o \in Nat /\ (o # 0 => HolderAt(s, o))
    <2>1. /\ \A p \in Open(C) : p \in Nat /\ p <= o /\ (p # 0 => HolderAt(s, p))
          /\ o \in Open(C)
      BY <1>1, OpenFacts
    <2>. QED  BY <2>1
  <1>3. o \in 0 .. (T + 1) - 1
    BY <1>1, <1>2
  <1>4. Over(D, M, o, T + 1)
    BY <1>1 DEF Over
  <1>5. ASSUME NEW h \in o + 1 .. (T + 1) - 1 PROVE ~ Over(D, M, h, T + 1)
    <2>1. h \in 1 .. T /\ h \notin Open(C)
      BY <1>2, <1>5
    <2>2. ASSUME NEW n \in N PROVE ~ (T + 1 <= n.to)
      <3>1. n.to \in Nat
        BY DEF Spans
      <3>2. n.to <= T
        BY DEF NodesFit, NodeFits
      <3>. QED  BY <3>1, <3>2
    <2>3. ~ Over(C, N, h, T + 1)
      BY <2>1, <2>2 DEF Over
    <2>. QED  BY <2>1, <2>3 DEF OverKept
  <1>. QED  BY <1>1, <1>2, <1>3, <1>4, <1>5 DEF Nearest

Placed(s, C, N, T) ==
    /\ s \in Seq(ParsedKinds) /\ T \in Nat /\ T <= Len(s)
    /\ C \in Seq(ParseCalls) /\ C # <<>> /\ N \subseteq Spans
    /\ Parsing(s, C, N, T)

LEMMA SpanFacts ==
    ASSUME NEW a \in Nat, NEW b \in Nat, NEW c \in Nat
    PROVE  /\ Span(a, b, c) \in Spans
           /\ Span(a, b, c).operator = a /\ Span(a, b, c).from = b /\ Span(a, b, c).to = c
  BY DEF Span, Spans

LEMMA NextFacts ==
    ASSUME NEW n \in Nat
    PROVE  n <= n /\ n + 1 \in Nat /\ \A k \in Nat : k <= n => k <= n + 1
  OBVIOUS

\* An operand is due after a prefix or an infix, and nowhere else.
LEMMA DueHolder ==
    ASSUME NEW s \in Seq(ParsedKinds), NEW p \in 1 .. Len(s)
    PROVE  DueAt(s, p + 1) <=> HolderAt(s, p)
  BY DueFacts DEF HolderAt

\* What taking the next token does to what is known, whether it calls
\* pratt_parse, makes a node or is an operand.
LEMMA TakesNext ==
    ASSUME NEW s, NEW C, NEW N, NEW T, Placed(s, C, N, T), TopOf(C).operator <= T,
           NEW D, NEW X, X \subseteq Spans,
           Open(C) \subseteq Open(D), Open(D) \subseteq Open(C) \cup {T + 1},
           DueAt(s, T + 1) \/ TopOf(C).min_power < PowerOn(s, T + 1),
           \A x \in X : x.operator = T + 1, \A x, y \in X : x = y,
           \A x \in X : T + 1 \notin Open(D) /\ NodeFits(s, D, N \cup X, T + 1, x),
           OperatorAt(s, T + 1) => T + 1 \in Open(D) \/ X # {}
    PROVE  /\ OverKept(C, N, D, N \cup X, T)
           /\ NodesFit(s, D, N \cup X, T + 1)
           /\ OpenFit(s, D, N \cup X, T + 1)
  <1>1. /\ T \in Nat /\ T + 1 \in Nat /\ T <= T + 1
        /\ C \in Seq(ParseCalls) /\ C # <<>> /\ N \subseteq Spans
        /\ Linked(s, C, N) /\ NodesFit(s, C, N, T) /\ OpenFit(s, C, N, T)
    BY DEF Placed, Parsing
  <1>2. PICK x : x.operator = T + 1 /\ X \subseteq {x}
    <2>1. CASE X = {}
      <3>1. Span(T + 1, 0, 0).operator = T + 1
        BY DEF Span
      <3>. QED  BY <2>1, <3>1
    <2>2. CASE X # {}
      BY <2>2
    <2>. QED  BY <2>1, <2>2
  <1>3. OverKept(C, N, D, N \cup X, T)
    <2>1. N \subseteq N \cup X /\ N \cup X \subseteq N \cup {x}
      BY <1>2
    <2>. QED  BY <1>1, <1>2, <2>1, OverMore
  <1>4. TextKept(s, s, T)
    BY TextKeptSame
  <1>5. \A q \in Open(C) : q \in 0 .. T
    <2>1. \A q \in Open(C) : q \in Nat /\ q <= TopOf(C).operator
      BY <1>1, OpenFacts
    <2>2. TopOf(C).operator \in Nat
      BY <1>1, <2>1, OpenFacts
    <2>. QED  BY <1>1, <2>1, <2>2
  <1>6. \A n \in N : n.operator \in 1 .. T /\ n.operator \notin Open(C)
    BY <1>1 DEF NodesFit, NodeFits
  <1>7. T + 1 \notin 1 .. T
    BY <1>1
  <1>8. \A p \in T + 1 .. T + 1 : p = T + 1
    BY <1>1
  <1>9. ~ DueAt(s, T + 1) => Minimum < PowerOn(s, T + 1)
    <2>1. Minimum <= TopOf(C).min_power /\ TopOf(C).min_power \in Int /\ Minimum \in Int
      BY <1>1, MinPower, PowersAssumption
    <2>2. PowerOn(s, T + 1) \in Int
      BY PowersAssumption DEF PowerOn, LbpGet
    <2>. QED  BY <2>1, <2>2
  <1>10. NodesFit(s, D, N \cup X, T + 1)
    <2>1. \A n \in N : n.operator \notin Open(D)
      BY <1>6, <1>7
    <2>2. \A n \in N, y \in X : n.operator # y.operator
      BY <1>6, <1>7
    <2>3. \A p \in 1 .. T : p \in Open(C) => p \in Open(D) \/ \E y \in X : y.operator = p
      OBVIOUS
    <2>4. \A p \in T + 1 .. T + 1 :
             /\ OperatorAt(s, p) => p \in Open(D) \/ \E y \in X : y.operator = p
             /\ ~ DueAt(s, p) => Minimum < PowerOn(s, p)
      BY <1>8, <1>9
    <2>5. \A y \in X : NodeFits(s, D, N \cup X, T + 1, y)
      OBVIOUS
    <2>. QED  BY <1>1, <1>3, <1>4, <2>1, <2>2, <2>3, <2>4, <2>5, NodesMore
  <1>11. OpenFit(s, D, N \cup X, T + 1)
    <2>1. ASSUME NEW q \in Open(C), q # 0 PROVE ~ Closes(s, D, N \cup X, q, T + 1)
      <3>1. CASE DueAt(s, T + 1)
        BY <3>1 DEF Closes
      <3>2. CASE TopOf(C).min_power < PowerOn(s, T + 1)
        BY <1>1, <2>1, <3>2, BindsMore
      <3>. QED  BY <3>1, <3>2
    <2>2. \A q \in Open(D) : q \in Open(C) \/ q = T + 1
      OBVIOUS
    <2>. QED  BY <1>1, <1>3, <1>4, <1>5, <2>1, <2>2, OpenMore
  <1>. QED  BY <1>3, <1>10, <1>11

\* A call of C has x as its lhs in D.
Replaced(C, x, D) == D = Append(Front(C), WithLhs(TopOf(C), x))

\* The latest call gets what it has parsed, or another part on its left.
LEMMA LhsTaken ==
    ASSUME NEW s, NEW C, NEW N, NEW T, Placed(s, C, N, T), TopOf(C).operator <= T,
           T + 1 <= Len(s), ~ HolderAt(s, T + 1),
           NEW x \in Spans, x.from = TopOf(C).operator + 1, x.to = T + 1,
           NEW D, Replaced(C, x, D),
           NEW M, OverKept(C, N, D, M, T),
           NodesFit(s, D, M, T + 1), OpenFit(s, D, M, T + 1)
    PROVE  D \in Seq(ParseCalls) /\ D # <<>> /\ Parsing(s, D, M, T + 1)
  <1>1. /\ T \in Nat /\ s \in Seq(ParsedKinds) /\ C \in Seq(ParseCalls) /\ C # <<>>
        /\ Linked(s, C, N)
    BY DEF Placed, Parsing
  <1>2. PICK g : g = WithLhs(TopOf(C), x)
    OBVIOUS
  <1>3. TopOf(C) \in ParseCalls
    BY <1>1, OpenFacts
  <1>4. /\ g \in ParseCalls /\ g.operator = TopOf(C).operator
        /\ g.min_power = TopOf(C).min_power /\ g.lhs = x /\ g.at = "peek"
    BY <1>2, <1>3 DEF WithLhs, ParseCalls
  <1>5. /\ D \in Seq(ParseCalls) /\ D # <<>> /\ TopOf(D) = g
        /\ Len(D) = Len(C) /\ \A k \in 1 .. Len(C) - 1 : D[k] = C[k]
    BY <1>1, <1>2, <1>4, ReplaceFacts DEF Replaced
  <1>6. Linked(s, D, M)
    <2>1. TextKept(s, s, T)
      BY TextKeptSame
    <2>2. UpTo(C, T)
      <3>1. \A k \in 1 .. Len(C) : C[k].operator <= TopOf(C).operator
        BY <1>1, OpenFacts
      <3>2. \A k \in 1 .. Len(C) : C[k].operator \in Nat
        <4>1. \A k \in 1 .. Len(C) : C[k] \in ParseCalls
          BY <1>1, ElementOfSeq
        <4>. QED  BY <4>1 DEF ParseCalls
      <3>3. TopOf(C).operator \in Nat
        BY <1>3 DEF ParseCalls
      <3>. QED  BY <1>1, <3>1, <3>2, <3>3 DEF UpTo
    <2>3. CallsStay(C, D)
      <3>1. Len(C) \in Nat
        BY <1>1, LenProperties
      <3>. QED  BY <1>4, <1>5, <3>1 DEF TopOf, CallsStay
    <2>. QED  BY <1>1, <1>5, <2>1, <2>2, <2>3, LinkedKept
  <1>7. Reaches(s, TopOf(D), T + 1)
    <2>1. T + 1 \in 1 .. Len(s)
      BY <1>1, LenProperties
    <2>2. ~ DueAt(s, (T + 1) + 1)
      BY <1>1, <2>1, DueHolder
    <2>3. g.operator \in Nat /\ g.operator <= T + 1
      <3>1. g.operator \in Nat
        BY <1>4 DEF ParseCalls
      <3>. QED  BY <1>1, <1>4, <3>1, NextFacts, Zenon
    <2>4. g.lhs.from = g.operator + 1 /\ g.lhs.to = T + 1 /\ g.at # "null denotation"
      BY <1>4
    <2>. QED  BY <1>5, <2>2, <2>3, <2>4 DEF Reaches
  <1>. QED  BY <1>5, <1>6, <1>7 DEF Parsing

\* An operand is taken.
LEMMA OperandTaken ==
    ASSUME NEW s, NEW C, NEW N, NEW T, Placed(s, C, N, T),
           T + 1 <= Len(s), s[T + 1] \notin DOMAIN NudPower,
           TopOf(C).at = "null denotation",
           NEW D, Replaced(C, Span(0, T + 1, T + 1), D)
    PROVE  D \in Seq(ParseCalls) /\ D # <<>> /\ Parsing(s, D, N, T + 1)
  <1>1. /\ T \in Nat /\ C \in Seq(ParseCalls) /\ C # <<>> /\ Linked(s, C, N)
        /\ TopOf(C).operator = T /\ DueAt(s, T + 1)
    BY DEF Placed, Parsing, Reaches
  <1>2. PICK x \in Spans : x = Span(0, T + 1, T + 1) /\ x.from = T + 1 /\ x.to = T + 1
    <2>1. PICK m \in Nat : m = T + 1
      BY <1>1, NextFacts
    <2>2. Span(0, m, m) \in Spans /\ Span(0, m, m).from = m /\ Span(0, m, m).to = m
      BY DEF Span, Spans
    <2>. QED  BY <2>1, <2>2
  <1>3. ~ HolderAt(s, T + 1) /\ ~ OperatorAt(s, T + 1)
    BY <1>1 DEF HolderAt, OperatorAt
  <1>4. WithLhs(TopOf(C), x) \in ParseCalls /\ WithLhs(TopOf(C), x).operator = TopOf(C).operator
        /\ WithLhs(TopOf(C), x).min_power = TopOf(C).min_power
    <2>1. TopOf(C) \in ParseCalls
      BY <1>1, OpenFacts
    <2>. QED  BY <2>1 DEF WithLhs, ParseCalls
  <1>5. Open(D) = Open(C)
    BY <1>1, <1>2, <1>4, ReplaceFacts DEF Replaced
  <1>6. N \cup {} = N
    OBVIOUS
  <1>7. /\ OverKept(C, N, D, N \cup {}, T)
        /\ NodesFit(s, D, N \cup {}, T + 1)
        /\ OpenFit(s, D, N \cup {}, T + 1)
    <2>1. Open(C) \subseteq Open(D) /\ Open(D) \subseteq Open(C) \cup {T + 1}
      BY <1>5
    <2>2. TopOf(C).operator <= T
      BY <1>1, NextFacts, Zenon
    <2>. QED  BY <1>1, <1>3, <2>1, <2>2, TakesNext
  <1>8. TopOf(C).operator <= T /\ x.from = TopOf(C).operator + 1
    BY <1>1, <1>2, NextFacts, Zenon
  <1>. QED  BY <1>2, <1>3, <1>6, <1>7, <1>8, LhsTaken

\* A handler calls pratt_parse.
LEMMA LinkedAppend ==
    ASSUME NEW s, NEW N, NEW M, NEW T \in Nat,
           NEW C \in Seq(ParseCalls), NEW g \in ParseCalls, C # <<>>,
           OverKept(C, N, Append(C, g), M, T), Linked(s, C, N), UpTo(C, T),
           Links(s, TopOf(C), g),
           ~ DueAt(s, g.operator) => Nearest(s, Append(C, g), M, g.operator, TopOf(C).operator)
    PROVE  Linked(s, Append(C, g), M)
  <1>1. PICK c \in Nat \ {0} : c = Len(C)
    BY EmptySeq, LenProperties
  <1>2. PICK D \in Seq(ParseCalls) :
            /\ D = Append(C, g) /\ Len(D) = c + 1 /\ D[c + 1] = g
            /\ \A k \in 1 .. c : D[k] = C[k]
    <2>1. /\ Append(C, g) \in Seq(ParseCalls) /\ Len(Append(C, g)) = Len(C) + 1
          /\ Append(C, g)[Len(C) + 1] = g
          /\ \A k \in 1 .. Len(C) : Append(C, g)[k] = C[k]
      BY AppendFacts
    <2>. QED  BY <1>1, <2>1
  <1>3. D[1].operator = 0 /\ D[1].min_power = Minimum
    <2>1. 1 \in 1 .. c
      BY <1>1
    <2>. QED  BY <1>2, <2>1 DEF Linked
  <1>4. ASSUME NEW k \in 1 .. (c + 1) - 1
        PROVE  /\ Links(s, D[k], D[k + 1])
               /\ ~ DueAt(s, D[k + 1].operator) => Nearest(s, D, M, D[k + 1].operator, D[k].operator)
    <2>1. CASE k = c
      <3>1. D[k] = TopOf(C) /\ D[k + 1] = g
        BY <1>1, <1>2, <2>1 DEF TopOf
      <3>. QED  BY <1>2, <3>1
    <2>2. CASE k # c
      <3>1. k \in 1 .. c - 1 /\ k \in 1 .. c /\ k + 1 \in 1 .. c
        BY <2>2
      <3>2. PICK e, f : e = C[k] /\ f = C[k + 1] /\ D[k] = e /\ D[k + 1] = f
        BY <1>2, <3>1
      <3>3. e \in ParseCalls /\ f \in ParseCalls
        BY <1>1, <3>1, <3>2, ElementOfSeq
      <3>4. Links(s, e, f) /\ (~ DueAt(s, f.operator) => Nearest(s, C, N, f.operator, e.operator))
        BY <1>1, <3>1, <3>2 DEF Linked
      <3>5. f.operator \in 1 .. T
        <4>1. f.operator <= T
          BY <1>1, <3>1, <3>2 DEF UpTo
        <4>2. f.operator \in Nat /\ e.operator \in Nat /\ e.operator < f.operator
          BY <3>3, <3>4 DEF ParseCalls, Links
        <4>. QED  BY <4>1, <4>2
      <3>6. OverKept(C, N, D, M, T) /\ TextKept(s, s, T)
        BY <1>2, TextKeptSame
      <3>7. ~ DueAt(s, f.operator) => Nearest(s, D, M, f.operator, e.operator)
        BY <3>4, <3>5, <3>6, NearestKept
      <3>. QED  BY <3>2, <3>4, <3>7
    <2>. QED  BY <2>1, <2>2
  <1>. QED  BY <1>2, <1>3, <1>4 DEF Linked

LEMMA CallsUpTo ==
    ASSUME NEW s, NEW C, NEW N, NEW T, Placed(s, C, N, T), TopOf(C).operator <= T
    PROVE  UpTo(C, T)
  <1>1. T \in Nat /\ C \in Seq(ParseCalls) /\ C # <<>> /\ Linked(s, C, N)
    BY DEF Placed, Parsing
  <1>2. TopOf(C) \in ParseCalls /\ \A k \in 1 .. Len(C) : C[k].operator <= TopOf(C).operator
    BY <1>1, OpenFacts
  <1>3. \A k \in 1 .. Len(C) : C[k].operator \in Nat
    <2>1. \A k \in 1 .. Len(C) : C[k] \in ParseCalls
      BY <1>1, ElementOfSeq
    <2>. QED  BY <2>1 DEF ParseCalls
  <1>4. TopOf(C).operator \in Nat
    BY <1>2 DEF ParseCalls
  <1>. QED  BY <1>1, <1>2, <1>3, <1>4 DEF UpTo

Called(C, o, m, D) == D = Append(C, ParseCall(o, m))

LEMMA CallMade ==
    ASSUME NEW s, NEW C, NEW N, NEW T, Placed(s, C, N, T),
           T + 1 <= Len(s), HolderAt(s, T + 1),
           DueAt(s, T + 1) \/ TopOf(C).min_power < PowerOn(s, T + 1),
           NEW m, m = HoldAt(s, T + 1),
           NEW D, Called(C, T + 1, m, D)
    PROVE  D \in Seq(ParseCalls) /\ D # <<>> /\ Parsing(s, D, N, T + 1)
  <1>1. /\ T \in Nat /\ s \in Seq(ParsedKinds) /\ C \in Seq(ParseCalls) /\ C # <<>>
        /\ Linked(s, C, N) /\ NodesFit(s, C, N, T) /\ N \subseteq Spans
        /\ Reaches(s, TopOf(C), T) /\ TopOf(C).operator <= T
    BY DEF Placed, Parsing, Reaches
  <1>2. TopOf(C) \in ParseCalls
    BY <1>1, OpenFacts
  <1>3. TopOf(C).operator \in Nat /\ TopOf(C).at \in {"null denotation", "peek"}
    BY <1>2 DEF ParseCalls
  <1>4. PICK U \in Nat : U = T + 1 /\ TopOf(C).operator < U
    <2>1. T + 1 \in Nat /\ \A o \in Nat : o <= T => o < T + 1
      BY <1>1
    <2>. QED  BY <1>1, <1>3, <2>1
  <1>5. m \in Int
    BY PowersAssumption DEF HolderAt, HoldAt
  <1>6. PICK g : g = ParseCall(U, m)
    OBVIOUS
  <1>7. /\ g \in ParseCalls /\ g.operator = U /\ g.min_power = m /\ g.at = "null denotation"
    BY <1>5, <1>6 DEF ParseCall, ParseCalls, Span, Spans
  <1>8. D = Append(C, g) /\ D \in Seq(ParseCalls) /\ D # <<>> /\ TopOf(D) = g
    <2>1. D = Append(C, g)
      BY <1>4, <1>6 DEF Called
    <2>2. /\ Append(C, g) \in Seq(ParseCalls) /\ Append(C, g) # <<>>
          /\ Len(Append(C, g)) = Len(C) + 1 /\ Append(C, g)[Len(C) + 1] = g
      <3>1. C \in Seq(ParseCalls) /\ g \in ParseCalls
        BY <1>1, <1>7
      <3>2. Append(C, g) \in Seq(ParseCalls) /\ Append(C, g) # <<>>
        BY <3>1, AppendFacts
      <3>3. Len(Append(C, g)) = Len(C) + 1 /\ Append(C, g)[Len(C) + 1] = g
        BY <3>1, AppendFacts
      <3>. QED  BY <3>2, <3>3
    <2>. QED  BY <2>1, <2>2 DEF TopOf
  <1>9. Open(D) = Open(C) \cup {U}
    BY <1>1, <1>7, <1>8, OpenAppend
  <1>10. N \cup {} = N
    OBVIOUS
  <1>11. /\ OverKept(C, N, D, N \cup {}, T)
         /\ NodesFit(s, D, N \cup {}, T + 1)
         /\ OpenFit(s, D, N \cup {}, T + 1)
    <2>1. Open(C) \subseteq Open(D) /\ Open(D) \subseteq Open(C) \cup {T + 1}
      BY <1>4, <1>9
    <2>2. T + 1 \in Open(D)
      BY <1>4, <1>9
    <2>. QED  BY <1>1, <2>1, <2>2, TakesNext
  <1>12. UpTo(C, T)
    BY <1>1, CallsUpTo
  <1>13. TopOf(C).at = "null denotation" => DueAt(s, U) /\ TopOf(C).operator = T
    BY <1>1, <1>4 DEF Reaches
  <1>14. TopOf(C).at = "peek" => ~ DueAt(s, U) /\ TopOf(C).lhs.from = TopOf(C).operator + 1
    BY <1>1, <1>4 DEF Reaches
  <1>15. Links(s, TopOf(C), g)
    <2>1. DueAt(s, U) => TopOf(C).at = "null denotation" /\ U = TopOf(C).operator + 1
      BY <1>3, <1>4, <1>13, <1>14
    <2>2. ~ DueAt(s, U) => TopOf(C).at = "peek" /\ TopOf(C).lhs.from = TopOf(C).operator + 1
      BY <1>3, <1>13, <1>14
    <2>3. HolderAt(s, U) /\ m = HoldAt(s, U)
      BY <1>4
    <2>. QED  BY <1>4, <1>7, <2>1, <2>2, <2>3 DEF Links
  <1>16. Nearest(s, D, N, U, TopOf(C).operator)
    <2>1. OverKept(C, N, D, N, T) /\ TopOf(C).operator \in Open(D)
      <3>1. TopOf(C).operator \in Open(C)
        BY <1>1, OpenFacts
      <3>. QED  BY <1>9, <1>10, <1>11, <3>1
    <2>2. Nearest(s, D, N, T + 1, TopOf(C).operator)
      BY <1>1, <2>1, NearestTop
    <2>. QED  BY <1>4, <2>2
  <1>17. Linked(s, D, N)
    <2>1. OverKept(C, N, Append(C, g), N, T)
      BY <1>8, <1>10, <1>11
    <2>2. Nearest(s, Append(C, g), N, g.operator, TopOf(C).operator)
      BY <1>7, <1>8, <1>16
    <2>3. Linked(s, Append(C, g), N)
      BY <1>1, <1>7, <1>12, <1>15, <2>1, <2>2, LinkedAppend
    <2>. QED  BY <1>8, <2>3
  <1>18. Reaches(s, g, U)
    <2>1. T + 1 \in 1 .. Len(s)
      BY <1>1, LenProperties
    <2>2. DueAt(s, U + 1)
      BY <1>1, <1>4, <2>1, DueHolder
    <2>3. U <= U
      BY <1>4
    <2>4. g.at # "peek"
      BY <1>7
    <2>. QED  BY <1>7, <2>2, <2>3, <2>4 DEF Reaches
  <1>. QED  BY <1>4, <1>8, <1>10, <1>11, <1>17, <1>18 DEF Parsing

\* A postfix is taken, with what is on its left.
LEMMA PostfixTaken ==
    ASSUME NEW s, NEW C, NEW N, NEW T, Placed(s, C, N, T),
           T + 1 <= Len(s), ~ HolderAt(s, T + 1),
           TopOf(C).at = "peek", TopOf(C).min_power < PowerOn(s, T + 1),
           NEW x, x = Span(T + 1, TopOf(C).lhs.from, T + 1),
           NEW D, Replaced(C, x, D)
    PROVE  /\ x \in Spans /\ D \in Seq(ParseCalls) /\ D # <<>>
           /\ Parsing(s, D, N \cup {x}, T + 1)
  <1>1. /\ T \in Nat /\ s \in Seq(ParsedKinds) /\ C \in Seq(ParseCalls) /\ C # <<>>
        /\ Linked(s, C, N) /\ NodesFit(s, C, N, T) /\ N \subseteq Spans
        /\ TopOf(C).operator <= T /\ ~ DueAt(s, T + 1)
        /\ TopOf(C).lhs.from = TopOf(C).operator + 1
    BY DEF Placed, Parsing, Reaches
  <1>2. TopOf(C) \in ParseCalls
    BY <1>1, OpenFacts
  <1>3. PICK o \in Nat : o = TopOf(C).operator /\ TopOf(C).lhs.from = o + 1
    BY <1>1, <1>2 DEF ParseCalls
  <1>4. PICK U \in Nat : U = T + 1 /\ T < U /\ U <= U /\ U \in 1 .. U
    BY <1>1
  <1>5. x = Span(U, o + 1, U)
    BY <1>3, <1>4
  <1>6. x \in Spans /\ x.operator = U /\ x.from = o + 1 /\ x.to = U
    BY <1>5 DEF Span, Spans
  <1>7. WithLhs(TopOf(C), x) \in ParseCalls /\ WithLhs(TopOf(C), x).operator = TopOf(C).operator
        /\ WithLhs(TopOf(C), x).min_power = TopOf(C).min_power
    BY <1>2, <1>6 DEF WithLhs, ParseCalls
  <1>8. Open(D) = Open(C)
    BY <1>1, <1>7, ReplaceFacts DEF Replaced
  <1>9. U \notin Open(D)
    <2>1. \A q \in Open(C) : q \in Nat /\ q <= TopOf(C).operator
      BY <1>1, OpenFacts
    <2>2. \A q \in Nat : q <= o => q # U
      BY <1>1, <1>3, <1>4
    <2>. QED  BY <1>3, <1>8, <2>1, <2>2
  <1>10. OverKept(C, N, D, N \cup {x}, T)
    <2>1. /\ Open(C) \subseteq Open(D) /\ Open(D) \subseteq Open(C) \cup {T + 1}
          /\ N \subseteq N \cup {x} /\ N \cup {x} \subseteq N \cup {x} /\ x.operator = T + 1
      BY <1>4, <1>6, <1>8
    <2>. QED  BY <1>1, <2>1, OverMore
  <1>11. NodeFits(s, D, N \cup {x}, U, x)
    <2>1. Nearest(s, D, N \cup {x}, T + 1, TopOf(C).operator)
      <3>1. TopOf(C).operator \in Open(D)
        BY <1>1, <1>8, OpenFacts
      <3>. QED  BY <1>1, <1>10, <3>1, NearestTop
    <2>2. Nearest(s, D, N \cup {x}, U, o)
      BY <1>3, <1>4, <2>1
    <2>3. ~ HolderAt(s, U) /\ ~ DueAt(s, U)
      BY <1>1, <1>4
    <2>4. OperatorAt(s, U)
      BY <2>3 DEF OperatorAt
    <2>. QED  BY <1>4, <1>6, <1>9, <2>2, <2>3, <2>4 DEF NodeFits
  <1>12. /\ NodesFit(s, D, N \cup {x}, T + 1)
         /\ OpenFit(s, D, N \cup {x}, T + 1)
    <2>1. /\ {x} \subseteq Spans /\ {x} # {}
          /\ \A y \in {x} : y.operator = T + 1
          /\ \A y, z \in {x} : y = z
          /\ \A y \in {x} : T + 1 \notin Open(D) /\ NodeFits(s, D, N \cup {x}, T + 1, y)
          /\ Open(C) \subseteq Open(D) /\ Open(D) \subseteq Open(C) \cup {T + 1}
      BY <1>4, <1>6, <1>8, <1>9, <1>11
    <2>. QED  BY <1>1, <2>1, TakesNext
  <1>13. x.from = TopOf(C).operator + 1 /\ x.to = T + 1
    BY <1>3, <1>4, <1>6
  <1>. QED  BY <1>1, <1>6, <1>10, <1>12, <1>13, LhsTaken

LEMMA OverSame == ASSUME NEW C, NEW N, NEW T PROVE OverKept(C, N, C, N, T)
  BY Zenon DEF OverKept

\* Nothing but calls that have not returned reaches over what comes after T.
LEMMA NoneReaches ==
    ASSUME NEW s, NEW C, NEW N, NEW T, Placed(s, C, N, T), TopOf(C).operator <= T,
           NEW D, NEW M, OverKept(C, N, D, M, T),
           NEW h \in TopOf(C).operator + 1 .. T, HolderAt(s, h)
    PROVE  ~ Over(D, M, h, T + 1)
  <1>1. /\ T \in Nat /\ C \in Seq(ParseCalls) /\ C # <<>> /\ N \subseteq Spans
        /\ Linked(s, C, N) /\ NodesFit(s, C, N, T)
    BY DEF Placed, Parsing
  <1>2. TopOf(C).operator \in Open(C) /\ TopOf(C) \in ParseCalls
    BY <1>1, OpenFacts
  <1>3. PICK o \in Nat : o = TopOf(C).operator
    BY <1>2 DEF ParseCalls
  <1>4. OverKept(C, N, C, N, T)
    BY OverSame
  <1>5. Nearest(s, C, N, T + 1, TopOf(C).operator)
    BY <1>1, <1>2, <1>4, NearestTop
  <1>6. h \in o + 1 .. (T + 1) - 1 /\ h \in 1 .. T
    BY <1>1, <1>3
  <1>7. ~ Over(C, N, h, T + 1)
    BY <1>3, <1>5, <1>6 DEF Nearest
  <1>. QED  BY <1>6, <1>7 DEF OverKept

\* pratt_parse returns to a handler.
LEMMA CallReturned ==
    ASSUME NEW s, NEW C, NEW N, NEW T, Placed(s, C, N, T),
           TopOf(C).at = "peek", TopOf(C).operator # 0,
           ~ (TopOf(C).min_power < PowerOn(s, T + 1)), Seen(s, T + 1),
           NEW f, f = TopOf(Front(C)),
           NEW x, x = Span(TopOf(C).operator,
                           IF f.at = "peek" THEN f.lhs.from ELSE TopOf(C).operator,
                           TopOf(C).lhs.to),
           NEW D, Replaced(Front(C), x, D)
    PROVE  /\ x \in Spans /\ D \in Seq(ParseCalls) /\ D # <<>>
           /\ Parsing(s, D, N \cup {x}, T)
  <1>1. /\ T \in Nat /\ s \in Seq(ParsedKinds) /\ C \in Seq(ParseCalls) /\ C # <<>>
        /\ Linked(s, C, N) /\ NodesFit(s, C, N, T) /\ OpenFit(s, C, N, T) /\ N \subseteq Spans
        /\ TopOf(C).operator <= T /\ ~ DueAt(s, T + 1)
        /\ TopOf(C).lhs.to = T
    BY DEF Placed, Parsing, Reaches
  <1>2. /\ TopOf(C) \in ParseCalls /\ TopOf(C).operator \in Open(C)
        /\ \A q \in Open(C) : q \in Nat /\ (q # 0 => HolderAt(s, q))
        /\ Len(C) > 1 /\ TopOf(C).min_power = HoldAt(s, TopOf(C).operator)
        /\ Open(Front(C)) = Open(C) \ {TopOf(C).operator}
    BY <1>1, OpenFacts
  <1>3. PICK o \in 1 .. T : o = TopOf(C).operator
    <2>1. TopOf(C).operator \in Nat /\ TopOf(C).operator <= T /\ TopOf(C).operator # 0 /\ T \in Nat
      BY <1>1, <1>2 DEF ParseCalls
    <2>. QED  BY <2>1
  <1>4. o \in Open(C) /\ HolderAt(s, o) /\ o # 0 /\ o \in Nat
    BY <1>2, <1>3
  <1>5. PICK c \in Nat \ {0, 1} : c = Len(C)
    <2>1. Len(C) \in Nat
      BY <1>1, LenProperties
    <2>. QED  BY <1>2, <2>1
  <1>6. PICK F \in Seq(ParseCalls) :
            /\ F = Front(C) /\ Len(F) = c - 1 /\ F # <<>>
            /\ \A k \in 1 .. c - 1 : F[k] = C[k]
    <2>1. /\ Front(C) \in Seq(ParseCalls) /\ Len(Front(C)) = Len(C) - 1
          /\ \A k \in 1 .. Len(C) - 1 : Front(C)[k] = C[k]
      BY <1>1, FrontFacts
    <2>2. Len(Front(C)) # 0
      BY <1>5, <2>1
    <2>3. Front(C) # <<>>
      BY <2>1, <2>2, EmptySeq
    <2>. QED  BY <1>5, <2>1, <2>3
  <1>7. f = F[c - 1] /\ f = C[c - 1] /\ TopOf(F) = f /\ TopOf(C) = C[c]
    <2>1. c - 1 \in 1 .. c - 1
      BY <1>5
    <2>. QED  BY <1>5, <1>6, <2>1 DEF TopOf
  <1>8. f \in ParseCalls
    <2>1. c - 1 \in 1 .. Len(C)
      BY <1>5
    <2>. QED  BY <1>1, <1>7, <2>1, ElementOfSeq
  <1>9. Links(s, f, TopOf(C)) /\ (~ DueAt(s, o) => Nearest(s, C, N, o, f.operator))
    <2>1. c - 1 \in 1 .. Len(C) - 1 /\ (c - 1) + 1 = c
      BY <1>5
    <2>2. /\ Links(s, C[c - 1], C[(c - 1) + 1])
          /\ ~ DueAt(s, C[(c - 1) + 1].operator) =>
                Nearest(s, C, N, C[(c - 1) + 1].operator, C[c - 1].operator)
      BY <1>1, <2>1 DEF Linked
    <2>. QED  BY <1>3, <1>7, <2>1, <2>2
  <1>10. PICK e \in Nat : e = f.operator /\ e < o
    BY <1>3, <1>8, <1>9 DEF ParseCalls, Links
  <1>11. PICK from : from = (IF f.at = "peek" THEN f.lhs.from ELSE TopOf(C).operator)
    OBVIOUS
  <1>12. from = e + 1 /\ (DueAt(s, o) => from = o)
    <2>1. CASE DueAt(s, o)
      <3>1. f.at = "null denotation" /\ o = f.operator + 1
        BY <1>3, <1>9, <2>1 DEF Links
      <3>2. f.at # "peek"
        BY <3>1
      <3>. QED  BY <1>3, <1>10, <1>11, <3>1, <3>2
    <2>2. CASE ~ DueAt(s, o)
      <3>1. f.at = "peek" /\ f.lhs.from = f.operator + 1
        BY <1>3, <1>9, <2>2 DEF Links
      <3>. QED  BY <1>10, <1>11, <2>2, <3>1
    <2>. QED  BY <2>1, <2>2
  <1>13. x = Span(o, from, T)
    BY <1>1, <1>3, <1>11
  <1>14. x \in Spans /\ x.operator = o /\ x.from = e + 1 /\ x.to = T
    <2>1. from \in Nat
      BY <1>12
    <2>. QED  BY <1>1, <1>4, <1>12, <1>13, <2>1 DEF Span, Spans
  <1>15. PICK g : g = WithLhs(f, x)
    OBVIOUS
  <1>16. /\ g \in ParseCalls /\ g.operator = f.operator
         /\ g.min_power = f.min_power /\ g.lhs = x /\ g.at = "peek"
    BY <1>8, <1>14, <1>15 DEF WithLhs, ParseCalls
  <1>17. /\ D \in Seq(ParseCalls) /\ D # <<>> /\ TopOf(D) = g /\ Open(D) = Open(F)
         /\ Len(D) = c - 1 /\ \A k \in 1 .. (c - 1) - 1 : D[k] = F[k]
    <2>1. D = Append(Front(F), g)
      BY <1>6, <1>7, <1>15 DEF Replaced
    <2>2. g.operator = TopOf(F).operator /\ g.min_power = TopOf(F).min_power
      BY <1>7, <1>16
    <2>3. /\ Append(Front(F), g) \in Seq(ParseCalls) /\ Append(Front(F), g) # <<>>
          /\ TopOf(Append(Front(F), g)) = g
          /\ Open(Append(Front(F), g)) = Open(F)
          /\ Len(Append(Front(F), g)) = Len(F)
          /\ \A k \in 1 .. Len(F) - 1 : Append(Front(F), g)[k] = F[k]
      BY <1>6, <1>16, <2>2, ReplaceFacts
    <2>. QED  BY <1>6, <2>1, <2>3
  <1>18. CallsStay(C, D)
    <2>1. c - 1 <= c /\ \A k \in 1 .. (c - 1) - 1 : k \in 1 .. c - 1
      BY <1>5
    <2>2. \A k \in 1 .. (c - 1) - 1 : D[k] = C[k]
      BY <1>6, <1>17, <2>1
    <2>3. D[c - 1] = g
      BY <1>17 DEF TopOf
    <2>. QED  BY <1>5, <1>7, <1>16, <1>17, <2>1, <2>2, <2>3 DEF CallsStay
  <1>19. Open(D) = Open(C) \ {o}
    BY <1>2, <1>3, <1>6, <1>17
  <1>20. OverKept(C, N, D, N \cup {x}, T)
    BY <1>1, <1>4, <1>14, <1>19, OverClosed
  <1>21. TextKept(s, s, T)
    BY TextKeptSame
  <1>22. Linked(s, D, N \cup {x})
    <2>1. UpTo(C, T)
      BY <1>1, CallsUpTo
    <2>. QED  BY <1>1, <1>17, <1>18, <1>20, <1>21, <2>1, LinkedKept
  <1>23. Reaches(s, g, T)
    <2>1. g.operator <= T
      BY <1>1, <1>10, <1>16
    <2>2. g.lhs.from = g.operator + 1 /\ g.lhs.to = T /\ g.at # "null denotation"
      BY <1>10, <1>14, <1>16
    <2>. QED  BY <1>1, <2>1, <2>2 DEF Reaches
  <1>24. Closes(s, D, N \cup {x}, o, T + 1)
    <2>1. ~ (HoldAt(s, o) < PowerOn(s, T + 1))
      BY <1>2, <1>3
    <2>2. \A h \in o + 1 .. (T + 1) - 1 : h \in o + 1 .. T
      BY <1>1
    <2>3. \A h \in o + 1 .. (T + 1) - 1 : HolderAt(s, h) => ~ Over(D, N \cup {x}, h, T + 1)
      BY <1>1, <1>3, <1>20, <2>2, NoneReaches
    <2>. QED  BY <1>1, <2>1, <2>3 DEF Closes
  <1>25. \A r \in o + 1 .. T : ~ Closes(s, D, N \cup {x}, o, r)
    <2>1. ASSUME NEW r \in o + 1 .. T PROVE ~ Closes(s, D, N \cup {x}, o, r)
      <3>1. r \in 1 .. T
        BY <1>1, <1>3
      <3>2. ~ Closes(s, C, N, o, r)
        BY <1>1, <1>4 DEF OpenFit
      <3>. QED  BY <1>1, <1>20, <1>21, <3>1, <3>2, ClosesKept
    <2>. QED  BY <2>1
  <1>26. NodeFits(s, D, N \cup {x}, T, x)
    <2>1. OperatorAt(s, o) /\ o \notin Open(D)
      BY <1>4, <1>19 DEF OperatorAt
    <2>2. o <= T /\ T <= T
      BY <1>1
    <2>3. ~ DueAt(s, o) => Nearest(s, D, N \cup {x}, o, e)
      BY <1>1, <1>9, <1>10, <1>20, <1>21, NearestKept
    <2>. QED  BY <1>4, <1>10, <1>12, <1>14, <1>24, <1>25, <2>1, <2>2, <2>3 DEF NodeFits
  <1>27. NodesFit(s, D, N \cup {x}, T)
    <2>1. \A n \in N : n.operator \notin Open(C)
      BY <1>1 DEF NodesFit, NodeFits
    <2>2. PICK X : X = {x}
      OBVIOUS
    <2>3. /\ X \subseteq Spans
          /\ \A y, z \in X : y = z
          /\ \A n \in N, y \in X : n.operator # y.operator
          /\ \A n \in N : n.operator \notin Open(D)
          /\ \A y \in X : NodeFits(s, D, N \cup X, T, y)
          /\ \A p \in 1 .. T : p \in Open(C) => p \in Open(D) \/ \E y \in X : y.operator = p
      BY <1>4, <1>14, <1>19, <1>26, <2>1, <2>2
    <2>4. T <= T /\ \A p \in T + 1 .. T : FALSE
      BY <1>1
    <2>5. \A p \in T + 1 .. T :
             /\ OperatorAt(s, p) => p \in Open(D) \/ \E y \in X : y.operator = p
             /\ ~ DueAt(s, p) => Minimum < PowerOn(s, p)
      BY <2>4
    <2>6. OverKept(C, N, D, N \cup X, T)
      BY <1>20, <2>2
    <2>7. NodesFit(s, D, N \cup X, T)
      BY <1>1, <1>21, <2>3, <2>4, <2>5, <2>6, NodesMore
    <2>. QED  BY <2>2, <2>7
  <1>28. OpenFit(s, D, N \cup {x}, T)
    <2>1. \A q \in Open(C) : q \in 0 .. T
      <3>1. \A q \in Open(C) : q \in Nat /\ q <= TopOf(C).operator
        BY <1>1, OpenFacts
      <3>. QED  BY <1>1, <1>3, <3>1
    <2>2. \A q \in Open(D) : q \in Open(C) \/ q = T
      BY <1>19
    <2>3. T # T + 1
      BY <1>1
    <2>. QED  BY <1>1, <1>20, <1>21, <2>1, <2>2, <2>3, OpenMore
  <1>. QED  BY <1>14, <1>17, <1>22, <1>23, <1>27, <1>28 DEF Parsing

\* The text is read further where nothing is known of it.
LEMMA TextRead ==
    ASSUME NEW s, NEW C, NEW N, NEW T, Placed(s, C, N, T), T = Len(s),
           \A p \in 1 .. T : s[p] # "EOF",
           NEW k \in ParsedKinds
    PROVE  Append(s, k) \in Seq(ParsedKinds) /\ Parsing(Append(s, k), C, N, T)
  <1>1. /\ T \in Nat /\ s \in Seq(ParsedKinds) /\ C \in Seq(ParseCalls) /\ C # <<>>
        /\ Linked(s, C, N) /\ NodesFit(s, C, N, T) /\ OpenFit(s, C, N, T) /\ N \subseteq Spans
        /\ Reaches(s, TopOf(C), T) /\ TopOf(C).operator <= T
    BY DEF Placed, Parsing, Reaches
  <1>2. PICK t \in Seq(ParsedKinds) :
            /\ t = Append(s, k) /\ Len(t) = T + 1 /\ \A p \in 1 .. T : t[p] = s[p]
    <2>1. /\ Append(s, k) \in Seq(ParsedKinds) /\ Len(Append(s, k)) = Len(s) + 1
          /\ \A p \in 1 .. Len(s) : Append(s, k)[p] = s[p]
      BY <1>1, AppendFacts
    <2>. QED  BY <2>1
  <1>3. \A p \in 1 .. T + 1 : DueAt(s, p) <=> DueAt(t, p)
    <2>1. T <= Len(s) /\ T <= Len(t)
      BY <1>1, <1>2
    <2>. QED  BY <1>1, <1>2, <2>1, DueSame
  <1>4. ASSUME NEW p \in 1 .. T
        PROVE  /\ HolderAt(s, p) <=> HolderAt(t, p)
               /\ HoldAt(s, p) = HoldAt(t, p) /\ PowerOn(s, p) = PowerOn(t, p)
    <2>1. p \in 1 .. T + 1 /\ p \in 1 .. Len(s) /\ p \in 1 .. Len(t) /\ s[p] = t[p]
      BY <1>1, <1>2
    <2>2. DueAt(s, p) <=> DueAt(t, p)
      BY <1>3, <2>1
    <2>3. HolderAt(s, p) <=> HolderAt(t, p)
      BY <2>1, <2>2 DEF HolderAt
    <2>4. HoldAt(s, p) = HoldAt(t, p)
      BY <2>1, <2>2 DEF HoldAt
    <2>5. PowerOn(s, p) = PowerOn(t, p)
      BY <2>1 DEF PowerOn
    <2>. QED  BY <2>3, <2>4, <2>5
  <1>5. ~ Seen(s, T + 1)
    BY <1>1 DEF Seen
  <1>6. \A r \in Nat : Seen(s, r) => Seen(t, r)
    BY <1>1, <1>2 DEF Seen
  <1>7. TextKept(s, t, T)
    BY <1>3, <1>4, <1>5, <1>6 DEF TextKept
  <1>8. OverKept(C, N, C, N, T)
    BY OverSame
  <1>9. Linked(t, C, N)
    <2>1. CallsStay(C, C)
      <3>1. Len(C) \in Nat
        BY <1>1, LenProperties
      <3>. QED  BY <3>1 DEF CallsStay
    <2>2. UpTo(C, T)
      BY <1>1, CallsUpTo
    <2>. QED  BY <1>1, <1>7, <1>8, <2>1, <2>2, LinkedKept
  <1>10. Reaches(t, TopOf(C), T)
    <2>1. T + 1 \in 1 .. T + 1
      BY <1>1
    <2>2. DueAt(s, T + 1) <=> DueAt(t, T + 1)
      BY <1>3, <2>1
    <2>. QED  BY <1>1, <2>2 DEF Reaches
  <1>11. T <= T /\ T # T + 1 /\ \A p \in T + 1 .. T : FALSE
    BY <1>1
  <1>12. NodesFit(t, C, N, T)
    <2>1. N \cup {} = N
      OBVIOUS
    <2>2. \A n \in N : n.operator \notin Open(C)
      BY <1>1 DEF NodesFit, NodeFits
    <2>3. OverKept(C, N, C, N \cup {}, T)
      BY <1>8, <2>1
    <2>4. NodesFit(t, C, N \cup {}, T)
      BY <1>1, <1>7, <1>11, <2>2, <2>3, NodesMore
    <2>. QED  BY <2>1, <2>4
  <1>13. OpenFit(t, C, N, T)
    <2>1. \A q \in Open(C) : q \in 0 .. T
      <3>1. \A q \in Open(C) : q \in Nat /\ q <= TopOf(C).operator
        BY <1>1, OpenFacts
      <3>2. TopOf(C) \in ParseCalls
        BY <1>1, OpenFacts
      <3>3. TopOf(C).operator \in Nat
        BY <3>2 DEF ParseCalls
      <3>. QED  BY <1>1, <3>1, <3>3
    <2>. QED  BY <1>1, <1>7, <1>8, <1>11, <2>1, OpenMore
  <1>. QED  BY <1>2, <1>9, <1>10, <1>12, <1>13 DEF Parsing

-------------------------------------------------------------------------------
\* The steps of pratt_parse.

LEMMA EndBinds == LbpGet("EOF") = Minimum
  BY PowersAssumption DEF LbpGet

LEMMA PowerAhead ==
    ASSUME NEW s, NEW c \in Nat, Len(s) = c + 1, NEW T, TakenFits(s, c, T)
    PROVE  PowerOn(s, T + 1) = LbpGet(s[c + 1])
  <1>1. CASE T = c
    <2>1. T + 1 \in 1 .. Len(s)
      BY <1>1
    <2>. QED  BY <1>1, <2>1 DEF PowerOn
  <1>2. CASE T # c
    <2>1. T + 1 \notin 1 .. Len(s) /\ s[c + 1] = "EOF"
      BY <1>2 DEF TakenFits
    <2>. QED  BY <2>1, EndBinds DEF PowerOn
  <1>. QED  BY <1>1, <1>2

LEMMA AheadIs ==
    ASSUME NEW s \in Seq(ParsedKinds), NEW c \in Nat, Len(s) = c + 1,
           NEW C \in Seq(ParseCalls), C # <<>>, NEW N, N \subseteq Spans,
           NEW T \in Nat, TakenFits(s, c, T), Parsing(s, C, N, T)
    PROVE  /\ Placed(s, C, N, T)
           /\ TopOf(C).at = "null denotation" => T = c
           /\ PowerOn(s, T + 1) = LbpGet(s[c + 1])
           /\ Seen(s, T + 1)
           /\ TopOf(C).min_power < LbpGet(s[c + 1]) => T = c /\ s[c + 1] # "EOF"
           /\ T # c => s[c + 1] = "EOF"
  <1>1. /\ Linked(s, C, N) /\ NodesFit(s, C, N, T) /\ Reaches(s, TopOf(C), T)
    BY DEF Parsing
  <1>2. T = c \/ (T = c + 1 /\ s[c + 1] = "EOF")
    BY DEF TakenFits
  <1>3. T <= Len(s)
    BY <1>2
  <1>4. Placed(s, C, N, T)
    BY <1>3 DEF Placed
  <1>5. ASSUME T # c PROVE TopOf(C).at # "null denotation"
    <2>1. T = c + 1 /\ s[T] = "EOF" /\ T \in 1 .. T /\ T \in 1 .. Len(s) /\ T # 0
      BY <1>2, <1>5
    <2>2. SUFFICES ASSUME TopOf(C).at = "null denotation" PROVE FALSE
      OBVIOUS
    <2>3. TopOf(C).operator = T
      BY <1>1, <2>2 DEF Reaches
    <2>4. HolderAt(s, T)
      BY <1>1, <2>1, <2>3, OpenFacts
    <2>5. ~ DueAt(s, T)
      BY <2>1, <2>4, PowersAssumption DEF HolderAt
    <2>6. Minimum < PowerOn(s, T)
      BY <1>1, <2>1, <2>5 DEF NodesFit
    <2>7. PowerOn(s, T) = Minimum
      BY <2>1, EndBinds DEF PowerOn
    <2>. QED  BY <2>6, <2>7, PowersAssumption
  <1>6. PowerOn(s, T + 1) = LbpGet(s[c + 1])
    BY PowerAhead
  <1>7. Seen(s, T + 1)
    <2>1. CASE T = c
      <3>1. T + 1 <= Len(s)
        BY <2>1
      <3>. QED  BY <3>1 DEF Seen
    <2>2. CASE T # c
      <3>1. c + 1 \in 1 .. Len(s) /\ s[c + 1] = "EOF"
        BY <1>2, <2>2
      <3>. QED  BY <3>1 DEF Seen
    <2>. QED  BY <2>1, <2>2
  <1>8. ASSUME TopOf(C).min_power < LbpGet(s[c + 1]) PROVE s[c + 1] # "EOF"
    <2>1. TopOf(C).min_power \in Int /\ Minimum <= TopOf(C).min_power /\ Minimum \in Int
      BY <1>1, MinPower, PowersAssumption
    <2>2. LbpGet(s[c + 1]) # Minimum
      BY <1>8, <2>1
    <2>. QED  BY <2>2, EndBinds
  <1>. QED  BY <1>2, <1>4, <1>5, <1>6, <1>7, <1>8

\* A token that is not the end has been taken.
LEMMA OneTaken ==
    ASSUME NEW s, NEW c \in Nat, TakenFits(s, c, c), s[c + 1] # "EOF"
    PROVE  TakenFits(s, c + 1, c + 1)
  <1>1. \A p \in 1 .. c + 1 : p \in 1 .. c \/ p = c + 1
    OBVIOUS
  <1>. QED  BY <1>1 DEF TakenFits

LEMMA LatestIs == Latest = TopOf(calls) /\ (ParseTyped => TopOf(calls) \in ParseCalls)
  <1>1. Latest = TopOf(calls)
    BY DEF Latest, TopOf, Last
  <1>2. ParseTyped => TopOf(calls) \in ParseCalls
    BY FrontFacts DEF ParseTyped, TopOf
  <1>. QED  BY <1>1, <1>2

\* What is known when there is a token to look at.
LEMMA RunningIs ==
    ASSUME ParseInv, parse_status = "running", consumed < Len(parsed)
    PROVE  /\ parsed \in Seq(ParsedKinds) /\ consumed \in Nat /\ Len(parsed) = consumed + 1
           /\ calls \in Seq(ParseCalls) /\ calls # <<>> /\ nodes \subseteq Spans
           /\ parsed[consumed + 1] \in ParsedKinds
           /\ \E T \in Nat : TakenFits(parsed, consumed, T) /\ Parsing(parsed, calls, nodes, T)
  <1>1. /\ parsed \in Seq(ParsedKinds) /\ consumed \in Nat
        /\ Len(parsed) = consumed \/ Len(parsed) = consumed + 1
        /\ calls \in Seq(ParseCalls) /\ calls # <<>> /\ nodes \subseteq Spans
    BY DEF ParseInv, ParseTyped
  <1>2. Len(parsed) = consumed + 1 /\ consumed + 1 \in 1 .. Len(parsed)
    BY <1>1
  <1>3. parsed[consumed + 1] \in ParsedKinds
    BY <1>1, <1>2, ElementOfSeq
  <1>4. ParseFits(parsed, consumed, calls, nodes)
    BY DEF ParseInv
  <1>. QED  BY <1>1, <1>2, <1>3, <1>4 DEF ParseFits

LEMMA OneCall ==
    ASSUME NEW g \in ParseCalls
    PROVE  /\ <<g>> \in Seq(ParseCalls) /\ <<g>> # <<>>
           /\ Len(<<g>>) = 1 /\ <<g>>[1] = g
  OBVIOUS

LEMMA ParseStarts == ASSUME ParseInit PROVE ParseInv
  <1>1. PICK g : g = ParseCall(0, Minimum)
    OBVIOUS
  <1>2. /\ g \in ParseCalls /\ g.operator = 0 /\ g.min_power = Minimum /\ g.at = "null denotation"
    BY <1>1, PowersAssumption DEF ParseCall, ParseCalls, Span, Spans
  <1>3. /\ calls = <<g>> /\ calls \in Seq(ParseCalls) /\ calls # <<>>
        /\ Len(calls) = 1 /\ calls[1] = g
    <2>1. calls = <<g>>
      BY <1>1 DEF ParseInit
    <2>2. /\ <<g>> \in Seq(ParseCalls) /\ <<g>> # <<>>
          /\ Len(<<g>>) = 1 /\ <<g>>[1] = g
      BY <1>2, OneCall
    <2>. QED  BY <2>1, <2>2
  <1>4. /\ parsed = <<>> /\ parsed \in Seq(ParsedKinds) /\ Len(parsed) = 0
        /\ consumed = 0 /\ nodes = {} /\ parse_status = "running"
    BY DEF ParseInit
  <1>5. ParseTyped
    BY <1>3, <1>4 DEF ParseTyped
  <1>6. DueAt(parsed, 1) /\ 0 + 1 = 1 /\ 0 \in Nat /\ 0 <= 0
    <2>1. DueAt(parsed, 1)
      BY <1>4, DueFacts
    <2>. QED  BY <2>1
  <1>7. TakenFits(parsed, consumed, 0)
    BY <1>4 DEF TakenFits
  <1>8. Linked(parsed, calls, nodes)
    <2>1. \A k \in 1 .. 1 - 1 : FALSE
      OBVIOUS
    <2>2. \A k \in 1 .. Len(calls) - 1 : FALSE
      BY <1>3, <2>1
    <2>. QED  BY <1>2, <1>3, <2>2 DEF Linked
  <1>9. TopOf(calls) = g /\ Open(calls) = {0}
    <2>1. TopOf(calls) = g
      BY <1>3 DEF TopOf
    <2>2. 1 .. 1 = {1}
      OBVIOUS
    <2>. QED  BY <1>2, <1>3, <2>1, <2>2 DEF Open
  <1>10. Reaches(parsed, TopOf(calls), 0)
    BY <1>2, <1>6, <1>9 DEF Reaches
  <1>11. NodesFit(parsed, calls, nodes, 0) /\ OpenFit(parsed, calls, nodes, 0)
    <2>1. \A p \in 1 .. 0 : FALSE
      OBVIOUS
    <2>. QED  BY <1>4, <1>9, <2>1 DEF NodesFit, OpenFit
  <1>12. ParseFits(parsed, consumed, calls, nodes)
    BY <1>6, <1>7, <1>8, <1>10, <1>11 DEF ParseFits, Parsing
  <1>. QED  BY <1>4, <1>5, <1>12 DEF ParseInv

\* What a step has to show, when it takes a token or returns to a handler.
LEMMA StepFits ==
    ASSUME ParseInv, parse_status = "running", UNCHANGED <<parsed, parse_status>>,
           consumed' \in {consumed, consumed + 1}, consumed' <= Len(parsed),
           consumed < Len(parsed),
           calls' \in Seq(ParseCalls), calls' # <<>>, nodes' \subseteq Spans,
           ParseFits(parsed', consumed', calls', nodes')
    PROVE  ParseInv'
  <1>1. /\ parsed \in Seq(ParsedKinds) /\ consumed \in Nat /\ Len(parsed) = consumed + 1
    BY RunningIs
  <1>2. parsed' = parsed /\ parse_status' = "running"
    OBVIOUS
  <1>3. consumed' \in Nat /\ (Len(parsed') = consumed' \/ Len(parsed') = consumed' + 1)
    <2>1. PICK a, b : a = consumed /\ b = consumed'
      OBVIOUS
    <2>2. a \in Nat /\ b \in {a, a + 1} /\ b <= a + 1
      BY <1>1, <2>1
    <2>3. b \in Nat /\ (a + 1 = b \/ a + 1 = b + 1)
      BY <2>2
    <2>. QED  BY <1>1, <1>2, <2>1, <2>3
  <1>4. ParseTyped'
    BY <1>1, <1>2, <1>3 DEF ParseTyped
  <1>. QED  BY <1>2, <1>4 DEF ParseInv

LEMMA PastFacts ==
    ASSUME NEW c \in Nat, NEW n, n = c + 1
    PROVE  c + 1 \in Nat /\ c + 1 <= n
  OBVIOUS

\* Something is to be done with the token ahead, the latest call being there.
LEMMA RunsAt ==
    ASSUME ParseInv, NEW place, Running(place)
    PROVE  /\ parse_status = "running" /\ consumed < Len(parsed)
           /\ parsed \in Seq(ParsedKinds) /\ consumed \in Nat /\ Len(parsed) = consumed + 1
           /\ calls \in Seq(ParseCalls) /\ calls # <<>> /\ nodes \subseteq Spans
           /\ Latest = TopOf(calls) /\ TopOf(calls).at = place
           /\ \E T \in Nat :
                 /\ TakenFits(parsed, consumed, T) /\ Placed(parsed, calls, nodes, T)
                 /\ place = "null denotation" => T = consumed
                 /\ PowerOn(parsed, T + 1) = LbpGet(TokenAhead)
                 /\ Seen(parsed, T + 1)
                 /\ GoesOn => T = consumed /\ TokenAhead # "EOF"
                 /\ ~ GoesOn => ~ (TopOf(calls).min_power < PowerOn(parsed, T + 1))
                 /\ GoesOn => TopOf(calls).min_power < PowerOn(parsed, T + 1)
  <1>1. /\ parse_status = "running" /\ consumed < Len(parsed)
        /\ Latest = TopOf(calls) /\ TopOf(calls).at = place
    BY LatestIs DEF Running
  <1>2. /\ parsed \in Seq(ParsedKinds) /\ consumed \in Nat /\ Len(parsed) = consumed + 1
        /\ calls \in Seq(ParseCalls) /\ calls # <<>> /\ nodes \subseteq Spans
    BY <1>1, RunningIs
  <1>3. PICK T \in Nat : TakenFits(parsed, consumed, T) /\ Parsing(parsed, calls, nodes, T)
    BY <1>1, RunningIs
  <1>4. /\ Placed(parsed, calls, nodes, T)
        /\ TopOf(calls).at = "null denotation" => T = consumed
        /\ PowerOn(parsed, T + 1) = LbpGet(parsed[consumed + 1])
        /\ Seen(parsed, T + 1)
        /\ TopOf(calls).min_power < LbpGet(parsed[consumed + 1]) =>
              T = consumed /\ parsed[consumed + 1] # "EOF"
    <2>1. PICK c, n, C, N : c = consumed /\ n = Len(parsed) /\ C = calls /\ N = nodes
      OBVIOUS
    <2>2. /\ parsed \in Seq(ParsedKinds) /\ c \in Nat /\ Len(parsed) = c + 1
          /\ C \in Seq(ParseCalls) /\ C # <<>> /\ N \subseteq Spans
      BY <1>2, <2>1, Zenon
    <2>3. TakenFits(parsed, c, T) /\ Parsing(parsed, C, N, T)
      BY <1>3, <2>1, Zenon
    <2>4. PICK s : s = parsed
      OBVIOUS
    <2>5. /\ s \in Seq(ParsedKinds) /\ Len(s) = c + 1
          /\ TakenFits(s, c, T) /\ Parsing(s, C, N, T)
      BY <2>2, <2>3, <2>4, Zenon
    <2>6. Placed(s, C, N, T)
      BY <1>3, <2>2, <2>5, AheadIs
    <2>10. Seen(s, T + 1)
      BY <1>3, <2>2, <2>5, AheadIs
    <2>7. TopOf(C).at = "null denotation" => T = c
      BY <1>3, <2>2, <2>5, AheadIs
    <2>8. PowerOn(s, T + 1) = LbpGet(s[c + 1])
      BY <2>2, <2>5, PowerAhead
    <2>9. TopOf(C).min_power < LbpGet(s[c + 1]) => T = c /\ s[c + 1] # "EOF"
      BY <1>3, <2>2, <2>5, AheadIs
    <2>. QED  BY <2>1, <2>4, <2>6, <2>7, <2>8, <2>9, <2>10, Zenon
  <1>5. GoesOn <=> TopOf(calls).min_power < LbpGet(TokenAhead)
    BY <1>1 DEF GoesOn, BindingPowersLt
  <1>6. TokenAhead = parsed[consumed + 1]
    BY DEF TokenAhead
  <1>. QED  BY <1>1, <1>2, <1>3, <1>4, <1>5, <1>6

LEMMA NextTaken ==
    ASSUME consumed \in Nat, Len(parsed) = consumed + 1, GetNext
    PROVE  /\ consumed' \in {consumed, consumed + 1} /\ consumed' <= Len(parsed)
           /\ TokenAhead # "EOF" => consumed' = consumed + 1
           /\ TokenAhead = "EOF" => consumed' = consumed
  BY DEF GetNext

LEMMA ExecuteOperandStep == ASSUME ParseInv, ExecuteOperand PROVE ParseInv'
  <1>1. /\ Running("null denotation") /\ TokenAhead \notin DOMAIN NudPower /\ GetNext
        /\ calls' = Append(Front(calls), WithLhs(Latest, Span(0, consumed + 1, consumed + 1)))
        /\ UNCHANGED <<parsed, nodes, parse_status>>
    BY DEF ExecuteOperand
  <1>2. /\ parse_status = "running" /\ consumed < Len(parsed)
        /\ parsed \in Seq(ParsedKinds) /\ consumed \in Nat /\ Len(parsed) = consumed + 1
        /\ calls \in Seq(ParseCalls) /\ calls # <<>> /\ nodes \subseteq Spans
        /\ Latest = TopOf(calls) /\ TopOf(calls).at = "null denotation"
        /\ TakenFits(parsed, consumed, consumed) /\ Placed(parsed, calls, nodes, consumed)
    BY <1>1, RunsAt
  <1>3. /\ consumed' \in {consumed, consumed + 1} /\ consumed' <= Len(parsed)
        /\ TokenAhead # "EOF" => consumed' = consumed + 1
        /\ TokenAhead = "EOF" => consumed' = consumed
    BY <1>1, <1>2, NextTaken
  <1>4. Replaced(calls, Span(0, consumed + 1, consumed + 1), calls')
    BY <1>1, <1>2 DEF Replaced
  <1>5. TokenAhead = parsed[consumed + 1]
    BY DEF TokenAhead
  <1>6. /\ calls' \in Seq(ParseCalls) /\ calls' # <<>>
        /\ Parsing(parsed, calls', nodes, consumed + 1)
    <2>1. consumed + 1 <= Len(parsed)
      BY <1>2, PastFacts, Zenon
    <2>2. parsed[consumed + 1] \notin DOMAIN NudPower
      BY <1>1, <1>5
    <2>. QED  BY <1>2, <1>4, <2>1, <2>2, OperandTaken
  <1>7. TakenFits(parsed, consumed', consumed + 1)
    <2>1. CASE TokenAhead = "EOF"
      <3>1. consumed' = consumed /\ parsed[consumed + 1] = "EOF"
        BY <1>3, <1>5, <2>1
      <3>. QED  BY <1>2, <3>1 DEF TakenFits
    <2>2. CASE TokenAhead # "EOF"
      <3>1. consumed' = consumed + 1 /\ parsed[consumed + 1] # "EOF"
        BY <1>3, <1>5, <2>2
      <3>2. TakenFits(parsed, consumed + 1, consumed + 1)
        BY <1>2, <3>1, OneTaken
      <3>. QED  BY <3>1, <3>2
    <2>. QED  BY <2>1, <2>2
  <1>8. ParseFits(parsed', consumed', calls', nodes')
    <2>1. consumed + 1 \in Nat
      BY <1>2, PastFacts, Zenon
    <2>2. parsed' = parsed /\ nodes' = nodes
      BY <1>1
    <2>. QED  BY <1>6, <1>7, <2>1, <2>2 DEF ParseFits
  <1>. QED  BY <1>1, <1>2, <1>3, <1>6, <1>8, StepFits

\* The same for a handler that calls pratt_parse.
LEMMA CallStep ==
    ASSUME ParseInv, NEW place, Running(place), GetNext, TokenAhead # "EOF",
           place = "null denotation" \/ GoesOn,
           NEW m, calls' = Append(calls, ParseCall(consumed + 1, m)),
           HolderAt(parsed, consumed + 1), m = HoldAt(parsed, consumed + 1),
           UNCHANGED <<parsed, nodes, parse_status>>
    PROVE  ParseInv'
  <1>2. /\ parse_status = "running" /\ consumed < Len(parsed)
        /\ parsed \in Seq(ParsedKinds) /\ consumed \in Nat /\ Len(parsed) = consumed + 1
        /\ calls \in Seq(ParseCalls) /\ calls # <<>> /\ nodes \subseteq Spans
        /\ TopOf(calls).at = place
        /\ TakenFits(parsed, consumed, consumed) /\ Placed(parsed, calls, nodes, consumed)
        /\ GoesOn => TopOf(calls).min_power < PowerOn(parsed, consumed + 1)
    BY RunsAt
  <1>3. /\ consumed' \in {consumed, consumed + 1} /\ consumed' <= Len(parsed)
        /\ consumed' = consumed + 1
    BY <1>2, NextTaken
  <1>4. Called(calls, consumed + 1, m, calls')
    BY DEF Called
  <1>5. DueAt(parsed, consumed + 1) \/ TopOf(calls).min_power < PowerOn(parsed, consumed + 1)
    <2>1. CASE place = "null denotation"
      <3>1. TopOf(calls).at = "null denotation" /\ Reaches(parsed, TopOf(calls), consumed)
        BY <1>2, <2>1 DEF Placed, Parsing
      <3>. QED  BY <3>1 DEF Reaches
    <2>2. CASE GoesOn
      BY <1>2, <2>2
    <2>. QED  BY <2>1, <2>2
  <1>6. /\ calls' \in Seq(ParseCalls) /\ calls' # <<>>
        /\ Parsing(parsed, calls', nodes, consumed + 1)
    <2>1. consumed + 1 <= Len(parsed)
      BY <1>2, PastFacts, Zenon
    <2>. QED  BY <1>2, <1>4, <1>5, <2>1, CallMade
  <1>7. TakenFits(parsed, consumed', consumed + 1)
    <2>1. parsed[consumed + 1] # "EOF"
      BY DEF TokenAhead
    <2>2. TakenFits(parsed, consumed + 1, consumed + 1)
      BY <1>2, <2>1, OneTaken
    <2>. QED  BY <1>3, <2>2
  <1>8. ParseFits(parsed', consumed', calls', nodes')
    <2>1. consumed + 1 \in Nat
      BY <1>2, PastFacts, Zenon
    <2>2. parsed' = parsed /\ nodes' = nodes
      OBVIOUS
    <2>. QED  BY <1>6, <1>7, <2>1, <2>2 DEF ParseFits
  <1>. QED  BY <1>2, <1>3, <1>6, <1>8, StepFits

LEMMA DueAhead ==
    ASSUME NEW s, NEW C, NEW N, NEW T, Placed(s, C, N, T)
    PROVE  /\ TopOf(C).at = "null denotation" => DueAt(s, T + 1)
           /\ TopOf(C).at = "peek" => ~ DueAt(s, T + 1)
  BY DEF Placed, Parsing, Reaches

LEMMA ExecutePrefixStep == ASSUME ParseInv, ExecutePrefix PROVE ParseInv'
  <1>1. /\ Running("null denotation") /\ TokenAhead \in DOMAIN NudPower /\ GetNext
        /\ calls' = Append(calls, ParseCall(consumed + 1, NudPower[TokenAhead]))
        /\ UNCHANGED <<parsed, nodes, parse_status>>
    BY DEF ExecutePrefix
  <1>2. TokenAhead # "EOF" /\ TokenAhead = parsed[consumed + 1]
    BY <1>1, PowersAssumption DEF TokenAhead
  <1>3. DueAt(parsed, consumed + 1)
    <2>1. Placed(parsed, calls, nodes, consumed) /\ TopOf(calls).at = "null denotation"
      BY <1>1, RunsAt
    <2>. QED  BY <2>1, DueAhead
  <1>4. /\ HolderAt(parsed, consumed + 1)
        /\ NudPower[TokenAhead] = HoldAt(parsed, consumed + 1)
    BY <1>1, <1>2, <1>3 DEF HolderAt, HoldAt
  <1>. QED  BY <1>1, <1>2, <1>4, CallStep

LEMMA ExecuteInfixStep == ASSUME ParseInv, ExecuteInfix PROVE ParseInv'
  <1>1. /\ Running("peek") /\ GoesOn /\ TokenAhead \in DOMAIN LedPower /\ GetNext
        /\ calls' = Append(calls, ParseCall(consumed + 1, LedPower[TokenAhead]))
        /\ UNCHANGED <<parsed, nodes, parse_status>>
    BY DEF ExecuteInfix
  <1>2. TokenAhead # "EOF" /\ TokenAhead = parsed[consumed + 1]
    BY <1>1, RunsAt DEF TokenAhead
  <1>3. ~ DueAt(parsed, consumed + 1)
    <2>1. Placed(parsed, calls, nodes, consumed) /\ TopOf(calls).at = "peek"
      BY <1>1, RunsAt
    <2>. QED  BY <2>1, DueAhead
  <1>4. /\ HolderAt(parsed, consumed + 1)
        /\ LedPower[TokenAhead] = HoldAt(parsed, consumed + 1)
    BY <1>1, <1>2, <1>3 DEF HolderAt, HoldAt
  <1>. QED  BY <1>1, <1>2, <1>4, CallStep

LEMMA ExecutePostfixStep == ASSUME ParseInv, ExecutePostfix PROVE ParseInv'
  <1>1. PICK x :
            /\ Running("peek") /\ GoesOn /\ TokenAhead \in Postfixes /\ GetNext
            /\ x = Span(consumed + 1, Latest.lhs.from, consumed + 1)
            /\ nodes' = nodes \cup {x}
            /\ calls' = Append(Front(calls), WithLhs(Latest, x))
            /\ UNCHANGED <<parsed, parse_status>>
    BY DEF ExecutePostfix
  <1>2. /\ parse_status = "running" /\ consumed < Len(parsed)
        /\ parsed \in Seq(ParsedKinds) /\ consumed \in Nat /\ Len(parsed) = consumed + 1
        /\ calls \in Seq(ParseCalls) /\ calls # <<>> /\ nodes \subseteq Spans
        /\ Latest = TopOf(calls) /\ TopOf(calls).at = "peek"
        /\ TakenFits(parsed, consumed, consumed) /\ Placed(parsed, calls, nodes, consumed)
        /\ TopOf(calls).min_power < PowerOn(parsed, consumed + 1) /\ TokenAhead # "EOF"
    BY <1>1, RunsAt
  <1>3. /\ consumed' \in {consumed, consumed + 1} /\ consumed' <= Len(parsed)
        /\ consumed' = consumed + 1
    BY <1>1, <1>2, NextTaken
  <1>4. /\ Replaced(calls, x, calls')
        /\ x = Span(consumed + 1, TopOf(calls).lhs.from, consumed + 1)
    BY <1>1, <1>2 DEF Replaced
  <1>5. ~ HolderAt(parsed, consumed + 1) /\ parsed[consumed + 1] # "EOF"
    <2>1. ~ DueAt(parsed, consumed + 1)
      BY <1>2, DueAhead
    <2>2. parsed[consumed + 1] \notin DOMAIN LedPower
      BY <1>1, PowersAssumption DEF TokenAhead
    <2>. QED  BY <1>2, <2>1, <2>2 DEF HolderAt, TokenAhead
  <1>6. /\ x \in Spans /\ calls' \in Seq(ParseCalls) /\ calls' # <<>>
        /\ Parsing(parsed, calls', nodes \cup {x}, consumed + 1)
    <2>1. consumed + 1 <= Len(parsed)
      BY <1>2, PastFacts, Zenon
    <2>. QED  BY <1>2, <1>4, <1>5, <2>1, PostfixTaken
  <1>7. TakenFits(parsed, consumed', consumed + 1)
    <2>1. TakenFits(parsed, consumed + 1, consumed + 1)
      BY <1>2, <1>5, OneTaken
    <2>. QED  BY <1>3, <2>1
  <1>8. ParseFits(parsed', consumed', calls', nodes')
    <2>1. consumed + 1 \in Nat
      BY <1>2, PastFacts, Zenon
    <2>2. parsed' = parsed /\ nodes' = nodes \cup {x}
      BY <1>1
    <2>. QED  BY <1>6, <1>7, <2>1, <2>2 DEF ParseFits
  <1>9. nodes' \subseteq Spans
    BY <1>1, <1>2, <1>6
  <1>. QED  BY <1>1, <1>2, <1>3, <1>6, <1>8, <1>9, StepFits

LEMMA ParseReturnsStep == ASSUME ParseInv, ParseReturns PROVE ParseInv'
  <1>1. PICK f, x :
            /\ Running("peek") /\ ~ GoesOn /\ Latest.operator # 0
            /\ f = Last(Front(calls))
            /\ x = Span(Latest.operator,
                        IF f.at = "peek" THEN f.lhs.from ELSE Latest.operator,
                        Latest.lhs.to)
            /\ nodes' = nodes \cup {x}
            /\ calls' = Append(Front(Front(calls)), WithLhs(f, x))
            /\ UNCHANGED <<parsed, consumed, parse_status>>
    BY DEF ParseReturns
  <1>2. /\ parse_status = "running" /\ consumed < Len(parsed)
        /\ parsed \in Seq(ParsedKinds) /\ consumed \in Nat /\ Len(parsed) = consumed + 1
        /\ calls \in Seq(ParseCalls) /\ calls # <<>> /\ nodes \subseteq Spans
        /\ Latest = TopOf(calls) /\ TopOf(calls).at = "peek"
    BY <1>1, RunsAt
  <1>3. PICK T \in Nat :
            /\ TakenFits(parsed, consumed, T) /\ Placed(parsed, calls, nodes, T)
            /\ Seen(parsed, T + 1)
            /\ ~ (TopOf(calls).min_power < PowerOn(parsed, T + 1))
    BY <1>1, RunsAt
  <1>4. /\ f = TopOf(Front(calls)) /\ Replaced(Front(calls), x, calls')
        /\ x = Span(TopOf(calls).operator,
                    IF f.at = "peek" THEN f.lhs.from ELSE TopOf(calls).operator,
                    TopOf(calls).lhs.to)
        /\ TopOf(calls).operator # 0
    BY <1>1, <1>2 DEF Replaced, TopOf, Last
  <1>5. /\ x \in Spans /\ calls' \in Seq(ParseCalls) /\ calls' # <<>>
        /\ Parsing(parsed, calls', nodes \cup {x}, T)
    BY <1>2, <1>3, <1>4, CallReturned
  <1>6. ParseFits(parsed', consumed', calls', nodes')
    <2>1. parsed' = parsed /\ consumed' = consumed /\ nodes' = nodes \cup {x}
      BY <1>1
    <2>. QED  BY <1>3, <1>5, <2>1 DEF ParseFits
  <1>7. nodes' \subseteq Spans
    BY <1>1, <1>2, <1>5
  <1>8. consumed' \in {consumed, consumed + 1} /\ consumed' <= Len(parsed)
    BY <1>1, <1>2
  <1>. QED  BY <1>1, <1>2, <1>5, <1>6, <1>7, <1>8, StepFits

LEMMA WholeReturnsStep == ASSUME ParseInv, WholeReturns PROVE ParseInv'
  <1>1. /\ Running("peek") /\ ~ GoesOn /\ Latest.operator = 0
        /\ parse_status' = "returned" /\ UNCHANGED <<parsed, consumed, calls, nodes>>
    BY DEF WholeReturns
  <1>2. /\ parse_status = "running" /\ consumed < Len(parsed)
        /\ calls \in Seq(ParseCalls) /\ calls # <<>>
        /\ Latest = TopOf(calls) /\ TopOf(calls).at = "peek"
    BY <1>1, RunsAt
  <1>3. ParseTyped /\ ParseFits(parsed, consumed, calls, nodes)
    BY <1>2 DEF ParseInv
  <1>4. LbpGet(parsed[consumed + 1]) = Minimum
    <2>1. PICK T \in Nat : Linked(parsed, calls, nodes)
      BY <1>3 DEF ParseFits, Parsing
    <2>2. TopOf(calls).min_power = Minimum
      BY <1>1, <1>2, <2>1, OpenFacts
    <2>3. ~ (Minimum < LbpGet(parsed[consumed + 1]))
      BY <1>1, <1>2, <2>2 DEF GoesOn, BindingPowersLt, TokenAhead
    <2>. QED  BY <2>3, PowersAssumption DEF LbpGet
  <1>5. ParseTyped'
    BY <1>1, <1>3 DEF ParseTyped
  <1>6. /\ parsed' = parsed /\ consumed' = consumed /\ calls' = calls /\ nodes' = nodes
    BY <1>1
  <1>7. TopOf(calls).operator = 0
    BY <1>1, <1>2
  <1>. QED  BY <1>1, <1>2, <1>3, <1>4, <1>5, <1>6, <1>7 DEF ParseInv

LEMMA UnexpectedTokenStep == ASSUME ParseInv, UnexpectedToken PROVE ParseInv'
  <1>1. /\ Running("peek") /\ GetNext /\ parse_status' = "error"
        /\ UNCHANGED <<parsed, calls, nodes>>
    BY DEF UnexpectedToken
  <1>2. consumed \in Nat /\ Len(parsed) = consumed + 1 /\ ParseTyped
    BY <1>1, RunsAt DEF ParseInv
  <1>3. consumed' \in {consumed, consumed + 1}
    BY <1>1, <1>2, NextTaken
  <1>4. consumed' \in Nat /\ (Len(parsed) = consumed' \/ Len(parsed) = consumed' + 1)
    <2>1. PICK a, b : a = consumed /\ b = consumed'
      OBVIOUS
    <2>2. a \in Nat /\ b \in {a, a + 1}
      BY <1>2, <1>3, <2>1
    <2>3. b \in Nat /\ (a + 1 = b \/ a + 1 = b + 1)
      BY <2>2
    <2>. QED  BY <1>2, <2>1, <2>3
  <1>5. ParseTyped'
    BY <1>1, <1>2, <1>4 DEF ParseTyped
  <1>. QED  BY <1>1, <1>5 DEF ParseInv

LEMMA GetterReadsStep == ASSUME ParseInv, GetterReads PROVE ParseInv'
  <1>1. /\ parse_status = "running" /\ consumed = Len(parsed)
        /\ UNCHANGED <<consumed, calls, nodes>>
    BY DEF GetterReads
  <1>2. /\ ParseTyped /\ parsed \in Seq(ParsedKinds) /\ consumed \in Nat
        /\ calls \in Seq(ParseCalls) /\ calls # <<>> /\ nodes \subseteq Spans
    BY DEF ParseInv, ParseTyped
  <1>3. CASE parse_status' = "error" /\ UNCHANGED parsed
    <2>1. ParseTyped'
      BY <1>1, <1>2, <1>3 DEF ParseTyped
    <2>. QED  BY <1>3, <2>1 DEF ParseInv
  <1>4. CASE UNCHANGED parse_status /\ \E k \in ParsedKinds : parsed' = Append(parsed, k)
    <2>1. PICK k \in ParsedKinds : parsed' = Append(parsed, k)
      BY <1>4
    <2>2. PICK T \in Nat : TakenFits(parsed, consumed, T) /\ Parsing(parsed, calls, nodes, T)
      BY <1>1 DEF ParseInv, ParseFits
    <2>3. T = consumed /\ \A p \in 1 .. T : parsed[p] # "EOF"
      BY <1>1, <1>2, <2>2 DEF TakenFits
    <2>4. Placed(parsed, calls, nodes, T) /\ T = Len(parsed)
      <3>1. T = Len(parsed) /\ T <= Len(parsed)
        BY <1>1, <1>2, <2>3
      <3>. QED  BY <1>2, <2>2, <3>1 DEF Placed
    <2>5. parsed' \in Seq(ParsedKinds) /\ Parsing(parsed', calls, nodes, T)
      BY <2>1, <2>3, <2>4, TextRead
    <2>6. Len(parsed') = consumed + 1 /\ \A p \in 1 .. T : parsed'[p] = parsed[p]
      <3>1. PICK s \in Seq(ParsedKinds) : s = parsed
        BY <1>2
      <3>2. Len(Append(s, k)) = Len(s) + 1 /\ \A p \in 1 .. Len(s) : Append(s, k)[p] = s[p]
        BY AppendFacts
      <3>. QED  BY <2>1, <2>3, <2>4, <3>1, <3>2
    <2>7. TakenFits(parsed', consumed, T)
      BY <2>3, <2>6 DEF TakenFits
    <2>8. ParseFits(parsed', consumed', calls', nodes')
      BY <1>1, <2>5, <2>7 DEF ParseFits
    <2>9. ParseTyped'
      BY <1>1, <1>2, <1>4, <2>5, <2>6 DEF ParseTyped
    <2>. QED  BY <1>1, <1>4, <2>8, <2>9 DEF ParseInv
  <1>. QED  BY <1>3, <1>4 DEF GetterReads, ParsedKinds

\* Whatever is in the tables, the operators and the calls that are open belong
\* together as ParseInv has it.
LEMMA ParseAlways == ParseSpec => []ParseInv
  <1>1. ParseInit => ParseInv
    BY ParseStarts
  <1>2. ParseInv /\ [ParseNext]_parseVars => ParseInv'
    <2>1. CASE UNCHANGED parseVars
      BY <2>1 DEF parseVars, ParseInv, ParseTyped
    <2>. QED  BY <2>1, GetterReadsStep, ExecuteOperandStep, ExecutePrefixStep,
              ExecutePostfixStep, ExecuteInfixStep, UnexpectedTokenStep, ParseReturnsStep,
              WholeReturnsStep DEF ParseNext
  <1>. QED  BY <1>1, <1>2, PTL DEF ParseSpec

-------------------------------------------------------------------------------
\* What binding powers mean, and what pratt_parse has made.

\* The condition on the end of an operand, where h has the ends that come after.
ClosesWith(h, p, r) ==
    /\ r = End \/ ~ OperandDue[r]
    /\ ~ (Hold(p) < PowerAt(r))
    /\ \A q \in Holders : p < q /\ q < r => h[End - q] <= r

EndsRound(h, p) ==
    IF p \notin Holders THEN p
    ELSE CHOOSE r \in p + 1 .. End :
            ClosesWith(h, p, r) /\ \A s \in p + 1 .. r - 1 : ~ ClosesWith(h, p, s)

EndsIs(h) == h = [n \in 0 .. End |-> EndsRound(h, End - n)]

LEMMA EndsChosen ==
    ASSUME NEW g, EndsIs(g)
    PROVE  \E h : EndsIs(h) /\ Ends = [p \in 1 .. End |-> h[End - p]]
  <1>1. EndsIs(CHOOSE h : EndsIs(h))
    BY Zenon
  <1>2. Ends = [p \in 1 .. End |-> (CHOOSE h : EndsIs(h))[End - p]]
    BY DEF Ends, EndsIs, EndsRound, ClosesWith
  <1>. QED  BY <1>1, <1>2

\* pratt_parse has returned, with the places up to T taken, and e has the ends
\* that its nodes have.
Whole(T, e) ==
    /\ T \in Nat /\ End = T + 1
    /\ Placed(parsed, calls, nodes, T)
    /\ \A q \in 1 .. T : q \notin Open(calls)
    /\ \A p \in 1 .. T + 1 : /\ PowerAt(p) = PowerOn(parsed, p)
                             /\ OperandDue[p] <=> DueAt(parsed, p)
    /\ ~ DueAt(parsed, T + 1)
    /\ \A p : p \in Holders <=> p \in 1 .. T /\ HolderAt(parsed, p)
    /\ \A p \in 1 .. T : Hold(p) = HoldAt(parsed, p)
    /\ \A p \in 0 .. T + 1 : e[p] \in Nat /\ (p \notin Holders => e[p] = p)
    /\ \A n \in nodes : n.operator \in Holders => e[n.operator] = n.to + 1

LEMMA NodeOf ==
    ASSUME NEW T, NEW e, Whole(T, e), NEW p \in 1 .. T, OperatorAt(parsed, p)
    PROVE  \E n \in nodes : n.operator = p /\ n \in Spans /\ NodeFits(parsed, calls, nodes, T, n)
  BY DEF Whole, Placed, Parsing, NodesFit

LEMMA OverEnd ==
    ASSUME NEW T, NEW e, Whole(T, e), NEW q \in Holders, NEW r \in Nat
    PROVE  Over(calls, nodes, q, r) <=> r < e[q]
  <1>1. q \in 1 .. T /\ OperatorAt(parsed, q) /\ q \notin Open(calls)
    BY DEF Whole, OperatorAt
  <1>2. PICK n \in nodes : n.operator = q /\ n \in Spans
    BY <1>1, NodeOf
  <1>3. e[q] = n.to + 1 /\ n.to \in Nat
    BY <1>2 DEF Whole, Spans
  <1>4. \A m \in nodes : m.operator = q => m = n
    BY <1>2 DEF Whole, Placed, Parsing, NodesFit
  <1>5. Over(calls, nodes, q, r) <=> r <= n.to
    BY <1>1, <1>2, <1>4 DEF Over
  <1>. QED  BY <1>3, <1>5

LEMMA ClosesSame ==
    ASSUME NEW T, NEW e, Whole(T, e), NEW p \in Holders, NEW r \in p + 1 .. T + 1,
           NEW h, \A q \in Holders : p < q => h[End - q] = e[q]
    PROVE  ClosesWith(h, p, r) <=> Closes(parsed, calls, nodes, p, r)
  <1>1. /\ T \in Nat /\ p \in 1 .. T /\ End = T + 1 /\ ~ DueAt(parsed, T + 1)
        /\ Hold(p) = HoldAt(parsed, p)
    BY DEF Whole
  <1>2. r \in 1 .. T + 1 /\ r \in Nat
    BY <1>1
  <1>3. PowerAt(r) = PowerOn(parsed, r) /\ (OperandDue[r] <=> DueAt(parsed, r))
    BY <1>2 DEF Whole
  <1>4. (r = End \/ ~ OperandDue[r]) <=> ~ DueAt(parsed, r)
    BY <1>1, <1>3
  <1>5. ASSUME NEW q \in Holders
        PROVE  q \in Nat /\ q \in 0 .. T + 1 /\ e[q] \in Nat
               /\ (Over(calls, nodes, q, r) <=> r < e[q])
    <2>1. q \in 1 .. T
      BY DEF Whole
    <2>2. q \in Nat /\ q \in 0 .. T + 1
      BY <1>1, <2>1
    <2>. QED  BY <1>2, <2>2, OverEnd DEF Whole
  <1>6. (\A q \in Holders : p < q /\ q < r => h[End - q] <= r)
           <=> (\A q \in p + 1 .. r - 1 : HolderAt(parsed, q) => ~ Over(calls, nodes, q, r))
    <2>1. ASSUME NEW q \in Holders, p < q, q < r
          PROVE  h[End - q] <= r <=> ~ Over(calls, nodes, q, r)
      BY <1>2, <1>5, <2>1
    <2>2. \A q : q \in Holders /\ p < q /\ q < r <=> q \in p + 1 .. r - 1 /\ HolderAt(parsed, q)
      <3>1. \A q : q \in Holders <=> q \in 1 .. T /\ HolderAt(parsed, q)
        BY DEF Whole
      <3>2. \A q : q \in 1 .. T /\ p < q /\ q < r <=> q \in p + 1 .. r - 1
        BY <1>1, <1>2
      <3>. QED  BY <3>1, <3>2
    <2>. QED  BY <2>1, <2>2
  <1>. QED  BY <1>1, <1>3, <1>4, <1>6 DEF ClosesWith, Closes

LEMMA RoundIs ==
    ASSUME NEW T, NEW e, Whole(T, e), NEW p \in 0 .. T + 1,
           NEW h, \A q \in Holders : p < q => h[End - q] = e[q]
    PROVE  EndsRound(h, p) = e[p]
  <1>1. CASE p \notin Holders
    BY <1>1 DEF EndsRound, Whole
  <1>2. CASE p \in Holders
    <2>1. p \in 1 .. T /\ HolderAt(parsed, p) /\ T \in Nat /\ End = T + 1
      BY <1>2 DEF Whole
    <2>2. OperatorAt(parsed, p)
      BY <2>1 DEF OperatorAt
    <2>3. PICK n \in nodes : n.operator = p /\ n \in Spans /\ NodeFits(parsed, calls, nodes, T, n)
      BY <2>1, <2>2, NodeOf
    <2>4. PICK d \in p + 1 .. T + 1 :
              /\ d = e[p] /\ Closes(parsed, calls, nodes, p, d)
              /\ \A r \in p + 1 .. d - 1 : ~ Closes(parsed, calls, nodes, p, r)
      <3>1. PICK to \in Nat : to = n.to
        BY <2>3 DEF Spans
      <3>2. /\ e[p] = to + 1 /\ p <= to /\ to <= T
            /\ Closes(parsed, calls, nodes, p, to + 1)
            /\ \A r \in p + 1 .. to : ~ Closes(parsed, calls, nodes, p, r)
        BY <1>2, <2>1, <2>3, <3>1 DEF NodeFits, Whole
      <3>3. to + 1 \in p + 1 .. T + 1 /\ (to + 1) - 1 = to
        BY <2>1, <3>2
      <3>. QED  BY <3>2, <3>3
    <2>. DEFINE Q(r) == ClosesWith(h, p, r) /\ \A s \in p + 1 .. r - 1 : ~ ClosesWith(h, p, s)
    <2>5. \A r \in p + 1 .. T + 1 : ClosesWith(h, p, r) <=> Closes(parsed, calls, nodes, p, r)
      BY <1>2, ClosesSame
    <2>6. Q(d)
      <3>1. \A r \in p + 1 .. d - 1 : r \in p + 1 .. T + 1
        BY <2>1, <2>4
      <3>. QED  BY <2>4, <2>5, <3>1
    <2>7. ASSUME NEW r \in p + 1 .. End, Q(r) PROVE r = d
      <3>1. CASE r < d
        <4>1. r \in p + 1 .. d - 1 /\ r \in p + 1 .. T + 1
          BY <2>1, <2>4, <2>7, <3>1
        <4>. QED  BY <2>4, <2>5, <2>7, <4>1
      <3>2. CASE d < r
        <4>1. d \in p + 1 .. r - 1
          BY <2>1, <2>4, <2>7, <3>2
        <4>. QED  BY <2>6, <2>7, <4>1
      <3>. QED  BY <2>1, <2>4, <2>7, <3>1, <3>2
    <2>8. EndsRound(h, p) = CHOOSE r \in p + 1 .. End : Q(r)
      BY <1>2 DEF EndsRound
    <2>. HIDE DEF Q
    <2>9. (CHOOSE r \in p + 1 .. End : Q(r)) = d
      <3>1. d \in p + 1 .. End
        BY <2>1, <2>4
      <3>. QED  BY <2>6, <2>7, <3>1
    <2>. QED  BY <2>4, <2>8, <2>9
  <1>. QED  BY <1>1, <1>2

\* The ends that pratt_parse has found are those that the powers give.
LEMMA EndsAre ==
    ASSUME NEW T, NEW e, Whole(T, e)
    PROVE  \A p \in 1 .. T + 1 : Ends[p] = e[p]
  <1>1. PICK m \in Nat : m = T + 1 /\ m = End /\ \A q \in Holders : q \in 1 .. m
    <2>1. T \in Nat /\ End = T + 1 /\ \A q \in Holders : q \in 1 .. T
      BY DEF Whole
    <2>. QED  BY <2>1
  <1>2. \A n \in 0 .. m : m - n \in 0 .. m /\ m - (m - n) = n
    BY <1>1
  <1>3. \E h : EndsIs(h) /\ Ends = [p \in 1 .. End |-> h[End - p]]
    <2>1. PICK g : g = [n \in 0 .. m |-> e[m - n]]
      OBVIOUS
    <2>2. \A q \in Holders : g[m - q] = e[q]
      <3>1. \A n \in 0 .. m : g[n] = e[m - n]
        BY <2>1
      <3>2. \A q \in Holders : q \in 0 .. m
        BY <1>1
      <3>. QED  BY <1>2, <3>1, <3>2
    <2>3. \A n \in 0 .. m : EndsRound(g, m - n) = e[m - n]
      <3>1. \A q \in Holders : g[End - q] = e[q]
        BY <1>1, <2>2
      <3>2. \A p \in 0 .. T + 1 : EndsRound(g, p) = e[p]
        BY <3>1, RoundIs
      <3>. QED  BY <1>1, <1>2, <3>2
    <2>4. g = [n \in 0 .. m |-> EndsRound(g, m - n)]
      BY <2>1, <2>3
    <2>5. EndsIs(g)
      BY <1>1, <2>4 DEF EndsIs
    <2>. QED  BY <2>5, EndsChosen
  <1>4. PICK h : EndsIs(h) /\ Ends = [p \in 1 .. End |-> h[End - p]]
    BY <1>3
  <1>5. \A n \in 0 .. m : h[n] = EndsRound(h, m - n)
    <2>1. h = [n \in 0 .. m |-> EndsRound(h, m - n)]
      BY <1>1, <1>4 DEF EndsIs
    <2>. QED  BY <2>1
  <1>. DEFINE S == {k \in 0 .. m + 1 : \A n \in 0 .. k - 1 : h[n] = e[m - n]}
  <1>6. 0 \in S
    <2>1. 0 \in 0 .. m + 1 /\ \A n \in 0 .. 0 - 1 : FALSE
      BY <1>1
    <2>. QED  BY <2>1
  <1>7. ASSUME NEW k \in 0 .. (m + 1) - 1, k \in S PROVE k + 1 \in S
    <2>1. k \in 0 .. m /\ k + 1 \in 0 .. m + 1 /\ m - k \in 0 .. m
      BY <1>1
    <2>2. \A q \in Holders : m - k < q => h[m - q] = e[q]
      <3>1. \A q \in Holders : m - k < q => m - q \in 0 .. k - 1 /\ m - (m - q) = q
        BY <1>1, <2>1
      <3>. QED  BY <1>7, <3>1
    <2>3. EndsRound(h, m - k) = e[m - k]
      BY <1>1, <2>1, <2>2, RoundIs
    <2>4. h[k] = e[m - k]
      BY <1>5, <2>1, <2>3
    <2>5. \A n \in 0 .. (k + 1) - 1 : n \in 0 .. k - 1 \/ n = k
      BY <2>1
    <2>. QED  BY <1>7, <2>1, <2>4, <2>5
  <1>. HIDE DEF S
  <1>8. m + 1 \in S
    <2>1. m + 1 \in Nat /\ m + 1 \in 0 .. m + 1
      BY <1>1
    <2>2. \A k \in 0 .. m + 1 : k \in S
      BY <1>6, <1>7, <2>1, InductionUpTo
    <2>. QED  BY <2>1, <2>2
  <1>9. \A n \in 0 .. m : h[n] = e[m - n]
    <2>1. (m + 1) - 1 = m
      BY <1>1
    <2>. QED  BY <1>8, <2>1 DEF S
  <1>10. ASSUME NEW p \in 1 .. m PROVE Ends[p] = e[p]
    <2>1. p \in 0 .. m
      BY <1>1
    <2>2. m - p \in 0 .. m /\ m - (m - p) = p
      BY <1>2, <2>1
    <2>3. Ends[p] = h[m - p]
      BY <1>1, <1>4
    <2>. QED  BY <1>9, <2>2, <2>3
  <1>. QED  BY <1>1, <1>10

LEMMA BeginsAre ==
    ASSUME NEW T, NEW e, Whole(T, e), NEW p \in 1 .. T, ~ DueAt(parsed, p),
           NEW q \in Nat, Nearest(parsed, calls, nodes, p, q)
    PROVE  Begins(p) = q + 1
  <1>. DEFINE holding == {r \in Holders : r < p /\ Ends[r] > p}
  <1>1. /\ T \in Nat /\ p \in 1 .. T + 1 /\ p \in Nat /\ ~ OperandDue[p]
        /\ \A r : r \in Holders <=> r \in 1 .. T /\ HolderAt(parsed, r)
    <2>1. T \in Nat /\ \A r : r \in Holders <=> r \in 1 .. T /\ HolderAt(parsed, r)
      BY DEF Whole
    <2>2. p \in 1 .. T + 1 /\ p \in Nat
      BY <2>1
    <2>. QED  BY <2>1, <2>2 DEF Whole
  <1>2. ASSUME NEW r \in Holders PROVE Ends[r] > p <=> Over(calls, nodes, r, p)
    <2>1. r \in 1 .. T + 1 /\ r \in 0 .. T + 1
      BY <1>1
    <2>2. Ends[r] = e[r] /\ e[r] \in Nat
      BY <2>1, EndsAre DEF Whole
    <2>3. Over(calls, nodes, r, p) <=> p < e[r]
      BY <1>1, OverEnd
    <2>. QED  BY <1>1, <2>2, <2>3
  <1>3. \A r : r \in holding <=> r \in Holders /\ r < p /\ Over(calls, nodes, r, p)
    BY <1>2
  <1>4. Begins(p) = IF holding = {} THEN 1
                    ELSE 1 + (CHOOSE r \in holding : \A o \in holding : o <= r)
    BY <1>1 DEF Begins
  <1>. HIDE DEF holding
  <1>5. /\ q \in 0 .. p - 1
        /\ q # 0 => HolderAt(parsed, q) /\ Over(calls, nodes, q, p)
        /\ \A h \in q + 1 .. p - 1 : HolderAt(parsed, h) => ~ Over(calls, nodes, h, p)
    BY DEF Nearest
  <1>6. ASSUME NEW r \in holding PROVE r \in Nat /\ r # 0 /\ r <= q
    <2>1. r \in 1 .. T /\ HolderAt(parsed, r) /\ r < p /\ Over(calls, nodes, r, p)
      BY <1>1, <1>3
    <2>2. r \notin q + 1 .. p - 1
      BY <1>5, <2>1
    <2>. QED  BY <1>1, <2>1, <2>2
  <1>7. CASE q = 0
    <2>1. holding = {}
      BY <1>6, <1>7
    <2>. QED  BY <1>4, <1>7, <2>1
  <1>8. CASE q # 0
    <2>1. q \in holding
      <3>1. q \in 1 .. T /\ q < p
        BY <1>1, <1>5, <1>8
      <3>. QED  BY <1>1, <1>3, <1>5, <1>8, <3>1
    <2>2. \A r \in holding : (\A o \in holding : o <= r) => r = q
      BY <1>6, <2>1
    <2>3. (CHOOSE r \in holding : \A o \in holding : o <= r) = q
      BY <1>6, <2>1, <2>2
    <2>4. Begins(p) = 1 + q
      BY <1>4, <2>1, <2>3, Zenon
    <2>5. 1 + q = q + 1
      OBVIOUS
    <2>. QED  BY <2>4, <2>5, Zenon
  <1>. QED  BY <1>7, <1>8

\* So a node has what it is to have.
LEMMA NodeIs ==
    ASSUME NEW T, NEW e, Whole(T, e), NEW n \in nodes
    PROVE  /\ n.operator \in Operators
           /\ n = Span(n.operator, Begins(n.operator),
                       IF n.operator \in Holders THEN Ends[n.operator] - 1 ELSE n.operator)
  <1>1. /\ T \in Nat /\ n \in Spans /\ NodeFits(parsed, calls, nodes, T, n)
        /\ End = T + 1 /\ \A r : r \in Holders <=> r \in 1 .. T /\ HolderAt(parsed, r)
    BY DEF Whole, Placed, Parsing, NodesFit
  <1>2. PICK p \in 1 .. T : p = n.operator /\ OperatorAt(parsed, p)
    BY <1>1 DEF NodeFits
  <1>3. p \in 1 .. T + 1 /\ p \in 1 .. End - 1 /\ (OperandDue[p] <=> DueAt(parsed, p))
    <2>1. p \in 1 .. T + 1 /\ p \in 1 .. End - 1
      BY <1>1
    <2>. QED  BY <2>1 DEF Whole
  <1>4. p \in Operators
    BY <1>1, <1>2, <1>3 DEF Operators, OperatorAt
  <1>5. n.from = Begins(p)
    <2>1. CASE DueAt(parsed, p)
      BY <1>1, <1>2, <1>3, <2>1 DEF NodeFits, Begins
    <2>2. CASE ~ DueAt(parsed, p)
      <3>1. PICK q \in Nat : n.from = q + 1 /\ Nearest(parsed, calls, nodes, p, q)
        BY <1>1, <1>2, <2>2 DEF NodeFits
      <3>. QED  BY <2>2, <3>1, BeginsAre
    <2>. QED  BY <2>1, <2>2
  <1>6. n.to = IF p \in Holders THEN Ends[p] - 1 ELSE p
    <2>1. CASE p \in Holders
      <3>1. Ends[p] = n.to + 1
        BY <1>2, <1>3, <2>1, EndsAre DEF Whole
      <3>2. n.to \in Nat
        BY <1>1 DEF Spans
      <3>. QED  BY <2>1, <3>1, <3>2
    <2>2. CASE p \notin Holders
      BY <1>1, <1>2, <2>2 DEF NodeFits
    <2>. QED  BY <2>1, <2>2
  <1>7. n = Span(n.operator, n.from, n.to)
    BY <1>1 DEF Span, Spans
  <1>. QED  BY <1>2, <1>4, <1>5, <1>6, <1>7

LEMMA WholeIsRight ==
    ASSUME NEW T, NEW e, Whole(T, e), TopOf(calls).operator = 0, TopOf(calls).at = "peek"
    PROVE  /\ nodes = {Span(p, Begins(p), IF p \in Holders THEN Ends[p] - 1 ELSE p) :
                          p \in Operators}
           /\ TopOf(calls).lhs.from = 1 /\ TopOf(calls).lhs.to = End - 1
           /\ \A p \in Operators : OperandDue[p] \/ Minimum < PowerAt(p)
  <1>1. /\ T \in Nat /\ End = T + 1
        /\ \A r : r \in Holders <=> r \in 1 .. T /\ HolderAt(parsed, r)
        /\ Reaches(parsed, TopOf(calls), T) /\ NodesFit(parsed, calls, nodes, T)
    BY DEF Whole, Placed, Parsing
  <1>2. /\ T + 1 - 1 = T /\ 0 + 1 = 1
        /\ \A p \in 1 .. T : p \in 1 .. T + 1
    BY <1>1
  <1>3. TopOf(calls).lhs.from = 1 /\ TopOf(calls).lhs.to = End - 1
    BY <1>1, <1>2 DEF Reaches
  <1>4. ASSUME NEW p \in Operators
        PROVE  /\ p \in 1 .. T /\ OperatorAt(parsed, p)
               /\ OperandDue[p] \/ Minimum < PowerAt(p)
    <2>1. p \in 1 .. T /\ (p \in Holders \/ ~ OperandDue[p])
      BY <1>1, <1>2 DEF Operators
    <2>2. p \in 1 .. T + 1
      BY <1>2, <2>1
    <2>3. (OperandDue[p] <=> DueAt(parsed, p)) /\ PowerAt(p) = PowerOn(parsed, p)
      BY <2>2 DEF Whole
    <2>4. OperatorAt(parsed, p)
      BY <1>1, <2>1, <2>3 DEF OperatorAt
    <2>5. ~ DueAt(parsed, p) => Minimum < PowerOn(parsed, p)
      BY <1>1, <2>1 DEF NodesFit
    <2>. QED  BY <2>1, <2>3, <2>4, <2>5
  <1>. DEFINE node(p) == Span(p, Begins(p), IF p \in Holders THEN Ends[p] - 1 ELSE p)
  <1>5. \A n \in nodes : n.operator \in Operators /\ n = node(n.operator)
    BY NodeIs
  <1>6. \A p \in Operators : node(p) \in nodes
    <2>1. ASSUME NEW p \in Operators PROVE node(p) \in nodes
      <3>1. PICK n \in nodes : n.operator = p
        BY <1>4, NodeOf
      <3>. QED  BY <1>5, <3>1
    <2>. QED  BY <2>1
  <1>. HIDE DEF node
  <1>7. nodes = {node(p) : p \in Operators}
    BY <1>5, <1>6
  <1>. QED  BY <1>3, <1>4, <1>7 DEF node

LEMMA ReturnedIsWhole ==
    ASSUME ParseInv, parse_status = "returned"
    PROVE  \E T, e : Whole(T, e)
  <1>1. /\ parsed \in Seq(ParsedKinds) /\ consumed \in Nat /\ Len(parsed) = consumed + 1
        /\ calls \in Seq(ParseCalls) /\ calls # <<>> /\ nodes \subseteq Spans
        /\ TopOf(calls).operator = 0 /\ TopOf(calls).at = "peek"
        /\ LbpGet(parsed[consumed + 1]) = Minimum
    <2>1. /\ parsed \in Seq(ParsedKinds) /\ consumed \in Nat
          /\ Len(parsed) = consumed \/ Len(parsed) = consumed + 1
          /\ calls \in Seq(ParseCalls) /\ calls # <<>> /\ nodes \subseteq Spans
          /\ TopOf(calls).operator = 0 /\ TopOf(calls).at = "peek"
          /\ consumed < Len(parsed) /\ LbpGet(parsed[consumed + 1]) = Minimum
      BY DEF ParseInv, ParseTyped
    <2>. QED  BY <2>1
  <1>2. PICK T \in Nat : TakenFits(parsed, consumed, T) /\ Parsing(parsed, calls, nodes, T)
    BY DEF ParseInv, ParseFits
  <1>3. /\ Linked(parsed, calls, nodes) /\ NodesFit(parsed, calls, nodes, T)
        /\ Reaches(parsed, TopOf(calls), T)
    BY <1>2 DEF Parsing
  <1>4. Placed(parsed, calls, nodes, T) /\ ~ DueAt(parsed, T + 1)
    <2>1. T <= Len(parsed)
      BY <1>1, <1>2 DEF TakenFits
    <2>. QED  BY <1>1, <1>2, <1>3, <2>1 DEF Placed, Reaches
  <1>5. PowerOn(parsed, T + 1) = Minimum
    <2>1. PowerOn(parsed, T + 1) = LbpGet(parsed[consumed + 1])
      BY <1>1, <1>2, PowerAhead
    <2>. QED  BY <1>1, <2>1
  <1>6. \A q \in 1 .. T : q \notin Open(calls)
    <2>1. \A q \in Open(calls) : q \in Nat /\ q <= 0
      BY <1>1, <1>3, OpenFacts
    <2>. QED  BY <2>1
  <1>7. \A p : OperandDue[p] <=> DueAt(parsed, p)
    BY DEF OperandDue, DueAt, DueOn
  <1>8. End = T + 1 /\ T <= Len(parsed)
    <2>1. CASE T = consumed
      <3>1. Len(parsed) = T + 1 /\ T <= T + 1
        BY <1>1, <2>1
      <3>2. ~ OperandDue[Len(parsed)]
        BY <1>4, <1>7, <3>1
      <3>. QED  BY <3>1, <3>2 DEF End
    <2>2. CASE T # consumed
      <3>1. T = Len(parsed) /\ parsed[T] = "EOF" /\ T \in 1 .. T /\ T \in 1 .. Len(parsed) /\ T <= T
        BY <1>1, <1>2, <2>2 DEF TakenFits
      <3>2. PowerOn(parsed, T) = Minimum
        BY <3>1, EndBinds DEF PowerOn
      <3>3. ~ (Minimum < Minimum)
        BY PowersAssumption
      <3>4. DueAt(parsed, T)
        BY <1>3, <3>1, <3>2, <3>3 DEF NodesFit
      <3>. QED  BY <1>7, <3>1, <3>4 DEF End
    <2>. QED  BY <2>1, <2>2
  <1>9. ASSUME NEW p \in 1 .. T + 1 PROVE PowerAt(p) = PowerOn(parsed, p)
    <2>1. CASE p = T + 1
      BY <1>5, <1>8, <2>1 DEF PowerAt
    <2>2. CASE p # T + 1
      <3>1. p \in 1 .. Len(parsed)
        BY <1>1, <1>8, <2>2
      <3>. QED  BY <1>8, <2>2, <3>1 DEF PowerAt, PowerOn
    <2>. QED  BY <2>1, <2>2
  <1>10. ASSUME NEW p PROVE p \in Holders <=> p \in 1 .. T /\ HolderAt(parsed, p)
    <2>1. 1 .. End - 1 = 1 .. T
      BY <1>8
    <2>. QED  BY <1>7, <2>1 DEF Holders, HolderAt
  <1>11. \A p : Hold(p) = HoldAt(parsed, p)
    BY <1>7 DEF Hold, HoldAt
  <1>. DEFINE has(p) == CHOOSE n \in nodes : n.operator = p
              e == [p \in 0 .. T + 1 |-> IF p \in Holders THEN has(p).to + 1 ELSE p]
  <1>12. ASSUME NEW p \in Holders
         PROVE  p \in 0 .. T + 1 /\ has(p) \in nodes /\ has(p).operator = p
    <2>1. p \in 1 .. T /\ OperatorAt(parsed, p) /\ p \notin Open(calls)
      BY <1>6, <1>10 DEF OperatorAt
    <2>2. \E n \in nodes : n.operator = p
      BY <1>3, <2>1 DEF NodesFit
    <2>. QED  BY <2>1, <2>2
  <1>13. \A p \in 0 .. T + 1 : e[p] \in Nat /\ (p \notin Holders => e[p] = p)
    <2>1. \A n \in nodes : n.to + 1 \in Nat
      BY <1>1 DEF Spans
    <2>. QED  BY <1>12, <2>1
  <1>14. ASSUME NEW n \in nodes, n.operator \in Holders PROVE e[n.operator] = n.to + 1
    <2>1. PICK p \in Holders : p = n.operator
      BY <1>14
    <2>2. has(p) = n
      BY <1>3, <1>12, <2>1 DEF NodesFit
    <2>. QED  BY <1>12, <2>1, <2>2
  <1>. HIDE DEF e
  <1>15. Whole(T, e)
    BY <1>2, <1>4, <1>6, <1>7, <1>8, <1>9, <1>10, <1>11, <1>13, <1>14 DEF Whole
  <1>. QED  BY <1>15

\* Whenever pratt_parse has returned, whatever the tables and the text are, the
\* operators have the operands that the binding powers give them.
THEOREM ParsesByPower == ParseSpec => []ParsedByPower
  <1>1. ParseInv => ParsedByPower
    <2>1. SUFFICES ASSUME ParseInv, parse_status = "returned"
                   PROVE  /\ nodes = {Span(p, Begins(p), IF p \in Holders THEN Ends[p] - 1 ELSE p) :
                                         p \in Operators}
                          /\ Latest.lhs.from = 1 /\ Latest.lhs.to = End - 1
                          /\ \A p \in Operators : OperandDue[p] \/ Minimum < PowerAt(p)
      BY DEF ParsedByPower
    <2>2. PICK T, e : Whole(T, e)
      BY <2>1, ReturnedIsWhole
    <2>3. TopOf(calls).operator = 0 /\ TopOf(calls).at = "peek"
      BY <2>1 DEF ParseInv
    <2>. QED  BY <2>2, <2>3, WholeIsRight, LatestIs
  <1>. QED  BY <1>1, ParseAlways, PTL
===============================================================================
