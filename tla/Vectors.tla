------------------------------- MODULE Vectors --------------------------------
(***************************************************************************)
(* A client of the vectors of PersistentVector that keeps one of them and  *)
(* calls every operation on it.                                            *)
(***************************************************************************)
EXTENDS Integers, Sequences, FiniteSets

CONSTANTS
    BlockBits,          \* the values of BITS
    Entries,            \* what a vector has: records with a key and an id
    Zero,               \* the one of them that memory is cleared to
    Long,               \* a sequence of Entries
    FreeLength,         \* bound: up to here a vector has any of Entries
    MaxLength,          \* bound: longer ones have those of Long, but for one
    MaxChunk            \* bound: as many entries are pushed, set or popped

ASSUME VectorsAssumption ==
    /\ BlockBits \subseteq Nat \ {0}
    /\ \A e \in Entries : e.key \in Nat
    /\ Zero \in Entries
    /\ Long \in Seq(Entries)
    /\ MaxLength \in [BlockBits -> 0 .. Len(Long)]

LOCAL INSTANCE SequencesExt

\* The comparison function sees the key only, so that it tells whether equal
\* entries change places.
CompareEntries(x, y) == x.key - y.key

VARIABLES
    bits,               \* BITS of the vector's type
    vec,                \* the vector
    contents            \* the sequence that it stands for

vectorVars == <<bits, vec, contents>>

V == INSTANCE PersistentVector WITH Bits <- bits, Compare <- CompareEntries

-------------------------------------------------------------------------------

InitVectors ==
    /\ bits \in BlockBits
    /\ vec = V!Null
    /\ contents = <<>>

\* Bound: any short sequence, and the beginnings of Long with one change.
VectorAllowed(s) ==
    \/ Len(s) <= FreeLength
    \/ /\ Len(s) <= MaxLength[bits]
       /\ Cardinality({k \in DOMAIN s : s[k] # Long[k]}) <= 1

ReturnVector(result, s) ==
    /\ VectorAllowed(s)
    /\ vec' = result
    /\ contents' = s
    /\ UNCHANGED bits

\* Bound: the entries that are stored are those of Long at a place, but for the
\* last of them.
Chunks(place) ==
    {Append(SubSeq(Long, place + 1, place + n - 1), x) :
        n \in 1 .. (IF Len(Long) - place < MaxChunk THEN Len(Long) - place ELSE MaxChunk),
        x \in Entries}

Replaced(s, i, chunk) ==
    [k \in DOMAIN s |-> IF k \in i + 1 .. i + Len(chunk) THEN chunk[k - i] ELSE s[k]]

CallPush(x) == ReturnVector(V!Push(vec, x), Append(contents, x))

CallPushes(chunk) == ReturnVector(V!Pushes(vec, chunk), contents \o chunk)

CallSet(i, x) == ReturnVector(V!Set(vec, i, x), Replaced(contents, i, <<x>>))

CallSets(i, chunk) ==
    /\ i + Len(chunk) <= Len(contents)
    /\ ReturnVector(V!Sets(vec, i, chunk), Replaced(contents, i, chunk))

CallPop ==
    /\ contents # <<>>
    /\ ReturnVector(V!Pop(vec), Front(contents))

CallPops(n) ==
    /\ n <= Len(contents)
    /\ ReturnVector(V!Pops(vec, n), SubSeq(contents, 1, Len(contents) - n))

CallSlice(start, end) ==
    /\ start <= end
    /\ ReturnVector(V!Slice(vec, start, end), SubSeq(contents, start + 1, end))

CallAppend == ReturnVector(V!AppendVector(vec, vec), contents \o contents)

Compared(m, n) == CompareEntries(contents[m], contents[n])

\* The sequence of the entries at a set of places, in the order of the keys and
\* for the same key in the order of their places.
Sorted(places) ==
    LET rank ==
            [n \in places |->
                Cardinality({m \in places : Compared(m, n) < 0 \/ (Compared(m, n) = 0 /\ m <= n)})]
    IN  [r \in 1 .. Cardinality(places) |-> contents[CHOOSE n \in places : rank[n] = r]]

CallSort(start, end) ==
    /\ start <= end
    /\ ReturnVector(V!Sort(vec, start, end), Sorted(start + 1 .. end))

NextVectors ==
    LET places == 0 .. Len(contents)
    IN  \/ \E x \in Entries : CallPush(x)
        \/ \E chunk \in Chunks(Len(contents)) : CallPushes(chunk)
        \/ \E i \in 0 .. Len(contents) - 1 :
            \/ \E x \in Entries : CallSet(i, x)
            \/ \E chunk \in Chunks(i) : CallSets(i, chunk)
        \/ CallPop
        \/ \E n \in places : CallPops(n)
        \/ \E start, end \in places : CallSlice(start, end) \/ CallSort(start, end)
        \/ CallAppend

-------------------------------------------------------------------------------
(***************************************************************************)
(* Properties                                                              *)
(***************************************************************************)

\* A vector and its entries: the trie is dense and no higher than it has to be,
\* entries beyond the end are cleared, and the entries are those of a sequence.
StandsFor(v, s) ==
    /\ V!Length(v) = Len(s)
    /\ V!CheckStructure(v)
    /\ \A i \in 0 .. Len(s) - 1 : V!Ref(v, i) = s[i + 1]

\* The blocks of the trie are dense, it has the fewest levels that hold them, and
\* the tail has nothing beyond the end of the vector.
VectorStructureOK ==
    /\ V!CheckStructure(vec)
    /\ vec # V!Null =>
        /\ \A k \in V!TailLength(vec) .. V!Block - 1 : vec.tail[k] = Zero
        /\ V!TailOffset(vec) <= 2 ^ (vec.shift + bits)
        /\ vec.shift > 0 => V!TailOffset(vec) > 2 ^ vec.shift

\* Wherever its length lies between blocks and levels of the trie, the vector
\* has the entries of the sequence; walks from entry to entry in both directions
\* find them; and slices, appended vectors, sorted parts and merged halves are
\* what they are of the sequence, with equal entries in the order they had.
VectorsAgree ==
    LET all == V!Sort(vec, 0, Len(contents))
        merged(i) ==
            V!Merge(V!Sort(vec, 0, i), 0, i,
                    V!Sort(vec, i, Len(contents)), 0, Len(contents) - i)
    IN
    /\ StandsFor(vec, contents)
    /\ StandsFor(all, Sorted(DOMAIN contents))
    /\ \A i \in 0 .. Len(contents) :
        /\ V!Refs(vec, 0, i) = SubSeq(contents, 1, i)
        /\ V!Ptr(vec, i) = V!Null <=> i = Len(contents)
        /\ i < Len(contents) =>
            LET p == V!Ptr(vec, i)
                next == V!Next(vec, i, p)
                prev == V!Prev(vec, i, p)
            IN  /\ IF i + 1 < Len(contents)
                   THEN next # V!Null /\ V!At(next) = contents[i + 2]
                   ELSE next = V!Null
                /\ IF i > 0
                   THEN prev # V!Null /\ V!At(prev) = contents[i]
                   ELSE prev = V!Null
        /\ \A end \in i .. Len(contents) :
            StandsFor(V!Slice(vec, i, end), SubSeq(contents, i + 1, end))
        /\ StandsFor(V!AppendVector(V!Slice(vec, i, Len(contents)), vec),
                     SubSeq(contents, i + 1, Len(contents)) \o contents)
        /\ merged(i) = all
===============================================================================
