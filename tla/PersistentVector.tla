--------------------------- MODULE PersistentVector ---------------------------
(***************************************************************************)
(* The persistent vectors of include/libhiha/persistent_vector.h: a trie   *)
(* of full blocks of entries and a last block, the tail, outside of it.    *)
(* Values are immutable, as the memory of the program is once a vector is  *)
(* returned.  The entries are those of DEFINE_HIHA_PERSISTENT_VECTOR_      *)
(* DATATYPE: memory is cleared, and so is an entry that is popped.         *)
(***************************************************************************)
EXTENDS Integers, Sequences

CONSTANTS
    Bits,               \* BITS: a block has 2^Bits entries
    Zero,               \* an entry that is all zero bits
    Compare(_, _)       \* the result of a comparison function for two entries

LOCAL INSTANCE SequencesExt

Block == 2 ^ Bits

\* NULL, which is also the empty vector.
Null == <<>>

\* What zeroed memory is taken for, by what it is allocated as.
ZeroLeaf == [k \in 0 .. Block - 1 |-> Zero]
ZeroInternal == [k \in 0 .. Block - 1 |-> Null]

\* The index into an internal node whose shift is s of entry i.
Slot(i, s) == (i \div 2 ^ s) % Block

Length(vec) == IF vec = Null THEN 0 ELSE vec.length

TailLength0(vec) == vec.length % Block
TailLength(vec) == IF TailLength0(vec) = 0 THEN Block ELSE TailLength0(vec)
TailOffset(vec) == vec.length - TailLength(vec)

-------------------------------------------------------------------------------
(***************************************************************************)
(* Looking at entries.  A pointer to an entry is a leaf and an index.      *)
(***************************************************************************)

\* The leaf of entry i below a node.
RECURSIVE LeafOf(_, _, _)
LeafOf(node, s, i) ==
    IF s = 0 THEN node ELSE LeafOf(node[Slot(i, s)], s - Bits, i)

Pointer(leaf, k) == [leaf |-> leaf, k |-> k]
At(p) == p.leaf[p.k]

PtrWithin(vec, i) ==
    IF TailOffset(vec) <= i
    THEN Pointer(vec.tail, i - TailOffset(vec))
    ELSE Pointer(LeafOf(vec.node, vec.shift, i), i % Block)

Ptr(vec, i) == IF i < Length(vec) THEN PtrWithin(vec, i) ELSE Null

\* For 0 <= i < Length(vec).
Ref(vec, i) == At(PtrWithin(vec, i))

\* The pointers after and before the one to entry i.
Next(vec, i, current) ==
    IF vec # Null /\ i < vec.length - 1
    THEN IF (i + 1) % Block = 0
         THEN PtrWithin(vec, i + 1)
         ELSE [current EXCEPT !.k = @ + 1]
    ELSE Null

Prev(vec, i, current) ==
    IF vec = Null \/ i = 0
    THEN Null
    ELSE IF i % Block = 0
         THEN Pointer(LeafOf(vec.node, vec.shift, i - 1), (i - 1) % Block)
         ELSE [current EXCEPT !.k = @ - 1]

RECURSIVE RefsFrom(_, _, _, _)
RefsFrom(vec, i, p, n) ==
    IF n = 0
    THEN <<>>
    ELSE <<At(p)>> \o RefsFrom(vec, i + 1, Next(vec, i, p), n - 1)

\* For i + n <= Length(vec).
Refs(vec, i, n) == RefsFrom(vec, i, Ptr(vec, i), n)

-------------------------------------------------------------------------------
(***************************************************************************)
(* Setting entries                                                         *)
(***************************************************************************)

\* A leaf with entries copied to it from k on.
WithEntries(leaf, k, chunk) ==
    [m \in 0 .. Block - 1 |-> IF m \in k .. k + Len(chunk) - 1 THEN chunk[m - k + 1] ELSE leaf[m]]

\* New internal nodes on the way to entry i, and a leaf at the end of it.
RECURSIVE WithLeaf(_, _, _, _)
WithLeaf(node, s, i, leaf) ==
    IF s = 0
    THEN leaf
    ELSE [(IF node = Null THEN ZeroInternal ELSE node) EXCEPT
            ![Slot(i, s)] = WithLeaf(@, s - Bits, i, leaf)]

\* Entries of one block.
SetWithinBlock(vec, i, chunk) ==
    IF TailOffset(vec) <= i
    THEN [vec EXCEPT !.tail = WithEntries(@, i - TailOffset(vec), chunk)]
    ELSE [vec EXCEPT !.node =
            WithLeaf(@, vec.shift, i,
                     WithEntries(LeafOf(vec.node, vec.shift, i), i % Block, chunk))]

\* For 0 <= i < Length(vec).
Set(vec, i, x) == SetWithinBlock(vec, i, <<x>>)

RECURSIVE Sets(_, _, _)
Sets(vec, i, x) ==
    IF x = <<>>
    THEN vec
    ELSE LET size == IF Block - (i % Block) < Len(x) THEN Block - (i % Block) ELSE Len(x)
         IN  Sets(SetWithinBlock(vec, i, SubSeq(x, 1, size)), i + size,
                  SubSeq(x, size + 1, Len(x)))

-------------------------------------------------------------------------------
(***************************************************************************)
(* Pushing entries                                                         *)
(***************************************************************************)

\* Mutant: the trie is as high as it was when it has no room for a block.
PushTailLow(vec) ==
    LET i == vec.length - Block
    IN  IF i = 0
        THEN [vec EXCEPT !.shift = 0, !.node = vec.tail]
        ELSE [vec EXCEPT !.node = WithLeaf(@, vec.shift, i, vec.tail)]

\* The vector, with a tail that is full, when that is moved to the trie.
\* The trie is raised by a level when it has no room for it.
PushTail(vec) ==
    LET i == vec.length - Block
    IN  CASE i = 0 -> [vec EXCEPT !.shift = 0, !.node = vec.tail]
          [] i > 0 /\ i = 2 ^ (vec.shift + Bits) ->
                [vec EXCEPT
                    !.shift = @ + Bits,
                    !.node = [ZeroInternal EXCEPT
                                ![0] = vec.node,
                                ![1] = WithLeaf(Null, vec.shift, i, vec.tail)]]
          [] OTHER -> [vec EXCEPT !.node = WithLeaf(@, vec.shift, i, vec.tail)]

\* The vector with entries of which none needs another block.
Extend(vec, chunk) ==
    IF vec = Null
    THEN [length |-> Len(chunk), shift |-> 0, node |-> Null,
          tail |-> WithEntries(ZeroLeaf, 0, chunk)]
    ELSE IF TailLength0(vec) # 0
         THEN [vec EXCEPT !.length = @ + Len(chunk),
                          !.tail = WithEntries(@, TailLength0(vec), chunk)]
         ELSE [PushTail(vec) EXCEPT !.length = @ + Len(chunk),
                                    !.tail = WithEntries(ZeroLeaf, 0, chunk)]

Push(vec, x) == Extend(vec, <<x>>)

RECURSIVE Pushes(_, _)
Pushes(vec, x) ==
    IF x = <<>>
    THEN vec
    ELSE LET max == IF vec = Null THEN Block ELSE Block - TailLength0(vec)
             size == IF Len(x) < max THEN Len(x) ELSE max
         IN  Pushes(Extend(vec, SubSeq(x, 1, size)), SubSeq(x, size + 1, Len(x)))

-------------------------------------------------------------------------------
(***************************************************************************)
(* Popping entries                                                         *)
(***************************************************************************)

\* The node without its last leaf, which starts at entry i, and without the
\* internal nodes that have no other.
RECURSIVE Prune(_, _, _)
Prune(node, s, i) ==
    [node EXCEPT ![Slot(i, s)] =
        IF i % 2 ^ s = 0 \/ s = Bits THEN Null ELSE Prune(@, s - Bits, i)]

\* The vector, one entry shorter, with its tail taken from the trie.
PopTail(vec) ==
    LET i == vec.length - Block
        taken == [vec EXCEPT !.tail = LeafOf(vec.node, vec.shift, i)]
    IN  CASE i = 0 -> [taken EXCEPT !.node = Null]
          [] i > 0 /\ i = 2 ^ vec.shift ->
                [taken EXCEPT !.node = vec.node[0], !.shift = @ - Bits]
          [] OTHER -> [taken EXCEPT !.node = Prune(@, vec.shift, i)]

\* The vector with the entries beyond its end cleared.
CollectEntries(vec) ==
    [vec EXCEPT !.tail = [k \in 0 .. Block - 1 |-> IF k < TailLength(vec) THEN @[k] ELSE Zero]]

\* For 0 < Length(vec).
Pop(vec) ==
    LET shorter == [vec EXCEPT !.length = @ - 1]
    IN  CASE vec.length = 1 -> Null
          [] vec.length > 1 /\ TailLength(vec) = 1 -> PopTail(shorter)
          [] OTHER -> [shorter EXCEPT !.tail[TailLength(vec) - 1] = Zero]

\* The vector with the lowest trie that has entry i.
RECURSIVE Lower(_, _)
Lower(vec, i) ==
    IF vec.shift # 0 /\ Slot(i, vec.shift) = 0
    THEN Lower([vec EXCEPT !.node = vec.node[0], !.shift = @ - Bits], i)
    ELSE vec

\* The node with what it has up to entry i.
RECURSIVE UpTo(_, _, _)
UpTo(node, s, i) ==
    IF s = 0
    THEN node
    ELSE [k \in 0 .. Block - 1 |->
            CASE k < Slot(i, s) -> node[k]
              [] k = Slot(i, s) -> UpTo(node[k], s - Bits, i)
              [] OTHER -> Null]

\* For count <= Length(vec).
Pops(vec, count) ==
    LET shorter == [vec EXCEPT !.length = @ - count]
        offset == TailOffset(shorter)
        taken == CollectEntries([shorter EXCEPT !.tail = LeafOf(vec.node, vec.shift, offset)])
        lowered == Lower(taken, offset - 1)
    IN  CASE count = 0 -> vec
          [] count > 0 /\ count = vec.length -> Null
          [] count > 0 /\ count < TailLength(vec) -> CollectEntries(shorter)
          [] OTHER ->
                IF offset = 0
                THEN [taken EXCEPT !.shift = 0, !.node = Null]
                ELSE [lowered EXCEPT !.node = UpTo(@, lowered.shift, offset - 1)]

-------------------------------------------------------------------------------
(***************************************************************************)
(* Operations on whole vectors, by buffers of the size of a block          *)
(***************************************************************************)

\* The entries of vec from i to end, pushed to another vector; the buffers end
\* where the blocks of vec do.
RECURSIVE CopyFrom(_, _, _, _)
CopyFrom(to, vec, i, end) ==
    IF i >= end
    THEN to
    ELSE LET next == IF end < i + Block THEN end ELSE ((i + Block) \div Block) * Block
         IN  CopyFrom(Pushes(to, Refs(vec, i, next - i)), vec, next, end)

\* For start <= end <= Length(vec).
Slice(vec, start, end) ==
    IF start = 0 THEN Pops(vec, Length(vec) - end) ELSE CopyFrom(Null, vec, start, end)

\* Its loop counts from 0, so that the buffers end where those of Slice do.
AppendVector(v1, v2) == IF v2 = Null THEN v1 ELSE CopyFrom(v1, v2, 0, v2.length)

\* A place in a vector, the pointer to its entry and the number of entries left.
Cursor(vec, start, end) == [vec |-> vec, i |-> start, p |-> Ptr(vec, start), n |-> end - start]
Advance(c) == [c EXCEPT !.i = @ + 1, !.p = Next(c.vec, c.i, c.p), !.n = @ - 1]

\* Of equal entries that of the first vector is taken.  The buffer is pushed
\* when it is full.
RECURSIVE MergeFrom(_, _, _, _)
MergeFrom(to, buffer, c1, c2) ==
    CASE Len(buffer) = Block -> MergeFrom(Pushes(to, buffer), <<>>, c1, c2)
      [] Len(buffer) < Block /\ c1.n = 0 /\ c2.n = 0 -> Pushes(to, buffer)
      [] OTHER ->
            IF c2.n = 0 \/ (c1.n # 0 /\ Compare(At(c1.p), At(c2.p)) <= 0)
            THEN MergeFrom(to, Append(buffer, At(c1.p)), Advance(c1), c2)
            ELSE MergeFrom(to, Append(buffer, At(c2.p)), c1, Advance(c2))

Merge(v1, start1, end1, v2, start2, end2) ==
    MergeFrom(Null, <<>>, Cursor(v1, start1, end1), Cursor(v2, start2, end2))

\* The sorted sequence with x inserted after the entries that are not greater.
RECURSIVE InsertSorted(_, _)
InsertSorted(sorted, x) ==
    IF sorted # <<>> /\ Compare(x, Last(sorted)) < 0
    THEN Append(InsertSorted(Front(sorted), x), Last(sorted))
    ELSE Append(sorted, x)

Cutoff == IF Block < 12 THEN Block ELSE 12

RECURSIVE Sort(_, _, _)
Sort(vec, start, end) ==
    LET size == end - start
        middle == start + size \div 2
    IN  CASE size = 0 -> Null
          [] size > 0 /\ size < Cutoff ->
                Pushes(Null, FoldLeft(InsertSorted, <<>>, Refs(vec, start, size)))
          [] OTHER ->
                Merge(Sort(vec, start, middle), 0, middle - start,
                      Sort(vec, middle, end), 0, end - middle)

-------------------------------------------------------------------------------
(***************************************************************************)
(* The structure, as __check_structure__ asserts it                        *)
(***************************************************************************)

RECURSIVE FullyDense(_, _)
FullyDense(node, s) ==
    s # 0 => \A k \in 0 .. Block - 1 : node[k] # Null /\ FullyDense(node[k], s - Bits)

RECURSIVE DenseUpTo(_, _, _)
DenseUpTo(node, s, i) ==
    s # 0 =>
        /\ \A k \in 0 .. Slot(i, s) - 1 : node[k] # Null /\ FullyDense(node[k], s - Bits)
        /\ node[Slot(i, s)] # Null
        /\ \A k \in Slot(i, s) + 1 .. Block - 1 : node[k] = Null
        /\ DenseUpTo(node[Slot(i, s)], s - Bits, i)

CheckStructure(vec) ==
    vec # Null =>
        /\ vec.length # 0
        /\ IF TailOffset(vec) = 0
           THEN vec.node = Null
           ELSE vec.node # Null /\ DenseUpTo(vec.node, vec.shift, TailOffset(vec) - 1)
===============================================================================
