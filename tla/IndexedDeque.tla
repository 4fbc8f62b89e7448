----------------------------- MODULE IndexedDeque -----------------------------
(***************************************************************************)
(* The indexed deque of src/libhiha/indexed_deque.c: elements kept in an   *)
(* integer trie under consecutive indices _i1 .. _i2 - 1, which are of     *)
(* type size_t and wrap around: the first element ever put before the      *)
(* others has the index SIZE_MAX.                                          *)
(*                                                                         *)
(* A deque is an immutable value; an operation returns a new one.  The     *)
(* trie is the function that a search of it computes.  The deque NULL, and *)
(* what deque_trie, deque_i1 and deque_i2 make of it, is EmptyDeque.       *)
(***************************************************************************)
EXTENDS Integers

CONSTANTS
    Elements,           \* what a deque holds
    SizeModulus         \* the number of values of a size_t

ASSUME SizeModulusAssumption == SizeModulus \in Nat \ {0}

Indices == 0 .. SizeModulus - 1

\* Addition and subtraction of size_t.
Plus(i, j) == IF i + j < SizeModulus THEN i + j ELSE i + j - SizeModulus
Minus(i, j) == IF j <= i THEN i - j ELSE i - j + SizeModulus

\* The largest deque whose size can be told from that of an empty one.
MaxSize == SizeModulus - 1

-------------------------------------------------------------------------------

EmptyTrie == [i \in {} |-> {}]

InsertNode(trie, i, e) ==
    [j \in DOMAIN trie \cup {i} |-> IF j = i THEN e ELSE trie[j]]

DeleteNode(trie, i) == [j \in DOMAIN trie \ {i} |-> trie[j]]

EmptyDeque == [trie |-> EmptyTrie, i1 |-> 0, i2 |-> 0]

\* deque_size
Size(dq) == Minus(dq.i2, dq.i1)

\* make_deque: the deque that lost its last element starts again at index 0.
MakeDeque(trie, i1, i2) ==
    IF DOMAIN trie = {} THEN EmptyDeque ELSE [trie |-> trie, i1 |-> i1, i2 |-> i2]

\* deque_index, for an index that is not out of range.
DequeIndex(dq, i) == Plus(dq.i1, i)

\* indexed_deque_put_before_first
PutBeforeFirst(dq, e) ==
    MakeDeque(InsertNode(dq.trie, Minus(dq.i1, 1), e), Minus(dq.i1, 1), dq.i2)

\* indexed_deque_put_after_last
PutAfterLast(dq, e) ==
    MakeDeque(InsertNode(dq.trie, dq.i2, e), dq.i1, Plus(dq.i2, 1))

\* Mutant: the index is not added to that of the first element.
PutAtFirst(dq, i, e) == MakeDeque(InsertNode(dq.trie, dq.i1, e), dq.i1, dq.i2)

\* indexed_deque_put
PutAt(dq, i, e) == MakeDeque(InsertNode(dq.trie, DequeIndex(dq, i), e), dq.i1, dq.i2)

\* indexed_deque_get
GetAt(dq, i) == dq.trie[DequeIndex(dq, i)]

\* indexed_deque_get_first and indexed_deque_get_last, of a deque that is not empty.
GetFirst(dq) == dq.trie[dq.i1]
GetLast(dq) == dq.trie[Minus(dq.i2, 1)]

\* indexed_deque_delete_first; it leaves an empty deque as it is.
DeleteFirst(dq) == MakeDeque(DeleteNode(dq.trie, dq.i1), Plus(dq.i1, 1), dq.i2)

\* indexed_deque_delete_last; it leaves an empty deque as it is.
DeleteLast(dq) ==
    MakeDeque(DeleteNode(dq.trie, Minus(dq.i2, 1)), dq.i1, Minus(dq.i2, 1))

-------------------------------------------------------------------------------

\* The trie holds an element under each index from _i1 to _i2 and no other:
\* the representation that every operation relies on.
WellFormed(dq) ==
    /\ dq.i1 \in Indices
    /\ dq.i2 \in Indices
    /\ DOMAIN dq.trie = {i \in Indices : Minus(i, dq.i1) < Size(dq)}
    /\ \A i \in DOMAIN dq.trie : dq.trie[i] \in Elements
    /\ Size(dq) = 0 => dq = EmptyDeque

\* The elements of a deque, first to last.
Contents(dq) == [k \in 1 .. Size(dq) |-> GetAt(dq, k - 1)]
===============================================================================
