-------------------------------- MODULE HashSet --------------------------------
(***************************************************************************)
(* The sets of src/libhiha/typed_set.c.in: the elements are the keys of a  *)
(* trie as in HashMap.  The set without elements is NULL.  The operations  *)
(* that take several sets walk the trie of one of them and call adjoin,    *)
(* delete or contains for each element; their arguments are the sequence   *)
(* sets, without the sentinel that ends it in the code.                    *)
(***************************************************************************)
EXTENDS Integers, Sequences

CONSTANT HashBit(_, _)  \* bit i of the hashes of an element

LOCAL INSTANCE SequencesExt
LOCAL INSTANCE FiniteSetsExt

Nodes == INSTANCE BinaryTrie WITH Bit <- HashBit

NullSet == <<>>

\* What is left when the trie of NULL is taken: the process ends there.
Crash == [crashed |-> TRUE]

Set(trie, size) == [trie |-> trie, size |-> size]

TrieOf(set) == IF set = NullSet THEN Nodes!Null ELSE set.trie
SetSize(set) == IF set = NullSet THEN 0 ELSE set.size

\* The elements in the order of a walk.
SetElements(set) ==
    [n \in DOMAIN Nodes!Walk(TrieOf(set)) |-> Nodes!Walk(TrieOf(set))[n].key]

HasElement(set, e) == Nodes!Search(TrieOf(set), e) # Nodes!Null

-------------------------------------------------------------------------------

SetAdjoin(set, e) ==
    IF HasElement(set, e)
    THEN set
    ELSE Set(Nodes!Insert(TrieOf(set), [key |-> e]), SetSize(set) + 1)

\* TYPENAME_set_delete
SetDelete(set, e) ==
    CASE set = NullSet \/ ~ HasElement(set, e) -> set
      [] OTHER ->
            IF set.size = 1
            THEN NullSet
            ELSE Set(Nodes!Delete(set.trie, e), set.size - 1)

\* The elements of another set one by one, by the callbacks of the walks.
AdjoinAll(set, other) == FoldLeft(SetAdjoin, set, SetElements(other))
RemoveAll(set, other) == FoldLeft(SetDelete, set, SetElements(other))

\* The walks of union and difference begin with set->_trie, whatever set is.
\* The first set of difference is not walked.
Union(sets) ==
    IF NullSet \in ToSet(sets)
    THEN Crash
    ELSE FoldLeft(AdjoinAll, NullSet, sets)

Difference(sets) ==
    IF NullSet \in ToSet(Tail(sets))
    THEN Crash
    ELSE FoldLeft(RemoveAll, sets[1], Tail(sets))

SymmetricDifference(set1, set2) ==
    IF Crash \in {Difference(<<set1, set2>>), Difference(<<set2, set1>>)}
    THEN Crash
    ELSE Union(<<Difference(<<set1, set2>>), Difference(<<set2, set1>>)>>)

\* TYPENAME_set_intersection_of_two: the elements of set1 that set2 lacks are
\* deleted from it, while its old trie is walked.
IntersectionOfTwo(set1, set2) ==
    LET delete_missing(result, e) == IF HasElement(set2, e) THEN result ELSE SetDelete(result, e)
    IN  FoldLeft(delete_missing, set1, SetElements(set1))

\* Mutant: the first set is left out of the intersection, whichever is smallest.
IntersectionButFirst(sets) ==
    IF sets = <<>>
    THEN NullSet
    ELSE LET sizes == [n \in DOMAIN sets |-> SetSize(sets[n])]
             smallest == CHOOSE n \in DOMAIN sets :
                            /\ \A m \in DOMAIN sets : sizes[n] <= sizes[m]
                            /\ \A m \in 1 .. n - 1 : sizes[n] < sizes[m]
         IN  FoldLeft(IntersectionOfTwo, sets[smallest], Tail(sets))

\* The intersection begins with the first of the smallest sets and takes the
\* others in their order.
Intersection(sets) ==
    IF sets = <<>>
    THEN NullSet
    ELSE LET sizes == [n \in DOMAIN sets |-> SetSize(sets[n])]
             smallest == CHOOSE n \in DOMAIN sets :
                            /\ \A m \in DOMAIN sets : sizes[n] <= sizes[m]
                            /\ \A m \in 1 .. n - 1 : sizes[n] < sizes[m]
         IN  FoldLeft(IntersectionOfTwo, sets[smallest], RemoveAt(sets, smallest))

\* TYPENAME_check_another_element for each element of set.
AllIn(set, other) == \A n \in DOMAIN SetElements(set) : HasElement(other, SetElements(set)[n])

\* The comparisons are of each set with the next: of their sizes, and then of
\* their elements.
Neighbours(sets) == 1 .. Len(sets) - 1

Equal(sets) ==
    /\ \A n \in DOMAIN sets : SetSize(sets[n]) = SetSize(sets[1])
    /\ \A n \in Neighbours(sets) : AllIn(sets[n + 1], sets[n])

Subset(sets) ==
    /\ \A n \in Neighbours(sets) : SetSize(sets[n]) <= SetSize(sets[n + 1])
    /\ \A n \in Neighbours(sets) : AllIn(sets[n], sets[n + 1])

ProperSubset(sets) ==
    /\ \A n \in Neighbours(sets) : SetSize(sets[n]) < SetSize(sets[n + 1])
    /\ \A n \in Neighbours(sets) : AllIn(sets[n], sets[n + 1])

Superset(sets) ==
    /\ \A n \in Neighbours(sets) : SetSize(sets[n + 1]) <= SetSize(sets[n])
    /\ \A n \in Neighbours(sets) : AllIn(sets[n + 1], sets[n])

ProperSuperset(sets) ==
    /\ \A n \in Neighbours(sets) : SetSize(sets[n + 1]) < SetSize(sets[n])
    /\ \A n \in Neighbours(sets) : AllIn(sets[n + 1], sets[n])

-------------------------------------------------------------------------------

\* What the assertions of typed_set.c.in say, and that the size is the number
\* of leaves of a trie in its form.
SetOK(set) ==
    set # NullSet =>
        /\ set.size # 0
        /\ set.size = Len(SetElements(set))
        /\ Nodes!Canonical(set.trie)
===============================================================================
