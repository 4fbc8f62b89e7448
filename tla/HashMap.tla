-------------------------------- MODULE HashMap --------------------------------
(***************************************************************************)
(* The maps of src/libhiha/typed_map.c.in over the hash maps of            *)
(* include/libhiha/persistent_hash_map.h: a trie of the bits of the hashes *)
(* of the keys, which is entered as far as the keys are told apart, and    *)
(* the number of its elements.  The map without elements is NULL.          *)
(***************************************************************************)
EXTENDS Integers, Sequences

CONSTANTS
    HashBit(_, _),      \* bit i of the hashes of a key, which never run out
    NoValue             \* NULL: what a search without success returns

LOCAL INSTANCE SequencesExt

Nodes == INSTANCE BinaryTrie WITH Bit <- HashBit

\* The macros of persistent_hash_map.h do with hashes what those of
\* persistent_integer_trie.h do with integers.
NodeSearch(node, key) == Nodes!Search(node, key)
NodeInsert(node, e) == Nodes!Insert(node, e)
NodeDelete(node, key) == Nodes!Delete(node, key)
NodeWalk(node) == Nodes!Walk(node)

NullMap == <<>>

Map(trie, size) == [trie |-> trie, size |-> size]

\* What a function finds in a map that may be NULL.
TrieOf(map) == IF map = NullMap THEN Nodes!Null ELSE map.trie
MapSize(map) == IF map = NullMap THEN 0 ELSE map.size

Walked(map) == NodeWalk(TrieOf(map))

-------------------------------------------------------------------------------

MapSearch(map, key) ==
    LET leaf == NodeSearch(TrieOf(map), key)
    IN  IF leaf = Nodes!Null THEN NoValue ELSE leaf.element.value

MapHas(map, key) == NodeSearch(TrieOf(map), key) # Nodes!Null

\* The size change that an insertion of a mode reports.
SizeChange(map, key, mode) ==
    IF mode = "replace_only" \/ MapHas(map, key) THEN 0 ELSE 1

\* Whether an insertion of a mode inserts.
DoInsertion(map, key, mode) ==
    CASE mode = "insert_or_replace" -> TRUE
      [] mode = "insert_only" -> ~ MapHas(map, key)
      [] mode = "replace_only" -> MapHas(map, key)

MapInsert(map, e, mode) ==
    Map(IF DoInsertion(map, e.key, mode)
        THEN NodeInsert(TrieOf(map), e)
        ELSE TrieOf(map),
        MapSize(map) + SizeChange(map, e.key, mode))

MapInsertOrReplace(map, e) == MapInsert(map, e, "insert_or_replace")

MapInsertOnly(map, e) == MapInsert(map, e, "insert_only")

MapReplaceOnly(map, e) ==
    IF map = NullMap THEN NullMap ELSE MapInsert(map, e, "replace_only")

\* A map that loses its last element becomes NULL.
MapDelete(map, key) ==
    LET size == MapSize(map) - (IF MapHas(map, key) THEN 1 ELSE 0)
    IN  IF size = 0 THEN NullMap ELSE Map(NodeDelete(TrieOf(map), key), size)

\* Vectors of the keys, of the values and of both, in the order of a walk.
MapKeys(map) == [n \in 1 .. Len(Walked(map)) |-> Walked(map)[n].key]
MapValues(map) == [n \in 1 .. Len(Walked(map)) |-> Walked(map)[n].value]
MapAssociations(map) == Walked(map)

-------------------------------------------------------------------------------

\* What the assertions of typed_map.c.in say, and that the size is the number
\* of leaves of a trie in its form.
MapOK(map) ==
    map # NullMap =>
        /\ map.size # 0
        /\ map.size = Len(Walked(map))
        /\ Nodes!Canonical(map.trie)
===============================================================================
