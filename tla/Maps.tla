--------------------------------- MODULE Maps ---------------------------------
(***************************************************************************)
(* A client that makes the same calls of an integer trie, of a hash map    *)
(* and of an ordered map, which must all tell the same associations.       *)
(***************************************************************************)
EXTENDS Integers, Sequences, FiniteSets

CONSTANTS
    Keys,               \* unsigned integers
    Hash,               \* the first bits of the hashes of each of Keys
    Values,             \* what a key is associated with
    CommonValue         \* bound: at most one key has another of Values

ASSUME KeysAssumption ==
    /\ Keys \subseteq Nat
    /\ Hash \in [Keys -> Seq({0, 1})]
    /\ \A j, k \in Keys : Len(Hash[j]) = Len(Hash[k])

ASSUME ValuesAssumption == CommonValue \in Values

LOCAL INSTANCE TLC
LOCAL INSTANCE SequencesExt

NoValue == "NULL"

\* The bit of an integer key under the mask of a depth.
KeyBit(key, depth) == (key \div 2 ^ depth) % 2

\* The hashes of a key go on without end: two keys whose hashes agree as far as
\* Hash tells differ later.
KeyHashBit(key, i) ==
    IF i < Len(Hash[key]) THEN Hash[key][i + 1] ELSE KeyBit(key, i - Len(Hash[key]))

\* The default order of keys, and one a map is made in by omap_init.
CompareKeys(order, m, n) == IF order = "ascending" THEN m - n ELSE n - m

T == INSTANCE BinaryTrie WITH Bit <- KeyBit
M == INSTANCE HashMap WITH HashBit <- KeyHashBit
O == INSTANCE OrderedMap WITH DefaultOrder <- "ascending"

VARIABLES
    trie,               \* the integer trie
    map,                \* the hash map
    omap,               \* the ordered map
    order,              \* the order that omap was made in
    mapping            \* the function that all of them stand for

mapVars == <<trie, map, omap, order, mapping>>

-------------------------------------------------------------------------------

InitMaps ==
    /\ trie = T!Null
    /\ map = M!NullMap
    /\ \/ omap = O!NullOmap /\ order = "ascending"
       \/ omap = O!OmapInit("descending") /\ order = "descending"
    /\ mapping = [k \in {} |-> CommonValue]

Element(k, v) == [key |-> k, value |-> v]

\* Bound: no two keys with values that are not the common one.
MapAllowed(f) == Cardinality({k \in DOMAIN f : f[k] # CommonValue}) <= 1

CallInsertOrReplace(k, v) ==
    /\ mapping' = (k :> v) @@ mapping
    /\ MapAllowed(mapping')
    /\ trie' = T!Insert(trie, Element(k, v))
    /\ map' = M!MapInsertOrReplace(map, Element(k, v))
    /\ omap' = O!OmapInsertOrReplace(omap, Element(k, v))
    /\ UNCHANGED order

\* The trie has no such operation: its caller searches first.
CallInsertOnly(k, v) ==
    /\ mapping' = mapping @@ (k :> v)
    /\ MapAllowed(mapping')
    /\ trie' = IF T!Search(trie, k) = T!Null THEN T!Insert(trie, Element(k, v)) ELSE trie
    /\ map' = M!MapInsertOnly(map, Element(k, v))
    /\ omap' = O!OmapInsertOnly(omap, Element(k, v))
    /\ UNCHANGED order

CallReplaceOnly(k, v) ==
    /\ mapping' = [j \in DOMAIN mapping |-> IF j = k THEN v ELSE mapping[j]]
    /\ MapAllowed(mapping')
    /\ trie' = IF T!Search(trie, k) = T!Null THEN trie ELSE T!Insert(trie, Element(k, v))
    /\ map' = M!MapReplaceOnly(map, Element(k, v))
    /\ omap' = O!OmapReplaceOnly(omap, Element(k, v))
    /\ UNCHANGED order

CallDeleteKey(k) ==
    /\ mapping' = [j \in DOMAIN mapping \ {k} |-> mapping[j]]
    /\ trie' = T!Delete(trie, k)
    /\ map' = M!MapDelete(map, k)
    /\ omap' = O!OmapDelete(omap, k)
    /\ UNCHANGED order

NextMaps ==
    \E k \in Keys :
        \/ \E v \in Values :
            CallInsertOrReplace(k, v) \/ CallInsertOnly(k, v) \/ CallReplaceOnly(k, v)
        \/ CallDeleteKey(k)

-------------------------------------------------------------------------------
(***************************************************************************)
(* Properties                                                              *)
(***************************************************************************)

\* The representations keep the form that their operations rely on: the tries
\* are as short as they can be, the tree is balanced and in order, and the
\* stored sizes and heights are right.
MapStructuresOK ==
    /\ T!Canonical(trie)
    /\ M!MapOK(map)
    /\ O!OmapOK(omap)

\* The lists of a map belong together, and tell each association once.
ListsTell(keys, values, associations) ==
    /\ Len(keys) = Cardinality(DOMAIN mapping)
    /\ ToSet(keys) = DOMAIN mapping
    /\ values = [n \in DOMAIN keys |-> mapping[keys[n]]]
    /\ associations = [n \in DOMAIN keys |-> Element(keys[n], mapping[keys[n]])]

\* However the keys collide, the trees are rotated and elements are deleted
\* between, a search finds what was put last under its key, the sizes are those
\* of the function, and an ordered map lists its keys in the order it was made
\* in, though it may have been empty since.
MapsAgree ==
    /\ \A k \in Keys :
        LET leaf == T!Search(trie, k)
        IN  IF k \in DOMAIN mapping
            THEN /\ leaf # T!Null /\ leaf.element = Element(k, mapping[k])
                 /\ M!MapSearch(map, k) = mapping[k]
                 /\ O!OmapSearch(omap, k) = mapping[k]
            ELSE /\ leaf = T!Null
                 /\ M!MapSearch(map, k) = NoValue
                 /\ O!OmapSearch(omap, k) = NoValue
    /\ M!MapSize(map) = Cardinality(DOMAIN mapping)
    /\ O!OmapSize(omap) = Cardinality(DOMAIN mapping)
    /\ ListsTell(M!MapKeys(map), M!MapValues(map), M!MapAssociations(map))
    /\ \A direction \in {-1, 1} :
        LET keys == O!OmapKeys(omap, direction)
        IN  /\ ListsTell(keys, O!OmapValues(omap, direction),
                         O!OmapAssociations(omap, direction))
            /\ \A m, n \in DOMAIN keys :
                m < n => CompareKeys(order, keys[m], keys[n]) * direction < 0
===============================================================================
