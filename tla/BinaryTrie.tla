------------------------------ MODULE BinaryTrie ------------------------------
(***************************************************************************)
(* The persistent binary trie of include/libhiha/persistent_integer_trie.h *)
(* (its macros with a mask of one bit of an unsigned integer) and of       *)
(* include/libhiha/persistent_hash_map.h (with the number of a bit of a    *)
(* hash): a node is NULL, a leaf or an internal node with two children,    *)
(* and Bit tells which child a key belongs to at a depth.                  *)
(*                                                                         *)
(* An element is a record with a key.  Different keys differ in some bit,  *)
(* and equal keys in none.                                                 *)
(***************************************************************************)
EXTENDS Integers, Sequences

CONSTANT Bit(_, _)      \* the bit of a key that is tested at a depth: 0 or 1

Null == <<>>

Leaf(e) == [is_leaf |-> TRUE, element |-> e]
Internal(left, right) == [is_leaf |-> FALSE, left |-> left, right |-> right]

IsLeaf(node) == node # Null /\ node.is_leaf

\* The child of an internal node that a bit selects, and the other one.
Child(node, bit) == IF bit = 0 THEN node.left ELSE node.right
Sibling(node, bit) == Child(node, 1 - bit)

\* The internal node with these children, the first of them selected by bit.
Parent(bit, child, sibling) ==
    IF bit = 0 THEN Internal(child, sibling) ELSE Internal(sibling, child)

-------------------------------------------------------------------------------

\* The leaf with a key, or Null.  A walk to a leaf tests some bits of the key
\* only, so that the leaf may have another one.
RECURSIVE SearchFrom(_, _, _)
SearchFrom(node, key, depth) ==
    IF node = Null \/ IsLeaf(node)
    THEN IF node # Null /\ node.element.key = key THEN node ELSE Null
    ELSE SearchFrom(Child(node, Bit(key, depth)), key, depth + 1)

Search(trie, key) == SearchFrom(trie, key, 0)

\* Insertion below a node.  A leaf with another key is moved down until the
\* bits of the keys differ.
RECURSIVE InsertFrom(_, _, _)
InsertFrom(node, e, depth) ==
    LET bit == Bit(e.key, depth)
    IN  CASE node = Null -> Leaf(e)
          [] IsLeaf(node) /\ node.element.key = e.key -> Leaf(e)
          [] IsLeaf(node) /\ node.element.key # e.key ->
                IF Bit(node.element.key, depth) = bit
                THEN Parent(bit, InsertFrom(node, e, depth + 1), Null)
                ELSE Parent(bit, Leaf(e), node)
          [] OTHER ->
                Parent(bit, InsertFrom(Child(node, bit), e, depth + 1),
                       Sibling(node, bit))

Insert(trie, e) == InsertFrom(trie, e, 0)

\* Mutant: a leaf that is left alone stays where it is.
RECURSIVE DeleteWithoutLift(_, _, _)
DeleteWithoutLift(node, key, depth) ==
    IF IsLeaf(node)
    THEN Null
    ELSE LET bit == Bit(key, depth)
         IN  Parent(bit, DeleteWithoutLift(Child(node, bit), key, depth + 1),
                    Sibling(node, bit))

\* Deletion of a key that is below a node.  A leaf that is left alone takes the
\* place of the internal node above it.
RECURSIVE DeleteFrom(_, _, _)
DeleteFrom(node, key, depth) ==
    IF IsLeaf(node)
    THEN Null
    ELSE LET bit == Bit(key, depth)
             below == DeleteFrom(Child(node, bit), key, depth + 1)
             other == Sibling(node, bit)
         IN  CASE IsLeaf(below) /\ other = Null -> below
               [] below = Null /\ IsLeaf(other) -> other
               [] OTHER -> Parent(bit, below, other)

Delete(trie, key) ==
    IF Search(trie, key) = Null THEN trie ELSE DeleteFrom(trie, key, 0)

\* The elements in the order of a walk of the leaves.
RECURSIVE Walk(_)
Walk(node) ==
    CASE node = Null -> <<>>
      [] IsLeaf(node) -> <<node.element>>
      [] OTHER -> Walk(node.left) \o Walk(node.right)

-------------------------------------------------------------------------------

\* The form that all operations keep: each leaf lies where the bits of its key
\* lead, and each internal node has two leaves or more below it.  A set of keys
\* has one such trie.
RECURSIVE CanonicalFrom(_, _)
CanonicalFrom(node, depth) ==
    node = Null \/ IsLeaf(node) \/
        /\ Len(Walk(node)) > 1
        /\ \A bit \in {0, 1} :
            /\ \A n \in 1 .. Len(Walk(Child(node, bit))) :
                Bit(Walk(Child(node, bit))[n].key, depth) = bit
            /\ CanonicalFrom(Child(node, bit), depth + 1)

Canonical(trie) == CanonicalFrom(trie, 0)
===============================================================================
