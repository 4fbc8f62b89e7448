------------------------------ MODULE OrderedMap ------------------------------
(***************************************************************************)
(* The ordered maps of src/libhiha/typed_omap.c.in over the AVL trees of   *)
(* include/libhiha/persistent_avl.h.  NULL is the empty map in the default *)
(* order; a map in another order that loses its last element stays a map   *)
(* in that order.                                                          *)
(***************************************************************************)
EXTENDS Integers, Sequences

CONSTANTS
    CompareKeys(_, _, _),       \* the _compare of an order, of two keys
    DefaultOrder,               \* the order of TYPENAME_default_compare
    NoValue                     \* NULL: what a search without success returns

LOCAL CompareData(order, d, e) == CompareKeys(order, d.key, e.key)

Nodes == INSTANCE AvlTree WITH Compare <- CompareData

NullOmap == <<>>

Omap(tree, size, order) == [tree |-> tree, size |-> size, order |-> order]

OmapInit(order) == Omap(Nodes!Null, 0, order)

\* allocated_omap
Allocated(omap) == IF omap = NullOmap THEN OmapInit(DefaultOrder) ELSE omap

OmapSize(omap) == Allocated(omap).size

\* The search that every operation begins with.
OmapFind(omap, key) ==
    Nodes!Search(Allocated(omap).tree, [key |-> key], Allocated(omap).order)

OmapHas(omap, key) == OmapFind(omap, key) # Nodes!Null

OmapSearch(omap, key) ==
    IF OmapHas(omap, key) THEN OmapFind(omap, key).data.value ELSE NoValue

-------------------------------------------------------------------------------

\* Mutant: the map is made in the default order.
InsertForgetsOrder(omap, e, change) ==
    Omap(Nodes!Insert(Allocated(omap).tree, e, Allocated(omap).order),
         OmapSize(omap) + change, DefaultOrder)

\* The map with an element, and a size that has changed.
InsertElement(omap, e, change) ==
    Omap(Nodes!Insert(Allocated(omap).tree, e, Allocated(omap).order),
         OmapSize(omap) + change, Allocated(omap).order)

OmapInsertOrReplace(omap, e) ==
    InsertElement(omap, e, IF OmapHas(omap, e.key) THEN 0 ELSE 1)

OmapInsertOnly(omap, e) ==
    IF OmapHas(omap, e.key) THEN omap ELSE InsertElement(omap, e, 1)

OmapReplaceOnly(omap, e) ==
    IF OmapHas(omap, e.key) THEN InsertElement(omap, e, 0) ELSE omap

OmapDelete(omap, key) ==
    CASE ~ OmapHas(omap, key) -> omap
      [] OmapHas(omap, key) /\ omap.size # 1 ->
            Omap(Nodes!Delete(omap.tree, [key |-> key], omap.order),
                 omap.size - 1, omap.order)
      [] OTHER -> IF omap.order = DefaultOrder THEN NullOmap ELSE OmapInit(omap.order)

\* Vectors of the keys, of the values and of both, in a direction.
OmapAssociations(omap, direction) == Nodes!Inorder(Allocated(omap).tree, direction)

OmapKeys(omap, direction) ==
    [n \in DOMAIN OmapAssociations(omap, direction) |->
        OmapAssociations(omap, direction)[n].key]

OmapValues(omap, direction) ==
    [n \in DOMAIN OmapAssociations(omap, direction) |->
        OmapAssociations(omap, direction)[n].value]

-------------------------------------------------------------------------------

\* The tree is in order and balanced, and the size is the number of its nodes.
OmapOK(omap) ==
    omap # NullOmap =>
        /\ omap.size = Len(OmapAssociations(omap, 1))
        /\ Nodes!TreeOK(omap.tree, omap.order)
===============================================================================
