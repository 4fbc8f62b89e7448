-------------------------------- MODULE AvlTree --------------------------------
(***************************************************************************)
(* The persistent AVL tree of include/libhiha/persistent_avl.h.  A node is *)
(* NULL or has data, a stored height and two subtrees; no operation        *)
(* changes a node.  Compare is the order of the data: the result is        *)
(* negative, zero or positive, and depends on the order that was chosen.   *)
(***************************************************************************)
EXTENDS Integers, Sequences

CONSTANT Compare(_, _, _)       \* of an order and two data

LOCAL INSTANCE FiniteSetsExt

Null == <<>>

HeightOf(node) == IF node = Null THEN 0 ELSE node.height

MakeNode(data, left, right) ==
    [data |-> data, left |-> left, right |-> right,
     height |-> Max({HeightOf(left), HeightOf(right)}) + 1]

Balance(node) ==
    IF node = Null THEN 0 ELSE HeightOf(node.left) - HeightOf(node.right)

RotateLeft(node) ==
    MakeNode(node.right.data,
             MakeNode(node.data, node.left, node.right.left),
             node.right.right)

RotateRight(node) ==
    MakeNode(node.left.data,
             node.left.left,
             MakeNode(node.data, node.left.right, node.right))

\* The two rotations of a node whose inner grandchild is too high.
RotateRightLeft(node) ==
    RotateLeft(MakeNode(node.data, node.left, RotateRight(node.right)))

RotateLeftRight(node) ==
    RotateRight(MakeNode(node.data, RotateLeft(node.left), node.right))

-------------------------------------------------------------------------------

RECURSIVE Search(_, _, _)
Search(node, data, order) ==
    IF node = Null \/ Compare(order, data, node.data) = 0
    THEN node
    ELSE Search(IF Compare(order, data, node.data) < 0 THEN node.left ELSE node.right,
                data, order)

\* Rebalancing on the way back from an insertion: the place of the new data
\* tells which grandchild has grown.
RebalanceInserted(node, data, order) ==
    CASE Balance(node) < -1 ->
            IF Compare(order, data, node.right.data) < 0
            THEN RotateRightLeft(node)
            ELSE IF Compare(order, data, node.right.data) > 0
            THEN RotateLeft(node)
            ELSE node
      [] Balance(node) > 1 ->
            IF Compare(order, data, node.left.data) < 0
            THEN RotateRight(node)
            ELSE IF Compare(order, data, node.left.data) > 0
            THEN RotateLeftRight(node)
            ELSE node
      [] OTHER -> node

RECURSIVE Insert(_, _, _)
Insert(node, data, order) ==
    IF node = Null
    THEN MakeNode(data, Null, Null)
    ELSE LET c == Compare(order, data, node.data)
         IN  CASE c = 0 -> MakeNode(data, node.left, node.right)
               [] c < 0 ->
                    RebalanceInserted(
                        MakeNode(node.data, Insert(node.left, data, order), node.right),
                        data, order)
               [] c > 0 ->
                    RebalanceInserted(
                        MakeNode(node.data, node.left, Insert(node.right, data, order)),
                        data, order)

\* Rebalancing on the way back from a deletion: the other side has not grown,
\* so its balance tells which rotation is due.
RebalanceDeleted(node) ==
    CASE Balance(node) < -1 ->
            IF Balance(node.right) <= 0 THEN RotateLeft(node) ELSE RotateRightLeft(node)
      [] Balance(node) > 1 ->
            IF Balance(node.left) >= 0 THEN RotateRight(node) ELSE RotateLeftRight(node)
      [] OTHER -> node

\* The data of the first node of a tree.
RECURSIVE First(_)
First(node) == IF node.left = Null THEN node.data ELSE First(node.left)

\* A node with two subtrees is replaced by its successor.
RECURSIVE Delete(_, _, _)
Delete(node, data, order) ==
    IF node = Null
    THEN Null
    ELSE LET c == Compare(order, data, node.data)
         IN  CASE c < 0 ->
                    RebalanceDeleted(
                        MakeNode(node.data, Delete(node.left, data, order), node.right))
               [] c > 0 ->
                    RebalanceDeleted(
                        MakeNode(node.data, node.left, Delete(node.right, data, order)))
               [] c = 0 /\ node.left = Null -> node.right
               [] c = 0 /\ node.left # Null /\ node.right = Null -> node.left
               [] OTHER ->
                    RebalanceDeleted(
                        MakeNode(First(node.right), node.left,
                                 Delete(node.right, First(node.right), order)))

\* The data in order, or against it for the direction -1.
RECURSIVE Inorder(_, _)
Inorder(node, direction) ==
    IF node = Null
    THEN <<>>
    ELSE LET before == Inorder(node.left, direction)
             after == Inorder(node.right, direction)
         IN  IF direction = -1
             THEN after \o <<node.data>> \o before
             ELSE before \o <<node.data>> \o after

\* The height of a tree whose subtrees differ by one at most, everywhere; or -1.
RECURSIVE Verify(_)
Verify(node) ==
    IF node = Null
    THEN 0
    ELSE LET left == Verify(node.left)
             right == Verify(node.right)
         IN  IF left # -1 /\ right # -1 /\ left - right \in -1 .. 1
             THEN Max({left, right}) + 1
             ELSE -1

-------------------------------------------------------------------------------

\* The stored heights are the heights.
RECURSIVE HeightsStored(_)
HeightsStored(node) ==
    node = Null \/
        /\ node.height = Verify(node)
        /\ HeightsStored(node.left)
        /\ HeightsStored(node.right)

\* Balanced, with the heights stored, and in order.
TreeOK(tree, order) ==
    /\ Verify(tree) # -1
    /\ HeightsStored(tree)
    /\ \A m, n \in 1 .. Len(Inorder(tree, 1)) :
        m < n => Compare(order, Inorder(tree, 1)[m], Inorder(tree, 1)[n]) < 0
===============================================================================
