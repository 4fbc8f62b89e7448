--------------------------------- MODULE Deque ---------------------------------
(***************************************************************************)
(* What include/libhiha/indexed_deque.h promises: a sequence that elements *)
(* are put into, deleted from and looked at, at both ends and by index.    *)
(***************************************************************************)
EXTENDS Naturals, Sequences

CONSTANTS
    Elements,
    MaxSize,            \* bound: how many elements fit
    Nothing             \* what looking at either end of an empty deque returns

VARIABLES
    elements,           \* the elements, first to last
    returned,           \* what the latest get returned
    exited,             \* TRUE when an index out of range ended the process
    latest_call         \* the latest call and its arguments

dequeVars == <<elements, returned, exited, latest_call>>

SeqInit ==
    /\ elements = <<>> /\ returned = Nothing /\ exited = FALSE
    /\ latest_call = <<"none">>

SeqPutBeforeFirst(e) ==
    /\ latest_call' = <<"put_before_first", e>>
    /\ Len(elements) < MaxSize
    /\ elements' = <<e>> \o elements
    /\ UNCHANGED <<returned, exited>>

SeqPutAfterLast(e) ==
    /\ latest_call' = <<"put_after_last", e>>
    /\ Len(elements) < MaxSize
    /\ elements' = Append(elements, e)
    /\ UNCHANGED <<returned, exited>>

SeqPutAt(i, e) ==
    /\ latest_call' = <<"put_at", i, e>>
    /\ IF i < Len(elements)
       THEN elements' = [elements EXCEPT ![i + 1] = e] /\ UNCHANGED <<returned, exited>>
       ELSE exited' = TRUE /\ UNCHANGED <<elements, returned>>

SeqGetAt(i) ==
    /\ latest_call' = <<"get_at", i>>
    /\ IF i < Len(elements)
       THEN returned' = elements[i + 1] /\ UNCHANGED <<elements, exited>>
       ELSE exited' = TRUE /\ UNCHANGED <<elements, returned>>

SeqGetFirst ==
    /\ latest_call' = <<"get_first">>
    /\ returned' = IF elements = <<>> THEN Nothing ELSE elements[1]
    /\ UNCHANGED <<elements, exited>>

SeqGetLast ==
    /\ latest_call' = <<"get_last">>
    /\ returned' = IF elements = <<>> THEN Nothing ELSE elements[Len(elements)]
    /\ UNCHANGED <<elements, exited>>

SeqDeleteFirst ==
    /\ latest_call' = <<"delete_first">>
    /\ elements' = IF elements = <<>> THEN <<>> ELSE Tail(elements)
    /\ UNCHANGED <<returned, exited>>

SeqDeleteLast ==
    /\ latest_call' = <<"delete_last">>
    /\ elements' = IF elements = <<>> THEN <<>>
                   ELSE SubSeq(elements, 1, Len(elements) - 1)
    /\ UNCHANGED <<returned, exited>>

SeqNext ==
    /\ ~ exited
    /\ \/ \E e \in Elements : SeqPutBeforeFirst(e) \/ SeqPutAfterLast(e)
       \/ \E e \in Elements, i \in 0 .. MaxSize : SeqPutAt(i, e)
       \/ \E i \in 0 .. MaxSize : SeqGetAt(i)
       \/ SeqGetFirst
       \/ SeqGetLast
       \/ SeqDeleteFirst
       \/ SeqDeleteLast

SeqSpec == SeqInit /\ [][SeqNext]_dequeVars
===============================================================================
