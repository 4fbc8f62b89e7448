-------------------------- MODULE IndexedDequeClient --------------------------
(***************************************************************************)
(* A client that calls the operations of an indexed deque in any order,    *)
(* one of them at a time.  The implementation tells a full deque from an   *)
(* empty one only up to MaxSize elements: 2^w pointers do not fit into     *)
(* memory, so the client puts no more than that.                           *)
(***************************************************************************)
EXTENDS IndexedDeque

CONSTANT Nothing        \* NULL

VARIABLES
    dq,                 \* the latest deque
    returned,           \* what the latest get returned
    exited,             \* TRUE when deque_index_error ended the process
    latest_call         \* the latest call and its arguments

clientVars == <<dq, returned, exited, latest_call>>

DequeTypeOK ==
    /\ WellFormed(dq)
    /\ returned \in Elements \cup {Nothing}
    /\ exited \in BOOLEAN

DequeInit ==
    /\ dq = EmptyDeque /\ returned = Nothing /\ exited = FALSE
    /\ latest_call = <<"none">>

CallPutBeforeFirst(e) ==
    /\ latest_call' = <<"put_before_first", e>>
    /\ Size(dq) < MaxSize
    /\ dq' = PutBeforeFirst(dq, e)
    /\ UNCHANGED <<returned, exited>>

CallPutAfterLast(e) ==
    /\ latest_call' = <<"put_after_last", e>>
    /\ Size(dq) < MaxSize
    /\ dq' = PutAfterLast(dq, e)
    /\ UNCHANGED <<returned, exited>>

\* deque_index: an index that is out of range ends the process.
IndexError(c, i) ==
    /\ Size(dq) <= i
    /\ latest_call' = c
    /\ exited' = TRUE
    /\ UNCHANGED <<dq, returned>>

CallPutAt(i, e) ==
    /\ latest_call' = <<"put_at", i, e>>
    /\ i < Size(dq)
    /\ dq' = PutAt(dq, i, e)
    /\ UNCHANGED <<returned, exited>>

CallGetAt(i) ==
    /\ latest_call' = <<"get_at", i>>
    /\ i < Size(dq)
    /\ returned' = GetAt(dq, i)
    /\ UNCHANGED <<dq, exited>>

CallGetFirst ==
    /\ latest_call' = <<"get_first">>
    /\ returned' = IF Size(dq) = 0 THEN Nothing ELSE GetFirst(dq)
    /\ UNCHANGED <<dq, exited>>

CallGetLast ==
    /\ latest_call' = <<"get_last">>
    /\ returned' = IF Size(dq) = 0 THEN Nothing ELSE GetLast(dq)
    /\ UNCHANGED <<dq, exited>>

CallDeleteFirst ==
    /\ latest_call' = <<"delete_first">>
    /\ dq' = DeleteFirst(dq)
    /\ UNCHANGED <<returned, exited>>

CallDeleteLast ==
    /\ latest_call' = <<"delete_last">>
    /\ dq' = DeleteLast(dq)
    /\ UNCHANGED <<returned, exited>>

DequeNext ==
    /\ ~ exited
    /\ \/ \E e \in Elements : CallPutBeforeFirst(e) \/ CallPutAfterLast(e)
       \/ \E e \in Elements, i \in 0 .. MaxSize :
             CallPutAt(i, e) \/ IndexError(<<"put_at", i, e>>, i)
       \/ \E i \in 0 .. MaxSize : CallGetAt(i) \/ IndexError(<<"get_at", i>>, i)
       \/ CallGetFirst
       \/ CallGetLast
       \/ CallDeleteFirst
       \/ CallDeleteLast

DequeSpec == DequeInit /\ [][DequeNext]_clientVars

-------------------------------------------------------------------------------

Seqs == INSTANCE Deque WITH elements <- Contents(dq)

\* The indexed deque behaves as a sequence, wherever its indices wrap around:
\* no operation loses, moves or repeats an element.
ImplementsDeque == Seqs!SeqSpec
===============================================================================
