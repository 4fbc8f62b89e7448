------------------------------- MODULE FifoLock -------------------------------
(***************************************************************************)
(* What a lock promises to the threads that use it: one of them is inside  *)
(* at a time, and they get inside in the order in which they asked.        *)
(* include/libhiha/spinlock.h:27 says why the ticketing system is there:   *)
(* "to help ensure an attempt to acquire a lock does indeed get its turn". *)
(***************************************************************************)
EXTENDS Naturals, Sequences

CONSTANT Threads        \* the threads that may call acquire_spinlock

VARIABLES
    queue,              \* the threads that asked and have not left, oldest first
    entered             \* TRUE when the thread at the head is inside

fifoVars == <<queue, entered>>

FifoInit == queue = <<>> /\ entered = FALSE

\* A thread that is not queued asks for the lock.
Ask(t) ==
    /\ \A i \in 1 .. Len(queue) : queue[i] # t
    /\ queue' = Append(queue, t)
    /\ UNCHANGED entered

\* The thread that asked first gets inside.
Enter ==
    /\ queue # <<>>
    /\ ~ entered
    /\ entered' = TRUE
    /\ UNCHANGED queue

\* The thread that is inside leaves.
Leave ==
    /\ entered
    /\ queue' = Tail(queue)
    /\ entered' = FALSE

FifoNext == Enter \/ Leave \/ \E t \in Threads : Ask(t)

FifoSpec == FifoInit /\ [][FifoNext]_fifoVars
===============================================================================
