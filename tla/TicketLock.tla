------------------------------ MODULE TicketLock ------------------------------
(***************************************************************************)
(* The ticket spinlock of src/libhiha/spinlock.c.  acquire_spinlock takes  *)
(* a ticket with an atomic fetch-and-add and then loads the active ticket  *)
(* until it is its own; release_spinlock makes the next ticket active.     *)
(* Both counters are of type size_t and wrap around.                       *)
(*                                                                         *)
(* Every atomic operation is one action.  A load and the comparison of     *)
(* what it returned are two actions, so a thread may compare a value that  *)
(* other threads have already overwritten.                                 *)
(***************************************************************************)
EXTENDS Integers, FiniteSets

CONSTANTS
    Threads,            \* the threads that use the lock
    TicketModulus       \* the number of values of a size_t

ASSUME ThreadsAssumption == IsFiniteSet(Threads)

\* There are fewer threads than tickets.
ASSUME TicketModulusAssumption ==
    /\ TicketModulus \in Nat
    /\ Cardinality(Threads) < TicketModulus

VARIABLES
    active,             \* lock->active
    available,          \* lock->available
    pc,                 \* where each thread is in acquire_spinlock
    my_ticket,          \* the local variable my_ticket of each thread
    active_ticket       \* the local variable active_ticket of each thread

lockVars == <<active, available, pc, my_ticket, active_ticket>>

Tickets == 0 .. TicketModulus - 1

\* Addition of 1 to a size_t.
Inc(n) == IF n = TicketModulus - 1 THEN 0 ELSE n + 1

\* The number of increments that take a size_t from m to n.
Dist(m, n) == IF m <= n THEN n - m ELSE n - m + TicketModulus

\* The threads that hold a ticket: they wait for the lock or are inside.
Outstanding == {t \in Threads : pc[t] # "outside"}

LockTypeOK ==
    /\ active \in Tickets
    /\ available \in Tickets
    /\ pc \in [Threads -> {"outside", "load", "compare", "inside"}]
    /\ my_ticket \in [Threads -> Tickets]
    /\ active_ticket \in [Threads -> Tickets]

-------------------------------------------------------------------------------

LockInit ==
    /\ active = 0
    /\ available = 0
    /\ pc = [t \in Threads |-> "outside"]
    /\ my_ticket = [t \in Threads |-> 0]
    /\ active_ticket = [t \in Threads |-> 0]

\* Mutant: a load and a store in place of the fetch-and-add; the store of
\* the sum is lost.
FetchTicketLost(t) ==
    /\ pc[t] = "outside"
    /\ my_ticket' = [my_ticket EXCEPT ![t] = available]
    /\ pc' = [pc EXCEPT ![t] = "load"]
    /\ UNCHANGED <<active, available, active_ticket>>

\* Mutant: the counter is wider than the ticket it hands out, and never wraps.
FetchTicketNoWrap(t) ==
    /\ pc[t] = "outside"
    /\ my_ticket' = [my_ticket EXCEPT ![t] = available]
    /\ available' = available + 1
    /\ pc' = [pc EXCEPT ![t] = "load"]
    /\ UNCHANGED <<active, active_ticket>>

\* acquire_spinlock: my_ticket = atomic_fetch_add (&lock->available, 1)
FetchTicket(t) ==
    /\ pc[t] = "outside"
    /\ my_ticket' = [my_ticket EXCEPT ![t] = available]
    /\ available' = Inc(available)
    /\ pc' = [pc EXCEPT ![t] = "load"]
    /\ UNCHANGED <<active, active_ticket>>

\* acquire_spinlock: active_ticket = atomic_load (&lock->active)
LoadActive(t) ==
    /\ pc[t] = "load"
    /\ active_ticket' = [active_ticket EXCEPT ![t] = active]
    /\ pc' = [pc EXCEPT ![t] = "compare"]
    /\ UNCHANGED <<active, available, my_ticket>>

\* acquire_spinlock: while (my_ticket != active_ticket)
CompareTickets(t) ==
    /\ pc[t] = "compare"
    /\ pc' = [pc EXCEPT ![t] =
                IF my_ticket[t] = active_ticket[t] THEN "inside" ELSE "load"]
    /\ UNCHANGED <<active, available, my_ticket, active_ticket>>

\* Mutant: the lock is handed to the latest ticket and not to the next one.
ReleaseToLatest(t) ==
    /\ pc[t] = "inside"
    /\ active' = available
    /\ pc' = [pc EXCEPT ![t] = "outside"]
    /\ UNCHANGED <<available, my_ticket, active_ticket>>

\* release_spinlock: atomic_fetch_add (&lock->active, 1)
ReleaseSpinlock(t) ==
    /\ pc[t] = "inside"
    /\ active' = Inc(active)
    /\ pc' = [pc EXCEPT ![t] = "outside"]
    /\ UNCHANGED <<available, my_ticket, active_ticket>>

LockNext ==
    \E t \in Threads :
        \/ FetchTicket(t)
        \/ LoadActive(t)
        \/ CompareTickets(t)
        \/ ReleaseSpinlock(t)

LockSpec == LockInit /\ [][LockNext]_lockVars

-------------------------------------------------------------------------------
(***************************************************************************)
(* Properties                                                              *)
(***************************************************************************)

\* Two threads never are between acquire_spinlock and release_spinlock at the
\* same time, though each decides from a value of active that it loaded some
\* time ago, and though both counters wrap around.
MutualExclusion ==
    \A t, u \in Threads : pc[t] = "inside" /\ pc[u] = "inside" => t = u

\* A thread that took a ticket gets inside, if all are scheduled again and again
\* and none stays inside for ever: the comment at spinlock.h:27.
NoStarvation ==
    \A t \in Threads : pc[t] = "load" ~> pc[t] = "inside"

\* The queue of FifoLock: the holders of tickets, by ticket.
LockQueue ==
    [i \in 1 .. Dist(active, available) |->
        CHOOSE t \in Outstanding : Dist(active, my_ticket[t]) = i - 1]

Fifo == INSTANCE FifoLock WITH
            queue <- LockQueue,
            entered <- \E t \in Threads : pc[t] = "inside"

\* Threads get inside in the order of their fetch-and-adds: the ticket lock
\* implements the FIFO lock.
FirstComeFirstServed == Fifo!FifoSpec
===============================================================================
