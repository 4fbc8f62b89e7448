-------------------------- MODULE TicketLock_proofs --------------------------
(***************************************************************************)
(* Proofs about TicketLock, for every finite set of threads and every      *)
(* width of the tickets that can tell the threads apart.                   *)
(***************************************************************************)
EXTENDS TicketLock, Sequences, FiniteSetTheorems, TLAPS

\* No two threads hold the same ticket.
DistinctTickets ==
    \A t, u \in Outstanding : my_ticket[t] = my_ticket[u] => t = u

\* Every ticket that is held lies in the window from active to available.
TicketsInWindow ==
    \A t \in Outstanding : Dist(active, my_ticket[t]) < Dist(active, available)

\* The window has one place for each thread that holds a ticket, so it never
\* closes around all the tickets.
WindowSize == Dist(active, available) = Cardinality(Outstanding)

\* Every ticket of the window is held: no turn goes to nobody.
TicketsHeld ==
    \A d \in Nat : d < Dist(active, available) =>
        \E t \in Outstanding : Dist(active, my_ticket[t]) = d

\* The thread that is inside holds the active ticket.
InsideIsActive == \A t \in Threads : pc[t] = "inside" => my_ticket[t] = active

\* A thread that loaded its own ticket does not compare a stale value.
LoadedIsActive ==
    \A t \in Threads :
        pc[t] = "compare" /\ active_ticket[t] = my_ticket[t] => my_ticket[t] = active

\* The inductive invariant.
LockIInv ==
    /\ LockTypeOK
    /\ DistinctTickets
    /\ TicketsInWindow
    /\ WindowSize
    /\ TicketsHeld
    /\ InsideIsActive
    /\ LoadedIsActive

-------------------------------------------------------------------------------

\* The arithmetic of a window of tickets: a step of available widens it at the
\* end unless it is as wide as it can be, a step of active narrows it at the
\* front unless it is empty.
LEMMA TicketArithmetic ==
    ASSUME NEW a \in Tickets, NEW b \in Tickets
    PROVE  /\ Inc(a) \in Tickets
           /\ Dist(a, b) \in Nat
           /\ Dist(a, b) < TicketModulus
           /\ Dist(a, b) = 0 <=> a = b
           /\ Dist(a, b) < TicketModulus - 1 => Dist(a, Inc(b)) = Dist(a, b) + 1
           /\ a # b => Dist(Inc(a), b) = Dist(a, b) - 1
    BY TicketModulusAssumption DEF Tickets, Inc, Dist

\* Tickets at the same distance from active are the same ticket.
LEMMA DistInjective ==
    ASSUME NEW a \in Tickets, NEW b \in Tickets, NEW c \in Tickets,
           Dist(a, b) = Dist(a, c)
    PROVE  b = c
    BY TicketModulusAssumption DEF Tickets, Dist

\* Some ticket is left for a thread that is outside.
LEMMA OutstandingCardinality ==
    /\ IsFiniteSet(Outstanding)
    /\ Cardinality(Outstanding) \in Nat
    /\ \A t \in Threads \ Outstanding : Cardinality(Outstanding) < TicketModulus - 1
  <1>1. Outstanding \subseteq Threads
    BY DEF Outstanding
  <1>2. IsFiniteSet(Outstanding) /\ Cardinality(Outstanding) \in Nat
    BY <1>1, ThreadsAssumption, FS_Subset, FS_CardinalityType
  <1>3. ASSUME NEW t \in Threads \ Outstanding
        PROVE  Cardinality(Outstanding) < TicketModulus - 1
    <2>1. IsFiniteSet(Threads \ {t}) /\ Cardinality(Threads \ {t}) = Cardinality(Threads) - 1
      BY ThreadsAssumption, FS_RemoveElement
    <2>2. Outstanding \subseteq Threads \ {t}
      BY <1>1
    <2>3. Cardinality(Outstanding) <= Cardinality(Threads \ {t})
      BY <2>1, <2>2, FS_Subset
    <2>. QED  BY <2>1, <2>3, <1>2, ThreadsAssumption, FS_CardinalityType, TicketModulusAssumption
  <1>. QED  BY <1>2, <1>3

LEMMA LockInitInv == LockInit => LockIInv
  <1>. SUFFICES ASSUME LockInit PROVE LockIInv
    OBVIOUS
  <1>. USE DEF LockInit
  <1>1. LockTypeOK
    BY TicketModulusAssumption, ThreadsAssumption, FS_CardinalityType DEF LockTypeOK, Tickets
  <1>2. Outstanding = {}
    BY DEF Outstanding
  <1>3. WindowSize
    BY <1>2, FS_EmptySet DEF WindowSize, Dist
  <1>4. TicketsHeld
    BY DEF TicketsHeld, Dist
  <1>. QED
    BY <1>1, <1>2, <1>3, <1>4
    DEF LockIInv, DistinctTickets, TicketsInWindow, InsideIsActive, LoadedIsActive

\* A thread takes the first ticket after the window.
LEMMA FetchTicketInv ==
    ASSUME LockIInv, NEW t \in Threads, FetchTicket(t)
    PROVE  LockIInv'
  <1>. USE DEF LockIInv, LockTypeOK
  <1>1. t \in Threads \ Outstanding
    BY DEF FetchTicket, Outstanding
  <1>2. Outstanding' = Outstanding \cup {t}
    BY DEF FetchTicket, Outstanding
  <1>3. Cardinality(Outstanding') = Cardinality(Outstanding) + 1
    BY <1>1, <1>2, OutstandingCardinality, FS_AddElement
  <1>4. Dist(active, available) < TicketModulus - 1
    BY <1>1, OutstandingCardinality DEF WindowSize
  <1>5. Dist(active', available') = Dist(active, available) + 1
    BY <1>4, TicketArithmetic DEF FetchTicket
  <1>6. LockTypeOK'
    BY TicketArithmetic DEF FetchTicket
  <1>7. ASSUME NEW u \in Outstanding
        PROVE  my_ticket'[u] = my_ticket[u] /\ my_ticket[u] # available
    <2>1. Dist(active, my_ticket[u]) < Dist(active, available)
      BY DEF TicketsInWindow
    <2>2. Dist(active, available) \in Nat
      BY TicketArithmetic
    <2>. QED  BY <1>1, <2>1, <2>2 DEF FetchTicket, Outstanding
  <1>8. my_ticket'[t] = available
    BY DEF FetchTicket
  <1>9. DistinctTickets'
    BY <1>2, <1>7, <1>8 DEF DistinctTickets
  <1>10. TicketsInWindow'
    <2>1. Dist(active, available) \in Nat
      BY TicketArithmetic
    <2>2. \A u \in Outstanding : Dist(active, my_ticket[u]) \in Nat
      BY TicketArithmetic DEF Outstanding
    <2>3. active' = active
      BY DEF FetchTicket
    <2>. QED  BY <1>2, <1>5, <1>7, <1>8, <2>1, <2>2, <2>3 DEF TicketsInWindow, Dist
  <1>11. WindowSize'
    BY <1>3, <1>5 DEF WindowSize
  <1>12. InsideIsActive' /\ LoadedIsActive'
    BY DEF FetchTicket, InsideIsActive, LoadedIsActive
  <1>13. TicketsHeld'
    <2>1. Dist(active, available) \in Nat /\ active' = active
      BY TicketArithmetic DEF FetchTicket
    <2>2. ASSUME NEW d \in Nat, d < Dist(active', available')
          PROVE  \E u \in Outstanding' : Dist(active', my_ticket'[u]) = d
      <3>1. CASE d = Dist(active, available)
        BY <3>1, <2>1, <1>2, <1>8
      <3>2. CASE d < Dist(active, available)
        <4>1. PICK u \in Outstanding : Dist(active, my_ticket[u]) = d
          BY <3>2 DEF TicketsHeld
        <4>. QED  BY <4>1, <2>1, <1>2, <1>7
      <3>. QED  BY <3>1, <3>2, <2>1, <2>2, <1>5
    <2>. QED  BY <2>2 DEF TicketsHeld, Dist
  <1>. QED  BY <1>6, <1>9, <1>10, <1>11, <1>12, <1>13

\* Loading and comparing change no ticket.
LEMMA WaitInv ==
    ASSUME LockIInv, NEW t \in Threads, LoadActive(t) \/ CompareTickets(t)
    PROVE  LockIInv'
  <1>. USE DEF LockIInv, LockTypeOK, LoadActive, CompareTickets
  <1>1. LockTypeOK'
    OBVIOUS
  <1>2. Outstanding' = Outstanding
    BY DEF Outstanding
  <1>3. DistinctTickets' /\ TicketsInWindow' /\ WindowSize' /\ TicketsHeld'
    BY <1>2 DEF DistinctTickets, TicketsInWindow, WindowSize, TicketsHeld, Dist
  <1>4. InsideIsActive'
    BY DEF InsideIsActive, LoadedIsActive
  <1>5. LoadedIsActive'
    BY DEF LoadedIsActive
  <1>. QED  BY <1>1, <1>3, <1>4, <1>5

\* The thread that leaves holds the first ticket of the window.
LEMMA ReleaseSpinlockInv ==
    ASSUME LockIInv, NEW t \in Threads, ReleaseSpinlock(t)
    PROVE  LockIInv'
  <1>. USE DEF LockIInv, LockTypeOK
  <1>1. t \in Outstanding /\ my_ticket[t] = active
    BY DEF ReleaseSpinlock, Outstanding, InsideIsActive
  <1>2. Outstanding' = Outstanding \ {t}
    BY DEF ReleaseSpinlock, Outstanding
  <1>3. Cardinality(Outstanding') = Cardinality(Outstanding) - 1
    BY <1>1, <1>2, OutstandingCardinality, FS_RemoveElement
  <1>4. active # available
    <2>1. Dist(active, my_ticket[t]) < Dist(active, available)
      BY <1>1 DEF TicketsInWindow
    <2>2. Dist(active, my_ticket[t]) = 0
      BY <1>1, TicketArithmetic
    <2>3. Dist(active, available) # 0
      BY <2>1, <2>2
    <2>. QED  BY <2>3, TicketArithmetic
  <1>5. Dist(active', available') = Dist(active, available) - 1
    BY <1>4, TicketArithmetic DEF ReleaseSpinlock
  <1>6. LockTypeOK'
    BY TicketArithmetic DEF ReleaseSpinlock
  <1>7. ASSUME NEW u \in Outstanding'
        PROVE  /\ my_ticket'[u] = my_ticket[u]
               /\ my_ticket[u] # active
               /\ Dist(active', my_ticket[u]) = Dist(active, my_ticket[u]) - 1
    <2>1. my_ticket'[u] = my_ticket[u] /\ my_ticket[u] # active
      BY <1>1, <1>2 DEF ReleaseSpinlock, DistinctTickets
    <2>2. my_ticket[u] \in Tickets
      BY DEF Outstanding
    <2>. QED  BY <2>1, <2>2, TicketArithmetic DEF ReleaseSpinlock
  <1>8. DistinctTickets'
    BY <1>2, <1>7 DEF DistinctTickets
  <1>9. TicketsInWindow'
    <2>1. \A u \in Outstanding' : u \in Outstanding /\ my_ticket[u] \in Tickets
      BY <1>2 DEF Outstanding
    <2>2. \A u \in Outstanding' : Dist(active, my_ticket[u]) \in Nat
      BY <2>1, TicketArithmetic
    <2>3. Dist(active, available) \in Nat
      BY TicketArithmetic
    <2>4. \A u \in Outstanding' : Dist(active, my_ticket[u]) < Dist(active, available)
      BY <2>1 DEF TicketsInWindow
    <2>5. ASSUME NEW u \in Outstanding'
          PROVE  Dist(active', my_ticket'[u]) < Dist(active', available')
      <3>1. Dist(active', my_ticket'[u]) = Dist(active, my_ticket[u]) - 1
        BY <1>7
      <3>. QED  BY <3>1, <1>5, <2>2, <2>3, <2>4
    <2>. QED  BY <2>5 DEF TicketsInWindow, Dist
  <1>10. WindowSize'
    BY <1>3, <1>5 DEF WindowSize
  <1>11. InsideIsActive'
    BY <1>2, <1>7 DEF ReleaseSpinlock, InsideIsActive, Outstanding
  <1>12. LoadedIsActive'
    <2>. SUFFICES ASSUME NEW u \in Threads, pc'[u] = "compare",
                         active_ticket'[u] = my_ticket'[u]
                  PROVE  FALSE
      BY DEF LoadedIsActive
    <2>1. u \in Outstanding' /\ pc[u] = "compare" /\ active_ticket[u] = my_ticket[u]
      BY DEF ReleaseSpinlock, Outstanding
    <2>. QED  BY <1>7, <2>1 DEF LoadedIsActive
  <1>13. TicketsHeld'
    <2>1. Dist(active, available) \in Nat
      BY TicketArithmetic
    <2>2. ASSUME NEW d \in Nat, d < Dist(active', available')
          PROVE  \E u \in Outstanding' : Dist(active', my_ticket'[u]) = d
      <3>1. d + 1 \in Nat /\ d + 1 < Dist(active, available)
        BY <2>1, <2>2, <1>5
      <3>2. PICK u \in Outstanding : Dist(active, my_ticket[u]) = d + 1
        BY <3>1 DEF TicketsHeld
      <3>3. u # t
        BY <3>2, <1>1, TicketArithmetic
      <3>. QED  BY <3>2, <3>3, <1>2, <1>7
    <2>. QED  BY <2>2 DEF TicketsHeld, Dist
  <1>. QED  BY <1>6, <1>8, <1>9, <1>10, <1>11, <1>12, <1>13

LEMMA LockStutterInv ==
    ASSUME LockIInv, UNCHANGED lockVars
    PROVE  LockIInv'
  <1>1. Outstanding' = Outstanding
    BY DEF lockVars, Outstanding
  <1>. QED
    BY <1>1
    DEF LockIInv, lockVars, LockTypeOK, DistinctTickets, TicketsInWindow, WindowSize,
        TicketsHeld, InsideIsActive, LoadedIsActive, Dist

LEMMA LockInvariance == LockSpec => []LockIInv
  <1>1. LockIInv /\ [LockNext]_lockVars => LockIInv'
    BY FetchTicketInv, WaitInv, ReleaseSpinlockInv, LockStutterInv DEF LockNext
  <1>. QED  BY LockInitInv, <1>1, PTL DEF LockSpec

-------------------------------------------------------------------------------

\* Each variable of acquire_spinlock and release_spinlock has its type.
THEOREM LockTypeCorrect == LockSpec => []LockTypeOK
  <1>1. LockIInv => LockTypeOK
    BY DEF LockIInv
  <1>. QED  BY LockInvariance, <1>1, PTL

\* At most one thread is between acquire_spinlock and release_spinlock: two of
\* them would hold the active ticket, and no two threads hold the same one.
THEOREM LockMutualExclusion == LockSpec => []MutualExclusion
  <1>1. LockIInv => MutualExclusion
    BY DEF LockIInv, MutualExclusion, DistinctTickets, InsideIsActive, Outstanding
  <1>. QED  BY LockInvariance, <1>1, PTL

-------------------------------------------------------------------------------
(***************************************************************************)
(* The ticket lock implements the FIFO lock.                               *)
(***************************************************************************)

\* The place of a thread in the queue is given by its ticket.
Place(t) == Dist(active, my_ticket[t]) + 1

QueueByPlace ==
    /\ Dist(active, available) \in Nat
    /\ LockQueue \in Seq(Outstanding)
    /\ Len(LockQueue) = Dist(active, available)
    /\ \A t \in Outstanding : Place(t) \in 1 .. Len(LockQueue) /\ LockQueue[Place(t)] = t
    /\ \A i \in 1 .. Len(LockQueue) : Place(LockQueue[i]) = i

LEMMA QueuePlace == LockIInv => QueueByPlace
  <1>. SUFFICES ASSUME LockIInv PROVE QueueByPlace
    OBVIOUS
  <1>. DEFINE D == Dist(active, available)
  <1>1. D \in Nat
    BY TicketArithmetic DEF LockIInv, LockTypeOK
  <1>2. \A t \in Outstanding : Dist(active, my_ticket[t]) \in Nat /\ my_ticket[t] \in Tickets
    BY TicketArithmetic DEF LockIInv, LockTypeOK, Outstanding
  <1>3. ASSUME NEW i \in 1 .. D
        PROVE  LockQueue[i] \in Outstanding /\ Dist(active, my_ticket[LockQueue[i]]) = i - 1
    <2>1. i - 1 \in Nat /\ i - 1 < D
      BY <1>1
    <2>2. \E t \in Outstanding : Dist(active, my_ticket[t]) = i - 1
      BY <2>1 DEF LockIInv, TicketsHeld
    <2>3. LockQueue[i] = CHOOSE t \in Outstanding : Dist(active, my_ticket[t]) = i - 1
      BY DEF LockQueue
    <2>. QED  BY <2>2, <2>3
  <1>4. LockQueue \in [1 .. D -> Outstanding]
    <2>1. DOMAIN LockQueue = 1 .. D /\ LockQueue = [i \in 1 .. D |-> LockQueue[i]]
      BY DEF LockQueue
    <2>. QED  BY <1>3, <2>1
  <1>5. LockQueue \in Seq(Outstanding) /\ Len(LockQueue) = D
    BY <1>1, <1>4
  <1>6. ASSUME NEW t \in Outstanding
        PROVE  Place(t) \in 1 .. D /\ LockQueue[Place(t)] = t
    <2>1. Place(t) \in 1 .. D /\ Place(t) - 1 = Dist(active, my_ticket[t])
      BY <1>1, <1>2 DEF Place, LockIInv, TicketsInWindow
    <2>2. /\ LockQueue[Place(t)] \in Outstanding
          /\ Dist(active, my_ticket[LockQueue[Place(t)]]) = Dist(active, my_ticket[t])
      BY <1>3, <2>1
    <2>3. my_ticket[LockQueue[Place(t)]] = my_ticket[t]
      BY <1>2, <2>2, DistInjective DEF LockIInv, LockTypeOK
    <2>. QED  BY <2>1, <2>2, <2>3 DEF LockIInv, DistinctTickets
  <1>7. ASSUME NEW i \in 1 .. D PROVE Place(LockQueue[i]) = i
    BY <1>3 DEF Place
  <1>. QED  BY <1>1, <1>5, <1>6, <1>7 DEF QueueByPlace

\* fetch-and-add puts the thread at the end of the queue.
LEMMA FetchTicketAsks ==
    ASSUME LockIInv, LockIInv', NEW t \in Threads, FetchTicket(t)
    PROVE  Fifo!Ask(t)
  <1>. DEFINE D == Dist(active, available)
  <1>0. LockTypeOK
    BY DEF LockIInv
  <1>1. t \notin Outstanding /\ Outstanding' = Outstanding \cup {t}
    BY <1>0 DEF FetchTicket, Outstanding, LockTypeOK
  <1>2. /\ D \in Nat
        /\ LockQueue \in Seq(Outstanding)
        /\ Len(LockQueue) = D
        /\ \A i \in 1 .. Len(LockQueue) : Place(LockQueue[i]) = i
    BY QueuePlace DEF QueueByPlace
  <1>3. /\ Dist(active', available') \in Nat
        /\ LockQueue' \in Seq(Outstanding')
        /\ Len(LockQueue') = Dist(active', available')
        /\ \A u \in Outstanding' :
              Place(u)' \in 1 .. Len(LockQueue') /\ LockQueue'[Place(u)'] = u
    <2>1. QueueByPlace'
      BY QueuePlace, PTL
    <2>. QED  BY <2>1 DEF QueueByPlace, Dist
  <1>4. Dist(active', available') = D + 1
    <2>1. D < TicketModulus - 1
      BY <1>1, OutstandingCardinality DEF LockIInv, WindowSize
    <2>. QED  BY <2>1, <1>0, TicketArithmetic DEF FetchTicket, LockTypeOK
  <1>5. \A u \in Outstanding : Place(u)' = Place(u)
    BY <1>0, <1>1 DEF FetchTicket, Place, LockTypeOK, Dist
  <1>6. Place(t)' = D + 1
    BY <1>0 DEF FetchTicket, Place, LockTypeOK, Dist
  <1>7. \A i \in 1 .. D : LockQueue'[i] = LockQueue[i]
    BY <1>1, <1>2, <1>3, <1>5
  <1>8. LockQueue'[D + 1] = t
    BY <1>1, <1>3, <1>6
  <1>9. LockQueue' = Append(LockQueue, t)
    <2>1. Append(LockQueue, t) \in Seq(Outstanding')
      BY <1>1, <1>2
    <2>2. Len(Append(LockQueue, t)) = D + 1 /\ Len(LockQueue') = D + 1
      BY <1>2, <1>3, <1>4
    <2>3. \A i \in 1 .. D + 1 : LockQueue'[i] = Append(LockQueue, t)[i]
      BY <1>2, <1>7, <1>8
    <2>. QED  BY <2>1, <2>2, <2>3, <1>2, <1>3
  <1>10. \A i \in 1 .. Len(LockQueue) : LockQueue[i] # t
    BY <1>1, <1>2
  <1>11. (\E u \in Threads : pc[u] = "inside")' = (\E u \in Threads : pc[u] = "inside")
    BY <1>0 DEF FetchTicket, LockTypeOK
  <1>. QED  BY <1>9, <1>10, <1>11 DEF Fifo!Ask

\* A comparison that succeeds lets the head of the queue in.
LEMMA CompareTicketsEnters ==
    ASSUME LockIInv, NEW t \in Threads, CompareTickets(t)
    PROVE  Fifo!Enter \/ UNCHANGED Fifo!fifoVars
  <1>. USE DEF CompareTickets
  <1>0. LockTypeOK
    BY DEF LockIInv
  <1>1. LockQueue' = LockQueue
    <2>1. Outstanding' = Outstanding
      BY <1>0 DEF Outstanding, LockTypeOK
    <2>. QED  BY <2>1 DEF LockQueue, Dist
  <1>2. CASE my_ticket[t] = active_ticket[t]
    <2>1. my_ticket[t] = active /\ t \in Outstanding
      BY <1>2 DEF LockIInv, LoadedIsActive, Outstanding
    <2>2. \A u \in Threads : pc[u] # "inside"
      BY <2>1 DEF LockIInv, InsideIsActive, DistinctTickets, Outstanding
    <2>3. pc'[t] = "inside"
      BY <1>0, <1>2 DEF LockTypeOK
    <2>4. LockQueue # <<>>
      BY <2>1, QueuePlace DEF QueueByPlace
    <2>. QED  BY <1>1, <2>2, <2>3, <2>4 DEF Fifo!Enter
  <1>3. CASE my_ticket[t] # active_ticket[t]
    <2>1. \A u \in Threads : pc'[u] = "inside" <=> pc[u] = "inside"
      BY <1>0, <1>3 DEF LockTypeOK
    <2>2. (\E u \in Threads : pc[u] = "inside")' = (\E u \in Threads : pc[u] = "inside")
      BY <2>1
    <2>. QED  BY <1>1, <2>2 DEF Fifo!fifoVars
  <1>. QED  BY <1>2, <1>3

\* The thread that is inside is the head of the queue; its release removes it.
LEMMA ReleaseSpinlockLeaves ==
    ASSUME LockIInv, LockIInv', NEW t \in Threads, ReleaseSpinlock(t)
    PROVE  Fifo!Leave
  <1>. DEFINE D == Dist(active, available)
  <1>0. LockTypeOK
    BY DEF LockIInv
  <1>1. t \in Outstanding /\ my_ticket[t] = active /\ Outstanding' = Outstanding \ {t}
    BY <1>0 DEF ReleaseSpinlock, Outstanding, LockTypeOK, LockIInv, InsideIsActive
  <1>2. /\ D \in Nat
        /\ LockQueue \in Seq(Outstanding)
        /\ Len(LockQueue) = D
        /\ \A u \in Outstanding :
              Place(u) \in 1 .. Len(LockQueue) /\ LockQueue[Place(u)] = u
        /\ \A i \in 1 .. Len(LockQueue) : Place(LockQueue[i]) = i
    BY QueuePlace DEF QueueByPlace
  <1>3. /\ LockQueue' \in Seq(Outstanding')
        /\ Len(LockQueue') = Dist(active', available')
        /\ \A u \in Outstanding' :
              Place(u)' \in 1 .. Len(LockQueue') /\ LockQueue'[Place(u)'] = u
    <2>1. QueueByPlace'
      BY QueuePlace, PTL
    <2>. QED  BY <2>1 DEF QueueByPlace, Dist
  <1>4. Place(t) = 1 /\ D >= 1
    <2>1. Dist(active, my_ticket[t]) = 0
      BY <1>0, <1>1, TicketArithmetic DEF LockTypeOK
    <2>2. Place(t) = 1
      BY <2>1 DEF Place
    <2>. QED  BY <2>2, <1>1, <1>2
  <1>5. Dist(active', available') = D - 1
    <2>1. active # available
      <3>1. D # 0
        BY <1>2, <1>4
      <3>. QED  BY <3>1, <1>0, TicketArithmetic DEF LockTypeOK
    <2>. QED  BY <2>1, <1>0, TicketArithmetic DEF ReleaseSpinlock, LockTypeOK
  <1>6. ASSUME NEW u \in Outstanding' PROVE Place(u)' = Place(u) - 1
    <2>1. u \in Outstanding /\ u # t /\ my_ticket[u] \in Tickets /\ active \in Tickets
      BY <1>0, <1>1 DEF Outstanding, LockTypeOK
    <2>2. my_ticket[u] # active
      BY <1>1, <2>1 DEF LockIInv, DistinctTickets
    <2>3. Dist(Inc(active), my_ticket[u]) = Dist(active, my_ticket[u]) - 1
      BY <2>1, <2>2, TicketArithmetic
    <2>4. Dist(active, my_ticket[u]) \in Nat
      BY <2>1, TicketArithmetic
    <2>5. Place(u)' = Dist(Inc(active), my_ticket[u]) + 1
      BY <1>0 DEF Place, ReleaseSpinlock, Dist
    <2>. QED  BY <2>3, <2>4, <2>5 DEF Place
  <1>7. ASSUME NEW i \in 1 .. D - 1 PROVE LockQueue'[i] = LockQueue[i + 1]
    <2>1. i + 1 \in 1 .. D
      BY <1>2
    <2>. PICK u : u = LockQueue[i + 1]
      OBVIOUS
    <2>2. u \in Outstanding /\ Place(u) = i + 1
      BY <1>2, <2>1
    <2>3. u # t
      BY <1>4, <2>2
    <2>4. u \in Outstanding'
      BY <1>1, <2>2, <2>3
    <2>5. Place(u)' = i
      BY <1>6, <2>2, <2>4
    <2>. QED  BY <1>3, <2>4, <2>5
  <1>8. LockQueue' = Tail(LockQueue)
    <2>1. LockQueue # <<>>
      BY <1>2, <1>4
    <2>2. /\ Tail(LockQueue) \in Seq(Outstanding)
          /\ Len(Tail(LockQueue)) = D - 1
          /\ \A i \in 1 .. D - 1 : Tail(LockQueue)[i] = LockQueue[i + 1]
      BY <1>2, <2>1
    <2>. QED  BY <2>2, <1>3, <1>5, <1>7
  <1>9. \E u \in Threads : pc[u] = "inside"
    BY DEF ReleaseSpinlock
  <1>10. \A u \in Threads : pc'[u] # "inside"
    BY <1>0, <1>1 DEF ReleaseSpinlock, LockTypeOK, LockIInv, InsideIsActive, DistinctTickets,
       Outstanding
  <1>. QED  BY <1>8, <1>9, <1>10 DEF Fifo!Leave

\* Threads get inside in the order of their fetch-and-adds.
THEOREM LockRefinesFifo == LockSpec => FirstComeFirstServed
  <1>1. LockInit => Fifo!FifoInit
    BY DEF LockInit, Fifo!FifoInit, LockQueue, Dist
  <1>2. LockIInv /\ LockIInv' /\ [LockNext]_lockVars => [Fifo!FifoNext]_(Fifo!fifoVars)
    <2>. SUFFICES ASSUME LockIInv, LockIInv', [LockNext]_lockVars
                  PROVE  Fifo!FifoNext \/ UNCHANGED Fifo!fifoVars
      OBVIOUS
    <2>1. ASSUME NEW t \in Threads, FetchTicket(t) PROVE Fifo!FifoNext
      BY <2>1, FetchTicketAsks DEF Fifo!FifoNext
    <2>2. ASSUME NEW t \in Threads, LoadActive(t) PROVE UNCHANGED Fifo!fifoVars
      <3>1. Outstanding' = Outstanding
        BY <2>2 DEF LoadActive, Outstanding, LockIInv, LockTypeOK
      <3>2. LockQueue' = LockQueue
        BY <2>2, <3>1 DEF LoadActive, LockQueue, Dist
      <3>3. (\E u \in Threads : pc[u] = "inside")' = (\E u \in Threads : pc[u] = "inside")
        BY <2>2 DEF LoadActive, LockIInv, LockTypeOK
      <3>. QED  BY <3>2, <3>3 DEF Fifo!fifoVars
    <2>3. ASSUME NEW t \in Threads, CompareTickets(t)
          PROVE  Fifo!FifoNext \/ UNCHANGED Fifo!fifoVars
      BY <2>3, CompareTicketsEnters DEF Fifo!FifoNext
    <2>4. ASSUME NEW t \in Threads, ReleaseSpinlock(t) PROVE Fifo!FifoNext
      BY <2>4, ReleaseSpinlockLeaves DEF Fifo!FifoNext
    <2>5. CASE UNCHANGED lockVars
      BY <2>5 DEF lockVars, Fifo!fifoVars, LockQueue, Dist, Outstanding
    <2>. QED  BY <2>1, <2>2, <2>3, <2>4, <2>5 DEF LockNext
  <1>. QED  BY <1>1, <1>2, LockInvariance, PTL DEF LockSpec, FirstComeFirstServed, Fifo!FifoSpec
===============================================================================
