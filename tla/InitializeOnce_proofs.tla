------------------------- MODULE InitializeOnce_proofs -------------------------
(***************************************************************************)
(* Proofs about InitializeOnce, from the mutual exclusion of the lock.     *)
(***************************************************************************)
EXTENDS InitializeOnce, TicketLock_proofs

\* The places in which a thread holds the lock, and those in which it has not
\* asked for it.
Holding == {"initialize", "finish", "publish", "release"}
Away == {"check", "acquire", "return"}

LockHeld ==
    \A t \in Threads :
        /\ opc[t] \in Holding => pc[t] = "inside"
        /\ opc[t] \in Away => pc[t] = "outside"

\* What the thread in each place knows of the flag and of the value.
Knowledge ==
    \A t \in Threads :
        /\ opc[t] = "initialize" => ~ initialized /\ initializations = 0
        /\ opc[t] = "finish" => ~ initialized /\ value = "FALLBACK" /\ initializations = 1
        /\ opc[t] = "publish" => ~ initialized /\ value \in Methods /\ initializations = 1
        /\ opc[t] \in {"release", "return"} => initialized

\* Nothing happened before the first initialisation is under way, and no call
\* returned before it is over.
Beginning ==
    /\ initialized => initializations = 1
    /\ ~ initialized => \A t \in Threads : result[t] = None
    /\ ~ initialized /\ (\A t \in Threads : opc[t] \notin {"finish", "publish"})
            => initializations = 0

OnceIInv ==
    /\ OnceTypeOK
    /\ LockHeld
    /\ Knowledge
    /\ Beginning
    /\ AllCallsAgree

-------------------------------------------------------------------------------

LEMMA OnceStepIsLockStep == [Next]_vars => [LockNext]_lockVars
  BY DEF Next, Step, CheckInitialized, AcquireLock, WaitForLock, RecheckInitialized,
     InitializeValue, FinishValue, Publish, ReleaseLock, ReturnValue, LockNext, vars, lockVars

\* The macro uses the lock as the lock is meant to be used.
LEMMA OnceUsesLock == Spec => LockSpec
  <1>1. Init => LockInit
    BY DEF Init
  <1>. QED  BY <1>1, OnceStepIsLockStep, PTL DEF Spec, LockSpec

LEMMA OnceInitInv == Init => OnceIInv
  <1>. SUFFICES ASSUME Init PROVE OnceIInv
    OBVIOUS
  <1>1. LockTypeOK
    BY LockInitInv DEF Init, LockIInv
  <1>2. OnceTypeOK
    BY <1>1 DEF Init, OnceTypeOK, Methods
  <1>3. LockHeld
    BY DEF Init, LockInit, LockHeld, Holding, Away
  <1>. QED
    BY <1>2, <1>3 DEF Init, OnceIInv, Knowledge, Beginning, AllCallsAgree

\* Only the thread that holds the lock changes what the others rely on.
LEMMA OnceStepInv ==
    ASSUME OnceIInv, LockTypeOK', MutualExclusion, NEW t \in Threads,
           CheckInitialized(t) \/ Step(t)
    PROVE  OnceIInv'
  <1>. USE DEF OnceIInv, OnceTypeOK
  <1>. DEFINE Alone == \A u \in Threads : opc[u] \in Holding => u = t
  <1>a. opc[t] \in Holding \/ pc[t] = "inside" => Alone
    BY DEF LockHeld, MutualExclusion
  <1>1. CASE CheckInitialized(t)
    <2>. USE <1>1 DEF CheckInitialized, lockVars
    <2>1. OnceTypeOK' /\ LockHeld'
      BY DEF LockTypeOK, LockHeld, Holding, Away
    <2>2. Knowledge' /\ Beginning' /\ AllCallsAgree'
      BY DEF Knowledge, Beginning, AllCallsAgree
    <2>. QED  BY <2>1, <2>2
  <1>2. CASE AcquireLock(t)
    <2>. USE <1>2 DEF AcquireLock
    <2>1. OnceTypeOK' /\ LockHeld'
      BY DEF FetchTicket, LockTypeOK, LockHeld, Holding, Away
    <2>2. Knowledge' /\ Beginning' /\ AllCallsAgree'
      BY DEF Knowledge, Beginning, AllCallsAgree
    <2>. QED  BY <2>1, <2>2
  <1>3. CASE WaitForLock(t)
    <2>. USE <1>3 DEF WaitForLock, onceVars
    <2>1. opc[t] = "wait"
      BY DEF LoadActive, CompareTickets, LockHeld, Holding, Away
    <2>2. OnceTypeOK' /\ LockHeld'
      BY <2>1 DEF LoadActive, CompareTickets, LockTypeOK, LockHeld, Holding, Away
    <2>3. Knowledge' /\ Beginning' /\ AllCallsAgree'
      BY DEF Knowledge, Beginning, AllCallsAgree
    <2>. QED  BY <2>2, <2>3
  <1>4. CASE RecheckInitialized(t)
    <2>. USE <1>4 DEF RecheckInitialized, lockVars
    <2>1. OnceTypeOK' /\ LockHeld'
      BY DEF LockTypeOK, LockHeld, Holding, Away
    <2>2. Alone /\ opc[t] = "wait"
      BY <1>a
    <2>3. Knowledge'
      BY <2>2 DEF Knowledge, Beginning, Holding
    <2>4. Beginning' /\ AllCallsAgree'
      BY <2>2 DEF Beginning, AllCallsAgree
    <2>. QED  BY <2>1, <2>3, <2>4
  <1>5. CASE InitializeValue(t)
    <2>. USE <1>5 DEF InitializeValue, lockVars
    <2>1. Alone
      BY <1>a DEF Holding
    <2>2. OnceTypeOK' /\ LockHeld'
      BY DEF LockTypeOK, LockHeld, Holding, Away, Methods
    <2>3. ~ initialized /\ initializations = 0
      BY DEF Knowledge
    <2>4. Knowledge' /\ Beginning' /\ AllCallsAgree'
      BY <2>1, <2>3 DEF Knowledge, Beginning, AllCallsAgree, Holding, Methods
    <2>. QED  BY <2>2, <2>4
  <1>6. CASE FinishValue(t)
    <2>. USE <1>6 DEF FinishValue, lockVars
    <2>1. Alone
      BY <1>a DEF Holding
    <2>2. ~ initialized /\ initializations = 1 /\ value = "FALLBACK"
      BY DEF Knowledge
    <2>3. OnceTypeOK' /\ LockHeld'
      BY <2>2 DEF LockTypeOK, LockHeld, Holding, Away, Methods
    <2>4. Knowledge' /\ Beginning' /\ AllCallsAgree'
      BY <2>1, <2>2 DEF Knowledge, Beginning, AllCallsAgree, Holding, Methods
    <2>. QED  BY <2>3, <2>4
  <1>7. CASE Publish(t)
    <2>. USE <1>7 DEF Publish, lockVars
    <2>1. Alone
      BY <1>a DEF Holding
    <2>2. initializations = 1 /\ value \in Methods
      BY DEF Knowledge
    <2>3. OnceTypeOK' /\ LockHeld'
      BY <2>2 DEF LockTypeOK, LockHeld, Holding, Away
    <2>4. Knowledge' /\ Beginning' /\ AllCallsAgree'
      BY <2>1, <2>2 DEF Knowledge, Beginning, AllCallsAgree, Holding
    <2>. QED  BY <2>3, <2>4
  <1>8. CASE ReleaseLock(t)
    <2>. USE <1>8 DEF ReleaseLock
    <2>1. OnceTypeOK' /\ LockHeld'
      BY DEF ReleaseSpinlock, LockTypeOK, LockHeld, Holding, Away
    <2>2. Knowledge' /\ Beginning' /\ AllCallsAgree'
      BY DEF Knowledge, Beginning, AllCallsAgree
    <2>. QED  BY <2>1, <2>2
  <1>9. CASE ReturnValue(t)
    <2>. USE <1>9 DEF ReturnValue, lockVars
    <2>1. initialized
      BY DEF Knowledge
    <2>2. OnceTypeOK' /\ LockHeld'
      BY <2>1 DEF LockTypeOK, LockHeld, Holding, Away
    <2>3. Knowledge' /\ Beginning' /\ AllCallsAgree'
      BY <2>1 DEF Knowledge, Beginning, AllCallsAgree
    <2>. QED  BY <2>2, <2>3
  <1>. QED
    BY <1>1, <1>2, <1>3, <1>4, <1>5, <1>6, <1>7, <1>8, <1>9 DEF Step

LEMMA OnceStutterInv ==
    ASSUME OnceIInv, UNCHANGED vars
    PROVE  OnceIInv'
  BY DEF OnceIInv, vars, onceVars, lockVars, OnceTypeOK, LockTypeOK, LockHeld, Knowledge,
     Beginning, AllCallsAgree

LEMMA OnceInvariance == Spec => []OnceIInv
  <1>1. OnceIInv /\ MutualExclusion /\ LockTypeOK' /\ [Next]_vars => OnceIInv'
    BY OnceStepInv, OnceStutterInv DEF Next
  <1>. QED
    BY OnceInitInv, OnceUsesLock, LockTypeCorrect, LockMutualExclusion, <1>1, PTL DEF Spec

-------------------------------------------------------------------------------

\* The flag, the value and the places of the threads have their types, and the
\* value is a method once the flag is set.
THEOREM OnceTypeCorrect == Spec => []OnceTypeOK
  <1>1. OnceIInv => OnceTypeOK
    BY DEF OnceIInv
  <1>. QED  BY OnceInvariance, <1>1, PTL

\* INITIALIZE_VALUE runs at most once.
THEOREM OnceInitializedOnce == Spec => []InitializedOnce
  <1>1. OnceIInv => InitializedOnce
    <2>. SUFFICES ASSUME OnceIInv PROVE InitializedOnce
      OBVIOUS
    <2>1. CASE initialized
      BY <2>1 DEF OnceIInv, Beginning, InitializedOnce
    <2>2. CASE ~ initialized /\ \A t \in Threads : opc[t] \notin {"finish", "publish"}
      BY <2>2 DEF OnceIInv, Beginning, InitializedOnce
    <2>3. CASE \E t \in Threads : opc[t] \in {"finish", "publish"}
      BY <2>3 DEF OnceIInv, Knowledge, InitializedOnce
    <2>. QED  BY <2>1, <2>2, <2>3
  <1>. QED  BY OnceInvariance, <1>1, PTL

\* No call returns a value other than the final one.
THEOREM OnceAllCallsAgree == Spec => []AllCallsAgree
  <1>1. OnceIInv => AllCallsAgree
    BY DEF OnceIInv
  <1>. QED  BY OnceInvariance, <1>1, PTL
===============================================================================
