---------------------------- MODULE InitializeOnce ----------------------------
(***************************************************************************)
(* The macro INITIALIZE_ONCE of include/libhiha/initialize_once.h: double- *)
(* checked locking on top of the ticket lock of TicketLock.                *)
(*                                                                         *)
(* Its INITIALIZE_VALUE is that of gensym_method (src/libhiha/gensym.c),   *)
(* which assigns the variable twice, so that a thread could see a value    *)
(* that is not yet the final one; the constants of string_t.c and the      *)
(* working directory of workspaces.c are initialised through the same      *)
(* macro by a single assignment.  Memory is sequentially consistent: the   *)
(* release store and the acquire load of the flag order the accesses to    *)
(* the value, and all other accesses are made with the lock held.          *)
(***************************************************************************)
EXTENDS TicketLock

VARIABLES
    initialized,        \* INIT1T.initialized
    value,              \* the variable that is initialised: _gensym_method
    initializations,    \* how many times INITIALIZE_VALUE was entered
    opc,                \* where each thread is in gensym_method
    result              \* what the latest gensym_method of each thread returned

onceVars == <<initialized, value, initializations, opc, result>>

vars == <<lockVars, onceVars>>

Methods == {"FALLBACK", "GETENTROPY"}

\* _gensym_method before it is initialised, and the result of no call.
None == "none"

OnceTypeOK ==
    /\ LockTypeOK
    /\ initialized \in BOOLEAN
    /\ value \in IF initialized THEN Methods ELSE Methods \cup {None}
    /\ initializations \in Nat
    /\ opc \in [Threads -> {"check", "acquire", "wait", "initialize", "finish",
                            "publish", "release", "return"}]
    /\ result \in [Threads -> Methods \cup {None}]

-------------------------------------------------------------------------------

Init ==
    /\ LockInit
    /\ initialized = FALSE
    /\ value = None
    /\ initializations = 0
    /\ opc = [t \in Threads |-> "check"]
    /\ result = [t \in Threads |-> None]

\* The first check, without the lock: a thread calls gensym_method.
CheckInitialized(t) ==
    /\ opc[t] = "check"
    /\ opc' = [opc EXCEPT ![t] = IF initialized THEN "return" ELSE "acquire"]
    /\ UNCHANGED <<lockVars, initialized, value, initializations, result>>

\* acquire_spinlock (&(INIT1T).lock)
AcquireLock(t) ==
    /\ opc[t] = "acquire"
    /\ FetchTicket(t)
    /\ opc' = [opc EXCEPT ![t] = "wait"]
    /\ UNCHANGED <<initialized, value, initializations, result>>

WaitForLock(t) ==
    /\ LoadActive(t) \/ CompareTickets(t)
    /\ UNCHANGED onceVars

\* Mutant: the flag is not checked again once the lock is held.
RecheckNothing(t) ==
    /\ opc[t] = "wait"
    /\ pc[t] = "inside"
    /\ opc' = [opc EXCEPT ![t] = "initialize"]
    /\ UNCHANGED <<lockVars, initialized, value, initializations, result>>

\* Mutant: a thread that finds the value initialised keeps the lock.
RecheckKeepsLock(t) ==
    /\ opc[t] = "wait"
    /\ pc[t] = "inside"
    /\ opc' = [opc EXCEPT ![t] = IF initialized THEN "return" ELSE "initialize"]
    /\ UNCHANGED <<lockVars, initialized, value, initializations, result>>

\* The second check, with the lock.
RecheckInitialized(t) ==
    /\ opc[t] = "wait"
    /\ pc[t] = "inside"
    /\ opc' = [opc EXCEPT ![t] = IF initialized THEN "release" ELSE "initialize"]
    /\ UNCHANGED <<lockVars, initialized, value, initializations, result>>

\* Mutant: the flag is set before the value is final.
InitializeAndPublish(t) ==
    /\ opc[t] = "initialize"
    /\ value' = "FALLBACK"
    /\ initialized' = TRUE
    /\ initializations' = initializations + 1
    /\ opc' = [opc EXCEPT ![t] = "finish"]
    /\ UNCHANGED <<lockVars, result>>

\* _initialize_gensym_method: _gensym_method = gensym_method_FALLBACK
InitializeValue(t) ==
    /\ opc[t] = "initialize"
    /\ value' = "FALLBACK"
    /\ initializations' = initializations + 1
    /\ opc' = [opc EXCEPT ![t] = "finish"]
    /\ UNCHANGED <<lockVars, initialized, result>>

\* _initialize_gensym_method: the other method, if getentropy_works ().
FinishValue(t) ==
    /\ opc[t] = "finish"
    /\ value' \in {value, "GETENTROPY"}
    /\ opc' = [opc EXCEPT ![t] = "publish"]
    /\ UNCHANGED <<lockVars, initialized, initializations, result>>

\* The release store of the flag.
Publish(t) ==
    /\ opc[t] = "publish"
    /\ initialized' = TRUE
    /\ opc' = [opc EXCEPT ![t] = "release"]
    /\ UNCHANGED <<lockVars, value, initializations, result>>

\* release_spinlock (&(INIT1T).lock)
ReleaseLock(t) ==
    /\ opc[t] = "release"
    /\ ReleaseSpinlock(t)
    /\ opc' = [opc EXCEPT ![t] = "return"]
    /\ UNCHANGED <<initialized, value, initializations, result>>

\* gensym_method: return _gensym_method
ReturnValue(t) ==
    /\ opc[t] = "return"
    /\ result' = [result EXCEPT ![t] = value]
    /\ opc' = [opc EXCEPT ![t] = "check"]
    /\ UNCHANGED <<lockVars, initialized, value, initializations>>

Step(t) ==
    \/ AcquireLock(t)
    \/ WaitForLock(t)
    \/ RecheckInitialized(t)
    \/ InitializeValue(t)
    \/ FinishValue(t)
    \/ Publish(t)
    \/ ReleaseLock(t)
    \/ ReturnValue(t)

Next == \E t \in Threads : CheckInitialized(t) \/ Step(t)

Spec == Init /\ [][Next]_vars

-------------------------------------------------------------------------------
(***************************************************************************)
(* Properties                                                              *)
(***************************************************************************)

\* However the calls overlap, INITIALIZE_VALUE runs once.
InitializedOnce == initializations <= 1

\* All calls agree: what a call returned is what the variable still holds, so
\* no call sees the variable before its last assignment.
AllCallsAgree == \A t \in Threads : result[t] \in {None, value}

\* A call that found the value uninitialised returns, if its thread is scheduled
\* again and again.
EveryCallReturns ==
    \A t \in Threads : opc[t] = "acquire" ~> opc[t] = "return"
===============================================================================
