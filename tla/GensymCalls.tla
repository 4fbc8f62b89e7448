----------------------------- MODULE GensymCalls ------------------------------
(***************************************************************************)
(* A whole call of gensym (src/libhiha/gensym.c): the thread first calls   *)
(* gensym_method, as in InitializeOnce, and then makes a symbol, as in     *)
(* Gensym.  The two have locks of their own.  By the fallback method the   *)
(* unlikely text is the fallback text; by the other one it is any of the   *)
(* texts, because getentropy may fail.                                     *)
(***************************************************************************)
EXTENDS Gensym

VARIABLES
    stage,              \* what each thread is in: "method" or "symbol"
    method_active,      \* the lock of _gensym_method_init1t, and the local
    method_available,   \* variables of its acquire_spinlock, as in TicketLock
    method_pc,
    method_ticket,
    method_active_ticket,
    initialized, value, initializations, opc, result    \* as in InitializeOnce

methodLockVars ==
    <<method_active, method_available, method_pc, method_ticket, method_active_ticket>>

methodVars == <<methodLockVars, initialized, value, initializations, opc, result>>

callsVars == <<vars, methodVars, stage>>

Once ==
    INSTANCE InitializeOnce WITH
        active <- method_active,
        available <- method_available,
        pc <- method_pc,
        my_ticket <- method_ticket,
        active_ticket <- method_active_ticket

CallsTypeOK ==
    /\ GensymTypeOK
    /\ Once!OnceTypeOK
    /\ stage \in [Threads -> {"method", "symbol"}]
    /\ \A t \in Threads :
        IF stage[t] = "method" THEN gpc[t] = "call" ELSE opc[t] = "check"

-------------------------------------------------------------------------------

InitCalls ==
    /\ Init
    /\ Once!Init
    /\ stage = [t \in Threads |-> "method"]

\* gensym_method: a thread looks whether the method is chosen, or chooses it.
CallMethod(t) ==
    /\ stage[t] = "method"
    /\ Once!CheckInitialized(t)
    /\ UNCHANGED <<vars, stage>>

ChooseMethod(t) ==
    /\ stage[t] = "method"
    /\ Once!Step(t)
    /\ stage' = [stage EXCEPT ![t] = IF opc[t] = "return" THEN "symbol" ELSE "method"]
    /\ UNCHANGED vars

\* gensym_counter, called by gensym_given_unlikely_text.
CountSymbol(t) ==
    /\ stage[t] = "symbol"
    /\ \/ AcquireCounter(t)
       \/ WaitForCounter(t)
       \/ ReadCounter(t)
       \/ IncrementCounter(t)
       \/ ReleaseCounter(t)
    /\ UNCHANGED <<methodVars, stage>>

\* gensym_given_unlikely_text, called by the function of the method.
ReturnSymbol(t) ==
    /\ stage[t] = "symbol"
    /\ MakeSymbol(t)
    /\ result[t] = "FALLBACK" =>
        Last(made') \in {Symbol(prefix, FallbackText, number[t]) : prefix \in CallPrefixes}
    /\ stage' = [stage EXCEPT ![t] = "method"]
    /\ UNCHANGED methodVars

NextCalls ==
    \E t \in Threads :
        CallMethod(t) \/ ChooseMethod(t) \/ CountSymbol(t) \/ ReturnSymbol(t)

SpecCalls == InitCalls /\ [][NextCalls]_callsVars

-------------------------------------------------------------------------------
(***************************************************************************)
(* Properties                                                              *)
(***************************************************************************)

\* However the calls overlap, _initialize_gensym_method runs once.
InitializedOnce == Once!InitializedOnce

\* All calls use the same method: no thread sees _gensym_method before its last
\* assignment.
AllCallsAgree == Once!AllCallsAgree

\* A call that found the method uninitialised gets it, whatever the threads that
\* make symbols do.
EveryCallReturns == Once!EveryCallReturns
===============================================================================
