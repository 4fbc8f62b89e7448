------------------------------ MODULE MCGensym ------------------------------
(***************************************************************************)
(* Threads for TLC.  A behaviour is one of three: all threads acquire and  *)
(* release a lock without end (TicketLock); all call gensym_method without *)
(* end (InitializeOnce); or some of them call gensym (GensymCalls), up to  *)
(* the bound of the counter.                                               *)
(*                                                                         *)
(* The prefixes end in digits, or would be mistaken for the default one;   *)
(* the texts are the fallback text and two encoded ones, whose padding     *)
(* becomes an "x3"; among the numbers are 30, 31 and 33, which the end of  *)
(* such a text and a smaller number could be mistaken for.                 *)
(***************************************************************************)
EXTENDS GensymCalls

CONSTANT Callers            \* the threads that call gensym

VARIABLE part               \* what the threads call

partVars == <<part, callsVars>>

OnlyLock == part = "lock" /\ UNCHANGED <<part, gensymVars, methodVars, stage>>
OnlyMethod == part = "method" /\ UNCHANGED <<part, vars, stage>>
OnlyCalls == part = "calls" /\ UNCHANGED part

PartInit == InitCalls /\ part \in {"lock", "method", "calls"}

PartNext ==
    \/ LockNext /\ OnlyLock
    \/ Once!Next /\ OnlyMethod
    \/ /\ \E t \in Callers :
             CallMethod(t) \/ ChooseMethod(t) \/ CountSymbol(t) \/ ReturnSymbol(t)
       /\ OnlyCalls

\* What a thread does that has begun to acquire a lock or has called
\* gensym_method: it is scheduled again and again.
Scheduled(t) ==
    \/ (LoadActive(t) \/ CompareTickets(t) \/ ReleaseSpinlock(t)) /\ OnlyLock
    \/ Once!Step(t) /\ OnlyMethod
    \/ t \in Callers /\ ChooseMethod(t) /\ OnlyCalls
    \/ t \in Callers /\ gpc[t] # "call" /\ CountSymbol(t) /\ OnlyCalls

PartSpec ==
    PartInit /\ [][PartNext]_partVars /\ \A t \in Threads : WF_partVars(Scheduled(t))

-------------------------------------------------------------------------------
\* Values of the constants.

MCCallPrefixes == {<<>>, <<"g">>, <<"g", "1">>}

MCTexts == {FallbackText, EncodeText(<<"k", "=">>), EncodeText(<<"x", "3", "=">>)}

MCNumbers == 0 .. 3 \cup {10, 13, 30, 31, 33}

MCCharacters == DigitCharacters \cup {"g", "k", "x", "W", "a"}

MCDigit(d) == <<"0", "1", "2", "3", "4", "5", "6", "7", "8", "9">>[d + 1]

MCDecimal ==
    [n \in MCNumbers |->
        IF n < 10 THEN <<MCDigit(n)>> ELSE <<MCDigit(n \div 10), MCDigit(n % 10)>>]
===============================================================================
