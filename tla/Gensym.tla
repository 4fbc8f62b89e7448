-------------------------------- MODULE Gensym --------------------------------
(***************************************************************************)
(* The function gensym of src/libhiha/gensym.c, called by several threads: *)
(* a symbol is a prefix, an unlikely text and a number that is taken from  *)
(* a counter under a ticket lock.                                          *)
(*                                                                         *)
(* A symbol is a sequence of characters, because what makes two of them    *)
(* different is where the text ends and the number begins.  The unlikely   *)
(* text is any of Texts: the fallback text or 32 bytes of getentropy in    *)
(* BASE64, in which what a C identifier may not have is written as         *)
(* digraphs; a call whose getentropy fails uses the fallback text whatever *)
(* the method is, so that either may occur in any call.                    *)
(***************************************************************************)
EXTENDS TicketLock, Sequences, SequencesExt

CONSTANTS
    Characters,         \* the characters of symbols
    Digits,             \* the decimal digits among them
    CallPrefixes,       \* the prefixes of the calls; <<>> is NULL or ""
    Texts,              \* the unlikely texts
    Numbers,            \* the values of a uintmax_t
    MaxCounter,         \* bound: the number of calls
    Decimal             \* what snprintf ("%zu") makes of each of Numbers

ASSUME CharactersAssumption ==
    /\ Digits \subseteq Characters
    /\ "g" \in Characters
    /\ CallPrefixes \subseteq Seq(Characters)
    /\ Texts \subseteq Seq(Characters)

ASSUME MaxCounterAssumption ==
    /\ MaxCounter \in Nat
    /\ Numbers \subseteq Nat
    /\ 0 .. MaxCounter \subseteq Numbers

\* snprintf writes different numbers as different sequences of digits.
ASSUME DecimalAssumption ==
    /\ Decimal \in [Numbers -> Seq(Digits)]
    /\ \A m, n \in Numbers : Decimal[m] = Decimal[n] => m = n

\* The last character that is not a digit is the k-th.
LastLetter(s, k) ==
    /\ k \in 1 .. Len(s)
    /\ s[k] \notin Digits
    /\ \A i \in k + 1 .. Len(s) : s[i] \in Digits

\* An unlikely text has a last character that is not a digit, and that
\* character tells which digits follow it: "a" ends the fallback text, and "x3"
\* ends an encoded one.
ASSUME TextsAssumption ==
    /\ \A s \in Texts : \E k \in 1 .. Len(s) : LastLetter(s, k)
    /\ \A s, u \in Texts :
        \A k \in 1 .. Len(s), m \in 1 .. Len(u) :
            LastLetter(s, k) /\ LastLetter(u, m) /\ s[k] = u[m]
                => Len(s) - k = Len(u) - m

VARIABLES
    counter,            \* _gensym_counter
    number,             \* the local variable result of gensym_counter
    gpc,                \* where each thread is in gensym
    made                \* the symbols that were returned, oldest first

gensymVars == <<counter, number, gpc, made>>

vars == <<lockVars, gensymVars>>

GensymTypeOK ==
    /\ LockTypeOK
    /\ counter \in 0 .. MaxCounter
    /\ number \in [Threads -> 0 .. MaxCounter]
    /\ gpc \in [Threads -> {"call", "wait", "increment", "release", "return"}]
    /\ made \in Seq(Seq(Characters))
    /\ Len(made) <= counter

-------------------------------------------------------------------------------
\* Unlikely texts.

DigitCharacters == {"0", "1", "2", "3", "4", "5", "6", "7", "8", "9"}

\* What the switch of gensym_by_getentropy_method writes for a character.
Digraph(c) ==
    CASE c = "x" -> <<"x", "0">>
      [] c = "+" -> <<"x", "1">>
      [] c = "/" -> <<"x", "2">>
      [] c = "=" -> <<"x", "3">>
      [] OTHER -> <<c>>

\* The loop of gensym_by_getentropy_method.
EncodeText(tempbuf) == FlattenSeq([i \in DOMAIN tempbuf |-> Digraph(tempbuf[i])])

\* The last characters of the text of gensym_by_fallback_method.
FallbackText == <<"W", "k", "a">>

-------------------------------------------------------------------------------
\* Symbols.

\* A missing prefix becomes "g".
StartAlphabetic(prefix) == IF prefix = <<>> THEN <<"g">> ELSE prefix

\* Mutant: the number comes before the unlikely text.
SymbolNumberFirst(prefix, text, n) == StartAlphabetic(prefix) \o Decimal[n] \o text

\* gensym_given_unlikely_text
Symbol(prefix, text, n) == StartAlphabetic(prefix) \o text \o Decimal[n]

Init ==
    /\ LockInit
    /\ counter = 0
    /\ number = [t \in Threads |-> 0]
    /\ gpc = [t \in Threads |-> "call"]
    /\ made = <<>>

\* gensym_counter: acquire_spinlock.  Calls stop at MaxCounter: those that hold
\* a ticket are counted before they take their number.
AcquireCounter(t) ==
    /\ gpc[t] = "call"
    /\ counter + Cardinality({u \in Threads : gpc[u] \in {"wait", "increment"}}) < MaxCounter
    /\ FetchTicket(t)
    /\ gpc' = [gpc EXCEPT ![t] = "wait"]
    /\ UNCHANGED <<counter, number, made>>

WaitForCounter(t) ==
    /\ LoadActive(t) \/ CompareTickets(t)
    /\ UNCHANGED gensymVars

\* Mutant: the counter is read without waiting for the lock.
ReadUnlocked(t) ==
    /\ gpc[t] = "wait"
    /\ number' = [number EXCEPT ![t] = counter]
    /\ gpc' = [gpc EXCEPT ![t] = "increment"]
    /\ UNCHANGED <<lockVars, counter, made>>

\* gensym_counter: result = _gensym_counter
ReadCounter(t) ==
    /\ gpc[t] = "wait"
    /\ pc[t] = "inside"
    /\ number' = [number EXCEPT ![t] = counter]
    /\ gpc' = [gpc EXCEPT ![t] = "increment"]
    /\ UNCHANGED <<lockVars, counter, made>>

\* gensym_counter: _gensym_counter += 1
IncrementCounter(t) ==
    /\ gpc[t] = "increment"
    /\ counter' = counter + 1
    /\ gpc' = [gpc EXCEPT ![t] = "release"]
    /\ UNCHANGED <<lockVars, number, made>>

\* gensym_counter: release_spinlock
ReleaseCounter(t) ==
    /\ gpc[t] = "release"
    /\ ReleaseSpinlock(t)
    /\ gpc' = [gpc EXCEPT ![t] = "return"]
    /\ UNCHANGED <<counter, number, made>>

\* gensym_given_unlikely_text: the symbol is put together and returned.
MakeSymbol(t) ==
    /\ gpc[t] = "return"
    /\ \E prefix \in CallPrefixes, text \in Texts :
        made' = Append(made, Symbol(prefix, text, number[t]))
    /\ gpc' = [gpc EXCEPT ![t] = "call"]
    /\ UNCHANGED <<lockVars, counter, number>>

Next ==
    \E t \in Threads :
        \/ AcquireCounter(t)
        \/ WaitForCounter(t)
        \/ ReadCounter(t)
        \/ IncrementCounter(t)
        \/ ReleaseCounter(t)
        \/ MakeSymbol(t)

Spec == Init /\ [][Next]_vars

-------------------------------------------------------------------------------
(***************************************************************************)
(* Properties                                                              *)
(***************************************************************************)

\* No two calls of gensym return the same symbol, whichever threads make them
\* and whatever their prefixes and unlikely texts are.
UniqueSymbols ==
    \A i, j \in 1 .. Len(made) : made[i] = made[j] => i = j

\* The symbol that a thread is about to return tells its number, whatever its
\* prefix and text are: the digits of the number cannot be taken for digits of
\* the text before it.
SymbolTellsNumber ==
    \A t \in Threads, p, q \in CallPrefixes, s, u \in Texts, n \in Numbers :
        gpc[t] = "return" /\ Symbol(p, s, number[t]) = Symbol(q, u, n) => n = number[t]
===============================================================================
