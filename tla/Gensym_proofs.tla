----------------------------- MODULE Gensym_proofs -----------------------------
(***************************************************************************)
(* Proofs about Gensym: no two calls return the same symbol, for any       *)
(* number of calls, any prefixes and any texts that end as TextsAssumption *)
(* says.  Those about whole calls follow from the two parts of a call:     *)
(* every step of a call is a step of InitializeOnce or of Gensym, and does *)
(* not disturb the other one.                                              *)
(***************************************************************************)
EXTENDS GensymCalls, TicketLock_proofs, SequenceTheorems

LEMMA NumbersBelow == \A n \in 0 .. MaxCounter : n \in Numbers
  BY MaxCounterAssumption

\* A symbol whose prefix is not missing.
Join(p, s, n) == p \o s \o Decimal[n]

\* A symbol made of these, with the last letter of the text at place k.
EndsWith(x, p, s, n, k) ==
    /\ Len(x) = Len(p) + Len(s) + Len(Decimal[n])
    /\ x[Len(p) + k] = s[k]
    /\ \A i \in Len(p) + k + 1 .. Len(x) : x[i] \in Digits
    /\ \A i \in 1 .. Len(Decimal[n]) : x[Len(p) + Len(s) + i] = Decimal[n][i]

\* Where the digits of the number begin in a symbol is found from its end.
LEMMA SymbolEnd ==
    ASSUME NEW p \in Seq(Characters), NEW s \in Texts, NEW n \in Numbers,
           NEW k \in 1 .. Len(s), LastLetter(s, k)
    PROVE  EndsWith(Join(p, s, n), p, s, n, k)
  <1>. DEFINE d == Decimal[n]
  <1>1. s \in Seq(Characters) /\ d \in Seq(Digits) /\ d \in Seq(Characters)
    BY CharactersAssumption, DecimalAssumption
  <1>. HIDE DEF d
  <1>2. LastLetter(s, k) => k \in Nat /\ k >= 1 /\ k <= Len(s)
    BY <1>1
  <1>3. (p \o s) \in Seq(Characters) /\ Len(p \o s) = Len(p) + Len(s)
    BY <1>1
  <1>4. \A i \in 1 .. Len(s) : (p \o s)[Len(p) + i] = s[i]
    BY <1>1
  <1>5. Len((p \o s) \o d) = Len(p) + Len(s) + Len(d)
    BY <1>1, <1>3
  <1>6. \A i \in 1 .. Len(p) + Len(s) : ((p \o s) \o d)[i] = (p \o s)[i]
    BY <1>1, <1>3
  <1>7. \A i \in 1 .. Len(d) : ((p \o s) \o d)[Len(p) + Len(s) + i] = d[i]
    BY <1>1, <1>3
  <1>8. ASSUME NEW i \in 1 .. Len(s) PROVE ((p \o s) \o d)[Len(p) + i] = s[i]
    <2>1. Len(p) + i \in 1 .. Len(p) + Len(s)
      BY <1>1
    <2>. QED  BY <2>1, <1>4, <1>6
  <1>9. ASSUME NEW i \in Len(p) + k + 1 .. Len((p \o s) \o d)
        PROVE  ((p \o s) \o d)[i] \in Digits
    <2>1. CASE i <= Len(p) + Len(s)
      <3>1. i - Len(p) \in k + 1 .. Len(s)
        BY <1>1, <1>2, <2>1
      <3>2. ((p \o s) \o d)[Len(p) + (i - Len(p))] = s[i - Len(p)]
        BY <1>1, <1>2, <1>8, <3>1
      <3>. QED  BY <1>1, <3>1, <3>2 DEF LastLetter
    <2>2. CASE i > Len(p) + Len(s)
      <3>1. i - (Len(p) + Len(s)) \in 1 .. Len(d)
        <4>1. i \in Int /\ i <= Len(p) + Len(s) + Len(d)
          BY <1>1, <1>2, <1>5
        <4>. QED  BY <4>1, <1>1, <2>2
      <3>2. ((p \o s) \o d)[Len(p) + Len(s) + (i - (Len(p) + Len(s)))] = d[i - (Len(p) + Len(s))]
        BY <1>7, <3>1
      <3>. QED  BY <1>1, <3>1, <3>2
    <2>. QED  BY <1>1, <1>2, <2>1, <2>2
  <1>. QED  BY <1>2, <1>5, <1>7, <1>8, <1>9 DEF d, Join, EndsWith

\* Two symbols that end alike have the same number.
LEMMA NumberAtEnd ==
    ASSUME NEW p \in Seq(Characters), NEW q \in Seq(Characters),
           NEW s \in Texts, NEW u \in Texts, NEW m \in Numbers, NEW n \in Numbers,
           Join(p, s, m) = Join(q, u, n)
    PROVE  m = n
  <1>. PICK w : w = Join(p, s, m) /\ w = Join(q, u, n)
    OBVIOUS
  <1>1. /\ s \in Seq(Characters) /\ u \in Seq(Characters)
        /\ Decimal[m] \in Seq(Digits) /\ Decimal[n] \in Seq(Digits)
    BY CharactersAssumption, DecimalAssumption
  <1>2. PICK k \in 1 .. Len(s) : LastLetter(s, k)
    BY TextsAssumption
  <1>3. PICK j \in 1 .. Len(u) : LastLetter(u, j)
    BY TextsAssumption
  <1>4. /\ Len(w) = Len(p) + Len(s) + Len(Decimal[m])
        /\ w[Len(p) + k] = s[k]
        /\ \A i \in Len(p) + k + 1 .. Len(w) : w[i] \in Digits
        /\ \A i \in 1 .. Len(Decimal[m]) : w[Len(p) + Len(s) + i] = Decimal[m][i]
    <2>1. EndsWith(w, p, s, m, k)
      BY <1>2, SymbolEnd
    <2>. QED  BY <2>1 DEF EndsWith
  <1>5. /\ Len(w) = Len(q) + Len(u) + Len(Decimal[n])
        /\ w[Len(q) + j] = u[j]
        /\ \A i \in Len(q) + j + 1 .. Len(w) : w[i] \in Digits
        /\ \A i \in 1 .. Len(Decimal[n]) : w[Len(q) + Len(u) + i] = Decimal[n][i]
    <2>1. EndsWith(w, q, u, n, j)
      BY <1>3, SymbolEnd
    <2>. QED  BY <2>1 DEF EndsWith
  <1>6. s[k] \notin Digits /\ u[j] \notin Digits
    BY <1>2, <1>3 DEF LastLetter
  <1>7. PICK lp \in Nat, lq \in Nat, ls \in Nat, lu \in Nat, lm \in Nat, ln \in Nat :
          /\ lp = Len(p) /\ lq = Len(q) /\ ls = Len(s) /\ lu = Len(u)
          /\ lm = Len(Decimal[m]) /\ ln = Len(Decimal[n])
    <2>1. /\ Len(p) \in Nat /\ Len(q) \in Nat /\ Len(s) \in Nat /\ Len(u) \in Nat
          /\ Len(Decimal[m]) \in Nat /\ Len(Decimal[n]) \in Nat
      BY <1>1
    <2>. QED  BY <2>1, Zenon
  <1>8. k \in Nat /\ 1 <= k /\ k <= ls /\ j \in Nat /\ 1 <= j /\ j <= lu
    BY <1>7
  <1>9. lp + ls + lm = lq + lu + ln
    BY <1>4, <1>5, <1>7
  <1>10. lp + k = lq + j
    <2>1. w[lp + k] \notin Digits /\ w[lq + j] \notin Digits
      BY <1>4, <1>5, <1>6, <1>7
    <2>2. lp + k \notin lq + j + 1 .. lq + lu + ln
      BY <2>1, <1>5, <1>7
    <2>3. lq + j \notin lp + k + 1 .. lp + ls + lm
      BY <2>1, <1>4, <1>7
    <2>. QED  BY <2>2, <2>3, <1>8, <1>9
  <1>11. ls - k = lu - j
    <2>1. s[k] = u[j]
      BY <1>4, <1>5, <1>7, <1>10
    <2>. QED  BY <2>1, <1>2, <1>3, <1>7, TextsAssumption
  <1>12. lp + ls = lq + lu /\ lm = ln
    BY <1>8, <1>9, <1>10, <1>11
  <1>13. \A i \in 1 .. lm : Decimal[m][i] = Decimal[n][i]
    BY <1>4, <1>5, <1>7, <1>12
  <1>14. Decimal[m] = Decimal[n]
    BY <1>1, <1>7, <1>12, <1>13, SeqEqual
  <1>. QED  BY <1>14, DecimalAssumption

\* Symbols with different numbers differ.
LEMMA SymbolInjective ==
    \A p, q \in CallPrefixes, s, u \in Texts, m, n \in Numbers :
        Symbol(p, s, m) = Symbol(q, u, n) => m = n
  <1>. SUFFICES ASSUME NEW p \in CallPrefixes, NEW q \in CallPrefixes,
                       NEW s \in Texts, NEW u \in Texts,
                       NEW m \in Numbers, NEW n \in Numbers,
                       Symbol(p, s, m) = Symbol(q, u, n)
                PROVE  m = n
    OBVIOUS
  <1>1. <<"g">> \in Seq(Characters)
    BY CharactersAssumption
  <1>2. StartAlphabetic(p) \in Seq(Characters) /\ StartAlphabetic(q) \in Seq(Characters)
    BY <1>1, CharactersAssumption DEF StartAlphabetic
  <1>3. Join(StartAlphabetic(p), s, m) = Join(StartAlphabetic(q), u, n)
    BY DEF Symbol, Join
  <1>. QED  BY <1>2, <1>3, NumberAtEnd

-------------------------------------------------------------------------------

\* The threads that will take a number, and those that took one and have not
\* returned a symbol yet.
Taking == {t \in Threads : gpc[t] \in {"wait", "increment"}}
Pending == {t \in Threads : gpc[t] \in {"release", "return"}}

LockHeld ==
    \A t \in Threads :
        /\ gpc[t] \in {"increment", "release"} => pc[t] = "inside"
        /\ gpc[t] \in {"call", "return"} => pc[t] = "outside"

\* The number of a thread is below the counter and nobody else's.
OwnNumber ==
    /\ \A t \in Threads : gpc[t] = "increment" => number[t] = counter
    /\ \A t \in Pending : number[t] < counter
    /\ \A t, u \in Pending : number[t] = number[u] => t = u

\* A symbol that was returned has a number that nobody will return again.
UsedNumbers ==
    \A i \in 1 .. Len(made) :
        \E p \in CallPrefixes, s \in Texts, n \in Numbers :
            /\ made[i] = Symbol(p, s, n)
            /\ n < counter
            /\ \A t \in Pending : number[t] # n

\* Every number that was taken is pending or returned, and calls stop in time.
NumbersCounted ==
    /\ Len(made) + Cardinality(Pending) = counter
    /\ counter + Cardinality(Taking) <= MaxCounter

GensymIInv ==
    /\ GensymTypeOK
    /\ LockHeld
    /\ OwnNumber
    /\ UsedNumbers
    /\ NumbersCounted
    /\ UniqueSymbols

LEMMA GensymStepIsLockStep == [Next]_vars => [LockNext]_lockVars
  BY DEF Next, AcquireCounter, WaitForCounter, ReadCounter, IncrementCounter,
     ReleaseCounter, MakeSymbol, LockNext, vars, lockVars

\* The counter uses the lock as the lock is meant to be used.
LEMMA GensymUsesLock == Spec => LockSpec
  <1>1. Init => LockInit
    BY DEF Init
  <1>. QED  BY <1>1, GensymStepIsLockStep, PTL DEF Spec, LockSpec

LEMMA CountedFinite ==
    /\ IsFiniteSet(Taking) /\ Cardinality(Taking) \in Nat
    /\ IsFiniteSet(Pending) /\ Cardinality(Pending) \in Nat
  <1>1. Taking \subseteq Threads /\ Pending \subseteq Threads
    BY DEF Taking, Pending
  <1>. QED  BY <1>1, ThreadsAssumption, FS_Subset, FS_CardinalityType

LEMMA GensymInitInv == Init => GensymIInv
  <1>. SUFFICES ASSUME Init PROVE GensymIInv
    OBVIOUS
  <1>1. LockTypeOK
    BY LockInitInv DEF Init, LockIInv
  <1>2. GensymTypeOK
    BY <1>1, MaxCounterAssumption DEF Init, GensymTypeOK
  <1>3. Taking = {} /\ Pending = {}
    BY DEF Init, Taking, Pending
  <1>4. NumbersCounted
    BY <1>3, FS_EmptySet, MaxCounterAssumption DEF Init, NumbersCounted
  <1>5. LockHeld
    BY DEF Init, LockInit, LockHeld
  <1>. QED
    BY <1>2, <1>3, <1>4, <1>5 DEF GensymIInv, Init, OwnNumber, UsedNumbers, UniqueSymbols

\* The symbols of a call that is pending are its own.
LEMMA SymbolIsSequence ==
    ASSUME NEW p \in CallPrefixes, NEW s \in Texts, NEW n \in Numbers
    PROVE  Symbol(p, s, n) \in Seq(Characters)
  <1>1. s \in Seq(Characters) /\ Decimal[n] \in Seq(Digits)
    BY CharactersAssumption, DecimalAssumption
  <1>2. Decimal[n] \in Seq(Characters)
    BY <1>1, CharactersAssumption
  <1>3. <<"g">> \in Seq(Characters)
    BY CharactersAssumption
  <1>4. StartAlphabetic(p) \in Seq(Characters)
    BY <1>3, CharactersAssumption DEF StartAlphabetic
  <1>. QED  BY <1>1, <1>2, <1>4 DEF Symbol

\* A thread joins those that will take a number, and the bound still holds.
LEMMA AcquireCounterInv ==
    ASSUME GensymIInv, LockTypeOK', NEW t \in Threads, AcquireCounter(t)
    PROVE  GensymIInv'
  <1>. USE DEF GensymIInv, GensymTypeOK
  <1>1. LockTypeOK /\ gpc[t] = "call" /\ gpc' = [gpc EXCEPT ![t] = "wait"]
    BY DEF AcquireCounter
  <1>2. GensymTypeOK'
    BY DEF AcquireCounter
  <1>3. Pending' = Pending
    BY <1>1 DEF Pending
  <1>4. NumbersCounted'
    <2>1. t \notin Taking /\ Taking' = Taking \cup {t}
      BY <1>1 DEF Taking
    <2>2. Cardinality(Taking') = Cardinality(Taking) + 1
      BY <2>1, CountedFinite, FS_AddElement
    <2>3. counter + Cardinality(Taking) < MaxCounter
      BY DEF AcquireCounter, Taking
    <2>4. counter' = counter /\ made' = made
      BY DEF AcquireCounter
    <2>. QED
      BY <1>3, <2>2, <2>3, <2>4, CountedFinite, MaxCounterAssumption DEF NumbersCounted
  <1>5. LockHeld'
    BY <1>1 DEF AcquireCounter, FetchTicket, LockHeld, LockTypeOK
  <1>6. OwnNumber' /\ UsedNumbers' /\ UniqueSymbols'
    BY <1>1, <1>3 DEF AcquireCounter, OwnNumber, UsedNumbers, UniqueSymbols
  <1>. QED  BY <1>2, <1>4, <1>5, <1>6

LEMMA WaitForCounterInv ==
    ASSUME GensymIInv, LockTypeOK', NEW t \in Threads, WaitForCounter(t)
    PROVE  GensymIInv'
  <1>. USE DEF GensymIInv, GensymTypeOK, WaitForCounter, gensymVars
  <1>1. gpc[t] = "wait"
    BY DEF LoadActive, CompareTickets, LockHeld
  <1>2. LockHeld'
    BY <1>1 DEF LoadActive, CompareTickets, LockHeld, LockTypeOK
  <1>3. Pending' = Pending /\ Taking' = Taking
    BY DEF Pending, Taking
  <1>. QED
    BY <1>2, <1>3 DEF OwnNumber, UsedNumbers, UniqueSymbols, NumbersCounted

\* The number that is read is the counter, which no one else may increment.
LEMMA ReadCounterInv ==
    ASSUME GensymIInv, NEW t \in Threads, ReadCounter(t)
    PROVE  GensymIInv'
  <1>. USE DEF GensymIInv, GensymTypeOK, ReadCounter, lockVars
  <1>1. GensymTypeOK'
    BY DEF LockTypeOK
  <1>2. LockHeld'
    BY DEF LockHeld
  <1>3. Pending' = Pending /\ Taking' = Taking /\ t \notin Pending
    BY DEF Pending, Taking
  <1>4. OwnNumber' /\ UsedNumbers'
    BY <1>3 DEF OwnNumber, UsedNumbers, Pending
  <1>. QED
    BY <1>1, <1>2, <1>3, <1>4 DEF UniqueSymbols, NumbersCounted

\* The number of the thread falls below the counter and is nobody else's.
LEMMA IncrementCounterInv ==
    ASSUME GensymIInv, MutualExclusion, NEW t \in Threads, IncrementCounter(t)
    PROVE  GensymIInv'
  <1>. USE DEF GensymIInv, GensymTypeOK
  <1>1. /\ gpc[t] = "increment" /\ gpc' = [gpc EXCEPT ![t] = "release"]
        /\ counter' = counter + 1 /\ number' = number /\ made' = made
        /\ number[t] = counter
    BY DEF IncrementCounter, OwnNumber
  <1>2. /\ t \in Taking /\ Taking' = Taking \ {t}
        /\ t \notin Pending /\ Pending' = Pending \cup {t}
    BY <1>1 DEF Taking, Pending
  <1>3. /\ Cardinality(Taking') = Cardinality(Taking) - 1
        /\ Cardinality(Pending') = Cardinality(Pending) + 1
    BY <1>2, CountedFinite, FS_AddElement, FS_RemoveElement
  <1>4. counter \in Nat
    BY MaxCounterAssumption
  <1>5. NumbersCounted'
    BY <1>1, <1>3, <1>4, CountedFinite, MaxCounterAssumption DEF NumbersCounted
  <1>6. GensymTypeOK'
    <2>1. counter' \in 0 .. MaxCounter
      <3>1. Cardinality(Taking)' \in Nat /\ IsFiniteSet(Taking')
        BY <1>2, <1>3, CountedFinite, FS_RemoveElement, FS_CardinalityType
      <3>. QED  BY <1>1, <1>4, <1>5, <3>1, MaxCounterAssumption DEF NumbersCounted
    <2>2. Len(made') <= counter'
      BY <1>1, <1>4
    <2>. QED  BY <1>1, <2>1, <2>2 DEF IncrementCounter, lockVars, LockTypeOK
  <1>7. LockHeld'
    BY <1>1 DEF IncrementCounter, lockVars, LockHeld
  <1>8. OwnNumber'
    <2>1. \A u \in Threads : gpc[u] = "increment" => u = t
      BY <1>1 DEF LockHeld, MutualExclusion
    <2>2. \A u \in Pending : number[u] < counter /\ number[u] \in Nat
      BY MaxCounterAssumption DEF OwnNumber, Pending
    <2>3. \A u \in Pending' : number'[u] < counter'
      BY <1>1, <1>2, <1>4, <2>2
    <2>4. \A u, v \in Pending' : number'[u] = number'[v] => u = v
      BY <1>1, <1>2, <1>4, <2>2 DEF OwnNumber
    <2>5. \A u \in Threads : gpc'[u] # "increment"
      BY <1>1, <2>1
    <2>. QED  BY <2>3, <2>4, <2>5 DEF OwnNumber
  <1>9. UsedNumbers'
    <2>. SUFFICES ASSUME NEW i \in 1 .. Len(made)
                  PROVE  \E p \in CallPrefixes, s \in Texts, n \in Numbers :
                            /\ made[i] = Symbol(p, s, n)
                            /\ n < counter + 1
                            /\ \A u \in Pending' : number[u] # n
      BY <1>1 DEF UsedNumbers
    <2>1. PICK p \in CallPrefixes, s \in Texts, n \in Numbers :
              /\ made[i] = Symbol(p, s, n)
              /\ n < counter
              /\ \A u \in Pending : number[u] # n
      BY DEF UsedNumbers
    <2>2. n < counter + 1 /\ n # counter
      BY <2>1, <1>4, MaxCounterAssumption
    <2>. QED  BY <1>1, <1>2, <2>1, <2>2
  <1>. QED  BY <1>1, <1>5, <1>6, <1>7, <1>8, <1>9 DEF UniqueSymbols

LEMMA ReleaseCounterInv ==
    ASSUME GensymIInv, LockTypeOK', NEW t \in Threads, ReleaseCounter(t)
    PROVE  GensymIInv'
  <1>. USE DEF GensymIInv, GensymTypeOK, ReleaseCounter
  <1>1. GensymTypeOK'
    OBVIOUS
  <1>2. LockHeld'
    BY DEF ReleaseSpinlock, LockHeld, LockTypeOK
  <1>3. Pending' = Pending /\ Taking' = Taking
    BY DEF Pending, Taking
  <1>. QED
    BY <1>1, <1>2, <1>3 DEF OwnNumber, UsedNumbers, UniqueSymbols, NumbersCounted

\* The symbol that is returned has a number that no other symbol has.
LEMMA MakeSymbolInv ==
    ASSUME GensymIInv, NEW t \in Threads, MakeSymbol(t)
    PROVE  GensymIInv'
  <1>. USE DEF GensymIInv, GensymTypeOK
  <1>1. PICK p \in CallPrefixes, s \in Texts :
            made' = Append(made, Symbol(p, s, number[t]))
    BY DEF MakeSymbol
  <1>2. /\ gpc[t] = "return" /\ gpc' = [gpc EXCEPT ![t] = "call"]
        /\ counter' = counter /\ number' = number /\ UNCHANGED lockVars
    BY DEF MakeSymbol
  <1>3. /\ t \in Pending /\ Pending' = Pending \ {t} /\ Taking' = Taking
    BY <1>2 DEF Pending, Taking
  <1>4. number[t] \in Numbers /\ number[t] < counter
    BY <1>3, MaxCounterAssumption DEF OwnNumber
  <1>. DEFINE w == Symbol(p, s, number[t])
  <1>5. w \in Seq(Characters)
    BY <1>4, SymbolIsSequence
  <1>. HIDE DEF w
  <1>6. /\ Len(made') = Len(made) + 1 /\ made'[Len(made) + 1] = w
        /\ \A i \in 1 .. Len(made) : made'[i] = made[i]
        /\ made' \in Seq(Seq(Characters)) /\ Len(made) \in Nat
    <2>1. made' = Append(made, w)
      BY <1>1 DEF w
    <2>. QED  BY <2>1, <1>5
  <1>7. NumbersCounted'
    <2>1. Cardinality(Pending') = Cardinality(Pending) - 1
      BY <1>3, CountedFinite, FS_RemoveElement
    <2>. QED  BY <2>1, <1>2, <1>3, <1>6, CountedFinite, MaxCounterAssumption DEF NumbersCounted
  <1>8. GensymTypeOK'
    <2>1. Len(made') <= counter'
      <3>1. Cardinality(Pending') \in Nat
        BY <1>3, CountedFinite, FS_RemoveElement, FS_CardinalityType
      <3>. QED  BY <3>1, <1>6, <1>7, <1>2, MaxCounterAssumption DEF NumbersCounted
    <2>. QED  BY <2>1, <1>2, <1>6 DEF lockVars, LockTypeOK
  <1>9. LockHeld'
    BY <1>2 DEF LockHeld, lockVars
  <1>10. OwnNumber'
    BY <1>2, <1>3 DEF OwnNumber
  <1>11. UsedNumbers'
    <2>. DEFINE Used(x) ==
            \E q \in CallPrefixes, u \in Texts, n \in Numbers :
                /\ x = Symbol(q, u, n)
                /\ n < counter
                /\ \A v \in Pending \ {t} : number[v] # n
    <2>1. ASSUME NEW i \in 1 .. Len(made) PROVE Used(made[i])
      <3>1. PICK q \in CallPrefixes, u \in Texts, n \in Numbers :
                /\ made[i] = Symbol(q, u, n)
                /\ n < counter
                /\ \A v \in Pending : number[v] # n
        BY DEF UsedNumbers
      <3>. QED  BY <3>1
    <2>2. Used(w)
      <3>1. \A v \in Pending \ {t} : number[v] # number[t]
        BY <1>3 DEF OwnNumber
      <3>. QED  BY <3>1, <1>4 DEF w
    <2>. HIDE DEF Used
    <2>3. ASSUME NEW i \in 1 .. Len(made') PROVE Used(made'[i])
      <3>1. i \in 1 .. Len(made) \/ i = Len(made) + 1
        BY <1>6
      <3>2. CASE i \in 1 .. Len(made)
        <4>1. made'[i] = made[i]
          BY <3>2, <1>6
        <4>. QED  BY <3>2, <4>1, <2>1
      <3>3. CASE i = Len(made) + 1
        <4>1. made'[i] = w
          BY <3>3, <1>6
        <4>. QED  BY <4>1, <2>2
      <3>. QED  BY <3>1, <3>2, <3>3
    <2>. QED  BY <2>3, <1>2, <1>3 DEF UsedNumbers, Used
  <1>12. UniqueSymbols'
    <2>1. ASSUME NEW i \in 1 .. Len(made) PROVE made[i] # w
      <3>1. PICK q \in CallPrefixes, u \in Texts, n \in Numbers :
                made[i] = Symbol(q, u, n) /\ number[t] # n
        BY <1>3 DEF UsedNumbers
      <3>. QED  BY <3>1, <1>4, SymbolInjective DEF w
    <2>2. ASSUME NEW i \in 1 .. Len(made'), NEW j \in 1 .. Len(made'), made'[i] = made'[j]
          PROVE  i = j
      <3>1. CASE i \in 1 .. Len(made) /\ j \in 1 .. Len(made)
        BY <2>2, <3>1, <1>6 DEF UniqueSymbols
      <3>2. CASE i \in 1 .. Len(made) /\ j = Len(made) + 1
        BY <2>1, <2>2, <3>2, <1>6
      <3>3. CASE i = Len(made) + 1 /\ j \in 1 .. Len(made)
        BY <2>1, <2>2, <3>3, <1>6
      <3>4. CASE i = Len(made) + 1 /\ j = Len(made) + 1
        BY <3>4
      <3>5. (i \in 1 .. Len(made) \/ i = Len(made) + 1) /\ (j \in 1 .. Len(made) \/ j = Len(made) + 1)
        BY <1>6
      <3>. QED  BY <3>1, <3>2, <3>3, <3>4, <3>5
    <2>. QED  BY <2>2 DEF UniqueSymbols
  <1>. QED  BY <1>7, <1>8, <1>9, <1>10, <1>11, <1>12

LEMMA GensymStutterInv ==
    ASSUME GensymIInv, UNCHANGED vars
    PROVE  GensymIInv'
  <1>1. Pending' = Pending /\ Taking' = Taking
    BY DEF Pending, Taking, vars, gensymVars
  <1>. QED
    BY <1>1
    DEF GensymIInv, vars, gensymVars, lockVars, GensymTypeOK, LockTypeOK, LockHeld,
        OwnNumber, UsedNumbers, NumbersCounted, UniqueSymbols

LEMMA GensymInvariance == Spec => []GensymIInv
  <1>1. GensymIInv /\ MutualExclusion /\ LockTypeOK' /\ [Next]_vars => GensymIInv'
    BY AcquireCounterInv, WaitForCounterInv, ReadCounterInv, IncrementCounterInv,
       ReleaseCounterInv, MakeSymbolInv, GensymStutterInv DEF Next
  <1>. QED
    BY GensymInitInv, GensymUsesLock, LockTypeCorrect, LockMutualExclusion, <1>1, PTL DEF Spec

-------------------------------------------------------------------------------

\* The counter and the numbers taken from it stay within their bounds, and no
\* more symbols are returned than numbers were taken.
THEOREM GensymTypeCorrect == Spec => []GensymTypeOK
  <1>1. GensymIInv => GensymTypeOK
    BY DEF GensymIInv
  <1>. QED  BY GensymInvariance, <1>1, PTL

\* No two calls of gensym return the same symbol.
THEOREM GensymUniqueSymbols == Spec => []UniqueSymbols
  <1>1. GensymIInv => UniqueSymbols
    BY DEF GensymIInv
  <1>. QED  BY GensymInvariance, <1>1, PTL

\* The symbol that a thread is about to return tells its number.
THEOREM GensymSymbolTellsNumber == Spec => []SymbolTellsNumber
  <1>1. GensymIInv => SymbolTellsNumber
    <2>. SUFFICES ASSUME GensymIInv, NEW t \in Threads,
                         NEW p \in CallPrefixes, NEW q \in CallPrefixes,
                         NEW s \in Texts, NEW u \in Texts, NEW n \in Numbers,
                         Symbol(p, s, number[t]) = Symbol(q, u, n)
                  PROVE  n = number[t]
      BY DEF SymbolTellsNumber
    <2>1. number[t] \in Numbers
      BY MaxCounterAssumption DEF GensymIInv, GensymTypeOK
    <2>. QED  BY <2>1, SymbolInjective
  <1>. QED  BY GensymInvariance, <1>1, PTL

-------------------------------------------------------------------------------

Method ==
    INSTANCE InitializeOnce_proofs WITH
        active <- method_active,
        available <- method_available,
        pc <- method_pc,
        my_ticket <- method_ticket,
        active_ticket <- method_active_ticket

LEMMA CallsMakeSymbols == SpecCalls => Spec
  <1>1. InitCalls => Init
    BY DEF InitCalls
  <1>2. [NextCalls]_callsVars => [Next]_vars
    BY DEF NextCalls, CallMethod, ChooseMethod, CountSymbol, ReturnSymbol, Next, callsVars
  <1>. QED  BY <1>1, <1>2, PTL DEF SpecCalls, Spec

LEMMA CallsChooseMethod == SpecCalls => Method!Spec
  <1>1. InitCalls => Method!Init
    BY DEF InitCalls, Once!Init, Once!LockInit, Once!None, Method!Init, Method!LockInit,
       Method!None
  <1>2. [NextCalls]_callsVars => [Method!Next]_(Method!vars)
    <2>1. ASSUME NEW t \in Threads, CallMethod(t)
          PROVE  Method!Next
      BY <2>1 DEF CallMethod, Once!CheckInitialized, Once!lockVars, Method!Next,
         Method!CheckInitialized, Method!lockVars
    <2>2. ASSUME NEW t \in Threads, ChooseMethod(t)
          PROVE  Method!Step(t)
      BY <2>2 DEF ChooseMethod, Once!Step, Once!AcquireLock, Once!WaitForLock,
         Once!RecheckInitialized, Once!InitializeValue, Once!FinishValue, Once!Publish,
         Once!ReleaseLock, Once!ReturnValue, Once!FetchTicket, Once!LoadActive,
         Once!CompareTickets, Once!ReleaseSpinlock, Once!Inc, Once!lockVars, Once!onceVars,
         Method!Step, Method!AcquireLock, Method!WaitForLock,
         Method!RecheckInitialized, Method!InitializeValue, Method!FinishValue, Method!Publish,
         Method!ReleaseLock, Method!ReturnValue, Method!FetchTicket, Method!LoadActive,
         Method!CompareTickets, Method!ReleaseSpinlock, Method!Inc, Method!lockVars,
         Method!onceVars
    <2>3. ASSUME NEW t \in Threads, CountSymbol(t) \/ ReturnSymbol(t)
          PROVE  UNCHANGED Method!vars
      BY <2>3 DEF CountSymbol, ReturnSymbol, methodVars, methodLockVars, Method!vars,
         Method!lockVars, Method!onceVars
    <2>4. ASSUME UNCHANGED callsVars
          PROVE  UNCHANGED Method!vars
      BY <2>4 DEF callsVars, methodVars, methodLockVars, Method!vars,
         Method!lockVars, Method!onceVars
    <2>. QED  BY <2>1, <2>2, <2>3, <2>4 DEF NextCalls, Method!Next
  <1>. QED  BY <1>1, <1>2, PTL DEF SpecCalls, Method!Spec

\* What InitializeOnce_proofs assumes of its constants holds here.
LEMMA MethodAssumptions ==
    /\ Method!IsFiniteSet(Threads)
    /\ TicketModulus \in Nat
    /\ Method!Cardinality(Threads) < TicketModulus
  BY ThreadsAssumption, TicketModulusAssumption
  DEF Method!IsFiniteSet, Method!Cardinality, IsFiniteSet, Cardinality

\* However the calls overlap, _initialize_gensym_method runs once.
THEOREM CallsInitializedOnce == SpecCalls => []InitializedOnce
  <1>1. Method!InitializedOnce => InitializedOnce
    BY DEF InitializedOnce, Method!InitializedOnce, Once!InitializedOnce
  <1>2. Method!Spec => []Method!InitializedOnce
    BY MethodAssumptions, Method!OnceInitializedOnce
  <1>. QED  BY <1>1, <1>2, CallsChooseMethod, PTL

\* All calls of gensym use the same method.
THEOREM CallsAllAgree == SpecCalls => []AllCallsAgree
  <1>1. Method!AllCallsAgree => AllCallsAgree
    BY DEF AllCallsAgree, Method!AllCallsAgree, Once!AllCallsAgree, Method!None, Once!None
  <1>2. Method!Spec => []Method!AllCallsAgree
    BY MethodAssumptions, Method!OnceAllCallsAgree
  <1>. QED  BY <1>1, <1>2, CallsChooseMethod, PTL

\* No two calls of gensym return the same symbol.
THEOREM CallsUniqueSymbols == SpecCalls => []UniqueSymbols
  BY CallsMakeSymbols, GensymUniqueSymbols, PTL

-------------------------------------------------------------------------------

\* A thread is in one of the two parts of a call, and at rest in the other.
StagesInv ==
    /\ stage \in [Threads -> {"method", "symbol"}]
    /\ \A t \in Threads :
        IF stage[t] = "method" THEN gpc[t] = "call" ELSE opc[t] = "check"

\* The places of the two parts, and a thread that returns from gensym_method
\* does not wait for its lock.
PlacesInv ==
    /\ gpc \in [Threads -> {"call", "wait", "increment", "release", "return"}]
    /\ opc \in [Threads -> {"check", "acquire", "wait", "initialize", "finish",
                            "publish", "release", "return"}]
    /\ \A t \in Threads : opc[t] = "return" => method_pc[t] = "outside"

LEMMA CallsPlaces == SpecCalls => []PlacesInv
  <1>1. GensymTypeOK /\ Method!OnceIInv => PlacesInv
    BY DEF GensymTypeOK, Method!OnceIInv, Method!OnceTypeOK, Method!LockHeld, Method!Away,
       PlacesInv
  <1>2. Method!Spec => []Method!OnceIInv
    BY MethodAssumptions, Method!OnceInvariance
  <1>. QED
    BY <1>1, <1>2, CallsMakeSymbols, CallsChooseMethod, GensymTypeCorrect, PTL

LEMMA StagesStep ==
    ASSUME StagesInv, PlacesInv, NEW t \in Threads,
           CallMethod(t) \/ ChooseMethod(t) \/ CountSymbol(t) \/ ReturnSymbol(t)
    PROVE  StagesInv'
  <1>. USE DEF StagesInv, PlacesInv
  <1>1. CASE CallMethod(t)
    BY <1>1 DEF CallMethod, Once!CheckInitialized, vars, gensymVars
  <1>2. CASE ChooseMethod(t)
    <2>. USE <1>2 DEF ChooseMethod, vars, gensymVars
    <2>1. ASSUME NEW u \in Threads, u # t
          PROVE  opc'[u] = opc[u]
      BY <2>1 DEF Once!Step, Once!AcquireLock, Once!WaitForLock, Once!RecheckInitialized,
         Once!InitializeValue, Once!FinishValue, Once!Publish, Once!ReleaseLock,
         Once!ReturnValue, Once!onceVars
    <2>2. opc[t] = "return" => opc'[t] = "check"
      BY DEF Once!Step, Once!AcquireLock, Once!WaitForLock, Once!RecheckInitialized,
         Once!InitializeValue, Once!FinishValue, Once!Publish, Once!ReleaseLock,
         Once!ReturnValue, Once!LoadActive, Once!CompareTickets
    <2>. QED  BY <2>1, <2>2
  <1>3. CASE CountSymbol(t)
    BY <1>3 DEF CountSymbol, methodVars, AcquireCounter, WaitForCounter, ReadCounter,
       IncrementCounter, ReleaseCounter, gensymVars
  <1>4. CASE ReturnSymbol(t)
    BY <1>4 DEF ReturnSymbol, MakeSymbol, methodVars
  <1>. QED  BY <1>1, <1>2, <1>3, <1>4

\* The two parts keep their types, and no thread is in both.
THEOREM CallsTypeCorrect == SpecCalls => []CallsTypeOK
  <1>1. InitCalls => StagesInv
    BY DEF InitCalls, Init, Once!Init, StagesInv
  <1>2. StagesInv /\ PlacesInv /\ [NextCalls]_callsVars => StagesInv'
    <2>1. ASSUME StagesInv, UNCHANGED callsVars
          PROVE  StagesInv'
      BY <2>1 DEF StagesInv, callsVars, vars, gensymVars, methodVars
    <2>. QED  BY <2>1, StagesStep DEF NextCalls
  <1>3. Method!Spec => []Method!OnceTypeOK
    BY MethodAssumptions, Method!OnceTypeCorrect
  <1>4. GensymTypeOK /\ Method!OnceTypeOK /\ StagesInv => CallsTypeOK
    BY DEF CallsTypeOK, StagesInv, Once!OnceTypeOK, Once!LockTypeOK, Once!Tickets,
       Once!Methods, Once!None, Method!OnceTypeOK, Method!LockTypeOK, Method!Tickets,
       Method!Methods, Method!None
  <1>. QED
    BY <1>1, <1>2, <1>3, <1>4, CallsPlaces, CallsMakeSymbols, CallsChooseMethod,
       GensymTypeCorrect, PTL DEF SpecCalls
===============================================================================
