----------------------------- MODULE Words_proofs -----------------------------
(***************************************************************************)
(* Proofs about the scan and the passes of Words, for all files and all    *)
(* classes of characters: the EOF token stays last (EndingOnce), no text   *)
(* is lost on the way from the scan to the words (NothingIsLost), each     *)
(* token is a word of its kind (KindsFitAlways), numbers and symbols are   *)
(* as long as they can be (LongestWordsAlways), and identifiers but for    *)
(* the integers behind them (OnlyIntegersAreCutOff).  The scan puts the    *)
(* texts of the files in order (ScansInOrder), and their ends where they   *)
(* end (EndsStayInPlace).                                                  *)
(*                                                                         *)
(* However different the handlers, each step of a pass has one of four     *)
(* shapes (Shape, ParseShape), and what is kept is proved from them.  Of   *)
(* the scan it is proved that what it has put of a file are as many of the *)
(* file's tokens as code points come before the place reached (ScanKept).  *)
(***************************************************************************)
EXTENDS Words, SequenceLemmas, FiniteSetTheorems

\* What the tokens of the passes are.
Token == [kind : Kinds, value : Seq(CodePoints) \ {<<>>}]

LEMMA TokenFacts ==
    ASSUME NEW t \in Token
    PROVE  /\ t.value \in Seq(CodePoints) /\ t.value # <<>>
           /\ Len(t.value) \in Nat \ {0}
           /\ t = [kind |-> t.kind, value |-> t.value]
           /\ t.kind \in Kinds
  <1>1. t.value \in Seq(CodePoints) /\ t.value # <<>> /\ t.kind \in Kinds
        /\ t = [kind |-> t.kind, value |-> t.value]
    BY DEF Token
  <1>2. Len(t.value) \in Nat \ {0}
    BY <1>1, EmptySeq
  <1>. QED  BY <1>1, <1>2

LEMMA TokensIsToken ==
    ASSUME NEW kind \in Kinds, NEW v \in Seq(CodePoints), v # <<>>
    PROVE  Tokens(kind, v) \in Token /\ Tokens(kind, v).kind = kind
           /\ Tokens(kind, v).value = v
  BY DEF Tokens, Token

LEMMA EofIsToken == Eof \in Token /\ Len(Eof.value) = 3 /\ Eof.kind = "EOF"
  <1>1. "E" \in CodePoints /\ "O" \in CodePoints /\ "F" \in CodePoints
    BY CharactersAssumption
  <1>2. <<"E", "O", "F">> \in Seq(CodePoints) /\ <<"E", "O", "F">> # <<>>
    BY <1>1
  <1>3. Len(<<"E", "O", "F">>) = 3
    OBVIOUS
  <1>4. "EOF" \in Kinds
    BY DEF Kinds
  <1>. DEFINE v == <<"E", "O", "F">>
  <1>5. Eof = Tokens("EOF", v)
    BY DEF Eof
  <1>6. v \in Seq(CodePoints) /\ v # <<>> /\ Len(v) = 3
    BY <1>2, <1>3
  <1>. HIDE DEF v
  <1>. QED  BY <1>4, <1>5, <1>6, TokensIsToken

-------------------------------------------------------------------------------
\* Texts.

ValueOf == [t \in Token |-> t.value]

LEMMA ValueOfYields == Yields(ValueOf, Token, CodePoints)
  <1>1. \A t \in Token : ValueOf[t] = t.value /\ t.value \in Seq(CodePoints)
    BY TokenFacts DEF ValueOf
  <1>. QED  BY <1>1 DEF Yields

LEMMA TextIs ==
    ASSUME NEW s \in Seq(Token)
    PROVE  Text(s) = FlatMap(ValueOf, s)
  <1>1. DOMAIN s = 1 .. Len(s) /\ \A k \in 1 .. Len(s) : s[k] \in Token
    BY LenProperties, ElementOfSeq
  <1>2. \A k \in DOMAIN s : ValueOf[s[k]] = s[k].value
    BY <1>1 DEF ValueOf
  <1>. HIDE DEF ValueOf
  <1>3. [k \in DOMAIN s |-> ValueOf[s[k]]] = [k \in DOMAIN s |-> s[k].value]
    BY <1>2, Zenon
  <1>. QED  BY <1>3, Zenon DEF Text, FlatMap, Mapped

LEMMA TextType ==
    ASSUME NEW s \in Seq(Token)
    PROVE  Text(s) \in Seq(CodePoints)
  BY TextIs, ValueOfYields, FlatMapType

LEMMA TextConcat ==
    ASSUME NEW s \in Seq(Token), NEW t \in Seq(Token)
    PROVE  Text(s \o t) = Text(s) \o Text(t)
  <1>1. s \o t \in Seq(Token)
    BY ConcatProperties
  <1>2. \A u, v \in Seq(Token) :
          FlatMap(ValueOf, u \o v) = FlatMap(ValueOf, u) \o FlatMap(ValueOf, v)
    BY ValueOfYields, FlatMapConcat, SMTT(30)
  <1>3. \A u \in Seq(Token) : Text(u) = FlatMap(ValueOf, u)
    BY TextIs
  <1>4. Text(s) = FlatMap(ValueOf, s) /\ Text(t) = FlatMap(ValueOf, t)
    BY <1>3, Zenon
  <1>5. Text(s \o t) = FlatMap(ValueOf, s \o t)
    BY <1>1, <1>3, Zenon
  <1>6. FlatMap(ValueOf, s \o t) = FlatMap(ValueOf, s) \o FlatMap(ValueOf, t)
    BY <1>2, Zenon
  <1>. QED  BY <1>4, <1>5, <1>6, Zenon

LEMMA TextOne ==
    ASSUME NEW t \in Token
    PROVE  Text(<<t>>) = t.value
  <1>1. <<t>> \in Seq(Token)
    OBVIOUS
  <1>2. Text(<<t>>) = FlatMap(ValueOf, <<t>>)
    BY <1>1, TextIs
  <1>3. FlatMap(ValueOf, <<t>>) = ValueOf[t]
    BY ValueOfYields, FlatMapOne
  <1>. QED  BY <1>2, <1>3 DEF ValueOf

LEMMA TextEmpty == Text(<<>>) = <<>>
  BY FlattenEmpty DEF Text

LEMMA TextAppend ==
    ASSUME NEW s \in Seq(Token), NEW t \in Token
    PROVE  Text(Append(s, t)) = Text(s) \o t.value
  <1>1. <<t>> \in Seq(Token) /\ Append(s, t) = s \o <<t>>
    BY AppendIsConcat
  <1>. QED  BY <1>1, TextConcat, TextOne

-------------------------------------------------------------------------------
\* The getter of a pass.

\* What the getter holds: some tokens, and the EOF token at the end of them.
Ended(s) ==
    /\ s \in Seq(Token)
    /\ Len(s) > 0
    /\ \A k \in 1 .. Len(s) : s[k] = Eof <=> k = Len(s)

LEMMA EndedFacts ==
    ASSUME NEW s, Ended(s)
    PROVE  /\ s \in Seq(Token) /\ s # <<>> /\ Len(s) \in Nat \ {0}
           /\ DOMAIN s = 1 .. Len(s)
           /\ \A k \in 1 .. Len(s) : s[k] \in Token
           /\ s[Len(s)] = Eof /\ Last(s) = Eof
           /\ Head(s) = s[1]
           /\ \A k \in 1 .. Len(s) - 1 : s[k] # Eof
  <1>1. s \in Seq(Token) /\ Len(s) \in Nat \ {0} /\ s # <<>>
    BY LenProperties, EmptySeq DEF Ended
  <1>2. s[Len(s)] = Eof /\ Len(s) \in 1 .. Len(s)
    BY <1>1 DEF Ended
  <1>3. DOMAIN s = 1 .. Len(s) /\ \A k \in 1 .. Len(s) : s[k] \in Token
    BY <1>1, LenProperties, ElementOfSeq
  <1>4. \A k \in 1 .. Len(s) - 1 : s[k] # Eof
    BY <1>1 DEF Ended
  <1>. QED  BY <1>1, <1>2, <1>3, <1>4 DEF Last

LEMMA RestFacts ==
    ASSUME Ended(input), NEW n \in 1 .. Len(input)
    PROVE  /\ Ended(Rest(n))
           /\ n < Len(input) => /\ Len(Rest(n)) = Len(input) - n
                                /\ \A k \in 1 .. Len(Rest(n)) : Rest(n)[k] = input[n + k]
           /\ n = Len(input) => Rest(n) = <<Eof>>
  <1>1. CASE n < Len(input)
    <2>1. Rest(n) = SubSeq(input, n + 1, Len(input))
      BY <1>1 DEF Rest
    <2>2. /\ n + 1 \in Int /\ Len(input) \in Int
          /\ \A k \in n + 1 .. Len(input) : input[k] \in Token
      BY EndedFacts
    <2>3. /\ Rest(n) \in Seq(Token)
          /\ Len(Rest(n)) = Len(input) - n
          /\ \A k \in 1 .. Len(input) - n : Rest(n)[k] = input[n + k]
      <3>1. /\ SubSeq(input, n + 1, Len(input)) \in Seq(Token)
            /\ Len(SubSeq(input, n + 1, Len(input)))
                 = IF n + 1 <= Len(input) THEN Len(input) - (n + 1) + 1 ELSE 0
            /\ \A k \in 1 .. Len(input) - (n + 1) + 1 :
                  SubSeq(input, n + 1, Len(input))[k] = input[(n + 1) + k - 1]
        BY <2>2, SubSeqProperties
      <3>2. Len(input) \in Nat /\ n \in Nat
        BY EndedFacts
      <3>. QED  BY <2>1, <3>1, <3>2, <1>1
    <2>4. \A k \in 1 .. Len(input) - n : Rest(n)[k] = Eof <=> k = Len(input) - n
      <3>1. \A k \in 1 .. Len(input) - n : n + k \in 1 .. Len(input) /\ k \in Int
        BY EndedFacts
      <3>2. Len(input) \in Nat /\ n \in Nat
        BY EndedFacts
      <3>. QED  BY <2>3, <3>1, <3>2 DEF Ended
    <2>. QED  BY <1>1, <2>3, <2>4, EndedFacts DEF Ended
  <1>2. CASE n = Len(input)
    <2>1. Rest(n) = <<Eof>>
      BY <1>2, EndedFacts DEF Rest
    <2>2. Ended(<<Eof>>)
      BY EofIsToken DEF Ended
    <2>. QED  BY <1>2, <2>1, <2>2, EndedFacts
  <1>. QED  BY <1>1, <1>2, EndedFacts

LEMMA LookAtFacts ==
    ASSUME Ended(input)
    PROVE  /\ \A k \in 1 .. Len(input) : LookAt(k - 2) = input[k]
           /\ \A k \in Int : k > Len(input) => LookAt(k - 2) = Eof
           /\ tok = input[1]
  BY EndedFacts DEF LookAt, tok

LEMMA PartsOfInput ==
    ASSUME Ended(input), NEW n \in 1 .. Len(input)
    PROVE  /\ SubSeq(input, 1, n) \in Seq(Token)
           /\ Len(SubSeq(input, 1, n)) = n
           /\ \A k \in 1 .. n : SubSeq(input, 1, n)[k] = input[k]
           /\ n < Len(input) =>
                /\ input = SubSeq(input, 1, n) \o Rest(n)
                /\ Text(input) = Text(SubSeq(input, 1, n)) \o Text(Rest(n))
           /\ n = Len(input) => SubSeq(input, 1, n) = input
  <1>. DEFINE L == Len(input)
  <1>0. input \in Seq(Token) /\ L \in Nat /\ n \in Nat
    BY EndedFacts
  <1>1. /\ SubSeq(input, 1, n) \in Seq(Token)
        /\ Len(SubSeq(input, 1, n)) = n
        /\ \A k \in 1 .. n : SubSeq(input, 1, n)[k] = input[k]
    <2>1. \A k \in 1 .. n : input[k] \in Token
      BY EndedFacts
    <2>2. /\ SubSeq(input, 1, n) \in Seq(Token)
          /\ Len(SubSeq(input, 1, n)) = IF 1 <= n THEN n - 1 + 1 ELSE 0
          /\ \A k \in 1 .. n - 1 + 1 : SubSeq(input, 1, n)[k] = input[1 + k - 1]
      BY <2>1, <1>0, SubSeqProperties
    <2>. QED  BY <2>2, <1>0
  <1>2. ASSUME n < L
        PROVE  /\ input = SubSeq(input, 1, n) \o Rest(n)
               /\ Text(input) = Text(SubSeq(input, 1, n)) \o Text(Rest(n))
    <2>1. Rest(n) = SubSeq(input, n + 1, L) /\ Rest(n) \in Seq(Token)
      BY <1>2, RestFacts, EndedFacts DEF Rest
    <2>2. SubSeq(input, 1, n) \o SubSeq(input, n + 1, L) = SubSeq(input, 1, L)
      BY <1>0, <1>2, ConcatAdjacentSubSeq
    <2>3. SubSeq(input, 1, L) = input
      BY <1>0, SubSeqFull
    <2>4. input = SubSeq(input, 1, n) \o Rest(n)
      BY <2>1, <2>2, <2>3, Zenon
    <2>. DEFINE u == SubSeq(input, 1, n)
                w == Rest(n)
    <2>5. u \in Seq(Token) /\ w \in Seq(Token) /\ input = u \o w
      BY <1>1, <2>1, <2>4
    <2>. HIDE DEF u, w
    <2>6. Text(u \o w) = Text(u) \o Text(w)
      BY <2>5, TextConcat, Zenon
    <2>. QED  BY <2>4, <2>5, <2>6 DEF u, w
  <1>3. n = L => SubSeq(input, 1, n) = input
    BY <1>0, SubSeqFull
  <1>. QED  BY <1>1, <1>2, <1>3

\* The tokens that are joined are the first of the input.
LEMMA JoinedTokens ==
    ASSUME Ended(input), NEW n \in 1 .. Len(input)
    PROVE  /\ [k \in 1 .. n |-> LookAt(k - 2)] = SubSeq(input, 1, n)
           /\ Text(SubSeq(input, 1, n)) \in Seq(CodePoints) \ {<<>>}
  <1>1. SubSeq(input, 1, n) \in Seq(Token) /\ Len(SubSeq(input, 1, n)) = n
        /\ \A k \in 1 .. n : SubSeq(input, 1, n)[k] = input[k]
    BY PartsOfInput
  <1>2. n \in Nat /\ \A k \in 1 .. n : k \in 1 .. Len(input)
    BY EndedFacts
  <1>3. [k \in 1 .. n |-> LookAt(k - 2)] = [k \in 1 .. n |-> input[k]]
    BY <1>2, LookAtFacts
  <1>4. SubSeq(input, 1, n) = [k \in 1 .. n |-> input[k]]
    <2>1. DOMAIN SubSeq(input, 1, n) = 1 .. n
          /\ SubSeq(input, 1, n) = [k \in DOMAIN SubSeq(input, 1, n) |-> SubSeq(input, 1, n)[k]]
      BY <1>1, LenProperties
    <2>. QED  BY <1>1, <2>1
  <1>5. Text(SubSeq(input, 1, n)) # <<>>
    <2>. DEFINE s == SubSeq(input, 1, n)
                first == SubSeq(s, 1, 1)
                others == SubSeq(s, 2, n)
    <2>0. s \in Seq(Token) /\ Len(s) = n /\ n \in Nat \ {0}
      BY <1>1, EndedFacts
    <2>. HIDE DEF s
    <2>1. s = <<s[1]>> \o others /\ others \in Seq(Token) /\ s[1] \in Token
      <3>1. SubSeq(s, 1, n) = <<s[1]>> \o SubSeq(s, 1 + 1, n)
        BY <2>0, SubSeqRecursiveFirst
      <3>2. SubSeq(s, 1, n) = s
        BY <2>0, SubSeqFull
      <3>3. \A k \in 1 .. n : s[k] \in Token
        BY <2>0, ElementOfSeq
      <3>4. \A k \in 2 .. n : s[k] \in Token
        BY <2>0, <3>3
      <3>5. others \in Seq(Token)
        BY <2>0, <3>4, SubSeqProperties
      <3>. QED  BY <3>1, <3>2, <3>3, <3>5, <2>0
    <2>. HIDE DEF others
    <2>2. Text(s) = s[1].value \o Text(others)
      <3>1. <<s[1]>> \in Seq(Token)
        BY <2>1
      <3>. QED  BY <2>1, <3>1, TextConcat, TextOne
    <2>3. /\ s[1].value \in Seq(CodePoints) /\ s[1].value # <<>>
          /\ Text(others) \in Seq(CodePoints)
      BY <2>1, TokenFacts, TextType
    <2>4. \A u, v \in Seq(CodePoints) : u \o v = <<>> => u = <<>>
      BY ConcatEqualIffEmpty
    <2>5. Text(s) # <<>>
      BY <2>2, <2>3, <2>4
    <2>. QED  BY <2>5 DEF s
  <1>. QED  BY <1>1, <1>3, <1>4, <1>5, TextType

-------------------------------------------------------------------------------
\* Steps.

\* A pass joins tokens of its input to one, but for the last.
Joins(lhs, n) ==
    /\ pass # RemoveSpaces
    /\ lhs # Eof /\ n \in 1 .. Len(input) - 1
    /\ lhs.value = Text(SubSeq(input, 1, n))

\* A comment takes in all there is.
TakesAll(lhs, n) ==
    /\ pass = WhiteSpace
    /\ n = Len(input) /\ n > 1
    /\ lhs.kind = "CO" /\ lhs.value = Text(input)

\* The EOF token is put by itself, and ends the pass.
PutsEof(lhs, n) ==
    /\ pass # RemoveSpaces
    /\ lhs = Eof /\ n = 1 /\ Len(input) = 1

\* The pass that removes spaces goes on to the next token that is none.
Skips(lhs, n) ==
    /\ pass = RemoveSpaces
    /\ n \in 1 .. Len(input)
    /\ lhs = input[n]
    /\ ~ IsSpace(lhs)
    /\ \A k \in 1 .. n - 1 : IsSpace(input[k])

Shape(lhs, n) ==
    /\ lhs \in Token
    /\ Put(lhs, n)
    /\ Joins(lhs, n) \/ TakesAll(lhs, n) \/ PutsEof(lhs, n) \/ Skips(lhs, n)

PassesTyped ==
    /\ pass \in 0 .. RemoveSpaces + 1
    /\ output \in Seq(Token) /\ before \in Seq(Token)
    /\ \A k \in 1 .. Len(output) : output[k] # Eof
    /\ pass = 0 => input = <<>> /\ output = <<>> /\ before = <<>>
    /\ pass # 0 => Ended(input)

LEMMA AppendEof ==
    ASSUME NEW s \in Seq(Token), \A k \in 1 .. Len(s) : s[k] # Eof
    PROVE  Ended(Append(s, Eof))
  <1>1. /\ Append(s, Eof) \in Seq(Token) /\ Len(Append(s, Eof)) = Len(s) + 1
        /\ \A k \in 1 .. Len(s) : Append(s, Eof)[k] = s[k]
        /\ Append(s, Eof)[Len(s) + 1] = Eof
    BY EofIsToken, AppendProperties
  <1>2. Len(s) \in Nat
    BY LenProperties
  <1>. QED  BY <1>1, <1>2 DEF Ended

LEMMA TypedStep ==
    ASSUME PassesTyped, pass # 0, pass # RemoveSpaces + 1, NEW lhs, NEW n, Shape(lhs, n)
    PROVE  PassesTyped'
  <1>0. Ended(input) /\ lhs \in Token /\ pass \in 1 .. 11 /\ RemoveSpaces = 11
    BY DEF PassesTyped, Shape, RemoveSpaces
  <1>1. CASE lhs = Eof
    <2>1. /\ pass' = pass + 1 /\ input' = Append(output, lhs) /\ before' = input'
          /\ output' = <<>>
      BY <1>1 DEF Shape, Put
    <2>2. Ended(Append(output, Eof))
      BY AppendEof DEF PassesTyped
    <2>3. Ended(input')
      BY <2>1, <2>2, <1>1
    <2>4. before' \in Seq(Token)
      BY <2>1, <2>3, EndedFacts
    <2>. QED  BY <1>0, <2>1, <2>3, <2>4 DEF PassesTyped, Ended
  <1>2. CASE lhs # Eof
    <2>1. input' = Rest(n) /\ output' = Append(output, lhs) /\ UNCHANGED <<pass, before>>
      BY <1>2 DEF Shape, Put
    <2>2. n \in 1 .. Len(input)
      BY <1>0, EndedFacts DEF Shape, Joins, TakesAll, PutsEof, Skips
    <2>3. Ended(Rest(n))
      BY <1>0, <2>2, RestFacts
    <2>4. /\ Append(output, lhs) \in Seq(Token)
          /\ \A k \in 1 .. Len(Append(output, lhs)) : Append(output, lhs)[k] # Eof
      BY <1>0, <1>2, AppendProperties, LenProperties DEF PassesTyped
    <2>. QED  BY <1>0, <2>1, <2>3, <2>4 DEF PassesTyped, Ended
  <1>. QED  BY <1>1, <1>2

\* NothingLost, in the passes that keep the text.
TextKept ==
    \/ Text(Now) = Text(before)
    \/ /\ output # <<>> /\ Last(output).kind = "CO" /\ input = <<Eof>>
       /\ Text(Now) = Text(before) \o Eof.value

LEMMA TextOfNow ==
    ASSUME PassesTyped, pass # 0
    PROVE  /\ Text(Now) = Text(output) \o Text(input)
           /\ Text(output) \in Seq(CodePoints) /\ Text(input) \in Seq(CodePoints)
           /\ Text(before) \in Seq(CodePoints)
  BY EndedFacts, TextConcat, TextType DEF PassesTyped, Now

LEMMA TextStep ==
    ASSUME PassesTyped, PassesTyped', pass \notin {0, RemoveSpaces, RemoveSpaces + 1},
           NEW lhs, NEW n, Shape(lhs, n), TextKept
    PROVE  TextKept'
  <1>0. Ended(input) /\ lhs \in Token /\ output \in Seq(Token) /\ lhs.value \in Seq(CodePoints)
    BY TokenFacts DEF PassesTyped, Shape
  <1>. DEFINE before_ == Text(before)
  <1>1. CASE PutsEof(lhs, n)
    <2>1. input' = Append(output, lhs) /\ before' = input' /\ output' = <<>>
      BY <1>1 DEF Shape, Put, PutsEof
    <2>2. input' \in Seq(Token)
      BY <1>0, <2>1, AppendProperties
    <2>3. Now' = input'
      BY <2>1, <2>2, ConcatEmptySeq DEF Now
    <2>. QED  BY <2>1, <2>3 DEF TextKept
  <1>2. CASE Joins(lhs, n)
    <2>1. input' = Rest(n) /\ output' = Append(output, lhs) /\ before' = before
      BY <1>2 DEF Shape, Put, Joins
    <2>2. n \in 1 .. Len(input) /\ n < Len(input)
      BY <1>2, <1>0, EndedFacts DEF Joins
    <2>3. Text(input) = lhs.value \o Text(Rest(n))
      BY <1>0, <1>2, <2>2, PartsOfInput DEF Joins
    <2>4. Text(output') = Text(output) \o lhs.value
      BY <1>0, <2>1, TextAppend
    <2>5. Rest(n) \in Seq(Token)
      BY <1>0, <2>2, RestFacts, EndedFacts
    <2>6. Text(Now') = Text(output') \o Text(Rest(n))
      <3>1. output' \in Seq(Token)
        BY <1>0, <2>1, AppendProperties
      <3>. QED  BY <2>1, <2>5, <3>1, TextConcat DEF Now
    <2>7. Text(output) \in Seq(CodePoints) /\ Text(Rest(n)) \in Seq(CodePoints)
      BY <1>0, <2>5, TextType
    <2>8. Text(Now') = Text(output) \o (lhs.value \o Text(Rest(n)))
      <3>1. (Text(output) \o lhs.value) \o Text(Rest(n))
              = Text(output) \o (lhs.value \o Text(Rest(n)))
        <4>1. /\ Text(output) \in Seq(CodePoints) /\ lhs.value \in Seq(CodePoints)
              /\ Text(Rest(n)) \in Seq(CodePoints)
          BY <1>0, <2>7
        <4>2. Associates(CodePoints)
          BY Associative, Zenon
        <4>. QED  BY <4>1, <4>2, Zenon DEF Associates
      <3>. QED  BY <2>4, <2>6, <3>1
    <2>9. Text(Now') = Text(Now)
      BY <2>3, <2>8, TextOfNow DEF PassesTyped
    <2>10. input # <<Eof>>
      <3>1. Len(input) # 1
        BY <1>0, <2>2, EndedFacts
      <3>. QED  BY <3>1
    <2>. QED  BY <2>1, <2>9, <2>10 DEF TextKept
  <1>3. CASE TakesAll(lhs, n)
    <2>1. lhs # Eof
      BY <1>3, EofIsToken DEF TakesAll
    <2>2. input' = Rest(n) /\ output' = Append(output, lhs) /\ before' = before
      BY <2>1 DEF Shape, Put
    <2>3. Rest(n) = <<Eof>>
      BY <1>0, <1>3, RestFacts, EndedFacts DEF TakesAll
    <2>4. Text(output') = Text(output) \o Text(input)
      BY <1>0, <1>3, <2>2, TextAppend DEF TakesAll
    <2>5. output' \in Seq(Token) /\ output' # <<>> /\ Last(output') = lhs
      BY <1>0, <2>2, AppendProperties DEF Last
    <2>6. Text(Now') = Text(Now) \o Eof.value
      <3>1. <<Eof>> \in Seq(Token) /\ Text(<<Eof>>) = Eof.value
        BY EofIsToken, TextOne
      <3>2. Text(Now') = Text(output') \o Eof.value
        BY <2>2, <2>3, <2>5, <3>1, TextConcat DEF Now
      <3>. QED  BY <3>2, <2>4, TextOfNow DEF PassesTyped
    <2>7. input # <<Eof>>
      BY <1>3 DEF TakesAll
    <2>8. Text(Now) = Text(before)
      BY <2>7 DEF TextKept
    <2>. QED  BY <1>3, <2>2, <2>3, <2>5, <2>6, <2>8 DEF TextKept, TakesAll
  <1>. QED  BY <1>1, <1>2, <1>3 DEF Shape, Skips

-------------------------------------------------------------------------------
\* The pass that removes spaces.

WordOf == [t \in Token |-> IF IsSpace(t) THEN <<>> ELSE <<t>>]

LEMMA WordOfYields == Yields(WordOf, Token, Token)
  <1>1. ASSUME NEW t \in Token PROVE WordOf[t] \in Seq(Token)
    <2>1. WordOf[t] = IF IsSpace(t) THEN <<>> ELSE <<t>>
      BY DEF WordOf
    <2>. QED  BY <2>1
  <1>. QED  BY <1>1 DEF Yields

LEMMA WordsIs ==
    ASSUME NEW s \in Seq(Token)
    PROVE  WordsOf(s) = FlatMap(WordOf, s)
  <1>1. DOMAIN s = 1 .. Len(s) /\ \A k \in 1 .. Len(s) : s[k] \in Token
    BY LenProperties, ElementOfSeq
  <1>2. \A k \in DOMAIN s : WordOf[s[k]] = IF IsSpace(s[k]) THEN <<>> ELSE <<s[k]>>
    BY <1>1, Zenon DEF WordOf
  <1>. HIDE DEF WordOf
  <1>3. [k \in DOMAIN s |-> WordOf[s[k]]]
          = [k \in DOMAIN s |-> IF IsSpace(s[k]) THEN <<>> ELSE <<s[k]>>]
    BY <1>2, Zenon
  <1>. QED  BY <1>3, Zenon DEF WordsOf, FlatMap, Mapped

LEMMA WordsConcat ==
    ASSUME NEW s \in Seq(Token), NEW t \in Seq(Token)
    PROVE  WordsOf(s \o t) = WordsOf(s) \o WordsOf(t)
  <1>1. s \o t \in Seq(Token)
    BY ConcatProperties
  <1>2. \A u, v \in Seq(Token) :
          FlatMap(WordOf, u \o v) = FlatMap(WordOf, u) \o FlatMap(WordOf, v)
    BY WordOfYields, FlatMapConcat, SMTT(30)
  <1>3. \A u \in Seq(Token) : WordsOf(u) = FlatMap(WordOf, u)
    BY WordsIs
  <1>4. WordsOf(s) = FlatMap(WordOf, s) /\ WordsOf(t) = FlatMap(WordOf, t)
    BY <1>3, Zenon
  <1>5. WordsOf(s \o t) = FlatMap(WordOf, s \o t)
    BY <1>1, <1>3, Zenon
  <1>6. FlatMap(WordOf, s \o t) = FlatMap(WordOf, s) \o FlatMap(WordOf, t)
    BY <1>2, Zenon
  <1>. QED  BY <1>4, <1>5, <1>6, Zenon

LEMMA WordsType ==
    ASSUME NEW s \in Seq(Token)
    PROVE  WordsOf(s) \in Seq(Token)
  BY WordsIs, WordOfYields, FlatMapType

LEMMA WordsOne ==
    ASSUME NEW t \in Token, ~ IsSpace(t)
    PROVE  WordsOf(<<t>>) = <<t>>
  <1>1. <<t>> \in Seq(Token)
    OBVIOUS
  <1>2. WordsOf(<<t>>) = FlatMap(WordOf, <<t>>)
    BY <1>1, WordsIs
  <1>3. FlatMap(WordOf, <<t>>) = WordOf[t]
    BY WordOfYields, FlatMapOne
  <1>. QED  BY <1>2, <1>3 DEF WordOf

LEMMA WordsNone ==
    ASSUME NEW s \in Seq(Token), \A k \in 1 .. Len(s) : IsSpace(s[k])
    PROVE  WordsOf(s) = <<>>
  <1>1. \A k \in 1 .. Len(s) : s[k] \in Token
    BY ElementOfSeq
  <1>2. \A k \in 1 .. Len(s) : WordOf[s[k]] = <<>>
    BY <1>1, Zenon DEF WordOf
  <1>3. FlatMap(WordOf, s) = <<>>
    BY <1>2, WordOfYields, FlatMapNone
  <1>. QED  BY <1>3, WordsIs

\* NothingLost, in that pass.
WordsKept == WordsOf(output) \o WordsOf(input) = WordsOf(before)

LEMMA WordsStart ==
    ASSUME NEW s \in Seq(Token)
    PROVE  WordsOf(<<>>) \o WordsOf(s) = WordsOf(s)
  <1>1. WordsOf(<<>>) = <<>>
    BY FlattenEmpty DEF WordsOf
  <1>. QED  BY <1>1, WordsType, ConcatEmptySeq

LEMMA WordsStep ==
    ASSUME PassesTyped, pass = RemoveSpaces, WordsKept,
           NEW lhs, NEW n, Shape(lhs, n), lhs # Eof
    PROVE  WordsKept'
  <1>0. Ended(input) /\ input \in Seq(Token) /\ output \in Seq(Token) /\ before \in Seq(Token)
    BY EndedFacts DEF PassesTyped, RemoveSpaces
  <1>1. Skips(lhs, n) /\ lhs \in Token
    BY DEF Shape, Joins, TakesAll, PutsEof, RemoveSpaces, WhiteSpace
  <1>2. input' = Rest(n) /\ output' = Append(output, lhs) /\ before' = before
    BY DEF Shape, Put
  <1>3. n \in 1 .. Len(input) /\ n < Len(input) /\ n \in Nat \ {0} /\ lhs = input[n]
    BY <1>0, <1>1, EndedFacts DEF Skips
  <1>. DEFINE first == SubSeq(input, 1, n)
              spaces == SubSeq(input, 1, n - 1)
  <1>4. /\ first \in Seq(Token) /\ Rest(n) \in Seq(Token)
        /\ input = first \o Rest(n)
    BY <1>0, <1>3, PartsOfInput, RestFacts, EndedFacts
  <1>5. first = spaces \o <<lhs>>
    BY <1>0, <1>3, SubSeqRecursiveSecond
  <1>6. spaces \in Seq(Token) /\ \A k \in 1 .. Len(spaces) : IsSpace(spaces[k])
    <2>1. \A k \in 1 .. n - 1 : input[k] \in Token
      BY <1>0, <1>3, EndedFacts
    <2>2. /\ spaces \in Seq(Token)
          /\ Len(spaces) = IF 1 <= n - 1 THEN n - 1 - 1 + 1 ELSE 0
          /\ \A k \in 1 .. n - 1 - 1 + 1 : spaces[k] = input[1 + k - 1]
      BY <2>1, <1>3, SubSeqProperties
    <2>3. Len(spaces) = n - 1 /\ \A k \in 1 .. n - 1 : spaces[k] = input[k]
      BY <2>2, <1>3
    <2>4. \A k \in 1 .. n - 1 : IsSpace(input[k])
      BY <1>1 DEF Skips
    <2>. HIDE DEF spaces
    <2>. QED  BY <2>2, <2>3, <2>4
  <1>. HIDE DEF first, spaces
  <1>7. <<lhs>> \in Seq(Token) /\ ~ IsSpace(lhs) /\ Append(output, lhs) = output \o <<lhs>>
    BY <1>0, <1>1, AppendIsConcat DEF Skips
  <1>8. WordsOf(first) = <<lhs>>
    <2>1. WordsOf(first) = WordsOf(spaces) \o WordsOf(<<lhs>>)
      BY <1>5, <1>6, <1>7, WordsConcat
    <2>2. WordsOf(spaces) = <<>> /\ WordsOf(<<lhs>>) = <<lhs>>
      BY <1>1, <1>6, <1>7, WordsNone, WordsOne
    <2>. QED  BY <2>1, <2>2, <1>7, ConcatEmptySeq
  <1>9. WordsOf(input) = <<lhs>> \o WordsOf(Rest(n))
    BY <1>4, <1>8, WordsConcat
  <1>10. WordsOf(output') = WordsOf(output) \o <<lhs>>
    BY <1>0, <1>1, <1>2, <1>7, WordsConcat, WordsOne
  <1>11. (WordsOf(output) \o <<lhs>>) \o WordsOf(Rest(n))
           = WordsOf(output) \o (<<lhs>> \o WordsOf(Rest(n)))
    <2>. DEFINE one == <<lhs>>
    <2>1. WordsOf(output) \in Seq(Token) /\ WordsOf(Rest(n)) \in Seq(Token) /\ one \in Seq(Token)
      BY <1>0, <1>4, <1>7, WordsType
    <2>2. Associates(Token)
      BY Associative, Zenon
    <2>. HIDE DEF one
    <2>3. (WordsOf(output) \o one) \o WordsOf(Rest(n)) = WordsOf(output) \o (one \o WordsOf(Rest(n)))
      BY <2>1, <2>2, Zenon DEF Associates
    <2>. QED  BY <2>3 DEF one
  <1>. QED  BY <1>2, <1>9, <1>10, <1>11 DEF WordsKept

\* Where a pass ends, the next one begins with what it has put.
LEMMA NothingLostAtEnd ==
    ASSUME PassesTyped, PassesTyped', pass # 0,
           NEW lhs, NEW n, Shape(lhs, n), lhs = Eof
    PROVE  NothingLost'
  <1>1. input' = Append(output, lhs) /\ before' = input' /\ output' = <<>> /\ pass' = pass + 1
    BY DEF Shape, Put
  <1>2. input' \in Seq(Token)
    BY <1>1, AppendProperties DEF PassesTyped, Shape
  <1>3. Now' = input'
    BY <1>1, <1>2, ConcatEmptySeq DEF Now
  <1>4. WordsOf(output') \o WordsOf(input') = WordsOf(before')
    BY <1>1, <1>2, WordsStart
  <1>. QED  BY <1>1, <1>3, <1>4 DEF NothingLost

LEMMA NothingLostStep ==
    ASSUME PassesTyped, PassesTyped', pass \notin {0, RemoveSpaces + 1}, NothingLost,
           NEW lhs, NEW n, Shape(lhs, n)
    PROVE  NothingLost'
  <1>1. CASE lhs = Eof
    <2>1. pass # 0
      OBVIOUS
    <2>. QED  BY <1>1, <2>1, NothingLostAtEnd
  <1>2. CASE lhs # Eof
    <2>1. pass' = pass
      BY <1>2 DEF Shape, Put
    <2>2. CASE pass = RemoveSpaces
      <3>1. WordsKept
        BY <2>2 DEF NothingLost, WordsKept
      <3>2. WordsKept'
        BY <1>2, <2>2, <3>1, WordsStep
      <3>. QED  BY <2>1, <2>2, <3>2 DEF NothingLost, WordsKept, RemoveSpaces
    <2>3. CASE pass # RemoveSpaces
      <3>1. TextKept
        BY <2>3 DEF NothingLost, TextKept
      <3>2. TextKept'
        BY <2>3, <3>1, TextStep
      <3>. QED  BY <2>1, <2>3, <3>2 DEF NothingLost, TextKept, RemoveSpaces
    <2>. QED  BY <2>2, <2>3
  <1>. QED  BY <1>1, <1>2

-------------------------------------------------------------------------------
\* The null denotations.

\* A pass that takes what it takes at once.
Passing == Ended(input) /\ pass \in Integer .. DumpTokens

PassNumbers ==
    /\ Integer = 1 /\ Identifier = 2 /\ String = 3 /\ Symbol = 4 /\ WhiteSpace = 5
    /\ WithPoint = 6 /\ Rational = 7 /\ Floating = 8 /\ Keyword = 9
    /\ DumpTokens = 10 /\ RemoveSpaces = 11

LEMMA PassNumbersHold == PassNumbers
  BY DEF PassNumbers, Integer, Identifier, String, Symbol, WhiteSpace, WithPoint,
         Rational, Floating, Keyword, DumpTokens, RemoveSpaces

LEMMA RunningIsPassing ==
    ASSUME PassesTyped, Running, pass # RemoveSpaces
    PROVE  Passing
  BY PassNumbersHold DEF PassesTyped, Running, Passing, Passes, PassNumbers

\* All but the EOF token have others after them.
LEMMA NotLast ==
    ASSUME Ended(input), tok.kind # "EOF"
    PROVE  Len(input) > 1 /\ tok # Eof /\ tok \in Token /\ tok = input[1]
  <1>1. tok = input[1] /\ tok \in Token
    BY LookAtFacts, EndedFacts
  <1>2. Len(input) # 1
    BY <1>1, EndedFacts, EofIsToken
  <1>. QED  BY <1>1, <1>2, EndedFacts, EofIsToken

LEMMA JoinShape ==
    ASSUME Passing, NEW kind \in Kinds, kind # "EOF", NEW n \in 1 .. Len(input) - 1,
           PutJoined(kind, n)
    PROVE  Shape(Tokens(kind, Text(SubSeq(input, 1, n))), n)
  <1>1. n \in 1 .. Len(input) /\ n \in Nat
    BY EndedFacts DEF Passing
  <1>. DEFINE v == Text(SubSeq(input, 1, n))
  <1>2. [k \in 1 .. n |-> LookAt(k - 2)] = SubSeq(input, 1, n) /\ v \in Seq(CodePoints) /\ v # <<>>
    BY <1>1, JoinedTokens DEF Passing
  <1>3. Put(Tokens(kind, v), n)
    BY <1>2 DEF PutJoined
  <1>. HIDE DEF v
  <1>4. Tokens(kind, v) \in Token /\ Tokens(kind, v).kind = kind /\ Tokens(kind, v).value = v
    BY <1>2, TokensIsToken
  <1>5. Tokens(kind, v) # Eof
    BY <1>4, EofIsToken
  <1>6. Joins(Tokens(kind, v), n)
    BY <1>4, <1>5, PassNumbersHold DEF Joins, Passing, PassNumbers, v
  <1>. QED  BY <1>3, <1>4, <1>6 DEF Shape, v

\* A token that is put by itself, and at most its kind is changed.
LEMMA OneShape ==
    ASSUME Passing, tok.kind # "EOF", NEW kind \in Kinds, kind # "EOF",
           Put([tok EXCEPT !.kind = kind], 1)
    PROVE  Shape([tok EXCEPT !.kind = kind], 1)
  <1>1. /\ Len(input) > 1 /\ tok \in Token /\ tok = input[1]
        /\ Len(input) \in Nat
    BY NotLast, EndedFacts DEF Passing
  <1>. DEFINE lhs == [tok EXCEPT !.kind = kind]
  <1>2. lhs \in Token /\ lhs.kind = kind /\ lhs.value = tok.value
    BY <1>1 DEF Token
  <1>3. Text(SubSeq(input, 1, 1)) = tok.value
    <2>. DEFINE one == SubSeq(input, 1, 1)
    <2>1. one = <<input[1]>>
      <3>1. 1 \in 1 .. Len(input)
        BY <1>1
      <3>2. one \in Seq(Token) /\ Len(one) = 1 /\ one[1] = input[1]
        BY <3>1, PartsOfInput DEF Passing
      <3>. HIDE DEF one
      <3>. QED  BY <3>2
    <2>. QED  BY <1>1, <2>1, TextOne
  <1>4. lhs # Eof
    BY <1>2, EofIsToken
  <1>5. Joins(lhs, 1)
    <2>. HIDE DEF lhs
    <2>. QED  BY <1>1, <1>2, <1>3, <1>4, PassNumbersHold DEF Joins, Passing, PassNumbers
  <1>. QED  BY <1>2, <1>5 DEF Shape

LEMMA RunLengthFacts ==
    ASSUME Ended(input), tok.kind # "EOF", NEW continues
    PROVE  LET n == RunLength(continues) IN
              /\ n \in 1 .. Len(input) - 1
              /\ Joined(continues, SubSeq(input, 2, n))
              /\ \A m \in 1 .. Len(input) :
                    Joined(continues, SubSeq(input, 2, m)) => m <= n
  <1>. DEFINE S == {n \in DOMAIN input : Joined(continues, SubSeq(input, 2, n))}
  <1>0. /\ Len(input) \in Nat /\ DOMAIN input = 1 .. Len(input) /\ Len(input) > 1
        /\ input \in Seq(Token) /\ input[Len(input)] = Eof
        /\ \A k \in 1 .. Len(input) : input[k] \in Token
    BY EndedFacts, NotLast
  <1>1. 1 \in S
    <2>1. SubSeq(input, 2, 1) = <<>>
      BY SubSeqEmpty
    <2>. QED  BY <1>0, <2>1 DEF Joined
  <1>2. Len(input) \notin S
    <2>. DEFINE run == SubSeq(input, 2, Len(input))
                k == Len(input) - 1
    <2>1. /\ Len(run) = k /\ run[k] = Eof /\ k \in 1 .. k /\ k \in Nat
          /\ run \in Seq(Token)
      <3>1. \A m \in 2 .. Len(input) : input[m] \in Token
        BY <1>0
      <3>2. /\ run \in Seq(Token)
            /\ Len(run) = IF 2 <= Len(input) THEN Len(input) - 2 + 1 ELSE 0
            /\ \A m \in 1 .. Len(input) - 2 + 1 : run[m] = input[2 + m - 1]
        BY <1>0, <3>1, SubSeqProperties
      <3>. QED  BY <1>0, <3>2
    <2>. HIDE DEF run
    <2>2. k \in DOMAIN run
      BY <2>1, LenProperties
    <2>3. ~ Is(continues \ Connectors, run[k]) /\ ~ Is(Connectors, run[k])
      BY <2>1, EofIsToken DEF Is
    <2>4. ~ Joined(continues, run)
      BY <2>2, <2>3 DEF Joined
    <2>. QED  BY <2>4 DEF run
  <1>3. S \subseteq 0 .. Len(input)
    BY <1>0
  <1>4. Max(S) \in S /\ \A x \in S : x <= Max(S)
    <2>. HIDE DEF S
    <2>. QED  BY <1>0, <1>1, <1>3, MaxFacts
  <1>5. RunLength(continues) = Max(S)
    BY DEF RunLength
  <1>6. RunLength(continues) \in S /\ \A x \in S : x <= RunLength(continues)
    BY <1>4, <1>5
  <1>. QED  BY <1>0, <1>2, <1>6

LEMMA SymbolLengthFacts ==
    ASSUME Ended(input), tok.kind # "EOF", Is(SymbolParts, tok)
    PROVE  /\ SymbolLength \in 1 .. Len(input) - 1
           /\ \A k \in 1 .. SymbolLength : Is(SymbolParts, input[k])
           /\ ~ Is(SymbolParts, input[SymbolLength + 1])
  <1>. DEFINE S == {n \in DOMAIN input : \A k \in 1 .. n : Is(SymbolParts, input[k])}
  <1>0. /\ Len(input) \in Nat /\ DOMAIN input = 1 .. Len(input) /\ Len(input) > 1
        /\ input[Len(input)] = Eof /\ tok = input[1]
    BY EndedFacts, NotLast
  <1>1. 1 \in S
    BY <1>0
  <1>2. Len(input) \notin S
    <2>1. ~ Is(SymbolParts, input[Len(input)])
      BY <1>0, EofIsToken DEF Is
    <2>. QED  BY <1>0, <2>1
  <1>3. S \subseteq 0 .. Len(input)
    BY <1>0
  <1>4. Max(S) \in S /\ \A x \in S : x <= Max(S)
    <2>. HIDE DEF S
    <2>. QED  BY <1>0, <1>1, <1>3, MaxFacts
  <1>. DEFINE n == SymbolLength
  <1>5. n = Max(S)
    BY DEF SymbolLength
  <1>6. n \in S /\ \A x \in S : x <= n
    BY <1>4, <1>5
  <1>7. n \in 1 .. Len(input) - 1 /\ \A k \in 1 .. n : Is(SymbolParts, input[k])
    BY <1>0, <1>2, <1>6
  <1>8. ~ Is(SymbolParts, input[n + 1])
    <2>1. SUFFICES ASSUME Is(SymbolParts, input[n + 1]) PROVE FALSE
      OBVIOUS
    <2>. HIDE DEF n
    <2>2. \A k \in 1 .. n + 1 : k = n + 1 \/ k \in 1 .. n
      BY <1>7
    <2>3. n + 1 \in S
      BY <1>0, <1>7, <2>1, <2>2
    <2>. QED  BY <1>6, <1>7, <2>3
  <1>. QED  BY <1>7, <1>8

LEMMA ThreeFacts ==
    ASSUME Ended(input), NEW kind, NEW values, Three(kind, values)
    PROVE  /\ 3 \in 1 .. Len(input) - 1
           /\ input[1].kind = kind /\ input[2].value \in values /\ input[3].kind = "I10"
  <1>0. /\ Len(input) \in Nat \ {0} /\ tok = input[1]
        /\ \A k \in 1 .. Len(input) : LookAt(k - 2) = input[k]
        /\ \A k \in Int : k > Len(input) => LookAt(k - 2) = Eof
        /\ input[Len(input)] = Eof
    BY EndedFacts, LookAtFacts
  <1>1. LookAt(1) # Eof
    BY EofIsToken DEF Three
  <1>2. LookAt(3 - 2) = LookAt(1) /\ LookAt(2 - 2) = LookAt(0)
    OBVIOUS
  <1>3. Len(input) > 3
    BY <1>0, <1>1, <1>2
  <1>4. LookAt(1) = input[3] /\ LookAt(0) = input[2]
    BY <1>0, <1>2, <1>3
  <1>. QED  BY <1>0, <1>3, <1>4 DEF Three

\* The end of a comment, at latest the end of the input.
CommentLength == Min({n \in 2 .. Len(input) + 1 : CommentEnds(LookAt(n - 2))})

LEMMA CommentLengthFacts ==
    ASSUME Ended(input), tok.kind # "EOF"
    PROVE  CommentLength \in 2 .. Len(input)
  <1>. DEFINE S == {n \in 2 .. Len(input) + 1 : CommentEnds(LookAt(n - 2))}
  <1>0. Len(input) \in Nat /\ Len(input) > 1
    BY EndedFacts, NotLast
  <1>1. LookAt(Len(input) - 2) = Eof
    BY <1>0, LookAtFacts, EndedFacts
  <1>2. CommentEnds(Eof)
    BY EofIsToken DEF CommentEnds
  <1>3. Len(input) \in S
    BY <1>0, <1>1, <1>2
  <1>4. S \subseteq Nat
    BY <1>0
  <1>5. Min(S) \in S /\ \A x \in S : Min(S) <= x
    <2>. HIDE DEF S
    <2>. QED  BY <1>3, <1>4, MinFacts
  <1>6. CommentLength = Min(S)
    BY DEF CommentLength
  <1>7. CommentLength \in S /\ CommentLength <= Len(input)
    BY <1>3, <1>5, <1>6
  <1>. QED  BY <1>0, <1>7

LEMMA SpacesFacts ==
    ASSUME Ended(input)
    PROVE  /\ Spaces \in 0 .. Len(input) - 1
           /\ ~ IsSpace(input[Spaces + 1])
           /\ \A k \in 1 .. Spaces : IsSpace(input[k])
           /\ LookAt(Spaces - 1) = input[Spaces + 1]
  <1>. DEFINE S == {n \in 0 .. Len(input) - 1 : ~ IsSpace(input[n + 1])}
              m == Spaces
  <1>0. Len(input) \in Nat /\ Len(input) > 0 /\ input[Len(input)] = Eof
    BY EndedFacts
  <1>1. Len(input) - 1 \in S
    <2>1. ~ IsSpace(Eof)
      BY EofIsToken DEF IsSpace
    <2>. QED  BY <1>0, <2>1
  <1>2. S \subseteq Nat
    BY <1>0
  <1>3. Min(S) \in S /\ \A x \in S : Min(S) <= x
    <2>. HIDE DEF S
    <2>. QED  BY <1>1, <1>2, MinFacts
  <1>4. m = Min(S)
    BY DEF Spaces
  <1>5. m \in S /\ \A x \in S : m <= x
    BY <1>3, <1>4
  <1>. HIDE DEF m
  <1>6. m \in 0 .. Len(input) - 1 /\ ~ IsSpace(input[m + 1])
    BY <1>5
  <1>7. ASSUME NEW k \in 1 .. m PROVE IsSpace(input[k])
    <2>1. k - 1 \in 0 .. Len(input) - 1 /\ k - 1 + 1 = k /\ ~ (m <= k - 1)
      BY <1>0, <1>6
    <2>2. k - 1 \notin S
      BY <1>5, <2>1
    <2>. QED  BY <2>1, <2>2
  <1>8. LookAt(m - 1) = input[m + 1]
    <2>1. m \in Nat /\ m + 1 <= Len(input)
      BY <1>0, <1>6
    <2>. QED  BY <1>0, <2>1 DEF LookAt
  <1>. QED  BY <1>6, <1>7, <1>8 DEF m

-------------------------------------------------------------------------------
\* String literals.

LEMMA LookAhead ==
    ASSUME NEW text \in Seq(CodePoints)
    PROVE  /\ \A k \in Nat : At(text, k) # "EOF" => k <= Len(text)
           /\ \A k \in Nat : k <= Len(text) => At(text, k) = text[k]
           /\ At(text, Len(text) + 1) = "EOF"
  <1>1. Len(text) \in Nat
    BY LenProperties
  <1>. QED  BY <1>1 DEF At

LEMMA LiteralFacts ==
    /\ \A c \in HexDigits : c \notin {"EOF", Quote, Backslash}
    /\ \A c \in Blanks : c \notin {"EOF", Quote, Backslash}
  BY LiteralAssumption

\* The provers see that these differ only where they see what they are.
LEMMA CharactersDiffer ==
    /\ Quote # Backslash
    /\ \A c \in {Quote, Backslash} : c # "EOF" /\ c # ";" /\ c # "u" /\ c # "x" /\ c # "\n"
  BY Zenon DEF Quote, Backslash

LEMMA HexDigitsSeen ==
    ASSUME NEW text \in Seq(CodePoints), NEW groups, NEW p \in Nat, IsCodeUnit(text, groups, p)
    PROVE  \A j \in p .. p + 3 : j <= Len(text) /\ At(text, j) \in HexDigits
  <1>1. ASSUME NEW j \in p .. p + 3 PROVE At(text, j) \in HexDigits
    <2>1. j = p \/ j \in p + 1 .. p + 3
      OBVIOUS
    <2>. QED  BY <2>1 DEF IsCodeUnit, SeesHexDigit
  <1>2. ASSUME NEW j \in p .. p + 3 PROVE j <= Len(text)
    <2>1. j \in Nat
      OBVIOUS
    <2>2. At(text, j) \in HexDigits
      BY <1>1
    <2>3. At(text, j) # "EOF"
      BY <2>2, LiteralFacts
    <2>. QED  BY <2>1, <2>3, LookAhead
  <1>. QED  BY <1>1, <1>2

LEMMA SkipBlanksFacts ==
    ASSUME NEW text \in Seq(CodePoints), NEW p \in 1 .. Len(text) + 1
    PROVE  /\ SkipBlanks(text, p) \in p .. Len(text) + 1
           /\ \A j \in p .. SkipBlanks(text, p) - 1 : At(text, j) \in Blanks
  <1>. DEFINE S == {j \in p .. Len(text) + 1 : At(text, j) \notin Blanks}
              m == SkipBlanks(text, p)
  <1>0. Len(text) \in Nat /\ p \in Nat
    BY LenProperties
  <1>1. Len(text) + 1 \in S
    <2>1. At(text, Len(text) + 1) \notin Blanks
      BY LookAhead, LiteralFacts
    <2>. QED  BY <1>0, <2>1
  <1>2. S \subseteq Nat
    BY <1>0
  <1>3. Min(S) \in S /\ \A x \in S : Min(S) <= x
    <2>. HIDE DEF S
    <2>. QED  BY <1>1, <1>2, MinFacts
  <1>4. m = Min(S)
    BY DEF SkipBlanks
  <1>5. m \in S /\ \A x \in S : m <= x
    BY <1>3, <1>4
  <1>. HIDE DEF m
  <1>6. m \in p .. Len(text) + 1
    BY <1>5
  <1>7. ASSUME NEW j \in p .. m - 1 PROVE At(text, j) \in Blanks
    <2>1. j \in p .. Len(text) + 1 /\ ~ (m <= j)
      BY <1>0, <1>6
    <2>. QED  BY <1>5, <2>1
  <1>. QED  BY <1>6, <1>7 DEF m

\* What an escape covers: c is its letter, and none but that may be a quote or
\* a backslash, or it is one half of a pair.
LEMMA EscapeXFacts ==
    ASSUME NEW text \in Seq(CodePoints), NEW groups, NEW p \in 1 .. Len(text) + 1,
           EscapeX(text, groups, p) # Failed
    PROVE  /\ EscapeX(text, groups, p) \in p + 1 .. Len(text) + 1
           /\ \A j \in p .. EscapeX(text, groups, p) - 1 : At(text, j) \notin {Quote, Backslash}
  <1>. DEFINE S == {j \in p .. Len(text) + 1 : ~ SeesHexDigit(text, groups, j)}
              m == Min(S)
  <1>0. Len(text) \in Nat /\ p \in Nat
    BY LenProperties
  <1>1. Len(text) + 1 \in S
    <2>1. At(text, Len(text) + 1) \notin HexDigits
      BY LookAhead, LiteralFacts
    <2>. QED  BY <1>0, <2>1 DEF SeesHexDigit
  <1>2. S \subseteq Nat
    BY <1>0
  <1>3. m \in S /\ \A x \in S : m <= x
    <2>. HIDE DEF S
    <2>. QED  BY <1>1, <1>2, MinFacts
  <1>4. At(text, m) = ";" /\ EscapeX(text, groups, p) = m + 1
    BY DEF EscapeX, Failed
  <1>. HIDE DEF m
  <1>5. m \in p .. Len(text)
    <2>1. m \in Nat /\ m \in p .. Len(text) + 1
      BY <1>0, <1>3
    <2>2. m <= Len(text)
      BY <1>4, <2>1, LookAhead
    <2>. QED  BY <1>0, <2>1, <2>2
  <1>6. ASSUME NEW j \in p .. m PROVE At(text, j) \notin {Quote, Backslash}
    <2>1. CASE j = m
      BY <2>1, <1>4, CharactersDiffer
    <2>2. CASE j # m
      <3>1. j \in p .. Len(text) + 1 /\ ~ (m <= j)
        BY <1>0, <1>5, <2>2
      <3>2. SeesHexDigit(text, groups, j)
        BY <1>3, <3>1
      <3>. QED  BY <3>2, LiteralFacts DEF SeesHexDigit
    <2>. QED  BY <2>1, <2>2
  <1>. DEFINE e == EscapeX(text, groups, p)
  <1>7. e = m + 1 /\ m \in Nat /\ p <= m /\ m <= Len(text)
    <2>1. e = m + 1
      BY <1>4, Zenon
    <2>. QED  BY <1>0, <1>5, <2>1
  <1>. HIDE DEF e, S
  <1>8. e \in p + 1 .. Len(text) + 1 /\ \A j \in p .. e - 1 : j \in p .. m
    BY <1>0, <1>7
  <1>9. \A j \in p .. e - 1 : At(text, j) \notin {Quote, Backslash}
    BY <1>6, <1>8
  <1>. QED  BY <1>8, <1>9 DEF e

LEMMA EscapeUFacts ==
    ASSUME NEW text \in Seq(CodePoints), NEW groups, NEW p \in 1 .. Len(text) + 1,
           EscapeU(text, groups, p) # Failed
    PROVE  /\ EscapeU(text, groups, p) \in p + 1 .. Len(text) + 1
           /\ \A j \in p .. EscapeU(text, groups, p) - 1 : At(text, j) # Quote
           /\ At(text, EscapeU(text, groups, p) - 1) # Backslash
  <1>. DEFINE r == EscapeU(text, groups, p)
  <1>0. Len(text) \in Nat /\ p \in Nat
    BY LenProperties
  <1>1. IsCodeUnit(text, groups, p)
    <2>. HIDE DEF r
    <2>1. ~ IsCodeUnit(text, groups, p) => EscapeU(text, groups, p) = Failed
      BY Zenon DEF EscapeU
    <2>. QED  BY <2>1
  <1>2. \/ r = p + 4
        \/ r = p + 10 /\ EndsPair(text, groups, p + 4)
    BY <1>1 DEF EscapeU
  <1>. HIDE DEF r
  <1>3. \A j \in p .. p + 3 : j <= Len(text) /\ At(text, j) \in HexDigits
    BY <1>0, <1>1, HexDigitsSeen
  <1>4. \A j \in p .. p + 3 : At(text, j) \notin {Quote, Backslash}
    BY <1>3, LiteralFacts
  <1>5. CASE r = p + 4
    <2>1. p + 3 <= Len(text)
      BY <1>0, <1>3
    <2>2. r \in p + 1 .. Len(text) + 1 /\ r - 1 \in p .. p + 3 /\ \A j \in p .. r - 1 : j \in p .. p + 3
      BY <1>0, <1>5, <2>1
    <2>. QED  BY <1>4, <2>2 DEF r
  <1>6. CASE r = p + 10 /\ EndsPair(text, groups, p + 4)
    <2>1. IsCodeUnit(text, groups, p + 6) /\ At(text, p + 4) = Backslash /\ At(text, p + 5) = "u"
      <3>1. p + 4 + 2 = p + 6 /\ p + 4 + 1 = p + 5
        BY <1>0
      <3>. QED  BY <1>6, <3>1 DEF EndsPair
    <2>2. \A j \in p + 6 .. p + 6 + 3 : j <= Len(text) /\ At(text, j) \in HexDigits
      <3>1. p + 6 \in Nat
        BY <1>0
      <3>. QED  BY <2>1, <3>1, HexDigitsSeen
    <2>3. \A j \in p + 6 .. p + 6 + 3 : At(text, j) \notin {Quote, Backslash}
      BY <2>2, LiteralFacts
    <2>4. p + 9 <= Len(text)
      BY <1>0, <2>2
    <2>5. /\ r \in p + 1 .. Len(text) + 1 /\ r - 1 \in p + 6 .. p + 6 + 3
          /\ \A j \in p .. r - 1 : \/ j \in p .. p + 3 \/ j = p + 4 \/ j = p + 5
                                   \/ j \in p + 6 .. p + 6 + 3
      BY <1>0, <1>6, <2>4
    <2>6. ASSUME NEW j \in p .. r - 1 PROVE At(text, j) # Quote
      BY <1>4, <2>1, <2>3, <2>5, CharactersDiffer
    <2>. QED  BY <2>3, <2>5, <2>6 DEF r
  <1>. QED  BY <1>2, <1>5, <1>6

LEMMA EscapeBlankFacts ==
    ASSUME NEW text \in Seq(CodePoints), NEW p \in 1 .. Len(text) + 1,
           EscapeBlank(text, p) # Failed
    PROVE  /\ EscapeBlank(text, p) \in p + 1 .. Len(text) + 1
           /\ \A j \in p .. EscapeBlank(text, p) - 1 : At(text, j) \notin {Quote, Backslash}
  <1>. DEFINE m == SkipBlanks(text, p)
              r == EscapeBlank(text, p)
  <1>0. Len(text) \in Nat /\ p \in Nat
    BY LenProperties
  <1>1. At(text, m) = "\n" /\ r = SkipBlanks(text, m + 1)
    BY Zenon DEF EscapeBlank
  <1>2. m \in p .. Len(text) + 1 /\ \A j \in p .. m - 1 : At(text, j) \in Blanks
    BY SkipBlanksFacts
  <1>. HIDE DEF m
  <1>3. m \in p .. Len(text)
    <2>1. m \in Nat /\ At(text, m) # "EOF"
      BY <1>0, <1>1, <1>2
    <2>2. m <= Len(text)
      BY <2>1, LookAhead
    <2>. QED  BY <1>0, <1>2, <2>2
  <1>. DEFINE q == m + 1
  <1>4. q \in 1 .. Len(text) + 1
    BY <1>0, <1>3
  <1>5. r = SkipBlanks(text, q)
    BY <1>1, Zenon
  <1>. HIDE DEF q, r
  <1>6. r \in q .. Len(text) + 1 /\ \A j \in q .. r - 1 : At(text, j) \in Blanks
    BY <1>4, <1>5, SkipBlanksFacts
  <1>7. q = m + 1
    BY DEF q
  <1>8. /\ r \in p + 1 .. Len(text) + 1
        /\ \A j \in p .. r - 1 : j \in p .. m - 1 \/ j = m \/ j \in q .. r - 1
    BY <1>0, <1>3, <1>4, <1>6, <1>7
  <1>9. ASSUME NEW j \in p .. r - 1 PROVE At(text, j) \notin {Quote, Backslash}
    BY <1>1, <1>2, <1>6, <1>8, LiteralFacts, CharactersDiffer
  <1>. QED  BY <1>8, <1>9 DEF r

\* An escape ends with no backslash, unless it is one.
LEMMA EscapeFacts ==
    ASSUME NEW text \in Seq(CodePoints), NEW groups, NEW p \in 1 .. Len(text) + 1,
           Escape(text, groups, p) # Failed
    PROVE  /\ Escape(text, groups, p) \in p + 1 .. Len(text) + 1
           /\ \A j \in p + 1 .. Escape(text, groups, p) - 1 : At(text, j) # Quote
           /\ \/ Escape(text, groups, p) = p + 1
              \/ At(text, Escape(text, groups, p) - 1) # Backslash
  <1>. DEFINE r == Escape(text, groups, p)
              c == At(text, p)
  <1>0. Len(text) \in Nat /\ p \in Nat
    BY LenProperties
  <1>1. \/ c = "x" /\ r = EscapeX(text, groups, p + 1)
        \/ c = "u" /\ r = EscapeU(text, groups, p + 1)
        \/ c = "\n" /\ r = SkipBlanks(text, p + 1)
        \/ c \in Blanks /\ r = EscapeBlank(text, p)
        \/ c \in SimpleEscapes /\ r = p + 1
    BY DEF Escape
  <1>2. c # "EOF"
    <2>1. c \in {"x", "u", "\n"} \cup Blanks \cup SimpleEscapes
      BY <1>1
    <2>2. SimpleEscapes = {Quote, Backslash, "|", "a", "b", "t", "n", "r", "v", "f"}
      BY DEF SimpleEscapes
    <2>. HIDE DEF c
    <2>. QED  BY <2>1, <2>2, LiteralFacts, CharactersDiffer
  <1>3. p <= Len(text)
    BY <1>0, <1>2, LookAhead
  <1>. DEFINE q == p + 1
  <1>4. q \in 1 .. Len(text) + 1 /\ q = p + 1
    BY <1>0, <1>3
  <1>5. r # Failed
    OBVIOUS
  <1>. HIDE DEF q, r, c
  <1>6. CASE c = "x" /\ r = EscapeX(text, groups, q)
    <2>1. r \in q + 1 .. Len(text) + 1 /\ \A j \in q .. r - 1 : At(text, j) \notin {Quote, Backslash}
      BY <1>4, <1>5, <1>6, EscapeXFacts
    <2>2. r \in p + 1 .. Len(text) + 1 /\ r - 1 \in q .. r - 1
      <3>1. q \in Nat /\ r \in Nat /\ q + 1 <= r /\ r <= Len(text) + 1
        BY <1>0, <1>4, <2>1
      <3>. QED  BY <1>0, <1>4, <3>1
    <2>. QED  BY <1>4, <2>1, <2>2 DEF r
  <1>7. CASE c = "u" /\ r = EscapeU(text, groups, q)
    <2>1. /\ r \in q + 1 .. Len(text) + 1 /\ \A j \in q .. r - 1 : At(text, j) # Quote
          /\ At(text, r - 1) # Backslash
      BY <1>4, <1>5, <1>7, EscapeUFacts
    <2>2. r \in p + 1 .. Len(text) + 1
      <3>1. q \in Nat /\ r \in Nat /\ q + 1 <= r /\ r <= Len(text) + 1
        BY <1>0, <1>4, <2>1
      <3>. QED  BY <1>0, <1>4, <3>1
    <2>. QED  BY <1>4, <2>1, <2>2 DEF r
  <1>8. CASE c = "\n" /\ r = SkipBlanks(text, q)
    <2>1. r \in q .. Len(text) + 1 /\ \A j \in q .. r - 1 : At(text, j) \in Blanks
      BY <1>4, <1>8, SkipBlanksFacts
    <2>2. \A j \in q .. r - 1 : At(text, j) \notin {Quote, Backslash}
      BY <2>1, LiteralFacts
    <2>3. r \in p + 1 .. Len(text) + 1 /\ (r = p + 1 \/ r - 1 \in q .. r - 1)
      BY <1>0, <1>4, <2>1
    <2>. QED  BY <1>4, <2>2, <2>3 DEF r
  <1>9. CASE c \in Blanks /\ r = EscapeBlank(text, p)
    <2>1. r \in p + 1 .. Len(text) + 1 /\ \A j \in p .. r - 1 : At(text, j) \notin {Quote, Backslash}
      BY <1>5, <1>9, EscapeBlankFacts
    <2>2. r - 1 \in p .. r - 1 /\ \A j \in p + 1 .. r - 1 : j \in p .. r - 1
      <3>1. r \in Nat /\ p + 1 <= r
        BY <1>0, <2>1
      <3>. QED  BY <1>0, <3>1
    <2>. QED  BY <2>1, <2>2 DEF r
  <1>10. CASE c \in SimpleEscapes /\ r = q
    <2>1. r \in p + 1 .. Len(text) + 1 /\ ~ \E j \in p + 1 .. r - 1 : TRUE
      BY <1>0, <1>3, <1>4, <1>10
    <2>. QED  BY <1>4, <1>10, <2>1 DEF r
  <1>. QED  BY <1>1, <1>4, <1>6, <1>7, <1>8, <1>9, <1>10 DEF c, r

\* A place that is scanned, of the function of Closing.
Scanned(f, text, groups, p) ==
    CASE At(text, p) = "EOF" -> <<Failed, p>>
      [] At(text, p) = Quote -> <<p, p>>
      [] At(text, p) = Backslash ->
           LET after == Escape(text, groups, p + 1)
           IN  IF after = Failed THEN <<Failed, p>> ELSE f[after]
      [] OTHER -> f[p + 1]

\* Scanning goes on to a place ahead.
LEMMA ScansAhead ==
    ASSUME NEW text \in Seq(CodePoints), NEW groups, NEW p \in 1 .. Len(text) + 1
    PROVE  /\ At(text, p) # "EOF" => p + 1 \in 1 .. Len(text) + 1
           /\ p + 1 \in 1 .. Len(text) + 1 /\ Escape(text, groups, p + 1) # Failed
                => Escape(text, groups, p + 1) \in p + 2 .. Len(text) + 1
  <1>0. Len(text) \in Nat /\ p \in Nat
    BY LenProperties
  <1>1. At(text, p) # "EOF" => p <= Len(text)
    BY <1>0, LookAhead
  <1>. DEFINE q == p + 1
  <1>2. ASSUME q \in 1 .. Len(text) + 1, Escape(text, groups, q) # Failed
        PROVE  Escape(text, groups, q) \in p + 2 .. Len(text) + 1
    <2>1. q + 1 = p + 2
      BY <1>0
    <2>. HIDE DEF q
    <2>2. Escape(text, groups, q) \in q + 1 .. Len(text) + 1
      BY <1>2, EscapeFacts
    <2>. QED  BY <2>1, <2>2
  <1>. QED  BY <1>0, <1>1, <1>2

\* A function that agrees with another ahead of a place scans the same there.
LEMMA ScannedSame ==
    ASSUME NEW text \in Seq(CodePoints), NEW groups, NEW p \in 1 .. Len(text) + 1,
           NEW f, NEW g, \A k \in p + 1 .. Len(text) + 1 : f[k] = g[k]
    PROVE  Scanned(f, text, groups, p) = Scanned(g, text, groups, p)
  <1>0. Len(text) \in Nat /\ p \in Nat
    BY LenProperties
  <1>. DEFINE q == p + 1
              after == Escape(text, groups, q)
  <1>1. CASE At(text, p) = "EOF"
    BY <1>1, CharactersDiffer DEF Scanned
  <1>2. CASE At(text, p) # "EOF"
    <2>1. q \in 1 .. Len(text) + 1 /\ q \in p + 1 .. Len(text) + 1
      <3>1. q \in 1 .. Len(text) + 1
        BY <1>2, ScansAhead
      <3>. QED  BY <1>0, <3>1
    <2>2. after # Failed => after \in p + 1 .. Len(text) + 1
      <3>1. after # Failed => after \in p + 2 .. Len(text) + 1
        BY <2>1, ScansAhead
      <3>. HIDE DEF after
      <3>. QED  BY <1>0, <3>1
    <2>3. f[q] = g[q] /\ (after # Failed => f[after] = g[after])
      <3>. HIDE DEF after, q
      <3>. QED  BY <2>1, <2>2
    <2>4. (IF after = Failed THEN <<Failed, p>> ELSE f[after])
            = (IF after = Failed THEN <<Failed, p>> ELSE g[after])
      BY <2>3, Zenon
    <2>5. At(text, p) = Backslash => Scanned(f, text, groups, p) = Scanned(g, text, groups, p)
      <3>. SUFFICES ASSUME At(text, p) = Backslash
                    PROVE  Scanned(f, text, groups, p) = Scanned(g, text, groups, p)
        OBVIOUS
      <3>1. At(text, p) # Quote /\ At(text, p) # "EOF"
        BY CharactersDiffer
      <3>2. Scanned(f, text, groups, p) = IF after = Failed THEN <<Failed, p>> ELSE f[after]
        BY <3>1 DEF Scanned
      <3>3. Scanned(g, text, groups, p) = IF after = Failed THEN <<Failed, p>> ELSE g[after]
        BY <3>1 DEF Scanned
      <3>. QED  BY <3>2, <3>3, <2>4
    <2>6. At(text, p) = Quote => Scanned(f, text, groups, p) = Scanned(g, text, groups, p)
      <3>. SUFFICES ASSUME At(text, p) = Quote
                    PROVE  Scanned(f, text, groups, p) = Scanned(g, text, groups, p)
        OBVIOUS
      <3>1. At(text, p) # Backslash /\ At(text, p) # "EOF"
        BY CharactersDiffer
      <3>. QED  BY <3>1 DEF Scanned
    <2>7. At(text, p) \notin {Quote, Backslash} =>
            Scanned(f, text, groups, p) = Scanned(g, text, groups, p)
      <3>. SUFFICES ASSUME At(text, p) \notin {Quote, Backslash}
                    PROVE  Scanned(f, text, groups, p) = Scanned(g, text, groups, p)
        OBVIOUS
      <3>1. Scanned(f, text, groups, p) = f[q] /\ Scanned(g, text, groups, p) = g[q]
        BY <1>2 DEF Scanned
      <3>. QED  BY <3>1, <2>3
    <2>. QED  BY <2>5, <2>6, <2>7
  <1>. QED  BY <1>1, <1>2

\* There is such a function.
LEMMA ScanExists ==
    ASSUME NEW text \in Seq(CodePoints), NEW groups
    PROVE  \E f : f = [p \in 2 .. Len(text) + 1 |-> Scanned(f, text, groups, p)]
  <1>. DEFINE L == Len(text) + 1
              Holds(f, n) == \A p \in L - n .. L : f[p] = Scanned(f, text, groups, p)
              S == {n \in 0 .. L : n < L => \E f : Holds(f, n)}
  <1>0. Len(text) \in Nat /\ L \in Nat \ {0}
    BY LenProperties
  <1>1. 0 \in S
    <2>. DEFINE f == [p \in L .. L |-> <<Failed, p>>]
    <2>1. At(text, L) = "EOF"
      BY LookAhead
    <2>2. Scanned(f, text, groups, L) = <<Failed, L>>
      <3>1. At(text, L) # Quote /\ At(text, L) # Backslash
        BY <2>1, CharactersDiffer
      <3>. HIDE DEF f, L
      <3>. QED  BY <2>1, <3>1 DEF Scanned
    <2>3. f[L] = <<Failed, L>>
      BY <1>0
    <2>. HIDE DEF f, L
    <2>4. \A p \in L - 0 .. L : p = L
      BY <1>0
    <2>5. Holds(f, 0)
      BY <2>2, <2>3, <2>4
    <2>. HIDE DEF Holds
    <2>. QED  BY <1>0, <2>5
  <1>2. ASSUME NEW n \in 0 .. L - 1, n \in S PROVE n + 1 \in S
    <2>. HIDE DEF L
    <2>. SUFFICES ASSUME n + 1 < L PROVE \E f : Holds(f, n + 1)
      BY <1>0 DEF S
    <2>1. PICK f : Holds(f, n)
      BY <1>0, <1>2
    <2>. DEFINE p0 == L - (n + 1)
                g == [p \in p0 .. L |-> IF p = p0 THEN Scanned(f, text, groups, p0) ELSE f[p]]
    <2>2. p0 \in 1 .. L /\ p0 + 1 = L - n /\ p0 \in p0 .. L
      BY <1>0
    <2>3. \A k \in p0 + 1 .. L : f[k] = g[k]
      BY <1>0, <2>2
    <2>4. g[p0] = Scanned(f, text, groups, p0)
      BY <2>2
    <2>. HIDE DEF g, p0
    <2>5. ASSUME NEW p \in p0 .. L PROVE Scanned(f, text, groups, p) = Scanned(g, text, groups, p)
      <3>1. p \in 1 .. Len(text) + 1
        BY <1>0, <2>2 DEF L
      <3>2. \A k \in p + 1 .. Len(text) + 1 : f[k] = g[k]
        BY <1>0, <2>2, <2>3 DEF L
      <3>. QED  BY <3>1, <3>2, ScannedSame
    <2>6. ASSUME NEW p \in p0 .. L PROVE g[p] = Scanned(g, text, groups, p)
      <3>1. CASE p = p0
        BY <2>4, <2>5, <3>1
      <3>2. CASE p # p0
        <4>1. p \in p0 + 1 .. L /\ p \in L - n .. L
          BY <1>0, <2>2, <3>2
        <4>2. f[p] = Scanned(f, text, groups, p)
          BY <2>1, <4>1
        <4>. QED  BY <2>3, <2>5, <4>1, <4>2
      <3>. QED  BY <3>1, <3>2
    <2>. QED  BY <2>6 DEF p0
  <1>3. \A n \in 0 .. L : n \in S
    <2>. HIDE DEF S, L
    <2>. QED  BY <1>0, <1>1, <1>2, InductionUpTo
  <1>4. L - 1 \in S
    <2>. HIDE DEF S, L
    <2>. QED  BY <1>0, <1>3
  <1>5. PICK f : Holds(f, L - 1)
    <2>. HIDE DEF Holds, L
    <2>. QED  BY <1>0, <1>4
  <1>6. \A p \in 1 .. Len(text) + 1 : f[p] = Scanned(f, text, groups, p)
    <2>1. \A p \in 1 .. L : p \in L - (L - 1) .. L
      BY <1>0
    <2>. HIDE DEF L
    <2>2. \A p \in 1 .. L : f[p] = Scanned(f, text, groups, p)
      BY <1>5, <2>1
    <2>. QED  BY <2>2 DEF L
  <1>. DEFINE h == [p \in 2 .. Len(text) + 1 |-> f[p]]
  <1>7. ASSUME NEW p \in 2 .. Len(text) + 1
        PROVE  f[p] = Scanned(h, text, groups, p)
    <2>1. p \in 1 .. Len(text) + 1 /\ \A k \in p + 1 .. Len(text) + 1 : f[k] = h[k]
      BY <1>0
    <2>. HIDE DEF h
    <2>2. Scanned(f, text, groups, p) = Scanned(h, text, groups, p)
      BY <2>1, ScannedSame
    <2>. QED  BY <1>6, <2>1, <2>2
  <1>8. [p \in 2 .. Len(text) + 1 |-> f[p]] = [p \in 2 .. Len(text) + 1 |-> Scanned(h, text, groups, p)]
    <2>. HIDE DEF h
    <2>. QED  BY <1>7, Zenon
  <1>. QED  BY <1>8, Zenon

LEMMA ClosingScans ==
    ASSUME NEW text \in Seq(CodePoints), NEW groups
    PROVE  \E f : /\ Closing(text, groups) = f[2]
                  /\ \A p \in 2 .. Len(text) + 1 : f[p] = Scanned(f, text, groups, p)
  <1>. DEFINE IsScan(f) == f = [p \in 2 .. Len(text) + 1 |-> Scanned(f, text, groups, p)]
              f == CHOOSE f : IsScan(f)
  <1>1. \E g : IsScan(g)
    BY ScanExists
  <1>2. IsScan(f)
    <2>. HIDE DEF IsScan
    <2>. QED  BY <1>1, Zenon
  <1>3. Closing(text, groups) = f[2]
    BY Zenon DEF Closing, Scanned
  <1>4. \A p \in 2 .. Len(text) + 1 : f[p] = Scanned(f, text, groups, p)
    <2>. HIDE DEF f
    <2>. QED  BY <1>2
  <1>. HIDE DEF f
  <1>. QED  BY <1>3, <1>4

\* The last place before a place where there is no backslash.
Others(v, p) == {j \in 0 .. p - 1 : j = 0 \/ v[j] # Backslash}

LEMMA BackslashesIs ==
    ASSUME NEW v, NEW p \in Nat \ {0}
    PROVE  /\ Max(Others(v, p)) \in Others(v, p)
           /\ \A j \in Others(v, p) : j <= Max(Others(v, p))
           /\ Backslashes(v, p) = p - 1 - Max(Others(v, p))
  <1>1. Others(v, p) \subseteq 0 .. p - 1 /\ p - 1 \in Nat /\ 0 \in Others(v, p)
    BY DEF Others
  <1>2. Max(Others(v, p)) \in Others(v, p) /\ \A j \in Others(v, p) : j <= Max(Others(v, p))
    BY <1>1, MaxFacts
  <1>3. Backslashes(v, p) = p - 1 - Max(Others(v, p))
    BY DEF Backslashes, Others
  <1>. QED  BY <1>2, <1>3

LEMMA BackslashesFacts ==
    ASSUME NEW v, NEW p \in Nat \ {0}
    PROVE  /\ Backslashes(v, p) \in Nat
           /\ Backslashes(v, 1) = 0
           /\ v[p] = Backslash => Backslashes(v, p + 1) = Backslashes(v, p) + 1
           /\ v[p] # Backslash => Backslashes(v, p + 1) = 0
  <1>0. PICK q \in Nat \ {0} : q = p + 1
    OBVIOUS
  <1>. DEFINE a == Max(Others(v, p))
              b == Max(Others(v, q))
              c == Max(Others(v, 1))
  <1>1. \A k \in Nat : \A j : j \in Others(v, k) <=> j \in 0 .. k - 1 /\ (j = 0 \/ v[j] # Backslash)
    BY DEF Others
  <1>2. a \in Others(v, p) /\ (\A j \in Others(v, p) : j <= a) /\ Backslashes(v, p) = p - 1 - a
    BY BackslashesIs
  <1>3. b \in Others(v, q) /\ (\A j \in Others(v, q) : j <= b) /\ Backslashes(v, q) = q - 1 - b
    BY BackslashesIs
  <1>4. c \in Others(v, 1) /\ Backslashes(v, 1) = 1 - 1 - c
    BY BackslashesIs
  <1>. HIDE DEF a, b, c
  <1>5. Backslashes(v, p) \in Nat
    BY <1>1, <1>2
  <1>6. Backslashes(v, 1) = 0
    BY <1>1, <1>4
  <1>7. ASSUME v[p] = Backslash PROVE Backslashes(v, q) = Backslashes(v, p) + 1
    <2>1. b # p /\ b \in 0 .. p
      BY <1>0, <1>1, <1>3, <1>7
    <2>2. b \in Others(v, p) /\ a \in Others(v, q)
      BY <1>0, <1>1, <1>2, <1>3, <2>1
    <2>3. a = b
      BY <1>0, <1>1, <1>2, <1>3, <2>1, <2>2
    <2>. QED  BY <1>0, <1>1, <1>2, <1>3, <2>1, <2>3
  <1>8. ASSUME v[p] # Backslash PROVE Backslashes(v, q) = 0
    <2>1. p \in Others(v, q)
      BY <1>0, <1>1, <1>8
    <2>2. b = p
      BY <1>0, <1>1, <1>3, <2>1
    <2>. QED  BY <1>0, <1>3, <2>2
  <1>. QED  BY <1>0, <1>5, <1>6, <1>7, <1>8, Zenon

\* It depends on what is before the place alone.
LEMMA BackslashesBefore ==
    ASSUME NEW v, NEW w, NEW p \in Nat \ {0}, \A j \in 1 .. p - 1 : v[j] = w[j]
    PROVE  Backslashes(v, p) = Backslashes(w, p)
  <1>1. {j \in 0 .. p - 1 : j = 0 \/ v[j] # Backslash} = {j \in 0 .. p - 1 : j = 0 \/ w[j] # Backslash}
    OBVIOUS
  <1>. QED  BY <1>1 DEF Backslashes

\* Quotes that are none by an escape.
Open(text, p) == text[p] = Quote /\ Backslashes(text, p) % 2 = 0

LEMMA EvenAfterEscape ==
    ASSUME NEW text \in Seq(CodePoints), NEW groups, NEW p \in 1 .. Len(text),
           text[p] = Backslash, Backslashes(text, p) % 2 = 0,
           Escape(text, groups, p + 1) # Failed
    PROVE  LET after == Escape(text, groups, p + 1) IN
              /\ after \in p + 2 .. Len(text) + 1
              /\ Backslashes(text, after) % 2 = 0
              /\ \A k \in p .. after - 1 : ~ Open(text, k)
  <1>. DEFINE after == Escape(text, groups, p + 1)
              q == p + 1
  <1>0. Len(text) \in Nat /\ p \in Nat /\ q \in 1 .. Len(text) + 1
    BY LenProperties
  <1>1. /\ after \in q + 1 .. Len(text) + 1
        /\ \A j \in q + 1 .. after - 1 : At(text, j) # Quote
        /\ after = q + 1 \/ At(text, after - 1) # Backslash
    <2>1. after = Escape(text, groups, q)
      OBVIOUS
    <2>. HIDE DEF q
    <2>. QED  BY <1>0, <2>1, EscapeFacts
  <1>2. q = p + 1
    OBVIOUS
  <1>. HIDE DEF after, q
  <1>3. after \in Nat /\ after >= p + 2 /\ after <= Len(text) + 1
    BY <1>0, <1>1, <1>2
  <1>4. \A j \in 1 .. Len(text) : At(text, j) = text[j]
    BY <1>0, LookAhead
  <1>5. /\ Backslashes(text, p) \in Nat /\ Backslashes(text, q) = Backslashes(text, p) + 1
        /\ Backslashes(text, q) % 2 = 1
    <2>1. Backslashes(text, p) \in Nat /\ Backslashes(text, q) = Backslashes(text, p) + 1
      BY <1>0, <1>2, BackslashesFacts
    <2>. QED  BY <2>1
  <1>6. Backslashes(text, after) % 2 = 0
    <2>1. CASE after = q + 1
      <3>1. \/ Backslashes(text, after) = Backslashes(text, q) + 1
            \/ Backslashes(text, after) = 0
        BY <1>0, <1>2, <2>1, BackslashesFacts, SMTT(30)
      <3>. QED  BY <1>5, <3>1
    <2>2. CASE At(text, after - 1) # Backslash
      <3>. DEFINE m == after - 1
      <3>1. m \in Nat \ {0} /\ m \in 1 .. Len(text) /\ m + 1 = after
        BY <1>0, <1>3
      <3>. HIDE DEF m
      <3>2. text[m] # Backslash
        BY <1>4, <2>2, <3>1 DEF m
      <3>3. Backslashes(text, m + 1) = 0
        BY <3>1, <3>2, BackslashesFacts
      <3>. QED  BY <3>1, <3>3
    <2>. QED  BY <1>1, <2>1, <2>2
  <1>7. ASSUME NEW k \in p .. after - 1 PROVE ~ Open(text, k)
    <2>1. CASE k = p
      BY <2>1, CharactersDiffer DEF Open
    <2>2. CASE k = q
      BY <1>5, <2>2 DEF Open
    <2>3. CASE k # p /\ k # q
      <3>1. k \in q + 1 .. after - 1 /\ k \in 1 .. Len(text)
        BY <1>0, <1>2, <1>3, <2>3
      <3>. QED  BY <1>1, <1>4, <3>1 DEF Open
    <2>. QED  BY <2>1, <2>2, <2>3
  <1>8. after \in p + 2 .. Len(text) + 1
    BY <1>0, <1>3
  <1>. QED  BY <1>6, <1>7, <1>8 DEF after, q

\* What a scan that begins at a place comes to.
Good(f, text, p) ==
    Backslashes(text, p) % 2 = 0 /\ f[p][1] # Failed =>
       /\ f[p][1] \in p .. Len(text)
       /\ Open(text, f[p][1])
       /\ \A k \in p .. f[p][1] - 1 : ~ Open(text, k)

LEMMA GoodFurther ==
    ASSUME NEW text \in Seq(CodePoints), NEW f, NEW p \in Nat, NEW q \in Nat, p < q,
           Backslashes(text, q) % 2 = 0, f[p] = f[q],
           \A k \in p .. q - 1 : ~ Open(text, k), Good(f, text, q)
    PROVE  Good(f, text, p)
  <1>. SUFFICES ASSUME f[p][1] # Failed
                PROVE  /\ f[p][1] \in p .. Len(text)
                       /\ Open(text, f[p][1])
                       /\ \A k \in p .. f[p][1] - 1 : ~ Open(text, k)
    BY DEF Good
  <1>. DEFINE r == f[p][1]
  <1>0. Len(text) \in Nat
    BY LenProperties
  <1>1. r = f[q][1] /\ f[q][1] # Failed
    OBVIOUS
  <1>2. /\ f[q][1] \in q .. Len(text) /\ Open(text, f[q][1])
        /\ \A k \in q .. f[q][1] - 1 : ~ Open(text, k)
    BY <1>1 DEF Good
  <1>3. r \in q .. Len(text) /\ Open(text, r) /\ \A k \in q .. r - 1 : ~ Open(text, k)
    BY <1>1, <1>2
  <1>. HIDE DEF r
  <1>4. r \in p .. Len(text) /\ \A k \in p .. r - 1 : k \in p .. q - 1 \/ k \in q .. r - 1
    BY <1>0, <1>3
  <1>. QED  BY <1>3, <1>4 DEF r

LEMMA GoodStep ==
    ASSUME NEW text \in Seq(CodePoints), NEW groups, NEW f,
           \A p \in 2 .. Len(text) + 1 : f[p] = Scanned(f, text, groups, p),
           NEW p \in 2 .. Len(text) + 1,
           \A k \in p + 1 .. Len(text) + 1 : Good(f, text, k)
    PROVE  Good(f, text, p)
  <1>0. Len(text) \in Nat /\ p \in Nat /\ p \in 1 .. Len(text) + 1
    BY LenProperties
  <1>1. f[p] = Scanned(f, text, groups, p)
    OBVIOUS
  <1>2. CASE At(text, p) = "EOF"
    <2>1. At(text, p) # Quote /\ At(text, p) # Backslash
      BY <1>2, CharactersDiffer
    <2>2. f[p] = <<Failed, p>>
      BY <1>1, <1>2, <2>1 DEF Scanned
    <2>3. f[p][1] = Failed
      BY <2>2
    <2>. QED  BY <2>3 DEF Good
  <1>3. ASSUME At(text, p) # "EOF" PROVE p \in 1 .. Len(text) /\ At(text, p) = text[p]
    BY <1>0, <1>3, LookAhead
  <1>4. CASE At(text, p) = Quote
    <2>1. At(text, p) # "EOF" /\ At(text, p) # Backslash
      BY <1>4, CharactersDiffer
    <2>2. f[p] = <<p, p>>
      BY <1>1, <1>4, <2>1 DEF Scanned
    <2>3. f[p][1] = p
      BY <2>2
    <2>4. p \in 1 .. Len(text) /\ text[p] = Quote
      BY <1>3, <1>4, <2>1
    <2>. QED  BY <1>0, <2>3, <2>4 DEF Good, Open
  <1>. DEFINE after == Escape(text, groups, p + 1)
  <1>5. CASE At(text, p) = Backslash
    <2>1. At(text, p) # "EOF" /\ At(text, p) # Quote
      BY <1>5, CharactersDiffer
    <2>2. f[p] = IF after = Failed THEN <<Failed, p>> ELSE f[after]
      BY <1>1, <1>5, <2>1 DEF Scanned
    <2>3. p \in 1 .. Len(text) /\ text[p] = Backslash
      BY <1>3, <1>5, <2>1
    <2>4. CASE after = Failed
      <3>1. f[p][1] = Failed
        BY <2>2, <2>4
      <3>. QED  BY <3>1 DEF Good
    <2>5. CASE after # Failed
      <3>. SUFFICES ASSUME Backslashes(text, p) % 2 = 0 PROVE Good(f, text, p)
        BY DEF Good
      <3>1. /\ after \in p + 2 .. Len(text) + 1
            /\ Backslashes(text, after) % 2 = 0
            /\ \A k \in p .. after - 1 : ~ Open(text, k)
        BY <2>3, <2>5, EvenAfterEscape
      <3>2. f[p] = f[after]
        BY <2>2, <2>5
      <3>. HIDE DEF after
      <3>3. after \in Nat /\ p < after /\ after \in p + 1 .. Len(text) + 1
        BY <1>0, <3>1
      <3>. QED  BY <1>0, <3>1, <3>2, <3>3, GoodFurther
    <2>. QED  BY <2>4, <2>5
  <1>6. CASE At(text, p) \notin {"EOF", Quote, Backslash}
    <2>. SUFFICES ASSUME Backslashes(text, p) % 2 = 0 PROVE Good(f, text, p)
      BY DEF Good
    <2>1. PICK q \in Nat : q = p + 1
      BY <1>0
    <2>2. f[p] = f[q]
      BY <1>1, <1>6, <2>1 DEF Scanned
    <2>3. p \in 1 .. Len(text) /\ text[p] # Quote /\ text[p] # Backslash
      BY <1>3, <1>6
    <2>4. Backslashes(text, p + 1) = 0
      BY <1>0, <2>3, BackslashesFacts
    <2>5. Backslashes(text, q) = 0
      BY <2>1, <2>4
    <2>6. \A k \in p .. q - 1 : ~ Open(text, k)
      BY <1>0, <2>1, <2>3 DEF Open
    <2>7. p < q /\ q \in p + 1 .. Len(text) + 1 /\ Backslashes(text, q) % 2 = 0
      BY <1>0, <2>1, <2>3, <2>5
    <2>. QED  BY <1>0, <2>2, <2>6, <2>7, GoodFurther
  <1>. QED  BY <1>2, <1>4, <1>5, <1>6

LEMMA ClosingFacts ==
    ASSUME NEW text \in Seq(CodePoints), NEW groups,
           Len(text) > 0, text[1] = Quote, Closing(text, groups)[1] # Failed
    PROVE  /\ Closing(text, groups)[1] \in 2 .. Len(text)
           /\ \A k \in 1 .. Closing(text, groups)[1] :
                 Open(text, k) <=> k = 1 \/ k = Closing(text, groups)[1]
  <1>. DEFINE L == Len(text) + 1
  <1>0. Len(text) \in Nat /\ L \in Nat /\ L >= 2
    BY LenProperties
  <1>1. PICK f : /\ Closing(text, groups) = f[2]
                 /\ \A p \in 2 .. Len(text) + 1 : f[p] = Scanned(f, text, groups, p)
    BY ClosingScans
  <1>. DEFINE S == {n \in Nat : \A p \in 2 .. L : p >= L - n => Good(f, text, p)}
  <1>2. 0 \in S
    <2>1. ASSUME NEW p \in 2 .. L, p >= L - 0 PROVE Good(f, text, p)
      <3>1. p \in 2 .. Len(text) + 1 /\ ~ \E k \in p + 1 .. Len(text) + 1 : TRUE
        BY <1>0, <2>1
      <3>. QED  BY <1>1, <3>1, GoodStep
    <2>. QED  BY <2>1
  <1>3. ASSUME NEW n \in Nat, n \in S PROVE n + 1 \in S
    <2>1. ASSUME NEW p \in 2 .. L, p >= L - (n + 1) PROVE Good(f, text, p)
      <3>1. \A k \in p + 1 .. Len(text) + 1 : k \in 2 .. L /\ k >= L - n
        BY <1>0, <2>1
      <3>2. \A k \in p + 1 .. Len(text) + 1 : Good(f, text, k)
        BY <1>3, <3>1
      <3>3. p \in 2 .. Len(text) + 1
        OBVIOUS
      <3>. QED  BY <1>1, <3>2, <3>3, GoodStep
    <2>. QED  BY <2>1
  <1>4. \A n \in Nat : n \in S
    <2>. HIDE DEF S
    <2>. QED  BY <1>2, <1>3, Induction
  <1>5. Good(f, text, 2)
    <2>1. L \in S
      <3>. HIDE DEF S, L
      <3>. QED  BY <1>0, <1>4
    <2>. QED  BY <1>0, <2>1
  <1>6. Backslashes(text, 1) = 0 /\ Backslashes(text, 2) = 0
    <2>1. text[1] # Backslash
      BY CharactersDiffer
    <2>2. Backslashes(text, 1) = 0 /\ Backslashes(text, 1 + 1) = 0
      BY <2>1, BackslashesFacts
    <2>. QED  BY <2>2
  <1>. DEFINE r == Closing(text, groups)[1]
  <1>7. r = f[2][1] /\ f[2][1] # Failed /\ Backslashes(text, 2) % 2 = 0
    BY <1>1, <1>6
  <1>8. r \in 2 .. Len(text) /\ Open(text, r) /\ \A k \in 2 .. r - 1 : ~ Open(text, k)
    BY <1>5, <1>7 DEF Good
  <1>9. Open(text, 1)
    BY <1>6 DEF Open
  <1>. HIDE DEF r
  <1>10. ASSUME NEW k \in 1 .. r PROVE Open(text, k) <=> k = 1 \/ k = r
    <2>1. k = 1 \/ k = r \/ k \in 2 .. r - 1
      BY <1>0, <1>8
    <2>. QED  BY <1>0, <1>8, <1>9, <2>1
  <1>. QED  BY <1>8, <1>10 DEF r

\* The text of the tokens in two parts.
LEMMA TextParts ==
    ASSUME NEW s \in Seq(Token), NEW n \in 0 .. Len(s)
    PROVE  /\ SubSeq(s, 1, n) \in Seq(Token) /\ SubSeq(s, n + 1, Len(s)) \in Seq(Token)
           /\ Text(s) = Text(SubSeq(s, 1, n)) \o Text(SubSeq(s, n + 1, Len(s)))
  <1>0. Len(s) \in Nat /\ n \in Nat
    BY LenProperties
  <1>1. \A k \in 1 .. Len(s) : s[k] \in Token
    BY ElementOfSeq
  <1>2. (\A k \in 1 .. n : s[k] \in Token) /\ (\A k \in n + 1 .. Len(s) : s[k] \in Token)
    BY <1>0, <1>1
  <1>3. SubSeq(s, 1, n) \in Seq(Token) /\ SubSeq(s, n + 1, Len(s)) \in Seq(Token)
    BY <1>0, <1>2, SubSeqProperties
  <1>4. s = SubSeq(s, 1, n) \o SubSeq(s, n + 1, Len(s))
    <2>1. SubSeq(s, 1, n) \o SubSeq(s, n + 1, Len(s)) = SubSeq(s, 1, Len(s))
      <3>1. 1 \in 1 .. Len(s) + 1 /\ n \in 1 - 1 .. Len(s) /\ Len(s) \in n .. Len(s)
        BY <1>0
      <3>. QED  BY <3>1, ConcatAdjacentSubSeq
    <2>2. SubSeq(s, 1, Len(s)) = s
      BY <1>0, SubSeqFull
    <2>. QED  BY <2>1, <2>2
  <1>. DEFINE u == SubSeq(s, 1, n)
              w == SubSeq(s, n + 1, Len(s))
  <1>5. Text(u \o w) = Text(u) \o Text(w)
    BY <1>3, TextConcat
  <1>. QED  BY <1>3, <1>4, <1>5, Zenon

\* The text of the first tokens is the beginning of the text.
LEMMA TextBegins ==
    ASSUME NEW s \in Seq(Token), NEW n \in 1 .. Len(s)
    PROVE  LET first == Text(SubSeq(s, 1, n - 1))
               v == Text(SubSeq(s, 1, n))
           IN  /\ first \in Seq(CodePoints) /\ v \in Seq(CodePoints)
               /\ v = first \o s[n].value
               /\ Len(v) = Len(first) + Len(s[n].value)
               /\ Len(v) <= Len(Text(s))
               /\ \A k \in 1 .. Len(v) : v[k] = Text(s)[k]
               /\ \A k \in 1 .. Len(first) : v[k] = first[k]
               /\ \A k \in 1 .. Len(s[n].value) : v[Len(first) + k] = s[n].value[k]
  <1>. DEFINE first == Text(SubSeq(s, 1, n - 1))
              v == Text(SubSeq(s, 1, n))
              others == Text(SubSeq(s, n + 1, Len(s)))
  <1>0. Len(s) \in Nat /\ n \in Nat \ {0} /\ s[n] \in Token /\ n - 1 \in 0 .. Len(s)
    BY LenProperties, ElementOfSeq
  <1>1. SubSeq(s, 1, n - 1) \in Seq(Token) /\ SubSeq(s, 1, n) \in Seq(Token)
    BY <1>0, TextParts
  <1>2. SubSeq(s, 1, n) = SubSeq(s, 1, n - 1) \o <<s[n]>>
    BY <1>0, SubSeqRecursiveSecond
  <1>3. v = first \o s[n].value
    <2>. DEFINE u == SubSeq(s, 1, n - 1)
                t == s[n]
    <2>1. u \in Seq(Token) /\ t \in Token /\ <<t>> \in Seq(Token)
      BY <1>0, <1>1
    <2>. HIDE DEF u, t
    <2>2. Text(u \o <<t>>) = Text(u) \o t.value
      BY <2>1, TextConcat, TextOne, ZenonT(30)
    <2>. QED  BY <1>2, <2>2 DEF u, t
  <1>4. /\ first \in Seq(CodePoints) /\ v \in Seq(CodePoints) /\ others \in Seq(CodePoints)
        /\ s[n].value \in Seq(CodePoints)
    <2>1. SubSeq(s, n + 1, Len(s)) \in Seq(Token)
      BY <1>0, TextParts
    <2>. QED  BY <1>0, <1>1, <2>1, TextType, TokenFacts
  <1>5. Text(s) = v \o others
    BY <1>0, TextParts
  <1>. DEFINE w == s[n].value
              t == Text(s)
  <1>. HIDE DEF first, v, others, w
  <1>6. /\ Len(v) = Len(first) + Len(w) /\ Len(v) \in Nat /\ Len(first) \in Nat /\ Len(w) \in Nat
        /\ Len(others) \in Nat
        /\ \A k \in 1 .. Len(first) + Len(w) : v[k] = IF k <= Len(first) THEN first[k] ELSE w[k - Len(first)]
    BY <1>3, <1>4, ConcatProperties, LenProperties DEF w
  <1>7. /\ Len(t) = Len(v) + Len(others)
        /\ \A k \in 1 .. Len(v) + Len(others) : t[k] = IF k <= Len(v) THEN v[k] ELSE others[k - Len(v)]
    BY <1>4, <1>5, ConcatProperties
  <1>. HIDE DEF t
  <1>8. Len(v) <= Len(t) /\ \A k \in 1 .. Len(v) : v[k] = t[k]
    BY <1>6, <1>7
  <1>9. \A k \in 1 .. Len(first) : v[k] = first[k]
    BY <1>6
  <1>10. \A k \in 1 .. Len(w) : v[Len(first) + k] = w[k]
    <2>1. ASSUME NEW k \in 1 .. Len(w) PROVE v[Len(first) + k] = w[k]
      <3>1. PICK m \in Nat : m = Len(first) + k
        BY <1>6
      <3>2. m \in 1 .. Len(first) + Len(w) /\ ~ (m <= Len(first)) /\ m - Len(first) = k
        BY <1>6, <3>1
      <3>3. v[m] = w[m - Len(first)]
        BY <1>6, <3>2
      <3>. QED  BY <3>1, <3>2, <3>3
    <2>. QED  BY <2>1
  <1>. QED  BY <1>3, <1>4, <1>6, <1>8, <1>9, <1>10 DEF first, v, w, t

LEMMA AheadFacts ==
    ASSUME Ended(input), tok.kind # "EOF"
    PROVE  /\ Front(input) = SubSeq(input, 1, Len(input) - 1)
           /\ Front(input) \in Seq(Token) /\ Len(Front(input)) = Len(input) - 1
           /\ Ahead = Text(Front(input)) /\ Ahead \in Seq(CodePoints)
           /\ \A n \in 0 .. Len(input) - 1 : SubSeq(Front(input), 1, n) = SubSeq(input, 1, n)
           /\ \A n \in 1 .. Len(input) - 1 : Front(input)[n] = input[n]
           /\ Start(Len(input)) = Len(Ahead) + 1
  <1>0. /\ Len(input) \in Nat /\ Len(input) > 1 /\ input \in Seq(Token)
        /\ \A k \in 1 .. Len(input) : input[k] \in Token
    BY EndedFacts, NotLast
  <1>. DEFINE front == SubSeq(input, 1, Len(input) - 1)
  <1>1. Front(input) = front
    BY <1>0 DEF Front
  <1>2. /\ front \in Seq(Token) /\ Len(front) = Len(input) - 1
        /\ \A n \in 1 .. Len(input) - 1 : front[n] = input[n]
    <2>1. Len(input) - 1 \in 1 .. Len(input)
      BY <1>0
    <2>. QED  BY <2>1, PartsOfInput
  <1>3. Ahead = Text(front) /\ Text(front) \in Seq(CodePoints)
    <2>. HIDE DEF front
    <2>. QED  BY <1>1, <1>2, TextType DEF Ahead
  <1>4. ASSUME NEW n \in 0 .. Len(input) - 1
        PROVE  SubSeq(front, 1, n) = SubSeq(input, 1, n)
    <2>1. CASE n = 0
      <3>1. SubSeq(front, 1, 0) = <<>> /\ SubSeq(input, 1, 0) = <<>>
        BY SubSeqEmpty
      <3>. QED  BY <2>1, <3>1, Zenon
    <2>2. CASE n # 0
      <3>0. n \in Nat /\ n \in 1 .. Len(input)
        BY <1>0, <2>2
      <3>. DEFINE u == SubSeq(front, 1, n)
                  w == SubSeq(input, 1, n)
      <3>1. w \in Seq(Token) /\ Len(w) = n /\ \A k \in 1 .. n : w[k] = input[k]
        BY <3>0, PartsOfInput
      <3>2. u \in Seq(Token) /\ Len(u) = n /\ \A k \in 1 .. n : u[k] = input[k]
        <4>. HIDE DEF front
        <4>1. \A k \in 1 .. n : k \in 1 .. Len(input) - 1
          BY <1>0
        <4>2. \A k \in 1 .. n : front[k] \in Token /\ front[k] = input[k]
          BY <1>0, <1>2, <4>1
        <4>3. /\ u \in Seq(Token)
              /\ Len(u) = IF 1 <= n THEN n - 1 + 1 ELSE 0
              /\ \A k \in 1 .. n - 1 + 1 : u[k] = front[1 + k - 1]
          BY <1>2, <3>0, <4>2, SubSeqProperties
        <4>. HIDE DEF u
        <4>4. Len(u) = n /\ \A k \in 1 .. n : u[k] = front[k]
          BY <3>0, <4>3
        <4>. QED  BY <4>2, <4>3, <4>4
      <3>. HIDE DEF u, w
      <3>3. u = w
        <4>1. \A a, b \in Seq(Token) : Len(a) = Len(b) /\ (\A k \in 1 .. Len(a) : a[k] = b[k]) => a = b
          BY SeqEqual
        <4>. QED  BY <3>0, <3>1, <3>2, <4>1
      <3>. QED  BY <3>3 DEF u, w
    <2>. QED  BY <2>1, <2>2
  <1>5. Start(Len(input)) = Len(Text(front)) + 1
    BY DEF Start
  <1>. HIDE DEF front
  <1>. QED  BY <1>1, <1>2, <1>3, <1>4, <1>5 DEF front

LEMMA StringFacts ==
    ASSUME Ended(input), StartsString, StringEnd[1] # Failed,
           NEW n \in DOMAIN input, Start(n) = StringEnd[1]
    PROVE  /\ n \in 1 .. Len(input) - 1
           /\ StringEnd[1] \in 2 .. Len(Ahead)
           /\ \A k \in 1 .. StringEnd[1] : Open(Ahead, k) <=> k = 1 \/ k = StringEnd[1]
           /\ Ahead \in Seq(CodePoints)
  <1>0. /\ Len(input) \in Nat /\ Len(input) > 1 /\ tok = input[1] /\ tok \in Token
        /\ DOMAIN input = 1 .. Len(input) /\ tok.kind # "EOF" /\ tok.value = <<Quote>>
    <2>1. tok.kind # "EOF" /\ tok.value = <<Quote>>
      BY DEF StartsString
    <2>. QED  BY <2>1, EndedFacts, NotLast
  <1>1. /\ Front(input) \in Seq(Token) /\ Len(Front(input)) = Len(input) - 1
        /\ Front(input)[1] = tok /\ Ahead = Text(Front(input)) /\ Ahead \in Seq(CodePoints)
    <2>1. /\ Front(input) \in Seq(Token) /\ Len(Front(input)) = Len(input) - 1
          /\ Ahead = Text(Front(input)) /\ Ahead \in Seq(CodePoints)
      BY <1>0, AheadFacts
    <2>2. \A k \in 1 .. Len(input) - 1 : Front(input)[k] = input[k]
      BY <1>0, AheadFacts
    <2>3. 1 \in 1 .. Len(input) - 1
      BY <1>0
    <2>. QED  BY <1>0, <2>1, <2>2, <2>3
  <1>2. Len(Ahead) > 0 /\ Ahead[1] = Quote
    <2>. DEFINE first == Text(SubSeq(Front(input), 1, 1 - 1))
                v == Text(SubSeq(Front(input), 1, 1))
    <2>1. 1 \in 1 .. Len(Front(input))
      BY <1>0, <1>1
    <2>2. /\ v = first \o Front(input)[1].value
          /\ Len(v) <= Len(Text(Front(input)))
          /\ \A k \in 1 .. Len(v) : v[k] = Text(Front(input))[k]
      BY <1>1, <2>1, TextBegins
    <2>3. first = <<>>
      <3>1. SubSeq(Front(input), 1, 1 - 1) = <<>>
        BY SubSeqEmpty
      <3>. QED  BY <3>1, TextEmpty
    <2>4. tok.value \in Seq(CodePoints) /\ Len(tok.value) = 1 /\ tok.value[1] = Quote
      BY <1>0, TokenFacts
    <2>5. v = tok.value
      BY <1>1, <2>2, <2>3, <2>4, ConcatEmptySeq
    <2>. HIDE DEF v
    <2>6. Len(Ahead) \in Nat
      BY <1>1, LenProperties
    <2>7. Len(v) = 1 /\ v[1] = Quote
      BY <2>4, <2>5
    <2>8. 1 <= Len(Ahead)
      BY <1>1, <2>2, <2>7
    <2>9. v[1] = Ahead[1]
      <3>1. \A k \in 1 .. Len(v) : v[k] = Ahead[k]
        BY <1>1, <2>2
      <3>2. 1 \in 1 .. Len(v)
        BY <2>7
      <3>. QED  BY <3>1, <3>2
    <2>. QED  BY <2>6, <2>7, <2>8, <2>9
  <1>3. /\ StringEnd[1] \in 2 .. Len(Ahead)
        /\ \A k \in 1 .. StringEnd[1] : Open(Ahead, k) <=> k = 1 \/ k = StringEnd[1]
    <2>. DEFINE text == Ahead
                groups == Groups
    <2>1. StringEnd = Closing(text, groups)
      BY DEF StringEnd
    <2>2. text \in Seq(CodePoints) /\ Len(text) > 0 /\ text[1] = Quote
      BY <1>1, <1>2
    <2>. HIDE DEF text, groups
    <2>3. /\ Closing(text, groups)[1] \in 2 .. Len(text)
          /\ \A k \in 1 .. Closing(text, groups)[1] :
                Open(text, k) <=> k = 1 \/ k = Closing(text, groups)[1]
      BY <2>1, <2>2, ClosingFacts
    <2>. QED  BY <2>1, <2>3 DEF text
  <1>4. n # Len(input)
    <2>1. Start(Len(input)) = Len(Ahead) + 1 /\ Len(Ahead) \in Nat
      BY <1>0, <1>1, AheadFacts, LenProperties
    <2>. QED  BY <1>3, <2>1
  <1>. QED  BY <1>0, <1>1, <1>3, <1>4

-------------------------------------------------------------------------------
\* The form of each step, but of those that end the compilation.

LEMMA PassThroughShape ==
    ASSUME Passing, PassThrough
    PROVE  Shape(tok, 1)
  <1>1. Put(tok, 1) /\ Ended(input)
    BY DEF PassThrough, Passing
  <1>2. tok \in Token /\ tok = input[1] /\ Len(input) \in Nat \ {0}
    BY <1>1, LookAtFacts, EndedFacts
  <1>3. CASE tok.kind = "EOF"
    <2>1. CASE Len(input) = 1
      <3>1. tok = Eof
        BY <1>1, <1>2, <2>1, EndedFacts
      <3>2. PutsEof(tok, 1)
        BY <2>1, <3>1, PassNumbersHold DEF PutsEof, Passing, PassNumbers
      <3>. QED  BY <1>1, <1>2, <3>2 DEF Shape
    <2>2. CASE Len(input) # 1
      <3>1. tok # Eof
        <4>1. 1 \in 1 .. Len(input) /\ 1 # Len(input)
          BY <1>2, <2>2
        <4>. QED  BY <1>1, <1>2, <4>1 DEF Ended
      <3>2. Text(SubSeq(input, 1, 1)) = tok.value
        <4>. DEFINE one == SubSeq(input, 1, 1)
        <4>1. one = <<input[1]>>
          <5>1. 1 \in 1 .. Len(input)
            BY <1>2
          <5>2. one \in Seq(Token) /\ Len(one) = 1 /\ one[1] = input[1]
            BY <1>1, <5>1, PartsOfInput
          <5>. HIDE DEF one
          <5>. QED  BY <5>2
        <4>. QED  BY <1>2, <4>1, TextOne
      <3>3. 1 \in 1 .. Len(input) - 1 /\ pass # RemoveSpaces
        <4>1. pass # RemoveSpaces
          BY PassNumbersHold DEF Passing, PassNumbers
        <4>2. PICK m \in Nat : m = Len(input)
          BY <1>2
        <4>3. m # 0 /\ m # 1
          BY <1>2, <2>2, <4>2
        <4>4. 1 \in 1 .. m - 1
          BY <4>3
        <4>. QED  BY <4>1, <4>2, <4>4
      <3>4. Joins(tok, 1)
        BY <3>1, <3>2, <3>3, Zenon DEF Joins
      <3>. QED  BY <1>1, <1>2, <3>4 DEF Shape
    <2>. QED  BY <2>1, <2>2
  <1>4. CASE tok.kind # "EOF"
    <2>1. [tok EXCEPT !.kind = tok.kind] = tok /\ tok.kind \in Kinds
      BY <1>2 DEF Token
    <2>2. Put([tok EXCEPT !.kind = tok.kind], 1)
      BY <1>1, <2>1
    <2>3. Shape([tok EXCEPT !.kind = tok.kind], 1)
      BY <1>4, <2>1, <2>2, OneShape
    <2>. QED  BY <2>1, <2>3
  <1>. QED  BY <1>3, <1>4

LEMMA KindsAre ==
    /\ \A kind \in {"I10", "ID", "STR", "SY", "SP", "CO", "I.I10", "R10", "F10", "KW"} :
          kind \in Kinds /\ kind # "EOF"
    /\ \A kind \in {"CP", "I10", "I.I10", "SY", "ID"} : kind # "EOF"
  BY DEF Kinds

\* The steps that make one token of several.
JoiningStep(kind, n) ==
    \/ ScanInteger /\ kind = "I10" /\ n = RunLength(Digits)
    \/ ScanIdentifier /\ kind = "ID" /\ n = RunLength(IdContinues)
    \/ ScanSymbol /\ kind = "SY" /\ n = SymbolLength
    \/ ScanString /\ kind = "STR" /\ n \in DOMAIN input /\ Start(n) = StringEnd[1]
       /\ PutJoined("STR", n)
    \/ ScanComment /\ kind = "CO" /\ n = CommentLength /\ n < Len(input)
    \/ ScanWithPoint /\ kind = "I.I10" /\ n = 3
    \/ ScanRational /\ kind = "R10" /\ n = 3
    \/ ScanFloating /\ kind = "F10" /\ n = 3

LEMMA JoiningShape ==
    ASSUME PassesTyped, NEW kind, NEW n, JoiningStep(kind, n)
    PROVE  /\ Passing
           /\ n \in 1 .. Len(input) - 1
           /\ PutJoined(kind, n)
           /\ kind \in Kinds /\ kind # "EOF"
           /\ Shape(Tokens(kind, Text(SubSeq(input, 1, n))), n)
  <1>1. Running /\ pass # RemoveSpaces
    BY PassNumbersHold
      DEF JoiningStep, PassNumbers, ScanInteger, ScanIdentifier, ScanSymbol, ScanString,
          ScanComment, ScanWithPoint, ScanRational, ScanFloating, StartsInteger,
          StartsIdentifier, StartsSymbol, StartsString, StartsComment, HasPoint, HasSlash,
          HasExponent
  <1>2. Passing /\ Ended(input)
    BY <1>1, RunningIsPassing DEF Passing
  <1>3. PutJoined(kind, n) /\ kind \in Kinds /\ kind # "EOF"
    BY KindsAre
      DEF JoiningStep, ScanInteger, ScanIdentifier, ScanSymbol, ScanString,
          ScanComment, ScanWithPoint, ScanRational, ScanFloating, CommentLength
  <1>4. n \in 1 .. Len(input) - 1
    <2>1. CASE ScanInteger /\ n = RunLength(Digits)
      BY <1>2, <2>1, RunLengthFacts DEF ScanInteger, StartsInteger
    <2>2. CASE ScanIdentifier /\ n = RunLength(IdContinues)
      BY <1>2, <2>2, RunLengthFacts DEF ScanIdentifier, StartsIdentifier
    <2>3. CASE ScanSymbol /\ n = SymbolLength
      BY <1>2, <2>3, SymbolLengthFacts DEF ScanSymbol, StartsSymbol
    <2>4. CASE ScanString /\ n \in DOMAIN input /\ Start(n) = StringEnd[1]
      BY <1>2, <2>4, StringFacts DEF ScanString
    <2>5. CASE ScanComment /\ n = CommentLength /\ n < Len(input)
      <3>1. n \in 2 .. Len(input) /\ Len(input) \in Nat
        BY <1>2, <2>5, CommentLengthFacts, EndedFacts DEF ScanComment, StartsComment
      <3>. QED  BY <2>5, <3>1
    <2>6. CASE ScanWithPoint /\ n = 3
      BY <1>2, <2>6, ThreeFacts DEF ScanWithPoint, HasPoint
    <2>7. CASE ScanRational /\ n = 3
      BY <1>2, <2>7, ThreeFacts DEF ScanRational, HasSlash
    <2>8. CASE ScanFloating /\ n = 3
      BY <1>2, <2>8, ThreeFacts DEF ScanFloating, HasExponent
    <2>. QED  BY <2>1, <2>2, <2>3, <2>4, <2>5, <2>6, <2>7, <2>8 DEF JoiningStep
  <1>. QED  BY <1>2, <1>3, <1>4, JoinShape

\* A comment that runs into the end of the input.
LEMMA LastCommentShape ==
    ASSUME PassesTyped, ScanComment, ~ (CommentLength < Len(input))
    PROVE  /\ Passing /\ CommentLength = Len(input)
           /\ Shape(Tokens("CO", Text(input)), Len(input))
  <1>1. Running /\ pass = WhiteSpace /\ tok.kind # "EOF" /\ PutJoined("CO", CommentLength)
    BY DEF ScanComment, StartsComment, CommentLength
  <1>2. Passing /\ Ended(input)
    BY <1>1, RunningIsPassing, PassNumbersHold DEF Passing, PassNumbers
  <1>3. CommentLength = Len(input) /\ Len(input) \in Nat \ {0} /\ Len(input) > 1
    BY <1>1, <1>2, CommentLengthFacts, EndedFacts
  <1>4. /\ [k \in 1 .. Len(input) |-> LookAt(k - 2)] = SubSeq(input, 1, Len(input))
        /\ SubSeq(input, 1, Len(input)) = input
        /\ Text(input) \in Seq(CodePoints) \ {<<>>}
    <2>1. Len(input) \in 1 .. Len(input)
      BY <1>3
    <2>2. SubSeq(input, 1, Len(input)) = input
      BY <1>2, <2>1, PartsOfInput
    <2>3. /\ [k \in 1 .. Len(input) |-> LookAt(k - 2)] = SubSeq(input, 1, Len(input))
          /\ Text(SubSeq(input, 1, Len(input))) \in Seq(CodePoints) \ {<<>>}
      BY <1>2, <2>1, JoinedTokens
    <2>. QED  BY <2>2, <2>3
  <1>5. Put(Tokens("CO", Text(input)), Len(input))
    BY <1>1, <1>3, <1>4 DEF PutJoined
  <1>6. /\ Tokens("CO", Text(input)) \in Token /\ Tokens("CO", Text(input)).kind = "CO"
        /\ Tokens("CO", Text(input)).value = Text(input)
    BY <1>4, KindsAre, TokensIsToken
  <1>7. TakesAll(Tokens("CO", Text(input)), Len(input))
    BY <1>1, <1>3, <1>6 DEF TakesAll
  <1>. QED  BY <1>2, <1>3, <1>5, <1>6, <1>7 DEF Shape

LEMMA SkipShape ==
    ASSUME PassesTyped, SkipSpaces
    PROVE  /\ Shape(input[Spaces + 1], Spaces + 1)
           /\ Skips(input[Spaces + 1], Spaces + 1)
  <1>1. pass = RemoveSpaces /\ Ended(input) /\ Put(LookAt(Spaces - 1), Spaces + 1)
    BY PassNumbersHold DEF SkipSpaces, PassesTyped, PassNumbers
  <1>2. /\ Spaces \in 0 .. Len(input) - 1
        /\ ~ IsSpace(input[Spaces + 1])
        /\ \A k \in 1 .. Spaces : IsSpace(input[k])
        /\ LookAt(Spaces - 1) = input[Spaces + 1]
    BY <1>1, SpacesFacts
  <1>. DEFINE n == Spaces + 1
  <1>3. n \in 1 .. Len(input) /\ n - 1 = Spaces
    BY <1>1, <1>2, EndedFacts
  <1>4. input[n] \in Token
    BY <1>1, <1>3, EndedFacts
  <1>5. Skips(input[n], n)
    <2>1. ~ IsSpace(input[n]) /\ \A k \in 1 .. n - 1 : IsSpace(input[k])
      BY <1>2, <1>3
    <2>. HIDE DEF n
    <2>. QED  BY <1>1, <1>3, <2>1 DEF Skips
  <1>6. Put(input[n], n)
    BY <1>1, <1>2
  <1>. HIDE DEF n
  <1>7. Shape(input[n], n)
    BY <1>4, <1>5, <1>6 DEF Shape
  <1>. QED  BY <1>5, <1>7 DEF n

LEMMA TakeWhiteShape ==
    ASSUME PassesTyped, TakeWhite
    PROVE  Passing /\ Shape([tok EXCEPT !.kind = "SP"], 1)
  <1>1. Running /\ pass = WhiteSpace /\ tok.kind # "EOF" /\ Put([tok EXCEPT !.kind = "SP"], 1)
    BY DEF TakeWhite, IsWhite
  <1>2. Passing
    BY <1>1, RunningIsPassing, PassNumbersHold DEF PassNumbers
  <1>. QED  BY <1>1, <1>2, KindsAre, OneShape

LEMMA MarkKeywordShape ==
    ASSUME PassesTyped, MarkKeyword
    PROVE  Passing /\ Shape([tok EXCEPT !.kind = "KW"], 1)
  <1>1. Running /\ pass = Keyword /\ tok.kind # "EOF" /\ Put([tok EXCEPT !.kind = "KW"], 1)
    BY DEF MarkKeyword, IsKeyword
  <1>2. Passing
    BY <1>1, RunningIsPassing, PassNumbersHold DEF PassNumbers
  <1>. QED  BY <1>1, <1>2, KindsAre, OneShape

LEMMA ParseShape ==
    ASSUME PassesTyped, NextParse, ~ RejectString
    PROVE  /\ \E lhs, n : Shape(lhs, n)
           /\ pass \notin {0, RemoveSpaces + 1}
  <1>1. CASE \E kind, n : JoiningStep(kind, n)
    BY <1>1, JoiningShape, PassNumbersHold DEF Passing, PassNumbers
  <1>2. CASE ScanComment /\ ~ (CommentLength < Len(input))
    BY <1>2, LastCommentShape, PassNumbersHold DEF Passing, PassNumbers
  <1>3. CASE SkipSpaces
    BY <1>3, SkipShape, PassNumbersHold DEF SkipSpaces, PassNumbers
  <1>4. CASE TakeWhite
    BY <1>4, TakeWhiteShape, PassNumbersHold DEF Passing, PassNumbers
  <1>5. CASE MarkKeyword
    BY <1>5, MarkKeywordShape, PassNumbersHold DEF Passing, PassNumbers
  <1>6. CASE PassThrough
    <2>1. Passing
      BY <1>6, RunningIsPassing DEF PassThrough
    <2>. QED  BY <1>6, <2>1, PassThroughShape, PassNumbersHold DEF Passing, PassNumbers
  <1>7. CASE ScanInteger \/ ScanIdentifier \/ ScanSymbol \/ ScanWithPoint \/ ScanRational
             \/ ScanFloating
    <2>1. \E kind, n : JoiningStep(kind, n)
      BY <1>7 DEF JoiningStep
    <2>. QED  BY <1>1, <2>1
  <1>8. CASE ScanString
    <2>1. \E n : JoiningStep("STR", n)
      BY <1>8 DEF JoiningStep, ScanString
    <2>. QED  BY <1>1, <2>1
  <1>9. CASE ScanComment
    <2>1. CommentLength < Len(input) => JoiningStep("CO", CommentLength)
      BY <1>9 DEF JoiningStep
    <2>. QED  BY <1>1, <1>2, <1>9, <2>1
  <1>. QED  BY <1>3, <1>4, <1>5, <1>6, <1>7, <1>8, <1>9 DEF NextParse

-------------------------------------------------------------------------------
\* The scan.

\* What the tokens of the scan are.
ScanToken ==
    [kind : {"CP", "FSEP", "EOF"}, value : CodePoints \cup {"FSEP", "EOF"},
     file : Int, place : Int \X Int]

ScanTyped ==
    /\ files \in Seq(Seq(CodePoints)) /\ files # <<>>
    /\ i \in 0 .. Len(files)
    /\ getter \in [offset : Nat, sbuf : Seq(CodePoints), line_no : Nat,
                   i_code_point : Nat, eof_reached : BOOLEAN]
    /\ getter.i_code_point <= Len(getter.sbuf)
    /\ scanned \in Seq(ScanToken)
    /\ \A k \in 1 .. Len(scanned) :
          /\ scanned[k].kind = "CP" => scanned[k].value \in CodePoints
          /\ scanned[k].kind = "EOF" => status = "scanned" /\ k = Len(scanned)
    /\ status = "scanned" => Len(scanned) > 0 /\ scanned[Len(scanned)].kind = "EOF"

\* What composition makes of code points are code points.
LEMMA ComposeWithType ==
    ASSUME NEW s \in Seq(CodePoints), NEW c \in CodePoints
    PROVE  Scan!ComposeWith(s, c) \in Seq(CodePoints)
  <1>1. Append(s, c) \in Seq(CodePoints)
    BY AppendProperties
  <1>2. ASSUME s # <<>>, Last(s) \in DOMAIN Composed
        PROVE  Append(SubSeq(s, 1, Len(s) - 1), Composed[Last(s)]) \in Seq(CodePoints)
    <2>1. Len(s) \in Nat /\ \A k \in 1 .. Len(s) : s[k] \in CodePoints
      BY LenProperties, ElementOfSeq
    <2>2. SubSeq(s, 1, Len(s) - 1) \in Seq(CodePoints)
      <3>1. \A k \in 1 .. Len(s) - 1 : s[k] \in CodePoints
        BY <2>1
      <3>. QED  BY <2>1, <3>1, SubSeqProperties
    <2>3. Composed[Last(s)] \in CodePoints
      BY <1>2, CommandLinesAssumption
    <2>. QED  BY <2>2, <2>3, AppendProperties
  <1>. QED  BY <1>1, <1>2 DEF Scan!ComposeWith, Front, Last, Scan!Front, Scan!Last

WithMark == [p \in Seq(CodePoints) \X CodePoints |-> Scan!ComposeWith(p[1], p[2])]

LEMMA WithMarkTakes ==
    /\ Takes(WithMark, Seq(CodePoints), CodePoints)
    /\ \A s \in Seq(CodePoints), c \in CodePoints :
          Stepped(WithMark, s, c) = Scan!ComposeWith(s, c)
  <1>1. ASSUME NEW s \in Seq(CodePoints), NEW c \in CodePoints
        PROVE  WithMark[<<s, c>>] = Scan!ComposeWith(s, c)
    BY DEF WithMark
  <1>. QED  BY <1>1, ComposeWithType DEF Stepped, Takes

LEMMA ComposeIs ==
    ASSUME NEW line \in Seq(CodePoints)
    PROVE  /\ Scan!Compose(line) = Fold(WithMark, <<>>, line)
           /\ Scan!Compose(line) \in Seq(CodePoints)
  <1>. DEFINE Step(f, n) == IF n = 0 THEN <<>> ELSE Scan!ComposeWith(f[n - 1], line[n])
              IsThat(f) == f = [n \in 0 .. Len(line) |-> Step(f, n)]
              f == CHOOSE f : IsThat(f)
  <1>0. Len(line) \in Nat /\ \A n \in 1 .. Len(line) : line[n] \in CodePoints
    BY LenProperties, ElementOfSeq
  <1>1. <<>> \in Seq(CodePoints)
    BY EmptySeq
  <1>2. \E g : IsThat(g)
    <2>1. PICK g \in [0 .. Len(line) -> Seq(CodePoints)] : Folds(g, WithMark, <<>>, line)
      BY <1>1, WithMarkTakes, FoldExists
    <2>2. ASSUME NEW n \in 0 .. Len(line) PROVE g[n] = Step(g, n)
      <3>1. CASE n = 0
        BY <3>1, <2>1 DEF Folds
      <3>2. CASE n # 0
        <4>1. n \in 1 .. Len(line) /\ n - 1 \in 0 .. Len(line)
          BY <3>2, <1>0
        <4>2. g[n - 1] \in Seq(CodePoints) /\ line[n] \in CodePoints
          BY <4>1, <1>0
        <4>3. g[n] = Stepped(WithMark, g[n - 1], line[n])
          BY <4>1, <2>1 DEF Folds
        <4>. QED  BY <3>2, <4>2, <4>3, WithMarkTakes
      <3>. QED  BY <3>1, <3>2
    <2>3. g = [n \in 0 .. Len(line) |-> g[n]]
      OBVIOUS
    <2>4. IsThat(g)
      <3>. HIDE DEF Step
      <3>. QED  BY <2>2, <2>3, Zenon
    <2>. HIDE DEF IsThat
    <2>. QED  BY <2>4
  <1>3. IsThat(f)
    <2>. HIDE DEF IsThat
    <2>. QED  BY <1>2
  <1>4. Scan!Compose(line) = f[Len(line)]
    BY DEF Scan!Compose
  <1>. HIDE DEF f
  <1>5. \A n \in 0 .. Len(line) : f[n] = Step(f, n)
    <2>. HIDE DEF Step
    <2>. QED  BY <1>3
  <1>6. FoldsIn(Seq(CodePoints), f, WithMark, <<>>, line)
    <2>1. f[0] = <<>>
      BY <1>0, <1>5
    <2>2. ASSUME NEW n \in 1 .. Len(line), f[n - 1] \in Seq(CodePoints)
          PROVE  f[n] = Stepped(WithMark, f[n - 1], line[n])
      <3>1. n \in 0 .. Len(line) /\ n # 0 /\ line[n] \in CodePoints
        BY <1>0
      <3>2. f[n] = Scan!ComposeWith(f[n - 1], line[n])
        BY <3>1, <1>5
      <3>. QED  BY <3>1, <3>2, <2>2, WithMarkTakes
    <2>. QED  BY <2>1, <2>2 DEF FoldsIn
  <1>7. Takes(WithMark, Seq(CodePoints), CodePoints)
    BY WithMarkTakes
  <1>8. f[Len(line)] = Fold(WithMark, <<>>, line) /\ f[Len(line)] \in Seq(CodePoints)
    <2>. DEFINE Y == Seq(CodePoints)
                a == <<>>
    <2>1. a \in Y /\ Takes(WithMark, Y, CodePoints) /\ FoldsIn(Y, f, WithMark, a, line)
      BY <1>1, <1>6, <1>7
    <2>. HIDE DEF Y, a
    <2>2. f[Len(line)] = Fold(WithMark, a, line) /\ f[Len(line)] \in Y
      BY <2>1, FoldIs
    <2>. QED  BY <2>2 DEF Y, a
  <1>. QED  BY <1>4, <1>8

LEMMA LineAtFacts ==
    ASSUME NEW file \in Seq(CodePoints), NEW offset \in Nat
    PROVE  /\ Scan!LineAt(file, offset) \in Seq(CodePoints)
           /\ offset < Len(file) =>
                \E last \in offset + 1 .. Len(file) :
                   /\ Scan!LineAt(file, offset) = SubSeq(file, offset + 1, last)
                   /\ last = Len(file) \/ file[last] = "\n"
                   /\ \A k \in offset + 1 .. last - 1 : file[k] # "\n"
           /\ offset >= Len(file) => Scan!LineAt(file, offset) = <<>>
  <1>. DEFINE ends == {k \in offset + 1 .. Len(file) : k = Len(file) \/ file[k] = "\n"}
              last == CHOOSE k \in ends : \A l \in ends : k <= l
  <1>0. Len(file) \in Nat /\ \A k \in 1 .. Len(file) : file[k] \in CodePoints
    BY LenProperties, ElementOfSeq
  <1>1. Scan!LineAt(file, offset) = IF ends = {} THEN <<>> ELSE SubSeq(file, offset + 1, last)
    BY DEF Scan!LineAt
  <1>2. CASE offset < Len(file)
    <2>1. ends # {} /\ ends \subseteq Nat
      <3>1. Len(file) \in ends
        BY <1>0, <1>2
      <3>. QED  BY <3>1
    <2>2. last \in ends /\ \A l \in ends : last <= l
      <3>. HIDE DEF ends
      <3>. QED  BY <2>1, LeastNumber
    <2>. HIDE DEF last
    <2>3. \A k \in offset + 1 .. last - 1 : k \in offset + 1 .. Len(file) /\ ~ (last <= k)
      BY <1>0, <2>2
    <2>4. \A k \in offset + 1 .. last - 1 : file[k] # "\n"
      BY <2>2, <2>3
    <2>5. SubSeq(file, offset + 1, last) \in Seq(CodePoints)
      <3>1. \A k \in offset + 1 .. last : file[k] \in CodePoints
        BY <1>0, <2>2
      <3>2. last \in Int /\ offset + 1 \in Int
        BY <2>2
      <3>. QED  BY <3>1, <3>2, SubSeqProperties
    <2>. QED  BY <1>0, <1>1, <1>2, <2>1, <2>2, <2>4, <2>5, SMTT(30)
  <1>3. CASE offset >= Len(file)
    <2>1. ends = {}
      BY <1>0, <1>3
    <2>2. <<>> \in Seq(CodePoints)
      BY EmptySeq
    <2>. QED  BY <1>0, <1>1, <1>3, <2>1, <2>2
  <1>. QED  BY <1>0, <1>2, <1>3

-------------------------------------------------------------------------------
\* The steps of the scan.

LEMMA ScanTypedInit ==
    ASSUME Scan!Init
    PROVE  ScanTyped
  <1>1. files \in Seq(Seq(CodePoints)) /\ files # <<>>
    BY CommandLinesAssumption DEF Scan!Init
  <1>2. Len(files) \in Nat
    BY <1>1, LenProperties
  <1>3. <<>> \in Seq(CodePoints) /\ <<>> \in Seq(ScanToken)
    BY EmptySeq
  <1>. QED  BY <1>1, <1>2, <1>3 DEF Scan!Init, Scan!NewGetter, Scan!NoLine, ScanTyped

\* A token more.
LEMMA ScanPuts ==
    ASSUME ScanTyped, status = "scanning", NEW t \in ScanToken,
           t.kind = "CP" => t.value \in CodePoints,
           scanned' = Append(scanned, t),
           IF t.kind = "EOF" THEN status' = "scanned" ELSE status' = "scanning"
    PROVE  /\ scanned' \in Seq(ScanToken)
           /\ \A k \in 1 .. Len(scanned') :
                 /\ scanned'[k].kind = "CP" => scanned'[k].value \in CodePoints
                 /\ scanned'[k].kind = "EOF" => status' = "scanned" /\ k = Len(scanned')
           /\ status' = "scanned" => Len(scanned') > 0 /\ scanned'[Len(scanned')].kind = "EOF"
  <1>1. /\ scanned' \in Seq(ScanToken) /\ Len(scanned') = Len(scanned) + 1
        /\ \A k \in 1 .. Len(scanned) : scanned'[k] = scanned[k]
        /\ scanned'[Len(scanned) + 1] = t
        /\ Len(scanned) \in Nat
    BY AppendProperties, LenProperties DEF ScanTyped
  <1>2. \A k \in 1 .. Len(scanned) :
           /\ scanned[k].kind = "CP" => scanned[k].value \in CodePoints
           /\ scanned[k].kind # "EOF"
    BY DEF ScanTyped
  <1>. QED  BY <1>1, <1>2

LEMMA ScanTypedStep ==
    ASSUME ScanTyped, Scan!Next
    PROVE  ScanTyped'
  <1>. DEFINE G == [offset : Nat, sbuf : Seq(CodePoints), line_no : Nat,
                    i_code_point : Nat, eof_reached : BOOLEAN]
              GetterOK(g) == g \in G /\ g.i_code_point <= Len(g.sbuf)
  <1>0. Len(files) \in Nat /\ \A k \in 1 .. Len(files) : files[k] \in Seq(CodePoints)
    BY LenProperties, ElementOfSeq DEF ScanTyped
  <1>1. GetterOK(Scan!NewGetter)
    <2>1. <<>> \in Seq(CodePoints)
      BY EmptySeq
    <2>. QED  BY <2>1 DEF Scan!NewGetter, Scan!NoLine
  <1>2. ASSUME NEW line \in Seq(CodePoints) PROVE GetterOK(Scan!FillLine(getter, line))
    <2>1. Len(line) \in Nat /\ Scan!Compose(line) \in Seq(CodePoints)
      BY ComposeIs, LenProperties
    <2>2. Len(Scan!Compose(line)) \in Nat
      BY <2>1, LenProperties
    <2>3. CASE line = <<>>
      BY <2>3 DEF Scan!FillLine, ScanTyped
    <2>4. CASE line # <<>>
      <3>. DEFINE c == Scan!Compose(line)
                  g == Scan!FillLine(getter, line)
      <3>1. g = [getter EXCEPT !.offset = getter.offset + Len(line), !.sbuf = c,
                               !.line_no = getter.line_no + 1, !.i_code_point = 0]
        BY <2>4 DEF Scan!FillLine
      <3>2. c \in Seq(CodePoints) /\ Len(c) \in Nat
        BY <2>1, <2>2
      <3>3. getter \in G
        BY DEF ScanTyped
      <3>4. getter.offset + Len(line) \in Nat /\ getter.line_no + 1 \in Nat
        BY <2>1, <3>3
      <3>. HIDE DEF c, g
      <3>5. g \in G /\ g.i_code_point = 0 /\ g.sbuf = c
        BY <3>1, <3>2, <3>3, <3>4
      <3>6. GetterOK(g)
        BY <3>2, <3>5
      <3>. QED  BY <3>6 DEF g
    <2>. QED  BY <2>3, <2>4
  <1>3. GetterOK(getter)
    BY DEF ScanTyped
  <1>. HIDE DEF GetterOK
  <1>4. CASE Scan!OpenFirst
    <2>1. 1 \in 0 .. Len(files)
      BY <1>0, EmptySeq DEF ScanTyped
    <2>2. UNCHANGED <<files, scanned, status>> /\ i' = 1 /\ getter' = Scan!NewGetter
      BY <1>4 DEF Scan!OpenFirst, Scan!OpenFile
    <2>. QED  BY <1>1, <2>1, <2>2 DEF ScanTyped, GetterOK
  <1>5. CASE Scan!OpenFails \/ Scan!DecodeFails \/ Scan!PutFails
    <2>1. UNCHANGED <<files, i, getter, scanned>> /\ status = "scanning" /\ status' \in {"exited", "error"}
      BY <1>5 DEF Scan!OpenFails, Scan!DecodeFails, Scan!PutFails, Scan!Exit
    <2>. QED  BY <2>1 DEF ScanTyped
  <1>6. CASE Scan!ReadLine \/ Scan!ReadFails
    <2>1. UNCHANGED <<files, i, scanned, status>> /\ i # 0
      BY <1>6 DEF Scan!ReadLine, Scan!ReadFails
    <2>2. files[i] \in Seq(CodePoints) /\ getter.offset \in Nat
      BY <1>0, <2>1 DEF ScanTyped
    <2>3. Scan!LineAt(files[i], getter.offset) \in Seq(CodePoints) /\ <<>> \in Seq(CodePoints)
      BY <2>2, LineAtFacts, EmptySeq
    <2>4. GetterOK(getter')
      BY <1>2, <1>6, <2>3 DEF Scan!ReadLine, Scan!ReadFails
    <2>. QED  BY <2>1, <2>4 DEF ScanTyped, GetterOK
  <1>7. CASE Scan!ScanCodePoint
    <2>1. /\ UNCHANGED <<files, i, status>> /\ status = "scanning"
          /\ scanned' = Append(scanned, Scan!CodePoint(getter, i))
          /\ getter' = [getter EXCEPT !.i_code_point = getter.i_code_point + 1]
          /\ getter.i_code_point < Len(getter.sbuf)
      BY <1>7 DEF Scan!ScanCodePoint, Scan!IsFilled
    <2>2. /\ getter.sbuf \in Seq(CodePoints) /\ getter.i_code_point \in Nat
          /\ Len(getter.sbuf) \in Nat /\ getter.line_no \in Nat /\ i \in Int
      BY LenProperties DEF ScanTyped
    <2>3. getter.sbuf[getter.i_code_point + 1] \in CodePoints
      <3>1. getter.i_code_point + 1 \in 1 .. Len(getter.sbuf)
        BY <2>1, <2>2
      <3>. QED  BY <2>2, <3>1, ElementOfSeq
    <2>4. /\ Scan!CodePoint(getter, i) \in ScanToken
          /\ Scan!CodePoint(getter, i).kind = "CP"
          /\ Scan!CodePoint(getter, i).value \in CodePoints
      BY <2>2, <2>3 DEF Scan!CodePoint, Scan!Token, ScanToken
    <2>5. GetterOK(getter')
      BY <1>3, <2>1, <2>2 DEF GetterOK
    <2>. QED  BY <2>1, <2>4, <2>5, ScanPuts DEF ScanTyped, GetterOK
  <1>8. ASSUME NEW kind \in {"FSEP", "EOF"}
        PROVE  Scan!End(kind) \in ScanToken /\ Scan!End(kind).kind = kind
    <2>1. Scan!EndPlace(getter) \in Int \X Int
      BY DEF Scan!EndPlace, ScanTyped
    <2>. QED  BY <2>1 DEF Scan!End, Scan!Token, ScanToken, ScanTyped
  <1>9. CASE Scan!ScanSeparator
    <2>1. /\ UNCHANGED <<files, status>> /\ status = "scanning"
          /\ scanned' = Append(scanned, Scan!End("FSEP"))
          /\ getter' = Scan!NewGetter /\ i' = i + 1 /\ i \in 1 .. Len(files) - 1
      BY <1>9 DEF Scan!ScanSeparator, Scan!OpenFile
    <2>2. i' \in 0 .. Len(files)
      BY <1>0, <2>1
    <2>. QED  BY <1>1, <1>8, <2>1, <2>2, ScanPuts DEF ScanTyped, GetterOK
  <1>10. CASE Scan!ScanEnd
    <2>1. /\ UNCHANGED <<files, i, getter>> /\ status = "scanning" /\ status' = "scanned"
          /\ scanned' = Append(scanned, Scan!End("EOF"))
      BY <1>10 DEF Scan!ScanEnd
    <2>. QED  BY <1>3, <1>8, <2>1, ScanPuts DEF ScanTyped, GetterOK
  <1>. QED  BY <1>4, <1>5, <1>6, <1>7, <1>9, <1>10 DEF Scan!Next

\* What the first of the passes is given.
Given == [k \in DOMAIN scanned |-> Tokens(scanned[k].kind, Value(scanned[k]))]

LEMMA GivenFacts ==
    ASSUME ScanTyped, status = "scanned"
    PROVE  /\ Ended(Given)
           /\ \A t \in ToSet(Given) : Fits(t) /\ t.kind \in {"CP", "FSEP", "EOF"}
  <1>0. /\ Len(scanned) \in Nat \ {0} /\ DOMAIN scanned = 1 .. Len(scanned)
        /\ \A k \in 1 .. Len(scanned) : scanned[k] \in ScanToken
    BY LenProperties, ElementOfSeq DEF ScanTyped
  <1>. DEFINE n == Len(scanned)
  <1>1. ASSUME NEW k \in 1 .. n
        PROVE  LET t == Tokens(scanned[k].kind, Value(scanned[k])) IN
                  /\ t \in Token /\ Fits(t) /\ t.kind \in {"CP", "FSEP", "EOF"}
                  /\ t = Eof <=> k = n
    <2>. DEFINE t == Tokens(scanned[k].kind, Value(scanned[k]))
    <2>1. scanned[k].kind \in {"CP", "FSEP", "EOF"}
      BY <1>0 DEF ScanToken
    <2>2. scanned[k].kind = "EOF" <=> k = n
      BY <1>0 DEF ScanTyped
    <2>3. CASE scanned[k].kind = "EOF"
      <3>1. t = Eof
        BY <2>3 DEF Value, Tokens, Eof
      <3>2. Fits(Eof)
        BY EofIsToken DEF Fits
      <3>. QED  BY <2>2, <2>3, <3>1, <3>2, EofIsToken
    <2>4. CASE scanned[k].kind = "CP"
      <3>1. scanned[k].value \in CodePoints
        BY <2>4 DEF ScanTyped
      <3>2. Value(scanned[k]) = <<scanned[k].value>>
        BY <2>4 DEF Value
      <3>3. t.kind = "CP" /\ t.value = <<scanned[k].value>> /\ t \in Token
        BY <2>4, <3>1, <3>2 DEF Tokens, Token, Kinds
      <3>. HIDE DEF t
      <3>4. Fits(t)
        BY <3>3 DEF Fits
      <3>5. t # Eof
        BY <3>3, EofIsToken
      <3>. QED  BY <2>2, <2>4, <3>3, <3>4, <3>5 DEF t
    <2>5. CASE scanned[k].kind = "FSEP"
      <3>1. "\f" \in CodePoints
        BY CharactersAssumption
      <3>2. Value(scanned[k]) = <<"\f">>
        BY <2>5 DEF Value
      <3>3. t.kind = "FSEP" /\ t.value = <<"\f">> /\ t \in Token
        BY <2>5, <3>1, <3>2 DEF Tokens, Token, Kinds
      <3>. HIDE DEF t
      <3>4. Fits(t)
        BY <3>3 DEF Fits
      <3>5. t # Eof
        BY <3>3, EofIsToken
      <3>. QED  BY <2>2, <2>5, <3>3, <3>4, <3>5 DEF t
    <2>. QED  BY <2>1, <2>3, <2>4, <2>5
  <1>2. Given = [k \in 1 .. n |-> Tokens(scanned[k].kind, Value(scanned[k]))]
    BY <1>0 DEF Given
  <1>3. \A k \in 1 .. n : Given[k] \in Token /\ (Given[k] = Eof <=> k = n)
                          /\ Fits(Given[k]) /\ Given[k].kind \in {"CP", "FSEP", "EOF"}
    <2>1. \A k \in 1 .. n : Given[k] = Tokens(scanned[k].kind, Value(scanned[k]))
      BY <1>2
    <2>. QED  BY <1>1, <2>1
  <1>4. DOMAIN Given = 1 .. n
    BY <1>2
  <1>5. Given \in Seq(Token) /\ Len(Given) = n
    <2>1. Given \in [1 .. n -> Token]
      BY <1>2, <1>1
    <2>2. \A g \in [1 .. n -> Token] : g \in Seq(Token) /\ Len(g) = n
      BY <1>0
    <2>. QED  BY <2>1, <2>2
  <1>6. Ended(Given)
    <2>1. \A k \in 1 .. Len(Given) : Given[k] = Eof <=> k = Len(Given)
      BY <1>3, <1>5
    <2>2. Len(Given) > 0
      BY <1>0, <1>5
    <2>. HIDE DEF Given
    <2>. QED  BY <1>5, <2>1, <2>2 DEF Ended
  <1>7. \A t \in ToSet(Given) : \E k \in 1 .. n : t = Given[k]
    BY <1>4 DEF ToSet
  <1>. QED  BY <1>3, <1>6, <1>7

-------------------------------------------------------------------------------
\* The words.

\* The tokens are typed and as they should be, and so are those of the scan.
WordsTyped == PassesTyped /\ ScanTyped

LEMMA WordsTypedInit ==
    ASSUME Init
    PROVE  WordsTyped
  <1>1. PassesTyped
    <2>1. <<>> \in Seq(Token) /\ Len(<<>>) = 0
      BY EmptySeq
    <2>2. \A k \in 1 .. Len(<<>>) : FALSE
      BY <2>1
    <2>. QED  BY <2>1, <2>2 DEF Init, PassesInit, PassesTyped, RemoveSpaces
  <1>. QED  BY <1>1, ScanTypedInit DEF Init, WordsTyped

LEMMA StartFirstTyped ==
    ASSUME PassesTyped, ScanTyped, StartFirst
    PROVE  /\ PassesTyped'
           /\ pass' = Integer /\ input' = Given /\ before' = Given /\ output' = <<>>
  <1>1. Ended(Given)
    BY GivenFacts DEF StartFirst
  <1>2. /\ pass' = Integer /\ input' = Given /\ before' = Given /\ output' = output
        /\ output = <<>>
    BY DEF StartFirst, StartPasses, Given, PassesTyped
  <1>3. \A k \in 1 .. Len(output') : FALSE
    BY <1>2
  <1>. QED  BY <1>1, <1>2, <1>3, EndedFacts DEF PassesTyped, Integer, RemoveSpaces

LEMMA WordsTypedStep ==
    ASSUME WordsTyped, [Next]_vars
    PROVE  WordsTyped'
  <1>1. CASE ScanStep
    <2>1. ScanTyped'
      BY <1>1, ScanTypedStep DEF ScanStep, WordsTyped
    <2>2. PassesTyped'
      BY <1>1 DEF ScanStep, WordsTyped, passesVars, PassesTyped, Ended
    <2>. QED  BY <2>1, <2>2 DEF WordsTyped
  <1>2. CASE StartFirst
    <2>1. ScanTyped'
      BY <1>2 DEF StartFirst, WordsTyped, scanVars, ScanTyped
    <2>2. PassesTyped'
      BY <1>2, StartFirstTyped DEF WordsTyped
    <2>. QED  BY <2>1, <2>2 DEF WordsTyped
  <1>3. CASE ParseStep
    <2>1. ScanTyped'
      BY <1>3 DEF ParseStep, WordsTyped, scanVars, ScanTyped
    <2>2. CASE RejectString
      BY <2>1, <2>2 DEF RejectString, WordsTyped, PassesTyped, Ended
    <2>3. CASE ~ RejectString
      <3>1. PICK lhs, n : Shape(lhs, n)
        BY <1>3, <2>3, ParseShape DEF ParseStep, WordsTyped
      <3>2. pass # 0 /\ pass # RemoveSpaces + 1
        BY <1>3, <2>3, ParseShape DEF ParseStep, WordsTyped
      <3>3. PassesTyped'
        BY <3>1, <3>2, TypedStep DEF WordsTyped
      <3>. QED  BY <2>1, <3>3 DEF WordsTyped
    <2>. QED  BY <2>2, <2>3
  <1>4. CASE UNCHANGED vars
    BY <1>4 DEF vars, passesVars, scanVars, WordsTyped, PassesTyped, ScanTyped, Ended
  <1>. QED  BY <1>1, <1>2, <1>3, <1>4 DEF Next

\* The passes and the scan keep to their types, for all texts and whatever the
\* properties of the code points are.
THEOREM WordsAreTyped == Spec => []WordsTyped
  <1>. QED  BY WordsTypedInit, WordsTypedStep, PTL DEF Spec

LEMMA EndsOnceHolds ==
    ASSUME PassesTyped
    PROVE  EndsOnce
  <1>1. CASE pass = 0
    <2>1. Now = <<>>
      BY <1>1 DEF PassesTyped, Now
    <2>. QED  BY <2>1 DEF EndsOnce
  <1>2. CASE pass # 0
    <2>1. /\ Ended(input) /\ input \in Seq(Token) /\ output \in Seq(Token)
          /\ Len(input) \in Nat \ {0} /\ Len(output) \in Nat
      BY <1>2, EndedFacts, LenProperties DEF PassesTyped
    <2>2. /\ Now \in Seq(Token) /\ Len(Now) = Len(output) + Len(input)
          /\ \A k \in 1 .. Len(output) + Len(input) :
                Now[k] = IF k <= Len(output) THEN output[k] ELSE input[k - Len(output)]
      BY <2>1, ConcatProperties DEF Now
    <2>3. \A k \in 1 .. Len(output) : output[k] # Eof
      BY DEF PassesTyped
    <2>4. \A k \in 1 .. Len(input) : input[k] = Eof <=> k = Len(input)
      BY <2>1 DEF Ended
    <2>5. ASSUME NEW k \in 1 .. Len(Now) PROVE Now[k] = Eof <=> k = Len(Now)
      <3>1. CASE k <= Len(output)
        BY <2>1, <2>2, <2>3, <3>1
      <3>2. CASE ~ (k <= Len(output))
        <4>1. PICK m \in 1 .. Len(input) : k = Len(output) + m
          <5>1. k - Len(output) \in 1 .. Len(input) /\ k = Len(output) + (k - Len(output))
            BY <2>1, <2>2, <3>2
          <5>. QED  BY <5>1
        <4>2. Now[k] = input[m]
          BY <2>1, <2>2, <3>2, <4>1
        <4>3. k = Len(Now) <=> m = Len(input)
          <5>1. Len(Now) = Len(output) + Len(input)
            BY <2>2
          <5>2. m \in Int /\ Len(input) \in Int /\ Len(output) \in Int
            BY <2>1
          <5>. QED  BY <4>1, <5>1, <5>2
        <4>4. input[m] = Eof <=> m = Len(input)
          BY <2>4
        <4>. QED  BY <4>2, <4>3, <4>4
      <3>. QED  BY <3>1, <3>2
    <2>6. DOMAIN Now = 1 .. Len(Now)
      BY <2>2, LenProperties
    <2>. QED  BY <2>5, <2>6 DEF EndsOnce
  <1>. QED  BY <1>1, <1>2

\* The EOF token is the last one of each pass, and there is no other.
THEOREM EndingOnce == Spec => []EndsOnce
  <1>1. WordsTyped => EndsOnce
    BY EndsOnceHolds DEF WordsTyped
  <1>. QED  BY <1>1, WordsAreTyped, PTL

-------------------------------------------------------------------------------
\* Nothing is lost.

LEMMA NothingLostInit ==
    ASSUME Init
    PROVE  NothingLost
  <1>1. pass = 0 /\ Now = <<>> /\ before = <<>>
    BY DEF Init, PassesInit, Now
  <1>. QED  BY <1>1 DEF NothingLost, RemoveSpaces

LEMMA NothingLostAlways ==
    ASSUME WordsTyped, WordsTyped', NothingLost, [Next]_vars
    PROVE  NothingLost'
  <1>1. ASSUME UNCHANGED <<pass, input, output, before>> PROVE NothingLost'
    BY <1>1 DEF NothingLost, Now
  <1>2. CASE StartFirst
    <2>1. pass' = Integer /\ input' = Given /\ before' = Given /\ output' = <<>>
      BY <1>2, StartFirstTyped DEF WordsTyped
    <2>2. Now' = before'
      <3>1. Given \in Seq(Token)
        BY <1>2, GivenFacts, EndedFacts DEF StartFirst, WordsTyped
      <3>. QED  BY <2>1, <3>1, ConcatEmptySeq DEF Now
    <2>. QED  BY <2>1, <2>2 DEF NothingLost, Integer, RemoveSpaces
  <1>3. CASE ParseStep /\ ~ RejectString
    <2>1. PICK lhs, n : Shape(lhs, n)
      BY <1>3, ParseShape DEF ParseStep, WordsTyped
    <2>2. pass \notin {0, RemoveSpaces + 1}
      BY <1>3, ParseShape DEF ParseStep, WordsTyped
    <2>. QED  BY <2>1, <2>2, NothingLostStep DEF WordsTyped
  <1>4. CASE ParseStep /\ RejectString
    BY <1>1, <1>4 DEF RejectString
  <1>. QED  BY <1>1, <1>2, <1>3, <1>4
            DEF Next, ScanStep, ParseStep, vars, passesVars

\* No pass loses, changes or doubles text, whatever the passes before it have
\* made of it; the pass that removes spaces removes nothing else.
THEOREM NothingIsLost == Spec => []NothingLost
  <1>. QED  BY WordsAreTyped, NothingLostInit, NothingLostAlways, PTL DEF Spec

-------------------------------------------------------------------------------
\* The values of joined tokens.

\* The text of tokens of one code point each.
LEMMA TextOfSingles ==
    ASSUME NEW s \in Seq(Token), \A k \in 1 .. Len(s) : Len(s[k].value) = 1
    PROVE  /\ Text(s) \in Seq(CodePoints) /\ Len(Text(s)) = Len(s)
           /\ \A k \in 1 .. Len(s) : Text(s)[k] = s[k].value[1]
  <1>. DEFINE v(n) == Text(SubSeq(s, 1, n))
              S == {n \in 0 .. Len(s) :
                      Len(v(n)) = n /\ \A k \in 1 .. n : v(n)[k] = s[k].value[1]}
  <1>0. Len(s) \in Nat
    BY LenProperties
  <1>1. 0 \in S
    <2>1. SubSeq(s, 1, 0) = <<>>
      BY SubSeqEmpty
    <2>2. Text(SubSeq(s, 1, 0)) = <<>>
      BY <2>1, TextEmpty
    <2>3. Len(v(0)) = 0
      BY <2>2
    <2>. HIDE DEF v
    <2>. QED  BY <1>0, <2>3
  <1>2. ASSUME NEW n \in 0 .. Len(s) - 1, n \in S PROVE n + 1 \in S
    <2>1. PICK m \in 1 .. Len(s) : m = n + 1
      BY <1>0
    <2>2. m - 1 = n /\ m \in Nat /\ m \in 0 .. Len(s)
      BY <1>0, <2>1
    <2>3. /\ Len(v(m)) = Len(v(m - 1)) + Len(s[m].value)
          /\ \A k \in 1 .. Len(v(m - 1)) : v(m)[k] = v(m - 1)[k]
          /\ \A k \in 1 .. Len(s[m].value) : v(m)[Len(v(m - 1)) + k] = s[m].value[k]
      BY TextBegins
    <2>4. Len(s[m].value) = 1
      OBVIOUS
    <2>5. Len(v(n)) = n /\ \A k \in 1 .. n : v(n)[k] = s[k].value[1]
      BY <1>2
    <2>. HIDE DEF v
    <2>6. /\ Len(v(m)) = n + 1
          /\ \A k \in 1 .. n : v(m)[k] = v(n)[k]
          /\ v(m)[n + 1] = s[m].value[1]
      BY <2>2, <2>3, <2>4, <2>5
    <2>7. \A k \in 1 .. m : v(m)[k] = s[k].value[1]
      <3>1. \A k \in 1 .. m : k = m \/ k \in 1 .. n
        BY <2>1, <2>2
      <3>. QED  BY <2>1, <2>5, <2>6, <3>1
    <2>8. m \in S
      BY <2>1, <2>2, <2>6, <2>7
    <2>. QED  BY <2>1, <2>8
  <1>3. Len(s) \in S
    <2>. HIDE DEF S
    <2>1. \A n \in 0 .. Len(s) : n \in S
      BY <1>0, <1>1, <1>2, InductionUpTo
    <2>. QED  BY <2>1, <1>0
  <1>4. v(Len(s)) = Text(s)
    <2>1. SubSeq(s, 1, Len(s)) = s
      BY SubSeqFull
    <2>. QED  BY <2>1
  <1>. QED  BY <1>3, <1>4, TextType

\* What Joined says of a run, as Spaced says it of a value.
LEMMA RunFits ==
    ASSUME Ended(input), NEW starts, NEW continues, NEW n \in 1 .. Len(input) - 1,
           Is(starts, tok), Joined(continues, SubSeq(input, 2, n)),
           starts \subseteq continues, starts \cap Connectors = {}
    PROVE  /\ Text(SubSeq(input, 1, n)) # <<>>
           /\ Spaced(Text(SubSeq(input, 1, n)), starts, continues)
  <1>. DEFINE s == SubSeq(input, 1, n)
              run == SubSeq(input, 2, n)
              v == Text(s)
  <1>0. /\ Len(input) \in Nat /\ n \in Nat \ {0} /\ n \in 1 .. Len(input) /\ tok = input[1]
        /\ \A k \in 1 .. Len(input) : input[k] \in Token
    BY EndedFacts, LookAtFacts
  <1>1. s \in Seq(Token) /\ Len(s) = n /\ \A k \in 1 .. n : s[k] = input[k]
    BY <1>0, PartsOfInput
  <1>2. Len(run) = n - 1 /\ DOMAIN run = 1 .. n - 1 /\ \A k \in 1 .. n - 1 : run[k] = input[k + 1]
    <2>1. \A k \in 2 .. n : input[k] \in Token
      BY <1>0
    <2>2. /\ run \in Seq(Token)
          /\ Len(run) = IF 2 <= n THEN n - 2 + 1 ELSE 0
          /\ \A k \in 1 .. n - 2 + 1 : run[k] = input[2 + k - 1]
      BY <1>0, <2>1, SubSeqProperties
    <2>3. Len(run) = n - 1 /\ n - 2 + 1 = n - 1 /\ \A k \in 1 .. n - 1 : 2 + k - 1 = k + 1
      BY <1>0, <2>2
    <2>4. DOMAIN run = 1 .. Len(run)
      BY <2>2, LenProperties
    <2>. QED  BY <2>2, <2>3, <2>4
  <1>. HIDE DEF s, run
  <1>3. ASSUME NEW k \in 1 .. n - 1
        PROVE  \/ Is(continues \ Connectors, input[k + 1])
               \/ /\ Is(Connectors, input[k + 1]) /\ k < n - 1
                  /\ Is(continues \ Connectors, input[k + 2])
    <2>0. Joined(continues, run)
      BY DEF run
    <2>1. \/ Is(continues \ Connectors, run[k])
          \/ /\ Is(Connectors, run[k])
             /\ k < Len(run) /\ Is(continues \ Connectors, run[k + 1])
      BY <1>2, <2>0 DEF Joined
    <2>2. run[k] = input[k + 1] /\ Len(run) = n - 1
      BY <1>2
    <2>3. k < n - 1 => run[k + 1] = input[k + 2]
      <3>1. ASSUME k < n - 1 PROVE run[k + 1] = input[k + 2]
        <4>1. PICK m \in 1 .. n - 1 : m = k + 1
          BY <1>0, <3>1
        <4>2. run[m] = input[m + 1] /\ m + 1 = k + 2
          BY <1>2, <4>1
        <4>. QED  BY <4>1, <4>2
      <3>. QED  BY <3>1
    <2>. QED  BY <2>1, <2>2, <2>3
  <1>4. \A k \in 1 .. n : Len(s[k].value) = 1
    <2>1. ASSUME NEW k \in 1 .. n PROVE Len(input[k].value) = 1
      <3>1. CASE k = 1
        BY <3>1, <1>0 DEF Is
      <3>2. CASE k # 1
        <4>1. PICK m \in 1 .. n - 1 : k = m + 1
          <5>1. k - 1 \in 1 .. n - 1 /\ k = (k - 1) + 1
            BY <3>2, <1>0
          <5>. QED  BY <5>1
        <4>. QED  BY <4>1, <1>3 DEF Is
      <3>. QED  BY <3>1, <3>2
    <2>. QED  BY <1>1, <2>1
  <1>5. v \in Seq(CodePoints) /\ Len(v) = n /\ \A k \in 1 .. n : v[k] = input[k].value[1]
    BY <1>1, <1>4, TextOfSingles
  <1>. HIDE DEF v
  <1>6. DOMAIN v = 1 .. n /\ v # <<>>
    BY <1>0, <1>5, LenProperties, EmptySeq
  <1>7. v[1] \in starts
    BY <1>0, <1>5 DEF Is
  <1>8. ASSUME NEW k \in 2 .. n
        PROVE  \/ v[k] \in continues \ Connectors
               \/ v[k] \in Connectors /\ k < n /\ v[k + 1] \in continues \ Connectors
    <2>1. PICK m \in 1 .. n - 1 : k = m + 1
      <3>1. k - 1 \in 1 .. n - 1 /\ k = (k - 1) + 1
        BY <1>0
      <3>. QED  BY <3>1
    <2>2. v[k] = input[m + 1].value[1] /\ m + 1 \in 1 .. n
      BY <2>1, <1>0, <1>5
    <2>3. m < n - 1 => k < n /\ v[k + 1] = input[m + 2].value[1]
      <3>1. ASSUME m < n - 1 PROVE k < n /\ v[k + 1] = input[m + 2].value[1]
        <4>1. PICK l \in 1 .. n : l = k + 1
          BY <1>0, <2>1, <3>1
        <4>2. v[l] = input[l].value[1] /\ l = m + 2 /\ k < n
          BY <1>5, <2>1, <4>1
        <4>. QED  BY <4>1, <4>2
      <3>. QED  BY <3>1
    <2>. QED  BY <2>2, <2>3, <1>3 DEF Is
  <1>9. \A k \in DOMAIN v : v[k] \in continues \cup Connectors
    <2>1. \A k \in 1 .. n : k = 1 \/ k \in 2 .. n
      BY <1>0
    <2>. QED  BY <2>1, <1>6, <1>7, <1>8
  <1>10. Last(v) \notin Connectors
    <2>1. Last(v) = v[n]
      BY <1>5 DEF Last
    <2>2. n = 1 \/ n \in 2 .. n
      BY <1>0
    <2>3. ~ (n < n)
      BY <1>0
    <2>. QED  BY <2>1, <2>2, <2>3, <1>7, <1>8
  <1>11. ASSUME NEW k \in 1 .. Len(v) - 1
         PROVE  ~ (v[k] \in Connectors /\ v[k + 1] \in Connectors)
    <2>1. k = 1 \/ k \in 2 .. n
      BY <1>0, <1>5
    <2>. QED  BY <2>1, <1>7, <1>8
  <1>12. Spaced(v, starts, continues)
    BY <1>7, <1>9, <1>10, <1>11 DEF Spaced
  <1>. QED  BY <1>6, <1>12 DEF v, s

-------------------------------------------------------------------------------
\* Words of their kinds.

LEMMA FitsByKind ==
    ASSUME NEW t
    PROVE  /\ t.kind = "I10" => (Fits(t) <=> IsInteger(t.value))
           /\ t.kind = "ID" => (Fits(t) <=> Spaced(t.value, IdStarts, IdContinues))
           /\ t.kind = "I.I10" => (Fits(t) <=> IsWithPoint(t.value))
           /\ t.kind = "R10" => (Fits(t) <=> Parts(t.value, IsInteger, Slashes))
           /\ t.kind = "F10" => (Fits(t) <=> Parts(t.value, IsWithPoint, ExponentStarts))
           /\ t.kind = "SY" => (Fits(t) <=> ToSet(t.value) \subseteq SymbolParts)
           /\ t.kind = "SP" => (Fits(t) <=> Is(WhiteSpaces, t))
           /\ t.kind = "KW" => (Fits(t) <=> t.value \in Keywords)
           /\ t.kind = "STR" => (Fits(t) <=> IsQuoted(t.value))
           /\ t.kind = "CO" => (Fits(t) <=> t.value[1] = "%" /\ Len(t.value) > 1)
           /\ t.kind \in {"CP", "FSEP"} => (Fits(t) <=> Len(t.value) = 1)
           /\ t.kind = "EOF" => (Fits(t) <=> t = Eof)
  BY DEF Fits

LEMMA EofFits == Fits(Eof)
  BY EofIsToken, FitsByKind

\* The two parts of a text.
LEMMA PartsOfConcat ==
    ASSUME NEW x \in Seq(CodePoints), NEW y \in Seq(CodePoints)
    PROVE  /\ x \o y \in Seq(CodePoints) /\ Len(x \o y) = Len(x) + Len(y)
           /\ SubSeq(x \o y, 1, Len(x)) = x
           /\ SubSeq(x \o y, Len(x) + 1, Len(x \o y)) = y
  <1>. DEFINE v == x \o y
  <1>0. Len(x) \in Nat /\ Len(y) \in Nat
    BY LenProperties
  <1>1. /\ v \in Seq(CodePoints) /\ Len(v) = Len(x) + Len(y)
        /\ \A k \in 1 .. Len(v) : v[k] = IF k <= Len(x) THEN x[k] ELSE y[k - Len(x)]
    BY ConcatProperties
  <1>2. \A k \in 1 .. Len(v) : v[k] \in CodePoints
    BY <1>1, ElementOfSeq
  <1>. HIDE DEF v
  <1>3. SubSeq(v, 1, Len(x)) = x
    <2>1. /\ SubSeq(v, 1, Len(x)) \in Seq(CodePoints)
          /\ Len(SubSeq(v, 1, Len(x))) = IF 1 <= Len(x) THEN Len(x) - 1 + 1 ELSE 0
          /\ \A k \in 1 .. Len(x) - 1 + 1 : SubSeq(v, 1, Len(x))[k] = v[1 + k - 1]
      BY <1>0, <1>1, <1>2, SubSeqProperties
    <2>. DEFINE u == SubSeq(v, 1, Len(x))
    <2>2. Len(u) = Len(x) /\ \A k \in 1 .. Len(x) : u[k] = x[k]
      BY <1>0, <1>1, <2>1
    <2>3. u \in Seq(CodePoints)
      BY <2>1
    <2>. HIDE DEF u
    <2>4. u = x
      BY <2>2, <2>3, SeqEqual
    <2>. QED  BY <2>4 DEF u
  <1>4. SubSeq(v, Len(x) + 1, Len(v)) = y
    <2>. DEFINE u == SubSeq(v, Len(x) + 1, Len(v))
    <2>1. /\ u \in Seq(CodePoints)
          /\ Len(u) = IF Len(x) + 1 <= Len(v) THEN Len(v) - (Len(x) + 1) + 1 ELSE 0
          /\ \A k \in 1 .. Len(v) - (Len(x) + 1) + 1 : u[k] = v[Len(x) + 1 + k - 1]
      BY <1>0, <1>1, <1>2, SubSeqProperties
    <2>. HIDE DEF u
    <2>2. Len(u) = Len(y) /\ Len(v) - (Len(x) + 1) + 1 = Len(y)
      BY <1>0, <1>1, <2>1
    <2>3. ASSUME NEW k \in 1 .. Len(y) PROVE u[k] = y[k]
      <3>1. PICK m \in 1 .. Len(v) : m = Len(x) + k
        BY <1>0, <1>1
      <3>2. u[k] = v[m] /\ m - Len(x) = k /\ ~ (m <= Len(x))
        <4>1. Len(x) + 1 + k - 1 = m
          BY <1>0, <3>1
        <4>2. u[k] = v[Len(x) + 1 + k - 1]
          BY <2>1, <2>2
        <4>3. u[k] = v[m]
          BY <4>1, <4>2
        <4>. QED  BY <1>0, <3>1, <4>3
      <3>3. v[m] = y[m - Len(x)]
        BY <1>1, <3>2
      <3>. QED  BY <3>2, <3>3
    <2>4. u = y
      BY <2>1, <2>2, <2>3, SeqEqual
    <2>. QED  BY <2>4 DEF u
  <1>. QED  BY <1>1, <1>3, <1>4 DEF v

\* A value of three parts.
IsOfThree(v, a, m, b) ==
    \E k, l \in DOMAIN v :
       /\ k < l
       /\ SubSeq(v, 1, k - 1) = a
       /\ SubSeq(v, k, l - 1) = m
       /\ SubSeq(v, l, Len(v)) = b

LEMMA PartsOf ==
    ASSUME NEW a \in Seq(CodePoints), NEW m \in Seq(CodePoints), NEW b \in Seq(CodePoints),
           a # <<>>, m # <<>>, b # <<>>
    PROVE  IsOfThree((a \o m) \o b, a, m, b)
  <1>0. Len(a) \in Nat \ {0} /\ Len(m) \in Nat \ {0} /\ Len(b) \in Nat \ {0}
    BY EmptySeq, LenProperties
  <1>. DEFINE w == a \o m
              v == w \o b
  <1>1. /\ w \in Seq(CodePoints) /\ Len(w) = Len(a) + Len(m)
        /\ SubSeq(w, 1, Len(a)) = a /\ SubSeq(w, Len(a) + 1, Len(w)) = m
    BY PartsOfConcat
  <1>. HIDE DEF w
  <1>2. /\ v \in Seq(CodePoints) /\ Len(v) = Len(w) + Len(b)
        /\ SubSeq(v, 1, Len(w)) = w /\ SubSeq(v, Len(w) + 1, Len(v)) = b
    BY <1>1, PartsOfConcat
  <1>3. \A s, t \in Seq(CodePoints) : \A k, l \in 1 .. Len(s) : SubSeq(s \o t, k, l) = SubSeq(s, k, l)
    BY SubSeqOfConcat1
  <1>4. SubSeq(v, 1, Len(a)) = a /\ SubSeq(v, Len(a) + 1, Len(w)) = m
    <2>1. Len(a) \in 1 .. Len(w) /\ Len(w) \in 1 .. Len(w) /\ 1 \in 1 .. Len(w)
          /\ Len(a) + 1 \in 1 .. Len(w)
      BY <1>0, <1>1
    <2>2. SubSeq(v, 1, Len(a)) = SubSeq(w, 1, Len(a))
      BY <1>1, <1>3, <2>1
    <2>3. SubSeq(v, Len(a) + 1, Len(w)) = SubSeq(w, Len(a) + 1, Len(w))
      BY <1>1, <1>3, <2>1
    <2>. QED  BY <1>1, <2>2, <2>3
  <1>. HIDE DEF v
  <1>5. PICK k \in Nat : k = Len(a) + 1
    BY <1>0
  <1>6. PICK l \in Nat : l = Len(w) + 1
    BY <1>0, <1>1
  <1>7. k \in DOMAIN v /\ l \in DOMAIN v /\ k < l /\ k - 1 = Len(a) /\ l - 1 = Len(w)
    <2>1. DOMAIN v = 1 .. Len(v)
      BY <1>2, LenProperties
    <2>. QED  BY <2>1, <1>0, <1>1, <1>2, <1>5, <1>6
  <1>8. SubSeq(v, 1, k - 1) = a /\ SubSeq(v, k, l - 1) = m /\ SubSeq(v, l, Len(v)) = b
    BY <1>2, <1>4, <1>5, <1>6, <1>7
  <1>9. IsOfThree(v, a, m, b)
    BY <1>7, <1>8 DEF IsOfThree
  <1>. QED  BY <1>9 DEF v, w

-------------------------------------------------------------------------------
\* The tokens that the passes make.

InputFits == \A k \in 1 .. Len(input) : Fits(input[k])

EarlyKinds == {"EOF", "CP", "FSEP", "I10", "ID"}

InputEarly == \A k \in 1 .. Len(input) : input[k].kind \in EarlyKinds

LEMMA RunsFit ==
    ASSUME Ended(input), NEW n
    PROVE  /\ StartsInteger /\ n = RunLength(Digits) => IsInteger(Text(SubSeq(input, 1, n)))
           /\ StartsIdentifier /\ n = RunLength(IdContinues) =>
                 Spaced(Text(SubSeq(input, 1, n)), IdStarts, IdContinues)
  <1>0. /\ Digits \subseteq Digits /\ Digits \cap Connectors = {}
        /\ IdStarts \subseteq IdContinues /\ IdStarts \cap Connectors = {}
    BY CharactersAssumption
  <1>1. ASSUME StartsInteger, n = RunLength(Digits)
        PROVE  IsInteger(Text(SubSeq(input, 1, n)))
    <2>1. Is(Digits, tok) /\ tok.kind # "EOF"
      BY <1>1 DEF StartsInteger
    <2>2. n \in 1 .. Len(input) - 1 /\ Joined(Digits, SubSeq(input, 2, n))
      BY <1>1, <2>1, RunLengthFacts
    <2>. QED  BY <1>0, <2>1, <2>2, RunFits DEF IsInteger
  <1>2. ASSUME StartsIdentifier, n = RunLength(IdContinues)
        PROVE  Spaced(Text(SubSeq(input, 1, n)), IdStarts, IdContinues)
    <2>1. Is(IdStarts, tok) /\ tok.kind # "EOF"
      BY <1>2 DEF StartsIdentifier
    <2>2. n \in 1 .. Len(input) - 1 /\ Joined(IdContinues, SubSeq(input, 2, n))
      BY <1>2, <2>1, RunLengthFacts
    <2>. QED  BY <1>0, <2>1, <2>2, RunFits
  <1>. QED  BY <1>1, <1>2

LEMMA SymbolFits ==
    ASSUME Ended(input), StartsSymbol
    PROVE  ToSet(Text(SubSeq(input, 1, SymbolLength))) \subseteq SymbolParts
  <1>. DEFINE n == SymbolLength
              s == SubSeq(input, 1, n)
              v == Text(s)
  <1>1. n \in 1 .. Len(input) - 1 /\ \A k \in 1 .. n : Is(SymbolParts, input[k])
    BY SymbolLengthFacts DEF StartsSymbol
  <1>. HIDE DEF n
  <1>2. n \in 1 .. Len(input) /\ n \in Nat
    BY <1>1, EndedFacts
  <1>3. s \in Seq(Token) /\ Len(s) = n /\ \A k \in 1 .. n : s[k] = input[k]
    BY <1>2, PartsOfInput
  <1>. HIDE DEF s
  <1>4. \A k \in 1 .. n : Len(s[k].value) = 1 /\ s[k].value[1] \in SymbolParts
    BY <1>1, <1>3 DEF Is
  <1>5. v \in Seq(CodePoints) /\ Len(v) = n /\ \A k \in 1 .. n : v[k] = s[k].value[1]
    BY <1>3, <1>4, TextOfSingles
  <1>. HIDE DEF v
  <1>6. DOMAIN v = 1 .. n
    BY <1>5, LenProperties
  <1>7. ToSet(v) \subseteq SymbolParts
    BY <1>4, <1>5, <1>6 DEF ToSet
  <1>. QED  BY <1>7 DEF v, s, n

\* A token that begins with a quote is no more than that, as none of the kinds
\* that there are before the pass of strings begins with one.
LEMMA QuoteIsOne ==
    ASSUME NEW t \in Token, Fits(t), t.kind \in EarlyKinds, t # Eof, t.value[1] = Quote
    PROVE  Len(t.value) = 1
  <1>1. Quote \notin Digits /\ Quote \notin IdStarts
    BY CharactersAssumption
  <1>2. CASE t.kind = "I10"
    BY <1>1, <1>2, FitsByKind DEF IsInteger, Spaced
  <1>3. CASE t.kind = "ID"
    BY <1>1, <1>3, FitsByKind DEF Spaced
  <1>4. CASE t.kind \in {"CP", "FSEP"}
    BY <1>4, FitsByKind
  <1>5. CASE t.kind = "EOF"
    BY <1>5, FitsByKind
  <1>. QED  BY <1>2, <1>3, <1>4, <1>5 DEF EarlyKinds

LEMMA StringFits ==
    ASSUME Ended(input), InputFits, InputEarly, StartsString, StringEnd[1] # Failed,
           NEW n \in DOMAIN input, Start(n) = StringEnd[1]
    PROVE  IsQuoted(Text(SubSeq(input, 1, n)))
  <1>. DEFINE r == StringEnd[1]
              front == Front(input)
              first == Text(SubSeq(front, 1, n - 1))
              v == Text(SubSeq(front, 1, n))
  <1>1. /\ n \in 1 .. Len(input) - 1 /\ r \in 2 .. Len(Ahead)
        /\ \A k \in 1 .. r : Open(Ahead, k) <=> k = 1 \/ k = r
    BY StringFacts
  <1>2. /\ front \in Seq(Token) /\ Len(front) = Len(input) - 1 /\ Ahead = Text(front)
        /\ \A m \in 0 .. Len(input) - 1 : SubSeq(front, 1, m) = SubSeq(input, 1, m)
        /\ \A m \in 1 .. Len(input) - 1 : front[m] = input[m]
        /\ Ahead \in Seq(CodePoints)
    BY AheadFacts DEF StartsString
  <1>3. Len(Ahead) \in Nat /\ r \in Nat /\ n \in Nat /\ Len(input) \in Nat
    BY <1>1, <1>2, EndedFacts, LenProperties
  <1>. HIDE DEF r, front
  <1>4. /\ first \in Seq(CodePoints) /\ v \in Seq(CodePoints)
        /\ Len(v) = Len(first) + Len(front[n].value)
        /\ Len(v) <= Len(Ahead)
        /\ \A k \in 1 .. Len(v) : v[k] = Ahead[k]
        /\ \A k \in 1 .. Len(front[n].value) : v[Len(first) + k] = front[n].value[k]
    <2>1. n \in 1 .. Len(front)
      BY <1>1, <1>2
    <2>. QED  BY <1>2, <2>1, TextBegins
  <1>5. front[n] = input[n] /\ input[n] \in Token /\ input[n] # Eof
        /\ Fits(input[n]) /\ input[n].kind \in EarlyKinds
    <2>1. n \in 1 .. Len(input) /\ n # Len(input)
      BY <1>1, <1>3
    <2>. QED  BY <1>1, <1>2, <2>1, EndedFacts DEF InputFits, InputEarly, Ended
  <1>6. r = Len(first) + 1
    <2>1. Start(n) = Len(Text(SubSeq(input, 1, n - 1))) + 1
      BY DEF Start
    <2>2. n - 1 \in 0 .. Len(input) - 1
      BY <1>1, <1>3
    <2>3. SubSeq(front, 1, n - 1) = SubSeq(input, 1, n - 1)
      BY <1>2, <2>2
    <2>. QED  BY <2>1, <2>3 DEF r
  <1>. DEFINE t == input[n]
  <1>7. Len(t.value) \in Nat \ {0}
    BY <1>5, TokenFacts
  <1>. HIDE DEF first, v
  <1>8. Len(first) \in Nat /\ Len(v) \in Nat
    BY <1>4, LenProperties
  <1>9. t.value[1] = Quote
    <2>1. v[Len(first) + 1] = t.value[1]
      <3>1. 1 \in 1 .. Len(t.value)
        BY <1>7
      <3>. QED  BY <1>4, <1>5, <3>1
    <2>2. r \in 1 .. Len(v)
      BY <1>4, <1>5, <1>6, <1>7, <1>8
    <2>3. v[r] = Ahead[r]
      BY <1>4, <2>2
    <2>4. Open(Ahead, r)
      BY <1>1, <1>3
    <2>5. v[r] = t.value[1]
      BY <1>6, <2>1
    <2>. QED  BY <2>3, <2>4, <2>5 DEF Open
  <1>10. Len(v) = r
    <2>1. Len(t.value) = 1
      BY <1>5, <1>9, QuoteIsOne
    <2>. QED  BY <1>4, <1>5, <1>6, <1>8, <2>1
  <1>11. ASSUME NEW k \in 1 .. r PROVE v[k] = Quote /\ Backslashes(v, k) % 2 = 0 <=> k = 1 \/ k = r
    <2>1. \A j \in 1 .. k - 1 : v[j] = Ahead[j]
      BY <1>3, <1>4, <1>10
    <2>2. Backslashes(v, k) = Backslashes(Ahead, k)
      BY <1>3, <2>1, BackslashesBefore
    <2>3. v[k] = Ahead[k]
      BY <1>4, <1>10
    <2>. QED  BY <1>1, <2>2, <2>3 DEF Open
  <1>12. DOMAIN v = 1 .. r
    BY <1>4, <1>10, LenProperties
  <1>13. {k \in DOMAIN v : v[k] = Quote /\ Backslashes(v, k) % 2 = 0} = {1, Len(v)}
    <2>1. 1 \in 1 .. r /\ r \in 1 .. r
      BY <1>1, <1>3
    <2>. QED  BY <1>10, <1>11, <1>12, <2>1
  <1>14. Len(v) > 1
    BY <1>1, <1>3, <1>10
  <1>15. IsQuoted(v)
    BY <1>13, <1>14 DEF IsQuoted
  <1>16. SubSeq(front, 1, n) = SubSeq(input, 1, n)
    BY <1>1, <1>2, <1>3
  <1>. QED  BY <1>15, <1>16 DEF v

-------------------------------------------------------------------------------
\* Numbers and comments.

\* The text of the first three tokens.
LEMMA TextOfThree ==
    ASSUME Ended(input), 3 \in 1 .. Len(input)
    PROVE  Text(SubSeq(input, 1, 3)) = (input[1].value \o input[2].value) \o input[3].value
  <1>. DEFINE s == SubSeq(input, 1, 3)
  <1>1. s \in Seq(Token) /\ Len(s) = 3 /\ \A k \in 1 .. 3 : s[k] = input[k]
    BY PartsOfInput
  <1>2. \A k \in 1 .. 3 : input[k] \in Token
    BY <1>1, ElementOfSeq
  <1>. DEFINE a == <<input[1]>>
              m == <<input[2]>>
              b == <<input[3]>>
  <1>3. a \in Seq(Token) /\ m \in Seq(Token) /\ b \in Seq(Token)
    BY <1>2
  <1>4. s = (a \o m) \o b
    <2>. HIDE DEF s
    <2>1. s = <<s[1], s[2], s[3]>>
      BY <1>1
    <2>. QED  BY <1>1, <2>1
  <1>5. Text(a) = input[1].value /\ Text(m) = input[2].value /\ Text(b) = input[3].value
    BY <1>2, TextOne
  <1>. HIDE DEF a, m, b
  <1>6. a \o m \in Seq(Token)
    BY <1>3, ConcatProperties
  <1>7. Text((a \o m) \o b) = Text(a \o m) \o Text(b) /\ Text(a \o m) = Text(a) \o Text(m)
    BY <1>3, <1>6, TextConcat
  <1>. QED  BY <1>4, <1>5, <1>7 DEF s

\* What Three finds is a value of three parts, if the token that it starts
\* with is.
LEMMA ThreeParts ==
    ASSUME Ended(input), InputFits, NEW kind, NEW values, Three(kind, values)
    PROVE  \E k, l \in DOMAIN Text(SubSeq(input, 1, 3)) :
              /\ k < l
              /\ SubSeq(Text(SubSeq(input, 1, 3)), 1, k - 1) = input[1].value
              /\ SubSeq(Text(SubSeq(input, 1, 3)), k, l - 1) \in values
              /\ IsInteger(SubSeq(Text(SubSeq(input, 1, 3)), l, Len(Text(SubSeq(input, 1, 3)))))
  <1>1. /\ 3 \in 1 .. Len(input) - 1
        /\ input[1].kind = kind /\ input[2].value \in values /\ input[3].kind = "I10"
    BY ThreeFacts
  <1>2. 3 \in 1 .. Len(input) /\ 1 \in 1 .. Len(input) /\ 2 \in 1 .. Len(input)
    BY <1>1, EndedFacts
  <1>3. input[1] \in Token /\ input[2] \in Token /\ input[3] \in Token
    BY <1>2, EndedFacts
  <1>. DEFINE a == input[1].value
              m == input[2].value
              b == input[3].value
              v == Text(SubSeq(input, 1, 3))
  <1>4. /\ a \in Seq(CodePoints) /\ a # <<>>
        /\ m \in Seq(CodePoints) /\ m # <<>>
        /\ b \in Seq(CodePoints) /\ b # <<>>
    BY <1>3, TokenFacts
  <1>5. v = (a \o m) \o b
    BY <1>2, TextOfThree
  <1>6. IsInteger(b)
    BY <1>1, <1>2, FitsByKind DEF InputFits
  <1>7. m \in values
    BY <1>1
  <1>. HIDE DEF a, m, b, v
  <1>8. \E k, l \in DOMAIN v :
              /\ k < l
              /\ SubSeq(v, 1, k - 1) = a
              /\ SubSeq(v, k, l - 1) = m
              /\ SubSeq(v, l, Len(v)) = b
    <2>1. IsOfThree((a \o m) \o b, a, m, b)
      BY <1>4, PartsOf
    <2>2. IsOfThree(v, a, m, b)
      BY <1>5, <2>1
    <2>. QED  BY <2>2 DEF IsOfThree
  <1>9. \E k, l \in DOMAIN v :
              /\ k < l
              /\ SubSeq(v, 1, k - 1) = a
              /\ SubSeq(v, k, l - 1) \in values
              /\ IsInteger(SubSeq(v, l, Len(v)))
    BY <1>6, <1>7, <1>8
  <1>. QED  BY <1>9 DEF v, a

LEMMA NumbersFit ==
    ASSUME Ended(input), InputFits
    PROVE  /\ HasPoint => IsWithPoint(Text(SubSeq(input, 1, 3)))
           /\ HasSlash => Parts(Text(SubSeq(input, 1, 3)), IsInteger, Slashes)
           /\ HasExponent => Parts(Text(SubSeq(input, 1, 3)), IsWithPoint, ExponentStarts)
  <1>. DEFINE v == Text(SubSeq(input, 1, 3))
  <1>1. ASSUME NEW kind, NEW values, Three(kind, values)
        PROVE  /\ Fits(input[1]) /\ input[1].kind = kind
               /\ \E k, l \in DOMAIN v :
                     /\ k < l
                     /\ SubSeq(v, 1, k - 1) = input[1].value
                     /\ SubSeq(v, k, l - 1) \in values
                     /\ IsInteger(SubSeq(v, l, Len(v)))
    <2>1. 1 \in 1 .. Len(input)
      BY EndedFacts
    <2>. QED  BY <1>1, <2>1, ThreeParts, ThreeFacts DEF InputFits
  <1>. HIDE DEF v
  <1>2. ASSUME HasPoint PROVE IsWithPoint(v)
    <2>1. Three("I10", {<<".">>})
      BY <1>2 DEF HasPoint
    <2>2. IsInteger(input[1].value)
      BY <1>1, <2>1, FitsByKind
    <2>. QED  BY <1>1, <2>1, <2>2 DEF IsWithPoint, Parts
  <1>3. ASSUME HasSlash PROVE Parts(v, IsInteger, Slashes)
    <2>1. Three("I10", Slashes)
      BY <1>3 DEF HasSlash
    <2>2. IsInteger(input[1].value)
      BY <1>1, <2>1, FitsByKind
    <2>. QED  BY <1>1, <2>1, <2>2 DEF Parts
  <1>4. ASSUME HasExponent PROVE Parts(v, IsWithPoint, ExponentStarts)
    <2>1. Three("I.I10", ExponentStarts)
      BY <1>4 DEF HasExponent
    <2>2. IsWithPoint(input[1].value)
      BY <1>1, <2>1, FitsByKind
    <2>. QED  BY <1>1, <2>1, <2>2 DEF Parts
  <1>. QED  BY <1>2, <1>3, <1>4 DEF v

\* Whatever it takes in, a comment begins with its sign.
LEMMA CommentFits ==
    ASSUME Ended(input), StartsComment, NEW n \in 2 .. Len(input)
    PROVE  LET v == Text(SubSeq(input, 1, n)) IN v[1] = "%" /\ Len(v) > 1
  <1>. DEFINE v == Text(SubSeq(input, 1, n))
              u == Text(SubSeq(input, 1, n - 1))
              w == Text(SubSeq(input, 1, 1))
  <1>0. /\ Len(input) \in Nat /\ n \in Nat /\ input \in Seq(Token) /\ tok = input[1]
        /\ tok \in Token /\ input[n] \in Token
    BY EndedFacts, LookAtFacts, ElementOfSeq
  <1>1. w = <<"%">>
    <2>1. SubSeq(input, 1, 1) = <<input[1]>>
      <3>. DEFINE one == SubSeq(input, 1, 1)
      <3>1. 1 \in 1 .. Len(input)
        BY <1>0
      <3>2. one \in Seq(Token) /\ Len(one) = 1 /\ one[1] = input[1]
        BY <3>1, PartsOfInput
      <3>. HIDE DEF one
      <3>3. one = <<input[1]>>
        BY <3>2
      <3>. QED  BY <3>3 DEF one
    <2>2. Text(<<input[1]>>) = input[1].value
      BY <1>0, TextOne
    <2>. QED  BY <1>0, <2>1, <2>2 DEF StartsComment
  <1>2. /\ \A k \in 1 .. Len(w) : w[k] = Text(input)[k]
        /\ Len(w) <= Len(Text(input))
    <2>1. 1 \in 1 .. Len(input)
      BY <1>0
    <2>. QED  BY <1>0, <2>1, TextBegins
  <1>3. /\ u \in Seq(CodePoints) /\ v \in Seq(CodePoints)
        /\ Len(v) = Len(u) + Len(input[n].value)
        /\ \A k \in 1 .. Len(v) : v[k] = Text(input)[k]
    <2>1. n \in 1 .. Len(input)
      BY <1>0
    <2>. QED  BY <1>0, <2>1, TextBegins
  <1>4. u # <<>>
    <2>1. n - 1 \in 1 .. Len(input)
      BY <1>0
    <2>. QED  BY <2>1, JoinedTokens
  <1>5. Len(input[n].value) \in Nat \ {0}
    BY <1>0, TokenFacts
  <1>. HIDE DEF u, v, w
  <1>6. Len(u) \in Nat \ {0}
    BY <1>3, <1>4, EmptySeq, LenProperties
  <1>7. Len(v) > 1
    BY <1>3, <1>5, <1>6
  <1>8. v[1] = "%"
    <2>1. Len(w) = 1 /\ w[1] = "%"
      BY <1>1
    <2>2. 1 \in 1 .. Len(w) /\ 1 \in 1 .. Len(v)
      BY <1>7, <2>1, <1>3, LenProperties
    <2>. QED  BY <1>2, <1>3, <2>1, <2>2
  <1>. QED  BY <1>7, <1>8 DEF v

-------------------------------------------------------------------------------
\* The kinds of tokens, through a step.

\* A step puts what fits, where what it is given does.  Before the pass of
\* strings, it is of a kind that is put early.
LEMMA ParseFits ==
    ASSUME PassesTyped, NextParse, ~ RejectString, InputFits,
           pass <= String => InputEarly
    PROVE  \E lhs, n : /\ Shape(lhs, n)
                       /\ Fits(lhs)
                       /\ pass < String => lhs.kind \in EarlyKinds
  <1>1. ASSUME NEW kind, NEW n, JoiningStep(kind, n)
        PROVE  /\ Shape(Tokens(kind, Text(SubSeq(input, 1, n))), n)
               /\ Fits(Tokens(kind, Text(SubSeq(input, 1, n))))
               /\ pass < String => Tokens(kind, Text(SubSeq(input, 1, n))).kind \in EarlyKinds
    <2>1. /\ Passing /\ Ended(input) /\ n \in 1 .. Len(input) - 1
          /\ Shape(Tokens(kind, Text(SubSeq(input, 1, n))), n)
          /\ Len(input) \in Nat
      BY <1>1, JoiningShape, EndedFacts DEF Passing
    <2>. DEFINE v == Text(SubSeq(input, 1, n))
                t == Tokens(kind, v)
    <2>2. t.kind = kind /\ t.value = v
      BY DEF Tokens
    <2>. HIDE DEF v, t
    <2>3. Fits(t) /\ (pass < String => kind \in EarlyKinds)
      <3>1. CASE ScanInteger /\ kind = "I10" /\ n = RunLength(Digits)
        <4>1. IsInteger(v)
          BY <2>1, <3>1, RunsFit DEF ScanInteger, v
        <4>. QED  BY <2>2, <3>1, <4>1, FitsByKind DEF EarlyKinds
      <3>2. CASE ScanIdentifier /\ kind = "ID" /\ n = RunLength(IdContinues)
        <4>1. Spaced(v, IdStarts, IdContinues)
          BY <2>1, <3>2, RunsFit DEF ScanIdentifier, v
        <4>. QED  BY <2>2, <3>2, <4>1, FitsByKind DEF EarlyKinds
      <3>3. CASE ScanSymbol /\ kind = "SY" /\ n = SymbolLength
        <4>1. ToSet(v) \subseteq SymbolParts
          BY <2>1, <3>3, SymbolFits DEF ScanSymbol, v
        <4>2. ~ (pass < String)
          BY <3>3, PassNumbersHold DEF ScanSymbol, StartsSymbol, PassNumbers
        <4>. QED  BY <2>2, <3>3, <4>1, <4>2, FitsByKind
      <3>4. CASE ScanString /\ kind = "STR" /\ n \in DOMAIN input /\ Start(n) = StringEnd[1]
        <4>1. pass = String /\ ~ (pass < String) /\ pass <= String
          BY <3>4, PassNumbersHold DEF ScanString, StartsString, PassNumbers
        <4>2. IsQuoted(v)
          BY <2>1, <3>4, <4>1, StringFits DEF ScanString, v
        <4>. QED  BY <2>2, <3>4, <4>1, <4>2, FitsByKind
      <3>5. CASE ScanComment /\ kind = "CO" /\ n = CommentLength /\ n < Len(input)
        <4>1. n \in 2 .. Len(input)
          BY <2>1, <3>5, CommentLengthFacts DEF ScanComment, StartsComment
        <4>2. v[1] = "%" /\ Len(v) > 1
          BY <2>1, <3>5, <4>1, CommentFits DEF ScanComment, v
        <4>3. ~ (pass < String)
          BY <3>5, PassNumbersHold DEF ScanComment, StartsComment, PassNumbers
        <4>. QED  BY <2>2, <3>5, <4>2, <4>3, FitsByKind
      <3>6. CASE ScanWithPoint /\ kind = "I.I10" /\ n = 3
        <4>1. IsWithPoint(v)
          BY <2>1, <3>6, NumbersFit DEF ScanWithPoint, v
        <4>2. ~ (pass < String)
          BY <3>6, PassNumbersHold DEF ScanWithPoint, HasPoint, PassNumbers
        <4>. QED  BY <2>2, <3>6, <4>1, <4>2, FitsByKind
      <3>7. CASE ScanRational /\ kind = "R10" /\ n = 3
        <4>1. Parts(v, IsInteger, Slashes)
          BY <2>1, <3>7, NumbersFit DEF ScanRational, v
        <4>2. ~ (pass < String)
          BY <3>7, PassNumbersHold DEF ScanRational, HasSlash, PassNumbers
        <4>. QED  BY <2>2, <3>7, <4>1, <4>2, FitsByKind
      <3>8. CASE ScanFloating /\ kind = "F10" /\ n = 3
        <4>1. Parts(v, IsWithPoint, ExponentStarts)
          BY <2>1, <3>8, NumbersFit DEF ScanFloating, v
        <4>2. ~ (pass < String)
          BY <3>8, PassNumbersHold DEF ScanFloating, HasExponent, PassNumbers
        <4>. QED  BY <2>2, <3>8, <4>1, <4>2, FitsByKind
      <3>. QED  BY <1>1, <3>1, <3>2, <3>3, <3>4, <3>5, <3>6, <3>7, <3>8 DEF JoiningStep
    <2>. QED  BY <2>1, <2>2, <2>3 DEF t, v
  <1>2. CASE ScanComment /\ ~ (CommentLength < Len(input))
    <2>. DEFINE t == Tokens("CO", Text(input))
    <2>1. /\ Passing /\ Ended(input) /\ CommentLength = Len(input)
          /\ Shape(t, Len(input)) /\ StartsComment /\ input \in Seq(Token)
      BY <1>2, LastCommentShape, EndedFacts DEF Passing, ScanComment
    <2>2. t.kind = "CO" /\ t.value = Text(input)
      BY DEF Tokens
    <2>. HIDE DEF t
    <2>3. Len(input) \in 2 .. Len(input)
      BY <2>1, CommentLengthFacts DEF StartsComment
    <2>4. SubSeq(input, 1, Len(input)) = input
      BY <2>1, SubSeqFull
    <2>5. t.value[1] = "%" /\ Len(t.value) > 1
      <3>. DEFINE v == Text(SubSeq(input, 1, Len(input)))
      <3>1. v[1] = "%" /\ Len(v) > 1
        BY <2>1, <2>3, CommentFits
      <3>2. v = t.value
        BY <2>2, <2>4
      <3>. HIDE DEF v
      <3>. QED  BY <3>1, <3>2
    <2>6. ~ (pass < String)
      BY <2>1, PassNumbersHold DEF StartsComment, PassNumbers
    <2>. QED  BY <2>1, <2>2, <2>5, <2>6, FitsByKind
  <1>3. CASE SkipSpaces
    <2>1. /\ Shape(input[Spaces + 1], Spaces + 1)
          /\ Skips(input[Spaces + 1], Spaces + 1)
      BY <1>3, SkipShape
    <2>2. Spaces + 1 \in 1 .. Len(input) /\ ~ (pass < String)
      BY <2>1, PassNumbersHold DEF Skips, PassNumbers
    <2>. QED  BY <2>1, <2>2 DEF InputFits
  <1>4. CASE TakeWhite
    <2>. DEFINE t == [tok EXCEPT !.kind = "SP"]
    <2>1. /\ Passing /\ Ended(input) /\ Shape(t, 1) /\ Is(WhiteSpaces, tok) /\ pass = WhiteSpace
      BY <1>4, TakeWhiteShape DEF TakeWhite, IsWhite, Passing
    <2>2. tok \in Token
      BY <2>1, LookAtFacts, EndedFacts
    <2>3. t.kind = "SP" /\ t.value = tok.value
      BY <2>2 DEF Token
    <2>. HIDE DEF t
    <2>4. Fits(t)
      BY <2>1, <2>3, FitsByKind DEF Is
    <2>. QED  BY <2>1, <2>4, PassNumbersHold DEF PassNumbers
  <1>5. CASE MarkKeyword
    <2>. DEFINE t == [tok EXCEPT !.kind = "KW"]
    <2>1. /\ Passing /\ Ended(input) /\ Shape(t, 1) /\ tok.value \in Keywords /\ pass = Keyword
      BY <1>5, MarkKeywordShape DEF MarkKeyword, IsKeyword, Passing
    <2>2. tok \in Token
      BY <2>1, LookAtFacts, EndedFacts
    <2>3. t.kind = "KW" /\ t.value = tok.value
      BY <2>2 DEF Token
    <2>. HIDE DEF t
    <2>4. Fits(t)
      BY <2>1, <2>3, FitsByKind
    <2>. QED  BY <2>1, <2>4, PassNumbersHold DEF PassNumbers
  <1>6. CASE PassThrough
    <2>1. Passing /\ Ended(input)
      BY <1>6, RunningIsPassing DEF PassThrough, Passing
    <2>2. Shape(tok, 1)
      BY <1>6, <2>1, PassThroughShape
    <2>3. tok = input[1] /\ 1 \in 1 .. Len(input)
      BY <2>1, LookAtFacts, EndedFacts
    <2>4. pass \in Nat /\ String \in Nat
      BY <2>1, PassNumbersHold DEF Passing, PassNumbers
    <2>. QED  BY <2>2, <2>3, <2>4 DEF InputFits, InputEarly
  <1>7. CASE ScanInteger \/ ScanIdentifier \/ ScanSymbol \/ ScanWithPoint \/ ScanRational
             \/ ScanFloating
    <2>1. \E kind, n : JoiningStep(kind, n)
      BY <1>7 DEF JoiningStep
    <2>. QED  BY <1>1, <2>1
  <1>8. CASE ScanString
    <2>1. \E n : JoiningStep("STR", n)
      BY <1>8 DEF JoiningStep, ScanString
    <2>. QED  BY <1>1, <2>1
  <1>9. CASE ScanComment
    <2>1. CommentLength < Len(input) => JoiningStep("CO", CommentLength)
      BY <1>9 DEF JoiningStep
    <2>. QED  BY <1>1, <1>2, <1>9, <2>1
  <1>. QED  BY <1>3, <1>4, <1>5, <1>6, <1>7, <1>8, <1>9 DEF NextParse

\* What holds of the tokens and of what is put, holds after the step.
LEMMA ShapeKeeps ==
    ASSUME PassesTyped, pass \notin {0, RemoveSpaces + 1}, NEW lhs, NEW n, Shape(lhs, n), NEW S
    PROVE  /\ lhs \in S
              /\ (\A k \in 1 .. Len(output) : output[k] \in S)
              /\ (\A k \in 1 .. Len(input) : input[k] \in S)
              => /\ \A k \in 1 .. Len(output') : output'[k] \in S
                 /\ \A k \in 1 .. Len(input') : input'[k] \in S
           /\ lhs # Eof /\ (\A k \in 1 .. Len(input) : input[k] \in S)
              => \A k \in 1 .. Len(input') : input'[k] \in S
  <1>0. Ended(input) /\ lhs \in Token /\ output \in Seq(Token) /\ Len(output) \in Nat
    BY LenProperties DEF PassesTyped, Shape
  <1>1. /\ Len(Append(output, lhs)) = Len(output) + 1
        /\ \A k \in 1 .. Len(output) : Append(output, lhs)[k] = output[k]
        /\ Append(output, lhs)[Len(output) + 1] = lhs
    BY <1>0, AppendProperties
  <1>2. ASSUME lhs \in S, \A k \in 1 .. Len(output) : output[k] \in S
        PROVE  \A k \in 1 .. Len(Append(output, lhs)) : Append(output, lhs)[k] \in S
    <2>1. \A k \in 1 .. Len(output) + 1 : k = Len(output) + 1 \/ k \in 1 .. Len(output)
      BY <1>0
    <2>. QED  BY <1>1, <1>2, <2>1
  <1>3. CASE lhs = Eof
    <2>1. input' = Append(output, lhs) /\ output' = <<>>
      BY <1>3 DEF Shape, Put
    <2>2. \A k \in 1 .. Len(output') : FALSE
      BY <2>1
    <2>. QED  BY <1>2, <1>3, <2>1, <2>2
  <1>4. CASE lhs # Eof
    <2>1. input' = Rest(n) /\ output' = Append(output, lhs)
      BY <1>4 DEF Shape, Put
    <2>2. n \in 1 .. Len(input)
      BY <1>0, EndedFacts DEF Shape, Joins, TakesAll, PutsEof, Skips
    <2>3. \A k \in 1 .. Len(Rest(n)) : \E l \in 1 .. Len(input) : Rest(n)[k] = input[l]
      <3>0. Len(input) \in Nat \ {0} /\ input[Len(input)] = Eof /\ n \in Nat
        BY <1>0, <2>2, EndedFacts
      <3>1. CASE n < Len(input)
        <4>1. /\ Len(Rest(n)) = Len(input) - n
              /\ \A k \in 1 .. Len(Rest(n)) : Rest(n)[k] = input[n + k]
          BY <1>0, <2>2, <3>1, RestFacts
        <4>2. \A k \in 1 .. Len(Rest(n)) : n + k \in 1 .. Len(input)
          BY <3>0, <4>1
        <4>. QED  BY <4>1, <4>2
      <3>2. CASE n = Len(input)
        <4>1. Rest(n) = <<Eof>>
          BY <1>0, <2>2, <3>2, RestFacts
        <4>2. \A k \in 1 .. Len(Rest(n)) : Rest(n)[k] = Eof
          BY <4>1
        <4>3. Len(input) \in 1 .. Len(input)
          BY <3>0
        <4>. QED  BY <3>0, <4>2, <4>3
      <3>. QED  BY <2>2, <3>0, <3>1, <3>2
    <2>. QED  BY <1>2, <2>1, <2>3
  <1>. QED  BY <1>3, <1>4

\* All tokens fit their kinds.  As long as strings have not been scanned, there
\* are few kinds; a string relies on it that no token but the quote itself
\* begins with a quote.
KindsInv ==
    /\ \A k \in 1 .. Len(output) : Fits(output[k])
    /\ InputFits
    /\ pass <= String => InputEarly
    /\ pass < String => \A k \in 1 .. Len(output) : output[k].kind \in EarlyKinds

LEMMA KindsInvInit ==
    ASSUME Init
    PROVE  KindsInv
  <1>1. Len(input) = 0 /\ Len(output) = 0
    BY DEF Init, PassesInit
  <1>2. \A k \in 1 .. 0 : FALSE
    OBVIOUS
  <1>. QED  BY <1>1, <1>2 DEF KindsInv, InputFits, InputEarly

LEMMA KindsInvStep ==
    ASSUME WordsTyped, WordsTyped', KindsInv, [Next]_vars
    PROVE  KindsInv'
  <1>1. ASSUME UNCHANGED <<pass, input, output>> PROVE KindsInv'
    BY <1>1 DEF KindsInv, InputFits, InputEarly
  <1>2. CASE StartFirst
    <2>1. pass' = Integer /\ input' = Given /\ output' = <<>>
      BY <1>2, StartFirstTyped DEF WordsTyped
    <2>2. Ended(Given) /\ \A t \in ToSet(Given) : Fits(t) /\ t.kind \in {"CP", "FSEP", "EOF"}
      BY <1>2, GivenFacts DEF StartFirst, WordsTyped
    <2>3. \A k \in 1 .. Len(Given) : Given[k] \in ToSet(Given)
      BY <2>2, EndedFacts DEF ToSet
    <2>4. \A k \in 1 .. Len(Given) : Fits(Given[k]) /\ Given[k].kind \in EarlyKinds
      BY <2>2, <2>3 DEF EarlyKinds
    <2>5. \A k \in 1 .. Len(output') : FALSE
      BY <2>1
    <2>. HIDE DEF Given
    <2>. QED  BY <2>1, <2>4, <2>5 DEF KindsInv, InputFits, InputEarly
  <1>3. CASE ParseStep /\ ~ RejectString
    <2>1. PICK lhs, n : /\ Shape(lhs, n) /\ Fits(lhs)
                        /\ pass < String => lhs.kind \in EarlyKinds
      BY <1>3, ParseFits DEF ParseStep, WordsTyped, KindsInv
    <2>2. pass \notin {0, RemoveSpaces + 1} /\ PassesTyped /\ pass \in 1 .. 11 /\ String = 3
      BY <1>3, ParseShape, PassNumbersHold DEF ParseStep, WordsTyped, PassesTyped, PassNumbers
    <2>3. pass' = pass \/ (pass' = pass + 1 /\ lhs = Eof /\ input' = Append(output, lhs))
      BY <2>1 DEF Shape, Put
    <2>4. pass' = pass \/ output' = <<>>
      BY <2>1 DEF Shape, Put
    <2>. DEFINE F == {t \in {lhs} \cup {output[k] : k \in 1 .. Len(output)}
                               \cup {input[k] : k \in 1 .. Len(input)} : Fits(t)}
                E == {t \in {lhs} \cup {output[k] : k \in 1 .. Len(output)}
                               \cup {input[k] : k \in 1 .. Len(input)} : t.kind \in EarlyKinds}
    <2>5. /\ \A k \in 1 .. Len(output') : output'[k] \in F
          /\ \A k \in 1 .. Len(input') : input'[k] \in F
      <3>1. /\ lhs \in F
            /\ \A k \in 1 .. Len(output) : output[k] \in F
            /\ \A k \in 1 .. Len(input) : input[k] \in F
        BY <2>1 DEF KindsInv, InputFits
      <3>. HIDE DEF F
      <3>. QED  BY <2>1, <2>2, <3>1, ShapeKeeps
    <2>6. ASSUME pass < String
          PROVE  /\ \A k \in 1 .. Len(output') : output'[k] \in E
                 /\ \A k \in 1 .. Len(input') : input'[k] \in E
      <3>0. pass <= String
        BY <2>2, <2>6
      <3>1. /\ lhs \in E
            /\ \A k \in 1 .. Len(output) : output[k] \in E
            /\ \A k \in 1 .. Len(input) : input[k] \in E
        BY <2>1, <2>6, <3>0 DEF KindsInv, InputEarly
      <3>. HIDE DEF E
      <3>. QED  BY <2>1, <2>2, <3>1, ShapeKeeps
    <2>7. ASSUME pass = String, lhs # Eof PROVE \A k \in 1 .. Len(input') : input'[k] \in E
      <3>0. pass <= String
        BY <2>2, <2>7
      <3>1. \A k \in 1 .. Len(input) : input[k] \in E
        BY <3>0 DEF KindsInv, InputEarly
      <3>. HIDE DEF E
      <3>. QED  BY <2>1, <2>2, <2>7, <3>1, ShapeKeeps
    <2>8. pass' <= String => InputEarly'
      <3>1. CASE pass < String
        BY <2>6, <3>1 DEF InputEarly
      <3>2. CASE pass = String /\ lhs # Eof
        BY <2>7, <3>2 DEF InputEarly
      <3>3. CASE pass = String /\ lhs = Eof
        <4>1. pass' = pass + 1
          BY <2>1, <3>3 DEF Shape, Put
        <4>. QED  BY <2>2, <3>3, <4>1
      <3>4. CASE pass > String
        BY <2>2, <2>3, <3>4
      <3>. QED  BY <2>2, <3>1, <3>2, <3>3, <3>4
    <2>9. pass' < String => \A k \in 1 .. Len(output') : output'[k].kind \in EarlyKinds
      <3>1. pass' < String => pass < String
        BY <2>2, <2>3
      <3>. QED  BY <2>6, <3>1
    <2>. QED  BY <2>5, <2>8, <2>9 DEF KindsInv, InputFits
  <1>4. CASE ParseStep /\ RejectString
    BY <1>1, <1>4 DEF RejectString
  <1>. QED  BY <1>1, <1>2, <1>3, <1>4
            DEF Next, ScanStep, ParseStep, vars, passesVars

\* KindsInv is what KindsFit says, with the kinds there are early.
LEMMA KindsFitHolds ==
    ASSUME PassesTyped, KindsInv
    PROVE  KindsFit
  <1>1. input \in Seq(Token) /\ output \in Seq(Token)
    BY EmptySeq, EndedFacts DEF PassesTyped
  <1>2. Len(input) \in Nat /\ Len(output) \in Nat
    BY <1>1, LenProperties
  <1>3. /\ Now \in Seq(Token) /\ Len(Now) = Len(output) + Len(input)
        /\ \A k \in 1 .. Len(output) + Len(input) :
              Now[k] = IF k <= Len(output) THEN output[k] ELSE input[k - Len(output)]
    BY <1>1, ConcatProperties DEF Now
  <1>4. DOMAIN Now = 1 .. Len(output) + Len(input)
    BY <1>3, LenProperties
  <1>5. ASSUME NEW k \in 1 .. Len(output) + Len(input) PROVE Fits(Now[k])
    <2>1. CASE k <= Len(output)
      BY <1>2, <1>3, <2>1 DEF KindsInv
    <2>2. CASE ~ (k <= Len(output))
      <3>1. k - Len(output) \in 1 .. Len(input)
        BY <1>2, <2>2
      <3>. QED  BY <1>3, <2>2, <3>1 DEF KindsInv, InputFits
    <2>. QED  BY <2>1, <2>2
  <1>. QED  BY <1>4, <1>5 DEF KindsFit, ToSet

\* Every token that a pass has put or will be given is a word of its kind,
\* though a token goes through passes that know nothing of its kind, and a
\* string is taken from the tokens of earlier passes.
THEOREM KindsFitAlways == Spec => []KindsFit
  <1>1. Init => KindsInv
    BY KindsInvInit
  <1>2. WordsTyped /\ WordsTyped' /\ KindsInv /\ [Next]_vars => KindsInv'
    BY KindsInvStep
  <1>3. WordsTyped /\ KindsInv => KindsFit
    BY KindsFitHolds DEF WordsTyped
  <1>. QED  BY WordsAreTyped, <1>1, <1>2, <1>3, PTL DEF Spec

-------------------------------------------------------------------------------
\* The longest words.

\* It continues an identifier, and is not an integer of several digits.
Continuing(t) ==
    ContinuesId(t) /\ ~ (Len(t.value) # 1 /\ t.value[1] \in Digits)

\* A word, and the two tokens after it: they do not continue it.
Apart(t, next, third) ==
    /\ t.kind = "I10" =>
         /\ next.kind # "I10" /\ ~ Is(Digits, next)
         /\ ~ (Is(Connectors, next) /\ third.value[1] \in Digits)
    /\ t.kind = "ID" =>
         ~ Continuing(next) /\ ~ (Is(Connectors, next) /\ Continuing(third))
    /\ t.kind = "SY" => ~ Is(SymbolParts, next)

\* A token that a pass has put is none that it makes others of.
Treated(p, t, next, third) ==
    /\ p = WithPoint /\ t.kind = "I10" => ~ (next.value = <<".">> /\ third.kind = "I10")
    /\ p = Rational /\ t.kind = "I10" => ~ (next.value \in Slashes /\ third.kind = "I10")
    /\ p = Floating /\ t.kind = "I.I10" =>
          ~ (next.value \in ExponentStarts /\ third.kind = "I10")
    /\ p = Keyword => ~ (t.kind \in {"CP", "SY", "ID"} /\ t.value \in Keywords)

ThirdAt(s, k) == s[IF k + 2 <= Len(s) THEN k + 2 ELSE k + 1]

ApartAt(s, k) == Apart(s[k], s[k + 1], ThirdAt(s, k))

TreatedAt(p, s, k) == Treated(p, s[k], s[k + 1], ThirdAt(s, k))

ScanKinds == {"CP", "FSEP", "EOF"}

\* Words are apart; the first pass is given code points, and no identifiers are
\* put before the pass that makes them.
LongInv ==
    /\ pass < RemoveSpaces => /\ \A k \in 1 .. Len(Now) - 1 : ApartAt(Now, k)
                              /\ \A k \in 1 .. Len(output) : TreatedAt(pass, Now, k)
    /\ pass = Integer => /\ \A k \in 1 .. Len(input) : input[k].kind \in ScanKinds
                         /\ \A k \in 1 .. Len(output) : output[k].kind # "ID"
    /\ pass = Identifier => \A k \in 1 .. Len(input) : input[k].kind # "ID"

LEMMA NowIs ==
    ASSUME NEW s \in Seq(Token), NEW t \in Seq(Token)
    PROVE  /\ s \o t \in Seq(Token) /\ Len(s \o t) = Len(s) + Len(t)
           /\ Len(s) \in Nat /\ Len(t) \in Nat
           /\ \A k \in 1 .. Len(s) : (s \o t)[k] = s[k]
           /\ \A k \in 1 .. Len(t) : (s \o t)[Len(s) + k] = t[k]
  <1>1. Len(s) \in Nat /\ Len(t) \in Nat
    BY LenProperties
  <1>. DEFINE u == s \o t
  <1>2. /\ u \in Seq(Token) /\ Len(u) = Len(s) + Len(t)
        /\ \A k \in 1 .. Len(s) + Len(t) : u[k] = IF k <= Len(s) THEN s[k] ELSE t[k - Len(s)]
    BY ConcatProperties
  <1>. HIDE DEF u
  <1>3. ASSUME NEW k \in 1 .. Len(s) PROVE u[k] = s[k]
    BY <1>1, <1>2
  <1>4. ASSUME NEW k \in 1 .. Len(t) PROVE u[Len(s) + k] = t[k]
    <2>1. PICK m \in Nat : m = Len(s) + k
      BY <1>1
    <2>2. m \in 1 .. Len(s) + Len(t) /\ ~ (m <= Len(s)) /\ m - Len(s) = k
      BY <1>1, <2>1
    <2>. QED  BY <1>2, <2>1, <2>2
  <1>. QED  BY <1>1, <1>2, <1>3, <1>4 DEF u

\* What stands for a token begins as it does, and is as long, or longer than a
\* code point: it keeps apart what was.
LEMMA ContinuingStays ==
    ASSUME NEW was, NEW lhs, was # Eof, Continuing(lhs),
           lhs.value[1] = was.value[1], Len(lhs.value) # 1 \/ lhs.value = was.value
    PROVE  Continuing(was)
  BY DEF Continuing, ContinuesId

LEMMA ApartNext ==
    ASSUME NEW t, NEW next, NEW third, NEW lhs, NEW after, Apart(t, next, third),
           next # Eof, lhs.value[1] = next.value[1],
           lhs.kind = "I10" => next.kind = "I10" \/ Is(Digits, next),
           Len(lhs.value) # 1 \/ (lhs.value = next.value /\ after = third)
    PROVE  Apart(t, lhs, after)
  <1>1. ASSUME t.kind = "ID", Continuing(lhs) PROVE FALSE
    BY <1>1, ContinuingStays DEF Apart
  <1>2. ASSUME t.kind = "ID", Is(Connectors, lhs), Continuing(after) PROVE FALSE
    BY <1>2 DEF Apart, Is
  <1>. QED  BY <1>1, <1>2 DEF Apart, Is

LEMMA ApartThird ==
    ASSUME NEW t, NEW next, NEW third, NEW lhs, Apart(t, next, third),
           third # Eof, lhs.value[1] = third.value[1],
           Len(lhs.value) # 1 \/ lhs.value = third.value
    PROVE  Apart(t, next, lhs)
  BY ContinuingStays DEF Apart

LEMMA ExponentLengths ==
    /\ Len(<<".">>) = 1
    /\ \A v \in Slashes : Len(v) = 1
    /\ \A v \in ExponentStarts : Len(v) \in {1, 2}
  BY DEF Slashes, ExponentStarts

LEMMA TreatedNext ==
    ASSUME NEW p, NEW t, NEW next, NEW third, NEW lhs, NEW after, Treated(p, t, next, third),
           \/ Len(lhs.value) \notin {1, 2}
           \/ Len(lhs.value) # 1 /\ p # Floating
           \/ lhs.value = next.value /\ after = third
    PROVE  Treated(p, t, lhs, after)
  <1>1. CASE lhs.value = next.value /\ after = third
    BY <1>1 DEF Treated
  <1>2. CASE Len(lhs.value) \notin {1, 2}
    BY <1>2, ExponentLengths DEF Treated
  <1>3. CASE Len(lhs.value) # 1 /\ p # Floating
    BY <1>3, ExponentLengths DEF Treated
  <1>. QED  BY <1>1, <1>2, <1>3

LEMMA TreatedThird ==
    ASSUME NEW p, NEW t, NEW next, NEW third, NEW lhs, Treated(p, t, next, third),
           p # Integer, lhs.kind = "I10" => third.kind = "I10"
    PROVE  Treated(p, t, next, lhs)
  BY DEF Treated

LEMMA TreatedEarly ==
    ASSUME NEW p, p \notin {WithPoint, Rational, Floating, Keyword}, NEW t, NEW next, NEW third
    PROVE  Treated(p, t, next, third)
  BY DEF Treated

-------------------------------------------------------------------------------
\* Where a run ends.

\* A run, by the places of the input.
RunTo(continues, n) ==
    \A k \in 2 .. n :
       \/ Is(continues \ Connectors, input[k])
       \/ /\ Is(Connectors, input[k])
          /\ k < n /\ Is(continues \ Connectors, input[k + 1])

LEMMA JoinedIs ==
    ASSUME Ended(input), NEW n \in 1 .. Len(input), NEW continues
    PROVE  Joined(continues, SubSeq(input, 2, n)) <=> RunTo(continues, n)
  <1>. DEFINE run == SubSeq(input, 2, n)
  <1>0. Len(input) \in Nat /\ n \in Nat \ {0} /\ \A k \in 1 .. Len(input) : input[k] \in Token
    BY EndedFacts
  <1>1. run \in Seq(Token) /\ Len(run) = n - 1 /\ \A k \in 1 .. n - 1 : run[k] = input[k + 1]
    <2>1. \A k \in 2 .. n : input[k] \in Token
      BY <1>0
    <2>2. /\ run \in Seq(Token)
          /\ Len(run) = IF 2 <= n THEN n - 2 + 1 ELSE 0
          /\ \A k \in 1 .. n - 2 + 1 : run[k] = input[2 + k - 1]
      BY <1>0, <2>1, SubSeqProperties
    <2>. QED  BY <1>0, <2>2
  <1>. HIDE DEF run
  <1>2. DOMAIN run = 1 .. n - 1
    BY <1>1, LenProperties
  <1>3. \A k \in 1 .. n - 1 : k + 1 \in 2 .. n /\ (k < n - 1 <=> k + 1 < n)
                              /\ (k < n - 1 => k + 1 \in 1 .. n - 1 /\ run[k + 1] = input[k + 1 + 1])
    BY <1>0, <1>1
  <1>4. \A k \in 2 .. n : k - 1 \in 1 .. n - 1 /\ k - 1 + 1 = k
    BY <1>0
  <1>5. ASSUME Joined(continues, run), NEW k \in 2 .. n
        PROVE  \/ Is(continues \ Connectors, input[k])
               \/ /\ Is(Connectors, input[k])
                  /\ k < n /\ Is(continues \ Connectors, input[k + 1])
    <2>1. k - 1 \in DOMAIN run /\ k - 1 + 1 = k /\ run[k - 1] = input[k]
      BY <1>1, <1>2, <1>4
    <2>2. \/ Is(continues \ Connectors, run[k - 1])
          \/ /\ Is(Connectors, run[k - 1])
             /\ k - 1 < Len(run) /\ Is(continues \ Connectors, run[k - 1 + 1])
      BY <1>5, <2>1 DEF Joined
    <2>3. k - 1 < Len(run) => k < n /\ run[k] = input[k + 1]
      BY <1>0, <1>1
    <2>. QED  BY <2>1, <2>2, <2>3
  <1>6. ASSUME RunTo(continues, n), NEW k \in 1 .. n - 1
        PROVE  \/ Is(continues \ Connectors, run[k])
               \/ /\ Is(Connectors, run[k])
                  /\ k < Len(run) /\ Is(continues \ Connectors, run[k + 1])
    <2>1. \/ Is(continues \ Connectors, input[k + 1])
          \/ /\ Is(Connectors, input[k + 1])
             /\ k + 1 < n /\ Is(continues \ Connectors, input[k + 1 + 1])
      BY <1>3, <1>6 DEF RunTo
    <2>. QED  BY <1>1, <1>3, <2>1
  <1>. QED  BY <1>2, <1>5, <1>6 DEF Joined, RunTo, run

\* Neither the next token continues the run, nor a connector and the one after
\* it.
LEMMA RunStops ==
    ASSUME Ended(input), tok.kind # "EOF", NEW continues
    PROVE  LET n == RunLength(continues) IN
              /\ n \in 1 .. Len(input) - 1
              /\ ~ Is(continues \ Connectors, input[n + 1])
              /\ n + 2 <= Len(input) =>
                   ~ (Is(Connectors, input[n + 1]) /\ Is(continues \ Connectors, input[n + 2]))
  <1>. DEFINE n == RunLength(continues)
  <1>1. /\ n \in 1 .. Len(input) - 1
        /\ Joined(continues, SubSeq(input, 2, n))
        /\ \A m \in 1 .. Len(input) : Joined(continues, SubSeq(input, 2, m)) => m <= n
    BY RunLengthFacts
  <1>. HIDE DEF n
  <1>2. Len(input) \in Nat /\ n \in Nat \ {0} /\ n + 1 \in 1 .. Len(input) /\ n \in 1 .. Len(input)
    BY <1>1, EndedFacts
  <1>3. RunTo(continues, n) /\ \A m \in 1 .. Len(input) : RunTo(continues, m) => m <= n
    BY <1>1, <1>2, JoinedIs
  <1>4. ~ RunTo(continues, n + 1)
    BY <1>2, <1>3
  <1>5. ~ Is(continues \ Connectors, input[n + 1])
    <2>1. SUFFICES ASSUME Is(continues \ Connectors, input[n + 1]) PROVE RunTo(continues, n + 1)
      BY <1>4
    <2>2. \A k \in 2 .. n + 1 : k = n + 1 \/ k \in 2 .. n
      BY <1>2
    <2>3. \A k \in 2 .. n : k < n => k < n + 1
      BY <1>2
    <2>. QED  BY <1>3, <2>1, <2>2, <2>3 DEF RunTo
  <1>6. ASSUME n + 2 <= Len(input), Is(Connectors, input[n + 1]),
               Is(continues \ Connectors, input[n + 2])
        PROVE  FALSE
    <2>1. n + 2 \in 1 .. Len(input) /\ ~ (n + 2 <= n) /\ n + 1 + 1 = n + 2 /\ n + 1 < n + 2
      BY <1>2, <1>6
    <2>2. \A k \in 2 .. n + 2 : k = n + 2 \/ k = n + 1 \/ (k \in 2 .. n /\ (k < n => k < n + 2))
      BY <1>2
    <2>3. RunTo(continues, n + 2)
      <3>1. ASSUME NEW k \in 2 .. n + 2
            PROVE  \/ Is(continues \ Connectors, input[k])
                   \/ /\ Is(Connectors, input[k])
                      /\ k < n + 2 /\ Is(continues \ Connectors, input[k + 1])
        <4>1. CASE k = n + 2
          BY <1>6, <4>1
        <4>2. CASE k = n + 1
          BY <1>6, <2>1, <4>2
        <4>3. CASE k \in 2 .. n /\ (k < n => k < n + 2)
          BY <1>3, <4>3 DEF RunTo
        <4>. QED  BY <2>2, <4>1, <4>2, <4>3
      <3>. QED  BY <3>1 DEF RunTo
    <2>. QED  BY <1>3, <2>1, <2>3
  <1>. QED  BY <1>1, <1>5, <1>6 DEF n

-------------------------------------------------------------------------------
\* What is put, and what stays behind it.

\* A token is put for the next n: it begins as the first of them does, and each
\* of them adds to it.
Stands(lhs, n) ==
    /\ lhs.value[1] = tok.value[1]
    /\ n = 1 => lhs.value = tok.value
    /\ Len(lhs.value) >= n
    /\ pass = Floating => n \in {1, 3}
    /\ lhs.kind = "I10" => tok.kind = "I10" \/ (pass = Integer /\ Is(Digits, tok))
    /\ lhs.kind = "ID" => tok.kind = "ID" \/ pass = Identifier

ApartFromRest(lhs, n) ==
    LET after == ThirdAt(input, n)
    IN  Apart(lhs, input[n + 1], after) /\ Treated(pass, lhs, input[n + 1], after)

\* A sum exceeds what its first part reaches.
LEMMA SumExceeds ==
    \A x \in Nat, y \in Nat, z \in Nat \ {0} : y >= x => y + z >= x + 1
  OBVIOUS

\* A number that reaches another is one only if that one is.
LEMMA OneOrMore ==
    \A x \in Nat \ {0}, y \in Nat : y >= x =>
        /\ y # 1 \/ x = 1
        /\ x # 1 => x >= 2 /\ y # 1 /\ (x >= 3 => y \notin {1, 2})
  OBVIOUS

LEMMA TextGrows ==
    ASSUME NEW s \in Seq(Token), Len(s) > 0
    PROVE  /\ Text(s)[1] = s[1].value[1]
           /\ Len(Text(s)) >= Len(s) /\ Len(Text(s)) \in Nat
  <1>. DEFINE v == [n \in 0 .. Len(s) |-> Text(SubSeq(s, 1, n))]
  <1>0. Len(s) \in Nat /\ Len(s) \in 1 .. Len(s) /\ Len(s) \in 0 .. Len(s) /\ 1 \in 1 .. Len(s)
        /\ 0 \in 0 .. Len(s)
    BY LenProperties
  <1>1. \A k \in 1 .. Len(s) : s[k].value \in Seq(CodePoints) /\ Len(s[k].value) \in Nat \ {0}
    BY ElementOfSeq, TokenFacts
  <1>2. ASSUME NEW n \in 1 .. Len(s)
        PROVE  /\ n \in 0 .. Len(s) /\ n - 1 \in 0 .. Len(s)
               /\ v[n] \in Seq(CodePoints) /\ v[n - 1] \in Seq(CodePoints)
               /\ Len(v[n]) = Len(v[n - 1]) + Len(s[n].value)
               /\ Len(v[n]) <= Len(Text(s))
               /\ \A k \in 1 .. Len(v[n]) : v[n][k] = Text(s)[k]
               /\ \A k \in 1 .. Len(s[n].value) : v[n][Len(v[n - 1]) + k] = s[n].value[k]
    <2>1. n \in 0 .. Len(s) /\ n - 1 \in 0 .. Len(s)
      BY <1>0
    <2>2. v[n] = Text(SubSeq(s, 1, n)) /\ v[n - 1] = Text(SubSeq(s, 1, n - 1))
      BY <2>1
    <2>. QED  BY <2>1, <2>2, TextBegins
  <1>3. v[0] = <<>> /\ Len(v[0]) = 0
    <2>1. SubSeq(s, 1, 0) = <<>>
      BY SubSeqEmpty
    <2>2. v[0] = <<>>
      BY <1>0, <2>1, TextEmpty
    <2>. QED  BY <2>2
  <1>. HIDE DEF v
  <1>4. ASSUME NEW n \in 1 .. Len(s)
        PROVE  Len(v[n]) \in Nat /\ Len(v[n - 1]) \in Nat
               /\ Len(v[n]) = Len(v[n - 1]) + Len(s[n].value) /\ Len(s[n].value) \in Nat \ {0}
               /\ Len(v[n]) <= Len(Text(s))
    BY <1>1, <1>2, LenProperties
  <1>5. Len(Text(s)) \in Nat
    BY TextType, LenProperties
  <1>6. \A n \in 0 .. Len(s) : Len(v[n]) >= n
    <2>. DEFINE S == {n \in Nat : Len(v[n]) >= n}
    <2>1. 0 \in S
      BY <1>3
    <2>2. ASSUME NEW n \in 0 .. Len(s) - 1, n \in S PROVE n + 1 \in S
      <3>1. PICK m \in 1 .. Len(s) : m = n + 1 /\ m - 1 = n
        BY <1>0
      <3>2. Len(v[m]) = Len(v[n]) + Len(s[m].value) /\ Len(v[n]) \in Nat
            /\ Len(s[m].value) \in Nat \ {0}
        BY <1>4, <3>1
      <3>3. Len(v[n]) >= n
        BY <2>2
      <3>4. n \in Nat
        BY <1>0
      <3>5. Len(v[n]) + Len(s[m].value) >= n + 1
        BY <3>2, <3>3, <3>4, SumExceeds
      <3>6. Len(v[m]) >= m
        BY <3>1, <3>2, <3>5
      <3>. QED  BY <3>1, <3>6
    <2>. HIDE DEF S
    <2>3. \A n \in 0 .. Len(s) : n \in S
      BY <1>0, <2>1, <2>2, InductionUpTo
    <2>. QED  BY <2>3 DEF S
  <1>7. Len(Text(s)) >= Len(s)
    <2>1. Len(v[Len(s)]) <= Len(Text(s)) /\ Len(v[Len(s)]) >= Len(s) /\ Len(v[Len(s)]) \in Nat
      BY <1>0, <1>4, <1>6
    <2>. QED  BY <1>0, <1>5, <2>1
  <1>8. Text(s)[1] = s[1].value[1]
    <2>1. 1 - 1 = 0 /\ 0 + 1 = 1
      OBVIOUS
    <2>2. Len(v[1]) = Len(v[0]) + Len(s[1].value) /\ Len(s[1].value) \in Nat \ {0}
      BY <1>0, <1>4, <2>1
    <2>3. 1 \in 1 .. Len(s[1].value) /\ 1 \in 1 .. Len(v[1])
      BY <1>3, <2>2
    <2>4. v[1][1] = Text(s)[1]
      BY <1>0, <1>2, <2>3
    <2>5. v[1][0 + 1] = s[1].value[1]
      <3>1. \A k \in 1 .. Len(s[1].value) : v[1][Len(v[1 - 1]) + k] = s[1].value[k]
        BY <1>0, <1>2
      <3>2. v[1][Len(v[1 - 1]) + 1] = s[1].value[1]
        BY <2>3, <3>1
      <3>3. Len(v[1 - 1]) = 0
        BY <1>3, <2>1
      <3>. QED  BY <3>2, <3>3
    <2>. QED  BY <2>1, <2>4, <2>5
  <1>. QED  BY <1>5, <1>7, <1>8

LEMMA JoinedStands ==
    ASSUME Ended(input), NEW n \in 1 .. Len(input)
    PROVE  LET v == Text(SubSeq(input, 1, n)) IN
              /\ v[1] = tok.value[1]
              /\ n = 1 => v = tok.value
              /\ Len(v) >= n /\ Len(v) \in Nat
  <1>. DEFINE s == SubSeq(input, 1, n)
  <1>1. s \in Seq(Token) /\ Len(s) = n /\ (\A k \in 1 .. n : s[k] = input[k]) /\ tok = input[1]
        /\ n \in Nat \ {0}
    BY PartsOfInput, LookAtFacts, EndedFacts
  <1>2. 1 \in 1 .. n /\ s[1] = tok /\ tok \in Token
    BY <1>1, EndedFacts
  <1>. HIDE DEF s
  <1>3. Text(s)[1] = tok.value[1] /\ Len(Text(s)) >= n /\ Len(Text(s)) \in Nat
    BY <1>1, <1>2, TextGrows
  <1>4. ASSUME n = 1 PROVE Text(s) = tok.value
    <2>1. s = <<tok>>
      BY <1>1, <1>2, <1>4
    <2>. QED  BY <1>2, <2>1, TextOne
  <1>. QED  BY <1>3, <1>4 DEF s

\* Where the words of the input are apart, so is its first token from the next.
FirstApart == Len(input) > 1 => ApartAt(input, 1)

\* In the first pass all tokens are code points, and the EOF token.
LEMMA IntegerApart ==
    ASSUME Ended(input), InputFits, \A k \in 1 .. Len(input) : input[k].kind \in ScanKinds,
           tok.kind # "EOF", NEW lhs
    PROVE  LET n == RunLength(Digits) IN Apart(lhs, input[n + 1], ThirdAt(input, n)) \/ lhs.kind # "I10"
  <1>. DEFINE n == RunLength(Digits)
  <1>1. /\ n \in 1 .. Len(input) - 1
        /\ ~ Is(Digits \ Connectors, input[n + 1])
        /\ n + 2 <= Len(input) =>
              ~ (Is(Connectors, input[n + 1]) /\ Is(Digits \ Connectors, input[n + 2]))
    BY RunStops
  <1>. HIDE DEF n
  <1>2. Digits \ Connectors = Digits /\ "E" \notin Digits
    BY CharactersAssumption
  <1>3. Len(input) \in Nat /\ n + 1 \in 1 .. Len(input) /\ n \in Nat
        /\ (n + 2 <= Len(input) => n + 2 \in 1 .. Len(input))
    BY <1>1, EndedFacts
  <1>4. ASSUME NEW k \in 1 .. Len(input), input[k].value[1] \in Digits
        PROVE  Is(Digits, input[k])
    <2>1. input[k].kind \in ScanKinds /\ Fits(input[k])
      BY DEF InputFits
    <2>2. CASE input[k].kind \in {"CP", "FSEP"}
      BY <1>4, <2>1, <2>2 DEF Fits, Is
    <2>3. CASE input[k].kind = "EOF"
      <3>1. input[k] = Eof
        BY <2>1, <2>3 DEF Fits
      <3>2. Eof.value[1] = "E"
        BY DEF Eof, Tokens
      <3>. QED  BY <1>2, <1>4, <3>1, <3>2
    <2>. QED  BY <2>1, <2>2, <2>3 DEF ScanKinds
  <1>5. ~ Is(Digits, input[n + 1]) /\ input[n + 1].kind # "I10"
    BY <1>1, <1>2, <1>3 DEF ScanKinds
  <1>6. ~ (Is(Connectors, input[n + 1]) /\ ThirdAt(input, n).value[1] \in Digits)
    <2>1. CASE n + 2 <= Len(input)
      BY <1>1, <1>2, <1>3, <1>4, <2>1 DEF ThirdAt
    <2>2. CASE ~ (n + 2 <= Len(input))
      BY <1>3, <1>4, <1>5, <2>2 DEF ThirdAt
    <2>. QED  BY <2>1, <2>2
  <1>7. lhs.kind = "I10" => lhs.kind # "ID" /\ lhs.kind # "SY"
    OBVIOUS
  <1>. QED  BY <1>5, <1>6, <1>7 DEF Apart, n

\* In the pass of identifiers only the integers, and the EOF token, are of
\* several code points.
LEMMA IdentifierApart ==
    ASSUME Ended(input), InputFits, InputEarly, \A k \in 1 .. Len(input) : input[k].kind # "ID",
           tok.kind # "EOF", NEW lhs
    PROVE  LET n == RunLength(IdContinues) IN Apart(lhs, input[n + 1], ThirdAt(input, n)) \/ lhs.kind # "ID"
  <1>. DEFINE n == RunLength(IdContinues)
  <1>1. /\ n \in 1 .. Len(input) - 1
        /\ ~ Is(IdContinues \ Connectors, input[n + 1])
        /\ n + 2 <= Len(input) =>
              ~ (Is(Connectors, input[n + 1]) /\ Is(IdContinues \ Connectors, input[n + 2]))
    BY RunStops
  <1>. HIDE DEF n
  <1>2. Len(input) \in Nat /\ n + 1 \in 1 .. Len(input) /\ n \in Nat
        /\ (n + 2 <= Len(input) => n + 2 \in 1 .. Len(input))
    BY <1>1, EndedFacts
  <1>3. ASSUME NEW k \in 1 .. Len(input), Continuing(input[k])
        PROVE  Is(IdContinues \ Connectors, input[k])
    <2>1. input[k].kind \in EarlyKinds \ {"ID"} /\ Fits(input[k])
      BY DEF InputFits, InputEarly
    <2>2. CASE input[k].kind \in {"CP", "FSEP"}
      BY <1>3, <2>1, <2>2 DEF Fits, Is, Continuing, ContinuesId
    <2>3. CASE input[k].kind = "EOF"
      BY <1>3, <2>1, <2>3 DEF Fits, Continuing, ContinuesId
    <2>4. CASE input[k].kind = "I10"
      <3>1. input[k].value[1] \in Digits
        BY <2>1, <2>4 DEF Fits, IsInteger, Spaced
      <3>. QED  BY <1>3, <3>1 DEF Is, Continuing, ContinuesId
    <2>. QED  BY <2>1, <2>2, <2>3, <2>4 DEF EarlyKinds
  <1>5. ~ Continuing(input[n + 1])
    BY <1>1, <1>2, <1>3
  <1>6. ~ (Is(Connectors, input[n + 1]) /\ Continuing(ThirdAt(input, n)))
    <2>1. CASE n + 2 <= Len(input)
      BY <1>1, <1>2, <1>3, <2>1 DEF ThirdAt
    <2>2. CASE ~ (n + 2 <= Len(input))
      BY <1>5, <2>2 DEF ThirdAt
    <2>. QED  BY <2>1, <2>2
  <1>7. lhs.kind = "ID" => lhs.kind # "I10" /\ lhs.kind # "SY"
    OBVIOUS
  <1>. QED  BY <1>5, <1>6, <1>7 DEF Apart, n

LEMMA ApartOther ==
    ASSUME NEW lhs, lhs.kind \notin {"I10", "ID", "SY"}, NEW next, NEW third
    PROVE  Apart(lhs, next, third)
  BY DEF Apart

LEMMA TreatedOther ==
    ASSUME NEW lhs, lhs.kind \notin {"I10", "I.I10", "CP", "SY", "ID"}, NEW p, NEW next, NEW third
    PROVE  Treated(p, lhs, next, third)
  BY DEF Treated

\* What a joining step puts is apart from what it leaves.
LEMMA JoiningApart ==
    ASSUME PassesTyped, InputFits, pass <= String => InputEarly,
           pass = Integer => \A k \in 1 .. Len(input) : input[k].kind \in ScanKinds,
           pass = Identifier => \A k \in 1 .. Len(input) : input[k].kind # "ID",
           NEW kind, NEW n, JoiningStep(kind, n)
    PROVE  LET lhs == Tokens(kind, Text(SubSeq(input, 1, n))) IN
              Stands(lhs, n) /\ ApartFromRest(lhs, n)
  <1>. DEFINE lhs == Tokens(kind, Text(SubSeq(input, 1, n)))
              next == input[n + 1]
              third == ThirdAt(input, n)
  <1>1. Passing /\ Ended(input) /\ n \in 1 .. Len(input) - 1 /\ n \in 1 .. Len(input)
    BY JoiningShape, EndedFacts DEF Passing
  <1>2. lhs.kind = kind /\ lhs.value = Text(SubSeq(input, 1, n))
    BY DEF Tokens
  <1>3. /\ lhs.value[1] = tok.value[1] /\ (n = 1 => lhs.value = tok.value)
        /\ Len(lhs.value) >= n
    BY <1>1, <1>2, JoinedStands
  <1>. HIDE DEF lhs, next, third
  <1>4. CASE ScanInteger /\ kind = "I10" /\ n = RunLength(Digits)
    <2>1. pass = Integer /\ tok.kind # "EOF" /\ Is(Digits, tok)
      BY <1>4 DEF ScanInteger, StartsInteger
    <2>2. Apart(lhs, next, third)
      BY <1>1, <1>2, <1>4, <2>1, IntegerApart DEF next, third
    <2>3. pass \notin {WithPoint, Rational, Floating, Keyword} /\ pass # Floating
      BY <2>1, PassNumbersHold DEF PassNumbers
    <2>4. Treated(pass, lhs, next, third)
      BY <2>3, TreatedEarly
    <2>. QED  BY <1>2, <1>3, <1>4, <2>1, <2>2, <2>3, <2>4 DEF Stands, ApartFromRest, lhs, next, third
  <1>5. CASE ScanIdentifier /\ kind = "ID" /\ n = RunLength(IdContinues)
    <2>1. pass = Identifier /\ tok.kind # "EOF"
      BY <1>5 DEF ScanIdentifier, StartsIdentifier
    <2>5. InputEarly /\ \A k \in 1 .. Len(input) : input[k].kind # "ID"
      BY <2>1, PassNumbersHold DEF PassNumbers
    <2>2. Apart(lhs, next, third)
      BY <1>1, <1>2, <1>5, <2>1, <2>5, IdentifierApart DEF next, third
    <2>3. pass \notin {WithPoint, Rational, Floating, Keyword} /\ pass # Floating
      BY <2>1, PassNumbersHold DEF PassNumbers
    <2>4. Treated(pass, lhs, next, third)
      BY <2>3, TreatedEarly
    <2>. QED  BY <1>2, <1>3, <1>5, <2>1, <2>2, <2>3, <2>4 DEF Stands, ApartFromRest, lhs, next, third
  <1>6. CASE ScanSymbol /\ kind = "SY" /\ n = SymbolLength
    <2>1. pass = Symbol /\ tok.kind # "EOF" /\ Is(SymbolParts, tok)
      BY <1>6 DEF ScanSymbol, StartsSymbol
    <2>2. ~ Is(SymbolParts, next)
      BY <1>1, <1>6, <2>1, SymbolLengthFacts DEF next
    <2>3. Apart(lhs, next, third)
      BY <1>2, <1>6, <2>2 DEF Apart
    <2>4. pass \notin {WithPoint, Rational, Floating, Keyword} /\ pass # Floating
      BY <2>1, PassNumbersHold DEF PassNumbers
    <2>5. Treated(pass, lhs, next, third)
      BY <2>4, TreatedEarly
    <2>. QED  BY <1>2, <1>3, <1>6, <2>1, <2>3, <2>4, <2>5 DEF Stands, ApartFromRest, lhs, next, third
  <1>7. ASSUME kind \in {"STR", "CO", "I.I10", "R10", "F10"},
               pass = Floating => n = 3, kind = "I.I10" => pass = WithPoint
        PROVE  Stands(lhs, n) /\ ApartFromRest(lhs, n)
    <2>1. Apart(lhs, next, third)
      BY <1>2, <1>7, ApartOther
    <2>2. Treated(pass, lhs, next, third)
      <3>1. CASE kind = "I.I10"
        <4>1. pass # Floating /\ pass # Rational /\ pass # Keyword
          BY <1>7, <3>1, PassNumbersHold DEF PassNumbers
        <4>. QED  BY <1>2, <3>1, <4>1 DEF Treated
      <3>2. CASE kind # "I.I10"
        BY <1>2, <1>7, <3>2, TreatedOther
      <3>. QED  BY <3>1, <3>2
    <2>3. kind # "I10" /\ kind # "ID"
      BY <1>7
    <2>. QED  BY <1>2, <1>3, <1>7, <2>1, <2>2, <2>3 DEF Stands, ApartFromRest, next, third
  <1>8. CASE ScanString /\ kind = "STR"
    <2>1. pass # Floating
      BY <1>8, PassNumbersHold DEF ScanString, StartsString, PassNumbers
    <2>. QED  BY <1>7, <1>8, <2>1 DEF lhs
  <1>9. CASE ScanComment /\ kind = "CO"
    <2>1. pass # Floating
      BY <1>9, PassNumbersHold DEF ScanComment, StartsComment, PassNumbers
    <2>. QED  BY <1>7, <1>9, <2>1 DEF lhs
  <1>10. CASE ScanWithPoint /\ kind = "I.I10"
    <2>1. pass # Floating /\ pass = WithPoint
      BY <1>10, PassNumbersHold DEF ScanWithPoint, HasPoint, PassNumbers
    <2>. QED  BY <1>7, <1>10, <2>1 DEF lhs
  <1>11. CASE ScanRational /\ kind = "R10"
    <2>1. pass # Floating
      BY <1>11, PassNumbersHold DEF ScanRational, HasSlash, PassNumbers
    <2>. QED  BY <1>7, <1>11, <2>1 DEF lhs
  <1>12. CASE ScanFloating /\ kind = "F10" /\ n = 3
    BY <1>7, <1>12 DEF lhs
  <1>. QED  BY <1>4, <1>5, <1>6, <1>8, <1>9, <1>10, <1>11, <1>12 DEF JoiningStep, lhs

\* So is what every step puts, but for the EOF token, if the input's first is.
LEMMA ParseApart ==
    ASSUME PassesTyped, InputFits, FirstApart, pass # RemoveSpaces,
           pass <= String => InputEarly,
           pass = Integer => \A k \in 1 .. Len(input) : input[k].kind \in ScanKinds,
           pass = Identifier => \A k \in 1 .. Len(input) : input[k].kind # "ID",
           NextParse, ~ RejectString
    PROVE  \E lhs, n : /\ Shape(lhs, n)
                       /\ Joins(lhs, n) => Stands(lhs, n) /\ ApartFromRest(lhs, n)
  <1>0. tok # Eof /\ Ended(input) => Len(input) > 1 /\ Len(input) \in Nat
    BY LookAtFacts, EndedFacts
  <1>1. CASE \E kind, n : JoiningStep(kind, n)
    BY <1>1, JoiningShape, JoiningApart
  <1>2. CASE ScanComment /\ ~ (CommentLength < Len(input))
    <2>. DEFINE t == Tokens("CO", Text(input))
    <2>1. Shape(t, Len(input)) /\ Ended(input)
      BY <1>2, LastCommentShape DEF Passing
    <2>2. ~ Joins(t, Len(input))
      BY <2>1, EndedFacts DEF Joins
    <2>. HIDE DEF t
    <2>. QED  BY <2>1, <2>2
  <1>3. ASSUME NEW kind \in {"SP", "KW"}, Passing, Shape([tok EXCEPT !.kind = kind], 1)
        PROVE  \E lhs, n : /\ Shape(lhs, n)
                           /\ Joins(lhs, n) => Stands(lhs, n) /\ ApartFromRest(lhs, n)
    <2>. DEFINE t == [tok EXCEPT !.kind = kind]
    <2>1. tok \in Token
      BY <1>3, LookAtFacts, EndedFacts DEF Passing
    <2>2. t.kind = kind /\ t.value = tok.value
      BY <2>1 DEF Token
    <2>3. Shape(t, 1)
      BY <1>3
    <2>. HIDE DEF t
    <2>4. Len(tok.value) >= 1
      BY <2>1, TokenFacts
    <2>5. Stands(t, 1)
      BY <1>3, <2>2, <2>4 DEF Stands
    <2>6. ApartFromRest(t, 1)
      BY <1>3, <2>2, ApartOther, TreatedOther DEF ApartFromRest
    <2>. QED  BY <2>3, <2>5, <2>6
  <1>4. CASE TakeWhite
    BY <1>3, <1>4, TakeWhiteShape
  <1>5. CASE MarkKeyword
    BY <1>3, <1>5, MarkKeywordShape
  <1>6. CASE PassThrough
    <2>1. Passing /\ Ended(input)
      BY <1>6, RunningIsPassing DEF PassThrough, Passing
    <2>2. Shape(tok, 1) /\ tok = input[1] /\ tok \in Token
      BY <1>6, <2>1, PassThroughShape, LookAtFacts, EndedFacts
    <2>3. ASSUME Joins(tok, 1) PROVE Stands(tok, 1) /\ ApartFromRest(tok, 1)
      <3>1. Len(input) > 1 /\ Len(input) \in Nat /\ Len(tok.value) >= 1
        BY <1>0, <2>1, <2>2, <2>3, TokenFacts DEF Joins
      <3>2. Stands(tok, 1)
        BY <3>1 DEF Stands
      <3>3. Apart(tok, input[2], ThirdAt(input, 1))
        BY <2>2, <3>1 DEF FirstApart, ApartAt
      <3>4. LookAt(0) = input[2] /\ LookAt(1) = ThirdAt(input, 1)
        <4>1. PICK l \in Nat : l = Len(input)
          BY <3>1
        <4>2. l = 2 \/ l >= 3
          BY <3>1, <4>1
        <4>. QED  BY <4>1, <4>2 DEF LookAt, ThirdAt
      <3>5. Treated(pass, tok, input[2], ThirdAt(input, 1))
        BY <1>6, <3>4
          DEF PassThrough, Treated, HasPoint, HasSlash, HasExponent, IsKeyword, Three
      <3>. QED  BY <3>2, <3>3, <3>5 DEF ApartFromRest
    <2>. QED  BY <2>2, <2>3
  <1>7. CASE ScanInteger \/ ScanIdentifier \/ ScanSymbol \/ ScanWithPoint \/ ScanRational
             \/ ScanFloating
    <2>1. \E kind, n : JoiningStep(kind, n)
      BY <1>7 DEF JoiningStep
    <2>. QED  BY <1>1, <2>1
  <1>8. CASE ScanString
    <2>1. \E n : JoiningStep("STR", n)
      BY <1>8 DEF JoiningStep, ScanString
    <2>. QED  BY <1>1, <2>1
  <1>9. CASE ScanComment
    <2>1. CommentLength < Len(input) => JoiningStep("CO", CommentLength)
      BY <1>9 DEF JoiningStep
    <2>. QED  BY <1>1, <1>2, <1>9, <2>1
  <1>10. ~ SkipSpaces
    BY DEF SkipSpaces
  <1>. QED  BY <1>4, <1>5, <1>6, <1>7, <1>8, <1>9, <1>10 DEF NextParse

-------------------------------------------------------------------------------
\* Words stay apart.

\* What the input still holds behind n tokens.
Behind(R, n) ==
    /\ R \in Seq(Token) /\ Len(R) > 0
    /\ n < Len(input) => /\ Len(R) = Len(input) - n
                         /\ \A k \in 1 .. Len(R) : R[k] = input[n + k]
    /\ n = Len(input) => Len(R) = 1

AllApart(s, m) ==
    /\ \A k \in 1 .. Len(s) - 1 : ApartAt(s, k)
    /\ \A k \in 1 .. m : TreatedAt(pass, s, k)

ApartFrom(lhs, R) ==
    /\ Apart(lhs, R[1], ThirdAt(R, 0))
    /\ Treated(pass, lhs, R[1], ThirdAt(R, 0))

\* What is put for a token, and all after it, keeps apart what was.
LEMMA LongJoin ==
    ASSUME NEW out \in Seq(Token), Ended(input), NEW lhs \in Token, NEW R,
           NEW n \in 1 .. Len(input), Len(input) > 1, Behind(R, n),
           Stands(lhs, n), ApartFrom(lhs, R), AllApart(out \o input, Len(out))
    PROVE  AllApart(Append(out, lhs) \o R, Len(out) + 1)
  <1>. DEFINE s == Append(out, lhs) \o R
              w == out \o input
              m == Len(out)
              L == Len(input)
  <1>0. /\ input \in Seq(Token) /\ L \in Nat /\ m \in Nat /\ n \in Nat /\ Len(R) \in Nat
        /\ tok = input[1] /\ L > 1 /\ R \in Seq(Token) /\ tok # Eof
    <2>1. 1 \in 1 .. Len(input) - 1
      BY EndedFacts
    <2>. QED  BY <2>1, EndedFacts, LookAtFacts, LenProperties DEF Behind
  <1>1. /\ Append(out, lhs) \in Seq(Token) /\ Len(Append(out, lhs)) = m + 1
        /\ \A k \in 1 .. m : Append(out, lhs)[k] = out[k]
        /\ Append(out, lhs)[m + 1] = lhs
    BY AppendProperties
  <1>2. /\ Len(s) = m + 1 + Len(R)
        /\ \A k \in 1 .. m + 1 : s[k] = Append(out, lhs)[k]
        /\ \A k \in 1 .. Len(R) : s[m + 1 + k] = R[k]
    BY <1>1, NowIs
  <1>3. /\ Len(w) = m + L
        /\ \A k \in 1 .. m : w[k] = out[k]
        /\ \A k \in 1 .. L : w[m + k] = input[k]
    BY <1>0, NowIs
  <1>. HIDE DEF s, w, L, m
  <1>20. PICK r \in Nat : r = Len(R) /\ r > 0
    BY <1>0 DEF Behind
  <1>21. /\ Len(s) = m + 1 + r /\ Len(w) = m + L /\ L > 1 /\ L \in Nat /\ m \in Nat /\ n \in Nat
         /\ n \in 1 .. L
    BY <1>0, <1>2, <1>3, <1>20 DEF L
  <1>22. n \in Nat \ {0}
    BY <1>21
  <1>4. /\ \A k \in 1 .. m : s[k] = w[k]
        /\ s[m + 1] = lhs /\ w[m + 1] = tok /\ w[m + 2] = input[2]
        /\ s[m + 2] = R[1] /\ (Len(R) > 1 => s[m + 3] = R[2])
    <2>1. \A k \in 1 .. m : k \in 1 .. m + 1
      BY <1>0
    <2>2. m + 1 \in 1 .. m + 1 /\ 1 \in 1 .. L /\ 2 \in 1 .. L /\ 1 \in 1 .. Len(R)
          /\ (Len(R) > 1 => 2 \in 1 .. Len(R)) /\ m + 1 + 1 = m + 2 /\ m + 1 + 2 = m + 3
      BY <1>20, <1>21
    <2>3. s[m + 1 + 1] = R[1] /\ (Len(R) > 1 => s[m + 1 + 2] = R[2])
      BY <1>2, <2>2
    <2>. QED  BY <1>0, <1>1, <1>2, <1>3, <2>1, <2>2, <2>3
  <1>5. ASSUME NEW k \in 1 .. m, k + 2 <= m
        PROVE  ApartAt(s, k) /\ TreatedAt(pass, s, k)
    <2>1. k + 1 \in 1 .. m /\ k + 2 \in 1 .. m /\ k + 2 <= Len(s) /\ k + 2 <= Len(w)
          /\ k \in 1 .. Len(w) - 1
      BY <1>5, <1>20, <1>21
    <2>2. s[k] = w[k] /\ s[k + 1] = w[k + 1] /\ s[k + 2] = w[k + 2]
      BY <1>4, <2>1
    <2>. QED  BY <2>1, <2>2 DEF AllApart, ApartAt, TreatedAt, ThirdAt, w, m
  <1>6. ASSUME NEW k \in 1 .. m, k + 1 = m
        PROVE  ApartAt(s, k) /\ TreatedAt(pass, s, k)
    <2>1. k + 1 \in 1 .. m /\ k + 2 = m + 1 /\ k + 2 <= Len(s) /\ k + 2 <= Len(w)
          /\ k \in 1 .. Len(w) - 1
      BY <1>6, <1>20, <1>21
    <2>2. s[k] = w[k] /\ s[k + 1] = w[k + 1] /\ s[k + 2] = lhs /\ w[k + 2] = tok
      BY <1>4, <2>1
    <2>3. Apart(w[k], w[k + 1], tok) /\ Treated(pass, w[k], w[k + 1], tok)
      BY <2>1, <2>2 DEF AllApart, ApartAt, TreatedAt, ThirdAt, w, m
    <2>4. Len(lhs.value) # 1 \/ lhs.value = tok.value
      <3>1. PICK c \in Nat : c = Len(lhs.value) /\ c >= n
        BY TokenFacts DEF Stands
      <3>2. c # 1 \/ n = 1
        BY <1>22, <3>1, OneOrMore
      <3>. QED  BY <3>1, <3>2 DEF Stands
    <2>5. Apart(w[k], w[k + 1], lhs)
      BY <1>0, <2>3, <2>4, ApartThird DEF Stands
    <2>6. Treated(pass, w[k], w[k + 1], lhs)
      <3>1. CASE pass = Integer
        <4>1. pass \notin {WithPoint, Rational, Floating, Keyword}
          BY <3>1, PassNumbersHold DEF PassNumbers
        <4>. QED  BY <4>1, TreatedEarly
      <3>2. CASE pass # Integer
        BY <2>3, <3>2, TreatedThird DEF Stands
      <3>. QED  BY <3>1, <3>2
    <2>. QED  BY <2>1, <2>2, <2>5, <2>6 DEF ApartAt, TreatedAt, ThirdAt
  <1>7. ASSUME NEW k \in 1 .. m, k = m
        PROVE  ApartAt(s, k) /\ TreatedAt(pass, s, k)
    <2>1. k + 1 = m + 1 /\ k + 2 = m + 2 /\ k + 2 <= Len(s) /\ k + 2 <= Len(w)
          /\ k \in 1 .. Len(w) - 1
      BY <1>7, <1>20, <1>21
    <2>2. s[k] = w[k] /\ s[k + 1] = lhs /\ w[k + 1] = tok /\ s[k + 2] = R[1] /\ w[k + 2] = input[2]
      BY <1>4, <2>1
    <2>3. Apart(w[k], tok, input[2]) /\ Treated(pass, w[k], tok, input[2])
      BY <2>1, <2>2 DEF AllApart, ApartAt, TreatedAt, ThirdAt, w, m
    <2>4. n = 1 => lhs.value = tok.value /\ R[1] = input[2]
      <3>1. n = 1 => n < Len(input) /\ 1 \in 1 .. Len(R) /\ n + 1 = 2
        BY <1>20, <1>21 DEF L
      <3>. QED  BY <3>1 DEF Behind, Stands
    <2>5. PICK c \in Nat : c = Len(lhs.value) /\ c >= n
      BY TokenFacts DEF Stands
    <2>6. n # 1 => n >= 2 /\ Len(lhs.value) # 1 /\ (n >= 3 => Len(lhs.value) \notin {1, 2})
      <3>1. n # 1 => n >= 2 /\ c # 1 /\ (n >= 3 => c \notin {1, 2})
        BY <1>22, <2>5, OneOrMore
      <3>. QED  BY <2>5, <3>1
    <2>7. Apart(w[k], lhs, R[1])
      <3>1. Len(lhs.value) # 1 \/ (lhs.value = tok.value /\ R[1] = input[2])
        BY <2>4, <2>6
      <3>2. /\ lhs.kind = "I10" => tok.kind = "I10" \/ Is(Digits, tok)
            /\ tok # Eof /\ lhs.value[1] = tok.value[1]
        BY <1>0 DEF Stands
      <3>. QED  BY <2>3, <3>1, <3>2, ApartNext
    <2>8. Treated(pass, w[k], lhs, R[1])
      <3>1. \/ Len(lhs.value) \notin {1, 2}
            \/ Len(lhs.value) # 1 /\ pass # Floating
            \/ lhs.value = tok.value /\ R[1] = input[2]
        <4>1. pass = Floating => n \in {1, 3}
          BY DEF Stands
        <4>2. n = 3 => n >= 3
          OBVIOUS
        <4>. QED  BY <2>4, <2>6, <4>1, <4>2
      <3>. QED  BY <2>3, <3>1, TreatedNext
    <2>. QED  BY <2>1, <2>2, <2>7, <2>8 DEF ApartAt, TreatedAt, ThirdAt
  <1>8. ASSUME NEW k \in 1 .. m PROVE ApartAt(s, k) /\ TreatedAt(pass, s, k)
    <2>1. k + 2 <= m \/ k + 1 = m \/ k = m
      BY <1>0
    <2>. QED  BY <1>5, <1>6, <1>7, <2>1
  <1>9. ApartAt(s, m + 1) /\ TreatedAt(pass, s, m + 1)
    <2>1. m + 1 + 2 <= Len(s) <=> Len(R) > 1
      BY <1>20, <1>21
    <2>2. m + 1 + 1 = m + 2 /\ m + 1 + 2 = m + 3 /\ (0 + 2 <= Len(R) <=> Len(R) > 1) /\ 0 + 1 = 1 /\ 0 + 2 = 2
      BY <1>0
    <2>3. ThirdAt(s, m + 1) = ThirdAt(R, 0)
      BY <1>4, <2>1, <2>2 DEF ThirdAt
    <2>. QED  BY <1>4, <2>2, <2>3 DEF ApartFrom, ApartAt, TreatedAt
  <1>10. ASSUME NEW k \in 1 .. Len(s) - 1, k > m + 1 PROVE ApartAt(s, k)
    <2>1. PICK j \in Nat : k = m + 1 + j
      <3>1. k - (m + 1) \in Nat /\ k = m + 1 + (k - (m + 1))
        BY <1>0, <1>10
      <3>. QED  BY <3>1
    <2>2. j \in 1 .. r - 1 /\ j + 1 \in 1 .. r /\ j \in 1 .. r
          /\ (k + 2 <= Len(s) <=> j + 2 <= r)
      BY <1>10, <1>20, <1>21, <2>1
    <2>3. n < L /\ r = L - n /\ \A x \in 1 .. r : R[x] = input[n + x]
      <3>1. r # 1
        BY <2>2
      <3>2. n # L
        BY <1>20, <3>1 DEF Behind, L
      <3>3. n < L
        BY <1>21, <3>2
      <3>. QED  BY <1>20, <3>3 DEF Behind, L
    <2>4. PICK l \in Nat : l = m + (n + j)
      BY <1>21
    <2>5. /\ l \in 1 .. Len(w) - 1
          /\ n + j \in 1 .. L /\ n + (j + 1) \in 1 .. L
          /\ (j + 2 <= r <=> l + 2 <= Len(w))
          /\ (j + 2 <= r => n + (j + 2) \in 1 .. L /\ j + 2 \in 1 .. r)
          /\ l + 1 = m + (n + (j + 1)) /\ l + 2 = m + (n + (j + 2))
      BY <1>20, <1>21, <2>2, <2>3, <2>4
    <2>6. k + 1 = m + 1 + (j + 1) /\ k + 2 = m + 1 + (j + 2)
      BY <1>21, <2>1
    <2>. DEFINE a(x) == s[m + 1 + x]
                b(x) == w[m + (n + x)]
    <2>10. ASSUME NEW x \in 1 .. r, n + x \in 1 .. L PROVE a(x) = b(x)
      <3>1. s[m + 1 + x] = R[x]
        BY <1>2, <1>20
      <3>2. w[m + (n + x)] = input[n + x]
        BY <1>3, <2>10
      <3>. QED  BY <2>3, <3>1, <3>2
    <2>11. s[k] = a(j) /\ s[k + 1] = a(j + 1) /\ s[k + 2] = a(j + 2)
      BY <2>1, <2>6
    <2>12. w[l] = b(j) /\ w[l + 1] = b(j + 1) /\ w[l + 2] = b(j + 2)
      BY <2>4, <2>5
    <2>. HIDE DEF a, b
    <2>7. s[k] = w[l] /\ s[k + 1] = w[l + 1]
      BY <2>2, <2>5, <2>10, <2>11, <2>12
    <2>8. j + 2 <= r => s[k + 2] = w[l + 2]
      BY <2>5, <2>10, <2>11, <2>12
    <2>9. ThirdAt(s, k) = ThirdAt(w, l)
      BY <2>2, <2>5, <2>7, <2>8 DEF ThirdAt
    <2>. QED  BY <2>5, <2>7, <2>9 DEF AllApart, ApartAt, w
  <1>11. \A k \in 1 .. Len(s) - 1 : k \in 1 .. m \/ k = m + 1 \/ k > m + 1
    BY <1>20, <1>21
  <1>12. \A k \in 1 .. m + 1 : k \in 1 .. m \/ k = m + 1
    BY <1>0
  <1>. QED  BY <1>8, <1>9, <1>10, <1>11, <1>12 DEF AllApart, s, m

LEMMA LongInvInit ==
    ASSUME Init
    PROVE  LongInv
  <1>1. pass = 0 /\ input = <<>> /\ output = <<>>
    BY DEF Init, PassesInit
  <1>2. Now = <<>>
    BY <1>1 DEF Now
  <1>3. (\A k \in 1 .. 0 - 1 : FALSE) /\ (\A k \in 1 .. 0 : FALSE) /\ Len(<<>>) = 0
    OBVIOUS
  <1>. QED  BY <1>1, <1>2, <1>3, PassNumbersHold DEF LongInv, PassNumbers

\* The tokens of a scan are no words yet.
LEMMA LongStart ==
    ASSUME WordsTyped, StartFirst
    PROVE  LongInv'
  <1>1. pass' = Integer /\ input' = Given /\ output' = <<>>
    BY StartFirstTyped DEF WordsTyped
  <1>2. Ended(Given) /\ \A t \in ToSet(Given) : t.kind \in ScanKinds
    BY GivenFacts DEF StartFirst, WordsTyped, ScanKinds
  <1>. HIDE DEF Given
  <1>3. Given \in Seq(Token) /\ \A k \in 1 .. Len(Given) : Given[k].kind \in ScanKinds
    BY <1>2, EndedFacts DEF ToSet
  <1>4. Now' = Given
    BY <1>1, <1>3, ConcatEmptySeq DEF Now
  <1>5. \A k \in 1 .. Len(Given) - 1 : k \in 1 .. Len(Given)
    BY <1>3, LenProperties
  <1>6. \A k \in 1 .. Len(Given) - 1 : ApartAt(Given, k)
    BY <1>3, <1>5, ApartOther DEF ApartAt, ScanKinds
  <1>7. \A k \in 1 .. Len(output') : FALSE
    BY <1>1
  <1>8. pass' # Identifier
    BY <1>1, PassNumbersHold DEF PassNumbers
  <1>. QED  BY <1>1, <1>3, <1>4, <1>6, <1>7, <1>8 DEF LongInv

\* A step of a pass keeps words apart, whatever it joins.
LEMMA LongParse ==
    ASSUME WordsTyped, KindsInv, LongInv, NextParse, ~ RejectString, pass < RemoveSpaces
    PROVE  LongInv'
  <1>0. /\ PassesTyped /\ Ended(input) /\ output \in Seq(Token) /\ pass \in 1 .. 10
        /\ input \in Seq(Token) /\ Len(input) \in Nat \ {0}
        /\ RemoveSpaces = 11 /\ Integer = 1 /\ Identifier = 2
    <2>1. pass \notin {0, RemoveSpaces + 1}
      BY ParseShape DEF WordsTyped
    <2>. QED  BY <2>1, EndedFacts, PassNumbersHold DEF WordsTyped, PassesTyped, PassNumbers
  <1>1. /\ \A k \in 1 .. Len(output \o input) - 1 : ApartAt(output \o input, k)
        /\ \A k \in 1 .. Len(output) : TreatedAt(pass, output \o input, k)
        /\ pass = Integer => /\ \A k \in 1 .. Len(input) : input[k].kind \in ScanKinds
                             /\ \A k \in 1 .. Len(output) : output[k].kind # "ID"
        /\ pass = Identifier => \A k \in 1 .. Len(input) : input[k].kind # "ID"
    BY DEF LongInv, Now
  <1>2. /\ Len(output \o input) = Len(output) + Len(input) /\ Len(output) \in Nat
        /\ \A k \in 1 .. Len(input) : (output \o input)[Len(output) + k] = input[k]
    BY <1>0, NowIs
  <1>3. FirstApart
    <2>. DEFINE m == Len(output)
                w == output \o input
    <2>1. SUFFICES ASSUME Len(input) > 1 PROVE ApartAt(input, 1)
      BY DEF FirstApart
    <2>2. m + 1 \in 1 .. Len(w) - 1 /\ 1 \in 1 .. Len(input) /\ 2 \in 1 .. Len(input)
          /\ (m + 1 + 2 <= Len(w) <=> 3 <= Len(input))
          /\ (3 <= Len(input) => 3 \in 1 .. Len(input))
          /\ m + 1 + 1 = m + 2 /\ m + 1 + 2 = m + 3
      BY <1>0, <1>2, <2>1
    <2>. HIDE DEF m, w
    <2>3. w[m + 1] = input[1] /\ w[m + 2] = input[2] /\ (3 <= Len(input) => w[m + 3] = input[3])
      BY <1>2, <2>2 DEF m, w
    <2>4. ThirdAt(w, m + 1) = ThirdAt(input, 1)
      <3>1. ThirdAt(w, m + 1) = IF 3 <= Len(input) THEN w[m + 3] ELSE w[m + 2]
        BY <2>2, Zenon DEF ThirdAt
      <3>2. ThirdAt(input, 1) = IF 3 <= Len(input) THEN input[3] ELSE input[2]
        <4>1. 1 + 2 = 3 /\ 1 + 1 = 2
          OBVIOUS
        <4>. QED  BY <4>1, Zenon DEF ThirdAt
      <3>. QED  BY <2>3, <3>1, <3>2
    <2>5. ApartAt(w, m + 1)
      BY <1>1, <2>2 DEF w
    <2>. QED  BY <2>2, <2>3, <2>4, <2>5 DEF ApartAt
  <1>4. PICK lhs, n : /\ Shape(lhs, n)
                      /\ Joins(lhs, n) => Stands(lhs, n) /\ ApartFromRest(lhs, n)
    BY <1>0, <1>1, <1>3, ParseApart DEF KindsInv
  <1>5. CASE lhs = Eof
    <2>1. PutsEof(lhs, n)
      BY <1>0, <1>4, <1>5, EofIsToken DEF Shape, Joins, TakesAll, Skips
    <2>2. pass' = pass + 1 /\ input' = Append(output, Eof) /\ output' = <<>>
      BY <1>4, <1>5 DEF Shape, Put
    <2>3. input = <<Eof>>
      <3>1. Len(input) = 1 /\ input[1] = Eof
        BY <1>0, <2>1, EndedFacts DEF PutsEof
      <3>. QED  BY <1>0, <3>1
    <2>4. output \o input = Append(output, Eof) /\ Append(output, Eof) \in Seq(Token)
      BY <1>0, <2>3, EofIsToken, AppendIsConcat, AppendProperties
    <2>5. Now' = output \o input
      BY <2>2, <2>4, ConcatEmptySeq DEF Now
    <2>6. \A k \in 1 .. Len(output') : FALSE
      BY <2>2
    <2>7. pass' = Identifier => \A k \in 1 .. Len(input') : input'[k].kind # "ID"
      <3>1. SUFFICES ASSUME pass = Integer, NEW k \in 1 .. Len(Append(output, Eof))
                     PROVE  Append(output, Eof)[k].kind # "ID"
        BY <1>0, <2>2
      <3>2. k \in 1 .. Len(output) \/ k = Len(output) + 1
        BY <1>0, <1>2, AppendProperties, EofIsToken
      <3>3. Eof.kind # "ID"
        BY DEF Eof, Tokens
      <3>. QED  BY <1>0, <1>1, <3>1, <3>2, <3>3, AppendProperties, EofIsToken
    <2>8. pass' # Integer
      BY <1>0, <2>2
    <2>9. \A k \in 1 .. Len(Now') - 1 : ApartAt(Now', k)
      BY <1>1, <2>5, Zenon
    <2>. QED  BY <2>6, <2>7, <2>8, <2>9, Zenon DEF LongInv
  <1>6. CASE lhs # Eof
    <2>1. /\ lhs \in Token /\ pass' = pass /\ output' = Append(output, lhs) /\ input' = Rest(n)
      BY <1>4, <1>6 DEF Shape, Put
    <2>2. Joins(lhs, n) \/ TakesAll(lhs, n)
      BY <1>0, <1>4, <1>6 DEF Shape, PutsEof, Skips
    <2>3. /\ n \in 1 .. Len(input) /\ Len(input) > 1 /\ n \in Nat
          /\ TakesAll(lhs, n) => n = Len(input)
          /\ Joins(lhs, n) => n < Len(input) /\ n \in 1 .. Len(input) - 1
      BY <1>0, <2>2 DEF Joins, TakesAll
    <2>4. /\ Ended(Rest(n))
          /\ n < Len(input) => /\ Len(Rest(n)) = Len(input) - n
                               /\ \A k \in 1 .. Len(Rest(n)) : Rest(n)[k] = input[n + k]
          /\ n = Len(input) => Rest(n) = <<Eof>>
      BY <1>0, <2>3, RestFacts
    <2>. DEFINE R == Rest(n)
    <2>5. R \in Seq(Token) /\ Len(R) > 0 /\ Len(R) \in Nat /\ (n = Len(input) => Len(R) = 1)
      BY <2>4, EndedFacts
    <2>6. Stands(lhs, n) /\ ApartFrom(lhs, R)
      <3>1. CASE Joins(lhs, n)
        <4>1. Stands(lhs, n) /\ ApartFromRest(lhs, n)
          BY <1>4, <3>1
        <4>2. R[1] = input[n + 1] /\ ThirdAt(R, 0) = ThirdAt(input, n)
          <5>1. Len(R) = Len(input) - n /\ \A k \in 1 .. Len(R) : R[k] = input[n + k]
            BY <2>3, <2>4, <3>1
          <5>2. 1 \in 1 .. Len(R) /\ (0 + 2 <= Len(R) <=> n + 2 <= Len(input))
                /\ (0 + 2 <= Len(R) => 2 \in 1 .. Len(R)) /\ 0 + 1 = 1 /\ 0 + 2 = 2
            BY <1>0, <2>3, <2>5, <3>1, <5>1
          <5>. HIDE DEF R
          <5>3. R[1] = input[n + 1] /\ (0 + 2 <= Len(R) => R[2] = input[n + 2])
            BY <5>1, <5>2
          <5>. QED  BY <5>2, <5>3 DEF ThirdAt
        <4>. HIDE DEF R
        <4>. QED  BY <4>1, <4>2 DEF ApartFrom, ApartFromRest
      <3>2. CASE TakesAll(lhs, n)
        <4>1. lhs.kind = "CO" /\ lhs.value = Text(input) /\ n = Len(input) /\ n > 1
              /\ pass # Floating
          BY <3>2, PassNumbersHold DEF TakesAll, PassNumbers
        <4>2. lhs.value[1] = tok.value[1] /\ Len(lhs.value) >= n
          BY <1>0, <4>1, TextGrows, LookAtFacts
        <4>. HIDE DEF R
        <4>3. ApartFrom(lhs, R)
          BY <4>1, ApartOther, TreatedOther DEF ApartFrom
        <4>4. n # 1
          BY <2>3, <4>1
        <4>. QED  BY <4>1, <4>2, <4>3, <4>4 DEF Stands
      <3>. QED  BY <2>2, <3>1, <3>2
    <2>7. AllApart(Append(output, lhs) \o R, Len(output) + 1)
      <3>1. Behind(R, n)
        BY <2>4, <2>5 DEF Behind
      <3>2. AllApart(output \o input, Len(output))
        BY <1>1 DEF AllApart
      <3>. HIDE DEF R
      <3>. QED  BY <1>0, <2>1, <2>3, <2>6, <3>1, <3>2, LongJoin
    <2>8. Now' = Append(output, lhs) \o R /\ Len(output') = Len(output) + 1
      BY <1>0, <2>1, AppendProperties DEF Now
    <2>9. pass' = Integer => \A k \in 1 .. Len(input') : input'[k].kind \in ScanKinds
      <3>. DEFINE S == {t \in Token : t.kind \in ScanKinds}
      <3>1. SUFFICES ASSUME pass = Integer PROVE \A k \in 1 .. Len(input') : input'[k] \in S
        BY <2>1
      <3>2. \A k \in 1 .. Len(input) : input[k] \in S
        BY <1>0, <1>1, <3>1, EndedFacts
      <3>3. pass \notin {0, RemoveSpaces + 1}
        BY <1>0
      <3>. HIDE DEF S
      <3>. QED  BY <1>0, <1>4, <1>6, <3>2, <3>3, ShapeKeeps
    <2>10. pass' = Integer => \A k \in 1 .. Len(output') : output'[k].kind # "ID"
      <3>1. SUFFICES ASSUME pass = Integer, NEW k \in 1 .. Len(Append(output, lhs))
                     PROVE  Append(output, lhs)[k].kind # "ID"
        BY <2>1
      <3>2. k \in 1 .. Len(output) \/ k = Len(output) + 1
        BY <1>0, <1>2, <2>1, AppendProperties
      <3>3. lhs.kind # "ID"
        <4>1. tok.kind \in ScanKinds
          <5>1. 1 \in 1 .. Len(input)
            BY <1>0
          <5>. QED  BY <1>0, <1>1, <3>1, <5>1, LookAtFacts
        <4>2. pass # Identifier
          BY <1>0, <3>1
        <4>. QED  BY <2>6, <4>1, <4>2 DEF Stands, ScanKinds
      <3>. QED  BY <1>0, <1>1, <2>1, <3>1, <3>2, <3>3, AppendProperties
    <2>11. pass' = Identifier => \A k \in 1 .. Len(input') : input'[k].kind # "ID"
      <3>. DEFINE S == {t \in Token : t.kind # "ID"}
      <3>1. SUFFICES ASSUME pass = Identifier PROVE \A k \in 1 .. Len(input') : input'[k] \in S
        BY <2>1
      <3>2. \A k \in 1 .. Len(input) : input[k] \in S
        BY <1>0, <1>1, <3>1, EndedFacts
      <3>3. pass \notin {0, RemoveSpaces + 1}
        BY <1>0
      <3>. HIDE DEF S
      <3>. QED  BY <1>0, <1>4, <1>6, <3>2, <3>3, ShapeKeeps
    <2>. HIDE DEF R
    <2>. QED  BY <2>1, <2>7, <2>8, <2>9, <2>10, <2>11 DEF AllApart, LongInv
  <1>. QED  BY <1>5, <1>6

LEMMA LongInvStep ==
    ASSUME WordsTyped, KindsInv, LongInv, [Next]_vars
    PROVE  LongInv'
  <1>1. ASSUME UNCHANGED <<pass, input, output>> PROVE LongInv'
    BY <1>1 DEF LongInv, Now, ApartAt, TreatedAt
  <1>2. CASE StartFirst
    BY <1>2, LongStart
  <1>3. CASE NextParse /\ ~ RejectString /\ pass < RemoveSpaces
    BY <1>3, LongParse
  <1>4. CASE NextParse /\ ~ RejectString /\ ~ (pass < RemoveSpaces)
    <2>1. PICK lhs, n : Shape(lhs, n)
      BY <1>4, ParseShape DEF WordsTyped
    <2>2. pass' = pass \/ pass' = pass + 1
      BY <2>1 DEF Shape, Put
    <2>3. pass \in Nat /\ Integer = 1 /\ Identifier = 2 /\ RemoveSpaces = 11
      BY PassNumbersHold DEF WordsTyped, PassesTyped, PassNumbers
    <2>4. ~ (pass' < RemoveSpaces) /\ pass' # Integer /\ pass' # Identifier
      BY <1>4, <2>2, <2>3
    <2>. QED  BY <2>4 DEF LongInv
  <1>5. CASE RejectString
    BY <1>1, <1>5 DEF RejectString
  <1>. QED  BY <1>1, <1>2, <1>3, <1>4, <1>5
            DEF Next, ScanStep, ParseStep, vars, passesVars

\* The two say the same of the tokens.
LEMMA LongestWordsHolds ==
    ASSUME PassesTyped, LongInv
    PROVE  LongestWords
  <1>. SUFFICES ASSUME pass < RemoveSpaces, NEW k \in 1 .. Len(Now) - 1
                PROVE  LET next == Now[k + 1]
                           third == Now[IF k + 2 <= Len(Now) THEN k + 2 ELSE k + 1]
                           kind == Now[k].kind
                       IN  /\ kind = "I10" =>
                                /\ next.kind # "I10" /\ ~Is(Digits, next)
                                /\ ~(Is(Connectors, next) /\ third.value[1] \in Digits)
                           /\ kind = "SY" => ~Is(SymbolParts, next)
                           /\ k <= Len(output) =>
                                /\ pass = WithPoint /\ kind = "I10" =>
                                      ~(next.value = <<".">> /\ third.kind = "I10")
                                /\ pass = Rational /\ kind = "I10" =>
                                      ~(next.value \in Slashes /\ third.kind = "I10")
                                /\ pass = Floating /\ kind = "I.I10" =>
                                      ~(next.value \in ExponentStarts /\ third.kind = "I10")
                                /\ pass = Keyword =>
                                      ~(kind \in {"CP", "SY", "ID"} /\ Now[k].value \in Keywords)
    BY Zenon DEF LongestWords
  <1>1. ApartAt(Now, k)
    BY DEF LongInv
  <1>2. k <= Len(output) => TreatedAt(pass, Now, k)
    <2>1. Len(output) \in Nat /\ (k <= Len(output) => k \in 1 .. Len(output))
      BY LenProperties DEF PassesTyped
    <2>. QED  BY <2>1 DEF LongInv
  <1>3. ThirdAt(Now, k) = Now[IF k + 2 <= Len(Now) THEN k + 2 ELSE k + 1]
    BY DEF ThirdAt
  <1>. QED  BY <1>1, <1>2, <1>3 DEF ApartAt, TreatedAt, Apart, Treated

\* The same of what is behind an identifier.
LEMMA OnlyIntegersCutOffHolds ==
    ASSUME PassesTyped, LongInv
    PROVE  OnlyIntegersCutOff
  <1>. SUFFICES ASSUME pass < RemoveSpaces, NEW k \in 1 .. Len(Now) - 1, Now[k].kind = "ID",
                       NEW t \in After(k)
                PROVE  ContinuesId(t) => Len(t.value) # 1 /\ t.value[1] \in Digits
    BY Zenon DEF OnlyIntegersCutOff
  <1>1. ApartAt(Now, k)
    BY DEF LongInv
  <1>2. \/ t = Now[k + 1]
        \/ Is(Connectors, Now[k + 1]) /\ t = ThirdAt(Now, k)
    BY DEF After, ThirdAt
  <1>. QED  BY <1>1, <1>2 DEF ApartAt, Apart, Continuing

LEMMA LongIsKept == Spec => [](PassesTyped /\ LongInv)
  <1>1. Init => LongInv
    BY LongInvInit
  <1>2. WordsTyped /\ WordsTyped' /\ KindsInv /\ LongInv /\ [Next]_vars => LongInv'
    BY LongInvStep
  <1>3. WordsTyped => PassesTyped
    BY DEF WordsTyped
  <1>4. Spec => []KindsInv
    <2>1. Init => KindsInv
      BY KindsInvInit
    <2>2. WordsTyped /\ WordsTyped' /\ KindsInv /\ [Next]_vars => KindsInv'
      BY KindsInvStep
    <2>. QED  BY WordsAreTyped, <2>1, <2>2, PTL DEF Spec
  <1>. QED  BY WordsAreTyped, <1>1, <1>2, <1>3, <1>4, PTL DEF Spec

\* A number and a symbol are as long as they can be, in every pass up to the one
\* that removes spaces: what comes after one does not continue it, though the
\* tokens after it are joined by later passes; and a token that a pass has put is
\* none that it would have taken as the first of a longer one.
THEOREM LongestWordsAlways == Spec => []LongestWords
  <1>1. PassesTyped /\ LongInv => LongestWords
    BY LongestWordsHolds
  <1>. QED  BY LongIsKept, <1>1, PTL

\* An identifier is cut short, against 40-identifier.c, before an integer of
\* several digits and before nothing else: neither a letter, nor a connector and
\* a letter, nor a digit by itself is left behind one, whatever later passes make
\* of the tokens after it.
THEOREM OnlyIntegersAreCutOff == Spec => []OnlyIntegersCutOff
  <1>1. PassesTyped /\ LongInv => OnlyIntegersCutOff
    BY OnlyIntegersCutOffHolds
  <1>. QED  BY LongIsKept, <1>1, PTL

-------------------------------------------------------------------------------
\* Composition, line by line.

LEMMA ComposeFacts ==
    /\ Scan!Compose(<<>>) = <<>>
    /\ \A s \in Seq(CodePoints) : Scan!Compose(s) \in Seq(CodePoints)
    /\ \A s \in Seq(CodePoints), c \in CodePoints :
          Scan!Compose(Append(s, c)) = Scan!ComposeWith(Scan!Compose(s), c)
  <1>1. <<>> \in Seq(CodePoints)
    BY EmptySeq
  <1>2. /\ Fold(WithMark, <<>>, <<>>) = <<>>
        /\ \A s \in Seq(CodePoints), c \in CodePoints :
              Fold(WithMark, <<>>, Append(s, c)) = Stepped(WithMark, Fold(WithMark, <<>>, s), c)
    <2>. DEFINE Y == Seq(CodePoints)
                a == <<>>
    <2>1. a \in Y /\ Takes(WithMark, Y, CodePoints)
      BY <1>1, WithMarkTakes
    <2>. HIDE DEF Y, a
    <2>2. /\ Fold(WithMark, a, <<>>) = a
          /\ \A s \in Seq(CodePoints), c \in CodePoints :
                Fold(WithMark, a, Append(s, c)) = Stepped(WithMark, Fold(WithMark, a, s), c)
      <3>1. Fold(WithMark, a, <<>>) = a
        <4>. DEFINE g == [k \in 0 .. 0 |-> a]
                    e == <<>>
        <4>1. Folds(g, WithMark, a, e) /\ g[Len(e)] = a /\ e \in Seq(CodePoints)
          BY EmptySeq DEF Folds
        <4>. HIDE DEF g, e
        <4>2. g[Len(e)] = Fold(WithMark, a, e)
          BY <2>1, <4>1, FoldIsThat
        <4>. QED  BY <4>1, <4>2 DEF e
      <3>2. ASSUME NEW s \in Seq(CodePoints), NEW c \in CodePoints
            PROVE  Fold(WithMark, a, Append(s, c)) = Stepped(WithMark, Fold(WithMark, a, s), c)
        BY <2>1, FoldFacts
      <3>. QED  BY <3>1, <3>2
    <2>. QED  BY <2>2 DEF a
  <1>3. ASSUME NEW s \in Seq(CodePoints), NEW c \in CodePoints
        PROVE  Scan!Compose(Append(s, c)) = Scan!ComposeWith(Scan!Compose(s), c)
    <2>1. Append(s, c) \in Seq(CodePoints)
      BY AppendProperties
    <2>2. /\ Scan!Compose(Append(s, c)) = Fold(WithMark, <<>>, Append(s, c))
          /\ Scan!Compose(s) = Fold(WithMark, <<>>, s)
          /\ Scan!Compose(s) \in Seq(CodePoints)
      BY <2>1, ComposeIs
    <2>. QED  BY <1>2, <2>2, WithMarkTakes
  <1>. QED  BY <1>1, <1>2, <1>3, ComposeIs

\* Nothing is composed with what is before it.
Closed(s) == s = <<>> \/ s[Len(s)] = "\n"

LEMMA ScanEnds ==
    ASSUME NEW s \in Seq(CodePoints), s # <<>>
    PROVE  Scan!Last(s) = s[Len(s)] /\ Scan!Front(s) = Front(s)
  BY DEF Scan!Last, Scan!Front, Front

LEMMA ComposeWithCases ==
    ASSUME NEW s \in Seq(CodePoints), NEW c \in CodePoints
    PROVE  Scan!ComposeWith(s, c) =
             IF c = Mark /\ s # <<>> /\ s[Len(s)] \in DOMAIN Composed
             THEN Append(Front(s), Composed[s[Len(s)]])
             ELSE Append(s, c)
  BY ScanEnds DEF Scan!ComposeWith

LEMMA FrontOfAppend ==
    ASSUME NEW s \in Seq(CodePoints), NEW c \in CodePoints
    PROVE  Front(Append(s, c)) = s
  <1>1. /\ Append(s, c) \in Seq(CodePoints) /\ Append(s, c) # <<>>
        /\ Len(s) \in Nat /\ Len(Append(s, c)) = Len(s) + 1
        /\ \A k \in 1 .. Len(s) : Append(s, c)[k] = s[k]
    BY AppendFacts
  <1>. DEFINE a == Append(s, c)
  <1>. HIDE DEF a
  <1>2. a \in Seq(CodePoints) /\ a # <<>> /\ Len(a) = Len(s) + 1 /\ Len(s) \in Nat
        /\ \A k \in 1 .. Len(s) : a[k] = s[k]
    BY <1>1 DEF a
  <1>3. /\ Front(a) \in Seq(CodePoints) /\ Len(Front(a)) = Len(s)
        /\ \A k \in 1 .. Len(s) : Front(a)[k] = a[k]
    <2>1. /\ Front(a) \in Seq(CodePoints) /\ Len(Front(a)) = Len(a) - 1
          /\ \A k \in 1 .. Len(a) - 1 : Front(a)[k] = a[k]
      BY <1>2, FrontFacts
    <2>2. Len(a) - 1 = Len(s)
      BY <1>2
    <2>. QED  BY <2>1, <2>2
  <1>4. Front(a) = s
    BY <1>2, <1>3, SeqEqual
  <1>. QED  BY <1>4 DEF a

LEMMA ConcatEnds ==
    ASSUME NEW a \in Seq(CodePoints), NEW d \in Seq(CodePoints), d # <<>>
    PROVE  /\ a \o d \in Seq(CodePoints) /\ a \o d # <<>>
           /\ (a \o d)[Len(a \o d)] = d[Len(d)]
           /\ Front(a \o d) = a \o Front(d)
  <1>1. /\ Len(d) \in Nat \ {0} /\ Front(d) \in Seq(CodePoints) /\ d[Len(d)] \in CodePoints
        /\ d = Append(Front(d), d[Len(d)])
    BY FrontFacts
  <1>2. PICK e \in Seq(CodePoints), x \in CodePoints :
           d = Append(e, x) /\ e = Front(d) /\ x = d[Len(d)]
    BY <1>1
  <1>3. a \o d = Append(a \o e, x) /\ a \o e \in Seq(CodePoints)
    BY <1>2
  <1>4. Front(Append(a \o e, x)) = a \o e
    BY <1>3, FrontOfAppend
  <1>5. /\ Append(a \o e, x)[Len(Append(a \o e, x))] = x
        /\ Append(a \o e, x) \in Seq(CodePoints) /\ Append(a \o e, x) # <<>>
    BY <1>3, AppendFacts
  <1>. QED  BY <1>2, <1>3, <1>4, <1>5

LEMMA AppendToConcat ==
    ASSUME NEW a \in Seq(CodePoints), NEW d \in Seq(CodePoints), NEW c \in CodePoints
    PROVE  Append(a \o d, c) = a \o Append(d, c)
  OBVIOUS

LEMMA ComposeWithAfter ==
    ASSUME NEW a \in Seq(CodePoints), Closed(a), NEW d \in Seq(CodePoints),
           NEW c \in CodePoints
    PROVE  Scan!ComposeWith(a \o d, c) = a \o Scan!ComposeWith(d, c)
  <1>1. a \o d \in Seq(CodePoints)
    BY ConcatProperties
  <1>2. CASE d = <<>>
    <2>1. a \o d = a
      BY <1>2, ConcatEmptySeq
    <2>2. Scan!ComposeWith(d, c) = Append(d, c)
      BY <1>2, ComposeWithCases
    <2>3. Scan!ComposeWith(a, c) = Append(a, c)
      <3>1. ~ (a # <<>> /\ a[Len(a)] \in DOMAIN Composed)
        BY LinesAssumption DEF Closed
      <3>. QED  BY <3>1, ComposeWithCases
    <2>. QED  BY <2>1, <2>2, <2>3, AppendToConcat
  <1>3. CASE d # <<>> /\ ~ (c = Mark /\ d[Len(d)] \in DOMAIN Composed)
    <2>1. Scan!ComposeWith(d, c) = Append(d, c)
      BY <1>3, ComposeWithCases
    <2>2. (a \o d)[Len(a \o d)] = d[Len(d)]
      BY <1>3, ConcatEnds
    <2>3. Scan!ComposeWith(a \o d, c) = Append(a \o d, c)
      BY <1>1, <1>3, <2>2, ComposeWithCases
    <2>. QED  BY <2>1, <2>3, AppendToConcat
  <1>4. CASE d # <<>> /\ c = Mark /\ d[Len(d)] \in DOMAIN Composed
    <2>. DEFINE x == Composed[d[Len(d)]]
    <2>1. Scan!ComposeWith(d, c) = Append(Front(d), x)
      BY <1>4, ComposeWithCases
    <2>2. /\ (a \o d)[Len(a \o d)] = d[Len(d)] /\ a \o d # <<>>
          /\ Front(a \o d) = a \o Front(d)
      BY <1>4, ConcatEnds
    <2>3. Scan!ComposeWith(a \o d, c) = Append(a \o Front(d), x)
      BY <1>1, <1>4, <2>2, ComposeWithCases
    <2>4. x \in CodePoints /\ Front(d) \in Seq(CodePoints)
      BY <1>4, CommandLinesAssumption, FrontFacts
    <2>. HIDE DEF x
    <2>5. Append(a \o Front(d), x) = a \o Append(Front(d), x)
      BY <2>4, AppendToConcat
    <2>. QED  BY <2>1, <2>3, <2>5, Zenon
  <1>. QED  BY <1>2, <1>3, <1>4

\* What follows the end of a line is composed as if it stood alone.
LEMMA ComposeAfter ==
    ASSUME NEW a \in Seq(CodePoints), Closed(Scan!Compose(a))
    PROVE  \A t \in Seq(CodePoints) :
              Scan!Compose(a \o t) = Scan!Compose(a) \o Scan!Compose(t)
  <1>. DEFINE S == {t \in Seq(CodePoints) :
                      Scan!Compose(a \o t) = Scan!Compose(a) \o Scan!Compose(t)}
  <1>1. <<>> \in S
    <2>1. /\ <<>> \in Seq(CodePoints) /\ a \o <<>> = a
          /\ Scan!Compose(a) \o <<>> = Scan!Compose(a)
      BY EmptySeq, ComposeFacts, ConcatEmptySeq
    <2>. QED  BY <2>1, ComposeFacts
  <1>2. ASSUME NEW t \in Seq(CodePoints), NEW c \in CodePoints, t \in S
        PROVE  Append(t, c) \in S
    <2>. DEFINE b == Scan!Compose(a)
                d == Scan!Compose(t)
    <2>1. b \in Seq(CodePoints) /\ d \in Seq(CodePoints) /\ Closed(b)
      BY ComposeFacts
    <2>2. a \o t \in Seq(CodePoints) /\ a \o Append(t, c) = Append(a \o t, c)
          /\ Append(t, c) \in Seq(CodePoints)
      BY AppendToConcat, ConcatProperties, AppendProperties
    <2>3. Scan!Compose(Append(a \o t, c)) = Scan!ComposeWith(Scan!Compose(a \o t), c)
      BY <2>2, ComposeFacts
    <2>4. Scan!Compose(a \o t) = b \o d
      BY <1>2
    <2>5. Scan!Compose(Append(t, c)) = Scan!ComposeWith(d, c)
      BY ComposeFacts
    <2>. HIDE DEF b, d
    <2>6. Scan!ComposeWith(b \o d, c) = b \o Scan!ComposeWith(d, c)
      BY <2>1, ComposeWithAfter
    <2>7. Scan!Compose(a \o Append(t, c)) = b \o Scan!Compose(Append(t, c))
      BY <2>2, <2>3, <2>4, <2>5, <2>6
    <2>. QED  BY <2>2, <2>7 DEF b
  <1>3. \A t \in Seq(CodePoints) : t \in S
    <2>. HIDE DEF S
    <2>. QED  BY <1>1, <1>2, SeqInduction
  <1>. QED  BY <1>3

\* The end of a line stays, and no other comes to be.
LEMMA ComposeEnd ==
    ASSUME NEW s \in Seq(CodePoints), "\n" \in CodePoints
    PROVE  Scan!Compose(Append(s, "\n")) = Append(Scan!Compose(s), "\n")
  BY ComposeFacts, ComposeWithCases, LinesAssumption

NoEnds(s) == \A k \in 1 .. Len(s) : s[k] # "\n"

LEMMA NoEndsAppend ==
    ASSUME NEW s \in Seq(CodePoints), NEW c \in CodePoints
    PROVE  NoEnds(Append(s, c)) <=> NoEnds(s) /\ c # "\n"
  <1>1. /\ Len(s) \in Nat /\ Len(Append(s, c)) = Len(s) + 1
        /\ Append(s, c)[Len(s) + 1] = c
        /\ \A k \in 1 .. Len(s) : Append(s, c)[k] = s[k]
    BY AppendFacts
  <1>2. \A k : k \in 1 .. Len(s) + 1 <=> k \in 1 .. Len(s) \/ k = Len(s) + 1
    BY <1>1
  <1>. QED  BY <1>1, <1>2 DEF NoEnds

LEMMA ComposeNoEnds ==
    \A s \in Seq(CodePoints) :
       NoEnds(s) => NoEnds(Scan!Compose(s)) /\ (s # <<>> => Scan!Compose(s) # <<>>)
  <1>. DEFINE Stays(s) == NoEnds(s) => /\ NoEnds(Scan!Compose(s))
                                       /\ s # <<>> => Scan!Compose(s) # <<>>
              S == {s \in Seq(CodePoints) : Stays(s)}
  <1>1. <<>> \in S
    BY EmptySeq, ComposeFacts
  <1>2. ASSUME NEW s \in Seq(CodePoints), NEW c \in CodePoints, s \in S
        PROVE  Append(s, c) \in S
    <2>. DEFINE d == Scan!Compose(s)
    <2>1. d \in Seq(CodePoints) /\ Append(s, c) \in Seq(CodePoints)
      BY ComposeFacts, AppendProperties
    <2>2. Scan!Compose(Append(s, c)) = Scan!ComposeWith(d, c)
      BY ComposeFacts
    <2>3. NoEnds(s) => NoEnds(d)
      BY <1>2
    <2>. HIDE DEF d
    <2>4. ASSUME NoEnds(Append(s, c))
          PROVE  NoEnds(Scan!ComposeWith(d, c)) /\ Scan!ComposeWith(d, c) # <<>>
      <3>1. NoEnds(d) /\ c # "\n"
        BY <2>3, <2>4, NoEndsAppend
      <3>2. CASE c = Mark /\ d # <<>> /\ d[Len(d)] \in DOMAIN Composed
        <4>. DEFINE x == Composed[d[Len(d)]]
        <4>1. x \in CodePoints /\ x # "\n"
          BY <3>2, CommandLinesAssumption, LinesAssumption
        <4>2. Scan!ComposeWith(d, c) = Append(Front(d), x)
          BY <2>1, <3>2, ComposeWithCases
        <4>3. Front(d) \in Seq(CodePoints) /\ d[Len(d)] \in CodePoints
              /\ d = Append(Front(d), d[Len(d)])
          BY <2>1, <3>2, FrontFacts
        <4>. HIDE DEF x
        <4>4. NoEnds(Front(d))
          BY <3>1, <4>3, NoEndsAppend
        <4>5. NoEnds(Append(Front(d), x)) /\ Append(Front(d), x) # <<>>
          BY <4>1, <4>3, <4>4, NoEndsAppend, AppendFacts
        <4>. QED  BY <4>2, <4>5
      <3>3. CASE ~ (c = Mark /\ d # <<>> /\ d[Len(d)] \in DOMAIN Composed)
        <4>1. Scan!ComposeWith(d, c) = Append(d, c)
          BY <2>1, <3>3, ComposeWithCases
        <4>2. NoEnds(Append(d, c)) /\ Append(d, c) # <<>>
          BY <2>1, <3>1, NoEndsAppend, AppendFacts
        <4>. QED  BY <4>1, <4>2
      <3>. QED  BY <3>2, <3>3
    <2>5. Stays(Append(s, c))
      BY <2>2, <2>4
    <2>. QED  BY <2>1, <2>5
  <1>3. \A s \in Seq(CodePoints) : s \in S
    <2>. HIDE DEF S
    <2>. QED  BY <1>1, <1>2, SeqInduction
  <1>. QED  BY <1>3

\* Some code points, and the end of a line at most as the last of them.
IsLine(s) == s # <<>> /\ \A k \in 1 .. Len(s) - 1 : s[k] # "\n"

LEMMA ComposeLine ==
    ASSUME NEW s \in Seq(CodePoints), IsLine(s)
    PROVE  /\ IsLine(Scan!Compose(s))
           /\ s[Len(s)] = "\n" => Closed(Scan!Compose(s))
  <1>1. /\ Len(s) \in Nat \ {0} /\ Front(s) \in Seq(CodePoints) /\ Len(Front(s)) = Len(s) - 1
        /\ s[Len(s)] \in CodePoints /\ s = Append(Front(s), s[Len(s)])
        /\ \A k \in 1 .. Len(s) - 1 : Front(s)[k] = s[k]
    BY FrontFacts DEF IsLine
  <1>2. PICK e \in Seq(CodePoints), c \in CodePoints :
           e = Front(s) /\ c = s[Len(s)] /\ s = Append(e, c)
    BY <1>1
  <1>3. NoEnds(e)
    BY <1>1, <1>2 DEF NoEnds, IsLine
  <1>4. CASE c = "\n"
    <2>. DEFINE d == Scan!Compose(e)
    <2>1. d \in Seq(CodePoints) /\ NoEnds(d)
      BY <1>3, ComposeFacts, ComposeNoEnds
    <2>2. Scan!Compose(s) = Append(d, c)
      BY <1>2, <1>4, ComposeEnd
    <2>. HIDE DEF d
    <2>3. /\ Append(d, c) # <<>> /\ Len(d) \in Nat /\ Len(Append(d, c)) = Len(d) + 1
          /\ Append(d, c)[Len(d) + 1] = c
          /\ \A k \in 1 .. Len(d) : Append(d, c)[k] = d[k]
      BY <2>1, AppendFacts
    <2>4. IsLine(Append(d, c)) /\ Closed(Append(d, c))
      <3>1. (Len(d) + 1) - 1 = Len(d)
        BY <2>3
      <3>2. IsLine(Append(d, c))
        BY <2>1, <2>3, <3>1 DEF IsLine, NoEnds
      <3>. QED  BY <1>4, <2>3, <3>2 DEF Closed
    <2>. QED  BY <2>2, <2>4
  <1>5. CASE c # "\n"
    <2>1. NoEnds(s)
      BY <1>2, <1>3, <1>5, NoEndsAppend
    <2>2. NoEnds(Scan!Compose(s)) /\ Scan!Compose(s) # <<>> /\ Len(Scan!Compose(s)) \in Nat
      BY <2>1, ComposeNoEnds, ComposeFacts, LenProperties DEF IsLine
    <2>3. \A k \in 1 .. Len(Scan!Compose(s)) - 1 : k \in 1 .. Len(Scan!Compose(s))
      BY <2>2
    <2>. QED  BY <1>2, <1>5, <2>2, <2>3 DEF NoEnds, IsLine
  <1>. QED  BY <1>4, <1>5

-------------------------------------------------------------------------------
\* What has been composed, and where its lines are.

\* The first code points of a file, composed.
Done(file, n) == Scan!Compose(SubSeq(file, 1, n))

LineStart(file, n) == n = 0 \/ file[n] = "\n"

LEMMA PartIsSeq ==
    ASSUME NEW file \in Seq(CodePoints), NEW m \in 1 .. Len(file) + 1, NEW n \in 0 .. Len(file)
    PROVE  SubSeq(file, m, n) \in Seq(CodePoints)
  <1>1. Len(file) \in Nat /\ \A k \in 1 .. Len(file) : file[k] \in CodePoints
    BY LenProperties, ElementOfSeq
  <1>2. \A k \in m .. n : file[k] \in CodePoints
    BY <1>1
  <1>. QED  BY <1>1, <1>2, SubSeqProperties

LEMMA DoneClosed ==
    ASSUME NEW file \in Seq(CodePoints), NEW n \in 0 .. Len(file), LineStart(file, n)
    PROVE  Closed(Done(file, n)) /\ (n = 0 => Done(file, n) = <<>>)
  <1>0. Len(file) \in Nat /\ \A k \in 1 .. Len(file) : file[k] \in CodePoints
    BY LenProperties, ElementOfSeq
  <1>1. CASE n = 0
    <2>1. SubSeq(file, 1, 0) = <<>>
      BY SubSeqEmpty
    <2>. QED  BY <1>1, <2>1, ComposeFacts DEF Done, Closed
  <1>2. CASE n # 0
    <2>. DEFINE s == SubSeq(file, 1, n - 1)
    <2>1. n \in 1 .. Len(file) /\ n - 1 \in 0 .. Len(file) /\ file[n] = "\n"
      BY <1>0, <1>2 DEF LineStart
    <2>2. "\n" \in CodePoints
      BY <1>0, <2>1
    <2>3. s \in Seq(CodePoints)
      BY <1>0, <2>1, PartIsSeq
    <2>4. SubSeq(file, 1, n) = s \o <<file[n]>>
      BY <2>1, SubSeqRecursiveSecond
    <2>. HIDE DEF s
    <2>5. SubSeq(file, 1, n) = Append(s, "\n")
      BY <2>1, <2>2, <2>3, <2>4, AppendIsConcat
    <2>6. Done(file, n) = Append(Scan!Compose(s), "\n") /\ Scan!Compose(s) \in Seq(CodePoints)
      BY <2>2, <2>3, <2>5, ComposeEnd, ComposeFacts DEF Done
    <2>. DEFINE d == Scan!Compose(s)
    <2>. HIDE DEF d
    <2>7. d \in Seq(CodePoints) /\ Done(file, n) = Append(d, "\n")
      BY <2>6 DEF d
    <2>8. /\ Len(Append(d, "\n")) = Len(d) + 1
          /\ Append(d, "\n")[Len(d) + 1] = "\n"
      BY <2>2, <2>7, AppendFacts
    <2>. QED  BY <1>2, <2>7, <2>8 DEF Closed
  <1>. QED  BY <1>1, <1>2

LEMMA DoneParts ==
    ASSUME NEW file \in Seq(CodePoints), NEW m \in 0 .. Len(file), NEW n \in m .. Len(file),
           LineStart(file, m)
    PROVE  /\ Done(file, m) \in Seq(CodePoints) /\ Done(file, n) \in Seq(CodePoints)
           /\ Scan!Compose(SubSeq(file, m + 1, n)) \in Seq(CodePoints)
           /\ Done(file, n) = Done(file, m) \o Scan!Compose(SubSeq(file, m + 1, n))
  <1>. DEFINE a == SubSeq(file, 1, m)
              t == SubSeq(file, m + 1, n)
  <1>0. Len(file) \in Nat /\ m \in Nat /\ n \in Nat
    BY LenProperties
  <1>1. a \in Seq(CodePoints) /\ t \in Seq(CodePoints) /\ SubSeq(file, 1, n) \in Seq(CodePoints)
    BY <1>0, PartIsSeq
  <1>2. SubSeq(file, 1, n) = a \o t
    BY <1>0, ConcatAdjacentSubSeq
  <1>3. Closed(Scan!Compose(a))
    BY DoneClosed DEF Done
  <1>4. Done(file, m) = Scan!Compose(a) /\ Done(file, n) = Scan!Compose(a \o t)
    BY <1>2 DEF Done
  <1>. HIDE DEF a
  <1>5. Scan!Compose(a \o t) = Scan!Compose(a) \o Scan!Compose(t)
    <2>. HIDE DEF t
    <2>. QED  BY <1>1, <1>3, ComposeAfter
  <1>6. Scan!Compose(a) \in Seq(CodePoints) /\ Scan!Compose(t) \in Seq(CodePoints)
        /\ Done(file, n) \in Seq(CodePoints)
    BY <1>1, ComposeFacts DEF Done
  <1>. QED  BY <1>4, <1>5, <1>6

\* The ends of lines in a text.
EndsOf(t) == {l \in 1 .. Len(t) : t[l] = "\n"}

LEMMA EndsFinite ==
    ASSUME NEW t \in Seq(CodePoints)
    PROVE  /\ IsFiniteSet(EndsOf(t)) /\ Cardinality(EndsOf(t)) \in Nat
           /\ t = <<>> => Cardinality(EndsOf(t)) = 0
  <1>1. Len(t) \in Nat
    BY LenProperties
  <1>2. IsFiniteSet(1 .. Len(t)) /\ EndsOf(t) \subseteq 1 .. Len(t)
    BY <1>1, FS_Interval DEF EndsOf
  <1>3. IsFiniteSet(EndsOf(t)) /\ Cardinality(EndsOf(t)) \in Nat
    BY <1>2, FS_Subset, FS_CardinalityType
  <1>4. t = <<>> => EndsOf(t) = {}
    BY DEF EndsOf
  <1>. QED  BY <1>3, <1>4, FS_EmptySet

\* A line that ends is one end of a line more.
LEMMA EndsMore ==
    ASSUME NEW b \in Seq(CodePoints), NEW s \in Seq(CodePoints), IsLine(s), Closed(s)
    PROVE  Cardinality(EndsOf(b \o s)) = Cardinality(EndsOf(b)) + 1
  <1>. DEFINE u == b \o s
              x == Len(b) + Len(s)
  <1>0. Len(b) \in Nat /\ Len(s) \in Nat \ {0} /\ s[Len(s)] = "\n"
        /\ \A k \in 1 .. Len(s) - 1 : s[k] # "\n"
    BY LenProperties, EmptySeq DEF IsLine, Closed
  <1>1. /\ u \in Seq(CodePoints) /\ Len(u) = x
        /\ \A k \in 1 .. x : u[k] = IF k <= Len(b) THEN b[k] ELSE s[k - Len(b)]
    BY ConcatProperties
  <1>. HIDE DEF u
  <1>2. x \in Nat /\ x \notin EndsOf(b)
    BY <1>0 DEF EndsOf
  <1>3. ASSUME NEW k PROVE k \in EndsOf(u) <=> k \in EndsOf(b) \cup {x}
    <2>1. CASE k \in 1 .. Len(b)
      <3>1. k \in 1 .. x /\ k # x /\ u[k] = b[k]
        BY <1>0, <1>1, <2>1
      <3>. QED  BY <1>1, <2>1, <3>1 DEF EndsOf
    <2>2. CASE k = x
      <3>1. x \in 1 .. x /\ ~ (x <= Len(b)) /\ x - Len(b) = Len(s)
        BY <1>0
      <3>2. u[x] = "\n"
        BY <1>0, <1>1, <3>1
      <3>. QED  BY <1>1, <2>2, <3>1, <3>2 DEF EndsOf
    <2>3. CASE k \in 1 .. x /\ k # x /\ k \notin 1 .. Len(b)
      <3>1. ~ (k <= Len(b)) /\ k - Len(b) \in 1 .. Len(s) - 1
        BY <1>0, <2>3
      <3>2. u[k] = s[k - Len(b)] /\ s[k - Len(b)] # "\n"
        BY <1>0, <1>1, <2>3, <3>1
      <3>. QED  BY <2>3, <3>2 DEF EndsOf
    <2>4. CASE k \notin 1 .. x
      <3>1. k \notin 1 .. Len(b) /\ k # x
        BY <1>0, <2>4
      <3>. QED  BY <1>1, <2>4, <3>1 DEF EndsOf
    <2>. QED  BY <2>1, <2>2, <2>3, <2>4
  <1>4. EndsOf(u) = EndsOf(b) \cup {x}
    BY <1>3
  <1>5. Cardinality(EndsOf(b) \cup {x}) = Cardinality(EndsOf(b)) + 1
    BY <1>2, EndsFinite, FS_AddElement
  <1>. QED  BY <1>4, <1>5 DEF u

LEMMA CountsAlike == \A S : Scan!Cardinality(S) = Cardinality(S)
  BY DEF Scan!Cardinality, Cardinality

\* The text is what is before a line, the line and the rest.
InText(b, s, text) == \E r \in Seq(CodePoints) : text = (b \o s) \o r

\* Where a code point of the line is.
LEMMA PlaceFacts ==
    ASSUME NEW b \in Seq(CodePoints), NEW s \in Seq(CodePoints),
           NEW text \in Seq(CodePoints), InText(b, s, text),
           Closed(b), IsLine(s), NEW j \in 1 .. Len(s)
    PROVE  /\ Len(b) + j \in 1 .. Len(text) /\ text[Len(b) + j] = s[j]
           /\ Scan!PlaceIn(text, Len(b) + j) = <<Cardinality(EndsOf(b)) + 1, j>>
  <1>. PICK r \in Seq(CodePoints) : text = (b \o s) \o r
    BY DEF InText
  <1>0. Len(b) \in Nat /\ Len(s) \in Nat /\ Len(r) \in Nat /\ j \in Nat \ {0} /\ j <= Len(s)
    BY LenProperties
  <1>1. /\ b \o s \in Seq(CodePoints) /\ Len(b \o s) = Len(b) + Len(s)
        /\ \A k \in 1 .. Len(b) + Len(s) : (b \o s)[k] = IF k <= Len(b) THEN b[k] ELSE s[k - Len(b)]
    BY ConcatProperties
  <1>2. /\ Len(text) = Len(b) + Len(s) + Len(r)
        /\ \A k \in 1 .. Len(b) + Len(s) : text[k] = (b \o s)[k]
    <2>. DEFINE u == b \o s
    <2>. HIDE DEF u
    <2>1. u \in Seq(CodePoints) /\ Len(u) = Len(b) + Len(s) /\ text = u \o r
      BY <1>1 DEF u
    <2>2. /\ Len(u \o r) = Len(u) + Len(r)
          /\ \A k \in 1 .. Len(u) + Len(r) :
                (u \o r)[k] = IF k <= Len(u) THEN u[k] ELSE r[k - Len(u)]
      <3>1. ConcatFacts(CodePoints)
        BY ConcatFactsHold, Zenon
      <3>. QED  BY <2>1, <3>1, Zenon DEF ConcatFacts
    <2>3. ASSUME NEW k \in 1 .. Len(b) + Len(s) PROVE text[k] = u[k]
      <3>1. k \in 1 .. Len(u) + Len(r) /\ k <= Len(u)
        BY <1>0, <2>1
      <3>. QED  BY <2>1, <2>2, <3>1
    <2>. QED  BY <2>1, <2>2, <2>3 DEF u
  <1>3. \A k \in 1 .. Len(b) : text[k] = b[k]
    <2>1. \A k \in 1 .. Len(b) : k \in 1 .. Len(b) + Len(s) /\ k <= Len(b)
      BY <1>0
    <2>. QED  BY <1>1, <1>2, <2>1
  <1>4. ASSUME NEW k \in 1 .. Len(s) PROVE text[Len(b) + k] = s[k]
    <2>1. Len(b) + k \in 1 .. Len(b) + Len(s) /\ ~ (Len(b) + k <= Len(b))
          /\ (Len(b) + k) - Len(b) = k
      BY <1>0
    <2>. QED  BY <1>1, <1>2, <2>1
  <1>5. Len(b) + j \in 1 .. Len(text)
    BY <1>0, <1>2
  <1>. DEFINE n == Len(b) + j
              ends == {l \in 1 .. n - 1 : text[l] = "\n"}
              last == IF ends = {} THEN 0 ELSE CHOOSE l \in ends : \A m \in ends : m <= l
  <1>6. ends = EndsOf(b)
    <2>1. ASSUME NEW k PROVE k \in ends <=> k \in EndsOf(b)
      <3>1. CASE k \in 1 .. Len(b)
        <4>1. k \in 1 .. n - 1
          BY <1>0, <3>1
        <4>. QED  BY <1>3, <3>1, <4>1 DEF EndsOf
      <3>2. CASE k \in 1 .. n - 1 /\ k \notin 1 .. Len(b)
        <4>1. PICK m \in 1 .. Len(s) - 1 : k = Len(b) + m
          <5>1. k - Len(b) \in 1 .. Len(s) - 1 /\ k = Len(b) + (k - Len(b))
            BY <1>0, <3>2
          <5>. QED  BY <5>1
        <4>2. m \in 1 .. Len(s) /\ s[m] # "\n"
          BY <1>0, <4>1 DEF IsLine
        <4>3. text[k] # "\n"
          BY <1>4, <4>1, <4>2
        <4>. QED  BY <3>2, <4>3 DEF EndsOf
      <3>3. CASE k \notin 1 .. n - 1 /\ k \notin 1 .. Len(b)
        BY <3>3 DEF EndsOf
      <3>. QED  BY <3>1, <3>2, <3>3
    <2>. HIDE DEF ends
    <2>. QED  BY <2>1
  <1>. HIDE DEF ends
  <1>7. last = Len(b)
    <2>1. CASE b = <<>>
      <3>1. EndsOf(b) = {} /\ Len(b) = 0
        BY <2>1 DEF EndsOf
      <3>. QED  BY <1>6, <3>1
    <2>2. CASE b # <<>>
      <3>1. Len(b) \in EndsOf(b) /\ \A m \in EndsOf(b) : m \in Nat /\ m <= Len(b)
        <4>1. Len(b) \in 1 .. Len(b)
          BY <1>0, <2>2, EmptySeq
        <4>. QED  BY <1>0, <2>2, <4>1 DEF EndsOf, Closed
      <3>2. ends # {} /\ \E l \in ends : \A m \in ends : m <= l
        BY <1>6, <3>1
      <3>3. last \in ends /\ \A m \in ends : m <= last
        BY <3>2
      <3>. HIDE DEF last
      <3>4. last \in Nat /\ last <= Len(b) /\ Len(b) <= last
        BY <1>6, <3>1, <3>3
      <3>. QED  BY <1>0, <3>4
    <2>. QED  BY <2>1, <2>2
  <1>. HIDE DEF last
  <1>8. Scan!PlaceIn(text, n) = <<Cardinality(ends) + 1, n - last>>
    <2>1. Scan!Cardinality(ends) = Cardinality(ends)
      BY CountsAlike
    <2>2. Scan!PlaceIn(text, n) = <<Scan!Cardinality(ends) + 1, n - last>>
      BY Zenon DEF Scan!PlaceIn, ends, last
    <2>. QED  BY <2>1, <2>2
  <1>9. n - last = j
    BY <1>0, <1>7
  <1>. QED  BY <1>4, <1>5, <1>6, <1>8, <1>9

-------------------------------------------------------------------------------
\* The getter of a file.

\* What a getter of a file is.
Getters == [offset : Nat, sbuf : Seq(CodePoints), line_no : Nat,
            i_code_point : Nat, eof_reached : BOOLEAN]

\* The getter has read the file up to its offset; the line that it holds comes
\* after the place start.
Reads(g, file, start) ==
    /\ g.offset \in 0 .. Len(file) /\ start \in 0 .. g.offset
    /\ LineStart(file, start)
    /\ LineStart(file, g.offset) \/ g.offset = Len(file)
    /\ g.sbuf = Scan!Compose(SubSeq(file, start + 1, g.offset))
    /\ g.offset = 0 => g.line_no = 0
    /\ g.offset # 0 => /\ IsLine(SubSeq(file, start + 1, g.offset))
                       /\ g.line_no = Cardinality(EndsOf(Done(file, start))) + 1

\* What the tokens of a file should be.
TokensIn(file, k) ==
    [l \in 1 .. Len(Scan!Compose(file)) |->
        [kind |-> "CP", value |-> Scan!Compose(file)[l], file |-> k,
         place |-> Scan!PlaceIn(Scan!Compose(file), l)]]

LEMMA TokensInFacts ==
    ASSUME NEW file \in Seq(CodePoints), NEW k
    PROVE  /\ TokensIn(file, k) \in Seq({TokensIn(file, k)[l] : l \in 1 .. Len(Scan!Compose(file))})
           /\ Len(TokensIn(file, k)) = Len(Scan!Compose(file))
           /\ Len(Scan!Compose(file)) \in Nat
           /\ \A l \in 1 .. Len(Scan!Compose(file)) :
                 TokensIn(file, k)[l] = Scan!Token("CP", Scan!Compose(file)[l], k,
                                                   Scan!PlaceIn(Scan!Compose(file), l)[1],
                                                   Scan!PlaceIn(Scan!Compose(file), l)[2])
  <1>. DEFINE n == Len(Scan!Compose(file))
              t == TokensIn(file, k)
              X == {t[l] : l \in 1 .. n}
  <1>1. n \in Nat
    BY ComposeFacts, LenProperties
  <1>2. t = [l \in 1 .. n |-> t[l]]
    BY DEF TokensIn
  <1>3. ASSUME NEW l \in 1 .. n
        PROVE  t[l] = Scan!Token("CP", Scan!Compose(file)[l], k,
                                 Scan!PlaceIn(Scan!Compose(file), l)[1],
                                 Scan!PlaceIn(Scan!Compose(file), l)[2])
    <2>1. PICK x, y : Scan!PlaceIn(Scan!Compose(file), l) = <<x, y>>
      BY DEF Scan!PlaceIn
    <2>2. t[l] = [kind |-> "CP", value |-> Scan!Compose(file)[l], file |-> k, place |-> <<x, y>>]
      BY <2>1 DEF TokensIn
    <2>. HIDE DEF t
    <2>. QED  BY <2>1, <2>2 DEF Scan!Token
  <1>. HIDE DEF n, t
  <1>4. t \in [1 .. n -> X]
    BY <1>2
  <1>5. \A f \in [1 .. n -> X] : f \in Seq(X) /\ Len(f) = n
    <2>. HIDE DEF X
    <2>. QED  BY <1>1
  <1>6. t \in Seq(X) /\ Len(t) = n
    BY <1>4, <1>5
  <1>. QED  BY <1>1, <1>3, <1>6 DEF n, t

\* Where what has been read and composed is in the text.
LEMMA ReadsText ==
    ASSUME NEW file \in Seq(CodePoints), NEW g \in Getters, NEW start, Reads(g, file, start)
    PROVE  /\ Done(file, start) \in Seq(CodePoints) /\ g.sbuf \in Seq(CodePoints)
           /\ Done(file, g.offset) = Done(file, start) \o g.sbuf
           /\ InText(Done(file, start), g.sbuf, Scan!Compose(file))
           /\ g.offset = Len(file) => Scan!Compose(file) = Done(file, start) \o g.sbuf
  <1>0. Len(file) \in Nat /\ g.offset \in 0 .. Len(file) /\ start \in 0 .. Len(file)
        /\ g.offset \in start .. Len(file) /\ LineStart(file, start)
        /\ Len(file) \in g.offset .. Len(file)
    BY LenProperties DEF Reads
  <1>1. g.sbuf = Scan!Compose(SubSeq(file, start + 1, g.offset))
    BY DEF Reads
  <1>2. /\ Done(file, start) \in Seq(CodePoints) /\ g.sbuf \in Seq(CodePoints)
        /\ Done(file, g.offset) \in Seq(CodePoints)
        /\ Done(file, g.offset) = Done(file, start) \o g.sbuf
    BY <1>0, <1>1, DoneParts
  <1>3. Scan!Compose(file) = Done(file, Len(file))
    BY SubSeqFull DEF Done
  <1>4. CASE g.offset = Len(file)
    <2>1. Scan!Compose(file) = Done(file, start) \o g.sbuf
      BY <1>2, <1>3, <1>4
    <2>2. <<>> \in Seq(CodePoints) /\ Done(file, g.offset) = Done(file, g.offset) \o <<>>
      BY <1>2, EmptySeq, ConcatEmptySeq
    <2>. QED  BY <1>2, <1>3, <1>4, <2>1, <2>2 DEF InText
  <1>5. CASE g.offset # Len(file)
    <2>1. LineStart(file, g.offset)
      BY <1>5 DEF Reads
    <2>. DEFINE r == Scan!Compose(SubSeq(file, g.offset + 1, Len(file)))
    <2>2. r \in Seq(CodePoints) /\ Done(file, Len(file)) = Done(file, g.offset) \o r
      BY <1>0, <2>1, DoneParts
    <2>. HIDE DEF r
    <2>. QED  BY <1>2, <1>3, <1>5, <2>2 DEF InText
  <1>. QED  BY <1>4, <1>5

LEMMA ReadsPlaces ==
    ASSUME NEW file \in Seq(CodePoints), NEW k, NEW g \in Getters, NEW start,
           Reads(g, file, start)
    PROVE  /\ Len(Done(file, start)) \in Nat /\ Len(g.sbuf) \in Nat
           /\ Len(Done(file, start)) + Len(g.sbuf) <= Len(Scan!Compose(file))
           /\ g.offset = Len(file) =>
                Len(Done(file, start)) + Len(g.sbuf) = Len(Scan!Compose(file))
           /\ \A j \in 1 .. Len(g.sbuf) :
                 TokensIn(file, k)[Len(Done(file, start)) + j] =
                    Scan!Token("CP", g.sbuf[j], k, g.line_no, j)
  <1>. DEFINE b == Done(file, start)
              s == g.sbuf
              text == Scan!Compose(file)
  <1>1. b \in Seq(CodePoints) /\ s \in Seq(CodePoints) /\ text \in Seq(CodePoints)
        /\ (g.offset = Len(file) => text = b \o s)
    BY ReadsText, ComposeFacts
  <1>2. InText(b, s, text)
    BY ReadsText
  <1>3. Closed(b)
    <2>1. start \in 0 .. Len(file) /\ LineStart(file, start)
      BY LenProperties DEF Reads
    <2>. QED  BY <2>1, DoneClosed
  <1>4. s # <<>> => IsLine(s) /\ g.line_no = Cardinality(EndsOf(b)) + 1
    <2>1. CASE g.offset = 0
      <3>1. SubSeq(file, start + 1, g.offset) = <<>>
        <4>1. start = 0
          BY <2>1 DEF Reads
        <4>. QED  BY <2>1, <4>1, SubSeqEmpty
      <3>. QED  BY <3>1, ComposeFacts DEF Reads
    <2>2. CASE g.offset # 0
      <3>1. /\ IsLine(SubSeq(file, start + 1, g.offset))
            /\ g.line_no = Cardinality(EndsOf(b)) + 1
            /\ s = Scan!Compose(SubSeq(file, start + 1, g.offset))
        BY <2>2 DEF Reads
      <3>2. SubSeq(file, start + 1, g.offset) \in Seq(CodePoints)
        <4>1. start + 1 \in 1 .. Len(file) + 1 /\ g.offset \in 0 .. Len(file)
          BY LenProperties DEF Reads
        <4>. QED  BY <4>1, PartIsSeq
      <3>. QED  BY <3>1, <3>2, ComposeLine
    <2>. QED  BY <2>1, <2>2
  <1>6. \A l \in 1 .. Len(text) :
           TokensIn(file, k)[l] = Scan!Token("CP", text[l], k, Scan!PlaceIn(text, l)[1],
                                             Scan!PlaceIn(text, l)[2])
    BY TokensInFacts
  <1>. HIDE DEF b, s, text
  <1>7. Len(b) \in Nat /\ Len(s) \in Nat
    BY <1>1, LenProperties
  <1>8. Len(b) + Len(s) <= Len(text)
    <2>. PICK r \in Seq(CodePoints) : text = (b \o s) \o r
      BY <1>2 DEF InText
    <2>. DEFINE u == b \o s
    <2>1. u \in Seq(CodePoints) /\ Len(u) = Len(b) + Len(s)
      BY <1>1, ConcatProperties
    <2>. HIDE DEF u
    <2>2. text = u \o r
      BY DEF u
    <2>3. Len(u \o r) = Len(u) + Len(r) /\ Len(r) \in Nat
      BY <2>1, ConcatProperties, LenProperties
    <2>. QED  BY <1>7, <2>1, <2>2, <2>3
  <1>9. g.offset = Len(file) => Len(text) = Len(b) + Len(s)
    BY <1>1, ConcatProperties
  <1>10. ASSUME NEW j \in 1 .. Len(s)
         PROVE  TokensIn(file, k)[Len(b) + j] = Scan!Token("CP", s[j], k, g.line_no, j)
    <2>1. s # <<>>
      BY <1>7
    <2>2. /\ Len(b) + j \in 1 .. Len(text) /\ text[Len(b) + j] = s[j]
          /\ Scan!PlaceIn(text, Len(b) + j) = <<Cardinality(EndsOf(b)) + 1, j>>
      <3>1. IsLine(s)
        BY <1>4, <2>1
      <3>. QED  BY <1>1, <1>2, <1>3, <3>1, PlaceFacts
    <2>3. g.line_no = Cardinality(EndsOf(b)) + 1
      BY <1>4, <2>1
    <2>4. PICK x : x = Cardinality(EndsOf(b)) + 1
      OBVIOUS
    <2>5. Scan!PlaceIn(text, Len(b) + j)[1] = x /\ Scan!PlaceIn(text, Len(b) + j)[2] = j
      BY <2>2, <2>4
    <2>. QED  BY <1>6, <2>2, <2>3, <2>4, <2>5
  <1>. QED  BY <1>7, <1>8, <1>9, <1>10 DEF b, s, text

LEMMA PartFacts ==
    ASSUME NEW file \in Seq(CodePoints), NEW m \in 0 .. Len(file), NEW n \in m .. Len(file)
    PROVE  /\ Len(SubSeq(file, m + 1, n)) = n - m
           /\ \A k \in 1 .. n - m : SubSeq(file, m + 1, n)[k] = file[m + k]
  <1>0. Len(file) \in Nat
    BY LenProperties
  <1>1. \A k \in m + 1 .. n : file[k] \in CodePoints
    <2>1. \A k \in m + 1 .. n : k \in 1 .. Len(file)
      BY <1>0
    <2>. QED  BY <2>1, ElementOfSeq
  <1>2. m + 1 \in Int /\ n \in Int /\ n >= m + 1 - 1 /\ n - (m + 1) + 1 = n - m
    BY <1>0
  <1>3. /\ Len(SubSeq(file, m + 1, n)) = n - (m + 1) + 1
        /\ \A k \in 1 .. n - (m + 1) + 1 : SubSeq(file, m + 1, n)[k] = file[(m + 1) + k - 1]
    BY <1>1, <1>2, SubSeqProperties
  <1>4. \A k \in 1 .. n - m : (m + 1) + k - 1 = m + k
    BY <1>0
  <1>. DEFINE s == SubSeq(file, m + 1, n)
  <1>. HIDE DEF s
  <1>. QED  BY <1>2, <1>3, <1>4 DEF s

\* A line more.
LEMMA ReadsOn ==
    ASSUME NEW file \in Seq(CodePoints), NEW g \in Getters, NEW start, Reads(g, file, start),
           g.offset < Len(file), NEW h \in Getters,
           h = Scan!FillLine(g, Scan!LineAt(file, g.offset)), ~ g.eof_reached
    PROVE  /\ Reads(h, file, g.offset)
           /\ h.i_code_point = 0 /\ ~ h.eof_reached /\ h.sbuf # <<>>
           /\ Len(Done(file, g.offset)) = Len(Done(file, start)) + Len(g.sbuf)
  <1>. DEFINE line == Scan!LineAt(file, g.offset)
  <1>0. Len(file) \in Nat /\ g.offset \in Nat /\ start \in 0 .. g.offset
    BY LenProperties DEF Getters, Reads
  <1>1. PICK last \in g.offset + 1 .. Len(file) :
           /\ line = SubSeq(file, g.offset + 1, last)
           /\ last = Len(file) \/ file[last] = "\n"
           /\ \A k \in g.offset + 1 .. last - 1 : file[k] # "\n"
    BY <1>0, LineAtFacts
  <1>2. line \in Seq(CodePoints)
    BY <1>0, LineAtFacts
  <1>3. /\ Len(line) = last - g.offset
        /\ \A k \in 1 .. last - g.offset : line[k] = file[g.offset + k]
    <2>1. g.offset \in 0 .. Len(file) /\ last \in g.offset .. Len(file)
      BY <1>0
    <2>. QED  BY <1>1, <2>1, PartFacts
  <1>. HIDE DEF line
  <1>4. IsLine(line)
    <2>1. line # <<>>
      BY <1>0, <1>3
    <2>2. ASSUME NEW k \in 1 .. Len(line) - 1 PROVE line[k] # "\n"
      <3>1. k \in 1 .. last - g.offset /\ g.offset + k \in g.offset + 1 .. last - 1
        BY <1>0, <1>3
      <3>. QED  BY <1>1, <1>3, <3>1
    <2>. QED  BY <2>1, <2>2 DEF IsLine
  <1>5. IsLine(Scan!Compose(line)) /\ Scan!Compose(line) # <<>>
    BY <1>2, <1>4, ComposeLine DEF IsLine
  <1>6. h = [g EXCEPT !.offset = g.offset + Len(line), !.sbuf = Scan!Compose(line),
                      !.line_no = g.line_no + 1, !.i_code_point = 0]
    BY <1>4 DEF Scan!FillLine, IsLine, line
  <1>7. /\ h.offset = last /\ h.sbuf = Scan!Compose(line) /\ h.line_no = g.line_no + 1
        /\ h.i_code_point = 0 /\ h.eof_reached = g.eof_reached
    <2>. DEFINE c == Scan!Compose(line)
    <2>. HIDE DEF c
    <2>1. h = [g EXCEPT !.offset = g.offset + Len(line), !.sbuf = c,
                        !.line_no = g.line_no + 1, !.i_code_point = 0]
      BY <1>6 DEF c
    <2>2. /\ h.offset = g.offset + Len(line) /\ h.sbuf = c /\ h.line_no = g.line_no + 1
          /\ h.i_code_point = 0 /\ h.eof_reached = g.eof_reached
      BY <2>1 DEF Getters
    <2>3. g.offset + Len(line) = last
      BY <1>0, <1>3
    <2>. QED  BY <2>2, <2>3 DEF c
  <1>8. LineStart(file, g.offset)
    BY DEF Reads
  <1>9. /\ Done(file, g.offset) = Done(file, start) \o g.sbuf
        /\ Done(file, start) \in Seq(CodePoints) /\ g.sbuf \in Seq(CodePoints)
    BY ReadsText
  <1>10. g.line_no = Cardinality(EndsOf(Done(file, g.offset)))
    <2>1. CASE g.offset = 0
      <3>1. Done(file, 0) = <<>>
        BY <1>0, DoneClosed DEF LineStart
      <3>2. EndsOf(<<>>) = {}
        BY DEF EndsOf
      <3>. QED  BY <2>1, <3>1, <3>2, FS_EmptySet DEF Reads
    <2>2. CASE g.offset # 0
      <3>. DEFINE part == SubSeq(file, start + 1, g.offset)
      <3>1. IsLine(part) /\ g.sbuf = Scan!Compose(part)
            /\ g.line_no = Cardinality(EndsOf(Done(file, start))) + 1
        BY <2>2 DEF Reads
      <3>2. part \in Seq(CodePoints)
        <4>1. start + 1 \in 1 .. Len(file) + 1 /\ g.offset \in 0 .. Len(file)
          BY <1>0 DEF Reads
        <4>. QED  BY <4>1, PartIsSeq
      <3>3. part[Len(part)] = "\n"
        <4>1. start < g.offset
          <5>1. part # <<>>
            BY <3>1 DEF IsLine
          <5>2. start = g.offset => part = <<>>
            BY <1>0, SubSeqEmpty
          <5>. QED  BY <1>0, <5>1, <5>2
        <4>2. start \in 0 .. Len(file) /\ g.offset \in start .. Len(file)
          BY <1>0 DEF Reads
        <4>3. /\ Len(part) = g.offset - start
              /\ \A k \in 1 .. g.offset - start : part[k] = file[start + k]
          BY <4>2, PartFacts
        <4>. DEFINE n == g.offset - start
        <4>4. n \in 1 .. n /\ start + n = g.offset
          BY <1>0, <4>1
        <4>. HIDE DEF part
        <4>5. part[n] = file[g.offset] /\ Len(part) = n
          BY <4>3, <4>4
        <4>. QED  BY <1>8, <2>2, <4>5 DEF LineStart
      <3>. HIDE DEF part
      <3>4. IsLine(g.sbuf) /\ Closed(g.sbuf)
        BY <3>1, <3>2, <3>3, ComposeLine
      <3>. QED  BY <1>9, <3>1, <3>4, EndsMore
    <2>. QED  BY <2>1, <2>2
  <1>11. Reads(h, file, g.offset)
    <2>1. h.offset \in 0 .. Len(file) /\ g.offset \in 0 .. h.offset /\ h.offset # 0
      BY <1>0, <1>7
    <2>2. LineStart(file, h.offset) \/ h.offset = Len(file)
      BY <1>1, <1>7 DEF LineStart
    <2>3. SubSeq(file, g.offset + 1, h.offset) = line
      BY <1>1, <1>7
    <2>. QED  BY <1>4, <1>7, <1>8, <1>10, <2>1, <2>2, <2>3 DEF Reads
  <1>12. Len(Done(file, start) \o g.sbuf) = Len(Done(file, start)) + Len(g.sbuf)
    BY <1>9, ConcatProperties
  <1>. QED  BY <1>5, <1>7, <1>9, <1>11, <1>12

-------------------------------------------------------------------------------
\* The tokens of the scan.

\* The code points of a file among the tokens.
CodePointsOf(k) ==
    [t \in ScanToken |-> IF t.file = k /\ t.kind = "CP" THEN <<t>> ELSE <<>>]

Picked(s, k) == FlatMap(CodePointsOf(k), s)

LEMMA CodePointsYield ==
    ASSUME NEW k
    PROVE  /\ Yields(CodePointsOf(k), ScanToken, ScanToken)
           /\ \A t \in ScanToken :
                 CodePointsOf(k)[t] = IF t.file = k /\ t.kind = "CP" THEN <<t>> ELSE <<>>
  <1>1. \A t \in ScanToken :
           CodePointsOf(k)[t] = IF t.file = k /\ t.kind = "CP" THEN <<t>> ELSE <<>>
    BY DEF CodePointsOf
  <1>2. ASSUME NEW t \in ScanToken PROVE CodePointsOf(k)[t] \in Seq(ScanToken)
    <2>1. <<t>> \in Seq(ScanToken) /\ <<>> \in Seq(ScanToken)
      BY EmptySeq
    <2>. QED  BY <1>1, <2>1
  <1>. QED  BY <1>1, <1>2 DEF Yields

LEMMA FlattensAlike == \A s : Scan!FlattenSeq(s) = FlattenSeq(s)
  BY Zenon DEF Scan!FlattenSeq, FlattenSeq

LEMMA ScannedOfIs ==
    ASSUME scanned \in Seq(ScanToken), NEW k
    PROVE  Scan!ScannedOf(k) = Picked(scanned, k)
  <1>1. DOMAIN scanned = 1 .. Len(scanned) /\ \A l \in 1 .. Len(scanned) : scanned[l] \in ScanToken
    BY LenProperties, ElementOfSeq
  <1>2. \A l \in DOMAIN scanned :
           CodePointsOf(k)[scanned[l]] =
              IF scanned[l].file = k /\ scanned[l].kind = "CP" THEN <<scanned[l]>> ELSE <<>>
    BY <1>1, CodePointsYield
  <1>3. Mapped(CodePointsOf(k), scanned) =
           [l \in DOMAIN scanned |->
              IF scanned[l].file = k /\ scanned[l].kind = "CP" THEN <<scanned[l]>> ELSE <<>>]
    <2>. DEFINE f(l) == IF scanned[l].file = k /\ scanned[l].kind = "CP"
                        THEN <<scanned[l]>> ELSE <<>>
    <2>1. \A l \in DOMAIN scanned : CodePointsOf(k)[scanned[l]] = f(l)
      BY <1>2
    <2>. HIDE DEF f
    <2>2. [l \in DOMAIN scanned |-> CodePointsOf(k)[scanned[l]]] = [l \in DOMAIN scanned |-> f(l)]
      BY <2>1, Zenon
    <2>3. Mapped(CodePointsOf(k), scanned) = [l \in DOMAIN scanned |-> CodePointsOf(k)[scanned[l]]]
      BY Zenon DEF Mapped
    <2>4. Mapped(CodePointsOf(k), scanned) = [l \in DOMAIN scanned |-> f(l)]
      BY <2>2, <2>3, Zenon
    <2>. QED  BY <2>4 DEF f
  <1>4. Scan!ScannedOf(k) =
           Scan!FlattenSeq([l \in DOMAIN scanned |->
              IF scanned[l].file = k /\ scanned[l].kind = "CP" THEN <<scanned[l]>> ELSE <<>>])
    BY Zenon DEF Scan!ScannedOf
  <1>5. Scan!FlattenSeq(Mapped(CodePointsOf(k), scanned)) =
           FlattenSeq(Mapped(CodePointsOf(k), scanned))
    BY FlattensAlike, Zenon
  <1>. QED  BY <1>3, <1>4, <1>5, Zenon DEF Picked, FlatMap

LEMMA PickedAppend ==
    ASSUME NEW s \in Seq(ScanToken), NEW t \in ScanToken, NEW k
    PROVE  /\ t.file = k /\ t.kind = "CP" => Picked(Append(s, t), k) = Append(Picked(s, k), t)
           /\ ~ (t.file = k /\ t.kind = "CP") => Picked(Append(s, t), k) = Picked(s, k)
           /\ Picked(s, k) \in Seq(ScanToken)
  <1>1. Picked(Append(s, t), k) = Picked(s, k) \o CodePointsOf(k)[t]
    BY CodePointsYield, FlatMapAppend DEF Picked
  <1>2. Picked(s, k) \in Seq(ScanToken)
    BY CodePointsYield, FlatMapType DEF Picked
  <1>. DEFINE p == Picked(s, k)
  <1>. HIDE DEF p
  <1>3. p \in Seq(ScanToken) /\ p \o <<>> = p /\ p \o <<t>> = Append(p, t)
    BY <1>2, ConcatEmptySeq, AppendIsConcat DEF p
  <1>. QED  BY <1>1, <1>2, <1>3, CodePointsYield DEF p

LEMMA PickedEmpty == \A k : Picked(<<>>, k) = <<>>
  BY FlatMapEmpty DEF Picked

-------------------------------------------------------------------------------
\* What is true of the tokens put.

\* The files are in order, up to that of the number n.
FilesRise(s, n) ==
    /\ \A l \in 1 .. Len(s) : s[l].file <= n
    /\ \A k, l \in 1 .. Len(s) : k < l => s[k].file <= s[l].file

\* Where the end of a file is put after a code point.
EndPlaceAfter(t) ==
    IF t.value = "\n" THEN <<t.place[1] + 1, 0>> ELSE <<t.place[1], t.place[2] + 1>>

EndsFollow(s) ==
    \A l \in 2 .. Len(s) :
       s[l].kind # "CP" /\ s[l - 1].kind = "CP" => s[l].place = EndPlaceAfter(s[l - 1])

Separators(s) == {l \in 1 .. Len(s) : s[l].kind = "FSEP"}

LEMMA FilesRiseAppend ==
    ASSUME NEW s \in Seq(ScanToken), NEW t \in ScanToken, NEW n \in Nat, FilesRise(s, n),
           t.file = n
    PROVE  FilesRise(Append(s, t), n)
  <1>. DEFINE u == Append(s, t)
  <1>1. /\ Len(s) \in Nat /\ Len(u) = Len(s) + 1 /\ u[Len(s) + 1] = t
        /\ \A k \in 1 .. Len(s) : u[k] = s[k]
    BY AppendFacts
  <1>2. \A k \in 1 .. Len(s) : s[k].file <= n
    BY DEF FilesRise
  <1>3. \A k, l \in 1 .. Len(s) : k < l => s[k].file <= s[l].file
    BY DEF FilesRise
  <1>. HIDE DEF u
  <1>4. \A k : k \in 1 .. Len(u) <=> k \in 1 .. Len(s) \/ k = Len(s) + 1
    BY <1>1
  <1>5. \A l \in 1 .. Len(u) : u[l].file <= n
    BY <1>1, <1>2, <1>4
  <1>6. ASSUME NEW k \in 1 .. Len(u), NEW l \in 1 .. Len(u), k < l
        PROVE  u[k].file <= u[l].file
    <2>1. k \in 1 .. Len(s)
      BY <1>1, <1>6
    <2>2. CASE l \in 1 .. Len(s)
      BY <1>1, <1>3, <1>6, <2>1, <2>2
    <2>3. CASE l = Len(s) + 1
      BY <1>1, <1>2, <2>1, <2>3
    <2>. QED  BY <1>4, <2>2, <2>3
  <1>. QED  BY <1>5, <1>6 DEF FilesRise, u

LEMMA FilesRiseOn ==
    ASSUME NEW s \in Seq(ScanToken), NEW n \in Nat, FilesRise(s, n)
    PROVE  FilesRise(s, n + 1)
  <1>1. ASSUME NEW l \in 1 .. Len(s) PROVE s[l].file \in Int
    <2>1. s[l] \in ScanToken
      BY ElementOfSeq
    <2>. QED  BY <2>1 DEF ScanToken
  <1>. QED  BY <1>1 DEF FilesRise

LEMMA NonePicked ==
    ASSUME NEW s \in Seq(ScanToken), NEW n \in Nat, FilesRise(s, n), NEW k \in Int, n < k
    PROVE  Picked(s, k) = <<>>
  <1>1. ASSUME NEW l \in 1 .. Len(s) PROVE CodePointsOf(k)[s[l]] = <<>>
    <2>1. s[l] \in ScanToken
      BY ElementOfSeq
    <2>2. s[l].file # k
      <3>1. s[l].file \in Int /\ s[l].file <= n
        BY <2>1 DEF FilesRise, ScanToken
      <3>. QED  BY <3>1
    <2>. QED  BY <2>1, <2>2, CodePointsYield
  <1>. QED  BY <1>1, CodePointsYield, FlatMapNone DEF Picked

LEMMA EndsFollowAppend ==
    ASSUME NEW s \in Seq(ScanToken), NEW t \in ScanToken, EndsFollow(s),
           s # <<>> /\ t.kind # "CP" /\ s[Len(s)].kind = "CP" => t.place = EndPlaceAfter(s[Len(s)])
    PROVE  EndsFollow(Append(s, t))
  <1>. DEFINE u == Append(s, t)
  <1>1. /\ Len(s) \in Nat /\ Len(u) = Len(s) + 1 /\ u[Len(s) + 1] = t
        /\ \A k \in 1 .. Len(s) : u[k] = s[k]
    BY AppendFacts
  <1>. HIDE DEF u
  <1>2. ASSUME NEW l \in 2 .. Len(u), u[l].kind # "CP", u[l - 1].kind = "CP"
        PROVE  u[l].place = EndPlaceAfter(u[l - 1])
    <2>1. l - 1 \in 1 .. Len(s) /\ u[l - 1] = s[l - 1]
      <3>1. l - 1 \in 1 .. Len(s)
        BY <1>1
      <3>. QED  BY <1>1, <3>1
    <2>2. CASE l = Len(u)
      <3>1. l - 1 = Len(s) /\ l = Len(s) + 1 /\ s # <<>>
        BY <1>1, <2>1, <2>2
      <3>. QED  BY <1>1, <1>2, <2>1, <3>1
    <2>3. CASE l # Len(u)
      <3>1. l \in 2 .. Len(s) /\ l \in 1 .. Len(s)
        BY <1>1, <2>3
      <3>. QED  BY <1>1, <1>2, <2>1, <3>1 DEF EndsFollow
    <2>. QED  BY <2>2, <2>3
  <1>. QED  BY <1>2 DEF EndsFollow, u

LEMMA SeparatorsAppend ==
    ASSUME NEW s \in Seq(ScanToken), NEW t \in ScanToken
    PROVE  /\ Cardinality(Separators(s)) \in Nat
           /\ Cardinality(Separators(Append(s, t))) =
                Cardinality(Separators(s)) + (IF t.kind = "FSEP" THEN 1 ELSE 0)
  <1>. DEFINE u == Append(s, t)
              n == Len(s)
  <1>1. /\ n \in Nat /\ Len(u) = n + 1 /\ u[n + 1] = t
        /\ \A k \in 1 .. n : u[k] = s[k]
    BY AppendFacts
  <1>. HIDE DEF u, n
  <1>2. /\ IsFiniteSet(Separators(s)) /\ Cardinality(Separators(s)) \in Nat
        /\ n + 1 \notin Separators(s)
    <2>1. IsFiniteSet(1 .. n) /\ Separators(s) \subseteq 1 .. n
      BY <1>1, FS_Interval DEF Separators, n
    <2>. QED  BY <1>1, <2>1, FS_Subset, FS_CardinalityType
  <1>3. \A k : k \in 1 .. n + 1 <=> k \in 1 .. n \/ k = n + 1
    BY <1>1
  <1>4. /\ Separators(u) = {k \in 1 .. n + 1 : u[k].kind = "FSEP"}
        /\ Separators(s) = {k \in 1 .. n : s[k].kind = "FSEP"}
    BY <1>1 DEF Separators, n
  <1>5. CASE t.kind = "FSEP"
    <2>1. Separators(u) = Separators(s) \cup {n + 1}
      BY <1>1, <1>3, <1>4, <1>5
    <2>. QED  BY <1>2, <1>5, <2>1, FS_AddElement DEF u
  <1>6. CASE t.kind # "FSEP"
    <2>1. Separators(u) = Separators(s)
      BY <1>1, <1>3, <1>4, <1>6
    <2>. QED  BY <1>2, <1>6, <2>1 DEF u
  <1>. QED  BY <1>5, <1>6

\* The first n of the tokens.
Taken(q, tokens, n) == n \in 0 .. Len(tokens) /\ q = SubSeq(tokens, 1, n)

LEMMA TakenFacts ==
    ASSUME NEW X, NEW tokens \in Seq(X), NEW q, NEW n, Taken(q, tokens, n)
    PROVE  /\ n < Len(tokens) => Taken(Append(q, tokens[n + 1]), tokens, n + 1)
           /\ n = Len(tokens) => q = tokens
           /\ Len(q) <= Len(tokens) /\ SubSeq(q, 1, Len(q)) = SubSeq(tokens, 1, Len(q))
  <1>0. n \in 0 .. Len(tokens) /\ q = SubSeq(tokens, 1, n) /\ Len(tokens) \in Nat
    BY LenProperties DEF Taken
  <1>1. \A k \in 1 .. n : tokens[k] \in X
    <2>1. \A k \in 1 .. n : k \in 1 .. Len(tokens)
      BY <1>0
    <2>. QED  BY <2>1, ElementOfSeq
  <1>2. q \in Seq(X) /\ Len(q) = n
    <2>1. n - 1 + 1 = n /\ n >= 1 - 1 /\ 1 \in Int /\ n \in Int
      BY <1>0
    <2>2. SubSeq(tokens, 1, n) \in Seq(X) /\ Len(SubSeq(tokens, 1, n)) = n - 1 + 1
      BY <1>1, <2>1, SubSeqProperties
    <2>. QED  BY <1>0, <2>1, <2>2
  <1>3. SubSeq(q, 1, Len(q)) = q
    BY <1>2, SubSeqFull
  <1>4. n = Len(tokens) => q = tokens
    BY <1>0, SubSeqFull
  <1>5. ASSUME n < Len(tokens) PROVE Taken(Append(q, tokens[n + 1]), tokens, n + 1)
    <2>1. PICK m \in 1 .. Len(tokens) : m = n + 1
      BY <1>0, <1>5
    <2>2. m - 1 = n /\ m \in 0 .. Len(tokens)
      BY <1>0, <2>1
    <2>3. SubSeq(tokens, 1, m) = SubSeq(tokens, 1, m - 1) \o <<tokens[m]>>
      BY SubSeqRecursiveSecond
    <2>4. SubSeq(tokens, 1, m) = q \o <<tokens[m]>>
      BY <1>0, <2>2, <2>3, Zenon
    <2>5. tokens[m] \in X
      BY ElementOfSeq
    <2>6. q \o <<tokens[m]>> = Append(q, tokens[m])
      BY <1>2, <2>5, AppendIsConcat
    <2>7. Taken(Append(q, tokens[m]), tokens, m)
      BY <2>2, <2>4, <2>6, Zenon DEF Taken
    <2>. QED  BY <2>1, <2>7, Zenon
  <1>. QED  BY <1>0, <1>2, <1>3, <1>4, <1>5

-------------------------------------------------------------------------------
\* What has been put of a file.

\* A file that is being read: so many of its tokens have been put as there are
\* code points before the line, and in it before the place reached.
FileReading(file, k, g, s) ==
    \E start : /\ Reads(g, file, start)
               /\ Taken(Picked(s, k), TokensIn(file, k),
                        Len(Done(file, start)) + g.i_code_point)

\* A file that has been read, to its end if there was no error.
FileRead(file, k, s, failures) ==
    \E n : /\ Taken(Picked(s, k), TokensIn(file, k), n)
           /\ k \notin failures => n = Len(TokensIn(file, k))

EndReached(file, k, g, failures) ==
    g.eof_reached => /\ g.i_code_point = Len(g.sbuf)
                     /\ k \in failures \/ g.offset = Len(file)

\* The token put last, if it is a code point, is one of the file, and of its
\* line unless this has just been read.
LastIs(s, g) ==
    s # <<>> /\ s[Len(s)].kind = "CP" =>
       /\ g.sbuf # <<>>
       /\ g.i_code_point # 0 => /\ s[Len(s)].value = g.sbuf[g.i_code_point]
                                /\ s[Len(s)].place = <<g.line_no, g.i_code_point>>

LEMMA ReadingStarts ==
    ASSUME NEW file \in Seq(CodePoints), NEW k, NEW s, Picked(s, k) = <<>>, NEW failures
    PROVE  /\ FileReading(file, k, Scan!NewGetter, s)
           /\ EndReached(file, k, Scan!NewGetter, failures)
           /\ ~ (s # <<>> /\ s[Len(s)].kind = "CP") => LastIs(s, Scan!NewGetter)
  <1>. DEFINE g == Scan!NewGetter
  <1>1. /\ g.offset = 0 /\ g.sbuf = <<>> /\ g.line_no = 0 /\ g.i_code_point = 0
        /\ g.eof_reached = FALSE
    BY DEF Scan!NewGetter, Scan!NoLine
  <1>. HIDE DEF g
  <1>2. SubSeq(file, 0 + 1, 0) = <<>> /\ SubSeq(file, 1, 0) = <<>> /\ Len(file) \in Nat
    BY SubSeqEmpty, LenProperties
  <1>3. Reads(g, file, 0)
    <2>1. 0 \in 0 .. Len(file) /\ 0 \in 0 .. 0
      BY <1>2
    <2>. QED  BY <1>1, <1>2, <2>1, ComposeFacts DEF Reads, LineStart
  <1>4. Done(file, 0) = <<>>
    BY <1>2, ComposeFacts DEF Done
  <1>5. Taken(Picked(s, k), TokensIn(file, k), Len(Done(file, 0)) + g.i_code_point)
    <2>1. Len(Done(file, 0)) + g.i_code_point = 0
      BY <1>1, <1>4
    <2>2. 0 \in 0 .. Len(TokensIn(file, k))
      BY TokensInFacts
    <2>3. SubSeq(TokensIn(file, k), 1, 0) = <<>>
      BY TokensInFacts, SubSeqEmpty
    <2>. QED  BY <2>1, <2>2, <2>3 DEF Taken
  <1>6. FileReading(file, k, g, s)
    BY <1>3, <1>5 DEF FileReading
  <1>. QED  BY <1>1, <1>6 DEF EndReached, LastIs, g

LEMMA ReadingEnds ==
    ASSUME NEW file \in Seq(CodePoints), NEW k, NEW g \in Getters, NEW s, NEW failures,
           FileReading(file, k, g, s), EndReached(file, k, g, failures), g.eof_reached
    PROVE  FileRead(file, k, s, failures)
  <1>1. PICK start : /\ Reads(g, file, start)
                     /\ Taken(Picked(s, k), TokensIn(file, k),
                              Len(Done(file, start)) + g.i_code_point)
    BY DEF FileReading
  <1>2. g.i_code_point = Len(g.sbuf) /\ (k \in failures \/ g.offset = Len(file))
    BY DEF EndReached
  <1>3. g.offset = Len(file) =>
           Len(Done(file, start)) + g.i_code_point = Len(TokensIn(file, k))
    BY <1>1, <1>2, ReadsPlaces, TokensInFacts
  <1>. QED  BY <1>1, <1>2, <1>3 DEF FileRead

\* A code point more of the line.
LEMMA ReadingPuts ==
    ASSUME NEW file \in Seq(CodePoints), NEW k, NEW g \in Getters,
           NEW s \in Seq(ScanToken), FileReading(file, k, g, s),
           g.i_code_point < Len(g.sbuf), Scan!CodePoint(g, k) \in ScanToken,
           NEW h, h = [g EXCEPT !.i_code_point = g.i_code_point + 1]
    PROVE  /\ FileReading(file, k, h, Append(s, Scan!CodePoint(g, k)))
           /\ LastIs(Append(s, Scan!CodePoint(g, k)), h)
  <1>1. PICK start : /\ Reads(g, file, start)
                     /\ Taken(Picked(s, k), TokensIn(file, k),
                              Len(Done(file, start)) + g.i_code_point)
    BY DEF FileReading
  <1>. DEFINE t == Scan!CodePoint(g, k)
              n == Len(Done(file, start)) + g.i_code_point
              j == g.i_code_point + 1
  <1>2. /\ Len(Done(file, start)) \in Nat /\ Len(g.sbuf) \in Nat /\ g.i_code_point \in Nat
        /\ Len(Done(file, start)) + Len(g.sbuf) <= Len(Scan!Compose(file))
        /\ Len(Scan!Compose(file)) = Len(TokensIn(file, k)) /\ Len(Scan!Compose(file)) \in Nat
        /\ \A l \in 1 .. Len(g.sbuf) :
              TokensIn(file, k)[Len(Done(file, start)) + l] =
                 Scan!Token("CP", g.sbuf[l], k, g.line_no, l)
    <2>1. Reads(g, file, start)
      BY <1>1
    <2>2. /\ Len(Done(file, start)) \in Nat /\ Len(g.sbuf) \in Nat
          /\ Len(Done(file, start)) + Len(g.sbuf) <= Len(Scan!Compose(file))
          /\ \A l \in 1 .. Len(g.sbuf) :
                TokensIn(file, k)[Len(Done(file, start)) + l] =
                   Scan!Token("CP", g.sbuf[l], k, g.line_no, l)
      BY <2>1, ReadsPlaces
    <2>3. /\ Len(Scan!Compose(file)) = Len(TokensIn(file, k))
          /\ Len(Scan!Compose(file)) \in Nat
      BY TokensInFacts
    <2>4. g.i_code_point \in Nat
      BY DEF Getters
    <2>. QED  BY <2>2, <2>3, <2>4
  <1>3. j \in 1 .. Len(g.sbuf) /\ n < Len(TokensIn(file, k)) /\ n + 1 = Len(Done(file, start)) + j
    BY <1>2
  <1>4. t = Scan!Token("CP", g.sbuf[j], k, g.line_no, j)
    BY DEF Scan!CodePoint
  <1>5. TokensIn(file, k)[n + 1] = t
    BY <1>2, <1>3, <1>4
  <1>6. h.offset = g.offset /\ h.sbuf = g.sbuf /\ h.line_no = g.line_no /\ h.i_code_point = j
    BY DEF Getters
  <1>7. Reads(h, file, start)
    BY <1>1, <1>6, Zenon DEF Reads
  <1>8. t.file = k /\ t.kind = "CP" /\ t.value = g.sbuf[j] /\ t.place = <<g.line_no, j>>
    BY <1>4 DEF Scan!Token
  <1>9. Picked(Append(s, t), k) = Append(Picked(s, k), t)
    <2>. HIDE DEF t
    <2>. QED  BY <1>8, PickedAppend DEF t
  <1>10. Taken(Append(Picked(s, k), t), TokensIn(file, k), n + 1)
    <2>1. Taken(Append(Picked(s, k), TokensIn(file, k)[n + 1]), TokensIn(file, k), n + 1)
      <3>1. Taken(Picked(s, k), TokensIn(file, k), n)
        BY <1>1
      <3>2. \E X : TokensIn(file, k) \in Seq(X)
        BY TokensInFacts
      <3>. HIDE DEF n
      <3>. QED  BY <1>3, <3>1, <3>2, TakenFacts
    <2>. QED  BY <1>5, <2>1
  <1>11. n + 1 = Len(Done(file, start)) + h.i_code_point
    BY <1>3, <1>6
  <1>12. FileReading(file, k, h, Append(s, t))
    <2>. HIDE DEF t, n
    <2>. QED  BY <1>7, <1>9, <1>10, <1>11 DEF FileReading
  <1>13. LastIs(Append(s, t), h)
    <2>1. Append(s, t)[Len(Append(s, t))] = t
      <3>. HIDE DEF t
      <3>. QED  BY AppendFacts DEF t
    <2>2. g.sbuf # <<>>
      BY <1>2, <1>3
    <2>. HIDE DEF t
    <2>. QED  BY <1>6, <1>8, <2>1, <2>2 DEF LastIs
  <1>. QED  BY <1>12, <1>13

\* The end of the file, or an error that is taken for it.
LEMMA ReadingStops ==
    ASSUME NEW file, NEW k, NEW g \in Getters, NEW s, FileReading(file, k, g, s), LastIs(s, g),
           NEW h, h = [g EXCEPT !.eof_reached = TRUE]
    PROVE  FileReading(file, k, h, s) /\ LastIs(s, h)
  <1>1. h.offset = g.offset /\ h.sbuf = g.sbuf /\ h.line_no = g.line_no
        /\ h.i_code_point = g.i_code_point
    BY DEF Getters
  <1>2. \A start : Reads(g, file, start) => Reads(h, file, start)
    BY <1>1, Zenon DEF Reads
  <1>. QED  BY <1>1, <1>2, Zenon DEF FileReading, LastIs

\* The next line.
LEMMA ReadingFills ==
    ASSUME NEW file \in Seq(CodePoints), NEW k, NEW g \in Getters, NEW s,
           FileReading(file, k, g, s), LastIs(s, g), g.offset < Len(file), ~ g.eof_reached,
           g.i_code_point = Len(g.sbuf),
           NEW h \in Getters, h = Scan!FillLine(g, Scan!LineAt(file, g.offset))
    PROVE  FileReading(file, k, h, s) /\ LastIs(s, h) /\ ~ h.eof_reached
  <1>1. PICK start : /\ Reads(g, file, start)
                     /\ Taken(Picked(s, k), TokensIn(file, k),
                              Len(Done(file, start)) + g.i_code_point)
    BY DEF FileReading
  <1>2. /\ Reads(h, file, g.offset)
        /\ h.i_code_point = 0 /\ ~ h.eof_reached /\ h.sbuf # <<>>
        /\ Len(Done(file, g.offset)) = Len(Done(file, start)) + Len(g.sbuf)
    BY <1>1, ReadsOn
  <1>3. Len(Done(file, g.offset)) + h.i_code_point = Len(Done(file, start)) + g.i_code_point
    <2>1. Len(Done(file, start)) \in Nat /\ Len(g.sbuf) \in Nat
      BY <1>1, ReadsPlaces
    <2>. QED  BY <1>2, <2>1
  <1>. QED  BY <1>1, <1>2, <1>3 DEF FileReading, LastIs

LEMMA ReadingOffset ==
    ASSUME NEW file \in Seq(CodePoints), NEW k, NEW g \in Getters, NEW s, FileReading(file, k, g, s)
    PROVE  /\ g.offset \in Nat /\ g.offset <= Len(file) /\ Len(file) \in Nat
           /\ g.sbuf # <<>> => 0 < g.line_no
  <1>1. PICK start : Reads(g, file, start)
    BY DEF FileReading
  <1>2. g.offset \in 0 .. Len(file) /\ start \in 0 .. g.offset /\ Len(file) \in Nat
    BY <1>1, LenProperties DEF Reads
  <1>3. CASE g.offset = 0
    <2>1. SubSeq(file, start + 1, g.offset) = <<>>
      BY <1>2, <1>3, SubSeqEmpty
    <2>2. g.sbuf = <<>>
      BY <1>1, <2>1, ComposeFacts DEF Reads
    <2>. QED  BY <1>2, <2>2
  <1>4. CASE g.offset # 0
    <2>1. g.line_no = Cardinality(EndsOf(Done(file, start))) + 1
      BY <1>1, <1>4 DEF Reads
    <2>2. Cardinality(EndsOf(Done(file, start))) \in Nat
      BY <1>1, ReadsText, EndsFinite
    <2>. QED  BY <1>2, <2>1, <2>2
  <1>. QED  BY <1>3, <1>4

-------------------------------------------------------------------------------
\* The scan, file after file.

FilesRead(n, s, failures) == \A k \in 1 .. n : FileRead(files[k], k, s, failures)

\* The file that is open has been put up to the place that the getter has reached,
\* the files before it to their end, and nothing of those after it.
ScanKept ==
    /\ i = 0 => scanned = <<>> /\ status # "scanned"
    /\ i # 0 => /\ FileReading(files[i], i, getter, scanned)
                /\ EndReached(files[i], i, getter, unread)
                /\ LastIs(scanned, getter)
    /\ FilesRead(i - 1, scanned, unread)
    /\ FilesRise(scanned, i)
    /\ EndsFollow(scanned)
    /\ Cardinality(Separators(scanned)) = IF i = 0 THEN 0 ELSE i - 1
    /\ status = "scanned" => i = Len(files) /\ getter.eof_reached

LEMMA ScanFacts ==
    ASSUME ScanTyped
    PROVE  /\ getter \in Getters /\ scanned \in Seq(ScanToken) /\ i \in Nat
           /\ Len(files) \in Nat \ {0} /\ i <= Len(files)
           /\ getter.i_code_point \in Nat /\ Len(getter.sbuf) \in Nat
           /\ getter.i_code_point <= Len(getter.sbuf)
           /\ getter.line_no \in Nat /\ getter.offset \in Nat
           /\ getter.sbuf \in Seq(CodePoints)
           /\ \A k \in 1 .. Len(files) : files[k] \in Seq(CodePoints)
           /\ i # 0 => files[i] \in Seq(CodePoints)
  <1>1. files \in Seq(Seq(CodePoints)) /\ files # <<>> /\ i \in 0 .. Len(files)
    BY DEF ScanTyped
  <1>2. Len(files) \in Nat \ {0} /\ \A k \in 1 .. Len(files) : files[k] \in Seq(CodePoints)
    BY <1>1, EmptySeq, LenProperties, ElementOfSeq
  <1>3. i \in Nat /\ i <= Len(files) /\ (i # 0 => i \in 1 .. Len(files))
    BY <1>1, <1>2
  <1>4. getter \in Getters /\ scanned \in Seq(ScanToken)
        /\ getter.i_code_point <= Len(getter.sbuf)
    BY DEF ScanTyped, Getters
  <1>5. /\ getter.i_code_point \in Nat /\ getter.line_no \in Nat /\ getter.offset \in Nat
        /\ getter.sbuf \in Seq(CodePoints)
    BY <1>4 DEF Getters
  <1>6. Len(getter.sbuf) \in Nat
    BY <1>5, LenProperties
  <1>. QED  BY <1>2, <1>3, <1>4, <1>5, <1>6

\* A token that is none of theirs, or an error more, changes nothing in the
\* files that have been read.
LEMMA FilesReadOn ==
    ASSUME NEW n \in Int, NEW s \in Seq(ScanToken), NEW failures, FilesRead(n, s, failures)
    PROVE  /\ \A t \in ScanToken :
                 (\A k \in 1 .. n : ~ (t.file = k /\ t.kind = "CP")) =>
                    FilesRead(n, Append(s, t), failures)
           /\ \A k : FilesRead(n, s, failures \cup {k})
  <1>1. ASSUME NEW t \in ScanToken, \A k \in 1 .. n : ~ (t.file = k /\ t.kind = "CP")
        PROVE  FilesRead(n, Append(s, t), failures)
    <2>1. ASSUME NEW k \in 1 .. n PROVE FileRead(files[k], k, Append(s, t), failures)
      <3>1. Picked(Append(s, t), k) = Picked(s, k)
        BY <1>1, PickedAppend
      <3>2. FileRead(files[k], k, s, failures)
        BY DEF FilesRead
      <3>. QED  BY <3>1, <3>2, Zenon DEF FileRead
    <2>. QED  BY <2>1 DEF FilesRead
  <1>2. ASSUME NEW k PROVE FilesRead(n, s, failures \cup {k})
    BY DEF FilesRead, FileRead
  <1>. QED  BY <1>1, <1>2

LEMMA ScanKeptInit ==
    ASSUME Scan!Init
    PROVE  ScanKept
  <1>1. i = 0 /\ scanned = <<>> /\ status = "scanning" /\ unread = {}
    BY DEF Scan!Init
  <1>2. FilesRead(i - 1, scanned, unread)
    BY <1>1 DEF FilesRead
  <1>3. FilesRise(scanned, i) /\ EndsFollow(scanned) /\ Separators(scanned) = {}
    BY <1>1 DEF FilesRise, EndsFollow, Separators
  <1>4. Cardinality(Separators(scanned)) = 0
    BY <1>3, FS_EmptySet
  <1>. QED  BY <1>1, <1>2, <1>3, <1>4 DEF ScanKept

LEMMA KeptByOpenFirst ==
    ASSUME ScanTyped, ScanKept, Scan!OpenFirst
    PROVE  ScanKept'
  <1>1. /\ UNCHANGED <<files, scanned, unread, status>> /\ i = 0 /\ i' = 1
        /\ getter' = Scan!NewGetter /\ status = "scanning"
    BY DEF Scan!OpenFirst, Scan!OpenFile
  <1>2. scanned = <<>> /\ FilesRise(scanned, 0) /\ EndsFollow(scanned)
        /\ Cardinality(Separators(scanned)) = 0
    BY <1>1 DEF ScanKept
  <1>3. files[1] \in Seq(CodePoints)
    BY ScanFacts
  <1>4. /\ FileReading(files[1], 1, Scan!NewGetter, scanned)
        /\ EndReached(files[1], 1, Scan!NewGetter, unread)
        /\ LastIs(scanned, Scan!NewGetter)
    BY <1>2, <1>3, PickedEmpty, ReadingStarts
  <1>5. FilesRise(scanned, 1)
    BY <1>2 DEF FilesRise
  <1>6. FilesRead(1 - 1, scanned, unread)
    BY DEF FilesRead
  <1>. QED  BY <1>1, <1>2, <1>4, <1>5, <1>6 DEF ScanKept, FilesRead

LEMMA KeptByExits ==
    ASSUME ScanTyped, ScanKept, Scan!OpenFails \/ Scan!DecodeFails \/ Scan!PutFails
    PROVE  ScanKept'
  <1>1. UNCHANGED <<files, i, getter, scanned, unread>> /\ status' \in {"exited", "error"}
    BY DEF Scan!OpenFails, Scan!DecodeFails, Scan!PutFails, Scan!Exit
  <1>. QED  BY <1>1 DEF ScanKept, FilesRead

\* Reading changes the getter, and what has failed, and nothing else.
LEMMA KeptByReading ==
    ASSUME ScanTyped, ScanKept, UNCHANGED <<files, i, scanned, status>>,
           status = "scanning", i # 0,
           unread' = unread \/ unread' = unread \cup {i},
           FileReading(files[i], i, getter', scanned),
           EndReached(files[i], i, getter', unread'),
           LastIs(scanned, getter')
    PROVE  ScanKept'
  <1>1. FilesRead(i - 1, scanned, unread')
    <2>1. FilesRead(i - 1, scanned, unread)
      BY DEF ScanKept
    <2>2. i - 1 \in Int /\ scanned \in Seq(ScanToken)
      BY ScanFacts
    <2>3. FilesRead(i - 1, scanned, unread \cup {i})
      BY <2>1, <2>2, FilesReadOn
    <2>. QED  BY <2>1, <2>3
  <1>. QED  BY <1>1 DEF ScanKept, FilesRead

LEMMA KeptByRead ==
    ASSUME ScanTyped, ScanKept, Scan!ReadLine \/ Scan!ReadFails, ScanTyped'
    PROVE  ScanKept'
  <1>. DEFINE file == files[i]
              line == Scan!LineAt(files[i], getter.offset)
  <1>1. /\ UNCHANGED <<files, i, scanned, status>> /\ status = "scanning" /\ i # 0
        /\ ~ Scan!IsFilled(getter)
    BY DEF Scan!ReadLine, Scan!ReadFails
  <1>2. /\ getter.i_code_point = Len(getter.sbuf) /\ ~ getter.eof_reached
        /\ getter \in Getters /\ file \in Seq(CodePoints) /\ getter.offset \in Nat
    BY <1>1, ScanFacts DEF Scan!IsFilled
  <1>3. getter' \in Getters
    BY DEF ScanTyped, Getters
  <1>4. FileReading(file, i, getter, scanned) /\ LastIs(scanned, getter)
    BY <1>1 DEF ScanKept
  <1>5. getter.offset <= Len(file) /\ Len(file) \in Nat
    BY <1>2, <1>4, ReadingOffset
  <1>6. ASSUME getter' = [getter EXCEPT !.eof_reached = TRUE],
               i \in unread' \/ getter.offset = Len(file),
               unread' = unread \/ unread' = unread \cup {i}
        PROVE  ScanKept'
    <2>1. FileReading(file, i, getter', scanned) /\ LastIs(scanned, getter')
      BY <1>2, <1>4, <1>6, ReadingStops
    <2>2. getter'.i_code_point = getter.i_code_point /\ getter'.sbuf = getter.sbuf
          /\ getter'.offset = getter.offset
      BY <1>2, <1>6 DEF Getters
    <2>3. EndReached(file, i, getter', unread')
      BY <1>2, <1>6, <2>2 DEF EndReached
    <2>. QED  BY <1>1, <1>6, <2>1, <2>3, KeptByReading
  <1>7. CASE Scan!ReadFails
    <2>1. getter' = Scan!FillLine(getter, <<>>) /\ unread' = unread \cup {i}
      BY <1>7 DEF Scan!ReadFails
    <2>2. getter' = [getter EXCEPT !.eof_reached = TRUE]
      BY <2>1 DEF Scan!FillLine
    <2>. QED  BY <1>6, <2>1, <2>2
  <1>8. CASE Scan!ReadLine /\ getter.offset < Len(file)
    <2>1. getter' = Scan!FillLine(getter, line) /\ unread' = unread
      BY <1>8 DEF Scan!ReadLine
    <2>2. /\ FileReading(file, i, getter', scanned) /\ LastIs(scanned, getter')
          /\ ~ getter'.eof_reached
      BY <1>2, <1>3, <1>4, <1>8, <2>1, ReadingFills
    <2>3. EndReached(file, i, getter', unread')
      BY <2>2 DEF EndReached
    <2>. QED  BY <1>1, <2>1, <2>2, <2>3, KeptByReading
  <1>9. CASE Scan!ReadLine /\ ~ (getter.offset < Len(file))
    <2>1. getter' = Scan!FillLine(getter, line) /\ unread' = unread
      BY <1>9 DEF Scan!ReadLine
    <2>2. getter.offset >= Len(file) /\ getter.offset = Len(file)
      BY <1>2, <1>5, <1>9
    <2>3. line = <<>>
      BY <1>2, <2>2, LineAtFacts
    <2>4. getter' = [getter EXCEPT !.eof_reached = TRUE]
      BY <2>1, <2>3 DEF Scan!FillLine
    <2>. QED  BY <1>6, <2>1, <2>2, <2>4
  <1>. QED  BY <1>7, <1>8, <1>9

LEMMA KeptByCodePoint ==
    ASSUME ScanTyped, ScanKept, Scan!ScanCodePoint
    PROVE  ScanKept'
  <1>. DEFINE t == Scan!CodePoint(getter, i)
              file == files[i]
  <1>1. /\ UNCHANGED <<files, i, unread, status>> /\ status = "scanning" /\ i # 0
        /\ scanned' = Append(scanned, t)
        /\ getter' = [getter EXCEPT !.i_code_point = getter.i_code_point + 1]
        /\ getter.i_code_point < Len(getter.sbuf) /\ ~ getter.eof_reached
    BY DEF Scan!ScanCodePoint, Scan!IsFilled
  <1>2. /\ getter \in Getters /\ scanned \in Seq(ScanToken) /\ i \in Nat
        /\ file \in Seq(CodePoints)
    BY <1>1, ScanFacts
  <1>3. t \in ScanToken /\ t.kind = "CP" /\ t.file = i
    <2>1. getter.i_code_point + 1 \in 1 .. Len(getter.sbuf) /\ getter.sbuf \in Seq(CodePoints)
          /\ getter.line_no \in Int /\ getter.i_code_point + 1 \in Int
      BY <1>1, ScanFacts
    <2>2. getter.sbuf[getter.i_code_point + 1] \in CodePoints
      BY <2>1, ElementOfSeq
    <2>. QED  BY <1>2, <2>1, <2>2 DEF Scan!CodePoint, Scan!Token, ScanToken
  <1>4. FileReading(file, i, getter, scanned)
    BY <1>1 DEF ScanKept
  <1>5. FileReading(file, i, getter', scanned') /\ LastIs(scanned', getter')
    BY <1>1, <1>2, <1>3, <1>4, ReadingPuts
  <1>6. EndReached(file, i, getter', unread')
    <2>1. ~ getter'.eof_reached
      BY <1>1, <1>2 DEF Getters
    <2>. QED  BY <2>1 DEF EndReached
  <1>. HIDE DEF t
  <1>7. FilesRead(i - 1, scanned', unread)
    <2>1. FilesRead(i - 1, scanned, unread) /\ i - 1 \in Int
      BY <1>2 DEF ScanKept
    <2>2. \A k \in 1 .. i - 1 : ~ (t.file = k /\ t.kind = "CP")
      BY <1>2, <1>3
    <2>. QED  BY <1>1, <1>2, <1>3, <2>1, <2>2, FilesReadOn
  <1>8. FilesRise(scanned', i)
    <2>1. FilesRise(scanned, i)
      BY DEF ScanKept
    <2>. QED  BY <1>1, <1>2, <1>3, <2>1, FilesRiseAppend
  <1>9. EndsFollow(scanned')
    <2>1. EndsFollow(scanned)
      BY DEF ScanKept
    <2>. QED  BY <1>1, <1>2, <1>3, <2>1, EndsFollowAppend
  <1>10. Cardinality(Separators(scanned')) = i - 1
    <2>1. Cardinality(Separators(scanned)) = i - 1
      BY <1>1 DEF ScanKept
    <2>2. Cardinality(Separators(scanned')) = Cardinality(Separators(scanned)) + 0
      BY <1>1, <1>2, <1>3, SeparatorsAppend
    <2>. QED  BY <1>2, <2>1, <2>2
  <1>. QED  BY <1>1, <1>5, <1>6, <1>7, <1>8, <1>9, <1>10 DEF ScanKept, FilesRead

\* The token that ends a file.
LEMMA EndFacts ==
    ASSUME ScanTyped, ScanKept, i # 0, getter.eof_reached, NEW kind \in {"FSEP", "EOF"}
    PROVE  /\ Scan!End(kind) \in ScanToken
           /\ Scan!End(kind).kind = kind /\ Scan!End(kind).file = i
           /\ scanned # <<>> /\ scanned[Len(scanned)].kind = "CP" =>
                Scan!End(kind).place = EndPlaceAfter(scanned[Len(scanned)])
  <1>1. PICK x \in Int, y \in Int : Scan!EndPlace(getter) = <<x, y>>
    <2>1. /\ getter.line_no \in Int /\ getter.i_code_point \in Int
          /\ getter.line_no + 1 \in Int /\ getter.i_code_point + 1 \in Int
      BY ScanFacts
    <2>2. CASE Scan!AfterEndOfLine(getter)
      <3>1. Scan!EndPlace(getter) = <<getter.line_no + 1, 0>>
        BY <2>2 DEF Scan!EndPlace
      <3>. QED  BY <2>1, <3>1
    <2>3. CASE ~ Scan!AfterEndOfLine(getter)
      <3>1. Scan!EndPlace(getter) = <<getter.line_no, getter.i_code_point + 1>>
        BY <2>3 DEF Scan!EndPlace
      <3>. QED  BY <2>1, <3>1
    <2>. QED  BY <2>2, <2>3
  <1>2. Scan!End(kind) = [kind |-> kind, value |-> kind, file |-> i, place |-> <<x, y>>]
    <2>1. Scan!EndPlace(getter)[1] = x /\ Scan!EndPlace(getter)[2] = y
      BY <1>1
    <2>. QED  BY <2>1 DEF Scan!End, Scan!Token
  <1>3. /\ Scan!End(kind) \in ScanToken /\ Scan!End(kind).place = <<x, y>>
        /\ Scan!End(kind).kind = kind /\ Scan!End(kind).file = i
    <2>1. i \in Int
      BY ScanFacts
    <2>. QED  BY <1>2, <2>1 DEF ScanToken
  <1>4. ASSUME scanned # <<>>, scanned[Len(scanned)].kind = "CP"
        PROVE  Scan!EndPlace(getter) = EndPlaceAfter(scanned[Len(scanned)])
    <2>. DEFINE last == scanned[Len(scanned)]
                n == Len(getter.sbuf)
    <2>1. getter.i_code_point = n
      BY DEF ScanKept, EndReached
    <2>2. getter.sbuf # <<>> /\ getter.sbuf \in Seq(CodePoints) /\ n # 0 /\ n \in Nat
      <3>1. getter.sbuf # <<>>
        BY <1>4 DEF ScanKept, LastIs
      <3>. QED  BY <3>1, ScanFacts, EmptySeq
    <2>3. last.value = getter.sbuf[n] /\ last.place = <<getter.line_no, n>>
      BY <1>4, <2>1, <2>2 DEF ScanKept, LastIs
    <2>4. 0 < getter.line_no
      <3>1. FileReading(files[i], i, getter, scanned)
        BY DEF ScanKept
      <3>. QED  BY <2>2, <3>1, ScanFacts, ReadingOffset
    <2>5. Scan!Last(getter.sbuf) = getter.sbuf[n]
      BY <2>2, ScanEnds
    <2>6. last.place[1] = getter.line_no /\ last.place[2] = n
      BY <2>3
    <2>. HIDE DEF last
    <2>7. Scan!EndPlace(getter) =
            IF last.value = "\n" THEN <<getter.line_no + 1, 0>> ELSE <<getter.line_no, n + 1>>
      BY <2>1, <2>3, <2>4, <2>5 DEF Scan!EndPlace, Scan!AfterEndOfLine
    <2>. QED  BY <2>6, <2>7 DEF EndPlaceAfter, last
  <1>. QED  BY <1>1, <1>3, <1>4

LEMMA KeptByEnd ==
    ASSUME ScanTyped, ScanKept, Scan!ScanEnd
    PROVE  ScanKept'
  <1>. DEFINE t == Scan!End("EOF")
  <1>1. /\ UNCHANGED <<files, i, getter, unread>> /\ i = Len(files) /\ i # 0
        /\ scanned' = Append(scanned, t) /\ getter.eof_reached /\ status' = "scanned"
    BY ScanFacts DEF Scan!ScanEnd
  <1>2. /\ t \in ScanToken /\ t.kind = "EOF" /\ t.file = i
        /\ scanned # <<>> /\ scanned[Len(scanned)].kind = "CP" =>
             t.place = EndPlaceAfter(scanned[Len(scanned)])
    BY <1>1, EndFacts
  <1>3. getter \in Getters /\ scanned \in Seq(ScanToken) /\ i \in Nat
    BY ScanFacts
  <1>. HIDE DEF t
  <1>4. FileReading(files[i], i, getter, scanned')
    <2>1. FileReading(files[i], i, getter, scanned)
      BY <1>1 DEF ScanKept
    <2>2. Picked(scanned', i) = Picked(scanned, i)
      BY <1>1, <1>2, <1>3, PickedAppend
    <2>. QED  BY <2>1, <2>2, Zenon DEF FileReading
  <1>5. EndReached(files[i], i, getter, unread)
    BY <1>1 DEF ScanKept
  <1>6. LastIs(scanned', getter)
    <2>1. scanned'[Len(scanned')] = t
      BY <1>1, <1>2, <1>3, AppendFacts
    <2>. QED  BY <1>2, <2>1 DEF LastIs
  <1>7. FilesRead(i - 1, scanned', unread)
    <2>1. FilesRead(i - 1, scanned, unread) /\ i - 1 \in Int
      BY <1>3 DEF ScanKept
    <2>. QED  BY <1>1, <1>2, <1>3, <2>1, FilesReadOn
  <1>8. FilesRise(scanned', i)
    <2>1. FilesRise(scanned, i)
      BY DEF ScanKept
    <2>. QED  BY <1>1, <1>2, <1>3, <2>1, FilesRiseAppend
  <1>9. EndsFollow(scanned')
    <2>1. EndsFollow(scanned)
      BY DEF ScanKept
    <2>. QED  BY <1>1, <1>2, <1>3, <2>1, EndsFollowAppend
  <1>10. Cardinality(Separators(scanned')) = i - 1
    <2>1. Cardinality(Separators(scanned)) = i - 1
      BY <1>1 DEF ScanKept
    <2>2. Cardinality(Separators(scanned')) = Cardinality(Separators(scanned)) + 0
      BY <1>1, <1>2, <1>3, SeparatorsAppend
    <2>. QED  BY <1>3, <2>1, <2>2
  <1>. QED  BY <1>1, <1>4, <1>5, <1>6, <1>7, <1>8, <1>9, <1>10 DEF ScanKept, FilesRead

LEMMA KeptBySeparator ==
    ASSUME ScanTyped, ScanKept, Scan!ScanSeparator
    PROVE  ScanKept'
  <1>. DEFINE t == Scan!End("FSEP")
  <1>1. /\ UNCHANGED <<files, unread, status>> /\ i \in 1 .. Len(files) - 1 /\ i' = i + 1
        /\ getter' = Scan!NewGetter /\ status = "scanning"
        /\ scanned' = Append(scanned, t) /\ getter.eof_reached
    BY DEF Scan!ScanSeparator, Scan!OpenFile
  <1>2. /\ t \in ScanToken /\ t.kind = "FSEP" /\ t.file = i
        /\ scanned # <<>> /\ scanned[Len(scanned)].kind = "CP" =>
             t.place = EndPlaceAfter(scanned[Len(scanned)])
    BY <1>1, EndFacts
  <1>3. /\ getter \in Getters /\ scanned \in Seq(ScanToken) /\ i \in Nat \ {0}
        /\ files[i] \in Seq(CodePoints) /\ files[i + 1] \in Seq(CodePoints)
    BY <1>1, ScanFacts
  <1>. HIDE DEF t
  <1>4. scanned' \in Seq(ScanToken) /\ \A k : Picked(scanned', k) = Picked(scanned, k)
    BY <1>1, <1>2, <1>3, PickedAppend, AppendFacts
  <1>5. FileRead(files[i], i, scanned', unread)
    <2>1. FileReading(files[i], i, getter, scanned) /\ EndReached(files[i], i, getter, unread)
      BY <1>1 DEF ScanKept
    <2>2. FileRead(files[i], i, scanned, unread)
      BY <1>1, <1>3, <2>1, ReadingEnds
    <2>. QED  BY <1>4, <2>2, Zenon DEF FileRead
  <1>6. FilesRead(i, scanned', unread)
    <2>1. FilesRead(i - 1, scanned, unread) /\ i - 1 \in Int
      BY <1>3 DEF ScanKept
    <2>2. FilesRead(i - 1, scanned', unread)
      BY <1>1, <1>2, <1>3, <2>1, FilesReadOn
    <2>. QED  BY <1>3, <1>5, <2>2 DEF FilesRead
  <1>7. FilesRise(scanned', i) /\ FilesRise(scanned', i + 1)
    <2>1. FilesRise(scanned, i)
      BY DEF ScanKept
    <2>2. FilesRise(scanned', i)
      BY <1>1, <1>2, <1>3, <2>1, FilesRiseAppend
    <2>. QED  BY <1>3, <1>4, <2>2, FilesRiseOn
  <1>8. EndsFollow(scanned')
    <2>1. EndsFollow(scanned)
      BY DEF ScanKept
    <2>. QED  BY <1>1, <1>2, <1>3, <2>1, EndsFollowAppend
  <1>9. Cardinality(Separators(scanned')) = i
    <2>1. Cardinality(Separators(scanned)) = i - 1
      BY <1>1 DEF ScanKept
    <2>2. Cardinality(Separators(scanned')) = Cardinality(Separators(scanned)) + 1
      BY <1>1, <1>2, <1>3, SeparatorsAppend
    <2>. QED  BY <1>3, <2>1, <2>2
  <1>10. Picked(scanned', i + 1) = <<>>
    <2>1. i < i + 1 /\ i + 1 \in Int
      BY <1>3
    <2>. QED  BY <1>3, <1>4, <1>7, <2>1, NonePicked
  <1>11. ~ (scanned' # <<>> /\ scanned'[Len(scanned')].kind = "CP")
    <2>1. scanned'[Len(scanned')] = t
      BY <1>1, <1>2, <1>3, AppendFacts
    <2>. QED  BY <1>2, <2>1
  <1>12. /\ FileReading(files[i + 1], i + 1, Scan!NewGetter, scanned')
         /\ EndReached(files[i + 1], i + 1, Scan!NewGetter, unread)
         /\ LastIs(scanned', Scan!NewGetter)
    BY <1>3, <1>10, <1>11, ReadingStarts
  <1>13. i + 1 # 0 /\ (i + 1) - 1 = i
    BY <1>3
  <1>. QED  BY <1>1, <1>6, <1>7, <1>8, <1>9, <1>12, <1>13 DEF ScanKept, FilesRead

LEMMA ScanKeptStep ==
    ASSUME ScanTyped, ScanTyped', ScanKept, [Next]_vars
    PROVE  ScanKept'
  <1>1. CASE ScanStep
    BY <1>1, KeptByOpenFirst, KeptByExits, KeptByRead, KeptByCodePoint, KeptBySeparator, KeptByEnd
       DEF ScanStep, Scan!Next
  <1>2. CASE UNCHANGED scanVars
    BY <1>2 DEF scanVars, ScanKept, FilesRead
  <1>. QED  BY <1>1, <1>2 DEF Next, StartFirst, ParseStep, vars

-------------------------------------------------------------------------------
\* What follows.

\* What is picked of a file is the beginning of its tokens, and all of them if
\* it has been read without an error.
LEMMA PickedBegins ==
    ASSUME NEW file \in Seq(CodePoints), NEW k, NEW q, NEW n, Taken(q, TokensIn(file, k), n)
    PROVE  /\ Scan!IsPrefix(q, TokensIn(file, k))
           /\ n = Len(TokensIn(file, k)) => q = TokensIn(file, k)
  <1>1. \E X : TokensIn(file, k) \in Seq(X)
    BY TokensInFacts
  <1>2. /\ Len(q) <= Len(TokensIn(file, k))
        /\ SubSeq(q, 1, Len(q)) = SubSeq(TokensIn(file, k), 1, Len(q))
        /\ n = Len(TokensIn(file, k)) => q = TokensIn(file, k)
    BY <1>1, TakenFacts
  <1>. QED  BY <1>2 DEF Scan!IsPrefix

LEMMA TokensOfIs == \A k : Scan!TokensOf(k) = TokensIn(files[k], k)
  BY DEF Scan!TokensOf, TokensIn

LEMMA NoneBegins ==
    ASSUME NEW file \in Seq(CodePoints), NEW k
    PROVE  Scan!IsPrefix(<<>>, TokensIn(file, k))
  <1>1. Len(TokensIn(file, k)) \in Nat
    BY TokensInFacts
  <1>2. 0 \in 0 .. Len(TokensIn(file, k)) /\ <<>> = SubSeq(TokensIn(file, k), 1, 0)
    BY <1>1, TokensInFacts, SubSeqEmpty
  <1>3. Taken(<<>>, TokensIn(file, k), 0)
    BY <1>2 DEF Taken
  <1>. QED  BY <1>3, PickedBegins

LEMMA ScannedInOrderHolds ==
    ASSUME ScanTyped, ScanKept
    PROVE  ScannedInOrder
  <1>0. /\ getter \in Getters /\ scanned \in Seq(ScanToken) /\ i \in Nat
        /\ Len(files) \in Nat \ {0} /\ i <= Len(files) /\ DOMAIN files = 1 .. Len(files)
        /\ DOMAIN scanned = 1 .. Len(scanned)
        /\ \A k \in 1 .. Len(files) : files[k] \in Seq(CodePoints)
    <2>1. files \in Seq(Seq(CodePoints))
      BY DEF ScanTyped
    <2>. QED  BY <2>1, ScanFacts, LenProperties
  <1>1. \A k : Scan!ScannedOf(k) = Picked(scanned, k)
    BY <1>0, ScannedOfIs
  <1>2. \A k \in 1 .. i - 1 : FileRead(files[k], k, scanned, unread)
    BY DEF ScanKept, FilesRead
  <1>3. ASSUME NEW k \in 1 .. Len(files), FileRead(files[k], k, scanned, unread)
        PROVE  /\ Scan!IsPrefix(Scan!ScannedOf(k), Scan!TokensOf(k))
               /\ k \notin unread => Scan!ScannedOf(k) = Scan!TokensOf(k)
    <2>1. PICK n : /\ Taken(Picked(scanned, k), TokensIn(files[k], k), n)
                   /\ k \notin unread => n = Len(TokensIn(files[k], k))
      BY <1>3 DEF FileRead
    <2>2. /\ Scan!IsPrefix(Picked(scanned, k), TokensIn(files[k], k))
          /\ n = Len(TokensIn(files[k], k)) => Picked(scanned, k) = TokensIn(files[k], k)
      BY <1>0, <2>1, PickedBegins
    <2>. QED  BY <1>1, <2>1, <2>2, TokensOfIs
  <1>4. ASSUME NEW k \in 1 .. Len(files)
        PROVE  Scan!IsPrefix(Scan!ScannedOf(k), Scan!TokensOf(k))
    <2>1. CASE k < i
      <3>1. k \in 1 .. i - 1
        BY <1>0, <2>1
      <3>. QED  BY <1>2, <1>3, <3>1
    <2>2. CASE k = i
      <3>1. FileReading(files[k], k, getter, scanned)
        BY <2>2 DEF ScanKept
      <3>2. \E n : Taken(Picked(scanned, k), TokensIn(files[k], k), n)
        BY <3>1 DEF FileReading
      <3>3. Scan!IsPrefix(Picked(scanned, k), TokensIn(files[k], k))
        BY <1>0, <3>2, PickedBegins
      <3>. QED  BY <1>1, <3>3, TokensOfIs
    <2>3. CASE i < k
      <3>1. FilesRise(scanned, i) /\ k \in Int
        BY DEF ScanKept
      <3>2. Picked(scanned, k) = <<>>
        BY <1>0, <2>3, <3>1, NonePicked
      <3>3. Scan!IsPrefix(<<>>, TokensIn(files[k], k))
        BY <1>0, NoneBegins
      <3>. QED  BY <1>1, <3>2, <3>3, TokensOfIs
    <2>. QED  BY <1>0, <2>1, <2>2, <2>3
  <1>5. \A k, l \in 1 .. Len(scanned) : k < l => scanned[k].file <= scanned[l].file
    BY DEF ScanKept, FilesRise
  <1>6. \A k \in 1 .. i - 1 : k \notin unread => Scan!ScannedOf(k) = Scan!TokensOf(k)
    <2>1. \A k \in 1 .. i - 1 : k \in 1 .. Len(files)
      BY <1>0
    <2>. QED  BY <1>2, <1>3, <2>1
  <1>7. ASSUME status = "scanned", NEW k \in 1 .. Len(files), k \notin unread
        PROVE  Scan!ScannedOf(k) = Scan!TokensOf(k)
    <2>1. i = Len(files) /\ getter.eof_reached /\ i # 0
      BY <1>0, <1>7 DEF ScanKept
    <2>2. FileRead(files[i], i, scanned, unread)
      <3>1. FileReading(files[i], i, getter, scanned) /\ EndReached(files[i], i, getter, unread)
        BY <2>1 DEF ScanKept
      <3>2. files[i] \in Seq(CodePoints)
        BY <1>0, <2>1
      <3>. QED  BY <1>0, <2>1, <3>1, <3>2, ReadingEnds
    <2>3. k \in 1 .. i - 1 \/ k = i
      <3>1. i \in Nat
        BY <1>0
      <3>2. k \in 1 .. i
        BY <2>1
      <3>. QED  BY <3>1, <3>2
    <2>. QED  BY <1>2, <1>3, <1>7, <2>2, <2>3
  <1>. QED  BY <1>0, <1>4, <1>5, <1>6, <1>7 DEF ScannedInOrder, Scan!ScannedInOrder

LEMMA EndsInPlaceHolds ==
    ASSUME ScanTyped, ScanKept
    PROVE  EndsInPlace
  <1>0. /\ scanned \in Seq(ScanToken) /\ DOMAIN scanned = 1 .. Len(scanned) /\ i \in Nat
        /\ Len(files) \in Nat \ {0}
    BY ScanFacts, LenProperties
  <1>1. \A l \in DOMAIN scanned :
           scanned[l].kind = "EOF" => status = "scanned" /\ l = Len(scanned)
    BY <1>0 DEF ScanTyped
  <1>2. ASSUME status = "scanned"
        PROVE  /\ Scan!Last(scanned).kind = "EOF"
               /\ Scan!Cardinality({l \in DOMAIN scanned : scanned[l].kind = "FSEP"})
                    = Len(files) - 1
    <2>1. Scan!Last(scanned) = scanned[Len(scanned)]
      BY DEF Scan!Last
    <2>2. scanned[Len(scanned)].kind = "EOF"
      BY <1>2 DEF ScanTyped
    <2>3. i = Len(files) /\ i # 0
      BY <1>0, <1>2 DEF ScanKept
    <2>4. Cardinality(Separators(scanned)) = i - 1
      BY <2>3 DEF ScanKept
    <2>5. {l \in DOMAIN scanned : scanned[l].kind = "FSEP"} = Separators(scanned)
      BY <1>0 DEF Separators
    <2>. QED  BY <2>1, <2>2, <2>3, <2>4, <2>5, CountsAlike
  <1>3. ASSUME NEW l \in 2 .. Len(scanned), scanned[l].kind # "CP", scanned[l - 1].kind = "CP"
        PROVE  scanned[l].place =
                 IF scanned[l - 1].value = "\n"
                 THEN <<scanned[l - 1].place[1] + 1, 0>>
                 ELSE <<scanned[l - 1].place[1], scanned[l - 1].place[2] + 1>>
    BY <1>3 DEF ScanKept, EndsFollow, EndPlaceAfter
  <1>. QED  BY <1>1, <1>2, <1>3 DEF EndsInPlace, Scan!EndsInPlace

LEMMA ScanIsKept == Spec => [](ScanTyped /\ ScanKept)
  <1>1. Init => ScanKept
    BY ScanKeptInit DEF Init
  <1>2. WordsTyped /\ WordsTyped' /\ ScanKept /\ [Next]_vars => ScanKept'
    BY ScanKeptStep DEF WordsTyped
  <1>3. WordsTyped => ScanTyped
    BY DEF WordsTyped
  <1>. QED  BY WordsAreTyped, <1>1, <1>2, <1>3, PTL DEF Spec

\* The tokens of the scan are the texts of the files, composed, in the order of
\* the files and of their lines, each with its line and its place, however the
\* lines are cut and wherever reading fails.
THEOREM ScansInOrder == Spec => []ScannedInOrder
  <1>1. ScanTyped /\ ScanKept => ScannedInOrder
    BY ScannedInOrderHolds
  <1>. QED  BY ScanIsKept, <1>1, PTL

\* One end of all files, at the end, and one between each two of them, each where
\* its file ends.
THEOREM EndsStayInPlace == Spec => []EndsInPlace
  <1>1. ScanTyped /\ ScanKept => EndsInPlace
    BY EndsInPlaceHolds
  <1>. QED  BY ScanIsKept, <1>1, PTL
===============================================================================
