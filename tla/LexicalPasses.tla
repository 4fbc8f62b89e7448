----------------------------- MODULE LexicalPasses -----------------------------
(***************************************************************************)
(* The passes that turn code points into words: the plugins of src/plugins *)
(* up to 100-remove_spaces.c, each run by do_pratt_pass over the tokens of *)
(* the pass before.  A step is one pratt_parse: no token has a left        *)
(* denotation in these passes, so it is one call of a null denotation, and *)
(* looking at the next token changes nothing.                              *)
(*                                                                         *)
(* A token's value is a sequence of code points; Unicode's properties are  *)
(* given as sets.  The tokens come from files, where the last one, the EOF *)
(* token, may be got again and again.                                      *)
(***************************************************************************)
EXTENDS StringLiteral

CONSTANTS
    CodePoints,
    Digits, Connectors, IdStarts, IdContinues, WhiteSpaces, MathSymbols,
    Keywords            \* the values that are keywords

\* Unicode: an identifier starts with a letter, and goes on with letters,
\* digits and others; a connector (Pc) is neither a letter nor a digit.
ASSUME CharactersAssumption ==
    /\ {"E", "O", "F", "\f"} \subseteq CodePoints
    /\ Digits \subseteq IdContinues
    /\ IdStarts \subseteq IdContinues
    /\ Connectors \cap (Digits \cup IdStarts) = {}
    /\ "E" \notin Digits
    /\ Quote \notin Digits \cup IdStarts

VARIABLES
    pass,               \* the pass that is running; 0 before the first
    input,              \* what its getter still holds
    output,             \* the tokens it has put
    before,             \* all that it was given
    outcome             \* of the passes: running, or how they have failed

passesVars == <<pass, input, output, before, outcome>>

-------------------------------------------------------------------------------
\* Tokens.

Tokens(kind, value) == [kind |-> kind, value |-> value]

Eof == Tokens("EOF", <<"E", "O", "F">>)

Text(tokens) == FlattenSeq([i \in DOMAIN tokens |-> tokens[i].value])

\* token_is_...: a token of one code point, of a set.
Is(set, tok) == Len(tok.value) = 1 /\ tok.value[1] \in set

\* The passes in the order of their names, by filevercmp.
Integer == 1
Identifier == 2
String == 3
Symbol == 4
WhiteSpace == 5
WithPoint == 6
Rational == 7
Floating == 8
Keyword == 9
DumpTokens == 10
RemoveSpaces == 11

Passes == Integer .. RemoveSpaces

Running == pass \in Passes /\ outcome = "running"

tok == Head(input)

\* look_at_token: the last token stays.
LookAt(i) == input[IF i + 2 <= Len(input) THEN i + 2 ELSE Len(input)]

\* The getter after n tokens have been got.
Rest(n) == IF n < Len(input) THEN SubSeq(input, n + 1, Len(input))
                             ELSE <<Last(input)>>

\* Mutant: the EOF token is put in the loop, and again after it.
PutLastTwice(lhs, n) ==
    /\ IF lhs = Eof
         THEN /\ pass' = pass + 1
              /\ input' = output \o <<lhs, lhs>>
              /\ before' = input'
              /\ output' = <<>>
         ELSE /\ input' = Rest(n)
              /\ output' = Append(output, lhs)
              /\ UNCHANGED <<pass, before>>
    /\ UNCHANGED outcome

\* do_pratt_pass puts what it gets, up to the EOF token; the next pass
\* gets what this one has put.
Put(lhs, n) ==
    /\ IF lhs = Eof
         THEN /\ pass' = pass + 1
              /\ input' = Append(output, lhs)
              /\ before' = input'
              /\ output' = <<>>
         ELSE /\ input' = Rest(n)
              /\ output' = Append(output, lhs)
              /\ UNCHANGED <<pass, before>>
    /\ UNCHANGED outcome

\* A token made of the next n.
PutJoined(kind, n) ==
    Put(Tokens(kind, Text([i \in 1 .. n |-> LookAt(i - 2)])), n)

-------------------------------------------------------------------------------
\* Runs of code points.

\* Mutant: connectors may be strung together.
JoinedAnyhow(continues, run) ==
    \A i \in DOMAIN run : Is(continues \cup Connectors, run[i])

\* Mutant: a connector ends a number or an identifier.
JoinedPlain(continues, run) ==
    \A i \in DOMAIN run : Is(continues \ Connectors, run[i])

\* Each connector of the run stands before one that continues it.
Joined(continues, run) ==
    \A i \in DOMAIN run :
       \/ Is(continues \ Connectors, run[i])
       \/ /\ Is(Connectors, run[i])
          /\ i < Len(run) /\ Is(continues \ Connectors, run[i + 1])

\* How long a token is, the longest run of what may continue it included.
RunLength(continues) ==
    Max({n \in DOMAIN input : Joined(continues, SubSeq(input, 2, n))})

StartsInteger == pass = Integer /\ tok.kind = "CP" /\ Is(Digits, tok)

ScanInteger == Running /\ StartsInteger /\ PutJoined("I10", RunLength(Digits))

StartsIdentifier ==
    pass = Identifier /\ tok.kind = "CP" /\ Is(IdStarts, tok)

ScanIdentifier ==
    Running /\ StartsIdentifier /\ PutJoined("ID", RunLength(IdContinues))

\* '-', '*', '/', '.', ':', '|', and mathematical symbols.
SymbolParts == {"-", "*", "/", ".", ":", "|"} \cup MathSymbols

StartsSymbol == pass = Symbol /\ tok.kind = "CP" /\ Is(SymbolParts, tok)

\* Mutant: a symbol ends at its first part.
SymbolLengthOne == 1

SymbolLength ==
    Max({n \in DOMAIN input : \A i \in 1 .. n : Is(SymbolParts, input[i])})

ScanSymbol == Running /\ StartsSymbol /\ PutJoined("SY", SymbolLength)

-------------------------------------------------------------------------------
\* Strings, white space and comments.

StartsString == pass = String /\ tok.kind = "CP" /\ tok.value = <<Quote>>

\* The text ahead, and where tokens of several code points begin in it.
Ahead == Text(Front(input))

Start(k) == Len(Text(SubSeq(input, 1, k - 1))) + 1

Groups == {Start(k) : k \in {l \in 1 .. Len(input) - 1 : Len(input[l].value) > 1}}

StringEnd == Closing(Ahead, Groups)

\* Tokens within the string are taken apart, and their text is the string's.
ScanString ==
    /\ Running /\ StartsString /\ StringEnd[1] # Failed
    /\ \E n \in DOMAIN input :
          Start(n) = StringEnd[1] /\ PutJoined("STR", n)

\* The string is open or an escape is wrong; the error ends the compilation.
\* After an escape that is none, scan_escape goes on with a string that it has
\* not been given.
RejectString ==
    /\ Running /\ StartsString /\ StringEnd[1] = Failed
    /\ \/ outcome' = "error"
       \/ /\ StringEnd[2] < Len(Ahead)
          /\ At(Ahead, StringEnd[2]) = Backslash
          /\ ~IsEscape(At(Ahead, StringEnd[2] + 1))
          /\ outcome' = "crash"
    /\ UNCHANGED <<pass, input, output, before>>

IsWhite == pass = WhiteSpace /\ tok.kind = "CP" /\ Is(WhiteSpaces, tok)

TakeWhite == Running /\ IsWhite /\ Put([tok EXCEPT !.kind = "SP"], 1)

StartsComment == pass = WhiteSpace /\ tok.kind = "CP" /\ tok.value = <<"%">>

\* The last token of a comment: the end of a line, or a token that is not
\* of one code point.
CommentEnds(t) == Len(t.value) # 1 \/ t.value = <<"\n">>

ScanComment ==
    /\ Running /\ StartsComment
    /\ PutJoined("CO", Min({n \in 2 .. Len(input) + 1 : CommentEnds(LookAt(n - 2))}))

IsSpace(t) == t.kind \in {"SP", "FSEP", "CO"}

\* How many spaces there are before the next token.
Spaces == Min({n \in 0 .. Len(input) - 1 : ~IsSpace(input[n + 1])})

\* The handler goes on with the token after the run.
SkipSpaces ==
    Running /\ pass = RemoveSpaces /\ Put(LookAt(Spaces - 1), Spaces + 1)

-------------------------------------------------------------------------------
\* Numbers, words.

Slashes == {<<"/">>, <<"division slash">>, <<"fraction slash">>}

ExponentStarts ==
    {<<a>> : a \in {"^", "up"}}
      \cup {<<a, s>> : a \in {"^", "up"}, s \in {"+", "-", "minus"}}

\* A token of the kind, one of the values, and an integer.
Three(kind, values) ==
    tok.kind = kind /\ LookAt(0).value \in values /\ LookAt(1).kind = "I10"

HasPoint == pass = WithPoint /\ Three("I10", {<<".">>})

ScanWithPoint == Running /\ HasPoint /\ PutJoined("I.I10", 3)

HasSlash == pass = Rational /\ Three("I10", Slashes)

ScanRational == Running /\ HasSlash /\ PutJoined("R10", 3)

HasExponent == pass = Floating /\ Three("I.I10", ExponentStarts)

\* Mutant: the exponent is looked at and left.
ScanFloatingShort ==
    /\ Running /\ HasExponent
    /\ Put(Tokens("F10", Text([i \in 1 .. 3 |-> LookAt(i - 2)])), 2)

ScanFloating == Running /\ HasExponent /\ PutJoined("F10", 3)

IsKeyword ==
    /\ pass = Keyword /\ tok.kind \in {"CP", "SY", "ID"}
    /\ tok.value \in Keywords

MarkKeyword == Running /\ IsKeyword /\ Put([tok EXCEPT !.kind = "KW"], 1)

\* The default handler, after the token has been shown in its pass.
PassThrough ==
    /\ Running /\ pass # RemoveSpaces
    /\ ~(\/ StartsInteger \/ StartsIdentifier \/ StartsSymbol \/ StartsString
         \/ IsWhite \/ StartsComment \/ HasPoint \/ HasSlash \/ HasExponent
         \/ IsKeyword)
    /\ Put(tok, 1)

-------------------------------------------------------------------------------

PassesInit ==
    /\ pass = 0
    /\ input = <<>> /\ before = <<>> /\ output = <<>>
    /\ outcome = "running"

\* The first of the passes is given the tokens of the scan.
StartPasses(tokens) ==
    /\ pass = 0
    /\ pass' = Integer
    /\ input' = tokens
    /\ before' = tokens
    /\ UNCHANGED <<output, outcome>>

NextParse ==
    \/ ScanInteger \/ ScanIdentifier \/ ScanSymbol \/ ScanString \/ RejectString
    \/ TakeWhite \/ ScanComment \/ SkipSpaces
    \/ ScanWithPoint \/ ScanRational \/ ScanFloating \/ MarkKeyword
    \/ PassThrough

-------------------------------------------------------------------------------
\* Properties.

Kinds == {"EOF", "CP", "FSEP", "I10", "ID", "STR", "SY", "SP", "CO", "I.I10",
          "R10", "F10", "KW"}

Now == output \o input

\* The EOF token is the last token that a pass is given and the last it puts,
\* and there is no other, even where a comment has run into it.
EndsOnce ==
    \A i \in DOMAIN Now : Now[i] = Eof <=> i = Len(Now)

\* The tokens that are not spaces.
WordsOf(tokens) ==
    FlattenSeq([i \in DOMAIN tokens |->
                  IF IsSpace(tokens[i]) THEN <<>> ELSE <<tokens[i]>>])

\* No pass but the one that removes spaces changes the text: a comment that
\* runs into the end of the input adds the value of the EOF token to it, and
\* nothing else is lost, changed or put twice.  The pass that removes spaces
\* keeps all other tokens in order.
NothingLost ==
    IF pass = RemoveSpaces
      THEN WordsOf(output) \o WordsOf(input) = WordsOf(before)
      ELSE \/ Text(Now) = Text(before)
           \/ /\ output # <<>> /\ Last(output).kind = "CO" /\ input = <<Eof>>
              /\ Text(Now) = Text(before) \o Eof.value

\* Digits or letters with single connectors between them.
Spaced(v, starts, continues) ==
    /\ v[1] \in starts
    /\ \A i \in DOMAIN v : v[i] \in continues \cup Connectors
    /\ Last(v) \notin Connectors
    /\ \A i \in 1 .. Len(v) - 1 : ~(v[i] \in Connectors /\ v[i + 1] \in Connectors)

IsInteger(v) == v # <<>> /\ Spaced(v, Digits, Digits)

\* The value is one that the first of them accepts, a value between, and an
\* integer.
Parts(v, first(_), middles) ==
    \E i, j \in DOMAIN v :
       /\ i < j
       /\ first(SubSeq(v, 1, i - 1))
       /\ SubSeq(v, i, j - 1) \in middles
       /\ IsInteger(SubSeq(v, j, Len(v)))

IsWithPoint(v) == Parts(v, IsInteger, {<<".">>})

\* How many backslashes there are right before a place.
Backslashes(v, i) == i - 1 - Max({j \in 0 .. i - 1 : j = 0 \/ v[j] # Backslash})

\* Quotes at both ends, and no other but after a backslash that is none itself.
IsQuoted(v) ==
    /\ Len(v) > 1
    /\ {i \in DOMAIN v : v[i] = Quote /\ Backslashes(v, i) % 2 = 0} = {1, Len(v)}

\* The value of a token is a word of its kind.
Fits(t) ==
    LET v == t.value IN
       CASE t.kind = "I10" -> IsInteger(v)
         [] t.kind = "ID" -> Spaced(v, IdStarts, IdContinues)
         [] t.kind = "I.I10" -> IsWithPoint(v)
         [] t.kind = "R10" -> Parts(v, IsInteger, Slashes)
         [] t.kind = "F10" -> Parts(v, IsWithPoint, ExponentStarts)
         [] t.kind = "SY" -> ToSet(v) \subseteq SymbolParts
         [] t.kind = "SP" -> Is(WhiteSpaces, t)
         [] t.kind = "KW" -> v \in Keywords
         [] t.kind = "STR" -> IsQuoted(v)
         [] t.kind = "CO" -> v[1] = "%" /\ Len(v) > 1
         [] t.kind \in {"CP", "FSEP"} -> Len(v) = 1
         [] OTHER -> t = Eof

\* All tokens are words of their kinds, whatever passes they have gone through.
KindsFit == \A t \in ToSet(Now) : Fits(t)

\* Numbers and symbols are as long as they can be: what follows one does not
\* continue it, and no token that a pass has put is one that it would have joined
\* with those after it.
LongestWords ==
    pass < RemoveSpaces =>
       \A i \in 1 .. Len(Now) - 1 :
          LET next == Now[i + 1]
              third == Now[IF i + 2 <= Len(Now) THEN i + 2 ELSE i + 1]
              kind == Now[i].kind
          IN  /\ kind = "I10" =>
                   /\ next.kind # "I10" /\ ~Is(Digits, next)
                   /\ ~(Is(Connectors, next) /\ third.value[1] \in Digits)
              /\ kind = "SY" => ~Is(SymbolParts, next)
              /\ i <= Len(output) =>
                   /\ pass = WithPoint /\ kind = "I10" =>
                         ~(next.value = <<".">> /\ third.kind = "I10")
                   /\ pass = Rational /\ kind = "I10" =>
                         ~(next.value \in Slashes /\ third.kind = "I10")
                   /\ pass = Floating /\ kind = "I.I10" =>
                         ~(next.value \in ExponentStarts /\ third.kind = "I10")
                   /\ pass = Keyword =>
                         ~(kind \in {"CP", "SY", "ID"} /\ Now[i].value \in Keywords)

\* The next token, and the one after it where the next is a connector.
After(i) ==
    {Now[i + 1]} \cup
       IF Is(Connectors, Now[i + 1]) /\ i + 2 <= Len(Now) THEN {Now[i + 2]} ELSE {}

ContinuesId(t) == t # Eof /\ t.value[1] \in IdContinues \ Connectors

\* 40-identifier.c: "Identifiers are Unicode ID_START followed by Unicode
\* ID_CONTINUE", with single connectors between: none stops before its end.
IdentifiersWhole ==
    pass < RemoveSpaces =>
       \A i \in 1 .. Len(Now) - 1 :
          Now[i].kind = "ID" => \A t \in After(i) : ~ContinuesId(t)

\* Nothing but an integer of several digits, which 30-decimal_integer.c has made
\* one token, is cut off from the identifier before it, in any pass.
OnlyIntegersCutOff ==
    pass < RemoveSpaces =>
       \A i \in 1 .. Len(Now) - 1 :
          Now[i].kind = "ID" =>
             \A t \in After(i) :
                ContinuesId(t) => Len(t.value) # 1 /\ t.value[1] \in Digits

\* check_string_literal.c asserts that a literal is scanned whether its code
\* points are one token or several: a literal that is rejected would be
\* rejected if each of its code points were a token.
EscapesAsWritten ==
    outcome # "running" => Closing(Ahead, {})[1] = Failed
===============================================================================
