-------------------------------- MODULE MCTokens --------------------------------
(***************************************************************************)
(* The way of tokens from files to a parser, for TLC: what one pass leaves *)
(* in files for the next (TokenFiles), the getter with a buffer over such  *)
(* files (BufferedGetter), and pratt_parse over such a getter              *)
(* (PrattParse).  A behaviour is that of one of the three.                 *)
(*                                                                         *)
(* The files: four texts over code points of one byte, of two bytes and of *)
(* no encoding, among them the empty text and one that is spelt like a     *)
(* file name; tokens with and without file name and extension that share   *)
(* their texts.                                                            *)
(*                                                                         *)
(* The getter: two tokens and the end of the input, an input with a bad    *)
(* record between two tokens, a string of two code points.                 *)
(*                                                                         *)
(* The parser: operators that group to the left and to the right, one that *)
(* binds more to its left than it holds to its right, a prefix that is an  *)
(* infix too, a postfix, and a token with a power but without a handler.   *)
(***************************************************************************)
EXTENDS TokenFiles, BufferedGetter, PrattParse, TLC

CONSTANTS none, a, b

VARIABLE part           \* whose behaviour it is

partVars == <<part, fileVars, getterVars, parseVars>>

MCTexts == {<<>>, <<1>>, <<2, 1>>, <<9>>}
MCUtf8 == (<<>> :> <<>>) @@ (<<1>> :> <<1>>) @@ (<<2, 1>> :> <<2, 3, 1>>)

MCToken(filename, place, kind, value, extension) ==
    [filename |-> filename, place |-> place, kind |-> kind, value |-> value,
     extension |-> extension]

MCFileTokens ==
    {MCToken(<<1>>, <<1, 1>>, <<1>>, <<2, 1>>, none),
     MCToken(<<1>>, <<1, 2>>, <<2, 1>>, <<>>, <<0, 7, 0>>),
     MCToken(<<2, 1>>, <<1, 1>>, <<1>>, <<1>>, <<0, 7, 1, 7>>),
     MCToken(none, <<2, 0>>, <<2, 1>>, <<2, 1>>, none),
     MCToken(<<1>>, <<2, 1>>, <<1>>, <<9>>, none),
     MCToken(none, <<2, 1>>, <<9>>, <<1>>, none)}

MCElements == {a, b, Eof}
MCInput == <<a, b, Bad, a>>
MCStrings == {<<>>, <<a, b>>}

\* Powers with seven decimal digits.
Power(n) == n * 10000000

MCKinds == {"1", "+", "^", "=", "!", ":"}
MCNudPower == [k \in {"+"} |-> Power(5)]
MCLbp == [k \in {"+", "^", "=", "!", ":"} |->
            CASE k = "+" -> Power(3) [] k = "^" -> Power(6) [] k = "=" -> Power(4)
              [] k = "!" -> Power(5) [] k = ":" -> Power(2)]
MCLedPower == [k \in {"+", "^", "="} |->
                 CASE k = "+" -> Power(3) [] k = "^" -> Power(6) - 1 [] k = "=" -> Power(1)]
MCMinimum == -Power(100)
MCPostfixes == {"!"}

\* Each part alone, the others at their beginning.
OnlyFiles == part = "files" /\ UNCHANGED <<part, getterVars, parseVars>>
OnlyGetter == part = "getter" /\ UNCHANGED <<part, fileVars, parseVars>>
OnlyParse == part = "parse" /\ UNCHANGED <<part, fileVars, getterVars>>

PartInit == FilesInit /\ Init /\ ParseInit /\ part \in {"files", "getter", "parse"}

PartNext ==
    \/ FilesNext /\ OnlyFiles
    \/ Next /\ OnlyGetter
    \/ ParseNext /\ OnlyParse

PartSpec ==
    PartInit /\ [][PartNext]_partVars /\ WF_partVars(InCall /\ OnlyGetter)
===============================================================================
