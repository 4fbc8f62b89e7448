----------------------------- MODULE StringLiteral -----------------------------
(***************************************************************************)
(* How far a string literal goes: scan_string_literal of                   *)
(* src/libhiha/string_literal.c, over the code points text of the tokens   *)
(* ahead.  The scanner takes a token of several code points apart when it  *)
(* first looks at it, but that look still sees the whole token; groups are *)
(* the places in text where such a token begins.                           *)
(*                                                                         *)
(* An operator takes the place of what is next and gives the place after   *)
(* what is scanned, Failed where there is an error.                        *)
(***************************************************************************)
EXTENDS Naturals, SequencesExt

CONSTANTS
    HexValue,           \* the value of each hexadecimal digit
    Blanks              \* space separators and the tab

Failed == 0

HexDigits == DOMAIN HexValue

Quote == "\""

Backslash == "\\"

ASSUME LiteralAssumption ==
    (HexDigits \cup Blanks) \cap {"EOF", Quote, Backslash} = {}

\* What is at a place, the end of the input included.
At(text, i) == IF i <= Len(text) THEN text[i] ELSE "EOF"

\* The look at a place sees one hexadecimal digit.
SeesHexDigit(text, groups, i) == i \notin groups /\ At(text, i) \in HexDigits

-------------------------------------------------------------------------------
\* Numbers.

\* sscanf ("%x"), for numbers that do not overflow.
Number(digits) == FoldLeft(LAMBDA n, d : 16 * n + HexValue[d], 0, digits)

HighSurrogates == 55296 .. 56319
LowSurrogates == 56320 .. 57343

\* u32_check
IsCodePoint(n) == n < 1114112 /\ n \notin HighSurrogates \cup LowSurrogates

\* escape_x: digits up to a semicolon.
EscapeX(text, groups, i) ==
    LET end == Min({j \in i .. Len(text) + 1 : ~SeesHexDigit(text, groups, j)})
    IN  IF At(text, end) = ";" /\ end > i /\ IsCodePoint(Number(SubSeq(text, i, end - 1)))
        THEN end + 1 ELSE Failed

\* four_digit_hex: each digit but the first has been looked at before.
IsCodeUnit(text, groups, i) ==
    /\ SeesHexDigit(text, groups, i)
    /\ \A j \in i + 1 .. i + 3 : At(text, j) \in HexDigits

CodeUnit(text, i) == Number(SubSeq(text, i, i + 3))

\* backslash_u and the second half of a pair
EndsPair(text, groups, i) ==
    /\ At(text, i) = Backslash
    /\ At(text, i + 1) = "u" /\ i + 1 \notin groups
    /\ IsCodeUnit(text, groups, i + 2)
    /\ CodeUnit(text, i + 2) \in LowSurrogates

\* escape_u: JSON's UTF-16.
EscapeU(text, groups, i) ==
    IF ~IsCodeUnit(text, groups, i) \/ CodeUnit(text, i) \in LowSurrogates THEN Failed
    ELSE IF CodeUnit(text, i) \notin HighSurrogates THEN i + 4
    ELSE IF EndsPair(text, groups, i + 4) THEN i + 10 ELSE Failed

-------------------------------------------------------------------------------
\* Portions.

SkipBlanks(text, i) == Min({j \in i .. Len(text) + 1 : At(text, j) \notin Blanks})

\* escape_blank: blanks, the end of the line and blanks again.
EscapeBlank(text, i) ==
    LET end == SkipBlanks(text, i)
    IN  IF At(text, end) = "\n" THEN SkipBlanks(text, end + 1) ELSE Failed

SimpleEscapes == {Quote, Backslash, "|", "a", "b", "t", "n", "r", "v", "f"}

\* What a backslash may stand before.
IsEscape(c) == c \in {"x", "u", "\n"} \cup Blanks \cup SimpleEscapes

\* scan_escape, after the backslash; whatever else a letter's token holds, its
\* first code point is seen.
Escape(text, groups, i) ==
    LET c == At(text, i) IN
    CASE c = "x" -> EscapeX(text, groups, i + 1)
      [] c = "u" -> EscapeU(text, groups, i + 1)
      [] c = "\n" -> SkipBlanks(text, i + 1)
      [] c \in Blanks -> EscapeBlank(text, i)
      [] c \in SimpleEscapes -> i + 1
      [] OTHER -> Failed

\* scan_string_literal: the place of the quote that closes the literal opened
\* at place 1, or Failed, and where scanning has got to.
Closing(text, groups) ==
    LET from[i \in 2 .. Len(text) + 1] ==
          CASE At(text, i) = "EOF" -> <<Failed, i>>
            [] At(text, i) = Quote -> <<i, i>>
            [] At(text, i) = Backslash ->
                 LET after == Escape(text, groups, i + 1)
                 IN  IF after = Failed THEN <<Failed, i>> ELSE from[after]
            [] OTHER -> from[i + 1]
    IN  from[2]
===============================================================================
