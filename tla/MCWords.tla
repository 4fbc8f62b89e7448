-------------------------------- MODULE MCWords --------------------------------
(***************************************************************************)
(* Words for TLC: every file of up to three code points of all the classes, *)
(* longer ones of the classes that make up one sort of word, and pairs of  *)
(* short ones with ends of lines, comments and marks to compose.           *)
(***************************************************************************)
EXTENDS Words

Texts(alphabet, n) == UNION {[1 .. k -> alphabet] : k \in 0 .. n}

MCFiles ==
    Texts({"1", "x", "_", " ", "\n", "%", ".", "/", "^", ";", "\""}, 3)
      \cup Texts({"1", ".", "^"}, 5) \cup Texts({"1", ".", "/", "_"}, 4)
      \cup Texts({"1", "x", "_"}, 5) \cup Texts({"x", "mark", "\n"}, 3)
      \cup {<<"1", ".", "1", "^", "-", "1">>, <<"1", "/", "1", ".", "1">>,
            <<"x", "mark", "\n", "x", "mark", "x">>,
            <<"\n", "mark", "x", "mark", "mark", "\n">>}

\* String literals, closed or not.
MCStrings ==
    {<<"\"">> \o s \o <<"\"">> : s \in
        Texts({"\\", "x", "1", ";", "\""}, 4)
          \cup Texts({"\\", " ", "\n", "x"}, 4)
          \cup {<<"\\", "u">> \o s \o t :
                  s \in {<<"0", "0", "1", "1">>, <<"1", "d", "1">>,
                        <<"d", "8", "0", "0">>, <<"d", "c", "1", "1">>},
                  t \in {<<>>, <<"\\", "u", "d", "c", "0", "0">>,
                        <<"\\", "u", "d", "c", "d", "8">>, <<"\\", "n", "d">>,
                        <<"\\", "u", "d", "8", "0", "0">>}}
          \cup {<<"\\", "x", "d", "8", "0", "0", ";">>,
                <<"\\", "x", "d", "8", "0", "0", "d", ";">>}}

MCCommandLines ==
    {<<file>> : file \in MCFiles \cup MCStrings}
      \cup Texts({"x", "%", "\n"}, 2) \X Texts({"x", "1", "\n"}, 2)
      \cup Texts({"x", "mark", "\""}, 2) \X Texts({"mark", "\"", "\n"}, 2)

MCCodePoints ==
    {"0", "1", "8", "_", "x", "u", "n", "c", "d", "E", "O", "F", ".", "/", "^",
     "-", "+", ";", "%", "\"", "\\", " ", "\n", "\f", "mark", "x with mark"}

MCComposed == [c \in {"x"} |-> "x with mark"]

MCHexValue ==
    [c \in {"0", "1", "8", "c", "d"} |->
        CASE c = "0" -> 0 [] c = "1" -> 1 [] c = "8" -> 8 [] c = "c" -> 12 [] c = "d" -> 13]

MCWhiteSpaces == {" ", "\n", "\f"}

MCKeywords == {<<";">>, <<"x", "x">>, <<"/", ".">>}
===============================================================================
