-------------------------------- MODULE Plugins --------------------------------
(***************************************************************************)
(* The plugins of src/plugins: what the plugin_init of each puts into the  *)
(* tables of which pass, and the kinds of token that the pass makes.       *)
(*                                                                         *)
(* A file of a plugin is told by the directory it is in and the number its *)
(* name begins with.  Files of two directories may hold the same plugin:   *)
(* each then has its own variables and its own handlers.                   *)
(***************************************************************************)
EXTENDS Naturals, Sequences

\* The names of the passes: the numbers they begin with, and where the text
\* after them is among those of the same number.
Name(number, part, text) == [number |-> number, part |-> part, text |-> text]

ScanDecimalIntegers == Name(100, 0, 1)
ScanIdentifiers == Name(100, 0, 2)
ScanStringLiterals == Name(100, 0, 3)
ScanSymbols == Name(100, 0, 4)
ScanWhiteSpace == Name(100, 0, 5)
ScanWithPoint == Name(200, 0, 1)
ScanExactRationals == Name(200, 0, 2)
ScanFloating == Name(300, 0, 1)
MarkKeywords == Name(500, 0, 1)
DumpTokens == Name(1000, 0, 1)
RemoveSpaces == Name(1500, 0, 1)
NonJuxtaposition == Name(2000, 100, 1)
ParseTree == Name(2000, 200, 1)
DumpParse == Name(2500, 0, 1)

Names == {ScanDecimalIntegers, ScanIdentifiers, ScanStringLiterals,
          ScanSymbols, ScanWhiteSpace, ScanWithPoint, ScanExactRationals,
          ScanFloating, MarkKeywords, DumpTokens, RemoveSpaces,
          NonJuxtaposition, ParseTree, DumpParse}

\* Mutant: names are compared as text, so that 1000 comes before 500.
BeforeAsText(p, q) ==
    LET text == <<ScanDecimalIntegers, ScanIdentifiers, ScanStringLiterals,
                  ScanSymbols, ScanWhiteSpace, DumpTokens, RemoveSpaces,
                  ScanWithPoint, ScanExactRationals, NonJuxtaposition,
                  ParseTree, DumpParse, ScanFloating, MarkKeywords>>
    IN  \E m, n \in DOMAIN text : text[m] = p /\ text[n] = q /\ m < n

\* filevercmp, on such names: digits are compared as the numbers they are.
Before(p, q) ==
    \/ p.number < q.number
    \/ p.number = q.number /\ p.part < q.part
    \/ p.number = q.number /\ p.part = q.part /\ p.text < q.text

-------------------------------------------------------------------------------
\* Entries.  A handler and a variable are named with the file they are of.

File(directory, n) == [directory |-> directory, number |-> n]

NoFile == File("none", 0)
Nothing == <<NoFile, "none">>

Default == "nud_default"

Replace(file, pass, slot, handler) ==
    [pass |-> pass, slot |-> slot, handler |-> <<file, handler>>,
     saves |-> Nothing]

\* The handler that is there is saved first.
Hook(file, pass, slot, handler, variable) ==
    [Replace(file, pass, slot, handler) EXCEPT !.saves = <<file, variable>>]

\* The plugins of each number.

String(f) ==
    <<Hook(f, ScanStringLiterals, "CP", "cp_handler", "next_cp_handler")>>

WhiteSpace(f) ==
    <<Hook(f, ScanWhiteSpace, "CP", "cp_handler", "next_cp_handler")>>

DecimalInteger(f) ==
    <<Hook(f, ScanDecimalIntegers, "CP", "cp_handler", "next_cp_handler")>>

Identifier(f) ==
    <<Hook(f, ScanIdentifiers, "CP", "cp_handler", "next_cp_handler")>>

DecimalFloat(f) ==
    <<Hook(f, ScanWithPoint, "I10", "i10_handler", "next_i10_handler"),
      Hook(f, ScanFloating, "I.I10", "i_i10_handler", "next_i_i10_handler")>>

DecimalFraction(f) ==
    <<Hook(f, ScanExactRationals, "I10", "i10_handler", "next_i10_handler")>>

Symbol(f) ==
    <<Hook(f, ScanSymbols, "CP", "cp_handler", "next_cp_handler")>>

Keyword(f) ==
    <<Hook(f, MarkKeywords, "CP", "cp_handler", "next_cp_handler"),
      Hook(f, MarkKeywords, "SY", "sy_handler", "next_sy_handler"),
      Hook(f, MarkKeywords, "ID", "id_handler", "next_id_handler")>>

\* Both passes save into one variable.
DumpTokensPlugin(f) ==
    <<Hook(f, DumpTokens, Default, "dump_token_handler", "next_handler"),
      Hook(f, DumpParse, Default, "dump_parse_handler", "next_handler")>>

RemoveSpacesPlugin(f) ==
    <<Hook(f, RemoveSpaces, Default, "handler", "next_handler")>>

ParseTreePlugin(f) ==
    <<Hook(f, NonJuxtaposition, "KW", "kw_handler_100", "next_kw_handler_100"),
      Replace(f, ParseTree, Default, "default_handler"),
      Replace(f, ParseTree, "EOF", "passthrough_handler"),
      Replace(f, ParseTree, "KW", "kw_handler_200"),
      Replace(f, ParseTree, "I10", "reference_handler"),
      Replace(f, ParseTree, "led_NJUX", "njux_handler"),
      Replace(f, ParseTree, "lbp_NJUX", "njux_binding_power")>>

\* plugin_init, and nothing where a library has none.
PluginInitOf(f) ==
    CASE f.number = 10 -> String(f)
      [] f.number = 20 -> WhiteSpace(f)
      [] f.number = 30 -> DecimalInteger(f)
      [] f.number = 40 -> Identifier(f)
      [] f.number = 50 -> DecimalFloat(f)
      [] f.number = 60 -> DecimalFraction(f)
      [] f.number = 70 -> Symbol(f)
      [] f.number = 80 -> Keyword(f)
      [] f.number = 90 -> DumpTokensPlugin(f)
      [] f.number = 100 -> RemoveSpacesPlugin(f)
      [] f.number = 110 -> ParseTreePlugin(f)
      [] OTHER -> <<>>

\* The handlers that always pass their token on, the dumps and the one that
\* removes spaces, and those that have none to pass it on to.
OnlyPassesOn(handler) ==
    handler[2] \in {"dump_token_handler", "dump_parse_handler", "handler"}

-------------------------------------------------------------------------------

\* The kinds of token that the handlers of a pass make.
Makes(pass) ==
    CASE pass = ScanStringLiterals -> {"STR"}
      [] pass = ScanWhiteSpace -> {"SP", "CO"}
      [] pass = ScanDecimalIntegers -> {"I10"}
      [] pass = ScanIdentifiers -> {"ID"}
      [] pass = ScanSymbols -> {"SY"}
      [] pass = ScanWithPoint -> {"I.I10"}
      [] pass = ScanFloating -> {"F10"}
      [] pass = ScanExactRationals -> {"R10"}
      [] pass = MarkKeywords -> {"KW"}
      [] pass = NonJuxtaposition -> {"NJUX"}
      [] pass = ParseTree -> {"SEQ", "BEGIN", "WHILE", "IF"}
      [] OTHER -> {}
===============================================================================
