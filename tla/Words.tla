--------------------------------- MODULE Words ---------------------------------
(***************************************************************************)
(* From source files to words: scan_source_files, and then the passes of   *)
(* LexicalPasses over what it has put, as do_pratt_passes of               *)
(* src/libhiha/token_processing.c calls them.  A token of the scan has one *)
(* code point, but for the last one.                                       *)
(***************************************************************************)
EXTENDS LexicalPasses

CONSTANTS
    CommandLines,       \* what the files of a command line may hold
    Mark, Composed,     \* marks, and the code points they are composed to
    MayFail             \* whether the files may be missing or unreadable

\* check_usage: there is a file.
ASSUME CommandLinesAssumption ==
    /\ CommandLines \subseteq Seq(Seq(CodePoints)) \ {<<>>}
    /\ Composed \in [DOMAIN Composed -> CodePoints]
    /\ MayFail \in BOOLEAN

\* Unicode: the end of a line is composed with nothing, and of nothing.
ASSUME LinesAssumption ==
    /\ "\n" \notin {Mark} \cup DOMAIN Composed
    /\ \A c \in DOMAIN Composed : Composed[c] # "\n"

VARIABLES
    files, i, getter,   \* the getter of source files
    scanned,            \* the tokens of the scan
    unread,             \* the files with an error on reading
    status              \* of the scan

Scan == INSTANCE SourceFiles WITH
            Newline <- "\n",
            output <- scanned,
            failed <- unread

scanVars == <<files, i, getter, scanned, unread, status>>

vars == <<passesVars, scanVars>>

-------------------------------------------------------------------------------

Init == Scan!Init /\ PassesInit

ScanStep == Scan!Next /\ UNCHANGED passesVars

\* A file that is not the last ends with a form feed.
Value(t) ==
    CASE t.kind = "CP" -> <<t.value>>
      [] t.kind = "FSEP" -> <<"\f">>
      [] t.kind = "EOF" -> Eof.value

StartFirst ==
    /\ status = "scanned"
    /\ StartPasses([k \in DOMAIN scanned |-> Tokens(scanned[k].kind, Value(scanned[k]))])
    /\ UNCHANGED scanVars

ParseStep == NextParse /\ UNCHANGED scanVars

Next == ScanStep \/ StartFirst \/ ParseStep

\* The compiler is one thread, which runs until it ends.
Spec == Init /\ [][Next]_vars /\ WF_vars(Next)

-------------------------------------------------------------------------------
\* Properties.

\* The tokens of each file are its text, in order, each at its line and place,
\* though lines are read and composed one by one.
ScannedInOrder == Scan!ScannedInOrder

\* The ends of the files are where the files end, one for each.
EndsInPlace == Scan!EndsInPlace

\* The scan and each of the passes come to their end, unless one of them ends
\* the compilation with an error.
PassesEnd == <>(status \in {"error", "exited"} \/ outcome # "running" \/ pass > RemoveSpaces)
===============================================================================
