------------------------------ MODULE SourceFiles ------------------------------
(***************************************************************************)
(* How the source files become the tokens of the first pass: the getter    *)
(* for one file, which reads a line ahead, and the getter that plays files *)
(* in sequence, of src/libhiha/token_t.c, called by scan_tokens of         *)
(* src/libhiha/token_processing.c.  (The buffered getter between them      *)
(* hands on what it gets, as nothing is looked at ahead here.)             *)
(*                                                                         *)
(* A file is a sequence of characters.  A line is brought into its         *)
(* canonical form when it is read; Compose is what the Unicode library     *)
(* does to it: a character and the mark after it become one code point.    *)
(* getline may fail for want of more of the file or by an error.           *)
(*                                                                         *)
(* Words goes on with the tokens that are put here.                        *)
(***************************************************************************)
EXTENDS Integers, Sequences, FiniteSets, SequencesExt

CONSTANTS
    CommandLines,       \* what the files of a command line may hold
    Newline, Mark,      \* the end of a line, a mark that is composed
    Composed,           \* the code point of a letter and a mark, for some letters
    MayFail             \* whether the files may be missing or unreadable

VARIABLES
    files,              \* the files of the command line
    i,                  \* the getter's field: the file that is open
    getter,             \* the getter of that file
    output,             \* the tokens put
    failed,             \* the files with an error on reading
    status

vars == <<files, i, getter, output, failed, status>>

-------------------------------------------------------------------------------
\* Unicode.

\* One code point more.
ComposeWith(done, c) ==
    IF c = Mark /\ done # <<>> /\ Last(done) \in DOMAIN Composed
    THEN Append(Front(done), Composed[Last(done)])
    ELSE Append(done, c)

Compose(line) ==
    LET composed[n \in 0 .. Len(line)] ==
          IF n = 0 THEN <<>> ELSE ComposeWith(composed[n - 1], line[n])
    IN  composed[Len(line)]

-------------------------------------------------------------------------------
\* The getter of one file.

NoLine == <<>>

\* make_token_getter_from_source_file_t
NewGetter ==
    [offset |-> 0, sbuf |-> NoLine, line_no |-> 0, i_code_point |-> 0,
     eof_reached |-> FALSE]

\* getline: up to the first end of line from the place that has been reached.
LineAt(file, offset) ==
    LET ends == {k \in offset + 1 .. Len(file) : k = Len(file) \/ file[k] = Newline}
        last == CHOOSE k \in ends : \A l \in ends : k <= l
    IN  IF ends = {} THEN <<>> ELSE SubSeq(file, offset + 1, last)

\* fill_line_if_necessary: whether it does nothing, and what it does.
IsFilled(g) == g.eof_reached \/ g.i_code_point < Len(g.sbuf)

\* Mutant: the code points are counted on from line to line.
FillLineCountingOn(g, line) ==
    IF line = <<>> THEN [g EXCEPT !.eof_reached = TRUE]
    ELSE [g EXCEPT !.offset = g.offset + Len(line),
                   !.sbuf = g.sbuf \o Compose(line),
                   !.line_no = g.line_no + 1]

\* Mutant: the end of the file is not noted.
FillLineWithoutEnd(g, line) ==
    IF line = <<>> THEN g
    ELSE [g EXCEPT !.offset = g.offset + Len(line), !.sbuf = Compose(line),
                   !.line_no = g.line_no + 1, !.i_code_point = 0]

FillLine(g, line) ==
    IF line = <<>> THEN [g EXCEPT !.eof_reached = TRUE]
    ELSE [g EXCEPT !.offset = g.offset + Len(line), !.sbuf = Compose(line),
                   !.line_no = g.line_no + 1, !.i_code_point = 0]

Token(kind, value, file, line_no, code_point_no) ==
    [kind |-> kind, value |-> value, file |-> file, place |-> <<line_no, code_point_no>>]

\* get_token_from_source_file, of a getter that is filled.
CodePoint(g, file) ==
    Token("CP", g.sbuf[g.i_code_point + 1], file, g.line_no, g.i_code_point + 1)

AfterEndOfLine(g) == 0 < g.line_no /\ Last(g.sbuf) = Newline

\* Mutant: the end is always after the last code point.
EndAfterCodePoint(g) == <<g.line_no, g.i_code_point + 1>>

\* Where the file ends: at place 0 of a new line, or after the last code point.
EndPlace(g) ==
    IF AfterEndOfLine(g) THEN <<g.line_no + 1, 0>>
    ELSE <<g.line_no, g.i_code_point + 1>>

-------------------------------------------------------------------------------
\* The getter of several files.

Init ==
    /\ files \in CommandLines
    /\ i = 0
    /\ getter = NewGetter
    /\ output = <<>>
    /\ failed = {}
    /\ status = "scanning"

Exit == status' = "exited" /\ UNCHANGED <<files, i, getter, output, failed>>

\* open_one_of_multiple_files, and its exit when there is no such file
OpenFile(k) ==
    /\ i' = k
    /\ getter' = NewGetter
    /\ UNCHANGED <<files, failed, status>>

OpenFirst ==
    /\ status = "scanning" /\ i = 0
    /\ OpenFile(1)
    /\ UNCHANGED output

OpenFails ==
    /\ status = "scanning" /\ MayFail
    /\ i = 0 \/ (IsFilled(getter) /\ getter.eof_reached /\ i # Len(files))
    /\ Exit

\* fill_line_if_necessary, where a line is read or the end is reached
ReadLine ==
    /\ status = "scanning" /\ i # 0 /\ ~ IsFilled(getter)
    /\ getter' = FillLine(getter, LineAt(files[i], getter.offset))
    /\ UNCHANGED <<files, i, output, failed, status>>

\* the same where getline fails: that is taken for the end of the file
ReadFails ==
    /\ status = "scanning" /\ i # 0 /\ ~ IsFilled(getter) /\ MayFail
    /\ getter' = FillLine(getter, <<>>)
    /\ failed' = failed \cup {i}
    /\ UNCHANGED <<files, i, output, status>>

\* the exit of string_t_from_str_len for a line that cannot be decoded
DecodeFails ==
    /\ status = "scanning" /\ i # 0 /\ ~ IsFilled(getter) /\ MayFail
    /\ LineAt(files[i], getter.offset) # <<>>
    /\ Exit

\* scan_tokens ends when put_token has an error.
PutFails ==
    /\ status = "scanning" /\ i # 0 /\ IsFilled(getter) /\ MayFail
    /\ status' = "error"
    /\ UNCHANGED <<files, i, getter, output, failed>>

\* get_token_from_source_file and put_token of scan_tokens
ScanCodePoint ==
    /\ status = "scanning" /\ i # 0 /\ IsFilled(getter) /\ ~ getter.eof_reached
    /\ output' = Append(output, CodePoint(getter, i))
    /\ getter' = [getter EXCEPT !.i_code_point = getter.i_code_point + 1]
    /\ UNCHANGED <<files, i, failed, status>>

End(kind) == Token(kind, kind, i, EndPlace(getter)[1], EndPlace(getter)[2])

\* get_token_from_multiple_files_getter between two files
ScanSeparator ==
    /\ status = "scanning" /\ i \in 1 .. Len(files) - 1 /\ getter.eof_reached
    /\ output' = Append(output, End("FSEP"))
    /\ OpenFile(i + 1)

\* the same at the end of the last file; scan_tokens ends
ScanEnd ==
    /\ status = "scanning" /\ i = Len(files) /\ getter.eof_reached
    /\ output' = Append(output, End("EOF"))
    /\ status' = "scanned"
    /\ UNCHANGED <<files, i, getter, failed>>

Next ==
    \/ OpenFirst \/ OpenFails
    \/ ReadLine \/ ReadFails \/ DecodeFails
    \/ PutFails
    \/ ScanCodePoint \/ ScanSeparator \/ ScanEnd

-------------------------------------------------------------------------------

\* Where the k-th code point of a text is, counted from the text alone.
PlaceIn(text, k) ==
    LET ends == {l \in 1 .. k - 1 : text[l] = Newline}
        last == IF ends = {} THEN 0 ELSE CHOOSE l \in ends : \A m \in ends : m <= l
    IN  <<Cardinality(ends) + 1, k - last>>

\* The tokens of a file that is read to its end.
TokensOf(k) ==
    LET text == Compose(files[k])
    IN  [l \in 1 .. Len(text) |->
           [kind |-> "CP", value |-> text[l], file |-> k, place |-> PlaceIn(text, l)]]

ScannedOf(k) ==
    FlattenSeq([l \in DOMAIN output |->
                  IF output[l].file = k /\ output[l].kind = "CP" THEN <<output[l]>> ELSE <<>>])

\* The tokens of each file are its text, in the order of the files, each with
\* the line and the place in the line that it has there, though lines are
\* read and composed one by one; what is missing is missing at the end.
ScannedInOrder ==
    /\ \A k \in DOMAIN files : IsPrefix(ScannedOf(k), TokensOf(k))
    /\ \A k, l \in DOMAIN output : k < l => output[k].file <= output[l].file
    /\ \A k \in 1 .. i - 1 : k \notin failed => ScannedOf(k) = TokensOf(k)
    /\ status = "scanned" =>
         \A k \in DOMAIN files : k \notin failed => ScannedOf(k) = TokensOf(k)

\* There is one end, at the end, and one separator for each two files; each is
\* one place after what it follows, or at the beginning of a new line.
EndsInPlace ==
    /\ \A l \in DOMAIN output : output[l].kind = "EOF" => status = "scanned" /\ l = Len(output)
    /\ status = "scanned" =>
         /\ Last(output).kind = "EOF"
         /\ Cardinality({l \in DOMAIN output : output[l].kind = "FSEP"}) = Len(files) - 1
    /\ \A l \in 2 .. Len(output) :
         output[l].kind # "CP" /\ output[l - 1].kind = "CP" =>
           output[l].place =
             IF output[l - 1].value = Newline
             THEN <<output[l - 1].place[1] + 1, 0>>
             ELSE <<output[l - 1].place[1], output[l - 1].place[2] + 1>>

===============================================================================
