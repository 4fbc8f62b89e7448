------------------------------ MODULE TokenFiles ------------------------------
(***************************************************************************)
(* The files in which one pass leaves its tokens for the next: the token   *)
(* putter and getter of src/libhiha/token_t.c on top of the indexed data   *)
(* file of src/libhiha/indexed_data_file.c.                                *)
(*                                                                         *)
(* The file of tokens is a sequence of records of six numbers.  Texts and  *)
(* token extensions are entries of the indexed data file: a data file of   *)
(* cells, in which an entry is its length and then its bytes, and an index *)
(* file of the offsets at which the entries begin.  A record refers to an  *)
(* entry by its place in the index, and has -1 where there is none.        *)
(*                                                                         *)
(* An error of the file system ends the program (CHECK_FILE_ERROR), so it  *)
(* is not modelled; a text that has no UTF-8 encoding is an error of the   *)
(* call.                                                                   *)
(***************************************************************************)
EXTENDS Integers, Sequences

CONSTANTS
    Tokens,             \* records of filename, place, kind, value, extension
    Texts,              \* kinds and values of tokens
    Utf8,               \* the bytes of each text that has an encoding
    None,               \* no file name, or no extension
    NoToken,            \* NULL
    MaxTokens           \* bound: tokens put

\* A file name has no NUL in it, and ends at the one that is written after it.
ASSUME TokensAssumption ==
    /\ Tokens \subseteq [filename : Seq(Nat \ {0}) \cup {None}, place : Nat \X Nat,
                          kind : Texts, value : Texts,
                          extension : Seq(Nat) \cup {None}]
    /\ NoToken \notin Tokens

\* u32_to_u8 writes different texts as different bytes.
ASSUME Utf8Assumption ==
    /\ \A t \in DOMAIN Utf8 : Utf8[t] \in Seq(Nat)
    /\ \A t, u \in DOMAIN Utf8 : Utf8[t] = Utf8[u] => t = u

VARIABLES
    df,                 \* the data file and its index file
    records,            \* the file of tokens
    unwritten,          \* records in the buffer of its stream
    filenames, strings, \* the putter's dictionaries: texts to indices
    n_tokens, i_token,  \* the getter's fields of these names
    names, texts, extensions,   \* the getter's caches: indices to entries
    got,                \* the token got last
    phase               \* what the files are open for

putterVars == <<df, records, unwritten, filenames, strings>>
readerVars == <<n_tokens, i_token, names, texts, extensions, got>>
fileVars == <<putterVars, readerVars, phase>>

-------------------------------------------------------------------------------
\* The indexed data file.

EmptyMap == [x \in {} |-> 0]
With(map, x, y) == [z \in DOMAIN map \cup {x} |-> IF z = x THEN y ELSE map[z]]

\* Mutant: the offset is taken after the length has been written.
WriteEntryLate(d, bytes) ==
    [data |-> d.data \o <<Len(bytes)>> \o bytes,
     index |-> Append(d.index, Len(d.data) + 1)]

\* write_to_indexed_data_file; the index of the new entry is Len(d.index).
WriteEntry(d, bytes) ==
    [data |-> d.data \o <<Len(bytes)>> \o bytes,
     index |-> Append(d.index, Len(d.data))]

\* read_from_indexed_data_file
ReadEntry(d, i) ==
    LET offset == d.index[i + 1]
        n_data == d.data[offset + 1]
    IN  SubSeq(d.data, offset + 2, offset + 1 + n_data)

-------------------------------------------------------------------------------
\* The conversions between texts and bytes.

Encodable(text) == text \in DOMAIN Utf8

\* u32_to_u8
U8(text) == Utf8[text]

\* u8_to_u32, of what u32_to_u8 has written.
U32(bytes) == CHOOSE text \in DOMAIN Utf8 : U8(text) = bytes

\* The bytes of a file name, and the NUL that ends them.
Nul(name) == Append(name, 0)
UntilNul(bytes) == SubSeq(bytes, 1, Len(bytes) - 1)

-------------------------------------------------------------------------------
\* The putter.  A store is the data file and one of the dictionaries.

\* str_nul_in_data_file and string_t_in_data_file: a text is written once.
Intern(store, text, bytes) ==
    IF text \in DOMAIN store.map THEN store
    ELSE [df |-> WriteEntry(store.df, bytes),
          map |-> With(store.map, text, Len(store.df.index))]

StoreFilename(t) ==
    IF t.filename = None THEN [df |-> df, map |-> filenames]
    ELSE Intern([df |-> df, map |-> filenames], t.filename, Nul(t.filename))

StoreKind(t) ==
    Intern([df |-> StoreFilename(t).df, map |-> strings], t.kind, U8(t.kind))

StoreValue(t) == Intern(StoreKind(t), t.value, U8(t.value))

\* put_extension_to_files: each extension is an entry of its own.
StoreExtension(t) ==
    IF t.extension = None THEN StoreValue(t).df
    ELSE WriteEntry(StoreValue(t).df, t.extension)

\* What the record will refer to is in the data file.
PutEntries(t) ==
    /\ phase = "writing"
    /\ Encodable(t.kind) /\ Encodable(t.value)
    /\ df' = StoreExtension(t)
    /\ filenames' = StoreFilename(t).map
    /\ strings' = StoreValue(t).map

\* put_token_to_files
PutToken(t) ==
    /\ Len(unwritten) < MaxTokens
    /\ PutEntries(t)
    /\ unwritten' = Append(unwritten,
         <<IF t.filename = None THEN -1 ELSE filenames'[t.filename],
           t.place[1], t.place[2], strings'[t.kind], strings'[t.value],
           IF t.extension = None THEN -1 ELSE Len(StoreValue(t).df.index)>>)
    /\ UNCHANGED <<records, readerVars, phase>>

\* Errors of put_token_to_files, at which do_pratt_pass and scan_tokens stop: the
\* record itself cannot be written, or one of the texts.
PutRecordFails(t) ==
    /\ PutEntries(t)
    /\ phase' = "failed"
    /\ UNCHANGED <<records, unwritten, readerVars>>

PutTokenFails(t) ==
    /\ phase = "writing"
    /\ ~ (Encodable(t.kind) /\ Encodable(t.value))
    /\ df' = IF Encodable(t.kind) THEN StoreKind(t).df ELSE StoreFilename(t).df
    /\ filenames' = StoreFilename(t).map
    /\ strings' = IF Encodable(t.kind) THEN StoreKind(t).map ELSE strings
    /\ phase' = "failed"
    /\ UNCHANGED <<records, unwritten, readerVars>>

\* close_token_putter_files
ClosePutter ==
    /\ phase = "writing"
    /\ records' = records \o unwritten
    /\ unwritten' = <<>>
    /\ phase' = "written"
    /\ UNCHANGED <<df, filenames, strings, readerVars>>

-------------------------------------------------------------------------------
\* The getter.

\* make_token_getter_from_files_t
OpenGetter ==
    /\ phase = "written"
    /\ n_tokens' = Len(records)
    /\ i_token' = 0
    /\ names' = EmptyMap /\ texts' = EmptyMap /\ extensions' = EmptyMap
    /\ phase' = "reading"
    /\ UNCHANGED <<putterVars, got>>

\* str_nul_from_data_file, string_t_from_data_file, extension_from_data_file:
\* an entry is read once.
Recall(cache, i, entry) ==
    IF i < 0 \/ i \in DOMAIN cache THEN cache ELSE With(cache, i, entry)

\* Mutant: the getter stays at the last record but one.
NextTokenShort == IF i_token < n_tokens - 2 THEN i_token + 1 ELSE i_token

\* read_token_entry: the getter stays at the last record.
NextToken == IF i_token # n_tokens - 1 THEN i_token + 1 ELSE i_token

\* get_token_from_files
GetToken ==
    /\ phase = "reading"
    /\ i_token < n_tokens
    /\ LET r == records[i_token + 1]
       IN  /\ names' = Recall(names, r[1], UntilNul(ReadEntry(df, r[1])))
           /\ texts' = LET k == Recall(texts, r[4], U32(ReadEntry(df, r[4])))
                       IN  Recall(k, r[5], U32(ReadEntry(df, r[5])))
           /\ extensions' = Recall(extensions, r[6], ReadEntry(df, r[6]))
           /\ got' = [filename |-> IF r[1] < 0 THEN None ELSE names'[r[1]],
                      place |-> <<r[2], r[3]>>,
                      kind |-> texts'[r[4]],
                      value |-> texts'[r[5]],
                      extension |-> IF r[6] < 0 THEN None ELSE extensions'[r[6]]]
    /\ i_token' = NextToken
    /\ UNCHANGED <<putterVars, n_tokens, phase>>

\* read_token_entry of a file without records: fread fails.
GetTokenExits ==
    /\ phase = "reading"
    /\ i_token >= n_tokens
    /\ phase' = "exited"
    /\ UNCHANGED <<putterVars, readerVars>>

\* close_token_getter_files
CloseGetter ==
    /\ phase = "reading"
    /\ phase' = "read"
    /\ UNCHANGED <<putterVars, readerVars>>

\* remove_token_getter_files
RemoveFiles ==
    /\ phase = "read"
    /\ phase' = "removed"
    /\ UNCHANGED <<putterVars, readerVars>>

-------------------------------------------------------------------------------

\* make_token_putter_to_files_t
FilesInit ==
    /\ df = [data |-> <<>>, index |-> <<>>]
    /\ records = <<>> /\ unwritten = <<>>
    /\ filenames = EmptyMap /\ strings = EmptyMap
    /\ n_tokens = 0 /\ i_token = 0
    /\ names = EmptyMap /\ texts = EmptyMap /\ extensions = EmptyMap
    /\ got = NoToken
    /\ phase = "writing"

FilesNext ==
    \/ \E t \in Tokens : PutToken(t) \/ PutRecordFails(t) \/ PutTokenFails(t)
    \/ ClosePutter
    \/ OpenGetter
    \/ GetToken
    \/ GetTokenExits
    \/ CloseGetter
    \/ RemoveFiles

FilesSpec == FilesInit /\ [][FilesNext]_fileVars

-------------------------------------------------------------------------------

\* An entry begins where the one before it ends, the first at the start and
\* the last up to the end of the data file.
EntriesFillDataFile ==
    LET end(i) == df.index[i] + 1 + df.data[df.index[i] + 1]
        n == Len(df.index)
    IN  /\ IF n = 0 THEN df.data = <<>>
                    ELSE df.index[1] = 0 /\ end(n) = Len(df.data)
        /\ \A i \in 1 .. n - 1 : df.index[i + 1] = end(i)

\* What a record stands for.
TokenOf(r) ==
    [filename |-> IF r[1] < 0 THEN None ELSE UntilNul(ReadEntry(df, r[1])),
     place |-> <<r[2], r[3]>>,
     kind |-> U32(ReadEntry(df, r[4])),
     value |-> U32(ReadEntry(df, r[5])),
     extension |-> IF r[6] < 0 THEN None ELSE ReadEntry(df, r[6])]

Stored == INSTANCE StoredTokens WITH
    stored <- [k \in 1 .. Len(records \o unwritten) |-> TokenOf((records \o unwritten)[k])],
    next <- i_token + 1,
    tok <- got

\* The next pass gets the tokens that this one put, unchanged and in order,
\* though texts are shared between them and read only once.
ImplementsStoredTokens == Stored!StoredSpec
===============================================================================
