------------------------------ MODULE PrattPasses ------------------------------
(***************************************************************************)
(* The passes of a run of hiha: do_pratt_passes and the functions it calls *)
(* (src/libhiha/token_processing.c), the working directory that holds the  *)
(* files between them (src/libhiha/workspaces.c) and the end of main       *)
(* (src/hiha/hiha.c).                                                      *)
(*                                                                         *)
(* A root stands for the three files that are named after it: root 0 is    *)
(* what scan_source_files writes and root i what pass i writes.  Of a      *)
(* token only what it is made of matters, so a root holds the passes its   *)
(* tokens went through, how many tokens it has before the last one, and    *)
(* whether that one, the EOF token, is there.                              *)
(*                                                                         *)
(* Where the code ends the program over an error of the file system, the   *)
(* model may do so whenever such an operation is due.  Not so when         *)
(* close_indexed_data_file ignores what fclose returns: then the files may *)
(* lack their last entries ("short"), and the program goes on.             *)
(***************************************************************************)
EXTENDS Integers, Sequences, FiniteSets

CONSTANTS
    NVec,               \* bound: passes that have tables
    MaxTokens           \* bound: tokens in the source files

ASSUME NVecAssumption == NVec \in Nat
ASSUME MaxTokensAssumption == MaxTokens \in Nat

VARIABLES
    selected,           \* pred's answers
    work_directory,     \* whether there is one
    disk,               \* the files of each root
    n_vec, i, fn_root1, fn_root2, error_message,    \* of do_pratt_passes
    final_filename_root,
    unread,             \* tokens the getter has yet to get before EOF
    pc,                 \* where the program is
    status              \* its exit status, when it has one

passVars == <<i, fn_root1, fn_root2, error_message, final_filename_root>>
vecVars == <<n_vec, selected>>
vars == <<vecVars, work_directory, disk, passVars, unread, pc, status>>

Passes == 1 .. NVec
Roots == 0 .. NVec

\* extend_filename_root
RootOf(n) == n

Absent == [state |-> "absent", passes |-> <<>>, tokens |-> 0, eof |-> FALSE,
           short |-> FALSE]

\* make_token_putter_to_files_t
Created(passes) ==
    [Absent EXCEPT !.state = "open", !.passes = passes]

\* put_token_to_files
Put(root, n) == [disk EXCEPT ![root].tokens = @ + n]
PutEof(root) == [disk EXCEPT ![root].eof = TRUE]

\* close_token_putter_files, when it returns.
ClosePutter(root, short) ==
    [disk EXCEPT ![root].state = "closed", ![root].short = short]

\* error (exit_failure, ...) and exit: only what atexit has asked for is left.
Exit(s) == pc' = "exiting" /\ status' = s

-------------------------------------------------------------------------------
\* The beginning.  The vector that get_pratt_tables returns is what the loop
\* goes over, whatever tables are made later.

GetTables ==
    /\ pc = "begin"
    /\ n_vec' \in 0 .. NVec
    /\ selected' \in [Passes -> BOOLEAN]
    /\ pc' = "start"
    /\ UNCHANGED <<work_directory, disk, passVars, unread, status>>

\* main ends before it comes to the passes.
ExitEarly ==
    /\ pc = "begin"
    /\ Exit("failure")
    /\ UNCHANGED <<vecVars, work_directory, disk, passVars, unread>>

-------------------------------------------------------------------------------
\* scan_source_files.

\* The first make_token_putter_to_files_t makes the working directory.
OpenScan ==
    /\ pc = "start"
    /\ work_directory' = TRUE
    /\ disk' = [disk EXCEPT ![RootOf(0)] = Created(<<>>)]
    /\ pc' = "scan"
    /\ UNCHANGED <<n_vec, selected, passVars, unread, status>>

\* mkdtemp fails, or after it fopen.
OpenScanExits ==
    /\ pc = "start"
    /\ work_directory' \in BOOLEAN
    /\ Exit("failure")
    /\ UNCHANGED <<vecVars, disk, passVars, unread>>

ScanToken ==
    /\ pc = "scan"
    /\ unread > 0
    /\ unread' = unread - 1
    /\ disk' = Put(fn_root1, 1)
    /\ UNCHANGED <<vecVars, work_directory, passVars, pc, status>>

\* scan_tokens puts the last token after its loop.
ScanEof ==
    /\ pc = "scan"
    /\ unread = 0
    /\ disk' = PutEof(fn_root1)
    /\ pc' = "close scan"
    /\ UNCHANGED <<vecVars, work_directory, passVars, unread, status>>

\* The getter or the putter returns an error: the files are left open.
ScanFails ==
    /\ pc = "scan"
    /\ error_message' = TRUE
    /\ pc' = "next"
    /\ UNCHANGED <<vecVars, work_directory, disk, i, fn_root1, fn_root2,
                   final_filename_root, unread, status>>

CloseScan ==
    /\ pc = "close scan"
    /\ \E short \in BOOLEAN : disk' = ClosePutter(fn_root1, short)
    /\ pc' = "next"
    /\ UNCHANGED <<vecVars, work_directory, passVars, unread, status>>

-------------------------------------------------------------------------------
\* do_pratt_pass_for_files.

\* Mutant: a pass that is skipped changes fn_root1 too.
SkipPassAndRoot ==
    /\ pc = "next"
    /\ ~ error_message /\ i # n_vec
    /\ ~ selected[i + 1]
    /\ i' = i + 1
    /\ fn_root1' = RootOf(i + 1)
    /\ UNCHANGED <<vecVars, work_directory, disk, fn_root2, error_message,
                   final_filename_root, unread, pc, status>>

SkipPass ==
    /\ pc = "next"
    /\ ~ error_message /\ i # n_vec
    /\ ~ selected[i + 1]
    /\ i' = i + 1
    /\ UNCHANGED <<vecVars, work_directory, disk, fn_root1, fn_root2,
                   error_message, final_filename_root, unread, pc, status>>

\* make_token_getter_from_files_t and make_token_putter_to_files_t
OpenPass ==
    /\ pc = "next"
    /\ ~ error_message /\ i # n_vec
    /\ selected[i + 1]
    /\ disk[fn_root1].state \in {"open", "closed"}
    /\ fn_root2' = RootOf(i + 1)
    /\ disk' = [disk EXCEPT ![fn_root2'] =
                  Created(Append(disk[fn_root1].passes, i + 1))]
    /\ unread' = disk[fn_root1].tokens
    /\ pc' = "pass"
    /\ UNCHANGED <<vecVars, work_directory, i, fn_root1, error_message,
                   final_filename_root, status>>

\* One pratt_parse of do_pratt_pass and the put_token after it: the handlers
\* consume tokens, put some themselves and return one.
ParseToken ==
    /\ pc = "pass"
    /\ \E consumed \in 1 .. unread, put \in 0 .. 1 :
         /\ unread' = unread - consumed
         /\ disk' = Put(fn_root2, put + 1)
    /\ UNCHANGED <<vecVars, work_directory, passVars, pc, status>>

\* pratt_parse returns the EOF token; the tokens before it a handler may have
\* skipped, as the one that removes spaces does.  Files that are short do not
\* get here: some token refers to the entry that is missing.
ParseEof ==
    /\ pc = "pass"
    /\ unread' = 0
    /\ disk[fn_root1].eof /\ ~ disk[fn_root1].short
    /\ disk' = PutEof(fn_root2)
    /\ pc' = "close getter"
    /\ UNCHANGED <<vecVars, work_directory, passVars, status>>

\* A handler, the getter or the putter returns an error: the files are left
\* open, and those of the pass before are not removed.
ParseFails ==
    /\ pc = "pass"
    /\ error_message' = TRUE
    /\ pc' = "end of pass"
    /\ UNCHANGED <<vecVars, work_directory, disk, i, fn_root1, fn_root2,
                   final_filename_root, unread, status>>

\* Mutant: the source is removed before the putter is closed.
CloseGetterAndRemove ==
    /\ pc = "close getter"
    /\ disk' = [disk EXCEPT ![fn_root1] = Absent]
    /\ pc' = "close putter"
    /\ UNCHANGED <<vecVars, work_directory, passVars, unread, status>>

\* close_token_getter_files
CloseGetter ==
    /\ pc = "close getter"
    /\ pc' = "close putter"
    /\ UNCHANGED <<vecVars, work_directory, disk, passVars, unread, status>>

CloseOutput ==
    /\ pc = "close putter"
    /\ \E short \in BOOLEAN : disk' = ClosePutter(fn_root2, short)
    /\ pc' = "remove"
    /\ UNCHANGED <<vecVars, work_directory, passVars, unread, status>>

\* Mutant: the caller asks for the files to be kept.
KeepSource ==
    /\ pc = "remove"
    /\ pc' = "end of pass"
    /\ UNCHANGED <<vecVars, work_directory, disk, passVars, unread, status>>

\* remove_token_getter_files; whether the last of its three calls of remove
\* succeeds is not looked at.
RemoveSource ==
    /\ pc = "remove"
    /\ \E left \in {"absent", "file of tokens"} :
         disk' = [disk EXCEPT ![fn_root1] = [Absent EXCEPT !.state = left]]
    /\ pc' = "end of pass"
    /\ UNCHANGED <<vecVars, work_directory, passVars, unread, status>>

\* The rest of the loop's body in do_pratt_passes, which an error comes to too.
EndPass ==
    /\ pc = "end of pass"
    /\ fn_root1' = fn_root2
    /\ i' = i + 1
    /\ pc' = "next"
    /\ UNCHANGED <<vecVars, work_directory, disk, fn_root2, error_message,
                   final_filename_root, unread, status>>

\* An operation on files that ends the program when it fails, or a handler
\* that does.
FileErrorExits ==
    /\ \/ pc \in {"scan", "close scan", "pass", "close getter",
                  "close putter", "remove"}
       \/ pc = "next" /\ ~ error_message /\ i # n_vec /\ selected[i + 1]
    /\ Exit("failure")
    /\ UNCHANGED <<vecVars, work_directory, disk, passVars, unread>>

-------------------------------------------------------------------------------
\* The end of do_pratt_passes and of main.

\* Mutant: the root is that of the last pass, whether or not it was selected.
ReturnLastRoot ==
    /\ pc = "next"
    /\ error_message \/ i = n_vec
    /\ final_filename_root' = RootOf(i)
    /\ pc' = "return"
    /\ UNCHANGED <<vecVars, work_directory, disk, i, fn_root1, fn_root2,
                   error_message, unread, status>>

ReturnRoot ==
    /\ pc = "next"
    /\ error_message \/ i = n_vec
    /\ final_filename_root' = fn_root1
    /\ pc' = "return"
    /\ UNCHANGED <<vecVars, work_directory, disk, i, fn_root1, fn_root2,
                   error_message, unread, status>>

ExitMain ==
    /\ pc = "return"
    /\ Exit(IF error_message THEN "failure" ELSE "success")
    /\ UNCHANGED <<vecVars, work_directory, disk, passVars, unread>>

\* _remove_work_directory: nftw removes the files one by one, in any order.
RemoveFile ==
    /\ pc = "exiting"
    /\ \E r \in Roots :
         /\ disk[r].state # "absent"
         /\ disk' = [disk EXCEPT ![r] = Absent]
    /\ UNCHANGED <<vecVars, work_directory, passVars, unread, pc, status>>

RemoveDirectory ==
    /\ pc = "exiting"
    /\ \A r \in Roots : disk[r].state = "absent"
    /\ work_directory' = FALSE
    /\ pc' = "exited"
    /\ UNCHANGED <<vecVars, disk, passVars, unread, status>>

\* nftw stops when a file cannot be removed.
RemovalFails ==
    /\ pc = "exiting"
    /\ work_directory
    /\ pc' = "not removed"
    /\ UNCHANGED <<vecVars, work_directory, disk, passVars, unread, status>>

\* A signal or a failed assertion.
Kill ==
    /\ pc \notin {"exited", "not removed", "killed"}
    /\ pc' = "killed"
    /\ UNCHANGED <<vecVars, work_directory, disk, passVars, unread, status>>

-------------------------------------------------------------------------------

Init ==
    /\ n_vec = 0
    /\ selected = [p \in Passes |-> FALSE]
    /\ work_directory = FALSE
    /\ disk = [r \in Roots |-> Absent]
    /\ i = 0
    /\ fn_root1 = RootOf(0) /\ fn_root2 = RootOf(0)
    /\ error_message = FALSE
    /\ final_filename_root = RootOf(0)
    /\ unread \in 0 .. MaxTokens
    /\ pc = "begin"
    /\ status = "none"

Scan == OpenScan \/ OpenScanExits \/ ScanToken \/ ScanEof \/ ScanFails
            \/ CloseScan

Pass == SkipPass \/ OpenPass \/ ParseToken \/ ParseEof \/ ParseFails
            \/ CloseGetter \/ CloseOutput \/ RemoveSource \/ EndPass

Program == GetTables \/ ExitEarly \/ Scan \/ Pass \/ FileErrorExits
            \/ ReturnRoot \/ ExitMain \/ RemoveFile \/ RemoveDirectory \/ RemovalFails

Next == Program \/ Kill

Spec == Init /\ [][Next]_vars

-------------------------------------------------------------------------------

Files == [state : {"absent", "open", "closed", "file of tokens"},
          passes : Seq(Passes), tokens : Nat, eof : BOOLEAN, short : BOOLEAN]

Running == pc \notin {"exiting", "exited", "not removed", "killed"}

TypeOK ==
    /\ n_vec \in 0 .. NVec
    /\ selected \in [Passes -> BOOLEAN]
    /\ work_directory \in BOOLEAN
    /\ disk \in [Roots -> Files]
    /\ i \in 0 .. n_vec
    /\ fn_root1 \in 0 .. i /\ fn_root2 \in Roots /\ final_filename_root \in Roots
    /\ error_message \in BOOLEAN
    /\ unread \in Nat
    /\ status \in {"none", "failure", "success"}
    /\ Running => status = "none"

\* The passes that were selected among the first n, each once and in order.
WentThrough(passes, n, pred) ==
    /\ {passes[k] : k \in DOMAIN passes} = {p \in 1 .. n : pred[p]}
    /\ \A k, l \in DOMAIN passes : k < l => passes[k] < passes[l]

\* Closed files, with the record of the EOF token at their end, of tokens that
\* went through the first n passes.  They may be short.
Finished(files, n, pred) ==
    files.state = "closed" /\ files.eof /\ WentThrough(files.passes, n, pred)

\* Such files with all their entries.
Complete(files, n, pred) == Finished(files, n, pred) /\ ~ files.short

Product(root, n) == Complete(disk[root], n, selected)

NoneShort == \A r \in Roots : ~ disk[r].short

\* A pass reads what all the selected passes before it made, one after the
\* other, and no file before it has been closed (do_pratt_passes chains the
\* passes by fn_root1 and fn_root2, whichever of them pred selects).  What it
\* reads may be short, but then it does not come to its end.
ReadsEarlierPasses ==
    /\ (pc = "next" /\ ~ error_message) \/ pc \in {"pass", "close getter"}
          => Finished(disk[fn_root1], i, selected)
    /\ pc \in {"close getter", "close putter"} => Product(fn_root1, i)

\* As long as the program has seen no error, and no fclose has failed without
\* its seeing it, the work of all the passes done so far is on the disk with all
\* its entries: do_pratt_pass_for_files removes its source only when what was
\* made of it has been closed.
LatestKept ==
    Running /\ ~ error_message /\ NoneShort
        /\ pc \notin {"begin", "start", "scan", "close scan"}
            => \E r \in Roots : Product(r, i) \/ (i < n_vec /\ Product(r, i + 1))

\* When a pass has removed its source, what it made of it is on the disk with
\* all its entries, as the entries that check_indexed_data_file.c writes are
\* there when it has closed the file and opens it again.
WholeWhenRemoved ==
    pc = "end of pass" /\ ~ error_message => Product(fn_root2, i + 1)

\* No more than the files of one pass and of the next are kept at a time,
\* apart from a file of tokens that could not be removed.
TwoRoots ==
    Cardinality({r \in Roots : disk[r].state \in {"open", "closed"}}) <= 2

\* The program says that all went well only when every selected pass ran to the
\* end of the source; the files it then names are the last pass's, closed, with
\* all their tokens.  Entries they refer to may be missing, if an fclose has
\* failed at the closing of these files: that of the files of an earlier pass
\* would have been noticed.
SuccessIsComplete ==
    /\ pc = "return" /\ ~ error_message
          => Finished(disk[final_filename_root], n_vec, selected)
    /\ status = "success" => ~ error_message /\ i = n_vec
===============================================================================
