----------------------------- MODULE StoredTokens -----------------------------
(***************************************************************************)
(* What the files of tokens between two passes promise: the tokens that    *)
(* one pass put come out in the same order, unchanged, in the next one,    *)
(* and the last of them, which ends the input, as often as it is asked     *)
(* for.                                                                    *)
(***************************************************************************)
EXTENDS Naturals, Sequences

CONSTANTS Tokens, NoToken

VARIABLES
    stored,             \* the tokens put so far
    next,               \* the place of the token that is got next
    tok,                \* the token got last
    phase               \* what the files are open for

storedVars == <<stored, next, tok, phase>>

StoredInit == stored = <<>> /\ next = 1 /\ tok = NoToken /\ phase = "writing"

Put(t) ==
    /\ phase = "writing"
    /\ stored' = Append(stored, t)
    /\ UNCHANGED <<next, tok, phase>>

\* A token that cannot be written ends the pass; those before it are kept.
PutFails ==
    /\ phase = "writing"
    /\ phase' = "failed"
    /\ UNCHANGED <<stored, next, tok>>

GoOn ==
    /\ \/ phase = "writing" /\ phase' = "written"
       \/ phase = "written" /\ phase' = "reading"
       \/ phase = "reading" /\ phase' = "read"
       \/ phase = "read" /\ phase' = "removed"
    /\ UNCHANGED <<stored, next, tok>>

Get ==
    /\ phase = "reading"
    /\ stored # <<>>
    /\ tok' = stored[next]
    /\ next' = IF next = Len(stored) THEN next ELSE next + 1
    /\ UNCHANGED <<stored, phase>>

\* There is no token to get in a file without tokens: the program ends.
Exit ==
    /\ phase = "reading"
    /\ stored = <<>>
    /\ phase' = "exited"
    /\ UNCHANGED <<stored, next, tok>>

StoredNext == (\E t \in Tokens : Put(t)) \/ PutFails \/ GoOn \/ Get \/ Exit

StoredSpec == StoredInit /\ [][StoredNext]_storedVars
===============================================================================
