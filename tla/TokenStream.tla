------------------------------ MODULE TokenStream ------------------------------
(***************************************************************************)
(* What a buffered_token_getter_t promises to those who read tokens from   *)
(* it (include/libhiha/token_t.h): a stream that tokens are taken from,    *)
(* looked at any distance ahead, and pushed back into.  The stream is the  *)
(* sequence rest, and the end-of-input token without end after it.  An     *)
(* element of it may be Bad, a record that cannot be read: it takes the    *)
(* place of a token until some call runs into it, and that call fails.     *)
(***************************************************************************)
EXTENDS Naturals, Sequences

CONSTANTS Elements, Bad, Eof, NullToken, Input, Strings, MaxLookAhead, Idle

VARIABLES
    rest,               \* what the stream holds
    tok,                \* *tok, set by the latest call
    error,              \* TRUE when the latest call set *error_message
    call                \* the look in progress, or Idle

streamVars == <<rest, tok, error, call>>

Drop(s, n) == SubSeq(s, n + 1, Len(s))

TokenAt(i) == IF i < Len(rest) THEN rest[i + 1] ELSE Eof

StreamInit == rest = Input /\ tok = NullToken /\ error = FALSE /\ call = Idle

\* The end of the input is repeated as often as one likes.
RepeatEof == rest' = Append(rest, Eof) /\ UNCHANGED <<tok, error, call>>

TakeToken ==
    /\ call = Idle
    /\ TokenAt(0) # Bad
    /\ tok' = TokenAt(0)
    /\ rest' = IF rest = <<>> THEN rest ELSE Tail(rest)
    /\ error' = FALSE
    /\ UNCHANGED call

\* *tok is left as it was.
TakeFails ==
    /\ call = Idle
    /\ TokenAt(0) = Bad
    /\ rest' = Tail(rest)
    /\ error' = TRUE
    /\ UNCHANGED <<tok, call>>

StartLook(i, taking) ==
    /\ call = Idle
    /\ call' = [ahead |-> i, taking |-> taking]
    /\ tok' = NullToken
    /\ error' = FALSE
    /\ UNCHANGED rest

\* A look_at_and_get_token takes all of what it looked past, or nothing.
FinishLook ==
    /\ call # Idle
    /\ \A j \in 0 .. call.ahead : TokenAt(j) # Bad
    /\ tok' = TokenAt(call.ahead)
    /\ \/ UNCHANGED rest
       \/ call.taking /\ rest' = Drop(rest, call.ahead + 1)
    /\ call' = Idle
    /\ UNCHANGED error

\* A look that fails gives no token and takes none.
LookFails ==
    /\ call # Idle
    /\ \E j \in 0 .. call.ahead :
        /\ TokenAt(j) = Bad
        /\ \A k \in 0 .. j - 1 : TokenAt(k) # Bad
        /\ rest' = SubSeq(rest, 1, j) \o Drop(rest, j + 1)
    /\ tok' = NullToken
    /\ error' = TRUE
    /\ call' = Idle

PushBack(s) ==
    /\ call = Idle
    /\ rest' = s \o rest
    /\ error' = FALSE
    /\ UNCHANGED <<tok, call>>

StreamNext ==
    \/ RepeatEof
    \/ TakeToken
    \/ TakeFails
    \/ \E i \in 0 .. MaxLookAhead, taking \in BOOLEAN : StartLook(i, taking)
    \/ FinishLook
    \/ LookFails
    \/ \E s \in Strings : PushBack(s)
    \/ \E t \in Elements : PushBack(<<t>>)

StreamSpec == StreamInit /\ [][StreamNext]_streamVars
===============================================================================
