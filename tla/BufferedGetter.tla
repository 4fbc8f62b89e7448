---------------------------- MODULE BufferedGetter ----------------------------
(***************************************************************************)
(* The buffered_token_getter_t of src/libhiha/token_t.c: a deque of tokens *)
(* read ahead or pushed back, in front of a getter that is not buffered.   *)
(*                                                                         *)
(* The elements of the deque are the tokens.  The underlying getter is one *)
(* of those of token_t.c: it yields the tokens of Input and then the       *)
(* end-of-input token whenever it is asked.  A record it cannot decode is  *)
(* passed over with an error (get_token_from_files).  The calls of one     *)
(* client are made one after the other; the loops inside of a call are     *)
(* modelled turn by turn.                                                  *)
(***************************************************************************)
EXTENDS IndexedDeque, Sequences

CONSTANTS
    Eof,                \* the token that token_t_is_eof_eof
    Bad,                \* a record that cannot be decoded
    NullToken,          \* NULL
    Input,              \* what the underlying getter reads
    Strings,            \* what push_back_string is called with
    Idle                \* no call is in progress

ASSUME GetterAssumption ==
    /\ Eof \in Elements
    /\ Bad \notin Elements
    /\ NullToken \notin Elements
    /\ Input \in Seq(Elements \cup {Bad})
    /\ Strings \subseteq Seq(Elements)
    /\ Idle \notin [ahead : Nat, taking : BOOLEAN]

VARIABLES
    pos,                \* how much of Input has been read
    buffer,             \* _buffered_token_getter.buffer
    tok,                \* *tok, set by the latest call
    error,              \* TRUE when the latest call set *error_message
    call,               \* the look_at_token in progress, or Idle
    getting,            \* turns left of the loop of look_at_and_get_token
    pushing             \* what push_back_string has still to push back

getterVars == <<pos, buffer, tok, error, call, getting, pushing>>

\* Bound: 2^w tokens do not fit into memory, so none looks or pushes that far.
MaxLookAhead == MaxSize - 1

GetterTypeOK ==
    /\ pos \in 0 .. Len(Input)
    /\ WellFormed(buffer)
    /\ tok \in Elements \cup {NullToken}
    /\ error \in BOOLEAN
    /\ call \in [ahead : 0 .. MaxLookAhead, taking : BOOLEAN] \cup {Idle}
    /\ getting \in Nat /\ getting <= Size(buffer)
    /\ pushing \in Seq(Elements) /\ Len(pushing) + Size(buffer) <= MaxSize
    /\ call # Idle => ~ error /\ tok = NullToken
    /\ call # Idle => getting = 0 /\ pushing = <<>>
    /\ getting # 0 => pushing = <<>>

Init ==
    /\ pos = 0
    /\ buffer = EmptyDeque
    /\ tok = NullToken
    /\ error = FALSE
    /\ call = Idle
    /\ getting = 0
    /\ pushing = <<>>

Returned == call = Idle /\ getting = 0 /\ pushing = <<>>

\* What the underlying getter answers next, and how far it has read then.
NextInput == IF pos < Len(Input) THEN Input[pos + 1] ELSE Eof
NextPos == IF pos < Len(Input) THEN pos + 1 ELSE pos

\* get_token_from_buffered_getter
GetFromBuffer ==
    /\ Returned
    /\ Size(buffer) # 0
    /\ tok' = GetFirst(buffer)
    /\ buffer' = DeleteFirst(buffer)
    /\ error' = FALSE
    /\ UNCHANGED <<pos, call, getting, pushing>>

GetFromSource ==
    /\ Returned
    /\ Size(buffer) = 0
    /\ pos' = NextPos
    /\ error' = (NextInput = Bad)
    /\ tok' = IF NextInput = Bad THEN tok ELSE NextInput
    /\ UNCHANGED <<buffer, call, getting, pushing>>

\* look_at_buffered_token, called by itself or by look_at_and_get_token.
LookAtToken(i, taking) ==
    /\ Returned
    /\ call' = [ahead |-> i, taking |-> taking]
    /\ tok' = NullToken
    /\ error' = FALSE
    /\ UNCHANGED <<pos, buffer, getting, pushing>>

\* Mutant: the token read ahead does not get into the buffer.
ReadNowhere ==
    /\ call # Idle
    /\ Size(buffer) <= call.ahead
    /\ NextInput # Bad
    /\ pos' = NextPos
    /\ UNCHANGED <<buffer, tok, error, call, getting, pushing>>

\* One turn of its loop.
ReadAhead ==
    /\ call # Idle
    /\ Size(buffer) <= call.ahead
    /\ NextInput # Bad
    /\ buffer' = PutAfterLast(buffer, NextInput)
    /\ pos' = NextPos
    /\ UNCHANGED <<tok, error, call, getting, pushing>>

ReadAheadFails ==
    /\ call # Idle
    /\ Size(buffer) <= call.ahead
    /\ NextInput = Bad
    /\ pos' = NextPos
    /\ error' = TRUE
    /\ call' = Idle
    /\ UNCHANGED <<buffer, tok, getting, pushing>>

\* Mutant: the loop takes one token too many.
LookTakesOneMore(accepted) ==
    /\ call # Idle
    /\ call.ahead < Size(buffer)
    /\ accepted => call.taking
    /\ tok' = GetAt(buffer, call.ahead)
    /\ getting' = IF accepted THEN call.ahead + 2 ELSE 0
    /\ call' = Idle
    /\ UNCHANGED <<pos, buffer, error, pushing>>

\* The end of its loop; look_at_and_get_token goes on if pred accepts.
Look(accepted) ==
    /\ call # Idle
    /\ call.ahead < Size(buffer)
    /\ accepted => call.taking
    /\ tok' = GetAt(buffer, call.ahead)
    /\ getting' = IF accepted THEN call.ahead + 1 ELSE 0
    /\ call' = Idle
    /\ UNCHANGED <<pos, buffer, error, pushing>>

\* look_at_and_get_from_buffered_token: one turn of its loop.
GetLookedAt ==
    /\ getting # 0
    /\ buffer' = DeleteFirst(buffer)
    /\ getting' = getting - 1
    /\ UNCHANGED <<pos, tok, error, call, pushing>>

\* push_back_token_into_buffered_getter
PushBackToken(t) ==
    /\ Returned
    /\ Size(buffer) < MaxSize
    /\ buffer' = PutBeforeFirst(buffer, t)
    /\ error' = FALSE
    /\ UNCHANGED <<pos, tok, call, getting, pushing>>

\* push_back_string_into_buffered_getter
PushBackString(s) ==
    /\ Returned
    /\ Len(s) + Size(buffer) <= MaxSize
    /\ pushing' = s
    /\ error' = FALSE
    /\ UNCHANGED <<pos, buffer, tok, call, getting>>

\* Mutant: the code points go in in the order in which they stand.
PushBackInOrder ==
    /\ pushing # <<>>
    /\ buffer' = PutBeforeFirst(buffer, pushing[1])
    /\ pushing' = Tail(pushing)
    /\ UNCHANGED <<pos, tok, error, call, getting>>

\* One turn of its loop: the last code point goes in first.
PushBackCodePoint ==
    /\ pushing # <<>>
    /\ buffer' = PutBeforeFirst(buffer, pushing[Len(pushing)])
    /\ pushing' = SubSeq(pushing, 1, Len(pushing) - 1)
    /\ UNCHANGED <<pos, tok, error, call, getting>>

InCall ==
    \/ ReadAhead
    \/ ReadAheadFails
    \/ \E accepted \in BOOLEAN : Look(accepted)
    \/ GetLookedAt
    \/ PushBackCodePoint

Next ==
    \/ GetFromBuffer
    \/ GetFromSource
    \/ \E i \in 0 .. MaxLookAhead, taking \in BOOLEAN : LookAtToken(i, taking)
    \/ \E t \in Elements : PushBackToken(t)
    \/ \E s \in Strings : PushBackString(s)
    \/ InCall

Spec == Init /\ [][Next]_getterVars

\* A call that was made runs on: there is one thread and nothing to wait for.
FairSpec == Spec /\ WF_getterVars(InCall)

-------------------------------------------------------------------------------

\* What the underlying getter has still to yield.
Unread == SubSeq(Input, pos + 1, Len(Input))

\* What get_token would return from now on.
Ahead == Contents(buffer) \o Unread

\* The stream that the client sees: what a loop has still to take is taken
\* already, what one has still to push back is back already.
Rest ==
    IF getting # 0 THEN SubSeq(Ahead, getting + 1, Len(Ahead))
    ELSE pushing \o Ahead

Stream == INSTANCE TokenStream WITH rest <- Rest

\* Whatever is looked at, taken and pushed back, in whatever order, and
\* whichever records are bad: no token is lost, repeated or reordered.
ImplementsStream == Stream!StreamSpec

\* Every call returns: the loops of look_at_token, look_at_and_get_token and
\* push_back_string end.
CallsReturn == ~ Returned ~> Returned
===============================================================================
