------------------------------- MODULE PrattParse -------------------------------
(***************************************************************************)
(* pratt_parse of src/libhiha/pratt.c over any tables: null and left       *)
(* denotations and binding powers.                                         *)
(*                                                                         *)
(* The handlers are those that the tables of an expression grammar would   *)
(* have, written as the handlers of src/plugins/110-parse_tree.c are: that *)
(* of a prefix calls pratt_parse for its operand, that of an infix does so *)
(* for what is to its right, and that of a postfix calls nothing.  A token *)
(* without a null denotation is an operand (passthrough_nud_handler).      *)
(*                                                                         *)
(* Binding powers are whole numbers, of a unit small enough for all of     *)
(* their digits.  Tokens are chosen as they are read.                      *)
(***************************************************************************)
EXTENDS Integers, Sequences, SequencesExt

CONSTANTS
    TokenKinds,         \* of the tokens there may be
    NudPower,           \* of the prefixes: what they call pratt_parse with
    Lbp,                \* the left binding powers in the tables
    LedPower,           \* of the infixes, as NudPower of the prefixes
    Postfixes,          \* the other kinds with a left denotation
    Minimum,            \* minimum_binding_power, which is less than all others
    MaxParsed           \* bound: tokens before the end of the input

ASSUME PowersAssumption ==
    /\ Minimum \in Int /\ \A k \in DOMAIN Lbp : Lbp[k] \in Int /\ Minimum < Lbp[k]
    /\ \A k \in DOMAIN NudPower : NudPower[k] \in Int /\ Minimum <= NudPower[k]
    /\ \A k \in DOMAIN LedPower : LedPower[k] \in Int /\ Minimum <= LedPower[k]
    /\ MaxParsed \in Nat
    /\ "EOF" \notin DOMAIN Lbp \cup DOMAIN NudPower
    /\ DOMAIN LedPower \cap Postfixes = {}

VARIABLES
    parsed,             \* the tokens read, the one looked at included
    consumed,           \* how many of them are consumed
    calls,              \* of pratt_parse, the latest last
    nodes,              \* the operators with the places they reach over
    parse_status        \* whether and how pratt_parse has returned

parseVars == <<parsed, consumed, calls, nodes, parse_status>>

-------------------------------------------------------------------------------
\* pratt_lbp_get and pratt_led_get
LbpGet(kind) == IF kind \in DOMAIN Lbp THEN Lbp[kind] ELSE Minimum
HasLed(kind) == kind \in DOMAIN LedPower \cup Postfixes

\* binding_powers_lt, which rounds both powers to six decimal digits, as the
\* comment in make_pratt_binding_power_t promises, and compares them unrounded.
BindingPowersLt(a, b) == a < b

\* What an operator, or an operand, reaches over.
Span(operator, from, to) == [operator |-> operator, from |-> from, to |-> to]

\* Mutant: every call takes whatever binds.
ParseCallLeast(operator, min_power) ==
    [operator |-> operator, min_power |-> Minimum, lhs |-> Span(0, 0, 0),
     at |-> "null denotation"]

\* A call of pratt_parse by the handler of the token at place operator.
ParseCall(operator, min_power) ==
    [operator |-> operator, min_power |-> min_power, lhs |-> Span(0, 0, 0),
     at |-> "null denotation"]

Latest == Last(calls)
WithLhs(c, lhs) == [c EXCEPT !.lhs = lhs, !.at = "peek"]

TokenAhead == parsed[consumed + 1]
Running(place) ==
    parse_status = "running" /\ consumed < Len(parsed) /\ Latest.at = place

\* get_token; the getter stays at the token that ends the input.
GetNext == consumed' = IF TokenAhead = "EOF" THEN consumed ELSE consumed + 1

-------------------------------------------------------------------------------

ParseInit ==
    /\ parsed = <<>>
    /\ consumed = 0
    /\ calls = <<ParseCall(0, Minimum)>>
    /\ nodes = {}
    /\ parse_status = "running"

\* get_token and look_at_token, when there is nothing in the buffer.
GetterReads ==
    /\ parse_status = "running" /\ consumed = Len(parsed)
    /\ \/ /\ \E k \in TokenKinds \cup {"EOF"} :
                /\ Len(parsed) = MaxParsed => k = "EOF"
                /\ parsed' = Append(parsed, k)
          /\ UNCHANGED parse_status
       \/ parse_status' = "error" /\ UNCHANGED parsed
    /\ UNCHANGED <<consumed, calls, nodes>>

\* execute_null_denotation, for an operand
ExecuteOperand ==
    /\ Running("null denotation") /\ TokenAhead \notin DOMAIN NudPower
    /\ GetNext
    /\ calls' = Append(Front(calls), WithLhs(Latest, Span(0, consumed + 1, consumed + 1)))
    /\ UNCHANGED <<parsed, nodes, parse_status>>

\* The same for a prefix, whose handler calls pratt_parse.
ExecutePrefix ==
    /\ Running("null denotation") /\ TokenAhead \in DOMAIN NudPower
    /\ GetNext
    /\ calls' = Append(calls, ParseCall(consumed + 1, NudPower[TokenAhead]))
    /\ UNCHANGED <<parsed, nodes, parse_status>>

\* The condition of the loop of pratt_parse.
GoesOn == BindingPowersLt(Latest.min_power, LbpGet(TokenAhead))

\* execute_left_denotation, for a postfix
ExecutePostfix ==
    /\ Running("peek") /\ GoesOn /\ TokenAhead \in Postfixes
    /\ GetNext
    /\ LET node == Span(consumed + 1, Latest.lhs.from, consumed + 1)
       IN  /\ nodes' = nodes \cup {node}
           /\ calls' = Append(Front(calls), WithLhs(Latest, node))
    /\ UNCHANGED <<parsed, parse_status>>

\* The same for an infix, whose handler calls pratt_parse.
ExecuteInfix ==
    /\ Running("peek") /\ GoesOn /\ TokenAhead \in DOMAIN LedPower
    /\ GetNext
    /\ calls' = Append(calls, ParseCall(consumed + 1, LedPower[TokenAhead]))
    /\ UNCHANGED <<parsed, nodes, parse_status>>

\* The same for a token that has no left denotation.
UnexpectedToken ==
    /\ Running("peek") /\ GoesOn /\ ~ HasLed(TokenAhead)
    /\ GetNext
    /\ parse_status' = "error"
    /\ UNCHANGED <<parsed, calls, nodes>>

\* pratt_parse returns its lhs to a handler, which makes a node of it.
ParseReturns ==
    /\ Running("peek") /\ ~ GoesOn /\ Latest.operator # 0
    /\ LET caller == Last(Front(calls))
           from == IF caller.at = "peek" THEN caller.lhs.from ELSE Latest.operator
           node == Span(Latest.operator, from, Latest.lhs.to)
       IN  /\ nodes' = nodes \cup {node}
           /\ calls' = Append(Front(Front(calls)), WithLhs(caller, node))
    /\ UNCHANGED <<parsed, consumed, parse_status>>

\* The call of do_pratt_pass returns.
WholeReturns ==
    /\ Running("peek") /\ ~ GoesOn /\ Latest.operator = 0
    /\ parse_status' = "returned"
    /\ UNCHANGED <<parsed, consumed, calls, nodes>>

ParseNext ==
    \/ GetterReads
    \/ ExecuteOperand \/ ExecutePrefix
    \/ ExecutePostfix \/ ExecuteInfix \/ UnexpectedToken
    \/ ParseReturns \/ WholeReturns

ParseSpec == ParseInit /\ [][ParseNext]_parseVars

-------------------------------------------------------------------------------
\* What binding powers mean, without a parser.

\* Whether an operand is due at a place.
OperandDue ==
    LET due[p \in 1 .. Len(parsed) + 1] ==
            \/ p = 1
            \/ IF due[p - 1] THEN parsed[p - 1] \in DOMAIN NudPower
                             ELSE parsed[p - 1] \in DOMAIN LedPower
    IN  due

\* The place after the last token that pratt_parse has to take.
End == IF OperandDue[Len(parsed)] THEN Len(parsed) + 1 ELSE Len(parsed)

PowerAt(p) == IF p = End THEN Minimum ELSE LbpGet(parsed[p])

\* The prefixes and infixes, and the powers they hold their operands with.
Holders ==
    {p \in 1 .. End - 1 : parsed[p] \in DOMAIN (IF OperandDue[p] THEN NudPower ELSE LedPower)}
Hold(p) == IF OperandDue[p] THEN NudPower[parsed[p]] ELSE LedPower[parsed[p]]

\* Where an operand on the right ends: before the first operator that does not
\* bind more than it is held, unless that is within the operand of another
\* operator.
Ends ==
    LET ends[n \in 0 .. End] ==     \* of the place End - n
            LET p == End - n
                closes(r) == /\ r = End \/ ~ OperandDue[r]
                             /\ ~ (Hold(p) < PowerAt(r))
                             /\ \A q \in Holders : p < q /\ q < r => ends[End - q] <= r
            IN  IF p \notin Holders THEN p
                ELSE CHOOSE r \in p + 1 .. End :
                        closes(r) /\ \A s \in p + 1 .. r - 1 : ~ closes(s)
    IN  [p \in 1 .. End |-> ends[End - p]]

\* The operand on the left begins after the last operator that holds it.
Begins(p) ==
    IF OperandDue[p] THEN p
    ELSE LET holding == {q \in Holders : q < p /\ Ends[q] > p}
         IN  IF holding = {} THEN 1
             ELSE 1 + (CHOOSE q \in holding : \A r \in holding : r <= q)

Operators == Holders \cup {p \in 1 .. End - 1 : ~ OperandDue[p]}

\* When pratt_parse has returned, each operator has the operands that the
\* binding powers give it, from the first token to the first one that binds
\* nothing: the loop, the powers it is called with and the token it peeks at
\* belong together at every depth.
ParsedByPower ==
    parse_status = "returned" =>
        /\ nodes = {Span(p, Begins(p), IF p \in Holders THEN Ends[p] - 1 ELSE p) :
                       p \in Operators}
        /\ Latest.lhs.from = 1 /\ Latest.lhs.to = End - 1
        /\ \A p \in Operators : OperandDue[p] \/ Minimum < PowerAt(p)
===============================================================================
