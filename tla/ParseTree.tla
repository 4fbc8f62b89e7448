------------------------------- MODULE ParseTree -------------------------------
(***************************************************************************)
(* The pass 2000.200-parse-tree: pratt_parse of src/libhiha/pratt.c, the   *)
(* handlers of src/plugins/110-parse_tree.c that it calls and that call it *)
(* again, and the loop of do_pratt_pass around it.                         *)
(*                                                                         *)
(* The stack is that of the calls of pratt_parse.  The tokens are those of *)
(* this pass, named by their texts: "1" for any I10 token, ";" for any     *)
(* NJUX token, the brackets, "x" for any other token.  They are chosen as  *)
(* they are read.  A text is the sequence of the places in the input of    *)
(* the tokens that it is made of; the location of a token is that of the   *)
(* first of them.                                                          *)
(*                                                                         *)
(* make_token_extension_for_parse_tree does not store its argument `this': *)
(* the field keeps what the memory held.  What the code copies as a node's *)
(* `this' is here a pair of that content and, to tell which node was       *)
(* meant, of the number that was passed; no step depends on the number.    *)
(***************************************************************************)
EXTENDS Integers, Sequences, FiniteSets, SequencesExt

CONSTANTS
    Texts,              \* the texts of the tokens there may be
    MaxInput,           \* bound: tokens before the one that ends the input
    Garbage,            \* what the memory of a new node may hold
    deterministic       \* the option --deterministic

ASSUME BoundsAssumption == MaxInput \in Nat /\ deterministic \in BOOLEAN

VARIABLES
    input,              \* the tokens read, the one looked at included
    pos,                \* how many of them are consumed
    stack,              \* the calls of pratt_parse, the latest last
    node_counter,
    output,             \* the tokens put
    status              \* whether and how the pass has ended

vars == <<input, pos, stack, node_counter, output, status>>

-------------------------------------------------------------------------------
\* Tokens and nodes.

Openers == {"(", "begin", "if", "while"}

Closing(opener) == IF opener = "(" THEN ")" ELSE "end"

SequenceKind(opener) ==
    CASE opener \in {"(", "begin"} -> "BEGIN"
      [] opener = "while" -> "WHILE"
      [] opener = "if" -> "IF"

\* Mutant: only a parenthesis or the end of the input ends a sequence.
EndsParenthesis(t) == t \in {"EOF", ")"}

\* token_ends_sequence
EndsSequence(t) == t \in {"EOF", ")", "end"}

Reference(this, number) == [this |-> this, number |-> number]

NoReference == Reference(-1, 0)

\* make_extended_token_t with make_token_extension_for_parse_tree
Node(kind, value, this, number, children) ==
    [kind |-> kind, value |-> value, node |-> Reference(this, number),
     parent |-> NoReference, children |-> children]

WithParent(token, reference) == [token EXCEPT !.parent = reference]

\* Tokens without an extension: end of input, and the NULL of a new lhs.
EofToken(i) ==
    [kind |-> "EOF", value |-> <<i>>, node |-> NoReference,
     parent |-> NoReference, children |-> <<>>]
NoToken ==
    [kind |-> "none", value |-> <<>>, node |-> NoReference,
     parent |-> NoReference, children |-> <<>>]

-------------------------------------------------------------------------------
\* shuffle_SEQ

\* The values that random_size_t may return: the random functions return a
\* size_t, which is 0 or 1, where a number between 0 and 1 is meant.
Random(modulus) == {0, modulus - 1}

Swap(s, i, j) == [s EXCEPT ![i] = s[j], ![j] = s[i]]

Shuffles(s) ==
    LET after[i \in 1 .. Len(s)] ==
            IF i = Len(s) THEN {s}
            ELSE {Swap(x, i + 1, j + 1) : x \in after[i + 1], j \in Random(i + 1)}
    IN  after[1]

\* kw_token_is_nondeterministic
Nondeterministic(opener) == ~ deterministic /\ opener \in {"if", "while"}

-------------------------------------------------------------------------------
\* The calls of pratt_parse.

\* Called by the pass or from a handler for the token at place tok of the
\* input, with the binding power of NJUX or the least of all; left is the
\* place of the token of the left denotation.
Frame(caller, tok, min_power) ==
    [caller |-> caller, tok |-> tok, min_power |-> min_power,
     lhs |-> NoToken, left |-> 0, at |-> "null denotation"]

Top == stack[Len(stack)]
Caller == stack[Len(stack) - 1]

GoOn(frame, lhs) == [frame EXCEPT !.lhs = lhs, !.at = "peek"]

\* The calls once the latest goes on, and once its caller does.
TopGoesOn(lhs) == Append(Front(stack), GoOn(Top, lhs))
CallerGoesOn(lhs) == Append(Front(Front(stack)), GoOn(Caller, lhs))

IsRead == pos < Len(input)
Token == input[pos + 1]

\* The getter of the files stays at the last token.
Consume == pos' = IF Token = "EOF" THEN pos ELSE pos + 1

At(place) == status = "running" /\ IsRead /\ Top.at = place

\* binding_powers_lt: only NJUX has more than the least power.
BindsLeft == Token = ";" /\ Top.min_power = "least"

\* put_token for each of the tokens; an error ends the pass.
Put(tokens, goesOn) ==
    \/ /\ output' = output \o tokens
       /\ stack' = goesOn
       /\ UNCHANGED status
    \/ \E n \in 0 .. Len(tokens) - 1 :
          /\ output' = output \o SubSeq(tokens, 1, n)
          /\ status' = "not written"
          /\ UNCHANGED stack

-------------------------------------------------------------------------------

Init ==
    /\ input = <<>>
    /\ pos = 0
    /\ stack = <<Frame("pass", 0, "least")>>
    /\ node_counter = 0
    /\ output = <<>>
    /\ status = "running"

\* get_token and look_at_token, when they take a token from the files.
ReadToken ==
    /\ status = "running" /\ ~ IsRead
    /\ \E t \in Texts \cup {"EOF"} :
          /\ Len(input) = MaxInput => t = "EOF"
          /\ input' = Append(input, t)
    /\ UNCHANGED <<pos, stack, node_counter, output, status>>

-------------------------------------------------------------------------------
\* execute_null_denotation

\* passthrough_handler
PassThrough ==
    /\ At("null denotation") /\ Token = "EOF"
    /\ Consume
    /\ stack' = TopGoesOn(EofToken(pos + 1))
    /\ UNCHANGED <<input, node_counter, output, status>>

\* reference_handler
ReferenceHandler ==
    /\ At("null denotation") /\ Token = "1"
    /\ Consume
    /\ node_counter' = node_counter + 1
    /\ \E this \in Garbage :
          stack' = TopGoesOn(Node("I10", <<pos + 1>>, this, node_counter', <<>>))
    /\ UNCHANGED <<input, output, status>>

\* kw_handler_200 and parenthetic_handler up to its call of pratt_parse
OpenBracket ==
    /\ At("null denotation") /\ Token \in Openers
    /\ Consume
    /\ stack' = Append(stack, Frame("parenthetic_handler", pos + 1, "least"))
    /\ UNCHANGED <<input, node_counter, output, status>>

\* default_handler, directly or from kw_handler_200
DefaultHandler ==
    /\ At("null denotation") /\ Token \notin Openers \cup {"1", "EOF"}
    /\ Consume
    /\ status' = "exited"
    /\ UNCHANGED <<input, stack, node_counter, output>>

-------------------------------------------------------------------------------
\* execute_left_denotation and njux_handler

LeftDenotation ==
    /\ At("peek") /\ BindsLeft
    /\ Consume
    /\ stack' = Append(Front(stack), [Top EXCEPT !.left = pos + 1, !.at = "njux_handler"])
    /\ UNCHANGED <<input, node_counter, output, status>>

\* Mutant: the extra token is looked at again.
ConsumeNothing ==
    /\ At("njux_handler") /\ Token = ";"
    /\ UNCHANGED vars

\* njux_handler consumes extra tokens.
ConsumeExtra ==
    /\ At("njux_handler") /\ Token = ";"
    /\ Consume
    /\ UNCHANGED <<input, stack, node_counter, output, status>>

\* end_sequence
EndSequence ==
    /\ At("njux_handler") /\ EndsSequence(Token)
    /\ stack' = TopGoesOn(Top.lhs)
    /\ UNCHANGED <<input, pos, node_counter, output, status>>

\* start_sequence and extend_sequence up to their calls of pratt_parse
CallForRhs ==
    /\ At("njux_handler") /\ Token # ";" /\ ~ EndsSequence(Token)
    /\ stack' = Append(stack,
                       Frame(IF Top.lhs.kind = "SEQ" THEN "extend_sequence"
                                                     ELSE "start_sequence",
                             Top.left, "NJUX"))
    /\ UNCHANGED <<input, pos, node_counter, output, status>>

-------------------------------------------------------------------------------
\* What the callers do when pratt_parse has returned its lhs.

ReturnsTo(caller) == At("peek") /\ ~ BindsLeft /\ Top.caller = caller

\* Mutant: the texts are joined in the wrong order.
ConcatenatedBackwards(lhs, rhs) == rhs.value \o <<Top.tok>> \o lhs.value

\* concat_string_t of what is before the token, of the token and of rhs
Concatenated(lhs, rhs) == lhs.value \o <<Top.tok>> \o rhs.value

\* the rest of start_sequence
StartSequence ==
    /\ ReturnsTo("start_sequence")
    /\ node_counter' = node_counter + 1
    /\ \E this \in Garbage :
          LET me == Reference(node_counter', node_counter')
              q == Caller.lhs
              p == Top.lhs
          IN  Put(<<WithParent(q, me), WithParent(p, me)>>,
                  CallerGoesOn(Node("SEQ", Concatenated(q, p), this, node_counter',
                                    <<q.node, p.node>>)))
    /\ UNCHANGED <<input, pos>>

\* Mutant: the child is not told its parent.
ExtendWithOrphan ==
    /\ ReturnsTo("extend_sequence")
    /\ \E this \in Garbage :
          LET q == Caller.lhs
              p == Top.lhs
          IN  Put(<<p>>,
                  CallerGoesOn(Node(q.kind, Concatenated(q, p), this, q.node.number,
                                    Append(q.children, p.node))))
    /\ UNCHANGED <<input, pos, node_counter>>

\* the rest of extend_sequence: a new extension for the node that there is
ExtendSequence ==
    /\ ReturnsTo("extend_sequence")
    /\ \E this \in Garbage :
          LET q == Caller.lhs
              p == Top.lhs
          IN  Put(<<WithParent(p, q.node)>>,
                  CallerGoesOn(Node(q.kind, Concatenated(q, p), this, q.node.number,
                                    Append(q.children, p.node))))
    /\ UNCHANGED <<input, pos, node_counter>>

\* the rest of parenthetic_handler, for a sequence, which it renames
CloseSequence ==
    /\ ReturnsTo("parenthetic_handler") /\ Top.lhs.kind = "SEQ"
    /\ Token = Closing(input[Top.tok])
    /\ Consume
    /\ \E children \in IF Nondeterministic(input[Top.tok])
                       THEN Shuffles(Top.lhs.children) ELSE {Top.lhs.children} :
          stack' = CallerGoesOn([Top.lhs EXCEPT !.kind = SequenceKind(input[Top.tok]),
                                                !.children = children])
    /\ UNCHANGED <<input, node_counter, output, status>>

\* the same for a single item, which becomes the child of a new node
CloseSingle ==
    /\ ReturnsTo("parenthetic_handler") /\ Top.lhs.kind # "SEQ"
    /\ Token = Closing(input[Top.tok])
    /\ Consume
    /\ node_counter' = node_counter + 1
    /\ \E this \in Garbage :
          LET me == Reference(node_counter', node_counter')
              p == Top.lhs
          IN  Put(<<WithParent(p, me)>>,
                  CallerGoesOn(Node(SequenceKind(input[Top.tok]), p.value, this,
                                    node_counter', <<p.node>>)))
    /\ UNCHANGED input

\* the same for a token that does not close the bracket
CloseError ==
    /\ ReturnsTo("parenthetic_handler")
    /\ Token # Closing(input[Top.tok])
    /\ Consume
    /\ status' = "syntax error"
    /\ UNCHANGED <<input, stack, node_counter, output>>

\* do_pratt_pass puts what it parsed and parses the next.
PutRoot ==
    /\ ReturnsTo("pass") /\ Top.lhs.kind # "EOF"
    /\ Put(<<Top.lhs>>, <<Frame("pass", 0, "least")>>)
    /\ UNCHANGED <<input, pos, node_counter>>

\* do_pratt_pass at the end of the input
PutEof ==
    /\ ReturnsTo("pass") /\ Top.lhs.kind = "EOF"
    /\ \/ output' = Append(output, Top.lhs) /\ status' = "done"
       \/ UNCHANGED output /\ status' = "not written"
    /\ UNCHANGED <<input, pos, stack, node_counter>>

-------------------------------------------------------------------------------

Next ==
    \/ ReadToken
    \/ PassThrough \/ ReferenceHandler \/ OpenBracket \/ DefaultHandler
    \/ LeftDenotation
    \/ ConsumeExtra \/ EndSequence \/ CallForRhs
    \/ StartSequence \/ ExtendSequence
    \/ CloseSequence \/ CloseSingle \/ CloseError
    \/ PutRoot \/ PutEof

\* The pass is one thread that runs until it ends.
Spec == Init /\ [][Next]_vars /\ WF_vars(Next)

-------------------------------------------------------------------------------

\* The elements that pass a test, in order: SelectSeq, said so that it can be
\* reasoned about.
Chosen(s, Test(_)) ==
    FlattenSeq([n \in DOMAIN s |-> IF Test(s[n]) THEN <<s[n]>> ELSE <<>>])

\* A token that is a node, put or not yet put.
IsNode(token) == token.node.number # 0

\* The tokens that the calls of pratt_parse hold.
Pending == [i \in DOMAIN stack |-> stack[i].lhs]

\* The nodes put, in the order in which they were, and then those that are
\* not yet put, as the calls of pratt_parse hold them.
Nodes == Chosen(output \o Pending, IsNode)

\* Each node has a number of its own.
NumberedOnce(nodes) ==
    \A m, n \in DOMAIN nodes : nodes[m].node.number = nodes[n].node.number => m = n

\* A child was put before its parent and refers to it.
ChildrenBefore(nodes) ==
    \A n \in DOMAIN nodes : \A i \in DOMAIN nodes[n].children :
       \E m \in 1 .. n - 1 :
          /\ nodes[m].node.number = nodes[n].children[i].number
          /\ nodes[m].parent.number = nodes[n].node.number

\* What refers to a parent is once among its children.
AmongChildren(nodes) ==
    \A m \in DOMAIN nodes : nodes[m].parent # NoReference =>
       \E n \in m + 1 .. Len(nodes) :
          /\ nodes[n].node.number = nodes[m].parent.number
          /\ Cardinality({i \in DOMAIN nodes[n].children :
                            nodes[n].children[i].number = nodes[m].node.number}) = 1

\* A sequence has the two children that shuffle_SEQ takes for granted.
ChildrenOfKind(node) ==
    /\ node.kind = "SEQ" => Len(node.children) > 1
    /\ node.kind = "I10" <=> node.children = <<>>

\* The children are in the order of the source unless they were shuffled.
InOrder(nodes) ==
    \A n \in DOMAIN nodes :
       \/ nodes[n].kind \in {"WHILE", "IF"} /\ ~ deterministic
       \/ \A i \in 1 .. Len(nodes[n].children) - 1, k, l \in DOMAIN nodes :
             /\ nodes[k].node.number = nodes[n].children[i].number
             /\ nodes[l].node.number = nodes[n].children[i + 1].number
             => nodes[k].value[1] < nodes[l].value[1]

Forest(nodes) ==
    /\ NumberedOnce(nodes) /\ ChildrenBefore(nodes) /\ AmongChildren(nodes)
    /\ \A n \in DOMAIN nodes : ChildrenOfKind(nodes[n])
    /\ InOrder(nodes)

\* The nodes are a forest at every step: only a token that nothing refers to is
\* not yet put.
TreeOK == status # "not written" => Forest(Nodes)

\* The places among these of the tokens with a text.
Places(places, text) == Chosen(places, LAMBDA i : input[i] = text)

\* Every number that was consumed is in the text of one root, put or pending,
\* and they are in the order of the source.
NothingLost ==
    LET roots == Chosen(output \o Pending,
                           LAMBDA t : t.parent = NoReference /\ IsNode(t))
        kept == FlattenSeq([n \in DOMAIN roots |-> roots[n].value])
    IN  status \in {"running", "done"} =>
          Places(kept, "1") = Places([i \in 1 .. pos |-> i], "1")

\* What the pass accepts, said without the parser: whether there is an item
\* or a bracket or a separator before, and the open brackets.
Accepting(state, t) ==
    LET before == state[1]
        open == state[2]
    IN  IF before \in {"dead", "end"} THEN <<"dead", open>>
        ELSE CASE t = "1" /\ (before # "item" \/ open = <<>>) -> <<"item", open>>
               [] t \in Openers /\ (before # "item" \/ open = <<>>) ->
                     <<"open", Append(open, t)>>
               [] t = ";" /\ before \in {"item", "separator"} -> <<"separator", open>>
               [] /\ t \in {")", "end"} /\ before \in {"item", "separator"}
                  /\ open # <<>> /\ t = Closing(open[Len(open)]) ->
                     <<"item", Front(open)>>
               [] t = "EOF" /\ open = <<>> -> <<"end", open>>
               [] OTHER -> <<"dead", open>>

\* What is said of the first tokens of the input, however many, and of all.
Judged ==
    LET state[n \in 0 .. Len(input)] ==
          IF n = 0 THEN <<"start", <<>>>> ELSE Accepting(state[n - 1], input[n])
    IN  state

Verdict == Judged[Len(input)][1]

\* The pass ends well if and only if the input consists of items, each a
\* number or a bracketed sequence, and the tree has a node for each bracket.
Recognizes ==
    /\ status = "done" => Verdict = "end"
    /\ status \in {"syntax error", "exited"} => Verdict = "dead"
    /\ status = "done" =>
         \A kind \in {"BEGIN", "WHILE", "IF"} :
            Len(Chosen(output, LAMBDA t : t.kind = kind))
              = Len(Chosen(input, LAMBDA t : t \in Openers /\ SequenceKind(t) = kind))

\* The pass ends, whatever the input.
PassEnds == <>(status # "running")

\* README.adoc: a plugin constructs a parse tree and flattens it into tokens.
\* A later pass can find the child that a token refers to only by its `this'.
ChildrenCanBeFound ==
    status = "done" =>
      \A n \in DOMAIN Nodes : \A i \in DOMAIN Nodes[n].children :
         \E m \in DOMAIN Nodes :
            \A k \in DOMAIN Nodes :
               Nodes[k].node.this = Nodes[n].children[i].this <=> k = m

\* "A Fisher-Yates shuffle": each order of the sequence that is about to be
\* closed can come about.
EveryOrderPossible ==
    /\ At("peek") /\ ReturnsTo("parenthetic_handler")
    /\ Top.lhs.kind = "SEQ" /\ Nondeterministic(input[Top.tok])
    => LET s == Top.lhs.children
       IN  \A f \in [DOMAIN s -> Range(s)] :
              Range(f) = Range(s) => f \in Shuffles(s)
===============================================================================
