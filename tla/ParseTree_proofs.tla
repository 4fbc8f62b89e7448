--------------------------- MODULE ParseTree_proofs ---------------------------
(***************************************************************************)
(* Proofs about the parse tree, for all inputs and whatever the memory of  *)
(* a new node holds.                                                       *)
(***************************************************************************)
EXTENDS ParseTree, SequenceLemmas, FiniteSetTheorems

Words == Texts \cup {"EOF"}

This == Garbage \cup Int

Refs == [this : This, number : Nat]

Kinds == {"none", "EOF", "I10", "SEQ", "BEGIN", "WHILE", "IF"}

NodeKinds == Kinds \ {"none", "EOF"}

TokenType ==
    [kind : Kinds, value : Seq(Nat), node : Refs, parent : Refs, children : Seq(Refs)]

Callers == {"pass", "parenthetic_handler", "start_sequence", "extend_sequence"}

FrameType ==
    [caller : Callers, tok : Nat, min_power : {"least", "NJUX"}, lhs : TokenType,
     left : Nat, at : {"null denotation", "peek", "njux_handler"}]

TreeTyped ==
    /\ input \in Seq(Words)
    /\ pos \in Nat /\ (Len(input) = pos \/ Len(input) = pos + 1)
    /\ stack \in Seq(FrameType) /\ stack # <<>>
    /\ node_counter \in Nat
    /\ output \in Seq(TokenType)
    /\ status \in {"running", "done", "not written", "exited", "syntax error"}

-------------------------------------------------------------------------------
\* How the calls are nested.

ForRhs(f) == f.caller \in {"start_sequence", "extend_sequence"}

\* A node that is held.  A sequence has the children that shuffle_SEQ needs.
HoldOK(t) == t.kind \in NodeKinds /\ (t.kind = "SEQ" => Len(t.children) > 1)

FrameOK(f) ==
    /\ f.at = "null denotation" => f.lhs = NoToken
    /\ f.at = "njux_handler" =>
         /\ HoldOK(f.lhs) /\ f.min_power = "least"
         /\ f.left \in 1 .. pos /\ input[f.left] = ";"
    /\ f.at = "peek" =>
         \/ HoldOK(f.lhs)
         \/ f.lhs = EofToken(pos + 1) /\ IsRead /\ Token = "EOF" /\ ~ ForRhs(f)
    /\ f.min_power = "NJUX" <=> ForRhs(f)
    /\ f.caller = "parenthetic_handler" => f.tok \in 1 .. pos /\ input[f.tok] \in Openers
    /\ ForRhs(f) => f.tok \in 1 .. pos /\ input[f.tok] = ";"
    /\ f.caller = "pass" => f.tok = 0

\* The call g is made by f.
Calls(f, g) ==
    /\ g.caller # "pass"
    /\ g.caller = "parenthetic_handler" => f.at = "null denotation"
    /\ ForRhs(g) => /\ f.at = "njux_handler" /\ g.tok = f.left
                    /\ g.caller = "extend_sequence" <=> f.lhs.kind = "SEQ"

\* What is parsed after a separator begins with something else.
RhsAhead(f) ==
    f.at = "null denotation" /\ ForRhs(f) =>
        IsRead /\ Token # ";" /\ ~ EndsSequence(Token)

Nested ==
    /\ stack[1].caller = "pass"
    /\ \A k \in 1 .. Len(stack) : FrameOK(stack[k])
    /\ \A k \in 1 .. Len(stack) - 1 : Calls(stack[k], stack[k + 1])
    /\ RhsAhead(Top)

-------------------------------------------------------------------------------
\* What is accepted.

OpenOf == [f \in FrameType |-> IF f.caller = "parenthetic_handler" /\ f.tok \in DOMAIN input
                               THEN <<input[f.tok]>> ELSE <<>>]

Opened == FlatMap(OpenOf, stack)

Before == Judged[pos][1]

\* A separator is the last, before what ends a sequence.
Separated(b) == b = "separator" /\ IsRead /\ EndsSequence(Token)

\* Where a call may be after what there is before.
FitsFor(f, b) ==
    \/ /\ f.at = "null denotation" /\ f.caller = "pass"
       /\ \/ b = "start"
          \/ b = "item" /\ IsRead /\ Token # ";"
          \/ Separated(b)
    \/ f.at = "null denotation" /\ f.caller = "parenthetic_handler" /\ b = "open"
    \/ f.at = "null denotation" /\ ForRhs(f) /\ b = "separator"
    \/ f.at = "peek" /\ f.lhs.kind = "EOF" /\ b \notin {"dead", "end"}
    \/ f.at = "peek" /\ f.lhs.kind # "EOF" /\ (b = "item" \/ Separated(b))
    \/ f.at = "njux_handler" /\ b = "separator"

Accepted ==
    /\ status \in {"running", "done"} => Judged[pos][2] = Opened
    /\ status = "running" => FitsFor(Top, Before)
    /\ status = "done" => Verdict = "end" /\ Top.caller = "pass" /\ Top.lhs.kind = "EOF"
    /\ status \in {"syntax error", "exited"} => Verdict = "dead"

-------------------------------------------------------------------------------
\* The stack.

Below == Front(stack)
Below2 == Front(Front(stack))

LEMMA StackFacts ==
    ASSUME TreeTyped
    PROVE  /\ Len(stack) \in Nat \ {0}
           /\ Below \in Seq(FrameType) /\ Len(Below) = Len(stack) - 1
           /\ Top \in FrameType
           /\ \A k \in 1 .. Len(stack) - 1 : Below[k] = stack[k]
           /\ stack = Append(Below, Top)
           /\ \A k \in 1 .. Len(stack) : stack[k] \in FrameType
  <1>1. \A k \in 1 .. Len(stack) : stack[k] \in FrameType
    BY ElementOfSeq DEF TreeTyped
  <1>. QED  BY <1>1, FrontFacts DEF TreeTyped, Below, Top

LEMMA BelowSize ==
    ASSUME TreeTyped
    PROVE  Len(Below) \in Nat /\ Len(stack) = Len(Below) + 1
  <1>1. Len(stack) \in Nat \ {0} /\ Len(Below) = Len(stack) - 1
    BY StackFacts
  <1>. QED  BY <1>1

LEMMA CallerFacts ==
    ASSUME TreeTyped, Len(stack) > 1
    PROVE  /\ Len(stack) \in Nat
           /\ Below2 \in Seq(FrameType) /\ Len(Below2) = Len(stack) - 2
           /\ Caller \in FrameType
           /\ \A k \in 1 .. Len(stack) - 2 : Below2[k] = stack[k]
           /\ Below = Append(Below2, Caller)
  <1>1. PICK n \in Nat : n = Len(stack) /\ n > 1
    BY StackFacts
  <1>2. /\ Below \in Seq(FrameType) /\ Len(Below) = n - 1 /\ Below # <<>>
        /\ \A k \in 1 .. n - 1 : Below[k] = stack[k]
    <2>1. Below # <<>>
      BY <1>1, StackFacts, EmptySeq
    <2>. QED  BY <1>1, <2>1, StackFacts
  <1>3. /\ Front(Below) \in Seq(FrameType) /\ Len(Front(Below)) = Len(Below) - 1
        /\ Below[Len(Below)] \in FrameType
        /\ \A k \in 1 .. Len(Below) - 1 : Front(Below)[k] = Below[k]
        /\ Below = Append(Front(Below), Below[Len(Below)])
    BY <1>2, FrontFacts
  <1>4. Below2 = Front(Below)
    BY DEF Below2, Below
  <1>5. Caller = Below[n - 1]
    <2>1. n - 1 \in 1 .. n - 1
      BY <1>1
    <2>. QED  BY <1>1, <1>2, <2>1 DEF Caller
  <1>6. \A k \in 1 .. n - 2 : Front(Below)[k] = stack[k]
    <2>1. \A k \in 1 .. n - 2 : k \in 1 .. n - 1 /\ k \in 1 .. Len(Below) - 1
      BY <1>1, <1>2
    <2>. QED  BY <1>2, <1>3, <2>1
  <1>. QED  BY <1>1, <1>2, <1>3, <1>4, <1>5, <1>6

LEMMA Sizes ==
    ASSUME TreeTyped
    PROVE  /\ pos \in Nat /\ Len(input) \in Nat /\ (Len(input) = pos \/ Len(input) = pos + 1)
           /\ pos + 1 \in Nat /\ node_counter \in Nat /\ node_counter + 1 \in Nat
           /\ input \in Seq(Words) /\ stack \in Seq(FrameType) /\ stack # <<>>
           /\ output \in Seq(TokenType)
  <1>1. /\ pos \in Nat /\ (Len(input) = pos \/ Len(input) = pos + 1) /\ node_counter \in Nat
        /\ input \in Seq(Words) /\ stack \in Seq(FrameType) /\ stack # <<>>
        /\ output \in Seq(TokenType)
    BY DEF TreeTyped
  <1>. QED  BY <1>1

-------------------------------------------------------------------------------
\* Tokens and frames.

LEMMA TokenTypes ==
    /\ NoToken \in TokenType /\ NoReference \in Refs
    /\ \A k \in Nat : EofToken(k) \in TokenType
    /\ \A a \in This, n \in Nat : Reference(a, n) \in Refs
  <1>1. -1 \in This /\ NoReference \in Refs
    BY DEF This, Refs, NoReference, Reference
  <1>2. \A a \in This, n \in Nat : Reference(a, n) \in Refs
    BY DEF Refs, Reference
  <1>3. "none" \in Kinds /\ "EOF" \in Kinds /\ <<>> \in Seq(Nat) /\ <<>> \in Seq(Refs)
    BY DEF Kinds
  <1>4. \A k \in Nat : <<k>> \in Seq(Nat)
    OBVIOUS
  <1>. QED  BY <1>1, <1>2, <1>3, <1>4 DEF TokenType, NoToken, EofToken

NodeIs(t, kind, v, n, children) ==
    /\ t \in TokenType /\ t.kind = kind /\ t.value = v /\ t.node.number = n
    /\ t.parent = NoReference /\ t.children = children

LEMMA NodeType ==
    ASSUME NEW kind \in NodeKinds, NEW v \in Seq(Nat), NEW this \in Garbage,
           NEW n \in Nat, NEW children \in Seq(Refs)
    PROVE  NodeIs(Node(kind, v, this, n, children), kind, v, n, children)
  <1>1. this \in This /\ kind \in Kinds
    BY DEF This, NodeKinds
  <1>2. Reference(this, n) \in Refs /\ NoReference \in Refs /\ Reference(this, n).number = n
    BY <1>1, TokenTypes DEF Reference
  <1>. QED  BY <1>1, <1>2 DEF Node, NodeIs, TokenType

LEMMA WithParentType ==
    ASSUME NEW t \in TokenType, NEW ref \in Refs
    PROVE  /\ WithParent(t, ref) \in TokenType
           /\ WithParent(t, ref).kind = t.kind
           /\ WithParent(t, ref).value = t.value
           /\ WithParent(t, ref).node = t.node
           /\ WithParent(t, ref).parent = ref
           /\ WithParent(t, ref).children = t.children
  BY DEF TokenType, WithParent

LEMMA TokenFields ==
    ASSUME NEW t \in TokenType
    PROVE  /\ t.kind \in Kinds /\ t.value \in Seq(Nat) /\ t.node \in Refs
           /\ t.parent \in Refs /\ t.children \in Seq(Refs)
           /\ t.node.number \in Nat /\ t.parent.number \in Nat
  BY DEF TokenType, Refs

LEMMA FrameFields ==
    ASSUME NEW f \in FrameType
    PROVE  /\ f.caller \in Callers /\ f.tok \in Nat /\ f.min_power \in {"least", "NJUX"}
           /\ f.lhs \in TokenType /\ f.left \in Nat
           /\ f.at \in {"null denotation", "peek", "njux_handler"}
  BY DEF FrameType

FrameIs(g, caller, k, power) ==
    /\ g \in FrameType /\ g.caller = caller /\ g.tok = k /\ g.min_power = power
    /\ g.lhs = NoToken /\ g.left = 0 /\ g.at = "null denotation"

LEMMA NewFrame ==
    ASSUME NEW caller \in Callers, NEW k \in Nat, NEW power \in {"least", "NJUX"}
    PROVE  FrameIs(Frame(caller, k, power), caller, k, power)
  BY TokenTypes DEF Frame, FrameIs, FrameType

LEMMA GoesOn ==
    ASSUME NEW f \in FrameType, NEW t \in TokenType
    PROVE  /\ GoOn(f, t) \in FrameType
           /\ GoOn(f, t).caller = f.caller
           /\ GoOn(f, t).tok = f.tok
           /\ GoOn(f, t).min_power = f.min_power
           /\ GoOn(f, t).lhs = t
           /\ GoOn(f, t).left = f.left
           /\ GoOn(f, t).at = "peek"
  BY DEF GoOn, FrameType

-------------------------------------------------------------------------------
\* How the calls stay nested.

\* The tokens that are consumed stay so.
Onward ==
    /\ pos' \in Nat /\ pos <= pos'
    /\ \A k \in 1 .. pos : input'[k] = input[k]

LEMMA FrameKept ==
    ASSUME TreeTyped, Onward, NEW f \in FrameType, FrameOK(f),
           f.at # "peek" \/ f.lhs.kind \in NodeKinds
    PROVE  FrameOK(f)'
  <1>1. \A k \in 1 .. pos : k \in 1 .. pos' /\ input'[k] = input[k]
    <2>1. pos \in Nat /\ pos' \in Nat /\ pos <= pos' /\ \A k \in 1 .. pos : input'[k] = input[k]
      BY Sizes DEF Onward
    <2>. QED  BY <2>1
  <1>2. f.lhs.kind \in NodeKinds => f.lhs # EofToken(pos + 1)
    BY DEF NodeKinds, EofToken
  <1>. QED  BY <1>1, <1>2 DEF FrameOK, ForRhs

LEMMA BelowNotPeek ==
    ASSUME TreeTyped, Nested
    PROVE  \A k \in 1 .. Len(stack) - 1 : stack[k].at \in {"null denotation", "njux_handler"}
  <1>. SUFFICES ASSUME NEW k \in 1 .. Len(stack) - 1
                PROVE  stack[k].at \in {"null denotation", "njux_handler"}
    OBVIOUS
  <1>1. k + 1 \in 1 .. Len(stack)
    BY StackFacts
  <1>2. Calls(stack[k], stack[k + 1])
    BY DEF Nested
  <1>3. stack[k + 1].caller \in Callers
    BY <1>1, StackFacts, FrameFields
  <1>. QED  BY <1>2, <1>3 DEF Calls, ForRhs, Callers

\* The first frames are kept and there is one more.
LEMMA Stacked ==
    ASSUME TreeTyped, Nested, Onward, NEW n \in 0 .. Len(stack), NEW g,
           Len(stack') = n + 1, stack'[n + 1] = g,
           \A k \in 1 .. n : stack'[k] = stack[k],
           FrameOK(g)', RhsAhead(g)',
           n = 0 => g.caller = "pass",
           n > 0 => Calls(stack[n], g) /\ stack[n].at # "peek"
    PROVE  Nested'
  <1>0. n \in Nat /\ Len(stack) \in Nat \ {0}
    BY StackFacts
  <1>1. stack'[1].caller = "pass"
    <2>1. CASE n = 0
      BY <2>1
    <2>2. CASE n # 0
      <3>1. 1 \in 1 .. n
        BY <1>0, <2>2
      <3>. QED  BY <3>1 DEF Nested
    <2>. QED  BY <2>1, <2>2
  <1>2. ASSUME NEW k \in 1 .. n + 1 PROVE FrameOK(stack[k])'
    <2>1. CASE k = n + 1
      BY <2>1
    <2>2. CASE k # n + 1
      <3>1. k \in 1 .. n /\ k \in 1 .. Len(stack) /\ (k # n => k \in 1 .. Len(stack) - 1)
        BY <1>0, <2>2
      <3>2. stack[k].at # "peek"
        <4>1. CASE k = n
          BY <3>1, <4>1, <1>0
        <4>2. CASE k # n
          BY <3>1, <4>2, BelowNotPeek
        <4>. QED  BY <4>1, <4>2
      <3>3. PICK f \in FrameType : f = stack[k] /\ FrameOK(f)
        BY <3>1, StackFacts DEF Nested
      <3>4. FrameOK(f)'
        BY <3>2, <3>3, FrameKept
      <3>. QED  BY <3>1, <3>3, <3>4
    <2>. QED  BY <2>1, <2>2
  <1>3. ASSUME NEW k \in 1 .. n PROVE Calls(stack'[k], stack'[k + 1])
    <2>1. CASE k = n
      BY <2>1, <1>0
    <2>2. CASE k # n
      <3>1. k \in 1 .. Len(stack) - 1 /\ k + 1 \in 1 .. n
        BY <1>0, <2>2
      <3>. QED  BY <3>1 DEF Nested
    <2>. QED  BY <2>1, <2>2
  <1>4. (n + 1) - 1 = n
    BY <1>0
  <1>5. RhsAhead(Top)'
    <2>1. Top' = g
      BY DEF Top
    <2>. QED  BY <2>1
  <1>. QED  BY <1>1, <1>2, <1>3, <1>4, <1>5 DEF Nested

\* The latest call goes on, calls or returns.
LEMMA TopNested ==
    ASSUME TreeTyped, Nested, Onward, NEW g \in FrameType, stack' = Append(Below, g),
           g.caller = Top.caller, g.tok = Top.tok, FrameOK(g)', RhsAhead(g)'
    PROVE  Nested' /\ stack' \in Seq(FrameType) /\ stack' # <<>>
  <1>1. PICK n \in Nat : n = Len(Below) /\ Len(stack) = n + 1
    BY BelowSize, Zenon
  <1>2. /\ stack' \in Seq(FrameType) /\ stack' # <<>>
        /\ Len(stack') = n + 1 /\ stack'[n + 1] = g
        /\ \A k \in 1 .. n : stack'[k] = stack[k]
    BY <1>1, StackFacts, AppendFacts
  <1>3. n > 0 => Calls(stack[n], g) /\ stack[n].at # "peek"
    <2>1. n > 0 => n \in 1 .. Len(stack) - 1 /\ n + 1 = Len(stack)
      BY <1>1
    <2>2. n > 0 => Calls(stack[n], Top)
      BY <2>1 DEF Nested, Top
    <2>3. n > 0 => stack[n].at # "peek"
      BY <2>1, BelowNotPeek
    <2>. QED  BY <2>2, <2>3 DEF Calls, ForRhs
  <1>4. n = 0 => g.caller = "pass"
    BY <1>1 DEF Nested, Top
  <1>5. n \in 0 .. Len(stack)
    BY <1>1
  <1>. QED  BY <1>2, <1>3, <1>4, <1>5, Stacked

LEMMA CallNested ==
    ASSUME TreeTyped, Nested, Onward, NEW g \in FrameType, stack' = Append(stack, g),
           Top.at # "peek", Calls(Top, g), FrameOK(g)', RhsAhead(g)'
    PROVE  Nested' /\ stack' \in Seq(FrameType) /\ stack' # <<>>
  <1>1. PICK n \in Nat \ {0} : n = Len(stack)
    BY StackFacts
  <1>2. /\ stack' \in Seq(FrameType) /\ stack' # <<>>
        /\ Len(stack') = n + 1 /\ stack'[n + 1] = g
        /\ \A k \in 1 .. n : stack'[k] = stack[k]
    BY <1>1, Sizes, AppendFacts
  <1>3. stack[n] = Top
    BY <1>1 DEF Top
  <1>5. n \in 0 .. Len(stack) /\ n # 0
    BY <1>1
  <1>. QED  BY <1>2, <1>3, <1>5, Stacked

LEMMA ReturnNested ==
    ASSUME TreeTyped, Nested, Onward, Len(stack) > 1,
           NEW g \in FrameType, stack' = Append(Below2, g),
           g.caller = Caller.caller, g.tok = Caller.tok, FrameOK(g)', RhsAhead(g)'
    PROVE  Nested' /\ stack' \in Seq(FrameType) /\ stack' # <<>>
  <1>1. PICK n \in Nat : n = Len(Below2) /\ Len(stack) = n + 2
    BY CallerFacts
  <1>2. /\ stack' \in Seq(FrameType) /\ stack' # <<>>
        /\ Len(stack') = n + 1 /\ stack'[n + 1] = g
        /\ \A k \in 1 .. n : stack'[k] = stack[k]
    BY <1>1, CallerFacts, AppendFacts
  <1>0. Caller = stack[n + 1]
    BY <1>1 DEF Caller
  <1>3. n > 0 => Calls(stack[n], g) /\ stack[n].at # "peek"
    <2>1. n > 0 => n \in 1 .. Len(stack) - 1
      BY <1>1
    <2>2. n > 0 => Calls(stack[n], Caller)
      BY <1>0, <2>1 DEF Nested
    <2>3. n > 0 => stack[n].at # "peek"
      BY <2>1, BelowNotPeek
    <2>. QED  BY <2>2, <2>3 DEF Calls, ForRhs
  <1>4. n = 0 => g.caller = "pass"
    BY <1>0 DEF Nested
  <1>5. n \in 0 .. Len(stack)
    BY <1>1
  <1>. QED  BY <1>2, <1>3, <1>4, <1>5, Stacked

\* A call that was made from another has that below it.
LEMMA HasCaller ==
    ASSUME TreeTyped, Nested, Top.caller # "pass"
    PROVE  /\ Len(stack) > 1 /\ Calls(Caller, Top) /\ FrameOK(Caller)
           /\ Caller.at = IF ForRhs(Top) THEN "njux_handler" ELSE "null denotation"
  <1>1. PICK n \in Nat \ {0} : n = Len(stack)
    BY StackFacts
  <1>2. n # 1
    BY <1>1 DEF Nested, Top
  <1>3. n - 1 \in 1 .. Len(stack) - 1 /\ n - 1 \in 1 .. Len(stack) /\ (n - 1) + 1 = n
    BY <1>1, <1>2
  <1>4. Calls(Caller, Top) /\ FrameOK(Caller)
    BY <1>1, <1>3 DEF Nested, Caller, Top
  <1>5. Top.caller \in Callers
    BY StackFacts, FrameFields
  <1>6. Len(stack) > 1
    BY <1>1, <1>2
  <1>7. Caller.at = IF ForRhs(Top) THEN "njux_handler" ELSE "null denotation"
    BY <1>4, <1>5 DEF Calls, ForRhs, Callers
  <1>. QED  BY <1>4, <1>6, <1>7

LEMMA TopOK ==
    ASSUME TreeTyped, Nested
    PROVE  FrameOK(Top) /\ Top \in FrameType
  <1>1. Len(stack) \in 1 .. Len(stack)
    BY StackFacts
  <1>. QED  BY <1>1, StackFacts DEF Nested, Top

\* What a call may go on with.
MayHold(t) ==
    \/ HoldOK(t)
    \/ t = EofToken(pos + 1) /\ IsRead /\ Token = "EOF"

LEMMA GoOnOK ==
    ASSUME TreeTyped, Onward, NEW f \in FrameType, FrameOK(f), f.at # "peek",
           NEW t \in TokenType, MayHold(t)', ForRhs(f) => HoldOK(t),
           NEW g, g = GoOn(f, t)
    PROVE  /\ g \in FrameType /\ g.caller = f.caller /\ g.tok = f.tok
           /\ FrameOK(g)' /\ RhsAhead(g)'
  <1>1. /\ g \in FrameType /\ g.caller = f.caller /\ g.tok = f.tok
        /\ g.min_power = f.min_power /\ g.lhs = t /\ g.left = f.left /\ g.at = "peek"
    BY GoesOn
  <1>2. FrameOK(f)'
    BY FrameKept
  <1>3. RhsAhead(g)'
    BY <1>1 DEF RhsAhead
  <1>4. FrameOK(g)'
    BY <1>1, <1>2 DEF FrameOK, ForRhs, MayHold
  <1>. QED  BY <1>1, <1>3, <1>4

LEMMA TopGoes ==
    ASSUME TreeTyped, Nested, Onward, Top.at # "peek",
           NEW t \in TokenType, MayHold(t)', ForRhs(Top) => HoldOK(t),
           stack' = TopGoesOn(t)
    PROVE  Nested' /\ stack' \in Seq(FrameType) /\ stack' # <<>>
  <1>1. PICK f \in FrameType : f = Top /\ FrameOK(f)
    BY TopOK
  <1>2. PICK g : g = GoOn(f, t)
    OBVIOUS
  <1>4. /\ g \in FrameType /\ g.caller = f.caller /\ g.tok = f.tok
        /\ FrameOK(g)' /\ RhsAhead(g)'
    BY <1>1, <1>2, GoOnOK
  <1>5. stack' = Append(Below, g)
    BY <1>1, <1>2 DEF TopGoesOn, Below
  <1>. QED  BY <1>1, <1>4, <1>5, TopNested

LEMMA CallerGoes ==
    ASSUME TreeTyped, Nested, Onward, Top.caller # "pass",
           NEW t \in TokenType, HoldOK(t), stack' = CallerGoesOn(t)
    PROVE  Nested' /\ stack' \in Seq(FrameType) /\ stack' # <<>>
  <1>1. Len(stack) > 1 /\ FrameOK(Caller) /\ Caller.at # "peek"
    BY HasCaller
  <1>2. PICK f \in FrameType : f = Caller /\ FrameOK(f)
    BY <1>1, CallerFacts
  <1>3. PICK g : g = GoOn(f, t)
    OBVIOUS
  <1>4. MayHold(t)'
    BY DEF MayHold
  <1>5. /\ g \in FrameType /\ g.caller = f.caller /\ g.tok = f.tok
        /\ FrameOK(g)' /\ RhsAhead(g)'
    BY <1>1, <1>2, <1>3, <1>4, GoOnOK
  <1>6. stack' = Append(Below2, g)
    BY <1>2, <1>3 DEF CallerGoesOn, Below2
  <1>. QED  BY <1>1, <1>2, <1>5, <1>6, ReturnNested

-------------------------------------------------------------------------------
\* The steps.

LEMMA AtFacts ==
    ASSUME TreeTyped, NEW place, At(place)
    PROVE  /\ status = "running" /\ IsRead /\ Top.at = place
           /\ Len(input) = pos + 1 /\ pos + 1 \in 1 .. Len(input)
           /\ Token \in Words /\ Token = input[pos + 1]
  <1>1. status = "running" /\ IsRead /\ Top.at = place
    BY DEF At
  <1>2. Len(input) = pos + 1 /\ pos + 1 \in 1 .. Len(input)
    BY <1>1 DEF IsRead, TreeTyped
  <1>3. Token \in Words
    BY <1>2, ElementOfSeq DEF Token, TreeTyped
  <1>. QED  BY <1>1, <1>2, <1>3 DEF Token

LEMMA ConsumeFacts ==
    ASSUME TreeTyped, IsRead, Consume, input' = input
    PROVE  /\ Onward /\ pos' \in Nat
           /\ (Len(input') = pos' \/ Len(input') = pos' + 1)
           /\ Token = "EOF" => pos' = pos
           /\ Token # "EOF" => pos' = pos + 1
  <1>1. /\ pos \in Nat /\ (Len(input) = pos \/ Len(input) = pos + 1) /\ pos < Len(input)
        /\ Token = "EOF" => pos' = pos
        /\ Token # "EOF" => pos' = pos + 1
    BY Sizes DEF IsRead, Consume
  <1>2. pos' \in Nat /\ pos <= pos' /\ (Len(input) = pos' \/ Len(input) = pos' + 1)
    BY <1>1
  <1>. QED  BY <1>1, <1>2 DEF Onward

LEMMA StaysFacts ==
    ASSUME TreeTyped, UNCHANGED <<input, pos>>
    PROVE  Onward /\ Token' = Token /\ IsRead' = IsRead
  <1>1. pos \in Nat /\ pos' = pos /\ input' = input
    BY Sizes
  <1>2. pos <= pos
    BY <1>1
  <1>. QED  BY <1>1, <1>2 DEF Onward, Token, IsRead

CallsInv == TreeTyped /\ (status = "running" => Nested)

LEMMA ReadTokenCalls ==
    ASSUME CallsInv, ReadToken
    PROVE  CallsInv'
  <1>1. /\ TreeTyped /\ Nested /\ status = "running" /\ ~ IsRead
        /\ UNCHANGED <<pos, stack, node_counter, output, status>>
    BY DEF CallsInv, ReadToken
  <1>2. PICK t \in Words : input' = Append(input, t)
    BY DEF ReadToken, Words
  <1>3. Len(input) = pos /\ input \in Seq(Words) /\ pos \in Nat
    BY <1>1 DEF TreeTyped, IsRead
  <1>4. /\ input' \in Seq(Words) /\ Len(input') = pos + 1
        /\ \A k \in 1 .. pos : input'[k] = input[k]
    BY <1>2, <1>3, AppendFacts
  <1>5. Onward
    BY <1>1, <1>3, <1>4 DEF Onward
  <1>6. TreeTyped'
    BY <1>1, <1>4 DEF TreeTyped
  <1>7. PICK f \in FrameType : f = Top /\ FrameOK(f)
    BY <1>1, TopOK
  <1>8. f.at # "peek" \/ f.lhs.kind \in NodeKinds
    BY <1>1, <1>7, FrameFields DEF FrameOK, HoldOK
  <1>9. FrameOK(f)'
    BY <1>1, <1>5, <1>7, <1>8, FrameKept
  <1>10. ~ (f.at = "null denotation" /\ ForRhs(f))
    BY <1>1, <1>7 DEF Nested, RhsAhead
  <1>11. RhsAhead(f)'
    BY <1>10 DEF RhsAhead, ForRhs
  <1>12. stack' = Append(Below, f)
    BY <1>1, <1>7, StackFacts
  <1>13. Nested'
    BY <1>1, <1>5, <1>7, <1>9, <1>11, <1>12, TopNested
  <1>. QED  BY <1>6, <1>13 DEF CallsInv

LEMMA PassThroughCalls ==
    ASSUME CallsInv, PassThrough
    PROVE  CallsInv'
  <1>1. /\ TreeTyped /\ Nested /\ At("null denotation") /\ Token = "EOF" /\ Consume
        /\ stack' = TopGoesOn(EofToken(pos + 1))
        /\ UNCHANGED <<input, node_counter, output, status>>
    BY DEF CallsInv, PassThrough, At
  <1>2. IsRead /\ Top.at = "null denotation" /\ pos \in Nat
    BY <1>1, AtFacts DEF TreeTyped
  <1>3. pos' = pos /\ Onward
    BY <1>1, <1>2, ConsumeFacts
  <1>4. PICK t \in TokenType : t = EofToken(pos + 1)
    <2>1. pos + 1 \in Nat
      BY <1>1, Sizes
    <2>. QED  BY <2>1, TokenTypes
  <1>5. MayHold(t)'
    BY <1>1, <1>2, <1>3, <1>4, StaysFacts DEF MayHold
  <1>6. ~ ForRhs(Top)
    BY <1>1, <1>2 DEF Nested, RhsAhead, EndsSequence
  <1>7. Nested' /\ stack' \in Seq(FrameType) /\ stack' # <<>>
    BY <1>1, <1>2, <1>3, <1>4, <1>5, <1>6, TopGoes
  <1>8. TreeTyped'
    BY <1>1, <1>3, <1>7 DEF TreeTyped
  <1>. QED  BY <1>7, <1>8 DEF CallsInv

LEMMA ReferenceCalls ==
    ASSUME CallsInv, ReferenceHandler
    PROVE  CallsInv'
  <1>1. /\ TreeTyped /\ Nested /\ At("null denotation") /\ Token = "1" /\ Consume
        /\ node_counter' = node_counter + 1
        /\ UNCHANGED <<input, output, status>>
    BY DEF CallsInv, ReferenceHandler, At
  <1>2. IsRead /\ Top.at = "null denotation" /\ pos \in Nat /\ node_counter \in Nat
    BY <1>1, AtFacts DEF TreeTyped
  <1>3. Onward /\ pos' \in Nat /\ (Len(input') = pos' \/ Len(input') = pos' + 1)
    BY <1>1, <1>2, ConsumeFacts
  <1>4. PICK this \in Garbage :
           stack' = TopGoesOn(Node("I10", <<pos + 1>>, this, node_counter', <<>>))
    BY DEF ReferenceHandler
  <1>5. PICK t : t = Node("I10", <<pos + 1>>, this, node_counter', <<>>)
    OBVIOUS
  <1>6. t \in TokenType /\ t.kind = "I10"
    <2>0. PICK v \in Nat : v = pos + 1
      BY <1>1, Sizes
    <2>3. node_counter' \in Nat
      BY <1>1, Sizes
    <2>4. "I10" \in NodeKinds
      BY DEF NodeKinds, Kinds
    <2>5. <<v>> \in Seq(Nat) /\ <<>> \in Seq(Refs)
      OBVIOUS
    <2>1. "I10" \in NodeKinds /\ <<pos + 1>> \in Seq(Nat) /\ node_counter' \in Nat
          /\ <<>> \in Seq(Refs)
      BY <2>0, <2>3, <2>4, <2>5
    <2>2. NodeIs(t, "I10", <<pos + 1>>, node_counter', <<>>)
      BY <1>5, <2>1, NodeType
    <2>. QED  BY <2>2 DEF NodeIs
  <1>7. HoldOK(t)
    BY <1>6 DEF HoldOK, NodeKinds, Kinds
  <1>8. MayHold(t)'
    BY <1>7 DEF MayHold
  <1>9. Nested' /\ stack' \in Seq(FrameType) /\ stack' # <<>>
    BY <1>1, <1>2, <1>3, <1>4, <1>5, <1>6, <1>7, <1>8, TopGoes
  <1>10. TreeTyped'
    <2>1. node_counter' \in Nat
      BY <1>1, Sizes
    <2>. QED  BY <1>1, <1>3, <1>9, <2>1 DEF TreeTyped
  <1>. QED  BY <1>9, <1>10 DEF CallsInv

LEMMA OpenBracketCalls ==
    ASSUME CallsInv, OpenBracket
    PROVE  CallsInv'
  <1>1. /\ TreeTyped /\ Nested /\ At("null denotation") /\ Token \in Openers /\ Consume
        /\ stack' = Append(stack, Frame("parenthetic_handler", pos + 1, "least"))
        /\ UNCHANGED <<input, node_counter, output, status>>
    BY DEF CallsInv, OpenBracket, At
  <1>2. /\ IsRead /\ Top.at = "null denotation" /\ pos \in Nat
        /\ Token = input[pos + 1] /\ Token # "EOF"
    BY <1>1, AtFacts DEF TreeTyped, Openers
  <1>3. Onward /\ pos' = pos + 1 /\ pos' \in Nat /\ (Len(input') = pos' \/ Len(input') = pos' + 1)
    BY <1>1, <1>2, ConsumeFacts
  <1>4. PICK g : g = Frame("parenthetic_handler", pos + 1, "least")
    OBVIOUS
  <1>5. /\ g \in FrameType /\ g.caller = "parenthetic_handler" /\ g.tok = pos + 1
        /\ g.min_power = "least" /\ g.lhs = NoToken /\ g.at = "null denotation"
    <2>1. "parenthetic_handler" \in Callers /\ pos + 1 \in Nat /\ "least" \in {"least", "NJUX"}
      BY <1>1, Sizes DEF Callers
    <2>2. FrameIs(g, "parenthetic_handler", pos + 1, "least")
      BY <1>4, <2>1, NewFrame
    <2>. QED  BY <2>2 DEF FrameIs
  <1>6. Calls(Top, g)
    BY <1>2, <1>5 DEF Calls, ForRhs
  <1>7. FrameOK(g)'
    <2>1. g.tok \in 1 .. pos' /\ input'[g.tok] \in Openers
      <3>0. pos \in Nat
        BY <1>2
      <3>1. pos + 1 \in 1 .. pos + 1
        BY <3>0
      <3>. QED  BY <1>1, <1>2, <1>3, <1>5, <3>1
    <2>. QED  BY <1>5, <2>1 DEF FrameOK, ForRhs
  <1>8. RhsAhead(g)'
    BY <1>5 DEF RhsAhead, ForRhs
  <1>9. Nested' /\ stack' \in Seq(FrameType) /\ stack' # <<>>
    BY <1>1, <1>2, <1>3, <1>4, <1>5, <1>6, <1>7, <1>8, CallNested
  <1>10. TreeTyped'
    BY <1>1, <1>3, <1>9 DEF TreeTyped
  <1>. QED  BY <1>9, <1>10 DEF CallsInv

\* The pass ends here.
LEMMA EndingCalls ==
    ASSUME CallsInv, DefaultHandler \/ CloseError \/ PutEof
    PROVE  CallsInv' /\ status' # "running"
  <1>1. /\ TreeTyped /\ \E place \in {"null denotation", "peek"} : At(place)
        /\ UNCHANGED <<input, stack, node_counter>>
        /\ (Consume \/ UNCHANGED pos)
    BY DEF CallsInv, DefaultHandler, CloseError, PutEof, ReturnsTo
  <1>2. IsRead /\ Top \in FrameType
    BY <1>1, AtFacts, StackFacts
  <1>3. pos' \in Nat /\ (Len(input') = pos' \/ Len(input') = pos' + 1)
    <2>1. CASE Consume
      BY <1>1, <1>2, <2>1, ConsumeFacts
    <2>2. CASE UNCHANGED pos
      BY <1>1, <2>2 DEF TreeTyped
    <2>. QED  BY <1>1, <2>1, <2>2
  <1>4. output' \in Seq(TokenType)
    <2>1. output \in Seq(TokenType) /\ Top.lhs \in TokenType
      BY <1>1, <1>2, FrameFields DEF TreeTyped
    <2>2. Append(output, Top.lhs) \in Seq(TokenType)
      BY <2>1, AppendFacts
    <2>3. output' \in {output, Append(output, Top.lhs)}
      BY DEF DefaultHandler, CloseError, PutEof
    <2>. QED  BY <2>1, <2>2, <2>3
  <1>5. status' \in {"exited", "syntax error", "done", "not written"}
    BY DEF DefaultHandler, CloseError, PutEof
  <1>6. TreeTyped'
    BY <1>1, <1>3, <1>4, <1>5 DEF TreeTyped
  <1>. QED  BY <1>5, <1>6 DEF CallsInv

LEMMA LeftDenotationCalls ==
    ASSUME CallsInv, LeftDenotation
    PROVE  CallsInv'
  <1>1. /\ TreeTyped /\ Nested /\ At("peek") /\ BindsLeft /\ Consume
        /\ stack' = Append(Below, [Top EXCEPT !.left = pos + 1, !.at = "njux_handler"])
        /\ UNCHANGED <<input, node_counter, output, status>>
    BY DEF CallsInv, LeftDenotation, At, Below
  <1>2. /\ IsRead /\ Top.at = "peek" /\ pos \in Nat
        /\ Token = input[pos + 1] /\ Token = ";" /\ Top.min_power = "least"
    BY <1>1, AtFacts DEF TreeTyped, BindsLeft
  <1>3. Onward /\ pos' = pos + 1 /\ pos' \in Nat /\ (Len(input') = pos' \/ Len(input') = pos' + 1)
    BY <1>1, <1>2, ConsumeFacts
  <1>4. PICK f \in FrameType : f = Top /\ FrameOK(f)
    BY <1>1, TopOK
  <1>5. PICK g : g = [f EXCEPT !.left = pos + 1, !.at = "njux_handler"]
    OBVIOUS
  <1>6. /\ g \in FrameType /\ g.caller = f.caller /\ g.tok = f.tok /\ g.left = pos + 1
        /\ g.min_power = f.min_power /\ g.lhs = f.lhs /\ g.at = "njux_handler"
    <2>1. PICK p \in Nat : p = pos + 1
      BY <1>1, Sizes
    <2>2. g = [f EXCEPT !.left = p, !.at = "njux_handler"]
      BY <1>5, <2>1
    <2>. QED  BY <2>1, <2>2 DEF FrameType
  <1>7. HoldOK(f.lhs)
    BY <1>2, <1>4 DEF FrameOK
  <1>8. FrameOK(f)'
    BY <1>1, <1>3, <1>4, <1>7, FrameKept DEF HoldOK
  <1>9. FrameOK(g)'
    <2>1. g.left \in 1 .. pos' /\ input'[g.left] = ";"
      <3>0. pos \in Nat
        BY <1>2
      <3>1. pos + 1 \in 1 .. pos + 1
        BY <3>0
      <3>. QED  BY <1>1, <1>2, <1>3, <1>6, <3>1
    <2>. QED  BY <1>2, <1>4, <1>6, <1>7, <1>8, <2>1 DEF FrameOK, ForRhs
  <1>10. RhsAhead(g)'
    BY <1>6 DEF RhsAhead
  <1>11. Nested' /\ stack' \in Seq(FrameType) /\ stack' # <<>>
    BY <1>1, <1>3, <1>4, <1>5, <1>6, <1>9, <1>10, TopNested
  <1>12. TreeTyped'
    BY <1>1, <1>3, <1>11 DEF TreeTyped
  <1>. QED  BY <1>11, <1>12 DEF CallsInv

LEMMA ConsumeExtraCalls ==
    ASSUME CallsInv, ConsumeExtra
    PROVE  CallsInv'
  <1>1. /\ TreeTyped /\ Nested /\ At("njux_handler") /\ Consume
        /\ UNCHANGED <<input, stack, node_counter, output, status>>
    BY DEF CallsInv, ConsumeExtra, At
  <1>2. IsRead /\ Top.at = "njux_handler"
    BY <1>1, AtFacts
  <1>3. Onward /\ pos' \in Nat /\ (Len(input') = pos' \/ Len(input') = pos' + 1)
    BY <1>1, <1>2, ConsumeFacts
  <1>4. PICK f \in FrameType : f = Top /\ FrameOK(f)
    BY <1>1, TopOK
  <1>5. FrameOK(f)'
    BY <1>1, <1>2, <1>3, <1>4, FrameKept
  <1>6. RhsAhead(f)' /\ stack' = Append(Below, f)
    BY <1>1, <1>2, <1>4, StackFacts DEF RhsAhead
  <1>7. Nested' /\ stack' \in Seq(FrameType) /\ stack' # <<>>
    BY <1>1, <1>3, <1>4, <1>5, <1>6, TopNested
  <1>8. TreeTyped'
    BY <1>1, <1>3, <1>7 DEF TreeTyped
  <1>. QED  BY <1>7, <1>8 DEF CallsInv

LEMMA EndSequenceCalls ==
    ASSUME CallsInv, EndSequence
    PROVE  CallsInv'
  <1>1. /\ TreeTyped /\ Nested /\ At("njux_handler")
        /\ stack' = TopGoesOn(Top.lhs)
        /\ UNCHANGED <<input, pos, node_counter, output, status>>
    BY DEF CallsInv, EndSequence, At
  <1>2. Top.at = "njux_handler" /\ Onward
    BY <1>1, AtFacts, StaysFacts
  <1>3. PICK t \in TokenType : t = Top.lhs /\ HoldOK(t)
    <2>1. FrameOK(Top) /\ Top.lhs \in TokenType
      BY <1>1, TopOK, FrameFields
    <2>. QED  BY <1>2, <2>1 DEF FrameOK
  <1>4. MayHold(t)'
    BY <1>3 DEF MayHold
  <1>5. Nested' /\ stack' \in Seq(FrameType) /\ stack' # <<>>
    BY <1>1, <1>2, <1>3, <1>4, TopGoes
  <1>6. TreeTyped'
    BY <1>1, <1>5 DEF TreeTyped
  <1>. QED  BY <1>5, <1>6 DEF CallsInv

LEMMA CallForRhsCalls ==
    ASSUME CallsInv, CallForRhs
    PROVE  CallsInv'
  <1>1. /\ TreeTyped /\ Nested /\ At("njux_handler") /\ Token # ";" /\ ~ EndsSequence(Token)
        /\ UNCHANGED <<input, pos, node_counter, output, status>>
    BY DEF CallsInv, CallForRhs, At
  <1>2. Top.at = "njux_handler" /\ IsRead /\ Onward /\ Token' = Token /\ IsRead' = IsRead
    BY <1>1, AtFacts, StaysFacts
  <1>3. PICK c : /\ c = IF Top.lhs.kind = "SEQ" THEN "extend_sequence" ELSE "start_sequence"
                 /\ stack' = Append(stack, Frame(c, Top.left, "NJUX"))
    BY DEF CallForRhs
  <1>4. Top.left \in Nat /\ Top.left \in 1 .. pos /\ input[Top.left] = ";"
    BY <1>1, <1>2, TopOK, FrameFields DEF FrameOK
  <1>5. PICK g : g = Frame(c, Top.left, "NJUX")
    OBVIOUS
  <1>6. /\ g \in FrameType /\ g.caller = c /\ g.tok = Top.left /\ ForRhs(g)
        /\ g.min_power = "NJUX" /\ g.lhs = NoToken /\ g.at = "null denotation"
    <2>1. c \in Callers /\ "NJUX" \in {"least", "NJUX"}
      BY <1>3 DEF Callers
    <2>2. FrameIs(g, c, Top.left, "NJUX")
      BY <1>4, <1>5, <2>1, NewFrame
    <2>. QED  BY <1>3, <2>2 DEF FrameIs, ForRhs
  <1>7. Calls(Top, g)
    BY <1>2, <1>3, <1>6 DEF Calls, ForRhs
  <1>8. FrameOK(g)'
    <2>1. g.tok \in 1 .. pos' /\ input'[g.tok] = ";"
      BY <1>1, <1>4, <1>6
    <2>. QED  BY <1>3, <1>6, <2>1 DEF FrameOK, ForRhs
  <1>9. RhsAhead(g)'
    BY <1>1, <1>2 DEF RhsAhead
  <1>10. Nested' /\ stack' \in Seq(FrameType) /\ stack' # <<>>
    BY <1>1, <1>2, <1>3, <1>5, <1>6, <1>7, <1>8, <1>9, CallNested
  <1>11. TreeTyped'
    BY <1>1, <1>10 DEF TreeTyped
  <1>. QED  BY <1>10, <1>11 DEF CallsInv

-------------------------------------------------------------------------------
\* The steps that put tokens.

LEMMA PutFacts ==
    ASSUME TreeTyped, NEW ts \in Seq(TokenType), NEW s, Put(ts, s)
    PROVE  /\ output' \in Seq(TokenType)
           /\ \/ output' = output \o ts /\ stack' = s /\ status' = status
              \/ status' = "not written" /\ stack' = stack
  <1>1. CASE output' = output \o ts /\ stack' = s /\ status' = status
    <2>1. output \o ts \in Seq(TokenType)
      BY ConcatProperties DEF TreeTyped
    <2>. QED  BY <1>1, <2>1
  <1>2. ASSUME NEW n \in 0 .. Len(ts) - 1, output' = output \o SubSeq(ts, 1, n),
               status' = "not written", stack' = stack
        PROVE  output' \in Seq(TokenType)
    <2>1. SubSeq(ts, 1, n) \in Seq(TokenType)
      <3>1. Len(ts) \in Nat
        BY LenProperties
      <3>2. \A k \in 1 .. n : ts[k] \in TokenType
        BY <3>1, ElementOfSeq
      <3>. QED  BY <3>1, <3>2, SubSeqProperties
    <2>. QED  BY <1>2, <2>1, ConcatProperties DEF TreeTyped
  <1>. QED  BY <1>1, <1>2 DEF Put

\* What a call has returned: an item, and where there was one before it, that.
LEMMA ReturnFacts ==
    ASSUME TreeTyped, Nested, NEW caller, ReturnsTo(caller), caller # "pass"
    PROVE  /\ status = "running" /\ IsRead /\ Top.at = "peek" /\ Top.caller = caller
           /\ Len(stack) > 1 /\ Calls(Caller, Top) /\ FrameOK(Caller) /\ FrameOK(Top)
           /\ Caller \in FrameType /\ Top \in FrameType
           /\ Caller.lhs \in TokenType /\ Top.lhs \in TokenType /\ Top.tok \in Nat
           /\ ForRhs(Top) => HoldOK(Caller.lhs) /\ HoldOK(Top.lhs)
  <1>1. /\ status = "running" /\ IsRead /\ Top.at = "peek" /\ Top.caller = caller
    BY AtFacts DEF ReturnsTo
  <1>2. /\ Len(stack) > 1 /\ Calls(Caller, Top) /\ FrameOK(Caller) /\ FrameOK(Top)
        /\ Caller \in FrameType /\ Top \in FrameType
    BY <1>1, HasCaller, CallerFacts, TopOK
  <1>3. ForRhs(Top) => HoldOK(Caller.lhs) /\ HoldOK(Top.lhs)
    BY <1>1, <1>2 DEF FrameOK, Calls
  <1>. QED  BY <1>1, <1>2, <1>3, FrameFields

\* The sequence t with the number n, of the items q and p.
Started(q, p, t, n) ==
    /\ q = Caller.lhs /\ p = Top.lhs /\ HoldOK(q) /\ HoldOK(p)
    /\ n = node_counter + 1 /\ node_counter' = n
    /\ t.kind = "SEQ" /\ t.value = q.value \o <<Top.tok>> \o p.value
    /\ t.node.number = n /\ t.parent = NoReference /\ t.children = <<q.node, p.node>>
    /\ Put(<<WithParent(q, Reference(n, n)), WithParent(p, Reference(n, n))>>, CallerGoesOn(t))
    /\ UNCHANGED <<input, pos>>

LEMMA StartEffect ==
    ASSUME TreeTyped, Nested, StartSequence
    PROVE  \E q, p, t \in TokenType, n \in Nat : Started(q, p, t, n)
  <1>1. ReturnsTo("start_sequence") /\ node_counter' = node_counter + 1 /\ UNCHANGED <<input, pos>>
    BY DEF StartSequence
  <1>2. PICK n \in Nat : n = node_counter + 1 /\ node_counter' = n
    BY <1>1, Sizes
  <1>3. /\ Top.caller = "start_sequence" /\ Caller.lhs \in TokenType /\ Top.lhs \in TokenType
        /\ Top.tok \in Nat
        /\ ForRhs(Top) => HoldOK(Caller.lhs) /\ HoldOK(Top.lhs)
    BY <1>1, ReturnFacts
  <1>4. PICK q \in TokenType, p \in TokenType : q = Caller.lhs /\ p = Top.lhs /\ HoldOK(q) /\ HoldOK(p)
    BY <1>3 DEF ForRhs
  <1>5. PICK this \in Garbage :
           Put(<<WithParent(q, Reference(n, n)), WithParent(p, Reference(n, n))>>,
               CallerGoesOn(Node("SEQ", Concatenated(q, p), this, n, <<q.node, p.node>>)))
    BY <1>2, <1>4 DEF StartSequence
  <1>6. PICK t : t = Node("SEQ", Concatenated(q, p), this, n, <<q.node, p.node>>)
    OBVIOUS
  <1>7. /\ Concatenated(q, p) \in Seq(Nat) /\ <<q.node, p.node>> \in Seq(Refs)
        /\ Concatenated(q, p) = q.value \o <<Top.tok>> \o p.value
    <2>1. q.value \in Seq(Nat) /\ p.value \in Seq(Nat) /\ q.node \in Refs /\ p.node \in Refs
      BY TokenFields
    <2>2. <<Top.tok>> \in Seq(Nat)
      BY <1>3
    <2>3. <<q.node, p.node>> \in Seq(Refs)
      BY <2>1
    <2>4. Concatenated(q, p) = q.value \o <<Top.tok>> \o p.value
      BY DEF Concatenated
    <2>. QED  BY <2>1, <2>2, <2>3, <2>4, ConcatProperties
  <1>8. /\ t \in TokenType /\ t.kind = "SEQ" /\ t.value = Concatenated(q, p)
        /\ t.node.number = n /\ t.parent = NoReference /\ t.children = <<q.node, p.node>>
    <2>1. "SEQ" \in NodeKinds
      BY DEF NodeKinds, Kinds
    <2>2. NodeIs(t, "SEQ", Concatenated(q, p), n, <<q.node, p.node>>)
      BY <1>6, <1>7, <2>1, NodeType
    <2>. QED  BY <2>2 DEF NodeIs
  <1>9. Started(q, p, t, n)
    BY <1>1, <1>2, <1>4, <1>5, <1>6, <1>7, <1>8 DEF Started
  <1>. QED  BY <1>8, <1>9

LEMMA StartCalls ==
    ASSUME CallsInv, StartSequence
    PROVE  CallsInv'
  <1>1. TreeTyped /\ Nested /\ ReturnsTo("start_sequence")
    BY DEF CallsInv, StartSequence, ReturnsTo, At
  <1>2. PICK q \in TokenType, p \in TokenType, t \in TokenType, n \in Nat : Started(q, p, t, n)
    BY <1>1, StartEffect
  <1>3. /\ n = node_counter + 1 /\ node_counter' = n /\ UNCHANGED <<input, pos>>
        /\ t.kind = "SEQ" /\ t.children = <<q.node, p.node>>
        /\ Put(<<WithParent(q, Reference(n, n)), WithParent(p, Reference(n, n))>>, CallerGoesOn(t))
    BY <1>2 DEF Started
  <1>4. <<WithParent(q, Reference(n, n)), WithParent(p, Reference(n, n))>> \in Seq(TokenType)
    <2>1. Reference(n, n) \in Refs
      BY TokenTypes DEF This
    <2>2. WithParent(q, Reference(n, n)) \in TokenType /\ WithParent(p, Reference(n, n)) \in TokenType
      BY <2>1, WithParentType
    <2>. QED  BY <2>2
  <1>5. /\ output' \in Seq(TokenType)
        /\ \/ stack' = CallerGoesOn(t) /\ status' = status
           \/ status' = "not written" /\ stack' = stack
    BY <1>1, <1>3, <1>4, PutFacts
  <1>6. HoldOK(t)
    <2>1. Len(<<q.node, p.node>>) > 1
      OBVIOUS
    <2>. QED  BY <1>3, <2>1 DEF HoldOK, NodeKinds, Kinds
  <1>7. Onward /\ Top.caller # "pass"
    BY <1>1, <1>3, StaysFacts, ReturnFacts
  <1>8. stack' = CallerGoesOn(t) => Nested' /\ stack' \in Seq(FrameType) /\ stack' # <<>>
    BY <1>1, <1>6, <1>7, CallerGoes
  <1>9. TreeTyped'
    BY <1>1, <1>3, <1>5, <1>8 DEF TreeTyped
  <1>. QED  BY <1>5, <1>8, <1>9 DEF CallsInv

\* The sequence q with the item p more.
Extended(q, p, t) ==
    /\ q = Caller.lhs /\ p = Top.lhs /\ HoldOK(q) /\ HoldOK(p)
    /\ q.kind = "SEQ" /\ t.kind = "SEQ" /\ t.value = q.value \o <<Top.tok>> \o p.value
    /\ t.node.number = q.node.number /\ t.parent = NoReference
    /\ t.children = Append(q.children, p.node)
    /\ Put(<<WithParent(p, q.node)>>, CallerGoesOn(t))
    /\ UNCHANGED <<input, pos, node_counter>>

LEMMA ExtendEffect ==
    ASSUME TreeTyped, Nested, ExtendSequence
    PROVE  \E q, p, t \in TokenType : Extended(q, p, t)
  <1>1. ReturnsTo("extend_sequence") /\ UNCHANGED <<input, pos, node_counter>>
    BY DEF ExtendSequence
  <1>2. /\ Top.caller = "extend_sequence" /\ Caller.lhs \in TokenType /\ Top.lhs \in TokenType
        /\ Top.tok \in Nat /\ Calls(Caller, Top)
        /\ ForRhs(Top) => HoldOK(Caller.lhs) /\ HoldOK(Top.lhs)
    BY <1>1, ReturnFacts
  <1>3. Caller.lhs.kind = "SEQ" /\ HoldOK(Caller.lhs) /\ HoldOK(Top.lhs)
    BY <1>2 DEF ForRhs, Calls
  <1>4. PICK q \in TokenType, p \in TokenType : q = Caller.lhs /\ p = Top.lhs
    BY <1>2
  <1>5. PICK this \in Garbage :
           Put(<<WithParent(p, q.node)>>,
               CallerGoesOn(Node(q.kind, Concatenated(q, p), this, q.node.number,
                                 Append(q.children, p.node))))
    BY <1>4 DEF ExtendSequence
  <1>6. PICK t : t = Node(q.kind, Concatenated(q, p), this, q.node.number, Append(q.children, p.node))
    OBVIOUS
  <1>7. /\ Concatenated(q, p) \in Seq(Nat) /\ Append(q.children, p.node) \in Seq(Refs)
        /\ Concatenated(q, p) = q.value \o <<Top.tok>> \o p.value
        /\ q.node.number \in Nat
    <2>1. /\ q.value \in Seq(Nat) /\ p.value \in Seq(Nat) /\ p.node \in Refs
          /\ q.children \in Seq(Refs) /\ q.node.number \in Nat
      BY TokenFields
    <2>2. <<Top.tok>> \in Seq(Nat)
      BY <1>2
    <2>3. Append(q.children, p.node) \in Seq(Refs)
      BY <2>1, AppendFacts
    <2>4. Concatenated(q, p) = q.value \o <<Top.tok>> \o p.value
      BY DEF Concatenated
    <2>. QED  BY <2>1, <2>2, <2>3, <2>4, ConcatProperties
  <1>8. /\ t \in TokenType /\ t.kind = "SEQ" /\ t.value = Concatenated(q, p)
        /\ t.node.number = q.node.number /\ t.parent = NoReference
        /\ t.children = Append(q.children, p.node)
    <2>1. "SEQ" \in NodeKinds /\ q.kind = "SEQ"
      BY <1>3, <1>4 DEF NodeKinds, Kinds
    <2>2. NodeIs(t, "SEQ", Concatenated(q, p), q.node.number, Append(q.children, p.node))
      BY <1>6, <1>7, <2>1, NodeType
    <2>. QED  BY <2>2 DEF NodeIs
  <1>9. Extended(q, p, t)
    BY <1>1, <1>3, <1>4, <1>5, <1>6, <1>7, <1>8 DEF Extended
  <1>. QED  BY <1>8, <1>9

LEMMA ExtendCalls ==
    ASSUME CallsInv, ExtendSequence
    PROVE  CallsInv'
  <1>1. TreeTyped /\ Nested /\ ReturnsTo("extend_sequence")
    BY DEF CallsInv, ExtendSequence, ReturnsTo, At
  <1>2. PICK q \in TokenType, p \in TokenType, t \in TokenType : Extended(q, p, t)
    BY <1>1, ExtendEffect
  <1>3. /\ UNCHANGED <<input, pos, node_counter>> /\ HoldOK(q)
        /\ t.kind = "SEQ" /\ q.kind = "SEQ" /\ t.children = Append(q.children, p.node)
        /\ Put(<<WithParent(p, q.node)>>, CallerGoesOn(t))
    BY <1>2 DEF Extended
  <1>4. <<WithParent(p, q.node)>> \in Seq(TokenType)
    <2>1. WithParent(p, q.node) \in TokenType
      BY WithParentType, TokenFields
    <2>. QED  BY <2>1
  <1>5. /\ output' \in Seq(TokenType)
        /\ \/ stack' = CallerGoesOn(t) /\ status' = status
           \/ status' = "not written" /\ stack' = stack
    BY <1>1, <1>3, <1>4, PutFacts
  <1>6. HoldOK(t)
    <2>1. PICK c \in Nat : c = Len(q.children) /\ c > 1
      BY <1>3, TokenFields, LenProperties DEF HoldOK
    <2>2. Len(t.children) = c + 1
      BY <1>3, <2>1, TokenFields, AppendFacts
    <2>. QED  BY <1>3, <2>1, <2>2 DEF HoldOK, NodeKinds, Kinds
  <1>7. Onward /\ Top.caller # "pass"
    BY <1>1, <1>3, StaysFacts, ReturnFacts
  <1>8. stack' = CallerGoesOn(t) => Nested' /\ stack' \in Seq(FrameType) /\ stack' # <<>>
    BY <1>1, <1>6, <1>7, CallerGoes
  <1>9. TreeTyped'
    BY <1>1, <1>3, <1>5, <1>8 DEF TreeTyped
  <1>. QED  BY <1>5, <1>8, <1>9 DEF CallsInv

\* The new node t with the number n, of the bracket around the item p.
Single(p, t, n) ==
    /\ p = Top.lhs /\ HoldOK(p) /\ p.kind # "SEQ"
    /\ n = node_counter + 1 /\ node_counter' = n
    /\ t.kind = SequenceKind(input[Top.tok]) /\ t.kind \in NodeKinds \ {"SEQ", "I10"}
    /\ t.value = p.value
    /\ t.node.number = n /\ t.parent = NoReference /\ t.children = <<p.node>>
    /\ Put(<<WithParent(p, Reference(n, n))>>, CallerGoesOn(t))
    /\ Consume /\ UNCHANGED input /\ Token # "EOF"

LEMMA BracketFacts ==
    ASSUME NEW opener \in Openers
    PROVE  /\ SequenceKind(opener) \in NodeKinds \ {"SEQ", "I10"}
           /\ SequenceKind(opener) \in {"BEGIN", "WHILE", "IF"}
           /\ Closing(opener) \in {")", "end"}
  BY DEF Openers, SequenceKind, NodeKinds, Kinds, Closing

LEMMA SingleEffect ==
    ASSUME TreeTyped, Nested, CloseSingle
    PROVE  \E p, t \in TokenType, n \in Nat : Single(p, t, n)
  <1>1. /\ ReturnsTo("parenthetic_handler") /\ Top.lhs.kind # "SEQ"
        /\ Token = Closing(input[Top.tok]) /\ Consume
        /\ node_counter' = node_counter + 1 /\ UNCHANGED input
    BY DEF CloseSingle
  <1>2. PICK n \in Nat : n = node_counter + 1 /\ node_counter' = n
    BY <1>1, Sizes
  <1>3. /\ Top.caller = "parenthetic_handler" /\ Top.lhs \in TokenType /\ FrameOK(Top)
        /\ Top.at = "peek"
    BY <1>1, ReturnFacts
  <1>4. /\ input[Top.tok] \in Openers /\ Token # "EOF"
        /\ SequenceKind(input[Top.tok]) \in NodeKinds \ {"SEQ", "I10"}
    <2>1. input[Top.tok] \in Openers
      BY <1>3 DEF FrameOK
    <2>. QED  BY <1>1, <2>1, BracketFacts
  <1>5. PICK p \in TokenType : p = Top.lhs /\ HoldOK(p)
    BY <1>3, <1>4 DEF FrameOK
  <1>6. PICK this \in Garbage :
           Put(<<WithParent(p, Reference(n, n))>>,
               CallerGoesOn(Node(SequenceKind(input[Top.tok]), p.value, this, n, <<p.node>>)))
    BY <1>2, <1>5 DEF CloseSingle
  <1>7. PICK t : t = Node(SequenceKind(input[Top.tok]), p.value, this, n, <<p.node>>)
    OBVIOUS
  <1>8. /\ t \in TokenType /\ t.kind = SequenceKind(input[Top.tok]) /\ t.value = p.value
        /\ t.node.number = n /\ t.parent = NoReference /\ t.children = <<p.node>>
    <2>1. p.value \in Seq(Nat) /\ <<p.node>> \in Seq(Refs)
      BY TokenFields
    <2>2. NodeIs(t, SequenceKind(input[Top.tok]), p.value, n, <<p.node>>)
      BY <1>4, <1>7, <2>1, NodeType
    <2>. QED  BY <2>2 DEF NodeIs
  <1>9. Single(p, t, n)
    BY <1>1, <1>2, <1>4, <1>5, <1>6, <1>7, <1>8 DEF Single
  <1>. QED  BY <1>8, <1>9

LEMMA SingleCalls ==
    ASSUME CallsInv, CloseSingle
    PROVE  CallsInv'
  <1>1. TreeTyped /\ Nested /\ ReturnsTo("parenthetic_handler")
    BY DEF CallsInv, CloseSingle, ReturnsTo, At
  <1>2. PICK p \in TokenType, t \in TokenType, n \in Nat : Single(p, t, n)
    BY <1>1, SingleEffect
  <1>3. /\ n = node_counter + 1 /\ node_counter' = n /\ Consume /\ UNCHANGED input
        /\ t.kind \in NodeKinds \ {"SEQ", "I10"}
        /\ Put(<<WithParent(p, Reference(n, n))>>, CallerGoesOn(t))
    BY <1>2 DEF Single
  <1>4. <<WithParent(p, Reference(n, n))>> \in Seq(TokenType)
    <2>1. Reference(n, n) \in Refs
      BY TokenTypes DEF This
    <2>2. WithParent(p, Reference(n, n)) \in TokenType
      BY <2>1, WithParentType
    <2>. QED  BY <2>2
  <1>5. /\ output' \in Seq(TokenType)
        /\ \/ stack' = CallerGoesOn(t) /\ status' = status
           \/ status' = "not written" /\ stack' = stack
    BY <1>1, <1>3, <1>4, PutFacts
  <1>6. HoldOK(t)
    BY <1>3 DEF HoldOK
  <1>7. /\ Onward /\ Top.caller # "pass" /\ pos' \in Nat
        /\ (Len(input') = pos' \/ Len(input') = pos' + 1)
    BY <1>1, <1>3, ConsumeFacts, ReturnFacts
  <1>8. stack' = CallerGoesOn(t) => Nested' /\ stack' \in Seq(FrameType) /\ stack' # <<>>
    BY <1>1, <1>6, <1>7, CallerGoes
  <1>9. TreeTyped'
    BY <1>1, <1>3, <1>5, <1>7, <1>8 DEF TreeTyped
  <1>. QED  BY <1>5, <1>8, <1>9 DEF CallsInv

LEMMA PutRootCalls ==
    ASSUME CallsInv, PutRoot
    PROVE  CallsInv'
  <1>1. /\ TreeTyped /\ Nested /\ At("peek") /\ UNCHANGED <<input, pos, node_counter>>
        /\ Put(<<Top.lhs>>, <<Frame("pass", 0, "least")>>)
    BY DEF CallsInv, PutRoot, ReturnsTo, At
  <1>2. <<Top.lhs>> \in Seq(TokenType)
    <2>1. Top.lhs \in TokenType
      BY <1>1, StackFacts, FrameFields
    <2>. QED  BY <2>1
  <1>3. PICK g : g = Frame("pass", 0, "least")
    OBVIOUS
  <1>4. /\ output' \in Seq(TokenType)
        /\ \/ stack' = <<g>> /\ status' = status
           \/ status' = "not written" /\ stack' = stack
    BY <1>1, <1>2, <1>3, PutFacts
  <1>5. /\ g \in FrameType /\ g.caller = "pass" /\ g.tok = 0
        /\ g.min_power = "least" /\ g.lhs = NoToken /\ g.at = "null denotation"
    <2>1. "pass" \in Callers /\ 0 \in Nat /\ "least" \in {"least", "NJUX"}
      BY DEF Callers
    <2>2. FrameIs(g, "pass", 0, "least")
      BY <1>3, <2>1, NewFrame
    <2>. QED  BY <2>2 DEF FrameIs
  <1>6. stack' = <<g>> => stack' \in Seq(FrameType) /\ stack' # <<>> /\ Nested'
    <2>1. HAVE stack' = <<g>>
    <2>2. stack' \in Seq(FrameType) /\ stack' # <<>> /\ Len(stack') = 1 /\ stack'[1] = g
      <3>0. g \in FrameType
        BY <1>5
      <3>1. <<g>> \in Seq(FrameType) /\ <<g>> # <<>> /\ Len(<<g>>) = 1 /\ <<g>>[1] = g
        BY <3>0
      <3>. QED  BY <2>1, <3>1
    <2>3. FrameOK(g)' /\ RhsAhead(g)'
      BY <1>5 DEF FrameOK, RhsAhead, ForRhs
    <2>4. Onward
      BY <1>1, StaysFacts
    <2>5. PICK n \in 0 .. Len(stack) : n = 0
      <3>1. 0 \in 0 .. Len(stack)
        BY <1>1, StackFacts
      <3>. QED  BY <3>1
    <2>7. n + 1 = 1 /\ 1 .. n = {} /\ ~ (n > 0)
      BY <2>5
    <2>6. Nested'
      BY <1>1, <1>5, <2>2, <2>3, <2>4, <2>7, Stacked
    <2>. QED  BY <2>2, <2>6
  <1>7. TreeTyped'
    BY <1>1, <1>4, <1>6 DEF TreeTyped
  <1>. QED  BY <1>4, <1>6, <1>7 DEF CallsInv

-------------------------------------------------------------------------------
\* What shuffle_SEQ makes of children is the children in some order.

\* The order f makes x of s.
Orders(f, x, s) ==
    /\ f \in [1 .. Len(s) -> 1 .. Len(s)]
    /\ \A k, l \in 1 .. Len(s) : f[k] = f[l] => k = l
    /\ \A l \in 1 .. Len(s) : \E k \in 1 .. Len(s) : f[k] = l
    /\ \A k \in 1 .. Len(s) : x[k] = s[f[k]]

Permuted(X, x, s) ==
    x \in Seq(X) /\ Len(x) = Len(s) /\ \E f : Orders(f, x, s)

LEMMA SwapFacts ==
    ASSUME NEW X, NEW x \in Seq(X), NEW i \in 1 .. Len(x), NEW j \in 1 .. Len(x)
    PROVE  /\ Swap(x, i, j) \in Seq(X) /\ Len(Swap(x, i, j)) = Len(x)
           /\ \A k \in 1 .. Len(x) :
                 Swap(x, i, j)[k] = x[IF k = j THEN i ELSE IF k = i THEN j ELSE k]
  <1>1. PICK n \in Nat : n = Len(x) /\ x \in [1 .. n -> X] /\ DOMAIN x = 1 .. n
    BY LenProperties
  <1>. DEFINE y == [k \in 1 .. n |-> x[IF k = j THEN i ELSE IF k = i THEN j ELSE k]]
  <1>2. Swap(x, i, j) = y
    BY <1>1 DEF Swap
  <1>3. y \in [1 .. n -> X]
    BY <1>1
  <1>4. y \in Seq(X) /\ Len(y) = n
    BY <1>3
  <1>. QED  BY <1>1, <1>2, <1>4

LEMMA SwapPermutes ==
    ASSUME NEW X, NEW s \in Seq(X), NEW x, Permuted(X, x, s),
           NEW i \in 1 .. Len(s), NEW j \in 1 .. Len(s)
    PROVE  Permuted(X, Swap(x, i, j), s)
  <1>1. x \in Seq(X) /\ Len(x) = Len(s)
    BY DEF Permuted
  <1>2. PICK n \in Nat : n = Len(s)
    BY LenProperties
  <1>3. PICK f : Orders(f, x, s)
    BY DEF Permuted
  <1>4. /\ f \in [1 .. n -> 1 .. n]
        /\ \A k, l \in 1 .. n : f[k] = f[l] => k = l
        /\ \A l \in 1 .. n : \E k \in 1 .. n : f[k] = l
        /\ \A k \in 1 .. n : x[k] = s[f[k]]
    BY <1>2, <1>3 DEF Orders
  <1>. DEFINE e == [k \in 1 .. n |-> IF k = j THEN i ELSE IF k = i THEN j ELSE k]
              g == [k \in 1 .. n |-> f[e[k]]]
  <1>5. /\ e \in [1 .. n -> 1 .. n]
        /\ \A k \in 1 .. n : e[e[k]] = k
        /\ \A k \in 1 .. n : e[k] = IF k = j THEN i ELSE IF k = i THEN j ELSE k
    BY <1>2
  <1>6. /\ Swap(x, i, j) \in Seq(X) /\ Len(Swap(x, i, j)) = n
        /\ \A k \in 1 .. n : Swap(x, i, j)[k] = x[e[k]]
    BY <1>1, <1>2, <1>5, SwapFacts
  <1>. HIDE DEF e
  <1>7. g \in [1 .. n -> 1 .. n] /\ \A k \in 1 .. n : g[k] = f[e[k]]
    BY <1>4, <1>5
  <1>. HIDE DEF g
  <1>8. \A k, l \in 1 .. n : g[k] = g[l] => k = l
    <2>. SUFFICES ASSUME NEW k \in 1 .. n, NEW l \in 1 .. n, g[k] = g[l] PROVE k = l
      OBVIOUS
    <2>1. e[k] \in 1 .. n /\ e[l] \in 1 .. n /\ f[e[k]] = f[e[l]]
      BY <1>5, <1>7
    <2>2. e[k] = e[l]
      BY <1>4, <2>1
    <2>. QED  BY <1>5, <2>2
  <1>9. \A l \in 1 .. n : \E k \in 1 .. n : g[k] = l
    <2>. SUFFICES ASSUME NEW l \in 1 .. n PROVE \E k \in 1 .. n : g[k] = l
      OBVIOUS
    <2>1. PICK k \in 1 .. n : f[k] = l
      BY <1>4
    <2>2. e[k] \in 1 .. n /\ g[e[k]] = l
      BY <1>5, <1>7, <2>1
    <2>. QED  BY <2>2
  <1>10. \A k \in 1 .. n : Swap(x, i, j)[k] = s[g[k]]
    <2>. SUFFICES ASSUME NEW k \in 1 .. n PROVE Swap(x, i, j)[k] = s[g[k]]
      OBVIOUS
    <2>1. e[k] \in 1 .. n /\ Swap(x, i, j)[k] = x[e[k]] /\ g[k] = f[e[k]]
      BY <1>5, <1>6, <1>7
    <2>. QED  BY <1>4, <2>1
  <1>11. Orders(g, Swap(x, i, j), s)
    BY <1>2, <1>7, <1>8, <1>9, <1>10 DEF Orders
  <1>. QED  BY <1>2, <1>6, <1>11 DEF Permuted

LEMMA SelfPermuted ==
    ASSUME NEW X, NEW s \in Seq(X)
    PROVE  Permuted(X, s, s)
  <1>1. PICK n \in Nat : n = Len(s)
    BY LenProperties
  <1>. DEFINE f == [k \in 1 .. n |-> k]
  <1>2. Orders(f, s, s)
    BY <1>1 DEF Orders
  <1>. QED  BY <1>2 DEF Permuted

\* What shuffle_SEQ makes of s, from the last place that it swaps.
ShuffleStep(h, i) == {Swap(x, i + 1, j + 1) : x \in h[i + 1], j \in Random(i + 1)}

Shuffling(h, s, n) == h = [i \in 1 .. n |-> IF i = n THEN {s} ELSE ShuffleStep(h, i)]

ShufflingFrom(h, s, n, m) ==
    /\ h[n] = {s}
    /\ \A i \in n - m .. n - 1 : h[i] = ShuffleStep(h, i)

LEMMA ShufflesExist ==
    ASSUME NEW s, NEW n \in Nat
    PROVE  \E g : Shuffling(g, s, n)
  <1>. DEFINE S == {m \in Nat : \E h : ShufflingFrom(h, s, n, m)}
  <1>0. \A m : m \in S <=> m \in Nat /\ \E h : ShufflingFrom(h, s, n, m)
    OBVIOUS
  <1>. HIDE DEF S
  <1>1. 0 \in S
    <2>. DEFINE h == [i \in 0 .. n |-> {s}]
    <2>1. h[n] = {s} /\ n - 0 .. n - 1 = {}
      OBVIOUS
    <2>. HIDE DEF h
    <2>2. ShufflingFrom(h, s, n, 0)
      BY <2>1 DEF ShufflingFrom
    <2>. QED  BY <1>0, <2>2
  <1>2. ASSUME NEW m \in 0 .. n - 1, m \in S PROVE m + 1 \in S
    <2>0. m \in Nat /\ m + 1 \in Nat
      OBVIOUS
    <2>1. PICK h : h[n] = {s} /\ \A i \in n - m .. n - 1 : h[i] = ShuffleStep(h, i)
      BY <1>0, <1>2 DEF ShufflingFrom
    <2>2. PICK d \in 0 .. n : d \in Nat /\ d < n /\ d = n - (m + 1) /\ d + 1 = n - m
      BY <2>0
    <2>. DEFINE k == [i \in 0 .. n |-> IF i = d THEN ShuffleStep(h, d) ELSE h[i]]
    <2>3. k[n] = {s} /\ k[d] = ShuffleStep(h, d) /\ \A i \in 0 .. n : i # d => k[i] = h[i]
      BY <2>1, <2>2
    <2>. HIDE DEF k
    <2>4. ASSUME NEW i \in d .. n - 1 PROVE k[i] = ShuffleStep(k, i)
      <3>1. i + 1 \in 0 .. n /\ i + 1 # d
        BY <2>2
      <3>2. k[i + 1] = h[i + 1]
        BY <2>3, <3>1
      <3>3. ShuffleStep(k, i) = ShuffleStep(h, i)
        BY <3>2 DEF ShuffleStep
      <3>4. CASE i = d
        BY <2>3, <3>3, <3>4
      <3>5. CASE i # d
        <4>1. i \in n - m .. n - 1 /\ i \in 0 .. n
          BY <2>2, <3>5
        <4>2. h[i] = ShuffleStep(h, i)
          BY <2>1, <4>1
        <4>. QED  BY <2>3, <3>3, <3>5, <4>1, <4>2
      <3>. QED  BY <3>4, <3>5
    <2>5. ShufflingFrom(k, s, n, m + 1)
      BY <2>2, <2>3, <2>4 DEF ShufflingFrom
    <2>. QED  BY <1>0, <2>0, <2>5
  <1>3. \A m \in 0 .. n : m \in S
    BY <1>1, <1>2, InductionUpTo
  <1>4. PICK h : h[n] = {s} /\ \A i \in n - n .. n - 1 : h[i] = ShuffleStep(h, i)
    <2>1. n \in 0 .. n
      OBVIOUS
    <2>2. \E h : ShufflingFrom(h, s, n, n)
      BY <1>0, <1>3, <2>1
    <2>. QED  BY <2>2 DEF ShufflingFrom
  <1>. DEFINE k == [i \in 1 .. n |-> IF i = n THEN {s} ELSE ShuffleStep(h, i)]
  <1>5. \A i \in 1 .. n : k[i] = h[i]
    <2>1. \A i \in 1 .. n : i = n \/ i \in n - n .. n - 1
      OBVIOUS
    <2>. QED  BY <1>4, <2>1
  <1>6. \A i \in 1 .. n : (IF i = n THEN {s} ELSE ShuffleStep(h, i))
                           = (IF i = n THEN {s} ELSE ShuffleStep(k, i))
    <2>1. ASSUME NEW i \in 1 .. n, i # n PROVE ShuffleStep(h, i) = ShuffleStep(k, i)
      <3>1. i + 1 \in 1 .. n
        BY <2>1
      <3>. HIDE DEF k
      <3>2. k[i + 1] = h[i + 1]
        BY <1>5, <3>1
      <3>. QED  BY <3>2 DEF ShuffleStep
    <2>. HIDE DEF k
    <2>. QED  BY <2>1
  <1>7. k = [i \in 1 .. n |-> IF i = n THEN {s} ELSE ShuffleStep(k, i)]
    <2>1. [i \in 1 .. n |-> IF i = n THEN {s} ELSE ShuffleStep(h, i)]
            = [i \in 1 .. n |-> IF i = n THEN {s} ELSE ShuffleStep(k, i)]
      <3>. HIDE DEF k
      <3>. QED  BY <1>6, Zenon
    <2>. QED  BY <2>1, Zenon
  <1>. HIDE DEF k
  <1>. QED  BY <1>7 DEF Shuffling

LEMMA ShufflesPermute ==
    ASSUME NEW X, NEW s \in Seq(X), Len(s) # 0
    PROVE  \A x \in Shuffles(s) : Permuted(X, x, s)
  <1>1. PICK n \in Nat \ {0} : n = Len(s)
    BY LenProperties
  <1>. DEFINE g == CHOOSE h : Shuffling(h, s, n)
  <1>2. Shuffles(s) = g[1]
    BY <1>1 DEF Shuffles, Shuffling, ShuffleStep
  <1>3. Shuffling(g, s, n)
    <2>1. \E h : Shuffling(h, s, n)
      BY ShufflesExist
    <2>. QED  BY <2>1
  <1>. HIDE DEF g
  <1>4. \A i \in 1 .. n : g[i] = IF i = n THEN {s} ELSE ShuffleStep(g, i)
    BY <1>3 DEF Shuffling
  <1>. DEFINE S == {m \in Nat : m < n => \A x \in g[n - m] : Permuted(X, x, s)}
  <1>0. \A m : m \in S <=> m \in Nat /\ (m < n => \A x \in g[n - m] : Permuted(X, x, s))
    OBVIOUS
  <1>. HIDE DEF S
  <1>5. 0 \in S
    <2>1. n \in 1 .. n /\ n - 0 = n
      OBVIOUS
    <2>2. g[n] = {s}
      BY <1>4, <2>1
    <2>3. Permuted(X, s, s)
      BY SelfPermuted
    <2>. QED  BY <1>0, <2>1, <2>2, <2>3
  <1>6. ASSUME NEW m \in 0 .. (n - 1) - 1, m \in S PROVE m + 1 \in S
    <2>1. PICK i \in 1 .. n : i = n - (m + 1) /\ i + 1 = n - m /\ i # n
      OBVIOUS
    <2>2. m \in Nat /\ m < n /\ \A x \in g[i + 1] : Permuted(X, x, s)
      BY <1>0, <1>6, <2>1
    <2>3. g[i] = ShuffleStep(g, i)
      BY <1>4, <2>1
    <2>4. ASSUME NEW y \in g[i] PROVE Permuted(X, y, s)
      <3>1. PICK x \in g[i + 1], j \in Random(i + 1) : y = Swap(x, i + 1, j + 1)
        BY <2>3 DEF ShuffleStep
      <3>2. i + 1 \in 1 .. Len(s) /\ j + 1 \in 1 .. Len(s)
        BY <1>1, <2>1 DEF Random
      <3>. QED  BY <2>2, <3>1, <3>2, SwapPermutes
    <2>5. m + 1 \in Nat
      BY <2>2
    <2>. QED  BY <1>0, <2>1, <2>4, <2>5
  <1>7. n - 1 \in S
    <2>1. n - 1 \in Nat /\ n - 1 \in 0 .. n - 1
      OBVIOUS
    <2>2. \A m \in 0 .. n - 1 : m \in S
      BY <1>5, <1>6, <2>1, InductionUpTo
    <2>. QED  BY <2>1, <2>2
  <1>8. n - (n - 1) = 1 /\ n - 1 < n
    OBVIOUS
  <1>. QED  BY <1>0, <1>2, <1>7, <1>8

-------------------------------------------------------------------------------
\* The bracket t around the sequence p: p with another kind, and shuffled.
Closed(p, t) ==
    /\ p = Top.lhs /\ HoldOK(p) /\ p.kind = "SEQ"
    /\ t.kind = SequenceKind(input[Top.tok]) /\ t.kind \in NodeKinds \ {"SEQ", "I10"}
    /\ t.value = p.value /\ t.node = p.node /\ t.parent = p.parent
    /\ Permuted(Refs, t.children, p.children)
    /\ t.children = p.children \/ (t.kind \in {"WHILE", "IF"} /\ ~ deterministic)
    /\ stack' = CallerGoesOn(t)
    /\ Consume /\ UNCHANGED <<input, node_counter, output, status>> /\ Token # "EOF"

LEMMA ClosedEffect ==
    ASSUME TreeTyped, Nested, CloseSequence
    PROVE  \E p, t \in TokenType : Closed(p, t)
  <1>1. /\ ReturnsTo("parenthetic_handler") /\ Top.lhs.kind = "SEQ"
        /\ Token = Closing(input[Top.tok]) /\ Consume
        /\ UNCHANGED <<input, node_counter, output, status>>
    BY DEF CloseSequence
  <1>2. /\ Top.caller = "parenthetic_handler" /\ Top.lhs \in TokenType /\ FrameOK(Top)
        /\ Top.at = "peek"
    BY <1>1, ReturnFacts
  <1>3. PICK p \in TokenType : p = Top.lhs /\ HoldOK(p) /\ p.kind = "SEQ"
    <2>1. EofToken(pos + 1).kind = "EOF"
      BY DEF EofToken
    <2>2. HoldOK(Top.lhs) \/ Top.lhs = EofToken(pos + 1)
      BY <1>2 DEF FrameOK
    <2>3. Top.lhs # EofToken(pos + 1)
      BY <1>1, <2>1
    <2>. QED  BY <1>1, <1>2, <2>2, <2>3
  <1>4. PICK opener \in Openers : opener = input[Top.tok]
    BY <1>2 DEF FrameOK
  <1>5. PICK kind : /\ kind = SequenceKind(opener) /\ kind \in NodeKinds \ {"SEQ", "I10"}
                    /\ Closing(opener) \in {")", "end"}
                    /\ opener \in {"if", "while"} => kind \in {"WHILE", "IF"}
    <2>1. opener \in {"if", "while"} => SequenceKind(opener) \in {"WHILE", "IF"}
      BY DEF SequenceKind
    <2>. QED  BY <2>1, BracketFacts
  <1>6. PICK children \in IF Nondeterministic(opener) THEN Shuffles(p.children) ELSE {p.children} :
           stack' = CallerGoesOn([p EXCEPT !.kind = kind, !.children = children])
    BY <1>3, <1>4, <1>5 DEF CloseSequence
  <1>7. p.children \in Seq(Refs) /\ Len(p.children) # 0
    <2>1. p.children \in Seq(Refs) /\ Len(p.children) > 1
      BY <1>3, TokenFields DEF HoldOK
    <2>. QED  BY <2>1, LenProperties
  <1>8. /\ Permuted(Refs, children, p.children)
        /\ children = p.children \/ Nondeterministic(opener)
    <2>1. Permuted(Refs, p.children, p.children)
      BY <1>7, SelfPermuted
    <2>2. \A x \in Shuffles(p.children) : Permuted(Refs, x, p.children)
      BY <1>7, ShufflesPermute
    <2>. QED  BY <1>6, <2>1, <2>2
  <1>9. children = p.children \/ (kind \in {"WHILE", "IF"} /\ ~ deterministic)
    <2>1. Nondeterministic(opener) => ~ deterministic /\ opener \in {"if", "while"}
      BY DEF Nondeterministic
    <2>2. CASE children = p.children
      BY <2>2, Zenon
    <2>3. CASE Nondeterministic(opener)
      <3>1. opener \in {"if", "while"}
        BY <2>1, <2>3
      <3>2. kind \in {"WHILE", "IF"}
        BY <1>5, <3>1
      <3>3. ~ deterministic
        BY <2>1, <2>3, Zenon
      <3>. QED  BY <3>2, <3>3, Zenon
    <2>. QED  BY <1>8, <2>2, <2>3
  <1>10. PICK t : t = [p EXCEPT !.kind = kind, !.children = children]
    OBVIOUS
  <1>11. kind \in Kinds /\ children \in Seq(Refs)
    BY <1>5, <1>8 DEF Permuted, NodeKinds
  <1>12. /\ t \in TokenType /\ t.kind = kind /\ t.value = p.value /\ t.node = p.node
         /\ t.parent = p.parent /\ t.children = children
    BY <1>10, <1>11 DEF TokenType
  <1>13. Token # "EOF"
    BY <1>1, <1>4, <1>5
  <1>14. Closed(p, t)
    BY <1>1, <1>3, <1>4, <1>5, <1>6, <1>8, <1>9, <1>10, <1>12, <1>13 DEF Closed
  <1>. QED  BY <1>12, <1>14

LEMMA ClosedCalls ==
    ASSUME CallsInv, CloseSequence
    PROVE  CallsInv'
  <1>1. TreeTyped /\ Nested /\ ReturnsTo("parenthetic_handler")
    BY DEF CallsInv, CloseSequence, ReturnsTo, At
  <1>2. PICK p \in TokenType, t \in TokenType : Closed(p, t)
    BY <1>1, ClosedEffect
  <1>3. /\ stack' = CallerGoesOn(t) /\ Consume /\ UNCHANGED <<input, node_counter, output, status>>
        /\ t.kind \in NodeKinds \ {"SEQ", "I10"}
    BY <1>2 DEF Closed
  <1>4. HoldOK(t)
    BY <1>3 DEF HoldOK
  <1>5. /\ Onward /\ Top.caller # "pass" /\ pos' \in Nat
        /\ (Len(input') = pos' \/ Len(input') = pos' + 1)
    BY <1>1, <1>3, ConsumeFacts, ReturnFacts
  <1>6. Nested' /\ stack' \in Seq(FrameType) /\ stack' # <<>>
    BY <1>1, <1>3, <1>4, <1>5, CallerGoes
  <1>7. TreeTyped'
    BY <1>1, <1>3, <1>5, <1>6 DEF TreeTyped
  <1>. QED  BY <1>6, <1>7 DEF CallsInv

-------------------------------------------------------------------------------

LEMMA CallsInit == Init => CallsInv
  <1>. SUFFICES ASSUME Init PROVE CallsInv
    OBVIOUS
  <1>1. PICK g : g = Frame("pass", 0, "least") /\ stack = <<g>>
    BY DEF Init
  <1>2. FrameIs(g, "pass", 0, "least")
    <2>1. "pass" \in Callers /\ 0 \in Nat /\ "least" \in {"least", "NJUX"}
      BY DEF Callers
    <2>. QED  BY <1>1, <2>1, NewFrame
  <1>3. /\ g \in FrameType /\ g.caller = "pass" /\ g.tok = 0
        /\ g.min_power = "least" /\ g.lhs = NoToken /\ g.at = "null denotation"
    BY <1>2 DEF FrameIs
  <1>4. <<g>> \in Seq(FrameType) /\ <<g>> # <<>> /\ Len(<<g>>) = 1 /\ <<g>>[1] = g
    <2>1. g \in FrameType
      BY <1>3
    <2>. QED  BY <2>1
  <1>5. FrameOK(g) /\ RhsAhead(g)
    BY <1>3 DEF FrameOK, RhsAhead, ForRhs
  <1>6. Nested
    <2>1. Len(stack) = 1 /\ stack[1] = g /\ 1 .. 1 - 1 = {} /\ \A k \in 1 .. 1 : k = 1
      BY <1>1, <1>4
    <2>. QED  BY <1>3, <1>5, <2>1 DEF Nested, Top
  <1>7. TreeTyped
    <2>1. <<>> \in Seq(Words) /\ <<>> \in Seq(TokenType) /\ Len(<<>>) = 0
      OBVIOUS
    <2>2. /\ input = <<>> /\ pos = 0 /\ node_counter = 0 /\ output = <<>> /\ status = "running"
      BY DEF Init
    <2>. QED  BY <1>1, <1>4, <2>1, <2>2 DEF TreeTyped
  <1>. QED  BY <1>6, <1>7 DEF CallsInv

LEMMA CallsStep == CallsInv /\ [Next]_vars => CallsInv'
  <1>. SUFFICES ASSUME CallsInv, [Next]_vars PROVE CallsInv'
    OBVIOUS
  <1>1. CASE ReadToken
    BY <1>1, ReadTokenCalls
  <1>2. CASE PassThrough \/ ReferenceHandler \/ OpenBracket
    BY <1>2, PassThroughCalls, ReferenceCalls, OpenBracketCalls
  <1>3. CASE DefaultHandler \/ CloseError \/ PutEof
    BY <1>3, EndingCalls
  <1>4. CASE LeftDenotation \/ ConsumeExtra \/ EndSequence \/ CallForRhs
    BY <1>4, LeftDenotationCalls, ConsumeExtraCalls, EndSequenceCalls, CallForRhsCalls
  <1>5. CASE StartSequence \/ ExtendSequence
    BY <1>5, StartCalls, ExtendCalls
  <1>6. CASE CloseSequence \/ CloseSingle
    BY <1>6, ClosedCalls, SingleCalls
  <1>7. CASE PutRoot
    BY <1>7, PutRootCalls
  <1>8. CASE UNCHANGED vars
    <2>1. /\ input' = input /\ pos' = pos /\ stack' = stack /\ node_counter' = node_counter
          /\ output' = output /\ status' = status
      BY <1>8 DEF vars
    <2>2. TreeTyped' = TreeTyped
      BY <2>1 DEF TreeTyped
    <2>3. Nested' = Nested
      BY <2>1 DEF Nested, Top, FrameOK, ForRhs, Calls, RhsAhead, IsRead, Token
    <2>. QED  BY <2>1, <2>2, <2>3 DEF CallsInv
  <1>. QED  BY <1>1, <1>2, <1>3, <1>4, <1>5, <1>6, <1>7, <1>8 DEF Next

\* The calls of pratt_parse are nested as the handlers make them, and no
\* sequence that shuffle_SEQ may be given has fewer than two children.
THEOREM CallsNested == Spec => []CallsInv
  <1>1. Init => CallsInv
    BY CallsInit
  <1>2. CallsInv /\ [Next]_vars => CallsInv'
    BY CallsStep
  <1>. QED  BY <1>1, <1>2, PTL DEF Spec

-------------------------------------------------------------------------------
\* What each token is that is put or held.

NotNode(t) ==
    /\ t.kind \notin NodeKinds /\ t.node = NoReference /\ t.parent = NoReference
    /\ t.children = <<>>

NodeOK(t) ==
    /\ t.kind \in NodeKinds
    /\ t.value \in Seq(1 .. pos) /\ t.value # <<>>
    /\ t.node.number \in 1 .. node_counter
    /\ t.kind = "SEQ" => Len(t.children) > 1
    /\ t.kind = "I10" <=> t.children = <<>>

SoundToken == {t \in TokenType : NotNode(t) \/ NodeOK(t)}

\* Only a token that nothing refers to is held.
SoundFrame == {f \in FrameType : f.lhs \in SoundToken /\ f.lhs.parent = NoReference}

Sound == output \in Seq(SoundToken) /\ stack \in Seq(SoundFrame)

LEMMA SeqMonotone ==
    ASSUME NEW A, NEW B, A \subseteq B, NEW s \in Seq(A)
    PROVE  s \in Seq(B)
  <1>1. PICK n \in Nat : n = Len(s) /\ s \in [1 .. n -> A]
    BY LenProperties
  <1>2. s \in [1 .. n -> B]
    BY <1>1
  <1>. QED  BY <1>2

\* More is consumed and more nodes are made.
Further == Onward /\ pos \in Nat /\ node_counter \in Nat
           /\ node_counter' \in Nat /\ node_counter <= node_counter'

LEMMA SoundKept ==
    ASSUME Further
    PROVE  SoundToken \subseteq SoundToken' /\ SoundFrame \subseteq SoundFrame'
  <1>1. 1 .. pos \subseteq 1 .. pos' /\ 1 .. node_counter \subseteq 1 .. node_counter'
    BY DEF Further, Onward
  <1>2. \A v \in Seq(1 .. pos) : v \in Seq(1 .. pos')
    BY <1>1, SeqMonotone
  <1>3. \A t : NodeOK(t) => NodeOK(t)'
    BY <1>1, <1>2 DEF NodeOK
  <1>4. SoundToken \subseteq SoundToken'
    BY <1>3 DEF SoundToken, NotNode
  <1>. QED  BY <1>4 DEF SoundFrame

LEMMA SoundParts ==
    ASSUME TreeTyped, Sound
    PROVE  /\ Below \in Seq(SoundFrame) /\ Top \in SoundFrame
           /\ Len(stack) > 1 => Below2 \in Seq(SoundFrame) /\ Caller \in SoundFrame
           /\ \A k \in 1 .. Len(stack) : stack[k] \in SoundFrame
           /\ \A m \in 1 .. Len(output) : output[m] \in SoundToken
  <1>1. Below \in Seq(SoundFrame) /\ Top \in SoundFrame
    BY Sizes, FrontFacts DEF Sound, Below, Top
  <1>2. \A k \in 1 .. Len(stack) : stack[k] \in SoundFrame
    BY ElementOfSeq DEF Sound
  <1>3. \A m \in 1 .. Len(output) : output[m] \in SoundToken
    BY ElementOfSeq DEF Sound
  <1>4. Len(stack) > 1 => Below # <<>>
    <2>1. PICK n \in Nat : n = Len(stack) /\ Len(Below) = n - 1
      BY StackFacts
    <2>2. n > 1 => n - 1 # 0
      BY <2>1
    <2>3. Len(stack) > 1 => Len(Below) # 0
      BY <2>1, <2>2
    <2>. QED  BY <2>3, EmptySeq
  <1>5. Len(stack) > 1 => Below2 \in Seq(SoundFrame)
    BY <1>1, <1>4, FrontFacts DEF Below, Below2
  <1>6. Len(stack) > 1 => Caller \in SoundFrame
    <2>1. PICK n \in Nat \ {0} : n = Len(stack)
      BY StackFacts
    <2>2. n > 1 => n - 1 \in 1 .. n
      BY <2>1
    <2>. QED  BY <1>2, <2>1, <2>2 DEF Caller
  <1>. QED  BY <1>1, <1>2, <1>3, <1>5, <1>6

\* What is held where no node is: nothing, or the end of the input.
LEMMA HeldNode ==
    ASSUME NEW t \in SoundToken
    PROVE  /\ HoldOK(t) => NodeOK(t)
           /\ IsNode(t) <=> t.kind \in NodeKinds
           /\ t.node.number # 0 <=> NodeOK(t)
           /\ t \in TokenType
  <1>1. t \in TokenType /\ (NotNode(t) \/ NodeOK(t))
    BY DEF SoundToken
  <1>2. NoReference.number = 0
    BY DEF NoReference, Reference
  <1>3. CASE NotNode(t)
    BY <1>1, <1>2, <1>3 DEF NotNode, NodeOK, HoldOK, IsNode
  <1>4. CASE NodeOK(t)
    <2>1. t.kind \in NodeKinds /\ t.node.number # 0
      BY <1>4 DEF NodeOK
    <2>. QED  BY <1>1, <1>4, <2>1 DEF IsNode
  <1>. QED  BY <1>1, <1>3, <1>4

LEMMA NotNodes ==
    /\ NoToken \in SoundToken /\ NoToken.parent = NoReference /\ NotNode(NoToken)
    /\ \A k \in Nat : /\ EofToken(k) \in SoundToken /\ EofToken(k).parent = NoReference
                      /\ NotNode(EofToken(k))
  <1>1. NotNode(NoToken) /\ NoToken.parent = NoReference
    BY DEF NotNode, NoToken, NodeKinds
  <1>2. \A k \in Nat : NotNode(EofToken(k)) /\ EofToken(k).parent = NoReference
    BY DEF NotNode, EofToken, NodeKinds
  <1>. QED  BY <1>1, <1>2, TokenTypes DEF SoundToken

\* A frame that goes on with a token, or that begins.
LEMMA SoundFrames ==
    /\ \A g \in FrameType : g.lhs = NoToken => g \in SoundFrame
    /\ \A f \in FrameType, t \in SoundToken :
          t.parent = NoReference => GoOn(f, t) \in SoundFrame
  <1>1. ASSUME NEW f \in FrameType, NEW t \in SoundToken, t.parent = NoReference
        PROVE  GoOn(f, t) \in SoundFrame
    <2>1. t \in TokenType
      BY DEF SoundToken
    <2>2. GoOn(f, t) \in FrameType /\ GoOn(f, t).lhs = t
      BY <2>1, GoesOn
    <2>. QED  BY <1>1, <2>2 DEF SoundFrame
  <1>. QED  BY <1>1, NotNodes DEF SoundFrame

LEMMA PutSound ==
    ASSUME NEW ts \in Seq(SoundToken'), output \in Seq(SoundToken'), NEW s \in Seq(SoundFrame'),
           stack \in Seq(SoundFrame'), Put(ts, s)
    PROVE  Sound'
  <1>1. CASE output' = output \o ts /\ stack' = s
    <2>1. output \o ts \in Seq(SoundToken')
      BY ConcatProperties
    <2>. QED  BY <1>1, <2>1 DEF Sound
  <1>2. ASSUME NEW n \in 0 .. Len(ts) - 1, output' = output \o SubSeq(ts, 1, n), stack' = stack
        PROVE  Sound'
    <2>1. SubSeq(ts, 1, n) \in Seq(SoundToken')
      <3>1. Len(ts) \in Nat
        BY LenProperties
      <3>2. \A k \in 1 .. n : ts[k] \in SoundToken'
        BY <3>1, ElementOfSeq
      <3>. QED  BY <3>1, <3>2, SubSeqProperties
    <2>2. output \o SubSeq(ts, 1, n) \in Seq(SoundToken')
      BY <2>1, ConcatProperties
    <2>. QED  BY <1>2, <2>2 DEF Sound
  <1>. QED  BY <1>1, <1>2 DEF Put

LEMMA JoinedType ==
    ASSUME NEW X, NEW u \in Seq(X), NEW x \in Seq(X), x # <<>>, NEW v \in Seq(X)
    PROVE  u \o x \o v \in Seq(X) /\ u \o x \o v # <<>>
  <1>1. u \o x \in Seq(X) /\ Len(u \o x) = Len(u) + Len(x)
    BY ConcatProperties
  <1>2. (u \o x) \o v \in Seq(X) /\ Len((u \o x) \o v) = Len(u) + Len(x) + Len(v)
    BY <1>1, ConcatProperties
  <1>3. Len(u) \in Nat /\ Len(x) \in Nat /\ Len(x) # 0 /\ Len(v) \in Nat
    BY EmptySeq, LenProperties
  <1>4. Len((u \o x) \o v) # 0
    BY <1>2, <1>3
  <1>. QED  BY <1>2, <1>4, EmptySeq

SoundInv == CallsInv /\ Sound

\* The parts of the stack and the output, as they are in the next state.
LEMMA PartsKept ==
    ASSUME TreeTyped, Sound, Further
    PROVE  /\ output \in Seq(SoundToken') /\ stack \in Seq(SoundFrame')
           /\ Below \in Seq(SoundFrame')
           /\ Len(stack) > 1 => Below2 \in Seq(SoundFrame')
  <1>1. SoundToken \subseteq SoundToken' /\ SoundFrame \subseteq SoundFrame'
    BY SoundKept
  <1>2. Below \in Seq(SoundFrame) /\ (Len(stack) > 1 => Below2 \in Seq(SoundFrame))
    BY SoundParts
  <1>. QED  BY <1>1, <1>2, SeqMonotone DEF Sound

\* The steps that put nothing and make no node.
LEMMA PlainSound ==
    ASSUME SoundInv,
           \/ ReadToken \/ PassThrough \/ OpenBracket \/ DefaultHandler \/ LeftDenotation
           \/ ConsumeExtra \/ EndSequence \/ CallForRhs \/ CloseError \/ PutEof
    PROVE  Sound'
  <1>1. TreeTyped /\ Nested /\ Sound /\ status = "running" /\ UNCHANGED node_counter
    BY DEF SoundInv, CallsInv, ReadToken, PassThrough, OpenBracket, DefaultHandler,
           LeftDenotation, ConsumeExtra, EndSequence, CallForRhs, CloseError, PutEof, At, ReturnsTo
  <1>2. Further
    <2>1. pos \in Nat /\ node_counter \in Nat /\ node_counter <= node_counter
      BY <1>1, Sizes
    <2>2. CASE ReadToken
      <3>1. /\ UNCHANGED pos
            /\ \E t \in Words : input' = Append(input, t)
        BY <2>2 DEF ReadToken, Words
      <3>2. Len(input) = pos /\ input \in Seq(Words)
        BY <1>1, <2>2, Sizes DEF ReadToken, IsRead
      <3>3. \A k \in 1 .. pos : input'[k] = input[k]
        BY <3>1, <3>2, AppendFacts
      <3>4. Onward
        <4>1. pos' \in Nat /\ pos <= pos'
          BY <2>1, <3>1
        <4>. QED  BY <3>3, <4>1 DEF Onward
      <3>. QED  BY <1>1, <2>1, <3>4 DEF Further
    <2>3. CASE ~ ReadToken
      <3>1. (Consume \/ UNCHANGED pos) /\ UNCHANGED input /\ IsRead
        BY <2>3 DEF PassThrough, OpenBracket, DefaultHandler,
           LeftDenotation, ConsumeExtra, EndSequence, CallForRhs, CloseError, PutEof, At, ReturnsTo
      <3>2. Onward
        BY <1>1, <3>1, ConsumeFacts, StaysFacts
      <3>. QED  BY <1>1, <2>1, <3>2 DEF Further
    <2>. QED  BY <2>2, <2>3
  <1>3. /\ output \in Seq(SoundToken') /\ stack \in Seq(SoundFrame')
        /\ Below \in Seq(SoundFrame')
    BY <1>1, <1>2, PartsKept
  <1>4. Top \in SoundFrame' /\ Top.lhs \in SoundToken' /\ Top.lhs.parent = NoReference
    <2>1. Top \in SoundFrame
      BY <1>1, SoundParts
    <2>. QED  BY <1>2, <2>1, SoundKept DEF SoundFrame
  <1>5. ASSUME UNCHANGED <<stack, output>> PROVE Sound'
    BY <1>3, <1>5 DEF Sound
  <1>6. CASE PassThrough \/ EndSequence
    <2>1. PICK t : stack' = TopGoesOn(t) /\ t \in {EofToken(pos + 1), Top.lhs} /\ UNCHANGED output
      BY <1>6 DEF PassThrough, EndSequence
    <2>2. t \in SoundToken' /\ t.parent = NoReference
      <3>1. pos + 1 \in Nat
        BY <1>1, Sizes
      <3>. QED  BY <1>4, <2>1, <3>1, NotNodes DEF SoundToken
    <2>3. GoOn(Top, t) \in SoundFrame'
      <3>1. Top \in FrameType /\ t \in TokenType
        BY <1>4, <2>2 DEF SoundFrame, SoundToken
      <3>2. GoOn(Top, t) \in FrameType /\ GoOn(Top, t).lhs = t
        BY <3>1, GoesOn
      <3>. QED  BY <2>2, <3>2 DEF SoundFrame
    <2>4. stack' = Append(Below, GoOn(Top, t))
      BY <2>1 DEF TopGoesOn, Below
    <2>. QED  BY <1>3, <2>1, <2>3, <2>4, AppendFacts DEF Sound
  <1>7. CASE OpenBracket \/ CallForRhs
    <2>1. PICK g : stack' = Append(stack, g) /\ g \in FrameType /\ g.lhs = NoToken
      <3>1. CASE OpenBracket
        <4>1. PICK g : /\ g = Frame("parenthetic_handler", pos + 1, "least")
                       /\ stack' = Append(stack, g)
          BY <3>1 DEF OpenBracket
        <4>2. "parenthetic_handler" \in Callers /\ pos + 1 \in Nat
          BY <1>1, Sizes DEF Callers
        <4>3. FrameIs(g, "parenthetic_handler", pos + 1, "least")
          BY <4>1, <4>2, NewFrame
        <4>. QED  BY <4>1, <4>3 DEF FrameIs
      <3>2. CASE CallForRhs
        <4>0. PICK c : /\ c \in {"extend_sequence", "start_sequence"}
                       /\ stack' = Append(stack, Frame(c, Top.left, "NJUX"))
          BY <3>2 DEF CallForRhs
        <4>1. PICK g : g = Frame(c, Top.left, "NJUX") /\ stack' = Append(stack, g)
          BY <4>0
        <4>2. c \in Callers /\ Top.left \in Nat
          BY <1>1, <4>0, StackFacts, FrameFields DEF Callers
        <4>3. FrameIs(g, c, Top.left, "NJUX")
          BY <4>1, <4>2, NewFrame
        <4>. QED  BY <4>1, <4>3 DEF FrameIs
      <3>. QED  BY <1>7, <3>1, <3>2
    <2>5. g \in SoundFrame'
      BY <2>1, NotNodes DEF SoundFrame, SoundToken
    <2>6. UNCHANGED output
      BY <1>7 DEF OpenBracket, CallForRhs
    <2>. QED  BY <1>3, <2>1, <2>5, <2>6, AppendFacts DEF Sound
  <1>8. CASE LeftDenotation
    <2>1. /\ stack' = Append(Below, [Top EXCEPT !.left = pos + 1, !.at = "njux_handler"])
          /\ UNCHANGED output
      BY <1>8 DEF LeftDenotation, Below
    <2>2. PICK n \in Nat : n = pos + 1
      BY <1>1, Sizes
    <2>3. PICK f : f = Top /\ f \in FrameType /\ f.lhs \in SoundToken' /\ f.lhs.parent = NoReference
      BY <1>4 DEF SoundFrame
    <2>4. PICK g : g = [f EXCEPT !.left = n, !.at = "njux_handler"]
      OBVIOUS
    <2>5. g \in FrameType /\ g.lhs = f.lhs
      BY <2>3, <2>4 DEF FrameType
    <2>6. g \in SoundFrame'
      BY <2>3, <2>5 DEF SoundFrame
    <2>7. stack' = Append(Below, g)
      BY <2>1, <2>2, <2>3, <2>4
    <2>. QED  BY <1>3, <2>1, <2>6, <2>7, AppendFacts DEF Sound
  <1>9. CASE ReadToken \/ DefaultHandler \/ ConsumeExtra \/ CloseError
    BY <1>5, <1>9 DEF ReadToken, DefaultHandler, ConsumeExtra, CloseError
  <1>10. CASE PutEof
    <2>1. UNCHANGED stack /\ output' \in {output, Append(output, Top.lhs)}
      BY <1>10 DEF PutEof
    <2>2. Append(output, Top.lhs) \in Seq(SoundToken')
      BY <1>3, <1>4, AppendFacts
    <2>. QED  BY <1>3, <2>1, <2>2 DEF Sound
  <1>. QED  BY <1>6, <1>7, <1>8, <1>9, <1>10

\* A node that is told its parent.
LEMMA ToldParent ==
    ASSUME NEW u \in TokenType, NodeOK(u)', NEW ref \in Refs
    PROVE  WithParent(u, ref) \in SoundToken'
  <1>1. PICK w \in TokenType :
           /\ w = WithParent(u, ref) /\ w.kind = u.kind /\ w.value = u.value
           /\ w.node = u.node /\ w.children = u.children
    BY WithParentType
  <1>2. NodeOK(w)'
    BY <1>1 DEF NodeOK
  <1>. QED  BY <1>1, <1>2 DEF SoundToken

LEMMA ReferenceSound ==
    ASSUME SoundInv, ReferenceHandler
    PROVE  Sound'
  <1>1. /\ TreeTyped /\ Nested /\ Sound /\ At("null denotation") /\ Token = "1" /\ Consume
        /\ node_counter' = node_counter + 1
        /\ UNCHANGED <<input, output, status>>
    BY DEF SoundInv, CallsInv, ReferenceHandler, At
  <1>2. PICK p \in Nat, n \in Nat :
           /\ p = pos /\ p + 1 \in Nat /\ n = node_counter /\ node_counter' = n + 1
           /\ n + 1 \in Nat
    BY <1>1, Sizes
  <1>3. Onward /\ pos' = p + 1
    <2>1. IsRead /\ Token # "EOF"
      BY <1>1, AtFacts
    <2>. QED  BY <1>1, <1>2, <2>1, ConsumeFacts
  <1>4. Further
    <2>1. n <= n + 1
      OBVIOUS
    <2>. QED  BY <1>2, <1>3, <2>1 DEF Further
  <1>5. PICK this \in Garbage :
           stack' = TopGoesOn(Node("I10", <<p + 1>>, this, n + 1, <<>>))
    BY <1>2 DEF ReferenceHandler
  <1>6. PICK t : t = Node("I10", <<p + 1>>, this, n + 1, <<>>)
    OBVIOUS
  <1>7. NodeIs(t, "I10", <<p + 1>>, n + 1, <<>>)
    <2>1. "I10" \in NodeKinds
      BY DEF NodeKinds, Kinds
    <2>2. <<p + 1>> \in Seq(Nat) /\ <<>> \in Seq(Refs)
      BY <1>2
    <2>. QED  BY <1>2, <1>6, <2>1, <2>2, NodeType
  <1>8. NodeOK(t)'
    <2>1. <<p + 1>> \in Seq(1 .. p + 1) /\ <<p + 1>> # <<>>
      <3>1. p + 1 \in 1 .. p + 1
        BY <1>2
      <3>. QED  BY <3>1
    <2>2. n + 1 \in 1 .. n + 1
      BY <1>2
    <2>3. /\ t.kind = "I10" /\ t.value = <<p + 1>> /\ t.node.number = n + 1 /\ t.children = <<>>
          /\ "I10" \in NodeKinds
      BY <1>7 DEF NodeIs, NodeKinds, Kinds
    <2>. QED  BY <1>2, <1>3, <2>1, <2>2, <2>3 DEF NodeOK
  <1>9. t \in TokenType /\ t \in SoundToken' /\ t.parent = NoReference
    BY <1>7, <1>8 DEF NodeIs, SoundToken
  <1>10. GoOn(Top, t) \in SoundFrame'
    <2>1. Top \in FrameType
      BY <1>1, StackFacts
    <2>2. GoOn(Top, t) \in FrameType /\ GoOn(Top, t).lhs = t
      BY <1>9, <2>1, GoesOn
    <2>. QED  BY <1>9, <2>2 DEF SoundFrame
  <1>11. stack' = Append(Below, GoOn(Top, t))
    BY <1>5, <1>6 DEF TopGoesOn, Below
  <1>12. output \in Seq(SoundToken') /\ Below \in Seq(SoundFrame')
    BY <1>1, <1>4, PartsKept
  <1>. QED  BY <1>1, <1>10, <1>11, <1>12, AppendFacts DEF Sound

\* A step that returns to the caller, which goes on with t.
LEMMA ReturnSound ==
    ASSUME TreeTyped, Sound, Further, Len(stack) > 1,
           NEW t \in SoundToken', t.parent = NoReference, NEW ts \in Seq(SoundToken'),
           Put(ts, CallerGoesOn(t))
    PROVE  Sound'
  <1>1. /\ output \in Seq(SoundToken') /\ stack \in Seq(SoundFrame')
        /\ Below2 \in Seq(SoundFrame')
    BY PartsKept
  <1>2. GoOn(Caller, t) \in SoundFrame'
    <2>1. Caller \in FrameType /\ t \in TokenType
      BY CallerFacts DEF SoundToken
    <2>2. GoOn(Caller, t) \in FrameType /\ GoOn(Caller, t).lhs = t
      BY <2>1, GoesOn
    <2>. QED  BY <2>2 DEF SoundFrame
  <1>3. CallerGoesOn(t) = Append(Below2, GoOn(Caller, t))
    BY DEF CallerGoesOn, Below2
  <1>4. CallerGoesOn(t) \in Seq(SoundFrame')
    BY <1>1, <1>2, <1>3, AppendFacts
  <1>. QED  BY <1>1, <1>4, PutSound

\* The nodes that a return takes together, as they are in the next state.
LEMMA ReturnedNodes ==
    ASSUME TreeTyped, Nested, Sound, Further, NEW caller, ReturnsTo(caller), caller # "pass"
    PROVE  /\ \A t \in {Caller.lhs, Top.lhs} :
                 /\ t \in SoundToken /\ t \in TokenType /\ t.parent = NoReference
                 /\ HoldOK(t) => NodeOK(t) /\ NodeOK(t)'
           /\ Len(stack) > 1
  <1>1. Len(stack) > 1
    BY ReturnFacts
  <1>2. Top \in SoundFrame /\ Caller \in SoundFrame
    BY <1>1, SoundParts
  <1>3. ASSUME NEW t \in SoundToken, HoldOK(t) PROVE NodeOK(t) /\ NodeOK(t)'
    <2>1. t \in SoundToken'
      BY SoundKept
    <2>2. t.kind \in NodeKinds
      BY <1>3 DEF HoldOK
    <2>. QED  BY <2>1, <2>2 DEF SoundToken, NotNode
  <1>. QED  BY <1>1, <1>2, <1>3 DEF SoundFrame, SoundToken

LEMMA StartSound ==
    ASSUME SoundInv, StartSequence
    PROVE  Sound'
  <1>1. TreeTyped /\ Nested /\ Sound /\ ReturnsTo("start_sequence")
    BY DEF SoundInv, CallsInv, StartSequence, ReturnsTo, At
  <1>2. PICK q \in TokenType, p \in TokenType, t \in TokenType, n \in Nat : Started(q, p, t, n)
    BY <1>1, StartEffect
  <1>3. /\ q = Caller.lhs /\ p = Top.lhs /\ HoldOK(q) /\ HoldOK(p)
        /\ n = node_counter + 1 /\ node_counter' = n /\ UNCHANGED <<input, pos>>
        /\ t.kind = "SEQ" /\ t.value = q.value \o <<Top.tok>> \o p.value
        /\ t.node.number = n /\ t.parent = NoReference /\ t.children = <<q.node, p.node>>
        /\ Put(<<WithParent(q, Reference(n, n)), WithParent(p, Reference(n, n))>>, CallerGoesOn(t))
    BY <1>2 DEF Started
  <1>4. Further
    <2>1. PICK c \in Nat : c = node_counter /\ n = c + 1
      BY <1>1, <1>3, Sizes
    <2>2. node_counter <= node_counter'
      BY <1>3, <2>1
    <2>3. pos \in Nat /\ node_counter \in Nat /\ Onward
      BY <1>1, <1>3, Sizes, StaysFacts
    <2>. QED  BY <1>3, <2>2, <2>3 DEF Further
  <1>5. /\ Len(stack) > 1 /\ NodeOK(q) /\ NodeOK(p) /\ NodeOK(q)' /\ NodeOK(p)'
    BY <1>1, <1>3, <1>4, ReturnedNodes
  <1>6. Reference(n, n) \in Refs
    BY TokenTypes DEF This
  <1>7. WithParent(q, Reference(n, n)) \in SoundToken' /\ WithParent(p, Reference(n, n)) \in SoundToken'
    BY <1>5, <1>6, ToldParent
  <1>8. t.value \in Seq(1 .. pos) /\ t.value # <<>>
    <2>1. Top.tok \in 1 .. pos
      BY <1>1, ReturnFacts DEF FrameOK, ForRhs
    <2>2. q.value \in Seq(1 .. pos) /\ p.value \in Seq(1 .. pos) /\ <<Top.tok>> \in Seq(1 .. pos)
      BY <1>5, <2>1 DEF NodeOK
    <2>. QED  BY <1>3, <2>2, JoinedType
  <1>9. NodeOK(t)'
    <2>1. n \in 1 .. n
      BY <1>1, <1>3, Sizes
    <2>2. Len(<<q.node, p.node>>) > 1 /\ <<q.node, p.node>> # <<>>
      OBVIOUS
    <2>3. "SEQ" \in NodeKinds /\ "SEQ" # "I10"
      BY DEF NodeKinds, Kinds
    <2>. QED  BY <1>3, <1>8, <2>1, <2>2, <2>3 DEF NodeOK
  <1>10. t \in SoundToken'
    BY <1>9 DEF SoundToken
  <1>11. <<WithParent(q, Reference(n, n)), WithParent(p, Reference(n, n))>> \in Seq(SoundToken')
    BY <1>7
  <1>. QED  BY <1>1, <1>3, <1>4, <1>5, <1>10, <1>11, ReturnSound

LEMMA ExtendSound ==
    ASSUME SoundInv, ExtendSequence
    PROVE  Sound'
  <1>1. TreeTyped /\ Nested /\ Sound /\ ReturnsTo("extend_sequence")
    BY DEF SoundInv, CallsInv, ExtendSequence, ReturnsTo, At
  <1>2. PICK q \in TokenType, p \in TokenType, t \in TokenType : Extended(q, p, t)
    BY <1>1, ExtendEffect
  <1>3. /\ q = Caller.lhs /\ p = Top.lhs /\ HoldOK(q) /\ HoldOK(p)
        /\ q.kind = "SEQ" /\ t.kind = "SEQ" /\ t.value = q.value \o <<Top.tok>> \o p.value
        /\ t.node.number = q.node.number /\ t.parent = NoReference
        /\ t.children = Append(q.children, p.node)
        /\ Put(<<WithParent(p, q.node)>>, CallerGoesOn(t))
        /\ UNCHANGED <<input, pos, node_counter>>
    BY <1>2 DEF Extended
  <1>4. Further
    <2>1. node_counter \in Nat /\ node_counter' = node_counter
      BY <1>1, <1>3, Sizes
    <2>2. node_counter' \in Nat /\ node_counter <= node_counter'
      BY <2>1
    <2>3. pos \in Nat /\ Onward
      BY <1>1, <1>3, Sizes, StaysFacts
    <2>. QED  BY <2>1, <2>2, <2>3 DEF Further
  <1>5. /\ Len(stack) > 1 /\ NodeOK(q) /\ NodeOK(p) /\ NodeOK(q)' /\ NodeOK(p)'
    BY <1>1, <1>3, <1>4, ReturnedNodes
  <1>6. q.node \in Refs /\ q.children \in Seq(Refs) /\ p.node \in Refs
    BY TokenFields
  <1>7. WithParent(p, q.node) \in SoundToken'
    BY <1>5, <1>6, ToldParent
  <1>8. t.value \in Seq(1 .. pos) /\ t.value # <<>>
    <2>1. Top.tok \in 1 .. pos
      BY <1>1, ReturnFacts DEF FrameOK, ForRhs
    <2>2. q.value \in Seq(1 .. pos) /\ p.value \in Seq(1 .. pos) /\ <<Top.tok>> \in Seq(1 .. pos)
      BY <1>5, <2>1 DEF NodeOK
    <2>. QED  BY <1>3, <2>2, JoinedType
  <1>9. NodeOK(t)'
    <2>1. PICK c \in Nat : c = Len(q.children) /\ c > 1
      BY <1>3, <1>6, LenProperties DEF HoldOK
    <2>2. Len(t.children) = c + 1 /\ t.children # <<>>
      <3>1. /\ Append(q.children, p.node) # <<>>
            /\ Len(Append(q.children, p.node)) = Len(q.children) + 1
        BY <1>6, AppendFacts
      <3>. QED  BY <1>3, <2>1, <3>1
    <2>3. Len(t.children) > 1
      BY <2>1, <2>2
    <2>4. q.node.number \in 1 .. node_counter
      BY <1>5 DEF NodeOK
    <2>5. "SEQ" \in NodeKinds /\ "SEQ" # "I10"
      BY DEF NodeKinds, Kinds
    <2>. QED  BY <1>3, <1>8, <2>2, <2>3, <2>4, <2>5 DEF NodeOK
  <1>10. t \in SoundToken'
    BY <1>9 DEF SoundToken
  <1>11. <<WithParent(p, q.node)>> \in Seq(SoundToken')
    BY <1>7
  <1>. QED  BY <1>1, <1>3, <1>4, <1>5, <1>10, <1>11, ReturnSound

LEMMA SingleSound ==
    ASSUME SoundInv, CloseSingle
    PROVE  Sound'
  <1>1. TreeTyped /\ Nested /\ Sound /\ ReturnsTo("parenthetic_handler") /\ IsRead
    BY DEF SoundInv, CallsInv, CloseSingle, ReturnsTo, At
  <1>2. PICK p \in TokenType, t \in TokenType, n \in Nat : Single(p, t, n)
    BY <1>1, SingleEffect
  <1>3. /\ p = Top.lhs /\ HoldOK(p) /\ p.kind # "SEQ"
        /\ n = node_counter + 1 /\ node_counter' = n
        /\ t.kind \in NodeKinds \ {"SEQ", "I10"}
        /\ t.value = p.value
        /\ t.node.number = n /\ t.parent = NoReference /\ t.children = <<p.node>>
        /\ Put(<<WithParent(p, Reference(n, n))>>, CallerGoesOn(t))
        /\ Consume /\ UNCHANGED input /\ Token # "EOF"
    BY <1>2 DEF Single
  <1>4. Further
    <2>1. PICK c \in Nat : c = node_counter /\ n = c + 1
      BY <1>1, <1>3, Sizes
    <2>2. node_counter <= node_counter'
      BY <1>3, <2>1
    <2>3. pos \in Nat /\ node_counter \in Nat /\ Onward
      BY <1>1, <1>3, Sizes, ConsumeFacts
    <2>. QED  BY <1>3, <2>2, <2>3 DEF Further
  <1>5. /\ Len(stack) > 1 /\ NodeOK(p) /\ NodeOK(p)'
    BY <1>1, <1>3, <1>4, ReturnedNodes
  <1>6. Reference(n, n) \in Refs
    BY TokenTypes DEF This
  <1>7. WithParent(p, Reference(n, n)) \in SoundToken'
    BY <1>5, <1>6, ToldParent
  <1>8. NodeOK(t)'
    <2>1. n \in 1 .. n
      BY <1>1, <1>3, Sizes
    <2>2. <<p.node>> # <<>>
      OBVIOUS
    <2>3. p.value \in Seq(1 .. pos') /\ p.value # <<>>
      BY <1>5 DEF NodeOK
    <2>. QED  BY <1>3, <2>1, <2>2, <2>3 DEF NodeOK
  <1>9. t \in SoundToken'
    BY <1>8 DEF SoundToken
  <1>10. <<WithParent(p, Reference(n, n))>> \in Seq(SoundToken')
    BY <1>7
  <1>. QED  BY <1>1, <1>3, <1>4, <1>5, <1>9, <1>10, ReturnSound

LEMMA ClosedSound ==
    ASSUME SoundInv, CloseSequence
    PROVE  Sound'
  <1>1. TreeTyped /\ Nested /\ Sound /\ ReturnsTo("parenthetic_handler") /\ IsRead
    BY DEF SoundInv, CallsInv, CloseSequence, ReturnsTo, At
  <1>2. PICK p \in TokenType, t \in TokenType : Closed(p, t)
    BY <1>1, ClosedEffect
  <1>3. /\ p = Top.lhs /\ HoldOK(p) /\ p.kind = "SEQ" /\ t.kind \in NodeKinds \ {"SEQ", "I10"}
        /\ t.value = p.value /\ t.node = p.node /\ t.parent = p.parent
        /\ Permuted(Refs, t.children, p.children)
        /\ stack' = CallerGoesOn(t)
        /\ Consume /\ UNCHANGED <<input, node_counter, output, status>>
    BY <1>2 DEF Closed
  <1>4. Further
    <2>1. PICK c \in Nat : c = node_counter /\ node_counter' = c /\ c <= c
      BY <1>1, <1>3, Sizes
    <2>2. pos \in Nat /\ Onward
      BY <1>1, <1>3, Sizes, ConsumeFacts
    <2>. QED  BY <1>3, <2>1, <2>2 DEF Further
  <1>5. /\ Len(stack) > 1 /\ NodeOK(p) /\ NodeOK(p)' /\ p.parent = NoReference
    BY <1>1, <1>3, <1>4, ReturnedNodes
  <1>6. NodeOK(t)'
    <2>1. t.children # <<>>
      <3>1. Len(t.children) = Len(p.children) /\ Len(p.children) > 1
        BY <1>3 DEF Permuted, HoldOK
      <3>. QED  BY <3>1
    <2>2. p.value \in Seq(1 .. pos') /\ p.value # <<>> /\ p.node.number \in 1 .. node_counter'
      BY <1>5 DEF NodeOK
    <2>. QED  BY <1>3, <2>1, <2>2 DEF NodeOK
  <1>7. t \in SoundToken' /\ t.parent = NoReference
    BY <1>3, <1>5, <1>6 DEF SoundToken
  <1>8. <<>> \in Seq(SoundToken') /\ Put(<<>>, CallerGoesOn(t))
    <2>1. output \o <<>> = output
      BY <1>1, Sizes, ConcatEmptySeq
    <2>. QED  BY <1>3, <2>1, EmptySeq DEF Put
  <1>. QED  BY <1>1, <1>4, <1>5, <1>7, <1>8, ReturnSound

LEMMA PutRootSound ==
    ASSUME SoundInv, PutRoot
    PROVE  Sound'
  <1>1. /\ TreeTyped /\ Nested /\ Sound /\ UNCHANGED <<input, pos, node_counter>>
        /\ Put(<<Top.lhs>>, <<Frame("pass", 0, "least")>>)
    BY DEF SoundInv, CallsInv, PutRoot, ReturnsTo, At
  <1>2. Further
    <2>1. PICK c \in Nat : c = node_counter /\ node_counter' = c /\ c <= c
      BY <1>1, Sizes
    <2>2. pos \in Nat /\ Onward
      BY <1>1, Sizes, StaysFacts
    <2>. QED  BY <2>1, <2>2 DEF Further
  <1>3. output \in Seq(SoundToken') /\ stack \in Seq(SoundFrame')
    BY <1>1, <1>2, PartsKept
  <1>4. Top.lhs \in SoundToken'
    <2>1. Top.lhs \in SoundToken
      BY <1>1, SoundParts DEF SoundFrame
    <2>. QED  BY <1>2, <2>1, SoundKept
  <1>5. PICK g : g = Frame("pass", 0, "least")
    OBVIOUS
  <1>6. g \in SoundFrame'
    <2>1. "pass" \in Callers /\ 0 \in Nat /\ "least" \in {"least", "NJUX"}
      BY DEF Callers
    <2>2. FrameIs(g, "pass", 0, "least")
      BY <1>5, <2>1, NewFrame
    <2>. QED  BY <2>2, NotNodes DEF FrameIs, SoundFrame, SoundToken
  <1>7. <<Top.lhs>> \in Seq(SoundToken') /\ <<g>> \in Seq(SoundFrame')
    BY <1>4, <1>6
  <1>. QED  BY <1>1, <1>3, <1>5, <1>7, PutSound

LEMMA SoundInit == Init => SoundInv
  <1>. SUFFICES ASSUME Init PROVE SoundInv
    OBVIOUS
  <1>1. CallsInv
    BY CallsInit
  <1>2. PICK g : g = Frame("pass", 0, "least") /\ stack = <<g>>
    BY DEF Init
  <1>3. g \in SoundFrame
    <2>1. "pass" \in Callers /\ 0 \in Nat /\ "least" \in {"least", "NJUX"}
      BY DEF Callers
    <2>2. FrameIs(g, "pass", 0, "least")
      BY <1>2, <2>1, NewFrame
    <2>. QED  BY <2>2, SoundFrames DEF FrameIs
  <1>4. <<g>> \in Seq(SoundFrame) /\ <<>> \in Seq(SoundToken) /\ output = <<>>
    BY <1>3, EmptySeq DEF Init
  <1>. QED  BY <1>1, <1>2, <1>4 DEF SoundInv, Sound

LEMMA SoundStep == SoundInv /\ [Next]_vars => SoundInv'
  <1>. SUFFICES ASSUME SoundInv, [Next]_vars PROVE SoundInv'
    OBVIOUS
  <1>1. CallsInv'
    BY CallsStep DEF SoundInv
  <1>2. CASE \/ ReadToken \/ PassThrough \/ OpenBracket \/ DefaultHandler \/ LeftDenotation
             \/ ConsumeExtra \/ EndSequence \/ CallForRhs \/ CloseError \/ PutEof
    BY <1>1, <1>2, PlainSound DEF SoundInv
  <1>3. CASE ReferenceHandler \/ StartSequence \/ ExtendSequence
    BY <1>1, <1>3, ReferenceSound, StartSound, ExtendSound DEF SoundInv
  <1>4. CASE CloseSequence \/ CloseSingle \/ PutRoot
    BY <1>1, <1>4, ClosedSound, SingleSound, PutRootSound DEF SoundInv
  <1>5. CASE UNCHANGED vars
    <2>1. pos' = pos /\ stack' = stack /\ node_counter' = node_counter /\ output' = output
      BY <1>5 DEF vars
    <2>2. Sound' = Sound
      BY <2>1 DEF Sound, SoundFrame, SoundToken, NodeOK
    <2>. QED  BY <1>1, <2>2 DEF SoundInv
  <1>. QED  BY <1>2, <1>3, <1>4, <1>5 DEF Next

\* A token that a call of pratt_parse holds has a number that no later node gets,
\* and a text of tokens consumed; a token put is one of those, or ends the input.
THEOREM TokensSound == Spec => []SoundInv
  <1>1. Init => SoundInv
    BY SoundInit
  <1>2. SoundInv /\ [Next]_vars => SoundInv'
    BY SoundStep
  <1>. QED  BY <1>1, <1>2, PTL DEF Spec

-------------------------------------------------------------------------------
\* The numbers that were consumed, in the order of the source.

One == [i \in Nat |-> IF input[i] = "1" THEN <<i>> ELSE <<>>]

Upto(n) == [i \in 1 .. n |-> i]

\* What a token tells of the numbers: those in its text, if nothing refers to it.
Ones(o, t) == IF t.parent = NoReference /\ IsNode(t) THEN FlatMap(o, t.value) ELSE <<>>

OnesPut(o) == [t \in TokenType |-> Ones(o, t)]

OnesHeld(o) == [f \in FrameType |-> Ones(o, f.lhs)]

KeptOnes(o) == FlatMap(OnesPut(o), output) \o FlatMap(OnesHeld(o), stack)

AllKept == KeptOnes(One) = FlatMap(One, Upto(pos))

LEMMA OneYields ==
    /\ Yields(One, Nat, Nat)
    /\ \A i \in Nat : One[i] = IF input[i] = "1" THEN <<i>> ELSE <<>>
  <1>1. \A i \in Nat : One[i] = IF input[i] = "1" THEN <<i>> ELSE <<>>
    BY DEF One
  <1>2. \A i \in Nat : <<i>> \in Seq(Nat) /\ <<>> \in Seq(Nat)
    OBVIOUS
  <1>. QED  BY <1>1, <1>2 DEF Yields

LEMMA OnesYield ==
    ASSUME NEW o, Yields(o, Nat, Nat)
    PROVE  /\ \A t \in TokenType : Ones(o, t) \in Seq(Nat) /\ OnesPut(o)[t] = Ones(o, t)
           /\ \A f \in FrameType : OnesHeld(o)[f] = Ones(o, f.lhs)
           /\ Yields(OnesPut(o), TokenType, Nat) /\ Yields(OnesHeld(o), FrameType, Nat)
           /\ Splits(OnesPut(o), TokenType, Nat) /\ Splits(OnesHeld(o), FrameType, Nat)
  <1>1. ASSUME NEW t \in TokenType PROVE Ones(o, t) \in Seq(Nat)
    <2>1. t.value \in Seq(Nat)
      BY TokenFields
    <2>2. FlatMap(o, t.value) \in Seq(Nat)
      BY <2>1, FlatMapType
    <2>. QED  BY <2>2, EmptySeq DEF Ones
  <1>2. \A t \in TokenType : OnesPut(o)[t] = Ones(o, t)
    BY DEF OnesPut
  <1>3. \A f \in FrameType : OnesHeld(o)[f] = Ones(o, f.lhs)
    BY DEF OnesHeld
  <1>4. Yields(OnesPut(o), TokenType, Nat) /\ Yields(OnesHeld(o), FrameType, Nat)
    BY <1>1, <1>2, <1>3, FrameFields DEF Yields
  <1>. QED  BY <1>1, <1>2, <1>3, <1>4, FlatMapSplits

LEMMA OnesOfNot ==
    /\ \A o, t : NotNode(t) => Ones(o, t) = <<>>
    /\ \A o, t : t.parent # NoReference => Ones(o, t) = <<>>
    /\ \A o, t : t.parent = NoReference /\ NodeOK(t) => Ones(o, t) = FlatMap(o, t.value)
  <1>1. NoReference.number = 0
    BY DEF NoReference, Reference
  <1>. QED  BY <1>1 DEF Ones, NotNode, NodeOK, IsNode

LEMMA UptoFacts ==
    ASSUME NEW n \in Nat
    PROVE  /\ Upto(n) \in Seq(Nat) /\ Len(Upto(n)) = n /\ \A k \in 1 .. n : Upto(n)[k] = k
           /\ Upto(n + 1) = Append(Upto(n), n + 1)
  <1>1. \A m \in Nat : Upto(m) \in Seq(Nat) /\ Len(Upto(m)) = m /\ \A k \in 1 .. m : Upto(m)[k] = k
    BY DEF Upto
  <1>2. PICK i \in Nat : i = n + 1
    OBVIOUS
  <1>3. /\ Append(Upto(n), i) \in Seq(Nat) /\ Len(Append(Upto(n), i)) = i
        /\ \A k \in 1 .. n : Append(Upto(n), i)[k] = k
        /\ Append(Upto(n), i)[i] = i
    <2>1. /\ Append(Upto(n), i) \in Seq(Nat) /\ Len(Append(Upto(n), i)) = Len(Upto(n)) + 1
          /\ \A k \in 1 .. Len(Upto(n)) : Append(Upto(n), i)[k] = Upto(n)[k]
          /\ Append(Upto(n), i)[Len(Upto(n)) + 1] = i
      BY <1>1, AppendProperties
    <2>. QED  BY <1>1, <1>2, <2>1
  <1>4. \A k \in 1 .. i : Upto(i)[k] = Append(Upto(n), i)[k]
    <2>1. \A k \in 1 .. i : k \in 1 .. n \/ k = i
      BY <1>2
    <2>. QED  BY <1>1, <1>2, <1>3, <2>1
  <1>5. Upto(i) = Append(Upto(n), i)
    <2>1. Upto(i) \in Seq(Nat) /\ Len(Upto(i)) = i
      BY <1>1
    <2>. QED  BY <1>3, <1>4, <2>1, SeqEqual
  <1>. QED  BY <1>1, <1>2, <1>5

\* One more is consumed.
LEMMA ConsumedOne ==
    ASSUME NEW o, Yields(o, Nat, Nat), NEW n \in Nat
    PROVE  FlatMap(o, Upto(n + 1)) = FlatMap(o, Upto(n)) \o o[n + 1]
  <1>1. PICK i \in Nat : i = n + 1
    OBVIOUS
  <1>2. Upto(n) \in Seq(Nat) /\ Upto(i) = Append(Upto(n), i)
    BY <1>1, UptoFacts
  <1>3. Splits(o, Nat, Nat)
    BY FlatMapSplits
  <1>4. FlatMap(o, Append(Upto(n), i)) = FlatMap(o, Upto(n)) \o o[i]
    BY <1>2, <1>3, Zenon DEF Splits
  <1>. QED  BY <1>1, <1>2, <1>4

\* The numbers in the texts do not change when the input grows.
LEMMA OnesStay ==
    ASSUME NEW n \in Nat, NEW a, NEW b, \A i \in 1 .. n : a[i] = b[i], NEW v \in Seq(1 .. n)
    PROVE  FlatMap(a, v) = FlatMap(b, v)
  <1>1. \A k \in 1 .. Len(v) : v[k] \in 1 .. n
    BY ElementOfSeq
  <1>. QED  BY <1>1, FlatMapSame

-------------------------------------------------------------------------------
\* What the kinds of steps do to the numbers that are kept.

\* The stack as the frames below the latest call, and that.
LEMMA HeldParts ==
    ASSUME TreeTyped, NEW o, Yields(o, Nat, Nat)
    PROVE  /\ FlatMap(OnesHeld(o), stack) = FlatMap(OnesHeld(o), Below) \o Ones(o, Top.lhs)
           /\ FlatMap(OnesHeld(o), Below) \in Seq(Nat) /\ Ones(o, Top.lhs) \in Seq(Nat)
           /\ FlatMap(OnesPut(o), output) \in Seq(Nat)
           /\ Len(stack) > 1 =>
                /\ FlatMap(OnesHeld(o), Below) = FlatMap(OnesHeld(o), Below2) \o Ones(o, Caller.lhs)
                /\ FlatMap(OnesHeld(o), Below2) \in Seq(Nat) /\ Ones(o, Caller.lhs) \in Seq(Nat)
  <1>1. /\ Splits(OnesPut(o), TokenType, Nat) /\ Splits(OnesHeld(o), FrameType, Nat)
        /\ \A t \in TokenType : Ones(o, t) \in Seq(Nat)
        /\ \A f \in FrameType : OnesHeld(o)[f] = Ones(o, f.lhs)
    BY OnesYield
  <1>2. /\ Below \in Seq(FrameType) /\ Top \in FrameType /\ stack = Append(Below, Top)
    BY StackFacts
  <1>3. FlatMap(OnesHeld(o), stack) = FlatMap(OnesHeld(o), Below) \o Ones(o, Top.lhs)
    <2>1. FlatMap(OnesHeld(o), Append(Below, Top)) = FlatMap(OnesHeld(o), Below) \o OnesHeld(o)[Top]
      BY <1>1, <1>2, Zenon DEF Splits
    <2>. QED  BY <1>1, <1>2, <2>1
  <1>4. /\ FlatMap(OnesHeld(o), Below) \in Seq(Nat) /\ FlatMap(OnesPut(o), output) \in Seq(Nat)
    <2>1. output \in Seq(TokenType)
      BY Sizes
    <2>. QED  BY <1>1, <1>2, <2>1, Zenon DEF Splits
  <1>5. Ones(o, Top.lhs) \in Seq(Nat)
    BY <1>1, <1>2, FrameFields
  <1>6. ASSUME Len(stack) > 1
        PROVE  /\ FlatMap(OnesHeld(o), Below) = FlatMap(OnesHeld(o), Below2) \o Ones(o, Caller.lhs)
               /\ FlatMap(OnesHeld(o), Below2) \in Seq(Nat) /\ Ones(o, Caller.lhs) \in Seq(Nat)
    <2>1. Below2 \in Seq(FrameType) /\ Caller \in FrameType /\ Below = Append(Below2, Caller)
      BY <1>6, CallerFacts
    <2>2. FlatMap(OnesHeld(o), Append(Below2, Caller)) = FlatMap(OnesHeld(o), Below2) \o OnesHeld(o)[Caller]
      BY <1>1, <2>1, Zenon DEF Splits
    <2>3. FlatMap(OnesHeld(o), Below2) \in Seq(Nat)
      BY <1>1, <2>1, Zenon DEF Splits
    <2>4. Ones(o, Caller.lhs) \in Seq(Nat)
      BY <1>1, <2>1, FrameFields
    <2>. QED  BY <1>1, <2>1, <2>2, <2>3, <2>4
  <1>. QED  BY <1>3, <1>4, <1>5, <1>6

\* The latest call goes on: what it holds has the numbers e more.
LEMMA TopKeeps ==
    ASSUME TreeTyped, NEW o, Yields(o, Nat, Nat), output' = output,
           NEW g \in FrameType, stack' = Append(Below, g),
           NEW e \in Seq(Nat), Ones(o, g.lhs) = Ones(o, Top.lhs) \o e
    PROVE  KeptOnes(o)' = KeptOnes(o) \o e
  <1>1. /\ FlatMap(OnesHeld(o), stack) = FlatMap(OnesHeld(o), Below) \o Ones(o, Top.lhs)
        /\ FlatMap(OnesHeld(o), Below) \in Seq(Nat) /\ Ones(o, Top.lhs) \in Seq(Nat)
        /\ FlatMap(OnesPut(o), output) \in Seq(Nat)
    BY HeldParts
  <1>2. FlatMap(OnesHeld(o), Append(Below, g)) = FlatMap(OnesHeld(o), Below) \o Ones(o, g.lhs)
    <2>1. Below \in Seq(FrameType) /\ Splits(OnesHeld(o), FrameType, Nat) /\ OnesHeld(o)[g] = Ones(o, g.lhs)
      BY StackFacts, OnesYield
    <2>2. FlatMap(OnesHeld(o), Append(Below, g)) = FlatMap(OnesHeld(o), Below) \o OnesHeld(o)[g]
      BY <2>1, Zenon DEF Splits
    <2>. QED  BY <2>1, <2>2
  <1>3. PICK a \in Seq(Nat), b \in Seq(Nat), x \in Seq(Nat) :
           /\ a = FlatMap(OnesPut(o), output) /\ b = FlatMap(OnesHeld(o), Below) /\ x = Ones(o, Top.lhs)
    BY <1>1
  <1>4. KeptOnes(o)' = a \o (b \o (x \o e))
    BY <1>2, <1>3 DEF KeptOnes
  <1>5. KeptOnes(o) = a \o (b \o x)
    BY <1>1, <1>3 DEF KeptOnes
  <1>6. Joins4(a, b, x, e)
    BY Joined4
  <1>. QED  BY <1>4, <1>5, <1>6, Zenon DEF Joins4

\* A call is made.
LEMMA CallKeeps ==
    ASSUME TreeTyped, NEW o, Yields(o, Nat, Nat), output' = output,
           NEW g \in FrameType, stack' = Append(stack, g), Ones(o, g.lhs) = <<>>
    PROVE  KeptOnes(o)' = KeptOnes(o)
  <1>1. Splits(OnesHeld(o), FrameType, Nat) /\ OnesHeld(o)[g] = <<>> /\ stack \in Seq(FrameType)
    BY OnesYield, Sizes
  <1>2. FlatMap(OnesHeld(o), Append(stack, g)) = FlatMap(OnesHeld(o), stack) \o OnesHeld(o)[g]
    BY <1>1, Zenon DEF Splits
  <1>3. FlatMap(OnesHeld(o), stack) \in Seq(Nat)
    BY <1>1, Zenon DEF Splits
  <1>4. FlatMap(OnesHeld(o), Append(stack, g)) = FlatMap(OnesHeld(o), stack)
    BY <1>1, <1>2, <1>3, ConcatEmptySeq
  <1>. QED  BY <1>4 DEF KeptOnes

\* A call returns, and what its caller goes on with has the numbers of both.
LEMMA ReturnKeeps ==
    ASSUME TreeTyped, NEW o, Yields(o, Nat, Nat), Len(stack) > 1,
           NEW ts \in Seq(TokenType), FlatMap(OnesPut(o), ts) = <<>>, output' = output \o ts,
           NEW t \in TokenType, stack' = CallerGoesOn(t),
           Ones(o, t) = Ones(o, Caller.lhs) \o Ones(o, Top.lhs)
    PROVE  KeptOnes(o)' = KeptOnes(o)
  <1>1. /\ FlatMap(OnesHeld(o), stack) = FlatMap(OnesHeld(o), Below) \o Ones(o, Top.lhs)
        /\ Ones(o, Top.lhs) \in Seq(Nat) /\ FlatMap(OnesPut(o), output) \in Seq(Nat)
        /\ FlatMap(OnesHeld(o), Below) = FlatMap(OnesHeld(o), Below2) \o Ones(o, Caller.lhs)
        /\ FlatMap(OnesHeld(o), Below2) \in Seq(Nat) /\ Ones(o, Caller.lhs) \in Seq(Nat)
    BY HeldParts
  <1>2. PICK a \in Seq(Nat), c \in Seq(Nat), y \in Seq(Nat), x \in Seq(Nat) :
           /\ a = FlatMap(OnesPut(o), output) /\ c = FlatMap(OnesHeld(o), Below2)
           /\ y = Ones(o, Caller.lhs) /\ x = Ones(o, Top.lhs)
    BY <1>1
  <1>3. FlatMap(OnesPut(o), output \o ts) = a
    <2>1. Splits(OnesPut(o), TokenType, Nat) /\ output \in Seq(TokenType)
      BY OnesYield, Sizes
    <2>2. FlatMap(OnesPut(o), output \o ts) = FlatMap(OnesPut(o), output) \o FlatMap(OnesPut(o), ts)
      BY <2>1, Zenon DEF Splits
    <2>3. FlatMap(OnesPut(o), output \o ts) = a \o <<>>
      BY <1>2, <2>2
    <2>. QED  BY <2>3, ConcatEmptySeq
  <1>4. FlatMap(OnesHeld(o), Append(Below2, GoOn(Caller, t))) = c \o (y \o x)
    <2>1. Below2 \in Seq(FrameType) /\ Caller \in FrameType
      BY CallerFacts
    <2>2. GoOn(Caller, t) \in FrameType /\ GoOn(Caller, t).lhs = t
      BY <2>1, GoesOn
    <2>3. Splits(OnesHeld(o), FrameType, Nat) /\ OnesHeld(o)[GoOn(Caller, t)] = y \o x
      BY <1>2, <2>2, OnesYield
    <2>4. FlatMap(OnesHeld(o), Append(Below2, GoOn(Caller, t)))
            = FlatMap(OnesHeld(o), Below2) \o OnesHeld(o)[GoOn(Caller, t)]
      BY <2>1, <2>2, <2>3, Zenon DEF Splits
    <2>. QED  BY <1>2, <2>3, <2>4
  <1>5. stack' = Append(Below2, GoOn(Caller, t))
    BY DEF CallerGoesOn, Below2
  <1>6. KeptOnes(o)' = a \o (c \o (y \o x))
    BY <1>3, <1>4, <1>5 DEF KeptOnes
  <1>7. KeptOnes(o) = a \o ((c \o y) \o x)
    BY <1>1, <1>2 DEF KeptOnes
  <1>8. Joins3(c, y, x)
    BY Joined3
  <1>. QED  BY <1>6, <1>7, <1>8, Zenon DEF Joins3

-------------------------------------------------------------------------------
\* The numbers are kept by the steps.

LEMMA OnesTotal ==
    ASSUME TreeTyped, NEW o, Yields(o, Nat, Nat)
    PROVE  KeptOnes(o) \in Seq(Nat)
  <1>1. Top \in FrameType /\ Top.lhs \in TokenType
    BY StackFacts, FrameFields
  <1>2. /\ FlatMap(OnesHeld(o), stack) = FlatMap(OnesHeld(o), Below) \o Ones(o, Top.lhs)
        /\ FlatMap(OnesHeld(o), Below) \in Seq(Nat) /\ Ones(o, Top.lhs) \in Seq(Nat)
        /\ FlatMap(OnesPut(o), output) \in Seq(Nat)
    BY HeldParts
  <1>3. FlatMap(OnesHeld(o), stack) \in Seq(Nat)
    BY <1>2, ConcatProperties
  <1>. QED  BY <1>2, <1>3, ConcatProperties DEF KeptOnes

\* Nothing is consumed and nothing is lost.
LEMMA KeptAgain ==
    ASSUME NEW o, o = One, AllKept, UNCHANGED <<input, pos>>, KeptOnes(o)' = KeptOnes(o)
    PROVE  AllKept'
  <1>1. KeptOnes(o)' = FlatMap(o, Upto(pos'))
    BY DEF AllKept
  <1>2. o = [i \in Nat |-> IF input'[i] = "1" THEN <<i>> ELSE <<>>]
    BY DEF One
  <1>. QED  BY <1>1, <1>2, Zenon DEF AllKept, KeptOnes, One

\* One token is consumed, and if it is a number, it is held.
LEMMA KeptOneMore ==
    ASSUME TreeTyped, NEW o, o = One, AllKept, input' = input, pos' = pos + 1,
           KeptOnes(o)' = KeptOnes(o) \o o[pos + 1]
    PROVE  AllKept'
  <1>1. KeptOnes(o)' = FlatMap(o, Upto(pos'))
    <2>1. Yields(o, Nat, Nat) /\ pos \in Nat
      BY OneYields, Sizes
    <2>2. FlatMap(o, Upto(pos + 1)) = FlatMap(o, Upto(pos)) \o o[pos + 1]
      BY <2>1, ConsumedOne
    <2>. QED  BY <2>2 DEF AllKept
  <1>2. o = [i \in Nat |-> IF input'[i] = "1" THEN <<i>> ELSE <<>>]
    BY DEF One
  <1>. QED  BY <1>1, <1>2, Zenon DEF AllKept, KeptOnes, One

\* What is consumed is not a number.
LEMMA KeptBesides ==
    ASSUME TreeTyped, NEW o, o = One, AllKept, IsRead, input' = input, Consume, Token # "1",
           KeptOnes(o)' = KeptOnes(o)
    PROVE  AllKept'
  <1>1. CASE pos' = pos
    BY <1>1, KeptAgain
  <1>2. CASE pos' = pos + 1
    <2>1. o[pos + 1] = <<>> /\ Yields(o, Nat, Nat)
      BY OneYields, Sizes DEF Token
    <2>2. KeptOnes(o) \in Seq(Nat)
      BY <2>1, OnesTotal
    <2>3. KeptOnes(o) \o <<>> = KeptOnes(o)
      BY <2>2, ConcatEmptySeq
    <2>. QED  BY <1>2, <2>1, <2>3, KeptOneMore
  <1>. QED  BY <1>1, <1>2 DEF Consume

\* The latest call goes on with a token that has the same numbers.
LEMMA TopGoesKeeps ==
    ASSUME TreeTyped, NEW o, Yields(o, Nat, Nat), output' = output,
           NEW t \in TokenType, stack' = TopGoesOn(t), Ones(o, t) = Ones(o, Top.lhs)
    PROVE  KeptOnes(o)' = KeptOnes(o)
  <1>1. PICK g \in FrameType : g = GoOn(Top, t) /\ g.lhs = t
    BY StackFacts, GoesOn
  <1>2. stack' = Append(Below, g)
    BY <1>1 DEF TopGoesOn, Below
  <1>3. Ones(o, t) \in Seq(Nat) /\ <<>> \in Seq(Nat)
    BY OnesYield, EmptySeq
  <1>4. Ones(o, g.lhs) = Ones(o, Top.lhs) \o <<>>
    BY <1>1, <1>3, ConcatEmptySeq
  <1>5. KeptOnes(o)' = KeptOnes(o) \o <<>>
    BY <1>2, <1>3, <1>4, TopKeeps
  <1>. QED  BY <1>5, OnesTotal, ConcatEmptySeq

\* What a call that has not begun to hold anything holds.
LEMMA NoOnes ==
    ASSUME TreeTyped, Nested, NEW f, FrameOK(f), f.at = "null denotation", NEW o
    PROVE  Ones(o, f.lhs) = <<>>
  BY OnesOfNot, NotNodes DEF FrameOK

LEMMA PassThroughKeeps ==
    ASSUME SoundInv, AllKept, PassThrough
    PROVE  AllKept'
  <1>1. /\ TreeTyped /\ Nested /\ At("null denotation") /\ Token = "EOF" /\ Consume
        /\ stack' = TopGoesOn(EofToken(pos + 1))
        /\ UNCHANGED <<input, node_counter, output, status>>
    BY DEF SoundInv, CallsInv, PassThrough, At
  <1>2. PICK o : o = One /\ Yields(o, Nat, Nat)
    BY OneYields
  <1>3. PICK t \in TokenType : t = EofToken(pos + 1) /\ NotNode(t)
    <2>1. pos + 1 \in Nat
      BY <1>1, Sizes
    <2>. QED  BY <2>1, TokenTypes, NotNodes
  <1>4. Ones(o, t) = <<>> /\ Ones(o, Top.lhs) = <<>>
    <2>1. FrameOK(Top) /\ Top.at = "null denotation"
      BY <1>1, TopOK, AtFacts
    <2>2. Ones(o, Top.lhs) = <<>>
      BY <1>1, <2>1, NoOnes
    <2>. QED  BY <1>3, <2>2, OnesOfNot
  <1>5. KeptOnes(o)' = KeptOnes(o)
    BY <1>1, <1>2, <1>3, <1>4, TopGoesKeeps
  <1>6. IsRead
    BY <1>1, AtFacts
  <1>. QED  BY <1>1, <1>2, <1>5, <1>6, KeptBesides

LEMMA ReferenceKeeps ==
    ASSUME SoundInv, AllKept, ReferenceHandler
    PROVE  AllKept'
  <1>1. /\ TreeTyped /\ Nested /\ At("null denotation") /\ Token = "1" /\ Consume
        /\ node_counter' = node_counter + 1
        /\ UNCHANGED <<input, output, status>>
    BY DEF SoundInv, CallsInv, ReferenceHandler, At
  <1>2. PICK this \in Garbage, n \in Nat :
           /\ n = node_counter + 1
           /\ stack' = TopGoesOn(Node("I10", <<pos + 1>>, this, n, <<>>))
    <2>1. node_counter + 1 \in Nat
      BY <1>1, Sizes
    <2>. QED  BY <2>1 DEF ReferenceHandler
  <1>3. PICK o : o = One /\ Yields(o, Nat, Nat)
    BY OneYields
  <1>4. PICK k \in Nat : k = pos + 1
    BY <1>1, Sizes
  <1>5. PICK t : t = Node("I10", <<k>>, this, n, <<>>)
    OBVIOUS
  <1>6. NodeIs(t, "I10", <<k>>, n, <<>>)
    <2>1. "I10" \in NodeKinds /\ <<k>> \in Seq(Nat) /\ <<>> \in Seq(Refs)
      BY EmptySeq DEF NodeKinds, Kinds
    <2>. QED  BY <1>5, <2>1, NodeType
  <1>7. n # 0 /\ t \in TokenType /\ t.value = <<k>> /\ t.node.number = n /\ t.parent = NoReference
    <2>1. node_counter \in Nat
      BY <1>1, Sizes
    <2>2. n # 0
      BY <1>2, <2>1
    <2>. QED  BY <1>6, <2>2 DEF NodeIs
  <1>8. Ones(o, t) = o[k]
    <2>1. FlatMap(o, <<k>>) = o[k]
      BY <1>3, FlatMapOne
    <2>. QED  BY <1>7, <2>1 DEF Ones, IsNode
  <1>9. Ones(o, Top.lhs) = <<>> /\ Top \in FrameType
    <2>1. FrameOK(Top) /\ Top.at = "null denotation" /\ Top \in FrameType
      BY <1>1, TopOK, AtFacts
    <2>. QED  BY <1>1, <2>1, NoOnes
  <1>10. PICK g \in FrameType : g = GoOn(Top, t) /\ g.lhs = t
    BY <1>7, <1>9, GoesOn
  <1>11. PICK e \in Seq(Nat) : e = o[k]
    BY <1>3 DEF Yields
  <1>12. stack' = Append(Below, g)
    BY <1>2, <1>4, <1>5, <1>10 DEF TopGoesOn, Below
  <1>13. Ones(o, g.lhs) = Ones(o, Top.lhs) \o e
    <2>1. <<>> \o e = e
      BY ConcatEmptySeq
    <2>. QED  BY <1>8, <1>9, <1>10, <1>11, <2>1
  <1>14. KeptOnes(o)' = KeptOnes(o) \o e
    BY <1>1, <1>3, <1>12, <1>13, TopKeeps
  <1>15. pos' = pos + 1
    BY <1>1 DEF Consume
  <1>. QED  BY <1>1, <1>3, <1>4, <1>11, <1>14, <1>15, KeptOneMore

LEMMA OpenBracketKeeps ==
    ASSUME SoundInv, AllKept, OpenBracket
    PROVE  AllKept'
  <1>1. /\ TreeTyped /\ At("null denotation") /\ Token \in Openers /\ Consume
        /\ stack' = Append(stack, Frame("parenthetic_handler", pos + 1, "least"))
        /\ UNCHANGED <<input, node_counter, output, status>>
    BY DEF SoundInv, CallsInv, OpenBracket, At
  <1>2. PICK o : o = One /\ Yields(o, Nat, Nat)
    BY OneYields
  <1>3. PICK g : g = Frame("parenthetic_handler", pos + 1, "least")
    OBVIOUS
  <1>4. FrameIs(g, "parenthetic_handler", pos + 1, "least")
    <2>1. "parenthetic_handler" \in Callers /\ pos + 1 \in Nat /\ "least" \in {"least", "NJUX"}
      BY <1>1, Sizes DEF Callers
    <2>. QED  BY <1>3, <2>1, NewFrame
  <1>5. g \in FrameType /\ Ones(o, g.lhs) = <<>>
    BY <1>4, OnesOfNot, NotNodes DEF FrameIs
  <1>6. KeptOnes(o)' = KeptOnes(o)
    BY <1>1, <1>2, <1>3, <1>5, CallKeeps
  <1>7. IsRead /\ Token # "1"
    BY <1>1, AtFacts DEF Openers
  <1>. QED  BY <1>1, <1>2, <1>6, <1>7, KeptBesides

LEMMA CallForRhsKeeps ==
    ASSUME SoundInv, AllKept, CallForRhs
    PROVE  AllKept'
  <1>1. /\ TreeTyped /\ UNCHANGED <<input, pos, output>>
    BY DEF SoundInv, CallsInv, CallForRhs
  <1>2. PICK caller \in Callers : stack' = Append(stack, Frame(caller, Top.left, "NJUX"))
    BY DEF CallForRhs, Callers
  <1>3. PICK o : o = One /\ Yields(o, Nat, Nat)
    BY OneYields
  <1>4. PICK g : g = Frame(caller, Top.left, "NJUX")
    OBVIOUS
  <1>5. FrameIs(g, caller, Top.left, "NJUX")
    <2>1. Top.left \in Nat /\ "NJUX" \in {"least", "NJUX"}
      BY <1>1, StackFacts, FrameFields
    <2>. QED  BY <1>4, <2>1, NewFrame
  <1>6. g \in FrameType /\ Ones(o, g.lhs) = <<>>
    BY <1>5, OnesOfNot, NotNodes DEF FrameIs
  <1>7. KeptOnes(o)' = KeptOnes(o)
    BY <1>1, <1>2, <1>3, <1>4, <1>6, CallKeeps
  <1>. QED  BY <1>1, <1>3, <1>7, KeptAgain

LEMMA PeekKeeps ==
    ASSUME SoundInv, AllKept, LeftDenotation \/ ConsumeExtra \/ EndSequence
    PROVE  AllKept'
  <1>1. TreeTyped /\ input' = input /\ output' = output /\ Top \in FrameType
    BY StackFacts DEF SoundInv, CallsInv, LeftDenotation, ConsumeExtra, EndSequence
  <1>2. PICK o : o = One /\ Yields(o, Nat, Nat)
    BY OneYields
  <1>3. CASE LeftDenotation
    <2>1. At("peek") /\ Token = ";" /\ Consume
      BY <1>3 DEF LeftDenotation, BindsLeft
    <2>2. PICK g : g = [Top EXCEPT !.left = pos + 1, !.at = "njux_handler"]
      OBVIOUS
    <2>3. g \in FrameType /\ g.lhs = Top.lhs
      BY <1>1, <2>2, Sizes DEF FrameType
    <2>4. stack' = Append(Below, g)
      BY <1>3, <2>2 DEF LeftDenotation, Below
    <2>5. Ones(o, Top.lhs) \in Seq(Nat) /\ <<>> \in Seq(Nat)
      BY <1>1, <1>2, FrameFields, OnesYield, EmptySeq
    <2>6. Ones(o, g.lhs) = Ones(o, Top.lhs) \o <<>>
      BY <2>3, <2>5, ConcatEmptySeq
    <2>7. KeptOnes(o)' = KeptOnes(o) \o <<>>
      BY <1>1, <1>2, <2>3, <2>4, <2>5, <2>6, TopKeeps
    <2>8. KeptOnes(o)' = KeptOnes(o)
      BY <1>1, <1>2, <2>7, OnesTotal, ConcatEmptySeq
    <2>9. IsRead /\ Token # "1"
      BY <1>1, <2>1, AtFacts
    <2>. QED  BY <1>1, <1>2, <2>1, <2>8, <2>9, KeptBesides
  <1>4. CASE ConsumeExtra
    <2>1. At("njux_handler") /\ Token = ";" /\ Consume /\ stack' = stack
      BY <1>4 DEF ConsumeExtra
    <2>2. KeptOnes(o)' = KeptOnes(o)
      BY <1>1, <2>1 DEF KeptOnes
    <2>3. IsRead /\ Token # "1"
      BY <1>1, <2>1, AtFacts
    <2>. QED  BY <1>1, <1>2, <2>1, <2>2, <2>3, KeptBesides
  <1>5. CASE EndSequence
    <2>1. stack' = TopGoesOn(Top.lhs) /\ UNCHANGED <<input, pos>>
      BY <1>5 DEF EndSequence
    <2>2. PICK t \in TokenType : t = Top.lhs
      BY <1>1, FrameFields
    <2>3. KeptOnes(o)' = KeptOnes(o)
      BY <1>1, <1>2, <2>1, <2>2, TopGoesKeeps
    <2>. QED  BY <1>2, <2>1, <2>3, KeptAgain
  <1>. QED  BY <1>3, <1>4, <1>5

\* The text of a token and those around it.
LEMMA JoinedOnes ==
    ASSUME NEW o, Yields(o, Nat, Nat), NEW u \in Seq(Nat), NEW v \in Seq(Nat),
           NEW k \in Nat, o[k] = <<>>
    PROVE  FlatMap(o, u \o <<k>> \o v) = FlatMap(o, u) \o FlatMap(o, v)
  <1>1. Splits(o, Nat, Nat)
    BY FlatMapSplits
  <1>2. Append(u, k) \in Seq(Nat) /\ u \o <<k>> = Append(u, k)
    BY AppendIsConcat, AppendFacts
  <1>3. FlatMap(o, Append(u, k)) = FlatMap(o, u) \o o[k]
    BY <1>1, Zenon DEF Splits
  <1>4. FlatMap(o, u) \in Seq(Nat)
    BY <1>1, Zenon DEF Splits
  <1>5. FlatMap(o, Append(u, k)) = FlatMap(o, u)
    BY <1>3, <1>4, ConcatEmptySeq
  <1>6. FlatMap(o, Append(u, k) \o v) = FlatMap(o, Append(u, k)) \o FlatMap(o, v)
    BY <1>1, <1>2, Zenon DEF Splits
  <1>. QED  BY <1>2, <1>5, <1>6

\* A sequence has the numbers of what is before the separator and of the rest.
LEMMA SequenceOnes ==
    ASSUME TreeTyped, Nested, Sound, NEW caller \in {"start_sequence", "extend_sequence"},
           ReturnsTo(caller), NEW o, o = One,
           NEW t, t.parent = NoReference, t.node.number # 0,
           t.value = Caller.lhs.value \o <<Top.tok>> \o Top.lhs.value
    PROVE  Ones(o, t) = Ones(o, Caller.lhs) \o Ones(o, Top.lhs)
  <1>1. /\ Len(stack) > 1 /\ Top.caller = caller /\ FrameOK(Top) /\ Top.tok \in Nat
        /\ ForRhs(Top) => HoldOK(Caller.lhs) /\ HoldOK(Top.lhs)
    BY ReturnFacts
  <1>2. ForRhs(Top)
    BY <1>1 DEF ForRhs
  <1>3. PICK q \in SoundToken, p \in SoundToken :
           q = Caller.lhs /\ p = Top.lhs /\ q.parent = NoReference /\ p.parent = NoReference
    BY <1>1, SoundParts DEF SoundFrame
  <1>4. NodeOK(q) /\ NodeOK(p) /\ q.value \in Seq(Nat) /\ p.value \in Seq(Nat)
    BY <1>1, <1>2, <1>3, HeldNode, TokenFields
  <1>5. Ones(o, q) = FlatMap(o, q.value) /\ Ones(o, p) = FlatMap(o, p.value)
    BY <1>3, <1>4, OnesOfNot
  <1>6. Yields(o, Nat, Nat) /\ o[Top.tok] = <<>>
    <2>1. input[Top.tok] # "1"
      BY <1>1, <1>2 DEF FrameOK
    <2>. QED  BY <1>1, <2>1, OneYields
  <1>7. FlatMap(o, q.value \o <<Top.tok>> \o p.value) = FlatMap(o, q.value) \o FlatMap(o, p.value)
    BY <1>1, <1>4, <1>6, JoinedOnes
  <1>. QED  BY <1>3, <1>5, <1>7 DEF Ones, IsNode

Told(ts) ==
    ts \in Seq(TokenType) /\ \A k \in 1 .. Len(ts) : ts[k].parent # NoReference

LEMMA ToldTokens ==
    ASSUME NEW q \in TokenType, NEW p \in TokenType, NEW r \in Refs, r # NoReference
    PROVE  Told(<<WithParent(p, r)>>) /\ Told(<<WithParent(q, r), WithParent(p, r)>>)
  <1>1. PICK a, b : a = WithParent(q, r) /\ b = WithParent(p, r)
    OBVIOUS
  <1>2. a \in TokenType /\ b \in TokenType /\ a.parent # NoReference /\ b.parent # NoReference
    BY <1>1, WithParentType
  <1>3. Told(<<b>>)
    <2>1. <<b>> \in Seq(TokenType) /\ Len(<<b>>) = 1 /\ <<b>>[1] = b
      BY <1>2
    <2>. QED  BY <1>2, <2>1 DEF Told
  <1>4. Told(<<a, b>>)
    <2>1. <<a, b>> \in Seq(TokenType) /\ Len(<<a, b>>) = 2 /\ <<a, b>>[1] = a /\ <<a, b>>[2] = b
      BY <1>2
    <2>2. \A k \in 1 .. 2 : k = 1 \/ k = 2
      OBVIOUS
    <2>. QED  BY <1>2, <2>1, <2>2 DEF Told
  <1>. QED  BY <1>1, <1>3, <1>4

\* What refers to a parent does not count.
LEMMA ToldNone ==
    ASSUME NEW o, Yields(o, Nat, Nat), NEW ts \in Seq(TokenType),
           Told(ts)
    PROVE  FlatMap(OnesPut(o), ts) = <<>>
  <1>1. \A k \in 1 .. Len(ts) : OnesPut(o)[ts[k]] = <<>>
    BY ElementOfSeq, OnesYield, OnesOfNot DEF Told
  <1>2. Yields(OnesPut(o), TokenType, Nat)
    BY OnesYield DEF Yields
  <1>. QED  BY <1>1, <1>2, FlatMapNone

LEMMA NumberTold ==
    ASSUME NEW r, r.number # 0
    PROVE  r # NoReference
  BY DEF NoReference, Reference

LEMMA NewReference ==
    ASSUME NEW c \in Nat, NEW n \in Nat, n = c + 1
    PROVE  n # 0 /\ Reference(n, n) \in Refs /\ Reference(n, n) # NoReference
  <1>1. n # 0
    OBVIOUS
  <1>2. Reference(n, n).number # 0
    BY <1>1 DEF Reference
  <1>3. n \in This
    BY DEF This
  <1>. QED  BY <1>1, <1>2, <1>3, TokenTypes, NumberTold

LEMMA StartKeeps ==
    ASSUME SoundInv, AllKept, StartSequence, status' # "not written"
    PROVE  AllKept'
  <1>1. TreeTyped /\ Nested /\ Sound /\ ReturnsTo("start_sequence")
    BY DEF SoundInv, CallsInv, StartSequence, ReturnsTo, At
  <1>2. PICK q \in TokenType, p \in TokenType, t \in TokenType, n \in Nat : Started(q, p, t, n)
    BY <1>1, StartEffect
  <1>3. /\ q = Caller.lhs /\ p = Top.lhs /\ n = node_counter + 1
        /\ UNCHANGED <<input, pos>>
        /\ t.value = q.value \o <<Top.tok>> \o p.value
        /\ t.node.number = n /\ t.parent = NoReference
        /\ Put(<<WithParent(q, Reference(n, n)), WithParent(p, Reference(n, n))>>, CallerGoesOn(t))
    BY <1>2 DEF Started
  <1>4. n # 0 /\ Reference(n, n) \in Refs /\ Reference(n, n) # NoReference
    BY <1>1, <1>3, Sizes, NewReference
  <1>5. PICK r \in Refs : r = Reference(n, n) /\ r # NoReference
    BY <1>4
  <1>6. PICK ts \in Seq(TokenType) : ts = <<WithParent(q, r), WithParent(p, r)>> /\ Told(ts)
    <2>1. Told(<<WithParent(q, r), WithParent(p, r)>>)
      BY <1>5, ToldTokens
    <2>. QED  BY <2>1 DEF Told
  <1>7. PICK o : o = One /\ Yields(o, Nat, Nat)
    BY OneYields
  <1>8. FlatMap(OnesPut(o), ts) = <<>>
    BY <1>6, <1>7, ToldNone
  <1>9. Ones(o, t) = Ones(o, Caller.lhs) \o Ones(o, Top.lhs)
    BY <1>1, <1>3, <1>4, <1>7, SequenceOnes
  <1>10. output' = output \o ts /\ stack' = CallerGoesOn(t)
    <2>1. Put(ts, CallerGoesOn(t))
      BY <1>3, <1>5, <1>6
    <2>. QED  BY <1>1, <2>1, PutFacts
  <1>11. Len(stack) > 1
    BY <1>1, ReturnFacts
  <1>12. KeptOnes(o)' = KeptOnes(o)
    BY <1>1, <1>7, <1>8, <1>9, <1>10, <1>11, ReturnKeeps
  <1>. QED  BY <1>3, <1>7, <1>12, KeptAgain

LEMMA ExtendKeeps ==
    ASSUME SoundInv, AllKept, ExtendSequence, status' # "not written"
    PROVE  AllKept'
  <1>1. TreeTyped /\ Nested /\ Sound /\ ReturnsTo("extend_sequence")
    BY DEF SoundInv, CallsInv, ExtendSequence, ReturnsTo, At
  <1>2. PICK q \in TokenType, p \in TokenType, t \in TokenType : Extended(q, p, t)
    BY <1>1, ExtendEffect
  <1>3. /\ q = Caller.lhs /\ p = Top.lhs /\ HoldOK(q) /\ UNCHANGED <<input, pos>>
        /\ t.value = q.value \o <<Top.tok>> \o p.value
        /\ t.node.number = q.node.number /\ t.parent = NoReference
        /\ Put(<<WithParent(p, q.node)>>, CallerGoesOn(t))
    BY <1>2 DEF Extended
  <1>4. Len(stack) > 1
    BY <1>1, ReturnFacts
  <1>5. q.node.number # 0 /\ q.node \in Refs
    <2>1. q \in SoundToken
      BY <1>1, <1>3, <1>4, SoundParts DEF SoundFrame
    <2>. QED  BY <1>3, <2>1, HeldNode, TokenFields
  <1>6. PICK r \in Refs : r = q.node /\ r # NoReference
    BY <1>5, NumberTold
  <1>7. PICK ts \in Seq(TokenType) : ts = <<WithParent(p, r)>> /\ Told(ts)
    <2>1. Told(<<WithParent(p, r)>>)
      BY <1>6, ToldTokens
    <2>. QED  BY <2>1 DEF Told
  <1>8. PICK o : o = One /\ Yields(o, Nat, Nat)
    BY OneYields
  <1>9. FlatMap(OnesPut(o), ts) = <<>>
    BY <1>7, <1>8, ToldNone
  <1>10. Ones(o, t) = Ones(o, Caller.lhs) \o Ones(o, Top.lhs)
    BY <1>1, <1>3, <1>5, <1>8, SequenceOnes
  <1>11. output' = output \o ts /\ stack' = CallerGoesOn(t)
    <2>1. Put(ts, CallerGoesOn(t))
      BY <1>3, <1>6, <1>7
    <2>. QED  BY <1>1, <2>1, PutFacts
  <1>12. KeptOnes(o)' = KeptOnes(o)
    BY <1>1, <1>4, <1>8, <1>9, <1>10, <1>11, ReturnKeeps
  <1>. QED  BY <1>3, <1>8, <1>12, KeptAgain

\* A closed bracket has the numbers of what is in it.
LEMMA BracketOnes ==
    ASSUME TreeTyped, Nested, Sound, ReturnsTo("parenthetic_handler"), HoldOK(Top.lhs), NEW o,
           Yields(o, Nat, Nat),
           NEW t, t.parent = NoReference, t.node.number # 0, t.value = Top.lhs.value
    PROVE  Ones(o, t) = Ones(o, Caller.lhs) \o Ones(o, Top.lhs)
  <1>1. Len(stack) > 1 /\ FrameOK(Caller) /\ Top.caller = "parenthetic_handler" /\ Calls(Caller, Top)
    BY ReturnFacts
  <1>2. Ones(o, Caller.lhs) = <<>>
    <2>1. Caller.at = "null denotation"
      BY <1>1 DEF Calls
    <2>. QED  BY <1>1, <2>1, NoOnes
  <1>3. PICK p \in SoundToken : p = Top.lhs /\ p.parent = NoReference
    BY SoundParts DEF SoundFrame
  <1>4. NodeOK(p) /\ p \in TokenType
    BY <1>3, HeldNode
  <1>5. Ones(o, p) = FlatMap(o, p.value) /\ Ones(o, p) \in Seq(Nat)
    BY <1>3, <1>4, OnesOfNot, OnesYield
  <1>6. <<>> \o Ones(o, p) = Ones(o, p)
    BY <1>5, ConcatEmptySeq
  <1>7. Ones(o, t) = FlatMap(o, p.value)
    BY <1>3 DEF Ones, IsNode
  <1>. QED  BY <1>2, <1>3, <1>5, <1>6, <1>7

LEMMA SingleKeeps ==
    ASSUME SoundInv, AllKept, CloseSingle, status' # "not written"
    PROVE  AllKept'
  <1>1. TreeTyped /\ Nested /\ Sound /\ ReturnsTo("parenthetic_handler") /\ IsRead
    BY DEF SoundInv, CallsInv, CloseSingle, ReturnsTo, At
  <1>2. PICK p \in TokenType, t \in TokenType, n \in Nat : Single(p, t, n)
    BY <1>1, SingleEffect
  <1>3. /\ p = Top.lhs /\ HoldOK(p) /\ n = node_counter + 1
        /\ t.value = p.value /\ t.node.number = n /\ t.parent = NoReference
        /\ Put(<<WithParent(p, Reference(n, n))>>, CallerGoesOn(t))
        /\ Consume /\ input' = input
    BY <1>2 DEF Single
  <1>4. n # 0 /\ Reference(n, n) \in Refs /\ Reference(n, n) # NoReference
    BY <1>1, <1>3, Sizes, NewReference
  <1>5. PICK r \in Refs : r = Reference(n, n) /\ r # NoReference
    BY <1>4
  <1>6. PICK ts \in Seq(TokenType) : ts = <<WithParent(p, r)>> /\ Told(ts)
    <2>1. Told(<<WithParent(p, r)>>)
      BY <1>5, ToldTokens
    <2>. QED  BY <2>1 DEF Told
  <1>7. PICK o : o = One /\ Yields(o, Nat, Nat)
    BY OneYields
  <1>8. FlatMap(OnesPut(o), ts) = <<>>
    BY <1>6, <1>7, ToldNone
  <1>9. Ones(o, t) = Ones(o, Caller.lhs) \o Ones(o, Top.lhs)
    BY <1>1, <1>3, <1>4, <1>7, BracketOnes
  <1>10. output' = output \o ts /\ stack' = CallerGoesOn(t)
    <2>1. Put(ts, CallerGoesOn(t))
      BY <1>3, <1>5, <1>6
    <2>. QED  BY <1>1, <2>1, PutFacts
  <1>11. Len(stack) > 1
    BY <1>1, ReturnFacts
  <1>12. KeptOnes(o)' = KeptOnes(o)
    BY <1>1, <1>7, <1>8, <1>9, <1>10, <1>11, ReturnKeeps
  <1>13. Token # "1"
    BY DEF CloseSingle, Closing
  <1>. QED  BY <1>1, <1>3, <1>7, <1>12, <1>13, KeptBesides

LEMMA ClosedKeeps ==
    ASSUME SoundInv, AllKept, CloseSequence
    PROVE  AllKept'
  <1>1. TreeTyped /\ Nested /\ Sound /\ ReturnsTo("parenthetic_handler") /\ IsRead
    BY DEF SoundInv, CallsInv, CloseSequence, ReturnsTo, At
  <1>2. PICK p \in TokenType, t \in TokenType : Closed(p, t)
    BY <1>1, ClosedEffect
  <1>3. /\ p = Top.lhs /\ HoldOK(p)
        /\ t.value = p.value /\ t.node = p.node /\ t.parent = p.parent
        /\ stack' = CallerGoesOn(t) /\ Consume /\ UNCHANGED <<input, output>>
    BY <1>2 DEF Closed
  <1>4. PICK ts \in Seq(TokenType) : ts = <<>>
    BY EmptySeq
  <1>5. PICK o : o = One /\ Yields(o, Nat, Nat)
    BY OneYields
  <1>6. FlatMap(OnesPut(o), ts) = <<>>
    BY <1>4, FlatMapEmpty
  <1>7. Ones(o, t) = Ones(o, Caller.lhs) \o Ones(o, Top.lhs)
    <2>1. p \in SoundToken /\ p.parent = NoReference
      BY <1>1, <1>3, SoundParts DEF SoundFrame
    <2>2. t.node.number # 0
      BY <1>3, <2>1, HeldNode
    <2>. QED  BY <1>1, <1>3, <1>5, <2>1, <2>2, BracketOnes
  <1>8. output' = output \o ts
    <2>1. output \in Seq(TokenType)
      BY <1>1, Sizes
    <2>. QED  BY <1>3, <1>4, <2>1, ConcatEmptySeq
  <1>9. Len(stack) > 1
    BY <1>1, ReturnFacts
  <1>10. KeptOnes(o)' = KeptOnes(o)
    BY <1>1, <1>3, <1>5, <1>6, <1>7, <1>8, <1>9, ReturnKeeps
  <1>11. Token # "1"
    BY DEF CloseSequence, Closing
  <1>. QED  BY <1>1, <1>3, <1>5, <1>10, <1>11, KeptBesides

LEMMA OneInSeq ==
    ASSUME NEW X, NEW x \in X
    PROVE  <<x>> \in Seq(X)
  OBVIOUS

LEMMA OnesOfOne ==
    ASSUME NEW o, Yields(o, Nat, Nat)
    PROVE  /\ \A t \in TokenType : FlatMap(OnesPut(o), <<t>>) = Ones(o, t)
           /\ \A g \in FrameType : g.lhs = NoToken => FlatMap(OnesHeld(o), <<g>>) = <<>>
  <1>1. ASSUME NEW t \in TokenType PROVE FlatMap(OnesPut(o), <<t>>) = Ones(o, t)
    <2>1. FlatMap(OnesPut(o), <<t>>) = OnesPut(o)[t]
      BY OnesYield, FlatMapOne
    <2>. QED  BY <2>1, OnesYield
  <1>2. ASSUME NEW g \in FrameType, g.lhs = NoToken PROVE FlatMap(OnesHeld(o), <<g>>) = <<>>
    <2>1. FlatMap(OnesHeld(o), <<g>>) = OnesHeld(o)[g]
      BY OnesYield, FlatMapOne
    <2>. QED  BY <1>2, <2>1, OnesYield, OnesOfNot, NotNodes
  <1>. QED  BY <1>1, <1>2

\* The call that the pass made is the first.
LEMMA OnlyCall ==
    ASSUME TreeTyped, Nested, Top.caller = "pass"
    PROVE  Len(stack) = 1 /\ Below = <<>> /\ stack = <<Top>>
  <1>1. Len(stack) = 1
    <2>1. SUFFICES ASSUME Len(stack) # 1 PROVE FALSE
      OBVIOUS
    <2>2. PICK n \in Nat : n + 1 = Len(stack) /\ n \in 1 .. Len(stack) - 1
      <3>1. PICK m \in Nat : m = Len(stack) /\ m # 0
        BY StackFacts
      <3>2. m - 1 \in Nat /\ (m - 1) + 1 = m /\ m - 1 \in 1 .. m - 1
        BY <2>1, <3>1
      <3>. QED  BY <3>1, <3>2
    <2>3. Calls(stack[n], Top)
      BY <2>2 DEF Nested, Top
    <2>. QED  BY <2>3 DEF Calls
  <1>2. Below \in Seq(FrameType) /\ Len(Below) = 0 /\ stack = Append(Below, Top)
    BY <1>1, StackFacts
  <1>3. Below = <<>>
    BY <1>2, EmptySeq
  <1>4. Append(<<>>, Top) = <<Top>>
    OBVIOUS
  <1>. QED  BY <1>1, <1>2, <1>3, <1>4

LEMMA PutRootKeeps ==
    ASSUME SoundInv, AllKept, PutRoot, status' # "not written"
    PROVE  AllKept'
  <1>1. /\ TreeTyped /\ Nested /\ Top.caller = "pass" /\ UNCHANGED <<input, pos>>
        /\ Put(<<Top.lhs>>, <<Frame("pass", 0, "least")>>)
    BY DEF SoundInv, CallsInv, PutRoot, ReturnsTo, At
  <1>2. PICK t \in TokenType, ts \in Seq(TokenType) : t = Top.lhs /\ ts = <<t>>
    <2>1. PICK t \in TokenType : t = Top.lhs
      BY <1>1, StackFacts, FrameFields
    <2>2. <<t>> \in Seq(TokenType)
      BY OneInSeq
    <2>. QED  BY <2>1, <2>2
  <1>3. PICK g \in FrameType : g = Frame("pass", 0, "least") /\ g.lhs = NoToken
    <2>1. "pass" \in Callers /\ 0 \in Nat /\ "least" \in {"least", "NJUX"}
      BY DEF Callers
    <2>2. FrameIs(Frame("pass", 0, "least"), "pass", 0, "least")
      BY <2>1, NewFrame
    <2>. QED  BY <2>2 DEF FrameIs
  <1>4. output' = output \o ts /\ stack' = <<g>>
    <2>1. Put(ts, <<g>>)
      BY <1>1, <1>2, <1>3
    <2>. QED  BY <1>1, <2>1, PutFacts
  <1>5. PICK o : o = One /\ Yields(o, Nat, Nat)
    BY OneYields
  <1>6. PICK a \in Seq(Nat), x \in Seq(Nat) : a = FlatMap(OnesPut(o), output) /\ x = Ones(o, t)
    BY <1>1, <1>2, <1>5, HeldParts
  <1>7. KeptOnes(o) = a \o x
    <2>1. FlatMap(OnesHeld(o), stack) = FlatMap(OnesHeld(o), Below) \o Ones(o, Top.lhs)
      BY <1>1, <1>5, HeldParts
    <2>2. FlatMap(OnesHeld(o), Below) = <<>>
      BY <1>1, OnlyCall, FlatMapEmpty
    <2>3. <<>> \o x = x
      BY ConcatEmptySeq
    <2>. QED  BY <1>2, <1>6, <2>1, <2>2, <2>3 DEF KeptOnes
  <1>8. FlatMap(OnesPut(o), output \o ts) = a \o x
    <2>1. Splits(OnesPut(o), TokenType, Nat) /\ output \in Seq(TokenType)
      BY <1>1, <1>5, OnesYield, Sizes
    <2>2. FlatMap(OnesPut(o), output \o ts) = FlatMap(OnesPut(o), output) \o FlatMap(OnesPut(o), ts)
      BY <2>1, Zenon DEF Splits
    <2>3. FlatMap(OnesPut(o), <<t>>) = x
      BY <1>5, <1>6, OnesOfOne
    <2>. QED  BY <1>2, <1>6, <2>2, <2>3
  <1>9. FlatMap(OnesHeld(o), <<g>>) = <<>>
    BY <1>3, <1>5, OnesOfOne
  <1>10. KeptOnes(o)' = (a \o x) \o <<>>
    BY <1>4, <1>8, <1>9 DEF KeptOnes
  <1>11. a \o x \in Seq(Nat)
    BY ConcatProperties
  <1>12. KeptOnes(o)' = KeptOnes(o)
    BY <1>7, <1>10, <1>11, ConcatEmptySeq
  <1>. QED  BY <1>1, <1>5, <1>12, KeptAgain

LEMMA PutEofKeeps ==
    ASSUME SoundInv, AllKept, PutEof, status' # "not written"
    PROVE  AllKept'
  <1>1. /\ TreeTyped /\ Sound /\ Top.lhs.kind = "EOF" /\ UNCHANGED <<input, pos, stack>>
        /\ output' = Append(output, Top.lhs)
    BY DEF SoundInv, CallsInv, PutEof
  <1>2. PICK t \in SoundToken : t = Top.lhs /\ t \in TokenType
    BY <1>1, SoundParts, HeldNode DEF SoundFrame
  <1>3. NotNode(t)
    BY <1>1, <1>2 DEF SoundToken, NodeOK, NodeKinds
  <1>4. PICK o : o = One /\ Yields(o, Nat, Nat)
    BY OneYields
  <1>5. Splits(OnesPut(o), TokenType, Nat) /\ output \in Seq(TokenType) /\ OnesPut(o)[t] = <<>>
    <2>1. Splits(OnesPut(o), TokenType, Nat) /\ OnesPut(o)[t] = Ones(o, t)
      BY <1>2, <1>4, OnesYield
    <2>2. output \in Seq(TokenType)
      BY <1>1, Sizes
    <2>3. Ones(o, t) = <<>>
      BY <1>3, OnesOfNot
    <2>. QED  BY <2>1, <2>2, <2>3
  <1>6. FlatMap(OnesPut(o), Append(output, t)) = FlatMap(OnesPut(o), output) \o OnesPut(o)[t]
    BY <1>2, <1>5, Zenon DEF Splits
  <1>7. FlatMap(OnesPut(o), output) \in Seq(Nat)
    BY <1>5, Zenon DEF Splits
  <1>8. FlatMap(OnesPut(o), output') = FlatMap(OnesPut(o), output)
    BY <1>1, <1>2, <1>5, <1>6, <1>7, ConcatEmptySeq
  <1>9. KeptOnes(o)' = KeptOnes(o)
    BY <1>1, <1>8 DEF KeptOnes
  <1>. QED  BY <1>1, <1>4, <1>9, KeptAgain

\* The numbers in a text do not depend on what is not yet consumed.
LEMMA SameOnes ==
    ASSUME TreeTyped, Sound, NEW a, NEW b, \A i \in 1 .. pos : a[i] = b[i]
    PROVE  KeptOnes(a) = KeptOnes(b) /\ FlatMap(a, Upto(pos)) = FlatMap(b, Upto(pos))
  <1>1. ASSUME NEW t \in SoundToken PROVE Ones(a, t) = Ones(b, t)
    <2>1. CASE NotNode(t)
      BY <2>1, OnesOfNot
    <2>2. CASE NodeOK(t)
      <3>1. PICK n \in Nat : n = pos
        BY Sizes
      <3>2. FlatMap(a, t.value) = FlatMap(b, t.value)
        <4>1. t.value \in Seq(1 .. n) /\ \A i \in 1 .. n : a[i] = b[i]
          BY <2>2, <3>1 DEF NodeOK
        <4>. QED  BY <4>1, OnesStay
      <3>. QED  BY <3>2 DEF Ones
    <2>. QED  BY <2>1, <2>2 DEF SoundToken
  <1>2. FlatMap(OnesPut(a), output) = FlatMap(OnesPut(b), output)
    <2>1. \A k \in 1 .. Len(output) : output[k] \in SoundToken /\ output[k] \in TokenType
      BY SoundParts, HeldNode
    <2>2. \A k \in 1 .. Len(output) : OnesPut(a)[output[k]] = OnesPut(b)[output[k]]
      BY <1>1, <2>1 DEF OnesPut
    <2>3. output \in Seq(TokenType)
      BY Sizes
    <2>. QED  BY <2>2, <2>3, FlatMapSame
  <1>3. FlatMap(OnesHeld(a), stack) = FlatMap(OnesHeld(b), stack)
    <2>1. \A k \in 1 .. Len(stack) : stack[k].lhs \in SoundToken /\ stack[k] \in FrameType
      BY SoundParts DEF SoundFrame
    <2>2. \A k \in 1 .. Len(stack) : OnesHeld(a)[stack[k]] = OnesHeld(b)[stack[k]]
      BY <1>1, <2>1 DEF OnesHeld
    <2>3. stack \in Seq(FrameType)
      BY Sizes
    <2>. QED  BY <2>2, <2>3, FlatMapSame
  <1>4. FlatMap(a, Upto(pos)) = FlatMap(b, Upto(pos))
    <2>1. pos \in Nat /\ Upto(pos) \in Seq(Nat) /\ Len(Upto(pos)) = pos
          /\ \A k \in 1 .. pos : Upto(pos)[k] = k
      BY Sizes, UptoFacts
    <2>. QED  BY <2>1, FlatMapSame
  <1>. QED  BY <1>2, <1>3, <1>4 DEF KeptOnes

LEMMA ReadTokenKeeps ==
    ASSUME SoundInv, AllKept, ReadToken
    PROVE  AllKept'
  <1>1. TreeTyped /\ Sound /\ ~ IsRead /\ UNCHANGED <<pos, stack, output>>
    BY DEF SoundInv, CallsInv, ReadToken
  <1>2. PICK t \in Words : input' = Append(input, t)
    BY DEF ReadToken, Words
  <1>3. PICK o : o = One
    OBVIOUS
  <1>4. PICK p : p = One'
    OBVIOUS
  <1>5. \A i \in 1 .. pos : o[i] = p[i]
    <2>1. input \in Seq(Words) /\ pos \in Nat /\ Len(input) = pos
      BY <1>1, Sizes DEF IsRead
    <2>2. \A i \in 1 .. pos : Append(input, t)[i] = input[i] /\ i \in Nat
      BY <2>1, AppendFacts
    <2>. QED  BY <1>2, <1>3, <1>4, <2>2 DEF One
  <1>6. KeptOnes(o) = KeptOnes(p) /\ FlatMap(o, Upto(pos)) = FlatMap(p, Upto(pos))
    BY <1>1, <1>5, SameOnes
  <1>7. KeptOnes(o) = FlatMap(o, Upto(pos))
    BY <1>3 DEF AllKept
  <1>8. KeptOnes(p)' = FlatMap(p, Upto(pos'))
    BY <1>1, <1>6, <1>7 DEF KeptOnes
  <1>. QED  BY <1>4, <1>8, Zenon DEF AllKept, KeptOnes

KeptInv == SoundInv /\ (status \in {"running", "done"} => AllKept)

LEMMA KeptInit == Init => KeptInv
  <1>. SUFFICES ASSUME Init PROVE KeptInv
    OBVIOUS
  <1>1. SoundInv
    BY SoundInit
  <1>2. /\ pos = 0 /\ output = <<>> /\ stack = <<Frame("pass", 0, "least")>>
    BY DEF Init
  <1>3. PICK o : o = One /\ Yields(o, Nat, Nat)
    BY OneYields
  <1>4. PICK g \in FrameType : g = Frame("pass", 0, "least") /\ g.lhs = NoToken
    <2>1. "pass" \in Callers /\ 0 \in Nat /\ "least" \in {"least", "NJUX"}
      BY DEF Callers
    <2>2. FrameIs(Frame("pass", 0, "least"), "pass", 0, "least")
      BY <2>1, NewFrame
    <2>. QED  BY <2>2 DEF FrameIs
  <1>5. FlatMap(OnesHeld(o), <<g>>) = <<>>
    BY <1>3, <1>4, OnesOfOne
  <1>6. KeptOnes(o) = <<>>
    <2>1. FlatMap(OnesPut(o), <<>>) = <<>> /\ <<>> \o <<>> = <<>>
      BY FlatMapEmpty, EmptySeq, ConcatEmptySeq
    <2>. QED  BY <1>2, <1>4, <1>5, <2>1 DEF KeptOnes
  <1>7. FlatMap(o, Upto(pos)) = <<>>
    <2>1. Upto(0) \in Seq(Nat) /\ Len(Upto(0)) = 0
      BY UptoFacts
    <2>2. Upto(0) = <<>>
      BY <2>1, EmptySeq
    <2>. QED  BY <1>2, <2>2, FlatMapEmpty
  <1>. QED  BY <1>1, <1>3, <1>6, <1>7 DEF KeptInv, AllKept

LEMMA KeptStep == KeptInv /\ [Next]_vars => KeptInv'
  <1>. SUFFICES ASSUME KeptInv, [Next]_vars PROVE KeptInv'
    OBVIOUS
  <1>1. SoundInv /\ SoundInv'
    BY SoundStep DEF KeptInv
  <1>2. SUFFICES ASSUME status' \in {"running", "done"} PROVE AllKept'
    BY <1>1 DEF KeptInv
  <1>3. CASE UNCHANGED vars
    <2>1. AllKept' = AllKept
      BY <1>3 DEF vars, AllKept, KeptOnes, One
    <2>. QED  BY <1>2, <1>3, <2>1 DEF vars, KeptInv
  <1>4. CASE Next
    <2>1. AllKept
      BY <1>4 DEF KeptInv, Next, ReadToken, PassThrough, ReferenceHandler, OpenBracket,
                  DefaultHandler, LeftDenotation, ConsumeExtra, EndSequence, CallForRhs,
                  StartSequence, ExtendSequence, CloseSequence, CloseSingle, CloseError,
                  PutRoot, PutEof, ReturnsTo, At
    <2>2. CASE ReadToken \/ PassThrough \/ ReferenceHandler \/ OpenBracket
      BY <1>1, <2>1, <2>2, ReadTokenKeeps, PassThroughKeeps, ReferenceKeeps, OpenBracketKeeps
    <2>3. CASE LeftDenotation \/ ConsumeExtra \/ EndSequence \/ CallForRhs
      BY <1>1, <2>1, <2>3, PeekKeeps, CallForRhsKeeps
    <2>4. CASE StartSequence \/ ExtendSequence \/ CloseSequence \/ CloseSingle
      BY <1>1, <1>2, <2>1, <2>4, StartKeeps, ExtendKeeps, ClosedKeeps, SingleKeeps
    <2>5. CASE PutRoot \/ PutEof
      BY <1>1, <1>2, <2>1, <2>5, PutRootKeeps, PutEofKeeps
    <2>6. CASE DefaultHandler \/ CloseError
      BY <1>2, <2>6 DEF DefaultHandler, CloseError
    <2>. QED  BY <1>4, <2>2, <2>3, <2>4, <2>5, <2>6 DEF Next
  <1>. QED  BY <1>3, <1>4

-------------------------------------------------------------------------------
\* The numbers of the roots.

RootOf == [t \in TokenType |-> IF t.parent = NoReference /\ IsNode(t) THEN <<t>> ELSE <<>>]

ValueOf == [t \in TokenType |-> t.value]

RootValue == [t \in TokenType |-> IF t.parent = NoReference /\ IsNode(t) THEN t.value ELSE <<>>]

LEMMA RootFacts ==
    /\ Yields(RootOf, TokenType, TokenType) /\ Yields(ValueOf, TokenType, Nat)
    /\ \A t \in TokenType : RootValue[t] = FlatMap(ValueOf, RootOf[t])
  <1>1. Yields(RootOf, TokenType, TokenType)
    BY EmptySeq DEF Yields, RootOf
  <1>2. Yields(ValueOf, TokenType, Nat)
    BY TokenFields DEF Yields, ValueOf
  <1>3. ASSUME NEW t \in TokenType PROVE RootValue[t] = FlatMap(ValueOf, RootOf[t])
    <2>1. FlatMap(ValueOf, <<t>>) = t.value /\ FlatMap(ValueOf, <<>>) = <<>>
      BY <1>2, FlatMapOne, FlatMapEmpty DEF ValueOf
    <2>. QED  BY <2>1 DEF RootValue, RootOf
  <1>. QED  BY <1>1, <1>2, <1>3

LEMMA PendingFacts ==
    ASSUME TreeTyped
    PROVE  /\ Pending \in Seq(TokenType) /\ Len(Pending) = Len(stack)
           /\ \A k \in 1 .. Len(stack) : Pending[k] = stack[k].lhs
  <1>1. DOMAIN stack = 1 .. Len(stack) /\ Len(stack) \in Nat
    BY StackFacts, Sizes, LenProperties
  <1>2. \A k \in 1 .. Len(stack) : stack[k].lhs \in TokenType
    BY StackFacts, FrameFields
  <1>3. Pending = [k \in 1 .. Len(stack) |-> stack[k].lhs]
    BY <1>1 DEF Pending
  <1>. QED  BY <1>1, <1>2, <1>3, IsASeq

\* The roots, put or held, have the numbers that are kept.
LEMMA RootsKeep ==
    ASSUME TreeTyped, NEW o, Yields(o, Nat, Nat)
    PROVE  FlatMap(o, FlatMap(ValueOf, FlatMap(RootOf, output \o Pending))) = KeptOnes(o)
  <1>1. output \in Seq(TokenType) /\ Pending \in Seq(TokenType)
    BY Sizes, PendingFacts
  <1>2. PICK s \in Seq(TokenType) : s = output \o Pending
    BY <1>1, ConcatProperties
  <1>3. Yields(RootValue, TokenType, Nat) /\ FlatMap(ValueOf, FlatMap(RootOf, s)) = FlatMap(RootValue, s)
    <2>1. /\ Yields(RootOf, TokenType, TokenType) /\ Yields(ValueOf, TokenType, Nat)
          /\ AfterEach(RootValue, ValueOf, RootOf, TokenType)
      BY RootFacts DEF AfterEach
    <2>2. Yields(RootValue, TokenType, Nat) /\ Composes(RootValue, ValueOf, RootOf, TokenType)
      BY <2>1, FlatMapCompose
    <2>. QED  BY <2>2, Zenon DEF Composes
  <1>4. \A t \in TokenType : OnesPut(o)[t] = FlatMap(o, RootValue[t])
    BY FlatMapEmpty DEF OnesPut, Ones, RootValue
  <1>5. FlatMap(o, FlatMap(RootValue, s)) = FlatMap(OnesPut(o), s)
    <2>1. AfterEach(OnesPut(o), o, RootValue, TokenType)
      BY <1>4, Zenon DEF AfterEach
    <2>2. Composes(OnesPut(o), o, RootValue, TokenType)
      BY <1>3, <2>1, FlatMapCompose
    <2>. QED  BY <2>2, Zenon DEF Composes
  <1>6. FlatMap(OnesPut(o), s) = FlatMap(OnesPut(o), output) \o FlatMap(OnesPut(o), Pending)
    BY <1>1, <1>2, OnesYield, Zenon DEF Splits
  <1>7. FlatMap(OnesPut(o), Pending) = FlatMap(OnesHeld(o), stack)
    <2>1. \A k \in 1 .. Len(stack) : OnesPut(o)[Pending[k]] = OnesHeld(o)[stack[k]]
      <3>. SUFFICES ASSUME NEW k \in 1 .. Len(stack)
                    PROVE  OnesPut(o)[Pending[k]] = OnesHeld(o)[stack[k]]
        OBVIOUS
      <3>1. stack[k] \in FrameType /\ stack[k].lhs \in TokenType /\ Pending[k] = stack[k].lhs
        BY StackFacts, FrameFields, PendingFacts
      <3>. QED  BY <3>1, OnesYield
    <2>2. DOMAIN Pending = 1 .. Len(stack) /\ DOMAIN stack = 1 .. Len(stack)
      BY <1>1, Sizes, PendingFacts, LenProperties
    <2>3. Mapped(OnesPut(o), Pending) = Mapped(OnesHeld(o), stack)
      BY <2>1, <2>2 DEF Mapped
    <2>. QED  BY <2>3 DEF FlatMap
  <1>. QED  BY <1>2, <1>3, <1>5, <1>6, <1>7 DEF KeptOnes

LEMMA KeptMeans == KeptInv => NothingLost
  <1>. SUFFICES ASSUME KeptInv, status \in {"running", "done"} PROVE NothingLost
    BY DEF NothingLost
  <1>1. TreeTyped /\ AllKept
    BY DEF KeptInv, SoundInv, CallsInv
  <1>2. Yields(One, Nat, Nat)
    BY OneYields
  <1>3. output \o Pending \in Seq(TokenType)
    BY <1>1, Sizes, PendingFacts, ConcatProperties
  <1>4. Chosen(output \o Pending, LAMBDA t : t.parent = NoReference /\ IsNode(t))
          = FlatMap(RootOf, output \o Pending)
    <2>1. \A n \in DOMAIN (output \o Pending) : (output \o Pending)[n] \in TokenType
      BY <1>3, ElementOfSeq, LenProperties
    <2>. QED  BY <2>1 DEF Chosen, FlatMap, Mapped, RootOf
  <1>5. PICK roots \in Seq(TokenType) : roots = FlatMap(RootOf, output \o Pending)
    BY <1>3, RootFacts, FlatMapType
  <1>6. FlattenSeq([n \in DOMAIN roots |-> roots[n].value]) = FlatMap(ValueOf, roots)
    <2>1. \A n \in DOMAIN roots : roots[n] \in TokenType
      BY ElementOfSeq, LenProperties
    <2>. QED  BY <2>1 DEF FlatMap, Mapped, ValueOf
  <1>7. \A v \in Seq(Nat) : Places(v, "1") = FlatMap(One, v)
    <2>. SUFFICES ASSUME NEW v \in Seq(Nat) PROVE Places(v, "1") = FlatMap(One, v)
      OBVIOUS
    <2>1. \A n \in DOMAIN v : v[n] \in Nat
      BY ElementOfSeq, LenProperties
    <2>. QED  BY <2>1 DEF Places, Chosen, FlatMap, Mapped, One
  <1>8. FlatMap(ValueOf, roots) \in Seq(Nat)
    BY RootFacts, FlatMapType
  <1>9. Upto(pos) \in Seq(Nat) /\ Upto(pos) = [i \in 1 .. pos |-> i]
    BY <1>1, Sizes, UptoFacts DEF Upto
  <1>10. FlatMap(One, FlatMap(ValueOf, roots)) = FlatMap(One, Upto(pos))
    BY <1>1, <1>2, <1>5, RootsKeep DEF AllKept
  <1>11. Places(FlatMap(ValueOf, roots), "1") = Places([i \in 1 .. pos |-> i], "1")
    BY <1>7, <1>8, <1>9, <1>10
  <1>. QED  BY <1>4, <1>5, <1>6, <1>11 DEF NothingLost

\* Every number of the input that was consumed is in the text of exactly one
\* root, put or still held, in the order of the source, whatever the brackets and
\* separators around it and however often its sequence was extended.
THEOREM NumbersKept == Spec => []NothingLost
  <1>1. Init => KeptInv
    BY KeptInit
  <1>2. KeptInv /\ [Next]_vars => KeptInv'
    BY KeptStep
  <1>3. KeptInv => NothingLost
    BY KeptMeans
  <1>. QED  BY <1>1, <1>2, <1>3, PTL DEF Spec

-------------------------------------------------------------------------------
\* What is said of the input, token by token.

Befores == {"start", "item", "open", "separator", "dead", "end"}

Verdicts == Befores \X Seq(Openers)

JudgedIs(j, s) ==
    /\ j[0] = <<"start", <<>>>>
    /\ \A n \in 1 .. Len(s) : j[n] = Accepting(j[n - 1], s[n])

LEMMA AcceptingType ==
    ASSUME NEW v \in Verdicts, NEW t
    PROVE  Accepting(v, t) \in Verdicts
  <1>1. PICK b \in Befores, open \in Seq(Openers) : v[1] = b /\ v[2] = open
    BY DEF Verdicts
  <1>2. \A c \in Befores, o \in Seq(Openers) : <<c, o>> \in Verdicts
    BY DEF Verdicts
  <1>3. {"item", "open", "separator", "dead", "end"} \subseteq Befores
    BY DEF Befores
  <1>4. t \in Openers => Append(open, t) \in Seq(Openers)
    BY AppendProperties
  <1>5. open # <<>> => Front(open) \in Seq(Openers)
    BY FrontFacts
  <1>. QED  BY <1>1, <1>2, <1>3, <1>4, <1>5 DEF Accepting

LEMMA JudgedExists ==
    ASSUME NEW s \in Seq(Words)
    PROVE  \E j \in [0 .. Len(s) -> Verdicts] : JudgedIs(j, s)
  <1>. DEFINE step == [p \in Verdicts \X Words |-> Accepting(p[1], p[2])]
              a == <<"start", <<>>>>
  <1>1. a \in Verdicts
    BY EmptySeq DEF Verdicts, Befores
  <1>2. \A v \in Verdicts, t \in Words : Stepped(step, v, t) = Accepting(v, t)
    BY DEF Stepped
  <1>. HIDE DEF step
  <1>3. Takes(step, Verdicts, Words)
    BY <1>2, AcceptingType DEF Takes
  <1>4. PICK j \in [0 .. Len(s) -> Verdicts] : Folds(j, step, a, s)
    BY <1>1, <1>3, FoldExists
  <1>5. ASSUME NEW n \in 1 .. Len(s) PROVE j[n] = Accepting(j[n - 1], s[n])
    <2>1. n - 1 \in 0 .. Len(s) /\ s[n] \in Words
      BY ElementOfSeq, LenProperties
    <2>2. j[n - 1] \in Verdicts
      BY <2>1
    <2>3. j[n] = Stepped(step, j[n - 1], s[n])
      BY <1>4 DEF Folds
    <2>. QED  BY <1>2, <2>1, <2>2, <2>3
  <1>. QED  BY <1>4, <1>5 DEF JudgedIs, Folds

\* It depends on no more of the input than what it is said of.
LEMMA JudgedAgain ==
    ASSUME NEW i, NEW j, NEW s, NEW t, JudgedIs(i, s), JudgedIs(j, t),
           NEW n \in Nat, n <= Len(s), n <= Len(t), Len(s) \in Nat, Len(t) \in Nat,
           \A k \in 1 .. n : s[k] = t[k]
    PROVE  \A k \in 0 .. n : i[k] = j[k]
  <1>. DEFINE S == {k \in 0 .. n : i[k] = j[k]}
  <1>1. 0 \in S
    <2>1. i[0] = j[0]
      BY Zenon DEF JudgedIs
    <2>2. 0 \in 0 .. n
      OBVIOUS
    <2>. QED  BY <2>1, <2>2
  <1>2. ASSUME NEW k \in 0 .. n - 1, k \in S PROVE k + 1 \in S
    <2>1. PICK m \in 1 .. n : m = k + 1 /\ m - 1 = k /\ m \in 1 .. Len(s) /\ m \in 1 .. Len(t)
      OBVIOUS
    <2>2. i[m] = Accepting(i[m - 1], s[m]) /\ j[m] = Accepting(j[m - 1], t[m])
      BY <2>1 DEF JudgedIs
    <2>3. i[m] = j[m]
      BY <1>2, <2>1, <2>2
    <2>. QED  BY <2>1, <2>3
  <1>. HIDE DEF S
  <1>3. \A k \in 0 .. n : k \in S
    BY <1>1, <1>2, InductionUpTo
  <1>. QED  BY <1>3 DEF S

\* What Judged is of an input.
JudgedOn(s) ==
    LET state[n \in 0 .. Len(s)] ==
          IF n = 0 THEN <<"start", <<>>>> ELSE Accepting(state[n - 1], s[n])
    IN  state

LEMMA JudgedOnFacts ==
    ASSUME NEW s \in Seq(Words)
    PROVE  /\ JudgedIs(JudgedOn(s), s)
           /\ \A n \in 0 .. Len(s) : JudgedOn(s)[n] \in Verdicts
  <1>1. PICK j \in [0 .. Len(s) -> Verdicts] : JudgedIs(j, s)
    BY JudgedExists
  <1>. DEFINE Is(h) == h = [n \in 0 .. Len(s) |->
                              IF n = 0 THEN <<"start", <<>>>> ELSE Accepting(h[n - 1], s[n])]
  <1>2. Is(j)
    <2>1. \A n \in 0 .. Len(s) : n = 0 \/ n \in 1 .. Len(s)
      BY LenProperties
    <2>2. j[0] = <<"start", <<>>>> /\ \A n \in 1 .. Len(s) : j[n] = Accepting(j[n - 1], s[n])
      BY <1>1 DEF JudgedIs
    <2>3. \A n \in 0 .. Len(s) :
             j[n] = IF n = 0 THEN <<"start", <<>>>> ELSE Accepting(j[n - 1], s[n])
      <3>1. \A n \in 1 .. Len(s) : n # 0
        BY LenProperties
      <3>. QED  BY <2>1, <2>2, <3>1
    <2>4. j = [n \in 0 .. Len(s) |-> j[n]]
      BY <1>1
    <2>. QED  BY <2>3, <2>4
  <1>3. Is(JudgedOn(s))
    BY <1>2 DEF JudgedOn
  <1>4. JudgedIs(JudgedOn(s), s)
    <2>1. PICK h : h = JudgedOn(s)
      OBVIOUS
    <2>2. /\ 0 \in 0 .. Len(s)
          /\ \A n \in 1 .. Len(s) : n \in 0 .. Len(s) /\ n # 0
      BY LenProperties
    <2>3. h = [n \in 0 .. Len(s) |->
                  IF n = 0 THEN <<"start", <<>>>> ELSE Accepting(h[n - 1], s[n])]
      BY <1>3, <2>1
    <2>4. h[0] = <<"start", <<>>>>
      BY <2>2, <2>3
    <2>5. \A n \in 1 .. Len(s) : h[n] = Accepting(h[n - 1], s[n])
      BY <2>2, <2>3
    <2>. QED  BY <2>1, <2>4, <2>5 DEF JudgedIs
  <1>5. \A n \in 0 .. Len(s) : JudgedOn(s)[n] = j[n]
    BY <1>1, <1>4, LenProperties, JudgedAgain
  <1>. QED  BY <1>1, <1>4, <1>5

LEMMA JudgedFacts ==
    ASSUME input \in Seq(Words)
    PROVE  /\ JudgedIs(Judged, input)
           /\ \A n \in 0 .. Len(input) : Judged[n] \in Verdicts
  <1>1. Judged = JudgedOn(input)
    BY DEF Judged, JudgedOn
  <1>. QED  BY <1>1, JudgedOnFacts

-------------------------------------------------------------------------------
\* The open brackets.

LEMMA OpenYields ==
    ASSUME TreeTyped
    PROVE  /\ Yields(OpenOf, FrameType, Words) /\ Splits(OpenOf, FrameType, Words)
           /\ \A f \in FrameType : f.caller # "parenthetic_handler" => OpenOf[f] = <<>>
           /\ \A f \in FrameType : f.caller = "parenthetic_handler" /\ f.tok \in 1 .. Len(input) =>
                 OpenOf[f] = <<input[f.tok]>>
           /\ \A f, g \in FrameType : f.caller = g.caller /\ f.tok = g.tok => OpenOf[f] = OpenOf[g]
  <1>1. input \in Seq(Words)
    BY Sizes
  <1>2. \A n \in DOMAIN input : <<input[n]>> \in Seq(Words)
    BY <1>1, ElementOfSeq, LenProperties
  <1>3. Yields(OpenOf, FrameType, Words)
    BY <1>2, EmptySeq DEF Yields, OpenOf
  <1>4. DOMAIN input = 1 .. Len(input)
    BY <1>1, LenProperties
  <1>. QED  BY <1>3, <1>4, FlatMapSplits DEF OpenOf

LEMMA FrontAppend ==
    ASSUME NEW X, NEW s \in Seq(X), NEW x \in X
    PROVE  /\ Front(Append(s, x)) = s /\ Append(s, x)[Len(Append(s, x))] = x
           /\ Append(s, x) # <<>>
  <1>0. PICK u : u = Append(s, x)
    OBVIOUS
  <1>1. /\ u \in Seq(X) /\ u # <<>> /\ Len(u) = Len(s) + 1
        /\ u[Len(s) + 1] = x /\ \A k \in 1 .. Len(s) : u[k] = s[k]
    <2>1. /\ Append(s, x) \in Seq(X) /\ Append(s, x) # <<>>
          /\ Len(Append(s, x)) = Len(s) + 1 /\ Append(s, x)[Len(s) + 1] = x
          /\ \A k \in 1 .. Len(s) : Append(s, x)[k] = s[k]
      BY AppendFacts
    <2>. QED  BY <1>0, <2>1
  <1>2. Front(u) \in Seq(X) /\ Len(Front(u)) = Len(u) - 1 /\ \A k \in 1 .. Len(u) - 1 : Front(u)[k] = u[k]
    BY <1>1, FrontFacts
  <1>3. PICK n \in Nat : n = Len(s) /\ Len(u) = n + 1 /\ Len(u) - 1 = n
    BY <1>1, LenProperties
  <1>4. Front(u) = s
    BY <1>1, <1>2, <1>3, SeqEqual
  <1>. QED  BY <1>0, <1>1, <1>3, <1>4

\* The latest call goes on.
LEMMA OpenedTop ==
    ASSUME TreeTyped, input' = input, NEW g \in FrameType, stack' = Append(Below, g),
           g.caller = Top.caller, g.tok = Top.tok
    PROVE  Opened' = Opened
  <1>1. PICK o : o = OpenOf /\ Splits(o, FrameType, Words)
    BY OpenYields
  <1>2. Below \in Seq(FrameType) /\ Top \in FrameType /\ stack = Append(Below, Top)
    BY StackFacts
  <1>3. o[g] = o[Top]
    BY <1>1, <1>2, OpenYields
  <1>4. FlatMap(o, Append(Below, g)) = FlatMap(o, Below) \o o[g]
    BY <1>1, <1>2, Zenon DEF Splits
  <1>5. FlatMap(o, Append(Below, Top)) = FlatMap(o, Below) \o o[Top]
    BY <1>1, <1>2, Zenon DEF Splits
  <1>6. FlatMap(o, stack') = FlatMap(o, stack)
    BY <1>2, <1>3, <1>4, <1>5
  <1>7. o = OpenOf'
    BY <1>1 DEF OpenOf
  <1>. QED  BY <1>1, <1>6, <1>7 DEF Opened

\* A call is made.
LEMMA OpenedCall ==
    ASSUME TreeTyped, input' = input, NEW g \in FrameType, stack' = Append(stack, g), NEW v, OpenOf[g] = v
    PROVE  Opened' = Opened \o v
  <1>1. PICK o : o = OpenOf /\ Splits(o, FrameType, Words)
    BY OpenYields
  <1>2. stack \in Seq(FrameType)
    BY Sizes
  <1>3. FlatMap(o, Append(stack, g)) = FlatMap(o, stack) \o o[g]
    BY <1>1, <1>2, Zenon DEF Splits
  <1>4. o = OpenOf'
    BY <1>1 DEF OpenOf
  <1>. QED  BY <1>1, <1>3, <1>4 DEF Opened

\* A call returns.
LEMMA OpenedReturn ==
    ASSUME TreeTyped, input' = input, Len(stack) > 1, NEW t \in TokenType, stack' = CallerGoesOn(t)
    PROVE  Opened = Opened' \o OpenOf[Top] /\ Opened' \in Seq(Words)
  <1>1. PICK o : o = OpenOf /\ Splits(o, FrameType, Words)
    BY OpenYields
  <1>2. /\ Below \in Seq(FrameType) /\ Top \in FrameType /\ stack = Append(Below, Top)
        /\ Below2 \in Seq(FrameType) /\ Caller \in FrameType /\ Below = Append(Below2, Caller)
    BY StackFacts, CallerFacts
  <1>3. PICK g \in FrameType : g = GoOn(Caller, t) /\ g.caller = Caller.caller /\ g.tok = Caller.tok
    BY <1>2, GoesOn
  <1>4. o[g] = o[Caller]
    BY <1>1, <1>2, <1>3, OpenYields
  <1>5. FlatMap(o, Append(Below2, g)) = FlatMap(o, Below2) \o o[g]
    BY <1>1, <1>2, Zenon DEF Splits
  <1>6. FlatMap(o, Append(Below2, Caller)) = FlatMap(o, Below2) \o o[Caller]
    BY <1>1, <1>2, Zenon DEF Splits
  <1>7. FlatMap(o, Append(Below, Top)) = FlatMap(o, Below) \o o[Top]
    BY <1>1, <1>2, Zenon DEF Splits
  <1>8. stack' = Append(Below2, g)
    BY <1>3 DEF CallerGoesOn, Below2
  <1>9. FlatMap(o, Append(Below2, g)) \in Seq(Words)
    <2>1. Append(Below2, g) \in Seq(FrameType)
      BY <1>2, AppendFacts
    <2>. QED  BY <1>1, <2>1, Zenon DEF Splits
  <1>10. FlatMap(o, stack) = FlatMap(o, stack') \o o[Top] /\ FlatMap(o, stack') \in Seq(Words)
    BY <1>2, <1>4, <1>5, <1>6, <1>7, <1>8, <1>9
  <1>11. o = OpenOf'
    BY <1>1 DEF OpenOf
  <1>12. FlatMap(o, stack') = Opened' /\ FlatMap(o, stack) = Opened
    BY <1>1, <1>11 DEF Opened
  <1>. QED  BY <1>1, <1>10, <1>12

LEMMA OpenedAlone ==
    ASSUME TreeTyped, NEW g \in FrameType, stack = <<g>>, g.caller = "pass"
    PROVE  Opened = <<>>
  <1>1. FlatMap(OpenOf, <<g>>) = OpenOf[g]
    BY OpenYields, FlatMapOne
  <1>. QED  BY <1>1, OpenYields DEF Opened

\* A call of parenthetic_handler has opened the bracket that closes first.
LEMMA OpenedLast ==
    ASSUME TreeTyped, Nested, Len(stack) > 1
    PROVE  Top.caller = "parenthetic_handler" =>
             Opened # <<>> /\ Opened[Len(Opened)] = input[Top.tok] /\ input[Top.tok] \in Openers
  <1>. SUFFICES ASSUME Top.caller = "parenthetic_handler"
                PROVE  Opened # <<>> /\ Opened[Len(Opened)] = input[Top.tok] /\ input[Top.tok] \in Openers
    OBVIOUS
  <1>1. PICK o : o = OpenOf /\ Splits(o, FrameType, Words)
    BY OpenYields
  <1>2. Below \in Seq(FrameType) /\ Top \in FrameType /\ stack = Append(Below, Top)
    BY StackFacts
  <1>3. Top.tok \in 1 .. pos /\ input[Top.tok] \in Openers
    BY TopOK DEF FrameOK
  <1>4. Top.tok \in 1 .. Len(input) /\ input[Top.tok] \in Words
    <2>1. PICK n \in Nat : n = Len(input) /\ pos \in Nat /\ (n = pos \/ n = pos + 1)
      BY Sizes
    <2>2. Top.tok \in 1 .. n
      BY <1>3, <2>1
    <2>3. input \in Seq(Words)
      BY Sizes
    <2>. QED  BY <2>1, <2>2, <2>3, ElementOfSeq
  <1>5. o[Top] = <<input[Top.tok]>>
    BY <1>1, <1>2, <1>4, OpenYields
  <1>6. FlatMap(o, Append(Below, Top)) = FlatMap(o, Below) \o o[Top] /\ FlatMap(o, Below) \in Seq(Words)
    BY <1>1, <1>2, Zenon DEF Splits
  <1>7. Opened = Append(FlatMap(o, Below), input[Top.tok])
    BY <1>1, <1>2, <1>4, <1>5, <1>6, AppendIsConcat DEF Opened
  <1>. QED  BY <1>3, <1>4, <1>6, <1>7, FrontAppend

-------------------------------------------------------------------------------
\* What is accepted remains so.

LEMMA LookedAt ==
    ASSUME TreeTyped, Accepted, status = "running", IsRead
    PROVE  /\ Judged[pos] = <<Before, Opened>> /\ Before \notin {"dead", "end"}
           /\ Len(input) = pos + 1 /\ Judged[pos + 1] = Accepting(<<Before, Opened>>, Token)
           /\ FitsFor(Top, Before)
  <1>1. PICK p \in Nat, n \in Nat : p = pos /\ n = Len(input) /\ (n = p \/ n = p + 1)
    BY Sizes
  <1>2. n = p + 1
    BY <1>1 DEF IsRead
  <1>3. p \in 0 .. n /\ n \in 1 .. n /\ n - 1 = p
    BY <1>2
  <1>4. input \in Seq(Words)
    BY Sizes
  <1>5. Judged[p] \in Verdicts /\ Judged[n] = Accepting(Judged[p], input[n])
    BY <1>1, <1>3, <1>4, JudgedFacts DEF JudgedIs
  <1>6. Judged[p][2] = Opened
    BY <1>1 DEF Accepted
  <1>7. Judged[p] = <<Before, Opened>>
    BY <1>1, <1>5, <1>6 DEF Before, Verdicts
  <1>8. FitsFor(Top, Before)
    BY DEF Accepted
  <1>9. Before \notin {"dead", "end"}
    BY <1>8 DEF FitsFor, Separated
  <1>. QED  BY <1>1, <1>2, <1>5, <1>7, <1>8, <1>9 DEF Token

\* It is enough that the latest call fits what there is before.
LEMMA AcceptedAgain ==
    ASSUME input' = input, status' = "running",
           NEW s \in Seq(FrameType), NEW g \in FrameType, stack' = Append(s, g),
           NEW b, NEW open, Judged[pos'] = <<b, open>>, Opened' = open, FitsFor(g, b)'
    PROVE  Accepted'
  <1>1. Judged' = Judged
    BY DEF Judged
  <1>2. Top' = g
    <2>1. stack'[Len(stack')] = g
      BY FrontAppend
    <2>. QED  BY <2>1 DEF Top
  <1>3. Before' = b
    BY <1>1 DEF Before
  <1>4. Judged'[pos'][2] = Opened'
    BY <1>1
  <1>. QED  BY <1>2, <1>3, <1>4 DEF Accepted, FitsFor, Separated

\* The latest call goes on with a token.
LEMMA TopAccepted ==
    ASSUME TreeTyped, input' = input, status' = "running", NEW t \in TokenType,
           stack' = TopGoesOn(t), NEW b, Judged[pos'] = <<b, Opened>>,
           \/ t.kind = "EOF" /\ b \notin {"dead", "end"}
           \/ t.kind # "EOF" /\ (b = "item" \/ Separated(b)')
    PROVE  Accepted'
  <1>1. Below \in Seq(FrameType) /\ Top \in FrameType
    BY StackFacts
  <1>2. PICK g \in FrameType : /\ g = GoOn(Top, t) /\ g.caller = Top.caller /\ g.tok = Top.tok
                               /\ g.lhs = t /\ g.at = "peek"
    BY <1>1, GoesOn
  <1>3. stack' = Append(Below, g)
    BY <1>2 DEF TopGoesOn, Below
  <1>4. Opened' = Opened
    BY <1>2, <1>3, OpenedTop
  <1>5. FitsFor(g, b)'
    BY <1>2 DEF FitsFor
  <1>6. PICK open : open = Opened
    OBVIOUS
  <1>. QED  BY <1>1, <1>3, <1>4, <1>5, <1>6, AcceptedAgain

LEMMA PassThroughAccepted ==
    ASSUME CallsInv, Accepted, PassThrough
    PROVE  Accepted'
  <1>1. /\ TreeTyped /\ At("null denotation") /\ Token = "EOF" /\ Consume
        /\ stack' = TopGoesOn(EofToken(pos + 1)) /\ UNCHANGED <<input, status>>
    BY DEF CallsInv, PassThrough
  <1>2. IsRead /\ status = "running" /\ pos' = pos
    BY <1>1, AtFacts DEF Consume
  <1>3. PICK t \in TokenType : t = EofToken(pos + 1)
    BY <1>1, Sizes, TokenTypes
  <1>4. t.kind = "EOF"
    BY <1>3 DEF EofToken
  <1>5. PICK b : b = Before
    OBVIOUS
  <1>6. Judged[pos'] = <<b, Opened>> /\ b \notin {"dead", "end"}
    BY <1>1, <1>2, <1>5, LookedAt
  <1>. QED  BY <1>1, <1>2, <1>3, <1>4, <1>6, TopAccepted

\* A number or a bracket may begin wherever the null denotation is asked for.
LEMMA ItemBegins ==
    ASSUME TreeTyped, Nested, Accepted, At("null denotation"), Token \in Openers \cup {"1"}
    PROVE  Before # "item" \/ Opened = <<>>
  <1>1. IsRead /\ Top.at = "null denotation" /\ status = "running"
    BY AtFacts
  <1>2. FitsFor(Top, Before)
    BY <1>1, LookedAt
  <1>3. CASE Before = "item"
    <2>1. Top.caller = "pass"
      BY <1>1, <1>2, <1>3 DEF FitsFor
    <2>2. Top \in FrameType /\ stack = <<Top>>
      BY <2>1, StackFacts, OnlyCall
    <2>. QED  BY <2>1, <2>2, OpenedAlone
  <1>. QED  BY <1>3

LEMMA ReferenceAccepted ==
    ASSUME CallsInv, Accepted, ReferenceHandler
    PROVE  Accepted'
  <1>1. /\ TreeTyped /\ Nested /\ At("null denotation") /\ Token = "1" /\ Consume
        /\ node_counter' = node_counter + 1 /\ UNCHANGED <<input, status>>
    BY DEF CallsInv, ReferenceHandler, At
  <1>2. PICK this \in Garbage, n \in Nat, v \in Seq(Nat) :
           /\ stack' = TopGoesOn(Node("I10", v, this, n, <<>>))
    <2>1. node_counter' \in Nat
      BY <1>1, Sizes
    <2>2. <<pos + 1>> \in Seq(Nat)
      <3>1. pos + 1 \in Nat
        BY <1>1, Sizes
      <3>. QED  BY <3>1, OneInSeq
    <2>. QED  BY <2>1, <2>2 DEF ReferenceHandler
  <1>3. PICK t \in TokenType : t = Node("I10", v, this, n, <<>>) /\ t.kind = "I10"
    <2>1. "I10" \in NodeKinds /\ <<>> \in Seq(Refs)
      BY EmptySeq DEF NodeKinds, Kinds
    <2>2. NodeIs(Node("I10", v, this, n, <<>>), "I10", v, n, <<>>)
      BY <2>1, NodeType
    <2>. QED  BY <2>2 DEF NodeIs
  <1>4. IsRead /\ status = "running" /\ pos' = pos + 1
    BY <1>1, AtFacts DEF Consume
  <1>5. Judged[pos'] = <<"item", Opened>>
    <2>1. Before # "item" \/ Opened = <<>>
      BY <1>1, ItemBegins
    <2>2. Before \notin {"dead", "end"} /\ Judged[pos + 1] = Accepting(<<Before, Opened>>, Token)
      BY <1>1, <1>4, LookedAt
    <2>3. Accepting(<<Before, Opened>>, "1") = <<"item", Opened>>
      <3>1. PICK b, open : b = Before /\ open = Opened
        OBVIOUS
      <3>2. b \notin {"dead", "end"} /\ (b # "item" \/ open = <<>>)
        BY <2>1, <2>2, <3>1
      <3>. QED  BY <3>1, <3>2 DEF Accepting, Openers
    <2>. QED  BY <1>1, <1>4, <2>2, <2>3
  <1>. QED  BY <1>1, <1>2, <1>3, <1>4, <1>5, TopAccepted

LEMMA OpenBracketAccepted ==
    ASSUME CallsInv, Accepted, OpenBracket
    PROVE  Accepted'
  <1>1. /\ TreeTyped /\ Nested /\ At("null denotation") /\ Token \in Openers /\ Consume
        /\ stack' = Append(stack, Frame("parenthetic_handler", pos + 1, "least"))
        /\ UNCHANGED <<input, status>>
    BY DEF CallsInv, OpenBracket, At
  <1>2. IsRead /\ status = "running" /\ pos' = pos + 1
    BY <1>1, AtFacts DEF Consume, Openers
  <1>3. PICK g \in FrameType : /\ g = Frame("parenthetic_handler", pos + 1, "least")
                               /\ g.caller = "parenthetic_handler" /\ g.tok = pos + 1
                               /\ g.at = "null denotation"
    <2>1. "parenthetic_handler" \in Callers /\ pos + 1 \in Nat /\ "least" \in {"least", "NJUX"}
      BY <1>1, Sizes DEF Callers
    <2>2. FrameIs(Frame("parenthetic_handler", pos + 1, "least"), "parenthetic_handler", pos + 1, "least")
      BY <2>1, NewFrame
    <2>. QED  BY <2>2 DEF FrameIs
  <1>4. PICK b, open, t : b = Before /\ open = Append(Opened, Token) /\ t = Token
    OBVIOUS
  <1>5. Judged[pos'] = <<"open", open>>
    <2>1. Before # "item" \/ Opened = <<>>
      BY <1>1, ItemBegins
    <2>2. Before \notin {"dead", "end"} /\ Judged[pos + 1] = Accepting(<<Before, Opened>>, Token)
      BY <1>1, <1>2, LookedAt
    <2>3. Accepting(<<Before, Opened>>, Token) = <<"open", Append(Opened, Token)>>
      <3>1. PICK o : o = Opened
        OBVIOUS
      <3>2. b \notin {"dead", "end"} /\ (b # "item" \/ o = <<>>) /\ t \in Openers
        BY <1>1, <1>4, <2>1, <2>2, <3>1
      <3>3. Accepting(<<b, o>>, t) = <<"open", Append(o, t)>>
        BY <3>2 DEF Accepting, Openers
      <3>. QED  BY <1>4, <3>1, <3>3
    <2>. QED  BY <1>2, <1>4, <2>2, <2>3
  <1>6. Opened' = open
    <2>1. pos + 1 \in 1 .. Len(input)
      BY <1>1, AtFacts
    <2>2. OpenOf[g] = <<input[pos + 1]>>
      BY <1>1, <1>3, <2>1, OpenYields
    <2>3. OpenOf[g] = <<t>>
      BY <1>4, <2>2 DEF Token
    <2>4. Opened' = Opened \o <<t>>
      BY <1>1, <1>3, <2>3, OpenedCall
    <2>5. Opened \in Seq(Words) /\ t \in Words
      <3>1. Splits(OpenOf, FrameType, Words) /\ stack \in Seq(FrameType)
        BY <1>1, Sizes, OpenYields
      <3>2. FlatMap(OpenOf, stack) \in Seq(Words)
        BY <3>1, Zenon DEF Splits
      <3>. QED  BY <1>1, <1>4, <3>2, AtFacts DEF Opened
    <2>. QED  BY <1>4, <2>4, <2>5, AppendIsConcat
  <1>7. FitsFor(g, "open")'
    BY <1>3 DEF FitsFor
  <1>8. stack \in Seq(FrameType)
    BY <1>1, Sizes
  <1>. QED  BY <1>1, <1>2, <1>3, <1>5, <1>6, <1>7, <1>8, AcceptedAgain

\* The pass ends where nothing that is accepted may go on.
LEMMA EndsDead ==
    ASSUME TreeTyped, Accepted, IsRead, status = "running", UNCHANGED input,
           status' \in {"syntax error", "exited"}, Accepting(<<Before, Opened>>, Token)[1] = "dead"
    PROVE  Accepted'
  <1>1. Len(input) = pos + 1 /\ Judged[pos + 1] = Accepting(<<Before, Opened>>, Token)
    BY LookedAt
  <1>2. Judged' = Judged
    BY DEF Judged
  <1>3. Verdict' = "dead"
    BY <1>1, <1>2 DEF Verdict
  <1>. QED  BY <1>3 DEF Accepted

LEMMA DefaultAccepted ==
    ASSUME CallsInv, Accepted, DefaultHandler
    PROVE  Accepted'
  <1>1. /\ TreeTyped /\ Nested /\ At("null denotation") /\ Token \notin Openers \cup {"1", "EOF"}
        /\ input' = input /\ status' = "exited"
    BY DEF CallsInv, DefaultHandler, At
  <1>2. IsRead /\ status = "running" /\ Top.at = "null denotation" /\ Top \in FrameType
    BY <1>1, AtFacts, StackFacts
  <1>3. PICK b, o, t : b = Before /\ o = Opened /\ t = Token
    OBVIOUS
  <1>4. b \notin {"dead", "end"} /\ FitsFor(Top, b)
    BY <1>1, <1>2, <1>3, LookedAt
  <1>5. CASE Top.caller = "pass"
    <2>1. o = <<>>
      BY <1>1, <1>2, <1>3, <1>5, OnlyCall, OpenedAlone
    <2>2. b = "start" \/ (b = "item" /\ t # ";") \/ (b = "separator" /\ EndsSequence(t))
      BY <1>2, <1>3, <1>4, <1>5 DEF FitsFor, Separated, ForRhs
    <2>3. Accepting(<<b, o>>, t)[1] = "dead"
      BY <1>1, <1>3, <2>1, <2>2 DEF Accepting, EndsSequence, Openers
    <2>. QED  BY <1>1, <1>2, <1>3, <2>3, EndsDead
  <1>6. CASE Top.caller # "pass"
    <2>1. b = "open" \/ (b = "separator" /\ t # ";" /\ ~ EndsSequence(t))
      <3>1. RhsAhead(Top)
        BY <1>1 DEF Nested
      <3>. QED  BY <1>2, <1>3, <1>4, <1>6, <3>1 DEF FitsFor, RhsAhead, ForRhs
    <2>2. Accepting(<<b, o>>, t)[1] = "dead"
      BY <1>1, <1>3, <2>1 DEF Accepting, EndsSequence, Openers
    <2>. QED  BY <1>1, <1>2, <1>3, <2>2, EndsDead
  <1>. QED  BY <1>5, <1>6

\* After an item or a separator, a call looks at what follows.
LEMMA PeekFits ==
    ASSUME TreeTyped, Nested, Accepted, At("peek")
    PROVE  /\ Top.lhs.kind = "EOF" => Token = "EOF" /\ ~ ForRhs(Top) /\ Before \notin {"dead", "end"}
           /\ Top.lhs.kind # "EOF" => Before = "item" \/ Separated(Before)
           /\ HoldOK(Top.lhs) <=> Top.lhs.kind # "EOF"
           /\ Top.min_power = "NJUX" <=> ForRhs(Top)
  <1>1. IsRead /\ Top.at = "peek" /\ status = "running"
    BY AtFacts
  <1>2. FitsFor(Top, Before) /\ FrameOK(Top) /\ Top \in FrameType /\ Top.lhs \in TokenType
    BY <1>1, LookedAt, TopOK, FrameFields
  <1>3. HoldOK(Top.lhs) => Top.lhs.kind # "EOF"
    BY DEF HoldOK, NodeKinds
  <1>4. EofToken(pos + 1).kind = "EOF"
    BY DEF EofToken
  <1>. QED  BY <1>1, <1>2, <1>3, <1>4 DEF FitsFor, FrameOK

LEMMA LeftDenotationAccepted ==
    ASSUME CallsInv, Accepted, LeftDenotation
    PROVE  Accepted'
  <1>1. /\ TreeTyped /\ Nested /\ At("peek") /\ Token = ";" /\ Consume /\ UNCHANGED <<input, status>>
    BY DEF CallsInv, LeftDenotation, At, BindsLeft
  <1>2. IsRead /\ status = "running" /\ pos' = pos + 1
    BY <1>1, AtFacts DEF Consume
  <1>3. PICK g : g = [Top EXCEPT !.left = pos + 1, !.at = "njux_handler"]
    OBVIOUS
  <1>4. g \in FrameType /\ g.caller = Top.caller /\ g.tok = Top.tok /\ g.at = "njux_handler"
    <2>1. Top \in FrameType /\ pos + 1 \in Nat
      BY <1>1, StackFacts, Sizes
    <2>. QED  BY <1>3, <2>1 DEF FrameType
  <1>5. stack' = Append(Below, g)
    BY <1>3 DEF LeftDenotation, Below
  <1>6. PICK open : open = Opened
    OBVIOUS
  <1>7. Opened' = open
    BY <1>1, <1>4, <1>5, <1>6, OpenedTop
  <1>8. Before = "item"
    BY <1>1, PeekFits DEF Separated, EndsSequence
  <1>9. Judged[pos'] = <<"separator", open>>
    <2>1. Judged[pos + 1] = Accepting(<<Before, Opened>>, Token)
      BY <1>1, <1>2, LookedAt
    <2>2. Accepting(<<"item", open>>, ";") = <<"separator", open>>
      BY DEF Accepting, Openers
    <2>. QED  BY <1>1, <1>2, <1>6, <1>8, <2>1, <2>2
  <1>10. FitsFor(g, "separator")'
    BY <1>4 DEF FitsFor
  <1>11. Below \in Seq(FrameType)
    BY <1>1, StackFacts
  <1>. QED  BY <1>1, <1>2, <1>4, <1>5, <1>7, <1>9, <1>10, <1>11, AcceptedAgain

LEMMA HandlerAccepted ==
    ASSUME CallsInv, Accepted, ConsumeExtra \/ EndSequence \/ CallForRhs
    PROVE  Accepted'
  <1>1. TreeTyped /\ Nested /\ At("njux_handler") /\ UNCHANGED <<input, status>>
    BY DEF CallsInv, ConsumeExtra, EndSequence, CallForRhs, At
  <1>2. /\ IsRead /\ status = "running" /\ Top.at = "njux_handler" /\ Top \in FrameType
        /\ Below \in Seq(FrameType) /\ stack = Append(Below, Top) /\ stack \in Seq(FrameType)
    BY <1>1, AtFacts, StackFacts, Sizes
  <1>3. PICK open : open = Opened
    OBVIOUS
  <1>4. /\ Before = "separator" /\ Judged[pos] = <<"separator", open>>
        /\ Judged[pos + 1] = Accepting(<<"separator", open>>, Token)
    <2>1. FitsFor(Top, Before) /\ Judged[pos] = <<Before, Opened>>
          /\ Judged[pos + 1] = Accepting(<<Before, Opened>>, Token)
      BY <1>1, <1>2, LookedAt
    <2>. QED  BY <1>2, <1>3, <2>1 DEF FitsFor
  <1>5. CASE ConsumeExtra
    <2>1. Token = ";" /\ pos' = pos + 1 /\ stack' = stack
      BY <1>5 DEF ConsumeExtra, Consume
    <2>2. Accepting(<<"separator", open>>, ";") = <<"separator", open>>
      BY DEF Accepting, Openers
    <2>3. PICK g \in FrameType : g = Top
      BY <1>2
    <2>4. FitsFor(g, "separator")'
      BY <1>2, <2>3 DEF FitsFor
    <2>5. Opened' = open
      BY <1>1, <1>3, <2>1 DEF Opened, OpenOf
    <2>. QED  BY <1>1, <1>2, <1>4, <2>1, <2>2, <2>3, <2>4, <2>5, AcceptedAgain
  <1>6. CASE EndSequence
    <2>1. stack' = TopGoesOn(Top.lhs) /\ EndsSequence(Token) /\ pos' = pos
      BY <1>6 DEF EndSequence
    <2>2. PICK t \in TokenType : t = Top.lhs
      BY <1>2, FrameFields
    <2>3. HoldOK(t)
      BY <1>1, <1>2, <2>2, TopOK DEF FrameOK
    <2>4. t.kind # "EOF"
      BY <2>3 DEF HoldOK, NodeKinds
    <2>5. Token' = Token /\ IsRead'
      BY <1>1, <1>2, <2>1, StaysFacts
    <2>6. Separated("separator")'
      BY <2>1, <2>5 DEF Separated, EndsSequence
    <2>. QED  BY <1>1, <1>2, <1>3, <1>4, <2>1, <2>2, <2>4, <2>6, TopAccepted
  <1>7. CASE CallForRhs
    <2>1. pos' = pos
      BY <1>7 DEF CallForRhs
    <2>2. PICK caller \in {"start_sequence", "extend_sequence"} :
             stack' = Append(stack, Frame(caller, Top.left, "NJUX"))
      BY <1>7 DEF CallForRhs
    <2>3. PICK g \in FrameType : /\ g = Frame(caller, Top.left, "NJUX") /\ g.caller = caller
                                 /\ g.at = "null denotation"
      <3>1. caller \in Callers /\ Top.left \in Nat /\ "NJUX" \in {"least", "NJUX"}
        BY <1>2, FrameFields DEF Callers
      <3>2. FrameIs(Frame(caller, Top.left, "NJUX"), caller, Top.left, "NJUX")
        BY <3>1, NewFrame
      <3>. QED  BY <3>2 DEF FrameIs
    <2>4. Opened' = open
      <3>1. OpenOf[g] = <<>>
        BY <1>1, <2>3, OpenYields
      <3>2. Opened' = Opened \o <<>>
        BY <1>1, <2>2, <2>3, <3>1, OpenedCall
      <3>3. Opened \in Seq(Words)
        <4>1. Splits(OpenOf, FrameType, Words)
          BY <1>1, OpenYields
        <4>2. FlatMap(OpenOf, stack) \in Seq(Words)
          BY <1>2, <4>1, Zenon DEF Splits
        <4>. QED  BY <4>2 DEF Opened
      <3>. QED  BY <1>3, <3>2, <3>3, ConcatEmptySeq
    <2>5. FitsFor(g, "separator")'
      BY <2>3 DEF FitsFor, ForRhs
    <2>. QED  BY <1>1, <1>2, <1>4, <2>1, <2>2, <2>3, <2>4, <2>5, AcceptedAgain
  <1>. QED  BY <1>5, <1>6, <1>7

LEMMA Widened ==
    ASSUME NEW p \in Nat, NEW n \in Nat, n = p \/ n = p + 1, NEW k \in 1 .. p
    PROVE  k \in 1 .. n
  OBVIOUS

LEMMA AppendToNone ==
    ASSUME NEW x
    PROVE  Append(<<>>, x) = <<x>>
  OBVIOUS

\* A call returns, and its caller goes on with a node.
LEMMA CallerAccepted ==
    ASSUME TreeTyped, input' = input, status' = "running", Len(stack) > 1,
           NEW t \in TokenType, t.kind \in NodeKinds, stack' = CallerGoesOn(t),
           NEW b, NEW open, Judged[pos'] = <<b, open>>, Opened' = open,
           b = "item" \/ Separated(b)'
    PROVE  Accepted'
  <1>1. Below2 \in Seq(FrameType) /\ Caller \in FrameType
    BY CallerFacts
  <1>2. PICK g \in FrameType : g = GoOn(Caller, t) /\ g.lhs = t /\ g.at = "peek"
    BY <1>1, GoesOn
  <1>3. stack' = Append(Below2, g)
    BY <1>2 DEF CallerGoesOn, Below2
  <1>4. FitsFor(g, b)'
    BY <1>2 DEF FitsFor, NodeKinds
  <1>. QED  BY <1>1, <1>2, <1>3, <1>4, AcceptedAgain

LEMMA SequenceAccepted ==
    ASSUME CallsInv, Accepted, StartSequence \/ ExtendSequence, status' # "not written"
    PROVE  Accepted'
  <1>1. PICK caller \in {"start_sequence", "extend_sequence"} : ReturnsTo(caller)
    BY DEF StartSequence, ExtendSequence
  <1>2. TreeTyped /\ Nested /\ At("peek") /\ UNCHANGED <<input, pos>>
    BY DEF CallsInv, StartSequence, ExtendSequence, ReturnsTo, At
  <1>3. PICK t \in TokenType, ts \in Seq(TokenType) : t.kind = "SEQ" /\ Put(ts, CallerGoesOn(t))
    <2>1. CASE StartSequence
      <3>1. PICK q \in TokenType, p \in TokenType, t \in TokenType, n \in Nat : Started(q, p, t, n)
        BY <1>2, <2>1, StartEffect
      <3>2. /\ t.kind = "SEQ" /\ n = node_counter + 1
            /\ Put(<<WithParent(q, Reference(n, n)), WithParent(p, Reference(n, n))>>, CallerGoesOn(t))
        BY <3>1 DEF Started
      <3>3. Reference(n, n) \in Refs /\ Reference(n, n) # NoReference
        BY <1>2, <3>2, Sizes, NewReference
      <3>4. Told(<<WithParent(q, Reference(n, n)), WithParent(p, Reference(n, n))>>)
        BY <3>3, ToldTokens
      <3>. QED  BY <3>2, <3>4 DEF Told
    <2>2. CASE ExtendSequence
      <3>1. PICK q \in TokenType, p \in TokenType, t \in TokenType : Extended(q, p, t)
        BY <1>2, <2>2, ExtendEffect
      <3>2. t.kind = "SEQ" /\ Put(<<WithParent(p, q.node)>>, CallerGoesOn(t))
        BY <3>1 DEF Extended
      <3>3. <<WithParent(p, q.node)>> \in Seq(TokenType)
        BY TokenFields, WithParentType, OneInSeq
      <3>. QED  BY <3>2, <3>3
    <2>. QED  BY <2>1, <2>2
  <1>4. stack' = CallerGoesOn(t) /\ status' = status
    BY <1>2, <1>3, PutFacts
  <1>5. /\ Len(stack) > 1 /\ IsRead /\ status = "running" /\ Top.caller = caller /\ Top \in FrameType
        /\ ForRhs(Top) => HoldOK(Top.lhs)
    BY <1>1, <1>2, ReturnFacts
  <1>6. Top.lhs.kind # "EOF" /\ Top.caller # "parenthetic_handler"
    BY <1>5 DEF ForRhs, HoldOK, NodeKinds
  <1>7. PICK b, open : b = Before /\ open = Opened
    OBVIOUS
  <1>8. Judged[pos'] = <<b, open>>
    BY <1>2, <1>5, <1>7, LookedAt
  <1>9. Opened' = open
    <2>1. Opened = Opened' \o OpenOf[Top] /\ Opened' \in Seq(Words)
      BY <1>2, <1>4, <1>5, OpenedReturn
    <2>2. OpenOf[Top] = <<>>
      BY <1>2, <1>5, <1>6, OpenYields
    <2>3. Opened' \o <<>> = Opened'
      BY <2>1, ConcatEmptySeq
    <2>. QED  BY <1>7, <2>1, <2>2, <2>3
  <1>10. b = "item" \/ Separated(b)'
    <2>1. b = "item" \/ Separated(b)
      BY <1>2, <1>6, <1>7, PeekFits
    <2>2. Token' = Token /\ IsRead' = IsRead
      BY <1>2, StaysFacts
    <2>. QED  BY <2>1, <2>2 DEF Separated
  <1>11. t.kind \in NodeKinds
    BY <1>3 DEF NodeKinds, Kinds
  <1>. QED  BY <1>2, <1>3, <1>4, <1>5, <1>8, <1>9, <1>10, <1>11, CallerAccepted

\* What closes a bracket makes an item of it.
LEMMA BracketAccepted ==
    ASSUME CallsInv, Accepted, CloseSequence \/ CloseSingle, status' # "not written"
    PROVE  /\ Accepted'
           /\ Opened = Append(Opened', input[Top.tok]) /\ Opened' \in Seq(Words)
           /\ Len(stack) > 1 /\ input[Top.tok] \in Openers \cap Words
  <1>1. /\ TreeTyped /\ Nested /\ At("peek") /\ ReturnsTo("parenthetic_handler") /\ input' = input
        /\ Token = Closing(input[Top.tok]) /\ Consume
    BY DEF CallsInv, CloseSequence, CloseSingle, ReturnsTo, At
  <1>2. PICK t \in TokenType : t.kind \in NodeKinds /\ stack' = CallerGoesOn(t) /\ status' = status
    <2>1. CASE CloseSequence
      <3>1. PICK p \in TokenType, t \in TokenType : Closed(p, t)
        BY <1>1, <2>1, ClosedEffect
      <3>. QED  BY <3>1 DEF Closed
    <2>2. CASE CloseSingle
      <3>1. PICK p \in TokenType, t \in TokenType, n \in Nat : Single(p, t, n)
        BY <1>1, <2>2, SingleEffect
      <3>2. /\ t.kind \in NodeKinds /\ n = node_counter + 1
            /\ Put(<<WithParent(p, Reference(n, n))>>, CallerGoesOn(t))
        BY <3>1 DEF Single
      <3>3. Reference(n, n) \in Refs /\ Reference(n, n) # NoReference
        BY <1>1, <3>2, Sizes, NewReference
      <3>4. <<WithParent(p, Reference(n, n))>> \in Seq(TokenType)
        BY <3>3, ToldTokens DEF Told
      <3>5. stack' = CallerGoesOn(t) /\ status' = status
        BY <1>1, <3>2, <3>4, PutFacts
      <3>. QED  BY <3>2, <3>5
    <2>. QED  BY <2>1, <2>2
  <1>3. /\ Len(stack) > 1 /\ IsRead /\ status = "running" /\ Top \in FrameType
        /\ Top.caller = "parenthetic_handler"
    BY <1>1, ReturnFacts
  <1>4. PICK open, w, b, o : open = Opened' /\ w = input[Top.tok] /\ b = Before /\ o = Opened
    OBVIOUS
  <1>5. o # <<>> /\ o[Len(o)] = w /\ w \in Openers
    BY <1>1, <1>3, <1>4, OpenedLast
  <1>6. Token \in {")", "end"} /\ Token = Closing(w)
    BY <1>1, <1>4, <1>5, BracketFacts
  <1>7. pos' = pos + 1
    BY <1>1, <1>6 DEF Consume
  <1>8. o = Append(open, w) /\ open \in Seq(Words) /\ Front(o) = open /\ w \in Words
    <2>1. Opened = Opened' \o OpenOf[Top] /\ open \in Seq(Words)
      BY <1>1, <1>2, <1>3, <1>4, OpenedReturn
    <2>2. Top.tok \in 1 .. Len(input) /\ w \in Words
      <3>1. PICK n \in Nat, p \in Nat : n = Len(input) /\ p = pos /\ (n = p \/ n = p + 1)
        BY <1>1, Sizes
      <3>2. Top.tok \in 1 .. p
        BY <1>1, <1>3, <3>1, TopOK DEF FrameOK
      <3>3. Top.tok \in 1 .. n
        BY <3>1, <3>2, Widened
      <3>4. input \in Seq(Words)
        BY <1>1, Sizes
      <3>. QED  BY <1>4, <3>1, <3>3, <3>4, ElementOfSeq
    <2>3. OpenOf[Top] = <<w>>
      BY <1>1, <1>3, <1>4, <2>2, OpenYields
    <2>4. o = open \o <<w>>
      BY <1>4, <2>1, <2>3
    <2>5. open \o <<w>> = Append(open, w)
      BY <2>1, <2>2, AppendIsConcat
    <2>6. Front(Append(open, w)) = open
      BY <2>1, <2>2, FrontAppend
    <2>. QED  BY <2>1, <2>2, <2>4, <2>5, <2>6
  <1>9. b = "item" \/ b = "separator"
    <2>1. Top.lhs.kind # "EOF"
      BY <1>1, <1>6, PeekFits
    <2>. QED  BY <1>1, <1>4, <2>1, PeekFits DEF Separated
  <1>10. Judged[pos'] = <<"item", open>>
    <2>1. Judged[pos + 1] = Accepting(<<Before, Opened>>, Token)
      BY <1>1, <1>3, LookedAt
    <2>2. PICK c : c = Token
      OBVIOUS
    <2>3. Accepting(<<b, o>>, c) = <<"item", Front(o)>>
      BY <1>5, <1>6, <1>9, <2>2 DEF Accepting, Openers
    <2>. QED  BY <1>4, <1>7, <1>8, <2>1, <2>2, <2>3
  <1>11. Accepted'
    BY <1>1, <1>2, <1>3, <1>4, <1>10, CallerAccepted
  <1>. QED  BY <1>3, <1>4, <1>5, <1>8, <1>11

LEMMA CloseErrorAccepted ==
    ASSUME CallsInv, Accepted, CloseError
    PROVE  Accepted'
  <1>1. /\ TreeTyped /\ Nested /\ At("peek") /\ ReturnsTo("parenthetic_handler") /\ input' = input
        /\ Token # Closing(input[Top.tok]) /\ ~ BindsLeft /\ status' = "syntax error"
    BY DEF CallsInv, CloseError, ReturnsTo, At
  <1>2. /\ Len(stack) > 1 /\ IsRead /\ status = "running" /\ Top \in FrameType
        /\ Top.caller = "parenthetic_handler"
    BY <1>1, ReturnFacts
  <1>3. PICK w, b, o, c : w = input[Top.tok] /\ b = Before /\ o = Opened /\ c = Token
    OBVIOUS
  <1>4. o # <<>> /\ o[Len(o)] = w
    BY <1>1, <1>2, <1>3, OpenedLast
  <1>5. c # ";" /\ c # Closing(w)
    <2>1. Top.min_power = "least"
      BY <1>1, <1>2, PeekFits, FrameFields DEF ForRhs
    <2>. QED  BY <1>1, <1>3, <2>1 DEF BindsLeft
  <1>6. b \notin {"dead", "end"}
    BY <1>1, <1>2, <1>3, LookedAt
  <1>7. b = "item" \/ EndsSequence(c)
    BY <1>1, <1>3, PeekFits DEF Separated, EndsSequence
  <1>8. Accepting(<<b, o>>, c)[1] = "dead"
    BY <1>4, <1>5, <1>6, <1>7 DEF Accepting, EndsSequence, Openers
  <1>. QED  BY <1>1, <1>2, <1>3, <1>8, EndsDead

LEMMA PutRootAccepted ==
    ASSUME CallsInv, Accepted, PutRoot, status' # "not written"
    PROVE  Accepted'
  <1>1. /\ TreeTyped /\ Nested /\ At("peek") /\ Top.caller = "pass" /\ UNCHANGED <<input, pos>>
        /\ Put(<<Top.lhs>>, <<Frame("pass", 0, "least")>>) /\ Top.lhs.kind # "EOF" /\ ~ BindsLeft
    BY DEF CallsInv, PutRoot, ReturnsTo, At
  <1>2. PICK g \in FrameType : /\ g = Frame("pass", 0, "least") /\ g.caller = "pass"
                               /\ g.at = "null denotation"
    <2>1. "pass" \in Callers /\ 0 \in Nat /\ "least" \in {"least", "NJUX"}
      BY DEF Callers
    <2>2. FrameIs(Frame("pass", 0, "least"), "pass", 0, "least")
      BY <2>1, NewFrame
    <2>. QED  BY <2>2 DEF FrameIs
  <1>3. IsRead /\ status = "running" /\ Top \in FrameType
    BY <1>1, AtFacts, StackFacts
  <1>4. stack' = <<g>> /\ status' = status
    <2>1. Top.lhs \in TokenType
      BY <1>3, FrameFields
    <2>2. <<Top.lhs>> \in Seq(TokenType)
      BY <2>1, OneInSeq
    <2>. QED  BY <1>1, <1>2, <2>2, PutFacts
  <1>5. Opened = <<>>
    <2>1. stack = <<Top>>
      BY <1>1, OnlyCall
    <2>. QED  BY <1>1, <1>3, <2>1, OpenedAlone
  <1>6. Opened' = <<>>
    <2>1. OpenOf[g] = <<>> /\ FlatMap(OpenOf, <<g>>) = OpenOf[g]
      <3>1. Yields(OpenOf, FrameType, Words) /\ OpenOf[g] = <<>>
        BY <1>1, <1>2, OpenYields
      <3>. QED  BY <3>1, FlatMapOne
    <2>2. OpenOf' = OpenOf
      BY <1>1 DEF OpenOf
    <2>. QED  BY <1>4, <2>1, <2>2 DEF Opened
  <1>7. PICK b : b = Before
    OBVIOUS
  <1>8. Judged[pos'] = <<b, <<>>>>
    BY <1>1, <1>3, <1>5, <1>7, LookedAt
  <1>9. FitsFor(g, b)'
    <2>1. b = "item" \/ Separated(b)
      BY <1>1, <1>7, PeekFits
    <2>2. Token # ";"
      <3>1. Top.min_power = "least"
        BY <1>1, <1>3, PeekFits, FrameFields DEF ForRhs
      <3>. QED  BY <1>1, <3>1 DEF BindsLeft
    <2>3. Token' = Token /\ IsRead' = IsRead
      BY <1>1, StaysFacts
    <2>. QED  BY <1>2, <1>3, <2>1, <2>2, <2>3 DEF FitsFor, Separated
  <1>10. PICK s \in Seq(FrameType) : s = <<>>
    BY EmptySeq
  <1>11. stack' = Append(s, g)
    <2>1. Append(<<>>, g) = <<g>>
      BY AppendToNone
    <2>. QED  BY <1>4, <1>10, <2>1
  <1>. QED  BY <1>1, <1>3, <1>4, <1>6, <1>8, <1>9, <1>11, AcceptedAgain

LEMMA PutEofAccepted ==
    ASSUME CallsInv, Accepted, PutEof, status' # "not written"
    PROVE  Accepted'
  <1>1. /\ TreeTyped /\ Nested /\ At("peek") /\ Top.caller = "pass" /\ Top.lhs.kind = "EOF"
        /\ UNCHANGED <<input, pos, stack>> /\ status' = "done"
    BY DEF CallsInv, PutEof, ReturnsTo, At
  <1>2. IsRead /\ status = "running" /\ Top \in FrameType
    BY <1>1, AtFacts, StackFacts
  <1>3. Opened = <<>>
    <2>1. stack = <<Top>>
      BY <1>1, OnlyCall
    <2>. QED  BY <1>1, <1>2, <2>1, OpenedAlone
  <1>4. PICK b, c : b = Before /\ c = Token
    OBVIOUS
  <1>5. c = "EOF" /\ b \notin {"dead", "end"}
    BY <1>1, <1>4, PeekFits
  <1>6. Accepting(<<b, <<>>>>, c)[1] = "end"
    BY <1>5 DEF Accepting, Openers
  <1>7. Judged' = Judged /\ Opened' = Opened /\ Top' = Top
    BY <1>1 DEF Judged, Opened, OpenOf, Top
  <1>8. Len(input) = pos + 1 /\ Judged[pos + 1] = Accepting(<<Before, Opened>>, Token)
        /\ Judged[pos] = <<Before, Opened>>
    BY <1>1, <1>2, LookedAt
  <1>9. Verdict' = "end"
    BY <1>1, <1>3, <1>4, <1>6, <1>7, <1>8 DEF Verdict
  <1>10. Judged'[pos'][2] = Opened'
    BY <1>1, <1>7, <1>8
  <1>11. Top'.caller = "pass" /\ Top'.lhs.kind = "EOF"
    BY <1>1, <1>7
  <1>. QED  BY <1>1, <1>9, <1>10, <1>11, Zenon DEF Accepted

LEMMA ReadTokenOpened ==
    ASSUME TreeTyped, Nested, ~ IsRead, ReadToken
    PROVE  Opened' = Opened
  <1>1. stack' = stack
    BY DEF ReadToken
  <1>2. PICK t \in Words : input' = Append(input, t)
    BY DEF ReadToken, Words
  <1>3. PICK p \in Nat : p = pos /\ Len(input) = p /\ input \in Seq(Words)
    BY Sizes DEF IsRead
  <1>4. /\ input' \in Seq(Words) /\ Len(input') = p + 1
        /\ \A k \in 1 .. p : input'[k] = input[k]
    BY <1>2, <1>3, AppendFacts
  <1>5. PICK a, b : a = OpenOf /\ b = OpenOf'
    OBVIOUS
  <1>6. ASSUME NEW f \in FrameType, FrameOK(f) PROVE a[f] = b[f]
    <2>1. CASE f.caller = "parenthetic_handler"
      <3>1. f.tok \in 1 .. p
        BY <1>3, <1>6, <2>1 DEF FrameOK
      <3>2. f.tok \in DOMAIN input /\ f.tok \in DOMAIN input'
        BY <1>3, <1>4, <3>1, LenProperties
      <3>3. input'[f.tok] = input[f.tok]
        BY <1>4, <3>1
      <3>. QED  BY <1>5, <1>6, <3>2, <3>3 DEF OpenOf
    <2>2. CASE f.caller # "parenthetic_handler"
      BY <1>5, <1>6, <2>2 DEF OpenOf
    <2>. QED  BY <2>1, <2>2
  <1>7. \A k \in 1 .. Len(stack) : stack[k] \in FrameType /\ FrameOK(stack[k])
    BY StackFacts DEF Nested
  <1>8. stack \in Seq(FrameType)
    BY Sizes
  <1>9. FlatMap(a, stack) = FlatMap(b, stack)
    BY <1>6, <1>7, <1>8, FlatMapSame
  <1>. QED  BY <1>1, <1>5, <1>9 DEF Opened

LEMMA ReadTokenAccepted ==
    ASSUME CallsInv, Accepted, ReadToken
    PROVE  Accepted'
  <1>1. TreeTyped /\ Nested /\ ~ IsRead /\ UNCHANGED <<pos, stack, status>> /\ status = "running"
    BY DEF CallsInv, ReadToken
  <1>2. PICK t \in Words : input' = Append(input, t)
    BY DEF ReadToken, Words
  <1>3. PICK p \in Nat : p = pos /\ Len(input) = p /\ input \in Seq(Words)
    BY <1>1, Sizes DEF IsRead
  <1>4. /\ input' \in Seq(Words) /\ Len(input') = p + 1
        /\ \A k \in 1 .. p : input'[k] = input[k]
    BY <1>2, <1>3, AppendFacts
  <1>5. \A k \in 0 .. p : Judged'[k] = Judged[k]
    <2>1. PICK i, j, s, u : i = Judged /\ j = Judged' /\ s = input /\ u = input'
      OBVIOUS
    <2>2. JudgedIs(i, s) /\ JudgedIs(j, u)
      <3>1. JudgedIs(i, s)
        BY <1>3, <2>1, JudgedFacts
      <3>2. j = JudgedOn(u)
        BY <2>1 DEF Judged, JudgedOn
      <3>3. JudgedIs(j, u)
        BY <1>4, <2>1, <3>2, JudgedOnFacts
      <3>. QED  BY <3>1, <3>3
    <2>3. p <= Len(s) /\ p <= Len(u) /\ Len(s) \in Nat /\ Len(u) \in Nat
          /\ \A k \in 1 .. p : s[k] = u[k]
      BY <1>3, <1>4, <2>1
    <2>4. \A k \in 0 .. p : i[k] = j[k]
      BY <2>2, <2>3, JudgedAgain
    <2>. QED  BY <2>1, <2>4
  <1>6. Judged'[pos'] = Judged[pos]
    BY <1>1, <1>3, <1>5
  <1>7. Opened' = Opened
    BY <1>1, ReadTokenOpened
  <1>8. FitsFor(Top, Before)
    BY <1>1 DEF Accepted
  <1>9. PICK b, f : b = Before /\ f = Top
    OBVIOUS
  <1>10. FitsFor(f, b)'
    BY <1>1, <1>8, <1>9 DEF FitsFor, Separated, ForRhs
  <1>11. Before' = b /\ Top' = f
    BY <1>1, <1>6, <1>9 DEF Before, Top
  <1>. QED  BY <1>1, <1>6, <1>7, <1>10, <1>11 DEF Accepted, FitsFor, Separated

LEMMA InitialOpened ==
    ASSUME Init
    PROVE  Opened = <<>>
  <1>1. TreeTyped
    BY CallsInit DEF CallsInv
  <1>2. PICK g \in FrameType : g = Frame("pass", 0, "least") /\ g.caller = "pass"
    <2>1. "pass" \in Callers /\ 0 \in Nat /\ "least" \in {"least", "NJUX"}
      BY DEF Callers
    <2>2. FrameIs(Frame("pass", 0, "least"), "pass", 0, "least")
      BY <2>1, NewFrame
    <2>. QED  BY <2>2 DEF FrameIs
  <1>3. stack = <<g>>
    BY <1>2 DEF Init
  <1>. QED  BY <1>1, <1>2, <1>3, OpenedAlone

LEMMA AcceptedInit == Init => Accepted
  <1>. SUFFICES ASSUME Init PROVE Accepted
    OBVIOUS
  <1>1. Opened = <<>>
    BY InitialOpened
  <1>2. Judged[pos] = <<"start", <<>>>>
    <2>1. pos = 0 /\ input \in Seq(Words)
      BY EmptySeq DEF Init
    <2>. QED  BY <2>1, JudgedFacts DEF JudgedIs
  <1>3. Before = "start"
    BY <1>2 DEF Before
  <1>4. Top.at = "null denotation" /\ Top.caller = "pass"
    <2>1. PICK g : g = Frame("pass", 0, "least")
      OBVIOUS
    <2>2. stack = <<g>> /\ Len(<<g>>) = 1 /\ <<g>>[1] = g
      BY <2>1 DEF Init
    <2>3. Top = g
      BY <2>2 DEF Top
    <2>. QED  BY <2>1, <2>3 DEF Frame
  <1>5. FitsFor(Top, Before)
    BY <1>3, <1>4 DEF FitsFor
  <1>6. status = "running"
    BY DEF Init
  <1>. QED  BY <1>1, <1>2, <1>5, <1>6 DEF Accepted

LEMMA AcceptedStep == CallsInv /\ Accepted /\ [Next]_vars => Accepted'
  <1>. SUFFICES ASSUME CallsInv, Accepted, [Next]_vars PROVE Accepted'
    OBVIOUS
  <1>1. CASE status' = "not written"
    BY <1>1 DEF Accepted
  <1>2. CASE UNCHANGED vars
    <2>1. UNCHANGED <<input, pos, stack, status>>
      BY <1>2 DEF vars
    <2>2. Opened' = Opened /\ Judged' = Judged /\ Top' = Top
      BY <2>1 DEF Opened, OpenOf, Judged, Top
    <2>3. Before' = Before /\ Verdict' = Verdict /\ IsRead' = IsRead /\ Token' = Token
      BY <2>1, <2>2 DEF Before, Verdict, IsRead, Token
    <2>. QED  BY <2>1, <2>2, <2>3 DEF Accepted, FitsFor, Separated, ForRhs
  <1>3. CASE ReadToken \/ PassThrough \/ ReferenceHandler \/ OpenBracket \/ DefaultHandler
    BY <1>3, ReadTokenAccepted, PassThroughAccepted, ReferenceAccepted, OpenBracketAccepted,
       DefaultAccepted
  <1>4. CASE LeftDenotation \/ ConsumeExtra \/ EndSequence \/ CallForRhs
    BY <1>4, LeftDenotationAccepted, HandlerAccepted
  <1>5. CASE StartSequence \/ ExtendSequence
    BY <1>1, <1>5, SequenceAccepted
  <1>6. CASE CloseSequence \/ CloseSingle \/ CloseError
    BY <1>1, <1>6, BracketAccepted, CloseErrorAccepted
  <1>7. CASE PutRoot \/ PutEof
    BY <1>1, <1>7, PutRootAccepted, PutEofAccepted
  <1>. QED  BY <1>2, <1>3, <1>4, <1>5, <1>6, <1>7 DEF Next

-------------------------------------------------------------------------------
\* A node for each bracket.

Count(f, s) == Len(FlatMap(f, s))

KindPut(kind) == [t \in TokenType |-> IF t.kind = kind THEN <<t>> ELSE <<>>]

KindHeld(kind) == [f \in FrameType |-> IF f.lhs.kind = kind THEN <<kind>> ELSE <<>>]

Bracket(kind) == [w \in Words |-> IF w \in Openers /\ SequenceKind(w) = kind THEN <<w>> ELSE <<>>]

Consumed == [k \in 1 .. pos |-> input[k]]

\* One if a token is of the kind, or a word opens a bracket of it.
Num(kind, k) == IF k = kind THEN 1 ELSE 0

NumOpen(kind, w) == IF w \in Openers /\ SequenceKind(w) = kind THEN 1 ELSE 0

\* The nodes, put or held, and the brackets that are open are as many as were opened.
Balanced(kind) ==
    Count(KindPut(kind), output) + Count(KindHeld(kind), stack) + Count(Bracket(kind), Opened)
      = Count(Bracket(kind), Consumed)

Counts(f, T) ==
    /\ \A s \in Seq(T) : Count(f, s) \in Nat
    /\ \A s \in Seq(T), t \in T : Count(f, Append(s, t)) = Count(f, s) + Len(f[t])
    /\ Count(f, <<>>) = 0

LEMMA CountFacts ==
    ASSUME NEW T, NEW X, NEW f, Yields(f, T, X)
    PROVE  Counts(f, T)
  <1>1. Splits(f, T, X)
    BY FlatMapSplits
  <1>2. \A s \in Seq(T) : FlatMap(f, s) \in Seq(X)
    BY <1>1, Zenon DEF Splits
  <1>3. \A s \in Seq(T) : Count(f, s) \in Nat
    BY <1>2, LenProperties DEF Count
  <1>4. ASSUME NEW s \in Seq(T), NEW t \in T
        PROVE  Count(f, Append(s, t)) = Count(f, s) + Len(f[t])
    <2>1. FlatMap(f, Append(s, t)) = FlatMap(f, s) \o f[t]
      BY <1>1, Zenon DEF Splits
    <2>2. FlatMap(f, s) \in Seq(X) /\ f[t] \in Seq(X)
      BY <1>2 DEF Yields
    <2>3. Len(FlatMap(f, s) \o f[t]) = Len(FlatMap(f, s)) + Len(f[t])
      BY <2>2, ConcatProperties
    <2>. QED  BY <2>1, <2>3 DEF Count
  <1>5. Count(f, <<>>) = 0
    BY FlatMapEmpty, EmptySeq DEF Count
  <1>. QED  BY <1>3, <1>4, <1>5 DEF Counts

LEMMA KindCounts ==
    ASSUME NEW kind
    PROVE  /\ Counts(KindPut(kind), TokenType) /\ Counts(KindHeld(kind), FrameType)
           /\ Counts(Bracket(kind), Words)
           /\ \A t \in TokenType : Len(KindPut(kind)[t]) = Num(kind, t.kind)
           /\ \A f \in FrameType : Len(KindHeld(kind)[f]) = Num(kind, f.lhs.kind)
           /\ \A w \in Words : Len(Bracket(kind)[w]) = NumOpen(kind, w)
  <1>1. /\ Yields(KindPut(kind), TokenType, TokenType) /\ Yields(KindHeld(kind), FrameType, {kind})
        /\ Yields(Bracket(kind), Words, Words)
    <2>1. <<kind>> \in Seq({kind}) /\ <<>> \in Seq({kind}) /\ <<>> \in Seq(Words)
          /\ \A w \in Words : <<w>> \in Seq(Words)
          /\ <<>> \in Seq(TokenType) /\ \A t \in TokenType : <<t>> \in Seq(TokenType)
      BY EmptySeq, OneInSeq
    <2>2. Yields(KindPut(kind), TokenType, TokenType)
      BY <2>1 DEF Yields, KindPut
    <2>3. Yields(KindHeld(kind), FrameType, {kind})
      BY <2>1 DEF Yields, KindHeld
    <2>4. Yields(Bracket(kind), Words, Words)
      BY <2>1 DEF Yields, Bracket
    <2>. QED  BY <2>2, <2>3, <2>4
  <1>2. Len(<<kind>>) = 1 /\ Len(<<>>) = 0 /\ \A w : Len(<<w>>) = 1
    OBVIOUS
  <1>. QED  BY <1>1, <1>2, CountFacts DEF KindPut, KindHeld, Bracket, Num, NumOpen

\* What is held, as the parts of the stack hold it.
LEMMA HeldCounts ==
    ASSUME TreeTyped, NEW kind
    PROVE  /\ Count(KindHeld(kind), Below) \in Nat
           /\ Count(KindHeld(kind), stack) = Count(KindHeld(kind), Below) + Num(kind, Top.lhs.kind)
           /\ Len(stack) > 1 =>
                /\ Count(KindHeld(kind), Below2) \in Nat
                /\ Count(KindHeld(kind), Below)
                     = Count(KindHeld(kind), Below2) + Num(kind, Caller.lhs.kind)
           /\ Count(KindPut(kind), output) \in Nat
           /\ Count(Bracket(kind), Opened) \in Nat
           /\ \A k : Num(kind, k) \in Nat /\ NumOpen(kind, k) \in Nat
  <1>1. /\ Counts(KindHeld(kind), FrameType) /\ Counts(KindPut(kind), TokenType)
        /\ Counts(Bracket(kind), Words)
        /\ \A f \in FrameType : Len(KindHeld(kind)[f]) = Num(kind, f.lhs.kind)
    BY KindCounts
  <1>2. Below \in Seq(FrameType) /\ Top \in FrameType /\ stack = Append(Below, Top)
    BY StackFacts
  <1>3. Count(KindHeld(kind), Append(Below, Top)) = Count(KindHeld(kind), Below) + Len(KindHeld(kind)[Top])
    BY <1>1, <1>2, Zenon DEF Counts
  <1>4. ASSUME Len(stack) > 1
        PROVE  /\ Count(KindHeld(kind), Below2) \in Nat
               /\ Count(KindHeld(kind), Below)
                    = Count(KindHeld(kind), Below2) + Num(kind, Caller.lhs.kind)
    <2>1. Below2 \in Seq(FrameType) /\ Caller \in FrameType /\ Below = Append(Below2, Caller)
      BY <1>4, CallerFacts
    <2>2. Count(KindHeld(kind), Append(Below2, Caller))
            = Count(KindHeld(kind), Below2) + Len(KindHeld(kind)[Caller])
      BY <1>1, <2>1, Zenon DEF Counts
    <2>3. Count(KindHeld(kind), Below2) \in Nat
      BY <1>1, <2>1, Zenon DEF Counts
    <2>. QED  BY <1>1, <2>1, <2>2, <2>3
  <1>5. Opened \in Seq(Words) /\ output \in Seq(TokenType)
    <2>1. Splits(OpenOf, FrameType, Words) /\ stack \in Seq(FrameType)
      BY Sizes, OpenYields
    <2>2. FlatMap(OpenOf, stack) \in Seq(Words)
      BY <2>1, Zenon DEF Splits
    <2>. QED  BY <2>2, Sizes DEF Opened
  <1>6. /\ Count(KindHeld(kind), Below) \in Nat /\ Count(KindPut(kind), output) \in Nat
        /\ Count(Bracket(kind), Opened) \in Nat
    BY <1>1, <1>2, <1>5, Zenon DEF Counts
  <1>. QED  BY <1>1, <1>2, <1>3, <1>4, <1>6 DEF Num, NumOpen

\* What is consumed.
LEMMA ConsumedFacts ==
    ASSUME TreeTyped
    PROVE  /\ Consumed \in Seq(Words) /\ Len(Consumed) = pos
           /\ \A k \in 1 .. pos : Consumed[k] = input[k]
  <1>1. PICK p \in Nat, n \in Nat : p = pos /\ n = Len(input) /\ (n = p \/ n = p + 1)
    BY Sizes
  <1>2. input \in Seq(Words)
    BY Sizes
  <1>3. ASSUME NEW k \in 1 .. p PROVE input[k] \in Words
    <2>1. k \in 1 .. n
      BY <1>1, Widened
    <2>. QED  BY <1>1, <1>2, <2>1, ElementOfSeq
  <1>4. Consumed = [k \in 1 .. p |-> input[k]]
    BY <1>1 DEF Consumed
  <1>. QED  BY <1>1, <1>3, <1>4, IsASeq

LEMMA ConsumedMore ==
    ASSUME TreeTyped, IsRead, input' = input, pos' = pos + 1
    PROVE  Consumed' = Append(Consumed, Token) /\ Token \in Words
  <1>1. PICK p \in Nat, i \in Nat : p = pos /\ i = p + 1 /\ Len(input) = i /\ pos' = i
    BY Sizes DEF IsRead
  <1>2. Token \in Words /\ Token = input[i]
    <2>1. input \in Seq(Words) /\ i \in 1 .. Len(input)
      BY <1>1, Sizes
    <2>. QED  BY <1>1, <2>1, ElementOfSeq DEF Token
  <1>3. PICK c \in Seq(Words), w \in Words :
           c = Consumed /\ w = Token /\ Len(c) = p /\ \A k \in 1 .. p : c[k] = input[k]
    BY <1>1, <1>2, ConsumedFacts
  <1>4. PICK d : d = Consumed' /\ d = [k \in 1 .. i |-> input[k]]
    BY <1>1 DEF Consumed
  <1>5. d \in Seq(Words) /\ Len(d) = i /\ \A k \in 1 .. i : d[k] = input[k]
    <2>1. \A k \in 1 .. i : input[k] \in Words
      BY <1>1, Sizes, ElementOfSeq
    <2>. QED  BY <1>4, <2>1, IsASeq
  <1>6. PICK e : e = Append(c, w)
    OBVIOUS
  <1>7. /\ e \in Seq(Words) /\ Len(e) = i /\ e[i] = input[i] /\ \A k \in 1 .. p : e[k] = input[k]
    <2>1. /\ Append(c, w) \in Seq(Words) /\ Len(Append(c, w)) = Len(c) + 1
          /\ Append(c, w)[Len(c) + 1] = w
          /\ \A k \in 1 .. Len(c) : Append(c, w)[k] = c[k]
      BY AppendFacts
    <2>. QED  BY <1>1, <1>2, <1>3, <1>6, <2>1
  <1>8. \A k \in 1 .. i : k \in 1 .. p \/ k = i
    BY <1>1
  <1>9. d = e
    <2>1. \A k \in 1 .. i : d[k] = e[k]
      BY <1>5, <1>7, <1>8
    <2>. QED  BY <1>5, <1>7, <2>1, SeqEqual
  <1>. QED  BY <1>2, <1>3, <1>4, <1>6, <1>9

LEMMA ConsumedCounts ==
    ASSUME TreeTyped, IsRead, input' = input, Consume, NEW kind
    PROVE  /\ Count(Bracket(kind), Consumed) \in Nat
           /\ Count(Bracket(kind), Consumed)'
                = Count(Bracket(kind), Consumed) + NumOpen(kind, Token)
  <1>1. PICK a \in Nat : a = Count(Bracket(kind), Consumed)
    BY KindCounts, ConsumedFacts, Zenon DEF Counts
  <1>2. CASE Token = "EOF"
    <2>1. NumOpen(kind, Token) = 0
      BY <1>2 DEF NumOpen, Openers
    <2>2. Consumed' = Consumed
      BY <1>2 DEF Consume, Consumed
    <2>3. Count(Bracket(kind), Consumed)' = a
      BY <1>1, <2>2
    <2>. QED  BY <1>1, <2>1, <2>3
  <1>3. CASE Token # "EOF"
    <2>1. pos' = pos + 1
      BY <1>3 DEF Consume
    <2>2. PICK c \in Seq(Words), w \in Words : c = Consumed /\ w = Token /\ Consumed' = Append(c, w)
      BY <2>1, ConsumedMore, ConsumedFacts
    <2>3. Count(Bracket(kind), Append(c, w)) = Count(Bracket(kind), c) + Len(Bracket(kind)[w])
      BY KindCounts, Zenon DEF Counts
    <2>4. Len(Bracket(kind)[w]) = NumOpen(kind, w)
      BY KindCounts
    <2>. QED  BY <1>1, <2>2, <2>3, <2>4
  <1>. QED  BY <1>2, <1>3

\* What a step does to the counts: nothing, put together.
BracketKinds == {"BEGIN", "WHILE", "IF"}

LEMMA NoNum ==
    ASSUME NEW kind \in BracketKinds
    PROVE  /\ Num(kind, "none") = 0 /\ Num(kind, "EOF") = 0 /\ Num(kind, "I10") = 0
           /\ Num(kind, "SEQ") = 0
           /\ \A w : w \notin Openers => NumOpen(kind, w) = 0
           /\ \A w \in Openers : NumOpen(kind, w) = Num(kind, SequenceKind(w))
           /\ NoToken.kind = "none"
  BY DEF Num, NumOpen, BracketKinds, NoToken

\* The latest call goes on with a token of a kind that counts as much.
LEMMA TopBalanced ==
    ASSUME TreeTyped, NEW kind, Balanced(kind), output' = output,
           NEW g \in FrameType, stack' = Append(Below, g), Num(kind, g.lhs.kind) = Num(kind, Top.lhs.kind),
           Opened' = Opened,
           Count(Bracket(kind), Consumed)' = Count(Bracket(kind), Consumed)
    PROVE  Balanced(kind)'
  <1>1. Count(KindHeld(kind), Append(Below, g)) = Count(KindHeld(kind), Below) + Num(kind, g.lhs.kind)
    <2>1. Counts(KindHeld(kind), FrameType) /\ Len(KindHeld(kind)[g]) = Num(kind, g.lhs.kind)
          /\ Below \in Seq(FrameType)
      BY KindCounts, StackFacts
    <2>2. Count(KindHeld(kind), Append(Below, g)) = Count(KindHeld(kind), Below) + Len(KindHeld(kind)[g])
      BY <2>1, Zenon DEF Counts
    <2>. QED  BY <2>1, <2>2
  <1>2. Count(KindHeld(kind), stack') = Count(KindHeld(kind), stack)
    BY <1>1, HeldCounts
  <1>. QED  BY <1>2 DEF Balanced

\* A call is made.
LEMMA CallBalanced ==
    ASSUME TreeTyped, NEW kind \in BracketKinds, Balanced(kind), output' = output,
           NEW g \in FrameType, stack' = Append(stack, g), g.lhs = NoToken,
           NEW n \in Nat, Count(Bracket(kind), Opened)' = Count(Bracket(kind), Opened) + n,
           Count(Bracket(kind), Consumed)' = Count(Bracket(kind), Consumed) + n
    PROVE  Balanced(kind)'
  <1>1. Count(KindHeld(kind), Append(stack, g)) = Count(KindHeld(kind), stack) + 0
    <2>1. Counts(KindHeld(kind), FrameType) /\ Len(KindHeld(kind)[g]) = Num(kind, g.lhs.kind)
          /\ stack \in Seq(FrameType)
      BY KindCounts, Sizes
    <2>2. Count(KindHeld(kind), Append(stack, g)) = Count(KindHeld(kind), stack) + Len(KindHeld(kind)[g])
      BY <2>1, Zenon DEF Counts
    <2>. QED  BY <2>1, <2>2, NoNum
  <1>2. PICK a \in Nat, b \in Nat, c \in Nat, d \in Nat :
           /\ a = Count(KindPut(kind), output) /\ b = Count(KindHeld(kind), stack)
           /\ c = Count(Bracket(kind), Opened) /\ d = Count(Bracket(kind), Consumed)
    <2>1. Count(KindHeld(kind), stack) \in Nat
      BY KindCounts, Sizes, Zenon DEF Counts
    <2>2. Count(Bracket(kind), Consumed) \in Nat
      BY KindCounts, ConsumedFacts, Zenon DEF Counts
    <2>. QED  BY <2>1, <2>2, HeldCounts
  <1>3. a + b + c = d
    BY <1>2 DEF Balanced
  <1>4. a + (b + 0) + (c + n) = d + n
    BY <1>3
  <1>. QED  BY <1>1, <1>2, <1>4 DEF Balanced

\* A sum is the same if what is taken from some of its parts goes to others.
LEMMA SameSum ==
    \A a, b, c, m, n, x, y, z \in Nat :
        m + x = y + z + n => (a + m) + (b + x) + c = a + (b + y + z) + (c + n)
  OBVIOUS

\* A call returns: what is put and what its caller goes on with count as much
\* as what both held and the bracket that is closed.
LEMMA ReturnBalanced ==
    ASSUME TreeTyped, NEW kind, Balanced(kind), Len(stack) > 1,
           NEW m \in Nat, Count(KindPut(kind), output)' = Count(KindPut(kind), output) + m,
           NEW t \in TokenType, stack' = CallerGoesOn(t),
           NEW n \in Nat, Count(Bracket(kind), Opened) = Count(Bracket(kind), Opened)' + n,
           Count(Bracket(kind), Opened)' \in Nat,
           Count(Bracket(kind), Consumed)' = Count(Bracket(kind), Consumed),
           m + Num(kind, t.kind) = Num(kind, Caller.lhs.kind) + Num(kind, Top.lhs.kind) + n
    PROVE  Balanced(kind)'
  <1>1. Below2 \in Seq(FrameType) /\ Caller \in FrameType
    BY CallerFacts
  <1>2. PICK g \in FrameType : g = GoOn(Caller, t) /\ g.lhs = t
    BY <1>1, GoesOn
  <1>3. Count(KindHeld(kind), Append(Below2, g)) = Count(KindHeld(kind), Below2) + Num(kind, t.kind)
    <2>1. Counts(KindHeld(kind), FrameType) /\ Len(KindHeld(kind)[g]) = Num(kind, g.lhs.kind)
      BY KindCounts
    <2>2. Count(KindHeld(kind), Append(Below2, g)) = Count(KindHeld(kind), Below2) + Len(KindHeld(kind)[g])
      BY <1>1, <2>1, Zenon DEF Counts
    <2>. QED  BY <1>2, <2>1, <2>2
  <1>4. PICK a \in Nat, b \in Nat, c \in Nat, x \in Nat, y \in Nat, z \in Nat :
           /\ a = Count(KindPut(kind), output) /\ b = Count(KindHeld(kind), Below2)
           /\ c = Count(Bracket(kind), Opened)'
           /\ x = Num(kind, t.kind) /\ y = Num(kind, Caller.lhs.kind) /\ z = Num(kind, Top.lhs.kind)
    BY HeldCounts
  <1>5. Count(KindHeld(kind), stack) = b + y + z
    <2>1. Count(KindHeld(kind), stack) = Count(KindHeld(kind), Below) + Num(kind, Top.lhs.kind)
      BY HeldCounts
    <2>2. Count(KindHeld(kind), Below) = Count(KindHeld(kind), Below2) + Num(kind, Caller.lhs.kind)
      BY HeldCounts
    <2>. QED  BY <1>4, <2>1, <2>2
  <1>6. a + (b + y + z) + (c + n) = Count(Bracket(kind), Consumed)
    BY <1>4, <1>5 DEF Balanced
  <1>7. m + x = y + z + n
    BY <1>4
  <1>8. (a + m) + (b + x) + c = a + (b + y + z) + (c + n)
    BY <1>7, SameSum
  <1>9. stack' = Append(Below2, g)
    BY <1>2 DEF CallerGoesOn, Below2
  <1>10. Count(KindHeld(kind), stack)' = b + x
    BY <1>3, <1>4, <1>9
  <1>11. Count(KindPut(kind), output)' = a + m
    BY <1>4
  <1>. QED  BY <1>4, <1>6, <1>8, <1>10, <1>11 DEF Balanced

LEMMA ReadTokenBalanced ==
    ASSUME CallsInv, ReadToken, NEW kind, Balanced(kind)
    PROVE  Balanced(kind)'
  <1>1. TreeTyped /\ Nested /\ ~ IsRead /\ UNCHANGED <<pos, stack, output>>
    BY DEF CallsInv, ReadToken
  <1>2. Opened' = Opened
    BY <1>1, ReadTokenOpened
  <1>3. Consumed' = Consumed
    <2>1. PICK t \in Words : input' = Append(input, t)
      BY DEF ReadToken, Words
    <2>2. input \in Seq(Words) /\ Len(input) = pos
      BY <1>1, Sizes DEF IsRead
    <2>3. \A k \in 1 .. pos : input'[k] = input[k]
      BY <2>1, <2>2, AppendFacts
    <2>. QED  BY <1>1, <2>3 DEF Consumed
  <1>. QED  BY <1>1, <1>2, <1>3 DEF Balanced

\* A token that opens no bracket is consumed.
LEMMA ConsumedSame ==
    ASSUME TreeTyped, IsRead, input' = input, Consume, Token \notin Openers, NEW kind \in BracketKinds
    PROVE  Count(Bracket(kind), Consumed)' = Count(Bracket(kind), Consumed)
  <1>1. PICK c \in Nat : c = Count(Bracket(kind), Consumed)
    BY ConsumedCounts
  <1>2. NumOpen(kind, Token) = 0
    BY NoNum
  <1>3. Count(Bracket(kind), Consumed)' = c + 0
    BY <1>1, <1>2, ConsumedCounts
  <1>. QED  BY <1>1, <1>3

LEMMA NullBalanced ==
    ASSUME CallsInv, PassThrough \/ ReferenceHandler, NEW kind \in BracketKinds, Balanced(kind)
    PROVE  Balanced(kind)'
  <1>1. /\ TreeTyped /\ Nested /\ At("null denotation") /\ Token \notin Openers /\ Consume
        /\ UNCHANGED <<input, output>>
    BY DEF CallsInv, PassThrough, ReferenceHandler, At, Openers
  <1>2. PICK t \in TokenType : t.kind \in {"EOF", "I10"} /\ stack' = TopGoesOn(t)
    <2>1. CASE PassThrough
      <3>1. EofToken(pos + 1) \in TokenType /\ EofToken(pos + 1).kind = "EOF"
        BY <1>1, Sizes, TokenTypes DEF EofToken
      <3>. QED  BY <2>1, <3>1 DEF PassThrough
    <2>2. CASE ReferenceHandler
      <3>1. PICK this \in Garbage, n \in Nat, v \in Seq(Nat) :
               stack' = TopGoesOn(Node("I10", v, this, n, <<>>))
        <4>1. pos + 1 \in Nat /\ node_counter + 1 \in Nat
          BY <1>1, Sizes
        <4>2. <<pos + 1>> \in Seq(Nat)
          BY <4>1, OneInSeq
        <4>. QED  BY <2>2, <4>1, <4>2 DEF ReferenceHandler
      <3>2. "I10" \in NodeKinds /\ <<>> \in Seq(Refs)
        BY EmptySeq DEF NodeKinds, Kinds
      <3>3. NodeIs(Node("I10", v, this, n, <<>>), "I10", v, n, <<>>)
        BY <3>2, NodeType
      <3>. QED  BY <3>1, <3>3 DEF NodeIs
    <2>. QED  BY <2>1, <2>2
  <1>3. PICK g \in FrameType : /\ g = GoOn(Top, t) /\ g.caller = Top.caller /\ g.tok = Top.tok
                               /\ g.lhs = t
    BY <1>1, <1>2, StackFacts, GoesOn
  <1>4. stack' = Append(Below, g)
    BY <1>2, <1>3 DEF TopGoesOn, Below
  <1>5. Opened' = Opened
    BY <1>1, <1>3, <1>4, OpenedTop
  <1>6. Count(Bracket(kind), Consumed)' = Count(Bracket(kind), Consumed)
    BY <1>1, AtFacts, ConsumedSame
  <1>7. Num(kind, g.lhs.kind) = Num(kind, Top.lhs.kind)
    <2>1. Top.lhs = NoToken
      BY <1>1, AtFacts, TopOK DEF FrameOK
    <2>. QED  BY <1>2, <1>3, <2>1, NoNum
  <1>. QED  BY <1>1, <1>4, <1>5, <1>6, <1>7, TopBalanced

LEMMA OpenBracketBalanced ==
    ASSUME CallsInv, OpenBracket, NEW kind \in BracketKinds, Balanced(kind)
    PROVE  Balanced(kind)'
  <1>1. /\ TreeTyped /\ At("null denotation") /\ Token \in Openers /\ Consume
        /\ stack' = Append(stack, Frame("parenthetic_handler", pos + 1, "least"))
        /\ UNCHANGED <<input, output>>
    BY DEF CallsInv, OpenBracket
  <1>2. PICK g \in FrameType : /\ g = Frame("parenthetic_handler", pos + 1, "least")
                               /\ g.caller = "parenthetic_handler" /\ g.tok = pos + 1
                               /\ g.lhs = NoToken
    <2>1. "parenthetic_handler" \in Callers /\ pos + 1 \in Nat /\ "least" \in {"least", "NJUX"}
      BY <1>1, Sizes DEF Callers
    <2>2. FrameIs(Frame("parenthetic_handler", pos + 1, "least"), "parenthetic_handler", pos + 1, "least")
      BY <2>1, NewFrame
    <2>. QED  BY <2>2 DEF FrameIs
  <1>3. IsRead /\ pos + 1 \in 1 .. Len(input)
    BY <1>1, AtFacts
  <1>4. PICK w \in Words, o \in Seq(Words) : w = Token /\ o = Opened
    <2>1. Splits(OpenOf, FrameType, Words) /\ stack \in Seq(FrameType)
      BY <1>1, Sizes, OpenYields
    <2>2. FlatMap(OpenOf, stack) \in Seq(Words)
      BY <2>1, Zenon DEF Splits
    <2>. QED  BY <1>1, <2>2, AtFacts DEF Opened
  <1>5. Opened' = Append(o, w)
    <2>1. OpenOf[g] = <<w>>
      BY <1>1, <1>2, <1>3, <1>4, OpenYields DEF Token
    <2>2. Opened' = Opened \o <<w>>
      BY <1>1, <1>2, <2>1, OpenedCall
    <2>. QED  BY <1>4, <2>2, AppendIsConcat
  <1>6. PICK n \in Nat : n = NumOpen(kind, w)
    BY <1>1, HeldCounts
  <1>7. Count(Bracket(kind), Opened)' = Count(Bracket(kind), Opened) + n
    <2>1. Counts(Bracket(kind), Words) /\ Len(Bracket(kind)[w]) = n
      BY <1>6, KindCounts
    <2>2. Count(Bracket(kind), Append(o, w)) = Count(Bracket(kind), o) + Len(Bracket(kind)[w])
      BY <2>1, Zenon DEF Counts
    <2>. QED  BY <1>4, <1>5, <2>1, <2>2
  <1>8. Count(Bracket(kind), Consumed)' = Count(Bracket(kind), Consumed) + n
    BY <1>1, <1>3, <1>4, <1>6, ConsumedCounts
  <1>. QED  BY <1>1, <1>2, <1>7, <1>8, CallBalanced

LEMMA HandlerBalanced ==
    ASSUME CallsInv, LeftDenotation \/ ConsumeExtra \/ EndSequence \/ CallForRhs,
           NEW kind \in BracketKinds, Balanced(kind)
    PROVE  Balanced(kind)'
  <1>1. /\ TreeTyped /\ UNCHANGED <<input, output>> /\ IsRead
        /\ Below \in Seq(FrameType) /\ Top \in FrameType
    BY StackFacts DEF CallsInv, LeftDenotation, ConsumeExtra, EndSequence, CallForRhs, At
  <1>2. Token = ";" => Token \notin Openers
    BY DEF Openers
  <1>3. Token = ";" /\ Consume =>
          Count(Bracket(kind), Consumed)' = Count(Bracket(kind), Consumed)
    BY <1>1, <1>2, ConsumedSame
  <1>4. CASE LeftDenotation
    <2>1. PICK g : g = [Top EXCEPT !.left = pos + 1, !.at = "njux_handler"]
      OBVIOUS
    <2>2. g \in FrameType /\ g.caller = Top.caller /\ g.tok = Top.tok /\ g.lhs = Top.lhs
      BY <1>1, <2>1, Sizes DEF FrameType
    <2>3. stack' = Append(Below, g) /\ Token = ";" /\ Consume
      BY <1>4, <2>1 DEF LeftDenotation, Below, BindsLeft
    <2>4. Opened' = Opened
      BY <1>1, <2>2, <2>3, OpenedTop
    <2>. QED  BY <1>1, <1>3, <2>2, <2>3, <2>4, TopBalanced
  <1>5. CASE ConsumeExtra
    <2>1. stack' = stack /\ Token = ";" /\ Consume
      BY <1>5 DEF ConsumeExtra
    <2>2. Opened' = Opened
      BY <1>1, <2>1 DEF Opened, OpenOf
    <2>. QED  BY <1>1, <1>3, <2>1, <2>2 DEF Balanced
  <1>6. CASE EndSequence
    <2>1. stack' = TopGoesOn(Top.lhs) /\ pos' = pos
      BY <1>6 DEF EndSequence
    <2>2. PICK g \in FrameType : /\ g = GoOn(Top, Top.lhs) /\ g.caller = Top.caller
                                 /\ g.tok = Top.tok /\ g.lhs = Top.lhs
      <3>1. PICK t \in TokenType : t = Top.lhs
        BY <1>1, FrameFields
      <3>. QED  BY <1>1, <3>1, GoesOn
    <2>3. stack' = Append(Below, g)
      BY <2>1, <2>2 DEF TopGoesOn, Below
    <2>4. Opened' = Opened
      BY <1>1, <2>2, <2>3, OpenedTop
    <2>5. Count(Bracket(kind), Consumed)' = Count(Bracket(kind), Consumed)
      BY <1>1, <2>1 DEF Consumed
    <2>. QED  BY <1>1, <2>2, <2>3, <2>4, <2>5, TopBalanced
  <1>7. CASE CallForRhs
    <2>1. PICK caller \in {"start_sequence", "extend_sequence"} :
             stack' = Append(stack, Frame(caller, Top.left, "NJUX"))
      BY <1>7 DEF CallForRhs
    <2>2. PICK g \in FrameType : /\ g = Frame(caller, Top.left, "NJUX") /\ g.caller = caller
                                 /\ g.lhs = NoToken
      <3>1. caller \in Callers /\ Top.left \in Nat /\ "NJUX" \in {"least", "NJUX"}
        BY <1>1, FrameFields DEF Callers
      <3>2. FrameIs(Frame(caller, Top.left, "NJUX"), caller, Top.left, "NJUX")
        BY <3>1, NewFrame
      <3>. QED  BY <3>2 DEF FrameIs
    <2>3. PICK a \in Nat, d \in Nat : a = Count(Bracket(kind), Opened) /\ d = Count(Bracket(kind), Consumed)
      <3>1. Count(Bracket(kind), Consumed) \in Nat
        BY <1>1, KindCounts, ConsumedFacts, Zenon DEF Counts
      <3>. QED  BY <1>1, <3>1, HeldCounts
    <2>4. Count(Bracket(kind), Opened)' = a + 0
      <3>1. OpenOf[g] = <<>>
        BY <1>1, <2>2, OpenYields
      <3>2. Opened' = Opened \o <<>>
        BY <1>1, <2>1, <2>2, <3>1, OpenedCall
      <3>3. Opened \in Seq(Words)
        <4>1. Splits(OpenOf, FrameType, Words) /\ stack \in Seq(FrameType)
          BY <1>1, Sizes, OpenYields
        <4>2. FlatMap(OpenOf, stack) \in Seq(Words)
          BY <4>1, Zenon DEF Splits
        <4>. QED  BY <4>2 DEF Opened
      <3>4. Opened' = Opened
        BY <3>2, <3>3, ConcatEmptySeq
      <3>. QED  BY <2>3, <3>4
    <2>5. Count(Bracket(kind), Consumed)' = d + 0
      <3>1. Consumed' = Consumed
        BY <1>1, <1>7 DEF Consumed, CallForRhs
      <3>. QED  BY <2>3, <3>1
    <2>. QED  BY <1>1, <2>1, <2>2, <2>3, <2>4, <2>5, CallBalanced
  <1>. QED  BY <1>4, <1>5, <1>6, <1>7

LEMMA TwoInSeq ==
    ASSUME NEW X, NEW s \in Seq(X), NEW a \in X, NEW b \in X
    PROVE  <<a, b>> \in Seq(X) /\ Append(Append(s, a), b) = s \o <<a, b>>
  OBVIOUS

LEMMA AddNone ==
    /\ 0 + 0 = 0 /\ \A c \in Nat : c + 0 = c /\ 0 + c = c
    /\ \A c, d \in Nat : c + d \in Nat /\ (c + d) + 0 + 0 = c + (0 + d) + 0
  OBVIOUS

\* What is put counts, be it one token or two.
LEMMA PutCounts ==
    ASSUME NEW out \in Seq(TokenType), NEW kind, NEW a \in TokenType, NEW b \in TokenType
    PROVE  /\ Count(KindPut(kind), out \o <<a>>) = Count(KindPut(kind), out) + Num(kind, a.kind)
           /\ Count(KindPut(kind), Append(out, a)) = Count(KindPut(kind), out) + Num(kind, a.kind)
           /\ Count(KindPut(kind), out \o <<a, b>>)
                = Count(KindPut(kind), out) + (Num(kind, a.kind) + Num(kind, b.kind))
  <1>1. PICK f : /\ f = KindPut(kind) /\ Counts(f, TokenType)
                 /\ Len(f[a]) = Num(kind, a.kind) /\ Len(f[b]) = Num(kind, b.kind)
    BY KindCounts
  <1>2. PICK s \in Seq(TokenType) : s = Append(out, a) /\ s = out \o <<a>>
    BY AppendFacts, AppendIsConcat
  <1>3. Append(s, b) = out \o <<a, b>>
    <2>1. Append(Append(out, a), b) = out \o <<a, b>>
      BY TwoInSeq
    <2>. QED  BY <1>2, <2>1
  <1>4. Count(f, s) = Count(f, out) + Num(kind, a.kind)
    <2>1. Count(f, Append(out, a)) = Count(f, out) + Len(f[a])
      BY <1>1, Zenon DEF Counts
    <2>. QED  BY <1>1, <1>2, <2>1
  <1>5. Count(f, Append(s, b)) = Count(f, s) + Num(kind, b.kind)
    <2>1. Count(f, Append(s, b)) = Count(f, s) + Len(f[b])
      BY <1>1, Zenon DEF Counts
    <2>. QED  BY <1>1, <2>1
  <1>6. PICK n \in Nat, x \in Nat, y \in Nat :
           n = Count(f, out) /\ x = Num(kind, a.kind) /\ y = Num(kind, b.kind)
    <2>1. Count(f, out) \in Nat
      BY <1>1, Zenon DEF Counts
    <2>. QED  BY <2>1 DEF Num
  <1>7. (n + x) + y = n + (x + y)
    OBVIOUS
  <1>. QED  BY <1>1, <1>2, <1>3, <1>4, <1>5, <1>6, <1>7

LEMMA PutTwoCounts ==
    ASSUME NEW out \in Seq(TokenType), NEW kind, NEW a \in TokenType, NEW b \in TokenType
    PROVE  Count(KindPut(kind), out \o <<a, b>>)
             = Count(KindPut(kind), out) + (Num(kind, a.kind) + Num(kind, b.kind))
  BY PutCounts

\* The call for what comes after a separator has opened no bracket.
LEMMA SequenceOpened ==
    ASSUME TreeTyped, Nested, NEW caller \in {"start_sequence", "extend_sequence"},
           ReturnsTo(caller), input' = input, NEW t \in TokenType, stack' = CallerGoesOn(t)
    PROVE  Opened' = Opened /\ Opened' \in Seq(Words)
  <1>1. Len(stack) > 1 /\ Top.caller = caller /\ Top \in FrameType
    BY ReturnFacts
  <1>2. Opened = Opened' \o OpenOf[Top] /\ Opened' \in Seq(Words)
    BY <1>1, OpenedReturn
  <1>3. OpenOf[Top] = <<>>
    BY <1>1, OpenYields
  <1>4. Opened' \o <<>> = Opened'
    BY <1>2, ConcatEmptySeq
  <1>. QED  BY <1>2, <1>3, <1>4

\* A sequence is made of two items, or has one more.
LEMMA SequenceBalanced ==
    ASSUME CallsInv, StartSequence \/ ExtendSequence, status' # "not written",
           NEW kind \in BracketKinds, Balanced(kind)
    PROVE  Balanced(kind)'
  <1>1. PICK caller \in {"start_sequence", "extend_sequence"} : ReturnsTo(caller)
    BY DEF StartSequence, ExtendSequence
  <1>2. TreeTyped /\ Nested /\ UNCHANGED <<input, pos>>
    <2>1. CallsInv
      OBVIOUS
    <2>2. CASE StartSequence
      BY <2>1, <2>2 DEF CallsInv, StartSequence, ReturnsTo, At
    <2>3. CASE ExtendSequence
      BY <2>1, <2>3 DEF CallsInv, ExtendSequence, ReturnsTo, At
    <2>. QED  BY <2>2, <2>3
  <1>3. PICK a \in Nat, x \in Nat, y \in Nat :
           /\ a = Count(KindPut(kind), output)
           /\ x = Num(kind, Caller.lhs.kind) /\ y = Num(kind, Top.lhs.kind)
    BY <1>2, HeldCounts
  <1>4. PICK t \in TokenType, m \in Nat :
           /\ t.kind = "SEQ" /\ stack' = CallerGoesOn(t) /\ m = x + y
           /\ Count(KindPut(kind), output)' = a + m
    <2>1. CASE StartSequence
      <3>1. PICK q \in TokenType, p \in TokenType, t \in TokenType, n \in Nat : Started(q, p, t, n)
        BY <1>2, <2>1, StartEffect
      <3>2. /\ t.kind = "SEQ" /\ n = node_counter + 1 /\ q = Caller.lhs /\ p = Top.lhs
            /\ Put(<<WithParent(q, Reference(n, n)), WithParent(p, Reference(n, n))>>, CallerGoesOn(t))
        BY <3>1 DEF Started
      <3>3. PICK u \in TokenType, w \in TokenType :
               /\ u = WithParent(q, Reference(n, n)) /\ w = WithParent(p, Reference(n, n))
               /\ u.kind = q.kind /\ w.kind = p.kind
        <4>1. PICK r \in Refs : r = Reference(n, n)
          BY <1>2, <3>2, Sizes, NewReference
        <4>2. /\ WithParent(q, r) \in TokenType /\ WithParent(q, r).kind = q.kind
              /\ WithParent(p, r) \in TokenType /\ WithParent(p, r).kind = p.kind
          BY WithParentType
        <4>. QED  BY <4>1, <4>2, Zenon
      <3>4. output' = output \o <<u, w>> /\ stack' = CallerGoesOn(t)
        <4>1. <<u, w>> \in Seq(TokenType)
          BY TwoInSeq, EmptySeq
        <4>2. Put(<<u, w>>, CallerGoesOn(t))
          BY <3>2, <3>3
        <4>. QED  BY <1>2, <4>1, <4>2, PutFacts
      <3>5. Count(KindPut(kind), output \o <<u, w>>)
              = Count(KindPut(kind), output) + (Num(kind, u.kind) + Num(kind, w.kind))
        <4>1. output \in Seq(TokenType)
          BY <1>2, Sizes
        <4>. QED  BY <4>1, PutTwoCounts, Zenon
      <3>6. x + y \in Nat /\ Count(KindPut(kind), output)' = a + (x + y)
        <4>1. Num(kind, u.kind) = x /\ Num(kind, w.kind) = y
          BY <1>3, <3>2, <3>3
        <4>2. Count(KindPut(kind), output)' = Count(KindPut(kind), output \o <<u, w>>)
          BY <3>4
        <4>3. x + y \in Nat
          BY AddNone
        <4>4. Count(KindPut(kind), output)' = a + (x + y)
          BY <1>3, <3>5, <4>1, <4>2, Zenon
        <4>. QED  BY <4>3, <4>4
      <3>. QED  BY <3>2, <3>4, <3>6
    <2>2. CASE ExtendSequence
      <3>1. PICK q \in TokenType, p \in TokenType, t \in TokenType : Extended(q, p, t)
        BY <1>2, <2>2, ExtendEffect
      <3>2. /\ t.kind = "SEQ" /\ q = Caller.lhs /\ p = Top.lhs /\ q.kind = "SEQ"
            /\ Put(<<WithParent(p, q.node)>>, CallerGoesOn(t))
        BY <3>1 DEF Extended
      <3>3. PICK w \in TokenType : w = WithParent(p, q.node) /\ w.kind = p.kind
        BY TokenFields, WithParentType
      <3>4. output' = output \o <<w>> /\ stack' = CallerGoesOn(t)
        <4>1. <<w>> \in Seq(TokenType)
          BY OneInSeq
        <4>2. Put(<<w>>, CallerGoesOn(t))
          BY <3>2, <3>3
        <4>. QED  BY <1>2, <4>1, <4>2, PutFacts
      <3>5. Count(KindPut(kind), output \o <<w>>) = Count(KindPut(kind), output) + Num(kind, w.kind)
        BY <1>2, Sizes, PutCounts
      <3>6. x = 0 /\ x + y = y
        <4>1. x = Num(kind, "SEQ") /\ Num(kind, "SEQ") = 0
          BY <1>3, <3>2, NoNum
        <4>. QED  BY <4>1, AddNone
      <3>7. x + y \in Nat /\ Count(KindPut(kind), output)' = a + (x + y)
        BY <1>3, <3>2, <3>3, <3>4, <3>5, <3>6
      <3>. QED  BY <3>2, <3>4, <3>7
    <2>. QED  BY <2>1, <2>2
  <1>5. PICK c \in Nat : c = Count(Bracket(kind), Opened) /\ c = Count(Bracket(kind), Opened)' /\ c = c + 0
    <2>1. Opened' = Opened
      BY <1>1, <1>2, <1>4, SequenceOpened
    <2>2. PICK c \in Nat : c = Count(Bracket(kind), Opened)
      BY <1>2, HeldCounts
    <2>3. c = c + 0
      BY AddNone
    <2>. QED  BY <2>1, <2>2, <2>3
  <1>6. Count(Bracket(kind), Consumed)' = Count(Bracket(kind), Consumed)
    BY <1>2 DEF Consumed
  <1>7. m + Num(kind, t.kind) = x + y + 0
    <2>1. Num(kind, t.kind) = 0
      BY <1>4, NoNum
    <2>2. m + 0 = x + y + 0
      BY <1>4
    <2>. QED  BY <2>1, <2>2
  <1>8. Len(stack) > 1
    BY <1>1, <1>2, ReturnFacts
  <1>. QED  BY <1>2, <1>3, <1>4, <1>5, <1>6, <1>7, <1>8, ReturnBalanced

\* A node is made for the bracket that is closed.
LEMMA BracketBalanced ==
    ASSUME CallsInv, Accepted, CloseSequence \/ CloseSingle, status' # "not written",
           NEW kind \in BracketKinds, Balanced(kind)
    PROVE  Balanced(kind)'
  <1>1. /\ TreeTyped /\ Nested /\ input' = input /\ Consume /\ ReturnsTo("parenthetic_handler")
        /\ Token = Closing(input[Top.tok])
    <2>1. CallsInv
      OBVIOUS
    <2>2. CASE CloseSequence
      BY <2>1, <2>2 DEF CallsInv, CloseSequence, ReturnsTo, At
    <2>3. CASE CloseSingle
      BY <2>1, <2>3 DEF CallsInv, CloseSingle, ReturnsTo, At
    <2>. QED  BY <2>2, <2>3
  <1>2. PICK w \in Words, open \in Seq(Words) :
           /\ w = input[Top.tok] /\ open = Opened' /\ Opened = Append(open, w)
           /\ Len(stack) > 1 /\ w \in Openers /\ w \in Words
    <2>1. /\ Opened = Append(Opened', input[Top.tok]) /\ Opened' \in Seq(Words)
          /\ Len(stack) > 1 /\ input[Top.tok] \in Openers \cap Words
      BY BracketAccepted
    <2>. QED  BY <2>1
  <1>3. Token \notin Openers /\ IsRead
    <2>1. Closing(w) \in {")", "end"}
      BY <1>2, BracketFacts
    <2>. QED  BY <1>1, <1>2, <2>1, ReturnFacts DEF Openers
  <1>4. PICK a \in Nat, n \in Nat, x \in Nat, y \in Nat, c \in Nat :
           /\ a = Count(KindPut(kind), output) /\ n = NumOpen(kind, w) /\ c = Count(Bracket(kind), open)
           /\ x = Num(kind, Caller.lhs.kind) /\ y = Num(kind, Top.lhs.kind)
    <2>1. Count(Bracket(kind), open) \in Nat
      BY KindCounts, Zenon DEF Counts
    <2>. QED  BY <1>1, <2>1, HeldCounts
  <1>5. x = 0
    <2>1. Calls(Caller, Top) /\ Top.caller = "parenthetic_handler"
      BY <1>1, ReturnFacts
    <2>2. Caller.lhs = NoToken
      BY <1>1, <2>1, ReturnFacts DEF Calls, FrameOK
    <2>. QED  BY <1>4, <2>2, NoNum
  <1>6. PICK t \in TokenType, m \in Nat :
           /\ t.kind = SequenceKind(w) /\ stack' = CallerGoesOn(t) /\ m = y
           /\ Count(KindPut(kind), output)' = a + m
    <2>1. CASE CloseSequence
      <3>1. PICK p \in TokenType, t \in TokenType : Closed(p, t)
        BY <1>1, <2>1, ClosedEffect
      <3>2. /\ t.kind = SequenceKind(w) /\ stack' = CallerGoesOn(t) /\ output' = output
            /\ Top.lhs.kind = "SEQ"
        BY <1>2, <3>1 DEF Closed
      <3>3. y = 0 /\ a = a + y
        <4>1. y = Num(kind, "SEQ") /\ Num(kind, "SEQ") = 0
          BY <1>4, <3>2, NoNum
        <4>. QED  BY <4>1, AddNone
      <3>. QED  BY <1>4, <3>2, <3>3
    <2>2. CASE CloseSingle
      <3>1. PICK p \in TokenType, t \in TokenType, i \in Nat : Single(p, t, i)
        BY <1>1, <2>2, SingleEffect
      <3>2. /\ t.kind = SequenceKind(w) /\ i = node_counter + 1 /\ p = Top.lhs
            /\ Put(<<WithParent(p, Reference(i, i))>>, CallerGoesOn(t))
        BY <1>2, <3>1 DEF Single
      <3>3. PICK u \in TokenType : u = WithParent(p, Reference(i, i)) /\ u.kind = p.kind
        <4>1. Reference(i, i) \in Refs
          BY <1>1, <3>2, Sizes, NewReference
        <4>. QED  BY <4>1, WithParentType
      <3>4. output' = output \o <<u>> /\ stack' = CallerGoesOn(t)
        <4>1. <<u>> \in Seq(TokenType)
          BY OneInSeq
        <4>2. Put(<<u>>, CallerGoesOn(t))
          BY <3>2, <3>3
        <4>. QED  BY <1>1, <4>1, <4>2, PutFacts
      <3>5. Count(KindPut(kind), output \o <<u>>) = Count(KindPut(kind), output) + Num(kind, u.kind)
        BY <1>1, Sizes, PutCounts
      <3>6. Count(KindPut(kind), output)' = a + y
        BY <1>4, <3>2, <3>3, <3>4, <3>5
      <3>. QED  BY <3>2, <3>4, <3>6
    <2>. QED  BY <2>1, <2>2
  <1>7. Num(kind, t.kind) = n
    BY <1>2, <1>4, <1>6, NoNum
  <1>8. Count(Bracket(kind), Opened) = c + n
    <2>1. w \in Words
      BY <1>2
    <2>2. Count(Bracket(kind), Append(open, w)) = Count(Bracket(kind), open) + Len(Bracket(kind)[w])
      BY <2>1, KindCounts, Zenon DEF Counts
    <2>3. Len(Bracket(kind)[w]) = n
      BY <1>4, <2>1, KindCounts
    <2>. QED  BY <1>2, <1>4, <2>2, <2>3
  <1>9. Count(Bracket(kind), Consumed)' = Count(Bracket(kind), Consumed)
    BY <1>1, <1>3, ConsumedSame
  <1>10. m + Num(kind, t.kind) = x + y + n
    <2>1. 0 + y = y
      BY AddNone
    <2>. QED  BY <1>5, <1>6, <1>7, <2>1
  <1>. QED  BY <1>1, <1>2, <1>4, <1>6, <1>8, <1>9, <1>10, ReturnBalanced

\* What the pass put is the whole of what its call held.
LEMMA PutRootBalanced ==
    ASSUME CallsInv, PutRoot, status' # "not written", NEW kind \in BracketKinds, Balanced(kind)
    PROVE  Balanced(kind)'
  <1>1. /\ TreeTyped /\ Nested /\ Top.caller = "pass" /\ UNCHANGED <<input, pos>>
        /\ Put(<<Top.lhs>>, <<Frame("pass", 0, "least")>>)
    BY DEF CallsInv, PutRoot, ReturnsTo, At
  <1>2. PICK t \in TokenType : t = Top.lhs
    BY <1>1, StackFacts, FrameFields
  <1>3. PICK g \in FrameType : /\ g = Frame("pass", 0, "least") /\ g.caller = "pass"
                               /\ g.lhs = NoToken
    <2>1. "pass" \in Callers /\ 0 \in Nat /\ "least" \in {"least", "NJUX"}
      BY DEF Callers
    <2>2. FrameIs(Frame("pass", 0, "least"), "pass", 0, "least")
      BY <2>1, NewFrame
    <2>. QED  BY <2>2 DEF FrameIs
  <1>4. output' = output \o <<t>> /\ stack' = <<g>>
    <2>1. <<t>> \in Seq(TokenType)
      BY OneInSeq
    <2>2. Put(<<t>>, <<g>>)
      BY <1>1, <1>2, <1>3
    <2>. QED  BY <1>1, <2>1, <2>2, PutFacts
  <1>5. Opened = <<>> /\ Opened' = <<>>
    <2>1. stack = <<Top>> /\ Top \in FrameType
      BY <1>1, OnlyCall, StackFacts
    <2>2. Opened = <<>>
      BY <1>1, <2>1, OpenedAlone
    <2>3. Yields(OpenOf, FrameType, Words) /\ OpenOf[g] = <<>>
      BY <1>1, <1>3, OpenYields
    <2>4. FlatMap(OpenOf, <<g>>) = <<>>
      BY <2>3, FlatMapOne
    <2>5. OpenOf' = OpenOf
      BY <1>1 DEF OpenOf
    <2>. QED  BY <1>4, <2>2, <2>4, <2>5 DEF Opened
  <1>6. PICK a \in Nat, x \in Nat :
           a = Count(KindPut(kind), output) /\ x = Num(kind, Top.lhs.kind)
    BY <1>1, HeldCounts
  <1>7. Count(KindHeld(kind), stack) = 0 + x
    <2>1. Below = <<>>
      BY <1>1, OnlyCall
    <2>2. Count(KindHeld(kind), <<>>) = 0
      BY KindCounts DEF Counts
    <2>. QED  BY <1>1, <1>6, <2>1, <2>2, HeldCounts
  <1>8. Count(KindPut(kind), output)' = a + x
    BY <1>1, <1>2, <1>4, <1>6, Sizes, PutCounts
  <1>9. Count(KindHeld(kind), stack)' = 0
    <2>1. Counts(KindHeld(kind), FrameType) /\ Len(KindHeld(kind)[g]) = Num(kind, g.lhs.kind)
      BY KindCounts
    <2>2. PICK s \in Seq(FrameType) : s = <<>>
      BY EmptySeq
    <2>3. Count(KindHeld(kind), Append(s, g)) = Count(KindHeld(kind), s) + Len(KindHeld(kind)[g])
      BY <2>1, Zenon DEF Counts
    <2>4. Count(KindHeld(kind), s) = 0
      BY <2>1, <2>2, Zenon DEF Counts
    <2>5. Num(kind, g.lhs.kind) = 0
      BY <1>3, NoNum
    <2>6. stack' = Append(s, g)
      BY <1>4, <2>2, AppendToNone
    <2>7. 0 + 0 = 0
      BY AddNone
    <2>. QED  BY <2>1, <2>3, <2>4, <2>5, <2>6, <2>7
  <1>10. Count(Bracket(kind), Opened) = 0 /\ Count(Bracket(kind), Opened)' = 0
    <2>1. Count(Bracket(kind), <<>>) = 0
      BY KindCounts DEF Counts
    <2>. QED  BY <1>5, <2>1
  <1>11. Count(Bracket(kind), Consumed)' = Count(Bracket(kind), Consumed)
    BY <1>1 DEF Consumed
  <1>12. (a + x) + 0 + 0 = a + (0 + x) + 0
    BY AddNone
  <1>. QED  BY <1>6, <1>7, <1>8, <1>9, <1>10, <1>11, <1>12 DEF Balanced

\* The end of the input is put, which is no node.
LEMMA PutEofBalanced ==
    ASSUME CallsInv, PutEof, status' # "not written", NEW kind \in BracketKinds, Balanced(kind)
    PROVE  Balanced(kind)'
  <1>1. /\ TreeTyped /\ Top.lhs.kind = "EOF" /\ UNCHANGED <<input, pos, stack>>
        /\ output' = Append(output, Top.lhs)
    BY DEF CallsInv, PutEof
  <1>2. PICK t \in TokenType : t = Top.lhs
    BY <1>1, StackFacts, FrameFields
  <1>3. PICK a \in Nat : a = Count(KindPut(kind), output)
    BY <1>1, HeldCounts
  <1>4. Count(KindPut(kind), output)' = a
    <2>1. Count(KindPut(kind), Append(output, t)) = Count(KindPut(kind), output) + Num(kind, t.kind)
      BY <1>1, Sizes, PutCounts
    <2>2. Num(kind, t.kind) = 0
      BY <1>1, <1>2, NoNum
    <2>. QED  BY <1>1, <1>2, <1>3, <2>1, <2>2, AddNone
  <1>5. UNCHANGED <<Opened, Consumed>>
    BY <1>1 DEF Opened, OpenOf, Consumed
  <1>. QED  BY <1>1, <1>3, <1>4, <1>5 DEF Balanced

LEMMA CloseErrorBalanced ==
    ASSUME CallsInv, CloseError \/ DefaultHandler
    PROVE  status' \notin {"running", "done"}
  BY DEF CloseError, DefaultHandler

-------------------------------------------------------------------------------

\* All of the input is read at the end, and nothing is held.
Finished ==
    status = "done" =>
        /\ IsRead /\ Token = "EOF" /\ Below = <<>>
        /\ Top.caller = "pass" /\ Top.lhs.kind = "EOF"

RecognizedInv ==
    /\ CallsInv /\ Accepted /\ Finished
    /\ status \in {"running", "done"} => \A kind \in BracketKinds : Balanced(kind)

LEMMA RecognizedInit == Init => RecognizedInv
  <1>. SUFFICES ASSUME Init PROVE RecognizedInv
    OBVIOUS
  <1>1. CallsInv /\ Accepted /\ Finished
    BY CallsInit, AcceptedInit DEF Finished, Init
  <1>2. TreeTyped /\ Nested /\ Top.caller = "pass" /\ output = <<>> /\ pos = 0 /\ Top.lhs = NoToken
    BY <1>1 DEF CallsInv, Init, Frame, Top
  <1>3. ASSUME NEW kind \in BracketKinds PROVE Balanced(kind)
    <2>1. /\ Count(KindPut(kind), <<>>) = 0 /\ Count(KindHeld(kind), <<>>) = 0
          /\ Count(Bracket(kind), <<>>) = 0
      BY KindCounts DEF Counts
    <2>2. Consumed = <<>>
      BY <1>2, ConsumedFacts, EmptySeq
    <2>3. Opened = <<>>
      BY <1>2, OnlyCall, StackFacts, OpenedAlone
    <2>4. Count(KindHeld(kind), stack) = 0 + 0
      <3>1. Below = <<>> /\ Num(kind, Top.lhs.kind) = 0
        BY <1>2, OnlyCall, NoNum
      <3>. QED  BY <1>2, <2>1, <3>1, HeldCounts
    <2>5. 0 + (0 + 0) + 0 = 0
      OBVIOUS
    <2>. QED  BY <1>2, <2>1, <2>2, <2>3, <2>4, <2>5 DEF Balanced
  <1>. QED  BY <1>1, <1>3 DEF RecognizedInv

LEMMA RecognizedStep == RecognizedInv /\ [Next]_vars => RecognizedInv'
  <1>. SUFFICES ASSUME RecognizedInv, [Next]_vars PROVE RecognizedInv'
    OBVIOUS
  <1>1. CallsInv /\ Accepted /\ Finished
    BY DEF RecognizedInv
  <1>2. CallsInv' /\ Accepted'
    BY <1>1, CallsStep, AcceptedStep
  <1>3. CASE UNCHANGED vars
    <2>1. UNCHANGED <<input, pos, stack, output, status>>
      BY <1>3 DEF vars
    <2>2. UNCHANGED <<IsRead, Token, Below, Top, Opened, Consumed>>
      BY <2>1 DEF IsRead, Token, Below, Top, Opened, OpenOf, Consumed
    <2>3. Finished'
      BY <1>1, <2>1, <2>2 DEF Finished
    <2>4. ASSUME NEW kind \in BracketKinds, Balanced(kind) PROVE Balanced(kind)'
      BY <2>1, <2>2, <2>4 DEF Balanced
    <2>. QED  BY <1>2, <2>1, <2>3, <2>4 DEF RecognizedInv
  <1>4. CASE Next
    <2>1. status = "running"
      BY <1>4 DEF Next, ReadToken, PassThrough, ReferenceHandler, OpenBracket, DefaultHandler,
                  LeftDenotation, ConsumeExtra, EndSequence, CallForRhs, StartSequence,
                  ExtendSequence, CloseSequence, CloseSingle, CloseError, PutRoot, PutEof,
                  ReturnsTo, At
    <2>2. Finished'
      <3>. SUFFICES ASSUME status' = "done" PROVE Finished'
        BY DEF Finished
      <3>1. PutEof
        BY <1>4, <2>1 DEF Next, ReadToken, PassThrough, ReferenceHandler, OpenBracket, DefaultHandler,
                  LeftDenotation, ConsumeExtra, EndSequence, CallForRhs, StartSequence,
                  ExtendSequence, CloseSequence, CloseSingle, CloseError, PutRoot, Put
      <3>2. /\ TreeTyped /\ Nested /\ At("peek") /\ Top.caller = "pass" /\ Top.lhs.kind = "EOF"
            /\ UNCHANGED <<input, pos, stack>>
        BY <1>1, <3>1 DEF CallsInv, PutEof, ReturnsTo, At
      <3>3. IsRead /\ Token = "EOF" /\ Below = <<>>
        BY <1>1, <3>2, PeekFits, AtFacts, OnlyCall
      <3>4. UNCHANGED <<IsRead, Token, Below, Top>>
        BY <3>2 DEF IsRead, Token, Below, Top
      <3>. QED  BY <3>2, <3>3, <3>4 DEF Finished
    <2>3. ASSUME status' \in {"running", "done"}, NEW kind \in BracketKinds PROVE Balanced(kind)'
      <3>1. Balanced(kind) /\ status' # "not written"
        BY <2>1, <2>3 DEF RecognizedInv
      <3>2. CASE ReadToken
        BY <1>1, <3>1, <3>2, ReadTokenBalanced
      <3>3. CASE PassThrough \/ ReferenceHandler
        BY <1>1, <3>1, <3>3, NullBalanced
      <3>4. CASE OpenBracket
        BY <1>1, <3>1, <3>4, OpenBracketBalanced
      <3>5. CASE LeftDenotation \/ ConsumeExtra \/ EndSequence \/ CallForRhs
        BY <1>1, <3>1, <3>5, HandlerBalanced
      <3>6. CASE StartSequence \/ ExtendSequence
        BY <1>1, <3>1, <3>6, SequenceBalanced
      <3>7. CASE CloseSequence \/ CloseSingle
        BY <1>1, <3>1, <3>7, BracketBalanced
      <3>8. CASE CloseError \/ DefaultHandler
        BY <1>1, <2>3, <3>8, CloseErrorBalanced
      <3>9. CASE PutRoot \/ PutEof
        BY <1>1, <3>1, <3>9, PutRootBalanced, PutEofBalanced
      <3>. QED  BY <1>4, <3>2, <3>3, <3>4, <3>5, <3>6, <3>7, <3>8, <3>9 DEF Next
    <2>. QED  BY <1>2, <2>2, <2>3 DEF RecognizedInv
  <1>. QED  BY <1>3, <1>4

\* All but the last of the tokens read are consumed.
LEMMA ConsumedAll ==
    ASSUME TreeTyped, IsRead
    PROVE  input = Append(Consumed, Token)
  <1>1. PICK p \in Nat, i \in Nat : p = pos /\ i = p + 1 /\ Len(input) = i
    BY Sizes DEF IsRead
  <1>2. PICK c \in Seq(Words), w \in Words, s \in Seq(Words) :
           /\ c = Consumed /\ w = Token /\ s = input
           /\ Len(c) = p /\ s[i] = w /\ \A k \in 1 .. p : c[k] = s[k]
    <2>1. input \in Seq(Words) /\ i \in 1 .. Len(input)
      BY <1>1, Sizes
    <2>2. Token \in Words /\ Token = input[i]
      BY <1>1, <2>1, ElementOfSeq DEF Token
    <2>. QED  BY <1>1, <2>1, <2>2, ConsumedFacts
  <1>3. PICK e : e = Append(c, w)
    OBVIOUS
  <1>4. /\ e \in Seq(Words) /\ Len(e) = i /\ e[i] = w /\ \A k \in 1 .. p : e[k] = c[k]
    <2>1. /\ Append(c, w) \in Seq(Words) /\ Len(Append(c, w)) = Len(c) + 1
          /\ Append(c, w)[Len(c) + 1] = w
          /\ \A k \in 1 .. Len(c) : Append(c, w)[k] = c[k]
      BY AppendFacts
    <2>. QED  BY <1>1, <1>2, <1>3, <2>1
  <1>5. \A k \in 1 .. i : k \in 1 .. p \/ k = i
    BY <1>1
  <1>6. s = e
    <2>1. Len(s) = i
      BY <1>1, <1>2
    <2>2. \A k \in 1 .. i : s[k] = e[k]
      BY <1>2, <1>4, <1>5
    <2>. QED  BY <1>2, <1>4, <2>1, <2>2, SeqEqual
  <1>. QED  BY <1>2, <1>3, <1>6

\* What is chosen of what is put, and of the input.
LEMMA ChosenCounts ==
    ASSUME NEW out \in Seq(TokenType), NEW in \in Seq(Words), NEW kind
    PROVE  /\ Len(Chosen(out, LAMBDA t : t.kind = kind)) = Count(KindPut(kind), out)
           /\ Len(Chosen(in, LAMBDA t : t \in Openers /\ SequenceKind(t) = kind))
                = Count(Bracket(kind), in)
  <1>1. Chosen(out, LAMBDA t : t.kind = kind) = FlatMap(KindPut(kind), out)
    <2>1. \A n \in DOMAIN out : KindPut(kind)[out[n]] = IF out[n].kind = kind THEN <<out[n]>> ELSE <<>>
      BY ElementOfSeq, LenProperties DEF KindPut
    <2>2. [n \in DOMAIN out |-> IF out[n].kind = kind THEN <<out[n]>> ELSE <<>>]
            = [n \in DOMAIN out |-> KindPut(kind)[out[n]]]
      BY <2>1
    <2>. QED  BY <2>2 DEF Chosen, FlatMap, Mapped
  <1>2. Chosen(in, LAMBDA t : t \in Openers /\ SequenceKind(t) = kind) = FlatMap(Bracket(kind), in)
    <2>1. \A n \in DOMAIN in :
             Bracket(kind)[in[n]]
               = IF in[n] \in Openers /\ SequenceKind(in[n]) = kind THEN <<in[n]>> ELSE <<>>
      BY ElementOfSeq, LenProperties DEF Bracket
    <2>2. [n \in DOMAIN in |->
              IF in[n] \in Openers /\ SequenceKind(in[n]) = kind THEN <<in[n]>> ELSE <<>>]
            = [n \in DOMAIN in |-> Bracket(kind)[in[n]]]
      BY <2>1
    <2>. QED  BY <2>2 DEF Chosen, FlatMap, Mapped
  <1>. QED  BY <1>1, <1>2 DEF Count

LEMMA RecognizedMeans == RecognizedInv => Recognizes
  <1>. SUFFICES ASSUME RecognizedInv PROVE Recognizes
    OBVIOUS
  <1>1. /\ status = "done" => Verdict = "end"
        /\ status \in {"syntax error", "exited"} => Verdict = "dead"
    BY DEF RecognizedInv, Accepted
  <1>2. ASSUME status = "done", NEW kind \in BracketKinds
        PROVE  Len(Chosen(output, LAMBDA t : t.kind = kind))
                 = Len(Chosen(input, LAMBDA t : t \in Openers /\ SequenceKind(t) = kind))
    <2>1. /\ TreeTyped /\ Balanced(kind) /\ IsRead /\ Token = "EOF" /\ Below = <<>>
          /\ Top.caller = "pass" /\ Top.lhs.kind = "EOF"
      BY <1>2 DEF RecognizedInv, CallsInv, Finished
    <2>2. PICK a \in Nat, d \in Nat :
             a = Count(KindPut(kind), output) /\ d = Count(Bracket(kind), Consumed)
      <3>1. Count(Bracket(kind), Consumed) \in Nat
        BY <2>1, KindCounts, ConsumedFacts, Zenon DEF Counts
      <3>. QED  BY <2>1, <3>1, HeldCounts
    <2>3. Count(KindHeld(kind), stack) = 0
      <3>1. Count(KindHeld(kind), Below) = 0
        BY <2>1, KindCounts DEF Counts
      <3>2. Num(kind, Top.lhs.kind) = 0
        BY <2>1, NoNum
      <3>3. 0 + 0 = 0
        BY AddNone
      <3>. QED  BY <2>1, <3>1, <3>2, <3>3, HeldCounts
    <2>4. Count(Bracket(kind), Opened) = 0
      <3>1. Top \in FrameType /\ stack = <<Top>>
        <4>1. Top \in FrameType /\ stack = Append(Below, Top)
          BY <2>1, StackFacts
        <4>. QED  BY <2>1, <4>1, AppendToNone
      <3>2. Opened = <<>>
        BY <2>1, <3>1, OpenedAlone
      <3>. QED  BY <3>2, KindCounts DEF Counts
    <2>5. a = d
      <3>1. a + 0 + 0 = d
        BY <2>1, <2>2, <2>3, <2>4 DEF Balanced
      <3>. QED  BY <3>1
    <2>6. Count(Bracket(kind), input) = d
      <3>1. PICK c \in Seq(Words) : c = Consumed /\ input = Append(c, "EOF")
        <4>1. Consumed \in Seq(Words) /\ input = Append(Consumed, Token)
          BY <2>1, ConsumedAll, ConsumedFacts
        <4>. QED  BY <2>1, <4>1
      <3>2. "EOF" \in Words
        BY DEF Words
      <3>3. Count(Bracket(kind), Append(c, "EOF")) = Count(Bracket(kind), c) + Len(Bracket(kind)["EOF"])
        BY <3>2, KindCounts, Zenon DEF Counts
      <3>4. Len(Bracket(kind)["EOF"]) = 0
        BY <3>2, KindCounts, NoNum DEF Openers
      <3>. QED  BY <2>2, <3>1, <3>3, <3>4, AddNone
    <2>7. output \in Seq(TokenType) /\ input \in Seq(Words)
      BY <2>1, Sizes
    <2>8. Count(KindPut(kind), output) = Count(Bracket(kind), input)
      BY <2>2, <2>5, <2>6
    <2>. QED  BY <2>7, <2>8, ChosenCounts DEF Chosen
  <1>. QED  BY <1>1, <1>2 DEF Recognizes, BracketKinds

\* What the pass accepts are items, each a number or a bracketed sequence, and
\* nothing else: it ends well only if the input consists of them, it ends with
\* an error only where no input that begins like this one does, and what it has
\* put at the end has one node for each bracket of the input, of its kind.
THEOREM TreesRecognized == Spec => []Recognizes
  <1>1. Spec => []RecognizedInv
    BY RecognizedInit, RecognizedStep, PTL DEF Spec
  <1>2. RecognizedInv => Recognizes
    BY RecognizedMeans
  <1>. QED  BY <1>1, <1>2, PTL

-------------------------------------------------------------------------------
\* How the nodes are related.

Number(t) == t.node.number

First(t) == t.value[1]

HasParent(t) == t.parent # NoReference

\* The node t is the parent that u refers to and has it among its children.
Mother(t, u) ==
    /\ IsNode(t) /\ Number(t) = u.parent.number
    /\ \E i \in 1 .. Len(t.children) : t.children[i].number = Number(u)

\* The calls that hold a node, each with the node.
HeldOf(s) == {<<k, s[k].lhs>> : k \in {j \in 1 .. Len(s) : IsNode(s[j].lhs)}}

\* Among the tokens put and those held, no two have the same number.
Alone(out, held) ==
    /\ \A m, n \in 1 .. Len(out) : IsNode(out[m]) /\ Number(out[m]) = Number(out[n]) => m = n
    /\ \A a, b \in held : Number(a[2]) = Number(b[2]) => a = b
    /\ \A m \in 1 .. Len(out), a \in held : Number(out[m]) # Number(a[2])

\* A token that was told its parent has it, later or not yet put.
Raised(out, held) ==
    \A m \in 1 .. Len(out) : HasParent(out[m]) =>
        \/ \E n \in m + 1 .. Len(out) : Mother(out[n], out[m])
        \/ \E a \in held : Mother(a[2], out[m])

Rooted(out, held) == Alone(out, held) /\ Raised(out, held)

Shuffled(t) == t.kind \in {"WHILE", "IF"} /\ ~ deterministic

\* The token at place m is the child of the node t that is named by ref.
ChildAt(out, m, ref) == IsNode(out[m]) /\ Number(out[m]) = ref.number

\* The children of t are among the first n tokens put.
Family(t, n, out) ==
    /\ \A i \in 1 .. Len(t.children) : \E m \in 1 .. n :
          ChildAt(out, m, t.children[i]) /\ out[m].parent.number = Number(t)
    /\ \A i, j \in 1 .. Len(t.children) : t.children[i].number = t.children[j].number => i = j
    /\ \/ Shuffled(t)
       \/ \A i \in 1 .. Len(t.children) - 1 : \E k, l \in 1 .. n :
             /\ ChildAt(out, k, t.children[i]) /\ ChildAt(out, l, t.children[i + 1])
             /\ First(out[k]) < First(out[l])

Families(out) == \A m \in 1 .. Len(out) : Family(out[m], m - 1, out)

\* All children of t begin before place b.
Begun(t, out, b) ==
    \A i \in 1 .. Len(t.children) : \E m \in 1 .. Len(out) :
        ChildAt(out, m, t.children[i]) /\ First(out[m]) < b

\* A call that holds a node holds one that began after the token of the call,
\* and what it is joined with begins after it.
Placed(f, out) ==
    IsNode(f.lhs) =>
      /\ Family(f.lhs, Len(out), out)
      /\ f.tok < First(f.lhs)
      /\ f.at = "njux_handler" => First(f.lhs) < f.left /\ Begun(f.lhs, out, f.left)

TreeFrame(out) == {f \in FrameType : Placed(f, out)}

\* A bracket is after the one around it.
Bracketed(s) ==
    \A k \in 1 .. Len(s) - 1 :
        s[k + 1].caller = "parenthetic_handler" => s[k].tok < s[k + 1].tok

Treelike ==
    /\ Rooted(output, HeldOf(stack)) /\ Families(output)
    /\ stack \in Seq(TreeFrame(output)) /\ Bracketed(stack)

\* A token that is put and one that is held, however it is held.
Held(held) == held \subseteq {a \in Nat \X TokenType : IsNode(a[2])}

LEMMA HeldIs ==
    ASSUME NEW held, Held(held)
    PROVE  \A a \in held : a[2] \in TokenType /\ IsNode(a[2]) /\ Number(a[2]) \in Nat \ {0}
  <1>1. \A t \in TokenType : t.node.number \in Nat
    BY TokenFields
  <1>. QED  BY <1>1 DEF Held, IsNode, Number

\* A node that is held is put.
LEMMA RootedPut ==
    ASSUME NEW out \in Seq(TokenType), NEW held, Held(held), Rooted(out, held),
           NEW a \in held, NEW u \in TokenType,
           u.node = a[2].node, u.children = a[2].children,
           HasParent(u) => \E b \in held \ {a} : Mother(b[2], u)
    PROVE  Rooted(Append(out, u), held \ {a})
  <1>. DEFINE more == Append(out, u)
              rest == held \ {a}
  <1>1. PICK n \in Nat : /\ n = Len(out) /\ Len(more) = n + 1 /\ more[n + 1] = u
                         /\ \A k \in 1 .. n : more[k] = out[k]
    BY AppendFacts
  <1>. HIDE DEF more
  <1>2. Number(u) = Number(a[2]) /\ IsNode(u) /\ IsNode(a[2])
    BY HeldIs DEF Number, IsNode
  <1>3. \A m \in 1 .. n + 1 : m \in 1 .. n \/ m = n + 1
    OBVIOUS
  <1>4. \A m \in 1 .. n : Number(out[m]) # Number(u)
    BY <1>1, <1>2 DEF Rooted, Alone
  <1>5. Alone(more, rest)
    <2>1. \A k, m \in 1 .. n + 1 : IsNode(more[k]) /\ Number(more[k]) = Number(more[m]) => k = m
      <3>. SUFFICES ASSUME NEW k \in 1 .. n + 1, NEW m \in 1 .. n + 1,
                           IsNode(more[k]), Number(more[k]) = Number(more[m])
                    PROVE  k = m
        OBVIOUS
      <3>1. CASE k \in 1 .. n /\ m \in 1 .. n
        BY <1>1, <3>1 DEF Rooted, Alone
      <3>2. CASE k = n + 1 /\ m \in 1 .. n
        BY <1>1, <1>4, <3>2
      <3>3. CASE k \in 1 .. n /\ m = n + 1
        BY <1>1, <1>4, <3>3
      <3>. QED  BY <1>3, <3>1, <3>2, <3>3
    <2>2. \A b, c \in rest : Number(b[2]) = Number(c[2]) => b = c
      BY DEF Rooted, Alone
    <2>3. \A m \in 1 .. n + 1, b \in rest : Number(more[m]) # Number(b[2])
      <3>. SUFFICES ASSUME NEW m \in 1 .. n + 1, NEW b \in rest
                    PROVE  Number(more[m]) # Number(b[2])
        OBVIOUS
      <3>1. CASE m \in 1 .. n
        BY <1>1, <3>1 DEF Rooted, Alone
      <3>2. CASE m = n + 1
        BY <1>1, <1>2, <3>2 DEF Rooted, Alone
      <3>. QED  BY <1>3, <3>1, <3>2
    <2>. QED  BY <1>1, <2>1, <2>2, <2>3 DEF Alone
  <1>6. ASSUME NEW m \in 1 .. n + 1, HasParent(more[m])
        PROVE  \/ \E k \in m + 1 .. n + 1 : Mother(more[k], more[m])
               \/ \E b \in rest : Mother(b[2], more[m])
    <2>1. CASE m \in 1 .. n
      <3>1. more[m] = out[m] /\ HasParent(out[m])
        BY <1>1, <1>6, <2>1
      <3>2. CASE \E k \in m + 1 .. n : Mother(out[k], out[m])
        <4>1. PICK k \in m + 1 .. n : Mother(out[k], out[m])
          BY <3>2
        <4>2. k \in m + 1 .. n + 1 /\ k \in 1 .. n
          BY <2>1
        <4>. QED  BY <1>1, <3>1, <4>1, <4>2
      <3>3. CASE \E b \in held : Mother(b[2], out[m])
        <4>1. PICK b \in held : Mother(b[2], out[m])
          BY <3>3
        <4>2. CASE b = a
          <5>1. Mother(u, out[m])
            BY <1>2, <4>1, <4>2 DEF Mother
          <5>2. n + 1 \in m + 1 .. n + 1
            BY <2>1
          <5>. QED  BY <1>1, <3>1, <5>1, <5>2
        <4>. QED  BY <3>1, <4>1, <4>2
      <3>. QED  BY <1>1, <2>1, <3>1, <3>2, <3>3 DEF Rooted, Raised
    <2>2. CASE m = n + 1
      BY <1>1, <1>6, <2>2
    <2>. QED  BY <1>3, <2>1, <2>2
  <1>7. Raised(more, rest)
    BY <1>1, <1>6 DEF Raised
  <1>. QED  BY <1>5, <1>7 DEF Rooted, more

\* There is a new node.
LEMMA RootedNew ==
    ASSUME NEW out \in Seq(TokenType), NEW held, Held(held), Rooted(out, held), NEW b,
           \A m \in 1 .. Len(out) : Number(out[m]) # Number(b[2]),
           \A a \in held : Number(a[2]) # Number(b[2])
    PROVE  Rooted(out, held \cup {b})
  <1>1. Alone(out, held \cup {b})
    BY DEF Rooted, Alone
  <1>2. Raised(out, held \cup {b})
    BY DEF Rooted, Raised
  <1>. QED  BY <1>1, <1>2 DEF Rooted

\* A node gets more children, or is held by another call.
LEMMA RootedChanged ==
    ASSUME NEW out \in Seq(TokenType), NEW held, Held(held), Rooted(out, held),
           NEW a \in held, NEW b, IsNode(b[2]), Number(b[2]) = Number(a[2]),
           \A i \in 1 .. Len(a[2].children) : \E j \in 1 .. Len(b[2].children) :
               b[2].children[j] = a[2].children[i]
    PROVE  Rooted(out, (held \ {a}) \cup {b})
  <1>1. Alone(out, (held \ {a}) \cup {b})
    BY DEF Rooted, Alone
  <1>2. \A u : Mother(a[2], u) => Mother(b[2], u)
    BY DEF Mother
  <1>3. Raised(out, (held \ {a}) \cup {b})
    BY <1>2 DEF Rooted, Raised
  <1>. QED  BY <1>1, <1>3 DEF Rooted

-------------------------------------------------------------------------------
\* Families stay.

\* The tokens out are the first ones of more.
Begins(out, more) ==
    /\ Len(out) \in Nat /\ Len(more) \in Nat /\ Len(out) <= Len(more)
    /\ \A k \in 1 .. Len(out) : more[k] = out[k]

LEMMA BeginsAppend ==
    ASSUME NEW out \in Seq(TokenType), NEW u \in TokenType
    PROVE  Begins(out, Append(out, u))
  <1>1. PICK n \in Nat : /\ n = Len(out) /\ Len(Append(out, u)) = n + 1
                         /\ \A k \in 1 .. n : Append(out, u)[k] = out[k]
    BY AppendFacts
  <1>. QED  BY <1>1 DEF Begins

LEMMA FamilyKept ==
    ASSUME NEW out, NEW more, NEW n \in Nat, NEW m \in Nat, n <= m,
           \A k \in 1 .. n : more[k] = out[k],
           NEW t, NEW u, Family(t, n, out),
           u.kind = t.kind, Number(u) = Number(t), u.children = t.children
    PROVE  Family(u, m, more)
  <1>1. \A k \in 1 .. n : k \in 1 .. m
    OBVIOUS
  <1>2. \A k \in 1 .. n : \A ref : ChildAt(out, k, ref) => ChildAt(more, k, ref)
    BY DEF ChildAt
  <1>3. \A i \in 1 .. Len(u.children) : \E k \in 1 .. m :
          ChildAt(more, k, u.children[i]) /\ more[k].parent.number = Number(u)
    BY <1>1, <1>2 DEF Family
  <1>4. \A i, j \in 1 .. Len(u.children) : u.children[i].number = u.children[j].number => i = j
    BY DEF Family
  <1>5. Shuffled(u) \/ \A i \in 1 .. Len(u.children) - 1 : \E k, l \in 1 .. m :
             /\ ChildAt(more, k, u.children[i]) /\ ChildAt(more, l, u.children[i + 1])
             /\ First(more[k]) < First(more[l])
    <2>1. CASE Shuffled(t)
      BY <2>1 DEF Shuffled
    <2>2. ASSUME NEW i \in 1 .. Len(u.children) - 1, NEW k \in 1 .. n, NEW l \in 1 .. n,
                 ChildAt(out, k, t.children[i]), ChildAt(out, l, t.children[i + 1]),
                 First(out[k]) < First(out[l])
          PROVE  \E k1, l1 \in 1 .. m :
                   /\ ChildAt(more, k1, u.children[i]) /\ ChildAt(more, l1, u.children[i + 1])
                   /\ First(more[k1]) < First(more[l1])
      BY <1>1, <1>2, <2>2
    <2>. QED  BY <2>1, <2>2 DEF Family
  <1>. QED  BY <1>3, <1>4, <1>5 DEF Family

LEMMA BegunKept ==
    ASSUME NEW out, NEW more, Begins(out, more), NEW t, NEW b, Begun(t, out, b)
    PROVE  Begun(t, more, b)
  <1>1. \A k \in 1 .. Len(out) : k \in 1 .. Len(more) /\ more[k] = out[k]
    BY DEF Begins
  <1>. QED  BY <1>1 DEF Begun, ChildAt

LEMMA PlacedKept ==
    ASSUME NEW out, NEW more, Begins(out, more)
    PROVE  TreeFrame(out) \subseteq TreeFrame(more)
  <1>. SUFFICES ASSUME NEW f \in TreeFrame(out) PROVE f \in TreeFrame(more)
    OBVIOUS
  <1>1. /\ Len(out) \in Nat /\ Len(more) \in Nat /\ Len(out) <= Len(more)
        /\ \A k \in 1 .. Len(out) : more[k] = out[k]
    BY DEF Begins
  <1>2. f \in FrameType /\ Placed(f, out)
    BY DEF TreeFrame
  <1>3. IsNode(f.lhs) => Family(f.lhs, Len(more), more)
    BY <1>1, <1>2, FamilyKept DEF Placed
  <1>4. Begun(f.lhs, out, f.left) => Begun(f.lhs, more, f.left)
    BY BegunKept
  <1>. QED  BY <1>2, <1>3, <1>4 DEF Placed, TreeFrame

LEMMA FamiliesAppend ==
    ASSUME NEW out \in Seq(TokenType), Families(out), NEW u \in TokenType, Family(u, Len(out), out)
    PROVE  Families(Append(out, u))
  <1>. DEFINE more == Append(out, u)
  <1>1. PICK n \in Nat : /\ n = Len(out) /\ Len(more) = n + 1 /\ more[n + 1] = u
                         /\ \A k \in 1 .. n : more[k] = out[k]
    BY AppendFacts
  <1>. HIDE DEF more
  <1>2. ASSUME NEW m \in 1 .. n PROVE Family(more[m], m - 1, more)
    <2>1. /\ m - 1 \in Nat /\ m - 1 <= m - 1 /\ \A k \in 1 .. m - 1 : more[k] = out[k]
          /\ more[m] = out[m]
      BY <1>1
    <2>2. Family(out[m], m - 1, out)
      BY <1>1 DEF Families
    <2>. QED  BY <2>1, <2>2, FamilyKept
  <1>3. Family(u, n, more)
    BY <1>1, FamilyKept
  <1>4. \A m \in 1 .. n + 1 : m \in 1 .. n \/ m = n + 1
    OBVIOUS
  <1>5. (n + 1) - 1 = n
    OBVIOUS
  <1>6. \A m \in 1 .. n + 1 : Family(more[m], m - 1, more)
    BY <1>1, <1>2, <1>3, <1>4, <1>5
  <1>. QED  BY <1>1, <1>6 DEF Families, more

-------------------------------------------------------------------------------
\* The calls that hold a node.

HolderOf(k, f) == IF IsNode(f.lhs) THEN {<<k, f.lhs>>} ELSE {}

LEMMA HeldTyped ==
    ASSUME NEW s \in Seq(FrameType)
    PROVE  Held(HeldOf(s)) /\ \A a \in HeldOf(s) : a[1] \in 1 .. Len(s)
  <1>1. PICK n \in Nat : n = Len(s)
    BY LenProperties
  <1>2. \A k \in 1 .. n : k \in Nat /\ s[k].lhs \in TokenType
    <2>1. \A k \in 1 .. n : s[k] \in FrameType
      BY <1>1, ElementOfSeq
    <2>2. \A f \in FrameType : f.lhs \in TokenType
      BY FrameFields
    <2>. QED  BY <2>1, <2>2
  <1>3. ASSUME NEW a \in HeldOf(s)
        PROVE  /\ a \in {b \in Nat \X TokenType : IsNode(b[2])}
               /\ a[1] \in 1 .. Len(s)
    <2>1. PICK k \in 1 .. n : a = <<k, s[k].lhs>> /\ IsNode(s[k].lhs)
      BY <1>1, <1>3 DEF HeldOf
    <2>2. a[1] = k /\ a[2] = s[k].lhs /\ a \in Nat \X TokenType
      BY <1>2, <2>1
    <2>. QED  BY <1>1, <2>1, <2>2
  <1>. QED  BY <1>3 DEF Held

LEMMA HeldAppend ==
    ASSUME NEW s \in Seq(FrameType), NEW f \in FrameType
    PROVE  HeldOf(Append(s, f)) = HeldOf(s) \cup HolderOf(Len(s) + 1, f)
  <1>. DEFINE more == Append(s, f)
  <1>1. PICK n \in Nat : /\ n = Len(s) /\ Len(more) = n + 1 /\ more[n + 1] = f
                         /\ \A k \in 1 .. n : more[k] = s[k]
    BY AppendFacts
  <1>. HIDE DEF more
  <1>2. \A k \in 1 .. n : k \in 1 .. n + 1
    OBVIOUS
  <1>3. \A k \in 1 .. n + 1 : k \in 1 .. n \/ k = n + 1
    OBVIOUS
  <1>4. n + 1 \in 1 .. n + 1
    OBVIOUS
  <1>5. ASSUME NEW a \in HeldOf(more) PROVE a \in HeldOf(s) \cup HolderOf(n + 1, f)
    <2>1. PICK k \in 1 .. n + 1 : a = <<k, more[k].lhs>> /\ IsNode(more[k].lhs)
      BY <1>1, <1>5 DEF HeldOf
    <2>2. CASE k \in 1 .. n
      BY <1>1, <2>1, <2>2 DEF HeldOf
    <2>3. CASE k = n + 1
      BY <1>1, <2>1, <2>3 DEF HolderOf
    <2>. QED  BY <1>3, <2>2, <2>3
  <1>6. ASSUME NEW a \in HeldOf(s) PROVE a \in HeldOf(more)
    <2>1. PICK k \in 1 .. n : a = <<k, s[k].lhs>> /\ IsNode(s[k].lhs)
      BY <1>1, <1>6 DEF HeldOf
    <2>. QED  BY <1>1, <1>2, <2>1 DEF HeldOf
  <1>7. ASSUME NEW a \in HolderOf(n + 1, f) PROVE a \in HeldOf(more)
    <2>1. a = <<n + 1, more[n + 1].lhs>> /\ IsNode(more[n + 1].lhs)
      BY <1>1, <1>7 DEF HolderOf
    <2>. QED  BY <1>1, <1>4, <2>1 DEF HeldOf
  <1>. QED  BY <1>1, <1>5, <1>6, <1>7 DEF more

-------------------------------------------------------------------------------
\* Brackets within brackets.

LEMMA BracketedAppend ==
    ASSUME NEW s \in Seq(FrameType), s # <<>>, Bracketed(s), NEW f \in FrameType,
           f.caller = "parenthetic_handler" => s[Len(s)].tok < f.tok
    PROVE  Bracketed(Append(s, f))
  <1>. DEFINE more == Append(s, f)
  <1>1. PICK n \in Nat \ {0} : /\ n = Len(s) /\ Len(more) = n + 1 /\ more[n + 1] = f
                               /\ \A k \in 1 .. n : more[k] = s[k]
    BY AppendFacts, FrontFacts
  <1>. HIDE DEF more
  <1>2. ASSUME NEW k \in 1 .. n, more[k + 1].caller = "parenthetic_handler"
        PROVE  more[k].tok < more[k + 1].tok
    <2>1. CASE k = n
      BY <1>1, <1>2, <2>1
    <2>2. CASE k # n
      <3>1. k \in 1 .. n - 1 /\ k + 1 \in 1 .. n
        BY <2>2
      <3>. QED  BY <1>1, <1>2, <3>1 DEF Bracketed
    <2>. QED  BY <2>1, <2>2
  <1>3. (n + 1) - 1 = n
    OBVIOUS
  <1>. QED  BY <1>1, <1>2, <1>3 DEF Bracketed, more

LEMMA BracketedFront ==
    ASSUME NEW s \in Seq(FrameType), NEW f \in FrameType, Bracketed(Append(s, f))
    PROVE  /\ Bracketed(s)
           /\ s # <<>> /\ f.caller = "parenthetic_handler" => s[Len(s)].tok < f.tok
  <1>. DEFINE more == Append(s, f)
  <1>1. PICK n \in Nat : /\ n = Len(s) /\ Len(more) = n + 1 /\ more[n + 1] = f
                         /\ \A k \in 1 .. n : more[k] = s[k]
    BY AppendFacts
  <1>2. Bracketed(more)
    OBVIOUS
  <1>. HIDE DEF more
  <1>3. \A k \in 1 .. n - 1 : k \in 1 .. (n + 1) - 1 /\ k \in 1 .. n /\ k + 1 \in 1 .. n
    OBVIOUS
  <1>4. Bracketed(s)
    BY <1>1, <1>2, <1>3 DEF Bracketed
  <1>5. ASSUME s # <<>>, f.caller = "parenthetic_handler" PROVE s[n].tok < f.tok
    <2>1. n # 0
      BY <1>1, <1>5, EmptySeq
    <2>2. n \in 1 .. (n + 1) - 1 /\ n \in 1 .. n
      BY <2>1
    <2>. QED  BY <1>1, <1>2, <1>5, <2>2 DEF Bracketed
  <1>. QED  BY <1>1, <1>4, <1>5

\* The latest call of some is replaced by one at the same token.
LEMMA BracketedAgain ==
    ASSUME NEW s \in Seq(FrameType), NEW f \in FrameType, Bracketed(Append(s, f)),
           NEW g \in FrameType, g.caller = f.caller, g.tok = f.tok
    PROVE  Bracketed(Append(s, g))
  <1>1. CASE s = <<>>
    <2>1. Append(s, g) = <<g>> /\ Len(<<g>>) = 1
      BY <1>1
    <2>. QED  BY <2>1 DEF Bracketed
  <1>2. CASE s # <<>>
    BY <1>2, BracketedFront, BracketedAppend
  <1>. QED  BY <1>1, <1>2

-------------------------------------------------------------------------------
\* The steps that put nothing, make no node and return to no caller.

\* The nodes that hold of the stack, its latest call apart.
LEMMA TopHeld ==
    ASSUME TreeTyped
    PROVE  HeldOf(stack) = HeldOf(Below) \cup HolderOf(Len(stack), Top)
  <1>1. PICK n \in Nat : n = Len(Below) /\ Len(stack) = n + 1
    BY BelowSize, Zenon
  <1>2. Below \in Seq(FrameType) /\ Top \in FrameType /\ stack = Append(Below, Top)
    BY StackFacts
  <1>. QED  BY <1>1, <1>2, HeldAppend

LEMMA TreeParts ==
    ASSUME TreeTyped, Treelike
    PROVE  /\ Below \in Seq(TreeFrame(output)) /\ Top \in TreeFrame(output)
           /\ Bracketed(Append(Below, Top))
           /\ Held(HeldOf(stack)) /\ Rooted(output, HeldOf(stack)) /\ Families(output)
  <1>1. stack \in Seq(TreeFrame(output)) /\ stack # <<>> /\ stack \in Seq(FrameType)
    BY Sizes DEF Treelike
  <1>2. Below \in Seq(TreeFrame(output)) /\ Top \in TreeFrame(output)
    BY <1>1, FrontFacts DEF Below, Top
  <1>3. stack = Append(Below, Top)
    BY StackFacts
  <1>. QED  BY <1>1, <1>2, <1>3, HeldTyped DEF Treelike

\* The latest call goes on, holding what it held.
LEMMA TopTree ==
    ASSUME TreeTyped, Treelike, NEW g \in TreeFrame(output), g.caller = Top.caller, g.tok = Top.tok,
           HolderOf(Len(stack), g) = HolderOf(Len(stack), Top),
           stack' = Append(Below, g), output' = output
    PROVE  Treelike'
  <1>1. /\ Below \in Seq(TreeFrame(output)) /\ Top \in TreeFrame(output)
        /\ Bracketed(Append(Below, Top)) /\ Families(output)
        /\ Rooted(output, HeldOf(stack))
    BY TreeParts
  <1>2. g \in FrameType /\ Top \in FrameType /\ Below \in Seq(FrameType)
    BY StackFacts DEF TreeFrame
  <1>3. PICK n \in Nat : n = Len(Below) /\ Len(stack) = n + 1
    BY BelowSize, Zenon
  <1>4. HeldOf(Append(Below, g)) = HeldOf(stack)
    BY <1>2, <1>3, TopHeld, HeldAppend
  <1>5. Bracketed(Append(Below, g))
    BY <1>1, <1>2, BracketedAgain
  <1>6. Append(Below, g) \in Seq(TreeFrame(output))
    BY <1>1, AppendFacts
  <1>. QED  BY <1>1, <1>4, <1>5, <1>6 DEF Treelike

\* There is one more call, that holds nothing yet.
LEMMA CallTree ==
    ASSUME TreeTyped, Treelike, NEW g \in FrameType, ~ IsNode(g.lhs),
           g.caller = "parenthetic_handler" => Top.tok < g.tok,
           stack' = Append(stack, g), output' = output
    PROVE  Treelike'
  <1>1. stack \in Seq(TreeFrame(output)) /\ stack # <<>> /\ stack \in Seq(FrameType)
    BY Sizes DEF Treelike
  <1>2. g \in TreeFrame(output)
    BY DEF TreeFrame, Placed
  <1>3. HeldOf(Append(stack, g)) = HeldOf(stack)
    BY <1>1, HeldAppend DEF HolderOf
  <1>4. Bracketed(Append(stack, g))
    BY <1>1, BracketedAppend DEF Treelike, Top
  <1>5. Append(stack, g) \in Seq(TreeFrame(output))
    BY <1>1, <1>2, AppendFacts
  <1>. QED  BY <1>3, <1>4, <1>5 DEF Treelike

\* A caller goes on, holding the node t.
LEMMA ReturnTree ==
    ASSUME TreeTyped, Treelike, Len(stack) > 1, NEW t \in TokenType, IsNode(t),
           stack' = CallerGoesOn(t), Begins(output, output'), Families(output'),
           Rooted(output', HeldOf(Below2) \cup {<<Len(stack) - 1, t>>}),
           Family(t, Len(output'), output'), Caller.tok < First(t)
    PROVE  Treelike'
  <1>1. /\ Below \in Seq(TreeFrame(output)) /\ Bracketed(Append(Below, Top))
        /\ Top \in FrameType /\ Below \in Seq(FrameType)
    BY TreeParts, StackFacts
  <1>2. /\ Below2 \in Seq(FrameType) /\ Caller \in FrameType /\ Below = Append(Below2, Caller)
        /\ Len(Below2) = Len(stack) - 2
    BY CallerFacts
  <1>3. PICK g : g = GoOn(Caller, t)
    OBVIOUS
  <1>4. /\ g \in FrameType /\ g.caller = Caller.caller /\ g.tok = Caller.tok /\ g.lhs = t
        /\ g.at = "peek"
    BY <1>2, <1>3, GoesOn
  <1>5. stack' = Append(Below2, g)
    BY <1>3 DEF CallerGoesOn, Below2
  <1>6. Bracketed(Append(Below2, g))
    <2>1. Bracketed(Append(Below2, Caller))
      BY <1>1, <1>2, BracketedFront
    <2>. QED  BY <1>2, <1>4, <2>1, BracketedAgain
  <1>7. Append(Below2, g) \in Seq(TreeFrame(output'))
    <2>1. g \in TreeFrame(output')
      BY <1>4 DEF TreeFrame, Placed
    <2>2. Below2 \in Seq(TreeFrame(output))
      <3>1. Below # <<>>
        BY <1>2, AppendFacts
      <3>. QED  BY <1>1, <3>1, FrontFacts DEF Below2, Below
    <2>3. Below2 \in Seq(TreeFrame(output'))
      BY <2>2, PlacedKept, SeqMonotone
    <2>. QED  BY <2>1, <2>3, AppendFacts
  <1>8. HeldOf(Append(Below2, g)) = HeldOf(Below2) \cup {<<Len(stack) - 1, t>>}
    <2>1. Len(Below2) + 1 = Len(stack) - 1
      BY <1>2, BelowSize
    <2>. QED  BY <1>2, <1>4, <2>1, HeldAppend DEF HolderOf
  <1>. QED  BY <1>5, <1>6, <1>7, <1>8 DEF Treelike

\* The frames of which TreeFrame says nothing more than that they hold no node.
LEMMA NoNodes ==
    /\ ~ IsNode(NoToken) /\ \A k \in Nat : ~ IsNode(EofToken(k))
    /\ \A f : ~ IsNode(f.lhs) => Placed(f, output)
    /\ \A k : \A f, g : ~ IsNode(f.lhs) /\ ~ IsNode(g.lhs) => HolderOf(k, f) = HolderOf(k, g)
  <1>1. NoReference.number = 0
    BY DEF NoReference, Reference
  <1>2. ~ IsNode(NoToken) /\ \A k \in Nat : ~ IsNode(EofToken(k))
    BY <1>1 DEF IsNode, NoToken, EofToken
  <1>3. \A f : ~ IsNode(f.lhs) => Placed(f, output)
    BY DEF Placed
  <1>4. \A k : \A f, g : ~ IsNode(f.lhs) /\ ~ IsNode(g.lhs) => HolderOf(k, f) = HolderOf(k, g)
    BY DEF HolderOf
  <1>. QED  BY <1>2, <1>3, <1>4

\* What is put is where it can be a place in the input that was consumed.
LEMMA PutPlaces ==
    ASSUME TreeTyped, Sound
    PROVE  /\ \A m \in 1 .. Len(output) : IsNode(output[m]) => First(output[m]) \in 1 .. pos
           /\ \A m \in 1 .. Len(output) : IsNode(output[m]) => First(output[m]) \in Nat
           /\ \A f \in SoundFrame : IsNode(f.lhs) => First(f.lhs) \in 1 .. pos
  <1>1. ASSUME NEW t \in SoundToken, IsNode(t) PROVE First(t) \in 1 .. pos
    <2>1. NodeOK(t)
      BY <1>1, HeldNode DEF IsNode
    <2>2. t.value \in Seq(1 .. pos) /\ t.value # <<>>
      BY <2>1 DEF NodeOK
    <2>3. 1 \in 1 .. Len(t.value)
      BY <2>2, FrontFacts
    <2>. QED  BY <2>2, <2>3, ElementOfSeq DEF First
  <1>2. \A m \in 1 .. Len(output) : output[m] \in SoundToken
    BY SoundParts
  <1>3. \A k \in 1 .. pos : k \in Nat
    BY Sizes
  <1>. QED  BY <1>1, <1>2, <1>3 DEF SoundFrame

LEMMA PassThroughTree ==
    ASSUME SoundInv, Treelike, PassThrough
    PROVE  Treelike'
  <1>1. /\ TreeTyped /\ Nested /\ At("null denotation") /\ output' = output
        /\ stack' = TopGoesOn(EofToken(pos + 1))
    BY DEF SoundInv, CallsInv, PassThrough, At
  <1>2. Top.lhs = NoToken /\ Top \in FrameType
    BY <1>1, TopOK, StackFacts, AtFacts DEF FrameOK
  <1>3. PICK g : g = GoOn(Top, EofToken(pos + 1))
    OBVIOUS
  <1>4. /\ EofToken(pos + 1) \in TokenType /\ ~ IsNode(EofToken(pos + 1)) /\ ~ IsNode(NoToken)
    BY <1>1, Sizes, TokenTypes, NoNodes
  <1>5. g \in FrameType /\ g.caller = Top.caller /\ g.tok = Top.tok /\ ~ IsNode(g.lhs)
    BY <1>2, <1>3, <1>4, GoesOn
  <1>6. g \in TreeFrame(output) /\ HolderOf(Len(stack), g) = HolderOf(Len(stack), Top)
    BY <1>2, <1>4, <1>5, NoNodes DEF TreeFrame
  <1>7. stack' = Append(Below, g)
    BY <1>1, <1>3 DEF TopGoesOn, Below
  <1>. QED  BY <1>1, <1>5, <1>6, <1>7, TopTree

LEMMA EndSequenceTree ==
    ASSUME SoundInv, Treelike, EndSequence
    PROVE  Treelike'
  <1>1. /\ TreeTyped /\ output' = output /\ stack' = TopGoesOn(Top.lhs)
    BY DEF SoundInv, CallsInv, EndSequence
  <1>2. Top \in FrameType /\ Top.lhs \in TokenType /\ Top \in TreeFrame(output)
    BY <1>1, StackFacts, FrameFields, TreeParts
  <1>3. PICK g : g = GoOn(Top, Top.lhs)
    OBVIOUS
  <1>4. /\ g \in FrameType /\ g.caller = Top.caller /\ g.tok = Top.tok /\ g.lhs = Top.lhs
        /\ g.at = "peek"
    BY <1>2, <1>3, GoesOn
  <1>5. g \in TreeFrame(output)
    BY <1>2, <1>4 DEF TreeFrame, Placed
  <1>6. HolderOf(Len(stack), g) = HolderOf(Len(stack), Top)
    BY <1>4 DEF HolderOf
  <1>7. stack' = Append(Below, g)
    BY <1>1, <1>3 DEF TopGoesOn, Below
  <1>. QED  BY <1>1, <1>4, <1>5, <1>6, <1>7, TopTree

LEMMA LeftDenotationTree ==
    ASSUME SoundInv, Treelike, LeftDenotation
    PROVE  Treelike'
  <1>1. /\ TreeTyped /\ Sound /\ output' = output
        /\ stack' = Append(Front(stack), [Top EXCEPT !.left = pos + 1, !.at = "njux_handler"])
    BY DEF SoundInv, CallsInv, LeftDenotation
  <1>2. Top \in FrameType /\ Top.lhs \in TokenType /\ Top \in TreeFrame(output)
    BY <1>1, StackFacts, FrameFields, TreeParts
  <1>3. PICK g : g = [Top EXCEPT !.left = pos + 1, !.at = "njux_handler"]
    OBVIOUS
  <1>4. PICK p \in Nat : p = pos /\ pos + 1 = p + 1 /\ p + 1 \in Nat
    BY <1>1, Sizes
  <1>5. /\ g \in FrameType /\ g.caller = Top.caller /\ g.tok = Top.tok /\ g.lhs = Top.lhs
        /\ g.at = "njux_handler" /\ g.left = p + 1
    BY <1>2, <1>3, <1>4 DEF FrameType
  <1>6. \A m \in 1 .. Len(output) : IsNode(output[m]) => First(output[m]) < p + 1
    <2>1. \A m \in 1 .. Len(output) : IsNode(output[m]) => First(output[m]) \in 1 .. p
      BY <1>1, <1>4, PutPlaces
    <2>. QED  BY <2>1
  <1>7. ASSUME IsNode(g.lhs) PROVE First(g.lhs) < p + 1
    <2>1. First(Top.lhs) \in 1 .. p
      BY <1>1, <1>4, <1>5, <1>7, PutPlaces, SoundParts
    <2>. QED  BY <1>5, <2>1
  <1>8. ASSUME IsNode(g.lhs) PROVE Begun(g.lhs, output, p + 1)
    <2>1. Family(g.lhs, Len(output), output)
      BY <1>2, <1>5, <1>8 DEF TreeFrame, Placed
    <2>. QED  BY <1>6, <2>1 DEF Family, Begun, ChildAt
  <1>9. g \in TreeFrame(output)
    BY <1>2, <1>5, <1>7, <1>8 DEF TreeFrame, Placed
  <1>10. HolderOf(Len(stack), g) = HolderOf(Len(stack), Top)
    BY <1>5 DEF HolderOf
  <1>11. stack' = Append(Below, g)
    BY <1>1, <1>3 DEF Below
  <1>. QED  BY <1>1, <1>5, <1>9, <1>10, <1>11, TopTree

LEMMA OpenBracketTree ==
    ASSUME SoundInv, Treelike, OpenBracket
    PROVE  Treelike'
  <1>1. /\ TreeTyped /\ Nested /\ output' = output
        /\ stack' = Append(stack, Frame("parenthetic_handler", pos + 1, "least"))
    BY DEF SoundInv, CallsInv, OpenBracket, At
  <1>2. PICK p \in Nat : p = pos /\ pos + 1 = p + 1 /\ p + 1 \in Nat
    BY <1>1, Sizes
  <1>3. PICK g : g = Frame("parenthetic_handler", p + 1, "least")
    OBVIOUS
  <1>4. FrameIs(g, "parenthetic_handler", p + 1, "least")
    <2>1. "parenthetic_handler" \in Callers /\ "least" \in {"least", "NJUX"}
      BY DEF Callers
    <2>. QED  BY <1>2, <1>3, <2>1, NewFrame
  <1>5. Top.tok < p + 1
    <2>1. FrameOK(Top) /\ Top \in FrameType
      BY <1>1, TopOK, StackFacts
    <2>2. Top.tok \in 0 .. p
      <3>1. Top.caller \in Callers
        BY <2>1, FrameFields
      <3>2. Top.tok = 0 \/ Top.tok \in 1 .. p
        BY <1>2, <2>1, <3>1 DEF FrameOK, Callers, ForRhs
      <3>. QED  BY <3>2
    <2>. QED  BY <2>2
  <1>6. g \in FrameType /\ ~ IsNode(g.lhs) /\ g.tok = p + 1
    BY <1>4, NoNodes DEF FrameIs
  <1>7. stack' = Append(stack, g)
    BY <1>1, <1>2, <1>3
  <1>. QED  BY <1>1, <1>5, <1>6, <1>7, CallTree

LEMMA CallForRhsTree ==
    ASSUME SoundInv, Treelike, CallForRhs
    PROVE  Treelike'
  <1>1. PICK caller \in {"start_sequence", "extend_sequence"} :
           /\ TreeTyped /\ output' = output
           /\ stack' = Append(stack, Frame(caller, Top.left, "NJUX"))
    BY DEF SoundInv, CallsInv, CallForRhs
  <1>2. PICK g : g = Frame(caller, Top.left, "NJUX")
    OBVIOUS
  <1>3. FrameIs(g, caller, Top.left, "NJUX")
    <2>1. caller \in Callers /\ "NJUX" \in {"least", "NJUX"} /\ Top.left \in Nat
      BY <1>1, StackFacts, FrameFields DEF Callers
    <2>. QED  BY <1>2, <2>1, NewFrame
  <1>4. g \in FrameType /\ ~ IsNode(g.lhs) /\ g.caller # "parenthetic_handler"
    BY <1>3, NoNodes DEF FrameIs
  <1>. QED  BY <1>1, <1>2, <1>4, CallTree

\* Pairs, and sequences of one.
LEMMA Paired == \A x, y : <<x, y>>[1] = x /\ <<x, y>>[2] = y
  OBVIOUS

LEMMA PutOne == \A X : \A s \in Seq(X), x \in X : s \o <<x>> = Append(s, x)
  OBVIOUS

LEMMA OfOne == \A x : Len(<<x>>) = 1 /\ 1 .. Len(<<x>>) - 1 = {}
  OBVIOUS

LEMMA OfNone == Len(<<>>) = 0 /\ 1 .. Len(<<>>) = {}
  OBVIOUS

\* The number of the next node is that of no other.
LEMMA NextNumber ==
    ASSUME TreeTyped, Sound
    PROVE  /\ \A m \in 1 .. Len(output) : Number(output[m]) # node_counter + 1
           /\ \A a \in HeldOf(stack) : Number(a[2]) # node_counter + 1
  <1>1. ASSUME NEW t \in SoundToken PROVE Number(t) # node_counter + 1
    <2>1. PICK n \in Nat : n = node_counter
      BY Sizes
    <2>2. NoReference.number = 0
      BY DEF NoReference, Reference
    <2>3. Number(t) \in 0 .. n
      BY <2>1, <2>2 DEF SoundToken, NotNode, NodeOK, Number
    <2>. QED  BY <2>1, <2>3
  <1>2. \A m \in 1 .. Len(output) : output[m] \in SoundToken
    BY SoundParts
  <1>3. ASSUME NEW a \in HeldOf(stack) PROVE a[2] \in SoundToken
    <2>1. PICK k \in 1 .. Len(stack) : a = <<k, stack[k].lhs>>
      BY <1>3 DEF HeldOf
    <2>2. a[2] = stack[k].lhs /\ stack[k] \in SoundFrame
      BY <2>1, SoundParts
    <2>. QED  BY <2>2 DEF SoundFrame
  <1>. QED  BY <1>1, <1>2, <1>3

LEMMA Childless ==
    ASSUME NEW t, t.children = <<>>
    PROVE  \A n, out : Family(t, n, out)
  <1>1. Len(t.children) = 0
    BY EmptySeq
  <1>2. 1 .. Len(t.children) = {} /\ 1 .. Len(t.children) - 1 = {}
    BY <1>1
  <1>. QED  BY <1>2 DEF Family

LEMMA ReferenceTree ==
    ASSUME SoundInv, Treelike, ReferenceHandler
    PROVE  Treelike'
  <1>1. /\ TreeTyped /\ Nested /\ Sound /\ At("null denotation") /\ output' = output
        /\ node_counter' = node_counter + 1
    BY DEF SoundInv, CallsInv, ReferenceHandler, At
  <1>2. PICK p \in Nat, n \in Nat :
           /\ p = pos /\ p + 1 \in Nat /\ n = node_counter + 1 /\ node_counter' = n
    BY <1>1, Sizes
  <1>3. n # 0
    <2>1. PICK c \in Nat : c = node_counter /\ n = c + 1
      BY <1>1, <1>2, Sizes
    <2>. QED  BY <2>1
  <1>4. PICK this \in Garbage : stack' = TopGoesOn(Node("I10", <<p + 1>>, this, n, <<>>))
    BY <1>2 DEF ReferenceHandler
  <1>5. PICK t : t = Node("I10", <<p + 1>>, this, n, <<>>)
    OBVIOUS
  <1>6. NodeIs(t, "I10", <<p + 1>>, n, <<>>)
    <2>1. "I10" \in NodeKinds
      BY DEF NodeKinds, Kinds
    <2>2. <<p + 1>> \in Seq(Nat) /\ <<>> \in Seq(Refs)
      BY <1>2
    <2>. QED  BY <1>5, <2>1, <2>2, NodeType
  <1>7. t \in TokenType /\ Number(t) = n /\ IsNode(t) /\ First(t) = p + 1 /\ t.children = <<>>
    BY <1>3, <1>6 DEF NodeIs, Number, IsNode, First
  <1>8. PICK g : g = GoOn(Top, t)
    OBVIOUS
  <1>9. /\ Top \in FrameType /\ Top.lhs = NoToken /\ Below \in Seq(FrameType) /\ FrameOK(Top)
    BY <1>1, TopOK, StackFacts, AtFacts DEF FrameOK
  <1>10. /\ g \in FrameType /\ g.caller = Top.caller /\ g.tok = Top.tok /\ g.lhs = t
         /\ g.at = "peek"
    BY <1>7, <1>8, <1>9, GoesOn
  <1>11. Top.tok < p + 1
    <2>1. Top.caller \in Callers
      BY <1>9, FrameFields
    <2>2. Top.tok = 0 \/ Top.tok \in 1 .. p
      BY <1>2, <1>9, <2>1 DEF FrameOK, Callers, ForRhs
    <2>. QED  BY <2>2
  <1>12. g \in TreeFrame(output)
    <2>1. Family(g.lhs, Len(output), output)
      BY <1>7, <1>10, Childless
    <2>. QED  BY <1>7, <1>10, <1>11, <2>1 DEF TreeFrame, Placed
  <1>13. stack' = Append(Below, g)
    BY <1>4, <1>5, <1>8 DEF TopGoesOn, Below
  <1>14. PICK k \in Nat : k = Len(stack) /\ Len(Below) + 1 = k
    <2>1. Len(stack) \in Nat /\ Len(stack) = Len(Below) + 1
      BY <1>1, BelowSize, StackFacts
    <2>. QED  BY <2>1, Zenon
  <1>15. HeldOf(stack) = HeldOf(Below)
    BY <1>1, <1>9, TopHeld, NoNodes DEF HolderOf
  <1>16. HeldOf(Append(Below, g)) = HeldOf(stack) \cup {<<k, t>>}
    BY <1>7, <1>9, <1>10, <1>14, <1>15, HeldAppend DEF HolderOf
  <1>17. /\ Below \in Seq(TreeFrame(output)) /\ Bracketed(Append(Below, Top))
         /\ Held(HeldOf(stack)) /\ Rooted(output, HeldOf(stack)) /\ Families(output)
         /\ output \in Seq(TokenType)
    BY <1>1, TreeParts, Sizes
  <1>18. Rooted(output, HeldOf(stack) \cup {<<k, t>>})
    <2>1. PICK b : b = <<k, t>> /\ Number(b[2]) = n
      BY <1>7, Paired
    <2>2. /\ \A m \in 1 .. Len(output) : Number(output[m]) # n
          /\ \A a \in HeldOf(stack) : Number(a[2]) # n
      BY <1>1, <1>2, NextNumber
    <2>. QED  BY <1>17, <2>1, <2>2, RootedNew
  <1>19. Append(Below, g) \in Seq(TreeFrame(output))
    BY <1>12, <1>17, AppendFacts
  <1>20. Bracketed(Append(Below, g))
    BY <1>9, <1>10, <1>17, BracketedAgain
  <1>. QED  BY <1>1, <1>13, <1>16, <1>17, <1>18, <1>19, <1>20 DEF Treelike

\* What is put is no node.
LEMMA RootedPlain ==
    ASSUME NEW out \in Seq(TokenType), NEW held, Held(held), Rooted(out, held),
           NEW u \in TokenType, ~ IsNode(u), ~ HasParent(u)
    PROVE  Rooted(Append(out, u), held)
  <1>. DEFINE more == Append(out, u)
  <1>1. PICK n \in Nat : /\ n = Len(out) /\ Len(more) = n + 1 /\ more[n + 1] = u
                         /\ \A k \in 1 .. n : more[k] = out[k]
    BY AppendFacts
  <1>. HIDE DEF more
  <1>2. \A m \in 1 .. n + 1 : m \in 1 .. n \/ m = n + 1
    OBVIOUS
  <1>3. Number(u) = 0 /\ \A t : IsNode(t) <=> Number(t) # 0
    BY DEF IsNode, Number
  <1>4. \A a \in held : Number(a[2]) # 0
    BY HeldIs
  <1>5. Alone(more, held)
    <2>1. \A k, m \in 1 .. n + 1 : IsNode(more[k]) /\ Number(more[k]) = Number(more[m]) => k = m
      BY <1>1, <1>2, <1>3 DEF Rooted, Alone
    <2>2. \A m \in 1 .. n + 1, b \in held : Number(more[m]) # Number(b[2])
      BY <1>1, <1>2, <1>3, <1>4 DEF Rooted, Alone
    <2>. QED  BY <1>1, <2>1, <2>2 DEF Rooted, Alone
  <1>6. ASSUME NEW m \in 1 .. n + 1, HasParent(more[m])
        PROVE  \/ \E k \in m + 1 .. n + 1 : Mother(more[k], more[m])
               \/ \E b \in held : Mother(b[2], more[m])
    <2>1. m \in 1 .. n /\ more[m] = out[m] /\ HasParent(out[m])
      BY <1>1, <1>2, <1>6
    <2>2. CASE \E k \in m + 1 .. n : Mother(out[k], out[m])
      <3>1. PICK k \in m + 1 .. n : Mother(out[k], out[m])
        BY <2>2
      <3>2. k \in m + 1 .. n + 1 /\ k \in 1 .. n
        BY <2>1
      <3>. QED  BY <1>1, <2>1, <3>1, <3>2
    <2>. QED  BY <1>1, <2>1, <2>2 DEF Rooted, Raised
  <1>7. Raised(more, held)
    BY <1>1, <1>6 DEF Raised
  <1>. QED  BY <1>5, <1>7 DEF Rooted, more

\* What is put for the pass, at the end of the input or before.
LEMMA PutEofTree ==
    ASSUME SoundInv, Treelike, PutEof, status' # "not written"
    PROVE  Treelike'
  <1>1. /\ TreeTyped /\ Nested /\ Sound /\ Top.at = "peek" /\ Top.lhs.kind = "EOF"
        /\ output' = Append(output, Top.lhs) /\ stack' = stack
    BY DEF SoundInv, CallsInv, PutEof, ReturnsTo, At
  <1>2. PICK u : u = Top.lhs
    OBVIOUS
  <1>3. u \in TokenType /\ ~ IsNode(u) /\ ~ HasParent(u) /\ u.children = <<>>
    <2>1. Top \in SoundFrame
      BY <1>1, SoundParts
    <2>2. u \in SoundToken /\ u.parent = NoReference /\ u.kind \notin NodeKinds
      BY <1>1, <1>2, <2>1 DEF SoundFrame, NodeKinds
    <2>3. NotNode(u)
      BY <2>2 DEF SoundToken, NodeOK
    <2>. QED  BY <2>2, <2>3, HeldNode DEF HasParent, NotNode
  <1>4. PICK o \in Seq(TokenType) : o = output
    BY <1>1, Sizes
  <1>5. /\ stack \in Seq(TreeFrame(o)) /\ Bracketed(stack)
        /\ Held(HeldOf(stack)) /\ Rooted(o, HeldOf(stack)) /\ Families(o)
    BY <1>1, <1>4, TreeParts DEF Treelike
  <1>6. Rooted(Append(o, u), HeldOf(stack)) /\ Families(Append(o, u))
    BY <1>3, <1>5, RootedPlain, FamiliesAppend, Childless
  <1>7. stack \in Seq(TreeFrame(Append(o, u)))
    BY <1>3, <1>5, BeginsAppend, PlacedKept, SeqMonotone
  <1>. QED  BY <1>1, <1>2, <1>4, <1>5, <1>6, <1>7 DEF Treelike

LEMMA PutRootTree ==
    ASSUME SoundInv, Treelike, PutRoot, status' # "not written"
    PROVE  Treelike'
  <1>1. /\ TreeTyped /\ Nested /\ Sound /\ Top.at = "peek" /\ Top.caller = "pass"
        /\ Top.lhs.kind # "EOF"
        /\ Put(<<Top.lhs>>, <<Frame("pass", 0, "least")>>)
    BY DEF SoundInv, CallsInv, PutRoot, ReturnsTo, At
  <1>2. PICK u : u = Top.lhs
    OBVIOUS
  <1>3. u \in TokenType /\ IsNode(u) /\ ~ HasParent(u) /\ Top \in FrameType
    <2>1. Top \in SoundFrame /\ FrameOK(Top) /\ Top \in FrameType
      BY <1>1, SoundParts, TopOK, StackFacts
    <2>2. EofToken(pos + 1).kind = "EOF"
      BY DEF EofToken
    <2>3. HoldOK(u)
      BY <1>1, <1>2, <2>1, <2>2 DEF FrameOK
    <2>4. u \in SoundToken /\ u.parent = NoReference
      BY <1>2, <2>1 DEF SoundFrame
    <2>. QED  BY <2>1, <2>3, <2>4, HeldNode DEF HasParent, HoldOK
  <1>4. PICK o \in Seq(TokenType) : o = output
    BY <1>1, Sizes
  <1>5. PICK g : g = Frame("pass", 0, "least")
    OBVIOUS
  <1>6. FrameIs(g, "pass", 0, "least")
    <2>1. "pass" \in Callers /\ 0 \in Nat /\ "least" \in {"least", "NJUX"}
      BY DEF Callers
    <2>. QED  BY <1>5, <2>1, NewFrame
  <1>7. g \in FrameType /\ ~ IsNode(g.lhs)
    BY <1>6, NoNodes DEF FrameIs
  <1>8. output' = Append(o, u) /\ stack' = <<g>>
    <2>1. output' = o \o <<u>> /\ stack' = <<g>>
      BY <1>1, <1>2, <1>4, <1>5 DEF Put
    <2>2. o \o <<u>> = Append(o, u)
      BY <1>3, <1>4, PutOne
    <2>. QED  BY <2>1, <2>2
  <1>9. Below = <<>> /\ Len(stack) = 1
    BY <1>1, OnlyCall
  <1>10. HeldOf(<<>>) = {}
    BY OfNone DEF HeldOf
  <1>11. HeldOf(stack) = {<<1, u>>}
    BY <1>1, <1>2, <1>3, <1>9, <1>10, TopHeld DEF HolderOf
  <1>12. HeldOf(<<g>>) = {}
    <2>1. <<>> \in Seq(FrameType) /\ <<g>> = Append(<<>>, g)
      BY EmptySeq, AppendToNone
    <2>2. HeldOf(<<g>>) = HeldOf(<<>>) \cup HolderOf(Len(<<>>) + 1, g)
      BY <1>7, <2>1, HeldAppend
    <2>. QED  BY <1>7, <1>10, <2>2 DEF HolderOf
  <1>13. /\ Top \in TreeFrame(o) /\ Held(HeldOf(stack)) /\ Rooted(o, HeldOf(stack)) /\ Families(o)
    BY <1>1, <1>4, TreeParts
  <1>14. Rooted(Append(o, u), {})
    <2>1. PICK a : a = <<1, u>> /\ a[2] = u
      BY Paired
    <2>2. HeldOf(stack) \ {a} = {} /\ a \in HeldOf(stack)
      BY <1>11, <2>1
    <2>3. Rooted(Append(o, u), HeldOf(stack) \ {a})
      BY <1>3, <1>13, <2>1, <2>2, RootedPut
    <2>. QED  BY <2>2, <2>3
  <1>15. Families(Append(o, u))
    BY <1>2, <1>3, <1>13, FamiliesAppend DEF TreeFrame, Placed
  <1>16. <<g>> \in Seq(TreeFrame(Append(o, u)))
    <2>1. g \in TreeFrame(Append(o, u))
      BY <1>7 DEF TreeFrame, Placed
    <2>. QED  BY <2>1, OneInSeq
  <1>17. Bracketed(<<g>>)
    BY OfOne DEF Bracketed
  <1>. QED  BY <1>8, <1>12, <1>14, <1>15, <1>16, <1>17 DEF Treelike

-------------------------------------------------------------------------------
\* The families of new nodes.

\* A node around one item.
LEMMA FamilyOfOne ==
    ASSUME NEW out \in Seq(TokenType), NEW w \in TokenType, IsNode(w),
           NEW t, w.parent.number = Number(t), NEW ref, ref.number = Number(w),
           t.children = <<ref>>
    PROVE  Family(t, Len(out) + 1, Append(out, w))
  <1>. DEFINE more == Append(out, w)
  <1>1. PICK n \in Nat : n = Len(out) /\ more[n + 1] = w
    BY AppendFacts
  <1>. HIDE DEF more
  <1>2. /\ 1 .. Len(t.children) = {1} /\ 1 .. Len(t.children) - 1 = {} /\ t.children[1] = ref
    OBVIOUS
  <1>3. n + 1 \in 1 .. n + 1
    OBVIOUS
  <1>4. ChildAt(more, n + 1, ref) /\ more[n + 1].parent.number = Number(t)
    BY <1>1 DEF ChildAt
  <1>5. Family(t, n + 1, more)
    BY <1>2, <1>3, <1>4 DEF Family
  <1>. QED  BY <1>1, <1>5 DEF more

\* A node around two items.
LEMMA FamilyOfTwo ==
    ASSUME NEW out \in Seq(TokenType), NEW u \in TokenType, IsNode(u), NEW w \in TokenType, IsNode(w),
           Number(u) # Number(w), First(u) < First(w),
           NEW t, u.parent.number = Number(t), w.parent.number = Number(t),
           NEW r, r.number = Number(u), NEW s, s.number = Number(w), t.children = <<r, s>>
    PROVE  Family(t, Len(out) + 2, Append(Append(out, u), w))
  <1>. DEFINE less == Append(out, u)
              more == Append(less, w)
  <1>1. PICK n \in Nat : n = Len(out) /\ more[n + 1] = u /\ more[n + 2] = w
    <2>1. PICK n \in Nat : n = Len(out) /\ less[n + 1] = u /\ less \in Seq(TokenType) /\ Len(less) = n + 1
      BY AppendFacts
    <2>2. /\ more[Len(less) + 1] = w
          /\ \A k \in 1 .. Len(less) : more[k] = less[k]
      BY <2>1, AppendFacts
    <2>. HIDE DEF less, more
    <2>3. n + 1 \in 1 .. n + 1 /\ (n + 1) + 1 = n + 2
      OBVIOUS
    <2>. QED  BY <2>1, <2>2, <2>3
  <1>. HIDE DEF less, more
  <1>2. /\ 1 .. Len(t.children) = {1, 2} /\ 1 .. Len(t.children) - 1 = {1}
        /\ t.children[1] = r /\ t.children[2] = s /\ 1 + 1 = 2
    OBVIOUS
  <1>3. n + 1 \in 1 .. n + 2 /\ n + 2 \in 1 .. n + 2
    OBVIOUS
  <1>4. /\ ChildAt(more, n + 1, r) /\ more[n + 1].parent.number = Number(t)
        /\ ChildAt(more, n + 2, s) /\ more[n + 2].parent.number = Number(t)
        /\ First(more[n + 1]) < First(more[n + 2])
    BY <1>1 DEF ChildAt
  <1>5. \A i \in {1, 2} : \E m \in 1 .. n + 2 :
          ChildAt(more, m, t.children[i]) /\ more[m].parent.number = Number(t)
    BY <1>2, <1>3, <1>4
  <1>6. \A i, j \in {1, 2} : t.children[i].number = t.children[j].number => i = j
    BY <1>2
  <1>7. \A i \in {1} : \E k, l \in 1 .. n + 2 :
          /\ ChildAt(more, k, t.children[i]) /\ ChildAt(more, l, t.children[i + 1])
          /\ First(more[k]) < First(more[l])
    BY <1>2, <1>3, <1>4
  <1>8. Family(t, n + 2, more)
    BY <1>2, <1>5, <1>6, <1>7 DEF Family
  <1>. QED  BY <1>1, <1>8 DEF less, more

\* One item more.
LEMMA FamilyOfMore ==
    ASSUME NEW out \in Seq(TokenType), NEW w \in TokenType, IsNode(w), First(w) \in Nat,
           \A m \in 1 .. Len(out) : /\ Number(out[m]) # Number(w)
                                    /\ IsNode(out[m]) => First(out[m]) \in Nat,
           NEW q \in TokenType, q.kind = "SEQ", Len(q.children) > 1, Family(q, Len(out), out),
           NEW b \in Nat, Begun(q, out, b), b < First(w), w.parent.number = Number(q),
           NEW ref \in Refs, ref.number = Number(w),
           NEW t, t.kind = "SEQ", Number(t) = Number(q), t.children = Append(q.children, ref)
    PROVE  Family(t, Len(out) + 1, Append(out, w))
  <1>. DEFINE more == Append(out, w)
  <1>1. PICK n \in Nat : /\ n = Len(out) /\ Len(more) = n + 1 /\ more[n + 1] = w
                         /\ \A k \in 1 .. n : more[k] = out[k]
    BY AppendFacts
  <1>. HIDE DEF more
  <1>2. PICK c \in Nat : /\ c = Len(q.children) /\ c > 1 /\ Len(t.children) = c + 1
                         /\ t.children[c + 1] = ref
                         /\ \A i \in 1 .. c : t.children[i] = q.children[i]
    <2>1. q.children \in Seq(Refs)
      BY TokenFields
    <2>. QED  BY <2>1, AppendFacts
  <1>3. /\ \A k \in 1 .. n : k \in 1 .. n + 1
        /\ n + 1 \in 1 .. n + 1
        /\ \A i \in 1 .. c + 1 : i \in 1 .. c \/ i = c + 1
        /\ c \in 1 .. c /\ (c + 1) - 1 = c
        /\ \A i \in 1 .. c - 1 : i \in 1 .. c /\ i + 1 \in 1 .. c
        /\ \A i \in 1 .. c : i \in 1 .. c - 1 \/ i = c
    BY <1>2
  <1>4. \A k \in 1 .. n : \A r : ChildAt(more, k, r) <=> ChildAt(out, k, r)
    BY <1>1 DEF ChildAt
  <1>5. ChildAt(more, n + 1, ref) /\ more[n + 1].parent.number = Number(t)
    BY <1>1 DEF ChildAt
  <1>6. ASSUME NEW i \in 1 .. c + 1
        PROVE  \E m \in 1 .. n + 1 :
                 ChildAt(more, m, t.children[i]) /\ more[m].parent.number = Number(t)
    <2>1. CASE i \in 1 .. c
      <3>1. PICK m \in 1 .. n : ChildAt(out, m, q.children[i]) /\ out[m].parent.number = Number(q)
        BY <1>1, <1>2, <2>1 DEF Family
      <3>. QED  BY <1>1, <1>2, <1>3, <1>4, <2>1, <3>1
    <2>2. CASE i = c + 1
      BY <1>2, <1>3, <1>5, <2>2
    <2>. QED  BY <1>3, <2>1, <2>2
  <1>7. \A i \in 1 .. c : q.children[i].number # ref.number
    <2>1. ASSUME NEW i \in 1 .. c PROVE q.children[i].number # ref.number
      <3>1. PICK m \in 1 .. n : ChildAt(out, m, q.children[i])
        BY <1>1, <1>2 DEF Family
      <3>. QED  BY <1>1, <3>1 DEF ChildAt
    <2>. QED  BY <2>1
  <1>8. ASSUME NEW i \in 1 .. c + 1, NEW j \in 1 .. c + 1,
               t.children[i].number = t.children[j].number
        PROVE  i = j
    <2>1. CASE i \in 1 .. c /\ j \in 1 .. c
      BY <1>2, <1>8, <2>1 DEF Family
    <2>2. CASE i \in 1 .. c /\ j = c + 1
      BY <1>2, <1>7, <1>8, <2>2
    <2>3. CASE i = c + 1 /\ j \in 1 .. c
      BY <1>2, <1>7, <1>8, <2>3
    <2>. QED  BY <1>3, <2>1, <2>2, <2>3
  <1>9. ASSUME NEW i \in 1 .. c
        PROVE  \E k, l \in 1 .. n + 1 :
                 /\ ChildAt(more, k, t.children[i]) /\ ChildAt(more, l, t.children[i + 1])
                 /\ First(more[k]) < First(more[l])
    <2>1. CASE i \in 1 .. c - 1
      <3>1. ~ Shuffled(q)
        BY DEF Shuffled
      <3>2. PICK k \in 1 .. n, l \in 1 .. n :
              /\ ChildAt(out, k, q.children[i]) /\ ChildAt(out, l, q.children[i + 1])
              /\ First(out[k]) < First(out[l])
        BY <1>1, <1>2, <2>1, <3>1 DEF Family
      <3>3. /\ ChildAt(more, k, t.children[i]) /\ ChildAt(more, l, t.children[i + 1])
            /\ First(more[k]) < First(more[l])
        BY <1>1, <1>2, <1>3, <1>4, <2>1, <3>2
      <3>. QED  BY <1>3, <3>3
    <2>2. CASE i = c
      <3>1. PICK k \in 1 .. n : ChildAt(out, k, q.children[c]) /\ First(out[k]) < b
        BY <1>1, <1>2, <1>3 DEF Begun
      <3>2. First(out[k]) \in Nat
        BY <1>1, <3>1 DEF ChildAt
      <3>3. First(out[k]) < First(w)
        BY <3>1, <3>2
      <3>4. /\ ChildAt(more, k, t.children[c]) /\ ChildAt(more, n + 1, t.children[c + 1])
            /\ First(more[k]) < First(more[n + 1])
        BY <1>1, <1>2, <1>3, <1>4, <1>5, <3>1, <3>3
      <3>. QED  BY <1>3, <2>2, <3>4
    <2>. QED  BY <1>3, <2>1, <2>2
  <1>10. Family(t, n + 1, more)
    BY <1>2, <1>3, <1>6, <1>8, <1>9 DEF Family
  <1>. QED  BY <1>1, <1>10 DEF more

\* The same items, in another order only where they are shuffled.
LEMMA FamilyOfSame ==
    ASSUME NEW out, NEW n, NEW p, NEW t, Family(p, n, out), p.kind = "SEQ", Number(t) = Number(p),
           Permuted(Refs, t.children, p.children), t.children = p.children \/ Shuffled(t)
    PROVE  Family(t, n, out)
  <1>1. PICK f : Orders(f, t.children, p.children) /\ Len(t.children) = Len(p.children)
    BY DEF Permuted
  <1>2. /\ \A k \in 1 .. Len(t.children) : /\ f[k] \in 1 .. Len(p.children)
                                           /\ t.children[k] = p.children[f[k]]
        /\ \A k, l \in 1 .. Len(t.children) : f[k] = f[l] => k = l
    BY <1>1 DEF Orders
  <1>3. \A i \in 1 .. Len(t.children) : \E m \in 1 .. n :
          ChildAt(out, m, t.children[i]) /\ out[m].parent.number = Number(t)
    <2>1. ASSUME NEW i \in 1 .. Len(t.children)
          PROVE  \E m \in 1 .. n :
                   ChildAt(out, m, t.children[i]) /\ out[m].parent.number = Number(t)
      <3>1. PICK j \in 1 .. Len(p.children) : t.children[i] = p.children[j]
        BY <1>2
      <3>2. PICK m \in 1 .. n :
              ChildAt(out, m, p.children[j]) /\ out[m].parent.number = Number(p)
        BY DEF Family
      <3>. QED  BY <3>1, <3>2
    <2>. QED  BY <2>1
  <1>4. ASSUME NEW i \in 1 .. Len(t.children), NEW j \in 1 .. Len(t.children),
               t.children[i].number = t.children[j].number
        PROVE  i = j
    <2>1. PICK k \in 1 .. Len(p.children), l \in 1 .. Len(p.children) :
            k = f[i] /\ l = f[j] /\ t.children[i] = p.children[k] /\ t.children[j] = p.children[l]
      BY <1>2
    <2>2. k = l
      BY <1>4, <2>1 DEF Family
    <2>. QED  BY <1>2, <2>1, <2>2
  <1>5. t.children = p.children =>
          \A i \in 1 .. Len(t.children) - 1 : \E k, l \in 1 .. n :
             /\ ChildAt(out, k, t.children[i]) /\ ChildAt(out, l, t.children[i + 1])
             /\ First(out[k]) < First(out[l])
    BY DEF Family, Shuffled
  <1>. QED  BY <1>3, <1>4, <1>5 DEF Family

-------------------------------------------------------------------------------
\* The steps that return to a caller.

LEMMA FirstJoined ==
    ASSUME NEW X, NEW u \in Seq(X), u # <<>>, NEW x, NEW v
    PROVE  (u \o <<x>> \o v)[1] = u[1]
  <1>1. PICK n \in Nat \ {0} : n = Len(u)
    BY FrontFacts
  <1>. QED  BY <1>1

\* The nodes that the calls below the caller hold, and those that the caller
\* and the latest call do.
LEMMA ReturnHeld ==
    ASSUME TreeTyped, Len(stack) > 1
    PROVE  \E n \in Nat : \E B :
             /\ n + 1 = Len(stack) /\ n = Len(stack) - 1 /\ B = HeldOf(Below2)
             /\ HeldOf(stack) = B \cup HolderOf(n, Caller) \cup HolderOf(n + 1, Top)
             /\ \A a \in B : a[1] # n /\ a[1] # n + 1
  <1>1. PICK n \in Nat : n + 1 = Len(stack) /\ n = Len(stack) - 1 /\ Len(Below2) + 1 = n
    <2>1. PICK m \in Nat : m = Len(stack) /\ m > 1 /\ Len(Below2) = m - 2
      BY CallerFacts
    <2>2. m - 1 \in Nat /\ (m - 1) + 1 = m /\ (m - 2) + 1 = m - 1
      BY <2>1
    <2>. QED  BY <2>1, <2>2
  <1>2. /\ Below2 \in Seq(FrameType) /\ Caller \in FrameType /\ Below = Append(Below2, Caller)
    BY CallerFacts
  <1>3. HeldOf(Below) = HeldOf(Below2) \cup HolderOf(n, Caller)
    BY <1>1, <1>2, HeldAppend
  <1>4. HeldOf(stack) = HeldOf(Below) \cup HolderOf(n + 1, Top)
    BY <1>1, TopHeld
  <1>5. \A a \in HeldOf(Below2) : a[1] # n /\ a[1] # n + 1
    <2>1. \A a \in HeldOf(Below2) : a[1] \in 1 .. Len(Below2)
      BY <1>2, HeldTyped
    <2>2. PICK m \in Nat : m = Len(Below2) /\ m + 1 = n
      BY <1>1, <1>2, LenProperties
    <2>3. \A a \in HeldOf(Below2) : a[1] \in 1 .. m
      BY <2>1, <2>2
    <2>. QED  BY <2>2, <2>3
  <1>. QED  BY <1>1, <1>3, <1>4, <1>5

\* What the latest call holds, that has an item, and its caller.
LEMMA HeldItem ==
    ASSUME TreeTyped, Nested, Sound, Treelike, HoldOK(Top.lhs)
    PROVE  /\ IsNode(Top.lhs) /\ Top.lhs \in TokenType
           /\ Family(Top.lhs, Len(output), output)
           /\ First(Top.lhs) \in Nat /\ Top.tok \in Nat /\ Top.tok < First(Top.lhs)
  <1>1. Top \in SoundFrame /\ Top \in TreeFrame(output) /\ Top \in FrameType
    BY SoundParts, TreeParts, StackFacts
  <1>2. IsNode(Top.lhs) /\ Top.lhs \in TokenType /\ Top.tok \in Nat
    BY <1>1, HeldNode, FrameFields DEF SoundFrame, HoldOK
  <1>3. First(Top.lhs) \in Nat
    BY <1>1, <1>2, Sizes, PutPlaces
  <1>. QED  BY <1>1, <1>2, <1>3 DEF TreeFrame, Placed

\* What is joined: the item of the caller is before that of the latest call.
LEMMA HeldItems ==
    ASSUME TreeTyped, Nested, Sound, Treelike, NEW caller, ReturnsTo(caller), caller # "pass",
           ForRhs(Top)
    PROVE  /\ IsNode(Caller.lhs) /\ Caller.lhs \in TokenType
           /\ Family(Caller.lhs, Len(output), output)
           /\ First(Caller.lhs) \in Nat /\ Caller.tok \in Nat /\ Caller.tok < First(Caller.lhs)
           /\ First(Caller.lhs) < First(Top.lhs)
           /\ Begun(Caller.lhs, output, Top.tok)
           /\ Caller.lhs.value # <<>> /\ Caller.lhs.value \in Seq(Nat)
  <1>1. /\ Len(stack) > 1 /\ Calls(Caller, Top) /\ HoldOK(Caller.lhs) /\ HoldOK(Top.lhs)
        /\ Caller \in FrameType
    BY ReturnFacts
  <1>2. Caller \in SoundFrame /\ Caller \in TreeFrame(output)
    <2>1. Caller \in SoundFrame
      BY <1>1, SoundParts
    <2>2. Below \in Seq(TreeFrame(output)) /\ Below = Append(Below2, Caller) /\ Below2 \in Seq(FrameType)
      BY <1>1, TreeParts, CallerFacts
    <2>3. Below # <<>> /\ Below[Len(Below2) + 1] = Caller /\ Len(Below) = Len(Below2) + 1
      BY <1>1, <2>2, AppendFacts
    <2>4. Below[Len(Below)] \in TreeFrame(output)
      BY <2>2, <2>3, FrontFacts
    <2>. QED  BY <2>1, <2>3, <2>4
  <1>3. Caller.at = "njux_handler" /\ Top.tok = Caller.left
    BY <1>1 DEF Calls
  <1>4. /\ IsNode(Caller.lhs) /\ Caller.lhs \in TokenType /\ Caller.tok \in Nat
        /\ Caller.left \in Nat /\ NodeOK(Caller.lhs)
    BY <1>1, <1>2, HeldNode, FrameFields DEF SoundFrame, HoldOK
  <1>5. First(Caller.lhs) \in Nat
    BY <1>2, <1>4, Sizes, PutPlaces
  <1>6. /\ Family(Caller.lhs, Len(output), output) /\ Caller.tok < First(Caller.lhs)
        /\ First(Caller.lhs) < Caller.left /\ Begun(Caller.lhs, output, Caller.left)
    BY <1>2, <1>3, <1>4 DEF TreeFrame, Placed
  <1>7. First(Top.lhs) \in Nat /\ Top.tok < First(Top.lhs)
    BY <1>1, HeldItem
  <1>8. First(Caller.lhs) < First(Top.lhs)
    BY <1>3, <1>4, <1>5, <1>6, <1>7
  <1>9. Caller.lhs.value # <<>> /\ Caller.lhs.value \in Seq(Nat)
    BY <1>4, TokenFields DEF NodeOK
  <1>. QED  BY <1>3, <1>4, <1>5, <1>6, <1>8, <1>9

\* The token t, told its parent, is u.
GivenTo(t, ref, u) ==
    /\ u \in TokenType /\ u.node = t.node /\ u.children = t.children /\ u.parent = ref
    /\ Number(u) = Number(t) /\ First(u) = First(t) /\ (IsNode(t) => IsNode(u))
    /\ \A n, out : Family(t, n, out) => Family(u, n, out)

LEMMA Given == \A t \in TokenType, ref \in Refs : GivenTo(t, ref, WithParent(t, ref))
  <1>. SUFFICES ASSUME NEW t \in TokenType, NEW ref \in Refs PROVE GivenTo(t, ref, WithParent(t, ref))
    OBVIOUS
  <1>0. PICK u : u = WithParent(t, ref)
    OBVIOUS
  <1>1. /\ u \in TokenType /\ u.kind = t.kind /\ u.value = t.value /\ u.node = t.node
        /\ u.children = t.children /\ u.parent = ref
    BY <1>0, WithParentType
  <1>2. Number(u) = Number(t) /\ First(u) = First(t) /\ (IsNode(t) => IsNode(u))
    BY <1>1 DEF Number, First, IsNode
  <1>3. \A n, out : Family(t, n, out) => Family(u, n, out)
    BY <1>1, <1>2 DEF Family, Shuffled
  <1>. QED  BY <1>0, <1>1, <1>2, <1>3 DEF GivenTo

HasTwo(c, r, s) ==
    Len(c) = 2 /\ c[1] = r /\ c[2] = s /\ 1 \in 1 .. 2 /\ 2 \in 1 .. 2

LEMMA TwoChildren == \A r, s : HasTwo(<<r, s>>, r, s)
  BY DEF HasTwo

HasOne(c, r) == Len(c) = 1 /\ c[1] = r /\ 1 \in 1 .. 1

LEMMA OneChild == \A r : HasOne(<<r>>, r)
  BY DEF HasOne

LEMMA PutTwo ==
    \A s \in Seq(TokenType), x, y \in TokenType : s \o <<x, y>> = Append(Append(s, x), y)
  OBVIOUS

\* Two tokens are put.
LEMMA PutsTwo ==
    ASSUME NEW out \in Seq(TokenType), NEW u \in TokenType, NEW w \in TokenType
    PROVE  /\ Append(out, u) \in Seq(TokenType) /\ Len(Append(out, u)) = Len(out) + 1
           /\ Append(Append(out, u), w) \in Seq(TokenType)
           /\ Len(Append(Append(out, u), w)) = Len(out) + 2
           /\ Begins(out, Append(Append(out, u), w))
  <1>1. PICK n \in Nat : n = Len(out)
    BY LenProperties
  <1>2. /\ Append(out, u) \in Seq(TokenType) /\ Len(Append(out, u)) = n + 1
        /\ \A k \in 1 .. n : Append(out, u)[k] = out[k]
    BY <1>1, AppendFacts
  <1>3. PICK less \in Seq(TokenType) : less = Append(out, u)
    BY <1>2
  <1>4. /\ Append(less, w) \in Seq(TokenType) /\ Len(Append(less, w)) = n + 2
        /\ \A k \in 1 .. n + 1 : Append(less, w)[k] = less[k]
    <2>1. /\ Append(less, w) \in Seq(TokenType) /\ Len(Append(less, w)) = Len(less) + 1
          /\ \A k \in 1 .. Len(less) : Append(less, w)[k] = less[k]
      BY AppendFacts
    <2>2. Len(less) = n + 1 /\ (n + 1) + 1 = n + 2
      BY <1>2, <1>3
    <2>. QED  BY <2>1, <2>2
  <1>5. \A k \in 1 .. n : k \in 1 .. n + 1
    BY <1>1
  <1>6. n <= n + 2 /\ n + 2 \in Nat
    BY <1>1
  <1>. QED  BY <1>1, <1>2, <1>3, <1>4, <1>5, <1>6 DEF Begins

LEMMA Successor ==
    /\ \A c \in Nat : c + 1 \in Nat /\ c + 1 # 0 /\ c <= c + 1 /\ c # c + 1
    /\ \A c \in Nat : c + 1 \in 1 .. c + 1 /\ \A m \in 1 .. c : m \in 1 .. c + 1
  OBVIOUS

LEMMA OneToRefer ==
    \A n \in Nat : Reference(n, n) \in Refs /\ Reference(n, n).number = n
  <1>1. \A n \in Nat : Reference(n, n) \in Refs
    BY TokenTypes DEF This
  <1>. QED  BY <1>1 DEF Reference

\* A token more that is put has its family among those before.
LEMMA FamilyLater ==
    ASSUME NEW out \in Seq(TokenType), NEW u \in TokenType, NEW w, Family(w, Len(out), out)
    PROVE  Family(w, Len(out) + 1, Append(out, u))
  <1>1. PICK m \in Nat : m = Len(out) /\ \A i \in 1 .. m : Append(out, u)[i] = out[i]
    BY AppendFacts
  <1>2. m + 1 \in Nat /\ m <= m + 1
    BY <1>1
  <1>3. Family(w, m, out)
    BY <1>1
  <1>4. Family(w, m + 1, Append(out, u))
    BY <1>1, <1>2, <1>3, FamilyKept
  <1>. QED  BY <1>1, <1>4

LEMMA StartTree ==
    ASSUME SoundInv, Treelike, StartSequence, status' # "not written"
    PROVE  Treelike'
  <1>1. TreeTyped /\ Nested /\ Sound /\ ReturnsTo("start_sequence") /\ Top.caller = "start_sequence"
    BY DEF SoundInv, CallsInv, StartSequence, ReturnsTo, At
  <1>2. PICK q \in TokenType, p \in TokenType, t \in TokenType, n \in Nat : Started(q, p, t, n)
    BY <1>1, StartEffect
  <1>3. /\ q = Caller.lhs /\ p = Top.lhs /\ HoldOK(q) /\ HoldOK(p)
        /\ n = node_counter + 1
        /\ t.value = q.value \o <<Top.tok>> \o p.value
        /\ t.node.number = n /\ t.parent = NoReference /\ t.children = <<q.node, p.node>>
        /\ Put(<<WithParent(q, Reference(n, n)), WithParent(p, Reference(n, n))>>, CallerGoesOn(t))
    BY <1>2 DEF Started
  <1>4. ForRhs(Top) /\ Len(stack) > 1
    BY <1>1, ReturnFacts DEF ForRhs
  <1>5. PICK ref \in Refs : ref = Reference(n, n) /\ ref.number = n
    BY OneToRefer
  <1>6. PICK u, w : /\ u = WithParent(q, ref) /\ w = WithParent(p, ref)
                    /\ GivenTo(q, ref, u) /\ GivenTo(p, ref, w)
    BY Given, Zenon
  <1>7. /\ IsNode(q) /\ IsNode(p) /\ Family(q, Len(output), output) /\ Family(p, Len(output), output)
        /\ Caller.tok < First(q) /\ First(q) < First(p)
        /\ q.value # <<>> /\ q.value \in Seq(Nat)
    BY <1>1, <1>3, <1>4, HeldItem, HeldItems
  <1>8. /\ u \in TokenType /\ u.node = q.node /\ u.children = q.children /\ u.parent = ref
        /\ Number(u) = Number(q) /\ First(u) = First(q) /\ IsNode(u)
        /\ Family(u, Len(output), output)
    BY <1>6, <1>7 DEF GivenTo
  <1>8a. /\ w \in TokenType /\ w.node = p.node /\ w.children = p.children /\ w.parent = ref
         /\ Number(w) = Number(p) /\ First(w) = First(p) /\ IsNode(w)
         /\ Family(w, Len(output), output)
    BY <1>6, <1>7 DEF GivenTo
  <1>9. IsNode(t) /\ Number(t) = n /\ n # 0
    <2>1. PICK c \in Nat : c = node_counter /\ n = c + 1
      BY <1>1, <1>3, Sizes
    <2>2. n # 0
      BY <2>1, Successor
    <2>. QED  BY <1>3, <2>2 DEF IsNode, Number
  <1>10. PICK o \in Seq(TokenType) : o = output
    BY <1>1, Sizes
  <1>11. output' = Append(Append(o, u), w) /\ stack' = CallerGoesOn(t)
    <2>1. output' = o \o <<u, w>> /\ stack' = CallerGoesOn(t)
      BY <1>3, <1>5, <1>6, <1>10 DEF Put
    <2>2. o \o <<u, w>> = Append(Append(o, u), w)
      BY <1>8, <1>8a, <1>10, PutTwo, Zenon
    <2>. QED  BY <2>1, <2>2
  <1>12. PICK k \in Nat : \E B :
             /\ k + 1 = Len(stack) /\ k = Len(stack) - 1 /\ B = HeldOf(Below2)
             /\ HeldOf(stack) = B \cup HolderOf(k, Caller) \cup HolderOf(k + 1, Top)
             /\ \A a \in B : a[1] # k /\ a[1] # k + 1
    BY <1>1, <1>4, ReturnHeld
  <1>13. PICK B :
             /\ k + 1 = Len(stack) /\ k = Len(stack) - 1 /\ B = HeldOf(Below2)
             /\ HeldOf(stack) = B \cup HolderOf(k, Caller) \cup HolderOf(k + 1, Top)
             /\ \A a \in B : a[1] # k /\ a[1] # k + 1
    BY <1>12
  <1>14. PICK Q, P, T : /\ Q = <<k, q>> /\ Q[1] = k /\ Q[2] = q
                        /\ P = <<k + 1, p>> /\ P[1] = k + 1 /\ P[2] = p
                        /\ T = <<k, t>> /\ T[1] = k /\ T[2] = t
    <2>1. PICK Q, P, T : Q = <<k, q>> /\ P = <<k + 1, p>> /\ T = <<k, t>>
      OBVIOUS
    <2>2. /\ Q[1] = k /\ Q[2] = q /\ P[1] = k + 1 /\ P[2] = p /\ T[1] = k /\ T[2] = t
      BY <2>1, Paired, Zenon
    <2>. QED  BY <2>1, <2>2
  <1>15. HeldOf(stack) = B \cup {Q} \cup {P}
    BY <1>3, <1>7, <1>13, <1>14 DEF HolderOf
  <1>16. /\ Held(HeldOf(stack)) /\ Rooted(o, HeldOf(stack)) /\ Families(o)
         /\ \A m \in 1 .. Len(o) : Number(o[m]) # n
         /\ \A a \in HeldOf(stack) : Number(a[2]) # n
    BY <1>1, <1>3, <1>10, TreeParts, NextNumber
  <1>17. Q \notin B /\ P \notin B /\ T # Q /\ T # P /\ Q # P
    <2>1. k # k + 1
      BY Successor
    <2>2. Number(q) # n
      BY <1>14, <1>15, <1>16
    <2>. QED  BY <1>9, <1>13, <1>14, <2>1, <2>2
  <1>18. Rooted(Append(Append(o, u), w), B \cup {T})
    <2>. DEFINE three == HeldOf(stack) \cup {T}
    <2>1. Rooted(o, three) /\ Held(three)
      <3>1. T \in {a \in Nat \X TokenType : IsNode(a[2])}
        BY <1>9, <1>14
      <3>. QED  BY <1>9, <1>14, <1>16, <3>1, RootedNew DEF Held
    <2>2. Mother(t, u) /\ Mother(t, w)
      <3>1. /\ Len(t.children) = 2 /\ t.children[1] = q.node /\ t.children[2] = p.node
            /\ 1 \in 1 .. 2 /\ 2 \in 1 .. 2
        <4>1. HasTwo(<<q.node, p.node>>, q.node, p.node)
          BY TwoChildren, Zenon
        <4>2. HasTwo(t.children, q.node, p.node)
          BY <1>3, <4>1, Zenon
        <4>. QED  BY <4>2 DEF HasTwo
      <3>3. u.parent.number = Number(t) /\ w.parent.number = Number(t)
        BY <1>5, <1>8, <1>8a, <1>9
      <3>4. q.node.number = Number(u) /\ p.node.number = Number(w)
        BY <1>8, <1>8a DEF Number
      <3>. QED  BY <1>9, <3>1, <3>3, <3>4 DEF Mother
    <2>3. T \in three \ {Q} /\ T \in (three \ {Q}) \ {P} /\ Q \in three /\ P \in three \ {Q}
      BY <1>15, <1>17
    <2>. HIDE DEF three
    <2>4. Rooted(Append(o, u), three \ {Q})
      BY <1>8, <1>8a, <1>14, <2>1, <2>2, <2>3, RootedPut
    <2>5. Held(three \ {Q}) /\ Append(o, u) \in Seq(TokenType)
      BY <1>8, <2>1, PutsTwo DEF Held
    <2>6. Rooted(Append(Append(o, u), w), (three \ {Q}) \ {P})
      BY <1>8, <1>8a, <1>14, <2>2, <2>3, <2>4, <2>5, RootedPut
    <2>7. (three \ {Q}) \ {P} = B \cup {T}
      <3>1. three = (B \cup {Q} \cup {P}) \cup {T}
        BY <1>15 DEF three
      <3>2. (((B \cup {Q} \cup {P}) \cup {T}) \ {Q}) \ {P} = B \cup {T}
        BY <1>17
      <3>. QED  BY <3>1, <3>2
    <2>. QED  BY <2>6, <2>7
  <1>19. /\ Append(o, u) \in Seq(TokenType) /\ Len(Append(o, u)) = Len(o) + 1
         /\ Append(Append(o, u), w) \in Seq(TokenType)
         /\ Len(Append(Append(o, u), w)) = Len(o) + 2
         /\ Begins(o, Append(Append(o, u), w))
    BY <1>8, <1>8a, PutsTwo
  <1>20. Families(Append(Append(o, u), w))
    <2>1. Families(Append(o, u))
      BY <1>8, <1>8a, <1>10, <1>16, FamiliesAppend
    <2>2. Family(w, Len(o) + 1, Append(o, u))
      BY <1>8, <1>8a, <1>10, FamilyLater
    <2>3. PICK less \in Seq(TokenType) : less = Append(o, u) /\ Len(less) = Len(o) + 1
      BY <1>19
    <2>. QED  BY <1>8a, <2>1, <2>2, <2>3, FamiliesAppend
  <1>21. Family(t, Len(o) + 2, Append(Append(o, u), w))
    <2>1. Number(u) # Number(w)
      BY <1>8, <1>8a, <1>14, <1>15, <1>16, <1>17 DEF Rooted, Alone
    <2>2. /\ u.parent.number = Number(t) /\ w.parent.number = Number(t)
          /\ q.node.number = Number(u) /\ p.node.number = Number(w)
          /\ First(u) < First(w)
      BY <1>5, <1>7, <1>8, <1>8a, <1>9 DEF Number
    <2>. QED  BY <1>3, <1>8, <1>8a, <2>1, <2>2, FamilyOfTwo
  <1>22. Caller.tok < First(t)
    <2>1. First(t) = First(q)
      <3>1. (q.value \o <<Top.tok>> \o p.value)[1] = q.value[1]
        BY <1>7, FirstJoined
      <3>. QED  BY <1>3, <3>1 DEF First
    <2>. QED  BY <1>7, <2>1
  <1>23. Rooted(output', HeldOf(Below2) \cup {<<Len(stack) - 1, t>>})
    BY <1>11, <1>13, <1>14, <1>18
  <1>. QED  BY <1>1, <1>4, <1>9, <1>10, <1>11, <1>19, <1>20, <1>21, <1>22, <1>23, ReturnTree

\* The nodes held by the calls below the caller, by the caller, by the latest
\* call, and the node t where the caller is to hold it.
Returned(k, B, Q, P, T, t) ==
    /\ k = Len(stack) - 1 /\ B = HeldOf(Below2)
    /\ Q[2] = Caller.lhs /\ P[2] = Top.lhs /\ T = <<k, t>> /\ T[2] = t
    /\ Q \notin B /\ P \notin B /\ P # Q /\ P # T
    /\ IsNode(Caller.lhs) => HeldOf(stack) = B \cup {Q} \cup {P}
    /\ ~ IsNode(Caller.lhs) => HeldOf(stack) = B \cup {P}

LEMMA ReturnPairs ==
    ASSUME TreeTyped, Len(stack) > 1, IsNode(Top.lhs), NEW t
    PROVE  \E k \in Nat : \E B, Q, P, T : Returned(k, B, Q, P, T, t)
  <1>1. PICK k \in Nat : \E B :
             /\ k + 1 = Len(stack) /\ k = Len(stack) - 1 /\ B = HeldOf(Below2)
             /\ HeldOf(stack) = B \cup HolderOf(k, Caller) \cup HolderOf(k + 1, Top)
             /\ \A a \in B : a[1] # k /\ a[1] # k + 1
    BY ReturnHeld
  <1>2. PICK B :
             /\ k + 1 = Len(stack) /\ k = Len(stack) - 1 /\ B = HeldOf(Below2)
             /\ HeldOf(stack) = B \cup HolderOf(k, Caller) \cup HolderOf(k + 1, Top)
             /\ \A a \in B : a[1] # k /\ a[1] # k + 1
    BY <1>1
  <1>3. PICK Q, P, T : Q = <<k, Caller.lhs>> /\ P = <<k + 1, Top.lhs>> /\ T = <<k, t>>
    OBVIOUS
  <1>4. /\ Q[1] = k /\ Q[2] = Caller.lhs /\ P[1] = k + 1 /\ P[2] = Top.lhs /\ T[1] = k /\ T[2] = t
    BY <1>3, Paired, Zenon
  <1>5. Q \notin B /\ P \notin B /\ P # Q /\ P # T
    <2>1. k # k + 1
      BY Successor
    <2>. QED  BY <1>2, <1>4, <2>1
  <1>6. IsNode(Caller.lhs) => HeldOf(stack) = B \cup {Q} \cup {P}
    BY <1>2, <1>3 DEF HolderOf
  <1>7. ~ IsNode(Caller.lhs) => HeldOf(stack) = B \cup {P}
    BY <1>2, <1>3 DEF HolderOf
  <1>8. Returned(k, B, Q, P, T, t)
    BY <1>2, <1>3, <1>4, <1>5, <1>6, <1>7 DEF Returned
  <1>. QED  BY <1>8, Zenon

\* The node t has the children of q and one more.
Longer(t, q, ref, c) ==
    /\ c = Len(q.children) /\ Len(t.children) = c + 1 /\ c + 1 \in 1 .. c + 1
    /\ t.children[c + 1] = ref
    /\ \A i \in 1 .. c : i \in 1 .. c + 1 /\ t.children[i] = q.children[i]

LEMMA OneChildMore ==
    ASSUME NEW q \in TokenType, NEW ref \in Refs, NEW t, t.children = Append(q.children, ref)
    PROVE  \E c \in Nat : Longer(t, q, ref, c)
  <1>1. PICK x \in Seq(Refs) : x = q.children
    BY TokenFields
  <1>2. PICK c \in Nat : /\ c = Len(x) /\ Len(Append(x, ref)) = c + 1 /\ Append(x, ref)[c + 1] = ref
                         /\ \A i \in 1 .. c : Append(x, ref)[i] = x[i]
    BY AppendFacts
  <1>3. Longer(t, q, ref, c)
    BY <1>1, <1>2 DEF Longer
  <1>. QED  BY <1>3

LEMMA ExtendTree ==
    ASSUME SoundInv, Treelike, ExtendSequence, status' # "not written"
    PROVE  Treelike'
  <1>1. TreeTyped /\ Nested /\ Sound /\ ReturnsTo("extend_sequence") /\ Top.caller = "extend_sequence"
    BY DEF SoundInv, CallsInv, ExtendSequence, ReturnsTo, At
  <1>2. PICK q \in TokenType, p \in TokenType, t \in TokenType : Extended(q, p, t)
    BY <1>1, ExtendEffect
  <1>3. /\ q = Caller.lhs /\ p = Top.lhs /\ HoldOK(q) /\ HoldOK(p)
        /\ q.kind = "SEQ" /\ t.kind = "SEQ" /\ t.value = q.value \o <<Top.tok>> \o p.value
        /\ t.node.number = q.node.number /\ t.parent = NoReference
        /\ t.children = Append(q.children, p.node)
        /\ Put(<<WithParent(p, q.node)>>, CallerGoesOn(t))
    BY <1>2 DEF Extended
  <1>4. ForRhs(Top) /\ Len(stack) > 1
    BY <1>1, ReturnFacts DEF ForRhs
  <1>5. q.node \in Refs /\ p.node \in Refs /\ q.children \in Seq(Refs)
    BY TokenFields
  <1>6. PICK w : w = WithParent(p, q.node) /\ GivenTo(p, q.node, w)
    BY <1>5, Given, Zenon
  <1>7. /\ IsNode(q) /\ IsNode(p) /\ Family(q, Len(output), output) /\ Family(p, Len(output), output)
        /\ Caller.tok < First(q) /\ First(q) < First(p)
        /\ First(p) \in Nat /\ Top.tok \in Nat /\ Top.tok < First(p) /\ Begun(q, output, Top.tok)
        /\ q.value # <<>> /\ q.value \in Seq(Nat)
    BY <1>1, <1>3, <1>4, HeldItem, HeldItems
  <1>8. /\ w \in TokenType /\ w.node = p.node /\ w.children = p.children /\ w.parent = q.node
        /\ Number(w) = Number(p) /\ First(w) = First(p) /\ IsNode(w)
        /\ Family(w, Len(output), output)
    BY <1>6, <1>7 DEF GivenTo
  <1>9. IsNode(t) /\ Number(t) = Number(q)
    BY <1>3, <1>7 DEF IsNode, Number
  <1>10. PICK o \in Seq(TokenType) : o = output
    BY <1>1, Sizes
  <1>11. output' = Append(o, w) /\ stack' = CallerGoesOn(t)
    <2>1. output' = o \o <<w>> /\ stack' = CallerGoesOn(t)
      BY <1>3, <1>6, <1>10 DEF Put
    <2>2. o \o <<w>> = Append(o, w)
      BY <1>8, <1>10, PutOne
    <2>. QED  BY <2>1, <2>2
  <1>12. PICK k \in Nat : \E B, Q, P, T : Returned(k, B, Q, P, T, t)
    BY <1>1, <1>3, <1>4, <1>7, ReturnPairs
  <1>13. PICK B, Q, P, T :
             /\ k = Len(stack) - 1 /\ B = HeldOf(Below2)
             /\ Q[2] = q /\ P[2] = p /\ T = <<k, t>> /\ T[2] = t
             /\ Q \notin B /\ P \notin B /\ P # Q /\ P # T
             /\ HeldOf(stack) = B \cup {Q} \cup {P}
    <2>1. PICK B, Q, P, T : Returned(k, B, Q, P, T, t)
      BY <1>12, Zenon
    <2>2. /\ k = Len(stack) - 1 /\ B = HeldOf(Below2)
          /\ Q[2] = q /\ P[2] = p /\ T = <<k, t>> /\ T[2] = t
          /\ Q \notin B /\ P \notin B /\ P # Q /\ P # T
          /\ HeldOf(stack) = B \cup {Q} \cup {P}
      BY <1>3, <1>7, <2>1 DEF Returned
    <2>. QED  BY <2>2, Zenon
  <1>14. /\ Held(HeldOf(stack)) /\ Rooted(o, HeldOf(stack)) /\ Families(o)
         /\ \A m \in 1 .. Len(o) : Number(o[m]) # Number(p)
    <2>1. Held(HeldOf(stack)) /\ Rooted(o, HeldOf(stack)) /\ Families(o)
      BY <1>1, <1>10, TreeParts
    <2>2. P \in HeldOf(stack)
      BY <1>13
    <2>3. \A m \in 1 .. Len(o) : Number(o[m]) # Number(P[2])
      BY <2>1, <2>2 DEF Rooted, Alone
    <2>. QED  BY <1>13, <2>1, <2>3
  <1>15. PICK c \in Nat : Longer(t, q, p.node, c)
    BY <1>3, <1>5, OneChildMore
  <1>16. Rooted(Append(o, w), B \cup {T})
    <2>. DEFINE two == (HeldOf(stack) \ {Q}) \cup {T}
    <2>1. Rooted(o, two)
      <3>1. Number(T[2]) = Number(Q[2]) /\ IsNode(T[2]) /\ Q \in HeldOf(stack)
        BY <1>9, <1>13
      <3>2. \A i \in 1 .. Len(Q[2].children) : \E j \in 1 .. Len(T[2].children) :
               T[2].children[j] = Q[2].children[i]
        BY <1>13, <1>15 DEF Longer
      <3>. QED  BY <1>14, <3>1, <3>2, RootedChanged
    <2>2. Held(two)
      <3>1. T \in {a \in Nat \X TokenType : IsNode(a[2])}
        BY <1>9, <1>13
      <3>. QED  BY <1>14, <3>1 DEF Held
    <2>3. Mother(t, w)
      <3>1. t.children[c + 1].number = Number(w) /\ Number(t) = w.parent.number
        BY <1>8, <1>9, <1>15 DEF Number, Longer
      <3>. QED  BY <1>9, <1>15, <3>1 DEF Mother, Longer
    <2>4. T \in two \ {P} /\ P \in two
      BY <1>13
    <2>. HIDE DEF two
    <2>5. Rooted(Append(o, w), two \ {P})
      <3>1. w.node = P[2].node /\ w.children = P[2].children /\ Mother(T[2], w)
        BY <1>8, <1>13, <2>3
      <3>. QED  BY <1>8, <2>1, <2>2, <2>4, <3>1, RootedPut
    <2>6. two \ {P} = B \cup {T}
      BY <1>13 DEF two
    <2>. QED  BY <2>5, <2>6
  <1>17. /\ Append(o, w) \in Seq(TokenType) /\ Len(Append(o, w)) = Len(o) + 1
         /\ Begins(o, Append(o, w)) /\ Families(Append(o, w))
    <2>1. Append(o, w) \in Seq(TokenType) /\ Len(Append(o, w)) = Len(o) + 1
      BY <1>8, AppendFacts
    <2>2. Begins(o, Append(o, w))
      BY <1>8, BeginsAppend
    <2>3. Families(Append(o, w))
      BY <1>8, <1>10, <1>14, FamiliesAppend
    <2>. QED  BY <2>1, <2>2, <2>3
  <1>18. Family(t, Len(o) + 1, Append(o, w))
    <2>1. \A m \in 1 .. Len(o) : IsNode(o[m]) => First(o[m]) \in Nat
      BY <1>1, <1>10, PutPlaces
    <2>2. /\ Len(q.children) > 1 /\ Family(q, Len(o), o) /\ Begun(q, o, Top.tok)
          /\ Top.tok < First(w) /\ First(w) \in Nat /\ w.parent.number = Number(q)
          /\ p.node.number = Number(w)
      BY <1>3, <1>7, <1>8, <1>10 DEF HoldOK, Number
    <2>3. \A m \in 1 .. Len(o) : Number(o[m]) # Number(w)
      BY <1>8, <1>14
    <2>. QED  BY <1>3, <1>5, <1>7, <1>8, <1>9, <2>1, <2>2, <2>3, FamilyOfMore
  <1>19. Caller.tok < First(t)
    <2>1. First(t) = First(q)
      <3>1. (q.value \o <<Top.tok>> \o p.value)[1] = q.value[1]
        BY <1>7, FirstJoined
      <3>. QED  BY <1>3, <3>1 DEF First
    <2>. QED  BY <1>7, <2>1
  <1>20. Rooted(output', HeldOf(Below2) \cup {<<Len(stack) - 1, t>>})
    BY <1>11, <1>13, <1>16
  <1>. QED  BY <1>1, <1>4, <1>9, <1>10, <1>11, <1>17, <1>18, <1>19, <1>20, ReturnTree

\* The call for what is in a bracket is made where nothing is held, and what it
\* holds in the end is after the bracket and so after what is around it.
LEMMA InBracket ==
    ASSUME TreeTyped, Nested, Sound, Treelike, ReturnsTo("parenthetic_handler"), HoldOK(Top.lhs)
    PROVE  ~ IsNode(Caller.lhs) /\ Caller.tok < First(Top.lhs)
  <1>1. /\ Len(stack) > 1 /\ Calls(Caller, Top) /\ FrameOK(Caller) /\ Caller \in FrameType
        /\ Top.caller = "parenthetic_handler"
    BY ReturnFacts
  <1>2. Caller.lhs = NoToken
    BY <1>1 DEF Calls, FrameOK
  <1>3. Caller.tok < Top.tok
    <2>1. Below \in Seq(FrameType) /\ Top \in FrameType /\ Bracketed(Append(Below, Top))
      BY StackFacts, TreeParts
    <2>2. Below = Append(Below2, Caller) /\ Below2 \in Seq(FrameType)
      BY <1>1, CallerFacts
    <2>3. Below # <<>> /\ Below[Len(Below)] = Caller
      BY <1>1, <2>2, AppendFacts
    <2>. QED  BY <1>1, <2>1, <2>3, BracketedFront
  <1>4. First(Top.lhs) \in Nat /\ Top.tok \in Nat /\ Top.tok < First(Top.lhs) /\ Caller.tok \in Nat
    BY <1>1, HeldItem, FrameFields
  <1>5. Caller.tok < First(Top.lhs)
    BY <1>3, <1>4
  <1>. QED  BY <1>2, <1>5, NoNodes

LEMMA SingleTree ==
    ASSUME SoundInv, Treelike, CloseSingle, status' # "not written"
    PROVE  Treelike'
  <1>1. TreeTyped /\ Nested /\ Sound /\ ReturnsTo("parenthetic_handler")
    BY DEF SoundInv, CallsInv, CloseSingle, ReturnsTo, At
  <1>2. PICK p \in TokenType, t \in TokenType, n \in Nat : Single(p, t, n)
    BY <1>1, SingleEffect
  <1>3. /\ p = Top.lhs /\ HoldOK(p) /\ n = node_counter + 1
        /\ t.value = p.value /\ t.node.number = n /\ t.children = <<p.node>>
        /\ Put(<<WithParent(p, Reference(n, n))>>, CallerGoesOn(t))
    BY <1>2 DEF Single
  <1>4. Len(stack) > 1
    BY <1>1, ReturnFacts
  <1>5. PICK ref \in Refs : ref = Reference(n, n) /\ ref.number = n
    BY OneToRefer
  <1>6. PICK w : w = WithParent(p, ref) /\ GivenTo(p, ref, w)
    BY Given, Zenon
  <1>7. /\ IsNode(p) /\ Family(p, Len(output), output) /\ ~ IsNode(Caller.lhs)
        /\ Caller.tok < First(p)
    BY <1>1, <1>3, HeldItem, InBracket
  <1>8. /\ w \in TokenType /\ w.node = p.node /\ w.children = p.children /\ w.parent = ref
        /\ Number(w) = Number(p) /\ IsNode(w) /\ Family(w, Len(output), output)
    BY <1>6, <1>7 DEF GivenTo
  <1>9. IsNode(t) /\ Number(t) = n
    <2>1. PICK c \in Nat : c = node_counter /\ n = c + 1
      BY <1>1, <1>3, Sizes
    <2>2. n # 0
      BY <2>1, Successor
    <2>. QED  BY <1>3, <2>2 DEF IsNode, Number
  <1>10. PICK o \in Seq(TokenType) : o = output
    BY <1>1, Sizes
  <1>11. output' = Append(o, w) /\ stack' = CallerGoesOn(t)
    <2>1. output' = o \o <<w>> /\ stack' = CallerGoesOn(t)
      BY <1>3, <1>5, <1>6, <1>10 DEF Put
    <2>2. o \o <<w>> = Append(o, w)
      BY <1>8, <1>10, PutOne
    <2>. QED  BY <2>1, <2>2
  <1>12. PICK k \in Nat : \E B, Q, P, T : Returned(k, B, Q, P, T, t)
    BY <1>1, <1>3, <1>4, <1>7, ReturnPairs
  <1>13. PICK B, P, T :
             /\ k = Len(stack) - 1 /\ B = HeldOf(Below2)
             /\ P[2] = p /\ T = <<k, t>> /\ T[2] = t
             /\ P \notin B /\ P # T
             /\ HeldOf(stack) = B \cup {P}
    <2>1. PICK B, Q, P, T : Returned(k, B, Q, P, T, t)
      BY <1>12, Zenon
    <2>2. /\ k = Len(stack) - 1 /\ B = HeldOf(Below2)
          /\ P[2] = p /\ T = <<k, t>> /\ T[2] = t
          /\ P \notin B /\ P # T
          /\ HeldOf(stack) = B \cup {P}
      BY <1>3, <1>7, <2>1 DEF Returned
    <2>. QED  BY <2>2, Zenon
  <1>14. /\ Held(HeldOf(stack)) /\ Rooted(o, HeldOf(stack)) /\ Families(o)
         /\ \A m \in 1 .. Len(o) : Number(o[m]) # n
         /\ \A a \in HeldOf(stack) : Number(a[2]) # n
    BY <1>1, <1>3, <1>10, TreeParts, NextNumber
  <1>15. Rooted(Append(o, w), B \cup {T})
    <2>. DEFINE two == HeldOf(stack) \cup {T}
    <2>1. Rooted(o, two) /\ Held(two)
      <3>1. T \in {a \in Nat \X TokenType : IsNode(a[2])}
        BY <1>9, <1>13
      <3>. QED  BY <1>9, <1>13, <1>14, <3>1, RootedNew DEF Held
    <2>2. Mother(t, w)
      <3>1. HasOne(<<p.node>>, p.node)
        BY OneChild, Zenon
      <3>2. HasOne(t.children, p.node)
        BY <1>3, <3>1, Zenon
      <3>3. w.parent.number = Number(t) /\ p.node.number = Number(w)
        BY <1>5, <1>8, <1>9 DEF Number
      <3>. QED  BY <1>9, <3>2, <3>3 DEF Mother, HasOne
    <2>3. T \in two \ {P} /\ P \in two
      BY <1>13
    <2>. HIDE DEF two
    <2>4. Rooted(Append(o, w), two \ {P})
      <3>1. w.node = P[2].node /\ w.children = P[2].children /\ Mother(T[2], w)
        BY <1>8, <1>13, <2>2
      <3>. QED  BY <1>8, <2>1, <2>3, <3>1, RootedPut
    <2>5. two \ {P} = B \cup {T}
      BY <1>13 DEF two
    <2>. QED  BY <2>4, <2>5
  <1>16. /\ Append(o, w) \in Seq(TokenType) /\ Len(Append(o, w)) = Len(o) + 1
         /\ Begins(o, Append(o, w)) /\ Families(Append(o, w))
    <2>1. Append(o, w) \in Seq(TokenType) /\ Len(Append(o, w)) = Len(o) + 1
      BY <1>8, AppendFacts
    <2>2. Begins(o, Append(o, w))
      BY <1>8, BeginsAppend
    <2>3. Families(Append(o, w))
      BY <1>8, <1>10, <1>14, FamiliesAppend
    <2>. QED  BY <2>1, <2>2, <2>3
  <1>17. Family(t, Len(o) + 1, Append(o, w))
    <2>1. w.parent.number = Number(t) /\ p.node.number = Number(w)
      BY <1>5, <1>8, <1>9 DEF Number
    <2>. QED  BY <1>3, <1>8, <2>1, FamilyOfOne
  <1>18. Caller.tok < First(t)
    BY <1>3, <1>7 DEF First
  <1>19. Rooted(output', HeldOf(Below2) \cup {<<Len(stack) - 1, t>>})
    BY <1>11, <1>13, <1>15
  <1>. QED  BY <1>1, <1>4, <1>9, <1>10, <1>11, <1>16, <1>17, <1>18, <1>19, ReturnTree

LEMMA ClosedTree ==
    ASSUME SoundInv, Treelike, CloseSequence
    PROVE  Treelike'
  <1>1. TreeTyped /\ Nested /\ Sound /\ ReturnsTo("parenthetic_handler")
    BY DEF SoundInv, CallsInv, CloseSequence, ReturnsTo, At
  <1>2. PICK p \in TokenType, t \in TokenType : Closed(p, t)
    BY <1>1, ClosedEffect
  <1>3. /\ p = Top.lhs /\ HoldOK(p) /\ p.kind = "SEQ"
        /\ t.value = p.value /\ t.node = p.node
        /\ Permuted(Refs, t.children, p.children)
        /\ t.children = p.children \/ (t.kind \in {"WHILE", "IF"} /\ ~ deterministic)
        /\ stack' = CallerGoesOn(t) /\ output' = output
    BY <1>2 DEF Closed
  <1>4. Len(stack) > 1
    BY <1>1, ReturnFacts
  <1>5. /\ IsNode(p) /\ Family(p, Len(output), output) /\ ~ IsNode(Caller.lhs)
        /\ Caller.tok < First(p)
    BY <1>1, <1>3, HeldItem, InBracket
  <1>6. IsNode(t) /\ Number(t) = Number(p) /\ First(t) = First(p)
    BY <1>3, <1>5 DEF IsNode, Number, First
  <1>7. PICK o \in Seq(TokenType) : o = output
    BY <1>1, Sizes
  <1>8. PICK k \in Nat : \E B, Q, P, T : Returned(k, B, Q, P, T, t)
    BY <1>1, <1>3, <1>4, <1>5, ReturnPairs
  <1>9. PICK B, P, T :
             /\ k = Len(stack) - 1 /\ B = HeldOf(Below2)
             /\ P[2] = p /\ T = <<k, t>> /\ T[2] = t
             /\ P \notin B
             /\ HeldOf(stack) = B \cup {P}
    <2>1. PICK B, Q, P, T : Returned(k, B, Q, P, T, t)
      BY <1>8, Zenon
    <2>2. /\ k = Len(stack) - 1 /\ B = HeldOf(Below2)
          /\ P[2] = p /\ T = <<k, t>> /\ T[2] = t
          /\ P \notin B
          /\ HeldOf(stack) = B \cup {P}
      BY <1>3, <1>5, <2>1 DEF Returned
    <2>. QED  BY <2>2, Zenon
  <1>10. Held(HeldOf(stack)) /\ Rooted(o, HeldOf(stack)) /\ Families(o)
    BY <1>1, <1>7, TreeParts
  <1>11. Rooted(o, B \cup {T})
    <2>1. \A i \in 1 .. Len(p.children) : \E j \in 1 .. Len(t.children) :
               t.children[j] = p.children[i]
      <3>1. PICK f : Orders(f, t.children, p.children) /\ Len(t.children) = Len(p.children)
        BY <1>3 DEF Permuted
      <3>2. ASSUME NEW i \in 1 .. Len(p.children)
            PROVE  \E j \in 1 .. Len(t.children) : t.children[j] = p.children[i]
        <4>1. PICK j \in 1 .. Len(t.children) : f[j] = i
          BY <3>1 DEF Orders
        <4>2. t.children[j] = p.children[i]
          BY <3>1, <4>1 DEF Orders
        <4>. QED  BY <4>2
      <3>. QED  BY <3>2
    <2>2. Number(T[2]) = Number(P[2]) /\ IsNode(T[2]) /\ P \in HeldOf(stack)
      BY <1>6, <1>9
    <2>3. Rooted(o, (HeldOf(stack) \ {P}) \cup {T})
      BY <1>9, <1>10, <2>1, <2>2, RootedChanged
    <2>4. (HeldOf(stack) \ {P}) \cup {T} = B \cup {T}
      BY <1>9
    <2>. QED  BY <2>3, <2>4
  <1>12. Family(t, Len(o), o)
    BY <1>3, <1>5, <1>6, <1>7, FamilyOfSame DEF Shuffled
  <1>13. Begins(o, o)
    <2>1. PICK m \in Nat : m = Len(o) /\ m <= m
      BY LenProperties
    <2>. QED  BY <2>1 DEF Begins
  <1>14. Rooted(output', HeldOf(Below2) \cup {<<Len(stack) - 1, t>>})
    BY <1>3, <1>7, <1>9, <1>11
  <1>. QED  BY <1>1, <1>3, <1>4, <1>5, <1>6, <1>7, <1>10, <1>12, <1>13, <1>14, ReturnTree

\* The nodes put and held are related as they should be, unless a token was not
\* written.
TreeInv == SoundInv /\ (status # "not written" => Treelike)

LEMMA TreeInit == Init => TreeInv
  <1>. SUFFICES ASSUME Init PROVE TreeInv
    OBVIOUS
  <1>1. SoundInv
    BY SoundInit
  <1>2. PICK g : g = Frame("pass", 0, "least")
    OBVIOUS
  <1>3. FrameIs(g, "pass", 0, "least")
    <2>1. "pass" \in Callers /\ 0 \in Nat /\ "least" \in {"least", "NJUX"}
      BY DEF Callers
    <2>. QED  BY <1>2, <2>1, NewFrame
  <1>4. g \in FrameType /\ ~ IsNode(g.lhs)
    BY <1>3, NoNodes DEF FrameIs
  <1>5. stack = <<g>> /\ output = <<>>
    BY <1>2 DEF Init
  <1>6. HeldOf(<<g>>) = {}
    <2>1. <<>> \in Seq(FrameType) /\ <<g>> = Append(<<>>, g)
      BY EmptySeq, AppendToNone
    <2>2. HeldOf(<<g>>) = HeldOf(<<>>) \cup HolderOf(Len(<<>>) + 1, g)
      BY <1>4, <2>1, HeldAppend
    <2>3. HeldOf(<<>>) = {}
      BY OfNone DEF HeldOf
    <2>. QED  BY <1>4, <2>2, <2>3 DEF HolderOf
  <1>7. Rooted(<<>>, {}) /\ Families(<<>>)
    BY OfNone DEF Rooted, Alone, Raised, Families
  <1>8. <<g>> \in Seq(TreeFrame(<<>>))
    <2>1. g \in TreeFrame(<<>>)
      BY <1>4 DEF TreeFrame, Placed
    <2>. QED  BY <2>1, OneInSeq
  <1>9. Bracketed(<<g>>)
    BY OfOne DEF Bracketed
  <1>10. Treelike
    BY <1>5, <1>6, <1>7, <1>8, <1>9 DEF Treelike
  <1>. QED  BY <1>1, <1>10 DEF TreeInv

LEMMA TreeStep == TreeInv /\ [Next]_vars => TreeInv'
  <1>. SUFFICES ASSUME TreeInv, [Next]_vars PROVE TreeInv'
    OBVIOUS
  <1>1. SoundInv /\ SoundInv'
    BY SoundStep DEF TreeInv
  <1>2. ASSUME stack' = stack, output' = output, Treelike PROVE Treelike'
    BY <1>2 DEF Treelike
  <1>3. ASSUME Next PROVE Treelike
    <2>1. status = "running"
      BY <1>3 DEF Next, ReadToken, PassThrough, ReferenceHandler, OpenBracket, DefaultHandler,
                  LeftDenotation, ConsumeExtra, EndSequence, CallForRhs, StartSequence,
                  ExtendSequence, CloseSequence, CloseSingle, CloseError, PutRoot, PutEof,
                  ReturnsTo, At
    <2>. QED  BY <2>1 DEF TreeInv
  <1>4. ASSUME Next, status' # "not written" PROVE Treelike'
    <2>1. Treelike
      BY <1>3, <1>4
    <2>2. CASE ReadToken \/ DefaultHandler \/ ConsumeExtra \/ CloseError
      BY <1>2, <2>1, <2>2 DEF ReadToken, DefaultHandler, ConsumeExtra, CloseError
    <2>3. CASE \/ PassThrough \/ ReferenceHandler \/ OpenBracket \/ LeftDenotation
               \/ EndSequence \/ CallForRhs
      BY <1>1, <2>1, <2>3, PassThroughTree, ReferenceTree, OpenBracketTree, LeftDenotationTree,
         EndSequenceTree, CallForRhsTree
    <2>4. CASE StartSequence \/ ExtendSequence
      BY <1>1, <1>4, <2>1, <2>4, StartTree, ExtendTree
    <2>5. CASE CloseSequence \/ CloseSingle \/ PutRoot \/ PutEof
      BY <1>1, <1>4, <2>1, <2>5, ClosedTree, SingleTree, PutRootTree, PutEofTree
    <2>. QED  BY <1>4, <2>2, <2>3, <2>4, <2>5 DEF Next
  <1>5. CASE UNCHANGED vars
    <2>1. stack' = stack /\ output' = output /\ status' = status
      BY <1>5 DEF vars
    <2>. QED  BY <1>1, <1>2, <2>1 DEF TreeInv
  <1>. QED  BY <1>1, <1>4, <1>5 DEF TreeInv

-------------------------------------------------------------------------------
\* The nodes among the tokens, in the same order.

NodeOf == [t \in TokenType |-> IF IsNode(t) THEN <<t>> ELSE <<>>]

\* The sequence c has the nodes of s, at the places that e tells.
Selects(e, c, s) ==
    /\ \A i \in 1 .. Len(c) : e[i] \in 1 .. Len(s) /\ c[i] = s[e[i]] /\ IsNode(c[i])
    /\ \A i, j \in 1 .. Len(c) : i < j => e[i] < e[j]
    /\ \A m \in 1 .. Len(s) : IsNode(s[m]) => \E i \in 1 .. Len(c) : e[i] = m

Selected(s) == \E e : Selects(e, FlatMap(NodeOf, s), s)

LEMMA NodeYields ==
    /\ Yields(NodeOf, TokenType, TokenType)
    /\ \A t \in TokenType : NodeOf[t] = IF IsNode(t) THEN <<t>> ELSE <<>>
  BY EmptySeq DEF Yields, NodeOf

LEMMA SelectsOther ==
    ASSUME NEW s \in Seq(TokenType), NEW c \in Seq(TokenType), NEW e, Selects(e, c, s),
           NEW t \in TokenType, ~ IsNode(t)
    PROVE  Selects(e, c, Append(s, t))
  <1>. DEFINE more == Append(s, t)
  <1>1. PICK n \in Nat : /\ n = Len(s) /\ Len(more) = n + 1 /\ more[n + 1] = t
                         /\ \A k \in 1 .. n : more[k] = s[k]
    BY AppendFacts
  <1>. HIDE DEF more
  <1>2. \A m \in 1 .. n + 1 : m \in 1 .. n \/ m = n + 1
    OBVIOUS
  <1>3. \A m \in 1 .. n : m \in 1 .. n + 1
    OBVIOUS
  <1>4. \A i \in 1 .. Len(c) : e[i] \in 1 .. n + 1 /\ c[i] = more[e[i]] /\ IsNode(c[i])
    BY <1>1, <1>3 DEF Selects
  <1>5. \A m \in 1 .. n + 1 : IsNode(more[m]) => \E i \in 1 .. Len(c) : e[i] = m
    BY <1>1, <1>2 DEF Selects
  <1>6. \A i, j \in 1 .. Len(c) : i < j => e[i] < e[j]
    BY DEF Selects
  <1>. QED  BY <1>1, <1>4, <1>5, <1>6 DEF Selects, more

LEMMA SelectsNode ==
    ASSUME NEW s \in Seq(TokenType), NEW c \in Seq(TokenType), NEW e, Selects(e, c, s),
           NEW t \in TokenType, IsNode(t)
    PROVE  \E f : Selects(f, Append(c, t), Append(s, t))
  <1>. DEFINE more == Append(s, t)
              d == Append(c, t)
  <1>1. PICK n \in Nat : /\ n = Len(s) /\ Len(more) = n + 1 /\ more[n + 1] = t
                         /\ \A k \in 1 .. n : more[k] = s[k]
    BY AppendFacts
  <1>2. PICK r \in Nat : /\ r = Len(c) /\ Len(d) = r + 1 /\ d[r + 1] = t
                         /\ \A k \in 1 .. r : d[k] = c[k]
    BY AppendFacts
  <1>. HIDE DEF more, d
  <1>3. PICK f : f = [i \in 1 .. r + 1 |-> IF i = r + 1 THEN n + 1 ELSE e[i]]
    OBVIOUS
  <1>4. /\ \A m \in 1 .. n + 1 : m \in 1 .. n \/ m = n + 1
        /\ \A i \in 1 .. r + 1 : i \in 1 .. r \/ i = r + 1
        /\ n + 1 \in 1 .. n + 1 /\ r + 1 \in 1 .. r + 1
        /\ \A m \in 1 .. n : m \in 1 .. n + 1 /\ m < n + 1
        /\ \A i \in 1 .. r : i \in 1 .. r + 1 /\ i # r + 1 /\ ~ (r + 1 < i)
    OBVIOUS
  <1>5. f[r + 1] = n + 1 /\ \A i \in 1 .. r : f[i] = e[i]
    BY <1>3, <1>4
  <1>6. \A i \in 1 .. r : e[i] \in 1 .. n /\ c[i] = s[e[i]] /\ IsNode(c[i])
    BY <1>1, <1>2 DEF Selects
  <1>7. \A i \in 1 .. r + 1 : f[i] \in 1 .. n + 1 /\ d[i] = more[f[i]] /\ IsNode(d[i])
    <2>1. \A i \in 1 .. r : f[i] \in 1 .. n + 1 /\ d[i] = more[f[i]] /\ IsNode(d[i])
      BY <1>1, <1>2, <1>4, <1>5, <1>6
    <2>2. f[r + 1] \in 1 .. n + 1 /\ d[r + 1] = more[f[r + 1]] /\ IsNode(d[r + 1])
      BY <1>1, <1>2, <1>4, <1>5
    <2>. QED  BY <1>4, <2>1, <2>2
  <1>8. \A i, j \in 1 .. r + 1 : i < j => f[i] < f[j]
    <2>. SUFFICES ASSUME NEW i \in 1 .. r + 1, NEW j \in 1 .. r + 1, i < j PROVE f[i] < f[j]
      OBVIOUS
    <2>1. i \in 1 .. r
      OBVIOUS
    <2>2. CASE j \in 1 .. r
      <3>1. e[i] < e[j]
        BY <1>2, <2>1, <2>2 DEF Selects
      <3>. QED  BY <1>5, <2>1, <2>2, <3>1
    <2>3. CASE j = r + 1
      <3>1. e[i] < n + 1
        BY <1>4, <1>6, <2>1
      <3>. QED  BY <1>5, <2>1, <2>3, <3>1
    <2>. QED  BY <1>4, <2>2, <2>3
  <1>9. \A m \in 1 .. n + 1 : IsNode(more[m]) => \E i \in 1 .. r + 1 : f[i] = m
    <2>1. ASSUME NEW m \in 1 .. n, IsNode(more[m]) PROVE \E i \in 1 .. r + 1 : f[i] = m
      <3>1. IsNode(s[m])
        BY <1>1, <2>1
      <3>2. PICK i \in 1 .. r : e[i] = m
        BY <1>1, <1>2, <3>1 DEF Selects
      <3>. QED  BY <1>4, <1>5, <3>2
    <2>2. \E i \in 1 .. r + 1 : f[i] = n + 1
      BY <1>4, <1>5
    <2>. QED  BY <1>4, <2>1, <2>2
  <1>10. Selects(f, d, more)
    BY <1>1, <1>2, <1>7, <1>8, <1>9 DEF Selects
  <1>. QED  BY <1>10 DEF d, more

LEMMA SelectsAll == \A s \in Seq(TokenType) : Selected(s)
  <1>. DEFINE S == {s \in Seq(TokenType) : Selected(s)}
  <1>0. \A s : s \in S <=> s \in Seq(TokenType) /\ Selected(s)
    OBVIOUS
  <1>. HIDE DEF S
  <1>1. <<>> \in S
    <2>1. FlatMap(NodeOf, <<>>) = <<>>
      BY FlatMapEmpty
    <2>2. \A e : Selects(e, <<>>, <<>>)
      BY OfNone DEF Selects
    <2>. QED  BY <1>0, <2>1, <2>2, EmptySeq DEF Selected
  <1>2. ASSUME NEW s \in Seq(TokenType), NEW t \in TokenType, s \in S PROVE Append(s, t) \in S
    <2>1. PICK c \in Seq(TokenType) : c = FlatMap(NodeOf, s)
      BY NodeYields, FlatMapType
    <2>2. PICK e : Selects(e, c, s)
      BY <1>0, <1>2, <2>1 DEF Selected
    <2>3. FlatMap(NodeOf, Append(s, t)) = c \o NodeOf[t]
      <3>1. Yields(NodeOf, TokenType, TokenType)
        BY NodeYields
      <3>2. FlatMap(NodeOf, Append(s, t)) = FlatMap(NodeOf, s) \o NodeOf[t]
        BY <3>1, FlatMapAppend
      <3>. QED  BY <2>1, <3>2
    <2>4. Append(s, t) \in Seq(TokenType)
      BY AppendFacts
    <2>5. CASE IsNode(t)
      <3>1. FlatMap(NodeOf, Append(s, t)) = c \o <<t>>
        BY <2>3, <2>5, NodeYields
      <3>2. c \o <<t>> = Append(c, t)
        BY PutOne
      <3>3. \E f : Selects(f, Append(c, t), Append(s, t))
        BY <2>2, <2>5, SelectsNode
      <3>. QED  BY <1>0, <2>4, <3>1, <3>2, <3>3 DEF Selected
    <2>6. CASE ~ IsNode(t)
      <3>1. FlatMap(NodeOf, Append(s, t)) = c \o <<>>
        BY <2>3, <2>6, NodeYields
      <3>2. c \o <<>> = c
        BY ConcatEmptySeq
      <3>3. Selects(e, c, Append(s, t))
        BY <2>2, <2>6, SelectsOther
      <3>. QED  BY <1>0, <2>4, <3>1, <3>2, <3>3 DEF Selected
    <2>. QED  BY <2>5, <2>6
  <1>3. \A s \in Seq(TokenType) : s \in S
    <2>1. \A s \in Seq(TokenType), t \in TokenType : s \in S => Append(s, t) \in S
      BY <1>2
    <2>. QED  BY <1>1, <2>1, SeqInduction
  <1>. QED  BY <1>0, <1>3

\* The places of two nodes are in the order of the nodes.
LEMMA InOrderOf ==
    ASSUME NEW e, NEW c \in Seq(TokenType), NEW s \in Seq(TokenType), Selects(e, c, s)
    PROVE  \A i, j \in 1 .. Len(c) : /\ e[i] = e[j] => i = j
                                     /\ e[i] < e[j] => i < j
  <1>. SUFFICES ASSUME NEW i \in 1 .. Len(c), NEW j \in 1 .. Len(c)
                PROVE  (e[i] = e[j] => i = j) /\ (e[i] < e[j] => i < j)
    OBVIOUS
  <1>1. /\ e[i] \in 1 .. Len(s) /\ e[j] \in 1 .. Len(s)
        /\ i < j => e[i] < e[j]
        /\ j < i => e[j] < e[i]
    BY DEF Selects
  <1>2. PICK a \in Int, b \in Int : a = e[i] /\ b = e[j]
    <2>1. Len(s) \in Nat
      BY LenProperties
    <2>. QED  BY <1>1, <2>1
  <1>3. i \in Int /\ j \in Int
    <2>1. Len(c) \in Nat
      BY LenProperties
    <2>. QED  BY <2>1
  <1>. QED  BY <1>1, <1>2, <1>3

-------------------------------------------------------------------------------
\* Those that are put and those that are held are one forest.

LEMMA TogetherAre ==
    ASSUME TreeTyped, Sound, Treelike
    PROVE  LET W == output \o Pending
           IN  /\ W \in Seq(SoundToken) /\ W \in Seq(TokenType)
               /\ Rooted(W, {}) /\ Families(W)
  <1>. DEFINE W == output \o Pending
  <1>1. PICK n \in Nat, d \in Nat : /\ n = Len(output) /\ d = Len(stack) /\ d = Len(Pending)
                                    /\ \A k \in 1 .. d : Pending[k] = stack[k].lhs
    BY Sizes, PendingFacts, StackFacts
  <1>2. output \in Seq(SoundToken) /\ Pending \in Seq(SoundToken)
    <2>1. \A k \in 1 .. d : Pending[k] \in SoundToken
      BY <1>1, SoundParts DEF SoundFrame
    <2>2. Pending \in [1 .. d -> SoundToken]
      <3>1. Pending \in [1 .. d -> TokenType]
        BY <1>1, PendingFacts, LenProperties
      <3>. QED  BY <2>1, <3>1
    <2>3. Pending \in Seq(SoundToken)
      BY <2>2
    <2>. QED  BY <2>3 DEF Sound
  <1>3. /\ W \in Seq(SoundToken) /\ Len(W) = n + d
        /\ \A m \in 1 .. n : W[m] = output[m]
        /\ \A k \in 1 .. d : W[n + k] = stack[k].lhs
    <2>1. /\ W \in Seq(SoundToken) /\ Len(W) = n + d
          /\ \A m \in 1 .. n + d : W[m] = IF m <= n THEN output[m] ELSE Pending[m - n]
      BY <1>1, <1>2, ConcatProperties
    <2>2. \A m \in 1 .. n : m \in 1 .. n + d /\ m <= n
      OBVIOUS
    <2>3. \A k \in 1 .. d : n + k \in 1 .. n + d /\ ~ (n + k <= n) /\ (n + k) - n = k
      OBVIOUS
    <2>. QED  BY <1>1, <2>1, <2>2, <2>3
  <1>. HIDE DEF W
  <1>4. W \in Seq(TokenType)
    <2>1. SoundToken \subseteq TokenType
      BY HeldNode
    <2>. QED  BY <1>3, <2>1, SeqMonotone
  <1>5. ASSUME NEW m \in 1 .. n + d PROVE m \in 1 .. n \/ \E k \in 1 .. d : m = n + k
    <2>1. m \in 1 .. n \/ (m - n \in 1 .. d /\ m = n + (m - n))
      OBVIOUS
    <2>. QED  BY <2>1
  <1>6. \A m \in 1 .. n : m \in 1 .. n + d
    OBVIOUS
  <1>7. /\ \A m, l \in 1 .. n : IsNode(output[m]) /\ Number(output[m]) = Number(output[l]) => m = l
        /\ \A a, b \in HeldOf(stack) : Number(a[2]) = Number(b[2]) => a = b
        /\ \A m \in 1 .. n, a \in HeldOf(stack) : Number(output[m]) # Number(a[2])
    BY <1>1 DEF Treelike, Rooted, Alone
  <1>8. ASSUME NEW k \in 1 .. d, IsNode(stack[k].lhs)
        PROVE  \E a \in HeldOf(stack) : a = <<k, stack[k].lhs>> /\ a[1] = k /\ a[2] = stack[k].lhs
    <2>1. <<k, stack[k].lhs>> \in HeldOf(stack)
      BY <1>1, <1>8 DEF HeldOf
    <2>. QED  BY <2>1, Paired
  <1>9. \A t, u : Number(t) = Number(u) => (IsNode(t) <=> IsNode(u))
    BY DEF Number, IsNode
  <1>10. ASSUME NEW m \in 1 .. n + d, NEW l \in 1 .. n + d,
                IsNode(W[m]), Number(W[m]) = Number(W[l])
         PROVE  m = l
    <2>0. IsNode(W[l])
      BY <1>9, <1>10
    <2>1. CASE m \in 1 .. n /\ l \in 1 .. n
      BY <1>3, <1>7, <1>10, <2>1
    <2>2. CASE m \in 1 .. n /\ \E k \in 1 .. d : l = n + k
      <3>1. PICK k \in 1 .. d : l = n + k
        BY <2>2
      <3>2. PICK a \in HeldOf(stack) : a[2] = stack[k].lhs
        BY <1>3, <1>8, <2>0, <3>1
      <3>3. Number(output[m]) = Number(a[2])
        BY <1>3, <1>10, <2>2, <3>1, <3>2
      <3>. QED  BY <1>7, <2>2, <3>3
    <2>3. CASE l \in 1 .. n /\ \E k \in 1 .. d : m = n + k
      <3>1. PICK k \in 1 .. d : m = n + k
        BY <2>3
      <3>2. PICK a \in HeldOf(stack) : a[2] = stack[k].lhs
        BY <1>3, <1>8, <1>10, <3>1
      <3>3. Number(output[l]) = Number(a[2])
        BY <1>3, <1>10, <2>3, <3>1, <3>2
      <3>. QED  BY <1>7, <2>3, <3>3
    <2>4. CASE (\E k \in 1 .. d : m = n + k) /\ (\E k \in 1 .. d : l = n + k)
      <3>1. PICK k \in 1 .. d : m = n + k
        BY <2>4
      <3>2. PICK j \in 1 .. d : l = n + j
        BY <2>4
      <3>3. PICK a \in HeldOf(stack) : a[1] = k /\ a[2] = stack[k].lhs
        BY <1>3, <1>8, <1>10, <3>1
      <3>4. PICK b \in HeldOf(stack) : b[1] = j /\ b[2] = stack[j].lhs
        BY <1>3, <1>8, <2>0, <3>2
      <3>5. Number(a[2]) = Number(b[2])
        BY <1>3, <1>10, <3>1, <3>2, <3>3, <3>4
      <3>6. a = b
        BY <1>7, <3>5
      <3>. QED  BY <3>1, <3>2, <3>3, <3>4, <3>6
    <2>. QED  BY <1>5, <2>1, <2>2, <2>3, <2>4
  <1>11. Alone(W, {})
    BY <1>3, <1>10 DEF Alone
  <1>12. ASSUME NEW m \in 1 .. n + d, HasParent(W[m])
         PROVE  \E l \in m + 1 .. n + d : Mother(W[l], W[m])
    <2>1. m \in 1 .. n
      <3>1. ASSUME NEW k \in 1 .. d PROVE ~ HasParent(stack[k].lhs)
        BY <1>1, SoundParts DEF SoundFrame, HasParent
      <3>. QED  BY <1>3, <1>5, <1>12, <3>1
    <2>2. W[m] = output[m] /\ HasParent(output[m])
      BY <1>3, <1>12, <2>1
    <2>3. CASE \E l \in m + 1 .. n : Mother(output[l], output[m])
      <3>1. PICK l \in m + 1 .. n : Mother(output[l], output[m])
        BY <2>3
      <3>2. l \in 1 .. n /\ l \in m + 1 .. n + d
        BY <2>1
      <3>. QED  BY <1>3, <2>2, <3>1, <3>2
    <2>4. CASE \E a \in HeldOf(stack) : Mother(a[2], output[m])
      <3>1. PICK a \in HeldOf(stack) : Mother(a[2], output[m])
        BY <2>4
      <3>2. PICK k \in 1 .. d : a = <<k, stack[k].lhs>>
        BY <1>1 DEF HeldOf
      <3>3. a[2] = stack[k].lhs
        BY <3>2, Paired
      <3>4. n + k \in m + 1 .. n + d
        BY <2>1
      <3>. QED  BY <1>3, <2>2, <3>1, <3>3, <3>4
    <2>. QED  BY <1>1, <2>1, <2>2, <2>3, <2>4 DEF Treelike, Rooted, Raised
  <1>13. Raised(W, {})
    BY <1>3, <1>12 DEF Raised
  <1>14. ASSUME NEW m \in 1 .. n + d PROVE Family(W[m], m - 1, W)
    <2>1. CASE m \in 1 .. n
      <3>1. Family(output[m], m - 1, output)
        BY <1>1, <2>1 DEF Treelike, Families
      <3>2. m - 1 \in Nat /\ m - 1 <= m - 1 /\ \A k \in 1 .. m - 1 : k \in 1 .. n
        BY <2>1
      <3>3. W[m] = output[m] /\ \A k \in 1 .. m - 1 : W[k] = output[k]
        BY <1>3, <2>1, <3>2
      <3>. QED  BY <3>1, <3>2, <3>3, FamilyKept
    <2>2. ASSUME NEW k \in 1 .. d, m = n + k PROVE Family(W[m], m - 1, W)
      <3>1. W[m] = stack[k].lhs /\ stack[k] \in SoundFrame
        BY <1>1, <1>3, <2>2, SoundParts
      <3>2. CASE IsNode(W[m])
        <4>1. stack[k] \in TreeFrame(output)
          BY <1>1, ElementOfSeq DEF Treelike
        <4>2. Family(W[m], n, output)
          BY <1>1, <3>1, <3>2, <4>1 DEF TreeFrame, Placed
        <4>3. m - 1 \in Nat /\ n <= m - 1
          BY <2>2
        <4>4. \A j \in 1 .. n : W[j] = output[j]
          BY <1>3
        <4>. QED  BY <4>2, <4>3, <4>4, FamilyKept
      <3>3. CASE ~ IsNode(W[m])
        <4>1. NotNode(W[m])
          BY <3>1, <3>3, HeldNode DEF SoundFrame, SoundToken, IsNode
        <4>. QED  BY <4>1, Childless DEF NotNode
      <3>. QED  BY <3>2, <3>3
    <2>. QED  BY <1>5, <2>1, <2>2
  <1>15. Families(W)
    BY <1>3, <1>14 DEF Families
  <1>. QED  BY <1>3, <1>4, <1>11, <1>13, <1>15 DEF Rooted, W

\* The nodes that are selected from such tokens are a forest.
LEMMA SelectedForest ==
    ASSUME NEW W \in Seq(SoundToken), W \in Seq(TokenType), Rooted(W, {}), Families(W),
           NEW c \in Seq(TokenType), NEW e, Selects(e, c, W)
    PROVE  Forest(c)
  <1>1. PICK n \in Nat, N \in Nat : n = Len(c) /\ N = Len(W) /\ DOMAIN c = 1 .. n
    BY LenProperties
  <1>2. \A i \in 1 .. n : e[i] \in 1 .. N /\ c[i] = W[e[i]] /\ IsNode(c[i])
    BY <1>1 DEF Selects
  <1>3. \A i, j \in 1 .. n : (e[i] = e[j] => i = j) /\ (e[i] < e[j] => i < j)
    BY <1>1, InOrderOf
  <1>4. \A m \in 1 .. N : IsNode(W[m]) => \E i \in 1 .. n : e[i] = m
    BY <1>1 DEF Selects
  <1>5. \A m, l \in 1 .. N : IsNode(W[m]) /\ Number(W[m]) = Number(W[l]) => m = l
    BY <1>1 DEF Rooted, Alone
  <1>6. ASSUME NEW i \in 1 .. n
        PROVE  /\ c[i] \in TokenType /\ c[i].children \in Seq(Refs)
               /\ DOMAIN c[i].children = 1 .. Len(c[i].children)
               /\ Family(c[i], e[i] - 1, W) /\ NodeOK(c[i])
    <2>1. c[i] \in TokenType /\ c[i].children \in Seq(Refs)
      BY <1>1, ElementOfSeq, TokenFields
    <2>2. DOMAIN c[i].children = 1 .. Len(c[i].children)
      BY <2>1, LenProperties
    <2>3. Family(c[i], e[i] - 1, W)
      BY <1>1, <1>2 DEF Families
    <2>4. c[i] \in SoundToken
      BY <1>1, <1>2, ElementOfSeq
    <2>5. NodeOK(c[i])
      BY <1>2, <2>4, HeldNode DEF IsNode
    <2>. QED  BY <2>1, <2>2, <2>3, <2>5
  <1>7. \A i, j \in 1 .. n : Number(c[i]) = Number(c[j]) => i = j
    <2>. SUFFICES ASSUME NEW i \in 1 .. n, NEW j \in 1 .. n, Number(c[i]) = Number(c[j])
                  PROVE  i = j
      OBVIOUS
    <2>1. e[i] \in 1 .. N /\ e[j] \in 1 .. N /\ IsNode(W[e[i]]) /\ Number(W[e[i]]) = Number(W[e[j]])
      BY <1>2
    <2>2. e[i] = e[j]
      BY <1>5, <2>1
    <2>. QED  BY <1>3, <2>2
  <1>8. ASSUME NEW i \in 1 .. n, NEW m \in 1 .. e[i] - 1, IsNode(W[m])
        PROVE  \E k \in 1 .. i - 1 : k \in 1 .. n /\ c[k] = W[m]
    <2>1. PICK p \in Nat : p = e[i] /\ p \in 1 .. N
      BY <1>2
    <2>2. m \in 1 .. N /\ m < p
      BY <2>1
    <2>3. PICK k \in 1 .. n : e[k] = m
      BY <1>4, <1>8, <2>2
    <2>4. k < i /\ c[k] = W[m]
      BY <1>2, <1>3, <2>1, <2>2, <2>3
    <2>5. k \in 1 .. i - 1
      BY <2>4
    <2>. QED  BY <2>4, <2>5
  <1>9. NumberedOnce(c)
    BY <1>1, <1>7 DEF NumberedOnce, Number
  <1>10. ChildrenBefore(c)
    <2>1. ASSUME NEW i \in 1 .. n, NEW j \in 1 .. Len(c[i].children)
          PROVE  \E k \in 1 .. i - 1 : /\ c[k].node.number = c[i].children[j].number
                                       /\ c[k].parent.number = c[i].node.number
      <3>1. PICK m \in 1 .. e[i] - 1 :
               ChildAt(W, m, c[i].children[j]) /\ W[m].parent.number = Number(c[i])
        BY <1>6 DEF Family
      <3>2. PICK k \in 1 .. i - 1 : c[k] = W[m]
        BY <1>8, <3>1 DEF ChildAt
      <3>. QED  BY <3>1, <3>2 DEF ChildAt, Number
    <2>2. ASSUME NEW i \in DOMAIN c, NEW j \in DOMAIN c[i].children
          PROVE  \E k \in 1 .. i - 1 : /\ c[k].node.number = c[i].children[j].number
                                       /\ c[k].parent.number = c[i].node.number
      <3>1. i \in 1 .. n /\ j \in 1 .. Len(c[i].children)
        BY <1>1, <1>6, <2>2
      <3>. QED  BY <2>1, <3>1, Zenon
    <2>. QED  BY <2>2, Zenon DEF ChildrenBefore
  <1>11. AmongChildren(c)
    <2>1. ASSUME NEW m \in 1 .. n, c[m].parent # NoReference
          PROVE  \E i \in m + 1 .. n :
                   /\ c[i].node.number = c[m].parent.number
                   /\ Cardinality({j \in DOMAIN c[i].children :
                                     c[i].children[j].number = c[m].node.number}) = 1
      <3>1. PICK p \in Nat : p = e[m] /\ p \in 1 .. N /\ c[m] = W[p] /\ HasParent(W[p])
        BY <1>2, <2>1 DEF HasParent
      <3>2. PICK l \in p + 1 .. N : Mother(W[l], W[p])
        BY <1>1, <3>1 DEF Rooted, Raised
      <3>3. l \in 1 .. N /\ p < l /\ IsNode(W[l])
        BY <3>1, <3>2 DEF Mother
      <3>4. PICK i \in 1 .. n : e[i] = l
        BY <1>4, <3>3
      <3>5. m < i
        BY <1>3, <3>1, <3>3, <3>4
      <3>6. i \in m + 1 .. n
        BY <3>5
      <3>7. c[i] = W[l]
        BY <1>2, <3>4
      <3>8. Number(c[i]) = c[m].parent.number
        BY <3>1, <3>2, <3>7 DEF Mother
      <3>9. PICK j \in 1 .. Len(c[i].children) : c[i].children[j].number = Number(c[m])
        BY <3>1, <3>2, <3>7 DEF Mother
      <3>10. \A k \in 1 .. Len(c[i].children) :
                c[i].children[k].number = c[i].children[j].number => k = j
        BY <1>6 DEF Family
      <3>11. {k \in DOMAIN c[i].children : c[i].children[k].number = c[m].node.number} = {j}
        BY <1>6, <3>9, <3>10 DEF Number
      <3>12. Cardinality({j}) = 1
        BY FS_Singleton
      <3>. QED  BY <3>6, <3>8, <3>11, <3>12 DEF Number
    <2>. QED  BY <1>1, <2>1 DEF AmongChildren
  <1>12. \A i \in DOMAIN c : ChildrenOfKind(c[i])
    BY <1>1, <1>6 DEF NodeOK, ChildrenOfKind
  <1>13. InOrder(c)
    <2>1. ASSUME NEW i \in 1 .. n, ~ Shuffled(c[i]),
                 NEW j \in 1 .. Len(c[i].children) - 1, NEW k \in 1 .. n, NEW l \in 1 .. n,
                 c[k].node.number = c[i].children[j].number,
                 c[l].node.number = c[i].children[j + 1].number
          PROVE  c[k].value[1] < c[l].value[1]
      <3>1. PICK a \in 1 .. e[i] - 1, b \in 1 .. e[i] - 1 :
               /\ ChildAt(W, a, c[i].children[j]) /\ ChildAt(W, b, c[i].children[j + 1])
               /\ First(W[a]) < First(W[b])
        BY <1>6, <2>1 DEF Family
      <3>2. PICK g \in 1 .. i - 1 : g \in 1 .. n /\ c[g] = W[a]
        BY <1>8, <3>1 DEF ChildAt
      <3>3. PICK h \in 1 .. i - 1 : h \in 1 .. n /\ c[h] = W[b]
        BY <1>8, <3>1 DEF ChildAt
      <3>4. Number(c[g]) = Number(c[k]) /\ Number(c[h]) = Number(c[l])
        BY <2>1, <3>1, <3>2, <3>3 DEF ChildAt, Number
      <3>5. g = k /\ h = l
        BY <1>7, <3>2, <3>3, <3>4
      <3>. QED  BY <3>1, <3>2, <3>3, <3>5 DEF First
    <2>2. \A i \in 1 .. n : \/ Shuffled(c[i])
                            \/ \A j \in 1 .. Len(c[i].children) - 1 : \A k \in 1 .. n : \A l \in 1 .. n :
                                  /\ c[k].node.number = c[i].children[j].number
                                  /\ c[l].node.number = c[i].children[j + 1].number
                                  => c[k].value[1] < c[l].value[1]
      BY <2>1
    <2>. QED  BY <1>1, <2>2 DEF InOrder, Shuffled
  <1>. QED  BY <1>9, <1>10, <1>11, <1>12, <1>13 DEF Forest

LEMMA TreeMeans == TreeInv => TreeOK
  <1>. SUFFICES ASSUME TreeInv, status # "not written" PROVE Forest(Nodes)
    BY DEF TreeOK
  <1>1. TreeTyped /\ Sound /\ Treelike
    BY DEF TreeInv, SoundInv, CallsInv
  <1>2. PICK W : W = output \o Pending
    OBVIOUS
  <1>3. W \in Seq(SoundToken) /\ W \in Seq(TokenType) /\ Rooted(W, {}) /\ Families(W)
    BY <1>1, <1>2, TogetherAre
  <1>4. Nodes = FlatMap(NodeOf, W)
    <2>1. \A n \in DOMAIN W : W[n] \in TokenType
      BY <1>3, ElementOfSeq, LenProperties
    <2>. QED  BY <1>2, <2>1 DEF Nodes, Chosen, FlatMap, Mapped, NodeOf
  <1>5. FlatMap(NodeOf, W) \in Seq(TokenType)
    BY <1>3, NodeYields, FlatMapType
  <1>6. PICK e : Selects(e, FlatMap(NodeOf, W), W)
    BY <1>3, SelectsAll DEF Selected
  <1>. QED  BY <1>3, <1>4, <1>5, <1>6, SelectedForest

\* The nodes put and held are a forest at every step at which all tokens could
\* be put: each has a number of its own, was put after its children, which refer
\* to it, and has each of them once; a sequence has the children that shuffle_SEQ
\* takes for granted, in the order of the source if they were not shuffled.
THEOREM TreesAreForests == Spec => []TreeOK
  <1>1. Init => TreeInv
    BY TreeInit
  <1>2. TreeInv /\ [Next]_vars => TreeInv'
    BY TreeStep
  <1>3. TreeInv => TreeOK
    BY TreeMeans
  <1>. QED  BY <1>1, <1>2, <1>3, PTL DEF Spec

===============================================================================
