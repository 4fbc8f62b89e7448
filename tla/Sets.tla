--------------------------------- MODULE Sets ---------------------------------
(***************************************************************************)
(* A client of the sets of HashSet that keeps three of them.  Values are   *)
(* immutable, so any of them may be an argument again.                     *)
(***************************************************************************)
EXTENDS Integers, Sequences, FiniteSets

CONSTANTS
    Members,            \* the elements: unsigned integers
    MemberHash          \* the first bits of the hashes of each of Members

ASSUME MembersAssumption ==
    /\ Members \subseteq Nat
    /\ MemberHash \in [Members -> Seq({0, 1})]
    /\ \A j, k \in Members : Len(MemberHash[j]) = Len(MemberHash[k])

LOCAL INSTANCE SequencesExt

\* The hashes of different elements differ in the end.
MemberHashBit(e, i) ==
    IF i < Len(MemberHash[e])
    THEN MemberHash[e][i + 1]
    ELSE (e \div 2 ^ (i - Len(MemberHash[e]))) % 2

S == INSTANCE HashSet WITH HashBit <- MemberHashBit

Registers == 1 .. 3

VARIABLES
    sets,               \* the sets that the client holds
    subsets,            \* the sets that they stand for
    crashed             \* a NULL pointer was followed

setVars == <<sets, subsets, crashed>>

-------------------------------------------------------------------------------

InitSets ==
    /\ sets = [r \in Registers |-> S!NullSet]
    /\ subsets = [r \in Registers |-> {}]
    /\ crashed = FALSE

CallAdjoinElement(r, e) ==
    /\ sets' = [sets EXCEPT ![r] = S!SetAdjoin(@, e)]
    /\ subsets' = [subsets EXCEPT ![r] = @ \cup {e}]
    /\ UNCHANGED crashed

CallDeleteElement(r, e) ==
    /\ sets' = [sets EXCEPT ![r] = S!SetDelete(@, e)]
    /\ subsets' = [subsets EXCEPT ![r] = @ \ {e}]
    /\ UNCHANGED crashed

\* A register gets a result, or the process ends.
ReturnSet(r, result, subset) ==
    IF result = S!Crash
    THEN /\ crashed' = TRUE
         /\ UNCHANGED <<sets, subsets>>
    ELSE /\ sets' = [sets EXCEPT ![r] = result]
         /\ subsets' = [subsets EXCEPT ![r] = subset]
         /\ UNCHANGED crashed

CallUnion(r, p, q) ==
    ReturnSet(r, S!Union(<<sets[p], sets[q]>>), subsets[p] \cup subsets[q])

CallDifference(r, p, q) ==
    ReturnSet(r, S!Difference(<<sets[p], sets[q]>>), subsets[p] \ subsets[q])

CallSymmetricDifference(r, p, q) ==
    ReturnSet(r, S!SymmetricDifference(sets[p], sets[q]),
           (subsets[p] \ subsets[q]) \cup (subsets[q] \ subsets[p]))

CallIntersection(r, p, q) ==
    ReturnSet(r, S!Intersection(<<sets[p], sets[q]>>), subsets[p] \cap subsets[q])

NextSets ==
    /\ ~ crashed
    /\ \E r \in Registers :
        \/ \E e \in Members : CallAdjoinElement(r, e) \/ CallDeleteElement(r, e)
        \/ \E p, q \in Registers :
            \/ CallUnion(r, p, q)
            \/ CallDifference(r, p, q)
            \/ CallSymmetricDifference(r, p, q)
            \/ CallIntersection(r, p, q)

-------------------------------------------------------------------------------
(***************************************************************************)
(* Properties                                                              *)
(***************************************************************************)

\* The tries of the sets are as short as they can be, their sizes are right,
\* and the set without elements is NULL.
SetStructuresOK == \A r \in Registers : S!SetOK(sets[r])

\* The arguments of the operations that take any number of sets.
Arguments == UNION {[1 .. n -> Registers] : n \in 1 .. 3}

\* The sets have the elements of the sets they stand for, whichever operations
\* made them; and each comparison and intersection of up to three of them,
\* empty ones and the same one twice included, is that of set theory, as are a
\* union and a difference that return.
SetsAgree ==
    /\ \A r \in Registers :
        /\ ToSet(S!SetElements(sets[r])) = subsets[r]
        /\ S!SetSize(sets[r]) = Cardinality(subsets[r])
    /\ \A args \in Arguments :
        LET list == [n \in DOMAIN args |-> sets[args[n]]]
            sub == [n \in DOMAIN args |-> subsets[args[n]]]
            Chain(Related(_, _)) == \A n \in 1 .. Len(sub) - 1 : Related(sub[n], sub[n + 1])
        IN  /\ S!Equal(list) = Chain(LAMBDA s, u : s = u)
            /\ S!Subset(list) = Chain(LAMBDA s, u : s \subseteq u)
            /\ S!ProperSubset(list) = Chain(LAMBDA s, u : s \subseteq u /\ s # u)
            /\ S!Superset(list) = Chain(LAMBDA s, u : u \subseteq s)
            /\ S!ProperSuperset(list) = Chain(LAMBDA s, u : u \subseteq s /\ s # u)
            /\ LET common == S!Intersection(list)
               IN  /\ S!SetOK(common)
                   /\ ToSet(S!SetElements(common)) =
                        {e \in Members : \A n \in DOMAIN sub : e \in sub[n]}
            /\ LET union == S!Union(list)
               IN  union # S!Crash =>
                    /\ S!SetOK(union)
                    /\ ToSet(S!SetElements(union)) = UNION ToSet(sub)
            /\ LET difference == S!Difference(list)
               IN  difference # S!Crash =>
                    /\ S!SetOK(difference)
                    /\ ToSet(S!SetElements(difference)) = sub[1] \ UNION ToSet(Tail(sub))

\* NULL is the empty set (the assertions of the tests for intersection and for
\* subsets take it for that), so it is an argument like any other.
EmptySetIsArgument == ~ crashed
===============================================================================
