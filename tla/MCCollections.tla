---------------------------- MODULE MCCollections -----------------------------
(***************************************************************************)
(* Clients of the persistent collections of libhiha, for TLC.  The         *)
(* collections share no state, so that calls of several of them can be     *)
(* told apart: a behaviour calls those of one kind.                        *)
(*                                                                         *)
(* Deques have indices of five values, so that they wrap around at each    *)
(* place.  Of the seven keys of maps some have hashes that agree in one,   *)
(* two or three bits, and the trees that hold them need every rotation.    *)
(* Sets have three members, two with hashes that agree in two bits.        *)
(* Vectors have blocks of two entries and up to four levels, or blocks of  *)
(* four and three levels.                                                  *)
(***************************************************************************)
EXTENDS IndexedDequeClient, Maps, Sets, Vectors

VARIABLE kind           \* the kind of collection that is called

collectionVars == <<kind, clientVars, mapVars, setVars, vectorVars>>

InitCollections ==
    /\ kind \in {"deque", "maps", "sets", "vectors"}
    /\ DequeInit
    /\ InitMaps
    /\ InitSets
    /\ InitVectors
    /\ kind # "maps" => order = "ascending"
    /\ kind # "vectors" => bits = CHOOSE b \in BlockBits : TRUE

NextCollections ==
    /\ \/ kind = "deque" /\ DequeNext /\ UNCHANGED <<mapVars, setVars, vectorVars>>
       \/ kind = "maps" /\ NextMaps /\ UNCHANGED <<clientVars, setVars, vectorVars>>
       \/ kind = "sets" /\ NextSets /\ UNCHANGED <<clientVars, mapVars, vectorVars>>
       \/ kind = "vectors" /\ NextVectors /\ UNCHANGED <<clientVars, mapVars, setVars>>
    /\ UNCHANGED kind

SpecCollections == InitCollections /\ [][NextCollections]_collectionVars

-------------------------------------------------------------------------------

\* Each representation keeps the form that its operations rely on, whatever the
\* operations before were: a deque has its elements at consecutive indices, tries
\* are as short as they can be, trees are balanced and in order, and the blocks
\* of vectors are dense.
StructuresOK ==
    /\ DequeTypeOK
    /\ MapStructuresOK
    /\ SetStructuresOK
    /\ VectorStructureOK

-------------------------------------------------------------------------------
\* Values of the constants.

MCHash ==
    <<<<0, 0, 1>>, <<0, 1, 0>>, <<0, 1, 1>>, <<0, 1, 1>>, <<1, 0, 0>>, <<1, 0, 0>>>>

MCKeys == 0 .. 6

MCKeyHash == [k \in MCKeys |-> IF k = 0 THEN <<0, 0, 0>> ELSE MCHash[k]]

MCMembers == 0 .. 2

MCMemberHash == [e \in MCMembers |-> <<<<0, 0>>, <<0, 0>>, <<1, 0>>>>[e + 1]]

MCEntry(key, id) == [key |-> key, id |-> id]

MCEntries == {MCEntry(0, 0), MCEntry(1, 1), MCEntry(1, 2)}

MCZero == MCEntry(0, 0)

MCLong == [n \in 1 .. 21 |-> IF n % 3 = 0 THEN MCZero ELSE MCEntry(1, 1 + (n % 2))]

MCMaxLength == [b \in {1, 2} |-> IF b = 1 THEN 13 ELSE 21]
===============================================================================
