------------------------------ MODULE Hiha_proofs ------------------------------
(***************************************************************************)
(* Proofs about the passes, the registry of passes and the whole program,  *)
(* for any plugins, command lines, passes and source tokens.               *)
(*                                                                         *)
(* None of the invariants of the passes is inductive alone: that a pass    *)
(* reads what the passes before it made rests on what every earlier step   *)
(* of the loop left on the disk.  IInv says, for each place the program    *)
(* can be at, which roots there are and what is in them.                   *)
(*                                                                         *)
(* That a variable holds the handler that was there before the last entry  *)
(* that saves into it rests on the tables: at every moment each slot holds *)
(* what was put last for it (TablesAgree).  The program does the steps of  *)
(* both its parts, so that what holds of each of them holds of it.         *)
(*                                                                         *)
(* What the plugins of src/plugins do comes last.  Each pass is of one of  *)
(* them, and the numbers of the passes put each after those that make its  *)
(* kinds of token; that holds of every set of plugins, since the place of  *)
(* a pass is the number of those before it (Ranks).                        *)
(***************************************************************************)
EXTENDS Hiha, FiniteSetTheorems, TLAPS

-------------------------------------------------------------------------------
\* The passes.


Live == {r \in Roots : disk[r].state \in {"open", "closed"}}

\* What a pass reads, what it leaves, and what do_pratt_passes returns.
SourceReady == Finished(disk[fn_root1], i, selected)
OutputReady == Finished(disk[fn_root2], i + 1, selected)
FinalReady == Finished(disk[final_filename_root], n_vec, selected)

\* What holds before the loop, while root 0 is written and when it is.
NothingDone == i = 0 /\ fn_root1 = 0 /\ error_message = FALSE
NoFiles == Live = {}
ScanOpen == disk[0].state = "open" /\ disk[0].passes = <<>> /\ Live \subseteq {0}
ScanWhole == disk[0].eof = TRUE

\* What holds at the head of the loop.
BetweenPasses == error_message = FALSE => SourceReady /\ Live \subseteq {fn_root1}

\* The output of a pass while it is made, when it is whole, when it is closed,
\* and when it is all there is.
InTheMaking ==
    /\ i < n_vec /\ fn_root2 = i + 1 /\ error_message = FALSE
    /\ SourceReady
    /\ disk[fn_root2].state = "open"
    /\ WentThrough(disk[fn_root2].passes, i + 1, selected)
    /\ Live \subseteq {fn_root1, fn_root2}

OutputWhole == disk[fn_root2].eof = TRUE

SourceWhole == disk[fn_root1].short = FALSE

OutputMade ==
    /\ i < n_vec /\ fn_root2 = i + 1 /\ error_message = FALSE
    /\ OutputReady
    /\ Live \subseteq {fn_root1, fn_root2}

PassOver ==
    /\ i < n_vec /\ fn_root2 = i + 1
    /\ error_message = FALSE => OutputReady /\ Live \subseteq {fn_root2}

\* What holds when do_pratt_passes has returned.
PassesOver == error_message = FALSE => i = n_vec /\ FinalReady

StatusTold == status = "success" => error_message = FALSE /\ i = n_vec

TwoLive == \E a, b \in Roots : Live \subseteq {a, b}

Places == {"begin", "start", "scan", "close scan", "next", "pass", "close getter",
           "close putter", "remove", "end of pass", "return", "exiting",
           "exited", "not removed", "killed"}

AtPlace ==
    /\ pc \in {"begin", "start", "scan", "close scan"} => NothingDone
    /\ pc \in {"begin", "start"} => NoFiles
    /\ pc \in {"scan", "close scan"} => ScanOpen
    /\ pc = "close scan" => ScanWhole
    /\ pc = "next" => BetweenPasses
    /\ pc \in {"pass", "close getter", "close putter"} => InTheMaking
    /\ pc \in {"close getter", "close putter"} => OutputWhole /\ SourceWhole
    /\ pc = "remove" => OutputMade
    /\ pc = "end of pass" => PassOver
    /\ pc = "return" => PassesOver

\* The inductive invariant.
IInv ==
    /\ TypeOK
    /\ pc \in Places
    /\ AtPlace
    /\ StatusTold
    /\ TwoLive

-------------------------------------------------------------------------------

\* One more selected pass, and one that is left out.
LEMMA AppendPass ==
    ASSUME NEW passes \in Seq(Passes), NEW n \in 0 .. NVec - 1,
           selected \in [Passes -> BOOLEAN], WentThrough(passes, n, selected)
    PROVE  /\ selected[n + 1] => /\ WentThrough(Append(passes, n + 1), n + 1, selected)
                                 /\ Append(passes, n + 1) \in Seq(Passes)
           /\ ~ selected[n + 1] => WentThrough(passes, n + 1, selected)
  <1> DEFINE Seen(s) == {s[k] : k \in DOMAIN s}
             Chosen(m) == {p \in 1 .. m : selected[p]}
             more == Append(passes, n + 1)
  <1>1. n + 1 \in Passes /\ n \in Nat
    BY NVecAssumption DEF Passes
  <1>2. Seen(passes) = Chosen(n) /\ \A k, l \in DOMAIN passes : k < l => passes[k] < passes[l]
    BY DEF WentThrough
  <1>3. CASE selected[n + 1]
    <2>1. /\ more \in Seq(Passes)
          /\ Len(more) = Len(passes) + 1
          /\ DOMAIN more = 1 .. Len(passes) + 1
          /\ DOMAIN passes = 1 .. Len(passes)
          /\ Len(passes) \in Nat
      BY <1>1
    <2>2. /\ \A k \in DOMAIN passes : more[k] = passes[k]
          /\ more[Len(passes) + 1] = n + 1
      BY <1>1
    <2>3. Chosen(n + 1) = Chosen(n) \cup {n + 1}
      BY <1>1, <1>3
    <2>4. Seen(more) = Seen(passes) \cup {n + 1}
      BY <2>1, <2>2
    <2>5. \A k \in DOMAIN passes : passes[k] <= n /\ passes[k] \in Int
      <3> SUFFICES ASSUME NEW k \in DOMAIN passes
                   PROVE  passes[k] <= n /\ passes[k] \in Int
        OBVIOUS
      <3>1. passes[k] \in Seen(passes)
        OBVIOUS
      <3> QED BY <3>1, <1>2, <1>1
    <2>6. \A k, l \in DOMAIN more : k < l => more[k] < more[l]
      <3> SUFFICES ASSUME NEW k \in DOMAIN more, NEW l \in DOMAIN more, k < l
                   PROVE  more[k] < more[l]
        OBVIOUS
      <3>1. k \in DOMAIN passes
        BY <2>1
      <3>2. CASE l = Len(passes) + 1
        <4>1. passes[k] <= n /\ passes[k] \in Int
          BY <3>1, <2>5
        <4> QED BY <4>1, <3>1, <3>2, <2>2, <1>1
      <3>3. CASE l # Len(passes) + 1
        BY <3>1, <3>3, <2>1, <2>2, <1>2
      <3> QED BY <3>2, <3>3
    <2> QED BY <1>2, <1>3, <2>1, <2>3, <2>4, <2>6 DEF WentThrough
  <1>4. CASE ~ selected[n + 1]
    <2>1. Chosen(n + 1) = Chosen(n)
      BY <1>1, <1>4
    <2> QED BY <1>2, <1>4, <2>1 DEF WentThrough
  <1> QED BY <1>3, <1>4

LEMMA AbsentIsFile == Absent \in Files
  <1>1. <<>> \in Seq(Passes)
    OBVIOUS
  <1> QED BY <1>1 DEF Absent, Files

\* The first state satisfies the invariant.
LEMMA InitIInv == Init => IInv
  <1> SUFFICES ASSUME Init PROVE IInv
    OBVIOUS
  <1>1. Absent \in Files
    BY AbsentIsFile
  <1>2. TypeOK
    <2>1. disk \in [Roots -> Files]
      BY <1>1 DEF Init
    <2>2. unread \in Nat
      BY MaxTokensAssumption DEF Init
    <2>3. /\ n_vec \in 0 .. NVec /\ i \in 0 .. n_vec /\ fn_root1 \in 0 .. i
          /\ fn_root2 \in Roots /\ final_filename_root \in Roots
      BY NVecAssumption DEF Init, Roots, RootOf
    <2> QED BY <2>1, <2>2, <2>3 DEF Init, TypeOK
  <1>3. Live = {}
    BY DEF Init, Live, Absent
  <1>4. 0 \in Roots
    BY NVecAssumption DEF Roots
  <1> QED BY <1>2, <1>3, <1>4 
          DEF Init, IInv, Places, AtPlace, NothingDone, NoFiles, StatusTold,
              TwoLive, RootOf

-------------------------------------------------------------------------------

\* What the steps do to the files of a root.

LEMMA FileFields ==
    ASSUME TypeOK, NEW r \in Roots
    PROVE  /\ disk[r] \in Files
           /\ disk[r].passes \in Seq(Passes)
           /\ disk[r].tokens \in Nat
           /\ disk[r].state \in {"absent", "open", "closed", "file of tokens"}
  BY DEF TypeOK, Files

\* No root appears, none disappears and none loses its EOF token.
SameFiles ==
    \A r \in Roots : /\ disk'[r].state = disk[r].state
                     /\ disk'[r].passes = disk[r].passes
                     /\ disk[r].eof => disk'[r].eof

\* The records of files that the steps make.

LEMMA MoreTokens ==
    ASSUME NEW f \in Files, NEW n \in Nat
    PROVE  \E g \in Files : /\ g = [f EXCEPT !.tokens = @ + n]
                           /\ g.state = f.state /\ g.passes = f.passes
                           /\ g.eof = f.eof
  <1>1. f.tokens \in Nat
    BY DEF Files
  <1>2. PICK t \in Nat : t = f.tokens + n
    BY <1>1
  <1> DEFINE g == [f EXCEPT !.tokens = t]
  <1>3. g \in Files
    BY DEF Files
  <1>4. g.state = f.state /\ g.passes = f.passes /\ g.eof = f.eof
    BY DEF Files
  <1>5. g = [f EXCEPT !.tokens = @ + n]
    BY <1>2
  <1> HIDE DEF g
  <1> QED BY <1>3, <1>4, <1>5

LEMMA WithEof ==
    ASSUME NEW f \in Files
    PROVE  \E g \in Files : /\ g = [f EXCEPT !.eof = TRUE]
                           /\ g.state = f.state /\ g.passes = f.passes
                           /\ g.eof
  <1> DEFINE g == [f EXCEPT !.eof = TRUE]
  <1>1. g \in Files
    BY DEF Files
  <1>2. g.state = f.state /\ g.passes = f.passes /\ g.eof
    BY DEF Files
  <1> HIDE DEF g
  <1> QED BY <1>1, <1>2 DEF g

LEMMA WhenClosed ==
    ASSUME NEW f \in Files, NEW short \in BOOLEAN
    PROVE  \E g \in Files : /\ g = [f EXCEPT !.state = "closed", !.short = short]
                           /\ g.state = "closed" /\ g.passes = f.passes
                           /\ g.eof = f.eof
  <1> DEFINE g == [f EXCEPT !.state = "closed", !.short = short]
  <1>1. g \in Files
    BY DEF Files
  <1>2. g.state = "closed" /\ g.passes = f.passes /\ g.eof = f.eof
    BY DEF Files
  <1> HIDE DEF g
  <1> QED BY <1>1, <1>2 DEF g

LEMMA WhenRemoved ==
    ASSUME NEW left \in {"absent", "file of tokens"}
    PROVE  \E g \in Files : g = [Absent EXCEPT !.state = left] /\ g.state = left
  <1> DEFINE g == [Absent EXCEPT !.state = left]
  <1>1. Absent \in Files
    BY AbsentIsFile
  <1>2. left \in {"absent", "open", "closed", "file of tokens"}
    OBVIOUS
  <1>3. g \in Files
    BY <1>1, <1>2 DEF Files
  <1>4. g.state = left
    BY <1>1 DEF Files
  <1> HIDE DEF g
  <1> QED BY <1>3, <1>4 DEF g

LEMMA PutFacts ==
    ASSUME TypeOK, NEW root \in Roots, NEW n \in Nat, disk' = Put(root, n)
    PROVE  disk' \in [Roots -> Files] /\ SameFiles
  <1>1. disk[root] \in Files /\ disk \in [Roots -> Files]
    BY FileFields DEF TypeOK
  <1>2. PICK g \in Files : /\ g = [disk[root] EXCEPT !.tokens = @ + n]
                          /\ g.state = disk[root].state
                          /\ g.passes = disk[root].passes
                          /\ g.eof = disk[root].eof
    BY <1>1, MoreTokens
  <1>3. disk' = [disk EXCEPT ![root] = g]
    BY <1>2 DEF Put
  <1> QED BY <1>1, <1>2, <1>3 DEF SameFiles

LEMMA PutEofFacts ==
    ASSUME TypeOK, NEW root \in Roots, disk' = PutEof(root)
    PROVE  disk' \in [Roots -> Files] /\ SameFiles /\ disk'[root].eof
  <1>1. disk[root] \in Files /\ disk \in [Roots -> Files]
    BY FileFields DEF TypeOK
  <1>2. PICK g \in Files : /\ g = [disk[root] EXCEPT !.eof = TRUE]
                          /\ g.state = disk[root].state
                          /\ g.passes = disk[root].passes
                          /\ g.eof
    BY <1>1, WithEof
  <1>3. disk' = [disk EXCEPT ![root] = g]
    BY <1>2 DEF PutEof
  <1> QED BY <1>1, <1>2, <1>3 DEF SameFiles

LEMMA SameFilesKeep ==
    ASSUME TypeOK, SameFiles, selected' = selected
    PROVE  /\ Live' = Live
           /\ \A r \in Roots, n \in Nat :
                Finished(disk[r], n, selected) => Finished(disk'[r], n, selected')
  BY DEF SameFiles, Live, Finished

LEMMA CloseFacts ==
    ASSUME TypeOK, NEW root \in Roots, NEW short \in BOOLEAN,
           disk' = ClosePutter(root, short), disk[root].state = "open"
    PROVE  /\ disk' \in [Roots -> Files]
           /\ \A r \in Roots \ {root} : disk'[r] = disk[r]
           /\ disk'[root].state = "closed"
           /\ disk'[root].passes = disk[root].passes
           /\ disk'[root].eof = disk[root].eof
           /\ Live' = Live
  <1>1. disk[root] \in Files /\ disk \in [Roots -> Files]
    BY FileFields DEF TypeOK
  <1>2. PICK g \in Files : /\ g = [disk[root] EXCEPT !.state = "closed", !.short = short]
                          /\ g.state = "closed"
                          /\ g.passes = disk[root].passes
                          /\ g.eof = disk[root].eof
    BY <1>1, WhenClosed
  <1>3. disk' = [disk EXCEPT ![root] = g]
    BY <1>2 DEF ClosePutter
  <1> QED BY <1>1, <1>2, <1>3 DEF Live

\* A root is removed, or only its file of tokens is left.
LEMMA RemoveFacts ==
    ASSUME TypeOK, NEW root \in Roots, NEW left \in {"absent", "file of tokens"},
           disk' = [disk EXCEPT ![root] = [Absent EXCEPT !.state = left]]
    PROVE  /\ disk' \in [Roots -> Files]
           /\ \A r \in Roots \ {root} : disk'[r] = disk[r]
           /\ Live' = Live \ {root}
  <1>1. disk \in [Roots -> Files]
    BY DEF TypeOK
  <1>2. disk[root] \in Files
    BY <1>1
  <1>3. PICK g \in Files : g = [Absent EXCEPT !.state = left] /\ g.state = left
    BY <1>2, WhenRemoved
  <1>4. disk' = [disk EXCEPT ![root] = g]
    BY <1>3
  <1> QED BY <1>1, <1>3, <1>4 DEF Live

LEMMA CreateFacts ==
    ASSUME TypeOK, NEW root \in Roots, NEW passes \in Seq(Passes),
           disk' = [disk EXCEPT ![root] = Created(passes)]
    PROVE  /\ disk' \in [Roots -> Files]
           /\ \A r \in Roots \ {root} : disk'[r] = disk[r]
           /\ disk'[root].state = "open"
           /\ disk'[root].passes = passes
           /\ Live' = Live \cup {root}
  <1>1. disk \in [Roots -> Files]
    BY DEF TypeOK
  <1>2. /\ Created(passes) \in Files
        /\ Created(passes).state = "open"
        /\ Created(passes).passes = passes
    BY DEF Created, Absent, Files
  <1> QED BY <1>1, <1>2 DEF Live

-------------------------------------------------------------------------------

\* Every step of the program keeps the invariant.

LEMMA InvFacts ==
    ASSUME IInv
    PROVE  /\ TypeOK
           /\ 0 \in Roots
           /\ i \in Nat /\ n_vec \in 0 .. NVec /\ n_vec \in Nat
           /\ fn_root1 \in Roots /\ fn_root2 \in Roots /\ final_filename_root \in Roots
           /\ fn_root1 # i + 1
           /\ selected \in [Passes -> BOOLEAN]
           /\ disk \in [Roots -> Files]
           /\ disk[fn_root1].passes \in Seq(Passes)
           /\ disk[fn_root1].tokens \in Nat
           /\ i < n_vec => i + 1 \in Roots /\ i \in 0 .. NVec - 1 /\ i + 1 \in Passes
  <1>1. TypeOK
    BY DEF IInv
  <1>2. fn_root1 \in Roots /\ 0 \in Roots /\ i \in Nat
    BY <1>1, NVecAssumption DEF TypeOK, Roots
  <1>3. disk[fn_root1].passes \in Seq(Passes) /\ disk[fn_root1].tokens \in Nat
    BY <1>1, <1>2, FileFields
  <1>4. fn_root1 # i + 1
    BY <1>1, <1>2 DEF TypeOK
  <1>5. i < n_vec => i + 1 \in Roots /\ i \in 0 .. NVec - 1 /\ i + 1 \in Passes
    BY <1>1, <1>2, NVecAssumption DEF TypeOK, Roots, Passes
  <1> QED BY <1>1, <1>2, <1>3, <1>4, <1>5, NVecAssumption DEF TypeOK

LEMMA GetTablesStep ==
    ASSUME IInv, GetTables
    PROVE  IInv'
  <1>1. /\ TypeOK /\ NothingDone /\ NoFiles /\ StatusTold /\ TwoLive
        /\ pc = "begin" /\ n_vec' \in 0 .. NVec /\ n_vec' \in Nat
    BY NVecAssumption DEF IInv, AtPlace, GetTables
  <1>2. i' \in 0 .. n_vec' /\ fn_root1' \in 0 .. i'
    BY <1>1 DEF GetTables, passVars, NothingDone
  <1>3. TypeOK'
    BY <1>1, <1>2 DEF TypeOK, GetTables, passVars, vecVars, Running
  <1>4. /\ NothingDone' /\ NoFiles' /\ TwoLive' /\ pc' = "start"
    BY <1>1 DEF GetTables, passVars, NothingDone, NoFiles, TwoLive, Live
  <1>5. status' # "success"
    BY <1>3, <1>4 DEF TypeOK, Running
  <1> QED BY <1>3, <1>4, <1>5 DEF IInv, Places, AtPlace, StatusTold

LEMMA OpenScanStep ==
    ASSUME IInv, OpenScan
    PROVE  IInv'
  <1>1. TypeOK /\ 0 \in Roots /\ <<>> \in Seq(Passes) /\ NothingDone /\ NoFiles
    BY InvFacts DEF IInv, AtPlace, OpenScan, vecVars
  <1>2. /\ disk' \in [Roots -> Files]
        /\ disk'[0].state = "open"
        /\ disk'[0].passes = <<>>
        /\ Live' = Live \cup {0}
    BY <1>1, CreateFacts DEF OpenScan, vecVars, RootOf
  <1>3. ScanOpen' /\ TwoLive'
    BY <1>1, <1>2 DEF ScanOpen, NoFiles, TwoLive
  <1>4. TypeOK'
    BY <1>1, <1>2 DEF TypeOK, OpenScan, passVars, vecVars, Running
  <1>5. NothingDone' /\ StatusTold' /\ pc' = "scan"
    BY <1>1 DEF OpenScan, vecVars, passVars, NothingDone, StatusTold, IInv
  <1> QED BY <1>3, <1>4, <1>5 DEF IInv, Places, AtPlace

LEMMA ScanTokenStep ==
    ASSUME IInv, ScanToken
    PROVE  IInv'
  <1>1. TypeOK /\ 0 \in Roots /\ 1 \in Nat /\ NothingDone /\ ScanOpen
    BY InvFacts DEF IInv, AtPlace, ScanToken, vecVars
  <1>2. disk' \in [Roots -> Files] /\ SameFiles
    BY <1>1, PutFacts DEF ScanToken, vecVars, NothingDone
  <1>3. Live' = Live
    BY <1>1, <1>2, SameFilesKeep DEF ScanToken, vecVars
  <1>4. ScanOpen' /\ TwoLive'
    BY <1>1, <1>2, <1>3 DEF ScanOpen, TwoLive, SameFiles
  <1>5. unread' \in Nat
    BY <1>1 DEF ScanToken, vecVars, TypeOK
  <1>6. TypeOK'
    BY <1>1, <1>2, <1>5 DEF TypeOK, ScanToken, passVars, vecVars, Running
  <1>7. NothingDone' /\ StatusTold' /\ pc' = "scan"
    BY <1>1 DEF ScanToken, vecVars, passVars, NothingDone, StatusTold, IInv
  <1> QED BY <1>4, <1>6, <1>7 DEF IInv, Places, AtPlace

LEMMA ScanEofStep ==
    ASSUME IInv, ScanEof
    PROVE  IInv'
  <1>1. TypeOK /\ 0 \in Roots /\ NothingDone /\ ScanOpen
    BY InvFacts DEF IInv, AtPlace, ScanEof, vecVars
  <1>2. disk' \in [Roots -> Files] /\ SameFiles /\ disk'[0].eof
    BY <1>1, PutEofFacts DEF ScanEof, vecVars, NothingDone
  <1>3. Live' = Live
    BY <1>1, <1>2, SameFilesKeep DEF ScanEof, vecVars
  <1>4. disk'[0].eof \in BOOLEAN
    BY <1>1, <1>2 DEF Files
  <1>5. ScanOpen' /\ ScanWhole' /\ TwoLive'
    BY <1>1, <1>2, <1>3, <1>4 DEF ScanOpen, ScanWhole, TwoLive, SameFiles
  <1>6. TypeOK'
    BY <1>1, <1>2 DEF TypeOK, ScanEof, passVars, vecVars, Running
  <1>7. NothingDone' /\ StatusTold' /\ pc' = "close scan"
    BY <1>1 DEF ScanEof, vecVars, passVars, NothingDone, StatusTold, IInv
  <1> QED BY <1>5, <1>6, <1>7 DEF IInv, Places, AtPlace

LEMMA ScanFailsStep ==
    ASSUME IInv, ScanFails
    PROVE  IInv'
  <1>1. TypeOK'
    BY DEF IInv, TypeOK, ScanFails, vecVars, Running
  <1>2. TwoLive'
    BY DEF ScanFails, vecVars, IInv, TwoLive, Live
  <1>3. BetweenPasses' /\ pc' = "next"
    BY DEF ScanFails, vecVars, BetweenPasses
  <1>4. status' # "success"
    BY <1>1, <1>3 DEF TypeOK, Running
  <1> QED BY <1>1, <1>2, <1>3, <1>4 DEF IInv, Places, AtPlace, StatusTold

LEMMA CloseScanStep ==
    ASSUME IInv, CloseScan
    PROVE  IInv'
  <1>1. TypeOK /\ 0 \in Roots /\ NothingDone /\ ScanOpen /\ ScanWhole
    BY InvFacts DEF IInv, AtPlace, CloseScan, vecVars
  <1>2. PICK short \in BOOLEAN : disk' = ClosePutter(0, short)
    BY <1>1 DEF CloseScan, vecVars, NothingDone
  <1>3. /\ disk' \in [Roots -> Files]
        /\ disk'[0].state = "closed"
        /\ disk'[0].passes = <<>>
        /\ disk'[0].eof
        /\ Live' = Live
    BY <1>1, <1>2, CloseFacts DEF ScanOpen, ScanWhole
  <1>4. TypeOK'
    BY <1>1, <1>3 DEF TypeOK, CloseScan, passVars, vecVars, Running
  <1>5. ASSUME NEW pred PROVE WentThrough(<<>>, 0, pred)
    BY DEF WentThrough
  <1>6. Finished(disk'[0], 0, selected')
    BY <1>3, <1>5 DEF Finished
  <1>7. i' = 0 /\ fn_root1' = 0 /\ pc' = "next"
    BY <1>1 DEF CloseScan, vecVars, passVars, NothingDone
  <1>8. BetweenPasses'
    BY <1>1, <1>3, <1>6, <1>7 DEF BetweenPasses, SourceReady, ScanOpen
  <1>9. StatusTold' /\ TwoLive'
    BY <1>3 DEF IInv, CloseScan, vecVars, passVars, StatusTold, TwoLive
  <1> QED BY <1>4, <1>7, <1>8, <1>9 DEF IInv, Places, AtPlace

\* At the head of the loop, when there is one more pass.
LEMMA OneMore ==
    ASSUME IInv, pc = "next", ~ error_message, i # n_vec
    PROVE  /\ i < n_vec /\ error_message = FALSE
           /\ SourceReady /\ Live \subseteq {fn_root1}
  <1>1. error_message = FALSE
    BY DEF IInv, TypeOK
  <1>2. i < n_vec
    BY InvFacts DEF TypeOK
  <1>3. BetweenPasses
    BY DEF IInv, AtPlace
  <1> QED BY <1>1, <1>2, <1>3 DEF BetweenPasses

LEMMA SkipPassStep ==
    ASSUME IInv, SkipPass
    PROVE  IInv'
  <1>1. /\ TypeOK /\ i \in 0 .. NVec - 1 /\ i + 1 \in Passes /\ i < n_vec
        /\ n_vec \in Nat /\ i \in Nat
        /\ selected[i + 1] = FALSE
        /\ SourceReady /\ Live \subseteq {fn_root1}
        /\ disk[fn_root1].passes \in Seq(Passes)
        /\ selected \in [Passes -> BOOLEAN]
    <2>1. i < n_vec /\ SourceReady /\ Live \subseteq {fn_root1}
      BY OneMore DEF SkipPass, vecVars
    <2>2. selected[i + 1] = FALSE
      BY InvFacts, <2>1 DEF SkipPass, vecVars
    <2> QED BY InvFacts, <2>1, <2>2
  <1>2. WentThrough(disk[fn_root1].passes, i + 1, selected)
    BY <1>1, AppendPass DEF SourceReady, Finished
  <1>3. BetweenPasses'
    <2>1. Finished(disk[fn_root1], i + 1, selected)
      BY <1>1, <1>2 DEF SourceReady, Finished
    <2>2. SourceReady'
      BY <2>1 DEF SourceReady, SkipPass, vecVars
    <2>3. Live' \subseteq {fn_root1'}
      BY <1>1 DEF SkipPass, vecVars, Live
    <2> QED BY <2>2, <2>3 DEF BetweenPasses
  <1>4. TypeOK'
    <2>1. i' = i + 1 /\ fn_root1' = fn_root1
      BY DEF SkipPass, vecVars
    <2>2. i' \in 0 .. n_vec /\ fn_root1' \in 0 .. i'
      BY <1>1, <2>1, NVecAssumption DEF TypeOK
    <2> QED BY <1>1, <2>2 DEF TypeOK, SkipPass, vecVars, Running
  <1>5. pc' = "next" /\ status' # "success"
    BY <1>4 DEF SkipPass, vecVars, TypeOK, Running
  <1>6. TwoLive'
    BY DEF IInv, TwoLive, Live, SkipPass, vecVars
  <1> QED BY <1>3, <1>4, <1>5, <1>6 DEF IInv, Places, AtPlace, StatusTold

LEMMA OpenPassStep ==
    ASSUME IInv, OpenPass
    PROVE  IInv'
  <1>1. /\ TypeOK /\ i \in 0 .. NVec - 1 /\ i + 1 \in Roots
        /\ i < n_vec /\ i \in Nat
        /\ fn_root1 \in Roots /\ fn_root1 # i + 1
        /\ error_message = FALSE
        /\ selected[i + 1]
        /\ SourceReady /\ Live \subseteq {fn_root1}
        /\ disk[fn_root1].passes \in Seq(Passes)
        /\ selected \in [Passes -> BOOLEAN]
    <2>1. /\ i < n_vec /\ error_message = FALSE
          /\ SourceReady /\ Live \subseteq {fn_root1}
      BY OneMore DEF OpenPass, vecVars
    <2>2. selected[i + 1]
      BY DEF OpenPass, vecVars
    <2> QED BY InvFacts, <2>1, <2>2
  <1> DEFINE more == Append(disk[fn_root1].passes, i + 1)
  <1>2. WentThrough(more, i + 1, selected) /\ more \in Seq(Passes)
    BY <1>1, AppendPass DEF SourceReady, Finished
  <1>3. disk' = [disk EXCEPT ![i + 1] = Created(more)]
    BY DEF OpenPass, vecVars, RootOf
  <1> HIDE DEF more
  <1>4. /\ disk' \in [Roots -> Files]
        /\ disk'[fn_root1] = disk[fn_root1]
        /\ disk'[i + 1].state = "open"
        /\ disk'[i + 1].passes = more
        /\ Live' = Live \cup {i + 1}
    BY <1>1, <1>2, <1>3, CreateFacts
  <1>5. /\ fn_root1' = fn_root1 /\ fn_root2' = i + 1 /\ i' = i /\ pc' = "pass"
        /\ error_message' = FALSE /\ selected' = selected /\ n_vec' = n_vec
    BY <1>1 DEF OpenPass, vecVars, RootOf
  <1>6. Live' \subseteq {fn_root1', fn_root2'} /\ TwoLive'
    BY <1>1, <1>4, <1>5 DEF TwoLive
  <1>7. InTheMaking'
    BY <1>1, <1>2, <1>4, <1>5, <1>6 DEF InTheMaking, SourceReady
  <1>8. unread' \in Nat
    BY InvFacts DEF OpenPass, vecVars
  <1>9. TypeOK'
    BY <1>1, <1>4, <1>5, <1>8 DEF TypeOK, OpenPass, vecVars, Running
  <1>10. status' # "success"
    BY <1>5, <1>9 DEF TypeOK, Running
  <1> QED BY <1>5, <1>6, <1>7, <1>9, <1>10 DEF IInv, Places, AtPlace, StatusTold

\* A put_token of a pass leaves all but the number of tokens and the end alone.
LEMMA InTheMakingKept ==
    ASSUME TypeOK, InTheMaking, SameFiles, fn_root1 \in Roots, fn_root2 \in Roots,
           i' = i, fn_root1' = fn_root1, fn_root2' = fn_root2,
           error_message' = error_message, vecVars' = vecVars
    PROVE  InTheMaking'
  <1>0. selected' = selected /\ n_vec' = n_vec
    BY DEF vecVars
  <1>1. Live' = Live
    BY <1>0, SameFilesKeep
  <1>2. SourceReady'
    BY <1>0 DEF InTheMaking, SourceReady, Finished, SameFiles
  <1>3. disk'[fn_root2].state = "open" /\ disk'[fn_root2].passes = disk[fn_root2].passes
    BY DEF InTheMaking, SameFiles
  <1> QED BY <1>0, <1>1, <1>2, <1>3 DEF InTheMaking

LEMMA ParseTokenStep ==
    ASSUME IInv, ParseToken
    PROVE  IInv'
  <1>1. TypeOK /\ fn_root1 \in Roots /\ fn_root2 \in Roots /\ InTheMaking
    BY InvFacts DEF IInv, AtPlace, ParseToken, vecVars
  <1>2. PICK consumed \in 1 .. unread, put \in 0 .. 1 :
          unread' = unread - consumed /\ disk' = Put(fn_root2, put + 1)
    BY DEF ParseToken, vecVars
  <1>3. put + 1 \in Nat /\ unread' \in Nat
    BY <1>1, <1>2 DEF TypeOK
  <1>4. disk' \in [Roots -> Files] /\ SameFiles
    BY <1>1, <1>2, <1>3, PutFacts
  <1>5. InTheMaking'
    BY <1>1, <1>4, InTheMakingKept DEF ParseToken, vecVars, passVars
  <1>6. TwoLive'
    BY <1>1, <1>4, SameFilesKeep DEF IInv, TwoLive, ParseToken, vecVars
  <1>7. TypeOK'
    BY <1>1, <1>3, <1>4 DEF TypeOK, ParseToken, passVars, vecVars, Running
  <1>8. pc' = "pass" /\ status' # "success"
    BY <1>7 DEF ParseToken, vecVars, TypeOK, Running
  <1> QED BY <1>5, <1>6, <1>7, <1>8 DEF IInv, Places, AtPlace, StatusTold

LEMMA ParseEofStep ==
    ASSUME IInv, ParseEof
    PROVE  IInv'
  <1>1. TypeOK /\ fn_root1 \in Roots /\ fn_root2 \in Roots /\ InTheMaking
    BY InvFacts DEF IInv, AtPlace, ParseEof, vecVars
  <1>2. disk' \in [Roots -> Files] /\ SameFiles /\ disk'[fn_root2].eof
    BY <1>1, PutEofFacts DEF ParseEof, vecVars
  <1>3. InTheMaking'
    BY <1>1, <1>2, InTheMakingKept DEF ParseEof, vecVars, passVars
  <1>4. disk'[fn_root2].eof \in BOOLEAN
    BY <1>1, <1>2 DEF Files
  <1>5. OutputWhole' /\ SourceWhole'
    <2>1. OutputWhole'
      BY <1>2, <1>4 DEF OutputWhole, ParseEof, vecVars, passVars
    <2>2. disk[fn_root1] \in Files /\ disk[fn_root1].short = FALSE
      BY <1>1 DEF TypeOK, Files, ParseEof
    <2>3. disk'[fn_root1].short = disk[fn_root1].short
      BY <1>1, <2>2 DEF TypeOK, Files, ParseEof, PutEof
    <2> QED BY <2>1, <2>2, <2>3 DEF SourceWhole, ParseEof, passVars
  <1>6. TwoLive'
    BY <1>1, <1>2, SameFilesKeep DEF IInv, TwoLive, ParseEof, vecVars
  <1>7. TypeOK'
    BY <1>1, <1>2 DEF TypeOK, ParseEof, passVars, vecVars, Running
  <1>8. pc' = "close getter" /\ status' # "success"
    BY <1>7 DEF ParseEof, vecVars, TypeOK, Running
  <1> QED BY <1>3, <1>5, <1>6, <1>7, <1>8 DEF IInv, Places, AtPlace, StatusTold

LEMMA ParseFailsStep ==
    ASSUME IInv, ParseFails
    PROVE  IInv'
  <1>1. PassOver' /\ pc' = "end of pass"
    BY DEF IInv, AtPlace, InTheMaking, PassOver, ParseFails, vecVars
  <1>2. TypeOK'
    BY DEF IInv, TypeOK, ParseFails, vecVars, Running
  <1>3. TwoLive' /\ status' # "success"
    BY <1>1, <1>2 DEF ParseFails, vecVars, IInv, TwoLive, Live, TypeOK, Running
  <1> QED BY <1>1, <1>2, <1>3 DEF IInv, Places, AtPlace, StatusTold

LEMMA CloseGetterStep ==
    ASSUME IInv, CloseGetter
    PROVE  IInv'
  <1>1. InTheMaking' /\ OutputWhole' /\ SourceWhole' /\ pc' = "close putter"
    BY DEF IInv, AtPlace, InTheMaking, OutputWhole, SourceWhole, CloseGetter,
           vecVars, passVars, Live, SourceReady
  <1>2. TypeOK'
    BY DEF IInv, TypeOK, CloseGetter, passVars, vecVars, Running
  <1>3. TwoLive' /\ status' # "success"
    BY <1>1, <1>2 DEF CloseGetter, vecVars, IInv, TwoLive, Live, TypeOK, Running
  <1> QED BY <1>1, <1>2, <1>3 DEF IInv, Places, AtPlace, StatusTold

LEMMA CloseOutputStep ==
    ASSUME IInv, CloseOutput
    PROVE  IInv'
  <1>1. TypeOK /\ fn_root1 \in Roots /\ fn_root2 \in Roots /\ InTheMaking /\ OutputWhole
    BY InvFacts DEF IInv, AtPlace, CloseOutput, vecVars
  <1>2. PICK short \in BOOLEAN : disk' = ClosePutter(fn_root2, short)
    BY DEF CloseOutput, vecVars
  <1>3. /\ disk' \in [Roots -> Files]
        /\ disk'[fn_root2].state = "closed"
        /\ disk'[fn_root2].passes = disk[fn_root2].passes
        /\ disk'[fn_root2].eof
        /\ Live' = Live
    BY <1>1, <1>2, CloseFacts DEF InTheMaking, OutputWhole
  <1>4. OutputMade'
    BY <1>1, <1>3 DEF OutputMade, OutputReady, Finished, InTheMaking, CloseOutput, vecVars, passVars
  <1>5. TypeOK'
    BY <1>1, <1>3 DEF TypeOK, CloseOutput, passVars, vecVars, Running
  <1>6. pc' = "remove" /\ status' # "success" /\ TwoLive'
    BY <1>3, <1>5 DEF IInv, TwoLive, CloseOutput, vecVars, TypeOK, Running
  <1> QED BY <1>4, <1>5, <1>6 DEF IInv, Places, AtPlace, StatusTold

LEMMA RemoveSourceStep ==
    ASSUME IInv, RemoveSource
    PROVE  IInv'
  <1>1. /\ TypeOK /\ fn_root1 \in Roots /\ fn_root2 \in Roots /\ OutputMade
        /\ fn_root1 # fn_root2
    BY InvFacts DEF IInv, AtPlace, RemoveSource, vecVars, OutputMade
  <1>2. PICK left \in {"absent", "file of tokens"} :
          disk' = [disk EXCEPT ![fn_root1] = [Absent EXCEPT !.state = left]]
    BY DEF RemoveSource, vecVars
  <1>3. /\ disk' \in [Roots -> Files]
        /\ disk'[fn_root2] = disk[fn_root2]
        /\ Live' = Live \ {fn_root1}
    BY <1>1, <1>2, RemoveFacts
  <1>4. PassOver'
    BY <1>1, <1>3 DEF PassOver, OutputMade, OutputReady, RemoveSource, vecVars, passVars
  <1>5. TypeOK'
    BY <1>1, <1>3 DEF TypeOK, RemoveSource, passVars, vecVars, Running
  <1>6. pc' = "end of pass" /\ status' # "success" /\ TwoLive'
    BY <1>3, <1>5 DEF IInv, TwoLive, RemoveSource, vecVars, TypeOK, Running
  <1> QED BY <1>4, <1>5, <1>6 DEF IInv, Places, AtPlace, StatusTold

LEMMA EndPassStep ==
    ASSUME IInv, EndPass
    PROVE  IInv'
  <1>1. TypeOK /\ PassOver /\ i \in Nat /\ n_vec \in Nat
    BY InvFacts DEF IInv, AtPlace, EndPass, vecVars
  <1>2. BetweenPasses' /\ pc' = "next"
    <2>1. Live' = Live
      BY DEF EndPass, vecVars, Live
    <2>2. OutputReady => SourceReady'
      BY DEF OutputReady, SourceReady, EndPass, vecVars
    <2> QED BY <1>1, <2>1, <2>2 DEF BetweenPasses, PassOver, EndPass, vecVars
  <1>3. i' \in 0 .. n_vec /\ fn_root1' \in 0 .. i'
    <2>1. i < n_vec /\ fn_root2 = i + 1
      BY <1>1 DEF PassOver
    <2>2. i' = i + 1 /\ fn_root1' = fn_root2
      BY DEF EndPass, vecVars
    <2>3. i \in Nat /\ n_vec \in Nat
      BY <1>1
    <2> QED BY <2>1, <2>2, <2>3
  <1>4. TypeOK'
    BY <1>1, <1>3 DEF TypeOK, EndPass, vecVars, Running
  <1>5. TwoLive' /\ status' # "success"
    BY <1>2, <1>4 DEF EndPass, vecVars, IInv, TwoLive, Live, TypeOK, Running
  <1> QED BY <1>2, <1>4, <1>5 DEF IInv, Places, AtPlace, StatusTold

LEMMA ReturnRootStep ==
    ASSUME IInv, ReturnRoot
    PROVE  IInv'
  <1>1. TypeOK /\ BetweenPasses /\ fn_root1 \in Roots
    BY InvFacts DEF IInv, AtPlace, ReturnRoot, vecVars
  <1>2. PassesOver' /\ pc' = "return"
    BY <1>1 DEF PassesOver, BetweenPasses, SourceReady, FinalReady, ReturnRoot, vecVars
  <1>3. TypeOK'
    BY <1>1 DEF TypeOK, ReturnRoot, vecVars, Running
  <1>4. TwoLive' /\ status' # "success"
    BY <1>2, <1>3 DEF ReturnRoot, vecVars, IInv, TwoLive, Live, TypeOK, Running
  <1> QED BY <1>2, <1>3, <1>4 DEF IInv, Places, AtPlace, StatusTold

\* The steps with which the program ends, or that come after.
LEMMA EndSteps ==
    ASSUME IInv,
           \/ ExitEarly \/ OpenScanExits \/ FileErrorExits \/ ExitMain
           \/ RemoveFile \/ RemoveDirectory \/ RemovalFails \/ Kill
    PROVE  IInv'
  <1>1. TypeOK /\ StatusTold /\ TwoLive
    BY DEF IInv
  <1>2. CASE ExitEarly \/ OpenScanExits \/ FileErrorExits
    <2>1. TypeOK'
      BY <1>1, <1>2 DEF ExitEarly, OpenScanExits, FileErrorExits, Exit, TypeOK, passVars, vecVars, Running
    <2>2. TwoLive'
      BY <1>1, <1>2 DEF ExitEarly, OpenScanExits, vecVars, FileErrorExits, TwoLive, Live
    <2>3. pc' = "exiting" /\ status' = "failure"
      BY <1>2 DEF ExitEarly, OpenScanExits, vecVars, FileErrorExits, Exit
    <2> QED BY <2>1, <2>2, <2>3 DEF IInv, Places, AtPlace, StatusTold
  <1>3. CASE ExitMain
    <2>1. PassesOver /\ error_message \in BOOLEAN
      BY <1>1, <1>3 DEF IInv, AtPlace, ExitMain, vecVars, TypeOK
    <2>2. pc' = "exiting" /\ status' \in {"failure", "success"}
      BY <1>3 DEF ExitMain, vecVars, Exit
    <2>3. TypeOK'
      BY <1>1, <1>3, <2>2 DEF ExitMain, TypeOK, passVars, vecVars, Running
    <2>4. TwoLive'
      BY <1>1, <1>3 DEF ExitMain, vecVars, TwoLive, Live
    <2>5. StatusTold'
      BY <1>3, <2>1 DEF ExitMain, vecVars, Exit, passVars, StatusTold, PassesOver
    <2> QED BY <2>2, <2>3, <2>4, <2>5 DEF IInv, Places, AtPlace
  <1>4. CASE RemoveFile
    <2>1. PICK r \in Roots : disk' = [disk EXCEPT ![r] = Absent]
      BY <1>4 DEF RemoveFile, vecVars
    <2>2. disk' \in [Roots -> Files]
      BY <1>1, <2>1, AbsentIsFile DEF TypeOK
    <2>3. Absent.state = "absent"
      BY DEF Absent
    <2>4. Live' \subseteq Live
      BY <1>1, <2>1, <2>3 DEF Live, TypeOK
    <2>5. TypeOK'
      BY <1>1, <1>4, <2>2 DEF RemoveFile, TypeOK, passVars, vecVars, Running
    <2>6. TwoLive' /\ StatusTold' /\ pc' = "exiting"
      BY <1>1, <1>4, <2>4 DEF RemoveFile, vecVars, TwoLive, StatusTold, passVars
    <2> QED BY <2>5, <2>6 DEF IInv, Places, AtPlace
  <1>5. CASE RemoveDirectory \/ RemovalFails \/ Kill
    <2>1. pc' \in {"exited", "not removed", "killed"}
      BY <1>5 DEF RemoveDirectory, vecVars, RemovalFails, Kill
    <2>2. TypeOK'
      BY <1>1, <1>5 DEF RemoveDirectory, RemovalFails, Kill, TypeOK, passVars, vecVars, Running
    <2>3. TwoLive' /\ StatusTold'
      BY <1>1, <1>5 DEF RemoveDirectory, vecVars, RemovalFails, Kill, TwoLive, Live,
                        StatusTold, passVars
    <2> QED BY <2>1, <2>2, <2>3 DEF IInv, Places, AtPlace
  <1> QED BY <1>2, <1>3, <1>4, <1>5

LEMMA StutterStep ==
    ASSUME IInv, UNCHANGED vars
    PROVE  IInv'
  <1>1. TypeOK' /\ TwoLive' /\ StatusTold' /\ pc' = pc
    BY DEF IInv, TypeOK, Running, TwoLive, Live, StatusTold, vars, vecVars, passVars
  <1>2. AtPlace'
    BY DEF IInv, AtPlace, vars, vecVars, passVars, NothingDone, NoFiles, ScanOpen,
           ScanWhole, BetweenPasses, InTheMaking, OutputWhole, SourceWhole, OutputMade,
           PassOver, PassesOver, SourceReady, OutputReady, FinalReady, Live
  <1> QED BY <1>1, <1>2 DEF IInv

LEMMA NextIInv == IInv /\ [Next]_vars => IInv'
  BY GetTablesStep, OpenScanStep, ScanTokenStep, ScanEofStep, ScanFailsStep, CloseScanStep,
     SkipPassStep, OpenPassStep, ParseTokenStep, ParseEofStep, ParseFailsStep,
     CloseGetterStep, CloseOutputStep, RemoveSourceStep, EndPassStep,
     ReturnRootStep, EndSteps, StutterStep
  DEF Next, Program, Scan, Pass

-------------------------------------------------------------------------------

\* A pass reads what all the selected passes before it made, in their order
\* (the loop of do_pratt_passes).
LEMMA InvReads == IInv => ReadsEarlierPasses
  <1> SUFFICES ASSUME IInv PROVE ReadsEarlierPasses
    OBVIOUS
  <1>1. CASE pc = "next" /\ ~ error_message
    <2>1. error_message = FALSE
      BY <1>1 DEF IInv, TypeOK
    <2> QED BY <1>1, <2>1 DEF IInv, AtPlace, BetweenPasses, SourceReady,
                              ReadsEarlierPasses
  <1>2. CASE pc \in {"pass", "close getter", "close putter"}
    <2>1. InTheMaking /\ (pc \in {"close getter", "close putter"} => SourceWhole)
      BY <1>2 DEF IInv, AtPlace
    <2> QED BY <1>2, <2>1 DEF InTheMaking, SourceReady, SourceWhole,
                              ReadsEarlierPasses, Product, Complete
  <1> QED BY <1>1, <1>2 DEF ReadsEarlierPasses

LEMMA InvKept == IInv => LatestKept
  <1> SUFFICES ASSUME IInv, Running, ~ error_message, NoneShort,
                      pc \notin {"begin", "start", "scan", "close scan"}
               PROVE  \E r \in Roots : Product(r, i) \/ (i < n_vec /\ Product(r, i + 1))
    BY DEF LatestKept
  <1>1. error_message = FALSE
    BY DEF IInv, TypeOK
  <1>2. fn_root1 \in Roots /\ fn_root2 \in Roots /\ final_filename_root \in Roots
    BY InvFacts
  <1> SUFFICES \E r \in Roots : \/ Finished(disk[r], i, selected)
                                \/ i < n_vec /\ Finished(disk[r], i + 1, selected)
    BY DEF NoneShort, Product, Complete
  <1>3. CASE pc = "next"
    BY <1>1, <1>2, <1>3 DEF IInv, AtPlace, BetweenPasses, SourceReady
  <1>4. CASE pc \in {"pass", "close getter", "close putter"}
    BY <1>2, <1>4 DEF IInv, AtPlace, InTheMaking, SourceReady
  <1>5. CASE pc = "remove"
    BY <1>2, <1>5 DEF IInv, AtPlace, OutputMade, OutputReady
  <1>6. CASE pc = "end of pass"
    BY <1>1, <1>2, <1>6 DEF IInv, AtPlace, PassOver, OutputReady
  <1>7. CASE pc = "return"
    BY <1>1, <1>2, <1>7 DEF IInv, AtPlace, PassesOver, FinalReady
  <1> QED BY <1>3, <1>4, <1>5, <1>6, <1>7 DEF IInv, Places, Running

LEMMA InvTwo == IInv => TwoRoots
  <1> SUFFICES ASSUME IInv PROVE TwoRoots
    OBVIOUS
  <1>1. PICK a \in Roots, b \in Roots : Live \subseteq {a, b}
    BY DEF IInv, TwoLive
  <1>2. IsFiniteSet({a}) /\ Cardinality({a}) = 1
    BY FS_Singleton
  <1>3. /\ IsFiniteSet({a} \cup {b})
        /\ Cardinality({a} \cup {b}) = Cardinality({a}) \/ Cardinality({a} \cup {b}) = Cardinality({a}) + 1
    <2>1. CASE b \in {a}
      <3>1. {a} \cup {b} = {a}
        BY <2>1
      <3> QED BY <1>2, <3>1
    <2>2. CASE b \notin {a}
      BY <1>2, <2>2, FS_AddElement
    <2> QED BY <2>1, <2>2
  <1>4. Cardinality({a} \cup {b}) <= 2
    BY <1>2, <1>3
  <1>5. Live \subseteq {a} \cup {b}
    BY <1>1
  <1>6. Cardinality(Live) <= Cardinality({a} \cup {b})
    BY <1>3, <1>5, FS_Subset
  <1>7. Cardinality(Live) \in Nat /\ Cardinality({a} \cup {b}) \in Nat
    BY <1>3, <1>5, FS_Subset, FS_CardinalityType
  <1>8. Cardinality(Live) <= 2
    BY <1>4, <1>6, <1>7
  <1> QED BY <1>8 DEF TwoRoots, Live

LEMMA InvSuccess == IInv => SuccessIsComplete
  <1> SUFFICES ASSUME IInv PROVE SuccessIsComplete
    OBVIOUS
  <1>1. pc = "return" /\ ~ error_message => FinalReady
    <2> SUFFICES ASSUME pc = "return", ~ error_message
                 PROVE  FinalReady
      OBVIOUS
    <2>1. error_message = FALSE
      BY DEF IInv, TypeOK
    <2> QED BY <2>1 DEF IInv, AtPlace, PassesOver
  <1>2. status = "success" => ~ error_message /\ i = n_vec
    BY DEF IInv, StatusTold
  <1> QED BY <1>1, <1>2 DEF SuccessIsComplete, FinalReady

\* The variables keep their types.
THEOREM TypeCorrect == Spec => []TypeOK
  <1>1. IInv => TypeOK
    BY DEF IInv
  <1> QED BY <1>1, InitIInv, NextIInv, PTL DEF Spec

\* Whatever passes pred selects, a pass reads what all the selected ones before
\* it made, and ends only if no entry of that is missing (do_pratt_passes).
THEOREM ReadsEarlierPassesAlways == Spec => []ReadsEarlierPasses
  BY InvReads, InitIInv, NextIInv, PTL DEF Spec

\* The work done is on the disk, with all its entries, at every moment at which
\* no error has been seen and no fclose of an indexed data file has failed
\* without being seen (do_pratt_pass_for_files removes its source last).
THEOREM LatestKeptAlways == Spec => []LatestKept
  BY InvKept, InitIInv, NextIInv, PTL DEF Spec

\* However many passes there are, the files of two roots are the most that are
\* kept.
THEOREM TwoRootsAlways == Spec => []TwoRoots
  BY InvTwo, InitIInv, NextIInv, PTL DEF Spec

\* main reports success only when every selected pass has run to its end; the
\* last of them may still have been closed short.
THEOREM SuccessIsCompleteAlways == Spec => []SuccessIsComplete
  BY InvSuccess, InitIInv, NextIInv, PTL DEF Spec

-------------------------------------------------------------------------------
\* The registry, and the program that fills it.


\* What each slot holds, told by the entries that have been made.
TablesAgree ==
    \A p \in PassNames, s \in Slots :
        LET puts == EntriesFor(made, Len(made), p, s)
        IN  \/ IsLatest(tables[p][s], made, puts)
            \/ /\ puts = {}
               /\ tables[p][s] = IF s = DefaultNud /\ HasTables(p)
                                 THEN Passthrough ELSE Null

\* The inductive invariant of the registry.
TablesTypeOK ==
    /\ tables \in [PassNames -> [Slots -> Handlers \cup {Null}]]
    /\ saved \in [Variables -> Handlers \cup {Null}]
    /\ todo \in Seq(Entries)
    /\ loaded \in Seq(Libraries)
    /\ made \in Seq(Entries)

TablesIInv == TablesTypeOK /\ TablesAgree /\ SavesFormer

LEMMA EntryFields ==
    ASSUME NEW e \in Entries
    PROVE  /\ e.pass \in PassNames /\ e.slot \in Slots
           /\ e.handler \in Handlers /\ e.handler # Null
           /\ e.saves \in Variables \cup {Null}
  BY TablesAssumption DEF Entries

LEMMA EntriesForFacts ==
    ASSUME NEW entries \in Seq(Entries), NEW n \in 0 .. Len(entries), NEW p, NEW s,
           NEW k \in EntriesFor(entries, n, p, s)
    PROVE  k \in 1 .. n /\ k \in 1 .. Len(entries) /\ entries[k] \in Entries
  BY DEF EntriesFor

\* What get finds for a slot is what was there.
LEMMA FoundWasThere ==
    ASSUME TablesIInv, NEW p \in PassNames, NEW s \in Slots
    PROVE  /\ WasThere(NudGet(TablesOf(p), s), made, Len(made), p, s)
           /\ NudGet(TablesOf(p), s) \in Handlers
  <1> DEFINE Puts(t) == EntriesFor(made, Len(made), p, t)
             d == DefaultNud
  <1>1. /\ d \in Slots /\ Passthrough \in Handlers /\ Null \notin Handlers
        /\ made \in Seq(Entries) /\ Len(made) \in 0 .. Len(made)
        /\ tables[p] \in [Slots -> Handlers \cup {Null}]
    BY TablesAssumption DEF TablesIInv, TablesTypeOK
  <1>2. ASSUME NEW t \in Slots, Puts(t) # {}
        PROVE  /\ IsLatest(tables[p][t], made, Puts(t))
               /\ tables[p][t] \in Handlers
               /\ HasTables(p)
    <2>1. IsLatest(tables[p][t], made, Puts(t))
      BY <1>2 DEF TablesIInv, TablesAgree
    <2>2. PICK k \in Puts(t) : tables[p][t] = made[k].handler
      BY <2>1 DEF IsLatest
    <2>3. made[k] \in Entries
      BY <1>1, EntriesForFacts
    <2>4. tables[p][t] \in Handlers
      BY <2>2, <2>3, EntryFields
    <2>5. HasTables(p)
      BY <1>1, <2>4 DEF HasTables, NoTables
    <2> QED BY <2>1, <2>4, <2>5
  <1>3. ASSUME NEW t \in Slots, Puts(t) = {}
        PROVE  tables[p][t] = IF t = d /\ HasTables(p) THEN Passthrough ELSE Null
    <2>1. ~ IsLatest(tables[p][t], made, Puts(t))
      BY <1>3 DEF IsLatest
    <2> QED BY <1>3, <2>1 DEF TablesIInv, TablesAgree
  <1>4. CASE Puts(s) # {}
    <2>1. TablesOf(p) = tables[p] /\ NudGet(TablesOf(p), s) = tables[p][s]
      BY <1>1, <1>2, <1>4 DEF TablesOf, NudGet
    <2> QED BY <2>1, <1>2, <1>4 DEF WasThere
  <1>5. CASE Puts(s) = {} /\ Puts(d) # {}
    <2>1. TablesOf(p) = tables[p] /\ s # d
      BY <1>1, <1>2, <1>5 DEF TablesOf
    <2>2. NudGet(TablesOf(p), s) = tables[p][d]
      BY <1>3, <1>5, <2>1 DEF NudGet
    <2> QED BY <2>2, <1>1, <1>2, <1>5 DEF WasThere
  <1>6. CASE Puts(s) = {} /\ Puts(d) = {}
    <2>1. TablesOf(p)[d] = Passthrough
      BY <1>1, <1>3, <1>6 DEF TablesOf, MakeTables, NoTables
    <2>2. s # d => TablesOf(p)[s] = Null
      BY <1>1, <1>3, <1>6 DEF TablesOf, MakeTables, NoTables
    <2>3. NudGet(TablesOf(p), s) = Passthrough
      BY <1>1, <2>1, <2>2 DEF NudGet
    <2> QED BY <1>1, <1>6, <2>3 DEF WasThere
  <1> QED BY <1>4, <1>5, <1>6

-------------------------------------------------------------------------------

\* One more entry leaves those before it as they are.
LEMMA AppendFacts ==
    ASSUME NEW entries \in Seq(Entries), NEW e \in Entries,
           NEW more, more = Append(entries, e)
    PROVE  /\ \A k \in 1 .. Len(entries) : more[k] = entries[k]
           /\ more[Len(entries) + 1] = e
           /\ Len(more) = Len(entries) + 1 /\ Len(entries) \in Nat
           /\ more \in Seq(Entries)
  OBVIOUS

LEMMA WasThereAppend ==
    ASSUME NEW entries \in Seq(Entries), NEW e \in Entries, NEW p, NEW s, NEW h,
           NEW more, more = Append(entries, e),
           NEW n \in 0 .. Len(entries), WasThere(h, entries, n, p, s)
    PROVE  WasThere(h, more, n, p, s)
  <1>0. \A k \in 1 .. n : k \in 1 .. Len(entries) /\ more[k] = entries[k]
    BY AppendFacts
  <1>1. /\ EntriesFor(more, n, p, s) = EntriesFor(entries, n, p, s)
        /\ EntriesFor(more, n, p, DefaultNud) = EntriesFor(entries, n, p, DefaultNud)
    BY <1>0 DEF EntriesFor
  <1>2. /\ \A k \in EntriesFor(entries, n, p, s) : more[k] = entries[k]
        /\ \A k \in EntriesFor(entries, n, p, DefaultNud) : more[k] = entries[k]
    BY <1>0 DEF EntriesFor
  <1> QED BY <1>1, <1>2 DEF WasThere, IsLatest

-------------------------------------------------------------------------------

\* The steps of the registry keep its invariant.

LEMMA TablesInitIInv == TablesInit => TablesIInv
  <1> SUFFICES ASSUME TablesInit PROVE TablesIInv
    OBVIOUS
  <1>1. Len(made) = 0 /\ made \in Seq(Entries) /\ loaded \in Seq(Libraries)
        /\ todo \in Seq(Entries)
    BY DEF TablesInit
  <1>2. TablesTypeOK
    BY <1>1 DEF TablesInit, TablesTypeOK, NoTables
  <1>3. TablesAgree
    <2> SUFFICES ASSUME NEW p \in PassNames, NEW s \in Slots
                 PROVE  /\ EntriesFor(made, Len(made), p, s) = {}
                        /\ ~ HasTables(p) /\ tables[p][s] = Null
      BY DEF TablesAgree
    <2>1. tables[p] = NoTables
      BY DEF TablesInit
    <2> QED BY <1>1, <2>1 DEF EntriesFor, HasTables, NoTables
  <1>4. SavesFormer
    BY <1>1 DEF SavesFormer
  <1> QED BY <1>2, <1>3, <1>4 DEF TablesIInv

LEMMA LoadPluginStep ==
    ASSUME TablesIInv, NEW library \in Libraries, LoadPlugin(library)
    PROVE  TablesIInv'
  <1>1. TablesTypeOK'
    <2>1. todo' \in Seq(Entries)
      BY TablesAssumption DEF LoadPlugin
    <2>2. loaded' \in Seq(Libraries)
      BY DEF TablesIInv, TablesTypeOK, LoadPlugin
    <2> QED BY <2>1, <2>2 DEF TablesIInv, TablesTypeOK, LoadPlugin
  <1>2. TablesAgree'
    BY DEF TablesIInv, TablesAgree, LoadPlugin, HasTables
  <1>3. SavesFormer'
    BY DEF TablesIInv, SavesFormer, SavesLast, LoadPlugin
  <1> QED BY <1>1, <1>2, <1>3 DEF TablesIInv

LEMMA MakeEntryStep ==
    ASSUME TablesIInv, MakeEntry
    PROVE  TablesIInv'
  <1> DEFINE e == Head(todo)
             found == NudGet(TablesOf(e.pass), e.slot)
             N == Len(made)
  <1>1. /\ e \in Entries /\ e.pass \in PassNames /\ e.slot \in Slots
        /\ e.handler \in Handlers /\ e.handler # Null
        /\ e.saves \in Variables \cup {Null}
        /\ made \in Seq(Entries) /\ N \in 0 .. N /\ N \in Nat
        /\ Null \notin Variables
    BY EntryFields, TablesAssumption DEF TablesIInv, TablesTypeOK, MakeEntry
  <1>2. /\ made' = Append(made, e)
        /\ tables' = [tables EXCEPT ![e.pass] = [TablesOf(e.pass) EXCEPT ![e.slot] = e.handler]]
        /\ saved' = IF e.saves = Null THEN saved ELSE [saved EXCEPT ![e.saves] = found]
        /\ todo' = Tail(todo) /\ loaded' = loaded
    BY DEF MakeEntry
  <1>3. WasThere(found, made, N, e.pass, e.slot) /\ found \in Handlers
    BY <1>1, FoundWasThere
  <1>4. /\ tables \in [PassNames -> [Slots -> Handlers \cup {Null}]]
        /\ saved \in [Variables -> Handlers \cup {Null}]
    BY DEF TablesIInv, TablesTypeOK
  <1>5. TablesOf(e.pass) \in [Slots -> Handlers \cup {Null}]
    BY <1>1, <1>4, TablesAssumption DEF TablesOf, MakeTables, NoTables
  <1> HIDE DEF e, found
  <1>6. TablesTypeOK'
    <2>1. tables' \in [PassNames -> [Slots -> Handlers \cup {Null}]]
      BY <1>1, <1>2, <1>4, <1>5
    <2>2. saved' \in [Variables -> Handlers \cup {Null}]
      BY <1>1, <1>2, <1>3, <1>4
    <2>3. todo' \in Seq(Entries) /\ loaded' \in Seq(Libraries) /\ made' \in Seq(Entries)
      BY <1>1, <1>2 DEF TablesIInv, TablesTypeOK, MakeEntry
    <2> QED BY <2>1, <2>2, <2>3 DEF TablesTypeOK
  <1>7. Len(made') = N + 1 /\ made'[N + 1] = e /\ \A k \in 1 .. N : made'[k] = made[k]
    BY <1>1, <1>2
  <1>8. TablesAgree'
    <2> SUFFICES ASSUME NEW p \in PassNames, NEW s \in Slots
                 PROVE  \/ IsLatest(tables'[p][s], made', EntriesFor(made', N + 1, p, s))
                        \/ /\ EntriesFor(made', N + 1, p, s) = {}
                           /\ tables'[p][s] = IF s = DefaultNud /\ tables'[p] # NoTables
                                              THEN Passthrough ELSE Null
      BY <1>7 DEF TablesAgree, HasTables
    <2>1. EntriesFor(made', N + 1, p, s) = EntriesFor(made, N, p, s)
              \cup (IF e.pass = p /\ e.slot = s THEN {N + 1} ELSE {})
      BY <1>1, <1>7 DEF EntriesFor
    <2>2. \A k \in EntriesFor(made, N, p, s) : k \in 1 .. N
      BY DEF EntriesFor
    <2>3. CASE p = e.pass /\ s = e.slot
      <3>1. tables'[p][s] = made'[N + 1].handler
        BY <1>1, <1>2, <1>4, <1>5, <1>7, <2>3
      <3> QED BY <1>1, <2>1, <2>2, <2>3, <3>1 DEF IsLatest
    <2>4. CASE p = e.pass /\ s # e.slot
      <3>1. tables'[p][s] = TablesOf(p)[s]
        BY <1>1, <1>2, <1>4, <1>5, <2>4
      <3>2. tables'[p][e.slot] = e.handler
        BY <1>1, <1>2, <1>4, <1>5, <2>4
      <3>3. tables'[p] # NoTables
        BY <1>1, <3>2 DEF NoTables
      <3>4. EntriesFor(made', N + 1, p, s) = EntriesFor(made, N, p, s)
        BY <2>1, <2>4
      <3>5. IsLatest(tables[p][s], made, EntriesFor(made, N, p, s))
              => /\ IsLatest(tables[p][s], made', EntriesFor(made, N, p, s))
                 /\ tables[p][s] # Null
        <4>1. \A k \in EntriesFor(made, N, p, s) : made[k].handler # Null
          BY <1>1, <2>2, EntryFields
        <4> QED BY <1>7, <2>2, <4>1 DEF IsLatest
      <3>6. CASE HasTables(p)
        BY <3>1, <3>3, <3>4, <3>5, <3>6 DEF TablesIInv, TablesAgree, TablesOf
      <3>7. CASE ~ HasTables(p)
        <4>1. tables[p][s] = Null
          BY <3>7 DEF HasTables, NoTables
        <4>2. EntriesFor(made, N, p, s) = {}
          BY <3>5, <4>1 DEF TablesIInv, TablesAgree
        <4>3. TablesOf(p)[s] = IF s = DefaultNud THEN Passthrough ELSE Null
          BY <3>7, TablesAssumption DEF TablesOf, MakeTables, NoTables
        <4> QED BY <3>1, <3>3, <3>4, <4>2, <4>3
      <3> QED BY <3>6, <3>7
    <2>5. CASE p # e.pass
      <3>1. tables'[p] = tables[p]
        BY <1>1, <1>2, <1>4, <2>5
      <3>2. EntriesFor(made', N + 1, p, s) = EntriesFor(made, N, p, s)
        BY <2>1, <2>5
      <3>3. IsLatest(tables[p][s], made, EntriesFor(made, N, p, s))
              => IsLatest(tables[p][s], made', EntriesFor(made, N, p, s))
        BY <1>7, <2>2 DEF IsLatest
      <3> QED BY <3>1, <3>2, <3>3 DEF TablesIInv, TablesAgree, HasTables
    <2> QED BY <2>3, <2>4, <2>5
  <1>9. SavesFormer'
    <2> SUFFICES ASSUME NEW n \in 1 .. N + 1, made'[n].saves # Null,
                        \A k \in 1 .. N + 1 : made'[k].saves = made'[n].saves => k <= n
                 PROVE  WasThere(saved'[made'[n].saves], made', n - 1,
                                 made'[n].pass, made'[n].slot)
      BY <1>7 DEF SavesFormer, SavesLast
    <2>1. CASE n = N + 1
      <3>1. saved'[e.saves] = found
        BY <1>1, <1>2, <1>4, <1>7, <2>1
      <3>2. WasThere(found, made', N, e.pass, e.slot)
        BY <1>1, <1>2, <1>3, WasThereAppend
      <3>3. n - 1 = N
        BY <1>1, <2>1
      <3> QED BY <1>2, <1>7, <2>1, <3>1, <3>2, <3>3
    <2>2. CASE n # N + 1
      <3>1. n \in 1 .. N /\ made'[n] = made[n] /\ n - 1 \in 0 .. N
        BY <1>1, <1>7, <2>2
      <3>2. e.saves # made[n].saves
        BY <1>1, <1>7, <3>1, <2>2
      <3>3. made[n] \in Entries
        BY <1>1, <3>1
      <3>4. saved'[made[n].saves] = saved[made[n].saves]
        BY <1>1, <1>2, <1>4, <3>2, <3>3, EntryFields
      <3>5. WasThere(saved[made[n].saves], made, n - 1, made[n].pass, made[n].slot)
        BY <1>1, <1>7, <3>1 DEF TablesIInv, SavesFormer, SavesLast
      <3>6. WasThere(saved[made[n].saves], made', n - 1, made[n].pass, made[n].slot)
        BY <1>1, <1>2, <3>1, <3>5, WasThereAppend
      <3> QED BY <1>2, <3>1, <3>4, <3>6
    <2> QED BY <2>1, <2>2
  <1> QED BY <1>6, <1>8, <1>9 DEF TablesIInv

LEMMA TablesStutter == TablesIInv /\ UNCHANGED tableVars => TablesIInv'
  BY DEF TablesIInv, TablesTypeOK, TablesAgree, SavesFormer, SavesLast, HasTables, tableVars

LEMMA TablesNextIInv == TablesIInv /\ [TablesNext]_tableVars => TablesIInv'
  BY LoadPluginStep, MakeEntryStep, TablesStutter DEF TablesNext

\* In whatever order plugins are loaded, and however often, every variable that
\* a handler passes tokens on to holds what was in the tables right before the
\* last entry that saves into it (get_pratt_tables_for_pass, pratt_nud_get and
\* pratt_nud_put in plugin_init).  For a variable that is assigned once that is
\* the handler before it; one that is assigned again has lost the first.
THEOREM TablesSaveFormer == TablesSpec => []SavesFormer
  <1>1. TablesIInv => SavesFormer
    BY DEF TablesIInv
  <1> QED BY <1>1, TablesInitIInv, TablesNextIInv, PTL DEF TablesSpec

-------------------------------------------------------------------------------

\* What is left of the command line, as options.
CommandOK == options \in Seq(Options) /\ plugins \in Seq(Options)

LEMMA PluginIsOption ==
    ASSUME NEW o \in Options, o.tag = "plugin"
    PROVE  o.locator \in Libraries
  BY DEF Options

LEMMA FilesAreOptions ==
    ASSUME NEW d \in DOMAIN Directories,
           NEW namelist \in [1 .. Cardinality(Accepted(d)) -> Accepted(d)]
    PROVE  [n \in DOMAIN namelist |-> Plugin(namelist[n].file)] \in Seq(Options)
  <1>1. Cardinality(Accepted(d)) \in Nat
    <2>1. IsFiniteSet(Directories[d]) /\ Accepted(d) \subseteq Directories[d]
      BY CommandsAssumption DEF Accepted
    <2> QED BY <2>1, FS_Subset, FS_CardinalityType
  <1>2. ASSUME NEW n \in DOMAIN namelist
        PROVE  Plugin(namelist[n].file) \in Options
    <2>1. namelist[n].file \in Libraries
      BY CommandsAssumption DEF Accepted
    <2> QED BY <2>1 DEF Plugin, Options
  <1>3. DOMAIN namelist = 1 .. Cardinality(Accepted(d))
    OBVIOUS
  <1> QED BY <1>1, <1>2, <1>3

LEMMA CommandInit == HihaInit => CommandOK
  BY CommandsAssumption DEF HihaInit, CommandOK

LEMMA CommandStep == CommandOK /\ [HihaNext]_hihaVars => CommandOK'
  <1> SUFFICES ASSUME CommandOK, [HihaNext]_hihaVars PROVE CommandOK'
    OBVIOUS
  <1> USE DEF CommandOK
  <1>1. CASE GetOption
    BY <1>1 DEF GetOption
  <1>2. CASE LoadOnePlugin
    BY <1>2 DEF LoadOnePlugin
  <1>3. CASE ReadDirectory
    <2> DEFINE d == Head(plugins).locator
    <2>1. Head(plugins) \in Options /\ Tail(plugins) \in Seq(Options)
      BY <1>3 DEF ReadDirectory
    <2>2. d \in DOMAIN Directories
      BY <1>3, <2>1 DEF ReadDirectory, Options
    <2>3. PICK namelist \in [1 .. Cardinality(Accepted(d)) -> Accepted(d)] :
            plugins' = [n \in DOMAIN namelist |-> Plugin(namelist[n].file)] \o Tail(plugins)
      BY <1>3 DEF ReadDirectory
    <2>4. [n \in DOMAIN namelist |-> Plugin(namelist[n].file)] \in Seq(Options)
      BY <2>2, FilesAreOptions
    <2>5. plugins' \in Seq(Options)
      BY <2>1, <2>3, <2>4
    <2> QED BY <1>3, <2>5 DEF ReadDirectory
  <1>4. CASE \/ GetUsageOption \/ CheckUsage \/ PluginInits \/ PluginsLoaded
             \/ OpeningFails \/ DoPrattPasses \/ CallHandler \/ PassOn
             \/ HandlerReturns \/ OtherStep \/ HihaKill \/ UNCHANGED hihaVars
    <2>1. options' = options /\ plugins' = plugins
      BY <1>4 DEF GetUsageOption, CheckUsage, PluginInits, PluginsLoaded, OpeningFails,
         DoPrattPasses, CallHandler, PassOn, HandlerReturns, OtherStep, RegularStep,
         FailingStep, HihaKill, hihaVars, startVars
    <2> QED BY <2>1
  <1> QED BY <1>1, <1>2, <1>3, <1>4 DEF HihaNext, HihaProgram, Start, RegularStart

\* What a step of the program does to the registry, and to the passes.

LEMMA StepOfTables == CommandOK /\ [HihaNext]_hihaVars => [TablesNext]_tableVars
  <1> SUFFICES ASSUME CommandOK, [HihaNext]_hihaVars PROVE [TablesNext]_tableVars
    OBVIOUS
  <1>1. CASE LoadOnePlugin
    <2>1. Head(plugins) \in Options
      BY <1>1 DEF CommandOK, LoadOnePlugin
    <2>2. Head(plugins).locator \in Libraries
      BY <1>1, <2>1, PluginIsOption DEF LoadOnePlugin
    <2> QED BY <1>1, <2>2 DEF LoadOnePlugin, TablesNext
  <1>2. CASE PluginInits
    BY <1>2 DEF PluginInits, TablesNext
  <1>3. CASE \/ GetOption \/ GetUsageOption \/ CheckUsage \/ ReadDirectory
             \/ PluginsLoaded \/ OpeningFails \/ DoPrattPasses \/ CallHandler
             \/ PassOn \/ HandlerReturns \/ OtherStep \/ HihaKill
             \/ UNCHANGED hihaVars
    BY <1>3 DEF GetOption, GetUsageOption, CheckUsage, ReadDirectory, PluginsLoaded,
       OpeningFails, DoPrattPasses, CallHandler, PassOn, HandlerReturns, OtherStep,
       RegularStep, FailingStep, HihaKill, hihaVars
  <1> QED BY <1>1, <1>2, <1>3 DEF HihaNext, HihaProgram, Start, RegularStart

LEMMA StepOfPasses == [HihaNext]_hihaVars => [Next]_vars
  <1> SUFFICES ASSUME [HihaNext]_hihaVars PROVE [Next]_vars
    OBVIOUS
  <1>1. CASE \/ GetOption \/ ReadDirectory \/ LoadOnePlugin \/ PluginInits
             \/ PluginsLoaded \/ CallHandler \/ PassOn \/ UNCHANGED hihaVars
    BY <1>1 DEF GetOption, ReadDirectory, LoadOnePlugin, PluginInits, PluginsLoaded,
       CallHandler, PassOn, hihaVars
  <1>2. CASE GetUsageOption \/ CheckUsage \/ OpeningFails
    BY <1>2 DEF GetUsageOption, CheckUsage, OpeningFails, Next, Program
  <1>3. CASE DoPrattPasses \/ HandlerReturns \/ OtherStep \/ HihaKill
    BY <1>3 DEF DoPrattPasses, HandlerReturns, OtherStep, RegularStep, FailingStep, HihaKill, Next,
                Program, Scan, Pass
  <1> QED BY <1>1, <1>2, <1>3 DEF HihaNext, HihaProgram, Start, RegularStart

\* The program fills the registry as its specification says.
LEMMA FillsTables == HihaSpec => TablesSpec
  <1>1. HihaInit => TablesInit
    BY DEF HihaInit
  <1> QED BY <1>1, CommandInit, CommandStep, StepOfTables, PTL
          DEF HihaSpec, TablesSpec

\* Whatever plugins it loads, main does the passes as do_pratt_passes does them
\* for any tables: what is proved of PrattPasses holds of the program.
THEOREM MakesPasses == HihaSpec => Spec
  <1>1. HihaInit => Init
    BY DEF HihaInit
  <1> QED BY <1>1, StepOfPasses, PTL DEF HihaSpec, Spec

\* It is so in the program, whatever its command line, one that loads a library
\* twice included (load_command_line_plugins).
THEOREM HihaSavesFormer == HihaSpec => []SavesFormer
  BY FillsTables, TablesSaveFormer, PTL

\* Whatever plugins there are and whatever they do, the program reports success
\* only when every pass has run to its end.
THEOREM HihaSuccessIsComplete == HihaSpec => []SuccessIsComplete
  BY MakesPasses, SuccessIsCompleteAlways, PTL

-------------------------------------------------------------------------------
\* The order of the passes, and what the plugins of src/plugins do to it.

\* There are finitely many names.
LEMMA FourAreFinite ==
    ASSUME NEW a, NEW b, NEW c, NEW d
    PROVE  IsFiniteSet({a, b, c, d})
  <1>1. IsFiniteSet({a})
    BY FS_Singleton
  <1>2. IsFiniteSet({a} \cup {b})
    BY <1>1, FS_AddElement
  <1>3. IsFiniteSet(({a} \cup {b}) \cup {c})
    BY <1>2, FS_AddElement
  <1>4. IsFiniteSet((({a} \cup {b}) \cup {c}) \cup {d})
    BY <1>3, FS_AddElement
  <1>5. (({a} \cup {b}) \cup {c}) \cup {d} = {a, b, c, d}
    OBVIOUS
  <1> QED BY <1>4, <1>5

LEMMA NamesAreRecords ==
    /\ Names \subseteq [number : Nat, part : Nat, text : Nat]
    /\ IsFiniteSet(Names)
  <1>1. Names \subseteq [number : Nat, part : Nat, text : Nat]
    BY DEF Names, Name, ScanDecimalIntegers, ScanIdentifiers, ScanStringLiterals,
       ScanSymbols, ScanWhiteSpace, ScanWithPoint, ScanExactRationals, ScanFloating,
       MarkKeywords, DumpTokens, RemoveSpaces, NonJuxtaposition, ParseTree, DumpParse
  <1>2. Names = {ScanDecimalIntegers, ScanIdentifiers, ScanStringLiterals, ScanSymbols}
                  \cup {ScanWhiteSpace, ScanWithPoint, ScanExactRationals, ScanFloating}
                  \cup {MarkKeywords, DumpTokens, RemoveSpaces, NonJuxtaposition}
                  \cup {ParseTree, DumpParse, DumpParse, DumpParse}
    BY DEF Names
  <1>3. IsFiniteSet(Names)
    BY <1>2, FourAreFinite, FS_Union
  <1> QED BY <1>1, <1>3

LEMMA BeforeIsOrder ==
    ASSUME NEW p \in Names, NEW q \in Names, NEW r \in Names
    PROVE  /\ ~ Before(p, p)
           /\ Before(p, q) /\ Before(q, r) => Before(p, r)
           /\ p # q => Before(p, q) \/ Before(q, p)
  <1>1. /\ p \in [number : Nat, part : Nat, text : Nat]
        /\ q \in [number : Nat, part : Nat, text : Nat]
        /\ r \in [number : Nat, part : Nat, text : Nat]
    BY NamesAreRecords
  <1>2. /\ p.number \in Nat /\ p.part \in Nat /\ p.text \in Nat
        /\ q.number \in Nat /\ q.part \in Nat /\ q.text \in Nat
        /\ r.number \in Nat /\ r.part \in Nat /\ r.text \in Nat
    BY <1>1
  <1>3. p # q => p.number # q.number \/ p.part # q.part \/ p.text # q.text
    BY <1>1
  <1>4. ~ Before(p, p)
    BY <1>2 DEF Before
  <1>5. Before(p, q) /\ Before(q, r) => Before(p, r)
    BY <1>2 DEF Before
  <1>6. p # q => Before(p, q) \/ Before(q, p)
    BY <1>2, <1>3 DEF Before
  <1> QED BY <1>4, <1>5, <1>6

\* How many passes of S come before a pass.
RankIn(S, p) == Cardinality({q \in S : Before(q, p)})

\* The ranks of the passes of a set are the numbers from 0 on.
LEMMA Ranks ==
    ASSUME NEW S \in SUBSET Names
    PROVE  /\ IsFiniteSet(S)
           /\ Cardinality(S) \in Nat
           /\ \A p \in S : RankIn(S, p) \in 0 .. Cardinality(S) - 1
           /\ \A p, q \in S : Before(p, q) => RankIn(S, p) < RankIn(S, q)
           /\ \A n \in 0 .. Cardinality(S) - 1 : \E p \in S : RankIn(S, p) = n
  <1> DEFINE Below(p) == {q \in S : Before(q, p)}
             N == Cardinality(S)
  <1>1. IsFiniteSet(S) /\ N \in Nat
    BY NamesAreRecords, FS_Subset, FS_CardinalityType
  <1>2. ASSUME NEW p \in S
        PROVE  IsFiniteSet(Below(p)) /\ Cardinality(Below(p)) \in Nat
    <2>1. Below(p) \in SUBSET S
      OBVIOUS
    <2>2. IsFiniteSet(Below(p))
      BY <1>1, <2>1, FS_Subset
    <2> QED BY <2>2, FS_CardinalityType
  <1>3. ASSUME NEW T, IsFiniteSet(T), NEW U \in SUBSET T, NEW x \in T, x \notin U
        PROVE  Cardinality(U) < Cardinality(T)
    <2>1. IsFiniteSet(U) /\ Cardinality(U) <= Cardinality(T) /\ Cardinality(U) # Cardinality(T)
      BY <1>3, FS_Subset
    <2>2. Cardinality(U) \in Nat /\ Cardinality(T) \in Nat
      BY <1>3, <2>1, FS_CardinalityType
    <2> QED BY <2>1, <2>2
  <1>4. ASSUME NEW p \in S
        PROVE  RankIn(S, p) \in 0 .. N - 1
    <2>1. p \notin Below(p)
      BY BeforeIsOrder
    <2>2. Below(p) \in SUBSET S
      OBVIOUS
    <2>3. Cardinality(Below(p)) < N
      BY <1>1, <1>3, <2>1, <2>2
    <2> HIDE DEF Below
    <2>4. Cardinality(Below(p)) \in 0 .. N - 1
      BY <1>1, <1>2, <2>3
    <2> QED BY <2>4 DEF RankIn, Below
  <1>5. ASSUME NEW p \in S, NEW q \in S, Before(p, q)
        PROVE  RankIn(S, p) < RankIn(S, q)
    <2>1. p \in Below(q) /\ p \notin Below(p)
      BY <1>5, BeforeIsOrder
    <2>2. Below(p) \in SUBSET Below(q)
      BY <1>5, BeforeIsOrder
    <2>3. Cardinality(Below(p)) < Cardinality(Below(q))
      BY <1>2, <1>3, <2>1, <2>2
    <2> QED BY <2>3 DEF RankIn
  <1>6. \A n \in 0 .. N - 1 : \E p \in S : RankIn(S, p) = n
    <2> DEFINE rank == [p \in S |-> RankIn(S, p)]
               Numbers == 0 .. N - 1
    <2>1. rank \in [S -> Numbers]
      BY <1>4
    <2>2. ASSUME NEW p \in S, NEW q \in S, rank[p] = rank[q]
          PROVE  p = q
      <3>1. RankIn(S, p) = RankIn(S, q) /\ RankIn(S, p) \in 0 .. N - 1
        BY <1>4, <2>2
      <3>2. ~ Before(p, q) /\ ~ Before(q, p)
        BY <1>1, <1>5, <3>1
      <3> QED BY <3>2, BeforeIsOrder
    <2>3. rank \in Injection(S, Numbers)
      <3> HIDE DEF rank, Numbers
      <3> QED BY <2>1, <2>2 DEF Injection, IsInjective
    <2>4. IsFiniteSet(Numbers) /\ Cardinality(Numbers) = N
      <3>1. 0 \in Int /\ N - 1 \in Int
        BY <1>1
      <3>2. /\ IsFiniteSet(0 .. N - 1)
            /\ Cardinality(0 .. N - 1) = IF 0 > N - 1 THEN 0 ELSE (N - 1) - 0 + 1
        BY <3>1, FS_Interval
      <3> QED BY <1>1, <3>2
    <2>5. rank \in Surjection(S, Numbers)
      <3> HIDE DEF rank, Numbers
      <3> QED BY <2>3, <2>4, FS_Injection
    <2>6. \A n \in Numbers : \E p \in S : rank[p] = n
      <3> HIDE DEF rank, Numbers
      <3> QED BY <2>5 DEF Surjection
    <2> QED BY <2>6
  <1> QED BY <1>1, <1>4, <1>5, <1>6

\* Each number up to that of the passes is the place of one that is there, and
\* the order of the passes is that of their places.
LEMMA PassAtFacts ==
    /\ Cardinality(Present) \in Nat
    /\ \A n \in 1 .. Cardinality(Present) :
          PassAt(n) \in Present /\ RankIn(Present, PassAt(n)) = n - 1
    /\ \A m, n \in 1 .. Cardinality(Present) :
          Before(PassAt(m), PassAt(n)) => m < n
  <1> DEFINE N == Cardinality(Present)
  <1>1. Present \in SUBSET Names
    BY PluginsAssumption DEF Present
  <1>2. /\ N \in Nat
        /\ \A p, q \in Present : Before(p, q) => RankIn(Present, p) < RankIn(Present, q)
        /\ \A n \in 0 .. N - 1 : \E p \in Present : RankIn(Present, p) = n
    <2> HIDE DEF N
    <2> QED BY <1>1, Ranks DEF N
  <1>3. ASSUME NEW n \in 1 .. N
        PROVE  PassAt(n) \in Present /\ RankIn(Present, PassAt(n)) = n - 1
    <2>1. n - 1 \in 0 .. N - 1
      BY <1>2
    <2>2. \E p \in Present : RankIn(Present, p) = n - 1
      BY <1>2, <2>1
    <2>3. PassAt(n) = CHOOSE p \in Present : RankIn(Present, p) = n - 1
      BY DEF PassAt, RankIn
    <2> QED BY <2>2, <2>3
  <1>4. ASSUME NEW m \in 1 .. N, NEW n \in 1 .. N, Before(PassAt(m), PassAt(n))
        PROVE  m < n
    <2>1. /\ PassAt(m) \in Present /\ RankIn(Present, PassAt(m)) = m - 1
          /\ PassAt(n) \in Present /\ RankIn(Present, PassAt(n)) = n - 1
      BY <1>3
    <2>2. RankIn(Present, PassAt(m)) < RankIn(Present, PassAt(n))
      BY <1>2, <1>4, <2>1
    <2>3. m - 1 < n - 1
      BY <2>1, <2>2
    <2> QED BY <1>2, <2>3
  <1> QED BY <1>2, <1>3, <1>4

-------------------------------------------------------------------------------
\* The entries that the plugins make.

LEMMA EntryFieldsOfPlugins ==
    ASSUME NEW f, NEW p, NEW s, NEW h, NEW v
    PROVE  /\ Replace(f, p, s, h).pass = p /\ Replace(f, p, s, h).slot = s
           /\ Replace(f, p, s, h).saves = Nothing
           /\ Hook(f, p, s, h, v).pass = p /\ Hook(f, p, s, h, v).slot = s
  BY DEF Replace, Hook

\* What the entry e of a plugin with number n is for.
EntryOf(n, e) ==
    \/ n = 10 /\ e.pass = ScanStringLiterals /\ e.slot = "CP"
    \/ n = 20 /\ e.pass = ScanWhiteSpace /\ e.slot = "CP"
    \/ n = 30 /\ e.pass = ScanDecimalIntegers /\ e.slot = "CP"
    \/ n = 40 /\ e.pass = ScanIdentifiers /\ e.slot = "CP"
    \/ n = 50 /\ e.pass = ScanWithPoint /\ e.slot = "I10"
    \/ n = 50 /\ e.pass = ScanFloating /\ e.slot = "I.I10"
    \/ n = 60 /\ e.pass = ScanExactRationals /\ e.slot = "I10"
    \/ n = 70 /\ e.pass = ScanSymbols /\ e.slot = "CP"
    \/ n = 80 /\ e.pass = MarkKeywords /\ e.slot \in {"CP", "SY", "ID"}
    \/ n = 90 /\ e.pass \in {DumpTokens, DumpParse} /\ e.slot = Default
    \/ n = 100 /\ e.pass = RemoveSpaces /\ e.slot = Default
    \/ n = 110 /\ e.pass = NonJuxtaposition /\ e.slot = "KW"
    \/ /\ n = 110 /\ e.pass = ParseTree
       /\ e.slot \in {Default, "EOF", "KW", "I10", "led_NJUX", "lbp_NJUX"}

\* Two entries of a plugin, the second of which saves what it finds.
FindsNothing(d, e) ==
    d.pass = e.pass /\ e.saves # Nothing => d.slot # e.slot /\ d.slot # Default

LEMMA OneEntry ==
    ASSUME NEW f, NEW inits, Len(inits) = 1, EntryOf(f.number, inits[1])
    PROVE  /\ \A j \in 1 .. Len(inits) : EntryOf(f.number, inits[j])
           /\ \A j, k \in 1 .. Len(inits) : j < k => FindsNothing(inits[j], inits[k])
  OBVIOUS

LEMMA PluginEntries ==
    ASSUME NEW f
    PROVE  /\ \A j \in 1 .. Len(PluginInitOf(f)) : EntryOf(f.number, PluginInitOf(f)[j])
           /\ \A j, k \in 1 .. Len(PluginInitOf(f)) :
                j < k => FindsNothing(PluginInitOf(f)[j], PluginInitOf(f)[k])
  <1> DEFINE all == PluginInitOf(f)
             Good(s) == /\ \A j \in 1 .. Len(s) : EntryOf(f.number, s[j])
                        /\ \A j, k \in 1 .. Len(s) : j < k => FindsNothing(s[j], s[k])
  <1>1. CASE f.number \in {10, 20, 30, 40}
    <2>1. Len(all) = 1 /\ EntryOf(f.number, all[1])
      BY <1>1, EntryFieldsOfPlugins
         DEF PluginInitOf, EntryOf, String, WhiteSpace, DecimalInteger, Identifier
    <2> QED BY <2>1, OneEntry
  <1>2. CASE f.number \in {60, 70, 100}
    <2>1. Len(all) = 1 /\ EntryOf(f.number, all[1])
      BY <1>2, EntryFieldsOfPlugins
         DEF PluginInitOf, EntryOf, DecimalFraction, Symbol, RemoveSpacesPlugin
    <2> QED BY <2>1, OneEntry
  <1>3. CASE f.number = 50
    <2>1. all = DecimalFloat(f)
      BY <1>3 DEF PluginInitOf
    <2>2. /\ all[1].pass = ScanWithPoint /\ all[1].slot = "I10"
          /\ all[2].pass = ScanFloating /\ all[2].slot = "I.I10"
          /\ Len(all) = 2
      BY <2>1, EntryFieldsOfPlugins DEF DecimalFloat
    <2>3. ScanWithPoint # ScanFloating
      BY DEF ScanWithPoint, ScanFloating, Name
    <2>4. Good(all)
      <3> HIDE DEF all
      <3> QED BY <1>3, <2>2, <2>3 DEF EntryOf, FindsNothing
    <2> QED BY <2>4
  <1>4. CASE f.number = 80
    <2>1. all = Keyword(f)
      BY <1>4 DEF PluginInitOf
    <2>2. /\ \A j \in 1 .. 3 : all[j].pass = MarkKeywords
          /\ all[1].slot = "CP" /\ all[2].slot = "SY" /\ all[3].slot = "ID"
          /\ Len(all) = 3
      BY <2>1, EntryFieldsOfPlugins DEF Keyword
    <2>4. Good(all)
      <3> HIDE DEF all
      <3> QED BY <1>4, <2>2 DEF EntryOf, FindsNothing, Default
    <2> QED BY <2>4
  <1>5. CASE f.number = 90
    <2>1. all = DumpTokensPlugin(f)
      BY <1>5 DEF PluginInitOf
    <2>2. /\ all[1].pass = DumpTokens /\ all[1].slot = Default
          /\ all[2].pass = DumpParse /\ all[2].slot = Default
          /\ Len(all) = 2
      BY <2>1, EntryFieldsOfPlugins DEF DumpTokensPlugin
    <2>3. DumpTokens # DumpParse
      BY DEF DumpTokens, DumpParse, Name
    <2>4. Good(all)
      <3> HIDE DEF all
      <3> QED BY <1>5, <2>2, <2>3 DEF EntryOf, FindsNothing
    <2> QED BY <2>4
  <1>6. CASE f.number = 110
    <2>1. all = ParseTreePlugin(f)
      BY <1>6 DEF PluginInitOf
    <2>2. /\ Len(all) = 7
          /\ all[1] = Hook(f, NonJuxtaposition, "KW", "kw_handler_100", "next_kw_handler_100")
          /\ all[2] = Replace(f, ParseTree, Default, "default_handler")
          /\ all[3] = Replace(f, ParseTree, "EOF", "passthrough_handler")
          /\ all[4] = Replace(f, ParseTree, "KW", "kw_handler_200")
          /\ all[5] = Replace(f, ParseTree, "I10", "reference_handler")
          /\ all[6] = Replace(f, ParseTree, "led_NJUX", "njux_handler")
          /\ all[7] = Replace(f, ParseTree, "lbp_NJUX", "njux_binding_power")
      BY <2>1 DEF ParseTreePlugin
    <2> HIDE DEF all
    <2>3. /\ all[1].pass = NonJuxtaposition /\ all[1].slot = "KW"
      BY <2>2, EntryFieldsOfPlugins
    <2>4. ASSUME NEW j \in {2, 3, 4, 5, 6, 7}
          PROVE  /\ all[j].pass = ParseTree /\ all[j].saves = Nothing
                 /\ all[j].slot \in {Default, "EOF", "KW", "I10", "led_NJUX", "lbp_NJUX"}
      <3>1. \E s \in {Default, "EOF", "KW", "I10", "led_NJUX", "lbp_NJUX"} :
              \E h : all[j] = Replace(f, ParseTree, s, h)
        BY <2>2
      <3> QED BY <3>1, EntryFieldsOfPlugins
    <2>5. Good(all)
      BY <1>6, <2>2, <2>3, <2>4 DEF EntryOf, FindsNothing
    <2> QED BY <2>5 DEF all
  <1>7. CASE f.number \notin {10, 20, 30, 40, 50, 60, 70, 80, 90, 100, 110}
    <2>1. all = <<>>
      BY <1>7 DEF PluginInitOf
    <2> QED BY <2>1
  <1> QED BY <1>1, <1>2, <1>3, <1>4, <1>5, <1>6, <1>7

\* The numbers and the texts of the names, as far as they matter below.
LEMMA NameFields ==
    /\ ScanDecimalIntegers.number = 100 /\ ScanDecimalIntegers.text = 1
    /\ ScanIdentifiers.number = 100 /\ ScanIdentifiers.text = 2
    /\ ScanStringLiterals.number = 100 /\ ScanStringLiterals.text = 3
    /\ ScanSymbols.number = 100 /\ ScanSymbols.text = 4
    /\ ScanWhiteSpace.number = 100 /\ ScanWhiteSpace.text = 5
    /\ ScanWithPoint.number = 200 /\ ScanWithPoint.text = 1
    /\ ScanExactRationals.number = 200 /\ ScanExactRationals.text = 2
    /\ ScanFloating.number = 300 /\ ScanFloating.text = 1
    /\ MarkKeywords.number = 500 /\ MarkKeywords.text = 1
    /\ DumpTokens.number = 1000 /\ DumpTokens.text = 1
    /\ RemoveSpaces.number = 1500 /\ RemoveSpaces.text = 1
    /\ NonJuxtaposition.number = 2000 /\ NonJuxtaposition.text = 1
    /\ ParseTree.number = 2000 /\ ParseTree.text = 1
    /\ DumpParse.number = 2500 /\ DumpParse.text = 1
  BY DEF Name, ScanDecimalIntegers, ScanIdentifiers, ScanStringLiterals, ScanSymbols,
     ScanWhiteSpace, ScanWithPoint, ScanExactRationals, ScanFloating, MarkKeywords,
     DumpTokens, RemoveSpaces, NonJuxtaposition, ParseTree, DumpParse

\* Each pass is of one plugin.
LEMMA OneOwner ==
    ASSUME NEW m, NEW n, NEW d, NEW e, EntryOf(m, d), EntryOf(n, e), d.pass = e.pass
    PROVE  m = n
  <1> DEFINE Owned(o, p) ==
        \/ o = 10 /\ p.number = 100 /\ p.text = 3
        \/ o = 20 /\ p.number = 100 /\ p.text = 5
        \/ o = 30 /\ p.number = 100 /\ p.text = 1
        \/ o = 40 /\ p.number = 100 /\ p.text = 2
        \/ o = 50 /\ p.number = 200 /\ p.text = 1
        \/ o = 50 /\ p.number = 300
        \/ o = 60 /\ p.number = 200 /\ p.text = 2
        \/ o = 70 /\ p.number = 100 /\ p.text = 4
        \/ o = 80 /\ p.number = 500
        \/ o = 90 /\ p.number \in {1000, 2500}
        \/ o = 100 /\ p.number = 1500
        \/ o = 110 /\ p.number = 2000
  <1>1. ASSUME NEW o, NEW c, EntryOf(o, c)
        PROVE  Owned(o, c.pass)
    <2>1. \/ o = 10 /\ c.pass = ScanStringLiterals
          \/ o = 20 /\ c.pass = ScanWhiteSpace
          \/ o = 30 /\ c.pass = ScanDecimalIntegers
          \/ o = 40 /\ c.pass = ScanIdentifiers
          \/ o = 50 /\ c.pass = ScanWithPoint
          \/ o = 50 /\ c.pass = ScanFloating
          \/ o = 60 /\ c.pass = ScanExactRationals
          \/ o = 70 /\ c.pass = ScanSymbols
          \/ o = 80 /\ c.pass = MarkKeywords
          \/ o = 90 /\ c.pass = DumpTokens
          \/ o = 90 /\ c.pass = DumpParse
          \/ o = 100 /\ c.pass = RemoveSpaces
          \/ o = 110 /\ c.pass = NonJuxtaposition
          \/ o = 110 /\ c.pass = ParseTree
      BY <1>1 DEF EntryOf
    <2> QED BY <2>1, NameFields
  <1>2. ASSUME NEW p, Owned(m, p), Owned(n, p)
        PROVE  m = n
    BY <1>2
  <1>3. Owned(m, d.pass) /\ Owned(n, d.pass)
    BY <1>1
  <1> HIDE DEF Owned
  <1> QED BY <1>2, <1>3

\* A pass comes after those that make what it has handlers for.
LEMMA MadeBefore ==
    ASSUME NEW n, NEW e, EntryOf(n, e), NEW p, e.slot \in Makes(p)
    PROVE  Before(p, e.pass)
  <1>1. \/ e.slot = "I10" /\ p = ScanDecimalIntegers
        \/ e.slot = "I.I10" /\ p = ScanWithPoint
        \/ e.slot = "SY" /\ p = ScanSymbols
        \/ e.slot = "ID" /\ p = ScanIdentifiers
        \/ e.slot = "KW" /\ p = MarkKeywords
    <2>1. e.slot \in {"CP", "I10", "I.I10", "SY", "ID", "KW", "EOF", Default,
                     "led_NJUX", "lbp_NJUX"}
      BY DEF EntryOf
    <2>2. e.slot \in {"I10", "I.I10", "SY", "ID", "KW"}
      BY <2>1 DEF Makes, Default
    <2> QED BY <2>2 DEF Makes
  <1>2. \/ p = ScanDecimalIntegers /\ e.pass \in {ScanWithPoint, ScanExactRationals, ParseTree}
        \/ p = ScanWithPoint /\ e.pass = ScanFloating
        \/ p = ScanSymbols /\ e.pass = MarkKeywords
        \/ p = ScanIdentifiers /\ e.pass = MarkKeywords
        \/ p = MarkKeywords /\ e.pass \in {NonJuxtaposition, ParseTree}
    BY <1>1 DEF EntryOf, Default
  <1> QED BY <1>2 DEF Before, Name, ScanDecimalIntegers, ScanIdentifiers, 
       ScanSymbols, ScanWithPoint, ScanExactRationals, ScanFloating,
       MarkKeywords, NonJuxtaposition, ParseTree

LEMMA KindsAreSlots ==
    ASSUME NEW root
    PROVE  KindsIn(root) \subseteq Slots /\ "EOF" \in Slots
  <1>1. ASSUME NEW p
        PROVE  Makes(p) \subseteq Slots
    <2>1. CASE p \in Names
      BY <2>1, PluginsAssumption
    <2>2. CASE p \notin Names
      BY <2>2 DEF Makes, Names
    <2> QED BY <2>1, <2>2
  <1> QED BY <1>1, PluginsAssumption DEF KindsIn

-------------------------------------------------------------------------------
\* Where the entries come from.

LastInit == PluginInit[loaded[Len(loaded)]]

\* What is to be made is the end of what the plugin loaded last makes.
RestToDo ==
    todo # <<>> =>
        /\ loaded # <<>>
        /\ Len(todo) <= Len(LastInit)
        /\ \A n \in 1 .. Len(todo) : todo[n] = LastInit[Len(LastInit) - Len(todo) + n]

\* What has been made is of some plugin, if the last one then not of its rest.
MadeByLoaded ==
    \A k \in 1 .. Len(made) :
        \E a \in 1 .. Len(loaded) : \E j \in 1 .. Len(PluginInit[loaded[a]]) :
            /\ made[k] = PluginInit[loaded[a]][j]
            /\ a = Len(loaded) => j <= Len(PluginInit[loaded[a]]) - Len(todo)

\* No plugin that is there once has a handler to pass tokens on to.
FindsPassthrough ==
    ~ SamePluginTwice =>
        \A k \in 1 .. Len(made) :
            made[k].saves # Null => saved[made[k].saves] = Passthrough

MadeIInv == TablesIInv /\ RestToDo /\ MadeByLoaded /\ FindsPassthrough

LEMMA MadeInit == TablesInit => MadeIInv
  <1> SUFFICES ASSUME TablesInit PROVE MadeIInv
    OBVIOUS
  <1>1. Len(made) = 0 /\ todo = <<>>
    BY DEF TablesInit
  <1> QED BY <1>1, TablesInitIInv DEF MadeIInv, RestToDo, MadeByLoaded, FindsPassthrough

LEMMA MadeLoad ==
    ASSUME MadeIInv, NEW library \in Libraries, LoadPlugin(library)
    PROVE  MadeIInv'
  <1> DEFINE L == Len(loaded)
  <1>1. /\ loaded \in Seq(Libraries) /\ L \in Nat /\ Len(made) \in Nat
        /\ loaded' = Append(loaded, library) /\ made' = made /\ saved' = saved
        /\ todo = <<>> /\ todo' = PluginInit[library]
    BY DEF MadeIInv, TablesIInv, TablesTypeOK, LoadPlugin
  <1>2. /\ Len(loaded') = L + 1 /\ loaded'[L + 1] = library
        /\ \A a \in 1 .. L : loaded'[a] = loaded[a]
        /\ DOMAIN loaded = 1 .. L /\ DOMAIN loaded' = 1 .. L + 1
    BY <1>1
  <1>3. TablesIInv'
    BY LoadPluginStep DEF MadeIInv
  <1> HIDE DEF L
  <1>4. RestToDo'
    <2>1. LastInit' = todo'
      BY <1>1, <1>2 DEF LastInit
    <2>2. Len(todo') \in Nat
      BY <1>1, TablesAssumption
    <2>3. ASSUME NEW n \in 1 .. Len(todo')
          PROVE  Len(todo') - Len(todo') + n = n
      BY <2>2
    <2>4. loaded' # <<>>
      BY <1>1, <1>2
    <2> QED BY <2>1, <2>2, <2>3, <2>4 DEF RestToDo
  <1>5. MadeByLoaded'
    <2> SUFFICES ASSUME NEW k \in 1 .. Len(made')
                 PROVE  \E a \in 1 .. Len(loaded') : \E j \in 1 .. Len(PluginInit[loaded'[a]]) :
                            /\ made'[k] = PluginInit[loaded'[a]][j]
                            /\ a = Len(loaded') => j <= Len(PluginInit[loaded'[a]]) - Len(todo')
      BY DEF MadeByLoaded
    <2>1. PICK a \in 1 .. L : \E j \in 1 .. Len(PluginInit[loaded[a]]) :
            made[k] = PluginInit[loaded[a]][j]
      BY <1>1 DEF MadeIInv, MadeByLoaded, L
    <2>2. a \in 1 .. Len(loaded') /\ a # Len(loaded') /\ loaded'[a] = loaded[a]
      BY <1>1, <1>2, <2>1
    <2>3. made'[k] = made[k]
      BY <1>1
    <2> QED BY <2>1, <2>2, <2>3
  <1>6. FindsPassthrough'
    <2>1. SamePluginTwice => SamePluginTwice'
      BY <1>1, <1>2 DEF SamePluginTwice
    <2> QED BY <1>1, <2>1 DEF MadeIInv, FindsPassthrough
  <1> QED BY <1>3, <1>4, <1>5, <1>6 DEF MadeIInv

\* A plugin finds nothing but passthrough_nud_handler, if it is there once: the
\* pass is its own, and what it has put there is for other slots.
LEMMA FoundIsPassthrough ==
    ASSUME MadeIInv, ~ SamePluginTwice, todo # <<>>, Head(todo).saves # Null
    PROVE  NudGet(TablesOf(Head(todo).pass), Head(todo).slot) = Passthrough
  <1> DEFINE e == Head(todo)
             L == Len(loaded)
             t == Len(LastInit) - Len(todo) + 1
             found == NudGet(TablesOf(e.pass), e.slot)
  <1>1. /\ todo \in Seq(Entries) /\ Len(todo) \in Nat /\ Len(todo) > 0
        /\ made \in Seq(Entries) /\ Len(made) \in Nat
        /\ loaded \in Seq(Libraries) /\ L \in Nat /\ L > 0 /\ DOMAIN loaded = 1 .. L
        /\ e = todo[1] /\ e \in Entries
    BY DEF MadeIInv, TablesIInv, TablesTypeOK, RestToDo
  <1>2. /\ loaded[L] \in Libraries
        /\ LastInit = PluginInitOf(loaded[L]) /\ Len(LastInit) \in Nat
    BY <1>1, PluginsAssumption, TablesAssumption DEF LastInit
  <1>3. t \in 1 .. Len(LastInit) /\ e = LastInit[t]
    <2>1. Len(todo) <= Len(LastInit)
      BY DEF MadeIInv, RestToDo
    <2>2. todo[1] = LastInit[t]
      BY <1>1 DEF MadeIInv, RestToDo
    <2> QED BY <1>1, <1>2, <2>1, <2>2
  <1>4. /\ DOMAIN loaded = 1 .. L /\ L \in 1 .. L
        /\ \A a \in 1 .. L : loaded[a] \in Libraries
    BY <1>1
  <1>5. WasThere(found, made, Len(made), e.pass, e.slot)
    BY <1>1, FoundWasThere, EntryFields DEF MadeIInv
  <1>6. ASSUME NEW k \in 1 .. Len(made), made[k].pass = e.pass,
               made[k].slot = e.slot \/ made[k].slot = DefaultNud
        PROVE  FALSE
    <2>1. PICK a \in 1 .. L : \E j \in 1 .. Len(PluginInit[loaded[a]]) :
            /\ made[k] = PluginInit[loaded[a]][j]
            /\ a = L => j <= Len(PluginInit[loaded[a]]) - Len(todo)
      BY <1>6 DEF MadeIInv, MadeByLoaded
    <2>2. PICK j \in 1 .. Len(PluginInit[loaded[a]]) :
            /\ made[k] = PluginInit[loaded[a]][j]
            /\ a = L => j <= Len(PluginInit[loaded[a]]) - Len(todo)
      BY <2>1
    <2>3. loaded[a] \in Libraries /\ PluginInit[loaded[a]] = PluginInitOf(loaded[a])
      <3>1. loaded[a] \in Libraries
        BY <1>4, <2>1
      <3> QED BY <3>1, PluginsAssumption
    <2>4. EntryOf(loaded[a].number, made[k])
      BY <2>2, <2>3, PluginEntries
    <2>5. EntryOf(loaded[L].number, e)
      BY <1>2, <1>3, PluginEntries
    <2>6. loaded[a].number = loaded[L].number
      BY <1>6, <2>4, <2>5, OneOwner
    <2>7. a = L
      <3>1. a \in DOMAIN loaded /\ L \in DOMAIN loaded
        BY <1>4, <2>1
      <3> QED BY <2>6, <3>1 DEF SamePluginTwice
    <2>8. made[k] = LastInit[j] /\ j < t /\ j \in 1 .. Len(LastInit)
      BY <1>1, <1>2, <2>2, <2>7 DEF LastInit
    <2>9. FindsNothing(made[k], e)
      BY <1>2, <1>3, <2>8, PluginEntries
    <2> QED BY <1>6, <2>9, PluginsAssumption DEF FindsNothing
  <1>7. /\ EntriesFor(made, Len(made), e.pass, e.slot) = {}
        /\ EntriesFor(made, Len(made), e.pass, DefaultNud) = {}
    BY <1>6 DEF EntriesFor
  <1> HIDE DEF found, e
  <1>8. found = Passthrough
    BY <1>5, <1>7 DEF WasThere, IsLatest
  <1> QED BY <1>8 DEF found, e

LEMMA MadeMake ==
    ASSUME MadeIInv, MakeEntry
    PROVE  MadeIInv'
  <1> DEFINE e == Head(todo)
             found == NudGet(TablesOf(e.pass), e.slot)
             N == Len(made)
             T == Len(todo)
  <1>1. /\ todo \in Seq(Entries) /\ T \in Nat /\ T > 0 /\ e = todo[1] /\ e \in Entries
        /\ made \in Seq(Entries) /\ N \in Nat
        /\ loaded \in Seq(Libraries) /\ loaded # <<>>
        /\ Len(loaded) \in 1 .. Len(loaded)
        /\ saved \in [Variables -> Handlers \cup {Null}]
    BY DEF MadeIInv, TablesIInv, TablesTypeOK, RestToDo, MakeEntry
  <1>2. /\ made' = Append(made, e) /\ todo' = Tail(todo) /\ loaded' = loaded
        /\ saved' = IF e.saves = Null THEN saved ELSE [saved EXCEPT ![e.saves] = found]
    BY DEF MakeEntry
  <1>3. /\ Len(made') = N + 1 /\ made'[N + 1] = e
        /\ \A k \in 1 .. N : made'[k] = made[k]
        /\ Len(todo') = T - 1
        /\ \A n \in 1 .. T - 1 : todo'[n] = todo[n + 1]
    BY <1>1, <1>2
  <1>4. TablesIInv'
    BY MakeEntryStep DEF MadeIInv
  <1>5. /\ LastInit' = LastInit /\ Len(LastInit) \in Nat
        /\ T <= Len(LastInit)
        /\ \A n \in 1 .. T : todo[n] = LastInit[Len(LastInit) - T + n]
    <2>1. LastInit' = LastInit
      BY <1>2 DEF LastInit
    <2>2. Len(LastInit) \in Nat
      BY <1>1, TablesAssumption DEF LastInit
    <2>3. todo # <<>>
      BY DEF MakeEntry
    <2> QED BY <2>1, <2>2, <2>3 DEF MadeIInv, RestToDo
  <1>6. FindsPassthrough'
    <2> SUFFICES ASSUME ~ SamePluginTwice, NEW k \in 1 .. N + 1, made'[k].saves # Null
                 PROVE  saved'[made'[k].saves] = Passthrough
      BY <1>2, <1>3 DEF FindsPassthrough, SamePluginTwice
    <2>1. made'[k] \in Entries
      BY <1>1, <1>3
    <2>2. made'[k].saves \in Variables
      BY <2>1, EntryFields
    <2>3. k # N + 1 => saved[made'[k].saves] = Passthrough
      <3> SUFFICES ASSUME k # N + 1 PROVE saved[made'[k].saves] = Passthrough
        OBVIOUS
      <3>1. k \in 1 .. N /\ made'[k] = made[k]
        BY <1>1, <1>3
      <3> QED BY <3>1 DEF MadeIInv, FindsPassthrough
    <2>4. e.saves # Null => found = Passthrough
      BY FoundIsPassthrough DEF MakeEntry
    <2> HIDE DEF found, e
    <2> QED BY <1>1, <1>2, <1>3, <2>2, <2>3, <2>4
  <1> HIDE DEF e, found, N, T
  <1>7. RestToDo'
    <2>1. ASSUME NEW n \in 1 .. T - 1
          PROVE  todo'[n] = LastInit[Len(LastInit) - (T - 1) + n]
      <3>1. n + 1 \in 1 .. T /\ Len(LastInit) - (T - 1) + n = Len(LastInit) - T + (n + 1)
        BY <1>1, <1>5
      <3> QED BY <1>3, <1>5, <3>1
    <2>2. T - 1 <= Len(LastInit)
      BY <1>1, <1>5
    <2> QED BY <1>1, <1>2, <1>3, <1>5, <2>1, <2>2 DEF RestToDo
  <1>8. MadeByLoaded'
    <2> SUFFICES ASSUME NEW k \in 1 .. N + 1
                 PROVE  \E a \in 1 .. Len(loaded) : \E j \in 1 .. Len(PluginInit[loaded[a]]) :
                            /\ made'[k] = PluginInit[loaded[a]][j]
                            /\ a = Len(loaded) => j <= Len(PluginInit[loaded[a]]) - (T - 1)
      BY <1>2, <1>3 DEF MadeByLoaded
    <2>1. CASE k = N + 1
      <3> DEFINE a == Len(loaded)
                 j == Len(LastInit) - T + 1
      <3>1. /\ j \in 1 .. Len(LastInit) /\ j <= Len(LastInit) - (T - 1)
            /\ made'[k] = LastInit[j]
        BY <1>1, <1>3, <1>5, <2>1
      <3> QED BY <1>1, <3>1 DEF LastInit
    <2>2. CASE k # N + 1
      <3>1. k \in 1 .. N /\ made'[k] = made[k]
        BY <1>1, <1>3, <2>2
      <3>2. PICK a \in 1 .. Len(loaded) : \E j \in 1 .. Len(PluginInit[loaded[a]]) :
              /\ made[k] = PluginInit[loaded[a]][j]
              /\ a = Len(loaded) => j <= Len(PluginInit[loaded[a]]) - T
        BY <3>1 DEF MadeIInv, MadeByLoaded, N, T
      <3>3. PICK j \in 1 .. Len(PluginInit[loaded[a]]) :
              /\ made[k] = PluginInit[loaded[a]][j]
              /\ a = Len(loaded) => j <= Len(PluginInit[loaded[a]]) - T
        BY <3>2
      <3>4. Len(PluginInit[loaded[a]]) \in Nat
        BY <1>1, <3>2, TablesAssumption
      <3>5. a = Len(loaded) => j <= Len(PluginInit[loaded[a]]) - (T - 1)
        BY <1>1, <3>3, <3>4
      <3> QED BY <3>1, <3>3, <3>5
    <2> QED BY <2>1, <2>2
  <1> QED BY <1>4, <1>6, <1>7, <1>8 DEF MadeIInv

LEMMA MadeStutter == MadeIInv /\ UNCHANGED tableVars => MadeIInv'
  <1> SUFFICES ASSUME MadeIInv, UNCHANGED tableVars PROVE MadeIInv'
    OBVIOUS
  <1>1. TablesIInv'
    BY TablesStutter DEF MadeIInv
  <1>2. RestToDo' /\ MadeByLoaded' /\ FindsPassthrough'
    BY DEF MadeIInv, RestToDo, MadeByLoaded, FindsPassthrough, LastInit,
           SamePluginTwice, tableVars
  <1> QED BY <1>1, <1>2 DEF MadeIInv

LEMMA MadeNext == MadeIInv /\ [TablesNext]_tableVars => MadeIInv'
  BY MadeLoad, MadeMake, MadeStutter DEF TablesNext

-------------------------------------------------------------------------------
\* The passes and the tables together.

\* The vector of passes is that of the tables, and stays so: the tables are
\* complete when it is made.
Counted == Running /\ pc # "begin" => n_vec = Cardinality(Present)

CallsInPass == call # Idle => pc \in {"pass", "killed"}

ProgramIInv ==
    /\ CommandOK /\ IInv /\ MadeIInv
    /\ Counted /\ CallsInPass /\ OwnHandlers

LEMMA ProgramInit == HihaInit => ProgramIInv
  <1> SUFFICES ASSUME HihaInit PROVE ProgramIInv
    OBVIOUS
  <1>1. CommandOK /\ IInv /\ MadeIInv
    BY CommandInit, InitIInv, MadeInit DEF HihaInit
  <1>2. pc = "begin" /\ call = Idle
    BY DEF HihaInit, Init
  <1> QED BY <1>1, <1>2 DEF ProgramIInv, Counted, CallsInPass, OwnHandlers

\* What the steps do to the passes once their tables are complete.
LEMMA LaterSteps ==
    ASSUME HandlerReturns \/ OtherStep \/ HihaKill
    PROVE  /\ n_vec' = n_vec /\ UNCHANGED tableVars
           /\ Running' => Running
           /\ pc # "begin" \/ pc' = "killed"
  <1>1. CASE HandlerReturns
    BY <1>1 DEF HandlerReturns, ParseToken, ParseEof, Running, vecVars
  <1>2. CASE HihaKill
    BY <1>2 DEF HihaKill, Kill, Running, vecVars
  <1>3. CASE OtherStep
    <2>1. UNCHANGED tableVars
      BY <1>3 DEF OtherStep, RegularStep, FailingStep
    <2>2. CASE Scan
      BY <2>1, <2>2 DEF Scan, OpenScan, OpenScanExits, ScanToken, ScanEof, ScanFails,
         CloseScan, Exit, Running, vecVars
    <2>3. CASE SkipPass \/ OpenPass \/ ParseFails \/ CloseGetter \/ CloseOutput \/ RemoveSource
      BY <2>1, <2>3 DEF SkipPass, OpenPass, ParseFails, CloseGetter, CloseOutput,
         RemoveSource, Running, vecVars
    <2>4. CASE EndPass \/ FileErrorExits \/ ReturnRoot \/ ExitMain
      BY <2>1, <2>4 DEF EndPass, FileErrorExits, ReturnRoot, ExitMain, Exit, Running, vecVars
    <2>5. CASE RemoveFile \/ RemoveDirectory \/ RemovalFails
      BY <2>1, <2>5 DEF RemoveFile, RemoveDirectory, RemovalFails, Running, vecVars
    <2> QED BY <1>3, <2>2, <2>3, <2>4, <2>5 DEF OtherStep, RegularStep, FailingStep, Scan
  <1> QED BY <1>1, <1>2, <1>3

LEMMA SamePresent ==
    UNCHANGED tableVars => Present' = Present /\ \A n : PassAt(n)' = PassAt(n)
  BY DEF tableVars, Present, PassAt, HasTables

\* Before the passes no handler is called.
LEMMA StartSteps ==
    ASSUME Start \/ DoPrattPasses
    PROVE  pc = "begin" /\ call' = call
  BY DEF Start, RegularStart, GetOption, GetUsageOption, CheckUsage, ReadDirectory,
     LoadOnePlugin, PluginInits, PluginsLoaded, OpeningFails, DoPrattPasses, ExitEarly, GetTables

LEMMA CountedStep ==
    ASSUME ProgramIInv, [HihaNext]_hihaVars
    PROVE  Counted'
  <1>1. Counted
    BY DEF ProgramIInv
  <1>2. CASE GetOption \/ ReadDirectory \/ LoadOnePlugin \/ PluginInits \/ PluginsLoaded
    <2>1. pc' = "begin"
      BY <1>2 DEF GetOption, ReadDirectory, LoadOnePlugin, PluginInits, PluginsLoaded, vars
    <2> QED BY <2>1 DEF Counted
  <1>3. CASE GetUsageOption \/ CheckUsage \/ OpeningFails
    <2>1. pc' \in {"begin", "exiting"}
      BY <1>3 DEF GetUsageOption, CheckUsage, OpeningFails, ExitEarly, Exit, vars
    <2> QED BY <2>1 DEF Counted, Running
  <1>4. CASE DoPrattPasses
    <2>1. Present' = Present /\ n_vec' = Cardinality(Present)
      BY <1>4, SamePresent DEF DoPrattPasses
    <2> QED BY <2>1 DEF Counted
  <1>5. CASE CallHandler \/ PassOn \/ UNCHANGED hihaVars
    <2>1. pc' = pc /\ n_vec' = n_vec /\ UNCHANGED tableVars
      BY <1>5 DEF CallHandler, PassOn, hihaVars, vars, vecVars
    <2> QED BY <1>1, <2>1, SamePresent DEF Counted, Running
  <1>6. CASE HandlerReturns \/ OtherStep \/ HihaKill
    <2>1. /\ n_vec' = n_vec /\ Present' = Present
          /\ Running' => Running
          /\ pc # "begin" \/ pc' = "killed"
      BY <1>6, LaterSteps, SamePresent
    <2>2. Running' => pc' # "killed"
      BY DEF Running
    <2> QED BY <1>1, <2>1, <2>2 DEF Counted
  <1> QED BY <1>2, <1>3, <1>4, <1>5, <1>6 DEF HihaNext, HihaProgram, Start, RegularStart

\* A pass calls what its own tables hold for a kind of token.
LEMMA OwnCall ==
    ASSUME ProgramIInv, CallHandler
    PROVE  \/ call' = Passthrough
           \/ \E k \in DOMAIN made : made[k].pass = PassAt(i + 1) /\ made[k].handler = call'
  <1> DEFINE p == PassAt(i + 1)
  <1>1. PICK kind \in Slots : call' = NudGet(tables[p], kind)
    BY KindsAreSlots DEF CallHandler
  <1>2. i \in Nat /\ i < n_vec /\ n_vec = Cardinality(Present) /\ n_vec \in Nat
    <2>1. pc = "pass"
      BY DEF CallHandler
    <2>2. n_vec = Cardinality(Present)
      BY <2>1 DEF ProgramIInv, Counted, Running
    <2>3. InTheMaking
      BY <2>1 DEF ProgramIInv, IInv, AtPlace
    <2>4. i \in Nat /\ n_vec \in Nat
      BY InvFacts DEF ProgramIInv
    <2> QED BY <2>2, <2>3, <2>4 DEF InTheMaking
  <1>3. p \in Present
    <2>1. i + 1 \in 1 .. Cardinality(Present)
      BY <1>2
    <2> QED BY <2>1, PassAtFacts
  <1> HIDE DEF p
  <1>4. p \in PassNames /\ TablesOf(p) = tables[p]
    BY <1>3 DEF Present, TablesOf
  <1>5. WasThere(call', made, Len(made), p, kind)
    BY <1>1, <1>4, FoundWasThere DEF ProgramIInv, MadeIInv
  <1>6. \A s : EntriesFor(made, Len(made), p, s) \subseteq DOMAIN made
    BY DEF EntriesFor, ProgramIInv, MadeIInv, TablesIInv, TablesTypeOK
  <1>7. \A s : \A k \in EntriesFor(made, Len(made), p, s) : made[k].pass = p
    BY DEF EntriesFor
  <1> QED BY <1>5, <1>6, <1>7 DEF WasThere, IsLatest, p

\* A handler of a plugin that is there once has none to pass its token on to
\* but passthrough_nud_handler.
LEMMA OwnPassOn ==
    ASSUME ProgramIInv, PassOn, ~ SamePluginTwice
    PROVE  call' = Passthrough
  <1>1. PICK v \in PassesOnTo(call) : call' = saved[v]
    BY DEF PassOn
  <1>2. PICK k \in DOMAIN made : v = made[k].saves /\ v # Null
    BY DEF PassesOnTo
  <1>3. k \in 1 .. Len(made)
    BY <1>2 DEF ProgramIInv, MadeIInv, TablesIInv, TablesTypeOK
  <1> QED BY <1>1, <1>2, <1>3 DEF ProgramIInv, MadeIInv, FindsPassthrough

LEMMA OwnStep ==
    ASSUME ProgramIInv, [HihaNext]_hihaVars
    PROVE  CallsInPass' /\ OwnHandlers'
  <1>1. CallsInPass /\ OwnHandlers
    BY DEF ProgramIInv
  <1>2. CASE Start \/ DoPrattPasses
    <2>1. call' = Idle
      BY <1>1, <1>2, StartSteps DEF CallsInPass
    <2> QED BY <2>1 DEF CallsInPass, OwnHandlers
  <1>3. CASE HandlerReturns \/ OtherStep
    <2>1. call' = Idle
      BY <1>3 DEF HandlerReturns, OtherStep, RegularStep, FailingStep
    <2> QED BY <2>1 DEF CallsInPass, OwnHandlers
  <1>4. CASE CallHandler \/ PassOn
    <2>1. /\ pc' = pc /\ pc = "pass" /\ i' = i /\ UNCHANGED tableVars
          /\ made' = made /\ loaded' = loaded
      BY <1>4 DEF CallHandler, PassOn, vars, passVars, tableVars
    <2>2. PassAt(i + 1)' = PassAt(i + 1) /\ (SamePluginTwice' <=> SamePluginTwice)
      BY <2>1, SamePresent DEF SamePluginTwice, PassAt
    <2>3. \/ SamePluginTwice \/ call' = Passthrough
          \/ \E k \in DOMAIN made : made[k].pass = PassAt(i + 1) /\ made[k].handler = call'
      BY <1>4, OwnCall, OwnPassOn
    <2> QED BY <2>1, <2>2, <2>3 DEF CallsInPass, OwnHandlers
  <1>5. CASE HihaKill \/ UNCHANGED hihaVars
    <2>1. /\ pc' \in {pc, "killed"} /\ i' = i /\ UNCHANGED tableVars
          /\ made' = made /\ loaded' = loaded /\ call' = call
      BY <1>5 DEF HihaKill, Kill, hihaVars, vars, passVars, tableVars
    <2>2. PassAt(i + 1)' = PassAt(i + 1) /\ (SamePluginTwice' <=> SamePluginTwice)
      BY <2>1, SamePresent DEF SamePluginTwice, PassAt
    <2> QED BY <1>1, <2>1, <2>2 DEF CallsInPass, OwnHandlers
  <1> QED BY <1>2, <1>3, <1>4, <1>5 DEF HihaNext, HihaProgram

LEMMA ProgramStep == ProgramIInv /\ [HihaNext]_hihaVars => ProgramIInv'
  <1> SUFFICES ASSUME ProgramIInv, [HihaNext]_hihaVars PROVE ProgramIInv'
    OBVIOUS
  <1>1. CommandOK'
    BY CommandStep DEF ProgramIInv
  <1>2. IInv'
    BY StepOfPasses, NextIInv DEF ProgramIInv
  <1>3. MadeIInv'
    BY StepOfTables, MadeNext DEF ProgramIInv
  <1> QED BY <1>1, <1>2, <1>3, CountedStep, OwnStep DEF ProgramIInv

\* The order of the names puts a pass that has a handler for a kind of token
\* after the passes that make the kind.
LEMMA KindsFromNames == ProgramIInv => KindsMadeBefore
  <1> SUFFICES ASSUME ProgramIInv, pc = "start",
                      NEW m \in 1 .. n_vec, NEW n \in 1 .. n_vec, NEW k \in DOMAIN made,
                      made[k].pass = PassAt(n), made[k].slot \in Makes(PassAt(m))
               PROVE  m < n
    BY DEF KindsMadeBefore
  <1>1. n_vec = Cardinality(Present)
    BY DEF ProgramIInv, Counted, Running
  <1>2. k \in 1 .. Len(made) /\ loaded \in Seq(Libraries)
    BY DEF ProgramIInv, MadeIInv, TablesIInv, TablesTypeOK
  <1>3. PICK a \in 1 .. Len(loaded) : \E j \in 1 .. Len(PluginInit[loaded[a]]) :
          made[k] = PluginInit[loaded[a]][j]
    BY <1>2 DEF ProgramIInv, MadeIInv, MadeByLoaded
  <1>4. PluginInit[loaded[a]] = PluginInitOf(loaded[a])
    <2>1. loaded[a] \in Libraries
      BY <1>2, <1>3
    <2> QED BY <2>1, PluginsAssumption
  <1>5. EntryOf(loaded[a].number, made[k])
    BY <1>3, <1>4, PluginEntries
  <1>6. Before(PassAt(m), PassAt(n))
    BY <1>5, MadeBefore
  <1> QED BY <1>1, <1>6, PassAtFacts

\* Whatever plugins are loaded and from where, unless one is there twice, each
\* pass calls handlers of its own tables only (execute_null_denotation).
THEOREM HihaOwnHandlers == HihaSpec => []OwnHandlers
  <1>1. ProgramIInv => OwnHandlers
    BY DEF ProgramIInv
  <1> QED BY <1>1, ProgramInit, ProgramStep, PTL DEF HihaSpec

\* Whatever plugins are loaded and in whatever order, a pass comes after those
\* that make the kinds of token it has handlers for (filevercmp).
THEOREM HihaKindsMadeBefore == HihaSpec => []KindsMadeBefore
  BY KindsFromNames, ProgramInit, ProgramStep, PTL DEF HihaSpec
===============================================================================
