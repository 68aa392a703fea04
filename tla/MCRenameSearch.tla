--------------------------- MODULE MCRenameSearch ----------------------------
(***************************************************************************)
(* Small instances of RenameSearch: three new files against two or three   *)
(* deleted ones with all scores around the limits, and up to four renames  *)
(* of an older release, in any order, next to a rename that is found.      *)
(***************************************************************************)
EXTENDS RenameSearch, TLC

MCKindOf == [n \in Node |-> "F"]
MCNoScore == -100

File(h, last) == [kind |-> "F", deleted |-> FALSE, ghosted |-> FALSE,
                  rename |-> FALSE, hash |-> h, last |-> last]
Gone(last)    == [kind |-> ".", deleted |-> TRUE, ghosted |-> FALSE,
                  rename |-> FALSE, hash |-> ZeroHash, last |-> last]
Renamed(e)    == [e EXCEPT !.rename = TRUE, !.hash = "x"]

\* New files T and deleted files S; the scores are given.
Search(T, S, rate) ==
    [old  |-> [p \in S |-> File("x", 1)],
     new  |-> [p \in T \cup S |-> IF p \in T THEN File("y", 2) ELSE Gone(2)],
     rate |-> rate @@ [ts \in Pairs |-> NoScore]]

Searches ==
    {Search({1, 2, 3}, {4, 5}, rate) : rate \in [{1, 2, 3} \X {4, 5} -> {10, 20, 30, 40}]}
    \cup {Search({1, 2, 3}, {4, 5, 6}, rate) :
            rate \in [{1, 2, 3} \X {4, 5, 6} -> {20, 30}]}
    \cup {Search({1}, {4, 5}, rate) : rate \in [{1} \X {4, 5} -> {NoScore, 10, 20}]}
    \cup {Search({}, {4}, <<>>), Search({1}, {}, <<>>)}

\* Renames of release 1 at the paths of C, deleted or not; 5 and 6 are new.
Carry(C, deleted) ==
    [old  |-> [p \in C |-> Renamed(IF deleted[p] THEN Gone(1) ELSE File("x", 1))]
              @@ (6 :> File("x", 1)),
     new  |-> [p \in C |-> Renamed(IF deleted[p] THEN Gone(1) ELSE File("x", 1))]
              @@ (5 :> File("x", 2)) @@ (6 :> Gone(2)),
     rate |-> [ts \in Pairs |-> 20]]

Carries == UNION {{Carry(C, d) : d \in [C -> BOOLEAN]} : C \in SUBSET (1..4)}

MCProblems == Searches \cup Carries
=============================================================================
