---------------------------- MODULE RenameChoice -----------------------------
(***************************************************************************)
(* What rename_detection is for: new files are paired with deleted ones,   *)
(* each file at most once, always the two that resemble each other most    *)
(* among those still alone, until no two resemble each other enough.       *)
(***************************************************************************)
EXTENDS Integers

CONSTANT MinScore   \* what counts as resembling

VARIABLES
    targets,   \* the new files
    sources,   \* the deleted files
    rate,      \* [targets \X sources -> Int]: how much two files resemble
    pairs,     \* the pairs made so far
    stopped

vars == <<targets, sources, rate, pairs, stopped>>

\* The pairs that could still be made.
Open == {ts \in targets \X sources :
            /\ rate[ts] >= MinScore
            /\ \A us \in pairs : us[1] # ts[1] /\ us[2] # ts[2]}

Init == pairs = {} /\ stopped = FALSE

Pair(ts) ==
    /\ ~stopped
    /\ \A us \in Open : rate[us] <= rate[ts]
    /\ pairs' = pairs \cup {ts}
    /\ UNCHANGED <<targets, sources, rate, stopped>>

Stop ==
    /\ ~stopped /\ Open = {}
    /\ stopped' = TRUE
    /\ UNCHANGED <<targets, sources, rate, pairs>>

\* The pair that is the last one possible is made and the search ends at once.
PairAndStop(ts) ==
    /\ ~stopped
    /\ \A us \in Open : rate[us] <= rate[ts]
    /\ \A us \in Open : us[1] = ts[1] \/ us[2] = ts[2]
    /\ pairs' = pairs \cup {ts} /\ stopped' = TRUE
    /\ UNCHANGED <<targets, sources, rate>>

Next == \/ \E ts \in Open : Pair(ts) \/ PairAndStop(ts)
        \/ Stop

Spec == Init /\ [][Next]_vars
=============================================================================
