---------------------------- MODULE RenameSearch -----------------------------
(***************************************************************************)
(* rename.c, as it is run on a new manifest that match_manifests has       *)
(* compared with the old one: rename_detection searches for the deleted    *)
(* file each new file was probably renamed from, and clean_renames, with   *)
(* final_link, links what older releases renamed and drops the orphans.    *)
(*                                                                         *)
(* How much two files resemble each other is data (rename_score looks at   *)
(* names, sizes and types only).  Where the code takes the first of        *)
(* several equally good ones in its list, the model takes any.             *)
(***************************************************************************)
EXTENDS ManifestOps

CONSTANTS
    Problems,   \* the inputs considered: [old, new: FileList, rate: scores]
    MinScore,   \* 15.0, the score a pair must have
    NoScore,    \* -100, what score_file starts from
    None        \* NULL, for a rename_peer

Pairs == Path \X Path

ASSUME SearchAssumption ==
    /\ MinScore \in Int /\ NoScore \in Int /\ NoScore < MinScore
    /\ None \notin Path
    /\ Renames = TRUE
    /\ \A p \in Problems :
         /\ p.rate \in [Pairs -> Int]
         /\ IsFileList(p.old) /\ IsFileList(p.new)
         \* flags come from the old manifest, together with an older date
         /\ \A f \in DOMAIN p.new : p.new[f].rename => p.new[f].last < MaxVersion

VARIABLES
    problem,
    pc,
    files,         \* manifest->files
    newFiles,      \* new_files: what the walk has still to decide
    deletedFiles,  \* deleted_files: the sources that are free
    score,         \* rename_score of each new file
    peer,          \* rename_peer of each file
    walk           \* list1 of final_link: the renames not visited yet

vars == <<problem, pc, files, newFiles, deletedFiles, score, peer, walk>>

Targets == RenameTargets(problem.old, problem.new, MaxVersion)
Sources == RenameSources(problem.old, problem.new, MaxVersion)
Rate(t, s) == problem.rate[<<t, s>>]

TypeOK ==
    /\ problem \in Problems
    /\ pc \in {"list", "score", "search", "link", "walk", "done"}
    /\ IsFileList(files) /\ DOMAIN files = DOMAIN problem.new
    /\ newFiles \subseteq Targets /\ deletedFiles \subseteq Sources
    /\ score \in [Path -> Int]
    /\ peer \in [Path -> Path \cup {None}]
    /\ walk \subseteq DOMAIN files

Init ==
    /\ problem \in Problems /\ files = problem.new
    /\ pc = "list"
    /\ newFiles = {} /\ deletedFiles = {} /\ walk = {}
    /\ score = [p \in Path |-> 0]
    /\ peer = [p \in Path |-> None]
-----------------------------------------------------------------------------
(* rename_detection *)

\* Mutant: deletions of earlier releases are listed as well.
ListFilesAnyVersion ==
    /\ pc = "list"
    /\ newFiles' = Targets
    /\ deletedFiles' = {p \in DOMAIN files : files[p].deleted}
    /\ pc' = IF Targets = {} \/ Sources = {} THEN "link" ELSE "score"
    /\ UNCHANGED <<problem, files, score, peer, walk>>

\* list_new_files and list_deleted_files, and the early exits.
ListFiles ==
    /\ pc = "list"
    /\ newFiles' = Targets /\ deletedFiles' = Sources
    /\ pc' = IF Targets = {} \/ Sources = {} THEN "link" ELSE "score"
    /\ UNCHANGED <<problem, files, score, peer, walk>>

\* Mutant: the search accepts the first deleted file that is good enough.
IsGoodEnough(t, s, deleted) ==
    IF \A d \in deleted : Rate(t, d) <= NoScore
    THEN s = None
    ELSE s \in deleted /\ Rate(t, s) > NoScore

\* score_file: some best one among the deleted files, if any has a score at all.
IsBest(t, s, deleted) ==
    IF \A d \in deleted : Rate(t, d) <= NoScore
    THEN s = None
    ELSE s \in deleted /\ \A d \in deleted : Rate(t, d) <= Rate(t, s)

ScoreOf(t, s) == IF s = None THEN NoScore ELSE Rate(t, s)

ScoreAll ==
    /\ pc = "score"
    /\ \E choice \in [newFiles -> deletedFiles \cup {None}] :
         /\ \A t \in newFiles : IsBest(t, choice[t], deletedFiles)
         /\ peer'  = [p \in Path |-> IF p \in newFiles THEN choice[p] ELSE peer[p]]
         /\ score' = [p \in Path |-> IF p \in newFiles THEN ScoreOf(p, choice[p]) ELSE score[p]]
    /\ pc' = "search"
    /\ UNCHANGED <<problem, files, newFiles, deletedFiles, walk>>

\* The head of new_files, which is sorted by score.
Head(t) ==
    /\ pc = "search" /\ t \in newFiles
    /\ \A u \in newFiles : score[u] <= score[t]

\* No candidate, or one that does not resemble it enough.
TooWeak(t) == peer[t] = None \/ score[t] < MinScore

Skip(t) ==
    /\ Head(t) /\ TooWeak(t)
    /\ newFiles' = newFiles \ {t}
    /\ UNCHANGED <<problem, pc, files, deletedFiles, score, peer, walk>>

Taken(t) == peer[peer[t]] # None

\* Mutant: the new candidate is looked for without sorting it back in.
RedoKeepingScore(t) ==
    /\ Head(t) /\ ~TooWeak(t) /\ Taken(t)
    /\ \E s \in deletedFiles \cup {None} :
         /\ IsBest(t, s, deletedFiles)
         /\ peer' = [peer EXCEPT ![t] = s]
    /\ UNCHANGED <<problem, pc, files, newFiles, deletedFiles, score, walk>>

\* Mutant: the old candidate is looked up again.
RedoSame(t) ==
    /\ Head(t) /\ ~TooWeak(t) /\ Taken(t)
    /\ UNCHANGED vars

\* The candidate got taken by another file: score again, sort again.
Redo(t) ==
    /\ Head(t) /\ ~TooWeak(t) /\ Taken(t)
    /\ \E s \in deletedFiles \cup {None} :
         /\ IsBest(t, s, deletedFiles)
         /\ peer' = [peer EXCEPT ![t] = s]
         /\ score' = [score EXCEPT ![t] = ScoreOf(t, s)]
    /\ UNCHANGED <<problem, pc, files, newFiles, deletedFiles, walk>>

\* Both ends of a rename are marked, and have the hash of the new file.
Rename(e, hash) == [e EXCEPT !.rename = TRUE, !.hash = hash]

\* "Rename detected!": the search ends when no deleted file is left.
Link(t) ==
    /\ Head(t) /\ ~TooWeak(t) /\ ~Taken(t)
    /\ LET s == peer[t] IN
         /\ peer' = [peer EXCEPT ![s] = t]
         /\ files' = [p \in DOMAIN files |->
                         IF p \in {t, s} THEN Rename(files[p], files[t].hash)
                         ELSE files[p]]
         /\ deletedFiles' = deletedFiles \ {s}
         /\ pc' = IF deletedFiles = {s} THEN "link" ELSE "search"
    /\ newFiles' = newFiles \ {t}
    /\ UNCHANGED <<problem, score, walk>>

EndSearch ==
    /\ pc = "search" /\ newFiles = {}
    /\ pc' = "link"
    /\ UNCHANGED <<problem, files, newFiles, deletedFiles, score, peer, walk>>
-----------------------------------------------------------------------------
(* clean_renames *)

\* new_list_renamed_files
ListRenamed ==
    /\ pc = "link"
    /\ walk' = {p \in DOMAIN files : files[p].rename}
    /\ pc' = "walk"
    /\ UNCHANGED <<problem, files, newFiles, deletedFiles, score, peer>>

\* file_sort_version
Before(p, q) ==
    files[p].last < files[q].last \/ (files[p].last = files[q].last /\ p < q)

\* Mutant: any two renames of a version and hash are linked.
PartnersAlike(p) ==
    {q \in walk \ {p} : /\ files[q].last = files[p].last
                        /\ files[q].hash = files[p].hash}

\* The files final_link links p with: behind it in the list, of the same
\* version and hash, one and only one of the two deleted.
Partners(p) ==
    {q \in walk \ {p} : /\ files[q].last = files[p].last
                        /\ files[q].deleted # files[p].deleted
                        /\ files[q].hash = files[p].hash}

\* One turn of final_link's outer loop; p itself keeps the last of its partners.
FinalLink(p) ==
    /\ pc = "walk" /\ p \in walk
    /\ \A q \in walk : ~Before(q, p)
    /\ \/ /\ peer[p] # None \/ Partners(p) = {}
          /\ peer' = peer
       \/ \E last \in Partners(p) :
             /\ peer[p] = None
             /\ \A q \in Partners(p) : q <= last
             /\ peer' = [q \in Path |-> IF q \in Partners(p) THEN p
                                        ELSE IF q = p THEN last ELSE peer[q]]
    /\ walk' = walk \ {p}
    /\ UNCHANGED <<problem, pc, files, newFiles, deletedFiles, score>>

\* A rename without a partner is none; what is deleted stops having a hash.
NoRename(e) == [e EXCEPT !.rename = FALSE,
                         !.hash = IF e.deleted THEN ZeroHash ELSE e.hash]

\* The loop of clean_renames.
CleanRenames ==
    /\ pc = "walk" /\ walk = {}
    /\ files' = [p \in DOMAIN files |-> IF files[p].rename /\ peer[p] = None
                                        THEN NoRename(files[p]) ELSE files[p]]
    /\ pc' = "done"
    /\ UNCHANGED <<problem, newFiles, deletedFiles, score, peer, walk>>
-----------------------------------------------------------------------------
Next ==
    \/ ListFiles \/ ScoreAll \/ EndSearch \/ ListRenamed \/ CleanRenames
    \/ \E p \in Path : Skip(p) \/ Redo(p) \/ Link(p) \/ FinalLink(p)

Spec == Init /\ [][Next]_vars

\* The program is sequential: it goes on as long as it can.
FairSpec == Spec /\ WF_vars(Next)
-----------------------------------------------------------------------------
(* Properties *)

Searching == pc \in {"list", "score", "search"}

\* The pairs rename_detection has made.
Found == {ts \in Targets \X Sources : peer[ts[2]] = ts[1]}

\* No new file and deleted file that resemble each other enough are both left
\* with something worse: one of them has a partner at least as good.
\* (rename.c:408-445; a candidate that is taken sends the walk back to redo)
NobodyMissesOut ==
    ~Searching =>
        \A t \in Targets, s \in Sources :
            Rate(t, s) >= MinScore =>
                \E ts \in Found : /\ ts[1] = t \/ ts[2] = s
                                  /\ problem.rate[ts] >= Rate(t, s)

\* What rename_detection, final_link and clean_renames compute step by step is
\* what the model of swupd_create_update takes in one: an injective matching,
\* linked by closed forms (ManifestOps).
AsInManifestOps ==
    pc = "done" =>
        LET m == [t \in {ts[1] : ts \in Found} |-> CHOOSE s \in Sources : peer[s] = t]
        IN  /\ m \in RenameMatchings(problem.old, problem.new, MaxVersion)
            /\ files = RenamesCleaned(RenamesLinked(problem.new, m), m)

Choice == INSTANCE RenameChoice WITH
    targets <- Targets, sources <- Sources, rate <- problem.rate,
    pairs <- Found, stopped <- ~Searching

\* The search, with its cached scores, redo and early ends, makes the best pair
\* that can still be made, one after the other, and stops when there is none.
ImplementsChoice == Choice!Spec

\* The goto of rename_detection does not go round for ever.
SearchEnds == <>(pc = "done")
=============================================================================
