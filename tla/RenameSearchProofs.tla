------------------------- MODULE RenameSearchProofs --------------------------
(***************************************************************************)
(* The search for renames, for any files and any scores: it leaves nobody  *)
(* with less than he could have, and it is a way to choose the best pair   *)
(* that can still be made, again and again (RenameChoice).  With           *)
(* final_link and clean_renames it computes the closed forms of            *)
(* ManifestOps.                                                            *)
(***************************************************************************)
EXTENDS RenameSearch, ManifestOpsProofs

\* A source is free until it is somebody's, and is never given away again.
Free ==
    /\ pc = "list" => newFiles = {} /\ deletedFiles = {}
    /\ pc = "score" => newFiles = Targets
    /\ pc \in {"list", "score"} => \A p \in Path : peer[p] = None
    /\ pc # "list" => deletedFiles = {s \in Sources : peer[s] = None}
    /\ \A s \in Sources : peer[s] # None => peer[s] \in Targets \ newFiles
    /\ \A r, s \in Sources : peer[r] = peer[s] /\ peer[r] # None => r = s

\* The cached score of a file is that of its candidate, and no free source is
\* better.
Cached ==
    pc = "search" =>
        \A t \in newFiles :
            /\ peer[t] = None => score[t] = NoScore
            /\ peer[t] # None => peer[t] \in Sources /\ score[t] = Rate(t, peer[t])
            /\ \A d \in deletedFiles : Rate(t, d) <= score[t]

Linked(t, s) == peer[s] = t

\* The search is through with a file that is linked, or that resembles none of
\* the free sources.
Decided ==
    /\ pc \notin {"list", "score"} =>
        \A t \in Targets \ newFiles :
            \/ \E s \in Sources : Linked(t, s)
            \/ \A d \in deletedFiles : Rate(t, d) < MinScore
    /\ ~Searching => newFiles = {} \/ deletedFiles = {}

\* Who is linked has nothing better among the free sources, and was the best for
\* the source among those who had nothing better.
BestFirst ==
    /\ \A t \in Targets, s \in Sources, d \in deletedFiles :
          Linked(t, s) => Rate(t, d) <= Rate(t, s)
    /\ \A t, u \in Targets, s \in Sources :
          Linked(u, s) =>
              \/ Rate(t, s) < MinScore \/ Rate(t, s) <= Rate(u, s)
              \/ \E r \in Sources : Linked(t, r) /\ Rate(t, s) <= Rate(t, r)

\* Renames without a partner are those of older releases.
OldOrphans ==
    /\ \A p \in DOMAIN files : files[p].last = problem.new[p].last
    /\ \A p \in DOMAIN files : files[p].rename /\ peer[p] = None => files[p].last < MaxVersion
    /\ Searching => \A t \in newFiles : ~files[t].rename
    /\ pc = "walk" => \A p \in walk : files[p].rename

SearchInv == TypeOK /\ Free /\ Cached /\ Decided /\ BestFirst /\ OldOrphans
-----------------------------------------------------------------------------
(* The problem does not change, and is what match_manifests makes. *)

\* Targets and sources are files of the new manifest, dated to the new version,
\* and scores are numbers.
LEMMA ProblemFacts ==
  ASSUME problem \in Problems
  PROVE  /\ DOMAIN problem.new \subseteq Path
         /\ problem.new \in [DOMAIN problem.new -> Entry]
         /\ Targets \subseteq DOMAIN problem.new /\ Sources \subseteq DOMAIN problem.new
         /\ Targets \cap Sources = {}
         /\ \A t \in Path, s \in Path : Rate(t, s) \in Int
         /\ \A t \in Targets : problem.new[t].last = MaxVersion
         /\ \A s \in Sources : problem.new[s].last = MaxVersion
         /\ \A p \in DOMAIN problem.new : problem.new[p].rename => problem.new[p].last < MaxVersion
         /\ \A p \in DOMAIN problem.new : problem.new[p].last \in Int
         /\ MinScore \in Int /\ NoScore \in Int /\ NoScore < MinScore /\ None \notin Path
         /\ MaxVersion \in Int
<1>1. /\ IsFileList(problem.new) /\ problem.rate \in [Pairs -> Int]
      /\ \A f \in DOMAIN problem.new : problem.new[f].rename => problem.new[f].last < MaxVersion
      /\ MinScore \in Int /\ NoScore \in Int /\ NoScore < MinScore /\ None \notin Path
  BY SearchAssumption DEF SearchAssumption
<1>2. DOMAIN problem.new \subseteq Path /\ problem.new \in [DOMAIN problem.new -> Entry]
  BY <1>1 DEF IsFileList
<1>3. /\ Targets \subseteq DOMAIN problem.new
      /\ \A t \in Targets : problem.new[t].last = MaxVersion /\ ~problem.new[t].deleted
  BY DEF Targets, RenameTargets
<1>4. /\ Sources \subseteq DOMAIN problem.new
      /\ \A s \in Sources : problem.new[s].last = MaxVersion /\ problem.new[s].deleted
  BY DEF Sources, RenameSources
<1>5. \A t \in Path, s \in Path : Rate(t, s) \in Int
  BY <1>1 DEF Rate, Pairs
<1>6. \A p \in DOMAIN problem.new : problem.new[p].last \in Int
  BY <1>2, PathAssumption DEF Entry, PathAssumption
<1>7. MaxVersion \in Int
  BY PathAssumption DEF PathAssumption
<1> QED
  BY <1>1, <1>2, <1>3, <1>4, <1>5, <1>6, <1>7

\* As long as the problem is the same, so is all that is read off it.
LEMMA SameProblem ==
  ASSUME problem' = problem
  PROVE  /\ Targets' = Targets /\ Sources' = Sources
         /\ \A t, s : Rate(t, s)' = Rate(t, s)
  BY DEF Targets, Sources, Rate

\* The invariant holds before the first step.
LEMMA SearchInit == Init => SearchInv
<1> SUFFICES ASSUME Init PROVE SearchInv
  OBVIOUS
<1>1. problem \in Problems
  BY DEF Init
<1>2. \A p \in Path : peer[p] = None
  BY DEF Init
<1>3. Targets \subseteq Path /\ Sources \subseteq Path
  BY <1>1, ProblemFacts
<1>4. TypeOK
  BY <1>1, SearchAssumption DEF Init, TypeOK, SearchAssumption
<1>5. Free /\ Cached
  BY <1>2, <1>3 DEF Init, Free, Cached
<1>6. Decided
  BY DEF Init, Decided, Searching
<1>7. BestFirst
  <2>1. \A t \in Targets, s \in Sources : ~Linked(t, s)
    BY <1>1, <1>2, <1>3, ProblemFacts DEF Linked
  <2> QED
    BY <2>1 DEF BestFirst
<1>8. OldOrphans
  BY <1>1, ProblemFacts DEF Init, OldOrphans
<1> QED
  BY <1>4, <1>5, <1>6, <1>7, <1>8 DEF SearchInv
-----------------------------------------------------------------------------
(* One lemma per action. *)

\* Listing the files starts the search, or ends it at once.
LEMMA ListStep == SearchInv /\ ListFiles => SearchInv'
<1> SUFFICES ASSUME SearchInv, ListFiles PROVE SearchInv'
  OBVIOUS
<1>1. problem \in Problems /\ problem' = problem /\ peer' = peer
      /\ \A p \in Path : peer[p] = None
  BY DEF SearchInv, TypeOK, Free, ListFiles
<1>2. Targets' = Targets /\ Sources' = Sources /\ \A t, s : Rate(t, s)' = Rate(t, s)
  BY <1>1, SameProblem
<1>3. Targets \subseteq Path /\ Sources \subseteq Path
  BY <1>1, ProblemFacts
<1>4. TypeOK'
  BY <1>2 DEF SearchInv, TypeOK, ListFiles
<1>5. Free'
  BY <1>1, <1>2, <1>3 DEF Free, ListFiles
<1>6. Cached' /\ Decided'
  BY <1>2 DEF Cached, Decided, Searching, ListFiles
<1>7. BestFirst'
  <2>1. \A t \in Targets, s \in Sources : ~Linked(t, s)'
    BY <1>1, <1>3, ProblemFacts DEF Linked
  <2> QED
    BY <1>2, <2>1 DEF BestFirst
<1>8. OldOrphans'
  BY <1>1, <1>2, ProblemFacts DEF SearchInv, OldOrphans, ListFiles, TypeOK
<1> QED
  BY <1>4, <1>5, <1>6, <1>7, <1>8 DEF SearchInv

\* What score_file finds.
LEMMA BestFacts ==
  ASSUME problem \in Problems, NEW t \in Targets, NEW deleted, deleted \subseteq Sources,
         NEW s, IsBest(t, s, deleted)
  PROVE  /\ s \in deleted \cup {None}
         /\ ScoreOf(t, s) \in Int
         /\ s = None => ScoreOf(t, s) = NoScore
         /\ s # None => s \in deleted /\ ScoreOf(t, s) = Rate(t, s)
         /\ \A d \in deleted : Rate(t, d) <= ScoreOf(t, s)
<1>1. \A d \in deleted : Rate(t, d) \in Int
  BY ProblemFacts
<1>2. NoScore \in Int /\ None \notin deleted /\ t \in Path /\ deleted \subseteq Path
  BY ProblemFacts
<1> QED
  BY <1>1, <1>2 DEF IsBest, ScoreOf

\* Scoring gives each new file a best candidate; nobody is linked yet.
LEMMA ScoreStep == SearchInv /\ ScoreAll => SearchInv'
<1> SUFFICES ASSUME SearchInv, ScoreAll PROVE SearchInv'
  OBVIOUS
<1>1. PICK choice \in [newFiles -> deletedFiles \cup {None}] :
         /\ \A t \in newFiles : IsBest(t, choice[t], deletedFiles)
         /\ peer'  = [p \in Path |-> IF p \in newFiles THEN choice[p] ELSE peer[p]]
         /\ score' = [p \in Path |-> IF p \in newFiles THEN ScoreOf(p, choice[p]) ELSE score[p]]
  BY DEF ScoreAll
<1>2. /\ problem \in Problems /\ problem' = problem /\ newFiles = Targets
      /\ deletedFiles = Sources /\ \A p \in Path : peer[p] = None
      /\ newFiles' = newFiles /\ deletedFiles' = deletedFiles /\ files' = files /\ walk' = walk
      /\ pc = "score" /\ pc' = "search"
  <2>1. pc = "score" /\ problem \in Problems
    BY DEF SearchInv, TypeOK, ScoreAll
  <2>2. \A p \in Path : peer[p] = None
    BY <2>1 DEF SearchInv, Free
  <2>3. deletedFiles = Sources
    BY <2>1, <2>2, ProblemFacts DEF SearchInv, Free
  <2> QED
    BY <2>1, <2>2, <2>3 DEF SearchInv, Free, ScoreAll
<1>3. Targets' = Targets /\ Sources' = Sources /\ \A t, s : Rate(t, s)' = Rate(t, s)
  BY <1>2, SameProblem
<1>4. Targets \subseteq Path /\ Sources \subseteq Path /\ Targets \cap Sources = {} /\ None \notin Path
  BY <1>2, ProblemFacts
<1>5. \A t \in Targets :
         /\ choice[t] \in Sources \cup {None}
         /\ peer'[t] = choice[t] /\ score'[t] = ScoreOf(t, choice[t])
         /\ score'[t] \in Int
         /\ choice[t] = None => score'[t] = NoScore
         /\ choice[t] # None => score'[t] = Rate(t, choice[t])
         /\ \A d \in Sources : Rate(t, d) <= score'[t]
  BY <1>1, <1>2, <1>4, BestFacts
<1>6. \A p \in Path \ Targets : peer'[p] = None /\ score'[p] = score[p]
  BY <1>1, <1>2
<1>7. TypeOK'
  <2>1. score' \in [Path -> Int] /\ peer' \in [Path -> Path \cup {None}]
    BY <1>1, <1>2, <1>4, <1>5, <1>6 DEF SearchInv, TypeOK
  <2> QED
    BY <1>2, <1>3, <2>1 DEF SearchInv, TypeOK
<1>8. Free'
  BY <1>2, <1>3, <1>4, <1>6 DEF Free
<1>9. Cached'
  BY <1>2, <1>3, <1>5 DEF Cached
<1>10. Decided'
  BY <1>2, <1>3 DEF Decided, Searching
<1>11. BestFirst'
  <2>1. \A t \in Targets, s \in Sources : ~Linked(t, s)'
    BY <1>4, <1>6 DEF Linked
  <2> QED
    BY <1>3, <2>1 DEF BestFirst
<1>12. OldOrphans'
  <2>1. DOMAIN files \subseteq Path
    BY <1>2, ProblemFacts DEF SearchInv, TypeOK
  <2>2. \A p \in DOMAIN files : files[p].rename => files[p].last < MaxVersion
    BY <1>2, <2>1 DEF SearchInv, OldOrphans
  <2> QED
    BY <1>2, <2>2 DEF SearchInv, OldOrphans, Searching
<1> QED
  BY <1>7, <1>8, <1>9, <1>10, <1>11, <1>12 DEF SearchInv

\* A file that is skipped resembles none of the free sources.
LEMMA SkipStep == ASSUME NEW t \in Path PROVE SearchInv /\ Skip(t) => SearchInv'
<1> SUFFICES ASSUME SearchInv, Skip(t) PROVE SearchInv'
  OBVIOUS
<1>1. /\ problem \in Problems /\ problem' = problem /\ newFiles \subseteq Targets
      /\ deletedFiles \subseteq Sources
      /\ newFiles' = newFiles \ {t} /\ deletedFiles' = deletedFiles /\ files' = files
      /\ walk' = walk /\ pc = "search" /\ pc' = pc /\ peer' = peer /\ score' = score
      /\ t \in newFiles /\ TooWeak(t) /\ score[t] \in Int
  BY DEF SearchInv, TypeOK, Skip, Head
<1>2. Targets' = Targets /\ Sources' = Sources /\ \A u, s : Rate(u, s)' = Rate(u, s)
  BY <1>1, SameProblem
<1>3. \A d \in deletedFiles : Rate(t, d) < MinScore
  <2>1. \A d \in deletedFiles : Rate(t, d) <= score[t] /\ Rate(t, d) \in Int
    BY <1>1, ProblemFacts DEF SearchInv, Cached
  <2>2. score[t] < MinScore
    BY <1>1, ProblemFacts DEF SearchInv, Cached, TooWeak
  <2> QED
    BY <1>1, <2>1, <2>2, ProblemFacts
<1>4. TypeOK'
  BY <1>1, <1>2 DEF SearchInv, TypeOK
<1>5. Free'
  BY <1>1, <1>2 DEF SearchInv, Free
<1>6. Cached'
  BY <1>1, <1>2 DEF SearchInv, Cached
<1>7. Decided'
  BY <1>1, <1>2, <1>3 DEF SearchInv, Decided, Searching, Linked
<1>8. BestFirst'
  BY <1>1, <1>2 DEF SearchInv, BestFirst, Linked
<1>9. OldOrphans'
  BY <1>1, <1>2 DEF SearchInv, OldOrphans, Searching
<1> QED
  BY <1>4, <1>5, <1>6, <1>7, <1>8, <1>9 DEF SearchInv

\* A file whose candidate is taken gets a best one among the free sources.
LEMMA RedoStep == ASSUME NEW t \in Path PROVE SearchInv /\ Redo(t) => SearchInv'
<1> SUFFICES ASSUME SearchInv, Redo(t) PROVE SearchInv'
  OBVIOUS
<1>1. PICK s \in deletedFiles \cup {None} :
         /\ IsBest(t, s, deletedFiles)
         /\ peer' = [peer EXCEPT ![t] = s]
         /\ score' = [score EXCEPT ![t] = ScoreOf(t, s)]
  BY DEF Redo
<1>2. /\ problem \in Problems /\ problem' = problem /\ newFiles \subseteq Targets
      /\ deletedFiles \subseteq Sources
      /\ newFiles' = newFiles /\ deletedFiles' = deletedFiles /\ files' = files
      /\ walk' = walk /\ pc = "search" /\ pc' = pc
      /\ t \in newFiles
      /\ peer \in [Path -> Path \cup {None}] /\ score \in [Path -> Int]
  BY DEF SearchInv, TypeOK, Redo, Head
<1>3. Targets' = Targets /\ Sources' = Sources /\ \A u, r : Rate(u, r)' = Rate(u, r)
  BY <1>2, SameProblem
<1>4. Targets \subseteq Path /\ Sources \subseteq Path /\ Targets \cap Sources = {} /\ None \notin Path
  BY <1>2, ProblemFacts
<1>5. /\ ScoreOf(t, s) \in Int
      /\ s = None => ScoreOf(t, s) = NoScore
      /\ s # None => s \in deletedFiles /\ ScoreOf(t, s) = Rate(t, s)
      /\ \A d \in deletedFiles : Rate(t, d) <= ScoreOf(t, s)
  BY <1>1, <1>2, BestFacts
<1>6. /\ peer'[t] = s /\ score'[t] = ScoreOf(t, s)
      /\ \A p \in Path \ {t} : peer'[p] = peer[p] /\ score'[p] = score[p]
      /\ \A r \in Sources : peer'[r] = peer[r]
  BY <1>1, <1>2, <1>4
<1>7. TypeOK'
  <2>1. score' \in [Path -> Int] /\ peer' \in [Path -> Path \cup {None}]
    BY <1>1, <1>2, <1>4, <1>5
  <2> QED
    BY <1>2, <1>3, <2>1 DEF SearchInv, TypeOK
<1>8. Free'
  BY <1>2, <1>3, <1>6 DEF SearchInv, Free
<1>9. Cached'
  BY <1>2, <1>3, <1>4, <1>5, <1>6 DEF SearchInv, Cached
<1>10. Decided'
  BY <1>2, <1>3, <1>6 DEF SearchInv, Decided, Searching, Linked
<1>11. BestFirst'
  BY <1>2, <1>3, <1>6 DEF SearchInv, BestFirst, Linked
<1>12. OldOrphans'
  <2>1. \A p \in DOMAIN files : files[p].rename /\ peer'[p] = None => files[p].last < MaxVersion
    <3>1. ~files[t].rename
      BY <1>2 DEF SearchInv, OldOrphans, Searching
    <3>2. DOMAIN files \subseteq Path
      BY <1>2, ProblemFacts DEF SearchInv, TypeOK
    <3> QED
      BY <1>2, <1>6, <3>1, <3>2 DEF SearchInv, OldOrphans
  <2> QED
    BY <1>2, <2>1 DEF SearchInv, OldOrphans, Searching
<1> QED
  BY <1>7, <1>8, <1>9, <1>10, <1>11, <1>12 DEF SearchInv

\* A pair is made: the file had a best candidate, and it is still free.
LEMMA LinkStep == ASSUME NEW t \in Path PROVE SearchInv /\ Link(t) => SearchInv'
<1> SUFFICES ASSUME SearchInv, Link(t) PROVE SearchInv'
  OBVIOUS
<1> DEFINE s == peer[t]
<1>1. /\ problem \in Problems /\ problem' = problem /\ newFiles \subseteq Targets
      /\ deletedFiles = {r \in Sources : peer[r] = None}
      /\ newFiles' = newFiles \ {t} /\ deletedFiles' = deletedFiles \ {s}
      /\ walk' = walk /\ score' = score /\ pc = "search"
      /\ pc' = IF deletedFiles = {s} THEN "link" ELSE "search"
      /\ t \in newFiles /\ \A u \in newFiles : score[u] <= score[t]
      /\ peer \in [Path -> Path \cup {None}] /\ score \in [Path -> Int]
      /\ peer' = [peer EXCEPT ![s] = t]
      /\ s # None /\ ~(score[t] < MinScore) /\ peer[s] = None
  <2>1. /\ problem \in Problems /\ newFiles \subseteq Targets
        /\ peer \in [Path -> Path \cup {None}] /\ score \in [Path -> Int]
    BY DEF SearchInv, TypeOK
  <2>2. /\ problem' = problem /\ newFiles' = newFiles \ {t} /\ deletedFiles' = deletedFiles \ {s}
        /\ walk' = walk /\ score' = score /\ pc = "search"
        /\ pc' = IF deletedFiles = {s} THEN "link" ELSE "search"
        /\ t \in newFiles /\ \A u \in newFiles : score[u] <= score[t]
        /\ peer' = [peer EXCEPT ![s] = t]
    BY DEF Link, Head
  <2>3. s # None /\ ~(score[t] < MinScore) /\ peer[s] = None
    BY DEF Link, TooWeak, Taken
  <2> QED
    BY <2>1, <2>2, <2>3 DEF SearchInv, Free
<1>2. Targets' = Targets /\ Sources' = Sources /\ \A u, r : Rate(u, r)' = Rate(u, r)
  BY <1>1, SameProblem
<1>3. Targets \subseteq Path /\ Sources \subseteq Path /\ Targets \cap Sources = {} /\ None \notin Path
      /\ \A u \in Path, r \in Path : Rate(u, r) \in Int
      /\ MinScore \in Int /\ Targets \subseteq DOMAIN problem.new /\ Sources \subseteq DOMAIN problem.new
  BY <1>1, ProblemFacts
<1>4. s \in Sources /\ s \in deletedFiles /\ score[t] = Rate(t, s)
  BY <1>1 DEF SearchInv, Cached
<1>5. peer'[s] = t /\ \A p \in Path \ {s} : peer'[p] = peer[p]
  BY <1>1, <1>3, <1>4
<1>6. t \in Targets /\ t # None /\ \A r \in Sources : peer[r] # t
  BY <1>1, <1>3 DEF SearchInv, Free
<1>7. TypeOK'
  <2>1. /\ IsFileList(files) /\ DOMAIN files = DOMAIN problem.new
    BY DEF SearchInv, TypeOK
  <2>2. files \in [DOMAIN files -> Entry] /\ t \in DOMAIN files /\ s \in DOMAIN files
    BY <1>1, <1>3, <1>4, <2>1 DEF IsFileList
  <2>3. files' \in [DOMAIN files -> Entry]
    <3>1. \A e \in Entry, f \in Entry : Rename(e, f.hash) \in Entry
      BY DEF Rename, Entry
    <3>2. files' = [p \in DOMAIN files |->
                      IF p \in {t, s} THEN Rename(files[p], files[t].hash) ELSE files[p]]
      BY DEF Link
    <3> QED
      BY <2>2, <3>1, <3>2
  <2>4. IsFileList(files') /\ DOMAIN files' = DOMAIN files
    BY <2>1, <2>3 DEF IsFileList
  <2>5. peer' \in [Path -> Path \cup {None}] /\ score' \in [Path -> Int]
    BY <1>1, <1>3, <1>4
  <2>6. pc' \in {"list", "score", "search", "link", "walk", "done"}
    BY <1>1
  <2> QED
    BY <1>1, <1>2, <2>1, <2>4, <2>5, <2>6 DEF SearchInv, TypeOK
<1>8. Free'
  BY <1>1, <1>2, <1>3, <1>4, <1>5, <1>6 DEF SearchInv, Free
<1>9. Cached'
  <2>1. \A u \in newFiles \ {t} : peer'[u] = peer[u]
    BY <1>1, <1>3, <1>4, <1>5
  <2> QED
    BY <1>1, <1>2, <2>1 DEF SearchInv, Cached
<1>10. \A u \in Targets, r \in Sources : Linked(u, r)' <=> Linked(u, r) \/ (u = t /\ r = s)
  BY <1>3, <1>4, <1>5, <1>6, <1>1 DEF Linked
<1>11. Decided'
  <2>1. \A u \in Targets \ newFiles' :
           \/ \E r \in Sources : Linked(u, r)'
           \/ \A d \in deletedFiles' : Rate(u, d) < MinScore
    BY <1>1, <1>4, <1>6, <1>10 DEF SearchInv, Decided
  <2>2. deletedFiles = {s} => deletedFiles' = {}
    BY <1>1
  <2> QED
    BY <1>1, <1>2, <2>1, <2>2 DEF Decided, Searching
<1>12. BestFirst'
  <2>1. \A u \in Targets, r \in Sources, d \in deletedFiles' :
           Linked(u, r)' => Rate(u, d) <= Rate(u, r)
    BY <1>1, <1>4, <1>10 DEF SearchInv, BestFirst, Cached
  <2>2. ASSUME NEW v \in Targets, NEW u \in Targets, NEW r \in Sources, Linked(u, r)'
        PROVE  \/ Rate(v, r) < MinScore \/ Rate(v, r) <= Rate(u, r)
               \/ \E q \in Sources : Linked(v, q)' /\ Rate(v, r) <= Rate(v, q)
    <3>1. CASE Linked(u, r)
      BY <3>1, <1>10 DEF SearchInv, BestFirst
    <3>2. CASE u = t /\ r = s
      <4>1. CASE v \in newFiles
        <5>1. Rate(v, s) <= score[v] /\ score[v] <= score[t]
          BY <4>1, <1>1, <1>4 DEF SearchInv, Cached
        <5>2. Rate(v, s) \in Int /\ score[v] \in Int /\ score[t] \in Int
          BY <1>1, <1>3, <1>4
        <5> QED
          BY <1>4, <3>2, <5>1, <5>2
      <4>2. CASE v \notin newFiles
        <5>1. \/ \E q \in Sources : Linked(v, q)
              \/ \A d \in deletedFiles : Rate(v, d) < MinScore
          BY <4>2, <1>1 DEF SearchInv, Decided
        <5>2. ASSUME NEW q \in Sources, Linked(v, q)
              PROVE  Rate(v, s) <= Rate(v, q) /\ Linked(v, q)'
          BY <5>2, <1>4, <1>10 DEF SearchInv, BestFirst
        <5> QED
          BY <1>4, <3>2, <5>1, <5>2
      <4> QED
        BY <4>1, <4>2
    <3> QED
      BY <2>2, <3>1, <3>2, <1>10
  <2> QED
    BY <1>2, <2>1, <2>2 DEF BestFirst
<1>13. OldOrphans'
  <2>1. /\ IsFileList(files) /\ DOMAIN files = DOMAIN problem.new
        /\ DOMAIN files \subseteq Path /\ t \in DOMAIN files /\ s \in DOMAIN files
    BY <1>1, <1>3, <1>4, ProblemFacts DEF SearchInv, TypeOK
  <2>2. files \in [DOMAIN files -> Entry]
    BY <2>1 DEF IsFileList
  <2>3. /\ DOMAIN files' = DOMAIN files
        /\ \A p \in DOMAIN files : files'[p].last = files[p].last
        /\ \A p \in DOMAIN files \ {t, s} : files'[p].rename = files[p].rename
    <3>1. \A h : \A e \in Entry : Rename(e, h).last = e.last
      BY DEF Rename, Entry
    <3>2. files' = [p \in DOMAIN files |->
                      IF p \in {t, s} THEN Rename(files[p], files[t].hash) ELSE files[p]]
      BY DEF Link
    <3> QED
      BY <2>1, <2>2, <3>1, <3>2
  <2>4. peer'[t] # None /\ peer'[s] # None
    BY <1>1, <1>3, <1>4, <1>5, <1>6
  <2>5. \A p \in DOMAIN files' : files'[p].rename /\ peer'[p] = None => files'[p].last < MaxVersion
    BY <1>5, <2>1, <2>3, <2>4 DEF SearchInv, OldOrphans
  <2>6. \A p \in DOMAIN files' : files'[p].last = problem'.new[p].last
    BY <1>1, <2>3 DEF SearchInv, OldOrphans
  <2>7. \A u \in newFiles' : ~files'[u].rename
    BY <1>1, <1>3, <1>4, <2>1, <2>3 DEF SearchInv, OldOrphans, Searching
  <2>8. pc' # "walk"
    BY <1>1
  <2> QED
    BY <2>5, <2>6, <2>7, <2>8 DEF OldOrphans
<1> QED
  BY <1>7, <1>8, <1>9, <1>11, <1>12, <1>13 DEF SearchInv

\* The search is over when no new file is left.
LEMMA EndSearchStep == SearchInv /\ EndSearch => SearchInv'
<1> SUFFICES ASSUME SearchInv, EndSearch PROVE SearchInv'
  OBVIOUS
<1>1. Targets' = Targets /\ Sources' = Sources /\ \A u, r : Rate(u, r)' = Rate(u, r)
  BY SameProblem DEF EndSearch
<1>2. TypeOK' /\ Free' /\ Cached'
  BY <1>1 DEF SearchInv, TypeOK, Free, Cached, EndSearch
<1>3. Decided'
  BY <1>1 DEF SearchInv, Decided, EndSearch, Searching, Linked
<1>4. BestFirst' /\ OldOrphans'
  BY <1>1 DEF SearchInv, BestFirst, OldOrphans, EndSearch, Searching, Linked
<1> QED
  BY <1>2, <1>3, <1>4 DEF SearchInv

\* The renames are listed for final_link.
LEMMA ListRenamedStep == SearchInv /\ ListRenamed => SearchInv'
<1> SUFFICES ASSUME SearchInv, ListRenamed PROVE SearchInv'
  OBVIOUS
<1>1. Targets' = Targets /\ Sources' = Sources /\ \A u, r : Rate(u, r)' = Rate(u, r)
  BY SameProblem DEF ListRenamed
<1>2. TypeOK' /\ Free' /\ Cached'
  BY <1>1 DEF SearchInv, TypeOK, Free, Cached, ListRenamed
<1>3. Decided'
  BY <1>1 DEF SearchInv, Decided, ListRenamed, Searching, Linked
<1>4. BestFirst' /\ OldOrphans'
  BY <1>1 DEF SearchInv, BestFirst, OldOrphans, ListRenamed, Searching, Linked
<1> QED
  BY <1>2, <1>3, <1>4 DEF SearchInv

\* final_link touches renames of older releases only: what it links is not a
\* source of this one.
LEMMA FinalLinkPeers ==
  ASSUME NEW p \in Path, SearchInv, FinalLink(p)
  PROVE  /\ peer' \in [Path -> Path \cup {None}]
         /\ \A s \in Sources : peer'[s] = peer[s]
         /\ \A q \in Path : peer'[q] = None => peer[q] = None
<1>1. /\ problem \in Problems /\ p \in walk /\ walk \subseteq DOMAIN files
      /\ DOMAIN files = DOMAIN problem.new /\ files[p].rename
      /\ peer \in [Path -> Path \cup {None}]
  BY DEF SearchInv, TypeOK, OldOrphans, FinalLink
<1>2. /\ DOMAIN files \subseteq Path /\ None \notin Path /\ MaxVersion \in Int
      /\ Sources \subseteq DOMAIN problem.new
      /\ \A s \in Sources : problem.new[s].last = MaxVersion
      /\ \A q \in DOMAIN problem.new : problem.new[q].last \in Int
  BY <1>1, ProblemFacts
<1>3. CASE peer' = peer
  BY <1>1, <1>3
<1>4. CASE peer' # peer
  <2>1. PICK last \in Partners(p) :
           /\ peer[p] = None
           /\ peer' = [q \in Path |-> IF q \in Partners(p) THEN p
                                      ELSE IF q = p THEN last ELSE peer[q]]
    BY <1>4 DEF FinalLink
  <2>2. files[p].last < MaxVersion /\ files[p].last = problem.new[p].last
    BY <1>1, <2>1 DEF SearchInv, OldOrphans
  <2>3. \A q \in Partners(p) \cup {p} : q \in DOMAIN files /\ files[q].last = files[p].last
    BY <1>1 DEF Partners
  <2>4. \A q \in Partners(p) \cup {p} : q \notin Sources
    BY <1>1, <1>2, <2>2, <2>3 DEF SearchInv, OldOrphans
  <2>5. last \in Path /\ p # None /\ last # None
    BY <1>2, <2>3
  <2>6. peer' \in [Path -> Path \cup {None}]
    BY <1>1, <2>1, <2>5
  <2>7. \A s \in Sources : peer'[s] = peer[s]
    BY <1>1, <1>2, <2>1, <2>4
  <2>8. \A q \in Path : peer'[q] = None => peer[q] = None
    BY <1>1, <2>1, <2>5
  <2> QED
    BY <2>6, <2>7, <2>8
<1> QED
  BY <1>3, <1>4

\* A turn of final_link.
LEMMA FinalLinkStep == ASSUME NEW p \in Path PROVE SearchInv /\ FinalLink(p) => SearchInv'
<1> SUFFICES ASSUME SearchInv, FinalLink(p) PROVE SearchInv'
  OBVIOUS
<1>1. /\ problem \in Problems /\ problem' = problem /\ pc = "walk" /\ pc' = pc
      /\ files' = files /\ newFiles' = newFiles /\ deletedFiles' = deletedFiles
      /\ score' = score /\ walk' = walk \ {p} /\ DOMAIN files = DOMAIN problem.new
  BY DEF SearchInv, TypeOK, FinalLink
<1>2. Targets' = Targets /\ Sources' = Sources /\ \A u, r : Rate(u, r)' = Rate(u, r)
  BY <1>1, SameProblem
<1>3. /\ peer' \in [Path -> Path \cup {None}]
      /\ \A s \in Sources : peer'[s] = peer[s]
      /\ \A q \in Path : peer'[q] = None => peer[q] = None
  BY FinalLinkPeers
<1>4. TypeOK'
  BY <1>1, <1>2, <1>3 DEF SearchInv, TypeOK
<1>5. Free' /\ Cached'
  BY <1>1, <1>2, <1>3 DEF SearchInv, Free, Cached
<1>6. \A u \in Targets, r \in Sources : Linked(u, r)' <=> Linked(u, r)
  BY <1>3 DEF Linked
<1>7. Decided'
  BY <1>1, <1>2, <1>6 DEF SearchInv, Decided, Searching
<1>8. BestFirst'
  BY <1>1, <1>2, <1>6 DEF SearchInv, BestFirst
<1>9. OldOrphans'
  <2>1. DOMAIN files \subseteq Path
    BY <1>1, ProblemFacts
  <2> QED
    BY <1>1, <1>3, <2>1 DEF SearchInv, OldOrphans, Searching
<1> QED
  BY <1>4, <1>5, <1>7, <1>8, <1>9 DEF SearchInv

\* Orphans lose their flag.
LEMMA CleanStep == SearchInv /\ CleanRenames => SearchInv'
<1> SUFFICES ASSUME SearchInv, CleanRenames PROVE SearchInv'
  OBVIOUS
<1>1. /\ problem' = problem /\ pc = "walk" /\ pc' = "done" /\ peer' = peer
      /\ newFiles' = newFiles /\ deletedFiles' = deletedFiles
      /\ score' = score /\ walk' = walk /\ DOMAIN files = DOMAIN problem.new
      /\ walk = {}
  BY DEF SearchInv, TypeOK, CleanRenames
<1>2. Targets' = Targets /\ Sources' = Sources /\ \A u, r : Rate(u, r)' = Rate(u, r)
  BY <1>1, SameProblem
<1>3. /\ files \in [DOMAIN files -> Entry] /\ DOMAIN files \subseteq Path /\ IsFileList(files)
  BY DEF SearchInv, TypeOK, IsFileList
<1>4. \A p \in DOMAIN files :
         files'[p] = IF files[p].rename /\ peer[p] = None
                     THEN NoRename(files[p]) ELSE files[p]
  BY DEF CleanRenames
<1>5. DOMAIN files' = DOMAIN files /\ files' = [p \in DOMAIN files |-> files'[p]]
  BY DEF CleanRenames
<1>6. \A p \in DOMAIN files : /\ files'[p] \in Entry /\ files'[p].last = files[p].last
                              /\ files'[p].rename => files[p].rename
  <2>1. \A e \in Entry : /\ NoRename(e) \in Entry /\ NoRename(e).last = e.last
                         /\ ~NoRename(e).rename
    BY DEF NoRename, Entry, Hash
  <2> QED
    BY <1>3, <1>4, <2>1
<1>7. TypeOK'
  <2>1. files' \in [DOMAIN files -> Entry]
    BY <1>5, <1>6
  <2>2. IsFileList(files')
    BY <1>3, <1>5, <2>1 DEF IsFileList
  <2> QED
    BY <1>1, <1>2, <1>5, <2>2 DEF SearchInv, TypeOK
<1>8. Free' /\ Cached'
  BY <1>1, <1>2 DEF SearchInv, Free, Cached
<1>9. Decided' /\ BestFirst'
  BY <1>1, <1>2 DEF SearchInv, Decided, BestFirst, Searching, Linked
<1>10. OldOrphans'
  BY <1>1, <1>5, <1>6 DEF SearchInv, OldOrphans, Searching
<1> QED
  BY <1>7, <1>8, <1>9, <1>10 DEF SearchInv

\* SearchInv is inductive.
LEMMA SearchNext == SearchInv /\ [Next]_vars => SearchInv'
<1> SUFFICES ASSUME SearchInv, [Next]_vars PROVE SearchInv'
  OBVIOUS
<1>1. CASE UNCHANGED vars
  <2>1. Targets' = Targets /\ Sources' = Sources /\ \A u, r : Rate(u, r)' = Rate(u, r)
    BY <1>1, SameProblem DEF vars
  <2>2. TypeOK' /\ Free' /\ Cached'
    BY <1>1, <2>1 DEF vars, SearchInv, TypeOK, Free, Cached
  <2>3. Decided' /\ BestFirst'
    BY <1>1, <2>1 DEF vars, SearchInv, Decided, BestFirst, Searching, Linked
  <2>4. OldOrphans'
    BY <1>1, <2>1 DEF vars, SearchInv, OldOrphans, Searching
  <2> QED
    BY <2>2, <2>3, <2>4 DEF SearchInv
<1>2. CASE Next
  BY <1>2, ListStep, ScoreStep, EndSearchStep, ListRenamedStep, CleanStep,
     SkipStep, RedoStep, LinkStep, FinalLinkStep DEF Next
<1> QED
  BY <1>1, <1>2
-----------------------------------------------------------------------------
\* Every variable of the search keeps its type (rename.c:408-534).
THEOREM SearchTypeCorrect == Spec => []TypeOK
<1>1. SearchInv => TypeOK
  BY DEF SearchInv
<1> QED
  BY SearchInit, SearchNext, <1>1, PTL DEF Spec

\* When the search is over, no new and deleted file that resemble each other
\* enough are both left with something worse (rename.c:408-445).
THEOREM NobodyMisses == Spec => []NobodyMissesOut
<1>1. SearchInv => NobodyMissesOut
  <2> SUFFICES ASSUME SearchInv, ~Searching, NEW t \in Targets, NEW s \in Sources,
                      Rate(t, s) >= MinScore
               PROVE  \E ts \in Found : /\ ts[1] = t \/ ts[2] = s
                                        /\ problem.rate[ts] >= Rate(t, s)
    BY DEF NobodyMissesOut
  <2>1. /\ problem \in Problems /\ deletedFiles = {r \in Sources : peer[r] = None}
        /\ newFiles = {} \/ deletedFiles = {}
        /\ pc \notin {"list", "score"}
    BY DEF SearchInv, TypeOK, Free, Decided, Searching
  <2>2. /\ \A u \in Targets, r \in Sources : Rate(u, r) \in Int
        /\ MinScore \in Int /\ t \in Path /\ s \in Path
    BY <2>1, ProblemFacts
  <2>3. \A u \in Targets, r \in Sources :
           Linked(u, r) => <<u, r>> \in Found /\ problem.rate[<<u, r>>] = Rate(u, r)
    BY DEF Linked, Found, Rate
  <2>4. CASE s \in deletedFiles
    <3>1. PICK r \in Sources : Linked(t, r)
      BY <2>1, <2>2, <2>4 DEF SearchInv, Decided
    <3>2. Rate(t, s) <= Rate(t, r)
      BY <2>4, <3>1 DEF SearchInv, BestFirst
    <3> QED
      BY <2>2, <2>3, <3>1, <3>2
  <2>5. CASE s \notin deletedFiles
    <3>1. PICK u \in Targets : Linked(u, s)
      BY <2>1, <2>5 DEF SearchInv, Free, Linked
    <3>2. \/ Rate(t, s) <= Rate(u, s)
          \/ \E r \in Sources : Linked(t, r) /\ Rate(t, s) <= Rate(t, r)
      BY <2>2, <3>1 DEF SearchInv, BestFirst
    <3> QED
      BY <2>2, <2>3, <3>1, <3>2
  <2> QED
    BY <2>4, <2>5
<1> QED
  BY SearchInit, SearchNext, <1>1, PTL DEF Spec
-----------------------------------------------------------------------------
(* RenameSearch implements RenameChoice. *)

\* A pair that could still be made has not been passed over.
LEMMA OpenIsUndecided ==
  ASSUME SearchInv, pc = "search", NEW ts \in Choice!Open
  PROVE  /\ ts \in Targets \X Sources
         /\ ts[1] \in newFiles /\ ts[2] \in deletedFiles
<1>1. /\ ts \in Targets \X Sources /\ problem.rate[ts] >= MinScore
      /\ \A us \in Found : us[1] # ts[1] /\ us[2] # ts[2]
  BY DEF Choice!Open
<1>2. PICK t \in Targets, s \in Sources : ts = <<t, s>>
  BY <1>1
<1>3. problem \in Problems /\ deletedFiles = {r \in Sources : peer[r] = None}
  BY DEF SearchInv, TypeOK, Free
<1>4. \A u \in Targets, r \in Sources :
         peer[r] = u => <<u, r>> \in Found /\ <<u, r>>[1] = u /\ <<u, r>>[2] = r
  BY DEF Found
<1>5. \A r \in Sources : peer[r] # t
  BY <1>1, <1>2, <1>4
<1>6. s \in deletedFiles
  BY <1>1, <1>2, <1>3, <1>4 DEF SearchInv, Free
<1>7. ~(Rate(t, s) < MinScore)
  BY <1>1, <1>2, <1>3, ProblemFacts DEF Rate
<1>8. t \in newFiles
  BY <1>5, <1>6, <1>7 DEF SearchInv, Decided, Linked
<1> QED
  BY <1>1, <1>2, <1>6, <1>8

\* What all steps but those of the search leave alone.
LEMMA Stutters ==
  ASSUME problem' = problem, (Searching)' = Searching,
         \A s \in Sources : peer'[s] = peer[s]
  PROVE  UNCHANGED Choice!vars
<1>1. Targets' = Targets /\ Sources' = Sources
  BY SameProblem
<1>2. Found' = Found
  BY <1>1 DEF Found
<1>3. problem.rate' = problem.rate
  OBVIOUS
<1> QED
  BY <1>1, <1>2, <1>3 DEF Choice!vars

\* Making a pair makes the best pair that can be made.
LEMMA LinkIsPair ==
  ASSUME SearchInv, NEW t \in Path, Link(t)
  PROVE  \E ts \in Choice!Open : Choice!Pair(ts) \/ Choice!PairAndStop(ts)
<1> DEFINE s == peer[t]
<1>1. /\ problem \in Problems /\ newFiles \subseteq Targets
      /\ deletedFiles = {r \in Sources : peer[r] = None}
      /\ peer \in [Path -> Path \cup {None}] /\ score \in [Path -> Int]
      /\ pc = "search"
  BY DEF SearchInv, TypeOK, Free, Link, Head
<1>2. /\ problem' = problem
      /\ pc' = IF deletedFiles = {s} THEN "link" ELSE "search"
      /\ t \in newFiles /\ \A u \in newFiles : score[u] <= score[t]
      /\ peer' = [peer EXCEPT ![s] = t]
  BY DEF Link, Head
<1>3. s # None /\ ~(score[t] < MinScore) /\ peer[s] = None
  BY DEF Link, TooWeak, Taken
<1>4. Targets' = Targets /\ Sources' = Sources
  BY <1>2, SameProblem
<1>5. /\ Targets \subseteq Path /\ Sources \subseteq Path /\ None \notin Path
      /\ \A u \in Path, r \in Path : Rate(u, r) \in Int
      /\ MinScore \in Int
  BY <1>1, ProblemFacts
<1>6. s \in Sources /\ s \in deletedFiles /\ score[t] = Rate(t, s)
  BY <1>1, <1>2, <1>3 DEF SearchInv, Cached
<1>7. \A r \in Sources : peer[r] # t
  BY <1>2, <1>5, <1>1 DEF SearchInv, Free
<1>8. Found' = Found \cup {<<t, s>>}
  <2>1. \A r \in Sources : peer'[r] = IF r = s THEN t ELSE peer[r]
    BY <1>1, <1>2, <1>5, <1>6
  <2>2. \A u \in Targets, r \in Sources : peer'[r] = u <=> peer[r] = u \/ (u = t /\ r = s)
    BY <1>1, <1>3, <1>5, <2>1
  <2>3. \A x : x \in Found' <=> x \in Found \/ x = <<t, s>>
    BY <1>1, <1>2, <1>4, <1>6, <2>2 DEF Found
  <2> QED
    BY <2>3
<1>9. <<t, s>> \in Choice!Open
  <2>1. <<t, s>> \in Targets \X Sources
    BY <1>1, <1>2, <1>6
  <2>2. problem.rate[<<t, s>>] >= MinScore
    BY <1>1, <1>2, <1>3, <1>5, <1>6 DEF Rate
  <2>3. \A us \in Found : us[1] # t /\ us[2] # s
    BY <1>3, <1>5, <1>7 DEF Found
  <2> QED
    BY <2>1, <2>2, <2>3 DEF Choice!Open
<1>10. ASSUME NEW us \in Choice!Open
       PROVE  problem.rate[us] <= problem.rate[<<t, s>>] /\ us[2] \in deletedFiles
  <2>1. us \in Targets \X Sources /\ us[1] \in newFiles /\ us[2] \in deletedFiles
    BY <1>1, OpenIsUndecided
  <2>2. PICK v \in Targets, r \in Sources : us = <<v, r>>
    BY <2>1
  <2>3. Rate(v, r) <= score[v] /\ score[v] <= score[t]
    BY <1>1, <1>2, <2>1, <2>2 DEF SearchInv, Cached
  <2>4. Rate(v, r) \in Int /\ score[v] \in Int /\ score[t] \in Int
    BY <1>1, <1>2, <1>5
  <2>5. Rate(v, r) <= Rate(t, s)
    BY <1>6, <2>3, <2>4
  <2> QED
    BY <2>1, <2>2, <2>5 DEF Rate
<1>11. /\ Searching /\ Choice!Open # {}
       /\ UNCHANGED <<Targets, Sources, problem.rate>>
  BY <1>1, <1>2, <1>4, <1>9 DEF Searching
<1>12. CASE deletedFiles = {s}
  <2>1. ~(Searching')
    BY <1>2, <1>12 DEF Searching
  <2>2. Choice!PairAndStop(<<t, s>>)
    BY <1>8, <1>10, <1>11, <1>12, <2>1 DEF Choice!PairAndStop
  <2> QED
    BY <1>9, <2>2
<1>13. CASE deletedFiles # {s}
  <2>1. Searching'
    BY <1>2, <1>13 DEF Searching
  <2>2. Choice!Pair(<<t, s>>)
    BY <1>8, <1>10, <1>11, <2>1 DEF Choice!Pair
  <2> QED
    BY <1>9, <2>2
<1> QED
  BY <1>12, <1>13

\* The search stops, early or at its end, when no pair can be made.
LEMMA StopIsStop ==
  ASSUME SearchInv, (ListFiles /\ pc' = "link") \/ EndSearch
  PROVE  Choice!Stop
<1>1. problem' = problem /\ peer' = peer /\ Searching /\ ~(Searching')
  BY DEF ListFiles, EndSearch, Searching
<1>2. Targets' = Targets /\ Sources' = Sources
  BY <1>1, SameProblem
<1>3. Found' = Found /\ problem.rate' = problem.rate
  BY <1>1, <1>2 DEF Found
<1>4. Choice!Open = {}
  <2>1. CASE ListFiles /\ pc' = "link"
    BY <2>1 DEF ListFiles, Choice!Open
  <2>2. CASE EndSearch
    BY <2>2, OpenIsUndecided DEF EndSearch
  <2> QED
    BY <2>1, <2>2
<1> QED
  BY <1>1, <1>2, <1>3, <1>4 DEF Choice!Stop

\* rename_detection, with its cached scores, its goto and its early exits, makes
\* the best pair that can still be made, one after the other, and ends when
\* there is none (rename.c:365-446).
THEOREM SearchImplementsChoice == Spec => ImplementsChoice
<1>1. Init => Choice!Init
  <2> SUFFICES ASSUME Init PROVE Choice!Init
    OBVIOUS
  <2>1. problem \in Problems /\ \A p \in Path : peer[p] = None
    BY DEF Init
  <2>2. Found = {}
    BY <2>1, ProblemFacts DEF Found
  <2>3. Searching
    BY DEF Init, Searching
  <2> QED
    BY <2>2, <2>3 DEF Choice!Init
<1>2. SearchInv /\ [Next]_vars => [Choice!Next]_(Choice!vars)
  <2> SUFFICES ASSUME SearchInv, [Next]_vars PROVE [Choice!Next]_(Choice!vars)
    OBVIOUS
  <2> problem \in Problems /\ Sources \subseteq Path /\ Targets \cap Sources = {}
      /\ newFiles \subseteq Targets /\ peer \in [Path -> Path \cup {None}]
    BY ProblemFacts DEF SearchInv, TypeOK
  <2>1. CASE UNCHANGED vars
    BY <2>1, Stutters DEF vars, Searching
  <2>2. CASE ListFiles
    <3>1. CASE pc' = "link"
      BY <2>2, <3>1, StopIsStop DEF Choice!Next
    <3>2. CASE pc' # "link"
      BY <2>2, <3>2, Stutters DEF ListFiles, Searching
    <3> QED
      BY <3>1, <3>2
  <2>3. CASE ScoreAll
    <3>1. newFiles = Targets /\ problem' = problem /\ (Searching)' = Searching
      BY <2>3 DEF SearchInv, Free, ScoreAll, Searching
    <3>2. \A s \in Sources : peer'[s] = peer[s]
      BY <2>3, <3>1 DEF ScoreAll
    <3> QED
      BY <3>1, <3>2, Stutters
  <2>4. CASE EndSearch
    BY <2>4, StopIsStop DEF Choice!Next
  <2>5. CASE ListRenamed
    BY <2>5, Stutters DEF ListRenamed, Searching
  <2>6. CASE CleanRenames
    BY <2>6, Stutters DEF CleanRenames, Searching
  <2>7. ASSUME NEW p \in Path, Skip(p) PROVE UNCHANGED Choice!vars
    BY <2>7, Stutters DEF Skip, Searching
  <2>8. ASSUME NEW p \in Path, Redo(p) PROVE UNCHANGED Choice!vars
    <3>1. /\ p \in newFiles /\ problem' = problem /\ (Searching)' = Searching
          /\ \E s : peer' = [peer EXCEPT ![p] = s]
      BY <2>8 DEF Redo, Head, Searching
    <3>2. \A s \in Sources : peer'[s] = peer[s]
      BY <3>1
    <3> QED
      BY <3>1, <3>2, Stutters
  <2>9. ASSUME NEW p \in Path, Link(p) PROVE Choice!Next
    BY <2>9, LinkIsPair DEF Choice!Next
  <2>10. ASSUME NEW p \in Path, FinalLink(p) PROVE UNCHANGED Choice!vars
    <3>1. \A s \in Sources : peer'[s] = peer[s]
      BY <2>10, FinalLinkPeers
    <3> QED
      BY <2>10, <3>1, Stutters DEF FinalLink, Searching
  <2> QED
    BY <2>1, <2>2, <2>3, <2>4, <2>5, <2>6, <2>7, <2>8, <2>9, <2>10 DEF Next
<1> QED
  BY <1>1, <1>2, SearchInit, SearchNext, PTL DEF Spec, ImplementsChoice, Choice!Spec
-----------------------------------------------------------------------------
(* What the search and clean_renames write is what ManifestOps computes. *)

LinkedTargets == {t \in Targets : \E s \in Sources : peer[s] = t}
LinkedSources == {s \in Sources : peer[s] # None}
Paired == LinkedTargets \cup LinkedSources

RenameFlagged == {p \in DOMAIN files : files[p].rename}

\* Until clean_renames, only the pairs that were made differ from the files
\* that came in.
FilesLinked ==
    pc # "done" =>
        \A p \in DOMAIN files :
            /\ p \in LinkedTargets => files[p] = [problem.new[p] EXCEPT !.rename = TRUE]
            /\ p \in LinkedSources =>
                  files[p] = [problem.new[p] EXCEPT !.rename = TRUE,
                                                    !.hash = problem.new[peer[p]].hash]
            /\ p \notin Paired => files[p] = problem.new[p]

\* A file that is somebody's rename_peer has one; what is neither new nor
\* deleted gets one from final_link only.
PeersKnown ==
    /\ \A t \in LinkedTargets : peer[t] # None
    /\ pc \in {"list", "score", "search", "link"} =>
          \A p \in Path \ (Targets \cup Sources) : peer[p] = None

Differ(p)   == {q \in SameRename(files, p) : files[q].deleted # files[p].deleted}
Unpaired(p) == SameRename(files, p) \ Paired

\* Who is linked when final_link has come as far as walk.
Reached(p) ==
    \/ p \in Paired
    \/ p \notin walk /\ \E q \in Differ(p) : q > p
    \/ \E q \in Differ(p) \ (Paired \cup walk) : \A r \in Unpaired(p) : q <= r

Walked ==
    pc = "walk" =>
        /\ walk \subseteq RenameFlagged
        /\ \A p \in walk, q \in RenameFlagged : Before(p, q) => q \in walk
        /\ \A p \in RenameFlagged : peer[p] # None <=> Reached(p)

\* m is the matching that has been made.
Made(m) == DOMAIN m = LinkedTargets /\ \A t \in LinkedTargets : peer[m[t]] = t

Ended ==
    pc = "done" =>
        \A m \in RenameMatchings(problem.old, problem.new, MaxVersion) :
            Made(m) => files = RenamesCleaned(RenamesLinked(problem.new, m), m)

LinksInv == FilesLinked /\ PeersKnown /\ Walked /\ Ended

\* Before the first step nothing is linked.
LEMMA LinksInit == Init => LinksInv
<1> SUFFICES ASSUME Init PROVE LinksInv
  OBVIOUS
<1>1. problem \in Problems /\ \A p \in Path : peer[p] = None
  BY DEF Init
<1>2. Targets \subseteq Path /\ Sources \subseteq Path /\ None \notin Path
  BY <1>1, ProblemFacts
<1>3. LinkedTargets = {} /\ LinkedSources = {}
  BY <1>1, <1>2 DEF LinkedTargets, LinkedSources
<1> QED
  BY <1>1, <1>3 DEF Init, LinksInv, FilesLinked, PeersKnown, Walked, Ended, Paired

\* Steps that change neither the files nor whom a source is given to.
LEMMA LinksKept ==
  ASSUME problem' = problem, \A s \in Sources : peer'[s] = peer[s]
  PROVE  /\ Targets' = Targets /\ Sources' = Sources
         /\ LinkedTargets' = LinkedTargets /\ LinkedSources' = LinkedSources
         /\ Paired' = Paired
<1>1. Targets' = Targets /\ Sources' = Sources
  BY SameProblem
<1>2. LinkedTargets' = LinkedTargets
  BY <1>1 DEF LinkedTargets
<1>3. LinkedSources' = LinkedSources
  BY <1>1 DEF LinkedSources
<1> QED
  BY <1>1, <1>2, <1>3 DEF Paired

\* What the steps of the search but Link leave alone.
LEMMA SearchLinks ==
  ASSUME SearchInv, LinksInv, pc \in {"list", "score", "search"},
         ListFiles \/ ScoreAll \/ EndSearch \/ \E p \in Path : Skip(p) \/ Redo(p)
  PROVE  LinksInv'
<1>1. /\ problem \in Problems /\ problem' = problem /\ files' = files
      /\ pc' \in {"score", "search", "link"}
      /\ newFiles \subseteq Targets /\ peer \in [Path -> Path \cup {None}]
      /\ deletedFiles \subseteq Sources
  BY DEF SearchInv, TypeOK, ListFiles, ScoreAll, EndSearch, Skip, Redo, Head
<1>2. /\ Targets \subseteq Path /\ Sources \subseteq Path /\ Targets \cap Sources = {}
      /\ None \notin Path
  BY <1>1, ProblemFacts
<1>3. /\ \A p \in Path \ newFiles : peer'[p] = peer[p]
      /\ \A t \in LinkedTargets : peer'[t] = peer[t] 
  <2>1. CASE ListFiles \/ EndSearch \/ \E p \in Path : Skip(p)
    BY <2>1 DEF ListFiles, EndSearch, Skip
  <2>2. CASE ScoreAll
    <3>1. LinkedTargets = {}
      BY <1>2, <2>2 DEF SearchInv, Free, ScoreAll, LinkedTargets
    <3> QED
      BY <2>2, <3>1 DEF ScoreAll
  <2>3. ASSUME NEW p \in Path, Redo(p)
        PROVE  /\ \A q \in Path \ newFiles : peer'[q] = peer[q]
               /\ \A t \in LinkedTargets : peer'[t] = peer[t] 
    <3>1. p \in newFiles /\ \E s : peer' = [peer EXCEPT ![p] = s]
      BY <2>3 DEF Redo, Head
    <3>2. p \notin LinkedTargets
      BY <1>1, <1>2, <3>1 DEF SearchInv, Free, LinkedTargets
    <3>3. LinkedTargets \subseteq Path
      BY <1>2 DEF LinkedTargets
    <3> QED
      BY <1>1, <3>1, <3>2, <3>3
  <2> QED
    BY <2>1, <2>2, <2>3
<1>4. \A s \in Sources : peer'[s] = peer[s]
  BY <1>1, <1>2, <1>3
<1>5. /\ Targets' = Targets /\ Sources' = Sources
      /\ LinkedTargets' = LinkedTargets /\ LinkedSources' = LinkedSources
      /\ Paired' = Paired
  BY <1>1, <1>4, LinksKept
<1>6. FilesLinked'
  <2>1. \A p \in LinkedSources : peer'[p] = peer[p]
    BY <1>4 DEF LinkedSources
  <2> QED
    BY <1>1, <1>5, <2>1 DEF LinksInv, FilesLinked
<1>7. PeersKnown'
  BY <1>1, <1>2, <1>3, <1>5 DEF LinksInv, PeersKnown
<1> QED
  BY <1>1, <1>6, <1>7 DEF LinksInv, Walked, Ended

\* Link adds the pair it makes, and marks both ends.
LEMMA LinkLinks ==
  ASSUME NEW t \in Path, SearchInv, LinksInv, Link(t)
  PROVE  LinksInv'
<1> DEFINE s == peer[t]
<1>1. /\ problem \in Problems /\ newFiles \subseteq Targets
      /\ deletedFiles = {r \in Sources : peer[r] = None}
      /\ peer \in [Path -> Path \cup {None}] /\ pc = "search"
      /\ IsFileList(files) /\ DOMAIN files = DOMAIN problem.new
  BY DEF SearchInv, TypeOK, Free, Link, Head
<1>2. /\ problem' = problem /\ pc' \in {"link", "search"} /\ t \in newFiles
      /\ peer' = [peer EXCEPT ![s] = t]
      /\ files' = [p \in DOMAIN files |->
                      IF p \in {t, s} THEN Rename(files[p], files[t].hash) ELSE files[p]]
  BY DEF Link, Head
<1>3. s # None /\ peer[s] = None
  BY DEF Link, TooWeak, Taken
<1>4. /\ Targets \subseteq DOMAIN files /\ Sources \subseteq DOMAIN files
      /\ DOMAIN files \subseteq Path /\ Targets \cap Sources = {} /\ None \notin Path
      /\ problem.new \in [DOMAIN files -> Entry]
  BY <1>1, ProblemFacts
<1>5. s \in Sources
  BY <1>1, <1>2, <1>3 DEF SearchInv, Cached
<1>6. Targets' = Targets /\ Sources' = Sources
  BY <1>2, SameProblem
<1>7. peer'[s] = t /\ \A p \in Path \ {s} : peer'[p] = peer[p]
  BY <1>1, <1>2, <1>4, <1>5
<1>8. t \notin Paired /\ s \notin Paired /\ t \in Targets /\ t # None /\ t # s
  <2>1. t \notin LinkedTargets
    BY <1>1, <1>2, <1>4 DEF SearchInv, Free, LinkedTargets
  <2>2. s \notin LinkedSources
    BY <1>3 DEF LinkedSources
  <2> QED
    BY <1>1, <1>2, <1>4, <1>5, <2>1, <2>2 DEF Paired, LinkedTargets, LinkedSources
<1>9. LinkedTargets' = LinkedTargets \cup {t}
  <2>1. \A u \in Targets : (\E r \in Sources : peer'[r] = u) <=> (\E r \in Sources : peer[r] = u) \/ u = t
    BY <1>3, <1>4, <1>5, <1>7, <1>8
  <2> QED
    BY <1>6, <1>8, <2>1 DEF LinkedTargets
<1>10. LinkedSources' = LinkedSources \cup {s}
  <2>1. \A r \in Sources : peer'[r] # None <=> peer[r] # None \/ r = s
    BY <1>4, <1>5, <1>7, <1>8
  <2> QED
    BY <1>5, <1>6, <2>1 DEF LinkedSources
<1>11. FilesLinked'
  <2>1. files[t] = problem.new[t] /\ files[s] = problem.new[s]
    BY <1>1, <1>4, <1>5, <1>8 DEF LinksInv, FilesLinked
  <2>2. problem.new[t] \in Entry /\ problem.new[s] \in Entry
    BY <1>4, <1>5, <1>8
  <2>3. files'[t] = [problem.new[t] EXCEPT !.rename = TRUE]
    <3>1. files'[t] = Rename(problem.new[t], problem.new[t].hash)
      BY <1>2, <1>4, <1>8, <2>1
    <3> QED
      BY <2>2, <3>1 DEF Rename, Entry
  <2>4. files'[s] = [problem.new[s] EXCEPT !.rename = TRUE, !.hash = problem.new[t].hash]
    BY <1>2, <1>4, <1>5, <2>1 DEF Rename
  <2>5. /\ DOMAIN files' = DOMAIN files
        /\ \A p \in DOMAIN files \ {t, s} : files'[p] = files[p]
    BY <1>2
  <2>6. \A p \in LinkedSources : p # s /\ p # t /\ peer'[p] = peer[p]
    BY <1>4, <1>7, <1>8 DEF LinkedSources, Paired
  <2>7. \A p \in LinkedTargets : p # s /\ p # t
    BY <1>8 DEF Paired
  <2>8. ASSUME NEW p \in DOMAIN files
        PROVE  /\ p \in LinkedTargets' => files'[p] = [problem.new[p] EXCEPT !.rename = TRUE]
               /\ p \in LinkedSources' =>
                     files'[p] = [problem.new[p] EXCEPT !.rename = TRUE,
                                                        !.hash = problem.new[peer'[p]].hash]
               /\ p \notin Paired' => files'[p] = problem.new[p]
    <3>1. CASE p = t
      BY <1>5, <1>8, <1>9, <1>10, <2>3, <3>1, <1>4 DEF Paired, LinkedSources
    <3>2. CASE p = s
      BY <1>5, <1>7, <1>8, <1>9, <1>10, <2>4, <3>2, <1>4 DEF Paired, LinkedTargets
    <3>3. CASE p \notin {t, s}
      BY <1>1, <1>9, <1>10, <2>5, <2>6, <3>3 DEF LinksInv, FilesLinked, Paired
    <3> QED
      BY <3>1, <3>2, <3>3
  <2> QED
    BY <1>2, <2>5, <2>8 DEF FilesLinked
<1>12. PeersKnown'
  <2>1. \A u \in LinkedTargets : u # s
    BY <1>8 DEF Paired
  <2>2. LinkedTargets \subseteq Path
    BY <1>4 DEF LinkedTargets
  <2>3. \A u \in LinkedTargets' : peer'[u] # None
    BY <1>3, <1>7, <1>8, <1>9, <2>1, <2>2 DEF LinksInv, PeersKnown
  <2> QED
    BY <1>1, <1>2, <1>5, <1>6, <1>7, <2>3 DEF LinksInv, PeersKnown
<1> QED
  BY <1>2, <1>11, <1>12 DEF LinksInv, Walked, Ended

\* Before final_link, the renames with a rename_peer are the pairs.
LEMMA ListLinks ==
  ASSUME SearchInv, LinksInv, ListRenamed
  PROVE  LinksInv'
<1>1. /\ problem \in Problems /\ problem' = problem /\ files' = files /\ peer' = peer
      /\ pc = "link" /\ pc' = "walk" /\ walk' = RenameFlagged
      /\ DOMAIN files = DOMAIN problem.new
  BY DEF SearchInv, TypeOK, ListRenamed, RenameFlagged
<1>2. /\ Targets' = Targets /\ Sources' = Sources
      /\ LinkedTargets' = LinkedTargets /\ LinkedSources' = LinkedSources
      /\ Paired' = Paired
  BY <1>1, LinksKept
<1>3. FilesLinked' /\ PeersKnown'
  BY <1>1, <1>2 DEF LinksInv, FilesLinked, PeersKnown
<1>4. RenameFlagged' = RenameFlagged
  BY <1>1 DEF RenameFlagged
<1>5. ASSUME NEW p \in RenameFlagged
      PROVE  peer[p] # None <=> p \in Paired
  <2>1. CASE p \in Paired
    BY <2>1 DEF LinksInv, PeersKnown, Paired, LinkedSources
  <2>2. CASE p \notin Paired
    <3>1. p \in DOMAIN files /\ files[p] = problem.new[p] /\ files[p].rename
      BY <1>1, <2>2 DEF LinksInv, FilesLinked, RenameFlagged
    <3>2. p \in Path /\ p \notin Targets /\ p \notin Sources
      <4>1. /\ p \in Path /\ MaxVersion \in Int /\ problem.new[p].last < MaxVersion
            /\ \A q \in Targets \cup Sources : problem.new[q].last = MaxVersion
        BY <1>1, <3>1, ProblemFacts
      <4> QED
        BY <4>1
    <3>3. peer[p] = None
      BY <1>1, <3>2 DEF LinksInv, PeersKnown
    <3> QED
      BY <2>2, <3>3
  <2> QED
    BY <2>1, <2>2
<1>6. \A p \in RenameFlagged : Reached(p)' <=> p \in Paired
  <2>1. \A p \in RenameFlagged : Differ(p)' \subseteq RenameFlagged
    BY <1>1 DEF Differ, SameRename, RenameFlagged
  <2> QED
    BY <1>1, <1>2, <2>1 DEF Reached
<1>7. Walked'
  BY <1>1, <1>4, <1>5, <1>6 DEF Walked
<1> QED
  BY <1>1, <1>3, <1>7 DEF LinksInv, Ended

\* The files that are considered with a rename are the same for all of them.
LEMMA SameGroup ==
  ASSUME NEW p \in RenameFlagged, NEW q \in SameRename(files, p)
  PROVE  /\ q \in RenameFlagged /\ p \in SameRename(files, q)
         /\ SameRename(files, q) = SameRename(files, p)
         /\ Unpaired(q) = Unpaired(p)
         /\ q \in Differ(p) <=> p \in Differ(q)
<1>1. /\ q \in DOMAIN files /\ files[q].rename /\ files[q].last = files[p].last
      /\ files[q].hash = files[p].hash /\ p \in DOMAIN files /\ files[p].rename
  BY DEF SameRename, RenameFlagged
<1> QED
  BY <1>1 DEF SameRename, RenameFlagged, Unpaired, Differ

\* The partners of the head of final_link's list are those behind it by name.
LEMMA PartnersBehind ==
  ASSUME SearchInv, Walked, pc = "walk", NEW r \in walk, \A q \in walk : ~Before(q, r)
  PROVE  /\ Partners(r) = {q \in Differ(r) : q > r}
         /\ \A q \in RenameFlagged : q \in SameRename(files, r) /\ q < r => q \notin walk
<1>1. /\ problem \in Problems /\ DOMAIN files \subseteq Path /\ Path \subseteq Nat
      /\ walk \subseteq RenameFlagged /\ RenameFlagged \subseteq DOMAIN files
      /\ \A p \in walk, q \in RenameFlagged : Before(p, q) => q \in walk
      /\ r \in RenameFlagged
  BY ProblemFacts, PathAssumption
     DEF SearchInv, TypeOK, Walked, RenameFlagged, PathAssumption
<1>2. \A q \in RenameFlagged : q \in Nat /\ r \in Nat
  BY <1>1
<1>3. ASSUME NEW q \in Partners(r) PROVE q \in Differ(r) /\ q > r
  <2>1. /\ q \in walk /\ q # r /\ files[q].last = files[r].last
        /\ files[q].hash = files[r].hash /\ files[q].deleted # files[r].deleted
    BY DEF Partners
  <2>2. q \in RenameFlagged /\ ~Before(q, r)
    BY <1>1, <2>1
  <2>3. q > r
    BY <1>2, <2>1, <2>2 DEF Before
  <2> QED
    BY <2>1, <2>2, <2>3 DEF Differ, SameRename, RenameFlagged
<1>4. ASSUME NEW q \in Differ(r), q > r PROVE q \in Partners(r)
  <2>1. /\ q \in RenameFlagged /\ files[q].last = files[r].last
        /\ files[q].hash = files[r].hash /\ files[q].deleted # files[r].deleted
    BY DEF Differ, SameRename, RenameFlagged
  <2>2. Before(r, q) /\ q # r
    BY <1>2, <1>4, <2>1 DEF Before
  <2>3. q \in walk
    BY <1>1, <2>1, <2>2
  <2> QED
    BY <2>1, <2>2, <2>3 DEF Partners
<1>5. ASSUME NEW q \in RenameFlagged, q \in SameRename(files, r), q < r PROVE q \notin walk
  BY <1>5 DEF SameRename, Before
<1> QED
  BY <1>3, <1>4, <1>5

\* What a turn of final_link does to who is linked.
LEMMA FinalLinkReached ==
  ASSUME SearchInv, Walked, NEW r \in Path, FinalLink(r),
         Paired' = Paired, NEW p \in RenameFlagged
  PROVE  peer'[p] # None <=> Reached(p)'
<1>1. /\ problem \in Problems /\ pc = "walk" /\ r \in walk /\ \A q \in walk : ~Before(q, r)
      /\ files' = files /\ walk' = walk \ {r}
      /\ walk \subseteq RenameFlagged /\ RenameFlagged \subseteq DOMAIN files
      /\ DOMAIN files \subseteq Path /\ Path \subseteq Nat /\ None \notin Path
      /\ peer \in [Path -> Path \cup {None}]
      /\ \A q \in RenameFlagged : peer[q] # None <=> Reached(q)
  BY ProblemFacts, PathAssumption
     DEF SearchInv, TypeOK, FinalLink, Walked, RenameFlagged, PathAssumption
<1>2. /\ r \in RenameFlagged /\ \A q \in RenameFlagged : q \in Path /\ q \in Nat
      /\ \A q \in RenameFlagged : Differ(q) \subseteq SameRename(files, q)
      /\ \A q \in RenameFlagged : SameRename(files, q) \subseteq RenameFlagged
      /\ \A q \in RenameFlagged : q \in SameRename(files, q) /\ q \notin Differ(q)
  BY <1>1 DEF Differ, SameRename, RenameFlagged
<1>3. /\ Partners(r) = {q \in Differ(r) : q > r}
      /\ \A q \in RenameFlagged : q \in SameRename(files, r) /\ q < r => q \notin walk
  BY <1>1, PartnersBehind
\* The last disjunct, once r is visited too.
<1>4. Reached(p)' <=> \/ Reached(p)
                      \/ p = r /\ \E q \in Differ(p) : q > p
                      \/ r \in Differ(p) \ Paired /\ \A q \in Unpaired(p) : r <= q
  <2>1. Differ(p)' = Differ(p) /\ Unpaired(p)' = Unpaired(p)
    BY <1>1 DEF Differ, Unpaired, SameRename
  <2> QED
    BY <1>1, <2>1 DEF Reached
<1>5. ASSUME r \in Differ(p) \ Paired, \A q \in Unpaired(p) : r <= q
      PROVE  /\ peer[r] = None
             /\ p \in Paired \/ p \in Partners(r)
  <2>1. r \in SameRename(files, p)
    BY <1>2, <1>5
  <2>2. /\ p \in SameRename(files, r) /\ Unpaired(r) = Unpaired(p) /\ p \in Differ(r)
        /\ r \in Unpaired(r)
    BY <1>2, <1>5, <2>1, SameGroup DEF Unpaired
  <2>3. peer[r] = None
    <3>1. SUFFICES ASSUME Reached(r) PROVE FALSE
      BY <1>1, <1>2
    <3>2. PICK q \in Differ(r) \ (Paired \cup walk) : \A u \in Unpaired(r) : q <= u
      BY <1>1, <1>5, <3>1 DEF Reached
    <3>3. q \in Unpaired(r) /\ q \in Nat /\ r \in Nat
      BY <1>2, <3>2 DEF Unpaired
    <3>4. q <= r /\ r <= q
      BY <1>5, <2>2, <3>2, <3>3
    <3>5. q = r
      BY <3>3, <3>4
    <3> QED
      BY <1>1, <3>2, <3>5
  <2>4. ASSUME p \notin Paired PROVE p \in Partners(r)
    <3>1. p \in Unpaired(p)
      BY <1>2, <2>4 DEF Unpaired
    <3>2. r <= p /\ r # p
      BY <1>2, <1>5, <3>1
    <3>3. p > r
      BY <1>2, <3>2
    <3> QED
      BY <1>3, <2>2, <3>3
  <2> QED
    BY <2>3, <2>4
<1>6. CASE peer[r] # None \/ Partners(r) = {}
  <2>1. peer' = peer
    BY <1>1, <1>6 DEF FinalLink
  <2>2. p = r /\ (\E q \in Differ(p) : q > p) => peer[p] # None
    BY <1>3, <1>6
  <2>3. r \in Differ(p) \ Paired /\ (\A q \in Unpaired(p) : r <= q) => p \in Paired
    BY <1>5, <1>6
  <2>4. p \in Paired => peer[p] # None
    BY <1>1 DEF Reached
  <2> QED
    BY <1>1, <1>4, <2>1, <2>2, <2>3, <2>4
<1>7. CASE peer[r] = None /\ Partners(r) # {}
  <2>1. PICK last \in Partners(r) :
           peer' = [q \in Path |-> IF q \in Partners(r) THEN r
                                   ELSE IF q = r THEN last ELSE peer[q]]
    BY <1>7 DEF FinalLink
  <2>2. last \in Path /\ last # None /\ r # None
    BY <1>1, <1>2, <2>1 DEF Partners
  <2>3. peer'[p] # None <=> p \in Partners(r) \/ p = r \/ peer[p] # None
    BY <1>1, <1>2, <2>1, <2>2
  <2>4. ~Reached(r)
    BY <1>1, <1>2, <1>7
  <2>5. r \notin Paired
    BY <2>4 DEF Reached
  <2>6. CASE p = r
    BY <1>3, <1>4, <1>7, <2>3, <2>6
  <2>7. CASE p \in Partners(r)
    <3>1. SUFFICES ASSUME ~Reached(p)
                   PROVE  Reached(p)'
      BY <1>4, <2>3, <2>7
    <3>2. p \in Differ(r) /\ p > r /\ p \notin Paired
      BY <1>3, <2>7, <3>1 DEF Reached
    <3>3. /\ Unpaired(p) = Unpaired(r) /\ r \in Differ(p)
          /\ p \in SameRename(files, r) /\ SameRename(files, p) = SameRename(files, r)
      BY <1>2, <3>2, SameGroup
    <3>4. Unpaired(p) \in SUBSET Nat /\ p \in Unpaired(p) /\ r \in Unpaired(p)
      BY <1>2, <2>5, <3>2, <3>3 DEF Unpaired
    <3>5. PICK q \in Unpaired(p) : \A u \in Unpaired(p) : q <= u
      BY <3>4, LeastNatural
    <3>6. CASE q = r
      BY <1>4, <2>5, <3>3, <3>5, <3>6
    <3>7. CASE q # r
      <4>1. q <= r /\ q \in Nat /\ r \in Nat
        BY <3>4, <3>5
      <4>2. q < r
        BY <3>7, <4>1
      <4>3. q \in SameRename(files, r) /\ q \in RenameFlagged /\ q \notin Paired
        BY <1>2, <3>3 DEF Unpaired
      <4>4. q \notin walk
        BY <1>3, <4>2, <4>3
      <4>5. q \notin Differ(r)
        BY <2>4, <3>3, <3>5, <4>3, <4>4 DEF Reached
      <4>6. q \in Differ(p)
        <5>1. files[q].deleted = files[r].deleted
          BY <4>3, <4>5 DEF Differ
        <5>2. files[r].deleted # files[p].deleted
          BY <3>3 DEF Differ
        <5> QED
          BY <3>3, <4>3, <5>1, <5>2 DEF Differ
      <4> QED
        BY <1>4, <3>5, <4>3, <4>4, <4>6 DEF Reached
    <3> QED
      BY <3>6, <3>7
  <2>8. CASE p # r /\ p \notin Partners(r)
    <3>1. p \in Paired => Reached(p)
      BY DEF Reached
    <3> QED
      BY <1>1, <1>4, <1>5, <2>3, <2>8, <3>1
  <2> QED
    BY <2>6, <2>7, <2>8
<1> QED
  BY <1>6, <1>7

\* A turn of final_link.
LEMMA FinalLinkLinks ==
  ASSUME SearchInv, LinksInv, NEW r \in Path, FinalLink(r)
  PROVE  LinksInv'
<1>1. /\ problem' = problem /\ files' = files /\ pc = "walk" /\ pc' = pc
      /\ walk' = walk \ {r} /\ \A q \in walk : ~Before(q, r)
  BY DEF FinalLink
<1>2. /\ problem \in Problems /\ Targets \subseteq Path
      /\ \A s \in Sources : peer'[s] = peer[s]
      /\ \A q \in Path : peer'[q] = None => peer[q] = None
  BY FinalLinkPeers, ProblemFacts DEF SearchInv, TypeOK
<1>3. /\ Targets' = Targets /\ Sources' = Sources
      /\ LinkedTargets' = LinkedTargets /\ LinkedSources' = LinkedSources
      /\ Paired' = Paired
  BY <1>1, <1>2, LinksKept
<1>4. FilesLinked'
  <2>1. \A p \in LinkedSources : peer'[p] = peer[p]
    BY <1>2 DEF LinkedSources
  <2> QED
    BY <1>1, <1>3, <2>1 DEF LinksInv, FilesLinked
<1>5. PeersKnown'
  BY <1>1, <1>2, <1>3 DEF LinksInv, PeersKnown, LinkedTargets
<1>6. Walked'
  <2>1. RenameFlagged' = RenameFlagged
    BY <1>1 DEF RenameFlagged
  <2>2. \A p, q : Before(p, q)' <=> Before(p, q)
    BY <1>1 DEF Before
  <2>3. \A p \in RenameFlagged : peer'[p] # None <=> Reached(p)'
    BY <1>3, FinalLinkReached DEF LinksInv
  <2> QED
    BY <1>1, <2>1, <2>2, <2>3 DEF LinksInv, Walked
<1> QED
  BY <1>1, <1>4, <1>5, <1>6 DEF LinksInv, Ended

\* The ends of the matching that has been made are the files that are linked.
LEMMA MadeEnds ==
  ASSUME SearchInv, NEW m \in RenameMatchings(problem.old, problem.new, MaxVersion), Made(m)
  PROVE  /\ DOMAIN m = LinkedTargets /\ Range(m) = LinkedSources
         /\ \A s \in LinkedSources :
               \E q \in DOMAIN m : m[q] = s /\ q = peer[s] /\ \A u \in DOMAIN m : m[u] = s => u = q
<1>1. PICK T \in SUBSET Targets : m \in Injection(T, Sources)
  BY SearchAssumption DEF SearchAssumption, RenameMatchings, Targets, Sources
<1>2. m \in [LinkedTargets -> Sources] /\ \A t \in LinkedTargets : peer[m[t]] = t
  BY <1>1 DEF Injection, Made
<1>3. /\ problem \in Problems /\ Targets \subseteq Path /\ None \notin Path
      /\ \A s \in LinkedSources : peer[s] \in LinkedTargets
      /\ \A r, s \in Sources : peer[r] = peer[s] /\ peer[r] # None => r = s
  BY ProblemFacts DEF SearchInv, TypeOK, Free, LinkedSources, LinkedTargets
<1>4. \A t \in LinkedTargets : m[t] \in LinkedSources
  BY <1>2, <1>3 DEF LinkedSources, LinkedTargets
<1>5. \A s \in LinkedSources : m[peer[s]] = s
  <2> TAKE s \in LinkedSources
  <2>1. /\ peer[s] \in LinkedTargets /\ s \in Sources /\ peer[s] # None
        /\ m[peer[s]] \in Sources /\ peer[m[peer[s]]] = peer[s]
    BY <1>2, <1>3 DEF LinkedSources
  <2> QED
    BY <1>3, <2>1
<1>6. Range(m) = LinkedSources
  BY <1>2, <1>3, <1>4, <1>5 DEF Range
<1> QED
  BY <1>2, <1>3, <1>5, <1>6

\* The files before clean_renames are linked as the closed form says.
LEMMA LinkedIsClosed ==
  ASSUME SearchInv, LinksInv, pc = "walk",
         NEW m \in RenameMatchings(problem.old, problem.new, MaxVersion), Made(m)
  PROVE  files = RenamesLinked(problem.new, m)
<1>1. /\ DOMAIN files = DOMAIN problem.new /\ files = [p \in DOMAIN files |-> files[p]]
  BY DEF SearchInv, TypeOK, IsFileList
<1>2. ASSUME NEW p \in DOMAIN files
      PROVE  files[p] = IF p \in DOMAIN m THEN [problem.new[p] EXCEPT !.rename = TRUE]
                        ELSE IF p \in Range(m)
                        THEN [problem.new[p] EXCEPT !.rename = TRUE,
                                 !.hash = problem.new[CHOOSE q \in DOMAIN m : m[q] = p].hash]
                        ELSE problem.new[p]
  <2>1. /\ p \in LinkedTargets => files[p] = [problem.new[p] EXCEPT !.rename = TRUE]
        /\ p \in LinkedSources =>
              files[p] = [problem.new[p] EXCEPT !.rename = TRUE,
                                                !.hash = problem.new[peer[p]].hash]
        /\ p \notin Paired => files[p] = problem.new[p]
    BY <1>2 DEF LinksInv, FilesLinked
  <2>2. DOMAIN m = LinkedTargets /\ Range(m) = LinkedSources
    BY MadeEnds
  <2>3. ASSUME p \in LinkedSources PROVE (CHOOSE q \in DOMAIN m : m[q] = p) = peer[p]
    <3>1. PICK q \in DOMAIN m : m[q] = p /\ q = peer[p] /\ \A u \in DOMAIN m : m[u] = p => u = q
      BY <2>3, MadeEnds
    <3> QED
      BY <3>1
  <2> QED
    BY <2>1, <2>2, <2>3 DEF Paired
<1> QED
  BY <1>1, <1>2 DEF RenamesLinked

\* When final_link is through, it has linked whom the closed form says.
LEMMA ReachedIsClosed ==
  ASSUME SearchInv, walk = {}, NEW p \in RenameFlagged,
         NEW m \in RenameMatchings(problem.old, problem.new, MaxVersion), Made(m)
  PROVE  Reached(p) <=> HasRenamePeer(files, p, m)
<1>1. Paired = DOMAIN m \cup Range(m)
  BY MadeEnds DEF Paired
<1> QED
  BY <1>1 DEF Reached, HasRenamePeer, Differ, Unpaired

\* clean_renames writes what the closed form says.
LEMMA CleanLinks ==
  ASSUME SearchInv, LinksInv, CleanRenames
  PROVE  LinksInv'
<1>1. /\ problem' = problem /\ peer' = peer /\ pc = "walk" /\ pc' = "done" /\ walk = {}
      /\ files' = [p \in DOMAIN files |-> IF files[p].rename /\ peer[p] = None
                                          THEN NoRename(files[p]) ELSE files[p]]
  BY DEF CleanRenames
<1>2. LinkedTargets' = LinkedTargets /\ Targets' = Targets /\ Sources' = Sources
  BY <1>1, LinksKept
<1>3. PeersKnown'
  BY <1>1, <1>2 DEF LinksInv, PeersKnown
<1>4. ASSUME NEW m \in RenameMatchings(problem.old, problem.new, MaxVersion), Made(m)
      PROVE  files' = RenamesCleaned(RenamesLinked(problem.new, m), m)
  <2>1. files = RenamesLinked(problem.new, m)
    BY <1>1, <1>4, LinkedIsClosed
  <2>2. \A p \in DOMAIN files :
           files[p].rename => (peer[p] = None <=> ~HasRenamePeer(files, p, m))
    BY <1>1, <1>4, ReachedIsClosed DEF LinksInv, Walked, RenameFlagged
  <2>3. files' = RenamesCleaned(files, m)
    BY <1>1, <2>2 DEF RenamesCleaned, NoRename
  <2> QED
    BY <2>1, <2>3
<1>5. \A m : Made(m)' <=> Made(m)
  BY <1>1, <1>2 DEF Made
<1>6. Ended'
  BY <1>1, <1>4, <1>5 DEF Ended
<1> QED
  BY <1>1, <1>3, <1>6 DEF LinksInv, FilesLinked, Walked

\* LinksInv is inductive, given what is known of the search.
LEMMA LinksNext == SearchInv /\ LinksInv /\ [Next]_vars => LinksInv'
<1> SUFFICES ASSUME SearchInv, LinksInv, [Next]_vars PROVE LinksInv'
  OBVIOUS
<1>1. CASE UNCHANGED vars
  <2>1. /\ Targets' = Targets /\ Sources' = Sources
        /\ LinkedTargets' = LinkedTargets /\ LinkedSources' = LinkedSources
        /\ Paired' = Paired
    BY <1>1, LinksKept DEF vars
  <2>2. FilesLinked' /\ PeersKnown'
    BY <1>1, <2>1 DEF vars, LinksInv, FilesLinked, PeersKnown
  <2>3. RenameFlagged' = RenameFlagged
    BY <1>1 DEF vars, RenameFlagged
  <2>4. \A p, q : Before(p, q)' <=> Before(p, q)
    BY <1>1 DEF vars, Before
  <2>5. \A p : Reached(p)' <=> Reached(p)
    <3>1. \A p : Differ(p)' = Differ(p) /\ Unpaired(p)' = Unpaired(p)
      BY <1>1, <2>1 DEF vars, Differ, Unpaired, SameRename
    <3> QED
      BY <1>1, <2>1, <3>1 DEF vars, Reached
  <2>6. Walked'
    BY <1>1, <2>3, <2>4, <2>5 DEF vars, LinksInv, Walked
  <2>7. \A m : Made(m)' <=> Made(m)
    BY <1>1, <2>1 DEF vars, Made
  <2>8. Ended'
    BY <1>1, <2>7 DEF vars, LinksInv, Ended
  <2> QED
    BY <2>2, <2>6, <2>8 DEF LinksInv
<1>2. CASE ListFiles \/ ScoreAll \/ EndSearch \/ \E p \in Path : Skip(p) \/ Redo(p)
  <2>1. pc \in {"list", "score", "search"}
    BY <1>2 DEF ListFiles, ScoreAll, EndSearch, Skip, Redo, Head
  <2> QED
    BY <1>2, <2>1, SearchLinks
<1> QED
  BY <1>1, <1>2, LinkLinks, ListLinks, FinalLinkLinks, CleanLinks DEF Next

\* At the end, the matching made and the files are those of the closed forms.
LEMMA EndedIsClosed == SearchInv /\ LinksInv => AsInManifestOps
<1> SUFFICES ASSUME SearchInv, LinksInv, pc = "done" PROVE AsInManifestOps
  BY DEF AsInManifestOps
<1> DEFINE m == [t \in {ts[1] : ts \in Found} |-> CHOOSE s \in Sources : peer[s] = t]
<1>1. {ts[1] : ts \in Found} = LinkedTargets
  <2>1. \A ts \in Found : ts[1] \in LinkedTargets
    BY DEF Found, LinkedTargets
  <2>2. \A t \in Targets, s \in Sources :
           peer[s] = t => <<t, s>> \in Found /\ <<t, s>>[1] = t
    BY DEF Found
  <2> QED
    BY <2>1, <2>2 DEF LinkedTargets
<1>2. /\ m = [t \in LinkedTargets |-> CHOOSE s \in Sources : peer[s] = t]
      /\ \A t \in LinkedTargets : \E s \in Sources : peer[s] = t
  BY <1>1 DEF LinkedTargets
<1>3. m \in [LinkedTargets -> Sources] /\ \A t \in LinkedTargets : peer[m[t]] = t
  BY <1>2
<1>4. m \in Injection(LinkedTargets, Sources)
  BY <1>3 DEF Injection, IsInjective
<1>5. m \in RenameMatchings(problem.old, problem.new, MaxVersion)
  <2>1. LinkedTargets \in SUBSET Targets
    BY DEF LinkedTargets
  <2> HIDE DEF m
  <2> QED
    BY <1>4, <2>1, SearchAssumption
    DEF SearchAssumption, RenameMatchings, Targets, Sources
<1>6. Made(m)
  BY <1>3 DEF Made
<1>7. files = RenamesCleaned(RenamesLinked(problem.new, m), m)
  BY <1>5, <1>6 DEF LinksInv, Ended
<1> QED
  BY <1>5, <1>7 DEF AsInManifestOps

\* What rename_detection, final_link and clean_renames do one file at a time is
\* what the model of swupd_create_update takes in one step (rename.c:365-534).
THEOREM SearchAsInManifestOps == Spec => []AsInManifestOps
BY SearchInit, SearchNext, LinksInit, LinksNext, EndedIsClosed, PTL DEF Spec
=============================================================================
