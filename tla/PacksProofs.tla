----------------------------- MODULE PacksProofs -----------------------------
(***************************************************************************)
(* For any manifests, any number of packs made at once and any deaths: a   *)
(* delta that is there is whole, and a pack that is whole has everything   *)
(* that its client needs and that there is a whole source of.  Its whole    *)
(* files are files, its deltas deltas of its own.                          *)
(***************************************************************************)
EXTENDS Packs, TLAPS

AtStages == {"idle", "todo", "writing", "written", "verified"}
Held     == {"writing", "written", "verified"}

\* The parts of the type that the arguments rest on.
Shape ==
    /\ plan \in Plans
    /\ deltas \in [Names -> Content] /\ dots \in [Names -> Content]
    /\ pc \in [Jobs -> Stages]
    /\ at \in [Jobs -> [Names -> AtStages]]
    /\ DOMAIN staged = Jobs /\ DOMAIN packs = Jobs

\* A dotfile belongs to one thread from its creation on: the others that find
\* it let go.
OneHolder ==
    /\ \A j \in Jobs, d \in Names : at[j][d] \in Held => dots[d] # "none"
    /\ \A j \in Jobs, d \in Names : at[j][d] = "verified" => dots[d] = "whole"
    /\ \A j, k \in Jobs, d \in Names : at[j][d] \in Held /\ at[k][d] \in Held => j = k

DeltaInv == Shape /\ OneHolder /\ DeltasWhole

\* What a client with the old release of j needs is in c.
Complete(j, c) ==
    \A p \in LivePaths(To(j)) :
        \/ Installed(j, p)
        \/ To(j)[p].hash \in c.full
        \/ \E d \in c.deltas : DeltaFor(j, p, d)
        \/ ~Linkable(To(j)[p])

OfPack(j, c) == c.deltas \subseteq Names /\ Complete(j, c)

\* A stage that is full, and a pack that is whole, is complete.
StageOK(j) ==
    /\ pc[j] \in {"deltas", "staged", "tar"} => ~NothingToPack(j)
    /\ pc[j] \in {"staged", "tar"} => OfPack(j, staged[j])
    /\ packs[j].state = "whole" => OfPack(j, packs[j].content)

PackInv == DeltaInv /\ \A j \in Jobs : StageOK(j)
-----------------------------------------------------------------------------
(* Deltas *)

\* What is read off the plan stays.
LEMMA SamePlan ==
  ASSUME plan' = plan
  PROVE  /\ Jobs' = Jobs /\ Names' = Names
         /\ \A j : From(j)' = From(j) /\ To(j)' = To(j) /\ NothingToPack(j)' = NothingToPack(j)
         /\ \A j, p : Installed(j, p)' = Installed(j, p)
         /\ \A e : Linkable(e)' = Linkable(e)
<1>1. Jobs' = Jobs /\ \A j : From(j)' = From(j) /\ To(j)' = To(j)
  BY DEF Jobs, From, To
<1>2. \A j : End(j)' = End(j)
  BY <1>1 DEF End
<1>3. \A j, p : Matches(j, p)' = Matches(j, p)
  BY <1>1 DEF Matches
<1>4. \A j, p : RenamedFrom(j, p)' = RenamedFrom(j, p)
  BY <1>2, <1>3 DEF RenamedFrom
<1>5. \A j, p : Peers(j, p)' = Peers(j, p)
  BY <1>3, <1>4 DEF Peers
<1>6. \A j : Candidates(j)' = Candidates(j)
  BY <1>2, <1>5 DEF Candidates
<1>7. \A j, p : Name(j, p)' = Name(j, p)
  BY <1>1, <1>2, <1>5 DEF Name, Peer
<1>8. Names' = Names
  BY <1>1, <1>6, <1>7 DEF Names
<1> QED
  BY <1>1, <1>8 DEF NothingToPack, Installed, Linkable, Tarball

LEMMA DeltaInit == Init => DeltaInv
<1> SUFFICES ASSUME Init PROVE DeltaInv
  OBVIOUS
<1>1. /\ plan \in Plans
      /\ deltas = [d \in Names |-> "none"] /\ dots = [d \in Names |-> "none"]
      /\ pc = [j \in Jobs |-> "idle"]
      /\ at = [j \in Jobs |-> [d \in Names |-> "idle"]]
      /\ DOMAIN staged = Jobs /\ DOMAIN packs = Jobs
  BY DEF Init
<1>2. Shape
  BY <1>1 DEF Shape, Content, Stages, AtStages
<1>3. OneHolder
  BY <1>1 DEF OneHolder, Held
<1>4. DeltasWhole
  BY <1>1 DEF DeltasWhole
<1> QED
  BY <1>2, <1>3, <1>4 DEF DeltaInv

\* The steps of a thread.
LEMMA ThreadStep ==
  ASSUME NEW j \in Jobs, NEW d \in Names, DeltaInv,
         Diff(j, d) \/ NoDiff(j, d) \/ Diffed(j, d) \/ NotDiffed(j, d)
           \/ Verify(j, d) \/ VerifyFails(j, d) \/ Publish(j, d)
  PROVE  DeltaInv'
<1>1. plan' = plan /\ pc' = pc /\ staged' = staged /\ packs' = packs
  BY DEF Diff, NoDiff, Diffed, NotDiffed, Verify, VerifyFails, Publish, Thread
<1>2. Jobs' = Jobs /\ Names' = Names
  BY <1>1, SamePlan
<1>3. /\ plan \in Plans /\ deltas \in [Names -> Content] /\ dots \in [Names -> Content]
      /\ pc \in [Jobs -> Stages] /\ at \in [Jobs -> [Names -> AtStages]]
      /\ DOMAIN staged = Jobs /\ DOMAIN packs = Jobs
  BY DEF DeltaInv, Shape
<1>4. PICK then \in AtStages : at' = [at EXCEPT ![j][d] = then]
  BY DEF Diff, NoDiff, Diffed, NotDiffed, Verify, VerifyFails, Publish, Thread, AtStages
<1>5. /\ at'[j][d] = then
      /\ \A k \in Jobs, e \in Names : k # j \/ e # d => at'[k][e] = at[k][e]
      /\ at' \in [Jobs -> [Names -> AtStages]]
  BY <1>3, <1>4
<1>6. \E c \in Content : dots' = [dots EXCEPT ![d] = c]
  <2>1. dots[d] \in Content /\ dots = [dots EXCEPT ![d] = dots[d]]
    BY <1>3
  <2> QED
    BY <2>1 DEF Diff, NoDiff, Diffed, NotDiffed, Verify, VerifyFails, Publish, Content
<1>7. dots' \in [Names -> Content] /\ \A e \in Names : e # d => dots'[e] = dots[e]
  BY <1>3, <1>6
<1>8. deltas' = deltas \/ (Publish(j, d) /\ deltas' = [deltas EXCEPT ![d] = dots[d]])
  BY DEF Diff, NoDiff, Diffed, NotDiffed, Verify, VerifyFails, Publish
<1>9. deltas' \in [Names -> Content] /\ DeltasWhole'
  <2>1. CASE deltas' = deltas
    BY <2>1, <1>2, <1>3 DEF DeltaInv, DeltasWhole
  <2>2. CASE Publish(j, d) /\ deltas' = [deltas EXCEPT ![d] = dots[d]]
    <3>1. dots[d] = "whole"
      BY <2>2 DEF DeltaInv, OneHolder, Publish, Thread
    <3> QED
      BY <2>2, <3>1, <1>2, <1>3 DEF DeltaInv, DeltasWhole, Content
  <2> QED
    BY <1>8, <2>1, <2>2
<1>10. Shape'
  BY <1>1, <1>2, <1>3, <1>5, <1>7, <1>9 DEF Shape
<1>11. \/ at[j][d] \in Held /\ then \notin Held
       \/ then \notin Held /\ dots' = dots
       \/ at[j][d] \in Held /\ then = "written" /\ dots'[d] # "none"
       \/ at[j][d] \in Held /\ then = "verified" /\ dots'[d] = "whole"
       \/ dots[d] = "none" /\ then = "writing" /\ dots'[d] = "partial"
  <2>1. then = at'[j][d]
    BY <1>5
  <2>2. CASE Diff(j, d)
    BY <2>2, <1>3, <1>4 DEF Diff, Thread
  <2>3. CASE NoDiff(j, d)
    BY <2>3, <1>3, <1>4 DEF NoDiff, Thread, Held
  <2>4. CASE Diffed(j, d)
    BY <2>4, <1>3, <1>4 DEF Diffed, Thread, Held
  <2>5. CASE NotDiffed(j, d)
    BY <2>5, <1>3, <1>4 DEF NotDiffed, Thread, Held
  <2>6. CASE Verify(j, d)
    BY <2>6, <1>3, <1>4 DEF Verify, Thread, Held
  <2>7. CASE VerifyFails(j, d)
    BY <2>7, <1>3, <1>4 DEF VerifyFails, Thread, Held
  <2>8. CASE Publish(j, d)
    BY <2>8, <1>3, <1>4 DEF Publish, Thread, Held
  <2> QED
    BY <2>2, <2>3, <2>4, <2>5, <2>6, <2>7, <2>8
<1>12. OneHolder'
  BY <1>2, <1>5, <1>7, <1>11 DEF DeltaInv, OneHolder, Held
<1> QED
  BY <1>9, <1>10, <1>12 DEF DeltaInv

\* The steps of a process let threads go, or leave them alone.
LEMMA ProcessStep ==
  ASSUME NEW j \in Jobs, DeltaInv,
         Start(j) \/ Stage(j) \/ Open(j) \/ Tar(j) \/ Die(j)
  PROVE  DeltaInv'
<1>1. plan' = plan /\ deltas' = deltas /\ dots' = dots
  BY DEF Start, Stage, Open, Tar, Die
<1>2. Jobs' = Jobs /\ Names' = Names
  BY <1>1, SamePlan
<1>3. /\ plan \in Plans /\ deltas \in [Names -> Content] /\ dots \in [Names -> Content]
      /\ pc \in [Jobs -> Stages] /\ at \in [Jobs -> [Names -> AtStages]]
      /\ DOMAIN staged = Jobs /\ DOMAIN packs = Jobs /\ DOMAIN deltas = Names
  BY DEF DeltaInv, Shape
<1>4. pc' \in [Jobs -> Stages]
  BY <1>3 DEF Start, Stage, Open, Tar, Die, Stages
<1>5. DOMAIN staged' = Jobs /\ DOMAIN packs' = Jobs
  BY <1>3 DEF Start, Stage, Open, Tar, Die
<1>6. /\ at' \in [Jobs -> [Names -> AtStages]]
      /\ \A k \in Jobs, d \in Names : at'[k][d] = at[k][d] \/ at'[k][d] \in {"todo", "idle"}
  <2>1. CASE at' = at
    BY <2>1, <1>3
  <2>2. CASE \E f \in [Names -> {"todo", "idle"}] : at' = [at EXCEPT ![j] = f]
    BY <2>2, <1>3 DEF AtStages
  <2>3. CASE Start(j) /\ ~(at' = at)
    <3>1. at' = [at EXCEPT ![j] = [d \in Names |-> IF d \in ToMake(j) THEN "todo" ELSE "idle"]]
      BY <2>3, <1>3 DEF Start
    <3> QED
      BY <3>1, <2>2
  <2>4. CASE Die(j)
    <3>1. at' = [at EXCEPT ![j] = [d \in Names |-> "idle"]]
      BY <2>4, <1>3 DEF Die
    <3> QED
      BY <3>1, <2>2
  <2> QED
    BY <2>1, <2>3, <2>4 DEF Stage, Open, Tar
<1>7. OneHolder'
  BY <1>1, <1>2, <1>6 DEF DeltaInv, OneHolder, Held
<1>8. DeltasWhole'
  BY <1>1, <1>2 DEF DeltaInv, DeltasWhole
<1> QED
  BY <1>1, <1>2, <1>3, <1>4, <1>5, <1>6, <1>7, <1>8 DEF DeltaInv, Shape

LEMMA DeltaStutter == ASSUME DeltaInv, UNCHANGED vars PROVE DeltaInv'
<1>1. Jobs' = Jobs /\ Names' = Names
  BY SamePlan DEF vars
<1> QED
  BY <1>1 DEF DeltaInv, Shape, OneHolder, DeltasWhole, vars

LEMMA DeltaNext == DeltaInv /\ [Next]_vars => DeltaInv'
<1> SUFFICES ASSUME DeltaInv, [Next]_vars PROVE DeltaInv'
  OBVIOUS
<1>1. DOMAIN deltas = Names
  BY DEF DeltaInv, Shape
<1>2. CASE Next
  <2>1. PICK j \in Jobs : Start(j) \/ Work(j) \/ Die(j)
    BY <1>2 DEF Next
  <2>2. CASE Work(j)
    BY <2>2, <1>1, ThreadStep, ProcessStep DEF Work
  <2> QED
    BY <2>1, <2>2, ProcessStep
<1> QED
  BY <1>2, DeltaStutter

\* A delta that is there turns the old file into the new one, whoever made it
\* and whoever died making it (delta.c:75-137).
THEOREM PublishedDeltasWhole == Spec => []DeltasWhole
<1>1. DeltaInv => DeltasWhole
  BY DEF DeltaInv
<1> QED
  BY DeltaInit, DeltaNext, <1>1, PTL DEF Spec
-----------------------------------------------------------------------------
(* Packs *)

\* The manifests of a pack.
LEMMA PlanFacts ==
  ASSUME plan \in Plans, NEW j \in Jobs
  PROVE  /\ j.from \in Nat /\ j.to \in Nat /\ j.from < j.to
         /\ DOMAIN From(j) \subseteq Path /\ From(j) \in [DOMAIN From(j) -> Entry]
         /\ DOMAIN To(j) \subseteq Path /\ To(j) \in [DOMAIN To(j) -> Entry]
         /\ \A f \in DOMAIN From(j) : /\ From(j)[f].last <= j.from
                                      /\ From(j)[f].last \in Nat
                                      /\ Live(From(j)[f]) <=> From(j)[f].kind # "."
                                      /\ From(j)[f].ghosted => ~From(j)[f].rename
         /\ \A f \in DOMAIN To(j) : /\ Live(To(j)[f]) <=> To(j)[f].kind # "."
                                    /\ To(j)[f].last \in Nat
         /\ \A f \in LivePaths(To(j)) :
                Tarball(To(j)[f]) \in {"empty", "torn"} => To(j)[f].kind = "D"
         /\ ~NothingToPack(j) =>
                \A f \in LivePaths(To(j)) : To(j)[f].last <= j.from => Installed(j, f)
<1> DEFINE old == ManifestOf(plan, j.module, j.from)
           new == ManifestOf(plan, j.module, j.to)
<1>1. /\ j.from \in Nat /\ j.to \in Nat /\ j.from < j.to
      /\ IsFileList(old) /\ IsFileList(new)
      /\ \A f \in DOMAIN old : /\ old[f].last <= j.from
                               /\ Live(old[f]) <=> old[f].kind # "."
                               /\ old[f].ghosted => ~old[f].rename
      /\ \A f \in DOMAIN new : Live(new[f]) <=> new[f].kind # "."
      /\ \A f \in LivePaths(new) :
             plan.tars[new[f].hash] \in {"empty", "torn"} => new[f].kind = "D"
      /\ DOMAIN old # {} \/ j.from = 0 =>
             \A f \in LivePaths(new) :
                 new[f].last <= j.from => f \in LivePaths(old) /\ old[f].hash = new[f].hash
  BY PacksAssumption DEF PacksAssumption, Jobs
<1>2. From(j) = old /\ To(j) = new
  BY DEF From, To
<1>3. \A e \in Entry : e.last \in Nat
  BY PathAssumption DEF Entry, PathAssumption
<1>4. /\ DOMAIN old \subseteq Path /\ old \in [DOMAIN old -> Entry]
      /\ DOMAIN new \subseteq Path /\ new \in [DOMAIN new -> Entry]
  BY <1>1 DEF IsFileList
<1>5. /\ \A f \in DOMAIN old : old[f].last \in Nat
      /\ \A f \in DOMAIN new : new[f].last \in Nat
  BY <1>3, <1>4
<1>6. ~NothingToPack(j) => DOMAIN old # {} \/ j.from = 0
  <2>1. j.from \in Nat => j.from > 0 \/ j.from = 0
    OBVIOUS
  <2> QED
    BY <1>1, <1>2, <2>1, Zenon DEF NothingToPack
<1>7. ~NothingToPack(j) =>
         \A f \in LivePaths(new) : new[f].last <= j.from => Installed(j, f)
  BY <1>1, <1>2, <1>6 DEF Installed
<1>8. \A f \in LivePaths(new) : Tarball(new[f]) \in {"empty", "torn"} => new[f].kind = "D"
  BY <1>1 DEF Tarball
<1> HIDE DEF old, new
<1> QED
  BY <1>1, <1>2, <1>4, <1>5, <1>7, <1>8

\* A file of the new release looks in end_manifest as it does in its manifest,
\* but for what is copied from the old one.
LEMMA EndFacts ==
  ASSUME plan \in Plans, NEW j \in Jobs, NEW p \in DOMAIN To(j)
  PROVE  /\ p \in DOMAIN End(j)
         /\ End(j)[p].kind = To(j)[p].kind /\ End(j)[p].hash = To(j)[p].hash
         /\ End(j)[p].deleted = To(j)[p].deleted /\ End(j)[p].ghosted = To(j)[p].ghosted
         /\ \/ End(j)[p].last = To(j)[p].last
            \/ /\ p \in DOMAIN From(j) /\ End(j)[p].last = From(j)[p].last
               /\ From(j)[p].kind = To(j)[p].kind /\ From(j)[p].hash = To(j)[p].hash
<1>1. To(j)[p] \in Entry
  BY PlanFacts
<1>2. p \in DOMAIN End(j) /\ \/ End(j)[p] = To(j)[p]
                             \/ /\ p \in DOMAIN From(j)
                                /\ Unchanged(From(j)[p], To(j)[p], 0)
                                /\ End(j)[p] = [To(j)[p] EXCEPT !.last = From(j)[p].last,
                                                                !.rename = From(j)[p].rename]
  BY DEF End, Matched
<1>3. CASE End(j)[p] = To(j)[p]
  BY <1>2, <1>3
<1>4. CASE /\ p \in DOMAIN From(j)
           /\ Unchanged(From(j)[p], To(j)[p], 0)
           /\ End(j)[p] = [To(j)[p] EXCEPT !.last = From(j)[p].last,
                                           !.rename = From(j)[p].rename]
  BY <1>1, <1>2, <1>4 DEF Unchanged, SameContents, Entry
<1> QED
  BY <1>2, <1>3, <1>4

\* The peer of a file of the new release is a file the client has.
LEMMA PeersLive ==
  ASSUME plan \in Plans, NEW j \in Jobs, NEW p \in DOMAIN To(j), NEW q \in Peers(j, p)
  PROVE  q \in LivePaths(From(j))
<1>1. CASE Matches(j, p)
  BY <1>1 DEF Peers, Matches, HasPeer, LivePaths
<1>2. CASE ~Matches(j, p)
  <2>1. /\ q \in DOMAIN End(j) /\ End(j)[q].rename /\ End(j)[q].last = j.to
        /\ Matches(j, q)
    BY <1>2 DEF Peers, RenamedFrom
  <2>2. q \in DOMAIN From(j)
    BY <2>1 DEF Matches
  <2>3. CASE q \in DOMAIN To(j)
    BY <2>1, <2>3 DEF Matches, HasPeer, LivePaths
  <2>4. CASE q \notin DOMAIN To(j)
    <3>1. End(j)[q] = Tombstone(q, From(j)[q], j.to)
      BY <2>2, <2>4 DEF End, Matched
    <3>2. /\ From(j)[q].last <= j.from /\ j.from < j.to
          /\ From(j)[q].last \in Nat /\ j.from \in Nat /\ j.to \in Nat
          /\ From(j)[q].ghosted => ~From(j)[q].rename
      BY <2>2, PlanFacts
    <3>3. ~From(j)[q].deleted
      BY <2>1, <3>1, <3>2 DEF Tombstone
    <3>4. From(j)[q].ghosted /\ From(j)[q].rename
      <4> DEFINE e == From(j)[q]
      <4>1. Tombstone(q, e, j.to).rename
              = ((e.ghosted \/ (q \in BootPaths /\ e.deleted) \/ e.deleted) /\ e.rename)
        BY DEF Tombstone
      <4>2. (e.ghosted \/ (q \in BootPaths /\ e.deleted) \/ e.deleted) /\ e.rename
        BY <2>1, <3>1, <4>1, Zenon
      <4> QED
        BY <3>3, <4>2, Zenon
    <3> QED
      BY <3>2, <3>4
  <2> QED
    BY <2>3, <2>4
<1> QED
  BY <1>1, <1>2

\* What make_pack_full_files and make_final_pack link is complete.
LEMMA StageComplete ==
  ASSUME NEW j \in Jobs, DeltaInv, ~NothingToPack(j),
         NEW small \in SUBSET {p \in Candidates(j) : /\ deltas[Name(j, p)] # "none"
                                                     /\ End(j)[p].kind # "D"},
         NEW c, c.full = {End(j)[p].hash : p \in WholeFiles(j, small)},
         c.deltas = {Name(j, p) : p \in small}
  PROVE  OfPack(j, c)
<1>0. c.deltas \subseteq Names
  <2> DEFINE ours == {Name(j, q) : q \in Candidates(j)}
  <2>1. c.deltas \subseteq ours
    OBVIOUS
  <2>2. ours \in {{Name(k, q) : q \in Candidates(k)} : k \in Jobs}
    OBVIOUS
  <2> HIDE DEF ours
  <2>3. ours \subseteq Names
    BY <2>2, Zenon DEF Names
  <2> QED
    BY <2>1, <2>3
<1> SUFFICES ASSUME NEW p \in LivePaths(To(j)), ~Installed(j, p), Linkable(To(j)[p])
             PROVE  \/ To(j)[p].hash \in c.full
                    \/ \E d \in c.deltas : DeltaFor(j, p, d)
  BY <1>0 DEF Complete, OfPack
<1>1. plan \in Plans /\ p \in DOMAIN To(j) /\ Live(To(j)[p])
  BY DEF DeltaInv, Shape, LivePaths
<1>2. /\ p \in DOMAIN End(j)
      /\ End(j)[p].kind = To(j)[p].kind /\ End(j)[p].hash = To(j)[p].hash
      /\ End(j)[p].deleted = To(j)[p].deleted /\ End(j)[p].ghosted = To(j)[p].ghosted
      /\ \/ End(j)[p].last = To(j)[p].last
         \/ /\ p \in DOMAIN From(j) /\ End(j)[p].last = From(j)[p].last
            /\ From(j)[p].kind = To(j)[p].kind /\ From(j)[p].hash = To(j)[p].hash
  BY <1>1, EndFacts
<1>3. Linkable(End(j)[p])
  BY <1>2 DEF Linkable, Tarball
<1>4. CASE Peers(j, p) = {}
  <2>1. p \in Added(j) /\ p \notin Candidates(j)
    BY <1>1, <1>2, <1>4 DEF Added, Candidates, LivePaths, Live
  <2> QED
    BY <1>2, <1>3, <2>1 DEF WholeFiles
<1>5. CASE Peers(j, p) # {}
  <2>1. To(j)[p].kind \in {"F", "D", "L"}
    <3>1. To(j)[p] \in Entry /\ To(j)[p].kind # "."
      BY <1>1, PlanFacts
    <3> QED
      BY <3>1 DEF Entry
  <2>2. ~(To(j)[p].last <= j.from)
    BY <1>1, PlanFacts
  <2>3. ~(p \in DOMAIN From(j) /\ From(j)[p].kind = To(j)[p].kind /\ From(j)[p].hash = To(j)[p].hash)
    <3> SUFFICES ASSUME p \in DOMAIN From(j), From(j)[p].kind = To(j)[p].kind,
                        From(j)[p].hash = To(j)[p].hash
                 PROVE  FALSE
      OBVIOUS
    <3>1. Live(From(j)[p])
      BY <1>1, <2>1, PlanFacts
    <3> QED
      BY <3>1 DEF Installed, LivePaths
  <2>4. End(j)[p].last > j.from
    BY <1>1, <1>2, <2>2, <2>3, PlanFacts
  <2>5. p \in Candidates(j)
    BY <1>2, <1>5, <2>1, <2>4 DEF Candidates
  <2>6. CASE p \notin small
    <3>1. Tarball(End(j)[p]) = Tarball(To(j)[p])
      BY <1>2 DEF Tarball
    <3>2. Tarball(To(j)[p]) # "empty"
      BY <1>1, PlanFacts DEF Linkable
    <3>3. p \notin TarEmpty(j)
      BY <3>1, <3>2 DEF TarEmpty
    <3> QED
      BY <1>2, <1>3, <2>5, <2>6, <3>3 DEF WholeFiles
  <2>7. CASE p \in small
    <3>1. Name(j, p) \in c.deltas /\ Name(j, p) \in Names
      BY <2>7, <1>0
    <3>2. deltas[Name(j, p)] = "whole"
      <4>1. deltas[Name(j, p)] # "none"
        BY <2>7
      <4>2. \A d \in Names : deltas[d] \in {"none", "whole"}
        BY DEF DeltaInv, Shape, DeltasWhole
      <4> QED
        BY <3>1, <4>1, <4>2
    <3>3. PICK q \in Peers(j, p) : Peer(j, p) = From(j)[q]
      BY <1>5 DEF Peer
    <3>4. q \in LivePaths(From(j))
      BY <1>1, PeersLive
    <3>5. DeltaFor(j, p, Name(j, p))
      BY <1>2, <3>2, <3>3, <3>4 DEF DeltaFor, Name
    <3> QED
      BY <3>1, <3>5
  <2> QED
    BY <2>6, <2>7
<1> QED
  BY <1>4, <1>5

\* Deltas that are whole are only replaced by such.
LEMMA WholeStays ==
  ASSUME DeltaInv, [Next]_vars
  PROVE  \A d \in Names : deltas[d] = "whole" => deltas'[d] = "whole"
<1>1. DOMAIN deltas = Names /\ deltas \in [Names -> Content]
  BY DEF DeltaInv, Shape
<1>2. \/ deltas' = deltas
      \/ \E j \in Jobs, d \in Names : Publish(j, d)
  <2>1. CASE Next
    <3>1. PICK j \in Jobs : Start(j) \/ Work(j) \/ Die(j)
      BY <2>1 DEF Next
    <3>2. CASE Work(j)
      BY <1>1, <3>2 DEF Work, Diff, NoDiff, Diffed, NotDiffed, Verify, VerifyFails,
                        Stage, Open, Tar
    <3> QED
      BY <3>1, <3>2 DEF Start, Die
  <2> QED
    BY <2>1 DEF vars
<1>3. CASE \E j \in Jobs, d \in Names : Publish(j, d)
  <2>1. PICK j \in Jobs, d \in Names : Publish(j, d)
    BY <1>3
  <2>2. dots[d] = "whole" /\ deltas' = [deltas EXCEPT ![d] = dots[d]]
    BY <2>1 DEF DeltaInv, OneHolder, Publish, Thread
  <2> QED
    BY <1>1, <2>2
<1> QED
  BY <1>2, <1>3

\* What is complete stays so.
LEMMA CompleteStays ==
  ASSUME plan' = plan, NEW j \in Jobs, NEW c, OfPack(j, c),
         \A d \in Names : deltas[d] = "whole" => deltas'[d] = "whole"
  PROVE  OfPack(j, c)'
<1>1. /\ \A k : From(k)' = From(k) /\ To(k)' = To(k)
      /\ \A k, p : Installed(k, p)' = Installed(k, p)
      /\ \A e : Linkable(e)' = Linkable(e)
      /\ Names' = Names
  BY SamePlan
<1> QED
  BY <1>1 DEF OfPack, Complete, DeltaFor

\* Nothing but a step of j itself disturbs j.
LEMMA JobStays ==
  ASSUME plan' = plan, NEW j \in Jobs, StageOK(j),
         \A d \in Names : deltas[d] = "whole" => deltas'[d] = "whole",
         pc'[j] = pc[j], staged'[j] = staged[j], packs'[j] = packs[j]
  PROVE  StageOK(j)'
<1>1. NothingToPack(j)' = NothingToPack(j)
  BY SamePlan
<1>2. ASSUME OfPack(j, staged[j]) PROVE OfPack(j, staged[j])'
  <2>1. PICK c : c = staged[j]
    OBVIOUS
  <2>2. OfPack(j, c)'
    BY <1>2, <2>1, CompleteStays
  <2> QED
    BY <2>1, <2>2 DEF OfPack, Complete
<1>3. ASSUME OfPack(j, packs[j].content) PROVE OfPack(j, packs[j].content)'
  <2>1. PICK c : c = packs[j].content
    OBVIOUS
  <2>2. OfPack(j, c)'
    BY <1>3, <2>1, CompleteStays
  <2> QED
    BY <2>1, <2>2 DEF OfPack, Complete
<1> QED
  BY <1>1, <1>2, <1>3 DEF StageOK

\* What a step of j makes of j.
LEMMA StageStep ==
  ASSUME NEW j \in Jobs, DeltaInv, StageOK(j), plan' = plan, deltas' = deltas,
         Start(j) \/ Stage(j) \/ Open(j) \/ Tar(j) \/ Die(j)
  PROVE  StageOK(j)'
<1>1. /\ pc \in [Jobs -> Stages] /\ DOMAIN staged = Jobs /\ DOMAIN packs = Jobs
      /\ DOMAIN deltas = Names
  BY DEF DeltaInv, Shape
<1>2. NothingToPack(j)' = NothingToPack(j)
  BY SamePlan
<1>3. ASSUME NEW c, OfPack(j, c) PROVE OfPack(j, c)'
  BY <1>3, CompleteStays
<1>4. ASSUME OfPack(j, packs[j].content), packs'[j] = packs[j]
      PROVE  OfPack(j, packs[j].content)'
  <2>1. PICK c : c = packs[j].content
    OBVIOUS
  <2>2. OfPack(j, c)'
    BY <1>3, <1>4, <2>1
  <2> QED
    BY <1>4, <2>1, <2>2 DEF OfPack, Complete
<1>5. ASSUME OfPack(j, staged[j]), staged'[j] = staged[j]
      PROVE  OfPack(j, staged[j])'
  <2>1. PICK c : c = staged[j]
    OBVIOUS
  <2>2. OfPack(j, c)'
    BY <1>3, <1>5, <2>1
  <2> QED
    BY <1>5, <2>1, <2>2 DEF OfPack, Complete
<1>6. CASE Start(j)
  <2>1. /\ packs' = packs /\ pc'[j] \in {"done", "deltas"}
        /\ pc'[j] = "deltas" => ~NothingToPack(j)
    BY <1>1, <1>6 DEF Start
  <2> QED
    BY <1>2, <1>4, <2>1 DEF StageOK
<1>7. CASE Stage(j)
  <2>1. packs' = packs /\ pc[j] = "deltas" /\ pc'[j] = "staged"
    BY <1>1, <1>7 DEF Stage
  <2>2. ~NothingToPack(j)
    BY <2>1 DEF StageOK
  <2>3. PICK small \in SUBSET {p \in Candidates(j) : /\ deltas[Name(j, p)] # "none"
                                                    /\ End(j)[p].kind # "D"},
             m \in SUBSET ManifestDeltas(j) :
          staged' = [staged EXCEPT ![j] =
             [full      |-> {End(j)[p].hash : p \in WholeFiles(j, small)},
              deltas    |-> {Name(j, p) : p \in small},
              manifests |-> m]]
    BY <1>7 DEF Stage
  <2>4. PICK c : c = [full      |-> {End(j)[p].hash : p \in WholeFiles(j, small)},
                      deltas    |-> {Name(j, p) : p \in small},
                      manifests |-> m]
    OBVIOUS
  <2>5. /\ c.full = {End(j)[p].hash : p \in WholeFiles(j, small)}
        /\ c.deltas = {Name(j, p) : p \in small}
    BY <2>4
  <2>6. OfPack(j, c)
    BY <2>2, <2>5, StageComplete
  <2>7. OfPack(j, c)'
    BY <1>3, <2>6
  <2>8. staged'[j] = c
    BY <1>1, <2>3, <2>4
  <2>9. OfPack(j, staged[j])'
    BY <2>7, <2>8 DEF OfPack, Complete
  <2> QED
    BY <1>2, <1>4, <2>1, <2>2, <2>9 DEF StageOK
<1>8. CASE Open(j)
  <2>1. /\ staged' = staged /\ pc[j] = "staged" /\ pc'[j] = "tar" /\ packs'[j].state = "torn"
    BY <1>1, <1>8 DEF Open, Pack
  <2> QED
    BY <1>2, <1>5, <2>1 DEF StageOK
<1>9. CASE Tar(j)
  <2>1. pc[j] = "tar" /\ pc'[j] = "done"
    BY <1>1, <1>9 DEF Tar
  <2>2. CASE packs' = packs
    BY <1>4, <2>1, <2>2 DEF StageOK
  <2>3. CASE packs' = [packs EXCEPT ![j] = Pack("whole", staged[j])]
    <3>1. PICK c : c = staged[j]
      OBVIOUS
    <3>2. OfPack(j, c)'
      BY <1>3, <2>1, <3>1 DEF StageOK
    <3>3. packs'[j].content = c /\ packs'[j].state = "whole"
      BY <1>1, <2>3, <3>1 DEF Pack
    <3>4. OfPack(j, packs[j].content)'
      BY <3>2, <3>3 DEF OfPack, Complete
    <3> QED
      BY <2>1, <3>3, <3>4 DEF StageOK
  <2> QED
    BY <1>9, <2>2, <2>3 DEF Tar
<1>10. CASE Die(j)
  <2>1. packs' = packs /\ pc'[j] = "dead"
    BY <1>1, <1>10 DEF Die
  <2> QED
    BY <1>4, <2>1 DEF StageOK
<1> QED
  BY <1>6, <1>7, <1>8, <1>9, <1>10

LEMMA PackInit == Init => PackInv
<1> SUFFICES ASSUME Init PROVE \A j \in Jobs : StageOK(j)
  BY DeltaInit DEF PackInv
<1>1. \A j \in Jobs : pc[j] = "idle" /\ packs[j].state = "none"
  BY DEF Init, Pack
<1> QED
  BY <1>1 DEF StageOK

LEMMA PackNext == PackInv /\ [Next]_vars => PackInv'
<1> SUFFICES ASSUME PackInv, [Next]_vars PROVE PackInv'
  OBVIOUS
<1>1. DeltaInv /\ DeltaInv' /\ \A j \in Jobs : StageOK(j)
  BY DeltaNext DEF PackInv
<1>2. \A d \in Names : deltas[d] = "whole" => deltas'[d] = "whole"
  BY <1>1, WholeStays
<1>3. /\ DOMAIN deltas = Names /\ pc \in [Jobs -> Stages]
      /\ DOMAIN staged = Jobs /\ DOMAIN packs = Jobs
  BY <1>1 DEF DeltaInv, Shape
<1>4. CASE UNCHANGED vars
  <2>1. plan' = plan /\ pc' = pc /\ staged' = staged /\ packs' = packs
    BY <1>4 DEF vars
  <2>2. Jobs' = Jobs
    BY <2>1, SamePlan
  <2>3. \A j \in Jobs : StageOK(j)'
    BY <1>1, <1>2, <2>1, JobStays
  <2> QED
    BY <1>1, <2>2, <2>3 DEF PackInv
<1>5. CASE Next
  <2>1. PICK j \in Jobs : Start(j) \/ Work(j) \/ Die(j)
    BY <1>5 DEF Next
  <2>2. \/ Start(j) \/ Stage(j) \/ Open(j) \/ Tar(j) \/ Die(j)
        \/ \E d \in Names : \/ Diff(j, d) \/ NoDiff(j, d) \/ Diffed(j, d) \/ NotDiffed(j, d)
                             \/ Verify(j, d) \/ VerifyFails(j, d) \/ Publish(j, d)
    BY <1>3, <2>1 DEF Work
  <2>3. CASE \E d \in Names : \/ Diff(j, d) \/ NoDiff(j, d) \/ Diffed(j, d) \/ NotDiffed(j, d)
                              \/ Verify(j, d) \/ VerifyFails(j, d) \/ Publish(j, d)
    <3>1. plan' = plan /\ pc' = pc /\ staged' = staged /\ packs' = packs
      BY <2>3 DEF Diff, NoDiff, Diffed, NotDiffed, Verify, VerifyFails, Publish, Thread
    <3>2. Jobs' = Jobs
      BY <3>1, SamePlan
    <3>3. \A k \in Jobs : StageOK(k)'
      BY <1>1, <1>2, <3>1, JobStays
    <3> QED
      BY <1>1, <3>2, <3>3 DEF PackInv
  <2>4. CASE Start(j) \/ Stage(j) \/ Open(j) \/ Tar(j) \/ Die(j)
    <3>1. plan' = plan /\ deltas' = deltas
      BY <2>4 DEF Start, Stage, Open, Tar, Die
    <3>2. \A k \in Jobs : k # j => pc'[k] = pc[k] /\ staged'[k] = staged[k] /\ packs'[k] = packs[k]
      BY <1>3, <2>4 DEF Start, Stage, Open, Tar, Die
    <3>3. \A k \in Jobs : k # j => StageOK(k)'
      BY <1>1, <1>2, <3>1, <3>2, JobStays
    <3>4. StageOK(j)'
      BY <1>1, <2>4, <3>1, StageStep
    <3>5. Jobs' = Jobs
      BY <3>1, SamePlan
    <3> QED
      BY <1>1, <3>3, <3>4, <3>5 DEF PackInv
  <2> QED
    BY <2>2, <2>3, <2>4
<1> QED
  BY <1>4, <1>5

\* A client with the old release has everything of the new one when it has the
\* pack, but for what has no whole source: whatever manifests, whatever a dead
\* make_fullfiles left of the tars, however many packs are made at once, and
\* whichever of them die (pack.c:151-424).
THEOREM PacksComplete == Spec => []PackComplete
<1>1. PackInv => PackComplete
  BY DEF PackInv, StageOK, OfPack, Complete, PackComplete
<1> QED
  BY PackInit, PackNext, <1>1, PTL DEF Spec
-----------------------------------------------------------------------------
(* Types *)

\* What is linked into a stage, or is in a pack, of j.
IsContent(j, c) ==
    /\ c.full \subseteq Node /\ c.deltas \subseteq Names
    /\ c.manifests \subseteq {j.module, "MoM"}

ContentsOK ==
    /\ \A j \in Jobs : /\ packs[j].state \in {"none", "torn", "whole"}
                       /\ IsContent(j, staged[j]) /\ IsContent(j, packs[j].content)
    /\ starts \in [Jobs -> 0..plan.starts]

LEMMA NothingIsContent ==
  ASSUME NEW j, NEW state
  PROVE  /\ IsContent(j, Nothing)
         /\ Pack(state, Nothing).content = Nothing /\ Pack(state, Nothing).state = state
  BY DEF IsContent, Nothing, Pack

LEMMA ContentsInit == Init => ContentsOK
<1> SUFFICES ASSUME Init PROVE ContentsOK
  OBVIOUS
<1>1. plan.starts \in Nat
  BY PacksAssumption DEF Init, PacksAssumption
<1>2. \A j \in Jobs : staged[j] = Nothing /\ packs[j] = Pack("none", Nothing) /\ starts[j] = 0
  BY DEF Init
<1>3. starts \in [Jobs -> 0..plan.starts]
  BY <1>1 DEF Init
<1> QED
  BY <1>2, <1>3, NothingIsContent DEF ContentsOK

\* What make_final_pack links are whole files, deltas of this pack and deltas of
\* its manifests.
LEMMA StageIsContent ==
  ASSUME plan \in Plans, LiveFilesHashed, NEW j \in Jobs,
         NEW small \in SUBSET Candidates(j), NEW m \in SUBSET ManifestDeltas(j)
  PROVE  IsContent(j, [full |-> {End(j)[p].hash : p \in WholeFiles(j, small)},
                       deltas |-> {Name(j, p) : p \in small},
                       manifests |-> m])
<1>1. ASSUME NEW p \in Added(j) \cup Candidates(j)
      PROVE  End(j)[p].hash \in Node
  <2>1. p \in DOMAIN End(j) /\ (Live(End(j)[p]) \/ End(j)[p].kind \in {"F", "D", "L"})
    BY DEF Added, Candidates, LivePaths
  <2>2. p \in DOMAIN To(j)
    <3>1. SUFFICES ASSUME p \notin DOMAIN To(j) PROVE FALSE
      OBVIOUS
    <3>2. End(j)[p] = Tombstone(p, From(j)[p], j.to)
      BY <2>1, <3>1 DEF End, Matched
    <3> QED
      BY <2>1, <3>2 DEF Tombstone, Live
  <2>3. /\ End(j)[p].kind = To(j)[p].kind /\ End(j)[p].hash = To(j)[p].hash
        /\ End(j)[p].deleted = To(j)[p].deleted /\ End(j)[p].ghosted = To(j)[p].ghosted
    BY <2>2, EndFacts
  <2>4. Live(To(j)[p])
    BY <2>1, <2>2, <2>3, PlanFacts DEF Live
  <2>5. To(j)[p].hash \in Node
    BY <2>2, <2>4 DEF LiveFilesHashed, LivePaths, To, Jobs
  <2> QED
    BY <2>3, <2>5
<1>2. \A p \in Candidates(j) : Name(j, p) \in Names
  BY DEF Names
<1>3. ManifestDeltas(j) \subseteq {j.module, "MoM"}
  BY DEF ManifestDeltas
<1> QED
  BY <1>1, <1>2, <1>3 DEF IsContent, WholeFiles

\* A step of a process puts into its stage and its pack what belongs there.
LEMMA ContentsStep ==
  ASSUME NEW j \in Jobs, DeltaInv, LiveFilesHashed, ContentsOK,
         Start(j) \/ Stage(j) \/ Open(j) \/ Tar(j) \/ Die(j)
  PROVE  ContentsOK'
<1>1. /\ plan' = plan /\ plan \in Plans
      /\ DOMAIN staged = Jobs /\ DOMAIN packs = Jobs /\ DOMAIN deltas = Names
  BY DEF DeltaInv, Shape, Start, Stage, Open, Tar, Die
<1>2. Jobs' = Jobs /\ Names' = Names /\ \A k, c : IsContent(k, c)' <=> IsContent(k, c)
  BY <1>1, SamePlan DEF IsContent
<1>3. plan.starts \in Nat
  BY <1>1, PacksAssumption DEF PacksAssumption
<1>4. starts' \in [Jobs -> 0..plan.starts]
  <2>1. CASE starts' = starts
    BY <2>1 DEF ContentsOK
  <2>2. CASE Start(j)
    <3>1. starts[j] \in 0..plan.starts /\ starts[j] < plan.starts
          /\ starts' = [starts EXCEPT ![j] = @ + 1]
      BY <2>2 DEF Start, ContentsOK
    <3>2. starts[j] + 1 \in 0..plan.starts
      BY <1>3, <3>1
    <3> QED
      BY <3>1, <3>2 DEF ContentsOK
  <2> QED
    BY <2>1, <2>2 DEF Stage, Open, Tar, Die
<1>5. /\ \A k \in Jobs : k # j => staged'[k] = staged[k] /\ packs'[k] = packs[k]
      /\ \/ staged'[j] = staged[j] \/ staged'[j] = Nothing \/ IsContent(j, staged'[j])
      /\ \/ packs'[j] = packs[j] \/ packs'[j] = Pack("torn", Nothing)
         \/ packs'[j] = Pack("whole", staged[j])
  <2>1. CASE Start(j) \/ Die(j) \/ Open(j) \/ Tar(j)
    BY <1>1, <2>1 DEF Start, Die, Open, Tar
  <2>2. CASE Stage(j)
    <3>1. PICK small \in SUBSET {p \in Candidates(j) : /\ deltas[Name(j, p)] # "none"
                                                       /\ End(j)[p].kind # "D"},
               m \in SUBSET ManifestDeltas(j) :
             staged' = [staged EXCEPT ![j] =
                 [full      |-> {End(j)[p].hash : p \in WholeFiles(j, small)},
                  deltas    |-> {Name(j, p) : p \in small},
                  manifests |-> m]]
      BY <2>2 DEF Stage
    <3>2. IsContent(j, staged'[j])
      BY <1>1, <3>1, StageIsContent
    <3>3. packs' = packs
      BY <2>2 DEF Stage
    <3> QED
      BY <1>1, <3>1, <3>2, <3>3
  <2> QED
    BY <2>1, <2>2
<1>6. \A state, c : Pack(state, c).state = state /\ Pack(state, c).content = c
  BY DEF Pack
<1>7. \A k \in Jobs : /\ packs'[k].state \in {"none", "torn", "whole"}
                      /\ IsContent(k, staged'[k]) /\ IsContent(k, packs'[k].content)
  BY <1>5, <1>6, NothingIsContent DEF ContentsOK
<1> QED
  BY <1>1, <1>2, <1>4, <1>7 DEF ContentsOK

LEMMA ContentsNext == DeltaInv /\ LiveFilesHashed /\ ContentsOK /\ [Next]_vars => ContentsOK'
<1> SUFFICES ASSUME DeltaInv, LiveFilesHashed, ContentsOK, [Next]_vars PROVE ContentsOK'
  OBVIOUS
<1>1. CASE plan' = plan /\ staged' = staged /\ packs' = packs /\ starts' = starts
  BY <1>1, SamePlan DEF ContentsOK, IsContent
<1>2. CASE Next
  <2>1. PICK j \in Jobs : Start(j) \/ Work(j) \/ Die(j)
    BY <1>2 DEF Next
  <2>2. CASE Start(j) \/ Stage(j) \/ Open(j) \/ Tar(j) \/ Die(j)
    BY <2>2, ContentsStep
  <2>3. CASE \E d \in DOMAIN deltas :
                \/ Diff(j, d) \/ NoDiff(j, d) \/ Diffed(j, d) \/ NotDiffed(j, d)
                \/ Verify(j, d) \/ VerifyFails(j, d) \/ Publish(j, d)
    BY <1>1, <2>3 DEF Diff, NoDiff, Diffed, NotDiffed, Verify, VerifyFails, Publish, Thread
  <2> QED
    BY <2>1, <2>2, <2>3 DEF Work
<1> QED
  BY <1>1, <1>2 DEF vars

\* Every variable keeps its type; what is packed as a whole file is one, never a
\* tombstone, when what is live in the manifests has a file (pack.c:151-424).
THEOREM PackTypeCorrect == LiveFilesHashed => (Spec => []TypeOK)
<1> SUFFICES ASSUME LiveFilesHashed PROVE Spec => []TypeOK
  OBVIOUS
<1>1. DeltaInv /\ ContentsOK => TypeOK
  <2> SUFFICES ASSUME DeltaInv, ContentsOK PROVE TypeOK
    OBVIOUS
  <2>1. Jobs \subseteq Job
    BY PacksAssumption DEF DeltaInv, Shape, Jobs, PacksAssumption
  <2> QED
    BY <2>1 DEF DeltaInv, Shape, ContentsOK, IsContent, TypeOK, AtStages
<1>2. Init => DeltaInv /\ ContentsOK
  BY DeltaInit, ContentsInit
<1>3. DeltaInv /\ ContentsOK /\ [Next]_vars => (DeltaInv /\ ContentsOK)'
  BY DeltaNext, ContentsNext
<1> QED
  BY <1>1, <1>2, <1>3, PTL DEF Spec
=============================================================================
