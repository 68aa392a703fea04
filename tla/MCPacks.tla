------------------------------- MODULE MCPacks -------------------------------
(***************************************************************************)
(* Small instances of Packs: one pack at a time for all histories of a     *)
(* bundle of two or three paths, and two packs at once that share a delta. *)
(***************************************************************************)
EXTENDS Packs, TLC

MCKindOf == [n \in Node |-> IF n = "d" THEN "D" ELSE IF n = "l" THEN "L" ELSE "F"]

\* The file list of a new release and how renames are detected in it.
Fresh(img, version) == Hashed(FromDirectory(img, version, FALSE), img)

Successors(old, img, version) ==
    LET new == Matched(old, Fresh(img, version), version, 0)
    IN  {RenamesCleaned(RenamesLinked(new, m), m) : m \in RenameMatchings(old, new, version)}

\* The manifests a history leaves: none for a release without a change.
History(lists, images) ==
    [mv \in {<<"app", v>> : v \in {w \in DOMAIN lists :
                w = 1 \/ ChangedPaths(lists[w - 1], Fresh(images[w], w), 0) # {}}}
        |-> lists[mv[2]]]

Images(P, N) == UNION {[S -> N] : S \in SUBSET P}

MkJob(m, from, to) == [module |-> m, from |-> from, to |-> to]
Plan(manifests, jobs, n) ==
    [manifests |-> manifests, jobs |-> jobs, image |-> TRUE,
     tars |-> [h \in Node |-> "whole"], starts |-> n]

\* Two releases of three paths with renames.
TwoReleases ==
    UNION {LET old == Fresh(img1, 1) IN
           {Plan(History(<<old, new>>, <<img1, img2>>), {MkJob("app", 1, 2)}, 1) :
                new \in Successors(old, img2, 2)} :
           img1 \in {i \in Images({1, 2, 3}, {"x", "y"}) : DOMAIN i # {} /\ i[Min(DOMAIN i)] = "x"},
           img2 \in Images({1, 2, 3}, {"x", "y"})}

\* Three releases of two paths, of which one becomes a directory or a link.
ThreeReleases ==
    UNION {UNION {LET old == Fresh(img1, 1) IN
           {Plan(History(<<old, new, newer>>, <<img1, img2, img3>>), {job}, 1) :
                newer \in Successors(new, img3, 3), job \in {MkJob("app", 1, 3), MkJob("app", 2, 3)}} :
           new \in Successors(Fresh(img1, 1), img2, 2)} :
           img1 \in [{1} -> {"x", "d"}],
           img2 \in Images({1, 2}, {"x", "y", "d"}),
           img3 \in Images({1, 2}, {"x", "y", "d"})}

\* The first pack of a bundle, and what is left when the image or tars are
\* missing, or a directory's tar is empty or torn.
FirstPacks ==
    {[Plan((<<m, 2>> :> Fresh(1 :> n, 2)) @@ (<<m, 1>> :> Fresh(1 :> "x", 1)),
           {MkJob(m, from, 2)}, 1) EXCEPT !.image = image, !.tars = [h \in Node |-> tar]] :
        m \in {"app", "os-core"}, n \in {"y", "d", "l"}, from \in {0, 1},
        image \in BOOLEAN, tar \in {"none", "whole"}}
    \cup
    {[Plan((<<"app", 2>> :> Fresh(1 :> "d" @@ 2 :> "y", 2)) @@ (<<"app", 1>> :> Fresh(1 :> n, 1)),
           {MkJob("app", from, 2)}, 1) EXCEPT !.tars["d"] = tar] :
        n \in {"x", "d"}, from \in {0, 1}, tar \in {"none", "empty", "torn"}}
    \cup {Plan(<<"app", 2>> :> Fresh(1 :> "y", 2), {MkJob("app", from, 2)}, 1) : from \in {0, 1}}

\* Path 2 is new in release 2, path 1 changes in release 3: the packs from 1 and
\* from 2 share the delta of path 1.
Shared ==
    LET m1 == Fresh(1 :> "x", 1)
        m2 == Matched(m1, Fresh(1 :> "x" @@ 2 :> "z", 2), 2, 0)
        m3 == Matched(m2, Fresh(1 :> "y" @@ 2 :> "z", 3), 3, 0)
    IN  {Plan(<<"app", 1>> :> m1 @@ <<"app", 2>> :> m2 @@ <<"app", 3>> :> m3,
              {MkJob("app", 1, 3), MkJob("app", 2, 3)}, 2)}

MCPlans == TwoReleases \cup ThreeReleases \cup FirstPacks \cup Shared
MCJobs  == UNION {p.jobs : p \in MCPlans}

\* PackTypeCorrect supposes it: the histories above leave manifests of this kind.
ASSUME HashedPlans == LiveFilesHashed
=============================================================================
