-------------------------------- MODULE Packs --------------------------------
(***************************************************************************)
(* pack.c and delta.c: swupd_make_pack packs what a client needs to bring  *)
(* a bundle from one release to another, as deltas where they pay and as   *)
(* whole files elsewhere.  Several processes do so at once                 *)
(* (basic_creator.sh starts one per bundle), each with a pool of threads   *)
(* for its deltas; the packs of a bundle from different releases share     *)
(* deltas, below www/<version>/delta.  A process may die at any point and  *)
(* the pack may be made again.                                             *)
(*                                                                         *)
(* The manifests are those of finished releases and do not change.         *)
(* make_bsdiff_delta belongs to a library: it writes a new file and fails  *)
(* if there is one of that name ("we raced", manifest.c:1142).             *)
(***************************************************************************)
EXTENDS ManifestOps

CONSTANTS
    Plans,     \* what is considered: records [manifests, jobs, image, tars, starts]
    Job        \* the packs that are made in some plan: [module, from, to]

\* manifest_from_file: a manifest nobody wrote is an empty one.
ManifestOf(p, m, v) ==
    IF <<m, v>> \in DOMAIN p.manifests THEN p.manifests[<<m, v>>] ELSE <<>>

\* www/<version>/files/<hash>.tar, as make_fullfiles leaves it, here one for a
\* hash whatever the version: a directory's is written in place, and stays empty
\* or torn when the writer dies (fullfiles.c:63, FullTorn).
TarState == {"none", "empty", "torn", "whole"}

\* The manifests a client moves between, as CreateUpdate leaves them: entries are
\* dated when they last changed.  Boot files that were renamed are left out.
\* Only directories have an empty or a torn tar (see FilesWhole).
ASSUME PacksAssumption ==
    \A p \in Plans :
        /\ p.starts \in Nat  \* bound: how often a pack is made
        /\ p.jobs \subseteq Job /\ p.image \in BOOLEAN /\ p.tars \in [Node -> TarState]
        /\ \A j \in p.jobs :
             LET old == ManifestOf(p, j.module, j.from)
                 new == ManifestOf(p, j.module, j.to)
             IN  /\ j.from \in Nat /\ j.to \in Nat /\ j.from < j.to
                 /\ IsFileList(old) /\ IsFileList(new)
                 /\ \A f \in DOMAIN old : /\ old[f].last <= j.from
                                          /\ Live(old[f]) <=> old[f].kind # "."
                                          /\ old[f].ghosted => ~old[f].rename
                 /\ \A f \in DOMAIN new : Live(new[f]) <=> new[f].kind # "."
                 /\ \A f \in LivePaths(new) :
                        p.tars[new[f].hash] \in {"empty", "torn"} => new[f].kind = "D"
                 /\ DOMAIN old # {} \/ j.from = 0 =>
                        \A f \in LivePaths(new) :
                            new[f].last <= j.from => /\ f \in LivePaths(old)
                                                     /\ old[f].hash = new[f].hash

\* What is live in a release that is packed has the hash of a file, as CreateUpdate
\* leaves it (Downloadable).
LiveFilesHashed ==
    \A p \in Plans : \A j \in p.jobs :
        LET new == ManifestOf(p, j.module, j.to)
        IN  \A f \in LivePaths(new) : new[f].hash \in Node

VARIABLES
    plan,     \* the manifests, the packs to make, and where files come from
    deltas,   \* www/<version>/delta/<from>-<to>-<hash>-<hash>
    dots,     \* the names with a dot they are written under
    pc,       \* [job -> where the process is]
    at,       \* [job -> [delta -> where the thread that makes it is]]
    staged,   \* [job -> what is linked into the stage]
    packs,    \* [job -> the pack file]
    starts

vars == <<plan, deltas, dots, pc, at, staged, packs, starts>>

-----------------------------------------------------------------------------
(* What prepare_pack works out from the manifests of the two releases. *)

Jobs == plan.jobs

From(j) == ManifestOf(plan, j.module, j.from)
To(j)   == ManifestOf(plan, j.module, j.to)

\* match_manifests(manifest, pack->end_manifest)
End(j) == Matched(From(j), To(j), j.to, 0)

\* match_manifests gives p the entry of the same name for a peer.
Matches(j, p) ==
    p \in DOMAIN From(j) /\ (p \in DOMAIN To(j) => HasPeer(p, From(j)))

\* The tombstones link_renames finds p's hash in.
RenamedFrom(j, p) ==
    LET end == End(j)
    IN  {q \in DOMAIN end :
            /\ end[p].rename /\ ~end[p].deleted
            /\ end[q].rename /\ end[q].deleted /\ Matches(j, q)
            /\ end[q].last = j.to /\ end[q].hash = end[p].hash}

\* Where p's file->peer is in the old manifest: nowhere, or at one place.
Peers(j, p) ==
    IF Matches(j, p) THEN {p}
    ELSE {q \in RenamedFrom(j, p) : \A r \in RenamedFrom(j, p) : q <= r}

Peer(j, p) == From(j)[CHOOSE q \in Peers(j, p) : TRUE]

\* Mutant: only what the latest release changed is a candidate.
CandidatesLatest(j) ==
    LET end == End(j)
    IN  {p \in DOMAIN end : /\ end[p].last = j.to /\ end[p].kind \in {"F", "D", "L"}
                            /\ Peers(j, p) # {}}

\* The files that changed since the old release and have a peer there.
Candidates(j) ==
    LET end == End(j)
    IN  {p \in DOMAIN end : /\ end[p].last > j.from /\ end[p].kind \in {"F", "D", "L"}
                            /\ Peers(j, p) # {}}

\* Mutant: deleted files are not left out.
AddedDeleted(j) == {p \in DOMAIN End(j) : Peers(j, p) = {}}

\* make_pack_full_files: what is live and has no peer.
Added(j) == {p \in LivePaths(End(j)) : Peers(j, p) = {}}

Name(j, p) ==
    [src |-> Peer(j, p).hash, srcLast |-> Peer(j, p).last,
     dst |-> End(j)[p].hash,  last |-> End(j)[p].last]

\* All deltas the packs of the plan could use.
Names == UNION {{Name(j, p) : p \in Candidates(j)} : j \in Jobs}

Missing(j) == {p \in Candidates(j) : deltas[Name(j, p)] = "none"}

\* find_file_in_list
Duplicate(j, p, q) ==
    /\ Name(j, p).dst = Name(j, q).dst /\ Name(j, p).last = Name(j, q).last
    /\ Name(j, p).srcLast = Name(j, q).srcLast

\* consolidate_packs_delta_files, without those create_delta refuses: deltas are
\* made between regular files.
ToMake(j) ==
    {Name(j, p) : p \in
        {q \in Missing(j) : /\ End(j)[q].kind = "F" /\ Peer(j, q).kind = "F"
                            /\ \A r \in Missing(j) : r < q => ~Duplicate(j, r, q)}}

Tarball(e) == plan.tars[e.hash]

\* Whether what is linked is the file: the image is there (directories are not
\* linked from it), or else a tar that can be unpacked.
Linkable(e) == (plan.image /\ e.kind # "D") \/ Tarball(e) = "whole"

\* An empty tar is taken for one that a delta is smaller than; there is no delta
\* of a directory, and linking it fails.
TarEmpty(j) == {p \in Candidates(j) : Tarball(End(j)[p]) = "empty"}

\* What is linked as a whole when the deltas of small are linked.
WholeFiles(j, small) ==
    {p \in Added(j) \cup (Candidates(j) \ (small \cup TarEmpty(j))) : Linkable(End(j)[p])}

\* The manifests a pack brings deltas of.
ManifestDeltas(j) ==
    IF j.from = 0 THEN {}
    ELSE {j.module} \cup IF j.module = "os-core" THEN {"MoM"} ELSE {}
-----------------------------------------------------------------------------
Content == {"none", "partial", "wrong", "whole"}

Nothing == [full |-> {}, deltas |-> {}, manifests |-> {}]
Pack(state, content) == [state |-> state, content |-> content]

Stages == {"idle", "deltas", "staged", "tar", "done", "dead"}

TypeOK ==
    /\ Jobs \subseteq Job
    /\ deltas \in [Names -> Content] /\ dots \in [DOMAIN deltas -> Content]
    /\ pc \in [Jobs -> Stages]
    /\ at \in [Jobs -> [DOMAIN deltas -> {"idle", "todo", "writing", "written", "verified"}]]
    /\ DOMAIN staged = Jobs /\ DOMAIN packs = Jobs
    /\ \A j \in Jobs :
         /\ packs[j].state \in {"none", "torn", "whole"}
         /\ \A c \in {staged[j], packs[j].content} :
              /\ c.full \subseteq Node /\ c.deltas \subseteq DOMAIN deltas
              /\ c.manifests \subseteq {j.module, "MoM"}
    /\ starts \in [Jobs -> 0..plan.starts]

Init ==
    /\ plan \in Plans
    /\ deltas = [d \in Names |-> "none"] /\ dots = [d \in Names |-> "none"]
    /\ pc = [j \in Jobs |-> "idle"]
    /\ at = [j \in Jobs |-> [d \in Names |-> "idle"]]
    /\ staged = [j \in Jobs |-> Nothing]
    /\ packs = [j \in Jobs |-> Pack("none", Nothing)]
    /\ starts = [j \in Jobs |-> 0]
-----------------------------------------------------------------------------
(* make_pack *)

\* prepare_pack gives up: no entries to come from.  A bundle that did not change
\* in the old release has no manifest file there, and counts as one without.
NothingToPack(j) == DOMAIN From(j) = {} /\ j.from > 0

\* The process starts, also after one that died or ended: prepare_pack wipes
\* the stage, consolidate_packs_delta_files lists the deltas that do not exist.
Start(j) ==
    /\ pc[j] \in {"idle", "done", "dead"} /\ starts[j] < plan.starts
    /\ starts' = [starts EXCEPT ![j] = @ + 1]
    /\ IF NothingToPack(j)
       THEN /\ pc' = [pc EXCEPT ![j] = "done"]
            /\ UNCHANGED <<at, staged>>
       ELSE /\ pc' = [pc EXCEPT ![j] = "deltas"]
            /\ staged' = [staged EXCEPT ![j] = Nothing]
            /\ at' = [at EXCEPT ![j] = [d \in DOMAIN deltas |-> IF d \in ToMake(j) THEN "todo"
                                                        ELSE "idle"]]
    /\ UNCHANGED <<plan, deltas, dots, packs>>

Thread(j, d, there, then) ==
    /\ at[j][d] = there
    /\ at' = [at EXCEPT ![j][d] = then]
    /\ UNCHANGED <<plan, pc, staged, packs, starts>>

\* Mutant: the library writes over what is there.
DiffOver(j, d) ==
    /\ plan.image
    /\ dots' = [dots EXCEPT ![d] = "partial"]
    /\ Thread(j, d, "todo", "writing")
    /\ UNCHANGED deltas

\* make_bsdiff_delta opens the dotfile, which must be new.
Diff(j, d) ==
    /\ plan.image /\ dots[d] = "none"
    /\ dots' = [dots EXCEPT ![d] = "partial"]
    /\ Thread(j, d, "todo", "writing")
    /\ UNCHANGED deltas

\* Mutant: a thread waits until the dotfile of another is gone.
NoDiffButWait(j, d) ==
    /\ dots[d] = "none"
    /\ Thread(j, d, "todo", "idle")
    /\ UNCHANGED <<deltas, dots>>

\* It does not: the xattrs differ, an image is gone, or there is a dotfile.
NoDiff(j, d) ==
    /\ Thread(j, d, "todo", "idle")
    /\ UNCHANGED <<deltas, dots>>

\* The dotfile is complete, with a delta that may not do what it should.
Diffed(j, d) ==
    /\ \E c \in {"whole", "wrong"} : dots' = [dots EXCEPT ![d] = c]
    /\ Thread(j, d, "writing", "written")
    /\ UNCHANGED deltas

\* The delta is larger than the file and removed, or failed and left behind.
NotDiffed(j, d) ==
    /\ \E c \in {"none", "partial"} : dots' = [dots EXCEPT ![d] = c]
    /\ Thread(j, d, "writing", "idle")
    /\ UNCHANGED deltas

\* Mutant: the result is not compared.
VerifyNothing(j, d) ==
    /\ Thread(j, d, "written", "verified")
    /\ UNCHANGED <<deltas, dots>>

\* apply_bsdiff_delta and cmp recreate the new file.
Verify(j, d) ==
    /\ dots[d] = "whole"
    /\ Thread(j, d, "written", "verified")
    /\ UNCHANGED <<deltas, dots>>

\* They do not; the dotfile stays (the unlinks are commented out).
VerifyFails(j, d) ==
    /\ Thread(j, d, "written", "idle")
    /\ UNCHANGED <<deltas, dots>>

\* rename(dotfile, outfile)
Publish(j, d) ==
    /\ deltas' = [deltas EXCEPT ![d] = dots[d]]
    /\ dots' = [dots EXCEPT ![d] = "none"]
    /\ Thread(j, d, "verified", "idle")

\* g_thread_pool_free waits; make_pack_full_files links what is added, and
\* make_final_pack, for each candidate, the delta, when there is one and it is
\* small enough, or the whole file, and the deltas of the manifests, when they
\* are there or can be made.  full is what explode_pack_stage gets out of it.
Stage(j) ==
    /\ pc[j] = "deltas" /\ \A d \in DOMAIN deltas : at[j][d] = "idle"
    /\ \E small \in SUBSET {p \in Candidates(j) : /\ deltas[Name(j, p)] # "none"
                                                  /\ End(j)[p].kind # "D"},
          m \in SUBSET ManifestDeltas(j) :
         staged' = [staged EXCEPT ![j] =
             [full      |-> {End(j)[p].hash : p \in WholeFiles(j, small)},
              deltas    |-> {Name(j, p) : p \in small},
              manifests |-> m]]
    /\ pc' = [pc EXCEPT ![j] = "staged"]
    /\ UNCHANGED <<plan, deltas, dots, at, packs, starts>>

\* tar opens the pack, over one that may be there.
Open(j) ==
    /\ pc[j] = "staged"
    /\ pc' = [pc EXCEPT ![j] = "tar"]
    /\ packs' = [packs EXCEPT ![j] = Pack("torn", Nothing)]
    /\ UNCHANGED <<plan, deltas, dots, at, staged, starts>>

\* tar ends, and the stage is wiped.  If it failed the pack is torn; what
\* make_final_pack returns is not looked at.
Tar(j) ==
    /\ pc[j] = "tar"
    /\ \/ packs' = [packs EXCEPT ![j] = Pack("whole", staged[j])]
       \/ packs' = packs
    /\ pc' = [pc EXCEPT ![j] = "done"]
    /\ staged' = [staged EXCEPT ![j] = Nothing]
    /\ UNCHANGED <<plan, deltas, dots, at, starts>>

\* The process dies, in the middle of anything, all its threads with it.
Die(j) ==
    /\ pc[j] \in {"deltas", "staged", "tar"}
    /\ pc' = [pc EXCEPT ![j] = "dead"]
    /\ at' = [at EXCEPT ![j] = [d \in DOMAIN deltas |-> "idle"]]
    /\ UNCHANGED <<plan, deltas, dots, staged, packs, starts>>

Work(j) ==
    \/ \E d \in DOMAIN deltas : \/ Diff(j, d) \/ NoDiff(j, d) \/ Diffed(j, d) \/ NotDiffed(j, d)
                        \/ Verify(j, d) \/ VerifyFails(j, d) \/ Publish(j, d)
    \/ Stage(j) \/ Open(j) \/ Tar(j)

Next == \E j \in Jobs : Start(j) \/ Work(j) \/ Die(j)

Spec == Init /\ [][Next]_vars

\* What has started goes on until it dies; nothing has to be started.
FairSpec == Spec /\ \A j \in Job : WF_vars(j \in Jobs /\ Work(j))
-----------------------------------------------------------------------------
(* Properties *)

\* A delta that is there turns the old file into the new one, also while other
\* processes make the same delta, fail to, or die (delta.c:75-137).
DeltasWhole == \A d \in DOMAIN deltas : deltas[d] \in {"none", "whole"}

\* The client's copy of p is up to date before the update.
Installed(j, p) ==
    p \in LivePaths(From(j)) /\ From(j)[p].hash = To(j)[p].hash

\* A sound delta for p from a file the client has.
DeltaFor(j, p, d) ==
    /\ d.dst = To(j)[p].hash /\ deltas[d] = "whole"
    /\ \E q \in LivePaths(From(j)) : From(j)[q].hash = d.src

\* A client with the old release of the bundle has everything of the new one
\* when it has the pack: what did not change, a whole file, or a delta that
\* works on a file it has (pack.c:151-424).  Missing is only what there is no
\* whole source of, neither its image nor a tar that was written to its end.
PackComplete ==
    \A j \in Jobs :
        packs[j].state = "whole" =>
            \A p \in LivePaths(To(j)) :
                \/ Installed(j, p)
                \/ To(j)[p].hash \in packs[j].content.full
                \/ \E d \in packs[j].content.deltas : DeltaFor(j, p, d)
                \/ ~Linkable(To(j)[p])

Busy(j) == j \in Jobs /\ pc[j] \notin {"idle", "done", "dead"}

\* No process waits for another for ever, whatever the other left behind.
PackersEnd == \A j \in Job : []<>~Busy(j)
=============================================================================
