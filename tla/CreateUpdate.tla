---------------------------- MODULE CreateUpdate -----------------------------
(***************************************************************************)
(* swupd_create_update (create_update.c) run again and again on one state  *)
(* directory: each run turns the bundle chroots of a new version, below    *)
(* image/<version>/, into manifests below www/<version>/, comparing them   *)
(* with those of the version named by image/LAST_VER.  LAST_VER is not     *)
(* written by the program but by the script that calls it.                 *)
(*                                                                         *)
(* A run has one action per step of main(), so that it can die between any *)
(* two of them, and within a write.                                        *)
(***************************************************************************)
EXTENDS ManifestOps, Sequences

CONSTANTS
    Bundle,      \* the bundles (groups), Core among them
    Core,        \* "os-core"
    Inputs,      \* what runs may be given: a set of plans [Version -> SUBSET Input]
    MaxAborts,  \* bound on the runs that crash, or succeed and are not published
    CheckExit,   \* the caller looks at the exit status before it publishes
    CleanRerun,  \* the caller empties image/<version>/full before a rerun
    Absent,      \* a file or directory that does not exist
    Torn         \* a manifest whose writing was cut short

Version == 1..MaxVersion

\* What one run reads: groups.ini, the chroots, the noship/*-includes files (none
\* for os-core, whose includes the program never resolves),
\* --format, --minversion and [Debuginfo] banned.
Input == [groups : Seq(Bundle), img : [Bundle -> Image],
          inc : [Bundle -> SUBSET Bundle], format : Nat \ {0},
          minversion : Nat, ban : BOOLEAN]

\* struct manifest of a bundle or of "full".
Manifest == [version : 0..MaxVersion, prev : 0..MaxVersion, format : Nat,
             includes : SUBSET Bundle, files : FileList]

\* m \in Manifest, in a form TLC can evaluate.
IsManifest(m) ==
    /\ m \in [version : 0..MaxVersion, prev : 0..MaxVersion, format : Nat,
              includes : SUBSET Bundle, files : {m.files}]
    /\ IsFileList(m.files)

\* Manifest.MoM: gone are the entries written "Md..", update is the action.
MoM == [version : 0..MaxVersion, prev : 0..MaxVersion, format : Nat, update : BOOLEAN,
        subs : UNION {[B -> 0..MaxVersion] : B \in SUBSET Bundle},
        gone : SUBSET Bundle]

ASSUME UpdateAssumption ==
    /\ Core \in Bundle
    /\ MaxAborts \in Nat
    /\ CheckExit \in BOOLEAN /\ CleanRerun \in BOOLEAN
    /\ Inputs \subseteq [Version -> SUBSET Input]
    /\ \A inputs \in Inputs : \A v \in Version : \A in \in inputs[v] :
          /\ Core \in Range(in.groups) /\ IsInjective(in.groups)
          /\ in.inc[Core] = {}
    /\ {Absent, Torn} \cap (Manifest \cup MoM \cup Image \cup Input) = {}
    /\ Absent # Torn

VARIABLES
    plan,       \* the builds this history chooses from, by version
    lastVer,    \* image/LAST_VER
    published,  \* history: the values LAST_VER has had
    image,      \* image/<version>/ and the run's options, as last given
    chroot,     \* image/<version>/full
    www,        \* www/<version>/Manifest.<bundle>
    wwwFull,    \* www/<version>/Manifest.full
    wwwMoM,     \* www/<version>/Manifest.MoM
    legible,    \* what can be read of each of these that is torn
    pc,         \* where the current run is
    nv,         \* newversion
    gi,         \* groupcursor of the bundle loop
    changed,    \* match_manifests did not return 0
    newFull,    \* new_full
    oldM, newM, \* old_core, new_core and the hash tables of the bundles
    aborts      \* bound: how many there were

disk == <<plan, lastVer, published, image, chroot, www, wwwFull, wwwMoM, legible>>
proc == <<pc, nv, gi, changed, newFull, oldM, newM>>
vars == <<disk, proc, aborts>>

Run == image[nv]
Groups == Range(Run.groups)

\* alloc_manifest
NewManifest(version, prev, includes, files) ==
    [version |-> version, prev |-> prev, format |-> Run.format,
     includes |-> includes, files |-> files]

NoManifest == [version |-> 0, prev |-> 0, format |-> 0,
               includes |-> {}, files |-> <<>>]

NoMoM == [version |-> 0, prev |-> 0, format |-> 0, update |-> FALSE, subs |-> <<>>, gone |-> {}]

\* What a file has to say: a torn one, what is left of it.
Read(file, left) == IF file = Torn THEN left ELSE file

OldFullFile == Read(wwwFull[lastVer], legible.full[lastVer])
OldMoMFile  == Read(wwwMoM[lastVer], legible.mom[lastVer])

\* manifest_from_file for a bundle or the full manifest: a missing file is an
\* empty manifest of the version that was asked for, in the current format.
\* When nothing is left of a torn one the run dies (see OldUnreadable).
FromFile(file, version) ==
    IF file \in {Absent, Torn} THEN NewManifest(version, 0, {}, <<>>) ELSE file

\* Mutant: the newest MoM on the disk is taken, published or not.
OldMoMNewest ==
    LET there == {v \in 1..(nv-1) : wwwMoM[v] \notin {Absent, Torn}}
    IN  IF there = {} THEN [NoMoM EXCEPT !.format = Run.format]
        ELSE wwwMoM[CHOOSE v \in there : \A w \in there : w <= v]

\* The MoM of the last version.  A missing one has the current format and no
\* entries.
OldMoM == IF OldMoMFile \in {Absent, Torn}
          THEN [NoMoM EXCEPT !.version = lastVer, !.format = Run.format]
          ELSE OldMoMFile

\* manifest_subversion: 0 for a bundle the MoM does not list.
SubVersion(mom, b) == IF b \in DOMAIN mom.subs THEN mom.subs[b] ELSE 0

OldFile(b) == LET s == SubVersion(OldMoM, b)
              IN  Read(www[s][b], legible.bundle[s][b])

\* get_unique_includes: everything reachable through includes.
Reach(inc, b) ==
    {c \in Bundle : \A S \in SUBSET Bundle :
        inc[b] \subseteq S /\ (\A x \in S : inc[x] \subseteq S) => c \in S}

\* get_unique_includes dereferences NULL for an include that is not in
\* groups.ini, and recurses without end on a cycle.
Resolvable(inc, b) ==
    \A c \in Reach(inc, b) \cup {b} : c \in Groups /\ c \notin Reach(inc, c)

Init ==
    /\ plan \in Inputs
    /\ lastVer = 0 /\ published = {}
    /\ image = [v \in Version |-> Absent]
    /\ chroot = [v \in Version |-> Absent]
    /\ www = [v \in 0..MaxVersion |-> [b \in Bundle |-> Absent]]
    /\ wwwFull = [v \in 0..MaxVersion |-> Absent]
    /\ wwwMoM = [v \in 0..MaxVersion |-> Absent]
    /\ legible = [bundle |-> [v \in 0..MaxVersion |-> [b \in Bundle |-> Torn]],
                  full   |-> [v \in 0..MaxVersion |-> Torn],
                  mom    |-> [v \in 0..MaxVersion |-> Torn]]
    /\ pc = "idle" /\ nv = 0 /\ gi = 0 /\ changed = FALSE
    /\ newFull = NoManifest
    /\ oldM = [b \in Bundle |-> NoManifest]
    /\ newM = [b \in Bundle |-> NoManifest]
    /\ aborts = 0
-----------------------------------------------------------------------------
(* Phase 1: the full chroot and the full manifest *)

\* Mutant: the version of LAST_VER itself is built again.
StartSameVersion(v, in) ==
    /\ pc = "idle" /\ v >= lastVer
    /\ nv' = v
    /\ image' = [image EXCEPT ![v] = in]
    /\ chroot' = IF CleanRerun THEN [chroot EXCEPT ![v] = Absent] ELSE chroot
    /\ pc' = "chroot"
    /\ UNCHANGED <<plan, lastVer, published, www, wwwFull, wwwMoM, legible,
                   gi, changed, newFull, oldM, newM, aborts>>

\* Mutant: the chroots are corrected, and the union of the last run left alone.
StartStale(v, in) ==
    /\ pc = "idle" /\ v > lastVer
    /\ nv' = v
    /\ image' = [image EXCEPT ![v] = in]
    /\ pc' = "chroot"
    /\ UNCHANGED <<plan, lastVer, published, chroot, www, wwwFull, wwwMoM, legible,
                   gi, changed, newFull, oldM, newM, aborts>>

\* The caller prepares the chroots of a version above LAST_VER and starts a
\* run.  After a run that did not get published it may use the same version
\* again, with the chroots corrected, or a later one.
Start(v, in) ==
    /\ pc = "idle" /\ v > lastVer
    /\ nv' = v
    /\ image' = [image EXCEPT ![v] = in]
    /\ chroot' = IF CleanRerun THEN [chroot EXCEPT ![v] = Absent] ELSE chroot
    /\ pc' = "chroot"
    /\ UNCHANGED <<plan, lastVer, published, www, wwwFull, wwwMoM, legible,
                   gi, changed, newFull, oldM, newM, aborts>>

\* The union rsync builds: os-core first, then each group in order, keeping
\* what is already there.  The first n groups have been copied.
Overlay(in, n) ==
    LET has(p) == IF p \in DOMAIN in.img[Core] THEN Core
                  ELSE in.groups[CHOOSE k \in 1..n :
                          /\ p \in DOMAIN in.img[in.groups[k]]
                          /\ \A j \in 1..(k-1) : p \notin DOMAIN in.img[in.groups[j]]]
        all == DOMAIN in.img[Core] \cup UNION {DOMAIN in.img[in.groups[k]] : k \in 1..n}
    IN  [p \in all |-> in.img[has(p)][p]]

FullChroot(in) == Overlay(in, Len(in.groups))

\* chroot_create_full: nothing is copied if the directory exists.
CreateFullChroot ==
    /\ pc = "chroot"
    /\ chroot' = IF chroot[nv] = Absent
                 THEN [chroot EXCEPT ![nv] = FullChroot(Run)]
                 ELSE chroot
    /\ pc' = "full"
    /\ UNCHANGED <<plan, lastVer, published, image, www, wwwFull, wwwMoM, legible,
                   nv, gi, changed, newFull, oldM, newM, aborts>>

\* new_full: the hashed full chroot, compared with the previous full manifest,
\* without the tombstones a format bump retires and without the old ghosts.
FullList(old) ==
    LET hashed  == Hashed(FromDirectory(chroot[nv], nv, Run.ban), chroot[nv])
        matched == Matched(old.files, hashed, nv, Run.minversion)
        bumped  == IF old.format < Run.format
                   THEN WithoutOldTombstones(old.files, matched) ELSE matched
    IN  WithoutOldGhosts(old.files, bumped)

CreateFullManifest ==
    /\ pc = "full" /\ OldFullFile # Torn
    /\ newFull' = NewManifest(nv, 0, {}, FullList(FromFile(OldFullFile, lastVer)))
    /\ pc' = "core"
    /\ UNCHANGED <<disk, nv, gi, changed, oldM, newM, aborts>>
-----------------------------------------------------------------------------
(* Phase 2: os-core *)

Fail == /\ pc' = "failed"
        /\ UNCHANGED <<disk, nv, gi, changed, newFull, oldM, newM, aborts>>

\* "It never makes sense to decrease the format number for the next build."
FormatTooOld == pc = "core" /\ Run.format < OldMoM.format /\ Fail

\* new_core from the os-core chroot, matched with the one in force.
MatchCore ==
    /\ pc = "core" /\ OldMoMFile # Torn /\ Run.format >= OldMoM.format
    /\ OldFile(Core) # Torn
    /\ LET old == FromFile(OldFile(Core), SubVersion(OldMoM, Core))
           raw == AddHashes(FromDirectory(Run.img[Core], nv, Run.ban), newFull.files)
       IN  /\ oldM' = [oldM EXCEPT ![Core] = old]
           /\ newM' = [newM EXCEPT ![Core] =
                  NewManifest(nv, old.version, {},
                              Matched(old.files, raw, nv, Run.minversion))]
           /\ changed' = (ChangedPaths(old.files, raw, Run.minversion) # {})
    /\ pc' = "coreMatched"
    /\ UNCHANGED <<disk, nv, gi, newFull, aborts>>

\* Mutants: tombstones survive a format bump; they never survive.
BumpedNever(old, files)  == files
BumpedAlways(old, files) == WithoutOldTombstones(old.files, files)

\* What becomes of a matched list before it is written: renames (m is what
\* rename_detection found), retired tombstones and ghosts, orphaned renames,
\* pruning.
Bumped(old, files) ==
    IF old.format < Run.format THEN WithoutOldTombstones(old.files, files) ELSE files

Completed(old, new, m) ==
    Pruned(RenamesCleaned(WithoutOldGhosts(old.files,
               Bumped(old, RenamesLinked(new.files, m))), m), Run.ban)

MatchingsOf(b) == RenameMatchings(oldM[b].files, newM[b].files, nv)

\* Step 3b: nothing is new, new_core stays at the old version.
CoreUnchanged ==
    /\ pc = "coreMatched" /\ ~changed
    /\ newM' = [newM EXCEPT ![Core].version = oldM[Core].version]
    /\ pc' = "load"
    /\ UNCHANGED <<disk, nv, gi, changed, newFull, oldM, aborts>>

CoreTypeChange ==
    /\ pc = "coreMatched" /\ changed
    /\ TypeChangeForbidden(oldM[Core].files, newM[Core].files)
    /\ Fail

\* Step 3c.  Without new files after pruning the whole run gives up.
CoreChanged ==
    /\ pc = "coreMatched" /\ changed
    /\ ~TypeChangeForbidden(oldM[Core].files, newM[Core].files)
    /\ \E m \in MatchingsOf(Core) :
          LET files == Completed(oldM[Core], newM[Core], m)
          IN  /\ newM' = [newM EXCEPT ![Core].files = files]
              /\ pc' = IF NewFiles(files, nv) = {} THEN "failed" ELSE "writeCore"
    /\ UNCHANGED <<disk, nv, gi, changed, newFull, oldM, aborts>>

WriteCore ==
    /\ pc = "writeCore"
    /\ www' = [www EXCEPT ![nv][Core] = newM[Core]]
    /\ pc' = "load"
    /\ UNCHANGED <<plan, lastVer, published, image, chroot, wwwFull, wwwMoM, legible,
                   nv, gi, changed, newFull, oldM, newM, aborts>>
-----------------------------------------------------------------------------
(* Phase 3: the other bundles, in the order of groups.ini *)

\* The chroots and the old manifests of all groups are read first.
LoadBundles ==
    /\ pc = "load" /\ \A b \in Groups : OldFile(b) # Torn
    /\ oldM' = [b \in Bundle |->
                   IF b \in Groups \ {Core}
                   THEN FromFile(OldFile(b), SubVersion(OldMoM, b)) ELSE oldM[b]]
    /\ newM' = [b \in Bundle |->
                   IF b \in Groups \ {Core}
                   THEN NewManifest(nv, 0, Run.inc[b],
                                    FromDirectory(Run.img[b], nv, Run.ban))
                   ELSE newM[b]]
    /\ gi' = 1 /\ pc' = "bundle"
    /\ UNCHANGED <<disk, nv, changed, newFull, aborts>>

Current == Run.groups[gi]
AfterBundle == IF gi < Len(Run.groups) THEN "bundle" ELSE "mom"

\* Mutant: the loop goes on without advancing.
SkipCoreStuck ==
    /\ pc = "bundle" /\ Current = Core /\ pc' = AfterBundle
    /\ UNCHANGED <<disk, nv, gi, changed, newFull, oldM, newM, aborts>>

SkipCore ==
    /\ pc = "bundle" /\ Current = Core
    /\ gi' = gi + 1 /\ pc' = AfterBundle
    /\ UNCHANGED <<disk, nv, changed, newFull, oldM, newM, aborts>>

\* The includes of the loaded manifests, os-core added to those of b.
Includes(ms, b) == [c \in Bundle |-> IF c = b THEN ms[c].includes \cup {Core}
                                    ELSE ms[c].includes]

IncludesUnresolvable ==
    /\ pc = "bundle" /\ Current # Core
    /\ ~(Resolvable(Includes(oldM, Current), Current)
         /\ Resolvable(Includes(newM, Current), Current))
    /\ Fail

\* Step 5: f without what the includes of b deliver, each in the state it is in
\* by now: complete for the bundles before b in groups.ini, raw for the rest.
SubtractIncludes(f, ms, b) ==
    Subtracted(f, {ms[c].files : c \in Reach(Includes(ms, b), b)})

\* Steps 4 to 6: hash, subtract, match.
MatchBundle ==
    /\ pc = "bundle" /\ Current # Core
    /\ Resolvable(Includes(oldM, Current), Current)
    /\ Resolvable(Includes(newM, Current), Current)
    /\ LET b   == Current
           old == SubtractIncludes(oldM[b].files, oldM, b)
           raw == SubtractIncludes(AddHashes(newM[b].files, newFull.files), newM, b)
       IN  /\ oldM' = [oldM EXCEPT ![b].files = old, ![b].includes = @ \cup {Core}]
           /\ newM' = [newM EXCEPT ![b].files = Matched(old, raw, nv, Run.minversion),
                                   ![b].includes = @ \cup {Core},
                                   ![b].prev = oldM[b].version]
           /\ changed' = (ChangedPaths(old, raw, Run.minversion) # {})
    /\ pc' = "bundleMatched"
    /\ UNCHANGED <<disk, nv, gi, newFull, aborts>>

\* Mutant: includes are not compared.
IncludesIgnored(b) == FALSE

\* changed_includes.  The lists it compares have the same order whenever they
\* have the same members: names sorted, reversed, os-core in front.
IncludesChanged(b) == oldM[b].includes # newM[b].includes

\* Mutant: an unchanged manifest keeps the new version.
KeepNewVersion(b) ==
    /\ gi' = gi + 1 /\ pc' = AfterBundle
    /\ UNCHANGED <<disk, nv, changed, newFull, oldM, newM, aborts>>

\* newm->version = oldm->version: no manifest is written.
KeepOldVersion(b) ==
    /\ newM' = [newM EXCEPT ![b].version = oldM[b].version]
    /\ gi' = gi + 1 /\ pc' = AfterBundle
    /\ UNCHANGED <<disk, nv, changed, newFull, oldM, aborts>>

\* Step 6a
BundleUnchanged ==
    /\ pc = "bundleMatched" /\ ~changed /\ ~IncludesChanged(Current)
    /\ KeepOldVersion(Current)

BundleTypeChange ==
    /\ pc = "bundleMatched" /\ (changed \/ IncludesChanged(Current))
    /\ TypeChangeForbidden(oldM[Current].files, newM[Current].files)
    /\ Fail

\* Step 6b: written if anything new is left, or if tombstones or ghosts were
\* retired, or if the includes are different.
WorthWriting(b, files) ==
    LET bumped == Bumped(oldM[b], newM[b].files)
    IN  \/ NewFiles(files, nv) # {}
        \/ bumped # newM[b].files
        \/ WithoutOldGhosts(oldM[b].files, bumped) # bumped
        \/ IncludesChanged(b)

BundleChanged ==
    /\ pc = "bundleMatched" /\ (changed \/ IncludesChanged(Current))
    /\ ~TypeChangeForbidden(oldM[Current].files, newM[Current].files)
    /\ \E m \in MatchingsOf(Current) :
          LET b     == Current
              files == Completed(oldM[b], newM[b], m)
              write == WorthWriting(b, files)
          IN  /\ newM' = [newM EXCEPT ![b].files = files,
                         ![b].version = IF write THEN @ ELSE oldM[b].version]
              /\ gi' = IF write THEN gi ELSE gi + 1
              /\ pc' = IF write THEN "writeBundle" ELSE AfterBundle
    /\ UNCHANGED <<disk, nv, changed, newFull, oldM, aborts>>

WriteBundle ==
    /\ pc = "writeBundle"
    /\ www' = [www EXCEPT ![nv][Current] = newM[Current]]
    /\ gi' = gi + 1 /\ pc' = AfterBundle
    /\ UNCHANGED <<plan, lastVer, published, image, chroot, wwwFull, wwwMoM, legible,
                   nv, changed, newFull, oldM, newM, aborts>>
-----------------------------------------------------------------------------
(* Phases 4 and 5: the meta-manifest, then the full manifest *)

\* Mutant: the version before is off by one.
NewMoMOffByOne ==
    [version |-> nv, prev |-> OldMoM.version - 1, format |-> Run.format,
     update |-> Run.format > OldMoM.format,
     subs |-> [b \in Groups |-> newM[b].version], gone |-> {}]

\* An entry whose manifest file does not exist is written as deleted.
NewMoM ==
    LET subs == [b \in Groups |-> newM[b].version]
    IN  [version |-> nv,
         prev    |-> OldMoM.version,
         format  |-> Run.format,
         update  |-> Run.format > OldMoM.format,
         subs    |-> subs,
         gone    |-> {b \in Groups : www[subs[b]][b] = Absent}]

WriteMoM ==
    /\ pc = "mom"
    /\ wwwMoM' = [wwwMoM EXCEPT ![nv] = NewMoM]
    /\ pc' = "writeFull"
    /\ UNCHANGED <<plan, lastVer, published, image, chroot, www, wwwFull, legible,
                   nv, gi, changed, newFull, oldM, newM, aborts>>

\* maximize_to_full, clean_renames, prune_manifest, write_manifest.
FinalFull ==
    [newFull EXCEPT !.files =
        Pruned(RenamesCleaned(Maximized(@, {newM[b].files : b \in Groups}), <<>>),
               Run.ban)]

WriteFull ==
    /\ pc = "writeFull"
    /\ wwwFull' = [wwwFull EXCEPT ![nv] = FinalFull]
    /\ pc' = "done"
    /\ UNCHANGED <<plan, lastVer, published, image, chroot, www, wwwMoM, legible,
                   nv, gi, changed, newFull, oldM, newM, aborts>>

\* A manifest of LAST_VER's release that was cut where manifest_from_file returns
\* NULL or fails an assertion: no run gets past it.
OldUnreadable ==
    /\ \/ pc = "full" /\ OldFullFile = Torn
       \/ pc = "core" /\ (OldMoMFile = Torn \/ OldFile(Core) = Torn)
       \/ pc = "load" /\ \E b \in Groups : OldFile(b) = Torn
    /\ Fail
-----------------------------------------------------------------------------
(* The caller, and crashes *)

ForgetRun == /\ pc' = "idle" /\ nv' = 0 /\ gi' = 0 /\ changed' = FALSE
             /\ newFull' = NoManifest
             /\ oldM' = [b \in Bundle |-> NoManifest]
             /\ newM' = [b \in Bundle |-> NoManifest]

\* Writing LAST_VER.  The tests do it after a run that succeeded;
\* basic_creator.sh only looks whether there is a Manifest.MoM.
Publish ==
    /\ IF CheckExit THEN pc = "done"
       ELSE pc \in {"done", "failed"} /\ wwwMoM[nv] # Absent
    /\ lastVer' = nv /\ published' = published \cup {nv}
    /\ ForgetRun
    /\ UNCHANGED <<plan, image, chroot, www, wwwFull, wwwMoM, legible, aborts>>

\* The version is not published: the run failed, or a later tool did.
GiveUp ==
    /\ \/ pc = "failed" /\ aborts' = aborts
       \/ pc = "done" /\ aborts < MaxAborts /\ aborts' = aborts + 1
    /\ ForgetRun /\ UNCHANGED disk

Running == pc \notin {"idle", "failed", "done"}

Crash == /\ Running /\ aborts < MaxAborts
         /\ aborts' = aborts + 1 /\ pc' = "failed"
         /\ UNCHANGED <<disk, nv, gi, changed, newFull, oldM, newM>>

\* rsync is cut short: the groups before the n-th are complete, some of the
\* files of the n-th (os-core itself if n is 0) are there.
CrashInChroot ==
    /\ pc = "chroot" /\ chroot[nv] = Absent /\ aborts < MaxAborts
    /\ \E n \in 0..Len(Run.groups) :
         LET full == Overlay(Run, n)
             done == IF n = 0 THEN {} ELSE DOMAIN Overlay(Run, n - 1)
         IN  \E S \in SUBSET DOMAIN full :
                /\ done \subseteq S
                /\ chroot' = [chroot EXCEPT ![nv] = Restrict(full, S)]
    /\ aborts' = aborts + 1 /\ pc' = "failed"
    /\ UNCHANGED <<plan, lastVer, published, image, www, wwwFull, wwwMoM, legible,
                   nv, gi, changed, newFull, oldM, newM>>

\* A decimal number of which only the first digits, or none, are left.
Clipped(n) == {k \in 0..n : \E i \in 0..n : n \div 10^i = k}

\* What manifest_from_file reads of a header that ends early: no format is an
\* error, a missing version is the one that was asked for.
HeaderCuts(m) ==
    {[m EXCEPT !.format = k, !.prev = 0] : k \in Clipped(m.format) \ {0}}
    \cup {[m EXCEPT !.version = v, !.prev = 0] : v \in Clipped(m.version)}
    \cup {[m EXCEPT !.prev = v] : v \in Clipped(m.prev)}

\* The includes: os-core comes first, and the last name may be cut to any other.
IncludeCuts(inc) ==
    LET read == {S \in SUBSET inc : S = {} \/ Core \in S}
    IN  read \cup {S \cup {c} : S \in read \ {inc}, c \in Bundle}

\* A list ends after any entry (written by last_change and name), or within the
\* name q of the next one; an entry that lacks more is dropped.  A name cut to
\* that of an entry already read is left out.
FileCuts(f) ==
    LET Before(p) == {r \in DOMAIN f : f[r].last < f[p].last
                                       \/ (f[r].last = f[p].last /\ r < p)}
        Names(p)  == {q \in Path \ Before(p) :
                        \A class \in {ConfigPaths, BootPaths} : q \in class <=> p \in class}
    IN  {f} \cup {Restrict(f, Before(p)) : p \in DOMAIN f}
        \cup UNION {{[r \in Before(p) \cup {q} |-> IF r = q THEN f[p] ELSE f[r]] :
                        q \in Names(p)} : p \in DOMAIN f}

\* All that can be left of a manifest: nothing legible (no MANIFEST line, or a
\* line without its tab or its flags), or what reads as a shorter manifest.
ManifestCuts(m) ==
    {Torn}
    \cup {[h EXCEPT !.includes = {}, !.files = <<>>] : h \in HeaderCuts(m)}
    \cup {[m EXCEPT !.includes = inc, !.files = <<>>] : inc \in IncludeCuts(m.includes)}
    \cup {[m EXCEPT !.files = f] : f \in FileCuts(m.files)}

\* The same of a MoM.  A name cut to another bundle's is left out.
MoMCuts(m) ==
    LET read == {S \in SUBSET DOMAIN m.subs :
                    \A a \in S, b \in DOMAIN m.subs \ S : m.subs[a] <= m.subs[b]}
    IN  {Torn}
        \cup {[h EXCEPT !.subs = <<>>, !.gone = {}] : h \in HeaderCuts(m)}
        \cup {[m EXCEPT !.subs = Restrict(@, S), !.gone = @ \cap S] : S \in read}

\* A manifest is opened with "w" under its final name, and a crash leaves the
\* beginning of it.  So does a full disk: nobody looks at what fprintf and fclose
\* return, and the run goes on (see README); it ends here if the file cannot be
\* opened, or if tar fails on it, now or, for a bundle, when the MoM is written.
CrashInWrite ==
    /\ aborts < MaxAborts
    /\ \/ /\ pc = "writeCore"
          /\ www' = [www EXCEPT ![nv][Core] = Torn]
          /\ \E left \in ManifestCuts(newM[Core]) :
                legible' = [legible EXCEPT !.bundle[nv][Core] = left]
          /\ UNCHANGED <<wwwFull, wwwMoM>>
       \/ /\ pc = "writeBundle"
          /\ www' = [www EXCEPT ![nv][Current] = Torn]
          /\ \E left \in ManifestCuts(newM[Current]) :
                legible' = [legible EXCEPT !.bundle[nv][Current] = left]
          /\ UNCHANGED <<wwwFull, wwwMoM>>
       \/ /\ pc = "mom"
          /\ wwwMoM' = [wwwMoM EXCEPT ![nv] = Torn]
          /\ \E left \in MoMCuts(NewMoM) : legible' = [legible EXCEPT !.mom[nv] = left]
          /\ UNCHANGED <<www, wwwFull>>
       \/ /\ pc = "writeFull"
          /\ wwwFull' = [wwwFull EXCEPT ![nv] = Torn]
          /\ \E left \in ManifestCuts(FinalFull) :
                legible' = [legible EXCEPT !.full[nv] = left]
          /\ UNCHANGED <<www, wwwMoM>>
    /\ aborts' = aborts + 1 /\ pc' = "failed"
    /\ UNCHANGED <<plan, lastVer, published, image, chroot,
                   nv, gi, changed, newFull, oldM, newM>>

CreateUpdateStep ==
    \/ CreateFullChroot \/ CreateFullManifest
    \/ FormatTooOld \/ MatchCore \/ CoreUnchanged \/ CoreTypeChange \/ CoreChanged
    \/ WriteCore
    \/ LoadBundles \/ SkipCore \/ IncludesUnresolvable \/ MatchBundle
    \/ BundleUnchanged \/ BundleTypeChange \/ BundleChanged \/ WriteBundle
    \/ WriteMoM \/ WriteFull \/ OldUnreadable

Next ==
    \/ \E v \in Version : \E in \in plan[v] : Start(v, in)
    \/ CreateUpdateStep
    \/ Publish \/ GiveUp
    \/ Crash \/ CrashInChroot \/ CrashInWrite

Spec == Init /\ [][Next]_vars

\* The program does not stop by itself; nothing makes the caller start it,
\* publish, or crash it.
FairSpec == Spec /\ WF_vars(CreateUpdateStep)
-----------------------------------------------------------------------------
(* What a client sees of a published version *)

\* The manifest in force for bundle b in version v.
InForce(v, b) == LET m == www[wwwMoM[v].subs[b]][b]
                 IN  IF m \in {Absent, Torn} THEN NoManifest ELSE m

Listed(v) == DOMAIN wwwMoM[v].subs

\* What a client of version v has installed with b: os-core, which every client
\* has (a bundle that never held anything has no manifest to say so), and all
\* that the manifests in force include.
Installed(v, b) ==
    {b, Core} \cup Reach([c \in Bundle |-> IF c \in Listed(v) THEN InForce(v, c).includes
                                    ELSE {}], b)

\* What the options of a build keep out of it.
Withheld(in) ==
    (IF Stateless THEN ConfigPaths ELSE {}) \cup (IF in.ban THEN DebugPaths ELSE {})

\* The files of b and of all it includes, with the hashes the manifests state.
\* (For banned debuginfo see BannedDebuginfoGone.)
Delivered(v, b) ==
    LET files == {InForce(v, c).files : c \in Installed(v, b) \cap Listed(v)}
    IN  [p \in (UNION {LivePaths(f) : f \in files})
              \ (IF image[v].ban THEN DebugPaths ELSE {}) |->
            {f[p].hash : f \in {g \in files : p \in LivePaths(g)}}]

\* The same, read off the build.
Built(in, b) ==
    LET bundles == {b, Core} \cup Reach(in.inc, b)
    IN  [p \in (UNION {DOMAIN in.img[c] : c \in bundles}) \ Withheld(in) |->
            {FullChroot(in)[p]}]

\* Releases are atomic, immutable and carry exactly the build that was handed
\* in: the program and its caller implement Release, through failures, aborts
\* and reruns.
Contents(in) == [b \in Range(in.groups) |-> Built(in, b)]

Abstract == INSTANCE Release WITH
    Versions <- Version,
    given    <- [v \in {w \in Version : image[w] # Absent} |-> Contents(image[v])],
    released <- [v \in published |-> [b \in Listed(v) |-> Delivered(v, b)]]

ImplementsRelease == Abstract!Spec
-----------------------------------------------------------------------------
(* Properties *)

DiskTypeOK ==
    /\ plan \in Inputs
    /\ lastVer \in 0..MaxVersion /\ published \subseteq Version
    /\ image \in [Version -> Input \cup {Absent}]
    /\ chroot \in [Version -> Image \cup {Absent}]
    /\ www = [v \in 0..MaxVersion |-> [b \in Bundle |-> www[v][b]]]
    /\ \A v \in 0..MaxVersion : \A b \in Bundle :
          www[v][b] \in {Absent, Torn} \/ IsManifest(www[v][b])
    /\ wwwFull = [v \in 0..MaxVersion |-> wwwFull[v]]
    /\ \A v \in 0..MaxVersion :
          wwwFull[v] \in {Absent, Torn} \/ IsManifest(wwwFull[v])
    /\ wwwMoM \in [0..MaxVersion -> MoM \cup {Absent, Torn}]
    /\ legible = [bundle |-> [v \in 0..MaxVersion |-> [b \in Bundle |-> legible.bundle[v][b]]],
                  full   |-> [v \in 0..MaxVersion |-> legible.full[v]],
                  mom    |-> legible.mom]
    /\ \A v \in 0..MaxVersion :
          /\ legible.full[v] = Torn \/ IsManifest(legible.full[v])
          /\ \A b \in Bundle : legible.bundle[v][b] = Torn \/ IsManifest(legible.bundle[v][b])
    /\ legible.mom \in [0..MaxVersion -> MoM \cup {Torn}]

RunTypeOK ==
    /\ pc \in {"idle", "chroot", "full", "core", "coreMatched", "writeCore", "load",
              "bundle", "bundleMatched", "writeBundle", "mom", "writeFull",
              "done", "failed"}
    /\ nv \in 0..MaxVersion /\ gi \in Nat /\ changed \in BOOLEAN
    /\ IsManifest(newFull)
    /\ oldM = [b \in Bundle |-> oldM[b]] /\ newM = [b \in Bundle |-> newM[b]]
    /\ \A b \in Bundle : IsManifest(oldM[b]) /\ IsManifest(newM[b])

\* Every variable has its type: what a run keeps in memory or writes to the disk
\* is a manifest a later run can read, with versions that exist.
TypeOK == DiskTypeOK /\ RunTypeOK /\ aborts \in 0..MaxAborts

\* A published MoM names, for every bundle, nothing or a complete manifest of a
\* published version, and its full manifest is complete: no crash, failed run
\* or rerun leaves a client with a dangling or torn reference.
PublishedIntact ==
    \A v \in published :
        /\ wwwMoM[v] \notin {Absent, Torn} /\ wwwFull[v] \notin {Absent, Torn}
        /\ \A b \in Listed(v) :
              LET s == wwwMoM[v].subs[b]
              IN  s # 0 => /\ s \in published /\ s <= v
                           /\ www[s][b] \notin {Absent, Torn}
                           /\ www[s][b].version = s

\* What is published stays published, file for file: a run never touches what
\* clients download.
ReleasesImmutable ==
    [][\A v \in published :
          v \in published' /\ www'[v] = www[v]
          /\ wwwMoM'[v] = wwwMoM[v] /\ wwwFull'[v] = wwwFull[v]]_vars

\* The versions between v1 and v2 a client may have had with bundle b.
Between(v1, v2) == {v \in published : v1 <= v /\ v <= v2}

\* last_change is what a client compares its own version with: an entry that is
\* not newer than the client's version says what the client already has.
UpdateSound ==
    \A v1, v2 \in published : v1 < v2 =>
        \A b \in Listed(v1) \cap Listed(v2) :
            LET old == InForce(v1, b).files
                new == InForce(v2, b).files
            IN  \A p \in DOMAIN new : new[p].last <= v1 =>
                    IF Live(new[p])
                    THEN p \in LivePaths(old) /\ old[p].hash = new[p].hash
                    ELSE p \notin LivePaths(old)

\* A file that was installed with b and is no longer in its manifest is on
\* record as deleted or ghosted, newer than the client, as long as the format
\* is the same: "required for 'swupd update' to know when to delete the file".
\* Boot files, which become ghosts that a later release forgets, and debuginfo,
\* which a ban prunes, are left out.
DeletionsRecorded ==
    \A v1, v2 \in published :
        /\ v1 < v2 /\ wwwMoM[v1].format = wwwMoM[v2].format
        => \A b \in Bundle :
             (\A v \in Between(v1, v2) : b \in Listed(v)) =>
                LET old == InForce(v1, b).files
                    new == InForce(v2, b).files
                IN  \A p \in LivePaths(old) \ (BootPaths \cup DebugPaths) :
                        p \notin LivePaths(new) =>
                            p \in DOMAIN new /\ new[p].last > v1

\* Every live entry can be downloaded: make_fullfiles packs the files that
\* Manifest.full dates to their version, and the client asks for the file by
\* the last_change and the hash the bundle's manifest states.
Downloadable ==
    \A v \in published : \A b \in Listed(v) :
        LET f == InForce(v, b).files
        IN  \A p \in LivePaths(f) :
                LET full == wwwFull[f[p].last]
                IN  /\ f[p].last \in published /\ full \notin {Absent, Torn}
                    /\ \E q \in LivePaths(full.files) :
                          /\ full.files[q].hash = f[p].hash
                          /\ full.files[q].last = f[p].last

\* A manifest that is written after a format bump carries no tombstone from before
\* it: each dates from a release of the manifest's own format, however many bumps
\* the bundle slept through.  A bundle that does not change at a bump keeps its
\* manifest, of the old format, and the tombstones in it.
TombstonesOfOwnFormat ==
    \A v \in published : \A b \in Listed(v) :
        LET m == InForce(v, b)
        IN  \A p \in DOMAIN m.files : m.files[p].deleted =>
                wwwMoM[m.files[p].last].format = m.format

\* A ghost tells the client once: "cleaned up with the next update", it is in
\* no later release unless the file came back in between.
GhostsLastOneRelease ==
    \A v1, v2 \in published : v1 < v2 =>
        \A b \in Listed(v1) \cap Listed(v2) :
            LET f1 == InForce(v1, b).files
                f2 == InForce(v2, b).files
            IN  \A p \in DOMAIN f1 \cap DOMAIN f2 :
                    f1[p].ghosted /\ f2[p].ghosted =>
                        \E v \in Between(v1, v2) :
                            b \in Listed(v) /\ p \in LivePaths(InForce(v, b).files)

\* A rename flag always comes in pairs: clean_renames "removes any orphaned
\* renames", so a client that finds one end of a rename finds the other, with
\* the same hash and version.
RenamesPaired ==
    \A v \in published : \A b \in Listed(v) :
        LET f == InForce(v, b).files
        IN  \A p \in DOMAIN f : f[p].rename =>
                \E q \in SameRename(f, p) : f[q].deleted # f[p].deleted

\* The hash of a deleted file is all zeros, unless it is the source of a rename:
\* an orphaned source is marked "as deleted now".
PlainTombstonesZero ==
    \A v \in published : \A b \in Listed(v) :
        LET f == InForce(v, b).files
        IN  \A p \in DOMAIN f : f[p].deleted /\ ~f[p].rename => f[p].hash = ZeroHash

\* The full chroot is "a union of _everything_ in the build".
FullIsUnion == pc = "full" => chroot[nv] = FullChroot(Run)

\* Every file of a bundle's build is installed with it; a ghost, "treated as
\* deleted", takes no file out of a bundle that includes it.
NothingGetsLost ==
    \A v \in published : \A b \in Listed(v) :
        DOMAIN Built(image[v], b) \subseteq DOMAIN Delivered(v, b)

\* A run in which os-core has ghosts to clean up gets to write it.
CoreGhostsCleanedUp ==
    [][(/\ pc = "coreMatched"
        /\ \E p \in DOMAIN oldM[Core].files : oldM[Core].files[p].ghosted
        /\ ~TypeChangeForbidden(oldM[Core].files, newM[Core].files)
        /\ aborts' = aborts)
       => pc' = "writeCore"]_vars

\* Once debuginfo is banned no manifest lists any: prune_manifest is there "to
\* insure mistakenly included debuginfo from old versions is removed from the
\* manifests".
BannedDebuginfoGone ==
    \A v \in published : image[v].ban =>
        \A b \in Listed(v) : DebugPaths \cap LivePaths(InForce(v, b).files) = {}

\* A run that exits with 0 has written whole what its MoM dates to its version, and
\* its full manifest: "no manifest written" (step 6a) goes with the old version.
\* It holds over a release that was published torn, too, and over what earlier
\* attempts at the version left behind.
SuccessMeansWhole ==
    pc = "done" =>
        /\ wwwMoM[nv] \notin {Absent, Torn} /\ wwwFull[nv] \notin {Absent, Torn}
        /\ \A b \in Listed(nv) :
              LET s == wwwMoM[nv].subs[b]
              IN  /\ s <= nv
                  /\ s = nv => www[s][b] \notin {Absent, Torn} /\ www[s][b].version = s

\* Every run comes to an end: no input leaves it waiting or going round.
RunEnds == (pc = "chroot") ~> (pc \in {"done", "failed"})
=============================================================================
