# A verification development for swupd-server

swupd-server turns the builds of an operating system into what the update
client downloads: manifests that say which files a bundle has in a release,
"fullfiles" that hold one file each, and packs. This directory holds TLA+
modules translated from the C code, TLC runs over small instances of them, and
TLAPS proofs. Paths below are relative to the repository; the code is in
`src/`.

## 1. The system

### Components

| component | state it keeps | operations | what makes it correct |
|---|---|---|---|
| `swupd_create_update` (`src/create_update.c`) | `www/<v>/Manifest.{os-core,<bundle>,MoM,full}`, written in place one after the other; `image/<v>/full`; in memory the old and new manifest of each bundle | one run: full chroot, full manifest, os-core, each bundle in the order of groups.ini, MoM, full | a release is complete or not published; it never changes; a client of any older release that applies `last_change` ends up with what was built |
| manifest operations (`src/manifest.c`, `src/rename.c`, `src/type_change.c`, `src/heuristics.c`) | file lists: hash, `last_change`, deleted, ghosted, rename | compare, tombstone, subtract, link and clean renames, prune, deprecate, maximize | nothing changes without a new `last_change`; what goes away is on record as long as the format is the same; flags come in pairs |
| scanning (`src/analyze_fs.c`), full chroot (`src/chroot.c`), groups (`src/groups.c`) | file lists of a chroot; `image/<v>/full`; a global cursor over the groups | scan, hash with a thread pool, union of the chroots | the union is the build's |
| the caller (`basic_creator.sh`, the functional tests) | `image/LAST_VER` | prepare chroots, run the programs, advance LAST_VER | only complete releases are exposed |
| `swupd_make_fullfiles` (`src/make_fullfiles.c`, `src/fullfiles.c`) | `www/<v>/files/<hash>.tar`, `<hash>.tar.{xz,gz,bz2}` | one entry per hash, a pool of threads that compress and rename | every new file is packed, once, whole |
| pipes (`src/helpers.c`) | a pipe, a monitor and two children | fork, inherit, close, wait | success means a complete stream; nobody hangs |
| `swupd_make_pack` (`src/make_packs.c`, `src/pack.c`, `src/delta.c`) | `www/<v>/delta/<from>-<to>-<hash>-<hash>` and the dotfile each is written under; a staging directory and a pack per process | list the deltas that are missing, make them in a pool of threads, stage, tar | a delta that is there works; a pack brings all that its starting version lacks; nobody waits for anybody |
| version lists (`src/versions.c`), statistics (`src/stats.c`), `src/xattrs.c` | `image/LAST_VER`; counters | parse a number, list versions; count; compare attributes | none of their own, see section 6 |
| configuration, logging (`src/config.c`, `src/globals.c`, `src/log.c`) | read-only settings | | none of their own |

### How they interact

All communication goes through the state directory. The caller puts bundle
chroots below `image/<v>/` and runs `swupd_create_update`, which reads
`LAST_VER`, the MoM of that release, and through it the manifest each bundle was
last written in. It writes new manifests below `www/<v>/`. `make_fullfiles` reads
`Manifest.full` and packs the entries dated `v`, `make_pack` reads manifests of two
releases. Then the caller writes `LAST_VER`. Nothing locks anything, and a
program that dies leaves what it has written.

### What is hard

* **Histories.** A manifest depends on the one before it, and through
  `last_change` and tombstones on all before that. Bundles move files between
  each other, include each other, and are compared *after* subtracting what they
  include, in the order of groups.ini. Formats, ghosts and renames age over
  several releases.
* **Crashes.** Every file is written in place; a run may die between two writes
  or in one of them; the same version is then built again, or skipped.
* **Who publishes.** The program does not; `basic_creator.sh` does not look at
  the exit status.
* **Threads and processes.** The fullfile pool works on files named by content;
  the packers of a release run in parallel and share the deltas and the temporary
  names they are made under; pipes hang if one end is left open in one process
  too many.
* **Searches.** Rename detection caches a best candidate per file, goes back when
  somebody else took it, and its results are linked again, release after
  release, by walks that overwrite what they found before.

`PROJECT.json` lists each of these hazards at its line, with the properties aimed
at it.

## 2. The modules

| module | what it models |
|---|---|
| `ManifestOps` | the operations on one file list, as operators. `files` is a function from paths to entries (`struct file`); the C lists are sorted by name before every walk, which pairs entries by name. A content with its type, mode and owner is a *node*, and the hash is the node. Classes of paths (`/etc`, boot, debuginfo) are sets. |
| `CreateUpdate` | `swupd_create_update` run again and again on one state directory, its caller, and crashes. EXTENDS `ManifestOps`. |
| `Release` | the abstract specification: a build is handed in, a release appears at once, complete, above all earlier ones, never changes, and delivers exactly the build last handed in. `CreateUpdate!ImplementsRelease` maps `image/<v>/` to the build handed in and the published manifests, as a client reads them, to what is released. |
| `MCCreateUpdate` | the scenarios TLC explores |
| `RenameSearch`, `MCRenameSearch` | `rename_detection`, `final_link` and `clean_renames` step by step. EXTENDS `ManifestOps`, whose closed forms `CreateUpdate` uses for the same code; the property `AsInManifestOps` ties the two together. |
| `RenameChoice` | the abstract specification of the search: pair the two files that resemble each other most among those still alone, until no two do enough. `RenameSearch!ImplementsChoice` is the refinement. |
| `Packs`, `MCPacks` | several `swupd_make_pack` at once, each with its threads, on the manifests of finished releases. EXTENDS `ManifestOps`: the manifests of its instances are made by the operators `CreateUpdate` makes them with. |
| `Fullfiles`, `MCFullfiles` | `swupd_make_fullfiles`: deduplication, the pool, every tar and rename, death and restart |
| `PipeMonitor` | `system_argv_pipe_fd` and the kernel's pipe, and the proof about it |
| `ManifestOpsProofs`, `CreateUpdateProofs`, `HistoryProofs`, `ReleaseProofs`, `RenameSearchProofs`, `PacksProofs`, `FullfilesProofs` | the theorems of section 5. Each of the first four EXTENDS the one before it. |

### State and actions of `CreateUpdate`

`lastVer`, `image`, `chroot`, `www`, `wwwFull` and `wwwMoM` are the files of the
state directory, and `legible` is what can be read of those of them that are torn; `pc`, `nv` (`newversion`), `gi` (`groupcursor`), `newFull`, `oldM`
and `newM` are the variables of `main`. `published` is a history variable, `plan`
picks the scenario a history belongs to, `aborts` bounds failures.

| actions | `create_update.c` |
|---|---|
| `Start` | the caller prepares the chroots; options up to phase 1 |
| `CreateFullChroot`, `CreateFullManifest` | phase 1 |
| `FormatTooOld`, `MatchCore`, `CoreUnchanged`, `CoreTypeChange`, `CoreChanged`, `WriteCore` | phase 2, os-core |
| `LoadBundles`, `SkipCore`, `IncludesUnresolvable`, `MatchBundle`, `BundleUnchanged`, `BundleTypeChange`, `BundleChanged`, `WriteBundle` | phase 3 and its loop |
| `WriteMoM`, `WriteFull` | phases 4 and 5, which maximizes, cleans and prunes full before it writes it |
| `OldUnreadable` | nothing is legible of an old manifest: the run dies reading it |
| `Publish`, `GiveUp` | the caller |
| `Crash`, `CrashInChroot`, `CrashInWrite` | the process dies, between two steps, in rsync, in a write |

A step reads memory of the run and files nobody else writes, so a step of the
model may hold many statements; it is cut wherever a file is written, wherever
the run may leave early, and at each turn of the bundle loop.

### State and actions of `RenameSearch`

`files` is the new manifest, `newFiles` and `deletedFiles` the two lists of the
search, `score` and `peer` the fields `rename_score` and `rename_peer` of each file,
`walk` what `final_link` has still to visit.

| actions | `rename.c` |
|---|---|
| `ListFiles`, `ScoreAll` | the lists and the first scores |
| `Skip`, `Redo`, `Link`, `EndSearch` | one turn of the loop: a candidate that is too weak, one that somebody else took (`goto redo`), one that is linked |
| `ListRenamed`, `FinalLink`, `CleanRenames` | `clean_renames`: the list of renames, one turn of the outer loop of `final_link`, the loop that drops orphans |

### State and actions of `Packs`

`deltas` and `dots` are the files below `www/<v>/delta/`, which all processes share;
`pc`, `staged` and `packs` belong to a process, `at` to its threads.

| actions | `make_packs.c`, `pack.c`, `delta.c` |
|---|---|
| `Start` | `prepare_pack`, its early end, and the list of deltas to make |
| `Diff`, `NoDiff`, `Diffed`, `NotDiffed`, `Verify`, `VerifyFails`, `Publish` | `__create_delta` in one thread, from the dotfile to the rename |
| `Stage` | `make_pack_full_files` and the loop of `make_final_pack`, once all threads are back |
| `Open`, `Tar` | the pack is opened under its name, then completed or left torn |
| `Die` | the process, with all its threads |

### Abstractions

* A torn manifest is `Torn`, and `legible` holds what `manifest_from_file` makes of
  what is left (`ManifestCuts`, `MoMCuts`). Almost any cut reads as a shorter manifest,
  and the run goes on with it: the header may end anywhere (`manifest.c:164`), the list
  after any line (206), the line that was cut is dropped (278-306) or, if the cut is in
  its name, taken with a shorter name. A run fails only on an empty file, a cut MANIFEST line,
  a header line before its tab, or an entry within its flags; such a file has nothing
  legible. Left out: a name cut to one that was already read, which would be listed
  twice, or in a MoM to that of another bundle; a name cut to a path of another class. A
  manifest and its .tar are one file. The tars are made when the MoM is
  written, so a tar that fails there is a `CrashInWrite` of the MoM.
* Nobody looks at what `fprintf` and `fclose` return (`manifest.c:750-843`). On a full
  disk a manifest may be cut short, the run goes on and exits with success. The model's
  writes succeed or end the run: what it shows of published releases and of success is
  for disks that are not full.
* What `rename_detection` pairs depends on scores; every injective choice is
  explored. `final_link` is given in closed form (`HasRenamePeer`).
* `includes` are sets. The program compares them as lists; both lists have been
  through the same sorting and reversing, so they differ only when the sets do.
* A chroot that is given as a list of names (`<bundle>.content.txt`,
  `analyze_fs.c:388`) with a `full` the caller has populated is the same build as
  one given as directories; the model has the latter. Scans succeed.
* The program never acts on `is_state`; it is left out. So are contentsize, log
  lines and the text format.
* A bundle that never held anything has version 0 and an `Md` line in the MoM.
* `type_change_detection` is modelled before `remove_deprecated_files`, which
  only removes deleted entries, so the order does not matter.
* os-core has no includes file of its own (every other bundle includes os-core without
  saying so). For a bundle that names os-core in its includes file the code subtracts a
  second, raw scan of os-core as well (`create_update.c:440`); the model subtracts
  `new_core` only. The two differ for a boot directory that became a ghost, which is
  what `BootDir` is about, and for nothing else.
* Group names are unique; each build is
  consistent (two bundles that ship a path ship the same node); version numbers
  are above LAST_VER. These are the caller's duties.
* `Fullfiles` leaves out the hard link `empty/<hash>`, private to a hash, and
  takes two steps per tar, opened and completed.
* In `RenameSearch` how much two files resemble each other is data: `rename_score`
  looks at names, sizes and types only. Where the code takes the first of several
  equally good candidates in its list, the model takes any.
* In `Packs` the delta library is external. It opens the dotfile as a new file and
  fails if there is one (`manifest.c:1142` calls that having raced, and the code
  relies on it: the dotfile is private to one thread until it is renamed). A
  delta may be made and not do what it should, which is why the code compares.
  Sizes, by which a delta or a whole file is chosen, are left to chance, and so is
  whether the deltas of the manifests could be made. One process at a time
  makes one pack; different packs are made at once, as `basic_creator.sh:37` does.
  `plan.image` says whether the images are still there, `plan.tars` in which state each
  hash's fullfile is: missing, empty, torn or whole. A directory's may be empty or torn,
  because it is written in place (`FullTorn`); a file's is whole or missing
  (`FilesWhole`). An empty one keeps its file from being linked (`pack.c:383`), a torn one
  cannot be unpacked, and `PackComplete` counts neither as something to pack from. Boot
  files that were renamed and became ghosts are left out by `PacksAssumption`.
* In `PipeMonitor` a command writes all it has or reads to the end of its input;
  it may fail at any time.

## 3. The runs

Passing runs:

| run | instance | what it shows |
|---|---|---|
| `Releases` | os-core, lib, app; three releases; a path that moves among all three while app does or does not include lib, with app before or after lib in groups.ini; or three files of app that come, go and change with rename detection; or boot files, or a config path, in a stateless OS; or formats, `--minversion` and banned debuginfo that vary from release to release | `UpdateSound`, `DeletionsRecorded`, `Downloadable`, `RenamesPaired`, `PlainTombstonesZero`, `GhostsLastOneRelease`, `TombstonesOfOwnFormat`, `ImplementsRelease` |
| `Crashes` | one run dies anywhere, a write being cut at any place, is turned down because a directory became a file, or succeeds and is discarded; the version is repeated or skipped | `TypeOK`, `PublishedIntact`, `Downloadable`, `ReleasesImmutable`, `ImplementsRelease` |
| `BasicCreator` | two failures under `basic_creator.sh`, which publishes what they leave, so that later runs read manifests cut at any place; an include of itself, or of a bundle that is not there | `SuccessMeansWhole`, `RunEnds` |
| `FullPacked` | two threads, two formats, one death, five manifests with equal files, tombstones and ghosts | `TypeOK`, `FilesWhole`, `OneThreadPerHash`, `EverythingPacked`, `CompleteStaysComplete`, `PoolDrains` |
| `RenameSearch` | three new files against two or three deleted ones, with every combination of scores around the limits; up to four renames of an older release, deleted or not, next to one that is found | `TypeOK`, `NobodyMissesOut`, `AsInManifestOps`, `ImplementsChoice`, `SearchEnds` |
| `Packs` | the packs of every history of two releases and three paths with renames, and of three releases and two paths that become directories; first packs; missing images, and fullfiles that are missing, empty, torn or whole; two packs from different releases that share a delta, made at once, each started twice | `TypeOK`, `DeltasWhole`, `PackComplete`, `PackersEnd` |
| `Pipe` | five chunks through a pipe of two | `SuccessMeansCopied`, `NobodyHangs` |

Runs that show the code at odds with its own comments (each is a finding in
`PROJECT.json`):

| run | what happens |
|---|---|
| `BootDir` | a ghost in os-core takes a live boot directory out of a bundle (`manifest.c:596`) |
| `QuietCore` | a run whose only business in os-core is retiring a ghost gives up (`create_update.c:421`) |
| `StaleChroot` | a rerun takes a partial full chroot for the union of the build (`chroot.c:42`) |
| `BannedDebuginfo` | a bundle whose only change is that its debuginfo was banned keeps the manifest that lists it (`create_update.c:551`) |
| `FullTorn` | a partial tar of a directory is taken for a finished one (`fullfiles.c:63`) |

The passing instances stay clear of these by construction of their inputs: `Releases`
gives os-core a file that differs in every release (`/usr/lib/os-release` does) and
ghosts that are regular files; `Crashes` and all runs but `StaleChroot` and
`BasicCreator` let the caller remove `image/<v>/full` before a rerun
(`CleanRerun`); what a release with banned debuginfo delivers is compared without
debuginfo; and `EverythingPacked` exempts directories a dead process left.

One more disagreement is outside the runs. A comment says of ghosts that "these will be
cleaned up with the next update" (`manifest.c:1080`), and there is a history in which one
stays a second release. When a bundle begins to include another one in the release in which a boot file goes away
from both, both get a ghost; in the next release the including bundle's ghost is
subtracted, because a ghost is not deleted and the other one covers it
(`manifest.c:596`), so that bundle looks unchanged and keeps the manifest with the
ghost for one more release. `GhostsLastOneRelease` is checked on histories in which
no include begins just then.

Four things happen that no comment speaks about:

* Pruning a renamed file of `/etc` (`create_update.c:549`) comes after the orphaned
  renames were cleaned and orphans its tombstone, which keeps flag and hash. The
  scenarios of `Releases` let renames happen outside the pruned paths: `RenamesPaired`
  holds there, and says nothing of the order of cleaning and pruning.
* `make_pack` ignores what `make_final_pack` returns (`pack.c:531`), so a pack that tar
  left torn is reported as a success; `PackComplete` is about packs that are whole.
* A dotfile nobody removed (`delta.c:82`, the unlinks are commented out) keeps that
  delta from ever being made again; the packs then bring the whole file.
* `make_pack` looks for the manifest of the starting release in that release itself
  (`make_packs.c:150`). A bundle that did not change in it has none there, so no pack is made
  and the process reports success (`NothingToPack`).

`PublishedIntact` and all that rests on it are for a caller that looks at the exit
status (`CheckExit`). `BasicCreator` has the script's behaviour, `CheckExit = FALSE`. There
a version whose Manifest.full is missing gets published, so `PublishedIntact` is false,
and no run checks it. The run shows that later runs end all the same, and that one of them
that succeeds has written whole what its own MoM dates to it.

### Bounds and why they are enough

* **Three releases.** Ageing takes two steps (deleted, then ghosted or retired;
  new in one bundle, then old in full), so a wrong copy is visible in the third
  release, and a client of the first sees the last across a gap.
* **Three bundles** are os-core, an included and an including bundle: the three
  roles subtraction distinguishes. Two orders of groups.ini put the including
  one first and last.
* **One or a few paths that vary.** Operations act path by path, but for renames
  (three paths: a target, two sources) and the counts that decide whether a
  manifest is written (os-release, or a second file).
* **One abort** (`MaxAborts = 1`) in `Crashes`: a run reads only what is published, or
  its own version's directory, so a second crash finds nothing a first one did not
  leave; three versions leave room for the rerun and the release after it. **Two** in
  `BasicCreator`, one to tear the release that is published and one for the run that
  reads it; two versions are enough for that.
* **Two nodes** for a path, a third kind where types matter.
* **Two threads, two formats, one death** in `FullPacked`: a race needs two
  threads, "the smallest" needs a choice, and a second death finds only the
  kinds of leftovers the first one left.
* **All manifests of up to four entries** over ten kinds of entry, some 11,000, are
  checked by `SmallTasks` in `MCFullfiles` for what the proofs assume of the
  deduplication.
* **Three against three** in `RenameSearch`: a file loses its candidate, takes a
  second, loses that, and takes a third or none. With two sources all scores
  from below `MinScore` to three levels above it, with three two levels. Four
  carried renames make two pairs, or a group of one against three.
* **Two packs, two starts each** in `Packs`: a delta has one owner or two; a second
  start finds every leftover of the first. Three releases give a file that did not
  change, one that changed once, and one that changed twice between the ends.
* **Capacity 2, five chunks** in `Pipe`: the writer can be blocked on a full
  pipe, and the reader on an empty one, with something still to come.

`CHECK_DEADLOCK FALSE` is set because the systems stop: after `MaxVersion`
releases, when the pool has drained, when the monitor has exited.

### Fairness

`CreateUpdate!FairSpec` is weak fairness of the program's own steps; nothing makes
the caller start it, publish, or crash it. `Fullfiles!FairSpec` is weak fairness of
the main thread and of each thread, which the scheduler gives; nobody has to
restart a dead process. `RenameSearch!FairSpec` lets a sequential program go on.
`Packs!FairSpec` is weak fairness of each process that runs; no pack has to be
started, and a process may die at any time. Each step of a process or its threads
takes its work forward, so fairness of all of them together is enough. `PipeMonitor!FairSpec` is weak fairness of each process;
nothing has to fail.

## 4. The properties

* `UpdateSound`: an entry that is not newer than the client's release says what
  the client already has. `DeletionsRecorded`: a file that goes away is on record
  as deleted or ghosted, newer than the client, within one format.
* `Downloadable`: each live entry is, by hash and `last_change`, a live entry of
  that release's Manifest.full, which is what `make_fullfiles` packs.
* `PublishedIntact`, `ReleasesImmutable`: no dangling or torn reference; no step
  touches what clients download. `SuccessMeansWhole`: exit status 0 means that the run has
  written whole all that its MoM dates to its version, and the full manifest, whatever
  torn releases it was built on.
* `ImplementsRelease`: the refinement of `Release`, through crashes and reruns. This and
  `ReleasesImmutable` rest on the caller's duties: versions go up, and in the first
  case `image/<v>/full` is emptied before a rerun.
* `GhostsLastOneRelease`, `TombstonesOfOwnFormat`, `RenamesPaired`,
  `PlainTombstonesZero`: what the comments promise of the ageing of entries.
  `TombstonesOfOwnFormat` is about the format of the manifest that is in force: a
  manifest written after a bump has no tombstones from before it, but a bundle that does
  not change at the bump keeps its manifest, of the old format and with the old
  tombstones.
* `RunEnds`, `PoolDrains`, `NobodyHangs`, `SearchEnds`, `PackersEnd`: progress.
* `NobodyMissesOut`: no new and deleted file that resemble each other enough are both
  left with something worse. `ImplementsChoice`: the search refines the greedy choice.
  `AsInManifestOps`: search, `final_link` and `clean_renames` together give what
  `CreateUpdate` takes in one step.
* `DeltasWhole`: a delta under its final name turns the old file into the new one,
  whoever else made it, failed to, or died. `PackComplete`: a client with the old
  release and the pack has every file of the new one, but for what has neither an image
  to link nor a tar that was written to its end.
* `FilesWhole`, `OneThreadPerHash`, `EverythingPacked`, `CompleteStaysComplete`:
  the pool races with nobody but a death, and loses nothing.
* `SuccessMeansCopied`: no failure looks like a short stream.

For each property `PROJECT.json` names a plausible bug ("mutant") that breaks it.

## 5. What is proved

For all values of the constants, under the named assumptions `PathAssumption`,
`UpdateAssumption`, `SearchAssumption`, `PacksAssumption`, `FullfilesAssumption`,
`TasksAssumption` and `PipeAssumption` (versions are a finite range, the
classes of paths are paths, groups are unique and contain os-core, the special
values differ from real ones, manifests are dated as `CreateUpdate` leaves them, a
pipe holds at least one chunk):

* `CreateUpdateProofs!TypeCorrect`: `Spec => []TypeOK`. The inductive invariant
  `TypeInv` adds `StepOK`: a run in progress has a version above LAST_VER whose
  input and chroot are there when they are read, and its cursor is within the
  groups. `ManifestOpsProofs` supplies one lemma per operation: it maps file
  lists to file lists with versions in range. The versions are the point: what is
  written is always something a later run can read.
* `CreateUpdateProofs!ReleasesIntact`: `CheckExit => (Spec => []PublishedIntact)`.
  `PublishedIntact` is not inductive: the MoM takes its references from memory,
  which took them from an older MoM. `IntactInv` follows a reference on its way:
  `Sound` references of the old MoM are those to whole published manifests;
  every new manifest in memory is dated `nv` or is sound; those the loop has
  finished with are sound or written whole below `www/<nv>` (`Settled`); the MoM
  lists settled references only; and publishing `nv` makes them sound. All
  writes go below `www/<nv>`, and `nv` is above everything published.
* `CreateUpdateProofs!PublishedNeverChanges`: `CheckExit => (Spec => ReleasesImmutable)`,
  from the same invariant.
* `CreateUpdateProofs!SuccessWhole`: `Spec => []SuccessMeansWhole`, for any caller, also
  `basic_creator.sh`. The argument must do without intact releases. `DatesOK` says that
  nothing below `www/<v>`, nor what is legible of it, claims to be newer than v; hence
  what a run reads is older than the run, and a new manifest that is dated `nv`
  was written by the run itself, whole (`RunDates`, `RunWrites`).
* `HistoryProofs`: `UpdatesSound` (`CheckExit => (Spec => []UpdateSound)`),
  `FormatsForget` (`TombstonesOfOwnFormat`), `TombstonesPlain`
  (`PlainTombstonesZero`), and for a caller that also empties `image/<v>/full` before a
  rerun `ReleasesDownloadable` (`Downloadable`) and `UnionComplete` (`FullIsUnion`,
  which needs `CleanRerun` only). None is inductive: what a release says is the result
  of a run, and what the run says depends on the release before. `HistoryInv` follows
  a bundle through the run. `Prior` is the manifest in force as the run reads it;
  after each step of the loop the list in memory `Descends` from it, entry by entry (an
  entry is dated `nv`, or is an entry of the old list, or the plain tombstone of one);
  `MatchedWell`, `Ready` and `Final` say it of a list that is matched, completed and
  done with; `Released` of the file on the disk. There is one lemma per list operation.
  With it an entry that is not newer than an old release leads back, release by
  release, to what that release says. `Sourced` and `FullListOK` tie each new entry to
  the full list that is written last, which is where a fullfile comes from;
  `ChrootOK` says the full list is of this build's union, false when a stale union
  is left (run `StaleChroot`).
* `HistoryProofs!DeletionsOnRecord`: `CheckExit => (Spec => []DeletionsRecorded)`. Here
  a list must not lose entries either. The hard part is the subtraction of what a
  bundle includes, on the old side as on the new: if an old entry that is in force
  were subtracted away, its file would vanish without a tombstone. `NothingTwice` says
  that cannot be: what a bundle lists in a release, the bundles it includes do not list
  as well. It is kept in whichever order `groups.ini` has the bundles, although lists
  are subtracted that are raw for some and finished for others, and although some
  fall back to the old version (`Separated`, `FinalKept`). `Recalls` says that a
  list has an entry for all of the old one, `Knows` that it has no other tombstones.
* `ReleaseProofs!Refinement`: `Spec => ImplementsRelease`, the refinement of `Release`, and
  `BuildsDelivered`, `Spec => []ReleasesDeliver`, which says path by path what a release
  delivers. Both are for a caller that looks at the exit status and empties
  `image/<v>/full` before a rerun (`CheckExit`, `CleanRerun`). `Refinement` supposes
  `Firmly(p)` of all paths: debuginfo is banned by no build, and where boot files live
  there are only files. `BuildsDelivered` says its piece for the paths of which that is
  true, whatever holds for the others. Neither can be spared: `BootDir` is a
  counterexample for one, and under a ban a bundle may keep the manifest that lists
  debuginfo (`BannedDebuginfo`) and lose it without a tombstone once that manifest is
  replaced.
  `ReleaseInv` is two invariants on top of `DeletionInv`. Soundness: what a list in
  memory installs is of this build, by kind and by hash (`TrueTo`), and a bundle that
  falls back to its old manifest had the same there (`Repeats`, `FinalShown`); `HashesOK`
  ties the hashes to the union. Completeness: `Brings(b)`, all of b's build is installed by
  b or by something it includes. It holds of the raw scans when they are loaded, and
  each step of the loop hands on what it takes out (`HandedOn`): what is subtracted
  from a bundle is in one it includes, or in one which that includes if that has been
  subtracted from before. `IncludesOK` keeps the closures of the lists in memory those of the
  build, although os-core is added to some and not yet to others. Each action of a
  run has its lemma; `PublishReleases` then shows that publishing is a `Publish` step
  of `Release`, `StartGives` that a start is a `Give`, `OtherSteps` that the rest stutters.
* `ReleaseProofs!RenamesStayPaired`: `CheckExit /\ NothingPruned => (Spec => []RenamesPaired)`.
  A rename flag has a partner of the other kind, with the same hash of both, in the same
  manifest. `NothingPruned` says that no build has what `prune_manifest` takes away (boot
  files, configuration of a stateless OS, debuginfo under a ban): it runs after
  `clean_renames` and may take one end of a pair (section 3). The argument: if
  `clean_renames` leaves a flag it leaves a partner's as well (`CleanedPairs`), renames
  found in this run have both ends in the list (`LinkedPairs`), and what is in force is an
  old manifest or a list that was completed (`PairsOK`).
* `ReleaseProofs!GhostsGoAfterOneRelease`: `CheckExit /\ CleanRerun /\ BootFilesOnly /\
  IncludesSettled => (Spec => []GhostsLastOneRelease)`. `BootFilesOnly` says that where boot
  files live builds have only files; `IncludesSettled` that no bundle begins to include
  one with which it had a boot file in common in an earlier version. Without the
  second the property is false, as section 3 tells, and TLC finds that history; the
  scenarios of `Releases` satisfy both. The argument is `GhostsOK`: what is a ghost in a
  release was live in the same bundle one release before (`GhostsFresh`), so the same entry
  cannot be a ghost twice without the file in between. That needs every ghost of an
  old list to be compared: it is gone then, or the file is new, and either is a change
  that is written (`GhostsMatched`, `GhostsWorthWriting`). What could hide a ghost from the
  comparison is the subtraction of an included bundle. Only another ghost covers it
  there; both would be fresh, so one release earlier both files were live in the two
  bundles, one of which included the other, and no release lists anything twice
  (`NoSharedGhosts`, `NoGhostLost`).
* `PipeMonitor!StreamComplete`: `Spec => []SuccessMeansCopied`, from `PipeInv`:
  written chunks are in the pipe or read; as long as the left command lives it
  holds the write end; so the right one can only see the end of its input when
  the left one is gone.
* `RenameSearchProofs`: `SearchTypeCorrect` (`TypeOK`), `NobodyMisses`
  (`NobodyMissesOut`), `SearchImplementsChoice` (`ImplementsChoice`), for any number
  of files and any scores. `SearchInv` says that a source is free until it is
  somebody's and is never given away again (`Free`), that a cached score is that of
  the cached candidate and no free source is better (`Cached`), that the search is
  through with a file only when it is linked or resembles no free source
  (`Decided`), and that who is linked has no better free source and was the best
  for its own (`BestFirst`). The free sources only get fewer; that is why a score
  that was cached long ago is still an upper bound, and why the head of the list,
  when its candidate is free, is the best pair that can be made.
  `SearchAsInManifestOps` (`AsInManifestOps`) needs a second invariant, `LinksInv`, of how
  far the files have come from the closed form: until `clean_renames` only the pairs
  that were made differ from the files that came in (`FilesLinked`), and final_link, when
  it has come as far as `walk`, has linked exactly those whom the part of the
  closed form behind it says (`Walked`, `Reached`). A step of final_link overwrites the
  peers of all later partners, and yet it suffices to look at the first file of a
  group that was in no pair: it links all its partners, and a file of its own side
  is linked when a partner follows it. That first file exists because paths are naturals
  (`LeastNatural`).
* `PacksProofs`: `PublishedDeltasWhole` (`DeltasWhole`), `PacksComplete`
  (`PackComplete`), for any manifests, any number of packs and any state directories'
  tars are in, and `PackTypeCorrect` (`TypeOK`) for manifests whose live files
  have hashes (`LiveFilesHashed`, which TLC evaluates for the plans of the run): a tombstone
  is never packed as a file. `DeltasWhole` rests on `OneHolder`: from its creation on a
  dotfile belongs to one thread of one process, so that what was compared is what
  is renamed. `PackComplete` rests on `StageOK`, which follows a pack from the list
  of deltas to the tar, and on the lemmas that say what `Matched` does to an entry
  whose date is not newer than the starting version.
* `FullfilesProofs`: `PoolTypeCorrect` (`TypeOK`), `ThreadsApart` (`OneThreadPerHash`),
  `FilesNeverTorn` (`FilesWhole`), `FinishedMeansPacked` (`EverythingPacked`),
  `WholeStaysWhole` (`CompleteStaysComplete`), for any manifest and any number of
  threads and formats. `PoolInv`: the tasks still to be pushed, queued and in
  the hands of a thread have all different hashes (`BacklogOnce`); what is wanted is
  packed or is one of them (`Covered`); a half written archive has a thread that
  writes it, or a death behind it (`PartsExplained`). That the list main pushes has
  one entry per hash is `TasksAssumption`: it is the value of a fold, which the
  provers cannot evaluate; TLC does, for the manifests of the run and for all
  manifests of up to four entries (`SmallTasks`).

The inductive invariants were model-checked on the instances of the runs before
they were proved.

Every invariant and every action property of the passing runs is proved, under
the hypotheses named above. Only model-checked: liveness under fairness, which with
ENABLED is out of the prover's reach (`RunEnds`, `PoolDrains`, `SearchEnds`, `PackersEnd`,
`NobodyHangs`). Induction over data is out of reach too, hence what folds return.

## 6. What is not modelled, and the plan

Done, in this order: the manifest operations; the run and its caller; the
abstract `Release`; type correctness; integrity of what is published; fullfiles;
pipes; the rename search, its abstract choice and their proofs; packs and deltas
and their proofs; the proofs about fullfiles; the contents of the manifests and
what becomes of them from release to release; the refinement of `Release`; the
closed forms of the rename search; renames in pairs; ghosts of one release.

Not modelled, for good:

* `versions.c`: it reads and writes one number. The list `get_last_versions_list`
  makes goes to `create_update.c:393`, which uses it for nothing.
* `stats.c` (counters that are printed), `xattrs.c` (a comparison of bytes; its
  outcome is one of the reasons for `Packs!NoDiff`), `config.c`, `globals.c` and
  `log.c` (settings and log lines), the text formats.
* `check_group_file` (`create_update.c:221`), which makes sure that os-core is in
  groups.ini: `UpdateAssumption` says so.
* `consolidate_submanifests`, `recurse_manifest`, `create_manifest_deltas` and
  `previous_version_manifest`, which nothing calls, or whose result nothing uses.
* The build files and the shell tests, which were read for what they promise.
