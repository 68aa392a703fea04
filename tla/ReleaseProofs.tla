----------------------------- MODULE ReleaseProofs -----------------------------
(***************************************************************************)
(* The program and its caller implement Release, for all builds: what is   *)
(* published delivers with each bundle exactly what the build has for it,  *)
(* and nothing changes it any more.  The caller looks at the exit status   *)
(* and empties the union before a rerun; what is said of a file supposes   *)
(* that no ban and no ghost interferes with it.                            *)
(*                                                                         *)
(* Soundness follows the lists of a run: what is live is of this build, by *)
(* kind and by hash, and a bundle that falls back to its old manifest had  *)
(* the same there.  Completeness follows the build: a file that is taken   *)
(* out of a bundle is in one it includes, whatever becomes of that one     *)
(* later in the loop.                                                      *)
(*                                                                         *)
(* Two sections at the end are about renames and ghosts: where nothing is  *)
(* pruned, a file that says it is one end of a rename has its other end    *)
(* beside it; and what is a ghost in a release is none in the next.        *)
(***************************************************************************)
EXTENDS HistoryProofs

\* A path that no ban and no ghost interferes with: debuginfo only if no build
\* bans it, and where boot files live only files.
Firmly(p) ==
    /\ p \in DebugPaths => ~Bans
    /\ p \in BootPaths =>
          \A inputs \in Inputs : \A v \in Version : \A in \in inputs[v] : \A b \in Bundle :
              p \in DOMAIN in.img[b] => KindOf[in.img[b][p]] = "F"

\* What is live in g is live in f, and the same.
Selects(g, f) ==
    \A p \in LivePaths(g) :
        p \in LivePaths(f) /\ g[p].kind = f[p].kind /\ g[p].hash = f[p].hash

\* What f installs was installed by the old list o, with the same hash.
Repeats(o, f) ==
    \A p \in LivePaths(f) : p \in LivePaths(o) /\ o[p].hash = f[p].hash

\* f says of the build of b what is true.
TrueTo(f, b) ==
    \A p \in LivePaths(f) : /\ p \in DOMAIN Run.img[b]
                            /\ f[p].kind = KindOf[Run.img[b][p]]
                            /\ f[p].hash = FullChroot(Run)[p]

\* What is neither deleted nor installed is the ghost of a boot file.
GhostsKnown(f) ==
    \A p \in DOMAIN f : ~f[p].deleted /\ ~Live(f[p]) => p \in BootPaths /\ f[p].kind = "."
-----------------------------------------------------------------------------
(* The invariant *)

\* The build of b is delivered with it, by b or by what it includes.
Brings(b) ==
    \A p \in DOMAIN Run.img[b] \ Withheld(Run) : Firmly(p) =>
        \E d \in {b} \cup Reach(AllIncludes(newM), b) : p \in LivePaths(newM[d].files)

\* The stages of a bundle.
Shown(b) == TrueTo(newM[b].files, b) /\ GhostsKnown(newM[b].files)

MatchedShown(b) == Shown(b) /\ (~changed => Repeats(Prior(b).files, newM[b].files))

FinalShown(b) ==
    /\ Shown(b)
    /\ newM[b].version # nv =>
          /\ Repeats(Prior(b).files, newM[b].files)
          /\ b # Core => newM[b].includes \subseteq Prior(b).includes \cup {Core}

\* All bundles have a new manifest in memory.
Complete == InLoop \/ pc = "mom" \/ Written

HashesOK ==
    Listing => \A p \in LivePaths(newFull.files) :
                  newFull.files[p].hash = FullChroot(Run)[p]

IncludesOK ==
    /\ Complete => \A b \in Groups \ {Core} :
                      newM[b].includes \cup {Core} = Run.inc[b] \cup {Core}
    /\ \A b \in Compares \ {Core} : Reach(AllIncludes(newM), b) \subseteq Groups

StagesShown ==
    /\ pc = "coreMatched" => MatchedShown(Core)
    /\ pc = "writeCore" => Shown(Core)
    /\ pc = "bundleMatched" => MatchedShown(Current)
    /\ pc = "writeBundle" => Shown(Current)
    /\ \A b \in Through : FinalShown(b)

BringsOK ==
    /\ pc \in {"coreMatched", "writeCore", "load"} => Brings(Core)
    /\ Complete => \A b \in Groups : Brings(b)

\* A release delivers its build.
Delivers(v) ==
    /\ image[v] \in Input /\ Listed(v) = Range(image[v].groups)
    /\ \A b \in Listed(v) : \A p \in Path : Firmly(p) =>
          /\ p \in DOMAIN Delivered(v, b) <=> p \in DOMAIN Built(image[v], b)
          /\ p \in DOMAIN Delivered(v, b) => Delivered(v, b)[p] = Built(image[v], b)[p]

BootKinds(v) ==
    \A b \in Listed(v) : \A p \in LivePaths(InForce(v, b).files) \cap BootPaths :
        Firmly(p) => InForce(v, b).files[p].kind = "F"

ReleasesDeliver == \A v \in published : Delivers(v)

BuildsOK == ReleasesDeliver /\ \A v \in published : BootKinds(v)

ReleaseInv == HashesOK /\ IncludesOK /\ StagesShown /\ BringsOK /\ BuildsOK
-----------------------------------------------------------------------------
(* The lists *)

\* match_manifests changes nothing of what is there, and if it finds no change it
\* was there before.
LEMMA MatchedShows ==
    ASSUME NEW o, NEW old, NEW new, NEW v, NEW minversion,
           IsFileList(old), IsFileList(new), Orderly(o), Part(old, o), RawList(new, v)
    PROVE  LET f == Matched(old, new, v, minversion)
           IN  /\ LivePaths(f) = DOMAIN new /\ Selects(f, new)
               /\ GhostsKnown(f)
               /\ ChangedPaths(old, new, minversion) = {} => Repeats(o, f)
  <1> DEFINE f == Matched(old, new, v, minversion)
  <1>1. DOMAIN f = DOMAIN old \cup DOMAIN new
    BY DEF Matched
  <1>2. ASSUME NEW p \in DOMAIN old, p \notin DOMAIN new
        PROVE  f[p].deleted
    BY <1>2 DEF Matched, Tombstone
  <1>3. ASSUME NEW p \in DOMAIN new
        PROVE  /\ Live(new[p]) /\ Live(f[p]) /\ ~f[p].deleted /\ f[p].kind = new[p].kind
               /\ f[p].hash = new[p].hash /\ new[p].kind # "."
    <2>1. new[p] \in Entry /\ Live(new[p]) /\ new[p].kind # "."
      BY DEF IsFileList, RawList
    <2>2. \/ f[p] = new[p]
          \/ f[p] = [new[p] EXCEPT !.last = old[p].last, !.rename = old[p].rename]
      BY DEF Matched
    <2> HIDE DEF f
    <2>3. QED
      BY <2>1, <2>2 DEF Entry, Live
  <1> HIDE DEF f
  <1>4. LivePaths(f) = DOMAIN new
    BY <1>1, <1>2, <1>3 DEF LivePaths, Live
  <1>5. Selects(f, new)
    BY <1>3, <1>4 DEF Selects, LivePaths
  <1>6. GhostsKnown(f)
    BY <1>1, <1>2, <1>3 DEF GhostsKnown
  <1>7. ASSUME ChangedPaths(old, new, minversion) = {}
        PROVE  Repeats(o, f)
    <2>1. SUFFICES ASSUME NEW p \in DOMAIN new
                   PROVE  p \in LivePaths(o) /\ o[p].hash = f[p].hash
      BY <1>4 DEF Repeats
    <2>2. p \in DOMAIN old /\ Unchanged(old[p], new[p], minversion)
      BY <1>7 DEF ChangedPaths
    <2>3. p \in DOMAIN o /\ old[p] = o[p]
      BY <2>2 DEF Part
    <2>4. o[p].hash = new[p].hash /\ o[p].kind # "." /\ ~o[p].deleted
      BY <1>3, <2>2, <2>3 DEF Unchanged, SameContents, Live
    <2>5. ~o[p].ghosted
      BY <2>3, <2>4 DEF Orderly
    <2>6. QED
      BY <1>3, <2>3, <2>4, <2>5 DEF LivePaths, Live
  <1>8. QED
    BY <1>4, <1>5, <1>6, <1>7 DEF f

\* Completing a list takes from it only what the options of the build withhold.
LEMMA CompletedShows ==
    ASSUME NEW o, NEW n, IsManifest(o), IsManifest(n),
           NEW m \in RenameMatchings(o.files, n.files, nv)
    PROVE  LET f == Completed(o, n, m)
           IN  /\ Selects(f, n.files)
               /\ LivePaths(n.files) \ Withheld(Run) \subseteq LivePaths(f)
  <1> DEFINE linked  == RenamesLinked(n.files, m)
             bumped  == Bumped(o, linked)
             kept    == WithoutOldGhosts(o.files, bumped)
             cleaned == RenamesCleaned(kept, m)
             f       == Pruned(cleaned, Run.ban)
  <1>0. f = Completed(o, n, m)
    BY DEF Completed
  <1>1. IsFileList(o.files) /\ IsFileList(n.files)
    BY ManifestType
  <1>2. IsFileList(linked) /\ Echoes(linked, n.files)
    BY <1>1, RenamesLinkedType, LinkedHistory
  <1>3. DOMAIN linked = DOMAIN n.files
        /\ \A p \in DOMAIN linked : linked[p].kind = n.files[p].kind
    BY <1>1, SameEntries
  <1> HIDE DEF linked
  <1>4. Part(bumped, linked) /\ IsFileList(bumped) /\ LivePaths(linked) \subseteq DOMAIN bumped
    <2>1. CASE bumped = WithoutOldTombstones(o.files, linked)
      <3>1. Part(bumped, linked) /\ IsFileList(bumped)
        BY <1>2, <2>1, DropsPart, WithoutOldType
      <3>2. QED
        BY <2>1, <3>1 DEF WithoutOldTombstones, Restrict, LivePaths, Live
    <2>2. CASE bumped = linked
      BY <1>2, <2>2 DEF Part, LivePaths
    <2>3. QED
      BY <2>1, <2>2 DEF Bumped
  <1> HIDE DEF bumped
  <1>5. Part(kept, bumped) /\ IsFileList(kept) /\ LivePaths(bumped) \subseteq DOMAIN kept
    BY <1>4, DropsPart, WithoutOldType DEF WithoutOldGhosts, Restrict, LivePaths, Live
  <1> HIDE DEF kept
  <1>6. IsFileList(cleaned) /\ Echoes(cleaned, kept) /\ DOMAIN cleaned = DOMAIN kept
    BY <1>5, RenamesCleanedType, CleanedHistory
  <1>7. \A p \in DOMAIN cleaned : cleaned[p].kind = kept[p].kind
    BY <1>5, SameEntries
  <1> HIDE DEF cleaned
  <1>8. \A p \in LivePaths(f) : p \in LivePaths(cleaned) /\ f[p] = cleaned[p]
    <2>1. SUFFICES ASSUME NEW p \in LivePaths(f)
                   PROVE  p \in LivePaths(cleaned) /\ f[p] = cleaned[p]
      OBVIOUS
    <2>2. p \in DOMAIN cleaned
          /\ f[p] = IF p \in BootPaths /\ cleaned[p].deleted
                    THEN [cleaned[p] EXCEPT !.deleted = FALSE, !.ghosted = TRUE]
                    ELSE cleaned[p]
      BY <2>1 DEF Pruned, LivePaths
    <2>3. cleaned[p] \in Entry /\ Live(f[p])
      BY <1>6, <2>1, <2>2 DEF IsFileList, LivePaths
    <2> HIDE DEF f
    <2>4. QED
      BY <2>2, <2>3 DEF Entry, Live, LivePaths
  <1>9. \A p \in LivePaths(cleaned) \ Withheld(Run) : p \in LivePaths(f)
    <2>1. SUFFICES ASSUME NEW p \in LivePaths(cleaned), p \notin Withheld(Run)
                   PROVE  p \in LivePaths(f)
      OBVIOUS
    <2>2. ~(Stateless /\ p \in ConfigPaths) /\ ~(Run.ban /\ p \in DebugPaths)
      BY <2>1 DEF Withheld
    <2>3. p \in DOMAIN f /\ f[p] = cleaned[p]
      BY <1>6, <2>1, <2>2, PrunedHistory
    <2>4. QED
      BY <2>1, <2>3 DEF LivePaths
  <1> HIDE DEF f
  <1>10. Selects(f, n.files)
    <2>1. SUFFICES ASSUME NEW p \in LivePaths(f)
                   PROVE  p \in LivePaths(n.files) /\ f[p].kind = n.files[p].kind
                          /\ f[p].hash = n.files[p].hash
      BY DEF Selects
    <2>2. p \in LivePaths(cleaned) /\ f[p] = cleaned[p]
      BY <1>8, <2>1
    <2>3. p \in LivePaths(kept) /\ f[p].kind = kept[p].kind /\ f[p].hash = kept[p].hash
      BY <1>6, <1>7, <2>2 DEF Echoes, Says, LivePaths
    <2>4. p \in LivePaths(linked) /\ kept[p] = linked[p]
      BY <1>4, <1>5, <2>3 DEF Part, LivePaths
    <2>5. QED
      BY <1>2, <1>3, <2>3, <2>4 DEF Echoes, Says, LivePaths
  <1>11. LivePaths(n.files) \ Withheld(Run) \subseteq LivePaths(f)
    <2>1. SUFFICES ASSUME NEW p \in LivePaths(n.files), p \notin Withheld(Run)
                   PROVE  p \in LivePaths(f)
      OBVIOUS
    <2>2. p \in LivePaths(linked)
      BY <1>2, <1>3, <2>1 DEF Echoes, Says, LivePaths
    <2>3. p \in LivePaths(kept)
      BY <1>4, <1>5, <2>2 DEF Part, LivePaths
    <2>4. p \in LivePaths(cleaned)
      BY <1>6, <2>3 DEF Echoes, Says, LivePaths
    <2>5. QED
      BY <1>9, <2>1, <2>4
  <1>12. QED
    BY <1>0, <1>10, <1>11

\* The hashes of new_full are those of the union.
LEMMA FullListShows ==
    ASSUME TypeInv, pc = "full", NEW old, IsManifest(old), NEW p \in LivePaths(FullList(old))
    PROVE  FullList(old)[p].hash = chroot[nv][p]
  <1> DEFINE hashed  == Hashed(FromDirectory(chroot[nv], nv, Run.ban), chroot[nv])
             matched == Matched(old.files, hashed, nv, Run.minversion)
             bumped  == IF old.format < Run.format
                        THEN WithoutOldTombstones(old.files, matched) ELSE matched
             f       == WithoutOldGhosts(old.files, bumped)
  <1>0. f = FullList(old)
    BY DEF FullList
  <1>1. chroot[nv] \in Image /\ nv \in 0..MaxVersion /\ IsFileList(old.files)
    BY RunType, ManifestType DEF TypeInv, StepOK
  <1>2. IsFileList(hashed)
    BY <1>1, HashedType
  <1>3. \A q \in DOMAIN hashed : hashed[q].hash = chroot[nv][q]
    BY DEF Hashed, FromDirectory
  <1> HIDE DEF hashed
  <1>4. p \in DOMAIN matched /\ f[p] = matched[p] /\ Live(matched[p])
    <2>1. Part(bumped, matched)
      BY DropsPart DEF Part
    <2>2. Part(f, bumped)
      BY DropsPart
    <2> HIDE DEF f, bumped, matched
    <2>3. QED
      BY <1>0, <2>1, <2>2 DEF Part, LivePaths
  <1>5. p \in DOMAIN hashed
    BY <1>4 DEF Matched, Tombstone, Live
  <1>6. \/ matched[p] = hashed[p]
        \/ matched[p] = [hashed[p] EXCEPT !.last = old.files[p].last,
                                          !.rename = old.files[p].rename]
    BY <1>4, <1>5 DEF Matched
  <1>7. hashed[p] \in Entry
    BY <1>2, <1>5 DEF IsFileList
  <1> HIDE DEF f, matched
  <1>8. QED
    BY <1>0, <1>3, <1>4, <1>5, <1>6, <1>7 DEF Entry

\* The list of a bundle's chroot, hashed: all that is not withheld, by kind and
\* by hash.
LEMMA RawShows ==
    ASSUME HistoryInv, CleanRerun, HashesOK, Listing, NEW b \in Groups
    PROVE  LET raw == AddHashes(FromDirectory(Run.img[b], nv, Run.ban), newFull.files)
           IN  /\ IsFileList(raw) /\ RawList(raw, nv) /\ TrueTo(raw, b)
               /\ DOMAIN raw = LivePaths(raw)
               /\ DOMAIN Run.img[b] \ Withheld(Run) \subseteq DOMAIN raw
  <1> DEFINE img     == Run.img[b]
             scanned == FromDirectory(img, nv, Run.ban)
             raw     == AddHashes(scanned, newFull.files)
  <1>1. TypeInv /\ pc # "idle" /\ b \in Bundle /\ img \in Image /\ nv \in 0..MaxVersion
    BY RunType DEF HistoryInv, IntactInv, Listing, InLoop
  <1>2. IsFileList(scanned) /\ IsFileList(newFull.files)
    BY <1>1, HashedType, ManifestType DEF TypeInv, TypeOK, RunTypeOK
  <1>3. IsFileList(raw) /\ RawList(raw, nv)
    BY <1>1, <1>2, AddHashesType, RawHistory
  <1>4. ASSUME NEW p \in DOMAIN raw
        PROVE  /\ p \in DOMAIN img /\ raw[p].kind = KindOf[img[p]] /\ Live(raw[p])
               /\ raw[p].hash = FullChroot(Run)[p]
    <2>1. p \in DOMAIN scanned /\ p \in DOMAIN img /\ ~(Run.ban /\ p \in DebugPaths)
          /\ scanned[p].kind = KindOf[img[p]]
      BY DEF AddHashes, FromDirectory
    <2>2. p \in LivePaths(newFull.files)
      BY <2>1 DEF HistoryInv, FullListOK
    <2>3. newFull.files[p].hash = FullChroot(Run)[p] /\ p \in DOMAIN newFull.files
          /\ ~newFull.files[p].deleted
      BY <2>2 DEF HashesOK, LivePaths, Live
    <2>4. raw[p] = [scanned[p] EXCEPT !.hash = newFull.files[p].hash]
      BY <2>1, <2>3 DEF AddHashes
    <2>5. scanned[p] \in Entry
      BY <1>2, <2>1 DEF IsFileList
    <2>6. Live(raw[p])
      BY <1>3 DEF RawList
    <2> HIDE DEF raw, scanned, img
    <2>7. QED
      BY <2>1, <2>3, <2>4, <2>5, <2>6 DEF Entry
  <1>5. DOMAIN img \ Withheld(Run) \subseteq DOMAIN raw
    BY DEF AddHashes, FromDirectory, Withheld
  <1>6. DOMAIN raw = LivePaths(raw) /\ TrueTo(raw, b)
    <2> HIDE DEF raw
    <2> QED BY <1>4 DEF LivePaths, TrueTo
  <1>7. QED
    BY <1>3, <1>5, <1>6

\* What selects from a true list is true.
LEMMA SelectsTrue ==
    /\ \A f, g, b : Selects(g, f) /\ TrueTo(f, b) => TrueTo(g, b)
    /\ \A f, g, h : Selects(g, f) /\ Selects(f, h) => Selects(g, h)
    /\ \A f, g, o : Selects(g, f) /\ Repeats(o, f) => Repeats(o, g)
    /\ \A f : Selects(f, f)
  BY DEF Selects, TrueTo, Repeats

\* What the hypotheses say of this run's build.
LEMMA FirmRun ==
    ASSUME TypeInv, pc # "idle", NEW p, Firmly(p)
    PROVE  /\ ~(Run.ban /\ p \in DebugPaths)
           /\ \A b \in Bundle : p \in DOMAIN Run.img[b] /\ p \in BootPaths
                                  => KindOf[Run.img[b][p]] = "F"
  <1>1. nv \in Version /\ Run \in plan[nv] /\ plan \in Inputs
    BY DEF TypeInv, TypeOK, DiskTypeOK, StepOK
  <1>2. QED
    BY <1>1 DEF Firmly, Bans
-----------------------------------------------------------------------------
(* What is included *)

LEMMA ReachSteps ==
    ASSUME NEW inc
    PROVE  /\ \A b : inc[b] = {} => Reach(inc, b) = {}
           /\ \A b, c, d : c \in Reach(inc, b) /\ d \in Reach(inc, c) => d \in Reach(inc, b)
  <1>1. ASSUME NEW b, inc[b] = {}
        PROVE  Reach(inc, b) = {}
    <2>1. {} \in SUBSET Bundle /\ inc[b] \subseteq {} /\ \A x \in {} : inc[x] \subseteq {}
      BY <1>1
    <2>2. QED
      BY <2>1 DEF Reach
  <1>2. ASSUME NEW b, NEW c \in Reach(inc, b), NEW d \in Reach(inc, c)
        PROVE  d \in Reach(inc, b)
    <2>1. SUFFICES ASSUME NEW S \in SUBSET Bundle, inc[b] \subseteq S,
                          \A x \in S : inc[x] \subseteq S
                   PROVE  d \in S
      BY <1>2 DEF Reach
    <2>2. c \in S
      BY <1>2, <2>1 DEF Reach
    <2>3. QED
      BY <1>2, <2>1, <2>2 DEF Reach
  <1>3. QED
    BY <1>1, <1>2

\* Includes that differ in naming os-core only reach the same.
LEMMA SameReach ==
    ASSUME NEW all, NEW inc, NEW b, all[Core] = {}, inc[Core] = {},
           NEW G \in SUBSET Bundle, b \in G, Reach(all, b) \subseteq G,
           \A x \in G \ {Core} : inc[x] \subseteq all[x] /\ all[x] \subseteq inc[x] \cup {Core}
    PROVE  {b, Core} \cup Reach(inc, b) = {b, Core} \cup Reach(all, b)
  <1>1. Core \in Bundle
    BY UpdateAssumption
  <1>2. \A x \in G : inc[x] \subseteq all[x] /\ all[x] \subseteq inc[x] \cup {Core}
    OBVIOUS
  <1>3. all[b] \subseteq Bundle => all[b] \subseteq Reach(all, b)
    BY DEF Reach
  <1>4. ASSUME NEW c \in Reach(inc, b)
        PROVE  c \in Reach(all, b)
    <2>1. c \in Bundle
      BY <1>4 DEF Reach
    <2>2. SUFFICES ASSUME NEW S \in SUBSET Bundle, all[b] \subseteq S,
                          \A x \in S : all[x] \subseteq S
                   PROVE  c \in S
      BY <2>1 DEF Reach
    <2> DEFINE T == S \cap Reach(all, b)
    <2>3. T \in SUBSET Bundle /\ T \subseteq G
      BY DEF Reach
    <2>4. all[b] \subseteq T
      BY <1>3, <2>2
    <2>5. ASSUME NEW x \in T, NEW y \in all[x]
          PROVE  y \in T
      <3>1. y \in S
        BY <2>2, <2>5
      <3>2. y \in Reach(all, b)
        BY <2>5, <3>1 DEF Reach
      <3>3. QED
        BY <3>1, <3>2
    <2> HIDE DEF T
    <2>6. inc[b] \subseteq T /\ \A x \in T : inc[x] \subseteq T
      BY <1>2, <2>3, <2>4, <2>5
    <2>7. c \in T
      BY <1>4, <2>3, <2>6 DEF Reach
    <2>8. QED
      BY <2>7 DEF T
  <1>5. ASSUME NEW c \in Reach(all, b)
        PROVE  c \in Reach(inc, b) \cup {Core}
    <2>1. SUFFICES ASSUME NEW S \in SUBSET Bundle, inc[b] \subseteq S,
                          \A x \in S : inc[x] \subseteq S, c # Core
                   PROVE  c \in S
      BY <1>5 DEF Reach
    <2> DEFINE T == (S \cap G) \cup {Core}
               U == T \cap (Reach(all, b) \cup {Core})
    <2>2. U \in SUBSET Bundle /\ Core \in U
      BY <1>1
    <2>3. all[b] \subseteq Bundle
      BY <1>1, <1>2, <2>1
    <2>4. all[b] \subseteq U
      BY <1>2, <1>3, <2>1, <2>3
    <2>5. ASSUME NEW x \in U, NEW y \in all[x]
          PROVE  y \in U
      <3>1. CASE x = Core
        BY <2>5, <3>1
      <3>2. CASE x # Core
        <4>1. x \in S /\ x \in G /\ x \in Reach(all, b)
          BY <2>5, <3>2
        <4>2. y \in S \cup {Core}
          BY <1>2, <2>1, <2>5, <4>1
        <4>3. y \in Reach(all, b)
          <5>1. y \in Bundle
            BY <1>1, <4>2
          <5>2. QED
            BY <2>5, <4>1, <5>1 DEF Reach
        <4>4. QED
          BY <4>2, <4>3
      <3>3. QED
        BY <3>1, <3>2
    <2> HIDE DEF U
    <2>6. c \in U
      BY <1>5, <2>2, <2>4, <2>5 DEF Reach
    <2>7. QED
      BY <2>1, <2>6 DEF U
  <1>6. QED
    BY <1>4, <1>5
-----------------------------------------------------------------------------
(* What the steps have in common *)

\* What is published delivers what it did.
LEMMA SameBuilds ==
    ASSUME UNCHANGED published,
           \A v \in published :
              /\ image'[v] = image[v] /\ wwwMoM'[v] = wwwMoM[v]
              /\ \A b \in Listed(v) : InForce(v, b)' = InForce(v, b)
    PROVE  /\ \A v \in published : /\ Listed(v)' = Listed(v)
                                   /\ \A b : Delivered(v, b)' = Delivered(v, b)
           /\ BuildsOK => BuildsOK'
  <1>1. ASSUME NEW v \in published
        PROVE  Listed(v)' = Listed(v) /\ \A b : Delivered(v, b)' = Delivered(v, b)
    <2>1. Listed(v)' = Listed(v)
      BY DEF Listed
    <2>2. /\ image'[v] = image[v]
          /\ \A c \in Listed(v) : InForce(v, c)' = InForce(v, c)
      OBVIOUS
    <2> DEFINE inc == [c \in Bundle |-> IF c \in Listed(v) THEN InForce(v, c).includes ELSE {}]
    <2>3. inc' = inc
      BY <2>1, <2>2
    <2> SUFFICES ASSUME NEW b PROVE Delivered(v, b)' = Delivered(v, b)
      BY <2>1
    <2>4. Reach(inc, b)' = Reach(inc, b)
      <3> HIDE DEF inc
      <3> QED BY <2>3 DEF Reach
    <2>5. Installed(v, b)' = Installed(v, b)
      BY <2>4 DEF Installed
    <2>6. {InForce(v, c).files : c \in Installed(v, b) \cap Listed(v)}'
            = {InForce(v, c).files : c \in Installed(v, b) \cap Listed(v)}
      BY <2>1, <2>2, <2>5
    <2>7. QED
      BY <2>2, <2>6 DEF Delivered
  <1>2. ASSUME BuildsOK
        PROVE  BuildsOK'
    <2>1. ASSUME NEW v \in published
          PROVE  Delivers(v)'
      <3>1. Delivers(v)
        BY <1>2 DEF BuildsOK, ReleasesDeliver
      <3>2. image'[v] = image[v]
        OBVIOUS
      <3>3. \A b : Built(image[v], b)' = Built(image[v], b)
        BY <3>2 DEF Built, Withheld, FullChroot, Overlay, Reach
      <3>4. QED
        BY <1>1, <3>1, <3>2, <3>3 DEF Delivers
    <2>2. ASSUME NEW v \in published
          PROVE  BootKinds(v)'
      <3>1. BootKinds(v)
        BY <1>2 DEF BuildsOK
      <3>2. QED
        BY <1>1, <3>1 DEF BootKinds
    <2>3. QED
      BY <2>1, <2>2 DEF BuildsOK, ReleasesDeliver
  <1>3. QED
    BY <1>1, <1>2

\* A step of a run that goes on.
Delivering == Keeping /\ DeletionInv' /\ ReleaseInv /\ CleanRerun

LEMMA DeliveringRun ==
    ASSUME Delivering
    PROVE  /\ BuildsOK'
           /\ Listing /\ UNCHANGED newFull => HashesOK'
           /\ Keeping /\ HistoryInv /\ TypeInv /\ nv' = nv /\ Run' = Run /\ Groups' = Groups
           /\ FullChroot(Run)' = FullChroot(Run) /\ Withheld(Run)' = Withheld(Run)
           /\ Groups \subseteq Bundle /\ Core \in Groups
           /\ \A b \in Bundle : Prior(b)' = Prior(b)
  <1>1. /\ Keeping /\ HistoryInv /\ TypeInv /\ nv' = nv /\ Run' = Run /\ Groups' = Groups
        /\ Groups \subseteq Bundle /\ Core \in Groups
        /\ \A b \in Bundle : Prior(b)' = Prior(b)
    BY KeptRun DEF Delivering
  <1>2. FullChroot(Run)' = FullChroot(Run) /\ Withheld(Run)' = Withheld(Run)
    BY <1>1 DEF FullChroot, Overlay, Withheld
  <1>3. BuildsOK'
    <2>1. \A v \in published : \A b \in Listed(v) : InForce(v, b)' = InForce(v, b)
      BY SameRunHistory DEF Delivering, Keeping, Continues
    <2>2. \A v \in published : wwwMoM'[v] = wwwMoM[v]
      BY PublishedStep DEF Delivering, Keeping, Continues, HistoryInv
    <2>3. UNCHANGED <<published, image>>
      BY DEF Delivering, Keeping, Continues
    <2>4. QED
      BY <2>1, <2>2, <2>3, SameBuilds DEF Delivering, ReleaseInv
  <1>4. Listing /\ UNCHANGED newFull => HashesOK'
    BY <1>2 DEF Delivering, ReleaseInv, HashesOK
  <1>5. QED
    BY <1>1, <1>2, <1>3, <1>4

\* A step to a place where the run has compared nothing yet, or has stopped.
LEMMA QuietShown ==
    ASSUME BuildsOK', pc' \in {"idle", "chroot", "full", "failed"}
    PROVE  ReleaseInv'
  <1>1. ~Listing' /\ ~Complete' /\ Compares' = {} /\ Through' = {}
    BY DEF Listing, InLoop, Complete, Written, Compares, Through, Finished
  <1>2. HashesOK' /\ IncludesOK' /\ StagesShown' /\ BringsOK'
    BY <1>1 DEF HashesOK, IncludesOK, StagesShown, BringsOK
  <1>3. QED
    BY <1>2 DEF ReleaseInv

\* A bundle no step touches stays where it is.
LEMMA SameShown ==
    ASSUME Delivering, NEW b \in Bundle, newM'[b] = newM[b]
    PROVE  (Shown(b) => Shown(b)') /\ (FinalShown(b) => FinalShown(b)')
  <1>1. Run' = Run /\ nv' = nv /\ Prior(b)' = Prior(b) /\ FullChroot(Run)' = FullChroot(Run)
    BY DeliveringRun
  <1>2. Shown(b) => Shown(b)'
    BY <1>1 DEF Shown, TrueTo, GhostsKnown
  <1>3. QED
    BY <1>1, <1>2 DEF FinalShown, Repeats

LEMMA SameIncludes ==
    ASSUME \A b \in Bundle : /\ newM'[b].includes \cup {Core} = newM[b].includes \cup {Core}
                             /\ b = Core => newM'[b].includes = newM[b].includes
    PROVE  \A b : Reach(AllIncludes(newM), b)' = Reach(AllIncludes(newM), b)
  <1>1. AllIncludes(newM)' = AllIncludes(newM)
    BY DEF AllIncludes
  <1>2. QED
    BY <1>1 DEF Reach

\* What x installs is installed after the step by x or by what it includes.
HandedOn(x) ==
    \A p \in LivePaths(newM[x].files) \ Withheld(Run) : Firmly(p) =>
        \E e \in {x} \cup Reach(AllIncludes(newM), x) : p \in LivePaths(newM'[e].files)

LEMMA BringsStep ==
    ASSUME Delivering, NEW c \in Bundle, HandedOn(c),
           \A b \in Bundle \ {c} : newM'[b].files = newM[b].files,
           \A b : Reach(AllIncludes(newM), b)' = Reach(AllIncludes(newM), b),
           NEW b \in Bundle, Brings(b)
    PROVE  Brings(b)'
  <1>1. Run' = Run /\ Withheld(Run)' = Withheld(Run)
    BY DeliveringRun
  <1>2. SUFFICES ASSUME NEW p \in DOMAIN Run.img[b] \ Withheld(Run), Firmly(p)
                 PROVE  \E d \in {b} \cup Reach(AllIncludes(newM), b) :
                           p \in LivePaths(newM'[d].files)
    BY <1>1 DEF Brings
  <1>3. PICK d \in {b} \cup Reach(AllIncludes(newM), b) : p \in LivePaths(newM[d].files)
    BY <1>2 DEF Brings
  <1>4. d \in Bundle
    BY <1>3 DEF Reach
  <1>5. PICK e \in {d} \cup Reach(AllIncludes(newM), d) : p \in LivePaths(newM'[e].files)
    <2>1. CASE d = c
      BY <1>2, <1>3, <2>1 DEF HandedOn
    <2>2. CASE d # c
      BY <1>3, <1>4, <2>2
    <2>3. QED
      BY <2>1, <2>2
  <1>6. e \in {b} \cup Reach(AllIncludes(newM), b)
    BY <1>3, <1>5, ReachSteps
  <1>7. QED
    BY <1>5, <1>6

\* A step of the bundle loop that goes on with the next bundle.
LEMMA NextShown ==
    ASSUME Delivering, InLoop, gi' = gi + 1, pc' = AfterBundle, UNCHANGED newFull,
           NEW c \in Bundle, c = Current, c = Core \/ pc # "bundle", FinalShown(c)',
           newM'[c].includes = newM[c].includes, HandedOn(c),
           \A b \in Bundle \ {c} : newM'[b] = newM[b]
    PROVE  ReleaseInv'
  <1>1. /\ TypeInv /\ Run' = Run /\ Groups' = Groups /\ Groups \subseteq Bundle /\ BuildsOK'
        /\ HashesOK' /\ Complete
    BY DeliveringRun DEF Listing, Complete
  <1>2. /\ Finished' \subseteq Finished \cup {c} /\ pc' \in {"bundle", "mom"}
        /\ Finished \subseteq Bundle
    BY <1>1, CursorMoves, Cursor
  <1>3. Through' = Finished' /\ Compares' = Finished' /\ Through = Finished
    BY <1>2 DEF Through, Compares, Written, InLoop
  <1>4. \A b : Reach(AllIncludes(newM), b)' = Reach(AllIncludes(newM), b)
    BY SameIncludes
  <1>5. IncludesOK'
    <2>1. Compares' \ {Core} \subseteq Compares
      BY <1>2, <1>3 DEF Compares, InLoop
    <2>2. QED
      BY <1>1, <1>4, <2>1 DEF Delivering, ReleaseInv, IncludesOK
  <1>6. StagesShown'
    <2>1. \A b \in Finished \ {c} : FinalShown(b)'
      BY <1>2, <1>3, SameShown DEF Delivering, ReleaseInv, StagesShown
    <2>2. QED
      BY <1>2, <1>3, <2>1 DEF StagesShown
  <1>7. BringsOK'
    <2>1. \A b \in Groups : Brings(b)'
      BY <1>1, <1>4, BringsStep DEF Delivering, ReleaseInv, BringsOK
    <2>2. QED
      BY <1>1, <1>2, <2>1 DEF BringsOK
  <1>8. QED
    BY <1>1, <1>5, <1>6, <1>7 DEF ReleaseInv

\* A step of the bundle loop that goes on with the same bundle.
LEMMA StayShown ==
    ASSUME Delivering, InLoop, pc' \in {"bundleMatched", "writeBundle"},
           UNCHANGED <<newFull, gi>>,
           NEW c \in Bundle, c = Current, c \notin Finished,
           pc' = "bundleMatched" => MatchedShown(c)', pc' = "writeBundle" => Shown(c)',
           newM'[c].includes \cup {Core} = newM[c].includes \cup {Core}, HandedOn(c),
           \A b \in Bundle \ {c} : newM'[b] = newM[b],
           Reach(AllIncludes(newM), c)' \subseteq Groups
    PROVE  ReleaseInv'
  <1>1. /\ TypeInv /\ Run' = Run /\ Groups' = Groups /\ Groups \subseteq Bundle /\ BuildsOK'
        /\ HashesOK' /\ Complete
    BY DeliveringRun DEF Listing, Complete
  <1>2. Finished' = Finished /\ Current' = c /\ Finished \subseteq Bundle /\ c # Core
    <2>1. Finished \subseteq Bundle /\ c # Core
      BY <1>1, Cursor
    <2>2. Current' = c
      BY <1>1 DEF Current
    <2>3. Finished' = Finished
      BY <1>1 DEF Finished, InLoop
    <2>4. QED
      BY <2>1, <2>2, <2>3
  <1>3. Through' = Finished /\ Compares' = Finished \cup {c} /\ Through = Finished
        /\ Finished \subseteq Compares
    BY <1>2 DEF Through, Compares, Written, InLoop
  <1>4. \A b : Reach(AllIncludes(newM), b)' = Reach(AllIncludes(newM), b)
    BY <1>2, SameIncludes
  <1>5. IncludesOK'
    <2>1. \A b \in Groups \ {Core} : newM'[b].includes \cup {Core} = Run.inc[b] \cup {Core}
      BY <1>1 DEF Delivering, ReleaseInv, IncludesOK
    <2>2. \A b \in Compares' \ {Core} : Reach(AllIncludes(newM), b)' \subseteq Groups
      BY <1>3, <1>4 DEF Delivering, ReleaseInv, IncludesOK
    <2>3. QED
      BY <1>1, <2>1, <2>2 DEF IncludesOK
  <1>6. StagesShown'
    <2>1. \A b \in Finished : FinalShown(b)'
      BY <1>2, <1>3, SameShown DEF Delivering, ReleaseInv, StagesShown
    <2>2. QED
      BY <1>2, <1>3, <2>1 DEF StagesShown
  <1>7. BringsOK'
    <2>1. \A b \in Groups : Brings(b)'
      BY <1>1, <1>4, BringsStep DEF Delivering, ReleaseInv, BringsOK
    <2>2. QED
      BY <1>1, <2>1 DEF BringsOK
  <1>8. QED
    BY <1>1, <1>5, <1>6, <1>7 DEF ReleaseInv
-----------------------------------------------------------------------------
(* The steps *)

LEMMA CreateFullManifestShown ==
    ASSUME Delivering, CreateFullManifest
    PROVE  ReleaseInv'
  <1> DEFINE old == FromFile(OldFullFile, lastVer)
  <1>1. pc = "full" /\ pc' = "core" /\ newFull' = NewManifest(nv, 0, {}, FullList(old))
    BY DEF CreateFullManifest
  <1>2. /\ TypeInv /\ pc # "idle" /\ HistoryInv /\ BuildsOK'
        /\ FullChroot(Run)' = FullChroot(Run)
    BY <1>1, DeliveringRun
  <1>3. IsManifest(old)
    BY <1>2, OldType
  <1>4. chroot[nv] = FullChroot(Run)
    BY <1>1, <1>2 DEF HistoryInv, ChrootOK, Delivering
  <1> HIDE DEF old
  <1>5. HashesOK'
    <2>1. newFull'.files = FullList(old)
      BY <1>1 DEF NewManifest
    <2>2. \A p \in LivePaths(FullList(old)) : FullList(old)[p].hash = FullChroot(Run)[p]
      BY <1>1, <1>2, <1>3, <1>4, FullListShows
    <2>3. QED
      BY <1>2, <2>1, <2>2 DEF HashesOK
  <1>6. Finished' = {}
    BY <1>1 DEF Finished
  <1>7. IncludesOK' /\ StagesShown' /\ BringsOK'
    BY <1>1, <1>6 DEF IncludesOK, StagesShown, BringsOK, Complete, InLoop, Written, Compares,
       Through
  <1>8. QED
    BY <1>2, <1>5, <1>7 DEF ReleaseInv

\* The list of a bundle's chroot, hashed, subtracted from and matched.
LEMMA RawMatched ==
    ASSUME Delivering, Listing, NEW b \in Groups, NEW old, NEW raw,
           IsFileList(old), IsFileList(raw), Part(old, Prior(b).files),
           Part(raw, AddHashes(FromDirectory(Run.img[b], nv, Run.ban), newFull.files))
    PROVE  LET f == Matched(old, raw, nv, Run.minversion)
           IN  /\ LivePaths(f) = DOMAIN raw /\ TrueTo(f, b) /\ GhostsKnown(f)
               /\ ChangedPaths(old, raw, Run.minversion) = {} => Repeats(Prior(b).files, f)
  <1> DEFINE all == AddHashes(FromDirectory(Run.img[b], nv, Run.ban), newFull.files)
             f   == Matched(old, raw, nv, Run.minversion)
  <1>1. HistoryInv /\ RecordsOK /\ pc # "idle" /\ b \in Bundle /\ HashesOK /\ CleanRerun
    BY DeliveringRun DEF Delivering, Keeping, Continues, ReleaseInv
  <1>2. RawList(all, nv) /\ TrueTo(all, b)
    BY <1>1, RawShows
  <1> HIDE DEF all
  <1>3. RawList(raw, nv) /\ TrueTo(raw, b)
    BY <1>2 DEF all, Part, RawList, TrueTo, LivePaths
  <1>4. Orderly(Prior(b).files)
    BY <1>1, PriorKept
  <1>5. /\ LivePaths(f) = DOMAIN raw /\ Selects(f, raw) /\ GhostsKnown(f)
        /\ ChangedPaths(old, raw, Run.minversion) = {} => Repeats(Prior(b).files, f)
    BY <1>3, <1>4, MatchedShows
  <1>6. TrueTo(f, b)
    BY <1>3, <1>5, SelectsTrue
  <1>7. QED
    BY <1>5, <1>6

\* The list a matched bundle is completed to.
LEMMA CompletedShown ==
    ASSUME Delivering, NEW b \in Bundle, MatchedWell(b), MatchedKept(b), Shown(b),
           NEW m \in MatchingsOf(b), NEW f, f = Completed(oldM[b], newM[b], m)
    PROVE  /\ TrueTo(f, b) /\ GhostsKnown(f)
           /\ LivePaths(newM[b].files) \ Withheld(Run) \subseteq LivePaths(f)
           /\ (\A p \in DOMAIN f : f[p].last # nv) => Repeats(Prior(b).files, f)
  <1>1. /\ Keeping /\ HistoryInv /\ pc # "idle"
        /\ IsManifest(oldM[b]) /\ IsManifest(newM[b])
    BY KeptRun DEF Delivering
  <1>2. Selects(f, newM[b].files) /\ LivePaths(newM[b].files) \ Withheld(Run) \subseteq LivePaths(f)
    BY <1>1, CompletedShows DEF MatchingsOf
  <1>3. Orderly(f)
    BY <1>1, CompletedKept
  <1>4. Descends(f, Prior(b).files, nv)
    BY <1>1, CompletedReady
  <1>5. TrueTo(f, b)
    BY <1>2, SelectsTrue DEF Shown
  <1>6. GhostsKnown(f)
    BY <1>3 DEF Orderly, GhostsKnown, Live
  <1>7. ASSUME \A p \in DOMAIN f : f[p].last # nv
        PROVE  Repeats(Prior(b).files, f)
    BY <1>4, <1>7 DEF Descends, Says, Repeats, LivePaths
  <1>8. QED
    BY <1>2, <1>5, <1>6, <1>7

\* Phase 2: os-core.
LEMMA CoreShown ==
    ASSUME Delivering, UNCHANGED newFull,
           pc \in {"core", "coreMatched", "writeCore"},
           pc' \in {"coreMatched", "writeCore", "load"},
           pc' = "coreMatched" => MatchedShown(Core)',
           pc' = "writeCore" => Shown(Core)', pc' = "load" => FinalShown(Core)', Brings(Core)'
    PROVE  ReleaseInv'
  <1>1. BuildsOK' /\ HashesOK'
    BY DeliveringRun DEF Listing
  <1>2. Finished' = IF pc' = "load" THEN {Core} ELSE {}
    BY DEF Finished
  <1>3. IncludesOK' /\ StagesShown' /\ BringsOK'
    BY <1>2 DEF IncludesOK, StagesShown, BringsOK, Complete, InLoop, Written, Compares, Through
  <1>4. QED
    BY <1>1, <1>3 DEF ReleaseInv

LEMMA MatchCoreShown ==
    ASSUME Delivering, MatchCore
    PROVE  ReleaseInv'
  <1> DEFINE old == Prior(Core).files
             raw == AddHashes(FromDirectory(Run.img[Core], nv, Run.ban), newFull.files)
             f   == Matched(old, raw, nv, Run.minversion)
  <1>1. /\ pc = "core" /\ pc' = "coreMatched" /\ UNCHANGED newFull
        /\ newM' = [newM EXCEPT ![Core] = NewManifest(nv, Prior(Core).version, {}, f)]
        /\ changed' = (ChangedPaths(old, raw, Run.minversion) # {})
    BY DEF MatchCore, Prior
  <1>2. /\ HistoryInv /\ TypeInv /\ pc # "idle" /\ Core \in Bundle /\ Core \in Groups
        /\ Prior(Core)' = Prior(Core) /\ Listing /\ Run' = Run
        /\ FullChroot(Run)' = FullChroot(Run) /\ Withheld(Run)' = Withheld(Run)
        /\ HashesOK /\ CleanRerun
    BY <1>1, DeliveringRun, UpdateAssumption DEF Listing, Delivering, ReleaseInv
  <1>3. IsFileList(old)
    BY <1>2, PriorCases, ManifestType DEF HistoryInv
  <1>4. IsFileList(raw) /\ DOMAIN Run.img[Core] \ Withheld(Run) \subseteq DOMAIN raw
    BY <1>2, RawShows
  <1>5. Part(old, Prior(Core).files) /\ Part(raw, raw)
    BY DEF Part
  <1>6. /\ LivePaths(f) = DOMAIN raw /\ TrueTo(f, Core) /\ GhostsKnown(f)
        /\ ChangedPaths(old, raw, Run.minversion) = {} => Repeats(Prior(Core).files, f)
    BY <1>2, <1>3, <1>4, <1>5, RawMatched
  <1> HIDE DEF f, raw, old
  <1>7. newM'[Core].files = f
    <2>1. newM'[Core] = NewManifest(nv, Prior(Core).version, {}, f)
      BY <1>1, <1>2 DEF TypeInv, TypeOK, RunTypeOK
    <2>2. QED
      BY <2>1 DEF NewManifest
  <1>8. MatchedShown(Core)'
    BY <1>1, <1>2, <1>6, <1>7 DEF MatchedShown, Shown, TrueTo, GhostsKnown, Repeats
  <1>9. Brings(Core)'
    BY <1>2, <1>4, <1>6, <1>7 DEF Brings
  <1>10. QED
    BY <1>1, <1>8, <1>9, CoreShown

\* A step that completes os-core, or nothing.
LEMMA CoreBrings ==
    ASSUME Delivering, pc \in {"coreMatched", "writeCore"},
           newM'[Core].includes = newM[Core].includes, \A b \in Bundle \ {Core} : newM'[b] = newM[b],
           LivePaths(newM[Core].files) \ Withheld(Run) \subseteq LivePaths(newM'[Core].files)
    PROVE  Brings(Core)'
  <1>1. Core \in Bundle /\ Brings(Core)
    BY UpdateAssumption DEF Delivering, ReleaseInv, BringsOK
  <1>2. \A b : Reach(AllIncludes(newM), b)' = Reach(AllIncludes(newM), b)
    BY SameIncludes
  <1>3. HandedOn(Core)
    BY DEF HandedOn
  <1>4. QED
    BY <1>1, <1>2, <1>3, BringsStep

LEMMA CoreUnchangedShown ==
    ASSUME Delivering, CoreUnchanged
    PROVE  ReleaseInv'
  <1>1. /\ pc = "coreMatched" /\ pc' = "load" /\ ~changed /\ UNCHANGED newFull
        /\ newM' = [newM EXCEPT ![Core].version = oldM[Core].version]
    BY DEF CoreUnchanged
  <1>2. /\ Core \in Bundle /\ Run' = Run /\ Prior(Core)' = Prior(Core) /\ Keeping
        /\ FullChroot(Run)' = FullChroot(Run)
    BY DeliveringRun, UpdateAssumption
  <1>3. /\ newM'[Core].files = newM[Core].files /\ newM'[Core].includes = newM[Core].includes
        /\ \A b \in Bundle \ {Core} : newM'[b] = newM[b]
    BY <1>1, <1>2, FieldSet
  <1>4. MatchedShown(Core)
    BY <1>1 DEF Delivering, ReleaseInv, StagesShown
  <1>5. FinalShown(Core)'
    BY <1>1, <1>2, <1>3, <1>4
       DEF FinalShown, MatchedShown, Shown, TrueTo, GhostsKnown, Repeats
  <1>6. Brings(Core)'
    BY <1>1, <1>3, CoreBrings
  <1>7. QED
    BY <1>1, <1>5, <1>6, CoreShown

LEMMA CoreChangedShown ==
    ASSUME Delivering, CoreChanged
    PROVE  ReleaseInv'
  <1>1. pc = "coreMatched" /\ pc' \in {"failed", "writeCore"} /\ UNCHANGED newFull
    BY Zenon DEF CoreChanged
  <1>2. /\ Core \in Bundle /\ Run' = Run /\ Keeping /\ BuildsOK'
        /\ FullChroot(Run)' = FullChroot(Run)
    BY DeliveringRun, UpdateAssumption
  <1>3. CASE pc' = "failed"
    BY <1>2, <1>3, QuietShown
  <1>4. CASE pc' = "writeCore"
    <2>1. PICK m \in MatchingsOf(Core) :
             newM' = [newM EXCEPT ![Core].files = Completed(oldM[Core], newM[Core], m)]
      BY DEF CoreChanged
    <2>2. PICK f : f = Completed(oldM[Core], newM[Core], m)
      OBVIOUS
    <2>3. /\ newM'[Core].files = f /\ newM'[Core].includes = newM[Core].includes
          /\ \A b \in Bundle \ {Core} : newM'[b] = newM[b]
      BY <1>2, <2>1, <2>2, FieldSet
    <2>4. MatchedWell(Core) /\ MatchedKept(Core) /\ Shown(Core)
      BY <1>1, <1>2 DEF Keeping, Continues, HistoryInv, StagesOK, StagesKept, Delivering,
         ReleaseInv, StagesShown, MatchedShown
    <2>5. /\ TrueTo(f, Core) /\ GhostsKnown(f)
          /\ LivePaths(newM[Core].files) \ Withheld(Run) \subseteq LivePaths(f)
      BY <1>2, <2>2, <2>4, CompletedShown
    <2>6. Shown(Core)'
      BY <1>2, <2>3, <2>5 DEF Shown, TrueTo, GhostsKnown
    <2>7. Brings(Core)'
      BY <1>1, <2>3, <2>5, CoreBrings
    <2>8. QED
      BY <1>1, <1>4, <2>6, <2>7, CoreShown
  <1>5. QED
    BY <1>1, <1>3, <1>4

LEMMA WriteCoreShown ==
    ASSUME Delivering, WriteCore
    PROVE  ReleaseInv'
  <1>1. pc = "writeCore" /\ pc' = "load" /\ UNCHANGED <<newM, newFull>>
    BY DEF WriteCore
  <1>2. Core \in Bundle /\ nv' = nv
    BY DeliveringRun, UpdateAssumption
  <1>3. newM[Core].version = nv /\ Shown(Core)
    BY <1>1 DEF Delivering, Keeping, Continues, HistoryInv, StagesOK, Ready, ReleaseInv,
       StagesShown
  <1>4. FinalShown(Core)'
    <2>1. Shown(Core)'
      BY <1>1, <1>2, <1>3, SameShown
    <2>2. QED
      BY <1>1, <1>2, <1>3, <2>1 DEF FinalShown
  <1>5. Brings(Core)'
    BY <1>1, CoreBrings
  <1>6. QED
    BY <1>1, <1>4, <1>5, CoreShown

\* Phase 3: the scan of every bundle brings all that its build has.
LEMMA LoadBundlesShown ==
    ASSUME Delivering, LoadBundles
    PROVE  ReleaseInv'
  <1>1. /\ pc = "load" /\ pc' = "bundle" /\ gi' = 1 /\ UNCHANGED newFull
        /\ newM' = [b \in Bundle |->
              IF b \in Groups \ {Core}
              THEN NewManifest(nv, 0, Run.inc[b], FromDirectory(Run.img[b], nv, Run.ban))
              ELSE newM[b]]
    BY DEF LoadBundles
  <1>2. /\ BuildsOK' /\ HashesOK' /\ Run' = Run /\ Groups' = Groups /\ Core \in Bundle
        /\ Withheld(Run)' = Withheld(Run) /\ Groups \subseteq Bundle
    BY <1>1, DeliveringRun, UpdateAssumption DEF Listing
  <1>3. newM'[Core] = newM[Core] /\ newM[Core].includes = {}
    BY <1>1, <1>2 DEF Delivering, Keeping, MemoryKept, Comparing
  <1>4. ASSUME NEW b \in Groups \ {Core}
        PROVE  /\ newM'[b].includes = Run.inc[b]
               /\ newM'[b].files = FromDirectory(Run.img[b], nv, Run.ban)
    <2>1. newM'[b] = NewManifest(nv, 0, Run.inc[b], FromDirectory(Run.img[b], nv, Run.ban))
      BY <1>1, <1>2
    <2>2. QED
      BY <2>1 DEF NewManifest
  <1>5. Finished = {Core} /\ Finished' = {Core}
    BY <1>1 DEF Finished
  <1>6. IncludesOK'
    BY <1>1, <1>2, <1>4, <1>5 DEF IncludesOK, Compares, Written
  <1>7. StagesShown'
    <2>1. FinalShown(Core)
      BY <1>1, <1>5 DEF Delivering, ReleaseInv, StagesShown, Through, Written
    <2>2. FinalShown(Core)'
      BY <1>2, <1>3, <2>1, SameShown
    <2>3. QED
      BY <1>1, <1>5, <2>2 DEF StagesShown, Through, Written
  <1>8. Brings(Core)'
    <2>1. Brings(Core)
      BY <1>1 DEF Delivering, ReleaseInv, BringsOK
    <2>2. Reach(AllIncludes(newM), Core) = {}
      BY <1>2, <1>3, ReachSteps DEF AllIncludes
    <2>3. QED
      BY <1>2, <1>3, <2>1, <2>2 DEF Brings
  <1>9. ASSUME NEW b \in Groups \ {Core}
        PROVE  Brings(b)'
    <2>1. ASSUME NEW p \in DOMAIN Run.img[b] \ Withheld(Run)
          PROVE  p \in LivePaths(newM'[b].files)
      <3>1. p \in DOMAIN Run.img[b] /\ ~(Run.ban /\ p \in DebugPaths)
        BY <2>1 DEF Withheld
      <3>2. p \in DOMAIN FromDirectory(Run.img[b], nv, Run.ban)
            /\ Live(FromDirectory(Run.img[b], nv, Run.ban)[p])
        BY <3>1 DEF FromDirectory, Live
      <3>3. QED
        BY <1>4, <3>2 DEF LivePaths
    <2>2. QED
      BY <1>2, <2>1 DEF Brings
  <1>10. BringsOK'
    BY <1>1, <1>2, <1>8, <1>9 DEF BringsOK
  <1>11. QED
    BY <1>2, <1>6, <1>7, <1>10 DEF ReleaseInv

LEMMA SkipCoreShown ==
    ASSUME Delivering, SkipCore
    PROVE  ReleaseInv'
  <1>1. /\ pc = "bundle" /\ Current = Core /\ gi' = gi + 1 /\ pc' = AfterBundle
        /\ UNCHANGED <<newFull, newM>> /\ InLoop
    BY DEF SkipCore, InLoop
  <1>2. Core \in Finished /\ Core \in Bundle
    BY <1>1, DeliveringRun, Cursor, UpdateAssumption
  <1>3. FinalShown(Core)'
    <2>1. FinalShown(Core)
      BY <1>1, <1>2 DEF Delivering, ReleaseInv, StagesShown, Through, Written
    <2>2. QED
      BY <1>1, <1>2, <2>1, SameShown
  <1>4. HandedOn(Core)
    BY <1>1 DEF HandedOn
  <1>5. QED
    BY <1>1, <1>2, <1>3, <1>4, NextShown

\* What is in memory of a bundle that is not at hand: a complete list or a scan.
LEMMA OthersShown ==
    ASSUME Delivering, pc = "bundle", NEW e \in Groups, e # Current
    PROVE  GhostsKnown(newM[e].files)
  <1>1. CASE e \in Finished
    BY <1>1 DEF Delivering, ReleaseInv, StagesShown, Through, Written, FinalShown, Shown
  <1>2. CASE e \notin Finished
    <2>1. Loaded(e)
      BY <1>2 DEF Delivering, Keeping, Continues, HistoryInv, StagesOK, InLoop
    <2>2. \A p \in DOMAIN newM[e].files : Live(newM[e].files[p])
      BY <2>1 DEF Loaded, FromDirectory, Live
    <2>3. QED
      BY <2>2 DEF GhostsKnown
  <1>3. QED
    BY <1>1, <1>2

\* Steps 4 to 6: what is taken out of a bundle is in one it includes.
LEMMA MatchBundleShown ==
    ASSUME Delivering, MatchBundle
    PROVE  ReleaseInv'
  <1>0. PICK c : c = Current
    OBVIOUS
  <1> DEFINE old == SubtractIncludes(oldM[c].files, oldM, c)
             all == AddHashes(newM[c].files, newFull.files)
             raw == SubtractIncludes(all, newM, c)
             f   == Matched(old, raw, nv, Run.minversion)
             inc == Includes(newM, c)
  <1>1. /\ pc = "bundle" /\ pc' = "bundleMatched" /\ c # Core /\ InLoop
        /\ UNCHANGED <<disk, nv, gi, newFull>> /\ Resolvable(inc, c)
        /\ c \in Bundle /\ c \in Groups /\ c \notin Finished
        /\ newM[c].files = FromDirectory(Run.img[c], nv, Run.ban)
        /\ Part(old, Prior(c).files) /\ IsFileList(old) /\ IsFileList(raw)
        /\ changed' = (ChangedPaths(old, raw, Run.minversion) # {})
        /\ newM'[c].files = f /\ newM'[c].includes = newM[c].includes \cup {Core}
        /\ \A b \in Bundle \ {c} : newM'[b] = newM[b]
    BY <1>0, BundleCompared DEF Delivering
  <1>2. /\ HistoryInv /\ TypeInv /\ pc # "idle" /\ Core \in Bundle /\ Groups \subseteq Bundle
        /\ Prior(c)' = Prior(c) /\ Run' = Run /\ FullChroot(Run)' = FullChroot(Run)
        /\ newM[Core].includes = {} /\ Listing /\ HashesOK /\ CleanRerun
    BY <1>1, DeliveringRun, UpdateAssumption
       DEF Delivering, Keeping, MemoryKept, Comparing, Listing, ReleaseInv
  <1>3. TrueTo(all, c) /\ DOMAIN Run.img[c] \ Withheld(Run) \subseteq DOMAIN all
        /\ DOMAIN all = LivePaths(all)
    BY <1>1, <1>2, RawShows
  <1>4. Part(raw, AddHashes(FromDirectory(Run.img[c], nv, Run.ban), newFull.files))
    <2>1. Part(raw, all)
      BY DropsPart DEF SubtractIncludes
    <2>2. QED
      BY <1>1, <2>1
  <1>5. /\ LivePaths(f) = DOMAIN raw /\ TrueTo(f, c) /\ GhostsKnown(f)
        /\ ChangedPaths(old, raw, Run.minversion) = {} => Repeats(Prior(c).files, f)
    BY <1>1, <1>2, <1>4, RawMatched
  <1>6. Reach(AllIncludes(newM), c)' = Reach(AllIncludes(newM), c)
        /\ Reach(AllIncludes(newM), c) = Reach(inc, c)
    <2>1. \A b \in Bundle : /\ newM'[b].includes \cup {Core} = newM[b].includes \cup {Core}
                            /\ b = Core => newM'[b].includes = newM[b].includes
      BY <1>1
    <2>2. Reach(AllIncludes(newM), c)' = Reach(AllIncludes(newM), c)
      BY <2>1, SameIncludes
    <2> DEFINE inc2 == AllIncludes(newM)
    <2>3. Core \in inc[c] /\ inc2[c] \subseteq inc[c] /\ Core \in inc2[c] /\ inc[c] \subseteq inc2[c]
      BY <1>1 DEF Includes, AllIncludes
    <2>4. \A x \in Bundle : inc2[x] \subseteq inc[x] \cup {Core} /\ inc[x] \subseteq inc2[x] \cup {Core}
      BY DEF Includes, AllIncludes
    <2> HIDE DEF inc, inc2
    <2>5. Reach(inc2, c) \subseteq Reach(inc, c) /\ Reach(inc, c) \subseteq Reach(inc2, c)
      BY <2>3, <2>4, ReachWithin
    <2>6. QED
      BY <2>2, <2>5 DEF inc2
  <1>7. \A x \in Reach(inc, c) : x \in Groups /\ x # c
    BY <1>1 DEF Resolvable
  <1>8. ASSUME NEW p \in DOMAIN newM[c].files, p \notin DOMAIN raw, Firmly(p)
        PROVE  \E e \in Reach(inc, c) : p \in LivePaths(newM[e].files)
    <2>1. p \in DOMAIN all /\ all[p] = AddHashes(newM[c].files, newFull.files)[p]
      BY <1>8 DEF AddHashes
    <2>2. PICK e \in Reach(inc, c) : p \in DOMAIN newM[e].files
                                     /\ Covers(all[p], newM[e].files[p])
      BY <1>8, <2>1 DEF SubtractIncludes, Subtracted, Restrict
    <2>3. GhostsKnown(newM[e].files)
      BY <1>0, <1>1, <1>7, <2>2, OthersShown
    <2>4. p \in BootPaths => all[p].kind = "F"
      <3>1. p \in DOMAIN Run.img[c] /\ all[p].kind = KindOf[Run.img[c][p]]
        BY <1>3, <2>1 DEF TrueTo
      <3>2. QED
        BY <1>1, <1>2, <1>8, <3>1, FirmRun
    <2>5. Live(newM[e].files[p])
      BY <2>2, <2>3, <2>4 DEF GhostsKnown, Covers
    <2>6. QED
      BY <2>2, <2>5 DEF LivePaths
  <1> HIDE DEF f, raw, old, all, inc
  <1>9. HandedOn(c)
    <2>1. SUFFICES ASSUME NEW p \in LivePaths(newM[c].files), Firmly(p)
                   PROVE  \E e \in {c} \cup Reach(AllIncludes(newM), c) :
                             p \in LivePaths(newM'[e].files)
      BY DEF HandedOn
    <2>2. CASE p \in DOMAIN raw
      BY <1>1, <1>5, <2>2
    <2>3. CASE p \notin DOMAIN raw
      <3>1. PICK e \in Reach(inc, c) : p \in LivePaths(newM[e].files)
        BY <1>8, <2>1, <2>3 DEF LivePaths
      <3>2. newM'[e] = newM[e]
        BY <1>1, <1>2, <1>7, <3>1
      <3>3. QED
        BY <1>6, <3>1, <3>2
    <2>4. QED
      BY <2>2, <2>3
  <1>10. MatchedShown(c)'
    BY <1>1, <1>2, <1>5 DEF MatchedShown, Shown, TrueTo, GhostsKnown, Repeats
  <1>11. Reach(AllIncludes(newM), c)' \subseteq Groups
    BY <1>6, <1>7
  <1>12. QED
    BY <1>0, <1>1, <1>9, <1>10, <1>11, StayShown

LEMMA BundleUnchangedShown ==
    ASSUME Delivering, BundleUnchanged
    PROVE  ReleaseInv'
  <1>0. PICK c : c = Current
    OBVIOUS
  <1>1. /\ pc = "bundleMatched" /\ gi' = gi + 1 /\ pc' = AfterBundle /\ InLoop
        /\ ~changed /\ oldM[c].includes = newM[c].includes /\ UNCHANGED newFull
        /\ newM' = [newM EXCEPT ![c].version = oldM[c].version]
    BY <1>0 DEF BundleUnchanged, KeepOldVersion, IncludesChanged, InLoop
  <1>2. /\ c \in Bundle /\ Prior(c)' = Prior(c) /\ nv' = nv /\ Run' = Run /\ Keeping
        /\ FullChroot(Run)' = FullChroot(Run)
    BY <1>0, <1>1, DeliveringRun, CurrentMatched DEF Delivering, Keeping
  <1>3. /\ newM'[c].files = newM[c].files /\ newM'[c].includes = newM[c].includes
        /\ \A b \in Bundle \ {c} : newM'[b] = newM[b]
    BY <1>1, <1>2, FieldSet
  <1>4. MatchedShown(c) /\ oldM[c].includes \subseteq Prior(c).includes \cup {Core}
    BY <1>0, <1>1, <1>2
       DEF Delivering, ReleaseInv, StagesShown, Keeping, MemoryKept, Comparing
  <1>5. FinalShown(c)'
    BY <1>1, <1>2, <1>3, <1>4
       DEF FinalShown, MatchedShown, Shown, TrueTo, GhostsKnown, Repeats
  <1>6. HandedOn(c)
    BY <1>3 DEF HandedOn
  <1>7. QED
    BY <1>0, <1>1, <1>2, <1>3, <1>5, <1>6, NextShown

\* A changed bundle that is not worth writing installs what it did.
LEMMA BundleChangedShown ==
    ASSUME Delivering, BundleChanged
    PROVE  ReleaseInv'
  <1>0. PICK c : c = Current
    OBVIOUS
  <1>1. /\ pc = "bundleMatched" /\ UNCHANGED <<disk, oldM, newFull>> /\ InLoop
        /\ c \in Bundle /\ c \notin Finished /\ MatchedWell(c) /\ MatchedKept(c)
    BY <1>0, BundleCompleted DEF Delivering
  <1>2. PICK m \in MatchingsOf(c) :
          LET f     == Completed(oldM[c], newM[c], m)
              write == WorthWriting(c, f)
          IN  /\ gi' = IF write THEN gi ELSE gi + 1
              /\ pc' = IF write THEN "writeBundle" ELSE AfterBundle
              /\ ~write => /\ oldM[c].includes = newM[c].includes
                           /\ \A p \in DOMAIN f : f[p].last # nv
              /\ newM'[c].files = f /\ newM'[c].includes = newM[c].includes
              /\ newM'[c].version = IF write THEN newM[c].version ELSE oldM[c].version
              /\ \A b \in Bundle \ {c} : newM'[b] = newM[b]
    BY <1>0, BundleCompleted DEF Delivering
  <1>3. PICK f : f = Completed(oldM[c], newM[c], m)
    OBVIOUS
  <1> DEFINE write == WorthWriting(c, f)
  <1>4. write \in BOOLEAN
    BY DEF WorthWriting, IncludesChanged
  <1>5. /\ gi' = IF write THEN gi ELSE gi + 1
        /\ pc' = IF write THEN "writeBundle" ELSE AfterBundle
        /\ ~write => oldM[c].includes = newM[c].includes /\ \A p \in DOMAIN f : f[p].last # nv
        /\ newM'[c].files = f /\ newM'[c].includes = newM[c].includes
        /\ \A b \in Bundle \ {c} : newM'[b] = newM[b]
    BY <1>2, <1>3
  <1> HIDE DEF write
  <1>6. /\ Run' = Run /\ nv' = nv /\ Prior(c)' = Prior(c) /\ Groups' = Groups
        /\ FullChroot(Run)' = FullChroot(Run)
    BY <1>1, DeliveringRun
  <1>7. MatchedShown(c) /\ oldM[c].includes \subseteq Prior(c).includes \cup {Core} /\ c # Core
        /\ Reach(AllIncludes(newM), c) \subseteq Groups
    <2>1. c # Core
      BY <1>1, DeliveringRun, Cursor
    <2>2. QED
      BY <1>0, <1>1, <2>1 DEF Delivering, ReleaseInv, StagesShown, IncludesOK, Compares, Keeping,
         MemoryKept, Comparing
  <1>8. /\ TrueTo(f, c) /\ GhostsKnown(f)
        /\ LivePaths(newM[c].files) \ Withheld(Run) \subseteq LivePaths(f)
        /\ (\A p \in DOMAIN f : f[p].last # nv) => Repeats(Prior(c).files, f)
    BY <1>1, <1>3, <1>7, CompletedShown DEF MatchedShown
  <1>9. Shown(c)'
    BY <1>5, <1>6, <1>8 DEF Shown, TrueTo, GhostsKnown
  <1>10. HandedOn(c)
    BY <1>5, <1>8 DEF HandedOn
  <1>11. CASE write
    <2>1. Reach(AllIncludes(newM), c)' = Reach(AllIncludes(newM), c)
      BY <1>5, SameIncludes
    <2>2. QED
      BY <1>0, <1>1, <1>5, <1>7, <1>9, <1>10, <1>11, <2>1, StayShown
  <1>12. CASE ~write
    <2>1. FinalShown(c)'
      BY <1>5, <1>6, <1>7, <1>8, <1>9, <1>12 DEF FinalShown, Repeats
    <2>2. QED
      BY <1>0, <1>1, <1>5, <1>10, <1>12, <2>1, NextShown
  <1>13. QED
    BY <1>4, <1>11, <1>12

LEMMA WriteBundleShown ==
    ASSUME Delivering, WriteBundle
    PROVE  ReleaseInv'
  <1>0. PICK c : c = Current
    OBVIOUS
  <1>1. /\ pc = "writeBundle" /\ gi' = gi + 1 /\ pc' = AfterBundle /\ InLoop
        /\ UNCHANGED <<newM, newFull>>
    BY DEF WriteBundle, InLoop
  <1>2. /\ c \in Bundle /\ nv' = nv
    BY <1>0, <1>1, DeliveringRun, Cursor
  <1>3. newM[c].version = nv /\ Shown(c)
    BY <1>0, <1>1 DEF Delivering, Keeping, Continues, HistoryInv, StagesOK, Ready, ReleaseInv,
       StagesShown
  <1>4. FinalShown(c)'
    <2>1. Shown(c)'
      BY <1>1, <1>2, <1>3, SameShown
    <2>2. QED
      BY <1>1, <1>2, <1>3, <2>1 DEF FinalShown
  <1>5. HandedOn(c)
    BY <1>1 DEF HandedOn
  <1>6. QED
    BY <1>0, <1>1, <1>2, <1>4, <1>5, NextShown

\* Phases 4 and 5: the manifests are final.
LEMMA FinishShown ==
    ASSUME Delivering, WriteMoM \/ WriteFull
    PROVE  ReleaseInv'
  <1>1. pc \in {"mom", "writeFull"} /\ pc' \in {"writeFull", "done"} /\ UNCHANGED <<newM, newFull>>
    BY DEF WriteMoM, WriteFull
  <1>2. /\ BuildsOK' /\ HashesOK' /\ Groups' = Groups /\ Groups \subseteq Bundle /\ Run' = Run
        /\ Core \in Bundle /\ nv' = nv
    BY <1>1, DeliveringRun, UpdateAssumption DEF Listing
  <1>3. Through = Groups /\ Groups \subseteq Compares /\ Complete
    BY <1>1 DEF Through, Compares, Finished, Written, Complete
  <1>4. Through' = Groups /\ Compares' = Groups
    BY <1>1, <1>2 DEF Through, Compares, Finished, Written
  <1>5. \A b : Reach(AllIncludes(newM), b)' = Reach(AllIncludes(newM), b)
    BY <1>1, SameIncludes
  <1>6. IncludesOK'
    BY <1>1, <1>2, <1>3, <1>4, <1>5 DEF Delivering, ReleaseInv, IncludesOK
  <1>7. StagesShown'
    <2>1. \A b \in Groups : FinalShown(b)'
      BY <1>1, <1>2, <1>3, SameShown DEF Delivering, ReleaseInv, StagesShown
    <2>2. QED
      BY <1>1, <1>4, <2>1 DEF StagesShown
  <1>8. BringsOK'
    <2>1. HandedOn(Core)
      BY <1>1 DEF HandedOn
    <2>2. \A b \in Groups : Brings(b)'
      BY <1>1, <1>2, <1>3, <1>5, <2>1, BringsStep DEF Delivering, ReleaseInv, BringsOK
    <2>3. QED
      BY <1>1, <1>2, <2>2 DEF BringsOK
  <1>9. QED
    BY <1>2, <1>6, <1>7, <1>8 DEF ReleaseInv
-----------------------------------------------------------------------------
(* The new release *)

\* What is about to be in force for a bundle: what the build has for it, as it was
\* completed or as the old manifest had it already.
LEMMA NewShown ==
    ASSUME DeletionInv, ReleaseInv, pc = "done", NEW b \in Groups
    PROVE  LET m == InForce(nv, b)
           IN  /\ b \in Listed(nv) /\ Orderly(m.files) /\ Repeats(m.files, newM[b].files)
               /\ \A p \in LivePaths(m.files) : Firmly(p) =>
                     /\ p \in DOMAIN Run.img[b] /\ m.files[p].hash = FullChroot(Run)[p]
                     /\ p \in BootPaths => m.files[p].kind = "F"
               /\ b = Core => m.includes = {}
               /\ b # Core => /\ m.includes \subseteq newM[b].includes
                              /\ newM[b].includes \subseteq m.includes \cup {Core}
  <1> DEFINE m == InForce(nv, b)
             s == wwwMoM[nv].subs[b]
  <1>1. HistoryInv /\ RecordsOK /\ MemoryKept /\ StagesKept /\ TypeInv /\ HistoryOK /\ BuildsOK
        /\ pc # "idle"
    BY DEF DeletionInv, HistoryInv, IntactInv, ReleaseInv
  <1>2. b \in Listed(nv) /\ s = newM[b].version /\ FinalKept(b) /\ FinalShown(b)
    <2>1. wwwMoM[nv].subs = [c \in Groups |-> newM[c].version]
      BY <1>1 DEF StagesKept, Written
    <2>2. FinalKept(b) /\ FinalShown(b)
      BY <1>1 DEF StagesKept, ReleaseInv, StagesShown, Through, Written
    <2>3. QED
      BY <2>1, <2>2 DEF Listed
  <1>3. /\ b \in Bundle /\ Orderly(m.files) /\ Trims(m.files, newM[b].files)
        /\ b = Core => m.includes = {}
        /\ b # Core => m.includes \subseteq newM[b].includes
    BY <1>1, <1>2, NewKept
  <1>4. CASE s # nv
    <2>1. s = SubVersion(OldMoM, b) /\ Prior(b).version = s /\ IsManifest(Prior(b))
      BY <1>1, <1>2, <1>3, <1>4, PriorCases DEF FinalKept, HistoryInv
    <2>2. CASE s = 0
      <3>1. www[s][b] = Absent /\ OldFile(b) = Absent
        BY <1>1, <1>3, <2>1, <2>2, ReadBundle DEF HistoryOK, HistoryInv
      <3>2. m.files = <<>> /\ m.includes = {}
        BY <3>1 DEF InForce, NoManifest
      <3>3. Prior(b).files = <<>> /\ Prior(b).includes = {}
        BY <3>1 DEF Prior, FromFile, NewManifest
      <3>4. Repeats(m.files, newM[b].files)
            /\ (b # Core => newM[b].includes \subseteq m.includes \cup {Core})
        BY <1>2, <1>4, <3>2, <3>3 DEF FinalShown
      <3>5. LivePaths(m.files) = {}
        BY <3>2 DEF LivePaths
      <3>6. QED
        BY <1>2, <1>3, <3>4, <3>5
    <2>3. CASE s # 0
      <3>1. /\ Prior(b) = www[s][b] /\ lastVer \in published
            /\ b \in Listed(lastVer) /\ InForce(lastVer, b) = Prior(b)
        BY <1>1, <1>3, <2>1, <2>3, PriorCases DEF HistoryInv
      <3>2. m = Prior(b)
        BY <2>1, <3>1, Distinct DEF InForce
      <3>3. Repeats(m.files, newM[b].files)
            /\ (b # Core => newM[b].includes \subseteq m.includes \cup {Core})
        BY <1>2, <1>4, <3>2 DEF FinalShown
      <3>4. \A p \in LivePaths(m.files) \cap BootPaths : Firmly(p) => m.files[p].kind = "F"
        BY <1>1, <3>1, <3>2 DEF BuildsOK, BootKinds
      <3>5. ASSUME NEW p \in LivePaths(m.files), Firmly(p)
            PROVE  p \in DOMAIN Run.img[b] /\ m.files[p].hash = FullChroot(Run)[p]
        <4>1. Firm(m.files, p)
          BY <3>4, <3>5 DEF Firmly, Firm, LivePaths
        <4>2. p \in LivePaths(newM[b].files)
          BY <1>3, <3>5, <4>1 DEF Trims
        <4>3. QED
          BY <1>2, <3>3, <4>2 DEF FinalShown, Shown, TrueTo, Repeats
      <3>6. QED
        BY <1>2, <1>3, <3>3, <3>4, <3>5
    <2>4. QED
      BY <2>2, <2>3
  <1>5. CASE s = nv
    <2>1. www[nv][b] = newM[b] /\ IsManifest(newM[b])
      <3>1. Prior(b).version # nv
        BY <1>1, <1>3, PriorHistory
      <3>2. QED
        BY <1>1, <1>2, <1>3, <1>5, <3>1 DEF FinalKept, TypeInv, TypeOK, RunTypeOK
    <2>2. m = newM[b]
      BY <1>5, <2>1, Distinct DEF InForce
    <2>3. Repeats(m.files, newM[b].files)
      BY <2>2 DEF Repeats
    <2>4. ASSUME NEW p \in LivePaths(m.files), Firmly(p)
          PROVE  /\ p \in DOMAIN Run.img[b] /\ m.files[p].hash = FullChroot(Run)[p]
                 /\ p \in BootPaths => m.files[p].kind = "F"
      <3>1. /\ p \in DOMAIN Run.img[b] /\ m.files[p].kind = KindOf[Run.img[b][p]]
            /\ m.files[p].hash = FullChroot(Run)[p]
        BY <1>2, <2>2, <2>4 DEF FinalShown, Shown, TrueTo
      <3>2. QED
        BY <1>1, <1>3, <2>4, <3>1, FirmRun
    <2>5. QED
      BY <1>2, <1>3, <2>2, <2>3, <2>4
  <1>6. QED
    BY <1>4, <1>5

\* What a client of the new release has with a bundle is what the build says.
LEMMA NewInstalled ==
    ASSUME DeletionInv, ReleaseInv, pc = "done", NEW b \in Groups
    PROVE  LET all == {b, Core} \cup Reach(AllIncludes(newM), b)
           IN  /\ Installed(nv, b) = all /\ {b, Core} \cup Reach(Run.inc, b) = all
               /\ all \subseteq Groups /\ Listed(nv) = Groups
               /\ \A c \in all : Reach(AllIncludes(newM), c) \subseteq all
  <1> DEFINE new == AllIncludes(newM)
             inc == [c \in Bundle |-> IF c \in Listed(nv) THEN InForce(nv, c).includes ELSE {}]
  <1>1. /\ Groups \subseteq Bundle /\ Core \in Groups /\ newM[Core].includes = {}
        /\ Run.inc[Core] = {} /\ Listed(nv) = Groups
    <2>1. TypeInv /\ pc # "idle"
      BY DEF DeletionInv, HistoryInv, IntactInv
    <2>2. nv \in Version /\ Run \in plan[nv] /\ plan \in Inputs
      BY <2>1 DEF TypeInv, TypeOK, DiskTypeOK, StepOK
    <2>3. Run.inc[Core] = {}
      BY <2>2, UpdateAssumption
    <2>4. wwwMoM[nv].subs = [c \in Groups |-> newM[c].version]
      BY DEF DeletionInv, StagesKept, Written
    <2>5. QED
      BY <2>1, <2>3, <2>4, RunType DEF DeletionInv, MemoryKept, Written, Listed
  <1>2. new[Core] = {} /\ Reach(new, Core) = {}
    BY <1>1, ReachSteps DEF AllIncludes
  <1>3. Reach(new, b) \subseteq Groups
    <2>1. CASE b = Core
      BY <1>2, <2>1
    <2>2. CASE b # Core
      BY <2>2 DEF ReleaseInv, IncludesOK, Compares, Written
    <2>3. QED
      BY <2>1, <2>2
  <1>4. inc[Core] = {} /\ \A x \in Groups \ {Core} : inc[x] \subseteq new[x]
                                                  /\ new[x] \subseteq inc[x] \cup {Core}
    <2>1. inc[Core] = {}
      BY <1>1, NewShown
    <2>2. ASSUME NEW x \in Groups \ {Core}
          PROVE  inc[x] \subseteq new[x] /\ new[x] \subseteq inc[x] \cup {Core}
      <3>1. /\ InForce(nv, x).includes \subseteq newM[x].includes
            /\ newM[x].includes \subseteq InForce(nv, x).includes \cup {Core}
        BY NewShown
      <3>2. inc[x] = InForce(nv, x).includes /\ new[x] = newM[x].includes \cup {Core}
        BY <1>1 DEF AllIncludes
      <3>3. QED
        BY <3>1, <3>2
    <2>3. QED
      BY <2>1, <2>2
  <1>5. \A x \in Groups \ {Core} : /\ Run.inc[x] \subseteq new[x]
                                   /\ new[x] \subseteq Run.inc[x] \cup {Core}
    <2>1. \A x \in Groups \ {Core} : newM[x].includes \cup {Core} = Run.inc[x] \cup {Core}
      BY DEF ReleaseInv, IncludesOK, Complete, Written
    <2>2. \A x \in Groups \ {Core} : new[x] = newM[x].includes \cup {Core}
      BY <1>1 DEF AllIncludes
    <2>3. QED
      BY <2>1, <2>2
  <1>6. Installed(nv, b) = {b, Core} \cup Reach(inc, b)
    BY DEF Installed
  <1> HIDE DEF new, inc
  <1>7. Groups \in SUBSET Bundle
    BY <1>1
  <1>8. {b, Core} \cup Reach(inc, b) = {b, Core} \cup Reach(new, b)
    BY <1>2, <1>3, <1>4, <1>7, SameReach
  <1>9. {b, Core} \cup Reach(Run.inc, b) = {b, Core} \cup Reach(new, b)
    BY <1>1, <1>2, <1>3, <1>5, <1>7, SameReach
  <1>10. \A c \in {b, Core} \cup Reach(new, b) : Reach(new, c) \subseteq {b, Core} \cup Reach(new, b)
    BY <1>2, ReachSteps
  <1>11. QED
    BY <1>1, <1>3, <1>6, <1>8, <1>9, <1>10 DEF new

\* The new release delivers its build.
LEMMA NewDelivers ==
    ASSUME DeletionInv, ReleaseInv, pc = "done"
    PROVE  Delivers(nv) /\ BootKinds(nv)
  <1>1. TypeInv /\ pc # "idle" /\ image[nv] = Run /\ Run \in Input /\ Groups = Range(Run.groups)
    BY RunType DEF DeletionInv, HistoryInv, IntactInv, Run, Groups
  <1>2. Listed(nv) = Groups
    BY <1>1, RunType, NewInstalled
  <1>3. BootKinds(nv)
    BY <1>2, NewShown DEF BootKinds
  <1>4. ASSUME NEW b \in Groups, NEW p \in Path, Firmly(p)
        PROVE  /\ p \in DOMAIN Delivered(nv, b) <=> p \in DOMAIN Built(Run, b)
               /\ p \in DOMAIN Delivered(nv, b) => Delivered(nv, b)[p] = Built(Run, b)[p]
    <2> DEFINE all   == {b, Core} \cup Reach(AllIncludes(newM), b)
               files == {InForce(nv, c).files : c \in all}
               banned == IF Run.ban THEN DebugPaths ELSE {}
    <2>1. /\ Installed(nv, b) = all /\ {b, Core} \cup Reach(Run.inc, b) = all
          /\ all \subseteq Groups
          /\ \A c \in all : Reach(AllIncludes(newM), c) \subseteq all
      BY NewInstalled
    <2> HIDE DEF all
    <2>2. Installed(nv, b) \cap Listed(nv) = all
      BY <1>2, <2>1
    <2>3. Delivered(nv, b) =
            [q \in (UNION {LivePaths(f) : f \in files}) \ banned |->
                {f[q].hash : f \in {g \in files : q \in LivePaths(g)}}]
      BY <1>1, <2>2 DEF Delivered
    <2>4. Built(Run, b) =
            [q \in (UNION {DOMAIN Run.img[c] : c \in all}) \ Withheld(Run) |->
                {FullChroot(Run)[q]}]
      BY <2>1 DEF Built
    <2>5. ASSUME NEW f \in files, p \in LivePaths(f)
          PROVE  /\ f[p].hash = FullChroot(Run)[p]
                 /\ p \in UNION {DOMAIN Run.img[c] : c \in all}
                 /\ p \notin banned => p \notin Withheld(Run)
      <3>1. PICK c \in all : f = InForce(nv, c).files
        OBVIOUS
      <3>2. c \in Groups
        BY <2>1
      <3>3. Orderly(f) /\ p \in DOMAIN Run.img[c] /\ f[p].hash = FullChroot(Run)[p]
        BY <1>4, <2>5, <3>1, <3>2, NewShown
      <3>4. p \notin banned => p \notin Withheld(Run)
        BY <2>5, <3>3 DEF Orderly, LivePaths, Withheld
      <3>5. QED
        BY <3>3, <3>4
    <2>6. ASSUME NEW c \in all, p \in DOMAIN Run.img[c], p \notin Withheld(Run)
          PROVE  p \notin banned /\ \E f \in files : p \in LivePaths(f)
      <3>1. Brings(c)
        BY <2>1 DEF ReleaseInv, BringsOK, Complete, Written
      <3>2. PICK d \in {c} \cup Reach(AllIncludes(newM), c) : p \in LivePaths(newM[d].files)
        BY <1>4, <2>6, <3>1 DEF Brings
      <3>3. d \in all /\ d \in Groups
        BY <2>1, <3>2
      <3>4. p \in LivePaths(InForce(nv, d).files)
        BY <3>2, <3>3, NewShown DEF Repeats
      <3>5. QED
        BY <2>6, <3>3, <3>4 DEF Withheld
    <2> HIDE DEF files, banned
    <2>7. ASSUME p \in DOMAIN Delivered(nv, b)
          PROVE  /\ p \in DOMAIN Built(Run, b)
                 /\ Delivered(nv, b)[p] = Built(Run, b)[p]
      <3>1. PICK f \in files : p \in LivePaths(f)
        BY <2>3, <2>7
      <3>2. p \in DOMAIN Built(Run, b)
        BY <2>3, <2>4, <2>5, <2>7, <3>1
      <3>3. Built(Run, b)[p] = {FullChroot(Run)[p]}
        BY <2>4, <3>2
      <3>4. {g[p].hash : g \in {h \in files : p \in LivePaths(h)}} = {FullChroot(Run)[p]}
        BY <2>5, <3>1
      <3>5. Delivered(nv, b)[p] = {g[p].hash : g \in {h \in files : p \in LivePaths(h)}}
        BY <2>3, <2>7
      <3>6. QED
        BY <3>2, <3>3, <3>4, <3>5
    <2>8. ASSUME p \in DOMAIN Built(Run, b)
          PROVE  p \in DOMAIN Delivered(nv, b)
      <3>1. PICK c \in all : p \in DOMAIN Run.img[c] /\ p \notin Withheld(Run)
        BY <2>4, <2>8
      <3>2. QED
        BY <2>3, <2>6, <3>1
    <2>9. QED
      BY <2>7, <2>8
  <1>5. QED
    BY <1>1, <1>2, <1>3, <1>4 DEF Delivers

\* What is on the disk is delivered, published or not.
LEMMA SameDelivered ==
    ASSUME UNCHANGED <<www, wwwMoM, image>>
    PROVE  \A v : /\ Listed(v)' = Listed(v)
                  /\ \A b : InForce(v, b)' = InForce(v, b) /\ Delivered(v, b)' = Delivered(v, b)
  <1>1. \A v : Listed(v)' = Listed(v) /\ \A b : InForce(v, b)' = InForce(v, b)
    BY DEF Listed, InForce
  <1>2. \A v : [c \in Bundle |-> IF c \in Listed(v) THEN InForce(v, c).includes ELSE {}]'
                 = [c \in Bundle |-> IF c \in Listed(v) THEN InForce(v, c).includes ELSE {}]
    BY <1>1
  <1>3. \A v : \A b : Installed(v, b)' = Installed(v, b)
    BY <1>2 DEF Installed, Reach
  <1>4. \A v : \A b : Delivered(v, b)' = Delivered(v, b)
    BY <1>1, <1>3 DEF Delivered
  <1>5. QED
    BY <1>1, <1>4

LEMMA PublishShown ==
    ASSUME CheckExit, DeletionInv, ReleaseInv, Publish
    PROVE  ReleaseInv'
  <1>1. /\ pc = "done" /\ pc' = "idle" /\ published' = published \cup {nv}
        /\ UNCHANGED <<www, wwwMoM, image>>
    BY DEF Publish, ForgetRun
  <1>2. Delivers(nv) /\ BootKinds(nv)
    BY <1>1, NewDelivers
  <1>3. \A v \in published : Delivers(v) /\ BootKinds(v)
    BY DEF ReleaseInv, BuildsOK, ReleasesDeliver
  <1>4. \A v : /\ Listed(v)' = Listed(v)
               /\ \A b : InForce(v, b)' = InForce(v, b) /\ Delivered(v, b)' = Delivered(v, b)
    BY <1>1, SameDelivered
  <1>5. ASSUME NEW v, Delivers(v)
        PROVE  Delivers(v)'
    <2>1. image'[v] = image[v]
      BY <1>1
    <2>2. \A b : Built(image[v], b)' = Built(image[v], b)
      BY <2>1 DEF Built, Withheld, FullChroot, Overlay, Reach
    <2>3. QED
      BY <1>4, <1>5, <2>1, <2>2 DEF Delivers
  <1>6. \A v : BootKinds(v) => BootKinds(v)'
    BY <1>4 DEF BootKinds
  <1>7. BuildsOK'
    BY <1>1, <1>2, <1>3, <1>5, <1>6 DEF BuildsOK, ReleasesDeliver
  <1>8. QED
    BY <1>1, <1>7, QuietShown
-----------------------------------------------------------------------------
(* The theorems *)

\* What keeps the releases as they are keeps what they deliver.
LEMMA IdleBuilds ==
    ASSUME DeletionInv, UNCHANGED <<published, www, wwwMoM>>,
           \A v \in published : image'[v] = image[v]
    PROVE  /\ \A v \in published : /\ Listed(v)' = Listed(v)
                                   /\ \A b : Delivered(v, b)' = Delivered(v, b)
           /\ BuildsOK => BuildsOK'
  <1>1. \A v : \A b : InForce(v, b)' = InForce(v, b)
    BY DEF InForce
  <1>2. QED
    BY <1>1, SameBuilds

\* The caller starts a version above all that are published.
LEMMA StartBuilds ==
    ASSUME DeletionInv, NEW w \in Version, NEW in \in plan[w], Start(w, in)
    PROVE  /\ \A v \in published : v < w /\ image'[v] = image[v]
           /\ in \in Input /\ image' = [image EXCEPT ![w] = in]
           /\ image \in [Version -> Input \cup {Absent}]
  <1>1. image' = [image EXCEPT ![w] = in] /\ w > lastVer
    BY DEF Start
  <1>2. /\ image \in [Version -> Input \cup {Absent}] /\ published \subseteq Version
        /\ plan \in Inputs /\ lastVer \in 0..MaxVersion
    BY DEF DeletionInv, HistoryInv, IntactInv, TypeInv, TypeOK, DiskTypeOK
  <1>3. plan[w] \subseteq Input
    BY <1>2, UpdateAssumption
  <1>4. \A v \in published : v <= lastVer
    BY DEF DeletionInv, HistoryInv, IntactInv, HistoryOK
  <1>5. ASSUME NEW v \in published
        PROVE  v < w /\ v # w /\ v \in Version
    <2>1. v \in 1..MaxVersion /\ w \in 1..MaxVersion /\ lastVer \in 0..MaxVersion
          /\ v <= lastVer
      BY <1>2, <1>4 DEF Version
    <2>2. v < w /\ v # w
      BY <1>1, <2>1, PathAssumption
    <2>3. QED
      BY <1>2, <2>2
  <1>6. \A v \in published : v < w /\ image'[v] = image[v]
    <2> SUFFICES ASSUME NEW v \in published PROVE v < w /\ image'[v] = image[v]
      OBVIOUS
    <2>1. DOMAIN image = Version
      BY <1>2
    <2>2. QED
      BY <1>1, <1>5, <2>1
  <1>7. in \in Input
    BY <1>3
  <1>8. QED
    BY <1>1, <1>2, <1>6, <1>7

LEMMA InitRelease == Init => ReleaseInv
  <1> SUFFICES ASSUME Init PROVE ReleaseInv
    OBVIOUS
  <1>1. ~Listing /\ ~Complete /\ Compares = {} /\ Through = {}
    BY DEF Init, Listing, InLoop, Complete, Written, Compares, Through, Finished
  <1>2. HashesOK /\ IncludesOK /\ StagesShown /\ BringsOK
    BY <1>1 DEF Init, HashesOK, IncludesOK, StagesShown, BringsOK
  <1>3. BuildsOK
    BY DEF Init, BuildsOK, ReleasesDeliver
  <1>4. QED
    BY <1>2, <1>3 DEF ReleaseInv

LEMMA NextRelease ==
    ASSUME CheckExit, CleanRerun, DeletionInv, ReleaseInv, [Next]_vars
    PROVE  ReleaseInv'
  <1>0. DeletionInv' /\ HistoryInv' /\ IntactInv' /\ BuildsOK
    BY NextDeletion DEF DeletionInv, HistoryInv, ReleaseInv
  <1>1. CASE UNCHANGED vars
    <2>1. UNCHANGED <<published, image, www, wwwMoM, pc, nv, gi, changed, newFull, newM>>
          /\ Run' = Run /\ Groups' = Groups /\ \A b : Prior(b)' = Prior(b)
      BY <1>1 DEF vars, disk, proc, Run, Groups, OldMoM, OldMoMFile, Prior, FromFile, OldFile,
                  Read, SubVersion, NewManifest
    <2>2. BuildsOK'
      BY <1>0, <2>1, IdleBuilds
    <2>3. /\ Through' = Through /\ Compares' = Compares /\ Current' = Current
          /\ (Listing' <=> Listing) /\ (Complete' <=> Complete)
      BY <2>1 DEF Through, Compares, Finished, Written, Current, Listing, Complete, InLoop
    <2>4. FullChroot(Run)' = FullChroot(Run) /\ Withheld(Run)' = Withheld(Run)
      BY <2>1 DEF FullChroot, Overlay, Withheld
    <2>5. AllIncludes(newM)' = AllIncludes(newM)
      BY <2>1 DEF AllIncludes
    <2>6. \A b : Reach(AllIncludes(newM), b)' = Reach(AllIncludes(newM), b)
      BY <2>5 DEF Reach
    <2>7. \A b : Shown(b)' <=> Shown(b)
      BY <2>1, <2>4 DEF Shown, TrueTo
    <2>8. \A b : (MatchedShown(b)' <=> MatchedShown(b)) /\ (FinalShown(b)' <=> FinalShown(b))
      BY <2>1, <2>7 DEF MatchedShown, FinalShown
    <2>9. \A b : Brings(b)' <=> Brings(b)
      BY <2>1, <2>4, <2>6 DEF Brings
    <2>10. HashesOK' /\ IncludesOK'
      BY <2>1, <2>3, <2>4, <2>6 DEF ReleaseInv, HashesOK, IncludesOK
    <2>11. StagesShown'
      BY <2>1, <2>3, <2>7, <2>8 DEF ReleaseInv, StagesShown
    <2>12. BringsOK'
      BY <2>1, <2>3, <2>9 DEF ReleaseInv, BringsOK
    <2>13. QED
      BY <2>2, <2>10, <2>11, <2>12 DEF ReleaseInv
  <1>2. CASE \E v \in Version : \E in \in plan[v] : Start(v, in)
    <2>1. \A v \in published : image'[v] = image[v]
      BY <1>2, StartBuilds
    <2>2. UNCHANGED <<published, www, wwwMoM>> /\ pc' = "chroot"
      BY <1>2 DEF Start
    <2>3. QED
      BY <1>0, <2>1, <2>2, IdleBuilds, QuietShown
  <1>3. CASE CreateUpdateStep
    <2>1. ASSUME FormatTooOld \/ CoreTypeChange \/ IncludesUnresolvable
                 \/ BundleTypeChange \/ OldUnreadable
          PROVE  ReleaseInv'
      <3>1. UNCHANGED <<published, image, www, wwwMoM>> /\ pc' = "failed"
        BY <2>1 DEF FormatTooOld, CoreTypeChange, IncludesUnresolvable,
                    BundleTypeChange, OldUnreadable, Fail, disk
      <3>2. QED
        BY <1>0, <3>1, IdleBuilds, QuietShown
    <2>2. ASSUME CreateFullChroot
          PROVE  ReleaseInv'
      <3>1. UNCHANGED <<published, image, www, wwwMoM>> /\ pc' = "full"
        BY <2>2 DEF CreateFullChroot
      <3>2. QED
        BY <1>0, <3>1, IdleBuilds, QuietShown
    <2>3. ASSUME CreateFullManifest \/ MatchCore \/ CoreUnchanged \/ CoreChanged \/ WriteCore
                 \/ LoadBundles \/ SkipCore \/ MatchBundle \/ BundleUnchanged \/ BundleChanged
                 \/ WriteBundle \/ WriteMoM \/ WriteFull
          PROVE  ReleaseInv'
      <3>1. pc # "idle" /\ UNCHANGED <<lastVer, published, image, nv>>
        BY <2>3 DEF CreateFullManifest, MatchCore, CoreUnchanged, CoreChanged, WriteCore,
           LoadBundles, SkipCore, MatchBundle, BundleUnchanged, KeepOldVersion, BundleChanged,
           WriteBundle, WriteMoM, WriteFull, disk
      <3>2. Delivering
        BY <1>0, <3>1 DEF Delivering, Keeping, Continues, DeletionInv
      <3>3. QED
        BY <2>3, <3>2, CreateFullManifestShown, MatchCoreShown, CoreUnchangedShown,
           CoreChangedShown, WriteCoreShown, LoadBundlesShown, SkipCoreShown, MatchBundleShown,
           BundleUnchangedShown, BundleChangedShown, WriteBundleShown, FinishShown
    <2>4. QED
      BY <1>3, <2>1, <2>2, <2>3 DEF CreateUpdateStep
  <1>4. CASE Publish
    BY <1>4, PublishShown
  <1>5. CASE GiveUp
    <2>1. UNCHANGED <<published, image, www, wwwMoM>> /\ pc' = "idle"
      BY <1>5 DEF GiveUp, ForgetRun, disk
    <2>2. QED
      BY <1>0, <2>1, IdleBuilds, QuietShown
  <1>6. CASE Crash \/ CrashInChroot
    <2>1. UNCHANGED <<published, image, www, wwwMoM>> /\ pc' = "failed"
      BY <1>6 DEF Crash, CrashInChroot, disk
    <2>2. QED
      BY <1>0, <2>1, IdleBuilds, QuietShown
  <1>7. CASE CrashInWrite
    <2>1. pc # "idle" /\ pc' = "failed" /\ UNCHANGED <<lastVer, published, image, nv>>
      BY <1>7 DEF CrashInWrite
    <2>2. Delivering
      BY <1>0, <2>1 DEF Delivering, Keeping, Continues, DeletionInv
    <2>3. QED
      BY <2>1, <2>2, DeliveringRun, QuietShown
  <1>8. QED
    BY <1>1, <1>2, <1>3, <1>4, <1>5, <1>6, <1>7 DEF Next

ContentInv == DeletionInv /\ ReleaseInv

\* Each release delivers with each bundle exactly what the build of its version
\* has for that bundle and its includes, with the hashes of the union, whatever
\* runs failed before; but for debuginfo that builds ban and for boot files that
\* take the place of directories.
THEOREM BuildsDelivered == CheckExit /\ CleanRerun => (Spec => []ReleasesDeliver)
  <1> SUFFICES ASSUME CheckExit, CleanRerun PROVE Spec => []ReleasesDeliver
    OBVIOUS
  <1>1. Init => ContentInv
    BY InitDeletion, InitRelease DEF ContentInv
  <1>2. ContentInv /\ [Next]_vars => ContentInv'
    BY NextDeletion, NextRelease DEF ContentInv
  <1>3. ContentInv => ReleasesDeliver
    BY DEF ContentInv, ReleaseInv, BuildsOK
  <1>4. QED
    BY <1>1, <1>2, <1>3, PTL DEF Spec
-----------------------------------------------------------------------------
(* The refinement *)

\* What Release calls given and released.
Handed == [v \in {w \in Version : image[w] # Absent} |-> Contents(image[v])]
Out == [v \in published |-> [b \in Listed(v) |-> Delivered(v, b)]]

LEMMA SameContent ==
    ASSUME NEW v, image'[v] = image[v]
    PROVE  Contents(image[v])' = Contents(image[v])
  <1>1. \A b : Built(image[v], b)' = Built(image[v], b)
    BY DEF Built, Withheld, FullChroot, Overlay, Reach
  <1>2. QED
    BY <1>1 DEF Contents

LEMMA SameOut ==
    ASSUME UNCHANGED published,
           \A v \in published : /\ Listed(v)' = Listed(v)
                                /\ \A b : Delivered(v, b)' = Delivered(v, b)
    PROVE  Out' = Out
  <1>1. \A v \in published :
            [b \in Listed(v) |-> Delivered(v, b)]' = [b \in Listed(v) |-> Delivered(v, b)]
    OBVIOUS
  <1>2. QED
    BY <1>1 DEF Out

LEMMA SameHanded ==
    ASSUME UNCHANGED image
    PROVE  Handed' = Handed
  <1>1. \A v : Contents(image[v])' = Contents(image[v])
    BY SameContent
  <1>2. QED
    BY <1>1 DEF Handed

\* A start hands in a build.
LEMMA StartGives ==
    ASSUME DeletionInv, NEW w \in Version, NEW in \in plan[w], Start(w, in)
    PROVE  Abstract!Give(w)
  <1>1. /\ \A v \in published : v < w /\ image'[v] = image[v]
        /\ in \in Input /\ image' = [image EXCEPT ![w] = in]
        /\ image \in [Version -> Input \cup {Absent}]
        /\ UNCHANGED <<published, www, wwwMoM>>
    BY StartBuilds DEF Start
  <1>2. in # Absent
    BY <1>1, Distinct
  <1>3. image'[w] # Absent /\ \A v \in Version \ {w} : image'[v] = image[v]
    BY <1>1, <1>2
  <1>4. DOMAIN Handed' = DOMAIN Handed \cup {w}
    BY <1>3 DEF Handed
  <1>5. \A v \in DOMAIN Handed \ {w} : Handed'[v] = Handed[v]
    <2> SUFFICES ASSUME NEW v \in DOMAIN Handed \ {w} PROVE Handed'[v] = Handed[v]
      OBVIOUS
    <2>1. v \in Version \ {w} /\ image[v] # Absent
      BY DEF Handed
    <2>2. image'[v] = image[v] /\ Contents(image[v])' = Contents(image[v])
      BY <1>3, <2>1, SameContent
    <2>3. QED
      BY <2>1, <2>2 DEF Handed
  <1>6. Out' = Out
    BY <1>1, IdleBuilds, SameOut
  <1>7. DOMAIN Out = published
    BY DEF Out
  <1>8. QED
    BY <1>1, <1>4, <1>5, <1>6, <1>7 DEF Abstract!Give, Abstract!Newest, Handed, Out

\* A run that is done would release what was handed in.
LEMMA DoneDelivers ==
    ASSUME DeletionInv, ReleaseInv, pc = "done", \A p \in Path : Firmly(p)
    PROVE  [b \in Listed(nv) |-> Delivered(nv, b)] = Contents(image[nv])
  <1>1. Delivers(nv)
    BY NewDelivers
  <1>2. image[nv] \in Input /\ Listed(nv) = Range(image[nv].groups)
    BY <1>1 DEF Delivers
  <1>3. ASSUME NEW b \in Listed(nv)
        PROVE  Delivered(nv, b) = Built(image[nv], b)
    <2>1. DOMAIN Delivered(nv, b) \subseteq Path
      <3>1. \A c \in Listed(nv) : LivePaths(InForce(nv, c).files) \subseteq Path
        BY NewInForce DEF DeletionInv, LivePaths, IsFileList
      <3>2. QED
        BY <3>1 DEF Delivered
    <2>2. DOMAIN Built(image[nv], b) \subseteq Path
      <3>1. \A c \in {b, Core} \cup Reach(image[nv].inc, b) : c \in Bundle
        <4>1. b \in Bundle
          BY NewInForce DEF DeletionInv
        <4>2. QED
          BY <4>1, UpdateAssumption DEF Reach
      <3>2. \A c \in Bundle : DOMAIN image[nv].img[c] \subseteq Path
        BY <1>2, ImageType DEF Input
      <3>3. QED
        BY <3>1, <3>2 DEF Built
    <2>3. \A p \in Path :
            /\ p \in DOMAIN Delivered(nv, b) <=> p \in DOMAIN Built(image[nv], b)
            /\ p \in DOMAIN Delivered(nv, b) => Delivered(nv, b)[p] = Built(image[nv], b)[p]
      BY <1>1 DEF Delivers
    <2>4. /\ Delivered(nv, b) = [p \in DOMAIN Delivered(nv, b) |-> Delivered(nv, b)[p]]
          /\ Built(image[nv], b) = [p \in DOMAIN Built(image[nv], b) |-> Built(image[nv], b)[p]]
      BY DEF Delivered, Built
    <2>5. DOMAIN Delivered(nv, b) = DOMAIN Built(image[nv], b)
      BY <2>1, <2>2, <2>3
    <2>6. QED
      BY <2>1, <2>3, <2>4, <2>5
  <1>4. QED
    BY <1>2, <1>3 DEF Contents

\* Publishing releases it.
LEMMA PublishReleases ==
    ASSUME CheckExit, DeletionInv, ReleaseInv, Publish, \A p \in Path : Firmly(p)
    PROVE  nv \in Version /\ Abstract!Publish(nv)
  <1>1. /\ pc = "done" /\ published' = published \cup {nv}
        /\ UNCHANGED <<www, wwwMoM, image>>
    BY DEF Publish
  <1>2. nv \in Version /\ image[nv] # Absent
    BY <1>1, RunType, Distinct DEF DeletionInv, HistoryInv, IntactInv, Run
  <1>3. nv \notin published /\ \A v \in published : v < nv
    BY <1>1, NewVersion DEF DeletionInv, HistoryInv
  <1>4. DOMAIN Out = published /\ DOMAIN Out' = published \cup {nv}
    BY <1>1 DEF Out
  <1>5. Handed' = Handed /\ nv \in DOMAIN Handed /\ Handed[nv] = Contents(image[nv])
    BY <1>1, <1>2, SameHanded DEF Handed
  <1>6. \A v : [b \in Listed(v) |-> Delivered(v, b)]' = [b \in Listed(v) |-> Delivered(v, b)]
    <2>1. \A v : Listed(v)' = Listed(v) /\ \A b : Delivered(v, b)' = Delivered(v, b)
      BY <1>1, SameDelivered
    <2>2. QED
      BY <2>1
  <1>7. \A v \in published : Out'[v] = Out[v]
    BY <1>1, <1>6 DEF Out
  <1>8. Out'[nv] = Handed[nv]
    <2>1. Out'[nv] = [b \in Listed(nv) |-> Delivered(nv, b)]
      BY <1>1, <1>6 DEF Out
    <2>2. QED
      BY <1>1, <1>5, <2>1, DoneDelivers
  <1>9. QED
    BY <1>2, <1>3, <1>4, <1>5, <1>7, <1>8
    DEF Abstract!Publish, Abstract!Newest, Handed, Out

\* Every other step leaves both as they are.
LEMMA OtherSteps ==
    ASSUME HistoryInv, [Next]_vars, ~Publish, \A v \in Version : \A in \in plan[v] : ~Start(v, in)
    PROVE  UNCHANGED <<published, image>>
  <1>1. CASE UNCHANGED vars
    BY <1>1 DEF vars, disk
  <1>2. CASE CreateUpdateStep
    BY <1>2 DEF CreateUpdateStep, CreateFullChroot, CreateFullManifest, FormatTooOld, MatchCore,
       CoreUnchanged, CoreTypeChange, CoreChanged, WriteCore, LoadBundles, SkipCore,
       IncludesUnresolvable, MatchBundle, BundleUnchanged, KeepOldVersion, BundleTypeChange,
       BundleChanged, WriteBundle, WriteMoM, WriteFull, OldUnreadable, Fail, disk
  <1>3. CASE GiveUp \/ Crash \/ CrashInChroot \/ CrashInWrite
    BY <1>3 DEF GiveUp, Crash, CrashInChroot, CrashInWrite, disk
  <1>4. QED
    BY <1>1, <1>2, <1>3 DEF Next

\* The program and its caller implement Release, through failures, crashes and
\* reruns, for every build: what a run may do to the releases is to add one,
\* complete, above all others, with the content of the build that was handed in.
\* The caller looks at the exit status and empties the union before a rerun; no
\* build bans debuginfo, and where boot files live there are only files.
THEOREM Refinement ==
    CheckExit /\ CleanRerun /\ (\A p \in Path : Firmly(p)) => (Spec => ImplementsRelease)
  <1> SUFFICES ASSUME CheckExit, CleanRerun, \A p \in Path : Firmly(p)
               PROVE  Spec => ImplementsRelease
    OBVIOUS
  <1>1. Init => ContentInv
    BY InitDeletion, InitRelease DEF ContentInv
  <1>2. ContentInv /\ [Next]_vars => ContentInv'
    BY NextDeletion, NextRelease DEF ContentInv
  <1>3. Init => Abstract!Init
    <2> SUFFICES ASSUME Init PROVE Abstract!Init
      OBVIOUS
    <2>1. published = {} /\ \A v \in Version : image[v] = Absent
      BY DEF Init
    <2>2. DOMAIN Handed = {} /\ DOMAIN Out = {}
      BY <2>1 DEF Handed, Out
    <2>3. QED
      BY <2>2 DEF Abstract!Init, Handed, Out
  <1>4. ContentInv /\ [Next]_vars => [Abstract!Next]_<<Handed, Out>>
    <2> SUFFICES ASSUME ContentInv, [Next]_vars PROVE [Abstract!Next]_<<Handed, Out>>
      OBVIOUS
    <2>1. DeletionInv /\ ReleaseInv /\ HistoryInv
      BY DEF ContentInv, DeletionInv
    <2>2. ASSUME NEW w \in Version, NEW in \in plan[w], Start(w, in)
          PROVE  Abstract!Next
      BY <2>1, <2>2, StartGives DEF Abstract!Next
    <2>3. ASSUME Publish
          PROVE  Abstract!Next
      BY <2>1, <2>3, PublishReleases DEF Abstract!Next
    <2>4. ASSUME ~Publish, \A v \in Version : \A in \in plan[v] : ~Start(v, in)
          PROVE  UNCHANGED <<Handed, Out>>
      <3>1. UNCHANGED <<published, image>>
        BY <2>1, <2>4, OtherSteps
      <3>2. \A v \in published : wwwMoM'[v] = wwwMoM[v] /\ www'[v] = www[v]
        BY <2>1, PublishedStep DEF HistoryInv
      <3>3. /\ \A v \in published : Listed(v)' = Listed(v)
            /\ \A v \in published : \A b \in Listed(v) : InForce(v, b)' = InForce(v, b)
        <4>1. \A v \in published : \A b \in Listed(v) : wwwMoM[v].subs[b] \in published \cup {0}
          BY <2>1 DEF HistoryInv, IntactInv, HistoryOK, PublishedIntact
        <4>2. \A v \in published \cup {0} : www'[v] = www[v]
          BY <2>1, PublishedStep DEF HistoryInv
        <4>3. QED
          BY <3>2, <4>1, <4>2 DEF Listed, InForce
      <3>4. Out' = Out
        BY <3>1, <3>2, <3>3, SameBuilds, SameOut
      <3>5. QED
        BY <3>1, <3>4, SameHanded
    <2>5. QED
      BY <2>2, <2>3, <2>4
  <1>5. QED
    BY <1>1, <1>2, <1>3, <1>4, PTL DEF Spec, ImplementsRelease, Abstract!Spec, Handed, Out
-----------------------------------------------------------------------------
(***************************************************************************)
(* Renames come in pairs, where prune_manifest takes nothing away.  It     *)
(* runs after clean_renames and looks at no rename: it makes a ghost of    *)
(* one end and leaves the other.                                           *)
(***************************************************************************)

\* The paths no build prunes.
Unpruned(p) ==
    /\ p \notin BootPaths
    /\ ~(Stateless /\ p \in ConfigPaths)
    /\ ~(Bans /\ p \in DebugPaths)

NothingPruned == \A p \in Path : Unpruned(p)

\* The lists of the run that are to be written, and those that have been.
PairsOK ==
    /\ RenamesPaired
    /\ pc = "writeCore" => Coupled(newM[Core].files)
    /\ pc = "writeBundle" => Coupled(newM[Current].files)
    /\ \A b \in Through : newM[b].version = nv => Coupled(newM[b].files)

\* prune_manifest leaves such a list as it is.
LEMMA PrunedNothing ==
    ASSUME NothingPruned, NEW f, IsFileList(f), NEW ban, ban => Bans
    PROVE  Pruned(f, ban) = f
  <1>1. \A p \in DOMAIN f : /\ ~(p \in BootPaths) /\ ~(Stateless /\ p \in ConfigPaths)
                            /\ ~(ban /\ p \in DebugPaths)
    BY DEF NothingPruned, Unpruned, IsFileList
  <1> DEFINE g == Pruned(f, ban)
  <1>2. \A p : p \in DOMAIN g <=> p \in DOMAIN f
    BY <1>1 DEF Pruned
  <1>3. \A p \in DOMAIN g : p \notin BootPaths => g[p] = f[p]
    BY Zenon DEF Pruned
  <1>4. g = [p \in DOMAIN g |-> g[p]] /\ f = [p \in DOMAIN f |-> f[p]]
    BY DEF Pruned, IsFileList
  <1> HIDE DEF g
  <1>5. g = f
    <2>1. \A p \in DOMAIN f : g[p] = f[p]
      BY <1>1, <1>2, <1>3
    <2>2. DOMAIN g = DOMAIN f
      BY <1>2, <1>4
    <2>3. QED
      BY <1>4, <2>1, <2>2
  <1>6. QED
    BY <1>5 DEF g

\* Both ends of a rename that was just detected get into the list that is written:
\* a source was there before, so its tombstone is not one a format bump retires.
LEMMA CompletedCoupled ==
    ASSUME NothingPruned, Keeping, NEW b \in Bundle, MatchedWell(b), MatchedKept(b),
           NEW m \in MatchingsOf(b)
    PROVE  Coupled(Completed(oldM[b], newM[b], m))
  <1> DEFINE o      == oldM[b].files
             n      == newM[b].files
             prior  == Prior(b).files
             linked == RenamesLinked(n, m)
             bumped == Bumped(oldM[b], linked)
             kept   == WithoutOldGhosts(o, bumped)
  <1>1. IsFileList(o) /\ IsFileList(n) /\ HistoryInv /\ pc # "idle" /\ nv' = nv
    BY KeptRun, ManifestType
  <1>2. m \in RenameMatchings(o, n, nv)
    BY DEF MatchingsOf
  <1>3. Run.ban => Bans
    <2>1. nv \in Version /\ Run \in plan[nv] /\ plan \in Inputs
      BY KeptRun DEF TypeInv, TypeOK, DiskTypeOK, StepOK
    <2>2. QED
      BY <2>1 DEF Bans
  <1>4. IsFileList(linked) /\ EndsLinked(linked, m) /\ DOMAIN linked = DOMAIN n
    BY <1>1, <1>2, RenamesLinkedType, LinkedPairs, SameEntries
  <1>5. \A p \in DOMAIN n : linked[p].deleted = n[p].deleted /\ linked[p].ghosted = n[p].ghosted
    BY <1>1, SameEntries
  <1>6. ASSUME NEW t \in DOMAIN m
        PROVE  /\ t \in DOMAIN linked /\ ~linked[t].deleted
               /\ m[t] \in DOMAIN linked /\ m[t] \in RenameSources(o, n, nv)
    <2>1. m[t] \in RenameSources(o, n, nv)
      BY <1>2, <1>6 DEF RenameMatchings, Injection
    <2>2. QED
      BY <1>4, <1>6, <2>1 DEF EndsLinked, SameRename
  <1>7. \A p \in DOMAIN n : ~n[p].ghosted
    BY <1>1 DEF MatchedKept, Knows, NothingPruned, Unpruned, IsFileList
  <1>8. ASSUME NEW p \in RenameSources(o, n, nv)
        PROVE  p \in DOMAIN o /\ ~o[p].deleted
    <2>1. p \in DOMAIN n /\ p \in DOMAIN o /\ n[p].deleted /\ n[p].last = nv
      BY <1>8 DEF RenameSources
    <2>2. p \in DOMAIN prior /\ o[p] = prior[p]
      BY <2>1 DEF MatchedWell, Part
    <2>3. Firm(prior, p)
      BY <1>1, <2>1 DEF Firm, NothingPruned, Unpruned, IsFileList
    <2>4. prior[p].deleted => n[p].last = prior[p].last
      BY <2>1, <2>2, <2>3 DEF MatchedKept, Recalls, Live
    <2>5. prior[p].last < nv /\ prior[p].last \in published
      BY <1>1, <2>2, PriorHistory
    <2>6. nv \notin published
      BY <1>1, NewVersion DEF HistoryInv
    <2>7. QED
      BY <2>1, <2>2, <2>4, <2>5, <2>6
  <1> HIDE DEF linked
  <1>9. /\ Part(bumped, linked) /\ IsFileList(bumped)
        /\ \A p \in DOMAIN linked : ~(p \in DOMAIN o /\ o[p].deleted /\ linked[p].deleted)
                                      => p \in DOMAIN bumped
    <2>1. CASE oldM[b].format < Run.format
      <3>1. bumped = WithoutOldTombstones(o, linked)
        BY <2>1 DEF Bumped
      <3>2. Part(bumped, linked) /\ IsFileList(bumped)
        BY <1>4, <3>1, DropsPart, WithoutOldType
      <3>3. QED
        BY <3>1, <3>2 DEF WithoutOldTombstones, Restrict
    <2>2. CASE ~(oldM[b].format < Run.format)
      BY <1>4, <2>2 DEF Bumped, Part
    <2>3. QED
      BY <2>1, <2>2
  <1> HIDE DEF bumped
  <1>10. /\ Part(kept, bumped) /\ IsFileList(kept)
         /\ \A p \in DOMAIN bumped : ~bumped[p].ghosted => p \in DOMAIN kept
    BY <1>9, DropsPart, WithoutOldType DEF WithoutOldGhosts, Restrict
  <1> HIDE DEF kept
  <1>11. EndsLinked(kept, m)
    <2>1. Part(kept, linked)
      BY <1>9, <1>10 DEF Part
    <2>2. \A p \in DOMAIN linked : ~(p \in DOMAIN o /\ o[p].deleted /\ linked[p].deleted)
                                     => p \in DOMAIN kept
      BY <1>4, <1>5, <1>7, <1>9, <1>10 DEF Part
    <2>3. \A t \in DOMAIN m : t \in DOMAIN kept /\ m[t] \in DOMAIN kept
      BY <1>6, <1>8, <2>2
    <2>4. QED
      BY <1>4, <2>1, <2>3, PartLinked
  <1>12. Coupled(RenamesCleaned(kept, m)) /\ IsFileList(RenamesCleaned(kept, m))
    BY <1>10, <1>11, CleanedPairs, RenamesCleanedType
  <1>13. Completed(oldM[b], newM[b], m) = RenamesCleaned(kept, m)
    BY <1>3, <1>12, PrunedNothing DEF Completed, kept, bumped, linked
  <1>14. QED
    BY <1>12, <1>13

\* A step after which the run has nothing in memory that counts, or has stopped.
LEMMA QuietPairs ==
    ASSUME RenamesPaired',
           pc' \in {"idle", "chroot", "full", "core", "coreMatched", "failed"}
    PROVE  PairsOK'
  <1>1. Through' = {}
    BY DEF Through, Written, Finished
  <1>2. QED
    BY <1>1 DEF PairsOK

\* A step of a run that goes on.
Pairing == Keeping /\ DeletionInv' /\ PairsOK /\ NothingPruned

LEMMA PairingRun ==
    ASSUME Pairing
    PROVE  /\ RenamesPaired' /\ Keeping /\ TypeInv /\ HistoryInv /\ pc # "idle"
           /\ nv' = nv /\ Run' = Run /\ Groups' = Groups
           /\ Groups \subseteq Bundle /\ Core \in Groups
           /\ \A b \in Bundle : Prior(b).version # nv
  <1>1. /\ Keeping /\ TypeInv /\ HistoryInv /\ pc # "idle" /\ nv' = nv
        /\ Run' = Run /\ Groups' = Groups /\ Groups \subseteq Bundle /\ Core \in Groups
    BY KeptRun DEF Pairing
  <1>2. \A v \in published : /\ Listed(v)' = Listed(v)
                             /\ \A b \in Listed(v) : InForce(v, b)' = InForce(v, b)
    BY <1>1, SameRunHistory, PublishedStep DEF Keeping, Continues, HistoryInv, Listed
  <1>3. published' = published /\ RenamesPaired
    BY <1>1 DEF Keeping, Continues, Pairing, PairsOK
  <1>4. RenamesPaired'
    <2>1. \A v \in published : \A b \in Listed(v) : Coupled(InForce(v, b).files)
      BY <1>3 DEF RenamesPaired, Coupled, HasPartner
    <2>2. \A v \in published' : \A b \in Listed(v)' : Coupled(InForce(v, b)'.files)
      BY <1>2, <1>3, <2>1
    <2>3. QED
      BY <2>2 DEF RenamesPaired, Coupled, HasPartner, SameRename
  <1>5. \A b \in Bundle : Prior(b).version # nv
    BY <1>1, PriorHistory
  <1>6. QED
    BY <1>1, <1>4, <1>5

\* A bundle that goes back to the version it was compared with.
LEMMA PairsGiveUp ==
    ASSUME Pairing, NEW b \in Bundle, MatchedWell(b), newM'[b].version = oldM[b].version
    PROVE  newM'[b].version # nv
  BY PairingRun DEF MatchedWell

\* A step of the bundle loop that goes on with the next bundle.
LEMMA NextPairs ==
    ASSUME Pairing, InLoop, gi' = gi + 1, pc' = AfterBundle,
           NEW c \in Bundle, c = Current,
           newM'[c].version = nv => Coupled(newM'[c].files),
           \A b \in Bundle \ {c} : newM'[b] = newM[b]
    PROVE  PairsOK'
  <1>1. /\ Finished' \subseteq Finished \cup {c} /\ pc' \in {"bundle", "mom"}
        /\ nv' = nv /\ RenamesPaired' /\ Finished \subseteq Bundle
    BY PairingRun, CursorMoves, Cursor
  <1>2. Through' = Finished' /\ Through = Finished
    BY <1>1 DEF Through, Written, InLoop
  <1>3. \A b \in Through' : newM'[b].version = nv => Coupled(newM'[b].files)
    BY <1>1, <1>2 DEF Pairing, PairsOK
  <1>4. QED
    BY <1>1, <1>3 DEF PairsOK

\* A step of the bundle loop that stays at its bundle.
LEMMA StayPairs ==
    ASSUME Pairing, InLoop, pc' \in {"bundleMatched", "writeBundle"}, gi' = gi,
           NEW c \in Bundle, c = Current, c \notin Finished,
           pc' = "writeBundle" => Coupled(newM'[c].files),
           \A b \in Bundle \ {c} : newM'[b] = newM[b]
    PROVE  PairsOK'
  <1>1. nv' = nv /\ Run' = Run /\ RenamesPaired' /\ Finished \subseteq Bundle
    BY PairingRun, Cursor
  <1>2. Through' = Finished /\ Through = Finished /\ Current' = c
    BY <1>1 DEF Through, Written, InLoop, Finished, Current
  <1>3. \A b \in Through' : newM'[b].version = nv => Coupled(newM'[b].files)
    BY <1>1, <1>2 DEF Pairing, PairsOK
  <1>4. QED
    BY <1>1, <1>2, <1>3 DEF PairsOK

\* Phase 2: os-core.
LEMMA CorePairs ==
    ASSUME Pairing, CoreUnchanged \/ CoreChanged \/ WriteCore \/ LoadBundles
    PROVE  PairsOK'
  <1>0. /\ RenamesPaired' /\ nv' = nv /\ Core \in Bundle /\ Keeping /\ NothingPruned
        /\ RenamesPaired
    BY PairingRun, UpdateAssumption DEF Pairing, PairsOK
  <1>1. CASE CoreUnchanged
    <2>1. /\ pc = "coreMatched" /\ pc' = "load"
          /\ newM' = [newM EXCEPT ![Core].version = oldM[Core].version]
      BY <1>1 DEF CoreUnchanged
    <2>2. MatchedWell(Core)
      BY <1>0, <2>1 DEF Keeping, Continues, HistoryInv, StagesOK
    <2>3. newM'[Core].version = oldM[Core].version
      BY <1>0, <2>1, FieldSet
    <2>4. newM'[Core].version # nv
      BY <1>0, <2>2, <2>3, PairsGiveUp
    <2>5. Through' = {Core}
      BY <2>1 DEF Through, Written, Finished
    <2>6. QED
      BY <1>0, <2>1, <2>4, <2>5 DEF PairsOK
  <1>2. CASE CoreChanged
    <2>1. pc = "coreMatched" /\ pc' \in {"failed", "writeCore"}
      BY <1>2, Zenon DEF CoreChanged
    <2>2. PICK m \in MatchingsOf(Core) :
             newM' = [newM EXCEPT ![Core].files = Completed(oldM[Core], newM[Core], m)]
      BY <1>2 DEF CoreChanged
    <2>3. PICK f : f = Completed(oldM[Core], newM[Core], m)
      OBVIOUS
    <2>4. newM'[Core].files = f
      BY <1>0, <2>2, <2>3, FieldSet
    <2>5. MatchedWell(Core) /\ MatchedKept(Core)
      BY <1>0, <2>1 DEF Keeping, Continues, HistoryInv, StagesOK, StagesKept
    <2>6. Coupled(f)
      BY <1>0, <2>3, <2>5, CompletedCoupled
    <2>7. Through' = {}
      BY <2>1 DEF Through, Written, Finished
    <2>8. QED
      BY <1>0, <2>1, <2>4, <2>6, <2>7 DEF PairsOK
  <1>3. CASE WriteCore
    <2>1. pc = "writeCore" /\ pc' = "load" /\ newM' = newM
      BY <1>3 DEF WriteCore
    <2>2. Coupled(newM[Core].files)
      BY <2>1 DEF Pairing, PairsOK
    <2>3. Through' = {Core}
      BY <2>1 DEF Through, Written, Finished
    <2>4. QED
      BY <1>0, <2>1, <2>2, <2>3 DEF PairsOK
  <1>4. CASE LoadBundles
    <2>1. /\ pc = "load" /\ pc' = "bundle" /\ gi' = 1 /\ newM'[Core] = newM[Core]
      BY <1>0, <1>4 DEF LoadBundles
    <2>2. Through = {Core} /\ Through' = {Core}
      BY <2>1 DEF Through, Written, Finished
    <2>3. newM[Core].version = nv => Coupled(newM[Core].files)
      BY <2>2 DEF Pairing, PairsOK
    <2>4. QED
      BY <1>0, <2>1, <2>2, <2>3 DEF PairsOK
  <1>5. QED
    BY <1>1, <1>2, <1>3, <1>4

\* Phase 3: the other bundles.
LEMMA BundlePairs ==
    ASSUME Pairing, SkipCore \/ MatchBundle \/ BundleUnchanged \/ BundleChanged \/ WriteBundle
    PROVE  PairsOK'
  <1>0. PICK c : c = Current
    OBVIOUS
  <1>1. /\ RenamesPaired' /\ nv' = nv /\ Core \in Bundle /\ Keeping /\ NothingPruned /\ TypeInv
        /\ HistoryInv
    BY PairingRun, UpdateAssumption DEF Pairing
  <1>2. CASE SkipCore
    <2>1. /\ pc = "bundle" /\ c = Core /\ gi' = gi + 1 /\ pc' = AfterBundle
          /\ newM' = newM /\ InLoop
      BY <1>0, <1>2 DEF SkipCore, InLoop
    <2>2. Core \in Through
      BY <1>1, <2>1, Cursor DEF Through, Written
    <2>3. newM[Core].version = nv => Coupled(newM[Core].files)
      BY <2>2 DEF Pairing, PairsOK
    <2>4. QED
      BY <1>0, <1>1, <2>1, <2>3, NextPairs
  <1>3. CASE MatchBundle
    <2>1. /\ pc' = "bundleMatched" /\ InLoop /\ gi' = gi
          /\ c \in Bundle /\ c \notin Finished
          /\ \A b \in Bundle \ {c} : newM'[b] = newM[b]
      BY <1>0, <1>1, <1>3, BundleCompared
    <2>2. QED
      BY <1>0, <2>1, StayPairs
  <1>4. CASE BundleUnchanged
    <2>1. /\ pc = "bundleMatched" /\ gi' = gi + 1 /\ pc' = AfterBundle
          /\ newM' = [newM EXCEPT ![c].version = oldM[c].version]
      BY <1>0, <1>4 DEF BundleUnchanged, KeepOldVersion
    <2>2. InLoop /\ c \in Bundle /\ MatchedWell(c)
      BY <1>0, <1>1, <2>1, CurrentMatched DEF Keeping
    <2>3. /\ newM'[c].version = oldM[c].version
          /\ \A b \in Bundle \ {c} : newM'[b] = newM[b]
      BY <1>1, <2>1, <2>2, FieldSet
    <2>4. newM'[c].version # nv
      BY <2>2, <2>3, PairsGiveUp
    <2>5. QED
      BY <1>0, <2>1, <2>2, <2>3, <2>4, NextPairs
  <1>5. CASE BundleChanged
    <2>1. InLoop /\ c \in Bundle /\ c \notin Finished /\ MatchedWell(c) /\ MatchedKept(c)
      BY <1>0, <1>1, <1>5, BundleCompleted
    <2>2. PICK m \in MatchingsOf(c) :
             LET f     == Completed(oldM[c], newM[c], m)
                 write == WorthWriting(c, f)
             IN  /\ gi' = IF write THEN gi ELSE gi + 1
                 /\ pc' = IF write THEN "writeBundle" ELSE AfterBundle
                 /\ newM'[c].files = f
                 /\ newM'[c].version = IF write THEN newM[c].version ELSE oldM[c].version
                 /\ \A b \in Bundle \ {c} : newM'[b] = newM[b]
      BY <1>0, <1>1, <1>5, BundleCompleted
    <2>3. Coupled(newM'[c].files)
      BY <1>1, <2>1, <2>2, CompletedCoupled
    <2>4. CASE WorthWriting(c, Completed(oldM[c], newM[c], m))
      BY <1>0, <2>1, <2>2, <2>3, <2>4, StayPairs
    <2>5. CASE ~WorthWriting(c, Completed(oldM[c], newM[c], m))
      BY <1>0, <2>1, <2>2, <2>3, <2>5, NextPairs
    <2>6. QED
      BY <2>4, <2>5
  <1>6. CASE WriteBundle
    <2>1. /\ pc = "writeBundle" /\ gi' = gi + 1 /\ pc' = AfterBundle /\ InLoop /\ newM' = newM
      BY <1>6 DEF WriteBundle, InLoop
    <2>2. c \in Bundle /\ Coupled(newM[c].files)
      BY <1>0, <1>1, <2>1, Cursor DEF Pairing, PairsOK
    <2>3. QED
      BY <1>0, <2>1, <2>2, NextPairs
  <1>7. QED
    BY <1>2, <1>3, <1>4, <1>5, <1>6

\* Phases 4 and 5: the manifests are final.
LEMMA FinishPairs ==
    ASSUME Pairing, WriteMoM \/ WriteFull
    PROVE  PairsOK'
  <1>1. pc \in {"mom", "writeFull"} /\ pc' \in {"writeFull", "done"} /\ newM' = newM
    BY DEF WriteMoM, WriteFull
  <1>2. RenamesPaired' /\ nv' = nv /\ Groups' = Groups
    BY PairingRun
  <1>3. Through = Groups /\ Through' = Groups
    BY <1>1, <1>2 DEF Through, Finished, Written
  <1>4. QED
    BY <1>1, <1>2, <1>3 DEF Pairing, PairsOK

\* What is about to be in force for a bundle: the old manifest, or the new one.
LEMMA NewPairs ==
    ASSUME DeletionInv, PairsOK, pc = "done", NEW b \in Listed(nv)
    PROVE  Coupled(InForce(nv, b).files)
  <1> DEFINE s == wwwMoM[nv].subs[b]
  <1>1. /\ wwwMoM[nv].subs = [c \in Groups |-> newM[c].version]
        /\ HistoryInv /\ IntactInv /\ TypeInv /\ HistoryOK
    BY DEF DeletionInv, StagesKept, Written, HistoryInv, IntactInv
  <1>2. b \in Groups /\ s = newM[b].version /\ FinalKept(b) /\ b \in Through
    BY <1>1 DEF Listed, DeletionInv, StagesKept, Through, Written
  <1>3. b \in Bundle /\ IsManifest(Prior(b)) /\ IsManifest(newM[b])
    BY <1>1, <1>2, RunType, PriorCases DEF TypeInv, TypeOK, RunTypeOK
  <1>4. CASE s = nv
    <2>1. Prior(b).version # nv
      BY <1>1, <1>3, PriorHistory
    <2>2. www[nv][b] = newM[b]
      BY <1>2, <1>4, <2>1 DEF FinalKept
    <2>3. InForce(nv, b) = newM[b]
      BY <1>3, <1>4, <2>2, Distinct DEF InForce
    <2>4. QED
      BY <1>2, <1>4, <2>3 DEF PairsOK
  <1>5. CASE s = 0
    <2>1. www[s][b] = Absent
      BY <1>1, <1>3, <1>5 DEF HistoryOK
    <2>2. InForce(nv, b).files = <<>>
      BY <2>1 DEF InForce, NoManifest
    <2>3. QED
      BY <2>2 DEF Coupled
  <1>6. CASE s # nv /\ s # 0
    <2>1. s = Prior(b).version
      BY <1>2, <1>6 DEF FinalKept
    <2>2. /\ lastVer \in published /\ b \in Listed(lastVer)
          /\ Prior(b) = www[s][b] /\ InForce(lastVer, b) = Prior(b)
      BY <1>1, <1>3, <1>6, <2>1, PriorCases
    <2>3. InForce(nv, b) = Prior(b)
      BY <1>3, <2>2, Distinct DEF InForce
    <2>4. Coupled(InForce(lastVer, b).files)
      BY <2>2 DEF PairsOK, RenamesPaired, Coupled, HasPartner
    <2>5. QED
      BY <2>2, <2>3, <2>4
  <1>7. QED
    BY <1>4, <1>5, <1>6

\* The releases have the renames they had, and so does the new one.
LEMMA PublishedPairs ==
    ASSUME DeletionInv, PairsOK, UNCHANGED <<www, wwwMoM>>,
           \/ published' = published
           \/ pc = "done" /\ published' = published \cup {nv}
    PROVE  RenamesPaired'
  <1>1. \A v : Listed(v)' = Listed(v) /\ \A b : InForce(v, b)' = InForce(v, b)
    BY DEF Listed, InForce
  <1>2. ASSUME NEW v \in published', NEW b \in Listed(v)
        PROVE  Coupled(InForce(v, b).files)
    BY <1>2, NewPairs DEF PairsOK, RenamesPaired, Coupled, HasPartner
  <1>3. QED
    BY <1>1, <1>2 DEF RenamesPaired, Coupled, HasPartner, SameRename

LEMMA NextPaired ==
    ASSUME CheckExit, NothingPruned, DeletionInv, PairsOK, [Next]_vars
    PROVE  PairsOK'
  <1>0. DeletionInv' /\ HistoryInv' /\ HistoryInv /\ IntactInv'
    BY NextDeletion DEF DeletionInv, HistoryInv
  <1>1. CASE UNCHANGED vars
    <2>1. UNCHANGED <<published, image, www, wwwMoM, pc, nv, gi, newM>> /\ Run' = Run
      BY <1>1 DEF vars, disk, proc, Run
    <2>2. RenamesPaired'
      BY <2>1, PublishedPairs
    <2>3. Through' = Through /\ Current' = Current
      BY <2>1 DEF Through, Finished, Written, Groups, Current
    <2>4. QED
      BY <2>1, <2>2, <2>3 DEF PairsOK
  <1>2. CASE \E v \in Version : \E in \in plan[v] : Start(v, in)
    BY <1>2, PublishedPairs, QuietPairs DEF Start
  <1>3. CASE CreateUpdateStep
    <2>1. ASSUME FormatTooOld \/ CoreTypeChange \/ IncludesUnresolvable
                 \/ BundleTypeChange \/ OldUnreadable
          PROVE  PairsOK'
      <3>1. UNCHANGED <<published, www, wwwMoM>> /\ pc' = "failed"
        BY <2>1 DEF FormatTooOld, CoreTypeChange, IncludesUnresolvable,
                    BundleTypeChange, OldUnreadable, Fail, disk
      <3>2. QED
        BY <3>1, PublishedPairs, QuietPairs
    <2>2. ASSUME CreateFullChroot \/ CreateFullManifest \/ MatchCore
          PROVE  PairsOK'
      <3>1. UNCHANGED <<published, www, wwwMoM>> /\ pc' \in {"full", "core", "coreMatched"}
        BY <2>2 DEF CreateFullChroot, CreateFullManifest, MatchCore, disk
      <3>2. QED
        BY <3>1, PublishedPairs, QuietPairs
    <2>3. ASSUME CoreUnchanged \/ CoreChanged \/ WriteCore
                 \/ LoadBundles \/ SkipCore \/ MatchBundle \/ BundleUnchanged \/ BundleChanged
                 \/ WriteBundle \/ WriteMoM \/ WriteFull
          PROVE  PairsOK'
      <3>1. pc # "idle" /\ UNCHANGED <<lastVer, published, image, nv>>
        BY <2>3 DEF CoreUnchanged, CoreChanged, WriteCore,
           LoadBundles, SkipCore, MatchBundle, BundleUnchanged, KeepOldVersion, BundleChanged,
           WriteBundle, WriteMoM, WriteFull, disk
      <3>2. Pairing
        BY <1>0, <3>1 DEF Pairing, Keeping, Continues, DeletionInv
      <3>3. QED
        BY <2>3, <3>2, CorePairs, BundlePairs, FinishPairs
    <2>4. QED
      BY <1>3, <2>1, <2>2, <2>3 DEF CreateUpdateStep
  <1>4. CASE Publish
    <2>1. /\ pc = "done" /\ pc' = "idle" /\ published' = published \cup {nv}
          /\ UNCHANGED <<www, wwwMoM>>
      BY <1>4 DEF Publish, ForgetRun
    <2>2. QED
      BY <2>1, PublishedPairs, QuietPairs
  <1>5. CASE GiveUp
    <2>1. UNCHANGED <<published, www, wwwMoM>> /\ pc' = "idle"
      BY <1>5 DEF GiveUp, ForgetRun, disk
    <2>2. QED
      BY <2>1, PublishedPairs, QuietPairs
  <1>6. CASE Crash \/ CrashInChroot
    <2>1. UNCHANGED <<published, www, wwwMoM>> /\ pc' = "failed"
      BY <1>6 DEF Crash, CrashInChroot, disk
    <2>2. QED
      BY <2>1, PublishedPairs, QuietPairs
  <1>7. CASE CrashInWrite
    <2>1. pc # "idle" /\ pc' = "failed" /\ UNCHANGED <<lastVer, published, image, nv>>
      BY <1>7 DEF CrashInWrite
    <2>2. Pairing
      BY <1>0, <2>1 DEF Pairing, Keeping, Continues, DeletionInv
    <2>3. QED
      BY <2>1, <2>2, PairingRun, QuietPairs
  <1>8. QED
    BY <1>1, <1>2, <1>3, <1>4, <1>5, <1>6, <1>7 DEF Next

\* Where nothing is pruned a client that finds one end of a rename in a manifest
\* finds the other in the same manifest, with the same hash and version: through
\* renames that are detected, carried over, orphaned and cleaned up, several of the
\* same file, format bumps and failed runs.
THEOREM RenamesStayPaired == CheckExit /\ NothingPruned => (Spec => []RenamesPaired)
  <1> SUFFICES ASSUME CheckExit, NothingPruned PROVE Spec => []RenamesPaired
    OBVIOUS
  <1>1. Init => DeletionInv /\ PairsOK
    <2>1. Init => PairsOK
      BY DEF Init, PairsOK, RenamesPaired, Through, Written, Finished
    <2>2. QED
      BY <2>1, InitDeletion
  <1>2. (DeletionInv /\ PairsOK) /\ [Next]_vars => (DeletionInv /\ PairsOK)'
    BY NextDeletion, NextPaired
  <1>3. PairsOK => RenamesPaired
    BY DEF PairsOK
  <1>4. QED
    BY <1>1, <1>2, <1>3, PTL DEF Spec
-----------------------------------------------------------------------------
(***************************************************************************)
(* A ghost is for one release.  A boot file that goes away is listed as a  *)
(* ghost, and the next run drops it, or has the file again.                *)
(*                                                                         *)
(* The hard part is, as for deletions, what is taken out of the old list   *)
(* for an included bundle: a ghost that is subtracted is not seen to go,   *)
(* and a bundle that seems unchanged keeps the manifest that lists it.     *)
(* Only a ghost can cover a ghost, and if both are fresh both files were   *)
(* there one release before; but a release lists nothing twice.            *)
(***************************************************************************)

BootFilesOnly == \A p \in BootPaths : Firmly(p)

\* No bundle begins to include another with which it had a boot file in common.
IncludesSettled ==
    \A inputs \in Inputs : \A v, w \in Version : v < w =>
        \A in \in inputs[v] : \A in2 \in inputs[w] : \A b \in Bundle : \A c \in Bundle \ {Core} :
            c \in Reach(in2.inc, b) /\ c \notin Reach(in.inc, b) =>
                BootPaths \cap DOMAIN in.img[b] \cap DOMAIN in.img[c] = {}

NoGhosts(f) == \A p \in DOMAIN f : ~f[p].ghosted

\* No boot file is just deleted in f, and what is a ghost in f was live in o.
Fresh(f, o) ==
    \A p \in DOMAIN f : /\ p \in BootPaths => ~f[p].deleted
                        /\ f[p].ghosted => p \in LivePaths(o)

\* A matched list that will lose the ghosts of the old one, or have the files
\* again; either is a change.
GhostsMatched(b) ==
    LET prior == Prior(b).files
        o     == oldM[b].files
        n     == newM[b].files
    IN  /\ \A p \in DOMAIN n \cap BootPaths : n[p].deleted =>
              p \in DOMAIN o /\ ~o[p].deleted /\ (o[p].ghosted => n[p].ghosted)
        /\ \A p \in DOMAIN prior : prior[p].ghosted =>
              /\ p \in DOMAIN o /\ p \in DOMAIN n
              /\ n[p].ghosted \/ (Live(n[p]) /\ n[p].last = nv)
        /\ ~changed => NoGhosts(prior)

\* A list that is written has fresh ghosts only; an old manifest stays in force
\* only if it has none.
GhostsFinal(b) ==
    IF newM[b].version = nv THEN Fresh(newM[b].files, Prior(b).files)
    ELSE NoGhosts(Prior(b).files)

\* The ghosts of a release were live one release before.
GhostsFresh(v) ==
    \A b \in Listed(v) : \A p \in DOMAIN InForce(v, b).files :
        /\ p \in BootPaths => ~InForce(v, b).files[p].deleted
        /\ InForce(v, b).files[p].ghosted =>
              \E w \in published : /\ w < v /\ \A u \in published : u < v => u <= w
                                   /\ b \in Listed(w) /\ p \in LivePaths(InForce(w, b).files)

\* A release includes what its build says, and has no boot files of its own.
FromBuild(v) ==
    /\ v \in Version /\ image[v] \in plan[v]
    /\ \A b \in Listed(v) :
          /\ {b, Core} \cup Reach(IncludesIn(v), b) = {b, Core} \cup Reach(image[v].inc, b)
          /\ LivePaths(InForce(v, b).files) \cap BootPaths \subseteq DOMAIN image[v].img[b]

GhostsPast == \A v \in published : GhostsFresh(v) /\ FromBuild(v)

GhostsOK ==
    /\ GhostsPast
    /\ pc = "coreMatched" => GhostsMatched(Core)
    /\ pc = "writeCore" => Fresh(newM[Core].files, Prior(Core).files)
    /\ pc = "bundleMatched" => GhostsMatched(Current)
    /\ pc = "writeBundle" => Fresh(newM[Current].files, Prior(Current).files)
    /\ \A b \in Through : GhostsFinal(b)
-----------------------------------------------------------------------------
(* The ghosts of a list *)

\* match_manifests: the ghosts of a list that it is given whole become ghosts
\* that are deleted as well, or files that are new.
LEMMA MatchedGhosts ==
    ASSUME NEW o, NEW old, NEW new, NEW v, NEW minversion,
           IsFileList(old), IsFileList(new), Orderly(o), Part(old, o), RawList(new, v),
           \A p \in DOMAIN o \cap BootPaths : ~o[p].deleted,
           \A p \in DOMAIN o : o[p].ghosted => p \in DOMAIN old
    PROVE  LET n == Matched(old, new, v, minversion)
           IN  /\ \A p \in DOMAIN n \cap BootPaths : n[p].deleted =>
                     p \in DOMAIN old /\ ~old[p].deleted /\ (old[p].ghosted => n[p].ghosted)
               /\ \A p \in DOMAIN o : o[p].ghosted =>
                     /\ p \in DOMAIN old /\ p \in DOMAIN n
                     /\ n[p].ghosted \/ (Live(n[p]) /\ n[p].last = v)
               /\ ChangedPaths(old, new, minversion) = {} => NoGhosts(o)
  <1> DEFINE n == Matched(old, new, v, minversion)
  <1>1. DOMAIN n = DOMAIN old \cup DOMAIN new
    BY DEF Matched
  <1>2. ASSUME NEW p \in DOMAIN old, p \notin DOMAIN new
        PROVE  ~old[p].deleted => (n[p].ghosted <=> old[p].ghosted)
    <2>1. n[p] = Tombstone(p, old[p], v)
      BY <1>2 DEF Matched
    <2>2. old[p] \in Entry
      BY <1>2 DEF IsFileList
    <2>3. QED
      BY <2>1, <2>2 DEF Tombstone, Entry
  <1>3. ASSUME NEW p \in DOMAIN new
        PROVE  Live(n[p])
    <2>1. n[p] = IF p \in DOMAIN old /\ Unchanged(old[p], new[p], minversion)
                 THEN [new[p] EXCEPT !.last = old[p].last, !.rename = old[p].rename]
                 ELSE new[p]
      BY <1>3 DEF Matched
    <2>2. new[p] \in Entry /\ Live(new[p])
      BY <1>3 DEF IsFileList, RawList
    <2>3. QED
      BY <2>1, <2>2 DEF Live, Entry
  <1>4. ASSUME NEW p \in DOMAIN o, o[p].ghosted
        PROVE  p \in DOMAIN old /\ old[p] = o[p] /\ ~old[p].deleted /\ old[p].kind = "."
    BY <1>4 DEF Part, Orderly
  <1>5. ASSUME NEW p \in DOMAIN n \cap BootPaths, n[p].deleted
        PROVE  p \in DOMAIN old /\ ~old[p].deleted /\ (old[p].ghosted => n[p].ghosted)
    <2>1. p \in DOMAIN old /\ p \notin DOMAIN new
      BY <1>1, <1>3, <1>5 DEF Live
    <2>2. p \in DOMAIN o /\ old[p] = o[p] /\ ~old[p].deleted
      BY <1>5, <2>1 DEF Part
    <2>3. old[p].ghosted => n[p].ghosted
      BY <1>2, <2>1, <2>2
    <2>4. QED
      BY <2>1, <2>2, <2>3
  <1>6. ASSUME NEW p \in DOMAIN o, o[p].ghosted
        PROVE  /\ p \in DOMAIN old /\ p \in DOMAIN n
               /\ n[p].ghosted \/ (Live(n[p]) /\ n[p].last = v)
               /\ p \in ChangedPaths(old, new, minversion)
    <2>1. p \in DOMAIN old /\ old[p] = o[p] /\ ~old[p].deleted /\ old[p].kind = "."
      BY <1>4, <1>6
    <2>2. CASE p \in DOMAIN new
      <3>1. new[p].kind # "." /\ new[p].last = v
        BY <2>2 DEF RawList
      <3>2. ~Unchanged(old[p], new[p], minversion)
        BY <2>1, <3>1 DEF Unchanged, SameContents
      <3>3. n[p] = new[p]
        BY <2>2, <3>2 DEF Matched
      <3>4. QED
        BY <1>1, <1>3, <2>1, <2>2, <3>1, <3>2, <3>3 DEF ChangedPaths
    <2>3. CASE p \notin DOMAIN new
      <3>1. n[p].ghosted
        BY <1>2, <1>6, <2>1, <2>3
      <3>2. QED
        BY <1>1, <2>1, <2>3, <3>1 DEF ChangedPaths
    <2>4. QED
      BY <2>2, <2>3
  <1> HIDE DEF n
  <1>7. ChangedPaths(old, new, minversion) = {} => NoGhosts(o)
    BY <1>6 DEF NoGhosts
  <1>8. QED
    BY <1>5, <1>6, <1>7 DEF n

\* A completed list says the same as the matched one of what is a ghost, but that
\* the ghosts of both are gone, and that boot files that were deleted are ghosts.
LEMMA CompletedGhosts ==
    ASSUME NEW o, NEW n, IsManifest(o), IsManifest(n),
           NEW m \in RenameMatchings(o.files, n.files, nv),
           NEW f, f = Completed(o, n, m), NEW p \in DOMAIN f
    PROVE  /\ p \in DOMAIN n.files
           /\ ~(p \in DOMAIN o.files /\ o.files[p].ghosted /\ n.files[p].ghosted)
           /\ p \in BootPaths => ~f[p].deleted
           /\ f[p].ghosted => n.files[p].ghosted \/ (p \in BootPaths /\ n.files[p].deleted)
  <1> DEFINE linked == RenamesLinked(n.files, m)
             bumped == Bumped(o, linked)
             kept   == WithoutOldGhosts(o.files, bumped)
             clean  == RenamesCleaned(kept, m)
  <1>1. IsFileList(o.files) /\ IsFileList(n.files)
    BY ManifestType
  <1>2. /\ IsFileList(linked) /\ DOMAIN linked = DOMAIN n.files
        /\ \A q \in DOMAIN linked : /\ linked[q].deleted = n.files[q].deleted
                                    /\ linked[q].ghosted = n.files[q].ghosted
    BY <1>1, RenamesLinkedType, SameEntries
  <1> HIDE DEF linked
  <1>3. Part(bumped, linked) /\ IsFileList(bumped)
    <2>1. CASE o.format < Run.format
      BY <1>2, <2>1, DropsPart, WithoutOldType DEF Bumped
    <2>2. CASE ~(o.format < Run.format)
      BY <1>2, <2>2 DEF Bumped, Part
    <2>3. QED
      BY <2>1, <2>2
  <1> HIDE DEF bumped
  <1>4. Part(kept, bumped) /\ IsFileList(kept)
    BY <1>3, DropsPart, WithoutOldType
  <1>5. \A q \in DOMAIN kept : ~(q \in DOMAIN o.files /\ o.files[q].ghosted /\ kept[q].ghosted)
    BY <1>4 DEF WithoutOldGhosts, Restrict, Part
  <1> HIDE DEF kept
  <1>6. /\ DOMAIN clean = DOMAIN kept
        /\ \A q \in DOMAIN kept : /\ clean[q].deleted = kept[q].deleted
                                  /\ clean[q].ghosted = kept[q].ghosted
        /\ IsFileList(clean)
    BY <1>4, SameEntries, RenamesCleanedType
  <1> HIDE DEF clean
  <1>7. f = Pruned(clean, Run.ban)
    BY DEF Completed, clean, kept, bumped, linked
  <1>8. ASSUME NEW q \in DOMAIN Pruned(clean, Run.ban)
        PROVE  /\ q \in DOMAIN clean
               /\ q \in BootPaths /\ clean[q].deleted => ~Pruned(clean, Run.ban)[q].deleted
               /\ ~(q \in BootPaths /\ clean[q].deleted) => Pruned(clean, Run.ban)[q] = clean[q]
    <2>1. q \in DOMAIN clean
      BY <1>8 DEF Pruned
    <2>2. Pruned(clean, Run.ban)[q] =
              IF q \in BootPaths /\ clean[q].deleted
              THEN [clean[q] EXCEPT !.deleted = FALSE, !.ghosted = TRUE] ELSE clean[q]
      BY <1>8 DEF Pruned
    <2>3. clean[q] \in Entry
      BY <1>6, <2>1 DEF IsFileList
    <2>4. QED
      BY <2>1, <2>2, <2>3 DEF Entry
  <1>9. /\ p \in DOMAIN clean
        /\ p \in BootPaths /\ clean[p].deleted => ~f[p].deleted
        /\ ~(p \in BootPaths /\ clean[p].deleted) => f[p] = clean[p]
    BY <1>7, <1>8
  <1>10. /\ p \in DOMAIN n.files /\ p \in DOMAIN kept
         /\ clean[p].deleted = n.files[p].deleted /\ clean[p].ghosted = n.files[p].ghosted
         /\ kept[p].ghosted = n.files[p].ghosted
    BY <1>2, <1>3, <1>4, <1>6, <1>9 DEF Part
  <1>11. QED
    BY <1>5, <1>9, <1>10

\* So the ghosts of the list that is written are fresh.
LEMMA CompletedFresh ==
    ASSUME Keeping, NEW b \in Bundle, MatchedWell(b), MatchedKept(b), GhostsMatched(b),
           NEW m \in MatchingsOf(b), NEW f, f = Completed(oldM[b], newM[b], m)
    PROVE  Fresh(f, Prior(b).files)
  <1> DEFINE o == oldM[b].files
             n == newM[b].files
  <1>1. SUFFICES ASSUME NEW p \in DOMAIN f
                 PROVE  /\ p \in BootPaths => ~f[p].deleted
                        /\ f[p].ghosted => p \in LivePaths(Prior(b).files)
    BY DEF Fresh
  <1>2. IsManifest(oldM[b]) /\ IsManifest(newM[b]) /\ m \in RenameMatchings(o, n, nv)
    BY KeptRun DEF MatchingsOf
  <1>3. /\ p \in DOMAIN n /\ ~(p \in DOMAIN o /\ o[p].ghosted /\ n[p].ghosted)
        /\ p \in BootPaths => ~f[p].deleted
        /\ f[p].ghosted => n[p].ghosted \/ (p \in BootPaths /\ n[p].deleted)
    BY <1>1, <1>2, CompletedGhosts
  <1>4. n[p].ghosted => p \in BootPaths /\ n[p].deleted
    BY <1>3 DEF MatchedWell, GhostsDead, MatchedKept, Knows
  <1>5. p \in BootPaths /\ n[p].deleted =>
            p \in DOMAIN o /\ ~o[p].deleted /\ (o[p].ghosted => n[p].ghosted)
    BY <1>3 DEF GhostsMatched
  <1>6. p \in DOMAIN o /\ ~o[p].deleted /\ ~o[p].ghosted => p \in LivePaths(Prior(b).files)
    BY DEF MatchedWell, Part, LivePaths, Live
  <1>7. QED
    BY <1>3, <1>4, <1>5, <1>6

\* Where a ghost goes, or the file is there again, the list is worth writing.
LEMMA GhostsWorthWriting ==
    ASSUME Keeping, BootFilesOnly, NEW b \in Bundle, MatchedWell(b), MatchedKept(b),
           GhostsMatched(b), NEW m \in MatchingsOf(b),
           ~WorthWriting(b, Completed(oldM[b], newM[b], m))
    PROVE  NoGhosts(Prior(b).files)
  <1> DEFINE o == oldM[b].files
             n == newM[b].files
             f == Completed(oldM[b], newM[b], m)
  <1>1. SUFFICES ASSUME NEW p \in DOMAIN Prior(b).files, Prior(b).files[p].ghosted
                 PROVE  FALSE
    BY DEF NoGhosts
  <1>2. /\ HistoryInv /\ RecordsOK /\ pc # "idle" /\ TypeInv
        /\ IsManifest(oldM[b]) /\ IsManifest(newM[b]) /\ m \in RenameMatchings(o, n, nv)
    BY KeptRun DEF MatchingsOf, Keeping
  <1>3. /\ p \in DOMAIN o /\ o[p] = Prior(b).files[p] /\ p \in DOMAIN n
        /\ n[p].ghosted \/ (Live(n[p]) /\ n[p].last = nv)
    BY <1>1 DEF GhostsMatched, MatchedWell, Part
  <1>4. Bumped(oldM[b], n) = n /\ WithoutOldGhosts(o, n) = n /\ NewFiles(f, nv) = {}
    BY DEF WorthWriting
  <1>5. ~n[p].ghosted
    <2>1. p \in DOMAIN WithoutOldGhosts(o, n)
      BY <1>3, <1>4
    <2>2. QED
      BY <1>1, <1>3, <2>1 DEF WithoutOldGhosts, Restrict
  <1>6. p \in LivePaths(n) /\ n[p].last = nv
    BY <1>3, <1>5 DEF LivePaths
  <1>7. p \notin Withheld(Run)
    <2>1. p \in BootPaths /\ ~(Stateless /\ p \in ConfigPaths)
      BY <1>1, <1>2, PriorKept DEF Orderly
    <2>2. ~(Run.ban /\ p \in DebugPaths)
      BY <1>2, <2>1, FirmRun DEF BootFilesOnly
    <2>3. QED
      BY <2>1, <2>2 DEF Withheld
  <1>8. p \in LivePaths(f)
    BY <1>2, <1>6, <1>7, CompletedShows
  <1>9. f[p].last = n[p].last
    <2>1. Echoes(f, n)
      <3>1. oldM[b].format \in Nat /\ Run.format \in Nat
        BY <1>2, RunType DEF IsManifest
      <3>2. PlainGone(n) /\ GhostsDead(n) /\ Descends(n, o, nv)
        BY DEF MatchedWell
      <3>3. QED
        BY <1>2, <3>1, <3>2, CompletedHistory
    <2>2. QED
      BY <1>8, <2>1 DEF Echoes, Says, LivePaths
  <1>10. QED
    BY <1>4, <1>6, <1>8, <1>9 DEF NewFiles, LivePaths
-----------------------------------------------------------------------------
(* What is included *)

\* What the last release includes beyond os-core is what its build includes, and the
\* build before did, if the two bundles had a boot file in common there.
LEMMA IncludedBefore ==
    ASSUME IncludesSettled, NEW v, NEW w, FromBuild(v), FromBuild(w), w < v, plan \in Inputs,
           NEW b \in Listed(v) \cap Listed(w), b # Core, b \in Bundle,
           NEW c \in Reach(IncludesIn(v), b), c # b,
           NEW p \in BootPaths, p \in DOMAIN image[w].img[b], p \in DOMAIN image[w].img[c]
    PROVE  c \in Reach(IncludesIn(w), b)
  <1>1. CASE c = Core
    <2>1. Core \in IncludesIn(w)[b]
      BY DEF IncludesIn
    <2>2. Core \in Bundle
      BY UpdateAssumption
    <2>3. QED
      BY <1>1, <2>1, <2>2 DEF Reach
  <1>2. CASE c # Core
    <2>1. c \in Bundle
      BY DEF Reach
    <2>2. c \in Reach(image[v].inc, b)
      BY <1>2 DEF FromBuild
    <2>3. v \in Version /\ w \in Version /\ image[v] \in plan[v] /\ image[w] \in plan[w]
      BY DEF FromBuild
    <2>4. c \in Reach(image[w].inc, b)
      BY <1>2, <2>1, <2>2, <2>3 DEF IncludesSettled
    <2>5. QED
      BY <1>2, <2>4 DEF FromBuild
  <1>3. QED
    BY <1>1, <1>2

\* No release has the same ghost in a bundle and in one it includes: both files
\* were in the release before, which would have listed them twice.
LEMMA NoSharedGhosts ==
    ASSUME RecordsOK, BuildsOK, GhostsPast, BootFilesOnly, IncludesSettled,
           plan \in Inputs, NEW v \in published, published \subseteq Version,
           NEW b \in Listed(v), b # Core, b \in Bundle,
           NEW c \in Listed(v), c \in Reach(IncludesIn(v), b), c # b,
           NEW p \in DOMAIN InForce(v, b).files, InForce(v, b).files[p].ghosted,
           p \in DOMAIN InForce(v, c).files, InForce(v, c).files[p].ghosted
    PROVE  FALSE
  <1>1. PICK w \in published :
            /\ w < v /\ \A u \in published : u < v => u <= w
            /\ b \in Listed(w) /\ p \in LivePaths(InForce(w, b).files)
    BY DEF GhostsPast, GhostsFresh
  <1>2. PICK x \in published :
            /\ x < v /\ \A u \in published : u < v => u <= x
            /\ c \in Listed(x) /\ p \in LivePaths(InForce(x, c).files)
    BY DEF GhostsPast, GhostsFresh
  <1>3. w = x
    <2>1. w <= x /\ x <= w
      BY <1>1, <1>2
    <2>2. w \in Int /\ x \in Int
      BY PathAssumption DEF Version
    <2>3. QED
      BY <2>1, <2>2
  <1>4. p \in BootPaths
    BY DEF RecordsOK, ListsKept, Orderly
  <1>5. p \in DOMAIN image[w].img[b] /\ p \in DOMAIN image[w].img[c]
    BY <1>1, <1>2, <1>3, <1>4 DEF GhostsPast, FromBuild
  <1>6. c \in Reach(IncludesIn(w), b)
    BY <1>1, <1>4, <1>5, IncludedBefore DEF GhostsPast
  <1>7. Apart(InForce(w, b).files, InForce(w, c).files)
    BY <1>1, <1>2, <1>3, <1>6 DEF RecordsOK, ListsKept, NothingTwice
  <1>8. InForce(w, b).files[p].kind = "F" /\ InForce(w, c).files[p].kind = "F"
    BY <1>1, <1>2, <1>3, <1>4 DEF BuildsOK, BootKinds, BootFilesOnly
  <1>9. Firm(InForce(w, b).files, p)
    BY <1>1, <1>4, <1>8 DEF Firm, BootFilesOnly, Firmly, LivePaths
  <1>10. QED
    BY <1>1, <1>2, <1>3, <1>7, <1>8, <1>9 DEF Apart

\* So no ghost is subtracted from the old manifest.
LEMMA NoGhostLost ==
    ASSUME HistoryInv, RecordsOK, BuildsOK, GhostsPast, BootFilesOnly, IncludesSettled,
           pc # "idle", NEW b \in Bundle \ {Core}, oldM[b] = Prior(b),
           \A c \in Bundle : /\ Part(oldM[c].files, Prior(c).files)
                             /\ oldM[c].includes \subseteq Prior(c).includes \cup {Core},
           Resolvable(Includes(oldM, b), b),
           NEW p \in DOMAIN Prior(b).files, Prior(b).files[p].ghosted
    PROVE  p \in DOMAIN SubtractIncludes(oldM[b].files, oldM, b)
  <1> DEFINE inc == Includes(oldM, b)
             all == IncludesIn(lastVer)
  <1>1. /\ lastVer \in published /\ b \in Listed(lastVer)
        /\ InForce(lastVer, b) = Prior(b) /\ Orderly(Prior(b).files)
    BY PriorKept
  <1>2. plan \in Inputs /\ published \subseteq Version
    BY DEF HistoryInv, IntactInv, TypeInv, TypeOK, DiskTypeOK
  <1>3. Reach(inc, b) \subseteq Reach(all, b)
    <2>1. ASSUME NEW x \in Bundle
          PROVE  inc[x] \subseteq all[x] \cup {Core}
      <3>1. inc[x] \subseteq oldM[x].includes \cup {Core}
        BY DEF Includes
      <3>2. Prior(x).includes \subseteq all[x]
        BY PriorKept DEF IncludesIn
      <3>3. QED
        BY <3>1, <3>2
    <2>2. Core \in all[b]
      BY <1>1 DEF IncludesIn
    <2>3. inc[b] \subseteq all[b]
      BY <2>1, <2>2
    <2> HIDE DEF inc, all
    <2>4. QED
      BY <2>1, <2>2, <2>3, ReachWithin
  <1>4. b \notin Reach(inc, b)
    BY DEF Resolvable
  <1>5. ASSUME NEW c \in Reach(inc, b), p \in DOMAIN oldM[c].files,
               Covers(oldM[b].files[p], oldM[c].files[p])
        PROVE  FALSE
    <2>1. c \in Bundle /\ c # b
      BY <1>4 DEF Reach
    <2>2. p \in DOMAIN Prior(c).files /\ oldM[c].files[p] = Prior(c).files[p]
      BY <1>5, <2>1 DEF Part
    <2>3. c \in Listed(lastVer) /\ InForce(lastVer, c) = Prior(c)
      BY <2>1, <2>2, PriorKept
    <2>4. p \in BootPaths /\ Prior(b).files[p].kind = "."
      BY <1>1 DEF Orderly
    <2>5. ~Prior(c).files[p].deleted /\ Prior(c).files[p].kind # "F"
      BY <1>5, <2>2, <2>4 DEF Covers
    <2>6. ~Live(Prior(c).files[p])
      BY <1>1, <2>2, <2>3, <2>4, <2>5 DEF BuildsOK, BootKinds, BootFilesOnly, LivePaths
    <2>7. Prior(c).files[p].ghosted
      BY <2>5, <2>6 DEF Live
    <2>8. c \in Reach(all, b)
      BY <1>3, <1>5
    <2> HIDE DEF inc
    <2>9. QED
      BY <1>1, <1>2, <2>1, <2>2, <2>3, <2>7, <2>8, NoSharedGhosts
  <1> HIDE DEF inc
  <1>6. QED
    BY <1>5 DEF SubtractIncludes, Subtracted, Restrict, inc
-----------------------------------------------------------------------------
(* The steps *)

\* The releases keep their ghosts as long as nothing is published.
LEMMA SameGhosts ==
    ASSUME GhostsPast, UNCHANGED <<plan, published>>,
           \A v \in published :
              /\ image'[v] = image[v] /\ wwwMoM'[v] = wwwMoM[v]
              /\ \A b \in Listed(v) : InForce(v, b)' = InForce(v, b)
    PROVE  GhostsPast'
  <1>1. \A v \in published : Listed(v)' = Listed(v) /\ IncludesIn(v)' = IncludesIn(v)
    BY DEF Listed, IncludesIn
  <1>2. \A v \in published : \A b : Reach(IncludesIn(v), b)' = Reach(IncludesIn(v), b)
    BY <1>1 DEF Reach
  <1>3. \A v \in published : \A b : Reach(image[v].inc, b)' = Reach(image[v].inc, b)
    BY DEF Reach
  <1>4. \A v \in published : FromBuild(v)'
    BY <1>1, <1>2, <1>3 DEF GhostsPast, FromBuild
  <1>5. \A v \in published : GhostsFresh(v)'
    BY <1>1 DEF GhostsPast, GhostsFresh
  <1>6. QED
    BY <1>4, <1>5 DEF GhostsPast

\* What keeps the manifests as they are keeps the ghosts as they were.
LEMMA IdleGhosts ==
    ASSUME GhostsPast, UNCHANGED <<plan, published, www, wwwMoM>>,
           \A v \in published : image'[v] = image[v]
    PROVE  GhostsPast'
  <1>1. \A v : \A b : InForce(v, b)' = InForce(v, b)
    BY DEF InForce
  <1>2. QED
    BY <1>1, SameGhosts

\* A step after which the run has compared nothing yet, or has stopped.
LEMMA QuietGhosts ==
    ASSUME GhostsPast', pc' \in {"idle", "chroot", "full", "core", "failed"}
    PROVE  GhostsOK'
  <1>1. Through' = {}
    BY DEF Through, Finished, Written
  <1>2. QED
    BY <1>1 DEF GhostsOK

\* A step of a run that goes on.
Haunted ==
    /\ Delivering /\ GhostsOK /\ BootFilesOnly /\ IncludesSettled /\ UNCHANGED plan

LEMMA HauntedRun ==
    ASSUME Haunted
    PROVE  /\ GhostsPast /\ GhostsPast' /\ Keeping /\ TypeInv /\ HistoryInv /\ pc # "idle"
           /\ nv' = nv /\ Run' = Run /\ Groups' = Groups
           /\ Groups \subseteq Bundle /\ Core \in Groups /\ Core \in Bundle
           /\ \A b \in Bundle : Prior(b)' = Prior(b) /\ Prior(b).version # nv
           /\ \A b \in Bundle : newM'[b] = newM[b] /\ GhostsFinal(b) => GhostsFinal(b)'
  <1>1. /\ Delivering /\ GhostsPast /\ UNCHANGED plan
    BY DEF Haunted, GhostsOK
  <1>2. /\ Keeping /\ TypeInv /\ HistoryInv /\ nv' = nv /\ Run' = Run /\ Groups' = Groups
        /\ Groups \subseteq Bundle /\ Core \in Groups
        /\ \A b \in Bundle : Prior(b)' = Prior(b)
    BY <1>1, DeliveringRun
  <1>3. pc # "idle"
    BY <1>2 DEF Keeping, Continues
  <1>4. \A b \in Bundle : Prior(b).version # nv
    BY <1>2, <1>3, PriorHistory
  <1>5. GhostsPast'
    <2>1. \A v \in published : \A b \in Listed(v) : InForce(v, b)' = InForce(v, b)
      BY <1>2, SameRunHistory DEF Keeping, Continues
    <2>2. \A v \in published : wwwMoM'[v] = wwwMoM[v]
      BY <1>2, PublishedStep DEF Keeping, Continues, HistoryInv
    <2>3. UNCHANGED <<published, image>>
      BY <1>2 DEF Keeping, Continues
    <2>4. QED
      BY <1>1, <2>1, <2>2, <2>3, SameGhosts
  <1>6. \A b \in Bundle : newM'[b] = newM[b] /\ GhostsFinal(b) => GhostsFinal(b)'
    BY <1>2 DEF GhostsFinal, Fresh, NoGhosts
  <1>7. QED
    BY <1>1, <1>2, <1>3, <1>4, <1>5, <1>6

\* A step of the bundle loop that goes on with the next bundle.
LEMMA NextGhosts ==
    ASSUME Haunted, InLoop, gi' = gi + 1, pc' = AfterBundle,
           NEW c \in Bundle, c = Current, GhostsFinal(c)',
           \A b \in Bundle \ {c} : newM'[b] = newM[b]
    PROVE  GhostsOK'
  <1>1. /\ Finished' \subseteq Finished \cup {c} /\ pc' \in {"bundle", "mom"}
        /\ GhostsPast' /\ Finished \subseteq Bundle
    BY HauntedRun, CursorMoves, Cursor
  <1>2. Through' = Finished' /\ Through = Finished
    BY <1>1 DEF Through, Written, InLoop
  <1>3. \A b \in Finished : GhostsFinal(b)
    BY <1>2 DEF Haunted, GhostsOK
  <1>4. \A b \in Finished \ {c} : GhostsFinal(b)'
    BY <1>1, <1>3, HauntedRun
  <1>5. QED
    BY <1>1, <1>2, <1>4 DEF GhostsOK

\* A step of the bundle loop that stays at its bundle.
LEMMA StayGhosts ==
    ASSUME Haunted, InLoop, pc' \in {"bundleMatched", "writeBundle"}, gi' = gi,
           NEW c \in Bundle, c = Current, c \notin Finished,
           pc' = "bundleMatched" => GhostsMatched(c)',
           pc' = "writeBundle" => Fresh(newM'[c].files, Prior(c).files),
           \A b \in Bundle \ {c} : newM'[b] = newM[b]
    PROVE  GhostsOK'
  <1>1. /\ nv' = nv /\ Run' = Run /\ GhostsPast' /\ Finished \subseteq Bundle
        /\ Prior(c)' = Prior(c)
    BY HauntedRun, Cursor
  <1>2. Through' = Finished /\ Through = Finished /\ Current' = c
    BY <1>1 DEF Through, Written, InLoop, Finished, Current
  <1>3. \A b \in Finished : GhostsFinal(b)
    BY <1>2 DEF Haunted, GhostsOK
  <1>4. \A b \in Finished : GhostsFinal(b)'
    BY <1>1, <1>3, HauntedRun
  <1>5. QED
    BY <1>1, <1>2, <1>4 DEF GhostsOK

\* A list that has just been matched, with all ghosts of the old one given.
LEMMA NewlyMatched ==
    ASSUME Haunted, NEW b \in Bundle, NEW old, NEW raw,
           IsFileList(old), IsFileList(raw), Part(old, Prior(b).files), RawList(raw, nv),
           \A p \in DOMAIN Prior(b).files : Prior(b).files[p].ghosted => p \in DOMAIN old,
           oldM'[b].files = old, newM'[b].files = Matched(old, raw, nv, Run.minversion),
           changed' = (ChangedPaths(old, raw, Run.minversion) # {})
    PROVE  GhostsMatched(b)'
  <1>1. HistoryInv /\ RecordsOK /\ pc # "idle" /\ nv' = nv /\ Prior(b)' = Prior(b) /\ GhostsPast
    BY HauntedRun DEF Keeping
  <1>2. /\ Orderly(Prior(b).files)
        /\ \A p \in DOMAIN Prior(b).files \cap BootPaths : ~Prior(b).files[p].deleted
    BY <1>1, PriorKept DEF GhostsPast, GhostsFresh
  <1> DEFINE n == Matched(old, raw, nv, Run.minversion)
  <1>3. /\ \A p \in DOMAIN n \cap BootPaths : n[p].deleted =>
                 p \in DOMAIN old /\ ~old[p].deleted /\ (old[p].ghosted => n[p].ghosted)
        /\ \A p \in DOMAIN Prior(b).files : Prior(b).files[p].ghosted =>
                 /\ p \in DOMAIN old /\ p \in DOMAIN n
                 /\ n[p].ghosted \/ (Live(n[p]) /\ n[p].last = nv)
        /\ ChangedPaths(old, raw, Run.minversion) = {} => NoGhosts(Prior(b).files)
    BY <1>2, MatchedGhosts
  <1> HIDE DEF n
  <1>4. newM'[b].files = n
    BY DEF n
  <1>5. QED
    BY <1>1, <1>3, <1>4 DEF GhostsMatched

\* Phase 2: os-core.
LEMMA CoreGhosts ==
    ASSUME Haunted, MatchCore \/ CoreUnchanged \/ CoreChanged \/ WriteCore \/ LoadBundles
    PROVE  GhostsOK'
  <1>0. /\ GhostsPast' /\ Core \in Bundle /\ Core \in Groups /\ Keeping /\ HistoryInv /\ TypeInv
        /\ nv' = nv /\ Prior(Core).version # nv /\ Prior(Core)' = Prior(Core) /\ pc # "idle"
    BY HauntedRun
  <1>1. CASE MatchCore
    <2> DEFINE old == Prior(Core).files
               raw == AddHashes(FromDirectory(Run.img[Core], nv, Run.ban), newFull.files)
    <2>1. /\ pc = "core" /\ pc' = "coreMatched"
          /\ oldM' = [oldM EXCEPT ![Core] = Prior(Core)]
          /\ newM' = [newM EXCEPT ![Core] = NewManifest(nv, Prior(Core).version, {},
                                               Matched(old, raw, nv, Run.minversion))]
          /\ changed' = (ChangedPaths(old, raw, Run.minversion) # {})
      BY <1>1 DEF MatchCore, Prior
    <2>2. IsFileList(old) /\ Part(old, Prior(Core).files)
      BY <1>0, PriorCases, ManifestType DEF HistoryInv, Part
    <2>3. IsFileList(raw) /\ RawList(raw, nv)
      BY <1>0, <2>1, RawShows DEF Listing, Haunted, Delivering, ReleaseInv
    <2>4. oldM'[Core].files = old
      BY <1>0, <2>1 DEF TypeInv, TypeOK, RunTypeOK
    <2>5. newM'[Core].files = Matched(old, raw, nv, Run.minversion)
      <3>1. newM'[Core] = NewManifest(nv, Prior(Core).version, {},
                                      Matched(old, raw, nv, Run.minversion))
        BY <1>0, <2>1 DEF TypeInv, TypeOK, RunTypeOK
      <3>2. QED
        BY <3>1 DEF NewManifest
    <2> HIDE DEF raw
    <2>6. GhostsMatched(Core)'
      BY <1>0, <2>1, <2>2, <2>3, <2>4, <2>5, NewlyMatched
    <2>7. Through' = {}
      BY <2>1 DEF Through, Written, Finished
    <2>8. QED
      BY <1>0, <2>1, <2>6, <2>7 DEF GhostsOK
  <1>2. CASE CoreUnchanged
    <2>1. /\ pc = "coreMatched" /\ pc' = "load" /\ ~changed
          /\ newM' = [newM EXCEPT ![Core].version = oldM[Core].version]
      BY <1>2 DEF CoreUnchanged
    <2>2. MatchedWell(Core) /\ GhostsMatched(Core)
      BY <1>0, <2>1 DEF Haunted, GhostsOK, HistoryInv, StagesOK
    <2>3. newM'[Core].version # nv
      BY <1>0, <2>1, <2>2, FieldSet DEF MatchedWell
    <2>4. GhostsFinal(Core)'
      BY <1>0, <2>1, <2>2, <2>3 DEF GhostsFinal, GhostsMatched
    <2>5. Through' = {Core}
      BY <2>1 DEF Through, Written, Finished
    <2>6. QED
      BY <1>0, <2>1, <2>4, <2>5 DEF GhostsOK
  <1>3. CASE CoreChanged
    <2>1. pc = "coreMatched" /\ pc' \in {"failed", "writeCore"}
      BY <1>3, Zenon DEF CoreChanged
    <2>2. PICK m \in MatchingsOf(Core) :
             newM' = [newM EXCEPT ![Core].files = Completed(oldM[Core], newM[Core], m)]
      BY <1>3 DEF CoreChanged
    <2>3. PICK f : f = Completed(oldM[Core], newM[Core], m)
      OBVIOUS
    <2>4. newM'[Core].files = f
      BY <1>0, <2>2, <2>3, FieldSet
    <2>5. MatchedWell(Core) /\ MatchedKept(Core) /\ GhostsMatched(Core)
      BY <1>0, <2>1 DEF Keeping, HistoryInv, StagesOK, StagesKept, Haunted, GhostsOK
    <2>6. Fresh(f, Prior(Core).files)
      BY <1>0, <2>3, <2>5, CompletedFresh
    <2>7. Through' = {}
      BY <2>1 DEF Through, Written, Finished
    <2>8. QED
      BY <1>0, <2>1, <2>4, <2>6, <2>7 DEF GhostsOK
  <1>4. CASE WriteCore
    <2>1. pc = "writeCore" /\ pc' = "load" /\ newM' = newM
      BY <1>4 DEF WriteCore
    <2>2. Fresh(newM[Core].files, Prior(Core).files) /\ Ready(Core)
      BY <1>0, <2>1 DEF Haunted, GhostsOK, HistoryInv, StagesOK
    <2>3. GhostsFinal(Core)
      BY <2>2 DEF GhostsFinal, Ready
    <2>4. GhostsFinal(Core)'
      BY <1>0, <2>1, <2>3, HauntedRun
    <2>5. Through' = {Core}
      BY <2>1 DEF Through, Written, Finished
    <2>6. QED
      BY <1>0, <2>1, <2>4, <2>5 DEF GhostsOK
  <1>5. CASE LoadBundles
    <2>1. /\ pc = "load" /\ pc' = "bundle" /\ gi' = 1 /\ newM'[Core] = newM[Core]
      BY <1>0, <1>5 DEF LoadBundles
    <2>2. Through = {Core} /\ Through' = {Core}
      BY <2>1 DEF Through, Written, Finished
    <2>3. GhostsFinal(Core)'
      BY <1>0, <2>1, <2>2, HauntedRun DEF Haunted, GhostsOK
    <2>4. QED
      BY <1>0, <2>1, <2>2, <2>3 DEF GhostsOK
  <1>6. QED
    BY <1>1, <1>2, <1>3, <1>4, <1>5

\* Phase 3: the other bundles.
LEMMA BundleGhosts ==
    ASSUME Haunted, SkipCore \/ MatchBundle \/ BundleUnchanged \/ BundleChanged \/ WriteBundle
    PROVE  GhostsOK'
  <1>0. PICK c : c = Current
    OBVIOUS
  <1>1. /\ Keeping /\ TypeInv /\ HistoryInv /\ nv' = nv /\ Core \in Bundle /\ pc # "idle"
        /\ GhostsPast /\ \A b \in Bundle : Prior(b)' = Prior(b) /\ Prior(b).version # nv
    BY HauntedRun
  <1>2. CASE SkipCore
    <2>1. /\ pc = "bundle" /\ c = Core /\ gi' = gi + 1 /\ pc' = AfterBundle
          /\ newM' = newM /\ InLoop
      BY <1>0, <1>2 DEF SkipCore, InLoop
    <2>2. Core \in Through
      BY <1>1, <2>1, Cursor DEF Through, Written
    <2>3. GhostsFinal(Core)'
      BY <1>1, <2>1, <2>2, HauntedRun DEF Haunted, GhostsOK
    <2>4. QED
      BY <1>0, <1>1, <2>1, <2>3, NextGhosts
  <1>3. CASE MatchBundle
    <2> DEFINE old == SubtractIncludes(oldM[c].files, oldM, c)
               raw == SubtractIncludes(AddHashes(newM[c].files, newFull.files), newM, c)
    <2>1. /\ pc = "bundle" /\ pc' = "bundleMatched" /\ c # Core /\ InLoop /\ gi' = gi
          /\ c \in Bundle /\ c \notin Finished /\ oldM[c] = Prior(c)
          /\ Part(old, Prior(c).files) /\ IsFileList(old)
          /\ IsFileList(raw) /\ RawList(raw, nv)
          /\ changed' = (ChangedPaths(old, raw, Run.minversion) # {})
          /\ oldM'[c].files = old /\ newM'[c].files = Matched(old, raw, nv, Run.minversion)
          /\ \A b \in Bundle \ {c} : newM'[b] = newM[b]
      BY <1>0, <1>1, <1>3, BundleCompared
    <2>2. Resolvable(Includes(oldM, c), c)
      BY <1>0, <1>3 DEF MatchBundle
    <2>3. \A b \in Bundle : /\ Part(oldM[b].files, Prior(b).files)
                            /\ oldM[b].includes \subseteq Prior(b).includes \cup {Core}
      BY <1>1, <2>1 DEF Keeping, MemoryKept, Comparing
    <2>4. RecordsOK /\ BuildsOK /\ BootFilesOnly /\ IncludesSettled
      BY <1>1 DEF Keeping, Haunted, Delivering, ReleaseInv
    <2> HIDE DEF old, raw
    <2>5. \A p \in DOMAIN Prior(c).files : Prior(c).files[p].ghosted => p \in DOMAIN old
      <3>1. SUFFICES ASSUME NEW p \in DOMAIN Prior(c).files, Prior(c).files[p].ghosted
                     PROVE  p \in DOMAIN SubtractIncludes(oldM[c].files, oldM, c)
        BY DEF old
      <3>2. c \in Bundle \ {Core} /\ oldM[c] = Prior(c)
        BY <2>1
      <3>3. QED
        BY <1>1, <2>2, <2>3, <2>4, <3>1, <3>2, NoGhostLost
    <2>6. GhostsMatched(c)'
      BY <2>1, <2>5, NewlyMatched
    <2>7. QED
      BY <1>0, <2>1, <2>6, StayGhosts
  <1>4. CASE BundleUnchanged
    <2>1. /\ pc = "bundleMatched" /\ gi' = gi + 1 /\ pc' = AfterBundle /\ ~changed
          /\ newM' = [newM EXCEPT ![c].version = oldM[c].version]
      BY <1>0, <1>4 DEF BundleUnchanged, KeepOldVersion
    <2>2. InLoop /\ c \in Bundle /\ MatchedWell(c) /\ GhostsMatched(c)
      BY <1>0, <1>1, <2>1, CurrentMatched DEF Keeping, Haunted, GhostsOK
    <2>3. /\ newM'[c].version = oldM[c].version
          /\ \A b \in Bundle \ {c} : newM'[b] = newM[b]
      BY <1>1, <2>1, <2>2, FieldSet
    <2>4. GhostsFinal(c)'
      BY <1>1, <2>1, <2>2, <2>3 DEF GhostsFinal, GhostsMatched, MatchedWell
    <2>5. QED
      BY <1>0, <2>1, <2>2, <2>3, <2>4, NextGhosts
  <1>5. CASE BundleChanged
    <2>1. InLoop /\ c \in Bundle /\ c \notin Finished /\ MatchedWell(c) /\ MatchedKept(c)
          /\ GhostsMatched(c) /\ BootFilesOnly
      BY <1>0, <1>1, <1>5, BundleCompleted DEF Haunted, GhostsOK
    <2>2. PICK m \in MatchingsOf(c) :
             LET f     == Completed(oldM[c], newM[c], m)
                 write == WorthWriting(c, f)
             IN  /\ gi' = IF write THEN gi ELSE gi + 1
                 /\ pc' = IF write THEN "writeBundle" ELSE AfterBundle
                 /\ newM'[c].files = f
                 /\ newM'[c].version = IF write THEN newM[c].version ELSE oldM[c].version
                 /\ \A b \in Bundle \ {c} : newM'[b] = newM[b]
      BY <1>0, <1>1, <1>5, BundleCompleted
    <2>3. Fresh(newM'[c].files, Prior(c).files)
      BY <1>1, <2>1, <2>2, CompletedFresh
    <2>4. CASE WorthWriting(c, Completed(oldM[c], newM[c], m))
      BY <1>0, <2>1, <2>2, <2>3, <2>4, StayGhosts
    <2>5. CASE ~WorthWriting(c, Completed(oldM[c], newM[c], m))
      <3>1. NoGhosts(Prior(c).files)
        BY <1>1, <2>1, <2>5, GhostsWorthWriting
      <3>2. newM'[c].version # nv
        BY <1>1, <2>1, <2>2, <2>5 DEF MatchedWell
      <3>3. GhostsFinal(c)'
        BY <1>1, <2>1, <3>1, <3>2 DEF GhostsFinal
      <3>4. QED
        BY <1>0, <2>1, <2>2, <2>5, <3>3, NextGhosts
    <2>6. QED
      BY <2>4, <2>5
  <1>6. CASE WriteBundle
    <2>1. pc = "writeBundle" /\ gi' = gi + 1 /\ pc' = AfterBundle /\ InLoop /\ newM' = newM
      BY <1>6 DEF WriteBundle, InLoop
    <2>2. c \in Bundle /\ Fresh(newM[c].files, Prior(c).files) /\ Ready(c)
      BY <1>0, <1>1, <2>1, Cursor DEF Haunted, GhostsOK, HistoryInv, StagesOK
    <2>3. GhostsFinal(c)
      BY <2>2 DEF GhostsFinal, Ready
    <2>4. GhostsFinal(c)'
      BY <2>1, <2>2, <2>3, HauntedRun
    <2>5. QED
      BY <1>0, <2>1, <2>2, <2>4, NextGhosts
  <1>7. QED
    BY <1>2, <1>3, <1>4, <1>5, <1>6

\* Phases 4 and 5: the manifests are final.
LEMMA FinishGhosts ==
    ASSUME Haunted, WriteMoM \/ WriteFull
    PROVE  GhostsOK'
  <1>1. pc \in {"mom", "writeFull"} /\ pc' \in {"writeFull", "done"} /\ newM' = newM
    BY DEF WriteMoM, WriteFull
  <1>2. GhostsPast' /\ nv' = nv /\ Groups' = Groups /\ Groups \subseteq Bundle
    BY HauntedRun
  <1>3. Through = Groups /\ Through' = Groups
    BY <1>1, <1>2 DEF Through, Finished, Written
  <1>4. \A b \in Groups : GhostsFinal(b)'
    BY <1>1, <1>2, <1>3, HauntedRun DEF Haunted, GhostsOK
  <1>5. QED
    BY <1>1, <1>2, <1>3, <1>4 DEF GhostsOK
-----------------------------------------------------------------------------
(* The new release *)

\* What is about to be in force for a bundle: the old manifest, which has no
\* ghosts, or the new one, which has fresh ones.
LEMMA NewGhosts ==
    ASSUME DeletionInv, GhostsOK, pc = "done", NEW b \in Listed(nv)
    PROVE  Fresh(InForce(nv, b).files, Prior(b).files)
  <1> DEFINE s == wwwMoM[nv].subs[b]
  <1>1. /\ wwwMoM[nv].subs = [c \in Groups |-> newM[c].version]
        /\ HistoryInv /\ IntactInv /\ TypeInv /\ HistoryOK /\ GhostsPast
    BY DEF DeletionInv, StagesKept, Written, HistoryInv, IntactInv, GhostsOK
  <1>2. b \in Groups /\ s = newM[b].version /\ FinalKept(b) /\ GhostsFinal(b)
    BY <1>1 DEF Listed, DeletionInv, StagesKept, Through, Written, GhostsOK
  <1>3. b \in Bundle /\ IsManifest(Prior(b)) /\ IsManifest(newM[b])
    BY <1>1, <1>2, RunType, PriorCases DEF TypeInv, TypeOK, RunTypeOK
  <1>4. CASE s = nv
    <2>1. Prior(b).version # nv
      BY <1>1, <1>3, PriorHistory
    <2>2. www[nv][b] = newM[b]
      BY <1>2, <1>4, <2>1 DEF FinalKept
    <2>3. InForce(nv, b) = newM[b]
      BY <1>3, <1>4, <2>2, Distinct DEF InForce
    <2>4. QED
      BY <1>2, <1>4, <2>3 DEF GhostsFinal
  <1>5. CASE s = 0
    <2>1. www[s][b] = Absent
      BY <1>1, <1>3, <1>5 DEF HistoryOK
    <2>2. InForce(nv, b).files = <<>>
      BY <2>1 DEF InForce, NoManifest
    <2>3. QED
      BY <2>2 DEF Fresh
  <1>6. CASE s # nv /\ s # 0
    <2>1. s = Prior(b).version /\ NoGhosts(Prior(b).files)
      BY <1>2, <1>6 DEF FinalKept, GhostsFinal
    <2>2. /\ lastVer \in published /\ b \in Listed(lastVer)
          /\ Prior(b) = www[s][b] /\ InForce(lastVer, b) = Prior(b)
      BY <1>1, <1>3, <1>6, <2>1, PriorCases
    <2>3. InForce(nv, b) = Prior(b)
      BY <1>3, <2>2, Distinct DEF InForce
    <2>4. QED
      BY <1>1, <2>1, <2>2, <2>3 DEF Fresh, NoGhosts, GhostsPast, GhostsFresh
  <1>7. QED
    BY <1>4, <1>5, <1>6

\* The new release is made from its build.
LEMMA NewFromBuild ==
    ASSUME DeletionInv, ReleaseInv, BootFilesOnly, pc = "done"
    PROVE  FromBuild(nv)
  <1> DEFINE new == AllIncludes(newM)
             inc == IncludesIn(nv)
  <1>1. TypeInv /\ pc # "idle" /\ Run = image[nv]
    BY DEF DeletionInv, HistoryInv, IntactInv, Run
  <1>2. nv \in Version /\ image[nv] \in plan[nv]
    BY <1>1 DEF TypeInv, StepOK
  <1>3. /\ Groups \subseteq Bundle /\ Core \in Groups /\ newM[Core].includes = {}
    BY <1>1, RunType DEF DeletionInv, MemoryKept, Written
  <1>4. Listed(nv) = Groups
    BY <1>3, NewInstalled
  <1>5. new[Core] = {} /\ inc[Core] = {}
    BY <1>3, <1>4, NewShown DEF AllIncludes, IncludesIn
  <1>6. ASSUME NEW x \in Groups \ {Core}
        PROVE  inc[x] \subseteq new[x] /\ new[x] \subseteq inc[x] \cup {Core}
    <2>1. /\ InForce(nv, x).includes \subseteq newM[x].includes
          /\ newM[x].includes \subseteq InForce(nv, x).includes \cup {Core}
      BY <1>6, NewShown
    <2>2. inc[x] = InForce(nv, x).includes \cup {Core} /\ new[x] = newM[x].includes \cup {Core}
      BY <1>3, <1>4, <1>6 DEF AllIncludes, IncludesIn
    <2>3. QED
      BY <2>1, <2>2
  <1> HIDE DEF inc
  <1>7. ASSUME NEW b \in Groups
        PROVE  {b, Core} \cup Reach(inc, b) = {b, Core} \cup Reach(Run.inc, b)
    <2>1. /\ {b, Core} \cup Reach(Run.inc, b) = {b, Core} \cup Reach(new, b)
          /\ {b, Core} \cup Reach(new, b) \subseteq Groups
      BY <1>7, NewInstalled
    <2> HIDE DEF new
    <2>2. Groups \in SUBSET Bundle /\ Reach(new, b) \subseteq Groups
      BY <1>3, <2>1
    <2>3. {b, Core} \cup Reach(inc, b) = {b, Core} \cup Reach(new, b)
      BY <1>5, <1>6, <1>7, <2>2, SameReach
    <2>4. QED
      BY <2>1, <2>3
  <1>8. ASSUME NEW b \in Groups
        PROVE  LivePaths(InForce(nv, b).files) \cap BootPaths \subseteq DOMAIN Run.img[b]
    BY <1>8, NewShown DEF BootFilesOnly
  <1>9. QED
    BY <1>1, <1>2, <1>4, <1>7, <1>8 DEF FromBuild, inc

\* Publishing: the ghosts of the new release were live in the one before it.
LEMMA PublishGhosts ==
    ASSUME CheckExit, DeletionInv, ReleaseInv, GhostsOK, BootFilesOnly, Publish
    PROVE  GhostsOK'
  <1>1. /\ pc = "done" /\ pc' = "idle" /\ published' = published \cup {nv}
        /\ UNCHANGED <<www, wwwMoM, image, plan>>
    BY DEF Publish, ForgetRun
  <1>2. /\ HistoryInv /\ RecordsOK /\ TypeInv /\ pc # "idle" /\ GhostsPast
    BY <1>1 DEF DeletionInv, HistoryInv, IntactInv, GhostsOK
  <1>3. \A v : Listed(v)' = Listed(v) /\ \A b : InForce(v, b)' = InForce(v, b)
    BY <1>1 DEF Listed, InForce
  <1>4. ASSUME NEW v, FromBuild(v)
        PROVE  FromBuild(v)'
    <2>1. IncludesIn(v)' = IncludesIn(v) /\ image'[v] = image[v] /\ plan'[v] = plan[v]
      BY <1>1, <1>3 DEF IncludesIn
    <2>2. \A b : /\ Reach(IncludesIn(v), b)' = Reach(IncludesIn(v), b)
                 /\ Reach(image[v].inc, b)' = Reach(image[v].inc, b)
      BY <2>1 DEF Reach
    <2>3. QED
      BY <1>3, <1>4, <2>1, <2>2 DEF FromBuild
  <1>5. \A v \in published' : FromBuild(v)'
    BY <1>1, <1>2, <1>4, NewFromBuild DEF GhostsPast
  <1>6. nv \in Nat /\ nv \notin published /\ \A v \in published : v \in Nat /\ v < nv
    <2>1. nv \in Version /\ published \subseteq Version
      BY <1>2 DEF TypeInv, TypeOK, DiskTypeOK, StepOK
    <2>2. \A v \in published : v <= lastVer /\ lastVer < nv /\ lastVer \in published
      BY <1>1, <1>2, LastRelease
    <2>3. \A x \in Version : x \in Nat
      BY PathAssumption DEF Version
    <2>4. QED
      BY <2>1, <2>2, <2>3
  <1>7. \A v \in published : GhostsFresh(v)'
    BY <1>1, <1>2, <1>3, <1>6 DEF GhostsPast, GhostsFresh
  <1>8. ASSUME NEW v, v = nv
        PROVE  GhostsFresh(v)'
    <2>1. SUFFICES ASSUME NEW b \in Listed(nv), NEW p \in DOMAIN InForce(nv, b).files
                   PROVE  /\ p \in BootPaths => ~InForce(nv, b).files[p].deleted
                          /\ InForce(nv, b).files[p].ghosted =>
                                \E w \in published' :
                                    /\ w < nv /\ \A u \in published' : u < nv => u <= w
                                    /\ b \in Listed(w) /\ p \in LivePaths(InForce(w, b).files)
      BY <1>3, <1>8 DEF GhostsFresh
    <2>2. Fresh(InForce(nv, b).files, Prior(b).files) /\ b \in Bundle
      BY <1>1, <1>2, NewGhosts, NewInForce
    <2>3. ASSUME p \in LivePaths(Prior(b).files)
          PROVE  /\ lastVer \in published /\ b \in Listed(lastVer)
                 /\ InForce(lastVer, b) = Prior(b)
      BY <1>2, <2>2, <2>3, PriorKept DEF LivePaths
    <2>4. \A u \in published : u <= lastVer /\ lastVer < nv
      BY <1>1, <1>2, LastRelease
    <2>5. QED
      BY <1>1, <1>6, <2>1, <2>2, <2>3, <2>4 DEF Fresh
  <1>9. GhostsPast'
    BY <1>1, <1>5, <1>7, <1>8 DEF GhostsPast
  <1>10. QED
    BY <1>1, <1>9, QuietGhosts
-----------------------------------------------------------------------------
(* The theorem *)

LEMMA NextHaunted ==
    ASSUME CheckExit, CleanRerun, BootFilesOnly, IncludesSettled,
           DeletionInv, ReleaseInv, GhostsOK, [Next]_vars
    PROVE  GhostsOK'
  <1>0. DeletionInv' /\ HistoryInv' /\ IntactInv' /\ GhostsPast
    BY NextDeletion DEF DeletionInv, HistoryInv, GhostsOK
  <1>1. CASE UNCHANGED vars
    <2>1. /\ UNCHANGED <<plan, published, image, www, wwwMoM, pc, nv, gi, changed, oldM, newM>>
          /\ Run' = Run /\ \A b : Prior(b)' = Prior(b)
      BY <1>1 DEF vars, disk, proc, Run, OldMoM, OldMoMFile, Prior, FromFile, OldFile,
                  Read, SubVersion, NewManifest
    <2>2. GhostsPast'
      BY <1>0, <2>1, IdleGhosts
    <2>3. Through' = Through /\ Current' = Current
      BY <2>1 DEF Through, Finished, Written, Groups, Current
    <2>4. \A b : /\ GhostsMatched(b)' <=> GhostsMatched(b)
                 /\ GhostsFinal(b)' <=> GhostsFinal(b)
                 /\ Fresh(newM[b].files, Prior(b).files)' <=> Fresh(newM[b].files, Prior(b).files)
      BY <2>1 DEF GhostsMatched, GhostsFinal, Fresh
    <2>5. QED
      BY <2>1, <2>2, <2>3, <2>4 DEF GhostsOK
  <1>2. CASE \E v \in Version : \E in \in plan[v] : Start(v, in)
    <2>1. \A v \in published : image'[v] = image[v]
      BY <1>2, StartBuilds
    <2>2. UNCHANGED <<plan, published, www, wwwMoM>> /\ pc' = "chroot"
      BY <1>2 DEF Start
    <2>3. QED
      BY <1>0, <2>1, <2>2, IdleGhosts, QuietGhosts
  <1>3. CASE CreateUpdateStep
    <2>1. ASSUME FormatTooOld \/ CoreTypeChange \/ IncludesUnresolvable
                 \/ BundleTypeChange \/ OldUnreadable
          PROVE  GhostsOK'
      <3>1. UNCHANGED <<plan, published, image, www, wwwMoM>> /\ pc' = "failed"
        BY <2>1 DEF FormatTooOld, CoreTypeChange, IncludesUnresolvable,
                    BundleTypeChange, OldUnreadable, Fail, disk
      <3>2. QED
        BY <1>0, <3>1, IdleGhosts, QuietGhosts
    <2>2. ASSUME CreateFullChroot \/ CreateFullManifest
          PROVE  GhostsOK'
      <3>1. UNCHANGED <<plan, published, image, www, wwwMoM>> /\ pc' \in {"full", "core"}
        BY <2>2 DEF CreateFullChroot, CreateFullManifest, disk
      <3>2. QED
        BY <1>0, <3>1, IdleGhosts, QuietGhosts
    <2>3. ASSUME MatchCore \/ CoreUnchanged \/ CoreChanged \/ WriteCore
                 \/ LoadBundles \/ SkipCore \/ MatchBundle \/ BundleUnchanged \/ BundleChanged
                 \/ WriteBundle \/ WriteMoM \/ WriteFull
          PROVE  GhostsOK'
      <3>1. pc # "idle" /\ UNCHANGED <<plan, lastVer, published, image, nv>>
        BY <2>3 DEF MatchCore, CoreUnchanged, CoreChanged, WriteCore,
           LoadBundles, SkipCore, MatchBundle, BundleUnchanged, KeepOldVersion, BundleChanged,
           WriteBundle, WriteMoM, WriteFull, disk
      <3>2. Haunted
        BY <1>0, <3>1 DEF Haunted, Delivering, Keeping, Continues, DeletionInv
      <3>3. QED
        BY <2>3, <3>2, CoreGhosts, BundleGhosts, FinishGhosts
    <2>4. QED
      BY <1>3, <2>1, <2>2, <2>3 DEF CreateUpdateStep
  <1>4. CASE Publish
    BY <1>4, PublishGhosts
  <1>5. CASE GiveUp
    <2>1. UNCHANGED <<plan, published, image, www, wwwMoM>> /\ pc' = "idle"
      BY <1>5 DEF GiveUp, ForgetRun, disk
    <2>2. QED
      BY <1>0, <2>1, IdleGhosts, QuietGhosts
  <1>6. CASE Crash \/ CrashInChroot
    <2>1. UNCHANGED <<plan, published, image, www, wwwMoM>> /\ pc' = "failed"
      BY <1>6 DEF Crash, CrashInChroot, disk
    <2>2. QED
      BY <1>0, <2>1, IdleGhosts, QuietGhosts
  <1>7. CASE CrashInWrite
    <2>1. pc # "idle" /\ pc' = "failed" /\ UNCHANGED <<plan, lastVer, published, image, nv>>
      BY <1>7 DEF CrashInWrite
    <2>2. Haunted
      BY <1>0, <2>1 DEF Haunted, Delivering, Keeping, Continues, DeletionInv
    <2>3. QED
      BY <2>1, <2>2, HauntedRun, QuietGhosts
  <1>8. QED
    BY <1>1, <1>2, <1>3, <1>4, <1>5, <1>6, <1>7 DEF Next

GhostsInv == ContentInv /\ GhostsOK

\* What was live just before it became a ghost was not a ghost then, or before.
LEMMA GhostsGo ==
    ASSUME GhostsInv
    PROVE  GhostsLastOneRelease
  <1>1. GhostsPast /\ published \subseteq Version
    BY DEF GhostsInv, ContentInv, GhostsOK, DeletionInv, HistoryInv, IntactInv,
           TypeInv, TypeOK, DiskTypeOK
  <1>2. \A v \in published : v \in Int
    BY <1>1, PathAssumption DEF Version
  <1>3. SUFFICES ASSUME NEW v1 \in published, NEW v2 \in published, v1 < v2,
                        NEW b \in Listed(v1) \cap Listed(v2),
                        NEW p \in DOMAIN InForce(v2, b).files, InForce(v2, b).files[p].ghosted
                 PROVE  \E v \in Between(v1, v2) :
                            b \in Listed(v) /\ p \in LivePaths(InForce(v, b).files)
    BY DEF GhostsLastOneRelease
  <1>4. PICK w \in published :
            /\ w < v2 /\ \A u \in published : u < v2 => u <= w
            /\ b \in Listed(w) /\ p \in LivePaths(InForce(w, b).files)
    BY <1>1, <1>3 DEF GhostsPast, GhostsFresh
  <1>5. w \in Between(v1, v2)
    BY <1>2, <1>3, <1>4 DEF Between
  <1>6. QED
    BY <1>4, <1>5

\* Where boot files are files in every build, and no bundle begins to include one it
\* had a boot file in common with, a ghost is in no later release unless the file
\* came back in between, whatever runs failed before.
THEOREM GhostsGoAfterOneRelease ==
    CheckExit /\ CleanRerun /\ BootFilesOnly /\ IncludesSettled => (Spec => []GhostsLastOneRelease)
  <1> SUFFICES ASSUME CheckExit, CleanRerun, BootFilesOnly, IncludesSettled
               PROVE  Spec => []GhostsLastOneRelease
    OBVIOUS
  <1>1. Init => GhostsInv
    <2>1. Init => GhostsOK
      BY DEF Init, GhostsOK, GhostsPast, Through, Written, Finished
    <2>2. QED
      BY <2>1, InitDeletion, InitRelease DEF GhostsInv, ContentInv
  <1>2. GhostsInv /\ [Next]_vars => GhostsInv'
    BY NextDeletion, NextRelease, NextHaunted DEF GhostsInv, ContentInv
  <1>3. GhostsInv => GhostsLastOneRelease
    BY GhostsGo
  <1>4. QED
    BY <1>1, <1>2, <1>3, PTL DEF Spec
=============================================================================
