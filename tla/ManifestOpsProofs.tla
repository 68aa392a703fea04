-------------------------- MODULE ManifestOpsProofs --------------------------
(***************************************************************************)
(* What the operations of ManifestOps return: each turns file lists into a *)
(* file list, so that no run can write an entry a later run cannot read;   *)
(* and what each leaves of what an entry says to a client: whether a file  *)
(* is there, with which hash, and since when.                              *)
(***************************************************************************)
EXTENDS ManifestOps, FiniteSetTheorems, TLAPS

\* A set of naturals that is not empty has a least element: the sets of what
\* lies below its elements are finite, and one of them is minimal.
LEMMA LeastNatural ==
    ASSUME NEW S \in SUBSET Nat, S # {}
    PROVE  \E x \in S : \A y \in S : x <= y
  <1> DEFINE Below(x) == {y \in S : y < x}
             B == {Below(x) : x \in S}
             R == StrictSubsetOrdering(S)
  <1>1. B \subseteq FiniteSubsetsOf(S)
    <2>1. ASSUME NEW x \in S PROVE IsFiniteSet(Below(x))
      <3>1. x \in Nat /\ \A y \in S : y \in Nat
        OBVIOUS
      <3>2. \A y \in S : y < x => y <= x
        BY <3>1
      <3>3. Below(x) \in SUBSET Nat
        BY <3>1
      <3>4. \A y \in Below(x) : y <= x
        BY <3>2
      <3>5. QED
        BY <3>1, <3>3, <3>4, FS_BoundedSetOfNaturals
    <2>2. QED
      BY <2>1 DEF FiniteSubsetsOf
  <1>2. B # {}
    OBVIOUS
  <1>3. IsWellFoundedOn(R, FiniteSubsetsOf(S))
    BY FS_StrictSubsetOrderingWellFounded
  <1>4. PICK m \in B : \A u \in B : ~(<<u, m>> \in R)
    <2> HIDE DEF B, R
    <2> QED BY <1>1, <1>2, <1>3, WFMin
  <1>5. PICK x \in S : m = Below(x)
    OBVIOUS
  <1>6. ASSUME NEW y \in S, y < x PROVE FALSE
    <2>0. x \in Nat /\ \A z \in S : z \in Nat
      OBVIOUS
    <2>1. /\ \A z \in S : z < y => z < x
          /\ y < x /\ ~(y < y)
      BY <1>6, <2>0
    <2>2. /\ Below(y) \in SUBSET S /\ Below(x) \in SUBSET S
          /\ Below(y) \subseteq Below(x) /\ Below(y) # Below(x)
      BY <2>1
    <2>3. <<Below(y), Below(x)>> \in R
      BY <2>2 DEF StrictSubsetOrdering
    <2>4. Below(y) \in B
      OBVIOUS
    <2>5. QED
      BY <1>4, <1>5, <2>3, <2>4
  <1>7. QED
    BY <1>6

\* The newest of a set of versions, which maximize_to_full picks, exists.
LEMMA NewestVersion ==
    ASSUME NEW N \in Nat, NEW S \in SUBSET (0..N), S # {}
    PROVE  /\ Max(S) \in S
           /\ \A y \in S : Max(S) >= y
  <1> DEFINE T == {N - x : x \in S}
  <1>1. T \in SUBSET Nat /\ T # {}
    <2>1. \A x \in S : N - x \in Nat
      OBVIOUS
    <2>2. QED
      BY <2>1
  <1>2. PICK t \in T : \A u \in T : t <= u
    BY <1>1, LeastNatural
  <1>3. PICK x \in S : t = N - x
    BY <1>2
  <1>4. \A y \in S : x >= y
    <2>1. TAKE y \in S
    <2>2. N - y \in T
      OBVIOUS
    <2>3. N - x <= N - y
      BY <1>2, <1>3, <2>2
    <2>4. QED
      BY <2>3
  <1>5. QED
    BY <1>3, <1>4 DEF Max

\* An image is a function from paths to nodes.
LEMMA ImageType ==
    ASSUME NEW img
    PROVE  img \in Image <=> DOMAIN img \subseteq Path /\ img \in [DOMAIN img -> Node]
  BY DEF Image

\* IsFileList says the same as membership in FileList.
LEMMA FileListType ==
    ASSUME NEW f
    PROVE  IsFileList(f) <=> f \in FileList
  BY DEF FileList, IsFileList
-----------------------------------------------------------------------------
\* An empty list.
LEMMA EmptyType == IsFileList(<<>>)
  BY DEF IsFileList

\* Restricting a list leaves a list: every operation that drops entries.
LEMMA RestrictType ==
    ASSUME NEW f, IsFileList(f), NEW S \in SUBSET DOMAIN f
    PROVE  IsFileList(Restrict(f, S))
  BY DEF IsFileList, Restrict

\* The list a directory scan makes, before and after hashing.
LEMMA HashedType ==
    ASSUME NEW img \in Image, NEW version \in 0..MaxVersion, NEW ban
    PROVE  /\ IsFileList(FromDirectory(img, version, ban))
           /\ IsFileList(Hashed(FromDirectory(img, version, ban), img))
  <1> DEFINE f == FromDirectory(img, version, ban)
  <1>1. DOMAIN f \subseteq Path /\ DOMAIN f \subseteq DOMAIN img
    BY ImageType DEF FromDirectory
  <1>2. IsFileList(f)
    <2>1. SUFFICES ASSUME NEW p \in DOMAIN f PROVE f[p] \in Entry
      BY <1>1 DEF IsFileList, FromDirectory
    <2>2. img[p] \in Node /\ KindOf[img[p]] \in {"F", "D", "L"}
      BY <1>1, ImageType, PathAssumption
    <2>3. QED
      BY <2>2 DEF FromDirectory, Entry, Hash
  <1>3. IsFileList(Hashed(f, img))
    <2>1. \A p \in DOMAIN f : f[p] \in Entry /\ img[p] \in Hash
      BY <1>1, <1>2, ImageType DEF IsFileList, Hash
    <2>2. \A p \in DOMAIN f : [f[p] EXCEPT !.hash = img[p]] \in Entry
      BY <2>1 DEF Entry
    <2>3. QED
      BY <1>1, <2>2 DEF IsFileList, Hashed
  <1>4. QED
    BY <1>2, <1>3

\* add_component_hashes_to_manifest copies hashes of one list into another.
LEMMA AddHashesType ==
    ASSUME NEW f, NEW full, IsFileList(f), IsFileList(full)
    PROVE  IsFileList(AddHashes(f, full))
  <1>1. ASSUME NEW p \in DOMAIN f
        PROVE  AddHashes(f, full)[p] \in Entry
    <2>1. f[p] \in Entry
      BY DEF IsFileList
    <2>2. p \in DOMAIN full => full[p].hash \in Hash
      BY DEF IsFileList, Entry
    <2>3. QED
      BY <2>1, <2>2 DEF AddHashes, Entry
  <1>2. QED
    BY <1>1 DEF IsFileList, AddHashes

\* add_deleted_file makes an entry of an entry.
LEMMA TombstoneType ==
    ASSUME NEW p, NEW old \in Entry, NEW version \in 0..MaxVersion
    PROVE  Tombstone(p, old, version) \in Entry
  BY DEF Tombstone, Entry, Hash

\* match_manifests keeps, redates and adds entries of its two lists.
LEMMA MatchedType ==
    ASSUME NEW old, NEW new, IsFileList(old), IsFileList(new),
           NEW version \in 0..MaxVersion, NEW minversion
    PROVE  IsFileList(Matched(old, new, version, minversion))
  <1> DEFINE f == Matched(old, new, version, minversion)
  <1>1. DOMAIN f = DOMAIN old \cup DOMAIN new
    BY DEF Matched
  <1>2. ASSUME NEW p \in DOMAIN f
        PROVE  f[p] \in Entry
    <2>1. CASE p \notin DOMAIN new
      BY <1>1, <2>1, TombstoneType DEF Matched, IsFileList
    <2>2. CASE p \in DOMAIN new
      <3>1. new[p] \in Entry
        BY <2>2 DEF IsFileList
      <3>2. p \in DOMAIN old => old[p].last \in 0..MaxVersion /\ old[p].rename \in BOOLEAN
        BY DEF IsFileList, Entry
      <3>3. p \in DOMAIN old
              => [new[p] EXCEPT !.last = old[p].last, !.rename = old[p].rename] \in Entry
        BY <3>1, <3>2 DEF Entry
      <3>4. QED
        BY <1>1, <2>2, <3>1, <3>3 DEF Matched
    <2>3. QED
      BY <2>1, <2>2
  <1>3. f = [p \in DOMAIN f |-> f[p]]
    BY DEF Matched
  <1>4. QED
    BY <1>1, <1>2, <1>3 DEF IsFileList

\* rename_detection sets a flag, and a hash of the same list.
LEMMA RenamesLinkedType ==
    ASSUME NEW old, NEW new, IsFileList(old), IsFileList(new), NEW version,
           NEW m \in RenameMatchings(old, new, version)
    PROVE  IsFileList(RenamesLinked(new, m))
  <1>1. Range(m) \subseteq DOMAIN new /\ DOMAIN m \subseteq DOMAIN new
    <2>1. CASE ~Renames
      BY <2>1 DEF RenameMatchings, Range
    <2>2. CASE Renames
      <3>1. PICK T \in SUBSET RenameTargets(old, new, version) :
                 m \in [T -> RenameSources(old, new, version)]
        BY <2>2 DEF RenameMatchings, Injection
      <3>2. QED
        BY <3>1 DEF RenameTargets, RenameSources, Range
    <2>3. QED
      BY <2>1, <2>2
  <1>2. ASSUME NEW p \in DOMAIN new
        PROVE  RenamesLinked(new, m)[p] \in Entry
    <2> DEFINE q == CHOOSE q \in DOMAIN m : m[q] = p
    <2>1. new[p] \in Entry
      BY DEF IsFileList
    <2>2. p \in Range(m) => q \in DOMAIN new
      BY <1>1 DEF Range
    <2>3. p \in Range(m) => new[q].hash \in Hash
      BY <2>2 DEF IsFileList, Entry
    <2> HIDE DEF q
    <2>4. /\ [new[p] EXCEPT !.rename = TRUE] \in Entry
          /\ p \in Range(m) => [new[p] EXCEPT !.rename = TRUE, !.hash = new[q].hash] \in Entry
      BY <2>1, <2>3 DEF Entry
    <2>5. QED
      BY <2>1, <2>4 DEF RenamesLinked, q
  <1>3. QED
    BY <1>2 DEF IsFileList, RenamesLinked

\* clean_renames resets flags and hashes.
LEMMA RenamesCleanedType ==
    ASSUME NEW f, IsFileList(f), NEW m
    PROVE  IsFileList(RenamesCleaned(f, m))
  <1>1. ASSUME NEW p \in DOMAIN f
        PROVE  RenamesCleaned(f, m)[p] \in Entry
    <2>1. f[p] \in Entry
      BY DEF IsFileList
    <2>2. [f[p] EXCEPT !.rename = FALSE,
                       !.hash = IF f[p].deleted THEN ZeroHash ELSE f[p].hash] \in Entry
      BY <2>1 DEF Entry, Hash
    <2>3. QED
      BY <2>1, <2>2 DEF RenamesCleaned
  <1>2. QED
    BY <1>1 DEF IsFileList, RenamesCleaned

\* prune_manifest drops entries and turns some into ghosts.
LEMMA PrunedType ==
    ASSUME NEW f, IsFileList(f), NEW ban
    PROVE  IsFileList(Pruned(f, ban))
  <1>1. DOMAIN Pruned(f, ban) \subseteq DOMAIN f
    BY DEF Pruned
  <1>2. ASSUME NEW p \in DOMAIN Pruned(f, ban)
        PROVE  Pruned(f, ban)[p] \in Entry
    <2>1. f[p] \in Entry
      BY <1>1 DEF IsFileList
    <2>2. [f[p] EXCEPT !.deleted = FALSE, !.ghosted = TRUE] \in Entry
      BY <2>1 DEF Entry
    <2>3. QED
      BY <2>1, <2>2 DEF Pruned
  <1>3. Pruned(f, ban) = [p \in DOMAIN Pruned(f, ban) |-> Pruned(f, ban)[p]]
    BY DEF Pruned
  <1>4. QED
    BY <1>1, <1>2, <1>3 DEF IsFileList

\* maximize_to_full dates an entry to a version some list states.
LEMMA MaximizedType ==
    ASSUME NEW full, IsFileList(full), NEW lists, \A g \in lists : IsFileList(g)
    PROVE  IsFileList(Maximized(full, lists))
  <1>1. ASSUME NEW p \in DOMAIN full
        PROVE  Maximized(full, lists)[p] \in Entry
    <2> DEFINE live == {g \in lists : p \in DOMAIN g /\ ~g[p].deleted}
               lasts == {full[p].last} \cup {g[p].last : g \in live}
    <2>1. full[p] \in Entry
      BY DEF IsFileList
    <2>2. \A g \in live : g[p].last \in 0..MaxVersion
      BY DEF IsFileList, Entry
    <2>3. full[p].last \in 0..MaxVersion
      BY <2>1 DEF Entry
    <2>4. lasts \in SUBSET (0..MaxVersion) /\ lasts # {}
      BY <2>2, <2>3
    <2>5. Maximized(full, lists)[p] = [full[p] EXCEPT !.last = Max(lasts)]
      BY DEF Maximized
    <2> HIDE DEF lasts
    <2>6. Max(lasts) \in 0..MaxVersion
      BY <2>4, NewestVersion, PathAssumption
    <2>7. QED
      BY <2>1, <2>5, <2>6 DEF Entry
  <1>2. QED
    BY <1>1 DEF IsFileList, Maximized

\* subtract_manifests only drops entries.
LEMMA SubtractedType ==
    ASSUME NEW f, IsFileList(f), NEW lists
    PROVE  IsFileList(Subtracted(f, lists))
  BY RestrictType DEF Subtracted

\* remove_deprecated_files only drops entries.
LEMMA WithoutOldType ==
    ASSUME NEW old, NEW new, IsFileList(new)
    PROVE  /\ IsFileList(WithoutOldTombstones(old, new))
           /\ IsFileList(WithoutOldGhosts(old, new))
  BY RestrictType DEF WithoutOldTombstones, WithoutOldGhosts
-----------------------------------------------------------------------------
(* What an entry says, and how long it goes on saying it *)

Dated(f, v) == \A p \in DOMAIN f : f[p].last <= v

\* What is gone has no type, and no hash but that of a rename.
PlainGone(f) ==
    \A p \in DOMAIN f : ~Live(f[p]) =>
        f[p].kind = "." /\ (f[p].rename \/ f[p].hash = ZeroHash)

\* Before prune_manifest a ghost is a tombstone as well.
GhostsDead(f) == \A p \in DOMAIN f : f[p].ghosted => f[p].deleted

\* A list of a chroot dated v, whose hashes may be there or not.
RawList(f, v) ==
    \A p \in DOMAIN f : Live(f[p]) /\ f[p].last = v /\ f[p].kind # "."

\* To a client e says what d says.
Says(e, d) ==
    /\ e.last = d.last
    /\ Live(e) <=> Live(d)
    /\ Live(e) => e.hash = d.hash
    /\ e.deleted => d.deleted

Echoes(g, f) == DOMAIN g \subseteq DOMAIN f /\ \A p \in DOMAIN g : Says(g[p], f[p])

Part(g, f) == DOMAIN g \subseteq DOMAIN f /\ \A p \in DOMAIN g : g[p] = f[p]

\* An entry of f is dated v, or says what o says.
Descends(f, o, v) ==
    \A p \in DOMAIN f : f[p].last = v \/ (p \in DOMAIN o /\ Says(f[p], o[p]))

\* The live entries of f dated v are live in full, with the same hash.
Sourced(f, full, v) ==
    \A p \in DOMAIN f : Live(f[p]) /\ f[p].last = v =>
        p \in DOMAIN full /\ Live(full[p]) /\ full[p].hash = f[p].hash

\* prune_manifest would keep the live entries of f.
Shipped(f, ban) ==
    \A p \in LivePaths(f) : ~(Stateless /\ p \in ConfigPaths) /\ ~(ban /\ p \in DebugPaths)

\* What descends is not disturbed by an operation that echoes its list, or by
\* putting back what was subtracted from the old one.
LEMMA EchoHistory ==
    ASSUME NEW g, NEW f, NEW o, NEW v, Echoes(g, f)
    PROVE  /\ Descends(f, o, v) => Descends(g, o, v)
           /\ \A full : Sourced(f, full, v) => Sourced(g, full, v)
           /\ \A h : Echoes(f, h) => Echoes(g, h)
  BY DEF Echoes, Descends, Sourced, Says

LEMMA PartHistory ==
    ASSUME NEW g, NEW f, Part(g, f)
    PROVE  /\ Echoes(g, f)
           /\ PlainGone(f) => PlainGone(g)
           /\ GhostsDead(f) => GhostsDead(g)
           /\ \A v : Dated(f, v) => Dated(g, v)
           /\ \A v : RawList(f, v) => RawList(g, v)
           /\ \A full, v : Sourced(f, full, v) => Sourced(g, full, v)
           /\ \A h, v : Descends(h, g, v) => Descends(h, f, v)
  BY DEF Part, Echoes, PlainGone, GhostsDead, Dated, RawList, Sourced, Descends, Says

\* Every operation that only drops entries.
LEMMA DropsPart ==
    /\ \A f, lists : Part(Subtracted(f, lists), f)
    /\ \A old, f : Part(WithoutOldTombstones(old, f), f)
    /\ \A old, f : Part(WithoutOldGhosts(old, f), f)
  BY DEF Part, Subtracted, WithoutOldTombstones, WithoutOldGhosts, Restrict

\* A directory scan with the hashes of the full list.
LEMMA RawHistory ==
    ASSUME NEW img \in Image, NEW v, NEW ban, NEW full
    PROVE  /\ RawList(FromDirectory(img, v, ban), v)
           /\ RawList(AddHashes(FromDirectory(img, v, ban), full), v)
           /\ (\A p \in DOMAIN img : ~(ban /\ p \in DebugPaths) => p \in LivePaths(full))
                => Sourced(AddHashes(FromDirectory(img, v, ban), full), full, v)
  <1> DEFINE f == FromDirectory(img, v, ban)
  <1>1. ASSUME NEW p \in DOMAIN f
        PROVE  /\ p \in DOMAIN img /\ ~(ban /\ p \in DebugPaths)
               /\ f[p] = [kind |-> KindOf[img[p]], deleted |-> FALSE, ghosted |-> FALSE,
                          rename |-> FALSE, hash |-> NoHash, last |-> v]
               /\ KindOf[img[p]] # "."
    <2>1. p \in DOMAIN img /\ ~(ban /\ p \in DebugPaths)
      BY DEF FromDirectory
    <2>2. img[p] \in Node
      BY <2>1, ImageType
    <2>3. QED
      BY <2>1, <2>2, PathAssumption DEF FromDirectory
  <1> HIDE DEF f
  <1>2. RawList(f, v)
    BY <1>1 DEF RawList, Live
  <1>3. ASSUME NEW p \in DOMAIN f
        PROVE  /\ AddHashes(f, full)[p].kind = f[p].kind
               /\ ~AddHashes(f, full)[p].deleted /\ ~AddHashes(f, full)[p].ghosted
               /\ AddHashes(f, full)[p].last = v
               /\ p \in LivePaths(full) => AddHashes(f, full)[p].hash = full[p].hash
    BY <1>1 DEF AddHashes, LivePaths, Live
  <1>4. DOMAIN AddHashes(f, full) = DOMAIN f
    BY DEF AddHashes
  <1>5. RawList(AddHashes(f, full), v)
    BY <1>1, <1>3, <1>4 DEF RawList, Live
  <1>6. (\A p \in DOMAIN img : ~(ban /\ p \in DebugPaths) => p \in LivePaths(full))
          => Sourced(AddHashes(f, full), full, v)
    BY <1>1, <1>3, <1>4 DEF Sourced, LivePaths
  <1>7. QED
    BY <1>2, <1>5, <1>6 DEF f

\* match_manifests: what it dates back says what the old entry says, because a
\* file is never mistaken for what is gone.
LEMMA MatchedHistory ==
    ASSUME NEW old, NEW new, IsFileList(old), IsFileList(new), NEW v, NEW minversion,
           PlainGone(old), RawList(new, v)
    PROVE  /\ PlainGone(Matched(old, new, v, minversion))
           /\ GhostsDead(Matched(old, new, v, minversion))
           /\ Descends(Matched(old, new, v, minversion), old, v)
           /\ \A full : Sourced(new, full, v)
                          => Sourced(Matched(old, new, v, minversion), full, v)
  <1> DEFINE f == Matched(old, new, v, minversion)
  <1>1. DOMAIN f = DOMAIN old \cup DOMAIN new
    BY DEF Matched
  <1>2. ASSUME NEW p \in DOMAIN old, p \notin DOMAIN new
        PROVE  /\ f[p].kind = "." /\ f[p].deleted
               /\ f[p].rename \/ f[p].hash = ZeroHash
               /\ f[p].last = v \/ Says(f[p], old[p])
    <2>1. f[p] = Tombstone(p, old[p], v)
      BY <1>2 DEF Matched
    <2>2. old[p] \in Entry
      BY DEF IsFileList
    <2>3. ~Live(old[p]) => old[p].rename \/ old[p].hash = ZeroHash
      BY DEF PlainGone
    <2>4. QED
      BY <2>1, <2>2, <2>3 DEF Tombstone, Live, Says, Entry
  <1>3. ASSUME NEW p \in DOMAIN new
        PROVE  /\ Live(f[p]) /\ f[p].hash = new[p].hash
               /\ f[p].last = v \/ (p \in DOMAIN old /\ Says(f[p], old[p]))
               /\ new[p].last = v
    <2>1. new[p] \in Entry /\ Live(new[p]) /\ new[p].last = v /\ new[p].kind # "."
      BY DEF IsFileList, RawList
    <2>2. CASE p \in DOMAIN old /\ Unchanged(old[p], new[p], minversion)
      <3>1. f[p] = [new[p] EXCEPT !.last = old[p].last, !.rename = old[p].rename]
        BY <1>1, <2>2 DEF Matched
      <3>2. /\ f[p].deleted = new[p].deleted /\ f[p].ghosted = new[p].ghosted
            /\ f[p].hash = new[p].hash /\ f[p].last = old[p].last
        BY <2>1, <3>1 DEF Entry
      <3>3. /\ old[p].kind = new[p].kind /\ old[p].deleted = new[p].deleted
            /\ old[p].hash = new[p].hash
        BY <2>2 DEF Unchanged, SameContents
      <3>4. Live(old[p])
        BY <2>1, <2>2, <3>3 DEF PlainGone
      <3>5. QED
        BY <2>1, <2>2, <3>2, <3>3, <3>4 DEF Says, Live
    <2>3. CASE ~(p \in DOMAIN old /\ Unchanged(old[p], new[p], minversion))
      <3>1. f[p] = new[p]
        BY <1>1, <2>3 DEF Matched
      <3>2. QED
        BY <2>1, <3>1
    <2>4. QED
      BY <2>2, <2>3
  <1> HIDE DEF f
  <1>4. PlainGone(f)
    BY <1>1, <1>2, <1>3 DEF PlainGone
  <1>5. GhostsDead(f)
    BY <1>1, <1>2, <1>3 DEF GhostsDead, Live
  <1>6. Descends(f, old, v)
    BY <1>1, <1>2, <1>3 DEF Descends
  <1>7. \A full : Sourced(new, full, v) => Sourced(f, full, v)
    BY <1>1, <1>2, <1>3 DEF Sourced, Live, RawList
  <1>8. QED
    BY <1>4, <1>5, <1>6, <1>7 DEF f

\* Both ends of a rename are new: a file, and a tombstone of this version.
LEMMA MatchingEnds ==
    ASSUME NEW old, NEW new, NEW v, NEW m \in RenameMatchings(old, new, v)
    PROVE  /\ \A p \in DOMAIN m : p \in DOMAIN new /\ ~new[p].deleted
           /\ \A p \in Range(m) : p \in DOMAIN new /\ new[p].deleted
  <1>1. CASE ~Renames
    BY <1>1 DEF RenameMatchings, Range
  <1>2. CASE Renames
    <2>1. PICK T \in SUBSET RenameTargets(old, new, v) :
               m \in [T -> RenameSources(old, new, v)]
      BY <1>2 DEF RenameMatchings, Injection
    <2>2. QED
      BY <2>1 DEF RenameTargets, RenameSources, Range
  <1>3. QED
    BY <1>1, <1>2

\* rename_detection says nothing new of what is live or gone.
LEMMA LinkedHistory ==
    ASSUME NEW old, NEW new, IsFileList(new), NEW v, NEW m \in RenameMatchings(old, new, v)
    PROVE  /\ Echoes(RenamesLinked(new, m), new)
           /\ DOMAIN RenamesLinked(new, m) = DOMAIN new
           /\ \A p \in DOMAIN new : RenamesLinked(new, m)[p].deleted = new[p].deleted
           /\ PlainGone(new) => PlainGone(RenamesLinked(new, m))
           /\ GhostsDead(new) => GhostsDead(RenamesLinked(new, m))
  <1> DEFINE f == RenamesLinked(new, m)
  <1>1. DOMAIN f = DOMAIN new
    BY DEF RenamesLinked
  <1>2. ASSUME NEW p \in DOMAIN new
        PROVE  /\ f[p].kind = new[p].kind /\ f[p].deleted = new[p].deleted
               /\ f[p].ghosted = new[p].ghosted /\ f[p].last = new[p].last
               /\ new[p].rename => f[p].rename
               /\ f[p].hash # new[p].hash => f[p].rename /\ f[p].deleted
    <2> DEFINE q == CHOOSE q \in DOMAIN m : m[q] = p
    <2>1. new[p] \in Entry
      BY DEF IsFileList
    <2>2. f[p] = IF p \in DOMAIN m THEN [new[p] EXCEPT !.rename = TRUE]
                 ELSE IF p \in Range(m)
                 THEN [new[p] EXCEPT !.rename = TRUE, !.hash = new[q].hash]
                 ELSE new[p]
      BY DEF RenamesLinked
    <2> HIDE DEF q, f
    <2>3. CASE p \in DOMAIN m
      BY <2>1, <2>2, <2>3 DEF Entry
    <2>4. CASE p \notin DOMAIN m /\ p \in Range(m)
      BY <2>1, <2>2, <2>4, MatchingEnds DEF Entry
    <2>5. QED
      BY <2>2, <2>3, <2>4
  <1> HIDE DEF f
  <1>3. Echoes(f, new)
    BY <1>1, <1>2 DEF Echoes, Says, Live
  <1>4. PlainGone(new) => PlainGone(f)
    BY <1>1, <1>2 DEF PlainGone, Live
  <1>5. GhostsDead(new) => GhostsDead(f)
    BY <1>1, <1>2 DEF GhostsDead
  <1>6. QED
    BY <1>1, <1>2, <1>3, <1>4, <1>5 DEF f

\* clean_renames: an orphan that is gone loses its hash with its flag.
LEMMA CleanedHistory ==
    ASSUME NEW f, IsFileList(f), NEW m
    PROVE  /\ Echoes(RenamesCleaned(f, m), f)
           /\ DOMAIN RenamesCleaned(f, m) = DOMAIN f
           /\ \A p \in DOMAIN f : RenamesCleaned(f, m)[p].deleted = f[p].deleted
           /\ GhostsDead(f) => GhostsDead(RenamesCleaned(f, m))
           /\ PlainGone(f) /\ GhostsDead(f) => PlainGone(RenamesCleaned(f, m))
  <1> DEFINE g == RenamesCleaned(f, m)
  <1>1. DOMAIN g = DOMAIN f
    BY DEF RenamesCleaned
  <1>2. ASSUME NEW p \in DOMAIN f
        PROVE  /\ g[p].kind = f[p].kind /\ g[p].deleted = f[p].deleted
               /\ g[p].ghosted = f[p].ghosted /\ g[p].last = f[p].last
               /\ ~f[p].deleted => g[p].hash = f[p].hash
               /\ f[p].deleted => g[p] = f[p] \/ g[p].hash = ZeroHash
    <2>1. f[p] \in Entry
      BY DEF IsFileList
    <2>2. g[p] = f[p] \/ g[p] = [f[p] EXCEPT !.rename = FALSE,
                                    !.hash = IF f[p].deleted THEN ZeroHash ELSE f[p].hash]
      BY DEF RenamesCleaned
    <2>3. QED
      BY <2>1, <2>2 DEF Entry
  <1> HIDE DEF g
  <1>3. Echoes(g, f)
    BY <1>1, <1>2 DEF Echoes, Says, Live
  <1>4. GhostsDead(f) => GhostsDead(g)
    BY <1>1, <1>2 DEF GhostsDead
  <1>5. ASSUME PlainGone(f), GhostsDead(f), NEW p \in DOMAIN f, ~Live(g[p])
        PROVE  g[p].kind = "." /\ (g[p].rename \/ g[p].hash = ZeroHash)
    <2>1. f[p].deleted /\ ~Live(f[p])
      BY <1>2, <1>5 DEF GhostsDead, Live
    <2>2. f[p].kind = "." /\ (f[p].rename \/ f[p].hash = ZeroHash)
      BY <1>5, <2>1 DEF PlainGone
    <2>3. QED
      BY <1>2, <2>1, <2>2
  <1>6. QED
    BY <1>1, <1>2, <1>3, <1>4, <1>5 DEF PlainGone, g

\* prune_manifest: what is gone stays gone as a ghost.
LEMMA PrunedHistory ==
    ASSUME NEW f, IsFileList(f), NEW ban
    PROVE  /\ Echoes(Pruned(f, ban), f)
           /\ PlainGone(f) => PlainGone(Pruned(f, ban))
           /\ Shipped(Pruned(f, ban), ban)
           /\ \A p \in LivePaths(f) :
                 ~(Stateless /\ p \in ConfigPaths) /\ ~(ban /\ p \in DebugPaths)
                   => p \in DOMAIN Pruned(f, ban) /\ Pruned(f, ban)[p] = f[p]
  <1> DEFINE g == Pruned(f, ban)
             dying(p) == p \in BootPaths /\ f[p].deleted
  <1>1. ASSUME NEW p
        PROVE  p \in DOMAIN g <=> /\ p \in DOMAIN f
                                  /\ ~(Stateless /\ ~f[p].deleted /\ p \in ConfigPaths)
                                  /\ ~(~dying(p) /\ ban /\ p \in DebugPaths)
    BY DEF Pruned
  <1>2. ASSUME NEW p \in DOMAIN g
        PROVE  g[p] = IF dying(p) THEN [f[p] EXCEPT !.deleted = FALSE, !.ghosted = TRUE]
                      ELSE f[p]
    BY DEF Pruned
  <1>3. ASSUME NEW p \in DOMAIN g
        PROVE  /\ g[p].kind = f[p].kind /\ g[p].rename = f[p].rename
               /\ g[p].hash = f[p].hash /\ g[p].last = f[p].last
               /\ dying(p) => g[p].ghosted /\ ~g[p].deleted
               /\ ~dying(p) => g[p] = f[p]
    <2>1. f[p] \in Entry
      BY <1>1 DEF IsFileList
    <2>2. QED
      BY <1>2, <2>1 DEF Entry
  <1> HIDE DEF g
  <1>4. Echoes(g, f)
    BY <1>1, <1>3 DEF Echoes, Says, Live
  <1>5. PlainGone(f) => PlainGone(g)
    BY <1>1, <1>3 DEF PlainGone, Live
  <1>6. Shipped(g, ban)
    BY <1>1, <1>3 DEF Shipped, LivePaths, Live
  <1>7. \A p \in LivePaths(f) :
           ~(Stateless /\ p \in ConfigPaths) /\ ~(ban /\ p \in DebugPaths)
             => p \in DOMAIN g /\ g[p] = f[p]
    BY <1>1, <1>3 DEF LivePaths, Live
  <1>8. QED
    BY <1>4, <1>5, <1>6, <1>7 DEF g
-----------------------------------------------------------------------------
(* Renames come in pairs *)

\* An entry that is a rename has another one to go with it.
HasPartner(f, p) == \E q \in SameRename(f, p) : f[q].deleted # f[p].deleted

Coupled(f) == \A p \in DOMAIN f : f[p].rename => HasPartner(f, p)

\* Both ends of every pair of m are in f, linked.
EndsLinked(f, m) ==
    \A t \in DOMAIN m :
        /\ t \in DOMAIN f /\ f[t].rename /\ ~f[t].deleted
        /\ m[t] \in SameRename(f, t) /\ f[m[t]].deleted

\* clean_renames leaves no entry alone: if it finds a peer for p, it finds one for
\* some partner of p as well, so that the two are kept together.  The peers are
\* not mutual: final_link walks the entries once, and p may have been linked by one
\* that was linked with another before.
LEMMA PeerHasPeer ==
    ASSUME NEW f, IsFileList(f), NEW m, EndsLinked(f, m),
           NEW p \in DOMAIN f, f[p].rename, HasRenamePeer(f, p, m)
    PROVE  \E q \in SameRename(f, p) : f[q].deleted # f[p].deleted /\ HasRenamePeer(f, q, m)
  <1> DEFINE group      == SameRename(f, p)
             paired     == DOMAIN m \cup Range(m)
             partner(x) == {q \in group : f[q].deleted # f[x].deleted}
  <1>1. p \in group /\ group \subseteq DOMAIN f /\ group \subseteq Nat
    BY PathAssumption DEF SameRename, IsFileList
  <1>2. \A x \in group : SameRename(f, x) = group
    BY DEF SameRename
  <1>3. \A x \in group :
           HasRenamePeer(f, x, m) <=>
              \/ x \in paired
              \/ \E q \in partner(x) : q > x
              \/ \E q \in partner(x) \ paired : \A r \in group \ paired : q <= r
    BY <1>2 DEF HasRenamePeer
  <1>4. \A x \in group : f[x].deleted \in BOOLEAN
    BY <1>1 DEF IsFileList, Entry
  <1>5. SUFFICES \E q \in partner(p) : HasRenamePeer(f, q, m)
    OBVIOUS
  <1>6. CASE p \in DOMAIN m
    <2>1. m[p] \in partner(p) /\ m[p] \in paired
      BY <1>6 DEF EndsLinked, Range
    <2>2. QED
      BY <1>3, <2>1
  <1>7. CASE p \in Range(m)
    <2>1. PICK t \in DOMAIN m : m[t] = p
      BY <1>7 DEF Range
    <2>2. t \in partner(p) /\ t \in paired
      BY <2>1 DEF EndsLinked, SameRename
    <2>3. QED
      BY <1>3, <2>2
  <1>8. ASSUME p \notin paired, NEW q \in partner(p), q > p
        PROVE  \E x \in partner(p) : HasRenamePeer(f, x, m)
    <2>1. CASE q \in paired
      BY <1>3, <2>1
    <2>2. CASE q \notin paired
      <3>1. group \ paired \in SUBSET Nat /\ p \in group \ paired
        BY <1>1, <1>8
      <3>2. PICK r \in group \ paired : \A x \in group \ paired : r <= x
        <4> HIDE DEF group, paired
        <4> QED BY <3>1, LeastNatural
      <3>3. CASE f[r].deleted = f[p].deleted
        <4>1. r \in partner(q) \ paired
          BY <1>8, <3>2, <3>3
        <4>2. QED
          BY <1>3, <3>2, <4>1
      <3>4. CASE f[r].deleted # f[p].deleted
        <4>1. r \in partner(p) /\ p \in partner(r) /\ p > r
          <5>1. r <= p /\ r # p
            BY <3>1, <3>2, <3>4
          <5>2. QED
            BY <1>1, <3>1, <3>2, <3>4, <5>1
        <4>2. QED
          BY <1>3, <4>1
      <3>5. QED
        BY <3>3, <3>4
    <2>3. QED
      BY <2>1, <2>2
  <1>9. ASSUME p \notin paired, NEW q \in partner(p) \ paired,
               \A r \in group \ paired : q <= r
        PROVE  \E x \in partner(p) : HasRenamePeer(f, x, m)
    <2>1. q <= p /\ q # p /\ q \in Nat /\ p \in Nat
      BY <1>1, <1>9
    <2>2. p \in partner(q) /\ p > q
      BY <1>1, <1>9, <2>1
    <2>3. QED
      BY <1>3, <2>2
  <1>10. QED
    BY <1>1, <1>3, <1>6, <1>7, <1>8, <1>9

\* What clean_renames leaves of a linked list comes in pairs.
LEMMA CleanedPairs ==
    ASSUME NEW f, IsFileList(f), NEW m, EndsLinked(f, m)
    PROVE  Coupled(RenamesCleaned(f, m))
  <1> DEFINE g == RenamesCleaned(f, m)
  <1>1. DOMAIN g = DOMAIN f
    BY DEF RenamesCleaned
  <1>2. \A p \in DOMAIN f : f[p].rename /\ HasRenamePeer(f, p, m) => g[p] = f[p]
    BY DEF RenamesCleaned
  <1>3. \A p \in DOMAIN f : g[p].rename => f[p].rename /\ HasRenamePeer(f, p, m)
    BY DEF RenamesCleaned, IsFileList, Entry
  <1> HIDE DEF g
  <1>4. ASSUME NEW p \in DOMAIN g, g[p].rename
        PROVE  HasPartner(g, p)
    <2>1. p \in DOMAIN f /\ f[p].rename /\ HasRenamePeer(f, p, m) /\ g[p] = f[p]
      BY <1>1, <1>2, <1>3, <1>4
    <2>2. PICK q \in SameRename(f, p) : f[q].deleted # f[p].deleted /\ HasRenamePeer(f, q, m)
      BY <2>1, PeerHasPeer
    <2>3. q \in DOMAIN f /\ f[q].rename /\ g[q] = f[q]
      BY <1>2, <2>2 DEF SameRename
    <2>4. q \in SameRename(g, p)
      BY <1>1, <2>1, <2>2, <2>3 DEF SameRename
    <2>5. QED
      BY <2>1, <2>2, <2>3, <2>4 DEF HasPartner
  <1>5. QED
    BY <1>4 DEF Coupled, g

\* rename_detection links both ends of what it has chosen.
LEMMA LinkedPairs ==
    ASSUME NEW old, NEW new, IsFileList(new), NEW v, NEW m \in RenameMatchings(old, new, v)
    PROVE  EndsLinked(RenamesLinked(new, m), m)
  <1> DEFINE g == RenamesLinked(new, m)
  <1>1. CASE ~Renames
    BY <1>1 DEF RenameMatchings, EndsLinked
  <1>2. CASE Renames
    <2>1. PICK T \in SUBSET RenameTargets(old, new, v) :
             m \in Injection(T, RenameSources(old, new, v))
      BY <1>2 DEF RenameMatchings
    <2>2. DOMAIN m = T /\ \A t \in T : m[t] \in RenameSources(old, new, v)
      BY <2>1 DEF Injection
    <2>3. \A s, t \in DOMAIN m : m[s] = m[t] => s = t
      BY <2>1 DEF Injection, IsInjective
    <2>4. ASSUME NEW t \in DOMAIN m
          PROVE  /\ t \in DOMAIN new /\ new[t].last = v /\ ~new[t].deleted
                 /\ m[t] \in DOMAIN new /\ new[m[t]].deleted /\ new[m[t]].last = v
      BY <2>1, <2>2, <2>4 DEF RenameTargets, RenameSources
    <2>5. ASSUME NEW t \in DOMAIN m
          PROVE  /\ t \in DOMAIN g /\ g[t].rename /\ ~g[t].deleted
                 /\ m[t] \in SameRename(g, t) /\ g[m[t]].deleted
      <3>1. m[t] \notin DOMAIN m /\ m[t] \in Range(m)
        BY <2>4, <2>5 DEF Range
      <3>2. (CHOOSE q \in DOMAIN m : m[q] = m[t]) = t
        BY <2>3, <2>5
      <3>3. new[t] \in Entry /\ new[m[t]] \in Entry
        BY <2>4, <2>5 DEF IsFileList
      <3>4. g[t] = [new[t] EXCEPT !.rename = TRUE]
        BY <2>4, <2>5 DEF RenamesLinked
      <3>5. g[m[t]] = [new[m[t]] EXCEPT !.rename = TRUE, !.hash = new[t].hash]
        BY <2>4, <2>5, <3>1, <3>2 DEF RenamesLinked
      <3>6. DOMAIN g = DOMAIN new
        BY DEF RenamesLinked
      <3> HIDE DEF g
      <3>7. /\ g[t].rename /\ g[t].deleted = new[t].deleted
            /\ g[t].last = new[t].last /\ g[t].hash = new[t].hash
        BY <3>3, <3>4 DEF Entry
      <3>8. /\ g[m[t]].rename /\ g[m[t]].deleted = new[m[t]].deleted
            /\ g[m[t]].last = new[m[t]].last /\ g[m[t]].hash = new[t].hash
        BY <3>3, <3>5 DEF Entry
      <3>9. QED
        BY <2>4, <2>5, <3>6, <3>7, <3>8 DEF SameRename
    <2>6. QED
      BY <2>5 DEF EndsLinked
  <1>3. QED
    BY <1>1, <1>2

\* Dropping entries leaves a list linked that keeps both ends of each pair.
LEMMA PartLinked ==
    ASSUME NEW f, NEW g, Part(g, f), NEW m, EndsLinked(f, m),
           \A t \in DOMAIN m : t \in DOMAIN g /\ m[t] \in DOMAIN g
    PROVE  EndsLinked(g, m)
  BY DEF Part, EndsLinked, SameRename
================================================================================
