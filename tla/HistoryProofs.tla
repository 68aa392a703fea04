----------------------------- MODULE HistoryProofs -----------------------------
(***************************************************************************)
(* What a client may conclude from the manifests of two releases, proved   *)
(* for all builds: an entry that is not newer than the client says what    *)
(* the client has, tombstones are plain and stay within their format, and  *)
(* what is listed can be downloaded; and, in the second half, what goes    *)
(* away is on record.  The caller looks at the exit status, and for the    *)
(* downloads empties the union before a rerun.                             *)
(*                                                                         *)
(* The invariant follows a bundle through a run: what is read is the       *)
(* manifest in force before, every operation of ManifestOps leaves a list  *)
(* that descends from it, and what is published is the old manifest or     *)
(* such a descendant.                                                      *)
(***************************************************************************)
EXTENDS CreateUpdateProofs
-----------------------------------------------------------------------------
(* The invariant *)

\* The manifest in force before the run, as the run reads it.
Prior(b) == FromFile(OldFile(b), SubVersion(OldMoM, b))

\* m comes after o, format and all.
Succeeds(m, o) ==
    /\ m.format = Run.format
    /\ PlainGone(m.files) /\ Descends(m.files, o.files, nv)
    /\ \A p \in DOMAIN m.files :
          m.files[p].deleted /\ m.files[p].last # nv => o.format >= Run.format

\* The stages of a bundle.
Loaded(b) ==
    /\ oldM[b] = Prior(b)
    /\ newM[b].version = nv /\ newM[b].format = Run.format
    /\ newM[b].files = FromDirectory(Run.img[b], nv, Run.ban)

MatchedWell(b) ==
    /\ oldM[b].version = Prior(b).version /\ oldM[b].format = Prior(b).format
    /\ Part(oldM[b].files, Prior(b).files)
    /\ newM[b].version = nv /\ newM[b].format = Run.format
    /\ PlainGone(newM[b].files) /\ GhostsDead(newM[b].files)
    /\ Descends(newM[b].files, oldM[b].files, nv)
    /\ CleanRerun => Sourced(newM[b].files, newFull.files, nv)

Ready(b) ==
    /\ newM[b].version = nv /\ Succeeds(newM[b], Prior(b))
    /\ Shipped(newM[b].files, Run.ban)
    /\ CleanRerun => Sourced(newM[b].files, newFull.files, nv)

Final(b) ==
    /\ Dated(newM[b].files, nv)
    /\ \/ newM[b].version = Prior(b).version
       \/ Ready(b) /\ www[nv][b] = newM[b]

\* What is published as b of the new release.
Released(b) ==
    LET m == www[nv][b]
    IN  /\ Succeeds(m, Prior(b))
        /\ CleanRerun =>
             \A p \in LivePaths(m.files) : m.files[p].last = nv =>
                 /\ p \in LivePaths(wwwFull[nv].files)
                 /\ wwwFull[nv].files[p].hash = m.files[p].hash
                 /\ wwwFull[nv].files[p].last = nv

InLoop == pc \in {"bundle", "bundleMatched", "writeBundle"}
Listing == pc \in {"core", "coreMatched", "writeCore", "load", "mom", "writeFull"} \/ InLoop

\* The full list holds all that the build has.
FullListOK ==
    Listing =>
        /\ Dated(newFull.files, nv)
        /\ CleanRerun => \A b \in Groups : \A p \in DOMAIN Run.img[b] :
              ~(Run.ban /\ p \in DebugPaths) => p \in LivePaths(newFull.files)

\* The union is that of this run's build.
ChrootOK ==
    CleanRerun => /\ pc = "chroot" => chroot[nv] = Absent
                  /\ pc = "full" => chroot[nv] = FullChroot(Run)

StagesOK ==
    /\ pc = "coreMatched" => MatchedWell(Core)
    /\ pc = "writeCore" => Ready(Core)
    /\ \A b \in Finished : Final(b)
    /\ InLoop => \A b \in Groups \ Finished : (pc = "bundle" \/ b # Current) => Loaded(b)
    /\ pc = "bundleMatched" => Current \notin Finished /\ MatchedWell(Current)
    /\ pc = "writeBundle" => Current \notin Finished /\ Ready(Current)
    /\ pc = "writeFull" => \A b \in Groups : Final(b)

\* What the run says of the formats, and of what it has written.
ResultOK ==
    /\ (Listing /\ pc # "core") \/ pc = "done" => Run.format >= OldMoM.format
    /\ pc = "writeFull" => wwwMoM[nv].subs = [b \in Groups |-> newM[b].version]
    /\ pc \in {"writeFull", "done"} => wwwMoM[nv].format = Run.format
    /\ pc = "done" => /\ Dated(wwwFull[nv].files, nv)
                      /\ \A b \in Listed(nv) :
                           \/ wwwMoM[nv].subs[b] = Prior(b).version
                           \/ wwwMoM[nv].subs[b] = nv /\ Released(b)

\* What every release is like.
EntriesOK ==
    \A v \in published : \A b \in Listed(v) :
        LET m == InForce(v, b)
        IN  /\ PlainGone(m.files) /\ m.format <= wwwMoM[v].format
            /\ \A p \in DOMAIN m.files :
                 /\ m.files[p].last \in published /\ m.files[p].last <= v
                 /\ m.files[p].deleted => wwwMoM[m.files[p].last].format = m.format

FullDated ==
    wwwFull[0] = Absent /\ \A v \in published : Dated(wwwFull[v].files, v)

ReleasesOK ==
    EntriesOK /\ FullDated /\ UpdateSound /\ (CleanRerun => Downloadable)

HistoryInv == IntactInv /\ ReleasesOK /\ ChrootOK /\ FullListOK /\ StagesOK /\ ResultOK
-----------------------------------------------------------------------------
(* The lists of a run *)

\* new_full: everything in the chroot is in it, dated to this version or before.
LEMMA FullListHistory ==
    ASSUME TypeInv, pc = "full", NEW old, IsManifest(old), NEW w \in 0..MaxVersion, w < nv,
           Dated(old.files, w)
    PROVE  /\ Dated(FullList(old), nv)
           /\ \A p \in DOMAIN chroot[nv] :
                 ~(Run.ban /\ p \in DebugPaths) => p \in LivePaths(FullList(old))
  <1> DEFINE scanned == FromDirectory(chroot[nv], nv, Run.ban)
             hashed  == Hashed(scanned, chroot[nv])
             matched == Matched(old.files, hashed, nv, Run.minversion)
             bumped  == IF old.format < Run.format
                        THEN WithoutOldTombstones(old.files, matched) ELSE matched
             f       == WithoutOldGhosts(old.files, bumped)
  <1>0. f = FullList(old)
    BY DEF FullList
  <1>1. chroot[nv] \in Image /\ nv \in 0..MaxVersion /\ IsFileList(old.files)
    BY RunType, ManifestType DEF TypeInv, StepOK
  <1>2. ASSUME NEW p \in DOMAIN scanned
        PROVE  Live(hashed[p]) /\ hashed[p].last = nv
    BY DEF Hashed, FromDirectory, Live
  <1>3. DOMAIN hashed = {p \in DOMAIN chroot[nv] : ~(Run.ban /\ p \in DebugPaths)}
        /\ DOMAIN scanned = DOMAIN hashed
    BY DEF Hashed, FromDirectory
  <1>4. IsFileList(hashed)
    BY <1>1, HashedType
  <1> HIDE DEF scanned, hashed
  <1>5. DOMAIN matched = DOMAIN old.files \cup DOMAIN hashed
    BY DEF Matched
  <1>6. ASSUME NEW p \in DOMAIN hashed
        PROVE  Live(matched[p]) /\ matched[p].last <= nv
    <2>1. hashed[p] \in Entry /\ Live(hashed[p]) /\ hashed[p].last = nv
      BY <1>2, <1>3, <1>4 DEF IsFileList
    <2>2. p \in DOMAIN old.files => old.files[p].last \in 0..MaxVersion /\ old.files[p].last <= w
      BY <1>1 DEF IsFileList, Entry, Dated
    <2>3. \/ matched[p] = hashed[p]
          \/ /\ p \in DOMAIN old.files
             /\ matched[p] = [hashed[p] EXCEPT !.last = old.files[p].last,
                                               !.rename = old.files[p].rename]
      BY DEF Matched
    <2>4. Live(matched[p]) /\ (matched[p].last = nv
                               \/ (p \in DOMAIN old.files /\ matched[p].last = old.files[p].last))
      BY <2>1, <2>3 DEF Entry, Live
    <2>5. QED
      BY <1>1, <2>2, <2>4
  <1>7. ASSUME NEW p \in DOMAIN old.files, p \notin DOMAIN hashed
        PROVE  matched[p].last <= nv
    <2>1. matched[p] = Tombstone(p, old.files[p], nv)
      BY <1>7 DEF Matched
    <2>2. old.files[p].last \in 0..MaxVersion /\ old.files[p].last <= w
      BY <1>1 DEF IsFileList, Entry, Dated
    <2>3. QED
      BY <1>1, <2>1, <2>2 DEF Tombstone
  <1> HIDE DEF matched
  <1>8. /\ \A p \in DOMAIN f : p \in DOMAIN matched /\ f[p] = matched[p]
        /\ \A p \in DOMAIN matched : Live(matched[p]) => p \in DOMAIN f
    BY DEF WithoutOldTombstones, WithoutOldGhosts, Restrict, Live
  <1> HIDE DEF f
  <1>9. Dated(f, nv)
    BY <1>5, <1>6, <1>7, <1>8 DEF Dated
  <1>10. \A p \in DOMAIN chroot[nv] : ~(Run.ban /\ p \in DebugPaths) => p \in LivePaths(f)
    BY <1>3, <1>5, <1>6, <1>8 DEF LivePaths
  <1>11. QED
    BY <1>0, <1>9, <1>10

\* The union has the files of every group.
LEMMA UnionHolds ==
    ASSUME NEW in \in Input, NEW b \in Range(in.groups)
    PROVE  DOMAIN in.img[b] \subseteq DOMAIN FullChroot(in)
  <1>1. PICK k \in 1..Len(in.groups) : in.groups[k] = b
    BY InputType DEF Range
  <1>2. DOMAIN FullChroot(in) = DOMAIN in.img[Core]
            \cup UNION {DOMAIN in.img[in.groups[j]] : j \in 1..Len(in.groups)}
    BY DEF FullChroot, Overlay
  <1>3. QED
    BY <1>1, <1>2

\* From a matched list to the one that is written.
LEMMA CompletedHistory ==
    ASSUME NEW o, NEW n, IsManifest(o), IsManifest(n), o.format \in Nat, Run.format \in Nat,
           NEW m \in RenameMatchings(o.files, n.files, nv),
           PlainGone(n.files), GhostsDead(n.files), Descends(n.files, o.files, nv)
    PROVE  /\ IsFileList(Completed(o, n, m))
           /\ PlainGone(Completed(o, n, m)) /\ Shipped(Completed(o, n, m), Run.ban)
           /\ Echoes(Completed(o, n, m), n.files)
           /\ \A p \in DOMAIN Completed(o, n, m) :
                 Completed(o, n, m)[p].deleted /\ Completed(o, n, m)[p].last # nv
                   => o.format >= Run.format
  <1> DEFINE linked  == RenamesLinked(n.files, m)
             bumped  == Bumped(o, linked)
             kept    == WithoutOldGhosts(o.files, bumped)
             cleaned == RenamesCleaned(kept, m)
             f       == Pruned(cleaned, Run.ban)
  <1>0. f = Completed(o, n, m)
    BY DEF Completed
  <1>1. IsFileList(o.files) /\ IsFileList(n.files)
    BY ManifestType
  <1>2. /\ IsFileList(linked) /\ PlainGone(linked) /\ GhostsDead(linked)
        /\ Echoes(linked, n.files)
    BY <1>1, RenamesLinkedType, LinkedHistory
  <1> HIDE DEF linked
  <1>3. Part(bumped, linked) /\ IsFileList(bumped)
    BY <1>2, DropsPart, WithoutOldType DEF Bumped, Part
  <1>4. o.format < Run.format =>
          \A p \in DOMAIN bumped : bumped[p].deleted
             => ~(p \in DOMAIN o.files /\ o.files[p].deleted)
    BY DEF Bumped, WithoutOldTombstones, Restrict
  <1> HIDE DEF bumped
  <1>5. Part(kept, bumped) /\ IsFileList(kept)
    BY <1>3, DropsPart, WithoutOldType
  <1> HIDE DEF kept
  <1>6. PlainGone(bumped) /\ GhostsDead(bumped) /\ Echoes(bumped, n.files)
    BY <1>2, <1>3, PartHistory, EchoHistory
  <1>7. PlainGone(kept) /\ GhostsDead(kept) /\ Echoes(kept, n.files) /\ Echoes(kept, bumped)
    BY <1>5, <1>6, PartHistory, EchoHistory
  <1>8. /\ IsFileList(cleaned) /\ PlainGone(cleaned)
        /\ Echoes(cleaned, n.files) /\ Echoes(cleaned, bumped)
    BY <1>5, <1>7, RenamesCleanedType, CleanedHistory, EchoHistory
  <1> HIDE DEF cleaned
  <1>9. /\ IsFileList(f) /\ PlainGone(f) /\ Shipped(f, Run.ban)
        /\ Echoes(f, n.files) /\ Echoes(f, bumped)
    BY <1>8, PrunedType, PrunedHistory, EchoHistory
  <1> HIDE DEF f
  <1>10. ASSUME NEW p \in DOMAIN f, f[p].deleted, f[p].last # nv
         PROVE  o.format >= Run.format
    <2>1. p \in DOMAIN bumped /\ bumped[p].deleted
      BY <1>9, <1>10 DEF Echoes, Says
    <2>2. Descends(f, o.files, nv)
      BY <1>9, EchoHistory
    <2>3. p \in DOMAIN o.files /\ o.files[p].deleted
      BY <1>10, <2>2 DEF Descends, Says
    <2>4. ~(o.format < Run.format)
      BY <1>4, <2>1, <2>3
    <2>5. QED
      BY <2>4
  <1>11. QED
    BY <1>0, <1>9, <1>10

\* maximize_to_full and what follows it: an entry of this version in a bundle is
\* one of this version in the full list.
LEMMA FinalFullHistory ==
    ASSUME TypeInv, pc # "idle", Dated(newFull.files, nv),
           \A b \in Groups : Dated(newM[b].files, nv)
    PROVE  /\ Dated(FinalFull.files, nv)
           /\ \A b \in Groups : \A p \in LivePaths(newM[b].files) :
                 /\ newM[b].files[p].last = nv /\ Shipped(newM[b].files, Run.ban)
                 /\ Sourced(newM[b].files, newFull.files, nv)
                 => /\ p \in LivePaths(FinalFull.files)
                    /\ FinalFull.files[p].hash = newM[b].files[p].hash
                    /\ FinalFull.files[p].last = nv
  <1> DEFINE lists   == {newM[b].files : b \in Groups}
             raised  == Maximized(newFull.files, lists)
             cleaned == RenamesCleaned(raised, <<>>)
             f       == Pruned(cleaned, Run.ban)
  <1>1. /\ IsFileList(newFull.files) /\ nv \in 0..MaxVersion
        /\ \A g \in lists : IsFileList(g) /\ Dated(g, nv)
    BY RunType, ManifestType DEF TypeInv, TypeOK, RunTypeOK
  <1>2. FinalFull.files = f
    <2>1. IsManifest(newFull)
      BY DEF TypeInv, TypeOK, RunTypeOK
    <2> HIDE DEF f
    <2>2. FinalFull = [newFull EXCEPT !.files = f]
      BY DEF FinalFull, f
    <2>3. QED
      BY <2>1, <2>2 DEF IsManifest
  <1>3. ASSUME NEW p \in DOMAIN newFull.files
        PROVE  /\ p \in DOMAIN raised /\ raised[p].last <= nv
               /\ Live(raised[p]) <=> Live(newFull.files[p])
               /\ raised[p].hash = newFull.files[p].hash
               /\ \A g \in lists : p \in LivePaths(g) /\ g[p].last = nv => raised[p].last = nv
    <2> DEFINE live  == {g \in lists : p \in DOMAIN g /\ ~g[p].deleted}
               lasts == {newFull.files[p].last} \cup {g[p].last : g \in live}
    <2>1. newFull.files[p] \in Entry
      BY <1>1 DEF IsFileList
    <2>2. \A g \in live : g[p].last \in 0..nv
      <3> TAKE g \in live
      <3>1. g[p].last \in 0..MaxVersion /\ g[p].last <= nv
        BY <1>1 DEF IsFileList, Entry, Dated
      <3>2. QED
        BY <1>1, <3>1
    <2>3. newFull.files[p].last \in 0..nv
      BY <1>1, <2>1 DEF Entry, Dated
    <2>4. lasts \in SUBSET (0..nv) /\ lasts # {}
      BY <2>2, <2>3
    <2>5. raised[p] = [newFull.files[p] EXCEPT !.last = Max(lasts)] /\ p \in DOMAIN raised
      BY DEF Maximized
    <2>6. \A g \in lists : p \in LivePaths(g) => g[p].last \in lasts
      BY DEF LivePaths, Live
    <2> HIDE DEF lasts, raised
    <2>7. Max(lasts) \in lasts /\ \A y \in lasts : Max(lasts) >= y
      <3>1. nv \in Nat
        BY <1>1, PathAssumption
      <3>2. QED
        BY <2>4, <3>1, NewestVersion
    <2>8. Max(lasts) \in 0..nv
      BY <2>4, <2>7
    <2>9. /\ raised[p].last = Max(lasts) /\ raised[p].hash = newFull.files[p].hash
          /\ raised[p].deleted = newFull.files[p].deleted
          /\ raised[p].ghosted = newFull.files[p].ghosted
      BY <2>1, <2>5 DEF Entry
    <2>10. nv \in lasts => Max(lasts) = nv
      BY <1>1, <2>7, <2>8
    <2>11. QED
      BY <1>1, <2>5, <2>6, <2>8, <2>9, <2>10 DEF Live
  <1>4. IsFileList(raised) /\ DOMAIN raised = DOMAIN newFull.files
    BY <1>1, MaximizedType DEF Maximized
  <1> HIDE DEF raised
  <1>5. IsFileList(cleaned) /\ Echoes(cleaned, raised) /\ DOMAIN cleaned = DOMAIN raised
    BY <1>4, RenamesCleanedType, CleanedHistory
  <1> HIDE DEF cleaned
  <1>6. Echoes(f, raised)
    BY <1>5, PrunedHistory, EchoHistory
  <1>7. \A p \in LivePaths(cleaned) :
           ~(Stateless /\ p \in ConfigPaths) /\ ~(Run.ban /\ p \in DebugPaths)
             => p \in DOMAIN f /\ f[p] = cleaned[p]
    BY <1>5, PrunedHistory
  <1> HIDE DEF f
  <1>8. Dated(f, nv)
    BY <1>3, <1>4, <1>6 DEF Echoes, Says, Dated
  <1>9. ASSUME NEW b \in Groups, NEW p \in LivePaths(newM[b].files),
               newM[b].files[p].last = nv, Shipped(newM[b].files, Run.ban),
               Sourced(newM[b].files, newFull.files, nv)
        PROVE  /\ p \in LivePaths(f) /\ f[p].hash = newM[b].files[p].hash
               /\ f[p].last = nv
    <2>1. /\ p \in DOMAIN newFull.files /\ Live(newFull.files[p])
          /\ newFull.files[p].hash = newM[b].files[p].hash
      BY <1>9 DEF Sourced, LivePaths
    <2>2. /\ p \in DOMAIN raised /\ Live(raised[p]) /\ raised[p].last = nv
          /\ raised[p].hash = newM[b].files[p].hash
      BY <1>3, <1>9, <2>1
    <2>3. /\ p \in DOMAIN cleaned /\ Live(cleaned[p]) /\ cleaned[p].last = nv
          /\ cleaned[p].hash = newM[b].files[p].hash
      BY <1>5, <2>2 DEF Echoes, Says
    <2>4. p \in DOMAIN f /\ f[p] = cleaned[p]
      BY <1>7, <1>9, <2>3 DEF LivePaths, Shipped
    <2>5. QED
      BY <2>3, <2>4 DEF LivePaths
  <1>10. QED
    BY <1>2, <1>8, <1>9
-----------------------------------------------------------------------------
(* The history *)

\* What a run compares a bundle with: nothing, or the manifest the last release
\* has in force.
LEMMA PriorCases ==
    ASSUME IntactInv, pc # "idle", NEW b \in Bundle
    PROVE  LET s == SubVersion(OldMoM, b)
           IN  /\ s # nv /\ OldFile(b) # Torn
               /\ IsManifest(Prior(b)) /\ Prior(b).version = s
               /\ \/ s = 0 /\ Prior(b).files = <<>>
                  \/ /\ s \in published /\ lastVer \in published
                     /\ b \in Listed(lastVer) /\ wwwMoM[lastVer].subs[b] = s
                     /\ OldMoM = wwwMoM[lastVer]
                     /\ Prior(b) = www[s][b] /\ InForce(lastVer, b) = Prior(b)
  <1> DEFINE s == SubVersion(OldMoM, b)
  <1>1. HistoryOK /\ TypeInv
    BY DEF IntactInv
  <1>2. IsManifest(Prior(b))
    BY <1>1, OldType DEF Prior
  <1>3. /\ OldFile(b) = www[s][b]
        /\ s = 0 => OldFile(b) = Absent
        /\ \/ s = 0
           \/ /\ s \in published /\ lastVer \in published /\ b \in Listed(lastVer)
              /\ wwwMoM[lastVer].subs[b] = s /\ OldMoM = wwwMoM[lastVer] /\ Whole(s, b)
    <2>1. /\ OldFile(b) = www[s][b]
          /\ s = 0 => OldFile(b) = Absent
          /\ s = 0 \/ (s \in published /\ Whole(s, b))
      BY ReadBundle
    <2>2. CASE s = 0
      BY <2>1, <2>2
    <2>3. CASE s # 0
      <3>1. wwwMoM[lastVer] \notin {Absent, Torn}
        <4>1. wwwMoM[lastVer] = Absent => OldMoM.subs = <<>>
          BY ReadWhole DEF OldMoM, NoMoM
        <4>2. QED
          BY <2>3, <4>1, ReadWhole DEF SubVersion
      <3>2. lastVer \in published /\ OldMoM = wwwMoM[lastVer]
        BY <3>1, ReadWhole DEF OldMoM
      <3>3. QED
        BY <2>1, <2>3, <3>2 DEF Listed, SubVersion
    <2>4. QED
      BY <2>2, <2>3
  <1>4. s # nv
    BY <1>3, NewVersion
  <1>5. CASE s = 0
    <2>1. OldFile(b) = Absent
      BY <1>3, <1>5
    <2>2. Prior(b) = NewManifest(s, 0, {}, <<>>)
      BY <2>1 DEF Prior, FromFile
    <2>3. Prior(b).files = <<>> /\ Prior(b).version = s
      BY <2>2 DEF NewManifest
    <2>4. QED
      BY <1>2, <1>4, <1>5, <2>1, <2>3, Distinct
  <1>6. CASE s # 0
    <2>1. Prior(b) = www[s][b] /\ Prior(b).version = s /\ OldFile(b) \notin {Absent, Torn}
      BY <1>3, <1>6 DEF Prior, FromFile, Whole
    <2>2. InForce(lastVer, b) = Prior(b)
      BY <1>3, <1>6, <2>1 DEF InForce, Whole
    <2>3. QED
      BY <1>2, <1>3, <1>4, <1>6, <2>1, <2>2
  <1>7. QED
    BY <1>5, <1>6

\* What is in force for a bundle of a release is a manifest.
LEMMA InForceType ==
    ASSUME IntactInv, NEW v \in published, NEW b \in Listed(v)
    PROVE  /\ b \in Bundle /\ v \in 0..MaxVersion
           /\ IsManifest(InForce(v, b)) /\ IsFileList(InForce(v, b).files)
  <1>1. v \in 0..MaxVersion /\ wwwMoM[v] \notin {Absent, Torn}
    <2>1. published \subseteq 0..MaxVersion
      BY DEF IntactInv, TypeInv, TypeOK, DiskTypeOK, Version
    <2>2. QED
      BY <2>1 DEF IntactInv, HistoryOK, PublishedIntact
  <1>2. b \in Bundle /\ wwwMoM[v].subs[b] \in 0..MaxVersion
    BY <1>1, ListedType DEF IntactInv
  <1>3. www[wwwMoM[v].subs[b]][b] \in {Absent, Torn} \/ IsManifest(www[wwwMoM[v].subs[b]][b])
    BY <1>2 DEF IntactInv, TypeInv, TypeOK, DiskTypeOK
  <1>4. IsManifest(InForce(v, b))
    BY <1>3, NoManifestType DEF InForce
  <1>5. QED
    BY <1>1, <1>2, <1>4, ManifestType

\* What the invariant says of the manifest a bundle is compared with.
LEMMA PriorHistory ==
    ASSUME HistoryInv, pc # "idle", NEW b \in Bundle
    PROVE  /\ PlainGone(Prior(b).files) /\ Prior(b).version # nv
           /\ \A p \in DOMAIN Prior(b).files :
                 /\ Prior(b).files[p].last \in published /\ Prior(b).files[p].last < nv
                 /\ lastVer \in published /\ b \in Listed(lastVer)
                 /\ OldMoM = wwwMoM[lastVer]
                 /\ InForce(lastVer, b) = Prior(b) /\ Prior(b).format <= OldMoM.format
  <1> DEFINE s == SubVersion(OldMoM, b)
  <1>1. s # nv /\ Prior(b).version = s
    BY PriorCases DEF HistoryInv
  <1>2. CASE s = 0 /\ Prior(b).files = <<>>
    BY <1>1, <1>2 DEF PlainGone
  <1>3. CASE /\ lastVer \in published /\ b \in Listed(lastVer)
             /\ OldMoM = wwwMoM[lastVer] /\ InForce(lastVer, b) = Prior(b)
    <2>1. /\ PlainGone(Prior(b).files) /\ Prior(b).format <= OldMoM.format
          /\ \A p \in DOMAIN Prior(b).files : Prior(b).files[p].last \in published
      BY <1>3 DEF HistoryInv, ReleasesOK, EntriesOK
    <2>2. \A v \in published : v < nv
      BY NewVersion DEF HistoryInv
    <2>3. QED
      BY <1>1, <1>3, <2>1, <2>2
  <1>4. QED
    BY <1>2, <1>3, PriorCases DEF HistoryInv

\* As long as a run goes on the history is what it was, and so is what the run
\* compares with.
LEMMA SameRunHistory ==
    ASSUME HistoryInv, IntactInv', [Next]_vars, pc # "idle",
           UNCHANGED <<lastVer, published, image, nv>>
    PROVE  /\ OldMoM' = OldMoM /\ Run' = Run /\ Groups' = Groups
           /\ \A b \in Bundle : Prior(b)' = Prior(b)
           /\ \A v \in published : \A b \in Listed(v) :
                 Listed(v)' = Listed(v) /\ InForce(v, b)' = InForce(v, b)
           /\ ReleasesOK'
  <1>1. Run' = Run /\ Groups' = Groups
    BY DEF Run, Groups
  <1>2. \A v \in published \cup {0} :
           www'[v] = www[v] /\ wwwMoM'[v] = wwwMoM[v] /\ wwwFull'[v] = wwwFull[v]
    BY PublishedStep DEF HistoryInv
  <1>3. lastVer \in published \cup {0}
    BY DEF HistoryInv, IntactInv, HistoryOK
  <1>4. OldMoM' = OldMoM
    <2>1. OldMoMFile = wwwMoM[lastVer] /\ wwwMoM[lastVer] # Torn
      BY ReadWhole DEF HistoryInv
    <2>2. OldMoMFile' = OldMoMFile
      BY <1>2, <1>3, <2>1 DEF OldMoMFile, Read
    <2>3. QED
      BY <1>1, <2>2 DEF OldMoM
  <1>5. ASSUME NEW b \in Bundle
        PROVE  Prior(b)' = Prior(b)
    <2>1. SubVersion(OldMoM, b)' = SubVersion(OldMoM, b)
      BY <1>4 DEF SubVersion
    <2>2. SubVersion(OldMoM, b) \in published \cup {0}
      BY PriorCases DEF HistoryInv
    <2>3. OldFile(b)' = OldFile(b)
      <3>1. OldFile(b) = www[SubVersion(OldMoM, b)][b] /\ OldFile(b) # Torn
        BY ReadBundle DEF HistoryInv
      <3>2. QED
        BY <1>2, <2>1, <2>2, <3>1 DEF OldFile, Read
    <2>4. QED
      BY <1>1, <2>1, <2>3 DEF Prior, FromFile, NewManifest
  <1>6. ASSUME NEW v \in published, NEW b \in Listed(v)
        PROVE  Listed(v)' = Listed(v) /\ InForce(v, b)' = InForce(v, b)
    <2>1. wwwMoM[v].subs[b] \in published \cup {0}
      BY DEF HistoryInv, IntactInv, HistoryOK, PublishedIntact
    <2>2. QED
      BY <1>2, <2>1 DEF Listed, InForce
  <1>7. ReleasesOK'
    <2>1. EntriesOK'
      <3>1. SUFFICES ASSUME NEW v \in published, NEW b \in Listed(v)
                     PROVE  /\ PlainGone(InForce(v, b).files)
                            /\ InForce(v, b).format <= wwwMoM'[v].format
                            /\ \A p \in DOMAIN InForce(v, b).files :
                                 LET e == InForce(v, b).files[p]
                                 IN  /\ e.last \in published /\ e.last <= v
                                     /\ e.deleted => wwwMoM'[e.last].format
                                                       = InForce(v, b).format
        BY <1>2, <1>6 DEF EntriesOK, PlainGone, Listed
      <3>2. QED
        BY <1>2 DEF HistoryInv, ReleasesOK, EntriesOK
    <2>2. FullDated'
      BY <1>2 DEF HistoryInv, ReleasesOK, FullDated, Dated
    <2>3. UpdateSound'
      BY <1>2, <1>6 DEF HistoryInv, ReleasesOK, UpdateSound, Listed
    <2>4. CleanRerun => Downloadable'
      <3>1. SUFFICES ASSUME CleanRerun, NEW v \in published, NEW b \in Listed(v),
                            NEW p \in LivePaths(InForce(v, b).files)
                     PROVE  LET e    == InForce(v, b).files[p]
                                full == wwwFull'[e.last]
                            IN  /\ e.last \in published /\ full \notin {Absent, Torn}
                                /\ \E q \in LivePaths(full.files) :
                                     full.files[q].hash = e.hash /\ full.files[q].last = e.last
        BY <1>2, <1>6 DEF Downloadable, Listed
      <3>2. QED
        BY <1>2, <3>1 DEF HistoryInv, ReleasesOK, Downloadable
    <2>5. QED
      BY <2>1, <2>2, <2>3, <2>4 DEF ReleasesOK
  <1>8. QED
    BY <1>1, <1>4, <1>5, <1>6, <1>7
-----------------------------------------------------------------------------
(* What the steps of a run have in common *)

\* A step of a run that goes on.
Continues ==
    /\ HistoryInv /\ IntactInv' /\ [Next]_vars
    /\ pc # "idle" /\ UNCHANGED <<lastVer, published, image, nv>>

\* The union is made for the build of this run: the caller has removed what was
\* left of another.
LEMMA UnionStep ==
    ASSUME TypeInv, ChrootOK, [Next]_vars
    PROVE  ChrootOK'
  <1> SUFFICES ASSUME CleanRerun
               PROVE  /\ pc' = "chroot" => chroot'[nv'] = Absent
                      /\ pc' = "full" => chroot'[nv'] = FullChroot(Run')
    BY DEF ChrootOK, FullChroot, Overlay
  <1>1. DOMAIN chroot = Version /\ (pc # "idle" => nv \in Version)
    BY DEF TypeInv, TypeOK, DiskTypeOK, StepOK
  <1>2. CASE \E v \in Version : \E in \in plan[v] : Start(v, in)
    BY <1>1, <1>2 DEF Start
  <1>3. CASE CreateFullChroot
    BY <1>1, <1>3 DEF CreateFullChroot, ChrootOK, Run
  <1>4. CASE pc' \notin {"chroot", "full"}
    BY <1>4
  <1>5. CASE UNCHANGED vars
    BY <1>5 DEF vars, disk, proc, ChrootOK, Run
  <1>6. CASE CreateFullManifest \/ MatchCore \/ CoreUnchanged \/ WriteCore \/ LoadBundles
    BY <1>4, <1>6 DEF CreateFullManifest, MatchCore, CoreUnchanged, WriteCore, LoadBundles
  <1>7. CASE CoreChanged
    <2>1. pc' \in {"failed", "writeCore"}
      BY <1>7, Zenon DEF CoreChanged
    <2>2. QED
      BY <1>4, <2>1
  <1>8. CASE SkipCore \/ MatchBundle \/ BundleUnchanged \/ BundleChanged \/ WriteBundle
    <2>1. pc' \in {"bundle", "bundleMatched", "writeBundle", "mom"}
      BY <1>8, Zenon DEF SkipCore, MatchBundle, BundleUnchanged, KeepOldVersion, BundleChanged,
                  WriteBundle, AfterBundle
    <2>2. QED
      BY <1>4, <2>1
  <1>9. CASE WriteMoM \/ WriteFull \/ GiveUp \/ Publish \/ Crash \/ CrashInChroot \/ CrashInWrite
    BY <1>4, <1>9 DEF WriteMoM, WriteFull, GiveUp, Publish, ForgetRun, Crash, CrashInChroot,
                      CrashInWrite
  <1>10. CASE FormatTooOld \/ CoreTypeChange \/ IncludesUnresolvable \/ BundleTypeChange
              \/ OldUnreadable
    BY <1>4, <1>10 DEF FormatTooOld, CoreTypeChange, IncludesUnresolvable, BundleTypeChange,
                       OldUnreadable, Fail
  <1>11. QED
    BY <1>2, <1>3, <1>5, <1>6, <1>7, <1>8, <1>9, <1>10 DEF Next, CreateUpdateStep

\* A step to a place where the run has nothing in memory that counts.
LEMMA QuietHistory ==
    ASSUME HistoryInv, IntactInv', [Next]_vars, ReleasesOK',
           pc' \in {"idle", "chroot", "full", "failed"}
    PROVE  HistoryInv'
  <1>1. ChrootOK'
    BY UnionStep DEF HistoryInv, IntactInv
  <1>2. FullListOK' /\ ResultOK'
    BY DEF FullListOK, ResultOK, Listing, InLoop
  <1>3. StagesOK'
    BY DEF StagesOK, InLoop, Finished
  <1>4. QED
    BY <1>1, <1>2, <1>3 DEF HistoryInv

\* A run that stops, by itself or in a crash.
LEMMA StoppedHistory ==
    ASSUME Continues, pc' \in {"full", "failed"}
    PROVE  HistoryInv'
  BY QuietHistory, SameRunHistory DEF Continues

\* A step of the comparison: only the stages of the bundles are left to show.
LEMMA Onward ==
    ASSUME Continues, Listing, Listing', pc # "core", pc' \notin {"core", "writeFull"},
           UNCHANGED newFull, StagesOK'
    PROVE  HistoryInv'
  <1>1. /\ HistoryInv /\ OldMoM' = OldMoM /\ Run' = Run /\ Groups' = Groups /\ nv' = nv
        /\ ReleasesOK'
    BY SameRunHistory DEF Continues
  <1>2. FullListOK'
    BY <1>1 DEF HistoryInv, FullListOK
  <1>3. pc' \notin {"done", "writeFull"}
    BY DEF Listing, InLoop
  <1>4. ResultOK'
    BY <1>1, <1>3 DEF HistoryInv, ResultOK
  <1>5. ChrootOK'
    BY <1>1, UnionStep DEF Continues, HistoryInv, IntactInv
  <1>6. QED
    BY <1>1, <1>2, <1>4, <1>5 DEF HistoryInv, Continues

\* A bundle no step touches stays where it is.
LEMMA SameStage ==
    ASSUME Continues, NEW b \in Bundle, newM'[b] = newM[b], UNCHANGED newFull
    PROVE  /\ Ready(b) => Ready(b)'
           /\ Final(b) /\ www'[nv][b] = www[nv][b] => Final(b)'
           /\ Loaded(b) /\ oldM'[b] = oldM[b] => Loaded(b)'
           /\ MatchedWell(b) /\ oldM'[b] = oldM[b] => MatchedWell(b)'
  <1>1. nv' = nv /\ Run' = Run /\ Prior(b)' = Prior(b)
    BY SameRunHistory DEF Continues
  <1>2. Ready(b) => Ready(b)'
    BY <1>1 DEF Ready, Succeeds
  <1>3. Final(b) /\ www'[nv][b] = www[nv][b] => Final(b)'
    BY <1>1, <1>2 DEF Final
  <1>4. Loaded(b) /\ oldM'[b] = oldM[b] => Loaded(b)'
    BY <1>1 DEF Loaded
  <1>5. MatchedWell(b) /\ oldM'[b] = oldM[b] => MatchedWell(b)'
    BY <1>1 DEF MatchedWell
  <1>6. QED
    BY <1>2, <1>3, <1>4, <1>5

\* The cursor of the bundle loop: the bundles before it are finished, and it is
\* at none of them.
LEMMA Cursor ==
    ASSUME TypeInv, InLoop
    PROVE  /\ Core \in Finished /\ Finished \subseteq Groups /\ Groups \subseteq Bundle
           /\ Current \in Groups
           /\ Current # Core => Current \notin Finished
  <1>1. gi \in 1..Len(Run.groups) /\ Run.groups \in Seq(Bundle) /\ Core \in Groups
        /\ Groups \subseteq Bundle /\ pc # "idle"
    BY RunType DEF TypeInv, StepOK, InLoop
  <1>2. Finished = {Core} \cup {Run.groups[j] : j \in 1..(gi-1)}
    BY DEF Finished, InLoop
  <1>3. \A j \in 1..Len(Run.groups) : Run.groups[j] \in Groups
    BY <1>1 DEF Groups, Range
  <1>4. \A j \in 1..(gi-1) : j \in 1..Len(Run.groups) /\ j # gi
    BY <1>1
  <1>5. IsInjective(Run.groups)
    <2>1. nv \in Version /\ Run \in plan[nv] /\ plan \in Inputs
      BY <1>1 DEF TypeInv, TypeOK, DiskTypeOK, StepOK
    <2>2. QED
      BY <2>1, UpdateAssumption
  <1>6. \A j \in 1..(gi-1) : Run.groups[j] # Run.groups[gi]
    <2>1. DOMAIN Run.groups = 1..Len(Run.groups)
      BY <1>1
    <2>2. QED
      BY <1>1, <1>4, <1>5, <2>1 DEF IsInjective
  <1>7. QED
    BY <1>1, <1>2, <1>3, <1>4, <1>6 DEF Current

\* Moving the cursor on finishes the current bundle, and that is all.
LEMMA CursorMoves ==
    ASSUME TypeInv, InLoop, Run' = Run, Groups' = Groups, gi' = gi + 1, pc' = AfterBundle
    PROVE  /\ Finished' \subseteq Finished \cup {Current}
           /\ pc' = "bundle" => Finished \cup {Current} \subseteq Finished'
           /\ pc' \in {"bundle", "mom"}
  <1>1. Finished' \subseteq Finished \cup {Current}
    BY Advance DEF InLoop
  <1>2. pc' \in {"bundle", "mom"}
    BY DEF AfterBundle
  <1>3. gi \in 1..Len(Run.groups)
    BY DEF TypeInv, StepOK, InLoop
  <1>4. ASSUME pc' = "bundle"
        PROVE  Finished \cup {Current} \subseteq Finished'
    <2>1. /\ Finished = {Core} \cup {Run.groups[j] : j \in 1..(gi-1)}
          /\ Finished' = {Core} \cup {Run.groups[j] : j \in 1..gi}
      BY <1>3, <1>4 DEF Finished, InLoop
    <2>2. gi \in 1..gi /\ \A j \in 1..(gi-1) : j \in 1..gi
      BY <1>3
    <2>3. QED
      BY <2>1, <2>2 DEF Current
  <1>5. QED
    BY <1>1, <1>2, <1>4

\* A step of the bundle loop that goes on with the next bundle.
LEMMA NextInLoop ==
    ASSUME Continues, InLoop, gi' = gi + 1, pc' = AfterBundle, UNCHANGED newFull,
           NEW c \in Bundle, c = Current, Final(c)',
           \A b \in Bundle \ {c} : /\ newM'[b] = newM[b] /\ oldM'[b] = oldM[b]
                                   /\ www'[nv][b] = www[nv][b]
    PROVE  HistoryInv'
  <1>1. /\ HistoryInv /\ TypeInv /\ Run' = Run /\ Groups' = Groups
    BY SameRunHistory DEF Continues, HistoryInv, IntactInv
  <1>2. /\ Finished' \subseteq Finished \cup {c} /\ pc' \in {"bundle", "mom"}
        /\ pc' = "bundle" => Finished \cup {c} \subseteq Finished'
        /\ Finished \subseteq Bundle /\ Groups \subseteq Bundle
    BY <1>1, CursorMoves, Cursor
  <1>3. \A b \in Finished' : Final(b)'
    <2>1. \A b \in Finished \ {c} : Final(b)
      BY <1>1 DEF HistoryInv, StagesOK
    <2>2. \A b \in Finished \ {c} : Final(b)'
      BY <1>2, <2>1, SameStage
    <2>3. QED
      BY <1>2, <2>2
  <1>4. ASSUME pc' = "bundle", NEW b \in Groups \ Finished'
        PROVE  Loaded(b)'
    <2>1. b \notin Finished /\ b # c /\ b \in Bundle
      BY <1>2, <1>4
    <2>2. Loaded(b)
      BY <1>1, <1>4, <2>1 DEF HistoryInv, StagesOK
    <2>3. QED
      BY <2>1, <2>2, SameStage
  <1>5. StagesOK'
    BY <1>1, <1>2, <1>3, <1>4 DEF StagesOK, InLoop
  <1>6. Listing /\ Listing' /\ pc # "core" /\ pc' \notin {"core", "writeFull"}
    BY <1>2 DEF Listing, InLoop
  <1>7. QED
    BY <1>5, <1>6, Onward

\* A step of the bundle loop that goes on with the same bundle.
LEMMA StayInLoop ==
    ASSUME Continues, InLoop, pc' \in {"bundleMatched", "writeBundle"},
           UNCHANGED <<newFull, gi, www>>,
           NEW c \in Bundle, c = Current, c \notin Finished,
           \A b \in Bundle \ {c} : newM'[b] = newM[b] /\ oldM'[b] = oldM[b],
           pc' = "bundleMatched" => MatchedWell(c)',
           pc' = "writeBundle" => Ready(c)'
    PROVE  HistoryInv'
  <1>1. /\ HistoryInv /\ TypeInv /\ Run' = Run /\ Groups' = Groups
    BY SameRunHistory DEF Continues, HistoryInv, IntactInv
  <1>2. /\ Finished' = Finished /\ Current' = c
        /\ Finished \subseteq Bundle /\ Groups \subseteq Bundle
    <2>1. Finished \subseteq Bundle /\ Groups \subseteq Bundle
      BY <1>1, Cursor
    <2>2. Current' = c
      BY <1>1 DEF Current
    <2>3. Finished' = Finished
      BY <1>1 DEF Finished, InLoop
    <2>4. QED
      BY <2>1, <2>2, <2>3
  <1>3. \A b \in Finished' : Final(b)'
    <2>1. \A b \in Finished : Final(b) /\ b \in Bundle \ {c}
      BY <1>1, <1>2 DEF HistoryInv, StagesOK
    <2>2. QED
      BY <1>2, <2>1, SameStage
  <1>4. ASSUME NEW b \in Groups \ Finished', b # c
        PROVE  Loaded(b)'
    <2>1. Loaded(b) /\ b \in Bundle
      BY <1>1, <1>2, <1>4 DEF HistoryInv, StagesOK
    <2>2. QED
      BY <1>4, <2>1, SameStage
  <1>5. StagesOK'
    BY <1>1, <1>2, <1>3, <1>4 DEF StagesOK, InLoop
  <1>6. Listing /\ Listing' /\ pc # "core" /\ pc' \notin {"core", "writeFull"}
    BY DEF Listing, InLoop
  <1>7. QED
    BY <1>5, <1>6, Onward
-----------------------------------------------------------------------------
(* The steps *)

\* Phase 1: the full list of the union of this build.
LEMMA CreateFullManifestHistory ==
    ASSUME Continues, CreateFullManifest
    PROVE  HistoryInv'
  <1> DEFINE old == FromFile(OldFullFile, lastVer)
  <1>1. /\ pc = "full" /\ pc' = "core" /\ UNCHANGED disk
        /\ newFull' = NewManifest(nv, 0, {}, FullList(old))
    BY DEF CreateFullManifest
  <1>2. /\ HistoryInv /\ TypeInv /\ ReleasesOK' /\ Run' = Run /\ Groups' = Groups /\ nv' = nv
    BY SameRunHistory DEF Continues, HistoryInv, IntactInv
  <1>3. lastVer \in 0..MaxVersion /\ lastVer < nv /\ nv \in 0..MaxVersion /\ Run \in Input
    BY <1>1, <1>2, RunType DEF TypeInv, TypeOK, DiskTypeOK, StepOK
  <1>4. IsManifest(old)
    BY <1>1, <1>2, OldType
  <1>5. Dated(old.files, lastVer)
    <2>1. CASE lastVer = 0
      <3>1. OldFullFile = Absent
        BY <1>2, <2>1, UpdateAssumption DEF OldFullFile, Read, HistoryInv, ReleasesOK, FullDated
      <3>2. QED
        BY <3>1 DEF FromFile, NewManifest, Dated
    <2>2. CASE lastVer # 0
      <3>1. /\ lastVer \in published /\ OldFullFile = wwwFull[lastVer]
            /\ wwwFull[lastVer] \notin {Absent, Torn}
        BY <1>2, <2>2, ReadWhole DEF HistoryInv
      <3>2. QED
        BY <1>2, <3>1 DEF FromFile, HistoryInv, ReleasesOK, FullDated
    <2>3. QED
      BY <2>1, <2>2
  <1>6. newFull'.files = FullList(old)
    BY <1>1 DEF NewManifest
  <1> HIDE DEF old
  <1>7. /\ Dated(FullList(old), nv)
        /\ \A p \in DOMAIN chroot[nv] :
              ~(Run.ban /\ p \in DebugPaths) => p \in LivePaths(FullList(old))
    BY <1>1, <1>2, <1>3, <1>4, <1>5, FullListHistory
  <1>8. ASSUME CleanRerun, NEW b \in Groups
        PROVE  DOMAIN Run.img[b] \subseteq DOMAIN chroot[nv]
    <2>1. chroot[nv] = FullChroot(Run)
      BY <1>1, <1>2, <1>8 DEF HistoryInv, ChrootOK
    <2>2. QED
      BY <1>3, <2>1, UnionHolds DEF Groups
  <1>9. FullListOK'
    BY <1>2, <1>6, <1>7, <1>8 DEF FullListOK
  <1>10. StagesOK' /\ ResultOK'
    BY <1>1 DEF StagesOK, ResultOK, InLoop, Finished
  <1>11. ChrootOK'
    BY <1>1 DEF ChrootOK
  <1>12. QED
    BY <1>2, <1>9, <1>10, <1>11 DEF HistoryInv, Continues

\* Hashing a scan with the full list and matching it, what is compared with
\* being part of the manifest in force.
LEMMA MatchHistory ==
    ASSUME HistoryInv, pc # "idle", Listing, NEW b \in Groups, b \in Bundle,
           NEW old, NEW raw, IsFileList(old), IsFileList(raw), Part(old, Prior(b).files),
           Part(raw, AddHashes(FromDirectory(Run.img[b], nv, Run.ban), newFull.files))
    PROVE  LET f == Matched(old, raw, nv, Run.minversion)
           IN  /\ PlainGone(f) /\ GhostsDead(f) /\ Descends(f, old, nv)
               /\ CleanRerun => Sourced(f, newFull.files, nv)
  <1> DEFINE hashed == AddHashes(FromDirectory(Run.img[b], nv, Run.ban), newFull.files)
             f      == Matched(old, raw, nv, Run.minversion)
  <1>1. Run.img[b] \in Image
    BY RunType DEF HistoryInv, IntactInv
  <1>2. PlainGone(old)
    BY PriorHistory, PartHistory
  <1>3. RawList(hashed, nv)
    BY <1>1, RawHistory
  <1>4. CleanRerun => Sourced(hashed, newFull.files, nv)
    <2>1. CleanRerun => \A p \in DOMAIN Run.img[b] :
             ~(Run.ban /\ p \in DebugPaths) => p \in LivePaths(newFull.files)
      BY DEF HistoryInv, FullListOK
    <2>2. QED
      BY <1>1, <2>1, RawHistory
  <1> HIDE DEF hashed
  <1>5. RawList(raw, nv) /\ (CleanRerun => Sourced(raw, newFull.files, nv))
    <2>1. Part(raw, hashed)
      BY DEF hashed
    <2>2. QED
      BY <1>3, <1>4, <2>1, PartHistory
  <1>6. /\ PlainGone(f) /\ GhostsDead(f) /\ Descends(f, old, nv)
        /\ CleanRerun => Sourced(f, newFull.files, nv)
    BY <1>2, <1>5, MatchedHistory
  <1>7. QED
    BY <1>6

\* Phase 2: os-core.
LEMMA MatchCoreHistory ==
    ASSUME Continues, MatchCore
    PROVE  HistoryInv'
  <1> DEFINE old == Prior(Core)
             raw == AddHashes(FromDirectory(Run.img[Core], nv, Run.ban), newFull.files)
             f   == Matched(old.files, raw, nv, Run.minversion)
  <1>1. /\ pc = "core" /\ pc' = "coreMatched" /\ Run.format >= OldMoM.format
        /\ UNCHANGED <<newFull, nv>>
        /\ oldM' = [oldM EXCEPT ![Core] = old]
        /\ newM' = [newM EXCEPT ![Core] = NewManifest(nv, old.version, {}, f)]
    BY DEF MatchCore, Prior
  <1>2. /\ HistoryInv /\ TypeInv /\ ReleasesOK' /\ Run' = Run /\ Groups' = Groups
        /\ OldMoM' = OldMoM /\ \A b \in Bundle : Prior(b)' = Prior(b)
    BY SameRunHistory DEF Continues, HistoryInv, IntactInv
  <1>3. Core \in Bundle /\ Core \in Groups
    BY <1>1, <1>2, RunType, UpdateAssumption
  <1>4. oldM'[Core] = old /\ newM'[Core] = NewManifest(nv, old.version, {}, f)
    BY <1>1, <1>2, <1>3 DEF TypeInv, TypeOK, RunTypeOK
  <1>5. IsManifest(old)
    BY <1>1, <1>2, <1>3, PriorCases DEF HistoryInv
  <1>6. IsFileList(old.files) /\ IsFileList(raw)
    <2>1. IsFileList(FromDirectory(Run.img[Core], nv, Run.ban))
      BY <1>1, <1>2, <1>3, RunType, HashedType
    <2>2. IsFileList(newFull.files)
      BY <1>2, ManifestType DEF TypeInv, TypeOK, RunTypeOK
    <2>3. QED
      BY <1>5, <2>1, <2>2, ManifestType, AddHashesType
  <1>7. Part(old.files, old.files) /\ Part(raw, raw)
    BY DEF Part
  <1>8. /\ PlainGone(f) /\ GhostsDead(f) /\ Descends(f, old.files, nv)
        /\ CleanRerun => Sourced(f, newFull.files, nv)
    <2> HIDE DEF old
    <2>1. Listing
      BY <1>1 DEF Listing
    <2>2. QED
      BY <1>1, <1>2, <1>3, <1>6, <1>7, <2>1, MatchHistory DEF old
  <1> HIDE DEF f
  <1>9. /\ newM'[Core].version = nv /\ newM'[Core].format = Run.format
        /\ newM'[Core].files = f
    BY <1>4 DEF NewManifest
  <1>10. MatchedWell(Core)'
    <2>1. Prior(Core)' = old
      BY <1>2, <1>3
    <2>2. oldM'[Core] = old
      BY <1>4
    <2> HIDE DEF old
    <2>3. QED
      BY <1>1, <1>2, <1>7, <1>8, <1>9, <2>1, <2>2 DEF MatchedWell
  <1>11. StagesOK'
    BY <1>1, <1>10 DEF StagesOK, InLoop, Finished
  <1>12. FullListOK'
    <2>1. Listing
      BY <1>1 DEF Listing
    <2>2. QED
      BY <1>1, <1>2, <2>1 DEF HistoryInv, FullListOK
  <1>13. ResultOK' /\ ChrootOK'
    BY <1>1, <1>2 DEF ResultOK, ChrootOK
  <1>14. QED
    BY <1>2, <1>11, <1>12, <1>13 DEF HistoryInv, Continues

\* What is matched is dated to this version or before.
LEMMA MatchedDated ==
    ASSUME HistoryInv, pc # "idle", NEW b \in Bundle, MatchedWell(b)
    PROVE  /\ Dated(newM[b].files, nv)
           /\ Descends(newM[b].files, Prior(b).files, nv)
  <1>1. Descends(newM[b].files, Prior(b).files, nv)
    BY PartHistory DEF MatchedWell
  <1>2. nv \in 0..MaxVersion /\ IsFileList(newM[b].files)
    BY RunType, ManifestType DEF HistoryInv, IntactInv, TypeInv, TypeOK, RunTypeOK
  <1>3. \A p \in DOMAIN Prior(b).files : Prior(b).files[p].last < nv
    BY PriorHistory
  <1>4. ASSUME NEW p \in DOMAIN newM[b].files
        PROVE  newM[b].files[p].last <= nv
    <2>1. newM[b].files[p].last \in 0..MaxVersion
      BY <1>2 DEF IsFileList, Entry
    <2>2. CASE newM[b].files[p].last = nv
      BY <1>2, <2>2
    <2>3. CASE newM[b].files[p].last # nv
      <3>1. /\ p \in DOMAIN Prior(b).files
            /\ newM[b].files[p].last = Prior(b).files[p].last
        BY <1>1, <2>3 DEF Descends, Says
      <3>2. newM[b].files[p].last < nv
        BY <1>3, <3>1
      <3>3. QED
        BY <1>2, <2>1, <3>2
    <2>4. QED
      BY <2>2, <2>3
  <1>5. QED
    BY <1>1, <1>4 DEF Dated

\* The list a matched bundle is completed to.
LEMMA CompletedReady ==
    ASSUME HistoryInv, pc # "idle", NEW b \in Bundle, MatchedWell(b),
           NEW m \in MatchingsOf(b), NEW f, f = Completed(oldM[b], newM[b], m)
    PROVE  /\ Dated(f, nv) /\ PlainGone(f) /\ Descends(f, Prior(b).files, nv)
           /\ Shipped(f, Run.ban)
           /\ \A p \in DOMAIN f : f[p].deleted /\ f[p].last # nv
                                    => Prior(b).format >= Run.format
           /\ CleanRerun => Sourced(f, newFull.files, nv)
  <1>1. IsManifest(oldM[b]) /\ IsManifest(newM[b])
    BY DEF HistoryInv, IntactInv, TypeInv, TypeOK, RunTypeOK
  <1>2. oldM[b].format \in Nat /\ Run.format \in Nat
    BY <1>1, RunType, ManifestType DEF HistoryInv, IntactInv
  <1>3. m \in RenameMatchings(oldM[b].files, newM[b].files, nv)
    BY DEF MatchingsOf
  <1>4. /\ PlainGone(newM[b].files) /\ GhostsDead(newM[b].files)
        /\ Descends(newM[b].files, oldM[b].files, nv)
        /\ CleanRerun => Sourced(newM[b].files, newFull.files, nv)
        /\ oldM[b].format = Prior(b).format
    BY DEF MatchedWell
  <1>5. /\ PlainGone(f) /\ Shipped(f, Run.ban) /\ Echoes(f, newM[b].files)
        /\ \A p \in DOMAIN f : f[p].deleted /\ f[p].last # nv => oldM[b].format >= Run.format
    BY <1>1, <1>2, <1>3, <1>4, CompletedHistory
  <1>6. Dated(newM[b].files, nv) /\ Descends(newM[b].files, Prior(b).files, nv)
    BY MatchedDated
  <1>7. Dated(f, nv)
    BY <1>5, <1>6 DEF Dated, Echoes, Says
  <1>8. QED
    BY <1>4, <1>5, <1>6, <1>7, EchoHistory

\* A manifest that falls back to its old version is final, changed or not.
LEMMA FallsBack ==
    ASSUME Continues, NEW b \in Bundle, newM'[b].version = oldM[b].version,
           MatchedWell(b), Dated(newM'[b].files, nv)
    PROVE  Final(b)'
  <1>1. nv' = nv /\ Prior(b)' = Prior(b)
    BY SameRunHistory DEF Continues
  <1>2. newM'[b].version = Prior(b).version
    BY DEF MatchedWell
  <1>3. QED
    BY <1>1, <1>2 DEF Final

LEMMA CoreUnchangedHistory ==
    ASSUME Continues, CoreUnchanged
    PROVE  HistoryInv'
  <1>1. /\ pc = "coreMatched" /\ pc' = "load" /\ UNCHANGED <<disk, nv, newFull, oldM>>
        /\ newM' = [newM EXCEPT ![Core].version = oldM[Core].version]
    BY DEF CoreUnchanged
  <1>2. HistoryInv /\ pc # "idle" /\ Core \in Bundle /\ MatchedWell(Core)
    BY <1>1, UpdateAssumption DEF Continues, HistoryInv, StagesOK
  <1>3. newM'[Core].version = oldM[Core].version /\ newM'[Core].files = newM[Core].files
    <2>1. IsManifest(newM[Core])
      BY <1>2 DEF HistoryInv, IntactInv, TypeInv, TypeOK, RunTypeOK
    <2>2. newM'[Core] = [newM[Core] EXCEPT !.version = oldM[Core].version]
      BY <1>1, <1>2 DEF HistoryInv, IntactInv, TypeInv, TypeOK, RunTypeOK
    <2>3. QED
      BY <2>1, <2>2 DEF IsManifest
  <1>4. Dated(newM'[Core].files, nv)
    BY <1>2, <1>3, MatchedDated
  <1>5. Final(Core)'
    BY <1>2, <1>3, <1>4, FallsBack
  <1>6. StagesOK'
    BY <1>1, <1>5 DEF StagesOK, InLoop, Finished
  <1>7. Listing /\ Listing'
    BY <1>1 DEF Listing
  <1>8. QED
    BY <1>1, <1>6, <1>7, Onward

LEMMA CoreChangedHistory ==
    ASSUME Continues, CoreChanged
    PROVE  HistoryInv'
  <1>1. pc = "coreMatched" /\ pc' \in {"failed", "writeCore"}
        /\ UNCHANGED <<disk, nv, newFull, oldM>>
    BY Zenon DEF CoreChanged
  <1>2. HistoryInv /\ pc # "idle" /\ Core \in Bundle /\ MatchedWell(Core)
    BY <1>1, UpdateAssumption DEF Continues, HistoryInv, StagesOK
  <1>3. CASE pc' = "failed"
    BY <1>3, StoppedHistory
  <1>4. CASE pc' = "writeCore"
    <2>1. PICK m \in MatchingsOf(Core) :
             newM' = [newM EXCEPT ![Core].files = Completed(oldM[Core], newM[Core], m)]
      BY DEF CoreChanged
    <2> DEFINE f == Completed(oldM[Core], newM[Core], m)
    <2>2. /\ PlainGone(f) /\ Descends(f, Prior(Core).files, nv) /\ Shipped(f, Run.ban)
          /\ \A p \in DOMAIN f : f[p].deleted /\ f[p].last # nv
                                   => Prior(Core).format >= Run.format
          /\ CleanRerun => Sourced(f, newFull.files, nv)
      <3> HIDE DEF f
      <3> QED BY <1>2, CompletedReady DEF f
    <2> HIDE DEF f
    <2>3. /\ newM'[Core].files = f /\ newM'[Core].version = newM[Core].version
          /\ newM'[Core].format = newM[Core].format
      <3>1. IsManifest(newM[Core])
        BY <1>2 DEF HistoryInv, IntactInv, TypeInv, TypeOK, RunTypeOK
      <3>2. newM'[Core] = [newM[Core] EXCEPT !.files = f]
        BY <1>2, <2>1 DEF HistoryInv, IntactInv, TypeInv, TypeOK, RunTypeOK, f
      <3>3. QED
        BY <3>1, <3>2 DEF IsManifest
    <2>4. nv' = nv /\ Run' = Run /\ Prior(Core)' = Prior(Core) /\ newFull' = newFull
      BY <1>1, <1>2, SameRunHistory DEF Continues
    <2>5. newM[Core].version = nv /\ newM[Core].format = Run.format
      BY <1>2 DEF MatchedWell
    <2>6. Ready(Core)'
      BY <2>2, <2>3, <2>4, <2>5 DEF Ready, Succeeds
    <2>7. StagesOK'
      BY <1>4, <2>6 DEF StagesOK, InLoop, Finished
    <2>8. Listing /\ Listing'
      BY <1>1, <1>4 DEF Listing
    <2>9. QED
      BY <1>1, <1>4, <2>7, <2>8, Onward
  <1>5. QED
    BY <1>1, <1>3, <1>4

\* A completed list that has been written is final.
LEMMA WrittenFinal ==
    ASSUME Continues, NEW b \in Bundle, Ready(b), UNCHANGED <<newM, newFull>>,
           www'[nv][b] = newM[b]
    PROVE  Final(b)'
  <1>1. nv' = nv /\ Prior(b)' = Prior(b) /\ HistoryInv /\ pc # "idle" /\ Ready(b)'
    BY SameRunHistory, SameStage DEF Continues
  <1>2. Descends(newM[b].files, Prior(b).files, nv)
    BY DEF Ready, Succeeds
  <1>3. \A p \in DOMAIN Prior(b).files : Prior(b).files[p].last < nv
    BY <1>1, PriorHistory
  <1>4. IsFileList(newM[b].files) /\ nv \in 0..MaxVersion
    BY <1>1, RunType, ManifestType DEF HistoryInv, IntactInv, TypeInv, TypeOK, RunTypeOK
  <1>5. Dated(newM[b].files, nv)
    <2>1. SUFFICES ASSUME NEW p \in DOMAIN newM[b].files, newM[b].files[p].last # nv
                   PROVE  newM[b].files[p].last <= nv
      BY <1>4 DEF Dated
    <2>2. newM[b].files[p].last < nv
      BY <1>2, <1>3, <2>1 DEF Descends, Says
    <2>3. newM[b].files[p].last \in 0..MaxVersion
      BY <1>4 DEF IsFileList, Entry
    <2>4. QED
      BY <1>4, <2>2, <2>3
  <1>6. QED
    BY <1>1, <1>5 DEF Final

LEMMA WriteCoreHistory ==
    ASSUME Continues, WriteCore
    PROVE  HistoryInv'
  <1>1. /\ pc = "writeCore" /\ pc' = "load" /\ UNCHANGED <<nv, newFull, oldM, newM>>
        /\ www' = [www EXCEPT ![nv][Core] = newM[Core]]
    BY DEF WriteCore
  <1>2. HistoryInv /\ TypeInv /\ Core \in Bundle /\ Ready(Core)
    BY <1>1, UpdateAssumption DEF Continues, HistoryInv, IntactInv, StagesOK
  <1>3. www'[nv][Core] = newM[Core]
    BY <1>1, <1>2, RunType DEF TypeInv, TypeOK, DiskTypeOK
  <1>4. Final(Core)'
    BY <1>1, <1>2, <1>3, WrittenFinal
  <1>5. StagesOK'
    BY <1>1, <1>4 DEF StagesOK, InLoop, Finished
  <1>6. Listing /\ Listing'
    BY <1>1 DEF Listing
  <1>7. QED
    BY <1>1, <1>5, <1>6, Onward

\* Phase 3: every other bundle is loaded with what is in force and its scan.
LEMMA LoadBundlesHistory ==
    ASSUME Continues, LoadBundles
    PROVE  HistoryInv'
  <1>1. /\ pc = "load" /\ pc' = "bundle" /\ gi' = 1 /\ UNCHANGED <<disk, nv, newFull>>
        /\ oldM' = [b \in Bundle |-> IF b \in Groups \ {Core} THEN Prior(b) ELSE oldM[b]]
        /\ newM' = [b \in Bundle |->
              IF b \in Groups \ {Core}
              THEN NewManifest(nv, 0, Run.inc[b], FromDirectory(Run.img[b], nv, Run.ban))
              ELSE newM[b]]
    BY DEF LoadBundles, Prior
  <1>2. /\ HistoryInv /\ TypeInv /\ Run' = Run /\ Groups' = Groups /\ nv' = nv
        /\ \A b \in Bundle : Prior(b)' = Prior(b)
    BY SameRunHistory DEF Continues, HistoryInv, IntactInv
  <1>3. Groups \subseteq Bundle /\ Core \in Bundle
    BY <1>1, <1>2, RunType, UpdateAssumption
  <1>4. Finished = {Core} /\ Finished' = {Core}
    BY <1>1 DEF Finished
  <1>5. Final(Core)'
    <2>1. Final(Core)
      BY <1>2, <1>4 DEF HistoryInv, StagesOK
    <2>2. newM'[Core] = newM[Core] /\ www' = www
      BY <1>1, <1>3 DEF disk
    <2>3. QED
      BY <1>1, <1>3, <2>1, <2>2, SameStage
  <1>6. ASSUME NEW b \in Groups, b # Core
        PROVE  Loaded(b)'
    <2>1. /\ oldM'[b] = Prior(b)
          /\ newM'[b] = NewManifest(nv, 0, Run.inc[b], FromDirectory(Run.img[b], nv, Run.ban))
      BY <1>1, <1>3, <1>6
    <2>2. QED
      BY <1>2, <1>3, <1>6, <2>1 DEF Loaded, NewManifest
  <1>7. StagesOK'
    BY <1>1, <1>2, <1>4, <1>5, <1>6 DEF StagesOK, InLoop
  <1>8. Listing /\ Listing'
    BY <1>1 DEF Listing, InLoop
  <1>9. QED
    BY <1>1, <1>7, <1>8, Onward

LEMMA SkipCoreHistory ==
    ASSUME Continues, SkipCore
    PROVE  HistoryInv'
  <1>1. /\ pc = "bundle" /\ Current = Core /\ gi' = gi + 1 /\ pc' = AfterBundle
        /\ UNCHANGED <<disk, nv, newFull, oldM, newM>> /\ InLoop
    BY DEF SkipCore, InLoop
  <1>2. Core \in Bundle /\ Final(Core)
    BY <1>1, Cursor, UpdateAssumption DEF Continues, HistoryInv, IntactInv, StagesOK
  <1>3. Final(Core)'
    BY <1>1, <1>2, SameStage DEF disk
  <1>4. QED
    BY <1>1, <1>2, <1>3, NextInLoop DEF disk

\* Hashing, subtracting and matching a bundle.
LEMMA MatchBundleHistory ==
    ASSUME Continues, MatchBundle
    PROVE  HistoryInv'
  <1>0. PICK c : c = Current
    OBVIOUS
  <1> DEFINE old == SubtractIncludes(oldM[c].files, oldM, c)
             raw == SubtractIncludes(AddHashes(newM[c].files, newFull.files), newM, c)
             f   == Matched(old, raw, nv, Run.minversion)
  <1>1. /\ pc = "bundle" /\ pc' = "bundleMatched" /\ c # Core /\ InLoop
        /\ UNCHANGED <<disk, nv, gi, newFull>>
        /\ oldM' = [oldM EXCEPT ![c].files = old, ![c].includes = @ \cup {Core}]
        /\ newM' = [newM EXCEPT ![c].files = f, ![c].includes = @ \cup {Core},
                                ![c].prev = oldM[c].version]
    BY <1>0 DEF MatchBundle, InLoop
  <1>2. /\ HistoryInv /\ TypeInv /\ Run' = Run /\ nv' = nv /\ pc # "idle"
        /\ \A b \in Bundle : Prior(b)' = Prior(b)
    BY SameRunHistory DEF Continues, HistoryInv, IntactInv
  <1>3. c \in Bundle /\ c \in Groups /\ c \notin Finished
    BY <1>0, <1>1, <1>2, Cursor
  <1>4. Loaded(c)
    BY <1>1, <1>2, <1>3 DEF HistoryInv, StagesOK
  <1>5. IsManifest(oldM[c]) /\ IsManifest(newM[c])
    BY <1>2, <1>3 DEF TypeInv, TypeOK, RunTypeOK
  <1>6. /\ Part(old, Prior(c).files) /\ IsFileList(old)
        /\ Part(raw, AddHashes(FromDirectory(Run.img[c], nv, Run.ban), newFull.files))
        /\ IsFileList(raw)
    <2>1. IsFileList(AddHashes(newM[c].files, newFull.files)) /\ IsFileList(oldM[c].files)
      BY <1>2, <1>5, ManifestType, AddHashesType DEF TypeInv, TypeOK, RunTypeOK
    <2>2. Part(old, oldM[c].files) /\ IsFileList(old)
      BY <2>1, DropsPart, SubtractedType DEF SubtractIncludes
    <2>3. Part(raw, AddHashes(newM[c].files, newFull.files)) /\ IsFileList(raw)
      BY <2>1, DropsPart, SubtractedType DEF SubtractIncludes
    <2> HIDE DEF old, raw
    <2>4. QED
      BY <1>4, <2>2, <2>3 DEF Loaded
  <1> HIDE DEF old, raw
  <1>7. /\ PlainGone(f) /\ GhostsDead(f) /\ Descends(f, old, nv)
        /\ CleanRerun => Sourced(f, newFull.files, nv)
    <2>1. Listing
      BY <1>1 DEF Listing
    <2>2. QED
      BY <1>2, <1>3, <1>6, <2>1, MatchHistory
  <1> HIDE DEF f
  <1>8. /\ oldM'[c].files = old /\ oldM'[c].version = oldM[c].version
        /\ oldM'[c].format = oldM[c].format
        /\ newM'[c].files = f /\ newM'[c].version = newM[c].version
        /\ newM'[c].format = newM[c].format
    <2>1. oldM'[c] = [oldM[c] EXCEPT !.files = old, !.includes = @ \cup {Core}]
      BY <1>1, <1>2, <1>3 DEF TypeInv, TypeOK, RunTypeOK
    <2>2. newM'[c] = [newM[c] EXCEPT !.files = f, !.includes = @ \cup {Core},
                                     !.prev = oldM[c].version]
      BY <1>1, <1>2, <1>3 DEF TypeInv, TypeOK, RunTypeOK
    <2>3. QED
      BY <1>5, <2>1, <2>2 DEF IsManifest
  <1>9. \A b \in Bundle \ {c} : newM'[b] = newM[b] /\ oldM'[b] = oldM[b]
    BY <1>1, <1>2 DEF TypeInv, TypeOK, RunTypeOK
  <1>10. MatchedWell(c)'
    BY <1>1, <1>2, <1>3, <1>4, <1>6, <1>7, <1>8 DEF MatchedWell, Loaded
  <1>11. QED
    BY <1>0, <1>1, <1>3, <1>9, <1>10, StayInLoop DEF disk

\* The bundle at hand has been matched.
LEMMA CurrentMatched ==
    ASSUME Continues, pc = "bundleMatched", NEW c, c = Current
    PROVE  /\ HistoryInv /\ pc # "idle" /\ InLoop
           /\ c \in Bundle /\ c \notin Finished /\ MatchedWell(c)
           /\ IsManifest(newM[c])
  <1>1. HistoryInv /\ TypeInv /\ InLoop /\ pc # "idle"
    BY DEF Continues, HistoryInv, IntactInv, InLoop
  <1>2. c \in Bundle
    BY <1>1, Cursor
  <1>3. QED
    BY <1>1, <1>2 DEF HistoryInv, StagesOK, TypeInv, TypeOK, RunTypeOK

LEMMA BundleUnchangedHistory ==
    ASSUME Continues, BundleUnchanged
    PROVE  HistoryInv'
  <1>0. PICK c : c = Current
    OBVIOUS
  <1>1. /\ pc = "bundleMatched" /\ gi' = gi + 1 /\ pc' = AfterBundle
        /\ UNCHANGED <<disk, nv, newFull, oldM>>
        /\ newM' = [newM EXCEPT ![c].version = oldM[c].version]
    BY <1>0 DEF BundleUnchanged, KeepOldVersion
  <1>2. /\ HistoryInv /\ pc # "idle" /\ InLoop
        /\ c \in Bundle /\ c \notin Finished /\ MatchedWell(c) /\ IsManifest(newM[c])
    BY <1>0, <1>1, CurrentMatched
  <1>3. newM'[c].version = oldM[c].version /\ newM'[c].files = newM[c].files
    <2>1. newM'[c] = [newM[c] EXCEPT !.version = oldM[c].version]
      BY <1>1, <1>2 DEF HistoryInv, IntactInv, TypeInv, TypeOK, RunTypeOK
    <2>2. QED
      BY <1>2, <2>1 DEF IsManifest
  <1>4. Dated(newM'[c].files, nv)
    BY <1>2, <1>3, MatchedDated
  <1>5. Final(c)'
    BY <1>2, <1>3, <1>4, FallsBack
  <1>6. \A b \in Bundle \ {c} : newM'[b] = newM[b]
    BY <1>1, <1>2 DEF HistoryInv, IntactInv, TypeInv, TypeOK, RunTypeOK
  <1>7. QED
    BY <1>0, <1>1, <1>2, <1>5, <1>6, NextInLoop DEF disk

LEMMA BundleChangedHistory ==
    ASSUME Continues, BundleChanged
    PROVE  HistoryInv'
  <1>0. PICK c : c = Current
    OBVIOUS
  <1>1. pc = "bundleMatched" /\ UNCHANGED <<disk, nv, newFull, oldM>>
    BY DEF BundleChanged
  <1>2. /\ HistoryInv /\ pc # "idle" /\ InLoop
        /\ c \in Bundle /\ c \notin Finished /\ MatchedWell(c) /\ IsManifest(newM[c])
    BY <1>0, <1>1, CurrentMatched
  <1>3. PICK m \in MatchingsOf(c) :
          LET files == Completed(oldM[c], newM[c], m)
              write == WorthWriting(c, files)
          IN  /\ newM' = [newM EXCEPT ![c].files = files,
                             ![c].version = IF write THEN @ ELSE oldM[c].version]
              /\ gi' = IF write THEN gi ELSE gi + 1
              /\ pc' = IF write THEN "writeBundle" ELSE AfterBundle
    BY <1>0 DEF BundleChanged
  <1> DEFINE f == Completed(oldM[c], newM[c], m)
             write == WorthWriting(c, f)
  <1>4. /\ Dated(f, nv) /\ PlainGone(f) /\ Descends(f, Prior(c).files, nv)
        /\ Shipped(f, Run.ban)
        /\ \A p \in DOMAIN f : f[p].deleted /\ f[p].last # nv => Prior(c).format >= Run.format
        /\ CleanRerun => Sourced(f, newFull.files, nv)
    <2> HIDE DEF f
    <2> QED BY <1>2, CompletedReady DEF f
  <1>5. write \in BOOLEAN
    BY DEF WorthWriting, IncludesChanged
  <1>6. /\ newM' = [newM EXCEPT ![c].files = f,
                      ![c].version = IF write THEN @ ELSE oldM[c].version]
        /\ gi' = IF write THEN gi ELSE gi + 1
        /\ pc' = IF write THEN "writeBundle" ELSE AfterBundle
    BY <1>3
  <1> HIDE DEF f, write
  <1>7. /\ newM'[c].files = f /\ newM'[c].format = newM[c].format
        /\ newM'[c].version = IF write THEN newM[c].version ELSE oldM[c].version
    <2>1. newM'[c] = [newM[c] EXCEPT !.files = f,
                        !.version = IF write THEN @ ELSE oldM[c].version]
      BY <1>2, <1>6 DEF HistoryInv, IntactInv, TypeInv, TypeOK, RunTypeOK
    <2>2. QED
      BY <1>2, <2>1 DEF IsManifest
  <1>8. \A b \in Bundle \ {c} : newM'[b] = newM[b]
    BY <1>2, <1>6 DEF HistoryInv, IntactInv, TypeInv, TypeOK, RunTypeOK
  <1>9. CASE write
    <2>1. gi' = gi /\ pc' = "writeBundle" /\ newM'[c].version = newM[c].version
      BY <1>6, <1>7, <1>9
    <2>2. nv' = nv /\ Run' = Run /\ Prior(c)' = Prior(c) /\ newFull' = newFull
      BY <1>1, <1>2, SameRunHistory DEF Continues
    <2>3. newM[c].version = nv /\ newM[c].format = Run.format
      BY <1>2 DEF MatchedWell
    <2>4. Ready(c)'
      BY <1>4, <1>7, <2>1, <2>2, <2>3 DEF Ready, Succeeds
    <2>5. QED
      BY <1>0, <1>1, <1>2, <1>8, <2>1, <2>4, StayInLoop DEF disk
  <1>10. CASE ~write
    <2>1. gi' = gi + 1 /\ pc' = AfterBundle /\ newM'[c].version = oldM[c].version
      BY <1>6, <1>7, <1>10
    <2>2. Final(c)'
      BY <1>2, <1>4, <1>7, <2>1, FallsBack
    <2>3. QED
      BY <1>0, <1>1, <1>2, <1>8, <2>1, <2>2, NextInLoop DEF disk
  <1>11. QED
    BY <1>5, <1>9, <1>10

LEMMA WriteBundleHistory ==
    ASSUME Continues, WriteBundle
    PROVE  HistoryInv'
  <1>0. PICK c : c = Current
    OBVIOUS
  <1>1. /\ pc = "writeBundle" /\ gi' = gi + 1 /\ pc' = AfterBundle /\ InLoop
        /\ UNCHANGED <<nv, newFull, oldM, newM>>
        /\ www' = [www EXCEPT ![nv][c] = newM[c]]
    BY <1>0 DEF WriteBundle, InLoop
  <1>2. HistoryInv /\ TypeInv /\ nv \in 0..MaxVersion
    BY <1>1, RunType DEF Continues, HistoryInv, IntactInv
  <1>3. c \in Bundle /\ Ready(c)
    BY <1>0, <1>1, <1>2, Cursor DEF HistoryInv, StagesOK
  <1>4. \A b \in Bundle : www'[nv][b] = IF b = c THEN newM[c] ELSE www[nv][b]
    <2>1. www = [x \in 0..MaxVersion |-> [b \in Bundle |-> www[x][b]]]
      BY <1>2 DEF TypeInv, TypeOK, DiskTypeOK
    <2>2. www' = [x \in 0..MaxVersion |-> [b \in Bundle |->
                    IF x = nv /\ b = c THEN newM[c] ELSE www[x][b]]]
      BY <1>1, <1>2, <2>1
    <2>3. QED
      BY <1>2, <2>2
  <1>5. Final(c)'
    BY <1>1, <1>3, <1>4, WrittenFinal
  <1>6. QED
    BY <1>0, <1>1, <1>3, <1>4, <1>5, NextInLoop

\* Phases 4 and 5: the MoM lists the final versions, in the format of the run.
LEMMA WriteMoMHistory ==
    ASSUME Continues, WriteMoM
    PROVE  HistoryInv'
  <1>1. /\ pc = "mom" /\ pc' = "writeFull" /\ UNCHANGED <<nv, www, newFull, oldM, newM>>
        /\ wwwMoM' = [wwwMoM EXCEPT ![nv] = NewMoM]
    BY DEF WriteMoM
  <1>2. /\ HistoryInv /\ TypeInv /\ ReleasesOK' /\ Run' = Run /\ Groups' = Groups
        /\ OldMoM' = OldMoM
    BY SameRunHistory DEF Continues, HistoryInv, IntactInv
  <1>3. Groups \subseteq Bundle /\ nv \in 0..MaxVersion
    BY <1>1, <1>2, RunType
  <1>4. \A b \in Groups : Final(b)'
    <2>1. \A b \in Groups : Final(b)
      BY <1>1, <1>2 DEF HistoryInv, StagesOK, Finished
    <2>2. QED
      BY <1>1, <1>3, <2>1, SameStage
  <1>5. StagesOK'
    BY <1>1, <1>2, <1>4 DEF StagesOK, InLoop, Finished
  <1>6. wwwMoM'[nv] = NewMoM
    BY <1>1, <1>2, <1>3 DEF TypeInv, TypeOK, DiskTypeOK
  <1>7. wwwMoM'[nv].subs = [b \in Groups |-> newM[b].version]
        /\ wwwMoM'[nv].format = Run.format
    BY <1>6 DEF NewMoM
  <1>8. Run.format >= OldMoM.format
    BY <1>1, <1>2 DEF HistoryInv, ResultOK, Listing
  <1>9. ResultOK'
    BY <1>1, <1>2, <1>7, <1>8 DEF ResultOK
  <1>10. FullListOK' /\ ChrootOK'
    <2>1. Listing
      BY <1>1 DEF Listing
    <2>2. QED
      BY <1>1, <1>2, <2>1 DEF HistoryInv, FullListOK, ChrootOK
  <1>11. QED
    BY <1>2, <1>5, <1>9, <1>10 DEF HistoryInv, Continues

\* The full manifest says where each new entry can be downloaded.
LEMMA WriteFullHistory ==
    ASSUME Continues, WriteFull
    PROVE  HistoryInv'
  <1>1. /\ pc = "writeFull" /\ pc' = "done" /\ pc # "idle"
        /\ UNCHANGED <<nv, www, wwwMoM, newFull, oldM, newM>>
        /\ wwwFull' = [wwwFull EXCEPT ![nv] = FinalFull]
    BY DEF WriteFull
  <1>2. /\ HistoryInv /\ TypeInv /\ ReleasesOK' /\ Run' = Run /\ Groups' = Groups
        /\ OldMoM' = OldMoM /\ \A b \in Bundle : Prior(b)' = Prior(b)
    BY SameRunHistory DEF Continues, HistoryInv, IntactInv
  <1>3. Groups \subseteq Bundle /\ nv \in 0..MaxVersion
    BY <1>1, <1>2, RunType
  <1>4. wwwFull'[nv] = FinalFull
    BY <1>1, <1>2, <1>3 DEF TypeInv, TypeOK, DiskTypeOK
  <1>5. /\ wwwMoM[nv].subs = [b \in Groups |-> newM[b].version]
        /\ wwwMoM[nv].format = Run.format /\ Run.format >= OldMoM.format
        /\ \A b \in Groups : Final(b)
    BY <1>1, <1>2 DEF HistoryInv, StagesOK, ResultOK, Listing
  <1>6. Dated(newFull.files, nv) /\ \A b \in Groups : Dated(newM[b].files, nv)
    BY <1>1, <1>2, <1>5 DEF HistoryInv, FullListOK, Listing, Final
  <1>7. /\ Dated(FinalFull.files, nv)
        /\ \A b \in Groups : \A p \in LivePaths(newM[b].files) :
              /\ newM[b].files[p].last = nv /\ Shipped(newM[b].files, Run.ban)
              /\ Sourced(newM[b].files, newFull.files, nv)
              => /\ p \in LivePaths(FinalFull.files)
                 /\ FinalFull.files[p].hash = newM[b].files[p].hash
                 /\ FinalFull.files[p].last = nv
    BY <1>1, <1>2, <1>6, FinalFullHistory
  <1>8. ASSUME NEW b \in Groups
        PROVE  \/ wwwMoM'[nv'].subs[b] = Prior(b)'.version
               \/ wwwMoM'[nv'].subs[b] = nv' /\ Released(b)'
    <2>1. wwwMoM'[nv'].subs[b] = newM[b].version /\ b \in Bundle
      BY <1>1, <1>3, <1>5
    <2>2. CASE newM[b].version = Prior(b).version
      BY <1>2, <2>1, <2>2
    <2>3. CASE Ready(b) /\ www[nv][b] = newM[b]
      <3>1. newM[b].version = nv /\ Succeeds(newM[b], Prior(b))
        BY <2>3 DEF Ready
      <3>2. CleanRerun =>
              \A p \in LivePaths(newM[b].files) : newM[b].files[p].last = nv =>
                  /\ p \in LivePaths(wwwFull'[nv].files)
                  /\ wwwFull'[nv].files[p].hash = newM[b].files[p].hash
                  /\ wwwFull'[nv].files[p].last = nv
        BY <1>4, <1>7, <2>3 DEF Ready
      <3>3. www'[nv'][b] = newM[b] /\ Prior(b)' = Prior(b)
        BY <1>1, <1>2, <2>1, <2>3
      <3>4. Released(b)'
        BY <1>1, <1>2, <3>1, <3>2, <3>3 DEF Released, Succeeds
      <3>5. QED
        BY <1>1, <2>1, <3>1, <3>4
    <2>4. QED
      BY <1>5, <2>2, <2>3 DEF Final
  <1>9. Listed(nv)' = Groups
    BY <1>1, <1>5 DEF Listed
  <1>10. ResultOK'
    BY <1>1, <1>2, <1>4, <1>5, <1>7, <1>8, <1>9 DEF ResultOK
  <1>11. StagesOK' /\ FullListOK' /\ ChrootOK'
    BY <1>1 DEF StagesOK, FullListOK, ChrootOK, Listing, InLoop, Finished
  <1>12. QED
    BY <1>2, <1>10, <1>11 DEF HistoryInv, Continues
-----------------------------------------------------------------------------
(* The new release *)

\* What is about to be in force for a bundle descends from what was.
LEMMA NewInForce ==
    ASSUME HistoryInv, pc = "done", NEW b \in Listed(nv)
    PROVE  /\ b \in Bundle /\ IsFileList(InForce(nv, b).files)
           /\ PlainGone(InForce(nv, b).files)
           /\ Descends(InForce(nv, b).files, Prior(b).files, nv)
           /\ InForce(nv, b).format <= wwwMoM[nv].format
           /\ \A p \in DOMAIN InForce(nv, b).files :
                LET e == InForce(nv, b).files[p]
                IN  /\ e.last = nv => InForce(nv, b) = www[nv][b] /\ Released(b)
                    /\ e.deleted /\ e.last # nv => Prior(b).format = InForce(nv, b).format
                    /\ e.deleted /\ e.last = nv => wwwMoM[nv].format = InForce(nv, b).format
  <1> DEFINE m == InForce(nv, b)
             s == wwwMoM[nv].subs[b]
  <1>1. /\ nv \in 0..MaxVersion /\ wwwMoM[nv] \notin {Absent, Torn} /\ nv \notin published
        /\ nv # 0 /\ Settled(s, b)
    BY NewVersion DEF HistoryInv, IntactInv, WrittenOK
  <1>2. b \in Bundle
    BY <1>1, ListedType DEF HistoryInv, IntactInv
  <1>3. /\ wwwMoM[nv].format = Run.format /\ Run.format >= OldMoM.format
        /\ s = Prior(b).version \/ (s = nv /\ Released(b))
    BY DEF HistoryInv, ResultOK
  <1>4. /\ IsManifest(Prior(b)) /\ Prior(b).version # nv /\ PlainGone(Prior(b).files)
        /\ OldMoM \in MoM /\ Run.format \in Nat
        /\ \A p \in DOMAIN Prior(b).files : /\ Prior(b).files[p].last < nv
                                            /\ Prior(b).format <= OldMoM.format
    BY <1>2, PriorCases, PriorHistory, OldType, RunType DEF HistoryInv, IntactInv
  <1>5. OldMoM.format \in Nat /\ Prior(b).format \in Nat /\ IsFileList(Prior(b).files)
    BY <1>4, ManifestType DEF MoM
  <1>6. CASE s = Prior(b).version
    <2>1. \/ m.files = <<>> /\ m.format = 0
          \/ m = Prior(b) /\ Prior(b).format <= OldMoM.format
      <3>1. CASE s = 0
        <4>1. www[s][b] = Absent
          BY <1>2, <3>1 DEF HistoryInv, IntactInv, HistoryOK
        <4>2. QED
          BY <4>1 DEF InForce, NoManifest
      <3>2. CASE s # 0
        <4>1. /\ Prior(b) = www[s][b] /\ InForce(lastVer, b) = Prior(b)
              /\ lastVer \in published /\ b \in Listed(lastVer) /\ OldMoM = wwwMoM[lastVer]
          BY <1>2, <1>6, <3>2, PriorCases DEF HistoryInv
        <4>2. www[s][b] \notin {Absent, Torn}
          BY <1>4, <4>1, Distinct
        <4>3. m = Prior(b)
          BY <4>1, <4>2 DEF InForce
        <4>4. QED
          BY <4>1, <4>3 DEF HistoryInv, ReleasesOK, EntriesOK
      <3>3. QED
        BY <3>1, <3>2
    <2>2. CASE m.files = <<>> /\ m.format = 0
      BY <1>2, <1>3, <1>4, <2>2, EmptyType DEF PlainGone, Descends
    <2>3. CASE m = Prior(b) /\ Prior(b).format <= OldMoM.format
      <3>1. Descends(m.files, Prior(b).files, nv)
        BY <2>3 DEF Descends, Says
      <3>2. m.format <= wwwMoM[nv].format
        BY <1>3, <1>4, <1>5, <2>3
      <3>3. \A p \in DOMAIN m.files : m.files[p].last # nv
        BY <1>4, <1>5, <2>3, <1>1 DEF IsFileList, Entry
      <3>4. QED
        BY <1>2, <1>4, <1>5, <2>3, <3>1, <3>2, <3>3
    <2>4. QED
      BY <2>1, <2>2, <2>3
  <1>7. CASE s = nv /\ Released(b) /\ s # Prior(b).version
    <2>1. www[nv][b] \notin {Absent, Torn}
      BY <1>1, <1>7 DEF Settled, Sound, Whole
    <2>2. m = www[nv][b]
      BY <1>7, <2>1 DEF InForce
    <2>3. IsManifest(m)
      BY <1>1, <1>2, <2>1, <2>2 DEF HistoryInv, IntactInv, TypeInv, TypeOK, DiskTypeOK
    <2>4. Succeeds(m, Prior(b))
      BY <1>7, <2>2 DEF Released
    <2>5. /\ m.format = Run.format /\ PlainGone(m.files)
          /\ Descends(m.files, Prior(b).files, nv)
          /\ \A p \in DOMAIN m.files :
                m.files[p].deleted /\ m.files[p].last # nv => Prior(b).format >= Run.format
      BY <2>4 DEF Succeeds
    <2>6. ASSUME NEW p \in DOMAIN m.files, m.files[p].deleted, m.files[p].last # nv
          PROVE  Prior(b).format = m.format
      <3>1. Prior(b).format >= Run.format
        BY <2>5, <2>6
      <3>2. p \in DOMAIN Prior(b).files
        BY <2>5, <2>6 DEF Descends
      <3>3. Prior(b).format <= OldMoM.format
        BY <1>4, <3>2
      <3>4. QED
        BY <1>3, <1>4, <1>5, <2>5, <3>1, <3>3
    <2>7. m.format <= wwwMoM[nv].format
      BY <1>3, <1>4, <2>5
    <2>8. IsFileList(m.files)
      BY <2>3, ManifestType
    <2>9. QED
      BY <1>2, <1>3, <1>7, <2>2, <2>5, <2>6, <2>7, <2>8
  <1>8. QED
    BY <1>3, <1>6, <1>7

\* An entry of the new release that is not new was one of the last release.
LEMMA NotNew ==
    ASSUME HistoryInv, pc = "done", NEW b \in Listed(nv), NEW p \in DOMAIN InForce(nv, b).files,
           InForce(nv, b).files[p].last # nv
    PROVE  /\ lastVer \in published /\ b \in Listed(lastVer) /\ InForce(lastVer, b) = Prior(b)
           /\ p \in DOMAIN InForce(lastVer, b).files
           /\ Says(InForce(nv, b).files[p], InForce(lastVer, b).files[p])
           /\ InForce(nv, b).files[p].last \in published
           /\ InForce(nv, b).files[p].last < nv
  <1>1. b \in Bundle /\ Descends(InForce(nv, b).files, Prior(b).files, nv)
    BY NewInForce
  <1>2. p \in DOMAIN Prior(b).files /\ Says(InForce(nv, b).files[p], Prior(b).files[p])
    BY <1>1 DEF Descends
  <1>3. QED
    BY <1>1, <1>2, PriorHistory DEF Says

LEMMA PublishHistory ==
    ASSUME CheckExit, HistoryInv, IntactInv', [Next]_vars, Publish
    PROVE  HistoryInv'
  <1>1. /\ pc = "done" /\ pc' = "idle" /\ pc # "idle" /\ published' = published \cup {nv}
        /\ UNCHANGED <<www, wwwFull, wwwMoM>>
    BY DEF Publish, ForgetRun
  <1>2. /\ nv \in 0..MaxVersion /\ nv # 0 /\ nv \notin published
        /\ \A v \in published : v < nv /\ v \in 0..MaxVersion
        /\ lastVer \in published => \A v \in published : v <= lastVer
    BY <1>1, NewVersion DEF HistoryInv, IntactInv, HistoryOK
  <1>3. \A v : Listed(v)' = Listed(v) /\ \A b : InForce(v, b)' = InForce(v, b)
    BY <1>1 DEF Listed, InForce
  <1>4. EntriesOK'
    <2>1. ASSUME NEW b \in Listed(nv), NEW p \in DOMAIN InForce(nv, b).files
          PROVE  LET e == InForce(nv, b).files[p]
                 IN  /\ e.last \in published' /\ e.last <= nv
                     /\ e.deleted => wwwMoM[e.last].format = InForce(nv, b).format
      <3> DEFINE e == InForce(nv, b).files[p]
      <3>1. CASE e.last = nv
        BY <1>1, <1>2, <3>1, NewInForce
      <3>2. CASE e.last # nv
        <4>1. /\ lastVer \in published /\ b \in Listed(lastVer) /\ InForce(lastVer, b) = Prior(b)
              /\ p \in DOMAIN InForce(lastVer, b).files
              /\ Says(e, InForce(lastVer, b).files[p]) /\ e.last \in published /\ e.last < nv
          BY <1>1, <3>2, NotNew
        <4>2. e.deleted => wwwMoM[e.last].format = InForce(lastVer, b).format
          BY <4>1 DEF HistoryInv, ReleasesOK, EntriesOK, Says
        <4>3. e.deleted => Prior(b).format = InForce(nv, b).format
          BY <1>1, <3>2, NewInForce
        <4>4. e.last <= nv
          BY <1>2, <4>1
        <4>5. QED
          BY <1>1, <4>1, <4>2, <4>3, <4>4
      <3>3. QED
        BY <3>1, <3>2
    <2>2. \A b \in Listed(nv) : /\ PlainGone(InForce(nv, b).files)
                                /\ InForce(nv, b).format <= wwwMoM[nv].format
      BY <1>1, NewInForce
    <2>3. SUFFICES ASSUME NEW v \in published', NEW b \in Listed(v)
                   PROVE  /\ PlainGone(InForce(v, b).files)
                          /\ InForce(v, b).format <= wwwMoM[v].format
                          /\ \A p \in DOMAIN InForce(v, b).files :
                               LET e == InForce(v, b).files[p]
                               IN  /\ e.last \in published' /\ e.last <= v
                                   /\ e.deleted => wwwMoM[e.last].format
                                                     = InForce(v, b).format
      BY <1>1, <1>3 DEF EntriesOK, PlainGone
    <2>4. CASE v \in published
      BY <1>1, <2>4 DEF HistoryInv, ReleasesOK, EntriesOK
    <2>5. CASE v = nv
      BY <2>1, <2>2, <2>5
    <2>6. QED
      BY <1>1, <2>4, <2>5
  <1>5. FullDated'
    BY <1>1 DEF HistoryInv, ReleasesOK, FullDated, Dated, ResultOK
  <1>6. UpdateSound'
    <2>1. SUFFICES ASSUME NEW v1 \in published', NEW v2 \in published', v1 < v2,
                          NEW b \in Listed(v1) \cap Listed(v2),
                          NEW p \in DOMAIN InForce(v2, b).files,
                          InForce(v2, b).files[p].last <= v1
                   PROVE  LET new == InForce(v2, b).files
                              old == InForce(v1, b).files
                          IN  IF Live(new[p])
                              THEN p \in LivePaths(old) /\ old[p].hash = new[p].hash
                              ELSE p \notin LivePaths(old)
      BY <1>3 DEF UpdateSound
    <2>2. v1 \in published
      BY <1>1, <1>2, <2>1
    <2>3. CASE v2 \in published
      BY <2>1, <2>2, <2>3 DEF HistoryInv, ReleasesOK, UpdateSound
    <2>4. CASE v2 = nv
      <3>0. v1 \in Int /\ nv \in Int /\ v1 < nv
        BY <1>2, <2>2, PathAssumption
      <3>1. InForce(nv, b).files[p].last # nv
        BY <2>1, <2>4, <3>0
      <3>2. /\ lastVer \in published /\ b \in Listed(lastVer)
            /\ p \in DOMAIN InForce(lastVer, b).files
            /\ Says(InForce(nv, b).files[p], InForce(lastVer, b).files[p])
        BY <1>1, <2>1, <2>4, <3>1, NotNew
      <3>3. CASE v1 = lastVer
        BY <2>4, <3>2, <3>3 DEF Says, LivePaths
      <3>4. CASE v1 # lastVer
        <4>1. v1 < lastVer
          BY <1>2, <2>2, <3>2, <3>4
        <4>2. InForce(lastVer, b).files[p].last <= v1
          BY <2>1, <2>4, <3>2 DEF Says
        <4>3. IF Live(InForce(lastVer, b).files[p])
              THEN /\ p \in LivePaths(InForce(v1, b).files)
                   /\ InForce(v1, b).files[p].hash = InForce(lastVer, b).files[p].hash
              ELSE p \notin LivePaths(InForce(v1, b).files)
          BY <2>1, <2>2, <3>2, <4>1, <4>2 DEF HistoryInv, ReleasesOK, UpdateSound
        <4>4. QED
          BY <2>4, <3>2, <4>3 DEF Says
      <3>5. QED
        BY <3>3, <3>4
    <2>5. QED
      BY <1>1, <2>3, <2>4
  <1>7. CleanRerun => Downloadable'
    <2>1. SUFFICES ASSUME CleanRerun, NEW v \in published', NEW b \in Listed(v),
                          NEW p \in LivePaths(InForce(v, b).files)
                   PROVE  LET e    == InForce(v, b).files[p]
                              full == wwwFull[e.last]
                          IN  /\ e.last \in published' /\ full \notin {Absent, Torn}
                              /\ \E q \in LivePaths(full.files) :
                                   full.files[q].hash = e.hash /\ full.files[q].last = e.last
      BY <1>1, <1>3 DEF Downloadable
    <2> DEFINE e == InForce(v, b).files[p]
    <2>2. CASE v \in published
      BY <1>1, <2>1, <2>2 DEF HistoryInv, ReleasesOK, Downloadable
    <2>3. CASE v = nv /\ e.last = nv
      <3>1. p \in DOMAIN InForce(nv, b).files
        BY <2>3 DEF LivePaths
      <3>2. InForce(nv, b) = www[nv][b] /\ Released(b)
        BY <1>1, <2>1, <2>3, <3>1, NewInForce
      <3>3. /\ p \in LivePaths(wwwFull[nv].files)
            /\ wwwFull[nv].files[p].hash = e.hash /\ wwwFull[nv].files[p].last = nv
        BY <2>1, <2>3, <3>2 DEF Released
      <3>4. wwwFull[nv] \notin {Absent, Torn}
        BY <1>1 DEF HistoryInv, IntactInv, WrittenOK
      <3>5. QED
        BY <1>1, <2>3, <3>3, <3>4
    <2>4. CASE v = nv /\ e.last # nv
      <3>1. p \in DOMAIN InForce(nv, b).files /\ Live(e)
        BY <2>4 DEF LivePaths
      <3>2. /\ lastVer \in published /\ b \in Listed(lastVer)
            /\ p \in DOMAIN InForce(lastVer, b).files
            /\ Says(e, InForce(lastVer, b).files[p])
        BY <1>1, <2>1, <2>4, <3>1, NotNew
      <3>3. /\ p \in LivePaths(InForce(lastVer, b).files)
            /\ InForce(lastVer, b).files[p].hash = e.hash
            /\ InForce(lastVer, b).files[p].last = e.last
        BY <3>1, <3>2 DEF Says, LivePaths
      <3>4. QED
        BY <1>1, <2>1, <3>2, <3>3 DEF HistoryInv, ReleasesOK, Downloadable
    <2>5. QED
      BY <1>1, <2>2, <2>3, <2>4
  <1>8. ReleasesOK'
    BY <1>4, <1>5, <1>6, <1>7 DEF ReleasesOK
  <1>9. QED
    BY <1>1, <1>8, QuietHistory
-----------------------------------------------------------------------------
(* The theorems *)

LEMMA InitHistory == Init => HistoryInv
  <1> SUFFICES ASSUME Init PROVE HistoryInv
    OBVIOUS
  <1>1. ReleasesOK
    <2>1. wwwFull[0] = Absent /\ published = {}
      BY PathAssumption DEF Init
    <2>2. QED
      BY <2>1 DEF ReleasesOK, EntriesOK, FullDated, UpdateSound, Downloadable
  <1>2. ChrootOK /\ FullListOK /\ StagesOK /\ ResultOK
    BY DEF Init, ChrootOK, FullListOK, StagesOK, ResultOK, Listing, InLoop, Finished
  <1>3. QED
    BY <1>1, <1>2, InitIntact DEF HistoryInv

\* The releases stay what they are as long as nothing is published.
LEMMA IdleHistory ==
    ASSUME HistoryInv, UNCHANGED <<published, www, wwwFull, wwwMoM>>
    PROVE  ReleasesOK'
  <1>1. \A v : Listed(v)' = Listed(v) /\ \A b : InForce(v, b)' = InForce(v, b)
    BY DEF Listed, InForce
  <1>2. EntriesOK' /\ FullDated'
    BY <1>1 DEF HistoryInv, ReleasesOK, EntriesOK, FullDated, PlainGone, Dated
  <1>3. UpdateSound'
    BY <1>1 DEF HistoryInv, ReleasesOK, UpdateSound
  <1>4. CleanRerun => Downloadable'
    BY <1>1 DEF HistoryInv, ReleasesOK, Downloadable
  <1>5. QED
    BY <1>2, <1>3, <1>4 DEF ReleasesOK

LEMMA NextHistory ==
    ASSUME CheckExit, HistoryInv, [Next]_vars
    PROVE  HistoryInv'
  <1>0. IntactInv'
    BY NextIntact DEF HistoryInv
  <1>1. CASE UNCHANGED vars
    <2>1. /\ UNCHANGED <<disk, proc>> /\ Run' = Run /\ Groups' = Groups /\ OldMoM' = OldMoM
          /\ \A b : Prior(b)' = Prior(b)
      BY <1>1 DEF vars, disk, proc, Run, Groups, OldMoM, OldMoMFile, Prior, FromFile, OldFile,
                  Read, SubVersion, NewManifest
    <2>2. /\ \A b : /\ Loaded(b)' <=> Loaded(b)
                    /\ MatchedWell(b)' <=> MatchedWell(b)
                    /\ Ready(b)' <=> Ready(b)
                    /\ Released(b)' <=> Released(b)
      BY <2>1 DEF Loaded, MatchedWell, Ready, Released, Succeeds, disk, proc
    <2>3. \A b : Final(b)' <=> Final(b)
      BY <2>1, <2>2 DEF Final, disk, proc
    <2>4. Finished' = Finished /\ Current' = Current
      BY <2>1 DEF Finished, Current, disk, proc
    <2>5. StagesOK'
      BY <2>1, <2>2, <2>3, <2>4 DEF HistoryInv, StagesOK, InLoop, disk, proc
    <2>6. ResultOK'
      BY <2>1, <2>2 DEF HistoryInv, ResultOK, Listing, InLoop, Listed, disk, proc
    <2>7. FullListOK'
      BY <2>1 DEF HistoryInv, FullListOK, Listing, InLoop, disk, proc
    <2>8. ReleasesOK'
      BY <2>1, IdleHistory DEF disk
    <2>9. ChrootOK'
      BY UnionStep DEF HistoryInv, IntactInv
    <2>10. QED
      BY <1>0, <2>5, <2>6, <2>7, <2>8, <2>9 DEF HistoryInv
  <1>2. CASE \E v \in Version : \E in \in plan[v] : Start(v, in)
    <2>1. UNCHANGED <<published, www, wwwFull, wwwMoM>> /\ pc' = "chroot"
      BY <1>2 DEF Start
    <2>2. QED
      BY <1>0, <2>1, IdleHistory, QuietHistory
  <1>3. CASE CreateUpdateStep
    <2>1. ASSUME FormatTooOld \/ CoreTypeChange \/ IncludesUnresolvable
                 \/ BundleTypeChange \/ OldUnreadable
          PROVE  HistoryInv'
      <3>1. Fail
        BY <2>1 DEF FormatTooOld, CoreTypeChange, IncludesUnresolvable,
                    BundleTypeChange, OldUnreadable
      <3>2. QED
        BY <1>0, <3>1, IdleHistory, QuietHistory DEF Fail, disk
    <2>2. ASSUME CreateFullChroot
          PROVE  HistoryInv'
      BY <1>0, <2>2, IdleHistory, QuietHistory DEF CreateFullChroot
    <2>3. ASSUME CreateFullManifest \/ MatchCore \/ CoreUnchanged \/ CoreChanged \/ WriteCore
                 \/ LoadBundles \/ SkipCore \/ MatchBundle \/ BundleUnchanged \/ BundleChanged
                 \/ WriteBundle \/ WriteMoM \/ WriteFull
          PROVE  HistoryInv'
      <3>1. pc # "idle" /\ UNCHANGED <<lastVer, published, image, nv>>
        BY <2>3 DEF CreateFullManifest, MatchCore, CoreUnchanged, CoreChanged, WriteCore,
           LoadBundles, SkipCore, MatchBundle, BundleUnchanged, KeepOldVersion, BundleChanged,
           WriteBundle, WriteMoM, WriteFull, disk
      <3>2. Continues
        BY <1>0, <3>1 DEF Continues
      <3>3. QED
        BY <2>3, <3>2, CreateFullManifestHistory, MatchCoreHistory, CoreUnchangedHistory,
           CoreChangedHistory, WriteCoreHistory, LoadBundlesHistory, SkipCoreHistory,
           MatchBundleHistory, BundleUnchangedHistory, BundleChangedHistory,
           WriteBundleHistory, WriteMoMHistory, WriteFullHistory
    <2>4. QED
      BY <1>3, <2>1, <2>2, <2>3 DEF CreateUpdateStep
  <1>4. CASE Publish
    BY <1>0, <1>4, PublishHistory
  <1>5. CASE GiveUp \/ Crash \/ CrashInChroot
    BY <1>0, <1>5, IdleHistory, QuietHistory DEF GiveUp, ForgetRun, Crash, CrashInChroot, disk
  <1>6. CASE CrashInWrite
    <2>1. pc # "idle" /\ pc' = "failed" /\ UNCHANGED <<lastVer, published, image, nv>>
      BY <1>6 DEF CrashInWrite
    <2>2. QED
      BY <1>0, <2>1, StoppedHistory DEF Continues
  <1>7. QED
    BY <1>1, <1>2, <1>3, <1>4, <1>5, <1>6 DEF Next

\* If the caller looks at the exit status, an entry that is not newer than the
\* version a client comes from says what that client has: live with the same
\* hash, or not there.  Clients compare last_change with their own version and
\* take nothing else into account, whatever releases lie in between.
THEOREM UpdatesSound == CheckExit => (Spec => []UpdateSound)
  <1> SUFFICES ASSUME CheckExit PROVE Spec => []UpdateSound
    OBVIOUS
  <1>1. HistoryInv /\ [Next]_vars => HistoryInv'
    BY NextHistory
  <1>2. HistoryInv => UpdateSound
    BY DEF HistoryInv, ReleasesOK
  <1>3. QED
    BY InitHistory, <1>1, <1>2, PTL DEF Spec

\* If the caller also empties the union before it builds a version again, every
\* live entry of every release can be downloaded: the full manifest of the
\* version it is dated to is published and has a live entry with its hash, dated
\* to that version, which is what make_fullfiles packs.
THEOREM ReleasesDownloadable == CheckExit /\ CleanRerun => (Spec => []Downloadable)
  <1> SUFFICES ASSUME CheckExit, CleanRerun PROVE Spec => []Downloadable
    OBVIOUS
  <1>1. HistoryInv /\ [Next]_vars => HistoryInv'
    BY NextHistory
  <1>2. HistoryInv => Downloadable
    BY DEF HistoryInv, ReleasesOK
  <1>3. QED
    BY InitHistory, <1>1, <1>2, PTL DEF Spec

\* A format bump is forgetful: every tombstone of a manifest in force dates from
\* a release of the format that manifest was written in, through several bumps
\* and failed runs.  A bundle that sleeps through a bump keeps the manifest, and
\* the tombstones, of the older format until it is written again.
THEOREM FormatsForget == CheckExit => (Spec => []TombstonesOfOwnFormat)
  <1> SUFFICES ASSUME CheckExit PROVE Spec => []TombstonesOfOwnFormat
    OBVIOUS
  <1>1. HistoryInv /\ [Next]_vars => HistoryInv'
    BY NextHistory
  <1>2. HistoryInv => TombstonesOfOwnFormat
    BY DEF HistoryInv, ReleasesOK, EntriesOK, TombstonesOfOwnFormat
  <1>3. QED
    BY InitHistory, <1>1, <1>2, PTL DEF Spec

\* Only a rename has a hash after the file is gone: clean_renames resets the
\* orphans, and what is carried over from older releases was clean there.
THEOREM TombstonesPlain == CheckExit => (Spec => []PlainTombstonesZero)
  <1> SUFFICES ASSUME CheckExit PROVE Spec => []PlainTombstonesZero
    OBVIOUS
  <1>1. HistoryInv /\ [Next]_vars => HistoryInv'
    BY NextHistory
  <1>2. HistoryInv => PlainTombstonesZero
    BY DEF HistoryInv, ReleasesOK, EntriesOK, PlainGone, Live, PlainTombstonesZero
  <1>3. QED
    BY InitHistory, <1>1, <1>2, PTL DEF Spec

\* The full chroot is "a union of _everything_ in the build" if the caller
\* removes what a run before left of it; the run StaleChroot shows that it is
\* not if the caller does not.
THEOREM UnionComplete == CleanRerun => (Spec => []FullIsUnion)
  <1> SUFFICES ASSUME CleanRerun PROVE Spec => []FullIsUnion
    OBVIOUS
  <1>1. Init => TypeInv /\ ChrootOK
    BY InitType DEF Init, ChrootOK
  <1>2. TypeInv /\ ChrootOK /\ [Next]_vars => (TypeInv /\ ChrootOK)'
    BY NextType, UnionStep
  <1>3. TypeInv /\ ChrootOK => FullIsUnion
    BY DEF ChrootOK, FullIsUnion
  <1>4. QED
    BY <1>1, <1>2, <1>3, PTL DEF Spec
-----------------------------------------------------------------------------
(***************************************************************************)
(* What goes away is on record: a file that was installed with a bundle    *)
(* and is no longer in its manifest is listed as deleted, newer than the   *)
(* client, as long as the format is the same.                              *)
(*                                                                         *)
(* The hard part is what bundles include.  A file is left out of a bundle  *)
(* for an included one that has it, on the old side and on the new; if     *)
(* the old side lost one that was in force it would vanish without a       *)
(* tombstone.  So the invariant says that a release lists nothing twice:   *)
(* what a bundle lists, the bundles it includes do not.  That depends on   *)
(* the order of groups.ini, on manifests that are subtracted from before   *)
(* they are finished, and on those that fall back to an older version.     *)
(***************************************************************************)

\* A build that leaves debuginfo out.
Bans == \E inputs \in Inputs : \E v \in Version : \E in \in inputs[v] : in.ban

\* What no ban and no ghost takes out of a list: a boot file is firm as long as
\* it is there, a boot directory is not.
Firm(f, p) ==
    /\ p \in DebugPaths => ~Bans
    /\ p \in BootPaths => Live(f[p]) /\ f[p].kind = "F"

\* What is live in g is live in f, as the same type.
Trims(g, f) ==
    \A p \in LivePaths(g) : Firm(g, p) => p \in LivePaths(f) /\ g[p].kind = f[p].kind

\* Nothing live in f and in g would be subtracted for the other.
Apart(f, g) ==
    \A p \in LivePaths(f) \cap LivePaths(g) :
        Firm(f, p) => (f[p].kind = "F") # (g[p].kind = "F")

\* A list of a release: ghosts are boot files without a type, config files are not
\* released.
Orderly(f) ==
    \A p \in DOMAIN f : /\ f[p].ghosted => p \in BootPaths /\ f[p].kind = "."
                        /\ ~(Stateless /\ p \in ConfigPaths)

\* What f has of an old list o: no other tombstones, no other ghosts.
Knows(f, o) ==
    \A p \in DOMAIN f : /\ f[p].ghosted => p \in BootPaths
                        /\ ~Live(f[p]) => p \in DOMAIN o /\ f[p].kind = "."

\* f has an entry for everything in o (if bumped, for what was not deleted): it
\* is there, and new if it changed its type, or it is deleted since v or since
\* o says so.
Recalls(f, o, v, bumped) ==
    \A p \in DOMAIN o : Firm(o, p) /\ ~(bumped /\ o[p].deleted) =>
        /\ p \in DOMAIN f
        /\ IF Live(f[p])
           THEN f[p].last = v \/ (p \in LivePaths(o) /\ f[p].kind = o[p].kind)
           ELSE f[p].last = IF o[p].deleted THEN o[p].last ELSE v
-----------------------------------------------------------------------------
(* The invariant *)

\* The includes of each bundle, os-core among those of all others.
AllIncludes(ms) ==
    [c \in Bundle |-> ms[c].includes \cup (IF c = Core THEN {} ELSE {Core})]

IncludesIn(v) ==
    [c \in Bundle |-> IF c \in Listed(v)
                      THEN InForce(v, c).includes \cup (IF c = Core THEN {} ELSE {Core})
                      ELSE {}]

\* What a bundle lists, the bundles it includes do not.
NothingTwice(v) ==
    \A b \in Listed(v) \ {Core} : \A c \in Reach(IncludesIn(v), b) \cap Listed(v) :
        Apart(InForce(v, b).files, InForce(v, c).files)

ListsKept ==
    \A v \in published :
        /\ \A b \in Listed(v) : Orderly(InForce(v, b).files)
        /\ Core \in Listed(v) => InForce(v, Core).includes = {}
        /\ NothingTwice(v)

FormatsGrow ==
    \A v, w \in published : v <= w => wwwMoM[v].format <= wwwMoM[w].format

RecordsOK == ListsKept /\ FormatsGrow /\ DeletionsRecorded

\* The stages of a bundle.
MatchedKept(b) ==
    /\ Knows(newM[b].files, Prior(b).files)
    /\ Recalls(newM[b].files, Prior(b).files, nv, FALSE)
    /\ ~changed => Trims(Prior(b).files, newM[b].files)
    /\ b # Core => Prior(b).includes \subseteq oldM[b].includes

ReadyKept(b) ==
    /\ Orderly(newM[b].files)
    /\ Recalls(newM[b].files, Prior(b).files, nv, Prior(b).format < Run.format)

FinalKept(b) ==
    \/ /\ newM[b].version = Prior(b).version
       /\ Trims(Prior(b).files, newM[b].files)
       /\ b # Core => Prior(b).includes \subseteq newM[b].includes
    \/ newM[b].version = nv /\ www[nv][b] = newM[b] /\ ReadyKept(b)

\* What b lists, the new manifests it includes do not.
Separated(b) ==
    \A c \in Reach(AllIncludes(newM), b) : Apart(newM[b].files, newM[c].files)

Comparing == pc \in {"core", "coreMatched", "writeCore", "load", "mom"} \/ InLoop
Written == pc \in {"writeFull", "done"}

\* The bundles the run has matched, and those it is through with.
Compares == Finished \cup (IF pc \in {"bundleMatched", "writeBundle"} THEN {Current} ELSE {})
                        \cup (IF Written THEN Groups ELSE {})
Through == IF Written THEN Groups ELSE Finished

\* What is in memory of the old manifests is part of what is in force.
MemoryKept ==
    /\ pc \in {"idle", "chroot", "full", "core"} =>
          \A b \in Bundle : oldM[b] = NoManifest /\ newM[b] = NoManifest
    /\ Comparing =>
          /\ oldM[Core].includes = {}
          /\ \A b \in Bundle : /\ Part(oldM[b].files, Prior(b).files)
                               /\ oldM[b].includes \subseteq Prior(b).includes \cup {Core}
    /\ Comparing \/ Written => newM[Core].includes = {}

StagesKept ==
    /\ pc = "coreMatched" => MatchedKept(Core)
    /\ pc = "writeCore" => ReadyKept(Core)
    /\ pc = "bundleMatched" => MatchedKept(Current)
    /\ pc = "writeBundle" => ReadyKept(Current)
    /\ \A b \in Through : FinalKept(b)
    /\ \A b \in Compares \ {Core} : Separated(b)
    /\ Written => wwwMoM[nv].subs = [b \in Groups |-> newM[b].version]

DeletionInv == HistoryInv /\ RecordsOK /\ MemoryKept /\ StagesKept
-----------------------------------------------------------------------------
(* The lists *)

LEMMA TrimsApart ==
    /\ \A f, g, h : Trims(f, g) /\ Trims(g, h) => Trims(f, h)
    /\ \A f, g, h, k : Trims(f, h) /\ Trims(g, k) /\ Apart(h, k) => Apart(f, g)
    /\ \A f : Trims(f, f) /\ Apart(f, <<>>)
  BY DEF Trims, Apart, LivePaths, Firm

\* An old list that has nothing dated v is in f, live, unless f is dated v.
LEMMA RecallsTrims ==
    ASSUME NEW f, NEW o, NEW v, NEW bumped, Recalls(f, o, v, bumped),
           \A p \in DOMAIN f : f[p].last # v
    PROVE  Trims(o, f)
  BY DEF Recalls, Trims, LivePaths, Live, Firm

\* match_manifests forgets nothing of what it is given to compare with.
LEMMA MatchedKeeps ==
    ASSUME NEW o, NEW old, NEW new, NEW v, NEW minversion,
           IsFileList(old), IsFileList(new), Orderly(o), Part(old, o), RawList(new, v),
           \A p \in DOMAIN o : Firm(o, p) => p \in DOMAIN old
    PROVE  /\ Knows(Matched(old, new, v, minversion), o)
           /\ Recalls(Matched(old, new, v, minversion), o, v, FALSE)
           /\ Trims(Matched(old, new, v, minversion), new)
           /\ ChangedPaths(old, new, minversion) = {}
                => Trims(o, Matched(old, new, v, minversion))
  <1> DEFINE f == Matched(old, new, v, minversion)
  <1>1. DOMAIN f = DOMAIN old \cup DOMAIN new
    BY DEF Matched
  <1>2. ASSUME NEW p \in DOMAIN old, p \notin DOMAIN new
        PROVE  /\ p \in DOMAIN o /\ ~Live(f[p]) /\ f[p].kind = "."
               /\ f[p].ghosted => p \in BootPaths
               /\ f[p].last = IF o[p].deleted THEN o[p].last ELSE v
    <2>1. f[p] = Tombstone(p, old[p], v)
      BY <1>2 DEF Matched
    <2>2. p \in DOMAIN o /\ old[p] = o[p]
      BY DEF Part
    <2>3. o[p].ghosted => p \in BootPaths
      BY <2>2 DEF Orderly
    <2>4. old[p] \in Entry
      BY DEF IsFileList
    <2>5. QED
      BY <2>1, <2>2, <2>3, <2>4 DEF Tombstone, Live, Entry
  <1>3. ASSUME NEW p \in DOMAIN new
        PROVE  /\ Live(new[p]) /\ Live(f[p]) /\ ~f[p].ghosted /\ f[p].kind = new[p].kind
               /\ \/ f[p].last = v
                  \/ p \in DOMAIN old /\ Unchanged(old[p], new[p], minversion)
    <2>1. new[p] \in Entry /\ Live(new[p]) /\ new[p].last = v
      BY DEF IsFileList, RawList
    <2>2. CASE p \in DOMAIN old /\ Unchanged(old[p], new[p], minversion)
      <3>1. f[p] = [new[p] EXCEPT !.last = old[p].last, !.rename = old[p].rename]
        BY <1>1, <2>2 DEF Matched
      <3>2. QED
        BY <2>1, <2>2, <3>1 DEF Entry, Live
    <2>3. CASE ~(p \in DOMAIN old /\ Unchanged(old[p], new[p], minversion))
      <3>1. f[p] = new[p]
        BY <1>1, <2>3 DEF Matched
      <3>2. QED
        BY <2>1, <3>1 DEF Live
    <2>4. QED
      BY <2>2, <2>3
  <1> HIDE DEF f
  <1>4. ASSUME NEW p \in DOMAIN new, p \in DOMAIN old, Unchanged(old[p], new[p], minversion),
               Firm(o, p)
        PROVE  p \in LivePaths(o) /\ f[p].kind = o[p].kind
    <2>1. p \in DOMAIN o /\ old[p] = o[p]
      BY <1>4 DEF Part
    <2>2. o[p].kind = f[p].kind /\ ~o[p].deleted
      BY <1>3, <1>4, <2>1 DEF Unchanged, SameContents, Live
    <2>3. ~o[p].ghosted
      BY <1>4, <2>1 DEF Orderly, Firm, Live
    <2>4. o[p].ghosted \in BOOLEAN /\ o[p].deleted \in BOOLEAN
      BY <1>4, <2>1 DEF IsFileList, Entry
    <2>5. QED
      BY <2>1, <2>2, <2>3 DEF LivePaths, Live
  <1>5. Knows(f, o)
    BY <1>1, <1>2, <1>3 DEF Knows
  <1>6. Recalls(f, o, v, FALSE)
    <2>1. SUFFICES ASSUME NEW p \in DOMAIN o, Firm(o, p)
                   PROVE  /\ p \in DOMAIN f
                          /\ IF Live(f[p])
                             THEN f[p].last = v \/ (p \in LivePaths(o) /\ f[p].kind = o[p].kind)
                             ELSE f[p].last = IF o[p].deleted THEN o[p].last ELSE v
      BY DEF Recalls
    <2>2. p \in DOMAIN old
      BY <2>1
    <2>3. CASE p \in DOMAIN new
      BY <1>1, <1>3, <1>4, <2>1, <2>2, <2>3
    <2>4. CASE p \notin DOMAIN new
      BY <1>1, <1>2, <2>2, <2>4
    <2>5. QED
      BY <2>3, <2>4
  <1>7. Trims(f, new)
    BY <1>1, <1>2, <1>3 DEF Trims, LivePaths
  <1>8. ASSUME ChangedPaths(old, new, minversion) = {}
        PROVE  Trims(o, f)
    <2>1. SUFFICES ASSUME NEW p \in LivePaths(o), Firm(o, p)
                   PROVE  p \in LivePaths(f) /\ o[p].kind = f[p].kind
      BY DEF Trims
    <2>2. p \in DOMAIN old /\ old[p] = o[p] /\ ~o[p].deleted
      BY <2>1 DEF LivePaths, Live, Part
    <2>3. p \in DOMAIN new /\ Unchanged(old[p], new[p], minversion)
      BY <1>8, <2>2 DEF ChangedPaths
    <2>4. QED
      BY <1>1, <1>3, <1>4, <2>1, <2>2, <2>3 DEF LivePaths
  <1>9. QED
    BY <1>5, <1>6, <1>7, <1>8 DEF f

\* Linking and cleaning renames changes flags and hashes of what is there.
LEMMA SameEntries ==
    ASSUME NEW f, IsFileList(f), NEW m, NEW g \in {RenamesLinked(f, m), RenamesCleaned(f, m)}
    PROVE  /\ DOMAIN g = DOMAIN f
           /\ \A p \in DOMAIN f : /\ g[p].kind = f[p].kind /\ g[p].deleted = f[p].deleted
                                  /\ g[p].ghosted = f[p].ghosted /\ g[p].last = f[p].last
  <1>1. ASSUME NEW p \in DOMAIN f
        PROVE  LET e == RenamesLinked(f, m)[p]
               IN  /\ e.kind = f[p].kind /\ e.deleted = f[p].deleted
                   /\ e.ghosted = f[p].ghosted /\ e.last = f[p].last
    <2> DEFINE q == CHOOSE q \in DOMAIN m : m[q] = p
    <2>1. RenamesLinked(f, m)[p]
             = IF p \in DOMAIN m THEN [f[p] EXCEPT !.rename = TRUE]
               ELSE IF p \in Range(m)
               THEN [f[p] EXCEPT !.rename = TRUE, !.hash = f[q].hash]
               ELSE f[p]
      BY DEF RenamesLinked
    <2>2. f[p] \in Entry
      BY DEF IsFileList
    <2> HIDE DEF q
    <2>3. QED
      BY <2>1, <2>2 DEF Entry
  <1>2. ASSUME NEW p \in DOMAIN f
        PROVE  LET e == RenamesCleaned(f, m)[p]
               IN  /\ e.kind = f[p].kind /\ e.deleted = f[p].deleted
                   /\ e.ghosted = f[p].ghosted /\ e.last = f[p].last
    <2>1. LET e == RenamesCleaned(f, m)[p]
          IN  e = f[p] \/ e = [f[p] EXCEPT !.rename = FALSE,
                                  !.hash = IF f[p].deleted THEN ZeroHash ELSE f[p].hash]
      BY DEF RenamesCleaned
    <2>2. f[p] \in Entry
      BY DEF IsFileList
    <2>3. QED
      BY <2>1, <2>2 DEF Entry
  <1>3. DOMAIN RenamesLinked(f, m) = DOMAIN f /\ DOMAIN RenamesCleaned(f, m) = DOMAIN f
    BY DEF RenamesLinked, RenamesCleaned
  <1>4. QED
    BY <1>1, <1>2, <1>3

\* What becomes of a matched list keeps the tombstones it has, but for those a
\* new format retires, and takes nothing live from it but config files.
LEMMA CompletedKeeps ==
    ASSUME NEW o, NEW n, IsManifest(o), IsManifest(n), NEW prior,
           NEW m \in RenameMatchings(o.files, n.files, nv),
           Part(o.files, prior), Orderly(prior), Knows(n.files, prior),
           Recalls(n.files, prior, nv, FALSE), Run.ban => Bans
    PROVE  LET f == Completed(o, n, m)
           IN  /\ Orderly(f) /\ Trims(f, n.files)
               /\ Recalls(f, prior, nv, o.format < Run.format)
  <1> DEFINE linked  == RenamesLinked(n.files, m)
             bumped  == Bumped(o, linked)
             kept    == WithoutOldGhosts(o.files, bumped)
             cleaned == RenamesCleaned(kept, m)
             f       == Pruned(cleaned, Run.ban)
             older   == o.format < Run.format
  <1>0. f = Completed(o, n, m)
    BY DEF Completed
  <1>1. IsFileList(o.files) /\ IsFileList(n.files)
    BY ManifestType
  <1>2. IsFileList(linked)
    BY <1>1, RenamesLinkedType
  <1>3. /\ DOMAIN linked = DOMAIN n.files
        /\ \A p \in DOMAIN linked :
              /\ linked[p].kind = n.files[p].kind /\ linked[p].deleted = n.files[p].deleted
              /\ linked[p].ghosted = n.files[p].ghosted /\ linked[p].last = n.files[p].last
    BY <1>1, SameEntries
  <1> HIDE DEF linked
  <1>4. /\ Part(bumped, linked) /\ IsFileList(bumped)
        /\ \A p \in DOMAIN linked :
              \/ p \in DOMAIN bumped
              \/ older /\ p \in DOMAIN o.files /\ o.files[p].deleted /\ linked[p].deleted
    <2>1. CASE older
      <3>1. bumped = WithoutOldTombstones(o.files, linked)
        BY <2>1 DEF Bumped
      <3>2. Part(bumped, linked) /\ IsFileList(bumped)
        BY <1>2, <3>1, DropsPart, WithoutOldType
      <3>3. QED
        BY <2>1, <3>1, <3>2 DEF WithoutOldTombstones, Restrict
    <2>2. CASE ~older
      BY <1>2, <2>2 DEF Bumped, Part
    <2>3. QED
      BY <2>1, <2>2
  <1> HIDE DEF bumped
  <1>5. /\ Part(kept, bumped) /\ IsFileList(kept)
        /\ \A p \in DOMAIN bumped :
              \/ p \in DOMAIN kept
              \/ p \in DOMAIN o.files /\ o.files[p].ghosted /\ bumped[p].ghosted
    BY <1>4, DropsPart, WithoutOldType DEF WithoutOldGhosts, Restrict
  <1> HIDE DEF kept
  <1>6. /\ DOMAIN cleaned = DOMAIN kept
        /\ \A p \in DOMAIN cleaned :
              /\ cleaned[p].kind = kept[p].kind /\ cleaned[p].deleted = kept[p].deleted
              /\ cleaned[p].ghosted = kept[p].ghosted /\ cleaned[p].last = kept[p].last
    BY <1>5, SameEntries
  <1>7. IsFileList(cleaned)
    BY <1>5, RenamesCleanedType
  <1> HIDE DEF cleaned
  <1>8. ASSUME NEW p \in DOMAIN cleaned
        PROVE  /\ p \in DOMAIN n.files
               /\ cleaned[p].kind = n.files[p].kind /\ cleaned[p].deleted = n.files[p].deleted
               /\ cleaned[p].ghosted = n.files[p].ghosted /\ cleaned[p].last = n.files[p].last
    BY <1>3, <1>4, <1>5, <1>6 DEF Part
  <1>9. ASSUME NEW p \in DOMAIN n.files, p \in BootPaths => p \in LivePaths(prior)
        PROVE  \/ p \in DOMAIN cleaned
               \/ older /\ p \in DOMAIN prior /\ prior[p].deleted /\ n.files[p].deleted
    <2>1. /\ p \in DOMAIN linked /\ linked[p].deleted = n.files[p].deleted
          /\ ~(p \in DOMAIN o.files /\ o.files[p].ghosted /\ linked[p].ghosted)
      BY <1>3, <1>9 DEF Knows, LivePaths, Live, Part
    <2>2. CASE p \in DOMAIN bumped
      BY <1>4, <1>5, <1>6, <2>1, <2>2 DEF Part
    <2>3. CASE p \notin DOMAIN bumped
      BY <1>4, <2>1, <2>3 DEF Part
    <2>4. QED
      BY <2>2, <2>3
  <1>10. ASSUME NEW p
         PROVE  p \in DOMAIN f <=> /\ p \in DOMAIN cleaned
                                   /\ ~(Stateless /\ ~cleaned[p].deleted /\ p \in ConfigPaths)
                                   /\ \/ p \in BootPaths /\ cleaned[p].deleted
                                      \/ ~(Run.ban /\ p \in DebugPaths)
    BY DEF Pruned
  <1>11. ASSUME NEW p \in DOMAIN f
         PROVE  /\ f[p].kind = cleaned[p].kind /\ f[p].last = cleaned[p].last
                /\ Live(f[p]) <=> Live(cleaned[p])
                /\ f[p].ghosted => cleaned[p].ghosted \/ (p \in BootPaths /\ cleaned[p].deleted)
    <2>1. f[p] = IF p \in BootPaths /\ cleaned[p].deleted
                 THEN [cleaned[p] EXCEPT !.deleted = FALSE, !.ghosted = TRUE]
                 ELSE cleaned[p]
      BY DEF Pruned
    <2>2. cleaned[p] \in Entry
      BY <1>7, <1>10 DEF IsFileList
    <2>3. QED
      BY <2>1, <2>2 DEF Entry, Live
  <1> HIDE DEF f
  <1>12. Orderly(f)
    <2>1. SUFFICES ASSUME NEW p \in DOMAIN f
                   PROVE  /\ f[p].ghosted => p \in BootPaths /\ f[p].kind = "."
                          /\ ~(Stateless /\ p \in ConfigPaths)
      BY DEF Orderly
    <2>2. p \in DOMAIN cleaned /\ p \in DOMAIN n.files
      BY <1>8, <1>10
    <2>3. f[p].ghosted => p \in BootPaths /\ f[p].kind = "."
      BY <1>8, <1>11, <2>2 DEF Knows, Live
    <2>4. ASSUME Stateless, p \in ConfigPaths
          PROVE  FALSE
      <3>1. n.files[p].deleted
        BY <1>8, <1>10, <2>2, <2>4
      <3>2. p \in DOMAIN prior
        BY <2>2, <3>1 DEF Knows, Live
      <3>3. QED
        BY <2>4, <3>2 DEF Orderly
    <2>5. QED
      BY <2>3, <2>4
  <1>13. Trims(f, n.files)
    <2>1. SUFFICES ASSUME NEW p \in LivePaths(f), Firm(f, p)
                   PROVE  p \in LivePaths(n.files) /\ f[p].kind = n.files[p].kind
      BY DEF Trims
    <2>2. p \in DOMAIN cleaned /\ f[p].kind = cleaned[p].kind /\ Live(cleaned[p])
      BY <1>10, <1>11, <2>1 DEF LivePaths
    <2>3. QED
      BY <1>8, <2>2 DEF LivePaths, Live
  <1>14. Recalls(f, prior, nv, older)
    <2>1. SUFFICES ASSUME NEW p \in DOMAIN prior, Firm(prior, p), ~(older /\ prior[p].deleted)
                   PROVE  /\ p \in DOMAIN f
                          /\ IF Live(f[p])
                             THEN f[p].last = nv
                                  \/ (p \in LivePaths(prior) /\ f[p].kind = prior[p].kind)
                             ELSE f[p].last = IF prior[p].deleted THEN prior[p].last ELSE nv
      BY DEF Recalls
    <2>2. /\ p \in DOMAIN n.files
          /\ IF Live(n.files[p])
             THEN n.files[p].last = nv
                  \/ (p \in LivePaths(prior) /\ n.files[p].kind = prior[p].kind)
             ELSE n.files[p].last = IF prior[p].deleted THEN prior[p].last ELSE nv
      BY <2>1 DEF Recalls
    <2>3. p \in DOMAIN cleaned
      BY <1>9, <2>1, <2>2 DEF Firm, LivePaths
    <2>4. p \in DOMAIN f
      BY <1>10, <2>1, <2>3 DEF Firm, Orderly
    <2>5. QED
      BY <1>8, <1>11, <2>2, <2>3, <2>4 DEF Live
  <1>15. QED
    BY <1>0, <1>12, <1>13, <1>14
-----------------------------------------------------------------------------
(* What is included *)

\* Whoever includes os-core reaches no less if all others include it, too.
LEMMA ReachWithin ==
    ASSUME NEW inc, NEW inc2, NEW b, Core \in inc[b], inc2[b] \subseteq inc[b],
           \A x \in Bundle : inc2[x] \subseteq inc[x] \cup {Core}
    PROVE  Reach(inc2, b) \subseteq Reach(inc, b)
  <1>1. SUFFICES ASSUME NEW c \in Reach(inc2, b), NEW S \in SUBSET Bundle,
                        inc[b] \subseteq S, \A x \in S : inc[x] \subseteq S
                 PROVE  c \in S
    BY DEF Reach
  <1>2. inc2[b] \subseteq S /\ \A x \in S : inc2[x] \subseteq S
    BY <1>1
  <1>3. QED
    BY <1>1, <1>2 DEF Reach

\* What a bundle is compared with: an empty manifest, or one of the last release.
LEMMA PriorKept ==
    ASSUME HistoryInv, RecordsOK, pc # "idle", NEW b \in Bundle
    PROVE  /\ Orderly(Prior(b).files) /\ IsManifest(Prior(b))
           /\ b = Core => Prior(b).includes = {}
           /\ \/ Prior(b).files = <<>> /\ Prior(b).includes = {}
              \/ /\ lastVer \in published /\ b \in Listed(lastVer)
                 /\ OldMoM = wwwMoM[lastVer] /\ InForce(lastVer, b) = Prior(b)
  <1> DEFINE s == SubVersion(OldMoM, b)
  <1>1. IsManifest(Prior(b))
    BY PriorCases DEF HistoryInv
  <1>2. CASE s = 0
    <2>1. OldFile(b) = Absent
      BY <1>2, ReadBundle DEF HistoryInv
    <2>2. Prior(b).files = <<>> /\ Prior(b).includes = {}
      BY <2>1 DEF Prior, FromFile, NewManifest
    <2>3. QED
      BY <1>1, <2>2 DEF Orderly
  <1>3. CASE s # 0
    <2>1. /\ lastVer \in published /\ b \in Listed(lastVer)
          /\ OldMoM = wwwMoM[lastVer] /\ InForce(lastVer, b) = Prior(b)
      BY <1>3, PriorCases DEF HistoryInv
    <2>2. Orderly(Prior(b).files) /\ (b = Core => Prior(b).includes = {})
      BY <2>1 DEF RecordsOK, ListsKept
    <2>3. QED
      BY <1>1, <2>1, <2>2
  <1>4. QED
    BY <1>2, <1>3

\* Nothing that was in force is subtracted from the old manifest, whatever has
\* become of those it includes: what they have left is part of what was in force,
\* and the last release listed nothing twice.
LEMMA NothingLost ==
    ASSUME HistoryInv, RecordsOK, pc # "idle", NEW b \in Bundle \ {Core}, oldM[b] = Prior(b),
           \A c \in Bundle : /\ Part(oldM[c].files, Prior(c).files)
                             /\ oldM[c].includes \subseteq Prior(c).includes \cup {Core},
           oldM[Core].includes = {}, NEW p \in DOMAIN Prior(b).files,
           Firm(Prior(b).files, p)
    PROVE  p \in DOMAIN SubtractIncludes(oldM[b].files, oldM, b)
  <1> DEFINE inc == Includes(oldM, b)
             all == IncludesIn(lastVer)
  <1>1. Core \in Bundle
    BY UpdateAssumption
  <1>2. /\ lastVer \in published /\ b \in Listed(lastVer)
        /\ InForce(lastVer, b) = Prior(b) /\ Orderly(Prior(b).files)
    BY PriorKept
  <1>3. Reach(inc, b) \subseteq Reach(all, b)
    <2>1. ASSUME NEW x \in Bundle
          PROVE  inc[x] \subseteq all[x] \cup {Core}
      <3>1. inc[x] \subseteq oldM[x].includes \cup {Core}
        BY DEF Includes
      <3>2. Prior(x).includes \subseteq all[x]
        BY PriorKept DEF IncludesIn
      <3>3. QED
        BY <3>1, <3>2
    <2>2. Core \in all[b]
      BY <1>2 DEF IncludesIn
    <2>3. inc[b] \subseteq all[b]
      BY <2>1, <2>2
    <2> HIDE DEF inc, all
    <2>4. QED
      BY <2>1, <2>2, <2>3, ReachWithin
  <1>4. ASSUME NEW c \in Reach(inc, b), p \in DOMAIN oldM[c].files,
               Covers(oldM[b].files[p], oldM[c].files[p])
        PROVE  FALSE
    <2>1. c \in Bundle
      BY DEF Reach
    <2>2. p \in DOMAIN Prior(c).files /\ oldM[c].files[p] = Prior(c).files[p]
      BY <1>4, <2>1 DEF Part
    <2>3. c \in Listed(lastVer) /\ InForce(lastVer, c) = Prior(c) /\ Orderly(Prior(c).files)
      BY <2>1, <2>2, PriorKept
    <2>4. Apart(Prior(b).files, Prior(c).files)
      BY <1>2, <1>3, <2>3 DEF RecordsOK, ListsKept, NothingTwice
    <2>5. p \in LivePaths(Prior(b).files) \cap LivePaths(Prior(c).files)
      BY <1>2, <1>4, <2>2, <2>3 DEF Covers, Orderly, Firm, LivePaths, Live
    <2>6. QED
      BY <1>4, <2>2, <2>4, <2>5 DEF Apart, Covers
  <1> HIDE DEF inc
  <1>5. QED
    BY <1>4 DEF SubtractIncludes, Subtracted, Restrict, inc

\* What is live after the subtraction is live in no included list.
LEMMA SubtractedApart ==
    ASSUME NEW f, NEW ms, NEW b, NEW c \in Reach(Includes(ms, b), b), NEW g,
           Trims(g, SubtractIncludes(f, ms, b))
    PROVE  Apart(g, ms[c].files)
  <1>1. SUFFICES ASSUME NEW p \in LivePaths(g) \cap LivePaths(ms[c].files), Firm(g, p)
                 PROVE  (g[p].kind = "F") # (ms[c].files[p].kind = "F")
    BY DEF Apart
  <1>2. /\ p \in LivePaths(SubtractIncludes(f, ms, b))
        /\ g[p].kind = SubtractIncludes(f, ms, b)[p].kind
    BY <1>1 DEF Trims
  <1>3. /\ p \in DOMAIN f /\ SubtractIncludes(f, ms, b)[p] = f[p]
        /\ ~(p \in DOMAIN ms[c].files /\ Covers(f[p], ms[c].files[p]))
    BY <1>2 DEF SubtractIncludes, Subtracted, Restrict, LivePaths
  <1>4. ~f[p].deleted /\ p \in DOMAIN ms[c].files /\ ~ms[c].files[p].deleted
    BY <1>1, <1>2, <1>3 DEF LivePaths, Live
  <1>5. QED
    BY <1>2, <1>3, <1>4 DEF Covers
-----------------------------------------------------------------------------
(* What the steps have in common *)

\* The releases are what they were.
LEMMA SameRecords ==
    ASSUME IntactInv, RecordsOK, UNCHANGED published,
           \A v \in published : /\ wwwMoM'[v] = wwwMoM[v]
                                /\ \A b \in Listed(v) : InForce(v, b)' = InForce(v, b)
    PROVE  RecordsOK'
  <1>1. \A v \in published :
           Listed(v)' = Listed(v) /\ IncludesIn(v)' = IncludesIn(v)
    BY DEF Listed, IncludesIn
  <1>2. ListsKept'
    <2>1. \A v \in published : NothingTwice(v)'
      BY <1>1 DEF RecordsOK, ListsKept, NothingTwice
    <2>2. QED
      BY <1>1, <2>1 DEF RecordsOK, ListsKept
  <1>3. FormatsGrow'
    BY DEF RecordsOK, FormatsGrow
  <1>4. DeletionsRecorded'
    <2>1. \A v1, v2 : Between(v1, v2)' = Between(v1, v2)
      BY DEF Between
    <2>2. \A v1, v2 \in published : v1 < v2 => v1 \in Between(v1, v2) /\ v2 \in Between(v1, v2)
      <3>1. published \subseteq Int
        BY PathAssumption DEF IntactInv, TypeInv, TypeOK, DiskTypeOK, Version
      <3>2. QED
        BY <3>1 DEF Between
    <2>3. \A v1, v2 : Between(v1, v2) \subseteq published
      BY DEF Between
    <2>4. SUFFICES ASSUME NEW v1 \in published, NEW v2 \in published, v1 < v2,
                          wwwMoM[v1].format = wwwMoM[v2].format, NEW b \in Bundle,
                          \A v \in Between(v1, v2) : b \in Listed(v),
                          NEW p \in LivePaths(InForce(v1, b).files) \ (BootPaths \cup DebugPaths),
                          p \notin LivePaths(InForce(v2, b).files)
                   PROVE  p \in DOMAIN InForce(v2, b).files /\ InForce(v2, b).files[p].last > v1
      <3>1. \A v1, v2 \in published : \A b \in Bundle :
               v1 < v2 /\ (\A v \in Between(v1, v2) : b \in Listed(v))
                 => InForce(v1, b)' = InForce(v1, b) /\ InForce(v2, b)' = InForce(v2, b)
        BY <2>2
      <3>2. QED
        BY <1>1, <2>1, <2>3, <3>1 DEF DeletionsRecorded
    <2>5. QED
      BY <2>4 DEF RecordsOK, DeletionsRecorded
  <1>5. QED
    BY <1>2, <1>3, <1>4 DEF RecordsOK

\* A step of a run that goes on.
Keeping == Continues /\ HistoryInv' /\ RecordsOK /\ MemoryKept /\ StagesKept

LEMMA KeptRun ==
    ASSUME Keeping
    PROVE  /\ HistoryInv /\ TypeInv /\ pc # "idle" /\ nv' = nv /\ Run' = Run /\ Groups' = Groups
           /\ Groups \subseteq Bundle /\ Core \in Groups /\ RecordsOK'
           /\ \A b \in Bundle : /\ Prior(b)' = Prior(b)
                                /\ IsManifest(oldM[b]) /\ IsManifest(newM[b])
           /\ oldM = [b \in Bundle |-> oldM[b]] /\ newM = [b \in Bundle |-> newM[b]]
  <1>1. HistoryInv /\ TypeInv /\ IntactInv /\ pc # "idle"
    BY DEF Keeping, Continues, HistoryInv, IntactInv
  <1>2. /\ nv' = nv /\ Run' = Run /\ Groups' = Groups
        /\ \A b \in Bundle : Prior(b)' = Prior(b)
        /\ \A v \in published : \A b \in Listed(v) : InForce(v, b)' = InForce(v, b)
    BY SameRunHistory DEF Keeping, Continues
  <1>3. \A v \in published : wwwMoM'[v] = wwwMoM[v]
    BY <1>1, PublishedStep DEF Keeping, Continues
  <1>4. RecordsOK'
    BY <1>1, <1>2, <1>3, SameRecords DEF Keeping, Continues
  <1>5. QED
    BY <1>1, <1>2, <1>4, RunType DEF TypeInv, TypeOK, RunTypeOK

\* A step to a place where the run has compared nothing yet, or has stopped.
LEMMA QuietKept ==
    ASSUME HistoryInv', RecordsOK', pc' \in {"idle", "chroot", "full", "failed"},
           pc' # "failed" => \A b \in Bundle : oldM'[b] = NoManifest /\ newM'[b] = NoManifest
    PROVE  DeletionInv'
  <1>1. Finished' = {}
    BY DEF Finished
  <1>2. MemoryKept' /\ StagesKept'
    BY <1>1 DEF MemoryKept, StagesKept, Comparing, Written, InLoop, Through, Compares
  <1>3. QED
    BY <1>2 DEF DeletionInv

\* A bundle no step touches stays where it is.
LEMMA SameStageKept ==
    ASSUME Keeping, NEW b \in Bundle, newM'[b] = newM[b]
    PROVE  /\ ReadyKept(b) => ReadyKept(b)'
           /\ FinalKept(b) /\ www'[nv][b] = www[nv][b] => FinalKept(b)'
  <1>1. nv' = nv /\ Run' = Run /\ Prior(b)' = Prior(b)
    BY KeptRun
  <1>2. ReadyKept(b) => ReadyKept(b)'
    BY <1>1 DEF ReadyKept
  <1>3. FinalKept(b) /\ www'[nv][b] = www[nv][b] => FinalKept(b)'
    BY <1>1, <1>2 DEF FinalKept
  <1>4. QED
    BY <1>2, <1>3

\* Lists that only lose what is live stay apart.
LEMMA SeparatedStep ==
    ASSUME \A b \in Bundle :
              /\ newM'[b].includes \cup {Core} = newM[b].includes \cup {Core}
              /\ b = Core => newM'[b].includes = newM[b].includes
              /\ Trims(newM'[b].files, newM[b].files),
           NEW b \in Bundle, Separated(b)
    PROVE  Separated(b)'
  <1>1. AllIncludes(newM)' = AllIncludes(newM)
    BY DEF AllIncludes
  <1>2. Reach(AllIncludes(newM), b) \subseteq Bundle
    BY DEF Reach
  <1>3. \A c \in Reach(AllIncludes(newM), b) : Apart(newM'[b].files, newM'[c].files)
    BY <1>2, TrimsApart DEF Separated
  <1>4. Reach(AllIncludes(newM), b)' = Reach(AllIncludes(newM), b)
    BY <1>1 DEF Reach
  <1>5. QED
    BY <1>3, <1>4 DEF Separated

\* The part of memory the comparison goes on with.
LEMMA MemoryKeptStep ==
    ASSUME Keeping, pc' \notin {"idle", "chroot", "full", "core"}, newM'[Core].includes = {},
           Comparing' =>
              /\ oldM'[Core].includes = {}
              /\ \A b \in Bundle : /\ Part(oldM'[b].files, Prior(b).files)
                                   /\ oldM'[b].includes \subseteq Prior(b).includes \cup {Core}
    PROVE  MemoryKept'
  BY KeptRun DEF MemoryKept
-----------------------------------------------------------------------------
(* The steps *)

LEMMA CreateFullManifestKept ==
    ASSUME Keeping, CreateFullManifest
    PROVE  DeletionInv'
  <1>1. pc = "full" /\ pc' = "core" /\ UNCHANGED <<oldM, newM>>
    BY DEF CreateFullManifest
  <1>2. HistoryInv' /\ RecordsOK' /\ Core \in Bundle
    BY KeptRun, UpdateAssumption DEF Keeping
  <1>3. \A b \in Bundle : oldM'[b] = NoManifest /\ newM'[b] = NoManifest
    BY <1>1 DEF Keeping, MemoryKept
  <1>4. MemoryKept'
    BY <1>2, <1>3 DEF MemoryKept, NoManifest, Part
  <1>5. Finished' = {}
    BY <1>1 DEF Finished
  <1>6. StagesKept'
    BY <1>1, <1>5 DEF StagesKept, Written, Through, Compares
  <1>7. QED
    BY <1>2, <1>4, <1>6 DEF DeletionInv

\* Phase 2: os-core.
LEMMA MatchCoreKept ==
    ASSUME Keeping, MatchCore
    PROVE  DeletionInv'
  <1> DEFINE old == Prior(Core)
             raw == AddHashes(FromDirectory(Run.img[Core], nv, Run.ban), newFull.files)
             f   == Matched(old.files, raw, nv, Run.minversion)
  <1>1. /\ pc = "core" /\ pc' = "coreMatched"
        /\ oldM' = [oldM EXCEPT ![Core] = old]
        /\ newM' = [newM EXCEPT ![Core] = NewManifest(nv, old.version, {}, f)]
        /\ changed' = (ChangedPaths(old.files, raw, Run.minversion) # {})
    BY DEF MatchCore, Prior
  <1>2. /\ HistoryInv /\ TypeInv /\ pc # "idle" /\ Core \in Bundle /\ nv' = nv
        /\ HistoryInv' /\ RecordsOK' /\ RecordsOK /\ Prior(Core)' = Prior(Core)
    BY KeptRun, UpdateAssumption DEF Keeping
  <1>3. Orderly(old.files) /\ IsManifest(old) /\ old.includes = {}
    BY <1>2, PriorKept
  <1> HIDE DEF old
  <1>4. IsFileList(old.files) /\ IsFileList(raw) /\ RawList(raw, nv)
    <2>1. Run.img[Core] \in Image /\ nv \in 0..MaxVersion
      BY <1>2, RunType
    <2>2. IsFileList(FromDirectory(Run.img[Core], nv, Run.ban))
      BY <2>1, HashedType
    <2>3. IsFileList(newFull.files)
      BY <1>2, ManifestType DEF TypeInv, TypeOK, RunTypeOK
    <2>4. QED
      BY <1>3, <2>1, <2>2, <2>3, ManifestType, AddHashesType, RawHistory
  <1> HIDE DEF raw
  <1>5. /\ Knows(f, old.files) /\ Recalls(f, old.files, nv, FALSE)
        /\ ChangedPaths(old.files, raw, Run.minversion) = {} => Trims(old.files, f)
    <2>1. Part(old.files, old.files)
      BY DEF Part
    <2>2. QED
      BY <1>3, <1>4, <2>1, MatchedKeeps
  <1> HIDE DEF f
  <1>6. oldM'[Core] = old /\ newM'[Core] = NewManifest(nv, old.version, {}, f)
        /\ \A b \in Bundle \ {Core} : oldM'[b] = oldM[b]
    BY <1>1, <1>2, KeptRun
  <1>7. newM'[Core].files = f /\ newM'[Core].includes = {}
    BY <1>6 DEF NewManifest
  <1>8. MatchedKept(Core)'
    BY <1>1, <1>2, <1>5, <1>7 DEF MatchedKept, old
  <1>9. Finished' = {}
    BY <1>1 DEF Finished
  <1>10. StagesKept'
    BY <1>1, <1>8, <1>9 DEF StagesKept, Written, Through, Compares
  <1>11. MemoryKept'
    <2>1. \A b \in Bundle \ {Core} : oldM'[b] = NoManifest
      BY <1>1, <1>6 DEF Keeping, MemoryKept
    <2>2. \A b \in Bundle : /\ Part(oldM'[b].files, Prior(b).files)
                            /\ oldM'[b].includes \subseteq Prior(b).includes \cup {Core}
      BY <1>3, <1>6, <2>1 DEF old, Part, NoManifest
    <2>3. QED
      BY <1>1, <1>3, <1>6, <1>7, <2>2, MemoryKeptStep
  <1>12. QED
    BY <1>2, <1>10, <1>11 DEF DeletionInv

\* A manifest whose version is set back, or whose files are completed.
LEMMA FieldSet ==
    ASSUME Keeping, NEW c \in Bundle, NEW f, NEW v
    PROVE  /\ newM' = [newM EXCEPT ![c].files = f, ![c].version = v]
                => /\ newM'[c].files = f /\ newM'[c].version = v
                   /\ newM'[c].includes = newM[c].includes
                   /\ \A b \in Bundle \ {c} : newM'[b] = newM[b]
           /\ newM' = [newM EXCEPT ![c].version = v]
                => /\ newM'[c].files = newM[c].files /\ newM'[c].version = v
                   /\ newM'[c].includes = newM[c].includes
                   /\ \A b \in Bundle \ {c} : newM'[b] = newM[b]
           /\ newM' = [newM EXCEPT ![c].files = f]
                => /\ newM'[c].files = f /\ newM'[c].version = newM[c].version
                   /\ newM'[c].includes = newM[c].includes
                   /\ \A b \in Bundle \ {c} : newM'[b] = newM[b]
  <1>1. IsManifest(newM[c]) /\ newM = [b \in Bundle |-> newM[b]]
    BY KeptRun
  <1>2. ASSUME newM' = [newM EXCEPT ![c].files = f, ![c].version = v]
        PROVE  newM'[c] = [newM[c] EXCEPT !.files = f, !.version = v]
               /\ \A b \in Bundle \ {c} : newM'[b] = newM[b]
    BY <1>1, <1>2
  <1>3. ASSUME newM' = [newM EXCEPT ![c].version = v]
        PROVE  newM'[c] = [newM[c] EXCEPT !.version = v]
               /\ \A b \in Bundle \ {c} : newM'[b] = newM[b]
    BY <1>1, <1>3
  <1>4. ASSUME newM' = [newM EXCEPT ![c].files = f]
        PROVE  newM'[c] = [newM[c] EXCEPT !.files = f]
               /\ \A b \in Bundle \ {c} : newM'[b] = newM[b]
    BY <1>1, <1>4
  <1>5. QED
    BY <1>1, <1>2, <1>3, <1>4 DEF IsManifest

\* A step to os-core's end: no other bundle has been compared.
LEMMA CoreFinalKept ==
    ASSUME Keeping, Comparing, pc' = "load", UNCHANGED oldM, newM'[Core].includes = {},
           FinalKept(Core)'
    PROVE  DeletionInv'
  <1>1. HistoryInv' /\ RecordsOK'
    BY KeptRun DEF Keeping
  <1>2. Finished' = {Core}
    BY DEF Finished
  <1>3. StagesKept'
    BY <1>2 DEF StagesKept, Written, Through, Compares
  <1>4. MemoryKept'
    BY MemoryKeptStep DEF Keeping, MemoryKept
  <1>5. QED
    BY <1>1, <1>3, <1>4 DEF DeletionInv

LEMMA CoreUnchangedKept ==
    ASSUME Keeping, CoreUnchanged
    PROVE  DeletionInv'
  <1>1. /\ pc = "coreMatched" /\ pc' = "load" /\ ~changed /\ UNCHANGED oldM
        /\ newM' = [newM EXCEPT ![Core].version = oldM[Core].version]
    BY DEF CoreUnchanged
  <1>2. Core \in Bundle /\ nv' = nv /\ Prior(Core)' = Prior(Core) /\ Comparing
    BY <1>1, KeptRun, UpdateAssumption DEF Comparing
  <1>3. /\ newM'[Core].files = newM[Core].files /\ newM'[Core].version = oldM[Core].version
        /\ newM'[Core].includes = newM[Core].includes
    BY <1>1, <1>2, FieldSet
  <1>4. oldM[Core].version = Prior(Core).version
    BY <1>1 DEF Keeping, Continues, HistoryInv, StagesOK, MatchedWell
  <1>5. Trims(Prior(Core).files, newM[Core].files)
    BY <1>1 DEF Keeping, StagesKept, MatchedKept
  <1>6. FinalKept(Core)'
    BY <1>2, <1>3, <1>4, <1>5 DEF FinalKept
  <1>7. newM'[Core].includes = {}
    BY <1>2, <1>3 DEF Keeping, MemoryKept
  <1>8. QED
    BY <1>1, <1>2, <1>6, <1>7, CoreFinalKept

\* The list a matched bundle is completed to.
LEMMA CompletedKept ==
    ASSUME Keeping, NEW b \in Bundle, MatchedWell(b), MatchedKept(b),
           NEW m \in MatchingsOf(b), NEW f, f = Completed(oldM[b], newM[b], m)
    PROVE  /\ Orderly(f) /\ Trims(f, newM[b].files)
           /\ Recalls(f, Prior(b).files, nv, Prior(b).format < Run.format)
  <1>1. IsManifest(oldM[b]) /\ IsManifest(newM[b])
    BY KeptRun
  <1>2. m \in RenameMatchings(oldM[b].files, newM[b].files, nv)
    BY DEF MatchingsOf
  <1>3. Part(oldM[b].files, Prior(b).files) /\ oldM[b].format = Prior(b).format
    BY DEF MatchedWell
  <1>4. Orderly(Prior(b).files)
    BY KeptRun, PriorKept DEF Keeping
  <1>5. Knows(newM[b].files, Prior(b).files) /\ Recalls(newM[b].files, Prior(b).files, nv, FALSE)
    BY DEF MatchedKept
  <1>6. Run.ban => Bans
    <2>1. nv \in Version /\ Run \in plan[nv] /\ plan \in Inputs
      BY KeptRun DEF TypeInv, TypeOK, DiskTypeOK, StepOK
    <2>2. QED
      BY <2>1 DEF Bans
  <1>7. QED
    BY <1>1, <1>2, <1>3, <1>4, <1>5, <1>6, CompletedKeeps

LEMMA CoreChangedKept ==
    ASSUME Keeping, CoreChanged
    PROVE  DeletionInv'
  <1>1. pc = "coreMatched" /\ pc' \in {"failed", "writeCore"} /\ UNCHANGED oldM
    BY Zenon DEF CoreChanged
  <1>2. /\ Core \in Bundle /\ nv' = nv /\ Run' = Run /\ Prior(Core)' = Prior(Core) /\ Comparing
        /\ HistoryInv' /\ RecordsOK'
    BY <1>1, KeptRun, UpdateAssumption DEF Comparing, Keeping
  <1>3. CASE pc' = "failed"
    BY <1>2, <1>3, QuietKept
  <1>4. CASE pc' = "writeCore"
    <2>1. PICK m \in MatchingsOf(Core) :
             newM' = [newM EXCEPT ![Core].files = Completed(oldM[Core], newM[Core], m)]
      BY DEF CoreChanged
    <2>2. PICK f : f = Completed(oldM[Core], newM[Core], m)
      OBVIOUS
    <2>3. newM'[Core].files = f /\ newM'[Core].includes = newM[Core].includes
      BY <1>2, <2>1, <2>2, FieldSet
    <2>4. MatchedWell(Core) /\ MatchedKept(Core)
      BY <1>1 DEF Keeping, Continues, HistoryInv, StagesOK, StagesKept
    <2>5. Orderly(f) /\ Recalls(f, Prior(Core).files, nv, Prior(Core).format < Run.format)
      BY <1>2, <2>2, <2>4, CompletedKept
    <2>6. ReadyKept(Core)'
      BY <1>2, <2>3, <2>5 DEF ReadyKept
    <2>7. Finished' = {}
      BY <1>4 DEF Finished
    <2>8. StagesKept'
      BY <1>4, <2>6, <2>7 DEF StagesKept, Written, Through, Compares
    <2>9. newM'[Core].includes = {}
      BY <1>2, <2>3 DEF Keeping, MemoryKept
    <2>10. MemoryKept'
      BY <1>1, <1>2, <1>4, <2>9, MemoryKeptStep DEF Keeping, MemoryKept
    <2>11. QED
      BY <1>2, <2>8, <2>10 DEF DeletionInv
  <1>5. QED
    BY <1>1, <1>3, <1>4

LEMMA WriteCoreKept ==
    ASSUME Keeping, WriteCore
    PROVE  DeletionInv'
  <1>1. /\ pc = "writeCore" /\ pc' = "load" /\ UNCHANGED <<oldM, newM>>
        /\ www' = [www EXCEPT ![nv][Core] = newM[Core]]
    BY DEF WriteCore
  <1>2. /\ Core \in Bundle /\ nv' = nv /\ Run' = Run /\ Prior(Core)' = Prior(Core) /\ Comparing
        /\ TypeInv /\ pc # "idle"
    BY <1>1, KeptRun, UpdateAssumption DEF Comparing
  <1>3. www'[nv][Core] = newM[Core]
    BY <1>1, <1>2, RunType DEF TypeInv, TypeOK, DiskTypeOK
  <1>4. newM[Core].version = nv /\ ReadyKept(Core)
    BY <1>1 DEF Keeping, Continues, HistoryInv, StagesOK, Ready, StagesKept
  <1>5. ReadyKept(Core)'
    BY <1>1, <1>2, <1>4 DEF ReadyKept
  <1>6. FinalKept(Core)'
    BY <1>1, <1>2, <1>3, <1>4, <1>5 DEF FinalKept
  <1>7. newM'[Core].includes = {}
    BY <1>1, <1>2 DEF Keeping, MemoryKept
  <1>8. QED
    BY <1>1, <1>2, <1>6, <1>7, CoreFinalKept

\* Phase 3: what is in force is read for every group.
LEMMA LoadBundlesKept ==
    ASSUME Keeping, LoadBundles
    PROVE  DeletionInv'
  <1>1. /\ pc = "load" /\ pc' = "bundle" /\ gi' = 1 /\ UNCHANGED disk
        /\ oldM' = [b \in Bundle |-> IF b \in Groups \ {Core} THEN Prior(b) ELSE oldM[b]]
        /\ newM' = [b \in Bundle |->
              IF b \in Groups \ {Core}
              THEN NewManifest(nv, 0, Run.inc[b], FromDirectory(Run.img[b], nv, Run.ban))
              ELSE newM[b]]
    BY DEF LoadBundles, Prior
  <1>2. HistoryInv' /\ RecordsOK' /\ Core \in Bundle /\ Comparing
    BY <1>1, KeptRun, UpdateAssumption DEF Keeping, Comparing
  <1>3. newM'[Core] = newM[Core] /\ oldM'[Core] = oldM[Core] /\ www' = www
    BY <1>1, <1>2 DEF disk
  <1>4. Finished = {Core} /\ Finished' = {Core}
    BY <1>1 DEF Finished
  <1>5. FinalKept(Core)'
    <2>1. FinalKept(Core)
      BY <1>1, <1>4 DEF Keeping, StagesKept, Through, Written
    <2>2. QED
      BY <1>2, <1>3, <2>1, SameStageKept
  <1>6. StagesKept'
    BY <1>1, <1>4, <1>5 DEF StagesKept, Written, Through, Compares
  <1>7. \A b \in Bundle : oldM'[b] = Prior(b) \/ oldM'[b] = oldM[b]
    BY <1>1
  <1>8. \A b \in Bundle : /\ Part(oldM'[b].files, Prior(b).files)
                          /\ oldM'[b].includes \subseteq Prior(b).includes \cup {Core}
    BY <1>2, <1>7 DEF Keeping, MemoryKept, Part
  <1>9. MemoryKept'
    BY <1>1, <1>2, <1>3, <1>8, MemoryKeptStep DEF Keeping, MemoryKept
  <1>10. QED
    BY <1>2, <1>6, <1>9 DEF DeletionInv

\* A step of the bundle loop that goes on with the next bundle.
LEMMA NextKept ==
    ASSUME Keeping, InLoop, gi' = gi + 1, pc' = AfterBundle, UNCHANGED oldM,
           NEW c \in Bundle, c = Current, c = Core \/ pc # "bundle", FinalKept(c)',
           newM'[c].includes = newM[c].includes, Trims(newM'[c].files, newM[c].files),
           \A b \in Bundle \ {c} : newM'[b] = newM[b] /\ www'[nv][b] = www[nv][b]
    PROVE  DeletionInv'
  <1>1. /\ HistoryInv' /\ RecordsOK' /\ TypeInv /\ Run' = Run /\ Groups' = Groups
        /\ Core \in Bundle /\ Comparing
    BY KeptRun, UpdateAssumption DEF Keeping, Comparing
  <1>2. /\ Finished' \subseteq Finished \cup {c} /\ pc' \in {"bundle", "mom"}
        /\ Finished \subseteq Bundle
    BY <1>1, CursorMoves, Cursor
  <1>3. Through' = Finished' /\ Compares' = Finished'
    BY <1>2 DEF Through, Compares, Written
  <1>4. \A b \in Finished' : FinalKept(b)'
    <2>1. \A b \in Finished \ {c} : FinalKept(b)
      BY DEF Keeping, StagesKept, Through, Written, InLoop
    <2>2. \A b \in Finished \ {c} : FinalKept(b)'
      BY <1>2, <2>1, SameStageKept
    <2>3. QED
      BY <1>2, <2>2
  <1>5. \A b \in Finished' \ {Core} : Separated(b)'
    <2>1. ASSUME NEW b \in Finished' \ {Core}
          PROVE  Separated(b) /\ b \in Bundle
      <3>1. b \in Compares
        BY <1>2 DEF Compares, InLoop
      <3>2. QED
        BY <1>2, <3>1 DEF Keeping, StagesKept
    <2>2. \A b \in Bundle : /\ newM'[b].includes = newM[b].includes
                            /\ Trims(newM'[b].files, newM[b].files)
      BY TrimsApart
    <2>3. QED
      BY <2>1, <2>2, SeparatedStep
  <1>6. StagesKept'
    BY <1>2, <1>3, <1>4, <1>5 DEF StagesKept, Written
  <1>7. newM'[Core].includes = {}
    BY <1>1 DEF Keeping, MemoryKept
  <1>8. MemoryKept'
    BY <1>1, <1>2, <1>7, MemoryKeptStep DEF Keeping, MemoryKept
  <1>9. QED
    BY <1>1, <1>6, <1>8 DEF DeletionInv

\* A step of the bundle loop that goes on with the same bundle.
LEMMA StayKept ==
    ASSUME Keeping, InLoop, pc' \in {"bundleMatched", "writeBundle"}, UNCHANGED <<gi, www>>,
           NEW c \in Bundle, c = Current, c \notin Finished,
           \A b \in Bundle \ {c} : newM'[b] = newM[b],
           pc' = "bundleMatched" => MatchedKept(c)', pc' = "writeBundle" => ReadyKept(c)',
           MemoryKept', \A b \in (Finished \cup {c}) \ {Core} : Separated(b)'
    PROVE  DeletionInv'
  <1>1. HistoryInv' /\ RecordsOK' /\ TypeInv /\ Run' = Run /\ Groups' = Groups
    BY KeptRun DEF Keeping
  <1>2. Finished' = Finished /\ Current' = c /\ Finished \subseteq Bundle
    <2>1. Finished \subseteq Bundle
      BY <1>1, Cursor
    <2>2. Current' = c
      BY <1>1 DEF Current
    <2>3. Finished' = Finished
      BY <1>1 DEF Finished, InLoop
    <2>4. QED
      BY <2>1, <2>2, <2>3
  <1>3. \A b \in Finished : FinalKept(b)'
    <2>1. \A b \in Finished : FinalKept(b) /\ b \in Bundle \ {c}
      BY <1>2 DEF Keeping, StagesKept, Through, Written, InLoop
    <2>2. QED
      BY <2>1, SameStageKept
  <1>4. Through' = Finished /\ Compares' = Finished \cup {c}
    BY <1>2 DEF Through, Compares, Written
  <1>5. StagesKept'
    BY <1>2, <1>3, <1>4 DEF StagesKept, Written
  <1>6. QED
    BY <1>1, <1>5 DEF DeletionInv

LEMMA SkipCoreKept ==
    ASSUME Keeping, SkipCore
    PROVE  DeletionInv'
  <1>1. /\ pc = "bundle" /\ Current = Core /\ gi' = gi + 1 /\ pc' = AfterBundle
        /\ UNCHANGED <<www, oldM, newM>> /\ InLoop
    BY DEF SkipCore, InLoop, disk
  <1>2. Core \in Finished /\ Core \in Bundle
    BY <1>1, KeptRun, Cursor, UpdateAssumption
  <1>3. FinalKept(Core)'
    <2>1. FinalKept(Core)
      BY <1>1, <1>2 DEF Keeping, StagesKept, Through, Written
    <2>2. QED
      BY <1>1, <1>2, <2>1, SameStageKept
  <1>4. QED
    BY <1>1, <1>2, <1>3, TrimsApart, NextKept

LEMMA BundleUnchangedKept ==
    ASSUME Keeping, BundleUnchanged
    PROVE  DeletionInv'
  <1>0. PICK c : c = Current
    OBVIOUS
  <1>1. /\ pc = "bundleMatched" /\ gi' = gi + 1 /\ pc' = AfterBundle
        /\ ~changed /\ oldM[c].includes = newM[c].includes
        /\ UNCHANGED <<www, oldM>>
        /\ newM' = [newM EXCEPT ![c].version = oldM[c].version]
    BY <1>0 DEF BundleUnchanged, KeepOldVersion, IncludesChanged, disk
  <1>2. InLoop /\ c \in Bundle /\ MatchedWell(c) /\ Prior(c)' = Prior(c) /\ nv' = nv
    BY <1>0, <1>1, KeptRun, CurrentMatched DEF Keeping
  <1>3. /\ newM'[c].files = newM[c].files /\ newM'[c].version = oldM[c].version
        /\ newM'[c].includes = newM[c].includes
        /\ \A b \in Bundle \ {c} : newM'[b] = newM[b]
    BY <1>1, <1>2, FieldSet
  <1>4. MatchedKept(c)
    BY <1>0, <1>1 DEF Keeping, StagesKept
  <1>5. FinalKept(c)'
    BY <1>1, <1>2, <1>3, <1>4 DEF FinalKept, MatchedKept, MatchedWell
  <1>6. Trims(newM'[c].files, newM[c].files)
    BY <1>3, TrimsApart
  <1>7. QED
    BY <1>0, <1>1, <1>2, <1>3, <1>5, <1>6, NextKept

\* A changed bundle is completed, and falls back to the old version if that is
\* not worth writing.
LEMMA BundleCompleted ==
    ASSUME Keeping, BundleChanged, NEW c, c = Current
    PROVE  /\ pc = "bundleMatched" /\ UNCHANGED <<disk, oldM, newFull>>
           /\ InLoop /\ c \in Bundle /\ c \notin Finished /\ MatchedWell(c) /\ MatchedKept(c)
           /\ \E m \in MatchingsOf(c) :
                 LET f     == Completed(oldM[c], newM[c], m)
                     write == WorthWriting(c, f)
                 IN  /\ gi' = IF write THEN gi ELSE gi + 1
                     /\ pc' = IF write THEN "writeBundle" ELSE AfterBundle
                     /\ ~write => /\ oldM[c].includes = newM[c].includes
                                  /\ \A p \in DOMAIN f : f[p].last # nv
                     /\ newM'[c].files = f /\ newM'[c].includes = newM[c].includes
                     /\ newM'[c].version = IF write THEN newM[c].version ELSE oldM[c].version
                     /\ \A b \in Bundle \ {c} : newM'[b] = newM[b]
  <1>1. pc = "bundleMatched" /\ UNCHANGED <<disk, oldM, newFull>>
    BY DEF BundleChanged
  <1>2. InLoop /\ c \in Bundle /\ c \notin Finished /\ MatchedWell(c) /\ MatchedKept(c)
    BY <1>1, KeptRun, CurrentMatched DEF Keeping, StagesKept
  <1>3. PICK m \in MatchingsOf(c) :
          LET files == Completed(oldM[c], newM[c], m)
              write == WorthWriting(c, files)
          IN  /\ newM' = [newM EXCEPT ![c].files = files,
                             ![c].version = IF write THEN @ ELSE oldM[c].version]
              /\ gi' = IF write THEN gi ELSE gi + 1
              /\ pc' = IF write THEN "writeBundle" ELSE AfterBundle
    BY DEF BundleChanged
  <1> DEFINE f     == Completed(oldM[c], newM[c], m)
             write == WorthWriting(c, f)
  <1>4. ~write => oldM[c].includes = newM[c].includes /\ \A p \in DOMAIN f : f[p].last # nv
    BY DEF WorthWriting, IncludesChanged, NewFiles
  <1>5. gi' = (IF write THEN gi ELSE gi + 1)
        /\ pc' = (IF write THEN "writeBundle" ELSE AfterBundle)
    BY <1>3
  <1>6. newM' = [newM EXCEPT ![c].files = f,
                             ![c].version = IF write THEN @ ELSE oldM[c].version]
    BY <1>3
  <1> HIDE DEF f, write
  <1>7. IsManifest(newM[c]) /\ newM = [b \in Bundle |-> newM[b]]
    BY <1>2, KeptRun
  <1>8. /\ newM'[c] = [newM[c] EXCEPT !.files = f,
                          !.version = IF write THEN newM[c].version ELSE oldM[c].version]
        /\ \A b \in Bundle \ {c} : newM'[b] = newM[b]
    BY <1>2, <1>6, <1>7 DEF IsManifest
  <1>9. /\ newM'[c].files = f /\ newM'[c].includes = newM[c].includes
        /\ newM'[c].version = IF write THEN newM[c].version ELSE oldM[c].version
    BY <1>7, <1>8 DEF IsManifest
  <1>10. QED
    BY <1>1, <1>2, <1>4, <1>5, <1>8, <1>9 DEF f, write

\* A changed bundle that is not worth writing has all that it had.
LEMMA BundleChangedKept ==
    ASSUME Keeping, BundleChanged
    PROVE  DeletionInv'
  <1>0. PICK c : c = Current
    OBVIOUS
  <1>1. pc = "bundleMatched" /\ UNCHANGED <<disk, oldM>>
    BY <1>0, BundleCompleted
  <1>2. /\ InLoop /\ c \in Bundle /\ c \notin Finished /\ MatchedWell(c)
        /\ Prior(c)' = Prior(c) /\ nv' = nv /\ Run' = Run
        /\ TypeInv /\ Core \in Finished /\ Finished \subseteq Bundle /\ Core \in Bundle
    BY <1>0, KeptRun, BundleCompleted, Cursor, UpdateAssumption
  <1>3. PICK m \in MatchingsOf(c) :
          LET f     == Completed(oldM[c], newM[c], m)
              write == WorthWriting(c, f)
          IN  /\ gi' = IF write THEN gi ELSE gi + 1
              /\ pc' = IF write THEN "writeBundle" ELSE AfterBundle
              /\ ~write => /\ oldM[c].includes = newM[c].includes
                           /\ \A p \in DOMAIN f : f[p].last # nv
              /\ newM'[c].files = f /\ newM'[c].includes = newM[c].includes
              /\ newM'[c].version = IF write THEN newM[c].version ELSE oldM[c].version
              /\ \A b \in Bundle \ {c} : newM'[b] = newM[b]
    BY <1>0, BundleCompleted
  <1>4. PICK f : f = Completed(oldM[c], newM[c], m)
    OBVIOUS
  <1> DEFINE write == WorthWriting(c, f)
  <1>5. write \in BOOLEAN
    BY DEF WorthWriting, IncludesChanged
  <1>6. /\ gi' = IF write THEN gi ELSE gi + 1
        /\ pc' = IF write THEN "writeBundle" ELSE AfterBundle
    BY <1>3, <1>4
  <1>7. ~write => oldM[c].includes = newM[c].includes /\ \A p \in DOMAIN f : f[p].last # nv
    BY <1>3, <1>4
  <1>8. /\ newM'[c].files = f /\ newM'[c].includes = newM[c].includes
        /\ newM'[c].version = IF write THEN newM[c].version ELSE oldM[c].version
        /\ \A b \in Bundle \ {c} : newM'[b] = newM[b]
    BY <1>3, <1>4
  <1> HIDE DEF write
  <1>9. MatchedKept(c)
    BY <1>0, <1>1 DEF Keeping, StagesKept
  <1>10. /\ Orderly(f) /\ Trims(f, newM[c].files)
         /\ Recalls(f, Prior(c).files, nv, Prior(c).format < Run.format)
    BY <1>2, <1>4, <1>9, CompletedKept
  <1>11. CASE write
    <2>1. gi' = gi /\ pc' = "writeBundle"
      BY <1>6, <1>11
    <2>2. ReadyKept(c)'
      BY <1>2, <1>8, <1>10 DEF ReadyKept
    <2>3. newM'[Core].includes = {}
      BY <1>2, <1>8 DEF Keeping, MemoryKept, Comparing
    <2>4. MemoryKept'
      BY <1>1, <1>2, <2>1, <2>3, MemoryKeptStep DEF Keeping, MemoryKept, Comparing
    <2>5. \A b \in (Finished \cup {c}) \ {Core} : Separated(b) /\ b \in Bundle
      BY <1>0, <1>1, <1>2 DEF Keeping, StagesKept, Compares
    <2>6. \A b \in Bundle : /\ newM'[b].includes = newM[b].includes
                            /\ Trims(newM'[b].files, newM[b].files)
      BY <1>8, <1>10, TrimsApart
    <2>7. \A b \in (Finished \cup {c}) \ {Core} : Separated(b)'
      BY <2>5, <2>6, SeparatedStep
    <2>8. QED
      BY <1>0, <1>1, <1>2, <1>8, <2>1, <2>2, <2>4, <2>7, StayKept DEF disk
  <1>12. CASE ~write
    <2>1. gi' = gi + 1 /\ pc' = AfterBundle
      BY <1>6, <1>12
    <2>2. Trims(Prior(c).files, f)
      BY <1>7, <1>10, <1>12, RecallsTrims
    <2>3. FinalKept(c)'
      BY <1>2, <1>7, <1>8, <1>9, <1>12, <2>2 DEF FinalKept, MatchedKept, MatchedWell
    <2>4. Trims(newM'[c].files, newM[c].files)
      BY <1>8, <1>10
    <2>5. QED
      BY <1>0, <1>1, <1>2, <1>8, <2>1, <2>3, <2>4, NextKept DEF disk
  <1>13. QED
    BY <1>5, <1>11, <1>12

LEMMA WriteBundleKept ==
    ASSUME Keeping, WriteBundle
    PROVE  DeletionInv'
  <1>0. PICK c : c = Current
    OBVIOUS
  <1>1. /\ pc = "writeBundle" /\ gi' = gi + 1 /\ pc' = AfterBundle /\ InLoop
        /\ UNCHANGED <<oldM, newM>>
        /\ www' = [www EXCEPT ![nv][c] = newM[c]]
    BY <1>0 DEF WriteBundle, InLoop
  <1>2. /\ HistoryInv /\ TypeInv /\ nv \in 0..MaxVersion /\ nv' = nv /\ Run' = Run
    BY <1>1, KeptRun, RunType
  <1>3. c \in Bundle /\ Ready(c) /\ ReadyKept(c) /\ Prior(c)' = Prior(c)
    BY <1>0, <1>1, <1>2, KeptRun, Cursor DEF HistoryInv, StagesOK, Keeping, StagesKept
  <1>4. \A b \in Bundle : www'[nv][b] = IF b = c THEN newM[c] ELSE www[nv][b]
    <2>1. www = [x \in 0..MaxVersion |-> [b \in Bundle |-> www[x][b]]]
      BY <1>2 DEF TypeInv, TypeOK, DiskTypeOK
    <2>2. www' = [x \in 0..MaxVersion |-> [b \in Bundle |->
                    IF x = nv /\ b = c THEN newM[c] ELSE www[x][b]]]
      BY <1>1, <1>2, <2>1
    <2>3. QED
      BY <1>2, <2>2
  <1>5. ReadyKept(c)'
    BY <1>1, <1>2, <1>3 DEF ReadyKept
  <1>6. FinalKept(c)'
    BY <1>1, <1>2, <1>3, <1>4, <1>5 DEF FinalKept, Ready
  <1>7. QED
    BY <1>0, <1>1, <1>3, <1>4, <1>6, TrimsApart, NextKept

\* Hashing and subtracting take what is live from a list, and that is all.
LEMMA RawTrims ==
    ASSUME NEW f, IsFileList(f), NEW full, NEW ms, NEW b
    PROVE  Trims(SubtractIncludes(AddHashes(f, full), ms, b), f)
  <1> DEFINE g == SubtractIncludes(AddHashes(f, full), ms, b)
  <1>1. SUFFICES ASSUME NEW p \in LivePaths(g)
                 PROVE  p \in LivePaths(f) /\ g[p].kind = f[p].kind
    BY DEF Trims
  <1>2. p \in DOMAIN AddHashes(f, full) /\ g[p] = AddHashes(f, full)[p] /\ Live(g[p])
    BY <1>1 DEF SubtractIncludes, Subtracted, Restrict, LivePaths
  <1> HIDE DEF g
  <1>3. p \in DOMAIN f /\ f[p] \in Entry
    BY <1>2 DEF AddHashes, IsFileList
  <1>4. g[p] = f[p] \/ g[p] = [f[p] EXCEPT !.hash = full[p].hash]
    BY <1>2, <1>3 DEF AddHashes
  <1>5. QED
    BY <1>2, <1>3, <1>4 DEF LivePaths, Live, Entry

\* What steps 4 to 6 compare: part of what is in force, and the new list.
LEMMA BundleCompared ==
    ASSUME Keeping, MatchBundle, NEW c, c = Current
    PROVE  LET old == SubtractIncludes(oldM[c].files, oldM, c)
               raw == SubtractIncludes(AddHashes(newM[c].files, newFull.files), newM, c)
           IN  /\ pc = "bundle" /\ pc' = "bundleMatched" /\ c # Core /\ InLoop
               /\ UNCHANGED <<disk, nv, gi, newFull>>
               /\ c \in Bundle /\ c \in Groups /\ c \notin Finished
               /\ Resolvable(Includes(newM, c), c)
               /\ oldM[c] = Prior(c)
               /\ newM[c].files = FromDirectory(Run.img[c], nv, Run.ban)
               /\ Part(old, Prior(c).files) /\ IsFileList(old)
               /\ IsFileList(raw) /\ RawList(raw, nv) /\ Trims(raw, newM[c].files)
               /\ changed' = (ChangedPaths(old, raw, Run.minversion) # {})
               /\ oldM'[c].files = old /\ oldM'[c].includes = Prior(c).includes \cup {Core}
               /\ newM'[c].files = Matched(old, raw, nv, Run.minversion)
               /\ newM'[c].includes = newM[c].includes \cup {Core}
               /\ newM'[c].version = newM[c].version
               /\ \A b \in Bundle \ {c} : newM'[b] = newM[b] /\ oldM'[b] = oldM[b]
  <1> DEFINE old == SubtractIncludes(oldM[c].files, oldM, c)
             raw == SubtractIncludes(AddHashes(newM[c].files, newFull.files), newM, c)
             f   == Matched(old, raw, nv, Run.minversion)
  <1>1. /\ pc = "bundle" /\ pc' = "bundleMatched" /\ c # Core /\ InLoop
        /\ UNCHANGED <<disk, nv, gi, newFull>>
        /\ Resolvable(Includes(newM, c), c)
        /\ oldM' = [oldM EXCEPT ![c].files = old, ![c].includes = @ \cup {Core}]
        /\ newM' = [newM EXCEPT ![c].files = f, ![c].includes = @ \cup {Core},
                                ![c].prev = oldM[c].version]
        /\ changed' = (ChangedPaths(old, raw, Run.minversion) # {})
    BY DEF MatchBundle, InLoop
  <1>2. HistoryInv /\ TypeInv /\ pc # "idle" /\ nv \in 0..MaxVersion
    BY KeptRun, RunType
  <1>3. c \in Bundle /\ c \in Groups /\ c \notin Finished
    BY <1>1, <1>2, Cursor
  <1>4. /\ oldM[c] = Prior(c) /\ newM[c].files = FromDirectory(Run.img[c], nv, Run.ban)
        /\ IsManifest(oldM[c]) /\ IsManifest(newM[c])
        /\ newM = [b \in Bundle |-> newM[b]] /\ oldM = [b \in Bundle |-> oldM[b]]
    <2>1. Loaded(c)
      BY <1>1, <1>2, <1>3 DEF HistoryInv, StagesOK
    <2>2. QED
      BY <1>3, <2>1, KeptRun DEF Loaded
  <1>5. /\ Part(old, Prior(c).files) /\ IsFileList(old) /\ IsFileList(raw) /\ RawList(raw, nv)
        /\ Trims(raw, newM[c].files)
    <2>1. /\ IsFileList(AddHashes(newM[c].files, newFull.files)) /\ IsFileList(oldM[c].files)
          /\ IsFileList(newM[c].files)
      BY <1>2, <1>4, ManifestType, AddHashesType DEF TypeInv, TypeOK, RunTypeOK
    <2>2. Part(old, oldM[c].files) /\ IsFileList(old)
      BY <2>1, DropsPart, SubtractedType DEF SubtractIncludes
    <2>3. Part(raw, AddHashes(newM[c].files, newFull.files)) /\ IsFileList(raw)
      BY <2>1, DropsPart, SubtractedType DEF SubtractIncludes
    <2>4. Trims(raw, newM[c].files)
      BY <2>1, RawTrims
    <2> HIDE DEF old, raw
    <2>5. RawList(AddHashes(newM[c].files, newFull.files), nv)
      <3>1. Run.img[c] \in Image
        BY <1>2, <1>3, RunType
      <3>2. QED
        BY <1>4, <3>1, RawHistory
    <2>6. QED
      BY <1>4, <2>2, <2>3, <2>4, <2>5, PartHistory
  <1> HIDE DEF f, old, raw
  <1>6. /\ oldM'[c].files = old /\ oldM'[c].includes = Prior(c).includes \cup {Core}
        /\ newM'[c].files = f /\ newM'[c].includes = newM[c].includes \cup {Core}
        /\ newM'[c].version = newM[c].version
        /\ \A b \in Bundle \ {c} : newM'[b] = newM[b] /\ oldM'[b] = oldM[b]
    <2>1. oldM'[c] = [oldM[c] EXCEPT !.files = old, !.includes = @ \cup {Core}]
      BY <1>1, <1>3, <1>4
    <2>2. newM'[c] = [newM[c] EXCEPT !.files = f, !.includes = @ \cup {Core},
                                     !.prev = oldM[c].version]
      BY <1>1, <1>3, <1>4
    <2>3. \A b \in Bundle \ {c} : newM'[b] = newM[b] /\ oldM'[b] = oldM[b]
      BY <1>1, <1>4
    <2>4. QED
      BY <1>4, <2>1, <2>2, <2>3 DEF IsManifest
  <1>7. QED
    BY <1>1, <1>3, <1>4, <1>5, <1>6 DEF f, old, raw

\* Steps 4 to 6: nothing that was in force is lost to the included manifests, and
\* what is left of the new list is in none of those.
LEMMA MatchBundleKept ==
    ASSUME Keeping, MatchBundle
    PROVE  DeletionInv'
  <1>0. PICK c : c = Current
    OBVIOUS
  <1> DEFINE old == SubtractIncludes(oldM[c].files, oldM, c)
             raw == SubtractIncludes(AddHashes(newM[c].files, newFull.files), newM, c)
             f   == Matched(old, raw, nv, Run.minversion)
  <1>1. /\ pc = "bundle" /\ pc' = "bundleMatched" /\ c # Core /\ InLoop
        /\ UNCHANGED <<disk, nv, gi>> /\ Resolvable(Includes(newM, c), c)
        /\ changed' = (ChangedPaths(old, raw, Run.minversion) # {})
    BY <1>0, BundleCompared
  <1>2. /\ HistoryInv /\ RecordsOK /\ Run' = Run /\ nv' = nv /\ pc # "idle"
        /\ Core \in Bundle
    BY KeptRun, UpdateAssumption DEF Keeping
  <1>3. /\ c \in Bundle /\ c \notin Finished /\ Finished \subseteq Bundle
        /\ Prior(c)' = Prior(c)
    BY <1>0, <1>1, BundleCompared, Cursor, KeptRun
  <1>4. oldM[c] = Prior(c)
    BY <1>0, BundleCompared
  <1>5. /\ oldM[Core].includes = {} /\ newM[Core].includes = {}
        /\ \A b \in Bundle : /\ Part(oldM[b].files, Prior(b).files)
                             /\ oldM[b].includes \subseteq Prior(b).includes \cup {Core}
    BY <1>1 DEF Keeping, MemoryKept, Comparing
  <1>6. \A p \in DOMAIN Prior(c).files : Firm(Prior(c).files, p) => p \in DOMAIN old
    <2>1. SUFFICES ASSUME NEW p \in DOMAIN Prior(c).files, Firm(Prior(c).files, p)
                   PROVE  p \in DOMAIN old
      OBVIOUS
    <2> HIDE DEF old, raw, f
    <2>2. c \in Bundle \ {Core} /\ oldM[c] = Prior(c)
      BY <1>1, <1>3, <1>4
    <2>3. p \in DOMAIN SubtractIncludes(oldM[c].files, oldM, c)
      BY <1>2, <1>5, <2>1, <2>2, NothingLost
    <2>4. QED
      BY <2>3 DEF old
  <1>7. /\ Part(old, Prior(c).files) /\ IsFileList(old) /\ IsFileList(raw) /\ RawList(raw, nv)
        /\ Trims(raw, newM[c].files)
    BY <1>0, BundleCompared
  <1>8. Orderly(Prior(c).files)
    BY <1>2, <1>3, PriorKept
  <1>9. /\ Knows(f, Prior(c).files) /\ Recalls(f, Prior(c).files, nv, FALSE) /\ Trims(f, raw)
        /\ ChangedPaths(old, raw, Run.minversion) = {} => Trims(Prior(c).files, f)
    <2> HIDE DEF old, raw
    <2> QED BY <1>6, <1>7, <1>8, MatchedKeeps
  <1>10. ASSUME NEW x \in Reach(Includes(newM, c), c)
         PROVE  Apart(f, newM[x].files) /\ x # c /\ x \in Bundle
    <2>1. Apart(f, newM[x].files)
      <3> HIDE DEF f
      <3>1. Trims(f, SubtractIncludes(AddHashes(newM[c].files, newFull.files), newM, c))
        BY <1>9
      <3>2. QED
        BY <1>10, <3>1, SubtractedApart
    <2>2. x # c /\ x \in Bundle
      BY <1>1, <1>10 DEF Resolvable, Reach
    <2>3. QED
      BY <2>1, <2>2
  <1>11. /\ oldM'[c].files = old /\ oldM'[c].includes = Prior(c).includes \cup {Core}
         /\ newM'[c].files = f /\ newM'[c].includes = newM[c].includes \cup {Core}
         /\ \A b \in Bundle \ {c} : newM'[b] = newM[b] /\ oldM'[b] = oldM[b]
    BY <1>0, BundleCompared
  <1> HIDE DEF f, old, raw
  <1>12. MatchedKept(c)'
    BY <1>1, <1>2, <1>3, <1>9, <1>11 DEF MatchedKept
  <1>13. MemoryKept'
    <2>1. \A b \in Bundle : /\ Part(oldM'[b].files, Prior(b).files)
                            /\ oldM'[b].includes \subseteq Prior(b).includes \cup {Core}
      BY <1>5, <1>7, <1>11
    <2>2. oldM'[Core].includes = {} /\ newM'[Core].includes = {}
      BY <1>1, <1>2, <1>5, <1>11
    <2>3. QED
      BY <1>1, <2>1, <2>2, MemoryKeptStep
  <1>14. Separated(c)'
    <2> DEFINE inc  == Includes(newM, c)
               inc2 == AllIncludes(newM')
    <2>1. Core \in inc[c] /\ inc2[c] \subseteq inc[c]
      BY <1>1, <1>3, <1>11 DEF Includes, AllIncludes
    <2>2. \A x \in Bundle : inc2[x] \subseteq inc[x] \cup {Core}
      BY <1>3, <1>11 DEF Includes, AllIncludes
    <2> HIDE DEF inc, inc2
    <2>3. Reach(inc2, c) \subseteq Reach(inc, c)
      BY <2>1, <2>2, ReachWithin
    <2>4. \A x \in Reach(inc2, c) : Apart(newM'[c].files, newM'[x].files)
      BY <1>10, <1>11, <2>3 DEF inc
    <2>5. Reach(inc2, c) = Reach(AllIncludes(newM), c)'
      BY DEF inc2, Reach, AllIncludes
    <2>6. QED
      BY <2>4, <2>5 DEF Separated
  <1>15. ASSUME NEW b \in Finished \ {Core}
         PROVE  Separated(b)'
    <2>1. Separated(b) /\ b \in Bundle
      BY <1>3 DEF Keeping, StagesKept, Compares
    <2>2. Trims(newM'[c].files, newM[c].files)
      BY <1>7, <1>9, <1>11, TrimsApart
    <2>3. \A x \in Bundle :
             /\ newM'[x].includes \cup {Core} = newM[x].includes \cup {Core}
             /\ x = Core => newM'[x].includes = newM[x].includes
             /\ Trims(newM'[x].files, newM[x].files)
      <3> TAKE x \in Bundle
      <3>1. CASE x = c
        BY <1>1, <1>11, <2>2, <3>1
      <3>2. CASE x # c
        BY <1>11, <3>2, TrimsApart
      <3>3. QED
        BY <3>1, <3>2
    <2>4. QED
      BY <2>1, <2>3, SeparatedStep
  <1>16. QED
    BY <1>0, <1>1, <1>3, <1>11, <1>12, <1>13, <1>14, <1>15, StayKept DEF disk

\* Phases 4 and 5: the manifests are final.
LEMMA FinishKept ==
    ASSUME Keeping, pc \in {"mom", "writeFull"}, pc' \in {"writeFull", "done"},
           UNCHANGED <<newM, www>>, wwwMoM'[nv].subs = [b \in Groups |-> newM[b].version]
    PROVE  DeletionInv'
  <1>1. /\ HistoryInv' /\ RecordsOK' /\ TypeInv /\ Run' = Run /\ Groups' = Groups /\ nv' = nv
        /\ Groups \subseteq Bundle
    BY KeptRun DEF Keeping
  <1>2. Through = Groups /\ Groups \subseteq Compares
    BY DEF Through, Compares, Finished, Written
  <1>3. Through' = Groups /\ Compares' = Groups
    BY <1>1 DEF Through, Compares, Finished, Written
  <1>4. \A b \in Groups : FinalKept(b)'
    <2>1. \A b \in Groups : FinalKept(b)
      BY <1>2 DEF Keeping, StagesKept
    <2>2. QED
      BY <1>1, <2>1, SameStageKept
  <1>5. \A b \in Groups \ {Core} : Separated(b)'
    <2>1. \A b \in Groups \ {Core} : Separated(b)
      BY <1>2 DEF Keeping, StagesKept
    <2>2. \A b \in Bundle : /\ newM'[b].includes = newM[b].includes
                            /\ Trims(newM'[b].files, newM[b].files)
      BY TrimsApart
    <2>3. QED
      BY <1>1, <2>1, <2>2, SeparatedStep
  <1>6. wwwMoM'[nv'].subs = [b \in Groups' |-> newM'[b].version]
    BY <1>1
  <1>7. StagesKept'
    BY <1>3, <1>4, <1>5, <1>6 DEF StagesKept
  <1>8. newM'[Core].includes = {}
    BY DEF Keeping, MemoryKept, Comparing, Written
  <1>9. MemoryKept'
    BY <1>8 DEF MemoryKept, Comparing, InLoop
  <1>10. QED
    BY <1>1, <1>7, <1>9 DEF DeletionInv

LEMMA WriteMoMKept ==
    ASSUME Keeping, WriteMoM
    PROVE  DeletionInv'
  <1>1. pc = "mom" /\ pc' = "writeFull" /\ UNCHANGED <<www, newM>>
    BY DEF WriteMoM
  <1>2. wwwMoM'[nv'].subs = [b \in Groups' |-> newM'[b].version]
    BY <1>1 DEF Keeping, HistoryInv, ResultOK
  <1>3. wwwMoM'[nv].subs = [b \in Groups |-> newM[b].version]
    BY <1>1, <1>2, KeptRun
  <1>4. QED
    BY <1>1, <1>3, FinishKept

LEMMA WriteFullKept ==
    ASSUME Keeping, WriteFull
    PROVE  DeletionInv'
  <1>1. pc = "writeFull" /\ pc' = "done" /\ UNCHANGED <<www, wwwMoM, newM>>
    BY DEF WriteFull
  <1>2. wwwMoM[nv].subs = [b \in Groups |-> newM[b].version]
    BY <1>1 DEF Keeping, Continues, HistoryInv, ResultOK
  <1>3. QED
    BY <1>1, <1>2, FinishKept
-----------------------------------------------------------------------------
(* The new release *)

\* What is about to be in force for a bundle: the old manifest, or the new one.
LEMMA NewKept ==
    ASSUME HistoryInv, RecordsOK, MemoryKept, StagesKept, pc = "done", NEW b \in Listed(nv)
    PROVE  LET m == InForce(nv, b)
           IN  /\ b \in Bundle /\ b \in Groups
               /\ Orderly(m.files) /\ Trims(m.files, newM[b].files)
               /\ b = Core => m.includes = {}
               /\ b # Core => m.includes \subseteq newM[b].includes
               /\ Recalls(m.files, Prior(b).files, nv, Prior(b).format < Run.format)
  <1> DEFINE m == InForce(nv, b)
             s == wwwMoM[nv].subs[b]
  <1>1. wwwMoM[nv].subs = [c \in Groups |-> newM[c].version]
    BY DEF StagesKept, Written
  <1>2. b \in Groups /\ s = newM[b].version /\ newM[Core].includes = {} /\ FinalKept(b)
    BY <1>1 DEF Listed, MemoryKept, StagesKept, Through, Written
  <1>3. b \in Bundle /\ TypeInv /\ HistoryOK
    BY <1>2, RunType DEF HistoryInv, IntactInv
  <1>4. /\ Orderly(Prior(b).files) /\ IsManifest(Prior(b))
        /\ b = Core => Prior(b).includes = {}
    BY <1>3, PriorKept
  <1>5. CASE /\ s = Prior(b).version
             /\ Trims(Prior(b).files, newM[b].files)
             /\ b # Core => Prior(b).includes \subseteq newM[b].includes
    <2>1. CASE s = 0
      <3>1. www[s][b] = Absent
        BY <1>3, <2>1 DEF HistoryOK
      <3>2. m.files = <<>> /\ m.includes = {}
        BY <3>1 DEF InForce, NoManifest
      <3>3. Prior(b).files = <<>>
        <4>1. SubVersion(OldMoM, b) = 0
          BY <1>3, <1>5, <2>1, PriorCases DEF HistoryInv
        <4>2. OldFile(b) = Absent
          BY <1>3, <4>1, ReadBundle DEF HistoryInv
        <4>3. QED
          BY <4>2 DEF Prior, FromFile, NewManifest
      <3>4. Orderly(m.files) /\ Trims(m.files, newM[b].files)
        BY <3>2 DEF Orderly, Trims, LivePaths
      <3>5. Recalls(m.files, Prior(b).files, nv, Prior(b).format < Run.format)
        BY <3>3 DEF Recalls
      <3>6. QED
        BY <1>2, <1>3, <3>2, <3>4, <3>5
    <2>2. CASE s # 0
      <3>1. Prior(b) = www[s][b]
        BY <1>3, <1>5, <2>2, PriorCases DEF HistoryInv
      <3>2. www[s][b] \notin {Absent, Torn}
        BY <1>4, <3>1, Distinct
      <3>3. m = Prior(b)
        BY <3>1, <3>2 DEF InForce
      <3>4. Recalls(Prior(b).files, Prior(b).files, nv, Prior(b).format < Run.format)
        BY <1>4 DEF Recalls, Orderly, Firm, LivePaths, Live
      <3>5. QED
        BY <1>2, <1>3, <1>4, <1>5, <3>3, <3>4
    <2>3. QED
      BY <2>1, <2>2
  <1>6. CASE s = nv /\ www[nv][b] = newM[b] /\ ReadyKept(b)
    <2>1. IsManifest(newM[b])
      BY <1>3 DEF TypeInv, TypeOK, RunTypeOK
    <2>2. m = newM[b]
      BY <1>6, <2>1, Distinct DEF InForce
    <2>3. QED
      BY <1>2, <1>3, <1>6, <2>2, TrimsApart DEF ReadyKept
  <1>7. QED
    BY <1>2, <1>5, <1>6 DEF FinalKept

\* The new release lists nothing twice, as the new manifests did not.
LEMMA NewListsKept ==
    ASSUME HistoryInv, RecordsOK, MemoryKept, StagesKept, pc = "done"
    PROVE  NothingTwice(nv)
  <1>1. SUFFICES ASSUME NEW b \in Listed(nv) \ {Core},
                        NEW c \in Reach(IncludesIn(nv), b) \cap Listed(nv)
                 PROVE  Apart(InForce(nv, b).files, InForce(nv, c).files)
    BY DEF NothingTwice
  <1> DEFINE inc  == AllIncludes(newM)
             inc2 == IncludesIn(nv)
  <1>2. /\ b \in Bundle /\ b \in Groups
        /\ Trims(InForce(nv, b).files, newM[b].files)
        /\ Trims(InForce(nv, c).files, newM[c].files)
    BY <1>1, NewKept
  <1>3. \A x \in Bundle : inc2[x] \subseteq inc[x]
    <2> TAKE x \in Bundle
    <2>1. CASE x \notin Listed(nv)
      BY <2>1 DEF IncludesIn
    <2>2. CASE x \in Listed(nv)
      <3>1. /\ x = Core => InForce(nv, x).includes = {}
            /\ x # Core => InForce(nv, x).includes \subseteq newM[x].includes
        BY <2>2, NewKept
      <3>2. QED
        BY <2>2, <3>1 DEF IncludesIn, AllIncludes
    <2>3. QED
      BY <2>1, <2>2
  <1>4. Core \in inc[b]
    BY <1>1, <1>2 DEF AllIncludes
  <1> HIDE DEF inc, inc2
  <1>5. Reach(inc2, b) \subseteq Reach(inc, b)
    BY <1>2, <1>3, <1>4, ReachWithin
  <1>6. Separated(b)
    BY <1>1, <1>2 DEF StagesKept, Compares, Written
  <1>7. Apart(newM[b].files, newM[c].files)
    BY <1>1, <1>5, <1>6 DEF Separated, inc, inc2
  <1>8. QED
    BY <1>2, <1>7, TrimsApart

\* The last release, if there is any, is that of the newest version.
LEMMA LastRelease ==
    ASSUME HistoryInv, pc = "done", NEW v \in published
    PROVE  /\ lastVer \in published /\ v <= lastVer /\ lastVer < nv
           /\ OldMoM = wwwMoM[lastVer] /\ wwwMoM[nv].format = Run.format
           /\ OldMoM.format \in Nat /\ Run.format \in Nat /\ OldMoM.format <= Run.format
  <1>1. /\ HistoryOK /\ published \subseteq Version
        /\ OldMoM \in MoM /\ Run.format \in Nat
    BY RunType, OldType DEF HistoryInv, IntactInv, TypeInv, TypeOK, DiskTypeOK
  <1>2. lastVer \in published
    <2>1. v <= lastVer /\ v \in 1..MaxVersion
      BY <1>1 DEF HistoryOK, Version
    <2>2. lastVer # 0
      BY <2>1, PathAssumption
    <2>3. QED
      BY <1>1, <2>2 DEF HistoryOK
  <1>3. v <= lastVer /\ OldMoM = wwwMoM[lastVer]
    BY <1>1, <1>2, ReadWhole DEF HistoryInv, HistoryOK, PublishedIntact, OldMoM
  <1>4. lastVer < nv
    BY <1>2, NewVersion DEF HistoryInv
  <1>5. Run.format >= OldMoM.format /\ wwwMoM[nv].format = Run.format
    BY DEF HistoryInv, ResultOK
  <1>6. OldMoM.format \in Nat
    BY <1>1 DEF MoM
  <1>7. QED
    BY <1>1, <1>2, <1>3, <1>4, <1>5, <1>6

\* What is in force for a listed bundle has the files the run compares with.
LEMMA LastInForce ==
    ASSUME HistoryInv, pc # "idle", lastVer \in published, OldMoM = wwwMoM[lastVer],
           NEW b \in Listed(lastVer)
    PROVE  b \in Bundle /\ InForce(lastVer, b).files = Prior(b).files
  <1>1. b \in Bundle /\ HistoryOK
    BY InForceType DEF HistoryInv, IntactInv
  <1>2. SubVersion(OldMoM, b) = wwwMoM[lastVer].subs[b]
    BY DEF SubVersion, Listed
  <1>3. CASE SubVersion(OldMoM, b) = 0
    <2>1. www[0][b] = Absent
      BY <1>1 DEF HistoryOK
    <2>2. InForce(lastVer, b).files = <<>>
      BY <1>2, <1>3, <2>1 DEF InForce, NoManifest
    <2>3. Prior(b).files = <<>>
      <3>1. OldFile(b) = Absent
        BY <1>1, <1>3, ReadBundle DEF HistoryInv
      <3>2. QED
        BY <3>1 DEF Prior, FromFile, NewManifest
    <2>4. QED
      BY <1>1, <2>2, <2>3
  <1>4. CASE SubVersion(OldMoM, b) # 0
    BY <1>1, <1>4, PriorCases DEF HistoryInv
  <1>5. QED
    BY <1>3, <1>4

\* A file of the release v1 that the new one lists no more is on record in it.
LEMMA NewDeletions ==
    ASSUME HistoryInv, RecordsOK, MemoryKept, StagesKept, pc = "done",
           NEW v1 \in published, wwwMoM[v1].format = wwwMoM[nv].format,
           NEW b \in Listed(nv), b \in Listed(lastVer),
           \A v \in Between(v1, lastVer) : b \in Listed(v),
           NEW p \in LivePaths(InForce(v1, b).files), p \notin BootPaths \cup DebugPaths,
           p \notin LivePaths(InForce(nv, b).files)
    PROVE  p \in DOMAIN InForce(nv, b).files /\ InForce(nv, b).files[p].last > v1
  <1> DEFINE new == InForce(nv, b).files
             o   == Prior(b).files
             bumped == Prior(b).format < Run.format
  <1>1. /\ lastVer \in published /\ v1 <= lastVer /\ lastVer < nv
        /\ OldMoM = wwwMoM[lastVer] /\ wwwMoM[v1].format = Run.format
        /\ OldMoM.format \in Nat /\ Run.format \in Nat /\ OldMoM.format <= Run.format
    BY LastRelease
  <1>2. /\ b \in Bundle /\ InForce(lastVer, b).files = o
        /\ Recalls(new, o, nv, bumped) /\ Orderly(o) /\ IsManifest(Prior(b))
    BY <1>1, LastInForce, NewKept, PriorKept
  <1>3. v1 \in Int /\ lastVer \in Int /\ nv \in Int
    BY <1>1, NewVersion, PathAssumption DEF HistoryInv
  <1>4. wwwMoM[v1].format = wwwMoM[lastVer].format
    <2>1. wwwMoM[v1].format <= wwwMoM[lastVer].format
      BY <1>1 DEF RecordsOK, FormatsGrow
    <2>2. QED
      BY <1>1, <2>1
  <1> HIDE DEF o
  <1>5. CASE p \in LivePaths(o)
    <2>1. p \in DOMAIN o /\ ~o[p].deleted
      BY <1>5 DEF LivePaths, Live
    <2>2. p \in DOMAIN new /\ (Live(new[p]) \/ new[p].last = nv)
      BY <1>2, <2>1 DEF Recalls, Firm
    <2>3. QED
      BY <1>1, <1>3, <2>2 DEF LivePaths
  <1>6. CASE p \notin LivePaths(o)
    <2>1. v1 < lastVer
      BY <1>1, <1>2, <1>3, <1>6
    <2>2. p \in DOMAIN o /\ o[p].last > v1
      <3>1. p \in LivePaths(InForce(v1, b).files) \ (BootPaths \cup DebugPaths)
        OBVIOUS
      <3>2. QED
        BY <1>1, <1>2, <1>4, <1>6, <2>1, <3>1 DEF RecordsOK, DeletionsRecorded
    <2>3. o[p].deleted
      BY <1>2, <1>6, <2>2 DEF LivePaths, Live, Orderly
    <2>4. ~bumped
      <3>1. /\ InForce(lastVer, b) = Prior(b) /\ o[p].last \in published
            /\ wwwMoM[o[p].last].format = Prior(b).format
        <4>1. InForce(lastVer, b) = Prior(b)
          BY <1>2, <2>2, PriorHistory DEF o
        <4>2. QED
          BY <1>1, <1>2, <2>2, <2>3, <4>1 DEF HistoryInv, ReleasesOK, EntriesOK
      <3>2. o[p].last \in Int
        BY <3>1, NewVersion, PathAssumption DEF HistoryInv
      <3>3. wwwMoM[v1].format <= wwwMoM[o[p].last].format
        BY <1>3, <2>2, <3>1, <3>2 DEF RecordsOK, FormatsGrow
      <3>4. Prior(b).format \in Nat
        BY <1>2, ManifestType
      <3>5. QED
        BY <1>1, <3>1, <3>3, <3>4
    <2>5. p \in DOMAIN new /\ (Live(new[p]) \/ new[p].last = o[p].last)
      BY <1>2, <2>2, <2>3, <2>4 DEF Recalls, Firm
    <2>6. QED
      BY <2>2, <2>5 DEF LivePaths
  <1>7. QED
    BY <1>5, <1>6

LEMMA PublishKept ==
    ASSUME CheckExit, DeletionInv, HistoryInv', Publish
    PROVE  DeletionInv'
  <1>1. /\ pc = "done" /\ pc' = "idle" /\ published' = published \cup {nv}
        /\ UNCHANGED <<www, wwwMoM>>
        /\ \A b \in Bundle : oldM'[b] = NoManifest /\ newM'[b] = NoManifest
    BY DEF Publish, ForgetRun
  <1>2. HistoryInv /\ RecordsOK /\ MemoryKept /\ StagesKept
    BY DEF DeletionInv
  <1>3. /\ \A v : Listed(v)' = Listed(v) /\ \A b : InForce(v, b)' = InForce(v, b)
        /\ \A v : IncludesIn(v)' = IncludesIn(v)
    BY <1>1 DEF Listed, InForce, IncludesIn
  <1>4. /\ nv \notin published /\ nv \in Int
        /\ \A v \in published : v < nv /\ v \in Int
    BY <1>1, <1>2, NewVersion, PathAssumption DEF HistoryInv
  <1>5. ListsKept'
    <2>1. \A v \in published' :
             /\ \A b \in Listed(v) : Orderly(InForce(v, b).files)
             /\ Core \in Listed(v) => InForce(v, Core).includes = {}
             /\ NothingTwice(v)
      <3>1. ASSUME NEW v \in published
            PROVE  /\ \A b \in Listed(v) : Orderly(InForce(v, b).files)
                   /\ Core \in Listed(v) => InForce(v, Core).includes = {}
                   /\ NothingTwice(v)
        BY <1>2 DEF RecordsOK, ListsKept
      <3>2. /\ \A b \in Listed(nv) : Orderly(InForce(nv, b).files)
            /\ Core \in Listed(nv) => InForce(nv, Core).includes = {}
            /\ NothingTwice(nv)
        BY <1>1, <1>2, NewKept, NewListsKept
      <3>3. QED
        BY <1>1, <3>1, <3>2
    <2>2. \A v : NothingTwice(v)' <=> NothingTwice(v)
      BY <1>3 DEF NothingTwice
    <2>3. QED
      BY <1>3, <2>1, <2>2 DEF ListsKept
  <1>6. FormatsGrow'
    <2>1. SUFFICES ASSUME NEW v \in published', NEW w \in published', v <= w
                   PROVE  wwwMoM[v].format <= wwwMoM[w].format
      BY <1>1 DEF FormatsGrow
    <2>2. CASE w \in published
      <3>1. v \in published
        BY <1>1, <1>4, <2>1, <2>2
      <3>2. QED
        BY <1>2, <2>1, <2>2, <3>1 DEF RecordsOK, FormatsGrow
    <2>3. CASE w = nv /\ v \in published
      <3>1. /\ lastVer \in published /\ v <= lastVer
            /\ OldMoM = wwwMoM[lastVer] /\ wwwMoM[nv].format = Run.format
            /\ OldMoM.format \in Nat /\ Run.format \in Nat /\ OldMoM.format <= Run.format
        BY <1>1, <1>2, <2>3, LastRelease
      <3>2. wwwMoM[v].format <= OldMoM.format
        BY <1>2, <2>3, <3>1 DEF RecordsOK, FormatsGrow
      <3>3. wwwMoM[v].format \in Nat
        <4>1. wwwMoM[v] \in MoM
          <5>1. /\ wwwMoM \in [0..MaxVersion -> MoM \cup {Absent, Torn}]
                /\ wwwMoM[v] \notin {Absent, Torn}
            BY <1>2, <2>3 DEF HistoryInv, IntactInv, TypeInv, TypeOK, DiskTypeOK, HistoryOK,
               PublishedIntact
          <5>2. v \in 0..MaxVersion
            BY <1>1, <1>2, <2>3, NewVersion DEF HistoryInv
          <5>3. QED
            BY <5>1, <5>2
        <4>2. QED
          BY <4>1 DEF MoM
      <3>4. QED
        BY <2>3, <3>1, <3>2, <3>3
    <2>4. CASE w = nv /\ v = nv
      <3>1. wwwMoM[nv].format = Run.format /\ Run.format \in Nat
        BY <1>1, <1>2, RunType DEF HistoryInv, IntactInv, ResultOK
      <3>2. QED
        BY <2>4, <3>1
    <2>5. QED
      BY <1>1, <2>2, <2>3, <2>4
  <1>7. DeletionsRecorded'
    <2>1. SUFFICES ASSUME NEW v1 \in published', NEW v2 \in published', v1 < v2,
                          wwwMoM[v1].format = wwwMoM[v2].format, NEW b \in Bundle,
                          \A v \in Between(v1, v2)' : b \in Listed(v),
                          NEW p \in LivePaths(InForce(v1, b).files) \ (BootPaths \cup DebugPaths),
                          p \notin LivePaths(InForce(v2, b).files)
                   PROVE  p \in DOMAIN InForce(v2, b).files /\ InForce(v2, b).files[p].last > v1
      BY <1>1, <1>3 DEF DeletionsRecorded
    <2>2. v1 \in published
      BY <1>1, <1>4, <2>1
    <2>3. \A w : Between(v1, w) \subseteq Between(v1, w)'
      BY <1>1 DEF Between
    <2>4. CASE v2 \in published
      BY <1>2, <2>1, <2>2, <2>3, <2>4 DEF RecordsOK, DeletionsRecorded
    <2>5. CASE v2 = nv
      <3>1. lastVer \in published /\ v1 <= lastVer /\ lastVer < nv
        BY <1>1, <1>2, <2>2, LastRelease
      <3>2. Between(v1, lastVer) \subseteq Between(v1, v2)' /\ v2 \in Between(v1, v2)'
            /\ lastVer \in Between(v1, v2)'
        <4>1. Between(v1, v2)' = {v \in published \cup {nv} : v1 <= v /\ v <= v2}
          BY <1>1 DEF Between
        <4>2. \A v : v1 <= v /\ v <= lastVer /\ v \in published => v <= v2
          BY <1>4, <2>2, <2>5, <3>1
        <4>3. LET S == {v \in published \cup {nv} : v1 <= v /\ v <= v2}
              IN  Between(v1, lastVer) \subseteq S /\ v2 \in S /\ lastVer \in S
          <5>1. v1 <= v2 /\ v2 <= v2 /\ lastVer <= v2 /\ v2 \in published \cup {nv}
            BY <1>4, <2>1, <2>2, <2>5, <3>1
          <5>2. QED
            BY <3>1, <4>2, <5>1 DEF Between
        <4>4. QED
          BY <4>1, <4>3
      <3>3. /\ b \in Listed(nv) /\ b \in Listed(lastVer)
            /\ \A v \in Between(v1, lastVer) : b \in Listed(v)
        BY <2>1, <2>5, <3>2
      <3>4. p \notin BootPaths \cup DebugPaths
        BY <2>1
      <3>5. QED
        BY <1>1, <1>2, <2>1, <2>2, <2>5, <3>3, <3>4, NewDeletions
    <2>6. QED
      BY <1>1, <2>4, <2>5
  <1>8. RecordsOK'
    BY <1>5, <1>6, <1>7 DEF RecordsOK
  <1>9. QED
    BY <1>1, <1>8, QuietKept
-----------------------------------------------------------------------------
(* The theorem *)

LEMMA InitDeletion == Init => DeletionInv
  <1> SUFFICES ASSUME Init PROVE DeletionInv
    OBVIOUS
  <1>1. RecordsOK
    BY DEF Init, RecordsOK, ListsKept, FormatsGrow, DeletionsRecorded
  <1>2. Finished = {}
    BY DEF Init, Finished
  <1>3. MemoryKept /\ StagesKept
    BY <1>2 DEF Init, MemoryKept, StagesKept, Comparing, Written, InLoop, Through, Compares
  <1>4. QED
    BY <1>1, <1>3, InitHistory DEF DeletionInv

\* The releases stay what they are as long as nothing is published.
LEMMA IdleRecords ==
    ASSUME DeletionInv, UNCHANGED <<published, www, wwwMoM>>
    PROVE  RecordsOK'
  <1>1. \A v : Listed(v)' = Listed(v) /\ \A b : InForce(v, b)' = InForce(v, b)
    BY DEF Listed, InForce
  <1>2. QED
    BY <1>1, SameRecords DEF DeletionInv, HistoryInv

LEMMA NextDeletion ==
    ASSUME CheckExit, DeletionInv, [Next]_vars
    PROVE  DeletionInv'
  <1>0. HistoryInv' /\ HistoryInv /\ RecordsOK /\ IntactInv'
    BY NextHistory DEF DeletionInv, HistoryInv
  <1>1. CASE UNCHANGED vars
    <2>1. /\ UNCHANGED <<disk, proc>> /\ Run' = Run /\ Groups' = Groups
          /\ \A b : Prior(b)' = Prior(b)
      BY <1>1 DEF vars, disk, proc, Run, Groups, OldMoM, OldMoMFile, Prior, FromFile, OldFile,
                  Read, SubVersion, NewManifest
    <2>2. RecordsOK'
      BY <2>1, IdleRecords DEF disk
    <2>3. MemoryKept'
      BY <2>1 DEF DeletionInv, MemoryKept, Comparing, Written, InLoop, disk, proc
    <2>4. Through' = Through /\ Compares' = Compares /\ Current' = Current
      BY <2>1 DEF Through, Compares, Finished, Written, Current, proc
    <2>5. \A b : /\ MatchedKept(b)' <=> MatchedKept(b)
                 /\ ReadyKept(b)' <=> ReadyKept(b)
                 /\ FinalKept(b)' <=> FinalKept(b)
                 /\ Separated(b)' <=> Separated(b)
      <3>1. AllIncludes(newM)' = AllIncludes(newM)
        BY <2>1 DEF AllIncludes, proc
      <3>2. \A b : Reach(AllIncludes(newM), b)' = Reach(AllIncludes(newM), b)
        BY <3>1 DEF Reach
      <3>3. \A b : Separated(b)' <=> Separated(b)
        BY <2>1, <3>2 DEF Separated, proc
      <3>4. \A b : /\ MatchedKept(b)' <=> MatchedKept(b)
                   /\ ReadyKept(b)' <=> ReadyKept(b)
        BY <2>1 DEF MatchedKept, ReadyKept, proc
      <3>5. \A b : FinalKept(b)' <=> FinalKept(b)
        BY <2>1, <3>4 DEF FinalKept, disk, proc
      <3>6. QED
        BY <3>3, <3>4, <3>5
    <2>6. StagesKept'
      BY <2>1, <2>4, <2>5 DEF DeletionInv, StagesKept, Written, disk, proc
    <2>7. QED
      BY <1>0, <2>2, <2>3, <2>6 DEF DeletionInv
  <1>2. CASE \E v \in Version : \E in \in plan[v] : Start(v, in)
    <2>1. UNCHANGED <<published, www, wwwMoM, oldM, newM>> /\ pc = "idle" /\ pc' = "chroot"
      BY <1>2 DEF Start
    <2>2. \A b \in Bundle : oldM'[b] = NoManifest /\ newM'[b] = NoManifest
      BY <2>1 DEF DeletionInv, MemoryKept
    <2>3. QED
      BY <1>0, <2>1, <2>2, IdleRecords, QuietKept
  <1>3. CASE CreateUpdateStep
    <2>1. ASSUME FormatTooOld \/ CoreTypeChange \/ IncludesUnresolvable
                 \/ BundleTypeChange \/ OldUnreadable
          PROVE  DeletionInv'
      <3>1. Fail
        BY <2>1 DEF FormatTooOld, CoreTypeChange, IncludesUnresolvable,
                    BundleTypeChange, OldUnreadable
      <3>2. QED
        BY <1>0, <3>1, IdleRecords, QuietKept DEF Fail, disk
    <2>2. ASSUME CreateFullChroot
          PROVE  DeletionInv'
      <3>1. UNCHANGED <<published, www, wwwMoM, oldM, newM>> /\ pc = "chroot" /\ pc' = "full"
        BY <2>2 DEF CreateFullChroot
      <3>2. \A b \in Bundle : oldM'[b] = NoManifest /\ newM'[b] = NoManifest
        BY <3>1 DEF DeletionInv, MemoryKept
      <3>3. QED
        BY <1>0, <3>1, <3>2, IdleRecords, QuietKept
    <2>3. ASSUME CreateFullManifest \/ MatchCore \/ CoreUnchanged \/ CoreChanged \/ WriteCore
                 \/ LoadBundles \/ SkipCore \/ MatchBundle \/ BundleUnchanged \/ BundleChanged
                 \/ WriteBundle \/ WriteMoM \/ WriteFull
          PROVE  DeletionInv'
      <3>1. pc # "idle" /\ UNCHANGED <<lastVer, published, image, nv>>
        BY <2>3 DEF CreateFullManifest, MatchCore, CoreUnchanged, CoreChanged, WriteCore,
           LoadBundles, SkipCore, MatchBundle, BundleUnchanged, KeepOldVersion, BundleChanged,
           WriteBundle, WriteMoM, WriteFull, disk
      <3>2. Keeping
        BY <1>0, <3>1 DEF Keeping, Continues, DeletionInv
      <3>3. QED
        BY <2>3, <3>2, CreateFullManifestKept, MatchCoreKept, CoreUnchangedKept,
           CoreChangedKept, WriteCoreKept, LoadBundlesKept, SkipCoreKept, MatchBundleKept,
           BundleUnchangedKept, BundleChangedKept, WriteBundleKept, WriteMoMKept, WriteFullKept
    <2>4. QED
      BY <1>3, <2>1, <2>2, <2>3 DEF CreateUpdateStep
  <1>4. CASE Publish
    BY <1>0, <1>4, PublishKept
  <1>5. CASE GiveUp
    <2>1. /\ UNCHANGED <<published, www, wwwMoM>> /\ pc' = "idle"
          /\ \A b \in Bundle : oldM'[b] = NoManifest /\ newM'[b] = NoManifest
      BY <1>5 DEF GiveUp, ForgetRun, disk
    <2>2. QED
      BY <1>0, <2>1, IdleRecords, QuietKept
  <1>6. CASE Crash \/ CrashInChroot
    BY <1>0, <1>6, IdleRecords, QuietKept DEF Crash, CrashInChroot, disk
  <1>7. CASE CrashInWrite
    <2>1. pc # "idle" /\ pc' = "failed" /\ UNCHANGED <<lastVer, published, image, nv>>
      BY <1>7 DEF CrashInWrite
    <2>2. Keeping
      BY <1>0, <2>1 DEF Keeping, Continues, DeletionInv
    <2>3. QED
      BY <1>0, <2>1, <2>2, KeptRun, QuietKept
  <1>8. QED
    BY <1>1, <1>2, <1>3, <1>4, <1>5, <1>6, <1>7 DEF Next

\* If the caller looks at the exit status, what goes away is on record: a file
\* installed with a bundle that a later release of the same format no longer
\* lists is in that bundle's manifest as a tombstone newer than the client, which
\* is what "swupd update" removes it by.  Neither subtraction, nor manifests that
\* fall back to an old version, nor format bumps and failed runs lose it, unless
\* it is a boot file or debuginfo.
THEOREM DeletionsOnRecord == CheckExit => (Spec => []DeletionsRecorded)
  <1> SUFFICES ASSUME CheckExit PROVE Spec => []DeletionsRecorded
    OBVIOUS
  <1>1. DeletionInv /\ [Next]_vars => DeletionInv'
    BY NextDeletion
  <1>2. DeletionInv => DeletionsRecorded
    BY DEF DeletionInv, RecordsOK
  <1>3. QED
    BY InitDeletion, <1>1, <1>2, PTL DEF Spec
=============================================================================
