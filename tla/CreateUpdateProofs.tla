-------------------------- MODULE CreateUpdateProofs --------------------------
(***************************************************************************)
(* Theorems about CreateUpdate: its types, and that what is published is   *)
(* complete and never changes.                                             *)
(***************************************************************************)
EXTENDS CreateUpdate, ManifestOpsProofs

\* What a run is given.
LEMMA InputType ==
    ASSUME NEW in \in Input
    PROVE  /\ in.groups \in Seq(Bundle) /\ Range(in.groups) \subseteq Bundle
           /\ \A b \in Bundle : in.img[b] \in Image /\ in.inc[b] \in SUBSET Bundle
           /\ in.format \in Nat /\ in.minversion \in Nat /\ in.ban \in BOOLEAN
  BY DEF Input, Range

\* A manifest's fields, from the form TLC can evaluate.
LEMMA ManifestType ==
    ASSUME NEW m, IsManifest(m)
    PROVE  /\ m.version \in 0..MaxVersion /\ m.prev \in 0..MaxVersion
           /\ m.format \in Nat /\ m.includes \in SUBSET Bundle
           /\ IsFileList(m.files)
           /\ m \in Manifest
  BY FileListType DEF IsManifest, Manifest

\* A manifest with one field replaced.
LEMMA ManifestExcept ==
    ASSUME NEW m, IsManifest(m)
    PROVE  /\ \A v \in 0..MaxVersion : IsManifest([m EXCEPT !.version = v])
           /\ \A v \in 0..MaxVersion : IsManifest([m EXCEPT !.prev = v])
           /\ \A inc \in SUBSET Bundle : IsManifest([m EXCEPT !.includes = inc])
           /\ \A f : IsFileList(f) => IsManifest([m EXCEPT !.files = f])
  BY DEF IsManifest

\* The manifest of a bundle that was never loaded.
LEMMA NoManifestType == IsManifest(NoManifest)
  BY EmptyType, PathAssumption DEF IsManifest, NoManifest

\* Version 0 and no includes, which new manifests start with.
LEMMA Nothing == 0 \in 0..MaxVersion /\ {} \in SUBSET Bundle
  BY PathAssumption

\* alloc_manifest
LEMMA NewManifestType ==
    ASSUME NEW v \in 0..MaxVersion, NEW w \in 0..MaxVersion,
           NEW inc \in SUBSET Bundle, NEW f, IsFileList(f), Run.format \in Nat
    PROVE  /\ IsManifest(NewManifest(v, w, inc, f))
           /\ NewManifest(v, w, inc, f).version = v
           /\ NewManifest(v, w, inc, f).files = f
  BY DEF IsManifest, NewManifest
-----------------------------------------------------------------------------
(* Type correctness *)

\* What the steps of a run rely on besides the types: there is a run, its
\* version is a new one, its chroot is there when it is read, and the cursor
\* points at a group.
StepOK ==
    /\ pc # "idle" => /\ nv \in Version /\ nv > lastVer
                      /\ Run \in plan[nv] /\ Run \in Input
    /\ pc = "full" => chroot[nv] \in Image
    /\ pc \in {"bundle", "bundleMatched", "writeBundle"} => gi \in 1..Len(Run.groups)

TypeInv == TypeOK /\ StepOK

\* Absent and Torn are nothing else.
LEMMA Distinct ==
    /\ Absent # Torn
    /\ \A m : IsManifest(m) => m \notin {Absent, Torn}
    /\ \A x \in MoM \cup Image \cup Input : x \notin {Absent, Torn}
  BY UpdateAssumption, ManifestType

\* What is read of a file is nothing, or a manifest.
LEMMA ReadType ==
    ASSUME NEW file, NEW left, file \in {Absent, Torn} \/ IsManifest(file),
           left = Torn \/ IsManifest(left)
    PROVE  Read(file, left) \in {Absent, Torn} \/ IsManifest(Read(file, left))
  BY DEF Read

\* The MoM and the bundle manifests of the last version, as they are read.
LEMMA OldType ==
    ASSUME TypeInv, pc # "idle"
    PROVE  /\ OldMoM \in MoM
           /\ \A b \in Bundle :
                /\ SubVersion(OldMoM, b) \in 0..MaxVersion
                /\ IsManifest(FromFile(OldFile(b), SubVersion(OldMoM, b)))
           /\ IsManifest(FromFile(OldFullFile, lastVer))
  <1> USE PathAssumption
  <1>1. Run.format \in Nat /\ lastVer \in 0..MaxVersion
    BY InputType DEF TypeInv, StepOK, TypeOK, DiskTypeOK
  <1>2. OldMoM \in MoM
    <2>1. OldMoMFile \in MoM \cup {Absent, Torn}
      <3>1. /\ wwwMoM[lastVer] \in MoM \cup {Absent, Torn}
            /\ legible.mom[lastVer] \in MoM \cup {Torn}
        BY <1>1 DEF TypeInv, TypeOK, DiskTypeOK
      <3>2. QED
        BY <3>1 DEF OldMoMFile, Read
    <2>2. <<>> \in UNION {[B -> 0..MaxVersion] : B \in SUBSET Bundle}
      <3>1. <<>> \in [{} -> 0..MaxVersion] /\ {} \in SUBSET Bundle
        OBVIOUS
      <3>2. QED
        BY ONLY <3>1
    <2>3. NoMoM \in MoM
      <3>1. 0 \in 0..MaxVersion /\ 0 \in Nat /\ {} \in SUBSET Bundle
        OBVIOUS
      <3>2. QED
        BY ONLY <2>2, <3>1 DEF NoMoM, MoM
    <2>4. [NoMoM EXCEPT !.version = lastVer, !.format = Run.format] \in MoM
      BY ONLY <1>1, <2>3 DEF MoM
    <2>5. QED
      BY <2>1, <2>4 DEF OldMoM
  <1>3. ASSUME NEW b \in Bundle
        PROVE  SubVersion(OldMoM, b) \in 0..MaxVersion
    BY <1>2 DEF MoM, SubVersion
  <1>4. ASSUME NEW m, m \in {Absent, Torn} \/ IsManifest(m), NEW v \in 0..MaxVersion
        PROVE  IsManifest(FromFile(m, v))
    <2>1. IsManifest(NewManifest(v, 0, {}, <<>>))
      <3>1. 0 \in 0..MaxVersion /\ {} \in SUBSET Bundle
        OBVIOUS
      <3>2. QED
        BY <1>1, <3>1, EmptyType, NewManifestType
    <2>2. QED
      BY <1>4, <2>1 DEF FromFile
  <1>5. ASSUME NEW b \in Bundle
        PROVE  OldFile(b) \in {Absent, Torn} \/ IsManifest(OldFile(b))
    <2> DEFINE s == SubVersion(OldMoM, b)
    <2>1. s \in 0..MaxVersion
      BY <1>3
    <2> HIDE DEF s
    <2>2. /\ www[s][b] \in {Absent, Torn} \/ IsManifest(www[s][b])
          /\ legible.bundle[s][b] = Torn \/ IsManifest(legible.bundle[s][b])
      BY <2>1 DEF TypeInv, TypeOK, DiskTypeOK
    <2>3. QED
      BY <2>2, ReadType DEF OldFile, s
  <1>6. OldFullFile \in {Absent, Torn} \/ IsManifest(OldFullFile)
    <2>1. /\ wwwFull[lastVer] \in {Absent, Torn} \/ IsManifest(wwwFull[lastVer])
          /\ legible.full[lastVer] = Torn \/ IsManifest(legible.full[lastVer])
      BY <1>1 DEF TypeInv, TypeOK, DiskTypeOK
    <2>2. QED
      BY <2>1, ReadType DEF OldFullFile
  <1>7. QED
    BY <1>1, <1>2, <1>3, <1>4, <1>5, <1>6

\* The union of the chroots takes every path from the first bundle that has it.
LEMMA OverlayType ==
    ASSUME NEW in \in Input, NEW n \in 0..Len(in.groups)
    PROVE  Overlay(in, n) \in Image
  <1> DEFINE img(k) == in.img[in.groups[k]]
             has(p) == IF p \in DOMAIN in.img[Core] THEN Core
                       ELSE in.groups[CHOOSE k \in 1..n :
                               /\ p \in DOMAIN img(k)
                               /\ \A j \in 1..(k-1) : p \notin DOMAIN img(j)]
             all == DOMAIN in.img[Core] \cup UNION {DOMAIN img(k) : k \in 1..n}
  <1>1. \A k \in 1..n : in.groups[k] \in Bundle
    BY InputType
  <1>2. \A b \in Bundle : DOMAIN in.img[b] \subseteq Path
                           /\ in.img[b] \in [DOMAIN in.img[b] -> Node]
    BY InputType, ImageType
  <1>3. ASSUME NEW p \in all
        PROVE  has(p) \in Bundle /\ p \in DOMAIN in.img[has(p)]
    <2>1. CASE p \in DOMAIN in.img[Core]
      BY <2>1, UpdateAssumption
    <2>2. CASE p \notin DOMAIN in.img[Core]
      <3> DEFINE K == {k \in 1..n : p \in DOMAIN img(k)}
      <3>1. K \in SUBSET Nat /\ K # {}
        BY <2>2
      <3>2. PICK k \in K : \A j \in K : k <= j
        BY <3>1, LeastNatural
      <3>3. \A j \in 1..(k-1) : p \notin DOMAIN img(j)
        BY <3>2
      <3>4. \E l \in 1..n : /\ p \in DOMAIN img(l)
                             /\ \A j \in 1..(l-1) : p \notin DOMAIN img(j)
        BY <3>2, <3>3
      <3>5. QED
        BY <1>1, <2>2, <3>4
    <2>3. QED
      BY <2>1, <2>2
  <1>4. all \subseteq Path
    BY <1>1, <1>2, UpdateAssumption
  <1>5. Overlay(in, n) = [p \in all |-> in.img[has(p)][p]]
    BY DEF Overlay
  <1>6. \A p \in all : in.img[has(p)][p] \in Node
    BY <1>2, <1>3
  <1> HIDE DEF all, has
  <1>7. QED
    BY <1>4, <1>5, <1>6, ImageType

\* The same run goes on: what StepOK says of it is not disturbed.
LEMMA SameRun ==
    ASSUME TypeInv, pc # "idle", UNCHANGED <<plan, lastVer, image, nv>>
    PROVE  /\ Run' = Run
           /\ nv' \in Version /\ nv' > lastVer' /\ Run' \in plan'[nv'] /\ Run' \in Input
  BY DEF TypeInv, StepOK, Run

\* A step that leaves the disk alone leaves its types alone.
LEMMA SameDisk ==
    ASSUME DiskTypeOK, UNCHANGED disk
    PROVE  DiskTypeOK'
  BY DEF DiskTypeOK, disk

\* The input of the run there is.
LEMMA RunType ==
    ASSUME TypeInv, pc # "idle"
    PROVE  /\ nv \in 0..MaxVersion /\ nv \in Version
           /\ Run \in Input
           /\ Run.groups \in Seq(Bundle) /\ Groups \subseteq Bundle /\ Core \in Groups
           /\ \A b \in Bundle : Run.img[b] \in Image /\ Run.inc[b] \in SUBSET Bundle
           /\ Run.format \in Nat /\ Run.minversion \in Nat /\ Run.ban \in BOOLEAN
  <1>1. nv \in Version /\ Run \in Input /\ Run \in plan[nv]
    BY DEF TypeInv, StepOK
  <1>2. Core \in Groups
    BY <1>1, UpdateAssumption DEF TypeInv, TypeOK, DiskTypeOK, Groups
  <1>3. QED
    BY <1>1, <1>2, InputType DEF Groups, Version

\* An empty state directory and no run.
LEMMA InitType == Init => TypeInv
  <1> SUFFICES ASSUME Init PROVE TypeInv
    OBVIOUS
  <1>1. 0 \in 0..MaxVersion /\ 0 \in 0..MaxAborts
    BY PathAssumption, UpdateAssumption
  <1>2. DiskTypeOK
    BY <1>1 DEF Init, DiskTypeOK
  <1>3. RunTypeOK
    BY <1>1, NoManifestType DEF Init, RunTypeOK
  <1>4. QED
    BY <1>1, <1>2, <1>3 DEF Init, TypeInv, TypeOK, StepOK

\* Starting a run: its version is above LAST_VER and its input a legal one.
LEMMA StartType ==
    ASSUME TypeInv, NEW v \in Version, NEW in \in plan[v], Start(v, in)
    PROVE  TypeInv'
  <1>1. in \in Input
    BY UpdateAssumption DEF TypeInv, TypeOK, DiskTypeOK
  <1>2. DiskTypeOK'
    BY <1>1 DEF Start, TypeInv, TypeOK, DiskTypeOK
  <1>3. RunTypeOK'
    BY DEF Start, TypeInv, TypeOK, RunTypeOK, Version
  <1>4. StepOK'
    BY <1>1 DEF Start, TypeInv, TypeOK, DiskTypeOK, StepOK, Run
  <1>5. QED
    BY <1>2, <1>3, <1>4 DEF Start, TypeInv, TypeOK

\* chroot_create_full leaves a union of chroots, which is an image.
LEMMA CreateFullChrootType ==
    ASSUME TypeInv, CreateFullChroot
    PROVE  TypeInv'
  <1> USE DEF CreateFullChroot
  <1>1. pc # "idle" /\ UNCHANGED <<plan, lastVer, image, nv>>
    OBVIOUS
  <1>2. FullChroot(Run) \in Image
    <2>1. Run \in Input /\ Len(Run.groups) \in 0..Len(Run.groups)
      BY <1>1, RunType
    <2>2. QED
      BY <2>1, OverlayType DEF FullChroot
  <1>3. DiskTypeOK'
    BY <1>2 DEF TypeInv, TypeOK, DiskTypeOK
  <1>4. RunTypeOK'
    BY DEF TypeInv, TypeOK, RunTypeOK
  <1>5. chroot'[nv] \in Image
    BY <1>1, <1>2, RunType DEF TypeInv, TypeOK, DiskTypeOK
  <1>6. StepOK'
    BY <1>1, <1>5, SameRun DEF StepOK
  <1>7. QED
    BY <1>3, <1>4, <1>6 DEF TypeInv, TypeOK

\* Phase 1 makes a full manifest of that image and the last one.
LEMMA CreateFullManifestType ==
    ASSUME TypeInv, CreateFullManifest
    PROVE  TypeInv'
  <1> USE DEF CreateFullManifest
  <1>1. pc # "idle" /\ UNCHANGED <<plan, lastVer, image, nv>> /\ UNCHANGED disk
    BY DEF disk
  <1>2. chroot[nv] \in Image
    BY DEF TypeInv, StepOK
  <1> DEFINE old == FromFile(OldFullFile, lastVer)
             hashed == Hashed(FromDirectory(chroot[nv], nv, Run.ban), chroot[nv])
             matched == Matched(old.files, hashed, nv, Run.minversion)
  <1>3. IsFileList(old.files)
    BY <1>1, OldType, ManifestType
  <1>4. IsFileList(hashed)
    BY <1>1, <1>2, RunType, HashedType
  <1> HIDE DEF old, hashed
  <1>5. IsFileList(matched)
    BY <1>1, <1>3, <1>4, RunType, MatchedType
  <1> HIDE DEF matched
  <1>6. IsFileList(FullList(old))
    BY <1>5, WithoutOldType DEF FullList, matched, hashed
  <1>7. IsManifest(newFull')
    BY <1>1, <1>6, RunType, Nothing, NewManifestType DEF old
  <1>8. RunTypeOK'
    BY <1>7 DEF TypeInv, TypeOK, RunTypeOK
  <1>9. StepOK'
    BY <1>1, SameRun DEF StepOK
  <1>10. QED
    BY <1>1, <1>8, <1>9, SameDisk DEF TypeInv, TypeOK

\* A run that gives up, FormatTooOld and the like.
LEMMA FailType ==
    ASSUME TypeInv, pc # "idle", Fail
    PROVE  TypeInv'
  <1> USE DEF Fail
  <1>1. UNCHANGED <<plan, lastVer, image, nv>> /\ UNCHANGED disk
    BY DEF disk
  <1>2. RunTypeOK'
    BY DEF TypeInv, TypeOK, RunTypeOK
  <1>3. StepOK'
    BY <1>1, SameRun DEF StepOK
  <1>4. QED
    BY <1>1, <1>2, <1>3, SameDisk DEF TypeInv, TypeOK

\* os-core's chroot and its manifest in force make a manifest.
LEMMA MatchCoreType ==
    ASSUME TypeInv, MatchCore
    PROVE  TypeInv'
  <1> USE DEF MatchCore
  <1> DEFINE old == FromFile(OldFile(Core), SubVersion(OldMoM, Core))
             raw == AddHashes(FromDirectory(Run.img[Core], nv, Run.ban), newFull.files)
             matched == Matched(old.files, raw, nv, Run.minversion)
  <1>1. pc # "idle" /\ UNCHANGED <<plan, lastVer, image, nv>> /\ UNCHANGED disk
    BY DEF disk
  <1>2. IsManifest(old)
    BY <1>1, UpdateAssumption, OldType
  <1>3. IsFileList(raw)
    <2>1. IsFileList(newFull.files)
      BY ManifestType DEF TypeInv, TypeOK, RunTypeOK
    <2>2. IsFileList(FromDirectory(Run.img[Core], nv, Run.ban))
      BY <1>1, UpdateAssumption, RunType, HashedType
    <2>3. QED
      BY <2>1, <2>2, AddHashesType
  <1>4. /\ newM' = [newM EXCEPT ![Core] = NewManifest(nv, old.version, {}, matched)]
        /\ oldM' = [oldM EXCEPT ![Core] = old]
        /\ changed' \in BOOLEAN
    OBVIOUS
  <1> HIDE DEF old, raw
  <1>5. IsFileList(matched)
    BY <1>1, <1>2, <1>3, ManifestType, RunType, MatchedType
  <1> HIDE DEF matched
  <1>6. IsManifest(NewManifest(nv, old.version, {}, matched))
    BY <1>1, <1>2, <1>5, RunType, Nothing, ManifestType, NewManifestType
  <1>7. RunTypeOK'
    BY <1>2, <1>4, <1>6 DEF TypeInv, TypeOK, RunTypeOK
  <1>8. StepOK'
    BY <1>1, SameRun DEF StepOK
  <1>9. QED
    BY <1>1, <1>7, <1>8, SameDisk DEF TypeInv, TypeOK

\* An unchanged os-core keeps a version that exists.
LEMMA CoreUnchangedType ==
    ASSUME TypeInv, CoreUnchanged
    PROVE  TypeInv'
  <1> USE DEF CoreUnchanged
  <1>1. pc # "idle" /\ UNCHANGED <<plan, lastVer, image, nv>> /\ UNCHANGED disk
    BY DEF disk
  <1>2. IsManifest([newM[Core] EXCEPT !.version = oldM[Core].version])
    BY UpdateAssumption, ManifestType, ManifestExcept DEF TypeInv, TypeOK, RunTypeOK
  <1>3. RunTypeOK'
    BY <1>2 DEF TypeInv, TypeOK, RunTypeOK
  <1>4. StepOK'
    BY <1>1, SameRun DEF StepOK
  <1>5. QED
    BY <1>1, <1>3, <1>4, SameDisk DEF TypeInv, TypeOK

\* Renames, retired entries, orphans and pruning leave a list of a list.
LEMMA CompletedType ==
    ASSUME TypeInv, pc # "idle", NEW b \in Bundle, NEW m \in MatchingsOf(b)
    PROVE  IsFileList(Completed(oldM[b], newM[b], m))
  <1>1. IsFileList(oldM[b].files) /\ IsFileList(newM[b].files)
    BY ManifestType DEF TypeInv, TypeOK, RunTypeOK
  <1>2. IsFileList(RenamesLinked(newM[b].files, m))
    BY <1>1, RenamesLinkedType DEF MatchingsOf
  <1>3. IsFileList(Bumped(oldM[b], RenamesLinked(newM[b].files, m)))
    BY <1>2, WithoutOldType DEF Bumped
  <1>4. QED
    BY <1>3, WithoutOldType, RenamesCleanedType, PrunedType DEF Completed

\* A changed os-core is completed, or the run gives up.
LEMMA CoreChangedType ==
    ASSUME TypeInv, CoreChanged
    PROVE  TypeInv'
  <1> USE DEF CoreChanged
  <1>1. pc # "idle" /\ UNCHANGED <<plan, lastVer, image, nv>> /\ UNCHANGED disk
    BY DEF disk
  <1>2. PICK m \in MatchingsOf(Core) :
           /\ newM' = [newM EXCEPT ![Core].files = Completed(oldM[Core], newM[Core], m)]
           /\ pc' \in {"failed", "writeCore"}
    BY Zenon
  <1>3. IsManifest([newM[Core] EXCEPT !.files = Completed(oldM[Core], newM[Core], m)])
    BY <1>1, UpdateAssumption, CompletedType, ManifestExcept DEF TypeInv, TypeOK, RunTypeOK
  <1>4. RunTypeOK'
    BY <1>2, <1>3 DEF TypeInv, TypeOK, RunTypeOK
  <1>5. StepOK'
    BY <1>1, <1>2, SameRun DEF StepOK
  <1>6. QED
    BY <1>1, <1>4, <1>5, SameDisk DEF TypeInv, TypeOK

\* The types of what is left of torn manifests.
LegibleOK ==
    /\ legible = [bundle |-> [v \in 0..MaxVersion |-> [b \in Bundle |-> legible.bundle[v][b]]],
                  full   |-> [v \in 0..MaxVersion |-> legible.full[v]],
                  mom    |-> legible.mom]
    /\ \A v \in 0..MaxVersion :
          /\ legible.full[v] = Torn \/ IsManifest(legible.full[v])
          /\ \A b \in Bundle : legible.bundle[v][b] = Torn \/ IsManifest(legible.bundle[v][b])
    /\ legible.mom \in [0..MaxVersion -> MoM \cup {Torn}]

LEMMA SameLegible ==
    ASSUME DiskTypeOK, UNCHANGED legible
    PROVE  LegibleOK'
  BY DEF DiskTypeOK, LegibleOK

\* What is left of a bundle's manifest that is torn, of a full one, of a MoM.
LEMMA LegibleFields ==
    ASSUME LegibleOK
    PROVE  \E B, F, M :
              /\ legible = [bundle |-> B, full |-> F, mom |-> M]
              /\ B = [v \in 0..MaxVersion |-> [b \in Bundle |-> B[v][b]]]
              /\ F = [v \in 0..MaxVersion |-> F[v]]
  <1>1. PICK B, F, M : B = legible.bundle /\ F = legible.full /\ M = legible.mom
    OBVIOUS
  <1>2. legible = [bundle |-> [v \in 0..MaxVersion |-> [b \in Bundle |-> B[v][b]]],
                   full   |-> [v \in 0..MaxVersion |-> F[v]],
                   mom    |-> M]
    BY <1>1 DEF LegibleOK
  <1>3. /\ B = [v \in 0..MaxVersion |-> [b \in Bundle |-> B[v][b]]]
        /\ F = [v \in 0..MaxVersion |-> F[v]]
    BY ONLY <1>1, <1>2
  <1>4. legible = [bundle |-> B, full |-> F, mom |-> M]
    BY ONLY <1>2, <1>3
  <1>5. QED
    BY ONLY <1>3, <1>4

LEMMA BundleLegible ==
    ASSUME LegibleOK, NEW v \in 0..MaxVersion, NEW b \in Bundle, NEW left,
           left = Torn \/ IsManifest(left),
           legible' = [legible EXCEPT !.bundle[v][b] = left]
    PROVE  LegibleOK'
  <1>1. PICK B, F, M : /\ legible = [bundle |-> B, full |-> F, mom |-> M]
                       /\ B = [x \in 0..MaxVersion |-> [c \in Bundle |-> B[x][c]]]
                       /\ F = [x \in 0..MaxVersion |-> F[x]]
    BY LegibleFields
  <1>2. PICK C : C = [x \in 0..MaxVersion |-> [c \in Bundle |->
                         IF x = v /\ c = b THEN left ELSE B[x][c]]]
    OBVIOUS
  <1>3. \A x \in 0..MaxVersion : \A c \in Bundle :
           C[x][c] = IF x = v /\ c = b THEN left ELSE B[x][c]
    BY <1>2
  <1>4. C = [x \in 0..MaxVersion |-> [c \in Bundle |-> C[x][c]]]
    BY ONLY <1>2, <1>3
  <1>5. [B EXCEPT ![v][b] = left] = C
    BY ONLY <1>1, <1>2
  <1>6. legible' = [bundle |-> [B EXCEPT ![v][b] = left], full |-> F, mom |-> M]
    BY <1>1
  <1>7. legible' = [bundle |-> C, full |-> F, mom |-> M]
    BY <1>5, <1>6
  <1>8. /\ legible'.bundle = C /\ legible'.full = F /\ legible'.mom = M
        /\ legible.bundle = B /\ legible.full = F /\ legible.mom = M
    BY ONLY <1>1, <1>7
  <1>9. /\ M \in [0..MaxVersion -> MoM \cup {Torn}]
        /\ \A x \in 0..MaxVersion :
              /\ F[x] = Torn \/ IsManifest(F[x])
              /\ \A c \in Bundle : B[x][c] = Torn \/ IsManifest(B[x][c])
    BY <1>8 DEF LegibleOK
  <1>10. \A x \in 0..MaxVersion : \A c \in Bundle : C[x][c] = Torn \/ IsManifest(C[x][c])
    BY <1>3, <1>9
  <1>11. legible' = [bundle |-> [x \in 0..MaxVersion |-> [c \in Bundle |-> legible'.bundle[x][c]]],
                     full   |-> [x \in 0..MaxVersion |-> legible'.full[x]],
                     mom    |-> legible'.mom]
    BY ONLY <1>1, <1>4, <1>7, <1>8
  <1>12. QED
    BY <1>8, <1>9, <1>10, <1>11 DEF LegibleOK

LEMMA FullLegible ==
    ASSUME LegibleOK, NEW v \in 0..MaxVersion, NEW left,
           left = Torn \/ IsManifest(left),
           legible' = [legible EXCEPT !.full[v] = left]
    PROVE  LegibleOK'
  <1>1. PICK B, F, M : /\ legible = [bundle |-> B, full |-> F, mom |-> M]
                       /\ B = [x \in 0..MaxVersion |-> [c \in Bundle |-> B[x][c]]]
                       /\ F = [x \in 0..MaxVersion |-> F[x]]
    BY LegibleFields
  <1>2. PICK G : G = [x \in 0..MaxVersion |-> IF x = v THEN left ELSE F[x]]
    OBVIOUS
  <1>3. /\ \A x \in 0..MaxVersion : G[x] = IF x = v THEN left ELSE F[x]
        /\ G = [x \in 0..MaxVersion |-> G[x]]
        /\ [F EXCEPT ![v] = left] = G
    BY ONLY <1>1, <1>2
  <1>4. legible' = [bundle |-> B, full |-> [F EXCEPT ![v] = left], mom |-> M]
    BY <1>1
  <1>5. legible' = [bundle |-> B, full |-> G, mom |-> M]
    BY <1>3, <1>4
  <1>6. /\ legible'.bundle = B /\ legible'.full = G /\ legible'.mom = M
        /\ legible.bundle = B /\ legible.full = F /\ legible.mom = M
    BY ONLY <1>1, <1>5
  <1>7. /\ M \in [0..MaxVersion -> MoM \cup {Torn}]
        /\ \A x \in 0..MaxVersion :
              /\ F[x] = Torn \/ IsManifest(F[x])
              /\ \A c \in Bundle : B[x][c] = Torn \/ IsManifest(B[x][c])
    BY <1>6 DEF LegibleOK
  <1>8. legible' = [bundle |-> [x \in 0..MaxVersion |-> [c \in Bundle |-> legible'.bundle[x][c]]],
                    full   |-> [x \in 0..MaxVersion |-> legible'.full[x]],
                    mom    |-> legible'.mom]
    BY ONLY <1>1, <1>3, <1>5, <1>6
  <1>9. QED
    BY <1>3, <1>6, <1>7, <1>8 DEF LegibleOK

LEMMA MoMLegible ==
    ASSUME LegibleOK, NEW v \in 0..MaxVersion, NEW left \in MoM \cup {Torn},
           legible' = [legible EXCEPT !.mom[v] = left]
    PROVE  LegibleOK'
  <1>1. PICK B, F, M : /\ legible = [bundle |-> B, full |-> F, mom |-> M]
                       /\ B = [x \in 0..MaxVersion |-> [c \in Bundle |-> B[x][c]]]
                       /\ F = [x \in 0..MaxVersion |-> F[x]]
    BY LegibleFields
  <1>2. PICK N : N = [M EXCEPT ![v] = left]
    OBVIOUS
  <1>3. legible' = [bundle |-> B, full |-> F, mom |-> N]
    BY <1>1, <1>2
  <1>4. /\ legible'.bundle = B /\ legible'.full = F /\ legible'.mom = N
        /\ legible.bundle = B /\ legible.full = F /\ legible.mom = M
    BY ONLY <1>1, <1>3
  <1>5. /\ M \in [0..MaxVersion -> MoM \cup {Torn}]
        /\ \A x \in 0..MaxVersion :
              /\ F[x] = Torn \/ IsManifest(F[x])
              /\ \A c \in Bundle : B[x][c] = Torn \/ IsManifest(B[x][c])
    BY <1>4 DEF LegibleOK
  <1>6. N \in [0..MaxVersion -> MoM \cup {Torn}]
    BY <1>2, <1>5
  <1>7. legible' = [bundle |-> [x \in 0..MaxVersion |-> [c \in Bundle |-> legible'.bundle[x][c]]],
                    full   |-> [x \in 0..MaxVersion |-> legible'.full[x]],
                    mom    |-> legible'.mom]
    BY ONLY <1>1, <1>3, <1>4
  <1>8. QED
    BY <1>4, <1>5, <1>6, <1>7 DEF LegibleOK

\* What such a write changes, and nothing else.
LEMMA BundleLeft ==
    ASSUME LegibleOK, NEW v \in 0..MaxVersion, NEW b \in Bundle, NEW left,
           legible' = [legible EXCEPT !.bundle[v][b] = left]
    PROVE  /\ legible'.mom = legible.mom
           /\ \A x \in 0..MaxVersion : \A c \in Bundle :
                 legible'.bundle[x][c] = IF x = v /\ c = b THEN left ELSE legible.bundle[x][c]
  <1>1. PICK B, F, M : /\ legible = [bundle |-> B, full |-> F, mom |-> M]
                       /\ B = [x \in 0..MaxVersion |-> [c \in Bundle |-> B[x][c]]]
                       /\ F = [x \in 0..MaxVersion |-> F[x]]
    BY LegibleFields
  <1>2. [B EXCEPT ![v][b] = left] = [x \in 0..MaxVersion |-> [c \in Bundle |->
                         IF x = v /\ c = b THEN left ELSE B[x][c]]]
    BY ONLY <1>1
  <1>3. legible' = [bundle |-> [B EXCEPT ![v][b] = left], full |-> F, mom |-> M]
    BY <1>1
  <1>4. /\ legible'.bundle = [x \in 0..MaxVersion |-> [c \in Bundle |->
                         IF x = v /\ c = b THEN left ELSE B[x][c]]]
        /\ legible'.mom = M /\ legible.mom = M /\ legible.bundle = B
    BY ONLY <1>1, <1>2, <1>3
  <1>5. QED
    BY ONLY <1>4

LEMMA FullLeft ==
    ASSUME LegibleOK, NEW v \in 0..MaxVersion, NEW left,
           legible' = [legible EXCEPT !.full[v] = left]
    PROVE  legible'.bundle = legible.bundle /\ legible'.mom = legible.mom
  <1>1. PICK B, F, M : legible = [bundle |-> B, full |-> F, mom |-> M]
    BY LegibleFields
  <1>2. legible' = [bundle |-> B, full |-> [F EXCEPT ![v] = left], mom |-> M]
    BY <1>1
  <1>3. QED
    BY ONLY <1>1, <1>2

LEMMA MoMLeft ==
    ASSUME LegibleOK, NEW v \in 0..MaxVersion, NEW left,
           legible' = [legible EXCEPT !.mom[v] = left]
    PROVE  /\ legible'.bundle = legible.bundle
           /\ \A x \in 0..MaxVersion :
                 legible'.mom[x] = IF x = v THEN left ELSE legible.mom[x]
  <1>1. PICK B, F, M : legible = [bundle |-> B, full |-> F, mom |-> M]
    BY LegibleFields
  <1>2. legible.mom = M /\ M \in [0..MaxVersion -> MoM \cup {Torn}]
    <2>1. legible.mom = M
      BY ONLY <1>1
    <2>2. QED
      BY <2>1 DEF LegibleOK
  <1>3. legible' = [bundle |-> B, full |-> F, mom |-> [M EXCEPT ![v] = left]]
    BY <1>1
  <1>4. /\ legible'.bundle = B /\ legible.bundle = B
        /\ legible'.mom = [M EXCEPT ![v] = left]
    BY ONLY <1>1, <1>3
  <1>5. QED
    BY <1>2, <1>4

\* Writing a manifest, whole or cut short.
LEMMA WriteManifestDisk ==
    ASSUME DiskTypeOK, NEW v \in 0..MaxVersion, NEW b \in Bundle, NEW m,
           IsManifest(m) \/ m = Torn,
           www' = [www EXCEPT ![v][b] = m], LegibleOK',
           UNCHANGED <<plan, lastVer, published, image, chroot, wwwFull, wwwMoM>>
    PROVE  /\ DiskTypeOK'
           /\ \A x \in 0..MaxVersion : \A c \in Bundle :
                www'[x][c] = IF x = v /\ c = b THEN m ELSE www[x][c]
  <1>1. www = [x \in 0..MaxVersion |-> [c \in Bundle |-> www[x][c]]]
    BY DEF DiskTypeOK
  <1>2. www' = [x \in 0..MaxVersion |-> [c \in Bundle |->
                  IF x = v /\ c = b THEN m ELSE www[x][c]]]
    BY <1>1
  <1>3. \A x \in 0..MaxVersion : \A c \in Bundle :
           www'[x][c] = IF x = v /\ c = b THEN m ELSE www[x][c]
    BY ONLY <1>2
  <1>4. www' = [x \in 0..MaxVersion |-> [c \in Bundle |-> www'[x][c]]]
    BY <1>2, <1>3
  <1> HIDE <1>2
  <1>5. \A x \in 0..MaxVersion : \A c \in Bundle :
           www'[x][c] \in {Absent, Torn} \/ IsManifest(www'[x][c])
    BY <1>3 DEF DiskTypeOK
  <1>6. DiskTypeOK'
    <2>1. LegibleOK'
      OBVIOUS
    <2>2. QED
      BY <1>4, <1>5, <2>1 DEF DiskTypeOK, LegibleOK
  <1>7. QED
    BY <1>3, <1>6

\* What is written for os-core can be read again.
LEMMA WriteCoreType ==
    ASSUME TypeInv, WriteCore
    PROVE  TypeInv'
  <1> USE DEF WriteCore
  <1>1. pc # "idle" /\ UNCHANGED <<plan, lastVer, image, nv>>
    OBVIOUS
  <1>2. DiskTypeOK'
    BY <1>1, RunType, UpdateAssumption, SameLegible, WriteManifestDisk DEF TypeInv, TypeOK, RunTypeOK
  <1>3. RunTypeOK'
    BY DEF TypeInv, TypeOK, RunTypeOK
  <1>4. StepOK'
    BY <1>1, SameRun DEF StepOK
  <1>5. QED
    BY <1>2, <1>3, <1>4 DEF TypeInv, TypeOK

\* The bundle loop: the cursor moves on to the next group, or to the MoM.
LEMMA CursorStep ==
    ASSUME TypeInv, pc \in {"bundle", "bundleMatched", "writeBundle"},
           UNCHANGED <<plan, lastVer, image, nv>>, gi' = gi + 1, pc' = AfterBundle
    PROVE  StepOK' /\ gi' \in Nat /\ pc' \in {"bundle", "mom"}
  <1>1. Run' = Run
    BY SameRun
  <1>2. gi \in 1..Len(Run.groups) /\ Len(Run.groups) \in Nat
    BY RunType DEF TypeInv, StepOK
  <1>3. pc' = "bundle" => gi' \in 1..Len(Run.groups)
    BY <1>2 DEF AfterBundle
  <1>4. pc' \in {"bundle", "mom"} /\ gi' \in Nat
    BY <1>2 DEF AfterBundle
  <1>5. QED
    BY <1>1, <1>3, <1>4, SameRun DEF StepOK

\* The cursor of the bundle loop points at a bundle of groups.ini.
LEMMA CurrentType ==
    ASSUME TypeInv, pc \in {"bundle", "bundleMatched", "writeBundle"}
    PROVE  Current \in Bundle /\ Current \in Groups
  <1>1. gi \in 1..Len(Run.groups) /\ Run.groups \in Seq(Bundle)
    BY RunType DEF TypeInv, StepOK
  <1>2. QED
    BY <1>1 DEF Current, Groups, Range

\* What is read and scanned for the other bundles are manifests.
LEMMA LoadBundlesType ==
    ASSUME TypeInv, LoadBundles
    PROVE  TypeInv'
  <1> USE DEF LoadBundles
  <1>1. pc # "idle" /\ UNCHANGED <<plan, lastVer, image, nv>> /\ UNCHANGED disk
    BY DEF disk
  <1>2. \A b \in Bundle : IsManifest(oldM'[b])
    BY <1>1, OldType DEF TypeInv, TypeOK, RunTypeOK
  <1>3. ASSUME NEW b \in Bundle
        PROVE  IsManifest(newM'[b])
    <2>1. IsFileList(FromDirectory(Run.img[b], nv, Run.ban))
      BY <1>1, RunType, HashedType
    <2>2. IsManifest(NewManifest(nv, 0, Run.inc[b], FromDirectory(Run.img[b], nv, Run.ban)))
      BY <1>1, <2>1, RunType, Nothing, NewManifestType
    <2>3. QED
      BY <2>2 DEF TypeInv, TypeOK, RunTypeOK
  <1>4. RunTypeOK'
    BY <1>2, <1>3 DEF TypeInv, TypeOK, RunTypeOK
  <1>5. 1 \in 1..Len(Run.groups)
    <2>1. Run.groups \in Seq(Bundle) /\ Core \in Groups
      BY <1>1, RunType
    <2>2. QED
      BY <2>1 DEF Groups, Range
  <1>6. StepOK'
    BY <1>1, <1>5, SameRun DEF StepOK
  <1>7. QED
    BY <1>1, <1>4, <1>6, SameDisk DEF TypeInv, TypeOK

\* Skipping os-core moves nothing but the cursor.
LEMMA SkipCoreType ==
    ASSUME TypeInv, SkipCore
    PROVE  TypeInv'
  <1> USE DEF SkipCore
  <1>1. UNCHANGED <<plan, lastVer, image, nv>> /\ UNCHANGED disk
    BY DEF disk
  <1>2. StepOK' /\ gi' \in Nat /\ pc' \in {"bundle", "mom"}
    BY <1>1, CursorStep
  <1>3. RunTypeOK'
    BY <1>2 DEF TypeInv, TypeOK, RunTypeOK
  <1>4. QED
    BY <1>1, <1>2, <1>3, SameDisk DEF TypeInv, TypeOK

\* Hashing, subtracting and matching a bundle leaves a manifest.
LEMMA MatchBundleType ==
    ASSUME TypeInv, MatchBundle
    PROVE  TypeInv'
  <1> DEFINE b == Current
             old == SubtractIncludes(oldM[b].files, oldM, b)
             raw == SubtractIncludes(AddHashes(newM[b].files, newFull.files), newM, b)
             matched == Matched(old, raw, nv, Run.minversion)
  <1>1. pc = "bundle" /\ UNCHANGED <<plan, lastVer, image, nv>> /\ UNCHANGED disk
    BY DEF disk, MatchBundle
  <1>2. b \in Bundle
    BY <1>1, CurrentType
  <1>3. IsManifest(oldM[b]) /\ IsManifest(newM[b]) /\ IsManifest(newFull)
    BY <1>2 DEF TypeInv, TypeOK, RunTypeOK
  <1>4. IsFileList(old) /\ IsFileList(raw)
    BY <1>3, ManifestType, AddHashesType, SubtractedType DEF SubtractIncludes
  <1>5. IsFileList(matched)
    <2> HIDE DEF old, raw
    <2> QED BY <1>1, <1>4, RunType, MatchedType
  <1>6. /\ oldM' = [oldM EXCEPT ![b].files = old, ![b].includes = @ \cup {Core}]
        /\ newM' = [newM EXCEPT ![b].files = matched, ![b].includes = @ \cup {Core},
                                ![b].prev = oldM[b].version]
        /\ changed' \in BOOLEAN /\ pc' = "bundleMatched"
        /\ UNCHANGED <<nv, gi, newFull, aborts>>
    BY DEF MatchBundle
  <1> HIDE DEF old, raw, matched, b
  <1>7. /\ IsManifest([oldM[b] EXCEPT !.files = old])
        /\ IsManifest([newM[b] EXCEPT !.files = matched])
    BY <1>3, <1>4, <1>5, ManifestExcept
  <1>8. \A m : IsManifest(m) => IsManifest([m EXCEPT !.includes = @ \cup {Core}])
    BY ManifestType, ManifestExcept, UpdateAssumption
  <1>9. oldM[b].version \in 0..MaxVersion
    BY <1>3, ManifestType
  <1> DEFINE oldb == [[oldM[b] EXCEPT !.files = old] EXCEPT !.includes = @ \cup {Core}]
             newb == [[newM[b] EXCEPT !.files = matched] EXCEPT !.includes = @ \cup {Core}]
             newc == [newb EXCEPT !.prev = oldM[b].version]
  <1>10. IsManifest(oldb) /\ IsManifest(newc)
    <2>1. IsManifest(oldb) /\ IsManifest(newb)
      BY <1>7, <1>8
    <2> HIDE DEF oldb, newb
    <2>2. QED
      BY <1>9, <2>1, ManifestExcept
  <1>11. RunTypeOK'
    <2>1. oldM' = [oldM EXCEPT ![b] = oldb] /\ newM' = [newM EXCEPT ![b] = newc]
      BY <1>2, <1>6 DEF TypeInv, TypeOK, RunTypeOK
    <2> HIDE DEF oldb, newc
    <2>2. QED
      BY <1>2, <1>6, <1>10, <2>1 DEF TypeInv, TypeOK, RunTypeOK
  <1>12. StepOK'
    BY <1>1, <1>6, SameRun DEF TypeInv, StepOK
  <1>13. QED
    BY <1>1, <1>6, <1>11, <1>12, SameDisk DEF TypeInv, TypeOK

\* An unchanged bundle keeps a version that exists.
LEMMA BundleUnchangedType ==
    ASSUME TypeInv, BundleUnchanged
    PROVE  TypeInv'
  <1> DEFINE b == Current
  <1>1. pc = "bundleMatched" /\ UNCHANGED <<plan, lastVer, image, nv>> /\ UNCHANGED disk
    BY DEF disk, BundleUnchanged, KeepOldVersion
  <1>2. b \in Bundle
    BY <1>1, CurrentType
  <1>3. /\ newM' = [newM EXCEPT ![b].version = oldM[b].version]
        /\ gi' = gi + 1 /\ pc' = AfterBundle
        /\ UNCHANGED <<nv, changed, newFull, oldM, aborts>>
    BY DEF BundleUnchanged, KeepOldVersion
  <1> HIDE DEF b
  <1>4. StepOK' /\ gi' \in Nat /\ pc' \in {"bundle", "mom"}
    BY <1>1, <1>3, CursorStep
  <1>5. IsManifest([newM[b] EXCEPT !.version = oldM[b].version])
    BY <1>2, ManifestType, ManifestExcept DEF TypeInv, TypeOK, RunTypeOK
  <1>6. RunTypeOK'
    BY <1>2, <1>3, <1>4, <1>5 DEF TypeInv, TypeOK, RunTypeOK
  <1>7. QED
    BY <1>1, <1>3, <1>4, <1>6, SameDisk DEF TypeInv, TypeOK

\* A changed bundle is completed, to be written or not.
LEMMA BundleChangedType ==
    ASSUME TypeInv, BundleChanged
    PROVE  TypeInv'
  <1> DEFINE b == Current
  <1>1. pc = "bundleMatched" /\ UNCHANGED <<plan, lastVer, image, nv>> /\ UNCHANGED disk
    BY DEF disk, BundleChanged
  <1>2. b \in Bundle
    BY <1>1, CurrentType
  <1>3. PICK m \in MatchingsOf(b), write \in BOOLEAN :
           /\ newM' = [newM EXCEPT ![b].files = Completed(oldM[b], newM[b], m),
                          ![b].version = IF write THEN @ ELSE oldM[b].version]
           /\ gi' = IF write THEN gi ELSE gi + 1
           /\ pc' = IF write THEN "writeBundle" ELSE AfterBundle
           /\ UNCHANGED <<nv, changed, newFull, oldM, aborts>>
    <2>1. \A files : WorthWriting(b, files) \in BOOLEAN
      BY DEF WorthWriting, IncludesChanged
    <2>2. QED
      BY <2>1 DEF BundleChanged
  <1> HIDE DEF b
  <1>4. IsFileList(Completed(oldM[b], newM[b], m))
    BY <1>1, <1>2, CompletedType
  <1>5. StepOK' /\ gi' \in Nat /\ pc' \in {"bundle", "mom", "writeBundle"}
    <2>1. CASE write
      <3>1. gi' = gi /\ pc' = "writeBundle"
        BY <1>3, <2>1
      <3>2. QED
        BY <1>1, <3>1, SameRun DEF TypeInv, TypeOK, RunTypeOK, StepOK
    <2>2. CASE ~write
      BY <1>1, <1>3, <2>2, CursorStep
    <2>3. QED
      BY <2>1, <2>2
  <1> DEFINE newf == [newM[b] EXCEPT !.files = Completed(oldM[b], newM[b], m)]
             newb == [newf EXCEPT !.version = IF write THEN @ ELSE oldM[b].version]
  <1>6. IsManifest(newb)
    <2>1. IsManifest(newf)
      BY <1>2, <1>4, ManifestExcept DEF TypeInv, TypeOK, RunTypeOK
    <2>2. oldM[b].version \in 0..MaxVersion
      BY <1>2, ManifestType DEF TypeInv, TypeOK, RunTypeOK
    <2> HIDE DEF newf
    <2>3. newf.version \in 0..MaxVersion
      BY <2>1, ManifestType
    <2>4. QED
      BY <2>1, <2>2, <2>3, ManifestExcept
  <1>7. RunTypeOK'
    <2>1. newM' = [newM EXCEPT ![b] = newb]
      BY <1>2, <1>3 DEF TypeInv, TypeOK, RunTypeOK
    <2> HIDE DEF newb
    <2>2. QED
      BY <1>2, <1>3, <1>5, <1>6, <2>1 DEF TypeInv, TypeOK, RunTypeOK
  <1>8. QED
    BY <1>1, <1>3, <1>5, <1>7, SameDisk DEF TypeInv, TypeOK

\* What is written for a bundle can be read again.
LEMMA WriteBundleType ==
    ASSUME TypeInv, WriteBundle
    PROVE  TypeInv'
  <1> USE DEF WriteBundle
  <1>1. pc = "writeBundle" /\ UNCHANGED <<plan, lastVer, image, nv>>
    OBVIOUS
  <1>2. DiskTypeOK'
    BY <1>1, RunType, CurrentType, SameLegible, WriteManifestDisk DEF TypeInv, TypeOK, RunTypeOK
  <1>3. StepOK' /\ gi' \in Nat /\ pc' \in {"bundle", "mom"}
    BY <1>1, CursorStep
  <1>4. RunTypeOK'
    BY <1>3 DEF TypeInv, TypeOK, RunTypeOK
  <1>5. QED
    BY <1>2, <1>3, <1>4 DEF TypeInv, TypeOK

\* The MoM lists bundles of groups.ini with versions that exist.
LEMMA NewMoMType ==
    ASSUME TypeInv, pc # "idle"
    PROVE  /\ NewMoM \in MoM
           /\ NewMoM.subs = [b \in Groups |-> newM[b].version]
  <1> DEFINE subs == [b \in Groups |-> newM[b].version]
  <1>1. Groups \subseteq Bundle /\ Run.format \in Nat
    BY RunType
  <1>2. \A b \in Groups : newM[b].version \in 0..MaxVersion
    BY <1>1, ManifestType DEF TypeInv, TypeOK, RunTypeOK
  <1>3. subs \in [Groups -> 0..MaxVersion]
    BY <1>2
  <1>4. subs \in UNION {[B -> 0..MaxVersion] : B \in SUBSET Bundle}
    BY <1>1, <1>3
  <1>5. nv \in 0..MaxVersion /\ OldMoM.version \in 0..MaxVersion
    BY RunType, OldType DEF MoM
  <1>6. (Run.format > OldMoM.format) \in BOOLEAN
    OBVIOUS
  <1>7. {b \in Groups : www[subs[b]][b] = Absent} \in SUBSET Bundle
    BY <1>1
  <1> HIDE DEF subs
  <1>8. NewMoM = [version |-> nv, prev |-> OldMoM.version, format |-> Run.format,
                  update |-> Run.format > OldMoM.format, subs |-> subs,
                  gone |-> {b \in Groups : www[subs[b]][b] = Absent}]
    BY DEF NewMoM, subs
  <1>9. NewMoM.subs = subs
    BY <1>8
  <1>10. QED
    BY <1>1, <1>4, <1>5, <1>6, <1>7, <1>8, <1>9 DEF MoM, subs

\* Writing the MoM.
LEMMA WriteMoMType ==
    ASSUME TypeInv, WriteMoM
    PROVE  TypeInv'
  <1> USE DEF WriteMoM
  <1>1. pc # "idle" /\ UNCHANGED <<plan, lastVer, image, nv>>
    OBVIOUS
  <1>2. NewMoM \in MoM
    BY <1>1, NewMoMType
  <1>3. DiskTypeOK'
    BY <1>1, <1>2, RunType DEF TypeInv, TypeOK, DiskTypeOK
  <1>4. RunTypeOK'
    BY DEF TypeInv, TypeOK, RunTypeOK
  <1>5. StepOK'
    BY <1>1, SameRun DEF StepOK
  <1>6. QED
    BY <1>3, <1>4, <1>5 DEF TypeInv, TypeOK

\* Maximising, cleaning and pruning the full manifest leaves a manifest.
LEMMA FinalFullType ==
    ASSUME TypeInv, pc # "idle"
    PROVE  IsManifest(FinalFull)
  <1> DEFINE max == Maximized(newFull.files, {newM[b].files : b \in Groups})
  <1>1. \A b \in Groups : IsFileList(newM[b].files)
    BY RunType, ManifestType DEF TypeInv, TypeOK, RunTypeOK
  <1>2. IsManifest(newFull) /\ IsFileList(newFull.files)
    BY ManifestType DEF TypeInv, TypeOK, RunTypeOK
  <1>3. IsFileList(max)
    BY <1>1, <1>2, MaximizedType
  <1>4. IsFileList(Pruned(RenamesCleaned(max, <<>>), Run.ban))
    BY <1>3, RenamesCleanedType, PrunedType
  <1>5. QED
    BY <1>2, <1>4, ManifestExcept DEF FinalFull

\* Writing the full manifest.
LEMMA WriteFullType ==
    ASSUME TypeInv, WriteFull
    PROVE  TypeInv'
  <1> USE DEF WriteFull
  <1>1. pc # "idle" /\ UNCHANGED <<plan, lastVer, image, nv>>
    OBVIOUS
  <1>2. IsManifest(FinalFull)
    BY <1>1, FinalFullType
  <1>3. DiskTypeOK'
    BY <1>1, <1>2, RunType DEF TypeInv, TypeOK, DiskTypeOK
  <1>4. RunTypeOK'
    BY DEF TypeInv, TypeOK, RunTypeOK
  <1>5. StepOK'
    BY <1>1, SameRun DEF StepOK
  <1>6. QED
    BY <1>3, <1>4, <1>5 DEF TypeInv, TypeOK

\* The end of a run, whatever it was.
LEMMA ForgetRunType ==
    ASSUME TypeInv, ForgetRun
    PROVE  RunTypeOK' /\ StepOK'
  BY NoManifestType, Nothing DEF ForgetRun, TypeInv, TypeOK, RunTypeOK, StepOK

\* Advancing LAST_VER to the version of the run.
LEMMA PublishType ==
    ASSUME TypeInv, Publish
    PROVE  TypeInv'
  <1>1. pc # "idle"
    BY DEF Publish
  <1>2. DiskTypeOK'
    BY <1>1, RunType DEF Publish, TypeInv, TypeOK, DiskTypeOK
  <1>3. RunTypeOK' /\ StepOK'
    BY ForgetRunType DEF Publish
  <1>4. QED
    BY <1>2, <1>3 DEF Publish, TypeInv, TypeOK

\* Ending a run without publishing it.
LEMMA GiveUpType ==
    ASSUME TypeInv, GiveUp
    PROVE  TypeInv'
  <1>1. aborts' \in 0..MaxAborts
    BY UpdateAssumption DEF GiveUp, TypeInv, TypeOK
  <1>2. RunTypeOK' /\ StepOK'
    BY ForgetRunType DEF GiveUp
  <1>3. QED
    BY <1>1, <1>2, SameDisk DEF GiveUp, TypeInv, TypeOK

\* What is left of a torn manifest reads as a manifest, if at all.
LEMMA ManifestCutsType ==
    ASSUME NEW m, IsManifest(m), NEW left \in ManifestCuts(m)
    PROVE  left = Torn \/ IsManifest(left)
  <1>0. /\ m.version \in 0..MaxVersion /\ m.prev \in 0..MaxVersion
        /\ m.format \in Nat /\ m.includes \in SUBSET Bundle /\ IsFileList(m.files)
    BY ManifestType
  <1>1. ASSUME NEW h \in HeaderCuts(m)
        PROVE  IsManifest([h EXCEPT !.includes = {}, !.files = <<>>])
    <2>1. /\ Clipped(m.version) \subseteq 0..MaxVersion /\ Clipped(m.prev) \subseteq 0..MaxVersion
          /\ Clipped(m.format) \subseteq Nat
      BY <1>0, PathAssumption DEF Clipped
    <2>2. IsManifest(h)
      <3>1. CASE \E k \in Nat : h = [m EXCEPT !.format = k, !.prev = 0]
        BY <3>1, Nothing DEF IsManifest
      <3>2. CASE \E v \in 0..MaxVersion : h = [m EXCEPT !.version = v, !.prev = 0]
        BY <3>2, Nothing DEF IsManifest
      <3>3. CASE \E v \in 0..MaxVersion : h = [m EXCEPT !.prev = v]
        BY <3>3 DEF IsManifest
      <3>4. QED
        BY <2>1, <3>1, <3>2, <3>3 DEF HeaderCuts
    <2>3. QED
      BY <2>2, Nothing, EmptyType DEF IsManifest
  <1>2. ASSUME NEW inc \in IncludeCuts(m.includes)
        PROVE  IsManifest([m EXCEPT !.includes = inc, !.files = <<>>])
    <2>1. inc \in SUBSET Bundle
      BY <1>0 DEF IncludeCuts
    <2>2. QED
      BY <2>1, EmptyType DEF IsManifest
  <1>3. ASSUME NEW f \in FileCuts(m.files)
        PROVE  IsManifest([m EXCEPT !.files = f])
    <2>1. IsFileList(f)
      <3> DEFINE old == m.files
                 Before(p) == {r \in DOMAIN old : old[r].last < old[p].last
                                       \/ (old[r].last = old[p].last /\ r < p)}
                 Cut(p, q) == [r \in Before(p) \cup {q} |-> IF r = q THEN old[p] ELSE old[r]]
      <3>1. IsFileList(old) /\ \A p : Before(p) \subseteq DOMAIN old
        BY <1>0
      <3>2. \/ f = old
            \/ \E p \in DOMAIN old : f = Restrict(old, Before(p))
            \/ \E p \in DOMAIN old : \E q \in Path : f = Cut(p, q)
        <4> DEFINE Names(p) == {q \in Path \ Before(p) :
                                   \A class \in {ConfigPaths, BootPaths} : q \in class <=> p \in class}
        <4>1. f \in {old} \cup {Restrict(old, Before(p)) : p \in DOMAIN old}
                   \cup UNION {{Cut(p, q) : q \in Names(p)} : p \in DOMAIN old}
          BY <1>3, Zenon DEF FileCuts
        <4>2. \A p : Names(p) \subseteq Path
          OBVIOUS
        <4> HIDE DEF old, Before, Cut, Names
        <4>3. \/ f = old
              \/ \E p \in DOMAIN old : f = Restrict(old, Before(p))
              \/ \E p \in DOMAIN old : f \in {Cut(p, q) : q \in Names(p)}
          BY ONLY <4>1
        <4>4. ASSUME NEW p, f \in {Cut(p, q) : q \in Names(p)}
              PROVE  \E q \in Path : f = Cut(p, q)
          BY <4>2, <4>4
        <4>5. QED
          BY <4>3, <4>4
      <3> HIDE DEF old, Before
      <3>3. CASE f = old
        BY <3>1, <3>3
      <3>4. CASE \E p \in DOMAIN old : f = Restrict(old, Before(p))
        BY <3>1, <3>4, RestrictType
      <3>5. ASSUME NEW p \in DOMAIN old, NEW q \in Path, f = Cut(p, q)
            PROVE  IsFileList(f)
        BY <3>1, <3>5 DEF IsFileList
      <3>6. QED
        BY <3>2, <3>3, <3>4, <3>5
    <2>2. QED
      BY <2>1 DEF IsManifest
  <1>4. QED
    BY <1>1, <1>2, <1>3 DEF ManifestCuts

\* And what is left of a torn MoM reads as a MoM.
LEMMA MoMCutsType ==
    ASSUME NEW m \in MoM, NEW left \in MoMCuts(m)
    PROVE  left \in MoM \cup {Torn}
  <1>0. /\ m.version \in 0..MaxVersion /\ m.prev \in 0..MaxVersion
        /\ m.format \in Nat /\ m.gone \in SUBSET Bundle
        /\ DOMAIN m.subs \in SUBSET Bundle /\ m.subs \in [DOMAIN m.subs -> 0..MaxVersion]
    BY DEF MoM
  <1>1. ASSUME NEW h \in HeaderCuts(m)
        PROVE  [h EXCEPT !.subs = <<>>, !.gone = {}] \in MoM
    <2>1. /\ Clipped(m.version) \subseteq 0..MaxVersion /\ Clipped(m.prev) \subseteq 0..MaxVersion
          /\ Clipped(m.format) \subseteq Nat
      BY <1>0, PathAssumption DEF Clipped
    <2>2. h \in MoM
      <3>1. CASE \E k \in Nat : h = [m EXCEPT !.format = k, !.prev = 0]
        BY <3>1, Nothing DEF MoM
      <3>2. CASE \E v \in 0..MaxVersion : h = [m EXCEPT !.version = v, !.prev = 0]
        BY <3>2, Nothing DEF MoM
      <3>3. CASE \E v \in 0..MaxVersion : h = [m EXCEPT !.prev = v]
        BY <3>3 DEF MoM
      <3>4. QED
        BY <2>1, <3>1, <3>2, <3>3 DEF HeaderCuts
    <2>3. <<>> \in UNION {[B -> 0..MaxVersion] : B \in SUBSET Bundle}
      <3>1. <<>> \in [{} -> 0..MaxVersion] /\ {} \in SUBSET Bundle
        OBVIOUS
      <3>2. QED
        BY ONLY <3>1
    <2>4. QED
      BY <2>2, <2>3, Nothing DEF MoM
  <1>2. ASSUME NEW S \in SUBSET DOMAIN m.subs
        PROVE  [m EXCEPT !.subs = Restrict(@, S), !.gone = @ \cap S] \in MoM
    <2>1. Restrict(m.subs, S) \in [S -> 0..MaxVersion] /\ S \in SUBSET Bundle
      BY <1>0 DEF Restrict
    <2>2. Restrict(m.subs, S) \in UNION {[B -> 0..MaxVersion] : B \in SUBSET Bundle}
      BY ONLY <2>1
    <2>3. QED
      BY <1>0, <2>2 DEF MoM
  <1>3. QED
    BY <1>1, <1>2 DEF MoMCuts

\* A crash leaves a partial chroot, which is an image, or a torn manifest.
LEMMA CrashType ==
    ASSUME TypeInv, Crash \/ CrashInChroot \/ CrashInWrite
    PROVE  TypeInv'
  <1>1. /\ pc # "idle" /\ pc' = "failed"
        /\ UNCHANGED <<plan, lastVer, published, image, nv, gi, changed, newFull, oldM, newM>>
        /\ aborts < MaxAborts /\ aborts' = aborts + 1
    BY DEF Crash, CrashInChroot, CrashInWrite, Running, disk
  <1>2. RunTypeOK'
    BY <1>1 DEF TypeInv, TypeOK, RunTypeOK
  <1>3. StepOK'
    BY <1>1, SameRun DEF StepOK
  <1>4. aborts' \in 0..MaxAborts
    BY <1>1, UpdateAssumption DEF TypeInv, TypeOK
  <1>5. DiskTypeOK'
    <2>1. CASE Crash
      BY <2>1, SameDisk DEF Crash, TypeInv, TypeOK
    <2>2. CASE CrashInChroot
      <3>1. PICK n \in 0..Len(Run.groups) : \E S \in SUBSET DOMAIN Overlay(Run, n) :
               chroot' = [chroot EXCEPT ![nv] = Restrict(Overlay(Run, n), S)]
        BY <2>2 DEF CrashInChroot
      <3>2. PICK S \in SUBSET DOMAIN Overlay(Run, n) :
               chroot' = [chroot EXCEPT ![nv] = Restrict(Overlay(Run, n), S)]
        BY <3>1
      <3>3. Overlay(Run, n) \in Image
        BY <1>1, RunType, OverlayType
      <3>4. Restrict(Overlay(Run, n), S) \in Image
        BY <3>3, ImageType DEF Restrict
      <3>5. QED
        BY <1>1, <2>2, <3>2, <3>4, RunType DEF CrashInChroot, TypeInv, TypeOK, DiskTypeOK
    <2>3. CASE CrashInWrite
      <3>0. /\ nv \in 0..MaxVersion /\ DiskTypeOK /\ LegibleOK
            /\ UNCHANGED <<plan, lastVer, published, image, chroot>>
        BY <1>1, <2>3, RunType DEF CrashInWrite, TypeInv, TypeOK, DiskTypeOK, LegibleOK
      <3>1. ASSUME NEW b \in Bundle, www' = [www EXCEPT ![nv][b] = Torn],
                   NEW left \in ManifestCuts(newM[b]),
                   legible' = [legible EXCEPT !.bundle[nv][b] = left],
                   UNCHANGED <<wwwFull, wwwMoM>>
            PROVE  DiskTypeOK'
        <4>1. left = Torn \/ IsManifest(left)
          BY <3>1, ManifestCutsType DEF TypeInv, TypeOK, RunTypeOK
        <4>2. LegibleOK'
          BY <3>0, <3>1, <4>1, BundleLegible
        <4>3. QED
          BY <3>0, <3>1, <4>2, WriteManifestDisk
      <3>2. CASE pc = "writeCore"
        BY <2>3, <3>1, <3>2, UpdateAssumption DEF CrashInWrite
      <3>3. CASE pc = "writeBundle"
        <4>1. PICK c \in Bundle : c = Current
          BY <3>3, CurrentType
        <4>2. QED
          BY <2>3, <3>1, <3>3, <4>1 DEF CrashInWrite
      <3>4. CASE pc = "mom"
        <4>1. PICK left \in MoMCuts(NewMoM) : legible' = [legible EXCEPT !.mom[nv] = left]
          BY <2>3, <3>4 DEF CrashInWrite
        <4>2. left \in MoM \cup {Torn}
          BY <1>1, NewMoMType, MoMCutsType
        <4>3. LegibleOK'
          BY <3>0, <4>1, <4>2, MoMLegible
        <4>4. wwwMoM' = [wwwMoM EXCEPT ![nv] = Torn] /\ UNCHANGED <<www, wwwFull>>
          BY <2>3, <3>4 DEF CrashInWrite
        <4>5. QED
          BY <3>0, <4>3, <4>4 DEF DiskTypeOK, LegibleOK
      <3>5. CASE pc = "writeFull"
        <4>1. PICK left \in ManifestCuts(FinalFull) :
                 legible' = [legible EXCEPT !.full[nv] = left]
          BY <2>3, <3>5 DEF CrashInWrite
        <4>2. left = Torn \/ IsManifest(left)
          BY <1>1, FinalFullType, ManifestCutsType
        <4>3. LegibleOK'
          BY <3>0, <4>1, <4>2, FullLegible
        <4>4. wwwFull' = [wwwFull EXCEPT ![nv] = Torn] /\ UNCHANGED <<www, wwwMoM>>
          BY <2>3, <3>5 DEF CrashInWrite
        <4>5. QED
          BY <3>0, <4>3, <4>4 DEF DiskTypeOK, LegibleOK
      <3>6. QED
        BY <2>3, <3>2, <3>3, <3>4, <3>5 DEF CrashInWrite
    <2>4. QED
      BY <2>1, <2>2, <2>3
  <1>6. QED
    BY <1>2, <1>3, <1>4, <1>5 DEF TypeInv, TypeOK

\* Every step keeps the types and what the steps rely on.
LEMMA NextType ==
    ASSUME TypeInv, [Next]_vars
    PROVE  TypeInv'
  <1>1. CASE UNCHANGED vars
    BY <1>1 DEF vars, disk, proc, TypeInv, TypeOK, DiskTypeOK, RunTypeOK, StepOK, Run
  <1>2. CASE \E v \in Version : \E in \in plan[v] : Start(v, in)
    BY <1>2, StartType
  <1>3. CASE CreateUpdateStep
    <2>1. ASSUME FormatTooOld \/ CoreTypeChange \/ IncludesUnresolvable
                 \/ BundleTypeChange \/ OldUnreadable
          PROVE  TypeInv'
      <3>1. pc # "idle" /\ Fail
        BY <2>1 DEF FormatTooOld, CoreTypeChange, IncludesUnresolvable,
                    BundleTypeChange, OldUnreadable
      <3>2. QED
        BY <3>1, FailType
    <2>2. QED
      BY <1>3, <2>1, CreateFullChrootType, CreateFullManifestType, MatchCoreType,
         CoreUnchangedType, CoreChangedType, WriteCoreType, LoadBundlesType,
         SkipCoreType, MatchBundleType, BundleUnchangedType, BundleChangedType,
         WriteBundleType, WriteMoMType, WriteFullType DEF CreateUpdateStep
  <1>4. CASE Publish \/ GiveUp
    BY <1>4, PublishType, GiveUpType
  <1>5. CASE Crash \/ CrashInChroot \/ CrashInWrite
    BY <1>5, CrashType
  <1>6. QED
    BY <1>1, <1>2, <1>3, <1>4, <1>5 DEF Next

\* Every state has its types: for any bundles, paths, inputs and number of
\* releases, what a run writes is a manifest whose entries, versions and
\* includes exist, and a later run can read it.
THEOREM TypeCorrect == Spec => []TypeOK
  <1>1. TypeInv /\ [Next]_vars => TypeInv'
    BY NextType
  <1>2. TypeInv => TypeOK
    BY DEF TypeInv
  <1>3. QED
    BY InitType, <1>1, <1>2, PTL DEF Spec
-----------------------------------------------------------------------------
(* No crash, failed run or rerun leaves a published release with a dangling  *)
(* or torn reference, provided the caller looks at the exit status.          *)
(*                                                                           *)
(* The invariant follows the references.  A version number a manifest is     *)
(* listed with is sound if the manifest was published with it, or if there   *)
(* is none (0); the run only ever writes below www/<nv>, which nothing       *)
(* published refers to; and when the MoM is written every bundle's version   *)
(* is a sound one or nv with its manifest in place.                          *)

\* The manifest of b in version s is there, complete, and says s.
Whole(s, b) == www[s][b] \notin {Absent, Torn} /\ www[s][b].version = s

\* A reference a published MoM may contain.
Sound(s, b) == s = 0 \/ (s \in published /\ Whole(s, b))

\* A reference the MoM of the run may contain.
Settled(s, b) == Sound(s, b) \/ (s = nv /\ Whole(nv, b))

\* The history: LAST_VER is the newest release, there is no version 0.
HistoryOK ==
    /\ lastVer \in published \cup {0}
    /\ \A v \in published : v <= lastVer
    /\ wwwMoM[0] = Absent /\ \A b \in Bundle : www[0][b] = Absent
    /\ PublishedIntact

\* The bundles whose old and new manifests are in memory, and those among them
\* whose new version is final.
Compared ==
    IF pc \in {"coreMatched", "writeCore", "load"} THEN {Core}
    ELSE IF pc \in {"bundle", "bundleMatched", "writeBundle", "mom"} THEN Groups
    ELSE {}

Finished ==
    IF pc = "load" THEN {Core}
    ELSE IF pc \in {"bundle", "bundleMatched", "writeBundle"}
    THEN {Core} \cup {Run.groups[j] : j \in 1..(gi-1)}
    ELSE IF pc = "mom" THEN Groups
    ELSE {}

MemoryOK ==
    /\ \A b \in Compared : /\ Sound(oldM[b].version, b)
                           /\ newM[b].version = nv \/ Sound(newM[b].version, b)
    /\ \A b \in Finished : Settled(newM[b].version, b)
    /\ pc \in {"coreMatched", "writeCore"} => newM[Core].version = nv

WrittenOK ==
    /\ pc \in {"writeFull", "done"} =>
          /\ wwwMoM[nv] \notin {Absent, Torn}
          /\ \A b \in Listed(nv) : Settled(wwwMoM[nv].subs[b], b)
    /\ pc = "done" => wwwFull[nv] \notin {Absent, Torn}

IntactInv == TypeInv /\ HistoryOK /\ MemoryOK /\ WrittenOK
-----------------------------------------------------------------------------
(* What the steps have in common *)

\* A MoM lists bundles, with versions.
LEMMA ListedType ==
    ASSUME TypeInv, NEW v \in 0..MaxVersion, wwwMoM[v] \notin {Absent, Torn}
    PROVE  /\ Listed(v) \subseteq Bundle
           /\ \A b \in Listed(v) : wwwMoM[v].subs[b] \in 0..MaxVersion
  <1>1. wwwMoM[v] \in MoM
    BY DEF TypeInv, TypeOK, DiskTypeOK
  <1>2. QED
    BY <1>1 DEF MoM, Listed

\* The version of the run is above everything published.
LEMMA NewVersion ==
    ASSUME IntactInv, pc # "idle"
    PROVE  /\ nv \in 0..MaxVersion /\ nv # 0 /\ nv \notin published
           /\ \A v \in published : v < nv /\ v \in 0..MaxVersion
  <1>1. nv \in Version /\ nv > lastVer /\ lastVer \in 0..MaxVersion /\ published \subseteq Version
    BY DEF IntactInv, TypeInv, TypeOK, DiskTypeOK, StepOK
  <1>2. \A v \in published : v <= lastVer
    BY DEF IntactInv, HistoryOK
  <1>3. QED
    BY <1>1, <1>2, PathAssumption DEF Version

\* A run writes below www/<nv> only, where no published reference leads.
LEMMA Untouched ==
    ASSUME IntactInv, pc # "idle", UNCHANGED <<lastVer, published, nv>>,
           \A s \in 0..MaxVersion : s # nv =>
              /\ wwwMoM'[s] = wwwMoM[s] /\ wwwFull'[s] = wwwFull[s]
              /\ \A b \in Bundle : www'[s][b] = www[s][b]
    PROVE  /\ HistoryOK'
           /\ \A s, b : b \in Bundle /\ Sound(s, b) => Sound(s, b)'
  <1>1. ASSUME NEW s, NEW b \in Bundle, Sound(s, b)
        PROVE  Sound(s, b)'
    BY <1>1, NewVersion DEF Sound, Whole
  <1>2. PublishedIntact'
    <2>1. SUFFICES ASSUME NEW v \in published
                   PROVE  /\ wwwMoM'[v] \notin {Absent, Torn} /\ wwwFull'[v] \notin {Absent, Torn}
                          /\ \A b \in DOMAIN wwwMoM'[v].subs :
                                LET s == wwwMoM'[v].subs[b]
                                IN  s # 0 => /\ s \in published /\ s <= v
                                             /\ www'[s][b] \notin {Absent, Torn}
                                             /\ www'[s][b].version = s
      BY DEF PublishedIntact, Listed
    <2>2. v \in 0..MaxVersion /\ v # nv
      BY NewVersion
    <2>3. wwwMoM'[v] = wwwMoM[v] /\ wwwFull'[v] = wwwFull[v]
      BY <2>2
    <2>4. /\ wwwMoM[v] \notin {Absent, Torn} /\ wwwFull[v] \notin {Absent, Torn}
          /\ \A b \in Listed(v) :
                LET s == wwwMoM[v].subs[b]
                IN  s # 0 => /\ s \in published /\ s <= v
                             /\ www[s][b] \notin {Absent, Torn}
                             /\ www[s][b].version = s
      BY DEF IntactInv, HistoryOK, PublishedIntact
    <2>5. Listed(v) \subseteq Bundle
      BY <2>2, <2>4, ListedType DEF IntactInv
    <2>6. \A s \in published : \A b \in Bundle : www'[s][b] = www[s][b]
      BY NewVersion
    <2>7. QED
      BY <2>3, <2>4, <2>5, <2>6 DEF Listed
  <1>3. wwwMoM'[0] = Absent /\ \A b \in Bundle : www'[0][b] = Absent
    BY NewVersion, PathAssumption DEF IntactInv, HistoryOK
  <1>4. HistoryOK'
    BY <1>2, <1>3 DEF IntactInv, HistoryOK
  <1>5. QED
    BY <1>1, <1>4

\* A step that only changes memory leaves references what they are.
LEMMA MemoryStep ==
    ASSUME IntactInv, UNCHANGED disk, UNCHANGED nv
    PROVE  /\ HistoryOK' /\ Run' = Run /\ Groups' = Groups
           /\ \A s, b : /\ Sound(s, b) => Sound(s, b)'
                        /\ Settled(s, b) => Settled(s, b)'
  <1>1. HistoryOK'
    BY DEF IntactInv, HistoryOK, PublishedIntact, Listed, disk
  <1>2. QED
    BY <1>1 DEF Sound, Settled, Whole, disk, Run, Groups

\* A step to a place where nothing is in memory or written that counts.
LEMMA QuietStep ==
    ASSUME IntactInv, TypeInv', UNCHANGED <<lastVer, published, www, wwwFull, wwwMoM>>,
           pc' \in {"idle", "chroot", "full", "core", "failed"}
    PROVE  IntactInv'
  <1>1. HistoryOK'
    BY DEF IntactInv, HistoryOK, PublishedIntact, Listed
  <1>2. MemoryOK' /\ WrittenOK'
    BY DEF MemoryOK, WrittenOK, Compared, Finished
  <1>3. QED
    BY <1>1, <1>2 DEF IntactInv

\* What is published is whole, and is read as it was written.
LEMMA ReadWhole ==
    ASSUME IntactInv
    PROVE  /\ OldMoMFile = wwwMoM[lastVer] /\ wwwMoM[lastVer] # Torn
           /\ lastVer # 0 => /\ lastVer \in published
                             /\ OldFullFile = wwwFull[lastVer]
                             /\ wwwMoM[lastVer] \notin {Absent, Torn}
                             /\ wwwFull[lastVer] \notin {Absent, Torn}
           /\ lastVer = 0 => wwwMoM[lastVer] = Absent
  <1>1. HistoryOK
    BY DEF IntactInv
  <1>2. CASE lastVer = 0
    BY <1>1, <1>2, UpdateAssumption DEF HistoryOK, OldMoMFile, Read
  <1>3. CASE lastVer # 0
    BY <1>1, <1>3 DEF HistoryOK, PublishedIntact, OldMoMFile, OldFullFile, Read
  <1>4. QED
    BY <1>2, <1>3

LEMMA ReadBundle ==
    ASSUME IntactInv, pc # "idle", NEW b \in Bundle
    PROVE  LET s == SubVersion(OldMoM, b)
           IN  /\ s = 0 \/ (s \in published /\ Whole(s, b))
               /\ OldFile(b) = www[s][b] /\ OldFile(b) # Torn
               /\ s = 0 => OldFile(b) = Absent
  <1> DEFINE s == SubVersion(OldMoM, b)
  <1>1. HistoryOK
    BY DEF IntactInv
  <1>2. s = 0 \/ (s \in published /\ Whole(s, b))
    <2>1. CASE wwwMoM[lastVer] = Absent
      BY <2>1, ReadWhole DEF OldMoM, NoMoM, SubVersion
    <2>2. CASE wwwMoM[lastVer] # Absent
      <3>1. lastVer \in published /\ OldMoM = wwwMoM[lastVer]
        BY <1>1, <2>2, ReadWhole DEF HistoryOK, OldMoM
      <3>2. QED
        BY <1>1, <3>1 DEF HistoryOK, PublishedIntact, Listed, SubVersion, Whole
    <2>3. QED
      BY <2>1, <2>2
  <1>3. www[s][b] # Torn /\ (s = 0 => www[s][b] = Absent)
    BY <1>1, <1>2, UpdateAssumption DEF HistoryOK, Whole
  <1>4. OldFile(b) = www[s][b]
    BY <1>3 DEF OldFile, Read
  <1>5. QED
    BY <1>2, <1>3, <1>4

\* What is compared against is sound: nothing, or a manifest published with
\* the version the last MoM lists it with.
LEMMA OldSound ==
    ASSUME IntactInv, pc # "idle", NEW b \in Bundle
    PROVE  Sound(FromFile(OldFile(b), SubVersion(OldMoM, b)).version, b)
  <1> DEFINE s == SubVersion(OldMoM, b)
  <1>1. /\ s = 0 \/ (s \in published /\ Whole(s, b))
        /\ OldFile(b) = www[s][b]
        /\ s = 0 => OldFile(b) = Absent
    BY ReadBundle
  <1>2. CASE s = 0
    BY <1>1, <1>2 DEF FromFile, NewManifest, Sound
  <1>3. CASE s \in published /\ Whole(s, b)
    BY <1>1, <1>3 DEF FromFile, Whole, Sound
  <1>4. QED
    BY <1>1, <1>2, <1>3

\* Moving the cursor on finishes the current bundle.
LEMMA Advance ==
    ASSUME TypeInv, pc \in {"bundle", "bundleMatched", "writeBundle"}, Groups' = Groups,
           Run' = Run, gi' = gi + 1, pc' = AfterBundle
    PROVE  /\ Compared = Groups /\ Compared' = Groups
           /\ Finished' \subseteq Finished \cup {Current}
  <1>1. gi \in 1..Len(Run.groups) /\ Run.groups \in Seq(Bundle)
    BY RunType DEF TypeInv, StepOK
  <1>2. pc' \in {"bundle", "mom"}
    BY DEF AfterBundle
  <1>3. Finished = {Core} \cup {Run.groups[j] : j \in 1..(gi-1)}
    BY DEF Finished
  <1>4. \A j \in 1..gi : j \in 1..(gi-1) \/ j = gi
    BY <1>1
  <1>5. CASE pc' = "bundle"
    <2>1. Finished' = {Core} \cup {Run.groups[j] : j \in 1..gi}
      BY <1>1, <1>5 DEF Finished
    <2>2. QED
      BY <1>2, <1>3, <1>4, <2>1 DEF Compared, Current
  <1>6. CASE pc' = "mom"
    <2>1. gi = Len(Run.groups)
      BY <1>1, <1>6 DEF AfterBundle
    <2>2. Groups = {Run.groups[j] : j \in 1..gi}
      BY <1>1, <2>1 DEF Groups, Range
    <2>3. Finished' = Groups
      BY <1>6 DEF Finished
    <2>4. QED
      BY <1>2, <1>3, <1>4, <2>2, <2>3 DEF Compared, Current
  <1>7. QED
    BY <1>2, <1>5, <1>6
-----------------------------------------------------------------------------
(* What the steps do to the versions of the manifests in memory *)

\* The version of a record after it was set.
LEMMA SetVersion ==
    ASSUME TypeInv, NEW c \in Bundle, NEW v,
           newM' = [newM EXCEPT ![c].version = v]
    PROVE  \A b \in Bundle : newM'[b].version = IF b = c THEN v ELSE newM[b].version
  <1>1. ASSUME NEW b \in Bundle
        PROVE  newM'[b].version = IF b = c THEN v ELSE newM[b].version
    <2>1. IsManifest(newM[b])
      BY DEF TypeInv, TypeOK, RunTypeOK
    <2>2. newM'[b] = IF b = c THEN [newM[b] EXCEPT !.version = v] ELSE newM[b]
      BY DEF TypeInv, TypeOK, RunTypeOK
    <2>3. QED
      BY <2>1, <2>2 DEF IsManifest
  <1>2. QED
    BY <1>1

\* Matching a bundle changes no version.
LEMMA MatchBundleVersions ==
    ASSUME TypeInv, MatchBundle
    PROVE  /\ pc = "bundle" /\ pc' = "bundleMatched" /\ UNCHANGED <<disk, nv, gi>>
           /\ \A b \in Bundle : /\ oldM'[b].version = oldM[b].version
                                /\ newM'[b].version = newM[b].version
  <1>1. pc = "bundle" /\ pc' = "bundleMatched" /\ UNCHANGED <<disk, nv, gi>>
    BY DEF MatchBundle
  <1>2. PICK old, new : /\ oldM' = [oldM EXCEPT ![Current].files = old,
                                                ![Current].includes = @ \cup {Core}]
                        /\ newM' = [newM EXCEPT ![Current].files = new,
                                                ![Current].includes = @ \cup {Core},
                                                ![Current].prev = oldM[Current].version]
    BY DEF MatchBundle
  <1>3. ASSUME NEW b \in Bundle
        PROVE  oldM'[b].version = oldM[b].version /\ newM'[b].version = newM[b].version
    <2>1. IsManifest(oldM[b]) /\ IsManifest(newM[b])
      BY DEF TypeInv, TypeOK, RunTypeOK
    <2>2. oldM'[b] = IF b = Current
                     THEN [oldM[b] EXCEPT !.files = old, !.includes = @ \cup {Core}]
                     ELSE oldM[b]
      BY <1>2 DEF TypeInv, TypeOK, RunTypeOK
    <2>3. newM'[b] = IF b = Current
                     THEN [newM[b] EXCEPT !.files = new, !.includes = @ \cup {Core},
                                          !.prev = oldM[Current].version]
                     ELSE newM[b]
      BY <1>2 DEF TypeInv, TypeOK, RunTypeOK
    <2>4. QED
      BY <2>1, <2>2, <2>3 DEF IsManifest
  <1>4. QED
    BY <1>1, <1>3

\* A changed bundle keeps the new version and is written, or falls back to the
\* version it was loaded with.
LEMMA BundleChangedVersions ==
    ASSUME TypeInv, BundleChanged
    PROVE  \E write \in BOOLEAN :
              /\ gi' = IF write THEN gi ELSE gi + 1
              /\ pc' = IF write THEN "writeBundle" ELSE AfterBundle
              /\ \A b \in Bundle : newM'[b].version =
                    IF b = Current /\ ~write THEN oldM[Current].version ELSE newM[b].version
  <1>1. pc = "bundleMatched" /\ UNCHANGED <<disk, nv, oldM>>
    BY DEF BundleChanged
  <1>2. PICK write \in BOOLEAN : \E files :
           /\ newM' = [newM EXCEPT ![Current].files = files,
                          ![Current].version = IF write THEN @ ELSE oldM[Current].version]
           /\ gi' = IF write THEN gi ELSE gi + 1
           /\ pc' = IF write THEN "writeBundle" ELSE AfterBundle
    <2>1. \A files : WorthWriting(Current, files) \in BOOLEAN
      BY DEF WorthWriting, IncludesChanged
    <2>2. PICK m \in MatchingsOf(Current) :
             LET b     == Current
                 files == Completed(oldM[b], newM[b], m)
                 write == WorthWriting(b, files)
             IN  /\ newM' = [newM EXCEPT ![b].files = files,
                            ![b].version = IF write THEN @ ELSE oldM[b].version]
                 /\ gi' = IF write THEN gi ELSE gi + 1
                 /\ pc' = IF write THEN "writeBundle" ELSE AfterBundle
      BY DEF BundleChanged
    <2> DEFINE files == Completed(oldM[Current], newM[Current], m)
               write == WorthWriting(Current, files)
    <2>3. write \in BOOLEAN
      BY <2>1
    <2>4. /\ newM' = [newM EXCEPT ![Current].files = files,
                         ![Current].version = IF write THEN @ ELSE oldM[Current].version]
          /\ gi' = IF write THEN gi ELSE gi + 1
          /\ pc' = IF write THEN "writeBundle" ELSE AfterBundle
      BY <2>2
    <2> HIDE DEF files, write
    <2>5. QED
      BY <2>3, <2>4
  <1>3. PICK files : newM' = [newM EXCEPT ![Current].files = files,
                       ![Current].version = IF write THEN @ ELSE oldM[Current].version]
    BY <1>2
  <1>4. Current \in Bundle
    BY <1>1, CurrentType
  <1>5. ASSUME NEW b \in Bundle
        PROVE  newM'[b].version = IF b = Current /\ ~write THEN oldM[Current].version
                                  ELSE newM[b].version
    <2>1. IsManifest(newM[b])
      BY DEF TypeInv, TypeOK, RunTypeOK
    <2>2. newM'[b] = IF b = Current
                     THEN [newM[b] EXCEPT !.files = files,
                              !.version = IF write THEN @ ELSE oldM[Current].version]
                     ELSE newM[b]
      BY <1>3 DEF TypeInv, TypeOK, RunTypeOK
    <2>3. QED
      BY <2>1, <2>2 DEF IsManifest
  <1>6. QED
    BY <1>2, <1>5

-----------------------------------------------------------------------------
(* The steps that change what is in memory *)

\* os-core is loaded with the version it was published with, or none.
LEMMA MatchCoreIntact ==
    ASSUME IntactInv, TypeInv', MatchCore
    PROVE  IntactInv'
  <1> DEFINE old == FromFile(OldFile(Core), SubVersion(OldMoM, Core))
  <1>1. pc = "core" /\ pc' = "coreMatched" /\ UNCHANGED disk /\ UNCHANGED nv
    BY DEF MatchCore
  <1>2. Sound(old.version, Core)
    BY <1>1, UpdateAssumption, OldSound DEF MatchCore
  <1>3. oldM'[Core].version = old.version
    BY UpdateAssumption DEF MatchCore, IntactInv, TypeInv, TypeOK, RunTypeOK
  <1>4. newM'[Core].version = nv
    BY UpdateAssumption DEF MatchCore, NewManifest, IntactInv, TypeInv, TypeOK, RunTypeOK
  <1> HIDE DEF old
  <1>5. Sound(oldM[Core].version, Core)'
    BY <1>1, <1>2, <1>3, MemoryStep
  <1>6. MemoryOK'
    BY <1>1, <1>4, <1>5 DEF MemoryOK, Compared, Finished
  <1>7. WrittenOK'
    BY <1>1 DEF WrittenOK
  <1>8. QED
    BY <1>1, <1>6, <1>7, MemoryStep DEF IntactInv

\* An unchanged os-core stays at the version it was loaded with.
LEMMA CoreUnchangedIntact ==
    ASSUME IntactInv, TypeInv', CoreUnchanged
    PROVE  IntactInv'
  <1>1. pc = "coreMatched" /\ pc' = "load" /\ UNCHANGED <<disk, nv, oldM>>
    BY DEF CoreUnchanged
  <1>2. newM'[Core].version = oldM[Core].version
    <2>1. IsManifest(newM[Core])
      BY UpdateAssumption DEF IntactInv, TypeInv, TypeOK, RunTypeOK
    <2>2. [newM[Core] EXCEPT !.version = oldM[Core].version].version = oldM[Core].version
      BY <2>1 DEF IsManifest
    <2>3. newM' = [newM EXCEPT ![Core] = [newM[Core] EXCEPT !.version = oldM[Core].version]]
      BY DEF CoreUnchanged
    <2>4. QED
      BY <2>2, <2>3, UpdateAssumption DEF IntactInv, TypeInv, TypeOK, RunTypeOK
  <1>3. Sound(oldM[Core].version, Core)
    BY <1>1 DEF IntactInv, MemoryOK, Compared
  <1>4. Sound(oldM[Core].version, Core)'
    BY <1>1, <1>3, MemoryStep
  <1>5. MemoryOK'
    BY <1>1, <1>2, <1>4 DEF MemoryOK, Compared, Finished, Settled
  <1>6. WrittenOK'
    BY <1>1 DEF WrittenOK
  <1>7. QED
    BY <1>1, <1>5, <1>6, MemoryStep DEF IntactInv

\* A changed os-core has the new version and is about to be written.
LEMMA CoreChangedIntact ==
    ASSUME IntactInv, TypeInv', CoreChanged
    PROVE  IntactInv'
  <1>1. pc = "coreMatched" /\ UNCHANGED <<disk, nv, oldM>> /\ pc' \in {"failed", "writeCore"}
    BY Zenon DEF CoreChanged
  <1>2. CASE pc' = "failed"
    BY <1>1, <1>2, QuietStep DEF disk
  <1>3. CASE pc' = "writeCore"
    <2>1. PICK files : newM' = [newM EXCEPT ![Core].files = files]
      BY DEF CoreChanged
    <2>2. newM'[Core].version = newM[Core].version
      <3>1. IsManifest(newM[Core])
        BY UpdateAssumption DEF IntactInv, TypeInv, TypeOK, RunTypeOK
      <3>2. [newM[Core] EXCEPT !.files = files].version = newM[Core].version
        BY <3>1 DEF IsManifest
      <3>3. newM' = [newM EXCEPT ![Core] = [newM[Core] EXCEPT !.files = files]]
        BY <2>1
      <3>4. QED
        BY <3>2, <3>3, UpdateAssumption DEF IntactInv, TypeInv, TypeOK, RunTypeOK
    <2>3. newM[Core].version = nv /\ Sound(oldM[Core].version, Core)
      BY <1>1 DEF IntactInv, MemoryOK, Compared
    <2>4. Sound(oldM[Core].version, Core)'
      BY <1>1, <2>3, MemoryStep
    <2>5. MemoryOK'
      BY <1>1, <1>3, <2>2, <2>3, <2>4 DEF MemoryOK, Compared, Finished
    <2>6. WrittenOK'
      BY <1>3 DEF WrittenOK
    <2>7. QED
      BY <1>1, <2>5, <2>6, MemoryStep DEF IntactInv
  <1>4. QED
    BY <1>1, <1>2, <1>3

\* The bundles are loaded with the versions they were published with, or none,
\* and are to get the new version.
LEMMA LoadBundlesIntact ==
    ASSUME IntactInv, TypeInv', LoadBundles
    PROVE  IntactInv'
  <1>1. pc = "load" /\ pc' = "bundle" /\ gi' = 1 /\ UNCHANGED <<disk, nv>>
    BY DEF LoadBundles
  <1>2. Groups \subseteq Bundle /\ Core \in Groups
    BY <1>1, RunType DEF IntactInv
  <1>3. /\ Sound(oldM[Core].version, Core)
        /\ newM[Core].version = nv \/ Sound(newM[Core].version, Core)
        /\ Settled(newM[Core].version, Core)
    BY <1>1 DEF IntactInv, MemoryOK, Compared, Finished
  <1>4. oldM'[Core] = oldM[Core] /\ newM'[Core] = newM[Core]
    BY <1>2 DEF LoadBundles
  <1>5. ASSUME NEW b \in Groups
        PROVE  /\ Sound(oldM'[b].version, b)
               /\ newM'[b].version = nv \/ Sound(newM'[b].version, b)
    <2>1. CASE b = Core
      BY <1>3, <1>4, <2>1
    <2>2. CASE b # Core
      <3>1. oldM'[b] = FromFile(OldFile(b), SubVersion(OldMoM, b))
        BY <1>2, <2>2 DEF LoadBundles
      <3>2. Sound(oldM'[b].version, b)
        BY <1>1, <1>2, <3>1, OldSound DEF LoadBundles
      <3>3. newM'[b].version = nv
        BY <1>2, <2>2 DEF LoadBundles, NewManifest
      <3>4. QED
        BY <3>2, <3>3
    <2>3. QED
      BY <2>1, <2>2
  <1>6. Compared' = Groups
    BY <1>1, MemoryStep DEF Compared
  <1>7. Finished' = {Core}
    BY <1>1 DEF Finished
  <1>8. MemoryOK'
    BY <1>1, <1>3, <1>4, <1>5, <1>6, <1>7, MemoryStep DEF MemoryOK
  <1>9. WrittenOK'
    BY <1>1 DEF WrittenOK
  <1>10. QED
    BY <1>1, <1>8, <1>9, MemoryStep DEF IntactInv

\* A step of the bundle loop that stays at its bundle and keeps the versions.
LEMMA SameVersions ==
    ASSUME IntactInv, TypeInv', UNCHANGED <<disk, nv, gi>>,
           pc \in {"bundle", "bundleMatched"}, pc' \in {"bundleMatched", "writeBundle"},
           \A b \in Bundle : /\ oldM'[b].version = oldM[b].version
                             /\ newM'[b].version = newM[b].version
    PROVE  IntactInv'
  <1>1. Groups \subseteq Bundle /\ Run.groups \in Seq(Bundle) /\ Core \in Bundle
    BY RunType, UpdateAssumption DEF IntactInv
  <1>2. Compared = Groups /\ Compared' = Groups
    BY MemoryStep DEF Compared
  <1>3. Finished' = Finished /\ Finished \subseteq Bundle
    <2>1. gi \in 1..Len(Run.groups)
      BY DEF IntactInv, TypeInv, StepOK
    <2>2. \A j \in 1..(gi-1) : Run.groups[j] \in Bundle
      BY <1>1, <2>1
    <2>3. Run' = Run
      BY MemoryStep
    <2>4. QED
      BY <1>1, <2>2, <2>3 DEF Finished
  <1>4. /\ \A b \in Groups : /\ Sound(oldM[b].version, b)
                             /\ newM[b].version = nv \/ Sound(newM[b].version, b)
        /\ \A b \in Finished : Settled(newM[b].version, b)
    BY <1>2 DEF IntactInv, MemoryOK
  <1>5. MemoryOK'
    BY <1>1, <1>2, <1>3, <1>4, MemoryStep DEF MemoryOK
  <1>6. WrittenOK'
    BY DEF WrittenOK
  <1>7. QED
    BY <1>5, <1>6, MemoryStep DEF IntactInv

\* A step of the bundle loop that goes on with the next bundle: the current one
\* is settled, the others keep their versions.
LEMMA NextBundle ==
    ASSUME IntactInv, TypeInv', UNCHANGED <<disk, nv>>,
           pc \in {"bundle", "bundleMatched"}, gi' = gi + 1, pc' = AfterBundle,
           \A b \in Bundle : oldM'[b].version = oldM[b].version,
           \A b \in Bundle \ {Current} : newM'[b].version = newM[b].version,
           \/ newM'[Current].version = oldM[Current].version
           \/ Current = Core /\ newM'[Core].version = newM[Core].version
    PROVE  IntactInv'
  <1>1. Groups \subseteq Bundle /\ Current \in Groups
    BY RunType, CurrentType DEF IntactInv
  <1>2. /\ Compared = Groups /\ Compared' = Groups
        /\ Finished' \subseteq Finished \cup {Current}
    BY MemoryStep, Advance DEF IntactInv
  <1>3. /\ \A b \in Groups : /\ Sound(oldM[b].version, b)
                             /\ newM[b].version = nv \/ Sound(newM[b].version, b)
        /\ \A b \in Finished : Settled(newM[b].version, b)
    BY <1>2 DEF IntactInv, MemoryOK
  <1>4. Finished \subseteq Bundle /\ Core \in Finished
    <2>1. Run.groups \in Seq(Bundle) /\ gi \in 1..Len(Run.groups)
      BY RunType DEF IntactInv, TypeInv, StepOK
    <2>2. \A j \in 1..(gi-1) : Run.groups[j] \in Bundle
      BY <2>1
    <2>3. QED
      BY <2>2, UpdateAssumption DEF Finished
  <1>5. Settled(newM'[Current].version, Current)
    BY <1>1, <1>3, <1>4 DEF Settled
  <1>6. ASSUME NEW b \in Groups
        PROVE  /\ Sound(oldM'[b].version, b)
               /\ newM'[b].version = nv \/ Sound(newM'[b].version, b)
    <2>1. CASE b = Current
      BY <1>1, <1>3, <1>5, <2>1 DEF Settled
    <2>2. CASE b # Current
      BY <1>1, <1>3, <2>2
    <2>3. QED
      BY <2>1, <2>2
  <1>7. \A b \in Finished' : Settled(newM'[b].version, b)
    BY <1>2, <1>3, <1>4, <1>5
  <1>8. pc' \notin {"coreMatched", "writeCore", "writeFull", "done"}
    BY DEF AfterBundle
  <1>9. MemoryOK'
    BY <1>1, <1>2, <1>6, <1>7, <1>8, MemoryStep DEF MemoryOK
  <1>10. WrittenOK'
    BY <1>8 DEF WrittenOK
  <1>11. QED
    BY <1>9, <1>10, MemoryStep DEF IntactInv

\* Skipping os-core, which is settled by now.
LEMMA SkipCoreIntact ==
    ASSUME IntactInv, TypeInv', SkipCore
    PROVE  IntactInv'
  BY NextBundle DEF SkipCore

\* Matching a bundle keeps the references.
LEMMA MatchBundleIntact ==
    ASSUME IntactInv, TypeInv', MatchBundle
    PROVE  IntactInv'
  BY MatchBundleVersions, SameVersions DEF IntactInv

\* An unchanged bundle stays at the version it was loaded with.
LEMMA BundleUnchangedIntact ==
    ASSUME IntactInv, TypeInv', BundleUnchanged
    PROVE  IntactInv'
  <1>1. /\ pc = "bundleMatched" /\ gi' = gi + 1 /\ pc' = AfterBundle
        /\ UNCHANGED <<disk, nv, oldM>>
        /\ newM' = [newM EXCEPT ![Current].version = oldM[Current].version]
    BY DEF BundleUnchanged, KeepOldVersion
  <1>2. Current \in Bundle
    BY <1>1, CurrentType DEF IntactInv
  <1>3. \A b \in Bundle : newM'[b].version = IF b = Current THEN oldM[Current].version
                                            ELSE newM[b].version
    BY <1>1, <1>2, SetVersion DEF IntactInv
  <1>4. QED
    BY <1>1, <1>2, <1>3, NextBundle

\* A changed bundle keeps the references.
LEMMA BundleChangedIntact ==
    ASSUME IntactInv, TypeInv', BundleChanged
    PROVE  IntactInv'
  <1>1. pc = "bundleMatched" /\ UNCHANGED <<disk, nv, oldM>> /\ Current \in Bundle
    BY CurrentType DEF BundleChanged, IntactInv
  <1>2. PICK write \in BOOLEAN :
           /\ gi' = IF write THEN gi ELSE gi + 1
           /\ pc' = IF write THEN "writeBundle" ELSE AfterBundle
           /\ \A b \in Bundle : newM'[b].version =
                 IF b = Current /\ ~write THEN oldM[Current].version ELSE newM[b].version
    BY BundleChangedVersions DEF IntactInv
  <1>3. CASE write
    BY <1>1, <1>2, <1>3, SameVersions
  <1>4. CASE ~write
    BY <1>1, <1>2, <1>4, NextBundle
  <1>5. QED
    BY <1>3, <1>4
-----------------------------------------------------------------------------
(* The steps that write *)

\* Writing one manifest below www/<nv>: what is sound stays sound, and the
\* bundle it is of is whole.
LEMMA WriteManifestIntact ==
    ASSUME IntactInv, pc # "idle", NEW c \in Bundle, NEW m, IsManifest(m) \/ m = Torn,
           www' = [www EXCEPT ![nv][c] = m],
           UNCHANGED <<plan, lastVer, published, image, chroot, wwwFull, wwwMoM, nv>>
    PROVE  /\ HistoryOK'
           /\ \A s, b : b \in Bundle /\ Sound(s, b) => Sound(s, b)'
           /\ \A b \in Bundle : www'[nv][b] = IF b = c THEN m ELSE www[nv][b]
  <1>1. nv \in 0..MaxVersion
    BY NewVersion
  <1>2. \A x \in 0..MaxVersion : \A b \in Bundle :
           www'[x][b] = IF x = nv /\ b = c THEN m ELSE www[x][b]
    <2>1. www = [x \in 0..MaxVersion |-> [b \in Bundle |-> www[x][b]]]
      BY DEF IntactInv, TypeInv, TypeOK, DiskTypeOK
    <2>2. www' = [x \in 0..MaxVersion |-> [b \in Bundle |->
                    IF x = nv /\ b = c THEN m ELSE www[x][b]]]
      BY <1>1, <2>1
    <2>3. QED
      BY ONLY <2>2
  <1>3. HistoryOK' /\ \A s, b : b \in Bundle /\ Sound(s, b) => Sound(s, b)'
    BY <1>2, Untouched
  <1>4. QED
    BY <1>1, <1>2, <1>3

\* os-core is written with the new version and so is settled.
LEMMA WriteCoreIntact ==
    ASSUME IntactInv, TypeInv', WriteCore
    PROVE  IntactInv'
  <1>1. /\ pc = "writeCore" /\ pc' = "load" /\ Core \in Bundle
        /\ UNCHANGED <<plan, lastVer, published, image, chroot, wwwFull, wwwMoM, nv, oldM, newM>>
        /\ www' = [www EXCEPT ![nv][Core] = newM[Core]]
    BY UpdateAssumption DEF WriteCore
  <1>2. IsManifest(newM[Core])
    BY <1>1 DEF IntactInv, TypeInv, TypeOK, RunTypeOK
  <1>3. /\ HistoryOK'
        /\ \A s, b : b \in Bundle /\ Sound(s, b) => Sound(s, b)'
        /\ www'[nv][Core] = newM[Core]
    <2>1. /\ pc # "idle" /\ IntactInv
          /\ UNCHANGED <<plan, lastVer, published, image, chroot, wwwFull, wwwMoM, nv>>
      BY <1>1
    <2>2. /\ HistoryOK'
          /\ \A s, b : b \in Bundle /\ Sound(s, b) => Sound(s, b)'
          /\ \A b \in Bundle : www'[nv][b] = IF b = Core THEN newM[Core] ELSE www[nv][b]
      BY ONLY <1>1, <1>2, <2>1, WriteManifestIntact
    <2>3. QED
      BY <1>1, <2>2
  <1>4. newM[Core].version = nv /\ Sound(oldM[Core].version, Core)
    BY <1>1 DEF IntactInv, MemoryOK, Compared
  <1>5. Whole(nv, Core)'
    BY <1>1, <1>2, <1>3, <1>4, Distinct DEF Whole
  <1>6. Sound(oldM[Core].version, Core)'
    BY <1>1, <1>3, <1>4
  <1>7. MemoryOK'
    BY <1>1, <1>4, <1>5, <1>6 DEF MemoryOK, Compared, Finished, Settled
  <1>8. WrittenOK'
    BY <1>1 DEF WrittenOK
  <1>9. QED
    BY <1>3, <1>7, <1>8 DEF IntactInv

\* A bundle is written with the new version, or its version is a sound one, and
\* so it is settled; the others are not touched.
LEMMA WriteBundleIntact ==
    ASSUME IntactInv, TypeInv', WriteBundle
    PROVE  IntactInv'
  <1>0. PICK c \in Bundle : c = Current
    BY CurrentType DEF IntactInv, WriteBundle
  <1>1. /\ pc = "writeBundle" /\ pc' = AfterBundle /\ gi' = gi + 1
        /\ UNCHANGED <<plan, lastVer, published, image, chroot, wwwFull, wwwMoM, nv, oldM, newM>>
        /\ www' = [www EXCEPT ![nv][c] = newM[c]]
    BY <1>0 DEF WriteBundle
  <1>2. c \in Bundle /\ c \in Groups /\ Groups \subseteq Bundle
    BY <1>0, <1>1, CurrentType, RunType DEF IntactInv
  <1>3. IsManifest(newM[c])
    BY <1>2 DEF IntactInv, TypeInv, TypeOK, RunTypeOK
  <1>4. Run' = Run /\ Groups' = Groups
    BY <1>1 DEF Run, Groups
  <1>5. /\ Compared = Groups /\ Compared' = Groups
        /\ Finished' \subseteq Finished \cup {c}
    BY <1>0, <1>1, <1>4, Advance DEF IntactInv
  <1>6. /\ HistoryOK'
        /\ \A s, b : b \in Bundle /\ Sound(s, b) => Sound(s, b)'
        /\ \A b \in Bundle : www'[nv][b] = IF b = c THEN newM[c] ELSE www[nv][b]
    BY <1>1, <1>2, <1>3, WriteManifestIntact
  <1>7. /\ \A b \in Groups : /\ Sound(oldM[b].version, b)
                             /\ newM[b].version = nv \/ Sound(newM[b].version, b)
        /\ \A b \in Finished : Settled(newM[b].version, b)
    BY <1>5 DEF IntactInv, MemoryOK
  <1>8. ASSUME NEW b \in Groups
        PROVE  (/\ Sound(oldM[b].version, b)
                /\ newM[b].version = nv \/ Sound(newM[b].version, b))'
    BY <1>1, <1>2, <1>6, <1>7
  <1>9. Settled(newM[c].version, c)'
    <2>1. CASE newM[c].version = nv
      BY <1>1, <1>2, <1>3, <1>6, <2>1, Distinct DEF Settled, Whole
    <2>2. CASE Sound(newM[c].version, c)
      BY <1>1, <1>2, <1>6, <2>2 DEF Settled
    <2>3. QED
      BY <1>2, <1>7, <2>1, <2>2
  <1>10. ASSUME NEW b \in Finished, b # c, b \in Bundle
         PROVE  Settled(newM[b].version, b)'
    <2>1. CASE Sound(newM[b].version, b)
      BY <1>1, <1>6, <1>10, <2>1 DEF Settled
    <2>2. CASE newM[b].version = nv /\ Whole(nv, b)
      BY <1>1, <1>6, <1>10, <2>2 DEF Settled, Whole
    <2>3. QED
      BY <1>7, <2>1, <2>2 DEF Settled
  <1>11. Finished \subseteq Bundle
    <2>1. Run.groups \in Seq(Bundle) /\ gi \in 1..Len(Run.groups)
      BY <1>1, RunType DEF IntactInv, TypeInv, StepOK
    <2>2. \A j \in 1..(gi-1) : Run.groups[j] \in Bundle
      BY <2>1
    <2>3. QED
      BY <1>1, <2>2, UpdateAssumption DEF Finished
  <1>12. \A b \in Finished' : Settled(newM[b].version, b)'
    BY <1>5, <1>9, <1>10, <1>11
  <1>13. pc' \notin {"coreMatched", "writeCore", "writeFull", "done"}
    BY <1>1 DEF AfterBundle
  <1>14. MemoryOK'
    BY <1>5, <1>8, <1>12, <1>13 DEF MemoryOK
  <1>15. WrittenOK'
    BY <1>13 DEF WrittenOK
  <1>16. QED
    BY <1>6, <1>14, <1>15 DEF IntactInv

\* The MoM lists every group with a settled version.
LEMMA WriteMoMIntact ==
    ASSUME IntactInv, TypeInv', WriteMoM
    PROVE  IntactInv'
  <1>1. /\ pc = "mom" /\ pc' = "writeFull"
        /\ UNCHANGED <<plan, lastVer, published, image, chroot, www, wwwFull, nv, oldM, newM>>
        /\ wwwMoM' = [wwwMoM EXCEPT ![nv] = NewMoM]
    BY DEF WriteMoM
  <1>2. /\ nv \in 0..MaxVersion /\ NewMoM \in MoM
        /\ NewMoM.subs = [b \in Groups |-> newM[b].version]
    BY <1>1, NewVersion, NewMoMType DEF IntactInv
  <1>3. \A s \in 0..MaxVersion : wwwMoM'[s] = IF s = nv THEN NewMoM ELSE wwwMoM[s]
    BY <1>1, <1>2 DEF IntactInv, TypeInv, TypeOK, DiskTypeOK
  <1>4. HistoryOK' /\ \A s, b : b \in Bundle /\ Sound(s, b) => Sound(s, b)'
    BY <1>1, <1>3, Untouched
  <1>5. Groups \subseteq Bundle
    BY <1>1, RunType DEF IntactInv
  <1>6. \A b \in Groups : Settled(newM[b].version, b)
    BY <1>1 DEF IntactInv, MemoryOK, Finished
  <1>7. ASSUME NEW b \in Groups
        PROVE  Settled(newM[b].version, b)'
    <2>1. CASE Sound(newM[b].version, b)
      BY <1>1, <1>4, <1>5, <2>1 DEF Settled
    <2>2. CASE newM[b].version = nv /\ Whole(nv, b)
      BY <1>1, <2>2 DEF Settled, Whole
    <2>3. QED
      BY <1>6, <2>1, <2>2 DEF Settled
  <1>8. wwwMoM'[nv] = NewMoM /\ NewMoM \notin {Absent, Torn}
    BY <1>2, <1>3, Distinct
  <1>9. ASSUME NEW b \in Groups
        PROVE  Settled(wwwMoM[nv].subs[b], b)'
    <2>1. wwwMoM'[nv'].subs[b] = newM'[b].version
      BY <1>1, <1>2, <1>8
    <2>2. QED
      BY <1>7, <2>1
  <1>10. Listed(nv)' = Groups
    BY <1>1, <1>2, <1>8 DEF Listed
  <1>11. WrittenOK'
    BY <1>1, <1>8, <1>9, <1>10 DEF WrittenOK
  <1>12. MemoryOK'
    BY <1>1 DEF MemoryOK, Compared, Finished
  <1>13. QED
    BY <1>4, <1>11, <1>12 DEF IntactInv

\* The full manifest is complete, and the MoM stays what it is.
LEMMA WriteFullIntact ==
    ASSUME IntactInv, TypeInv', WriteFull
    PROVE  IntactInv'
  <1>1. /\ pc = "writeFull" /\ pc' = "done"
        /\ UNCHANGED <<plan, lastVer, published, image, chroot, www, wwwMoM, nv, oldM, newM>>
        /\ wwwFull' = [wwwFull EXCEPT ![nv] = FinalFull]
    BY DEF WriteFull
  <1>2. nv \in 0..MaxVersion /\ FinalFull \notin {Absent, Torn}
    BY <1>1, NewVersion, FinalFullType, Distinct DEF IntactInv
  <1>3. \A s \in 0..MaxVersion : wwwFull'[s] = IF s = nv THEN FinalFull ELSE wwwFull[s]
    BY <1>1, <1>2 DEF IntactInv, TypeInv, TypeOK, DiskTypeOK
  <1>4. HistoryOK' /\ \A s, b : b \in Bundle /\ Sound(s, b) => Sound(s, b)'
    BY <1>1, <1>3, Untouched
  <1>5. /\ wwwMoM[nv] \notin {Absent, Torn}
        /\ \A b \in Listed(nv) : Settled(wwwMoM[nv].subs[b], b)
    BY <1>1 DEF IntactInv, WrittenOK
  <1>6. Listed(nv)' = Listed(nv) /\ Listed(nv) \subseteq Bundle
    BY <1>1, <1>2, <1>5, ListedType DEF Listed, IntactInv
  <1>7. ASSUME NEW b \in Listed(nv)
        PROVE  Settled(wwwMoM[nv].subs[b], b)'
    <2>1. CASE Sound(wwwMoM[nv].subs[b], b)
      BY <1>1, <1>4, <1>6, <2>1 DEF Settled
    <2>2. CASE wwwMoM[nv].subs[b] = nv /\ Whole(nv, b)
      BY <1>1, <2>2 DEF Settled, Whole
    <2>3. QED
      BY <1>5, <2>1, <2>2 DEF Settled
  <1>8. WrittenOK'
    BY <1>1, <1>2, <1>3, <1>5, <1>6, <1>7 DEF WrittenOK
  <1>9. MemoryOK'
    BY <1>1 DEF MemoryOK, Compared, Finished
  <1>10. QED
    BY <1>4, <1>8, <1>9 DEF IntactInv

\* A write that is cut short is below www/<nv> as well, and the run is over.
LEMMA CrashInWriteIntact ==
    ASSUME IntactInv, TypeInv', CrashInWrite
    PROVE  IntactInv'
  <1>1. /\ pc # "idle" /\ pc' = "failed"
        /\ UNCHANGED <<plan, lastVer, published, image, chroot, nv>>
    BY DEF CrashInWrite
  <1>2. nv \in 0..MaxVersion
    BY <1>1, NewVersion
  <1>3. HistoryOK'
    <2>1. ASSUME NEW c \in Bundle, www' = [www EXCEPT ![nv][c] = Torn],
                 UNCHANGED <<wwwFull, wwwMoM>>
          PROVE  HistoryOK'
      BY <1>1, <2>1, WriteManifestIntact
    <2>2. CASE pc = "writeCore"
      BY <2>1, <2>2, UpdateAssumption DEF CrashInWrite
    <2>3. CASE pc = "writeBundle"
      BY <2>1, <2>3, CurrentType DEF CrashInWrite, IntactInv
    <2>4. CASE pc \in {"mom", "writeFull"}
      <3>1. /\ UNCHANGED www
            /\ \A s \in 0..MaxVersion : s # nv =>
                  wwwMoM'[s] = wwwMoM[s] /\ wwwFull'[s] = wwwFull[s]
        BY <2>4 DEF CrashInWrite, IntactInv, TypeInv, TypeOK, DiskTypeOK
      <3>2. QED
        BY <1>1, <3>1, Untouched
    <2>5. QED
      BY <2>2, <2>3, <2>4 DEF CrashInWrite
  <1>4. MemoryOK' /\ WrittenOK'
    BY <1>1 DEF MemoryOK, WrittenOK, Compared, Finished
  <1>5. QED
    BY <1>3, <1>4 DEF IntactInv

\* What a caller publishes who looks at the exit status is complete, and its
\* references are published with it.
LEMMA PublishIntact ==
    ASSUME CheckExit, IntactInv, TypeInv', Publish
    PROVE  IntactInv'
  <1>1. /\ pc = "done" /\ pc' = "idle" /\ lastVer' = nv /\ published' = published \cup {nv}
        /\ UNCHANGED <<www, wwwFull, wwwMoM>>
    BY DEF Publish, ForgetRun
  <1>2. /\ nv \in 0..MaxVersion /\ nv # 0 /\ nv \notin published
        /\ \A v \in published : v < nv /\ v \in 0..MaxVersion
    BY <1>1, NewVersion
  <1>3. /\ wwwMoM[nv] \notin {Absent, Torn} /\ wwwFull[nv] \notin {Absent, Torn}
        /\ \A b \in Listed(nv) : Settled(wwwMoM[nv].subs[b], b)
    BY <1>1 DEF IntactInv, WrittenOK
  <1>4. ASSUME NEW b \in Listed(nv)
        PROVE  LET s == wwwMoM[nv].subs[b]
               IN  s # 0 => /\ s \in published' /\ s <= nv
                            /\ www[s][b] \notin {Absent, Torn} /\ www[s][b].version = s
    BY <1>1, <1>2, <1>3 DEF Settled, Sound, Whole
  <1>5. PublishedIntact'
    BY <1>1, <1>3, <1>4 DEF PublishedIntact, Listed, IntactInv, HistoryOK
  <1>6. HistoryOK'
    BY <1>1, <1>2, <1>5 DEF IntactInv, HistoryOK
  <1>7. MemoryOK' /\ WrittenOK'
    BY <1>1 DEF MemoryOK, WrittenOK, Compared, Finished
  <1>8. QED
    BY <1>6, <1>7 DEF IntactInv
-----------------------------------------------------------------------------
(* The theorem *)

\* Nothing is published in the beginning.
LEMMA InitIntact == Init => IntactInv
  <1> SUFFICES ASSUME Init PROVE IntactInv
    OBVIOUS
  <1>1. TypeInv
    BY InitType
  <1>2. HistoryOK
    <2>1. wwwMoM[0] = Absent /\ \A b \in Bundle : www[0][b] = Absent
      BY PathAssumption DEF Init
    <2>2. QED
      BY <2>1 DEF Init, HistoryOK, PublishedIntact
  <1>3. MemoryOK /\ WrittenOK
    BY DEF Init, MemoryOK, WrittenOK, Compared, Finished
  <1>4. QED
    BY <1>1, <1>2, <1>3 DEF IntactInv

\* Every step keeps the references whole.
LEMMA NextIntact ==
    ASSUME CheckExit, IntactInv, [Next]_vars
    PROVE  IntactInv'
  <1>0. TypeInv'
    BY NextType DEF IntactInv
  <1>1. CASE UNCHANGED vars
    BY <1>0, <1>1 DEF vars, disk, proc, IntactInv, HistoryOK, PublishedIntact, Listed,
          MemoryOK, WrittenOK, Compared, Finished, Sound, Settled, Whole, Run, Groups
  <1>2. CASE \E v \in Version : \E in \in plan[v] : Start(v, in)
    BY <1>0, <1>2, QuietStep DEF Start
  <1>3. CASE CreateUpdateStep
    <2>1. ASSUME FormatTooOld \/ CoreTypeChange \/ IncludesUnresolvable
                 \/ BundleTypeChange \/ OldUnreadable
          PROVE  IntactInv'
      <3>1. Fail
        BY <2>1 DEF FormatTooOld, CoreTypeChange, IncludesUnresolvable,
                    BundleTypeChange, OldUnreadable
      <3>2. QED
        BY <1>0, <3>1, QuietStep DEF Fail, disk
    <2>2. ASSUME CreateFullChroot \/ CreateFullManifest
          PROVE  IntactInv'
      BY <1>0, <2>2, QuietStep DEF CreateFullChroot, CreateFullManifest, disk
    <2>3. QED
      BY <1>0, <1>3, <2>1, <2>2, MatchCoreIntact, CoreUnchangedIntact, CoreChangedIntact,
         WriteCoreIntact, LoadBundlesIntact, SkipCoreIntact, MatchBundleIntact,
         BundleUnchangedIntact, BundleChangedIntact, WriteBundleIntact, WriteMoMIntact,
         WriteFullIntact DEF CreateUpdateStep
  <1>4. CASE Publish
    BY <1>0, <1>4, PublishIntact
  <1>5. CASE GiveUp \/ Crash \/ CrashInChroot
    BY <1>0, <1>5, QuietStep DEF GiveUp, ForgetRun, Crash, CrashInChroot, disk
  <1>6. CASE CrashInWrite
    BY <1>0, <1>6, CrashInWriteIntact
  <1>7. QED
    BY <1>1, <1>2, <1>3, <1>4, <1>5, <1>6 DEF Next

\* If the caller looks at the exit status, a published MoM names for every
\* bundle nothing or a complete manifest of a published version, and its full
\* manifest is complete, whatever crashes, failed runs and reruns came before.
THEOREM ReleasesIntact == CheckExit => (Spec => []PublishedIntact)
  <1> SUFFICES ASSUME CheckExit PROVE Spec => []PublishedIntact
    OBVIOUS
  <1>1. IntactInv /\ [Next]_vars => IntactInv'
    BY NextIntact
  <1>2. IntactInv => PublishedIntact
    BY DEF IntactInv, HistoryOK
  <1>3. QED
    BY InitIntact, <1>1, <1>2, PTL DEF Spec

\* A step of any kind leaves what is published alone, and version 0.
LEMMA PublishedStep ==
    ASSUME IntactInv, [Next]_vars, NEW v \in published \cup {0}
    PROVE  /\ v \in published => v \in published'
           /\ www'[v] = www[v]
           /\ wwwMoM'[v] = wwwMoM[v] /\ wwwFull'[v] = wwwFull[v]
  <1>0. /\ v \in 0..MaxVersion
        /\ v \in DOMAIN www /\ v \in DOMAIN wwwFull /\ v \in DOMAIN wwwMoM
    <2>1. published \subseteq 0..MaxVersion
      BY DEF IntactInv, TypeInv, TypeOK, DiskTypeOK, Version
    <2>2. /\ DOMAIN www = 0..MaxVersion /\ DOMAIN wwwFull = 0..MaxVersion
          /\ DOMAIN wwwMoM = 0..MaxVersion
      BY DEF IntactInv, TypeInv, TypeOK, DiskTypeOK
    <2>3. QED
      BY <2>1, <2>2, PathAssumption
  <1>1. pc # "idle" => nv # v
    BY NewVersion
  <1>2. CASE UNCHANGED <<published, www, wwwMoM, wwwFull>>
    BY <1>2
  <1>3. CASE Publish
    BY <1>3 DEF Publish
  <1>4. CASE WriteCore \/ WriteBundle
    BY <1>0, <1>1, <1>4 DEF WriteCore, WriteBundle
  <1>5. CASE WriteMoM \/ WriteFull
    BY <1>0, <1>1, <1>5 DEF WriteMoM, WriteFull
  <1>6. CASE CrashInWrite
    BY <1>0, <1>1, <1>6 DEF CrashInWrite
  <1>7. CASE \E x \in Version : \E in \in plan[x] : Start(x, in)
    BY <1>2, <1>7 DEF Start
  <1>8. CASE CreateFullChroot \/ CrashInChroot
    BY <1>2, <1>8 DEF CreateFullChroot, CrashInChroot
  <1>9. CASE CreateFullManifest \/ MatchCore \/ CoreUnchanged \/ CoreChanged \/ LoadBundles
             \/ SkipCore \/ MatchBundle \/ BundleUnchanged \/ BundleChanged
    BY <1>2, <1>9 DEF CreateFullManifest, MatchCore, CoreUnchanged, CoreChanged, LoadBundles,
       SkipCore, MatchBundle, BundleUnchanged, KeepOldVersion, BundleChanged, disk
  <1>10. CASE FormatTooOld \/ CoreTypeChange \/ IncludesUnresolvable \/ BundleTypeChange
              \/ OldUnreadable \/ GiveUp \/ Crash
    BY <1>2, <1>10 DEF FormatTooOld, CoreTypeChange, IncludesUnresolvable, BundleTypeChange,
       OldUnreadable, GiveUp, Crash, Fail, disk
  <1>11. CASE UNCHANGED vars
    BY <1>2, <1>11 DEF vars, disk
  <1>12. QED
    BY <1>3, <1>4, <1>5, <1>6, <1>7, <1>8, <1>9, <1>10, <1>11 DEF Next, CreateUpdateStep

\* What clients download never changes once it is published: every manifest of
\* every published version stays as it is, and no release is taken back.
THEOREM PublishedNeverChanges == CheckExit => (Spec => ReleasesImmutable)
  <1> SUFFICES ASSUME CheckExit PROVE Spec => ReleasesImmutable
    OBVIOUS
  <1> DEFINE Kept == \A v \in published :
                        v \in published' /\ www'[v] = www[v]
                        /\ wwwMoM'[v] = wwwMoM[v] /\ wwwFull'[v] = wwwFull[v]
  <1>1. IntactInv /\ [Next]_vars => IntactInv'
    BY NextIntact
  <1>2. IntactInv /\ [Next]_vars => [Kept]_vars
    BY PublishedStep
  <1>3. QED
    BY InitIntact, <1>1, <1>2, PTL DEF Spec, ReleasesImmutable
-----------------------------------------------------------------------------
(* A run that exits with 0 has written whole what its MoM dates to its       *)
(* version, whoever publishes what: also over a release that was published   *)
(* torn, and over the leavings of earlier attempts.                          *)
(*                                                                           *)
(* What was published torn may read as anything older than it was, but       *)
(* nothing below www/<v> says it is newer than v.  So a manifest that is     *)
(* read is older than the run, and only a manifest that is written has the   *)
(* version of the run.                                                       *)

Dates(m, s) == m \in {Absent, Torn} \/ m.version <= s

DatesMoM(m, s) == m \in {Absent, Torn} \/ \A b \in DOMAIN m.subs : m.subs[b] <= s

\* Nothing is newer than the version it was written for.
DatesOK ==
    \A s \in 0..MaxVersion :
        /\ DatesMoM(wwwMoM[s], s) /\ DatesMoM(legible.mom[s], s)
        /\ \A b \in Bundle : Dates(www[s][b], s) /\ Dates(legible.bundle[s][b], s)

\* What a MoM of the run may say of b: an older version, or a manifest that was written.
Kept(s, b) == s < nv \/ (s = nv /\ Whole(nv, b))

RunDates ==
    /\ \A b \in Compared : oldM[b].version < nv /\ newM[b].version <= nv
    /\ \A b \in Finished : Kept(newM[b].version, b)
    /\ pc \in {"coreMatched", "writeCore"} => newM[Core].version = nv

RunWrites ==
    /\ pc \in {"writeFull", "done"} =>
          /\ wwwMoM[nv] \notin {Absent, Torn}
          /\ \A b \in Listed(nv) : Kept(wwwMoM[nv].subs[b], b)
    /\ pc = "done" => wwwFull[nv] \notin {Absent, Torn}

WholeInv == TypeInv /\ DatesOK /\ RunDates /\ RunWrites

\* The same facts while the disk stays what it is.
LEMMA MemoryDates ==
    ASSUME WholeInv, UNCHANGED disk, UNCHANGED nv
    PROVE  /\ DatesOK' /\ Run' = Run /\ Groups' = Groups
           /\ \A s, b : Kept(s, b) => Kept(s, b)'
  BY DEF WholeInv, DatesOK, Dates, DatesMoM, Kept, Whole, disk, Run, Groups

\* A step to a place where nothing is in memory or written that counts.
LEMMA QuietDates ==
    ASSUME WholeInv, TypeInv', UNCHANGED <<www, wwwMoM, legible>>,
           pc' \in {"idle", "chroot", "full", "core", "failed"}
    PROVE  WholeInv'
  BY DEF WholeInv, DatesOK, Dates, DatesMoM, RunDates, RunWrites, Compared, Finished

\* What is read is older than the run.
LEMMA OldDates ==
    ASSUME WholeInv, pc # "idle", NEW b \in Bundle
    PROVE  FromFile(OldFile(b), SubVersion(OldMoM, b)).version < nv
  <1> DEFINE s == SubVersion(OldMoM, b)
  <1>1. lastVer \in 0..MaxVersion /\ lastVer < nv /\ nv \in 0..MaxVersion
    BY RunType DEF WholeInv, TypeInv, TypeOK, DiskTypeOK, StepOK
  <1>2. s \in 0..MaxVersion /\ s <= lastVer
    <2>1. s \in 0..MaxVersion
      BY OldType DEF WholeInv
    <2>2. DatesMoM(OldMoMFile, lastVer)
      BY <1>1 DEF WholeInv, DatesOK, OldMoMFile, Read
    <2>3. \A c \in DOMAIN OldMoM.subs : OldMoM.subs[c] <= lastVer
      BY <2>2 DEF OldMoM, NoMoM, DatesMoM
    <2>4. QED
      BY <1>1, <2>1, <2>3 DEF SubVersion
  <1> HIDE DEF s
  <1>3. Dates(OldFile(b), s)
    BY <1>2 DEF WholeInv, DatesOK, OldFile, Read, s
  <1>4. FromFile(OldFile(b), s).version <= s /\ FromFile(OldFile(b), s).version \in 0..MaxVersion
    <2>1. IsManifest(FromFile(OldFile(b), s))
      BY OldType DEF WholeInv, s
    <2>2. FromFile(OldFile(b), s).version <= s
      BY <1>2, <1>3 DEF FromFile, NewManifest, Dates
    <2>3. QED
      BY <2>1, <2>2, ManifestType
  <1>5. QED
    BY <1>1, <1>2, <1>4 DEF s

\* os-core is loaded with an older version.
LEMMA MatchCoreDates ==
    ASSUME WholeInv, TypeInv', MatchCore
    PROVE  WholeInv'
  <1> DEFINE old == FromFile(OldFile(Core), SubVersion(OldMoM, Core))
  <1>1. pc = "core" /\ pc' = "coreMatched" /\ UNCHANGED disk /\ UNCHANGED nv
    BY DEF MatchCore
  <1>2. old.version < nv
    BY <1>1, UpdateAssumption, OldDates
  <1>3. oldM'[Core].version = old.version
    BY UpdateAssumption DEF MatchCore, WholeInv, TypeInv, TypeOK, RunTypeOK
  <1>4. newM'[Core].version = nv /\ nv \in 0..MaxVersion
    BY <1>1, RunType, UpdateAssumption
       DEF MatchCore, NewManifest, WholeInv, TypeInv, TypeOK, RunTypeOK
  <1> HIDE DEF old
  <1>5. RunDates' /\ RunWrites'
    BY <1>1, <1>2, <1>3, <1>4 DEF RunDates, RunWrites, Compared, Finished
  <1>6. QED
    BY <1>1, <1>5, MemoryDates DEF WholeInv

\* An unchanged os-core stays at its older version.
LEMMA CoreUnchangedDates ==
    ASSUME WholeInv, TypeInv', CoreUnchanged
    PROVE  WholeInv'
  <1>1. pc = "coreMatched" /\ pc' = "load" /\ UNCHANGED <<disk, nv, oldM>>
        /\ newM' = [newM EXCEPT ![Core].version = oldM[Core].version]
    BY DEF CoreUnchanged
  <1>2. newM'[Core].version = oldM[Core].version
    <2>1. PICK v : v = oldM[Core].version
      OBVIOUS
    <2>2. newM' = [newM EXCEPT ![Core].version = v] /\ TypeInv /\ Core \in Bundle
      BY <1>1, <2>1, UpdateAssumption DEF WholeInv
    <2>3. \A b \in Bundle : newM'[b].version = IF b = Core THEN v ELSE newM[b].version
      BY ONLY <2>2, SetVersion
    <2>4. QED
      BY <2>1, <2>2, <2>3
  <1>3. oldM[Core].version < nv /\ nv \in 0..MaxVersion /\ oldM[Core].version \in 0..MaxVersion
    BY <1>1, UpdateAssumption, RunType, ManifestType
       DEF WholeInv, RunDates, Compared, TypeInv, TypeOK, RunTypeOK
  <1>4. RunDates' /\ RunWrites'
    BY <1>1, <1>2, <1>3 DEF RunDates, RunWrites, Compared, Finished, Kept
  <1>5. QED
    BY <1>1, <1>4, MemoryDates DEF WholeInv

\* A changed os-core has the new version and is about to be written.
LEMMA CoreChangedDates ==
    ASSUME WholeInv, TypeInv', CoreChanged
    PROVE  WholeInv'
  <1>1. pc = "coreMatched" /\ UNCHANGED <<disk, nv, oldM>> /\ pc' \in {"failed", "writeCore"}
    BY Zenon DEF CoreChanged
  <1>2. CASE pc' = "failed"
    BY <1>1, <1>2, QuietDates DEF disk
  <1>3. CASE pc' = "writeCore"
    <2>1. PICK files : newM' = [newM EXCEPT ![Core].files = files]
      BY DEF CoreChanged
    <2>2. newM'[Core].version = newM[Core].version
      <3>1. IsManifest(newM[Core])
        BY UpdateAssumption DEF WholeInv, TypeInv, TypeOK, RunTypeOK
      <3>2. [newM[Core] EXCEPT !.files = files].version = newM[Core].version
        BY <3>1 DEF IsManifest
      <3>3. newM' = [newM EXCEPT ![Core] = [newM[Core] EXCEPT !.files = files]]
        BY <2>1
      <3>4. QED
        BY <3>2, <3>3, UpdateAssumption DEF WholeInv, TypeInv, TypeOK, RunTypeOK
    <2>3. newM[Core].version = nv /\ oldM[Core].version < nv /\ newM[Core].version <= nv
      BY <1>1 DEF WholeInv, RunDates, Compared
    <2>4. RunDates' /\ RunWrites'
      BY <1>1, <1>3, <2>2, <2>3 DEF RunDates, RunWrites, Compared, Finished
    <2>5. QED
      BY <1>1, <2>4, MemoryDates DEF WholeInv
  <1>4. QED
    BY <1>1, <1>2, <1>3

\* The bundles are loaded with older versions and are to get the new one.
LEMMA LoadBundlesDates ==
    ASSUME WholeInv, TypeInv', LoadBundles
    PROVE  WholeInv'
  <1>1. pc = "load" /\ pc' = "bundle" /\ gi' = 1 /\ UNCHANGED <<disk, nv>>
    BY DEF LoadBundles
  <1>2. Groups \subseteq Bundle /\ Core \in Groups /\ nv \in 0..MaxVersion
    BY <1>1, RunType DEF WholeInv
  <1>3. /\ oldM[Core].version < nv /\ newM[Core].version <= nv
        /\ Kept(newM[Core].version, Core)
    BY <1>1 DEF WholeInv, RunDates, Compared, Finished
  <1>4. oldM'[Core] = oldM[Core] /\ newM'[Core] = newM[Core]
    BY <1>2 DEF LoadBundles
  <1>5. ASSUME NEW b \in Groups, b # Core
        PROVE  oldM'[b].version < nv /\ newM'[b].version = nv
    <2>1. oldM'[b] = FromFile(OldFile(b), SubVersion(OldMoM, b))
      BY <1>2, <1>5 DEF LoadBundles
    <2>2. newM'[b].version = nv
      BY <1>2, <1>5 DEF LoadBundles, NewManifest
    <2>3. QED
      BY <1>1, <1>2, <2>1, <2>2, OldDates
  <1>6. Compared' = Groups /\ Finished' = {Core}
    BY <1>1, MemoryDates DEF Compared, Finished
  <1>7. \A b \in Groups : oldM'[b].version < nv /\ newM'[b].version <= nv
    BY <1>2, <1>3, <1>4, <1>5
  <1>8. Kept(newM[Core].version, Core)'
    BY <1>1, <1>3, <1>4, MemoryDates
  <1>9. RunDates' /\ RunWrites'
    BY <1>1, <1>6, <1>7, <1>8 DEF RunDates, RunWrites
  <1>10. QED
    BY <1>1, <1>9, MemoryDates DEF WholeInv

\* The bundles that are done with are groups, and the current one is a bundle.
LEMMA LoopBundles ==
    ASSUME TypeInv, pc \in {"bundle", "bundleMatched", "writeBundle"}
    PROVE  /\ Groups \subseteq Bundle /\ Core \in Bundle /\ Core \in Finished
           /\ Finished \subseteq Bundle /\ Compared = Groups
           /\ nv \in 0..MaxVersion
           /\ \A b \in Bundle : oldM[b].version \in 0..MaxVersion /\ newM[b].version \in 0..MaxVersion
  <1>1. Run.groups \in Seq(Bundle) /\ gi \in 1..Len(Run.groups)
    BY RunType DEF TypeInv, StepOK
  <1>2. \A j \in 1..(gi-1) : Run.groups[j] \in Bundle
    BY <1>1
  <1>3. Finished = {Core} \cup {Run.groups[j] : j \in 1..(gi-1)}
    BY DEF Finished
  <1>4. Finished \subseteq Bundle /\ Core \in Finished
    BY <1>2, <1>3, UpdateAssumption
  <1>5. \A b \in Bundle : oldM[b].version \in 0..MaxVersion /\ newM[b].version \in 0..MaxVersion
    BY ManifestType DEF TypeInv, TypeOK, RunTypeOK
  <1>6. QED
    BY <1>4, <1>5, RunType, UpdateAssumption DEF Compared

\* A step of the bundle loop that stays at its bundle and keeps the versions.
LEMMA StayDates ==
    ASSUME WholeInv, TypeInv', UNCHANGED <<disk, nv, gi>>,
           pc \in {"bundle", "bundleMatched"}, pc' \in {"bundleMatched", "writeBundle"},
           \A b \in Bundle : /\ oldM'[b].version = oldM[b].version
                             /\ newM'[b].version = newM[b].version
    PROVE  WholeInv'
  <1>1. Finished' = Finished /\ Compared' = Compared
    BY MemoryDates DEF Finished, Compared
  <1>2. Finished \subseteq Bundle /\ Compared \subseteq Bundle
    BY LoopBundles DEF WholeInv
  <1>3. /\ \A b \in Compared : oldM[b].version < nv /\ newM[b].version <= nv
        /\ \A b \in Finished : Kept(newM[b].version, b)
    BY DEF WholeInv, RunDates
  <1>4. \A b \in Finished : Kept(newM[b].version, b)'
    BY <1>2, <1>3, MemoryDates
  <1>5. RunDates' /\ RunWrites'
    BY <1>1, <1>2, <1>3, <1>4 DEF RunDates, RunWrites
  <1>6. QED
    BY <1>5, MemoryDates DEF WholeInv

\* A step of the bundle loop that goes on with the next bundle: the current one
\* is kept, the others keep their versions.
LEMMA AdvanceDates ==
    ASSUME WholeInv, TypeInv', UNCHANGED <<plan, lastVer, image, nv>>, DatesOK',
           pc \in {"bundle", "bundleMatched", "writeBundle"}, gi' = gi + 1, pc' = AfterBundle,
           NEW c \in Bundle, c = Current,
           \A b \in Bundle : oldM'[b].version = oldM[b].version,
           \A b \in Bundle \ {c} : newM'[b].version = newM[b].version,
           newM'[c].version <= nv, Kept(newM[c].version, c)',
           \A b \in Bundle \ {c} : Kept(newM[b].version, b) => Kept(newM[b].version, b)'
    PROVE  WholeInv'
  <1>1. Run' = Run /\ Groups' = Groups
    BY DEF Run, Groups
  <1>2. Compared' = Groups /\ Finished' \subseteq Finished \cup {c}
    BY <1>1, Advance DEF WholeInv
  <1>3. /\ Groups \subseteq Bundle /\ Finished \subseteq Bundle
        /\ \A b \in Groups : oldM[b].version < nv /\ newM[b].version <= nv
        /\ \A b \in Finished : Kept(newM[b].version, b)
    BY LoopBundles DEF WholeInv, RunDates
  <1>4. \A b \in Groups : oldM'[b].version < nv /\ newM'[b].version <= nv
    BY <1>3
  <1>5. \A b \in Finished \cup {c} : Kept(newM[b].version, b)'
    BY <1>3
  <1>6. pc' \in {"bundle", "mom"}
    BY DEF AfterBundle
  <1>7. RunDates' /\ RunWrites'
    BY <1>2, <1>4, <1>5, <1>6 DEF RunDates, RunWrites
  <1>8. QED
    BY <1>7 DEF WholeInv

\* Skipping os-core, which is done with by now.
LEMMA SkipCoreDates ==
    ASSUME WholeInv, TypeInv', SkipCore
    PROVE  WholeInv'
  <1>1. /\ pc = "bundle" /\ Core = Current /\ gi' = gi + 1 /\ pc' = AfterBundle
        /\ UNCHANGED <<disk, nv, oldM, newM>>
    BY DEF SkipCore
  <1>2. /\ Core \in Bundle /\ Core \in Groups /\ Kept(newM[Core].version, Core)
        /\ newM[Core].version <= nv
    BY <1>1, LoopBundles, CurrentType DEF WholeInv, RunDates
  <1>3. \A b \in Bundle : Kept(newM[b].version, b) => Kept(newM[b].version, b)'
    BY <1>1, MemoryDates
  <1>4. QED
    BY <1>1, <1>2, <1>3, MemoryDates, AdvanceDates DEF disk

\* Matching a bundle changes no version.
LEMMA MatchBundleDates ==
    ASSUME WholeInv, TypeInv', MatchBundle
    PROVE  WholeInv'
  BY MatchBundleVersions, StayDates DEF WholeInv

\* A bundle that goes back to its old version is older than the run.
LEMMA BackDates ==
    ASSUME WholeInv, TypeInv', UNCHANGED <<disk, nv, oldM>>,
           pc = "bundleMatched", gi' = gi + 1, pc' = AfterBundle,
           \A b \in Bundle : newM'[b].version =
              IF b = Current THEN oldM[Current].version ELSE newM[b].version
    PROVE  WholeInv'
  <1>1. PICK c \in Bundle : c = Current
    BY CurrentType DEF WholeInv
  <1>2. /\ c \in Groups /\ nv \in 0..MaxVersion /\ oldM[c].version \in 0..MaxVersion
        /\ oldM[c].version < nv
    BY <1>1, CurrentType, LoopBundles DEF WholeInv, RunDates
  <1>3. newM'[c].version = oldM[c].version /\ nv' = nv
    BY <1>1
  <1>4. newM'[c].version <= nv /\ Kept(newM[c].version, c)'
    BY <1>2, <1>3 DEF Kept
  <1>5. \A b \in Bundle \ {c} : newM'[b].version = newM[b].version
    BY <1>1
  <1>6. \A b \in Bundle \ {c} : Kept(newM[b].version, b) => Kept(newM[b].version, b)'
    BY <1>5, MemoryDates
  <1>7. QED
    BY <1>1, <1>4, <1>5, <1>6, MemoryDates, AdvanceDates DEF disk

LEMMA BundleUnchangedDates ==
    ASSUME WholeInv, TypeInv', BundleUnchanged
    PROVE  WholeInv'
  <1>1. /\ pc = "bundleMatched" /\ gi' = gi + 1 /\ pc' = AfterBundle
        /\ UNCHANGED <<disk, nv, oldM>>
        /\ newM' = [newM EXCEPT ![Current].version = oldM[Current].version]
    BY DEF BundleUnchanged, KeepOldVersion
  <1>2. Current \in Bundle
    BY <1>1, CurrentType DEF WholeInv
  <1>3. \A b \in Bundle : newM'[b].version = IF b = Current THEN oldM[Current].version
                                            ELSE newM[b].version
    BY <1>1, <1>2, SetVersion DEF WholeInv
  <1>4. QED
    BY <1>1, <1>3, BackDates

LEMMA BundleChangedDates ==
    ASSUME WholeInv, TypeInv', BundleChanged
    PROVE  WholeInv'
  <1>1. pc = "bundleMatched" /\ UNCHANGED <<disk, nv, oldM>>
    BY DEF BundleChanged
  <1>2. PICK write \in BOOLEAN :
           /\ gi' = IF write THEN gi ELSE gi + 1
           /\ pc' = IF write THEN "writeBundle" ELSE AfterBundle
           /\ \A b \in Bundle : newM'[b].version =
                 IF b = Current /\ ~write THEN oldM[Current].version ELSE newM[b].version
    BY BundleChangedVersions DEF WholeInv
  <1>3. CASE write
    BY <1>1, <1>2, <1>3, StayDates
  <1>4. CASE ~write
    BY <1>1, <1>2, <1>4, BackDates
  <1>5. QED
    BY <1>3, <1>4

\* Writing a manifest below www/<nv>, or the part of one.
LEMMA WriteDates ==
    ASSUME WholeInv, pc # "idle", UNCHANGED <<nv, wwwMoM>>, NEW c \in Bundle, NEW m,
           Dates(m, nv), www' = [www EXCEPT ![nv][c] = m],
           \A s \in 0..MaxVersion :
              /\ DatesMoM(legible.mom[s], s)'
              /\ \A b \in Bundle : Dates(legible.bundle[s][b], s)'
    PROVE  /\ DatesOK'
           /\ \A b \in Bundle : www'[nv][b] = IF b = c THEN m ELSE www[nv][b]
  <1>1. nv \in 0..MaxVersion
    BY RunType DEF WholeInv
  <1>2. \A x \in 0..MaxVersion : \A b \in Bundle :
           www'[x][b] = IF x = nv /\ b = c THEN m ELSE www[x][b]
    <2>1. www = [x \in 0..MaxVersion |-> [b \in Bundle |-> www[x][b]]]
      BY DEF WholeInv, TypeInv, TypeOK, DiskTypeOK
    <2>2. www' = [x \in 0..MaxVersion |-> [b \in Bundle |->
                    IF x = nv /\ b = c THEN m ELSE www[x][b]]]
      BY <1>1, <2>1
    <2>3. QED
      BY ONLY <2>2
  <1>3. ASSUME NEW x \in 0..MaxVersion, NEW b \in Bundle
        PROVE  Dates(www[x][b], x)'
    <2>1. CASE x = nv /\ b = c
      BY <1>2, <2>1 DEF Dates
    <2>2. CASE ~(x = nv /\ b = c)
      BY <1>2, <2>2 DEF WholeInv, DatesOK, Dates
    <2>3. QED
      BY <2>1, <2>2
  <1>4. \A x \in 0..MaxVersion : DatesMoM(wwwMoM[x], x)'
    BY DEF WholeInv, DatesOK, DatesMoM
  <1>5. DatesOK'
    BY <1>3, <1>4 DEF DatesOK
  <1>6. QED
    BY <1>1, <1>2, <1>5

\* os-core is written with the version of the run.
LEMMA WriteCoreDates ==
    ASSUME WholeInv, TypeInv', WriteCore
    PROVE  WholeInv'
  <1>1. /\ pc = "writeCore" /\ pc' = "load" /\ Core \in Bundle
        /\ UNCHANGED <<wwwMoM, legible, nv, oldM, newM>>
        /\ www' = [www EXCEPT ![nv][Core] = newM[Core]]
    BY UpdateAssumption DEF WriteCore
  <1>2. /\ newM[Core].version = nv /\ oldM[Core].version < nv /\ nv \in 0..MaxVersion
        /\ IsManifest(newM[Core])
    BY <1>1, RunType DEF WholeInv, RunDates, Compared, TypeInv, TypeOK, RunTypeOK
  <1>3. Dates(newM[Core], nv)
    BY <1>2 DEF Dates
  <1>4. \A s \in 0..MaxVersion :
              /\ DatesMoM(legible.mom[s], s)'
              /\ \A b \in Bundle : Dates(legible.bundle[s][b], s)'
    BY <1>1 DEF WholeInv, DatesOK, DatesMoM, Dates
  <1>5. DatesOK' /\ www'[nv][Core] = newM[Core]
    <2>1. WholeInv /\ pc # "idle" /\ UNCHANGED <<nv, wwwMoM>>
      BY <1>1
    <2>2. DatesOK' /\ \A b \in Bundle : www'[nv][b] = IF b = Core THEN newM[Core] ELSE www[nv][b]
      BY ONLY <1>1, <1>3, <1>4, <2>1, WriteDates
    <2>3. QED
      BY <1>1, <2>2
  <1>6. Kept(newM[Core].version, Core)'
    BY <1>1, <1>2, <1>5, Distinct DEF Kept, Whole
  <1>7. RunDates' /\ RunWrites'
    BY <1>1, <1>2, <1>6 DEF RunDates, RunWrites, Compared, Finished
  <1>8. QED
    BY <1>5, <1>7 DEF WholeInv

\* A bundle is written with the version it has, and is whole or older.
LEMMA WriteBundleDates ==
    ASSUME WholeInv, TypeInv', WriteBundle
    PROVE  WholeInv'
  <1>0. PICK c \in Bundle : c = Current
    BY CurrentType DEF WholeInv, WriteBundle
  <1>1. /\ pc = "writeBundle" /\ pc' = AfterBundle /\ gi' = gi + 1
        /\ UNCHANGED <<plan, lastVer, image, wwwMoM, legible, nv, oldM, newM>>
        /\ www' = [www EXCEPT ![nv][c] = newM[c]]
    BY <1>0 DEF WriteBundle
  <1>2. /\ c \in Groups /\ IsManifest(newM[c]) /\ newM[c].version <= nv
        /\ nv \in 0..MaxVersion /\ newM[c].version \in 0..MaxVersion
    BY <1>0, <1>1, CurrentType, LoopBundles
       DEF WholeInv, RunDates, TypeInv, TypeOK, RunTypeOK
  <1>3. Dates(newM[c], nv)
    BY <1>2 DEF Dates
  <1>4. \A s \in 0..MaxVersion :
              /\ DatesMoM(legible.mom[s], s)'
              /\ \A b \in Bundle : Dates(legible.bundle[s][b], s)'
    BY <1>1 DEF WholeInv, DatesOK, DatesMoM, Dates
  <1>5. DatesOK' /\ \A b \in Bundle : www'[nv][b] = IF b = c THEN newM[c] ELSE www[nv][b]
    BY <1>1, <1>3, <1>4, WriteDates
  <1>6. Kept(newM[c].version, c)'
    BY <1>1, <1>2, <1>5, Distinct DEF Kept, Whole
  <1>7. \A b \in Bundle \ {c} : Kept(newM[b].version, b) => Kept(newM[b].version, b)'
    BY <1>1, <1>5 DEF Kept, Whole
  <1>8. QED
    BY <1>0, <1>1, <1>2, <1>5, <1>6, <1>7, AdvanceDates

\* The MoM lists every group with a version that is kept.
LEMMA WriteMoMDates ==
    ASSUME WholeInv, TypeInv', WriteMoM
    PROVE  WholeInv'
  <1>1. /\ pc = "mom" /\ pc' = "writeFull"
        /\ UNCHANGED <<www, legible, nv, oldM, newM>>
        /\ wwwMoM' = [wwwMoM EXCEPT ![nv] = NewMoM]
    BY DEF WriteMoM
  <1>2. /\ nv \in 0..MaxVersion /\ NewMoM \in MoM
        /\ NewMoM.subs = [b \in Groups |-> newM[b].version]
    BY <1>1, RunType, NewMoMType DEF WholeInv
  <1>3. \A s \in 0..MaxVersion : wwwMoM'[s] = IF s = nv THEN NewMoM ELSE wwwMoM[s]
    BY <1>1, <1>2 DEF WholeInv, TypeInv, TypeOK, DiskTypeOK
  <1>4. \A b \in Groups : Kept(newM[b].version, b) /\ newM[b].version <= nv
    BY <1>1 DEF WholeInv, RunDates, Compared, Finished
  <1>5. DatesMoM(NewMoM, nv) /\ NewMoM \notin {Absent, Torn}
    BY <1>2, <1>4, Distinct DEF DatesMoM
  <1>6. DatesOK'
    <2>1. \A s \in 0..MaxVersion : DatesMoM(wwwMoM'[s], s)
      BY <1>3, <1>5 DEF WholeInv, DatesOK
    <2>2. QED
      BY <1>1, <2>1 DEF WholeInv, DatesOK, Dates, DatesMoM
  <1>7. ASSUME NEW b \in Groups
        PROVE  Kept(newM[b].version, b)'
    BY <1>1, <1>4 DEF Kept, Whole
  <1>8. wwwMoM'[nv] = NewMoM /\ Listed(nv)' = Groups
    BY <1>1, <1>2, <1>3 DEF Listed
  <1>9. ASSUME NEW b \in Groups
        PROVE  Kept(wwwMoM[nv].subs[b], b)'
    <2>1. wwwMoM'[nv'].subs[b] = newM'[b].version
      BY <1>1, <1>2, <1>8
    <2>2. QED
      BY <1>7, <2>1
  <1>10. RunWrites' /\ RunDates'
    BY <1>1, <1>5, <1>8, <1>9 DEF RunWrites, RunDates, Compared, Finished
  <1>11. QED
    BY <1>6, <1>10 DEF WholeInv

\* The full manifest is whole, and the MoM stays what it is.
LEMMA WriteFullDates ==
    ASSUME WholeInv, TypeInv', WriteFull
    PROVE  WholeInv'
  <1>1. /\ pc = "writeFull" /\ pc' = "done"
        /\ UNCHANGED <<www, wwwMoM, legible, nv, oldM, newM>>
        /\ wwwFull' = [wwwFull EXCEPT ![nv] = FinalFull]
    BY DEF WriteFull
  <1>2. nv \in 0..MaxVersion /\ FinalFull \notin {Absent, Torn}
    BY <1>1, RunType, FinalFullType, Distinct DEF WholeInv
  <1>3. wwwFull'[nv] = FinalFull
    BY <1>1, <1>2 DEF WholeInv, TypeInv, TypeOK, DiskTypeOK
  <1>4. /\ wwwMoM[nv] \notin {Absent, Torn}
        /\ \A b \in Listed(nv) : Kept(wwwMoM[nv].subs[b], b)
    BY <1>1 DEF WholeInv, RunWrites
  <1>5. Listed(nv)' = Listed(nv)
    BY <1>1 DEF Listed
  <1>6. \A b \in Listed(nv) : Kept(wwwMoM[nv].subs[b], b)'
    BY <1>1, <1>4 DEF Kept, Whole
  <1>7. RunWrites' /\ RunDates'
    BY <1>1, <1>2, <1>3, <1>4, <1>5, <1>6 DEF RunWrites, RunDates, Compared, Finished
  <1>8. DatesOK'
    BY <1>1 DEF WholeInv, DatesOK, Dates, DatesMoM
  <1>9. QED
    BY <1>7, <1>8 DEF WholeInv

\* What is left of a torn manifest has no newer version than the manifest, and
\* what is left of a MoM lists none.
LEMMA CutsDates ==
    ASSUME NEW m, IsManifest(m), NEW left \in ManifestCuts(m)
    PROVE  left = Torn \/ left.version <= m.version
  <1>0. m.version \in 0..MaxVersion
    BY ManifestType
  <1>1. ASSUME NEW h \in HeaderCuts(m)
        PROVE  [h EXCEPT !.includes = {}, !.files = <<>>].version <= m.version
    <2>1. CASE \E k : h = [m EXCEPT !.format = k, !.prev = 0]
      BY <1>0, <2>1, PathAssumption DEF IsManifest
    <2>2. CASE \E v \in Clipped(m.version) : h = [m EXCEPT !.version = v, !.prev = 0]
      BY <1>0, <2>2, PathAssumption DEF IsManifest, Clipped
    <2>3. CASE \E v : h = [m EXCEPT !.prev = v]
      BY <1>0, <2>3, PathAssumption DEF IsManifest
    <2>4. QED
      BY <2>1, <2>2, <2>3 DEF HeaderCuts
  <1>2. \A inc, f : /\ [m EXCEPT !.includes = inc, !.files = f].version <= m.version
                    /\ [m EXCEPT !.files = f].version <= m.version
    BY <1>0, PathAssumption DEF IsManifest
  <1>3. QED
    BY <1>1, <1>2 DEF ManifestCuts

LEMMA MoMCutsDates ==
    ASSUME NEW m \in MoM, NEW left \in MoMCuts(m), left # Torn
    PROVE  \A b \in DOMAIN left.subs : b \in DOMAIN m.subs /\ left.subs[b] = m.subs[b]
  <1>1. ASSUME NEW h \in HeaderCuts(m)
        PROVE  [h EXCEPT !.subs = <<>>, !.gone = {}].subs = <<>>
    BY DEF HeaderCuts, MoM
  <1>2. ASSUME NEW S \in SUBSET DOMAIN m.subs
        PROVE  [m EXCEPT !.subs = Restrict(@, S), !.gone = @ \cap S].subs
                  = [b \in S |-> m.subs[b]]
    BY DEF MoM, Restrict
  <1>3. CASE \E h \in HeaderCuts(m) : left = [h EXCEPT !.subs = <<>>, !.gone = {}]
    BY <1>1, <1>3
  <1>4. CASE \E S \in SUBSET DOMAIN m.subs :
               left = [m EXCEPT !.subs = Restrict(@, S), !.gone = @ \cap S]
    <2>1. PICK S \in SUBSET DOMAIN m.subs :
             left = [m EXCEPT !.subs = Restrict(@, S), !.gone = @ \cap S]
      BY <1>4
    <2>2. left.subs = [b \in S |-> m.subs[b]]
      BY <1>2, <2>1
    <2>3. QED
      BY <2>2
  <1>5. QED
    BY <1>3, <1>4 DEF MoMCuts

\* A write that is cut short leaves nothing newer than the run either.
LEMMA CrashInWriteDates ==
    ASSUME WholeInv, TypeInv', CrashInWrite
    PROVE  WholeInv'
  <1>1. pc # "idle" /\ pc' = "failed" /\ UNCHANGED nv
    BY DEF CrashInWrite
  <1>2. nv \in 0..MaxVersion /\ LegibleOK
    BY <1>1, RunType DEF WholeInv, TypeInv, TypeOK, DiskTypeOK, LegibleOK
  <1>3. DatesOK'
    <2>1. ASSUME NEW c \in Bundle, www' = [www EXCEPT ![nv][c] = Torn], UNCHANGED wwwMoM,
                 newM[c].version <= nv, NEW left \in ManifestCuts(newM[c]),
                 legible' = [legible EXCEPT !.bundle[nv][c] = left]
          PROVE  DatesOK'
      <3>1. IsManifest(newM[c])
        BY DEF WholeInv, TypeInv, TypeOK, RunTypeOK
      <3>2. Dates(left, nv)
        <4>1. left = Torn \/ (IsManifest(left) /\ left.version <= newM[c].version)
          BY <2>1, <3>1, CutsDates, ManifestCutsType
        <4>2. CASE left # Torn
          BY <1>2, <2>1, <3>1, <4>1, <4>2, ManifestType, PathAssumption DEF Dates
        <4>3. QED
          BY <4>2 DEF Dates
      <3>3. /\ legible'.mom = legible.mom
            /\ \A s \in 0..MaxVersion : \A b \in Bundle :
                  legible'.bundle[s][b] = IF s = nv /\ b = c THEN left ELSE legible.bundle[s][b]
        BY <1>2, <2>1, BundleLeft
      <3>4. ASSUME NEW s \in 0..MaxVersion
            PROVE  /\ DatesMoM(legible.mom[s], s)'
                   /\ \A b \in Bundle : Dates(legible.bundle[s][b], s)'
        BY <3>2, <3>3 DEF WholeInv, DatesOK, Dates, DatesMoM
      <3>5. Dates(Torn, nv)
        BY DEF Dates
      <3>6. QED
        BY <1>1, <2>1, <3>4, <3>5, WriteDates
    <2>2. CASE pc = "writeCore"
      <3>1. newM[Core].version <= nv /\ Core \in Bundle
        BY <2>2, UpdateAssumption DEF WholeInv, RunDates, Compared
      <3>2. QED
        BY <2>1, <2>2, <3>1 DEF CrashInWrite
    <2>3. CASE pc = "writeBundle"
      <3>1. PICK c \in Bundle : c = Current
        BY <2>3, CurrentType DEF WholeInv
      <3>2. newM[c].version <= nv
        BY <2>3, <3>1, CurrentType, LoopBundles DEF WholeInv, RunDates
      <3>3. QED
        BY <2>1, <2>3, <3>1, <3>2 DEF CrashInWrite
    <2>4. CASE pc = "mom"
      <3>1. /\ wwwMoM' = [wwwMoM EXCEPT ![nv] = Torn] /\ UNCHANGED www
        BY <2>4 DEF CrashInWrite
      <3>2. PICK left \in MoMCuts(NewMoM) : legible' = [legible EXCEPT !.mom[nv] = left]
        BY <2>4 DEF CrashInWrite
      <3>3. DatesMoM(left, nv)
        <4>1. /\ NewMoM \in MoM /\ NewMoM.subs = [b \in Groups |-> newM[b].version]
              /\ \A b \in Groups : newM[b].version <= nv
          BY <1>1, <2>4, NewMoMType DEF WholeInv, RunDates, Compared
        <4>2. QED
          BY <4>1, MoMCutsDates DEF DatesMoM
      <3>4. /\ legible'.bundle = legible.bundle
            /\ \A s \in 0..MaxVersion :
                  legible'.mom[s] = IF s = nv THEN left ELSE legible.mom[s]
        BY <1>2, <3>2, MoMLeft
      <3>5. \A s \in 0..MaxVersion : wwwMoM'[s] = IF s = nv THEN Torn ELSE wwwMoM[s]
        BY <3>1 DEF WholeInv, TypeInv, TypeOK, DiskTypeOK
      <3>6. QED
        BY <3>1, <3>3, <3>4, <3>5 DEF WholeInv, DatesOK, Dates, DatesMoM
    <2>5. CASE pc = "writeFull"
      <3>1. UNCHANGED <<www, wwwMoM>>
        BY <2>5 DEF CrashInWrite
      <3>2. PICK left : legible' = [legible EXCEPT !.full[nv] = left]
        BY <2>5 DEF CrashInWrite
      <3>3. legible'.bundle = legible.bundle /\ legible'.mom = legible.mom
        BY <1>2, <3>2, FullLeft
      <3>4. QED
        BY <3>1, <3>3 DEF WholeInv, DatesOK, Dates, DatesMoM
    <2>6. QED
      BY <2>2, <2>3, <2>4, <2>5 DEF CrashInWrite
  <1>4. RunDates' /\ RunWrites'
    BY <1>1 DEF RunDates, RunWrites, Compared, Finished
  <1>5. QED
    BY <1>3, <1>4 DEF WholeInv

\* Nothing is on the disk in the beginning.
LEMMA InitDates == Init => WholeInv
  <1> SUFFICES ASSUME Init PROVE WholeInv
    OBVIOUS
  <1>1. TypeInv
    BY InitType
  <1>2. DatesOK
    BY DEF Init, DatesOK, Dates, DatesMoM
  <1>3. RunDates /\ RunWrites
    BY DEF Init, RunDates, RunWrites, Compared, Finished
  <1>4. QED
    BY <1>1, <1>2, <1>3 DEF WholeInv

\* Every step keeps what is written whole and what is read older.
LEMMA NextDates ==
    ASSUME WholeInv, [Next]_vars
    PROVE  WholeInv'
  <1>0. TypeInv'
    BY NextType DEF WholeInv
  <1>1. CASE UNCHANGED vars
    BY <1>0, <1>1 DEF vars, disk, proc, WholeInv, DatesOK, Dates, DatesMoM, RunDates, RunWrites,
          Listed, Compared, Finished, Kept, Whole, Run, Groups
  <1>2. CASE \E v \in Version : \E in \in plan[v] : Start(v, in)
    BY <1>0, <1>2, QuietDates DEF Start
  <1>3. CASE CreateUpdateStep
    <2>1. ASSUME FormatTooOld \/ CoreTypeChange \/ IncludesUnresolvable
                 \/ BundleTypeChange \/ OldUnreadable
          PROVE  WholeInv'
      <3>1. Fail
        BY <2>1 DEF FormatTooOld, CoreTypeChange, IncludesUnresolvable,
                    BundleTypeChange, OldUnreadable
      <3>2. QED
        BY <1>0, <3>1, QuietDates DEF Fail, disk
    <2>2. ASSUME CreateFullChroot \/ CreateFullManifest
          PROVE  WholeInv'
      BY <1>0, <2>2, QuietDates DEF CreateFullChroot, CreateFullManifest, disk
    <2>3. QED
      BY <1>0, <1>3, <2>1, <2>2, MatchCoreDates, CoreUnchangedDates, CoreChangedDates,
         WriteCoreDates, LoadBundlesDates, SkipCoreDates, MatchBundleDates,
         BundleUnchangedDates, BundleChangedDates, WriteBundleDates, WriteMoMDates,
         WriteFullDates DEF CreateUpdateStep
  <1>4. CASE Publish \/ GiveUp \/ Crash \/ CrashInChroot
    BY <1>0, <1>4, QuietDates DEF Publish, GiveUp, ForgetRun, Crash, CrashInChroot, disk
  <1>5. CASE CrashInWrite
    BY <1>0, <1>5, CrashInWriteDates
  <1>6. QED
    BY <1>1, <1>2, <1>3, <1>4, <1>5 DEF Next

\* Exit status 0 means that the MoM is there, that every manifest it dates to the
\* version of the run was written whole, and the full manifest too, whatever
\* the caller publishes and whatever of an older release is torn.
THEOREM SuccessWhole == Spec => []SuccessMeansWhole
  <1>1. WholeInv /\ [Next]_vars => WholeInv'
    BY NextDates
  <1>2. WholeInv => SuccessMeansWhole
    <2>1. SUFFICES ASSUME WholeInv, pc = "done" PROVE SuccessMeansWhole
      BY DEF SuccessMeansWhole
    <2>2. /\ wwwMoM[nv] \notin {Absent, Torn} /\ wwwFull[nv] \notin {Absent, Torn}
          /\ \A b \in Listed(nv) : Kept(wwwMoM[nv].subs[b], b)
      BY <2>1 DEF WholeInv, RunWrites
    <2>3. nv \in 0..MaxVersion /\ MaxVersion \in Nat
      BY <2>1, RunType, PathAssumption DEF WholeInv
    <2>4. \A b \in Listed(nv) : wwwMoM[nv].subs[b] \in 0..MaxVersion
      BY <2>1, <2>2, <2>3, ListedType DEF WholeInv
    <2>5. QED
      BY <2>2, <2>3, <2>4 DEF SuccessMeansWhole, Kept, Whole
  <1>3. QED
    BY InitDates, <1>1, <1>2, PTL DEF Spec
=============================================================================
