----------------------------- MODULE ManifestOps -----------------------------
(***************************************************************************)
(* The operations of manifest.c (and of the files that feed it:            *)
(* analyze_fs.c, rename.c, type_change.c, heuristics.c) on the file list   *)
(* of a manifest.                                                          *)
(*                                                                         *)
(* A file list is a function from the paths it has an entry for.  The C    *)
(* lists are sorted by name before every walk, and every walk pairs the    *)
(* entries of two lists by name, so the order carries nothing but the tie  *)
(* break of final_link; paths are naturals, ordered as strcmp orders them. *)
(* A file's content, with its type, mode and owner, is a node; its hash IS *)
(* the node.  is_config and is_boot depend on the path alone               *)
(* (heuristics.c) and are sets of paths.                                   *)
(***************************************************************************)
EXTENDS Integers, FiniteSets, FiniteSetsExt, Functions

CONSTANTS
    Path,         \* the file names, as naturals in strcmp order
    Node,         \* what a path can hold: content, type, mode, owner
    MaxVersion,   \* bound: the versions are 1..MaxVersion
    KindOf,       \* [Node -> {"F", "D", "L"}]: is_file, is_dir, is_link
    ConfigPaths,  \* names below /etc/
    BootPaths,    \* names below /usr/lib/kernel/, /boot/, ...
    DebugPaths,   \* names below the [Debuginfo] prefixes of server.ini
    Stateless,    \* OS_IS_STATELESS, a build option
    Renames,      \* RENAMES, a build option
    ZeroHash,     \* "000...0", the hash of a deleted file
    NoHash        \* "", the hash of an entry nobody hashed

ASSUME PathAssumption ==
    /\ Path \subseteq Nat /\ MaxVersion \in Nat
    /\ KindOf \in [Node -> {"F", "D", "L"}]
    /\ ConfigPaths \subseteq Path /\ BootPaths \subseteq Path /\ DebugPaths \subseteq Path
    /\ Stateless \in BOOLEAN /\ Renames \in BOOLEAN
    /\ ZeroHash \notin Node /\ NoHash \notin Node /\ ZeroHash # NoHash

Hash == Node \cup {ZeroHash, NoHash}

\* struct file.  kind "." is an entry that is neither file, directory nor link.
Entry == [kind    : {"F", "D", "L", "."},
          deleted : BOOLEAN,
          ghosted : BOOLEAN,
          rename  : BOOLEAN,
          hash    : Hash,
          last    : 0..MaxVersion]

FileList == UNION {[S -> Entry] : S \in SUBSET Path}

\* f \in FileList, in a form TLC can evaluate.
IsFileList(f) == DOMAIN f \subseteq Path /\ f \in [DOMAIN f -> Entry]

Image    == UNION {[S -> Node] : S \in SUBSET Path}

Live(e) == ~e.deleted /\ ~e.ghosted

\* The paths of f that satisfy the client-visible notion "installed".
LivePaths(f) == {p \in DOMAIN f : Live(f[p])}
-----------------------------------------------------------------------------
(* analyze_fs.c *)

\* iterate_directory over a chroot: one entry per file, not hashed yet.
\* add_file skips debuginfo when server.ini bans it.
FromDirectory(img, version, ban) ==
    [p \in {q \in DOMAIN img : ~(ban /\ q \in DebugPaths)} |->
        [kind |-> KindOf[img[p]], deleted |-> FALSE, ghosted |-> FALSE,
         rename |-> FALSE, hash |-> NoHash, last |-> version]]

\* The hash thread pool of full_manifest_from_directory, once joined.
Hashed(f, img) == [p \in DOMAIN f |-> [f[p] EXCEPT !.hash = img[p]]]

\* add_component_hashes_to_manifest
AddHashes(f, full) ==
    [p \in DOMAIN f |->
        IF p \in DOMAIN full /\ ~full[p].deleted
        THEN [f[p] EXCEPT !.hash = full[p].hash]
        ELSE f[p]]
-----------------------------------------------------------------------------
(* manifest.c: comparing with the previous manifest *)

\* same_file_contents; the flags that depend on the path alone are equal.
SameContents(old, new) ==
    /\ old.kind = new.kind
    /\ old.deleted = new.deleted
    /\ old.hash = new.hash

\* match_manifests leaves the entry's last_change and rename flag alone unless
\* the file is the same and not older than --minversion.
Unchanged(old, new, minversion) ==
    SameContents(old, new) /\ old.last >= minversion

\* Mutant: a tombstone keeps the date of the file.
TombstoneBackdated(p, old, version) ==
    [kind |-> ".", deleted |-> TRUE, ghosted |-> old.ghosted, rename |-> FALSE,
     hash |-> ZeroHash, last |-> old.last]

\* add_deleted_file: the tombstone of an entry the new list has no file for.
\* A tombstone is carried over as it is; a boot file deleted twice is ghosted.
Tombstone(p, old, version) ==
    LET ghost == old.ghosted \/ (p \in BootPaths /\ old.deleted)
        keeps == ghost \/ old.deleted
    IN  [kind    |-> ".",
         deleted |-> TRUE,
         ghosted |-> ghost,
         rename  |-> keeps /\ old.rename,
         hash    |-> IF keeps THEN old.hash ELSE ZeroHash,
         last    |-> IF old.deleted THEN old.last ELSE version]

\* should_have_peer: no peer for a file that was not there before.
HasPeer(p, old) == p \in DOMAIN old /\ Live(old[p])

\* Mutant: last_change is backfilled without comparing the contents.
MatchedByName(old, new, version, minversion) ==
    [p \in DOMAIN old \cup DOMAIN new |->
        IF p \notin DOMAIN new THEN Tombstone(p, old[p], version)
        ELSE IF p \in DOMAIN old /\ old[p].last >= minversion
        THEN [new[p] EXCEPT !.last = old[p].last, !.rename = old[p].rename]
        ELSE new[p]]

\* match_manifests: backfill last_change, add the tombstones.
Matched(old, new, version, minversion) ==
    [p \in DOMAIN old \cup DOMAIN new |->
        IF p \notin DOMAIN new THEN Tombstone(p, old[p], version)
        ELSE IF p \in DOMAIN old /\ Unchanged(old[p], new[p], minversion)
        THEN [new[p] EXCEPT !.last = old[p].last, !.rename = old[p].rename]
        ELSE new[p]]

\* The changes match_manifests counts; it returns 0 when there are none.
ChangedPaths(old, new, minversion) ==
    {p \in DOMAIN old \cup DOMAIN new :
        \/ p \notin DOMAIN new /\ ~old[p].deleted
        \/ p \notin DOMAIN old
        \/ /\ p \in DOMAIN old \cap DOMAIN new
           /\ ~Unchanged(old[p], new[p], minversion)}

\* type_change_detection: a directory may not become anything else.
\* Files and links may; the run exits when some path breaks the rule.
TypeChangeForbidden(old, new) ==
    \E p \in DOMAIN new :
        /\ ~new[p].deleted /\ HasPeer(p, old)
        /\ old[p].kind = "D" /\ new[p].kind # "D"

\* remove_deprecated_files with both_deleted: a tombstone the previous
\* manifest already had does not survive a format bump.
WithoutOldTombstones(old, new) ==
    Restrict(new, {p \in DOMAIN new :
        ~(p \in DOMAIN old /\ old[p].deleted /\ new[p].deleted)})

\* Mutant: old ghosts are not retired.
WithoutOldGhostsNever(old, new) == new

\* remove_deprecated_files with both_ghosted.
WithoutOldGhosts(old, new) ==
    Restrict(new, {p \in DOMAIN new :
        ~(p \in DOMAIN old /\ old[p].ghosted /\ new[p].ghosted)})
-----------------------------------------------------------------------------
(* manifest.c: what the included manifests already deliver *)

\* Mutant: two tombstones cancel out like two files.
CoversTombstones(file1, file2) == file1.deleted = file2.deleted

\* subtract_manifests drops file1 for file2: neither is deleted (two
\* tombstones are both kept) and both or neither are regular files.
Covers(file1, file2) ==
    /\ ~file1.deleted /\ ~file2.deleted
    /\ (file1.kind = "F") = (file2.kind = "F")

\* subtract_manifests_frontend: f without what the given lists cover.
Subtracted(f, lists) ==
    Restrict(f, {p \in DOMAIN f :
        \A g \in lists : ~(p \in DOMAIN g /\ Covers(f[p], g[p]))})
-----------------------------------------------------------------------------
(* rename.c *)

\* new_file_p
RenameTargets(old, new, version) ==
    {p \in DOMAIN new :
        /\ new[p].last = version /\ ~new[p].deleted
        /\ new[p].kind = "F" /\ ~HasPeer(p, old)}

\* deleted_p: every tombstone has a peer, the entry it was made from.
RenameSources(old, new, version) ==
    {p \in DOMAIN new \cap DOMAIN old :
        /\ new[p].deleted /\ new[p].last = version
        /\ old[p].kind \notin {"D", "L"}}

\* What rename_detection may decide: some targets get a source each, no source
\* twice.  The scores are data; every outcome they can produce is allowed.
RenameMatchings(old, new, version) ==
    IF ~Renames THEN {<<>>}
    ELSE UNION {Injection(T, RenameSources(old, new, version)) :
                    T \in SUBSET RenameTargets(old, new, version)}

\* rename_detection, once it has chosen: both ends are flagged and the source
\* takes the hash of the target.
RenamesLinked(new, m) ==
    [p \in DOMAIN new |->
        IF p \in DOMAIN m THEN [new[p] EXCEPT !.rename = TRUE]
        ELSE IF p \in Range(m)
        THEN [new[p] EXCEPT !.rename = TRUE,
                            !.hash = new[CHOOSE q \in DOMAIN m : m[q] = p].hash]
        ELSE new[p]]

\* The entries final_link considers together.
SameRename(f, p) ==
    {q \in DOMAIN f : /\ f[q].rename
                      /\ f[q].last = f[p].last /\ f[q].hash = f[p].hash}

\* final_link walks the renames in order of version and name; an entry that is
\* not linked yet is linked with every later one of the same version and hash
\* that differs from it in being deleted.  So p has a rename_peer afterwards
\* iff it is one of the pairs just detected (in m), a partner follows it, or
\* the first unlinked entry of its group is a partner.
HasRenamePeer(f, p, m) ==
    LET group   == SameRename(f, p)
        paired  == DOMAIN m \cup Range(m)
        partner == {q \in group : f[q].deleted # f[p].deleted}
    IN  \/ p \in paired
        \/ \E q \in partner : q > p
        \/ \E q \in partner \ paired : \A r \in group \ paired : q <= r

\* Mutant: orphans stay renames.
RenamesCleanedNever(f, m) == f

\* Mutant: orphaned renames keep the hash of the file they were renamed to.
RenamesCleanedNoReset(f, m) ==
    [p \in DOMAIN f |->
        IF f[p].rename /\ ~HasRenamePeer(f, p, m)
        THEN [f[p] EXCEPT !.rename = FALSE]
        ELSE f[p]]

\* clean_renames: an orphan is no rename any more, and an orphaned source is a
\* plain tombstone again.
RenamesCleaned(f, m) ==
    [p \in DOMAIN f |->
        IF f[p].rename /\ ~HasRenamePeer(f, p, m)
        THEN [f[p] EXCEPT !.rename = FALSE,
                          !.hash = IF f[p].deleted THEN ZeroHash ELSE f[p].hash]
        ELSE f[p]]
-----------------------------------------------------------------------------
(* manifest.c: completing the manifest *)

\* Mutant: config files are kept.
PrunedWithConfig(f, ban) ==
    Restrict(f, {p \in DOMAIN f : ~(ban /\ p \in DebugPaths)})

\* prune_manifest: no config files in a stateless OS, boot files that go away
\* become ghosts, no banned debuginfo.
Pruned(f, ban) ==
    LET dying(p)  == p \in BootPaths /\ f[p].deleted
        pruned(p) == \/ Stateless /\ ~f[p].deleted /\ p \in ConfigPaths
                     \/ ~dying(p) /\ ban /\ p \in DebugPaths
    IN  [p \in {q \in DOMAIN f : ~pruned(q)} |->
            IF dying(p) THEN [f[p] EXCEPT !.deleted = FALSE, !.ghosted = TRUE]
            ELSE f[p]]

\* What prune_manifest counts and returns.
NewFiles(f, version) == {p \in DOMAIN f : f[p].last = version}

\* Mutant: nothing is raised.
MaximizedNever(full, lists) == full

\* maximize_to_full: an entry of the full list is at least as new as every
\* entry of a component's list that is not deleted.
Maximized(full, lists) ==
    [p \in DOMAIN full |->
        LET live == {g \in lists : p \in DOMAIN g /\ ~g[p].deleted}
        IN  [full[p] EXCEPT !.last = Max({@} \cup {g[p].last : g \in live})]]
=============================================================================
