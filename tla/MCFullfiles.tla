---------------------------- MODULE MCFullfiles ------------------------------
(***************************************************************************)
(* Small instances of Fullfiles: up to four entries over two files and a   *)
(* directory, with equal files, tombstones, ghosts and old entries.        *)
(***************************************************************************)
EXTENDS Fullfiles, TLC

File(h)      == [hash |-> h, new |-> TRUE, dir |-> FALSE, deleted |-> FALSE, ghosted |-> FALSE]
Directory(h) == [File(h) EXCEPT !.dir = TRUE]
Old(e)       == [e EXCEPT !.new = FALSE]
Deleted      == [File(0) EXCEPT !.deleted = TRUE]
Ghost        == [File(0) EXCEPT !.ghosted = TRUE]

MCFormats == <<"xz", "gz">>

MCManifests == {
    \* equal files, the second one between others in the order of names
    <<File(2), File(1), File(2), Directory(3)>>,
    \* the first new entry is a tombstone, then a ghost: neither is packed
    <<File(1), Deleted, Ghost, File(1)>>,
    \* a ghost comes first in the order of hashes
    <<Ghost, Directory(3), File(2)>>,
    \* an old file that equals a new one, and equal directories
    <<Old(File(1)), Directory(3), File(1), Directory(3)>>,
    \* nothing is new
    <<Old(File(1)), Old(Deleted)>>}

\* Every manifest of up to four entries over two files and a directory.
Kinds ==
    LET present == {File(1), File(2), Directory(3), Deleted, Ghost}
    IN  present \cup {Old(e) : e \in present}

SmallManifests == UNION {[1..n -> Kinds] : n \in 0..4}

\* The loops of get_deduplicated_fullfile_list keep one entry for each hash,
\* whatever the order of the names: TasksAssumption, far beyond MCManifests.
ASSUME SmallTasks == \A m \in SmallManifests : OncePerHash(m)
=============================================================================
