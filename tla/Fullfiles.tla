------------------------------ MODULE Fullfiles ------------------------------
(***************************************************************************)
(* fullfiles.c: swupd_make_fullfiles packs every file that Manifest.full   *)
(* dates to the version into www/<version>/files/<hash>.tar.  The main     *)
(* thread picks one entry per hash and hands them to a pool of threads.    *)
(* A thread compresses a file in every format under a name of its own and  *)
(* renames the smallest result; it writes a directory's tar in place.      *)
(*                                                                         *)
(* Entries are naturals in the order of their names, hashes are naturals   *)
(* in the order of memcmp, 0 being all zeros.  A failed command is an      *)
(* assertion, so the process dies, in the middle of anything; it may be    *)
(* started again.  image/<version>/full is there: the run that wrote the   *)
(* manifest made it.  The hard link below empty/ is named after the hash,  *)
(* is gone when a thread is done with it, and is left out.                 *)
(***************************************************************************)
EXTENDS Integers, Sequences, SequencesExt, FiniteSets

CONSTANTS
    Manifests,  \* the full manifests considered, [entries -> Entry]
    Hashes,     \* the hashes of what can be packed
    Worker,     \* the threads of the pool
    Formats,    \* the compressions tried, in order: xz, gz and, as built, bz2
    MaxDeaths   \* bound: how often the process dies

Entry == [hash : Hashes \cup {0}, new : BOOLEAN, dir : BOOLEAN,
          deleted : BOOLEAN, ghosted : BOOLEAN]

\* What CreateUpdate writes: what is gone has no hash, what is there has one,
\* and the hash says whether it is a directory.
ASSUME FullfilesAssumption ==
    /\ Hashes \subseteq Nat \ {0} /\ MaxDeaths \in Nat /\ Worker # {}
    /\ Formats \in Seq(ToSet(Formats)) /\ Formats # <<>>
    /\ \A i, j \in DOMAIN Formats : Formats[i] = Formats[j] => i = j
    /\ \A m \in Manifests :
         /\ DOMAIN m \subseteq Nat /\ m \in [DOMAIN m -> Entry]
         /\ \A e \in DOMAIN m : (m[e].deleted \/ m[e].ghosted) <=> m[e].hash = 0
         /\ \A d, e \in DOMAIN m : m[d].hash = m[e].hash /\ m[e].hash # 0
                                   => m[d].dir = m[e].dir

VARIABLES
    manifest,  \* Manifest.full of the version
    main,      \* "start", "push", "wait", "done", "returned" early, or "dead"
    todo,      \* the entries main has still to push
    queue,     \* the tasks of the thread pool
    job,       \* [Worker -> entry or Idle]
    at,        \* [Worker -> where the thread is]
    step,      \* [Worker -> half steps: tars opened and tars completed]
    archive,   \* <hash>.tar: "none", "part" or "whole"
    packed,    \* <hash>.tar.<format>, likewise
    deaths

vars == <<manifest, main, todo, queue, job, at, step, archive, packed, deaths>>

Idle == -1
Format == ToSet(Formats)
Content == {"none", "part", "whole"}

TypeOK ==
    /\ manifest \in Manifests
    /\ main \in {"start", "push", "wait", "done", "returned", "dead"}
    /\ todo \in Seq(DOMAIN manifest) /\ queue \in Seq(DOMAIN manifest)
    /\ job \in [Worker -> DOMAIN manifest \cup {Idle}]
    /\ at \in [Worker -> {"idle", "check", "write", "tidy"}]
    /\ \A w \in Worker : job[w] = Idle <=> at[w] = "idle"
    /\ step \in [Worker -> 0..2 * Len(Formats)]
    /\ archive \in [Hashes -> Content]
    /\ packed \in [Hashes -> [Format -> Content]]
    /\ deaths \in 0..MaxDeaths

Init ==
    /\ manifest \in Manifests
    /\ main = "start" /\ todo = <<>> /\ queue = <<>>
    /\ job = [w \in Worker |-> Idle] /\ at = [w \in Worker |-> "idle"]
    /\ step = [w \in Worker |-> 0]
    /\ archive = [h \in Hashes |-> "none"]
    /\ packed = [h \in Hashes |-> [f \in Format |-> "none"]]
    /\ deaths = 0
-----------------------------------------------------------------------------
(* The main thread *)

\* file_sort_hash; g_list_sort leaves equal ones in the order of their names.
ByHash(m) ==
    SetToSortSeq(DOMAIN m, LAMBDA d, e :
        m[d].hash < m[e].hash \/ (m[d].hash = m[e].hash /\ d < e))

\* The loops of get_deduplicated_fullfile_list: the first new entry, whatever
\* it is, then each new one that is not deleted and differs in its hash from
\* the one taken last.
FirstOfEachHash(m) ==
    LET take(taken, e) ==
            IF taken = <<>> \/ (~m[e].deleted /\ m[e].hash # m[Last(taken)].hash)
            THEN Append(taken, e) ELSE taken
    IN  FoldLeft(take, <<>>, SelectSeq(ByHash(m), LAMBDA e : m[e].new))

\* create_fullfiles, up to the pool: back in the order of names, without ghosts.
Tasks(m) ==
    SelectSeq(SetToSortSeq(ToSet(FirstOfEachHash(m)), <), LAMBDA e : ~m[e].ghosted)

\* "De-duplicate the list of fullfiles needing created": no two tasks pack one
\* hash, and every hash that is new is in a task.
OncePerHash(m) ==
    /\ Tasks(m) \in Seq(DOMAIN m)
    /\ \A i \in DOMAIN Tasks(m) : ~m[Tasks(m)[i]].ghosted
    /\ \A i, j \in DOMAIN Tasks(m) :
         m[Tasks(m)[i]].hash = m[Tasks(m)[j]].hash => i = j
    /\ \A e \in DOMAIN m :
         m[e].new /\ ~m[e].deleted /\ ~m[e].ghosted =>
             \E i \in DOMAIN Tasks(m) : m[Tasks(m)[i]].hash = m[e].hash

\* What the loops compute, for the proofs: they are folds, which TLC evaluates
\* (MCFullfiles does it for every small manifest) and the provers cannot.
ASSUME TasksAssumption == \A m \in Manifests : OncePerHash(m)

\* Mutant: the list is not de-duplicated.
BeginAll ==
    /\ main = "start"
    /\ todo' = SelectSeq(SetToSortSeq(DOMAIN manifest, <),
                         LAMBDA e : manifest[e].new /\ ~manifest[e].ghosted)
    /\ main' = "push"
    /\ UNCHANGED <<manifest, queue, job, at, step, archive, packed, deaths>>

Begin ==
    /\ main = "start"
    /\ todo' = Tasks(manifest) /\ main' = "push"
    /\ UNCHANGED <<manifest, queue, job, at, step, archive, packed, deaths>>

\* The version's directory cannot be made: this is logged, nothing is packed,
\* and the program still exits with success.
NoDirectory ==
    /\ main = "start"
    /\ main' = "returned"
    /\ UNCHANGED <<manifest, todo, queue, job, at, step, archive, packed, deaths>>

\* g_thread_pool_push
Push ==
    /\ main = "push" /\ todo # <<>>
    /\ queue' = Append(queue, Head(todo)) /\ todo' = Tail(todo)
    /\ UNCHANGED <<manifest, main, job, at, step, archive, packed, deaths>>

Pushed ==
    /\ main = "push" /\ todo = <<>>
    /\ main' = "wait"
    /\ UNCHANGED <<manifest, todo, queue, job, at, step, archive, packed, deaths>>

\* Mutant: the pool is freed without waiting for the threads.
NotWaiting ==
    /\ main = "wait" /\ queue = <<>>
    /\ main' = "done"
    /\ UNCHANGED <<manifest, todo, queue, job, at, step, archive, packed, deaths>>

\* g_thread_pool_free(threadpool, FALSE, TRUE): tasks in the queue are done, and
\* the threads are waited for.
Drained ==
    /\ main = "wait" /\ queue = <<>> /\ \A w \in Worker : at[w] = "idle"
    /\ main' = "done"
    /\ UNCHANGED <<manifest, todo, queue, job, at, step, archive, packed, deaths>>
-----------------------------------------------------------------------------
(* A thread of the pool: create_fullfile *)

Hash(w) == manifest[job[w]].hash

Take(w) ==
    /\ at[w] = "idle" /\ queue # <<>>
    /\ job' = [job EXCEPT ![w] = Head(queue)] /\ queue' = Tail(queue)
    /\ at' = [at EXCEPT ![w] = "check"]
    /\ UNCHANGED <<manifest, main, todo, step, archive, packed, deaths>>

\* Mutant: the thread forgets to let go of its task.
Keep(w) ==
    /\ at' = [at EXCEPT ![w] = "idle"] /\ step' = [step EXCEPT ![w] = 0]
    /\ UNCHANGED <<manifest, main, todo, queue, job, deaths>>

\* The task returns and the thread goes back to the pool.
Return(w) ==
    /\ job' = [job EXCEPT ![w] = Idle]
    /\ at' = [at EXCEPT ![w] = "idle"] /\ step' = [step EXCEPT ![w] = 0]
    /\ UNCHANGED <<manifest, main, todo, queue, deaths>>

\* Mutant: a tar that exists is taken for one another thread is writing, and the
\* task is queued again to look at it later.
SkipForNow(w) ==
    /\ at[w] = "check"
    /\ manifest[job[w]].deleted \/ \E h \in Hashes : h = Hash(w) /\ archive[h] # "none"
    /\ queue' = Append(queue, job[w])
    /\ job' = [job EXCEPT ![w] = Idle]
    /\ at' = [at EXCEPT ![w] = "idle"] /\ step' = [step EXCEPT ![w] = 0]
    /\ UNCHANGED <<manifest, main, todo, archive, packed, deaths>>

\* Nothing to do: the entry is deleted, or the tar exists.
Skip(w) ==
    /\ at[w] = "check"
    /\ manifest[job[w]].deleted \/ \E h \in Hashes : h = Hash(w) /\ archive[h] # "none"
    /\ Return(w) /\ UNCHANGED <<archive, packed>>

Continue(w, there) ==
    /\ at' = [at EXCEPT ![w] = there] /\ step' = [step EXCEPT ![w] = @ + 1]
    /\ UNCHANGED <<manifest, main, todo, queue, job, deaths>>

\* Mutant: the tar is written again when it exists.
CheckNothing(w) ==
    /\ at[w] = "check" /\ ~manifest[job[w]].deleted
    /\ at' = [at EXCEPT ![w] = "write"]
    /\ UNCHANGED <<manifest, main, todo, queue, job, step, archive, packed, deaths>>

Check(w) ==
    /\ at[w] = "check"
    /\ ~manifest[job[w]].deleted /\ archive[Hash(w)] = "none"
    /\ at' = [at EXCEPT ![w] = "write"]
    /\ UNCHANGED <<manifest, main, todo, queue, job, step, archive, packed, deaths>>

\* A directory: tar -zcf <hash>.tar opens the file under its final name.
OpenTar(w) ==
    /\ at[w] = "write" /\ manifest[job[w]].dir /\ step[w] = 0
    /\ archive' = [archive EXCEPT ![Hash(w)] = "part"]
    /\ Continue(w, "write") /\ UNCHANGED packed

CloseTar(w) ==
    /\ at[w] = "write" /\ manifest[job[w]].dir /\ step[w] = 1
    /\ archive' = [archive EXCEPT ![Hash(w)] = "whole"]
    /\ Return(w) /\ UNCHANGED packed

\* A file: one tar after the other opens <hash>.tar.<format>, which may be there
\* from a process that died, and completes it.
Compress(w) ==
    /\ at[w] = "write" /\ ~manifest[job[w]].dir /\ step[w] < 2 * Len(Formats)
    /\ packed' = [packed EXCEPT ![Hash(w)][Formats[(step[w] \div 2) + 1]] =
                     IF step[w] % 2 = 0 THEN "part" ELSE "whole"]
    /\ Continue(w, "write") /\ UNCHANGED archive

\* The smallest result that is there is renamed; which one is smallest, the data
\* decide.  When none is there, rename fails and is only logged.
RenameSmallest(w) ==
    LET there == {f \in Format : packed[Hash(w)][f] # "none"}
    IN  /\ at[w] = "write" /\ ~manifest[job[w]].dir /\ step[w] = 2 * Len(Formats)
        /\ \E f \in (IF there = {} THEN Format ELSE there) :
             /\ archive' = [archive EXCEPT ![Hash(w)] =
                               IF there = {} THEN @ ELSE packed[Hash(w)][f]]
             /\ packed' = [packed EXCEPT ![Hash(w)][f] = "none"]
        /\ at' = [at EXCEPT ![w] = "tidy"]
        /\ UNCHANGED <<manifest, main, todo, queue, job, step, deaths>>

\* The other results are unlinked.
Tidy(w) ==
    /\ at[w] = "tidy"
    /\ packed' = [packed EXCEPT ![Hash(w)] = [f \in Format |-> "none"]]
    /\ Return(w) /\ UNCHANGED archive
-----------------------------------------------------------------------------
(* The process *)

\* What is on the disk stays as it is.
Die ==
    /\ main \in {"push", "wait"} /\ deaths < MaxDeaths
    /\ main' = "dead" /\ deaths' = deaths + 1
    /\ todo' = <<>> /\ queue' = <<>>
    /\ job' = [w \in Worker |-> Idle] /\ at' = [w \in Worker |-> "idle"]
    /\ step' = [w \in Worker |-> 0]
    /\ UNCHANGED <<manifest, archive, packed>>

StartAgain ==
    /\ main \in {"dead", "returned"}
    /\ main' = "start"
    /\ UNCHANGED <<manifest, todo, queue, job, at, step, archive, packed, deaths>>

Main == Begin \/ Push \/ Pushed \/ Drained

Thread(w) ==
    \/ Take(w) \/ Skip(w) \/ Check(w) \/ OpenTar(w) \/ CloseTar(w)
    \/ Compress(w) \/ RenameSmallest(w) \/ Tidy(w)

Next == Main \/ (\E w \in Worker : Thread(w)) \/ NoDirectory \/ Die \/ StartAgain

Spec == Init /\ [][Next]_vars

\* The threads run; nobody has to start a dead process again.
FairSpec == Spec /\ WF_vars(Main) /\ \A w \in Worker : WF_vars(Thread(w))
-----------------------------------------------------------------------------
\* What a client asks for: the hash of a live entry that is new.
Wanted == {manifest[e].hash : e \in {d \in DOMAIN manifest :
              manifest[d].new /\ ~manifest[d].deleted /\ ~manifest[d].ghosted}}

IsDir(h) == \E e \in DOMAIN manifest : manifest[e].hash = h /\ manifest[e].dir

\* The tar of a file is never seen half written: not while another thread works
\* on an equal file, not after the process died, at any time.
FilesWhole == \A h \in Hashes : archive[h] = "part" => IsDir(h)

\* "De-duplicate the list of fullfiles needing created to avoid races": no two
\* threads write the same names.
OneThreadPerHash ==
    \A v, w \in Worker :
        v # w /\ at[v] # "idle" /\ at[w] # "idle" => Hash(v) # Hash(w)

\* A finished run has packed whatever a client may ask for, also when it
\* finished the work of one that died.  (For directories see EveryTarWhole.)
EverythingPacked ==
    main = "done" =>
        \A h \in Wanted : archive[h] = "whole" \/ (IsDir(h) /\ deaths > 0 /\ archive[h] = "part")

\* A complete tar is there for clients; no later step, nor a later run, opens
\* it again.
CompleteStaysComplete ==
    [][\A h \in Hashes : archive[h] = "whole" => archive'[h] = "whole"]_vars

\* Every run ends: main waits for threads that all come back.
PoolDrains == main = "push" ~> main \in {"done", "dead"}

\* "output must be a file, which is a (compressed) tar file": a finished run
\* leaves a complete tar for everything that is new, directories included.
EveryTarWhole == main = "done" => \A h \in Wanted : archive[h] = "whole"
=============================================================================
