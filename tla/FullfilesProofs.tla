--------------------------- MODULE FullfilesProofs ---------------------------
(***************************************************************************)
(* For any manifest, any number of threads and formats, and any deaths: no *)
(* two threads write the same names, a file's tar is never seen half       *)
(* written, a complete one is never opened again, and a run that ends has  *)
(* packed what is new.                                                     *)
(***************************************************************************)
EXTENDS Fullfiles, SequenceTheorems, TLAPS

\* What is still to be handed to a thread, in its order.
Backlog == queue \o todo

HashOf(e) == manifest[e].hash
Busy(w)   == at[w] # "idle"

\* Only a run that packs has tasks or busy threads.
Quiet ==
    /\ main \notin {"push", "wait"} =>
         todo = <<>> /\ queue = <<>> /\ \A w \in Worker : ~Busy(w)
    /\ main \in {"wait", "done"} => todo = <<>>

\* Nothing that is still to be packed equals anything else that is, or what a
\* thread has in its hands.
BacklogOnce ==
    /\ \A i \in DOMAIN Backlog : ~manifest[Backlog[i]].ghosted
    /\ \A i, j \in DOMAIN Backlog : HashOf(Backlog[i]) = HashOf(Backlog[j]) => i = j
    /\ \A w \in Worker : Busy(w) =>
         /\ ~manifest[job[w]].ghosted
         /\ \A i \in DOMAIN Backlog : HashOf(Backlog[i]) # Hash(w)

\* What a thread that writes may rely on.
WriterOK(w) ==
    /\ at[w] = "check" => step[w] = 0
    /\ at[w] = "idle" => step[w] = 0
    /\ at[w] \in {"write", "tidy"} => ~manifest[job[w]].deleted
    /\ at[w] = "write" /\ manifest[job[w]].dir =>
         /\ step[w] \in {0, 1}
         /\ archive[Hash(w)] = IF step[w] = 0 THEN "none" ELSE "part"
    /\ at[w] = "write" /\ ~manifest[job[w]].dir =>
         /\ archive[Hash(w)] = "none"
         /\ \A i \in DOMAIN Formats : 2 * i <= step[w] => packed[Hash(w)][Formats[i]] = "whole"
    /\ at[w] = "tidy" => archive[Hash(w)] = "whole"

\* A tar that is incomplete belongs to a thread at work, or somebody died.
PartsExplained ==
    \A h \in Hashes : archive[h] = "part" =>
        deaths > 0 \/ \E w \in Worker : at[w] = "write" /\ Hash(w) = h

Settled(h) == archive[h] = "whole" \/ (IsDir(h) /\ deaths > 0 /\ archive[h] = "part")

\* Nothing that is wanted gets lost on its way to the disk.
Covered ==
    main \in {"push", "wait", "done"} =>
        \A h \in Wanted :
            \/ Settled(h)
            \/ \E i \in DOMAIN Backlog : HashOf(Backlog[i]) = h
            \/ \E w \in Worker : Busy(w) /\ Hash(w) = h

PoolInv ==
    /\ TypeOK /\ Quiet /\ BacklogOnce /\ OneThreadPerHash
    /\ \A w \in Worker : WriterOK(w)
    /\ FilesWhole /\ PartsExplained /\ Covered
-----------------------------------------------------------------------------
(* Sequences *)

LEMMA PushKeeps ==
  ASSUME NEW S, NEW q \in Seq(S), NEW t \in Seq(S), t # <<>>
  PROVE  /\ Append(q, Head(t)) \o Tail(t) = q \o t
         /\ Append(q, Head(t)) \in Seq(S) /\ Tail(t) \in Seq(S)
<1>1. Append(q, Head(t)) \in Seq(S) /\ Tail(t) \in Seq(S) /\ Head(t) \in S
  OBVIOUS
<1>2. Len(Append(q, Head(t)) \o Tail(t)) = Len(q \o t)
  BY <1>1
<1>3. \A i \in 1..Len(q \o t) : (Append(q, Head(t)) \o Tail(t))[i] = (q \o t)[i]
  BY <1>1
<1> QED
  BY <1>1, <1>2, <1>3, SeqEqual

LEMMA TakeShortens ==
  ASSUME NEW S, NEW q \in Seq(S), NEW t \in Seq(S), q # <<>>
  PROVE  /\ Tail(q) \in Seq(S) /\ Head(q) \in S
         /\ Tail(q) \o t \in Seq(S) /\ q \o t \in Seq(S)
         /\ 1 \in DOMAIN (q \o t) /\ (q \o t)[1] = Head(q)
         /\ \A i \in DOMAIN (Tail(q) \o t) :
              i + 1 \in DOMAIN (q \o t) /\ (Tail(q) \o t)[i] = (q \o t)[i + 1]
         /\ \A i \in DOMAIN (q \o t) :
              i = 1 \/ i - 1 \in DOMAIN (Tail(q) \o t)
  OBVIOUS
-----------------------------------------------------------------------------
(* What the steps have in common *)

\* What is wanted, and what is a directory, is read off the manifest.
LEMMA SameManifest ==
  ASSUME manifest' = manifest
  PROVE  /\ Wanted' = Wanted
         /\ \A h : IsDir(h)' = IsDir(h)
         /\ \A e : HashOf(e)' = HashOf(e)
BY DEF Wanted, IsDir, HashOf

\* An entry that is there has a hash under which it is packed, which says
\* whether it is a directory.
LEMMA Packable ==
  ASSUME TypeOK, NEW e \in DOMAIN manifest, ~manifest[e].deleted, ~manifest[e].ghosted
  PROVE  manifest[e].hash \in Hashes /\ (IsDir(manifest[e].hash) <=> manifest[e].dir)
<1>1. manifest[e] \in Entry /\ manifest[e].hash # 0
  BY FullfilesAssumption DEF TypeOK
<1>2. manifest[e].hash \in Hashes
  BY <1>1 DEF Entry
<1>3. \A d \in DOMAIN manifest : manifest[d].hash = manifest[e].hash => manifest[d].dir = manifest[e].dir
  BY <1>1, FullfilesAssumption DEF TypeOK
<1> QED
  BY <1>2, <1>3 DEF IsDir

\* The task of a busy thread.
LEMMA Task ==
  ASSUME TypeOK, NEW w \in Worker, Busy(w)
  PROVE  job[w] \in DOMAIN manifest
<1>1. job[w] # Idle /\ job[w] \in DOMAIN manifest \cup {Idle}
  BY DEF TypeOK, Busy
<1> QED
  BY <1>1

\* A thread that writes has something to write.
LEMMA WriterHash ==
  ASSUME PoolInv, NEW w \in Worker, at[w] \in {"write", "tidy"}
  PROVE  /\ job[w] \in DOMAIN manifest /\ Hash(w) \in Hashes
         /\ IsDir(Hash(w)) <=> manifest[job[w]].dir
<1>1. job[w] \in DOMAIN manifest
  BY Task DEF PoolInv, Busy
<1>2. ~manifest[job[w]].deleted /\ ~manifest[job[w]].ghosted
  BY DEF PoolInv, WriterOK, BacklogOnce, Busy
<1> QED
  BY <1>1, <1>2, Packable DEF PoolInv, Hash

\* As long as no thread takes a task, what is once stays once.
LEMMA StillOnce ==
  ASSUME BacklogOnce, OneThreadPerHash, manifest' = manifest, Backlog' = Backlog,
         \A v \in Worker : Busy(v)' => Busy(v) /\ job'[v] = job[v]
  PROVE  BacklogOnce' /\ OneThreadPerHash'
<1>1. \A v \in Worker : Busy(v)' => Hash(v)' = Hash(v)
  BY DEF Hash
<1>2. BacklogOnce'
  BY <1>1 DEF BacklogOnce, HashOf
<1>3. OneThreadPerHash'
  BY <1>1 DEF OneThreadPerHash, Busy
<1> QED
  BY <1>2, <1>3

\* A thread that writes its own names leaves what the others rely on.
LEMMA OthersUndisturbed ==
  ASSUME OneThreadPerHash, NEW w \in Worker, Busy(w), manifest' = manifest,
         NEW v \in Worker, v # w, WriterOK(v),
         job'[v] = job[v], at'[v] = at[v], step'[v] = step[v],
         at[v] \in {"write", "tidy"} /\ Hash(v) # Hash(w) =>
             archive'[Hash(v)] = archive[Hash(v)] /\ packed'[Hash(v)] = packed[Hash(v)]
  PROVE  WriterOK(v)'
<1>1. Hash(v)' = Hash(v)
  BY DEF Hash
<1>2. CASE at[v] = "idle"
  BY <1>2 DEF WriterOK
<1>3. CASE at[v] = "check"
  BY <1>3 DEF WriterOK
<1>4. CASE at[v] \in {"write", "tidy"}
  <2>1. archive'[Hash(v)] = archive[Hash(v)] /\ packed'[Hash(v)] = packed[Hash(v)]
    BY <1>4 DEF OneThreadPerHash, Busy
  <2> QED
    BY <1>1, <1>4, <2>1 DEF WriterOK
<1>5. CASE at[v] \notin {"idle", "check", "write", "tidy"}
  BY <1>5 DEF WriterOK
<1> QED
  BY <1>2, <1>3, <1>4, <1>5
-----------------------------------------------------------------------------
(* The type *)

LEMMA InitPool == Init => PoolInv
<1> SUFFICES ASSUME Init PROVE PoolInv
  OBVIOUS
<1> USE DEF Init
<1>1. TypeOK
  BY FullfilesAssumption DEF TypeOK, Idle, Content
<1>2. Backlog = <<>>
  BY DEF Backlog
<1>3. Quiet /\ BacklogOnce /\ OneThreadPerHash
  BY <1>2 DEF Quiet, BacklogOnce, OneThreadPerHash, Busy
<1>4. \A w \in Worker : WriterOK(w)
  BY DEF WriterOK
<1>5. FilesWhole /\ PartsExplained /\ Covered
  BY DEF FilesWhole, PartsExplained, Covered
<1> QED
  BY <1>1, <1>3, <1>4, <1>5 DEF PoolInv

LEMMA MainKeepsType ==
  ASSUME PoolInv, Main \/ NoDirectory \/ Die \/ StartAgain
  PROVE  TypeOK'
<1> USE DEF PoolInv, TypeOK
<1>1. CASE Begin
  BY <1>1, TasksAssumption DEF Begin, OncePerHash
<1>2. CASE Push
  BY <1>2, PushKeeps DEF Push
<1>3. CASE Pushed \/ Drained \/ NoDirectory \/ StartAgain
  BY <1>3 DEF Pushed, Drained, NoDirectory, StartAgain
<1>4. CASE Die
  BY <1>4, FullfilesAssumption DEF Die, Idle
<1> QED
  BY <1>1, <1>2, <1>3, <1>4 DEF Main

LEMMA ReturnKeepsType ==
  ASSUME PoolInv, NEW w \in Worker, Return(w),
         archive' \in [Hashes -> Content], packed' \in [Hashes -> [Format -> Content]]
  PROVE  TypeOK'
BY DEF PoolInv, TypeOK, Return, Idle

LEMMA ContinueKeepsType ==
  ASSUME PoolInv, NEW w \in Worker, at[w] = "write", Continue(w, "write"),
         step[w] < 2 * Len(Formats),
         archive' \in [Hashes -> Content], packed' \in [Hashes -> [Format -> Content]]
  PROVE  TypeOK'
BY FullfilesAssumption DEF PoolInv, TypeOK, Continue, Idle
-----------------------------------------------------------------------------
(* The main thread *)

\* Steps that leave the threads and the disk alone, and hand over nothing.
LEMMA SameWork ==
  ASSUME PoolInv, TypeOK', Quiet', Backlog' = Backlog,
         UNCHANGED <<manifest, job, at, step, archive, packed, deaths>>,
         main' \in {"push", "wait", "done"} => main \in {"push", "wait", "done"}
  PROVE  PoolInv'
<1> USE DEF PoolInv
<1>1. \A w \in Worker : Hash(w)' = Hash(w) /\ Busy(w)' = Busy(w)
  BY DEF Hash, Busy
<1>2. BacklogOnce' /\ OneThreadPerHash'
  BY <1>1, StillOnce
<1>3. \A w \in Worker : WriterOK(w)'
  BY <1>1 DEF WriterOK
<1>4. FilesWhole' /\ PartsExplained'
  BY <1>1, SameManifest DEF FilesWhole, PartsExplained
<1>5. \A h : Settled(h)' = Settled(h)
  BY SameManifest DEF Settled
<1>6. Covered'
  BY <1>1, <1>5, SameManifest DEF Covered
<1> QED
  BY <1>2, <1>3, <1>4, <1>6

LEMMA BeginStep ==
  ASSUME PoolInv, Begin
  PROVE  PoolInv'
<1> USE DEF PoolInv
<1>1. TypeOK'
  BY MainKeepsType DEF Main
<1>2. OncePerHash(manifest) /\ manifest' = manifest
  BY TasksAssumption DEF TypeOK, Begin
<1>3. Backlog' = Tasks(manifest)
  <2>1. queue' = <<>> /\ todo' = Tasks(manifest)
    BY DEF Begin, Quiet
  <2> QED
    BY <1>2, <2>1 DEF Backlog, OncePerHash
<1>4. \A w \in Worker : ~Busy(w)' /\ ~Busy(w)
  BY DEF Begin, Quiet, Busy
<1>5. Quiet' /\ OneThreadPerHash'
  BY <1>4 DEF Begin, Quiet, OneThreadPerHash, Busy
<1>6. BacklogOnce'
  BY <1>2, <1>3, <1>4 DEF BacklogOnce, OncePerHash, HashOf
<1>7. \A w \in Worker : WriterOK(w)'
  BY <1>4 DEF Begin, WriterOK, Busy
<1>8. FilesWhole' /\ PartsExplained'
  BY <1>4, SameManifest DEF Begin, FilesWhole, PartsExplained, Busy
<1>9. Covered'
  <2>1. \A h \in Wanted : \E i \in DOMAIN Backlog' : HashOf(Backlog'[i]) = h
    BY <1>2, <1>3 DEF Wanted, OncePerHash, HashOf
  <2> QED
    BY <1>2, <2>1, SameManifest DEF Covered
<1> QED
  BY <1>1, <1>5, <1>6, <1>7, <1>8, <1>9

LEMMA MainStep ==
  ASSUME PoolInv, Main \/ NoDirectory \/ Die \/ StartAgain
  PROVE  PoolInv'
<1> USE DEF PoolInv
<1>1. TypeOK'
  BY MainKeepsType
<1>2. CASE Begin
  BY <1>2, BeginStep
<1>3. CASE Push
  <2>1. Backlog' = Backlog
    BY <1>3, PushKeeps DEF Push, Backlog, TypeOK
  <2>2. Quiet'
    BY <1>3 DEF Push, Quiet
  <2> QED
    BY <1>1, <1>3, <2>1, <2>2, SameWork DEF Push
<1>4. CASE Pushed \/ Drained \/ NoDirectory \/ StartAgain
  <2>1. Backlog' = Backlog
    BY <1>4 DEF Pushed, Drained, NoDirectory, StartAgain, Backlog
  <2>2. Quiet'
    BY <1>4 DEF Pushed, Drained, NoDirectory, StartAgain, Quiet, Busy
  <2> QED
    BY <1>1, <1>4, <2>1, <2>2, SameWork DEF Pushed, Drained, NoDirectory, StartAgain
<1>5. CASE Die
  <2> USE <1>5 DEF Die
  <2>1. Backlog' = <<>> /\ \A w \in Worker : ~Busy(w)'
    BY DEF Backlog, Busy
  <2>2. deaths' > 0
    BY DEF TypeOK
  <2>3. Quiet' /\ BacklogOnce' /\ OneThreadPerHash'
    BY <2>1 DEF Quiet, BacklogOnce, OneThreadPerHash, Busy
  <2>4. \A w \in Worker : WriterOK(w)'
    BY DEF WriterOK
  <2>5. FilesWhole' /\ PartsExplained' /\ Covered'
    BY <2>2, SameManifest DEF FilesWhole, PartsExplained, Covered
  <2> QED
    BY <1>1, <2>3, <2>4, <2>5
<1> QED
  BY <1>2, <1>3, <1>4, <1>5 DEF Main
-----------------------------------------------------------------------------
(* The threads *)

LEMMA TakeStep ==
  ASSUME PoolInv, NEW w \in Worker, Take(w)
  PROVE  PoolInv'
<1> USE DEF PoolInv
<1>1. /\ manifest' = manifest /\ archive' = archive /\ packed' = packed
      /\ step' = step /\ deaths' = deaths /\ main' = main /\ todo' = todo
      /\ at[w] = "idle" /\ queue # <<>> /\ queue' = Tail(queue)
  BY DEF Take
<1>2. /\ Head(queue) \in DOMAIN manifest /\ queue' \in Seq(DOMAIN manifest)
      /\ 1 \in DOMAIN Backlog /\ Backlog[1] = Head(queue)
      /\ \A i \in DOMAIN Backlog' : i + 1 \in DOMAIN Backlog /\ Backlog'[i] = Backlog[i + 1]
      /\ \A i \in DOMAIN Backlog : i = 1 \/ i - 1 \in DOMAIN Backlog'
      /\ DOMAIN Backlog \subseteq Nat /\ DOMAIN Backlog' \subseteq Nat \ {0}
  <2>1. queue \in Seq(DOMAIN manifest) /\ todo \in Seq(DOMAIN manifest)
    BY DEF TypeOK
  <2>2. Tail(queue) \o todo \in Seq(DOMAIN manifest) /\ queue \o todo \in Seq(DOMAIN manifest)
    BY <1>1, <2>1, TakeShortens
  <2> QED
    BY <1>1, <2>1, <2>2, TakeShortens DEF Backlog
<1>3. /\ job'[w] = Head(queue) /\ at'[w] = "check"
      /\ \A v \in Worker : v # w => job'[v] = job[v] /\ at'[v] = at[v]
  BY DEF Take, TypeOK
<1>4. TypeOK'
  <2>1. Head(queue) # Idle
    BY <1>2, FullfilesAssumption DEF TypeOK, Idle
  <2> QED
    BY <1>1, <1>2, <2>1 DEF Take, TypeOK
<1>5. /\ Hash(w)' = HashOf(Backlog[1]) /\ ~manifest[job'[w]].ghosted
      /\ \A v \in Worker : v # w => Hash(v)' = Hash(v)
  BY <1>1, <1>2, <1>3 DEF Hash, HashOf, BacklogOnce
<1>6. Quiet'
  BY <1>1 DEF Quiet
<1>7. BacklogOnce'
  <2>1. \A i \in DOMAIN Backlog' : ~manifest'[Backlog'[i]].ghosted
    BY <1>1, <1>2 DEF BacklogOnce
  <2>2. \A i, j \in DOMAIN Backlog' : HashOf(Backlog[i])' = HashOf(Backlog[j])' => i = j
    <3> SUFFICES ASSUME NEW i \in DOMAIN Backlog', NEW j \in DOMAIN Backlog',
                        HashOf(Backlog[i])' = HashOf(Backlog[j])'
                 PROVE  i = j
      OBVIOUS
    <3>1. HashOf(Backlog[i + 1]) = HashOf(Backlog[j + 1])
      BY <1>1, <1>2 DEF HashOf
    <3>2. i + 1 = j + 1
      BY <1>2, <3>1 DEF BacklogOnce
    <3> QED
      BY <1>2, <3>2
  <2>3. ASSUME NEW v \in Worker, Busy(v)'
        PROVE  ~manifest'[job'[v]].ghosted /\ \A i \in DOMAIN Backlog' : HashOf(Backlog[i])' # Hash(v)'
    <3>1. CASE v = w
      <4>1. \A i \in DOMAIN Backlog' : HashOf(Backlog[i + 1]) # HashOf(Backlog[1])
        BY <1>2 DEF BacklogOnce
      <4> QED
        BY <1>1, <1>2, <1>5, <3>1, <4>1 DEF HashOf
    <3>2. CASE v # w
      BY <1>1, <1>2, <1>3, <1>5, <2>3, <3>2 DEF BacklogOnce, Busy, HashOf
    <3> QED
      BY <3>1, <3>2
  <2> QED
    BY <2>1, <2>2, <2>3 DEF BacklogOnce
<1>8. OneThreadPerHash'
  <2>1. \A v \in Worker : v # w /\ Busy(v) => Hash(v) # HashOf(Backlog[1])
    BY <1>2 DEF BacklogOnce
  <2> QED
    BY <1>3, <1>5, <2>1 DEF OneThreadPerHash, Busy
<1>9. \A v \in Worker : WriterOK(v)'
  <2>1. WriterOK(w)'
    BY <1>1, <1>3 DEF WriterOK
  <2>2. \A v \in Worker : v # w => WriterOK(v)'
    BY <1>1, <1>3, <1>5 DEF WriterOK
  <2> QED
    BY <2>1, <2>2
<1>10. FilesWhole' /\ PartsExplained'
  <2>1. \A v \in Worker : at[v] = "write" => at'[v] = "write" /\ Hash(v)' = Hash(v)
    BY <1>1, <1>3, <1>5
  <2> QED
    BY <1>1, <2>1, SameManifest DEF FilesWhole, PartsExplained
<1>11. Covered'
  <2> SUFFICES ASSUME main \in {"push", "wait", "done"}, NEW h \in Wanted
               PROVE  \/ Settled(h)'
                      \/ \E i \in DOMAIN Backlog' : HashOf(Backlog[i])' = h
                      \/ \E v \in Worker : Busy(v)' /\ Hash(v)' = h
    BY <1>1, SameManifest DEF Covered
  <2>1. CASE Settled(h)
    BY <1>1, <2>1, SameManifest DEF Settled
  <2>2. ASSUME NEW i \in DOMAIN Backlog, HashOf(Backlog[i]) = h
        PROVE  \/ \E k \in DOMAIN Backlog' : HashOf(Backlog[k])' = h
               \/ \E v \in Worker : Busy(v)' /\ Hash(v)' = h
    <3>1. CASE i = 1
      BY <1>3, <1>5, <2>2, <3>1 DEF Busy
    <3>2. CASE i # 1
      <4>1. i - 1 \in DOMAIN Backlog' /\ Backlog'[i - 1] = Backlog[i]
        BY <1>2, <3>2
      <4> QED
        BY <1>1, <2>2, <4>1 DEF HashOf
    <3> QED
      BY <3>1, <3>2
  <2>3. ASSUME NEW v \in Worker, Busy(v), Hash(v) = h
        PROVE  Busy(v)' /\ Hash(v)' = h
    BY <1>1, <1>3, <1>5, <2>3 DEF Busy
  <2> QED
    BY <2>1, <2>2, <2>3 DEF Covered
<1> QED
  BY <1>4, <1>6, <1>7, <1>8, <1>9, <1>10, <1>11

\* Steps of a thread that has its task already.
Works(w) ==
    Skip(w) \/ Check(w) \/ OpenTar(w) \/ CloseTar(w) \/ Compress(w) \/ RenameSmallest(w) \/ Tidy(w)

LEMMA WorkFrame ==
  ASSUME PoolInv, NEW w \in Worker, Works(w)
  PROVE  /\ Busy(w) /\ UNCHANGED <<manifest, main, todo, queue, deaths>>
         /\ Backlog' = Backlog
         /\ (job'[w] = job[w] /\ at'[w] \in {"write", "tidy"}) \/ at'[w] = "idle"
         /\ \A v \in Worker : v # w => job'[v] = job[v] /\ at'[v] = at[v] /\ step'[v] = step[v]
         /\ \A v \in Worker : v # w => Hash(v)' = Hash(v)
         /\ \A h \in Hashes : h # Hash(w) => archive'[h] = archive[h] /\ packed'[h] = packed[h]
<1> USE DEF PoolInv, TypeOK
<1>1. CASE Skip(w)
  BY <1>1 DEF Skip, Return, Busy, Backlog, Hash
<1>2. CASE Check(w)
  BY <1>2 DEF Check, Busy, Backlog, Hash
<1>3. CASE OpenTar(w) \/ Compress(w)
  <2>1. at[w] = "write" /\ Continue(w, "write")
    BY <1>3 DEF OpenTar, Compress
  <2>2. \A h \in Hashes : h # Hash(w) => archive'[h] = archive[h] /\ packed'[h] = packed[h]
    BY <1>3 DEF OpenTar, Compress
  <2>3. \A v \in Worker : v # w => job'[v] = job[v] /\ at'[v] = at[v] /\ step'[v] = step[v]
    BY <2>1 DEF Continue
  <2>4. at'[w] = "write" /\ job'[w] = job[w] /\ UNCHANGED <<manifest, main, todo, queue, deaths>>
    BY <2>1 DEF Continue
  <2>5. Busy(w) /\ Backlog' = Backlog /\ \A v \in Worker : v # w => Hash(v)' = Hash(v)
    BY <2>1, <2>3, <2>4 DEF Busy, Backlog, Hash
  <2> HIDE DEF PoolInv, TypeOK
  <2> QED
    BY <2>1, <2>2, <2>3, <2>4, <2>5
<1>4. CASE CloseTar(w) \/ Tidy(w)
  <2>1. at[w] \in {"write", "tidy"} /\ Return(w)
    BY <1>4 DEF CloseTar, Tidy
  <2>2. \A h \in Hashes : h # Hash(w) => archive'[h] = archive[h] /\ packed'[h] = packed[h]
    BY <1>4 DEF CloseTar, Tidy
  <2>3. \A v \in Worker : v # w => job'[v] = job[v] /\ at'[v] = at[v] /\ step'[v] = step[v]
    BY <2>1 DEF Return
  <2>4. at'[w] = "idle" /\ UNCHANGED <<manifest, main, todo, queue, deaths>>
    BY <2>1 DEF Return
  <2>5. Busy(w) /\ Backlog' = Backlog /\ \A v \in Worker : v # w => Hash(v)' = Hash(v)
    BY <2>1, <2>3, <2>4 DEF Busy, Backlog, Hash
  <2> HIDE DEF PoolInv, TypeOK
  <2> QED
    BY <2>1, <2>2, <2>3, <2>4, <2>5
<1>5. CASE RenameSmallest(w)
  <2>1. \A h \in Hashes : h # Hash(w) => archive'[h] = archive[h] /\ packed'[h] = packed[h]
    BY <1>5 DEF RenameSmallest
  <2> QED
    BY <1>5, <2>1 DEF RenameSmallest, Busy, Backlog, Hash
<1> QED
  BY <1>1, <1>2, <1>3, <1>4, <1>5 DEF Works

\* What is left to show of a step of w: its type, what it relies on next, and
\* what it has done to the tar it works on.
LEMMA WorkStep ==
  ASSUME PoolInv, NEW w \in Worker, Works(w), TypeOK', WriterOK(w)',
         \A h \in Hashes : h = Hash(w) =>
             /\ archive'[h] = "part" =>
                  /\ IsDir(h)
                  /\ deaths > 0 \/ (at'[w] = "write" /\ Hash(w)' = h)
             /\ Busy(w)' \/ Settled(h)' \/ h \notin Wanted
  PROVE  PoolInv'
<1> USE DEF PoolInv
<1>1. /\ Busy(w) /\ UNCHANGED <<manifest, main, todo, queue, deaths>>
      /\ Backlog' = Backlog
      /\ (job'[w] = job[w] /\ at'[w] \in {"write", "tidy"}) \/ at'[w] = "idle"
      /\ \A v \in Worker : v # w => job'[v] = job[v] /\ at'[v] = at[v] /\ step'[v] = step[v]
      /\ \A v \in Worker : v # w => Hash(v)' = Hash(v)
      /\ \A h \in Hashes : h # Hash(w) => archive'[h] = archive[h] /\ packed'[h] = packed[h]
  BY WorkFrame
<1>2. \A v \in Worker : Busy(v)' => Busy(v) /\ job'[v] = job[v]
  BY <1>1 DEF Busy
<1>3. Quiet'
  BY <1>1, <1>2 DEF Quiet
<1>4. BacklogOnce' /\ OneThreadPerHash'
  BY <1>1, <1>2, StillOnce
<1>5. \A v \in Worker : WriterOK(v)'
  <2> SUFFICES ASSUME NEW v \in Worker, v # w PROVE WriterOK(v)'
    OBVIOUS
  <2>1. at[v] \in {"write", "tidy"} /\ Hash(v) # Hash(w) =>
            archive'[Hash(v)] = archive[Hash(v)] /\ packed'[Hash(v)] = packed[Hash(v)]
    BY <1>1, WriterHash
  <2> QED
    BY <1>1, <2>1, OthersUndisturbed
<1>6. FilesWhole'
  BY <1>1, SameManifest DEF FilesWhole
<1>7. PartsExplained'
  <2> SUFFICES ASSUME NEW h \in Hashes, archive'[h] = "part"
               PROVE  deaths' > 0 \/ \E v \in Worker : at'[v] = "write" /\ Hash(v)' = h
    BY DEF PartsExplained
  <2>1. CASE h = Hash(w)
    BY <1>1, <2>1
  <2>2. CASE h # Hash(w)
    <3>1. deaths > 0 \/ \E v \in Worker : at[v] = "write" /\ Hash(v) = h
      BY <1>1, <2>2 DEF PartsExplained
    <3> QED
      BY <1>1, <2>2, <3>1
  <2> QED
    BY <2>1, <2>2
<1>8. Covered'
  <2> SUFFICES ASSUME main \in {"push", "wait", "done"}, NEW h \in Wanted
               PROVE  \/ Settled(h)'
                      \/ \E i \in DOMAIN Backlog' : HashOf(Backlog[i])' = h
                      \/ \E v \in Worker : Busy(v)' /\ Hash(v)' = h
    BY <1>1, SameManifest DEF Covered
  <2>1. h \in Hashes
    BY Packable DEF Wanted
  <2>2. CASE h # Hash(w)
    <3>1. Settled(h)' = Settled(h)
      BY <1>1, <2>1, <2>2, SameManifest DEF Settled
    <3> QED
      BY <1>1, <2>2, <3>1, SameManifest DEF Covered, Busy
  <2>3. CASE h = Hash(w)
    <3>1. Busy(w)' => Hash(w)' = Hash(w)
      BY <1>1, <1>2 DEF Hash
    <3> QED
      BY <2>1, <2>3, <3>1
  <2> QED
    BY <2>2, <2>3
<1> QED
  BY <1>3, <1>4, <1>5, <1>6, <1>7, <1>8

LEMMA SkipStep ==
  ASSUME PoolInv, NEW w \in Worker, Skip(w)
  PROVE  PoolInv'
<1> USE DEF PoolInv
<1>1. at[w] = "check" /\ Return(w) /\ archive' = archive /\ packed' = packed
  BY DEF Skip
<1>2. TypeOK'
  BY <1>1, ReturnKeepsType DEF TypeOK
<1>3. WriterOK(w)'
  BY <1>1 DEF Return, WriterOK, TypeOK
<1>4. ASSUME NEW h \in Hashes, h = Hash(w)
      PROVE  /\ archive[h] = "part" => IsDir(h) /\ deaths > 0
             /\ archive[h] # "none"
  <2>1. ASSUME NEW v \in Worker, at[v] = "write", Hash(v) = h
        PROVE  FALSE
    BY <1>1, <1>4, <2>1 DEF OneThreadPerHash
  <2>2. archive[h] = "part" => IsDir(h) /\ deaths > 0
    BY <2>1 DEF FilesWhole, PartsExplained
  <2>3. job[w] \in DOMAIN manifest
    BY <1>1, Task DEF Busy
  <2>4. ~manifest[job[w]].deleted
    BY <1>4, <2>3, FullfilesAssumption DEF TypeOK, Hash
  <2> QED
    BY <1>4, <2>2, <2>4 DEF Skip
<1>5. \A h \in Hashes : h = Hash(w) => Settled(h)'
  <2> SUFFICES ASSUME NEW h \in Hashes, h = Hash(w) PROVE Settled(h)'
    OBVIOUS
  <2>1. archive[h] \in {"part", "whole"}
    BY <1>4 DEF TypeOK, Content
  <2>2. manifest' = manifest /\ deaths' = deaths
    BY <1>1 DEF Return
  <2> QED
    BY <1>1, <1>4, <2>1, <2>2, SameManifest DEF Settled
<1> QED
  BY <1>1, <1>2, <1>3, <1>4, <1>5, WorkStep DEF Works

LEMMA CheckStep ==
  ASSUME PoolInv, NEW w \in Worker, Check(w)
  PROVE  PoolInv'
<1> USE DEF PoolInv
<1>1. TypeOK'
  BY DEF Check, TypeOK, Idle
<1>2. Hash(w)' = Hash(w) /\ at'[w] = "write" /\ step'[w] = 0 /\ archive'[Hash(w)] = "none"
  BY DEF Check, Hash, TypeOK, WriterOK
<1>3. WriterOK(w)'
  <2>1. \A i \in DOMAIN Formats : ~(2 * i <= 0)
    BY FullfilesAssumption
  <2> QED
    BY <1>2, <2>1 DEF Check, WriterOK
<1>4. Busy(w)'
  BY <1>2 DEF Busy
<1> QED
  BY <1>1, <1>2, <1>3, <1>4, WorkStep DEF Works

LEMMA OpenTarStep ==
  ASSUME PoolInv, NEW w \in Worker, OpenTar(w)
  PROVE  PoolInv'
<1> USE DEF PoolInv
<1>1. /\ job[w] \in DOMAIN manifest /\ Hash(w) \in Hashes
      /\ IsDir(Hash(w)) <=> manifest[job[w]].dir
  BY WriterHash DEF OpenTar
<1>2. TypeOK'
  <2>1. archive' \in [Hashes -> Content] /\ packed' \in [Hashes -> [Format -> Content]]
    BY DEF OpenTar, TypeOK, Content
  <2>2. step[w] < 2 * Len(Formats)
    BY FullfilesAssumption DEF OpenTar
  <2> QED
    BY <2>1, <2>2, ContinueKeepsType DEF OpenTar
<1>3. /\ Hash(w)' = Hash(w) /\ job' = job /\ manifest' = manifest
      /\ at'[w] = "write" /\ step'[w] = 1 /\ archive'[Hash(w)] = "part"
  BY <1>1 DEF OpenTar, Continue, Hash, TypeOK
<1>4. WriterOK(w)' /\ Busy(w)'
  BY <1>3 DEF OpenTar, WriterOK, Busy
<1> QED
  BY <1>1, <1>2, <1>3, <1>4, WorkStep DEF Works, OpenTar

LEMMA CloseTarStep ==
  ASSUME PoolInv, NEW w \in Worker, CloseTar(w)
  PROVE  PoolInv'
<1> USE DEF PoolInv
<1>1. Hash(w) \in Hashes /\ Return(w)
  BY WriterHash DEF CloseTar
<1>2. TypeOK'
  <2>1. archive' \in [Hashes -> Content] /\ packed' \in [Hashes -> [Format -> Content]]
    BY DEF CloseTar, TypeOK, Content
  <2> QED
    BY <1>1, <2>1, ReturnKeepsType
<1>3. WriterOK(w)'
  BY <1>1 DEF Return, WriterOK, TypeOK
<1>4. archive'[Hash(w)] = "whole"
  BY <1>1 DEF CloseTar, TypeOK
<1> QED
  BY <1>1, <1>2, <1>3, <1>4, WorkStep DEF Works, Settled

LEMMA CompressStep ==
  ASSUME PoolInv, NEW w \in Worker, Compress(w)
  PROVE  PoolInv'
<1> USE DEF PoolInv
<1> DEFINE k == (step[w] \div 2) + 1
           new == IF step[w] % 2 = 0 THEN "part" ELSE "whole"
<1>1. /\ job[w] \in DOMAIN manifest /\ Hash(w) \in Hashes
      /\ at[w] = "write" /\ ~manifest[job[w]].dir /\ Continue(w, "write")
      /\ archive' = archive
  BY WriterHash DEF Compress
<1>2. step[w] \in Nat /\ k \in DOMAIN Formats /\ Formats[k] \in Format
  <2>1. step[w] \in 0..2 * Len(Formats) /\ step[w] < 2 * Len(Formats)
    BY DEF Compress, TypeOK
  <2>2. k \in 1..Len(Formats)
    BY <2>1, FullfilesAssumption
  <2> QED
    BY <2>1, <2>2, FullfilesAssumption DEF Format
<1>3. packed' = [packed EXCEPT ![Hash(w)] = [@ EXCEPT ![Formats[k]] = new]]
  BY DEF Compress
<1>4. packed[Hash(w)] \in [Format -> Content] /\ new \in Content
  BY <1>1 DEF TypeOK, Content
<1>5. /\ packed' \in [Hashes -> [Format -> Content]]
      /\ packed'[Hash(w)] = [packed[Hash(w)] EXCEPT ![Formats[k]] = new]
  <2> HIDE DEF k, new
  <2> QED
    BY <1>1, <1>3, <1>4 DEF TypeOK
<1>6. TypeOK'
  <2>1. archive' \in [Hashes -> Content]
    BY <1>1 DEF TypeOK
  <2> QED
    BY <1>1, <1>5, <2>1, ContinueKeepsType DEF Compress
<1>7. /\ Hash(w)' = Hash(w) /\ job' = job /\ manifest' = manifest
      /\ at'[w] = "write" /\ step'[w] = step[w] + 1
  BY <1>1 DEF Continue, Hash, TypeOK
<1>8. ASSUME NEW i \in DOMAIN Formats, 2 * i <= step[w] + 1
      PROVE  packed'[Hash(w)][Formats[i]] = "whole"
  <2>1. i \in Nat /\ Formats[i] \in Format
    BY FullfilesAssumption DEF Format
  <2>2. CASE i = k
    <3>1. step[w] % 2 # 0
      BY <1>2, <1>8, <2>2
    <3> QED
      BY <1>2, <1>4, <1>5, <2>2, <3>1
  <2>3. CASE i # k
    <3>1. 2 * i <= step[w]
      BY <1>2, <1>8, <2>1, <2>3
    <3>2. packed[Hash(w)][Formats[i]] = "whole"
      BY <1>1, <3>1 DEF WriterOK
    <3>3. Formats[i] # Formats[k]
      BY <1>2, <2>3, FullfilesAssumption
    <3> HIDE DEF k, new
    <3> QED
      BY <1>4, <1>5, <2>1, <3>2, <3>3
  <2> QED
    BY <2>2, <2>3
<1>9. WriterOK(w)' /\ Busy(w)'
  BY <1>1, <1>7, <1>8 DEF WriterOK, Busy
<1>10. archive'[Hash(w)] # "part"
  BY <1>1 DEF WriterOK
<1> QED
  BY <1>6, <1>7, <1>9, <1>10, WorkStep DEF Works

\* Every format is complete when the smallest result is looked for.
LEMMA AllPacked ==
  ASSUME PoolInv, NEW w \in Worker, at[w] = "write", ~manifest[job[w]].dir,
         step[w] = 2 * Len(Formats)
  PROVE  Format # {} /\ \A f \in Format : packed[Hash(w)][f] = "whole"
<1>1. Len(Formats) \in Nat /\ DOMAIN Formats = 1..Len(Formats) /\ Len(Formats) # 0
  BY FullfilesAssumption
<1>2. \A i \in DOMAIN Formats : 2 * i <= step[w]
  BY <1>1
<1>3. \A i \in DOMAIN Formats : packed[Hash(w)][Formats[i]] = "whole"
  BY <1>2 DEF PoolInv, WriterOK
<1>4. Format = {Formats[i] : i \in DOMAIN Formats} /\ 1 \in DOMAIN Formats
  BY <1>1 DEF Format, ToSet
<1> QED
  BY <1>3, <1>4

LEMMA RenameStep ==
  ASSUME PoolInv, NEW w \in Worker, RenameSmallest(w)
  PROVE  PoolInv'
<1> USE DEF PoolInv
<1>1. /\ job[w] \in DOMAIN manifest /\ Hash(w) \in Hashes
      /\ at[w] = "write" /\ ~manifest[job[w]].dir /\ step[w] = 2 * Len(Formats)
  BY WriterHash DEF RenameSmallest
<1>2. PICK f \in Format :
         /\ archive' = [archive EXCEPT ![Hash(w)] = packed[Hash(w)][f]]
         /\ packed' = [packed EXCEPT ![Hash(w)][f] = "none"]
  BY <1>1, AllPacked DEF RenameSmallest
<1>3. archive'[Hash(w)] = "whole"
  BY <1>1, <1>2, AllPacked DEF TypeOK
<1>4. TypeOK'
  <2>1. archive' \in [Hashes -> Content]
    BY <1>1, <1>2, AllPacked DEF TypeOK, Content
  <2>2. packed[Hash(w)] \in [Format -> Content] /\ "none" \in Content
    BY <1>1 DEF TypeOK, Content
  <2>3. packed' \in [Hashes -> [Format -> Content]]
    BY <1>2, <2>2 DEF TypeOK
  <2> QED
    BY <2>1, <2>3 DEF RenameSmallest, TypeOK, Idle
<1>5. Hash(w)' = Hash(w) /\ at'[w] = "tidy"
  BY DEF RenameSmallest, Hash, TypeOK
<1>6. WriterOK(w)' /\ Busy(w)'
  BY <1>1, <1>3, <1>5 DEF RenameSmallest, WriterOK, Busy
<1> QED
  BY <1>3, <1>4, <1>6, WorkStep DEF Works

LEMMA TidyStep ==
  ASSUME PoolInv, NEW w \in Worker, Tidy(w)
  PROVE  PoolInv'
<1> USE DEF PoolInv
<1>1. Hash(w) \in Hashes /\ Return(w) /\ archive' = archive /\ archive[Hash(w)] = "whole"
  BY WriterHash DEF Tidy, WriterOK
<1>2. TypeOK'
  <2>1. archive' \in [Hashes -> Content] /\ packed' \in [Hashes -> [Format -> Content]]
    BY <1>1 DEF Tidy, TypeOK, Content
  <2> QED
    BY <1>1, <2>1, ReturnKeepsType
<1>3. WriterOK(w)'
  BY <1>1 DEF Return, WriterOK, TypeOK
<1> QED
  BY <1>1, <1>2, <1>3, WorkStep DEF Works, Settled
-----------------------------------------------------------------------------
(* The theorems *)

LEMMA PoolStep == PoolInv /\ [Next]_vars => PoolInv'
<1> SUFFICES ASSUME PoolInv, [Next]_vars PROVE PoolInv'
  OBVIOUS
<1>1. CASE Main \/ NoDirectory \/ Die \/ StartAgain
  BY <1>1, MainStep
<1>2. ASSUME NEW w \in Worker, Thread(w)
      PROVE  PoolInv'
  BY <1>2, TakeStep, SkipStep, CheckStep, OpenTarStep, CloseTarStep, CompressStep,
     RenameStep, TidyStep DEF Thread
<1>3. CASE UNCHANGED vars
  <2>1. Backlog' = Backlog /\ TypeOK' /\ Quiet'
    BY <1>3 DEF vars, Backlog, PoolInv, TypeOK, Quiet, Busy
  <2> QED
    BY <1>3, <2>1, SameWork DEF vars
<1> QED
  BY <1>1, <1>2, <1>3 DEF Next

LEMMA PoolAlways == Spec => []PoolInv
<1> QED
  BY InitPool, PoolStep, PTL DEF Spec

\* The variables keep their types.
THEOREM PoolTypeCorrect == Spec => []TypeOK
<1>1. PoolInv => TypeOK
  BY DEF PoolInv
<1> QED
  BY <1>1, PoolAlways, PTL

\* No two threads ever write the names of one hash.
THEOREM ThreadsApart == Spec => []OneThreadPerHash
<1>1. PoolInv => OneThreadPerHash
  BY DEF PoolInv
<1> QED
  BY <1>1, PoolAlways, PTL

\* A file's tar is never seen half written, whoever dies and whenever.
THEOREM FilesNeverTorn == Spec => []FilesWhole
<1>1. PoolInv => FilesWhole
  BY DEF PoolInv
<1> QED
  BY <1>1, PoolAlways, PTL

\* A run that ends has packed what is new, but for the directories that a
\* process left incomplete when it died.
THEOREM FinishedMeansPacked == Spec => []EverythingPacked
<1>1. PoolInv => EverythingPacked
  <2> SUFFICES ASSUME PoolInv, main = "done", NEW h \in Wanted
               PROVE  Settled(h)
    BY DEF EverythingPacked, Settled
  <2>1. Backlog = <<>> /\ \A w \in Worker : ~Busy(w)
    BY DEF PoolInv, Quiet, Backlog
  <2> QED
    BY <2>1 DEF PoolInv, Covered
<1> QED
  BY <1>1, PoolAlways, PTL

\* No step opens a complete tar again.
THEOREM WholeStaysWhole == Spec => CompleteStaysComplete
<1> DEFINE Kept == \A h \in Hashes : archive[h] = "whole" => archive'[h] = "whole"
<1>1. ASSUME PoolInv, Next
      PROVE  Kept
  <2>. /\ archive \in [Hashes -> Content]
       /\ \A w \in Worker : WriterOK(w)
    BY <1>1 DEF PoolInv, TypeOK
  <2>1. CASE Main \/ NoDirectory \/ Die \/ StartAgain
    BY <2>1 DEF Main, Begin, Push, Pushed, Drained, NoDirectory, Die, StartAgain
  <2>2. ASSUME NEW w \in Worker, Thread(w)
        PROVE  Kept
    <3>1. CASE Take(w) \/ Skip(w) \/ Check(w) \/ Compress(w) \/ Tidy(w)
      BY <3>1 DEF Take, Skip, Check, Compress, Tidy
    <3>2. CASE OpenTar(w)
      <4>1. archive[Hash(w)] = "none"
        BY <3>2 DEF WriterOK, OpenTar
      <4> QED
        BY <3>2, <4>1 DEF OpenTar
    <3>3. CASE CloseTar(w)
      BY <3>3 DEF CloseTar
    <3>4. CASE RenameSmallest(w)
      <4>1. archive[Hash(w)] = "none"
        BY <3>4 DEF WriterOK, RenameSmallest
      <4> QED
        BY <3>4, <4>1 DEF RenameSmallest
    <3> QED
      BY <2>2, <3>1, <3>2, <3>3, <3>4 DEF Thread
  <2> QED
    BY <1>1, <2>1, <2>2 DEF Next
<1>2. PoolInv /\ [Next]_vars => [Kept]_vars
  BY <1>1
<1> QED
  BY <1>2, PoolAlways, PTL DEF Spec, CompleteStaysComplete
=============================================================================
