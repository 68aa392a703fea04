--------------------------- MODULE MCCreateUpdate ----------------------------
(***************************************************************************)
(* Small instances of CreateUpdate.  A scenario is a set of builds for each *)
(* version: which bundles hold which path, what the path holds, who         *)
(* includes whom, and the run's options.  os-core holds /usr/lib/os-release *)
(* (path 9), which is different in every version, as in every real build,   *)
(* unless the scenario is about a release that leaves os-core alone.        *)
(***************************************************************************)
EXTENDS CreateUpdate, TLC

\* The kinds of the nodes a configuration names.
MCKindOf == [n \in Node |-> IF n \in {"d1", "d2"} THEN "D"
                            ELSE IF n \in {"l1", "l2"} THEN "L" ELSE "F"]

Release(v) == <<"rel1", "rel2", "rel3", "rel4">>[v]

\* The chroots of a build: content says what each path holds, in every bundle
\* of place[p].
Chroots(v, content, place) ==
    [b \in Bundle |->
        [p \in {q \in DOMAIN content : b \in place[q]} \cup
               (IF b = Core THEN {9} ELSE {}) |->
            IF p = 9 THEN Release(v) ELSE content[p]]]

Build(groups, img, inc, fmt, minversion, ban) ==
    [groups |-> groups, img |-> img, inc |-> inc, format |-> fmt,
     minversion |-> minversion, ban |-> ban]

NoIncludes == [b \in Bundle |-> {}]
AppIncludesLib == [NoIncludes EXCEPT !["app"] = {"lib"}]

\* One path moves between os-core, lib and app, and app may include lib.
MoveInputs(groups) ==
    [v \in Version |->
        {Build(groups, Chroots(v, (1 :> n), (1 :> B)), inc, 1, 0, FALSE) :
            n \in (IF v = 2 THEN {"x", "y"} ELSE {"x"}),
            B \in SUBSET Bundle,
            inc \in (IF v = 1 THEN {NoIncludes} ELSE {NoIncludes, AppIncludesLib})}]

\* Files of app appear, disappear and change, with rename detection, and os-core
\* stays what it was.
RenameInputs ==
    [v \in Version |->
        {Build(<<"os-core", "app">>,
               Chroots(1, (1 :> n) @@ (2 :> m) @@ (3 :> "x"),
                       (1 :> A) @@ (2 :> B) @@ (3 :> C)), NoIncludes, 1, 0, FALSE) :
            n \in {"x", "y"}, m \in {"x", "y"},
            A \in {{}, {"app"}}, B \in {{}, {"app"}}, C \in {{}, {"app"}}}]

\* A boot file (6) comes and goes, and a config file or directory (5).
BootInputs ==
    [v \in Version |->
        {Build(<<"os-core", "app">>, Chroots(v, (6 :> n), (6 :> B)), NoIncludes, 1, 0, FALSE) :
            n \in {"x", "y"}, B \in SUBSET {"os-core", "app"}}]

ConfigInputs ==
    [v \in Version |->
        {Build(<<"os-core", "app">>, Chroots(v, (5 :> n), (5 :> B)), NoIncludes, 1, 0, FALSE) :
            n \in {"x", "d1"}, B \in SUBSET {"os-core", "app"}}]

\* --format and --minversion while one file comes and goes and another changes.
FormatInputs ==
    [v \in Version |->
        {Build(<<"os-core", "app">>,
               Chroots(v, (1 :> "x") @@ (2 :> n), (1 :> B) @@ (2 :> {"app"})),
               NoIncludes, fmt, min, FALSE) :
            n \in (IF v = 1 THEN {"x"} ELSE {"x", "y"}), B \in {{}, {"app"}},
            fmt \in (IF v = 1 THEN {1} ELSE 1..2), min \in (IF v = 1 THEN {0} ELSE {0, v})}]

\* [Debuginfo] banned; 7 is a debug file.
BanInputs ==
    [v \in Version |->
        {Build(<<"os-core", "app">>,
               Chroots(v, (1 :> n) @@ (7 :> "x"), (1 :> {"app"}) @@ (7 :> {"app"})),
               NoIncludes, fmt, IF o = "minversion" THEN v ELSE 0, o = "ban") :
            n \in (IF v = 1 THEN {"x"} ELSE {"x", "y"}),
            fmt \in (IF v = 1 THEN {1} ELSE 1..2), o \in {"none", "minversion", "ban"}}]

\* app is compared with a lib that is still raw, or with what lib has become.
ReleasePlans == {MoveInputs(<<"app", "os-core", "lib">>),
                 MoveInputs(<<"os-core", "lib", "app">>),
                 RenameInputs, BootInputs, ConfigInputs, FormatInputs, BanInputs}

DebuginfoPlans == {BanInputs}

\* A boot directory instead, and an os-core that does not change by itself.
BootDirInputs ==
    [v \in Version |->
        {Build(<<"os-core", "app">>,
               Chroots(v, (6 :> "d1"), (6 :> B)), NoIncludes, 1, 0, FALSE) :
            B \in SUBSET Bundle}]

QuietCoreInputs ==
    [v \in Version |->
        {[in EXCEPT !.img[Core] = (9 :> "rel1") @@ @] : in \in BootInputs[v]}]

BootDirPlans == {BootDirInputs}
QuietCorePlans == {QuietCoreInputs}

\* Few builds, for runs that crash and are repeated.  What is a directory in the
\* second may not be a file in the third.
CrashInputs ==
    [v \in Version |->
        {Build(<<"os-core", "app">>, Chroots(v, (1 :> n), (1 :> B)), NoIncludes, 1, 0, FALSE) :
            n \in (IF v = 2 THEN {"y", "d1"} ELSE {"x"}),
            B \in {{}, {"app"}, {"os-core"}}}]

CrashPlans == {CrashInputs}

\* A first release that may be torn at any place; over it builds that change the
\* file of app, whose app may include itself, or a lib that is not in groups.ini.
Includers == {[NoIncludes EXCEPT !["app"] = B] : B \in {{}, {"app"}, {"lib"}}}

FailureInputs ==
    [v \in Version |->
        {Build(<<"os-core", "app">>, Chroots(v, (1 :> n), (1 :> {"app"})), inc, 1, 0, FALSE) :
            n \in (IF v = 1 THEN {"x"} ELSE {"y"}),
            inc \in (IF v = 1 THEN {NoIncludes} ELSE Includers)}]

FailurePlans == {FailureInputs}
=============================================================================
