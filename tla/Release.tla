------------------------------- MODULE Release -------------------------------
(***************************************************************************)
(* What swupd_create_update and the script around it promise to a client:  *)
(* a sequence of releases.  The operator hands in the build of a version   *)
(* as often as he likes until the version is out.  A release appears at    *)
(* once, complete, with a version above all earlier ones, and never        *)
(* changes.  What it delivers with each bundle is what that bundle holds   *)
(* in the build last handed in, whatever happened to the runs before it.   *)
(***************************************************************************)
EXTENDS Integers

CONSTANT Versions  \* what a release may be called

VARIABLES given,     \* the content of the builds handed in, by version
          released   \* the content of the releases, by version

Init == DOMAIN given = {} /\ DOMAIN released = {}

Newest(v) == \A w \in DOMAIN released : w < v

Give(v) ==
    /\ Newest(v)
    /\ DOMAIN given' = DOMAIN given \cup {v}
    /\ \A w \in DOMAIN given \ {v} : given'[w] = given[w]
    /\ UNCHANGED released

Publish(v) ==
    /\ Newest(v) /\ v \in DOMAIN given
    /\ DOMAIN released' = DOMAIN released \cup {v}
    /\ \A w \in DOMAIN released : released'[w] = released[w]
    /\ released'[v] = given[v]
    /\ UNCHANGED given

Next == \E v \in Versions : Give(v) \/ Publish(v)

Spec == Init /\ [][Next]_<<given, released>>
=============================================================================
