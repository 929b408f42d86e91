--------------------------- MODULE MCMaintenance ---------------------------
(***************************************************************************)
(* Maintenance for TLC.                                                    *)
(***************************************************************************)
EXTENDS Maintenance, TLC

CONSTANTS m1, m2

\* Two operators, one of whom expires snapshots.
TwoOperators ==
    (m1 :> {"expire", "cleanup"}) @@ (m2 :> {"protect", "release", "cleanup", "orphans"})

Symmetry == Permutations(Clients) \cup Permutations(Paths)
============================================================================
