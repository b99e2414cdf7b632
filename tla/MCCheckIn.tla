----------------------------- MODULE MCCheckIn -----------------------------
(***************************************************************************)
(* Instances of CheckIn for TLC.                                           *)
(***************************************************************************)
EXTENDS CheckIn, TLC

CONSTANTS p1, p2, g1, g2, t1, t2, e1, e2, n1

\* Two tickets for the first event; codes may name the second one.
OneEvent == (t1 :> e1) @@ (t2 :> e1)

Symmetry == Permutations({p1, p2}) \cup Permutations({g1, g2})
=============================================================================
