------------------------------- MODULE MCMedia -------------------------------
(***************************************************************************)
(* Instances of EventMedia for TLC.                                        *)
(***************************************************************************)
EXTENDS EventMedia, TLC

\* No liveness is checked under symmetry.
Symmetry == Permutations(Media) \cup Permutations(Events) \cup Permutations(Calls)
=============================================================================
