--------------------------- MODULE MCTicketEdits ---------------------------
(***************************************************************************)
(* Instances of TicketEdits for TLC.                                       *)
(***************************************************************************)
EXTENDS TicketEdits, TLC

CONSTANTS a, b, o1, o2

\* Two ticket types; of a, two orders together take more than there is.
QuotaHere == (a :> 3) @@ (b :> 1)

DemandHere == (o1 :> ((a :> 2) @@ (b :> 1))) @@ (o2 :> ((a :> 2) @@ (b :> 0)))

\* No liveness is checked under symmetry.
Symmetry == Permutations(Edits)
=============================================================================
