----------------------------- MODULE MCPayments -----------------------------
(***************************************************************************)
(* Instances of PaymentQueue for TLC.                                      *)
(***************************************************************************)
EXTENDS PaymentQueue

CONSTANTS x1, h1, r1

\* Leaves out the reports that come in before the transaction is saved.
SavedFirst == \A x \in Txs : reports[x] > 0 => tx[x] # "none"
=============================================================================
