--------------------------- MODULE MCRentLedger ---------------------------
(* Small instances of RentLedger for TLC.                                  *)
EXTENDS RentLedger, TLC

CONSTANTS m1, m2, c1, pay1, pay2, pay3

\* Two months of one contract.
MCContractOf == (m1 :> c1) @@ (m2 :> c1)
MCSymmetry == Permutations({m1, m2}) \cup Permutations({pay1, pay2, pay3})
============================================================================
