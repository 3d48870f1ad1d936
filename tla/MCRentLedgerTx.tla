-------------------------- MODULE MCRentLedgerTx --------------------------
(* Small instances of RentLedgerTx for TLC.                                *)
EXTENDS RentLedgerTx, TLC

CONSTANTS m1, m2, c1, r1, r2, r3, r4

MCOneMonth == m1 :> c1
MCTwoMonths == (m1 :> c1) @@ (m2 :> c1)
MCSymmetry == Permutations({m1, m2}) \cup Permutations({r1, r2, r3})
============================================================================
