---------------------------- MODULE MCSettlements ----------------------------
(* Instances of Settlements.  The payments: one in pesos to the agency,    *)
(* one in dollars to the owner in another month, one in dollars to the     *)
(* owner in the month of the first.                                        *)
EXTENDS Settlements

CONSTANTS m1, m2, p1, p2, p3, o1, o2, q1, q2

(* At a rate of 7.3 the second and third come to 14.6: a line of 15, while *)
(* 10% of 14.6 is 1.46 and of 15 a tie.                                    *)
MCPaymentOf == [p \in Payments |->
    IF p = p1 THEN [period |-> m1, amount |-> 15, currency |-> "ARS", destination |-> "agency_account"]
    ELSE [period |-> IF p = p2 THEN m2 ELSE m1, amount |-> 2, currency |-> "USD",
          destination |-> "landlord_account"]]

MCQuoteOrder == [q \in Quotes |-> o2]
=============================================================================
