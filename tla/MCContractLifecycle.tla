------------------------ MODULE MCContractLifecycle ------------------------
(* Small instances of ContractLifecycle for TLC.                            *)
EXTENDS ContractLifecycle

CONSTANTS c1, c2, p1

MCOneProperty == [c \in Contracts |-> p1]

\* Adjusted every month, and not at all.
MCAdjusted ==
    {[start_date |-> 0, end_date |-> 4, initial_amount |-> 1, frequency |-> 1],
     [start_date |-> 3, end_date |-> 4, initial_amount |-> 1, frequency |-> 0]}

\* Two ranges with no day in common; extending one makes them meet.
MCRanges ==
    {[start_date |-> s, end_date |-> e, initial_amount |-> 1, frequency |-> 0] :
        <<s, e>> \in {<<0, 1>>, <<2, 3>>}}
============================================================================
