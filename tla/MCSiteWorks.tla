---------------------------- MODULE MCSiteWorks ------------------------------
(* Small instances of SiteWorks.                                           *)
EXTENDS SiteWorks, TLC

CONSTANTS s1, s2, so1, so2, fo1, fo2, f1, f2, t1, t2

MCLineOf == [d \in Documents |-> IF d \in ServiceOrderIds THEN "service_line" ELSE "made_line"]
MCCeilings == [b \in {"service_line", "made_line"} |-> IF b = "service_line" THEN 4 ELSE 1]

(* Service orders meet the rest in the cost ledger only, which refuses      *)
(* nothing, so the instance takes them apart; of the orders that fabricate *)
(* and the transfers, any two are in use at a time.                        *)
Apart ==
    LET made == {o \in FabOrderIds : fab[o] # NoFabOrder}
        moves == {t \in TransferIds : transfer[t] # NoTransfer}
    IN  \/ /\ \A o \in ServiceOrderIds : service[o] = NoServiceOrder
           /\ Cardinality(made) + Cardinality(moves) <= 2
        \/ /\ onHand = [i \in Items |-> [l \in Places |-> 0]]
           /\ made = {}

Symmetry ==
    Permutations(Sessions) \cup Permutations(ServiceOrderIds)
        \cup Permutations(FabOrderIds) \cup Permutations(FlagIds)
        \cup Permutations(TransferIds)
=============================================================================
