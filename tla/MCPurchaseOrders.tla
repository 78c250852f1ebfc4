-------------------------- MODULE MCPurchaseOrders ---------------------------
(* Small instances of PurchaseOrders.                                      *)
EXTENDS PurchaseOrders, TLC

CONSTANTS s1, s2, o1, o2, g1, g2

Symmetry == Permutations(Sessions) \cup Permutations(Orders) \cup Permutations(Receipts)
=============================================================================
