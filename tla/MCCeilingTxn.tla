---------------------------- MODULE MCCeilingTxn ----------------------------
(* Small instances of CeilingTxn.  Line l1 carries a tolerance that adds one *)
(* unit to its ceiling; l2 carries none.                                    *)
EXTENDS CeilingTxn, TLC

CONSTANTS s1, s2, l1, l2, d1, d2

MCBoqQty == (l1 :> 2) @@ (l2 :> 2)
MCTolerancePct == (l1 :> 50) @@ (l2 :> 0)

MCOneLineQty == (l1 :> 2)
MCOneLinePct == (l1 :> 50)

Symmetry == Permutations(Sessions) \cup Permutations(Docs)
=============================================================================
