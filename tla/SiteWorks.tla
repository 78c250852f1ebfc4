------------------------------ MODULE SiteWorks ------------------------------
(***************************************************************************)
(* Service orders, fabrication and stock transfers together: they draw on  *)
(* the same BOQ, the same stock and the same cost ledger, and a transfer   *)
(* is how material bought for the site reaches the works.                  *)
(***************************************************************************)
EXTENDS ServiceOrders, Fabrication, StockTransfers, Functions

CONSTANT MaxSupply  \* bound: material that arrives from vendors

ASSUME SiteWorksAssumption ==
    /\ IsFiniteSet(Sessions) /\ IsFiniteSet(ServiceOrderIds) /\ IsFiniteSet(FabOrderIds)
    /\ Documents = ServiceOrderIds \cup FabOrderIds
    /\ ServiceOrderIds \cap FabOrderIds = {}
    /\ LineOf \in [Documents -> DOMAIN Ceilings]
    /\ Ceilings \in [DOMAIN Ceilings -> Nat]
    /\ ServiceQtys \cup CertifyQtys \cup FabQtys \cup FlagQtys \subseteq Nat \ {0}
    /\ Recipe \in Nat \ {0}
    /\ MaxRuns \in Nat /\ MaxSupply \in Nat

works == <<service, fab, vendorKnown, flag, transfer>>
vars == <<req, ledgers, works>>

Init ==
    /\ NoRequests
    /\ LedgersInit
    /\ ServiceInit
    /\ FabInit
    /\ StockInit

(* A verified receipt, as inventory/services.py posts it.                  *)
Supply(l) ==
    /\ cost["project"]["MATERIAL"] < MaxSupply
    /\ onHand' = Moved(onHand, "material", 1, "outside", l)
    /\ cost' = Posted(cost, "project", "MATERIAL", 1)
    /\ UNCHANGED <<req, committed, held, works>>

Next ==
    \/ ServiceNext /\ UNCHANGED <<fab, vendorKnown, flag, transfer>>
    \/ FabNext /\ UNCHANGED <<service, flag, transfer>>
    \/ StockNext /\ UNCHANGED <<service, fab, vendorKnown>>
    \/ \E l \in {"site", "works"} : Supply(l)
    \/ \E s \in Sessions : Rollback(s) /\ UNCHANGED <<ledgers, works>>

Spec == Init /\ [][Next]_vars

-----------------------------------------------------------------------------
TypeOK ==
    /\ req \in [Sessions -> ServiceRequests \cup FabRequests \cup StockRequests \cup {Idle}]
    /\ LedgersTypeOK
    /\ ServiceTypeOK
    /\ FabTypeOK
    /\ StockTypeOK

(* Certifying, completing and accepting each look at a copy and then post: *)
(* what they post comes once for each request that overlapped, and no more *)
(* often.  So two that do not overlap never certify more than the scope,   *)
(* produce a run twice or move a transfer twice.                           *)
OncePerOverlap == CertifiedWithinScope /\ FinishedPerRun /\ MovedOncePerSession

\* What the moves of an item leave within the company.
InHand(i) == - onHand[i]["outside"]

\* What the documents say of each ledger.
Certified == [o \in ServiceOrderIds |-> service[o].certified]
Produced == [o \in FabOrderIds |-> fab[o].finished * fab[o].quantity]
Consumed == [o \in FabOrderIds |-> fab[o].finished * Planned(o)]

SubcontractAgrees == cost["project"]["SUBCONTRACT"] = SumFunction(Certified)
ProductAgrees == InHand("product") = SumFunction(Produced)
MaterialAgrees == InHand("material") = cost["project"]["MATERIAL"] - SumFunction(Consumed)
CostsAgree ==
    CostOf("project") + CostOf("other")
        = cost["project"]["MATERIAL"] + cost["project"]["SUBCONTRACT"]
            + cost["project"]["FABRICATION"]

(* However the requests interleave, each ledger says what the documents    *)
(* say: the cost of subcontracts is what was certified, the product in     *)
(* hand is what was finished, the material in hand is what came less what  *)
(* was used, the value that left one project has reached another, and      *)
(* headroom has left a service order only by closing it short.             *)
LedgersAgree ==
    /\ SubcontractAgrees
    /\ ProductAgrees
    /\ MaterialAgrees
    /\ CostsAgree
    /\ ShortClosesAccounted

Contract == INSTANCE CeilingContract
    WITH Lines <- DOMAIN Ceilings,
         Docs <- Documents,
         held <- [b \in DOMAIN Ceilings |->
                    [d \in Documents |-> IF LineOf[d] = b THEN held[d] ELSE 0]],
         overridden <- [b \in DOMAIN Ceilings |-> 0]

(* Service and fabrication orders stay within what their BOQ lines permit, *)
(* and no final certification releases more than its order holds.          *)
KeepsContract == Contract!Spec
=============================================================================
