----------------------------- MODULE Fabrication -----------------------------
(***************************************************************************)
(* Fabrication orders: fabrication/services.py and the works page.         *)
(*                                                                         *)
(* An order is built from a recipe, in the project's works or by a vendor  *)
(* to whom the components are sent.  Nothing looks at the order's status   *)
(* but its completion, and nothing holds on to the material it needs.      *)
(* Steps of a run, which nothing reads, are left out.                      *)
(***************************************************************************)
EXTENDS Requests, Ledgers, FiniteSets

CONSTANTS
    FabOrderIds,
    FabQtys,        \* quantities that can be ordered
    Recipe,         \* material per unit, wastage included
    MaxRuns         \* bound: times an order is started, or asks for material

VARIABLES
    fab,            \* the FabricationOrder rows
    vendorKnown     \* whether the vendor has a Location

FabStatuses == {"absent", "draft", "awaiting_material", "in_progress", "complete"}

Modes == {"in_house", "job_work"}

(* asked, started, finished: how often the missing material was requested, *)
(* the order started, and the product produced.                            *)
FabRows ==
    [status : FabStatuses, quantity : Nat, mode : Modes,
     asked : Nat, started : Nat, finished : Nat]

NoFabOrder ==
    [status |-> "absent", quantity |-> 0, mode |-> "in_house",
     asked |-> 0, started |-> 0, finished |-> 0]

FabInit ==
    /\ fab = [o \in FabOrderIds |-> NoFabOrder]
    /\ vendorKnown = FALSE

FabRequests ==
    [op : {"request_material", "start"}, order : FabOrderIds]
    \cup [op : {"complete"}, order : FabOrderIds, charge : Nat]

\* required_for: the planned consumption.
Planned(o) == Recipe * fab[o].quantity

JobWork(o) == fab[o].mode = "job_work"

\* material_shortfall: the plan against what is at the works.
Shortfall(o) == Planned(o) > onHand["material"]["works"]

-----------------------------------------------------------------------------
CreateFabOrder(o, n, mode) ==
    /\ fab[o].status = "absent"
    /\ fab' = [fab EXCEPT ![o] =
           [NoFabOrder EXCEPT !.status = "draft", !.quantity = n, !.mode = mode]]
    /\ Reserve(o, n)
    /\ UNCHANGED <<req, onHand, cost, vendorKnown>>

(* request_shortfall, start and complete: what they check first.           *)
BeginMaterial(s, o) ==
    /\ fab[o].status # "absent"
    /\ fab[o].asked < MaxRuns
    /\ Shortfall(o)
    /\ Begin(s, [op |-> "request_material", order |-> o])
    /\ UNCHANGED <<ledgers, fab, vendorKnown>>

BeginStart(s, o) ==
    /\ fab[o].status # "absent"
    /\ fab[o].started < MaxRuns
    /\ ~Shortfall(o)
    /\ Begin(s, [op |-> "start", order |-> o])
    /\ UNCHANGED <<ledgers, fab, vendorKnown>>

\* Mutant: completion does not look at the status.
MutCompletable(o) == fab[o].status # "absent"

Completable(o) == fab[o].status \in {"in_progress", "awaiting_material"}

BeginComplete(s, o, charge) ==
    /\ Completable(o)
    /\ Begin(s, [op |-> "complete", order |-> o, charge |-> charge])
    /\ UNCHANGED <<ledgers, fab, vendorKnown>>

-----------------------------------------------------------------------------
(* The status is written whatever it has become; these saves and those     *)
(* below pass the lock of a completed order.  asked counts the requests    *)
(* for the missing material, each created APPROVED: what procurement makes *)
(* of one is Sourcing, from RequestShortfall on.                           *)
WriteMaterial(s) ==
    /\ req[s].op = "request_material"
    /\ fab' = [fab EXCEPT ![req[s].order].status = "awaiting_material",
                          ![req[s].order].asked = @ + 1]
    /\ Finish(s)
    /\ UNCHANGED <<ledgers, vendorKnown>>

\* Mutant: job work takes the components out of the books.
MutSendTo(o) == "outside"

SendTo(o) == "vendor"

WriteStart(s) ==
    /\ req[s].op = "start"
    /\ LET o == req[s].order IN
        /\ fab' = [fab EXCEPT ![o].status = "in_progress", ![o].started = @ + 1]
        /\ onHand' = IF JobWork(o)
                     THEN Moved(onHand, "material", Planned(o), "works", SendTo(o))
                     ELSE onHand
        /\ vendorKnown' = (vendorKnown \/ JobWork(o))
    /\ Finish(s)
    /\ UNCHANGED <<cost, committed, held>>

(* complete: the plan is consumed where it should be, the product arrives  *)
(* at the site, and a cost is posted if there is one.  The vendor's        *)
(* Location must exist.                                                    *)
WriteComplete(s) ==
    /\ req[s].op = "complete"
    /\ LET o == req[s].order
           source == IF JobWork(o) THEN "vendor" ELSE "works"
           used == Moved(onHand, "material", Planned(o), source, "outside")
       IN  /\ JobWork(o) => vendorKnown
           /\ onHand' = Moved(used, "product", fab[o].quantity, "outside", "site")
           /\ cost' = Posted(cost, "project", "FABRICATION",
                             req[s].charge * fab[o].quantity)
           /\ fab' = [fab EXCEPT ![o].status = "complete", ![o].finished = @ + 1]
    /\ Finish(s)
    /\ UNCHANGED <<committed, held, vendorKnown>>

FabNext ==
    \/ \E o \in FabOrderIds, n \in FabQtys, mode \in Modes : CreateFabOrder(o, n, mode)
    \/ \E s \in Sessions :
        \/ \E o \in FabOrderIds :
            \/ BeginMaterial(s, o)
            \/ BeginStart(s, o)
            \/ \E charge \in {0, 1} : BeginComplete(s, o, charge)
        \/ WriteMaterial(s)
        \/ WriteStart(s)
        \/ WriteComplete(s)

-----------------------------------------------------------------------------
FabTypeOK ==
    /\ fab \in [FabOrderIds -> FabRows]
    /\ vendorKnown \in BOOLEAN

(* The product of a run comes once per session in flight: an order is      *)
(* completed again only after it has been started, or has asked for        *)
(* material, again - which nothing forbids once it is complete.            *)
FinishedPerRun ==
    \A o \in FabOrderIds :
        fab[o].finished <= Cardinality(Sessions) * (fab[o].started + fab[o].asked)
=============================================================================
