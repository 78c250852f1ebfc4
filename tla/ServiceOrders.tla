---------------------------- MODULE ServiceOrders ----------------------------
(***************************************************************************)
(* Service orders to subcontractors: subcontracts/services.py and the      *)
(* works page (ui/views_works.py).                                         *)
(*                                                                         *)
(* The page raises an order and issues it in two transactions.  A          *)
(* certification reads what is outstanding, then counts the bills, then    *)
(* writes; only the unique bill number makes two of them meet.  Capability *)
(* checks on the actor, and progress reports, which nothing reads, are     *)
(* left out.                                                               *)
(***************************************************************************)
EXTENDS Requests, Ledgers, FiniteSets

CONSTANTS
    ServiceOrderIds,
    ServiceQtys,    \* quantities that can be ordered,
    CertifyQtys     \* and certified

VARIABLE service    \* the ServiceOrder rows with their certifications

ServiceStatuses == {"absent", "draft", "awaiting_approval", "issued", "complete"}

(* numbers: the running_bill_number of each certification, unique per      *)
(* order; certified: the sum of their quantities; short: the order has     *)
(* been closed final with scope outstanding; announced: ServiceOrderIssued *)
(* events, which carry no key.                                             *)
ServiceRows ==
    [status : ServiceStatuses, quantity : Nat, announced : Nat,
     numbers : SUBSET Nat, certified : Nat, short : Nat]

NoServiceOrder ==
    [status |-> "absent", quantity |-> 0, announced |-> 0,
     numbers |-> {}, certified |-> 0, short |-> 0]

Outstanding(o) == service[o].quantity - service[o].certified

ServiceInit == service = [o \in ServiceOrderIds |-> NoServiceOrder]

ServiceRequests ==
    [op : {"submit", "approve"}, order : ServiceOrderIds]
    \cup [op : {"certify"}, order : ServiceOrderIds, qty : Nat, final : BOOLEAN]
    \cup [op : {"bill"}, order : ServiceOrderIds, qty : Nat, final : BOOLEAN, number : Nat]

-----------------------------------------------------------------------------
(* create_service_order; its caller goes on to issue the order, in a       *)
(* transaction of its own: a process that ends here leaves a draft.        *)
CreateServiceOrder(s, o, n) ==
    /\ service[o].status = "absent"
    /\ Begin(s, [op |-> "submit", order |-> o])
    /\ service' = [service EXCEPT ![o].status = "draft", ![o].quantity = n]
    /\ Reserve(o, n)
    /\ UNCHANGED <<onHand, cost>>

(* issue above the threshold, by somebody without the capability.          *)
ParkServiceOrder(s) ==
    /\ req[s].op = "submit"
    /\ service' = [service EXCEPT ![req[s].order].status = "awaiting_approval"]
    /\ Finish(s)
    /\ UNCHANGED ledgers

ApproveServiceOrder(s, o) ==
    /\ service[o].status = "awaiting_approval"
    /\ Begin(s, [op |-> "approve", order |-> o])
    /\ UNCHANGED <<ledgers, service>>

(* issue: the status and the lock are written whatever the order has       *)
(* become since it was read.                                               *)
IssueServiceOrder(s) ==
    /\ req[s].op \in {"submit", "approve"}
    /\ service' = [service EXCEPT ![req[s].order].status = "issued",
                                  ![req[s].order].announced = @ + 1]
    /\ Finish(s)
    /\ UNCHANGED ledgers

-----------------------------------------------------------------------------
FitsOutstanding(o, n) == n <= Outstanding(o)

CertifyServiceOrder(s, o, n, final) ==
    /\ service[o].status \in {"issued", "complete"}
    /\ FitsOutstanding(o, n)
    /\ Begin(s, [op |-> "certify", order |-> o, qty |-> n, final |-> final])
    /\ UNCHANGED <<ledgers, service>>

\* Mutant: numbered by the count itself.
MutNextBill(o) == Cardinality(service[o].numbers)

\* bill_number, from a count of the certifications.
NextBill(o) == Cardinality(service[o].numbers) + 1

NumberBill(s) ==
    /\ req[s].op = "certify"
    /\ req' = [req EXCEPT ![s] =
           [op |-> "bill", order |-> req[s].order, qty |-> req[s].qty,
            final |-> req[s].final, number |-> NextBill(req[s].order)]]
    /\ UNCHANGED <<ledgers, service>>

FreeNumber(o, k) == k \notin service[o].numbers

(* The certification, its bill and its cost.  Two of them with different   *)
(* numbers are never open together, so what is outstanding is read after   *)
(* this one alone.  A final one releases it, and a refused release undoes  *)
(* the certification; one that covers the scope completes the order.       *)
BillService(s) ==
    LET o == req[s].order
        left == Outstanding(o) - req[s].qty
        short == req[s].final /\ left > 0
    IN  /\ req[s].op = "bill"
        /\ FreeNumber(o, req[s].number)
        /\ service' = [service EXCEPT
               ![o].numbers = @ \cup {req[s].number},
               ![o].certified = @ + req[s].qty,
               ![o].short = @ + (IF short THEN left ELSE 0),
               ![o].status = IF req[s].final \/ left <= 0 THEN "complete" ELSE @]
        /\ cost' = Posted(cost, "project", "SUBCONTRACT", req[s].qty)
        /\ IF short THEN Release(o, left) ELSE UNCHANGED <<committed, held>>
        /\ Finish(s)
        /\ UNCHANGED onHand

ServiceNext ==
    \E s \in Sessions :
        \/ \E o \in ServiceOrderIds :
            \/ \E n \in ServiceQtys : CreateServiceOrder(s, o, n)
            \/ \E n \in CertifyQtys, final \in BOOLEAN :
                CertifyServiceOrder(s, o, n, final)
            \/ ApproveServiceOrder(s, o)
        \/ ParkServiceOrder(s)
        \/ IssueServiceOrder(s)
        \/ NumberBill(s)
        \/ BillService(s)

-----------------------------------------------------------------------------
ServiceTypeOK == service \in [ServiceOrderIds -> ServiceRows]

(* The running bills of an order are numbered 1, 2, ... without a gap or a *)
(* repetition, although each number comes from a count that may be out of  *)
(* date; and nothing is billed on an order that was never issued.          *)
BillsNumbered ==
    \A o \in ServiceOrderIds :
        /\ service[o].numbers = 1..Cardinality(service[o].numbers)
        /\ service[o].numbers # {} => service[o].announced > 0

(* What is outstanding is checked on what the session reads, so each       *)
(* session in flight may certify the scope once: requests that do not      *)
(* overlap never certify more than was ordered.                            *)
CertifiedWithinScope ==
    \A o \in ServiceOrderIds :
        service[o].certified <= Cardinality(Sessions) * service[o].quantity

(* Headroom leaves an order only by closing it short, and then the order   *)
(* still holds something for every unit ordered and not released.          *)
ShortClosesAccounted ==
    \A o \in ServiceOrderIds : held[o] + service[o].short = service[o].quantity
=============================================================================
