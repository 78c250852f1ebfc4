------------------------------ MODULE Sourcing -------------------------------
(***************************************************************************)
(* From a need to an award: procurement requests, requests for quotation,  *)
(* quotes and awards (procurement/services.py, ui/views_proc.py).  What an *)
(* award becomes is PurchaseOrders; here an order only counts, and draws   *)
(* on the headroom of the BOQ line, if its request names one.              *)
(*                                                                         *)
(* Statuses are written without a look at what they were: a request can be *)
(* held after it was approved, an RFQ goes back from awarded to issued.    *)
(* Rates and quantities, which nobody compares but the buyer, are left out.*)
(***************************************************************************)
EXTENDS Requests, Integers, FiniteSetsExt

CONSTANTS
    NeedIds,            \* procurement requests
    NeedLines,          \* the lines of each request
    Ceiling,            \* what a BOQ line permits, and each need asks one of
    RfqIds,
    Vendors,
    MINIMUM_VENDORS,
    MaxOrders           \* bound: orders raised from one award

VARIABLES
    need,       \* the ProcurementRequest rows
    rfq,        \* the Rfq rows with the vendors invited
    quoted,     \* the lines each vendor has quoted: the RfqQuoteLine rows
    award       \* the Award rows, with the orders raised from each

sourcing == <<need, rfq, quoted, award>>

\* announced: it has been announced as approved.  forWorks: it asks for what
\* the works are short of, and names no BOQ line.
NoNeed == [status |-> "absent", announced |-> FALSE, forWorks |-> FALSE]
NeedRows ==
    [status : {"absent", "awaiting_approval", "approved", "held"},
     announced : BOOLEAN, forWorks : BOOLEAN]

\* waived: a reason for fewer vendors is recorded; excused: one ever was.
NoRfq ==
    [status |-> "absent", need |-> "none", invited |-> {},
     waived |-> FALSE, excused |-> FALSE]
RfqRows ==
    [status : {"absent", "draft", "issued", "comparing", "awarded"},
     need : NeedIds \cup {"none"}, invited : SUBSET Vendors,
     waived : BOOLEAN, excused : BOOLEAN]

NoAward == [vendor |-> "none", snapshot |-> {}, orders |-> 0]
AwardRows ==
    [vendor : Vendors \cup {"none"}, snapshot : SUBSET Vendors, orders : Nat]

SourcingInit ==
    /\ need = [n \in NeedIds |-> NoNeed]
    /\ rfq = [q \in RfqIds |-> NoRfq]
    /\ quoted = [q \in RfqIds |-> [v \in Vendors |-> {}]]
    /\ award = [q \in RfqIds |-> [l \in NeedLines |-> NoAward]]

SourcingRequests ==
    [op : {"approve_need"}, need : NeedIds]
    \cup [op : {"issue_rfq"}, rfq : RfqIds]
    \cup [op : {"create_rfq"}, need : NeedIds, invited : SUBSET Vendors]
    \cup [op : {"award"}, rfq : RfqIds, line : NeedLines, vendor : Vendors]

DrawsHeadroom(q) == rfq[q] # NoRfq /\ ~need[rfq[q].need].forWorks

\* Ordered against a BOQ line, and what it has left.
OrderedOn(l) ==
    MapThenSumSet(LAMBDA q : award[q][l].orders, {q \in RfqIds : DrawsHeadroom(q)})
headroom(l) == Ceiling - OrderedOn(l)

-----------------------------------------------------------------------------
(* The handler of BoqRevisionReleased: the release was the approval.       *)
DraftFromRelease(n) ==
    /\ need[n] = NoNeed
    /\ need' = [need EXCEPT ![n].status = "approved", ![n].announced = TRUE]
    /\ UNCHANGED <<req, rfq, quoted, award>>

(* raise_site_requisition, of one of every line.                           *)
RaiseSiteRequisition(n) ==
    /\ need[n] = NoNeed
    /\ \A l \in NeedLines : headroom(l) >= 1
    /\ need' = [need EXCEPT ![n].status = "awaiting_approval"]
    /\ UNCHANGED <<req, rfq, quoted, award>>

(* request_shortfall of the works: approved as it is made, by nobody, and  *)
(* announced to nobody.                                                    *)
RequestShortfall(n) ==
    /\ need[n] = NoNeed
    /\ need' = [need EXCEPT ![n].status = "approved", ![n].forWorks = TRUE]
    /\ UNCHANGED <<req, rfq, quoted, award>>

BeginApproveNeed(s, n) ==
    /\ need[n].status = "awaiting_approval"
    /\ Begin(s, [op |-> "approve_need", need |-> n])
    /\ UNCHANGED sourcing

WriteApprovedNeed(s) ==
    /\ req[s].op = "approve_need"
    /\ need' = [need EXCEPT ![req[s].need].status = "approved", ![req[s].need].announced = TRUE]
    /\ Finish(s)
    /\ UNCHANGED <<rfq, quoted, award>>

HoldNeed(n) ==
    /\ need[n] # NoNeed
    /\ need' = [need EXCEPT ![n].status = "held"]
    /\ UNCHANGED <<req, rfq, quoted, award>>

BeginRfq(s, n, vendors) ==
    /\ need[n].status = "approved"
    /\ Begin(s, [op |-> "create_rfq", need |-> n, invited |-> vendors])
    /\ UNCHANGED sourcing

WriteRfq(s) ==
    /\ req[s].op = "create_rfq"
    /\ \E q \in RfqIds :
        /\ rfq[q] = NoRfq
        /\ rfq' = [rfq EXCEPT
               ![q].status = "draft", ![q].need = req[s].need, ![q].invited = req[s].invited]
    /\ Finish(s)
    /\ UNCHANGED <<need, quoted, award>>

(* The page's "waive": whatever was written in the box, blank included.    *)
Waive(q, reason) ==
    /\ rfq[q] # NoRfq
    /\ rfq' = [rfq EXCEPT ![q].waived = reason, ![q].excused = @ \/ reason]
    /\ UNCHANGED <<req, need, quoted, award>>

BeginIssueRfq(s, q) ==
    /\ rfq[q] # NoRfq
    /\ Cardinality(rfq[q].invited) >= MINIMUM_VENDORS \/ rfq[q].waived
    /\ Begin(s, [op |-> "issue_rfq", rfq |-> q])
    /\ UNCHANGED sourcing

WriteIssuedRfq(s) ==
    /\ req[s].op = "issue_rfq"
    /\ rfq' = [rfq EXCEPT ![req[s].rfq].status = "issued"]
    /\ Finish(s)
    /\ UNCHANGED <<need, quoted, award>>

(* record_quote takes quotes at any time, also for lines already awarded.  *)
RecordQuote(q, v, lines) ==
    /\ rfq[q] # NoRfq /\ v \in rfq[q].invited
    /\ quoted' = [quoted EXCEPT ![q][v] = @ \cup lines]
    /\ rfq' = [rfq EXCEPT ![q].status = "comparing"]
    /\ UNCHANGED <<req, need, award>>

Responded(q) == {v \in Vendors : quoted[q][v] # {}}

\* Mutant: it is enough to have invited them.
Mutmeets_minimum(q) == Cardinality(rfq[q].invited) >= MINIMUM_VENDORS \/ rfq[q].waived

meets_minimum(q) == Cardinality(Responded(q)) >= MINIMUM_VENDORS \/ rfq[q].waived

BeginAward(s, q, l, v) ==
    /\ meets_minimum(q)
    /\ l \in quoted[q][v]
    /\ Begin(s, [op |-> "award", rfq |-> q, line |-> l, vendor |-> v])
    /\ UNCHANGED sourcing

\* One award per line and RFQ is all that is unique.
WriteAward(s) ==
    /\ req[s].op = "award"
    /\ LET q == req[s].rfq
           l == req[s].line
       IN  /\ award[q][l] = NoAward
           /\ award' = [award EXCEPT ![q][l] =
                  [vendor |-> req[s].vendor, orders |-> 0,
                   snapshot |-> {v \in Vendors : l \in quoted[q][v]}]]
           /\ rfq' = IF \A x \in NeedLines \ {l} : award[q][x] # NoAward
                     THEN [rfq EXCEPT ![q].status = "awarded"]
                     ELSE rfq
    /\ Finish(s)
    /\ UNCHANGED <<need, quoted>>

(* create_purchase_order, from any awards to one vendor, again and again.  *)
CreateOrder(q, lines) ==
    /\ \E v \in Vendors : \A l \in lines : award[q][l].vendor = v
    /\ \A l \in lines : award[q][l].orders < MaxOrders
    /\ DrawsHeadroom(q) => \A l \in lines : headroom(l) >= 1
    /\ award' = [award EXCEPT ![q] = [l \in NeedLines |->
           IF l \in lines THEN [award[q][l] EXCEPT !.orders = @ + 1] ELSE award[q][l]]]
    /\ UNCHANGED <<req, need, rfq, quoted>>

SourcingNext ==
    \/ \E n \in NeedIds :
        DraftFromRelease(n) \/ RaiseSiteRequisition(n) \/ RequestShortfall(n) \/ HoldNeed(n)
    \/ \E q \in RfqIds :
        \/ \E reason \in BOOLEAN : Waive(q, reason)
        \/ \E v \in Vendors, lines \in (SUBSET NeedLines) \ {{}} : RecordQuote(q, v, lines)
        \/ \E lines \in (SUBSET NeedLines) \ {{}} : CreateOrder(q, lines)
    \/ \E s \in Sessions :
        \/ \E n \in NeedIds :
            \/ BeginApproveNeed(s, n)
            \/ \E vendors \in SUBSET Vendors : BeginRfq(s, n, vendors)
        \/ \E q \in RfqIds :
            \/ BeginIssueRfq(s, q)
            \/ \E l \in NeedLines, v \in Vendors : BeginAward(s, q, l, v)
        \/ WriteApprovedNeed(s)
        \/ WriteRfq(s)
        \/ WriteIssuedRfq(s)
        \/ WriteAward(s)

-----------------------------------------------------------------------------
SourcingTypeOK ==
    /\ need \in [NeedIds -> NeedRows]
    /\ rfq \in [RfqIds -> RfqRows]
    /\ quoted \in [RfqIds -> [Vendors -> SUBSET NeedLines]]
    /\ award \in [RfqIds -> [NeedLines -> AwardRows]]

(* Whatever is held, waived, quoted again or sent out again afterwards,    *)
(* every award, and so every order made of it, rests on a request that     *)
(* was approved and announced, or that the works made for what they are    *)
(* short of; on enough answers or a reason once recorded for fewer; and    *)
(* its vendor is among those the frozen comparison shows.                  *)
AwardsRestOnProcess ==
    \A q \in RfqIds, l \in NeedLines :
        LET a == award[q][l]
        IN  a # NoAward =>
            /\ need[rfq[q].need].announced \/ need[rfq[q].need].forWorks
            /\ Cardinality(Responded(q)) >= MINIMUM_VENDORS \/ rfq[q].excused
            /\ a.vendor \in a.snapshot
=============================================================================
