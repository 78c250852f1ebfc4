--------------------------- MODULE PurchaseOrders ---------------------------
(***************************************************************************)
(* A purchase order from its draft to the return of what it brought:       *)
(* procurement/services.py, inventory/services.py and the pages that call  *)
(* them (ui/views_proc.py).                                                *)
(*                                                                         *)
(* The orders here have one line each, all for the same BOQ line.  A       *)
(* request reads and checks in one step and writes in a later one; no row  *)
(* is locked in between, except that the ceiling's reservation or release  *)
(* is one step of CeilingContract, which CeilingTxn implements.  A write   *)
(* that meets a constraint, a lock or a refusal rolls the request back.    *)
(***************************************************************************)
EXTENDS Integers

CONSTANTS
    Sessions,   \* requests in progress at the same time
    Orders,     \* purchase orders
    Receipts,   \* bound: goods receipts
    Qtys,       \* quantities that can be ordered
    Ceiling     \* what the BOQ line permits, tolerance included

ASSUME OrdersAssumption ==
    /\ Qtys \subseteq Nat \ {0}
    /\ Ceiling \in Nat

VARIABLES
    status,     \* PurchaseOrder.status
    published,  \* how many PurchaseOrderConfirmed events an order has emitted
    expected,   \* whether the site has an ExpectedReceipt for it
    quantity,   \* PurchaseOrderLine.quantity
    committed,  \* sum of the BOQ line's commitment ledger
    held,       \* document_holding of each order
    accepted,   \* received_qty: accepted over all verified receipts
    rejected,   \* rejected over all verified receipts
    returned,   \* sum of the material returns
    receipt,    \* the GoodsReceipt rows
    posted,     \* stock and cost postings made for each receipt
    req         \* what each session has checked and is about to write

ceiling == <<committed, held>>
orders == <<status, published, expected, quantity>>
goods == <<accepted, rejected, returned, receipt, posted>>
vars == <<orders, ceiling, goods, req>>

\* What a form may be filled with.
Quantities == UNION {0..n : n \in Qtys}

NoReceipt == [order |-> "none"]
ReceiptRows == [order : Orders, qty : Nat, verified : BOOLEAN]

NoRequest == [op |-> "none"]
Requests ==
    [op : {"park", "confirm"}, order : Orders]
    \cup [op : {"amend"}, order : Orders, was : Nat, new : Nat]
    \cup [op : {"record", "return"}, order : Orders, qty : Nat]
    \cup [op : {"verify"}, receipt : Receipts, accept : Nat, reject : Nat]

Init ==
    /\ status = [o \in Orders |-> "absent"]
    /\ published = [o \in Orders |-> 0]
    /\ expected = [o \in Orders |-> FALSE]
    /\ quantity = [o \in Orders |-> 0]
    /\ committed = 0
    /\ held = [o \in Orders |-> 0]
    /\ accepted = [o \in Orders |-> 0]
    /\ rejected = [o \in Orders |-> 0]
    /\ returned = [o \in Orders |-> 0]
    /\ receipt = [g \in Receipts |-> NoReceipt]
    /\ posted = [g \in Receipts |-> 0]
    /\ req = [s \in Sessions |-> NoRequest]

-----------------------------------------------------------------------------
\* Mutant: the holding is not looked at.
MutReleaseHeadroom(o, n) ==
    /\ held' = [held EXCEPT ![o] = @ - n]
    /\ committed' = committed - n

\* release_headroom, or nothing when there is nothing to release.
ReleaseHeadroom(o, n) ==
    /\ n <= held[o]
    /\ held' = [held EXCEPT ![o] = @ - n]
    /\ committed' = committed - n

\* Mutant: the ceiling is not looked at.
MutCreate(o, n) ==
    /\ status[o] = "absent"
    /\ status' = [status EXCEPT ![o] = "draft"]
    /\ quantity' = [quantity EXCEPT ![o] = n]
    /\ committed' = committed + n
    /\ held' = [held EXCEPT ![o] = n]
    /\ UNCHANGED <<published, expected, goods, req>>

(* create_purchase_order: the order, its line and its reservation.         *)
Create(o, n) ==
    /\ status[o] = "absent"
    /\ committed + n <= Ceiling
    /\ status' = [status EXCEPT ![o] = "draft"]
    /\ quantity' = [quantity EXCEPT ![o] = n]
    /\ committed' = committed + n
    /\ held' = [held EXCEPT ![o] = n]
    /\ UNCHANGED <<published, expected, goods, req>>

(* _expect_receipts, when PurchaseOrderConfirmed is delivered.             *)
Expect(o) ==
    /\ published[o] > 0
    /\ ~expected[o]
    /\ expected' = [expected EXCEPT ![o] = TRUE]
    /\ UNCHANGED <<status, published, quantity, ceiling, goods, req>>

-----------------------------------------------------------------------------
(* First step of a request: its checks, on what it reads.                  *)
Begin(s, r) ==
    /\ req[s] = NoRequest
    /\ req' = [req EXCEPT ![s] = r]
    /\ UNCHANGED <<orders, ceiling, goods>>

(* Below the threshold, or with the capability, submitting confirms.       *)
Submit(s, o, op) ==
    /\ status[o] \in {"draft", "awaiting_approval"}
    /\ op \in {"park", "confirm"}
    /\ Begin(s, [op |-> op, order |-> o])

Approve(s, o) ==
    /\ status[o] = "awaiting_approval"
    /\ Begin(s, [op |-> "confirm", order |-> o])

(* An amendment does not look at the status, nor at unverified receipts.   *)
Amend(s, o, new) ==
    /\ status[o] # "absent"
    /\ new < quantity[o]
    /\ new >= accepted[o]
    /\ Begin(s, [op |-> "amend", order |-> o, was |-> quantity[o], new |-> new])

(* What is outstanding counts what has been accepted.  The page names no   *)
(* location, so the receipt needs the order's ExpectedReceipt for one.     *)
Record(s, o, n) ==
    /\ status[o] = "confirmed"
    /\ expected[o]
    /\ n <= quantity[o] - accepted[o]
    /\ Begin(s, [op |-> "record", order |-> o, qty |-> n])

Verify(s, g, accept, reject) ==
    /\ receipt[g] # NoReceipt
    /\ ~receipt[g].verified
    /\ accept + reject <= receipt[g].qty
    /\ Begin(s, [op |-> "verify", receipt |-> g, accept |-> accept, reject |-> reject])

(* A return is made from a receipt; it counts what was ever accepted.      *)
Return(s, o, n) ==
    /\ \E g \in Receipts : receipt[g] # NoReceipt /\ receipt[g].order = o
    /\ n <= accepted[o]
    /\ Begin(s, [op |-> "return", order |-> o, qty |-> n])

-----------------------------------------------------------------------------
(* Second step: the writes, and the commit.                                *)
Finish(s) == req' = [req EXCEPT ![s] = NoRequest]

(* A status-only save: neither the row's lock nor its status stands in     *)
(* the way.                                                                *)
WriteParked(s) ==
    /\ req[s].op = "park"
    /\ status' = [status EXCEPT ![req[s].order] = "awaiting_approval"]
    /\ UNCHANGED <<published, expected, quantity, ceiling, goods>>
    /\ Finish(s)

\* Mutant: the event carries no idempotency key.
MutWriteConfirmed(s) ==
    /\ req[s].op = "confirm"
    /\ status' = [status EXCEPT ![req[s].order] = "confirmed"]
    /\ published' = [published EXCEPT ![req[s].order] = @ + 1]
    /\ UNCHANGED <<expected, quantity, ceiling, goods>>
    /\ Finish(s)

(* _confirm: the status, the lock and the event, whose idempotency key is  *)
(* unique.  The lock is there from the event on.                           *)
WriteConfirmed(s) ==
    /\ req[s].op = "confirm"
    /\ published[req[s].order] = 0
    /\ status' = [status EXCEPT ![req[s].order] = "confirmed"]
    /\ published' = [published EXCEPT ![req[s].order] = @ + 1]
    /\ UNCHANGED <<expected, quantity, ceiling, goods>>
    /\ Finish(s)

(* Both the quantity and what is released come from the line it read.      *)
WriteAmended(s) ==
    /\ req[s].op = "amend"
    /\ ReleaseHeadroom(req[s].order, req[s].was - req[s].new)
    /\ quantity' = [quantity EXCEPT ![req[s].order] = req[s].new]
    /\ UNCHANGED <<status, published, expected, goods>>
    /\ Finish(s)

WriteRecorded(s) ==
    /\ req[s].op = "record"
    /\ \E g \in Receipts :
        /\ receipt[g] = NoReceipt
        /\ receipt' = [receipt EXCEPT ![g] =
               [order |-> req[s].order, qty |-> req[s].qty, verified |-> FALSE]]
    /\ UNCHANGED <<orders, ceiling, accepted, rejected, returned, posted>>
    /\ Finish(s)

\* Mutant: a receipt may have several verifications.
MutUnverified(g) == TRUE

\* ReceiptVerification.goods_receipt is unique.
Unverified(g) == ~receipt[g].verified

\* Mutant: what was rejected keeps its headroom.
MutWriteVerified(s) ==
    /\ req[s].op = "verify"
    /\ LET g == req[s].receipt
           o == receipt[g].order
       IN  /\ Unverified(g)
           /\ receipt' = [receipt EXCEPT ![g].verified = TRUE]
           /\ accepted' = [accepted EXCEPT ![o] = @ + req[s].accept]
           /\ rejected' = [rejected EXCEPT ![o] = @ + req[s].reject]
           /\ posted' = [posted EXCEPT ![g] = @ + 1]
    /\ UNCHANGED <<orders, ceiling, returned>>
    /\ Finish(s)

(* The verification; stock and cost for what is accepted; headroom for     *)
(* what is rejected.                                                       *)
WriteVerified(s) ==
    /\ req[s].op = "verify"
    /\ LET g == req[s].receipt
           o == receipt[g].order
       IN  /\ Unverified(g)
           /\ ReleaseHeadroom(o, req[s].reject)
           /\ receipt' = [receipt EXCEPT ![g].verified = TRUE]
           /\ accepted' = [accepted EXCEPT ![o] = @ + req[s].accept]
           /\ rejected' = [rejected EXCEPT ![o] = @ + req[s].reject]
           /\ posted' = [posted EXCEPT ![g] = @ + (IF req[s].accept > 0 THEN 1 ELSE 0)]
    /\ UNCHANGED <<orders, returned>>
    /\ Finish(s)

(* Stock and cost go down, headroom up; received_qty stays.                *)
WriteReturned(s) ==
    /\ req[s].op = "return"
    /\ ReleaseHeadroom(req[s].order, req[s].qty)
    /\ returned' = [returned EXCEPT ![req[s].order] = @ + req[s].qty]
    /\ UNCHANGED <<orders, accepted, rejected, receipt, posted>>
    /\ Finish(s)

(* An exception, or the end of the process.                                *)
Rollback(s) ==
    /\ req[s] # NoRequest
    /\ Finish(s)
    /\ UNCHANGED <<orders, ceiling, goods>>

Next ==
    \/ \E o \in Orders, n \in Qtys : Create(o, n)
    \/ \E o \in Orders : Expect(o)
    \/ \E s \in Sessions, o \in Orders :
        \/ \E op \in {"park", "confirm"} : Submit(s, o, op)
        \/ Approve(s, o)
        \/ \E n \in Quantities : Amend(s, o, n)
        \/ \E n \in Quantities \ {0} : Record(s, o, n) \/ Return(s, o, n)
    \/ \E s \in Sessions, g \in Receipts, a, r \in Quantities : Verify(s, g, a, r)
    \/ \E s \in Sessions :
        \/ WriteParked(s) \/ WriteConfirmed(s) \/ WriteAmended(s)
        \/ WriteRecorded(s) \/ WriteVerified(s) \/ WriteReturned(s)
        \/ Rollback(s)

Spec == Init /\ [][Next]_vars

-----------------------------------------------------------------------------
TypeOK ==
    /\ status \in [Orders -> {"absent", "draft", "awaiting_approval", "confirmed"}]
    /\ published \in [Orders -> Nat]
    /\ expected \in [Orders -> BOOLEAN]
    /\ quantity \in [Orders -> Nat]
    /\ committed \in Int
    /\ held \in [Orders -> Nat]
    /\ accepted \in [Orders -> Nat]
    /\ rejected \in [Orders -> Nat]
    /\ returned \in [Orders -> Nat]
    /\ receipt \in [Receipts -> ReceiptRows \cup {NoReceipt}]
    /\ posted \in [Receipts -> Nat]
    /\ req \in [Sessions -> Requests \cup {NoRequest}]

(* The line of an order accounts for all the headroom the order has had:   *)
(* what it holds, what was rejected and what went back never exceed its    *)
(* quantity.  Amendments that race can lose headroom, never invent it.     *)
HeadroomAccounted ==
    \A o \in Orders : held[o] + rejected[o] + returned[o] <= quantity[o]

(* An order is announced once, however many people submit and approve it,  *)
(* and nothing is received on one that was never announced.                *)
AnnouncedOnce ==
    \A o \in Orders :
        /\ published[o] <= 1
        /\ status[o] = "confirmed" => published[o] = 1
        /\ \A g \in Receipts :
            (receipt[g] # NoReceipt /\ receipt[g].order = o) => published[o] = 1

(* A receipt enters stock and cost once, and only when it is verified,     *)
(* also when two engineers verify it at the same moment.                   *)
PostedOnce ==
    \A g \in Receipts :
        /\ posted[g] <= 1
        /\ posted[g] = 1 => receipt[g] # NoReceipt /\ receipt[g].verified

Contract == INSTANCE CeilingContract
    WITH Lines <- {"line"},
         Docs <- Orders,
         Ceilings <- [l \in {"line"} |-> Ceiling],
         committed <- [l \in {"line"} |-> committed],
         held <- [l \in {"line"} |-> held],
         overridden <- [l \in {"line"} |-> 0]

(* Whatever happens to orders, receipts and returns is allowed by the      *)
(* ceiling: no order holds less than nothing, and the BOQ line's total     *)
(* stays under what it permits.                                            *)
KeepsContract == Contract!Spec

(* More cannot be returned than was received (return_material's refusal,   *)
(* tests/test_procurement.py).                                             *)
ReturnedWasReceived ==
    \A o \in Orders : returned[o] <= accepted[o]

-----------------------------------------------------------------------------
\* An order that does not exist has no line.
AbsentIsEmpty == \A o \in Orders : status[o] = "absent" => quantity[o] = 0

(* What a request has checked and still holds when it writes: the order it *)
(* amends exists, the one it receives on has been announced, the receipt   *)
(* it verifies exists, ...                                                 *)
RequestsGrounded ==
    \A s \in Sessions :
        /\ req[s].op = "amend" => status[req[s].order] # "absent"
        /\ req[s].op = "record" => published[req[s].order] = 1
        /\ req[s].op = "verify" => receipt[req[s].receipt] # NoReceipt

(* ... and the quantity it amends still covers what the order accounts     *)
(* for, although it may not be the line's quantity any more.               *)
StaleQuantityCovers ==
    \A s \in Sessions :
        req[s].op = "amend" =>
            /\ req[s].new < req[s].was
            /\ LET o == req[s].order IN held[o] + rejected[o] + returned[o] <= req[s].was

(* The inductive invariant.                                                *)
BooksBalance ==
    /\ AbsentIsEmpty
    /\ RequestsGrounded
    /\ StaleQuantityCovers
    /\ HeadroomAccounted
    /\ AnnouncedOnce
    /\ PostedOnce
=============================================================================
