---------------------------- MODULE SalesOrders ------------------------------
(***************************************************************************)
(* Client orders up to the kickoff gate, and change orders:                *)
(* sales/services.py and the order page (ui/views.py).                     *)
(*                                                                         *)
(* Confirming, approving and holding save every column of the copy the     *)
(* page read; the events' unique keys are what a second confirmation or    *)
(* approval meets.  Change orders are raised outside this code.            *)
(***************************************************************************)
EXTENDS Requests, Integers, FiniteSets

CONSTANTS
    OrderIds,
    LastDate,   \* dates are 1 .. LastDate, and 0 is no date
    MaxLots,    \* bound: lots of an order
    ChangeIds,
    OrderOf,    \* the order of each change order,
    NewDate,    \* the date it commits to, 0 when it leaves that alone,
    Delta,      \* and what it adds to the price of a lot
    MaxApplied  \* bound: how often a change order is applied

VARIABLES
    order,      \* the Order rows, with the price of one lot
    applied     \* how often each change order has been applied

sales == <<order, applied>>

Dates == 1 .. LastDate

\* confirmedFor: the date of the confirmation, once OrderConfirmed is out;
\* kickoffs: OrderApprovedForKickoff events.
OrderRows ==
    [status : {"draft", "held_pending_review", "kicked_off"}, date : 0 .. LastDate,
     lots : Nat, price : Int, confirmedFor : 0 .. LastDate, kickoffs : Nat]

NewOrder ==
    [status |-> "draft", date |-> 0, lots |-> 0, price |-> 0,
     confirmedFor |-> 0, kickoffs |-> 0]

SalesInit ==
    /\ order = [o \in OrderIds |-> NewOrder]
    /\ applied = [c \in ChangeIds |-> 0]

SalesRequests ==
    [op : {"confirm", "kick_off", "hold"}, order : OrderIds, date : 0 .. LastDate]
    \cup [op : {"change"}, change : ChangeIds, price : Int]

-----------------------------------------------------------------------------
(* copy_quotation_lots_to_order, of a quotation with one lot.              *)
CopyLots(o) ==
    /\ order[o].lots < MaxLots
    /\ order' = [order EXCEPT ![o].lots = @ + 1]
    /\ UNCHANGED <<req, applied>>

BeginConfirm(s, o, d) ==
    /\ order[o].status \in {"draft", "held_pending_review"}
    /\ order[o].lots > 0
    /\ Begin(s, [op |-> "confirm", order |-> o, date |-> d])
    /\ UNCHANGED sales

WriteConfirmed(s) ==
    /\ req[s].op = "confirm"
    /\ LET o == req[s].order
       IN  /\ order[o].confirmedFor = 0
           /\ order' = [order EXCEPT
                  ![o].status = "held_pending_review", ![o].date = req[s].date,
                  ![o].confirmedFor = req[s].date]
    /\ Finish(s)
    /\ UNCHANGED applied

BeginKickOff(s, o) ==
    /\ order[o].status = "held_pending_review"
    /\ Begin(s, [op |-> "kick_off", order |-> o, date |-> order[o].date])
    /\ UNCHANGED sales

WriteKickedOff(s) ==
    /\ req[s].op = "kick_off"
    /\ LET o == req[s].order
       IN  /\ order[o].kickoffs = 0
           /\ order' = [order EXCEPT
                  ![o].status = "kicked_off", ![o].date = req[s].date, ![o].kickoffs = 1]
    /\ Finish(s)
    /\ UNCHANGED applied

(* hold_for_review looks at nothing, and saves the whole copy.             *)
BeginHold(s, o) ==
    /\ Begin(s, [op |-> "hold", order |-> o, date |-> order[o].date])
    /\ UNCHANGED sales

WriteHeld(s) ==
    /\ req[s].op = "hold"
    /\ order' = [order EXCEPT
           ![req[s].order].status = "held_pending_review",
           ![req[s].order].date = req[s].date]
    /\ Finish(s)
    /\ UNCHANGED applied

(* apply_change_order neither looks at its own lock nor moves the date of  *)
(* a project that exists.                                                  *)
BeginChange(s, c) ==
    /\ applied[c] < MaxApplied
    /\ Begin(s, [op |-> "change", change |-> c, price |-> order[OrderOf[c]].price])
    /\ UNCHANGED sales

WriteChanged(s) ==
    /\ req[s].op = "change"
    /\ LET c == req[s].change
       IN  /\ order' = [order EXCEPT
                  ![OrderOf[c]].price = IF Delta[c] = 0 THEN @ ELSE req[s].price + Delta[c],
                  ![OrderOf[c]].date = IF NewDate[c] = 0 THEN @ ELSE NewDate[c]]
           /\ applied' = [applied EXCEPT ![c] = @ + 1]
    /\ Finish(s)

SalesNext ==
    \/ \E o \in OrderIds : CopyLots(o)
    \/ \E s \in Sessions, o \in OrderIds :
        \/ \E d \in Dates : BeginConfirm(s, o, d)
        \/ BeginKickOff(s, o)
        \/ BeginHold(s, o)
    \/ \E s \in Sessions :
        \/ WriteConfirmed(s)
        \/ WriteKickedOff(s)
        \/ WriteHeld(s)
        \/ \E c \in ChangeIds : BeginChange(s, c)
        \/ WriteChanged(s)

-----------------------------------------------------------------------------
SalesTypeOK ==
    /\ order \in [OrderIds -> OrderRows]
    /\ applied \in [ChangeIds -> Nat]

\* The dates that a confirmation or a change order gave the order.
Promised(o) ==
    {order[o].confirmedFor} \cup {NewDate[c] : c \in {x \in ChangeIds : OrderOf[x] = o /\ applied[x] > 0}}
=============================================================================
