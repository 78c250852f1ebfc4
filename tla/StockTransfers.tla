--------------------------- MODULE StockTransfers ----------------------------
(***************************************************************************)
(* Excess stock and its redeployment to another project:                   *)
(* inventory/services_stock.py and the excess-stock page.                  *)
(*                                                                         *)
(* A flag reserves nothing: it can be proposed any number of times, and    *)
(* what is on hand is looked at only when it is raised.  The notifications *)
(* of StockFlaggedExcess are left out.                                     *)
(***************************************************************************)
EXTENDS Requests, Ledgers, FiniteSets

CONSTANTS
    FlagIds,
    FlagQtys,       \* quantities that can be flagged
    TransferIds

VARIABLES
    flag,       \* the ExcessStockFlag rows
    transfer    \* the StockTransfer rows, with how often each moved stock

NoFlag == [status |-> "absent", item |-> "material", place |-> "site", qty |-> 0, value |-> 0]
FlagRows ==
    [status : {"absent", "open", "transferred"}, item : Items, place : Sites,
     qty : Nat, value : {0, 1}]

NoTransfer == [status |-> "absent", flag |-> "none", to |-> "site", moved |-> 0]
TransferRows ==
    [status : {"absent", "pending", "complete", "declined"},
     flag : FlagIds \cup {"none"}, to : Sites, moved : Nat]

StockInit ==
    /\ flag = [f \in FlagIds |-> NoFlag]
    /\ transfer = [t \in TransferIds |-> NoTransfer]

StockRequests == [op : {"accept", "decline"}, transfer : TransferIds]

-----------------------------------------------------------------------------
(* flag_excess: at the rate the stock came in at, if it came in at one.    *)
FlagExcess(f, i, l, n, value) ==
    /\ flag[f].status = "absent"
    /\ n <= onHand[i][l]
    /\ flag' = [flag EXCEPT ![f] =
           [status |-> "open", item |-> i, place |-> l, qty |-> n, value |-> value]]
    /\ UNCHANGED <<req, ledgers, transfer>>

(* redeploy, from the page: the whole flag, whatever has become of it.     *)
Redeploy(t, f, l) ==
    /\ transfer[t].status = "absent"
    /\ flag[f].status # "absent"
    /\ transfer' = [transfer EXCEPT ![t] =
           [status |-> "pending", flag |-> f, to |-> l, moved |-> 0]]
    /\ UNCHANGED <<req, ledgers, flag>>

Acceptable(t) == transfer[t].status = "pending"

BeginAccept(s, t) ==
    /\ Acceptable(t)
    /\ Begin(s, [op |-> "accept", transfer |-> t])
    /\ UNCHANGED <<ledgers, flag, transfer>>

(* decline_transfer does not look at the status.                           *)
BeginDecline(s, t) ==
    /\ transfer[t].status # "absent"
    /\ Begin(s, [op |-> "decline", transfer |-> t])
    /\ UNCHANGED <<ledgers, flag, transfer>>

-----------------------------------------------------------------------------
\* The paired entries of accept_transfer.
PairedCost(entries, from, to, value) ==
    Posted(Posted(entries, from, "STOCK_OUT", -value), to, "STOCK_IN", value)

WriteAccepted(s) ==
    /\ req[s].op = "accept"
    /\ LET t == req[s].transfer
           f == transfer[t].flag
           n == flag[f].qty
           from == flag[f].place
       IN  /\ Movable(n, from, transfer[t].to)
           /\ onHand' = Moved(onHand, flag[f].item, n, from, transfer[t].to)
           /\ cost' = PairedCost(cost, ProjectOf[from], ProjectOf[transfer[t].to],
                                 n * flag[f].value)
           /\ transfer' = [transfer EXCEPT ![t].status = "complete", ![t].moved = @ + 1]
           /\ flag' = [flag EXCEPT ![f].status = "transferred"]
    /\ Finish(s)
    /\ UNCHANGED <<committed, held>>

WriteDeclined(s) ==
    /\ req[s].op = "decline"
    /\ transfer' = [transfer EXCEPT ![req[s].transfer].status = "declined"]
    /\ Finish(s)
    /\ UNCHANGED <<ledgers, flag>>

StockNext ==
    \/ \E f \in FlagIds, i \in Items, l \in Sites, n \in FlagQtys, value \in {0, 1} :
        FlagExcess(f, i, l, n, value)
    \/ \E t \in TransferIds, f \in FlagIds, l \in Sites : Redeploy(t, f, l)
    \/ \E s \in Sessions :
        \/ \E t \in TransferIds : BeginAccept(s, t) \/ BeginDecline(s, t)
        \/ WriteAccepted(s)
        \/ WriteDeclined(s)

-----------------------------------------------------------------------------
StockTypeOK ==
    /\ flag \in [FlagIds -> FlagRows]
    /\ transfer \in [TransferIds -> TransferRows]

(* A transfer is accepted on the strength of the status its session read:  *)
(* each session in flight may move the stock once, and one that does not   *)
(* overlap with another moves it once.                                     *)
MovedOncePerSession ==
    \A t \in TransferIds : transfer[t].moved <= Cardinality(Sessions)
=============================================================================
