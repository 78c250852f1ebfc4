------------------------------- MODULE Ledgers -------------------------------
(***************************************************************************)
(* The append-only ledgers that fabrication, service orders and transfers  *)
(* post to, each by the sums the code takes of it: on_hand per item and    *)
(* location, the cost per project and category, and the commitments        *)
(* against the BOQ lines (platform_core/services and models/ledger.py).    *)
(*                                                                         *)
(* Every unit is worth one: a posting is for a number of units, or for     *)
(* nothing where the code has no value to post.                            *)
(***************************************************************************)
EXTENDS Integers

CONSTANTS
    Documents,  \* orders that reserve quantity on their BOQ line
    LineOf,     \* the BOQ line of each of them
    Ceilings    \* what each BOQ line permits, tolerance included

VARIABLES
    onHand,     \* [Items -> [Places -> Int]]: inbound less outbound moves
    cost,       \* [Projects -> [Categories -> Int]]: sum of the entries
    committed,  \* [lines -> Int]: sum of the commitment entries
    held        \* [Documents -> Int]: document_holding

ledgers == <<onHand, cost, committed, held>>

Items == {"material", "product"}

\* A move without a location comes from, or goes, outside.
Places == {"works", "vendor", "site", "other_site", "outside"}

Projects == {"project", "other"}

Sites == {"works", "site", "other_site"}

ProjectOf == [l \in Sites |-> IF l = "other_site" THEN "other" ELSE "project"]

Categories == {"MATERIAL", "FABRICATION", "SUBCONTRACT", "STOCK_IN", "STOCK_OUT"}

LedgersInit ==
    /\ onHand = [i \in Items |-> [l \in Places |-> 0]]
    /\ cost = [p \in Projects |-> [c \in Categories |-> 0]]
    /\ committed = [b \in DOMAIN Ceilings |-> 0]
    /\ held = [d \in Documents |-> 0]

\* post_move: the check constraints, and the ledger with one more move.
Movable(n, from, to) == n > 0 /\ ~(from = "outside" /\ to = "outside")

Moved(moves, i, n, from, to) ==
    [moves EXCEPT ![i] = [l \in Places |->
        @[l] - (IF l = from THEN n ELSE 0) + (IF l = to THEN n ELSE 0)]]

\* post_cost.
Posted(entries, p, c, amount) == [entries EXCEPT ![p][c] = @ + amount]

\* reserve_headroom and release_headroom, one step of CeilingContract each.
Reserve(d, n) ==
    /\ committed[LineOf[d]] + n <= Ceilings[LineOf[d]]
    /\ committed' = [committed EXCEPT ![LineOf[d]] = @ + n]
    /\ held' = [held EXCEPT ![d] = @ + n]

\* Mutant: the holding is not looked at.
MutRelease(d, n) ==
    /\ committed' = [committed EXCEPT ![LineOf[d]] = @ - n]
    /\ held' = [held EXCEPT ![d] = @ - n]

Release(d, n) ==
    /\ n <= held[d]
    /\ committed' = [committed EXCEPT ![LineOf[d]] = @ - n]
    /\ held' = [held EXCEPT ![d] = @ - n]

\* project_total over everything but revenue: what a project has cost.
CostOf(p) ==
    cost[p]["MATERIAL"] + cost[p]["FABRICATION"] + cost[p]["SUBCONTRACT"]
        + cost[p]["STOCK_IN"] + cost[p]["STOCK_OUT"]

LedgersTypeOK ==
    /\ onHand \in [Items -> [Places -> Int]]
    /\ cost \in [Projects -> [Categories -> Int]]
    /\ committed \in [DOMAIN Ceilings -> Int]
    /\ held \in [Documents -> Nat]
=============================================================================
