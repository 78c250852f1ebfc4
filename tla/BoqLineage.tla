----------------------------- MODULE BoqLineage ------------------------------
(***************************************************************************)
(* What a BOQ says from one revision to the next: the reconciliation of    *)
(* engineering/reconciliation.py, the requests procurement drafts from it  *)
(* and the orders placed meanwhile against any line of any revision.       *)
(*                                                                         *)
(* A line is a row: a new revision has rows of its own, copied from the    *)
(* last released one, imported or added.  The ledgers are per row, and a   *)
(* reconciliation reads them one query at a time while they move.          *)
(*                                                                         *)
(* Assumed here: revisions are opened one after the other (BoqRevision     *)
(* says what racing openings do) and one drainer delivers the events       *)
(* (Outbox says what two do to one event).                                 *)
(***************************************************************************)
EXTENDS Integers, Sequences, FiniteSets

CONSTANTS
    Items,       \* what normalized description and unit can say (match_key)
    Slots,       \* bound: the rows a revision has room for; row s of a new
                 \* revision is the copy of row s of the one before
    MaxQty,      \* bound: the quantity of a row
    MaxRev,      \* bound: the highest revision number
    MaxArrived,  \* bound: what has ever been accepted at site against a row
    MaxSentBack, \* bound: what has ever been returned from a row
    OrderRows,   \* bound: the rows <<revision, slot>> documents are raised against
    Duplicates   \* whether a revision may list an item twice, say in two lots

ASSUME LineageAssumption ==
    /\ "none" \notin Slots
    /\ MaxQty \in Nat
    /\ MaxRev \in Nat
    /\ MaxArrived \in Nat
    /\ MaxSentBack \in Nat
    /\ Duplicates \in BOOLEAN

VARIABLES
    stage,      \* "absent", "draft" or "released"
    line,       \* the rows of each revision
    ordered,    \* whether a document was ever raised against each row
    committed,  \* sum of the commitment ledger over each row
    arrived,    \* stock moves inbound on each row: accepted or produced
    sentBack,   \* stock moves outbound: returns
    reconciling,  \* the revision whose event is being handled, or NoRev
    against,    \* the revision it is compared with
    seen,       \* what was read so far for each comparison: committed,
                \* inbound and outbound, in this order
    outcomes    \* the ReconciliationOutcome rows of each revision

ledgers == <<ordered, committed, arrived, sentBack>>
work == <<reconciling, against, seen>>
vars == <<stage, line, ledgers, work, outcomes>>

Revs == 0..MaxRev
NoRev == -1
Quantities == 0..MaxQty
NoLine == [item |-> "none"]
NoSlot == "none"

\* copied: previous_line is set, to the row with the same slot.
Lines == [item : Items, qty : Quantities, copied : BOOLEAN]
Unlinked == [item : Items, qty : Quantities, copied : {FALSE}] \cup {NoLine}

Rows(r) == IF r = NoRev THEN {} ELSE {s \in Slots : line[r][s] # NoLine}

Init ==
    /\ stage = [r \in Revs |-> "absent"]
    /\ line = [r \in Revs |-> [s \in Slots |-> NoLine]]
    /\ ordered = [r \in Revs |-> [s \in Slots |-> FALSE]]
    /\ committed = [r \in Revs |-> [s \in Slots |-> 0]]
    /\ arrived = [r \in Revs |-> [s \in Slots |-> 0]]
    /\ sentBack = [r \in Revs |-> [s \in Slots |-> 0]]
    /\ reconciling = NoRev /\ against = NoRev /\ seen = <<>>
    /\ outcomes = [r \in Revs |-> {}]

-----------------------------------------------------------------------------
\* MaxOf and MinOf: the larger and the smaller of two quantities.
MaxOf(a, b) == IF a > b THEN a ELSE b
MinOf(a, b) == IF a < b THEN a ELSE b

Verdict(kind, action, excess, reduction) ==
    [kind |-> kind, action |-> action, excess |-> excess, reduction |-> reduction]

\* Mutant: what is still to come is not cancelled when some has arrived.
MutClassify(previous, new, com, rec) ==
    CASE new > previous -> Verdict("increased", "request_delta", 0, 0)
      [] new = previous -> Verdict("unchanged", "none", 0, 0)
      [] new < previous /\ rec > new ->
            Verdict("decreased_received", "return_queue", rec - new, 0)
      [] new < previous /\ rec <= new /\ com > new ->
            Verdict("decreased_ordered", "amend_order", 0, com - new)
      [] OTHER -> Verdict("decreased_uncommitted", "reduce_draft", 0, 0)

Classify(previous, new, com, rec) ==
    CASE previous = 0 /\ new > 0 -> Verdict("new", "request_delta", 0, 0)
      [] previous > 0 /\ new > previous -> Verdict("increased", "request_delta", 0, 0)
      [] new = previous -> Verdict("unchanged", "none", 0, 0)
      [] new < previous /\ rec > new ->
            Verdict("decreased_received", "return_queue", rec - new, MaxOf(com - rec, 0))
      [] new < previous /\ rec <= new /\ com > new ->
            Verdict("decreased_ordered", "amend_order", 0, com - new)
      [] new < previous /\ rec <= new /\ com <= new ->
            Verdict("decreased_uncommitted", "reduce_draft", 0, 0)

(* The highest released revision with a number below r.                    *)
PreviousRevision(r, p) ==
    \/ p = NoRev /\ \A q \in Revs : q < r => stage[q] # "released"
    \/ /\ p \in Revs /\ p < r
       /\ stage[p] = "released"
       /\ \A q \in Revs : (p < q /\ q < r) => stage[q] # "released"

(* The dictionary match_key -> line: one row of those with the same key    *)
(* is kept, whichever the query returned last.                             *)
Indexes(p) ==
    LET found == {line[p][s].item : s \in Rows(p)}
    IN  {f \in [found -> Rows(p)] : \A i \in found : line[p][f[i]].item = i}

\* The row of p that row s of r is compared with: previous_line, or the index.
Previous(r, s, f) ==
    IF line[r][s].copied THEN s
    ELSE IF line[r][s].item \in DOMAIN f THEN f[line[r][s].item] ELSE NoSlot

\* Mutant: the rows already compared are not skipped.
MutComparisons(r, p, f) ==
    {<<s, Previous(r, s, f)>> : s \in Rows(r)} \cup {<<NoSlot, f[i]>> : i \in DOMAIN f}

\* Mutant: rows that are no longer listed are not reported.
MutComparisonsKept(r, p, f) == {<<s, Previous(r, s, f)>> : s \in Rows(r)}

(* <<row, previous row>>: every row of r, then the indexed rows of p that  *)
(* none was compared with.                                                 *)
Comparisons(r, p, f) ==
    {<<s, Previous(r, s, f)>> : s \in Rows(r)}
    \cup {<<NoSlot, q>> : q \in {f[i] : i \in DOMAIN f} \ {Previous(r, s, f) : s \in Rows(r)}}

\* The row whose ledgers count: the previous row, or its own without one.
LedgerRow(r, p, x) == IF x[2] = NoSlot THEN <<r, x[1]>> ELSE <<p, x[2]>>

(* committed_for, and the two sums of received_for, as they stand.         *)
Ledgers(r, p, x) ==
    LET row == LedgerRow(r, p, x)
    IN  <<committed[row[1]][row[2]], arrived[row[1]][row[2]], sentBack[row[1]][row[2]]>>

\* The verdict on comparison x for what the three queries returned.
Outcome(r, p, x, read) ==
    LET before == IF x[2] = NoSlot THEN 0 ELSE line[p][x[2]].qty
        new == IF x[1] = NoSlot THEN 0 ELSE line[r][x[1]].qty
        rec == read[2] - read[3]
    IN  [slot |-> x[1], previous |-> x[2], before |-> before, new |-> new,
         com |-> read[1], rec |-> rec, verdict |-> Classify(before, new, read[1], rec)]

-----------------------------------------------------------------------------
\* Every released row copied and its quantity edited, then rows added, ...
OpenedFrom(p, content) ==
    \A s \in Slots :
        IF s \in Rows(p)
        THEN content[s] \in Lines /\ content[s].copied /\ content[s].item = line[p][s].item
        ELSE content[s] \in Unlinked

\* ... or the rows of a spreadsheet, which are linked to nothing.
Imported(content) == content \in [Slots -> Unlinked]

ListsOnce(content) ==
    \A s, t \in Slots :
        (content[s] # NoLine /\ content[t] # NoLine /\ content[s].item = content[t].item) => s = t

(* A revision is prepared; the one below it is released (BoqRevision).     *)
Prepare(r) ==
    /\ stage[r] = "absent"
    /\ r > 0 => stage[r - 1] = "released"
    /\ \E content \in [Slots -> Lines \cup {NoLine}] :
        /\ OpenedFrom(r - 1, content) \/ Imported(content)
        /\ Duplicates \/ ListsOnce(content)
        /\ line' = [line EXCEPT ![r] = content]
    /\ stage' = [stage EXCEPT ![r] = "draft"]
    /\ UNCHANGED <<ledgers, work, outcomes>>

Release(r) ==
    /\ stage[r] = "draft"
    /\ stage' = [stage EXCEPT ![r] = "released"]
    /\ UNCHANGED <<line, ledgers, work, outcomes>>

(* The handlers of BoqRevisionReleased, whenever the event is delivered.   *)
(* They do nothing once there are verdicts.                                *)
BeginReconcile(r) ==
    /\ reconciling = NoRev
    /\ stage[r] = "released"
    /\ outcomes[r] = {}
    /\ reconciling' = r
    /\ \E p \in Revs \cup {NoRev} :
        /\ PreviousRevision(r, p)
        /\ against' = p
        /\ \E f \in Indexes(p) : seen' = [x \in Comparisons(r, p, f) |-> <<>>]
    /\ UNCHANGED <<stage, line, ledgers, outcomes>>

\* One comparison after the other, the removals last.
InTurn(x) ==
    \A y \in DOMAIN seen \ {x} :
        \/ Len(seen[y]) = 3
        \/ Len(seen[y]) = 0 /\ (x[1] # NoSlot \/ y[1] = NoSlot)

(* One query.  Nothing keeps the ledgers still until the next.             *)
ReadLedger(x) ==
    /\ Len(seen[x]) < 3
    /\ InTurn(x)
    /\ seen' = [seen EXCEPT
                 ![x] = Append(@, Ledgers(reconciling, against, x)[Len(@) + 1])]
    /\ UNCHANGED <<stage, line, ledgers, reconciling, against, outcomes>>

StopWork == reconciling' = NoRev /\ against' = NoRev /\ seen' = <<>>

(* The verdicts, and with them the request that create_request_from_       *)
(* revision drafts.                                                        *)
Persist ==
    /\ reconciling # NoRev
    /\ \A x \in DOMAIN seen : Len(seen[x]) = 3
    /\ outcomes' = [outcomes EXCEPT ![reconciling] =
                        {Outcome(reconciling, against, x, seen[x]) : x \in DOMAIN seen}]
    /\ StopWork
    /\ UNCHANGED <<stage, line, ledgers>>

(* A handler fails or the drainer dies: the event is delivered again.      *)
Interrupted ==
    /\ reconciling # NoRev
    /\ StopWork
    /\ UNCHANGED <<stage, line, ledgers, outcomes>>

\* Mutant: the ceiling is not looked at.
MutOrder(r, s, n) ==
    /\ s \in Rows(r) /\ <<r, s>> \in OrderRows
    /\ ordered' = [ordered EXCEPT ![r][s] = TRUE]
    /\ committed' = [committed EXCEPT ![r][s] = @ + n]
    /\ UNCHANGED <<stage, line, arrived, sentBack, work, outcomes>>

(* An order of any kind, on a row of any revision: reserve_headroom.       *)
Order(r, s, n) ==
    /\ s \in Rows(r) /\ <<r, s>> \in OrderRows
    /\ committed[r][s] + n <= line[r][s].qty
    /\ ordered' = [ordered EXCEPT ![r][s] = TRUE]
    /\ committed' = [committed EXCEPT ![r][s] = @ + n]
    /\ UNCHANGED <<stage, line, arrived, sentBack, work, outcomes>>

(* An amendment, a cancellation or a rejection: release_headroom, which    *)
(* looks at what is on order only.  amend_line stops at what is accepted   *)
(* when it runs, but receipts on the way are accepted afterwards, and      *)
(* verify_receipt releases what it rejects whatever else is accepted.      *)
ReleaseHeadroom(r, s, n) ==
    /\ committed[r][s] - n >= 0
    /\ committed' = [committed EXCEPT ![r][s] = @ - n]
    /\ UNCHANGED <<stage, line, ordered, arrived, sentBack, work, outcomes>>

(* A receipt is accepted.  record_receipt compares each with the order     *)
(* less the receipts accepted so far, so several on the way may exceed it. *)
Receive(r, s, n) ==
    /\ ordered[r][s]
    /\ arrived[r][s] + n <= MaxArrived
    /\ arrived' = [arrived EXCEPT ![r][s] = @ + n]
    /\ UNCHANGED <<stage, line, ordered, committed, sentBack, work, outcomes>>

(* A return is compared with all that was ever accepted, and releases      *)
(* headroom.                                                               *)
Return(r, s, n) ==
    /\ n <= arrived[r][s]
    /\ n <= committed[r][s]
    /\ sentBack[r][s] + n <= MaxSentBack
    /\ sentBack' = [sentBack EXCEPT ![r][s] = @ + n]
    /\ committed' = [committed EXCEPT ![r][s] = @ - n]
    /\ UNCHANGED <<stage, line, ordered, arrived, work, outcomes>>

Next ==
    \/ \E r \in Revs : Prepare(r) \/ Release(r) \/ BeginReconcile(r)
    \/ \E x \in DOMAIN seen : ReadLedger(x)
    \/ Persist
    \/ Interrupted
    \/ \E r \in Revs, s \in Slots, n \in 1..MaxQty :
          Order(r, s, n) \/ ReleaseHeadroom(r, s, n) \/ Receive(r, s, n) \/ Return(r, s, n)

Spec == Init /\ [][Next]_vars

-----------------------------------------------------------------------------
Verdicts ==
    [kind : {"new", "increased", "unchanged", "decreased_received", "decreased_ordered",
             "decreased_uncommitted"},
     action : {"request_delta", "none", "return_queue", "amend_order", "reduce_draft"},
     excess : Nat, reduction : Quantities]

Outcomes ==
    [slot : Slots \cup {NoSlot}, previous : Slots \cup {NoSlot}, before : Quantities,
     new : Quantities, com : Quantities, rec : Int, verdict : Verdicts]

TypeOK ==
    /\ stage \in [Revs -> {"absent", "draft", "released"}]
    /\ line \in [Revs -> [Slots -> Lines \cup {NoLine}]]
    /\ ordered \in [Revs -> [Slots -> BOOLEAN]]
    /\ committed \in [Revs -> [Slots -> Quantities]]
    /\ arrived \in [Revs -> [Slots -> 0..MaxArrived]]
    /\ sentBack \in [Revs -> [Slots -> 0..MaxSentBack]]
    /\ reconciling \in Revs \cup {NoRev} /\ against \in Revs \cup {NoRev}
    /\ \A x \in DOMAIN seen : seen[x] \in Seq(Nat) /\ Len(seen[x]) <= 3
    /\ outcomes \in [Revs -> SUBSET Outcomes]

(* The instructions on a reduced line (cancel order_reduction with the     *)
(* vendor, send excess_received back), whatever moved between the queries: *)
(* sending back leaves what the line still needs of what was found at site *)
(* and counts nothing that never arrived; and unless more was found at     *)
(* site than on order, both together leave on order exactly what the line  *)
(* still needs.                                                            *)
InstructionsSettle ==
    \A r \in Revs : \A o \in outcomes[r] :
        o.new < o.before =>
            /\ o.rec - o.verdict.excess = MinOf(o.rec, o.new)
            /\ o.verdict.excess > 0 => o.new + o.verdict.excess <= arrived[r - 1][o.previous]
            /\ o.rec <= o.com =>
                  o.com - o.verdict.reduction - o.verdict.excess = MinOf(o.com, o.new)

(* Every line of the revision before is compared with exactly one line of  *)
(* the revision, or is a removal: none is dropped or counted twice.        *)
ComparedOnce ==
    \A r \in Revs \ {0} : outcomes[r] # {} =>
        \A q \in Rows(r - 1) : \E o \in outcomes[r] :
            \A n \in outcomes[r] : n.previous = q <=> n = o

-----------------------------------------------------------------------------
(* What the proofs add: a revision stands on a released one, its rows come *)
(* from there or from a spreadsheet, and verdicts are for released ones.   *)
StandsOnReleased ==
    \A r \in Revs :
        /\ outcomes[r] # {} => stage[r] = "released"
        /\ stage[r] # "absent" =>
              /\ r > 0 => stage[r - 1] = "released"
              /\ OpenedFrom(r - 1, line[r]) \/ Imported(line[r])

(* A reconciliation under way compares a released revision with the one    *)
(* below, and no more has been read as inbound than has arrived since.     *)
WorkUnderWay ==
    IF reconciling = NoRev
    THEN seen = <<>>
    ELSE /\ stage[reconciling] = "released"
         /\ against = reconciling - 1
         /\ \E f \in Indexes(against) : DOMAIN seen = Comparisons(reconciling, against, f)
         /\ \A x \in DOMAIN seen :
              /\ Len(seen[x]) >= 1 => seen[x][1] \in Quantities
              /\ Len(seen[x]) >= 2 => seen[x][2] <= Ledgers(reconciling, against, x)[2]

\* Without duplicates, no revision lists an item twice.
AllListOnce == \A r \in Revs : Duplicates \/ ListsOnce(line[r])
=============================================================================
