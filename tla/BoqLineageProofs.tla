-------------------------- MODULE BoqLineageProofs ---------------------------
(***************************************************************************)
(* What holds of BoqLineage for every number of items, rows, revisions and *)
(* quantities.                                                             *)
(***************************************************************************)
EXTENDS BoqPromises, SumLemmas, SequenceTheorems

\* What InstructionsSettle says of one outcome of revision r.
Settled(r, o) ==
    o.new < o.before =>
        /\ o.rec - o.verdict.excess = MinOf(o.rec, o.new)
        /\ o.verdict.excess > 0 => o.new + o.verdict.excess <= arrived[r - 1][o.previous]
        /\ o.rec <= o.com => o.com - o.verdict.reduction - o.verdict.excess = MinOf(o.com, o.new)

(* _classify on a decrease: order_reduction and excess_received bring what *)
(* was read as on order and at site down to the new quantity, or leave     *)
(* them where they are below it.                                           *)
LEMMA ClassifySettles ==
    ASSUME NEW before \in Nat, NEW new \in Nat, NEW com \in Nat, NEW rec \in Int, new < before
    PROVE  LET v == Classify(before, new, com, rec)
           IN  /\ rec - v.excess = MinOf(rec, new)
               /\ v.excess > 0 => new + v.excess = rec
               /\ rec <= com => com - v.reduction - v.excess = MinOf(com, new)
<1>1. CASE rec > new
  <2>1. Classify(before, new, com, rec)
          = Verdict("decreased_received", "return_queue", rec - new, MaxOf(com - rec, 0))
    BY <1>1 DEF Classify
  <2>. QED
    BY <1>1, <2>1 DEF Verdict, MaxOf, MinOf
<1>2. CASE rec <= new /\ com > new
  <2>1. Classify(before, new, com, rec) = Verdict("decreased_ordered", "amend_order", 0, com - new)
    BY <1>2 DEF Classify
  <2>. QED
    BY <1>2, <2>1 DEF Verdict, MinOf
<1>3. CASE rec <= new /\ com <= new
  <2>1. Classify(before, new, com, rec) = Verdict("decreased_uncommitted", "reduce_draft", 0, 0)
    BY <1>3 DEF Classify
  <2>. QED
    BY <1>3, <2>1 DEF Verdict, MinOf
<1>. QED
  BY <1>1, <1>2, <1>3

(* The six outcomes leave no case out, and their quantities fit.           *)
LEMMA ClassifyTyped ==
    ASSUME NEW before \in Quantities, NEW new \in Quantities,
           NEW com \in Quantities, NEW rec \in Int
    PROVE  Classify(before, new, com, rec) \in Verdicts
<1>. USE LineageAssumption DEF Quantities
<1>1. CASE new < before /\ rec > new
  <2>1. Classify(before, new, com, rec)
          = Verdict("decreased_received", "return_queue", rec - new, MaxOf(com - rec, 0))
    BY <1>1 DEF Classify
  <2>2. rec - new \in Nat /\ MaxOf(com - rec, 0) \in 0..MaxQty
    BY <1>1 DEF MaxOf
  <2>. QED
    BY <2>1, <2>2 DEF Verdict, Verdicts
<1>2. CASE new < before /\ rec <= new /\ com > new
  <2>1. Classify(before, new, com, rec) = Verdict("decreased_ordered", "amend_order", 0, com - new)
    BY <1>2 DEF Classify
  <2>. QED
    BY <1>2, <2>1 DEF Verdict, Verdicts
<1>3. CASE new < before /\ rec <= new /\ com <= new
  <2>1. Classify(before, new, com, rec) = Verdict("decreased_uncommitted", "reduce_draft", 0, 0)
    BY <1>3 DEF Classify
  <2>. QED
    BY <2>1 DEF Verdict, Verdicts
<1>4. CASE new = before
  <2>1. Classify(before, new, com, rec) = Verdict("unchanged", "none", 0, 0)
    BY <1>4 DEF Classify
  <2>. QED
    BY <2>1 DEF Verdict, Verdicts
<1>5. CASE new > before
  <2>1. \/ Classify(before, new, com, rec) = Verdict("new", "request_delta", 0, 0)
        \/ Classify(before, new, com, rec) = Verdict("increased", "request_delta", 0, 0)
    BY <1>5 DEF Classify
  <2>. QED
    BY <2>1 DEF Verdict, Verdicts
<1>. QED
  BY <1>1, <1>2, <1>3, <1>4, <1>5

-----------------------------------------------------------------------------
(* Previous of a row is a row of the revision below, or nothing.           *)
LEMMA PreviousIsRow ==
    ASSUME TypeOK, NEW r \in Revs, NEW p \in Revs \cup {NoRev}, NEW f \in Indexes(p),
           OpenedFrom(p, line[r]) \/ Imported(line[r]),
           NEW s \in Rows(r)
    PROVE  Previous(r, s, f) \in Rows(p) \cup {NoSlot}
<1>1. r # NoRev /\ s \in Slots /\ line[r][s] \in Lines
  BY LineageAssumption DEF Rows, TypeOK, Revs, NoRev
<1>2. \A i \in DOMAIN f : f[i] \in Rows(p)
  BY DEF Indexes
<1>3. CASE line[r][s].copied
  <2>1. ~Imported(line[r])
    BY <1>1, <1>3 DEF Imported, Unlinked, Lines, NoLine, Rows
  <2>2. OpenedFrom(p, line[r])
    BY <2>1
  <2>3. s \in Rows(p)
    BY <1>1, <1>3, <2>2 DEF OpenedFrom, Unlinked, Lines, NoLine, Rows
  <2>. QED
    BY <1>3, <2>3 DEF Previous
<1>4. CASE ~line[r][s].copied
  BY <1>2, <1>4 DEF Previous
<1>. QED
  BY <1>3, <1>4

\* What is known of a row.
LEMMA RowTyped ==
    ASSUME TypeOK, NEW a \in Revs \cup {NoRev}, NEW s \in Rows(a)
    PROVE  a \in Revs /\ s \in Slots /\ s # NoSlot /\ line[a][s].qty \in Quantities
<1>1. a # NoRev /\ a \in Revs
  BY DEF Rows
<1>2. s \in Slots /\ line[a][s] # NoLine
  BY <1>1 DEF Rows
<1>3. line[a][s] \in Lines
  BY <1>1, <1>2 DEF TypeOK
<1>. QED
  BY <1>1, <1>2, <1>3, LineageAssumption DEF Lines, NoSlot

(* A comparison is of a row, with a row below or with nothing, or of       *)
(* nothing with a row below.                                               *)
LEMMA ComparisonCases ==
    ASSUME TypeOK, NEW r \in Revs, NEW p \in Revs \cup {NoRev}, NEW f \in Indexes(p),
           OpenedFrom(p, line[r]) \/ Imported(line[r]),
           NEW x \in Comparisons(r, p, f)
    PROVE  \/ x[1] \in Rows(r) /\ x[2] \in Rows(p) \cup {NoSlot}
           \/ x[1] = NoSlot /\ x[2] \in Rows(p)
<1>1. CASE \E s \in Rows(r) : x = <<s, Previous(r, s, f)>>
  BY <1>1, PreviousIsRow
<1>2. CASE \E i \in DOMAIN f : x = <<NoSlot, f[i]>>
  BY <1>2 DEF Indexes
<1>. QED
  BY <1>1, <1>2 DEF Comparisons

(* Its ledgers are those of a row.                                         *)
LEMMA LedgersTyped ==
    ASSUME TypeOK, NEW r \in Revs, NEW p \in Revs \cup {NoRev}, NEW f \in Indexes(p),
           OpenedFrom(p, line[r]) \/ Imported(line[r]),
           NEW x \in Comparisons(r, p, f)
    PROVE  \E a \in Revs, s \in Slots :
              /\ LedgerRow(r, p, x) = <<a, s>>
              /\ x[2] # NoSlot => a = p /\ s = x[2]
              /\ Ledgers(r, p, x) = <<committed[a][s], arrived[a][s], sentBack[a][s]>>
              /\ committed[a][s] \in Quantities /\ arrived[a][s] \in Nat /\ sentBack[a][s] \in Nat
<1>1. \/ x[1] \in Rows(r) /\ x[2] \in Rows(p) \cup {NoSlot}
      \/ x[1] = NoSlot /\ x[2] \in Rows(p)
  BY ComparisonCases
<1>2. PICK a \in Revs, s \in Slots :
        LedgerRow(r, p, x) = <<a, s>> /\ (x[2] # NoSlot => a = p /\ s = x[2])
  <2>1. CASE x[2] = NoSlot
    <3>1. x[1] \in Rows(r)
      BY <1>1, <2>1, RowTyped
    <3>. QED
      BY <2>1, <3>1, RowTyped DEF LedgerRow
  <2>2. CASE x[2] # NoSlot
    <3>1. p \in Revs /\ x[2] \in Slots
      BY <1>1, <2>2, RowTyped
    <3>. QED
      BY <2>2, <3>1 DEF LedgerRow
  <2>. QED
    BY <2>1, <2>2
<1>3. Ledgers(r, p, x) = <<committed[a][s], arrived[a][s], sentBack[a][s]>>
  BY <1>2 DEF Ledgers
<1>4. committed[a][s] \in Quantities /\ arrived[a][s] \in Nat /\ sentBack[a][s] \in Nat
  BY LineageAssumption DEF TypeOK
<1>. QED
  BY <1>2, <1>3, <1>4

(* A verdict on what was read is well formed, and on a decrease it settles *)
(* the line.                                                               *)
LEMMA OutcomeWellFormed ==
    ASSUME TypeOK, NEW r \in Revs, NEW p \in Revs \cup {NoRev}, p = r - 1, NEW f \in Indexes(p),
           OpenedFrom(p, line[r]) \/ Imported(line[r]),
           NEW x \in Comparisons(r, p, f),
           NEW read \in Seq(Nat), Len(read) = 3, read[1] \in Quantities,
           read[2] <= Ledgers(r, p, x)[2]
    PROVE  LET o == Outcome(r, p, x, read)
           IN  /\ o \in Outcomes
               /\ o.before > 0 => p \in Revs /\ o.previous \in Slots
               /\ Settled(r, o)
<1>. DEFINE before == IF x[2] = NoSlot THEN 0 ELSE line[p][x[2]].qty
            new == IF x[1] = NoSlot THEN 0 ELSE line[r][x[1]].qty
            rec == read[2] - read[3]
            o == Outcome(r, p, x, read)
<1>1. /\ x[1] \in Slots \cup {NoSlot} /\ x[2] \in Slots \cup {NoSlot}
      /\ before \in Quantities /\ new \in Quantities
      /\ x[2] # NoSlot => p \in Revs
  <2>1. \/ x[1] \in Rows(r) /\ x[2] \in Rows(p) \cup {NoSlot}
        \/ x[1] = NoSlot /\ x[2] \in Rows(p)
    BY ComparisonCases
  <2>2. 0 \in Quantities
    BY LineageAssumption DEF Quantities
  <2>. QED
    BY <2>1, <2>2, RowTyped
<1>2. read[2] \in Nat /\ read[3] \in Nat /\ rec \in Int /\ rec <= read[2]
  <2>1. 2 \in 1..Len(read) /\ 3 \in 1..Len(read)
    OBVIOUS
  <2>2. read[2] \in Nat /\ read[3] \in Nat
    BY <2>1, ElementOfSeq
  <2>. QED
    BY <2>2
<1>3. /\ o.slot = x[1] /\ o.previous = x[2] /\ o.before = before /\ o.new = new
      /\ o.com = read[1] /\ o.rec = rec /\ o.verdict = Classify(before, new, read[1], rec)
      /\ o = [slot |-> x[1], previous |-> x[2], before |-> before, new |-> new,
              com |-> read[1], rec |-> rec, verdict |-> Classify(before, new, read[1], rec)]
  BY DEF Outcome
<1>4. before > 0 => x[2] # NoSlot
  OBVIOUS
<1>. HIDE DEF before, new, rec, o
<1>5. Classify(before, new, read[1], rec) \in Verdicts
  BY <1>1, <1>2, ClassifyTyped
<1>6. o \in Outcomes
  BY <1>1, <1>2, <1>3, <1>5 DEF Outcomes
<1>7. o.before > 0 => p \in Revs /\ o.previous \in Slots
  BY <1>1, <1>3, <1>4
<1>8. Settled(r, o)
  <2>. SUFFICES ASSUME new < before PROVE
          /\ rec - o.verdict.excess = MinOf(rec, new)
          /\ o.verdict.excess > 0 => new + o.verdict.excess <= arrived[r - 1][x[2]]
          /\ rec <= read[1] => read[1] - o.verdict.reduction - o.verdict.excess = MinOf(read[1], new)
    BY <1>3 DEF Settled
  <2>1. before \in Nat /\ new \in Nat /\ read[1] \in Nat
    BY <1>1, LineageAssumption DEF Quantities
  <2>2. /\ rec - o.verdict.excess = MinOf(rec, new)
        /\ o.verdict.excess > 0 => new + o.verdict.excess = rec
        /\ rec <= read[1] => read[1] - o.verdict.reduction - o.verdict.excess = MinOf(read[1], new)
    <3>1. o.verdict = Classify(before, new, read[1], rec) /\ rec \in Int
      BY <1>2, <1>3
    <3>. QED
      BY <2>1, <3>1, ClassifySettles
  <2>3. x[2] # NoSlot
    BY <1>4, <2>1
  <2>4. PICK a \in Revs, s \in Slots :
          /\ x[2] # NoSlot => a = p /\ s = x[2]
          /\ Ledgers(r, p, x) = <<committed[a][s], arrived[a][s], sentBack[a][s]>>
          /\ arrived[a][s] \in Nat
    BY LedgersTyped
  <2>5. read[2] <= arrived[r - 1][x[2]] /\ arrived[r - 1][x[2]] \in Nat
    BY <2>3, <2>4
  <2>. QED
    BY <1>2, <2>2, <2>5
<1>. QED
  BY <1>6, <1>7, <1>8 DEF o

-----------------------------------------------------------------------------
(* The inductive invariant.  A verdict needs the revision below to be      *)
(* there and the rows compared to stay, and what was read as inbound to    *)
(* stay below what has arrived.                                            *)
Refers ==
    \A r \in Revs : \A o \in outcomes[r] : o.before > 0 => r - 1 \in Revs /\ o.previous \in Slots

Lineage == TypeOK /\ StandsOnReleased /\ WorkUnderWay /\ Refers /\ InstructionsSettle

LEMMA InitLineage == Init => Lineage
<1>. SUFFICES ASSUME Init PROVE Lineage
  OBVIOUS
<1>. USE LineageAssumption DEF Init, Revs
<1>1. TypeOK
  BY DEF TypeOK, Quantities
<1>2. WorkUnderWay
  BY DEF WorkUnderWay
<1>3. StandsOnReleased
  BY DEF StandsOnReleased
<1>4. InstructionsSettle /\ Refers
  BY DEF InstructionsSettle, Refers
<1>. QED
  BY <1>1, <1>2, <1>3, <1>4 DEF Lineage

(* Where no line changes and nothing that was released stops being so,     *)
(* what a reconciliation under way compares stays the same.                *)
LEMMA WorkGoesOn ==
    ASSUME Lineage, TypeOK', UNCHANGED <<work, outcomes>>,
           \A q \in Revs : stage[q] = "released" => stage'[q] = "released" /\ line'[q] = line[q],
           \A a \in Revs, s \in Slots : arrived'[a][s] >= arrived[a][s]
    PROVE  WorkUnderWay' /\ Refers' /\ InstructionsSettle'
<1>1. TypeOK /\ StandsOnReleased /\ WorkUnderWay /\ Refers /\ InstructionsSettle
  BY DEF Lineage
<1>2. reconciling' = reconciling /\ against' = against /\ seen' = seen /\ outcomes' = outcomes
  BY DEF work
<1>3. WorkUnderWay'
  <2>1. CASE reconciling = NoRev
    BY <1>1, <1>2, <2>1 DEF WorkUnderWay
  <2>2. CASE reconciling # NoRev
    <3>. DEFINE r == reconciling
                p == against
    <3>1. /\ r \in Revs /\ p \in Revs \cup {NoRev} /\ p = r - 1 /\ stage[r] = "released"
          /\ \A x \in DOMAIN seen :
                /\ Len(seen[x]) >= 1 => seen[x][1] \in Quantities
                /\ Len(seen[x]) >= 2 => seen[x][2] <= Ledgers(r, p, x)[2]
      BY <1>1, <2>2 DEF WorkUnderWay, TypeOK
    <3>2. PICK f \in Indexes(p) : DOMAIN seen = Comparisons(r, p, f)
      BY <1>1, <2>2 DEF WorkUnderWay
    <3>3. OpenedFrom(p, line[r]) \/ Imported(line[r])
      BY <1>1, <3>1 DEF StandsOnReleased
    <3>4. r > 0 => p \in Revs /\ stage[p] = "released"
      BY <1>1, <3>1, LineageAssumption DEF StandsOnReleased, Revs
    <3>5. stage'[r] = "released" /\ line'[r] = line[r] /\ (p \in Revs => line'[p] = line[p])
      BY <3>1, <3>4, LineageAssumption DEF Revs
    <3>6. Rows(p)' = Rows(p) /\ Rows(r)' = Rows(r)
      BY <1>2, <3>1, <3>5 DEF Rows
    <3>7. f \in Indexes(p)'
      <4>1. CASE p \in Revs
        BY <1>2, <3>5, <3>6, <4>1 DEF Indexes
      <4>2. CASE p \notin Revs
        <5>1. Rows(p) = {} /\ Rows(p)' = {}
          BY <3>1, <3>6, <4>2 DEF Rows
        <5>. QED
          BY <5>1 DEF Indexes
      <4>. QED
        BY <4>1, <4>2
    <3>8. Comparisons(r, p, f)' = Comparisons(r, p, f)
      BY <1>2, <3>5, <3>6 DEF Comparisons, Previous
    <3>9. ASSUME NEW x \in DOMAIN seen, Len(seen[x]) >= 2
          PROVE  seen[x][2] <= Ledgers(r, p, x)[2]'
      <4>1. x \in Comparisons(r, p, f)
        BY <3>2
      <4>2. PICK a \in Revs, s \in Slots :
              /\ LedgerRow(r, p, x) = <<a, s>>
              /\ Ledgers(r, p, x) = <<committed[a][s], arrived[a][s], sentBack[a][s]>>
              /\ arrived[a][s] \in Nat
        BY <1>1, <3>1, <3>3, <4>1, LedgersTyped
      <4>3. Ledgers(r, p, x)[2]' = arrived'[a][s]
        BY <1>2, <4>2 DEF Ledgers, LedgerRow
      <4>4. arrived'[a][s] \in Nat /\ arrived'[a][s] >= arrived[a][s]
        BY LineageAssumption DEF TypeOK
      <4>5. seen[x][2] <= arrived[a][s] /\ seen[x][2] \in Nat
        <5>1. seen[x] \in Seq(Nat) /\ Len(seen[x]) \in Nat /\ 2 \in 1..Len(seen[x])
          BY <1>1, <3>9 DEF TypeOK
        <5>2. seen[x][2] \in Nat
          BY <5>1, ElementOfSeq
        <5>3. seen[x][2] <= Ledgers(r, p, x)[2]
          BY <3>1, <3>9
        <5>. QED
          BY <4>2, <5>2, <5>3
      <4>. QED
        BY <4>2, <4>3, <4>4, <4>5
    <3>. QED
      BY <1>2, <2>2, <3>1, <3>2, <3>5, <3>7, <3>8, <3>9 DEF WorkUnderWay
  <2>. QED
    BY <2>1, <2>2
<1>4. Refers'
  BY <1>1, <1>2 DEF Refers
<1>5. InstructionsSettle'
  <2>. SUFFICES ASSUME NEW q \in Revs, NEW o \in outcomes[q] PROVE Settled(q, o)'
    BY <1>2 DEF InstructionsSettle, Settled
  <2>1. Settled(q, o) /\ o \in Outcomes /\ (o.before > 0 => q - 1 \in Revs /\ o.previous \in Slots)
    BY <1>1 DEF InstructionsSettle, Settled, TypeOK, Refers
  <2>2. o.new \in Nat /\ o.before \in Nat /\ o.verdict.excess \in Nat
    BY <2>1, LineageAssumption DEF Outcomes, Verdicts, Quantities
  <2>3. o.new < o.before =>
          /\ arrived[q - 1][o.previous] \in Nat /\ arrived'[q - 1][o.previous] \in Nat
          /\ arrived'[q - 1][o.previous] >= arrived[q - 1][o.previous]
    <3>1. \A a \in Revs, s \in Slots : arrived[a][s] \in Nat /\ arrived'[a][s] \in Nat
      BY <1>1, LineageAssumption DEF TypeOK
    <3>. QED
      BY <2>1, <2>2, <3>1
  <2>. QED
    BY <2>1, <2>2, <2>3 DEF Settled
<1>. QED
  BY <1>3, <1>4, <1>5

(* The ledgers move within their bounds and leave the rest alone.          *)
LEMMA LedgersMove ==
    ASSUME Lineage, NEW r \in Revs, NEW s \in Slots, NEW n \in 1..MaxQty,
           Order(r, s, n) \/ ReleaseHeadroom(r, s, n) \/ Receive(r, s, n) \/ Return(r, s, n)
    PROVE  Lineage'
<1>. USE LineageAssumption
<1>1. TypeOK /\ StandsOnReleased
  BY DEF Lineage
<1>2. /\ committed[r][s] \in Quantities /\ arrived[r][s] \in 0..MaxArrived
      /\ sentBack[r][s] \in 0..MaxSentBack
  BY <1>1 DEF TypeOK
<1>3. UNCHANGED <<stage, line, work, outcomes>>
  BY DEF Order, ReleaseHeadroom, Receive, Return
<1>4. /\ ordered' \in [Revs -> [Slots -> BOOLEAN]]
      /\ committed' \in [Revs -> [Slots -> Quantities]]
      /\ arrived' \in [Revs -> [Slots -> 0..MaxArrived]]
      /\ sentBack' \in [Revs -> [Slots -> 0..MaxSentBack]]
      /\ \A a \in Revs, t \in Slots : arrived'[a][t] >= arrived[a][t]
  <2>0. \A a \in Revs, t \in Slots : arrived[a][t] \in 0..MaxArrived
    BY <1>1 DEF TypeOK
  <2>1. CASE Order(r, s, n)
    <3>1. line[r][s].qty \in Quantities
      BY <1>1, <2>1, RowTyped DEF Order
    <3>2. committed[r][s] + n \in Quantities
      BY <1>2, <2>1, <3>1 DEF Order, Quantities
    <3>3. arrived' = arrived /\ sentBack' = sentBack
      BY <2>1 DEF Order
    <3>4. /\ ordered' = [ordered EXCEPT ![r][s] = TRUE]
          /\ committed' = [committed EXCEPT ![r][s] = committed[r][s] + n]
      BY <2>1 DEF Order
    <3>. QED
      BY <1>1, <2>0, <3>2, <3>3, <3>4 DEF TypeOK
  <2>2. CASE ReleaseHeadroom(r, s, n)
    <3>1. committed[r][s] - n \in Quantities
      BY <1>2, <2>2 DEF ReleaseHeadroom, Quantities
    <3>2. /\ ordered' = ordered /\ arrived' = arrived /\ sentBack' = sentBack
          /\ committed' = [committed EXCEPT ![r][s] = committed[r][s] - n]
      BY <2>2 DEF ReleaseHeadroom
    <3>. QED
      BY <1>1, <2>0, <3>1, <3>2 DEF TypeOK
  <2>3. CASE Receive(r, s, n)
    <3>1. arrived[r][s] + n \in 0..MaxArrived /\ arrived[r][s] + n >= arrived[r][s]
      BY <1>2, <2>3 DEF Receive
    <3>2. /\ ordered' = ordered /\ committed' = committed /\ sentBack' = sentBack
          /\ arrived' = [arrived EXCEPT ![r][s] = arrived[r][s] + n]
      BY <2>3 DEF Receive
    <3>3. \A a \in Revs, t \in Slots :
            arrived'[a][t] = IF a = r /\ t = s THEN arrived[r][s] + n ELSE arrived[a][t]
      BY <1>1, <3>2 DEF TypeOK
    <3>4. \A a \in Revs, t \in Slots : arrived'[a][t] >= arrived[a][t]
      BY <2>0, <3>1, <3>3
    <3>5. arrived' \in [Revs -> [Slots -> 0..MaxArrived]]
      BY <1>1, <3>1, <3>2 DEF TypeOK
    <3>. QED
      BY <1>1, <3>2, <3>4, <3>5 DEF TypeOK
  <2>4. CASE Return(r, s, n)
    <3>1. sentBack[r][s] + n \in 0..MaxSentBack /\ committed[r][s] - n \in Quantities
      BY <1>2, <2>4 DEF Return, Quantities
    <3>2. /\ ordered' = ordered /\ arrived' = arrived
          /\ sentBack' = [sentBack EXCEPT ![r][s] = sentBack[r][s] + n]
          /\ committed' = [committed EXCEPT ![r][s] = committed[r][s] - n]
      BY <2>4 DEF Return
    <3>. QED
      BY <1>1, <2>0, <3>1, <3>2 DEF TypeOK
  <2>. QED
    BY <2>1, <2>2, <2>3, <2>4
<1>5. reconciling' = reconciling /\ against' = against /\ seen' = seen
  BY <1>3 DEF work
<1>6. TypeOK'
  BY <1>1, <1>3, <1>4, <1>5 DEF TypeOK
<1>8. StandsOnReleased'
  BY <1>1, <1>3 DEF StandsOnReleased, OpenedFrom, Rows
<1>9. WorkUnderWay' /\ Refers' /\ InstructionsSettle'
  <2>1. UNCHANGED <<work, outcomes>>
    BY <1>3
  <2>2. \A q \in Revs : stage[q] = "released" => stage'[q] = "released" /\ line'[q] = line[q]
    BY <1>3
  <2>. QED
    BY <1>4, <1>6, <2>1, <2>2, WorkGoesOn
<1>. QED
  BY <1>6, <1>8, <1>9 DEF Lineage

LEMMA PrepareKeepsLineage ==
    ASSUME Lineage, NEW r \in Revs, Prepare(r)
    PROVE  Lineage'
<1>. USE LineageAssumption
<1>1. TypeOK /\ StandsOnReleased
  BY DEF Lineage
<1>2. PICK content \in [Slots -> Lines \cup {NoLine}] :
        /\ OpenedFrom(r - 1, content) \/ Imported(content)
        /\ line' = [line EXCEPT ![r] = content]
  BY DEF Prepare
<1>3. /\ stage[r] = "absent" /\ stage' = [stage EXCEPT ![r] = "draft"]
      /\ r > 0 => stage[r - 1] = "released"
      /\ UNCHANGED <<ordered, committed, arrived, sentBack, reconciling, against, seen, outcomes>>
  BY DEF Prepare, ledgers, work
<1>4. TypeOK'
  <2>1. line' \in [Revs -> [Slots -> Lines \cup {NoLine}]]
    BY <1>1, <1>2 DEF TypeOK
  <2>2. stage' \in [Revs -> {"absent", "draft", "released"}]
    BY <1>1, <1>3 DEF TypeOK
  <2>. QED
    BY <1>1, <1>3, <2>1, <2>2 DEF TypeOK
<1>5. WorkUnderWay' /\ Refers' /\ InstructionsSettle'
  <2>1. UNCHANGED <<work, outcomes>>
    BY <1>3 DEF work
  <2>2. \A q \in Revs : stage[q] = "released" => stage'[q] = "released" /\ line'[q] = line[q]
    BY <1>1, <1>2, <1>3 DEF TypeOK
  <2>3. \A a \in Revs, s \in Slots : arrived'[a][s] >= arrived[a][s]
    BY <1>1, <1>3 DEF TypeOK
  <2>. QED
    BY <1>4, <2>1, <2>2, <2>3, WorkGoesOn
<1>7. StandsOnReleased'
  <2>. SUFFICES ASSUME NEW q \in Revs
       PROVE  /\ outcomes'[q] # {} => stage'[q] = "released"
              /\ stage'[q] # "absent" =>
                    /\ q > 0 => stage'[q - 1] = "released"
                    /\ OpenedFrom(q - 1, line[q])' \/ Imported(line[q])'
    BY DEF StandsOnReleased
  <2>1. /\ outcomes[q] # {} => stage[q] = "released"
        /\ stage[q] # "absent" =>
              /\ q > 0 => stage[q - 1] = "released"
              /\ OpenedFrom(q - 1, line[q]) \/ Imported(line[q])
    BY <1>1 DEF StandsOnReleased
  <2>2. outcomes'[q] # {} => stage'[q] = "released"
    BY <1>1, <1>3, <2>1 DEF TypeOK
  <2>3. ASSUME q > 0, stage'[q] # "absent"
        PROVE  stage'[q - 1] = "released" /\ q - 1 # r /\ q - 1 \in Revs
    BY <1>1, <1>3, <2>1, <2>3 DEF TypeOK, Revs
  <2>4. ASSUME stage'[q] # "absent"
        PROVE  Rows(q - 1)' = Rows(q - 1) /\ \A s \in Rows(q - 1) : line'[q - 1] = line[q - 1]
    <3>1. CASE q > 0
      BY <1>1, <1>2, <2>3, <2>4, <3>1 DEF Rows, TypeOK
    <3>2. CASE q = 0
      BY <3>2 DEF Rows, NoRev
    <3>. QED
      BY <3>1, <3>2 DEF Revs
  <2>5. ASSUME stage'[q] # "absent"
        PROVE  OpenedFrom(q - 1, line[q])' \/ Imported(line[q])'
    <3>1. CASE q = r
      <4>1. line'[q] = content
        BY <1>1, <1>2, <3>1 DEF TypeOK
      <4>. QED
        BY <1>2, <2>4, <2>5, <3>1, <4>1 DEF OpenedFrom, Imported
    <3>2. CASE q # r
      <4>1. line'[q] = line[q] /\ stage'[q] = stage[q]
        BY <1>1, <1>2, <1>3, <3>2 DEF TypeOK
      <4>. QED
        BY <2>1, <2>4, <2>5, <4>1 DEF OpenedFrom, Imported
    <3>. QED
      BY <3>1, <3>2
  <2>. QED
    BY <2>2, <2>3, <2>5
<1>. QED
  BY <1>4, <1>5, <1>7 DEF Lineage

LEMMA ReleaseKeepsLineage ==
    ASSUME Lineage, NEW r \in Revs, Release(r)
    PROVE  Lineage'
<1>1. TypeOK /\ StandsOnReleased
  BY DEF Lineage
<1>2. /\ stage[r] = "draft" /\ stage' = [stage EXCEPT ![r] = "released"]
      /\ UNCHANGED <<line, ordered, committed, arrived, sentBack, reconciling, against, seen, outcomes>>
  BY DEF Release, ledgers, work
<1>3. TypeOK'
  BY <1>1, <1>2 DEF TypeOK
<1>4. StandsOnReleased'
  <2>2. \A q \in Revs : stage'[q] # "absent" => stage[q] # "absent"
    BY <1>1, <1>2 DEF TypeOK
  <2>3. \A q \in Revs : stage[q] = "released" => stage'[q] = "released"
    BY <1>1, <1>2 DEF TypeOK
  <2>4. \A q \in Revs : q > 0 => q - 1 \in Revs
    BY LineageAssumption DEF Revs
  <2>5. \A q \in Revs : OpenedFrom(q - 1, line[q])' <=> OpenedFrom(q - 1, line[q])
    BY <1>2 DEF OpenedFrom, Rows
  <2>6. \A q \in Revs : Imported(line[q])' <=> Imported(line[q])
    BY <1>2 DEF Imported
  <2>. QED
    BY <1>1, <1>2, <2>2, <2>3, <2>4, <2>5, <2>6 DEF StandsOnReleased
<1>5. WorkUnderWay' /\ Refers' /\ InstructionsSettle'
  <2>1. UNCHANGED <<work, outcomes>>
    BY <1>2 DEF work
  <2>2. \A q \in Revs : stage[q] = "released" => stage'[q] = "released" /\ line'[q] = line[q]
    BY <1>1, <1>2 DEF TypeOK
  <2>3. \A a \in Revs, s \in Slots : arrived'[a][s] >= arrived[a][s]
    BY <1>1, <1>2, LineageAssumption DEF TypeOK
  <2>. QED
    BY <1>3, <2>1, <2>2, <2>3, WorkGoesOn
<1>. QED
  BY <1>3, <1>4, <1>5 DEF Lineage

(* The revision a reconciliation compares with is the one below.           *)
LEMMA PreviousIsBelow ==
    ASSUME Lineage, NEW r \in Revs, stage[r] = "released",
           NEW p \in Revs \cup {NoRev}, PreviousRevision(r, p)
    PROVE  /\ p = r - 1
           /\ r = 0 => p = NoRev
           /\ r > 0 => p \in Revs
<1>1. r > 0 => r - 1 \in Revs /\ stage[r - 1] = "released"
  BY LineageAssumption DEF Lineage, StandsOnReleased, Revs
<1>2. r = 0 => p = NoRev
  BY DEF PreviousRevision, Revs
<1>3. r > 0 => p = r - 1
  BY <1>1, LineageAssumption DEF PreviousRevision, Revs
<1>. QED
  BY <1>1, <1>2, <1>3, LineageAssumption DEF Revs, NoRev

\* What follows from the invariant while a reconciliation is under way.
LEMMA UnderWay ==
    ASSUME Lineage, reconciling # NoRev
    PROVE  /\ reconciling \in Revs /\ stage[reconciling] = "released"
           /\ against \in Revs \cup {NoRev} /\ against = reconciling - 1
           /\ reconciling = 0 => against = NoRev
           /\ reconciling > 0 => against \in Revs
           /\ OpenedFrom(against, line[reconciling]) \/ Imported(line[reconciling])
           /\ \E f \in Indexes(against) : DOMAIN seen = Comparisons(reconciling, against, f)
<1>1. /\ reconciling \in Revs /\ stage[reconciling] = "released"
      /\ against \in Revs \cup {NoRev} /\ against = reconciling - 1
      /\ \E f \in Indexes(against) : DOMAIN seen = Comparisons(reconciling, against, f)
  BY DEF Lineage, TypeOK, WorkUnderWay
<1>2. OpenedFrom(against, line[reconciling]) \/ Imported(line[reconciling])
  BY <1>1 DEF Lineage, StandsOnReleased
<1>. QED
  BY <1>1, <1>2, LineageAssumption DEF Revs, NoRev

LEMMA BeginKeepsLineage ==
    ASSUME Lineage, NEW r \in Revs, BeginReconcile(r)
    PROVE  Lineage'
<1>1. TypeOK /\ StandsOnReleased /\ Refers /\ InstructionsSettle
  BY DEF Lineage
<1>2. /\ stage[r] = "released" /\ reconciling' = r
      /\ UNCHANGED <<stage, line, ordered, committed, arrived, sentBack, outcomes>>
  BY DEF BeginReconcile, ledgers
<1>3. PICK p \in Revs \cup {NoRev} :
        /\ PreviousRevision(r, p) /\ against' = p
        /\ \E f \in Indexes(p) : seen' = [x \in Comparisons(r, p, f) |-> <<>>]
  BY Zenon DEF BeginReconcile
<1>4. PICK f \in Indexes(p) : seen' = [x \in Comparisons(r, p, f) |-> <<>>]
  BY <1>3
<1>5. p = r - 1
  BY <1>2, <1>3, PreviousIsBelow
<1>6. TypeOK'
  <2>1. \A x \in DOMAIN seen' : seen'[x] \in Seq(Nat) /\ Len(seen'[x]) <= 3
    BY <1>4
  <2>. QED
    BY <1>1, <1>2, <1>3, <2>1 DEF TypeOK
<1>7. StandsOnReleased'
  BY <1>1, <1>2 DEF StandsOnReleased, OpenedFrom, Imported, Rows
<1>8. WorkUnderWay'
  <2>1. r # NoRev
    BY LineageAssumption DEF Revs, NoRev
  <2>2. f \in Indexes(p)' /\ Comparisons(r, p, f)' = Comparisons(r, p, f)
    BY <1>2 DEF Indexes, Rows, Comparisons, Previous
  <2>3. DOMAIN seen' = Comparisons(r, p, f) /\ \A x \in DOMAIN seen' : Len(seen'[x]) = 0
    BY <1>4
  <2>. QED
    BY <1>2, <1>3, <1>5, <2>1, <2>2, <2>3 DEF WorkUnderWay
<1>9. Refers' /\ InstructionsSettle'
  BY <1>1, <1>2 DEF Refers, InstructionsSettle
<1>. QED
  BY <1>6, <1>7, <1>8, <1>9 DEF Lineage

LEMMA ReadKeepsLineage ==
    ASSUME Lineage, NEW x \in DOMAIN seen, ReadLedger(x)
    PROVE  Lineage'
<1>1. TypeOK /\ StandsOnReleased /\ WorkUnderWay /\ Refers /\ InstructionsSettle
  BY DEF Lineage
<1>2. /\ UNCHANGED <<stage, line, ordered, committed, arrived, sentBack, reconciling, against, outcomes>>
      /\ Len(seen[x]) < 3
  BY DEF ReadLedger, ledgers
<1>. DEFINE r == reconciling
            p == against
            got == Ledgers(r, p, x)[Len(seen[x]) + 1]
<1>3. seen' = [seen EXCEPT ![x] = Append(seen[x], got)]
  BY DEF ReadLedger
<1>4. r # NoRev
  BY <1>1 DEF WorkUnderWay
<1>5. /\ r \in Revs /\ p \in Revs \cup {NoRev} /\ p = r - 1 /\ stage[r] = "released"
      /\ OpenedFrom(p, line[r]) \/ Imported(line[r])
  BY <1>4, UnderWay
<1>6. PICK f \in Indexes(p) : DOMAIN seen = Comparisons(r, p, f)
  BY <1>4, UnderWay
<1>7. PICK a \in Revs, s \in Slots :
        /\ Ledgers(r, p, x) = <<committed[a][s], arrived[a][s], sentBack[a][s]>>
        /\ committed[a][s] \in Quantities /\ arrived[a][s] \in Nat /\ sentBack[a][s] \in Nat
  BY <1>1, <1>5, <1>6, LedgersTyped
<1>8. seen[x] \in Seq(Nat) /\ Len(seen[x]) \in 0..2
  <2>1. seen[x] \in Seq(Nat)
    BY <1>1 DEF TypeOK
  <2>2. Len(seen[x]) \in Nat
    BY <2>1
  <2>3. Len(seen[x]) < 3
    BY <1>2
  <2>4. \A n \in Nat : n < 3 => n \in 0..2
    OBVIOUS
  <2>5. Len(seen[x]) \in 0..2
    BY <2>2, <2>3, <2>4
  <2>. QED
    BY <2>1, <2>5
<1>9. committed[a][s] \in Nat
  BY <1>7, LineageAssumption DEF Quantities
<1>10. got \in Nat
  <2>1. CASE Len(seen[x]) = 0
    <3>1. got = committed[a][s]
      BY <1>7, <2>1
    <3>. QED
      BY <1>9, <3>1
  <2>2. CASE Len(seen[x]) = 1
    <3>1. got = arrived[a][s]
      BY <1>7, <2>2
    <3>. QED
      BY <1>7, <3>1
  <2>3. CASE Len(seen[x]) = 2
    <3>1. got = sentBack[a][s]
      BY <1>7, <2>3
    <3>. QED
      BY <1>7, <3>1
  <2>. QED
    BY <1>8, <2>1, <2>2, <2>3
<1>11. /\ seen'[x] \in Seq(Nat) /\ Len(seen'[x]) = Len(seen[x]) + 1
       /\ \A i \in 1..Len(seen[x]) : seen'[x][i] = seen[x][i]
       /\ seen'[x][Len(seen[x]) + 1] = got
  <2>. HIDE DEF got
  <2>. QED
    BY <1>3, <1>8, <1>10
<1>12. DOMAIN seen' = DOMAIN seen /\ \A y \in DOMAIN seen \ {x} : seen'[y] = seen[y]
  BY <1>3
<1>13. TypeOK'
  <2>1. \A y \in DOMAIN seen' : seen'[y] \in Seq(Nat) /\ Len(seen'[y]) <= 3
    <3>1. Len(seen'[x]) <= 3
      BY <1>8, <1>11
    <3>2. \A y \in DOMAIN seen : seen[y] \in Seq(Nat) /\ Len(seen[y]) <= 3
      BY <1>1 DEF TypeOK
    <3>. QED
      BY <1>11, <1>12, <3>1, <3>2
  <2>. QED
    BY <1>1, <1>2, <2>1 DEF TypeOK
<1>14. StandsOnReleased'
  BY <1>1, <1>2 DEF StandsOnReleased, OpenedFrom, Imported, Rows
<1>15. WorkUnderWay'
  <2>1. f \in Indexes(p)' /\ Comparisons(r, p, f)' = Comparisons(r, p, f)
    BY <1>2 DEF Indexes, Rows, Comparisons, Previous
  <2>2. \A y \in DOMAIN seen : Ledgers(r, p, y)' = Ledgers(r, p, y)
    BY <1>2 DEF Ledgers, LedgerRow
  <2>3. \A y \in DOMAIN seen :
            /\ Len(seen[y]) >= 1 => seen[y][1] \in Quantities
            /\ Len(seen[y]) >= 2 => seen[y][2] <= Ledgers(r, p, y)[2]
    BY <1>1, <1>4 DEF WorkUnderWay
  <2>4. /\ Len(seen'[x]) >= 1 => seen'[x][1] \in Quantities
        /\ Len(seen'[x]) >= 2 => seen'[x][2] <= Ledgers(r, p, x)[2]
    <3>1. CASE Len(seen[x]) = 0
      <4>1. Len(seen'[x]) = 1 /\ seen'[x][1] = Ledgers(r, p, x)[1]
        BY <1>11, <3>1
      <4>. QED
        BY <1>7, <4>1
    <3>2. CASE Len(seen[x]) = 1
      <4>1. seen'[x][1] = seen[x][1] /\ seen'[x][2] = Ledgers(r, p, x)[2]
        BY <1>11, <3>2
      <4>2. Ledgers(r, p, x)[2] \in Nat
        BY <1>7
      <4>3. seen[x][1] \in Quantities
        <5>1. Len(seen[x]) >= 1
          BY <3>2
        <5>. QED
          BY <2>3, <5>1
      <4>. QED
        BY <4>1, <4>2, <4>3
    <3>3. CASE Len(seen[x]) = 2
      <4>1. seen'[x][1] = seen[x][1] /\ seen'[x][2] = seen[x][2]
        BY <1>11, <3>3
      <4>2. seen[x][1] \in Quantities /\ seen[x][2] <= Ledgers(r, p, x)[2]
        BY <2>3, <3>3
      <4>. QED
        BY <4>1, <4>2
    <3>. QED
      BY <1>8, <3>1, <3>2, <3>3
  <2>. HIDE DEF got
  <2>. QED
    BY <1>2, <1>4, <1>5, <1>6, <1>12, <2>1, <2>2, <2>3, <2>4 DEF WorkUnderWay
<1>16. Refers' /\ InstructionsSettle'
  BY <1>1, <1>2 DEF Refers, InstructionsSettle
<1>. QED
  BY <1>13, <1>14, <1>15, <1>16 DEF Lineage

LEMMA PersistKeepsLineage ==
    ASSUME Lineage, Persist
    PROVE  Lineage'
<1>1. TypeOK /\ StandsOnReleased /\ WorkUnderWay /\ Refers /\ InstructionsSettle
  BY DEF Lineage
<1>. DEFINE r == reconciling
            p == against
            outs == {Outcome(r, p, x, seen[x]) : x \in DOMAIN seen}
<1>2. /\ r # NoRev /\ \A x \in DOMAIN seen : Len(seen[x]) = 3
      /\ UNCHANGED <<stage, line, ordered, committed, arrived, sentBack>>
      /\ reconciling' = NoRev /\ against' = NoRev /\ seen' = <<>>
      /\ outcomes' = [outcomes EXCEPT ![r] = outs]
  BY DEF Persist, StopWork, ledgers
<1>3. /\ r \in Revs /\ p \in Revs \cup {NoRev} /\ p = r - 1 /\ stage[r] = "released"
      /\ OpenedFrom(p, line[r]) \/ Imported(line[r])
  BY <1>2, UnderWay
<1>4. PICK f \in Indexes(p) : DOMAIN seen = Comparisons(r, p, f)
  BY <1>2, UnderWay
<1>5. \A x \in DOMAIN seen :
          LET o == Outcome(r, p, x, seen[x])
          IN  /\ o \in Outcomes
              /\ o.before > 0 => p \in Revs /\ o.previous \in Slots
              /\ Settled(r, o)
  <2>. SUFFICES ASSUME NEW x \in DOMAIN seen
       PROVE  LET o == Outcome(r, p, x, seen[x])
              IN  /\ o \in Outcomes
                  /\ o.before > 0 => p \in Revs /\ o.previous \in Slots
                  /\ Settled(r, o)
    OBVIOUS
  <2>1. seen[x] \in Seq(Nat) /\ Len(seen[x]) = 3
    BY <1>1, <1>2 DEF TypeOK
  <2>2. seen[x][1] \in Quantities /\ seen[x][2] <= Ledgers(r, p, x)[2]
    BY <1>1, <1>2, <2>1 DEF WorkUnderWay
  <2>. QED
    BY <1>1, <1>3, <1>4, <2>1, <2>2, OutcomeWellFormed
<1>6. \A o \in outs : o \in Outcomes /\ (o.before > 0 => p \in Revs /\ o.previous \in Slots) /\ Settled(r, o)
  BY <1>5
<1>. HIDE DEF outs
<1>7. \A q \in Revs : outcomes'[q] = IF q = r THEN outs ELSE outcomes[q]
  BY <1>1, <1>2 DEF TypeOK
<1>8. TypeOK'
  <2>1. outcomes' \in [Revs -> SUBSET Outcomes]
    BY <1>1, <1>2, <1>6 DEF TypeOK
  <2>2. DOMAIN seen' = {}
    BY <1>2
  <2>. QED
    BY <1>1, <1>2, <2>1, <2>2 DEF TypeOK
<1>9. StandsOnReleased'
  BY <1>1, <1>2, <1>3, <1>7 DEF StandsOnReleased, OpenedFrom, Imported, Rows
<1>10. WorkUnderWay'
  BY <1>2 DEF WorkUnderWay
<1>11. Refers'
  BY <1>1, <1>3, <1>6, <1>7 DEF Refers
<1>12. InstructionsSettle'
  <2>. SUFFICES ASSUME NEW q \in Revs, NEW o \in outcomes'[q] PROVE Settled(q, o)
    BY <1>2 DEF InstructionsSettle, Settled
  <2>. QED
    BY <1>1, <1>6, <1>7 DEF InstructionsSettle, Settled
<1>. QED
  BY <1>8, <1>9, <1>10, <1>11, <1>12 DEF Lineage

LEMMA InterruptedKeepsLineage ==
    ASSUME Lineage, Interrupted
    PROVE  Lineage'
<1>1. TypeOK /\ StandsOnReleased /\ Refers /\ InstructionsSettle
  BY DEF Lineage
<1>2. /\ UNCHANGED <<stage, line, ordered, committed, arrived, sentBack, outcomes>>
      /\ reconciling' = NoRev /\ against' = NoRev /\ seen' = <<>> /\ DOMAIN seen' = {}
  BY DEF Interrupted, StopWork, ledgers
<1>3. TypeOK'
  BY <1>1, <1>2 DEF TypeOK
<1>4. WorkUnderWay'
  BY <1>2 DEF WorkUnderWay
<1>5. StandsOnReleased'
  BY <1>1, <1>2 DEF StandsOnReleased, OpenedFrom, Imported, Rows
<1>6. Refers' /\ InstructionsSettle'
  BY <1>1, <1>2 DEF Refers, InstructionsSettle
<1>. QED
  BY <1>3, <1>4, <1>5, <1>6 DEF Lineage

LEMMA StepKeepsLineage == Lineage /\ [Next]_vars => Lineage'
<1>. SUFFICES ASSUME Lineage, [Next]_vars PROVE Lineage'
  OBVIOUS
<1>1. ASSUME NEW r \in Revs, Prepare(r) \/ Release(r) \/ BeginReconcile(r)
      PROVE  Lineage'
  BY <1>1, PrepareKeepsLineage, ReleaseKeepsLineage, BeginKeepsLineage
<1>2. ASSUME NEW x \in DOMAIN seen, ReadLedger(x)
      PROVE  Lineage'
  BY <1>2, ReadKeepsLineage
<1>3. CASE Persist
  BY <1>3, PersistKeepsLineage
<1>4. CASE Interrupted
  BY <1>4, InterruptedKeepsLineage
<1>5. ASSUME NEW r \in Revs, NEW s \in Slots, NEW n \in 1..MaxQty,
             Order(r, s, n) \/ ReleaseHeadroom(r, s, n) \/ Receive(r, s, n) \/ Return(r, s, n)
      PROVE  Lineage'
  BY <1>5, LedgersMove
<1>6. CASE UNCHANGED vars
  <2>1. UNCHANGED <<stage, line, ordered, committed, arrived, sentBack, reconciling, against, seen,
                    outcomes>>
    BY <1>6 DEF vars, ledgers, work
  <2>2. /\ TypeOK' <=> TypeOK
        /\ Refers' <=> Refers
        /\ InstructionsSettle' <=> InstructionsSettle
    BY <2>1 DEF TypeOK, InstructionsSettle, Refers
  <2>3. StandsOnReleased' <=> StandsOnReleased
    BY <2>1 DEF StandsOnReleased, OpenedFrom, Imported, Rows
  <2>4. WorkUnderWay' <=> WorkUnderWay
    BY <2>1 DEF WorkUnderWay, Indexes, Rows, Comparisons, Previous, Ledgers, LedgerRow
  <2>. QED
    BY <2>2, <2>3, <2>4 DEF Lineage
<1>. QED
  BY <1>1, <1>2, <1>3, <1>4, <1>5, <1>6 DEF Next

LEMMA LineageHolds == Spec => []Lineage
BY InitLineage, StepKeepsLineage, PTL DEF Spec

(* Every variable keeps its type, whatever arrives beyond the orders.      *)
THEOREM TypeCorrect == Spec => []TypeOK
<1>1. Lineage => TypeOK
  BY DEF Lineage
<1>. QED
  BY <1>1, LineageHolds, PTL

(* However orders, receipts, returns and revisions interleave with the     *)
(* queries of a reconciliation, the instructions on every reduced line     *)
(* settle what the queries returned, and send back nothing that never      *)
(* arrived.                                                                *)
THEOREM InstructionsSettleLines == Spec => []InstructionsSettle
<1>1. Lineage => InstructionsSettle
  BY DEF Lineage
<1>. QED
  BY <1>1, LineageHolds, PTL

-----------------------------------------------------------------------------
\* The verdicts for what v read, row by row.
RowOutcome(r, p, f, v, s) ==
    Outcome(r, p, <<s, Previous(r, s, f)>>, v[<<s, Previous(r, s, f)>>])

Removal(r, p, v, q) == Outcome(r, p, <<NoSlot, q>>, v[<<NoSlot, q>>])

OutcomesOf(r, p, f, v) ==
    {RowOutcome(r, p, f, v, s) : s \in Rows(r)}
    \cup {Removal(r, p, v, q) :
            q \in {f[i] : i \in DOMAIN f} \ {Previous(r, s, f) : s \in Rows(r)}}

LEMMA PersistedOutcomes ==
    ASSUME Lineage, Persist
    PROVE  \E f \in Indexes(against) :
              outcomes' = [outcomes EXCEPT ![reconciling] =
                              OutcomesOf(reconciling, against, f, seen)]
<1>1. PICK f \in Indexes(against) : DOMAIN seen = Comparisons(reconciling, against, f)
  BY UnderWay DEF Persist
<1>2. {Outcome(reconciling, against, x, seen[x]) : x \in Comparisons(reconciling, against, f)}
        = OutcomesOf(reconciling, against, f, seen)
  BY Zenon DEF Comparisons, OutcomesOf, RowOutcome, Removal
<1>. QED
  BY <1>1, <1>2 DEF Persist

(* Two rows of a revision are never compared with the same row below, when *)
(* neither revision lists an item twice.                                   *)
LEMMA MatchIsInjective ==
    ASSUME TypeOK, NEW r \in Revs, NEW p \in Revs, NEW f \in Indexes(p),
           OpenedFrom(p, line[r]) \/ Imported(line[r]),
           ListsOnce(line[p]), ListsOnce(line[r]),
           NEW s \in Rows(r), NEW t \in Rows(r),
           Previous(r, s, f) = Previous(r, t, f), Previous(r, s, f) # NoSlot
    PROVE  s = t
<1>. USE LineageAssumption
<1>1. p # NoRev /\ r # NoRev
  BY DEF Revs, NoRev
<1>2. \A a \in Rows(r) : a \in Slots /\ line[r][a] # NoLine /\ line[r][a] \in Lines
  BY <1>1 DEF Rows, TypeOK
<1>3. \A a \in Rows(p) : a \in Slots /\ line[p][a] # NoLine /\ line[p][a] \in Lines
  BY <1>1 DEF Rows, TypeOK
<1>4. \A i \in DOMAIN f : f[i] \in Rows(p) /\ line[p][f[i]].item = i
  BY DEF Indexes
<1>5. CASE Imported(line[r])
  <2>1. ASSUME NEW a \in Rows(r), Previous(r, a, f) # NoSlot
        PROVE  Previous(r, a, f) = f[line[r][a].item] /\ line[r][a].item \in DOMAIN f
    <3>1. ~line[r][a].copied
      BY <1>2, <1>5 DEF Imported, Unlinked, Lines, NoLine
    <3>. QED
      BY <2>1, <3>1 DEF Previous
  <2>2. line[r][s].item = line[r][t].item
    BY <1>4, <2>1
  <2>. QED
    BY <1>2, <2>2 DEF ListsOnce
<1>6. CASE OpenedFrom(p, line[r])
  <2>1. ASSUME NEW a \in Rows(r), Previous(r, a, f) # NoSlot
        PROVE  Previous(r, a, f) = a
    <3>1. CASE line[r][a].copied
      BY <3>1 DEF Previous
    <3>2. CASE ~line[r][a].copied
      <4>. DEFINE b == f[line[r][a].item]
      <4>1. b \in Rows(p) /\ line[p][b].item = line[r][a].item
        BY <1>4, <2>1, <3>2 DEF Previous
      <4>2. line[r][b] \in Lines /\ line[r][b].copied /\ line[r][b].item = line[r][a].item
        BY <1>3, <1>6, <4>1 DEF OpenedFrom
      <4>3. b = a
        <5>1. line[r][b] # NoLine
          BY <4>2 DEF Lines, NoLine
        <5>. QED
          BY <1>2, <1>3, <4>1, <4>2, <5>1 DEF ListsOnce
      <4>. QED
        BY <3>2, <4>2, <4>3
    <3>. QED
      BY <3>1, <3>2
  <2>. QED
    BY <2>1
<1>. QED
  BY <1>5, <1>6

(* So each row below is in exactly one verdict.                            *)
LEMMA EachRowOneVerdict ==
    ASSUME TypeOK, NEW r \in Revs, NEW p \in Revs, NEW f \in Indexes(p),
           OpenedFrom(p, line[r]) \/ Imported(line[r]),
           ListsOnce(line[p]), ListsOnce(line[r]), NEW q \in Rows(p), NEW v
    PROVE  \E o \in OutcomesOf(r, p, f, v) :
              \A n \in OutcomesOf(r, p, f, v) : n.previous = q <=> n = o
<1>. USE LineageAssumption
<1>1. p # NoRev
  BY DEF Revs, NoRev
<1>2. q \in Slots /\ line[p][q] # NoLine /\ q # NoSlot
  BY <1>1 DEF Rows, NoSlot
<1>3. q \in {f[i] : i \in DOMAIN f}
  <2>1. line[p][q].item \in DOMAIN f
    BY DEF Indexes
  <2>2. /\ f[line[p][q].item] \in Rows(p)
        /\ line[p][f[line[p][q].item]].item = line[p][q].item
    BY <2>1 DEF Indexes
  <2>3. f[line[p][q].item] = q
    BY <1>1, <1>2, <2>2 DEF ListsOnce, Rows
  <2>. QED
    BY <2>1, <2>3
<1>4. \A s \in Rows(r) : RowOutcome(r, p, f, v, s).previous = Previous(r, s, f)
  BY DEF RowOutcome, Outcome
<1>5. \A x \in Slots : Removal(r, p, v, x).previous = x
  BY DEF Removal, Outcome
<1>6. \A n \in OutcomesOf(r, p, f, v) :
        \/ \E s \in Rows(r) : n = RowOutcome(r, p, f, v, s)
        \/ \E x \in Rows(p) : n = Removal(r, p, v, x) /\ \A s \in Rows(r) : Previous(r, s, f) # x
  BY DEF OutcomesOf, Indexes
<1>7. Rows(p) \subseteq Slots
  BY <1>1 DEF Rows
<1>8. CASE \E s \in Rows(r) : Previous(r, s, f) = q
  <2>1. PICK s \in Rows(r) : Previous(r, s, f) = q
    BY <1>8
  <2>. DEFINE o == RowOutcome(r, p, f, v, s)
  <2>2. o \in OutcomesOf(r, p, f, v) /\ o.previous = q
    BY <1>4, <2>1 DEF OutcomesOf
  <2>3. ASSUME NEW n \in OutcomesOf(r, p, f, v), n.previous = q
        PROVE  n = o
    <3>1. PICK t \in Rows(r) : n = RowOutcome(r, p, f, v, t)
      BY <1>5, <1>6, <1>7, <2>1, <2>3
    <3>2. Previous(r, t, f) = q
      BY <1>4, <2>3, <3>1
    <3>3. t = s
      BY <1>2, <2>1, <3>2, MatchIsInjective
    <3>. QED
      BY <3>1, <3>3
  <2>. HIDE DEF o
  <2>. QED
    BY <2>2, <2>3
<1>9. CASE \A s \in Rows(r) : Previous(r, s, f) # q
  <2>. DEFINE o == Removal(r, p, v, q)
  <2>1. o \in OutcomesOf(r, p, f, v) /\ o.previous = q
    BY <1>2, <1>3, <1>5, <1>9 DEF OutcomesOf
  <2>2. ASSUME NEW n \in OutcomesOf(r, p, f, v), n.previous = q
        PROVE  n = o
    BY <1>4, <1>5, <1>6, <1>7, <1>9, <2>2
  <2>. HIDE DEF o
  <2>. QED
    BY <2>1, <2>2
<1>. QED
  BY <1>8, <1>9

\* Only a preparation changes lines, and only Persist writes verdicts.
LEMMA StepMoves ==
    ASSUME [Next]_vars
    PROVE  \/ UNCHANGED <<line, outcomes>>
           \/ \E r \in Revs : Prepare(r)
           \/ Persist
<1>1. ASSUME NEW r \in Revs, Release(r) \/ BeginReconcile(r) PROVE UNCHANGED <<line, outcomes>>
  BY <1>1 DEF Release, BeginReconcile
<1>2. ASSUME NEW x \in DOMAIN seen, ReadLedger(x) PROVE UNCHANGED <<line, outcomes>>
  BY <1>2 DEF ReadLedger
<1>3. Interrupted => UNCHANGED <<line, outcomes>>
  BY DEF Interrupted
<1>4. ASSUME NEW r \in Revs, NEW s \in Slots, NEW n \in 1..MaxQty,
             Order(r, s, n) \/ ReleaseHeadroom(r, s, n) \/ Receive(r, s, n) \/ Return(r, s, n)
      PROVE  UNCHANGED <<line, outcomes>>
  BY <1>4 DEF Order, ReleaseHeadroom, Receive, Return
<1>5. UNCHANGED vars => UNCHANGED <<line, outcomes>>
  BY DEF vars
<1>. QED
  BY <1>1, <1>2, <1>3, <1>4, <1>5 DEF Next

LEMMA InitListsOnce == Init => AllListOnce /\ ComparedOnce
BY DEF Init, AllListOnce, ListsOnce, ComparedOnce

LEMMA StepListsOnce == Lineage /\ AllListOnce /\ [Next]_vars => AllListOnce'
<1>. SUFFICES ASSUME Lineage, AllListOnce, [Next]_vars, NEW q \in Revs
     PROVE  Duplicates \/ ListsOnce(line'[q])
  BY DEF AllListOnce
<1>1. ASSUME NEW r \in Revs, Prepare(r)
      PROVE  Duplicates \/ ListsOnce(line'[q])
  <2>1. PICK content \in [Slots -> Lines \cup {NoLine}] :
          /\ Duplicates \/ ListsOnce(content)
          /\ line' = [line EXCEPT ![r] = content]
    BY <1>1 DEF Prepare
  <2>2. line'[q] = IF q = r THEN content ELSE line[q]
    BY <2>1 DEF Lineage, TypeOK
  <2>. QED
    BY <2>1, <2>2 DEF AllListOnce
<1>2. CASE UNCHANGED line
  BY <1>2 DEF AllListOnce
<1>3. [Next]_vars => UNCHANGED line \/ \E r \in Revs : Prepare(r)
  BY StepMoves DEF Persist
<1>. QED
  BY <1>1, <1>2, <1>3

LEMMA StepComparesOnce ==
    ~Duplicates /\ Lineage /\ AllListOnce /\ ComparedOnce /\ [Next]_vars => ComparedOnce'
<1>. SUFFICES ASSUME ~Duplicates, Lineage, AllListOnce, ComparedOnce, [Next]_vars,
                     NEW q \in Revs \ {0}, outcomes'[q] # {}
     PROVE  \A x \in Rows(q - 1)' : \E o \in outcomes'[q] :
                \A n \in outcomes'[q] : n.previous = x <=> n = o
  BY DEF ComparedOnce
<1>. DEFINE Verdicted == \A x \in Rows(q - 1) : \E o \in outcomes'[q] :
                             \A n \in outcomes'[q] : n.previous = x <=> n = o
<1>0. TypeOK /\ StandsOnReleased
  BY DEF Lineage
<1>1. q \in Revs /\ q > 0 /\ q - 1 \in Revs
  BY LineageAssumption DEF Revs
<1>2. ASSUME outcomes'[q] = outcomes[q]
      PROVE  Verdicted
  BY <1>2 DEF ComparedOnce
<1>3. ASSUME NEW r \in Revs, Prepare(r)
      PROVE  Verdicted /\ Rows(q - 1)' = Rows(q - 1)
  <2>1. outcomes' = outcomes /\ stage[r] = "absent"
    BY <1>3 DEF Prepare
  <2>2. stage[q] = "released" /\ stage[q - 1] = "released"
    BY <1>0, <1>1, <2>1 DEF StandsOnReleased
  <2>3. line'[q - 1] = line[q - 1]
    BY <1>0, <1>1, <1>3, <2>1, <2>2 DEF Prepare, TypeOK
  <2>. QED
    BY <1>2, <2>1, <2>3 DEF Rows
<1>4. ASSUME Persist
      PROVE  Verdicted /\ Rows(q - 1)' = Rows(q - 1)
  <2>. DEFINE r == reconciling
              p == against
  <2>1. UNCHANGED <<stage, line>> /\ r # NoRev
    BY <1>4 DEF Persist
  <2>2. /\ r \in Revs /\ stage[r] = "released" /\ p \in Revs \cup {NoRev} /\ p = r - 1
        /\ (r = 0 => p = NoRev) /\ (r > 0 => p \in Revs)
        /\ OpenedFrom(p, line[r]) \/ Imported(line[r])
    BY <2>1, UnderWay
  <2>3. PICK f \in Indexes(p) : outcomes' = [outcomes EXCEPT ![r] = OutcomesOf(r, p, f, seen)]
    BY <1>4, PersistedOutcomes
  <2>4. CASE q = r
    <3>1. p = q - 1 /\ p \in Revs
      BY <1>1, <2>2, <2>4
    <3>2. OpenedFrom(p, line[q]) \/ Imported(line[q])
      BY <2>2, <2>4
    <3>3. ListsOnce(line[p]) /\ ListsOnce(line[q])
      BY <1>1, <3>1 DEF AllListOnce
    <3>4. outcomes'[q] = OutcomesOf(q, p, f, seen)
      BY <1>0, <2>3, <2>4 DEF TypeOK
    <3>5. \A x \in Rows(p) : \E o \in OutcomesOf(q, p, f, seen) :
              \A n \in OutcomesOf(q, p, f, seen) : n.previous = x <=> n = o
      BY <1>0, <1>1, <3>1, <3>2, <3>3, EachRowOneVerdict
    <3>. QED
      BY <2>1, <3>1, <3>4, <3>5 DEF Rows
  <2>5. CASE q # r
    <3>1. outcomes'[q] = outcomes[q]
      BY <1>0, <2>3, <2>5 DEF TypeOK
    <3>. QED
      BY <1>2, <2>1, <3>1 DEF Rows
  <2>. QED
    BY <2>4, <2>5
<1>5. ASSUME UNCHANGED <<line, outcomes>>
      PROVE  Verdicted /\ Rows(q - 1)' = Rows(q - 1)
  BY <1>2, <1>5 DEF Rows
<1>6. \/ UNCHANGED <<line, outcomes>>
      \/ \E r \in Revs : Prepare(r)
      \/ Persist
  BY StepMoves
<1>. QED
  BY <1>3, <1>4, <1>5, <1>6

(* Where no revision lists an item twice, every line of the revision below *)
(* is compared with exactly one line or is one removal, for any BOQ.       *)
THEOREM EveryLineComparedOnce ==
    ASSUME ~Duplicates
    PROVE  Spec => []ComparedOnce
<1>1. Lineage /\ AllListOnce /\ ComparedOnce /\ [Next]_vars => AllListOnce' /\ ComparedOnce'
  BY StepListsOnce, StepComparesOnce
<1>. QED
  BY <1>1, InitListsOnce, LineageHolds, PTL DEF Spec

-----------------------------------------------------------------------------
(* Net changes.  Where nothing is listed twice, a revision has at most one *)
(* verdict on each item, and its net change leads from what the revision   *)
(* below lists to what it lists itself.                                    *)

Sheets == [Slots -> Lines \cup {NoLine}]
Nothing == [s \in Slots |-> NoLine]

On(content, s, i) == content[s] # NoLine /\ content[s].item = i

\* What a revision with this content lists of an item.
Lists(content, i) ==
    IF \E s \in Slots : On(content, s, i)
    THEN content[CHOOSE s \in Slots : On(content, s, i)].qty
    ELSE 0

Below(r) == IF r = 0 THEN Nothing ELSE line[r - 1]

ItemOf(o, below, content) ==
    IF o.slot # NoSlot THEN content[o.slot].item ELSE below[o.previous].item

Leads(o, below, content, i) == o.new = Lists(content, i) /\ o.before = Lists(below, i)

SingleNet(X, below, content, i) ==
    \/ \E o : X = {o} /\ Leads(o, below, content, i)
    \/ X = {} /\ Lists(content, i) = 0 /\ Lists(below, i) = 0

EachItemOnce ==
    \A r \in Revs : outcomes[r] # {} =>
        /\ r = 0 => \A o \in outcomes[r] : o.slot # NoSlot
        /\ \A i \in Items :
            SingleNet({o \in outcomes[r] : ItemOf(o, Below(r), line[r]) = i},
                      Below(r), line[r], i)

LEMMA ListsRow ==
    ASSUME NEW content \in Sheets, ListsOnce(content), NEW i,
           NEW s \in Slots, On(content, s, i)
    PROVE  Lists(content, i) = content[s].qty
<1>1. \A t \in Slots : On(content, t, i) => t = s
  BY DEF ListsOnce, On
<1>2. (CHOOSE t \in Slots : On(content, t, i)) = s
  BY <1>1
<1> QED BY <1>2 DEF Lists

LEMMA ListsNone ==
    ASSUME NEW content, NEW i, \A s \in Slots : ~On(content, s, i)
    PROVE  Lists(content, i) = 0
  BY DEF Lists

\* The previous row of a row is of the same item.
LEMMA PreviousMatches ==
    ASSUME TypeOK, NEW r \in Revs, NEW p \in Revs \cup {NoRev}, NEW f \in Indexes(p),
           OpenedFrom(p, line[r]) \/ Imported(line[r]),
           NEW s \in Rows(r), Previous(r, s, f) # NoSlot
    PROVE  /\ Previous(r, s, f) \in Rows(p)
           /\ line[p][Previous(r, s, f)].item = line[r][s].item
<1>1. s \in Slots /\ line[r][s] # NoLine /\ r # NoRev /\ line[r][s] \in Lines
  BY LineageAssumption DEF Rows, TypeOK, Revs, NoRev
<1>2. CASE line[r][s].copied
  <2>1. ~Imported(line[r])
    BY <1>1, <1>2 DEF Imported, Unlinked, Lines
  <2>2. s \in Rows(p)
    BY <1>1, <1>2, <2>1 DEF OpenedFrom, Unlinked, Lines
  <2>3. line[r][s].item = line[p][s].item
    BY <1>1, <2>1, <2>2 DEF OpenedFrom
  <2> QED BY <1>2, <2>2, <2>3 DEF Previous
<1>3. CASE ~line[r][s].copied
  <2>1. line[r][s].item \in DOMAIN f /\ Previous(r, s, f) = f[line[r][s].item]
    BY <1>3 DEF Previous
  <2> QED BY <2>1 DEF Indexes
<1> QED BY <1>2, <1>3

\* Where the revision below lists the item, that is the previous row.
LEMMA PreviousOfListed ==
    ASSUME TypeOK, NEW r \in Revs, NEW p \in Revs, NEW f \in Indexes(p),
           OpenedFrom(p, line[r]) \/ Imported(line[r]), ListsOnce(line[p]),
           NEW t \in Rows(p)
    PROVE  /\ line[p][t].item \in DOMAIN f /\ f[line[p][t].item] = t
           /\ \A s \in Rows(r) : line[r][s].item = line[p][t].item => Previous(r, s, f) = t
<1> DEFINE i == line[p][t].item
<1>1. p # NoRev
  BY LineageAssumption DEF Revs, NoRev
<1>2. i \in DOMAIN f /\ f[i] \in Rows(p) /\ line[p][f[i]].item = i
  BY DEF Indexes
<1>3. \A x \in Rows(p) : line[p][x].item = i => x = t
  BY <1>1 DEF Rows, ListsOnce
<1>4. f[i] = t
  BY <1>2, <1>3
<1>5. ASSUME NEW s \in Rows(r), line[r][s].item = i
      PROVE  Previous(r, s, f) = t
  <2>1. CASE Previous(r, s, f) # NoSlot
    BY <1>3, <1>5, <2>1, PreviousMatches
  <2>2. CASE Previous(r, s, f) = NoSlot
    <3>1. s # NoSlot /\ t # NoSlot
      BY <1>1, LineageAssumption DEF Rows, NoSlot, Revs, NoRev
    <3> QED BY <1>2, <1>4, <1>5, <2>2, <3>1 DEF Previous
  <2> QED BY <2>1, <2>2
<1> QED BY <1>2, <1>4, <1>5

\* What the outcomes of a reconciliation are of, and what they say.
LEMMA OutcomeFields ==
    ASSUME TypeOK, NEW r \in Revs, NEW p \in Revs \cup {NoRev}, NEW f \in Indexes(p), NEW v
    PROVE  /\ \A s \in Rows(r) :
                LET o == RowOutcome(r, p, f, v, s)
                IN  /\ o.slot = s /\ s # NoSlot /\ o.new = line[r][s].qty
                    /\ o.before = IF Previous(r, s, f) = NoSlot THEN 0
                                  ELSE line[p][Previous(r, s, f)].qty
           /\ \A q : q # NoSlot =>
                  /\ Removal(r, p, v, q).slot = NoSlot /\ Removal(r, p, v, q).previous = q
                  /\ Removal(r, p, v, q).new = 0 /\ Removal(r, p, v, q).before = line[p][q].qty
<1>1. \A s \in Rows(r) : s # NoSlot
  BY LineageAssumption DEF Rows, NoSlot
<1>2. \A x, read :
        LET o == Outcome(r, p, x, read)
        IN  /\ o.slot = x[1] /\ o.previous = x[2]
            /\ o.before = IF x[2] = NoSlot THEN 0 ELSE line[p][x[2]].qty
            /\ o.new = IF x[1] = NoSlot THEN 0 ELSE line[r][x[1]].qty
  BY DEF Outcome
<1>3. ASSUME NEW s \in Rows(r)
      PROVE  LET o == RowOutcome(r, p, f, v, s)
             IN  /\ o.slot = s /\ s # NoSlot /\ o.new = line[r][s].qty
                 /\ o.before = IF Previous(r, s, f) = NoSlot THEN 0
                               ELSE line[p][Previous(r, s, f)].qty
  BY <1>1, <1>2 DEF RowOutcome
<1>4. ASSUME NEW q, q # NoSlot
      PROVE  Removal(r, p, v, q).slot = NoSlot /\ Removal(r, p, v, q).previous = q
             /\ Removal(r, p, v, q).new = 0 /\ Removal(r, p, v, q).before = line[p][q].qty
  BY <1>2, <1>4 DEF Removal
<1> QED BY <1>3, <1>4

LEMMA ReconciledOnce ==
    ASSUME TypeOK, NEW r \in Revs, NEW p \in Revs \cup {NoRev}, NEW f \in Indexes(p),
           NEW v, p = r - 1, OpenedFrom(p, line[r]) \/ Imported(line[r]),
           ListsOnce(line[r]), r > 0 => p \in Revs /\ ListsOnce(line[p]), r = 0 => p = NoRev
    PROVE  /\ r = 0 => \A o \in OutcomesOf(r, p, f, v) : o.slot # NoSlot
           /\ \A i \in Items :
               SingleNet({o \in OutcomesOf(r, p, f, v) : ItemOf(o, Below(r), line[r]) = i},
                         Below(r), line[r], i)
<1> DEFINE row(s) == RowOutcome(r, p, f, v, s)
           removed == {f[i] : i \in DOMAIN f} \ {Previous(r, s, f) : s \in Rows(r)}
           outs == OutcomesOf(r, p, f, v)
<1>1. r \in Nat /\ r # NoRev /\ line[r] \in Sheets /\ Rows(r) = {s \in Slots : line[r][s] # NoLine}
  BY LineageAssumption DEF Revs, NoRev, TypeOK, Rows, Sheets
<1>2. outs = {row(s) : s \in Rows(r)} \cup {Removal(r, p, v, q) : q \in removed}
  BY DEF OutcomesOf
<1>3. \A s \in Rows(r) :
          /\ row(s).slot = s /\ s # NoSlot /\ row(s).new = line[r][s].qty
          /\ row(s).before = IF Previous(r, s, f) = NoSlot THEN 0
                             ELSE line[p][Previous(r, s, f)].qty
  BY OutcomeFields
<1>4. \A q \in Rows(p) :
          /\ Removal(r, p, v, q).slot = NoSlot /\ Removal(r, p, v, q).previous = q
          /\ Removal(r, p, v, q).new = 0 /\ Removal(r, p, v, q).before = line[p][q].qty
  <2>1. \A q \in Rows(p) : q # NoSlot
    BY LineageAssumption DEF Rows, NoSlot
  <2> QED BY <2>1, OutcomeFields
<1>5. removed \subseteq Rows(p)
  BY DEF Indexes
<1>6. r = 0 => removed = {}
  BY <1>5 DEF Rows
<1>7. r = 0 => \A o \in outs : o.slot # NoSlot
  BY <1>2, <1>3, <1>6
<1> HIDE DEF row, removed, outs
<1>8. ASSUME NEW i \in Items
      PROVE  SingleNet({o \in outs : ItemOf(o, Below(r), line[r]) = i}, Below(r), line[r], i)
  <2> DEFINE X == {o \in outs : ItemOf(o, Below(r), line[r]) = i}
  <2>1. \A s \in Rows(r) : row(s) \in outs /\ ItemOf(row(s), Below(r), line[r]) = line[r][s].item
    BY <1>2, <1>3 DEF ItemOf
  <2>2. \A q \in removed : Removal(r, p, v, q) \in outs
                           /\ ItemOf(Removal(r, p, v, q), Below(r), line[r]) = Below(r)[q].item
    BY <1>2, <1>4, <1>5 DEF ItemOf
  <2>3. \A o \in X : \/ \E s \in Rows(r) : On(line[r], s, i) /\ o = row(s)
                     \/ \E q \in removed : Below(r)[q].item = i /\ o = Removal(r, p, v, q)
    BY <1>1, <1>2, <2>1, <2>2 DEF On
  <2>4. \A s, t \in Rows(r) : On(line[r], s, i) /\ On(line[r], t, i) => s = t
    BY <1>1 DEF ListsOnce, On
  <2>5. \A s \in Slots : On(line[r], s, i) =>
            s \in Rows(r) /\ row(s) \in X /\ Lists(line[r], i) = line[r][s].qty
    BY <1>1, <2>1, ListsRow DEF On
  <2>6. (\A s \in Slots : ~On(line[r], s, i)) => Lists(line[r], i) = 0
    BY ListsNone
  <2>7. Below(r) \in Sheets /\ ListsOnce(Below(r))
    <3>1. CASE r = 0
      BY <3>1 DEF Below, Nothing, Sheets, ListsOnce
    <3>2. CASE r > 0
      BY <1>1, <3>2 DEF Below, Sheets, TypeOK
    <3> QED BY <1>1, <3>1, <3>2
  <2>8. (\A s \in Slots : ~On(Below(r), s, i)) => Lists(Below(r), i) = 0
    BY ListsNone
  <2>9. CASE \E t \in Slots : On(Below(r), t, i)
    <3>1. PICK t \in Slots : On(Below(r), t, i)
      BY <2>9
    <3>2. Lists(Below(r), i) = Below(r)[t].qty
      BY <2>7, <3>1, ListsRow
    <3>3. r > 0 /\ p \in Revs /\ Below(r) = line[p] /\ t \in Rows(p) /\ line[p][t].item = i
      BY <1>1, <3>1, LineageAssumption DEF Below, On, Nothing, Rows, Revs, NoRev
    <3>4. /\ i \in DOMAIN f /\ f[i] = t
          /\ \A s \in Rows(r) : line[r][s].item = i => Previous(r, s, f) = t
      BY <3>3, PreviousOfListed
    <3>5. \A q \in removed : Below(r)[q].item = i => q = t
      <4>1. p # NoRev /\ \A q \in Rows(p) : q \in Slots /\ line[p][q] # NoLine
        BY <3>3, LineageAssumption DEF Rows, Revs, NoRev
      <4> QED BY <1>5, <2>7, <3>3, <4>1 DEF ListsOnce
    <3>6. CASE \E s \in Slots : On(line[r], s, i)
      <4>1. PICK s \in Slots : On(line[r], s, i)
        BY <3>6
      <4>2. Previous(r, s, f) = t /\ t \notin removed /\ t # NoSlot
        <5>1. Previous(r, s, f) = t
          BY <2>5, <3>4, <4>1 DEF On
        <5> QED BY <2>5, <4>1, <5>1, LineageAssumption DEF removed, NoSlot
      <4>3. X = {row(s)}
        BY <2>3, <2>4, <2>5, <3>5, <4>1, <4>2
      <4>4. Leads(row(s), Below(r), line[r], i)
        BY <1>3, <2>5, <3>2, <3>3, <4>1, <4>2 DEF Leads
      <4> QED BY <4>3, <4>4 DEF SingleNet
    <3>7. CASE \A s \in Slots : ~On(line[r], s, i)
      <4>1. \A s \in Rows(r) : Previous(r, s, f) # t
        <5> SUFFICES ASSUME NEW s \in Rows(r), Previous(r, s, f) = t PROVE FALSE
          OBVIOUS
        <5>1. t # NoSlot
          BY LineageAssumption DEF NoSlot
        <5>2. line[p][Previous(r, s, f)].item = line[r][s].item
          BY <3>3, <5>1, PreviousMatches
        <5> QED BY <1>1, <3>3, <3>7, <5>2 DEF On
      <4>2. t \in removed
        BY <3>4, <4>1 DEF removed
      <4>3. X = {Removal(r, p, v, t)}
        <5>1. Removal(r, p, v, t) \in X
          BY <2>2, <3>3, <4>2
        <5>2. \A o \in X : o = Removal(r, p, v, t)
          BY <1>1, <2>3, <3>5, <3>7
        <5> QED BY <5>1, <5>2
      <4>4. Leads(Removal(r, p, v, t), Below(r), line[r], i)
        BY <1>4, <2>6, <3>2, <3>3, <3>7 DEF Leads
      <4> QED BY <4>3, <4>4 DEF SingleNet
    <3> QED BY <3>6, <3>7
  <2>10. CASE \A t \in Slots : ~On(Below(r), t, i)
    <3>1. \A q \in removed : Below(r)[q].item # i
      <4> SUFFICES ASSUME NEW q \in removed, Below(r)[q].item = i PROVE FALSE
        OBVIOUS
      <4>1. r > 0 /\ q \in Rows(p) /\ p \in Revs
        BY <1>1, <1>5, <1>6
      <4>2. p # NoRev /\ q \in Slots /\ line[p][q] # NoLine /\ Below(r) = line[p]
        BY <1>1, <4>1, LineageAssumption DEF Rows, Revs, NoRev, Below
      <4> QED BY <2>10, <4>2 DEF On
    <3>2. CASE \E s \in Slots : On(line[r], s, i)
      <4>1. PICK s \in Slots : On(line[r], s, i)
        BY <3>2
      <4>2. s \in Rows(r) /\ line[r][s].item = i
        BY <2>5, <4>1 DEF On
      <4>3. Previous(r, s, f) = NoSlot
        <5> SUFFICES ASSUME Previous(r, s, f) # NoSlot PROVE FALSE
          OBVIOUS
        <5>1. Previous(r, s, f) \in Rows(p) /\ line[p][Previous(r, s, f)].item = i
          BY <4>2, PreviousMatches
        <5>2. r > 0 /\ p \in Revs
          BY <1>1, <5>1 DEF Rows
        <5>3. p # NoRev /\ Below(r) = line[p]
          BY <1>1, <5>2, LineageAssumption DEF Revs, NoRev, Below
        <5> QED BY <2>10, <5>1, <5>3 DEF On, Rows
      <4>4. X = {row(s)}
        BY <2>3, <2>4, <2>5, <3>1, <4>1
      <4>5. Leads(row(s), Below(r), line[r], i)
        BY <1>3, <2>5, <2>8, <2>10, <4>1, <4>2, <4>3 DEF Leads
      <4> QED BY <4>4, <4>5 DEF SingleNet
    <3>3. CASE \A s \in Slots : ~On(line[r], s, i)
      <4>1. X = {}
        BY <2>3, <3>1, <3>3, <1>1
      <4> QED BY <2>6, <2>8, <2>10, <3>3, <4>1 DEF SingleNet
    <3> QED BY <3>2, <3>3
  <2> QED BY <2>9, <2>10
<1> QED BY <1>7, <1>8 DEF outs

(* The verdicts of a revision stay what they are of.                       *)
LEMMA StepItemsOnce ==
    ~Duplicates /\ Lineage /\ AllListOnce /\ EachItemOnce /\ [Next]_vars => EachItemOnce'
<1> SUFFICES ASSUME ~Duplicates, Lineage, AllListOnce, EachItemOnce, [Next]_vars,
                    NEW q \in Revs, outcomes'[q] # {}
    PROVE  /\ q = 0 => \A o \in outcomes'[q] : o.slot # NoSlot
           /\ \A i \in Items :
               SingleNet({o \in outcomes'[q] : ItemOf(o, Below(q)', line'[q]) = i},
                         Below(q)', line'[q], i)
  BY DEF EachItemOnce
<1>0. TypeOK /\ StandsOnReleased
  BY DEF Lineage
<1> DEFINE Good(outs) ==
             /\ q = 0 => \A o \in outs : o.slot # NoSlot
             /\ \A i \in Items :
                 SingleNet({o \in outs : ItemOf(o, Below(q), line[q]) = i}, Below(q), line[q], i)
<1>1. q \in Nat /\ (q > 0 => q - 1 \in Revs) /\ 0 \in Revs
  BY LineageAssumption DEF Revs
<1>2. outcomes'[q] = outcomes[q] => Good(outcomes'[q])
  BY DEF EachItemOnce
<1>3. ASSUME NEW r \in Revs, Prepare(r)
      PROVE  Good(outcomes'[q]) /\ Below(q)' = Below(q) /\ line'[q] = line[q]
  <2>1. outcomes' = outcomes /\ stage[r] = "absent"
    BY <1>3 DEF Prepare
  <2>2. stage[q] = "released" /\ (q > 0 => stage[q - 1] = "released")
    BY <1>0, <1>1, <2>1 DEF StandsOnReleased
  <2>3. line'[q] = line[q] /\ (q > 0 => line'[q - 1] = line[q - 1])
    BY <1>0, <1>1, <1>3, <2>1, <2>2 DEF Prepare, TypeOK
  <2> QED BY <1>1, <1>2, <2>1, <2>3 DEF Below
<1>4. ASSUME Persist
      PROVE  Good(outcomes'[q]) /\ Below(q)' = Below(q) /\ line'[q] = line[q]
  <2>. DEFINE r == reconciling
              p == against
  <2>1. UNCHANGED <<stage, line>> /\ r # NoRev
    BY <1>4 DEF Persist
  <2>2. /\ r \in Revs /\ stage[r] = "released" /\ p \in Revs \cup {NoRev} /\ p = r - 1
        /\ (r = 0 => p = NoRev) /\ (r > 0 => p \in Revs)
        /\ OpenedFrom(p, line[r]) \/ Imported(line[r])
    BY <2>1, UnderWay
  <2>3. PICK f \in Indexes(p) : outcomes' = [outcomes EXCEPT ![r] = OutcomesOf(r, p, f, seen)]
    BY <1>4, PersistedOutcomes
  <2>4. CASE q = r
    <3>1. p = q - 1 /\ (q = 0 => p = NoRev) /\ (q > 0 => p \in Revs)
      BY <2>2, <2>4
    <3>2. OpenedFrom(p, line[q]) \/ Imported(line[q])
      BY <2>2, <2>4
    <3>3. ListsOnce(line[q]) /\ (q > 0 => ListsOnce(line[p]))
      BY <3>1 DEF AllListOnce
    <3>4. outcomes'[q] = OutcomesOf(q, p, f, seen)
      BY <1>0, <2>3, <2>4 DEF TypeOK
    <3>5. Good(OutcomesOf(q, p, f, seen))
      BY <1>0, <2>2, <3>1, <3>2, <3>3, ReconciledOnce
    <3> HIDE DEF Good
    <3> QED BY <2>1, <3>4, <3>5 DEF Below
  <2>5. CASE q # r
    <3>1. outcomes'[q] = outcomes[q]
      BY <1>0, <2>3, <2>5 DEF TypeOK
    <3> HIDE DEF Good
    <3> QED BY <1>2, <2>1, <3>1 DEF Below
  <2> QED BY <2>4, <2>5
<1>5. ASSUME UNCHANGED <<line, outcomes>>
      PROVE  Good(outcomes'[q]) /\ Below(q)' = Below(q) /\ line'[q] = line[q]
  BY <1>2, <1>5 DEF Below
<1>6. \/ UNCHANGED <<line, outcomes>>
      \/ \E r \in Revs : Prepare(r)
      \/ Persist
  BY StepMoves
<1> QED BY <1>3, <1>4, <1>5, <1>6

-----------------------------------------------------------------------------
(* From the verdicts on an item to the sums over them.                     *)

LEMMA ListedIsLists ==
    ASSUME TypeOK, NEW r \in Revs, NEW i \in Items, ListsOnce(line[r])
    PROVE  Listed(r, i) = Lists(line[r], i) /\ Lists(line[r], i) \in Nat
<1> DEFINE X == {x \in RowsOf(i) : x[1] = r}
           qty == [x \in X |-> line[r][x[2]].qty]
<1>1. line[r] \in Sheets
  BY DEF TypeOK, Sheets
<1>2. X = {<<r, s>> : s \in {s \in Slots : On(line[r], s, i)}}
  BY DEF RowsOf, On
<1>3. Listed(r, i) = SumFunctionOnSet(qty, X)
  BY DEF Listed, SumFunction
<1> HIDE DEF X
<1>4. CASE \E s \in Slots : On(line[r], s, i)
  <2>1. PICK s \in Slots : On(line[r], s, i)
    BY <1>4
  <2>2. X = {} \cup {<<r, s>>}
    BY <1>2, <2>1 DEF ListsOnce, On
  <2>3. line[r][s].qty \in Nat
    BY <1>1, <2>1, LineageAssumption DEF Sheets, On, Lines, Quantities
  <2>4. qty[<<r, s>>] = line[r][s].qty
    BY <2>2
  <2> HIDE DEF qty
  <2>5. SumFunctionOnSet(qty, {}) = 0 /\ IsFiniteSet({})
    BY SumEmpty, FS_EmptySet
  <2>6. SumFunctionOnSet(qty, X) = 0 + qty[<<r, s>>]
    BY <2>2, <2>3, <2>4, <2>5, SumAdd
  <2>7. Lists(line[r], i) = line[r][s].qty
    BY <1>1, <2>1, ListsRow
  <2> QED BY <1>3, <2>3, <2>4, <2>6, <2>7
<1>5. CASE \A s \in Slots : ~On(line[r], s, i)
  <2>1. X = {}
    BY <1>2, <1>5
  <2>2. Lists(line[r], i) = 0
    BY <1>5, ListsNone
  <2> QED BY <1>3, <2>1, <2>2, SumEmpty
<1> QED BY <1>4, <1>5

Changes == [x \in Revs \X Outcomes |-> x[2].new - x[2].before]

\* With one more revision, the sum leads on to what that one lists.
LEMMA OneMoreRevision ==
    ASSUME TypeOK, EachItemOnce, NEW r \in Revs, outcomes[r] # {}, NEW i \in Items,
           Lists(line[r], i) \in Nat, Lists(Below(r), i) \in Nat,
           NEW S, IsFiniteSet(S), S \subseteq (0 .. r - 1) \X Outcomes,
           SumFunctionOnSet(Changes, S) = Lists(Below(r), i)
    PROVE  /\ IsFiniteSet(S \cup OutcomesOn(i, r))
           /\ S \cup OutcomesOn(i, r) \subseteq (0 .. r) \X Outcomes
           /\ SumFunctionOnSet(Changes, S \cup OutcomesOn(i, r)) = Lists(line[r], i)
<1> DEFINE X == {o \in outcomes[r] : ItemOf(o, Below(r), line[r]) = i}
<1>1. r \in 0 .. MaxRev /\ outcomes[r] \subseteq Outcomes /\ MaxRev \in Nat
  BY LineageAssumption DEF Revs, TypeOK
<1>2. \A o \in outcomes[r] : About(r, o) = ItemOf(o, Below(r), line[r])
  BY DEF EachItemOnce, About, ItemOf, Below
<1>3. OutcomesOn(i, r) = {<<r, o>> : o \in X}
  BY <1>2 DEF OutcomesOn
<1>4. SingleNet(X, Below(r), line[r], i)
  BY DEF EachItemOnce
<1>5. S \subseteq (0 .. r) \X Outcomes
  BY <1>1
<1>6. X \subseteq outcomes[r]
  OBVIOUS
<1> HIDE DEF X
<1>7. CASE X = {}
  <2>1. S \cup OutcomesOn(i, r) = S
    BY <1>3, <1>7
  <2>2. Lists(line[r], i) = Lists(Below(r), i)
    BY <1>4, <1>7 DEF SingleNet
  <2> QED BY <1>5, <2>1, <2>2
<1>8. ASSUME NEW o, X = {o}, Leads(o, Below(r), line[r], i)
      PROVE  /\ IsFiniteSet(S \cup OutcomesOn(i, r))
             /\ S \cup OutcomesOn(i, r) \subseteq (0 .. r) \X Outcomes
             /\ SumFunctionOnSet(Changes, S \cup OutcomesOn(i, r)) = Lists(line[r], i)
  <2>1. S \cup OutcomesOn(i, r) = S \cup {<<r, o>>} /\ o \in Outcomes
    BY <1>1, <1>3, <1>6, <1>8
  <2>2. <<r, o>> \notin S
    <3>1. r \notin 0 .. r - 1
      BY <1>1
    <3> QED BY <3>1
  <2>3. <<r, o>> \in Revs \X Outcomes /\ Changes[<<r, o>>] = o.new - o.before
    BY <2>1 DEF Changes
  <2>4. \A x \in S : Changes[x] \in Int
    <3>1. \A x \in S : x \in Revs \X Outcomes
      BY <1>1 DEF Revs
    <3>2. \A y \in Outcomes : y.new \in Nat /\ y.before \in Nat
      BY LineageAssumption DEF Outcomes, Quantities
    <3>3. \A x \in Revs \X Outcomes : Changes[x] = x[2].new - x[2].before /\ x[2] \in Outcomes
      BY DEF Changes
    <3> QED BY <3>1, <3>2, <3>3
  <2>5. o.new = Lists(line[r], i) /\ o.before = Lists(Below(r), i)
    BY <1>8 DEF Leads
  <2>6. Changes[<<r, o>>] \in Int
    BY <2>3, <2>5
  <2>7. SumFunctionOnSet(Changes, S \cup {<<r, o>>})
          = SumFunctionOnSet(Changes, S) + Changes[<<r, o>>]
    BY <2>2, <2>4, <2>6, SumAdd
  <2>8. IsFiniteSet(S \cup {<<r, o>>})
    BY FS_AddElement
  <2>9. S \cup {<<r, o>>} \subseteq (0 .. r) \X Outcomes
    BY <1>1, <1>5, <2>1
  <2>10. SumFunctionOnSet(Changes, S \cup {<<r, o>>}) = Lists(line[r], i)
    BY <2>3, <2>5, <2>7
  <2> QED BY <2>1, <2>8, <2>9, <2>10
<1> QED BY <1>4, <1>7, <1>8 DEF SingleNet

LEMMA NetChangesOfVerdicts ==
    ASSUME ~Duplicates, TypeOK, AllListOnce, EachItemOnce
    PROVE  NetChangesAddUp
<1> SUFFICES ASSUME NEW n \in Revs, NEW i \in Items, \A q \in 0 .. n : outcomes[q] # {}
             PROVE  NetChange(UNION {OutcomesOn(i, q) : q \in 0 .. n}) = Listed(n, i)
  BY DEF NetChangesAddUp
<1> DEFINE U(r) == UNION {OutcomesOn(i, q) : q \in 0 .. r}
           Adds(r) == /\ IsFiniteSet(U(r))
                      /\ U(r) \subseteq (0 .. r) \X Outcomes
                      /\ SumFunctionOnSet(Changes, U(r)) = Lists(line[r], i)
           T == {r \in 0 .. n : Adds(r)}
<1>1. n \in Nat /\ 0 .. n \subseteq Revs
  BY LineageAssumption DEF Revs
<1>2. \A r \in 0 .. n : Listed(r, i) = Lists(line[r], i) /\ Lists(line[r], i) \in Nat
  BY <1>1, ListedIsLists DEF AllListOnce
<1>3. 0 \in T
  <2>1. 0 \in 0 .. n /\ 0 \in Revs /\ outcomes[0] # {} /\ Lists(line[0], i) \in Nat
    BY <1>1, <1>2
  <2>2. Lists(Below(0), i) = 0
    BY ListsNone DEF Below, Nothing, On
  <2>3. IsFiniteSet({}) /\ SumFunctionOnSet(Changes, {}) = 0
    BY FS_EmptySet, SumEmpty
  <2>4. {} \subseteq (0 .. 0 - 1) \X Outcomes
    OBVIOUS
  <2>5. /\ IsFiniteSet({} \cup OutcomesOn(i, 0))
        /\ {} \cup OutcomesOn(i, 0) \subseteq (0 .. 0) \X Outcomes
        /\ SumFunctionOnSet(Changes, {} \cup OutcomesOn(i, 0)) = Lists(line[0], i)
    BY <2>1, <2>2, <2>3, <2>4, OneMoreRevision
  <2>6. U(0) = {} \cup OutcomesOn(i, 0)
    OBVIOUS
  <2> HIDE DEF U
  <2> QED BY <2>1, <2>5, <2>6
<1>4. ASSUME NEW r \in 1 .. n, r - 1 \in T PROVE r \in T
  <2>1. r \in 0 .. n /\ r - 1 \in 0 .. n /\ r \in Revs /\ outcomes[r] # {} /\ r # 0
    BY <1>1
  <2>2. Lists(line[r], i) \in Nat /\ Lists(line[r - 1], i) \in Nat
    BY <1>2, <2>1
  <2>3. Below(r) = line[r - 1]
    BY <2>1 DEF Below
  <2>4. Adds(r - 1)
    BY <1>4
  <2>5. U(r) = U(r - 1) \cup OutcomesOn(i, r)
    <3>1. 0 .. r = (0 .. (r - 1)) \cup {r}
      BY <2>1
    <3> QED BY <3>1
  <2> HIDE DEF U
  <2>6. /\ IsFiniteSet(U(r - 1) \cup OutcomesOn(i, r))
        /\ U(r - 1) \cup OutcomesOn(i, r) \subseteq (0 .. r) \X Outcomes
        /\ SumFunctionOnSet(Changes, U(r - 1) \cup OutcomesOn(i, r)) = Lists(line[r], i)
    BY <2>1, <2>2, <2>3, <2>4, OneMoreRevision
  <2> QED BY <2>1, <2>5, <2>6
<1>5. 0 .. n \subseteq T
  <2> HIDE DEF T
  <2> QED BY <1>1, <1>3, <1>4, CountingInduction
<1>6. Adds(n)
  BY <1>1, <1>5
<1>7. NetChange(U(n)) = SumFunctionOnSet(Changes, U(n))
  <2> DEFINE g == [x \in U(n) |-> x[2].new - x[2].before]
  <2>1. NetChange(U(n)) = SumFunctionOnSet(g, U(n))
    BY DEF NetChange, SumFunction
  <2>2. U(n) \subseteq Revs \X Outcomes
    <3>1. U(n) \subseteq (0 .. n) \X Outcomes
      BY <1>6
    <3> HIDE DEF U
    <3> QED BY <1>1, <3>1
  <2>3. \A x \in U(n) : g[x] = Changes[x]
    <3> HIDE DEF U
    <3> QED BY <2>2 DEF Changes
  <2>4. IsFiniteSet(U(n))
    BY <1>6
  <2> HIDE DEF U, g
  <2> QED BY <2>1, <2>3, <2>4, SumCongruence
<1> HIDE DEF U
<1>8. Listed(n, i) = Lists(line[n], i)
  BY <1>1, <1>2
<1>9. NetChange(U(n)) = Listed(n, i)
  BY <1>6, <1>7, <1>8
<1> QED BY <1>9 DEF U

(* Whatever order the events are delivered in, the net changes of the      *)
(* revisions so far add up, item by item, to what the latest of them       *)
(* lists, for any BOQ that lists no item twice.                            *)
THEOREM DeltasMakeTheRevision ==
    ASSUME ~Duplicates
    PROVE  Spec => []NetChangesAddUp
<1>1. Init => EachItemOnce
  BY DEF Init, EachItemOnce
<1>2. Lineage /\ AllListOnce /\ EachItemOnce /\ [Next]_vars => AllListOnce' /\ EachItemOnce'
  BY StepListsOnce, StepItemsOnce
<1>3. Lineage /\ AllListOnce /\ EachItemOnce => NetChangesAddUp
  BY NetChangesOfVerdicts DEF Lineage
<1> QED BY <1>1, <1>2, <1>3, InitListsOnce, LineageHolds, PTL DEF Spec
=============================================================================
