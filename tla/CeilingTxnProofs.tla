-------------------------- MODULE CeilingTxnProofs --------------------------
(***************************************************************************)
(* Proofs that the row lock and the read-compare-insert sequence of        *)
(* ceiling.py keep the ceiling, for any number of sessions, lines,         *)
(* documents and quantities.                                               *)
(***************************************************************************)
EXTENDS CeilingTxn, TLAPS

(* A ceiling is an integer, so sums and comparisons with it make sense.    *)
LEMMA CeilingIsInt ==
    ASSUME NEW l \in Lines
    PROVE  ceiling_for(l) \in Int
<1>1. BoqQty[l] \in Nat /\ TolerancePct[l] \in Nat
  BY CeilingAssumption
<1>2. BoqQty[l] * TolerancePct[l] \in Int
  BY <1>1
<1>3. (BoqQty[l] * TolerancePct[l]) \div 100 \in Int
  <2> DEFINE n == BoqQty[l] * TolerancePct[l]
  <2>1. n \in Int
    BY <1>2
  <2> HIDE DEF n
  <2>2. n \div 100 \in Int
    BY <2>1
  <2> QED
    BY <2>2 DEF n
<1>4. QED
  BY <1>1, <1>3 DEF ceiling_for, tolerance_for

(* The call a session is executing has a line, a document and a positive   *)
(* quantity.                                                               *)
LEMMA RequestFields ==
    ASSUME NEW r \in Requests
    PROVE  /\ r.kind \in {"reserve", "release"}
           /\ r.line \in Lines
           /\ r.doc \in Docs
           /\ r.qty \in Nat
           /\ r.qty > 0
<1>1. \A q \in Qtys : q \in Nat /\ q > 0
  <2>1. Qtys \subseteq Nat \ {0}
    BY CeilingAssumption
  <2>2. \A q \in Nat \ {0} : q \in Nat /\ q > 0
    OBVIOUS
  <2>3. QED
    BY <2>1, <2>2
<1>2. CASE r \in [kind : {"reserve"}, line : Lines, doc : Docs, qty : Qtys,
                  override : Overrides]
  <2>1. r.kind = "reserve" /\ r.line \in Lines /\ r.doc \in Docs /\ r.qty \in Qtys
    BY <1>2
  <2>2. QED
    BY <1>1, <2>1
<1>3. CASE r \in [kind : {"release"}, line : Lines, doc : Docs, qty : Qtys]
  <2>1. r.kind = "release" /\ r.line \in Lines /\ r.doc \in Docs /\ r.qty \in Qtys
    BY <1>3
  <2>2. QED
    BY <1>1, <2>1
<1>4. QED
  BY <1>2, <1>3 DEF Requests

-----------------------------------------------------------------------------
(* Ending a transaction keeps the types of everything it resets.           *)
LEMMA EndTransactionType ==
    ASSUME TypeOK, NEW s \in Sessions, EndTransaction(s), UNCHANGED ledger
    PROVE  TypeOK'
  BY DEF TypeOK, EndTransaction, ledger, Zero, ZeroHeld, Phases, Calling

LEMMA TypeStep == TypeOK /\ [Next]_vars => TypeOK'
<1> SUFFICES ASSUME TypeOK, [Next]_vars
             PROVE  TypeOK'
  OBVIOUS
<1>1. ASSUME NEW s \in Sessions, Begin(s)
      PROVE  TypeOK'
  BY <1>1 DEF Begin, TypeOK, Phases, Calling, ledger, pending
<1>2. ASSUME NEW s \in Sessions, NEW r \in Requests, Call(s, r)
      PROVE  TypeOK'
  BY <1>2 DEF Call, TypeOK, Phases, Calling, ledger, pending
<1>3. ASSUME NEW s \in Sessions, LockLine(s)
      PROVE  TypeOK'
  BY <1>3 DEF LockLine, TypeOK, Phases, Calling, ledger, pending
<1>4. ASSUME NEW s \in Sessions, ReadLedger(s)
      PROVE  TypeOK'
  <2>1. req[s] \in Requests
    BY <1>4 DEF ReadLedger, TypeOK, Calling
  <2>2. committed_qty(s, req[s].line) \in Int
    BY <2>1, RequestFields DEF TypeOK, committed_qty
  <2>3. document_holding(s, req[s].line, req[s].doc) \in Int
    BY <2>1, RequestFields DEF TypeOK, document_holding
  <2>4. QED
    BY <1>4, <2>1, <2>2, <2>3 DEF ReadLedger, TypeOK, Phases, Calling, ledger, pending
<1>5. ASSUME NEW s \in Sessions, InsertEntry(s)
      PROVE  TypeOK'
  <2>1. req[s] \in Requests
    BY <1>5 DEF InsertEntry, TypeOK, Calling
  <2>2. QtyDelta(s) \in Int /\ OverrideDelta(s) \in Nat
    BY <2>1, RequestFields DEF QtyDelta, OverrideDelta
  <2>3. QED
    BY <1>5, <2>1, <2>2, RequestFields
       DEF InsertEntry, TypeOK, Phases, Calling, ledger, pending
<1>6. ASSUME NEW s \in Sessions, Refuse(s)
      PROVE  TypeOK'
  BY <1>6, EndTransactionType DEF Refuse
<1>7. ASSUME NEW s \in Sessions, Commit(s)
      PROVE  TypeOK'
  BY <1>7 DEF Commit, EndTransaction, TypeOK, Phases, Calling, Zero, ZeroHeld
<1>8. ASSUME NEW s \in Sessions, Rollback(s) \/ DeadlockVictim(s)
      PROVE  TypeOK'
  BY <1>8, EndTransactionType DEF Rollback, DeadlockVictim
<1>9. CASE UNCHANGED vars
  BY <1>9 DEF vars, ledger, pending, TypeOK, Calling
<1>10. QED
  BY <1>1, <1>2, <1>3, <1>4, <1>5, <1>6, <1>7, <1>8, <1>9 DEF Next

(* Every variable keeps its type in every behaviour of the ceiling.        *)
THEOREM TypeCorrect == Spec => []TypeOK
<1>1. Init => TypeOK
  BY CeilingAssumption DEF Init, TypeOK, Phases, Calling, Zero, ZeroHeld
<1>2. QED
  BY <1>1, TypeStep, PTL DEF Spec
-----------------------------------------------------------------------------
(* The inductive step of the lock protocol, one lemma per kind of step.    *)
(* Larger is used only through these two facts.                            *)
LEMMA LargerFacts ==
    ASSUME NEW a \in Int, NEW b \in Int
    PROVE  /\ Contract!Larger(a, b) \in Int
           /\ a <= Contract!Larger(a, b)
           /\ b <= Contract!Larger(a, b)
           /\ Contract!Larger(a, b) \in {a, b}
  BY DEF Contract!Larger

(* A rolled-back transaction frees its rows and drops its entries.         *)
LEMMA AbortKeepsProtocol ==
    ASSUME TypeOK, LockProtocol, NEW s \in Sessions,
           EndTransaction(s), UNCHANGED ledger
    PROVE  LockProtocol'
<1> USE DEF TypeOK, EndTransaction, ledger
<1>1. OwnsItsLine'
  BY CeilingAssumption, RequestFields DEF LockProtocol, OwnsItsLine, Calling
<1>2. PendingOnlyUnderLock'
  BY DEF LockProtocol, PendingOnlyUnderLock, Zero, ZeroHeld
<1>3. DecisionOnFreshRead'
  BY RequestFields DEF LockProtocol, DecisionOnFreshRead, committed_qty, document_holding, Calling
<1>4. PendingWithinCeiling'
  <2> SUFFICES ASSUME NEW t \in Sessions, NEW l \in Lines
               PROVE  (committed_qty(t, l)
                        <= Contract!Larger(committed[l], ceiling_for(l)) + pendOver[t][l])'
    BY DEF PendingWithinCeiling
  <2>1. CASE t = s
    BY <2>1, CeilingIsInt, LargerFacts DEF committed_qty, ceiling_for, tolerance_for, Zero
  <2>2. CASE t # s
    BY <2>2 DEF LockProtocol, PendingWithinCeiling, committed_qty, ceiling_for, tolerance_for
  <2>3. QED
    BY <2>1, <2>2
<1>5. PendingNeverOverReleased'
  BY DEF LockProtocol, PendingNeverOverReleased, NeverOverReleased, document_holding,
         ZeroHeld
<1>6. WithinCeiling' /\ NeverOverReleased'
  BY DEF LockProtocol, WithinCeiling, NeverOverReleased, ceiling_for, tolerance_for
<1>7. QED
  BY <1>1, <1>2, <1>3, <1>4, <1>5, <1>6 DEF LockProtocol
(* Steps that touch neither the locks, the ledger nor the entries.         *)
LEMMA QuietStepKeepsProtocol ==
    ASSUME TypeOK, LockProtocol, NEW s \in Sessions, UNCHANGED <<lock, ledger, pending>>,
           \/ Begin(s)
           \/ \E r \in Requests : Call(s, r)
           \/ ReadLedger(s)
    PROVE  LockProtocol'
<1> USE DEF TypeOK, ledger, pending, Begin, Call, ReadLedger
<1>1. OwnsItsLine'
  BY DEF LockProtocol, OwnsItsLine, Calling
<1>2. PendingOnlyUnderLock'
  BY DEF LockProtocol, PendingOnlyUnderLock
<1>3. DecisionOnFreshRead'
  BY DEF LockProtocol, DecisionOnFreshRead, committed_qty, document_holding, Calling
<1>4. PendingWithinCeiling' /\ PendingNeverOverReleased'
  BY DEF LockProtocol, PendingWithinCeiling, PendingNeverOverReleased, committed_qty,
         document_holding, ceiling_for, tolerance_for
<1>5. WithinCeiling' /\ NeverOverReleased'
  BY DEF LockProtocol, WithinCeiling, NeverOverReleased, ceiling_for, tolerance_for
<1>6. QED
  BY <1>1, <1>2, <1>3, <1>4, <1>5 DEF LockProtocol

(* A granted lock was free or already the session's own, so nobody else's  *)
(* entries are on the line.                                                *)
LEMMA LockLineKeepsProtocol ==
    ASSUME TypeOK, LockProtocol, NEW s \in Sessions, LockLine(s)
    PROVE  LockProtocol'
<1> USE DEF TypeOK, LockLine, ledger, pending
<1>1. req[s] \in Requests /\ req[s].line \in Lines
  BY RequestFields DEF Calling
<1>2. OwnsItsLine'
  BY <1>1, CeilingAssumption DEF LockProtocol, OwnsItsLine, Calling
<1>3. PendingOnlyUnderLock'
  BY <1>1, CeilingAssumption DEF LockProtocol, PendingOnlyUnderLock
<1>4. DecisionOnFreshRead'
  BY DEF LockProtocol, DecisionOnFreshRead, committed_qty, document_holding
<1>5. PendingWithinCeiling' /\ PendingNeverOverReleased'
  BY DEF LockProtocol, PendingWithinCeiling, PendingNeverOverReleased, committed_qty,
         document_holding, ceiling_for, tolerance_for
<1>6. WithinCeiling' /\ NeverOverReleased'
  BY DEF LockProtocol, WithinCeiling, NeverOverReleased, ceiling_for, tolerance_for
<1>7. QED
  BY <1>2, <1>3, <1>4, <1>5, <1>6 DEF LockProtocol

(* An inserted entry fits what is visible to its session, because the sum  *)
(* the session compared with is still the visible one.                     *)
LEMMA InsertKeepsProtocol ==
    ASSUME TypeOK, LockProtocol, NEW s \in Sessions, InsertEntry(s)
    PROVE  LockProtocol'
<1> DEFINE line == req[s].line
           doc == req[s].doc
           delta == QtyDelta(s)
           tagged == OverrideDelta(s)
<1>1. /\ req[s] \in Requests /\ req[s].kind \in {"reserve", "release"}
      /\ line \in Lines /\ doc \in Docs /\ req[s].qty \in Nat /\ req[s].qty > 0
  BY RequestFields DEF TypeOK, InsertEntry, Calling
<1>2. delta \in Int /\ tagged \in Nat
  BY <1>1 DEF QtyDelta, OverrideDelta
<1>3. lock[line] = s
  BY DEF LockProtocol, OwnsItsLine, InsertEntry
<1>4. OwnsItsLine'
  BY DEF LockProtocol, OwnsItsLine, InsertEntry, TypeOK
<1>5. PendingOnlyUnderLock'
  BY <1>1, <1>3 DEF LockProtocol, PendingOnlyUnderLock, InsertEntry, TypeOK
<1>6. DecisionOnFreshRead'
  BY RequestFields DEF LockProtocol, DecisionOnFreshRead, committed_qty, document_holding, InsertEntry, TypeOK,
         ledger
<1>7. PendingWithinCeiling'
  <2> SUFFICES ASSUME NEW t \in Sessions, NEW l \in Lines
               PROVE  (committed_qty(t, l)
                        <= Contract!Larger(committed[l], ceiling_for(l)) + pendOver[t][l])'
    BY DEF PendingWithinCeiling
  <2>1. committed_qty(t, l) <= Contract!Larger(committed[l], ceiling_for(l)) + pendOver[t][l]
    BY DEF LockProtocol, PendingWithinCeiling
  <2> DEFINE cap == Contract!Larger(committed[l], ceiling_for(l))
  <2>2. cap' = cap
    BY DEF Contract!Larger, ceiling_for, tolerance_for, InsertEntry, ledger
  <2>3. CASE t = s /\ l = line
    <3>1. committed_qty(t, l)' = committed_qty(t, l) + delta
      BY <1>1, <1>2, <2>3 DEF committed_qty, InsertEntry, TypeOK, ledger
    <3>2. pendOver'[t][l] = pendOver[t][l] + tagged
      BY <1>1, <1>2, <2>3 DEF InsertEntry, TypeOK
    <3>3. /\ committed_qty(t, l) \in Int /\ ceiling_for(l) \in Int
          /\ committed[l] \in Int /\ pendOver[t][l] \in Nat
      BY CeilingIsInt DEF TypeOK, committed_qty
    <3>4. cap \in Int /\ ceiling_for(l) <= cap
      BY <3>3, LargerFacts
    <3>5. committed_qty(t, l) + delta <= cap + (pendOver[t][l] + tagged)
      <4> HIDE DEF cap
      <4>1. CASE req[s].kind = "release"
        <5>1. delta = - req[s].qty /\ tagged = 0
          BY <4>1 DEF QtyDelta, OverrideDelta
        <5>2. QED
          BY <1>1, <2>1, <3>3, <3>4, <5>1 DEF cap
      <4>2. CASE req[s].kind = "reserve" /\ Fits(s)
        <5>1. delta = req[s].qty /\ tagged = 0
          BY <4>2 DEF QtyDelta, OverrideDelta
        <5>2. seen[s] = committed_qty(t, l)
          BY <2>3, <4>2 DEF LockProtocol, DecisionOnFreshRead, InsertEntry
        <5>3. req[s].qty <= ceiling_for(l) - committed_qty(t, l)
          BY <2>3, <4>2, <5>2 DEF Fits
        <5>4. QED
          BY <1>1, <3>3, <3>4, <5>1, <5>3
      <4>3. CASE req[s].kind = "reserve" /\ ~Fits(s)
        <5>1. delta = req[s].qty /\ tagged = req[s].qty
          BY <4>3 DEF QtyDelta, OverrideDelta
        <5>2. QED
          BY <1>1, <2>1, <3>3, <3>4, <5>1 DEF cap
      <4>4. QED
        BY <1>1, <4>1, <4>2, <4>3
    <3>6. QED
      BY <2>2, <3>1, <3>2, <3>5
  <2>4. CASE ~(t = s /\ l = line)
    <3>1. pendQty'[t][l] = pendQty[t][l] /\ pendOver'[t][l] = pendOver[t][l]
      BY <1>1, <2>4 DEF InsertEntry, TypeOK
    <3>2. committed' = committed
      BY DEF InsertEntry, ledger
    <3>3. QED
      BY <2>1, <2>2, <3>1, <3>2 DEF committed_qty
  <2>5. QED
    BY <2>3, <2>4
<1>8. PendingNeverOverReleased'
  <2> SUFFICES ASSUME NEW t \in Sessions, NEW l \in Lines, NEW d \in Docs
               PROVE  document_holding(t, l, d)' >= 0
    BY DEF PendingNeverOverReleased
  <2>1. document_holding(t, l, d) >= 0 /\ document_holding(t, l, d) \in Int
    BY DEF LockProtocol, PendingNeverOverReleased, document_holding, TypeOK
  <2>2. held' = held
    BY DEF InsertEntry, ledger
  <2>3. CASE t = s /\ l = line /\ d = doc
    <3>1. document_holding(t, l, d)' = document_holding(t, l, d) + delta
      BY <1>1, <1>2, <2>2, <2>3 DEF document_holding, InsertEntry, TypeOK
    <3>2. CASE req[s].kind = "reserve"
      BY <1>1, <2>1, <3>1, <3>2 DEF QtyDelta
    <3>3. CASE req[s].kind = "release"
      <4>1. seen[s] = document_holding(t, l, d) /\ req[s].qty <= seen[s]
        BY <2>3, <3>3 DEF LockProtocol, DecisionOnFreshRead, InsertEntry, Permitted
      <4>2. delta = - req[s].qty
        BY <3>3 DEF QtyDelta
      <4>3. QED
        BY <1>1, <2>1, <3>1, <4>1, <4>2
    <3>4. QED
      BY <1>1, <3>2, <3>3
  <2>4. CASE ~(t = s /\ l = line /\ d = doc)
    <3>1. pendHeld'[t][l][d] = pendHeld[t][l][d]
      BY <1>1, <2>4 DEF InsertEntry, TypeOK
    <3>2. QED
      BY <2>1, <2>2, <3>1 DEF document_holding
  <2>5. QED
    BY <2>3, <2>4
<1>9. WithinCeiling' /\ NeverOverReleased'
  BY DEF LockProtocol, WithinCeiling, NeverOverReleased, ceiling_for, tolerance_for, InsertEntry, ledger
<1>10. QED
  BY <1>4, <1>5, <1>6, <1>7, <1>8, <1>9 DEF LockProtocol
(* A commit publishes the entries of a session that owns every row they    *)
(* are on, so what the other sessions have read and inserted still stands. *)
LEMMA CommitKeepsProtocol ==
    ASSUME TypeOK, LockProtocol, NEW s \in Sessions, Commit(s)
    PROVE  LockProtocol'
<1> USE DEF TypeOK, Commit, EndTransaction
<1>1. OwnsItsLine'
  BY CeilingAssumption, RequestFields DEF LockProtocol, OwnsItsLine, Calling
<1>2. PendingOnlyUnderLock'
  BY DEF LockProtocol, PendingOnlyUnderLock, Zero, ZeroHeld
<1>3. ASSUME NEW t \in Sessions, t # s, NEW l \in Lines, lock[l] = t
      PROVE  committed'[l] = committed[l] /\ \A d \in Docs : held'[l][d] = held[l][d]
  BY <1>3 DEF LockProtocol, PendingOnlyUnderLock
<1>4. DecisionOnFreshRead'
  <2> SUFFICES ASSUME NEW t \in Sessions, t # s, pc[t] = "read"
               PROVE  (seen[t] = IF req[t].kind = "reserve"
                                 THEN committed_qty(t, req[t].line)
                                 ELSE document_holding(t, req[t].line, req[t].doc))'
    BY DEF DecisionOnFreshRead
  <2>1. req[t].line \in Lines /\ req[t].doc \in Docs /\ lock[req[t].line] = t
    BY RequestFields DEF LockProtocol, OwnsItsLine, Calling
  <2>2. QED
    BY <1>3, <2>1 DEF LockProtocol, DecisionOnFreshRead, committed_qty, document_holding
<1>5. WithinCeiling'
  <2> SUFFICES ASSUME NEW l \in Lines
               PROVE  (committed[l] <= ceiling_for(l) + overridden[l])'
    BY DEF WithinCeiling
  <2> DEFINE cap == Contract!Larger(committed[l], ceiling_for(l))
  <2>1. ceiling_for(l)' = ceiling_for(l)
    BY DEF ceiling_for, tolerance_for
  <2>2. /\ committed[l] + pendQty[s][l] <= cap + pendOver[s][l]
        /\ committed[l] <= ceiling_for(l) + overridden[l]
    BY DEF LockProtocol, PendingWithinCeiling, WithinCeiling, committed_qty
  <2>3. /\ ceiling_for(l) \in Int /\ cap \in {committed[l], ceiling_for(l)}
        /\ pendQty[s][l] \in Int /\ pendOver[s][l] \in Nat
        /\ committed[l] \in Int /\ overridden[l] \in Nat
    BY CeilingIsInt, LargerFacts
  <2> HIDE DEF cap
  <2>4. /\ committed'[l] = committed[l] + pendQty[s][l]
        /\ overridden'[l] = overridden[l] + pendOver[s][l]
    OBVIOUS
  <2>5. QED
    BY <2>1, <2>2, <2>3, <2>4
<1>6. NeverOverReleased'
  BY DEF LockProtocol, PendingNeverOverReleased, NeverOverReleased, document_holding
<1>7. PendingWithinCeiling'
  <2> SUFFICES ASSUME NEW t \in Sessions, NEW l \in Lines
               PROVE  (committed_qty(t, l)
                        <= Contract!Larger(committed[l], ceiling_for(l)) + pendOver[t][l])'
    BY DEF PendingWithinCeiling
  <2>1. ceiling_for(l)' = ceiling_for(l)
    BY DEF ceiling_for, tolerance_for
  <2>2. CASE t # s /\ lock[l] = t
    <3>1. committed'[l] = committed[l]
      BY <1>3, <2>2
    <3>2. QED
      BY <2>1, <2>2, <3>1
         DEF LockProtocol, PendingWithinCeiling, committed_qty, Contract!Larger
  <2>3. CASE ~(t # s /\ lock[l] = t)
    <3>1. pendQty'[t][l] = 0 /\ pendOver'[t][l] = 0
      BY <2>3 DEF LockProtocol, PendingOnlyUnderLock, Zero
    <3>2. committed'[l] \in Int /\ ceiling_for(l) \in Int
      BY CeilingIsInt
    <3>3. committed'[l] <= Contract!Larger(committed'[l], ceiling_for(l))
      BY <3>2, LargerFacts
    <3>4. committed_qty(t, l)' = committed'[l]
      BY <3>1, <3>2 DEF committed_qty
    <3>5. Contract!Larger(committed[l], ceiling_for(l))'
            = Contract!Larger(committed'[l], ceiling_for(l))
      BY <2>1 DEF Contract!Larger
    <3>6. Contract!Larger(committed'[l], ceiling_for(l)) \in Int
      BY <3>2, LargerFacts
    <3>7. QED
      BY <3>1, <3>2, <3>3, <3>4, <3>5, <3>6
  <2>4. QED
    BY <2>2, <2>3
<1>8. PendingNeverOverReleased'
  <2> SUFFICES ASSUME NEW t \in Sessions, NEW l \in Lines, NEW d \in Docs
               PROVE  document_holding(t, l, d)' >= 0
    BY DEF PendingNeverOverReleased
  <2>1. CASE t # s /\ lock[l] = t
    BY <1>3, <2>1 DEF LockProtocol, PendingNeverOverReleased, document_holding
  <2>2. CASE ~(t # s /\ lock[l] = t)
    <3>1. pendHeld'[t][l][d] = 0
      BY <2>2 DEF LockProtocol, PendingOnlyUnderLock, ZeroHeld
    <3>2. QED
      BY <1>6, <3>1 DEF NeverOverReleased, document_holding
  <2>3. QED
    BY <2>1, <2>2
<1>9. QED
  BY <1>1, <1>2, <1>4, <1>5, <1>6, <1>7, <1>8 DEF LockProtocol

LEMMA ProtocolInit == Init => LockProtocol
<1> SUFFICES ASSUME Init
             PROVE  LockProtocol
  OBVIOUS
<1> USE DEF Init, Zero, ZeroHeld
<1>1. OwnsItsLine /\ PendingOnlyUnderLock /\ DecisionOnFreshRead
  BY DEF OwnsItsLine, PendingOnlyUnderLock, DecisionOnFreshRead
<1>2. ASSUME NEW l \in Lines
      PROVE  ceiling_for(l) >= 0 /\ ceiling_for(l) \in Int
  <2>1. BoqQty[l] \in Nat /\ TolerancePct[l] \in Nat
    BY CeilingAssumption
  <2>2. BoqQty[l] * TolerancePct[l] \in Nat
    BY <2>1
  <2> DEFINE n == BoqQty[l] * TolerancePct[l]
  <2>3. n \in Nat
    BY <2>2
  <2> HIDE DEF n
  <2>4. n \div 100 \in Nat
    BY <2>3
  <2>5. QED
    BY <2>1, <2>4 DEF n, ceiling_for, tolerance_for
<1>3. PendingWithinCeiling
  BY <1>2, LargerFacts DEF PendingWithinCeiling, committed_qty
<1>4. PendingNeverOverReleased /\ NeverOverReleased
  BY DEF PendingNeverOverReleased, NeverOverReleased, document_holding
<1>5. WithinCeiling
  BY <1>2 DEF WithinCeiling
<1>6. QED
  BY <1>1, <1>3, <1>4, <1>5 DEF LockProtocol

LEMMA ProtocolStep == TypeOK /\ LockProtocol /\ [Next]_vars => LockProtocol'
<1> SUFFICES ASSUME TypeOK, LockProtocol, [Next]_vars
             PROVE  LockProtocol'
  OBVIOUS
<1>1. ASSUME NEW s \in Sessions,
             Begin(s) \/ (\E r \in Requests : Call(s, r)) \/ ReadLedger(s)
      PROVE  LockProtocol'
  BY <1>1, QuietStepKeepsProtocol DEF Begin, Call, ReadLedger, ledger, pending
<1>2. ASSUME NEW s \in Sessions, LockLine(s)
      PROVE  LockProtocol'
  BY <1>2, LockLineKeepsProtocol
<1>3. ASSUME NEW s \in Sessions, InsertEntry(s)
      PROVE  LockProtocol'
  BY <1>3, InsertKeepsProtocol
<1>4. ASSUME NEW s \in Sessions, Commit(s)
      PROVE  LockProtocol'
  BY <1>4, CommitKeepsProtocol
<1>5. ASSUME NEW s \in Sessions, Refuse(s) \/ Rollback(s) \/ DeadlockVictim(s)
      PROVE  LockProtocol'
  BY <1>5, AbortKeepsProtocol DEF Refuse, Rollback, DeadlockVictim
<1>6. CASE UNCHANGED vars
  BY <1>6 DEF vars, ledger, pending, LockProtocol, OwnsItsLine, PendingOnlyUnderLock,
              DecisionOnFreshRead, PendingWithinCeiling, PendingNeverOverReleased,
              WithinCeiling, NeverOverReleased, committed_qty, document_holding,
              ceiling_for, tolerance_for, Contract!Larger
<1>7. QED
  BY <1>1, <1>2, <1>3, <1>4, <1>5, <1>6 DEF Next

-----------------------------------------------------------------------------
(* The lock protocol holds in every reachable state: a session that        *)
(* compares and inserts owns the row, its read is fresh, and nobody else   *)
(* has entries on the line.                                                *)
THEOREM LockProtocolHolds == Spec => []LockProtocol
  BY TypeCorrect, ProtocolInit, ProtocolStep, PTL DEF Spec

(* reserve_headroom keeps every line within its ceiling plus what logged   *)
(* overrides added, for any number of concurrent sessions.                 *)
THEOREM CeilingHolds == Spec => []WithinCeiling
<1>1. LockProtocol => WithinCeiling
  BY DEF LockProtocol
<1>2. QED
  BY <1>1, LockProtocolHolds, PTL

(* release_headroom never lets a document give back more than it holds.    *)
THEOREM HoldingsHold == Spec => []NeverOverReleased
<1>1. LockProtocol => NeverOverReleased
  BY DEF LockProtocol
<1>2. QED
  BY <1>1, LockProtocolHolds, PTL

(* The sum a session compares with is the ledger's at that moment.         *)
THEOREM ReadsStayFresh == Spec => []DecisionOnFreshRead
<1>1. LockProtocol => DecisionOnFreshRead
  BY DEF LockProtocol
<1>2. QED
  BY <1>1, LockProtocolHolds, PTL
-----------------------------------------------------------------------------
(* Refinement: a commit is one step of the atomic contract and every other *)
(* step leaves the contract's variables alone.                             *)
LEMMA ContractStep ==
    TypeOK /\ LockProtocol /\ [Next]_vars => [Contract!Authorize]_(Contract!vars)
<1> SUFFICES ASSUME TypeOK, LockProtocol, [Next]_vars
             PROVE  Contract!Authorize \/ UNCHANGED ledger
  BY DEF Contract!vars, ledger
<1>1. ASSUME NEW s \in Sessions, Commit(s)
      PROVE  Contract!Authorize
  <2> USE DEF TypeOK
  <2>1. held' \in [Lines -> [Docs -> Nat]]
    <3>1. \A l \in Lines, d \in Docs :
             held[l][d] + pendHeld[s][l][d] >= 0 /\ held[l][d] + pendHeld[s][l][d] \in Int
      BY DEF LockProtocol, PendingNeverOverReleased, document_holding
    <3>2. \A l \in Lines, d \in Docs : held[l][d] + pendHeld[s][l][d] \in Nat
      BY <3>1
    <3>3. held' = [l \in Lines |-> [d \in Docs |-> held[l][d] + pendHeld[s][l][d]]]
      BY <1>1 DEF Commit
    <3>4. QED
      BY <3>2, <3>3
  <2>2. committed' \in [Lines -> Int] /\ overridden' \in [Lines -> Nat]
    BY <1>1 DEF Commit
  <2>3. ASSUME NEW l \in Lines
        PROVE  /\ overridden'[l] >= overridden[l]
               /\ committed'[l] <= Contract!Larger(committed[l], ceiling_for(l))
                                     + (overridden'[l] - overridden[l])
    <3> DEFINE cap == Contract!Larger(committed[l], ceiling_for(l))
    <3>1. cap \in Int
      BY CeilingIsInt, LargerFacts
    <3>2. committed[l] + pendQty[s][l] <= cap + pendOver[s][l]
      BY DEF LockProtocol, PendingWithinCeiling, committed_qty
    <3> HIDE DEF cap
    <3>3. /\ committed'[l] = committed[l] + pendQty[s][l]
          /\ overridden'[l] = overridden[l] + pendOver[s][l]
      BY <1>1 DEF Commit
    <3>4. /\ committed[l] \in Int /\ pendQty[s][l] \in Int
          /\ overridden[l] \in Nat /\ pendOver[s][l] \in Nat
      OBVIOUS
    <3>5. committed'[l] <= cap + (overridden'[l] - overridden[l])
      BY <3>1, <3>2, <3>3, <3>4
    <3>6. overridden'[l] >= overridden[l]
      BY <3>3, <3>4
    <3>7. QED
      BY <3>5, <3>6 DEF cap
  <2>4. QED
    BY <2>1, <2>2, <2>3 DEF Contract!Authorize
<1>2. ASSUME NEW s \in Sessions,
             \/ Begin(s) \/ (\E r \in Requests : Call(s, r)) \/ LockLine(s) \/ ReadLedger(s)
             \/ InsertEntry(s) \/ Refuse(s) \/ Rollback(s) \/ DeadlockVictim(s)
      PROVE  UNCHANGED ledger
  BY <1>2 DEF Begin, Call, LockLine, ReadLedger, InsertEntry, Refuse, Rollback, DeadlockVictim
<1>3. CASE UNCHANGED vars
  BY <1>3 DEF vars
<1>4. QED
  BY <1>1, <1>2, <1>3 DEF Next

(* ceiling.py, with its locks and its races, implements the contract that  *)
(* authorizes each transaction in one atomic step.                         *)
THEOREM ImplementsContract == Spec => ContractSpec
<1>1. Init => Contract!Init
  BY DEF Init, Contract!Init, Zero, ZeroHeld
<1>2. QED
  BY <1>1, ContractStep, TypeCorrect, LockProtocolHolds, PTL
     DEF Spec, ContractSpec, Contract!Spec
=============================================================================
