---------------------------- MODULE OutboxProofs ----------------------------
(***************************************************************************)
(* Proofs about the outbox for any number of events, drainers, attempts,   *)
(* crashes and replays.                                                    *)
(***************************************************************************)
EXTENDS Outbox, FiniteSetTheorems, TLAPS

(* drain's limit is positive, so a non-empty queue gives a non-empty batch. *)
LEMMA BatchNotEmpty ==
    ASSUME NEW S, Oldest(S), Deliverable # {}
    PROVE  S # {}
<1> SUFFICES ASSUME S = {}
             PROVE  FALSE
  OBVIOUS
<1>1. Cardinality(S) = 0
  BY FS_EmptySet
<1>2. Cardinality(S) = Limit
  BY DEF Oldest
<1>3. QED
  BY <1>1, <1>2, OutboxAssumption

\* The parts of a step that ends the work on one event.
LEMMA AdvanceType ==
    ASSUME TypeOK, NEW d \in Drainers, NEW e \in batch[d], Advance(d, e),
           status' \in [Events -> Statuses], attempts' \in [Events -> Nat]
    PROVE  TypeOK'
<1> USE DEF TypeOK, Advance, Phases
<1>1. e \in Events /\ (batch[d] = {e} <=> batch[d] \ {e} = {})
  OBVIOUS
<1>2. \A t \in Drainers : pc'[t] = "idle" <=> batch'[t] = {}
  <2> SUFFICES ASSUME NEW t \in Drainers
               PROVE  pc'[t] = "idle" <=> batch'[t] = {}
    OBVIOUS
  <2>1. CASE t = d
    <3>1. batch'[d] = batch[d] \ {e} /\ pc'[d] = IF batch[d] = {e} THEN "idle" ELSE "next"
      OBVIOUS
    <3>2. QED
      BY <1>1, <2>1, <3>1
  <2>2. CASE t # d
    BY <2>2
  <2>3. QED
    BY <2>1, <2>2
<1>3. pc' \in [Drainers -> Phases] /\ batch' \in [Drainers -> SUBSET Events]
  OBVIOUS
<1>4. copy' \in [Drainers -> [Events -> Nat]] /\ found' \in [Drainers -> BOOLEAN]
  BY <1>1
<1>5. UNCHANGED <<effects, crashes, replays>>
  OBVIOUS
<1>6. QED
  BY <1>2, <1>3, <1>4, <1>5

LEMMA TypeStep == TypeOK /\ [Next]_vars => TypeOK'
<1> SUFFICES ASSUME TypeOK, [Next]_vars
             PROVE  TypeOK'
  OBVIOUS
<1> USE OutboxAssumption
<1>1. ASSUME NEW e \in Events, Emit(e)
      PROVE  TypeOK'
  BY <1>1 DEF Emit, TypeOK, Statuses
<1>2. ASSUME NEW d \in Drainers, Fetch(d)
      PROVE  TypeOK'
  BY <1>2, BatchNotEmpty DEF Fetch, Oldest, TypeOK, Phases, rows, Deliverable
<1>3. ASSUME NEW d \in Drainers, StartHandlers(d)
      PROVE  TypeOK'
  BY <1>3 DEF StartHandlers, TypeOK, Phases, rows
<1>4. ASSUME NEW d \in Drainers, CommitHandlers(d)
      PROVE  TypeOK'
  BY <1>4 DEF CommitHandlers, CountUp, TypeOK, Phases, rows
<1>5. ASSUME NEW d \in Drainers, HandlersRaise(d)
      PROVE  TypeOK'
  BY <1>5 DEF HandlersRaise, TypeOK, Phases, rows
<1>6. ASSUME NEW d \in Drainers, MarkProcessed(d)
      PROVE  TypeOK'
  BY <1>6, AdvanceType DEF MarkProcessed, Current, TypeOK, Statuses
<1>7. ASSUME NEW d \in Drainers, MarkFailed(d)
      PROVE  TypeOK'
  BY <1>7, AdvanceType DEF MarkFailed, Current, TypeOK, Statuses
<1>8. ASSUME NEW d \in Drainers, Crash(d)
      PROVE  TypeOK'
  BY <1>8 DEF Crash, TypeOK, Phases, rows, NoCopy
<1>9. ASSUME NEW d \in Drainers, NEW e \in Events, Replay(d, e)
      PROVE  TypeOK'
  BY <1>9 DEF Replay, TypeOK, Phases, Statuses, NoCopy
<1>10. CASE UNCHANGED vars
  BY <1>10 DEF vars, rows, TypeOK
<1>11. QED
  BY <1>1, <1>2, <1>3, <1>4, <1>5, <1>6, <1>7, <1>8, <1>9, <1>10 DEF Next, Work

(* Every variable keeps its type, and a drainer is idle exactly when it has *)
(* no event in hand.                                                       *)
THEOREM TypeCorrect == Spec => []TypeOK
<1>1. Init => TypeOK
  BY OutboxAssumption DEF Init, TypeOK, Statuses, Phases, NoCopy
<1>2. QED
  BY <1>1, TypeStep, PTL DEF Spec

-----------------------------------------------------------------------------
\* A drainer has one current event at a time.
LEMMA CurrentIsUnique ==
    ASSUME NEW d \in Drainers, NEW e \in Events, NEW f \in Events,
           Current(d, e), Current(d, f)
    PROVE  e = f
  BY OutboxAssumption DEF Current

(* Recording an outcome: the copy had an attempt left, so the columns that *)
(* are written from it match.                                              *)
LEMMA MarkKeepsDelivery ==
    ASSUME TypeOK, Delivery, NEW d \in Drainers, MarkProcessed(d) \/ MarkFailed(d)
    PROVE  Delivery'
<1> USE OutboxAssumption DEF TypeOK
<1>1. PICK e \in Events :
        /\ Current(d, e)
        /\ attempts' = [attempts EXCEPT ![e] = copy[d][e] + 1]
        /\ \/ pc[d] = "succeeded" /\ status' = [status EXCEPT ![e] = "processed"]
           \/ status' = [status EXCEPT ![e] =
                             IF copy[d][e] + 1 >= MaxAttempts THEN "dead" ELSE "failed"]
        /\ Advance(d, e)
  BY DEF MarkProcessed, MarkFailed
<1>2. copy[d][e] \in Nat /\ copy[d][e] < MaxAttempts
  BY <1>1 DEF Delivery, CopiesHaveAnAttemptLeft, Current
<1>3. CopiesHaveAnAttemptLeft'
  BY <1>1 DEF Delivery, CopiesHaveAnAttemptLeft, Advance
<1>4. SuccessTookEffect' /\ FoundIsTrue'
  BY <1>1 DEF Delivery, SuccessTookEffect, FoundIsTrue, Current, Advance
<1>5. ProcessedTookEffect'
  <2>1. pc[d] = "succeeded" => effects[e] > 0
    BY <1>1 DEF Delivery, SuccessTookEffect
  <2>2. QED
    BY <1>1, <2>1 DEF Delivery, ProcessedTookEffect, Advance
<1>6. RetriesMatchStatus'
  <2> SUFFICES ASSUME NEW f \in Events
               PROVE  (/\ status[f] \in {"absent", "pending"} => attempts[f] = 0
                       /\ status[f] = "failed" => attempts[f] \in 1..(MaxAttempts - 1)
                       /\ status[f] = "dead" => attempts[f] = MaxAttempts
                       /\ status[f] = "processed" => attempts[f] \in 1..MaxAttempts)'
    BY DEF RetriesMatchStatus
  <2>1. CASE f = e
    <3>1. attempts'[e] = copy[d][e] + 1
      BY <1>1
    <3>2. \/ status'[e] = "processed"
          \/ status'[e] = "dead" /\ copy[d][e] + 1 >= MaxAttempts
          \/ status'[e] = "failed" /\ ~(copy[d][e] + 1 >= MaxAttempts)
      BY <1>1
    <3>3. copy[d][e] + 1 \in 1..MaxAttempts
      BY <1>2
    <3>4. CASE status'[e] = "processed"
      BY <2>1, <3>1, <3>3, <3>4
    <3>5. CASE status'[e] = "dead" /\ copy[d][e] + 1 >= MaxAttempts
      <4>1. copy[d][e] + 1 = MaxAttempts
        BY <1>2, <3>5
      <4>2. QED
        BY <2>1, <3>1, <3>5, <4>1
    <3>6. CASE status'[e] = "failed" /\ ~(copy[d][e] + 1 >= MaxAttempts)
      BY <1>2, <2>1, <3>1, <3>6
    <3>7. QED
      BY <3>2, <3>4, <3>5, <3>6
  <2>2. CASE f # e
    BY <1>1, <2>2 DEF Delivery, RetriesMatchStatus
  <2>3. QED
    BY <2>1, <2>2
<1>7. UniqueEffectOnce'
  BY <1>1 DEF Delivery, UniqueEffectOnce, Advance
<1>8. QED
  BY <1>3, <1>4, <1>5, <1>6, <1>7 DEF Delivery

(* Committing the handlers adds the effect where it was missing and never  *)
(* takes one away.                                                         *)
LEMMA CommitKeepsDelivery ==
    ASSUME TypeOK, Delivery, NEW d \in Drainers, CommitHandlers(d)
    PROVE  Delivery'
<1> USE OutboxAssumption DEF TypeOK
<1>1. PICK e \in Events :
        /\ Current(d, e)
        /\ ~Collides(d, e)
        /\ effects' = [effects EXCEPT ![e] = IF Skips(d, e) THEN @ ELSE CountUp(@)]
  BY DEF CommitHandlers
<1>2. UNCHANGED <<status, attempts, batch, copy, found>>
  BY DEF CommitHandlers, rows
<1>3. pc[d] = "handling" /\ pc' = [pc EXCEPT ![d] = "succeeded"]
  BY DEF CommitHandlers
<1>4. \A f \in Events : effects[f] > 0 => effects'[f] > 0
  BY <1>1 DEF CountUp
<1>5. effects'[e] > 0
  <2>1. Skips(d, e) => effects[e] > 0
    BY <1>1, <1>3 DEF Skips, Delivery, FoundIsTrue
  <2>2. QED
    BY <1>1, <2>1 DEF CountUp
<1>6. CopiesHaveAnAttemptLeft' /\ RetriesMatchStatus'
  BY <1>2 DEF Delivery, CopiesHaveAnAttemptLeft, RetriesMatchStatus
<1>7. SuccessTookEffect'
  BY <1>1, <1>2, <1>3, <1>4, <1>5, CurrentIsUnique DEF Delivery, SuccessTookEffect, Current
<1>8. FoundIsTrue' /\ ProcessedTookEffect'
  BY <1>2, <1>3, <1>4 DEF Delivery, FoundIsTrue, ProcessedTookEffect, Current
<1>9. UniqueEffectOnce'
  BY <1>1 DEF Delivery, UniqueEffectOnce, Skips, Collides, CountUp
<1>10. QED
  BY <1>6, <1>7, <1>8, <1>9 DEF Delivery

LEMMA DeliveryStep == TypeOK /\ Delivery /\ [Next]_vars => Delivery'
<1> SUFFICES ASSUME TypeOK, Delivery, [Next]_vars
             PROVE  Delivery'
  OBVIOUS
<1> USE OutboxAssumption DEF TypeOK, Delivery
<1>1. ASSUME NEW e \in Events, Emit(e)
      PROVE  Delivery'
  BY <1>1 DEF Emit, CopiesHaveAnAttemptLeft, SuccessTookEffect, FoundIsTrue,
              ProcessedTookEffect, RetriesMatchStatus, UniqueEffectOnce, Current
<1>2. ASSUME NEW d \in Drainers, Fetch(d)
      PROVE  Delivery'
  <2>1. PICK S \in SUBSET Deliverable :
          /\ batch' = [batch EXCEPT ![d] = S]
          /\ copy' = [copy EXCEPT ![d] = [e \in Events |-> IF e \in S THEN attempts[e] ELSE 0]]
    BY <1>2 DEF Fetch
  <2>2. \A e \in S : e \in Events /\ attempts[e] < MaxAttempts
    BY DEF Deliverable, RetriesMatchStatus
  <2>3. CopiesHaveAnAttemptLeft'
    BY <2>1, <2>2 DEF CopiesHaveAnAttemptLeft
  <2>4. QED
    BY <1>2, <2>1, <2>3 DEF Fetch, SuccessTookEffect, FoundIsTrue, ProcessedTookEffect,
                            RetriesMatchStatus, UniqueEffectOnce, Current, rows
<1>3. ASSUME NEW d \in Drainers, StartHandlers(d)
      PROVE  Delivery'
  BY <1>3, CurrentIsUnique
     DEF StartHandlers, CopiesHaveAnAttemptLeft, SuccessTookEffect, FoundIsTrue,
         ProcessedTookEffect, RetriesMatchStatus, UniqueEffectOnce, Current, rows
<1>4. ASSUME NEW d \in Drainers, CommitHandlers(d)
      PROVE  Delivery'
  BY <1>4, CommitKeepsDelivery
<1>5. ASSUME NEW d \in Drainers, HandlersRaise(d)
      PROVE  Delivery'
  BY <1>5 DEF HandlersRaise, CopiesHaveAnAttemptLeft, SuccessTookEffect, FoundIsTrue,
              ProcessedTookEffect, RetriesMatchStatus, UniqueEffectOnce, Current, rows
<1>6. ASSUME NEW d \in Drainers, MarkProcessed(d) \/ MarkFailed(d)
      PROVE  Delivery'
  BY <1>6, MarkKeepsDelivery
<1>7. ASSUME NEW d \in Drainers, Crash(d)
      PROVE  Delivery'
  BY <1>7 DEF Crash, CopiesHaveAnAttemptLeft, SuccessTookEffect, FoundIsTrue,
              ProcessedTookEffect, RetriesMatchStatus, UniqueEffectOnce, Current, rows
<1>8. ASSUME NEW d \in Drainers, NEW e \in Events, Replay(d, e)
      PROVE  Delivery'
  BY <1>8 DEF Replay, NoCopy, CopiesHaveAnAttemptLeft, SuccessTookEffect, FoundIsTrue,
              ProcessedTookEffect, RetriesMatchStatus, UniqueEffectOnce, Current
<1>9. CASE UNCHANGED vars
  BY <1>9 DEF vars, rows, CopiesHaveAnAttemptLeft, SuccessTookEffect, FoundIsTrue,
              ProcessedTookEffect, RetriesMatchStatus, UniqueEffectOnce, Current
<1>10. QED
  BY <1>1, <1>2, <1>3, <1>4, <1>5, <1>6, <1>7, <1>8, <1>9 DEF Next, Work
LEMMA DeliveryHolds == Spec => []Delivery
<1>1. Init => Delivery
  BY OutboxAssumption
     DEF Init, Delivery, CopiesHaveAnAttemptLeft, SuccessTookEffect, FoundIsTrue,
         ProcessedTookEffect, RetriesMatchStatus, UniqueEffectOnce, Current
<1>2. QED
  BY <1>1, TypeCorrect, DeliveryStep, PTL DEF Spec

(* Whatever drainers race, crash and overwrite, an event marked processed  *)
(* has taken effect.                                                       *)
THEOREM ProcessedIsTrue == Spec => []ProcessedTookEffect
<1>1. Delivery => ProcessedTookEffect
  BY DEF Delivery
<1>2. QED
  BY <1>1, DeliveryHolds, PTL

(* The status and attempts columns never contradict each other, although   *)
(* both are written from copies that may be stale.                         *)
THEOREM RetriesStayConsistent == Spec => []RetriesMatchStatus
<1>1. Delivery => RetriesMatchStatus
  BY DEF Delivery
<1>2. QED
  BY <1>1, DeliveryHolds, PTL

(* A look-up backed by a unique column makes redelivery harmless.          *)
THEOREM UniqueHandlersOnce == Spec => []UniqueEffectOnce
<1>1. Delivery => UniqueEffectOnce
  BY DEF Delivery
<1>2. QED
  BY <1>1, DeliveryHolds, PTL

-----------------------------------------------------------------------------
(* Handlers that only look first are safe exactly as far as no two         *)
(* drainers have the same event in hand.                                   *)
Apart == \A d, t \in Drainers : d # t => batch[d] \cap batch[t] = {}

HeldIsOpen ==
    \A d \in Drainers, e \in Events : e \in batch[d] => status[e] \in {"pending", "failed"}

FoundIsExact ==
    \A d \in Drainers, e \in Events :
        Current(d, e) /\ pc[d] = "handling" /\ ~found[d] => effects[e] = 0

Serial == HeldIsOpen /\ FoundIsExact /\ GuardedEffectOnce

\* What an event is marked with is nobody else's concern.
LEMMA MarkKeepsSerial ==
    ASSUME TypeOK, Apart, Serial, NEW d \in Drainers, MarkProcessed(d) \/ MarkFailed(d)
    PROVE  Serial'
<1>1. PICK e \in Events :
        Current(d, e) /\ Advance(d, e) /\ \E x : status' = [status EXCEPT ![e] = x]
  BY DEF MarkProcessed, MarkFailed
<1>2. /\ e \in batch[d]
      /\ \A t \in Drainers : t # d => e \notin batch[t] /\ batch'[t] = batch[t]
      /\ batch'[d] = batch[d] \ {e}
  BY <1>1 DEF TypeOK, Apart, Current, Advance
<1>3. \A f \in Events : f # e => status'[f] = status[f]
  BY <1>1 DEF TypeOK
<1>4. HeldIsOpen'
  BY <1>2, <1>3 DEF Serial, HeldIsOpen
<1>5. effects' = effects /\ pc'[d] # "handling"
  BY <1>1 DEF TypeOK, Advance
<1>6. \A t \in Drainers : t # d => pc'[t] = pc[t] /\ found'[t] = found[t]
  BY <1>1 DEF TypeOK, Advance
<1>7. FoundIsExact'
  BY <1>2, <1>5, <1>6 DEF Serial, FoundIsExact, Current
<1> QED BY <1>4, <1>5, <1>7 DEF Serial, GuardedEffectOnce

(* The effect is added once, by the one drainer that has the event.        *)
LEMMA CommitKeepsSerial ==
    ASSUME TypeOK, Apart, Serial, NEW d \in Drainers, CommitHandlers(d)
    PROVE  Serial'
<1>1. PICK e \in Events :
        /\ Current(d, e)
        /\ effects' = [effects EXCEPT ![e] = IF Skips(d, e) THEN @ ELSE CountUp(@)]
  BY DEF CommitHandlers
<1>2. UNCHANGED <<status, batch, found>> /\ pc[d] = "handling"
      /\ pc' = [pc EXCEPT ![d] = "succeeded"]
  BY DEF CommitHandlers, rows
<1>3. HeldIsOpen'
  BY <1>2 DEF Serial, HeldIsOpen
<1>4. \A t \in Drainers : t # d => e \notin batch[t]
  BY <1>1 DEF Apart, Current
<1>5. FoundIsExact'
  <2> SUFFICES ASSUME NEW t \in Drainers, NEW f \in Events,
                      (Current(t, f) /\ pc[t] = "handling" /\ ~found[t])'
               PROVE  effects'[f] = 0
    BY DEF FoundIsExact
  <2>1. t # d /\ pc[t] = "handling" /\ ~found[t] /\ Current(t, f)
    BY <1>2 DEF TypeOK, Current
  <2>2. f # e
    BY <1>4, <2>1 DEF Current
  <2> QED BY <1>1, <2>1, <2>2 DEF TypeOK, Serial, FoundIsExact
<1>6. GuardedEffectOnce'
  <2> SUFFICES ASSUME NEW f \in Events, Guard[f] = "exists"
               PROVE  effects'[f] <= 1
    BY DEF GuardedEffectOnce
  <2>1. effects[f] \in 0 .. EffectCap /\ effects[f] <= 1
    BY DEF TypeOK, Serial, GuardedEffectOnce
  <2>2. CASE f = e /\ ~Skips(d, e)
    <3>1. effects[e] = 0
      BY <1>1, <1>2, <2>2 DEF Skips, Serial, FoundIsExact
    <3> QED BY <1>1, <2>2, <3>1 DEF TypeOK, CountUp
  <2>3. CASE ~(f = e /\ ~Skips(d, e))
    BY <1>1, <2>1, <2>3 DEF TypeOK
  <2> QED BY <2>2, <2>3
<1> QED BY <1>3, <1>5, <1>6 DEF Serial

LEMMA SerialStep == TypeOK /\ Apart /\ Serial /\ [Next]_vars => Serial'
<1> SUFFICES ASSUME TypeOK, Apart, Serial, [Next]_vars
             PROVE  Serial'
  OBVIOUS
<1> USE DEF TypeOK
<1>1. ASSUME NEW e \in Events, Emit(e)
      PROVE  Serial'
  BY <1>1 DEF Emit, Serial, HeldIsOpen, FoundIsExact, GuardedEffectOnce, Current
<1>2. ASSUME NEW d \in Drainers, Fetch(d)
      PROVE  Serial'
  <2>1. PICK S \in SUBSET Deliverable : batch' = [batch EXCEPT ![d] = S]
    BY <1>2 DEF Fetch
  <2> QED BY <1>2, <2>1 DEF Fetch, Deliverable, Serial, HeldIsOpen, FoundIsExact,
                            GuardedEffectOnce, Current, rows
<1>3. ASSUME NEW d \in Drainers, StartHandlers(d)
      PROVE  Serial'
  <2>1. PICK e \in Events : Current(d, e) /\ found' = [found EXCEPT ![d] = effects[e] > 0]
    BY <1>3 DEF StartHandlers
  <2>2. UNCHANGED <<status, effects, batch>>
    BY <1>3 DEF StartHandlers, rows
  <2>3. ~found'[d] => effects[e] = 0
    <3>1. ASSUME NEW x, x = (effects[e] > 0), found' = [found EXCEPT ![d] = x]
          PROVE  ~found'[d] => ~(effects[e] > 0)
      <4>1. found'[d] = x
        BY <3>1
      <4> QED BY <3>1, <4>1, Zenon
    <3>2. ~(effects[e] > 0) => effects[e] = 0
      OBVIOUS
    <3> QED BY <2>1, <3>1, <3>2
  <2>4. \A t \in Drainers : t # d => found'[t] = found[t] /\ pc'[t] = pc[t]
    BY <1>3, <2>1 DEF StartHandlers
  <2>5. \A f \in Events : Current(d, f) => f = e
    BY <2>1, CurrentIsUnique
  <2>6. FoundIsExact'
    BY <2>2, <2>3, <2>4, <2>5 DEF Serial, FoundIsExact, Current
  <2> QED BY <2>2, <2>6 DEF Serial, HeldIsOpen, GuardedEffectOnce
<1>4. ASSUME NEW d \in Drainers, CommitHandlers(d)
      PROVE  Serial'
  BY <1>4, CommitKeepsSerial
<1>5. ASSUME NEW d \in Drainers, HandlersRaise(d)
      PROVE  Serial'
  BY <1>5 DEF HandlersRaise, Serial, HeldIsOpen, FoundIsExact, GuardedEffectOnce, Current, rows
<1>6. ASSUME NEW d \in Drainers, MarkProcessed(d) \/ MarkFailed(d)
      PROVE  Serial'
  BY <1>6, MarkKeepsSerial
<1>7. ASSUME NEW d \in Drainers, Crash(d)
      PROVE  Serial'
  BY <1>7 DEF Crash, Serial, HeldIsOpen, FoundIsExact, GuardedEffectOnce, Current, rows
<1>8. ASSUME NEW d \in Drainers, NEW e \in Events, Replay(d, e)
      PROVE  Serial'
  BY <1>8 DEF Replay, Serial, HeldIsOpen, FoundIsExact, GuardedEffectOnce, Current
<1>9. CASE UNCHANGED vars
  BY <1>9 DEF vars, rows, Serial, HeldIsOpen, FoundIsExact, GuardedEffectOnce, Current
<1> QED BY <1>1, <1>2, <1>3, <1>4, <1>5, <1>6, <1>7, <1>8, <1>9 DEF Next, Work

LEMMA SerialHolds == Spec /\ []Apart => []Serial
<1>1. Init => Serial
  BY DEF Init, Serial, HeldIsOpen, FoundIsExact, GuardedEffectOnce
<1> QED BY <1>1, TypeCorrect, SerialStep, PTL DEF Spec

\* Only handlers that commit add to an effect, that of an event in hand.
LEMMA DeliveryOfHeld ==
    ASSUME TypeOK, [Next]_vars, NEW e \in Events, effects'[e] > effects[e]
    PROVE  \E d \in Drainers : e \in batch[d]
<1> USE DEF TypeOK
<1>1. effects' # effects
  OBVIOUS
<1>2. PICK d \in Drainers : CommitHandlers(d)
  BY <1>1 DEF Next, Work, Emit, Fetch, StartHandlers, HandlersRaise, MarkProcessed,
              MarkFailed, Advance, Crash, Replay, vars
<1>3. PICK f \in Events :
        /\ Current(d, f)
        /\ effects' = [effects EXCEPT ![f] = IF Skips(d, f) THEN @ ELSE CountUp(@)]
  BY <1>2 DEF CommitHandlers
<1>4. e = f
  BY <1>3
<1> QED BY <1>3, <1>4 DEF Current

(* A handler that only looks for its own rows takes effect once, over any  *)
(* crashes, retries and replays, so long as no two drainers ever have the  *)
(* same event in hand; the code does nothing to see to that, and the run   *)
(* outbox_duplicate shows what happens when they do.                       *)
THEOREM LookingFirstSuffices == Spec /\ []Apart => []GuardedEffectOnce
<1>1. Serial => GuardedEffectOnce
  BY DEF Serial
<1> QED BY <1>1, SerialHolds, PTL

(* Under the same proviso an event marked processed is never delivered     *)
(* again, whatever its handlers do.                                        *)
THEOREM DeliveredOnce == Spec /\ []Apart => NotDeliveredAgain
<1>1. ASSUME TypeOK, Serial, [Next]_vars
      PROVE  [\A e \in Events : effects'[e] > effects[e] => status[e] # "processed"]_vars
  <2> SUFFICES ASSUME NEW e \in Events, effects'[e] > effects[e]
               PROVE  status[e] # "processed"
    OBVIOUS
  <2>1. \E d \in Drainers : e \in batch[d]
    BY <1>1, DeliveryOfHeld
  <2> QED BY <1>1, <2>1 DEF Serial, HeldIsOpen
<1> QED BY <1>1, TypeCorrect, SerialHolds, PTL DEF Spec, NotDeliveredAgain

(* One drainer at a time is enough: a queue drained by a single process    *)
(* takes every guarded effect once and delivers nothing again.             *)
THEOREM OneDrainerSuffices ==
    ASSUME \A d, t \in Drainers : d = t
    PROVE  Spec => []GuardedEffectOnce /\ NotDeliveredAgain
<1>1. Apart
  BY DEF Apart
<1> QED BY <1>1, LookingFirstSuffices, DeliveredOnce, PTL
=============================================================================
