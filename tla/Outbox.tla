------------------------------- MODULE Outbox -------------------------------
(***************************************************************************)
(* The transactional outbox, translated from                               *)
(* platform_core/services/events.py and platform_core/models/outbox.py.    *)
(*                                                                         *)
(* Any number of drainers run drain() at the same time: every web request  *)
(* that has just emitted an event, the Celery task, the drain_outbox       *)
(* command.  Nothing locks the rows they work on.  A drainer reads a batch *)
(* of rows into memory and then, for each event of its batch, runs the     *)
(* handlers in one transaction and, after that transaction has committed,  *)
(* saves status and attempts computed from the copy it read.  A process    *)
(* may die between any two of these steps.                                 *)
(*                                                                         *)
(* What an event's handlers do is abstracted to how often their effect has *)
(* been committed, and to how they protect themselves from a redelivery.   *)
(***************************************************************************)
EXTENDS Integers, FiniteSets

CONSTANTS
    Events,       \* event ids, numbered in the order of created_at
    Drainers,     \* processes that may run drain()
    Guard,        \* [Events -> Guards]: the handlers' own protection
    Failing,      \* [Events -> {"never", "sometimes", "always"}]
    MaxAttempts,  \* settings.OUTBOX_MAX_ATTEMPTS
    Limit,        \* drain's limit
    EffectCap,    \* bound: effects are counted up to this
    MaxCrashes,   \* bound: process deaths
    MaxReplays    \* bound: replays by an administrator

\* "none": _fan_out adds notifications each time it runs.
\* "exists": _expect_receipts, _reconcile_on_release and
\*           _request_deltas_on_release look for their own rows first.
\* "unique": initiate_project looks as well, and the unique project code
\*           refuses the second row of a race.
Guards == {"none", "exists", "unique"}

ASSUME OutboxAssumption ==
    /\ Events \subseteq Nat
    /\ Guard \in [Events -> Guards]
    /\ Failing \in [Events -> {"never", "sometimes", "always"}]
    /\ MaxAttempts \in Nat \ {0}
    /\ Limit \in Nat \ {0}
    /\ EffectCap \in Nat \ {0}
    /\ MaxCrashes \in Nat
    /\ MaxReplays \in Nat

VARIABLES
    status,    \* the status column; "absent" before the event is emitted
    attempts,  \* the attempts column
    effects,   \* how often the event's handlers have committed their effect
    pc,        \* where each drainer is
    batch,     \* events it has fetched and not yet dealt with
    copy,      \* the attempts it read with them
    found,     \* whether the handlers' look-up found the effect in place
    crashes, replays

rows == <<status, attempts>>
vars == <<rows, effects, pc, batch, copy, found, crashes, replays>>

Statuses == {"absent", "pending", "processed", "failed", "dead"}
Phases == {"idle", "next", "handling", "succeeded", "raised"}

TypeOK ==
    /\ status \in [Events -> Statuses]
    /\ attempts \in [Events -> Nat]
    /\ effects \in [Events -> 0..EffectCap]
    /\ pc \in [Drainers -> Phases]
    /\ batch \in [Drainers -> SUBSET Events]
    /\ copy \in [Drainers -> [Events -> Nat]]
    /\ found \in [Drainers -> BOOLEAN]
    /\ crashes \in 0..MaxCrashes
    /\ replays \in 0..MaxReplays
    /\ \A d \in Drainers : pc[d] = "idle" <=> batch[d] = {}

NoCopy == [e \in Events |-> 0]

Init ==
    /\ status = [e \in Events |-> "absent"]
    /\ attempts = [e \in Events |-> 0]
    /\ effects = [e \in Events |-> 0]
    /\ pc = [d \in Drainers |-> "idle"]
    /\ batch = [d \in Drainers |-> {}]
    /\ copy = [d \in Drainers |-> NoCopy]
    /\ found = [d \in Drainers |-> FALSE]
    /\ crashes = 0
    /\ replays = 0

-----------------------------------------------------------------------------
(* emit: the row appears when the emitter's transaction commits.  Rows     *)
(* appear in any order; created_at was taken earlier.  A second emit with  *)
(* the same idempotency_key violates its unique constraint and takes the   *)
(* emitter's transaction down with it.                                     *)
Emit(e) ==
    /\ status[e] = "absent"
    /\ status' = [status EXCEPT ![e] = "pending"]
    /\ UNCHANGED <<attempts, effects, pc, batch, copy, found, crashes, replays>>

\* Mutant: the query does not filter on status.
MutDeliverable == {e \in Events : status[e] # "absent"}

Deliverable == {e \in Events : status[e] \in {"pending", "failed"}}

\* drain's query: the oldest Limit of the deliverable events.
Oldest(S) ==
    /\ S \subseteq Deliverable
    /\ \A e \in S, f \in Deliverable \ S : e < f
    /\ Cardinality(S) <= Limit
    /\ S # Deliverable => Cardinality(S) = Limit

Fetch(d) ==
    /\ pc[d] = "idle"
    /\ Deliverable # {}
    /\ \E S \in SUBSET Deliverable :
        /\ Oldest(S)
        /\ batch' = [batch EXCEPT ![d] = S]
        /\ copy' = [copy EXCEPT ![d] = [e \in Events |-> IF e \in S THEN attempts[e] ELSE 0]]
    /\ pc' = [pc EXCEPT ![d] = "next"]
    /\ UNCHANGED <<rows, effects, found, crashes, replays>>

\* e is the event the drainer deals with now.
Current(d, e) == e \in batch[d] /\ \A f \in batch[d] : e <= f

(* dispatch opens its transaction and the handlers look whether their      *)
(* effect is in place already.                                             *)
StartHandlers(d) ==
    /\ pc[d] = "next"
    /\ \E e \in Events : Current(d, e) /\ found' = [found EXCEPT ![d] = effects[e] > 0]
    /\ pc' = [pc EXCEPT ![d] = "handling"]
    /\ UNCHANGED <<rows, effects, batch, copy, crashes, replays>>

\* Mutant: the handlers do not look for their own rows.
MutSkips(d, e) == FALSE

\* The handlers return without adding their effect again.
Skips(d, e) == Guard[e] # "none" /\ found[d]

\* Mutant: the column is not unique.
MutCollides(d, e) == FALSE

\* The insert meets a row that was committed after the look-up.
Collides(d, e) == Guard[e] = "unique" /\ ~found[d] /\ effects[e] > 0

CountUp(n) == IF n < EffectCap THEN n + 1 ELSE n

\* Mutant: the event is marked before its handlers commit.
MutCommitHandlers(d) ==
    /\ pc[d] = "handling"
    /\ pc' = [pc EXCEPT ![d] = "succeeded"]
    /\ UNCHANGED <<rows, effects, batch, copy, found, crashes, replays>>

(* Every handler returned: the effect is committed.                        *)
CommitHandlers(d) ==
    /\ pc[d] = "handling"
    /\ \E e \in Events :
        /\ Current(d, e)
        /\ Failing[e] # "always"
        /\ ~Collides(d, e)
        /\ effects' = [effects EXCEPT ![e] = IF Skips(d, e) THEN @ ELSE CountUp(@)]
    /\ pc' = [pc EXCEPT ![d] = "succeeded"]
    /\ UNCHANGED <<rows, batch, copy, found, crashes, replays>>

(* A handler raised: the transaction of the whole chain is rolled back.    *)
HandlersRaise(d) ==
    /\ pc[d] = "handling"
    /\ \E e \in Events : Current(d, e) /\ (Failing[e] # "never" \/ Collides(d, e))
    /\ pc' = [pc EXCEPT ![d] = "raised"]
    /\ UNCHANGED <<rows, effects, batch, copy, found, crashes, replays>>

\* Mutant: the loop goes on past the end of the batch.
MutAdvance(d, e) ==
    /\ batch' = [batch EXCEPT ![d] = @ \ {e}]
    /\ copy' = [copy EXCEPT ![d][e] = 0]
    /\ found' = [found EXCEPT ![d] = FALSE]
    /\ pc' = [pc EXCEPT ![d] = "next"]
    /\ UNCHANGED <<effects, crashes, replays>>

\* The drainer is done with e and takes the next event of its batch.
Advance(d, e) ==
    /\ batch' = [batch EXCEPT ![d] = @ \ {e}]
    /\ copy' = [copy EXCEPT ![d][e] = 0]
    /\ found' = [found EXCEPT ![d] = FALSE]
    /\ pc' = [pc EXCEPT ![d] = IF batch[d] = {e} THEN "idle" ELSE "next"]
    /\ UNCHANGED <<effects, crashes, replays>>

(* event.save after a success: both columns come from the copy.            *)
MarkProcessed(d) ==
    /\ pc[d] = "succeeded"
    /\ \E e \in Events :
        /\ Current(d, e)
        /\ attempts' = [attempts EXCEPT ![e] = copy[d][e] + 1]
        /\ status' = [status EXCEPT ![e] = "processed"]
        /\ Advance(d, e)

\* Mutant: the attempt limit is compared before the attempt is counted.
MutMarkFailed(d) ==
    /\ pc[d] = "raised"
    /\ \E e \in Events :
        /\ Current(d, e)
        /\ attempts' = [attempts EXCEPT ![e] = copy[d][e] + 1]
        /\ status' = [status EXCEPT ![e] =
                          IF copy[d][e] >= MaxAttempts THEN "dead" ELSE "failed"]
        /\ Advance(d, e)

\* Mutant: a failure puts the event back without counting the attempt.
MutMarkFailedUncounted(d) ==
    /\ pc[d] = "raised"
    /\ \E e \in Events :
        /\ Current(d, e)
        /\ status' = [status EXCEPT ![e] = "failed"]
        /\ UNCHANGED attempts
        /\ Advance(d, e)

(* event.save after an exception.                                          *)
MarkFailed(d) ==
    /\ pc[d] = "raised"
    /\ \E e \in Events :
        /\ Current(d, e)
        /\ attempts' = [attempts EXCEPT ![e] = copy[d][e] + 1]
        /\ status' = [status EXCEPT ![e] =
                          IF copy[d][e] + 1 >= MaxAttempts THEN "dead" ELSE "failed"]
        /\ Advance(d, e)

(* The process dies, or the database refuses it: its memory and its open   *)
(* transaction are gone, what it committed stays.                          *)
Crash(d) ==
    /\ pc[d] # "idle"
    /\ crashes < MaxCrashes
    /\ crashes' = crashes + 1
    /\ pc' = [pc EXCEPT ![d] = "idle"]
    /\ batch' = [batch EXCEPT ![d] = {}]
    /\ copy' = [copy EXCEPT ![d] = NoCopy]
    /\ found' = [found EXCEPT ![d] = FALSE]
    /\ UNCHANGED <<rows, effects, replays>>

(* replay, called from a shell: the event returns to the queue and is      *)
(* dispatched at once.  It is meant for dead letters, but does not look at *)
(* the status: an event processed already is delivered again.              *)
Replay(d, e) ==
    /\ pc[d] = "idle"
    /\ status[e] # "absent"
    /\ replays < MaxReplays
    /\ replays' = replays + 1
    /\ status' = [status EXCEPT ![e] = "pending"]
    /\ attempts' = [attempts EXCEPT ![e] = 0]
    /\ batch' = [batch EXCEPT ![d] = {e}]
    /\ copy' = [copy EXCEPT ![d] = NoCopy]
    /\ pc' = [pc EXCEPT ![d] = "next"]
    /\ UNCHANGED <<effects, found, crashes>>

Work(d) ==
    \/ StartHandlers(d) \/ CommitHandlers(d) \/ HandlersRaise(d)
    \/ MarkProcessed(d) \/ MarkFailed(d)

Next ==
    \/ \E e \in Events : Emit(e)
    \/ \E d \in Drainers : Fetch(d) \/ Work(d) \/ Crash(d)
    \/ \E d \in Drainers, e \in Events : Replay(d, e)

Spec == Init /\ [][Next]_vars
(* A drainer that has fetched a batch works through it (bounded deaths     *)
(* aside).  Nobody has to start a drain: there is no schedule.             *)
WorkIsFair == \A d \in Drainers : WF_vars(Work(d))

WorkingSpec == Spec /\ WorkIsFair

\* Every drainer keeps starting drains, as when requests keep arriving.
FairSpec == WorkingSpec /\ \A d \in Drainers : WF_vars(Fetch(d))

\* An event that waits is not left without anybody ever draining again.
DrainsGoOn == WF_vars(\E d \in Drainers : Fetch(d))

-----------------------------------------------------------------------------
(* An event marked processed has had its effect: no interleaving of        *)
(* drainers, stale copies and crashes marks one that never took effect.    *)
ProcessedTookEffect ==
    \A e \in Events : status[e] = "processed" => effects[e] > 0

(* The status and attempts columns, written from copies that may be stale, *)
(* stay consistent with each other: an event has been given up exactly     *)
(* when its attempts are used up, and a queued one has an attempt left.    *)
RetriesMatchStatus ==
    \A e \in Events :
        /\ status[e] \in {"absent", "pending"} => attempts[e] = 0
        /\ status[e] = "failed" => attempts[e] \in 1..(MaxAttempts - 1)
        /\ status[e] = "dead" => attempts[e] = MaxAttempts
        /\ status[e] = "processed" => attempts[e] \in 1..MaxAttempts

(* Handlers that look first and have a unique column behind them take      *)
(* effect at most once however many drainers race (initiate_project).      *)
UniqueEffectOnce ==
    \A e \in Events : Guard[e] = "unique" => effects[e] <= 1

(* A handler that only looks first takes effect at most once               *)
(* (_expect_receipts, _reconcile_on_release, _request_deltas_on_release,  *)
(* whose comments "at-least-once delivery" rely on it).                    *)
GuardedEffectOnce ==
    \A e \in Events : Guard[e] = "exists" => effects[e] <= 1

(* A delivered event is not delivered again.                               *)
NotDeliveredAgain ==
    [][\A e \in Events : effects'[e] > effects[e] => status[e] # "processed"]_vars

(* As long as somebody goes on draining, every emitted event is in the end *)
(* processed or given up and stays so, replays being bounded: a drainer    *)
(* with an old copy can reopen a settled event (dispatch saves status and  *)
(* attempts from it), and drainers can reopen it for one another, but each *)
(* save counts up from the copy it was made with, and so the smallest      *)
(* count in the row and in the copies rises until no attempt is left.      *)
EventuallySettled ==
    DrainsGoOn =>
        \A e \in Events :
            status[e] = "pending" ~> [](status[e] \in {"processed", "dead"})

(* An event whose handlers never raise by themselves ends up processed and *)
(* stays processed, whatever the other events do.                          *)
GoodEventsDelivered ==
    \A e \in Events :
        Failing[e] = "never" => (status[e] = "pending" ~> [](status[e] = "processed"))

-----------------------------------------------------------------------------
(* The inductive invariant: a drainer about to record a success has seen   *)
(* the effect in place, and every copy it holds has an attempt left.       *)
CopiesHaveAnAttemptLeft ==
    \A d \in Drainers, e \in Events : e \in batch[d] => copy[d][e] < MaxAttempts

SuccessTookEffect ==
    \A d \in Drainers, e \in Events :
        (Current(d, e) /\ pc[d] = "succeeded") => effects[e] > 0

FoundIsTrue ==
    \A d \in Drainers, e \in Events :
        (Current(d, e) /\ pc[d] = "handling" /\ found[d]) => effects[e] > 0

Delivery ==
    /\ CopiesHaveAnAttemptLeft
    /\ SuccessTookEffect
    /\ FoundIsTrue
    /\ ProcessedTookEffect
    /\ RetriesMatchStatus
    /\ UniqueEffectOnce
=============================================================================
