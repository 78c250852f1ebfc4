----------------------------- MODULE CeilingTxn -----------------------------
(***************************************************************************)
(* The BOQ quantity ceiling under concurrent database sessions.            *)
(*                                                                         *)
(* Translated from platform_core/services/ceiling.py.  A session is one    *)
(* web request or worker running one transaction.atomic() block.  Inside   *)
(* it, each call of reserve_headroom or release_headroom                   *)
(*   1. takes the row lock of the BOQ line (SELECT FOR UPDATE),            *)
(*   2. reads a sum over the commitment ledger,                            *)
(*   3. compares and inserts a CommitmentEntry, or raises.                 *)
(* Any other session may run between two of these steps.  The lock and the *)
(* inserted entries belong to the caller's transaction: they are released  *)
(* and published by its commit, and released and dropped by its rollback.  *)
(* Isolation is PostgreSQL's READ COMMITTED: a statement sees what is      *)
(* committed when it starts, and its own transaction's writes.             *)
(*                                                                         *)
(* The ledger is append-only and represented by the sums the code takes of *)
(* it, which every inserted entry adds to.                                 *)
(***************************************************************************)
EXTENDS Integers, FiniteSets

CONSTANTS
    Sessions,      \* concurrent database sessions
    Lines,         \* BOQ lines
    Docs,          \* (document_type, document_id) pairs
    Qtys,          \* quantities a document may ask for
    BoqQty,        \* [Lines -> Nat]: BoqLine.quantity, in the smallest unit
    TolerancePct,  \* [Lines -> Nat]: the category's wastage_tolerance_pct
    MaxOps,        \* bound: ceiling calls in one transaction
    MaxOverride,   \* bound: a line takes no new override at or past this
    NoSession      \* owner of a free lock

ASSUME CeilingAssumption ==
    /\ Qtys \subseteq Nat \ {0}
    /\ BoqQty \in [Lines -> Nat]
    /\ TolerancePct \in [Lines -> Nat]
    /\ MaxOps \in Nat
    /\ MaxOverride \in Nat
    /\ NoSession \notin Sessions

VARIABLES
    pc,          \* where each session is
    req,         \* the call each session is executing
    seen,        \* the sum it read
    ops,         \* calls completed in its transaction
    lock,        \* the session that holds each line's row lock
    committed,   \* committed_qty of each line, from committed entries
    held,        \* document_holding, from committed entries
    overridden,  \* quantity of the committed entries tagged as overrides
    pendQty,     \* the same three sums over each session's own
    pendHeld,    \* uncommitted entries
    pendOver

ledger  == <<committed, held, overridden>>
pending == <<pendQty, pendHeld, pendOver>>
vars    == <<pc, req, seen, ops, lock, ledger, pending>>

-----------------------------------------------------------------------------
Phases == {"idle", "open", "locking", "locked", "read"}

\* "none": no override_actor; "blank": an actor and a blank reason.
Overrides == {"none", "blank", "reasoned"}

Requests ==
    [kind : {"reserve"}, line : Lines, doc : Docs, qty : Qtys, override : Overrides]
    \cup [kind : {"release"}, line : Lines, doc : Docs, qty : Qtys]

NoRequest == [kind |-> "none"]

Calling(s) == pc[s] \in {"locking", "locked", "read"}

Zero == [l \in Lines |-> 0]
ZeroHeld == [l \in Lines |-> [d \in Docs |-> 0]]

TypeOK ==
    /\ pc \in [Sessions -> Phases]
    /\ req \in [Sessions -> Requests \cup {NoRequest}]
    /\ \A s \in Sessions : Calling(s) => req[s] \in Requests
    /\ seen \in [Sessions -> Int]
    /\ ops \in [Sessions -> Nat]
    /\ lock \in [Lines -> Sessions \cup {NoSession}]
    /\ committed \in [Lines -> Int]
    /\ held \in [Lines -> [Docs -> Int]]
    /\ overridden \in [Lines -> Nat]
    /\ pendQty \in [Sessions -> [Lines -> Int]]
    /\ pendHeld \in [Sessions -> [Lines -> [Docs -> Int]]]
    /\ pendOver \in [Sessions -> [Lines -> Nat]]

Init ==
    /\ pc = [s \in Sessions |-> "idle"]
    /\ req = [s \in Sessions |-> NoRequest]
    /\ seen = [s \in Sessions |-> 0]
    /\ ops = [s \in Sessions |-> 0]
    /\ lock = [l \in Lines |-> NoSession]
    /\ committed = Zero
    /\ held = ZeroHeld
    /\ overridden = Zero
    /\ pendQty = [s \in Sessions |-> Zero]
    /\ pendHeld = [s \in Sessions |-> ZeroHeld]
    /\ pendOver = [s \in Sessions |-> Zero]

-----------------------------------------------------------------------------
(* The reads.  Each is a query run by session s, so it sees the committed  *)
(* entries and those s itself has inserted.                                *)

\* Quantities are whole multiples of the smallest unit (the ledger keeps four
\* decimals), so comparing with the exact percentage and with its floor agree.
tolerance_for(l) == (BoqQty[l] * TolerancePct[l]) \div 100

ceiling_for(l) == BoqQty[l] + tolerance_for(l)

committed_qty(s, l) == committed[l] + pendQty[s][l]

document_holding(s, l, d) == held[l][d] + pendHeld[s][l][d]

-----------------------------------------------------------------------------
(* A session opens transaction.atomic(). *)
Begin(s) ==
    /\ pc[s] = "idle"
    /\ pc' = [pc EXCEPT ![s] = "open"]
    /\ UNCHANGED <<req, seen, ops, lock, ledger, pending>>

(* A service calls reserve_headroom or release_headroom.  Qtys holds only  *)
(* positive quantities and the session is inside its transaction: any      *)
(* other call raises before it touches the database.                       *)
Call(s, r) ==
    /\ pc[s] = "open"
    /\ ops[s] < MaxOps
    /\ (r.kind = "reserve" /\ r.override = "reasoned") => overridden[r.line] < MaxOverride
    /\ pc' = [pc EXCEPT ![s] = "locking"]
    /\ req' = [req EXCEPT ![s] = r]
    /\ UNCHANGED <<seen, ops, lock, ledger, pending>>

\* Mutant: the row is read without FOR UPDATE.
MutLockLine(s) ==
    /\ pc[s] = "locking"
    /\ pc' = [pc EXCEPT ![s] = "locked"]
    /\ UNCHANGED <<req, seen, ops, lock, ledger, pending>>

(* SELECT FOR UPDATE of the BOQ line row: waits while another transaction  *)
(* holds it; a transaction may lock again a row it already holds.          *)
LockLine(s) ==
    /\ pc[s] = "locking"
    /\ lock[req[s].line] \in {NoSession, s}
    /\ pc' = [pc EXCEPT ![s] = "locked"]
    /\ lock' = [lock EXCEPT ![req[s].line] = s]
    /\ UNCHANGED <<req, seen, ops, ledger, pending>>

\* Mutant: a release is compared with the line's total, not the document's.
MutReadLedger(s) ==
    /\ pc[s] = "locked"
    /\ pc' = [pc EXCEPT ![s] = "read"]
    /\ seen' = [seen EXCEPT ![s] = committed_qty(s, req[s].line)]
    /\ UNCHANGED <<req, ops, lock, ledger, pending>>

(* The sum the decision rests on: the line's total for a reservation, the  *)
(* document's own holding for a release.                                   *)
ReadLedger(s) ==
    /\ pc[s] = "locked"
    /\ pc' = [pc EXCEPT ![s] = "read"]
    /\ seen' = [seen EXCEPT ![s] =
                    IF req[s].kind = "reserve"
                    THEN committed_qty(s, req[s].line)
                    ELSE document_holding(s, req[s].line, req[s].doc)]
    /\ UNCHANGED <<req, ops, lock, ledger, pending>>

\* Mutant: any headroom left is enough, whatever the quantity.
MutFits(s) == ceiling_for(req[s].line) - seen[s] > 0

\* reserve_headroom's test, on the sum the session read.
Fits(s) == req[s].qty <= ceiling_for(req[s].line) - seen[s]

\* Whether the call inserts its entry rather than raise CeilingExceeded,
\* ValueError (an override with a blank reason) or OverRelease.
Permitted(s) ==
    IF req[s].kind = "reserve"
    THEN Fits(s) \/ req[s].override = "reasoned"
    ELSE req[s].qty <= seen[s]

\* The signed quantity of the entry, and the part of it tagged as an override.
QtyDelta(s) == IF req[s].kind = "reserve" THEN req[s].qty ELSE - req[s].qty

\* Mutant: every entry past the ceiling is tagged, releases too.
MutOverrideDelta(s) == IF Fits(s) THEN 0 ELSE QtyDelta(s)

OverrideDelta(s) ==
    IF req[s].kind = "reserve" /\ ~Fits(s) THEN req[s].qty ELSE 0

\* Mutant: an inner transaction frees the row as soon as the entry is in.
MutInsertEntry(s) ==
    /\ pc[s] = "read"
    /\ Permitted(s)
    /\ pendQty' = [pendQty EXCEPT ![s][req[s].line] = @ + QtyDelta(s)]
    /\ pendHeld' = [pendHeld EXCEPT ![s][req[s].line][req[s].doc] = @ + QtyDelta(s)]
    /\ pendOver' = [pendOver EXCEPT ![s][req[s].line] = @ + OverrideDelta(s)]
    /\ lock' = [lock EXCEPT ![req[s].line] = NoSession]
    /\ pc' = [pc EXCEPT ![s] = "open"]
    /\ req' = [req EXCEPT ![s] = NoRequest]
    /\ seen' = [seen EXCEPT ![s] = 0]
    /\ ops' = [ops EXCEPT ![s] = @ + 1]
    /\ UNCHANGED ledger

InsertEntry(s) ==
    /\ pc[s] = "read"
    /\ Permitted(s)
    /\ LET l == req[s].line
           d == req[s].doc
       IN  /\ pendQty' = [pendQty EXCEPT ![s][l] = @ + QtyDelta(s)]
           /\ pendHeld' = [pendHeld EXCEPT ![s][l][d] = @ + QtyDelta(s)]
           /\ pendOver' = [pendOver EXCEPT ![s][l] = @ + OverrideDelta(s)]
    /\ pc' = [pc EXCEPT ![s] = "open"]
    /\ req' = [req EXCEPT ![s] = NoRequest]
    /\ seen' = [seen EXCEPT ![s] = 0]
    /\ ops' = [ops EXCEPT ![s] = @ + 1]
    /\ UNCHANGED <<lock, ledger>>

-----------------------------------------------------------------------------
\* The end of the transaction, either way, frees its locks and its entries.
EndTransaction(s) ==
    /\ pc' = [pc EXCEPT ![s] = "idle"]
    /\ req' = [req EXCEPT ![s] = NoRequest]
    /\ seen' = [seen EXCEPT ![s] = 0]
    /\ ops' = [ops EXCEPT ![s] = 0]
    /\ lock' = [l \in Lines |-> IF lock[l] = s THEN NoSession ELSE lock[l]]
    /\ pendQty' = [pendQty EXCEPT ![s] = Zero]
    /\ pendHeld' = [pendHeld EXCEPT ![s] = ZeroHeld]
    /\ pendOver' = [pendOver EXCEPT ![s] = Zero]

Commit(s) ==
    /\ pc[s] = "open"
    /\ committed' = [l \in Lines |-> committed[l] + pendQty[s][l]]
    /\ held' = [l \in Lines |-> [d \in Docs |-> held[l][d] + pendHeld[s][l][d]]]
    /\ overridden' = [l \in Lines |-> overridden[l] + pendOver[s][l]]
    /\ EndTransaction(s)

(* The call raises; no caller catches it inside the atomic block.          *)
Refuse(s) ==
    /\ pc[s] = "read"
    /\ ~Permitted(s)
    /\ EndTransaction(s)
    /\ UNCHANGED ledger

(* The caller raises for a reason of its own, or its process or connection *)
(* dies: the database rolls the transaction back.                          *)
Rollback(s) ==
    /\ pc[s] # "idle"
    /\ EndTransaction(s)
    /\ UNCHANGED ledger

\* The session that holds the row s waits for.
Blocker(s) == lock[req[s].line]

Waiting(s) == pc[s] = "locking" /\ Blocker(s) \notin {NoSession, s}

\* Sessions that wait for one another in a circle.
Deadlocked(S) ==
    /\ S # {}
    /\ \A s \in S : Waiting(s)
    /\ {Blocker(s) : s \in S} = S

\* Mutant: nobody detects the cycle.
MutDeadlockVictim(s) == FALSE

(* PostgreSQL's deadlock detector cancels one of the sessions of a cycle.  *)
DeadlockVictim(s) ==
    /\ \E S \in SUBSET Sessions : s \in S /\ Deadlocked(S)
    /\ EndTransaction(s)
    /\ UNCHANGED ledger

-----------------------------------------------------------------------------
Next ==
    \E s \in Sessions :
        \/ Begin(s)
        \/ \E r \in Requests : Call(s, r)
        \/ LockLine(s)
        \/ ReadLedger(s)
        \/ InsertEntry(s)
        \/ Refuse(s)
        \/ Commit(s)
        \/ Rollback(s)
        \/ DeadlockVictim(s)

Spec == Init /\ [][Next]_vars

(* A handler that has started runs to its end; a row lock that keeps being *)
(* freed is eventually granted (PostgreSQL queues its waiters); and the    *)
(* deadlock detector runs.  No session is obliged to begin, to make a      *)
(* further call, or to fail.                                               *)
Fairness ==
    \A s \in Sessions :
        /\ WF_vars(ReadLedger(s) \/ InsertEntry(s) \/ Refuse(s) \/ Commit(s))
        /\ SF_vars(LockLine(s))
        /\ WF_vars(DeadlockVictim(s))

FairSpec == Spec /\ Fairness

-----------------------------------------------------------------------------
(* Every committed transaction stays within what the atomic contract       *)
(* allows one step, and an aborted one publishes nothing.                  *)
Contract == INSTANCE CeilingContract
    WITH Ceilings <- [l \in Lines |-> ceiling_for(l)]

ContractSpec == Contract!Spec

(* However the sessions interleave, a line's committed total passes its    *)
(* ceiling by at most the quantity that logged overrides authorized        *)
(* (reserve_headroom's check under the row lock).                          *)
WithinCeiling ==
    \A l \in Lines : committed[l] <= ceiling_for(l) + overridden[l]

(* No document is ever left holding a negative quantity: release_headroom  *)
(* refuses to give back more than the document holds, also when two        *)
(* releases of one document race.                                          *)
NeverOverReleased ==
    \A l \in Lines, d \in Docs : held[l][d] >= 0

(* When a session compares and inserts, the sum it read is still the sum   *)
(* the ledger would give: nobody can have changed it since it took the row *)
(* lock.  Both a missed and a false refusal come from breaking this.       *)
DecisionOnFreshRead ==
    \A s \in Sessions :
        pc[s] = "read" =>
            seen[s] = IF req[s].kind = "reserve"
                      THEN committed_qty(s, req[s].line)
                      ELSE document_holding(s, req[s].line, req[s].doc)

(* The inductive invariant behind all of these, in four parts.  A session  *)
(* past its lock statement owns the row; ...                               *)
OwnsItsLine ==
    \A s \in Sessions : pc[s] \in {"locked", "read"} => lock[req[s].line] = s

(* ... it has uncommitted entries only on rows it owns, so at most one     *)
(* session has uncommitted entries on a line; ...                          *)
PendingOnlyUnderLock ==
    \A s \in Sessions, l \in Lines :
        lock[l] # s =>
            /\ pendQty[s][l] = 0
            /\ pendOver[s][l] = 0
            /\ \A d \in Docs : pendHeld[s][l][d] = 0

(* ... what it would publish respects the ceiling and the documents'       *)
(* holdings, whatever the other sessions do until it commits.              *)
PendingWithinCeiling ==
    \A s \in Sessions, l \in Lines :
        committed_qty(s, l) <= Contract!Larger(committed[l], ceiling_for(l)) + pendOver[s][l]

PendingNeverOverReleased ==
    \A s \in Sessions, l \in Lines, d \in Docs : document_holding(s, l, d) >= 0

LockProtocol ==
    /\ OwnsItsLine
    /\ PendingOnlyUnderLock
    /\ DecisionOnFreshRead
    /\ PendingWithinCeiling
    /\ PendingNeverOverReleased
    /\ WithinCeiling
    /\ NeverOverReleased

(* A transaction that has begun ends, although transactions that reserve   *)
(* several lines take their row locks in whatever order the document lists *)
(* them and can wait for one another in a circle.                          *)
TransactionsEnd ==
    \A s \in Sessions : pc[s] # "idle" ~> pc[s] = "idle"
=============================================================================
