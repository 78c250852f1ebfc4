------------------------------ MODULE MCOffice -------------------------------
(* Small instances of Office.                                              *)
EXTENDS Office, TLC

CONSTANTS s1, s2, o1, c1, ph1, e1, i1, n1, l1, l2, q1, v1, v2, d1, t1, t2,
          large, u1, u2, r1, r2

MCOrderOf == [c \in ChangeIds |-> o1]
MCNewDate == [c \in ChangeIds |-> 2]
MCDelta == [c \in ChangeIds |-> 1]
MCBilledTo == [i \in InvoiceIds |-> o1]
MCRequiredRole == [r \in ApprovalRules |-> r1]
MCThreshold == [r \in ApprovalRules |-> 1]
MCValue == [d \in Documents |-> 2]

Nobody(requests) == \A s \in Sessions : req[s] \notin requests
AtStart(f, row) == \A x \in DOMAIN f : f[x] = row

(* The desks refuse nothing to each other, so the instance looks at one of *)
(* them at a time: the order with its project, the money of the project,   *)
(* sourcing, approvals by the first administrator, administration.         *)
TradeUntouched ==
    /\ AtStart(order, NewOrder) /\ AtStart(applied, 0)
    /\ Nobody(SalesRequests \cup ScheduleRequests \cup FinanceRequests)
ChangesUntouched ==
    /\ AtStart(phase, NoPhase) /\ AtStart(applied, 0)
    /\ \A o \in OrderIds : project[o].committed = project[o].first
MoneyUntouched == AtStart(expense, NoExpense) /\ Nobody(FinanceRequests)
SourcingUntouched == AtStart(need, NoNeed) /\ Nobody(SourcingRequests)
DocumentsUntouched ==
    /\ \A d \in Documents : document[d].rounds = 0
    /\ \A s \in Sessions : req[s].op \notin {"act", "finalize", "edit"}
AccountsUntouched ==
    /\ \A u \in Users : account[u].roles = {} /\ account[u].exists = (u = FirstAdministrator)
    /\ AtStart(role, {})
    /\ \A s \in Sessions : req[s].op \notin {"set_active", "set_administrator", "set_roles", "delete_role"}

\* Administration plays with the role no rule requires.
RequiredRoleKept ==
    /\ role[r1] = {}
    /\ \A u \in Users : r1 \notin account[u].roles
    /\ \A s \in Sessions : req[s].op = "set_roles" => r1 \notin req[s].chosen

Apart ==
    \/ /\ SourcingUntouched /\ DocumentsUntouched /\ AccountsUntouched
       /\ MoneyUntouched \/ ChangesUntouched
    \/ TradeUntouched /\ DocumentsUntouched /\ AccountsUntouched
    \/ TradeUntouched /\ SourcingUntouched /\ AccountsUntouched
    \/ TradeUntouched /\ SourcingUntouched /\ DocumentsUntouched /\ RequiredRoleKept

Symmetry ==
    Permutations(Sessions) \cup Permutations(Vendors) \cup Permutations(NeedLines)
        \cup Permutations(Terms)
=============================================================================
