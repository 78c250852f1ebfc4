------------------------------- MODULE Office --------------------------------
(***************************************************************************)
(* The work at the desks, side by side: orders, their projects and money;  *)
(* sourcing; approvals and administration.  Any session may do any of it.  *)
(***************************************************************************)
EXTENDS Finance, Sourcing, Approvals

ASSUME OfficeAssumption ==
    /\ IsFiniteSet(Sessions) /\ IsFiniteSet(ChangeIds) /\ IsFiniteSet(ExpenseIds)
    /\ IsFiniteSet(InvoiceIds) /\ IsFiniteSet(Vendors)
    /\ "none" \notin OrderIds \cup NeedIds \cup Vendors
    /\ LastDate \in Nat /\ MaxLots \in Nat /\ MaxApplied \in Nat
    /\ OrderOf \in [ChangeIds -> OrderIds]
    /\ NewDate \in [ChangeIds -> 0 .. LastDate]
    /\ Delta \in [ChangeIds -> Int]
    /\ BilledTo \in [InvoiceIds -> OrderIds]
    /\ Amounts \subseteq Nat
    /\ MINIMUM_VENDORS \in Nat /\ Ceiling \in Nat /\ MaxOrders \in Nat /\ MaxRounds \in Nat
    /\ RequiredRole \in [ApprovalRules -> Roles]
    /\ FirstAdministrator \in Users

schedule == <<project, phase>>
vars == <<req, sales, schedule, money, sourcing, authority>>

Init ==
    /\ NoRequests
    /\ SalesInit
    /\ ScheduleInit
    /\ FinanceInit
    /\ SourcingInit
    /\ ApprovalsInit

Next ==
    \/ SalesNext /\ UNCHANGED <<schedule, money, sourcing, authority>>
    \/ ScheduleNext /\ UNCHANGED <<money, sourcing, authority>>
    \/ FinanceNext /\ UNCHANGED <<sales, schedule, sourcing, authority>>
    \/ SourcingNext /\ UNCHANGED <<sales, schedule, money, authority>>
    \/ ApprovalsNext /\ UNCHANGED <<sales, schedule, money, sourcing>>
    \/ AdministrationNext /\ UNCHANGED <<sales, schedule, money, sourcing>>
    \/ \E s \in Sessions :
        Rollback(s) /\ UNCHANGED <<sales, schedule, money, sourcing, authority>>

Spec == Init /\ [][Next]_vars

-----------------------------------------------------------------------------
TypeOK ==
    /\ req \in [Sessions -> {Idle} \cup SalesRequests \cup ScheduleRequests
                    \cup FinanceRequests \cup SourcingRequests \cup ApprovalRequests]
    /\ SalesTypeOK
    /\ ScheduleTypeOK
    /\ FinanceTypeOK
    /\ SourcingTypeOK
    /\ ApprovalsTypeOK
=============================================================================
