------------------------------- MODULE Finance -------------------------------
(***************************************************************************)
(* Site expenses and client invoices, which post to the cost ledger of the *)
(* project, and the figures the dashboards take from it: finance/          *)
(* services.py, issue_invoice of sales/services.py, reporting/services.py. *)
(*                                                                         *)
(* Approving and issuing test the status of the copy a page read, then     *)
(* post; nothing in the ledger keeps a document from being posted twice.   *)
(***************************************************************************)
EXTENDS ProjectSchedule

CONSTANTS
    ExpenseIds,
    InvoiceIds,
    BilledTo,   \* the order each invoice bills
    Amounts     \* of an expense or an invoice

VARIABLES
    expense,    \* the SiteExpense rows
    invoice,    \* the ClientInvoice rows
    entries     \* the sum of the CostEntry rows, per project and category

money == <<expense, invoice, entries>>

NoExpense == [status |-> "absent", project |-> "none", amount |-> 0]
ExpenseRows ==
    [status : {"absent", "submitted", "approved"}, project : OrderIds \cup {"none"},
     amount : Nat]

InvoiceRows == [status : {"draft", "issued"}, amount : Nat]

MoneyCategories == {"SITE_EXPENSE", "REVENUE"}

FinanceInit ==
    /\ expense = [e \in ExpenseIds |-> NoExpense]
    /\ invoice \in [InvoiceIds -> [status : {"draft"}, amount : Amounts]]
    /\ entries = [o \in OrderIds |-> [c \in MoneyCategories |-> 0]]

FinanceRequests == [op : {"approve_expense"}, expense : ExpenseIds]
                       \cup [op : {"issue"}, invoice : InvoiceIds]

-----------------------------------------------------------------------------
SubmitExpense(e, o, n) ==
    /\ expense[e] = NoExpense
    /\ project[o].exists
    /\ expense' = [expense EXCEPT ![e] = [status |-> "submitted", project |-> o, amount |-> n]]
    /\ UNCHANGED <<req, invoice, entries>>

BeginApproveExpense(s, e) ==
    /\ expense[e].status = "submitted"
    /\ Begin(s, [op |-> "approve_expense", expense |-> e])
    /\ UNCHANGED money

\* Mutant: the claim is marked, and not posted.
MutWriteApprovedExpense(s) ==
    /\ req[s].op = "approve_expense"
    /\ expense' = [expense EXCEPT ![req[s].expense].status = "approved"]
    /\ Finish(s)
    /\ UNCHANGED <<invoice, entries>>

WriteApprovedExpense(s) ==
    /\ req[s].op = "approve_expense"
    /\ LET e == req[s].expense
       IN  /\ expense' = [expense EXCEPT ![e].status = "approved"]
           /\ entries' = [entries EXCEPT
                  ![expense[e].project]["SITE_EXPENSE"] = @ + expense[e].amount]
    /\ Finish(s)
    /\ UNCHANGED invoice

(* The lot of the invoice must have reached a project.                     *)
BeginIssue(s, i) ==
    /\ invoice[i].status = "draft"
    /\ project[BilledTo[i]].lots > 0
    /\ Begin(s, [op |-> "issue", invoice |-> i])
    /\ UNCHANGED money

\* Mutant: revenue is posted with the sign of a cost.
MutWriteIssued(s) ==
    /\ req[s].op = "issue"
    /\ LET i == req[s].invoice
       IN  /\ invoice' = [invoice EXCEPT ![i].status = "issued"]
           /\ entries' = [entries EXCEPT ![BilledTo[i]]["REVENUE"] = @ - invoice[i].amount]
    /\ Finish(s)
    /\ UNCHANGED expense

WriteIssued(s) ==
    /\ req[s].op = "issue"
    /\ LET i == req[s].invoice
       IN  /\ invoice' = [invoice EXCEPT ![i].status = "issued"]
           /\ entries' = [entries EXCEPT ![BilledTo[i]]["REVENUE"] = @ + invoice[i].amount]
    /\ Finish(s)
    /\ UNCHANGED expense

FinanceNext ==
    \/ \E e \in ExpenseIds, o \in OrderIds, n \in Amounts : SubmitExpense(e, o, n)
    \/ \E s \in Sessions :
        \/ \E e \in ExpenseIds : BeginApproveExpense(s, e)
        \/ WriteApprovedExpense(s)
        \/ \E i \in InvoiceIds : BeginIssue(s, i)
        \/ WriteIssued(s)

-----------------------------------------------------------------------------
FinanceTypeOK ==
    /\ expense \in [ExpenseIds -> ExpenseRows]
    /\ invoice \in [InvoiceIds -> InvoiceRows]
    /\ entries \in [OrderIds -> [MoneyCategories -> Nat]]

\* The claims on a project in a status, and its invoices, at their amounts.
Claimed(o, status) ==
    [e \in ExpenseIds |->
        IF expense[e].project = o /\ expense[e].status = status THEN expense[e].amount ELSE 0]
Billed(o) ==
    [i \in InvoiceIds |->
        IF BilledTo[i] = o /\ invoice[i].status = "issued" THEN invoice[i].amount ELSE 0]

\* The figures of the expense sheet, from the ledger and from the documents.
expense_total(o) == entries[o]["SITE_EXPENSE"]
revenue_total(o) == entries[o]["REVENUE"]
pending_total(o) == SumFunction(Claimed(o, "submitted"))
expense_breakdown(o) == SumFunction(Claimed(o, "approved"))
IssuedTo(o) == SumFunction(Billed(o))

\* As often as there are sessions that may have read the same draft.
Posted(total, documents) ==
    documents <= total /\ total <= documents * Cardinality(Sessions)

(* The expense sheet: its total is the ledger's, its breakdown that of the *)
(* claims.  A claim or an invoice that reads as settled is in the ledger,  *)
(* one that does not is not, and no more often than requests overlapped.   *)
SheetCoversClaims ==
    \A o \in OrderIds :
        /\ Posted(expense_total(o), expense_breakdown(o))
        /\ Posted(revenue_total(o), IssuedTo(o))
=============================================================================
