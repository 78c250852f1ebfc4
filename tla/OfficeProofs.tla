----------------------------- MODULE OfficeProofs ------------------------------
(***************************************************************************)
(* Proofs about Office: for any number of requests, orders, claims, needs, *)
(* documents and accounts, what one desk hands to the next is grounded in  *)
(* what was decided there, in whatever order the requests write.           *)
(***************************************************************************)
EXTENDS Office, SumLemmas

N == Cardinality(Sessions)

TradeOps == {"confirm", "kick_off", "hold", "change", "initiate", "plan", "extend", "reschedule"}
MoneyOps == {"approve_expense", "issue"}
SourcingOps == {"approve_need", "issue_rfq", "create_rfq", "award"}
ApprovalOps == {"act", "finalize", "edit"}
AccountOps == {"set_active", "set_administrator", "set_roles", "delete_role"}

-----------------------------------------------------------------------------
(* Orders and projects: the dates that requests carry were given by        *)
(* somebody, and the price that a change order starts from holds no change *)
(* that was not applied.                                                   *)
Given(o) == Promised(o) \cup {0}

CopiesGiven ==
    \A s \in Sessions :
        /\ req[s].op \in {"kick_off", "hold", "initiate"} =>
             req[s].date \in Given(req[s].order)
        /\ req[s].op = "initiate" => order[req[s].order].kickoffs = 1
        /\ req[s].op = "change" =>
             req[s].price <= SumFunction(Additions(OrderOf[req[s].change]))

(* Phases: only a project that exists has any, and the date of a request   *)
(* is below the ceiling, unless an extension has overtaken another.        *)
Reached(o, d) == project[o].overtaken \/ d <= project[o].committed

PlansGrounded ==
    /\ \A o \in OrderIds : ~project[o].exists => project[o] = NoProject
    /\ \A ph \in PhaseIds :
        phase[ph].project \in OrderIds => project[phase[ph].project].exists
    /\ \A ph \in PhaseIds : phase[ph].project = "none" => phase[ph] = NoPhase
    /\ \A s \in Sessions :
        /\ req[s].op \in {"plan", "extend"} => project[req[s].order].exists
        /\ req[s].op = "plan" => Reached(req[s].order, req[s].date)
        /\ req[s].op = "extend" => req[s].previous < req[s].date
        /\ req[s].op = "reschedule" =>
             /\ phase[req[s].phase].project \in OrderIds
             /\ Reached(phase[req[s].phase].project, req[s].date)

OrdersInv == CopiesGiven /\ HandedOver
PlansInv == PlansGrounded /\ PhasesBelowCommitment
TradeInv == OrdersInv /\ PlansInv

(* Money: what the ledger holds and what requests that read a settled      *)
(* document as open may still post is no more than each document once per  *)
(* session.                                                                *)
Covers(total, settled, owed, S) ==
    /\ SumFunctionOnSet(settled, S) <= total
    /\ total + SumFunctionOnSet(owed, S) <= N * SumFunctionOnSet(settled, S)

Approving(q, e) == {s \in Sessions : q[s].op = "approve_expense" /\ q[s].expense = e}
Issuing(q, i) == {s \in Sessions : q[s].op = "issue" /\ q[s].invoice = i}

OwedClaims(q, o) ==
    [e \in ExpenseIds |-> Claimed(o, "approved")[e] * Cardinality(Approving(q, e))]
OwedInvoices(q, o) ==
    [i \in InvoiceIds |-> Billed(o)[i] * Cardinality(Issuing(q, i))]

ClaimsGrounded ==
    /\ \A e \in ExpenseIds : expense[e].status # "absent" => expense[e].project \in OrderIds
    /\ \A s \in Sessions :
        req[s].op = "approve_expense" => expense[req[s].expense].status # "absent"

SheetShared ==
    \A o \in OrderIds :
        /\ Covers(expense_total(o), Claimed(o, "approved"), OwedClaims(req, o), ExpenseIds)
        /\ Covers(revenue_total(o), Billed(o), OwedInvoices(req, o), InvoiceIds)

MoneyInv == ClaimsGrounded /\ SheetShared

(* Sourcing: an RFQ is of a need once approved, and announced if the works *)
(* did not make it; only an RFQ that exists is quoted, and what an award   *)
(* rests on when it is checked stays.                                      *)
Founded(row) == row.announced \/ row.forWorks

Enough(q) == Cardinality(Responded(q)) >= MINIMUM_VENDORS \/ rfq[q].excused

SourcingGrounded ==
    /\ \A n \in NeedIds : need[n].status = "approved" => Founded(need[n])
    /\ \A q \in RfqIds :
        /\ rfq[q].status = "absent" => rfq[q] = NoRfq
        /\ rfq[q].status # "absent" => rfq[q].need \in NeedIds /\ Founded(need[rfq[q].need])
        /\ rfq[q].waived => rfq[q].excused
        /\ \A v \in Vendors : quoted[q][v] # {} => rfq[q].status # "absent"
        /\ \A l \in NeedLines : award[q][l] # NoAward =>
             rfq[q].status # "absent" /\ award[q][l].vendor \in Vendors
    /\ \A s \in Sessions :
        /\ req[s].op = "issue_rfq" => rfq[req[s].rfq].status # "absent"
        /\ req[s].op = "create_rfq" => Founded(need[req[s].need])
        /\ req[s].op = "award" =>
             Enough(req[s].rfq) /\ req[s].line \in quoted[req[s].rfq][req[s].vendor]

SourcingInv == SourcingGrounded /\ AwardsRestOnProcess

(* Approvals: what is approved was approved by somebody, and a request     *)
(* about to lock a document rests on that.  A document that was ever       *)
(* locked is locked with the terms it had, or has been written over.       *)
Supported(d, X) == X # {} /\ \A x \in X : approval[d][x[1]][x[2]].signed

Kept(row) == (row.locked /\ row.terms = row.lockedTerms) \/ row.overridden \/ row.raced

Stands(d, row) ==
    /\ row.locked => row.restsOn # {}
    /\ row.restsOn # {} => Supported(d, row.restsOn) /\ Kept(row)

\* A request about a document, whose rows are documents.
Asked(r, documents) ==
    /\ r.op = "finalize" => Supported(r.document, r.restsOn)
    /\ r.op = "edit" =>
         /\ r.locked => documents[r.document].restsOn # {}
         /\ r.found = "locked" => r.override

ApprovalsGrounded ==
    /\ \A d \in Documents, r \in ApprovalRules, n \in 1 .. MaxRounds :
        approval[d][r][n].status = "approved" => approval[d][r][n].signed
    /\ \A d \in Documents : Stands(d, document[d])
    /\ \A s \in Sessions : Asked(req[s], document)

ApprovalsInv == ApprovalsGrounded /\ LockKeepsTerms

(* Administration: a request to take away rights is about somebody else.   *)
AccountsInv ==
    \A s \in Sessions :
        /\ req[s].op = "set_active" => req[s].user # req[s].by
        /\ req[s].op = "set_administrator" => req[s].user # req[s].by \/ req[s].to

Inv == TypeOK /\ TradeInv /\ MoneyInv /\ SourcingInv /\ ApprovalsInv /\ AccountsInv

-----------------------------------------------------------------------------
(* Requests.                                                               *)

AllRequests ==
    SalesRequests \cup ScheduleRequests \cup FinanceRequests \cup SourcingRequests
        \cup ApprovalRequests
Requesting == [Sessions -> {Idle} \cup AllRequests]

\* Each operation belongs to one desk.
LEMMA Desks ==
    ASSUME NEW r \in {Idle} \cup AllRequests
    PROVE  /\ r.op \in TradeOps => r \in SalesRequests \cup ScheduleRequests
           /\ r.op \in MoneyOps => r \in FinanceRequests
           /\ r.op \in SourcingOps => r \in SourcingRequests
           /\ r.op \in ApprovalOps \cup AccountOps => r \in ApprovalRequests
<1>1. r \in SalesRequests => r.op \in {"confirm", "kick_off", "hold", "change"}
  BY DEF SalesRequests
<1>2. r \in ScheduleRequests => r.op \in {"initiate", "plan", "extend", "reschedule"}
  BY DEF ScheduleRequests
<1>3. r \in FinanceRequests => r.op \in MoneyOps
  BY DEF FinanceRequests, MoneyOps
<1>4. r \in SourcingRequests => r.op \in SourcingOps
  BY DEF SourcingRequests, SourcingOps
<1>5. r \in ApprovalRequests => r.op \in ApprovalOps \cup AccountOps
  BY DEF ApprovalRequests, ApprovalOps, AccountOps
<1>6. Idle.op = "idle"
  BY DEF Idle
<1> QED BY <1>1, <1>2, <1>3, <1>4, <1>5, <1>6
        DEF AllRequests, TradeOps, MoneyOps, SourcingOps, ApprovalOps, AccountOps

\* The fields of the requests of each desk.
LEMMA TradeFields ==
    ASSUME NEW r \in {Idle} \cup AllRequests
    PROVE  /\ r.op \in {"confirm", "kick_off", "hold", "initiate", "plan", "extend"} =>
                r.order \in OrderIds /\ r.date \in 0 .. LastDate
           /\ r.op = "change" => r.change \in ChangeIds /\ r.price \in Int
           /\ r.op = "reschedule" => r.phase \in PhaseIds /\ r.date \in Dates
           /\ r.op = "extend" => r.date \in Dates /\ r.previous \in 0 .. LastDate
<1>1. ASSUME r \in SalesRequests
      PROVE  /\ r.op \in {"confirm", "kick_off", "hold"} =>
                  r.order \in OrderIds /\ r.date \in 0 .. LastDate
             /\ r.op = "change" => r.change \in ChangeIds /\ r.price \in Int
             /\ r.op \in {"confirm", "kick_off", "hold", "change"}
  BY <1>1 DEF SalesRequests
<1>2. ASSUME r \in ScheduleRequests
      PROVE  /\ r.op \in {"initiate", "plan", "extend"} =>
                  r.order \in OrderIds /\ r.date \in 0 .. LastDate
             /\ r.op = "reschedule" => r.phase \in PhaseIds /\ r.date \in Dates
             /\ r.op = "extend" => r.date \in Dates /\ r.previous \in 0 .. LastDate
             /\ r.op \in {"initiate", "plan", "extend", "reschedule"}
  BY <1>2, OfficeAssumption DEF ScheduleRequests, Dates
<1> QED BY <1>1, <1>2, Desks DEF TradeOps

LEMMA MoneyFields ==
    ASSUME NEW r \in {Idle} \cup AllRequests
    PROVE  /\ r.op = "approve_expense" => r.expense \in ExpenseIds
           /\ r.op = "issue" => r.invoice \in InvoiceIds
  BY Desks DEF MoneyOps, FinanceRequests

LEMMA SourcingFields ==
    ASSUME NEW r \in {Idle} \cup AllRequests
    PROVE  /\ r.op \in {"approve_need", "create_rfq"} => r.need \in NeedIds
           /\ r.op = "create_rfq" => r.invited \in SUBSET Vendors
           /\ r.op \in {"issue_rfq", "award"} => r.rfq \in RfqIds
           /\ r.op = "award" => r.line \in NeedLines /\ r.vendor \in Vendors
  BY Desks DEF SourcingOps, SourcingRequests

LEMMA ApprovalFields ==
    ASSUME NEW r \in {Idle} \cup AllRequests
    PROVE  /\ r.op \in ApprovalOps => r.document \in Documents
           /\ r.op = "act" => /\ r.rule \in ApprovalRules /\ r.round \in 1 .. MaxRounds
                              /\ r.action \in {"approved", "rejected", "sent_back"}
           /\ r.op = "finalize" => r.restsOn \in SUBSET (ApprovalRules \X (1 .. MaxRounds))
           /\ r.op = "edit" => /\ r.terms \in Terms /\ r.locked \in BOOLEAN
                               /\ r.override \in BOOLEAN
                               /\ r.found \in {"unread", "unlocked", "locked"}
  BY Desks DEF ApprovalOps, ApprovalRequests

LEMMA AccountFields ==
    ASSUME NEW r \in {Idle} \cup AllRequests
    PROVE  /\ r.op \in {"set_active", "set_administrator"} =>
                r.by \in Users /\ r.user \in Users /\ r.to \in BOOLEAN
           /\ r.op = "set_roles" =>
                r.user \in Users /\ r.chosen \in SUBSET Roles /\ r.dropped \in BOOLEAN
           /\ r.op = "delete_role" => r.role \in Roles
  BY Desks DEF AccountOps, ApprovalRequests

(* One session moves on to r, the others stay.                             *)
Moves(s, r) ==
    /\ req' \in Requesting
    /\ req'[s] = r
    /\ \A t \in Sessions : t # s => req'[t] = req[t]

LEMMA Typed == TypeOK => req \in Requesting
  BY DEF TypeOK, Requesting, AllRequests

LEMMA BeginMoves ==
    ASSUME TypeOK, NEW s \in Sessions, NEW r \in AllRequests, Begin(s, r)
    PROVE  Moves(s, r)
  BY Typed DEF Begin, Moves, Requesting

LEMMA FinishMoves ==
    ASSUME TypeOK, NEW s \in Sessions, Finish(s)
    PROVE  Moves(s, Idle) /\ Idle.op = "idle"
  BY Typed DEF Finish, Moves, Requesting, Idle

\* A step at a desk leaves the requests of the others alone.
Within(Ops) == \A s \in Sessions : req'[s] = req[s] \/ req'[s].op \in Ops \cup {"idle"}

-----------------------------------------------------------------------------
(* Approvals and locks.                                                    *)

(* Decisions are only added to: what rested on enough of them still does.  *)
LEMMA ApprovalsGrow ==
    ASSUME TypeOK, ApprovalsInv, req' \in Requesting, document' \in [Documents -> DocumentRows],
           \A d \in Documents, r \in ApprovalRules, n \in 1 .. MaxRounds :
               /\ approval[d][r][n].signed => approval'[d][r][n].signed
               /\ approval'[d][r][n].status = "approved" => approval'[d][r][n].signed,
           \A d \in Documents : Stands(d, document'[d]),
           \A d \in Documents : document[d].restsOn # {} => document'[d].restsOn # {},
           \A s \in Sessions : req'[s] = req[s] \/ Asked(req'[s], document')
    PROVE  ApprovalsInv'
<1>1. ASSUME NEW d \in Documents, NEW X \in SUBSET (ApprovalRules \X (1 .. MaxRounds)),
             Supported(d, X)
      PROVE  X # {} /\ \A x \in X : approval'[d][x[1]][x[2]].signed
  <2>1. \A x \in X : x[1] \in ApprovalRules /\ x[2] \in 1 .. MaxRounds
    OBVIOUS
  <2> QED BY <1>1, <2>1 DEF Supported
<1>2. ASSUME NEW s \in Sessions
      PROVE  Asked(req[s], document)'
  <2>1. req'[s] \in {Idle} \cup AllRequests
    BY DEF Requesting
  <2>2. Asked(req'[s], document')
    <3>1. CASE req'[s] = req[s]
      <4>1. Asked(req[s], document)
        BY DEF ApprovalsInv, ApprovalsGrounded
      <4>2. req[s].op = "edit" => req[s].document \in Documents
        BY <2>1, <3>1, ApprovalFields DEF ApprovalOps
      <4> QED BY <3>1, <4>1, <4>2 DEF Asked
    <3>2. CASE req'[s] # req[s]
      BY <3>2
    <3> QED BY <3>1, <3>2
  <2>3. CASE req'[s].op = "finalize"
    <3>1. /\ req'[s].document \in Documents
          /\ req'[s].restsOn \in SUBSET (ApprovalRules \X (1 .. MaxRounds))
      BY <2>1, <2>3, ApprovalFields DEF ApprovalOps
    <3>2. Supported(req'[s].document, req'[s].restsOn)
      BY <2>2, <2>3 DEF Asked
    <3>3. Supported(req[s].document, req[s].restsOn)'
      BY <1>1, <3>1, <3>2 DEF Supported
    <3> QED BY <2>3, <3>3 DEF Asked
  <2>4. CASE req'[s].op # "finalize"
    BY <2>2, <2>4 DEF Asked
  <2> QED BY <2>3, <2>4
<1>3. ASSUME NEW d \in Documents
      PROVE  Stands(d, document[d])'
  <2>1. document'[d].restsOn \in SUBSET (ApprovalRules \X (1 .. MaxRounds))
    BY DEF DocumentRows
  <2>2. CASE document'[d].restsOn # {}
    <3>1. Supported(d, document'[d].restsOn) /\ Kept(document'[d])
      BY <2>2 DEF Stands
    <3>2. Supported(d, document[d].restsOn)'
      BY <1>1, <2>1, <3>1 DEF Supported
    <3>3. Kept(document[d])'
      BY <3>1 DEF Kept
    <3> QED BY <2>2, <3>2, <3>3 DEF Stands
  <2>3. CASE document'[d].restsOn = {}
    BY <2>3 DEF Stands
  <2> QED BY <2>2, <2>3
<1>4. ApprovalsGrounded'
  BY <1>2, <1>3 DEF ApprovalsGrounded
<1>5. ASSUME NEW d \in Documents, document'[d].locked
      PROVE  /\ document'[d].restsOn # {}
             /\ \A x \in document'[d].restsOn : approval'[d][x[1]][x[2]].signed
             /\ document'[d].terms = document'[d].lockedTerms
                  \/ document'[d].overridden \/ document'[d].raced
  BY <1>3, <1>5 DEF Stands, Supported, Kept
<1>6. LockKeepsTerms'
  BY <1>5 DEF LockKeepsTerms
<1> QED BY <1>4, <1>6 DEF ApprovalsInv

\* What holds of the documents, the decisions and the requests already.
LEMMA ApprovalsStand ==
    ASSUME TypeOK, ApprovalsInv
    PROVE  /\ \A d \in Documents : Stands(d, document[d])
           /\ \A d \in Documents, r \in ApprovalRules, n \in 1 .. MaxRounds :
                approval[d][r][n].status = "approved" => approval[d][r][n].signed
           /\ \A s \in Sessions : Asked(req[s], document)
  BY DEF ApprovalsInv, ApprovalsGrounded

LEMMA ApprovalsFrame ==
    ASSUME TypeOK, ApprovalsInv, req' \in Requesting, UNCHANGED <<document, approval>>,
           \A s \in Sessions : req'[s] = req[s] \/ req'[s].op \notin {"finalize", "edit"}
    PROVE  ApprovalsInv'
<1>1. document \in [Documents -> DocumentRows]
  BY DEF TypeOK, ApprovalsTypeOK
<1>2. \A s \in Sessions : req'[s] = req[s] \/ Asked(req'[s], document')
  BY DEF Asked
<1> QED BY <1>1, <1>2, ApprovalsStand, ApprovalsGrow

LEMMA MadePending ==
    ASSUME NEW f \in [1 .. MaxRounds -> ApprovalRows], NEW k \in 1 .. MaxRounds,
           NEW g \in {f, [f EXCEPT ![k].status = "pending"]}
    PROVE  /\ g \in [1 .. MaxRounds -> ApprovalRows]
           /\ \A n \in 1 .. MaxRounds :
                g[n].signed = f[n].signed /\ g[n].status \in {f[n].status, "pending"}
<1>1. CASE g = f
  BY <1>1
<1>2. CASE g = [f EXCEPT ![k].status = "pending"]
  <2>1. \A n \in 1 .. MaxRounds : f[n] \in ApprovalRows
    OBVIOUS
  <2>2. \A n \in 1 .. MaxRounds :
            g[n] = IF n = k THEN [f[n] EXCEPT !.status = "pending"] ELSE f[n]
    BY <1>2
  <2>3. \A n \in 1 .. MaxRounds : g[n] \in ApprovalRows
    BY <2>1, <2>2 DEF ApprovalRows
  <2>4. g \in [1 .. MaxRounds -> ApprovalRows]
    BY <1>2, <2>3
  <2>5. \A n \in 1 .. MaxRounds :
            g[n].signed = f[n].signed /\ g[n].status \in {f[n].status, "pending"}
    BY <2>1, <2>2 DEF ApprovalRows
  <2> QED BY <2>4, <2>5
<1> QED BY <1>1, <1>2

LEMMA RequestApprovalInv ==
    ASSUME TypeOK, ApprovalsInv, NEW d \in Documents, RequestApproval(d)
    PROVE  ApprovalsTypeOK' /\ ApprovalsInv'
<1> DEFINE k == document[d].rounds + 1
<1>1. /\ document \in [Documents -> DocumentRows]
      /\ approval \in [Documents -> [ApprovalRules -> [1 .. MaxRounds -> ApprovalRows]]]
  BY DEF TypeOK, ApprovalsTypeOK
<1>2. k \in 1 .. MaxRounds
  BY <1>1, OfficeAssumption DEF RequestApproval, DocumentRows
<1>3. /\ document' \in [Documents -> DocumentRows]
      /\ \A e \in Documents :
           /\ document'[e].locked = document[e].locked
           /\ document'[e].restsOn = document[e].restsOn
           /\ document'[e].terms = document[e].terms
           /\ document'[e].lockedTerms = document[e].lockedTerms
           /\ document'[e].overridden = document[e].overridden
           /\ document'[e].raced = document[e].raced
  <2>1. document' = [document EXCEPT ![d].rounds = k]
    BY DEF RequestApproval
  <2>2. k \in 0 .. MaxRounds
    BY <1>2
  <2> HIDE DEF k
  <2> QED BY <1>1, <2>1, <2>2 DEF DocumentRows
<1>4. ASSUME NEW r \in ApprovalRules
      PROVE  /\ approval'[d][r] \in [1 .. MaxRounds -> ApprovalRows]
             /\ \A n \in 1 .. MaxRounds :
                  /\ approval'[d][r][n].signed = approval[d][r][n].signed
                  /\ approval'[d][r][n].status \in {approval[d][r][n].status, "pending"}
  <2>1. approval'[d][r] = IF r \in applicable_rules(d)
                          THEN [approval[d][r] EXCEPT ![k].status = "pending"]
                          ELSE approval[d][r]
    BY <1>1 DEF RequestApproval
  <2>2. approval[d][r] \in [1 .. MaxRounds -> ApprovalRows]
    BY <1>1
  <2> HIDE DEF k
  <2> QED BY <1>2, <2>1, <2>2, MadePending
<1>5. \A e \in Documents : e # d => approval'[e] = approval[e]
  BY <1>1 DEF RequestApproval
<1>6. approval' \in [Documents -> [ApprovalRules -> [1 .. MaxRounds -> ApprovalRows]]]
  <2>1. approval' = [approval EXCEPT ![d] = approval'[d]] /\ DOMAIN approval'[d] = ApprovalRules
    BY <1>1 DEF RequestApproval
  <2>2. approval'[d] = [r \in ApprovalRules |-> approval'[d][r]]
    BY <1>1 DEF RequestApproval
  <2>3. approval'[d] \in [ApprovalRules -> [1 .. MaxRounds -> ApprovalRows]]
    BY <1>4, <2>2
  <2> QED BY <1>1, <2>1, <2>3
<1>7. ApprovalsTypeOK'
  BY <1>3, <1>6 DEF TypeOK, ApprovalsTypeOK, RequestApproval
<1>8. \A e \in Documents, r \in ApprovalRules, n \in 1 .. MaxRounds :
          /\ approval[e][r][n].signed => approval'[e][r][n].signed
          /\ approval'[e][r][n].status = "approved" => approval'[e][r][n].signed
  BY <1>4, <1>5, ApprovalsStand
<1>9. \A e \in Documents : Stands(e, document'[e])
  BY <1>3, ApprovalsStand DEF Stands, Kept
<1>10. req' = req /\ req' \in Requesting
  BY Typed DEF RequestApproval
<1> QED BY <1>3, <1>7, <1>8, <1>9, <1>10, ApprovalsStand, ApprovalsGrow

\* Beginning a request writes nothing at this desk.
LEMMA BeginActInv ==
    ASSUME TypeOK, ApprovalsInv, NEW s \in Sessions, NEW u \in Users, NEW d \in Documents,
           NEW r \in ApprovalRules, NEW n \in 1 .. MaxRounds,
           NEW action \in {"approved", "rejected", "sent_back"}, BeginAct(s, u, d, r, n, action)
    PROVE  /\ ApprovalsTypeOK' /\ ApprovalsInv'
           /\ \E a \in AllRequests : a.op \in ApprovalOps /\ Moves(s, a)
<1> DEFINE a == [op |-> "act", document |-> d, rule |-> r, round |-> n, action |-> action]
<1>1. a \in AllRequests /\ a.op = "act"
  BY DEF ApprovalRequests, AllRequests
<1>2. Begin(s, a)
  BY DEF BeginAct
<1> HIDE DEF a
<1>3. Moves(s, a)
  BY <1>1, <1>2, BeginMoves
<1>4. UNCHANGED <<document, approval, account, role>>
  BY DEF BeginAct, authority
<1>5. ApprovalsInv'
  BY <1>1, <1>3, <1>4, ApprovalsFrame DEF Moves
<1> QED BY <1>1, <1>3, <1>4, <1>5 DEF TypeOK, ApprovalsTypeOK, ApprovalOps

LEMMA BeginFinalizeInv ==
    ASSUME TypeOK, ApprovalsInv, NEW s \in Sessions, NEW d \in Documents, BeginFinalize(s, d)
    PROVE  /\ ApprovalsTypeOK' /\ ApprovalsInv'
           /\ \E a \in AllRequests : a.op \in ApprovalOps /\ Moves(s, a)
<1> DEFINE a == [op |-> "finalize", document |-> d, restsOn |-> Opened(d)]
<1>1. Opened(d) \in SUBSET (ApprovalRules \X (1 .. MaxRounds))
  BY DEF Opened
<1>2. /\ a \in AllRequests /\ a.op = "finalize" /\ a.document = d /\ a.restsOn = Opened(d)
      /\ Begin(s, a)
  BY <1>1 DEF ApprovalRequests, AllRequests, BeginFinalize
<1>3. Supported(d, Opened(d))
  <2>1. Opened(d) # {} /\ \A x \in Opened(d) : approval[d][x[1]][x[2]].status = "approved"
    BY DEF BeginFinalize, is_fully_approved
  <2>2. \A x \in Opened(d) : x[1] \in ApprovalRules /\ x[2] \in 1 .. MaxRounds
    BY DEF Opened
  <2>3. \A x \in Opened(d) : approval[d][x[1]][x[2]].signed
    BY <2>1, <2>2, ApprovalsStand
  <2> QED BY <2>1, <2>3 DEF Supported
<1> HIDE DEF a
<1>4. Moves(s, a)
  BY <1>2, BeginMoves
<1>5. UNCHANGED <<document, approval, account, role>>
  BY DEF BeginFinalize, authority
<1>6. req' \in Requesting /\ document' \in [Documents -> DocumentRows]
  BY <1>4, <1>5 DEF Moves, TypeOK, ApprovalsTypeOK
<1>7. \A t \in Sessions : req'[t] = req[t] \/ Asked(req'[t], document')
  BY <1>2, <1>3, <1>4 DEF Moves, Asked
<1>8. ApprovalsInv'
  BY <1>5, <1>6, <1>7, ApprovalsStand, ApprovalsGrow
<1> QED BY <1>2, <1>4, <1>5, <1>8 DEF TypeOK, ApprovalsTypeOK, ApprovalOps

LEMMA BeginEditInv ==
    ASSUME TypeOK, ApprovalsInv, NEW s \in Sessions, NEW d \in Documents, NEW terms \in Terms,
           NEW override \in BOOLEAN, BeginEdit(s, d, terms, override)
    PROVE  /\ ApprovalsTypeOK' /\ ApprovalsInv'
           /\ \E a \in AllRequests : a.op \in ApprovalOps /\ Moves(s, a)
<1> DEFINE a == [op |-> "edit", document |-> d, terms |-> terms,
                 locked |-> document[d].locked, override |-> override, found |-> "unread"]
<1>1. document[d].locked \in BOOLEAN
  BY DEF TypeOK, ApprovalsTypeOK, DocumentRows
<1>2. /\ a \in AllRequests /\ Begin(s, a)
      /\ a.op = "edit" /\ a.document = d /\ a.locked = document[d].locked /\ a.found = "unread"
  BY <1>1 DEF ApprovalRequests, AllRequests, BeginEdit
<1> HIDE DEF a
<1>3. Moves(s, a)
  BY <1>2, BeginMoves
<1>4. UNCHANGED <<document, approval, account, role>>
  BY DEF BeginEdit, authority
<1>5. req' \in Requesting /\ document' \in [Documents -> DocumentRows]
  BY <1>3, <1>4 DEF Moves, TypeOK, ApprovalsTypeOK
<1>6. Asked(a, document')
  BY <1>2, <1>4, ApprovalsStand DEF Asked, Stands
<1>7. \A t \in Sessions : req'[t] = req[t] \/ Asked(req'[t], document')
  BY <1>3, <1>6 DEF Moves
<1>8. ApprovalsInv'
  BY <1>4, <1>5, <1>7, ApprovalsStand, ApprovalsGrow
<1> QED BY <1>2, <1>3, <1>4, <1>8 DEF TypeOK, ApprovalsTypeOK, ApprovalOps

\* The look at the stored row: the request goes on with what it found.
LEMMA LookEditInv ==
    ASSUME TypeOK, ApprovalsInv, NEW s \in Sessions, LookEdit(s)
    PROVE  /\ ApprovalsTypeOK' /\ ApprovalsInv'
           /\ \E a \in AllRequests : a.op \in ApprovalOps /\ Moves(s, a)
<1> DEFINE locked == document[req[s].document].locked
           a == [req[s] EXCEPT !.found = IF locked THEN "locked" ELSE "unlocked",
                               !.override = @ /\ locked]
           Edits == [op : {"edit"}, document : Documents, terms : Terms, locked : BOOLEAN,
                     override : BOOLEAN, found : {"unread", "unlocked", "locked"}]
<1>1. req \in Requesting /\ req[s] \in {Idle} \cup AllRequests /\ req[s].op = "edit"
  BY Typed DEF Requesting, LookEdit
<1>2. req[s] \in Edits
  <2>1. req[s] \in ApprovalRequests
    BY <1>1, Desks DEF ApprovalOps
  <2> QED BY <1>1, <2>1 DEF ApprovalRequests
<1>3. locked \in BOOLEAN
  BY <1>2 DEF TypeOK, ApprovalsTypeOK, DocumentRows
<1>4. locked => req[s].override
  BY DEF LookEdit
<1>5. req' = [req EXCEPT ![s] = a]
  BY <1>1 DEF LookEdit
<1> HIDE DEF locked
<1>6. /\ a \in Edits /\ a.op = "edit" /\ a.document = req[s].document
      /\ a.locked = req[s].locked /\ (a.found = "locked" => a.override)
  BY <1>2, <1>3, <1>4
<1>7. a \in AllRequests
  BY <1>6 DEF ApprovalRequests, AllRequests
<1> HIDE DEF a
<1>8. Moves(s, a)
  BY <1>1, <1>5, <1>7 DEF Moves, Requesting
<1>9. UNCHANGED <<document, approval, account, role>>
  BY DEF LookEdit, authority
<1>10. req' \in Requesting /\ document' \in [Documents -> DocumentRows]
  BY <1>8, <1>9 DEF Moves, TypeOK, ApprovalsTypeOK
<1>11. Asked(a, document')
  BY <1>1, <1>6, <1>9, ApprovalsStand DEF Asked
<1>12. \A t \in Sessions : req'[t] = req[t] \/ Asked(req'[t], document')
  BY <1>8, <1>11 DEF Moves
<1>13. ApprovalsInv'
  BY <1>9, <1>10, <1>12, ApprovalsStand, ApprovalsGrow
<1> QED BY <1>6, <1>7, <1>8, <1>9, <1>13 DEF TypeOK, ApprovalsTypeOK, ApprovalOps

LEMMA Decided ==
    ASSUME NEW f \in [Documents -> [ApprovalRules -> [1 .. MaxRounds -> ApprovalRows]]],
           NEW d \in Documents, NEW r \in ApprovalRules, NEW n \in 1 .. MaxRounds,
           NEW row \in ApprovalRows
    PROVE  LET g == [f EXCEPT ![d][r][n] = row]
           IN  /\ g \in [Documents -> [ApprovalRules -> [1 .. MaxRounds -> ApprovalRows]]]
               /\ \A e \in Documents, q \in ApprovalRules, m \in 1 .. MaxRounds :
                    g[e][q][m] = IF e = d /\ q = r /\ m = n THEN row ELSE f[e][q][m]
<1> DEFINE g == [f EXCEPT ![d][r][n] = row]
<1>1. f[d] \in [ApprovalRules -> [1 .. MaxRounds -> ApprovalRows]]
      /\ f[d][r] \in [1 .. MaxRounds -> ApprovalRows]
  OBVIOUS
<1>2. g = [f EXCEPT ![d] = [f[d] EXCEPT ![r] = [f[d][r] EXCEPT ![n] = row]]]
  OBVIOUS
<1> HIDE DEF g
<1>3. [f[d][r] EXCEPT ![n] = row] \in [1 .. MaxRounds -> ApprovalRows]
  BY <1>1
<1>4. [f[d] EXCEPT ![r] = [f[d][r] EXCEPT ![n] = row]]
          \in [ApprovalRules -> [1 .. MaxRounds -> ApprovalRows]]
  BY <1>1, <1>3
<1>5. g \in [Documents -> [ApprovalRules -> [1 .. MaxRounds -> ApprovalRows]]]
  BY <1>2, <1>4
<1>6. \A e \in Documents : g[e] = IF e = d THEN g[d] ELSE f[e]
  BY <1>2
<1>7. g[d] = [f[d] EXCEPT ![r] = [f[d][r] EXCEPT ![n] = row]]
  BY <1>2
<1>8. \A q \in ApprovalRules : g[d][q] = IF q = r THEN g[d][r] ELSE f[d][q]
  BY <1>1, <1>7
<1>9. g[d][r] = [f[d][r] EXCEPT ![n] = row]
  BY <1>1, <1>7
<1>10. \A m \in 1 .. MaxRounds : g[d][r][m] = IF m = n THEN row ELSE f[d][r][m]
  BY <1>1, <1>9
<1>11. \A e \in Documents, q \in ApprovalRules, m \in 1 .. MaxRounds :
          g[e][q][m] = IF e = d /\ q = r /\ m = n THEN row ELSE f[e][q][m]
  BY <1>6, <1>8, <1>10
<1> QED BY <1>5, <1>11 DEF g

LEMMA WriteActInv ==
    ASSUME TypeOK, ApprovalsInv, NEW s \in Sessions, WriteAct(s)
    PROVE  ApprovalsTypeOK' /\ ApprovalsInv' /\ Moves(s, Idle)
<1> DEFINE d == req[s].document  r == req[s].rule  n == req[s].round  x == req[s].action
<1>1. Moves(s, Idle) /\ Idle.op = "idle"
  BY FinishMoves DEF WriteAct
<1>2. req[s] \in {Idle} \cup AllRequests /\ req[s].op = "act"
  BY Typed DEF Requesting, WriteAct
<1>3. /\ d \in Documents /\ r \in ApprovalRules /\ n \in 1 .. MaxRounds
      /\ x \in {"approved", "rejected", "sent_back"}
  BY <1>2, ApprovalFields DEF ApprovalOps
<1>4. approval \in [Documents -> [ApprovalRules -> [1 .. MaxRounds -> ApprovalRows]]]
  BY DEF TypeOK, ApprovalsTypeOK
<1> DEFINE row == [status |-> x, signed |-> approval[d][r][n].signed \/ x = "approved"]
<1>5. approval' = [approval EXCEPT ![d][r][n] = row]
  BY DEF WriteAct
<1>6. UNCHANGED <<document, account, role>>
  BY DEF WriteAct
<1> HIDE DEF d, r, n, x
<1>7. row \in ApprovalRows
  <2>1. approval[d][r][n] \in ApprovalRows
    <3>1. approval[d][r] \in [1 .. MaxRounds -> ApprovalRows]
      BY <1>3, <1>4
    <3> QED BY <1>3, <3>1
  <2> QED BY <1>3, <2>1 DEF ApprovalRows
<1>8. row.status = x /\ row.signed = (approval[d][r][n].signed \/ x = "approved")
  OBVIOUS
<1> HIDE DEF row
<1>9. /\ approval' \in [Documents -> [ApprovalRules -> [1 .. MaxRounds -> ApprovalRows]]]
      /\ \A e \in Documents, q \in ApprovalRules, m \in 1 .. MaxRounds :
           approval'[e][q][m] = IF e = d /\ q = r /\ m = n THEN row ELSE approval[e][q][m]
  <2> DEFINE g == [approval EXCEPT ![d][r][n] = row]
  <2>1. /\ g \in [Documents -> [ApprovalRules -> [1 .. MaxRounds -> ApprovalRows]]]
        /\ \A e \in Documents, q \in ApprovalRules, m \in 1 .. MaxRounds :
             g[e][q][m] = IF e = d /\ q = r /\ m = n THEN row ELSE approval[e][q][m]
    BY <1>3, <1>4, <1>7, Decided
  <2> HIDE DEF g
  <2>2. approval' = g
    BY <1>5 DEF g
  <2> QED BY <2>1, <2>2
<1>10. \A e \in Documents, q \in ApprovalRules, m \in 1 .. MaxRounds :
          /\ approval[e][q][m].signed => approval'[e][q][m].signed
          /\ approval'[e][q][m].status = "approved" => approval'[e][q][m].signed
  <2>1. /\ approval[d][r][n].signed => row.signed
        /\ row.status = "approved" => row.signed
    BY <1>8, Zenon
  <2> SUFFICES ASSUME NEW e \in Documents, NEW q \in ApprovalRules, NEW m \in 1 .. MaxRounds
               PROVE  /\ approval[e][q][m].signed => approval'[e][q][m].signed
                      /\ approval'[e][q][m].status = "approved" => approval'[e][q][m].signed
    OBVIOUS
  <2>2. CASE e = d /\ q = r /\ m = n
    <3>1. approval'[e][q][m] = row
      BY <1>9, <2>2
    <3> QED BY <2>1, <2>2, <3>1, Zenon
  <2>3. CASE ~(e = d /\ q = r /\ m = n)
    <3>1. approval'[e][q][m] = approval[e][q][m]
      BY <1>9, <2>3
    <3> QED BY <3>1, ApprovalsStand, Zenon
  <2> QED BY <2>2, <2>3
<1>11. \A t \in Sessions : req'[t] = req[t] \/ Asked(req'[t], document')
  BY <1>1 DEF Moves, Asked
<1>12. req' \in Requesting /\ document' \in [Documents -> DocumentRows]
  BY <1>1, <1>6 DEF Moves, TypeOK, ApprovalsTypeOK
<1>13. ApprovalsInv'
  BY <1>6, <1>10, <1>11, <1>12, ApprovalsStand, ApprovalsGrow
<1> QED BY <1>1, <1>6, <1>9, <1>13 DEF TypeOK, ApprovalsTypeOK

\* Writing a document: the decisions stay, and so does what requests hold.
LEMMA DocumentWritten ==
    ASSUME TypeOK, ApprovalsInv, NEW d \in Documents, NEW row \in DocumentRows,
           document' = [document EXCEPT ![d] = row],
           Stands(d, row), document[d].restsOn # {} => row.restsOn # {},
           UNCHANGED <<approval, account, role>>,
           req' \in Requesting,
           \A t \in Sessions : req'[t] = req[t] \/ req'[t].op = "idle"
    PROVE  ApprovalsTypeOK' /\ ApprovalsInv'
<1>1. document \in [Documents -> DocumentRows]
  BY DEF TypeOK, ApprovalsTypeOK
<1>2. document' \in [Documents -> DocumentRows]
  BY <1>1
<1>3. \A e \in Documents :
          /\ Stands(e, document'[e])
          /\ document[e].restsOn # {} => document'[e].restsOn # {}
  BY <1>1, ApprovalsStand
<1>4. \A t \in Sessions : req'[t] = req[t] \/ Asked(req'[t], document')
  BY DEF Asked
<1>5. ApprovalsInv'
  BY <1>2, <1>3, <1>4, ApprovalsStand, ApprovalsGrow
<1> QED BY <1>2, <1>5 DEF TypeOK, ApprovalsTypeOK

LEMMA WriteLockInv ==
    ASSUME TypeOK, ApprovalsInv, NEW s \in Sessions, WriteLock(s)
    PROVE  ApprovalsTypeOK' /\ ApprovalsInv' /\ Moves(s, Idle)
<1> DEFINE d == req[s].document
           row == [document[d] EXCEPT !.locked = TRUE, !.lockedTerms = document[d].terms,
                       !.restsOn = req[s].restsOn, !.overridden = FALSE, !.raced = FALSE]
<1>1. Moves(s, Idle) /\ Idle.op = "idle"
  BY FinishMoves DEF WriteLock
<1>2. req[s] \in {Idle} \cup AllRequests /\ req[s].op = "finalize"
  BY Typed DEF Requesting, WriteLock
<1>3. d \in Documents /\ req[s].restsOn \in SUBSET (ApprovalRules \X (1 .. MaxRounds))
  BY <1>2, ApprovalFields DEF ApprovalOps
<1>4. document \in [Documents -> DocumentRows] /\ document[d] \in DocumentRows
  BY <1>3 DEF TypeOK, ApprovalsTypeOK
<1>5. row \in DocumentRows /\ row.restsOn = req[s].restsOn /\ Kept(row)
  BY <1>3, <1>4 DEF DocumentRows, Kept
<1>6. document' = [document EXCEPT ![d] = row]
  BY <1>3, <1>4 DEF WriteLock
<1>7. Supported(d, req[s].restsOn)
  BY <1>2, ApprovalsStand DEF Asked
<1>8. UNCHANGED <<approval, account, role>>
  BY DEF WriteLock
<1> HIDE DEF d, row
<1>9. Stands(d, row) /\ row.restsOn # {}
  BY <1>5, <1>7 DEF Stands, Supported
<1> QED BY <1>1, <1>3, <1>5, <1>6, <1>8, <1>9, DocumentWritten DEF Moves

(* A copy is saved.  Over a document that was ever locked that takes an    *)
(* override, or a look at the row before the lock came or after it went.   *)
LEMMA WriteEditInv ==
    ASSUME TypeOK, ApprovalsInv, NEW s \in Sessions, WriteEdit(s)
    PROVE  ApprovalsTypeOK' /\ ApprovalsInv' /\ Moves(s, Idle)
<1> DEFINE d == req[s].document
           row == [document[d] EXCEPT
               !.terms = req[s].terms,
               !.locked = req[s].locked,
               !.overridden = @ \/ req[s].override,
               !.raced = @ \/ (document[d].locked /\ req[s].found = "unlocked")]
<1>1. Moves(s, Idle) /\ Idle.op = "idle"
  BY FinishMoves DEF WriteEdit
<1>2. req[s] \in {Idle} \cup AllRequests /\ req[s].op = "edit" /\ req[s].found # "unread"
  BY Typed DEF Requesting, WriteEdit
<1>3. /\ d \in Documents /\ req[s].terms \in Terms
      /\ req[s].locked \in BOOLEAN /\ req[s].override \in BOOLEAN
      /\ req[s].found \in {"unlocked", "locked"}
  BY <1>2, ApprovalFields DEF ApprovalOps
<1>4. document \in [Documents -> DocumentRows] /\ document[d] \in DocumentRows
  BY <1>3 DEF TypeOK, ApprovalsTypeOK
<1>5. document' = [document EXCEPT ![d] = row]
  BY DEF WriteEdit
<1>6. /\ req[s].locked => document[d].restsOn # {}
      /\ req[s].found = "locked" => req[s].override
  BY <1>2, ApprovalsStand DEF Asked
<1>7. UNCHANGED <<approval, account, role>>
  BY DEF WriteEdit
<1> HIDE DEF d
<1>8. /\ row \in DocumentRows /\ row.locked = req[s].locked
      /\ row.restsOn = document[d].restsOn
      /\ row.overridden = (document[d].overridden \/ req[s].override)
      /\ row.raced = (document[d].raced \/ (document[d].locked /\ req[s].found = "unlocked"))
  BY <1>3, <1>4 DEF DocumentRows
<1> HIDE DEF row
<1>9. Stands(d, document[d])
  BY <1>3, ApprovalsStand
<1>10. Stands(d, row)
  BY <1>3, <1>6, <1>8, <1>9 DEF Stands, Kept
<1> QED BY <1>1, <1>3, <1>5, <1>7, <1>8, <1>10, DocumentWritten DEF Moves

-----------------------------------------------------------------------------
(* Accounts and roles.                                                     *)

\* A step that adds no request about rights keeps what is said of them.
LEMMA AccountsFrame ==
    ASSUME AccountsInv,
           \A s \in Sessions : req'[s] = req[s]
               \/ req'[s].op \notin {"set_active", "set_administrator"}
    PROVE  AccountsInv'
  BY DEF AccountsInv

\* The steps of approvals, and the requests they leave.
LEMMA ApprovalsNextInv ==
    ASSUME TypeOK, ApprovalsInv, AccountsInv, ApprovalsNext
    PROVE  /\ ApprovalsTypeOK' /\ ApprovalsInv' /\ AccountsInv'
           /\ req' \in Requesting /\ Within(ApprovalOps)
<1> DEFINE Goal == /\ ApprovalsTypeOK' /\ ApprovalsInv'
                   /\ req' \in Requesting /\ Within(ApprovalOps)
<1>1. ASSUME NEW s \in Sessions, NEW a \in AllRequests, a.op \in ApprovalOps, Moves(s, a)
      PROVE  req' \in Requesting /\ Within(ApprovalOps)
  BY <1>1 DEF Moves, Within
<1>2. ASSUME NEW s \in Sessions, Moves(s, Idle)
      PROVE  req' \in Requesting /\ Within(ApprovalOps)
  BY <1>2 DEF Moves, Within, Idle
<1>3. ASSUME req' = req
      PROVE  req' \in Requesting /\ Within(ApprovalOps)
  BY <1>3, Typed DEF Within
<1>4. Goal
  <2>1. ASSUME NEW d \in Documents, RequestApproval(d)
        PROVE  Goal
    <3>1. req' = req
      BY <2>1 DEF RequestApproval
    <3> QED BY <2>1, <3>1, <1>3, RequestApprovalInv
  <2>2. ASSUME NEW s \in Sessions, LookEdit(s)
        PROVE  Goal
    BY <2>2, <1>1, LookEditInv
  <2>3. ASSUME NEW d \in Documents, NEW s \in Sessions, NEW u \in Users,
               NEW r \in ApprovalRules, NEW n \in 1 .. MaxRounds,
               NEW action \in {"approved", "rejected", "sent_back"},
               BeginAct(s, u, d, r, n, action)
        PROVE  Goal
    BY <2>3, <1>1, BeginActInv
  <2>4. ASSUME NEW d \in Documents, NEW s \in Sessions, BeginFinalize(s, d)
        PROVE  Goal
    BY <2>4, <1>1, BeginFinalizeInv
  <2>5. ASSUME NEW d \in Documents, NEW s \in Sessions, NEW terms \in Terms,
               NEW override \in BOOLEAN, BeginEdit(s, d, terms, override)
        PROVE  Goal
    BY <2>5, <1>1, BeginEditInv
  <2>6. ASSUME NEW s \in Sessions, WriteAct(s)
        PROVE  Goal
    BY <2>6, <1>2, WriteActInv
  <2>7. ASSUME NEW s \in Sessions, WriteLock(s)
        PROVE  Goal
    BY <2>7, <1>2, WriteLockInv
  <2>8. ASSUME NEW s \in Sessions, WriteEdit(s)
        PROVE  Goal
    BY <2>8, <1>2, WriteEditInv
  <2> HIDE DEF Goal
  <2> QED BY <2>1, <2>2, <2>3, <2>4, <2>5, <2>6, <2>7, <2>8 DEF ApprovalsNext
<1>5. AccountsInv'
  BY <1>4, AccountsFrame DEF Within, ApprovalOps
<1> QED BY <1>4, <1>5

\* What every step of the administration is shown to leave behind.
AccountsKept ==
    /\ account' \in [Users -> AccountRows]
    /\ role' \in [Roles -> {None} \cup (SUBSET Capabilities)]
    /\ UNCHANGED <<document, approval>>
    /\ req' \in Requesting /\ Within(AccountOps) /\ AccountsInv'

LEMMA AccountsBegin ==
    ASSUME TypeOK, AccountsInv, NEW s \in Sessions, NEW a \in AllRequests, Begin(s, a),
           a.op \in AccountOps, UNCHANGED authority,
           a.op = "set_active" => a.user # a.by,
           a.op = "set_administrator" => a.user # a.by \/ a.to
    PROVE  AccountsKept
<1>1. Moves(s, a)
  BY BeginMoves
<1>2. UNCHANGED <<document, approval, account, role>>
  BY DEF authority
<1>3. AccountsInv'
  BY <1>1 DEF Moves, AccountsInv
<1> QED BY <1>1, <1>2, <1>3 DEF AccountsKept, Moves, Within, TypeOK, ApprovalsTypeOK

LEMMA AccountsStand ==
    ASSUME TypeOK, AccountsInv, UNCHANGED <<req, document, approval>>,
           account' \in [Users -> AccountRows],
           role' \in [Roles -> {None} \cup (SUBSET Capabilities)]
    PROVE  AccountsKept
<1>1. AccountsInv'
  BY AccountsFrame
<1> QED BY <1>1, Typed DEF AccountsKept, Within

LEMMA AccountsFinish ==
    ASSUME TypeOK, AccountsInv, NEW s \in Sessions, Finish(s), UNCHANGED <<document, approval>>,
           account' \in [Users -> AccountRows],
           role' \in [Roles -> {None} \cup (SUBSET Capabilities)]
    PROVE  AccountsKept
<1>1. Moves(s, Idle) /\ Idle.op = "idle"
  BY FinishMoves
<1>2. AccountsInv'
  BY <1>1, AccountsFrame DEF Moves
<1> QED BY <1>1, <1>2 DEF AccountsKept, Moves, Within

\* One row written.
LEMMA AccountWritten ==
    ASSUME TypeOK, NEW u \in Users, NEW row \in AccountRows,
           account' = [account EXCEPT ![u] = row]
    PROVE  account' \in [Users -> AccountRows]
  BY DEF TypeOK, ApprovalsTypeOK

LEMMA CreateUserKept ==
    ASSUME TypeOK, AccountsInv, NEW by \in Users, NEW u \in Users, CreateUser(by, u)
    PROVE  AccountsKept
<1> DEFINE row == [account[u] EXCEPT !.exists = TRUE]
<1>1. account \in [Users -> AccountRows] /\ account[u] \in AccountRows
      /\ role \in [Roles -> {None} \cup (SUBSET Capabilities)]
  BY DEF TypeOK, ApprovalsTypeOK
<1>2. row \in AccountRows
  BY <1>1 DEF AccountRows
<1>3. account' = [account EXCEPT ![u] = row]
  BY <1>1 DEF CreateUser
<1>4. UNCHANGED <<req, document, approval, role>>
  BY DEF CreateUser
<1> HIDE DEF row
<1>5. account' \in [Users -> AccountRows]
  BY <1>2, <1>3, AccountWritten
<1> QED BY <1>1, <1>4, <1>5, AccountsStand

LEMMA CreateRoleKept ==
    ASSUME TypeOK, AccountsInv, NEW by \in Users, NEW r \in Roles, CreateRole(by, r)
    PROVE  AccountsKept
<1>1. /\ account \in [Users -> AccountRows]
      /\ role \in [Roles -> {None} \cup (SUBSET Capabilities)]
  BY DEF TypeOK, ApprovalsTypeOK
<1>2. role' \in [Roles -> {None} \cup (SUBSET Capabilities)]
  BY <1>1 DEF CreateRole
<1> QED BY <1>1, <1>2, AccountsStand DEF CreateRole

LEMMA SetCapabilitiesKept ==
    ASSUME TypeOK, AccountsInv, NEW by \in Users, NEW r \in Roles,
           NEW selected \in SUBSET Capabilities, SetCapabilities(by, r, selected)
    PROVE  AccountsKept
<1>1. /\ account \in [Users -> AccountRows]
      /\ role \in [Roles -> {None} \cup (SUBSET Capabilities)]
  BY DEF TypeOK, ApprovalsTypeOK
<1>2. role' \in [Roles -> {None} \cup (SUBSET Capabilities)]
  BY <1>1 DEF SetCapabilities
<1> QED BY <1>1, <1>2, AccountsStand DEF SetCapabilities

LEMMA BeginDeleteRoleKept ==
    ASSUME TypeOK, AccountsInv, NEW s \in Sessions, NEW by \in Users, NEW r \in Roles,
           BeginDeleteRole(s, by, r)
    PROVE  AccountsKept
<1> DEFINE a == [op |-> "delete_role", role |-> r]
<1>1. a \in AllRequests /\ a.op = "delete_role"
  BY DEF ApprovalRequests, AllRequests
<1>2. Begin(s, a) /\ UNCHANGED authority
  BY DEF BeginDeleteRole
<1> HIDE DEF a
<1> QED BY <1>1, <1>2, AccountsBegin DEF AccountOps

LEMMA WriteRoleDeletedKept ==
    ASSUME TypeOK, AccountsInv, NEW s \in Sessions, WriteRoleDeleted(s)
    PROVE  AccountsKept
<1>1. req[s] \in {Idle} \cup AllRequests /\ req[s].op = "delete_role"
  BY Typed DEF Requesting, WriteRoleDeleted
<1>2. req[s].role \in Roles
  BY <1>1, AccountFields
<1>3. /\ account \in [Users -> AccountRows]
      /\ role \in [Roles -> {None} \cup (SUBSET Capabilities)]
  BY DEF TypeOK, ApprovalsTypeOK
<1>4. role' \in [Roles -> {None} \cup (SUBSET Capabilities)]
  BY <1>2, <1>3 DEF WriteRoleDeleted
<1>5. ASSUME NEW u \in Users
      PROVE  [account[u] EXCEPT !.roles = @ \ {req[s].role}] \in AccountRows
  <2>1. account[u] \in AccountRows
    BY <1>3
  <2> QED BY <2>1 DEF AccountRows
<1>6. account' \in [Users -> AccountRows]
  BY <1>5 DEF WriteRoleDeleted
<1> QED BY <1>4, <1>6, AccountsFinish DEF WriteRoleDeleted

LEMMA BeginSetRolesKept ==
    ASSUME TypeOK, AccountsInv, NEW s \in Sessions, NEW by \in Users, NEW u \in Users,
           NEW chosen \in SUBSET Roles, BeginSetRoles(s, by, u, chosen)
    PROVE  AccountsKept
<1> DEFINE a == [op |-> "set_roles", user |-> u, chosen |-> chosen, dropped |-> FALSE]
<1>1. a \in AllRequests /\ a.op = "set_roles"
  BY DEF ApprovalRequests, AllRequests
<1>2. Begin(s, a) /\ UNCHANGED authority
  BY DEF BeginSetRoles
<1> HIDE DEF a
<1> QED BY <1>1, <1>2, AccountsBegin DEF AccountOps

\* A request about roles stays one while its roles are dropped and added.
LEMMA RolesRequest ==
    ASSUME NEW q \in {Idle} \cup AllRequests, q.op = "set_roles", NEW r \in Roles \cup {None}
    PROVE  /\ [q EXCEPT !.dropped = TRUE] \in AllRequests
           /\ [q EXCEPT !.dropped = TRUE].op = "set_roles"
           /\ [q EXCEPT !.chosen = @ \ {r}] \in AllRequests
           /\ [q EXCEPT !.chosen = @ \ {r}].op = "set_roles"
<1> DEFINE SetRoles == [op : {"set_roles"}, user : Users, chosen : SUBSET Roles,
                        dropped : BOOLEAN]
<1>1. q \in ApprovalRequests
  BY Desks DEF AccountOps
<1>2. q \in SetRoles
  BY <1>1 DEF ApprovalRequests
<1>3. /\ [q EXCEPT !.dropped = TRUE] \in SetRoles
      /\ [q EXCEPT !.chosen = @ \ {r}] \in SetRoles
  BY <1>2
<1>4. SetRoles \subseteq AllRequests /\ \A x \in SetRoles : x.op = "set_roles"
  BY DEF ApprovalRequests, AllRequests
<1> QED BY <1>3, <1>4

LEMMA RolesGoOn ==
    ASSUME TypeOK, AccountsInv, NEW s \in Sessions, NEW a \in AllRequests, a.op = "set_roles",
           req' = [req EXCEPT ![s] = a],
           account' \in [Users -> AccountRows],
           role' \in [Roles -> {None} \cup (SUBSET Capabilities)],
           UNCHANGED <<document, approval>>
    PROVE  AccountsKept
<1>1. req \in Requesting
  BY Typed
<1>2. /\ req' \in Requesting /\ req'[s] = a
      /\ \A t \in Sessions : t # s => req'[t] = req[t]
  BY <1>1 DEF Requesting
<1>3. AccountsInv' /\ Within(AccountOps)
  BY <1>2, AccountsFrame DEF Within, AccountOps
<1> QED BY <1>2, <1>3 DEF AccountsKept

LEMMA DropRolesKept ==
    ASSUME TypeOK, AccountsInv, NEW s \in Sessions, DropRoles(s)
    PROVE  AccountsKept
<1> DEFINE u == req[s].user
           row == [account[u] EXCEPT !.roles = @ \cap req[s].chosen]
           a == [req[s] EXCEPT !.dropped = TRUE]
<1>1. req \in Requesting /\ req[s] \in {Idle} \cup AllRequests /\ req[s].op = "set_roles"
  BY Typed DEF Requesting, DropRoles
<1>2. /\ account \in [Users -> AccountRows]
      /\ role \in [Roles -> {None} \cup (SUBSET Capabilities)]
  BY DEF TypeOK, ApprovalsTypeOK
<1>3. u \in Users /\ account[u] \in AccountRows
  BY <1>1, <1>2, AccountFields
<1>4. row \in AccountRows
  BY <1>3 DEF AccountRows
<1>5. account' = [account EXCEPT ![u] = row] /\ UNCHANGED <<document, approval, role>>
  BY <1>2, <1>3 DEF DropRoles
<1>6. a \in AllRequests /\ a.op = "set_roles"
  BY <1>1, RolesRequest
<1>7. Finish(s) \/ req' = [req EXCEPT ![s] = a]
  BY <1>1 DEF DropRoles
<1> HIDE DEF u, row, a
<1>8. account' \in [Users -> AccountRows]
  BY <1>3, <1>4, <1>5, AccountWritten
<1>9. CASE Finish(s)
  BY <1>2, <1>5, <1>8, <1>9, AccountsFinish
<1>10. CASE req' = [req EXCEPT ![s] = a]
  BY <1>2, <1>5, <1>6, <1>8, <1>10, RolesGoOn
<1> QED BY <1>7, <1>9, <1>10

LEMMA AddRoleKept ==
    ASSUME TypeOK, AccountsInv, NEW s \in Sessions, NEW r \in Roles, AddRole(s, r)
    PROVE  AccountsKept
<1> DEFINE u == req[s].user
           row == [account[u] EXCEPT !.roles = @ \cup {r}]
           a == [req[s] EXCEPT !.chosen = @ \ {r}]
<1>1. req \in Requesting /\ req[s] \in {Idle} \cup AllRequests /\ req[s].op = "set_roles"
  BY Typed DEF Requesting, AddRole
<1>2. /\ account \in [Users -> AccountRows]
      /\ role \in [Roles -> {None} \cup (SUBSET Capabilities)]
  BY DEF TypeOK, ApprovalsTypeOK
<1>3. u \in Users /\ account[u] \in AccountRows
  BY <1>1, <1>2, AccountFields
<1>4. row \in AccountRows
  BY <1>3 DEF AccountRows
<1>5. account' = [account EXCEPT ![u] = row] /\ UNCHANGED <<document, approval, role>>
  BY <1>2, <1>3 DEF AddRole
<1>6. a \in AllRequests /\ a.op = "set_roles"
  BY <1>1, RolesRequest
<1>7. Finish(s) \/ req' = [req EXCEPT ![s] = a]
  BY <1>1 DEF AddRole
<1> HIDE DEF u, row, a
<1>8. account' \in [Users -> AccountRows]
  BY <1>3, <1>4, <1>5, AccountWritten
<1>9. CASE Finish(s)
  BY <1>2, <1>5, <1>8, <1>9, AccountsFinish
<1>10. CASE req' = [req EXCEPT ![s] = a]
  BY <1>2, <1>5, <1>6, <1>8, <1>10, RolesGoOn
<1> QED BY <1>7, <1>9, <1>10

LEMMA BeginSetActiveKept ==
    ASSUME TypeOK, AccountsInv, NEW s \in Sessions, NEW by \in Users, NEW u \in Users,
           BeginSetActive(s, by, u)
    PROVE  AccountsKept
<1> DEFINE a == [op |-> "set_active", by |-> by, user |-> u, to |-> ~account[u].active]
<1>1. a \in AllRequests /\ a.op = "set_active" /\ a.user = u /\ a.by = by
  BY DEF ApprovalRequests, AllRequests
<1>2. Begin(s, a) /\ UNCHANGED authority /\ u # by
  BY DEF BeginSetActive
<1> HIDE DEF a
<1> QED BY <1>1, <1>2, AccountsBegin DEF AccountOps

LEMMA BeginSetAdministratorKept ==
    ASSUME TypeOK, AccountsInv, NEW s \in Sessions, NEW by \in Users, NEW u \in Users,
           BeginSetAdministrator(s, by, u)
    PROVE  AccountsKept
<1> DEFINE a == [op |-> "set_administrator", by |-> by, user |-> u,
                 to |-> ~account[u].administrator]
<1>1. /\ a \in AllRequests /\ a.op = "set_administrator" /\ a.user = u /\ a.by = by
      /\ a.to = ~account[u].administrator
  BY DEF ApprovalRequests, AllRequests
<1>2. Begin(s, a) /\ UNCHANGED authority /\ ~(u = by /\ account[u].administrator)
  BY DEF BeginSetAdministrator
<1> HIDE DEF a
<1> QED BY <1>1, <1>2, AccountsBegin DEF AccountOps

LEMMA WriteAccountKept ==
    ASSUME TypeOK, AccountsInv, NEW s \in Sessions, WriteAccount(s)
    PROVE  AccountsKept
<1> DEFINE u == req[s].user
<1>1. /\ req[s] \in {Idle} \cup AllRequests
      /\ req[s].op \in {"set_active", "set_administrator"}
  BY Typed DEF Requesting, WriteAccount
<1>2. /\ account \in [Users -> AccountRows]
      /\ role \in [Roles -> {None} \cup (SUBSET Capabilities)]
  BY DEF TypeOK, ApprovalsTypeOK
<1>3. u \in Users /\ account[u] \in AccountRows /\ req[s].to \in BOOLEAN
  BY <1>1, <1>2, AccountFields
<1>4. \E row \in AccountRows : account' = [account EXCEPT ![u] = row]
  <2>1. [account[u] EXCEPT !.active = req[s].to] \in AccountRows
    BY <1>3 DEF AccountRows
  <2>2. [account[u] EXCEPT !.administrator = req[s].to] \in AccountRows
    BY <1>3 DEF AccountRows
  <2>3. \/ account' = [account EXCEPT ![u] = [account[u] EXCEPT !.active = req[s].to]]
        \/ account' = [account EXCEPT ![u] = [account[u] EXCEPT !.administrator = req[s].to]]
    BY <1>2, <1>3 DEF WriteAccount
  <2> QED BY <2>1, <2>2, <2>3
<1>5. Finish(s) /\ UNCHANGED <<document, approval, role>>
  BY DEF WriteAccount
<1> HIDE DEF u
<1>6. account' \in [Users -> AccountRows]
  BY <1>3, <1>4, AccountWritten
<1> QED BY <1>2, <1>5, <1>6, AccountsFinish

LEMMA AdministrationNextInv ==
    ASSUME TypeOK, ApprovalsInv, AccountsInv, AdministrationNext
    PROVE  /\ ApprovalsTypeOK' /\ ApprovalsInv' /\ AccountsInv'
           /\ req' \in Requesting /\ Within(AccountOps)
<1>1. AccountsKept
  <2>1. PICK s \in Sessions, by \in Users :
          \/ \E u \in Users :
              \/ CreateUser(by, u)
              \/ \E chosen \in SUBSET Roles : BeginSetRoles(s, by, u, chosen)
              \/ BeginSetActive(s, by, u)
              \/ BeginSetAdministrator(s, by, u)
          \/ \E r \in Roles :
              \/ CreateRole(by, r)
              \/ \E selected \in SUBSET Capabilities : SetCapabilities(by, r, selected)
              \/ BeginDeleteRole(s, by, r)
              \/ AddRole(s, r)
          \/ DropRoles(s)
          \/ WriteRoleDeleted(s)
          \/ WriteAccount(s)
    BY DEF AdministrationNext
  <2> QED BY <2>1, CreateUserKept, BeginSetRolesKept, BeginSetActiveKept,
              BeginSetAdministratorKept, CreateRoleKept, SetCapabilitiesKept,
              BeginDeleteRoleKept, DropRolesKept, AddRoleKept, WriteRoleDeletedKept,
              WriteAccountKept
<1>2. \A s \in Sessions : req'[s] = req[s] \/ req'[s].op \notin {"finalize", "edit"}
  BY <1>1 DEF AccountsKept, Within, AccountOps
<1>3. ApprovalsInv'
  BY <1>1, <1>2, ApprovalsFrame DEF AccountsKept
<1> QED BY <1>1, <1>3 DEF AccountsKept, TypeOK, ApprovalsTypeOK

\* Rights are taken away only by a request about somebody else.
LEMMA WriteAccountTakes ==
    ASSUME TypeOK, AccountsInv, NEW s \in Sessions, WriteAccount(s),
           req[s].by \in Administrators
    PROVE  req[s].by \in Administrators'
<1> DEFINE u == req[s].user  b == req[s].by
<1>1. /\ req[s] \in {Idle} \cup AllRequests
      /\ req[s].op \in {"set_active", "set_administrator"}
  BY Typed DEF Requesting, WriteAccount
<1>2. account \in [Users -> AccountRows]
  BY DEF TypeOK, ApprovalsTypeOK
<1>3. u \in Users /\ b \in Users
  BY <1>1, AccountFields
<1>4. CASE u # b
  <2>1. account'[b] = account[b]
    BY <1>2, <1>3, <1>4 DEF WriteAccount
  <2> QED BY <1>3, <2>1 DEF Administrators
<1>5. CASE u = b
  <2>1. req[s].op = "set_administrator" /\ req[s].to
    BY <1>1, <1>5 DEF AccountsInv
  <2>2. account' = [account EXCEPT ![u].administrator = req[s].to]
    BY <2>1 DEF WriteAccount
  <2>3. account[u] \in AccountRows
    BY <1>2, <1>3
  <2>4. account'[u] = [account[u] EXCEPT !.administrator = req[s].to]
    BY <1>2, <1>3, <2>2
  <2>5. /\ account'[u].exists = account[u].exists /\ account'[u].active = account[u].active
        /\ account'[u].administrator = req[s].to
    BY <2>3, <2>4 DEF AccountRows
  <2> QED BY <1>3, <1>5, <2>1, <2>5 DEF Administrators
<1> QED BY <1>4, <1>5

LEMMA OthersTakeNothing ==
    ASSUME TypeOK, AdministrationNext, ~\E s \in Sessions : WriteAccount(s)
    PROVE  Administrators \subseteq Administrators'
<1>1. /\ account \in [Users -> AccountRows]
      /\ \A u \in Users : account[u] \in AccountRows
  BY DEF TypeOK, ApprovalsTypeOK
<1>2. ASSUME \A u \in Users :
               /\ account[u].exists => account'[u].exists
               /\ account'[u].active = account[u].active
               /\ account'[u].administrator = account[u].administrator
      PROVE  Administrators \subseteq Administrators'
  BY <1>2 DEF Administrators
<1>3. ASSUME NEW by \in Users, NEW v \in Users, CreateUser(by, v)
      PROVE  Administrators \subseteq Administrators'
  <2>1. \A u \in Users : account'[u] =
            IF u = v THEN [account[v] EXCEPT !.exists = TRUE] ELSE account[u]
    BY <1>1, <1>3 DEF CreateUser
  <2> QED BY <1>1, <1>2, <2>1 DEF AccountRows
<1>4. ASSUME NEW s \in Sessions, DropRoles(s)
      PROVE  Administrators \subseteq Administrators'
  <2>1. account' = [account EXCEPT ![req[s].user].roles = @ \cap req[s].chosen]
    BY <1>4 DEF DropRoles
  <2>2. \A u \in Users : account'[u] =
            IF u = req[s].user THEN [account[u] EXCEPT !.roles = @ \cap req[s].chosen]
            ELSE account[u]
    BY <1>1, <2>1
  <2> QED BY <1>1, <1>2, <2>2 DEF AccountRows
<1>5. ASSUME NEW s \in Sessions, NEW r \in Roles, AddRole(s, r)
      PROVE  Administrators \subseteq Administrators'
  <2>1. account' = [account EXCEPT ![req[s].user].roles = @ \cup {r}]
    BY <1>5 DEF AddRole
  <2>2. \A u \in Users : account'[u] =
            IF u = req[s].user THEN [account[u] EXCEPT !.roles = @ \cup {r}]
            ELSE account[u]
    BY <1>1, <2>1
  <2> QED BY <1>1, <1>2, <2>2 DEF AccountRows
<1>6. ASSUME NEW s \in Sessions, WriteRoleDeleted(s)
      PROVE  Administrators \subseteq Administrators'
  <2>1. \A u \in Users : account'[u] = [account[u] EXCEPT !.roles = @ \ {req[s].role}]
    BY <1>6 DEF WriteRoleDeleted
  <2> QED BY <1>1, <1>2, <2>1 DEF AccountRows
<1>7. ASSUME account' = account
      PROVE  Administrators \subseteq Administrators'
  BY <1>7 DEF Administrators
<1>8. PICK s \in Sessions, by \in Users :
          \/ \E u \in Users :
              \/ CreateUser(by, u)
              \/ \E chosen \in SUBSET Roles : BeginSetRoles(s, by, u, chosen)
              \/ BeginSetActive(s, by, u)
              \/ BeginSetAdministrator(s, by, u)
          \/ \E r \in Roles :
              \/ CreateRole(by, r)
              \/ \E selected \in SUBSET Capabilities : SetCapabilities(by, r, selected)
              \/ BeginDeleteRole(s, by, r)
              \/ AddRole(s, r)
          \/ DropRoles(s)
          \/ WriteRoleDeleted(s)
  BY DEF AdministrationNext
<1>9. CASE \E u \in Users :
              \/ \E chosen \in SUBSET Roles : BeginSetRoles(s, by, u, chosen)
              \/ BeginSetActive(s, by, u)
              \/ BeginSetAdministrator(s, by, u)
  BY <1>7, <1>9 DEF BeginSetRoles, BeginSetActive, BeginSetAdministrator, authority
<1>10. CASE \E r \in Roles :
              \/ CreateRole(by, r)
              \/ \E selected \in SUBSET Capabilities : SetCapabilities(by, r, selected)
              \/ BeginDeleteRole(s, by, r)
  BY <1>7, <1>10 DEF CreateRole, SetCapabilities, BeginDeleteRole, authority
<1> QED BY <1>3, <1>4, <1>5, <1>6, <1>8, <1>9, <1>10

LEMMA AdministratorsStep ==
    ASSUME TypeOK, AccountsInv, [Next]_vars, Administrators # {}, Administrators' = {}
    PROVE  \E s \in Sessions :
               req[s] # Idle /\ req'[s] = Idle /\ req[s].by \notin Administrators
<1>1. CASE AdministrationNext
  <2>1. PICK s \in Sessions : WriteAccount(s)
    BY <1>1, OthersTakeNothing
  <2>2. req[s].by \notin Administrators
    BY <2>1, WriteAccountTakes
  <2>3. req[s] # Idle
    BY <2>1 DEF WriteAccount, Idle
  <2>4. req'[s] = Idle
    BY <2>1, FinishMoves DEF WriteAccount, Moves
  <2> QED BY <2>2, <2>3, <2>4
<1>2. CASE ~AdministrationNext
  <2>1. account' = account
    <3>1. CASE ApprovalsNext
      BY <3>1 DEF ApprovalsNext, RequestApproval, BeginAct, BeginFinalize,
                  BeginEdit, LookEdit, WriteAct, WriteLock, WriteEdit, authority
    <3>2. CASE ~ApprovalsNext
      BY <1>2, <3>2 DEF Next, vars, authority
    <3> QED BY <3>1, <3>2
  <2>2. Administrators' = Administrators
    BY <2>1 DEF Administrators
  <2> QED BY <2>2
<1> QED BY <1>1, <1>2

-----------------------------------------------------------------------------
(* Sourcing.                                                               *)

\* What holds of the rows and the requests already.
LEMMA SourcingStand ==
    ASSUME TypeOK, SourcingInv
    PROVE  /\ \A n \in NeedIds : need[n].status = "approved" => Founded(need[n])
           /\ \A q \in RfqIds : rfq[q].status = "absent" => rfq[q] = NoRfq
           /\ \A q \in RfqIds : rfq[q].status # "absent" =>
                rfq[q].need \in NeedIds /\ Founded(need[rfq[q].need])
           /\ \A q \in RfqIds : rfq[q].waived => rfq[q].excused
           /\ \A q \in RfqIds, v \in Vendors :
                quoted[q][v] # {} => rfq[q].status # "absent"
           /\ \A q \in RfqIds, l \in NeedLines : award[q][l] # NoAward =>
                /\ rfq[q].status # "absent" /\ award[q][l].vendor \in Vendors
                /\ award[q][l].vendor \in award[q][l].snapshot /\ Enough(q)
           /\ \A s \in Sessions :
                /\ req[s].op = "issue_rfq" => rfq[req[s].rfq].status # "absent"
                /\ req[s].op = "create_rfq" => Founded(need[req[s].need])
                /\ req[s].op = "award" =>
                     Enough(req[s].rfq) /\ req[s].line \in quoted[req[s].rfq][req[s].vendor]
  BY DEF SourcingInv, SourcingGrounded, AwardsRestOnProcess, Enough

\* More answers and a reason recorded leave enough of them.
LEMMA EnoughGrows ==
    ASSUME NEW q \in RfqIds, Enough(q),
           rfq[q].excused => rfq'[q].excused,
           \A v \in Vendors : quoted[q][v] \subseteq quoted'[q][v]
    PROVE  Cardinality(Responded(q)') >= MINIMUM_VENDORS \/ rfq'[q].excused
<1>1. Responded(q) \subseteq Responded(q)' /\ Responded(q)' \subseteq Vendors
  BY DEF Responded
<1>2. IsFiniteSet(Responded(q)') /\ IsFiniteSet(Responded(q))
  BY <1>1, OfficeAssumption, FS_Subset
<1>3. Cardinality(Responded(q)) <= Cardinality(Responded(q)')
  BY <1>1, <1>2, FS_Subset
<1>4. Cardinality(Responded(q)) \in Nat /\ Cardinality(Responded(q)') \in Nat
  BY <1>2, FS_CardinalityType
<1>5. MINIMUM_VENDORS \in Nat
  BY OfficeAssumption
<1>6. \A a, b, c \in Nat : a >= c /\ a <= b => b >= c
  OBVIOUS
<1> QED BY <1>3, <1>4, <1>5, <1>6 DEF Enough

(* Approvals, answers and reasons are only added to, and an RFQ stays of   *)
(* its need: then everything that rests on them does so still.             *)
LEMMA SourcingGrow ==
    ASSUME TypeOK, SourcingInv, req' \in Requesting,
           \A n \in NeedIds :
               /\ Founded(need[n]) => Founded(need'[n])
               /\ need'[n].status = "approved" => Founded(need'[n]),
           \A q \in RfqIds :
               /\ rfq'[q].status = "absent" => rfq'[q] = NoRfq
               /\ rfq[q].status # "absent" => rfq'[q].status # "absent"
               /\ rfq'[q].status # "absent" =>
                    rfq'[q].need \in NeedIds /\ Founded(need'[rfq'[q].need])
               /\ rfq[q].excused => rfq'[q].excused
               /\ rfq'[q].waived => rfq'[q].excused,
           \A q \in RfqIds, v \in Vendors :
               /\ quoted[q][v] \subseteq quoted'[q][v]
               /\ quoted'[q][v] # {} => rfq'[q].status # "absent",
           \A q \in RfqIds, l \in NeedLines : award'[q][l] # NoAward =>
               /\ rfq'[q].status # "absent" /\ award'[q][l].vendor \in Vendors
               /\ award'[q][l].vendor \in award'[q][l].snapshot /\ Enough(q),
           \A s \in Sessions :
               /\ req'[s].op = "issue_rfq" => rfq[req'[s].rfq].status # "absent"
               /\ req'[s].op = "create_rfq" => Founded(need[req'[s].need])
               /\ req'[s].op = "award" =>
                    Enough(req'[s].rfq) /\ req'[s].line \in quoted[req'[s].rfq][req'[s].vendor]
    PROVE  SourcingInv'
<1>1. \A q \in RfqIds : Enough(q) =>
          Cardinality(Responded(q)') >= MINIMUM_VENDORS \/ rfq'[q].excused
  BY EnoughGrows
<1>2. ASSUME NEW s \in Sessions
      PROVE  /\ req'[s].op = "issue_rfq" => rfq'[req'[s].rfq].status # "absent"
             /\ req'[s].op = "create_rfq" => Founded(need'[req'[s].need])
             /\ req'[s].op = "award" =>
                  /\ Enough(req[s].rfq)'
                  /\ req'[s].line \in quoted'[req'[s].rfq][req'[s].vendor]
  <2>1. req'[s] \in {Idle} \cup AllRequests
    BY DEF Requesting
  <2>2. /\ req'[s].op = "create_rfq" => req'[s].need \in NeedIds
        /\ req'[s].op \in {"issue_rfq", "award"} => req'[s].rfq \in RfqIds
        /\ req'[s].op = "award" => req'[s].line \in NeedLines /\ req'[s].vendor \in Vendors
    BY <2>1, SourcingFields
  <2>3. req'[s].op = "award" => Enough(req[s].rfq)'
    <3>1. SUFFICES ASSUME req'[s].op = "award" PROVE Enough(req[s].rfq)'
      OBVIOUS
    <3> DEFINE q == req'[s].rfq
    <3>2. q \in RfqIds /\ Enough(q)
      BY <2>2, <3>1
    <3>3. Cardinality({v \in Vendors : quoted'[q][v] # {}}) >= MINIMUM_VENDORS
              \/ rfq'[q].excused
      BY <1>1, <3>2 DEF Responded
    <3> QED BY <3>3 DEF Enough, Responded
  <2> QED BY <2>2, <2>3
<1>3. ASSUME NEW q \in RfqIds, NEW l \in NeedLines, award'[q][l] # NoAward
      PROVE  /\ Founded(need'[rfq'[q].need])
             /\ Cardinality(Responded(q)') >= MINIMUM_VENDORS \/ rfq'[q].excused
             /\ award'[q][l].vendor \in award'[q][l].snapshot
  BY <1>1, <1>3
<1>4. AwardsRestOnProcess'
  BY <1>3 DEF AwardsRestOnProcess, Founded
<1>5. SourcingGrounded'
  BY <1>2 DEF SourcingGrounded
<1> QED BY <1>4, <1>5 DEF SourcingInv

LEMMA SourcingFrame ==
    ASSUME TypeOK, SourcingInv, req' \in Requesting, UNCHANGED <<need, rfq, quoted, award>>,
           \A s \in Sessions :
               req'[s] = req[s] \/ req'[s].op \notin {"issue_rfq", "create_rfq", "award"}
    PROVE  SourcingInv' /\ SourcingTypeOK'
<1>1. SourcingInv'
  BY SourcingStand, SourcingGrow
<1> QED BY <1>1 DEF TypeOK, SourcingTypeOK

SourcingKept == SourcingInv' /\ SourcingTypeOK' /\ req' \in Requesting /\ Within(SourcingOps)

LEMMA SourcingBegin ==
    ASSUME TypeOK, SourcingInv, NEW s \in Sessions, NEW a \in AllRequests, Begin(s, a),
           a.op \in SourcingOps, UNCHANGED sourcing,
           a.op = "issue_rfq" => rfq[a.rfq].status # "absent",
           a.op = "create_rfq" => Founded(need[a.need]),
           a.op = "award" => Enough(a.rfq) /\ a.line \in quoted[a.rfq][a.vendor]
    PROVE  SourcingKept
<1>1. Moves(s, a)
  BY BeginMoves
<1>2. UNCHANGED <<need, rfq, quoted, award>>
  BY DEF sourcing
<1>3. \A t \in Sessions :
          /\ req'[t].op = "issue_rfq" => rfq[req'[t].rfq].status # "absent"
          /\ req'[t].op = "create_rfq" => Founded(need[req'[t].need])
          /\ req'[t].op = "award" =>
               Enough(req'[t].rfq) /\ req'[t].line \in quoted[req'[t].rfq][req'[t].vendor]
  <2> SUFFICES ASSUME NEW t \in Sessions
      PROVE  /\ req'[t].op = "issue_rfq" => rfq[req'[t].rfq].status # "absent"
             /\ req'[t].op = "create_rfq" => Founded(need[req'[t].need])
             /\ req'[t].op = "award" =>
                  Enough(req'[t].rfq) /\ req'[t].line \in quoted[req'[t].rfq][req'[t].vendor]
    OBVIOUS
  <2>1. CASE t = s
    <3>1. req'[t] = a
      BY <1>1, <2>1 DEF Moves
    <3> QED BY <3>1
  <2>2. CASE t # s
    <3>1. req'[t] = req[t]
      BY <1>1, <2>2 DEF Moves
    <3> QED BY <3>1, SourcingStand
  <2> QED BY <2>1, <2>2
<1>4. req' \in Requesting
  BY <1>1 DEF Moves
<1>5. SourcingInv'
  BY <1>2, <1>3, <1>4, SourcingStand, SourcingGrow
<1> QED BY <1>1, <1>2, <1>4, <1>5
        DEF SourcingKept, Moves, Within, TypeOK, SourcingTypeOK

\* A request is saved.
LEMMA NeedWritten ==
    ASSUME TypeOK, SourcingInv, NEW n \in NeedIds, NEW row \in NeedRows,
           need' = [need EXCEPT ![n] = row], UNCHANGED <<rfq, quoted, award>>,
           row.status = "approved" => Founded(row),
           Founded(need[n]) => Founded(row),
           req' \in Requesting, \A s \in Sessions : req'[s] = req[s] \/ req'[s].op = "idle"
    PROVE  SourcingKept
<1>1. need \in [NeedIds -> NeedRows]
  BY DEF TypeOK, SourcingTypeOK
<1>2. need' \in [NeedIds -> NeedRows]
      /\ \A m \in NeedIds : need'[m] = IF m = n THEN row ELSE need[m]
  BY <1>1
<1>3. \A m \in NeedIds :
          /\ Founded(need[m]) => Founded(need'[m])
          /\ need'[m].status = "approved" => Founded(need'[m])
  BY <1>2, SourcingStand
<1>4. \A q \in RfqIds : rfq'[q].status # "absent" =>
          rfq'[q].need \in NeedIds /\ Founded(need'[rfq'[q].need])
  BY <1>3, SourcingStand
<1>5. SourcingInv'
  BY <1>3, <1>4, SourcingStand, SourcingGrow
<1> QED BY <1>2, <1>5 DEF SourcingKept, Within, TypeOK, SourcingTypeOK

\* The lines an RFQ asks, the vendors it goes to or their answers are saved.
LEMMA RfqWritten ==
    ASSUME TypeOK, SourcingInv, NEW q \in RfqIds, NEW row \in RfqRows,
           rfq' = [rfq EXCEPT ![q] = row], UNCHANGED <<need, award>>,
           row.status # "absent",
           row.need \in NeedIds, Founded(need[row.need]),
           rfq[q].excused => row.excused, row.waived => row.excused,
           quoted' \in [RfqIds -> [Vendors -> SUBSET NeedLines]],
           \A p \in RfqIds, v \in Vendors :
               /\ quoted[p][v] \subseteq quoted'[p][v]
               /\ p # q => quoted'[p][v] = quoted[p][v],
           req' \in Requesting, \A s \in Sessions : req'[s] = req[s] \/ req'[s].op = "idle"
    PROVE  SourcingKept
<1>1. rfq \in [RfqIds -> RfqRows]
  BY DEF TypeOK, SourcingTypeOK
<1>2. rfq' \in [RfqIds -> RfqRows] /\ \A p \in RfqIds : rfq'[p] = IF p = q THEN row ELSE rfq[p]
  BY <1>1
<1>3. \A p \in RfqIds :
          /\ rfq'[p].status = "absent" => rfq'[p] = NoRfq
          /\ rfq[p].status # "absent" => rfq'[p].status # "absent"
          /\ rfq'[p].status # "absent" => rfq'[p].need \in NeedIds /\ Founded(need[rfq'[p].need])
          /\ rfq[p].excused => rfq'[p].excused
          /\ rfq'[p].waived => rfq'[p].excused
  BY <1>2, SourcingStand
<1>4. \A p \in RfqIds, v \in Vendors : quoted'[p][v] # {} => rfq'[p].status # "absent"
  BY <1>2, SourcingStand
<1>5. \A p \in RfqIds, l \in NeedLines : award'[p][l] # NoAward =>
          /\ rfq'[p].status # "absent" /\ award'[p][l].vendor \in Vendors
          /\ award'[p][l].vendor \in award'[p][l].snapshot /\ Enough(p)
  BY <1>3, SourcingStand
<1>6. SourcingInv'
  BY <1>3, <1>4, <1>5, SourcingStand, SourcingGrow
<1> QED BY <1>2, <1>6 DEF SourcingKept, Within, TypeOK, SourcingTypeOK

LEMMA NeedActionsKept ==
    ASSUME TypeOK, SourcingInv, NEW n \in NeedIds,
           DraftFromRelease(n) \/ RaiseSiteRequisition(n) \/ RequestShortfall(n) \/ HoldNeed(n)
    PROVE  SourcingKept
<1>1. need \in [NeedIds -> NeedRows] /\ need[n] \in NeedRows
  BY DEF TypeOK, SourcingTypeOK
<1>2. req' = req /\ UNCHANGED <<rfq, quoted, award>>
  BY DEF DraftFromRelease, RaiseSiteRequisition, RequestShortfall, HoldNeed
<1>3. CASE DraftFromRelease(n)
  <2> DEFINE row == [need[n] EXCEPT !.status = "approved", !.announced = TRUE]
  <2>1. row \in NeedRows /\ row.announced /\ need' = [need EXCEPT ![n] = row]
    BY <1>1, <1>3 DEF DraftFromRelease, NeedRows
  <2> HIDE DEF row
  <2> QED BY <1>2, <2>1, Typed, NeedWritten DEF Founded
<1>4. CASE RaiseSiteRequisition(n)
  <2> DEFINE row == [need[n] EXCEPT !.status = "awaiting_approval"]
  <2>1. /\ row \in NeedRows /\ row.status # "approved" /\ need' = [need EXCEPT ![n] = row]
        /\ row.announced = need[n].announced /\ row.forWorks = need[n].forWorks
    BY <1>1, <1>4 DEF RaiseSiteRequisition, NeedRows
  <2> HIDE DEF row
  <2> QED BY <1>2, <2>1, Typed, NeedWritten DEF Founded
<1>5. CASE RequestShortfall(n)
  <2> DEFINE row == [need[n] EXCEPT !.status = "approved", !.forWorks = TRUE]
  <2>1. row \in NeedRows /\ row.forWorks /\ need' = [need EXCEPT ![n] = row]
    BY <1>1, <1>5 DEF RequestShortfall, NeedRows
  <2> HIDE DEF row
  <2> QED BY <1>2, <2>1, Typed, NeedWritten DEF Founded
<1>6. CASE HoldNeed(n)
  <2> DEFINE row == [need[n] EXCEPT !.status = "held"]
  <2>1. /\ row \in NeedRows /\ row.status # "approved" /\ need' = [need EXCEPT ![n] = row]
        /\ row.announced = need[n].announced /\ row.forWorks = need[n].forWorks
    BY <1>1, <1>6 DEF HoldNeed, NeedRows
  <2> HIDE DEF row
  <2> QED BY <1>2, <2>1, Typed, NeedWritten DEF Founded
<1> QED BY <1>3, <1>4, <1>5, <1>6

LEMMA WriteApprovedNeedKept ==
    ASSUME TypeOK, SourcingInv, NEW s \in Sessions, WriteApprovedNeed(s)
    PROVE  SourcingKept
<1> DEFINE n == req[s].need
           row == [need[n] EXCEPT !.status = "approved", !.announced = TRUE]
<1>1. req[s] \in {Idle} \cup AllRequests /\ req[s].op = "approve_need"
  BY Typed DEF Requesting, WriteApprovedNeed
<1>2. n \in NeedIds /\ need \in [NeedIds -> NeedRows] /\ need[n] \in NeedRows
  BY <1>1, SourcingFields DEF TypeOK, SourcingTypeOK
<1>3. row \in NeedRows /\ row.announced /\ need' = [need EXCEPT ![n] = row]
  BY <1>2 DEF WriteApprovedNeed, NeedRows
<1>4. Moves(s, Idle) /\ Idle.op = "idle" /\ UNCHANGED <<rfq, quoted, award>>
  BY FinishMoves DEF WriteApprovedNeed
<1> HIDE DEF n, row
<1> QED BY <1>2, <1>3, <1>4, NeedWritten DEF Moves, Founded

LEMMA WriteRfqKept ==
    ASSUME TypeOK, SourcingInv, NEW s \in Sessions, WriteRfq(s)
    PROVE  SourcingKept
<1>1. req[s] \in {Idle} \cup AllRequests /\ req[s].op = "create_rfq"
  BY Typed DEF Requesting, WriteRfq
<1>2. req[s].need \in NeedIds /\ req[s].invited \in SUBSET Vendors /\ Founded(need[req[s].need])
  BY <1>1, SourcingFields, SourcingStand
<1>3. PICK q \in RfqIds :
          /\ rfq[q] = NoRfq
          /\ rfq' = [rfq EXCEPT
                 ![q].status = "draft", ![q].need = req[s].need, ![q].invited = req[s].invited]
  BY DEF WriteRfq
<1> DEFINE row == [rfq[q] EXCEPT
                      !.status = "draft", !.need = req[s].need, !.invited = req[s].invited]
<1>4. rfq \in [RfqIds -> RfqRows] /\ rfq[q] \in RfqRows
      /\ quoted \in [RfqIds -> [Vendors -> SUBSET NeedLines]]
  BY DEF TypeOK, SourcingTypeOK
<1>5. /\ row \in RfqRows /\ row.status # "absent" /\ row.need = req[s].need
      /\ row.waived = rfq[q].waived /\ row.excused = rfq[q].excused
      /\ rfq' = [rfq EXCEPT ![q] = row]
  BY <1>2, <1>3, <1>4 DEF RfqRows
<1>6. Moves(s, Idle) /\ Idle.op = "idle" /\ UNCHANGED <<need, quoted, award>>
  BY FinishMoves DEF WriteRfq
<1> HIDE DEF row
<1> QED BY <1>2, <1>4, <1>5, <1>6, SourcingStand, RfqWritten DEF Moves

LEMMA WaiveKept ==
    ASSUME TypeOK, SourcingInv, NEW q \in RfqIds, NEW reason \in BOOLEAN, Waive(q, reason)
    PROVE  SourcingKept
<1> DEFINE row == [rfq[q] EXCEPT !.waived = reason, !.excused = @ \/ reason]
<1>1. rfq \in [RfqIds -> RfqRows] /\ rfq[q] \in RfqRows
      /\ quoted \in [RfqIds -> [Vendors -> SUBSET NeedLines]]
  BY DEF TypeOK, SourcingTypeOK
<1>2. rfq[q].status # "absent"
  BY SourcingStand DEF Waive
<1>3. /\ row \in RfqRows /\ row.status = rfq[q].status /\ row.need = rfq[q].need
      /\ (row.waived => row.excused) /\ (rfq[q].excused => row.excused)
      /\ rfq' = [rfq EXCEPT ![q] = row]
  BY <1>1 DEF RfqRows, Waive
<1>4. req' = req /\ UNCHANGED <<need, quoted, award>>
  BY DEF Waive
<1> HIDE DEF row
<1> QED BY <1>1, <1>2, <1>3, <1>4, Typed, SourcingStand, RfqWritten

LEMMA WriteIssuedRfqKept ==
    ASSUME TypeOK, SourcingInv, NEW s \in Sessions, WriteIssuedRfq(s)
    PROVE  SourcingKept
<1> DEFINE q == req[s].rfq  row == [rfq[q] EXCEPT !.status = "issued"]
<1>1. req[s] \in {Idle} \cup AllRequests /\ req[s].op = "issue_rfq"
  BY Typed DEF Requesting, WriteIssuedRfq
<1>2. q \in RfqIds /\ rfq[q].status # "absent"
  BY <1>1, SourcingFields, SourcingStand
<1>3. rfq \in [RfqIds -> RfqRows] /\ rfq[q] \in RfqRows
      /\ quoted \in [RfqIds -> [Vendors -> SUBSET NeedLines]]
  BY <1>2 DEF TypeOK, SourcingTypeOK
<1>4. /\ row \in RfqRows /\ row.status = "issued" /\ row.need = rfq[q].need
      /\ row.waived = rfq[q].waived /\ row.excused = rfq[q].excused
      /\ rfq' = [rfq EXCEPT ![q] = row]
  BY <1>2, <1>3 DEF RfqRows, WriteIssuedRfq
<1>5. Moves(s, Idle) /\ Idle.op = "idle" /\ UNCHANGED <<need, quoted, award>>
  BY FinishMoves DEF WriteIssuedRfq
<1> HIDE DEF q, row
<1> QED BY <1>2, <1>3, <1>4, <1>5, SourcingStand, RfqWritten DEF Moves

LEMMA RecordQuoteKept ==
    ASSUME TypeOK, SourcingInv, NEW q \in RfqIds, NEW v \in Vendors,
           NEW lines \in SUBSET NeedLines, RecordQuote(q, v, lines)
    PROVE  SourcingKept
<1> DEFINE row == [rfq[q] EXCEPT !.status = "comparing"]
<1>1. rfq \in [RfqIds -> RfqRows] /\ rfq[q] \in RfqRows
      /\ quoted \in [RfqIds -> [Vendors -> SUBSET NeedLines]]
  BY DEF TypeOK, SourcingTypeOK
<1>2. rfq[q].status # "absent"
  BY SourcingStand DEF RecordQuote
<1>3. /\ row \in RfqRows /\ row.status = "comparing" /\ row.need = rfq[q].need
      /\ row.waived = rfq[q].waived /\ row.excused = rfq[q].excused
      /\ rfq' = [rfq EXCEPT ![q] = row]
  BY <1>1 DEF RfqRows, RecordQuote
<1>4. quoted' = [quoted EXCEPT ![q] = [quoted[q] EXCEPT ![v] = quoted[q][v] \cup lines]]
  BY DEF RecordQuote
<1>5. quoted[q] \in [Vendors -> SUBSET NeedLines]
      /\ [quoted[q] EXCEPT ![v] = quoted[q][v] \cup lines] \in [Vendors -> SUBSET NeedLines]
  BY <1>1
<1>6. quoted' \in [RfqIds -> [Vendors -> SUBSET NeedLines]]
  BY <1>1, <1>4, <1>5
<1>7. \A p \in RfqIds, w \in Vendors :
          /\ quoted[p][w] \subseteq quoted'[p][w]
          /\ p # q => quoted'[p][w] = quoted[p][w]
  BY <1>1, <1>4, <1>5
<1>8. req' = req /\ UNCHANGED <<need, award>>
  BY DEF RecordQuote
<1> HIDE DEF row
<1>9. row.need \in NeedIds /\ Founded(need[row.need])
  BY <1>2, <1>3, SourcingStand
<1>10. \A t \in Sessions : req'[t] = req[t] \/ req'[t].op = "idle"
  BY <1>8
<1>11. req' \in Requesting /\ (row.waived => row.excused)
  BY <1>3, <1>8, Typed, SourcingStand
<1> QED BY <1>3, <1>6, <1>7, <1>8, <1>9, <1>10, <1>11, RfqWritten

LEMMA SourcingBeginsKept ==
    ASSUME TypeOK, SourcingInv, NEW s \in Sessions,
           \/ \E n \in NeedIds :
                BeginApproveNeed(s, n) \/ \E vendors \in SUBSET Vendors : BeginRfq(s, n, vendors)
           \/ \E q \in RfqIds :
                BeginIssueRfq(s, q)
                    \/ \E l \in NeedLines, v \in Vendors : BeginAward(s, q, l, v)
    PROVE  SourcingKept
<1>1. ASSUME NEW n \in NeedIds, BeginApproveNeed(s, n)
      PROVE  SourcingKept
  <2> DEFINE a == [op |-> "approve_need", need |-> n]
  <2>1. a \in AllRequests /\ a.op = "approve_need" /\ Begin(s, a) /\ UNCHANGED sourcing
    BY <1>1 DEF SourcingRequests, AllRequests, BeginApproveNeed
  <2> HIDE DEF a
  <2> QED BY <2>1, SourcingBegin DEF SourcingOps
<1>2. ASSUME NEW n \in NeedIds, NEW vendors \in SUBSET Vendors, BeginRfq(s, n, vendors)
      PROVE  SourcingKept
  <2> DEFINE a == [op |-> "create_rfq", need |-> n, invited |-> vendors]
  <2>1. /\ a \in AllRequests /\ a.op = "create_rfq" /\ a.need = n
        /\ Begin(s, a) /\ UNCHANGED sourcing
    BY <1>2 DEF SourcingRequests, AllRequests, BeginRfq
  <2>2. Founded(need[n])
    BY <1>2, SourcingStand DEF BeginRfq
  <2> HIDE DEF a
  <2> QED BY <2>1, <2>2, SourcingBegin DEF SourcingOps
<1>3. ASSUME NEW q \in RfqIds, BeginIssueRfq(s, q)
      PROVE  SourcingKept
  <2> DEFINE a == [op |-> "issue_rfq", rfq |-> q]
  <2>1. /\ a \in AllRequests /\ a.op = "issue_rfq" /\ a.rfq = q
        /\ Begin(s, a) /\ UNCHANGED sourcing
    BY <1>3 DEF SourcingRequests, AllRequests, BeginIssueRfq
  <2>2. rfq[q].status # "absent"
    BY <1>3, SourcingStand DEF BeginIssueRfq
  <2> HIDE DEF a
  <2> QED BY <2>1, <2>2, SourcingBegin DEF SourcingOps
<1>4. ASSUME NEW q \in RfqIds, NEW l \in NeedLines, NEW v \in Vendors, BeginAward(s, q, l, v)
      PROVE  SourcingKept
  <2> DEFINE a == [op |-> "award", rfq |-> q, line |-> l, vendor |-> v]
  <2>1. /\ a \in AllRequests /\ a.op = "award" /\ a.rfq = q /\ a.line = l /\ a.vendor = v
        /\ Begin(s, a) /\ UNCHANGED sourcing
    BY <1>4 DEF SourcingRequests, AllRequests, BeginAward
  <2>2. Enough(q) /\ l \in quoted[q][v]
    BY <1>4, SourcingStand DEF BeginAward, meets_minimum, Enough
  <2> HIDE DEF a
  <2> QED BY <2>1, <2>2, SourcingBegin DEF SourcingOps
<1> QED BY <1>1, <1>2, <1>3, <1>4

\* An award, and the orders raised from it, are saved.
LEMMA AwardsWritten ==
    ASSUME TypeOK, SourcingInv, NEW q \in RfqIds,
           NEW row \in [NeedLines -> AwardRows], award' = [award EXCEPT ![q] = row],
           NEW status \in {"awarded", rfq[q].status}, rfq[q].status # "absent",
           rfq' = [rfq EXCEPT ![q] = [rfq[q] EXCEPT !.status = status]],
           UNCHANGED <<need, quoted>>,
           \A l \in NeedLines : row[l] # NoAward =>
               row[l].vendor \in Vendors /\ row[l].vendor \in row[l].snapshot /\ Enough(q),
           req' \in Requesting, \A s \in Sessions : req'[s] = req[s] \/ req'[s].op = "idle"
    PROVE  SourcingKept
<1> DEFINE r == [rfq[q] EXCEPT !.status = status]
<1>1. /\ rfq \in [RfqIds -> RfqRows] /\ rfq[q] \in RfqRows
      /\ award \in [RfqIds -> [NeedLines -> AwardRows]]
  BY DEF TypeOK, SourcingTypeOK
<1>2. /\ r \in RfqRows /\ r.status # "absent" /\ r.need = rfq[q].need
      /\ r.waived = rfq[q].waived /\ r.excused = rfq[q].excused
  BY <1>1 DEF RfqRows
<1> HIDE DEF r
<1>3. rfq' \in [RfqIds -> RfqRows] /\ \A p \in RfqIds : rfq'[p] = IF p = q THEN r ELSE rfq[p]
  BY <1>1, <1>2 DEF r
<1>4. /\ award' \in [RfqIds -> [NeedLines -> AwardRows]]
      /\ \A p \in RfqIds : award'[p] = IF p = q THEN row ELSE award[p]
  BY <1>1
<1>5. \A p \in RfqIds :
          /\ rfq'[p].status = "absent" => rfq'[p] = NoRfq
          /\ rfq[p].status # "absent" => rfq'[p].status # "absent"
          /\ rfq'[p].status # "absent" =>
               rfq'[p].need \in NeedIds /\ Founded(need'[rfq'[p].need])
          /\ rfq[p].excused => rfq'[p].excused
          /\ rfq'[p].waived => rfq'[p].excused
  BY <1>2, <1>3, SourcingStand
<1>6. \A p \in RfqIds, v \in Vendors :
          /\ quoted[p][v] \subseteq quoted'[p][v]
          /\ quoted'[p][v] # {} => rfq'[p].status # "absent"
  BY <1>5, SourcingStand
<1>7. \A p \in RfqIds, l \in NeedLines : award'[p][l] # NoAward =>
          /\ rfq'[p].status # "absent" /\ award'[p][l].vendor \in Vendors
          /\ award'[p][l].vendor \in award'[p][l].snapshot /\ Enough(p)
  BY <1>2, <1>3, <1>4, SourcingStand
<1>8. \A n \in NeedIds :
          /\ Founded(need[n]) => Founded(need'[n])
          /\ need'[n].status = "approved" => Founded(need'[n])
  BY SourcingStand
<1>9. \A s \in Sessions :
          /\ req'[s].op = "issue_rfq" => rfq[req'[s].rfq].status # "absent"
          /\ req'[s].op = "create_rfq" => Founded(need[req'[s].need])
          /\ req'[s].op = "award" =>
               Enough(req'[s].rfq) /\ req'[s].line \in quoted[req'[s].rfq][req'[s].vendor]
  BY SourcingStand
<1>10. SourcingInv'
  BY <1>5, <1>6, <1>7, <1>8, <1>9, SourcingGrow
<1> QED BY <1>3, <1>4, <1>10 DEF SourcingKept, Within, TypeOK, SourcingTypeOK

LEMMA WriteAwardKept ==
    ASSUME TypeOK, SourcingInv, NEW s \in Sessions, WriteAward(s)
    PROVE  SourcingKept
<1> DEFINE q == req[s].rfq  l == req[s].line  v == req[s].vendor
           one == [vendor |-> v, orders |-> 0,
                   snapshot |-> {w \in Vendors : l \in quoted[q][w]}]
           row == [award[q] EXCEPT ![l] = one]
           all == \A x \in NeedLines \ {l} : award[q][x] # NoAward
<1>1. req[s] \in {Idle} \cup AllRequests /\ req[s].op = "award"
  BY Typed DEF Requesting, WriteAward
<1>2. /\ q \in RfqIds /\ l \in NeedLines /\ v \in Vendors
      /\ Enough(q) /\ l \in quoted[q][v]
  BY <1>1, SourcingFields, SourcingStand
<1>3. /\ rfq \in [RfqIds -> RfqRows] /\ rfq[q] \in RfqRows
      /\ award \in [RfqIds -> [NeedLines -> AwardRows]]
      /\ award[q] \in [NeedLines -> AwardRows]
  BY <1>2 DEF TypeOK, SourcingTypeOK
<1>4. rfq[q].status # "absent"
  <2>1. quoted[q][v] # {}
    BY <1>2
  <2> QED BY <1>2, <2>1, SourcingStand
<1>5. one \in AwardRows /\ one.vendor = v /\ v \in one.snapshot
  BY <1>2 DEF AwardRows
<1>6. award' = [award EXCEPT ![q] = row]
  BY DEF WriteAward
<1>7. rfq' = IF all THEN [rfq EXCEPT ![q].status = "awarded"] ELSE rfq
  BY DEF WriteAward
<1>8. Moves(s, Idle) /\ Idle.op = "idle" /\ UNCHANGED <<need, quoted>>
  BY FinishMoves DEF WriteAward
<1> HIDE DEF one, all, q, l, v
<1>9. row \in [NeedLines -> AwardRows]
      /\ \A x \in NeedLines : row[x] = IF x = l THEN one ELSE award[q][x]
  BY <1>2, <1>3, <1>5
<1> HIDE DEF row
<1>10. PICK status \in {"awarded", rfq[q].status} :
          rfq' = [rfq EXCEPT ![q] = [rfq[q] EXCEPT !.status = status]]
  <2>1. CASE all
    BY <1>7, <2>1
  <2>2. CASE ~all
    <3>1. rfq[q] = [rfq[q] EXCEPT !.status = rfq[q].status]
      BY <1>3 DEF RfqRows
    <3>2. rfq = [rfq EXCEPT ![q] = rfq[q]]
      BY <1>3
    <3> QED BY <1>7, <2>2, <3>1, <3>2
  <2> QED BY <2>1, <2>2
<1>11. \A x \in NeedLines : row[x] # NoAward =>
           row[x].vendor \in Vendors /\ row[x].vendor \in row[x].snapshot /\ Enough(q)
  BY <1>2, <1>5, <1>9, SourcingStand
<1>12. req' \in Requesting /\ \A t \in Sessions : req'[t] = req[t] \/ req'[t].op = "idle"
  BY <1>8 DEF Moves
<1> QED BY <1>2, <1>4, <1>6, <1>8, <1>9, <1>10, <1>11, <1>12, AwardsWritten

LEMMA CreateOrderKept ==
    ASSUME TypeOK, SourcingInv, NEW q \in RfqIds, NEW lines \in (SUBSET NeedLines) \ {{}},
           CreateOrder(q, lines)
    PROVE  SourcingKept
<1> DEFINE More(l) == [award[q][l] EXCEPT !.orders = award[q][l].orders + 1]
           row == [l \in NeedLines |-> IF l \in lines THEN More(l) ELSE award[q][l]]
<1>1. /\ rfq \in [RfqIds -> RfqRows] /\ rfq[q] \in RfqRows
      /\ \A l \in NeedLines : award[q][l] \in AwardRows
      /\ award \in [RfqIds -> [NeedLines -> AwardRows]]
  BY DEF TypeOK, SourcingTypeOK
<1>2. award' = [award EXCEPT ![q] = row]
  BY <1>1 DEF CreateOrder
<1>3. ASSUME NEW l \in NeedLines
      PROVE  /\ More(l) \in AwardRows /\ More(l).vendor = award[q][l].vendor
             /\ More(l).snapshot = award[q][l].snapshot
  <2>1. award[q][l] \in AwardRows
    BY <1>1
  <2>2. award[q][l].orders + 1 \in Nat
    BY <2>1 DEF AwardRows
  <2> QED BY <2>1, <2>2 DEF AwardRows
<1>4. ASSUME NEW l \in lines
      PROVE  award[q][l] # NoAward
  <2>1. award[q][l].vendor \in Vendors
    BY DEF CreateOrder
  <2>2. "none" \notin Vendors
    BY OfficeAssumption
  <2>3. NoAward.vendor = "none"
    BY DEF NoAward
  <2> QED BY <2>1, <2>2, <2>3
<1> HIDE DEF More
<1>5. row \in [NeedLines -> AwardRows]
      /\ \A l \in NeedLines : row[l] = IF l \in lines THEN More(l) ELSE award[q][l]
  BY <1>1, <1>3
<1> HIDE DEF row
<1>6. PICK k \in lines : k \in NeedLines
  <2>1. lines # {} /\ lines \subseteq NeedLines
    OBVIOUS
  <2> QED BY <2>1
<1>7. rfq[q].status # "absent"
  BY <1>4, <1>6, SourcingStand
<1>8. rfq' = [rfq EXCEPT ![q] = [rfq[q] EXCEPT !.status = rfq[q].status]]
  <2>1. rfq[q] = [rfq[q] EXCEPT !.status = rfq[q].status]
    BY <1>1 DEF RfqRows
  <2>2. rfq = [rfq EXCEPT ![q] = rfq[q]]
    BY <1>1
  <2> QED BY <2>1, <2>2 DEF CreateOrder
<1>9. \A l \in NeedLines : row[l] # NoAward =>
           row[l].vendor \in Vendors /\ row[l].vendor \in row[l].snapshot /\ Enough(q)
  BY <1>3, <1>4, <1>5, SourcingStand
<1>10. req' = req /\ UNCHANGED <<need, quoted>>
  BY DEF CreateOrder
<1> QED BY <1>2, <1>5, <1>7, <1>8, <1>9, <1>10, Typed, AwardsWritten

LEMMA SourcingNextInv ==
    ASSUME TypeOK, SourcingInv, SourcingNext
    PROVE  SourcingInv' /\ SourcingTypeOK' /\ req' \in Requesting /\ Within(SourcingOps)
<1>1. SourcingKept
  <2>1. ASSUME NEW q \in RfqIds, NEW lines \in (SUBSET NeedLines) \ {{}}, NEW v \in Vendors,
               RecordQuote(q, v, lines)
        PROVE  SourcingKept
    BY <2>1, RecordQuoteKept
  <2>2. ASSUME NEW s \in Sessions,
               \/ \E n \in NeedIds :
                    BeginApproveNeed(s, n)
                        \/ \E vendors \in SUBSET Vendors : BeginRfq(s, n, vendors)
               \/ \E q \in RfqIds :
                    BeginIssueRfq(s, q)
                        \/ \E l \in NeedLines, v \in Vendors : BeginAward(s, q, l, v)
        PROVE  SourcingKept
    BY <2>2, SourcingBeginsKept
  <2>3. CASE \E n \in NeedIds :
                \/ DraftFromRelease(n) \/ RaiseSiteRequisition(n)
                \/ RequestShortfall(n) \/ HoldNeed(n)
    BY <2>3, NeedActionsKept
  <2>4. CASE \E q \in RfqIds :
                \/ \E reason \in BOOLEAN : Waive(q, reason)
                \/ \E v \in Vendors, lines \in (SUBSET NeedLines) \ {{}} : RecordQuote(q, v, lines)
                \/ \E lines \in (SUBSET NeedLines) \ {{}} : CreateOrder(q, lines)
    BY <2>1, <2>4, WaiveKept, CreateOrderKept
  <2>5. CASE \E s \in Sessions :
                \/ WriteApprovedNeed(s) \/ WriteRfq(s) \/ WriteIssuedRfq(s) \/ WriteAward(s)
    BY <2>5, WriteApprovedNeedKept, WriteRfqKept, WriteIssuedRfqKept, WriteAwardKept
  <2> QED BY <2>2, <2>3, <2>4, <2>5 DEF SourcingNext
<1> QED BY <1>1 DEF SourcingKept

-----------------------------------------------------------------------------
(* Orders and their projects.                                              *)

LEMMA TradeTypes ==
    ASSUME TypeOK
    PROVE  /\ order \in [OrderIds -> OrderRows] /\ applied \in [ChangeIds -> Nat]
           /\ project \in [OrderIds -> ProjectRows] /\ phase \in [PhaseIds -> PhaseRows]
  BY DEF TypeOK, SalesTypeOK, ScheduleTypeOK

\* What was given stays given, and what was applied stays applied.
LEMMA GivenGrows ==
    ASSUME NEW o \in OrderIds, order[o].confirmedFor \in {0, order'[o].confirmedFor},
           \A c \in ChangeIds : applied[c] > 0 => applied'[c] > 0
    PROVE  Given(o) \subseteq Given(o)'
  BY DEF Given, Promised

LEMMA AdditionsTyped ==
    ASSUME applied \in [ChangeIds -> Nat], NEW o \in OrderIds, NEW c \in ChangeIds
    PROVE  /\ Additions(o)[c] = IF OrderOf[c] = o /\ Delta[c] > 0 THEN Delta[c] * applied[c] ELSE 0
           /\ Additions(o)[c] \in Int
<1>1. Additions(o)[c] = IF OrderOf[c] = o /\ Delta[c] > 0 THEN Delta[c] * applied[c] ELSE 0
  BY DEF Additions
<1>2. Delta[c] \in Int /\ applied[c] \in Int
  BY OfficeAssumption
<1> QED BY <1>1, <1>2

LEMMA AdditionsGrow ==
    ASSUME applied \in [ChangeIds -> Nat], applied' \in [ChangeIds -> Nat],
           \A c \in ChangeIds : applied[c] <= applied'[c], NEW o \in OrderIds
    PROVE  /\ SumFunction(Additions(o)) <= SumFunction(Additions(o)')
           /\ SumFunction(Additions(o)) \in Int /\ SumFunction(Additions(o)') \in Int
<1> DEFINE f == Additions(o)  g == Additions(o)'
<1>1. DOMAIN f = ChangeIds /\ DOMAIN g = ChangeIds
  BY DEF Additions
<1>2. \A a \in Int, m, n \in Nat : a > 0 /\ m <= n => a * m <= a * n
  OBVIOUS
<1>3. ASSUME NEW c \in ChangeIds
      PROVE  f[c] \in Int /\ g[c] \in Int /\ f[c] <= g[c]
  <2>1. /\ f[c] = IF OrderOf[c] = o /\ Delta[c] > 0 THEN Delta[c] * applied[c] ELSE 0
        /\ g[c] = IF OrderOf[c] = o /\ Delta[c] > 0 THEN Delta[c] * applied'[c] ELSE 0
    BY DEF Additions
  <2>2. /\ Delta[c] \in Int /\ applied[c] \in Nat /\ applied'[c] \in Nat
        /\ applied[c] <= applied'[c]
    BY OfficeAssumption
  <2>3. Delta[c] > 0 => Delta[c] * applied[c] <= Delta[c] * applied'[c]
    BY <1>2, <2>2
  <2>4. Delta[c] * applied[c] \in Int /\ Delta[c] * applied'[c] \in Int
    BY <2>2
  <2> QED BY <2>1, <2>3, <2>4
<1> HIDE DEF f, g
<1>4. IsFiniteSet(ChangeIds)
  BY OfficeAssumption
<1>5. SumFunctionOnSet(f, ChangeIds) <= SumFunctionOnSet(g, ChangeIds)
  BY <1>3, <1>4, SumMonotone
<1>6. SumFunctionOnSet(f, ChangeIds) \in Int /\ SumFunctionOnSet(g, ChangeIds) \in Int
  BY <1>3, <1>4, SumType
<1>7. SumFunction(f) <= SumFunction(g) /\ SumFunction(f) \in Int /\ SumFunction(g) \in Int
  BY <1>1, <1>5, <1>6 DEF SumFunction
<1> QED BY <1>7 DEF f, g

\* What holds of the orders and the requests already.
LEMMA OrdersStand ==
    ASSUME TypeOK, TradeInv
    PROVE  /\ \A o \in OrderIds :
                /\ order[o].kickoffs <= 1
                /\ order[o].status = "kicked_off" \/ project[o].exists => order[o].kickoffs = 1
                /\ order[o].date \in Given(o) /\ project[o].first \in Given(o)
                /\ order[o].price <= SumFunction(Additions(o))
           /\ \A s \in Sessions :
                /\ req[s].op \in {"kick_off", "hold", "initiate"} =>
                     req[s].date \in Given(req[s].order)
                /\ req[s].op = "initiate" => order[req[s].order].kickoffs = 1
                /\ req[s].op = "change" =>
                     req[s].price <= SumFunction(Additions(OrderOf[req[s].change]))
  BY DEF TradeInv, OrdersInv, CopiesGiven, HandedOver, Given

LEMMA OrdersGrow ==
    ASSUME TypeOK, TradeInv, req' \in Requesting, order' \in [OrderIds -> OrderRows],
           applied' \in [ChangeIds -> Nat],
           \A c \in ChangeIds : applied[c] <= applied'[c],
           \A o \in OrderIds :
               /\ order[o].confirmedFor \in {0, order'[o].confirmedFor}
               /\ order[o].kickoffs = 1 => order'[o].kickoffs = 1
               /\ order'[o].kickoffs <= 1
               /\ order'[o].status = "kicked_off" \/ project'[o].exists => order'[o].kickoffs = 1
               /\ order'[o].date \in Given(o) \cup Given(o)'
               /\ project'[o].first \in Given(o)
               /\ order'[o].price <= SumFunction(Additions(o)'),
           \A s \in Sessions :
               /\ req'[s].op \in {"kick_off", "hold", "initiate"} =>
                    req'[s].date \in Given(req'[s].order)
               /\ req'[s].op = "initiate" => order[req'[s].order].kickoffs = 1
               /\ req'[s].op = "change" =>
                    req'[s].price <= SumFunction(Additions(OrderOf[req'[s].change]))
    PROVE  OrdersInv'
<1>1. applied \in [ChangeIds -> Nat]
  BY TradeTypes
<1>2. \A c \in ChangeIds : applied[c] > 0 => applied'[c] > 0
  BY <1>1
<1>3. \A o \in OrderIds : Given(o) \subseteq Given(o)'
  BY <1>2, GivenGrows
<1>4. \A o \in OrderIds :
          /\ SumFunction(Additions(o)) <= SumFunction(Additions(o)')
          /\ SumFunction(Additions(o)) \in Int /\ SumFunction(Additions(o)') \in Int
  BY <1>1, AdditionsGrow
<1>5. HandedOver'
  <2>1. ASSUME NEW o \in OrderIds
        PROVE  {order'[o].date, project'[o].first} \subseteq Promised(o)' \cup {0}
    BY <1>3 DEF Given
  <2> QED BY <2>1 DEF HandedOver
<1>6. ASSUME NEW s \in Sessions
      PROVE  /\ req'[s].op \in {"kick_off", "hold", "initiate"} =>
                  req'[s].date \in Given(req[s].order)'
             /\ req'[s].op = "initiate" => order'[req'[s].order].kickoffs = 1
             /\ req'[s].op = "change" =>
                  req'[s].price <= SumFunction(Additions(OrderOf[req[s].change])')
  <2>1. req'[s] \in {Idle} \cup AllRequests
    BY DEF Requesting
  <2>2. /\ req'[s].op \in {"kick_off", "hold", "initiate"} => req'[s].order \in OrderIds
        /\ req'[s].op = "change" => req'[s].change \in ChangeIds /\ req'[s].price \in Int
    BY <2>1, TradeFields
  <2>3. ASSUME NEW o \in OrderIds, NEW d, d \in Given(o)
        PROVE  d \in {order'[o].confirmedFor}
                       \cup {NewDate[c] : c \in {x \in ChangeIds : OrderOf[x] = o /\ applied'[x] > 0}}
                       \cup {0}
    BY <1>3, <2>3 DEF Given, Promised
  <2>4. req'[s].op \in {"kick_off", "hold", "initiate"} =>
            req'[s].date \in Given(req[s].order)'
    <3>1. SUFFICES ASSUME req'[s].op \in {"kick_off", "hold", "initiate"}
          PROVE  req'[s].date \in Given(req[s].order)'
      OBVIOUS
    <3>2. req'[s].order \in OrderIds /\ req'[s].date \in Given(req'[s].order)
      BY <2>2, <3>1
    <3> QED BY <2>3, <3>2 DEF Given, Promised
  <2>5. req'[s].op = "initiate" => order'[req'[s].order].kickoffs = 1
    BY <2>2
  <2>6. ASSUME NEW o \in OrderIds, NEW n \in Int, n <= SumFunction(Additions(o))
        PROVE  n <= SumFunction(
                  [c \in ChangeIds |->
                      IF OrderOf[c] = o /\ Delta[c] > 0 THEN Delta[c] * applied'[c] ELSE 0])
    <3>1. n <= SumFunction(Additions(o)')
      BY <1>4, <2>6
    <3> QED BY <3>1 DEF Additions
  <2>7. req'[s].op = "change" =>
            req'[s].price <= SumFunction(Additions(OrderOf[req[s].change])')
    <3>1. SUFFICES ASSUME req'[s].op = "change"
          PROVE  req'[s].price <= SumFunction(Additions(OrderOf[req[s].change])')
      OBVIOUS
    <3>2. /\ req'[s].change \in ChangeIds /\ OrderOf[req'[s].change] \in OrderIds
          /\ req'[s].price \in Int
          /\ req'[s].price <= SumFunction(Additions(OrderOf[req'[s].change]))
      BY <2>2, <3>1, OfficeAssumption
    <3> QED BY <2>6, <3>2 DEF Additions
  <2> QED BY <2>4, <2>5, <2>7
<1>7. CopiesGiven'
  BY <1>6 DEF CopiesGiven
<1> QED BY <1>5, <1>7 DEF OrdersInv

\* What holds of the projects, the phases and the requests already.
LEMMA PlansStand ==
    ASSUME TypeOK, TradeInv
    PROVE  /\ \A o \in OrderIds : ~project[o].exists => project[o] = NoProject
           /\ \A ph \in PhaseIds : phase[ph].project \in OrderIds =>
                /\ project[phase[ph].project].exists
                /\ Reached(phase[ph].project, phase[ph].ends)
           /\ \A ph \in PhaseIds : phase[ph].project = "none" => phase[ph] = NoPhase
           /\ \A s \in Sessions :
                /\ req[s].op \in {"plan", "extend"} => project[req[s].order].exists
                /\ req[s].op = "plan" => Reached(req[s].order, req[s].date)
                /\ req[s].op = "extend" => req[s].previous < req[s].date
                /\ req[s].op = "reschedule" =>
                     /\ phase[req[s].phase].project \in OrderIds
                     /\ Reached(phase[req[s].phase].project, req[s].date)
  BY DEF TradeInv, PlansInv, PlansGrounded, PhasesBelowCommitment, Reached

(* The ceiling only rises, unless an extension overtakes another, and a    *)
(* phase stays in its project: what was below the ceiling is so still.     *)
Rises(o) ==
    \/ project'[o].overtaken
    \/ ~project[o].overtaken /\ project[o].committed <= project'[o].committed

LEMMA PlansGrow ==
    ASSUME TypeOK, TradeInv, req' \in Requesting, project' \in [OrderIds -> ProjectRows],
           phase' \in [PhaseIds -> PhaseRows],
           \A o \in OrderIds :
               /\ ~project'[o].exists => project'[o] = NoProject
               /\ project[o].exists => project'[o].exists /\ Rises(o),
           \A ph \in PhaseIds :
               /\ phase'[ph].project \in OrderIds =>
                    /\ project[phase'[ph].project].exists
                    /\ Reached(phase'[ph].project, phase'[ph].ends)
               /\ phase'[ph].project = "none" => phase'[ph] = NoPhase
               /\ phase[ph].project \in OrderIds => phase'[ph].project = phase[ph].project,
           \A s \in Sessions :
               /\ req'[s].op \in {"plan", "extend"} => project[req'[s].order].exists
               /\ req'[s].op = "plan" => Reached(req'[s].order, req'[s].date)
               /\ req'[s].op = "extend" => req'[s].previous < req'[s].date
               /\ req'[s].op = "reschedule" =>
                    /\ phase[req'[s].phase].project \in OrderIds
                    /\ Reached(phase[req'[s].phase].project, req'[s].date)
    PROVE  PlansInv'
<1>1. ASSUME NEW o \in OrderIds, project[o].exists, NEW d \in Int, Reached(o, d)
      PROVE  project'[o].overtaken \/ d <= project'[o].committed
  <2>1. project[o].committed \in Int /\ project'[o].committed \in Int
    BY TradeTypes DEF ProjectRows
  <2>2. project'[o].overtaken \/ d <= project[o].committed
    BY <1>1 DEF Reached, Rises
  <2>3. project'[o].overtaken \/ project[o].committed <= project'[o].committed
    BY <1>1 DEF Rises
  <2> QED BY <2>1, <2>2, <2>3
<1>2. ASSUME NEW ph \in PhaseIds, NEW o \in OrderIds, phase'[ph].project = o
      PROVE  /\ project'[o].exists
             /\ project'[o].overtaken \/ phase'[ph].ends <= project'[o].committed
  <2>1. phase'[ph].ends \in Int
    BY DEF PhaseRows
  <2> QED BY <1>1, <1>2, <2>1
<1>3. PhasesBelowCommitment'
  BY <1>2 DEF PhasesBelowCommitment
<1>4. ASSUME NEW s \in Sessions
      PROVE  /\ req'[s].op \in {"plan", "extend"} => project'[req'[s].order].exists
             /\ req'[s].op = "plan" => Reached(req[s].order, req[s].date)'
             /\ req'[s].op = "extend" => req'[s].previous < req'[s].date
             /\ req'[s].op = "reschedule" =>
                  /\ phase'[req'[s].phase].project \in OrderIds
                  /\ Reached(phase[req[s].phase].project, req[s].date)'
  <2>1. req'[s] \in {Idle} \cup AllRequests
    BY DEF Requesting
  <2>2. /\ req'[s].op \in {"plan", "extend"} => req'[s].order \in OrderIds
        /\ req'[s].op = "plan" => req'[s].date \in Int
        /\ req'[s].op = "reschedule" => req'[s].phase \in PhaseIds /\ req'[s].date \in Int
    BY <2>1, TradeFields, OfficeAssumption DEF Dates
  <2>3. req'[s].op \in {"plan", "extend"} => project'[req'[s].order].exists
    BY <2>2
  <2>4. req'[s].op = "plan" => Reached(req[s].order, req[s].date)'
    BY <1>1, <2>2 DEF Reached
  <2>5. ASSUME req'[s].op = "reschedule"
        PROVE  /\ phase'[req'[s].phase].project \in OrderIds
               /\ Reached(phase[req[s].phase].project, req[s].date)'
    <3>1. /\ req'[s].phase \in PhaseIds
          /\ phase[req'[s].phase].project \in OrderIds
          /\ phase'[req'[s].phase].project = phase[req'[s].phase].project
          /\ Reached(phase[req'[s].phase].project, req'[s].date)
      BY <2>2, <2>5
    <3>2. project[phase[req'[s].phase].project].exists
      BY <3>1, PlansStand
    <3> QED BY <1>1, <2>2, <2>5, <3>1, <3>2 DEF Reached
  <2> QED BY <2>3, <2>4, <2>5
<1>5. ASSUME NEW ph \in PhaseIds, phase'[ph].project \in OrderIds
      PROVE  project'[phase'[ph].project].exists
  BY <1>5
<1>6. PlansGrounded'
  BY <1>4, <1>5 DEF PlansGrounded
<1> QED BY <1>3, <1>6 DEF PlansInv

LEMMA RisesQuiet ==
    ASSUME TypeOK, project' = project
    PROVE  /\ project' \in [OrderIds -> ProjectRows]
           /\ \A o \in OrderIds : Rises(o)
<1>1. \A o \in OrderIds : project[o].committed \in Int /\ project[o].overtaken \in BOOLEAN
  BY TradeTypes DEF ProjectRows
<1> QED BY <1>1, TradeTypes DEF Rises

LEMMA TradeFrame ==
    ASSUME TypeOK, TradeInv, req' \in Requesting, UNCHANGED <<order, applied, project, phase>>,
           \A s \in Sessions : req'[s] = req[s] \/ req'[s].op \notin TradeOps
    PROVE  TradeInv' /\ SalesTypeOK' /\ ScheduleTypeOK'
<1>1. /\ order' \in [OrderIds -> OrderRows] /\ applied' \in [ChangeIds -> Nat]
      /\ \A c \in ChangeIds : applied[c] <= applied'[c]
  BY TradeTypes
<1>2. \A s \in Sessions :
          /\ req'[s].op \in {"kick_off", "hold", "initiate"} =>
               req'[s].date \in Given(req'[s].order)
          /\ req'[s].op = "initiate" => order[req'[s].order].kickoffs = 1
          /\ req'[s].op = "change" =>
               req'[s].price <= SumFunction(Additions(OrderOf[req'[s].change]))
  BY OrdersStand DEF TradeOps
<1>3. \A o \in OrderIds : Additions(o)' = Additions(o)
  BY DEF Additions
<1>4. \A o \in OrderIds :
          /\ order[o].confirmedFor \in {0, order'[o].confirmedFor}
          /\ order[o].kickoffs = 1 => order'[o].kickoffs = 1
          /\ order'[o].kickoffs <= 1
          /\ order'[o].status = "kicked_off" \/ project'[o].exists => order'[o].kickoffs = 1
          /\ order'[o].date \in Given(o) \cup Given(o)'
          /\ project'[o].first \in Given(o)
          /\ order'[o].price <= SumFunction(Additions(o)')
  BY <1>3, OrdersStand
<1>5. OrdersInv'
  BY <1>1, <1>2, <1>4, OrdersGrow
<1>6. \A s \in Sessions :
          /\ req'[s].op \in {"plan", "extend"} => project[req'[s].order].exists
          /\ req'[s].op = "plan" => Reached(req'[s].order, req'[s].date)
          /\ req'[s].op = "extend" => req'[s].previous < req'[s].date
          /\ req'[s].op = "reschedule" =>
               /\ phase[req'[s].phase].project \in OrderIds
               /\ Reached(phase[req'[s].phase].project, req'[s].date)
  BY PlansStand DEF TradeOps
<1>7. PlansInv'
  BY <1>6, PlansStand, PlansGrow, RisesQuiet, TradeTypes
<1> QED BY <1>5, <1>7 DEF TradeInv, TypeOK, SalesTypeOK, ScheduleTypeOK

TradeKept ==
    /\ TradeInv' /\ SalesTypeOK' /\ ScheduleTypeOK'
    /\ req' \in Requesting /\ Within(TradeOps)

LEMMA TradeBegin ==
    ASSUME TypeOK, TradeInv, NEW s \in Sessions, NEW a \in AllRequests, Begin(s, a),
           a.op \in TradeOps, UNCHANGED <<order, applied, project, phase>>,
           a.op \in {"kick_off", "hold", "initiate"} => a.date \in Given(a.order),
           a.op = "initiate" => order[a.order].kickoffs = 1,
           a.op = "change" => a.price <= SumFunction(Additions(OrderOf[a.change])),
           a.op \in {"plan", "extend"} => project[a.order].exists,
           a.op = "plan" => Reached(a.order, a.date),
           a.op = "extend" => a.previous < a.date,
           a.op = "reschedule" =>
               phase[a.phase].project \in OrderIds /\ Reached(phase[a.phase].project, a.date)
    PROVE  TradeKept
<1>1. Moves(s, a)
  BY BeginMoves
<1>2. \A t \in Sessions : req'[t] = a \/ req'[t] = req[t]
  BY <1>1 DEF Moves
<1>3. /\ req' \in Requesting
      /\ order' \in [OrderIds -> OrderRows] /\ applied' \in [ChangeIds -> Nat]
      /\ \A c \in ChangeIds : applied[c] <= applied'[c]
  BY <1>1, TradeTypes DEF Moves
<1>4. ASSUME NEW t \in Sessions
      PROVE  /\ req'[t].op \in {"kick_off", "hold", "initiate"} =>
                  req'[t].date \in Given(req'[t].order)
             /\ req'[t].op = "initiate" => order[req'[t].order].kickoffs = 1
             /\ req'[t].op = "change" =>
                  req'[t].price <= SumFunction(Additions(OrderOf[req'[t].change]))
             /\ req'[t].op \in {"plan", "extend"} => project[req'[t].order].exists
             /\ req'[t].op = "plan" => Reached(req'[t].order, req'[t].date)
             /\ req'[t].op = "extend" => req'[t].previous < req'[t].date
             /\ req'[t].op = "reschedule" =>
                  /\ phase[req'[t].phase].project \in OrderIds
                  /\ Reached(phase[req'[t].phase].project, req'[t].date)
  <2>1. CASE req'[t] = a
    BY <2>1
  <2>2. CASE req'[t] = req[t]
    BY <2>2, OrdersStand, PlansStand
  <2> QED BY <1>2, <2>1, <2>2
<1>5. \A o \in OrderIds : Additions(o)' = Additions(o)
  BY DEF Additions
<1>6. \A o \in OrderIds :
          /\ order[o].confirmedFor \in {0, order'[o].confirmedFor}
          /\ order[o].kickoffs = 1 => order'[o].kickoffs = 1
          /\ order'[o].kickoffs <= 1
          /\ order'[o].status = "kicked_off" \/ project'[o].exists => order'[o].kickoffs = 1
          /\ order'[o].date \in Given(o) \cup Given(o)'
          /\ project'[o].first \in Given(o)
          /\ order'[o].price <= SumFunction(Additions(o)')
  BY <1>5, OrdersStand
<1>7. OrdersInv'
  BY <1>3, <1>4, <1>6, OrdersGrow
<1>8. PlansInv'
  BY <1>3, <1>4, PlansStand, PlansGrow, RisesQuiet, TradeTypes
<1> QED BY <1>1, <1>7, <1>8
        DEF TradeKept, TradeInv, Moves, Within, TypeOK, SalesTypeOK, ScheduleTypeOK

LEMMA SalesBeginsKept ==
    ASSUME TypeOK, TradeInv, NEW s \in Sessions, UNCHANGED schedule,
           \/ \E o \in OrderIds :
                (\E d \in Dates : BeginConfirm(s, o, d)) \/ BeginKickOff(s, o) \/ BeginHold(s, o)
           \/ \E c \in ChangeIds : BeginChange(s, c)
    PROVE  TradeKept
<1>1. UNCHANGED <<project, phase>>
  BY DEF schedule
<1>2. \A d \in Dates : d \in 0 .. LastDate
  BY OfficeAssumption DEF Dates
<1>3. \A o \in OrderIds : order[o].date \in 0 .. LastDate /\ order[o].price \in Int
  BY TradeTypes DEF OrderRows
<1>4. ASSUME NEW o \in OrderIds, NEW d \in Dates, BeginConfirm(s, o, d)
      PROVE  TradeKept
  <2> DEFINE a == [op |-> "confirm", order |-> o, date |-> d]
  <2>1. a \in AllRequests /\ a.op = "confirm" /\ Begin(s, a) /\ UNCHANGED <<order, applied>>
    BY <1>2, <1>4 DEF SalesRequests, AllRequests, BeginConfirm, sales
  <2> HIDE DEF a
  <2> QED BY <1>1, <2>1, TradeBegin DEF TradeOps
<1>5. ASSUME NEW o \in OrderIds, BeginKickOff(s, o)
      PROVE  TradeKept
  <2> DEFINE a == [op |-> "kick_off", order |-> o, date |-> order[o].date]
  <2>1. /\ a \in AllRequests /\ a.op = "kick_off" /\ a.order = o /\ a.date = order[o].date
        /\ Begin(s, a) /\ UNCHANGED <<order, applied>>
    BY <1>3, <1>5 DEF SalesRequests, AllRequests, BeginKickOff, sales
  <2>2. order[o].date \in Given(o)
    BY OrdersStand
  <2> HIDE DEF a
  <2> QED BY <1>1, <2>1, <2>2, TradeBegin DEF TradeOps
<1>6. ASSUME NEW o \in OrderIds, BeginHold(s, o)
      PROVE  TradeKept
  <2> DEFINE a == [op |-> "hold", order |-> o, date |-> order[o].date]
  <2>1. /\ a \in AllRequests /\ a.op = "hold" /\ a.order = o /\ a.date = order[o].date
        /\ Begin(s, a) /\ UNCHANGED <<order, applied>>
    BY <1>3, <1>6 DEF SalesRequests, AllRequests, BeginHold, sales
  <2>2. order[o].date \in Given(o)
    BY OrdersStand
  <2> HIDE DEF a
  <2> QED BY <1>1, <2>1, <2>2, TradeBegin DEF TradeOps
<1>7. ASSUME NEW c \in ChangeIds, BeginChange(s, c)
      PROVE  TradeKept
  <2> DEFINE a == [op |-> "change", change |-> c, price |-> order[OrderOf[c]].price]
  <2>1. OrderOf[c] \in OrderIds
    BY OfficeAssumption
  <2>2. /\ a \in AllRequests /\ a.op = "change" /\ a.change = c
        /\ a.price = order[OrderOf[c]].price
        /\ Begin(s, a) /\ UNCHANGED <<order, applied>>
    BY <1>3, <1>7, <2>1 DEF SalesRequests, AllRequests, BeginChange, sales
  <2>3. order[OrderOf[c]].price <= SumFunction(Additions(OrderOf[c]))
    BY <2>1, OrdersStand
  <2> HIDE DEF a
  <2> QED BY <1>1, <2>2, <2>3, TradeBegin DEF TradeOps
<1> QED BY <1>4, <1>5, <1>6, <1>7

LEMMA ScheduleBeginsKept ==
    ASSUME TypeOK, TradeInv, NEW s \in Sessions,
           \/ \E o \in OrderIds :
                BeginInitiate(s, o) \/ \E d \in Dates : BeginPlan(s, o, d) \/ BeginExtend(s, o, d)
           \/ \E ph \in PhaseIds, d \in Dates : BeginReschedule(s, ph, d)
    PROVE  TradeKept
<1>1. \A d \in Dates : d \in 0 .. LastDate
  BY OfficeAssumption DEF Dates
<1>2. ASSUME NEW o \in OrderIds, NEW d \in Dates, UnderCeiling(o, d)
      PROVE  project[o].exists /\ Reached(o, d)
  <2>1. project[o].exists
    BY <1>2, PlansStand DEF UnderCeiling, NoProject
  <2> QED BY <1>2, <2>1 DEF UnderCeiling, Reached
<1>3. ASSUME NEW o \in OrderIds, BeginInitiate(s, o)
      PROVE  TradeKept
  <2> DEFINE a == [op |-> "initiate", order |-> o, date |-> order[o].date]
  <2>1. order[o].date \in 0 .. LastDate
    BY TradeTypes DEF OrderRows
  <2>2. /\ a \in AllRequests /\ a.op = "initiate" /\ a.order = o /\ a.date = order[o].date
        /\ Begin(s, a) /\ UNCHANGED <<order, applied, project, phase>>
    BY <1>3, <2>1 DEF ScheduleRequests, AllRequests, BeginInitiate, sales
  <2>3. order[o].date \in Given(o) /\ order[o].kickoffs = 1
    BY <1>3, OrdersStand DEF BeginInitiate
  <2> HIDE DEF a
  <2> QED BY <2>2, <2>3, TradeBegin DEF TradeOps
<1>4. ASSUME NEW o \in OrderIds, NEW d \in Dates, BeginPlan(s, o, d)
      PROVE  TradeKept
  <2> DEFINE a == [op |-> "plan", order |-> o, date |-> d]
  <2>1. /\ a \in AllRequests /\ a.op = "plan" /\ a.order = o /\ a.date = d
        /\ Begin(s, a) /\ UNCHANGED <<order, applied, project, phase>>
    BY <1>1, <1>4 DEF ScheduleRequests, AllRequests, BeginPlan, sales
  <2>2. project[o].exists /\ Reached(o, d)
    BY <1>2, <1>4 DEF BeginPlan
  <2> HIDE DEF a
  <2> QED BY <2>1, <2>2, TradeBegin DEF TradeOps
<1>5. ASSUME NEW o \in OrderIds, NEW d \in Dates, BeginExtend(s, o, d)
      PROVE  TradeKept
  <2> DEFINE a == [op |-> "extend", order |-> o, date |-> d, previous |-> project[o].committed]
  <2>1. project[o].committed \in 0 .. LastDate
    BY TradeTypes DEF ProjectRows
  <2>2. /\ a \in AllRequests /\ a.op = "extend" /\ a.order = o /\ a.date = d
        /\ a.previous = project[o].committed
        /\ Begin(s, a) /\ UNCHANGED <<order, applied, project, phase>>
    BY <1>5, <2>1 DEF ScheduleRequests, AllRequests, BeginExtend, sales
  <2>3. project[o].exists /\ project[o].committed < d
    BY <1>1, <1>5, <2>1, PlansStand DEF BeginExtend, NoProject
  <2> HIDE DEF a
  <2> QED BY <2>2, <2>3, TradeBegin DEF TradeOps
<1>6. ASSUME NEW ph \in PhaseIds, NEW d \in Dates, BeginReschedule(s, ph, d)
      PROVE  TradeKept
  <2> DEFINE a == [op |-> "reschedule", phase |-> ph, date |-> d]
  <2>1. /\ a \in AllRequests /\ a.op = "reschedule" /\ a.phase = ph /\ a.date = d
        /\ Begin(s, a) /\ UNCHANGED <<order, applied, project, phase>>
    BY <1>6 DEF ScheduleRequests, AllRequests, BeginReschedule, sales
  <2>2. phase[ph].project \in OrderIds
    <3>1. phase[ph] \in PhaseRows /\ phase[ph] # NoPhase
      BY <1>6, TradeTypes DEF BeginReschedule
    <3> QED BY <3>1, PlansStand DEF PhaseRows
  <2>3. Reached(phase[ph].project, d)
    BY <1>2, <1>6, <2>2 DEF BeginReschedule
  <2> HIDE DEF a
  <2> QED BY <2>1, <2>2, <2>3, TradeBegin DEF TradeOps
<1> QED BY <1>3, <1>4, <1>5, <1>6

\* An order is saved, with what has been applied of its changes.
LEMMA OrderWritten ==
    ASSUME TypeOK, TradeInv, NEW o \in OrderIds, NEW row \in OrderRows,
           order' = [order EXCEPT ![o] = row], UNCHANGED <<project, phase>>,
           applied' \in [ChangeIds -> Nat], \A c \in ChangeIds : applied[c] <= applied'[c],
           order[o].confirmedFor \in {0, row.confirmedFor},
           row.kickoffs \in {order[o].kickoffs, 1},
           row.status = "kicked_off" => row.kickoffs = 1,
           row.date \in Given(o) \cup Given(o)',
           row.price <= SumFunction(Additions(o)'),
           req' \in Requesting, \A s \in Sessions : req'[s] = req[s] \/ req'[s].op = "idle"
    PROVE  TradeKept
<1>1. order \in [OrderIds -> OrderRows] /\ applied \in [ChangeIds -> Nat]
  BY TradeTypes
<1>2. order' \in [OrderIds -> OrderRows] /\ \A p \in OrderIds : order'[p] = IF p = o THEN row ELSE order[p]
  BY <1>1
<1>3. ASSUME NEW p \in OrderIds
      PROVE  /\ order[p].confirmedFor \in {0, order'[p].confirmedFor}
             /\ order[p].kickoffs = 1 => order'[p].kickoffs = 1
             /\ order'[p].kickoffs <= 1
             /\ order'[p].status = "kicked_off" \/ project'[p].exists => order'[p].kickoffs = 1
             /\ order'[p].date \in Given(p) \cup Given(p)'
             /\ project'[p].first \in Given(p)
             /\ order'[p].price <= SumFunction(Additions(p)')
  <2>1. CASE p = o
    BY <1>2, <2>1, OrdersStand
  <2>2. CASE p # o
    <3>1. order'[p] = order[p] /\ order[p].price \in Int
      BY <1>1, <1>2, <2>2 DEF OrderRows
    <3>2. /\ SumFunction(Additions(p)) <= SumFunction(Additions(p)')
          /\ SumFunction(Additions(p)) \in Int /\ SumFunction(Additions(p)') \in Int
      BY <1>1, AdditionsGrow
    <3>3. order[p].price <= SumFunction(Additions(p)')
      BY <3>1, <3>2, OrdersStand
    <3> QED BY <3>1, <3>3, OrdersStand
  <2> QED BY <2>1, <2>2
<1>4. \A s \in Sessions :
          /\ req'[s].op \in {"kick_off", "hold", "initiate"} =>
               req'[s].date \in Given(req'[s].order)
          /\ req'[s].op = "initiate" => order[req'[s].order].kickoffs = 1
          /\ req'[s].op = "change" =>
               req'[s].price <= SumFunction(Additions(OrderOf[req'[s].change]))
  BY OrdersStand
<1>5. OrdersInv'
  BY <1>2, <1>3, <1>4, OrdersGrow
<1>6. \A s \in Sessions :
          /\ req'[s].op \in {"plan", "extend"} => project[req'[s].order].exists
          /\ req'[s].op = "plan" => Reached(req'[s].order, req'[s].date)
          /\ req'[s].op = "extend" => req'[s].previous < req'[s].date
          /\ req'[s].op = "reschedule" =>
               /\ phase[req'[s].phase].project \in OrderIds
               /\ Reached(phase[req'[s].phase].project, req'[s].date)
  BY PlansStand
<1>7. PlansInv'
  BY <1>6, PlansStand, PlansGrow, RisesQuiet, TradeTypes
<1> QED BY <1>2, <1>5, <1>7
        DEF TradeKept, TradeInv, Within, TypeOK, SalesTypeOK, ScheduleTypeOK

LEMMA CopyLotsKept ==
    ASSUME TypeOK, TradeInv, NEW o \in OrderIds, UNCHANGED schedule, CopyLots(o)
    PROVE  TradeKept
<1> DEFINE row == [order[o] EXCEPT !.lots = order[o].lots + 1]
<1>1. UNCHANGED <<project, phase, applied, req>>
  BY DEF schedule, CopyLots
<1>2. /\ order \in [OrderIds -> OrderRows] /\ order[o] \in OrderRows
      /\ applied' \in [ChangeIds -> Nat] /\ \A c \in ChangeIds : applied[c] <= applied'[c]
  BY <1>1, TradeTypes
<1>3. order[o].lots + 1 \in Nat
  BY <1>2 DEF OrderRows
<1>4. /\ row \in OrderRows /\ row.confirmedFor = order[o].confirmedFor
      /\ row.kickoffs = order[o].kickoffs /\ row.status = order[o].status
      /\ row.date = order[o].date /\ row.price = order[o].price
  BY <1>2, <1>3 DEF OrderRows
<1>5. order' = [order EXCEPT ![o] = row]
  BY <1>2 DEF CopyLots
<1>6. Additions(o)' = Additions(o)
  BY <1>1 DEF Additions
<1> HIDE DEF row
<1>7. row.kickoffs \in {order[o].kickoffs, 1} /\ (row.status = "kicked_off" => row.kickoffs = 1)
  BY <1>4, OrdersStand
<1>8. row.date \in Given(o) \cup Given(o)' /\ row.price <= SumFunction(Additions(o)')
  BY <1>4, <1>6, OrdersStand
<1>9. order[o].confirmedFor \in {0, row.confirmedFor}
  BY <1>4
<1> QED BY <1>1, <1>2, <1>4, <1>5, <1>7, <1>8, <1>9, Typed, OrderWritten

LEMMA SalesWritesKept ==
    ASSUME TypeOK, TradeInv, NEW s \in Sessions, UNCHANGED schedule,
           WriteConfirmed(s) \/ WriteKickedOff(s) \/ WriteHeld(s)
    PROVE  TradeKept
<1>1. UNCHANGED <<project, phase, applied>>
  BY DEF schedule, WriteConfirmed, WriteKickedOff, WriteHeld
<1>2. Moves(s, Idle) /\ Idle.op = "idle"
  BY FinishMoves DEF WriteConfirmed, WriteKickedOff, WriteHeld
<1>3. req' \in Requesting /\ \A t \in Sessions : req'[t] = req[t] \/ req'[t].op = "idle"
  BY <1>2 DEF Moves
<1>4. /\ req[s] \in {Idle} \cup AllRequests
      /\ req[s].op \in {"confirm", "kick_off", "hold"}
  BY Typed DEF Requesting, WriteConfirmed, WriteKickedOff, WriteHeld
<1>5. PICK o \in OrderIds, d \in 0 .. LastDate : o = req[s].order /\ d = req[s].date
  BY <1>4, TradeFields
<1>6. /\ order \in [OrderIds -> OrderRows] /\ order[o] \in OrderRows
      /\ applied' \in [ChangeIds -> Nat] /\ \A c \in ChangeIds : applied[c] <= applied'[c]
  BY <1>1, TradeTypes
<1>7. order[o].price <= SumFunction(Additions(o)')
  <2>1. Additions(o)' = Additions(o)
    BY <1>1 DEF Additions
  <2> QED BY <2>1, OrdersStand
<1>8. CASE WriteConfirmed(s)
  <2> DEFINE row == [order[o] EXCEPT !.status = "held_pending_review", !.date = d,
                                     !.confirmedFor = d]
  <2>1. /\ row \in OrderRows /\ row.kickoffs = order[o].kickoffs
        /\ row.status = "held_pending_review" /\ row.date = d /\ row.confirmedFor = d
        /\ row.price = order[o].price
    BY <1>6 DEF OrderRows
  <2>2. order[o].confirmedFor = 0 /\ order' = [order EXCEPT ![o] = row]
    BY <1>5, <1>6, <1>8 DEF WriteConfirmed
  <2> HIDE DEF row
  <2>3. order'[o].confirmedFor = d
    BY <1>6, <2>1, <2>2
  <2>4. row.date \in Given(o)'
    BY <2>1, <2>3 DEF Given, Promised
  <2> QED BY <1>1, <1>3, <1>6, <1>7, <2>1, <2>2, <2>4, OrderWritten
<1>9. CASE WriteKickedOff(s)
  <2> DEFINE row == [order[o] EXCEPT !.status = "kicked_off", !.date = d, !.kickoffs = 1]
  <2>1. /\ row \in OrderRows /\ row.kickoffs = 1 /\ row.date = d
        /\ row.confirmedFor = order[o].confirmedFor /\ row.price = order[o].price
    BY <1>6 DEF OrderRows
  <2>2. order' = [order EXCEPT ![o] = row]
    BY <1>5, <1>6, <1>9 DEF WriteKickedOff
  <2>3. d \in Given(o)
    BY <1>5, <1>9, OrdersStand DEF WriteKickedOff
  <2> HIDE DEF row
  <2> QED BY <1>1, <1>3, <1>6, <1>7, <2>1, <2>2, <2>3, OrderWritten
<1>10. CASE WriteHeld(s)
  <2> DEFINE row == [order[o] EXCEPT !.status = "held_pending_review", !.date = d]
  <2>1. /\ row \in OrderRows /\ row.kickoffs = order[o].kickoffs
        /\ row.status = "held_pending_review" /\ row.date = d
        /\ row.confirmedFor = order[o].confirmedFor /\ row.price = order[o].price
    BY <1>6 DEF OrderRows
  <2>2. order' = [order EXCEPT ![o] = row]
    BY <1>5, <1>6, <1>10 DEF WriteHeld
  <2>3. d \in Given(o)
    BY <1>5, <1>10, OrdersStand DEF WriteHeld
  <2> HIDE DEF row
  <2> QED BY <1>1, <1>3, <1>6, <1>7, <2>1, <2>2, <2>3, OrderWritten
<1> QED BY <1>8, <1>9, <1>10

LEMMA WriteChangedKept ==
    ASSUME TypeOK, TradeInv, NEW s \in Sessions, UNCHANGED schedule, WriteChanged(s)
    PROVE  TradeKept
<1>1. UNCHANGED <<project, phase>>
  BY DEF schedule
<1>2. Moves(s, Idle) /\ Idle.op = "idle"
  BY FinishMoves DEF WriteChanged
<1>3. req' \in Requesting /\ \A t \in Sessions : req'[t] = req[t] \/ req'[t].op = "idle"
  BY <1>2 DEF Moves
<1>4. req[s] \in {Idle} \cup AllRequests /\ req[s].op = "change"
  BY Typed DEF Requesting, WriteChanged
<1>5. PICK c \in ChangeIds, price \in Int : c = req[s].change /\ price = req[s].price
  BY <1>4, TradeFields
<1>6. PICK o \in OrderIds : o = OrderOf[c]
  BY OfficeAssumption
<1>7. Delta[c] \in Int /\ NewDate[c] \in 0 .. LastDate
  BY OfficeAssumption
<1> DEFINE new == IF Delta[c] = 0 THEN order[o].price ELSE price + Delta[c]
           date == IF NewDate[c] = 0 THEN order[o].date ELSE NewDate[c]
           row == [order[o] EXCEPT !.price = new, !.date = date]
<1>8. /\ order \in [OrderIds -> OrderRows] /\ order[o] \in OrderRows
      /\ applied \in [ChangeIds -> Nat]
  BY TradeTypes
<1>9. /\ row \in OrderRows /\ row.kickoffs = order[o].kickoffs /\ row.status = order[o].status
      /\ row.date = date /\ row.price = new /\ row.confirmedFor = order[o].confirmedFor
  <2>1. order[o].price \in Int /\ order[o].date \in 0 .. LastDate
    BY <1>8 DEF OrderRows
  <2>2. new \in Int /\ date \in 0 .. LastDate
    BY <1>7, <2>1
  <2> HIDE DEF new, date
  <2> QED BY <1>8, <2>2 DEF OrderRows
<1>10. /\ order' = [order EXCEPT ![o] = row]
       /\ applied' = [applied EXCEPT ![c] = applied[c] + 1]
  BY <1>5, <1>6, <1>8 DEF WriteChanged
<1> HIDE DEF row
<1>11. /\ applied' \in [ChangeIds -> Nat]
       /\ \A x \in ChangeIds : applied'[x] = IF x = c THEN applied[x] + 1 ELSE applied[x]
  BY <1>8, <1>10
<1>12. \A x \in ChangeIds : applied[x] <= applied'[x]
  BY <1>8, <1>11
<1>13. row.date \in Given(o) \cup Given(o)'
  <2>1. CASE NewDate[c] = 0
    BY <1>9, <2>1, OrdersStand
  <2>2. CASE NewDate[c] # 0
    <3>1. applied'[c] > 0
      BY <1>8, <1>11
    <3>2. NewDate[c] \in Given(o)'
      BY <1>6, <3>1 DEF Given, Promised
    <3> QED BY <1>9, <2>2, <3>2
  <2> QED BY <2>1, <2>2
<1>14. row.price <= SumFunction(Additions(o)')
  <2> DEFINE f == Additions(o)  g == Additions(o)'
  <2>1. DOMAIN f = ChangeIds /\ DOMAIN g = ChangeIds
    BY DEF Additions
  <2>2. /\ \A x \in ChangeIds : f[x] =
              IF OrderOf[x] = o /\ Delta[x] > 0 THEN Delta[x] * applied[x] ELSE 0
        /\ \A x \in ChangeIds : g[x] =
              IF OrderOf[x] = o /\ Delta[x] > 0 THEN Delta[x] * applied'[x] ELSE 0
    BY DEF Additions
  <2> HIDE DEF f, g
  <2>3. ASSUME NEW x \in ChangeIds
        PROVE  f[x] \in Int /\ g[x] \in Int
    <3>1. Delta[x] \in Int /\ applied[x] \in Int /\ applied'[x] \in Int
      BY <1>8, <1>11, OfficeAssumption
    <3>2. Delta[x] * applied[x] \in Int /\ Delta[x] * applied'[x] \in Int
      BY <3>1
    <3> QED BY <2>2, <3>2
  <2>4. \A x \in ChangeIds \ {c} : f[x] = g[x]
    BY <1>11, <2>2
  <2>5. g[c] - f[c] = IF Delta[c] > 0 THEN Delta[c] ELSE 0
    <3>1. /\ f[c] = IF Delta[c] > 0 THEN Delta[c] * applied[c] ELSE 0
          /\ g[c] = IF Delta[c] > 0 THEN Delta[c] * (applied[c] + 1) ELSE 0
      BY <1>6, <1>11, <2>2
    <3>2. \A a, n \in Int : a * (n + 1) - a * n = a
      OBVIOUS
    <3>3. Delta[c] * (applied[c] + 1) - Delta[c] * applied[c] = Delta[c]
      BY <1>7, <1>8, <3>2
    <3> QED BY <3>1, <3>3
  <2>6. IsFiniteSet(ChangeIds)
    BY OfficeAssumption
  <2>7. SumFunctionOnSet(g, ChangeIds) = SumFunctionOnSet(f, ChangeIds) + g[c] - f[c]
    BY <2>3, <2>4, <2>6, SumChange
  <2>8. SumFunctionOnSet(f, ChangeIds) \in Int /\ f[c] \in Int /\ g[c] \in Int
    BY <2>3, <2>6, SumType
  <2>9. /\ order[o].price <= SumFunctionOnSet(f, ChangeIds)
        /\ price <= SumFunctionOnSet(f, ChangeIds)
    <3>1. /\ order[o].price <= SumFunction(Additions(o))
          /\ price <= SumFunction(Additions(o))
      BY <1>4, <1>5, <1>6, OrdersStand
    <3> QED BY <2>1, <3>1 DEF SumFunction, f
  <2>10. order[o].price \in Int
    BY <1>8 DEF OrderRows
  <2>11. \A p, q, m, n, x, y, z \in Int :
            /\ p <= m /\ q <= m /\ n = m + y - x
            /\ y - x = IF z > 0 THEN z ELSE 0
            => (IF z = 0 THEN p ELSE q + z) <= n
    OBVIOUS
  <2>12. SumFunctionOnSet(g, ChangeIds) \in Int
    BY <2>3, <2>6, SumType
  <2>13. (IF Delta[c] = 0 THEN order[o].price ELSE price + Delta[c])
            <= SumFunctionOnSet(g, ChangeIds)
    BY <1>7, <2>5, <2>7, <2>8, <2>9, <2>10, <2>11, <2>12
  <2> QED BY <1>9, <2>1, <2>13 DEF SumFunction, g
<1>15. row.kickoffs \in {order[o].kickoffs, 1} /\ (row.status = "kicked_off" => row.kickoffs = 1)
  BY <1>9, OrdersStand
<1> QED BY <1>1, <1>3, <1>9, <1>10, <1>11, <1>12, <1>13, <1>14, <1>15, OrderWritten

\* Requests that only stay or end rest on what they rested on.
LEMMA TradeRequests ==
    ASSUME TypeOK, TradeInv, \A s \in Sessions : req'[s] = req[s] \/ req'[s].op = "idle"
    PROVE  /\ \A s \in Sessions :
                /\ req'[s].op \in {"kick_off", "hold", "initiate"} =>
                     req'[s].date \in Given(req'[s].order)
                /\ req'[s].op = "initiate" => order[req'[s].order].kickoffs = 1
                /\ req'[s].op = "change" =>
                     req'[s].price <= SumFunction(Additions(OrderOf[req'[s].change]))
           /\ \A s \in Sessions :
                /\ req'[s].op \in {"plan", "extend"} => project[req'[s].order].exists
                /\ req'[s].op = "plan" => Reached(req'[s].order, req'[s].date)
                /\ req'[s].op = "extend" => req'[s].previous < req'[s].date
                /\ req'[s].op = "reschedule" =>
                     /\ phase[req'[s].phase].project \in OrderIds
                     /\ Reached(phase[req'[s].phase].project, req'[s].date)
  BY OrdersStand, PlansStand

LEMMA ProjectWritten ==
    ASSUME TypeOK, TradeInv, NEW o \in OrderIds, NEW row \in ProjectRows,
           project' = [project EXCEPT ![o] = row], UNCHANGED <<order, applied, phase>>,
           row.exists, order[o].kickoffs = 1, row.first \in Given(o),
           project[o].exists =>
               \/ row.overtaken
               \/ ~project[o].overtaken /\ project[o].committed <= row.committed,
           req' \in Requesting, \A s \in Sessions : req'[s] = req[s] \/ req'[s].op = "idle"
    PROVE  TradeKept
<1>1. /\ order' \in [OrderIds -> OrderRows] /\ applied' \in [ChangeIds -> Nat]
      /\ \A c \in ChangeIds : applied[c] <= applied'[c]
      /\ project \in [OrderIds -> ProjectRows]
  BY TradeTypes
<1>2. /\ project' \in [OrderIds -> ProjectRows]
      /\ \A p \in OrderIds : project'[p] = IF p = o THEN row ELSE project[p]
  BY <1>1
<1>3. \A p \in OrderIds : Additions(p)' = Additions(p)
  BY DEF Additions
<1>4. \A p \in OrderIds :
          /\ order[p].confirmedFor \in {0, order'[p].confirmedFor}
          /\ order[p].kickoffs = 1 => order'[p].kickoffs = 1
          /\ order'[p].kickoffs <= 1
          /\ order'[p].status = "kicked_off" \/ project'[p].exists => order'[p].kickoffs = 1
          /\ order'[p].date \in Given(p) \cup Given(p)'
          /\ project'[p].first \in Given(p)
          /\ order'[p].price <= SumFunction(Additions(p)')
  BY <1>2, <1>3, OrdersStand
<1>5. OrdersInv'
  BY <1>1, <1>4, TradeRequests, OrdersGrow
<1>6. \A p \in OrderIds :
          /\ ~project'[p].exists => project'[p] = NoProject
          /\ project[p].exists => project'[p].exists /\ Rises(p)
  <2>1. \A p \in OrderIds : project[p].committed \in Int /\ project[p].overtaken \in BOOLEAN
    BY <1>1 DEF ProjectRows
  <2> QED BY <1>2, <2>1, PlansStand DEF Rises
<1>7. \A ph \in PhaseIds :
          /\ phase'[ph].project \in OrderIds =>
               /\ project[phase'[ph].project].exists
               /\ Reached(phase'[ph].project, phase'[ph].ends)
          /\ phase'[ph].project = "none" => phase'[ph] = NoPhase
          /\ phase[ph].project \in OrderIds => phase'[ph].project = phase[ph].project
  BY PlansStand
<1>8. PlansInv'
  <2>1. phase' \in [PhaseIds -> PhaseRows]
    BY TradeTypes
  <2> QED BY <1>2, <1>6, <1>7, <2>1, TradeRequests, PlansGrow
<1> QED BY <1>2, <1>5, <1>8
        DEF TradeKept, TradeInv, Within, TypeOK, SalesTypeOK, ScheduleTypeOK

LEMMA PhaseWritten ==
    ASSUME TypeOK, TradeInv, NEW ph \in PhaseIds, NEW row \in PhaseRows,
           phase' = [phase EXCEPT ![ph] = row], UNCHANGED <<order, applied, project>>,
           row.project \in OrderIds, project[row.project].exists, Reached(row.project, row.ends),
           phase[ph].project \in {row.project, "none"},
           req' \in Requesting, \A s \in Sessions : req'[s] = req[s] \/ req'[s].op = "idle"
    PROVE  TradeKept
<1>1. /\ order' \in [OrderIds -> OrderRows] /\ applied' \in [ChangeIds -> Nat]
      /\ \A c \in ChangeIds : applied[c] <= applied'[c]
      /\ phase \in [PhaseIds -> PhaseRows]
  BY TradeTypes
<1>2. /\ phase' \in [PhaseIds -> PhaseRows]
      /\ \A x \in PhaseIds : phase'[x] = IF x = ph THEN row ELSE phase[x]
  BY <1>1
<1>3. \A p \in OrderIds : Additions(p)' = Additions(p)
  BY DEF Additions
<1>4. \A p \in OrderIds :
          /\ order[p].confirmedFor \in {0, order'[p].confirmedFor}
          /\ order[p].kickoffs = 1 => order'[p].kickoffs = 1
          /\ order'[p].kickoffs <= 1
          /\ order'[p].status = "kicked_off" \/ project'[p].exists => order'[p].kickoffs = 1
          /\ order'[p].date \in Given(p) \cup Given(p)'
          /\ project'[p].first \in Given(p)
          /\ order'[p].price <= SumFunction(Additions(p)')
  BY <1>3, OrdersStand
<1>5. OrdersInv'
  BY <1>1, <1>4, TradeRequests, OrdersGrow
<1>6. "none" \notin OrderIds
  BY OfficeAssumption
<1>7. \A x \in PhaseIds :
          /\ phase'[x].project \in OrderIds =>
               /\ project[phase'[x].project].exists
               /\ Reached(phase'[x].project, phase'[x].ends)
          /\ phase'[x].project = "none" => phase'[x] = NoPhase
          /\ phase[x].project \in OrderIds => phase'[x].project = phase[x].project
  BY <1>2, <1>6, PlansStand
<1>8. PlansInv'
  BY <1>2, <1>7, TradeRequests, PlansStand, PlansGrow, RisesQuiet
<1> QED BY <1>2, <1>5, <1>8
        DEF TradeKept, TradeInv, Within, TypeOK, SalesTypeOK, ScheduleTypeOK

LEMMA ProjectWritesKept ==
    ASSUME TypeOK, TradeInv, NEW s \in Sessions, WriteProject(s) \/ WriteExtended(s)
    PROVE  TradeKept
<1>1. UNCHANGED <<order, applied, phase>>
  BY DEF WriteProject, WriteExtended, sales
<1>2. Moves(s, Idle) /\ Idle.op = "idle"
  BY FinishMoves DEF WriteProject, WriteExtended
<1>3. req' \in Requesting /\ \A t \in Sessions : req'[t] = req[t] \/ req'[t].op = "idle"
  BY <1>2 DEF Moves
<1>4. req[s] \in {Idle} \cup AllRequests /\ req[s].op \in {"initiate", "extend"}
  BY Typed DEF Requesting, WriteProject, WriteExtended
<1>5. PICK o \in OrderIds, d \in 0 .. LastDate : o = req[s].order /\ d = req[s].date
  BY <1>4, TradeFields
<1>6. /\ project \in [OrderIds -> ProjectRows] /\ project[o] \in ProjectRows
      /\ order[o] \in OrderRows
  BY TradeTypes
<1>7. CASE WriteProject(s)
  <2> DEFINE row == [exists |-> TRUE, first |-> d, committed |-> d, overtaken |-> FALSE,
                     lots |-> order[o].lots]
  <2>1. order[o].lots \in Nat
    BY <1>6 DEF OrderRows
  <2>2. row \in ProjectRows /\ row.exists /\ row.first = d
    BY <2>1 DEF ProjectRows
  <2>3. ~project[o].exists /\ project' = [project EXCEPT ![o] = row]
    BY <1>5, <1>7 DEF WriteProject
  <2>4. d \in Given(o) /\ order[o].kickoffs = 1
    BY <1>5, <1>7, OrdersStand DEF WriteProject
  <2> HIDE DEF row
  <2> QED BY <1>1, <1>3, <2>2, <2>3, <2>4, ProjectWritten
<1>8. CASE WriteExtended(s)
  <2> DEFINE lost == project[o].overtaken \/ project[o].committed # req[s].previous
             row == [project[o] EXCEPT !.committed = d, !.overtaken = lost]
  <2>1. project[o].exists /\ req[s].previous < d
    BY <1>5, <1>8, PlansStand DEF WriteExtended
  <2>2. /\ project[o].committed \in Int /\ project[o].overtaken \in BOOLEAN /\ lost \in BOOLEAN
    BY <1>6 DEF ProjectRows
  <2>3. lost \/ (~project[o].overtaken /\ project[o].committed <= d)
    BY <2>1, <2>2
  <2> HIDE DEF lost
  <2>4. /\ row \in ProjectRows /\ row.exists = project[o].exists /\ row.first = project[o].first
        /\ row.committed = d /\ row.overtaken = lost
    BY <1>6, <2>2 DEF ProjectRows
  <2>5. project' = [project EXCEPT ![o] = row]
    BY <1>5, <1>6, <1>8 DEF WriteExtended, lost
  <2>6. project[o].first \in Given(o) /\ order[o].kickoffs = 1
    BY <2>1, OrdersStand
  <2> HIDE DEF row
  <2> QED BY <1>1, <1>3, <2>1, <2>3, <2>4, <2>5, <2>6, ProjectWritten
<1> QED BY <1>7, <1>8

LEMMA PhaseWritesKept ==
    ASSUME TypeOK, TradeInv, NEW s \in Sessions, WritePlanned(s) \/ WriteRescheduled(s)
    PROVE  TradeKept
<1>1. UNCHANGED <<order, applied, project>>
  BY DEF WritePlanned, WriteRescheduled, sales
<1>2. Moves(s, Idle) /\ Idle.op = "idle"
  BY FinishMoves DEF WritePlanned, WriteRescheduled
<1>3. req' \in Requesting /\ \A t \in Sessions : req'[t] = req[t] \/ req'[t].op = "idle"
  BY <1>2 DEF Moves
<1>4. req[s] \in {Idle} \cup AllRequests
  BY Typed DEF Requesting
<1>5. phase \in [PhaseIds -> PhaseRows]
  BY TradeTypes
<1>6. CASE WritePlanned(s)
  <2>1. req[s].op = "plan"
    BY <1>6 DEF WritePlanned
  <2>2. PICK o \in OrderIds, d \in 0 .. LastDate : o = req[s].order /\ d = req[s].date
    BY <1>4, <2>1, TradeFields
  <2> DEFINE row == [project |-> o, ends |-> d]
  <2>3. PICK ph \in PhaseIds : phase[ph] = NoPhase /\ phase' = [phase EXCEPT ![ph] = row]
    BY <1>6, <2>2 DEF WritePlanned
  <2>4. row \in PhaseRows /\ row.project = o /\ row.ends = d
    BY DEF PhaseRows
  <2>5. project[o].exists /\ Reached(o, d)
    BY <2>1, <2>2, PlansStand
  <2>6. phase[ph].project = "none"
    BY <2>3 DEF NoPhase
  <2> HIDE DEF row
  <2> QED BY <1>1, <1>3, <2>3, <2>4, <2>5, <2>6, PhaseWritten
<1>7. CASE WriteRescheduled(s)
  <2>1. req[s].op = "reschedule"
    BY <1>7 DEF WriteRescheduled
  <2>2. PICK ph \in PhaseIds, d \in Dates : ph = req[s].phase /\ d = req[s].date
    BY <1>4, <2>1, TradeFields
  <2> DEFINE row == [phase[ph] EXCEPT !.ends = d]
  <2>3. phase[ph].project \in OrderIds /\ Reached(phase[ph].project, d)
    BY <2>1, <2>2, PlansStand
  <2>4. d \in 0 .. LastDate /\ phase[ph] \in PhaseRows
    BY <1>5, OfficeAssumption DEF Dates
  <2>5. row \in PhaseRows /\ row.project = phase[ph].project /\ row.ends = d
    BY <2>4 DEF PhaseRows
  <2>6. phase' = [phase EXCEPT ![ph] = row]
    BY <1>5, <1>7, <2>2 DEF WriteRescheduled
  <2>7. project[phase[ph].project].exists
    BY <2>3, PlansStand
  <2> HIDE DEF row
  <2> QED BY <1>1, <1>3, <2>3, <2>5, <2>6, <2>7, PhaseWritten
<1> QED BY <1>6, <1>7

LEMMA TradeNextInv ==
    ASSUME TypeOK, TradeInv, (SalesNext /\ UNCHANGED schedule) \/ ScheduleNext
    PROVE  TradeKept
<1>1. CASE SalesNext /\ UNCHANGED schedule
  <2>1. CASE \E o \in OrderIds : CopyLots(o)
    BY <1>1, <2>1, CopyLotsKept
  <2>2. CASE \E s \in Sessions, o \in OrderIds :
                \/ \E d \in Dates : BeginConfirm(s, o, d)
                \/ BeginKickOff(s, o)
                \/ BeginHold(s, o)
    BY <1>1, <2>2, SalesBeginsKept
  <2>3. CASE \E s \in Sessions, c \in ChangeIds : BeginChange(s, c)
    BY <1>1, <2>3, SalesBeginsKept
  <2>4. CASE \E s \in Sessions :
                \/ WriteConfirmed(s) \/ WriteKickedOff(s) \/ WriteHeld(s) \/ WriteChanged(s)
    BY <1>1, <2>4, SalesWritesKept, WriteChangedKept
  <2> QED BY <1>1, <2>1, <2>2, <2>3, <2>4 DEF SalesNext
<1>2. CASE ScheduleNext
  <2>1. CASE \E s \in Sessions, o \in OrderIds :
                \/ BeginInitiate(s, o)
                \/ \E d \in Dates : BeginPlan(s, o, d) \/ BeginExtend(s, o, d)
    BY <2>1, ScheduleBeginsKept
  <2>2. CASE \E s \in Sessions, ph \in PhaseIds, d \in Dates : BeginReschedule(s, ph, d)
    BY <2>2, ScheduleBeginsKept
  <2>3. CASE \E s \in Sessions :
                WriteProject(s) \/ WritePlanned(s) \/ WriteRescheduled(s) \/ WriteExtended(s)
    BY <2>3, ProjectWritesKept, PhaseWritesKept
  <2> QED BY <1>2, <2>1, <2>2, <2>3 DEF ScheduleNext
<1> QED BY <1>1, <1>2

-----------------------------------------------------------------------------
(* Money.                                                                  *)

LEMMA SessionsNumber == N \in Nat
  BY OfficeAssumption, FS_CardinalityType DEF N

LEMMA SessionsCounted ==
    ASSUME NEW X \in SUBSET Sessions
    PROVE  IsFiniteSet(X) /\ Cardinality(X) \in Nat /\ Cardinality(X) <= N /\ N \in Nat
  BY OfficeAssumption, FS_Subset, FS_CardinalityType DEF N

\* An amount, as often as there are sessions in a set.
LEMMA AmountTimes ==
    ASSUME NEW a \in Nat, NEW X \in SUBSET Sessions, NEW Y \in SUBSET Sessions, X \subseteq Y
    PROVE  /\ a * Cardinality(X) \in Nat
           /\ a * Cardinality(X) <= a * Cardinality(Y)
<1>1. Cardinality(X) \in Nat /\ Cardinality(Y) \in Nat /\ IsFiniteSet(Y)
  BY SessionsCounted
<1>2. Cardinality(X) <= Cardinality(Y)
  BY <1>1, FS_Subset
<1>3. \A m, n \in Nat : m <= n => a * m \in Nat /\ a * m <= a * n
  OBVIOUS
<1> QED BY <1>1, <1>2, <1>3

\* Nothing is posted, and no request more may post what is settled.
LEMMA CoversQuiet ==
    ASSUME NEW S, IsFiniteSet(S), NEW total \in Int, NEW f, NEW g, NEW h, NEW k,
           \A x \in S : f[x] \in Int /\ g[x] \in Int /\ k[x] \in Int,
           \A x \in S : h[x] = f[x] /\ k[x] <= g[x],
           Covers(total, f, g, S)
    PROVE  Covers(total, h, k, S)
<1>1. SumFunctionOnSet(h, S) = SumFunctionOnSet(f, S)
  BY SumCongruence
<1>2. SumFunctionOnSet(k, S) <= SumFunctionOnSet(g, S)
  BY SumMonotone
<1>3. /\ SumFunctionOnSet(f, S) \in Int /\ SumFunctionOnSet(g, S) \in Int
      /\ SumFunctionOnSet(k, S) \in Int
  BY SumType
<1>4. N \in Nat
  BY SessionsNumber
<1>5. N * SumFunctionOnSet(f, S) \in Int
  BY <1>3, <1>4
<1>6. /\ SumFunctionOnSet(f, S) <= total
      /\ total + SumFunctionOnSet(g, S) <= N * SumFunctionOnSet(f, S)
  BY DEF Covers
<1>7. total + SumFunctionOnSet(k, S) <= N * SumFunctionOnSet(f, S)
  BY <1>2, <1>3, <1>5, <1>6
<1> QED BY <1>1, <1>6, <1>7 DEF Covers

\* The amount a of the document y is posted.
LEMMA CoversPosted ==
    ASSUME NEW S, IsFiniteSet(S), NEW total \in Int, NEW f, NEW g, NEW h, NEW k,
           \A x \in S : f[x] \in Int /\ g[x] \in Int /\ h[x] \in Int /\ k[x] \in Int,
           NEW y \in S, \A x \in S \ {y} : h[x] = f[x] /\ k[x] = g[x],
           NEW a \in Int, h[y] - f[y] <= a,
           a + k[y] - g[y] <= N * (h[y] - f[y]),
           Covers(total, f, g, S)
    PROVE  Covers(total + a, h, k, S)
<1> DEFINE F == SumFunctionOnSet(f, S)  G == SumFunctionOnSet(g, S)
           H == SumFunctionOnSet(h, S)  K == SumFunctionOnSet(k, S)
<1>1. H = F + h[y] - f[y]
  BY SumChange
<1>2. K = G + k[y] - g[y]
  BY SumChange
<1>3. F \in Int /\ G \in Int /\ H \in Int /\ K \in Int
  BY SumType
<1>4. F <= total /\ total + G <= N * F
  BY DEF Covers
<1>5. N \in Int
  BY SessionsNumber
<1>6. f[y] \in Int /\ g[y] \in Int /\ h[y] \in Int /\ k[y] \in Int
  OBVIOUS
<1> HIDE DEF F, G, H, K
<1>7. H <= total + a
  BY <1>1, <1>3, <1>4, <1>6
<1>8. N * H = N * F + N * (h[y] - f[y])
  <2>1. \A n, p, q, r \in Int : n * (p + q - r) = n * p + n * (q - r)
    OBVIOUS
  <2> QED BY <1>1, <1>3, <1>5, <1>6, <2>1
<1>9. total + a + K <= N * H
  <2>1. N * F \in Int /\ N * (h[y] - f[y]) \in Int /\ N * H \in Int
    BY <1>3, <1>5, <1>6
  <2> QED BY <1>2, <1>3, <1>4, <1>6, <1>8, <2>1
<1> QED BY <1>7, <1>9 DEF Covers, H, K

\* A settled document of the amount a, and who may still post it.
LEMMA PostedFirst ==
    ASSUME NEW a \in Nat, NEW X \in SUBSET Sessions, NEW s \in X
    PROVE  a + a * Cardinality(X \ {s}) <= N * a
<1>1. IsFiniteSet(X) /\ Cardinality(X) \in Nat /\ Cardinality(X) <= N /\ N \in Nat
  BY SessionsCounted
<1>2. Cardinality(X \ {s}) = Cardinality(X) - 1
  BY <1>1, FS_RemoveElement
<1>3. \A m, n \in Nat : m <= n => a + a * (m - 1) <= n * a
  OBVIOUS
<1> QED BY <1>1, <1>2, <1>3

LEMMA PostedAgain ==
    ASSUME NEW a \in Nat, NEW X \in SUBSET Sessions, NEW s \in X
    PROVE  a + a * Cardinality(X \ {s}) = a * Cardinality(X)
<1>1. IsFiniteSet(X) /\ Cardinality(X) \in Nat
  BY SessionsCounted
<1>2. Cardinality(X \ {s}) = Cardinality(X) - 1
  BY <1>1, FS_RemoveElement
<1>3. \A m \in Nat : a + a * (m - 1) = a * m
  OBVIOUS
<1> QED BY <1>1, <1>2, <1>3

LEMMA MoneyTypes ==
    ASSUME TypeOK
    PROVE  /\ expense \in [ExpenseIds -> ExpenseRows] /\ invoice \in [InvoiceIds -> InvoiceRows]
           /\ entries \in [OrderIds -> [MoneyCategories -> Nat]]
           /\ IsFiniteSet(ExpenseIds) /\ IsFiniteSet(InvoiceIds)
  BY OfficeAssumption DEF TypeOK, FinanceTypeOK

LEMMA ClaimsTyped ==
    ASSUME expense \in [ExpenseIds -> ExpenseRows], invoice \in [InvoiceIds -> InvoiceRows],
           NEW o \in OrderIds
    PROVE  /\ \A e \in ExpenseIds :
                /\ Claimed(o, "approved")[e] \in Nat
                /\ Claimed(o, "approved")[e] =
                     IF expense[e].project = o /\ expense[e].status = "approved"
                     THEN expense[e].amount ELSE 0
           /\ \A i \in InvoiceIds :
                /\ Billed(o)[i] \in Nat
                /\ Billed(o)[i] = IF BilledTo[i] = o /\ invoice[i].status = "issued"
                                  THEN invoice[i].amount ELSE 0
<1>1. \A e \in ExpenseIds : expense[e].amount \in Nat
  BY DEF ExpenseRows
<1>2. \A i \in InvoiceIds : invoice[i].amount \in Nat
  BY DEF InvoiceRows
<1> QED BY <1>1, <1>2 DEF Claimed, Billed

\* What requests may still post of a document, by those in progress.
LEMMA OwedIs ==
    ASSUME NEW q, NEW o
    PROVE  /\ \A e \in ExpenseIds :
                OwedClaims(q, o)[e] = Claimed(o, "approved")[e] * Cardinality(Approving(q, e))
           /\ \A i \in InvoiceIds :
                OwedInvoices(q, o)[i] = Billed(o)[i] * Cardinality(Issuing(q, i))
  BY DEF OwedClaims, OwedInvoices

LEMMA SheetStands ==
    ASSUME TypeOK, MoneyInv
    PROVE  /\ \A o \in OrderIds :
                /\ Covers(expense_total(o), Claimed(o, "approved"), OwedClaims(req, o), ExpenseIds)
                /\ Covers(revenue_total(o), Billed(o), OwedInvoices(req, o), InvoiceIds)
                /\ expense_total(o) \in Int /\ revenue_total(o) \in Int
           /\ \A e \in ExpenseIds : expense[e].status # "absent" => expense[e].project \in OrderIds
           /\ \A s \in Sessions :
                req[s].op = "approve_expense" => expense[req[s].expense].status # "absent"
<1>1. \A o \in OrderIds : expense_total(o) \in Int /\ revenue_total(o) \in Int
  BY MoneyTypes DEF expense_total, revenue_total, MoneyCategories
<1> QED BY <1>1 DEF MoneyInv, SheetShared, ClaimsGrounded

(* Nothing posted: the claims and the invoices count for what they did, and *)
(* none that counts has a request more about it.                            *)
LEMMA MoneyQuiet ==
    ASSUME TypeOK, MoneyInv, expense' \in [ExpenseIds -> ExpenseRows],
           UNCHANGED <<invoice, entries>>,
           \A e \in ExpenseIds :
               /\ expense'[e].project = expense[e].project \/ expense[e].status = "absent"
               /\ expense'[e].amount = expense[e].amount \/ expense[e].status = "absent"
               /\ expense'[e].status = "approved" <=> expense[e].status = "approved"
               /\ expense[e].status = "approved" => Approving(req', e) \subseteq Approving(req, e),
           \A i \in InvoiceIds :
               invoice[i].status = "issued" => Issuing(req', i) \subseteq Issuing(req, i)
    PROVE  SheetShared'
<1> SUFFICES ASSUME NEW o \in OrderIds
    PROVE  /\ Covers(expense_total(o)', Claimed(o, "approved")', OwedClaims(req, o)', ExpenseIds)
           /\ Covers(revenue_total(o)', Billed(o)', OwedInvoices(req, o)', InvoiceIds)
  BY DEF SheetShared
<1> DEFINE f == Claimed(o, "approved")  h == Claimed(o, "approved")'
           g == OwedClaims(req, o)  k == OwedClaims(req, o)'
           F == Billed(o)  H == Billed(o)'
           G == OwedInvoices(req, o)  K == OwedInvoices(req, o)'
<1>1. /\ expense \in [ExpenseIds -> ExpenseRows] /\ invoice \in [InvoiceIds -> InvoiceRows]
      /\ IsFiniteSet(ExpenseIds) /\ IsFiniteSet(InvoiceIds)
  BY MoneyTypes
<1>2. ASSUME NEW e \in ExpenseIds
      PROVE  /\ f[e] \in Nat /\ g[e] \in Nat /\ k[e] \in Nat
             /\ h[e] = f[e] /\ k[e] <= g[e]
  <2>1. f[e] \in Nat /\ f[e] = IF expense[e].project = o /\ expense[e].status = "approved"
                               THEN expense[e].amount ELSE 0
    BY <1>1, ClaimsTyped
  <2>2. h[e] = IF expense'[e].project = o /\ expense'[e].status = "approved"
               THEN expense'[e].amount ELSE 0
    BY DEF Claimed
  <2>3. h[e] = f[e]
    BY <2>1, <2>2
  <2>4. g[e] = f[e] * Cardinality(Approving(req, e))
    BY DEF OwedClaims
  <2>5. k[e] = h[e] * Cardinality(Approving(req', e))
    BY DEF OwedClaims
  <2>6. Approving(req, e) \in SUBSET Sessions /\ Approving(req', e) \in SUBSET Sessions
    BY DEF Approving
  <2> HIDE DEF f, g, h, k
  <2>7. CASE f[e] = 0
    <3>1. Cardinality(Approving(req, e)) \in Nat /\ Cardinality(Approving(req', e)) \in Nat
      BY <2>6, SessionsCounted
    <3>2. \A n \in Nat : 0 * n = 0
      OBVIOUS
    <3>3. g[e] = 0 /\ k[e] = 0
      BY <2>3, <2>4, <2>5, <2>7, <3>1, <3>2
    <3> QED BY <2>1, <2>3, <3>3
  <2>8. CASE f[e] # 0
    <3>1. Approving(req', e) \subseteq Approving(req, e)
      BY <2>1, <2>8
    <3>2. /\ f[e] * Cardinality(Approving(req', e)) \in Nat
          /\ f[e] * Cardinality(Approving(req, e)) \in Nat
          /\ f[e] * Cardinality(Approving(req', e)) <= f[e] * Cardinality(Approving(req, e))
      BY <2>1, <2>6, <3>1, AmountTimes
    <3> QED BY <2>1, <2>3, <2>4, <2>5, <3>2
  <2> QED BY <2>7, <2>8
<1>3. ASSUME NEW i \in InvoiceIds
      PROVE  /\ F[i] \in Nat /\ G[i] \in Nat /\ K[i] \in Nat
             /\ H[i] = F[i] /\ K[i] <= G[i]
  <2>1. F[i] \in Nat /\ F[i] = IF BilledTo[i] = o /\ invoice[i].status = "issued"
                               THEN invoice[i].amount ELSE 0
    BY <1>1, ClaimsTyped
  <2>2. H[i] = F[i]
    BY DEF Billed
  <2>3. G[i] = F[i] * Cardinality(Issuing(req, i))
    BY DEF OwedInvoices
  <2>4. K[i] = H[i] * Cardinality(Issuing(req', i))
    BY DEF OwedInvoices
  <2>5. Issuing(req, i) \in SUBSET Sessions /\ Issuing(req', i) \in SUBSET Sessions
    BY DEF Issuing
  <2> HIDE DEF F, G, H, K
  <2>6. CASE F[i] = 0
    <3>1. Cardinality(Issuing(req, i)) \in Nat /\ Cardinality(Issuing(req', i)) \in Nat
      BY <2>5, SessionsCounted
    <3>2. \A n \in Nat : 0 * n = 0
      OBVIOUS
    <3>3. G[i] = 0 /\ K[i] = 0
      BY <2>2, <2>3, <2>4, <2>6, <3>1, <3>2
    <3> QED BY <2>1, <2>2, <3>3
  <2>7. CASE F[i] # 0
    <3>1. Issuing(req', i) \subseteq Issuing(req, i)
      BY <2>1, <2>7
    <3>2. /\ F[i] * Cardinality(Issuing(req', i)) \in Nat
          /\ F[i] * Cardinality(Issuing(req, i)) \in Nat
          /\ F[i] * Cardinality(Issuing(req', i)) <= F[i] * Cardinality(Issuing(req, i))
      BY <2>1, <2>5, <3>1, AmountTimes
    <3> QED BY <2>1, <2>2, <2>3, <2>4, <3>2
  <2> QED BY <2>6, <2>7
<1>4. /\ Covers(expense_total(o), f, g, ExpenseIds) /\ expense_total(o) \in Int
      /\ Covers(revenue_total(o), F, G, InvoiceIds) /\ revenue_total(o) \in Int
  BY SheetStands
<1>5. expense_total(o)' = expense_total(o) /\ revenue_total(o)' = revenue_total(o)
  BY DEF expense_total, revenue_total
<1> HIDE DEF f, g, h, k, F, G, H, K
<1>6. Covers(expense_total(o), h, k, ExpenseIds)
  BY <1>1, <1>2, <1>4, CoversQuiet
<1>7. Covers(revenue_total(o), H, K, InvoiceIds)
  BY <1>1, <1>3, <1>4, CoversQuiet
<1> QED BY <1>5, <1>6, <1>7 DEF h, k, H, K

MoneyKept == MoneyInv' /\ FinanceTypeOK' /\ req' \in Requesting /\ Within(MoneyOps)

LEMMA MoneyFrame ==
    ASSUME TypeOK, MoneyInv, req' \in Requesting, UNCHANGED <<expense, invoice, entries>>,
           \A s \in Sessions : req'[s] = req[s] \/ req'[s].op \notin MoneyOps
    PROVE  MoneyInv' /\ FinanceTypeOK'
<1>1. /\ \A e \in ExpenseIds : Approving(req', e) \subseteq Approving(req, e)
      /\ \A i \in InvoiceIds : Issuing(req', i) \subseteq Issuing(req, i)
  BY DEF Approving, Issuing, MoneyOps
<1>2. SheetShared'
  BY <1>1, MoneyTypes, MoneyQuiet
<1>3. ClaimsGrounded'
  BY SheetStands DEF ClaimsGrounded, MoneyOps
<1> QED BY <1>2, <1>3 DEF MoneyInv, TypeOK, FinanceTypeOK

LEMMA SubmitExpenseKept ==
    ASSUME TypeOK, MoneyInv, NEW e \in ExpenseIds, NEW o \in OrderIds, NEW n \in Amounts,
           SubmitExpense(e, o, n)
    PROVE  MoneyKept
<1> DEFINE row == [status |-> "submitted", project |-> o, amount |-> n]
<1>1. row \in ExpenseRows /\ row.status = "submitted" /\ row.project = o
  BY OfficeAssumption DEF ExpenseRows
<1>2. /\ expense[e].status = "absent" /\ expense' = [expense EXCEPT ![e] = row]
      /\ UNCHANGED <<req, invoice, entries>>
  BY DEF SubmitExpense, NoExpense
<1> HIDE DEF row
<1>3. /\ expense' \in [ExpenseIds -> ExpenseRows]
      /\ \A x \in ExpenseIds : expense'[x] = IF x = e THEN row ELSE expense[x]
  BY <1>1, <1>2, MoneyTypes
<1>4. \A x \in ExpenseIds :
          /\ expense'[x].project = expense[x].project \/ expense[x].status = "absent"
          /\ expense'[x].amount = expense[x].amount \/ expense[x].status = "absent"
          /\ expense'[x].status = "approved" <=> expense[x].status = "approved"
          /\ expense[x].status = "approved" => Approving(req', x) \subseteq Approving(req, x)
  BY <1>1, <1>2, <1>3
<1>5. \A i \in InvoiceIds :
          invoice[i].status = "issued" => Issuing(req', i) \subseteq Issuing(req, i)
  BY <1>2
<1>6. SheetShared'
  BY <1>2, <1>3, <1>4, <1>5, MoneyQuiet
<1>7. ASSUME NEW s \in Sessions, req'[s].op = "approve_expense"
      PROVE  expense'[req'[s].expense].status # "absent"
  <2>1. req[s] \in {Idle} \cup AllRequests
    BY Typed DEF Requesting
  <2>2. req[s].expense \in ExpenseIds
    BY <1>2, <1>7, <2>1, MoneyFields
  <2>3. expense[req[s].expense].status # "absent"
    BY <1>2, <1>7, SheetStands
  <2> QED BY <1>2, <1>3, <2>2, <2>3
<1>8. ClaimsGrounded'
  BY <1>1, <1>3, <1>7, SheetStands DEF ClaimsGrounded
<1> QED BY <1>2, <1>3, <1>6, <1>8, Typed
        DEF MoneyKept, MoneyInv, Within, TypeOK, FinanceTypeOK

LEMMA MoneyBeginsKept ==
    ASSUME TypeOK, MoneyInv, NEW s \in Sessions,
           (\E e \in ExpenseIds : BeginApproveExpense(s, e))
               \/ (\E i \in InvoiceIds : BeginIssue(s, i))
    PROVE  MoneyKept
<1>1. UNCHANGED <<expense, invoice, entries>>
  BY DEF BeginApproveExpense, BeginIssue, money
<1>2. PICK a \in AllRequests :
          /\ Begin(s, a) /\ a.op \in MoneyOps
          /\ a.op = "approve_expense" => expense[a.expense].status = "submitted"
          /\ a.op = "issue" => invoice[a.invoice].status = "draft"
  <2>1. ASSUME NEW e \in ExpenseIds, BeginApproveExpense(s, e)
        PROVE  \E a \in AllRequests :
                  /\ Begin(s, a) /\ a.op \in MoneyOps
                  /\ a.op = "approve_expense" => expense[a.expense].status = "submitted"
                  /\ a.op = "issue" => invoice[a.invoice].status = "draft"
    <3> DEFINE a == [op |-> "approve_expense", expense |-> e]
    <3>1. a \in AllRequests /\ a.op = "approve_expense" /\ a.expense = e
      BY DEF FinanceRequests, AllRequests
    <3>2. Begin(s, a) /\ expense[e].status = "submitted"
      BY <2>1 DEF BeginApproveExpense
    <3> HIDE DEF a
    <3> QED BY <3>1, <3>2 DEF MoneyOps
  <2>2. ASSUME NEW i \in InvoiceIds, BeginIssue(s, i)
        PROVE  \E a \in AllRequests :
                  /\ Begin(s, a) /\ a.op \in MoneyOps
                  /\ a.op = "approve_expense" => expense[a.expense].status = "submitted"
                  /\ a.op = "issue" => invoice[a.invoice].status = "draft"
    <3> DEFINE a == [op |-> "issue", invoice |-> i]
    <3>1. a \in AllRequests /\ a.op = "issue" /\ a.invoice = i
      BY DEF FinanceRequests, AllRequests
    <3>2. Begin(s, a) /\ invoice[i].status = "draft"
      BY <2>2 DEF BeginIssue
    <3> HIDE DEF a
    <3> QED BY <3>1, <3>2 DEF MoneyOps
  <2> QED BY <2>1, <2>2
<1>3. Moves(s, a)
  BY <1>2, BeginMoves
<1>4. \A t \in Sessions : req'[t] = a \/ req'[t] = req[t]
  BY <1>3 DEF Moves
<1>5. \A e \in ExpenseIds :
          expense[e].status = "approved" => Approving(req', e) \subseteq Approving(req, e)
  BY <1>2, <1>4 DEF Approving
<1>6. \A i \in InvoiceIds :
          invoice[i].status = "issued" => Issuing(req', i) \subseteq Issuing(req, i)
  BY <1>2, <1>4 DEF Issuing
<1>7. SheetShared'
  BY <1>1, <1>5, <1>6, MoneyTypes, MoneyQuiet
<1>8. \A t \in Sessions :
          req'[t].op = "approve_expense" => expense[req'[t].expense].status # "absent"
  BY <1>2, <1>4, SheetStands
<1>9. ClaimsGrounded'
  BY <1>1, <1>8, SheetStands DEF ClaimsGrounded
<1> QED BY <1>1, <1>2, <1>3, <1>7, <1>9
        DEF MoneyKept, MoneyInv, Moves, Within, TypeOK, FinanceTypeOK

\* The session that posts is no longer one that may.
LEMMA NoLongerApproving ==
    ASSUME NEW s \in Sessions, Moves(s, Idle), Idle.op = "idle", req[s].op = "approve_expense"
    PROVE  /\ \A e \in ExpenseIds :
                Approving(req', e) = IF req[s].expense = e THEN Approving(req, e) \ {s}
                                     ELSE Approving(req, e)
           /\ \A e \in ExpenseIds : req[s].expense = e => s \in Approving(req, e)
           /\ \A i \in InvoiceIds : Issuing(req', i) = Issuing(req, i)
  BY DEF Moves, Approving, Issuing

LEMMA NoLongerIssuing ==
    ASSUME NEW s \in Sessions, Moves(s, Idle), Idle.op = "idle", req[s].op = "issue"
    PROVE  /\ \A i \in InvoiceIds :
                Issuing(req', i) = IF req[s].invoice = i THEN Issuing(req, i) \ {s}
                                   ELSE Issuing(req, i)
           /\ \A i \in InvoiceIds : req[s].invoice = i => s \in Issuing(req, i)
           /\ \A e \in ExpenseIds : Approving(req', e) = Approving(req, e)
  BY DEF Moves, Approving, Issuing

(* X and Y: who may post each document before and after.  The session s    *)
(* posts y, of the amount a.                                               *)
Posting(S, f, g, h, k, X, Y, y, a, s) ==
    /\ IsFiniteSet(S) /\ y \in S /\ a \in Nat /\ s \in X[y]
    /\ X \in [S -> SUBSET Sessions] /\ Y \in [S -> SUBSET Sessions]
    /\ \A x \in S : f[x] \in Nat /\ g[x] = f[x] * Cardinality(X[x])
    /\ \A x \in S : h[x] \in Nat /\ k[x] = h[x] * Cardinality(Y[x])
    /\ \A x \in S \ {y} : h[x] = f[x] /\ Y[x] = X[x]
    /\ f[y] \in {0, a} /\ h[y] = a /\ Y[y] = X[y] \ {s}

LEMMA PostCovers ==
    ASSUME NEW S, NEW total \in Int, NEW f, NEW g, NEW h, NEW k, NEW X, NEW Y, NEW y,
           NEW a, NEW s, Posting(S, f, g, h, k, X, Y, y, a, s), Covers(total, f, g, S)
    PROVE  Covers(total + a, h, k, S)
<1> USE DEF Posting
<1>1. ASSUME NEW x \in S
      PROVE  f[x] \in Int /\ g[x] \in Int /\ h[x] \in Int /\ k[x] \in Int
  <2>1. X[x] \in SUBSET Sessions /\ Y[x] \in SUBSET Sessions
    OBVIOUS
  <2>2. f[x] * Cardinality(X[x]) \in Nat /\ h[x] * Cardinality(Y[x]) \in Nat
    BY <2>1, AmountTimes
  <2> QED BY <2>2
<1>2. \A x \in S \ {y} : h[x] = f[x] /\ k[x] = g[x]
  OBVIOUS
<1>3. X[y] \in SUBSET Sessions
  OBVIOUS
<1>4. g[y] = f[y] * Cardinality(X[y]) /\ k[y] = a * Cardinality(X[y] \ {s})
  OBVIOUS
<1>5. N \in Int
  BY SessionsNumber
<1>6. h[y] - f[y] <= a /\ a + k[y] - g[y] <= N * (h[y] - f[y])
  <2>1. CASE f[y] = a
    <3>1. a + k[y] = g[y]
      BY <1>3, <1>4, <2>1, PostedAgain
    <3>2. a + k[y] - g[y] = 0 /\ h[y] - f[y] = 0
      BY <1>1, <2>1, <3>1
    <3>3. N * 0 = 0
      BY <1>5
    <3>4. h[y] - f[y] <= a
      BY <3>2
    <3> QED BY <3>2, <3>3, <3>4
  <2>2. CASE f[y] = 0
    <3>1. a + k[y] <= N * a
      BY <1>3, <1>4, PostedFirst
    <3>2. g[y] = 0
      <4>1. Cardinality(X[y]) \in Nat
        BY <1>3, SessionsCounted
      <4> QED BY <1>4, <2>2, <4>1
    <3>3. h[y] - f[y] = a
      BY <2>2
    <3>4. a + k[y] - g[y] = a + k[y] /\ a <= a
      BY <1>1, <3>2
    <3> QED BY <3>1, <3>3, <3>4
  <2> QED BY <2>1, <2>2
<1>7. a \in Int /\ y \in S /\ IsFiniteSet(S)
  OBVIOUS
<1> QED BY <1>1, <1>2, <1>6, <1>7, CoversPosted

LEMMA SameCovers ==
    ASSUME NEW S, IsFiniteSet(S), NEW total \in Int, NEW f, NEW g, NEW h, NEW k,
           NEW X \in [S -> SUBSET Sessions], NEW Y \in [S -> SUBSET Sessions],
           \A x \in S : f[x] \in Nat /\ g[x] = f[x] * Cardinality(X[x]),
           \A x \in S : h[x] = f[x] /\ k[x] = h[x] * Cardinality(Y[x]),
           \A x \in S : Y[x] \subseteq X[x],
           Covers(total, f, g, S)
    PROVE  Covers(total, h, k, S)
<1>1. ASSUME NEW x \in S
      PROVE  /\ f[x] \in Int /\ g[x] \in Int /\ k[x] \in Int
             /\ h[x] = f[x] /\ k[x] <= g[x]
  <2>1. X[x] \in SUBSET Sessions /\ Y[x] \in SUBSET Sessions /\ Y[x] \subseteq X[x]
        /\ f[x] \in Nat
    OBVIOUS
  <2>2. /\ f[x] * Cardinality(X[x]) \in Nat /\ f[x] * Cardinality(Y[x]) \in Nat
        /\ f[x] * Cardinality(Y[x]) <= f[x] * Cardinality(X[x])
    BY <2>1, AmountTimes
  <2> QED BY <2>2
<1> QED BY <1>1, CoversQuiet

LEMMA WriteApprovedExpenseSheet ==
    ASSUME TypeOK, MoneyInv, NEW s \in Sessions, WriteApprovedExpense(s)
    PROVE  FinanceTypeOK' /\ SheetShared' /\ ClaimsGrounded'
<1>1. Moves(s, Idle) /\ Idle.op = "idle" /\ req[s].op = "approve_expense"
  BY FinishMoves DEF WriteApprovedExpense
<1>2. PICK e \in ExpenseIds : e = req[s].expense
  <2>1. req[s] \in {Idle} \cup AllRequests
    BY Typed DEF Requesting
  <2> QED BY <1>1, <2>1, MoneyFields
<1>3. /\ expense \in [ExpenseIds -> ExpenseRows] /\ expense[e] \in ExpenseRows
      /\ invoice \in [InvoiceIds -> InvoiceRows]
      /\ entries \in [OrderIds -> [MoneyCategories -> Nat]]
      /\ IsFiniteSet(ExpenseIds) /\ IsFiniteSet(InvoiceIds)
  BY MoneyTypes
<1>4. expense[e].status # "absent" /\ expense[e].project \in OrderIds
  BY <1>1, <1>2, SheetStands
<1>5. PICK o \in OrderIds, a \in Nat : o = expense[e].project /\ a = expense[e].amount
  BY <1>3, <1>4 DEF ExpenseRows
<1> DEFINE row == [expense[e] EXCEPT !.status = "approved"]
           cell == [entries[o] EXCEPT !["SITE_EXPENSE"] = entries[o]["SITE_EXPENSE"] + a]
<1>6. row \in ExpenseRows /\ row.status = "approved" /\ row.project = o /\ row.amount = a
  BY <1>3, <1>5 DEF ExpenseRows
<1>7. /\ expense' = [expense EXCEPT ![e] = row]
      /\ entries' = [entries EXCEPT ![o] = cell] /\ invoice' = invoice
  BY <1>2, <1>3, <1>5 DEF WriteApprovedExpense
<1>8. /\ cell \in [MoneyCategories -> Nat]
      /\ cell["SITE_EXPENSE"] = entries[o]["SITE_EXPENSE"] + a
      /\ cell["REVENUE"] = entries[o]["REVENUE"]
  <2>1. entries[o] \in [MoneyCategories -> Nat] /\ "SITE_EXPENSE" \in MoneyCategories
        /\ "REVENUE" \in MoneyCategories
    BY <1>3 DEF MoneyCategories
  <2>2. entries[o]["SITE_EXPENSE"] + a \in Nat
    BY <2>1
  <2> QED BY <2>1, <2>2
<1> HIDE DEF row, cell
<1>9. /\ expense' \in [ExpenseIds -> ExpenseRows]
      /\ \A x \in ExpenseIds : expense'[x] = IF x = e THEN row ELSE expense[x]
  BY <1>3, <1>6, <1>7
<1>10. /\ entries' \in [OrderIds -> [MoneyCategories -> Nat]]
       /\ \A p \in OrderIds : entries'[p] = IF p = o THEN cell ELSE entries[p]
  BY <1>3, <1>7, <1>8
<1>11. FinanceTypeOK'
  BY <1>3, <1>7, <1>9, <1>10 DEF FinanceTypeOK
<1>12. ClaimsGrounded'
  <2>1. ASSUME NEW t \in Sessions, req'[t].op = "approve_expense"
        PROVE  expense'[req'[t].expense].status # "absent"
    <3>1. req'[t] = req[t] /\ req[t] \in {Idle} \cup AllRequests
      BY <1>1, <2>1, Typed DEF Moves, Requesting
    <3>2. req[t].expense \in ExpenseIds /\ expense[req[t].expense].status # "absent"
      BY <2>1, <3>1, MoneyFields, SheetStands
    <3> QED BY <1>6, <1>9, <3>1, <3>2
  <2> QED BY <1>6, <1>9, <2>1, SheetStands DEF ClaimsGrounded
<1>13. ASSUME NEW p \in OrderIds
       PROVE  Covers(expense_total(p)', Claimed(p, "approved")', OwedClaims(req, p)', ExpenseIds)
  <2> DEFINE f == Claimed(p, "approved")  h == Claimed(p, "approved")'
             g == OwedClaims(req, p)  k == OwedClaims(req, p)'
             X == [x \in ExpenseIds |-> Approving(req, x)]
             Y == [x \in ExpenseIds |-> Approving(req', x)]
             total == expense_total(p)
  <2>1. X \in [ExpenseIds -> SUBSET Sessions] /\ Y \in [ExpenseIds -> SUBSET Sessions]
    BY DEF Approving
  <2>2. s \in X[e] /\ Y[e] = X[e] \ {s} /\ \A x \in ExpenseIds \ {e} : Y[x] = X[x]
    BY <1>1, <1>2, NoLongerApproving
  <2>3. \A x \in ExpenseIds :
            /\ f[x] \in Nat /\ f[x] = IF expense[x].project = p /\ expense[x].status = "approved"
                                      THEN expense[x].amount ELSE 0
            /\ g[x] = f[x] * Cardinality(X[x])
    BY <1>3, ClaimsTyped, OwedIs
  <2>4. \A x \in ExpenseIds :
            /\ h[x] = IF expense'[x].project = p /\ expense'[x].status = "approved"
                      THEN expense'[x].amount ELSE 0
            /\ k[x] = h[x] * Cardinality(Y[x])
    BY DEF Claimed, OwedClaims
  <2>5. Covers(total, f, g, ExpenseIds) /\ total \in Int
    BY SheetStands
  <2>6. total = entries[p]["SITE_EXPENSE"] /\ expense_total(p)' = entries'[p]["SITE_EXPENSE"]
    BY DEF expense_total
  <2> HIDE DEF f, g, h, k, X, Y, total
  <2>7. \A x \in ExpenseIds \ {e} : h[x] = f[x]
    BY <1>9, <2>3, <2>4
  <2>8. CASE p = o
    <3>1. f[e] \in {0, a} /\ h[e] = a
      BY <1>5, <1>6, <1>9, <2>3, <2>4, <2>8
    <3>2. /\ \A x \in ExpenseIds : f[x] \in Nat /\ g[x] = f[x] * Cardinality(X[x])
          /\ \A x \in ExpenseIds : h[x] \in Nat /\ k[x] = h[x] * Cardinality(Y[x])
          /\ \A x \in ExpenseIds \ {e} : h[x] = f[x] /\ Y[x] = X[x]
      BY <2>2, <2>3, <2>4, <2>7, <3>1
    <3>3. Posting(ExpenseIds, f, g, h, k, X, Y, e, a, s)
      BY <1>3, <2>1, <2>2, <3>1, <3>2 DEF Posting
    <3>5. Covers(total + a, h, k, ExpenseIds)
      BY <2>5, <3>3, PostCovers
    <3>4. expense_total(p)' = total + a
      BY <1>8, <1>10, <2>6, <2>8
    <3> QED BY <3>4, <3>5 DEF h, k
  <2>9. CASE p # o
    <3>1. h[e] = f[e]
      BY <1>5, <1>6, <1>9, <2>3, <2>4, <2>9
    <3>2. Covers(total, h, k, ExpenseIds)
      BY <1>3, <2>1, <2>2, <2>3, <2>4, <2>5, <2>7, <3>1, SameCovers
    <3>3. expense_total(p)' = total
      BY <1>10, <2>6, <2>9
    <3> QED BY <3>2, <3>3 DEF h, k
  <2> QED BY <2>8, <2>9
<1>14. ASSUME NEW p \in OrderIds
       PROVE  Covers(revenue_total(p)', Billed(p)', OwedInvoices(req, p)', InvoiceIds)
  <2>1. revenue_total(p)' = revenue_total(p)
    BY <1>8, <1>10 DEF revenue_total
  <2>2. Billed(p)' = Billed(p)
    BY <1>7 DEF Billed
  <2>3. OwedInvoices(req, p)' = OwedInvoices(req, p)
    <3>1. \A i \in InvoiceIds : Issuing(req', i) = Issuing(req, i)
      BY <1>1, NoLongerApproving
    <3> QED BY <2>2, <3>1 DEF OwedInvoices
  <2> QED BY <2>1, <2>2, <2>3, SheetStands
<1> QED BY <1>11, <1>12, <1>13, <1>14 DEF SheetShared

LEMMA WriteIssuedSheet ==
    ASSUME TypeOK, MoneyInv, NEW s \in Sessions, WriteIssued(s)
    PROVE  FinanceTypeOK' /\ SheetShared' /\ ClaimsGrounded'
<1>1. Moves(s, Idle) /\ Idle.op = "idle" /\ req[s].op = "issue"
  BY FinishMoves DEF WriteIssued
<1>2. PICK i \in InvoiceIds : i = req[s].invoice
  <2>1. req[s] \in {Idle} \cup AllRequests
    BY Typed DEF Requesting
  <2> QED BY <1>1, <2>1, MoneyFields
<1>3. /\ invoice \in [InvoiceIds -> InvoiceRows] /\ invoice[i] \in InvoiceRows
      /\ expense \in [ExpenseIds -> ExpenseRows]
      /\ entries \in [OrderIds -> [MoneyCategories -> Nat]]
      /\ IsFiniteSet(ExpenseIds) /\ IsFiniteSet(InvoiceIds)
  BY MoneyTypes
<1>4. PICK o \in OrderIds, a \in Nat : o = BilledTo[i] /\ a = invoice[i].amount
  BY <1>3, OfficeAssumption DEF InvoiceRows
<1> DEFINE row == [invoice[i] EXCEPT !.status = "issued"]
           cell == [entries[o] EXCEPT !["REVENUE"] = entries[o]["REVENUE"] + a]
<1>5. row \in InvoiceRows /\ row.status = "issued" /\ row.amount = a
  BY <1>3, <1>4 DEF InvoiceRows
<1>6. /\ invoice' = [invoice EXCEPT ![i] = row]
      /\ entries' = [entries EXCEPT ![o] = cell] /\ expense' = expense
  BY <1>2, <1>3, <1>4 DEF WriteIssued
<1>7. /\ cell \in [MoneyCategories -> Nat]
      /\ cell["REVENUE"] = entries[o]["REVENUE"] + a
      /\ cell["SITE_EXPENSE"] = entries[o]["SITE_EXPENSE"]
  <2>1. entries[o] \in [MoneyCategories -> Nat] /\ "SITE_EXPENSE" \in MoneyCategories
        /\ "REVENUE" \in MoneyCategories
    BY <1>3 DEF MoneyCategories
  <2>2. entries[o]["REVENUE"] + a \in Nat
    BY <2>1
  <2> QED BY <2>1, <2>2
<1> HIDE DEF row, cell
<1>8. /\ invoice' \in [InvoiceIds -> InvoiceRows]
      /\ \A x \in InvoiceIds : invoice'[x] = IF x = i THEN row ELSE invoice[x]
  BY <1>3, <1>5, <1>6
<1>9. /\ entries' \in [OrderIds -> [MoneyCategories -> Nat]]
      /\ \A p \in OrderIds : entries'[p] = IF p = o THEN cell ELSE entries[p]
  BY <1>3, <1>6, <1>7
<1>10. FinanceTypeOK'
  BY <1>3, <1>6, <1>8, <1>9 DEF FinanceTypeOK
<1>11. ClaimsGrounded'
  BY <1>1, <1>6, SheetStands DEF ClaimsGrounded, Moves
<1>12. ASSUME NEW p \in OrderIds
       PROVE  Covers(revenue_total(p)', Billed(p)', OwedInvoices(req, p)', InvoiceIds)
  <2> DEFINE f == Billed(p)  h == Billed(p)'
             g == OwedInvoices(req, p)  k == OwedInvoices(req, p)'
             X == [x \in InvoiceIds |-> Issuing(req, x)]
             Y == [x \in InvoiceIds |-> Issuing(req', x)]
             total == revenue_total(p)
  <2>1. X \in [InvoiceIds -> SUBSET Sessions] /\ Y \in [InvoiceIds -> SUBSET Sessions]
    BY DEF Issuing
  <2>2. s \in X[i] /\ Y[i] = X[i] \ {s} /\ \A x \in InvoiceIds \ {i} : Y[x] = X[x]
    BY <1>1, <1>2, NoLongerIssuing
  <2>3. \A x \in InvoiceIds :
            /\ f[x] \in Nat /\ f[x] = IF BilledTo[x] = p /\ invoice[x].status = "issued"
                                      THEN invoice[x].amount ELSE 0
            /\ g[x] = f[x] * Cardinality(X[x])
    BY <1>3, ClaimsTyped, OwedIs
  <2>4. \A x \in InvoiceIds :
            /\ h[x] = IF BilledTo[x] = p /\ invoice'[x].status = "issued"
                      THEN invoice'[x].amount ELSE 0
            /\ k[x] = h[x] * Cardinality(Y[x])
    BY DEF Billed, OwedInvoices
  <2>5. Covers(total, f, g, InvoiceIds) /\ total \in Int
    BY SheetStands
  <2>6. total = entries[p]["REVENUE"] /\ revenue_total(p)' = entries'[p]["REVENUE"]
    BY DEF revenue_total
  <2> HIDE DEF f, g, h, k, X, Y, total
  <2>7. \A x \in InvoiceIds \ {i} : h[x] = f[x]
    BY <1>8, <2>3, <2>4
  <2>8. CASE p = o
    <3>1. f[i] \in {0, a} /\ h[i] = a
      BY <1>4, <1>5, <1>8, <2>3, <2>4, <2>8
    <3>2. /\ \A x \in InvoiceIds : f[x] \in Nat /\ g[x] = f[x] * Cardinality(X[x])
          /\ \A x \in InvoiceIds : h[x] \in Nat /\ k[x] = h[x] * Cardinality(Y[x])
          /\ \A x \in InvoiceIds \ {i} : h[x] = f[x] /\ Y[x] = X[x]
      BY <2>2, <2>3, <2>4, <2>7, <3>1
    <3>3. Posting(InvoiceIds, f, g, h, k, X, Y, i, a, s)
      BY <1>3, <2>1, <2>2, <3>1, <3>2 DEF Posting
    <3>4. Covers(total + a, h, k, InvoiceIds)
      BY <2>5, <3>3, PostCovers
    <3>5. revenue_total(p)' = total + a
      BY <1>7, <1>9, <2>6, <2>8
    <3> QED BY <3>4, <3>5 DEF h, k
  <2>9. CASE p # o
    <3>1. h[i] = f[i]
      BY <1>4, <2>3, <2>4, <2>9
    <3>2. Covers(total, h, k, InvoiceIds)
      BY <1>3, <2>1, <2>2, <2>3, <2>4, <2>5, <2>7, <3>1, SameCovers
    <3>3. revenue_total(p)' = total
      BY <1>9, <2>6, <2>9
    <3> QED BY <3>2, <3>3 DEF h, k
  <2> QED BY <2>8, <2>9
<1>13. ASSUME NEW p \in OrderIds
       PROVE  Covers(expense_total(p)', Claimed(p, "approved")', OwedClaims(req, p)', ExpenseIds)
  <2>1. expense_total(p)' = expense_total(p)
    BY <1>7, <1>9 DEF expense_total
  <2>2. Claimed(p, "approved")' = Claimed(p, "approved")
    BY <1>6 DEF Claimed
  <2>3. OwedClaims(req, p)' = OwedClaims(req, p)
    <3>1. \A e \in ExpenseIds : Approving(req', e) = Approving(req, e)
      BY <1>1, NoLongerIssuing
    <3> QED BY <2>2, <3>1 DEF OwedClaims
  <2> QED BY <2>1, <2>2, <2>3, SheetStands
<1> QED BY <1>10, <1>11, <1>12, <1>13 DEF SheetShared

LEMMA MoneyWritesKept ==
    ASSUME TypeOK, MoneyInv, NEW s \in Sessions, WriteApprovedExpense(s) \/ WriteIssued(s)
    PROVE  MoneyKept
<1>1. Moves(s, Idle) /\ Idle.op = "idle"
  BY FinishMoves DEF WriteApprovedExpense, WriteIssued
<1>2. req' \in Requesting /\ Within(MoneyOps)
  BY <1>1 DEF Moves, Within
<1> QED BY <1>2, WriteApprovedExpenseSheet, WriteIssuedSheet DEF MoneyKept, MoneyInv

LEMMA MoneyNextInv ==
    ASSUME TypeOK, MoneyInv, FinanceNext
    PROVE  MoneyKept
<1>1. CASE \E e \in ExpenseIds, o \in OrderIds, n \in Amounts : SubmitExpense(e, o, n)
  BY <1>1, SubmitExpenseKept
<1>2. CASE \E s \in Sessions :
              (\E e \in ExpenseIds : BeginApproveExpense(s, e))
                  \/ (\E i \in InvoiceIds : BeginIssue(s, i))
  BY <1>2, MoneyBeginsKept
<1>3. CASE \E s \in Sessions : WriteApprovedExpense(s) \/ WriteIssued(s)
  BY <1>3, MoneyWritesKept
<1> QED BY <1>1, <1>2, <1>3 DEF FinanceNext

-----------------------------------------------------------------------------
(* The desks together.                                                     *)

\* A step leaves the desks it is not at alone.
LEMMA NextInv == Inv /\ [Next]_vars => Inv'
<1> SUFFICES ASSUME Inv, [Next]_vars PROVE Inv'
  OBVIOUS
<1>1. TypeOK /\ TradeInv /\ MoneyInv /\ SourcingInv /\ ApprovalsInv /\ AccountsInv
  BY DEF Inv
<1> DEFINE Trade == TradeInv' /\ SalesTypeOK' /\ ScheduleTypeOK'
           Money == MoneyInv' /\ FinanceTypeOK'
           Sourced == SourcingInv' /\ SourcingTypeOK'
           Approved == ApprovalsInv' /\ ApprovalsTypeOK'
<1>2. ASSUME req' \in Requesting, Trade, Money, Sourced, Approved, AccountsInv'
      PROVE  Inv'
  BY <1>2 DEF Inv, TypeOK, Requesting, AllRequests
<1>3. ASSUME req' \in Requesting, UNCHANGED <<sales, schedule>>,
             \A s \in Sessions : req'[s] = req[s] \/ req'[s].op \notin TradeOps
      PROVE  Trade
  BY <1>1, <1>3, TradeFrame DEF sales, schedule
<1>4. ASSUME req' \in Requesting, UNCHANGED money,
             \A s \in Sessions : req'[s] = req[s] \/ req'[s].op \notin MoneyOps
      PROVE  Money
  BY <1>1, <1>4, MoneyFrame DEF money
<1>5. ASSUME req' \in Requesting, UNCHANGED sourcing,
             \A s \in Sessions : req'[s] = req[s] \/ req'[s].op \notin SourcingOps
      PROVE  Sourced
  BY <1>1, <1>5, SourcingFrame DEF sourcing, SourcingOps
<1>6. ASSUME req' \in Requesting, UNCHANGED authority,
             \A s \in Sessions : req'[s] = req[s] \/ req'[s].op \notin ApprovalOps \cup AccountOps
      PROVE  Approved /\ AccountsInv'
  <2>1. AccountsInv'
    BY <1>1, <1>6, AccountsFrame DEF AccountOps
  <2>2. ApprovalsInv'
    BY <1>1, <1>6, ApprovalsFrame DEF authority, ApprovalOps
  <2>3. ApprovalsTypeOK'
    BY <1>1, <1>6 DEF authority, TypeOK, ApprovalsTypeOK
  <2> QED BY <2>1, <2>2, <2>3
<1>7. TradeOps \cap (MoneyOps \cup SourcingOps \cup ApprovalOps \cup AccountOps \cup {"idle"}) = {}
  BY DEF TradeOps, MoneyOps, SourcingOps, ApprovalOps, AccountOps
<1>8. MoneyOps \cap (TradeOps \cup SourcingOps \cup ApprovalOps \cup AccountOps \cup {"idle"}) = {}
  BY DEF TradeOps, MoneyOps, SourcingOps, ApprovalOps, AccountOps
<1>9. SourcingOps \cap (TradeOps \cup MoneyOps \cup ApprovalOps \cup AccountOps \cup {"idle"}) = {}
  BY DEF TradeOps, MoneyOps, SourcingOps, ApprovalOps, AccountOps
<1>10. (ApprovalOps \cup AccountOps) \cap (TradeOps \cup MoneyOps \cup SourcingOps \cup {"idle"}) = {}
  BY DEF TradeOps, MoneyOps, SourcingOps, ApprovalOps, AccountOps
<1> HIDE DEF Trade, Money, Sourced, Approved
<1>11. CASE (SalesNext /\ UNCHANGED <<schedule, money, sourcing, authority>>)
              \/ (ScheduleNext /\ UNCHANGED <<money, sourcing, authority>>)
  <2>1. TradeKept
    BY <1>1, <1>11, TradeNextInv
  <2>2. req' \in Requesting /\ Trade /\ Within(TradeOps)
    BY <2>1 DEF TradeKept, Trade
  <2>3. UNCHANGED money /\ UNCHANGED sourcing /\ UNCHANGED authority
    BY <1>11
  <2>4. Money /\ Sourced /\ Approved /\ AccountsInv'
    BY <1>4, <1>5, <1>6, <1>8, <1>9, <1>10, <2>2, <2>3 DEF Within
  <2> QED BY <1>2, <2>2, <2>4
<1>12. CASE FinanceNext /\ UNCHANGED <<sales, schedule, sourcing, authority>>
  <2>1. MoneyKept
    BY <1>1, <1>12, MoneyNextInv
  <2>2. req' \in Requesting /\ Money /\ Within(MoneyOps)
    BY <2>1 DEF MoneyKept, Money
  <2>3. UNCHANGED <<sales, schedule>> /\ UNCHANGED sourcing /\ UNCHANGED authority
    BY <1>12
  <2>4. Trade /\ Sourced /\ Approved /\ AccountsInv'
    BY <1>3, <1>5, <1>6, <1>7, <1>9, <1>10, <2>2, <2>3 DEF Within
  <2> QED BY <1>2, <2>2, <2>4
<1>13. CASE SourcingNext /\ UNCHANGED <<sales, schedule, money, authority>>
  <2>1. req' \in Requesting /\ Sourced /\ Within(SourcingOps)
    BY <1>1, <1>13, SourcingNextInv DEF Sourced
  <2>2. UNCHANGED <<sales, schedule>> /\ UNCHANGED money /\ UNCHANGED authority
    BY <1>13
  <2>3. Trade /\ Money /\ Approved /\ AccountsInv'
    BY <1>3, <1>4, <1>6, <1>7, <1>8, <1>10, <2>1, <2>2 DEF Within
  <2> QED BY <1>2, <2>1, <2>3
<1>14. CASE (ApprovalsNext \/ AdministrationNext) /\ UNCHANGED <<sales, schedule, money, sourcing>>
  <2>1. /\ req' \in Requesting /\ Approved /\ AccountsInv'
        /\ Within(ApprovalOps) \/ Within(AccountOps)
    BY <1>1, <1>14, ApprovalsNextInv, AdministrationNextInv DEF Approved
  <2>2. UNCHANGED <<sales, schedule>> /\ UNCHANGED money /\ UNCHANGED sourcing
    BY <1>14
  <2>3. Trade /\ Money /\ Sourced
    BY <1>3, <1>4, <1>5, <1>7, <1>8, <1>9, <2>1, <2>2 DEF Within
  <2> QED BY <1>2, <2>1, <2>3
<1>15. ASSUME req' \in Requesting, UNCHANGED <<sales, schedule, money, sourcing, authority>>,
              Within({})
       PROVE  Inv'
  <2>1. UNCHANGED <<sales, schedule>> /\ UNCHANGED money /\ UNCHANGED sourcing
        /\ UNCHANGED authority
    BY <1>15
  <2>2. Trade /\ Money /\ Sourced /\ Approved /\ AccountsInv'
    BY <1>3, <1>4, <1>5, <1>6, <1>7, <1>8, <1>9, <1>10, <1>15, <2>1 DEF Within
  <2> QED BY <1>2, <1>15, <2>2
<1>16. CASE \E s \in Sessions :
              Rollback(s) /\ UNCHANGED <<sales, schedule, money, sourcing, authority>>
  <2>1. PICK s \in Sessions :
          Rollback(s) /\ UNCHANGED <<sales, schedule, money, sourcing, authority>>
    BY <1>16
  <2>2. Moves(s, Idle) /\ Idle.op = "idle"
    BY <1>1, <2>1, FinishMoves DEF Rollback
  <2>3. req' \in Requesting /\ Within({})
    BY <2>2 DEF Moves, Within
  <2> QED BY <1>15, <2>1, <2>3
<1>17. CASE UNCHANGED vars
  <2>1. req' \in Requesting /\ Within({})
    BY <1>1, <1>17, Typed DEF vars, Within
  <2> QED BY <1>15, <1>17, <2>1 DEF vars
<1> QED BY <1>11, <1>12, <1>13, <1>14, <1>16, <1>17 DEF Next

-----------------------------------------------------------------------------
(* The beginning.                                                          *)

LEMMA SheetEmpty ==
    ASSUME Init
    PROVE  SheetShared
<1> SUFFICES ASSUME NEW o \in OrderIds
             PROVE  /\ Covers(expense_total(o), Claimed(o, "approved"), OwedClaims(req, o), ExpenseIds)
                    /\ Covers(revenue_total(o), Billed(o), OwedInvoices(req, o), InvoiceIds)
  BY DEF SheetShared
<1>1. IsFiniteSet(ExpenseIds) /\ IsFiniteSet(InvoiceIds) /\ IsFiniteSet(Sessions)
  BY OfficeAssumption
<1>2. /\ \A e \in ExpenseIds : Claimed(o, "approved")[e] = 0
      /\ \A i \in InvoiceIds : Billed(o)[i] = 0
  BY DEF Init, FinanceInit, NoExpense, Claimed, Billed
<1>3. \A q, e : Cardinality(Approving(q, e)) \in Nat /\ Cardinality(Issuing(q, e)) \in Nat
  <2>1. \A q, e : IsFiniteSet(Approving(q, e)) /\ IsFiniteSet(Issuing(q, e))
    <3>1. \A q, e : Approving(q, e) \subseteq Sessions /\ Issuing(q, e) \subseteq Sessions
      BY DEF Approving, Issuing
    <3> QED BY <1>1, <3>1, FS_Subset
  <2> QED BY <2>1, FS_CardinalityType
<1>4. \A n \in Nat : 0 * n = 0
  OBVIOUS
<1>5. /\ \A e \in ExpenseIds : OwedClaims(req, o)[e] = 0
      /\ \A i \in InvoiceIds : OwedInvoices(req, o)[i] = 0
  BY <1>2, <1>3, <1>4 DEF OwedClaims, OwedInvoices
<1>6. /\ SumFunctionOnSet(Claimed(o, "approved"), ExpenseIds) = 0
      /\ SumFunctionOnSet(OwedClaims(req, o), ExpenseIds) = 0
      /\ SumFunctionOnSet(Billed(o), InvoiceIds) = 0
      /\ SumFunctionOnSet(OwedInvoices(req, o), InvoiceIds) = 0
  BY <1>1, <1>2, <1>5, SumZero
<1>7. expense_total(o) = 0 /\ revenue_total(o) = 0
  BY DEF Init, FinanceInit, MoneyCategories, expense_total, revenue_total
<1>8. N \in Nat
  BY <1>1, FS_CardinalityType DEF N
<1>9. N * 0 = 0
  BY <1>8
<1> QED BY <1>6, <1>7, <1>9 DEF Covers

LEMMA InitInv == Init => Inv
<1> SUFFICES ASSUME Init PROVE Inv
  OBVIOUS
<1>1. \A s \in Sessions : req[s] = Idle /\ req[s].op = "idle"
  BY DEF Init, NoRequests, Idle
<1>2. TypeOK
  <2>1. req \in [Sessions -> {Idle}]
    BY DEF Init, NoRequests
  <2>2. SalesTypeOK
    BY OfficeAssumption DEF Init, SalesInit, SalesTypeOK, NewOrder, OrderRows
  <2>3. ScheduleTypeOK
    BY OfficeAssumption DEF Init, ScheduleInit, ScheduleTypeOK, NoProject, ProjectRows,
                            NoPhase, PhaseRows
  <2>4. FinanceTypeOK
    BY OfficeAssumption DEF Init, FinanceInit, FinanceTypeOK, NoExpense, ExpenseRows,
                            InvoiceRows, MoneyCategories
  <2>5. SourcingTypeOK
    BY OfficeAssumption DEF Init, SourcingInit, SourcingTypeOK, NoNeed, NeedRows, NoRfq,
                            RfqRows, NoAward, AwardRows
  <2>6. ApprovalsTypeOK
    BY OfficeAssumption DEF Init, ApprovalsInit, ApprovalsTypeOK, NoApproval, ApprovalRows,
                            AccountRows
  <2> QED BY <2>1, <2>2, <2>3, <2>4, <2>5, <2>6 DEF TypeOK
<1>3. OrdersInv
  <2>1. CopiesGiven
    BY <1>1 DEF CopiesGiven
  <2>2. ASSUME NEW o \in OrderIds PROVE SumFunction(Additions(o)) = 0
    <3>1. \A d \in Int : d * 0 = 0
      OBVIOUS
    <3>2. DOMAIN Additions(o) = ChangeIds /\ \A c \in ChangeIds : Additions(o)[c] = 0
      BY <3>1, OfficeAssumption DEF Init, SalesInit, Additions
    <3> QED BY <3>2, OfficeAssumption, SumZero DEF SumFunction
  <2> QED BY <2>1, <2>2 DEF OrdersInv, HandedOver, Init, SalesInit, ScheduleInit, NewOrder, NoProject
<1>4. PlansInv
  <2>1. PlansGrounded
    BY <1>1, OfficeAssumption DEF PlansGrounded, Init, ScheduleInit, NoPhase
  <2>2. PhasesBelowCommitment
    BY OfficeAssumption DEF PhasesBelowCommitment, Init, ScheduleInit, NoPhase
  <2> QED BY <2>1, <2>2 DEF PlansInv
<1>5. MoneyInv
  BY <1>1, SheetEmpty DEF MoneyInv, ClaimsGrounded, Init, FinanceInit, NoExpense
<1>6. SourcingInv
  BY <1>1 DEF SourcingInv, SourcingGrounded, AwardsRestOnProcess, Init, SourcingInit,
              NoNeed, NoRfq
<1>7. ApprovalsInv
  BY <1>1 DEF ApprovalsInv, ApprovalsGrounded, LockKeepsTerms, Stands, Asked, Init, ApprovalsInit,
              NoApproval
<1>8. AccountsInv
  BY <1>1 DEF AccountsInv
<1> QED BY <1>2, <1>3, <1>4, <1>5, <1>6, <1>7, <1>8 DEF Inv, TradeInv

LEMMA InvHolds == Spec => []Inv
<1> QED BY InitInv, NextInv, PTL DEF Spec

-----------------------------------------------------------------------------
(* What the desks keep.                                                    *)

(* Orders, projects, phases, money, requests, RFQs, awards, documents and  *)
(* accounts stay what their rows can hold.                                 *)
THEOREM OfficeTyped == Spec => []TypeOK
<1>1. Inv => TypeOK
  BY DEF Inv
<1> QED BY <1>1, InvHolds, PTL

(* An order leaves the gate, and its project appears, by one announced     *)
(* approval, with dates somebody gave and a price no higher than the       *)
(* change orders applied explain, for any number of overlapping pages.     *)
THEOREM NothingMadeUp == Spec => []HandedOver
<1>1. Inv => HandedOver
  BY DEF Inv, TradeInv, OrdersInv
<1> QED BY <1>1, InvHolds, PTL

(* No phase ends after the committed date, however plans that read an old  *)
(* ceiling race with extensions, as long as no extension is written over a *)
(* date other than the one it extends.                                     *)
THEOREM PlansStayBelow == Spec => []PhasesBelowCommitment
<1>1. Inv => PhasesBelowCommitment
  BY DEF Inv, TradeInv, PlansInv
<1> QED BY <1>1, InvHolds, PTL

\* What the sums of a sheet say when nothing is owed less than nothing.
LEMMA SettledPosted ==
    ASSUME NEW total \in Int, NEW settled, NEW owed, NEW S, IsFiniteSet(S),
           \A x \in S : settled[x] \in Nat /\ owed[x] \in Nat,
           Covers(total, settled, owed, S)
    PROVE  Posted(total, SumFunctionOnSet(settled, S))
<1>1. SumFunctionOnSet(settled, S) \in Nat /\ SumFunctionOnSet(owed, S) \in Nat
  BY SumType
<1>2. Cardinality(Sessions) \in Nat
  BY OfficeAssumption, FS_CardinalityType
<1>3. \A t \in Int : \A a, b, c \in Nat : a <= t /\ t + b <= c * a => a <= t /\ t <= a * c
  <2>1. \A a, c \in Nat : c * a = a * c
    OBVIOUS
  <2>2. \A t, x \in Int : \A b \in Nat : t + b <= x => t <= x
    OBVIOUS
  <2>3. \A a, c \in Nat : a * c \in Int
    OBVIOUS
  <2> QED BY <2>1, <2>2, <2>3
<1>4. Posted(total, SumFunctionOnSet(settled, S)) <=>
        /\ SumFunctionOnSet(settled, S) <= total
        /\ total <= SumFunctionOnSet(settled, S) * Cardinality(Sessions)
  BY DEF Posted
<1>5. /\ SumFunctionOnSet(settled, S) <= total
      /\ total + SumFunctionOnSet(owed, S) <= Cardinality(Sessions) * SumFunctionOnSet(settled, S)
  BY DEF Covers, N
<1> QED BY <1>1, <1>2, <1>3, <1>4, <1>5

(* Every settled claim and invoice is in the ledger at least once, and no  *)
(* more often than there are sessions that may have read it as open: each  *)
(* approval that is under way can add at most one posting of its own.      *)
THEOREM SheetStaysCovered == Spec => []SheetCoversClaims
<1>1. ASSUME Inv PROVE SheetCoversClaims
  <2> SUFFICES ASSUME NEW o \in OrderIds
               PROVE  /\ Posted(expense_total(o), expense_breakdown(o))
                      /\ Posted(revenue_total(o), IssuedTo(o))
    BY DEF SheetCoversClaims
  <2>1. /\ Covers(expense_total(o), Claimed(o, "approved"), OwedClaims(req, o), ExpenseIds)
        /\ Covers(revenue_total(o), Billed(o), OwedInvoices(req, o), InvoiceIds)
    BY <1>1 DEF Inv, MoneyInv, SheetShared
  <2>2. /\ \A e \in ExpenseIds : Claimed(o, "approved")[e] \in Nat
        /\ \A i \in InvoiceIds : Billed(o)[i] \in Nat
        /\ expense_total(o) \in Int /\ revenue_total(o) \in Int
    BY <1>1 DEF Inv, TypeOK, FinanceTypeOK, ExpenseRows, InvoiceRows, MoneyCategories,
                Claimed, Billed, expense_total, revenue_total
  <2>3. \A q, e : Cardinality(Approving(q, e)) \in Nat /\ Cardinality(Issuing(q, e)) \in Nat
    <3>1. \A q, e : Approving(q, e) \subseteq Sessions /\ Issuing(q, e) \subseteq Sessions
      BY DEF Approving, Issuing
    <3>2. \A q, e : IsFiniteSet(Approving(q, e)) /\ IsFiniteSet(Issuing(q, e))
      BY <3>1, OfficeAssumption, FS_Subset
    <3> QED BY <3>2, FS_CardinalityType
  <2>4. \A a, b \in Nat : a * b \in Nat
    BY SMT
  <2>5. /\ \A e \in ExpenseIds : OwedClaims(req, o)[e] \in Nat
        /\ \A i \in InvoiceIds : OwedInvoices(req, o)[i] \in Nat
    BY <2>2, <2>3, <2>4 DEF OwedClaims, OwedInvoices
  <2>6. /\ expense_breakdown(o) = SumFunctionOnSet(Claimed(o, "approved"), ExpenseIds)
        /\ IssuedTo(o) = SumFunctionOnSet(Billed(o), InvoiceIds)
    BY DEF expense_breakdown, IssuedTo, SumFunction, Claimed, Billed
  <2>7. IsFiniteSet(ExpenseIds) /\ IsFiniteSet(InvoiceIds)
    BY OfficeAssumption
  <2>8. Posted(expense_total(o), SumFunctionOnSet(Claimed(o, "approved"), ExpenseIds))
    BY <2>1, <2>2, <2>5, <2>7, SettledPosted
  <2>9. Posted(revenue_total(o), SumFunctionOnSet(Billed(o), InvoiceIds))
    BY <2>1, <2>2, <2>5, <2>7, SettledPosted
  <2> QED BY <2>6, <2>8, <2>9
<1> QED BY <1>1, InvHolds, PTL

(* Every award rests on a request that was approved and announced, or that *)
(* the works made, and on enough answers or a reason recorded for fewer,   *)
(* whatever is held, waived or quoted again while it is made.              *)
THEOREM AwardsStayGrounded == Spec => []AwardsRestOnProcess
<1>1. Inv => AwardsRestOnProcess
  BY DEF Inv, SourcingInv
<1> QED BY <1>1, InvHolds, PTL

(* A locked document rests on approvals each of which was given, and says  *)
(* what it said when it was locked unless an override is on record, or a   *)
(* save that looked before the lock came has written over it since.        *)
THEOREM LocksKeepTerms == Spec => []LockKeepsTerms
<1>1. Inv => LockKeepsTerms
  BY DEF Inv, ApprovalsInv
<1> QED BY <1>1, InvHolds, PTL

(* The last administrator is lost only to a request whose author is not    *)
(* one any more; nobody can remove themselves.                             *)
THEOREM LastAdministrator == Spec => AdministratorsRemain
<1>1. ASSUME Inv, [Next]_vars
      PROVE  [ Administrators # {} /\ Administrators' = {} =>
                 \E s \in Sessions :
                     req[s] # Idle /\ req'[s] = Idle /\ req[s].by \notin Administrators
             ]_<<req, account>>
  BY <1>1, AdministratorsStep DEF Inv
<1> QED BY <1>1, InvHolds, PTL DEF Spec, AdministratorsRemain
=============================================================================
