------------------------------ MODULE Approvals ------------------------------
(***************************************************************************)
(* The approval engine and the record lock (platform_core/services/        *)
(* approvals.py, platform_core/models/approval.py), and the accounts and   *)
(* roles it asks about (accounts/models.py, ui/views_admin.py).            *)
(*                                                                         *)
(* A document is a row with terms, saved with every column of the copy     *)
(* that was edited.  Left out: QuerySet.update, by which no code changes   *)
(* the terms of one, and the saves of nothing but its lifecycle columns,   *)
(* which the lock does not concern.  The pages of the administration run   *)
(* without a transaction; each of their writes stands alone.               *)
(***************************************************************************)
EXTENDS Requests, Integers, FiniteSets

CONSTANTS
    Documents,
    Terms,          \* what a document can say
    ApprovalRules,
    RequiredRole,   \* the role each rule requires,
    Threshold,      \* and the value above which it applies, or None
    Value,          \* of each document
    None,
    MaxRounds,      \* bound: how often approval of a document is requested
    Users,
    FirstAdministrator,
    Roles,
    Capabilities

VARIABLES
    document,   \* the rows of an Approvable
    approval,   \* the ApprovalRequest rows, by document, rule and round
    account,    \* the AppUser rows and their UserRoles
    role        \* the capabilities of the Role rows, None for no such role

authority == <<document, approval, account, role>>

\* lockedTerms, restsOn: the terms and the requests when it was locked;
\* overridden: an AdminOverride is on record since; raced: a copy has been
\* saved over the lock since, by a save that looked before it came.
DocumentRows ==
    [terms : Terms, locked : BOOLEAN, lockedTerms : Terms \cup {None},
     restsOn : SUBSET (ApprovalRules \X (1 .. MaxRounds)), overridden : BOOLEAN,
     raced : BOOLEAN, rounds : 0 .. MaxRounds]

\* signed: one of its ApprovalActions, which are only ever added to, approves.
NoApproval == [status |-> "absent", signed |-> FALSE]
ApprovalRows ==
    [status : {"absent", "pending", "approved", "rejected", "sent_back"},
     signed : BOOLEAN]

AccountRows ==
    [exists : BOOLEAN, active : BOOLEAN, administrator : BOOLEAN, roles : SUBSET Roles]

ApprovalsInit ==
    /\ document \in [Documents -> {r \in DocumentRows :
           r.rounds = 0 /\ ~r.locked /\ r.lockedTerms = None /\ r.restsOn = {} /\ ~r.overridden
           /\ ~r.raced}]
    /\ approval = [d \in Documents |-> [r \in ApprovalRules |->
           [n \in 1 .. MaxRounds |-> NoApproval]]]
    /\ account = [u \in Users |->
           [exists |-> u = FirstAdministrator, active |-> TRUE,
            administrator |-> u = FirstAdministrator, roles |-> {}]]
    /\ role = [r \in Roles |-> {}]

ApprovalRequests ==
    [op : {"act"}, document : Documents, rule : ApprovalRules, round : 1 .. MaxRounds,
     action : {"approved", "rejected", "sent_back"}]
    \cup [op : {"finalize"}, document : Documents,
          restsOn : SUBSET (ApprovalRules \X (1 .. MaxRounds))]
    \cup [op : {"edit"}, document : Documents, terms : Terms, locked : BOOLEAN,
          override : BOOLEAN, found : {"unread", "unlocked", "locked"}]
    \cup [op : {"set_active", "set_administrator"}, by : Users, user : Users, to : BOOLEAN]
    \cup [op : {"set_roles"}, user : Users, chosen : SUBSET Roles, dropped : BOOLEAN]
    \cup [op : {"delete_role"}, role : Roles]

-----------------------------------------------------------------------------
(* AppUser and the gates in front of every page and action.                *)
capabilities(u) == UNION {role[r] : r \in account[u].roles}

has_capability(u, c) == account[u].administrator \/ c \in capabilities(u)

requires(u, c) == account[u].exists /\ account[u].active /\ has_capability(u, c)

user_holds_role(u, r) == account[u].administrator \/ r \in account[u].roles

-----------------------------------------------------------------------------
applies_to(r, d) == Threshold[r] = None \/ Value[d] > Threshold[r]

applicable_rules(d) == {r \in ApprovalRules : applies_to(r, d)}

RequestApproval(d) ==
    /\ document[d].rounds < MaxRounds
    /\ document' = [document EXCEPT ![d].rounds = @ + 1]
    /\ approval' = [approval EXCEPT ![d] = [r \in ApprovalRules |->
           IF r \in applicable_rules(d)
           THEN [@[r] EXCEPT ![document[d].rounds + 1].status = "pending"]
           ELSE @[r]]]
    /\ UNCHANGED <<req, account, role>>

BeginAct(s, u, d, r, n, action) ==
    /\ approval[d][r][n].status = "pending"
    /\ user_holds_role(u, RequiredRole[r])
    /\ Begin(s, [op |-> "act", document |-> d, rule |-> r, round |-> n, action |-> action])
    /\ UNCHANGED authority

\* Two decisions on what was pending are both recorded; the later one stays.
WriteAct(s) ==
    /\ req[s].op = "act"
    /\ approval' = [approval EXCEPT ![req[s].document][req[s].rule][req[s].round] =
           [status |-> req[s].action, signed |-> @.signed \/ req[s].action = "approved"]]
    /\ Finish(s)
    /\ UNCHANGED <<document, account, role>>

Opened(d) ==
    {x \in ApprovalRules \X (1 .. MaxRounds) : approval[d][x[1]][x[2]] # NoApproval}

\* Mutant: a request that is no longer pending will do.
Mutis_fully_approved(d) ==
    /\ Opened(d) # {}
    /\ \A x \in Opened(d) : approval[d][x[1]][x[2]].status # "pending"

is_fully_approved(d) ==
    /\ Opened(d) # {}
    /\ \A x \in Opened(d) : approval[d][x[1]][x[2]].status = "approved"

BeginFinalize(s, d) ==
    /\ is_fully_approved(d)
    /\ Begin(s, [op |-> "finalize", document |-> d, restsOn |-> Opened(d)])
    /\ UNCHANGED authority

(* lock writes its own columns only.                                       *)
WriteLock(s) ==
    /\ req[s].op = "finalize"
    /\ LET d == req[s].document
       IN  document' = [document EXCEPT
               ![d].locked = TRUE, ![d].lockedTerms = document[d].terms,
               ![d].restsOn = req[s].restsOn, ![d].overridden = FALSE, ![d].raced = FALSE]
    /\ Finish(s)
    /\ UNCHANGED <<approval, account, role>>

(* A copy is read, locked or not, and edited.  An Override, should the     *)
(* save need one, takes an administrator.                                  *)
BeginEdit(s, d, terms, override) ==
    /\ override => \E u \in Users : account[u].administrator
    /\ Begin(s, [op |-> "edit", document |-> d, terms |-> terms,
                 locked |-> document[d].locked, override |-> override, found |-> "unread"])
    /\ UNCHANGED authority

(* Approvable.save looks at the stored row; if that is locked and there is *)
(* no Override, it refuses.  An Override that is not needed is not used.   *)
LookEdit(s) ==
    /\ req[s].op = "edit" /\ req[s].found = "unread"
    /\ LET locked == document[req[s].document].locked
       IN  /\ locked => req[s].override
           /\ req' = [req EXCEPT ![s].found = IF locked THEN "locked" ELSE "unlocked",
                                 ![s].override = @ /\ locked]
    /\ UNCHANGED authority

(* It then saves the copy, and with it whether the copy was locked.        *)
WriteEdit(s) ==
    /\ req[s].op = "edit" /\ req[s].found # "unread"
    /\ LET d == req[s].document
       IN  document' = [document EXCEPT
               ![d].terms = req[s].terms,
               ![d].locked = req[s].locked,
               ![d].overridden = @ \/ req[s].override,
               ![d].raced = @ \/ (document[d].locked /\ req[s].found = "unlocked")]
    /\ Finish(s)
    /\ UNCHANGED <<approval, account, role>>

ApprovalsNext ==
    \/ \E d \in Documents :
        \/ RequestApproval(d)
        \/ \E s \in Sessions :
            \/ \E u \in Users, r \in ApprovalRules, n \in 1 .. MaxRounds,
                  action \in {"approved", "rejected", "sent_back"} :
                BeginAct(s, u, d, r, n, action)
            \/ BeginFinalize(s, d)
            \/ \E terms \in Terms, override \in BOOLEAN : BeginEdit(s, d, terms, override)
    \/ \E s \in Sessions : WriteAct(s) \/ WriteLock(s) \/ LookEdit(s) \/ WriteEdit(s)

-----------------------------------------------------------------------------
(* The administration pages, all behind admin:manage.                      *)
Manages(u) == requires(u, "admin:manage")

CreateUser(by, u) ==
    /\ Manages(by)
    /\ ~account[u].exists
    /\ account' = [account EXCEPT ![u].exists = TRUE]
    /\ UNCHANGED <<req, document, approval, role>>

CreateRole(by, r) ==
    /\ Manages(by)
    /\ role[r] = None
    /\ role' = [role EXCEPT ![r] = {}]
    /\ UNCHANGED <<req, document, approval, account>>

SetCapabilities(by, r, selected) ==
    /\ Manages(by)
    /\ role[r] # None
    /\ role' = [role EXCEPT ![r] = selected]
    /\ UNCHANGED <<req, document, approval, account>>

BeginDeleteRole(s, by, r) ==
    /\ Manages(by)
    /\ role[r] # None
    /\ \A u \in Users : r \notin account[u].roles
    /\ Begin(s, [op |-> "delete_role", role |-> r])
    /\ UNCHANGED authority

\* UserRole rows go with the role; a rule that requires it protects it.
WriteRoleDeleted(s) ==
    /\ req[s].op = "delete_role"
    /\ \A x \in ApprovalRules : RequiredRole[x] # req[s].role
    /\ role' = [role EXCEPT ![req[s].role] = None]
    /\ account' = [u \in Users |-> [account[u] EXCEPT !.roles = @ \ {req[s].role}]]
    /\ Finish(s)
    /\ UNCHANGED <<document, approval>>

BeginSetRoles(s, by, u, chosen) ==
    /\ Manages(by)
    /\ account[u].exists
    /\ Begin(s, [op |-> "set_roles", user |-> u, chosen |-> chosen, dropped |-> FALSE])
    /\ UNCHANGED authority

(* What was not chosen is deleted, and then what was chosen is added, role *)
(* by role, each a write of its own: if the process ends in between, what  *)
(* has been written stays.  chosen: what is still to be added.             *)
DropRoles(s) ==
    /\ req[s].op = "set_roles" /\ ~req[s].dropped
    /\ account' = [account EXCEPT ![req[s].user].roles = @ \cap req[s].chosen]
    /\ IF req[s].chosen = {} THEN Finish(s) ELSE req' = [req EXCEPT ![s].dropped = TRUE]
    /\ UNCHANGED <<document, approval, role>>

AddRole(s, r) ==
    /\ req[s].op = "set_roles" /\ req[s].dropped
    /\ r \in req[s].chosen
    /\ role[r] # None
    /\ account' = [account EXCEPT ![req[s].user].roles = @ \cup {r}]
    /\ IF req[s].chosen = {r} THEN Finish(s) ELSE req' = [req EXCEPT ![s].chosen = @ \ {r}]
    /\ UNCHANGED <<document, approval, role>>

BeginSetActive(s, by, u) ==
    /\ Manages(by)
    /\ account[u].exists
    /\ u # by
    /\ Begin(s, [op |-> "set_active", by |-> by, user |-> u, to |-> ~account[u].active])
    /\ UNCHANGED authority

\* Mutant: administrators may give up their own rights.
MutBeginSetAdministrator(s, by, u) ==
    /\ Manages(by)
    /\ account[u].exists
    /\ Begin(s, [op |-> "set_administrator", by |-> by, user |-> u,
                 to |-> ~account[u].administrator])
    /\ UNCHANGED authority

BeginSetAdministrator(s, by, u) ==
    /\ Manages(by)
    /\ account[u].exists
    /\ ~(u = by /\ account[u].administrator)
    /\ Begin(s, [op |-> "set_administrator", by |-> by, user |-> u,
                 to |-> ~account[u].administrator])
    /\ UNCHANGED authority

WriteAccount(s) ==
    /\ \/ /\ req[s].op = "set_active"
          /\ account' = [account EXCEPT ![req[s].user].active = req[s].to]
       \/ /\ req[s].op = "set_administrator"
          /\ account' = [account EXCEPT ![req[s].user].administrator = req[s].to]
    /\ Finish(s)
    /\ UNCHANGED <<document, approval, role>>

AdministrationNext ==
    \E s \in Sessions, by \in Users :
        \/ \E u \in Users :
            \/ CreateUser(by, u)
            \/ \E chosen \in SUBSET Roles : BeginSetRoles(s, by, u, chosen)
            \/ BeginSetActive(s, by, u)
            \/ BeginSetAdministrator(s, by, u)
        \/ \E r \in Roles :
            \/ CreateRole(by, r)
            \/ \E selected \in SUBSET Capabilities : SetCapabilities(by, r, selected)
            \/ BeginDeleteRole(s, by, r)
            \/ AddRole(s, r)
        \/ DropRoles(s)
        \/ WriteRoleDeleted(s)
        \/ WriteAccount(s)

-----------------------------------------------------------------------------
ApprovalsTypeOK ==
    /\ document \in [Documents -> DocumentRows]
    /\ approval \in [Documents -> [ApprovalRules -> [1 .. MaxRounds -> ApprovalRows]]]
    /\ account \in [Users -> AccountRows]
    /\ role \in [Roles -> {None} \cup (SUBSET Capabilities)]

(* A locked document rests on requests each of which somebody approved,    *)
(* however many decisions raced on it, and says what it said when it was   *)
(* locked, unless an override is on record, or a save that looked before   *)
(* the lock came has written over it: by that alone may a document become  *)
(* unlocked, or be locked again by a copy, with other terms.               *)
LockKeepsTerms ==
    \A d \in Documents : document[d].locked =>
        /\ document[d].restsOn # {}
        /\ \A x \in document[d].restsOn : approval[d][x[1]][x[2]].signed
        /\ \/ document[d].terms = document[d].lockedTerms
           \/ document[d].overridden \/ document[d].raced

Administrators == {u \in Users : account[u].exists /\ account[u].active /\ account[u].administrator}

(* The last administrator can be lost only through a request whose author  *)
(* is not one any more: two of them that remove each other at once, or     *)
(* somebody who holds admin:manage by a role.                              *)
AdministratorsRemain ==
    [][ Administrators # {} /\ Administrators' = {} =>
          \E s \in Sessions :
              req[s] # Idle /\ req'[s] = Idle /\ req[s].by \notin Administrators
      ]_<<req, account>>
=============================================================================
