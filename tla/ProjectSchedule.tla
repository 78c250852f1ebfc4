-------------------------- MODULE ProjectSchedule ----------------------------
(***************************************************************************)
(* The project a kicked-off order becomes, and its master schedule:        *)
(* projects/services.py and the project page (ui/views.py).  An order has  *)
(* one project, so a project goes by the name of its order.                *)
(*                                                                         *)
(* The ceiling on planning is a column of the project, read before and     *)
(* written without a lock.  The records of who moved a phase and of which  *)
(* extension the client agreed to are left out.                            *)
(***************************************************************************)
EXTENDS SalesOrders, Functions

CONSTANT PhaseIds

VARIABLES
    project,    \* the Project rows
    phase       \* the SchedulePhase rows

\* first: the date it was created with; overtaken: an extension has been
\* written over a date other than the one it extends; lots: those of the
\* order that belong to it.
ProjectRows ==
    [exists : BOOLEAN, first : 0 .. LastDate, committed : 0 .. LastDate,
     overtaken : BOOLEAN, lots : Nat]

NoProject == [exists |-> FALSE, first |-> 0, committed |-> 0, overtaken |-> FALSE, lots |-> 0]

NoPhase == [project |-> "none", ends |-> 0]
PhaseRows == [project : OrderIds \cup {"none"}, ends : 0 .. LastDate]

ScheduleInit ==
    /\ project = [o \in OrderIds |-> NoProject]
    /\ phase = [ph \in PhaseIds |-> NoPhase]

ScheduleRequests ==
    [op : {"initiate", "plan"}, order : OrderIds, date : 0 .. LastDate]
    \cup [op : {"extend"}, order : OrderIds, date : Dates, previous : 0 .. LastDate]
    \cup [op : {"reschedule"}, phase : PhaseIds, date : Dates]

-----------------------------------------------------------------------------
\* Mutant: the project is made without waiting for the gate.
MutBeginInitiate(s, o) ==
    /\ ~project[o].exists
    /\ Begin(s, [op |-> "initiate", order |-> o, date |-> order[o].date])
    /\ UNCHANGED <<sales, project, phase>>

(* The handler of OrderApprovedForKickoff, delivered at least once (see    *)
(* Outbox): it fetches the order, and does nothing where there is a        *)
(* project already.                                                        *)
BeginInitiate(s, o) ==
    /\ order[o].kickoffs > 0
    /\ order[o].status = "kicked_off"
    /\ ~project[o].exists
    /\ Begin(s, [op |-> "initiate", order |-> o, date |-> order[o].date])
    /\ UNCHANGED <<sales, project, phase>>

\* The project's code and the key of ProjectInitiated are unique.
WriteProject(s) ==
    /\ req[s].op = "initiate"
    /\ LET o == req[s].order
           d == req[s].date
       IN  /\ ~project[o].exists
           /\ project' = [project EXCEPT ![o] =
                  [exists |-> TRUE, first |-> d, committed |-> d, overtaken |-> FALSE,
                   lots |-> order[o].lots]]
    /\ Finish(s)
    /\ UNCHANGED <<sales, phase>>

\* _committed_date, and the check of plan_phase and reschedule_phase.
UnderCeiling(o, d) == project[o].committed # 0 /\ d <= project[o].committed

BeginPlan(s, o, d) ==
    /\ UnderCeiling(o, d)
    /\ Begin(s, [op |-> "plan", order |-> o, date |-> d])
    /\ UNCHANGED <<sales, project, phase>>

WritePlanned(s) ==
    /\ req[s].op = "plan"
    /\ \E ph \in PhaseIds :
        /\ phase[ph] = NoPhase
        /\ phase' = [phase EXCEPT ![ph] = [project |-> req[s].order, ends |-> req[s].date]]
    /\ Finish(s)
    /\ UNCHANGED <<sales, project>>

BeginReschedule(s, ph, d) ==
    /\ phase[ph] # NoPhase
    /\ UnderCeiling(phase[ph].project, d)
    /\ Begin(s, [op |-> "reschedule", phase |-> ph, date |-> d])
    /\ UNCHANGED <<sales, project, phase>>

WriteRescheduled(s) ==
    /\ req[s].op = "reschedule"
    /\ phase' = [phase EXCEPT ![req[s].phase].ends = req[s].date]
    /\ Finish(s)
    /\ UNCHANGED <<sales, project>>

\* Mutant: an extension may bring the date forward.
MutBeginExtend(s, o, d) ==
    /\ project[o].committed # 0
    /\ d # project[o].committed
    /\ Begin(s, [op |-> "extend", order |-> o, date |-> d, previous |-> project[o].committed])
    /\ UNCHANGED <<sales, project, phase>>

BeginExtend(s, o, d) ==
    /\ project[o].committed # 0
    /\ d > project[o].committed
    /\ Begin(s, [op |-> "extend", order |-> o, date |-> d, previous |-> project[o].committed])
    /\ UNCHANGED <<sales, project, phase>>

WriteExtended(s) ==
    /\ req[s].op = "extend"
    /\ LET o == req[s].order
       IN  project' = [project EXCEPT
               ![o].committed = req[s].date,
               ![o].overtaken = @ \/ project[o].committed # req[s].previous]
    /\ Finish(s)
    /\ UNCHANGED <<sales, phase>>

ScheduleNext ==
    \/ \E s \in Sessions, o \in OrderIds :
        \/ BeginInitiate(s, o)
        \/ \E d \in Dates : BeginPlan(s, o, d) \/ BeginExtend(s, o, d)
    \/ \E s \in Sessions :
        \/ WriteProject(s)
        \/ WritePlanned(s)
        \/ \E ph \in PhaseIds, d \in Dates : BeginReschedule(s, ph, d)
        \/ WriteRescheduled(s)
        \/ WriteExtended(s)

-----------------------------------------------------------------------------
ScheduleTypeOK ==
    /\ project \in [OrderIds -> ProjectRows]
    /\ phase \in [PhaseIds -> PhaseRows]

\* What the change orders applied to an order have added to its price.
Additions(o) ==
    [c \in ChangeIds |->
        IF OrderOf[c] = o /\ Delta[c] > 0 THEN Delta[c] * applied[c] ELSE 0]

(* Between the gate and the project nothing is made up: an order leaves    *)
(* the gate, and a project appears, by the one announced approval; and     *)
(* whatever overwrites what, the order's date and the one its project      *)
(* starts from were given by a confirmation or a change order (or by       *)
(* nobody), and the price holds no change that was not applied.            *)
HandedOver ==
    \A o \in OrderIds :
        /\ order[o].kickoffs <= 1
        /\ order[o].status = "kicked_off" \/ project[o].exists => order[o].kickoffs = 1
        /\ {order[o].date, project[o].first} \subseteq Promised(o) \cup {0}
        /\ order[o].price <= SumFunction(Additions(o))

(* No phase ends after the committed date: a phase planned below a ceiling *)
(* that has moved since is below it still, as long as no extension has     *)
(* been written over a date other than the one it extends.  Two extensions *)
(* of the same date can take the later one back, and the phases planned in *)
(* between then end after what is committed.                               *)
PhasesBelowCommitment ==
    \A ph \in PhaseIds : phase[ph].project \in OrderIds =>
        LET p == project[phase[ph].project]
        IN  p.overtaken \/ phase[ph].ends <= p.committed
=============================================================================
