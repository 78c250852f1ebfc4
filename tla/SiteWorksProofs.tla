--------------------------- MODULE SiteWorksProofs ---------------------------
(***************************************************************************)
(* Proofs about SiteWorks: for any number of requests, orders, flags and   *)
(* transfers and any quantities, bills are numbered without gap, what is   *)
(* posted comes once per request that overlapped, the ledgers agree with   *)
(* the documents, and the contract of the ceiling is kept.                 *)
(***************************************************************************)
EXTENDS SiteWorks, SumLemmas

N == Cardinality(Sessions)

ServiceOps == {"submit", "approve", "certify", "bill"}
FabOps == {"request_material", "start", "complete"}
StockOps == {"accept", "decline"}

(* What the requests q have still to write on the certifications of o.     *)
Wants(q, o) ==
    [s \in Sessions |->
        IF q[s].op \in {"certify", "bill"} THEN IF q[s].order = o THEN q[s].qty ELSE 0 ELSE 0]

(* Service orders: rows that do not exist are empty, requests are about    *)
(* rows that do, a bill about to be written is numbered no higher than the *)
(* next, and the quantity certified leaves room for what each of the other *)
(* sessions may still write.                                               *)
ServiceGrounded ==
    /\ \A o \in ServiceOrderIds :
        /\ service[o].status = "absent" => service[o] = NoServiceOrder
        /\ service[o].status \in {"issued", "complete"} => service[o].announced > 0
        /\ IsFiniteSet(service[o].numbers)
    /\ \A s \in Sessions :
        /\ req[s].op \in ServiceOps => service[req[s].order].status # "absent"
        /\ req[s].op \in {"certify", "bill"} => service[req[s].order].announced > 0
        /\ req[s].op = "bill" =>
             req[s].number \in 1..(Cardinality(service[req[s].order].numbers) + 1)

ScopeShared ==
    \A o \in ServiceOrderIds :
        /\ \A s \in Sessions : Wants(req, o)[s] <= service[o].quantity
        /\ service[o].certified + SumFunctionOnSet(Wants(req, o), Sessions)
             <= N * service[o].quantity

ServiceInv == ServiceGrounded /\ BillsNumbered /\ ScopeShared

(* Fabrication: an order in progress leaves room for one completion by     *)
(* every session, and once it is complete for those that had begun.        *)
Completing(q, o) == {s \in Sessions : q[s].op = "complete" /\ q[s].order = o}

FabGrounded ==
    /\ \A o \in FabOrderIds : fab[o].status = "absent" => fab[o] = NoFabOrder
    /\ \A s \in Sessions : req[s].op \in FabOps => fab[req[s].order].status # "absent"

RunsShared ==
    \A o \in FabOrderIds :
        fab[o].finished + (IF Completable(o) THEN N ELSE Cardinality(Completing(req, o)))
          <= N * (fab[o].started + fab[o].asked)

FabInv == FabGrounded /\ RunsShared

(* Transfers: the same of a transfer that waits and of one that does not.  *)
Accepting(q, t) == {s \in Sessions : q[s].op = "accept" /\ q[s].transfer = t}

StockGrounded ==
    /\ \A t \in TransferIds :
        /\ transfer[t].status = "absent" => transfer[t] = NoTransfer
        /\ transfer[t].status # "absent" => transfer[t].flag \in FlagIds
    /\ \A s \in Sessions :
        req[s].op \in StockOps => transfer[req[s].transfer].status # "absent"

MovesShared ==
    \A t \in TransferIds :
        transfer[t].moved + (IF Acceptable(t) THEN N ELSE Cardinality(Accepting(req, t))) <= N

StockInv == StockGrounded /\ MovesShared

Inv == TypeOK /\ ServiceInv /\ FabInv /\ StockInv /\ LedgersAgree

-----------------------------------------------------------------------------
(* Requests.                                                               *)

AllRequests == ServiceRequests \cup FabRequests \cup StockRequests

\* The fields of each kind of request.
LEMMA RequestFields ==
    ASSUME NEW r \in AllRequests \cup {Idle}
    PROVE  /\ r.op \in ServiceOps => r.order \in ServiceOrderIds
           /\ r.op \in {"certify", "bill"} => r.qty \in Nat /\ r.final \in BOOLEAN
           /\ r.op = "bill" => r.number \in Nat
           /\ r.op \in FabOps => r.order \in FabOrderIds
           /\ r.op = "complete" => r.charge \in Nat
           /\ r.op \in StockOps => r.transfer \in TransferIds
<1>1. ASSUME r \in ServiceRequests
      PROVE  /\ r.op \in ServiceOps => r.order \in ServiceOrderIds
             /\ r.op \in {"certify", "bill"} => r.qty \in Nat /\ r.final \in BOOLEAN
             /\ r.op = "bill" => r.number \in Nat
             /\ r.op \in ServiceOps
  BY <1>1 DEF ServiceRequests, ServiceOps
<1>2. ASSUME r \in FabRequests
      PROVE  r.op \in FabOps /\ r.order \in FabOrderIds
             /\ (r.op = "complete" => r.charge \in Nat)
  BY <1>2 DEF FabRequests, FabOps
<1>3. ASSUME r \in StockRequests PROVE r.op \in StockOps /\ r.transfer \in TransferIds
  BY <1>3 DEF StockRequests, StockOps
<1>4. Idle.op = "idle"
  BY DEF Idle
<1> QED BY <1>1, <1>2, <1>3, <1>4 DEF AllRequests, ServiceOps, FabOps, StockOps

\* One session moves on to r, the others stay.
Moves(s, r) ==
    /\ req' \in [Sessions -> AllRequests \cup {Idle}]
    /\ req'[s] = r
    /\ \A t \in Sessions : t # s => req'[t] = req[t]

LEMMA BeginMoves ==
    ASSUME TypeOK, NEW s \in Sessions, NEW r \in AllRequests, Begin(s, r)
    PROVE  Moves(s, r)
  BY DEF TypeOK, Begin, Moves, AllRequests

LEMMA FinishMoves ==
    ASSUME TypeOK, NEW s \in Sessions, Finish(s)
    PROVE  Moves(s, Idle)
  BY DEF TypeOK, Finish, Moves, AllRequests

LEMMA TimesMonotone ==
    ASSUME NEW k \in Nat, NEW a \in Nat, NEW b \in Nat, a <= b
    PROVE  k * a <= k * b
<1>1. k * (b - a) >= 0 /\ k * b = k * a + k * (b - a)
  OBVIOUS
<1> QED BY <1>1

LEMMA TimesLess ==
    ASSUME NEW k \in Nat, NEW a \in Nat
    PROVE  k * a = a + (k - 1) * a /\ (k - 1) * a \in Int
  OBVIOUS

LEMMA SessionsFinite == IsFiniteSet(Sessions) /\ N \in Nat
  BY SiteWorksAssumption, FS_CardinalityType DEF N

LEMMA OthersFinite ==
    ASSUME NEW s \in Sessions
    PROVE  /\ IsFiniteSet(Sessions \ {s})
           /\ Cardinality(Sessions \ {s}) = N - 1
           /\ N - 1 \in Nat
<1>1. IsFiniteSet(Sessions \ {s}) /\ Cardinality(Sessions \ {s}) = N - 1
  BY SessionsFinite, FS_RemoveElement DEF N
<1>2. Cardinality(Sessions \ {s}) \in Nat
  BY <1>1, FS_CardinalityType
<1> QED BY <1>1, <1>2

-----------------------------------------------------------------------------
(* Ledgers.                                                                *)

\* What has left the company, net, in a move.
Left(n, from, to) == (IF to = "outside" THEN n ELSE 0) - (IF from = "outside" THEN n ELSE 0)

LEMMA MovedEffect ==
    ASSUME NEW moves \in [Items -> [Places -> Int]], NEW i \in Items, NEW n \in Int,
           NEW from \in Places, NEW to \in Places, NEW after,
           after = Moved(moves, i, n, from, to)
    PROVE  /\ after \in [Items -> [Places -> Int]]
           /\ after[i]["outside"] = moves[i]["outside"] + Left(n, from, to)
<1> DEFINE row == [l \in Places |->
           moves[i][l] - (IF l = from THEN n ELSE 0) + (IF l = to THEN n ELSE 0)]
<1>1. after = [moves EXCEPT ![i] = row]
  BY DEF Moved
<1>2. row \in [Places -> Int] /\ "outside" \in Places
  BY DEF Places
<1>3. row["outside"] = moves[i]["outside"] + Left(n, from, to)
  BY <1>2 DEF Left
<1> HIDE DEF row
<1> QED BY <1>1, <1>2, <1>3

LEMMA MovedLeft ==
    ASSUME NEW moves \in [Items -> [Places -> Int]], NEW i \in Items, NEW n \in Int,
           NEW from \in Places, NEW to \in Places
    PROVE  Moved(moves, i, n, from, to)[i]["outside"] = moves[i]["outside"] + Left(n, from, to)
  BY MovedEffect

LEMMA MovedOthers ==
    ASSUME NEW moves \in [Items -> [Places -> Int]], NEW i, NEW n, NEW from, NEW to,
           NEW j \in Items, j # i
    PROVE  Moved(moves, i, n, from, to)[j] = moves[j]
<1> DEFINE row == [l \in Places |->
           moves[i][l] - (IF l = from THEN n ELSE 0) + (IF l = to THEN n ELSE 0)]
<1>1. Moved(moves, i, n, from, to) = [moves EXCEPT ![i] = row]
  BY DEF Moved
<1> HIDE DEF row
<1> QED BY <1>1

LEMMA PostedEffect ==
    ASSUME NEW entries \in [Projects -> [Categories -> Int]], NEW p \in Projects,
           NEW c \in Categories, NEW n \in Int
    PROVE  /\ Posted(entries, p, c, n) \in [Projects -> [Categories -> Int]]
           /\ Posted(entries, p, c, n)[p][c] = entries[p][c] + n
           /\ \A d \in Categories : d # c => Posted(entries, p, c, n)[p][d] = entries[p][d]
           /\ \A q \in Projects : q # p => Posted(entries, p, c, n)[q] = entries[q]
  BY DEF Posted

LEMMA PostedOthers ==
    ASSUME NEW entries \in [Projects -> [Categories -> Int]], NEW p \in Projects,
           NEW c \in Categories, NEW n \in Int, NEW d \in Categories, d # c
    PROVE  Posted(entries, p, c, n)[p][d] = entries[p][d]
  BY DEF Posted

LEMMA PostedElsewhere ==
    ASSUME NEW entries \in [Projects -> [Categories -> Int]], NEW p \in Projects,
           NEW c \in Categories, NEW n \in Int, NEW q \in Projects, q # p
    PROVE  Posted(entries, p, c, n)[q] = entries[q]
  BY DEF Posted

LEMMA ReserveEffect ==
    ASSUME LedgersTypeOK, NEW d \in Documents, NEW n \in Nat, Reserve(d, n)
    PROVE  /\ committed' \in [DOMAIN Ceilings -> Int] /\ held' \in [Documents -> Nat]
           /\ held'[d] = held[d] + n
           /\ \A e \in Documents : e # d => held'[e] = held[e]
           /\ \A b \in DOMAIN Ceilings :
                committed'[b] <= committed[b] \/ committed'[b] <= Ceilings[b]
<1>1. LineOf[d] \in DOMAIN Ceilings
  BY SiteWorksAssumption
<1> QED BY <1>1 DEF LedgersTypeOK, Reserve

LEMMA ReleaseEffect ==
    ASSUME LedgersTypeOK, NEW d \in Documents, NEW n \in Nat, Release(d, n)
    PROVE  /\ committed' \in [DOMAIN Ceilings -> Int] /\ held' \in [Documents -> Nat]
           /\ held'[d] = held[d] - n
           /\ \A e \in Documents : e # d => held'[e] = held[e]
           /\ \A b \in DOMAIN Ceilings : committed'[b] <= committed[b]
<1>1. LineOf[d] \in DOMAIN Ceilings
  BY SiteWorksAssumption
<1> QED BY <1>1 DEF LedgersTypeOK, Release

-----------------------------------------------------------------------------
(* What the requests want of an order.                                     *)

Requesting == [Sessions -> AllRequests \cup {Idle}]

LEMMA WantsType ==
    ASSUME NEW q \in Requesting, NEW o
    PROVE  \A s \in Sessions : Wants(q, o)[s] \in Nat
  BY RequestFields DEF Wants, Requesting

\* A session that stays or asks for something else wants no more.
LEMMA WantsShrink ==
    ASSUME NEW q \in Requesting, NEW p \in Requesting, NEW o,
           \A s \in Sessions : p[s] = q[s] \/ p[s].op \notin {"certify", "bill"}
    PROVE  \A s \in Sessions : Wants(p, o)[s] <= Wants(q, o)[s]
<1> SUFFICES ASSUME NEW s \in Sessions PROVE Wants(p, o)[s] <= Wants(q, o)[s]
  OBVIOUS
<1>1. Wants(q, o)[s] \in Nat /\ Wants(p, o)[s] \in Nat
  BY WantsType
<1>2. p[s] = q[s] => Wants(p, o)[s] = Wants(q, o)[s]
  BY DEF Wants
<1>3. p[s].op \notin {"certify", "bill"} => Wants(p, o)[s] = 0
  BY DEF Wants
<1> QED BY <1>1, <1>2, <1>3

LEMMA WantsSum ==
    ASSUME NEW q \in Requesting, NEW o
    PROVE  SumFunctionOnSet(Wants(q, o), Sessions) \in Nat
  BY WantsType, SumType, SessionsFinite

-----------------------------------------------------------------------------
(* Service orders.                                                         *)

LEMMA ServiceFields ==
    ASSUME TypeOK
    PROVE  \A o \in ServiceOrderIds :
               /\ service[o] \in ServiceRows
               /\ service[o].quantity \in Nat /\ service[o].announced \in Nat
               /\ service[o].certified \in Nat /\ service[o].short \in Nat
               /\ service[o].numbers \in SUBSET Nat
  BY DEF TypeOK, ServiceTypeOK, ServiceRows

(* The numbers of an order stay, its scope and its announcements only grow *)
(* and its requests want no more: the bills and the scope stay in order.   *)
LEMMA ServiceQuiet ==
    ASSUME TypeOK, ServiceInv, TypeOK',
           \A o \in ServiceOrderIds :
               /\ service'[o].certified = service[o].certified
               /\ service'[o].numbers = service[o].numbers
               /\ service'[o].quantity >= service[o].quantity
               /\ service'[o].announced >= service[o].announced
               /\ \A s \in Sessions : Wants(req', o)[s] <= Wants(req, o)[s]
    PROVE  BillsNumbered' /\ ScopeShared'
<1>1. BillsNumbered'
  BY DEF ServiceInv, BillsNumbered, TypeOK, ServiceTypeOK, ServiceRows
<1>2. ScopeShared'
  <2> SUFFICES ASSUME NEW o \in ServiceOrderIds
               PROVE  /\ \A s \in Sessions : Wants(req', o)[s] <= service'[o].quantity
                      /\ service'[o].certified + SumFunctionOnSet(Wants(req', o), Sessions)
                           <= N * service'[o].quantity
    BY DEF ScopeShared
  <2>1. req \in Requesting /\ req' \in Requesting
    BY DEF TypeOK, Requesting, AllRequests
  <2>2. /\ \A s \in Sessions : Wants(req, o)[s] \in Nat /\ Wants(req', o)[s] \in Nat
        /\ SumFunctionOnSet(Wants(req, o), Sessions) \in Nat
        /\ SumFunctionOnSet(Wants(req', o), Sessions) \in Nat
    BY <2>1, WantsType, WantsSum
  <2>3. SumFunctionOnSet(Wants(req', o), Sessions) <= SumFunctionOnSet(Wants(req, o), Sessions)
    BY <2>2, SumMonotone, SessionsFinite
  <2>4. /\ service[o].quantity \in Nat /\ service'[o].quantity \in Nat
        /\ service[o].certified \in Nat
    BY DEF TypeOK, ServiceTypeOK, ServiceRows
  <2>5. /\ \A s \in Sessions : Wants(req, o)[s] <= service[o].quantity
        /\ service[o].certified + SumFunctionOnSet(Wants(req, o), Sessions)
             <= N * service[o].quantity
    BY DEF ServiceInv, ScopeShared
  <2>6. N * service[o].quantity <= N * service'[o].quantity
    BY <2>4, SessionsFinite, TimesMonotone
  <2>7. N * service[o].quantity \in Int /\ N * service'[o].quantity \in Int
    BY <2>4, SessionsFinite
  <2> QED BY <2>2, <2>3, <2>4, <2>5, <2>6, <2>7
<1> QED BY <1>1, <1>2

(* A step that leaves the service orders alone and begins nothing about    *)
(* them.                                                                   *)
LEMMA ServiceFrame ==
    ASSUME TypeOK, ServiceInv, TypeOK', UNCHANGED service,
           \A s \in Sessions : req'[s] = req[s] \/ req'[s].op \notin ServiceOps
    PROVE  ServiceInv'
<1>1. req \in Requesting /\ req' \in Requesting
  BY DEF TypeOK, Requesting, AllRequests
<1>2. \A o \in ServiceOrderIds : \A s \in Sessions : Wants(req', o)[s] <= Wants(req, o)[s]
  <2>1. \A s \in Sessions : req'[s] = req[s] \/ req'[s].op \notin {"certify", "bill"}
    BY DEF ServiceOps
  <2> QED BY <1>1, <2>1, WantsShrink
<1>3. \A o \in ServiceOrderIds : service[o].quantity \in Nat /\ service[o].announced \in Nat
  BY DEF TypeOK, ServiceTypeOK, ServiceRows
<1>4. BillsNumbered' /\ ScopeShared'
  BY <1>2, <1>3, ServiceQuiet
<1>5. ServiceGrounded'
  BY DEF ServiceInv, ServiceGrounded, ServiceOps
<1> QED BY <1>4, <1>5 DEF ServiceInv

(* A request that ends, or begins to issue an order, and an order that     *)
(* changes but for what is billed on it.                                   *)
LEMMA ServiceKept ==
    ASSUME TypeOK, ServiceInv, TypeOK', NEW s \in Sessions, NEW r, Moves(s, r),
           r.op \notin {"certify", "bill"},
           r.op \in ServiceOps => service'[r.order].status # "absent",
           \A o \in ServiceOrderIds :
               /\ service'[o].certified = service[o].certified
               /\ service'[o].numbers = service[o].numbers
               /\ service'[o].quantity >= service[o].quantity
               /\ service'[o].announced >= service[o].announced
               /\ service'[o].status = "absent" => service'[o] = service[o]
               /\ service'[o].status \in {"issued", "complete"} => service'[o].announced > 0
    PROVE  ServiceInv'
<1>1. req \in Requesting /\ req' \in Requesting
  BY DEF TypeOK, Requesting, AllRequests
<1>2. \A o \in ServiceOrderIds : \A t \in Sessions : Wants(req', o)[t] <= Wants(req, o)[t]
  <2>1. \A t \in Sessions : req'[t] = req[t] \/ req'[t].op \notin {"certify", "bill"}
    BY DEF Moves
  <2> QED BY <1>1, <2>1, WantsShrink
<1>3. BillsNumbered' /\ ScopeShared'
  BY <1>2, ServiceQuiet
<1>4. \A o \in ServiceOrderIds :
        /\ service'[o].status = "absent" => service'[o] = NoServiceOrder
        /\ service'[o].status \in {"issued", "complete"} => service'[o].announced > 0
        /\ IsFiniteSet(service'[o].numbers)
  BY DEF ServiceInv, ServiceGrounded
<1>5. ASSUME NEW t \in Sessions
      PROVE  /\ req'[t].op \in ServiceOps => service'[req'[t].order].status # "absent"
             /\ req'[t].op \in {"certify", "bill"} => service'[req'[t].order].announced > 0
             /\ req'[t].op = "bill" =>
                  req'[t].number \in 1..(Cardinality(service'[req'[t].order].numbers) + 1)
  <2>1. CASE t = s
    BY <2>1 DEF Moves
  <2>2. CASE t # s /\ req[t].op \in ServiceOps
    <3>1. req'[t] = req[t]
      BY <2>2 DEF Moves
    <3>2. req[t].order \in ServiceOrderIds
      BY <1>1, <2>2, RequestFields DEF Requesting
    <3>3. /\ service[req[t].order].announced \in Nat
          /\ service'[req[t].order].announced \in Nat
      BY <3>2, ServiceFields DEF TypeOK, ServiceTypeOK, ServiceRows
    <3>4. /\ service[req[t].order].status # "absent"
          /\ req[t].op \in {"certify", "bill"} => service[req[t].order].announced > 0
          /\ req[t].op = "bill" =>
               req[t].number \in 1..(Cardinality(service[req[t].order].numbers) + 1)
      BY <2>2 DEF ServiceInv, ServiceGrounded
    <3> QED BY <3>1, <3>2, <3>3, <3>4
  <2>3. CASE t # s /\ req[t].op \notin ServiceOps
    BY <2>3 DEF Moves, ServiceOps
  <2> QED BY <2>1, <2>2, <2>3
<1> QED BY <1>3, <1>4, <1>5 DEF ServiceInv, ServiceGrounded

(* The rows and the ledgers a service order's request leaves behind.       *)
LEMMA CreateServiceTyped ==
    ASSUME TypeOK, NEW s \in Sessions, NEW o \in ServiceOrderIds, NEW n \in ServiceQtys,
           CreateServiceOrder(s, o, n), UNCHANGED <<fab, vendorKnown, flag, transfer>>
    PROVE  /\ TypeOK' /\ Moves(s, [op |-> "submit", order |-> o])
           /\ service'[o].status = "draft" /\ service'[o].quantity = n
           /\ service'[o].announced = service[o].announced
           /\ service'[o].numbers = service[o].numbers
           /\ service'[o].certified = service[o].certified
           /\ service'[o].short = service[o].short
           /\ \A p \in ServiceOrderIds : p # o => service'[p] = service[p]
           /\ n \in Nat /\ held'[o] = held[o] + n
           /\ \A e \in Documents : e # o => held'[e] = held[e]
<1>1. [op |-> "submit", order |-> o] \in AllRequests
  BY DEF AllRequests, ServiceRequests
<1>2. Moves(s, [op |-> "submit", order |-> o])
  BY <1>1, BeginMoves DEF CreateServiceOrder
<1>3. n \in Nat /\ o \in Documents
  BY SiteWorksAssumption
<1>4. service'[o].status = "draft" /\ service'[o].quantity = n
           /\ service'[o].announced = service[o].announced
           /\ service'[o].numbers = service[o].numbers
           /\ service'[o].certified = service[o].certified
           /\ service'[o].short = service[o].short
           /\ \A p \in ServiceOrderIds : p # o => service'[p] = service[p]
  BY DEF CreateServiceOrder, TypeOK, ServiceTypeOK, ServiceRows
<1>5. ServiceTypeOK'
  <2>1. service'[o] \in ServiceRows
    BY <1>3, <1>4 DEF CreateServiceOrder, TypeOK, ServiceTypeOK, ServiceRows, ServiceStatuses
  <2> QED BY <1>4, <2>1 DEF CreateServiceOrder, TypeOK, ServiceTypeOK
<1>6. LedgersTypeOK' /\ held'[o] = held[o] + n /\ \A e \in Documents : e # o => held'[e] = held[e]
  BY <1>3, ReserveEffect DEF TypeOK, LedgersTypeOK, CreateServiceOrder
<1> QED BY <1>2, <1>3, <1>4, <1>5, <1>6
        DEF TypeOK, Moves, AllRequests, FabTypeOK, StockTypeOK

LEMMA CreateServiceInv ==
    ASSUME TypeOK, ServiceInv, NEW s \in Sessions, NEW o \in ServiceOrderIds,
           NEW n \in ServiceQtys,
           CreateServiceOrder(s, o, n), UNCHANGED <<fab, vendorKnown, flag, transfer>>
    PROVE  ServiceInv'
<1>1. service[o].quantity = 0
  BY DEF ServiceInv, ServiceGrounded, CreateServiceOrder, NoServiceOrder
<1>2. \A p \in ServiceOrderIds : service[p].status \in {"issued", "complete"} => service[p].announced > 0
  BY DEF ServiceInv, ServiceGrounded
<1>3. /\ TypeOK' /\ Moves(s, [op |-> "submit", order |-> o]) /\ n \in Nat
      /\ service'[o].status = "draft" /\ service'[o].quantity = n
      /\ service'[o].announced = service[o].announced
      /\ service'[o].numbers = service[o].numbers
      /\ service'[o].certified = service[o].certified
      /\ \A p \in ServiceOrderIds : p # o => service'[p] = service[p]
  BY CreateServiceTyped
<1>4. \A p \in ServiceOrderIds :
        /\ service'[p].certified = service[p].certified
        /\ service'[p].numbers = service[p].numbers
        /\ service'[p].quantity >= service[p].quantity
        /\ service'[p].announced >= service[p].announced
        /\ service'[p].status = "absent" => service'[p] = service[p]
        /\ service'[p].status \in {"issued", "complete"} => service'[p].announced > 0
  BY <1>1, <1>2, <1>3, ServiceFields
<1> QED BY <1>3, <1>4, ServiceKept

(* Issuing an order, or parking it; the request ends.                      *)
LEMMA IssueServiceTyped ==
    ASSUME TypeOK, NEW s \in Sessions, ParkServiceOrder(s) \/ IssueServiceOrder(s),
           UNCHANGED <<fab, vendorKnown, flag, transfer>>
    PROVE  /\ TypeOK' /\ Moves(s, Idle) /\ UNCHANGED ledgers
           /\ req[s].op \in ServiceOps /\ req[s].order \in ServiceOrderIds
           /\ \A p \in ServiceOrderIds : p # req[s].order => service'[p] = service[p]
           /\ LET o == req[s].order
              IN  /\ \/ /\ service'[o].status = "awaiting_approval"
                        /\ service'[o].announced = service[o].announced
                     \/ /\ service'[o].status = "issued"
                        /\ service'[o].announced = service[o].announced + 1
                  /\ service'[o].quantity = service[o].quantity
                  /\ service'[o].numbers = service[o].numbers
                  /\ service'[o].certified = service[o].certified
                  /\ service'[o].short = service[o].short
<1> DEFINE o == req[s].order
<1>1. req[s].op \in {"submit", "approve"}
  BY DEF ParkServiceOrder, IssueServiceOrder
<1>2. o \in ServiceOrderIds
  BY <1>1, RequestFields DEF TypeOK, ServiceOps, AllRequests
<1>3. Moves(s, Idle)
  BY FinishMoves DEF ParkServiceOrder, IssueServiceOrder
<1> HIDE DEF o
<1>4. \/ service' = [service EXCEPT ![o].status = "awaiting_approval"]
      \/ service' = [service EXCEPT ![o].status = "issued", ![o].announced = @ + 1]
  BY DEF ParkServiceOrder, IssueServiceOrder, o
<1>5. /\ \/ /\ service'[o].status = "awaiting_approval"
            /\ service'[o].announced = service[o].announced
         \/ /\ service'[o].status = "issued"
            /\ service'[o].announced = service[o].announced + 1
      /\ service'[o].quantity = service[o].quantity
      /\ service'[o].numbers = service[o].numbers
      /\ service'[o].certified = service[o].certified
      /\ service'[o].short = service[o].short
      /\ \A p \in ServiceOrderIds : p # o => service'[p] = service[p]
  BY <1>2, <1>4 DEF TypeOK, ServiceTypeOK, ServiceRows
<1>6. ServiceTypeOK'
  <2>1. service'[o] \in ServiceRows
    BY <1>2, <1>4, <1>5 DEF TypeOK, ServiceTypeOK, ServiceRows, ServiceStatuses
  <2> QED BY <1>2, <1>4, <1>5, <2>1 DEF TypeOK, ServiceTypeOK
<1>7. UNCHANGED ledgers
  BY DEF ParkServiceOrder, IssueServiceOrder
<1>8. TypeOK'
  BY <1>3, <1>6, <1>7
     DEF TypeOK, Moves, AllRequests, FabTypeOK, StockTypeOK, ledgers, LedgersTypeOK
<1> QED BY <1>1, <1>2, <1>3, <1>5, <1>7, <1>8 DEF o, ServiceOps

LEMMA IssueServiceInv ==
    ASSUME TypeOK, ServiceInv, NEW s \in Sessions,
           ParkServiceOrder(s) \/ IssueServiceOrder(s),
           UNCHANGED <<fab, vendorKnown, flag, transfer>>
    PROVE  ServiceInv'
<1>1. \A p \in ServiceOrderIds : service[p].status \in {"issued", "complete"} => service[p].announced > 0
  BY DEF ServiceInv, ServiceGrounded
<1>2. Idle.op = "idle"
  BY DEF Idle
<1> QED BY <1>1, <1>2, IssueServiceTyped, ServiceKept, ServiceFields DEF ServiceOps

LEMMA ApproveServiceInv ==
    ASSUME TypeOK, ServiceInv, NEW s \in Sessions, NEW o \in ServiceOrderIds,
           ApproveServiceOrder(s, o), UNCHANGED <<fab, vendorKnown, flag, transfer>>
    PROVE  TypeOK' /\ Moves(s, [op |-> "approve", order |-> o]) /\ ServiceInv'
<1> DEFINE r == [op |-> "approve", order |-> o]
<1>1. r \in AllRequests
  BY DEF AllRequests, ServiceRequests
<1>2. Moves(s, r)
  BY <1>1, BeginMoves DEF ApproveServiceOrder
<1>3. TypeOK'
  BY <1>2 DEF ApproveServiceOrder, TypeOK, Moves, AllRequests, ledgers, LedgersTypeOK,
              ServiceTypeOK, FabTypeOK, StockTypeOK
<1>4. r.op = "approve" /\ r.order = o /\ service'[o].status # "absent"
  BY DEF ApproveServiceOrder
<1>5. \A p \in ServiceOrderIds :
        service[p].status \in {"issued", "complete"} => service[p].announced > 0
  BY DEF ServiceInv, ServiceGrounded
<1>6. service' = service
  BY DEF ApproveServiceOrder
<1> HIDE DEF r
<1>7. \A p \in ServiceOrderIds :
        /\ service'[p].certified = service[p].certified
        /\ service'[p].numbers = service[p].numbers
        /\ service'[p].quantity >= service[p].quantity
        /\ service'[p].announced >= service[p].announced
        /\ service'[p].status = "absent" => service'[p] = service[p]
        /\ service'[p].status \in {"issued", "complete"} => service'[p].announced > 0
  BY <1>5, <1>6, ServiceFields
<1>8. ServiceInv'
  BY <1>2, <1>3, <1>4, <1>7, ServiceKept
<1> QED BY <1>2, <1>3, <1>8 DEF r

(* A certification that begins: what it reads is outstanding, less than    *)
(* the scope, and each of the other sessions wants no more than the scope. *)
LEMMA CertifyServiceInv ==
    ASSUME TypeOK, ServiceInv, NEW s \in Sessions, NEW o \in ServiceOrderIds,
           NEW n \in CertifyQtys, NEW final \in BOOLEAN,
           CertifyServiceOrder(s, o, n, final), UNCHANGED <<fab, vendorKnown, flag, transfer>>
    PROVE  /\ TypeOK' /\ ServiceInv'
           /\ Moves(s, [op |-> "certify", order |-> o, qty |-> n, final |-> final])
<1> DEFINE r == [op |-> "certify", order |-> o, qty |-> n, final |-> final]
<1>1. n \in Nat
  BY SiteWorksAssumption
<1>2. r \in AllRequests
  BY <1>1 DEF AllRequests, ServiceRequests
<1>3. Moves(s, r) /\ req[s] = Idle /\ service' = service
  BY <1>2, BeginMoves DEF CertifyServiceOrder, Begin
<1>4. TypeOK'
  BY <1>3 DEF CertifyServiceOrder, TypeOK, Moves, AllRequests, ledgers, LedgersTypeOK,
              ServiceTypeOK, FabTypeOK, StockTypeOK
<1>5. r.op = "certify" /\ r.order = o /\ r.qty = n
  OBVIOUS
<1>6. service[o].status \in {"issued", "complete"} /\ service[o].certified + n <= service[o].quantity
  BY <1>1, ServiceFields DEF CertifyServiceOrder, FitsOutstanding, Outstanding
<1> HIDE DEF r
<1>7. BillsNumbered' /\ ServiceGrounded'
  <2>1. service[o].status # "absent" /\ service[o].announced > 0
    BY <1>6 DEF ServiceInv, ServiceGrounded
  <2> QED BY <1>3, <1>5, <2>1 DEF ServiceInv, ServiceGrounded, BillsNumbered, Moves, ServiceOps
<1>8. ScopeShared'
  <2> SUFFICES ASSUME NEW p \in ServiceOrderIds
               PROVE  /\ \A t \in Sessions : Wants(req', p)[t] <= service[p].quantity
                      /\ service[p].certified + SumFunctionOnSet(Wants(req', p), Sessions)
                           <= N * service[p].quantity
    BY <1>3 DEF ScopeShared
  <2>1. req \in Requesting /\ req' \in Requesting
    BY <1>4 DEF TypeOK, Requesting, AllRequests
  <2>2. \A t \in Sessions : Wants(req, p)[t] \in Nat /\ Wants(req', p)[t] \in Nat
    BY <2>1, WantsType
  <2>3. Wants(req', p)[s] = IF p = o THEN n ELSE 0
    BY <1>3, <1>5 DEF Moves, Wants
  <2>4. \A t \in Sessions \ {s} : Wants(req', p)[t] = Wants(req, p)[t]
    BY <1>3 DEF Moves, Wants
  <2>5. /\ \A t \in Sessions : Wants(req, p)[t] <= service[p].quantity
        /\ service[p].certified + SumFunctionOnSet(Wants(req, p), Sessions)
             <= N * service[p].quantity
    BY DEF ServiceInv, ScopeShared
  <2>6. service[p].quantity \in Nat /\ service[p].certified \in Nat
    BY ServiceFields
  <2>7. CASE p # o
    <3>1. Wants(req, p)[s] = 0
      BY <1>3 DEF Wants, Idle
    <3>2. SumFunctionOnSet(Wants(req', p), Sessions) = SumFunctionOnSet(Wants(req, p), Sessions)
      BY <2>3, <2>4, <2>7, <3>1, SessionsFinite, SumCongruence
    <3> QED BY <2>3, <2>4, <2>5, <2>6, <2>7, <3>2
  <2>8. CASE p = o
    <3> DEFINE others == Sessions \ {s}
    <3>1. IsFiniteSet(others) /\ Cardinality(others) = N - 1 /\ N - 1 \in Nat
      BY OthersFinite
    <3>2. SumFunctionOnSet(Wants(req', p), Sessions)
            = n + SumFunctionOnSet(Wants(req', p), others)
      BY <2>2, <2>3, <2>8, SessionsFinite, SumRemove
    <3>3. SumFunctionOnSet(Wants(req', p), others) \in Nat
      BY <2>2, <3>1, SumType
    <3>4. \A t \in others : Wants(req', p)[t] \in Int /\ Wants(req', p)[t] <= service[p].quantity
      BY <2>2, <2>4, <2>5
    <3>5. SumFunctionOnSet(Wants(req', p), others) <= (N - 1) * service[p].quantity
      BY <2>6, <3>1, <3>4, SumBound
    <3>6. N * service[p].quantity = service[p].quantity + (N - 1) * service[p].quantity
      BY <2>6, SessionsFinite, TimesLess
    <3>7. (N - 1) * service[p].quantity \in Int /\ n <= service[p].quantity
      BY <1>1, <1>6, <2>6, <2>8, SessionsFinite
    <3> HIDE DEF others
    <3>8. service[p].certified + SumFunctionOnSet(Wants(req', p), Sessions) <= N * service[p].quantity
      BY <1>1, <1>6, <2>6, <2>8, <3>2, <3>3, <3>5, <3>6, <3>7
    <3> QED BY <2>3, <2>4, <2>5, <2>8, <3>7, <3>8
  <2> QED BY <2>7, <2>8
<1> QED BY <1>3, <1>4, <1>7, <1>8 DEF ServiceInv, r

(* The bill is numbered from the count: the request wants what it wanted.  *)
LEMMA NumberBillInv ==
    ASSUME TypeOK, ServiceInv, NEW s \in Sessions, NumberBill(s),
           UNCHANGED <<fab, vendorKnown, flag, transfer>>
    PROVE  /\ TypeOK' /\ ServiceInv'
           /\ \E r \in ServiceRequests : r.op = "bill" /\ Moves(s, r)
<1> DEFINE o == req[s].order
           r == [op |-> "bill", order |-> o, qty |-> req[s].qty,
                 final |-> req[s].final, number |-> NextBill(o)]
<1>1. req[s].op = "certify" /\ req' = [req EXCEPT ![s] = r] /\ service' = service
  BY DEF NumberBill
<1>2. o \in ServiceOrderIds /\ req[s].qty \in Nat /\ req[s].final \in BOOLEAN
  BY <1>1, RequestFields DEF TypeOK, AllRequests, ServiceOps
<1>3. Cardinality(service[o].numbers) \in Nat
  BY <1>2, FS_CardinalityType DEF ServiceInv, ServiceGrounded
<1>4. r \in ServiceRequests
  BY <1>2, <1>3 DEF ServiceRequests, NextBill
<1>5. Moves(s, r)
  BY <1>1, <1>4 DEF TypeOK, Moves, AllRequests
<1>6. TypeOK'
  BY <1>1, <1>5 DEF NumberBill, TypeOK, Moves, AllRequests, ledgers, LedgersTypeOK,
                    ServiceTypeOK, FabTypeOK, StockTypeOK
<1>7. /\ r.op = "bill" /\ r.order = o /\ r.qty = req[s].qty
      /\ r.number \in 1..(Cardinality(service[o].numbers) + 1)
  BY <1>3 DEF NextBill
<1> HIDE DEF r
<1>8. \A p : \A t \in Sessions : Wants(req', p)[t] = Wants(req, p)[t]
  BY <1>1, <1>5, <1>7 DEF Moves, Wants
<1>9. BillsNumbered' /\ ScopeShared'
  <2>1. req \in Requesting
    BY DEF TypeOK, Requesting, AllRequests
  <2>2. \A p : \A t \in Sessions : Wants(req', p)[t] <= Wants(req, p)[t]
    BY <1>8, <2>1, WantsType
  <2>3. \A p \in ServiceOrderIds :
          /\ service'[p].certified = service[p].certified
          /\ service'[p].numbers = service[p].numbers
          /\ service'[p].quantity >= service[p].quantity
          /\ service'[p].announced >= service[p].announced
    BY <1>1, ServiceFields
  <2> QED BY <1>6, <2>2, <2>3, ServiceQuiet
<1>10. ServiceGrounded'
  <2>1. service[o].status # "absent" /\ service[o].announced > 0
    BY <1>1 DEF ServiceInv, ServiceGrounded, ServiceOps
  <2> QED BY <1>1, <1>5, <1>7, <2>1 DEF ServiceInv, ServiceGrounded, Moves
<1> QED BY <1>4, <1>5, <1>6, <1>7, <1>9, <1>10 DEF ServiceInv

(* What a bill leaves behind.                                              *)
LEMMA BillServiceTyped ==
    ASSUME TypeOK, NEW s \in Sessions, BillService(s),
           UNCHANGED <<fab, vendorKnown, flag, transfer>>
    PROVE  LET o == req[s].order
               left == Outstanding(o) - req[s].qty
               short == req[s].final /\ left > 0
           IN  /\ TypeOK' /\ Moves(s, Idle) /\ UNCHANGED onHand
               /\ o \in ServiceOrderIds /\ req[s].qty \in Nat /\ left \in Int
               /\ req[s].op = "bill" /\ req[s].number \notin service[o].numbers
               /\ service'[o].status \in {"complete", service[o].status}
               /\ service'[o].quantity = service[o].quantity
               /\ service'[o].announced = service[o].announced
               /\ service'[o].numbers = service[o].numbers \cup {req[s].number}
               /\ service'[o].certified = service[o].certified + req[s].qty
               /\ service'[o].short = service[o].short + (IF short THEN left ELSE 0)
               /\ \A p \in ServiceOrderIds : p # o => service'[p] = service[p]
               /\ cost' = Posted(cost, "project", "SUBCONTRACT", req[s].qty)
               /\ held'[o] = held[o] - (IF short THEN left ELSE 0)
               /\ \A e \in Documents : e # o => held'[e] = held[e]
<1> DEFINE o == req[s].order
           left == Outstanding(o) - req[s].qty
           short == req[s].final /\ left > 0
           freed == IF short THEN left ELSE 0
           status == IF req[s].final \/ left <= 0 THEN "complete" ELSE service[o].status
<1>1. req[s].op = "bill"
  BY DEF BillService
<1>2. o \in ServiceOrderIds /\ req[s].qty \in Nat /\ req[s].number \in Nat /\ o \in Documents
  BY <1>1, RequestFields, SiteWorksAssumption DEF TypeOK, ServiceOps, AllRequests
<1>3. left \in Int /\ freed \in Nat
  BY <1>2, ServiceFields DEF Outstanding
<1>4. Moves(s, Idle) /\ UNCHANGED onHand /\ req[s].number \notin service[o].numbers
      /\ cost' = Posted(cost, "project", "SUBCONTRACT", req[s].qty)
  BY FinishMoves DEF BillService, FreeNumber
<1>5. service' = [service EXCEPT
           ![o].numbers = @ \cup {req[s].number},
           ![o].certified = @ + req[s].qty,
           ![o].short = @ + freed,
           ![o].status = status]
  BY DEF BillService
<1>6. IF short THEN Release(o, left) ELSE UNCHANGED <<committed, held>>
  BY DEF BillService
<1>7. /\ LedgersTypeOK' /\ held'[o] = held[o] - freed
      /\ \A e \in Documents : e # o => held'[e] = held[e]
  <2>1. cost' \in [Projects -> [Categories -> Int]]
    <3>1. /\ cost \in [Projects -> [Categories -> Int]]
          /\ "project" \in Projects /\ "SUBCONTRACT" \in Categories
      BY DEF TypeOK, LedgersTypeOK, Projects, Categories
    <3> QED BY <1>2, <1>4, <3>1, PostedEffect
  <2>2. CASE short
    BY <1>2, <1>3, <1>4, <1>6, <2>1, <2>2, ReleaseEffect DEF TypeOK, LedgersTypeOK
  <2>3. CASE ~short
    <3>1. held' = held /\ committed' = committed /\ freed = 0
      BY <1>6, <2>3
    <3>2. held[o] \in Nat
      BY <1>2 DEF TypeOK, LedgersTypeOK
    <3> QED BY <1>4, <2>1, <3>1, <3>2 DEF TypeOK, LedgersTypeOK
  <2> QED BY <2>2, <2>3
<1>8. status \in {"complete", service[o].status}
  OBVIOUS
<1> HIDE DEF o, freed, status, left, short
<1>9. /\ service'[o].status = status
      /\ service'[o].quantity = service[o].quantity
      /\ service'[o].announced = service[o].announced
      /\ service'[o].numbers = service[o].numbers \cup {req[s].number}
      /\ service'[o].certified = service[o].certified + req[s].qty
      /\ service'[o].short = service[o].short + freed
      /\ \A p \in ServiceOrderIds : p # o => service'[p] = service[p]
  BY <1>2, <1>5 DEF TypeOK, ServiceTypeOK, ServiceRows
<1>10. ServiceTypeOK'
  <2>1. service[o] \in ServiceRows
    BY <1>2 DEF TypeOK, ServiceTypeOK
  <2>2. status \in ServiceStatuses
    BY <1>8, <2>1 DEF ServiceStatuses, ServiceRows
  <2> DEFINE f1 == [service EXCEPT ![o].numbers = @ \cup {req[s].number}]
             f2 == [f1 EXCEPT ![o].certified = service[o].certified + req[s].qty]
             f3 == [f2 EXCEPT ![o].short = service[o].short + freed]
             f4 == [f3 EXCEPT ![o].status = status]
  <2>3. f1 \in [ServiceOrderIds -> ServiceRows]
    BY <1>2 DEF TypeOK, ServiceTypeOK, ServiceRows
  <2>4. service' = f4
    BY <1>5
  <2>5. service[o].certified + req[s].qty \in Nat /\ service[o].short + freed \in Nat
    BY <1>2, <1>3, <2>1 DEF ServiceRows
  <2> HIDE DEF f1
  <2>6. f2 \in [ServiceOrderIds -> ServiceRows]
    BY <1>2, <2>3, <2>5 DEF ServiceRows
  <2> HIDE DEF f2
  <2>7. f3 \in [ServiceOrderIds -> ServiceRows]
    BY <1>2, <2>5, <2>6 DEF ServiceRows
  <2> HIDE DEF f3
  <2>8. f4 \in [ServiceOrderIds -> ServiceRows]
    BY <1>2, <2>2, <2>7 DEF ServiceRows
  <2> QED BY <2>4, <2>8 DEF ServiceTypeOK
<1>11. TypeOK'
  BY <1>4, <1>7, <1>10 DEF TypeOK, Moves, AllRequests, FabTypeOK, StockTypeOK
<1> QED BY <1>1, <1>2, <1>3, <1>4, <1>7, <1>8, <1>9, <1>11 DEF o, freed, left, short

(* A bill: its number is the next, and what was wanted is certified.       *)
LEMMA BillServiceInv ==
    ASSUME TypeOK, ServiceInv, NEW s \in Sessions, BillService(s),
           UNCHANGED <<fab, vendorKnown, flag, transfer>>
    PROVE  ServiceInv'
<1> DEFINE o == req[s].order
           k == req[s].number
           c == Cardinality(service[o].numbers)
<1>1. /\ TypeOK' /\ Moves(s, Idle)
      /\ o \in ServiceOrderIds /\ req[s].qty \in Nat
      /\ req[s].op = "bill" /\ k \notin service[o].numbers
      /\ service'[o].status \in {"complete", service[o].status}
      /\ service'[o].quantity = service[o].quantity
      /\ service'[o].announced = service[o].announced
      /\ service'[o].numbers = service[o].numbers \cup {k}
      /\ service'[o].certified = service[o].certified + req[s].qty
      /\ \A p \in ServiceOrderIds : p # o => service'[p] = service[p]
  BY BillServiceTyped
<1>2. /\ k \in 1..(c + 1) /\ service[o].announced > 0 /\ service[o].status # "absent"
      /\ service[o].numbers = 1..c /\ c \in Nat
  <2>1. IsFiniteSet(service[o].numbers)
    BY <1>1 DEF ServiceInv, ServiceGrounded
  <2> QED BY <1>1, <2>1, FS_CardinalityType DEF ServiceInv, ServiceGrounded, BillsNumbered, ServiceOps
<1>3. service'[o].numbers = 1..(c + 1) /\ Cardinality(1..(c + 1)) = c + 1 /\ IsFiniteSet(1..(c + 1))
  <2>1. k = c + 1
    BY <1>1, <1>2
  <2>2. 1 \in Int /\ c + 1 \in Int /\ ~(1 > c + 1) /\ ((c + 1) - 1) + 1 = c + 1
    BY <1>2
  <2>3. (1..c) \cup {c + 1} = 1..(c + 1)
    BY <1>2
  <2>4. service'[o].numbers = 1..(c + 1)
    BY <1>1, <1>2, <2>1, <2>3
  <2> HIDE DEF c
  <2>5. Cardinality(1..(c + 1)) = c + 1 /\ IsFiniteSet(1..(c + 1))
    BY <2>2, FS_Interval
  <2> QED BY <2>4, <2>5
<1> HIDE DEF k, c
<1>4. BillsNumbered'
  BY <1>1, <1>2, <1>3 DEF ServiceInv, BillsNumbered
<1>5. \A t \in Sessions : t # s => req'[t] = req[t]
  BY <1>1 DEF Moves
<1>6. req'[s].op = "idle"
  BY <1>1 DEF Moves, Idle
<1>7. ServiceGrounded'
  <2>1. \A p \in ServiceOrderIds :
          /\ service'[p].status = "absent" => service'[p] = NoServiceOrder
          /\ service'[p].status \in {"issued", "complete"} => service'[p].announced > 0
          /\ IsFiniteSet(service'[p].numbers)
    BY <1>1, <1>2, <1>3 DEF ServiceInv, ServiceGrounded
  <2>2. ASSUME NEW t \in Sessions
        PROVE  /\ req'[t].op \in ServiceOps => service'[req'[t].order].status # "absent"
               /\ req'[t].op \in {"certify", "bill"} => service'[req'[t].order].announced > 0
               /\ req'[t].op = "bill" =>
                    req'[t].number \in 1..(Cardinality(service'[req'[t].order].numbers) + 1)
    <3>1. CASE t = s
      BY <1>6, <3>1 DEF ServiceOps
    <3>2. CASE t # s /\ req[t].op \in ServiceOps
      <4>1. req'[t] = req[t] /\ req[t].order \in ServiceOrderIds
        BY <1>5, <3>2, RequestFields DEF TypeOK, AllRequests
      <4>2. /\ service[req[t].order].status # "absent"
            /\ req[t].op \in {"certify", "bill"} => service[req[t].order].announced > 0
            /\ req[t].op = "bill" =>
                 req[t].number \in 1..(Cardinality(service[req[t].order].numbers) + 1)
        BY <3>2 DEF ServiceInv, ServiceGrounded
      <4>3. CASE req[t].order = o
        <5>1. req[t].op = "bill" => req[t].number \in 1..(c + 1)
          BY <4>2, <4>3 DEF c
        <5>2. req[t].op = "bill" => req[t].number \in 1..((c + 1) + 1)
          BY <1>2, <5>1
        <5> QED BY <1>1, <1>2, <1>3, <4>1, <4>3, <5>2
      <4>4. CASE req[t].order # o
        BY <1>1, <4>1, <4>2, <4>4
      <4> QED BY <4>3, <4>4
    <3>3. CASE t # s /\ req[t].op \notin ServiceOps
      BY <1>5, <3>3 DEF ServiceOps
    <3> QED BY <3>1, <3>2, <3>3
  <2> QED BY <2>1, <2>2 DEF ServiceGrounded
<1>8. ScopeShared'
  <2> SUFFICES ASSUME NEW p \in ServiceOrderIds
               PROVE  /\ \A t \in Sessions : Wants(req', p)[t] <= service'[p].quantity
                      /\ service'[p].certified + SumFunctionOnSet(Wants(req', p), Sessions)
                           <= N * service'[p].quantity
    BY DEF ScopeShared
  <2>1. req \in Requesting /\ req' \in Requesting
    BY <1>1 DEF TypeOK, Requesting, AllRequests
  <2>2. \A t \in Sessions : Wants(req, p)[t] \in Nat /\ Wants(req', p)[t] \in Nat
    BY <2>1, WantsType
  <2>3. Wants(req', p)[s] = 0
    BY <1>6 DEF Wants
  <2>4. \A t \in Sessions \ {s} : Wants(req, p)[t] = Wants(req', p)[t]
    BY <1>5 DEF Wants
  <2>5. Wants(req, p)[s] = IF p = o THEN req[s].qty ELSE 0
    BY <1>1 DEF Wants
  <2>6. SumFunctionOnSet(Wants(req', p), Sessions)
          = SumFunctionOnSet(Wants(req, p), Sessions) + Wants(req', p)[s] - Wants(req, p)[s]
    <3>1. \A t \in Sessions : Wants(req, p)[t] \in Int /\ Wants(req', p)[t] \in Int
      BY <2>2
    <3> QED BY <2>4, <3>1, SessionsFinite, SumChange
  <2>7. /\ \A t \in Sessions : Wants(req, p)[t] <= service[p].quantity
        /\ service[p].certified + SumFunctionOnSet(Wants(req, p), Sessions)
             <= N * service[p].quantity
    BY DEF ServiceInv, ScopeShared
  <2>8. /\ service[p].quantity \in Nat /\ service[p].certified \in Nat
        /\ SumFunctionOnSet(Wants(req, p), Sessions) \in Nat
    BY <2>1, ServiceFields, WantsSum
  <2>9. /\ service'[p].quantity = service[p].quantity
        /\ service'[p].certified = service[p].certified + Wants(req, p)[s]
    BY <1>1, <2>5, <2>8
  <2>10. \A t \in Sessions : Wants(req', p)[t] <= service[p].quantity
    BY <2>3, <2>4, <2>7, <2>8
  <2>11. service'[p].certified + SumFunctionOnSet(Wants(req', p), Sessions)
           = service[p].certified + SumFunctionOnSet(Wants(req, p), Sessions)
    BY <2>2, <2>3, <2>6, <2>8, <2>9
  <2> QED BY <2>7, <2>9, <2>10, <2>11
<1> QED BY <1>4, <1>7, <1>8 DEF ServiceInv

-----------------------------------------------------------------------------
(* Fabrication.                                                            *)

LEMMA FabFields ==
    ASSUME TypeOK
    PROVE  \A o \in FabOrderIds :
               /\ fab[o] \in FabRows
               /\ fab[o].quantity \in Nat /\ fab[o].asked \in Nat
               /\ fab[o].started \in Nat /\ fab[o].finished \in Nat
  BY DEF TypeOK, FabTypeOK, FabRows

LEMMA CompletingSize ==
    ASSUME NEW q, NEW o
    PROVE  /\ IsFiniteSet(Completing(q, o))
           /\ Cardinality(Completing(q, o)) \in Nat
           /\ Cardinality(Completing(q, o)) <= N
<1>1. Completing(q, o) \in SUBSET Sessions
  BY DEF Completing
<1>2. IsFiniteSet(Completing(q, o)) /\ Cardinality(Completing(q, o)) <= N
  BY <1>1, SessionsFinite, FS_Subset DEF N
<1> QED BY <1>2, FS_CardinalityType

\* No session begins to complete o.
LEMMA CompletingShrink ==
    ASSUME NEW q, NEW p, NEW o,
           \A s \in Sessions : p[s] = q[s] \/ ~(p[s].op = "complete" /\ p[s].order = o)
    PROVE  Cardinality(Completing(p, o)) <= Cardinality(Completing(q, o))
<1>1. Completing(p, o) \in SUBSET Completing(q, o)
  BY DEF Completing
<1> QED BY <1>1, CompletingSize, FS_Subset

(* An order that has been started or asked for no fewer times, that is not *)
(* newly under way, and that no session begins to complete.                *)
LEMMA RunsQuiet ==
    ASSUME TypeOK, FabInv, TypeOK', NEW o \in FabOrderIds,
           fab'[o].finished = fab[o].finished,
           fab'[o].started = fab[o].started, fab'[o].asked = fab[o].asked,
           Completable(o)' => Completable(o),
           Completable(o)' \/ Cardinality(Completing(req', o)) <= Cardinality(Completing(req, o))
    PROVE  fab'[o].finished
             + (IF Completable(o)' THEN N ELSE Cardinality(Completing(req', o)))
             <= N * (fab'[o].started + fab'[o].asked)
<1>1. /\ Cardinality(Completing(req, o)) \in Nat /\ Cardinality(Completing(req, o)) <= N
      /\ Cardinality(Completing(req', o)) \in Nat /\ Cardinality(Completing(req', o)) <= N
      /\ N \in Nat
  BY CompletingSize, SessionsFinite
<1>2. fab[o].finished + (IF Completable(o) THEN N ELSE Cardinality(Completing(req, o)))
        <= N * (fab[o].started + fab[o].asked)
  BY DEF FabInv, RunsShared
<1>3. fab[o].finished \in Nat /\ N * (fab[o].started + fab[o].asked) \in Int
  BY FabFields, SessionsFinite
<1> QED BY <1>1, <1>2, <1>3

LEMMA FabFrame ==
    ASSUME TypeOK, FabInv, TypeOK', UNCHANGED fab,
           \A s \in Sessions : req'[s] = req[s] \/ req'[s].op \notin FabOps
    PROVE  FabInv'
<1>1. FabGrounded'
  BY DEF FabInv, FabGrounded
<1>2. \A o : Cardinality(Completing(req', o)) <= Cardinality(Completing(req, o))
  BY CompletingShrink DEF FabOps
<1>3. \A o \in FabOrderIds : Completable(o)' <=> Completable(o)
  BY DEF Completable
<1>4. RunsShared'
  BY <1>2, <1>3, RunsQuiet DEF RunsShared
<1> QED BY <1>1, <1>4 DEF FabInv

LEMMA CreateFabTyped ==
    ASSUME TypeOK, NEW o \in FabOrderIds, NEW n \in FabQtys, NEW mode \in Modes,
           CreateFabOrder(o, n, mode), UNCHANGED <<service, flag, transfer>>
    PROVE  /\ TypeOK' /\ UNCHANGED <<req, onHand, cost>>
           /\ fab'[o].status = "draft" /\ fab'[o].finished = 0
           /\ fab'[o].started = 0 /\ fab'[o].asked = 0
           /\ \A p \in FabOrderIds : p # o => fab'[p] = fab[p]
           /\ \A e \in Documents : e # o => held'[e] = held[e]
<1>1. n \in Nat /\ o \in Documents
  BY SiteWorksAssumption
<1>2. /\ LedgersTypeOK' /\ UNCHANGED <<req, onHand, cost>>
      /\ \A e \in Documents : e # o => held'[e] = held[e]
  BY <1>1, ReserveEffect DEF TypeOK, LedgersTypeOK, CreateFabOrder
<1>3. /\ FabTypeOK'
      /\ fab'[o].status = "draft" /\ fab'[o].finished = 0
      /\ fab'[o].started = 0 /\ fab'[o].asked = 0
      /\ \A p \in FabOrderIds : p # o => fab'[p] = fab[p]
  <2> DEFINE row == [NoFabOrder EXCEPT !.status = "draft", !.quantity = n, !.mode = mode]
  <2>1. row \in FabRows
    BY <1>1 DEF NoFabOrder, FabRows, FabStatuses
  <2>2. row.status = "draft" /\ row.finished = 0 /\ row.started = 0 /\ row.asked = 0
    BY DEF NoFabOrder
  <2>3. fab' = [fab EXCEPT ![o] = row] /\ vendorKnown' = vendorKnown
    BY DEF CreateFabOrder
  <2> HIDE DEF row
  <2>4. FabTypeOK' /\ fab'[o] = row /\ \A p \in FabOrderIds : p # o => fab'[p] = fab[p]
    BY <2>1, <2>3 DEF TypeOK, FabTypeOK
  <2> QED BY <2>2, <2>4
<1> QED BY <1>2, <1>3 DEF TypeOK, ServiceTypeOK, StockTypeOK

LEMMA CreateFabInv ==
    ASSUME TypeOK, FabInv, NEW o \in FabOrderIds, NEW n \in FabQtys, NEW mode \in Modes,
           CreateFabOrder(o, n, mode), UNCHANGED <<service, flag, transfer>>
    PROVE  FabInv'
<1>1. /\ TypeOK' /\ UNCHANGED req
      /\ fab'[o].status = "draft" /\ fab'[o].finished = 0
      /\ fab'[o].started = 0 /\ fab'[o].asked = 0
      /\ \A p \in FabOrderIds : p # o => fab'[p] = fab[p]
  BY CreateFabTyped
<1>2. fab[o].finished = 0 /\ fab[o].started = 0 /\ fab[o].asked = 0
  BY DEF FabInv, FabGrounded, CreateFabOrder, NoFabOrder
<1>3. FabGrounded'
  <2>1. \A s \in Sessions : req[s].op \in FabOps => req[s].order \in FabOrderIds
    BY RequestFields DEF TypeOK, AllRequests
  <2> QED BY <1>1, <2>1 DEF FabInv, FabGrounded
<1>4. \A p \in FabOrderIds : Completable(p)' => Completable(p)
  BY <1>1 DEF Completable
<1>5. \A p : Cardinality(Completing(req', p)) <= Cardinality(Completing(req, p))
  BY <1>1, CompletingShrink
<1>6. RunsShared'
  BY <1>1, <1>2, <1>4, <1>5, RunsQuiet DEF RunsShared
<1> QED BY <1>3, <1>6 DEF FabInv

(* A request about an order that exists begins; one that completes it has  *)
(* found it under way.                                                     *)
LEMMA BeginFabInv ==
    ASSUME TypeOK, FabInv, NEW s \in Sessions, NEW r \in FabRequests,
           Begin(s, r), fab[r.order].status # "absent",
           r.op = "complete" => Completable(r.order),
           UNCHANGED <<ledgers, fab, vendorKnown, service, flag, transfer>>
    PROVE  TypeOK' /\ Moves(s, r) /\ FabInv'
<1>1. r \in AllRequests
  BY DEF AllRequests
<1>2. Moves(s, r)
  BY <1>1, BeginMoves
<1>3. TypeOK'
  BY <1>2 DEF TypeOK, Moves, AllRequests, ledgers, LedgersTypeOK, ServiceTypeOK, FabTypeOK,
              StockTypeOK
<1>4. FabGrounded'
  BY <1>2 DEF FabInv, FabGrounded, Moves
<1>5. \A o \in FabOrderIds : Completable(o)' <=> Completable(o)
  BY DEF Completable
<1>6. ASSUME NEW o \in FabOrderIds
      PROVE  Completable(o)'
               \/ Cardinality(Completing(req', o)) <= Cardinality(Completing(req, o))
  <2>1. CASE r.op = "complete" /\ r.order = o
    BY <1>5, <2>1
  <2>2. CASE ~(r.op = "complete" /\ r.order = o)
    <3>1. \A t \in Sessions :
            req'[t] = req[t] \/ ~(req'[t].op = "complete" /\ req'[t].order = o)
      BY <1>2, <2>2 DEF Moves
    <3> QED BY <3>1, CompletingShrink
  <2> QED BY <2>1, <2>2
<1>7. RunsShared'
  BY <1>3, <1>5, <1>6, RunsQuiet DEF RunsShared
<1> QED BY <1>2, <1>3, <1>4, <1>7 DEF FabInv

(* The order o has been started, or has asked for material, once more.     *)
LEMMA RunAgain ==
    ASSUME TypeOK, FabInv, TypeOK', NEW s \in Sessions, Moves(s, Idle),
           NEW o \in FabOrderIds, fab'[o].status # "absent",
           fab'[o].finished = fab[o].finished,
           fab'[o].started + fab'[o].asked = fab[o].started + fab[o].asked + 1,
           \A p \in FabOrderIds : p # o => fab'[p] = fab[p]
    PROVE  FabInv'
<1>1. \A t \in Sessions : req'[t] = req[t] \/ req'[t].op = "idle"
  BY DEF Moves, Idle
<1>2. \A t \in Sessions : req'[t].op \in FabOps => req'[t].order \in FabOrderIds
  BY RequestFields DEF TypeOK, AllRequests
<1>3. FabGrounded'
  BY <1>1, <1>2 DEF FabInv, FabGrounded, FabOps
<1>4. \A p : Cardinality(Completing(req', p)) <= Cardinality(Completing(req, p))
  BY <1>1, CompletingShrink
<1>5. RunsShared'
  <2> SUFFICES ASSUME NEW p \in FabOrderIds
               PROVE  fab'[p].finished
                        + (IF Completable(p)' THEN N ELSE Cardinality(Completing(req', p)))
                        <= N * (fab'[p].started + fab'[p].asked)
    BY DEF RunsShared
  <2>1. CASE p # o
    <3>1. Completable(p)' => Completable(p)
      BY <2>1 DEF Completable
    <3> QED BY <1>4, <2>1, <3>1, RunsQuiet
  <2>2. CASE p = o
    <3> DEFINE k == fab[o].started + fab[o].asked
    <3>1. k \in Nat /\ fab[o].finished \in Nat /\ N \in Nat
      BY FabFields, SessionsFinite
    <3>2. /\ Cardinality(Completing(req, o)) \in Nat
          /\ Cardinality(Completing(req', o)) \in Nat /\ Cardinality(Completing(req', o)) <= N
      BY CompletingSize
    <3>3. fab[o].finished + (IF Completable(o) THEN N ELSE Cardinality(Completing(req, o)))
            <= N * k
      BY DEF FabInv, RunsShared
    <3>4. N * (k + 1) = N * k + N /\ N * k \in Int
      BY <3>1
    <3>5. fab'[o].started + fab'[o].asked = k + 1
      OBVIOUS
    <3> HIDE DEF k
    <3> QED BY <2>2, <3>1, <3>2, <3>3, <3>4, <3>5
  <2> QED BY <2>1, <2>2
<1> QED BY <1>3, <1>5 DEF FabInv

LEMMA WriteMaterialTyped ==
    ASSUME TypeOK, NEW s \in Sessions, WriteMaterial(s), UNCHANGED <<service, flag, transfer>>
    PROVE  /\ TypeOK' /\ Moves(s, Idle) /\ UNCHANGED ledgers
           /\ req[s].op \in FabOps /\ req[s].order \in FabOrderIds
           /\ \A p \in FabOrderIds : p # req[s].order => fab'[p] = fab[p]
           /\ LET o == req[s].order
              IN  /\ fab'[o].status = "awaiting_material"
                  /\ fab'[o].asked = fab[o].asked + 1
                  /\ fab'[o].started = fab[o].started
                  /\ fab'[o].finished = fab[o].finished
                  /\ fab'[o].quantity = fab[o].quantity
<1> DEFINE o == req[s].order
<1>1. req[s].op = "request_material" /\ UNCHANGED <<ledgers, vendorKnown>>
  BY DEF WriteMaterial
<1>2. o \in FabOrderIds
  BY <1>1, RequestFields DEF TypeOK, FabOps, AllRequests
<1>3. Moves(s, Idle)
  BY FinishMoves DEF WriteMaterial
<1>4. fab' = [fab EXCEPT ![o].status = "awaiting_material", ![o].asked = @ + 1]
  BY DEF WriteMaterial
<1> HIDE DEF o
<1>5. /\ fab'[o].status = "awaiting_material"
      /\ fab'[o].asked = fab[o].asked + 1
      /\ fab'[o].started = fab[o].started
      /\ fab'[o].finished = fab[o].finished
      /\ fab'[o].quantity = fab[o].quantity
      /\ \A p \in FabOrderIds : p # o => fab'[p] = fab[p]
  BY <1>2, <1>4 DEF TypeOK, FabTypeOK, FabRows
<1>6. FabTypeOK'
  <2> DEFINE f1 == [fab EXCEPT ![o].status = "awaiting_material"]
             f2 == [f1 EXCEPT ![o].asked = fab[o].asked + 1]
  <2>1. fab' = f2
    BY <1>4
  <2>2. f1 \in [FabOrderIds -> FabRows] /\ fab[o].asked + 1 \in Nat
    BY <1>2 DEF TypeOK, FabTypeOK, FabRows, FabStatuses
  <2> HIDE DEF f1
  <2>3. f2 \in [FabOrderIds -> FabRows]
    BY <1>2, <2>2 DEF FabRows
  <2> QED BY <1>1, <2>1, <2>3 DEF TypeOK, FabTypeOK
<1>7. TypeOK'
  BY <1>1, <1>3, <1>6
     DEF TypeOK, Moves, AllRequests, ServiceTypeOK, StockTypeOK, ledgers, LedgersTypeOK
<1> QED BY <1>1, <1>2, <1>3, <1>5, <1>7 DEF o, FabOps

LEMMA WriteMaterialInv ==
    ASSUME TypeOK, FabInv, NEW s \in Sessions, WriteMaterial(s),
           UNCHANGED <<service, flag, transfer>>
    PROVE  FabInv'
<1> DEFINE o == req[s].order
<1>1. /\ TypeOK' /\ Moves(s, Idle) /\ o \in FabOrderIds
      /\ fab'[o].status # "absent" /\ fab'[o].finished = fab[o].finished
      /\ fab'[o].started = fab[o].started /\ fab'[o].asked = fab[o].asked + 1
      /\ \A p \in FabOrderIds : p # o => fab'[p] = fab[p]
  BY WriteMaterialTyped
<1> HIDE DEF o
<1>2. fab'[o].started + fab'[o].asked = fab[o].started + fab[o].asked + 1
  BY <1>1, FabFields
<1> QED BY <1>1, <1>2, RunAgain

(* Starting moves material from the works to the vendor, or nothing.       *)
LEMMA WriteStartTyped ==
    ASSUME TypeOK, NEW s \in Sessions, WriteStart(s), UNCHANGED <<service, flag, transfer>>
    PROVE  /\ TypeOK' /\ Moves(s, Idle) /\ UNCHANGED <<cost, committed, held>>
           /\ req[s].op \in FabOps /\ req[s].order \in FabOrderIds
           /\ \A p \in FabOrderIds : p # req[s].order => fab'[p] = fab[p]
           /\ LET o == req[s].order
              IN  /\ fab'[o].status = "in_progress"
                  /\ fab'[o].started = fab[o].started + 1
                  /\ fab'[o].asked = fab[o].asked
                  /\ fab'[o].finished = fab[o].finished
                  /\ fab'[o].quantity = fab[o].quantity
           /\ \A i \in Items : onHand'[i]["outside"] = onHand[i]["outside"]
<1> DEFINE o == req[s].order
<1>1. req[s].op = "start" /\ UNCHANGED <<cost, committed, held>>
  BY DEF WriteStart
<1>2. o \in FabOrderIds
  BY <1>1, RequestFields DEF TypeOK, FabOps, AllRequests
<1>3. Moves(s, Idle)
  BY FinishMoves DEF WriteStart
<1>4. /\ fab' = [fab EXCEPT ![o].status = "in_progress", ![o].started = @ + 1]
      /\ onHand' = IF JobWork(o)
                   THEN Moved(onHand, "material", Planned(o), "works", "vendor")
                   ELSE onHand
      /\ vendorKnown' = (vendorKnown \/ JobWork(o))
  BY DEF WriteStart, SendTo
<1> HIDE DEF o
<1>5. /\ fab'[o].status = "in_progress"
      /\ fab'[o].started = fab[o].started + 1
      /\ fab'[o].asked = fab[o].asked
      /\ fab'[o].finished = fab[o].finished
      /\ fab'[o].quantity = fab[o].quantity
      /\ \A p \in FabOrderIds : p # o => fab'[p] = fab[p]
  BY <1>2, <1>4 DEF TypeOK, FabTypeOK, FabRows
<1>6. FabTypeOK'
  <2> DEFINE f1 == [fab EXCEPT ![o].status = "in_progress"]
             f2 == [f1 EXCEPT ![o].started = fab[o].started + 1]
  <2>1. fab' = f2
    BY <1>4
  <2>2. f1 \in [FabOrderIds -> FabRows] /\ fab[o].started + 1 \in Nat
    BY <1>2 DEF TypeOK, FabTypeOK, FabRows, FabStatuses
  <2> HIDE DEF f1
  <2>3. f2 \in [FabOrderIds -> FabRows]
    BY <1>2, <2>2 DEF FabRows
  <2>4. vendorKnown' \in BOOLEAN
    BY <1>4, Zenon DEF JobWork, TypeOK, FabTypeOK
  <2> QED BY <2>1, <2>3, <2>4 DEF FabTypeOK
<1>7. /\ onHand' \in [Items -> [Places -> Int]]
      /\ \A i \in Items : onHand'[i]["outside"] = onHand[i]["outside"]
  <2>1. onHand \in [Items -> [Places -> Int]]
    BY DEF TypeOK, LedgersTypeOK
  <2>2. Planned(o) \in Int
    BY <1>2, FabFields, SiteWorksAssumption DEF Planned
  <2>3. /\ "material" \in Items /\ "works" \in Places /\ "vendor" \in Places
        /\ "outside" \in Places
    BY DEF Items, Places
  <2>4. CASE JobWork(o)
    <3> DEFINE moved == Moved(onHand, "material", Planned(o), "works", "vendor")
               n == Planned(o)
    <3>1. moved = Moved(onHand, "material", n, "works", "vendor") /\ n \in Int
      BY <2>2
    <3> HIDE DEF moved, n
    <3>2. moved \in [Items -> [Places -> Int]]
      BY <2>1, <2>3, <3>1, MovedEffect
    <3>3. moved["material"]["outside"]
            = onHand["material"]["outside"] + Left(n, "works", "vendor")
      BY <2>1, <2>3, <3>1, MovedEffect
    <3>4. \A j \in Items : j # "material" => moved[j] = onHand[j]
      BY <2>1, <3>1, MovedOthers
    <3>5. onHand["material"]["outside"] \in Int
      BY <2>1, <2>3
    <3>6. Left(n, "works", "vendor") = 0
      BY <3>1 DEF Left
    <3>7. moved["material"]["outside"] = onHand["material"]["outside"]
      BY <3>3, <3>5, <3>6
    <3>8. onHand' = moved
      BY <1>4, <2>4 DEF moved, n
    <3> QED BY <3>2, <3>4, <3>7, <3>8
  <2>5. CASE ~JobWork(o)
    BY <1>4, <2>1, <2>5
  <2> QED BY <2>4, <2>5
<1>8. TypeOK'
  BY <1>1, <1>3, <1>6, <1>7 DEF TypeOK, Moves, AllRequests, ServiceTypeOK, StockTypeOK, LedgersTypeOK
<1> QED BY <1>1, <1>2, <1>3, <1>5, <1>7, <1>8 DEF o, FabOps

LEMMA WriteStartInv ==
    ASSUME TypeOK, FabInv, NEW s \in Sessions, WriteStart(s),
           UNCHANGED <<service, flag, transfer>>
    PROVE  FabInv'
<1> DEFINE o == req[s].order
<1>1. /\ TypeOK' /\ Moves(s, Idle) /\ o \in FabOrderIds
      /\ fab'[o].status # "absent" /\ fab'[o].finished = fab[o].finished
      /\ fab'[o].started = fab[o].started + 1 /\ fab'[o].asked = fab[o].asked
      /\ \A p \in FabOrderIds : p # o => fab'[p] = fab[p]
  BY WriteStartTyped
<1> HIDE DEF o
<1>2. fab'[o].started + fab'[o].asked = fab[o].started + fab[o].asked + 1
  BY <1>1, FabFields
<1> QED BY <1>1, <1>2, RunAgain

(* Completing consumes the plan, produces the quantity and posts a charge. *)
LEMMA WriteCompleteTyped ==
    ASSUME TypeOK, NEW s \in Sessions, WriteComplete(s), UNCHANGED <<service, flag, transfer>>
    PROVE  /\ TypeOK' /\ Moves(s, Idle) /\ UNCHANGED <<committed, held>>
           /\ req[s].op = "complete" /\ req[s].order \in FabOrderIds
           /\ \A p \in FabOrderIds : p # req[s].order => fab'[p] = fab[p]
           /\ LET o == req[s].order
              IN  /\ fab'[o].status = "complete"
                  /\ fab'[o].finished = fab[o].finished + 1
                  /\ fab'[o].started = fab[o].started
                  /\ fab'[o].asked = fab[o].asked
                  /\ fab'[o].quantity = fab[o].quantity
                  /\ onHand'["material"]["outside"] = onHand["material"]["outside"] + Planned(o)
                  /\ onHand'["product"]["outside"] = onHand["product"]["outside"] - fab[o].quantity
           /\ \E n \in Nat : cost' = Posted(cost, "project", "FABRICATION", n)
<1> DEFINE o == req[s].order
           source == IF JobWork(o) THEN "vendor" ELSE "works"
           used == Moved(onHand, "material", Planned(o), source, "outside")
           made == Moved(used, "product", fab[o].quantity, "outside", "site")
           n == req[s].charge * fab[o].quantity
<1>1. req[s].op = "complete" /\ UNCHANGED <<committed, held, vendorKnown>>
  BY DEF WriteComplete
<1>2. o \in FabOrderIds /\ req[s].charge \in Nat
  BY <1>1, RequestFields DEF TypeOK, FabOps, AllRequests
<1>3. Moves(s, Idle)
  BY FinishMoves DEF WriteComplete
<1>4. /\ fab' = [fab EXCEPT ![o].status = "complete", ![o].finished = @ + 1]
      /\ onHand' = made
      /\ cost' = Posted(cost, "project", "FABRICATION", n)
  BY DEF WriteComplete
<1>5. n \in Nat /\ Planned(o) \in Int /\ fab[o].quantity \in Nat
  BY <1>2, FabFields, SiteWorksAssumption DEF Planned
<1>6. source \in Places /\ source # "outside"
  BY DEF Places
<1> HIDE DEF o, n, source
<1>7. /\ fab'[o].status = "complete"
      /\ fab'[o].finished = fab[o].finished + 1
      /\ fab'[o].started = fab[o].started
      /\ fab'[o].asked = fab[o].asked
      /\ fab'[o].quantity = fab[o].quantity
      /\ \A p \in FabOrderIds : p # o => fab'[p] = fab[p]
  BY <1>2, <1>4 DEF TypeOK, FabTypeOK, FabRows
<1>8. FabTypeOK'
  <2> DEFINE f1 == [fab EXCEPT ![o].status = "complete"]
             f2 == [f1 EXCEPT ![o].finished = fab[o].finished + 1]
  <2>1. fab' = f2
    BY <1>4
  <2>2. f1 \in [FabOrderIds -> FabRows] /\ fab[o].finished + 1 \in Nat
    BY <1>2 DEF TypeOK, FabTypeOK, FabRows, FabStatuses
  <2> HIDE DEF f1
  <2>3. f2 \in [FabOrderIds -> FabRows]
    BY <1>2, <2>2 DEF FabRows
  <2> QED BY <1>1, <2>1, <2>3 DEF TypeOK, FabTypeOK
<1>9. /\ made \in [Items -> [Places -> Int]]
      /\ made["material"]["outside"] = onHand["material"]["outside"] + Planned(o)
      /\ made["product"]["outside"] = onHand["product"]["outside"] - fab[o].quantity
  <2>1. "material" \in Items /\ "product" \in Items /\ "outside" \in Places /\ "site" \in Places
    BY DEF Items, Places
  <2>2. onHand \in [Items -> [Places -> Int]]
    BY DEF TypeOK, LedgersTypeOK
  <2> DEFINE q == fab[o].quantity
             k == Planned(o)
  <2>3. used = Moved(onHand, "material", k, source, "outside") /\ k \in Int
    BY <1>5
  <2>4. made = Moved(used, "product", q, "outside", "site") /\ q \in Int
    BY <1>5
  <2> HIDE DEF used, made, q, k
  <2>5. used \in [Items -> [Places -> Int]]
    BY <1>6, <2>1, <2>3, <2>2, MovedEffect
  <2>6. used["material"]["outside"] = onHand["material"]["outside"] + Left(k, source, "outside")
    BY <1>6, <2>1, <2>3, <2>2, MovedLeft
  <2>7. used["product"] = onHand["product"]
    BY <2>1, <2>3, <2>2, MovedOthers
  <2>8. made \in [Items -> [Places -> Int]]
    BY <2>1, <2>5, <2>4, MovedEffect
  <2>9. made["product"]["outside"] = used["product"]["outside"] + Left(q, "outside", "site")
    BY <2>1, <2>5, <2>4, MovedLeft
  <2>10. made["material"] = used["material"]
    BY <2>1, <2>5, <2>4, MovedOthers
  <2>11. onHand["material"]["outside"] \in Int /\ onHand["product"]["outside"] \in Int
    BY <2>1, <2>2
  <2>12. Left(k, source, "outside") = k /\ Left(q, "outside", "site") = -q
    BY <1>6, <2>3, <2>4 DEF Left
  <2>13. /\ made["material"]["outside"] = onHand["material"]["outside"] + k
         /\ made["product"]["outside"] = onHand["product"]["outside"] - q
    BY <2>3, <2>6, <2>7, <2>9, <2>10, <2>11, <2>12, <2>4
  <2> QED BY <2>8, <2>13 DEF k, q
<1> HIDE DEF made
<1>10. cost' \in [Projects -> [Categories -> Int]]
  <2>1. /\ cost \in [Projects -> [Categories -> Int]]
        /\ "project" \in Projects /\ "FABRICATION" \in Categories
    BY DEF TypeOK, LedgersTypeOK, Projects, Categories
  <2> QED BY <1>4, <1>5, <2>1, PostedEffect
<1>11. TypeOK'
  BY <1>1, <1>3, <1>4, <1>8, <1>9, <1>10
     DEF TypeOK, Moves, AllRequests, ServiceTypeOK, StockTypeOK, LedgersTypeOK
<1> QED BY <1>1, <1>2, <1>3, <1>4, <1>5, <1>7, <1>9, <1>11 DEF o

(* A completion leaves one fewer to come.                                  *)
LEMMA WriteCompleteInv ==
    ASSUME TypeOK, FabInv, NEW s \in Sessions, WriteComplete(s),
           UNCHANGED <<service, flag, transfer>>
    PROVE  FabInv'
<1> DEFINE o == req[s].order
<1>1. /\ TypeOK' /\ Moves(s, Idle) /\ o \in FabOrderIds /\ req[s].op = "complete"
      /\ fab'[o].status = "complete" /\ fab'[o].finished = fab[o].finished + 1
      /\ fab'[o].started = fab[o].started /\ fab'[o].asked = fab[o].asked
      /\ \A p \in FabOrderIds : p # o => fab'[p] = fab[p]
  BY WriteCompleteTyped
<1>2. \A t \in Sessions : req'[t] = req[t] \/ req'[t].op = "idle"
  BY <1>1 DEF Moves, Idle
<1>3. \A t \in Sessions : req'[t].op \in FabOps => req'[t].order \in FabOrderIds
  BY <1>1, RequestFields DEF TypeOK, AllRequests
<1>4. FabGrounded'
  BY <1>1, <1>2, <1>3 DEF FabInv, FabGrounded, FabOps
<1>5. \A p : Cardinality(Completing(req', p)) <= Cardinality(Completing(req, p))
  BY <1>2, CompletingShrink
<1>6. RunsShared'
  <2> SUFFICES ASSUME NEW p \in FabOrderIds
               PROVE  fab'[p].finished
                        + (IF Completable(p)' THEN N ELSE Cardinality(Completing(req', p)))
                        <= N * (fab'[p].started + fab'[p].asked)
    BY DEF RunsShared
  <2>1. CASE p # o
    <3>1. Completable(p)' => Completable(p)
      BY <1>1, <2>1 DEF Completable
    <3> QED BY <1>1, <1>5, <2>1, <3>1, RunsQuiet
  <2>2. CASE p = o
    <3>1. Completing(req', o) = Completing(req, o) \ {s} /\ s \in Completing(req, o)
      BY <1>1 DEF Completing, Moves, Idle
    <3>2. Cardinality(Completing(req', o)) = Cardinality(Completing(req, o)) - 1
      BY <3>1, CompletingSize, FS_RemoveElement
    <3>3. /\ Cardinality(Completing(req, o)) \in Nat /\ Cardinality(Completing(req, o)) <= N
          /\ N \in Nat
      BY CompletingSize, SessionsFinite
    <3>4. fab[o].finished + (IF Completable(o) THEN N ELSE Cardinality(Completing(req, o)))
            <= N * (fab[o].started + fab[o].asked)
      BY <1>1 DEF FabInv, RunsShared
    <3>5. fab[o].finished \in Nat /\ N * (fab[o].started + fab[o].asked) \in Int
      BY <1>1, FabFields, SessionsFinite
    <3>6. ~Completable(p)'
      BY <1>1, <2>2 DEF Completable
    <3> QED BY <1>1, <2>2, <3>2, <3>3, <3>4, <3>5, <3>6
  <2> QED BY <2>1, <2>2
<1> QED BY <1>4, <1>6 DEF FabInv

-----------------------------------------------------------------------------
(* Transfers.                                                              *)

LEMMA AcceptingSize ==
    ASSUME NEW q, NEW t
    PROVE  /\ IsFiniteSet(Accepting(q, t))
           /\ Cardinality(Accepting(q, t)) \in Nat
           /\ Cardinality(Accepting(q, t)) <= N
<1>1. Accepting(q, t) \in SUBSET Sessions
  BY DEF Accepting
<1>2. IsFiniteSet(Accepting(q, t)) /\ Cardinality(Accepting(q, t)) <= N
  BY <1>1, SessionsFinite, FS_Subset DEF N
<1> QED BY <1>2, FS_CardinalityType

\* No session begins to accept t.
LEMMA AcceptingShrink ==
    ASSUME NEW q, NEW p, NEW t,
           \A s \in Sessions : p[s] = q[s] \/ ~(p[s].op = "accept" /\ p[s].transfer = t)
    PROVE  Cardinality(Accepting(p, t)) <= Cardinality(Accepting(q, t))
<1>1. Accepting(p, t) \in SUBSET Accepting(q, t)
  BY DEF Accepting
<1> QED BY <1>1, AcceptingSize, FS_Subset

LEMMA TransferFields ==
    ASSUME TypeOK
    PROVE  \A t \in TransferIds :
               transfer[t] \in TransferRows /\ transfer[t].moved \in Nat /\ transfer[t].to \in Sites
  BY DEF TypeOK, StockTypeOK, TransferRows

(* A transfer that moved nothing, is not newly pending, and that no        *)
(* session begins to accept.                                               *)
LEMMA MovesQuiet ==
    ASSUME TypeOK, StockInv, NEW t \in TransferIds,
           transfer'[t].moved = transfer[t].moved,
           Acceptable(t)' => Acceptable(t),
           Acceptable(t)' \/ Cardinality(Accepting(req', t)) <= Cardinality(Accepting(req, t))
    PROVE  transfer'[t].moved
             + (IF Acceptable(t)' THEN N ELSE Cardinality(Accepting(req', t))) <= N
<1>1. /\ Cardinality(Accepting(req, t)) \in Nat /\ Cardinality(Accepting(req, t)) <= N
      /\ Cardinality(Accepting(req', t)) \in Nat /\ Cardinality(Accepting(req', t)) <= N
      /\ N \in Nat
  BY AcceptingSize, SessionsFinite
<1>2. transfer[t].moved + (IF Acceptable(t) THEN N ELSE Cardinality(Accepting(req, t))) <= N
  BY DEF StockInv, MovesShared
<1>3. transfer[t].moved \in Nat
  BY TransferFields
<1> QED BY <1>1, <1>2, <1>3

LEMMA StockFrame ==
    ASSUME TypeOK, StockInv, UNCHANGED transfer,
           \A s \in Sessions : req'[s] = req[s] \/ req'[s].op \notin StockOps
    PROVE  StockInv'
<1>1. StockGrounded'
  BY DEF StockInv, StockGrounded
<1>2. \A t : Cardinality(Accepting(req', t)) <= Cardinality(Accepting(req, t))
  BY AcceptingShrink DEF StockOps
<1>3. \A t \in TransferIds : Acceptable(t)' <=> Acceptable(t)
  BY DEF Acceptable
<1>4. MovesShared'
  BY <1>2, <1>3, MovesQuiet DEF MovesShared
<1> QED BY <1>1, <1>4 DEF StockInv

LEMMA FlagExcessInv ==
    ASSUME TypeOK, StockInv, NEW f \in FlagIds, NEW i \in Items, NEW l \in Sites,
           NEW n \in FlagQtys, NEW value \in {0, 1},
           FlagExcess(f, i, l, n, value), UNCHANGED <<service, fab, vendorKnown>>
    PROVE  TypeOK' /\ StockInv'
<1>1. n \in Nat
  BY SiteWorksAssumption
<1>2. StockTypeOK'
  BY <1>1 DEF FlagExcess, TypeOK, StockTypeOK, FlagRows
<1>3. TypeOK'
  BY <1>2 DEF FlagExcess, TypeOK, ledgers, LedgersTypeOK, ServiceTypeOK, FabTypeOK
<1> QED BY <1>3, StockFrame DEF FlagExcess

LEMMA RedeployInv ==
    ASSUME TypeOK, StockInv, NEW t \in TransferIds, NEW f \in FlagIds, NEW l \in Sites,
           Redeploy(t, f, l), UNCHANGED <<service, fab, vendorKnown>>
    PROVE  TypeOK' /\ StockInv'
<1>1. /\ transfer' = [transfer EXCEPT ![t] =
             [status |-> "pending", flag |-> f, to |-> l, moved |-> 0]]
      /\ UNCHANGED <<req, ledgers, flag>> /\ transfer[t].status = "absent"
  BY DEF Redeploy
<1>2. /\ transfer'[t] = [status |-> "pending", flag |-> f, to |-> l, moved |-> 0]
      /\ \A u \in TransferIds : u # t => transfer'[u] = transfer[u]
      /\ StockTypeOK'
  BY <1>1 DEF TypeOK, StockTypeOK, TransferRows
<1>3. TypeOK'
  BY <1>1, <1>2 DEF TypeOK, ledgers, LedgersTypeOK, ServiceTypeOK, FabTypeOK
<1>4. StockGrounded'
  <2>1. \A s \in Sessions : req[s].op \in StockOps => req[s].transfer \in TransferIds
    BY RequestFields DEF TypeOK, AllRequests
  <2> QED BY <1>1, <1>2, <2>1 DEF StockInv, StockGrounded
<1>5. MovesShared'
  <2> SUFFICES ASSUME NEW u \in TransferIds
               PROVE  transfer'[u].moved
                        + (IF Acceptable(u)' THEN N ELSE Cardinality(Accepting(req', u))) <= N
    BY DEF MovesShared
  <2>1. CASE u = t
    <3>1. Acceptable(u)' /\ transfer'[u].moved = 0
      BY <1>2, <2>1 DEF Acceptable
    <3> QED BY <3>1, SessionsFinite
  <2>2. CASE u # t
    <3>1. Acceptable(u)' => Acceptable(u)
      BY <1>2, <2>2 DEF Acceptable
    <3>2. Cardinality(Accepting(req', u)) <= Cardinality(Accepting(req, u))
      BY <1>1, AcceptingShrink
    <3> QED BY <1>2, <2>2, <3>1, <3>2, MovesQuiet
  <2> QED BY <2>1, <2>2
<1> QED BY <1>3, <1>4, <1>5 DEF StockInv

(* A request about a transfer that exists begins; one that accepts it has  *)
(* found it pending.                                                       *)
LEMMA BeginStockInv ==
    ASSUME TypeOK, StockInv, NEW s \in Sessions, NEW r \in StockRequests,
           Begin(s, r), transfer[r.transfer].status # "absent",
           r.op = "accept" => Acceptable(r.transfer),
           UNCHANGED <<ledgers, fab, vendorKnown, service, flag, transfer>>
    PROVE  TypeOK' /\ Moves(s, r) /\ StockInv'
<1>1. r \in AllRequests
  BY DEF AllRequests
<1>2. Moves(s, r)
  BY <1>1, BeginMoves
<1>3. TypeOK'
  BY <1>2 DEF TypeOK, Moves, AllRequests, ledgers, LedgersTypeOK, ServiceTypeOK, FabTypeOK,
              StockTypeOK
<1>4. StockGrounded'
  BY <1>2 DEF StockInv, StockGrounded, Moves
<1>5. \A t \in TransferIds : Acceptable(t)' <=> Acceptable(t)
  BY DEF Acceptable
<1>6. ASSUME NEW t \in TransferIds
      PROVE  Acceptable(t)' \/ Cardinality(Accepting(req', t)) <= Cardinality(Accepting(req, t))
  <2>1. CASE r.op = "accept" /\ r.transfer = t
    BY <1>5, <2>1
  <2>2. CASE ~(r.op = "accept" /\ r.transfer = t)
    <3>1. \A u \in Sessions : req'[u] = req[u] \/ ~(req'[u].op = "accept" /\ req'[u].transfer = t)
      BY <1>2, <2>2 DEF Moves
    <3> QED BY <3>1, AcceptingShrink
  <2> QED BY <2>1, <2>2
<1>7. MovesShared'
  BY <1>5, <1>6, MovesQuiet DEF MovesShared
<1> QED BY <1>2, <1>3, <1>4, <1>7 DEF StockInv

\* What a transfer takes from one project it brings to another.
LEMMA PairedCell ==
    ASSUME NEW entries \in [Projects -> [Categories -> Int]], NEW from \in Projects,
           NEW to \in Projects, NEW value \in Int, NEW p \in Projects, NEW c \in Categories
    PROVE  PairedCost(entries, from, to, value)[p][c]
             = entries[p][c] - (IF p = from /\ c = "STOCK_OUT" THEN value ELSE 0)
                 + (IF p = to /\ c = "STOCK_IN" THEN value ELSE 0)
<1> DEFINE mid == Posted(entries, from, "STOCK_OUT", -value)
           after == Posted(mid, to, "STOCK_IN", value)
<1>1. "STOCK_OUT" \in Categories /\ "STOCK_IN" \in Categories /\ -value \in Int
  BY DEF Categories
<1>2. mid \in [Projects -> [Categories -> Int]]
  BY <1>1 DEF Posted
<1>3. mid[p][c] = entries[p][c] - (IF p = from /\ c = "STOCK_OUT" THEN value ELSE 0)
  BY <1>1 DEF Posted
<1> HIDE DEF mid
<1>4. after[p][c] = mid[p][c] + (IF p = to /\ c = "STOCK_IN" THEN value ELSE 0)
  BY <1>1, <1>2 DEF Posted
<1> QED BY <1>3, <1>4 DEF PairedCost, mid

LEMMA PairedType ==
    ASSUME NEW entries \in [Projects -> [Categories -> Int]], NEW from \in Projects,
           NEW to \in Projects, NEW value \in Int
    PROVE  PairedCost(entries, from, to, value) \in [Projects -> [Categories -> Int]]
<1> DEFINE mid == Posted(entries, from, "STOCK_OUT", -value)
<1>1. "STOCK_OUT" \in Categories /\ "STOCK_IN" \in Categories /\ -value \in Int
  BY DEF Categories
<1>2. mid \in [Projects -> [Categories -> Int]]
  BY <1>1 DEF Posted
<1> HIDE DEF mid
<1>3. Posted(mid, to, "STOCK_IN", value) \in [Projects -> [Categories -> Int]]
  BY <1>1, <1>2 DEF Posted
<1> QED BY <1>3 DEF PairedCost, mid

\* What is out of one project and in another.
Transferred(e) ==
    e["project"]["STOCK_IN"] + e["project"]["STOCK_OUT"]
      + e["other"]["STOCK_IN"] + e["other"]["STOCK_OUT"]

LEMMA PairedSum ==
    ASSUME NEW entries \in [Projects -> [Categories -> Int]], NEW from \in Projects,
           NEW to \in Projects, NEW value \in Int
    PROVE  Transferred(PairedCost(entries, from, to, value)) = Transferred(entries)
<1> DEFINE after == PairedCost(entries, from, to, value)
<1>1. "STOCK_OUT" \in Categories /\ "STOCK_IN" \in Categories
  BY DEF Categories
<1>2. ASSUME NEW p \in Projects
      PROVE  /\ after[p]["STOCK_OUT"] = entries[p]["STOCK_OUT"] - (IF p = from THEN value ELSE 0)
             /\ after[p]["STOCK_IN"] = entries[p]["STOCK_IN"] + (IF p = to THEN value ELSE 0)
             /\ entries[p]["STOCK_OUT"] \in Int /\ entries[p]["STOCK_IN"] \in Int
  <2>1. entries[p]["STOCK_OUT"] \in Int /\ entries[p]["STOCK_IN"] \in Int
    BY <1>1
  <2>2. after[p]["STOCK_OUT"]
          = entries[p]["STOCK_OUT"] - (IF p = from /\ "STOCK_OUT" = "STOCK_OUT" THEN value ELSE 0)
              + (IF p = to /\ "STOCK_OUT" = "STOCK_IN" THEN value ELSE 0)
    BY <1>1, PairedCell
  <2>3. after[p]["STOCK_IN"]
          = entries[p]["STOCK_IN"] - (IF p = from /\ "STOCK_IN" = "STOCK_OUT" THEN value ELSE 0)
              + (IF p = to /\ "STOCK_IN" = "STOCK_IN" THEN value ELSE 0)
    BY <1>1, PairedCell
  <2> HIDE DEF after
  <2> QED BY <2>1, <2>2, <2>3
<1>3. "project" \in Projects /\ "other" \in Projects /\ from \in {"project", "other"}
      /\ to \in {"project", "other"}
  BY DEF Projects
<1> HIDE DEF after
<1>4. Transferred(after) = Transferred(entries)
  BY <1>2, <1>3 DEF Transferred
<1> QED BY <1>4 DEF after

LEMMA WriteAcceptedTyped ==
    ASSUME TypeOK, StockInv, NEW s \in Sessions, WriteAccepted(s),
           UNCHANGED <<service, fab, vendorKnown>>
    PROVE  /\ TypeOK' /\ Moves(s, Idle) /\ UNCHANGED <<committed, held>>
           /\ req[s].op = "accept" /\ req[s].transfer \in TransferIds
           /\ transfer'[req[s].transfer].status = "complete"
           /\ transfer'[req[s].transfer].flag = transfer[req[s].transfer].flag
           /\ transfer'[req[s].transfer].moved = transfer[req[s].transfer].moved + 1
           /\ \A u \in TransferIds : u # req[s].transfer => transfer'[u] = transfer[u]
           /\ \A i \in Items : onHand'[i]["outside"] = onHand[i]["outside"]
           /\ \E from \in Projects, to \in Projects, value \in Int :
                cost' = PairedCost(cost, from, to, value)
<1> DEFINE t == req[s].transfer
           f == transfer[t].flag
           from == flag[f].place
           to == transfer[t].to
           i == flag[f].item
           n == flag[f].qty
           value == n * flag[f].value
<1>1. req[s].op = "accept" /\ UNCHANGED <<committed, held>>
  BY DEF WriteAccepted
<1>2. t \in TransferIds
  BY <1>1, RequestFields DEF TypeOK, StockOps, AllRequests
<1>3. f \in FlagIds
  BY <1>1, <1>2 DEF StockInv, StockGrounded, StockOps
<1>4. Moves(s, Idle)
  BY FinishMoves DEF WriteAccepted
<1>5. /\ onHand' = Moved(onHand, i, n, from, to)
      /\ cost' = PairedCost(cost, ProjectOf[from], ProjectOf[to], value)
      /\ transfer' = [transfer EXCEPT ![t].status = "complete", ![t].moved = @ + 1]
      /\ flag' = [flag EXCEPT ![f].status = "transferred"]
  BY DEF WriteAccepted
<1>6. i \in Items /\ n \in Nat /\ from \in Sites /\ flag[f].value \in {0, 1} /\ to \in Sites
  BY <1>2, <1>3 DEF TypeOK, StockTypeOK, FlagRows, TransferRows
<1>7. value \in Int
  BY <1>6
<1> HIDE DEF t, f, from, to, i, n, value
<1>8. /\ transfer'[t].status = "complete"
      /\ transfer'[t].flag = transfer[t].flag
      /\ transfer'[t].moved = transfer[t].moved + 1
      /\ \A u \in TransferIds : u # t => transfer'[u] = transfer[u]
  BY <1>2, <1>5 DEF TypeOK, StockTypeOK, TransferRows
<1>9. StockTypeOK'
  <2> DEFINE f1 == [transfer EXCEPT ![t].status = "complete"]
             f2 == [f1 EXCEPT ![t].moved = transfer[t].moved + 1]
  <2>1. transfer' = f2
    BY <1>5
  <2>2. f1 \in [TransferIds -> TransferRows] /\ transfer[t].moved + 1 \in Nat
    BY <1>2 DEF TypeOK, StockTypeOK, TransferRows
  <2> HIDE DEF f1
  <2>3. f2 \in [TransferIds -> TransferRows]
    BY <1>2, <2>2 DEF TransferRows
  <2>4. flag' \in [FlagIds -> FlagRows]
    BY <1>3, <1>5 DEF TypeOK, StockTypeOK, FlagRows
  <2> QED BY <2>1, <2>3, <2>4 DEF StockTypeOK
<1>10. /\ onHand' \in [Items -> [Places -> Int]]
       /\ \A j \in Items : onHand'[j]["outside"] = onHand[j]["outside"]
  <2>1. onHand \in [Items -> [Places -> Int]] /\ "outside" \in Places
    BY DEF TypeOK, LedgersTypeOK, Places
  <2>2. from \in Places /\ to \in Places /\ from # "outside" /\ to # "outside" /\ n \in Int
    BY <1>6 DEF Sites, Places
  <2>3. onHand' \in [Items -> [Places -> Int]]
    BY <1>5, <1>6, <2>1, <2>2, MovedEffect
  <2>4. onHand'[i]["outside"] = onHand[i]["outside"] + Left(n, from, to)
    BY <1>5, <1>6, <2>1, <2>2, MovedLeft
  <2>5. Left(n, from, to) = 0 /\ onHand[i]["outside"] \in Int
    BY <1>6, <2>1, <2>2 DEF Left
  <2>6. \A j \in Items : j # i => onHand'[j] = onHand[j]
    BY <1>5, <2>1, MovedOthers
  <2> QED BY <2>3, <2>4, <2>5, <2>6
<1>11. ProjectOf[from] \in Projects /\ ProjectOf[to] \in Projects
  BY <1>6 DEF ProjectOf, Projects
<1>12. cost' \in [Projects -> [Categories -> Int]]
  <2>1. cost \in [Projects -> [Categories -> Int]]
    BY DEF TypeOK, LedgersTypeOK
  <2> QED BY <1>5, <1>7, <1>11, <2>1, PairedType
<1>13. TypeOK'
  BY <1>1, <1>4, <1>9, <1>10, <1>12
     DEF TypeOK, Moves, AllRequests, ServiceTypeOK, FabTypeOK, LedgersTypeOK
<1> QED BY <1>1, <1>2, <1>4, <1>5, <1>7, <1>8, <1>10, <1>11, <1>13 DEF t

LEMMA WriteAcceptedInv ==
    ASSUME TypeOK, StockInv, NEW s \in Sessions, WriteAccepted(s),
           UNCHANGED <<service, fab, vendorKnown>>
    PROVE  StockInv'
<1> DEFINE t == req[s].transfer
<1>1. /\ TypeOK' /\ Moves(s, Idle) /\ t \in TransferIds /\ req[s].op = "accept"
      /\ transfer'[t].status = "complete" /\ transfer'[t].flag = transfer[t].flag
      /\ transfer'[t].moved = transfer[t].moved + 1
      /\ \A u \in TransferIds : u # t => transfer'[u] = transfer[u]
  BY WriteAcceptedTyped
<1>2. \A u \in Sessions : req'[u] = req[u] \/ req'[u].op = "idle"
  BY <1>1 DEF Moves, Idle
<1>3. \A u \in Sessions : req'[u].op \in StockOps => req'[u].transfer \in TransferIds
  BY <1>1, RequestFields DEF TypeOK, AllRequests
<1>4. StockGrounded'
  <2>1. transfer[t].status # "absent"
    BY <1>1 DEF StockInv, StockGrounded, StockOps
  <2> QED BY <1>1, <1>2, <1>3, <2>1 DEF StockInv, StockGrounded, StockOps
<1>5. MovesShared'
  <2> SUFFICES ASSUME NEW u \in TransferIds
               PROVE  transfer'[u].moved
                        + (IF Acceptable(u)' THEN N ELSE Cardinality(Accepting(req', u))) <= N
    BY DEF MovesShared
  <2>1. CASE u # t
    <3>1. Acceptable(u)' => Acceptable(u)
      BY <1>1, <2>1 DEF Acceptable
    <3>2. Cardinality(Accepting(req', u)) <= Cardinality(Accepting(req, u))
      BY <1>2, AcceptingShrink
    <3> QED BY <1>1, <2>1, <3>1, <3>2, MovesQuiet
  <2>2. CASE u = t
    <3>1. Accepting(req', t) = Accepting(req, t) \ {s} /\ s \in Accepting(req, t)
      BY <1>1 DEF Accepting, Moves, Idle
    <3>2. Cardinality(Accepting(req', t)) = Cardinality(Accepting(req, t)) - 1
      BY <3>1, AcceptingSize, FS_RemoveElement
    <3>3. /\ Cardinality(Accepting(req, t)) \in Nat /\ Cardinality(Accepting(req, t)) <= N
          /\ N \in Nat
      BY AcceptingSize, SessionsFinite
    <3>4. transfer[t].moved + (IF Acceptable(t) THEN N ELSE Cardinality(Accepting(req, t))) <= N
      BY <1>1 DEF StockInv, MovesShared
    <3>5. transfer[t].moved \in Nat
      BY <1>1, TransferFields
    <3>6. ~Acceptable(u)'
      BY <1>1, <2>2 DEF Acceptable
    <3> QED BY <1>1, <2>2, <3>2, <3>3, <3>4, <3>5, <3>6
  <2> QED BY <2>1, <2>2
<1> QED BY <1>4, <1>5 DEF StockInv

LEMMA WriteDeclinedInv ==
    ASSUME TypeOK, StockInv, NEW s \in Sessions, WriteDeclined(s),
           UNCHANGED <<service, fab, vendorKnown>>
    PROVE  TypeOK' /\ Moves(s, Idle) /\ UNCHANGED ledgers /\ StockInv'
<1> DEFINE t == req[s].transfer
<1>1. req[s].op = "decline" /\ UNCHANGED <<ledgers, flag>>
  BY DEF WriteDeclined
<1>2. t \in TransferIds
  BY <1>1, RequestFields DEF TypeOK, StockOps, AllRequests
<1>3. Moves(s, Idle)
  BY FinishMoves DEF WriteDeclined
<1>4. transfer' = [transfer EXCEPT ![t].status = "declined"]
  BY DEF WriteDeclined
<1>5. transfer[t].status # "absent"
  BY <1>1 DEF StockInv, StockGrounded, StockOps
<1> HIDE DEF t
<1>6. /\ transfer'[t].status = "declined"
      /\ transfer'[t].flag = transfer[t].flag
      /\ transfer'[t].moved = transfer[t].moved
      /\ \A u \in TransferIds : u # t => transfer'[u] = transfer[u]
      /\ StockTypeOK'
  BY <1>1, <1>2, <1>4 DEF TypeOK, StockTypeOK, TransferRows
<1>7. TypeOK'
  BY <1>1, <1>3, <1>6
     DEF TypeOK, Moves, AllRequests, ServiceTypeOK, FabTypeOK, ledgers, LedgersTypeOK
<1>8. \A u \in Sessions : req'[u] = req[u] \/ req'[u].op = "idle"
  BY <1>3 DEF Moves, Idle
<1>9. \A u \in Sessions : req'[u].op \in StockOps => req'[u].transfer \in TransferIds
  BY <1>7, RequestFields DEF TypeOK, AllRequests
<1>10. StockGrounded'
  BY <1>5, <1>6, <1>8, <1>9 DEF StockInv, StockGrounded, StockOps
<1>11. MovesShared'
  <2>1. \A u \in TransferIds : Acceptable(u)' => Acceptable(u)
    BY <1>6 DEF Acceptable
  <2>2. \A u : Cardinality(Accepting(req', u)) <= Cardinality(Accepting(req, u))
    BY <1>8, AcceptingShrink
  <2>3. \A u \in TransferIds : transfer'[u].moved = transfer[u].moved
    BY <1>6
  <2> QED BY <2>1, <2>2, <2>3, MovesQuiet DEF MovesShared
<1> QED BY <1>1, <1>3, <1>7, <1>10, <1>11 DEF StockInv

-----------------------------------------------------------------------------
(* The ledgers agree with the documents.                                   *)

LEMMA CostFields ==
    ASSUME TypeOK
    PROVE  /\ cost \in [Projects -> [Categories -> Int]]
           /\ \A p \in Projects, c \in Categories : cost[p][c] \in Int
           /\ "project" \in Projects /\ "other" \in Projects
           /\ "MATERIAL" \in Categories /\ "SUBCONTRACT" \in Categories
           /\ "FABRICATION" \in Categories
           /\ "STOCK_IN" \in Categories /\ "STOCK_OUT" \in Categories
  BY DEF TypeOK, LedgersTypeOK, Projects, Categories

(* What the projects have cost is what was bought when nothing was bought  *)
(* for the other one and the transfers balance.                            *)
Balanced(e) ==
    e["project"]["STOCK_IN"] + e["project"]["STOCK_OUT"]
      + e["other"]["MATERIAL"] + e["other"]["FABRICATION"] + e["other"]["SUBCONTRACT"]
      + e["other"]["STOCK_IN"] + e["other"]["STOCK_OUT"] = 0

LEMMA AgreeIsBalanced ==
    ASSUME TypeOK
    PROVE  CostsAgree <=> Balanced(cost)
<1>1. /\ cost["project"]["MATERIAL"] \in Int /\ cost["project"]["SUBCONTRACT"] \in Int
      /\ cost["project"]["FABRICATION"] \in Int
      /\ cost["project"]["STOCK_IN"] \in Int /\ cost["project"]["STOCK_OUT"] \in Int
  BY CostFields
<1>2. /\ cost["other"]["MATERIAL"] \in Int /\ cost["other"]["SUBCONTRACT"] \in Int
      /\ cost["other"]["FABRICATION"] \in Int
      /\ cost["other"]["STOCK_IN"] \in Int /\ cost["other"]["STOCK_OUT"] \in Int
  BY CostFields
<1> QED BY <1>1, <1>2 DEF CostsAgree, CostOf, Balanced

LEMMA AgreeIsBalancedNext ==
    ASSUME TypeOK'
    PROVE  CostsAgree' <=> Balanced(cost')
<1>1. /\ cost' \in [Projects -> [Categories -> Int]]
      /\ "project" \in Projects /\ "other" \in Projects
      /\ "MATERIAL" \in Categories /\ "SUBCONTRACT" \in Categories
      /\ "FABRICATION" \in Categories
      /\ "STOCK_IN" \in Categories /\ "STOCK_OUT" \in Categories
  BY DEF TypeOK, LedgersTypeOK, Projects, Categories
<1>2. /\ cost'["project"]["MATERIAL"] \in Int /\ cost'["project"]["SUBCONTRACT"] \in Int
      /\ cost'["project"]["FABRICATION"] \in Int
      /\ cost'["project"]["STOCK_IN"] \in Int /\ cost'["project"]["STOCK_OUT"] \in Int
  BY <1>1
<1>3. /\ cost'["other"]["MATERIAL"] \in Int /\ cost'["other"]["SUBCONTRACT"] \in Int
      /\ cost'["other"]["FABRICATION"] \in Int
      /\ cost'["other"]["STOCK_IN"] \in Int /\ cost'["other"]["STOCK_OUT"] \in Int
  BY <1>1
<1> QED BY <1>2, <1>3 DEF CostsAgree, CostOf, Balanced

\* A posting to a category that is bought keeps the costs in agreement.
LEMMA PostedAgrees ==
    ASSUME TypeOK, TypeOK', CostsAgree, NEW c \in {"MATERIAL", "SUBCONTRACT", "FABRICATION"},
           NEW n \in Int, cost' = Posted(cost, "project", c, n)
    PROVE  /\ CostsAgree'
           /\ cost'["project"][c] = cost["project"][c] + n
           /\ \A d \in Categories : d # c => cost'["project"][d] = cost["project"][d]
<1>1. /\ c \in Categories
      /\ cost \in [Projects -> [Categories -> Int]]
      /\ "project" \in Projects /\ "other" \in Projects
  BY DEF Categories, Projects, TypeOK, LedgersTypeOK
<1>2. cost'["project"][c] = cost["project"][c] + n
  BY <1>1, PostedEffect
<1>3. \A d \in Categories : d # c => cost'["project"][d] = cost["project"][d]
  BY <1>1, PostedOthers
<1>4. cost'["other"] = cost["other"]
  BY <1>1, PostedElsewhere
<1>5. /\ cost'["project"]["STOCK_IN"] = cost["project"]["STOCK_IN"]
      /\ cost'["project"]["STOCK_OUT"] = cost["project"]["STOCK_OUT"]
  BY <1>3, CostFields
<1>6. Balanced(cost') <=> Balanced(cost)
  BY <1>4, <1>5 DEF Balanced
<1> QED BY <1>2, <1>3, <1>6, AgreeIsBalanced, AgreeIsBalancedNext

\* Certified quantities that stay, and the cost of subcontracts that stays.
LEMMA SubcontractKept ==
    ASSUME SubcontractAgrees,
           \A o \in ServiceOrderIds : service'[o].certified = service[o].certified,
           cost'["project"]["SUBCONTRACT"] = cost["project"]["SUBCONTRACT"]
    PROVE  SubcontractAgrees'
<1>1. Certified' = Certified
  BY DEF Certified
<1> QED BY <1>1 DEF SubcontractAgrees

\* What was finished stays, and nothing leaves the company or reaches it.
LEMMA StockKept ==
    ASSUME TypeOK, TypeOK', ProductAgrees, MaterialAgrees,
           \A o \in FabOrderIds :
               /\ fab'[o].finished = fab[o].finished
               /\ fab'[o].quantity = fab[o].quantity \/ fab[o].finished = 0,
           \A i \in Items : onHand'[i]["outside"] = onHand[i]["outside"],
           cost'["project"]["MATERIAL"] = cost["project"]["MATERIAL"]
    PROVE  ProductAgrees' /\ MaterialAgrees'
<1>1. "product" \in Items /\ "material" \in Items
  BY DEF Items
<1>2. InHand("product")' = InHand("product") /\ InHand("material")' = InHand("material")
  BY <1>1 DEF InHand
<1>3. ASSUME NEW o \in FabOrderIds
      PROVE  /\ fab'[o].finished * fab'[o].quantity = fab[o].finished * fab[o].quantity
             /\ fab'[o].finished * Planned(o)' = fab[o].finished * Planned(o)
  <2>1. /\ fab[o].finished \in Nat /\ fab[o].quantity \in Nat /\ fab'[o].quantity \in Nat
        /\ Recipe \in Nat
    BY FabFields, SiteWorksAssumption DEF TypeOK, FabTypeOK, FabRows
  <2>2. CASE fab'[o].quantity = fab[o].quantity
    BY <2>2 DEF Planned
  <2>3. CASE fab[o].finished = 0
    <3>1. Recipe * fab'[o].quantity \in Int /\ Recipe * fab[o].quantity \in Int
      BY <2>1
    <3> QED BY <2>1, <2>3, <3>1 DEF Planned
  <2> QED BY <2>2, <2>3
<1>4. Produced' = Produced
  BY <1>3 DEF Produced
<1>5. Consumed' = Consumed
  BY <1>3 DEF Consumed
<1> QED BY <1>2, <1>4, <1>5 DEF ProductAgrees, MaterialAgrees

\* What an order holds and what it released are still all that was ordered.
LEMMA ShortKept ==
    ASSUME TypeOK, TypeOK', ShortClosesAccounted,
           \A o \in ServiceOrderIds :
               \/ /\ held'[o] = held[o] /\ service'[o].short = service[o].short
                  /\ service'[o].quantity = service[o].quantity
               \/ held'[o] + service'[o].short + service[o].quantity
                    = held[o] + service[o].short + service'[o].quantity
    PROVE  ShortClosesAccounted'
<1> SUFFICES ASSUME NEW o \in ServiceOrderIds
             PROVE  held'[o] + service'[o].short = service'[o].quantity
  BY DEF ShortClosesAccounted
<1>1. o \in Documents
  BY SiteWorksAssumption
<1>2. /\ held[o] \in Nat /\ service[o].short \in Nat /\ service[o].quantity \in Nat
      /\ held'[o] \in Nat /\ service'[o].short \in Nat /\ service'[o].quantity \in Nat
  BY <1>1 DEF TypeOK, LedgersTypeOK, ServiceTypeOK, ServiceRows
<1>3. held[o] + service[o].short = service[o].quantity
  BY DEF ShortClosesAccounted
<1> QED BY <1>2, <1>3

\* Steps that leave the ledgers alone and only move the documents along.
LEMMA LedgersQuiet ==
    ASSUME TypeOK, TypeOK', LedgersAgree, UNCHANGED ledgers,
           \A o \in ServiceOrderIds :
               /\ service'[o].certified = service[o].certified
               /\ service'[o].short = service[o].short
               /\ service'[o].quantity = service[o].quantity,
           \A o \in FabOrderIds :
               fab'[o].finished = fab[o].finished /\ fab'[o].quantity = fab[o].quantity
    PROVE  LedgersAgree'
<1>1. onHand' = onHand /\ cost' = cost /\ held' = held
  BY DEF ledgers
<1>2. SubcontractAgrees'
  BY <1>1, SubcontractKept DEF LedgersAgree
<1>3. ProductAgrees' /\ MaterialAgrees'
  BY <1>1, StockKept DEF LedgersAgree
<1>4. CostsAgree'
  BY <1>1 DEF LedgersAgree, CostsAgree, CostOf
<1>5. ShortClosesAccounted'
  BY <1>1, ShortKept DEF LedgersAgree
<1> QED BY <1>2, <1>3, <1>4, <1>5 DEF LedgersAgree

LEMMA CreateServiceLedgers ==
    ASSUME TypeOK, ServiceInv, LedgersAgree, NEW s \in Sessions, NEW o \in ServiceOrderIds,
           NEW n \in ServiceQtys,
           CreateServiceOrder(s, o, n), UNCHANGED <<fab, vendorKnown, flag, transfer>>
    PROVE  LedgersAgree'
<1>1. /\ TypeOK' /\ n \in Nat /\ service'[o].quantity = n
      /\ service'[o].certified = service[o].certified /\ service'[o].short = service[o].short
      /\ \A p \in ServiceOrderIds : p # o => service'[p] = service[p]
      /\ held'[o] = held[o] + n
  BY CreateServiceTyped
<1>2. \A e \in Documents : e # o => held'[e] = held[e]
  BY CreateServiceTyped
<1>3. service[o].quantity = 0
  BY DEF CreateServiceOrder, ServiceInv, ServiceGrounded, NoServiceOrder
<1>4. onHand' = onHand /\ cost' = cost /\ fab' = fab
  BY DEF CreateServiceOrder
<1>5. SubcontractAgrees'
  BY <1>1, <1>4, SubcontractKept DEF LedgersAgree
<1>6. ProductAgrees' /\ MaterialAgrees'
  BY <1>1, <1>4, StockKept DEF LedgersAgree
<1>7. CostsAgree'
  BY <1>4 DEF LedgersAgree, CostsAgree, CostOf
<1>8. ASSUME NEW p \in ServiceOrderIds
      PROVE  \/ /\ held'[p] = held[p] /\ service'[p].short = service[p].short
                /\ service'[p].quantity = service[p].quantity
             \/ held'[p] + service'[p].short + service[p].quantity
                  = held[p] + service[p].short + service'[p].quantity
  <2>1. p \in Documents /\ held[p] \in Nat /\ service[p].short \in Nat
    BY SiteWorksAssumption DEF TypeOK, LedgersTypeOK, ServiceTypeOK, ServiceRows
  <2>2. CASE p = o
    BY <1>1, <1>3, <2>1, <2>2
  <2>3. CASE p # o
    BY <1>1, <1>2, <2>1, <2>3
  <2> QED BY <2>2, <2>3
<1>9. ShortClosesAccounted'
  BY <1>1, <1>8, ShortKept DEF LedgersAgree
<1> QED BY <1>5, <1>6, <1>7, <1>9 DEF LedgersAgree

LEMMA CreateFabLedgers ==
    ASSUME TypeOK, FabInv, LedgersAgree, NEW o \in FabOrderIds, NEW n \in FabQtys,
           NEW mode \in Modes,
           CreateFabOrder(o, n, mode), UNCHANGED <<service, flag, transfer>>
    PROVE  LedgersAgree'
<1>1. /\ TypeOK' /\ fab'[o].finished = 0
      /\ \A p \in FabOrderIds : p # o => fab'[p] = fab[p]
  BY CreateFabTyped
<1>2. \A e \in Documents : e # o => held'[e] = held[e]
  BY CreateFabTyped
<1>3. fab[o].finished = 0
  BY DEF CreateFabOrder, FabInv, FabGrounded, NoFabOrder
<1>4. onHand' = onHand /\ cost' = cost /\ service' = service
  BY DEF CreateFabOrder
<1>5. SubcontractAgrees'
  BY <1>4, SubcontractKept DEF LedgersAgree
<1>6. \A p \in FabOrderIds :
          /\ fab'[p].finished = fab[p].finished
          /\ fab'[p].quantity = fab[p].quantity \/ fab[p].finished = 0
  BY <1>1, <1>3
<1>7. ProductAgrees' /\ MaterialAgrees'
  BY <1>1, <1>4, <1>6, StockKept DEF LedgersAgree
<1>8. CostsAgree'
  BY <1>4 DEF LedgersAgree, CostsAgree, CostOf
<1>9. \A p \in ServiceOrderIds : p \in Documents /\ p # o
  BY SiteWorksAssumption
<1>10. ShortClosesAccounted'
  BY <1>2, <1>4, <1>9 DEF LedgersAgree, ShortClosesAccounted
<1> QED BY <1>5, <1>7, <1>8, <1>10 DEF LedgersAgree

LEMMA WriteStartLedgers ==
    ASSUME TypeOK, LedgersAgree, NEW s \in Sessions, WriteStart(s),
           UNCHANGED <<service, flag, transfer>>
    PROVE  LedgersAgree'
<1> DEFINE o == req[s].order
<1>1. /\ TypeOK' /\ UNCHANGED <<cost, committed, held>> /\ o \in FabOrderIds
      /\ fab'[o].finished = fab[o].finished /\ fab'[o].quantity = fab[o].quantity
      /\ \A p \in FabOrderIds : p # o => fab'[p] = fab[p]
  BY WriteStartTyped
<1>2. \A i \in Items : onHand'[i]["outside"] = onHand[i]["outside"]
  BY WriteStartTyped
<1> HIDE DEF o
<1>3. \A p \in FabOrderIds :
          fab'[p].finished = fab[p].finished /\ fab'[p].quantity = fab[p].quantity
  BY <1>1
<1>4. cost' = cost /\ held' = held /\ service' = service
  BY <1>1
<1>5. SubcontractAgrees'
  BY <1>4, SubcontractKept DEF LedgersAgree
<1>6. ProductAgrees' /\ MaterialAgrees'
  BY <1>1, <1>2, <1>3, <1>4, StockKept DEF LedgersAgree
<1>7. CostsAgree'
  BY <1>4 DEF LedgersAgree, CostsAgree, CostOf
<1>8. ShortClosesAccounted'
  BY <1>4 DEF LedgersAgree, ShortClosesAccounted
<1> QED BY <1>5, <1>6, <1>7, <1>8 DEF LedgersAgree

LEMMA WriteAcceptedLedgers ==
    ASSUME TypeOK, StockInv, LedgersAgree, NEW s \in Sessions, WriteAccepted(s),
           UNCHANGED <<service, fab, vendorKnown>>
    PROVE  LedgersAgree'
<1>1. TypeOK' /\ UNCHANGED <<committed, held>>
  BY WriteAcceptedTyped
<1>2. \A i \in Items : onHand'[i]["outside"] = onHand[i]["outside"]
  BY WriteAcceptedTyped
<1>3. PICK from \in Projects, to \in Projects, value \in Int :
          cost' = PairedCost(cost, from, to, value)
  BY WriteAcceptedTyped
<1>4. cost \in [Projects -> [Categories -> Int]] /\ cost' \in [Projects -> [Categories -> Int]]
  BY <1>1 DEF TypeOK, LedgersTypeOK
<1>5. \A p \in Projects, c \in Categories \ {"STOCK_IN", "STOCK_OUT"} : cost'[p][c] = cost[p][c]
  <2> SUFFICES ASSUME NEW p \in Projects, NEW c \in Categories \ {"STOCK_IN", "STOCK_OUT"}
               PROVE  cost'[p][c] = cost[p][c]
    OBVIOUS
  <2>1. cost'[p][c] = cost[p][c] - (IF p = from /\ c = "STOCK_OUT" THEN value ELSE 0)
                        + (IF p = to /\ c = "STOCK_IN" THEN value ELSE 0)
    BY <1>3, <1>4, PairedCell
  <2> QED BY <1>4, <2>1
<1>6. Transferred(cost') = Transferred(cost)
  BY <1>3, <1>4, PairedSum
<1>7. /\ cost'["project"]["MATERIAL"] = cost["project"]["MATERIAL"]
      /\ cost'["project"]["SUBCONTRACT"] = cost["project"]["SUBCONTRACT"]
      /\ cost'["other"]["MATERIAL"] = cost["other"]["MATERIAL"]
      /\ cost'["other"]["SUBCONTRACT"] = cost["other"]["SUBCONTRACT"]
      /\ cost'["other"]["FABRICATION"] = cost["other"]["FABRICATION"]
  BY <1>5 DEF Projects, Categories
<1>8. /\ \A c \in Categories : cost["project"][c] \in Int /\ cost["other"][c] \in Int
      /\ \A c \in Categories : cost'["project"][c] \in Int /\ cost'["other"][c] \in Int
  BY <1>4 DEF Projects
<1>9. Balanced(cost') <=> Balanced(cost)
  <2>1. /\ cost["project"]["STOCK_IN"] \in Int /\ cost["project"]["STOCK_OUT"] \in Int
        /\ cost["other"]["STOCK_IN"] \in Int /\ cost["other"]["STOCK_OUT"] \in Int
        /\ cost["other"]["MATERIAL"] \in Int /\ cost["other"]["SUBCONTRACT"] \in Int
        /\ cost["other"]["FABRICATION"] \in Int
    BY <1>8 DEF Categories
  <2>2. /\ cost'["project"]["STOCK_IN"] \in Int /\ cost'["project"]["STOCK_OUT"] \in Int
        /\ cost'["other"]["STOCK_IN"] \in Int /\ cost'["other"]["STOCK_OUT"] \in Int
    BY <1>8 DEF Categories
  <2> DEFINE Rest(e) == e["other"]["MATERIAL"] + e["other"]["FABRICATION"]
                          + e["other"]["SUBCONTRACT"]
  <2>3. Rest(cost') = Rest(cost) /\ Rest(cost) \in Int
    BY <1>7, <2>1
  <2>4. Balanced(cost) <=> Transferred(cost) + Rest(cost) = 0
    BY <2>1 DEF Balanced, Transferred
  <2>5. Balanced(cost') <=> Transferred(cost') + Rest(cost') = 0
    BY <1>7, <2>1, <2>2 DEF Balanced, Transferred
  <2> QED BY <1>6, <2>3, <2>4, <2>5
<1>10. CostsAgree'
  BY <1>1, <1>9, AgreeIsBalanced, AgreeIsBalancedNext DEF LedgersAgree
<1>11. SubcontractAgrees'
  BY <1>7, SubcontractKept DEF LedgersAgree
<1>12. ProductAgrees' /\ MaterialAgrees'
  BY <1>1, <1>2, <1>7, StockKept DEF LedgersAgree
<1>13. ShortClosesAccounted'
  BY <1>1 DEF LedgersAgree, ShortClosesAccounted
<1> QED BY <1>10, <1>11, <1>12, <1>13 DEF LedgersAgree

\* A receipt, which comes from outside.
LEMMA SupplyTyped ==
    ASSUME TypeOK, NEW l \in {"site", "works"}, Supply(l)
    PROVE  /\ TypeOK' /\ UNCHANGED <<req, committed, held, works>>
           /\ cost' = Posted(cost, "project", "MATERIAL", 1)
           /\ onHand'["material"]["outside"] = onHand["material"]["outside"] - 1
           /\ onHand'["product"] = onHand["product"]
<1>1. /\ onHand \in [Items -> [Places -> Int]] /\ "material" \in Items /\ "product" \in Items
      /\ "outside" \in Places /\ l \in Places /\ l # "outside" /\ 1 \in Int
  BY DEF TypeOK, LedgersTypeOK, Items, Places
<1>2. onHand' = Moved(onHand, "material", 1, "outside", l)
  BY DEF Supply
<1>3. onHand' \in [Items -> [Places -> Int]]
  BY <1>1, <1>2, MovedEffect
<1>4. onHand'["material"]["outside"] = onHand["material"]["outside"] + Left(1, "outside", l)
  BY <1>1, <1>2, MovedLeft
<1>5. Left(1, "outside", l) = -1
  BY <1>1 DEF Left
<1>6. onHand["material"]["outside"] \in Int
  BY <1>1
<1>7. onHand'["product"] = onHand["product"]
  BY <1>1, <1>2, MovedOthers
<1>8. cost' \in [Projects -> [Categories -> Int]]
  <2>1. /\ cost \in [Projects -> [Categories -> Int]]
        /\ "project" \in Projects /\ "MATERIAL" \in Categories
    BY DEF TypeOK, LedgersTypeOK, Projects, Categories
  <2> QED BY <1>1, <2>1, PostedEffect DEF Supply
<1>9. TypeOK'
  BY <1>3, <1>8 DEF Supply, works, TypeOK, LedgersTypeOK, ServiceTypeOK, FabTypeOK, StockTypeOK
<1> QED BY <1>4, <1>5, <1>6, <1>7, <1>9 DEF Supply

LEMMA SupplyLedgers ==
    ASSUME TypeOK, LedgersAgree, NEW l \in {"site", "works"}, Supply(l)
    PROVE  LedgersAgree'
<1>1. /\ TypeOK' /\ UNCHANGED <<committed, held, works>>
      /\ cost' = Posted(cost, "project", "MATERIAL", 1)
      /\ onHand'["material"]["outside"] = onHand["material"]["outside"] - 1
      /\ onHand'["product"] = onHand["product"]
  BY SupplyTyped
<1>2. service' = service /\ fab' = fab
  BY <1>1 DEF works
<1>3. CostsAgree' /\ cost'["project"]["MATERIAL"] = cost["project"]["MATERIAL"] + 1
  BY <1>1, PostedAgrees DEF LedgersAgree
<1>4. cost'["project"]["SUBCONTRACT"] = cost["project"]["SUBCONTRACT"]
  <2>1. \A d \in Categories : d # "MATERIAL" => cost'["project"][d] = cost["project"][d]
    BY <1>1, PostedAgrees DEF LedgersAgree
  <2> QED BY <2>1 DEF Categories
<1>5. SubcontractAgrees'
  BY <1>2, <1>4, SubcontractKept DEF LedgersAgree
<1>6. Produced' = Produced /\ Consumed' = Consumed
  BY <1>2 DEF Produced, Consumed, Planned
<1>7. ProductAgrees'
  BY <1>1, <1>6 DEF LedgersAgree, ProductAgrees, InHand
<1>8. SumFunction(Consumed) \in Int
  <2>1. \A o \in FabOrderIds : Consumed[o] \in Nat
    BY FabFields, SiteWorksAssumption DEF Consumed, Planned
  <2>2. DOMAIN Consumed = FabOrderIds
    BY DEF Consumed
  <2> QED BY <2>1, <2>2, SumType, SiteWorksAssumption DEF SumFunction
<1>9. onHand["material"]["outside"] \in Int /\ cost["project"]["MATERIAL"] \in Int
  BY DEF TypeOK, LedgersTypeOK, Items, Places, Projects, Categories
<1>10. MaterialAgrees'
  BY <1>1, <1>3, <1>6, <1>8, <1>9 DEF LedgersAgree, MaterialAgrees, InHand
<1>11. ShortClosesAccounted'
  BY <1>1, <1>2 DEF LedgersAgree, ShortClosesAccounted
<1> QED BY <1>3, <1>5, <1>7, <1>10, <1>11 DEF LedgersAgree

LEMMA BillServiceLedgers ==
    ASSUME TypeOK, LedgersAgree, NEW s \in Sessions, BillService(s),
           UNCHANGED <<fab, vendorKnown, flag, transfer>>
    PROVE  LedgersAgree'
<1> DEFINE o == req[s].order
           left == Outstanding(o) - req[s].qty
           freed == IF req[s].final /\ left > 0 THEN left ELSE 0
<1>1. /\ TypeOK' /\ onHand' = onHand /\ o \in ServiceOrderIds /\ req[s].qty \in Nat
      /\ service'[o].quantity = service[o].quantity
      /\ service'[o].certified = service[o].certified + req[s].qty
      /\ service'[o].short = service[o].short + freed
      /\ cost' = Posted(cost, "project", "SUBCONTRACT", req[s].qty)
      /\ held'[o] = held[o] - freed
  BY BillServiceTyped
<1>2. \A p \in ServiceOrderIds : p # o => service'[p] = service[p]
  BY BillServiceTyped
<1>3. \A e \in Documents : e # o => held'[e] = held[e]
  BY BillServiceTyped
<1>4. freed \in Int
  BY <1>1, ServiceFields DEF Outstanding
<1> HIDE DEF o, left, freed
<1>5. CostsAgree' /\ cost'["project"]["SUBCONTRACT"] = cost["project"]["SUBCONTRACT"] + req[s].qty
  BY <1>1, PostedAgrees DEF LedgersAgree
<1>6. cost'["project"]["MATERIAL"] = cost["project"]["MATERIAL"]
  <2>1. \A d \in Categories : d # "SUBCONTRACT" => cost'["project"][d] = cost["project"][d]
    BY <1>1, PostedAgrees DEF LedgersAgree
  <2> QED BY <2>1 DEF Categories
<1>7. SubcontractAgrees'
  <2>1. \A p \in ServiceOrderIds : Certified[p] \in Int /\ Certified'[p] \in Int
    BY <1>1 DEF Certified, TypeOK, ServiceTypeOK, ServiceRows
  <2>2. \A p \in ServiceOrderIds \ {o} : Certified[p] = Certified'[p]
    BY <1>2 DEF Certified
  <2>3. SumFunctionOnSet(Certified', ServiceOrderIds)
          = SumFunctionOnSet(Certified, ServiceOrderIds) + Certified'[o] - Certified[o]
    BY <1>1, <2>1, <2>2, SumChange, SiteWorksAssumption
  <2>4. SumFunctionOnSet(Certified, ServiceOrderIds) \in Int
    BY <2>1, SumType, SiteWorksAssumption
  <2>5. Certified'[o] = Certified[o] + req[s].qty /\ Certified[o] \in Int
    BY <1>1, <2>1 DEF Certified
  <2>6. DOMAIN Certified = ServiceOrderIds /\ DOMAIN Certified' = ServiceOrderIds
    BY DEF Certified
  <2>7. cost["project"]["SUBCONTRACT"] = SumFunctionOnSet(Certified, ServiceOrderIds)
    BY <2>6 DEF LedgersAgree, SubcontractAgrees, SumFunction
  <2>8. cost'["project"]["SUBCONTRACT"] = SumFunctionOnSet(Certified', ServiceOrderIds)
    BY <1>1, <1>5, <2>3, <2>4, <2>5, <2>7
  <2> QED BY <2>6, <2>8 DEF SubcontractAgrees, SumFunction
<1>8. ProductAgrees' /\ MaterialAgrees'
  BY <1>1, <1>6, StockKept DEF LedgersAgree
<1>9. ASSUME NEW p \in ServiceOrderIds
      PROVE  \/ /\ held'[p] = held[p] /\ service'[p].short = service[p].short
                /\ service'[p].quantity = service[p].quantity
             \/ held'[p] + service'[p].short + service[p].quantity
                  = held[p] + service[p].short + service'[p].quantity
  <2>1. /\ p \in Documents /\ held[p] \in Nat /\ service[p].short \in Nat
        /\ service[p].quantity \in Nat
    BY SiteWorksAssumption DEF TypeOK, LedgersTypeOK, ServiceTypeOK, ServiceRows
  <2>2. CASE p = o
    BY <1>1, <1>4, <2>1, <2>2
  <2>3. CASE p # o
    BY <1>2, <1>3, <2>1, <2>3
  <2> QED BY <2>2, <2>3
<1>10. ShortClosesAccounted'
  BY <1>1, <1>9, ShortKept DEF LedgersAgree
<1> QED BY <1>5, <1>7, <1>8, <1>10 DEF LedgersAgree

\* A run more of q units of something used at the rate k.
LEMMA RunMore ==
    ASSUME NEW f \in Nat, NEW q \in Nat
    PROVE  (f + 1) * q = f * q + q /\ f * q \in Nat /\ (f + 1) * q \in Nat
  OBVIOUS

LEMMA WriteCompleteLedgers ==
    ASSUME TypeOK, LedgersAgree, NEW s \in Sessions, WriteComplete(s),
           UNCHANGED <<service, flag, transfer>>
    PROVE  LedgersAgree'
<1> DEFINE o == req[s].order
<1>1. /\ TypeOK' /\ UNCHANGED <<committed, held>> /\ o \in FabOrderIds
      /\ fab'[o].finished = fab[o].finished + 1 /\ fab'[o].quantity = fab[o].quantity
      /\ onHand'["material"]["outside"] = onHand["material"]["outside"] + Planned(o)
      /\ onHand'["product"]["outside"] = onHand["product"]["outside"] - fab[o].quantity
  BY WriteCompleteTyped
<1>2. \A p \in FabOrderIds : p # o => fab'[p] = fab[p]
  BY WriteCompleteTyped
<1>3. PICK n \in Nat : cost' = Posted(cost, "project", "FABRICATION", n)
  BY WriteCompleteTyped
<1> HIDE DEF o
<1>4. CostsAgree'
  BY <1>1, <1>3, PostedAgrees DEF LedgersAgree
<1>5. /\ cost'["project"]["SUBCONTRACT"] = cost["project"]["SUBCONTRACT"]
      /\ cost'["project"]["MATERIAL"] = cost["project"]["MATERIAL"]
  <2>1. \A d \in Categories : d # "FABRICATION" => cost'["project"][d] = cost["project"][d]
    BY <1>1, <1>3, PostedAgrees DEF LedgersAgree
  <2> QED BY <2>1 DEF Categories
<1>6. SubcontractAgrees'
  BY <1>5, SubcontractKept DEF LedgersAgree
<1>7. \A p \in FabOrderIds : Planned(p) \in Nat /\ Planned(p)' \in Nat
  BY <1>1, SiteWorksAssumption DEF Planned, TypeOK, FabTypeOK, FabRows
<1>8. \A p \in FabOrderIds :
          /\ fab[p].finished \in Nat /\ fab[p].quantity \in Nat
          /\ fab'[p].finished \in Nat /\ fab'[p].quantity \in Nat
  BY <1>1 DEF TypeOK, FabTypeOK, FabRows
<1>9. /\ \A p \in FabOrderIds : Produced[p] \in Int /\ Produced'[p] \in Int
      /\ \A p \in FabOrderIds : Consumed[p] \in Int /\ Consumed'[p] \in Int
  <2>1. \A p \in FabOrderIds : Produced[p] \in Int /\ Produced'[p] \in Int
    BY <1>8 DEF Produced
  <2>2. \A p \in FabOrderIds : Consumed[p] \in Int /\ Consumed'[p] \in Int
    BY <1>7, <1>8 DEF Consumed
  <2> QED BY <2>1, <2>2
<1>10. /\ Produced'[o] = Produced[o] + fab[o].quantity
       /\ Consumed'[o] = Consumed[o] + Planned(o)
  <2>1. Recipe * fab'[o].quantity = Planned(o)
    BY <1>1 DEF Planned
  <2>2. /\ fab[o].finished \in Nat /\ fab[o].quantity \in Nat /\ Planned(o) \in Nat
    BY <1>1, <1>7, <1>8
  <2>3. Produced'[o] = (fab[o].finished + 1) * fab[o].quantity
    BY <1>1 DEF Produced
  <2>4. Produced[o] = fab[o].finished * fab[o].quantity
    BY <1>1 DEF Produced
  <2>5. Consumed'[o] = (fab[o].finished + 1) * Planned(o)
    BY <1>1, <2>1 DEF Consumed, Planned
  <2>6. Consumed[o] = fab[o].finished * Planned(o)
    BY <1>1 DEF Consumed
  <2>7. (fab[o].finished + 1) * fab[o].quantity = fab[o].finished * fab[o].quantity + fab[o].quantity
    BY <2>2, RunMore
  <2>8. (fab[o].finished + 1) * Planned(o) = fab[o].finished * Planned(o) + Planned(o)
    BY <2>2, RunMore
  <2> QED BY <2>3, <2>4, <2>5, <2>6, <2>7, <2>8
<1>11. \A p \in FabOrderIds \ {o} : Produced[p] = Produced'[p]
  BY <1>2 DEF Produced
<1>12. \A p \in FabOrderIds \ {o} : Consumed[p] = Consumed'[p]
  BY <1>2 DEF Consumed, Planned
<1>13. SumFunctionOnSet(Produced', FabOrderIds)
         = SumFunctionOnSet(Produced, FabOrderIds) + Produced'[o] - Produced[o]
  BY <1>1, <1>9, <1>11, SumChange, SiteWorksAssumption
<1>14. SumFunctionOnSet(Consumed', FabOrderIds)
         = SumFunctionOnSet(Consumed, FabOrderIds) + Consumed'[o] - Consumed[o]
  BY <1>1, <1>9, <1>12, SumChange, SiteWorksAssumption
<1>15. SumFunctionOnSet(Produced, FabOrderIds) \in Int
  BY <1>9, SumType, SiteWorksAssumption
<1>16. SumFunctionOnSet(Consumed, FabOrderIds) \in Int
  BY <1>9, SumType, SiteWorksAssumption
<1>17. /\ SumFunction(Produced) = SumFunctionOnSet(Produced, FabOrderIds)
       /\ SumFunction(Produced') = SumFunctionOnSet(Produced', FabOrderIds)
       /\ SumFunction(Consumed) = SumFunctionOnSet(Consumed, FabOrderIds)
       /\ SumFunction(Consumed') = SumFunctionOnSet(Consumed', FabOrderIds)
  <2>1. /\ DOMAIN Produced = FabOrderIds /\ DOMAIN Produced' = FabOrderIds
        /\ DOMAIN Consumed = FabOrderIds /\ DOMAIN Consumed' = FabOrderIds
    BY DEF Produced, Consumed
  <2> QED BY <2>1 DEF SumFunction
<1>18. /\ onHand["material"]["outside"] \in Int /\ onHand["product"]["outside"] \in Int
       /\ cost["project"]["MATERIAL"] \in Int
       /\ fab[o].quantity \in Nat /\ Planned(o) \in Nat
       /\ Produced[o] \in Int /\ Consumed[o] \in Int
  <2>1. /\ onHand["material"]["outside"] \in Int /\ onHand["product"]["outside"] \in Int
        /\ cost["project"]["MATERIAL"] \in Int
    BY DEF TypeOK, LedgersTypeOK, Items, Places, Projects, Categories
  <2> QED BY <1>1, <1>7, <1>8, <1>9, <2>1
<1>19. ProductAgrees'
  <2>1. - onHand["product"]["outside"] = SumFunctionOnSet(Produced, FabOrderIds)
    BY <1>17 DEF LedgersAgree, ProductAgrees, InHand
  <2>2. - onHand'["product"]["outside"] = SumFunctionOnSet(Produced', FabOrderIds)
    BY <1>1, <1>10, <1>13, <1>15, <1>18, <2>1
  <2> QED BY <1>17, <2>2 DEF ProductAgrees, InHand
<1>20. MaterialAgrees'
  <2>1. - onHand["material"]["outside"]
          = cost["project"]["MATERIAL"] - SumFunctionOnSet(Consumed, FabOrderIds)
    BY <1>17 DEF LedgersAgree, MaterialAgrees, InHand
  <2>2. SumFunctionOnSet(Consumed', FabOrderIds)
          = SumFunctionOnSet(Consumed, FabOrderIds) + Planned(o)
    BY <1>10, <1>14, <1>16, <1>18
  <2>3. - onHand'["material"]["outside"]
          = cost'["project"]["MATERIAL"] - SumFunctionOnSet(Consumed', FabOrderIds)
    <3>1. \A a, b, m, x, y, k \in Int :
              -a = m - x /\ b = a + k /\ y = x + k => -b = m - y
      OBVIOUS
    <3>2. onHand'["material"]["outside"] \in Int
      BY <1>1 DEF TypeOK, LedgersTypeOK, Items, Places
    <3>3. SumFunctionOnSet(Consumed', FabOrderIds) \in Int
      BY <1>9, SumType, SiteWorksAssumption
    <3>4. onHand'["material"]["outside"] = onHand["material"]["outside"] + Planned(o)
      BY <1>1
    <3>5. Planned(o) \in Int
      BY <1>18
    <3> QED BY <1>5, <1>16, <1>18, <2>1, <2>2, <3>1, <3>2, <3>3, <3>4, <3>5
  <2> QED BY <1>17, <2>3 DEF MaterialAgrees, InHand
<1>21. ShortClosesAccounted'
  BY <1>1 DEF LedgersAgree, ShortClosesAccounted
<1> QED BY <1>4, <1>6, <1>19, <1>20, <1>21 DEF LedgersAgree

-----------------------------------------------------------------------------
(* Every step.                                                             *)

\* A step of the service orders is none of the others.
LEMMA ServiceElsewhere ==
    ASSUME Inv, TypeOK', NEW s \in Sessions, NEW r, Moves(s, r),
           r.op \in ServiceOps \cup {"idle"}, UNCHANGED <<fab, transfer>>
    PROVE  FabInv' /\ StockInv'
<1>1. \A t \in Sessions : req'[t] = req[t] \/ req'[t].op \notin FabOps \cup StockOps
  BY DEF Moves, ServiceOps, FabOps, StockOps
<1>2. TypeOK /\ FabInv /\ StockInv /\ fab' = fab /\ transfer' = transfer
  BY DEF Inv
<1>3. FabInv'
  BY <1>1, <1>2, FabFrame
<1>4. StockInv'
  BY <1>1, <1>2, StockFrame
<1> QED BY <1>3, <1>4

LEMMA FabElsewhere ==
    ASSUME Inv, TypeOK', NEW s \in Sessions, NEW r, Moves(s, r),
           r.op \in FabOps \cup {"idle"}, UNCHANGED <<service, transfer>>
    PROVE  ServiceInv' /\ StockInv'
<1>1. \A t \in Sessions : req'[t] = req[t] \/ req'[t].op \notin ServiceOps \cup StockOps
  BY DEF Moves, ServiceOps, FabOps, StockOps
<1>2. TypeOK /\ ServiceInv /\ StockInv /\ service' = service /\ transfer' = transfer
  BY DEF Inv
<1>3. ServiceInv'
  BY <1>1, <1>2, ServiceFrame
<1>4. StockInv'
  BY <1>1, <1>2, StockFrame
<1> QED BY <1>3, <1>4

LEMMA StockElsewhere ==
    ASSUME Inv, TypeOK', NEW s \in Sessions, NEW r, Moves(s, r),
           r.op \in StockOps \cup {"idle"}, UNCHANGED <<service, fab>>
    PROVE  ServiceInv' /\ FabInv'
<1>1. \A t \in Sessions : req'[t] = req[t] \/ req'[t].op \notin ServiceOps \cup FabOps
  BY DEF Moves, ServiceOps, FabOps, StockOps
<1>2. TypeOK /\ ServiceInv /\ FabInv /\ service' = service /\ fab' = fab
  BY DEF Inv
<1>3. ServiceInv'
  BY <1>1, <1>2, ServiceFrame
<1>4. FabInv'
  BY <1>1, <1>2, FabFrame
<1> QED BY <1>3, <1>4

LEMMA ServiceNextInv ==
    ASSUME Inv, ServiceNext, UNCHANGED <<fab, vendorKnown, flag, transfer>>
    PROVE  Inv'
<1> TypeOK /\ ServiceInv /\ LedgersAgree
  BY DEF Inv
<1> fab' = fab /\ transfer' = transfer
  OBVIOUS
<1> Idle.op = "idle"
  BY DEF Idle
<1>1. ASSUME NEW s \in Sessions, NEW o \in ServiceOrderIds, NEW n \in ServiceQtys,
             CreateServiceOrder(s, o, n)
      PROVE  Inv'
  <2>1. TypeOK' /\ Moves(s, [op |-> "submit", order |-> o])
    BY <1>1, CreateServiceTyped
  <2>2. ServiceInv' /\ LedgersAgree'
    BY <1>1, CreateServiceInv, CreateServiceLedgers
  <2>3. FabInv' /\ StockInv'
    BY <2>1, ServiceElsewhere DEF ServiceOps
  <2> QED BY <2>1, <2>2, <2>3 DEF Inv
<1>2. ASSUME NEW s \in Sessions, NEW o \in ServiceOrderIds, NEW n \in CertifyQtys,
             NEW final \in BOOLEAN, CertifyServiceOrder(s, o, n, final)
      PROVE  Inv'
  <2>1. /\ TypeOK' /\ ServiceInv'
        /\ Moves(s, [op |-> "certify", order |-> o, qty |-> n, final |-> final])
    BY <1>2, CertifyServiceInv
  <2>2. FabInv' /\ StockInv'
    BY <2>1, ServiceElsewhere DEF ServiceOps
  <2>3. service' = service /\ UNCHANGED ledgers
    BY <1>2 DEF CertifyServiceOrder
  <2>4. LedgersAgree'
    BY <2>1, <2>3, ServiceFields, FabFields, LedgersQuiet
  <2> QED BY <2>1, <2>2, <2>4 DEF Inv
<1>3. ASSUME NEW s \in Sessions, NEW o \in ServiceOrderIds, ApproveServiceOrder(s, o)
      PROVE  Inv'
  <2>1. TypeOK' /\ Moves(s, [op |-> "approve", order |-> o]) /\ ServiceInv'
    BY <1>3, ApproveServiceInv
  <2>2. FabInv' /\ StockInv'
    BY <2>1, ServiceElsewhere DEF ServiceOps
  <2>3. service' = service /\ UNCHANGED ledgers
    BY <1>3 DEF ApproveServiceOrder
  <2>4. LedgersAgree'
    BY <2>1, <2>3, ServiceFields, FabFields, LedgersQuiet
  <2> QED BY <2>1, <2>2, <2>4 DEF Inv
<1>4. ASSUME NEW s \in Sessions, ParkServiceOrder(s) \/ IssueServiceOrder(s)
      PROVE  Inv'
  <2> DEFINE o == req[s].order
  <2>1. /\ TypeOK' /\ Moves(s, Idle) /\ UNCHANGED ledgers
        /\ service'[o].quantity = service[o].quantity
        /\ service'[o].certified = service[o].certified
        /\ service'[o].short = service[o].short
        /\ \A p \in ServiceOrderIds : p # o => service'[p] = service[p]
    BY <1>4, IssueServiceTyped
  <2>2. ServiceInv'
    BY <1>4, IssueServiceInv
  <2>3. FabInv' /\ StockInv'
    BY <2>1, ServiceElsewhere
  <2> HIDE DEF o
  <2>4. \A p \in ServiceOrderIds :
            /\ service'[p].certified = service[p].certified
            /\ service'[p].short = service[p].short
            /\ service'[p].quantity = service[p].quantity
    BY <2>1
  <2>5. LedgersAgree'
    BY <2>1, <2>4, LedgersQuiet
  <2> QED BY <2>1, <2>2, <2>3, <2>5 DEF Inv
<1>5. ASSUME NEW s \in Sessions, NumberBill(s)
      PROVE  Inv'
  <2>1. TypeOK' /\ ServiceInv' /\ \E r \in ServiceRequests : r.op = "bill" /\ Moves(s, r)
    BY <1>5, NumberBillInv
  <2>2. FabInv' /\ StockInv'
    BY <2>1, ServiceElsewhere DEF ServiceOps
  <2>3. service' = service /\ UNCHANGED ledgers
    BY <1>5 DEF NumberBill
  <2>4. LedgersAgree'
    BY <2>1, <2>3, ServiceFields, FabFields, LedgersQuiet
  <2> QED BY <2>1, <2>2, <2>4 DEF Inv
<1>6. ASSUME NEW s \in Sessions, BillService(s)
      PROVE  Inv'
  <2>1. TypeOK' /\ Moves(s, Idle)
    BY <1>6, BillServiceTyped
  <2>2. ServiceInv' /\ LedgersAgree'
    BY <1>6, BillServiceInv, BillServiceLedgers
  <2>3. FabInv' /\ StockInv'
    BY <2>1, ServiceElsewhere
  <2> QED BY <2>1, <2>2, <2>3 DEF Inv
<1> QED BY <1>1, <1>2, <1>3, <1>4, <1>5, <1>6 DEF ServiceNext

LEMMA FabNextInv ==
    ASSUME Inv, FabNext, UNCHANGED <<service, flag, transfer>>
    PROVE  Inv'
<1> TypeOK /\ FabInv /\ LedgersAgree
  BY DEF Inv
<1> service' = service /\ transfer' = transfer
  OBVIOUS
<1> Idle.op = "idle"
  BY DEF Idle
<1>1. ASSUME NEW o \in FabOrderIds, NEW n \in FabQtys, NEW mode \in Modes,
             CreateFabOrder(o, n, mode)
      PROVE  Inv'
  <2>1. TypeOK' /\ req' = req
    BY <1>1, CreateFabTyped
  <2>2. FabInv' /\ LedgersAgree'
    BY <1>1, CreateFabInv, CreateFabLedgers
  <2>3. ServiceInv'
    BY <2>1, ServiceFrame DEF Inv
  <2>4. StockInv'
    BY <2>1, StockFrame DEF Inv
  <2> QED BY <2>1, <2>2, <2>3, <2>4 DEF Inv
<1>2. ASSUME NEW s \in Sessions, NEW r \in FabRequests, Begin(s, r),
             fab[r.order].status # "absent", r.op = "complete" => Completable(r.order),
             UNCHANGED <<ledgers, fab, vendorKnown>>
      PROVE  Inv'
  <2>1. TypeOK' /\ Moves(s, r) /\ FabInv'
    BY <1>2, BeginFabInv
  <2>2. r.op \in FabOps
    BY DEF FabRequests, FabOps
  <2>3. ServiceInv' /\ StockInv'
    BY <2>1, <2>2, FabElsewhere
  <2>4. LedgersAgree'
    BY <1>2, <2>1, ServiceFields, FabFields, LedgersQuiet
  <2> QED BY <2>1, <2>3, <2>4 DEF Inv
<1>3. ASSUME NEW s \in Sessions, NEW o \in FabOrderIds, BeginMaterial(s, o)
      PROVE  Inv'
  <2> DEFINE r == [op |-> "request_material", order |-> o]
  <2>1. r \in FabRequests /\ r.op # "complete" /\ r.order = o
    BY DEF FabRequests
  <2>2. Begin(s, r) /\ fab[o].status # "absent" /\ UNCHANGED <<ledgers, fab, vendorKnown>>
    BY <1>3 DEF BeginMaterial
  <2> HIDE DEF r
  <2> QED BY <1>2, <2>1, <2>2
<1>4. ASSUME NEW s \in Sessions, NEW o \in FabOrderIds, BeginStart(s, o)
      PROVE  Inv'
  <2> DEFINE r == [op |-> "start", order |-> o]
  <2>1. r \in FabRequests /\ r.op # "complete" /\ r.order = o
    BY DEF FabRequests
  <2>2. Begin(s, r) /\ fab[o].status # "absent" /\ UNCHANGED <<ledgers, fab, vendorKnown>>
    BY <1>4 DEF BeginStart
  <2> HIDE DEF r
  <2> QED BY <1>2, <2>1, <2>2
<1>5. ASSUME NEW s \in Sessions, NEW o \in FabOrderIds, NEW charge \in {0, 1},
             BeginComplete(s, o, charge)
      PROVE  Inv'
  <2> DEFINE r == [op |-> "complete", order |-> o, charge |-> charge]
  <2>1. r \in FabRequests /\ r.order = o
    BY DEF FabRequests
  <2>2. Begin(s, r) /\ Completable(o) /\ UNCHANGED <<ledgers, fab, vendorKnown>>
    BY <1>5 DEF BeginComplete
  <2>3. fab[o].status # "absent"
    BY <2>2 DEF Completable
  <2> HIDE DEF r
  <2> QED BY <1>2, <2>1, <2>2, <2>3
<1>6. ASSUME NEW s \in Sessions, WriteMaterial(s)
      PROVE  Inv'
  <2> DEFINE o == req[s].order
  <2>1. /\ TypeOK' /\ Moves(s, Idle) /\ UNCHANGED ledgers
        /\ fab'[o].finished = fab[o].finished /\ fab'[o].quantity = fab[o].quantity
        /\ \A p \in FabOrderIds : p # o => fab'[p] = fab[p]
    BY <1>6, WriteMaterialTyped
  <2>2. FabInv'
    BY <1>6, WriteMaterialInv
  <2>3. ServiceInv' /\ StockInv'
    BY <2>1, FabElsewhere
  <2> HIDE DEF o
  <2>4. \A p \in FabOrderIds :
            fab'[p].finished = fab[p].finished /\ fab'[p].quantity = fab[p].quantity
    BY <2>1
  <2>5. LedgersAgree'
    BY <2>1, <2>4, LedgersQuiet
  <2> QED BY <2>1, <2>2, <2>3, <2>5 DEF Inv
<1>7. ASSUME NEW s \in Sessions, WriteStart(s)
      PROVE  Inv'
  <2>1. TypeOK' /\ Moves(s, Idle)
    BY <1>7, WriteStartTyped
  <2>2. FabInv' /\ LedgersAgree'
    BY <1>7, WriteStartInv, WriteStartLedgers
  <2>3. ServiceInv' /\ StockInv'
    BY <2>1, FabElsewhere
  <2> QED BY <2>1, <2>2, <2>3 DEF Inv
<1>8. ASSUME NEW s \in Sessions, WriteComplete(s)
      PROVE  Inv'
  <2>1. TypeOK' /\ Moves(s, Idle)
    BY <1>8, WriteCompleteTyped
  <2>2. FabInv' /\ LedgersAgree'
    BY <1>8, WriteCompleteInv, WriteCompleteLedgers
  <2>3. ServiceInv' /\ StockInv'
    BY <2>1, FabElsewhere
  <2> QED BY <2>1, <2>2, <2>3 DEF Inv
<1> QED BY <1>1, <1>3, <1>4, <1>5, <1>6, <1>7, <1>8 DEF FabNext

LEMMA StockNextInv ==
    ASSUME Inv, StockNext, UNCHANGED <<service, fab, vendorKnown>>
    PROVE  Inv'
<1> TypeOK /\ StockInv /\ LedgersAgree
  BY DEF Inv
<1> service' = service /\ fab' = fab
  OBVIOUS
<1> Idle.op = "idle"
  BY DEF Idle
<1>1. ASSUME TypeOK', StockInv', UNCHANGED <<req, ledgers>> PROVE Inv'
  <2>1. ServiceInv'
    BY <1>1, ServiceFrame DEF Inv
  <2>2. FabInv'
    BY <1>1, FabFrame DEF Inv
  <2>3. LedgersAgree'
    BY <1>1, LedgersQuiet
  <2> QED BY <1>1, <2>1, <2>2, <2>3 DEF Inv
<1>2. ASSUME NEW f \in FlagIds, NEW i \in Items, NEW l \in Sites, NEW n \in FlagQtys,
             NEW value \in {0, 1}, FlagExcess(f, i, l, n, value)
      PROVE  Inv'
  <2>1. TypeOK' /\ StockInv'
    BY <1>2, FlagExcessInv
  <2>2. UNCHANGED <<req, ledgers>>
    BY <1>2 DEF FlagExcess
  <2> QED BY <1>1, <2>1, <2>2
<1>3. ASSUME NEW t \in TransferIds, NEW f \in FlagIds, NEW l \in Sites, Redeploy(t, f, l)
      PROVE  Inv'
  <2>1. TypeOK' /\ StockInv'
    BY <1>3, RedeployInv
  <2>2. UNCHANGED <<req, ledgers>>
    BY <1>3 DEF Redeploy
  <2> QED BY <1>1, <2>1, <2>2
<1>4. ASSUME NEW s \in Sessions, NEW r \in StockRequests, Begin(s, r),
             transfer[r.transfer].status # "absent",
             r.op = "accept" => Acceptable(r.transfer),
             UNCHANGED <<ledgers, flag, transfer>>
      PROVE  Inv'
  <2>1. TypeOK' /\ Moves(s, r) /\ StockInv'
    BY <1>4, BeginStockInv
  <2>2. r.op \in StockOps
    BY DEF StockRequests, StockOps
  <2>3. ServiceInv' /\ FabInv'
    BY <2>1, <2>2, StockElsewhere
  <2>4. LedgersAgree'
    BY <1>4, <2>1, LedgersQuiet
  <2> QED BY <2>1, <2>3, <2>4 DEF Inv
<1>5. ASSUME NEW s \in Sessions, NEW t \in TransferIds, BeginAccept(s, t)
      PROVE  Inv'
  <2> DEFINE r == [op |-> "accept", transfer |-> t]
  <2>1. r \in StockRequests /\ r.transfer = t
    BY DEF StockRequests
  <2>2. Begin(s, r) /\ Acceptable(t) /\ UNCHANGED <<ledgers, flag, transfer>>
    BY <1>5 DEF BeginAccept
  <2>3. transfer[t].status # "absent"
    BY <2>2 DEF Acceptable
  <2> HIDE DEF r
  <2> QED BY <1>4, <2>1, <2>2, <2>3
<1>6. ASSUME NEW s \in Sessions, NEW t \in TransferIds, BeginDecline(s, t)
      PROVE  Inv'
  <2> DEFINE r == [op |-> "decline", transfer |-> t]
  <2>1. r \in StockRequests /\ r.transfer = t /\ r.op # "accept"
    BY DEF StockRequests
  <2>2. /\ Begin(s, r) /\ transfer[t].status # "absent"
        /\ UNCHANGED <<ledgers, flag, transfer>>
    BY <1>6 DEF BeginDecline
  <2> HIDE DEF r
  <2> QED BY <1>4, <2>1, <2>2
<1>7. ASSUME NEW s \in Sessions, WriteAccepted(s)
      PROVE  Inv'
  <2>1. TypeOK' /\ Moves(s, Idle)
    BY <1>7, WriteAcceptedTyped
  <2>2. StockInv' /\ LedgersAgree'
    BY <1>7, WriteAcceptedInv, WriteAcceptedLedgers
  <2>3. ServiceInv' /\ FabInv'
    BY <2>1, StockElsewhere
  <2> QED BY <2>1, <2>2, <2>3 DEF Inv
<1>8. ASSUME NEW s \in Sessions, WriteDeclined(s)
      PROVE  Inv'
  <2>1. TypeOK' /\ Moves(s, Idle) /\ UNCHANGED ledgers /\ StockInv'
    BY <1>8, WriteDeclinedInv
  <2>2. ServiceInv' /\ FabInv'
    BY <2>1, StockElsewhere
  <2>3. LedgersAgree'
    BY <2>1, LedgersQuiet
  <2> QED BY <2>1, <2>2, <2>3 DEF Inv
<1> QED BY <1>2, <1>3, <1>5, <1>6, <1>7, <1>8 DEF StockNext

LEMMA NextInv == Inv /\ [Next]_vars => Inv'
<1> SUFFICES ASSUME Inv, [Next]_vars PROVE Inv'
  OBVIOUS
<1> TypeOK /\ ServiceInv /\ FabInv /\ StockInv /\ LedgersAgree
  BY DEF Inv
<1>1. CASE ServiceNext /\ UNCHANGED <<fab, vendorKnown, flag, transfer>>
  BY <1>1, ServiceNextInv
<1>2. CASE FabNext /\ UNCHANGED <<service, flag, transfer>>
  BY <1>2, FabNextInv
<1>3. CASE StockNext /\ UNCHANGED <<service, fab, vendorKnown>>
  BY <1>3, StockNextInv
<1>4. ASSUME NEW l \in {"site", "works"}, Supply(l)
      PROVE  Inv'
  <2>1. TypeOK' /\ UNCHANGED <<req, works>>
    BY <1>4, SupplyTyped
  <2>2. LedgersAgree'
    BY <1>4, SupplyLedgers
  <2>3. req' = req /\ service' = service /\ fab' = fab /\ transfer' = transfer
    BY <2>1 DEF works
  <2>4. ServiceInv'
    BY <2>1, <2>3, ServiceFrame
  <2>5. FabInv'
    BY <2>1, <2>3, FabFrame
  <2>6. StockInv'
    BY <2>3, StockFrame
  <2> QED BY <2>1, <2>2, <2>4, <2>5, <2>6 DEF Inv
<1>5. ASSUME NEW s \in Sessions, Rollback(s), UNCHANGED <<ledgers, works>>
      PROVE  Inv'
  <2>1. Moves(s, Idle)
    BY <1>5, FinishMoves DEF Rollback
  <2>2. service' = service /\ fab' = fab /\ transfer' = transfer
    BY <1>5 DEF works
  <2>3. TypeOK'
    BY <1>5, <2>1 DEF Moves, AllRequests, works, ledgers, TypeOK, LedgersTypeOK,
                      ServiceTypeOK, FabTypeOK, StockTypeOK
  <2>4. Idle.op = "idle"
    BY DEF Idle
  <2>5. ServiceInv' /\ FabInv'
    BY <2>1, <2>2, <2>3, <2>4, StockElsewhere
  <2>6. StockInv'
    BY <2>1, <2>2, <2>3, <2>4, FabElsewhere
  <2>7. LedgersAgree'
    BY <1>5, <2>2, <2>3, LedgersQuiet
  <2> QED BY <2>3, <2>5, <2>6, <2>7 DEF Inv
<1>6. CASE UNCHANGED vars
  <2>1. /\ req' = req /\ service' = service /\ fab' = fab /\ transfer' = transfer
        /\ UNCHANGED ledgers
    BY <1>6 DEF vars, works
  <2>2. TypeOK'
    BY <1>6 DEF vars, ledgers, works, TypeOK, LedgersTypeOK,
                ServiceTypeOK, FabTypeOK, StockTypeOK
  <2>3. ServiceInv'
    BY <2>1, <2>2, ServiceFrame
  <2>4. FabInv'
    BY <2>1, <2>2, FabFrame
  <2>5. StockInv'
    BY <2>1, StockFrame
  <2>6. LedgersAgree'
    BY <2>1, <2>2, LedgersQuiet
  <2> QED BY <2>2, <2>3, <2>4, <2>5, <2>6 DEF Inv
<1> QED BY <1>1, <1>2, <1>3, <1>4, <1>5, <1>6 DEF Next

LEMMA InitInv == Init => Inv
<1> SUFFICES ASSUME Init PROVE Inv
  OBVIOUS
<1>1. TypeOK
  <2>1. NoServiceOrder \in ServiceRows
    BY DEF NoServiceOrder, ServiceRows, ServiceStatuses
  <2>2. NoFabOrder \in FabRows
    BY DEF NoFabOrder, FabRows, FabStatuses, Modes
  <2>3. NoFlag \in FlagRows
    BY DEF NoFlag, FlagRows, Items, Sites
  <2>4. NoTransfer \in TransferRows
    BY DEF NoTransfer, TransferRows, Sites
  <2>5. LedgersTypeOK
    BY DEF Init, LedgersInit, LedgersTypeOK
  <2> QED BY <2>1, <2>2, <2>3, <2>4, <2>5
          DEF Init, NoRequests, ServiceInit, FabInit, StockInit,
              TypeOK, ServiceTypeOK, FabTypeOK, StockTypeOK
<1>2. \A s \in Sessions : req[s].op = "idle"
  BY DEF Init, NoRequests, Idle
<1>3. ServiceInv
  <2>1. \A o \in ServiceOrderIds : service[o] = NoServiceOrder
    BY DEF Init, ServiceInit
  <2>2. IsFiniteSet({}) /\ Cardinality({}) = 0 /\ 1..0 = {}
    BY FS_EmptySet
  <2>3. BillsNumbered
    <3>1. \A o \in ServiceOrderIds : service[o].numbers = {}
      BY <2>1 DEF NoServiceOrder
    <3>2. {} = 1..Cardinality({})
      BY <2>2
    <3> QED BY <3>1, <3>2 DEF BillsNumbered
  <2>4. ServiceGrounded
    <3>1. \A o \in ServiceOrderIds : service[o].numbers = {} /\ service[o].status = "absent"
      BY <2>1 DEF NoServiceOrder
    <3>2. \A o \in ServiceOrderIds :
            /\ service[o].status = "absent" => service[o] = NoServiceOrder
            /\ service[o].status \in {"issued", "complete"} => service[o].announced > 0
            /\ IsFiniteSet(service[o].numbers)
      BY <2>1, <2>2, <3>1
    <3>3. \A s \in Sessions : req[s].op \notin ServiceOps
      BY <1>2 DEF ServiceOps
    <3> QED BY <3>2, <3>3 DEF ServiceGrounded, ServiceOps
  <2>5. ScopeShared
    <3> SUFFICES ASSUME NEW o \in ServiceOrderIds
                 PROVE  /\ \A s \in Sessions : Wants(req, o)[s] <= service[o].quantity
                        /\ service[o].certified + SumFunctionOnSet(Wants(req, o), Sessions)
                             <= N * service[o].quantity
      BY DEF ScopeShared
    <3>1. service[o].quantity = 0 /\ service[o].certified = 0
      BY <2>1 DEF NoServiceOrder
    <3>2. \A s \in Sessions : Wants(req, o)[s] = 0
      BY <1>2 DEF Wants
    <3>3. SumFunctionOnSet(Wants(req, o), Sessions) = 0
      BY <3>2, SumZero, SessionsFinite
    <3>4. N * 0 = 0
      BY SessionsFinite
    <3> QED BY <3>1, <3>2, <3>3, <3>4
  <2> QED BY <2>3, <2>4, <2>5 DEF ServiceInv
<1>4. FabInv
  <2>1. \A o \in FabOrderIds : fab[o] = NoFabOrder
    BY DEF Init, FabInit
  <2>2. \A o \in FabOrderIds : Completing(req, o) = {}
    BY <1>2 DEF Completing
  <2>3. Cardinality({}) = 0 /\ N * (0 + 0) = 0
    BY FS_EmptySet, SessionsFinite
  <2>4. RunsShared
    BY <2>1, <2>2, <2>3 DEF RunsShared, NoFabOrder, Completable
  <2> QED BY <1>2, <2>1, <2>4 DEF FabInv, FabGrounded, FabOps
<1>5. StockInv
  <2>1. \A t \in TransferIds : transfer[t] = NoTransfer
    BY DEF Init, StockInit
  <2>2. \A t \in TransferIds : Accepting(req, t) = {}
    BY <1>2 DEF Accepting
  <2>3. Cardinality({}) = 0 /\ N \in Nat
    BY FS_EmptySet, SessionsFinite
  <2>4. MovesShared
    BY <2>1, <2>2, <2>3 DEF MovesShared, NoTransfer, Acceptable
  <2> QED BY <1>2, <2>1, <2>4 DEF StockInv, StockGrounded, StockOps, NoTransfer
<1>6. LedgersAgree
  <2>1. /\ \A o \in ServiceOrderIds : service[o] = NoServiceOrder /\ held[o] = 0
        /\ \A o \in FabOrderIds : fab[o] = NoFabOrder
    BY SiteWorksAssumption DEF Init, ServiceInit, FabInit, LedgersInit
  <2>2. /\ onHand["product"]["outside"] = 0 /\ onHand["material"]["outside"] = 0
        /\ \A p \in Projects, c \in Categories : cost[p][c] = 0
    BY DEF Init, LedgersInit, Items, Places
  <2>3. SumFunction(Certified) = 0
    <3>1. DOMAIN Certified = ServiceOrderIds /\ \A o \in ServiceOrderIds : Certified[o] = 0
      BY <2>1 DEF Certified, NoServiceOrder
    <3> QED BY <3>1, SumZero, SiteWorksAssumption DEF SumFunction
  <2>4. SumFunction(Produced) = 0
    <3>1. DOMAIN Produced = FabOrderIds /\ \A o \in FabOrderIds : Produced[o] = 0
      BY <2>1 DEF Produced, NoFabOrder
    <3> QED BY <3>1, SumZero, SiteWorksAssumption DEF SumFunction
  <2>5. SumFunction(Consumed) = 0
    <3>1. DOMAIN Consumed = FabOrderIds
      BY DEF Consumed
    <3>2. ASSUME NEW o \in FabOrderIds PROVE Consumed[o] = 0
      <4>1. fab[o].finished = 0 /\ fab[o].quantity = 0
        BY <2>1 DEF NoFabOrder
      <4>2. Recipe * 0 = 0
        BY SiteWorksAssumption
      <4> QED BY <4>1, <4>2 DEF Consumed, Planned
    <3> QED BY <3>1, <3>2, SumZero, SiteWorksAssumption DEF SumFunction
  <2>6. SubcontractAgrees
    BY <2>2, <2>3 DEF SubcontractAgrees, Projects, Categories
  <2>7. ProductAgrees
    <3>1. \A a, b \in Int : a + b = 0 => -a = b
      OBVIOUS
    <3>2. /\ onHand["product"]["outside"] \in Int /\ SumFunction(Produced) \in Int
          /\ onHand["product"]["outside"] + SumFunction(Produced) = 0
      BY <2>2, <2>4
    <3> QED BY <3>1, <3>2 DEF ProductAgrees, InHand
  <2>8. MaterialAgrees
    BY <2>2, <2>5 DEF MaterialAgrees, InHand, Projects, Categories
  <2>9. CostsAgree
    BY <2>2 DEF CostsAgree, CostOf, Projects, Categories
  <2>10. ShortClosesAccounted
    BY <2>1 DEF ShortClosesAccounted, NoServiceOrder
  <2> QED BY <2>6, <2>7, <2>8, <2>9, <2>10 DEF LedgersAgree
<1> QED BY <1>1, <1>3, <1>4, <1>5, <1>6 DEF Inv

-----------------------------------------------------------------------------
(* The results.                                                            *)

LEMMA InvHolds == Spec => []Inv
<1> QED BY InitInv, NextInv, PTL DEF Spec

(* Service orders, fabrication orders, transfers, requests and ledgers     *)
(* stay what their rows can hold, and no order holds less than nothing.    *)
THEOREM SiteWorksTyped == Spec => []TypeOK
<1>1. Inv => TypeOK
  BY DEF Inv
<1> QED BY <1>1, InvHolds, PTL

(* The running bills of every service order are 1, 2, ... without gap or   *)
(* repetition, and nothing is billed on an order that was never issued,    *)
(* for any number of requests that certify from out-of-date counts.        *)
THEOREM BillsStayNumbered == Spec => []BillsNumbered
<1>1. Inv => BillsNumbered
  BY DEF Inv, ServiceInv
<1> QED BY <1>1, InvHolds, PTL

(* What N overlapping requests can certify, produce and move is at most N  *)
(* times the scope, the runs started or asked for, and the transfer.       *)
THEOREM PostedOncePerOverlap == Spec => []OncePerOverlap
<1>1. ASSUME Inv PROVE CertifiedWithinScope
  <2> SUFFICES ASSUME NEW o \in ServiceOrderIds
               PROVE  service[o].certified <= N * service[o].quantity
    BY DEF CertifiedWithinScope, N
  <2>1. req \in Requesting /\ TypeOK
    BY <1>1 DEF Inv, TypeOK, Requesting, AllRequests
  <2>2. SumFunctionOnSet(Wants(req, o), Sessions) \in Nat
    BY <2>1, WantsSum
  <2>3. service[o].certified + SumFunctionOnSet(Wants(req, o), Sessions)
          <= N * service[o].quantity
    BY <1>1 DEF Inv, ServiceInv, ScopeShared
  <2>4. service[o].certified \in Nat /\ N * service[o].quantity \in Nat
    BY <2>1, ServiceFields, SessionsFinite
  <2> QED BY <2>2, <2>3, <2>4
<1>2. ASSUME Inv PROVE FinishedPerRun
  <2> SUFFICES ASSUME NEW o \in FabOrderIds
               PROVE  fab[o].finished <= N * (fab[o].started + fab[o].asked)
    BY DEF FinishedPerRun, N
  <2>1. N \in Nat /\ Cardinality(Completing(req, o)) \in Nat
    BY SessionsFinite, CompletingSize
  <2>2. fab[o].finished \in Nat /\ fab[o].started + fab[o].asked \in Nat
    BY <1>2, FabFields DEF Inv
  <2>3. N * (fab[o].started + fab[o].asked) \in Nat
    BY <2>1, <2>2
  <2>4. fab[o].finished + (IF Completable(o) THEN N ELSE Cardinality(Completing(req, o)))
          <= N * (fab[o].started + fab[o].asked)
    BY <1>2 DEF Inv, FabInv, RunsShared
  <2> QED BY <2>1, <2>2, <2>3, <2>4
<1>3. ASSUME Inv PROVE MovedOncePerSession
  <2> SUFFICES ASSUME NEW t \in TransferIds PROVE transfer[t].moved <= N
    BY DEF MovedOncePerSession, N
  <2>1. N \in Nat /\ Cardinality(Accepting(req, t)) \in Nat
    BY SessionsFinite, AcceptingSize
  <2>2. transfer[t].moved \in Nat
    BY <1>3, TransferFields DEF Inv
  <2>3. transfer[t].moved + (IF Acceptable(t) THEN N ELSE Cardinality(Accepting(req, t))) <= N
    BY <1>3 DEF Inv, StockInv, MovesShared
  <2> QED BY <2>1, <2>2, <2>3
<1>4. Inv => OncePerOverlap
  BY <1>1, <1>2, <1>3 DEF OncePerOverlap
<1> QED BY <1>4, InvHolds, PTL

(* Whatever interleaves, the cost of subcontracts is the sum of what was   *)
(* certified, the stock in hand is what the orders produced and left over, *)
(* the value that left one project reached another, and headroom left a    *)
(* service order only by closing it short.                                 *)
THEOREM LedgersStayTrue == Spec => []LedgersAgree
<1>1. Inv => LedgersAgree
  BY DEF Inv
<1> QED BY <1>1, InvHolds, PTL

\* A step raises no line above its ceiling.
LEMMA LedgerStep ==
    ASSUME Inv, [Next]_vars, NEW b \in DOMAIN Ceilings
    PROVE  committed'[b] <= committed[b] \/ committed'[b] <= Ceilings[b]
<1> LedgersTypeOK
  BY DEF Inv, TypeOK
<1>1. committed[b] \in Int
  BY DEF LedgersTypeOK
<1>2. ASSUME committed' = committed PROVE committed'[b] <= committed[b]
  BY <1>1, <1>2
<1>3. ASSUME NEW d \in Documents, NEW n \in Nat, Reserve(d, n)
      PROVE  committed'[b] <= committed[b] \/ committed'[b] <= Ceilings[b]
  BY <1>3, ReserveEffect
<1>4. CASE UNCHANGED ledgers
  BY <1>2, <1>4 DEF ledgers
<1>5. ASSUME NEW s \in Sessions, NEW o \in ServiceOrderIds, NEW n \in ServiceQtys,
             CreateServiceOrder(s, o, n)
      PROVE  committed'[b] <= committed[b] \/ committed'[b] <= Ceilings[b]
  <2>1. o \in Documents /\ n \in Nat
    BY SiteWorksAssumption
  <2> QED BY <1>3, <1>5, <2>1 DEF CreateServiceOrder
<1>6. ASSUME NEW s \in Sessions, BillService(s)
      PROVE  committed'[b] <= committed[b] \/ committed'[b] <= Ceilings[b]
  <2> DEFINE o == req[s].order
             left == Outstanding(o) - req[s].qty
  <2>1. CASE req[s].final /\ left > 0
    <3>1. Release(o, left)
      BY <1>6, <2>1 DEF BillService
    <3>2. o \in Documents /\ left \in Nat
      <4>1. req[s].op = "bill"
        BY <1>6 DEF BillService
      <4>2. o \in ServiceOrderIds /\ req[s].qty \in Nat
        BY <4>1, RequestFields DEF Inv, TypeOK, ServiceOps, AllRequests
      <4>3. left \in Int
        BY <4>2, ServiceFields DEF Outstanding, Inv
      <4> QED BY <2>1, <4>2, <4>3, SiteWorksAssumption
    <3> QED BY <3>1, <3>2, ReleaseEffect
  <2>2. CASE ~(req[s].final /\ left > 0)
    BY <1>2, <1>6, <2>2 DEF BillService
  <2> QED BY <2>1, <2>2
<1>7. CASE ServiceNext
  BY <1>4, <1>5, <1>6, <1>7
     DEF ServiceNext, CertifyServiceOrder, ApproveServiceOrder, ParkServiceOrder,
         IssueServiceOrder, NumberBill
<1>8. ASSUME NEW o \in FabOrderIds, NEW n \in FabQtys, NEW mode \in Modes,
             CreateFabOrder(o, n, mode)
      PROVE  committed'[b] <= committed[b] \/ committed'[b] <= Ceilings[b]
  <2>1. o \in Documents /\ n \in Nat
    BY SiteWorksAssumption
  <2> QED BY <1>3, <1>8, <2>1 DEF CreateFabOrder
<1>9. CASE FabNext
  BY <1>2, <1>4, <1>8, <1>9
     DEF FabNext, BeginMaterial, BeginStart, BeginComplete, WriteMaterial, WriteStart,
         WriteComplete
<1>10. CASE StockNext
  BY <1>2, <1>4, <1>10
     DEF StockNext, FlagExcess, Redeploy, BeginAccept, BeginDecline, WriteAccepted,
         WriteDeclined
<1>11. ASSUME NEW l \in {"site", "works"}, Supply(l) PROVE committed'[b] <= committed[b]
  BY <1>2, <1>11 DEF Supply
<1>12. CASE UNCHANGED vars
  BY <1>2, <1>12 DEF vars, ledgers
<1> QED BY <1>4, <1>7, <1>9, <1>10, <1>11, <1>12 DEF Next

(* Service and fabrication orders implement the contract of the ceiling:   *)
(* no step leaves an order holding less than nothing, or raises what is    *)
(* committed against a line above what the line permits.                   *)
THEOREM WorksKeepContract == Spec => KeepsContract
<1> DEFINE heldByLine == [b \in DOMAIN Ceilings |->
                            [d \in Documents |-> IF LineOf[d] = b THEN held[d] ELSE 0]]
           noOverride == [b \in DOMAIN Ceilings |-> 0]
<1>1. Init => Contract!Init
  BY DEF Init, LedgersInit, Contract!Init
<1>2. Inv /\ Inv' /\ [Next]_vars => [Contract!Authorize]_(Contract!vars)
  <2> SUFFICES ASSUME Inv, Inv', [Next]_vars PROVE Contract!Authorize
    OBVIOUS
  <2>1. /\ held' \in [Documents -> Nat] /\ committed' \in [DOMAIN Ceilings -> Int]
        /\ committed \in [DOMAIN Ceilings -> Int]
    BY DEF Inv, TypeOK, LedgersTypeOK
  <2>2. [b \in DOMAIN Ceilings |->
           [d \in Documents |-> IF LineOf[d] = b THEN held'[d] ELSE 0]]
          \in [DOMAIN Ceilings -> [Documents -> Nat]]
    BY <2>1
  <2>3. ASSUME NEW b \in DOMAIN Ceilings
        PROVE  committed'[b] <= Contract!Larger(committed[b], Ceilings[b]) + (0 - 0)
    <3>1. committed'[b] <= committed[b] \/ committed'[b] <= Ceilings[b]
      BY LedgerStep
    <3>2. committed'[b] \in Int /\ committed[b] \in Int /\ Ceilings[b] \in Nat
      BY <2>1, SiteWorksAssumption
    <3> QED BY <3>1, <3>2 DEF Contract!Larger
  <2> QED BY <2>1, <2>2, <2>3 DEF Contract!Authorize
<1> QED BY <1>1, <1>2, InvHolds, PTL DEF Spec, KeepsContract, Contract!Spec
=============================================================================
