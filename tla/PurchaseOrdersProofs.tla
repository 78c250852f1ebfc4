------------------------ MODULE PurchaseOrdersProofs ------------------------
(***************************************************************************)
(* Proofs about PurchaseOrders: for any number of requests, orders,        *)
(* receipts and quantities, racing requests keep an order's headroom       *)
(* accounted for, announce it once, post a receipt once, and stay within   *)
(* the contract of the ceiling.                                            *)
(***************************************************************************)
EXTENDS PurchaseOrders, TLAPS

Books == TypeOK /\ BooksBalance

\* Every quantity in play is a natural number.
LEMMA QuantitiesAreNat == Quantities \subseteq Nat /\ Qtys \subseteq Nat
<1>1. ASSUME NEW n \in Qtys PROVE n \in Nat /\ 0..n \subseteq Nat
  BY OrdersAssumption
<1> QED BY <1>1, Zenon DEF Quantities

\* The fields of each kind of request.
LEMMA RequestFields ==
    ASSUME TypeOK, NEW s \in Sessions
    PROVE  /\ req[s].op \in {"park", "confirm"} => req[s].order \in Orders
           /\ req[s].op = "amend" =>
                req[s].order \in Orders /\ req[s].was \in Nat /\ req[s].new \in Nat
           /\ req[s].op \in {"record", "return"} =>
                req[s].order \in Orders /\ req[s].qty \in Nat
           /\ req[s].op = "verify" =>
                /\ req[s].receipt \in Receipts
                /\ req[s].accept \in Nat
                /\ req[s].reject \in Nat
<1>1. req[s] \in Requests \cup {NoRequest}
  BY DEF TypeOK
<1> QED BY <1>1 DEF Requests, NoRequest

\* A receipt that exists is a row of its order.
LEMMA ReceiptFields ==
    ASSUME TypeOK, NEW g \in Receipts, receipt[g] # NoReceipt
    PROVE  receipt[g] \in ReceiptRows /\ receipt[g].order \in Orders
  BY DEF TypeOK, ReceiptRows

\* What a release does to the ledger.
LEMMA ReleaseEffect ==
    ASSUME TypeOK, NEW o \in Orders, NEW n \in Nat, ReleaseHeadroom(o, n)
    PROVE  /\ held' \in [Orders -> Nat]
           /\ committed' \in Int
           /\ committed' <= committed
           /\ held'[o] = held[o] - n
           /\ \A p \in Orders : p # o => held'[p] = held[p]
  BY DEF TypeOK, ReleaseHeadroom

\* A session that finishes leaves the requests typed; the others stay.
LEMMA FinishEffect ==
    ASSUME TypeOK, NEW s \in Sessions, Finish(s)
    PROVE  /\ req' \in [Sessions -> Requests \cup {NoRequest}]
           /\ req'[s].op = "none"
           /\ \A t \in Sessions : t # s => req'[t] = req[t]
  BY DEF TypeOK, Finish, NoRequest

-----------------------------------------------------------------------------
(* The initial state keeps the books.                                      *)
LEMMA InitBooks == Init => Books
  BY DEF Init, Books, TypeOK, BooksBalance, AbsentIsEmpty, RequestsGrounded, StaleQuantityCovers,
         HeadroomAccounted, AnnouncedOnce, PostedOnce, NoRequest, NoReceipt

(* A request that begins changes nothing but itself; if it is grounded and *)
(* covers what its order accounts for, the books stay as they are.         *)
LEMMA BeginBooks ==
    ASSUME Books, NEW s \in Sessions, NEW r \in Requests, Begin(s, r),
           r.op = "record" => published[r.order] = 1,
           r.op = "verify" => receipt[r.receipt] # NoReceipt,
           r.op = "amend" =>
               /\ status[r.order] # "absent"
               /\ r.new < r.was
               /\ held[r.order] + rejected[r.order] + returned[r.order] <= r.was
    PROVE  Books'
<1> USE DEF Books, Begin, orders, ceiling, goods
<1>1. TypeOK'
  BY DEF TypeOK
<1>2. req'[s] = r /\ \A t \in Sessions : t # s => req'[t] = req[t]
  BY DEF TypeOK
<1>3. RequestsGrounded'
  BY <1>2 DEF BooksBalance, RequestsGrounded
<1>4. StaleQuantityCovers'
  BY <1>2 DEF BooksBalance, StaleQuantityCovers
<1>5. AbsentIsEmpty' /\ HeadroomAccounted' /\ AnnouncedOnce' /\ PostedOnce'
  BY DEF BooksBalance, AbsentIsEmpty, HeadroomAccounted, AnnouncedOnce, PostedOnce
<1> QED BY <1>1, <1>3, <1>4, <1>5 DEF BooksBalance

(* An order is created with the headroom its line asks for.                *)
LEMMA CreateBooks ==
    ASSUME Books, NEW o \in Orders, NEW n \in Qtys, Create(o, n), n \in Nat
    PROVE  Books'
<1> USE DEF Books, Create, goods
<1>1. TypeOK'
  BY DEF TypeOK
<1>2. rejected[o] = 0 /\ returned[o] = 0 /\ held'[o] = n /\ quantity'[o] = n
  BY DEF TypeOK, BooksBalance, AbsentIsEmpty, HeadroomAccounted
<1>3. \A p \in Orders : p # o =>
          held'[p] = held[p] /\ quantity'[p] = quantity[p] /\ status'[p] = status[p]
  BY DEF TypeOK
<1>4. AbsentIsEmpty' /\ HeadroomAccounted'
  BY <1>2, <1>3 DEF TypeOK, BooksBalance, AbsentIsEmpty, HeadroomAccounted
<1>5. RequestsGrounded' /\ StaleQuantityCovers'
  <2>1. \A s \in Sessions : req[s].op = "amend" => req[s].order # o
    BY DEF BooksBalance, RequestsGrounded
  <2>2. \A s \in Sessions : req[s].op = "amend" => req[s].order \in Orders
    BY RequestFields
  <2> QED BY <1>3, <2>1, <2>2 DEF TypeOK, BooksBalance, RequestsGrounded, StaleQuantityCovers
<1>6. AnnouncedOnce' /\ PostedOnce'
  BY DEF TypeOK, BooksBalance, AnnouncedOnce, PostedOnce
<1> QED BY <1>1, <1>4, <1>5, <1>6 DEF BooksBalance

(* The receipt the site expects stands in no book.                         *)
LEMMA ExpectBooks ==
    ASSUME Books, NEW o \in Orders, Expect(o)
    PROVE  Books'
  BY DEF Books, Expect, ceiling, goods, TypeOK, BooksBalance, AbsentIsEmpty, RequestsGrounded,
         StaleQuantityCovers, HeadroomAccounted, AnnouncedOnce, PostedOnce

-----------------------------------------------------------------------------
(* A request that parks its order: a status other than absent and          *)
(* confirmed stands in no book.                                            *)
LEMMA ParkedBooks ==
    ASSUME Books, NEW s \in Sessions, WriteParked(s)
    PROVE  Books'
<1> DEFINE o == req[s].order
<1>1. o \in Orders
  BY RequestFields DEF Books, WriteParked
<1>2. TypeOK'
  BY FinishEffect DEF Books, WriteParked, TypeOK, ceiling, goods
<1>3. \A p \in Orders : status'[p] \in {status[p], "awaiting_approval"}
  BY DEF Books, WriteParked, TypeOK
<1>4. RequestsGrounded' /\ StaleQuantityCovers'
  <2>1. \A t \in Sessions : t # s => req'[t] = req[t]
    BY FinishEffect DEF Books, WriteParked
  <2>2. req'[s].op = "none"
    BY FinishEffect DEF Books, WriteParked
  <2>3. \A t \in Sessions : req[t].op = "amend" => req[t].order \in Orders
    BY RequestFields DEF Books
  <2> QED BY <1>3, <2>1, <2>2, <2>3
          DEF Books, BooksBalance, RequestsGrounded, StaleQuantityCovers, WriteParked, ceiling, goods
<1>5. AbsentIsEmpty' /\ HeadroomAccounted' /\ AnnouncedOnce' /\ PostedOnce'
  BY <1>3 DEF Books, BooksBalance, AbsentIsEmpty, HeadroomAccounted, AnnouncedOnce, PostedOnce,
              WriteParked, ceiling, goods
<1> QED BY <1>2, <1>4, <1>5 DEF Books, BooksBalance

(* A request that confirms its order announces it for the first time.      *)
LEMMA ConfirmedBooks ==
    ASSUME Books, NEW s \in Sessions, WriteConfirmed(s)
    PROVE  Books'
<1> DEFINE o == req[s].order
<1>1. o \in Orders /\ published[o] = 0
  BY RequestFields DEF Books, WriteConfirmed
<1>2. TypeOK'
  BY <1>1, FinishEffect DEF Books, WriteConfirmed, TypeOK, ceiling, goods
<1>3. /\ published'[o] = 1 /\ status'[o] = "confirmed"
      /\ \A p \in Orders : p # o => published'[p] = published[p] /\ status'[p] = status[p]
  BY <1>1 DEF Books, WriteConfirmed, TypeOK
<1>4. RequestsGrounded' /\ StaleQuantityCovers'
  <2>1. \A t \in Sessions : t # s => req'[t] = req[t]
    BY FinishEffect DEF Books, WriteConfirmed
  <2>2. req'[s].op = "none"
    BY FinishEffect DEF Books, WriteConfirmed
  <2>3. \A t \in Sessions : req[t].op \in {"amend", "record"} => req[t].order \in Orders
    BY RequestFields DEF Books
  <2> QED BY <1>1, <1>3, <2>1, <2>2, <2>3
          DEF Books, BooksBalance, RequestsGrounded, StaleQuantityCovers, WriteConfirmed, ceiling, goods
<1>5. AbsentIsEmpty' /\ HeadroomAccounted' /\ PostedOnce'
  BY <1>3 DEF Books, BooksBalance, AbsentIsEmpty, HeadroomAccounted, PostedOnce,
              WriteConfirmed, ceiling, goods
<1>6. AnnouncedOnce'
  BY <1>3 DEF Books, BooksBalance, AnnouncedOnce, WriteConfirmed, goods
<1> QED BY <1>2, <1>4, <1>5, <1>6 DEF Books, BooksBalance

(* A request that records a receipt does so on an announced order.         *)
LEMMA RecordedBooks ==
    ASSUME Books, NEW s \in Sessions, WriteRecorded(s)
    PROVE  Books'
<1> DEFINE o == req[s].order
           row == [order |-> o, qty |-> req[s].qty, verified |-> FALSE]
<1>1. o \in Orders /\ req[s].qty \in Nat /\ published[o] = 1
  BY RequestFields DEF Books, WriteRecorded, BooksBalance, RequestsGrounded
<1>2. row \in ReceiptRows /\ row # NoReceipt /\ row.order = o
  BY <1>1 DEF ReceiptRows, NoReceipt
<1>3. PICK g \in Receipts : receipt[g] = NoReceipt /\ receipt' = [receipt EXCEPT ![g] = row]
  BY Zenon DEF WriteRecorded
<1> HIDE DEF row
<1>4. receipt'[g] = row /\ \A h \in Receipts : h # g => receipt'[h] = receipt[h]
  BY <1>3 DEF Books, TypeOK
<1>5. TypeOK'
  BY <1>2, <1>3, FinishEffect DEF Books, WriteRecorded, TypeOK, ceiling, orders
<1>6. RequestsGrounded' /\ StaleQuantityCovers'
  <2>1. \A t \in Sessions : t # s => req'[t] = req[t]
    BY FinishEffect DEF Books, WriteRecorded
  <2>2. req'[s].op = "none"
    BY FinishEffect DEF Books, WriteRecorded
  <2>3. \A t \in Sessions : req[t].op = "verify" => req[t].receipt \in Receipts
    BY RequestFields DEF Books
  <2> QED BY <1>2, <1>4, <2>1, <2>2, <2>3
          DEF Books, BooksBalance, RequestsGrounded, StaleQuantityCovers, WriteRecorded, ceiling, orders
<1>7. AbsentIsEmpty' /\ HeadroomAccounted'
  BY DEF Books, BooksBalance, AbsentIsEmpty, HeadroomAccounted, WriteRecorded, ceiling, orders
<1>8. AnnouncedOnce'
  BY <1>1, <1>2, <1>4 DEF Books, BooksBalance, AnnouncedOnce, WriteRecorded, orders
<1>9. PostedOnce'
  BY <1>3, <1>4 DEF Books, BooksBalance, PostedOnce, TypeOK, WriteRecorded
<1> QED BY <1>5, <1>6, <1>7, <1>8, <1>9 DEF Books, BooksBalance

(* What the release in the middle of a write does to the books of the      *)
(* other requests: nothing, as an order's total never grows by it.         *)
LEMMA ReleaseCovers ==
    ASSUME Books, NEW s \in Sessions, NEW o \in Orders, NEW n \in Nat,
           ReleaseHeadroom(o, n), Finish(s),
           rejected' \in [Orders -> Nat], returned' \in [Orders -> Nat],
           rejected'[o] + returned'[o] <= rejected[o] + returned[o] + n,
           \A p \in Orders : p # o => rejected'[p] = rejected[p] /\ returned'[p] = returned[p]
    PROVE  /\ StaleQuantityCovers'
           /\ \A p \in Orders : held'[p] + rejected'[p] + returned'[p]
                                  <= held[p] + rejected[p] + returned[p]
<1>1. \A p \in Orders : held'[p] + rejected'[p] + returned'[p]
                          <= held[p] + rejected[p] + returned[p]
  <2>1. held'[o] = held[o] - n /\ \A p \in Orders : p # o => held'[p] = held[p]
    BY ReleaseEffect DEF Books
  <2>2. \A p \in Orders : held[p] \in Nat /\ rejected[p] \in Nat /\ returned[p] \in Nat
                          /\ rejected'[p] \in Nat /\ returned'[p] \in Nat
    BY DEF Books, TypeOK
  <2> QED BY <2>1, <2>2
<1>2. StaleQuantityCovers'
  <2> SUFFICES ASSUME NEW t \in Sessions, req'[t].op = "amend"
               PROVE  /\ req'[t].new < req'[t].was
                      /\ held'[req'[t].order] + rejected'[req'[t].order]
                             + returned'[req'[t].order] <= req'[t].was
    BY DEF StaleQuantityCovers
  <2>1. t # s /\ req'[t] = req[t]
    BY FinishEffect DEF Books
  <2>2. req[t].order \in Orders /\ req[t].was \in Nat
    BY <2>1, RequestFields DEF Books
  <2>3. held'[req[t].order] \in Nat
    BY <2>2, ReleaseEffect DEF Books
  <2> DEFINE p == req[t].order
  <2>4. /\ held[p] \in Nat /\ rejected[p] \in Nat /\ returned[p] \in Nat
        /\ rejected'[p] \in Nat /\ returned'[p] \in Nat
    BY <2>2 DEF Books, TypeOK
  <2>5. held[p] + rejected[p] + returned[p] <= req[t].was /\ req[t].new < req[t].was
    BY <2>1 DEF Books, BooksBalance, StaleQuantityCovers
  <2> QED BY <1>1, <2>1, <2>2, <2>3, <2>4, <2>5
<1> QED BY <1>1, <1>2

(* An amendment written from a stale line still leaves a quantity that     *)
(* covers what the order accounts for.                                     *)
LEMMA AmendedBooks ==
    ASSUME Books, NEW s \in Sessions, WriteAmended(s)
    PROVE  Books'
<1> DEFINE o == req[s].order
           n == req[s].was - req[s].new
<1>1. /\ o \in Orders /\ req[s].was \in Nat /\ req[s].new \in Nat
      /\ req[s].new < req[s].was /\ status[o] # "absent"
      /\ held[o] + rejected[o] + returned[o] <= req[s].was
  BY RequestFields
     DEF Books, WriteAmended, BooksBalance, RequestsGrounded, StaleQuantityCovers
<1>2. n \in Nat /\ ReleaseHeadroom(o, n) /\ Finish(s)
  BY <1>1 DEF WriteAmended
<1>3. UNCHANGED <<rejected, returned, status, published, accepted, receipt, posted, expected>>
  BY DEF WriteAmended, goods
<1>4. TypeOK'
  BY <1>1, <1>2, <1>3, ReleaseEffect, FinishEffect DEF Books, TypeOK, WriteAmended
<1>5. StaleQuantityCovers'
  <2>1. /\ rejected' \in [Orders -> Nat] /\ returned' \in [Orders -> Nat]
        /\ \A p \in Orders : rejected'[p] = rejected[p] /\ returned'[p] = returned[p]
    BY <1>3 DEF Books, TypeOK
  <2>2. rejected'[o] + returned'[o] <= rejected[o] + returned[o] + n
    BY <1>1, <1>2, <2>1 DEF Books, TypeOK
  <2> HIDE DEF o, n
  <2> QED BY <1>1, <1>2, <2>1, <2>2, ReleaseCovers
<1>6. HeadroomAccounted'
  <2>1. \A p \in Orders : p # o => held'[p] = held[p] /\ quantity'[p] = quantity[p]
    BY <1>1, <1>2, ReleaseEffect DEF Books, TypeOK, WriteAmended
  <2>2. held'[o] = held[o] - n /\ quantity'[o] = req[s].new
    BY <1>1, <1>2, ReleaseEffect DEF Books, TypeOK, WriteAmended
  <2>3. held[o] \in Nat /\ rejected[o] \in Nat /\ returned[o] \in Nat
    BY <1>1 DEF Books, TypeOK
  <2>4. held'[o] + rejected[o] + returned[o] <= quantity'[o]
    BY <1>1, <2>2, <2>3
  <2> QED BY <1>3, <2>1, <2>4 DEF Books, BooksBalance, HeadroomAccounted
<1>7. AbsentIsEmpty'
  BY <1>1, <1>3 DEF Books, TypeOK, BooksBalance, AbsentIsEmpty, WriteAmended
<1>8. RequestsGrounded'
  BY <1>2, <1>3, FinishEffect DEF Books, BooksBalance, RequestsGrounded
<1>9. AnnouncedOnce' /\ PostedOnce'
  BY <1>3 DEF Books, BooksBalance, AnnouncedOnce, PostedOnce
<1> QED BY <1>4, <1>5, <1>6, <1>7, <1>8, <1>9 DEF Books, BooksBalance

(* A verification posts a receipt that was not posted before.              *)
LEMMA VerifiedBooks ==
    ASSUME Books, NEW s \in Sessions, WriteVerified(s)
    PROVE  Books'
<1> DEFINE g == req[s].receipt
           o == receipt[g].order
           n == req[s].reject
<1>1. g \in Receipts /\ req[s].accept \in Nat /\ n \in Nat /\ receipt[g] # NoReceipt
  BY RequestFields DEF Books, WriteVerified, BooksBalance, RequestsGrounded
<1>2. receipt[g] \in ReceiptRows /\ o \in Orders
  BY <1>1, ReceiptFields DEF Books
<1>3. /\ ReleaseHeadroom(o, n) /\ Finish(s) /\ ~receipt[g].verified
      /\ receipt' = [receipt EXCEPT ![g].verified = TRUE]
      /\ accepted' = [accepted EXCEPT ![o] = @ + req[s].accept]
      /\ rejected' = [rejected EXCEPT ![o] = @ + n]
      /\ posted' = [posted EXCEPT ![g] = @ + (IF req[s].accept > 0 THEN 1 ELSE 0)]
      /\ UNCHANGED <<status, published, expected, quantity, returned>>
  BY DEF WriteVerified, orders, Unverified
<1> DEFINE row == [receipt[g] EXCEPT !.verified = TRUE]
<1>4. row \in ReceiptRows /\ row # NoReceipt /\ row.order = o /\ row.verified
  BY <1>2 DEF ReceiptRows, NoReceipt
<1>5. receipt'[g] = row /\ \A h \in Receipts : h # g => receipt'[h] = receipt[h]
  BY <1>1, <1>3 DEF Books, TypeOK
<1>6. receipt' \in [Receipts -> ReceiptRows \cup {NoReceipt}]
  <2>1. receipt' = [receipt EXCEPT ![g] = row]
    BY <1>3
  <2> HIDE DEF row
  <2> QED BY <1>1, <1>4, <2>1 DEF Books, TypeOK
<1> HIDE DEF row
<1>7. /\ accepted' \in [Orders -> Nat] /\ rejected' \in [Orders -> Nat]
      /\ posted' \in [Receipts -> Nat]
  BY <1>1, <1>2, <1>3 DEF Books, TypeOK
<1>8. TypeOK'
  BY <1>1, <1>2, <1>3, <1>6, <1>7, ReleaseEffect, FinishEffect DEF Books, TypeOK
<1>9. /\ rejected'[o] = rejected[o] + n
      /\ \A p \in Orders : p # o => rejected'[p] = rejected[p]
  BY <1>2, <1>3 DEF Books, TypeOK
<1>10. /\ StaleQuantityCovers'
       /\ \A p \in Orders : held'[p] + rejected'[p] + returned'[p]
                              <= held[p] + rejected[p] + returned[p]
  <2>1. returned' \in [Orders -> Nat] /\ \A p \in Orders : returned'[p] = returned[p]
    BY <1>3 DEF Books, TypeOK
  <2>2. rejected'[o] + returned'[o] <= rejected[o] + returned[o] + n
    BY <1>1, <1>2, <1>9, <2>1 DEF Books, TypeOK
  <2> HIDE DEF o, n
  <2> QED BY <1>1, <1>2, <1>3, <1>7, <1>9, <2>1, <2>2, ReleaseCovers
<1>11. HeadroomAccounted'
  <2>1. \A p \in Orders : /\ held'[p] \in Nat /\ rejected'[p] \in Nat /\ returned'[p] \in Nat
                          /\ held[p] \in Nat /\ rejected[p] \in Nat /\ returned[p] \in Nat
                          /\ quantity[p] \in Nat /\ quantity'[p] = quantity[p]
    BY <1>3, <1>8 DEF Books, TypeOK
  <2> QED BY <1>10, <2>1 DEF Books, BooksBalance, HeadroomAccounted
<1>12. AbsentIsEmpty'
  BY <1>3 DEF Books, BooksBalance, AbsentIsEmpty
<1>13. RequestsGrounded'
  <2>1. \A t \in Sessions : req[t].op = "verify" => req[t].receipt \in Receipts
    BY RequestFields DEF Books
  <2>2. \A h \in Receipts : receipt[h] # NoReceipt => receipt'[h] # NoReceipt
    BY <1>4, <1>5
  <2>3. UNCHANGED <<status, published>>
    BY <1>3
  <2>4. \A t \in Sessions : t # s => req'[t] = req[t]
    BY <1>3, FinishEffect DEF Books
  <2>5. req'[s].op = "none"
    BY <1>3, FinishEffect DEF Books
  <2> HIDE DEF g, o, n
  <2> QED BY <2>1, <2>2, <2>3, <2>4, <2>5 DEF Books, BooksBalance, RequestsGrounded
<1>14. AnnouncedOnce'
  BY <1>1, <1>3, <1>4, <1>5 DEF Books, BooksBalance, AnnouncedOnce
<1>15. PostedOnce'
  <2>1. posted[g] = 0
    BY <1>1, <1>3 DEF Books, TypeOK, BooksBalance, PostedOnce
  <2>2. posted'[g] \in {0, 1} /\ \A h \in Receipts : h # g => posted'[h] = posted[h]
    BY <1>1, <1>3, <2>1 DEF Books, TypeOK
  <2> QED BY <1>4, <1>5, <2>2 DEF Books, BooksBalance, PostedOnce
<1> QED BY <1>8, <1>10, <1>11, <1>12, <1>13, <1>14, <1>15 DEF Books, BooksBalance

(* A return moves what it releases from the holding to the returns.        *)
LEMMA ReturnedBooks ==
    ASSUME Books, NEW s \in Sessions, WriteReturned(s)
    PROVE  Books'
<1> DEFINE o == req[s].order
           n == req[s].qty
<1>1. o \in Orders /\ n \in Nat
  BY RequestFields DEF Books, WriteReturned
<1>2. /\ ReleaseHeadroom(o, n) /\ Finish(s)
      /\ returned' = [returned EXCEPT ![o] = @ + n]
      /\ UNCHANGED <<status, published, expected, quantity, accepted, rejected, receipt, posted>>
  BY DEF WriteReturned, orders
<1>3. returned' \in [Orders -> Nat] /\ returned'[o] = returned[o] + n
  BY <1>1, <1>2 DEF Books, TypeOK
<1>4. TypeOK'
  BY <1>1, <1>2, <1>3, ReleaseEffect, FinishEffect DEF Books, TypeOK
<1>5. /\ StaleQuantityCovers'
      /\ \A p \in Orders : held'[p] + rejected'[p] + returned'[p]
                             <= held[p] + rejected[p] + returned[p]
  <2>1. rejected' \in [Orders -> Nat] /\ \A p \in Orders : rejected'[p] = rejected[p]
    BY <1>2 DEF Books, TypeOK
  <2>2. rejected'[o] + returned'[o] <= rejected[o] + returned[o] + n
    BY <1>1, <1>3, <2>1 DEF Books, TypeOK
  <2>3. \A p \in Orders : p # o => returned'[p] = returned[p]
    BY <1>2 DEF Books, TypeOK
  <2> HIDE DEF o, n
  <2> QED BY <1>1, <1>2, <1>3, <2>1, <2>2, <2>3, ReleaseCovers
<1>6. HeadroomAccounted'
  <2>1. \A p \in Orders : /\ held'[p] \in Nat /\ rejected'[p] \in Nat /\ returned'[p] \in Nat
                          /\ held[p] \in Nat /\ rejected[p] \in Nat /\ returned[p] \in Nat
                          /\ quantity[p] \in Nat /\ quantity'[p] = quantity[p]
    BY <1>2, <1>4 DEF Books, TypeOK
  <2> QED BY <1>5, <2>1 DEF Books, BooksBalance, HeadroomAccounted
<1>7. AbsentIsEmpty' /\ AnnouncedOnce' /\ PostedOnce'
  BY <1>2 DEF Books, BooksBalance, AbsentIsEmpty, AnnouncedOnce, PostedOnce
<1>8. RequestsGrounded'
  BY <1>2, FinishEffect DEF Books, BooksBalance, RequestsGrounded
<1> QED BY <1>4, <1>5, <1>6, <1>7, <1>8 DEF Books, BooksBalance

-----------------------------------------------------------------------------
(* The checks of the services ground the requests that begin.              *)
LEMMA ChecksGround ==
    ASSUME Books, NEW s \in Sessions, NEW o \in Orders,
           \/ \E op \in {"park", "confirm"} : Submit(s, o, op)
           \/ Approve(s, o)
           \/ \E n \in Quantities : Amend(s, o, n)
           \/ \E n \in Quantities \ {0} : Record(s, o, n) \/ Return(s, o, n)
    PROVE  Books'
<1>1. ASSUME NEW op \in {"park", "confirm"}, Begin(s, [op |-> op, order |-> o]) PROVE Books'
  <2>1. [op |-> op, order |-> o] \in Requests
    BY DEF Requests
  <2> QED BY <1>1, <2>1, BeginBooks
<1>2. ASSUME NEW n \in Quantities, Amend(s, o, n) PROVE Books'
  <2> DEFINE r == [op |-> "amend", order |-> o, was |-> quantity[o], new |-> n]
  <2>1. r \in Requests
    BY QuantitiesAreNat DEF Requests, Books, TypeOK
  <2>2. held[o] + rejected[o] + returned[o] <= quantity[o]
    BY DEF Books, BooksBalance, HeadroomAccounted
  <2> QED BY <1>2, <2>1, <2>2, BeginBooks DEF Amend
<1>3. ASSUME NEW n \in Quantities, Record(s, o, n) PROVE Books'
  <2>1. [op |-> "record", order |-> o, qty |-> n] \in Requests
    BY QuantitiesAreNat DEF Requests
  <2>2. published[o] = 1
    BY <1>3 DEF Record, Books, BooksBalance, AnnouncedOnce
  <2> QED BY <1>3, <2>1, <2>2, BeginBooks DEF Record
<1>4. ASSUME NEW n \in Quantities, Return(s, o, n) PROVE Books'
  <2>1. [op |-> "return", order |-> o, qty |-> n] \in Requests
    BY QuantitiesAreNat DEF Requests
  <2> QED BY <1>4, <2>1, BeginBooks DEF Return
<1> QED BY <1>1, <1>2, <1>3, <1>4 DEF Submit, Approve

(* Every step keeps the books.                                             *)
LEMMA StepBooks == Books /\ [Next]_vars => Books'
<1> SUFFICES ASSUME Books, [Next]_vars PROVE Books'
  OBVIOUS
<1>1. ASSUME NEW o \in Orders, NEW n \in Qtys, Create(o, n) PROVE Books'
  BY <1>1, CreateBooks, QuantitiesAreNat
<1>2. ASSUME NEW o \in Orders, Expect(o) PROVE Books'
  BY <1>2, ExpectBooks
<1>3. ASSUME NEW s \in Sessions, NEW g \in Receipts, NEW a \in Quantities,
             NEW r \in Quantities, Verify(s, g, a, r)
      PROVE Books'
  <2>1. [op |-> "verify", receipt |-> g, accept |-> a, reject |-> r] \in Requests
    BY QuantitiesAreNat DEF Requests
  <2> QED BY <1>3, <2>1, BeginBooks DEF Verify
<1>4. ASSUME NEW s \in Sessions, Rollback(s) PROVE Books'
  <2>1. UNCHANGED <<orders, ceiling, goods>> /\ Finish(s)
    BY <1>4 DEF Rollback
  <2>2. TypeOK'
    BY <2>1, FinishEffect DEF Books, TypeOK, orders, ceiling, goods
  <2>3. RequestsGrounded' /\ StaleQuantityCovers'
    <3>1. \A t \in Sessions : t # s => req'[t] = req[t]
      BY <2>1, FinishEffect DEF Books
    <3>2. req'[s].op = "none"
      BY <2>1, FinishEffect DEF Books
    <3> QED BY <2>1, <3>1, <3>2
            DEF Books, BooksBalance, RequestsGrounded, StaleQuantityCovers, orders, ceiling, goods
  <2>4. AbsentIsEmpty' /\ HeadroomAccounted' /\ AnnouncedOnce' /\ PostedOnce'
    BY <2>1 DEF Books, BooksBalance, AbsentIsEmpty, HeadroomAccounted, AnnouncedOnce,
                PostedOnce, orders, ceiling, goods
  <2> QED BY <2>2, <2>3, <2>4 DEF Books, BooksBalance
<1>5. CASE UNCHANGED vars
  BY <1>5 DEF vars, orders, ceiling, goods, Books, TypeOK, BooksBalance, AbsentIsEmpty,
              RequestsGrounded, StaleQuantityCovers, HeadroomAccounted, AnnouncedOnce, PostedOnce
<1>6. CASE Next
  <2>1. ASSUME NEW s \in Sessions,
               \/ WriteParked(s) \/ WriteConfirmed(s) \/ WriteAmended(s)
               \/ WriteRecorded(s) \/ WriteVerified(s) \/ WriteReturned(s)
        PROVE Books'
    BY <2>1, ParkedBooks, ConfirmedBooks, AmendedBooks, RecordedBooks, VerifiedBooks, ReturnedBooks
  <2> QED BY <1>1, <1>2, <1>3, <1>4, <1>6, <2>1, ChecksGround, Zenon DEF Next
<1> QED BY <1>5, <1>6

(* The invariant of the specification.                                     *)
LEMMA BooksHold == Spec => []Books
  BY InitBooks, StepBooks, PTL DEF Spec

(* Every variable keeps its type; no order holds less than nothing.        *)
THEOREM TypeCorrect == Spec => []TypeOK
  BY BooksHold, PTL DEF Books

(* The inductive invariant, which the run checks as well.                  *)
THEOREM BooksBalanceHolds == Spec => []BooksBalance
  BY BooksHold, PTL DEF Books

(* However amendments, verifications and returns race, what an order holds,*)
(* what was rejected and what went back stay within its quantity.          *)
THEOREM HeadroomIsAccounted == Spec => []HeadroomAccounted
  BY BooksBalanceHolds, PTL DEF BooksBalance

(* An order is announced once, and receives nothing before.                *)
THEOREM OrdersAnnouncedOnce == Spec => []AnnouncedOnce
  BY BooksBalanceHolds, PTL DEF BooksBalance

(* A receipt is posted to stock and cost once.                             *)
THEOREM ReceiptsPostedOnce == Spec => []PostedOnce
  BY BooksBalanceHolds, PTL DEF BooksBalance

-----------------------------------------------------------------------------
(* Refinement: a step that touches the ledger leaves every holding         *)
(* natural, and the total no higher than it was or than what the line      *)
(* permits.                                                                *)
LEMMA LedgerStep ==
    ASSUME Books, [Next]_vars
    PROVE  \/ UNCHANGED ceiling
           \/ /\ held' \in [Orders -> Nat]
              /\ committed' \in Int
              /\ committed' <= committed \/ committed' <= Ceiling
<1> USE DEF Books
<1> DEFINE Goal == \/ UNCHANGED ceiling
                   \/ /\ held' \in [Orders -> Nat]
                      /\ committed' \in Int
                      /\ committed' <= committed \/ committed' <= Ceiling
<1>1. ASSUME NEW o \in Orders, NEW n \in Qtys, Create(o, n) PROVE Goal
  BY <1>1, QuantitiesAreNat DEF Create, TypeOK
<1>2. ASSUME NEW s \in Sessions, WriteAmended(s) PROVE Goal
  <2>1. /\ req[s].order \in Orders /\ req[s].was \in Nat /\ req[s].new \in Nat
        /\ req[s].new < req[s].was
    BY <1>2, RequestFields DEF WriteAmended, BooksBalance, StaleQuantityCovers
  <2>2. req[s].was - req[s].new \in Nat
    BY <2>1
  <2>3. ReleaseHeadroom(req[s].order, req[s].was - req[s].new)
    BY <1>2 DEF WriteAmended
  <2> QED BY <2>1, <2>2, <2>3, ReleaseEffect
<1>3. ASSUME NEW s \in Sessions, WriteVerified(s) PROVE Goal
  <2>1. req[s].receipt \in Receipts /\ receipt[req[s].receipt] # NoReceipt
    BY <1>3, RequestFields DEF WriteVerified, BooksBalance, RequestsGrounded
  <2>2. receipt[req[s].receipt].order \in Orders
    BY <2>1, ReceiptFields
  <2>3. req[s].reject \in Nat /\ ReleaseHeadroom(receipt[req[s].receipt].order, req[s].reject)
    BY <1>3, RequestFields DEF WriteVerified
  <2> QED BY <2>2, <2>3, ReleaseEffect
<1>4. ASSUME NEW s \in Sessions, WriteReturned(s) PROVE Goal
  <2>1. /\ req[s].order \in Orders /\ req[s].qty \in Nat
        /\ ReleaseHeadroom(req[s].order, req[s].qty)
    BY <1>4, RequestFields DEF WriteReturned
  <2> QED BY <2>1, ReleaseEffect
<1>5. ASSUME NEW s \in Sessions, \/ WriteParked(s) \/ WriteConfirmed(s) \/ WriteRecorded(s)
                                  \/ Rollback(s)
      PROVE Goal
  BY <1>5 DEF WriteParked, WriteConfirmed, WriteRecorded, Rollback
<1>6. ASSUME NEW o \in Orders, Expect(o) PROVE Goal
  BY <1>6 DEF Expect
<1>7. ASSUME NEW s \in Sessions, NEW r, Begin(s, r) PROVE Goal
  BY <1>7 DEF Begin
<1>8. ASSUME NEW s \in Sessions, NEW o \in Orders,
             \/ \E op \in {"park", "confirm"} : Submit(s, o, op)
             \/ Approve(s, o)
             \/ \E n \in Quantities : Amend(s, o, n)
             \/ \E n \in Quantities \ {0} : Record(s, o, n) \/ Return(s, o, n)
      PROVE Goal
  BY <1>7, <1>8, Zenon DEF Submit, Approve, Amend, Record, Return
<1>9. ASSUME NEW s \in Sessions, NEW g \in Receipts, NEW a \in Quantities,
             NEW r \in Quantities, Verify(s, g, a, r)
      PROVE Goal
  BY <1>7, <1>9, Zenon DEF Verify
<1>10. CASE UNCHANGED vars
  BY <1>10 DEF vars
<1>11. ASSUME Next PROVE Goal
  <2> HIDE DEF Goal
  <2>1. ASSUME NEW s \in Sessions,
               \/ WriteParked(s) \/ WriteConfirmed(s) \/ WriteAmended(s)
               \/ WriteRecorded(s) \/ WriteVerified(s) \/ WriteReturned(s)
               \/ Rollback(s)
        PROVE Goal
    BY <1>2, <1>3, <1>4, <1>5, <2>1
  <2> QED BY <1>1, <1>6, <1>8, <1>9, <1>11, <2>1, Zenon DEF Next
<1> QED BY <1>10, <1>11

(* Orders, receipts and returns stay within the contract of the ceiling.   *)
THEOREM OrdersKeepContract == Spec => KeepsContract
<1>1. Init => Contract!Init
  BY DEF Init, Contract!Init
<1>2. Books /\ [Next]_vars => [Contract!Authorize]_(Contract!vars)
  <2> SUFFICES ASSUME Books, [Next]_vars
               PROVE  Contract!Authorize \/ UNCHANGED Contract!vars
    OBVIOUS
  <2>1. CASE UNCHANGED ceiling
    BY <2>1 DEF ceiling, Contract!vars
  <2>2. ASSUME held' \in [Orders -> Nat], committed' \in Int,
               committed' <= committed \/ committed' <= Ceiling
        PROVE  Contract!Authorize
    <3>1. committed \in Int /\ Ceiling \in Nat
      BY OrdersAssumption DEF Books, TypeOK
    <3>2. committed' <= Contract!Larger(committed, Ceiling) + (0 - 0)
      BY <2>2, <3>1 DEF Contract!Larger
    <3> QED BY <2>2, <3>1, <3>2 DEF Contract!Authorize
  <2> QED BY <2>1, <2>2, LedgerStep
<1> QED BY <1>1, <1>2, BooksHold, PTL DEF Spec, KeepsContract, Contract!Spec
=============================================================================
