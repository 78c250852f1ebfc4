-------------------------- MODULE BoqRevisionProofs --------------------------
(***************************************************************************)
(* Proofs about BoqRevision: for any number of sessions, revisions and     *)
(* lines, a revision is released once, no more revisions are in the works  *)
(* than openings overlapped, and each supersedes one that was released.    *)
(***************************************************************************)
EXTENDS BoqRevision, FiniteSetTheorems, TLAPS

\* What TypeOK says of the sessions.
SessionsTyped ==
    /\ pc \in [Sessions -> Phases]
    /\ req \in [Sessions -> Requests \cup {NoRequest}]
    /\ \A s \in Sessions : pc[s] # "idle" => req[s] \in Requests
    /\ completes \in [Sessions -> BOOLEAN]
    /\ overlap \in Nat

(* A session that finishes leaves the sessions well typed.                 *)
LEMMA FinishTyped ==
    ASSUME TypeOK, NEW s \in Sessions, Finish(s)
    PROVE  SessionsTyped'
  BY DEF TypeOK, Finish, SessionsTyped, Phases

(* Every variable keeps its type.                                          *)
THEOREM TypeCorrect == Spec => []TypeOK
<1> USE RevisionAssumption DEF Revs, NoRev, Statuses, Phases, PerSection, NoRequest
<1>1. Init => TypeOK
  <2> SUFFICES ASSUME Init PROVE TypeOK
    OBVIOUS
  <2>1. lines \in PerSection(0..MaxLines)
    <3>1. Empty(0) \in PerSection(0..MaxLines)
      BY DEF Empty
    <3>2. \A d \in Disciplines, n \in 1..MaxLines :
              [Empty(0) EXCEPT ![0][d] = n] \in PerSection(0..MaxLines)
      BY <3>1
    <3>3. lines = Empty(0) \/ \E d \in Disciplines, n \in 1..MaxLines :
              lines = [Empty(0) EXCEPT ![0][d] = n]
      BY Zenon DEF Init
    <3> HIDE DEF PerSection
    <3> QED BY <3>1, <3>2, <3>3, Zenon
  <2>2. signed \in PerSection(BOOLEAN) /\ notApplicable \in PerSection(BOOLEAN)
    <3>1. CASE signed = Empty(FALSE) /\ notApplicable = Empty(FALSE)
      BY <3>1 DEF Empty
    <3>2. ASSUME NEW d \in Disciplines, NEW onPaper \in BOOLEAN,
                 notApplicable = [r \in Revs |-> [c \in Disciplines |-> r = 0 /\ c # d]],
                 signed = [r \in Revs |-> [c \in Disciplines |-> r = 0 /\ (c # d \/ onPaper)]]
          PROVE  signed \in PerSection(BOOLEAN) /\ notApplicable \in PerSection(BOOLEAN)
      BY <3>2, Zenon
    <3> QED BY <3>1, <3>2, Zenon DEF Init
  <2>3. status \in [Revs -> Statuses]
    BY DEF Init
  <2>4. overlap \in Nat
    <3>1. overlap = 0 \/ overlap = 1
      BY Zenon DEF Init
    <3> QED BY <3>1
  <2> QED BY <2>1, <2>2, <2>3, <2>4 DEF Init, TypeOK
<1>2. TypeOK /\ [Next]_vars => TypeOK'
  <2> SUFFICES ASSUME TypeOK, [Next]_vars PROVE TypeOK'
    OBVIOUS
  <2> USE DEF TypeOK
  <2>1. ASSUME NEW s \in Sessions, NEW r \in Requests, Begin(s, r) PROVE TypeOK'
    BY <2>1 DEF Begin, db, sections
  <2>2. ASSUME NEW s \in Sessions, OpenRevision(s) \/ ReadLatest(s) \/ ReadReleased(s)
        PROVE TypeOK'
    <3>1. CASE OpenRevision(s)
      <4>1. [op |-> "open_revision", rev |-> NoRev, from |-> NoRev] \in Requests
        BY DEF Requests
      <4>2. overlap' \in Nat
        <5>1. IsFiniteSet(Opening)
          BY FS_Subset DEF Opening
        <5> QED BY <3>1, <5>1, FS_CardinalityType DEF OpenRevision, StartOpening
      <4> QED BY <3>1, <4>1, <4>2 DEF OpenRevision, StartOpening, db, sections
    <3>2. CASE ReadLatest(s)
      <4>1. PICK n \in Revs : req' = [req EXCEPT ![s].rev = n]
        BY <3>2 DEF ReadLatest
      <4>2. req[s] \in Requests /\ req[s].op = "open_revision"
        BY <3>2 DEF ReadLatest
      <4>3. [req[s] EXCEPT !.rev = n] \in Requests
        BY <4>2 DEF Requests
      <4> QED BY <3>2, <4>1, <4>3 DEF ReadLatest, db, sections
    <3>3. CASE ReadReleased(s)
      <4>1. PICK f \in Revs \cup {NoRev} : req' = [req EXCEPT ![s].from = f]
        BY <3>3 DEF ReadReleased
      <4>2. req[s] \in Requests /\ req[s].op = "open_revision"
        BY <3>3 DEF ReadReleased
      <4>3. [req[s] EXCEPT !.from = f] \in Requests
        BY <4>2 DEF Requests
      <4> QED BY <3>3, <4>1, <4>3 DEF ReadReleased, db, sections
    <3> QED BY <2>2, <3>1, <3>2, <3>3
  <2>3. ASSUME NEW s \in Sessions, NEW r \in Revs, SendBack(s, r) \/ Release(s, r)
        PROVE TypeOK'
    <3>1. [op |-> "send_back", rev |-> r] \in Requests /\ [op |-> "release", rev |-> r] \in Requests
      BY DEF Requests
    <3> QED BY <2>1, <2>3, <3>1 DEF SendBack, Release
  <2>4. ASSUME NEW s \in Sessions, NEW r \in Revs, NEW d \in Disciplines,
               SignOff(s, r, d) \/ MarkNotApplicable(s, r, d) \/ AddLine(s, r, d)
        PROVE TypeOK'
    <3>1. \A o \in {"sign_off", "not_applicable", "add_line"} :
              [op |-> o, rev |-> r, section |-> d] \in Requests
      BY DEF Requests
    <3> QED BY <2>1, <2>4, <3>1 DEF SignOff, MarkNotApplicable, AddLine
  <2>5. ASSUME NEW s \in Sessions, ReadSections(s) \/ ReadLock(s) PROVE TypeOK'
    BY <2>5 DEF ReadSections, ReadLock, db, sections, is_complete
  <2>6. ASSUME NEW s \in Sessions, CreateRevision(s) PROVE TypeOK'
    <3>1. req[s] \in Requests /\ req[s].op = "open_revision"
      BY <2>6 DEF CreateRevision
    <3>2. req[s].rev \in Revs \cup {NoRev} /\ req[s].from \in Revs \cup {NoRev}
      BY <3>1 DEF Requests
    <3> QED BY <2>6, <3>2 DEF CreateRevision, Finish
  <2>7. ASSUME NEW s \in Sessions, WriteSection(s) PROVE TypeOK'
    <3>1. req[s] \in Requests /\ req[s].op \in {"sign_off", "not_applicable"}
      BY <2>7 DEF WriteSection
    <3>2. req[s].rev \in Revs /\ req[s].section \in Disciplines
      BY <3>1 DEF Requests
    <3>3. signed' \in PerSection(BOOLEAN)
      BY <2>7, <3>2 DEF WriteSection
    <3>4. notApplicable' \in PerSection(BOOLEAN)
      <4> DEFINE r == req[s].rev
                 d == req[s].section
                 b == notApplicable[r][d] \/ req[s].op = "not_applicable"
      <4>1. notApplicable' = [notApplicable EXCEPT ![r][d] = b]
        BY <2>7 DEF WriteSection
      <4>2. b \in BOOLEAN /\ r \in Revs /\ d \in Disciplines
        BY <3>2
      <4> HIDE DEF r, d, b
      <4> QED BY <4>1, <4>2
    <3>5. status' \in [Revs -> Statuses]
      BY <2>7, <3>2 DEF WriteSection
    <3>6. UNCHANGED <<locked, supersedes, lines, released>> /\ Finish(s)
      BY <2>7 DEF WriteSection
    <3>7. SessionsTyped'
      BY <3>6, FinishTyped
    <3> HIDE DEF PerSection, Statuses, NoRequest, Revs
    <3> QED BY <3>3, <3>4, <3>5, <3>6, <3>7 DEF SessionsTyped
  <2>8. ASSUME NEW s \in Sessions, WriteSentBack(s) \/ WriteReleased(s) PROVE TypeOK'
    <3>1. req[s] \in Requests /\ req[s].op \in {"send_back", "release"}
      BY <2>8 DEF WriteSentBack, WriteReleased
    <3>2. req[s].rev \in Revs
      BY <3>1 DEF Requests
    <3>3. SessionsTyped'
      BY <2>8, FinishTyped DEF WriteSentBack, WriteReleased
    <3>4. CASE WriteSentBack(s)
      <4>1. signed' \in PerSection(BOOLEAN)
        BY <3>4, <3>2 DEF WriteSentBack
      <4>2. status' \in [Revs -> Statuses]
        BY <3>4, <3>2 DEF WriteSentBack
      <4>3. UNCHANGED <<locked, supersedes, lines, notApplicable, released>>
        BY <3>4 DEF WriteSentBack
      <4> HIDE DEF PerSection, Statuses, Revs
      <4> QED BY <3>3, <4>1, <4>2, <4>3 DEF SessionsTyped
    <3>5. CASE WriteReleased(s)
      <4>1. /\ status' \in [Revs -> Statuses]
            /\ locked' \in [Revs -> BOOLEAN]
            /\ released' \in [Revs -> Nat]
        BY <3>5, <3>2 DEF WriteReleased
      <4>2. UNCHANGED <<supersedes, sections>>
        BY <3>5 DEF WriteReleased
      <4> HIDE DEF PerSection, Statuses, Revs
      <4> QED BY <3>3, <4>1, <4>2 DEF SessionsTyped, sections
    <3> QED BY <2>8, <3>4, <3>5
  <2>9. ASSUME NEW s \in Sessions, WriteLine(s) PROVE TypeOK'
    <3>1. req[s] \in Requests /\ req[s].op = "add_line"
      BY <2>9 DEF WriteLine
    <3>2. req[s].rev \in Revs /\ req[s].section \in Disciplines
      BY <3>1 DEF Requests
    <3>3. lines' \in PerSection(0..MaxLines)
      BY <2>9, <3>2 DEF WriteLine
    <3> QED BY <2>9, <3>3 DEF WriteLine, Finish
  <2>10. ASSUME NEW s \in Sessions, Rollback(s) PROVE TypeOK'
    BY <2>10 DEF Rollback, Finish, db, sections
  <2>11. CASE UNCHANGED vars
    BY <2>11 DEF vars, db, sections
  <2>12. CASE Next
    <3>1. PICK s \in Sessions :
            \/ OpenRevision(s) \/ ReadLatest(s) \/ ReadReleased(s)
            \/ \E r \in Revs : SendBack(s, r) \/ Release(s, r)
            \/ \E r \in Revs, d \in Disciplines :
                  SignOff(s, r, d) \/ MarkNotApplicable(s, r, d) \/ AddLine(s, r, d)
            \/ ReadSections(s) \/ ReadLock(s)
            \/ CreateRevision(s) \/ WriteSection(s) \/ WriteSentBack(s)
            \/ WriteReleased(s) \/ WriteLine(s)
            \/ Rollback(s)
      BY <2>12, Zenon DEF Next
    <3> HIDE DEF TypeOK
    <3> QED BY <3>1, <2>2, <2>3, <2>4, <2>5, <2>6, <2>7, <2>8, <2>9, <2>10, Zenon
  <2> QED BY <2>11, <2>12
<1> QED BY <1>1, <1>2, PTL DEF Spec

-----------------------------------------------------------------------------
\* The sets that are counted are finite.
LEMMA CountsAreNumbers ==
    /\ IsFiniteSet(Working) /\ Cardinality(Working) \in Nat
    /\ IsFiniteSet(Opening) /\ Cardinality(Opening) \in Nat
<1>1. IsFiniteSet(Revs)
  BY RevisionAssumption, FS_Interval DEF Revs
<1> QED BY <1>1, RevisionAssumption, FS_Subset, FS_CardinalityType DEF Working, Opening

\* What exists and is not locked is in the works.
LEMMA UnlockedIsWorking ==
    ASSUME TypeOK, LockMatchesStatus, NEW r \in Revs, status[r] # "absent", ~locked[r]
    PROVE  r \in Working
  BY DEF TypeOK, Statuses, LockMatchesStatus, Working, Open

(* The history only grows, and with it the room that openings have, as     *)
(* long as what is in the works and those who open do not.                 *)
LEMMA RoomKept ==
    ASSUME RoomForOpenings, UNCHANGED overlap, TypeOK,
           Working' \subseteq Working, Opening' \subseteq Opening
    PROVE  RoomForOpenings'
<1>1. Cardinality(Working') <= Cardinality(Working) /\ Cardinality(Working') \in Nat
  BY CountsAreNumbers, FS_Subset, FS_CardinalityType
<1>2. Cardinality(Opening') <= Cardinality(Opening) /\ Cardinality(Opening') \in Nat
  BY CountsAreNumbers, FS_Subset, FS_CardinalityType
<1> QED BY <1>1, <1>2, CountsAreNumbers DEF RoomForOpenings, TypeOK

\* The parts of the invariant that are about the database alone.
Rows == NumbersHaveNoGap /\ LockMatchesStatus /\ ReleasedOnce /\ BuiltOnReleased

LEMMA RowsUnchanged ==
    ASSUME Rows, UNCHANGED db, overlap' = overlap \/ overlap' >= overlap, TypeOK, overlap' \in Nat
    PROVE  Rows'
  BY DEF Rows, db, NumbersHaveNoGap, LockMatchesStatus, ReleasedOnce, BuiltOnReleased, TypeOK

(* A step of a session that writes nothing to the database, and does not   *)
(* start another request, keeps the invariant.                             *)
LEMMA ReadingKeepsLifecycle ==
    ASSUME Lifecycle, UNCHANGED <<db, overlap>>, NEW s \in Sessions, TypeOK,
           \/ UNCHANGED req /\ s \notin Opening /\ \A t \in Sessions \ {s} : pc'[t] = pc[t]
           \/ Finish(s),
           \A t \in Sessions : pc'[t] # "idle" => pc[t] # "idle"
    PROVE  Lifecycle'
<1>1. \A t \in Sessions : pc'[t] # "idle" => pc[t] # "idle" /\ req'[t] = req[t]
  BY DEF TypeOK, Finish
<1>2. \A t \in Opening' : t \in Opening /\ pc'[t] = pc[t] /\ req'[t] = req[t]
  BY <1>1 DEF TypeOK, Finish, Opening
<1>3. Rows'
  BY RowsUnchanged DEF Lifecycle, Rows, TypeOK
<1>4. Working' = Working
  BY DEF Working, Open, db
<1>5. RoomForOpenings'
  BY <1>2, <1>4, RoomKept DEF Lifecycle
<1>6. OpeningsReadTrue'
  BY <1>2 DEF Lifecycle, OpeningsReadTrue, db
<1>7. RequestsExist'
  BY <1>1 DEF Lifecycle, RequestsExist, db
<1> QED BY <1>3, <1>5, <1>6, <1>7 DEF Lifecycle, Rows

(* A request other than an opening that starts keeps the invariant if it   *)
(* is about an existing revision.                                          *)
LEMMA BeginKeepsLifecycle ==
    ASSUME Lifecycle, TypeOK, NEW s \in Sessions, NEW r \in Requests, Begin(s, r),
           r.op # "open_revision", status[r.rev] # "absent"
    PROVE  Lifecycle'
<1>1. /\ UNCHANGED <<db, overlap>>
      /\ req'[s] = r
      /\ \A t \in Sessions \ {s} : pc'[t] = pc[t] /\ req'[t] = req[t]
  BY DEF TypeOK, Begin
<1>2. \A t \in Opening' : t \in Opening /\ pc'[t] = pc[t] /\ req'[t] = req[t]
  BY <1>1 DEF Opening
<1>3. Rows'
  BY <1>1, RowsUnchanged DEF Lifecycle, Rows, TypeOK
<1>4. Working' = Working
  BY <1>1 DEF Working, Open, db
<1>5. RoomForOpenings'
  BY <1>1, <1>2, <1>4, RoomKept DEF Lifecycle
<1>6. OpeningsReadTrue'
  BY <1>1, <1>2 DEF Lifecycle, OpeningsReadTrue, db
<1>7. RequestsExist'
  BY <1>1 DEF Lifecycle, RequestsExist, db
<1> QED BY <1>3, <1>5, <1>6, <1>7 DEF Lifecycle, Rows

(* A write to a row that exists, that unlocks none, turns none into a      *)
(* released one without locking it and announces what it locks, keeps the  *)
(* invariant.                                                              *)
LEMMA WritingKeepsLifecycle ==
    ASSUME Lifecycle, TypeOK, NEW s \in Sessions, Finish(s), req[s].op # "open_revision",
           \A r \in Revs : status[r] # "absent" <=> status'[r] # "absent",
           \A r \in Revs : locked[r] => locked'[r],
           UNCHANGED supersedes, LockMatchesStatus', ReleasedOnce'
    PROVE  Lifecycle'
<1>1. \A t \in Sessions :
          pc'[t] # "idle" => pc[t] # "idle" /\ req'[t] = req[t] /\ req[t] \in Requests
  BY DEF TypeOK, Finish
<1>2. overlap' = overlap
  BY DEF Finish
<1>3. \A t \in Opening' : t \in Opening /\ pc'[t] = pc[t] /\ req'[t] = req[t]
  BY <1>1 DEF TypeOK, Finish, Opening
<1>4. Working' \subseteq Working
  BY UnlockedIsWorking DEF Lifecycle, Working, Open
<1>5. RoomForOpenings'
  BY <1>2, <1>3, <1>4, RoomKept DEF Lifecycle
<1>6. OpeningsReadTrue'
  <2> SUFFICES ASSUME NEW t \in Opening'
               PROVE  (/\ pc[t] \in {"looking", "numbered", "checked"}
                       /\ pc[t] = "looking" <=> req[t].rev = NoRev
                       /\ pc[t] # "checked" => req[t].from = NoRev
                       /\ \A q \in Revs : q < req[t].rev => status[q] # "absent"
                       /\ req[t].from # NoRev =>
                             /\ locked[req[t].from]
                             /\ \/ req[t].from < req[t].rev
                                \/ status[req[t].rev] # "absent")'
    BY DEF OpeningsReadTrue
  <2>1. t \in Opening /\ pc'[t] = pc[t] /\ req'[t] = req[t] /\ t \in Sessions
    BY <1>3 DEF Opening
  <2>2. req[t] \in Requests /\ req[t].op = "open_revision"
    BY <2>1 DEF TypeOK, Opening
  <2>3. req[t].rev \in Revs \cup {NoRev} /\ req[t].from \in Revs \cup {NoRev}
    BY <2>2 DEF Requests
  <2>4. /\ pc[t] \in {"looking", "numbered", "checked"}
        /\ pc[t] = "looking" <=> req[t].rev = NoRev
        /\ pc[t] # "checked" => req[t].from = NoRev
        /\ \A q \in Revs : q < req[t].rev => status[q] # "absent"
        /\ req[t].from # NoRev =>
              /\ locked[req[t].from]
              /\ req[t].from < req[t].rev \/ status[req[t].rev] # "absent"
    BY <2>1 DEF Lifecycle, OpeningsReadTrue
  <2>5. req[t].from # NoRev => req[t].rev \in Revs
    BY <2>3, <2>4
  <2>6. ASSUME req[t].from # NoRev
        PROVE  req[t].from < req[t].rev \/ status'[req[t].rev] # "absent"
    BY <2>4, <2>5, <2>6
  <2> QED BY <2>1, <2>3, <2>4, <2>6
<1>7. RequestsExist'
  <2> SUFFICES ASSUME NEW t \in Sessions, pc'[t] # "idle", req'[t].op # "open_revision"
               PROVE  status'[req'[t].rev] # "absent"
    BY DEF RequestsExist
  <2>1. req[t].rev \in Revs
    BY <1>1 DEF Requests
  <2> QED BY <1>1, <2>1 DEF Lifecycle, RequestsExist
<1>8. NumbersHaveNoGap'
  BY DEF Lifecycle, NumbersHaveNoGap
<1>9. BuiltOnReleased'
  <2> SUFFICES ASSUME NEW r \in Revs, status'[r] # "absent"
               PROVE  /\ supersedes[r] # NoRev => supersedes[r] < r /\ locked'[supersedes[r]]
                      /\ overlap <= 1 => \A q \in Revs : q < r => locked'[q]
    BY <1>2 DEF BuiltOnReleased
  <2> QED BY DEF TypeOK, Lifecycle, BuiltOnReleased
<1> QED BY <1>5, <1>6, <1>7, <1>8, <1>9 DEF Lifecycle

-----------------------------------------------------------------------------
(* The three steps of an opening.                                          *)
LEMMA OpenKeepsLifecycle ==
    ASSUME Lifecycle, TypeOK, NEW s \in Sessions, OpenRevision(s)
    PROVE  Lifecycle'
<1>1. /\ pc[s] = "idle"
      /\ pc' = [pc EXCEPT ![s] = "looking"]
      /\ req' = [req EXCEPT ![s] = [op |-> "open_revision", rev |-> NoRev, from |-> NoRev]]
      /\ overlap' = IF overlap > Cardinality(Opening) THEN overlap ELSE Cardinality(Opening) + 1
      /\ UNCHANGED db
      /\ \A q \in Revs : ~Open(q)
  BY DEF OpenRevision, StartOpening
<1>2. overlap \in Nat /\ overlap' \in Nat /\ overlap' >= overlap
      /\ overlap' >= Cardinality(Opening) + 1
  BY <1>1, CountsAreNumbers DEF TypeOK
<1>3. Rows'
  BY <1>1, <1>2, RowsUnchanged DEF Lifecycle, Rows
<1>4. Opening' = Opening \cup {s} /\ s \notin Opening
  BY <1>1 DEF TypeOK, Opening
<1>5. Cardinality(Opening') = Cardinality(Opening) + 1
  BY <1>4, CountsAreNumbers, FS_AddElement
<1>6. Working' = {}
  BY <1>1 DEF Working, Open, db
<1>7. RoomForOpenings'
  BY <1>2, <1>5, <1>6, CountsAreNumbers, FS_EmptySet DEF RoomForOpenings
<1>8. OpeningsReadTrue'
  <2>1. ASSUME NEW t \in Opening, t # s
        PROVE  pc'[t] = pc[t] /\ req'[t] = req[t]
    BY <1>1, <2>1 DEF TypeOK, Opening
  <2>2. /\ pc'[s] = "looking" /\ req'[s].rev = NoRev /\ req'[s].from = NoRev
        /\ \A q \in Revs : ~(q < NoRev)
    BY <1>1, RevisionAssumption DEF TypeOK, Revs, NoRev
  <2> QED BY <1>1, <1>4, <2>1, <2>2 DEF Lifecycle, OpeningsReadTrue, db
<1>9. RequestsExist'
  BY <1>1 DEF TypeOK, Lifecycle, RequestsExist, db
<1> QED BY <1>3, <1>7, <1>8, <1>9 DEF Lifecycle, Rows

LEMMA ReadLatestKeepsLifecycle ==
    ASSUME Lifecycle, TypeOK, NEW s \in Sessions, ReadLatest(s)
    PROVE  Lifecycle'
<1>1. PICK n \in Revs : NextNumber(n) /\ req' = [req EXCEPT ![s].rev = n]
  BY DEF ReadLatest
<1>2. /\ pc[s] = "looking" /\ req[s].op = "open_revision" /\ s \in Opening
      /\ pc' = [pc EXCEPT ![s] = "numbered"]
      /\ UNCHANGED <<db, overlap>>
  BY DEF ReadLatest, Opening
<1>3. req[s] \in Requests
  BY <1>2 DEF TypeOK
<1>4. req'[s].op = "open_revision" /\ req'[s].rev = n /\ req'[s].from = req[s].from
  BY <1>1, <1>2, <1>3 DEF TypeOK, Requests
<1>5. \A t \in Sessions \ {s} : req'[t] = req[t] /\ pc'[t] = pc[t]
  BY <1>1, <1>2 DEF TypeOK
<1>6. Opening' = Opening
  BY <1>2, <1>4, <1>5 DEF TypeOK, Opening
<1>7. Rows'
  BY <1>2, RowsUnchanged DEF Lifecycle, Rows, TypeOK
<1>8. RoomForOpenings'
  <2>1. Working' = Working
    BY <1>2 DEF Working, Open, db
  <2> QED BY <1>2, <1>6, <2>1, RoomKept DEF Lifecycle
<1>9. OpeningsReadTrue'
  <2>1. \A q \in Revs : q < n => status[q] # "absent"
    <3> SUFFICES ASSUME NEW q \in Revs, q < n PROVE status[q] # "absent"
      OBVIOUS
    <3>1. n - 1 \in Revs /\ (q < n - 1 \/ q = n - 1)
      BY RevisionAssumption DEF Revs
    <3>2. status[n - 1] # "absent"
      BY <1>1, <3>1, RevisionAssumption DEF NextNumber, Revs
    <3> QED BY <3>1, <3>2 DEF Lifecycle, NumbersHaveNoGap
  <2>2. req'[s].from = NoRev
    BY <1>2, <1>4 DEF Lifecycle, OpeningsReadTrue
  <2>3. pc'[s] = "numbered" /\ n # NoRev
    BY <1>2, RevisionAssumption DEF TypeOK, Revs, NoRev
  <2>4. \A t \in Opening : t # s => t \in Sessions \ {s}
    BY DEF Opening
  <2> QED BY <1>2, <1>4, <1>5, <1>6, <2>1, <2>2, <2>3, <2>4
          DEF Lifecycle, OpeningsReadTrue, db
<1>10. RequestsExist'
  BY <1>2, <1>4, <1>5 DEF Lifecycle, RequestsExist, db
<1> QED BY <1>7, <1>8, <1>9, <1>10 DEF Lifecycle, Rows

LEMMA ReadReleasedKeepsLifecycle ==
    ASSUME Lifecycle, TypeOK, NEW s \in Sessions, ReadReleased(s)
    PROVE  Lifecycle'
<1>1. PICK f \in Revs \cup {NoRev} : LastReleased(f) /\ req' = [req EXCEPT ![s].from = f]
  BY DEF ReadReleased
<1>2. /\ pc[s] = "numbered" /\ req[s].op = "open_revision" /\ s \in Opening
      /\ pc' = [pc EXCEPT ![s] = "checked"]
      /\ UNCHANGED <<db, overlap>>
  BY DEF ReadReleased, Opening
<1>3. req[s] \in Requests
  BY <1>2 DEF TypeOK
<1>4. req'[s].op = "open_revision" /\ req'[s].rev = req[s].rev /\ req'[s].from = f
  BY <1>1, <1>2, <1>3 DEF TypeOK, Requests
<1>5. \A t \in Sessions \ {s} : req'[t] = req[t] /\ pc'[t] = pc[t]
  BY <1>1, <1>2 DEF TypeOK
<1>6. Opening' = Opening
  BY <1>2, <1>4, <1>5 DEF TypeOK, Opening
<1>7. Rows'
  BY <1>2, RowsUnchanged DEF Lifecycle, Rows, TypeOK
<1>8. RoomForOpenings'
  <2>1. Working' = Working
    BY <1>2 DEF Working, Open, db
  <2> QED BY <1>2, <1>6, <2>1, RoomKept DEF Lifecycle
<1>9. OpeningsReadTrue'
  <2>1. req[s].rev \in Revs
    BY <1>2, <1>3 DEF Lifecycle, OpeningsReadTrue, Requests
  <2>2. f # NoRev => locked[f] /\ (f < req[s].rev \/ status[req[s].rev] # "absent")
    <3> SUFFICES ASSUME f # NoRev, ~(f < req[s].rev)
                 PROVE  locked[f] /\ status[req[s].rev] # "absent"
      BY <1>1 DEF LastReleased, Lifecycle, LockMatchesStatus
    <3>1. f \in Revs /\ status[f] = "released"
      BY <1>1 DEF LastReleased
    <3>2. req[s].rev = f \/ req[s].rev < f
      BY <2>1, <3>1, RevisionAssumption DEF Revs
    <3> QED BY <2>1, <3>1, <3>2 DEF Lifecycle, LockMatchesStatus, NumbersHaveNoGap
  <2>3. pc'[s] = "checked"
    BY <1>2 DEF TypeOK
  <2>4. \A q \in Revs : q < req[s].rev => status[q] # "absent"
    BY <1>2 DEF Lifecycle, OpeningsReadTrue
  <2>5. req[s].rev # NoRev
    BY <2>1, RevisionAssumption DEF Revs, NoRev
  <2>6. \A t \in Opening : t # s => t \in Sessions \ {s}
    BY DEF Opening
  <2> QED BY <1>2, <1>4, <1>5, <1>6, <2>2, <2>3, <2>4, <2>5, <2>6
          DEF Lifecycle, OpeningsReadTrue, db
<1>10. RequestsExist'
  BY <1>2, <1>4, <1>5 DEF Lifecycle, RequestsExist, db
<1> QED BY <1>7, <1>8, <1>9, <1>10 DEF Lifecycle, Rows

(* Its write: the new revision was allowed for by RoomForOpenings, and if  *)
(* openings never overlapped there was nothing else in the works.          *)
LEMMA CreateKeepsLifecycle ==
    ASSUME Lifecycle, TypeOK, NEW s \in Sessions, CreateRevision(s)
    PROVE  Lifecycle'
<1> USE RevisionAssumption
<1> DEFINE n == req[s].rev
           f == req[s].from
<1>1. /\ s \in Opening /\ pc[s] = "checked" /\ req[s] \in Requests
      /\ req[s].op = "open_revision"
  BY DEF CreateRevision, TypeOK, Opening
<1>2. n \in Revs /\ f \in Revs \cup {NoRev}
  BY <1>1 DEF Requests, Lifecycle, OpeningsReadTrue
<1>3. /\ status[n] = "absent"
      /\ status' = [status EXCEPT ![n] = "draft"]
      /\ supersedes' = [supersedes EXCEPT ![n] = f]
      /\ UNCHANGED <<locked, released, overlap>>
      /\ Finish(s)
  BY DEF CreateRevision, Finish
<1>4. /\ \A q \in Revs : q < n => status[q] # "absent"
      /\ f # NoRev => f < n /\ locked[f]
  BY <1>1, <1>3 DEF Lifecycle, OpeningsReadTrue
<1> HIDE DEF n, f
<1>5. \A r \in Revs : status'[r] # "absent" <=> (r = n \/ status[r] # "absent")
  BY <1>2, <1>3 DEF TypeOK
<1>6. \A t \in Sessions :
          pc'[t] # "idle" => pc[t] # "idle" /\ pc'[t] = pc[t] /\ req'[t] = req[t] /\ t # s
  BY <1>3 DEF TypeOK, Finish
<1>7. NumbersHaveNoGap'
  <2> SUFFICES ASSUME NEW q \in Revs, NEW r \in Revs, q < r, status'[r] # "absent"
               PROVE  status'[q] # "absent"
    BY DEF NumbersHaveNoGap
  <2> QED BY <1>4, <1>5 DEF Lifecycle, NumbersHaveNoGap
<1>8. LockMatchesStatus' /\ ReleasedOnce'
  BY <1>2, <1>3 DEF TypeOK, Lifecycle, LockMatchesStatus, ReleasedOnce
<1>9. Opening' \subseteq Opening \ {s}
  BY <1>6 DEF Opening
<1>10. Cardinality(Opening') <= Cardinality(Opening) - 1 /\ Cardinality(Opening') \in Nat
  <2>1. Cardinality(Opening \ {s}) = Cardinality(Opening) - 1 /\ IsFiniteSet(Opening \ {s})
    BY <1>1, CountsAreNumbers, FS_RemoveElement
  <2> QED BY <1>9, <2>1, FS_Subset, FS_CardinalityType
<1>11. Working' \subseteq Working \cup {n}
  BY <1>2, <1>3 DEF TypeOK, Working, Open
<1>12. Cardinality(Working') <= Cardinality(Working) + 1 /\ Cardinality(Working') \in Nat
  <2>1. IsFiniteSet(Working \cup {n}) /\ Cardinality(Working \cup {n}) <= Cardinality(Working) + 1
    <3>1. /\ IsFiniteSet(Working \cup {n})
          /\ Cardinality(Working \cup {n}) =
                IF n \in Working THEN Cardinality(Working) ELSE Cardinality(Working) + 1
      BY CountsAreNumbers, FS_AddElement
    <3> QED BY <3>1, CountsAreNumbers
  <2>2. Cardinality(Working \cup {n}) \in Nat
    BY <2>1, FS_CardinalityType
  <2>3. Cardinality(Working') <= Cardinality(Working \cup {n}) /\ Cardinality(Working') \in Nat
    BY <1>11, <2>1, FS_Subset, FS_CardinalityType
  <2> QED BY <2>1, <2>2, <2>3, CountsAreNumbers
<1>13. RoomForOpenings'
  BY <1>3, <1>10, <1>12, CountsAreNumbers DEF TypeOK, Lifecycle, RoomForOpenings
<1>14. OpeningsReadTrue'
  <2> SUFFICES ASSUME NEW t \in Opening'
               PROVE  (/\ pc[t] \in {"looking", "numbered", "checked"}
                       /\ pc[t] = "looking" <=> req[t].rev = NoRev
                       /\ pc[t] # "checked" => req[t].from = NoRev
                       /\ \A q \in Revs : q < req[t].rev => status[q] # "absent"
                       /\ req[t].from # NoRev =>
                             /\ locked[req[t].from]
                             /\ \/ req[t].from < req[t].rev
                                \/ status[req[t].rev] # "absent")'
    BY DEF OpeningsReadTrue
  <2>1. t \in Opening /\ pc'[t] = pc[t] /\ req'[t] = req[t] /\ t \in Sessions
    BY <1>6, <1>9 DEF Opening
  <2>2. req[t] \in Requests /\ req[t].op = "open_revision"
    BY <2>1 DEF TypeOK, Opening
  <2>3. req[t].rev \in Revs \cup {NoRev} /\ req[t].from \in Revs \cup {NoRev}
    BY <2>2 DEF Requests
  <2>4. /\ pc[t] \in {"looking", "numbered", "checked"}
        /\ pc[t] = "looking" <=> req[t].rev = NoRev
        /\ pc[t] # "checked" => req[t].from = NoRev
        /\ \A q \in Revs : q < req[t].rev => status[q] # "absent"
        /\ req[t].from # NoRev =>
              /\ locked[req[t].from]
              /\ req[t].from < req[t].rev \/ status[req[t].rev] # "absent"
    BY <2>1 DEF Lifecycle, OpeningsReadTrue
  <2>5. req[t].from # NoRev => req[t].rev \in Revs
    BY <2>3, <2>4
  <2>6. ASSUME req[t].from # NoRev
        PROVE  req[t].from < req[t].rev \/ status'[req[t].rev] # "absent"
    BY <1>5, <2>4, <2>5, <2>6
  <2> QED BY <1>3, <1>5, <2>1, <2>4, <2>6
<1>15. RequestsExist'
  <2> SUFFICES ASSUME NEW t \in Sessions, pc'[t] # "idle", req'[t].op # "open_revision"
               PROVE  status'[req'[t].rev] # "absent"
    BY DEF RequestsExist
  <2>1. req[t] \in Requests
    BY <1>6 DEF TypeOK
  <2>2. req[t].rev \in Revs
    BY <1>6, <2>1 DEF Requests
  <2> QED BY <1>5, <1>6, <2>2 DEF Lifecycle, RequestsExist
<1>16. overlap <= 1 => \A q \in Revs : q < n => locked[q]
  <2> SUFFICES ASSUME overlap <= 1, NEW q \in Revs, q < n, ~locked[q]
               PROVE  FALSE
    OBVIOUS
  <2>1. q \in Working
    BY <1>4, UnlockedIsWorking DEF Lifecycle
  <2>2. Cardinality(Working) >= 1 /\ Cardinality(Opening) >= 1
    <3>1. ASSUME NEW S, IsFiniteSet(S), S # {}
          PROVE  Cardinality(S) >= 1
      BY <3>1, FS_EmptySet, FS_CardinalityType
    <3> QED BY <1>1, <2>1, <3>1, CountsAreNumbers
  <2> QED BY <2>2, CountsAreNumbers DEF TypeOK, Lifecycle, RoomForOpenings
<1>17. BuiltOnReleased'
  <2> SUFFICES ASSUME NEW r \in Revs, status'[r] # "absent"
               PROVE  /\ supersedes'[r] # NoRev =>
                            supersedes'[r] < r /\ locked[supersedes'[r]]
                      /\ overlap <= 1 => \A q \in Revs : q < r => locked[q]
    BY <1>3 DEF BuiltOnReleased
  <2>1. CASE r = n
    BY <1>2, <1>3, <1>4, <1>16, <2>1 DEF TypeOK
  <2>2. CASE r # n
    BY <1>2, <1>3, <1>5, <2>2 DEF TypeOK, Lifecycle, BuiltOnReleased
  <2> QED BY <2>1, <2>2
<1> QED BY <1>7, <1>8, <1>13, <1>14, <1>15, <1>17 DEF Lifecycle

(* The inductive invariant.                                                *)
THEOREM LifecycleHolds == Spec => []Lifecycle
<1> USE RevisionAssumption
<1>1. Init => Lifecycle
  <2> SUFFICES ASSUME Init PROVE Lifecycle
    OBVIOUS
  <2>1. /\ locked = [r \in Revs |-> FALSE]
        /\ supersedes = [r \in Revs |-> NoRev]
        /\ released = [r \in Revs |-> 0]
        /\ pc = [s \in Sessions |-> "idle"]
    BY DEF Init
  <2>2. \A r \in Revs :
            /\ r # 0 => status[r] = "absent"
            /\ status[r] # "released"
            /\ status[r] # "absent" => overlap = 1
    <3>1. CASE status = [r \in Revs |-> "absent"]
      BY <3>1
    <3>2. ASSUME NEW onPaper \in BOOLEAN, overlap = 1,
                 status = [r \in Revs |->
                     IF r > 0 THEN "absent" ELSE IF onPaper THEN "sections_signed" ELSE "draft"]
          PROVE  \A r \in Revs :
                     /\ r # 0 => status[r] = "absent"
                     /\ status[r] # "released"
                     /\ status[r] # "absent" => overlap = 1
      BY <3>2 DEF Revs
    <3> QED BY <3>1, <3>2, Zenon DEF Init
  <2>3. NumbersHaveNoGap /\ LockMatchesStatus /\ ReleasedOnce /\ BuiltOnReleased
    BY <2>1, <2>2 DEF NumbersHaveNoGap, LockMatchesStatus, ReleasedOnce, BuiltOnReleased, Revs
  <2>4. Opening = {} /\ RequestsExist /\ OpeningsReadTrue
    BY <2>1 DEF Opening, RequestsExist, OpeningsReadTrue
  <2>5. RoomForOpenings
    <3>1. Cardinality(Opening) = 0
      BY <2>4, FS_EmptySet
    <3>2. overlap = 0 \/ overlap = 1
      BY Zenon DEF Init
    <3>3. CASE Working = {}
      BY <3>1, <3>2, <3>3, FS_EmptySet DEF RoomForOpenings
    <3>4. CASE Working # {}
      <4>1. Working = {0}
        BY <2>2, <3>4 DEF Working, Open
      <4>2. overlap = 1
        BY <2>2, <3>4 DEF Working, Open
      <4> QED BY <3>1, <4>1, <4>2, FS_Singleton DEF RoomForOpenings
    <3> QED BY <3>3, <3>4
  <2> QED BY <2>3, <2>4, <2>5 DEF Lifecycle
<1>2. TypeOK /\ Lifecycle /\ [Next]_vars => Lifecycle'
  <2> SUFFICES ASSUME TypeOK, Lifecycle, [Next]_vars PROVE Lifecycle'
    OBVIOUS
  <2>1. ASSUME NEW s \in Sessions, OpenRevision(s) \/ ReadLatest(s) \/ ReadReleased(s)
        PROVE Lifecycle'
    BY <2>1, OpenKeepsLifecycle, ReadLatestKeepsLifecycle, ReadReleasedKeepsLifecycle
  <2>2. ASSUME NEW s \in Sessions, NEW r \in Revs, SendBack(s, r) \/ Release(s, r)
        PROVE Lifecycle'
    <3>1. [op |-> "send_back", rev |-> r] \in Requests /\ [op |-> "release", rev |-> r] \in Requests
      BY DEF Requests
    <3>2. status[r] # "absent"
      BY <2>2 DEF SendBack, Release, Open
    <3> QED BY <2>2, <3>1, <3>2, BeginKeepsLifecycle DEF SendBack, Release
  <2>3. ASSUME NEW s \in Sessions, NEW r \in Revs, NEW d \in Disciplines,
               SignOff(s, r, d) \/ MarkNotApplicable(s, r, d) \/ AddLine(s, r, d)
        PROVE Lifecycle'
    <3>1. \A o \in {"sign_off", "not_applicable", "add_line"} :
              [op |-> o, rev |-> r, section |-> d] \in Requests
      BY DEF Requests
    <3>2. status[r] # "absent"
      BY <2>3 DEF SignOff, MarkNotApplicable, AddLine, Open
    <3>3. PICK o \in {"sign_off", "not_applicable", "add_line"} :
              Begin(s, [op |-> o, rev |-> r, section |-> d])
      BY <2>3 DEF SignOff, MarkNotApplicable, AddLine
    <3> QED BY <3>1, <3>2, <3>3, BeginKeepsLifecycle
  <2>4. ASSUME NEW s \in Sessions, ReadSections(s) \/ ReadLock(s) PROVE Lifecycle'
    <3>1. /\ UNCHANGED <<db, overlap, req>>
          /\ s \notin Opening /\ pc[s] = "checked"
          /\ pc' = [pc EXCEPT ![s] = "saving"]
      BY <2>4 DEF ReadSections, ReadLock, Opening
    <3> QED BY <3>1, ReadingKeepsLifecycle DEF TypeOK
  <2>5. ASSUME NEW s \in Sessions, Rollback(s) PROVE Lifecycle'
    <3>1. UNCHANGED <<db, overlap>> /\ Finish(s)
      BY <2>5 DEF Rollback, Finish
    <3> QED BY <3>1, ReadingKeepsLifecycle DEF Finish, TypeOK
  <2>6. ASSUME NEW s \in Sessions, CreateRevision(s) PROVE Lifecycle'
    BY <2>6, CreateKeepsLifecycle
  <2>7. ASSUME NEW s \in Sessions, WriteSection(s) \/ WriteSentBack(s) \/ WriteLine(s)
        PROVE Lifecycle'
    <3> DEFINE n == req[s].rev
    <3>1. req[s] \in Requests /\ req[s].op # "open_revision" /\ pc[s] # "idle"
      BY <2>7 DEF WriteSection, WriteSentBack, WriteLine, TypeOK
    <3>2. n \in Revs
      BY <3>1 DEF Requests
    <3>3. status[n] # "absent"
      BY <3>1 DEF Lifecycle, RequestsExist
    <3>4. PICK st \in {"draft", "sections_signed", status[n]} :
              status' = [status EXCEPT ![n] = st]
      BY <2>7 DEF WriteSection, WriteSentBack, WriteLine, TypeOK
    <3>5. UNCHANGED <<locked, supersedes, released>> /\ Finish(s)
      BY <2>7 DEF WriteSection, WriteSentBack, WriteLine
    <3> HIDE DEF n
    <3>6. \A r \in Revs :
              /\ status[r] # "absent" <=> status'[r] # "absent"
              /\ status'[r] = "released" => status[r] = "released"
      BY <3>2, <3>3, <3>4 DEF TypeOK
    <3>7. LockMatchesStatus' /\ ReleasedOnce'
      BY <3>5, <3>6 DEF Lifecycle, LockMatchesStatus, ReleasedOnce
    <3> QED BY <3>1, <3>5, <3>6, <3>7, WritingKeepsLifecycle
  <2>8. ASSUME NEW s \in Sessions, WriteReleased(s) PROVE Lifecycle'
    <3> DEFINE n == req[s].rev
    <3>1. req[s] \in Requests /\ req[s].op # "open_revision" /\ pc[s] # "idle"
      BY <2>8 DEF WriteReleased, TypeOK
    <3>2. n \in Revs
      BY <3>1 DEF Requests
    <3>3. status[n] # "absent"
      BY <3>1 DEF Lifecycle, RequestsExist
    <3>4. /\ released[n] = 0
          /\ status' = [status EXCEPT ![n] = "released"]
          /\ locked' = [locked EXCEPT ![n] = TRUE]
          /\ released' = [released EXCEPT ![n] = @ + 1]
          /\ UNCHANGED supersedes
          /\ Finish(s)
      BY <2>8 DEF WriteReleased
    <3> HIDE DEF n
    <3>5. \A r \in Revs :
              /\ status[r] # "absent" <=> status'[r] # "absent"
              /\ locked[r] => locked'[r]
      BY <3>2, <3>3, <3>4 DEF TypeOK
    <3>6. LockMatchesStatus'
      BY <3>2, <3>4 DEF TypeOK, Lifecycle, LockMatchesStatus
    <3>7. ReleasedOnce'
      BY <3>2, <3>4 DEF TypeOK, Lifecycle, ReleasedOnce
    <3> QED BY <3>1, <3>4, <3>5, <3>6, <3>7, WritingKeepsLifecycle
  <2>9. CASE UNCHANGED vars
    BY <2>9 DEF vars, db, sections, Lifecycle, RoomForOpenings, NumbersHaveNoGap,
        LockMatchesStatus, OpeningsReadTrue, RequestsExist, ReleasedOnce, BuiltOnReleased,
        Working, Opening, Open
  <2>10. CASE Next
    <3>1. PICK s \in Sessions :
            \/ OpenRevision(s) \/ ReadLatest(s) \/ ReadReleased(s)
            \/ \E r \in Revs : SendBack(s, r) \/ Release(s, r)
            \/ \E r \in Revs, d \in Disciplines :
                  SignOff(s, r, d) \/ MarkNotApplicable(s, r, d) \/ AddLine(s, r, d)
            \/ ReadSections(s) \/ ReadLock(s)
            \/ CreateRevision(s) \/ WriteSection(s) \/ WriteSentBack(s)
            \/ WriteReleased(s) \/ WriteLine(s)
            \/ Rollback(s)
      BY <2>10, Zenon DEF Next
    <3> QED BY <3>1, <2>1, <2>2, <2>3, <2>4, <2>5, <2>6, <2>7, <2>8, Zenon
  <2> QED BY <2>9, <2>10
<1> QED BY <1>1, <1>2, TypeCorrect, PTL DEF Spec

(* A revision is locked and announced together, and once.                  *)
THEOREM ReleasedOnceHolds == Spec => []ReleasedOnce
<1>1. Lifecycle => ReleasedOnce
  BY DEF Lifecycle
<1> QED BY <1>1, LifecycleHolds, PTL

(* A project has no more revisions in the works than openings were ever in *)
(* progress at once: one, if people open revisions one after the other.    *)
THEOREM OneWorkingRevisionHolds == Spec => []OneWorkingRevision
<1>1. TypeOK /\ Lifecycle => OneWorkingRevision
  BY CountsAreNumbers DEF TypeOK, Lifecycle, RoomForOpenings, OneWorkingRevision
<1> QED BY <1>1, TypeCorrect, LifecycleHolds, PTL

(* A revision supersedes an earlier one that was released, or none; and    *)
(* while openings do not overlap, all the earlier ones were released.      *)
THEOREM BuiltOnReleasedHolds == Spec => []BuiltOnReleased
<1>1. Lifecycle => BuiltOnReleased
  BY DEF Lifecycle
<1> QED BY <1>1, LifecycleHolds, PTL
=============================================================================
