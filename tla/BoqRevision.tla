----------------------------- MODULE BoqRevision -----------------------------
(***************************************************************************)
(* The life of a project's BOQ revisions, translated from                  *)
(* engineering/services.py, the boq_detail view and the lock of            *)
(* platform_core/models/approval.py.                                       *)
(*                                                                         *)
(* A session is one web request.  It reads what its service checks, reads  *)
(* again while it saves, and then its transaction writes and commits.      *)
(* Opening a revision takes three queries before it writes: is one open,   *)
(* which is the latest, which was released last.  No row is locked over    *)
(* these steps, so other sessions may commit between any two of them.  A   *)
(* session that the database or a guard stops rolls back.                  *)
(***************************************************************************)
EXTENDS Integers, FiniteSets

CONSTANTS
    Sessions,     \* concurrent web requests
    Disciplines,  \* a revision has a section for each: goods and service
    MaxRev,       \* bound: the highest revision number
    MaxLines      \* bound: lines of one section

ASSUME RevisionAssumption ==
    /\ IsFiniteSet(Sessions)
    /\ MaxRev \in Nat
    /\ MaxLines \in Nat

VARIABLES
    status,         \* BoqRevision.status; "absent" before the row exists
    locked,         \* whether locked_at is set
    supersedes,     \* BoqRevision.supersedes, NoRev when null
    lines,          \* number of lines of each section
    signed,         \* whether each section's signed_off_at is set
    notApplicable,  \* BoqSection.is_not_applicable
    released,       \* BoqRevisionReleased events of each revision
    pc,             \* how far each session is
    req,            \* what it does
    completes,      \* whether it found every section complete
    overlap         \* history: the most openings ever in progress at once

sections == <<lines, signed, notApplicable>>
db == <<status, locked, supersedes, sections, released>>
vars == <<db, pc, req, completes, overlap>>

Revs == 0..MaxRev
NoRev == -1
Statuses == {"absent", "draft", "sections_signed", "released"}

Phases == {"idle", "looking", "numbered", "checked", "saving"}

\* What an opening has not read yet is NoRev.
Requests ==
    [op : {"open_revision"}, rev : Revs \cup {NoRev}, from : Revs \cup {NoRev}]
    \cup [op : {"sign_off", "not_applicable", "add_line"}, rev : Revs, section : Disciplines]
    \cup [op : {"send_back", "release"}, rev : Revs]

NoRequest == [op |-> "none"]

PerSection(S) == [Revs -> [Disciplines -> S]]

TypeOK ==
    /\ status \in [Revs -> Statuses]
    /\ locked \in [Revs -> BOOLEAN]
    /\ supersedes \in [Revs -> Revs \cup {NoRev}]
    /\ lines \in PerSection(0..MaxLines)
    /\ signed \in PerSection(BOOLEAN)
    /\ notApplicable \in PerSection(BOOLEAN)
    /\ released \in [Revs -> Nat]
    /\ pc \in [Sessions -> Phases]
    /\ req \in [Sessions -> Requests \cup {NoRequest}]
    /\ \A s \in Sessions : pc[s] # "idle" => req[s] \in Requests
    /\ completes \in [Sessions -> BOOLEAN]
    /\ overlap \in Nat

Empty(x) == [r \in Revs |-> [d \in Disciplines |-> x]]

(* A project starts without a BOQ, or with the opening revision that       *)
(* import_revision made of a spreadsheet: lines in one section, the other  *)
(* not applicable, signed on paper or still to be signed.                  *)
Init ==
    /\ locked = [r \in Revs |-> FALSE]
    /\ supersedes = [r \in Revs |-> NoRev]
    /\ released = [r \in Revs |-> 0]
    /\ pc = [s \in Sessions |-> "idle"]
    /\ req = [s \in Sessions |-> NoRequest]
    /\ completes = [s \in Sessions |-> FALSE]
    /\ \/ /\ status = [r \in Revs |-> "absent"]
          /\ overlap = 0
          /\ lines = Empty(0)
          /\ signed = Empty(FALSE)
          /\ notApplicable = Empty(FALSE)
       \/ \E d \in Disciplines, n \in 1..MaxLines, onPaper \in BOOLEAN :
          /\ overlap = 1
          /\ status = [r \in Revs |->
                IF r > 0 THEN "absent" ELSE IF onPaper THEN "sections_signed" ELSE "draft"]
          /\ lines = [Empty(0) EXCEPT ![0][d] = n]
          /\ notApplicable = [r \in Revs |-> [c \in Disciplines |-> r = 0 /\ c # d]]
          /\ signed = [r \in Revs |-> [c \in Disciplines |-> r = 0 /\ (c # d \/ onPaper)]]

-----------------------------------------------------------------------------
\* Neither released nor absent: what the code lets be worked on.
Open(r) == status[r] \in {"draft", "sections_signed"}

\* BoqSection.is_complete
is_complete(r, d) == notApplicable[r][d] \/ signed[r][d]

\* revision_number of the next revision: one above the highest there is.
NextNumber(n) ==
    \A q \in Revs :
        /\ q >= n => status[q] = "absent"
        /\ q = n - 1 => status[q] # "absent"

LastReleased(f) ==
    \/ f = NoRev /\ \A q \in Revs : status[q] # "released"
    \/ /\ f \in Revs
       /\ status[f] = "released"
       /\ \A q \in Revs : q > f => status[q] # "released"

-----------------------------------------------------------------------------
(* First step of a request: the checks of its service, on what it reads.   *)
Begin(s, r) ==
    /\ pc[s] = "idle"
    /\ pc' = [pc EXCEPT ![s] = "checked"]
    /\ req' = [req EXCEPT ![s] = r]
    /\ UNCHANGED <<db, completes, overlap>>

\* Requests that are opening a revision.
Opening == {s \in Sessions : pc[s] # "idle" /\ req[s].op = "open_revision"}

StartOpening(s) ==
    /\ pc[s] = "idle"
    /\ status[MaxRev] = "absent"  \* the bound
    /\ pc' = [pc EXCEPT ![s] = "looking"]
    /\ req' = [req EXCEPT ![s] = [op |-> "open_revision", rev |-> NoRev, from |-> NoRev]]
    /\ overlap' = IF overlap > Cardinality(Opening) THEN overlap ELSE Cardinality(Opening) + 1
    /\ UNCHANGED <<db, completes>>

\* Mutant: an open revision is not looked for.
MutOpenRevision(s) == StartOpening(s)

(* open_revision finds no revision in the works.                           *)
OpenRevision(s) ==
    /\ \A q \in Revs : ~Open(q)
    /\ StartOpening(s)

(* Its second query: the latest revision, whose number it adds one to.     *)
ReadLatest(s) ==
    /\ pc[s] = "looking"
    /\ req[s].op = "open_revision"
    /\ \E n \in Revs : NextNumber(n) /\ req' = [req EXCEPT ![s].rev = n]
    /\ pc' = [pc EXCEPT ![s] = "numbered"]
    /\ UNCHANGED <<db, completes, overlap>>

\* Mutant: it takes the latest revision, released or not.
MutReadReleased(s) ==
    /\ pc[s] = "numbered"
    /\ req[s].op = "open_revision"
    /\ req' = [req EXCEPT ![s].from = req[s].rev - 1]
    /\ pc' = [pc EXCEPT ![s] = "checked"]
    /\ UNCHANGED <<db, completes, overlap>>

(* Its third: the latest of those released.                                *)
ReadReleased(s) ==
    /\ pc[s] = "numbered"
    /\ req[s].op = "open_revision"
    /\ \E f \in Revs \cup {NoRev} : LastReleased(f) /\ req' = [req EXCEPT ![s].from = f]
    /\ pc' = [pc EXCEPT ![s] = "checked"]
    /\ UNCHANGED <<db, completes, overlap>>

SignOff(s, r, d) ==
    /\ Open(r)
    /\ ~notApplicable[r][d]
    /\ lines[r][d] > 0
    /\ Begin(s, [op |-> "sign_off", rev |-> r, section |-> d])

(* No look at the revision's status here.                                  *)
MarkNotApplicable(s, r, d) ==
    /\ status[r] # "absent"
    /\ lines[r][d] = 0
    /\ Begin(s, [op |-> "not_applicable", rev |-> r, section |-> d])

SendBack(s, r) ==
    /\ Open(r)
    /\ Begin(s, [op |-> "send_back", rev |-> r])

Release(s, r) ==
    /\ Open(r)
    /\ \A d \in Disciplines : is_complete(r, d)
    /\ Begin(s, [op |-> "release", rev |-> r])

AddLine(s, r, d) ==
    /\ Open(r)
    /\ Begin(s, [op |-> "add_line", rev |-> r, section |-> d])

-----------------------------------------------------------------------------
(* Second step: what the code reads again while it saves.                  *)

\* _advance_if_sections_complete reads the sections, its own among them.
ReadSections(s) ==
    /\ pc[s] = "checked"
    /\ req[s].op \in {"sign_off", "not_applicable"}
    /\ completes' = [completes EXCEPT ![s] =
            \A d \in Disciplines \ {req[s].section} : is_complete(req[s].rev, d)]
    /\ pc' = [pc EXCEPT ![s] = "saving"]
    /\ UNCHANGED <<db, req, overlap>>

\* Approvable.save looks whether the stored row is locked, and refuses.
ReadLock(s) ==
    /\ pc[s] = "checked"
    /\ req[s].op \in {"send_back", "release"}
    /\ ~locked[req[s].rev]
    /\ pc' = [pc EXCEPT ![s] = "saving"]
    /\ UNCHANGED <<db, req, completes, overlap>>

-----------------------------------------------------------------------------
(* Third step: the writes, and the commit.                                 *)
Finish(s) ==
    /\ pc' = [pc EXCEPT ![s] = "idle"]
    /\ req' = [req EXCEPT ![s] = NoRequest]
    /\ completes' = [completes EXCEPT ![s] = FALSE]
    /\ UNCHANGED overlap

(* The revision with its two sections, and the lines of the last released  *)
(* one copied forward.  (project, revision_number) is unique.              *)
CreateRevision(s) ==
    /\ pc[s] = "checked"
    /\ req[s].op = "open_revision"
    /\ LET n == req[s].rev
           f == req[s].from
       IN  /\ status[n] = "absent"
           /\ status' = [status EXCEPT ![n] = "draft"]
           /\ supersedes' = [supersedes EXCEPT ![n] = f]
           /\ lines' = IF f = NoRev THEN lines ELSE [lines EXCEPT ![n] = lines[f]]
    /\ UNCHANGED <<locked, signed, notApplicable, released>>
    /\ Finish(s)

(* The section's signature; a status-only save passes any lock.            *)
WriteSection(s) ==
    /\ pc[s] = "saving"
    /\ req[s].op \in {"sign_off", "not_applicable"}
    /\ LET r == req[s].rev
           d == req[s].section
       IN  /\ signed' = [signed EXCEPT ![r][d] = TRUE]
           /\ notApplicable' = [notApplicable EXCEPT ![r][d] =
                                    @ \/ req[s].op = "not_applicable"]
           /\ status' = IF completes[s] THEN [status EXCEPT ![r] = "sections_signed"]
                                        ELSE status
    /\ UNCHANGED <<locked, supersedes, lines, released>>
    /\ Finish(s)

\* Mutant: the unused status SENT_BACK is written.
MutWriteSentBack(s) ==
    /\ pc[s] = "saving"
    /\ req[s].op = "send_back"
    /\ status' = [status EXCEPT ![req[s].rev] = "sent_back"]
    /\ signed' = [signed EXCEPT ![req[s].rev] = [d \in Disciplines |-> FALSE]]
    /\ UNCHANGED <<locked, supersedes, lines, notApplicable, released>>
    /\ Finish(s)

(* The signatures go; is_not_applicable stays.                             *)
WriteSentBack(s) ==
    /\ pc[s] = "saving"
    /\ req[s].op = "send_back"
    /\ status' = [status EXCEPT ![req[s].rev] = "draft"]
    /\ signed' = [signed EXCEPT ![req[s].rev] = [d \in Disciplines |-> FALSE]]
    /\ UNCHANGED <<locked, supersedes, lines, notApplicable, released>>
    /\ Finish(s)

\* Mutant: the event carries no idempotency key.
MutWriteReleased(s) ==
    /\ pc[s] = "saving"
    /\ req[s].op = "release"
    /\ status' = [status EXCEPT ![req[s].rev] = "released"]
    /\ locked' = [locked EXCEPT ![req[s].rev] = TRUE]
    /\ released' = [released EXCEPT ![req[s].rev] = @ + 1]
    /\ UNCHANGED <<supersedes, sections>>
    /\ Finish(s)

(* Status, lock and event together.  The event's idempotency key is        *)
(* unique: a second release of the revision fails as a whole.              *)
WriteReleased(s) ==
    /\ pc[s] = "saving"
    /\ req[s].op = "release"
    /\ released[req[s].rev] = 0
    /\ status' = [status EXCEPT ![req[s].rev] = "released"]
    /\ locked' = [locked EXCEPT ![req[s].rev] = TRUE]
    /\ released' = [released EXCEPT ![req[s].rev] = @ + 1]
    /\ UNCHANGED <<supersedes, sections>>
    /\ Finish(s)

WriteLine(s) ==
    /\ pc[s] = "checked"
    /\ req[s].op = "add_line"
    /\ lines[req[s].rev][req[s].section] < MaxLines
    /\ lines' = [lines EXCEPT ![req[s].rev][req[s].section] = @ + 1]
    /\ UNCHANGED <<status, locked, supersedes, signed, notApplicable, released>>
    /\ Finish(s)

(* RecordLocked, a unique constraint, or the end of the process.           *)
Rollback(s) ==
    /\ pc[s] # "idle"
    /\ Finish(s)
    /\ UNCHANGED db

Next ==
    \E s \in Sessions :
        \/ OpenRevision(s) \/ ReadLatest(s) \/ ReadReleased(s)
        \/ \E r \in Revs : SendBack(s, r) \/ Release(s, r)
        \/ \E r \in Revs, d \in Disciplines :
              SignOff(s, r, d) \/ MarkNotApplicable(s, r, d) \/ AddLine(s, r, d)
        \/ ReadSections(s) \/ ReadLock(s)
        \/ CreateRevision(s) \/ WriteSection(s) \/ WriteSentBack(s)
        \/ WriteReleased(s) \/ WriteLine(s)
        \/ Rollback(s)

Spec == Init /\ [][Next]_vars

-----------------------------------------------------------------------------
(* A revision is locked exactly when its release event is in the outbox,   *)
(* and the event is there once, however many people press Release:         *)
(* reconciliation and procurement start from it.                           *)
ReleasedOnce ==
    \A r \in Revs : released[r] = IF locked[r] THEN 1 ELSE 0

\* What can be worked on: not released yet.
Working == {r \in Revs : Open(r) /\ ~locked[r]}

(* open_revision means to keep one revision in the works, but what it has  *)
(* looked for may appear before it writes, and a racing opening that       *)
(* already has its number reads the next one: the unique number stops      *)
(* nothing.  So a project has at most as many revisions in the works as    *)
(* openings were ever in progress at once, and one if they never overlap.  *)
OneWorkingRevision == Cardinality(Working) <= overlap

(* The diff is made against what was released: a revision supersedes an    *)
(* earlier one that has been released, or none, although number and        *)
(* predecessor are read at different moments.  While openings do not       *)
(* overlap, all earlier revisions have been released.                      *)
BuiltOnReleased ==
    \A r \in Revs :
        status[r] # "absent" =>
            /\ supersedes[r] # NoRev => supersedes[r] < r /\ locked[supersedes[r]]
            /\ overlap <= 1 => \A q \in Revs : q < r => locked[q]

-----------------------------------------------------------------------------
(* The inductive invariant: every opening in progress may still add a      *)
(* revision to those in the works, ...                                     *)
RoomForOpenings == Cardinality(Working) + Cardinality(Opening) <= overlap

(* ... revisions are numbered without a gap, ...                           *)
NumbersHaveNoGap ==
    \A q, r \in Revs : (q < r /\ status[r] # "absent") => status[q] # "absent"

(* ... only an existing revision is locked and a released one is, and      *)
(* one that is not locked can be worked on, ...                            *)
LockMatchesStatus ==
    \A r \in Revs :
        /\ status[r] = "released" => locked[r]
        /\ locked[r] => status[r] # "absent"

(* ... what an opening has read is what was there: the revisions below the *)
(* new number exist, and the predecessor was released and is below it,     *)
(* unless the number has been taken in the meantime.                       *)
OpeningsReadTrue ==
    \A s \in Opening :
        /\ pc[s] \in {"looking", "numbered", "checked"}
        /\ pc[s] = "looking" <=> req[s].rev = NoRev
        /\ pc[s] # "checked" => req[s].from = NoRev
        /\ \A q \in Revs : q < req[s].rev => status[q] # "absent"
        /\ req[s].from # NoRev =>
              /\ locked[req[s].from]
              /\ req[s].from < req[s].rev \/ status[req[s].rev] # "absent"

\* The other requests are about revisions that exist.
RequestsExist ==
    \A s \in Sessions :
        (pc[s] # "idle" /\ req[s].op # "open_revision") => status[req[s].rev] # "absent"

Lifecycle ==
    /\ RoomForOpenings
    /\ NumbersHaveNoGap
    /\ LockMatchesStatus
    /\ OpeningsReadTrue
    /\ RequestsExist
    /\ ReleasedOnce
    /\ BuiltOnReleased
=============================================================================
