---------------------------- MODULE MCBoqRevision ----------------------------
(* Small instances of BoqRevision.                                         *)
EXTENDS BoqRevision, TLC

CONSTANTS s1, s2, goods, service

\* Neither a session nor a section is told from the other by anything but
\* what it holds.
Symmetry == Permutations(Sessions) \cup Permutations(Disciplines)

\* Once openings have overlapped, lines are added to the first revision only;
\* the second has those copied from it.
LinesFromFirst ==
    \A s \in Sessions : req[s].op = "add_line" => req[s].rev = 0 \/ overlap <= 1
=============================================================================
