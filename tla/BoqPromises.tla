----------------------------- MODULE BoqPromises -----------------------------
(***************************************************************************)
(* What the documents promise of a BOQ item over all its revisions: sums   *)
(* over the rows of BoqLineage that stand for the same item.               *)
(***************************************************************************)
EXTENDS BoqLineage, FiniteSetsExt, Functions

RowsOf(i) == {x \in Revs \X Slots : line[x[1]][x[2]] # NoLine /\ line[x[1]][x[2]].item = i}

\* All that is on order of an item on released rows.
OnOrder(i) ==
    MapThenSumSet(LAMBDA x : committed[x[1]][x[2]],
                  {x \in RowsOf(i) : stage[x[1]] = "released"})

\* What revision r lists of an item.
Listed(r, i) == SumFunction([x \in {y \in RowsOf(i) : y[1] = r} |-> line[r][x[2]].qty])

Latest(r) == stage[r] = "released" /\ \A q \in Revs : q > r => stage[q] # "released"

\* The item an outcome of r is about.
About(r, o) == IF o.slot # NoSlot THEN line[r][o.slot].item ELSE line[r - 1][o.previous].item

OutcomesOn(i, r) == {x \in {r} \X outcomes[r] : About(r, x[2]) = i}

NetChange(S) == SumFunction([x \in S |-> x[2].new - x[2].before])

(* The net changes add up: the deltas of all revisions so far make exactly *)
(* the quantity the latest of them lists, in whatever order the events     *)
(* were delivered.                                                         *)
NetChangesAddUp ==
    \A r \in Revs, i \in Items :
        (\A q \in 0..r : outcomes[q] # {}) =>
            NetChange(UNION {OutcomesOn(i, q) : q \in 0..r}) = Listed(r, i)

(* The platform refuses to authorize more against a BOQ line than the      *)
(* latest released revision permits (tests/test_ceiling_properties.py).    *)
OrdersFitLatestRevision ==
    [][\A i \in Items, r \in Revs :
        (Latest(r) /\ UNCHANGED stage /\ OnOrder(i)' > OnOrder(i)) =>
            OnOrder(i)' <= Listed(r, i)]_vars
=============================================================================
