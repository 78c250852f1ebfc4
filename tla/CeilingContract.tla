--------------------------- MODULE CeilingContract ---------------------------
(***************************************************************************)
(* What the BOQ ceiling promises, without saying how: one atomic step per  *)
(* committed business transaction.                                         *)
(*                                                                         *)
(* A step may move quantity between documents and lines in any way, as     *)
(* long as no document is left holding a negative quantity and a line's    *)
(* total passes its ceiling by no more than the override quantity that the *)
(* same step puts on the record.                                           *)
(*                                                                         *)
(* CeilingTxn, the model of platform_core/services/ceiling.py with its row *)
(* locks and its read-then-write steps, implements this module.            *)
(***************************************************************************)
EXTENDS Integers

CONSTANTS
    Lines,    \* BOQ lines
    Docs,     \* documents that authorize quantity against a line
    Ceilings  \* [Lines -> Nat]: the largest quantity each line permits

VARIABLES
    committed,   \* [Lines -> Int]: quantity authorized against each line
    held,        \* [Lines -> [Docs -> Int]]: what each document holds of it
    overridden   \* [Lines -> Nat]: quantity authorized by a logged override

vars == <<committed, held, overridden>>

Larger(a, b) == IF a > b THEN a ELSE b

Init ==
    /\ committed = [l \in Lines |-> 0]
    /\ held = [l \in Lines |-> [d \in Docs |-> 0]]
    /\ overridden = [l \in Lines |-> 0]

Authorize ==
    /\ held' \in [Lines -> [Docs -> Nat]]
    /\ committed' \in [Lines -> Int]
    /\ overridden' \in [Lines -> Nat]
    /\ \A l \in Lines :
        /\ overridden'[l] >= overridden[l]
        /\ committed'[l] <= Larger(committed[l], Ceilings[l])
                              + (overridden'[l] - overridden[l])

Spec == Init /\ [][Authorize]_vars
=============================================================================
