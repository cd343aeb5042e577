----------------------------- MODULE MCFillPlan -----------------------------
(***************************************************************************)
(* A template of two pages for FillPlan: a place for the model on the      *)
(* first, one that a response value matches until the inputs change on the *)
(* second, and one that can be added to the first.                         *)
(***************************************************************************)
EXTENDS FillPlan

CONSTANTS f1, f2, f3

MCPageOf == [f \in {f1, f2, f3} |-> IF f = f2 THEN 2 ELSE 1]
MCMatched == [v \in 0 .. MaxInputs |-> IF v = 0 THEN {f2} ELSE {}]
=============================================================================
