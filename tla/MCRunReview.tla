---------------------------- MODULE MCRunReview ----------------------------
(***************************************************************************)
(* Small instances of RunReview: two or three clauses, one of them from an *)
(* addendum, and one place to fill in.                                     *)
(***************************************************************************)
EXTENDS RunReview
=============================================================================
