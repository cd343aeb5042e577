------------------------ MODULE MCAnalysisFreshness ------------------------
(***************************************************************************)
(* Small instances of AnalysisFreshness.                                   *)
(***************************************************************************)
EXTENDS AnalysisFreshness

CONSTANTS p1, p2

TimestampedEdits == {"stamped", "silent"}
SchedulingEdits == {"stamped", "plain"}
PlainEdits == {"plain"}
=============================================================================
