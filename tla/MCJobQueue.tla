----------------------------- MODULE MCJobQueue -----------------------------
(***************************************************************************)
(* Small instances of JobQueue: one document (its parse and its AI         *)
(* ingestion), one analysis run and one fill plan of that run.             *)
(***************************************************************************)
EXTENDS JobQueue, TLC

DocumentTargets == {"parse", "process"}
AllTargets == {"parse", "process", "run", "plan"}

MCKindOf ==
    [t \in Targets |-> CASE t = "parse"   -> "parse_document"
                         [] t = "process" -> "process_document"
                         [] t = "run"     -> "analyze_project"
                         [] t = "plan"    -> "draft_fill_plan"]
MCBase ==
    [t \in Targets |-> CASE t = "process" -> "parse"
                         [] t = "plan"    -> "run"
                         [] OTHER         -> None]

\* Workers are interchangeable; only a run without temporal properties uses this.
WorkerSymmetry == Permutations(Workers)
=============================================================================
