---------------------- MODULE AnalysisFreshness_proofs ----------------------
(***************************************************************************)
(* Theorems about AnalysisFreshness, for any numbers of projects, runs,    *)
(* edits, crashes and callers: FreshResults, provided that edits take the  *)
(* lock before they mark; type correctness, for every kind of edit; and    *)
(* NoRerunOfSameInputs.                                                    *)
(***************************************************************************)
EXTENDS AnalysisFreshness, SequenceTheorems, FiniteSetTheorems, TLAPS

Shown == {"COMPLETED", "NEEDS_REVIEW"}
Busy == {"claimed", "working", "finished"}
Statuses == {"DRAFT", "RUNNING", "COMPLETED", "NEEDS_REVIEW", "STALE", "FAILED"}
JobStates == {"QUEUED", "RUNNING", "COMPLETED", "FAILED", "CANCELED"}
Run == [status : Statuses, signature : Nat, basis : SUBSET Nat, job : JobStates]

(***************************************************************************)
(* The inductive invariant.  States of inputs are numbered in the order in *)
(* which they come to exist, so a run's decisions rest on states from its  *)
(* signature to now: if the two are equal at its end, all rest on now.     *)
(***************************************************************************)
GoodRun(run, now) ==
    /\ run \in Run
    /\ run.signature <= now
    /\ run.basis \subseteq run.signature .. now
    /\ run.status \in Shown => run.basis \subseteq {now}

Typed ==
    /\ inputs \in [Projects -> Nat]
    /\ versions \in Nat
    /\ \A p \in Projects : inputs[p] <= versions
    /\ runs \in [Projects -> Seq(Run)]

GoodRuns == \A r \in RunIds : GoodRun(RunAt(r), inputs[r[1]])

GoodPlan ==
    plan # None =>
        /\ plan.project \in Projects
        /\ plan.signature \in Nat
        /\ plan.signature <= inputs[plan.project]

GoodCall(call) ==
    /\ call.op \in {"none", "start", "resume"}
    /\ call.op = "start" =>
          /\ call.signature \in Nat
          /\ \A p \in call.on \cap Projects : call.signature <= inputs[p]
GoodCalls ==
    /\ calls = [c \in Callers |-> calls[c]]
    /\ \A c \in Callers : GoodCall(calls[c])

GoodWorker ==
    /\ pc \in Busy => /\ at \in RunIds
                      /\ known \subseteq RunAt(at).signature .. inputs[at[1]]
    /\ pc = "working" => RunAt(at).status \notin Shown

IInv == Typed /\ GoodRuns /\ GoodPlan /\ GoodCalls /\ GoodWorker

(***************************************************************************)
(* Runs and their names.                                                   *)
(***************************************************************************)
\* A run is named by its project and its place among the project's runs.
LEMMA RunIdFacts ==
    ASSUME Typed
    PROVE  /\ \A p \in Projects : \A i \in 1 .. Len(runs[p]) :
                 <<p, i>> \in RunIds /\ RunAt(<<p, i>>) = runs[p][i]
           /\ \A r \in RunIds :
                 /\ r[1] \in Projects
                 /\ r[2] \in 1 .. Len(runs[r[1]])
                 /\ r = <<r[1], r[2]>>
                 /\ RunAt(r) = runs[r[1]][r[2]]
                 /\ RunAt(r) \in Run
           /\ \A p \in Projects : Len(runs[p]) \in Nat
<1>1. \A p \in Projects : \A i \in 1 .. Len(runs[p]) : <<p, i>> \in RunIds
  BY DEF RunIds
<1>2. \A r \in RunIds : /\ r[1] \in Projects
                        /\ r[2] \in 1 .. Len(runs[r[1]])
                        /\ r = <<r[1], r[2]>>
  BY DEF RunIds
<1>3. \A p \in Projects : runs[p] \in Seq(Run) /\ Len(runs[p]) \in Nat
  BY LenProperties DEF Typed
<1>4. \A p \in Projects : \A i \in 1 .. Len(runs[p]) : runs[p][i] \in Run
  BY <1>3, ElementOfSeq
<1> QED
  BY <1>1, <1>2, <1>3, <1>4 DEF RunAt

\* Marking a run (mark_project_stale) keeps its signature and leaves no unmarked decision.
LEMMA MarkType ==
    ASSUME NEW run \in Run
    PROVE  /\ Mark(run) \in Run
           /\ Mark(run).status \in {"STALE", "FAILED"}
           /\ Mark(run).basis = {}
           /\ Mark(run).signature = run.signature
  BY DEF Mark, Run, Statuses, JobStates

\* A marked run stays good whatever inputs come after.
LEMMA MarkGood ==
    ASSUME NEW now \in Nat, NEW later \in Nat, now <= later,
           NEW run, GoodRun(run, now)
    PROVE  GoodRun(Mark(run), later)
<1>1. run \in Run /\ run.signature \in Nat /\ run.signature <= later
  BY DEF GoodRun, Run
<1> QED
  BY <1>1, MarkType DEF GoodRun, Shown

\* A run that was just added (schedule_analysis) has decided nothing yet.
LEMMA NewRunGood ==
    ASSUME NEW now \in Nat, NEW signature \in Nat, signature <= now
    PROVE  GoodRun(NewRun(signature), now)
<1>1. NewRun(signature) \in Run
  BY DEF NewRun, Run, Statuses, JobStates
<1> QED
  BY <1>1 DEF GoodRun, NewRun, Shown

\* A run that is replaced leaves the others as they are.
LEMMA SetRunFacts ==
    ASSUME Typed, NEW r \in RunIds, NEW run \in Run, SetRun(r, run)
    PROVE  /\ runs' \in [Projects -> Seq(Run)]
           /\ RunIds' = RunIds
           /\ \A q \in RunIds : RunAt(q)' = IF q = r THEN run ELSE RunAt(q)
<1> DEFINE p == r[1]
           s == [runs[p] EXCEPT ![r[2]] = run]
<1>1. p \in Projects /\ r[2] \in 1 .. Len(runs[p]) /\ runs[p] \in Seq(Run)
  BY RunIdFacts DEF Typed
<1>2. runs' = [runs EXCEPT ![p] = s]
  BY DEF SetRun
<1>3. s \in Seq(Run) /\ Len(s) = Len(runs[p])
  BY <1>1, ExceptSeq
<1>4. \A i \in 1 .. Len(runs[p]) : s[i] = IF i = r[2] THEN run ELSE runs[p][i]
  BY <1>1, ExceptSeq
<1> HIDE DEF s
<1>5. /\ runs' \in [Projects -> Seq(Run)]
      /\ \A q \in Projects : runs'[q] = IF q = p THEN s ELSE runs[q]
  BY <1>1, <1>2, <1>3 DEF Typed
<1>6. \A q \in Projects : Len(runs'[q]) = Len(runs[q])
  BY <1>3, <1>5
<1>7. RunIds' = RunIds
  BY <1>6 DEF RunIds
<1>8. ASSUME NEW q \in RunIds PROVE RunAt(q)' = IF q = r THEN run ELSE RunAt(q)
  <2>1. q[1] \in Projects /\ q[2] \in 1 .. Len(runs[q[1]]) /\ q = <<q[1], q[2]>> /\ r = <<r[1], r[2]>>
    BY RunIdFacts
  <2>2. RunAt(q)' = runs'[q[1]][q[2]]
    BY DEF RunAt
  <2>3. CASE q[1] = p
    BY <2>1, <2>2, <2>3, <1>4, <1>5 DEF RunAt
  <2>4. CASE q[1] # p
    BY <2>1, <2>2, <2>4, <1>5 DEF RunAt
  <2> QED
    BY <2>3, <2>4
<1> QED
  BY <1>5, <1>7, <1>8

\* Marking the runs of R changes these and no others.
LEMMA MarkedFacts ==
    ASSUME Typed, NEW R, NEW p \in Projects
    PROVE  /\ Marked(R)[p] \in Seq(Run)
           /\ Len(Marked(R)[p]) = Len(runs[p])
           /\ \A i \in 1 .. Len(runs[p]) : Marked(R)[p][i] =
                 IF <<p, i>> \in R THEN Mark(runs[p][i]) ELSE runs[p][i]
<1> DEFINE s == [i \in 1 .. Len(runs[p]) |->
                    IF <<p, i>> \in R THEN Mark(runs[p][i]) ELSE runs[p][i]]
<1>1. Marked(R)[p] = s
  BY DEF Marked
<1>2. Len(runs[p]) \in Nat /\ \A i \in 1 .. Len(runs[p]) : runs[p][i] \in Run
  BY RunIdFacts
<1>3. \A i \in 1 .. Len(runs[p]) : Mark(runs[p][i]) \in Run
  BY <1>2, MarkType
<1>4. s \in [1 .. Len(runs[p]) -> Run]
  BY <1>2, <1>3
<1>5. s \in Seq(Run) /\ Len(s) = Len(runs[p])
  <2> HIDE DEF s
  <2>1. s \in Seq(Run)
    BY <1>2, <1>4, SeqDef
  <2> QED
    BY <2>1, <1>2, <1>4, LenProperties
<1> QED
  BY <1>1, <1>5

\* What appending a run does to the runs of a project.
LEMMA AppendFacts ==
    ASSUME NEW s \in Seq(Run), NEW run \in Run
    PROVE  /\ Append(s, run) \in Seq(Run)
           /\ Len(Append(s, run)) = Len(s) + 1
           /\ Append(s, run)[Len(s) + 1] = run
           /\ \A i \in 1 .. Len(s) : Append(s, run)[i] = s[i]
  BY AppendProperties

\* The run schedule_analysis adds is a run.
LEMMA NewRunType ==
    ASSUME NEW signature \in Nat
    PROVE  NewRun(signature) \in Run
  BY DEF NewRun, Run, Statuses, JobStates

\* The run ids there are once the runs of some projects have become more.
LEMMA LongerRuns ==
    ASSUME Typed, runs' \in [Projects -> Seq(Run)],
           \A p \in Projects : Len(runs[p]) <= Len(runs'[p])
    PROVE  /\ RunIds \subseteq RunIds'
           /\ \A q \in RunIds' :
                 /\ q[1] \in Projects
                 /\ q[2] \in 1 .. Len(runs'[q[1]])
                 /\ q = <<q[1], q[2]>>
                 /\ RunAt(q)' = runs'[q[1]][q[2]]
                 /\ q[2] \in 1 .. Len(runs[q[1]]) => q \in RunIds
<1>1. \A p \in Projects : Len(runs[p]) \in Nat /\ Len(runs'[p]) \in Nat
  BY RunIdFacts, LenProperties
<1>2. \A p \in Projects : 1 .. Len(runs[p]) \subseteq 1 .. Len(runs'[p])
  BY <1>1
<1>3. RunIds' = UNION {{<<p, i>> : i \in 1 .. Len(runs'[p])} : p \in Projects}
  BY DEF RunIds
<1>4. RunIds \subseteq RunIds'
  BY <1>2, <1>3 DEF RunIds
<1>5. \A q \in RunIds' : /\ q[1] \in Projects
                         /\ q[2] \in 1 .. Len(runs'[q[1]])
                         /\ q = <<q[1], q[2]>>
  BY <1>3
<1> QED
  BY <1>4, <1>5, RunIdFacts DEF RunAt

\* Scheduling an analysis adds one run to its project and leaves all others alone.
LEMMA InsertFacts ==
    ASSUME Typed, NEW p \in Projects, NEW signature \in Nat, Insert(p, signature)
    PROVE  /\ runs' \in [Projects -> Seq(Run)]
           /\ RunIds \subseteq RunIds'
           /\ \A q \in RunIds : RunAt(q)' = RunAt(q)
           /\ \A q \in RunIds' \ RunIds : q[1] = p /\ RunAt(q)' = NewRun(signature)
           /\ \A q \in Projects : Len(runs'[q]) =
                 IF q = p THEN Len(runs[q]) + 1 ELSE Len(runs[q])
           /\ RunIds' \ RunIds = {<<p, Len(runs[p]) + 1>>}
<1> DEFINE s == Append(runs[p], NewRun(signature))
<1>1. runs[p] \in Seq(Run) /\ Len(runs[p]) \in Nat
  BY RunIdFacts DEF Typed
<1>2. /\ s \in Seq(Run) /\ Len(s) = Len(runs[p]) + 1
      /\ s[Len(runs[p]) + 1] = NewRun(signature)
      /\ \A i \in 1 .. Len(runs[p]) : s[i] = runs[p][i]
  BY <1>1, NewRunType, AppendFacts
<1>3. runs' = [runs EXCEPT ![p] = s]
  BY DEF Insert
<1> HIDE DEF s
<1>4. /\ runs' \in [Projects -> Seq(Run)]
      /\ \A q \in Projects : runs'[q] = IF q = p THEN s ELSE runs[q]
  BY <1>2, <1>3 DEF Typed
<1>5. \A q \in Projects : Len(runs[q]) <= Len(runs'[q])
  BY <1>1, <1>2, <1>4, RunIdFacts
<1>6. \A q \in RunIds : RunAt(q)' = RunAt(q)
  BY <1>2, <1>4, RunIdFacts DEF RunAt
<1>7. ASSUME NEW q \in RunIds' \ RunIds
      PROVE  q[1] = p /\ RunAt(q)' = NewRun(signature)
  <2>1. /\ q[1] \in Projects /\ q[2] \in 1 .. Len(runs'[q[1]])
        /\ q[2] \notin 1 .. Len(runs[q[1]])
        /\ RunAt(q)' = runs'[q[1]][q[2]]
    BY <1>4, <1>5, LongerRuns
  <2>2. q[1] = p
    BY <2>1, <1>4
  <2>3. q[2] = Len(runs[p]) + 1
    BY <2>1, <2>2, <1>1, <1>2, <1>4
  <2> QED
    BY <2>1, <2>2, <2>3, <1>2, <1>4
<1>8. RunIds' \ RunIds = {<<p, Len(runs[p]) + 1>>}
  <2>1. ASSUME NEW q \in RunIds' \ RunIds PROVE q = <<p, Len(runs[p]) + 1>>
    <3>1. /\ q[1] = p /\ q[2] \in 1 .. Len(runs'[p]) /\ q = <<q[1], q[2]>>
          /\ q[2] \notin 1 .. Len(runs[p])
      BY <1>4, <1>5, <1>7, LongerRuns
    <3> QED
      BY <3>1, <1>1, <1>2, <1>4
  <2>2. Len(runs[p]) + 1 \in 1 .. Len(runs'[p]) /\ Len(runs[p]) + 1 \notin 1 .. Len(runs[p])
    BY <1>1, <1>2, <1>4
  <2>3. <<p, Len(runs[p]) + 1>> \in RunIds' \ RunIds
    BY <2>2, RunIdFacts DEF RunIds
  <2> QED
    BY <2>1, <2>3
<1>9. \A q \in Projects : Len(runs'[q]) = IF q = p THEN Len(runs[q]) + 1 ELSE Len(runs[q])
  BY <1>2, <1>4
<1> QED
  BY <1>4, <1>5, <1>6, <1>7, <1>8, <1>9, LongerRuns

\* The projects an edit schedules an analysis for.
ToSchedule(S, signatures) == {p \in S \cap AutoAnalyze : NeedsAnalysis(p, signatures[p])}

\* An edit marks the runs it has selected, adds one run to each project it schedules,
\* and leaves all others alone.
LEMMA ScheduleFacts ==
    ASSUME Typed, NEW R, NEW S \in SUBSET Projects, NEW signatures \in [Projects -> Nat],
           MarkAndSchedule(R, S, signatures)
    PROVE  /\ runs' \in [Projects -> Seq(Run)]
           /\ RunIds \subseteq RunIds'
           /\ \A q \in RunIds : RunAt(q)' = IF q \in R THEN Mark(RunAt(q)) ELSE RunAt(q)
           /\ \A q \in RunIds' \ RunIds :
                 q[1] \in Projects /\ RunAt(q)' = NewRun(signatures[q[1]])
           /\ \A p \in Projects : Len(runs'[p]) =
                 IF p \in ToSchedule(S, signatures) THEN Len(runs[p]) + 1 ELSE Len(runs[p])
           /\ RunIds' \ RunIds = {<<p, Len(runs[p]) + 1>> : p \in ToSchedule(S, signatures)}
<1> PICK scheduled \in SUBSET Projects : scheduled = ToSchedule(S, signatures)
  BY DEF ToSchedule
<1>1. runs' = [p \in Projects |->
          IF p \in scheduled THEN Append(Marked(R)[p], NewRun(signatures[p]))
                             ELSE Marked(R)[p]]
  BY DEF MarkAndSchedule, Marked, ToSchedule
<1>2. ASSUME NEW p \in Projects
      PROVE  /\ runs'[p] \in Seq(Run)
             /\ Len(runs'[p]) = IF p \in scheduled THEN Len(runs[p]) + 1 ELSE Len(runs[p])
             /\ p \in scheduled => runs'[p][Len(runs[p]) + 1] = NewRun(signatures[p])
             /\ \A i \in 1 .. Len(runs[p]) : runs'[p][i] =
                   IF <<p, i>> \in R THEN Mark(runs[p][i]) ELSE runs[p][i]
  <2> DEFINE s == Marked(R)[p]
             run == NewRun(signatures[p])
  <2>1. runs'[p] = IF p \in scheduled THEN Append(s, run) ELSE s
    BY <1>1
  <2>2. run \in Run /\ Len(runs[p]) \in Nat
    BY NewRunType, RunIdFacts
  <2>3. /\ s \in Seq(Run) /\ Len(s) = Len(runs[p])
        /\ \A i \in 1 .. Len(runs[p]) : s[i] =
              IF <<p, i>> \in R THEN Mark(runs[p][i]) ELSE runs[p][i]
    BY MarkedFacts
  <2> HIDE DEF s, run
  <2>4. /\ Append(s, run) \in Seq(Run)
        /\ Len(Append(s, run)) = Len(s) + 1
        /\ Append(s, run)[Len(s) + 1] = run
        /\ \A i \in 1 .. Len(s) : Append(s, run)[i] = s[i]
    BY <2>2, <2>3, AppendFacts
  <2>5. CASE p \in scheduled
    BY <2>1, <2>3, <2>4, <2>5 DEF run
  <2>6. CASE p \notin scheduled
    BY <2>1, <2>3, <2>6
  <2> QED
    BY <2>5, <2>6
<1>3. runs' \in [Projects -> Seq(Run)]
  BY <1>1, <1>2
<1>4. \A p \in Projects : Len(runs[p]) \in Nat /\ Len(runs[p]) <= Len(runs'[p])
  BY <1>2, RunIdFacts
<1>5. ASSUME NEW q \in RunIds
      PROVE  RunAt(q)' = IF q \in R THEN Mark(RunAt(q)) ELSE RunAt(q)
  <2>1. q[1] \in Projects /\ q[2] \in 1 .. Len(runs[q[1]]) /\ q = <<q[1], q[2]>>
    BY RunIdFacts
  <2> QED
    BY <2>1, <1>2 DEF RunAt
<1>6. ASSUME NEW q \in RunIds' \ RunIds
      PROVE  q[1] \in Projects /\ RunAt(q)' = NewRun(signatures[q[1]])
  <2>1. /\ q[1] \in Projects /\ q[2] \in 1 .. Len(runs'[q[1]])
        /\ q[2] \notin 1 .. Len(runs[q[1]])
        /\ RunAt(q)' = runs'[q[1]][q[2]]
    BY <1>3, <1>4, LongerRuns
  <2>2. /\ Len(runs[q[1]]) \in Nat
        /\ Len(runs'[q[1]]) = IF q[1] \in scheduled THEN Len(runs[q[1]]) + 1
                                                    ELSE Len(runs[q[1]])
    BY <2>1, <1>2, <1>4
  <2>3. q[1] \in scheduled /\ q[2] = Len(runs[q[1]]) + 1
    BY <2>1, <2>2
  <2> QED
    BY <2>1, <2>3, <1>2
<1>7. RunIds' \ RunIds = {<<p, Len(runs[p]) + 1>> : p \in scheduled}
  <2>1. ASSUME NEW q \in RunIds' \ RunIds
        PROVE  q \in {<<p, Len(runs[p]) + 1>> : p \in scheduled}
    <3>1. /\ q[1] \in Projects /\ q[2] \in 1 .. Len(runs'[q[1]])
          /\ q[2] \notin 1 .. Len(runs[q[1]]) /\ q = <<q[1], q[2]>>
      BY <1>3, <1>4, LongerRuns
    <3>2. /\ Len(runs[q[1]]) \in Nat
          /\ Len(runs'[q[1]]) = IF q[1] \in scheduled THEN Len(runs[q[1]]) + 1
                                                      ELSE Len(runs[q[1]])
      BY <3>1, <1>2, <1>4
    <3>3. q[1] \in scheduled /\ q[2] = Len(runs[q[1]]) + 1
      BY <3>1, <3>2
    <3> QED
      BY <3>1, <3>3
  <2>2. ASSUME NEW p \in scheduled
        PROVE  <<p, Len(runs[p]) + 1>> \in RunIds' \ RunIds
    <3>1. Len(runs[p]) \in Nat /\ Len(runs'[p]) = Len(runs[p]) + 1
      BY <1>2, <1>4
    <3>2. Len(runs[p]) + 1 \in 1 .. Len(runs'[p]) /\ Len(runs[p]) + 1 \notin 1 .. Len(runs[p])
      BY <3>1
    <3>3. <<p, Len(runs[p]) + 1>> \in RunIds'
      BY <3>2 DEF RunIds
    <3>4. <<p, Len(runs[p]) + 1>> \notin RunIds
      BY <3>2, RunIdFacts
    <3> QED
      BY <3>3, <3>4
  <2> QED
    BY <2>1, <2>2
<1> QED
  BY <1>2, <1>3, <1>4, <1>5, <1>6, <1>7, LongerRuns

\* An edit that holds the write lock marks the markable runs of its projects and
\* adds runs on the new inputs only.
LEMMA EditFacts ==
    ASSUME Typed, NEW P \in SUBSET Projects, NEW kind, LockedEdit(P, kind),
           inputs' \in [Projects -> Nat]
    PROVE  /\ runs' \in [Projects -> Seq(Run)]
           /\ RunIds \subseteq RunIds'
           /\ \A q \in RunIds : RunAt(q)' =
                 IF q \in Markable(P) THEN Mark(RunAt(q)) ELSE RunAt(q)
           /\ \A q \in RunIds' \ RunIds :
                 q[1] \in Projects /\ RunAt(q)' = NewRun(inputs'[q[1]])
<1> PICK R : R = Markable(P)
  OBVIOUS
<1> PICK signatures \in [Projects -> Nat] : signatures = inputs'
  OBVIOUS
<1> PICK S \in SUBSET Projects : S = IF kind = "stamped" THEN P ELSE {}
  OBVIOUS
<1>1. MarkAndSchedule(R, S, signatures)
  BY DEF LockedEdit
<1> QED
  BY <1>1, ScheduleFacts

\* A starting worker fails the runs whose jobs were running, and no others.
LEMMA BootFacts ==
    ASSUME Typed, Boot
    PROVE  /\ runs' \in [Projects -> Seq(Run)]
           /\ RunIds' = RunIds
           /\ \A q \in RunIds : RunAt(q)' =
                 IF RunAt(q).job = "RUNNING" THEN Fail(RunAt(q)) ELSE RunAt(q)
<1> DEFINE New(run) == IF run.job = "RUNNING" THEN Fail(run) ELSE run
           s(p) == [i \in 1 .. Len(runs[p]) |-> New(runs[p][i])]
<1>1. runs' = [p \in Projects |-> s(p)]
  BY DEF Boot
<1>2. \A run \in Run : New(run) \in Run
  BY DEF Fail, Run, Statuses, JobStates
<1>3. ASSUME NEW p \in Projects
      PROVE  s(p) \in Seq(Run) /\ Len(s(p)) = Len(runs[p])
  <2>1. Len(runs[p]) \in Nat /\ \A i \in 1 .. Len(runs[p]) : runs[p][i] \in Run
    BY RunIdFacts
  <2>2. s(p) \in [1 .. Len(runs[p]) -> Run]
    BY <1>2, <2>1
  <2> HIDE DEF s
  <2>3. s(p) \in Seq(Run)
    BY <2>1, <2>2, SeqDef
  <2> QED
    BY <2>1, <2>2, <2>3, LenProperties
<1>4. runs' \in [Projects -> Seq(Run)]
  <2> HIDE DEF s
  <2> QED
    BY <1>1, <1>3
<1>5. \A p \in Projects : Len(runs'[p]) = Len(runs[p])
  <2> HIDE DEF s
  <2> QED
    BY <1>1, <1>3
<1>6. RunIds' = RunIds
  BY <1>5 DEF RunIds
<1>7. \A q \in RunIds : RunAt(q)' = New(RunAt(q))
  BY <1>1, RunIdFacts DEF RunAt
<1> QED
  BY <1>4, <1>6, <1>7

\* The end of an analysis whose inputs have changed marks all runs.
LEMMA OutdatedFacts ==
    ASSUME Typed, NEW R, NEW r \in RunIds, NEW run \in Run,
           runs' = [Marked(R) EXCEPT ![r[1]][r[2]] = run]
    PROVE  /\ runs' \in [Projects -> Seq(Run)]
           /\ RunIds' = RunIds
           /\ \A q \in RunIds : RunAt(q)' = IF q = r THEN run
                                            ELSE IF q \in R THEN Mark(RunAt(q))
                                            ELSE RunAt(q)
<1> DEFINE p == r[1]
           m == Marked(R)
           s == [m[p] EXCEPT ![r[2]] = run]
<1>1. p \in Projects /\ r[2] \in 1 .. Len(runs[p]) /\ r = <<r[1], r[2]>>
  BY RunIdFacts
<1>2. m = [q \in Projects |-> m[q]]
  BY DEF Marked
<1>3. \A q \in Projects :
         /\ m[q] \in Seq(Run) /\ Len(m[q]) = Len(runs[q])
         /\ \A i \in 1 .. Len(runs[q]) : m[q][i] =
               IF <<q, i>> \in R THEN Mark(runs[q][i]) ELSE runs[q][i]
  BY MarkedFacts
<1>4. runs' = [m EXCEPT ![p] = s]
  OBVIOUS
<1> HIDE DEF m
<1>5. /\ s \in Seq(Run) /\ Len(s) = Len(runs[p])
      /\ \A i \in 1 .. Len(runs[p]) : s[i] = IF i = r[2] THEN run ELSE m[p][i]
  BY <1>1, <1>3, ExceptSeq
<1> HIDE DEF s
<1>6. \A q \in Projects : runs'[q] = IF q = p THEN s ELSE m[q]
  BY <1>1, <1>2, <1>4
<1>7. runs' \in [Projects -> Seq(Run)]
  BY <1>2, <1>3, <1>4, <1>5
<1>8. RunIds' = RunIds
  <2>1. \A q \in Projects : Len(runs'[q]) = Len(runs[q])
    BY <1>3, <1>5, <1>6
  <2> QED
    BY <2>1 DEF RunIds
<1>9. ASSUME NEW q \in RunIds
      PROVE  RunAt(q)' = IF q = r THEN run
                         ELSE IF q \in R THEN Mark(RunAt(q)) ELSE RunAt(q)
  <2>1. q[1] \in Projects /\ q[2] \in 1 .. Len(runs[q[1]]) /\ q = <<q[1], q[2]>>
    BY RunIdFacts
  <2>2. RunAt(q)' = runs'[q[1]][q[2]] /\ RunAt(q) = runs[q[1]][q[2]]
    BY DEF RunAt
  <2>3. CASE q[1] = p
    <3>1. RunAt(q)' = IF q[2] = r[2] THEN run ELSE m[p][q[2]]
      BY <2>1, <2>2, <2>3, <1>5, <1>6
    <3>2. q[2] = r[2] <=> q = r
      BY <2>1, <2>3, <1>1
    <3> QED
      BY <3>1, <3>2, <2>1, <2>2, <2>3, <1>3
  <2>4. CASE q[1] # p
    BY <2>1, <2>2, <2>4, <1>3, <1>6
  <2> QED
    BY <2>3, <2>4
<1> QED
  BY <1>7, <1>8, <1>9

(***************************************************************************)
(* The queue: sequences that hold nothing twice.                           *)
(***************************************************************************)
\* No run waits twice in the queue.
Once(s) == \A i, j \in 1 .. Len(s) : s[i] = s[j] => i = j

\* What a sequence holds, by position.
LEMMA Elements ==
    ASSUME NEW S, NEW s \in Seq(S)
    PROVE  ToSet(s) = {s[i] : i \in 1 .. Len(s)} /\ Len(s) \in Nat
  BY LenProperties DEF ToSet

\* Who takes the head of the queue leaves everything else in it (claim_job).
LEMMA TailOnce ==
    ASSUME NEW S, NEW s \in Seq(S), s # <<>>, Once(s)
    PROVE  /\ Tail(s) \in Seq(S) /\ Once(Tail(s))
           /\ ToSet(Tail(s)) = ToSet(s) \ {Head(s)}
<1> DEFINE t == Tail(s)
<1>1. Len(s) \in Nat \ {0} /\ ToSet(s) = {s[i] : i \in 1 .. Len(s)} /\ Head(s) = s[1]
  BY Elements, EmptySeq
<1>2. /\ t \in Seq(S) /\ Len(t) = Len(s) - 1
      /\ \A i \in 1 .. Len(t) : t[i] = s[i + 1]
  BY HeadTailProperties
<1> HIDE DEF t
<1>3. ToSet(t) = {t[i] : i \in 1 .. Len(t)}
  BY <1>2, Elements
<1>4. Once(t)
  BY <1>1, <1>2 DEF Once
<1>5. ASSUME NEW e PROVE e \in ToSet(t) <=> e \in ToSet(s) /\ e # s[1]
  <2>1. ASSUME e \in ToSet(t) PROVE e \in ToSet(s) /\ e # s[1]
    <3>1. PICK i \in 1 .. Len(t) : e = t[i]
      BY <2>1, <1>3
    <3>2. i + 1 \in 1 .. Len(s) /\ 1 \in 1 .. Len(s) /\ e = s[i + 1] /\ i + 1 # 1
      BY <3>1, <1>1, <1>2
    <3> QED
      BY <3>2, <1>1 DEF Once
  <2>2. ASSUME e \in ToSet(s), e # s[1] PROVE e \in ToSet(t)
    <3>1. PICK i \in 1 .. Len(s) : e = s[i]
      BY <2>2, <1>1
    <3>2. i - 1 \in 1 .. Len(t) /\ e = t[i - 1]
      BY <3>1, <2>2, <1>1, <1>2
    <3> QED
      BY <3>2, <1>3
  <2> QED
    BY <2>1, <2>2
<1> QED
  BY <1>1, <1>2, <1>4, <1>5 DEF t

\* Two queues that share nothing make one that holds nothing twice.
LEMMA ConcatOnce ==
    ASSUME NEW S, NEW s \in Seq(S), NEW t \in Seq(S), Once(s), Once(t),
           ToSet(s) \cap ToSet(t) = {}
    PROVE  /\ s \o t \in Seq(S) /\ Once(s \o t)
           /\ ToSet(s \o t) = ToSet(s) \cup ToSet(t)
<1> DEFINE u == s \o t
<1>1. /\ ToSet(s) = {s[i] : i \in 1 .. Len(s)} /\ Len(s) \in Nat
      /\ ToSet(t) = {t[i] : i \in 1 .. Len(t)} /\ Len(t) \in Nat
  BY Elements
<1>2. /\ u \in Seq(S) /\ Len(u) = Len(s) + Len(t)
      /\ \A i \in 1 .. Len(s) + Len(t) : u[i] = IF i <= Len(s) THEN s[i] ELSE t[i - Len(s)]
  BY ConcatProperties
<1> HIDE DEF u
<1>3. ToSet(u) = {u[i] : i \in 1 .. Len(u)}
  BY <1>2, Elements
<1>4. /\ \A i \in 1 .. Len(s) : i \in 1 .. Len(u) /\ u[i] = s[i]
      /\ \A i \in 1 .. Len(t) : i + Len(s) \in 1 .. Len(u) /\ u[i + Len(s)] = t[i]
  <2>1. \A i \in 1 .. Len(s) : i \in 1 .. Len(u) /\ u[i] = s[i]
    BY <1>1, <1>2
  <2>2. ASSUME NEW i \in 1 .. Len(t)
        PROVE  i + Len(s) \in 1 .. Len(u) /\ u[i + Len(s)] = t[i]
    <3>1. /\ i + Len(s) \in 1 .. Len(s) + Len(t) /\ ~(i + Len(s) <= Len(s))
          /\ (i + Len(s)) - Len(s) = i
      BY <1>1
    <3> QED
      BY <3>1, <1>2
  <2> QED
    BY <2>1, <2>2
<1>5. \A i \in 1 .. Len(u) : \/ i \in 1 .. Len(s) /\ u[i] = s[i]
                             \/ i - Len(s) \in 1 .. Len(t) /\ u[i] = t[i - Len(s)]
  BY <1>1, <1>2
<1>6. ToSet(u) = ToSet(s) \cup ToSet(t)
  <2>1. ASSUME NEW i \in 1 .. Len(u) PROVE u[i] \in ToSet(s) \cup ToSet(t)
    BY <1>1, <1>5
  <2>2. ASSUME NEW i \in 1 .. Len(s) PROVE s[i] \in ToSet(u)
    BY <1>3, <1>4
  <2>3. ASSUME NEW i \in 1 .. Len(t) PROVE t[i] \in ToSet(u)
    BY <1>3, <1>4
  <2> QED
    BY <2>1, <2>2, <2>3, <1>1, <1>3
<1>7. ASSUME NEW i \in 1 .. Len(u), NEW j \in 1 .. Len(u), u[i] = u[j]
      PROVE  i = j
  <2>1. CASE i \in 1 .. Len(s) /\ j \in 1 .. Len(s)
    BY <2>1, <1>4, <1>7 DEF Once
  <2>2. CASE i \notin 1 .. Len(s) /\ j \notin 1 .. Len(s)
    <3>1. /\ i - Len(s) \in 1 .. Len(t) /\ j - Len(s) \in 1 .. Len(t)
          /\ t[i - Len(s)] = t[j - Len(s)]
      BY <2>2, <1>5, <1>7
    <3>2. i - Len(s) = j - Len(s)
      BY <3>1 DEF Once
    <3> QED
      BY <3>2, <1>1, <1>2
  <2>3. CASE i \in 1 .. Len(s) /\ j \notin 1 .. Len(s)
    BY <2>3, <1>1, <1>4, <1>5, <1>7
  <2>4. CASE i \notin 1 .. Len(s) /\ j \in 1 .. Len(s)
    BY <2>4, <1>1, <1>4, <1>5, <1>7
  <2> QED
    BY <2>1, <2>2, <2>3, <2>4
<1>8. Once(u)
  BY <1>7 DEF Once
<1> QED
  BY <1>2, <1>6, <1>8 DEF u

\* A run is queued behind the others (enqueue).
LEMMA AppendOnce ==
    ASSUME NEW S, NEW s \in Seq(S), NEW e \in S, Once(s), e \notin ToSet(s)
    PROVE  /\ Append(s, e) \in Seq(S) /\ Once(Append(s, e))
           /\ ToSet(Append(s, e)) = ToSet(s) \cup {e}
<1> DEFINE t == <<e>>
<1>1. t \in Seq(S) /\ Once(t) /\ ToSet(t) = {e}
  BY DEF Once, ToSet
<1>2. Append(s, e) = s \o t
  BY AppendIsConcat
<1> HIDE DEF t
<1>3. ToSet(s) \cap ToSet(t) = {}
  BY <1>1
<1>4. /\ s \o t \in Seq(S) /\ Once(s \o t)
      /\ ToSet(s \o t) = ToSet(s) \cup ToSet(t)
  BY <1>1, <1>3, ConcatOnce
<1> QED
  BY <1>1, <1>2, <1>4

\* A canceled run leaves the queue and nothing else does (request_cancel).
LEMMA RemoveOnce ==
    ASSUME NEW S, NEW s \in Seq(S), Once(s), NEW k \in 1 .. Len(s)
    PROVE  /\ RemoveAt(s, k) \in Seq(S) /\ Once(RemoveAt(s, k))
           /\ ToSet(RemoveAt(s, k)) = ToSet(s) \ {s[k]}
<1> DEFINE a == SubSeq(s, 1, k - 1)
           b == SubSeq(s, k + 1, Len(s))
<1>1. /\ ToSet(s) = {s[i] : i \in 1 .. Len(s)} /\ Len(s) \in Nat /\ k \in Nat
      /\ \A i \in 1 .. Len(s) : s[i] \in S
  BY Elements, ElementOfSeq
<1>2. /\ a \in Seq(S) /\ Len(a) = k - 1
      /\ \A i \in 1 .. k - 1 : a[i] = s[i]
  <2>1. 1 \in Int /\ k - 1 \in Int /\ \A i \in 1 .. k - 1 : s[i] \in S
    BY <1>1
  <2> QED
    BY <2>1, <1>1, SubSeqProperties
<1>3. /\ b \in Seq(S) /\ Len(b) = Len(s) - k
      /\ \A i \in 1 .. Len(s) - k : b[i] = s[k + i]
  <2>1. k + 1 \in Int /\ Len(s) \in Int /\ \A i \in k + 1 .. Len(s) : s[i] \in S
    BY <1>1
  <2>2. /\ b \in Seq(S)
        /\ Len(b) = IF k + 1 <= Len(s) THEN Len(s) - (k + 1) + 1 ELSE 0
        /\ \A i \in 1 .. Len(s) - (k + 1) + 1 : b[i] = s[(k + 1) + i - 1]
    BY <2>1, SubSeqProperties
  <2> QED
    BY <2>2, <1>1
<1> HIDE DEF a, b
<1>4. /\ ToSet(a) = {a[i] : i \in 1 .. Len(a)} /\ ToSet(b) = {b[i] : i \in 1 .. Len(b)}
  BY <1>2, <1>3, Elements
<1>5. \A e : e \in ToSet(a) <=> \E i \in 1 .. Len(s) : i < k /\ e = s[i]
  BY <1>1, <1>2, <1>4
<1>6. \A e : e \in ToSet(b) <=> \E i \in 1 .. Len(s) : i > k /\ e = s[i]
  <2>1. ASSUME NEW e \in ToSet(b) PROVE \E i \in 1 .. Len(s) : i > k /\ e = s[i]
    <3>1. PICK i \in 1 .. Len(b) : e = b[i]
      BY <1>4
    <3>2. k + i \in 1 .. Len(s) /\ k + i > k /\ e = s[k + i]
      BY <3>1, <1>1, <1>3
    <3> QED
      BY <3>2
  <2>2. ASSUME NEW i \in 1 .. Len(s), i > k PROVE s[i] \in ToSet(b)
    <3>1. i - k \in 1 .. Len(b) /\ b[i - k] = s[i]
      BY <2>2, <1>1, <1>3
    <3> QED
      BY <3>1, <1>4
  <2> QED
    BY <2>1, <2>2
<1>7. ToSet(a) \cap ToSet(b) = {}
  BY <1>1, <1>5, <1>6 DEF Once
<1>8. Once(a) /\ Once(b)
  <2>1. Once(a)
    BY <1>1, <1>2 DEF Once
  <2>2. ASSUME NEW i \in 1 .. Len(b), NEW j \in 1 .. Len(b), b[i] = b[j] PROVE i = j
    <3>1. k + i \in 1 .. Len(s) /\ k + j \in 1 .. Len(s) /\ s[k + i] = s[k + j]
      BY <2>2, <1>1, <1>3
    <3>2. k + i = k + j
      BY <3>1 DEF Once
    <3> QED
      BY <3>2, <1>1, <1>3
  <2> QED
    BY <2>1, <2>2 DEF Once
<1>9. RemoveAt(s, k) = a \o b
  BY DEF RemoveAt, a, b
<1>10. ToSet(a) \cup ToSet(b) = ToSet(s) \ {s[k]}
  <2>1. ASSUME NEW e PROVE e \in ToSet(a) \cup ToSet(b) <=> e \in ToSet(s) \ {s[k]}
    <3>1. \A i \in 1 .. Len(s) : i < k \/ i > k <=> s[i] # s[k]
      BY <1>1 DEF Once
    <3> QED
      BY <3>1, <1>1, <1>5, <1>6
  <2> QED
    BY <2>1
<1> QED
  BY <1>2, <1>3, <1>7, <1>8, <1>9, <1>10, ConcatOnce

\* An order of a finite set holds each of its elements once.
LEMMA OrderFacts ==
    ASSUME NEW S, IsFiniteSet(S), NEW order \in SetToSeqs(S)
    PROVE  order \in Seq(S) /\ Once(order) /\ ToSet(order) = S
<1> DEFINE n == Cardinality(S)
<1>1. n \in Nat /\ order \in [1 .. n -> S]
      /\ \A i, j \in 1 .. n : i # j => order[i] # order[j]
  BY FS_CardinalityType DEF SetToSeqs
<1> HIDE DEF n
<1>2. order \in Seq(S) /\ Len(order) = n
  <2>1. order \in Seq(S)
    BY <1>1, SeqDef
  <2> QED
    BY <2>1, <1>1, LenProperties
<1>3. Once(order)
  BY <1>1, <1>2 DEF Once
<1>4. order \in Injection(1 .. n, S)
  BY <1>1 DEF Injection, IsInjective
<1>5. IsFiniteSet(1 .. n) /\ Cardinality(1 .. n) = n
  BY <1>1, FS_Interval
<1>6. order \in Surjection(1 .. n, S)
  BY <1>4, <1>5, FS_Injection DEF n
<1>7. \A e \in S : \E i \in 1 .. n : order[i] = e
  BY <1>6 DEF Surjection
<1>8. ToSet(order) = {order[i] : i \in 1 .. n}
  BY <1>2, Elements
<1>9. \A i \in 1 .. n : order[i] \in S
  BY <1>1
<1> QED
  BY <1>2, <1>3, <1>7, <1>8, <1>9

(***************************************************************************)
(* What most steps leave alone.                                            *)
(***************************************************************************)
\* What the worker knows stays right while its run keeps its signature, does not
\* become shown, and inputs only move on.
LEMMA WorkerFrame ==
    ASSUME IInv, Typed', UNCHANGED <<pc, at, known>>, RunIds \subseteq RunIds',
           \A p \in Projects : inputs[p] <= inputs'[p],
           \A q \in RunIds :
              /\ RunAt(q)'.signature = RunAt(q).signature
              /\ RunAt(q)'.status \in Shown => RunAt(q).status \in Shown
    PROVE  GoodWorker'
<1>1. CASE pc \in Busy
  <2>1. at \in RunIds /\ at[1] \in Projects /\ RunAt(at) \in Run
    BY <1>1, RunIdFacts DEF IInv, GoodWorker
  <2>2. /\ inputs[at[1]] \in Nat /\ inputs'[at[1]] \in Nat
        /\ inputs[at[1]] <= inputs'[at[1]] /\ RunAt(at).signature \in Nat
    BY <2>1 DEF IInv, Typed, Run
  <2>3. RunAt(at).signature .. inputs[at[1]] \subseteq RunAt(at).signature .. inputs'[at[1]]
    BY <2>2
  <2>4. known' \subseteq RunAt(at)'.signature .. inputs'[at'[1]] /\ at' \in RunIds'
    BY <1>1, <2>1, <2>3 DEF IInv, GoodWorker, RunAt
  <2>5. pc' = "working" => RunAt(at)'.status \notin Shown
    BY <1>1, <2>1 DEF IInv, GoodWorker, RunAt
  <2> QED
    BY <2>4, <2>5 DEF GoodWorker
<1>2. CASE pc \notin Busy
  BY <1>2 DEF GoodWorker, Busy
<1> QED
  BY <1>1, <1>2

\* The worker's pending plan stays right while inputs only move on.
LEMMA PlanFrame ==
    ASSUME IInv, Typed', UNCHANGED plan, \A p \in Projects : inputs[p] <= inputs'[p]
    PROVE  GoodPlan'
<1>1. CASE plan = None
  BY <1>1 DEF GoodPlan
<1>2. CASE plan # None
  <2>1. /\ inputs[plan.project] \in Nat /\ inputs'[plan.project] \in Nat
        /\ plan.signature \in Nat /\ plan.project \in Projects
        /\ plan.signature <= inputs[plan.project]
        /\ inputs[plan.project] <= inputs'[plan.project]
    BY <1>2 DEF IInv, GoodPlan, Typed
  <2> QED
    BY <2>1 DEF GoodPlan
<1> QED
  BY <1>1, <1>2

\* A pending call stays right while inputs only move on.
LEMMA CallFrame ==
    ASSUME IInv, Typed', \A p \in Projects : inputs[p] <= inputs'[p],
           NEW call, GoodCall(call)
    PROVE  GoodCall(call)'
<1>1. ASSUME call.op = "start", NEW p \in call.on \cap Projects
      PROVE  call.signature <= inputs'[p]
  <2>1. /\ inputs[p] \in Nat /\ inputs'[p] \in Nat /\ call.signature \in Nat
        /\ call.signature <= inputs[p] /\ inputs[p] <= inputs'[p]
    BY <1>1 DEF IInv, Typed, GoodCall
  <2> QED
    BY <2>1
<1> QED
  BY <1>1 DEF GoodCall

\* All pending calls stay right while inputs only move on.
LEMMA CallsFrame ==
    ASSUME IInv, Typed', UNCHANGED calls, \A p \in Projects : inputs[p] <= inputs'[p]
    PROVE  GoodCalls'
<1>1. \A c \in Callers : GoodCall(calls[c])
  BY DEF IInv, GoodCalls
<1>2. ASSUME NEW c \in Callers
      PROVE  GoodCall(calls[c])'
  BY <1>1, CallFrame DEF GoodCall
<1> QED
  BY <1>2 DEF IInv, GoodCalls

\* One call changes while the inputs stay as they are.
LEMMA CallChanges ==
    ASSUME IInv, NEW c \in Callers, NEW call, GoodCall(call), UNCHANGED inputs,
           calls' = [calls EXCEPT ![c] = call]
    PROVE  GoodCalls'
<1>1. calls' = [b \in Callers |-> IF b = c THEN call ELSE calls[b]]
  BY DEF IInv, GoodCalls
<1>2. ASSUME NEW b \in Callers PROVE GoodCall(calls[b])'
  <2>1. GoodCall(calls[b])
    BY DEF IInv, GoodCalls
  <2> QED
    BY <1>1, <2>1 DEF GoodCall
<1> QED
  BY <1>1, <1>2 DEF GoodCalls

(***************************************************************************)
(* The steps.                                                              *)
(***************************************************************************)
\* A step that replaces one run by a good one.
LEMMA SetRunStep ==
    ASSUME IInv, NEW r \in RunIds, NEW run, GoodRun(run, inputs[r[1]]),
           SetRun(r, run), UNCHANGED <<inputs, versions>>
    PROVE  /\ Typed' /\ GoodRuns' /\ RunIds' = RunIds
           /\ \A q \in RunIds : RunAt(q)' = IF q = r THEN run ELSE RunAt(q)
           /\ \A p \in Projects : inputs[p] <= inputs'[p]
<1>1. run \in Run
  BY DEF GoodRun
<1>2. /\ runs' \in [Projects -> Seq(Run)]
      /\ RunIds' = RunIds
      /\ \A q \in RunIds : RunAt(q)' = IF q = r THEN run ELSE RunAt(q)
  BY <1>1, SetRunFacts DEF IInv
<1>3. Typed' /\ \A p \in Projects : inputs[p] <= inputs'[p]
  BY <1>2 DEF IInv, Typed
<1>4. GoodRuns'
  BY <1>2 DEF IInv, GoodRuns
<1> QED
  BY <1>2, <1>3, <1>4

\* A step that inserts a run of p.
LEMMA InsertStep ==
    ASSUME IInv, NEW p \in Projects, NEW signature \in Nat, signature <= inputs[p],
           Insert(p, signature), UNCHANGED <<inputs, versions>>
    PROVE  /\ Typed' /\ GoodRuns' /\ RunIds \subseteq RunIds'
           /\ \A q \in RunIds : RunAt(q)' = RunAt(q)
           /\ \A q \in Projects : inputs[q] <= inputs'[q]
<1>1. /\ runs' \in [Projects -> Seq(Run)]
      /\ RunIds \subseteq RunIds'
      /\ \A q \in RunIds : RunAt(q)' = RunAt(q)
      /\ \A q \in RunIds' \ RunIds : q[1] = p /\ RunAt(q)' = NewRun(signature)
  BY InsertFacts DEF IInv
<1>2. Typed' /\ \A q \in Projects : inputs[q] <= inputs'[q]
  BY <1>1 DEF IInv, Typed
<1>3. GoodRun(NewRun(signature), inputs[p])
  BY NewRunGood DEF IInv, Typed
<1>4. GoodRuns'
  BY <1>1, <1>3 DEF IInv, GoodRuns
<1> QED
  BY <1>1, <1>2, <1>4

\* A step that leaves inputs and runs alone.
LEMMA StillStep ==
    ASSUME IInv, UNCHANGED <<inputs, versions, runs>>
    PROVE  /\ Typed' /\ GoodRuns' /\ RunIds' = RunIds
           /\ \A q \in RunIds : RunAt(q)' = RunAt(q)
           /\ \A p \in Projects : inputs[p] <= inputs'[p]
<1>1. Typed' /\ \A p \in Projects : inputs[p] <= inputs'[p]
  BY DEF IInv, Typed
<1>2. RunIds' = RunIds /\ \A q \in RunIds : RunAt(q)' = RunAt(q)
  BY DEF RunIds, RunAt
<1>3. GoodRuns'
  BY <1>2 DEF IInv, GoodRuns
<1> QED
  BY <1>1, <1>2, <1>3

\* An edit under the lock keeps the invariant: what was shown and is not marked
\* belongs to other projects.
LEMMA LockedEditStep ==
    ASSUME IInv, NEW P \in Scopes, NEW kind \in EditKinds, LockedEdit(P, kind)
    PROVE  IInv'
<1>1. P \in SUBSET Projects
  BY DEF Scopes
<1>2. /\ versions' = versions + 1 /\ inputs' = Edited(P, versions + 1)
      /\ UNCHANGED <<pc, at, known, todo, plan, calls>>
  BY DEF LockedEdit, workerVars
<1>3. /\ inputs' \in [Projects -> Nat] /\ versions' \in Nat
      /\ \A p \in Projects : inputs[p] <= inputs'[p] /\ inputs'[p] <= versions'
      /\ \A p \in Projects \ P : inputs'[p] = inputs[p]
  BY <1>2 DEF Edited, IInv, Typed
<1>4. /\ runs' \in [Projects -> Seq(Run)]
      /\ RunIds \subseteq RunIds'
      /\ \A q \in RunIds : RunAt(q)' = IF q \in Markable(P) THEN Mark(RunAt(q)) ELSE RunAt(q)
      /\ \A q \in RunIds' \ RunIds : q[1] \in Projects /\ RunAt(q)' = NewRun(inputs'[q[1]])
  BY <1>1, <1>3, EditFacts DEF IInv
<1>5. Typed'
  BY <1>3, <1>4 DEF Typed
<1>6. ASSUME NEW q \in RunIds
      PROVE  /\ RunAt(q)'.signature = RunAt(q).signature
             /\ RunAt(q)'.status \in Shown => RunAt(q).status \in Shown
             /\ GoodRun(RunAt(q)', inputs'[q[1]])
  <2>1. /\ q[1] \in Projects /\ RunAt(q) \in Run /\ GoodRun(RunAt(q), inputs[q[1]])
        /\ inputs[q[1]] \in Nat /\ inputs'[q[1]] \in Nat /\ inputs[q[1]] <= inputs'[q[1]]
    BY <1>3, RunIdFacts DEF IInv, GoodRuns, Typed
  <2>2. CASE q \in Markable(P)
    BY <2>1, <2>2, <1>4, MarkType, MarkGood DEF Shown
  <2>3. CASE q \notin Markable(P)
    <3>1. RunAt(q)' = RunAt(q)
      BY <2>3, <1>4
    <3>2. CASE q[1] \notin P
      BY <2>1, <3>1, <3>2, <1>3
    <3>3. CASE q[1] \in P
      <4>1. RunAt(q).status \notin Shown
        BY <2>3, <3>3 DEF Markable, MarkedStatuses, Shown
      <4>2. /\ RunAt(q).signature \in Nat /\ RunAt(q).signature <= inputs[q[1]]
            /\ RunAt(q).basis \subseteq RunAt(q).signature .. inputs[q[1]]
        BY <2>1 DEF GoodRun, Run
      <4>3. /\ RunAt(q).signature <= inputs'[q[1]]
            /\ RunAt(q).basis \subseteq RunAt(q).signature .. inputs'[q[1]]
        BY <2>1, <4>2
      <4> QED
        BY <2>1, <3>1, <4>1, <4>3 DEF GoodRun
    <3> QED
      BY <3>2, <3>3
  <2> QED
    BY <2>2, <2>3
<1>7. GoodRuns'
  <2>1. ASSUME NEW q \in RunIds' \ RunIds PROVE GoodRun(RunAt(q)', inputs'[q[1]])
    <3>1. q[1] \in Projects /\ RunAt(q)' = NewRun(inputs'[q[1]])
      BY <1>1, <1>4
    <3>2. inputs'[q[1]] \in Nat /\ inputs'[q[1]] <= inputs'[q[1]]
      BY <3>1, <1>3
    <3> QED
      BY <3>1, <3>2, NewRunGood
  <2> QED
    BY <2>1, <1>6 DEF GoodRuns
<1>8. GoodWorker'
  BY <1>2, <1>3, <1>4, <1>5, <1>6, WorkerFrame
<1>9. GoodPlan' /\ GoodCalls'
  BY <1>2, <1>3, <1>5, PlanFrame, CallsFrame
<1> QED
  BY <1>5, <1>7, <1>8, <1>9 DEF IInv

\* Every request keeps the invariant if no edit marks before it holds the lock.
LEMMA ApiStep ==
    ASSUME IInv, "plain" \notin EditKinds, Api
    PROVE  IInv'
<1>1. CASE \E P \in Scopes, kind \in EditKinds : LockedEdit(P, kind)
  BY <1>1, LockedEditStep
<1>2. ASSUME NEW c \in Callers, NEW P \in Scopes, PlainEditRead(c, P)
      PROVE  IInv'
  BY <1>2 DEF PlainEditRead
<1>3. ASSUME NEW c \in Callers, NEW v \in 0 .. MaxVersions, PlainEditCommit(c, v)
      PROVE  IInv'
  BY <1>3 DEF PlainEditCommit, IInv, GoodCalls, GoodCall
<1>4. ASSUME NEW c \in Callers, NEW p \in Projects, StartRead(c, p)
      PROVE  IInv'
  <2>1. /\ calls' = [calls EXCEPT ![c] = StartCall(p)]
        /\ UNCHANGED <<inputs, versions, runs, pc, at, known, plan>>
    BY <1>4 DEF StartRead, workerVars
  <2>2. GoodCall(StartCall(p))
    BY DEF GoodCall, StartCall, IInv, Typed
  <2>3. GoodCalls'
    BY <2>1, <2>2, CallChanges
  <2>4. GoodWorker' /\ GoodPlan' /\ Typed' /\ GoodRuns'
    BY <2>1, StillStep, WorkerFrame, PlanFrame
  <2> QED
    BY <2>3, <2>4 DEF IInv
<1>5. ASSUME NEW c \in Callers, NEW p \in Projects, StartCommit(c, p)
      PROVE  IInv'
  <2>1. /\ Insert(p, calls[c].signature) /\ calls' = [calls EXCEPT ![c] = NoCall]
        /\ UNCHANGED <<inputs, versions, pc, at, known, plan>>
    BY <1>5 DEF StartCommit, workerVars
  <2>2. calls[c].signature \in Nat /\ calls[c].signature <= inputs[p]
    BY <1>5 DEF StartCommit, IInv, GoodCalls, GoodCall
  <2>3. GoodCalls'
    BY <2>1, CallChanges DEF GoodCall, NoCall
  <2>4. GoodWorker' /\ GoodPlan' /\ Typed' /\ GoodRuns'
    BY <2>1, <2>2, InsertStep, WorkerFrame, PlanFrame
  <2> QED
    BY <2>3, <2>4 DEF IInv
<1>6. ASSUME NEW c \in Callers, NEW r \in RunIds, ResumeRead(c, r)
      PROVE  IInv'
  <2>1. /\ calls' = [calls EXCEPT ![c] = ResumeCall(r)]
        /\ UNCHANGED <<inputs, versions, runs, pc, at, known, plan>>
    BY <1>6 DEF ResumeRead, workerVars
  <2>2. GoodCalls'
    BY <2>1, CallChanges DEF GoodCall, ResumeCall
  <2>3. GoodWorker' /\ GoodPlan' /\ Typed' /\ GoodRuns'
    BY <2>1, StillStep, WorkerFrame, PlanFrame
  <2> QED
    BY <2>2, <2>3 DEF IInv
<1>7. ASSUME NEW c \in Callers, NEW r \in RunIds, ResumeCommit(c, r)
      PROVE  IInv'
  <2> DEFINE run == [RunAt(r) EXCEPT !.status = "DRAFT", !.job = "QUEUED"]
  <2>1. /\ calls' = [calls EXCEPT ![c] = NoCall] /\ SetRun(r, run)
        /\ UNCHANGED <<inputs, versions, pc, at, known, plan>>
    BY <1>7 DEF ResumeCommit, workerVars
  <2>2. /\ GoodRun(run, inputs[r[1]])
        /\ run.signature = RunAt(r).signature /\ run.status \notin Shown
    BY RunIdFacts DEF IInv, GoodRuns, GoodRun, Run, Statuses, JobStates, Shown
  <2> HIDE DEF run
  <2>3. GoodCalls'
    BY <2>1, CallChanges DEF GoodCall, NoCall
  <2>4. GoodWorker' /\ GoodPlan' /\ Typed' /\ GoodRuns'
    BY <2>1, <2>2, SetRunStep, WorkerFrame, PlanFrame
  <2> QED
    BY <2>3, <2>4 DEF IInv
<1>8. ASSUME NEW r \in RunIds, CancelQueued(r)
      PROVE  IInv'
  <2> DEFINE run == [RunAt(r) EXCEPT !.status = "FAILED", !.job = "CANCELED"]
  <2>1. SetRun(r, run) /\ UNCHANGED <<inputs, versions, pc, at, known, plan, calls>>
    BY <1>8 DEF CancelQueued, workerVars
  <2>2. /\ GoodRun(run, inputs[r[1]])
        /\ run.signature = RunAt(r).signature /\ run.status \notin Shown
    BY RunIdFacts DEF IInv, GoodRuns, GoodRun, Run, Statuses, JobStates, Shown
  <2> HIDE DEF run
  <2>3. GoodWorker' /\ GoodPlan' /\ GoodCalls' /\ Typed' /\ GoodRuns'
    BY <2>1, <2>2, SetRunStep, WorkerFrame, PlanFrame, CallsFrame
  <2> QED
    BY <2>3 DEF IInv
<1> QED
  BY <1>1, <1>2, <1>3, <1>4, <1>5, <1>6, <1>7, <1>8 DEF Api

\* Every step of the worker keeps the invariant; at the end of an analysis either
\* its signature is the present one, or everything is marked.
LEMMA WorkerStep ==
    ASSUME IInv, Worker
    PROVE  IInv'
<1>1. CASE Boot
  <2>1. UNCHANGED <<inputs, versions, plan, calls>> /\ pc' = "ready"
    BY <1>1 DEF Boot
  <2>2. /\ runs' \in [Projects -> Seq(Run)]
        /\ RunIds' = RunIds
        /\ \A q \in RunIds : RunAt(q)' =
              IF RunAt(q).job = "RUNNING" THEN Fail(RunAt(q)) ELSE RunAt(q)
    BY <1>1, BootFacts DEF IInv
  <2>3. Typed' /\ \A p \in Projects : inputs[p] <= inputs'[p]
    BY <2>1, <2>2 DEF IInv, Typed
  <2>4. ASSUME NEW q \in RunIds
        PROVE  GoodRun(RunAt(q), inputs[q[1]]) /\ GoodRun(Fail(RunAt(q)), inputs[q[1]])
    <3>1. GoodRun(RunAt(q), inputs[q[1]]) /\ RunAt(q) \in Run
      BY DEF IInv, GoodRuns, GoodRun
    <3>2. /\ Fail(RunAt(q)) \in Run /\ Fail(RunAt(q)).status \notin Shown
          /\ Fail(RunAt(q)).signature = RunAt(q).signature
          /\ Fail(RunAt(q)).basis = RunAt(q).basis
      BY <3>1 DEF Fail, Run, Statuses, JobStates, Shown
    <3> QED
      BY <3>1, <3>2 DEF GoodRun
  <2>5. GoodRuns'
    BY <2>1, <2>2, <2>4 DEF GoodRuns
  <2>6. GoodWorker'
    BY <2>1 DEF GoodWorker, Busy
  <2>7. GoodPlan' /\ GoodCalls'
    BY <2>1, <2>3, PlanFrame, CallsFrame
  <2> QED
    BY <2>3, <2>5, <2>6, <2>7 DEF IInv
<1>2. ASSUME NEW p \in Projects, ScheduleRead(p)
      PROVE  IInv'
  <2>1. UNCHANGED <<inputs, versions, runs, pc, at, known, calls>>
    BY <1>2 DEF ScheduleRead
  <2>2. plan' # None => plan' = [project |-> p, signature |-> inputs[p]]
    BY <1>2 DEF ScheduleRead
  <2>3. inputs[p] \in Nat
    BY DEF IInv, Typed
  <2>4. GoodPlan'
    BY <2>1, <2>2, <2>3 DEF GoodPlan
  <2>5. Typed' /\ GoodRuns' /\ GoodWorker' /\ GoodCalls'
    BY <2>1, StillStep, WorkerFrame, CallsFrame
  <2> QED
    BY <2>4, <2>5 DEF IInv
<1>3. CASE ScheduleInsert
  <2>1. /\ Insert(plan.project, plan.signature) /\ plan # None /\ plan' = None
        /\ UNCHANGED <<inputs, versions, pc, at, known, calls>>
    BY <1>3 DEF ScheduleInsert
  <2>2. /\ plan.project \in Projects /\ plan.signature \in Nat
        /\ plan.signature <= inputs[plan.project]
    BY <2>1 DEF IInv, GoodPlan
  <2>3. Typed' /\ GoodRuns' /\ GoodWorker' /\ GoodCalls'
    BY <2>1, <2>2, InsertStep, WorkerFrame, CallsFrame
  <2> QED
    BY <2>1, <2>3 DEF IInv, GoodPlan
<1>4. ASSUME NEW r \in RunIds, Claim(r)
      PROVE  IInv'
  <2> DEFINE run == [RunAt(r) EXCEPT !.job = "RUNNING"]
  <2>1. /\ SetRun(r, run) /\ at' = r /\ known' = {} /\ pc' = "claimed"
        /\ UNCHANGED <<inputs, versions, plan, calls>>
    BY <1>4 DEF Claim
  <2>2. GoodRun(run, inputs[r[1]])
    BY DEF IInv, GoodRuns, GoodRun, Run, JobStates
  <2> HIDE DEF run
  <2>3. Typed' /\ GoodRuns' /\ RunIds' = RunIds /\ GoodPlan' /\ GoodCalls'
    BY <2>1, <2>2, SetRunStep, PlanFrame, CallsFrame
  <2>4. GoodWorker'
    BY <2>1, <2>3 DEF GoodWorker
  <2> QED
    BY <2>3, <2>4 DEF IInv
<1>5. CASE Begin
  <2> DEFINE run == [RunAt(at) EXCEPT !.status = "RUNNING"]
  <2>1. /\ pc = "claimed" /\ pc' = "working" /\ SetRun(at, run)
        /\ UNCHANGED <<inputs, versions, at, known, plan, calls>>
    BY <1>5 DEF Begin
  <2>2. at \in RunIds /\ known \subseteq RunAt(at).signature .. inputs[at[1]]
    BY <2>1 DEF IInv, GoodWorker, Busy
  <2>3. /\ GoodRun(run, inputs[at[1]])
        /\ run.signature = RunAt(at).signature /\ run.status \notin Shown
    BY <2>2 DEF IInv, GoodRuns, GoodRun, Run, Statuses, Shown
  <2> HIDE DEF run
  <2>4. /\ Typed' /\ GoodRuns' /\ RunIds' = RunIds /\ GoodPlan' /\ GoodCalls'
        /\ RunAt(at)' = run
    <3>1. /\ Typed' /\ GoodRuns' /\ RunIds' = RunIds
          /\ \A q \in RunIds : RunAt(q)' = IF q = at THEN run ELSE RunAt(q)
          /\ \A p \in Projects : inputs[p] <= inputs'[p]
      BY <2>1, <2>2, <2>3, SetRunStep
    <3> QED
      BY <2>1, <2>2, <3>1, PlanFrame, CallsFrame DEF RunAt
  <2>5. GoodWorker'
    BY <2>1, <2>2, <2>3, <2>4 DEF GoodWorker
  <2> QED
    BY <2>4, <2>5 DEF IInv
<1>6. CASE Compare
  <2>1. /\ pc = "working" /\ known' = known \cup {inputs[at[1]]}
        /\ UNCHANGED <<inputs, versions, pc, at, plan, calls>>
    BY <1>6 DEF Compare
  <2>2. PICK v \in known' : SetRun(at, [RunAt(at) EXCEPT !.basis = @ \cup {v}])
    BY <1>6 DEF Compare
  <2> DEFINE run == [RunAt(at) EXCEPT !.basis = @ \cup {v}]
  <2>3. /\ at \in RunIds /\ known \subseteq RunAt(at).signature .. inputs[at[1]]
        /\ RunAt(at).status \notin Shown /\ at[1] \in Projects
    BY <2>1, RunIdFacts DEF IInv, GoodWorker, Busy
  <2>4. /\ RunAt(at) \in Run /\ inputs[at[1]] \in Nat /\ RunAt(at).signature \in Nat
        /\ RunAt(at).signature <= inputs[at[1]]
        /\ RunAt(at).basis \subseteq RunAt(at).signature .. inputs[at[1]]
    BY <2>3 DEF IInv, GoodRuns, GoodRun, Typed, Run
  <2>5. known' \subseteq RunAt(at).signature .. inputs[at[1]]
    BY <2>1, <2>3, <2>4
  <2>6. v \in Nat /\ v \in RunAt(at).signature .. inputs[at[1]]
    BY <2>4, <2>5
  <2>7. /\ run \in Run /\ run.signature = RunAt(at).signature
        /\ run.status = RunAt(at).status /\ run.basis = RunAt(at).basis \cup {v}
    BY <2>4, <2>6 DEF Run
  <2> HIDE DEF run
  <2>8. GoodRun(run, inputs[at[1]])
    BY <2>3, <2>4, <2>6, <2>7 DEF GoodRun
  <2>9. /\ Typed' /\ GoodRuns' /\ RunIds' = RunIds /\ GoodPlan' /\ GoodCalls'
        /\ RunAt(at)' = run
    <3>1. /\ Typed' /\ GoodRuns' /\ RunIds' = RunIds
          /\ \A q \in RunIds : RunAt(q)' = IF q = at THEN run ELSE RunAt(q)
          /\ \A p \in Projects : inputs[p] <= inputs'[p]
      BY <2>1, <2>2, <2>3, <2>8, SetRunStep DEF run
    <3> QED
      BY <2>1, <2>3, <3>1, PlanFrame, CallsFrame DEF RunAt
  <2>10. GoodWorker'
    BY <2>1, <2>3, <2>5, <2>7, <2>9 DEF GoodWorker
  <2> QED
    BY <2>9, <2>10 DEF IInv
<1>7. CASE Finish
  <2> DEFINE p == at[1]
  <2>1. /\ pc = "working" /\ pc' = "finished"
        /\ UNCHANGED <<inputs, versions, at, known, plan, calls>>
    BY <1>7 DEF Finish
  <2>2. PICK status \in Shown :
          LET done == [RunAt(at) EXCEPT !.status = status]
          IN runs' = IF Outdated(done, p)
                     THEN [Marked(Markable({p})) EXCEPT ![p][at[2]] = Mark(done)]
                     ELSE [runs EXCEPT ![p][at[2]] = done]
    BY <1>7 DEF Finish, Shown, Marked
  <2> DEFINE done == [RunAt(at) EXCEPT !.status = status]
  <2>3. /\ at \in RunIds /\ known \subseteq RunAt(at).signature .. inputs[p]
        /\ p \in Projects /\ inputs[p] \in Nat /\ RunAt(at) \in Run
        /\ GoodRun(RunAt(at), inputs[p])
    BY <2>1, RunIdFacts DEF IInv, GoodWorker, GoodRuns, Typed, Busy
  <2>4. /\ done \in Run /\ done.signature = RunAt(at).signature
        /\ done.basis = RunAt(at).basis /\ done.status = status
    BY <2>3 DEF Run, Statuses, Shown
  <2>5. CASE ~Outdated(done, p)
    <3>1. SetRun(at, done) /\ done.signature = inputs[p]
      BY <2>2, <2>5 DEF SetRun, Outdated
    <3>2. GoodRun(done, inputs[p])
      BY <2>3, <2>4, <3>1 DEF GoodRun
    <3> HIDE DEF done
    <3>3. /\ Typed' /\ GoodRuns' /\ RunIds' = RunIds
          /\ \A q \in RunIds : RunAt(q)' = IF q = at THEN done ELSE RunAt(q)
          /\ \A q \in Projects : inputs[q] <= inputs'[q]
      BY <2>1, <2>3, <3>1, <3>2, SetRunStep
    <3>4. GoodWorker'
      BY <2>1, <2>3, <2>4, <3>3 DEF GoodWorker, RunAt
    <3> QED
      BY <2>1, <3>3, <3>4, PlanFrame, CallsFrame DEF IInv
  <2>6. CASE Outdated(done, p)
    <3>1. PICK R : R = Markable({p})
      OBVIOUS
    <3>2. runs' = [Marked(R) EXCEPT ![at[1]][at[2]] = Mark(done)]
      BY <2>2, <2>6, <3>1 DEF Marked
    <3>3. Mark(done) \in Run /\ Mark(done).basis = {} /\ Mark(done).status \notin Shown
          /\ Mark(done).signature = RunAt(at).signature
      BY <2>4, MarkType DEF Shown
    <3> HIDE DEF done
    <3>4. /\ runs' \in [Projects -> Seq(Run)]
          /\ RunIds' = RunIds
          /\ \A q \in RunIds : RunAt(q)' = IF q = at THEN Mark(done)
                                           ELSE IF q \in R THEN Mark(RunAt(q))
                                           ELSE RunAt(q)
      BY <2>3, <3>2, <3>3, OutdatedFacts DEF IInv
    <3>5. Typed' /\ \A q \in Projects : inputs[q] <= inputs'[q]
      BY <2>1, <3>4 DEF IInv, Typed
    <3>6. GoodRun(Mark(done), inputs[p])
      BY <2>3, <3>3 DEF GoodRun
    <3>7. ASSUME NEW q \in RunIds
          PROVE  /\ GoodRun(RunAt(q), inputs[q[1]])
                 /\ GoodRun(Mark(RunAt(q)), inputs[q[1]])
      <4>1. q[1] \in Projects /\ inputs[q[1]] \in Nat /\ inputs[q[1]] <= inputs[q[1]]
            /\ GoodRun(RunAt(q), inputs[q[1]])
        BY RunIdFacts DEF IInv, Typed, GoodRuns
      <4> QED
        BY <4>1, MarkGood
    <3>8. GoodRuns'
      BY <2>1, <3>4, <3>6, <3>7 DEF GoodRuns
    <3>9. GoodWorker'
      BY <2>1, <2>3, <3>3, <3>4 DEF GoodWorker, RunAt
    <3> QED
      BY <2>1, <3>5, <3>8, <3>9, PlanFrame, CallsFrame DEF IInv
  <2> QED
    BY <2>5, <2>6
<1>8. CASE Complete
  <2> DEFINE run == [RunAt(at) EXCEPT !.job = "COMPLETED"]
  <2>1. /\ pc = "finished" /\ pc' = "ready" /\ SetRun(at, run)
        /\ UNCHANGED <<inputs, versions, plan, calls>>
    BY <1>8 DEF Complete
  <2>2. at \in RunIds
    BY <2>1 DEF IInv, GoodWorker, Busy
  <2>3. GoodRun(run, inputs[at[1]])
    BY <2>2 DEF IInv, GoodRuns, GoodRun, Run, JobStates
  <2> HIDE DEF run
  <2>4. Typed' /\ GoodRuns' /\ GoodPlan' /\ GoodCalls'
    BY <2>1, <2>2, <2>3, SetRunStep, PlanFrame, CallsFrame
  <2> QED
    BY <2>1, <2>4 DEF IInv, GoodWorker, Busy
<1>9. CASE RunFails
  <2> DEFINE run == Fail(RunAt(at))
  <2>1. /\ pc \in Busy /\ pc' = "ready" /\ SetRun(at, run)
        /\ UNCHANGED <<inputs, versions, plan, calls>>
    BY <1>9 DEF RunFails, Busy
  <2>2. at \in RunIds
    BY <2>1 DEF IInv, GoodWorker
  <2>3. GoodRun(run, inputs[at[1]])
    BY <2>2 DEF IInv, GoodRuns, GoodRun, Run, JobStates, Statuses, Fail, Shown
  <2> HIDE DEF run
  <2>4. Typed' /\ GoodRuns' /\ GoodPlan' /\ GoodCalls'
    BY <2>1, <2>2, <2>3, SetRunStep, PlanFrame, CallsFrame
  <2> QED
    BY <2>1, <2>4 DEF IInv, GoodWorker, Busy
<1> QED
  BY <1>1, <1>2, <1>3, <1>4, <1>5, <1>6, <1>7, <1>8, <1>9 DEF Worker

\* There are no runs at first.
LEMMA Initially == Init => IInv
<1> SUFFICES ASSUME Init PROVE IInv
  OBVIOUS
<1>1. /\ inputs = [p \in Projects |-> 0] /\ versions = 0
      /\ runs = [p \in Projects |-> <<>>] /\ plan = None /\ pc = "down"
      /\ calls = [c \in Callers |-> NoCall]
  BY DEF Init
<1>2. Typed
  BY <1>1 DEF Typed
<1>3. RunIds = {}
  BY <1>1 DEF RunIds
<1>4. GoodRuns /\ GoodPlan /\ GoodWorker
  BY <1>1, <1>3 DEF GoodRuns, GoodPlan, GoodWorker, Busy
<1>5. GoodCalls
  BY <1>1 DEF GoodCalls, GoodCall, NoCall
<1> QED
  BY <1>2, <1>4, <1>5 DEF IInv

\* The invariant is inductive.
LEMMA Step ==
    ASSUME "plain" \notin EditKinds
    PROVE  IInv /\ [Next]_vars => IInv'
<1> SUFFICES ASSUME IInv, [Next]_vars PROVE IInv'
  OBVIOUS
<1>1. CASE Worker
  BY <1>1, WorkerStep
<1>2. CASE Api
  BY <1>2, ApiStep
<1>3. CASE Halt
  <2>1. UNCHANGED <<inputs, versions, runs, calls>> /\ pc' = "down" /\ plan' = None
    BY <1>3 DEF Halt
  <2>2. Typed' /\ GoodRuns' /\ GoodCalls'
    BY <2>1, StillStep, CallsFrame
  <2> QED
    BY <2>1, <2>2 DEF IInv, GoodWorker, GoodPlan, Busy
<1>4. CASE UNCHANGED vars
  <2>1. UNCHANGED <<inputs, versions, runs, calls, plan, pc, at, known>>
    BY <1>4 DEF vars, workerVars
  <2> QED
    BY <2>1, StillStep, WorkerFrame, PlanFrame, CallsFrame DEF IInv
<1> QED
  BY <1>1, <1>2, <1>3, <1>4 DEF Next

\* The invariant implies the property.
LEMMA GoodIsFresh == IInv => FreshResults
  BY DEF IInv, GoodRuns, GoodRun, FreshResults, Shown

\* If every edit takes the write lock before it selects the runs to mark, a run
\* shown as completed or to be reviewed never rests on former inputs: for any
\* projects, edits, runs, resumptions, crashes and numbers of callers.
THEOREM LockedEditsKeepResultsFresh ==
    ASSUME "plain" \notin EditKinds
    PROVE  Spec => []FreshResults
<1>1. Init => IInv
  BY Initially
<1>2. IInv /\ [Next]_vars => IInv'
  BY Step
<1>3. IInv => FreshResults
  BY GoodIsFresh
<1> QED
  BY <1>1, <1>2, <1>3, PTL DEF Spec

(***************************************************************************)
(* Type correctness, for edits of every kind.                              *)
(***************************************************************************)
\* Inputs are among the states that have existed, and everything that does not
\* depend on the runs there are has its type.
Rest ==
    /\ inputs \in [Projects -> Versions] /\ versions \in Versions
    /\ \A p \in Projects : inputs[p] <= versions
    /\ pc \in {"down", "ready", "claimed", "working", "finished"}
    /\ known \in SUBSET Versions /\ todo \in SUBSET AutoAnalyze
    /\ plan \in Plans \cup {None} /\ halts \in Nat

RunsOK == runs \in [Projects -> Seq(RunType)]

Waiting == {r \in RunIds : RunAt(r).job = "QUEUED"}
InQueue == queue \in Seq(RunIds) /\ Once(queue) /\ ToSet(queue) = Waiting

AtWork == IF pc \in Busy THEN at \in RunIds /\ RunAt(at).job = "RUNNING" ELSE at = None

\* A call that resumes a run is alone in that, and the run was interrupted.
Interrupted == {"FAILED", "CANCELED"}
Resuming(call) == \E r \in RunIds : call = ResumeCall(r) /\ RunAt(r).job \in Interrupted
CallsOK ==
    /\ calls \in [Callers -> CallType]
    /\ \A c \in Callers : calls[c].op = "resume" => Resuming(calls[c])
    /\ \A b, c \in Callers : calls[b].op = "resume" /\ calls[b] = calls[c] => b = c

Shape == Rest /\ RunsOK /\ InQueue /\ AtWork /\ CallsOK

\* The shape contains the type invariant.
LEMMA ShapeIsTyped == Shape => TypeOK
  BY DEF Shape, Rest, RunsOK, InQueue, Waiting, AtWork, Busy, CallsOK, TypeOK

\* States of inputs are natural numbers.
LEMMA VersionFacts == Versions \subseteq Nat /\ RunType \subseteq Run
  BY FreshnessAssumption DEF Versions, RunType, Run, Statuses, JobStates

\* What the lemmas about runs need of the shape.
LEMMA ShapeTyped ==
    ASSUME Shape
    PROVE  Typed /\ \A r \in RunIds : RunAt(r) \in RunType
<1>1. inputs \in [Projects -> Nat] /\ versions \in Nat /\ \A p \in Projects : inputs[p] <= versions
  BY VersionFacts DEF Shape, Rest
<1>2. \A p \in Projects : runs[p] \in Seq(RunType) /\ runs[p] \in Seq(Run)
  BY VersionFacts, SeqMonotonic DEF Shape, RunsOK
<1>3. Typed
  BY <1>1, <1>2 DEF Typed, Shape, RunsOK
<1>4. ASSUME NEW r \in RunIds PROVE RunAt(r) \in RunType
  <2>1. r[1] \in Projects /\ r[2] \in 1 .. Len(runs[r[1]]) /\ RunAt(r) = runs[r[1]][r[2]]
    BY <1>3, RunIdFacts
  <2> QED
    BY <2>1, <1>2, ElementOfSeq
<1> QED
  BY <1>3, <1>4

\* If each run has its type, so have the projects' lists of runs.
LEMMA ListsTyped ==
    ASSUME runs' \in [Projects -> Seq(Run)], \A r \in RunIds' : RunAt(r)' \in RunType
    PROVE  RunsOK'
<1>1. ASSUME NEW p \in Projects PROVE runs'[p] \in Seq(RunType)
  <2>1. runs'[p] \in Seq(Run) /\ Len(runs'[p]) \in Nat /\ runs'[p] \in [1 .. Len(runs'[p]) -> Run]
    BY LenProperties
  <2>2. ASSUME NEW i \in 1 .. Len(runs'[p]) PROVE runs'[p][i] \in RunType
    <3>1. <<p, i>> \in RunIds'
      BY DEF RunIds
    <3>2. RunAt(<<p, i>>)' = runs'[p][i]
      BY DEF RunAt
    <3> QED
      BY <3>1, <3>2
  <2>3. runs'[p] \in [1 .. Len(runs'[p]) -> RunType]
    BY <2>1, <2>2
  <2> QED
    BY <2>1, <2>3, SeqDef
<1> QED
  BY <1>1 DEF RunsOK

\* A step that replaces one run.
LEMMA OneRun ==
    ASSUME Shape, NEW r \in RunIds, NEW run \in RunType, SetRun(r, run)
    PROVE  /\ RunsOK' /\ RunIds' = RunIds
           /\ \A q \in RunIds : RunAt(q)' = IF q = r THEN run ELSE RunAt(q)
<1>1. run \in Run
  BY VersionFacts
<1>2. /\ runs' \in [Projects -> Seq(Run)] /\ RunIds' = RunIds
      /\ \A q \in RunIds : RunAt(q)' = IF q = r THEN run ELSE RunAt(q)
  BY <1>1, ShapeTyped, SetRunFacts
<1>3. \A q \in RunIds' : RunAt(q)' \in RunType
  BY <1>2, ShapeTyped
<1> QED
  BY <1>2, <1>3, ListsTyped

\* A step that adds one run and its job (schedule_analysis).
LEMMA OneMore ==
    ASSUME Shape, NEW p \in Projects, NEW signature \in Versions, Insert(p, signature)
    PROVE  /\ RunsOK' /\ InQueue' /\ RunIds \subseteq RunIds'
           /\ \A q \in RunIds : RunAt(q)' = RunAt(q)
<1> DEFINE new == <<p, Len(runs[p]) + 1>>
<1>1. signature \in Nat
  BY VersionFacts
<1>2. /\ runs' \in [Projects -> Seq(Run)] /\ RunIds \subseteq RunIds'
      /\ \A q \in RunIds : RunAt(q)' = RunAt(q)
      /\ \A q \in RunIds' \ RunIds : RunAt(q)' = NewRun(signature)
      /\ RunIds' \ RunIds = {new}
  BY <1>1, ShapeTyped, InsertFacts
<1>3. NewRun(signature) \in RunType /\ NewRun(signature).job = "QUEUED"
  BY DEF NewRun, RunType
<1>4. \A q \in RunIds' : RunAt(q)' \in RunType
  BY <1>2, <1>3, ShapeTyped
<1>5. queue' = Append(queue, new)
  BY DEF Insert
<1> HIDE DEF new
<1>6. queue \in Seq(RunIds') /\ Once(queue) /\ ToSet(queue) = Waiting
  BY <1>2, SeqMonotonic DEF Shape, InQueue
<1>7. new \in RunIds' /\ new \notin ToSet(queue)
  BY <1>2, <1>6 DEF Waiting
<1>8. queue' \in Seq(RunIds') /\ Once(queue') /\ ToSet(queue') = Waiting \cup {new}
  BY <1>5, <1>6, <1>7, AppendOnce
<1>9. Waiting' = Waiting \cup {new}
  BY <1>2, <1>3 DEF Waiting
<1>10. InQueue'
  BY <1>8, <1>9 DEF InQueue, Once
<1> QED
  BY <1>2, <1>4, <1>10, ListsTyped

\* An edit's transaction marks runs and adds some with their jobs, in any order.
LEMMA ManyMore ==
    ASSUME Shape, NEW R, NEW S \in SUBSET Projects, NEW signatures \in [Projects -> Versions],
           MarkAndSchedule(R, S, signatures)
    PROVE  /\ RunsOK' /\ InQueue' /\ RunIds \subseteq RunIds'
           /\ \A q \in RunIds : RunAt(q)'.job = RunAt(q).job
<1>1. signatures \in [Projects -> Nat] /\ Typed
  BY VersionFacts, ShapeTyped
<1> PICK new : new = {<<p, Len(runs[p]) + 1>> : p \in ToSchedule(S, signatures)}
  OBVIOUS
<1>2. /\ runs' \in [Projects -> Seq(Run)] /\ RunIds \subseteq RunIds'
      /\ \A q \in RunIds : RunAt(q)' = IF q \in R THEN Mark(RunAt(q)) ELSE RunAt(q)
      /\ \A q \in RunIds' \ RunIds :
            q[1] \in Projects /\ RunAt(q)' = NewRun(signatures[q[1]])
      /\ RunIds' \ RunIds = new
  <2>1. runs' \in [Projects -> Seq(Run)] /\ RunIds \subseteq RunIds'
    BY <1>1, ScheduleFacts
  <2>2. \A q \in RunIds : RunAt(q)' = IF q \in R THEN Mark(RunAt(q)) ELSE RunAt(q)
    BY <1>1, ScheduleFacts
  <2>3. \A q \in RunIds' \ RunIds : q[1] \in Projects
    BY <1>1, ScheduleFacts
  <2>4. ASSUME NEW q \in RunIds' \ RunIds PROVE RunAt(q)' = NewRun(signatures[q[1]])
    BY <1>1, ScheduleFacts
  <2>5. RunIds' \ RunIds = {<<p, Len(runs[p]) + 1>> : p \in ToSchedule(S, signatures)}
    BY <1>1, ScheduleFacts
  <2> QED
    BY <2>1, <2>2, <2>3, <2>4, <2>5
<1>3. \A run \in RunType : Mark(run) \in RunType /\ Mark(run).job = run.job
  BY DEF Mark, RunType
<1>4. \A v \in Versions : NewRun(v) \in RunType /\ NewRun(v).job = "QUEUED"
  BY DEF NewRun, RunType
<1>5. ASSUME NEW q \in RunIds' PROVE RunAt(q)' \in RunType
  BY <1>2, <1>3, <1>4, ShapeTyped
<1>6. PICK order \in SetToSeqs(new) : queue' = queue \o order
  BY DEF MarkAndSchedule, ToSchedule
<1>7. IsFiniteSet(new)
  <2>1. ToSchedule(S, signatures) \in SUBSET Projects /\ IsFiniteSet(Projects)
    BY FreshnessAssumption DEF ToSchedule
  <2>2. IsFiniteSet(ToSchedule(S, signatures))
    BY <2>1, FS_Subset
  <2> DEFINE f == [p \in ToSchedule(S, signatures) |-> <<p, Len(runs[p]) + 1>>]
  <2>3. f \in Surjection(ToSchedule(S, signatures), new)
    BY DEF Surjection
  <2> QED
    BY <2>2, <2>3, FS_Surjection
<1>8. order \in Seq(new) /\ Once(order) /\ ToSet(order) = new
  BY <1>6, <1>7, OrderFacts
<1>9. order \in Seq(RunIds')
  BY <1>2, <1>8, SeqMonotonic
<1>10. queue \in Seq(RunIds') /\ Once(queue) /\ ToSet(queue) = Waiting
  BY <1>2, SeqMonotonic DEF Shape, InQueue
<1>11. ToSet(queue) \cap ToSet(order) = {}
  BY <1>2, <1>8, <1>10 DEF Waiting
<1>12. queue' \in Seq(RunIds') /\ Once(queue') /\ ToSet(queue') = Waiting \cup new
  BY <1>6, <1>8, <1>9, <1>10, <1>11, ConcatOnce
<1>13. \A q \in RunIds : RunAt(q)'.job = RunAt(q).job
  BY <1>2, <1>3, ShapeTyped
<1>14. \A q \in RunIds' \ RunIds : RunAt(q)'.job = "QUEUED"
  BY <1>2, <1>4
<1>15. Waiting' = Waiting \cup new
  BY <1>2, <1>13, <1>14 DEF Waiting
<1>16. InQueue'
  BY <1>12, <1>15 DEF InQueue, Once
<1> QED
  BY <1>2, <1>5, <1>13, <1>16, ListsTyped

\* The queue stays as it is while no run begins or ceases to wait.
LEMMA QueueKept ==
    ASSUME Shape, UNCHANGED queue, RunIds' = RunIds,
           \A q \in RunIds : RunAt(q)'.job = "QUEUED" <=> RunAt(q).job = "QUEUED"
    PROVE  InQueue'
<1>1. Waiting' = Waiting
  BY DEF Waiting
<1> QED
  BY <1>1 DEF Shape, InQueue, Once

\* The worker stays at its run while its job keeps running.
LEMMA WorkKept ==
    ASSUME Shape, UNCHANGED <<pc, at>>, RunIds \subseteq RunIds',
           \A q \in RunIds : RunAt(q).job = "RUNNING" => RunAt(q)'.job = "RUNNING"
    PROVE  AtWork'
  BY DEF Shape, AtWork, RunAt

\* The worker goes on with the same run.
LEMMA WorkGoesOn ==
    ASSUME Shape, pc \in Busy, pc' \in Busy, UNCHANGED at, RunIds' = RunIds,
           RunAt(at)'.job = "RUNNING"
    PROVE  AtWork'
  BY DEF Shape, AtWork, RunAt

\* Calls are of their type when there are more runs.
LEMMA CallTypeGrows ==
    ASSUME RunIds \subseteq RunIds'
    PROVE  CallType \subseteq CallType'
<1>1. SUBSET RunIds \subseteq SUBSET (RunIds')
  OBVIOUS
<1> QED
  BY <1>1 DEF CallType, Versions

\* Pending calls stay right while what they resume stays interrupted.
LEMMA CallsKept ==
    ASSUME Shape, UNCHANGED calls, RunIds \subseteq RunIds',
           \A q \in RunIds : RunAt(q).job \in Interrupted => RunAt(q)'.job \in Interrupted
    PROVE  CallsOK'
<1>1. calls' \in [Callers -> CallType']
  BY CallTypeGrows DEF Shape, CallsOK
<1>2. ASSUME NEW c \in Callers, calls[c].op = "resume" PROVE Resuming(calls[c])'
  <2>1. PICK r \in RunIds : calls[c] = ResumeCall(r) /\ RunAt(r).job \in Interrupted
    BY <1>2 DEF Shape, CallsOK, Resuming
  <2> QED
    BY <2>1 DEF Resuming, ResumeCall
<1> QED
  BY <1>1, <1>2 DEF Shape, CallsOK

\* A caller reads, or commits and is done: the others' calls stay right if what they
\* resume stays interrupted.
LEMMA CallsChange ==
    ASSUME Shape, NEW c \in Callers, NEW call \in CallType,
           calls' = [calls EXCEPT ![c] = call], RunIds \subseteq RunIds',
           call.op = "resume" => Resuming(call)' /\ \A b \in Callers : calls[b] # call,
           \A b \in Callers \ {c}, q \in RunIds :
              calls[b] = ResumeCall(q) /\ RunAt(q).job \in Interrupted
                 => RunAt(q)'.job \in Interrupted
    PROVE  CallsOK'
<1>1. calls' = [b \in Callers |-> IF b = c THEN call ELSE calls[b]]
  BY DEF Shape, CallsOK
<1>2. calls' \in [Callers -> CallType']
  BY <1>1, CallTypeGrows DEF Shape, CallsOK
<1>3. ASSUME NEW b \in Callers, calls'[b].op = "resume" PROVE Resuming(calls[b])'
  <2>1. CASE b = c
    <3>1. Resuming(call)' /\ calls'[b] = call
      BY <1>1, <1>3, <2>1
    <3> QED
      BY <3>1 DEF Resuming
  <2>2. CASE b # c
    <3>1. calls'[b] = calls[b]
      BY <1>1, <2>2
    <3>2. PICK r \in RunIds : calls[b] = ResumeCall(r) /\ RunAt(r).job \in Interrupted
      BY <1>3, <3>1 DEF Shape, CallsOK, Resuming
    <3>3. RunAt(r)'.job \in Interrupted /\ r \in RunIds'
      BY <2>2, <3>2
    <3> QED
      BY <3>1, <3>2, <3>3 DEF Resuming, ResumeCall
  <2> QED
    BY <2>1, <2>2
<1>4. ASSUME NEW a \in Callers, NEW b \in Callers, calls'[a].op = "resume", calls'[a] = calls'[b]
      PROVE  a = b
  BY <1>1, <1>4 DEF Shape, CallsOK
<1> QED
  BY <1>2, <1>3, <1>4 DEF CallsOK

\* No call is a call.
LEMMA NoCallFacts == NoCall \in CallType /\ NoCall.op = "none"
<1>1. 0 \in Versions
  BY FreshnessAssumption DEF Versions
<1> QED
  BY <1>1 DEF NoCall, CallType

\* A call that resumes names its run.
LEMMA ResumeNames ==
    ASSUME NEW r
    PROVE  ResumeCall(r).op = "resume" /\ ResumeCall(r).seen = {r}
  BY DEF ResumeCall

\* Requests read and commit: their steps keep the shape.
LEMMA ApiShape ==
    ASSUME Shape, Api
    PROVE  Shape'
<1> USE ShapeTyped
<1>1. ASSUME NEW P \in Scopes, NEW kind \in EditKinds, LockedEdit(P, kind)
      PROVE  Shape'
  <2>1. /\ versions < MaxVersions /\ versions' = versions + 1 /\ inputs' = Edited(P, versions + 1)
        /\ UNCHANGED <<pc, at, known, todo, plan, calls, halts>>
    BY <1>1 DEF LockedEdit, workerVars
  <2>2. PICK S \in SUBSET Projects : S = IF kind = "stamped" THEN P ELSE {}
    BY DEF Scopes
  <2>3. versions + 1 \in Versions /\ versions \in Nat
    BY <2>1, FreshnessAssumption DEF Shape, Rest, Versions
  <2>4. /\ inputs' \in [Projects -> Versions]
        /\ \A p \in Projects : inputs'[p] <= versions + 1
    BY <2>1, <2>3 DEF Shape, Rest, Edited, Versions
  <2>5. Rest'
    BY <2>1, <2>3, <2>4 DEF Shape, Rest, Versions, Plans
  <2>6. PICK signatures \in [Projects -> Versions] : signatures = inputs'
    BY <2>4
  <2>7. PICK R : R = Markable(P)
    OBVIOUS
  <2>8. MarkAndSchedule(R, S, signatures)
    BY <1>1, <2>2, <2>6, <2>7 DEF LockedEdit
  <2>9. /\ RunsOK' /\ InQueue' /\ RunIds \subseteq RunIds'
        /\ \A q \in RunIds : RunAt(q)'.job = RunAt(q).job
    BY <2>8, ManyMore
  <2> QED
    BY <2>1, <2>5, <2>9, WorkKept, CallsKept DEF Shape
<1>2. ASSUME NEW c \in Callers, NEW P \in Scopes, PlainEditRead(c, P)
      PROVE  Shape'
  <2>1. /\ calls' = [calls EXCEPT ![c] = EditCall(P)]
        /\ UNCHANGED <<inputs, versions, runs, queue, pc, at, known, todo, plan, halts>>
    BY <1>2 DEF PlainEditRead, workerVars
  <2>2. EditCall(P) \in CallType /\ EditCall(P).op = "edit"
    BY FreshnessAssumption DEF EditCall, CallType, Scopes, Markable, Versions
  <2>3. RunIds' = RunIds /\ \A q \in RunIds : RunAt(q)' = RunAt(q)
    BY <2>1 DEF RunIds, RunAt
  <2>4. CallsOK'
    BY <2>1, <2>2, <2>3, CallsChange
  <2> QED
    BY <2>1, <2>3, <2>4, QueueKept, WorkKept DEF Shape, Rest, RunsOK
<1>3. ASSUME NEW c \in Callers, NEW v \in 0 .. MaxVersions, PlainEditCommit(c, v)
      PROVE  Shape'
  <2>1. /\ versions < MaxVersions /\ versions' = versions + 1 /\ v \in 0 .. versions + 1
        /\ inputs' = Edited(calls[c].on, v) /\ calls' = [calls EXCEPT ![c] = NoCall]
        /\ UNCHANGED <<pc, at, known, todo, plan, halts>>
    BY <1>3 DEF PlainEditCommit, workerVars
  <2>2. PICK S \in SUBSET Projects : S = calls[c].on
    BY DEF Shape, CallsOK, CallType
  <2>3. versions + 1 \in Versions /\ versions \in Nat /\ v \in Versions /\ v <= versions + 1
    BY <2>1, FreshnessAssumption DEF Shape, Rest, Versions
  <2>4. /\ inputs' \in [Projects -> Versions]
        /\ \A p \in Projects : inputs'[p] <= versions + 1
    BY <2>1, <2>3 DEF Shape, Rest, Edited, Versions
  <2>5. Rest'
    BY <2>1, <2>3, <2>4 DEF Shape, Rest, Versions, Plans
  <2>6. PICK signatures \in [Projects -> Versions] : signatures = inputs'
    BY <2>4
  <2>7. PICK R : R = calls[c].seen
    OBVIOUS
  <2>8. MarkAndSchedule(R, S, signatures)
    BY <1>3, <2>2, <2>6, <2>7 DEF PlainEditCommit
  <2>9. /\ RunsOK' /\ InQueue' /\ RunIds \subseteq RunIds'
        /\ \A q \in RunIds : RunAt(q)'.job = RunAt(q).job
    BY <2>8, ManyMore
  <2>10. CallsOK'
    BY <2>1, <2>9, NoCallFacts, CallsChange
  <2> QED
    BY <2>1, <2>5, <2>9, <2>10, WorkKept DEF Shape
<1>4. ASSUME NEW c \in Callers, NEW p \in Projects, StartRead(c, p)
      PROVE  Shape'
  <2>1. /\ calls' = [calls EXCEPT ![c] = StartCall(p)]
        /\ UNCHANGED <<inputs, versions, runs, queue, pc, at, known, todo, plan, halts>>
    BY <1>4 DEF StartRead, workerVars
  <2>2. StartCall(p) \in CallType /\ StartCall(p).op = "start"
    BY DEF StartCall, CallType, Shape, Rest
  <2>3. RunIds' = RunIds /\ \A q \in RunIds : RunAt(q)' = RunAt(q)
    BY <2>1 DEF RunIds, RunAt
  <2>4. CallsOK'
    BY <2>1, <2>2, <2>3, CallsChange
  <2> QED
    BY <2>1, <2>3, <2>4, QueueKept, WorkKept DEF Shape, Rest, RunsOK
<1>5. ASSUME NEW c \in Callers, NEW p \in Projects, StartCommit(c, p)
      PROVE  Shape'
  <2>1. /\ Insert(p, calls[c].signature) /\ calls' = [calls EXCEPT ![c] = NoCall]
        /\ UNCHANGED <<inputs, versions, pc, at, known, todo, plan, halts>>
    BY <1>5 DEF StartCommit, workerVars
  <2>2. calls[c].signature \in Versions
    BY DEF Shape, CallsOK, CallType
  <2>3. /\ RunsOK' /\ InQueue' /\ RunIds \subseteq RunIds'
        /\ \A q \in RunIds : RunAt(q)' = RunAt(q)
    <3> PICK signature \in Versions : signature = calls[c].signature
      BY <2>2
    <3>1. Insert(p, signature)
      BY <2>1
    <3> QED
      BY <3>1, OneMore
  <2>4. CallsOK'
    BY <2>1, <2>3, NoCallFacts, CallsChange
  <2> QED
    BY <2>1, <2>3, <2>4, WorkKept DEF Shape, Rest
<1>6. ASSUME NEW c \in Callers, NEW r \in RunIds, ResumeRead(c, r)
      PROVE  Shape'
  <2>1. /\ calls' = [calls EXCEPT ![c] = ResumeCall(r)] /\ RunAt(r).job \in Interrupted
        /\ \A b \in Callers : calls[b] # ResumeCall(r)
        /\ UNCHANGED <<inputs, versions, runs, queue, pc, at, known, todo, plan, halts>>
    BY <1>6 DEF ResumeRead, Resumable, Interrupted, workerVars
  <2>2. ResumeCall(r) \in CallType
    BY RunIdFacts, FreshnessAssumption DEF ResumeCall, CallType, Versions
  <2>3. RunIds' = RunIds /\ \A q \in RunIds : RunAt(q)' = RunAt(q)
    BY <2>1 DEF RunIds, RunAt
  <2>4. Resuming(ResumeCall(r))'
    BY <2>1, <2>3 DEF Resuming, ResumeCall
  <2>5. CallsOK'
    BY <2>1, <2>2, <2>3, <2>4, CallsChange
  <2> QED
    BY <2>1, <2>3, <2>5, QueueKept, WorkKept DEF Shape, Rest, RunsOK
<1>7. ASSUME NEW c \in Callers, NEW r \in RunIds, ResumeCommit(c, r)
      PROVE  Shape'
  <2> DEFINE run == [RunAt(r) EXCEPT !.status = "DRAFT", !.job = "QUEUED"]
  <2>1. /\ calls[c] = ResumeCall(r) /\ calls' = [calls EXCEPT ![c] = NoCall]
        /\ SetRun(r, run) /\ queue' = Append(queue, r)
        /\ UNCHANGED <<inputs, versions, pc, at, known, todo, plan, halts>>
    BY <1>7 DEF ResumeCommit, workerVars
  <2>2. run \in RunType /\ run.job = "QUEUED"
    BY DEF RunType
  <2> HIDE DEF run
  <2>3. /\ RunsOK' /\ RunIds' = RunIds
        /\ \A q \in RunIds : RunAt(q)' = IF q = r THEN run ELSE RunAt(q)
    BY <2>1, <2>2, OneRun
  <2>4. RunAt(r).job \in Interrupted
    <3>1. calls[c].op = "resume"
      BY <2>1, ResumeNames
    <3>2. PICK q \in RunIds : calls[c] = ResumeCall(q) /\ RunAt(q).job \in Interrupted
      BY <3>1 DEF Shape, CallsOK, Resuming
    <3>3. {q} = {r}
      BY <2>1, <3>2, ResumeNames
    <3> QED
      BY <3>2, <3>3
  <2>5. r \notin Waiting
    BY <2>4 DEF Waiting, Interrupted
  <2>6. queue' \in Seq(RunIds') /\ Once(queue') /\ ToSet(queue') = Waiting \cup {r}
    BY <2>1, <2>3, <2>5, AppendOnce DEF Shape, InQueue
  <2>7. Waiting' = Waiting \cup {r}
    BY <2>2, <2>3 DEF Waiting
  <2>8. InQueue'
    BY <2>6, <2>7 DEF InQueue, Once
  <2>9. AtWork'
    BY <2>1, <2>3, <2>4, WorkKept DEF Interrupted
  <2>10. \A b \in Callers \ {c} : calls[b] # ResumeCall(r)
    BY <2>1, ResumeNames DEF Shape, CallsOK
  <2>11. CallsOK'
    BY <2>1, <2>3, <2>10, NoCallFacts, CallsChange
  <2> QED
    BY <2>1, <2>3, <2>8, <2>9, <2>11 DEF Shape, Rest
<1>8. ASSUME NEW r \in RunIds, CancelQueued(r)
      PROVE  Shape'
  <2> DEFINE run == [RunAt(r) EXCEPT !.status = "FAILED", !.job = "CANCELED"]
  <2>1. /\ RunAt(r).job = "QUEUED" /\ SetRun(r, run)
        /\ UNCHANGED <<inputs, versions, pc, at, known, todo, plan, calls, halts>>
    BY <1>8 DEF CancelQueued, workerVars
  <2>2. run \in RunType /\ run.job = "CANCELED"
    BY DEF RunType
  <2> HIDE DEF run
  <2>3. /\ RunsOK' /\ RunIds' = RunIds
        /\ \A q \in RunIds : RunAt(q)' = IF q = r THEN run ELSE RunAt(q)
    BY <2>1, <2>2, OneRun
  <2>4. PICK i \in 1 .. Len(queue) : queue[i] = r /\ queue' = RemoveAt(queue, i)
    BY <1>8 DEF CancelQueued
  <2>5. queue' \in Seq(RunIds') /\ Once(queue') /\ ToSet(queue') = Waiting \ {r}
    BY <2>3, <2>4, RemoveOnce DEF Shape, InQueue
  <2>6. Waiting' = Waiting \ {r}
    BY <2>2, <2>3 DEF Waiting
  <2>7. InQueue'
    BY <2>5, <2>6 DEF InQueue, Once
  <2>8. AtWork' /\ CallsOK'
    BY <2>1, <2>2, <2>3, WorkKept, CallsKept DEF Interrupted
  <2> QED
    BY <2>1, <2>3, <2>7, <2>8 DEF Shape, Rest
<1> QED
  BY <1>1, <1>2, <1>3, <1>4, <1>5, <1>6, <1>7, <1>8 DEF Api

\* The worker's steps keep the shape.
LEMMA WorkerShape ==
    ASSUME Shape, Worker
    PROVE  Shape'
<1> USE ShapeTyped
<1>1. CASE Boot
  <2>1. /\ pc = "down" /\ pc' = "ready" /\ todo' = AutoAnalyze
        /\ UNCHANGED <<inputs, versions, queue, at, known, plan, calls, halts>>
    BY <1>1 DEF Boot
  <2>2. /\ runs' \in [Projects -> Seq(Run)] /\ RunIds' = RunIds
        /\ \A q \in RunIds : RunAt(q)' =
              IF RunAt(q).job = "RUNNING" THEN Fail(RunAt(q)) ELSE RunAt(q)
    BY <1>1, BootFacts
  <2>3. \A run \in RunType : Fail(run) \in RunType /\ Fail(run).job = "FAILED"
    BY DEF Fail, RunType
  <2>4. RunsOK'
    BY <2>2, <2>3, ListsTyped
  <2>5. \A q \in RunIds :
           /\ RunAt(q)'.job = "QUEUED" <=> RunAt(q).job = "QUEUED"
           /\ RunAt(q).job \in Interrupted => RunAt(q)'.job \in Interrupted
    BY <2>2, <2>3 DEF Interrupted
  <2>6. InQueue' /\ CallsOK'
    BY <2>1, <2>2, <2>5, QueueKept, CallsKept
  <2>7. AtWork'
    BY <2>1 DEF Shape, AtWork, Busy
  <2> QED
    BY <2>1, <2>4, <2>6, <2>7 DEF Shape, Rest
<1>2. ASSUME NEW p \in Projects, ScheduleRead(p)
      PROVE  Shape'
  <2>1. /\ todo' = todo \ {p}
        /\ plan' \in {None, [project |-> p, signature |-> inputs[p]]}
        /\ UNCHANGED <<inputs, versions, runs, queue, pc, at, known, calls, halts>>
    BY <1>2 DEF ScheduleRead
  <2>2. Rest'
    BY <2>1 DEF Shape, Rest, Plans
  <2>3. RunIds' = RunIds /\ \A q \in RunIds : RunAt(q)' = RunAt(q)
    BY <2>1 DEF RunIds, RunAt
  <2> QED
    BY <2>1, <2>2, <2>3, QueueKept, WorkKept, CallsKept DEF Shape, RunsOK
<1>3. CASE ScheduleInsert
  <2>1. /\ plan # None /\ Insert(plan.project, plan.signature) /\ plan' = None
        /\ UNCHANGED <<inputs, versions, pc, at, known, todo, calls, halts>>
    BY <1>3 DEF ScheduleInsert
  <2>2. plan.project \in Projects /\ plan.signature \in Versions
    BY <2>1 DEF Shape, Rest, Plans
  <2>3. /\ RunsOK' /\ InQueue' /\ RunIds \subseteq RunIds'
        /\ \A q \in RunIds : RunAt(q)' = RunAt(q)
    <3> PICK p \in Projects, signature \in Versions : p = plan.project /\ signature = plan.signature
      BY <2>2
    <3>1. Insert(p, signature)
      BY <2>1
    <3> QED
      BY <3>1, OneMore
  <2> QED
    BY <2>1, <2>3, WorkKept, CallsKept DEF Shape, Rest
<1>4. ASSUME NEW r \in RunIds, Claim(r)
      PROVE  Shape'
  <2> DEFINE run == [RunAt(r) EXCEPT !.job = "RUNNING"]
  <2>1. /\ queue # <<>> /\ r = Head(queue) /\ queue' = Tail(queue)
        /\ SetRun(r, run) /\ at' = r /\ known' = {} /\ pc' = "claimed"
        /\ UNCHANGED <<inputs, versions, todo, plan, calls, halts>>
    BY <1>4 DEF Claim
  <2>2. run \in RunType /\ run.job = "RUNNING"
    BY DEF RunType
  <2> HIDE DEF run
  <2>3. /\ RunsOK' /\ RunIds' = RunIds
        /\ \A q \in RunIds : RunAt(q)' = IF q = r THEN run ELSE RunAt(q)
    BY <2>2, <2>1, OneRun
  <2>4. r \in ToSet(queue)
    <3>1. Len(queue) \in Nat \ {0} /\ Head(queue) = queue[1]
      BY <2>1, EmptySeq DEF Shape, InQueue
    <3> QED
      BY <2>1, <3>1, Elements DEF Shape, InQueue
  <2>5. RunAt(r).job = "QUEUED"
    BY <2>4 DEF Shape, InQueue, Waiting
  <2>6. queue' \in Seq(RunIds') /\ Once(queue') /\ ToSet(queue') = Waiting \ {r}
    BY <2>1, <2>3, TailOnce DEF Shape, InQueue
  <2>7. Waiting' = Waiting \ {r}
    BY <2>2, <2>3 DEF Waiting
  <2>8. InQueue'
    BY <2>6, <2>7 DEF InQueue, Once
  <2>9. CallsOK'
    BY <2>1, <2>3, <2>5, CallsKept DEF Interrupted
  <2>10. AtWork'
    BY <2>1, <2>2, <2>3 DEF AtWork, Busy, RunAt
  <2> QED
    BY <2>1, <2>3, <2>8, <2>9, <2>10 DEF Shape, Rest
<1>5. ASSUME NEW run \in RunType, pc \in Busy, pc' \in Busy, run.job = "RUNNING",
             SetRun(at, run), known' \in SUBSET Versions,
             UNCHANGED <<inputs, versions, queue, at, todo, plan, calls, halts>>
      PROVE  Shape'
  <2>1. at \in RunIds /\ RunAt(at).job = "RUNNING"
    BY <1>5 DEF Shape, AtWork
  <2>2. /\ RunsOK' /\ RunIds' = RunIds
        /\ \A q \in RunIds : RunAt(q)' = IF q = at THEN run ELSE RunAt(q)
    BY <1>5, <2>1, OneRun
  <2>3. \A q \in RunIds : RunAt(q)'.job = RunAt(q).job
    BY <1>5, <2>1, <2>2
  <2>4. InQueue' /\ CallsOK'
    BY <1>5, <2>2, <2>3, QueueKept, CallsKept
  <2>5. RunAt(at)'.job = "RUNNING"
    BY <1>5, <2>1, <2>3 DEF RunAt
  <2>6. AtWork'
    BY <1>5, <2>2, <2>5, WorkGoesOn
  <2>7. Rest'
    BY <1>5 DEF Shape, Rest, Busy
  <2> QED
    BY <2>2, <2>4, <2>6, <2>7 DEF Shape
<1>6. ASSUME NEW run \in RunType, pc \in Busy, pc' = "ready", run.job \in {"COMPLETED", "FAILED"},
             SetRun(at, run), at' = None, todo' \in SUBSET AutoAnalyze,
             UNCHANGED <<inputs, versions, queue, known, plan, calls, halts>>
      PROVE  Shape'
  <2>1. at \in RunIds /\ RunAt(at).job = "RUNNING"
    BY <1>6 DEF Shape, AtWork
  <2>2. /\ RunsOK' /\ RunIds' = RunIds
        /\ \A q \in RunIds : RunAt(q)' = IF q = at THEN run ELSE RunAt(q)
    BY <1>6, <2>1, OneRun
  <2>3. \A q \in RunIds :
           /\ RunAt(q)'.job = "QUEUED" <=> RunAt(q).job = "QUEUED"
           /\ RunAt(q).job \in Interrupted => RunAt(q)'.job \in Interrupted
    BY <1>6, <2>1, <2>2 DEF Interrupted
  <2>4. InQueue' /\ CallsOK'
    BY <1>6, <2>2, <2>3, QueueKept, CallsKept
  <2> QED
    BY <1>6, <2>2, <2>4 DEF Shape, Rest, AtWork, Busy
<1>7. ASSUME pc \in Busy
      PROVE  at \in RunIds /\ at[1] \in Projects /\ RunAt(at) \in RunType /\ RunAt(at).job = "RUNNING"
  BY <1>7, RunIdFacts DEF Shape, AtWork
<1>8. CASE Begin
  <2> DEFINE run == [RunAt(at) EXCEPT !.status = "RUNNING"]
  <2>1. pc \in Busy /\ pc' \in Busy /\ SetRun(at, run)
        /\ UNCHANGED <<inputs, versions, queue, at, known, todo, plan, calls, halts>>
    BY <1>8 DEF Begin, Busy
  <2>2. run \in RunType /\ run.job = "RUNNING"
    BY <1>7, <2>1 DEF RunType
  <2> HIDE DEF run
  <2>3. known' \in SUBSET Versions
    BY <2>1 DEF Shape, Rest
  <2> QED
    BY <1>5, <2>1, <2>2, <2>3
<1>9. CASE Compare
  <2>1. /\ pc \in Busy /\ pc' \in Busy /\ known' = known \cup {inputs[at[1]]}
        /\ UNCHANGED <<inputs, versions, queue, at, todo, plan, calls, halts>>
    BY <1>9 DEF Compare, Busy
  <2>2. PICK v \in known' : SetRun(at, [RunAt(at) EXCEPT !.basis = @ \cup {v}])
    BY <1>9 DEF Compare
  <2> DEFINE run == [RunAt(at) EXCEPT !.basis = @ \cup {v}]
  <2>3. known' \in SUBSET Versions /\ v \in Versions
    BY <1>7, <2>1, <2>2 DEF Shape, Rest
  <2>4. run \in RunType /\ run.job = "RUNNING"
    BY <1>7, <2>1, <2>3 DEF RunType
  <2>5. SetRun(at, run)
    BY <2>2
  <2> HIDE DEF run
  <2> QED
    BY <1>5, <2>1, <2>3, <2>4, <2>5
<1>10. CASE Finish
  <2> DEFINE p == at[1]
  <2>1. /\ pc \in Busy /\ pc' \in Busy
        /\ UNCHANGED <<inputs, versions, queue, at, known, todo, plan, calls, halts>>
    BY <1>10 DEF Finish, Busy
  <2>2. PICK status \in Shown :
          LET done == [RunAt(at) EXCEPT !.status = status]
          IN runs' = IF Outdated(done, p)
                     THEN [Marked(Markable({p})) EXCEPT ![p][at[2]] = Mark(done)]
                     ELSE [runs EXCEPT ![p][at[2]] = done]
    BY <1>10 DEF Finish, Shown, Marked
  <2> DEFINE done == [RunAt(at) EXCEPT !.status = status]
  <2>3. done \in RunType /\ done.job = "RUNNING"
    BY <1>7, <2>1 DEF RunType, Shown
  <2>4. known' \in SUBSET Versions
    BY <2>1 DEF Shape, Rest
  <2>5. CASE ~Outdated(done, p)
    <3>1. SetRun(at, done)
      BY <2>2, <2>5 DEF SetRun
    <3> HIDE DEF done
    <3> QED
      BY <1>5, <2>1, <2>3, <2>4, <3>1
  <2>6. CASE Outdated(done, p)
    <3>1. PICK R : R = Markable({p})
      OBVIOUS
    <3>2. runs' = [Marked(R) EXCEPT ![at[1]][at[2]] = Mark(done)]
      BY <2>2, <2>6, <3>1 DEF Marked
    <3>3. \A run \in RunType : Mark(run) \in RunType /\ Mark(run).job = run.job
      BY DEF Mark, RunType
    <3> HIDE DEF done
    <3>4. Mark(done) \in Run /\ Mark(done) \in RunType /\ Mark(done).job = "RUNNING"
      BY <2>3, <3>3, VersionFacts
    <3>5. /\ runs' \in [Projects -> Seq(Run)] /\ RunIds' = RunIds
          /\ \A q \in RunIds : RunAt(q)' = IF q = at THEN Mark(done)
                                           ELSE IF q \in R THEN Mark(RunAt(q))
                                           ELSE RunAt(q)
      BY <1>7, <2>1, <3>2, <3>4, OutdatedFacts
    <3>6. \A q \in RunIds : RunAt(q)' \in RunType /\ RunAt(q)'.job = RunAt(q).job
      BY <1>7, <2>1, <3>3, <3>4, <3>5
    <3>7. RunsOK' /\ InQueue' /\ CallsOK'
      BY <2>1, <3>5, <3>6, ListsTyped, QueueKept, CallsKept
    <3>8. RunAt(at)'.job = "RUNNING"
      BY <1>7, <2>1, <3>6 DEF RunAt
    <3>9. AtWork'
      BY <2>1, <3>5, <3>8, WorkGoesOn
    <3>10. Rest'
      BY <2>1 DEF Shape, Rest, Busy
    <3> QED
      BY <3>7, <3>9, <3>10 DEF Shape
  <2> QED
    BY <2>5, <2>6
<1>11. CASE Complete
  <2> DEFINE run == [RunAt(at) EXCEPT !.job = "COMPLETED"]
  <2>1. /\ pc \in Busy /\ pc' = "ready" /\ SetRun(at, run) /\ at' = None
        /\ todo' = FollowUp(at[1])
        /\ UNCHANGED <<inputs, versions, queue, known, plan, calls, halts>>
    BY <1>11 DEF Complete, Busy
  <2>2. run \in RunType /\ run.job = "COMPLETED"
    BY <1>7, <2>1 DEF RunType
  <2>3. todo' \in SUBSET AutoAnalyze
    BY <2>1 DEF FollowUp
  <2> HIDE DEF run
  <2> QED
    BY <1>6, <2>1, <2>2, <2>3
<1>12. CASE RunFails
  <2> DEFINE run == Fail(RunAt(at))
  <2>1. /\ pc \in Busy /\ pc' = "ready" /\ SetRun(at, run) /\ at' = None
        /\ UNCHANGED <<inputs, versions, queue, known, todo, plan, calls, halts>>
    BY <1>12 DEF RunFails, Busy
  <2>2. run \in RunType /\ run.job = "FAILED"
    BY <1>7, <2>1 DEF RunType, Fail
  <2>3. todo' \in SUBSET AutoAnalyze
    BY <2>1 DEF Shape, Rest
  <2> HIDE DEF run
  <2> QED
    BY <1>6, <2>1, <2>2, <2>3
<1> QED
  BY <1>1, <1>2, <1>3, <1>4, <1>8, <1>9, <1>10, <1>11, <1>12 DEF Worker

\* The shape is inductive.
LEMMA ShapeStep == Shape /\ [Next]_vars => Shape'
<1> SUFFICES ASSUME Shape, [Next]_vars PROVE Shape'
  OBVIOUS
<1>1. CASE Worker
  BY <1>1, WorkerShape
<1>2. CASE Api
  BY <1>2, ApiShape
<1>3. ASSUME Halt \/ UNCHANGED vars PROVE Shape'
  <2>1. /\ UNCHANGED <<inputs, versions, runs, queue, calls>> /\ halts' \in Nat
        /\ \/ pc' = "down" /\ at' = None /\ known' = {} /\ todo' = {} /\ plan' = None
           \/ UNCHANGED <<pc, at, known, todo, plan>>
    BY <1>3 DEF Halt, vars, workerVars, Shape, Rest
  <2>2. RunIds' = RunIds /\ \A q \in RunIds : RunAt(q)' = RunAt(q)
    BY <2>1 DEF RunIds, RunAt
  <2>3. InQueue' /\ CallsOK' /\ RunsOK'
    BY <2>1, <2>2, QueueKept, CallsKept DEF Shape, RunsOK
  <2>4. Rest'
    BY <2>1 DEF Shape, Rest
  <2>5. AtWork'
    <3>1. CASE pc' = "down" /\ at' = None
      BY <3>1 DEF AtWork, Busy
    <3>2. CASE UNCHANGED <<pc, at, known, todo, plan>>
      BY <2>2, <3>2, WorkKept
    <3> QED
      BY <2>1, <3>1, <3>2
  <2> QED
    BY <2>3, <2>4, <2>5 DEF Shape
<1> QED
  BY <1>1, <1>2, <1>3 DEF Next

\* There are no runs, jobs or calls at first.
LEMMA ShapeInit == Init => Shape
<1> SUFFICES ASSUME Init PROVE Shape
  OBVIOUS
<1>1. /\ inputs = [p \in Projects |-> 0] /\ versions = 0
      /\ runs = [p \in Projects |-> <<>>] /\ queue = <<>>
      /\ pc = "down" /\ at = None /\ known = {} /\ todo = {} /\ plan = None
      /\ calls = [c \in Callers |-> NoCall] /\ halts = 0
  BY DEF Init
<1>2. 0 \in Versions /\ versions \in Nat
  BY <1>1, FreshnessAssumption DEF Versions
<1>3. Rest
  BY <1>1, <1>2 DEF Rest
<1>4. RunsOK /\ RunIds = {}
  BY <1>1 DEF RunsOK, RunIds
<1>5. InQueue
  <2>1. ToSet(queue) = {}
    BY <1>1 DEF ToSet
  <2>2. Waiting = {}
    BY <1>4 DEF Waiting
  <2> QED
    BY <1>1, <2>1, <2>2 DEF InQueue, Once
<1>6. AtWork
  BY <1>1 DEF AtWork, Busy
<1>7. CallsOK
  BY <1>1, NoCallFacts DEF CallsOK
<1> QED
  BY <1>3, <1>4, <1>5, <1>6, <1>7 DEF Shape

\* Every variable has its type, the queue holds the runs whose job is queued, and
\* the worker is at a run exactly while it works on one, whose job is then running:
\* for any projects, edits of any kind, runs, resumptions, crashes and callers.
THEOREM TypeCorrect == Spec => []TypeOK
<1>1. Init => Shape
  BY ShapeInit
<1>2. Shape /\ [Next]_vars => Shape'
  BY ShapeStep
<1>3. Shape => TypeOK
  BY ShapeIsTyped
<1> QED
  BY <1>1, <1>2, <1>3, PTL DEF Spec

(***************************************************************************)
(* Automatic analysis does not repeat itself.                              *)
(***************************************************************************)
\* What the worker has decided to insert is still news when it inserts it: nobody
\* starts analyses by hand, and edits add runs on later inputs only.
PlanIsNews ==
    plan # None /\ runs[plan.project] # <<>> =>
        LastRun(plan.project).signature # plan.signature
NoStarts == \A c \in Callers : calls[c].op # "start"
News == IInv /\ PlanIsNews /\ NoStarts

\* One step adds no run on the inputs of the project's last one.
NothingRepeated ==
    \A p \in Projects :
        Len(runs'[p]) > Len(runs[p]) /\ runs[p] # <<>> =>
            LastRun(p)'.signature # LastRun(p).signature

\* A project has no run exactly while the list of its runs has no length.
LEMMA EmptyRuns ==
    ASSUME Typed, NEW p \in Projects
    PROVE  /\ Len(runs[p]) \in Nat
           /\ runs[p] # <<>> => /\ Len(runs[p]) > 0
                                /\ <<p, Len(runs[p])>> \in RunIds
                                /\ LastRun(p) = RunAt(<<p, Len(runs[p])>>)
<1>1. runs[p] \in Seq(Run) /\ Len(runs[p]) \in Nat
  BY RunIdFacts DEF Typed
<1>2. runs[p] # <<>> => Len(runs[p]) \in Nat \ {0}
  BY <1>1, EmptySeq
<1> QED
  BY <1>1, <1>2, RunIdFacts DEF LastRun

\* A step that neither adds runs nor touches signatures repeats nothing, and what was
\* news stays so.
LEMMA SignaturesKept ==
    ASSUME News, Typed', RunIds' = RunIds, NoStarts', plan' \in {plan, None},
           \A q \in RunIds : RunAt(q)'.signature = RunAt(q).signature
    PROVE  PlanIsNews' /\ NothingRepeated
<1>1. ASSUME NEW p \in Projects
      PROVE  /\ Len(runs'[p]) = Len(runs[p])
             /\ runs'[p] # <<>> => /\ runs[p] # <<>>
                                   /\ LastRun(p)'.signature = LastRun(p).signature
  <2>1. Typed /\ Len(runs[p]) \in Nat /\ Len(runs'[p]) \in Nat
    BY RunIdFacts, LenProperties DEF News, IInv, Typed
  <2>2. \A i \in 1 .. Len(runs'[p]) : <<p, i>> \in RunIds
    <3>1. \A i \in 1 .. Len(runs'[p]) : <<p, i>> \in RunIds'
      BY DEF RunIds
    <3> QED
      BY <3>1
  <2>3. \A i \in 1 .. Len(runs[p]) : <<p, i>> \in RunIds'
    BY <2>1, RunIdFacts
  <2>4. \A i \in 1 .. Len(runs'[p]) : i \in 1 .. Len(runs[p])
    BY <2>1, <2>2, RunIdFacts
  <2>5. \A i \in 1 .. Len(runs[p]) : i \in 1 .. Len(runs'[p])
    BY <2>3 DEF RunIds
  <2>6. Len(runs'[p]) = Len(runs[p])
    <3>1. ~(Len(runs'[p]) > Len(runs[p]))
      BY <2>1, <2>4
    <3>2. ~(Len(runs[p]) > Len(runs'[p]))
      BY <2>1, <2>5
    <3> QED
      BY <3>1, <3>2, <2>1
  <2>7. ASSUME runs'[p] # <<>>
        PROVE  runs[p] # <<>> /\ LastRun(p)'.signature = LastRun(p).signature
    <3>1. runs'[p] \in Seq(Run) /\ runs[p] \in Seq(Run)
      BY <2>1 DEF Typed
    <3>2. Len(runs'[p]) \in Nat \ {0}
      BY <2>7, <3>1, EmptySeq
    <3>3. runs[p] # <<>>
      BY <3>2, <2>6, EmptySeq
    <3> PICK q : q = <<p, Len(runs[p])>>
      OBVIOUS
    <3>4. q \in RunIds /\ LastRun(p) = RunAt(q)
      BY <2>1, <3>3, EmptyRuns
    <3>5. LastRun(p)' = RunAt(q)'
      BY <2>6 DEF LastRun, RunAt
    <3>6. RunAt(q)'.signature = RunAt(q).signature
      BY <3>4
    <3>7. LastRun(p)'.signature = LastRun(p).signature
      BY <3>4, <3>5, <3>6
    <3> QED
      BY <3>3, <3>7
  <2> QED
    BY <2>6, <2>7
<1>2. NothingRepeated
  BY <1>1, RunIdFacts DEF NothingRepeated, News, IInv
<1>3. PlanIsNews'
  <2>1. CASE plan' = None
    BY <2>1 DEF PlanIsNews
  <2>2. CASE plan' = plan /\ plan # None
    <3>1. PICK p \in Projects : p = plan.project
      BY <2>2 DEF News, IInv, GoodPlan
    <3>2. runs'[p] # <<>> =>
             LastRun(p)'.signature = LastRun(p).signature /\ runs[p] # <<>>
      BY <1>1
    <3>3. runs[p] # <<>> => LastRun(p).signature # plan.signature
      BY <2>2, <3>1 DEF PlanIsNews, News
    <3>4. runs'[p] # <<>> => LastRun(p)'.signature # plan.signature
      BY <3>2, <3>3
    <3> QED
      BY <2>2, <3>1, <3>4 DEF PlanIsNews, LastRun
  <2> QED
    BY <2>1, <2>2
<1> QED
  BY <1>2, <1>3

\* The worker inserts what it decided on the strength of what it read, and that is still news.
LEMMA InsertIsNews ==
    ASSUME News, ScheduleInsert
    PROVE  PlanIsNews' /\ NothingRepeated
<1>1. plan # None /\ Insert(plan.project, plan.signature) /\ plan' = None
  BY DEF ScheduleInsert
<1>2. plan.project \in Projects /\ plan.signature \in Nat /\ Typed
  BY <1>1 DEF News, IInv, GoodPlan
<1> PICK p \in Projects, signature \in Nat : p = plan.project /\ signature = plan.signature
  BY <1>2
<1>3. /\ \A q \in RunIds' \ RunIds : q[1] = p /\ RunAt(q)' = NewRun(signature)
      /\ \A q \in Projects : Len(runs'[q]) = IF q = p THEN Len(runs[q]) + 1 ELSE Len(runs[q])
      /\ RunIds' \ RunIds = {<<p, Len(runs[p]) + 1>>}
  BY <1>1, <1>2, InsertFacts
<1>4. LastRun(p)'.signature = signature
  <2> PICK q : q = <<p, Len(runs[p]) + 1>>
    OBVIOUS
  <2>1. RunAt(q)' = NewRun(signature)
    BY <1>3
  <2>2. LastRun(p)' = RunAt(q)'
    BY <1>3 DEF LastRun, RunAt
  <2> QED
    BY <2>1, <2>2 DEF NewRun
<1>5. runs[p] # <<>> => LastRun(p).signature # signature
  BY <1>1 DEF News, PlanIsNews
<1>6. NothingRepeated
  BY <1>2, <1>3, <1>4, <1>5, EmptyRuns DEF NothingRepeated
<1> QED
  BY <1>1, <1>6 DEF PlanIsNews

\* An edit adds one run to the projects it schedules and none to others.
LEMMA LongerIfScheduled ==
    ASSUME Typed, NEW R, NEW S \in SUBSET Projects, NEW signatures \in [Projects -> Nat],
           MarkAndSchedule(R, S, signatures), NEW p \in Projects
    PROVE  Len(runs'[p]) =
              IF p \in ToSchedule(S, signatures) THEN Len(runs[p]) + 1 ELSE Len(runs[p])
<1>1. \A q \in Projects : Len(runs'[q]) =
         IF q \in ToSchedule(S, signatures) THEN Len(runs[q]) + 1 ELSE Len(runs[q])
  BY ScheduleFacts
<1> QED
  BY <1>1

\* An edit adds runs on the new state of the inputs, which nobody can have planned for.
LEMMA EditIsNews ==
    ASSUME News, NEW P \in Scopes, NEW kind \in EditKinds, LockedEdit(P, kind)
    PROVE  PlanIsNews' /\ NothingRepeated
<1>1. /\ versions' = versions + 1 /\ inputs' = Edited(P, versions + 1) /\ plan' = plan
  BY DEF LockedEdit, workerVars
<1>2. Typed
  BY DEF News, IInv
<1>3. PICK S \in SUBSET Projects : S = IF kind = "stamped" THEN P ELSE {}
  BY DEF Scopes
<1>4. inputs' \in [Projects -> Nat]
  BY <1>1, <1>2 DEF Edited, Typed
<1> PICK signatures \in [Projects -> Nat] : signatures = inputs'
  BY <1>4
<1> PICK R : R = Markable(P)
  OBVIOUS
<1>5. MarkAndSchedule(R, S, signatures)
  BY <1>3 DEF LockedEdit
<1> PICK scheduled \in SUBSET Projects : scheduled = ToSchedule(S, signatures)
  BY DEF ToSchedule
<1>6. /\ \A q \in RunIds : RunAt(q)' = IF q \in R THEN Mark(RunAt(q)) ELSE RunAt(q)
      /\ \A p \in Projects : Len(runs'[p]) =
            IF p \in scheduled THEN Len(runs[p]) + 1 ELSE Len(runs[p])
      /\ runs' \in [Projects -> Seq(Run)]
  <2>1. \A q \in RunIds : RunAt(q)' = IF q \in R THEN Mark(RunAt(q)) ELSE RunAt(q)
    BY <1>2, <1>5, ScheduleFacts
  <2>2. ASSUME NEW p \in Projects
        PROVE  Len(runs'[p]) = IF p \in scheduled THEN Len(runs[p]) + 1 ELSE Len(runs[p])
    BY <1>2, <1>5, LongerIfScheduled
  <2>3. runs' \in [Projects -> Seq(Run)]
    BY <1>2, <1>5, ScheduleFacts
  <2> QED
    BY <2>1, <2>2, <2>3
<1>7. RunIds' \ RunIds = {<<p, Len(runs[p]) + 1>> : p \in scheduled}
  BY <1>2, <1>5, ScheduleFacts
<1>8. ASSUME NEW q \in RunIds' \ RunIds PROVE RunAt(q)' = NewRun(signatures[q[1]])
  BY <1>2, <1>5, ScheduleFacts
<1>9. ASSUME NEW p \in scheduled
      PROVE  LastRun(p)'.signature = signatures[p]
  <2> PICK q : q = <<p, Len(runs[p]) + 1>>
    OBVIOUS
  <2>1. RunAt(q)' = NewRun(signatures[p])
    BY <1>7, <1>8
  <2>2. LastRun(p)' = RunAt(q)'
    BY <1>6 DEF LastRun, RunAt
  <2> QED
    BY <2>1, <2>2 DEF NewRun
<1>10. ASSUME NEW p \in Projects \ scheduled, runs'[p] # <<>>
       PROVE  runs[p] # <<>> /\ LastRun(p)'.signature = LastRun(p).signature
  <2>1. Len(runs'[p]) = Len(runs[p]) /\ Len(runs'[p]) \in Nat \ {0}
    BY <1>6, <1>10, EmptySeq
  <2>2. runs[p] # <<>>
    BY <2>1, EmptySeq
  <2> PICK q : q = <<p, Len(runs[p])>>
    OBVIOUS
  <2>3. q \in RunIds /\ LastRun(p) = RunAt(q) /\ RunAt(q) \in Run
    BY <1>2, <2>2, EmptyRuns, RunIdFacts
  <2>4. LastRun(p)' = RunAt(q)'
    BY <2>1 DEF LastRun, RunAt
  <2>5. RunAt(q)'.signature = RunAt(q).signature
    BY <1>6, <2>3, MarkType
  <2>6. LastRun(p)'.signature = LastRun(p).signature
    BY <2>3, <2>4, <2>5
  <2> QED
    BY <2>2, <2>6
<1>11. \A p \in scheduled : runs[p] # <<>> => LastRun(p).signature # signatures[p]
  BY DEF ToSchedule, NeedsAnalysis
<1>12. NothingRepeated
  <2>1. ASSUME NEW p \in Projects, Len(runs'[p]) > Len(runs[p]), runs[p] # <<>>
        PROVE  LastRun(p)'.signature # LastRun(p).signature
    <3>1. p \in scheduled
      BY <1>2, <1>6, <2>1, EmptyRuns
    <3> QED
      BY <1>9, <1>11, <2>1, <3>1
  <2> QED
    BY <2>1 DEF NothingRepeated
<1>13. PlanIsNews'
  <2>1. ASSUME plan # None, NEW p \in Projects, p = plan.project, runs'[p] # <<>>
        PROVE  LastRun(p)'.signature # plan.signature
    <3>1. plan.signature \in Nat /\ plan.signature <= inputs[p] /\ inputs[p] <= versions
          /\ inputs[p] \in Nat /\ versions \in Nat
      BY <2>1, <1>2 DEF News, IInv, GoodPlan, Typed
    <3>2. CASE p \in scheduled
      <4>1. p \in P
        BY <1>3, <3>2 DEF ToSchedule
      <4>2. signatures[p] = versions + 1
        BY <1>1, <4>1 DEF Edited
      <4>3. LastRun(p)'.signature = signatures[p]
        BY <1>9, <3>2
      <4> QED
        BY <3>1, <4>2, <4>3
    <3>3. CASE p \notin scheduled
      BY <1>10, <2>1, <3>3 DEF News, PlanIsNews
    <3> QED
      BY <3>2, <3>3
  <2>2. plan # None => plan.project \in Projects
    BY DEF News, IInv, GoodPlan
  <2> QED
    BY <1>1, <2>1, <2>2 DEF PlanIsNews, LastRun
<1> QED
  BY <1>12, <1>13

\* Replacing a run by one of the same signature adds nothing.
LEMMA SameSignature ==
    ASSUME News, NoStarts', Typed', NEW r \in RunIds, NEW run \in Run, SetRun(r, run),
           run.signature = RunAt(r).signature, plan' \in {plan, None}
    PROVE  PlanIsNews' /\ NothingRepeated
<1>1. RunIds' = RunIds /\ \A q \in RunIds : RunAt(q)' = IF q = r THEN run ELSE RunAt(q)
  BY SetRunFacts DEF News, IInv
<1> QED
  BY <1>1, SignaturesKept

\* Nobody begins to start an analysis by hand if no run may be added that way.
LEMMA NobodyStarts ==
    ASSUME News, MaxManual = 0, [Next]_vars
    PROVE  NoStarts'
<1>1. calls = [c \in Callers |-> calls[c]] /\ NoStarts
  BY DEF News, IInv, GoodCalls
<1>2. ASSUME NEW c \in Callers, NEW call, call.op # "start", calls' = [calls EXCEPT ![c] = call]
      PROVE  NoStarts'
  <2>1. calls' = [b \in Callers |-> IF b = c THEN call ELSE calls[b]]
    BY <1>1, <1>2
  <2> QED
    BY <1>1, <1>2, <2>1 DEF NoStarts
<1>3. ASSUME NEW c \in Callers, NEW P \in Scopes, PlainEditRead(c, P) PROVE NoStarts'
  <2>1. calls' = [calls EXCEPT ![c] = EditCall(P)] /\ EditCall(P).op # "start"
    BY <1>3 DEF PlainEditRead, EditCall
  <2> QED
    BY <1>2, <2>1
<1>4. ASSUME NEW c \in Callers, calls' = [calls EXCEPT ![c] = NoCall] PROVE NoStarts'
  <2>1. NoCall.op # "start"
    BY DEF NoCall
  <2> QED
    BY <1>2, <1>4, <2>1
<1>5. ASSUME NEW c \in Callers, NEW p \in Projects, StartRead(c, p) PROVE NoStarts'
  <2>1. Len(runs[p]) \in Nat
    BY EmptyRuns DEF News, IInv
  <2> QED
    BY <1>5, <2>1 DEF StartRead
<1>6. ASSUME NEW c \in Callers, NEW r \in RunIds, ResumeRead(c, r) PROVE NoStarts'
  <2>1. calls' = [calls EXCEPT ![c] = ResumeCall(r)] /\ ResumeCall(r).op # "start"
    BY <1>6, ResumeNames DEF ResumeRead
  <2> QED
    BY <1>2, <2>1
<1>7. ASSUME UNCHANGED calls PROVE NoStarts'
  BY <1>1, <1>7 DEF NoStarts
<1>8. CASE Api
  <2>1. \/ \E c \in Callers : \/ calls' = [calls EXCEPT ![c] = NoCall]
                              \/ \E P \in Scopes : PlainEditRead(c, P)
                              \/ \E p \in Projects : StartRead(c, p)
                              \/ \E r \in RunIds : ResumeRead(c, r)
        \/ UNCHANGED calls
    BY <1>8 DEF Api, LockedEdit, PlainEditCommit, StartCommit, ResumeCommit, CancelQueued
  <2> QED
    BY <1>3, <1>4, <1>5, <1>6, <1>7, <2>1
<1>9. CASE Worker
  <2>1. UNCHANGED calls
    BY <1>9 DEF Worker, Boot, ScheduleRead, ScheduleInsert, Claim, Begin, Compare, Finish,
                Complete, RunFails
  <2> QED
    BY <1>7, <2>1
<1>10. CASE Halt \/ UNCHANGED vars
  BY <1>7, <1>10 DEF Halt, vars
<1> QED
  BY <1>8, <1>9, <1>10 DEF Next

\* No step repeats an analysis on the inputs of the last one.
LEMMA NewsStep ==
    ASSUME News, IInv', "plain" \notin EditKinds, MaxManual = 0, [Next]_vars
    PROVE  News' /\ NothingRepeated
<1> SUFFICES PlanIsNews' /\ NothingRepeated
  BY NobodyStarts DEF News
<1>1. NoStarts' /\ Typed' /\ Typed
  BY NobodyStarts DEF News, IInv
<1>2. ASSUME UNCHANGED runs, plan' \in {plan, None}
      PROVE  PlanIsNews' /\ NothingRepeated
  <2>1. RunIds' = RunIds /\ \A q \in RunIds : RunAt(q)' = RunAt(q)
    BY <1>2 DEF RunIds, RunAt
  <2> QED
    BY <1>1, <1>2, <2>1, SignaturesKept
<1>3. CASE Api
  <2>1. ASSUME NEW P \in Scopes, NEW kind \in EditKinds, LockedEdit(P, kind)
        PROVE  PlanIsNews' /\ NothingRepeated
    BY <2>1, EditIsNews
  <2>2. ASSUME NEW c \in Callers, NEW v \in 0 .. MaxVersions, PlainEditCommit(c, v)
        PROVE  FALSE
    BY <2>2 DEF PlainEditCommit, News, IInv, GoodCalls, GoodCall
  <2>3. ASSUME NEW c \in Callers, NEW p \in Projects, StartCommit(c, p)
        PROVE  FALSE
    BY <2>3 DEF StartCommit, News, NoStarts
  <2>4. ASSUME NEW c \in Callers, NEW r \in RunIds, ResumeCommit(c, r)
        PROVE  PlanIsNews' /\ NothingRepeated
    <3> DEFINE run == [RunAt(r) EXCEPT !.status = "DRAFT", !.job = "QUEUED"]
    <3>1. SetRun(r, run) /\ plan' = plan
      BY <2>4 DEF ResumeCommit, workerVars
    <3>2. run \in Run /\ run.signature = RunAt(r).signature
      BY <1>1, RunIdFacts DEF Run, Statuses, JobStates
    <3> HIDE DEF run
    <3> QED
      BY <1>1, <3>1, <3>2, SameSignature
  <2>5. ASSUME NEW r \in RunIds, CancelQueued(r)
        PROVE  PlanIsNews' /\ NothingRepeated
    <3> DEFINE run == [RunAt(r) EXCEPT !.status = "FAILED", !.job = "CANCELED"]
    <3>1. SetRun(r, run) /\ plan' = plan
      BY <2>5 DEF CancelQueued, workerVars
    <3>2. run \in Run /\ run.signature = RunAt(r).signature
      BY <1>1, RunIdFacts DEF Run, Statuses, JobStates
    <3> HIDE DEF run
    <3> QED
      BY <1>1, <3>1, <3>2, SameSignature
  <2>6. ASSUME NEW c \in Callers,
               \/ \E P \in Scopes : PlainEditRead(c, P)
               \/ \E p \in Projects : StartRead(c, p)
               \/ \E r \in RunIds : ResumeRead(c, r)
        PROVE  PlanIsNews' /\ NothingRepeated
    BY <1>2, <2>6 DEF PlainEditRead, StartRead, ResumeRead, workerVars
  <2> QED
    BY <1>3, <2>1, <2>2, <2>3, <2>4, <2>5, <2>6 DEF Api
<1>4. CASE Worker
  <2> DEFINE Same == PlanIsNews' /\ NothingRepeated
  <2>1. CASE Boot
    <3>1. /\ RunIds' = RunIds /\ plan' = plan
          /\ \A q \in RunIds : RunAt(q)' =
                IF RunAt(q).job = "RUNNING" THEN Fail(RunAt(q)) ELSE RunAt(q)
      BY <1>1, <2>1, BootFacts DEF Boot
    <3>2. \A q \in RunIds : Fail(RunAt(q)).signature = RunAt(q).signature
      BY <1>1, RunIdFacts DEF Fail, Run
    <3>3. \A q \in RunIds : RunAt(q)'.signature = RunAt(q).signature
      BY <3>1, <3>2
    <3> QED
      BY <1>1, <3>1, <3>3, SignaturesKept
  <2>2. ASSUME NEW p \in Projects, ScheduleRead(p)
        PROVE  Same
    <3>1. UNCHANGED runs
      BY <2>2 DEF ScheduleRead
    <3>2. NothingRepeated
      BY <1>1, <3>1, RunIdFacts DEF NothingRepeated
    <3>3. CASE plan' = None
      BY <3>2, <3>3 DEF PlanIsNews
    <3>4. CASE plan' # None
      <4>1. NeedsAnalysis(p, inputs[p]) /\ plan' = [project |-> p, signature |-> inputs[p]]
        BY <2>2, <3>4 DEF ScheduleRead
      <4>2. runs'[p] # <<>> => LastRun(p)'.signature # inputs[p]
        BY <3>1, <4>1 DEF NeedsAnalysis, LastRun
      <4>3. PlanIsNews'
        BY <4>1, <4>2 DEF PlanIsNews, LastRun
      <4> QED
        BY <3>2, <4>3
    <3> QED
      BY <3>3, <3>4
  <2>3. CASE ScheduleInsert
    BY <2>3, InsertIsNews
  <2>4. ASSUME NEW r \in RunIds, Claim(r)
        PROVE  Same
    <3> DEFINE run == [RunAt(r) EXCEPT !.job = "RUNNING"]
    <3>1. SetRun(r, run) /\ plan' = plan
      BY <2>4 DEF Claim
    <3>2. run \in Run /\ run.signature = RunAt(r).signature
      BY <1>1, RunIdFacts DEF Run, JobStates
    <3> HIDE DEF run
    <3> QED
      BY <1>1, <3>1, <3>2, SameSignature
  <2>5. ASSUME pc \in Busy PROVE at \in RunIds /\ RunAt(at) \in Run /\ at[1] \in Projects
    BY <1>1, <2>5, RunIdFacts DEF News, IInv, GoodWorker
  <2>6. ASSUME pc \in Busy, NEW run \in Run, run.signature = RunAt(at).signature,
               SetRun(at, run), UNCHANGED plan
        PROVE  Same
    <3> PICK r \in RunIds : r = at
      BY <2>5, <2>6
    <3>1. SetRun(r, run) /\ run.signature = RunAt(r).signature
      BY <2>6
    <3> QED
      BY <1>1, <2>6, <3>1, SameSignature
  <2>7. CASE Begin
    <3> DEFINE run == [RunAt(at) EXCEPT !.status = "RUNNING"]
    <3>1. pc \in Busy /\ SetRun(at, run) /\ UNCHANGED plan
      BY <2>7 DEF Begin, Busy
    <3>2. run \in Run /\ run.signature = RunAt(at).signature
      BY <2>5, <3>1 DEF Run, Statuses
    <3> HIDE DEF run
    <3> QED
      BY <2>6, <3>1, <3>2
  <2>8. CASE Compare
    <3>1. pc \in Busy /\ known' = known \cup {inputs[at[1]]} /\ UNCHANGED plan
      BY <2>8 DEF Compare, Busy
    <3>2. PICK v \in known' : SetRun(at, [RunAt(at) EXCEPT !.basis = @ \cup {v}])
      BY <2>8 DEF Compare
    <3>3. known \in SUBSET Nat /\ inputs[at[1]] \in Nat
      BY <2>5, <3>1 DEF News, IInv, GoodWorker, Typed, GoodRuns, GoodRun, Run
    <3> DEFINE run == [RunAt(at) EXCEPT !.basis = @ \cup {v}]
    <3>4. run \in Run /\ run.signature = RunAt(at).signature
      BY <2>5, <3>1, <3>2, <3>3 DEF Run
    <3>5. SetRun(at, run)
      BY <3>2
    <3> HIDE DEF run
    <3> QED
      BY <2>6, <3>1, <3>4, <3>5
  <2>9. CASE Finish
    <3> DEFINE p == at[1]
    <3>1. pc \in Busy /\ UNCHANGED <<plan, at>>
      BY <2>9 DEF Finish, Busy
    <3>2. PICK status \in Shown :
            LET done == [RunAt(at) EXCEPT !.status = status]
            IN runs' = IF Outdated(done, p)
                       THEN [Marked(Markable({p})) EXCEPT ![p][at[2]] = Mark(done)]
                       ELSE [runs EXCEPT ![p][at[2]] = done]
      BY <2>9 DEF Finish, Shown, Marked
    <3> DEFINE done == [RunAt(at) EXCEPT !.status = status]
    <3>3. done \in Run /\ done.signature = RunAt(at).signature
      BY <2>5, <3>1 DEF Run, Statuses, Shown
    <3>4. CASE ~Outdated(done, p)
      <4>1. SetRun(at, done)
        BY <3>2, <3>4 DEF SetRun
      <4> HIDE DEF done
      <4> QED
        BY <2>6, <3>1, <3>3, <4>1
    <3>5. CASE Outdated(done, p)
      <4>1. PICK R : R = Markable({p})
        OBVIOUS
      <4>2. runs' = [Marked(R) EXCEPT ![at[1]][at[2]] = Mark(done)]
        BY <3>2, <3>5, <4>1 DEF Marked
      <4> HIDE DEF done
      <4>3. Mark(done) \in Run /\ Mark(done).signature = RunAt(at).signature
        BY <3>3, MarkType
      <4>4. /\ RunIds' = RunIds
            /\ \A q \in RunIds : RunAt(q)' = IF q = at THEN Mark(done)
                                             ELSE IF q \in R THEN Mark(RunAt(q))
                                             ELSE RunAt(q)
        BY <1>1, <2>5, <3>1, <4>2, <4>3, OutdatedFacts
      <4>5. \A q \in RunIds : Mark(RunAt(q)).signature = RunAt(q).signature
        BY <1>1, RunIdFacts, MarkType
      <4>6. \A q \in RunIds : RunAt(q)'.signature = RunAt(q).signature
        BY <4>3, <4>4, <4>5
      <4> QED
        BY <1>1, <3>1, <4>4, <4>6, SignaturesKept
    <3> QED
      BY <3>4, <3>5
  <2>10. CASE Complete
    <3> DEFINE run == [RunAt(at) EXCEPT !.job = "COMPLETED"]
    <3>1. pc \in Busy /\ SetRun(at, run) /\ UNCHANGED plan
      BY <2>10 DEF Complete, Busy
    <3>2. run \in Run /\ run.signature = RunAt(at).signature
      BY <2>5, <3>1 DEF Run, JobStates
    <3> HIDE DEF run
    <3> QED
      BY <2>6, <3>1, <3>2
  <2>11. CASE RunFails
    <3> DEFINE run == Fail(RunAt(at))
    <3>1. pc \in Busy /\ SetRun(at, run) /\ UNCHANGED plan
      BY <2>11 DEF RunFails, Busy
    <3>2. run \in Run /\ run.signature = RunAt(at).signature
      BY <2>5, <3>1 DEF Run, JobStates, Statuses, Fail
    <3> HIDE DEF run
    <3> QED
      BY <2>6, <3>1, <3>2
  <2> QED
    BY <1>4, <2>1, <2>2, <2>3, <2>4, <2>7, <2>8, <2>9, <2>10, <2>11 DEF Worker
<1>5. CASE Halt \/ UNCHANGED vars
  BY <1>2, <1>5 DEF Halt, vars, workerVars
<1> QED
  BY <1>3, <1>4, <1>5 DEF Next

\* If every edit takes the write lock before it selects the runs to mark, and nobody
\* starts analyses by hand, no run is added on the inputs the project's last run
\* had: failures, cancellations, crashes and follow-ups repeat nothing, for any
\* numbers of projects, runs, edits and callers.
THEOREM NothingIsRepeated ==
    ASSUME "plain" \notin EditKinds, MaxManual = 0
    PROVE  Spec => NoRerunOfSameInputs
<1>1. Init => News
  <2>1. Init => PlanIsNews /\ NoStarts
    BY DEF Init, PlanIsNews, NoStarts, NoCall
  <2> QED
    BY <2>1, Initially DEF News
<1>2. News /\ [Next]_vars => News' /\ NothingRepeated
  BY Step, NewsStep DEF News
<1>3. NothingRepeated =>
        (\A p \in Projects :
            Len(runs'[p]) > Len(runs[p]) /\ runs[p] # <<>> =>
                LastRun(p)'.signature # LastRun(p).signature)
  BY DEF NothingRepeated
<1> QED
  BY <1>1, <1>2, <1>3, PTL DEF Spec, NoRerunOfSameInputs
=============================================================================
