--------------------------- MODULE JobQueue_proofs ---------------------------
(***************************************************************************)
(* Proofs about JobQueue, for any number of callers, documents, runs, jobs *)
(* and crashes: first with any number of workers, then with a single one.  *)
(***************************************************************************)
EXTENDS JobQueue, TLAPS

(***************************************************************************)
(* A row that exists keeps existing: no statement writes "NONE".           *)
(***************************************************************************)
LEMMA CreatedGrows ==
    ASSUME NEW S \in [Jobs -> JobStatuses],
           status \in [Jobs -> JobStatuses], status' = S,
           \A j \in Created : S[j] # "NONE"
    PROVE  Created \subseteq Created'
  BY DEF Created

\* A verdict on several rows only writes statuses, and rows that exist.
LEMMA SettleFacts ==
    ASSUME TypeOK,
           NEW C \in SUBSET Created, NEW F \in SUBSET Created, NEW R \in SUBSET Created,
           Settle(C, F, R)
    PROVE  /\ status' \in [Jobs -> JobStatuses]
           /\ Created' = Created
           /\ expired' \in SUBSET {j \in Jobs : status'[j] = "RUNNING"}
           /\ targetStatus' \in [Targets -> TargetStatuses]
  <1>1. status' \in [Jobs -> JobStatuses]
    BY DEF Settle, SettledStatus, TypeOK, JobStatuses, Active, Finished
  <1>2. Created' = Created
    BY <1>1 DEF Settle, SettledStatus, TypeOK, Created
  <1>3. expired' \in SUBSET {j \in Jobs : status'[j] = "RUNNING"}
    BY DEF Settle, SettledStatus, TypeOK
  <1>4. targetStatus' \in [Targets -> TargetStatuses]
    BY DEF Settle, SettledTargets, TypeOK, TargetStatuses
  <1> QED
    BY <1>1, <1>2, <1>3, <1>4

\* A worker that settles several jobs and goes on keeps every type.
LEMMA SettleType ==
    ASSUME TypeOK, NEW w \in Workers, NEW label \in Labels \ Holding,
           NEW C \in SUBSET Created, NEW F \in SUBSET Created, NEW R \in SUBSET Created,
           Settle(C, F, R), pc' = [pc EXCEPT ![w] = label],
           seen' = seen \/ seen' = [seen EXCEPT ![w] = NothingSeen],
           UNCHANGED <<held, calls, halts>>
    PROVE  TypeOK'
  <1>1. /\ status' \in [Jobs -> JobStatuses]
        /\ Created' = Created
        /\ expired' \in SUBSET {j \in Jobs : status'[j] = "RUNNING"}
        /\ targetStatus' \in [Targets -> TargetStatuses]
    BY SettleFacts
  <1>2. UNCHANGED <<target, attempts, cancelRequested, delayed>>
    BY DEF Settle
  <1>3. Calls' = Calls
    BY <1>1 DEF Calls
  <1>4. seen' \in [Workers -> [canceled : SUBSET Created, failed : SUBSET Created,
                              requeued : SUBSET Created]]
    BY DEF TypeOK, NothingSeen
  <1>5. /\ pc' \in [Workers -> Labels]
        /\ \A v \in Workers : pc'[v] \in Holding => held'[v] \in Created'
    BY <1>1 DEF TypeOK
  <1> QED
    BY <1>1, <1>2, <1>3, <1>4, <1>5 DEF TypeOK

\* fail_running_jobs selects rows that exist.
LEMMA BootSelectionType ==
    ASSUME TypeOK
    PROVE  BootSelection \in [canceled : SUBSET Created, failed : SUBSET Created,
                              requeued : SUBSET Created]
  BY DEF BootSelection, TypeOK, Created

\* Enqueueing changes the statuses and targets of rows that do not exist yet.
LEMMA InsertFacts ==
    ASSUME TypeOK, NEW t \in Targets, NEW j \in Jobs, NextJob(j), Insert(j, t)
    PROVE  /\ status' \in [Jobs -> JobStatuses]
           /\ target' \in [Jobs -> Targets \cup {None}]
           /\ Created \subseteq Created'
           /\ \A i \in Created' : target'[i] \in Targets
           /\ expired' \in SUBSET {i \in Jobs : status'[i] = "RUNNING"}
           /\ UNCHANGED <<attempts, cancelRequested, expired, delayed>>
  <1>1. status[j] = "NONE"
    BY DEF NextJob, Created
  <1> QED
    BY <1>1 DEF Insert, TypeOK, Created, JobStatuses, Active, Finished

\* enqueue_job adds one row, or finds an active one and changes nothing.
LEMMA EnqueueFacts ==
    ASSUME TypeOK, NEW t \in Targets, Enqueue(t)
    PROVE  /\ status' \in [Jobs -> JobStatuses]
           /\ target' \in [Jobs -> Targets \cup {None}]
           /\ Created \subseteq Created'
           /\ \A i \in Created' : target'[i] \in Targets
           /\ expired' \in SUBSET {i \in Jobs : status'[i] = "RUNNING"}
           /\ UNCHANGED <<attempts, cancelRequested, expired, delayed>>
  <1>1. CASE UNCHANGED jobVars
    BY <1>1 DEF jobVars, TypeOK, Created
  <1>2. CASE \E j \in Jobs : NextJob(j) /\ Insert(j, t)
    BY <1>2, InsertFacts
  <1> QED
    BY <1>1, <1>2 DEF Enqueue

\* A call that is over leaves a caller whose state is well typed.
LEMMA CallsFacts ==
    ASSUME TypeOK, NEW c \in Callers, Created \subseteq Created',
           calls' = [calls EXCEPT ![c] = NoCall]
    PROVE  calls' \in [Callers -> Calls']
  <1>1. Calls \subseteq Calls' /\ NoCall \in Calls
    BY DEF Calls
  <1> QED
    BY <1>1 DEF TypeOK

(***************************************************************************)
(* The type invariant is inductive: one step per action.                   *)
(***************************************************************************)
LEMMA TypeStep == TypeOK /\ [Next]_vars => TypeOK'
  <1> SUFFICES ASSUME TypeOK, [Next]_vars PROVE TypeOK'
    OBVIOUS
  <1> USE KindAssumption, BoundAssumption
  <1>1. ASSUME NEW c \in Callers, NEW t \in Targets, RequestRead(c, t)
        PROVE  TypeOK'
    BY <1>1 DEF RequestRead, TypeOK, Calls, Created, jobVars, workerVars
  <1>2. ASSUME NEW c \in Callers, NEW t \in Targets, RequestCommit(c, t)
        PROVE  TypeOK'
    <2>1. /\ status' \in [Jobs -> JobStatuses]
          /\ target' \in [Jobs -> Targets \cup {None}]
          /\ Created \subseteq Created'
          /\ \A i \in Created' : target'[i] \in Targets
          /\ expired' \in SUBSET {i \in Jobs : status'[i] = "RUNNING"}
          /\ UNCHANGED <<attempts, cancelRequested, expired, delayed>>
      <3>1. CASE KindOf[t] = "analyze_project"
        BY <1>2, <3>1, InsertFacts DEF RequestCommit
      <3>2. CASE KindOf[t] # "analyze_project"
        BY <1>2, <3>2, EnqueueFacts DEF RequestCommit
      <3> QED BY <3>1, <3>2
    <2>2. calls' \in [Callers -> Calls']
      BY <1>2, <2>1, CallsFacts DEF RequestCommit
    <2>3. targetStatus' \in [Targets -> TargetStatuses]
      BY <1>2 DEF RequestCommit, Submitted, TypeOK, TargetStatuses
    <2> QED
      BY <1>2, <2>1, <2>2, <2>3 DEF RequestCommit, TypeOK, workerVars
  <1>3. ASSUME NEW c \in Callers, NEW j \in Jobs, CancelRead(c, j)
        PROVE  TypeOK'
    <2>1. Created' = Created /\ Calls' = Calls
      BY <1>3 DEF CancelRead, jobVars, Created, Calls
    <2>2. Cancel(j, status[j] = "QUEUED") \in Calls
      <3>1. j \in Created /\ (status[j] = "QUEUED") \in BOOLEAN
        BY <1>3 DEF CancelRead
      <3>2. \A i \in Created, b \in BOOLEAN : Cancel(i, b) \in Calls
        BY DEF Calls
      <3> QED BY <3>1, <3>2, Zenon
    <2>3. calls' \in [Callers -> Calls']
      BY <1>3, <2>1, <2>2 DEF CancelRead, TypeOK
    <2> QED
      BY <1>3, <2>1, <2>3 DEF CancelRead, TypeOK, jobVars, workerVars
  <1>4. ASSUME NEW c \in Callers, NEW j \in Jobs, NEW q \in BOOLEAN,
               CancelCommit(c, j, q)
        PROVE  TypeOK'
    <2>1. j \in Created
      BY <1>4 DEF CancelCommit, TypeOK, Calls, Cancel, Request, NoCall
    <2>2. status' \in [Jobs -> JobStatuses] /\ Created' = Created
      BY <1>4, <2>1 DEF CancelCommit, TypeOK, Created, JobStatuses, Finished
    <2>3. calls' \in [Callers -> Calls']
      BY <1>4, <2>2, CallsFacts DEF CancelCommit
    <2>4. expired' \in SUBSET {i \in Jobs : status'[i] = "RUNNING"}
      BY <1>4 DEF CancelCommit, TypeOK
    <2>5. targetStatus' \in [Targets -> TargetStatuses]
      BY <1>4 DEF CancelCommit, TypeOK, TargetStatuses
    <2> QED
      BY <1>4, <2>1, <2>2, <2>3, <2>4, <2>5 DEF CancelCommit, TypeOK, workerVars
  <1>5. ASSUME NEW w \in Workers, Start(w) PROVE TypeOK'
    BY <1>5 DEF Start, Goto, TypeOK, jobVars, Created, Calls, Labels, Holding
  <1>6. ASSUME NEW w \in Workers, BootRead(w) PROVE TypeOK'
    <2>1. UNCHANGED <<jobVars, targetStatus, held, calls, halts>>
      BY <1>6 DEF BootRead
    <2>2. Created' = Created /\ Calls' = Calls
      BY <2>1 DEF jobVars, Created, Calls
    <2>3. seen' \in [Workers -> [canceled : SUBSET Created, failed : SUBSET Created,
                                requeued : SUBSET Created]]
      BY <1>6, BootSelectionType DEF BootRead, TypeOK
    <2>4. pc' = [pc EXCEPT ![w] = "booting"]
      BY <1>6 DEF BootRead, Goto
    <2> QED
      BY <2>1, <2>2, <2>3, <2>4 DEF TypeOK, jobVars, Labels, Holding
  <1>7. ASSUME NEW w \in Workers, BootWrite(w) PROVE TypeOK'
    <2>1. /\ seen[w].canceled \in SUBSET Created /\ seen[w].failed \in SUBSET Created
          /\ seen[w].requeued \in SUBSET Created
      BY DEF TypeOK
    <2> QED
      BY <1>7, <2>1, SettleType DEF BootWrite, Goto, Labels, Holding
  <1>8. ASSUME NEW w \in Workers, FailExhausted(w) PROVE TypeOK'
    <2>1. PICK F \in SUBSET Created : Settle({}, F, {})
      BY <1>8 DEF FailExhausted, TypeOK, Created
    <2> QED
      BY <1>8, <2>1, SettleType DEF FailExhausted, Goto, Labels, Holding
  <1>9. ASSUME NEW w \in Workers, RecoverRead(w) PROVE TypeOK'
    <2>1. UNCHANGED <<jobVars, targetStatus, held, calls, halts>>
      BY <1>9 DEF RecoverRead
    <2>2. Created' = Created /\ Calls' = Calls
      BY <2>1 DEF jobVars, Created, Calls
    <2>3. seen' \in [Workers -> [canceled : SUBSET Created, failed : SUBSET Created,
                                requeued : SUBSET Created]]
      BY <1>9 DEF RecoverRead, TypeOK, NothingSeen
    <2>4. pc' = [pc EXCEPT ![w] = "recovering"]
      BY <1>9 DEF RecoverRead, Goto
    <2> QED
      BY <2>1, <2>2, <2>3, <2>4 DEF TypeOK, jobVars, Labels, Holding
  <1>10. ASSUME NEW w \in Workers, RecoverWrite(w) PROVE TypeOK'
    <2>1. PICK C \in SUBSET Created, R \in SUBSET Created : Settle(C, {}, R)
      BY <1>10 DEF RecoverWrite, TypeOK, Created
    <2> QED
      BY <1>10, <2>1, SettleType DEF RecoverWrite, Goto, Labels, Holding
  <1>11. ASSUME NEW w \in Workers, NEW j \in Jobs, Claim(w, j) PROVE TypeOK'
    <2>1. status' \in [Jobs -> JobStatuses] /\ Created' = Created /\ j \in Created
      BY <1>11 DEF Claim, Claimable, TypeOK, Created, JobStatuses, Active
    <2> QED
      BY <1>11, <2>1 DEF Claim, Goto, TypeOK, Calls, Labels, Holding
  <1>12. ASSUME NEW w \in Workers, NothingToClaim(w) PROVE TypeOK'
    BY <1>12 DEF NothingToClaim, Goto, TypeOK, jobVars, Created, Calls, Labels, Holding
  <1>13. ASSUME NEW w \in Workers, CheckCanceled(w) PROVE TypeOK'
    BY <1>13 DEF CheckCanceled, Goto, TypeOK, jobVars, Created, Calls, Labels, Holding
  <1>14. ASSUME NEW w \in Workers, Begin(w) PROVE TypeOK'
    BY <1>14 DEF Begin, Goto, TypeOK, jobVars, Created, Calls, Labels, Holding,
                 TargetStatuses
  <1>15. ASSUME NEW w \in Workers, HandlerSeesCancel(w) PROVE TypeOK'
    BY <1>15 DEF HandlerSeesCancel, Goto, TypeOK, jobVars, Created, Calls, Labels,
                 Holding
  <1>16. ASSUME NEW w \in Workers, FinishParse(w) PROVE TypeOK'
    <2>1. PICK t \in Targets : QueueProcessing(t)
      BY <1>16 DEF FinishParse, BuiltOn
    <2>2. /\ status' \in [Jobs -> JobStatuses]
          /\ target' \in [Jobs -> Targets \cup {None}]
          /\ Created \subseteq Created'
          /\ \A i \in Created' : target'[i] \in Targets
          /\ expired' \in SUBSET {i \in Jobs : status'[i] = "RUNNING"}
          /\ UNCHANGED <<attempts, cancelRequested, expired, delayed>>
      <3>1. CASE LiveModelCalls
        BY <2>1, <3>1, EnqueueFacts DEF QueueProcessing
      <3>2. CASE ~LiveModelCalls
        BY <2>1, <3>2 DEF QueueProcessing, jobVars, TypeOK, Created
      <3> QED BY <3>1, <3>2
    <2>3. targetStatus' \in [Targets -> TargetStatuses]
      BY <2>1 DEF QueueProcessing, TypeOK, TargetStatuses
    <2> QED
      BY <1>16, <2>2, <2>3 DEF FinishParse, Goto, TypeOK, Calls, Labels, Holding
  <1>17. ASSUME NEW w \in Workers, FinishModelWork(w) PROVE TypeOK'
    BY <1>17 DEF FinishModelWork, Goto, TypeOK, jobVars, Created, Calls, Labels,
                 Holding, TargetStatuses
  <1>18. ASSUME NEW w \in Workers, Schedule(w) PROVE TypeOK'
    <2>1. /\ status' \in [Jobs -> JobStatuses]
          /\ target' \in [Jobs -> Targets \cup {None}]
          /\ Created \subseteq Created'
          /\ \A i \in Created' : target'[i] \in Targets
          /\ expired' \in SUBSET {i \in Jobs : status'[i] = "RUNNING"}
          /\ UNCHANGED <<attempts, cancelRequested, expired, delayed>>
          /\ targetStatus' \in [Targets -> TargetStatuses]
      <3>1. CASE UNCHANGED <<jobVars, targetStatus>>
        BY <3>1 DEF jobVars, TypeOK, Created
      <3>2. CASE \E t \in OfKind("analyze_project"), j \in Jobs :
                    /\ NextJob(j) /\ Insert(j, t)
                    /\ targetStatus' = [targetStatus EXCEPT ![t] = "queued"]
        BY <3>2, InsertFacts DEF OfKind, TypeOK, TargetStatuses
      <3> QED
        BY <1>18, <3>1, <3>2 DEF Schedule
    <2> QED
      BY <1>18, <2>1
         DEF Schedule, AfterScheduling, Goto, TypeOK, Calls, Labels, Holding
  <1>19. ASSUME NEW w \in Workers, FinalCheck(w) PROVE TypeOK'
    BY <1>19 DEF FinalCheck, Goto, TypeOK, jobVars, Created, Calls, Labels, Holding
  <1>20. ASSUME NEW w \in Workers, Complete(w) PROVE TypeOK'
    <2>1. /\ status' \in [Jobs -> JobStatuses] /\ Created' = Created
          /\ held[w] \in Created
      BY <1>20 DEF Complete, TypeOK, Created, JobStatuses, Finished, Holding
    <2> QED
      BY <1>20, <2>1 DEF Complete, Goto, TypeOK, Calls, Labels, Holding
  <1>21. ASSUME NEW w \in Workers, Raise(w) PROVE TypeOK'
    BY <1>21 DEF Raise, Goto, TypeOK, jobVars, Created, Calls, Labels, Holding
  <1>22. ASSUME NEW w \in Workers, FailRead(w) PROVE TypeOK'
    BY <1>22 DEF FailRead, Goto, TypeOK, jobVars, Created, Calls, Labels, Holding
  <1>23. ASSUME NEW w \in Workers, FailWrite(w) PROVE TypeOK'
    <2>1. Verdict(pc[w]).job \in {"CANCELED", "QUEUED", "FAILED"}
          /\ Verdict(pc[w]).target \in TargetStatuses
      BY <1>23 DEF FailWrite, Verdict, TargetStatuses
    <2>2. /\ status' \in [Jobs -> JobStatuses] /\ Created' = Created
          /\ held[w] \in Created
      BY <1>23, <2>1 DEF FailWrite, TypeOK, Created, JobStatuses, Finished, Active,
                         Holding
    <2> QED
      BY <1>23, <2>1, <2>2 DEF FailWrite, Goto, TypeOK, Calls, Labels, Holding
  <1>24. ASSUME NEW w \in Workers, Stop(w) \/ Crash(w) PROVE TypeOK'
    <2>1. UNCHANGED <<jobVars, targetStatus, calls>> /\ halts' \in Nat
      BY <1>24 DEF Stop, Crash, TypeOK
    <2>2. Created' = Created /\ Calls' = Calls
      BY <2>1 DEF jobVars, Created, Calls
    <2>3. pc' = [pc EXCEPT ![w] = "down"]
      BY <1>24 DEF Stop, Crash, Goto
    <2>4. CASE Stop(w)
      BY <2>1, <2>2, <2>3, <2>4 DEF Stop, TypeOK, jobVars, Labels, Holding
    <2>5. CASE Crash(w)
      BY <2>1, <2>2, <2>3, <2>5 DEF Crash, TypeOK, jobVars, NothingSeen, Labels, Holding
    <2> QED
      BY <1>24, <2>4, <2>5
  <1>25. ASSUME NEW j \in Jobs, LeaseExpires(j) \/ BackoffElapses(j) PROVE TypeOK'
    BY <1>25 DEF LeaseExpires, BackoffElapses, TypeOK, workerVars, Created, Calls
  <1>26. CASE UNCHANGED vars
    BY <1>26 DEF vars, jobVars, workerVars, TypeOK, Created, Calls
  <1> QED
    BY <1>1, <1>2, <1>3, <1>4, <1>5, <1>6, <1>7, <1>8, <1>9, <1>10, <1>11, <1>12,
       <1>13, <1>14, <1>15, <1>16, <1>17, <1>18, <1>19, <1>20, <1>21, <1>22, <1>23,
       <1>24, <1>25, <1>26
       DEF Next, Api, WorkerStep

\* The empty table is well typed.
LEMMA TypeInit == Init => TypeOK
  BY KindAssumption, BoundAssumption
     DEF Init, TypeOK, Created, NothingSeen, Calls, JobStatuses, TargetStatuses,
         Labels, Holding

\* Every variable keeps its type, for any number of workers, callers and jobs.
THEOREM TypeCorrect == Spec => []TypeOK
  BY TypeInit, TypeStep, PTL DEF Spec

(***************************************************************************)
(* Work that calls the model is never repeated.  ModelInv is inductive     *)
(* together with the type invariant.                                       *)
(***************************************************************************)
\* A job that calls the model has one attempt.
LEMMA OneAttempt ==
    ASSUME TypeOK, NEW j \in Jobs, ModelJob(j)
    PROVE  Retryable(j) <=> attempts[j] < 1
  BY KindAssumption DEF Retryable, MaxAttempts, ModelJob, JobKind

\* Steps that leave the jobs and what the workers hold alone.
LEMMA ModelFrame ==
    ASSUME ModelInv,
           UNCHANGED <<status, target, attempts, held, seen>>,
           \A w \in Workers : pc'[w] = "toRetry" => pc[w] = "toRetry"
    PROVE  ModelInv'
  BY DEF ModelInv, AttemptsTold, HeldIsSpent, NoSecondChance, ModelJobHasOneWorker,
         ModelJob, JobKind, Created

\* Steps that may insert a job.
LEMMA ModelInsert ==
    ASSUME TypeOK, ModelInv, NEW t \in Targets, NEW j \in Jobs,
           NextJob(j), Insert(j, t), UNCHANGED <<held, seen>>,
           \A w \in Workers : pc'[w] = "toRetry" => pc[w] = "toRetry" /\ held[w] # None
    PROVE  ModelInv'
  <1>1. status[j] = "NONE" /\ j \notin Created
    BY DEF NextJob, Created
  <1>2. \A i \in Created : ModelJob(i)' <=> ModelJob(i)
    BY <1>1 DEF Insert, ModelJob, JobKind, TypeOK, Created
  <1>3. Created \subseteq Created'
    BY <1>1 DEF Insert, Created, TypeOK
  <1>4. AttemptsTold'
    <2> SUFFICES ASSUME NEW i \in Jobs
                 PROVE  /\ status'[i] = "NONE" => attempts'[i] = 0
                        /\ ModelJob(i)' => attempts'[i] <= 1
                        /\ ModelJob(i)' /\ status'[i] = "QUEUED" => attempts'[i] = 0
                        /\ ModelJob(i)' /\ status'[i] = "RUNNING" => attempts'[i] = 1
      BY DEF AttemptsTold
    <2>1. CASE i = j
      BY <1>1, <2>1 DEF Insert, ModelInv, AttemptsTold, TypeOK
    <2>2. CASE i # j
      <3>1. ModelJob(i)' <=> ModelJob(i)
        BY <2>2 DEF Insert, ModelJob, JobKind, TypeOK
      <3> QED
        BY <2>2, <3>1 DEF Insert, ModelInv, AttemptsTold, TypeOK
    <2> QED BY <2>1, <2>2
  <1>5. HeldIsSpent'
    BY <1>2, <1>3 DEF Insert, ModelInv, HeldIsSpent
  <1>6. NoSecondChance'
    <2>1. \A w \in Workers : seen[w].requeued \subseteq Created
      BY DEF TypeOK
    <2>2. \A w \in Workers : pc'[w] = "toRetry" => held[w] \in Created
      BY DEF ModelInv, HeldIsSpent
    <2> QED
      BY <1>2, <2>1, <2>2 DEF ModelInv, NoSecondChance
  <1>7. ModelJobHasOneWorker'
    BY <1>2 DEF ModelInv, ModelJobHasOneWorker, HeldIsSpent
  <1> QED BY <1>4, <1>5, <1>6, <1>7 DEF ModelInv

\* Steps that settle several jobs and put back none that calls the model.
LEMMA ModelSettle ==
    ASSUME TypeOK, ModelInv,
           NEW C \in SUBSET Created, NEW F \in SUBSET Created, NEW R \in SUBSET Created,
           Settle(C, F, R), \A j \in R : ~ModelJob(j),
           UNCHANGED held,
           \A w \in Workers : \A j \in seen'[w].requeued : j \in seen[w].requeued,
           \A w \in Workers : pc'[w] = "toRetry" => pc[w] = "toRetry"
    PROVE  ModelInv'
  <1>1. Created' = Created
    BY SettleFacts
  <1>2. \A j \in Jobs : ModelJob(j)' <=> ModelJob(j)
    BY DEF Settle, ModelJob, JobKind
  <1>3. AttemptsTold'
    <2>1. \A j \in Jobs : /\ status'[j] = "NONE" => status[j] = "NONE"
                          /\ status'[j] = "RUNNING" => status[j] = "RUNNING"
                          /\ status'[j] = "QUEUED" => status[j] = "QUEUED" \/ j \in R
      BY DEF Settle, SettledStatus
    <2> QED
      BY <1>2, <2>1 DEF Settle, ModelInv, AttemptsTold
  <1>4. HeldIsSpent'
    BY <1>1, <1>2 DEF Settle, ModelInv, HeldIsSpent, Created
  <1>5. NoSecondChance'
    <2>1. \A w \in Workers : seen[w].requeued \subseteq Jobs
      BY DEF TypeOK, Created
    <2>2. ASSUME NEW w \in Workers, pc'[w] = "toRetry" PROVE ~ModelJob(held[w])'
      BY <2>2 DEF ModelInv, NoSecondChance, Settle, ModelJob, JobKind
    <2> QED
      BY <1>2, <2>1, <2>2 DEF ModelInv, NoSecondChance
  <1>6. ModelJobHasOneWorker'
    BY DEF ModelInv, ModelJobHasOneWorker, Settle, ModelJob, JobKind
  <1> QED BY <1>3, <1>4, <1>5, <1>6 DEF ModelInv

\* Every step keeps the inductive invariant.
LEMMA ModelStep == TypeOK /\ ModelInv /\ [Next]_vars => ModelInv'
  <1> SUFFICES ASSUME TypeOK, ModelInv, [Next]_vars PROVE ModelInv'
    OBVIOUS
  <1>1. ASSUME NEW c \in Callers, NEW t \in Targets, RequestCommit(c, t)
        PROVE  ModelInv'
    <2>1. UNCHANGED <<pc, held, seen>>
      BY <1>1 DEF RequestCommit, workerVars
    <2>2. \A w \in Workers : pc[w] = "toRetry" => held[w] # None
      BY KindAssumption DEF TypeOK, Holding, Created, Jobs
    <2>3. CASE UNCHANGED jobVars
      BY <2>1, <2>3, ModelFrame DEF jobVars
    <2>4. CASE \E j \in Jobs : NextJob(j) /\ Insert(j, t)
      BY <2>1, <2>2, <2>4, ModelInsert
    <2> QED
      BY <1>1, <2>3, <2>4 DEF RequestCommit, Enqueue
  <1>2. ASSUME NEW c \in Callers, NEW j \in Jobs, NEW q \in BOOLEAN,
               CancelCommit(c, j, q)
        PROVE  ModelInv'
    <2>1. UNCHANGED <<target, attempts, pc, held, seen>>
      BY <1>2 DEF CancelCommit, workerVars
    <2>2. j \in Created
      BY <1>2 DEF CancelCommit, TypeOK, Calls, Cancel, Request, NoCall
    <2>3. \A i \in Jobs : status'[i] = status[i]
                          \/ (i \in Created /\ status'[i] = "CANCELED")
      <3>1. \/ status' = [status EXCEPT ![j] = "CANCELED"]
            \/ status' = status
        BY <1>2 DEF CancelCommit
      <3> QED BY <2>2, <3>1 DEF TypeOK
    <2>4. AttemptsTold'
      BY <2>1, <2>3 DEF ModelInv, AttemptsTold, ModelJob, JobKind
    <2>5. Created \subseteq Created'
      BY <2>3 DEF Created
    <2> QED
      BY <2>1, <2>4, <2>5
         DEF ModelInv, HeldIsSpent, NoSecondChance, ModelJobHasOneWorker, ModelJob, JobKind
  <1>3. ASSUME NEW w \in Workers, BootRead(w) PROVE ModelInv'
    <2>1. UNCHANGED <<status, target, attempts, held>>
      BY <1>3 DEF BootRead, jobVars
    <2>2. \A v \in Workers : seen'[v] = seen[v]
                             \/ \A j \in seen'[v].requeued : j \in Jobs /\ ~ModelJob(j)
      <3>1. \A j \in BootSelection.requeued : j \in Jobs /\ ~ModelJob(j)
        BY OneAttempt DEF BootSelection, ModelInv, AttemptsTold
      <3> QED BY <1>3, <3>1 DEF BootRead, TypeOK
    <2>3. \A v \in Workers : pc'[v] = "toRetry" => pc[v] = "toRetry"
      BY <1>3 DEF BootRead, Goto, TypeOK
    <2> QED
      BY <2>1, <2>2, <2>3
         DEF ModelInv, AttemptsTold, HeldIsSpent, NoSecondChance, ModelJobHasOneWorker,
             ModelJob, JobKind, Created
  <1>4. ASSUME NEW w \in Workers, BootWrite(w) PROVE ModelInv'
    <2>1. Settle(seen[w].canceled, seen[w].failed, seen[w].requeued)
      BY <1>4 DEF BootWrite
    <2>2. /\ seen[w].canceled \in SUBSET Created /\ seen[w].failed \in SUBSET Created
          /\ seen[w].requeued \in SUBSET Created
      BY DEF TypeOK
    <2>3. \A j \in seen[w].requeued : ~ModelJob(j)
      BY DEF ModelInv, NoSecondChance
    <2>4. \A v \in Workers : \A j \in seen'[v].requeued : j \in seen[v].requeued
      BY <1>4 DEF BootWrite, NothingSeen, TypeOK
    <2>5. \A v \in Workers : pc'[v] = "toRetry" => pc[v] = "toRetry"
      BY <1>4 DEF BootWrite, Goto, TypeOK
    <2>6. UNCHANGED held
      BY <1>4 DEF BootWrite
    <2> QED
      BY <2>1, <2>2, <2>3, <2>4, <2>5, <2>6, ModelSettle
  <1>5. ASSUME NEW w \in Workers, FailExhausted(w) PROVE ModelInv'
    <2>1. PICK F \in SUBSET Created : Settle({}, F, {})
      BY <1>5 DEF FailExhausted, TypeOK, Created
    <2>2. UNCHANGED <<held, seen>>
      BY <1>5 DEF FailExhausted
    <2>3. \A v \in Workers : pc'[v] = "toRetry" => pc[v] = "toRetry"
      BY <1>5 DEF FailExhausted, Goto, TypeOK
    <2> QED
      BY <2>1, <2>2, <2>3, ModelSettle
  <1>6. ASSUME NEW w \in Workers, RecoverRead(w) PROVE ModelInv'
    <2>1. UNCHANGED <<status, target, attempts, held>>
      BY <1>6 DEF RecoverRead, jobVars
    <2>2. \A v \in Workers : \A j \in seen'[v].requeued : j \in seen[v].requeued
      BY <1>6 DEF RecoverRead, NothingSeen, TypeOK
    <2>3. \A v \in Workers : pc'[v] = "toRetry" => pc[v] = "toRetry"
      BY <1>6 DEF RecoverRead, Goto, TypeOK
    <2> QED
      BY <2>1, <2>2, <2>3
         DEF ModelInv, AttemptsTold, HeldIsSpent, NoSecondChance, ModelJobHasOneWorker,
             ModelJob, JobKind, Created
  <1>7. ASSUME NEW w \in Workers, RecoverWrite(w) PROVE ModelInv'
    <2>1. PICK C \in SUBSET Created, R \in SUBSET Created :
             Settle(C, {}, R) /\ \A j \in R : ~ModelJob(j)
      <3>1. \A j \in expired : status[j] = "RUNNING" /\ j \in Jobs
        BY DEF TypeOK
      <3>2. \A j \in expired : Retryable(j) => ~ModelJob(j)
        BY <3>1, OneAttempt DEF ModelInv, AttemptsTold
      <3> QED
        BY <1>7, <3>1, <3>2 DEF RecoverWrite, TypeOK, Created
    <2>2. UNCHANGED held
      BY <1>7 DEF RecoverWrite
    <2>3. \A v \in Workers : \A j \in seen'[v].requeued : j \in seen[v].requeued
      BY <1>7 DEF RecoverWrite, NothingSeen, TypeOK
    <2>4. \A v \in Workers : pc'[v] = "toRetry" => pc[v] = "toRetry"
      BY <1>7 DEF RecoverWrite, Goto, TypeOK
    <2> QED
      BY <2>1, <2>2, <2>3, <2>4, ModelSettle
  <1>8. ASSUME NEW w \in Workers, NEW j \in Jobs, Claim(w, j) PROVE ModelInv'
    <2>1. /\ UNCHANGED <<target, seen>> /\ status[j] = "QUEUED"
          /\ status' = [status EXCEPT ![j] = "RUNNING"]
          /\ attempts' = [attempts EXCEPT ![j] = @ + 1]
          /\ held' = [held EXCEPT ![w] = j]
      BY <1>8 DEF Claim, Claimable
    <2>2. AttemptsTold'
      BY <2>1 DEF TypeOK, ModelInv, AttemptsTold, ModelJob, JobKind
    <2>3. ModelJob(j) => \A v \in Workers : held[v] # j
      BY <2>1, KindAssumption DEF ModelInv, AttemptsTold, HeldIsSpent, Jobs
    <2>4. HeldIsSpent'
      <3>1. ModelJob(j) => attempts'[j] = 1
        BY <2>1 DEF ModelInv, AttemptsTold, TypeOK
      <3>2. Created' = Created /\ j \in Created
        BY <2>1 DEF Created, TypeOK
      <3>3. \A i \in Jobs : ModelJob(i)' <=> ModelJob(i)
        BY <2>1 DEF ModelJob, JobKind
      <3>4. ASSUME NEW v \in Workers, held'[v] # None
            PROVE  held'[v] \in Created' /\ (ModelJob(held[v])' => attempts'[held'[v]] = 1)
        <4>1. CASE v = w
          BY <2>1, <3>1, <3>2, <3>3, <4>1 DEF TypeOK, ModelJob, JobKind
        <4>2. CASE v # w
          BY <2>1, <2>3, <3>2, <3>3, <3>4, <4>2
             DEF TypeOK, ModelInv, HeldIsSpent, ModelJob, JobKind, Created
        <4> QED BY <4>1, <4>2
      <3> QED BY <3>4 DEF HeldIsSpent, ModelJob, JobKind
    <2>5. NoSecondChance'
      BY <1>8, <2>1 DEF Claim, Goto, TypeOK, ModelInv, NoSecondChance, ModelJob, JobKind
    <2>6. ModelJobHasOneWorker'
      BY <2>1, <2>3 DEF TypeOK, ModelInv, ModelJobHasOneWorker, ModelJob, JobKind
    <2> QED BY <2>2, <2>4, <2>5, <2>6 DEF ModelInv
  <1>9. ASSUME NEW w \in Workers, FinishParse(w) PROVE ModelInv'
    <2>1. PICK t \in Targets : QueueProcessing(t)
      BY <1>9 DEF FinishParse, BuiltOn
    <2>2. UNCHANGED <<held, seen>>
      BY <1>9 DEF FinishParse
    <2>3. \A v \in Workers : pc'[v] = "toRetry" => pc[v] = "toRetry" /\ held[v] # None
      BY <1>9, KindAssumption DEF FinishParse, Goto, TypeOK, Holding, Created, Jobs
    <2>4. CASE UNCHANGED jobVars
      BY <2>2, <2>3, <2>4, ModelFrame DEF jobVars
    <2>5. CASE \E j \in Jobs : NextJob(j) /\ Insert(j, t)
      BY <2>2, <2>3, <2>5, ModelInsert
    <2> QED
      BY <2>1, <2>4, <2>5 DEF QueueProcessing, Enqueue
  <1>10. ASSUME NEW w \in Workers, Schedule(w) PROVE ModelInv'
    <2>1. UNCHANGED <<held, seen>>
      BY <1>10 DEF Schedule
    <2>2. \A v \in Workers : pc'[v] = "toRetry" => pc[v] = "toRetry" /\ held[v] # None
      BY <1>10, KindAssumption
         DEF Schedule, AfterScheduling, Goto, TypeOK, Holding, Created, Jobs
    <2>3. CASE UNCHANGED <<jobVars, targetStatus>>
      BY <2>1, <2>2, <2>3, ModelFrame DEF jobVars
    <2>4. CASE \E t \in OfKind("analyze_project"), j \in Jobs :
                  NextJob(j) /\ Insert(j, t)
      BY <2>1, <2>2, <2>4, ModelInsert DEF OfKind
    <2> QED
      BY <1>10, <2>3, <2>4 DEF Schedule
  <1>11. ASSUME NEW w \in Workers, FailRead(w) PROVE ModelInv'
    <2>1. UNCHANGED <<status, target, attempts, held, seen>>
      BY <1>11 DEF FailRead, jobVars
    <2>2. pc'[w] = "toRetry" => Retryable(held[w])
      BY <1>11 DEF FailRead, Goto, TypeOK
    <2>3. held[w] \in Jobs /\ (ModelJob(held[w]) => attempts[held[w]] = 1)
      BY <1>11, KindAssumption
         DEF FailRead, TypeOK, Holding, Created, Jobs, ModelInv, HeldIsSpent
    <2>4. pc'[w] = "toRetry" => ~ModelJob(held[w])
      BY <2>2, <2>3, OneAttempt
    <2>5. \A v \in Workers : v # w => pc'[v] = pc[v]
      BY <1>11 DEF FailRead, Goto, TypeOK
    <2> QED
      BY <2>1, <2>4, <2>5
         DEF ModelInv, AttemptsTold, HeldIsSpent, NoSecondChance, ModelJobHasOneWorker,
             ModelJob, JobKind, Created
  \* Steps that finish a job: its worker lets go of it.
  <1>12. ASSUME NEW w \in Workers, Complete(w) \/ FailWrite(w) PROVE ModelInv'
    <2>1. UNCHANGED <<target, attempts, seen>> /\ held' = [held EXCEPT ![w] = None]
      BY <1>12 DEF Complete, FailWrite
    <2>2. held[w] \in Created
      BY <1>12 DEF Complete, FailWrite, TypeOK, Holding
    <2>3. /\ \A j \in Jobs \ {held[w]} : status'[j] = status[j]
          /\ status'[held[w]] \in {"COMPLETED", "CANCELED", "FAILED", "QUEUED"}
          /\ status'[held[w]] = "QUEUED" => ~ModelJob(held[w])
      <3>1. CASE Complete(w)
        BY <2>2, <3>1 DEF Complete, TypeOK, Created
      <3>2. CASE FailWrite(w)
        <4>1. /\ Verdict(pc[w]).job \in {"CANCELED", "FAILED", "QUEUED"}
              /\ Verdict(pc[w]).job = "QUEUED" => pc[w] = "toRetry"
          BY <3>2 DEF FailWrite, Verdict
        <4> QED
          BY <2>2, <3>2, <4>1 DEF FailWrite, TypeOK, Created, ModelInv, NoSecondChance
      <3> QED BY <1>12, <3>1, <3>2
    <2>4. AttemptsTold'
      BY <2>1, <2>3 DEF ModelInv, AttemptsTold, ModelJob, JobKind
    <2>5. Created \subseteq Created'
      BY <2>3 DEF Created
    <2>6. \A v \in Workers : pc'[v] = "toRetry" => pc[v] = "toRetry" /\ v # w
      BY <1>12 DEF Complete, FailWrite, Goto, TypeOK
    <2>7. HeldIsSpent' /\ ModelJobHasOneWorker'
      BY <2>1, <2>5
         DEF TypeOK, ModelInv, HeldIsSpent, ModelJobHasOneWorker, ModelJob, JobKind
    <2>8. NoSecondChance'
      BY <2>1, <2>6 DEF TypeOK, ModelInv, NoSecondChance, ModelJob, JobKind
    <2> QED BY <2>4, <2>7, <2>8 DEF ModelInv
  <1>13. ASSUME NEW w \in Workers, Crash(w) PROVE ModelInv'
    <2>1. /\ UNCHANGED <<status, target, attempts>>
          /\ held' = [held EXCEPT ![w] = None]
          /\ seen' = [seen EXCEPT ![w] = NothingSeen]
          /\ pc' = [pc EXCEPT ![w] = "down"]
      BY <1>13 DEF Crash, Goto, jobVars
    <2>2. \A v \in Workers :
              /\ held'[v] # None => held'[v] = held[v]
              /\ \A j \in seen'[v].requeued : j \in seen[v].requeued
              /\ pc'[v] = "toRetry" => pc[v] = "toRetry" /\ held'[v] = held[v]
      BY <2>1 DEF TypeOK, NothingSeen
    <2> QED
      BY <2>1, <2>2
         DEF ModelInv, AttemptsTold, HeldIsSpent, NoSecondChance, ModelJobHasOneWorker,
             ModelJob, JobKind, Created
  \* The other steps of a worker only move it on.
  <1>14. ASSUME NEW w \in Workers,
                \/ Start(w) \/ NothingToClaim(w) \/ CheckCanceled(w) \/ Begin(w)
                \/ HandlerSeesCancel(w) \/ FinishModelWork(w) \/ FinalCheck(w)
                \/ Raise(w) \/ Stop(w)
         PROVE  ModelInv'
    <2>1. UNCHANGED <<status, target, attempts, held, seen>>
      BY <1>14 DEF Start, NothingToClaim, CheckCanceled, Begin, HandlerSeesCancel,
                   FinishModelWork, FinalCheck, Raise, Stop, jobVars
    <2>2. \E label \in Labels \ {"toRetry"} : Goto(w, label)
      BY <1>14 DEF Start, NothingToClaim, CheckCanceled, Begin, HandlerSeesCancel,
                   FinishModelWork, FinalCheck, Raise, Stop, Labels
    <2>3. \A v \in Workers : pc'[v] = "toRetry" => pc[v] = "toRetry"
      BY <2>2 DEF Goto, TypeOK
    <2> QED BY <2>1, <2>3, ModelFrame
  <1>15. ASSUME \/ \E c \in Callers, t \in Targets : RequestRead(c, t)
                \/ \E c \in Callers, j \in Jobs : CancelRead(c, j)
                \/ \E j \in Jobs : LeaseExpires(j) \/ BackoffElapses(j)
                \/ UNCHANGED vars
         PROVE  ModelInv'
    <2>1. UNCHANGED <<status, target, attempts, pc, held, seen>>
      BY <1>15 DEF RequestRead, CancelRead, LeaseExpires, BackoffElapses, vars, jobVars,
                   workerVars
    <2> QED BY <2>1, ModelFrame
  <1> QED
    BY <1>1, <1>2, <1>3, <1>4, <1>5, <1>6, <1>7, <1>8, <1>9, <1>10, <1>11, <1>12,
       <1>13, <1>14, <1>15
       DEF Next, Api, WorkerStep

\* Nothing is claimed at first.
LEMMA ModelInit == Init => ModelInv
  BY KindAssumption DEF Init, ModelInv, AttemptsTold, HeldIsSpent, NoSecondChance,
     ModelJobHasOneWorker, ModelJob, JobKind, NothingSeen

\* The inductive invariant holds throughout.
LEMMA ModelInvariant == Spec => [](TypeOK /\ ModelInv)
  BY TypeInit, TypeStep, ModelInit, ModelStep, PTL DEF Spec

\* A job that calls the model is claimed at most once, for any number of
\* workers, overlapping, crashed, restarted or recovering in any order.
THEOREM ModelWorkOnce == Spec => []ModelWorkNotRepeated
  <1>1. ModelInv => ModelWorkNotRepeated
    BY DEF ModelInv, AttemptsTold, ModelWorkNotRepeated
  <1> QED BY <1>1, ModelInvariant, PTL

\* No two workers are ever busy with the same job that calls the model.
THEOREM ModelWorkAlone == Spec => []ModelJobHasOneWorker
  <1>1. ModelInv => ModelJobHasOneWorker
    BY DEF ModelInv
  <1> QED BY <1>1, ModelInvariant, PTL

-----------------------------------------------------------------------------
(***************************************************************************)
(* One worker process, which is what start.sh sees to, for any number of   *)
(* callers, targets, jobs, crashes and restarts.  A second worker may      *)
(* complete or fail by primary key what the first has recovered, and none  *)
(* of what follows holds.                                                  *)
(***************************************************************************)
OneWorker == \A v, w \in Workers : v = w

\* Labels of a worker that has found its job not canceled and goes on with it.
Pursuing == {"starting", "working", "scheduling", "finishing", "completing",
             "raised", "toRetry", "toFail"}

\* The jobs a restarted worker has found running and will settle.
Picked(w) == seen[w].canceled \cup seen[w].failed \cup seen[w].requeued

\* j runs, or somebody canceled it under the worker's hands.
InHand(j) == status[j] = "RUNNING" \/ (status[j] = "CANCELED" /\ j \in cancelRequested)

\* The only worker knows of everything that runs.
Accounted ==
    \A w \in Workers :
        /\ pc[w] \notin Holding => held[w] = None
        /\ held[w] # None => InHand(held[w])
        /\ pc[w] # "booting" => seen[w] = NothingSeen
        /\ \A j \in Picked(w) : InHand(j)
        /\ pc[w] = "booting" => \A j \in Jobs : status[j] = "RUNNING" => j \in Picked(w)
        /\ pc[w] \notin {"down", "boot", "booting"} =>
               \A j \in Jobs : status[j] = "RUNNING" => j = held[w]

Spent ==
    /\ \A j \in Jobs : status[j] \in {"RUNNING", "COMPLETED", "FAILED"} => attempts[j] > 0
    /\ \A w \in Workers :
          /\ held[w] # None => attempts[held[w]] > 0
          /\ \A j \in Picked(w) : attempts[j] > 0

\* What is queued has an attempt left.
AttemptLeft ==
    /\ \A j \in Jobs : status[j] = "QUEUED" => Retryable(j)
    /\ \A j \in delayed : ~ModelJob(j)
    /\ \A w \in Workers :
          /\ \A j \in seen[w].requeued : Retryable(j)
          /\ pc[w] = "toRetry" => Retryable(held[w])

LaterUntaken(j) == \A i \in JobsOf(target[j]) : i > j => attempts[i] = 0

\* Ids are given in order, and a row that does not exist is about nothing.
Numbered ==
    /\ \A i, j \in Jobs : i < j /\ j \in Created => i \in Created
    /\ \A j \in Jobs \ Created : target[j] = None

\* A job is followed by another for the same target only when it is over or
\* canceled; but for an analysis, whose successor waits.
Successive ==
    \A i, j \in Created :
        /\ j < i /\ target[i] = target[j]
        /\ status[j] \in Active /\ j \notin cancelRequested
        => JobKind(j) = "analyze_project" /\ attempts[i] = 0

Unovertaken ==
    \A w \in Workers :
        /\ pc[w] \in Pursuing => LaterUntaken(held[w])
        /\ \A j \in seen[w].failed : LaterUntaken(j)

Reported ==
    \A w \in Workers : pc[w] \in {"scheduling", "finishing", "completing"} =>
        targetStatus[target[held[w]]] \notin {"running", "failed"}

(***************************************************************************)
(* The jobs table grows: rows come to exist, in order, and are queued.     *)
(***************************************************************************)
Grown ==
    /\ UNCHANGED <<attempts, cancelRequested, expired, delayed>>
    /\ \A j \in Jobs :
          \/ status'[j] = status[j] /\ target'[j] = target[j]
          \/ status[j] = "NONE" /\ status'[j] = "QUEUED"

\* No job is called None.
LEMMA NoneIsNoJob == None \notin Jobs
  BY KindAssumption, BoundAssumption DEF Jobs

\* Inserting a row is growth; so is enqueueing, whether or not it finds a job.
LEMMA InsertGrows ==
    ASSUME TypeOK, NEW t \in Targets, NEW j \in Jobs, NextJob(j), Insert(j, t)
    PROVE  Grown
  BY DEF Insert, NextJob, Created, TypeOK, Grown

LEMMA EnqueueGrows ==
    ASSUME TypeOK, NEW t \in Targets, Enqueue(t)
    PROVE  Grown
  <1>1. CASE UNCHANGED jobVars
    BY <1>1 DEF jobVars, Grown
  <1> QED
    BY <1>1, InsertGrows DEF Enqueue

\* The three steps that may insert a row change no other.
LEMMA RequestGrows ==
    ASSUME TypeOK, NEW c \in Callers, NEW t \in Targets, RequestCommit(c, t)
    PROVE  Grown
  BY InsertGrows, EnqueueGrows DEF RequestCommit

LEMMA FinishParseGrows ==
    ASSUME TypeOK, NEW w \in Workers, FinishParse(w)
    PROVE  Grown
  <1>1. PICK t \in BuiltOn(target[held[w]]) : QueueProcessing(t)
    BY DEF FinishParse
  <1>2. t \in Targets
    BY <1>1 DEF BuiltOn
  <1>3. Enqueue(t) \/ UNCHANGED jobVars
    BY <1>1 DEF QueueProcessing
  <1> QED
    BY <1>2, <1>3, EnqueueGrows DEF jobVars, Grown

LEMMA ScheduleGrows ==
    ASSUME TypeOK, NEW w \in Workers, Schedule(w)
    PROVE  Grown
  <1>1. CASE UNCHANGED jobVars
    BY <1>1 DEF jobVars, Grown
  <1>2. CASE \E t \in OfKind("analyze_project"), j \in Jobs : NextJob(j) /\ Insert(j, t)
    BY <1>2, InsertGrows DEF OfKind
  <1> QED
    BY <1>1, <1>2 DEF Schedule

(***************************************************************************)
(* The only worker knows of everything that runs.                          *)
(***************************************************************************)
LEMMA AccountedStep ==
    ASSUME OneWorker, TypeOK, TypeOK', Accounted, [Next]_vars
    PROVE  Accounted'
  <1> USE KindAssumption DEF Accounted, InHand, Picked, OneWorker
  <1>1. ASSUME NEW c \in Callers, NEW t \in Targets, RequestRead(c, t)
        PROVE  Accounted'
    BY <1>1 DEF RequestRead, jobVars, workerVars
  <1>2. ASSUME NEW c \in Callers, NEW t \in Targets, RequestCommit(c, t)
        PROVE  Accounted'
    <2>1. Grown
      BY <1>2, RequestGrows
    <2> QED
      BY <1>2, <2>1 DEF RequestCommit, Grown, workerVars, TypeOK, NothingSeen, Created
  <1>3. ASSUME NEW c \in Callers, NEW j \in Jobs, CancelRead(c, j)
        PROVE  Accounted'
    BY <1>3 DEF CancelRead, jobVars, workerVars
  <1>4. ASSUME NEW c \in Callers, NEW j \in Jobs, NEW q \in BOOLEAN, CancelCommit(c, j, q)
        PROVE  Accounted'
    BY <1>4 DEF CancelCommit, workerVars, TypeOK, NothingSeen, Created
  <1>5. ASSUME NEW w \in Workers, Start(w)
        PROVE  Accounted'
    BY <1>5 DEF Start, jobVars, Goto, TypeOK, Holding
  <1>6. ASSUME NEW w \in Workers, BootRead(w)
        PROVE  Accounted'
    BY <1>6 DEF BootRead, BootSelection, jobVars, Goto, TypeOK, Holding
  <1>7. ASSUME NEW w \in Workers, BootWrite(w)
        PROVE  Accounted'
    BY <1>7 DEF BootWrite, Settle, SettledStatus, NothingSeen, Goto, TypeOK, Holding
  <1>8. ASSUME NEW w \in Workers, FailExhausted(w)
        PROVE  Accounted'
    BY <1>8 DEF FailExhausted, Settle, SettledStatus, NothingSeen, Goto, TypeOK, Holding
  <1>9. ASSUME NEW w \in Workers, RecoverRead(w)
        PROVE  Accounted'
    <2>1. expired = {}
      BY <1>9, NoneIsNoJob DEF RecoverRead, TypeOK, Holding
    <2>2. seen'[w] = NothingSeen
      BY <1>9, <2>1 DEF RecoverRead, NothingSeen, TypeOK
    <2> QED
      BY <1>9, <2>2 DEF RecoverRead, jobVars, NothingSeen, Goto, TypeOK, Holding
  <1>10. ASSUME NEW w \in Workers, RecoverWrite(w)
        PROVE  Accounted'
    BY <1>10 DEF RecoverWrite, Settle, SettledStatus, NothingSeen, Goto, TypeOK, Holding
  <1>11. ASSUME NEW w \in Workers, NEW j \in Jobs, Claim(w, j)
        PROVE  Accounted'
    <2>1. \A i \in Jobs : status[i] # "RUNNING"
      BY <1>11, NoneIsNoJob DEF Claim, TypeOK, Holding
    <2>2. pc'[w] = "claimed" /\ held'[w] = j /\ seen[w] = NothingSeen
      BY <1>11 DEF Claim, TypeOK, Goto
    <2>3. \A i \in Jobs : status'[i] = "RUNNING" <=> i = j
      BY <1>11, <2>1 DEF Claim, TypeOK
    <2> QED
      BY <1>11, <2>2, <2>3 DEF Claim, NothingSeen, Holding
  <1>12. ASSUME NEW w \in Workers,
                NothingToClaim(w) \/ CheckCanceled(w) \/ HandlerSeesCancel(w)
                \/ FinalCheck(w) \/ Raise(w) \/ FailRead(w)
        PROVE  Accounted'
    BY <1>12 DEF NothingToClaim, CheckCanceled, HandlerSeesCancel, FinalCheck, Raise,
                 FailRead, jobVars, NothingSeen, Goto, TypeOK, Holding
  <1>13. ASSUME NEW w \in Workers, Begin(w) \/ FinishModelWork(w)
        PROVE  Accounted'
    BY <1>13 DEF Begin, FinishModelWork, jobVars, NothingSeen, Goto, TypeOK, Holding
  <1>14. ASSUME NEW w \in Workers, FinishParse(w)
        PROVE  Accounted'
    <2>1. Grown
      BY <1>14, FinishParseGrows
    <2> QED
      BY <1>14, <2>1 DEF FinishParse, Grown, Goto, TypeOK, Holding, NothingSeen, Created
  <1>15. ASSUME NEW w \in Workers, Schedule(w)
        PROVE  Accounted'
    <2>1. Grown
      BY <1>15, ScheduleGrows
    <2> QED
      BY <1>15, <2>1 DEF Schedule, AfterScheduling, Grown, Goto, TypeOK, Holding,
         NothingSeen, Created
  <1>16. ASSUME NEW w \in Workers, Complete(w)
        PROVE  Accounted'
    BY <1>16 DEF Complete, NothingSeen, Goto, TypeOK, Holding
  <1>17. ASSUME NEW w \in Workers, FailWrite(w)
        PROVE  Accounted'
    BY <1>17 DEF FailWrite, Verdict, NothingSeen, Goto, TypeOK, Holding
  <1>18. ASSUME NEW w \in Workers, Stop(w) \/ Crash(w)
        PROVE  Accounted'
    BY <1>18 DEF Stop, Crash, jobVars, NothingSeen, Goto, TypeOK, Holding
  <1>19. ASSUME NEW j \in Jobs, LeaseExpires(j) \/ BackoffElapses(j)
        PROVE  Accounted'
    BY <1>19 DEF LeaseExpires, BackoffElapses, workerVars
  <1>20. CASE UNCHANGED vars
    BY <1>20 DEF vars, jobVars, workerVars
  <1> QED
    BY <1>1, <1>2, <1>3, <1>4, <1>5, <1>6, <1>7, <1>8, <1>9, <1>10, <1>11, <1>12, <1>13,
       <1>14, <1>15, <1>16, <1>17, <1>18, <1>19, <1>20 DEF Next, Api, WorkerStep
(***************************************************************************)
(* An attempt is spent before a job is over, and what waits has one left.  *)
(***************************************************************************)
LEMMA SpentStep ==
    ASSUME OneWorker, TypeOK, TypeOK', Accounted, Spent, [Next]_vars
    PROVE  Spent'
  <1> USE KindAssumption, NoneIsNoJob DEF Spent, Picked, OneWorker
  <1>1. ASSUME NEW c \in Callers, NEW t \in Targets, RequestRead(c, t)
        PROVE  Spent'
    BY <1>1 DEF RequestRead, jobVars, workerVars
  <1>2. ASSUME NEW c \in Callers, NEW t \in Targets, RequestCommit(c, t)
        PROVE  Spent'
    <2>1. Grown
      BY <1>2, RequestGrows
    <2> QED
      BY <1>2, <2>1 DEF RequestCommit, Grown, workerVars, TypeOK, Created
  <1>3. ASSUME NEW c \in Callers, NEW j \in Jobs, CancelRead(c, j)
        PROVE  Spent'
    BY <1>3 DEF CancelRead, jobVars, workerVars
  <1>4. ASSUME NEW c \in Callers, NEW j \in Jobs, NEW q \in BOOLEAN, CancelCommit(c, j, q)
        PROVE  Spent'
    BY <1>4 DEF CancelCommit, workerVars, TypeOK, Created
  <1>5. ASSUME NEW w \in Workers, Start(w)
        PROVE  Spent'
    BY <1>5 DEF Start, jobVars, Goto, TypeOK
  <1>6. ASSUME NEW w \in Workers, BootRead(w)
        PROVE  Spent'
    BY <1>6 DEF BootRead, BootSelection, jobVars, Goto, TypeOK
  <1>7. ASSUME NEW w \in Workers, BootWrite(w)
        PROVE  Spent'
    BY <1>7 DEF BootWrite, Settle, SettledStatus, NothingSeen, Goto, TypeOK
  <1>8. ASSUME NEW w \in Workers, FailExhausted(w)
        PROVE  Spent'
    BY <1>8 DEF FailExhausted, Settle, SettledStatus, Goto, TypeOK
  <1>9. ASSUME NEW w \in Workers, RecoverRead(w)
        PROVE  Spent'
    BY <1>9 DEF RecoverRead, jobVars, NothingSeen, Goto, TypeOK
  <1>10. ASSUME NEW w \in Workers, RecoverWrite(w)
        PROVE  Spent'
    BY <1>10 DEF RecoverWrite, Settle, SettledStatus, NothingSeen, Goto, TypeOK
  <1>11. ASSUME NEW w \in Workers, NEW j \in Jobs, Claim(w, j)
        PROVE  Spent'
    BY <1>11 DEF Claim, Goto, TypeOK
  <1>12. ASSUME NEW w \in Workers,
                NothingToClaim(w) \/ CheckCanceled(w) \/ HandlerSeesCancel(w)
                \/ FinalCheck(w) \/ Raise(w) \/ FailRead(w)
        PROVE  Spent'
    BY <1>12 DEF NothingToClaim, CheckCanceled, HandlerSeesCancel, FinalCheck, Raise,
                 FailRead, jobVars, Goto, TypeOK
  <1>13. ASSUME NEW w \in Workers, Begin(w) \/ FinishModelWork(w)
        PROVE  Spent'
    BY <1>13 DEF Begin, FinishModelWork, jobVars, Goto, TypeOK
  <1>14. ASSUME NEW w \in Workers, FinishParse(w)
        PROVE  Spent'
    <2>1. Grown
      BY <1>14, FinishParseGrows
    <2> QED
      BY <1>14, <2>1 DEF FinishParse, Grown, Goto, TypeOK, Created
  <1>15. ASSUME NEW w \in Workers, Schedule(w)
        PROVE  Spent'
    <2>1. Grown
      BY <1>15, ScheduleGrows
    <2> QED
      BY <1>15, <2>1 DEF Schedule, AfterScheduling, Grown, Goto, TypeOK, Created
  <1>16. ASSUME NEW w \in Workers, Complete(w)
        PROVE  Spent'
    BY <1>16 DEF Complete, Goto, TypeOK
  <1>17. ASSUME NEW w \in Workers, FailWrite(w)
        PROVE  Spent'
    BY <1>17 DEF FailWrite, Verdict, Goto, TypeOK
  <1>18. ASSUME NEW w \in Workers, Stop(w) \/ Crash(w)
        PROVE  Spent'
    BY <1>18 DEF Stop, Crash, jobVars, NothingSeen, Goto, TypeOK
  <1>19. ASSUME NEW j \in Jobs, LeaseExpires(j) \/ BackoffElapses(j)
        PROVE  Spent'
    BY <1>19 DEF LeaseExpires, BackoffElapses, workerVars
  <1>20. CASE UNCHANGED vars
    BY <1>20 DEF vars, jobVars, workerVars
  <1> QED
    BY <1>1, <1>2, <1>3, <1>4, <1>5, <1>6, <1>7, <1>8, <1>9, <1>10, <1>11, <1>12, <1>13,
       <1>14, <1>15, <1>16, <1>17, <1>18, <1>19, <1>20 DEF Next, Api, WorkerStep

\* A new row has all its attempts.
LEMMA GrowthLeavesAttempts ==
    ASSUME TypeOK, TypeOK', ModelInv, AttemptLeft, Grown, UNCHANGED held,
           \A w \in Workers : seen'[w] = seen[w] /\ (pc'[w] = "toRetry" => pc[w] = "toRetry")
    PROVE  AttemptLeft'
  <1> USE DEF AttemptLeft
  <1>1. \A j \in Created : target'[j] = target[j] /\ attempts'[j] = attempts[j]
    BY DEF Grown, Created
  <1>2. \A j \in Created : Retryable(j)' = Retryable(j) /\ ModelJob(j)' = ModelJob(j)
    BY <1>1 DEF Retryable, ModelJob, JobKind
  <1>3. ASSUME NEW j \in Jobs, status'[j] = "QUEUED" PROVE Retryable(j)'
    <2>1. CASE status[j] = "NONE"
      <3>1. attempts'[j] = 0
        BY <2>1 DEF Grown, ModelInv, AttemptsTold
      <3> QED
        BY <3>1 DEF Retryable, MaxAttempts
    <2>2. CASE status[j] # "NONE"
      BY <1>2, <1>3, <2>2 DEF Grown, Created
    <2> QED
      BY <2>1, <2>2
  <1>4. \A j \in delayed' : ~ModelJob(j)'
    BY <1>2 DEF Grown, TypeOK
  <1>5. ASSUME NEW w \in Workers
        PROVE  /\ \A j \in seen'[w].requeued : Retryable(j)'
               /\ pc'[w] = "toRetry" => Retryable(held[w])'
    BY <1>2 DEF TypeOK, Holding
  <1> QED
    BY <1>3, <1>4, <1>5

\* No step puts a job in the queue, or is about to, that has no attempt left.
LEMMA AttemptLeftStep ==
    ASSUME OneWorker, TypeOK, TypeOK', ModelInv, Accounted, AttemptLeft, [Next]_vars
    PROVE  AttemptLeft'
  <1> USE KindAssumption, NoneIsNoJob DEF AttemptLeft, OneWorker
  <1>1. ASSUME NEW c \in Callers, NEW t \in Targets, RequestRead(c, t)
        PROVE  AttemptLeft'
    BY <1>1 DEF RequestRead, jobVars, workerVars, Retryable, ModelJob, JobKind, MaxAttempts
  <1>2. ASSUME NEW c \in Callers, NEW t \in Targets, RequestCommit(c, t)
        PROVE  AttemptLeft'
    <2>1. Grown
      BY <1>2, RequestGrows
    <2> QED
      BY <1>2, <2>1, GrowthLeavesAttempts DEF RequestCommit, workerVars
  <1>3. ASSUME NEW c \in Callers, NEW j \in Jobs, CancelRead(c, j)
        PROVE  AttemptLeft'
    BY <1>3 DEF CancelRead, jobVars, workerVars, Retryable, ModelJob, JobKind, MaxAttempts
  <1>4. ASSUME NEW c \in Callers, NEW j \in Jobs, NEW q \in BOOLEAN, CancelCommit(c, j, q)
        PROVE  AttemptLeft'
    BY <1>4 DEF CancelCommit, workerVars, TypeOK, Created, Retryable, ModelJob, JobKind,
       MaxAttempts
  <1>5. ASSUME NEW w \in Workers, Start(w)
        PROVE  AttemptLeft'
    BY <1>5 DEF Start, jobVars, Goto, TypeOK, Retryable, ModelJob, JobKind, MaxAttempts
  <1>6. ASSUME NEW w \in Workers, BootRead(w)
        PROVE  AttemptLeft'
    BY <1>6 DEF BootRead, BootSelection, jobVars, Goto, TypeOK, Retryable, ModelJob,
       JobKind, MaxAttempts
  <1>7. ASSUME NEW w \in Workers, BootWrite(w)
        PROVE  AttemptLeft'
    BY <1>7 DEF BootWrite, Settle, SettledStatus, NothingSeen, Goto, TypeOK, Retryable,
       ModelJob, JobKind, MaxAttempts
  <1>8. ASSUME NEW w \in Workers, FailExhausted(w)
        PROVE  AttemptLeft'
    BY <1>8 DEF FailExhausted, Settle, SettledStatus, Goto, TypeOK, Retryable, ModelJob,
       JobKind, MaxAttempts
  <1>9. ASSUME NEW w \in Workers, RecoverRead(w)
        PROVE  AttemptLeft'
    BY <1>9 DEF RecoverRead, jobVars, NothingSeen, Goto, TypeOK, Retryable, ModelJob,
       JobKind, MaxAttempts
  <1>10. ASSUME NEW w \in Workers, RecoverWrite(w)
        PROVE  AttemptLeft'
    BY <1>10 DEF RecoverWrite, Settle, SettledStatus, NothingSeen, Goto, TypeOK,
       Retryable, ModelJob, JobKind, MaxAttempts
  <1>11. ASSUME NEW w \in Workers, NEW j \in Jobs, Claim(w, j)
        PROVE  AttemptLeft'
    <2>1. \A i \in Jobs \ {j} : Retryable(i)' = Retryable(i)
      BY <1>11 DEF Claim, TypeOK, Retryable, JobKind
    <2>2. \A i \in Jobs : ModelJob(i)' = ModelJob(i)
      BY <1>11 DEF Claim, ModelJob, JobKind
    <2>3. seen'[w].requeued = {} /\ pc'[w] # "toRetry"
      BY <1>11 DEF Claim, Accounted, NothingSeen, Goto, TypeOK
    <2>4. \A i \in Jobs : status'[i] = "QUEUED" => Retryable(i)'
      BY <1>11, <2>1 DEF Claim, TypeOK
    <2>5. \A i \in delayed' : ~ModelJob(i)'
      BY <1>11, <2>2 DEF Claim, TypeOK, Created
    <2> QED
      BY <2>3, <2>4, <2>5
  <1>12. ASSUME NEW w \in Workers,
                NothingToClaim(w) \/ CheckCanceled(w) \/ HandlerSeesCancel(w)
                \/ FinalCheck(w) \/ Raise(w) \/ FailRead(w)
        PROVE  AttemptLeft'
    BY <1>12 DEF NothingToClaim, CheckCanceled, HandlerSeesCancel, FinalCheck, Raise,
                 FailRead, jobVars, Goto, TypeOK, Retryable, ModelJob, JobKind, MaxAttempts
  <1>13. ASSUME NEW w \in Workers, Begin(w) \/ FinishModelWork(w)
        PROVE  AttemptLeft'
    BY <1>13 DEF Begin, FinishModelWork, jobVars, Goto, TypeOK, Retryable, ModelJob,
       JobKind, MaxAttempts
  <1>14. ASSUME NEW w \in Workers, FinishParse(w)
        PROVE  AttemptLeft'
    <2>1. Grown
      BY <1>14, FinishParseGrows
    <2> QED
      BY <1>14, <2>1, GrowthLeavesAttempts DEF FinishParse, Goto, TypeOK
  <1>15. ASSUME NEW w \in Workers, Schedule(w)
        PROVE  AttemptLeft'
    <2>1. Grown
      BY <1>15, ScheduleGrows
    <2> QED
      BY <1>15, <2>1, GrowthLeavesAttempts DEF Schedule, AfterScheduling, Goto, TypeOK
  <1>16. ASSUME NEW w \in Workers, Complete(w)
        PROVE  AttemptLeft'
    BY <1>16 DEF Complete, Goto, TypeOK, Retryable, ModelJob, JobKind, MaxAttempts
  <1>17. ASSUME NEW w \in Workers, FailWrite(w)
        PROVE  AttemptLeft'
    <2>1. \A i \in Jobs : Retryable(i)' = Retryable(i) /\ ModelJob(i)' = ModelJob(i)
      BY <1>17 DEF FailWrite, Retryable, ModelJob, JobKind
    <2>2. pc[w] = "toRetry" => ~ModelJob(held[w]) /\ Retryable(held[w])
      BY DEF ModelInv, NoSecondChance
    <2>3. held[w] \in Created
      BY <1>17 DEF FailWrite, TypeOK, Holding
    <2>4. \A i \in Jobs : status'[i] = "QUEUED" => Retryable(i)'
      BY <1>17, <2>1, <2>2, <2>3 DEF FailWrite, Verdict, TypeOK, Created
    <2>5. \A i \in delayed' : ~ModelJob(i)'
      BY <1>17, <2>1, <2>2, <2>3 DEF FailWrite, TypeOK, Created
    <2>6. \A i \in seen'[w].requeued : Retryable(i)'
      BY <1>17, <2>1 DEF FailWrite, TypeOK, Created
    <2>7. pc'[w] # "toRetry"
      BY <1>17 DEF FailWrite, Goto, TypeOK
    <2> QED
      BY <2>4, <2>5, <2>6, <2>7
  <1>18. ASSUME NEW w \in Workers, Stop(w) \/ Crash(w)
        PROVE  AttemptLeft'
    BY <1>18 DEF Stop, Crash, jobVars, NothingSeen, Goto, TypeOK, Retryable, ModelJob,
       JobKind, MaxAttempts
  <1>19. ASSUME NEW j \in Jobs, LeaseExpires(j) \/ BackoffElapses(j)
        PROVE  AttemptLeft'
    BY <1>19 DEF LeaseExpires, BackoffElapses, workerVars, Retryable, ModelJob, JobKind,
       MaxAttempts
  <1>20. CASE UNCHANGED vars
    BY <1>20 DEF vars, jobVars, workerVars, Retryable, ModelJob, JobKind, MaxAttempts
  <1> QED
    BY <1>1, <1>2, <1>3, <1>4, <1>5, <1>6, <1>7, <1>8, <1>9, <1>10, <1>11, <1>12, <1>13,
       <1>14, <1>15, <1>16, <1>17, <1>18, <1>19, <1>20 DEF Next, Api, WorkerStep

(***************************************************************************)
(* Jobs for one target follow one another.                                 *)
(***************************************************************************)
LEMMA NumberedInsert ==
    ASSUME TypeOK, Numbered, NEW t \in Targets, NEW j \in Jobs, NextJob(j), Insert(j, t)
    PROVE  Numbered'
  <1>1. Created' = Created \cup {j}
    BY DEF Insert, Created, TypeOK
  <1>2. \A i \in Jobs : i < j => i \in Created
    BY BoundAssumption DEF NextJob, Jobs
  <1>3. \A i \in Jobs \ Created' : target'[i] = target[i]
    BY <1>1 DEF Insert, TypeOK
  <1> QED
    BY <1>1, <1>2, <1>3 DEF Numbered

\* What recovery has selected, and what has expired, exists.
LEMMA SeenFacts ==
    ASSUME TypeOK, NEW w \in Workers
    PROVE  /\ seen[w].canceled \in SUBSET Created /\ seen[w].failed \in SUBSET Created
           /\ seen[w].requeued \in SUBSET Created
           /\ expired \in SUBSET Created
  BY DEF TypeOK, Created

\* A request cancels a row it has read, and rows do not vanish.
LEMMA CanceledExists ==
    ASSUME TypeOK, NEW c \in Callers, NEW j \in Jobs, NEW q \in BOOLEAN, CancelCommit(c, j, q)
    PROVE  j \in Created
  <1>1. calls[c] \in Calls /\ calls[c] = Cancel(j, q)
    BY DEF TypeOK, CancelCommit
  <1>2. calls[c].op = "cancel" /\ calls[c].on = j
    BY <1>1 DEF Cancel
  <1>3. \E k \in Created, r \in BOOLEAN : calls[c] = Cancel(k, r)
    BY <1>1, <1>2 DEF Calls, Request, NoCall
  <1> QED
    BY <1>2, <1>3 DEF Cancel

\* A new row for a target is preceded by no active one, but for an analysis, and
\* then it is untaken.
LEMMA SuccessiveInsert ==
    ASSUME TypeOK, ModelInv, Numbered, Successive,
           NEW t \in Targets, NEW n \in Jobs, NextJob(n), Insert(n, t),
           KindOf[t] = "analyze_project" \/ Duplicates(t) = {}
    PROVE  Numbered' /\ Successive'
  <1>1. Created' = Created \cup {n} /\ n \notin Created
    BY DEF Insert, Created, TypeOK, NextJob
  <1>2. \A i \in Created : target'[i] = target[i] /\ status'[i] = status[i]
    BY <1>1 DEF Insert, TypeOK, Created
  <1>3. attempts' = attempts /\ cancelRequested' = cancelRequested /\ attempts[n] = 0
    BY <1>1 DEF Insert, ModelInv, AttemptsTold, Created
  <1>4. target'[n] = t
    BY DEF Insert, TypeOK
  <1>5. ASSUME NEW i \in Created', NEW j \in Created',
               j < i, target'[i] = target'[j], status'[j] \in Active, j \notin cancelRequested
        PROVE  JobKind(j)' = "analyze_project" /\ attempts[i] = 0
    <2>1. CASE j = n
      <3>1. i \in Created /\ n < i /\ i \in Jobs
        BY <1>1, <1>5, <2>1, BoundAssumption DEF Jobs, Created
      <3> QED
        BY <1>1, <3>1 DEF Numbered
    <2>2. CASE j # n /\ i # n
      <3>1. i \in Created /\ j \in Created
        BY <1>1, <2>2
      <3>2. JobKind(j) = "analyze_project" /\ attempts[i] = 0
        BY <1>2, <1>5, <3>1 DEF Successive
      <3> QED
        BY <1>2, <3>1, <3>2 DEF JobKind
    <2>3. CASE j # n /\ i = n
      <3>1. j \in Created /\ target[j] = t /\ status[j] \in Active
        BY <1>1, <1>2, <1>4, <1>5, <2>3
      <3>2. KindOf[t] = "analyze_project"
        BY <3>1 DEF Duplicates, JobsOf, Created
      <3> QED
        BY <1>2, <1>3, <2>3, <3>1, <3>2 DEF JobKind
    <2> QED
      BY <2>1, <2>2, <2>3
  <1>6. Successive'
    BY <1>3, <1>5 DEF Successive
  <1> QED
    BY <1>6, NumberedInsert

\* The same for enqueue, which may find an active job instead.
LEMMA SuccessiveEnqueue ==
    ASSUME TypeOK, ModelInv, Numbered, Successive, NEW t \in Targets, Enqueue(t)
    PROVE  Numbered' /\ Successive'
  <1>1. CASE UNCHANGED jobVars
    BY <1>1 DEF jobVars, Numbered, Successive, Created, JobKind
  <1>2. CASE Duplicates(t) = {} /\ \E j \in Jobs : NextJob(j) /\ Insert(j, t)
    BY <1>2, SuccessiveInsert
  <1> QED
    BY <1>1, <1>2 DEF Enqueue

\* What leaves no job active that was not, or that nobody had canceled, keeps
\* the order of jobs.
LEMMA SuccessiveFrame ==
    ASSUME Numbered, Successive, UNCHANGED <<target, attempts>>, Created' = Created,
           cancelRequested \subseteq cancelRequested',
           \A j \in Jobs : status'[j] \in Active /\ j \notin cancelRequested' => status[j] \in Active
    PROVE  Numbered' /\ Successive'
  <1>1. Numbered'
    BY DEF Numbered
  <1>2. \A j \in Created : JobKind(j)' = JobKind(j)
    BY DEF JobKind
  <1>3. Successive'
    BY <1>2 DEF Successive, Created
  <1> QED
    BY <1>1, <1>3

\* No step makes a job active again that has been followed by another.  A claim
\* is the case that matters: of two analyses that wait, the older goes first.
LEMMA SuccessiveStep ==
    ASSUME OneWorker, TypeOK, TypeOK', ModelInv, Accounted, AttemptLeft,
           Numbered, Successive, [Next]_vars
    PROVE  Numbered' /\ Successive'
  <1> USE KindAssumption, NoneIsNoJob DEF OneWorker
  <1>1. ASSUME NEW c \in Callers, NEW t \in Targets, RequestRead(c, t)
        PROVE  Numbered' /\ Successive'
    BY <1>1, SuccessiveFrame DEF RequestRead, jobVars, Created
  <1>2. ASSUME NEW c \in Callers, NEW t \in Targets, RequestCommit(c, t)
        PROVE  Numbered' /\ Successive'
    <2>1. CASE KindOf[t] = "analyze_project"
      BY <1>2, <2>1, SuccessiveInsert DEF RequestCommit
    <2>2. CASE KindOf[t] # "analyze_project"
      BY <1>2, <2>2, SuccessiveEnqueue DEF RequestCommit
    <2> QED
      BY <2>1, <2>2
  <1>3. ASSUME NEW c \in Callers, NEW j \in Jobs, CancelRead(c, j)
        PROVE  Numbered' /\ Successive'
    BY <1>3, SuccessiveFrame DEF CancelRead, jobVars, Created
  <1>4. ASSUME NEW c \in Callers, NEW j \in Jobs, NEW q \in BOOLEAN, CancelCommit(c, j, q)
        PROVE  Numbered' /\ Successive'
    <2>1. Created' = Created
      BY <1>4, CanceledExists DEF CancelCommit, TypeOK, Created
    <2>2. \A i \in Jobs : status'[i] = status[i] \/ status'[i] = "CANCELED"
      BY <1>4 DEF CancelCommit, TypeOK
    <2> QED
      BY <1>4, <2>1, <2>2, SuccessiveFrame DEF CancelCommit, Active
  <1>5. ASSUME NEW w \in Workers, Start(w)
        PROVE  Numbered' /\ Successive'
    BY <1>5, SuccessiveFrame DEF Start, jobVars, Created
  <1>6. ASSUME NEW w \in Workers, BootRead(w)
        PROVE  Numbered' /\ Successive'
    BY <1>6, SuccessiveFrame DEF BootRead, jobVars, Created
  <1>7. ASSUME NEW w \in Workers, BootWrite(w)
        PROVE  Numbered' /\ Successive'
    <2>1. Created' = Created
      BY <1>7, SettleFacts, SeenFacts DEF BootWrite
    <2>2. \A i \in Jobs : status'[i] \in Active /\ i \notin cancelRequested => status[i] \in Active
      BY <1>7 DEF BootWrite, Settle, SettledStatus, Active, Accounted, Picked, InHand
    <2> QED
      BY <1>7, <2>1, <2>2, SuccessiveFrame DEF BootWrite, Settle
  <1>8. ASSUME NEW w \in Workers, FailExhausted(w)
        PROVE  Numbered' /\ Successive'
    <2>1. Created' = Created
      <3> DEFINE F == {j \in expired \ cancelRequested : ~Retryable(j)}
      <3>1. Settle({}, F, {}) /\ F \in SUBSET Created /\ {} \in SUBSET Created
        BY <1>8, SeenFacts DEF FailExhausted
      <3> HIDE DEF F
      <3> QED
        BY <3>1, SettleFacts
    <2>2. \A i \in Jobs : status'[i] \in Active /\ i \notin cancelRequested => status[i] \in Active
      BY <1>8 DEF FailExhausted, Settle, SettledStatus, Active, TypeOK
    <2> QED
      BY <1>8, <2>1, <2>2, SuccessiveFrame DEF FailExhausted, Settle
  <1>9. ASSUME NEW w \in Workers, RecoverRead(w)
        PROVE  Numbered' /\ Successive'
    BY <1>9, SuccessiveFrame DEF RecoverRead, jobVars, Created
  <1>10. ASSUME NEW w \in Workers, RecoverWrite(w)
        PROVE  Numbered' /\ Successive'
    <2>1. Created' = Created
      <3> DEFINE R == {j \in expired \ seen[w].canceled : Retryable(j)}
      <3>1. /\ Settle(seen[w].canceled, {}, R)
            /\ seen[w].canceled \in SUBSET Created /\ {} \in SUBSET Created /\ R \in SUBSET Created
        BY <1>10, SeenFacts DEF RecoverWrite
      <3> HIDE DEF R
      <3> QED
        BY <3>1, SettleFacts
    <2>2. \A i \in Jobs : status'[i] \in Active /\ i \notin cancelRequested => status[i] \in Active
      BY <1>10 DEF RecoverWrite, Settle, SettledStatus, Active, TypeOK
    <2> QED
      BY <1>10, <2>1, <2>2, SuccessiveFrame DEF RecoverWrite, Settle
  <1>11. ASSUME NEW w \in Workers, NEW j \in Jobs, Claim(w, j)
        PROVE  Numbered' /\ Successive'
    <2>1. status[j] = "QUEUED" /\ held[w] = None
      BY <1>11 DEF Claim, Claimable, Accounted, TypeOK, Holding
    <2>2. Created' = Created /\ (\A i \in Created : JobKind(i)' = JobKind(i))
      BY <1>11, <2>1 DEF Claim, TypeOK, Created, JobKind
    <2>3. \A i \in Jobs : status'[i] \in Active => status[i] \in Active
      BY <1>11, <2>1 DEF Claim, TypeOK, Active
    <2>4. \A i \in Jobs \ {j} : attempts'[i] = attempts[i]
      BY <1>11 DEF Claim, TypeOK
    <2>5. ASSUME NEW i \in Created, i < j, target[j] = target[i],
                 status[i] \in Active, i \notin cancelRequested
          PROVE  FALSE
      <3>1. j \in Created /\ i \in Jobs
        BY <2>1 DEF Created
      <3>2. JobKind(i) = "analyze_project"
        BY <2>5, <3>1 DEF Successive
      <3>3. ModelJob(i) /\ ModelJob(j)
        BY <2>5, <3>1, <3>2 DEF ModelJob, JobKind, TypeOK
      <3>4. status[i] = "QUEUED"
        BY <1>11, <2>1, <2>5, <3>1 DEF Accounted, Claim, Active
      <3>5. attempts[i] = 0 /\ attempts[j] = 0
        BY <2>1, <3>1, <3>3, <3>4 DEF ModelInv, AttemptsTold
      <3>6. Claimable(i)
        BY <1>11, <3>3, <3>4 DEF Claim, Claimable, AttemptLeft
      <3>7. j <= i
        BY <1>11, <3>1, <3>5, <3>6 DEF Claim, Oldest
      <3> QED
        BY <2>5, <3>1, <3>7, BoundAssumption DEF Jobs
    <2>6. Numbered'
      BY <1>11, <2>2 DEF Numbered, Claim
    <2>7. Successive'
      <3>1. UNCHANGED <<target, cancelRequested>>
        BY <1>11 DEF Claim
      <3>2. ASSUME NEW i \in Created, NEW k \in Created, k < i, target[i] = target[k],
                   status'[k] \in Active, k \notin cancelRequested
            PROVE  JobKind(k)' = "analyze_project" /\ attempts'[i] = 0
        <4>1. k \in Jobs /\ i \in Jobs /\ status[k] \in Active
          BY <2>3, <3>2 DEF Created
        <4>2. i # j
          BY <2>5, <3>2, <4>1
        <4> QED
          BY <2>2, <2>4, <3>2, <4>1, <4>2 DEF Successive
      <3> QED
        BY <2>2, <3>1, <3>2 DEF Successive
    <2> QED
      BY <2>6, <2>7
  <1>12. ASSUME NEW w \in Workers,
                NothingToClaim(w) \/ CheckCanceled(w) \/ HandlerSeesCancel(w)
                \/ FinalCheck(w) \/ Raise(w) \/ FailRead(w)
        PROVE  Numbered' /\ Successive'
    BY <1>12, SuccessiveFrame DEF NothingToClaim, CheckCanceled, HandlerSeesCancel,
       FinalCheck, Raise, FailRead, jobVars, Created
  <1>13. ASSUME NEW w \in Workers, Begin(w) \/ FinishModelWork(w)
        PROVE  Numbered' /\ Successive'
    BY <1>13, SuccessiveFrame DEF Begin, FinishModelWork, jobVars, Created
  <1>14. ASSUME NEW w \in Workers, FinishParse(w)
        PROVE  Numbered' /\ Successive'
    <2>1. PICK t \in BuiltOn(target[held[w]]) : QueueProcessing(t)
      BY <1>14 DEF FinishParse
    <2>2. t \in Targets /\ (Enqueue(t) \/ UNCHANGED jobVars)
      BY <2>1 DEF QueueProcessing, BuiltOn
    <2>3. CASE UNCHANGED jobVars
      BY <2>3, SuccessiveFrame DEF jobVars, Created
    <2> QED
      BY <2>2, <2>3, SuccessiveEnqueue
  <1>15. ASSUME NEW w \in Workers, Schedule(w)
        PROVE  Numbered' /\ Successive'
    <2>1. CASE UNCHANGED jobVars
      BY <2>1, SuccessiveFrame DEF jobVars, Created
    <2>2. CASE \E t \in OfKind("analyze_project"), j \in Jobs : NextJob(j) /\ Insert(j, t)
      BY <2>2, SuccessiveInsert DEF OfKind
    <2> QED
      BY <1>15, <2>1, <2>2 DEF Schedule
  <1>16. ASSUME NEW w \in Workers, Complete(w)
        PROVE  Numbered' /\ Successive'
    <2>1. held[w] \in Created /\ InHand(held[w])
      BY <1>16 DEF Complete, TypeOK, Holding, Accounted, Created
    <2>2. Created' = Created
      BY <1>16, <2>1 DEF Complete, TypeOK, Created
    <2>3. \A i \in Jobs : status'[i] \in Active /\ i \notin cancelRequested => status[i] \in Active
      BY <1>16, <2>1 DEF Complete, TypeOK, Active, InHand
    <2> QED
      BY <1>16, <2>2, <2>3, SuccessiveFrame DEF Complete
  <1>17. ASSUME NEW w \in Workers, FailWrite(w)
        PROVE  Numbered' /\ Successive'
    <2>1. held[w] \in Created /\ InHand(held[w])
      BY <1>17 DEF FailWrite, TypeOK, Holding, Accounted, Created
    <2>2. Created' = Created
      BY <1>17, <2>1 DEF FailWrite, TypeOK, Created, Verdict
    <2>3. \A i \in Jobs : status'[i] \in Active /\ i \notin cancelRequested => status[i] \in Active
      BY <1>17, <2>1 DEF FailWrite, TypeOK, Active, InHand, Verdict
    <2> QED
      BY <1>17, <2>2, <2>3, SuccessiveFrame DEF FailWrite
  <1>18. ASSUME NEW w \in Workers, Stop(w) \/ Crash(w)
        PROVE  Numbered' /\ Successive'
    BY <1>18, SuccessiveFrame DEF Stop, Crash, jobVars, Created
  <1>19. ASSUME NEW j \in Jobs, LeaseExpires(j) \/ BackoffElapses(j)
        PROVE  Numbered' /\ Successive'
    BY <1>19, SuccessiveFrame DEF LeaseExpires, BackoffElapses, Created
  <1>20. CASE UNCHANGED vars
    BY <1>20, SuccessiveFrame DEF vars, jobVars, Created
  <1> QED
    BY <1>1, <1>2, <1>3, <1>4, <1>5, <1>6, <1>7, <1>8, <1>9, <1>10, <1>11, <1>12, <1>13,
       <1>14, <1>15, <1>16, <1>17, <1>18, <1>19, <1>20 DEF Next, Api, WorkerStep

(***************************************************************************)
(* What a worker goes on with has not been overtaken.                      *)
(***************************************************************************)
LEMMA LaterUntakenKept ==
    ASSUME TypeOK, ModelInv, UNCHANGED attempts,
           \A i \in Jobs : target'[i] = target[i] \/ status[i] = "NONE",
           NEW j \in Created, LaterUntaken(j)
    PROVE  LaterUntaken(j)'
  <1>1. j \in Jobs /\ target'[j] = target[j]
    BY DEF Created
  <1>2. ASSUME NEW i \in Jobs, target'[i] = target[j], i > j PROVE attempts[i] = 0
    BY <1>2 DEF LaterUntaken, JobsOf, ModelInv, AttemptsTold
  <1> QED
    BY <1>1, <1>2 DEF LaterUntaken, JobsOf

\* It stays so while nothing is claimed.
LEMMA UnovertakenFrame ==
    ASSUME TypeOK, ModelInv, Unovertaken, UNCHANGED attempts,
           \A i \in Jobs : target'[i] = target[i] \/ status[i] = "NONE",
           \A w \in Workers :
               /\ pc'[w] \in Pursuing => pc[w] \in Pursuing /\ held'[w] = held[w]
               /\ seen'[w].failed \subseteq seen[w].failed
    PROVE  Unovertaken'
  <1>1. ASSUME NEW w \in Workers, pc'[w] \in Pursuing PROVE LaterUntaken(held[w])'
    <2>1. held[w] \in Created /\ LaterUntaken(held[w])
      BY <1>1 DEF Unovertaken, Pursuing, Holding, TypeOK
    <2> QED
      <3>2. held'[w] = held[w]
        BY <1>1
      <3>3. \A i \in Jobs : target'[i] = target[held[w]] /\ i > held[w] => attempts[i] = 0
        BY <2>1 DEF LaterUntaken, JobsOf, ModelInv, AttemptsTold
      <3>4. target'[held[w]] = target[held[w]]
        BY <2>1 DEF Created
      <3> QED
        BY <3>2, <3>3, <3>4 DEF LaterUntaken, JobsOf
  <1>2. ASSUME NEW w \in Workers, NEW j \in seen'[w].failed PROVE LaterUntaken(j)'
    BY LaterUntakenKept, <1>2 DEF Unovertaken, TypeOK
  <1> QED
    BY <1>1, <1>2 DEF Unovertaken

\* A job that runs and that nobody canceled has not been overtaken.
LEMMA RunningUnovertaken ==
    ASSUME TypeOK, ModelInv, Successive, NEW j \in Jobs,
           status[j] = "RUNNING", j \notin cancelRequested
    PROVE  LaterUntaken(j)
  <1>1. ASSUME NEW i \in JobsOf(target[j]), i > j PROVE attempts[i] = 0
    <2>1. CASE status[i] = "NONE"
      BY <1>1, <2>1 DEF JobsOf, ModelInv, AttemptsTold
    <2>2. CASE status[i] # "NONE"
      <3>1. i \in Created /\ j \in Created /\ target[i] = target[j] /\ j < i
        BY <1>1, <2>2, BoundAssumption DEF JobsOf, Created, Jobs
      <3> QED
        BY <3>1 DEF Successive, Active
    <2> QED
      BY <2>1, <2>2
  <1> QED
    BY <1>1 DEF LaterUntaken

\* A worker only goes on with a job, and recovery only fails one, that no later
\* job for the same target has overtaken.
LEMMA UnovertakenStep ==
    ASSUME OneWorker, TypeOK, TypeOK', ModelInv, Accounted, Successive, Unovertaken, [Next]_vars
    PROVE  Unovertaken'
  <1> USE KindAssumption, NoneIsNoJob DEF OneWorker
  <1>1. ASSUME NEW c \in Callers, NEW t \in Targets, RequestRead(c, t)
        PROVE  Unovertaken'
    BY <1>1, UnovertakenFrame DEF RequestRead, jobVars, workerVars
  <1>2. ASSUME NEW c \in Callers, NEW t \in Targets, RequestCommit(c, t)
        PROVE  Unovertaken'
    <2>1. Grown
      BY <1>2, RequestGrows
    <2> QED
      BY <1>2, <2>1, UnovertakenFrame DEF RequestCommit, Grown, workerVars, TypeOK
  <1>3. ASSUME NEW c \in Callers, NEW j \in Jobs, CancelRead(c, j)
        PROVE  Unovertaken'
    BY <1>3, UnovertakenFrame DEF CancelRead, jobVars, workerVars
  <1>4. ASSUME NEW c \in Callers, NEW j \in Jobs, NEW q \in BOOLEAN, CancelCommit(c, j, q)
        PROVE  Unovertaken'
    BY <1>4, UnovertakenFrame DEF CancelCommit, workerVars, TypeOK
  <1>5. ASSUME NEW w \in Workers, Start(w)
        PROVE  Unovertaken'
    BY <1>5, UnovertakenFrame DEF Start, jobVars, Goto, TypeOK, Pursuing
  <1>6. ASSUME NEW w \in Workers, BootRead(w)
        PROVE  Unovertaken'
    <2>1. \A j \in seen'[w].failed : j \in Jobs /\ status[j] = "RUNNING" /\ j \notin cancelRequested
      BY <1>6 DEF BootRead, BootSelection, TypeOK
    <2>2. \A j \in seen'[w].failed : LaterUntaken(j)
      BY <2>1, RunningUnovertaken
    <2>3. UNCHANGED <<target, attempts>> /\ pc'[w] \notin Pursuing
      BY <1>6 DEF BootRead, jobVars, Goto, TypeOK, Pursuing
    <2>4. \A j \in seen'[w].failed : LaterUntaken(j)'
      BY <2>2, <2>3 DEF LaterUntaken, JobsOf
    <2> QED
      BY <2>3, <2>4 DEF Unovertaken
  <1>7. ASSUME NEW w \in Workers, BootWrite(w)
        PROVE  Unovertaken'
    BY <1>7, UnovertakenFrame DEF BootWrite, Settle, NothingSeen, Goto, TypeOK, Pursuing
  <1>8. ASSUME NEW w \in Workers, FailExhausted(w)
        PROVE  Unovertaken'
    BY <1>8, UnovertakenFrame DEF FailExhausted, Settle, Goto, TypeOK, Pursuing
  <1>9. ASSUME NEW w \in Workers, RecoverRead(w)
        PROVE  Unovertaken'
    <2>1. seen'[w].failed = {}
      BY <1>9 DEF RecoverRead, NothingSeen, TypeOK
    <2> QED
      BY <1>9, <2>1, UnovertakenFrame DEF RecoverRead, jobVars, Goto, TypeOK, Pursuing
  <1>10. ASSUME NEW w \in Workers, RecoverWrite(w)
        PROVE  Unovertaken'
    BY <1>10, UnovertakenFrame DEF RecoverWrite, Settle, NothingSeen, Goto, TypeOK, Pursuing
  <1>11. ASSUME NEW w \in Workers, NEW j \in Jobs, Claim(w, j)
        PROVE  Unovertaken'
    <2>1. pc'[w] \notin Pursuing /\ seen'[w].failed = {}
      BY <1>11 DEF Claim, Accounted, NothingSeen, Goto, TypeOK, Pursuing
    <2> QED
      BY <2>1 DEF Unovertaken
  <1>12. ASSUME NEW w \in Workers,
                NothingToClaim(w) \/ CheckCanceled(w) \/ HandlerSeesCancel(w)
                \/ FinalCheck(w) \/ Raise(w) \/ FailRead(w)
        PROVE  Unovertaken'
    <2>1. CASE CheckCanceled(w) /\ held[w] \notin cancelRequested
      <3>1. held[w] \in Created /\ LaterUntaken(held[w])
        BY <2>1, NoneIsNoJob, RunningUnovertaken DEF CheckCanceled, Accounted, InHand,
           TypeOK, Holding, Created
      <3>2. UNCHANGED <<target, attempts, held, seen>>
        BY <2>1 DEF CheckCanceled, jobVars
      <3>3. seen[w] = NothingSeen
        BY <2>1 DEF CheckCanceled, Accounted
      <3> QED
        BY <3>1, <3>2, <3>3 DEF Unovertaken, LaterUntaken, JobsOf, NothingSeen
    <2>2. CASE CheckCanceled(w) /\ held[w] \in cancelRequested
      BY <2>2, UnovertakenFrame DEF CheckCanceled, jobVars, Goto, TypeOK, Pursuing
    <2>3. CASE ~CheckCanceled(w)
      BY <1>12, <2>3, UnovertakenFrame DEF NothingToClaim, HandlerSeesCancel,
         FinalCheck, Raise,
                 FailRead, jobVars, Goto, TypeOK, Pursuing
    <2> QED
      BY <2>1, <2>2, <2>3
  <1>13. ASSUME NEW w \in Workers, Begin(w) \/ FinishModelWork(w)
        PROVE  Unovertaken'
    BY <1>13, UnovertakenFrame DEF Begin, FinishModelWork, jobVars, Goto, TypeOK, Pursuing
  <1>14. ASSUME NEW w \in Workers, FinishParse(w)
        PROVE  Unovertaken'
    <2>1. Grown
      BY <1>14, FinishParseGrows
    <2> QED
      BY <1>14, <2>1, UnovertakenFrame DEF FinishParse, Grown, Goto, TypeOK, Pursuing
  <1>15. ASSUME NEW w \in Workers, Schedule(w)
        PROVE  Unovertaken'
    <2>1. Grown
      BY <1>15, ScheduleGrows
    <2> QED
      BY <1>15, <2>1, UnovertakenFrame DEF Schedule, AfterScheduling, Grown, Goto,
         TypeOK, Pursuing
  <1>16. ASSUME NEW w \in Workers, Complete(w)
        PROVE  Unovertaken'
    BY <1>16, UnovertakenFrame DEF Complete, Goto, TypeOK, Pursuing
  <1>17. ASSUME NEW w \in Workers, FailWrite(w)
        PROVE  Unovertaken'
    BY <1>17, UnovertakenFrame DEF FailWrite, Verdict, Goto, TypeOK, Pursuing
  <1>18. ASSUME NEW w \in Workers, Stop(w) \/ Crash(w)
        PROVE  Unovertaken'
    BY <1>18, UnovertakenFrame DEF Stop, Crash, jobVars, NothingSeen, Goto, TypeOK, Pursuing
  <1>19. ASSUME NEW j \in Jobs, LeaseExpires(j) \/ BackoffElapses(j)
        PROVE  Unovertaken'
    BY <1>19, UnovertakenFrame DEF LeaseExpires, BackoffElapses, workerVars
  <1>20. CASE UNCHANGED vars
    BY <1>20, UnovertakenFrame DEF vars, jobVars, workerVars
  <1> QED
    BY <1>1, <1>2, <1>3, <1>4, <1>5, <1>6, <1>7, <1>8, <1>9, <1>10, <1>11, <1>12, <1>13,
       <1>14, <1>15, <1>16, <1>17, <1>18, <1>19, <1>20 DEF Next, Api, WorkerStep

(***************************************************************************)
(* Job and record are settled together.                                    *)
(***************************************************************************)
LEMMA ReportedStep ==
    ASSUME OneWorker, TypeOK, TypeOK', Accounted, Reported, [Next]_vars
    PROVE  Reported'
  <1> USE KindAssumption, NoneIsNoJob DEF Reported, OneWorker
  <1>1. ASSUME NEW c \in Callers, NEW t \in Targets, RequestRead(c, t)
        PROVE  Reported'
    BY <1>1 DEF RequestRead, jobVars, workerVars
  <1>2. ASSUME NEW c \in Callers, NEW t \in Targets, RequestCommit(c, t)
        PROVE  Reported'
    <2>1. Grown
      BY <1>2, RequestGrows
    <2>2. UNCHANGED <<pc, held>> /\ targetStatus' = Submitted(t)
      BY <1>2 DEF RequestCommit, workerVars
    <2>3. \A u \in Targets : targetStatus'[u] = targetStatus[u] \/ targetStatus'[u] \in {"queued", "none"}
      BY <2>2 DEF Submitted
    <2>4. ASSUME NEW w \in Workers, pc[w] \in Holding
          PROVE  target'[held[w]] = target[held[w]] /\ target[held[w]] \in Targets
      BY <2>1, <2>4 DEF Grown, TypeOK, Created
    <2> QED
      BY <2>2, <2>3, <2>4 DEF Holding
  <1>3. ASSUME NEW c \in Callers, NEW j \in Jobs, CancelRead(c, j)
        PROVE  Reported'
    BY <1>3 DEF CancelRead, jobVars, workerVars
  <1>4. ASSUME NEW c \in Callers, NEW j \in Jobs, NEW q \in BOOLEAN, CancelCommit(c, j, q)
        PROVE  Reported'
    <2>1. UNCHANGED <<pc, held, target>>
      BY <1>4 DEF CancelCommit, workerVars
    <2>2. \A u \in Targets : targetStatus'[u] = targetStatus[u] \/ targetStatus'[u] = "canceled"
      BY <1>4 DEF CancelCommit, TypeOK
    <2>3. ASSUME NEW w \in Workers, pc[w] \in Holding
          PROVE  held[w] \in Created /\ target[held[w]] \in Targets
      BY <2>3 DEF TypeOK
    <2> QED
      BY <2>1, <2>2, <2>3 DEF Holding
  <1>5. ASSUME NEW w \in Workers, Start(w)
        PROVE  Reported'
    BY <1>5 DEF Start, jobVars, Goto, TypeOK
  <1>6. ASSUME NEW w \in Workers, BootRead(w)
        PROVE  Reported'
    BY <1>6 DEF BootRead, BootSelection, jobVars, Goto, TypeOK
  <1>7. ASSUME NEW w \in Workers, BootWrite(w)
        PROVE  Reported'
    BY <1>7 DEF BootWrite, Settle, SettledStatus, NothingSeen, Goto, TypeOK
  <1>8. ASSUME NEW w \in Workers, FailExhausted(w)
        PROVE  Reported'
    BY <1>8 DEF FailExhausted, Settle, SettledStatus, Goto, TypeOK
  <1>9. ASSUME NEW w \in Workers, RecoverRead(w)
        PROVE  Reported'
    BY <1>9 DEF RecoverRead, jobVars, NothingSeen, Goto, TypeOK
  <1>10. ASSUME NEW w \in Workers, RecoverWrite(w)
        PROVE  Reported'
    BY <1>10 DEF RecoverWrite, Settle, SettledStatus, NothingSeen, Goto, TypeOK
  <1>11. ASSUME NEW w \in Workers, NEW j \in Jobs, Claim(w, j)
        PROVE  Reported'
    BY <1>11 DEF Claim, Goto, TypeOK
  <1>12. ASSUME NEW w \in Workers,
                NothingToClaim(w) \/ CheckCanceled(w) \/ HandlerSeesCancel(w)
                \/ FinalCheck(w) \/ Raise(w) \/ FailRead(w)
        PROVE  Reported'
    BY <1>12 DEF NothingToClaim, CheckCanceled, HandlerSeesCancel, FinalCheck, Raise,
                 FailRead, jobVars, Goto, TypeOK
  <1>13. ASSUME NEW w \in Workers, Begin(w) \/ FinishModelWork(w)
        PROVE  Reported'
    <2>1. held[w] \in Created /\ target[held[w]] \in Targets
      BY <1>13 DEF Begin, FinishModelWork, TypeOK, Holding
    <2>2. CASE Begin(w)
      BY <2>2 DEF Begin, Goto, TypeOK
    <2>3. CASE FinishModelWork(w)
      <3>1. targetStatus'[target[held[w]]] = "done"
        BY <2>1, <2>3 DEF FinishModelWork, TypeOK
      <3> QED
        BY <2>3, <3>1 DEF FinishModelWork, jobVars
    <2> QED
      BY <1>13, <2>2, <2>3
  <1>14. ASSUME NEW w \in Workers, FinishParse(w)
        PROVE  Reported'
    <2>1. Grown
      BY <1>14, FinishParseGrows
    <2>2. held[w] \in Created /\ target[held[w]] \in Targets /\ target'[held[w]] = target[held[w]]
      BY <1>14, <2>1 DEF FinishParse, Grown, TypeOK, Holding, Created
    <2>3. targetStatus'[target[held[w]]] \in {"done", "queued", "waiting"}
      <3>1. PICK t \in Targets : Base[t] = target[held[w]] /\ QueueProcessing(t)
        BY <1>14 DEF FinishParse, BuiltOn
      <3> QED
        BY <2>2, <3>1 DEF QueueProcessing, TypeOK
    <2> QED
      BY <1>14, <2>2, <2>3 DEF FinishParse
  <1>15. ASSUME NEW w \in Workers, Schedule(w)
        PROVE  Reported'
    <2>1. Grown
      BY <1>15, ScheduleGrows
    <2>2. \A u \in Targets : targetStatus'[u] = targetStatus[u] \/ targetStatus'[u] = "queued"
      BY <1>15 DEF Schedule, TypeOK
    <2>3. CASE pc'[w] \in {"scheduling", "finishing", "completing"}
      <3>1. pc[w] = "scheduling" /\ held'[w] = held[w]
        BY <1>15, <2>3 DEF Schedule, AfterScheduling, Goto, TypeOK
      <3>2. held[w] \in Created /\ target[held[w]] \in Targets /\ target'[held[w]] = target[held[w]]
        BY <3>1, <2>1 DEF Grown, TypeOK, Holding, Created
      <3> QED
        BY <2>2, <3>1, <3>2
    <2> QED
      BY <2>3
  <1>16. ASSUME NEW w \in Workers, Complete(w)
        PROVE  Reported'
    BY <1>16 DEF Complete, Goto, TypeOK
  <1>17. ASSUME NEW w \in Workers, FailWrite(w)
        PROVE  Reported'
    BY <1>17 DEF FailWrite, Verdict, Goto, TypeOK
  <1>18. ASSUME NEW w \in Workers, Stop(w) \/ Crash(w)
        PROVE  Reported'
    BY <1>18 DEF Stop, Crash, jobVars, NothingSeen, Goto, TypeOK
  <1>19. ASSUME NEW j \in Jobs, LeaseExpires(j) \/ BackoffElapses(j)
        PROVE  Reported'
    BY <1>19 DEF LeaseExpires, BackoffElapses, workerVars
  <1>20. CASE UNCHANGED vars
    BY <1>20 DEF vars, jobVars, workerVars
  <1> QED
    BY <1>1, <1>2, <1>3, <1>4, <1>5, <1>6, <1>7, <1>8, <1>9, <1>10, <1>11, <1>12, <1>13,
       <1>14, <1>15, <1>16, <1>17, <1>18, <1>19, <1>20 DEF Next, Api, WorkerStep


\* What the last job of t and the record of t say of each other.
Matches(t) ==
    Duplicates(t) = {} =>
        /\ LastJobIn(t, {"COMPLETED"}) => targetStatus[t] \notin {"running", "failed"}
        /\ LastJobIn(t, {"FAILED"}) => targetStatus[t] \notin {"running", "done"}

\* Jobs of other targets do not matter to a target.
LEMMA SameRows ==
    ASSUME NEW t \in Targets,
           \A j \in Jobs : /\ target'[j] = t <=> target[j] = t
                           /\ target[j] = t => status'[j] = status[j]
    PROVE  /\ Duplicates(t)' = Duplicates(t)
           /\ \A S : LastJobIn(t, S)' <=> LastJobIn(t, S)
  <1>1. JobsOf(t)' = JobsOf(t)
    BY DEF JobsOf
  <1>2. \A j \in JobsOf(t) : status'[j] = status[j]
    BY DEF JobsOf
  <1> QED
    BY <1>1, <1>2 DEF Duplicates, LastJobIn

\* A record keeps matching when its jobs stay as they are and it changes at
\* most to a value that fits any outcome.
LEMMA MatchesKept ==
    ASSUME NEW t \in Targets, Matches(t),
           \A j \in Jobs : /\ target'[j] = t <=> target[j] = t
                           /\ target[j] = t => status'[j] = status[j],
           targetStatus'[t] = targetStatus[t] \/ targetStatus'[t] \in {"none", "queued", "canceled", "waiting"}
    PROVE  Matches(t)'
  BY SameRows DEF Matches

\* A target keeps matching when the table grows: it has a new job or the old ones.
LEMMA MatchesGrown ==
    ASSUME TypeOK, TypeOK', Numbered, Grown, NEW t \in Targets, Matches(t),
           targetStatus'[t] = targetStatus[t] \/ targetStatus'[t] \in {"none", "queued", "canceled", "waiting"}
    PROVE  Matches(t)'
  <1>1. CASE \E j \in Jobs : target'[j] = t /\ status[j] = "NONE" /\ status'[j] = "QUEUED"
    BY <1>1 DEF Matches, Duplicates, JobsOf, Active
  <1>2. CASE ~\E j \in Jobs : target'[j] = t /\ status[j] = "NONE" /\ status'[j] = "QUEUED"
    <2>1. \A j \in Jobs : /\ target'[j] = t <=> target[j] = t
                          /\ target[j] = t => status'[j] = status[j]
      BY <1>2, KindAssumption DEF Grown, Numbered, Created
    <2> QED
      BY <2>1, MatchesKept
  <1> QED
    BY <1>1, <1>2

\* While a worker goes on with a job, the last job of its target is not over.
LEMMA PursuedNotOver ==
    ASSUME TypeOK, Accounted, Spent, Unovertaken, NEW w \in Workers, pc[w] \in Pursuing
    PROVE  /\ held[w] \in Created /\ target[held[w]] \in Targets
           /\ \A i \in JobsOf(target[held[w]]) :
                 i > held[w] => status[i] \notin {"COMPLETED", "FAILED"}
           /\ ~LastJobIn(target[held[w]], {"COMPLETED"})
           /\ ~LastJobIn(target[held[w]], {"FAILED"})
  <1>1. held[w] \in Created /\ target[held[w]] \in Targets
    BY DEF Pursuing, Holding, TypeOK
  <1>2. status[held[w]] \notin {"COMPLETED", "FAILED"}
    BY <1>1, NoneIsNoJob DEF Accounted, InHand, Created
  <1>3. \A i \in JobsOf(target[held[w]]) :
            i > held[w] => status[i] \notin {"COMPLETED", "FAILED"}
    BY <1>1 DEF Unovertaken, LaterUntaken, Spent, JobsOf, TypeOK
  <1>4. ASSUME NEW S \in SUBSET {"COMPLETED", "FAILED"}, LastJobIn(target[held[w]], S) PROVE FALSE
    <2>1. PICK j \in JobsOf(target[held[w]]) :
              status[j] \in S /\ \A i \in JobsOf(target[held[w]]) : i <= j
      BY <1>4 DEF LastJobIn
    <2>2. held[w] <= j /\ held[w] \in Jobs /\ j \in Jobs
      BY <1>1, <2>1 DEF JobsOf, Created
    <2>3. held[w] = j \/ j > held[w]
      BY <2>2, BoundAssumption DEF Jobs
    <2> QED
      BY <1>2, <1>3, <2>1, <2>3
  <1> QED
    BY <1>1, <1>3, <1>4

\* A target keeps matching when the table stays as it is.
LEMMA MatchesFrame ==
    ASSUME UNCHANGED <<status, target>>, NEW t \in Targets, Matches(t),
           targetStatus'[t] = targetStatus[t] \/ targetStatus'[t] \in {"none", "queued", "canceled", "waiting"}
    PROVE  Matches(t)'
  BY MatchesKept

\* Settling in one transaction what a restarted worker has found.
LEMMA MatchesSettled ==
    ASSUME TypeOK, TypeOK', Spent, Unovertaken, Accounted, NEW t \in Targets, Matches(t),
           NEW w \in Workers, BootWrite(w)
    PROVE  Matches(t)'
  <1> DEFINE C == seen[w].canceled
             F == seen[w].failed
             R == seen[w].requeued
  <1>1. /\ status' = SettledStatus(C, F, R) /\ targetStatus' = SettledTargets(C, F) /\ target' = target
        /\ F \in SUBSET Jobs /\ C \in SUBSET Jobs /\ R \in SUBSET Jobs
    BY SeenFacts DEF BootWrite, Settle, Created
  <1>2. \A j \in F : LaterUntaken(j)
    BY DEF Unovertaken
  <1> HIDE DEF C, F, R
  <1>3. CASE \E j \in F : target[j] = t
    <2>1. targetStatus'[t] = "failed"
      BY <1>1, <1>3 DEF SettledTargets
    <2>2. PICK f \in F : target[f] = t
      BY <1>3
    <2>3. ASSUME LastJobIn(t, {"COMPLETED"})' PROVE FALSE
      <3>1. PICK j \in Jobs : target[j] = t /\ status'[j] = "COMPLETED" /\ \A i \in JobsOf(t) : i <= j
        BY <1>1, <2>3 DEF LastJobIn, JobsOf
      <3>2. status[j] = "COMPLETED" /\ j \notin F
        BY <1>1, <3>1 DEF SettledStatus
      <3>3. f <= j /\ f # j /\ f \in Jobs
        BY <1>1, <2>2, <3>1, <3>2 DEF JobsOf
      <3>4. attempts[j] = 0
        BY <1>2, <2>2, <3>1, <3>3, BoundAssumption DEF LaterUntaken, JobsOf, Jobs
      <3> QED
        BY <3>1, <3>2, <3>4 DEF Spent
    <2> QED
      BY <2>1, <2>3 DEF Matches
  <1>4. CASE (\A j \in F : target[j] # t) /\ \E j \in C : target[j] = t
    BY <1>1, <1>4 DEF Matches, SettledTargets
  <1>5. CASE (\A j \in F \cup C : target[j] # t) /\ \E j \in R : target[j] = t
    <2>1. PICK j \in R : target[j] = t
      BY <1>5
    <2>2. status'[j] = "QUEUED" /\ j \in Jobs
      BY <1>1, <1>5, <2>1 DEF SettledStatus
    <2> QED
      BY <1>1, <2>1, <2>2 DEF Matches, Duplicates, JobsOf, Active
  <1>6. CASE \A j \in F \cup C \cup R : target[j] # t
    <2>1. targetStatus'[t] = targetStatus[t]
      BY <1>1, <1>6 DEF SettledTargets
    <2>2. \A j \in Jobs : target[j] = t => status'[j] = status[j]
      BY <1>1, <1>6 DEF SettledStatus
    <2> QED
      BY <1>1, <2>1, <2>2, MatchesKept
  <1> QED
    BY <1>3, <1>4, <1>5, <1>6

\* Every step keeps records and jobs in step.
LEMMA MatchStep ==
    ASSUME OneWorker, TypeOK, TypeOK', Accounted, Spent, Numbered, Unovertaken, Reported,
           FinishedJobMatchesTarget, [Next]_vars
    PROVE  FinishedJobMatchesTarget'
  <1> USE KindAssumption, NoneIsNoJob DEF OneWorker
  <1>1. ASSUME NEW c \in Callers, NEW t \in Targets, RequestRead(c, t)
        PROVE  FinishedJobMatchesTarget'
    <2> SUFFICES ASSUME NEW u \in Targets, Matches(u) PROVE Matches(u)'
      BY DEF FinishedJobMatchesTarget, Matches
    <2> QED
      BY <1>1, MatchesFrame DEF RequestRead, jobVars
  <1>2. ASSUME NEW c \in Callers, NEW t \in Targets, RequestCommit(c, t)
        PROVE  FinishedJobMatchesTarget'
    <2> SUFFICES ASSUME NEW u \in Targets, Matches(u) PROVE Matches(u)'
      BY DEF FinishedJobMatchesTarget, Matches
    <2>1. Grown
      BY <1>2, RequestGrows
    <2>2. targetStatus'[u] = targetStatus[u] \/ targetStatus'[u] \in {"queued", "none"}
      BY <1>2 DEF RequestCommit, Submitted
    <2> QED
      BY <2>1, <2>2, MatchesGrown
  <1>3. ASSUME NEW c \in Callers, NEW j \in Jobs, CancelRead(c, j)
        PROVE  FinishedJobMatchesTarget'
    <2> SUFFICES ASSUME NEW u \in Targets, Matches(u) PROVE Matches(u)'
      BY DEF FinishedJobMatchesTarget, Matches
    <2> QED
      BY <1>3, MatchesFrame DEF CancelRead, jobVars
  <1>4. ASSUME NEW c \in Callers, NEW j \in Jobs, NEW q \in BOOLEAN, CancelCommit(c, j, q)
        PROVE  FinishedJobMatchesTarget'
    <2> SUFFICES ASSUME NEW u \in Targets, Matches(u) PROVE Matches(u)'
      BY DEF FinishedJobMatchesTarget, Matches
    <2>1. CASE u = target[j] /\ q
      <3>1. targetStatus'[u] = "canceled"
        BY <1>4, <2>1 DEF CancelCommit, TypeOK
      <3> QED
        BY <3>1 DEF Matches
    <2>2. CASE u # target[j] \/ ~q
      <3>1. UNCHANGED target /\ targetStatus'[u] = targetStatus[u]
        BY <1>4, <2>2, CanceledExists DEF CancelCommit, TypeOK
      <3>2. \A i \in Jobs : target[i] = u => status'[i] = status[i]
        BY <1>4, <2>2 DEF CancelCommit, TypeOK
      <3> QED
        BY <3>1, <3>2, MatchesKept
    <2> QED
      BY <2>1, <2>2
  <1>5. ASSUME NEW w \in Workers, Start(w)
        PROVE  FinishedJobMatchesTarget'
    <2> SUFFICES ASSUME NEW u \in Targets, Matches(u) PROVE Matches(u)'
      BY DEF FinishedJobMatchesTarget, Matches
    <2> QED
      BY <1>5, MatchesFrame DEF Start, jobVars
  <1>6. ASSUME NEW w \in Workers, BootRead(w)
        PROVE  FinishedJobMatchesTarget'
    <2> SUFFICES ASSUME NEW u \in Targets, Matches(u) PROVE Matches(u)'
      BY DEF FinishedJobMatchesTarget, Matches
    <2> QED
      BY <1>6, MatchesFrame DEF BootRead, jobVars
  <1>7. ASSUME NEW w \in Workers, BootWrite(w)
        PROVE  FinishedJobMatchesTarget'
    <2> SUFFICES ASSUME NEW u \in Targets, Matches(u) PROVE Matches(u)'
      BY DEF FinishedJobMatchesTarget, Matches
    <2> QED
      BY <1>7, MatchesSettled
  <1>8. ASSUME NEW w \in Workers, FailExhausted(w)
        PROVE  FinishedJobMatchesTarget'
    <2> SUFFICES ASSUME NEW u \in Targets, Matches(u) PROVE Matches(u)'
      BY DEF FinishedJobMatchesTarget, Matches
    <2>1. expired = {}
      BY <1>8 DEF FailExhausted, Accounted, Holding, TypeOK
    <2>2. UNCHANGED <<status, target, targetStatus>>
      BY <1>8, <2>1 DEF FailExhausted, Settle, SettledStatus, SettledTargets, TypeOK
    <2> QED
      BY <2>2, MatchesFrame
  <1>9. ASSUME NEW w \in Workers, RecoverRead(w)
        PROVE  FinishedJobMatchesTarget'
    <2> SUFFICES ASSUME NEW u \in Targets, Matches(u) PROVE Matches(u)'
      BY DEF FinishedJobMatchesTarget, Matches
    <2> QED
      BY <1>9, MatchesFrame DEF RecoverRead, jobVars
  <1>10. ASSUME NEW w \in Workers, RecoverWrite(w)
        PROVE  FinishedJobMatchesTarget'
    <2> SUFFICES ASSUME NEW u \in Targets, Matches(u) PROVE Matches(u)'
      BY DEF FinishedJobMatchesTarget, Matches
    <2>1. expired = {}
      BY <1>10 DEF RecoverWrite, Accounted, Holding, TypeOK
    <2>2. UNCHANGED <<status, target, targetStatus>>
      BY <1>10, <2>1 DEF RecoverWrite, Settle, SettledStatus, SettledTargets, TypeOK,
         Accounted, NothingSeen
    <2> QED
      BY <2>2, MatchesFrame
  <1>11. ASSUME NEW w \in Workers, NEW j \in Jobs, Claim(w, j)
        PROVE  FinishedJobMatchesTarget'
    <2> SUFFICES ASSUME NEW u \in Targets, Matches(u) PROVE Matches(u)'
      BY DEF FinishedJobMatchesTarget, Matches
    <2>1. UNCHANGED <<target, targetStatus>> /\ status'[j] = "RUNNING"
      BY <1>11 DEF Claim, TypeOK
    <2>2. CASE u = target[j]
      BY <2>1, <2>2 DEF Matches, Duplicates, JobsOf, Active
    <2>3. CASE u # target[j]
      <3>1. \A i \in Jobs : target[i] = u => status'[i] = status[i]
        BY <1>11, <2>3 DEF Claim, TypeOK
      <3> QED
        BY <2>1, <3>1, MatchesKept
    <2> QED
      BY <2>2, <2>3
  <1>12. ASSUME NEW w \in Workers,
                NothingToClaim(w) \/ CheckCanceled(w) \/ HandlerSeesCancel(w)
                \/ FinalCheck(w) \/ Raise(w) \/ FailRead(w)
        PROVE  FinishedJobMatchesTarget'
    <2> SUFFICES ASSUME NEW u \in Targets, Matches(u) PROVE Matches(u)'
      BY DEF FinishedJobMatchesTarget, Matches
    <2> QED
      BY <1>12, MatchesFrame DEF NothingToClaim, CheckCanceled, HandlerSeesCancel,
         FinalCheck, Raise,
                 FailRead, jobVars
  <1>13. ASSUME NEW w \in Workers, Begin(w) \/ FinishModelWork(w)
        PROVE  FinishedJobMatchesTarget'
    <2> SUFFICES ASSUME NEW u \in Targets, Matches(u) PROVE Matches(u)'
      BY DEF FinishedJobMatchesTarget, Matches
    <2>1. /\ UNCHANGED <<status, target>> /\ pc[w] \in Pursuing
          /\ \/ targetStatus' = [targetStatus EXCEPT ![target[held[w]]] = "running"]
             \/ targetStatus' = [targetStatus EXCEPT ![target[held[w]]] = "done"]
      BY <1>13 DEF Begin, FinishModelWork, jobVars, Pursuing
    <2>2. CASE u = target[held[w]]
      <3>1. ~LastJobIn(u, {"COMPLETED"}) /\ ~LastJobIn(u, {"FAILED"})
        BY <2>1, <2>2, PursuedNotOver
      <3> QED
        BY <2>1, <3>1 DEF Matches, LastJobIn, JobsOf
    <2>3. CASE u # target[held[w]]
      BY <2>1, <2>3, MatchesFrame, PursuedNotOver DEF TypeOK
    <2> QED
      BY <2>2, <2>3
  <1>14. ASSUME NEW w \in Workers, FinishParse(w)
        PROVE  FinishedJobMatchesTarget'
    <2> SUFFICES ASSUME NEW u \in Targets, Matches(u) PROVE Matches(u)'
      BY DEF FinishedJobMatchesTarget, Matches
    <2>1. Grown /\ pc[w] \in Pursuing
      BY <1>14, FinishParseGrows DEF FinishParse, Pursuing
    <2>2. PICK t \in Targets : Base[t] = target[held[w]] /\ QueueProcessing(t)
      BY <1>14 DEF FinishParse, BuiltOn
    <2>3. CASE u = target[held[w]] /\ u # t
      <3>1. targetStatus'[u] = "done"
        BY <2>2, <2>3 DEF QueueProcessing, TypeOK
      <3>2. CASE \E j \in Jobs : target'[j] = u /\ status[j] = "NONE" /\ status'[j] = "QUEUED"
        BY <3>2 DEF Matches, Duplicates, JobsOf, Active
      <3>3. CASE ~\E j \in Jobs : target'[j] = u /\ status[j] = "NONE" /\ status'[j] = "QUEUED"
        <4>1. \A j \in Jobs : /\ target'[j] = u <=> target[j] = u
                              /\ target[j] = u => status'[j] = status[j]
          BY <2>1, <3>3, KindAssumption DEF Grown, Numbered, Created
        <4>2. ~LastJobIn(u, {"FAILED"})
          BY <2>1, <2>3, PursuedNotOver
        <4>3. ~LastJobIn(u, {"FAILED"})'
          BY <4>1, <4>2, SameRows
        <4> QED
          BY <3>1, <4>3 DEF Matches
      <3> QED
        BY <3>2, <3>3
    <2>4. CASE u # target[held[w]] \/ u = t
      <3>1. targetStatus'[u] = targetStatus[u] \/ targetStatus'[u] \in {"queued", "waiting"}
        BY <2>2, <2>4 DEF QueueProcessing, TypeOK
      <3> QED
        BY <2>1, <3>1, MatchesGrown
    <2> QED
      BY <2>3, <2>4
  <1>15. ASSUME NEW w \in Workers, Schedule(w)
        PROVE  FinishedJobMatchesTarget'
    <2> SUFFICES ASSUME NEW u \in Targets, Matches(u) PROVE Matches(u)'
      BY DEF FinishedJobMatchesTarget, Matches
    <2>1. Grown
      BY <1>15, ScheduleGrows
    <2>2. targetStatus'[u] = targetStatus[u] \/ targetStatus'[u] = "queued"
      BY <1>15 DEF Schedule, TypeOK
    <2> QED
      BY <2>1, <2>2, MatchesGrown
  <1>16. ASSUME NEW w \in Workers, Complete(w)
        PROVE  FinishedJobMatchesTarget'
    <2> SUFFICES ASSUME NEW u \in Targets, Matches(u) PROVE Matches(u)'
      BY DEF FinishedJobMatchesTarget, Matches
    <2>1. pc[w] \in Pursuing /\ UNCHANGED <<target, targetStatus>>
      BY <1>16 DEF Complete, Pursuing
    <2>2. held[w] \in Jobs /\ status' = [status EXCEPT ![held[w]] = "COMPLETED"]
      BY <1>16, <2>1, PursuedNotOver DEF Complete, Created
    <2>3. CASE u = target[held[w]]
      <3>1. targetStatus'[u] \notin {"running", "failed"}
        BY <1>16, <2>1, <2>3 DEF Reported, Complete
      <3>2. ASSUME LastJobIn(u, {"FAILED"})' PROVE FALSE
        <4>1. PICK j \in Jobs : target[j] = u /\ status'[j] = "FAILED" /\ \A i \in JobsOf(u) : i <= j
          BY <2>1, <3>2 DEF LastJobIn, JobsOf
        <4>2. status[j] = "FAILED" /\ j # held[w] /\ held[w] <= j
          BY <2>2, <2>3, <4>1 DEF TypeOK, JobsOf
        <4>3. j > held[w] /\ j \in JobsOf(u)
          BY <2>2, <4>1, <4>2, BoundAssumption DEF Jobs, JobsOf
        <4> QED
          BY <2>1, <2>3, <4>2, <4>3, PursuedNotOver
      <3> QED
        BY <3>1, <3>2 DEF Matches
    <2>4. CASE u # target[held[w]]
      <3>1. \A i \in Jobs : target[i] = u => status'[i] = status[i]
        BY <2>2, <2>4 DEF TypeOK
      <3> QED
        BY <2>1, <3>1, MatchesKept
    <2> QED
      BY <2>3, <2>4
  <1>17. ASSUME NEW w \in Workers, FailWrite(w)
        PROVE  FinishedJobMatchesTarget'
    <2> SUFFICES ASSUME NEW u \in Targets, Matches(u) PROVE Matches(u)'
      BY DEF FinishedJobMatchesTarget, Matches
    <2>1. /\ held[w] \in Jobs /\ target[held[w]] \in Targets /\ UNCHANGED target
          /\ status' = [status EXCEPT ![held[w]] = Verdict(pc[w]).job]
          /\ targetStatus' = [targetStatus EXCEPT ![target[held[w]]] = Verdict(pc[w]).target]
      BY <1>17 DEF FailWrite, TypeOK, Holding, Created
    <2>2. CASE u # target[held[w]]
      <3>1. targetStatus'[u] = targetStatus[u] /\ \A i \in Jobs : target[i] = u => status'[i] = status[i]
        BY <2>1, <2>2 DEF TypeOK
      <3> QED
        BY <2>1, <3>1, MatchesKept
    <2>3. CASE u = target[held[w]] /\ pc[w] = "toCancel"
      BY <2>1, <2>3 DEF Verdict, TypeOK, Matches
    <2>4. CASE u = target[held[w]] /\ pc[w] = "toRetry"
      <3>1. status'[held[w]] = "QUEUED"
        BY <2>1, <2>4 DEF Verdict, TypeOK
      <3> QED
        BY <2>1, <2>4, <3>1 DEF Matches, Duplicates, JobsOf, Active
    <2>5. CASE u = target[held[w]] /\ pc[w] = "toFail"
      <3>1. targetStatus'[u] = "failed" /\ status'[held[w]] = "FAILED" /\ pc[w] \in Pursuing
        BY <2>1, <2>5 DEF Verdict, TypeOK, Pursuing
      <3>2. ASSUME LastJobIn(u, {"COMPLETED"})' PROVE FALSE
        <4>1. PICK j \in Jobs : target[j] = u /\ status'[j] = "COMPLETED" /\ \A i \in JobsOf(u) : i <= j
          BY <2>1, <3>2 DEF LastJobIn, JobsOf
        <4>2. status[j] = "COMPLETED" /\ j # held[w] /\ held[w] <= j
          BY <2>1, <2>5, <3>1, <4>1 DEF TypeOK, JobsOf
        <4>3. j > held[w] /\ j \in JobsOf(u)
          BY <2>1, <4>1, <4>2, BoundAssumption DEF Jobs, JobsOf
        <4> QED
          BY <2>5, <3>1, <4>2, <4>3, PursuedNotOver
      <3> QED
        BY <3>1, <3>2 DEF Matches
    <2> QED
      BY <1>17, <2>2, <2>3, <2>4, <2>5 DEF FailWrite
  <1>18. ASSUME NEW w \in Workers, Stop(w) \/ Crash(w)
        PROVE  FinishedJobMatchesTarget'
    <2> SUFFICES ASSUME NEW u \in Targets, Matches(u) PROVE Matches(u)'
      BY DEF FinishedJobMatchesTarget, Matches
    <2> QED
      BY <1>18, MatchesFrame DEF Stop, Crash, jobVars
  <1>19. ASSUME NEW j \in Jobs, LeaseExpires(j) \/ BackoffElapses(j)
        PROVE  FinishedJobMatchesTarget'
    <2> SUFFICES ASSUME NEW u \in Targets, Matches(u) PROVE Matches(u)'
      BY DEF FinishedJobMatchesTarget, Matches
    <2> QED
      BY <1>19, MatchesFrame DEF LeaseExpires, BackoffElapses
  <1>20. CASE UNCHANGED vars
    <2> SUFFICES ASSUME NEW u \in Targets, Matches(u) PROVE Matches(u)'
      BY DEF FinishedJobMatchesTarget, Matches
    <2> QED
      BY <1>20, MatchesFrame DEF vars, jobVars
  <1> QED
    BY <1>1, <1>2, <1>3, <1>4, <1>5, <1>6, <1>7, <1>8, <1>9, <1>10, <1>11, <1>12, <1>13,
       <1>14, <1>15, <1>16, <1>17, <1>18, <1>19, <1>20 DEF Next, Api, WorkerStep

(***************************************************************************)
(* Together they are inductive.                                            *)
(***************************************************************************)
SoleWorker ==
    /\ Accounted /\ Spent /\ AttemptLeft
    /\ Numbered /\ Successive /\ Unovertaken
    /\ Reported /\ FinishedJobMatchesTarget

\* The empty queue.
LEMMA SoleWorkerInit == Init => SoleWorker
  <1> SUFFICES ASSUME Init PROVE SoleWorker
    OBVIOUS
  <1> USE DEF Init
  <1>1. \A j \in Jobs : status[j] = "NONE" /\ attempts[j] = 0 /\ target[j] = None
    OBVIOUS
  <1>2. \A w \in Workers : pc[w] = "down" /\ held[w] = None /\ seen[w] = NothingSeen
    OBVIOUS
  <1>3. Accounted
    BY <1>1, <1>2 DEF Accounted, Picked, NothingSeen, Holding
  <1>4. Spent
    BY <1>1, <1>2 DEF Spent, Picked, NothingSeen
  <1>5. AttemptLeft
    BY <1>1, <1>2 DEF AttemptLeft, NothingSeen
  <1>6. Numbered /\ Successive
    BY <1>1 DEF Numbered, Successive, Created
  <1>7. Unovertaken /\ Reported
    BY <1>2 DEF Unovertaken, Reported, Pursuing, NothingSeen
  <1>8. FinishedJobMatchesTarget
    BY <1>1 DEF FinishedJobMatchesTarget, LastJobIn, JobsOf
  <1> QED
    BY <1>3, <1>4, <1>5, <1>6, <1>7, <1>8 DEF SoleWorker

\* One step per conjunct; none needs more than the others before the step.
LEMMA SoleWorkerStep ==
    ASSUME OneWorker, TypeOK, TypeOK', ModelInv, SoleWorker, [Next]_vars
    PROVE  SoleWorker'
  <1> USE DEF SoleWorker
  <1>1. Accounted' /\ Spent' /\ AttemptLeft'
    BY AccountedStep, SpentStep, AttemptLeftStep
  <1>2. Numbered' /\ Successive' /\ Unovertaken'
    BY SuccessiveStep, UnovertakenStep
  <1>3. Reported' /\ FinishedJobMatchesTarget'
    BY ReportedStep, MatchStep
  <1> QED
    BY <1>1, <1>2, <1>3

\* So it holds always.
LEMMA SoleWorkerInvariant ==
    ASSUME OneWorker
    PROVE  Spec => [](TypeOK /\ ModelInv /\ SoleWorker)
  <1>1. Init => TypeOK /\ ModelInv /\ SoleWorker
    BY TypeInit, ModelInit, SoleWorkerInit
  <1>2. TypeOK /\ ModelInv /\ SoleWorker /\ [Next]_vars => (TypeOK /\ ModelInv /\ SoleWorker)'
    BY TypeStep, ModelStep, SoleWorkerStep
  <1> QED
    BY <1>1, <1>2, PTL DEF Spec

\* With one worker, a parse, an ingestion and a fill plan have at most one
\* active job that nobody asked to cancel, for any number of callers and
\* crashes: enqueue finds the active job under the write lock, and a job that is
\* over comes back only if somebody canceled it meanwhile.
THEOREM OneActiveJob ==
    ASSUME OneWorker
    PROVE  Spec => []AtMostOneActive
  <1>1. TypeOK /\ SoleWorker => AtMostOneActive
    <2> SUFFICES ASSUME TypeOK, SoleWorker,
                        NEW i \in Jobs \ cancelRequested, NEW j \in Jobs \ cancelRequested,
                        i # j, status[i] \in Active, status[j] \in Active, target[i] = target[j]
                 PROVE  JobKind(i) = "analyze_project"
      BY DEF AtMostOneActive
    <2>1. i \in Created /\ j \in Created /\ (i < j \/ j < i)
      BY BoundAssumption DEF Created, Active, Jobs
    <2> QED
      BY <2>1 DEF SoleWorker, Successive, JobKind
  <1> QED
    BY <1>1, SoleWorkerInvariant, PTL

\* With one worker, once the last job of a document, run or plan has completed
\* or failed and none is active, that record shows neither work under way nor
\* the opposite outcome (_process_one, fail_running_jobs, the handlers).
THEOREM RecordsMatchJobs ==
    ASSUME OneWorker
    PROVE  Spec => []FinishedJobMatchesTarget
  <1>1. SoleWorker => FinishedJobMatchesTarget
    BY DEF SoleWorker
  <1> QED
    BY <1>1, SoleWorkerInvariant, PTL

(***************************************************************************)
(* The queue implements the lifecycle of a job: what a step does to a row. *)
(***************************************************************************)
JobNext(j) ==
    \/ Lifecycle!Submit(j) \/ Lifecycle!Take(j) \/ Lifecycle!Return(j)
    \/ Lifecycle!Finish(j) \/ Lifecycle!Withdraw(j) \/ Lifecycle!Rest(j)

\* A row left alone, settled or put back while it runs, or canceled by somebody.
Moved(j) ==
    \/ status'[j] = status[j]
    \/ status[j] = "RUNNING" /\ status'[j] \in {"QUEUED", "COMPLETED", "FAILED", "CANCELED"}
    \/ status[j] # "NONE" /\ status'[j] # "NONE" /\ j \in cancelRequested'

\* Such a row makes a step of the lifecycle, or none.
LEMMA MovedIsAllowed ==
    ASSUME TypeOK, TypeOK', NEW j \in Jobs, Moved(j), AttemptLeft',
           target'[j] = target[j], attempts'[j] = attempts[j],
           j \in cancelRequested => j \in cancelRequested'
    PROVE  JobNext(j)
  <1>1. JobKind(j)' = JobKind(j)
    BY DEF JobKind
  <1>2. status[j] = "RUNNING" /\ status'[j] = "QUEUED" => attempts[j] < MaxAttempts(JobKind(j))
    BY <1>1 DEF AttemptLeft, Retryable
  <1> QED
    BY <1>1, <1>2 DEF Moved, JobNext, TypeOK, JobStatuses, Active, Finished,
       LifecyclePhase, LifecycleLimit,
        Lifecycle!Submit, Lifecycle!Take, Lifecycle!Return, Lifecycle!Finish, Lifecycle!Withdraw, Lifecycle!Rest

\* A new row is a job submitted.
LEMMA GrownIsAllowed ==
    ASSUME TypeOK, TypeOK', Grown, AttemptLeft', NEW j \in Jobs
    PROVE  JobNext(j)
  <1>1. CASE status'[j] = status[j] /\ target'[j] = target[j]
    BY <1>1, MovedIsAllowed DEF Grown, Moved
  <1>2. CASE status[j] = "NONE" /\ status'[j] = "QUEUED"
    <2>1. j \notin cancelRequested /\ j \notin cancelRequested' /\ attempts'[j] = attempts[j]
      BY <1>2 DEF Grown, TypeOK, Created
    <2> QED
      BY <1>2, <2>1 DEF JobNext, Lifecycle!Submit, LifecyclePhase, LifecycleLimit,
         MaxAttempts
  <1> QED
    BY <1>1, <1>2 DEF Grown

\* A claim takes the job, within its limit.
LEMMA ClaimIsAllowed ==
    ASSUME TypeOK, TypeOK', AttemptLeft, AttemptLeft', NEW w \in Workers, NEW i \in Jobs, Claim(w, i),
           NEW j \in Jobs
    PROVE  JobNext(j)
  <1>1. UNCHANGED <<target, cancelRequested>>
    BY DEF Claim
  <1>2. CASE j # i
    <2>1. status'[j] = status[j] /\ attempts'[j] = attempts[j]
      BY <1>2 DEF Claim, TypeOK
    <2> QED
      BY <1>1, <2>1, MovedIsAllowed DEF Moved
  <1>3. CASE j = i
    <2>1. /\ status[j] = "QUEUED" /\ status'[j] = "RUNNING"
          /\ attempts'[j] = attempts[j] + 1 /\ attempts[j] < MaxAttempts(JobKind(j))
      BY <1>3 DEF Claim, Claimable, TypeOK, AttemptLeft, Retryable
    <2>2. JobKind(j)' = JobKind(j)
      BY <1>1 DEF JobKind
    <2> QED
      BY <1>1, <2>1, <2>2 DEF JobNext, Lifecycle!Take, LifecyclePhase, LifecycleLimit
  <1> QED
    BY <1>2, <1>3

\* What a worker holds exists, and runs or was canceled.
LEMMA HeldInHand ==
    ASSUME TypeOK, Accounted, NEW w \in Workers, pc[w] \in Holding
    PROVE  held[w] \in Created /\ InHand(held[w])
  BY NoneIsNoJob DEF TypeOK, Accounted, Created

\* Each step of the queue is, for each job, a step of the lifecycle or none.
LEMMA EveryJobAllowed ==
    ASSUME OneWorker, TypeOK, TypeOK', Accounted, AttemptLeft, AttemptLeft', [Next]_vars
    PROVE  \A k \in Jobs : JobNext(k)
  <1> USE KindAssumption, NoneIsNoJob DEF OneWorker
  <1>1. ASSUME NEW c \in Callers, NEW t \in Targets, RequestRead(c, t)
        PROVE  \A k \in Jobs : JobNext(k)
    <2>1. /\ UNCHANGED <<target, attempts>> /\ cancelRequested \subseteq cancelRequested'
          /\ \A i \in Jobs : Moved(i)
      BY <1>1 DEF RequestRead, jobVars, Moved
    <2> QED
      BY <2>1, MovedIsAllowed
  <1>2. ASSUME NEW c \in Callers, NEW t \in Targets, RequestCommit(c, t)
        PROVE  \A k \in Jobs : JobNext(k)
    <2>1. Grown
      BY <1>2, RequestGrows
    <2> QED
      BY <2>1, GrownIsAllowed
  <1>3. ASSUME NEW c \in Callers, NEW j \in Jobs, CancelRead(c, j)
        PROVE  \A k \in Jobs : JobNext(k)
    <2>1. /\ UNCHANGED <<target, attempts>> /\ cancelRequested \subseteq cancelRequested'
          /\ \A i \in Jobs : Moved(i)
      BY <1>3 DEF CancelRead, jobVars, Moved
    <2> QED
      BY <2>1, MovedIsAllowed
  <1>4. ASSUME NEW c \in Callers, NEW j \in Jobs, NEW q \in BOOLEAN, CancelCommit(c, j, q)
        PROVE  \A k \in Jobs : JobNext(k)
    <2>1. /\ UNCHANGED <<target, attempts>> /\ cancelRequested \subseteq cancelRequested'
          /\ \A i \in Jobs : Moved(i)
      BY <1>4, CanceledExists DEF CancelCommit, TypeOK, Created, Moved
    <2> QED
      BY <2>1, MovedIsAllowed
  <1>5. ASSUME NEW w \in Workers, Start(w)
        PROVE  \A k \in Jobs : JobNext(k)
    <2>1. /\ UNCHANGED <<target, attempts>> /\ cancelRequested \subseteq cancelRequested'
          /\ \A i \in Jobs : Moved(i)
      BY <1>5 DEF Start, jobVars, Moved
    <2> QED
      BY <2>1, MovedIsAllowed
  <1>6. ASSUME NEW w \in Workers, BootRead(w)
        PROVE  \A k \in Jobs : JobNext(k)
    <2>1. /\ UNCHANGED <<target, attempts>> /\ cancelRequested \subseteq cancelRequested'
          /\ \A i \in Jobs : Moved(i)
      BY <1>6 DEF BootRead, jobVars, Moved
    <2> QED
      BY <2>1, MovedIsAllowed
  <1>7. ASSUME NEW w \in Workers, BootWrite(w)
        PROVE  \A k \in Jobs : JobNext(k)
    <2>1. /\ UNCHANGED <<target, attempts>> /\ cancelRequested \subseteq cancelRequested'
          /\ \A i \in Jobs : Moved(i)
      BY <1>7 DEF BootWrite, Settle, SettledStatus, Accounted, Picked, InHand, TypeOK, Moved
    <2> QED
      BY <2>1, MovedIsAllowed
  <1>8. ASSUME NEW w \in Workers, FailExhausted(w)
        PROVE  \A k \in Jobs : JobNext(k)
    <2>1. /\ UNCHANGED <<target, attempts>> /\ cancelRequested \subseteq cancelRequested'
          /\ \A i \in Jobs : Moved(i)
      BY <1>8 DEF FailExhausted, Settle, SettledStatus, Accounted, Picked, InHand,
         TypeOK, Moved
    <2> QED
      BY <2>1, MovedIsAllowed
  <1>9. ASSUME NEW w \in Workers, RecoverRead(w)
        PROVE  \A k \in Jobs : JobNext(k)
    <2>1. /\ UNCHANGED <<target, attempts>> /\ cancelRequested \subseteq cancelRequested'
          /\ \A i \in Jobs : Moved(i)
      BY <1>9 DEF RecoverRead, jobVars, Moved
    <2> QED
      BY <2>1, MovedIsAllowed
  <1>10. ASSUME NEW w \in Workers, RecoverWrite(w)
        PROVE  \A k \in Jobs : JobNext(k)
    <2>1. /\ UNCHANGED <<target, attempts>> /\ cancelRequested \subseteq cancelRequested'
          /\ \A i \in Jobs : Moved(i)
      BY <1>10 DEF RecoverWrite, Settle, SettledStatus, Accounted, Picked, InHand,
         TypeOK, Moved
    <2> QED
      BY <2>1, MovedIsAllowed
  <1>11. ASSUME NEW w \in Workers, NEW j \in Jobs, Claim(w, j)
        PROVE  \A k \in Jobs : JobNext(k)
    BY <1>11, ClaimIsAllowed
  <1>12. ASSUME NEW w \in Workers,
                NothingToClaim(w) \/ CheckCanceled(w) \/ HandlerSeesCancel(w)
                \/ FinalCheck(w) \/ Raise(w) \/ FailRead(w)
        PROVE  \A k \in Jobs : JobNext(k)
    <2>1. /\ UNCHANGED <<target, attempts>> /\ cancelRequested \subseteq cancelRequested'
          /\ \A i \in Jobs : Moved(i)
      BY <1>12 DEF NothingToClaim, CheckCanceled, HandlerSeesCancel, FinalCheck, Raise,
                 FailRead, jobVars, Moved
    <2> QED
      BY <2>1, MovedIsAllowed
  <1>13. ASSUME NEW w \in Workers, Begin(w) \/ FinishModelWork(w)
        PROVE  \A k \in Jobs : JobNext(k)
    <2>1. /\ UNCHANGED <<target, attempts>> /\ cancelRequested \subseteq cancelRequested'
          /\ \A i \in Jobs : Moved(i)
      BY <1>13 DEF Begin, FinishModelWork, jobVars, Moved
    <2> QED
      BY <2>1, MovedIsAllowed
  <1>14. ASSUME NEW w \in Workers, FinishParse(w)
        PROVE  \A k \in Jobs : JobNext(k)
    <2>1. Grown
      BY <1>14, FinishParseGrows
    <2> QED
      BY <2>1, GrownIsAllowed
  <1>15. ASSUME NEW w \in Workers, Schedule(w)
        PROVE  \A k \in Jobs : JobNext(k)
    <2>1. Grown
      BY <1>15, ScheduleGrows
    <2> QED
      BY <2>1, GrownIsAllowed
  <1>16. ASSUME NEW w \in Workers, Complete(w)
        PROVE  \A k \in Jobs : JobNext(k)
    <2>1. /\ UNCHANGED <<target, attempts>> /\ cancelRequested \subseteq cancelRequested'
          /\ \A i \in Jobs : Moved(i)
      BY <1>16, HeldInHand DEF Complete, TypeOK, InHand, Holding, Moved
    <2> QED
      BY <2>1, MovedIsAllowed
  <1>17. ASSUME NEW w \in Workers, FailWrite(w)
        PROVE  \A k \in Jobs : JobNext(k)
    <2>1. /\ UNCHANGED <<target, attempts>> /\ cancelRequested \subseteq cancelRequested'
          /\ \A i \in Jobs : Moved(i)
      BY <1>17, HeldInHand DEF FailWrite, Verdict, TypeOK, InHand, Holding, Moved
    <2> QED
      BY <2>1, MovedIsAllowed
  <1>18. ASSUME NEW w \in Workers, Stop(w) \/ Crash(w)
        PROVE  \A k \in Jobs : JobNext(k)
    <2>1. /\ UNCHANGED <<target, attempts>> /\ cancelRequested \subseteq cancelRequested'
          /\ \A i \in Jobs : Moved(i)
      BY <1>18 DEF Stop, Crash, jobVars, Moved
    <2> QED
      BY <2>1, MovedIsAllowed
  <1>19. ASSUME NEW j \in Jobs, LeaseExpires(j) \/ BackoffElapses(j)
        PROVE  \A k \in Jobs : JobNext(k)
    <2>1. /\ UNCHANGED <<target, attempts>> /\ cancelRequested \subseteq cancelRequested'
          /\ \A i \in Jobs : Moved(i)
      BY <1>19 DEF LeaseExpires, BackoffElapses, Moved
    <2> QED
      BY <2>1, MovedIsAllowed
  <1>20. CASE UNCHANGED vars
    <2>1. /\ UNCHANGED <<target, attempts>> /\ cancelRequested \subseteq cancelRequested'
          /\ \A i \in Jobs : Moved(i)
      BY <1>20 DEF vars, jobVars, Moved
    <2> QED
      BY <2>1, MovedIsAllowed
  <1> QED
    BY <1>1, <1>2, <1>3, <1>4, <1>5, <1>6, <1>7, <1>8, <1>9, <1>10, <1>11, <1>12, <1>13,
       <1>14, <1>15, <1>16, <1>17, <1>18, <1>19, <1>20 DEF Next, Api, WorkerStep

\* The empty queue is the beginning of every job's lifecycle.
LEMMA LifecycleInit == Init => Lifecycle!Init
  BY DEF Init, Lifecycle!Init, LifecyclePhase, LifecycleLimit

\* Every step of the queue is a step of JobLifecycle.
LEMMA LifecycleStep ==
    ASSUME OneWorker, TypeOK, TypeOK', SoleWorker, SoleWorker', [Next]_vars
    PROVE  Lifecycle!Next
  <1>1. \A k \in Jobs : JobNext(k)
    BY EveryJobAllowed DEF SoleWorker
  <1>2. LifecyclePhase' \in [Jobs -> Lifecycle!Phases]
    BY DEF LifecyclePhase, Lifecycle!Phases
  <1> QED
    BY <1>1, <1>2 DEF Lifecycle!Next, JobNext

\* With one worker, the queue keeps the promise of JobLifecycle to every job:
\* every step of the worker, of recovery, of the API and of time leaves each job
\* alone, or submits, takes, returns, finishes or withdraws it; a job that is
\* over is not run again, and none is taken more often than it has attempts.
THEOREM QueueImplementsLifecycle ==
    ASSUME OneWorker
    PROVE  Spec => ImplementsLifecycle
  <1>1. TypeOK /\ ModelInv /\ SoleWorker /\ (TypeOK /\ ModelInv /\ SoleWorker)' /\ [Next]_vars
            => [Lifecycle!Next]_(Lifecycle!vars)
    BY LifecycleStep
  <1> QED
    BY <1>1, LifecycleInit, SoleWorkerInvariant, PTL DEF Spec, ImplementsLifecycle,
       Lifecycle!Spec
=============================================================================
