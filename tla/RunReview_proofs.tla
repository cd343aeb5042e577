-------------------------- MODULE RunReview_proofs --------------------------
(***************************************************************************)
(* The properties of RunReview for any clauses, amendments, places and     *)
(* numbers of requests and resumptions: TypeOK with requests at once, the  *)
(* others for requests one after the other.                                *)
(***************************************************************************)
EXTENDS RunReview, Iteration

(***************************************************************************)
(* Rows fit together: S are the clauses there are, K those decided.        *)
(***************************************************************************)
VersionType == [Clauses -> [replaces : SUBSET Clauses, conflicts : SUBSET Clauses, settled : BOOLEAN]]
Fits(v, S) ==
    \A c \in Clauses :
        /\ v[c].replaces \subseteq S /\ v[c].conflicts \subseteq S
        /\ c \notin v[c].replaces \cup v[c].conflicts
        /\ c \notin S => v[c] = NoVersion

Why == {"replaced", "conflict", "compared", "edited", "human", "added"}
RowType == [status : Statuses, summary : Why \X (Clauses \cup {0}), stale : BOOLEAN] \cup {NoDecision}
DecisionType == [Clauses -> RowType]
Judged(D) == {c \in Clauses : D[c] # NoDecision}
Known(D, S, K) ==
    /\ Judged(D) \subseteq K
    /\ \A c \in Judged(D) : D[c].summary[2] \in S \cup {0}

ItemType == [Clauses -> {"none", "open", "done"}]
RunStatuses == {"DRAFT", "RUNNING", "COMPLETED", "NEEDS_REVIEW", "STALE", "FAILED"}
Rows ==
    /\ clauses \in SUBSET Clauses
    /\ version \in VersionType /\ Fits(version, clauses)
    /\ decision \in DecisionType /\ Known(decision, clauses, clauses)
    /\ item \in ItemType
    /\ \A c \in Clauses : decision[c] = NoDecision => item[c] = "none"
    /\ target \in [Targets -> clauses \cup {None}]
    /\ reviewed \subseteq Targets
    /\ planned \in BOOLEAN
    /\ run \in RunStatuses

Stages == {"idle", "queued", "resolving", "deciding", "filling"}
TypedWorker(w, S, K) ==
    /\ w = [version |-> w.version, decision |-> w.decision]
    /\ w.version \in VersionType /\ Fits(w.version, S)
    /\ w.decision \in DecisionType /\ Known(w.decision, S, K)

TheCall(op, on, ids, verdict, it, v, D, r) ==
    [op |-> op, on |-> on, ids |-> ids, verdict |-> verdict, item |-> it,
     version |-> v, decision |-> D, run |-> r]
IsCall(call) ==
    call = TheCall(call.op, call.on, call.ids, call.verdict, call.item, call.version,
                   call.decision, call.run)
TypedCall(call, S, K) ==
    /\ IsCall(call)
    /\ call.version \in VersionType /\ Fits(call.version, S)
    /\ call.decision \in DecisionType /\ Known(call.decision, S, K)
    /\ call.op # "none" => call.run \in RunStatuses
    /\ call.op \in {"relation", "relink", "edit", "review", "tick"} => call.on \in S
    /\ call.op = "relation" => call.ids \subseteq S \ {call.on}
    /\ call.op = "recheck" => call.ids \subseteq S
    /\ call.op = "fill" => call.ids \subseteq Targets
    /\ call.op = "review" => call.verdict \in Statuses /\ call.decision[call.on] # NoDecision
    /\ call.op = "tick" => call.verdict \in {"open", "done"} /\ call.on \in K
    /\ call.op = "ticked" => call.verdict \in RunStatuses
TypedCalls(C, S, K) ==
    /\ C = [c \in Callers |-> C[c]]
    /\ \A c \in Callers : TypedCall(C[c], S, K)

Typed ==
    /\ Rows
    /\ stage \in Stages /\ todo \subseteq clauses
    /\ TypedWorker(worker, clauses, Judged(decision))
    /\ TypedCalls(calls, clauses, Judged(decision))

Earlier(c) == IF c \in Amendments THEN {d \in Clauses : d \notin Amendments \/ d < c} ELSE {}

(***************************************************************************)
(* version_state.                                                          *)
(***************************************************************************)
LEMMA ClausesFacts ==
    /\ IsFiniteSet(Clauses) /\ Cardinality(Clauses) = MaxClauses
    /\ 0 \notin Clauses /\ Clauses \subseteq 0 .. MaxClauses
    /\ \A c \in Clauses : c \in Nat
<1>1. MaxClauses \in Nat
  BY ReviewAssumption
<1>2. IsFiniteSet(1 .. MaxClauses) /\ Cardinality(1 .. MaxClauses) = MaxClauses
  BY <1>1, FS_Interval
<1> QED
  BY <1>1, <1>2 DEF Clauses

LEMMA ReplacerFacts ==
    ASSUME NEW v, NEW c
    PROVE  /\ Replacer(v, c) = 0 <=> ~\E d \in Clauses : c \in v[d].replaces
           /\ Replacer(v, c) # 0 => Replacer(v, c) \in Clauses /\ c \in v[Replacer(v, c)].replaces
<1> DEFINE S == {0} \cup {d \in Clauses : c \in v[d].replaces}
<1>1. S \in SUBSET (0 .. MaxClauses) /\ S # {} /\ MaxClauses \in Nat
  <2>1. MaxClauses \in Nat /\ 0 \in 0 .. MaxClauses
    BY ReviewAssumption
  <2> QED
    BY <2>1, ClausesFacts
<1>2. \E n \in S : \A m \in S : n >= m
  BY <1>1, GreatestNat
<1>3. Max(S) \in S /\ \A m \in S : Max(S) >= m
  BY <1>2 DEF Max
<1>4. Replacer(v, c) = Max(S)
  BY DEF Replacer
<1> HIDE DEF Max
<1>5. CASE Replacer(v, c) = 0
  <2>1. \A d \in Clauses : c \in v[d].replaces => d \in S /\ ~(0 >= d)
    BY <1>1, ClausesFacts
  <2> QED
    BY <1>3, <1>4, <1>5, <2>1
<1>6. CASE Replacer(v, c) # 0
  BY <1>3, <1>4, <1>6
<1> QED
  BY <1>5, <1>6

LEMMA ReplacedFacts ==
    ASSUME NEW v, NEW c
    PROVE  c \in Replaced(v) <=> Replacer(v, c) # 0
BY ReplacerFacts DEF Replaced

\* Reach is the least set that contains S and whatever its members replace.
ClosedIn(v, X) == \A c \in X : v[c].replaces \subseteq X

LEMMA ReachFacts ==
    ASSUME NEW v \in VersionType, NEW S \in SUBSET Clauses
    PROVE  /\ Reach(v, S) \in SUBSET Clauses /\ S \subseteq Reach(v, S)
           /\ ClosedIn(v, Reach(v, S))
           /\ \A X \in SUBSET Clauses : S \subseteq X /\ ClosedIn(v, X) => Reach(v, S) \subseteq X
<1> DEFINE V == SUBSET Clauses
           N == MaxClauses
           grown(X) == X \cup UNION {v[c].replaces : c \in X}
           F == [X \in V |-> grown(X)]
           reach == CHOOSE g : g = [n \in 0 .. N |-> IF n = 0 THEN S
                                      ELSE g[n - 1] \cup UNION {v[c].replaces : c \in g[n - 1]}]
<1>1. N \in Nat /\ S \in V /\ \A c \in Clauses : v[c].replaces \in V
  BY ReviewAssumption DEF VersionType
<1>2. \A X \in V : grown(X) \in V
  BY <1>1
<1>3. F \in [V -> V] /\ \A X \in V : F[X] = grown(X)
  BY <1>2
<1> HIDE DEF F
<1>14. \A X \in V : X \subseteq grown(X)
  OBVIOUS
<1>4. PICK g : Iterates(g, N, S, F)
  BY <1>1, <1>3, IterationExists
<1> HIDE DEF V, N
<1>5. g \in [0 .. N -> V] /\ g[0] = S /\ \A n \in 1 .. N : g[n] = F[g[n - 1]]
  BY <1>1, <1>3, <1>4, IterationType
<1> USE DEF V, N
<1>6. g = [n \in 0 .. N |-> IF n = 0 THEN S ELSE grown(g[n - 1])]
  <2>1. \A n \in 0 .. N : n # 0 => n \in 1 .. N /\ g[n - 1] \in V
    BY <1>1, <1>5
  <2>2. \A n \in 0 .. N : g[n] = IF n = 0 THEN S ELSE grown(g[n - 1])
    BY <1>3, <1>5, <2>1
  <2> QED
    BY <1>5, <2>2
<1>7. reach = [n \in 0 .. N |-> IF n = 0 THEN S ELSE grown(reach[n - 1])]
  BY <1>6
<1>8. Reach(v, S) = reach[N]
  BY DEF Reach
<1> HIDE DEF reach
<1> DEFINE I == {n \in Nat : n <= N =>
                  /\ reach[n] = g[n] /\ S \subseteq g[n]
                  /\ \A X \in V : S \subseteq X /\ ClosedIn(v, X) => g[n] \subseteq X}
<1>9. 0 \in I
  BY <1>1, <1>5, <1>7
<1>10. ASSUME NEW n \in Nat, n \in I PROVE n + 1 \in I
  <2> SUFFICES ASSUME n + 1 <= N
               PROVE  /\ reach[n + 1] = g[n + 1] /\ S \subseteq g[n + 1]
                      /\ \A X \in V : S \subseteq X /\ ClosedIn(v, X) => g[n + 1] \subseteq X
    OBVIOUS
  <2>1. n + 1 \in 0 .. N /\ n + 1 \in 1 .. N /\ n + 1 # 0 /\ (n + 1) - 1 = n /\ n \in 0 .. N
    BY <1>1
  <2>2. reach[n + 1] = grown(reach[n])
    BY <1>7, <2>1
  <2>3. g[n + 1] = grown(g[n])
    BY <1>3, <1>5, <2>1
  <2>4. /\ reach[n] = g[n] /\ S \subseteq g[n]
        /\ \A X \in V : S \subseteq X /\ ClosedIn(v, X) => g[n] \subseteq X
    BY <1>10, <2>1
  <2>5. \A X \in V : g[n] \subseteq X /\ ClosedIn(v, X) => grown(g[n]) \subseteq X
    BY DEF ClosedIn
  <2>6. g[n] \in V /\ g[n] \subseteq grown(g[n])
    BY <1>5, <1>14, <2>1
  <2> HIDE DEF grown, V
  <2> QED
    BY <2>2, <2>3, <2>4, <2>5, <2>6
<1> HIDE DEF I
<1>11. N \in I
  BY <1>1, <1>9, <1>10, Induction
<1>12. /\ reach[N] = g[N] /\ S \subseteq g[N] /\ g[N] \in V
       /\ \A X \in V : S \subseteq X /\ ClosedIn(v, X) => g[N] \subseteq X
  BY <1>1, <1>5, <1>11 DEF I
<1>13. F[g[N]] = g[N]
  <2>1. \A X \in SUBSET Clauses : X \subseteq F[X]
    BY <1>3
  <2>2. IsFiniteSet(Clauses) /\ Cardinality(Clauses) <= N
    BY <1>1, ClausesFacts
  <2>3. F \in [SUBSET Clauses -> SUBSET Clauses] /\ S \in SUBSET Clauses /\ N \in Nat
    BY <1>1, <1>3
  <2> HIDE DEF V, N
  <2> QED
    BY <1>4, <2>1, <2>2, <2>3, GrowthEnds
<1>15. ClosedIn(v, g[N])
  BY <1>3, <1>12, <1>13 DEF ClosedIn
<1> QED
  BY <1>8, <1>12, <1>15

Acyclic(v) == \A c \in Clauses : c \notin Reach(v, v[c].replaces)

\* Reach grows with the set, and is its own closure.
LEMMA ReachMonotone ==
    ASSUME NEW v \in VersionType, NEW S \in SUBSET Clauses, NEW T \in SUBSET Clauses,
           S \subseteq Reach(v, T)
    PROVE  Reach(v, S) \subseteq Reach(v, T)
BY ReachFacts

\* What the analysis finds goes back in time.
LEMMA OrderedIsAcyclic ==
    ASSUME NEW v \in VersionType, \A c \in Clauses : v[c].replaces \subseteq Earlier(c)
    PROVE  Acyclic(v)
<1> SUFFICES ASSUME NEW c \in Clauses PROVE c \notin Reach(v, v[c].replaces)
  BY DEF Acyclic
<1> DEFINE X == IF c \in Amendments THEN {d \in Clauses : d \notin Amendments \/ d < c} ELSE {}
<1>1. X \in SUBSET Clauses /\ c \notin X
  BY ClausesFacts
<1>2. v[c].replaces \subseteq X /\ v[c].replaces \in SUBSET Clauses
  BY DEF Earlier
<1>3. ASSUME NEW e \in X, NEW d \in v[e].replaces PROVE d \in X
  <2>1. c \in Amendments /\ e \in Clauses /\ (e \notin Amendments \/ e < c)
    BY <1>3
  <2>2. e \in Amendments /\ d \in Clauses /\ (d \notin Amendments \/ d < e)
    BY <1>3, <2>1 DEF Earlier
  <2>3. c \in Nat /\ d \in Nat /\ e \in Nat
    BY <2>1, <2>2, ClausesFacts
  <2>4. d \notin Amendments \/ d < c
    BY <2>1, <2>2, <2>3
  <2> QED
    BY <2>1, <2>2, <2>4
<1>4. ClosedIn(v, X)
  BY <1>3 DEF ClosedIn
<1> HIDE DEF X
<1> QED
  BY <1>1, <1>2, <1>4, ReachFacts

\* An edit that closes no cycle leaves none.
LEMMA EditKeepsAcyclic ==
    ASSUME NEW v \in VersionType, Acyclic(v), NEW r \in Clauses, NEW ids \in SUBSET Clauses,
           r \notin Reach(v, ids), NEW w \in VersionType, w[r].replaces = ids,
           \A c \in Clauses \ {r} : w[c].replaces = v[c].replaces
    PROVE  Acyclic(w)
<1>1. \A c \in Clauses : v[c].replaces \in SUBSET Clauses /\ w[c].replaces \in SUBSET Clauses
  BY DEF VersionType
<1>2. \A X \in SUBSET Clauses : ClosedIn(v, X) /\ (r \in X => ids \subseteq X) => ClosedIn(w, X)
  BY DEF ClosedIn
<1> SUFFICES ASSUME NEW c \in Clauses PROVE c \notin Reach(w, w[c].replaces)
  BY DEF Acyclic
<1> DEFINE R == Reach(v, ids)
           A == Reach(v, v[c].replaces)
<1>3. R \in SUBSET Clauses /\ ids \subseteq R /\ ClosedIn(v, R) /\ r \notin R
  BY ReachFacts
<1>4. A \in SUBSET Clauses /\ v[c].replaces \subseteq A /\ ClosedIn(v, A) /\ c \notin A
  BY <1>1, ReachFacts DEF Acyclic
<1>5. CASE c = r
  <2>1. ClosedIn(w, R)
    BY <1>2, <1>3
  <2>2. Reach(w, ids) \subseteq R
    BY <1>3, <2>1, ReachFacts
  <2> QED
    BY <1>3, <1>5, <2>2
<1>6. CASE c # r /\ r \notin A
  <2>1. ClosedIn(w, A)
    BY <1>2, <1>4, <1>6
  <2>2. Reach(w, w[c].replaces) \subseteq A
    BY <1>1, <1>4, <1>6, <2>1, ReachFacts
  <2> QED
    BY <1>4, <2>2
<1>7. CASE c # r /\ r \in A
  <2>1. A \cup R \in SUBSET Clauses
    BY <1>3, <1>4
  <2>2. ClosedIn(v, A \cup R)
    BY <1>3, <1>4 DEF ClosedIn
  <2>3. ClosedIn(w, A \cup R)
    BY <1>2, <1>3, <2>1, <2>2
  <2>4. Reach(w, w[c].replaces) \subseteq A \cup R
    BY <1>1, <1>4, <1>7, <2>1, <2>3, ReachFacts
  <2>5. c \notin R
    <3> SUFFICES ASSUME c \in R PROVE FALSE
      OBVIOUS
    <3>1. v[c].replaces \subseteq R
      BY <1>3 DEF ClosedIn
    <3>2. A \subseteq R
      BY <1>1, <1>3, <3>1, ReachFacts
    <3> QED
      BY <1>3, <1>7, <3>2
  <2> QED
    BY <1>4, <2>4, <2>5
<1> QED
  BY <1>5, <1>6, <1>7

\* Fewer relations leave no cycle either, and what was in force stays in force.
LEMMA FewerRelations ==
    ASSUME NEW v \in VersionType, NEW w \in VersionType,
           \A c \in Clauses : w[c].replaces \subseteq v[c].replaces
                             /\ w[c].conflicts \subseteq v[c].conflicts
    PROVE  /\ Acyclic(v) => Acyclic(w)
           /\ Replaced(w) \subseteq Replaced(v)
           /\ InConflict(w) \subseteq InConflict(v) \cup Replaced(v)
<1>1. Acyclic(v) => Acyclic(w)
  <2> SUFFICES ASSUME Acyclic(v), NEW c \in Clauses PROVE c \notin Reach(w, w[c].replaces)
    BY DEF Acyclic
  <2> DEFINE A == Reach(v, v[c].replaces)
  <2>1. v[c].replaces \in SUBSET Clauses /\ w[c].replaces \in SUBSET Clauses
    BY DEF VersionType
  <2>2. A \in SUBSET Clauses /\ v[c].replaces \subseteq A /\ ClosedIn(v, A) /\ c \notin A
    BY <2>1, ReachFacts DEF Acyclic
  <2> HIDE DEF A
  <2>3. ClosedIn(w, A) /\ w[c].replaces \subseteq A
    BY <2>2 DEF ClosedIn
  <2>4. Reach(w, w[c].replaces) \subseteq A
    BY <2>1, <2>2, <2>3, ReachFacts
  <2> QED
    BY <2>2, <2>4
<1>2. Replaced(w) \subseteq Replaced(v)
  BY DEF Replaced
<1>3. InConflict(w) \subseteq InConflict(v) \cup Replaced(v)
  <2> SUFFICES ASSUME NEW k \in InConflict(w), k \notin Replaced(v) PROVE k \in InConflict(v)
    OBVIOUS
  <2>1. PICK d \in Clauses : w[d].conflicts # {} /\ k \in {d} \cup w[d].conflicts
    BY DEF InConflict
  <2>2. v[d].conflicts # {} /\ k \in {d} \cup v[d].conflicts
    BY <2>1
  <2> DEFINE M == {c \in Clauses : v[c].conflicts # {}}
  <2>3. d \in M
    BY <2>2
  <2>4. k \in UNION {{c} \cup v[c].conflicts : c \in M}
    BY <2>2, <2>3
  <2> QED
    BY <2>4 DEF InConflict
<1> QED
  BY <1>1, <1>2, <1>3

(***************************************************************************)
(* The loop over replacements.                                             *)
(***************************************************************************)
Step(v, x) == IF x \in Replaced(v) THEN Replacer(v, x) ELSE x

LEMMA StepFacts ==
    ASSUME NEW v, NEW x \in Clauses
    PROVE  /\ Step(v, x) \in Clauses
           /\ x \in Replaced(v) => x \in v[Step(v, x)].replaces
BY ReplacerFacts, ReplacedFacts DEF Step

\* The clauses the loop passes.
IsWalk(v, c, w) ==
    /\ w \in [0 .. MaxClauses -> Clauses]
    /\ w[0] = c /\ Latest(v, c) = w[MaxClauses]
    /\ \A n \in 0 .. MaxClauses - 1 : w[n + 1] = Step(v, w[n])

LEMMA WalkFacts ==
    ASSUME NEW v, NEW c \in Clauses
    PROVE  \E w : IsWalk(v, c, w)
<1> DEFINE N == MaxClauses
           F == [x \in Clauses |-> Step(v, x)]
           walk == CHOOSE g : g = [n \in 0 .. N |-> IF n = 0 THEN c
                                     ELSE IF g[n - 1] \in Replaced(v) THEN Replacer(v, g[n - 1])
                                     ELSE g[n - 1]]
<1>1. N \in Nat
  BY ReviewAssumption
<1>2. F \in [Clauses -> Clauses] /\ \A x \in Clauses : F[x] = Step(v, x)
  BY StepFacts
<1> HIDE DEF F, N
<1>3. PICK g : Iterates(g, N, c, F)
  BY <1>1, <1>2, IterationExists
<1>4. g \in [0 .. N -> Clauses] /\ g[0] = c /\ \A n \in 1 .. N : g[n] = F[g[n - 1]]
  BY <1>1, <1>2, <1>3, IterationType
<1>5. g = [n \in 0 .. N |-> IF n = 0 THEN c ELSE Step(v, g[n - 1])]
  <2>1. \A n \in 0 .. N : n # 0 => n \in 1 .. N /\ g[n - 1] \in Clauses
    BY <1>1, <1>4
  <2>2. \A n \in 0 .. N : g[n] = IF n = 0 THEN c ELSE Step(v, g[n - 1])
    BY <1>2, <1>4, <2>1
  <2> QED
    BY <1>4, <2>2
<1>6. walk = [n \in 0 .. N |-> IF n = 0 THEN c ELSE Step(v, walk[n - 1])]
  BY <1>5 DEF Step
<1>7. Latest(v, c) = walk[N]
  BY DEF Latest, N
<1> HIDE DEF walk
<1> DEFINE I == {n \in Nat : n <= N => walk[n] = g[n]}
<1>8. 0 \in I
  BY <1>1, <1>4, <1>6
<1>9. ASSUME NEW n \in Nat, n \in I PROVE n + 1 \in I
  <2> SUFFICES ASSUME n + 1 <= N PROVE walk[n + 1] = g[n + 1]
    OBVIOUS
  <2>1. n + 1 \in 0 .. N /\ n + 1 \in 1 .. N /\ n + 1 # 0 /\ (n + 1) - 1 = n /\ n \in 0 .. N
    BY <1>1
  <2>2. walk[n + 1] = Step(v, walk[n])
    BY <1>6, <2>1
  <2>3. g[n + 1] = Step(v, g[n])
    BY <1>2, <1>4, <2>1
  <2> QED
    BY <1>9, <2>1, <2>2, <2>3
<1> HIDE DEF I
<1>10. walk[N] = g[N]
  <2>1. N \in I
    BY <1>1, <1>8, <1>9, Induction
  <2> QED
    BY <1>1, <2>1 DEF I
<1>11. \A n \in 0 .. N - 1 : g[n + 1] = Step(v, g[n])
  <2> TAKE n \in 0 .. N - 1
  <2>1. n + 1 \in 1 .. N /\ (n + 1) - 1 = n /\ n \in 0 .. N
    BY <1>1
  <2> QED
    BY <1>2, <1>4, <2>1
<1> QED
  BY <1>4, <1>7, <1>10, <1>11 DEF N, IsWalk

\* The loop ends, unless clauses replace each other in a circle.
LEMMA LatestEnds ==
    ASSUME NEW v \in VersionType, Acyclic(v), NEW c \in Clauses
    PROVE  Latest(v, c) \notin Replaced(v)
<1> DEFINE N == MaxClauses
<1>1. N \in Nat
  BY ReviewAssumption
<1>0. PICK w : IsWalk(v, c, w)
  BY WalkFacts
<1>2. /\ w \in [0 .. N -> Clauses] /\ w[0] = c /\ Latest(v, c) = w[N]
      /\ \A n \in 0 .. N - 1 : w[n + 1] = Step(v, w[n])
  BY <1>0 DEF IsWalk
<1> HIDE DEF N
<1> SUFFICES ASSUME w[N] \in Replaced(v) PROVE FALSE
  BY <1>2
\* It has not ended before.
<1>3. \A n \in 0 .. N : w[n] \in Replaced(v)
  <2> DEFINE I == {n \in Nat : n <= N => w[N - n] \in Replaced(v)}
  <2>1. 0 \in I
    BY <1>1
  <2>2. ASSUME NEW n \in Nat, n \in I PROVE n + 1 \in I
    <3> SUFFICES ASSUME n + 1 <= N, w[N - (n + 1)] \notin Replaced(v) PROVE FALSE
      OBVIOUS
    <3> DEFINE m == N - (n + 1)
    <3>1. m \in 0 .. N - 1 /\ m + 1 = N - n
      BY <1>1
    <3>2. w[N - n] \in Replaced(v) /\ w[m] \notin Replaced(v)
      BY <1>1, <2>2
    <3> HIDE DEF m, I
    <3>3. w[m + 1] = w[m]
      BY <1>2, <3>1, <3>2 DEF Step
    <3> QED
      BY <3>1, <3>2, <3>3
  <2> HIDE DEF I
  <2>3. Nat \subseteq I
    BY <2>1, <2>2, Induction
  <2> SUFFICES ASSUME NEW n \in 0 .. N PROVE w[n] \in Replaced(v)
    OBVIOUS
  <2>4. N - n \in I /\ N - n <= N /\ N - (N - n) = n
    BY <1>1, <2>3
  <2> QED
    BY <2>4 DEF I
<1>4. \A n \in 0 .. N - 1 : w[n] \in v[w[n + 1]].replaces
  <2> SUFFICES ASSUME NEW n \in 0 .. N - 1 PROVE w[n] \in v[w[n + 1]].replaces
    OBVIOUS
  <2>1. n \in 0 .. N
    BY <1>1
  <2>2. w[n] \in Clauses /\ w[n] \in Replaced(v)
    BY <1>2, <1>3, <2>1
  <2> QED
    BY <1>2, <2>2, StepFacts
\* It has passed one clause twice.
<1>5. PICK i \in 0 .. N, j \in 0 .. N : i < j /\ w[i] = w[j]
  <2>1. IsFiniteSet(0 .. N) /\ Cardinality(0 .. N) = N + 1
    BY <1>1, FS_Interval
  <2>2. IsFiniteSet(Clauses) /\ Cardinality(Clauses) < Cardinality(0 .. N)
    BY <1>1, <2>1, ClausesFacts DEF N
  <2> DEFINE D == 0 .. N
  <2> HIDE DEF D
  <2>3. PICK x, y \in D : x # y /\ w[x] = w[y]
    <3>1. w \in [D -> Clauses] /\ IsFiniteSet(D) /\ Cardinality(Clauses) < Cardinality(D)
      BY <1>2, <2>1, <2>2 DEF D
    <3> QED
      BY <2>2, <3>1, FS_PigeonHole
  <2> USE DEF D
  <2> QED
    BY <1>1, <2>3
\* The clauses it passes are reached from those it passes later.
<1>6. w[i] \in Reach(v, v[w[j]].replaces)
  <2> DEFINE I == {n \in Nat : i + n + 1 <= N => w[i] \in Reach(v, v[w[i + n + 1]].replaces)}
  <2>1. \A x \in Clauses : v[x].replaces \in SUBSET Clauses
    BY DEF VersionType
  <2>2. 0 \in I
    <3> SUFFICES ASSUME i + 0 + 1 <= N PROVE w[i] \in Reach(v, v[w[i + 0 + 1]].replaces)
      OBVIOUS
    <3>1. i + 0 + 1 = i + 1 /\ i \in 0 .. N - 1 /\ i + 1 \in 0 .. N
      BY <1>1
    <3>2. w[i] \in v[w[i + 1]].replaces /\ w[i + 1] \in Clauses
      BY <1>2, <1>4, <3>1
    <3>3. v[w[i + 1]].replaces \subseteq Reach(v, v[w[i + 1]].replaces)
      BY <2>1, <3>2, ReachFacts
    <3> QED
      BY <3>1, <3>2, <3>3
  <2>3. ASSUME NEW n \in Nat, n \in I PROVE n + 1 \in I
    <3> SUFFICES ASSUME i + (n + 1) + 1 <= N
                 PROVE  w[i] \in Reach(v, v[w[i + (n + 1) + 1]].replaces)
      OBVIOUS
    <3> DEFINE m == i + n + 1
    <3>1. m \in 0 .. N - 1 /\ m + 1 \in 0 .. N /\ m \in 0 .. N /\ m + 1 = i + (n + 1) + 1
      BY <1>1
    <3>2. w[i] \in Reach(v, v[w[m]].replaces)
      BY <1>1, <2>3, <3>1
    <3> HIDE DEF m
    <3>3. w[m] \in v[w[m + 1]].replaces /\ w[m] \in Clauses /\ w[m + 1] \in Clauses
      BY <1>2, <1>4, <3>1
    <3> DEFINE R == Reach(v, v[w[m + 1]].replaces)
    <3>4. v[w[m + 1]].replaces \subseteq R /\ ClosedIn(v, R)
      BY <2>1, <3>3, ReachFacts
    <3>5. v[w[m]].replaces \subseteq R
      BY <3>3, <3>4 DEF ClosedIn
    <3>6. Reach(v, v[w[m]].replaces) \subseteq R
      BY <2>1, <3>3, <3>5, ReachMonotone
    <3> QED
      BY <3>1, <3>2, <3>6
  <2> HIDE DEF I
  <2>4. Nat \subseteq I
    BY <2>2, <2>3, Induction
  <2>5. j - i - 1 \in I /\ i + (j - i - 1) + 1 = j /\ j <= N
    BY <1>1, <1>5, <2>4
  <2> QED
    BY <2>5 DEF I
<1>7. w[j] \in Clauses
  BY <1>2
<1> QED
  BY <1>5, <1>6, <1>7 DEF Acyclic

(***************************************************************************)
(* What a request holds.                                                   *)
(***************************************************************************)
LEMMA BareCall ==
    ASSUME NEW op, NEW on
    PROVE  Call(op, on) = TheCall(op, on, {}, "none", "none", Unread, Bare, run)
BY DEF Call, TheCall

LEMMA NoCallFacts == NoCall = TheCall("none", 0, {}, "none", "none", Unread, Bare, "none")
BY DEF NoCall, Call, TheCall

LEMMA RelationCall ==
    ASSUME NEW r, NEW ids
    PROVE  [Call("relation", r) EXCEPT !.ids = ids, !.version = version]
               = TheCall("relation", r, ids, "none", "none", version, Bare, run)
<1> DEFINE c1 == [Call("relation", r) EXCEPT !.ids = ids]
           c2 == [c1 EXCEPT !.version = version]
<1>1. c1 = TheCall("relation", r, ids, "none", "none", Unread, Bare, run)
  BY DEF Call, TheCall
<1>2. [Call("relation", r) EXCEPT !.ids = ids, !.version = version] = c2
  OBVIOUS
<1> HIDE DEF c1
<1>3. c2 = TheCall("relation", r, ids, "none", "none", version, Bare, run)
  BY <1>1 DEF TheCall
<1> QED
  BY <1>2, <1>3

LEMMA ReviewCall ==
    ASSUME NEW r, NEW status
    PROVE  [Call("review", r) EXCEPT !.verdict = status, !.decision[r] = decision[r]]
               = TheCall("review", r, {}, status, "none", Unread,
                         [Bare EXCEPT ![r] = decision[r]], run)
<1> DEFINE c1 == [Call("review", r) EXCEPT !.verdict = status]
           c2 == [c1 EXCEPT !.decision = [c1.decision EXCEPT ![r] = decision[r]]]
<1>1. c1 = TheCall("review", r, {}, status, "none", Unread, Bare, run)
  BY DEF Call, TheCall
<1>2. [Call("review", r) EXCEPT !.verdict = status, !.decision[r] = decision[r]] = c2
  OBVIOUS
<1> HIDE DEF c1
<1>3. c1.decision = Bare
  BY <1>1 DEF TheCall
<1>4. c2 = TheCall("review", r, {}, status, "none", Unread,
                   [Bare EXCEPT ![r] = decision[r]], run)
  BY <1>1, <1>3 DEF TheCall
<1> QED
  BY <1>2, <1>4

LEMMA TickCall ==
    ASSUME NEW r, NEW value
    PROVE  [Call("tick", r) EXCEPT !.verdict = value, !.item = item[r]]
               = TheCall("tick", r, {}, value, item[r], Unread, Bare, run)
<1> DEFINE c1 == [Call("tick", r) EXCEPT !.verdict = value]
           c2 == [c1 EXCEPT !.item = item[r]]
<1>1. c1 = TheCall("tick", r, {}, value, "none", Unread, Bare, run)
  BY DEF Call, TheCall
<1>2. [Call("tick", r) EXCEPT !.verdict = value, !.item = item[r]] = c2
  OBVIOUS
<1> HIDE DEF c1
<1>3. c2 = TheCall("tick", r, {}, value, item[r], Unread, Bare, run)
  BY <1>1 DEF TheCall
<1> QED
  BY <1>2, <1>3

LEMMA RecheckCall ==
    [Call("recheck", 0) EXCEPT !.ids = clauses, !.version = version, !.decision = decision]
        = TheCall("recheck", 0, clauses, "none", "none", version, decision, run)
<1> DEFINE c1 == [Call("recheck", 0) EXCEPT !.ids = clauses]
           c2 == [c1 EXCEPT !.version = version]
           c3 == [c2 EXCEPT !.decision = decision]
<1>1. c1 = TheCall("recheck", 0, clauses, "none", "none", Unread, Bare, run)
  BY DEF Call, TheCall
<1>2. [Call("recheck", 0) EXCEPT !.ids = clauses, !.version = version, !.decision = decision]
          = c3
  OBVIOUS
<1> HIDE DEF c1
<1>3. c2 = TheCall("recheck", 0, clauses, "none", "none", version, Bare, run)
  BY <1>1 DEF TheCall
<1> HIDE DEF c2
<1>4. c3 = TheCall("recheck", 0, clauses, "none", "none", version, decision, run)
  BY <1>3 DEF TheCall
<1> QED
  BY <1>2, <1>4

LEMMA FillCall ==
    ASSUME NEW ids
    PROVE  [Call("fill", 0) EXCEPT !.ids = ids]
               = TheCall("fill", 0, ids, "none", "none", Unread, Bare, run)
BY DEF Call, TheCall

LEMMA EditCall ==
    ASSUME NEW r, NEW what
    PROVE  [Call("edit", r) EXCEPT !.verdict = what]
               = TheCall("edit", r, {}, what, "none", Unread, Bare, run)
BY DEF Call, TheCall

LEMMA IsCallFacts ==
    ASSUME NEW op, NEW on, NEW ids, NEW verdict, NEW it, NEW v, NEW D, NEW r,
           NEW call, call = TheCall(op, on, ids, verdict, it, v, D, r)
    PROVE  /\ IsCall(call)
           /\ call.op = op /\ call.on = on /\ call.ids = ids /\ call.verdict = verdict
           /\ call.item = it /\ call.version = v /\ call.decision = D /\ call.run = r
BY DEF IsCall, TheCall

Relinked(call, ids, v, D, r) ==
    [call EXCEPT !.op = "relink", !.ids = ids, !.version = v, !.decision = D, !.run = r]

LEMMA RelinkCall ==
    ASSUME NEW call, IsCall(call), NEW ids, NEW v, NEW D, NEW r
    PROVE  Relinked(call, ids, v, D, r)
               = TheCall("relink", call.on, ids, call.verdict, call.item, v, D, r)
<1> DEFINE on == call.on
           verdict == call.verdict
           it == call.item
           c1 == [call EXCEPT !.op = "relink"]
           c2 == [c1 EXCEPT !.ids = ids]
           c3 == [c2 EXCEPT !.version = v]
           c4 == [c3 EXCEPT !.decision = D]
           c5 == [c4 EXCEPT !.run = r]
<1>1. Relinked(call, ids, v, D, r) = c5
  BY DEF Relinked
<1>2. c1 = TheCall("relink", on, call.ids, verdict, it, call.version, call.decision, call.run)
  BY DEF IsCall, TheCall
<1> HIDE DEF c1, on, verdict, it
<1>3. c2 = TheCall("relink", on, ids, verdict, it, call.version, call.decision, call.run)
  BY <1>2 DEF TheCall
<1> HIDE DEF c2
<1>4. c3 = TheCall("relink", on, ids, verdict, it, v, call.decision, call.run)
  BY <1>3 DEF TheCall
<1> HIDE DEF c3
<1>5. c4 = TheCall("relink", on, ids, verdict, it, v, D, call.run)
  BY <1>4 DEF TheCall
<1> HIDE DEF c4
<1>6. c5 = TheCall("relink", on, ids, verdict, it, v, D, r)
  BY <1>5 DEF TheCall
<1> QED
  BY <1>1, <1>6 DEF on, verdict, it

Ticked(call, value) == [call EXCEPT !.op = "ticked", !.verdict = value]

LEMMA TickedCall ==
    ASSUME NEW call, IsCall(call), NEW value
    PROVE  Ticked(call, value)
               = TheCall("ticked", call.on, call.ids, value, call.item, call.version,
                         call.decision, call.run)
<1> DEFINE c1 == [call EXCEPT !.op = "ticked"]
           c2 == [c1 EXCEPT !.verdict = value]
<1>1. Ticked(call, value) = c2
  BY DEF Ticked
<1>2. c1 = TheCall("ticked", call.on, call.ids, call.verdict, call.item, call.version,
                   call.decision, call.run)
  BY DEF IsCall, TheCall
<1> HIDE DEF c1
<1>3. c2 = TheCall("ticked", call.on, call.ids, value, call.item, call.version,
                   call.decision, call.run)
  BY <1>2 DEF TheCall
<1> QED
  BY <1>1, <1>3

Rechecked(call, D, r) == [call EXCEPT !.op = "rechecked", !.decision = D, !.run = r]

LEMMA RecheckedCall ==
    ASSUME NEW call, IsCall(call), NEW D, NEW r
    PROVE  Rechecked(call, D, r)
               = TheCall("rechecked", call.on, call.ids, call.verdict, call.item, call.version,
                         D, r)
<1> DEFINE c1 == [call EXCEPT !.op = "rechecked"]
           c2 == [c1 EXCEPT !.decision = D]
           c3 == [c2 EXCEPT !.run = r]
<1>1. Rechecked(call, D, r) = c3
  BY DEF Rechecked
<1>2. c1 = TheCall("rechecked", call.on, call.ids, call.verdict, call.item, call.version,
                   call.decision, call.run)
  BY DEF IsCall, TheCall
<1> HIDE DEF c1
<1>3. c2 = TheCall("rechecked", call.on, call.ids, call.verdict, call.item, call.version,
                   D, call.run)
  BY <1>2 DEF TheCall
<1> HIDE DEF c2
<1>4. c3 = TheCall("rechecked", call.on, call.ids, call.verdict, call.item, call.version, D, r)
  BY <1>3 DEF TheCall
<1> QED
  BY <1>1, <1>4

(***************************************************************************)
(* What the operators return on rows that fit together.                    *)
(***************************************************************************)
LEMMA UnreadFacts ==
    ASSUME NEW S
    PROVE  /\ Unread \in VersionType /\ Fits(Unread, S)
           /\ Bare \in DecisionType /\ Judged(Bare) = {}
<1>1. NoVersion \in [replaces : SUBSET Clauses, conflicts : SUBSET Clauses, settled : BOOLEAN]
  BY DEF NoVersion
<1>2. Unread \in VersionType
  BY <1>1 DEF Unread, VersionType
<1>3. Fits(Unread, S)
  BY DEF Fits, Unread, NoVersion
<1>4. Bare \in DecisionType /\ Judged(Bare) = {}
  BY DEF Bare, DecisionType, RowType, Judged
<1> QED
  BY <1>2, <1>3, <1>4

LEMMA VersionFacts ==
    ASSUME NEW v \in VersionType, NEW S \in SUBSET Clauses, Fits(v, S)
    PROVE  /\ Replaced(v) \subseteq S /\ InConflict(v) \subseteq S
           /\ \A c : Replacer(v, c) \in S \cup {0}
<1>1. \A c \in Clauses : v[c].replaces \subseteq S /\ v[c].conflicts \subseteq S
  BY DEF Fits
<1>2. Replaced(v) \subseteq S
  BY <1>1 DEF Replaced
<1>3. \A c \in Clauses : v[c].conflicts # {} => c \in S
  BY DEF Fits, NoVersion
<1>4. InConflict(v) \subseteq S
  BY <1>1, <1>3 DEF InConflict
<1>5. \A c \in Clauses : v[c].replaces # {} => c \in S
  BY DEF Fits, NoVersion
<1>6. \A c : Replacer(v, c) \in S \cup {0}
  BY <1>5, ReplacerFacts
<1> QED
  BY <1>2, <1>4, <1>6

\* A relation that is confirmed between clauses of the run.
LEMMA EditFits ==
    ASSUME NEW v \in VersionType, NEW S \in SUBSET Clauses, Fits(v, S), NEW r \in S,
           NEW row \in [replaces : SUBSET S, conflicts : SUBSET S, settled : BOOLEAN],
           r \notin row.replaces \cup row.conflicts,
           NEW w, w = [v EXCEPT ![r] = row]
    PROVE  w \in VersionType /\ Fits(w, S)
<1>1. row \in [replaces : SUBSET Clauses, conflicts : SUBSET Clauses, settled : BOOLEAN]
  OBVIOUS
<1>2. w \in VersionType
  BY <1>1 DEF VersionType
<1>3. \A c \in Clauses : w[c] = IF c = r THEN row ELSE v[c]
  BY DEF VersionType
<1> QED
  BY <1>2, <1>3 DEF Fits

\* What an edit leaves of a clause's relations.
LEMMA StrippedFacts ==
    ASSUME NEW v \in VersionType, NEW S \in SUBSET Clauses, Fits(v, S), NEW r \in S,
           NEW row, row \in Stripped(v[r]) \/ row = v[r]
    PROVE  /\ row \in [replaces : SUBSET S, conflicts : SUBSET S, settled : BOOLEAN]
           /\ r \notin row.replaces \cup row.conflicts
           /\ row.replaces \subseteq v[r].replaces /\ row.conflicts \subseteq v[r].conflicts
<1>1. /\ v[r] \in [replaces : SUBSET Clauses, conflicts : SUBSET Clauses, settled : BOOLEAN]
      /\ v[r].replaces \subseteq S /\ v[r].conflicts \subseteq S
      /\ r \notin v[r].replaces \cup v[r].conflicts
  BY DEF VersionType, Fits
<1>2. CASE row = v[r]
  BY <1>1, <1>2
<1>3. CASE row \in Stripped(v[r])
  <2>1. PICK kept \in IF v[r].replaces = {} THEN {{}} ELSE {{k} : k \in v[r].replaces} :
          row = [replaces |-> kept, conflicts |-> {}, settled |-> FALSE]
    BY <1>3 DEF Stripped
  <2>2. kept \subseteq v[r].replaces
    BY <2>1
  <2>3. row.replaces = kept /\ row.conflicts = {}
    BY <2>1
  <2>4. row \in [replaces : SUBSET S, conflicts : SUBSET S, settled : BOOLEAN]
    BY <1>1, <2>1, <2>2
  <2> QED
    BY <1>1, <2>2, <2>3, <2>4
<1> QED
  BY <1>2, <1>3

LEMMA VerdictFacts ==
    ASSUME NEW why \in Why, NEW status \in Statuses
    PROVE  /\ Verdict(status, why) \in RowType /\ Verdict(status, why) # NoDecision
           /\ Verdict(status, why).summary = <<why, 0>>
           /\ Verdict(status, why).status = status /\ ~Verdict(status, why).stale
BY DEF Verdict, RowType, NoDecision, Statuses

LEMMA ComparedFacts ==
    ASSUME NEW v \in VersionType, NEW S \in SUBSET Clauses, Fits(v, S), NEW c \in Clauses,
           NEW row \in Compared(v, c)
    PROVE  /\ row \in RowType /\ row # NoDecision /\ row.status \in Statuses /\ row.stale = FALSE
           /\ row.summary[2] \in S \cup {0}
           /\ row.summary[1] \in {"replaced", "conflict", "compared"}
<1>1. Replacer(v, c) \in S \cup {0} /\ Replacer(v, c) \in Clauses \cup {0}
  BY VersionFacts
<1>2. CASE c \in Replaced(v)
  <2>1. row = [status |-> "NOT_APPLICABLE", summary |-> <<"replaced", Replacer(v, c)>>,
               stale |-> FALSE]
    BY <1>2 DEF Compared
  <2>2. <<"replaced", Replacer(v, c)>> \in Why \X (Clauses \cup {0})
    BY <1>1 DEF Why
  <2> QED
    BY <1>1, <2>1, <2>2 DEF RowType, NoDecision, Statuses
<1>3. CASE c \notin Replaced(v)
  <2>1. \E status \in Statuses, why \in {"conflict", "compared"} : row = Verdict(status, why)
    BY <1>3 DEF Compared, Statuses
  <2> QED
    BY <2>1, VerdictFacts DEF Why
<1> QED
  BY <1>2, <1>3

LEMMA RowFacts ==
    ASSUME NEW row \in RowType
    PROVE  /\ row # NoDecision => row.status \in Statuses /\ row.summary \in Why \X (Clauses \cup {0})
           /\ row = NoDecision <=> row.status = "NONE"
           /\ row.stale \in BOOLEAN
           /\ row = [status |-> row.status, summary |-> row.summary, stale |-> row.stale]
<1>1. CASE row = NoDecision
  <2>1. NoDecision = [status |-> NoDecision.status, summary |-> NoDecision.summary,
                      stale |-> NoDecision.stale]
    BY DEF NoDecision
  <2>2. NoDecision.status = "NONE" /\ NoDecision.stale \in BOOLEAN
    BY DEF NoDecision
  <2> QED
    BY <1>1, <2>1, <2>2
<1>2. CASE row # NoDecision
  <2>1. row \in [status : Statuses, summary : Why \X (Clauses \cup {0}), stale : BOOLEAN]
    BY <1>2 DEF RowType
  <2> QED
    BY <1>2, <2>1 DEF Statuses
<1> QED
  BY <1>1, <1>2

\* Columns that another transaction has written since stay.
LEMMA WrittenFacts ==
    ASSUME NEW loaded \in RowType, NEW new \in RowType, NEW stored \in RowType,
           new # NoDecision, loaded # NoDecision => stored # NoDecision
    PROVE  /\ Written(loaded, new, stored) \in RowType
           /\ Written(loaded, new, stored) # NoDecision
           /\ Written(loaded, new, stored).summary \in {new.summary, stored.summary}
           /\ loaded # new => Written(loaded, new, loaded) = new
           /\ loaded = new => Written(loaded, new, stored) = stored
           /\ loaded = NoDecision => Written(loaded, new, stored).summary = new.summary
<1> DEFINE w == Written(loaded, new, stored)
           status == IF new.status = loaded.status THEN stored.status ELSE new.status
           summary == IF new.summary = loaded.summary THEN stored.summary ELSE new.summary
           stale == IF new.stale = loaded.stale THEN stored.stale ELSE new.stale
<1>1. new = [status |-> new.status, summary |-> new.summary, stale |-> new.stale]
  BY RowFacts
<1>2. w = [status |-> status, summary |-> summary, stale |-> stale]
  BY <1>1 DEF Written
<1>3. new.status \in Statuses /\ new.summary \in Why \X (Clauses \cup {0}) /\ new.stale \in BOOLEAN
  BY RowFacts
<1>4. new.status = loaded.status => stored # NoDecision
  BY <1>3, RowFacts DEF NoDecision, Statuses
<1>5. new.summary = loaded.summary => loaded # NoDecision
  BY <1>3 DEF NoDecision, Why
<1>6. status \in Statuses /\ summary \in Why \X (Clauses \cup {0}) /\ stale \in BOOLEAN
  BY <1>3, <1>4, <1>5, RowFacts
<1>7. w \in RowType /\ w # NoDecision /\ w.summary = summary
  BY <1>2, <1>6 DEF RowType, NoDecision, Statuses
<1>8. loaded = new => w = stored
  <2>1. stored = [status |-> stored.status, summary |-> stored.summary, stale |-> stored.stale]
    BY RowFacts
  <2> QED
    BY <1>2, <2>1
<1>9. Written(loaded, new, loaded) = new
  BY <1>1 DEF Written
<1> QED
  BY <1>3, <1>5, <1>7, <1>8, <1>9

LEMMA StaleFacts ==
    ASSUME decision \in DecisionType
    PROVE  /\ Stale \in DecisionType
           /\ \A c \in Clauses : /\ Stale[c] = NoDecision <=> decision[c] = NoDecision
                                 /\ Stale[c].summary = decision[c].summary
                                 /\ Stale[c] # NoDecision => Stale[c].stale
                                 /\ Stale[c].status = decision[c].status
<1>1. \A row \in RowType : row # NoDecision =>
         /\ [row EXCEPT !.stale = TRUE] \in RowType /\ [row EXCEPT !.stale = TRUE] # NoDecision
         /\ [row EXCEPT !.stale = TRUE].summary = row.summary
         /\ [row EXCEPT !.stale = TRUE].stale
         /\ [row EXCEPT !.stale = TRUE].status = row.status
  BY DEF RowType, NoDecision, Statuses
<1>2. \A c \in Clauses : decision[c] \in RowType
  BY DEF DecisionType
<1>3. \A c \in Clauses : Stale[c] = IF decision[c] = NoDecision THEN NoDecision
                                    ELSE [decision[c] EXCEPT !.stale = TRUE]
  BY DEF Stale
<1>4. ASSUME NEW c \in Clauses
      PROVE  /\ Stale[c] \in RowType
             /\ Stale[c] = NoDecision <=> decision[c] = NoDecision
             /\ Stale[c].summary = decision[c].summary
             /\ Stale[c] # NoDecision => Stale[c].stale
             /\ Stale[c].status = decision[c].status
  <2>1. CASE decision[c] = NoDecision
    BY <1>2, <1>3, <2>1
  <2>2. CASE decision[c] # NoDecision
    BY <1>1, <1>2, <1>3, <2>2
  <2> QED
    BY <2>1, <2>2
<1> QED
  BY <1>4 DEF Stale, DecisionType

LEMMA ChecklistFacts ==
    ASSUME item \in ItemType, NEW D, NEW reset
    PROVE  /\ Checklist(D, reset) \in ItemType
           /\ \A c \in Clauses :
                 /\ D[c] = NoDecision => Checklist(D, reset)[c] = item[c]
                 /\ D[c] # NoDecision /\ ~Closed(D[c]) => Checklist(D, reset)[c] # "none"
                 /\ D[c] # NoDecision /\ ~Closed(D[c]) /\ c \in reset
                       => Checklist(D, reset)[c] = "open"
BY DEF Checklist, ItemType

LEMMA SeenFacts ==
    ASSUME decision \in DecisionType, NEW loaded \in DecisionType, NEW S,
           Known(loaded, S, Judged(decision))
    PROVE  /\ Seen(loaded) \in DecisionType
           /\ \A c \in Clauses : Seen(loaded)[c] = NoDecision <=> decision[c] = NoDecision
           /\ loaded = decision => Seen(loaded) = decision
<1>1. \A c \in Clauses : Seen(loaded)[c] = IF loaded[c] = NoDecision THEN decision[c] ELSE loaded[c]
  BY DEF Seen
<1>2. Seen(loaded) \in DecisionType
  BY DEF Seen, DecisionType
<1>3. \A c \in Clauses : loaded[c] # NoDecision => decision[c] # NoDecision
  BY DEF Known, Judged
<1>4. loaded = decision => Seen(loaded) = decision
  BY <1>1, <1>2 DEF DecisionType
<1> QED
  BY <1>1, <1>2, <1>3, <1>4

\* The status a run can be left with.
LEMMA StatusFacts ==
    ASSUME run \in RunStatuses, NEW status \in RunStatuses, NEW D, NEW items, NEW fills
    PROVE  /\ DecidedRun(D) \in {"NEEDS_REVIEW", "COMPLETED"}
           /\ Ready(status, items, fills) \in RunStatuses
           /\ \A old : WrittenRun(old, status) \in {run, status}
BY DEF RunStatuses, DecidedRun, Ready, WrittenRun

\* The clause the loop ends at is one of the run.
LEMMA LatestFacts ==
    ASSUME NEW v \in VersionType, NEW S \in SUBSET Clauses, Fits(v, S), NEW c \in Clauses, c \in S
    PROVE  Latest(v, c) \in S
<1> DEFINE N == MaxClauses
<1>1. N \in Nat
  BY ReviewAssumption
<1>0. PICK w : IsWalk(v, c, w)
  BY WalkFacts
<1>2. /\ w \in [0 .. N -> Clauses] /\ w[0] = c /\ Latest(v, c) = w[N]
      /\ \A n \in 0 .. N - 1 : w[n + 1] = Step(v, w[n])
  BY <1>0 DEF IsWalk
<1> HIDE DEF N
<1>3. \A x \in S : Step(v, x) \in S
  BY VersionFacts, ReplacedFacts DEF Step
<1> DEFINE I == {n \in Nat : n <= N => w[n] \in S}
<1>4. 0 \in I
  BY <1>1, <1>2
<1>5. ASSUME NEW n \in Nat, n \in I PROVE n + 1 \in I
  <2> SUFFICES ASSUME n + 1 <= N PROVE w[n + 1] \in S
    OBVIOUS
  <2>1. n <= N /\ n \in 0 .. N - 1
    BY <1>1
  <2> QED
    BY <1>2, <1>3, <1>5, <2>1
<1> HIDE DEF I
<1>6. N \in I
  BY <1>1, <1>4, <1>5, Induction
<1> QED
  BY <1>1, <1>2, <1>6 DEF I

(***************************************************************************)
(* The rows, the worker's session and the requests stay typed while there  *)
(* come to be more clauses and more decisions.                             *)
(***************************************************************************)
LEMMA FitsGrow ==
    ASSUME NEW v, NEW S, NEW T, S \subseteq T, Fits(v, S)
    PROVE  Fits(v, T)
BY DEF Fits

LEMMA KnownGrow ==
    ASSUME NEW D, NEW S, NEW T, NEW K, NEW L, S \subseteq T, K \subseteq L, Known(D, S, K)
    PROVE  Known(D, T, L)
BY DEF Known

LEMMA CallGrow ==
    ASSUME NEW call, NEW S, NEW T, NEW K, NEW L, S \subseteq T, K \subseteq L,
           TypedCall(call, S, K)
    PROVE  TypedCall(call, T, L)
BY FitsGrow, KnownGrow DEF TypedCall

LEMMA NoCallTyped ==
    ASSUME NEW S, NEW K
    PROVE  TypedCall(NoCall, S, K)
<1>1. /\ IsCall(NoCall) /\ NoCall.op = "none" /\ NoCall.version = Unread /\ NoCall.decision = Bare
  BY NoCallFacts, IsCallFacts
<1>2. Known(Bare, S, K)
  BY UnreadFacts DEF Known
<1> QED
  BY <1>1, <1>2, UnreadFacts DEF TypedCall

Grown ==
    /\ clauses \subseteq clauses'
    /\ Judged(decision) \subseteq Judged(decision')

LEMMA WorkerKept ==
    ASSUME Typed, Grown, worker' = worker
    PROVE  TypedWorker(worker', clauses', Judged(decision'))
<1>1. TypedWorker(worker, clauses, Judged(decision))
  BY DEF Typed
<1> QED
  BY <1>1, FitsGrow, KnownGrow DEF TypedWorker, Grown

LEMMA CallsKept ==
    ASSUME Typed, Grown, calls' = calls
    PROVE  TypedCalls(calls', clauses', Judged(decision'))
<1>1. TypedCalls(calls, clauses, Judged(decision))
  BY DEF Typed
<1> QED
  BY <1>1, CallGrow DEF TypedCalls, Grown

LEMMA CallStep ==
    ASSUME Typed, Grown, NEW c \in Callers, NEW call,
           TypedCall(call, clauses', Judged(decision')), calls' = [calls EXCEPT ![c] = call]
    PROVE  TypedCalls(calls', clauses', Judged(decision'))
<1>1. calls = [d \in Callers |-> calls[d]]
      /\ \A d \in Callers : TypedCall(calls[d], clauses, Judged(decision))
  BY DEF Typed, TypedCalls
<1>2. calls' = [d \in Callers |-> IF d = c THEN call ELSE calls[d]]
  BY <1>1
<1>3. \A d \in Callers : TypedCall(calls[d], clauses', Judged(decision'))
  BY <1>1, CallGrow DEF Grown
<1> QED
  BY <1>2, <1>3 DEF TypedCalls

LEMMA DoneStep ==
    ASSUME Typed, Grown, NEW c \in Callers, Done(c)
    PROVE  TypedCalls(calls', clauses', Judged(decision'))
BY NoCallTyped, CallStep DEF Done

LEMMA RowsFacts ==
    ASSUME Typed
    PROVE  /\ Rows /\ clauses \in SUBSET Clauses
           /\ version \in VersionType /\ Fits(version, clauses)
           /\ decision \in DecisionType /\ Known(decision, clauses, clauses)
           /\ Judged(decision) \subseteq clauses
           /\ item \in ItemType /\ run \in RunStatuses
           /\ \A c \in Clauses : decision[c] = NoDecision => item[c] = "none"
           /\ target \in [Targets -> clauses \cup {None}] /\ reviewed \subseteq Targets
           /\ planned \in BOOLEAN
           /\ stage \in Stages /\ todo \subseteq clauses
BY DEF Typed, Rows, Known

LEMMA TheCallTyped ==
    ASSUME Typed, NEW c \in Callers
    PROVE  TypedCall(calls[c], clauses, Judged(decision))
BY DEF Typed, TypedCalls

LEMMA TypedStep ==
    ASSUME Rows', stage' \in Stages, todo' \subseteq clauses',
           TypedWorker(worker', clauses', Judged(decision')),
           TypedCalls(calls', clauses', Judged(decision'))
    PROVE  Typed'
BY DEF Typed

\* Decisions change to decisions about clauses of the run.
LEMMA DecisionStep ==
    ASSUME Typed, clauses \subseteq clauses', clauses' \in SUBSET Clauses,
           decision' \in DecisionType,
           \A c \in Clauses :
              \/ decision'[c] = decision[c]
              \/ /\ decision'[c] # NoDecision /\ c \in clauses'
                 /\ decision'[c].summary[2] \in clauses' \cup {0}
    PROVE  Grown /\ Known(decision', clauses', clauses')
BY RowsFacts DEF Grown, Known, Judged

LEMMA SameDecisions ==
    ASSUME Typed, clauses \subseteq clauses', decision' = decision
    PROVE  Grown /\ Known(decision', clauses', clauses')
<1>1. Known(decision, clauses, clauses)
  BY RowsFacts
<1>2. Known(decision, clauses', clauses')
  BY <1>1, KnownGrow
<1> QED
  BY <1>2 DEF Grown

LEMMA ItemStep ==
    ASSUME Typed, Grown, NEW D, NEW reset, item' = Checklist(D, reset),
           \A c \in Clauses : D[c] = NoDecision <=> decision'[c] = NoDecision
    PROVE  /\ item' \in ItemType
           /\ \A c \in Clauses : decision'[c] = NoDecision => item'[c] = "none"
<1>1. \A c \in Clauses : decision'[c] = NoDecision => decision[c] = NoDecision
  BY DEF Grown, Judged
<1> QED
  BY <1>1, RowsFacts, ChecklistFacts

LEMMA SameItems ==
    ASSUME Typed, Grown, item' = item
    PROVE  /\ item' \in ItemType
           /\ \A c \in Clauses : decision'[c] = NoDecision => item'[c] = "none"
<1>1. \A c \in Clauses : decision'[c] = NoDecision => decision[c] = NoDecision
  BY DEF Grown, Judged
<1> QED
  BY <1>1, RowsFacts

\* A step of the analysis or a request that leaves the relations alone.
LEMMA RowsStep ==
    ASSUME Typed, Grown, Known(decision', clauses', clauses'), clauses' \in SUBSET Clauses,
           version' = version, decision' \in DecisionType, item' \in ItemType,
           \A c \in Clauses : decision'[c] = NoDecision => item'[c] = "none",
           target' \in [Targets -> clauses' \cup {None}], reviewed' \subseteq Targets,
           planned' \in BOOLEAN, run' \in RunStatuses
    PROVE  Rows'
<1>1. Fits(version, clauses')
  BY RowsFacts, FitsGrow DEF Grown
<1> QED
  BY <1>1, RowsFacts DEF Rows

\* A step that changes what clauses replace or contradict.
LEMMA RelationsStep ==
    ASSUME Known(decision', clauses', clauses'), clauses' \in SUBSET Clauses,
           version' \in VersionType, Fits(version', clauses'),
           decision' \in DecisionType, item' \in ItemType,
           \A c \in Clauses : decision'[c] = NoDecision => item'[c] = "none",
           target' \in [Targets -> clauses' \cup {None}], reviewed' \subseteq Targets,
           planned' \in BOOLEAN, run' \in RunStatuses
    PROVE  Rows'
BY DEF Rows

\* Places are linked to clauses of the run.
LEMMA LinksFacts ==
    ASSUME NEW v, NEW f \in Links(v)
    PROVE  /\ f \in [Targets -> clauses \cup {None}]
           /\ \A t \in Targets : f[t] \in InForce(v) \cup {None}
BY DEF Links, InForce

(***************************************************************************)
(* The analysis keeps the types.                                           *)
(***************************************************************************)
LEMMA InitTyped ==
    ASSUME Init
    PROVE  Typed
<1>1. Clauses \subseteq Clauses /\ {} \in SUBSET Clauses
  OBVIOUS
<1>2. /\ Unread \in VersionType /\ Fits(Unread, {})
      /\ Bare \in DecisionType /\ Judged(Bare) = {}
  BY UnreadFacts
<1>3. Known(Bare, {}, {})
  BY <1>2 DEF Known
<1>4. Rows
  BY <1>2, <1>3 DEF Init, Rows, ItemType, RunStatuses
<1>5. TypedWorker(worker, clauses, Judged(decision))
  BY <1>2, <1>3 DEF Init, TypedWorker
<1>6. TypedCalls(calls, clauses, Judged(decision))
  BY NoCallTyped DEF Init, TypedCalls
<1>7. stage \in Stages /\ todo \subseteq clauses
  BY DEF Init, Stages
<1> QED
  BY <1>4, <1>5, <1>6, <1>7 DEF Typed

LEMMA BeginTyped ==
    ASSUME Typed, Begin
    PROVE  Typed'
<1> USE RowsFacts
<1>1. clauses' = clauses \cup Extracted /\ clauses' \in SUBSET Clauses
  BY ReviewAssumption DEF Begin
<1>2. decision' = decision /\ version' = version /\ target' = target /\ calls' = calls
  BY DEF Begin
<1>3. Grown /\ Known(decision', clauses', clauses')
  BY <1>1, <1>2, SameDecisions
<1>4. item' \in ItemType /\ \A c \in Clauses : decision'[c] = NoDecision => item'[c] = "none"
  BY <1>3, SameItems DEF Begin
<1>5. target' \in [Targets -> clauses' \cup {None}]
  BY <1>1, <1>2
<1>6. run' \in RunStatuses /\ reviewed' \subseteq Targets /\ planned' \in BOOLEAN
  BY DEF Begin, RunStatuses
<1>7. Rows'
  BY <1>1, <1>2, <1>3, <1>4, <1>5, <1>6, RowsStep
<1>8. TypedWorker(worker', clauses', Judged(decision'))
  <2>1. worker' = [version |-> version, decision |-> decision]
    BY DEF Begin
  <2>2. Fits(version, clauses') /\ Known(decision, clauses', Judged(decision'))
    BY <1>1, <1>2, FitsGrow DEF Known
  <2> QED
    BY <2>1, <2>2 DEF TypedWorker
<1>9. TypedCalls(calls', clauses', Judged(decision'))
  BY <1>2, <1>3, CallsKept
<1>10. stage' \in Stages /\ todo' \subseteq clauses'
  BY <1>1 DEF Begin, Stages
<1> QED
  BY <1>7, <1>8, <1>9, <1>10, TypedStep

LEMMA ResolveTyped ==
    ASSUME Typed, NEW c \in Clauses, Resolve(c)
    PROVE  Typed'
<1> USE RowsFacts
<1> DEFINE w == worker.version
<1>1. c \in clauses /\ Prior(c) \subseteq clauses \ {c}
  <2>1. c \in Amendments /\ c \in clauses
    BY DEF Resolve, IsFirst, Unsettled
  <2>2. c \in Nat
    BY ClausesFacts
  <2> QED
    BY <2>1, <2>2 DEF Prior
<1>2. PICK new \in [replaces : SUBSET Prior(c), conflicts : SUBSET Prior(c), settled : {TRUE}] :
          /\ version' = [version EXCEPT ![c] = new]
          /\ worker' = [worker EXCEPT !.version[c] = new]
  BY DEF Resolve
<1>3. /\ new \in [replaces : SUBSET clauses, conflicts : SUBSET clauses, settled : BOOLEAN]
      /\ c \notin new.replaces \cup new.conflicts
  BY <1>1
<1>4. TypedWorker(worker, clauses, Judged(decision))
  BY DEF Typed
<1>5. version' \in VersionType /\ Fits(version', clauses)
  BY <1>1, <1>2, <1>3, EditFits
<1>6. /\ worker' = [version |-> [w EXCEPT ![c] = new], decision |-> worker.decision]
  <2>1. worker = [version |-> w, decision |-> worker.decision]
    BY <1>4 DEF TypedWorker
  <2> QED
    BY <1>2, <2>1
<1>7. w \in VersionType /\ Fits(w, clauses)
  BY <1>4 DEF TypedWorker
<1> HIDE DEF w
<1>8. [w EXCEPT ![c] = new] \in VersionType /\ Fits([w EXCEPT ![c] = new], clauses)
  BY <1>1, <1>3, <1>7, EditFits
<1>9. /\ clauses' = clauses /\ decision' = decision /\ item' = item /\ target' = target
      /\ reviewed' = reviewed /\ planned' = planned /\ run' = run /\ calls' = calls
      /\ stage' = stage /\ todo' = todo
  BY DEF Resolve
<1>10. Grown
  BY <1>9 DEF Grown
<1>11. TypedWorker(worker', clauses', Judged(decision'))
  BY <1>4, <1>6, <1>8, <1>9 DEF TypedWorker
<1>12. Rows'
  BY <1>5, <1>9 DEF Rows
<1>13. TypedCalls(calls', clauses', Judged(decision'))
  BY <1>9, <1>10, CallsKept
<1> QED
  BY <1>9, <1>11, <1>12, <1>13, TypedStep

LEMMA BeginDecidingTyped ==
    ASSUME Typed, BeginDeciding
    PROVE  Typed'
<1> USE RowsFacts
<1>1. /\ clauses' = clauses /\ decision' = decision /\ calls' = calls /\ Rows'
  BY DEF BeginDeciding, rows, Rows
<1>2. Grown
  BY <1>1 DEF Grown
<1>3. stage' \in Stages /\ todo' \subseteq clauses'
  BY <1>1 DEF BeginDeciding, Stages
<1>4. TypedWorker(worker, clauses, Judged(decision))
  BY DEF Typed
<1>5. worker' = [version |-> worker.version, decision |-> decision]
  <2>1. worker = [version |-> worker.version, decision |-> worker.decision]
    BY <1>4 DEF TypedWorker
  <2> QED
    BY <2>1 DEF BeginDeciding
<1>6. TypedWorker(worker', clauses', Judged(decision'))
  BY <1>1, <1>4, <1>5 DEF TypedWorker, Known
<1>7. TypedCalls(calls', clauses', Judged(decision'))
  BY <1>1, <1>2, CallsKept
<1> QED
  BY <1>1, <1>3, <1>6, <1>7, TypedStep

LEMMA DecideTyped ==
    ASSUME Typed, NEW c \in Clauses, Decide(c)
    PROVE  Typed'
<1> USE RowsFacts
<1> DEFINE E == worker.decision
<1>1. PICK new \in Compared(worker.version, c) :
          /\ decision' = [decision EXCEPT ![c] = Written(E[c], new, decision[c])]
          /\ worker' = [worker EXCEPT !.decision[c] = new]
  BY DEF Decide
<1>2. /\ worker = [version |-> worker.version, decision |-> E]
      /\ worker.version \in VersionType /\ Fits(worker.version, clauses)
      /\ E \in DecisionType /\ Known(E, clauses, Judged(decision))
  BY DEF Typed, TypedWorker
<1>3. worker' = [version |-> worker.version, decision |-> [E EXCEPT ![c] = new]]
  BY <1>1, <1>2
<1> HIDE DEF E
<1>4. /\ new \in RowType /\ new # NoDecision
      /\ new.summary[2] \in clauses \cup {0}
  <2> DEFINE v == worker.version
             S == clauses
  <2>1. v \in VersionType /\ Fits(v, S) /\ S \in SUBSET Clauses /\ new \in Compared(v, c)
    BY <1>1, <1>2
  <2> HIDE DEF v, S
  <2>2. /\ new \in RowType /\ new # NoDecision
        /\ new.summary[2] \in S \cup {0}
    <3>1. c \in Clauses
      BY DEF Decide, IsFirst
    <3> QED
      <4>1. /\ new \in RowType /\ new # NoDecision /\ new.status \in Statuses /\ new.stale = FALSE
            /\ new.summary[2] \in S \cup {0}
            /\ new.summary[1] \in {"replaced", "conflict", "compared"}
        BY ONLY <2>1, <3>1, ComparedFacts
      <4> QED
        BY ONLY <4>1
  <2> QED
    BY <2>2 DEF S
<1>5. E[c] \in RowType /\ decision[c] \in RowType /\ (E[c] # NoDecision => decision[c] # NoDecision)
  BY <1>2 DEF DecisionType, Known, Judged
<1> DEFINE row == Written(E[c], new, decision[c])
<1>6. row \in RowType /\ row # NoDecision /\ row.summary \in {new.summary, decision[c].summary}
      /\ (E[c] = NoDecision => row.summary = new.summary)
  BY <1>4, <1>5, WrittenFacts
<1>7. row.summary[2] \in clauses \cup {0}
  BY <1>4, <1>5, <1>6 DEF Known, Judged
<1>8. c \in clauses
  BY DEF Decide, IsFirst
<1> HIDE DEF row
<1>9. decision' = [decision EXCEPT ![c] = row]
  BY <1>1 DEF row
<1>10. decision' \in DecisionType /\ \A k \in Clauses : decision'[k] = IF k = c THEN row ELSE decision[k]
  BY <1>6, <1>9 DEF DecisionType
<1>11. /\ clauses' = clauses /\ version' = version /\ item' = item /\ target' = target
       /\ reviewed' = reviewed /\ planned' = planned /\ run' = run /\ calls' = calls
       /\ stage' = stage /\ todo' = todo \ {c}
  BY DEF Decide
<1>12. Grown /\ Known(decision', clauses', clauses')
  BY <1>6, <1>7, <1>8, <1>10, <1>11, DecisionStep
<1>13. Rows'
  BY <1>10, <1>11, <1>12, SameItems, RowsStep
<1>14. TypedWorker(worker', clauses', Judged(decision'))
  <2>1. [E EXCEPT ![c] = new] \in DecisionType
        /\ \A k \in Clauses : [E EXCEPT ![c] = new][k] = IF k = c THEN new ELSE E[k]
    BY <1>2, <1>4 DEF DecisionType
  <2>2. Known(E, clauses', Judged(decision'))
    BY <1>2, <1>11, <1>12, KnownGrow DEF Grown
  <2>3. c \in Judged(decision')
    BY <1>6, <1>10 DEF Judged
  <2>4. Known([E EXCEPT ![c] = new], clauses', Judged(decision'))
    BY <1>4, <1>11, <2>1, <2>2, <2>3 DEF Known, Judged
  <2> QED
    BY <1>2, <1>3, <1>11, <2>1, <2>4 DEF TypedWorker
<1>15. TypedCalls(calls', clauses', Judged(decision'))
  BY <1>11, <1>12, CallsKept
<1> QED
  BY <1>11, <1>13, <1>14, <1>15, TypedStep

LEMMA PlanTyped ==
    ASSUME Typed, Plan
    PROVE  Typed'
<1> USE RowsFacts
<1>1. /\ clauses' = clauses /\ version' = version /\ item' = item /\ decision' = decision
      /\ run' = run /\ calls' = calls /\ worker' = worker /\ todo' = todo
      /\ stage' \in Stages /\ planned' \in BOOLEAN
  BY DEF Plan, Stages
<1>2. Grown /\ Known(decision', clauses', clauses')
  BY <1>1, SameDecisions
<1>3. target' \in [Targets -> clauses' \cup {None}] /\ reviewed' \subseteq Targets
  <2>1. CASE planned
    BY <1>1, <2>1 DEF Plan
  <2>2. CASE ~planned
    BY <1>1, <2>2, LinksFacts DEF Plan
  <2> QED
    BY <2>1, <2>2
<1>4. Rows'
  BY <1>1, <1>2, <1>3, SameItems, RowsStep
<1> QED
  BY <1>1, <1>2, <1>4, WorkerKept, CallsKept, TypedStep

LEMMA MarkStaleTyped ==
    ASSUME Typed, MarkStale, clauses' = clauses
    PROVE  /\ Grown /\ Known(decision', clauses', clauses') /\ decision' \in DecisionType
           /\ item' \in ItemType /\ \A c \in Clauses : decision'[c] = NoDecision => item'[c] = "none"
           /\ run' \in RunStatuses /\ reviewed' \subseteq Targets
<1> USE RowsFacts
<1>1. decision' = Stale /\ item' = Checklist(Stale, {}) /\ reviewed' = {}
  BY DEF MarkStale
<1>2. /\ decision' \in DecisionType
      /\ \A c \in Clauses : /\ decision'[c] = NoDecision <=> decision[c] = NoDecision
                            /\ decision'[c].summary = decision[c].summary
  BY <1>1, StaleFacts
<1>3. \A c \in Clauses :
        \/ decision'[c] = decision[c]
        \/ /\ decision'[c] # NoDecision /\ c \in clauses'
           /\ decision'[c].summary[2] \in clauses' \cup {0}
  BY <1>2 DEF Known, Judged
<1>4. Grown /\ Known(decision', clauses', clauses')
  BY <1>2, <1>3, DecisionStep
<1>5. run' \in RunStatuses
  BY DEF MarkStale, RunStatuses
<1> QED
  BY <1>1, <1>2, <1>4, <1>5, ItemStep

LEMMA FinishTyped ==
    ASSUME Typed, Finish
    PROVE  Typed'
<1> USE RowsFacts
<1>1. /\ clauses' = clauses /\ version' = version /\ target' = target /\ planned' = planned
      /\ calls' = calls /\ worker' = worker /\ todo' = todo /\ stage' \in Stages
  BY DEF Finish, Stages
<1>2. /\ Grown /\ Known(decision', clauses', clauses') /\ decision' \in DecisionType
      /\ item' \in ItemType /\ \A c \in Clauses : decision'[c] = NoDecision => item'[c] = "none"
      /\ run' \in RunStatuses /\ reviewed' \subseteq Targets
  <2>1. CASE MarkStale
    BY <1>1, <2>1, MarkStaleTyped
  <2>2. CASE /\ item' = Checklist(Seen(worker.decision), {})
             /\ run' = IF NothingOpen(item', reviewed) THEN "COMPLETED" ELSE "NEEDS_REVIEW"
             /\ UNCHANGED <<decision, reviewed>>
    <3>1. Grown /\ Known(decision', clauses', clauses')
      BY <1>1, <2>2, SameDecisions
    <3>2. worker.decision \in DecisionType /\ Known(worker.decision, clauses, Judged(decision))
      BY DEF Typed, TypedWorker
    <3>3. item' \in ItemType /\ \A c \in Clauses : decision'[c] = NoDecision => item'[c] = "none"
      BY <2>2, <3>1, <3>2, SeenFacts, ItemStep
    <3> QED
      BY <2>2, <3>1, <3>3 DEF RunStatuses
  <2> QED
    BY <2>1, <2>2 DEF Finish
<1>3. Rows'
  BY <1>1, <1>2, RowsStep
<1> QED
  BY <1>1, <1>2, <1>3, WorkerKept, CallsKept, TypedStep

LEMMA FailTyped ==
    ASSUME Typed, Fail
    PROVE  Typed'
<1> USE RowsFacts
<1>1. /\ clauses' = clauses /\ version' = version /\ target' = target /\ planned' = planned
      /\ calls' = calls /\ worker' = worker /\ todo' = todo /\ stage' \in Stages
      /\ decision' = decision /\ item' = item /\ reviewed' = reviewed /\ run' \in RunStatuses
  BY DEF Fail, Stages, RunStatuses
<1>2. Grown /\ Known(decision', clauses', clauses')
  BY <1>1, SameDecisions
<1>3. Rows'
  BY <1>1, <1>2, SameItems, RowsStep
<1> QED
  BY <1>1, <1>2, <1>3, WorkerKept, CallsKept, TypedStep

(***************************************************************************)
(* Requests keep the types, however many there are at once.                *)
(***************************************************************************)
LEMMA LoadTyped ==
    ASSUME Typed, NEW c \in Callers, NEW call, Load(c, call),
           TypedCall(call, clauses, Judged(decision))
    PROVE  Typed'
<1>1. /\ clauses' = clauses /\ version' = version /\ decision' = decision /\ item' = item
      /\ target' = target /\ reviewed' = reviewed /\ planned' = planned /\ run' = run
      /\ stage' = stage /\ worker' = worker /\ todo' = todo
      /\ calls' = [calls EXCEPT ![c] = call]
  BY DEF Load, rows, job
<1>2. Grown /\ Known(decision', clauses', clauses')
  BY <1>1, SameDecisions
<1>3. TypedCalls(calls', clauses', Judged(decision'))
  BY <1>1, <1>2, CallStep
<1>4. Rows'
  BY <1>1, <1>2, RowsFacts, SameItems, RowsStep
<1> QED
  BY <1>1, <1>2, <1>3, <1>4, RowsFacts, WorkerKept, TypedStep

\* A request that holds nothing but the run.
LEMMA PlainCallTyped ==
    ASSUME Typed, NEW op, NEW on, NEW ids, NEW verdict, NEW it, NEW call,
           call = TheCall(op, on, ids, verdict, it, Unread, Bare, run),
           op \in {"relation", "relink", "edit", "review", "tick"} => on \in clauses,
           op \notin {"relation", "recheck", "review", "ticked"},
           op = "fill" => ids \subseteq Targets,
           op = "tick" => verdict \in {"open", "done"} /\ on \in Judged(decision)
    PROVE  TypedCall(call, clauses, Judged(decision))
<1>1. /\ IsCall(call)
      /\ call.op = op /\ call.on = on /\ call.ids = ids /\ call.verdict = verdict
      /\ call.item = it /\ call.version = Unread /\ call.decision = Bare /\ call.run = run
  BY IsCallFacts
<1>2. Known(Bare, clauses, Judged(decision))
  BY UnreadFacts DEF Known
<1> QED
  BY <1>1, <1>2, UnreadFacts, RowsFacts DEF TypedCall

LEMMA RelationReadTyped ==
    ASSUME Typed, NEW c \in Callers, NEW r \in clauses, NEW ids \in SUBSET clauses,
           RelationRead(c, r, ids)
    PROVE  Typed'
<1> DEFINE call == [Call("relation", r) EXCEPT !.ids = ids, !.version = version]
<1>1. call = TheCall("relation", r, ids, "none", "none", version, Bare, run)
  BY RelationCall
<1>2. ids \subseteq clauses \ {r} /\ Load(c, call)
  BY DEF RelationRead
<1> HIDE DEF call
<1>3. /\ IsCall(call) /\ call.op = "relation" /\ call.on = r /\ call.ids = ids
      /\ call.version = version /\ call.decision = Bare /\ call.run = run
  BY <1>1, IsCallFacts
<1>4. Known(Bare, clauses, Judged(decision)) /\ Bare \in DecisionType
  BY UnreadFacts DEF Known
<1>5. TypedCall(call, clauses, Judged(decision))
  BY <1>2, <1>3, <1>4, RowsFacts DEF TypedCall
<1> QED
  BY <1>2, <1>5, LoadTyped

LEMMA EditReadTyped ==
    ASSUME Typed, NEW c \in Callers, NEW r \in clauses, NEW what, EditRead(c, r, what)
    PROVE  Typed'
<1> DEFINE call == [Call("edit", r) EXCEPT !.verdict = what]
<1>1. call = TheCall("edit", r, {}, what, "none", Unread, Bare, run)
  BY EditCall
<1>2. Load(c, call)
  BY DEF EditRead
<1> HIDE DEF call
<1>3. TypedCall(call, clauses, Judged(decision))
  BY <1>1, PlainCallTyped
<1> QED
  BY <1>2, <1>3, LoadTyped


LEMMA ReviewReadTyped ==
    ASSUME Typed, NEW c \in Callers, NEW r \in clauses, NEW status \in Statuses,
           ReviewRead(c, r, status)
    PROVE  Typed'
<1> DEFINE call == [Call("review", r) EXCEPT !.verdict = status, !.decision[r] = decision[r]]
           D == [Bare EXCEPT ![r] = decision[r]]
<1>1. call = TheCall("review", r, {}, status, "none", Unread, D, run)
  BY ReviewCall
<1>2. decision[r] # NoDecision /\ Load(c, call)
  BY DEF ReviewRead
<1> HIDE DEF call
<1>3. r \in Clauses /\ decision[r] \in RowType
  BY RowsFacts DEF DecisionType
<1>4. D \in DecisionType /\ \A k \in Clauses : D[k] = IF k = r THEN decision[r] ELSE NoDecision
  BY <1>3 DEF Bare, DecisionType, RowType
<1> HIDE DEF D
<1>5. /\ IsCall(call) /\ call.op = "review" /\ call.on = r /\ call.verdict = status
      /\ call.version = Unread /\ call.decision = D /\ call.run = run
  BY <1>1, IsCallFacts
<1>6. Judged(D) = {r} /\ D[r] = decision[r] /\ r \in Judged(decision)
  BY <1>2, <1>3, <1>4 DEF Judged
<1>7. Known(D, clauses, Judged(decision))
  BY <1>6, RowsFacts DEF Known
<1>8. TypedCall(call, clauses, Judged(decision))
  BY <1>2, <1>4, <1>5, <1>6, <1>7, UnreadFacts, RowsFacts DEF TypedCall
<1> QED
  BY <1>2, <1>8, LoadTyped

LEMMA TickReadTyped ==
    ASSUME Typed, NEW c \in Callers, NEW r \in clauses, NEW value \in {"open", "done"},
           TickRead(c, r, value)
    PROVE  Typed'
<1> DEFINE call == [Call("tick", r) EXCEPT !.verdict = value, !.item = item[r]]
<1>1. call = TheCall("tick", r, {}, value, item[r], Unread, Bare, run)
  BY TickCall
<1>2. item[r] # "none" /\ Load(c, call)
  BY DEF TickRead
<1> HIDE DEF call
<1>3. r \in Judged(decision)
  BY <1>2, RowsFacts DEF Judged
<1>4. TypedCall(call, clauses, Judged(decision))
  BY <1>1, <1>3, PlainCallTyped
<1> QED
  BY <1>2, <1>4, LoadTyped

LEMMA RecheckReadTyped ==
    ASSUME Typed, NEW c \in Callers, RecheckRead(c)
    PROVE  Typed'
<1> DEFINE call == [Call("recheck", 0) EXCEPT
                      !.ids = clauses, !.version = version, !.decision = decision]
<1>1. call = TheCall("recheck", 0, clauses, "none", "none", version, decision, run)
  BY RecheckCall
<1>2. Load(c, call)
  BY DEF RecheckRead
<1> HIDE DEF call
<1>3. /\ IsCall(call) /\ call.op = "recheck" /\ call.ids = clauses
      /\ call.version = version /\ call.decision = decision /\ call.run = run
  BY <1>1, IsCallFacts
<1>4. Known(decision, clauses, Judged(decision))
  BY RowsFacts DEF Known
<1>5. TypedCall(call, clauses, Judged(decision))
  BY <1>3, <1>4, RowsFacts DEF TypedCall
<1> QED
  BY <1>2, <1>5, LoadTyped

LEMMA OtherReadsTyped ==
    ASSUME Typed, NEW c \in Callers,
           \/ AddRead(c) \/ BuildRead(c) \/ RefreshRead(c) \/ ResumeRead(c)
           \/ \E t \in Targets : FillRead(c, t)
    PROVE  Typed'
<1>1. ASSUME NEW op \in {"add", "build", "refresh", "resume"}, Load(c, Call(op, 0))
      PROVE  Typed'
  <2>1. Call(op, 0) = TheCall(op, 0, {}, "none", "none", Unread, Bare, run)
    BY BareCall
  <2>2. TypedCall(Call(op, 0), clauses, Judged(decision))
    BY <2>1, PlainCallTyped
  <2> QED
    BY <1>1, <2>2, LoadTyped
<1>2. ASSUME NEW t \in Targets, FillRead(c, t)
      PROVE  Typed'
  <2> DEFINE call == [Call("fill", 0) EXCEPT !.ids = {t}]
  <2>1. call = TheCall("fill", 0, {t}, "none", "none", Unread, Bare, run)
    BY FillCall
  <2>2. Load(c, call)
    BY <1>2 DEF FillRead
  <2> HIDE DEF call
  <2>3. TypedCall(call, clauses, Judged(decision))
    BY <2>1, PlainCallTyped
  <2> QED
    BY <2>2, <2>3, LoadTyped
<1> QED
  BY <1>1, <1>2 DEF AddRead, BuildRead, RefreshRead, ResumeRead

LEMMA VerdictsFacts ==
    ASSUME NEW v \in VersionType, NEW S \in SUBSET Clauses, Fits(v, S), NEW K \in SUBSET S,
           NEW D \in Verdicts(v, K)
    PROVE  \A k \in K : /\ D[k] \in Compared(v, k)
                        /\ D[k] \in RowType /\ D[k] # NoDecision
                        /\ D[k].summary[2] \in S \cup {0}
<1>1. \A k \in K : D[k] \in Compared(v, k) /\ k \in Clauses
  BY DEF Verdicts
<1> QED
  BY <1>1, ComparedFacts

LEMMA AffectedFacts ==
    ASSUME NEW old \in VersionType, NEW new \in VersionType, NEW S \in SUBSET Clauses,
           Fits(old, S), Fits(new, S), NEW r \in S
    PROVE  Affected(old, new, r) \subseteq S
<1>1. \A k \in Clauses : Replacer(old, k) # 0 => k \in S
  BY VersionFacts, ReplacedFacts
<1>2. \A k \in Clauses : Replacer(new, k) # 0 => k \in S
  BY VersionFacts, ReplacedFacts
<1> QED
  BY <1>1, <1>2, VersionFacts DEF Affected

\* A request ends, or goes on to its next commit.
LEMMA RequestTyped ==
    ASSUME Typed, Grown, Rows', UNCHANGED job,
           TypedCalls(calls', clauses', Judged(decision'))
    PROVE  Typed'
<1>1. stage' = stage /\ worker' = worker /\ todo' = todo
  BY DEF job
<1>2. todo' \subseteq clauses' /\ stage' \in Stages
  BY <1>1, RowsFacts DEF Grown
<1> QED
  BY <1>1, <1>2, WorkerKept, TypedStep

LEMMA RelationCommitTyped ==
    ASSUME Typed, NEW c \in Callers, RelationCommit(c)
    PROVE  Typed'
<1> DEFINE call == calls[c]
           r == call.on
           v == call.version
           confirmed == [replaces |-> call.ids, conflicts |-> {}, settled |-> TRUE]
           new == [call.version EXCEPT ![r] = confirmed]
           affected == Affected(call.version, new, r)
           decided(D) == [k \in Clauses |-> IF k \in affected THEN D[k] ELSE decision[k]]
           status(D) == IF call.run = "STALE" THEN "STALE" ELSE DecidedRun(decided(D))
           next(D) == [call EXCEPT !.op = "relink", !.ids = affected, !.version = new,
                                   !.decision = decided(D), !.run = status(D)]
<1>1. /\ call.op = "relation" /\ version' = [version EXCEPT ![r] = confirmed]
      /\ UNCHANGED <<clauses, item, target, reviewed, planned, job, bounds>>
  BY DEF RelationCommit
<1>2. PICK D \in Verdicts(new, affected) :
          /\ decision' = decided(D)
          /\ run' = WrittenRun(call.run, status(D))
          /\ calls' = [calls EXCEPT ![c] = next(D)]
  BY DEF RelationCommit
<1>3. TypedCall(call, clauses, Judged(decision))
  BY TheCallTyped
<1>4. /\ IsCall(call) /\ v \in VersionType /\ Fits(v, clauses) /\ call.run \in RunStatuses
      /\ r \in clauses /\ call.ids \subseteq clauses \ {r}
  BY <1>1, <1>3 DEF TypedCall
<1>5. /\ clauses \in SUBSET Clauses /\ version \in VersionType /\ Fits(version, clauses)
      /\ decision \in DecisionType
  BY RowsFacts
<1>6. /\ confirmed \in [replaces : SUBSET clauses, conflicts : SUBSET clauses, settled : BOOLEAN]
      /\ r \notin confirmed.replaces \cup confirmed.conflicts
  BY <1>4
<1>7. next(D) = TheCall("relink", r, affected, call.verdict, call.item, new, decided(D), status(D))
  <2>1. next(D) = Relinked(call, affected, new, decided(D), status(D))
    BY DEF Relinked
  <2> DEFINE dd == decided(D)
             ss == status(D)
  <2>2. IsCall(call)
    BY <1>4
  <2> HIDE DEF call, affected, new, dd, ss
  <2>3. Relinked(call, affected, new, dd, ss)
            = TheCall("relink", call.on, affected, call.verdict, call.item, new, dd, ss)
    BY <2>2, RelinkCall
  <2> QED
    BY <2>1, <2>3 DEF dd, ss
<1> DEFINE S == clauses
           dec == decided(D)
           st == status(D)
           nx == next(D)
<1> HIDE DEF call, r, v, confirmed, S, dec, st, nx
<1>8. new \in VersionType /\ Fits(new, S)
  BY <1>4, <1>5, <1>6, EditFits DEF S, v
<1>9. version' \in VersionType /\ Fits(version', S)
  BY <1>1, <1>4, <1>5, <1>6, EditFits DEF S
<1> HIDE DEF new
<1>10. affected \subseteq S
  <2>1. v \in VersionType /\ Fits(v, S) /\ r \in S /\ S \in SUBSET Clauses
    BY <1>4, <1>5 DEF S
  <2>2. Affected(v, new, r) \subseteq S
    BY <1>8, <2>1, AffectedFacts
  <2> QED
    BY <2>2 DEF v
<1> HIDE DEF affected
<1>11. \A k \in affected : /\ D[k] \in RowType /\ D[k] # NoDecision
                           /\ D[k].summary[2] \in S \cup {0}
  <2>1. S \in SUBSET Clauses /\ affected \in SUBSET S
    BY <1>5, <1>10 DEF S
  <2>2. D \in Verdicts(new, affected)
    BY <1>2
  <2> QED
    BY <1>8, <2>1, <2>2, VerdictsFacts
<1>12. /\ dec \in DecisionType
       /\ \A k \in Clauses : dec[k] = IF k \in affected THEN D[k] ELSE decision[k]
  BY <1>5, <1>11 DEF dec, DecisionType
<1>13. /\ decision' = dec /\ clauses' = clauses /\ item' = item /\ target' = target
       /\ reviewed' = reviewed /\ planned' = planned /\ UNCHANGED job
       /\ run' = WrittenRun(call.run, st) /\ calls' = [calls EXCEPT ![c] = nx]
  BY <1>1, <1>2 DEF dec, st, nx
<1>14. Grown /\ Known(decision', clauses', clauses')
  BY <1>5, <1>10, <1>11, <1>12, <1>13, DecisionStep DEF S
<1>15. st \in RunStatuses /\ run' \in RunStatuses
  <2>1. st \in RunStatuses
    BY RowsFacts, StatusFacts DEF st, RunStatuses
  <2> QED
    BY <1>13, <2>1, RowsFacts, StatusFacts
<1>16. Rows'
  <2>1. item' \in ItemType /\ \A k \in Clauses : decision'[k] = NoDecision => item'[k] = "none"
    BY <1>13, <1>14, SameItems
  <2> QED
    BY <1>9, <1>12, <1>13, <1>14, <1>15, <2>1, RowsFacts DEF Rows, S
<1>17. TypedCall(nx, clauses', Judged(decision'))
  <2>1. nx = TheCall("relink", r, affected, call.verdict, call.item, new, dec, st)
    BY <1>7 DEF nx, dec, st
  <2>2. /\ IsCall(nx) /\ nx.op = "relink" /\ nx.on = r /\ nx.version = new
        /\ nx.decision = dec /\ nx.run = st
    BY <2>1, IsCallFacts
  <2>3. Known(dec, clauses', Judged(decision'))
    BY <1>13, <1>14 DEF Known
  <2> QED
    BY <1>4, <1>8, <1>12, <1>13, <1>15, <2>2, <2>3 DEF TypedCall, S
<1>18. TypedCalls(calls', clauses', Judged(decision'))
  BY <1>13, <1>14, <1>17, CallStep
<1> QED
  BY <1>13, <1>14, <1>16, <1>18, RequestTyped

LEMMA RelationFinishTyped ==
    ASSUME Typed, NEW c \in Callers, RelationFinish(c)
    PROVE  Typed'
<1> DEFINE call == calls[c]
           last(t) == IF target[t] = None THEN None ELSE Latest(call.version, target[t])
<1>1. /\ clauses' = clauses /\ version' = version /\ decision' = decision /\ planned' = planned
      /\ UNCHANGED job /\ Done(c) /\ reviewed' = {}
      /\ item' = Checklist(Seen(call.decision), call.ids)
      /\ run' = IF call.run = "COMPLETED" THEN "NEEDS_REVIEW" ELSE run
      /\ target' = [t \in Targets |->
                        IF last(t) \in InConflict(call.version) THEN None ELSE last(t)]
  BY DEF RelationFinish
<1>2. TypedCall(call, clauses, Judged(decision))
  BY TheCallTyped
<1>3. Grown /\ Known(decision', clauses', clauses')
  BY <1>1, SameDecisions
<1>4. item' \in ItemType /\ \A k \in Clauses : decision'[k] = NoDecision => item'[k] = "none"
  <2>1. call.decision \in DecisionType /\ Known(call.decision, clauses, Judged(decision))
    BY <1>2 DEF TypedCall
  <2> QED
    BY <1>1, <1>3, <2>1, RowsFacts, SeenFacts, ItemStep
<1>5. \A t \in Targets : last(t) \in clauses \cup {None}
  <2> SUFFICES ASSUME NEW t \in Targets, target[t] # None
               PROVE  Latest(call.version, target[t]) \in clauses
    OBVIOUS
  <2> DEFINE v == call.version
             S == clauses
             k == target[t]
  <2>1. v \in VersionType /\ Fits(v, S) /\ S \in SUBSET Clauses /\ k \in Clauses /\ k \in S
    BY <1>2, RowsFacts DEF TypedCall
  <2> HIDE DEF v, S, k
  <2>2. Latest(v, k) \in S
    BY <2>1, LatestFacts
  <2> QED
    BY <2>2 DEF v, S, k
<1>6. target' \in [Targets -> clauses' \cup {None}]
  BY <1>1, <1>5
<1>7. run' \in RunStatuses
  BY <1>1, RowsFacts DEF RunStatuses
<1>8. Rows'
  BY <1>1, <1>3, <1>4, <1>6, <1>7, RowsFacts, RowsStep
<1> QED
  BY <1>1, <1>3, <1>8, DoneStep, RequestTyped

LEMMA EditCommitTyped ==
    ASSUME Typed, NEW c \in Callers, EditCommit(c)
    PROVE  Typed'
<1> DEFINE r == calls[c].on
           row == [Verdict("NEEDS_REVIEW", "edited") EXCEPT !.stale = TRUE]
<1>1. /\ clauses' = clauses /\ target' = target /\ planned' = planned
      /\ UNCHANGED job /\ Done(c) /\ reviewed' = {}
      /\ item' = Checklist(decision', {r})
      /\ run' = IF calls[c].run = "COMPLETED" THEN "NEEDS_REVIEW" ELSE run
      /\ decision' = IF decision[r] = NoDecision THEN decision
                     ELSE [decision EXCEPT ![r] = row]
      /\ calls[c].op = "edit"
  BY DEF EditCommit
<1>2. r \in clauses
  BY <1>1, TheCallTyped DEF TypedCall
<1>3. row \in RowType /\ row # NoDecision /\ row.summary = <<"edited", 0>>
  BY DEF Verdict, RowType, NoDecision, Statuses, Why
<1> HIDE DEF row, r
<1>4. decision' \in DecisionType
      /\ \A k \in Clauses : decision'[k] \in {decision[k], row} /\ (decision'[k] # decision[k] => k = r)
  BY <1>1, <1>2, <1>3, RowsFacts DEF DecisionType
<1>5. Grown /\ Known(decision', clauses', clauses')
  <2>1. \A k \in Clauses :
          \/ decision'[k] = decision[k]
          \/ /\ decision'[k] # NoDecision /\ k \in clauses'
             /\ decision'[k].summary[2] \in clauses' \cup {0}
    BY <1>1, <1>2, <1>3, <1>4
  <2> QED
    BY <1>1, <1>4, <2>1, RowsFacts, DecisionStep
<1>6. item' \in ItemType /\ \A k \in Clauses : decision'[k] = NoDecision => item'[k] = "none"
  BY <1>1, <1>5, ItemStep
<1>7. run' \in RunStatuses
  BY <1>1, RowsFacts DEF RunStatuses
<1>9. version' \in VersionType /\ Fits(version', clauses')
  <2>1. PICK new : /\ new \in Stripped(version[r]) \/ new = version[r]
                   /\ version' = [version EXCEPT ![r] = new]
    BY DEF EditCommit, r
  <2>2. /\ new \in [replaces : SUBSET clauses, conflicts : SUBSET clauses, settled : BOOLEAN]
        /\ r \notin new.replaces \cup new.conflicts
    BY <1>2, <2>1, RowsFacts, StrippedFacts
  <2> QED
    BY <1>1, <1>2, <2>1, <2>2, RowsFacts, EditFits
<1>8. Rows'
  BY <1>1, <1>4, <1>5, <1>6, <1>7, <1>9, RowsFacts, RelationsStep
<1> QED
  BY <1>1, <1>5, <1>8, DoneStep, RequestTyped

LEMMA ReviewCommitTyped ==
    ASSUME Typed, NEW c \in Callers, ReviewCommit(c)
    PROVE  Typed'
<1> DEFINE call == calls[c]
           r == call.on
           E == call.decision
           new == Verdict(call.verdict, "human")
           row == Written(E[r], new, decision[r])
<1>1. /\ clauses' = clauses /\ version' = version /\ target' = target /\ planned' = planned
      /\ UNCHANGED job /\ Done(c) /\ reviewed' = reviewed
      /\ item' = Checklist([decision EXCEPT ![r] = new], {r})
      /\ run' = WrittenRun(call.run, Ready(call.run, item', reviewed))
      /\ decision' = [decision EXCEPT ![r] = row]
      /\ call.op = "review"
  BY DEF ReviewCommit
<1>2. /\ r \in clauses /\ call.verdict \in Statuses /\ E[r] # NoDecision /\ call.run \in RunStatuses
      /\ E \in DecisionType /\ Known(E, clauses, Judged(decision))
  BY <1>1, TheCallTyped DEF TypedCall
<1>3. new \in RowType /\ new # NoDecision /\ new.summary = <<"human", 0>>
  BY <1>2, VerdictFacts DEF Why
<1>4. r \in Clauses /\ E[r] \in RowType /\ decision[r] \in RowType /\ decision[r] # NoDecision
      /\ decision[r].summary[2] \in clauses \cup {0}
  BY <1>2, RowsFacts DEF DecisionType, Known, Judged
<1> HIDE DEF call, r, E, new
<1>5. row \in RowType /\ row # NoDecision /\ row.summary \in {new.summary, decision[r].summary}
  <2> DEFINE loaded == E[r]
             stored == decision[r]
  <2>1. loaded \in RowType /\ stored \in RowType /\ stored # NoDecision
    BY <1>4
  <2> HIDE DEF loaded, stored
  <2>2. /\ Written(loaded, new, stored) \in RowType /\ Written(loaded, new, stored) # NoDecision
        /\ Written(loaded, new, stored).summary \in {new.summary, stored.summary}
    BY <1>3, <2>1, WrittenFacts
  <2> QED
    BY <2>2 DEF loaded, stored
<1>6. row.summary[2] \in clauses \cup {0}
  BY <1>3, <1>4, <1>5
<1> HIDE DEF row
<1>7. decision' \in DecisionType
      /\ \A k \in Clauses : decision'[k] = IF k = r THEN row ELSE decision[k]
  BY <1>1, <1>5, RowsFacts DEF DecisionType
<1>8. Grown /\ Known(decision', clauses', clauses')
  <2>1. \A k \in Clauses :
          \/ decision'[k] = decision[k]
          \/ /\ decision'[k] # NoDecision /\ k \in clauses'
             /\ decision'[k].summary[2] \in clauses' \cup {0}
    BY <1>1, <1>2, <1>5, <1>6, <1>7
  <2> QED
    BY <1>1, <1>7, <2>1, RowsFacts, DecisionStep
<1>9. item' \in ItemType /\ \A k \in Clauses : decision'[k] = NoDecision => item'[k] = "none"
  <2>1. \A k \in Clauses : [decision EXCEPT ![r] = new][k] = IF k = r THEN new ELSE decision[k]
    BY RowsFacts DEF DecisionType
  <2>2. \A k \in Clauses : [decision EXCEPT ![r] = new][k] = NoDecision <=> decision'[k] = NoDecision
    BY <1>3, <1>5, <1>7, <2>1
  <2> QED
    BY <1>1, <1>8, <2>2, ItemStep
<1>10. run' \in RunStatuses
  BY <1>1, <1>2, RowsFacts, StatusFacts
<1>11. Rows'
  BY <1>1, <1>7, <1>8, <1>9, <1>10, RowsFacts, RowsStep
<1> QED
  BY <1>1, <1>8, <1>11, DoneStep, RequestTyped

LEMMA TickCommitTyped ==
    ASSUME Typed, NEW c \in Callers, TickCommit(c)
    PROVE  Typed'
<1> DEFINE call == calls[c]
           value == Ready(call.run, item', reviewed)
           next == Ticked(call, value)
<1>1. /\ clauses' = clauses /\ version' = version /\ decision' = decision /\ target' = target
      /\ reviewed' = reviewed /\ planned' = planned /\ run' = run /\ UNCHANGED job
      /\ call.op = "tick"
      /\ item' = IF call.verdict = call.item THEN item
                 ELSE [item EXCEPT ![call.on] = call.verdict]
      /\ calls' = [calls EXCEPT ![c] = next]
  BY DEF TickCommit, Ticked
<1>2. TypedCall(call, clauses, Judged(decision))
  BY TheCallTyped
<1>3. /\ IsCall(call) /\ call.run \in RunStatuses /\ call.verdict \in {"open", "done"}
      /\ call.on \in Judged(decision)
  BY <1>1, <1>2 DEF TypedCall
<1>4. Grown /\ Known(decision', clauses', clauses')
  BY <1>1, SameDecisions
<1>5. item' \in ItemType /\ \A k \in Clauses : decision'[k] = NoDecision => item'[k] = "none"
  BY <1>1, <1>3, RowsFacts DEF ItemType, Judged
<1>6. value \in RunStatuses
  BY <1>3, RowsFacts, StatusFacts
<1>7. Rows'
  BY <1>1, <1>4, <1>5, RowsFacts, RowsStep
<1> HIDE DEF call, value
<1>8. next = TheCall("ticked", call.on, call.ids, value, call.item, call.version,
                     call.decision, call.run)
  BY <1>3, TickedCall
<1> HIDE DEF next
<1>9. /\ IsCall(next) /\ next.op = "ticked" /\ next.verdict = value
      /\ next.version = call.version /\ next.decision = call.decision /\ next.run = call.run
  BY <1>8, IsCallFacts
<1>10. TypedCall(call, clauses', Judged(decision'))
  BY <1>2, <1>4, CallGrow DEF Grown
<1>11. TypedCall(next, clauses', Judged(decision'))
  BY <1>3, <1>6, <1>9, <1>10 DEF TypedCall
<1> QED
  BY <1>1, <1>4, <1>7, <1>11, CallStep, RequestTyped

LEMMA TickFinishTyped ==
    ASSUME Typed, NEW c \in Callers, TickFinish(c)
    PROVE  Typed'
<1>1. /\ clauses' = clauses /\ version' = version /\ decision' = decision /\ target' = target
      /\ reviewed' = reviewed /\ planned' = planned /\ item' = item /\ UNCHANGED job
      /\ run' = WrittenRun(calls[c].run, calls[c].verdict) /\ Done(c) /\ calls[c].op = "ticked"
  BY DEF TickFinish
<1>2. calls[c].verdict \in RunStatuses
  BY <1>1, TheCallTyped DEF TypedCall
<1>3. Grown /\ Known(decision', clauses', clauses')
  BY <1>1, SameDecisions
<1>4. run' \in RunStatuses
  BY <1>1, <1>2, RowsFacts, StatusFacts
<1>5. Rows'
  BY <1>1, <1>3, <1>4, RowsFacts, SameItems, RowsStep
<1> QED
  BY <1>1, <1>3, <1>5, DoneStep, RequestTyped

LEMMA RecheckCommitTyped ==
    ASSUME Typed, NEW c \in Callers, RecheckCommit(c)
    PROVE  Typed'
<1> DEFINE call == calls[c]
           E == call.decision
           K == call.ids
           v == call.version
           S == clauses
           decided(D) == [k \in Clauses |-> IF k \in K THEN D[k] ELSE E[k]]
           status(D) == DecidedRun(decided(D))
           next(D) == Rechecked(call, decided(D), status(D))
           saved(D) == [k \in Clauses |-> IF k \in K THEN Written(E[k], D[k], decision[k])
                                          ELSE decision[k]]
<1>1. /\ call.op = "recheck"
      /\ clauses' = clauses /\ version' = version /\ item' = item /\ target' = target
      /\ reviewed' = reviewed /\ planned' = planned /\ UNCHANGED job
  BY DEF RecheckCommit
<1>2. PICK D \in Verdicts(v, K) :
          /\ decision' = saved(D)
          /\ run' = WrittenRun(call.run, status(D))
          /\ calls' = [calls EXCEPT ![c] = next(D)]
  BY DEF RecheckCommit, Rechecked
<1>3. TypedCall(call, clauses, Judged(decision))
  BY TheCallTyped
<1>4. /\ IsCall(call) /\ v \in VersionType /\ Fits(v, S) /\ call.run \in RunStatuses
      /\ K \in SUBSET S /\ E \in DecisionType /\ Known(E, S, Judged(decision))
  BY <1>1, <1>3 DEF TypedCall
<1>5. S \in SUBSET Clauses /\ decision \in DecisionType /\ Known(decision, S, S)
  BY RowsFacts
<1> DEFINE dec == decided(D)
           st == status(D)
           nx == next(D)
<1>6. /\ dec = [k \in Clauses |-> IF k \in K THEN D[k] ELSE E[k]]
      /\ nx = Rechecked(call, dec, st)
      /\ st = DecidedRun(dec)
  OBVIOUS
<1>7. /\ decision' = [k \in Clauses |-> IF k \in K THEN Written(E[k], D[k], decision[k])
                                        ELSE decision[k]]
      /\ run' = WrittenRun(call.run, st) /\ calls' = [calls EXCEPT ![c] = nx]
      /\ D \in Verdicts(v, K)
  BY <1>2
<1>8. clauses' = S
  BY <1>1
<1> HIDE DEF call, E, K, v, S, dec, st, nx
<1>9. \A k \in K : /\ D[k] \in RowType /\ D[k] # NoDecision
                   /\ D[k].summary[2] \in S \cup {0}
  BY <1>4, <1>5, <1>7, VerdictsFacts
<1>10. \A k \in Clauses : /\ E[k] \in RowType /\ decision[k] \in RowType
                          /\ E[k] # NoDecision => decision[k] # NoDecision
                          /\ decision[k] # NoDecision => decision[k].summary[2] \in S \cup {0}
  BY <1>4, <1>5 DEF DecisionType, Known, Judged
<1>11. ASSUME NEW k \in K
       PROVE  /\ decision'[k] \in RowType /\ decision'[k] # NoDecision
              /\ decision'[k].summary[2] \in S \cup {0}
  <2> DEFINE loaded == E[k]
             new == D[k]
             stored == decision[k]
  <2>1. k \in Clauses /\ decision'[k] = Written(loaded, new, stored)
    BY <1>4, <1>5, <1>7
  <2>2. /\ loaded \in RowType /\ stored \in RowType /\ new \in RowType /\ new # NoDecision
        /\ loaded # NoDecision => stored # NoDecision
        /\ new.summary[2] \in S \cup {0}
        /\ stored # NoDecision => stored.summary[2] \in S \cup {0}
    BY <1>9, <1>10, <2>1
  <2> HIDE DEF loaded, new, stored
  <2>3. /\ Written(loaded, new, stored) \in RowType
        /\ Written(loaded, new, stored) # NoDecision
        /\ Written(loaded, new, stored).summary \in {new.summary, stored.summary}
        /\ loaded = NoDecision => Written(loaded, new, stored).summary = new.summary
    BY <2>2, WrittenFacts
  <2>4. Written(loaded, new, stored).summary[2] \in S \cup {0}
    BY <2>2, <2>3
  <2> QED
    BY <2>1, <2>3, <2>4
<1>12. decision' \in DecisionType /\ \A k \in Clauses \ K : decision'[k] = decision[k]
  <2>1. \A k \in Clauses : decision'[k] \in RowType /\ (k \notin K => decision'[k] = decision[k])
    BY <1>7, <1>10, <1>11
  <2> QED
    BY <1>7, <2>1 DEF DecisionType
<1>13. Grown /\ Known(decision', clauses', clauses')
  <2>1. \A k \in Clauses :
          \/ decision'[k] = decision[k]
          \/ /\ decision'[k] # NoDecision /\ k \in clauses'
             /\ decision'[k].summary[2] \in clauses' \cup {0}
    BY <1>4, <1>8, <1>11, <1>12
  <2> QED
    BY <1>1, <1>5, <1>8, <1>12, <2>1, DecisionStep
<1>14. st \in RunStatuses /\ run' \in RunStatuses
  <2>1. st \in RunStatuses
    BY <1>6, RowsFacts, StatusFacts DEF RunStatuses
  <2> QED
    BY <1>7, <2>1, RowsFacts, StatusFacts
<1>15. Rows'
  BY <1>1, <1>12, <1>13, <1>14, RowsFacts, SameItems, RowsStep
<1>16. TypedCall(nx, clauses', Judged(decision'))
  <2>1. nx = TheCall("rechecked", call.on, call.ids, call.verdict, call.item, call.version, dec, st)
    BY <1>4, <1>6, RecheckedCall
  <2>2. /\ IsCall(nx) /\ nx.op = "rechecked" /\ nx.version = call.version
        /\ nx.decision = dec /\ nx.run = st
    BY <2>1, IsCallFacts
  <2>3. \A k \in Clauses : /\ dec[k] = IF k \in K THEN D[k] ELSE E[k]
                           /\ dec[k] \in RowType
                           /\ dec[k] # NoDecision => dec[k].summary[2] \in S \cup {0}
                           /\ dec[k] # NoDecision => decision'[k] # NoDecision
    <3>1. \A k \in Clauses : E[k] # NoDecision => E[k].summary[2] \in S \cup {0}
      BY <1>4 DEF Known, Judged
    <3>2. \A k \in Clauses : dec[k] = IF k \in K THEN D[k] ELSE E[k]
      BY <1>6
    <3> QED
      BY <1>9, <1>10, <1>11, <1>12, <3>1, <3>2
  <2>4. dec \in DecisionType
    BY <1>6, <2>3 DEF DecisionType
  <2>5. Known(dec, clauses', Judged(decision'))
    BY <1>8, <2>3 DEF Known, Judged
  <2>6. v = call.version
    BY DEF v
  <2> QED
    BY <1>4, <1>8, <1>14, <2>2, <2>4, <2>5, <2>6 DEF TypedCall
<1>17. TypedCalls(calls', clauses', Judged(decision'))
  BY <1>7, <1>13, <1>16, CallStep
<1> QED
  BY <1>1, <1>13, <1>15, <1>17, RequestTyped

LEMMA RecheckFinishTyped ==
    ASSUME Typed, NEW c \in Callers, RecheckFinish(c)
    PROVE  Typed'
<1> DEFINE call == calls[c]
<1>1. /\ clauses' = clauses /\ version' = version /\ decision' = decision /\ planned' = planned
      /\ target' = target /\ reviewed' = reviewed /\ UNCHANGED job /\ Done(c)
      /\ item' = Checklist(Seen(call.decision), clauses)
      /\ run' = WrittenRun(call.run, Ready(call.run, item', reviewed))
      /\ call.op = "rechecked"
  BY DEF RecheckFinish
<1>2. TypedCall(call, clauses, Judged(decision))
  BY TheCallTyped
<1>3. Grown /\ Known(decision', clauses', clauses')
  BY <1>1, SameDecisions
<1>4. item' \in ItemType /\ \A k \in Clauses : decision'[k] = NoDecision => item'[k] = "none"
  <2>1. call.decision \in DecisionType /\ Known(call.decision, clauses, Judged(decision))
    BY <1>2 DEF TypedCall
  <2> QED
    BY <1>1, <1>3, <2>1, RowsFacts, SeenFacts, ItemStep
<1>5. run' \in RunStatuses
  BY <1>1, <1>2, RowsFacts, StatusFacts DEF TypedCall
<1>6. Rows'
  BY <1>1, <1>3, <1>4, <1>5, RowsFacts, RowsStep
<1> QED
  BY <1>1, <1>3, <1>6, DoneStep, RequestTyped

\* The clause a person adds.
LEMMA NewClause ==
    ASSUME NEW S \in SUBSET Clauses, S # {}
    PROVE  Min(S) \in S
<1>1. S \in SUBSET Nat
  BY ClausesFacts
<1> QED
  BY <1>1, LeastNat DEF Min

LEMMA AddCommitTyped ==
    ASSUME Typed, NEW c \in Callers, AddCommit(c)
    PROVE  Typed'
<1> DEFINE new == Clauses \ (clauses \cup Extracted)
           k == Min(new)
           row == Verdict("NEEDS_REVIEW", "added")
<1>1. /\ new # {} /\ clauses' = clauses \cup {k}
      /\ decision' = [decision EXCEPT ![k] = row]
      /\ item' = Checklist(decision', {})
      /\ run' = IF calls[c].run = "STALE" THEN run ELSE WrittenRun(calls[c].run, "NEEDS_REVIEW")
      /\ Done(c)
      /\ version' = version /\ target' = target /\ reviewed' = reviewed /\ planned' = planned
      /\ UNCHANGED job
  BY DEF AddCommit
<1>2. k \in Clauses /\ k \notin clauses
  <2>1. new \in SUBSET Clauses
    OBVIOUS
  <2>2. k \in new
    BY <1>1, <2>1, NewClause
  <2> QED
    BY <2>2
<1>3. row \in RowType /\ row # NoDecision /\ row.summary = <<"added", 0>>
  BY VerdictFacts DEF Why, Statuses
<1> HIDE DEF new, k, row
<1>4. clauses' \in SUBSET Clauses /\ clauses \subseteq clauses' /\ k \in clauses'
  BY <1>1, <1>2, RowsFacts
<1>5. decision' \in DecisionType
      /\ \A d \in Clauses : decision'[d] = IF d = k THEN row ELSE decision[d]
  BY <1>1, <1>2, <1>3, RowsFacts DEF DecisionType
<1>6. Grown /\ Known(decision', clauses', clauses')
  <2>1. row.summary[2] \in clauses' \cup {0}
    BY <1>3
  <2> QED
    BY <1>3, <1>4, <1>5, <2>1, DecisionStep
<1>7. item' \in ItemType /\ \A d \in Clauses : decision'[d] = NoDecision => item'[d] = "none"
  BY <1>1, <1>6, ItemStep
<1>8. run' \in RunStatuses
  BY <1>1, RowsFacts DEF RunStatuses, WrittenRun
<1>9. target' \in [Targets -> clauses' \cup {None}]
  BY <1>1, <1>4, RowsFacts
<1>10. Rows'
  BY <1>1, <1>4, <1>5, <1>6, <1>7, <1>8, <1>9, RowsFacts, RowsStep
<1> QED
  BY <1>1, <1>6, <1>10, DoneStep, RequestTyped

LEMMA FillCommitTyped ==
    ASSUME Typed, NEW c \in Callers, FillCommit(c)
    PROVE  Typed'
<1>1. /\ clauses' = clauses /\ version' = version /\ decision' = decision /\ target' = target
      /\ planned' = planned /\ UNCHANGED job
      /\ reviewed' \in {reviewed \cup calls[c].ids, reviewed \ calls[c].ids}
      /\ item' = Checklist(decision, {})
      /\ run' = WrittenRun(calls[c].run, Ready(calls[c].run, item', reviewed'))
      /\ Done(c) /\ calls[c].op = "fill"
  BY DEF FillCommit
<1>2. calls[c].run \in RunStatuses /\ calls[c].ids \subseteq Targets
  BY <1>1, TheCallTyped DEF TypedCall
<1>3. Grown /\ Known(decision', clauses', clauses')
  BY <1>1, SameDecisions
<1>4. item' \in ItemType /\ \A k \in Clauses : decision'[k] = NoDecision => item'[k] = "none"
  BY <1>1, <1>3, ItemStep
<1>5. run' \in RunStatuses /\ reviewed' \subseteq Targets
  BY <1>1, <1>2, RowsFacts, StatusFacts
<1>6. Rows'
  BY <1>1, <1>3, <1>4, <1>5, RowsFacts, RowsStep
<1> QED
  BY <1>1, <1>3, <1>6, DoneStep, RequestTyped

LEMMA BuildCommitTyped ==
    ASSUME Typed, NEW c \in Callers, BuildCommit(c)
    PROVE  Typed'
<1>1. /\ clauses' = clauses /\ version' = version /\ decision' = decision
      /\ target' \in Links(version) /\ planned' = TRUE /\ UNCHANGED job
      /\ reviewed' = IF planned THEN reviewed ELSE {}
      /\ item' = Checklist(decision, {})
      /\ Done(c) /\ calls[c].op = "build"
  BY DEF BuildCommit
<1>2. PICK status \in {calls[c].run} : run' = WrittenRun(status, Ready(status, item, reviewed)')
  BY DEF BuildCommit
<1>3. status \in RunStatuses
  BY <1>1, <1>2, TheCallTyped DEF TypedCall
<1>4. Grown /\ Known(decision', clauses', clauses')
  BY <1>1, SameDecisions
<1>5. item' \in ItemType /\ \A k \in Clauses : decision'[k] = NoDecision => item'[k] = "none"
  BY <1>1, <1>4, ItemStep
<1>6. run' \in RunStatuses
  BY <1>2, <1>3, RowsFacts DEF RunStatuses, Ready, WrittenRun
<1>7. target' \in [Targets -> clauses' \cup {None}] /\ reviewed' \subseteq Targets
  BY <1>1, LinksFacts, RowsFacts
<1>8. Rows'
  BY <1>1, <1>4, <1>5, <1>6, <1>7, RowsFacts, RowsStep
<1> QED
  BY <1>1, <1>4, <1>8, DoneStep, RequestTyped

LEMMA RefreshCommitTyped ==
    ASSUME Typed, NEW c \in Callers, RefreshCommit(c)
    PROVE  Typed'
<1>1. /\ clauses' = clauses /\ version' = version /\ decision' = decision /\ target' = target
      /\ reviewed' = reviewed /\ planned' = planned /\ UNCHANGED job
      /\ item' = Checklist(decision, {})
      /\ run' = WrittenRun(calls[c].run, Ready(calls[c].run, item', reviewed))
      /\ Done(c) /\ calls[c].op = "refresh"
  BY DEF RefreshCommit
<1>2. calls[c].run \in RunStatuses
  BY <1>1, TheCallTyped DEF TypedCall
<1>3. Grown /\ Known(decision', clauses', clauses')
  BY <1>1, SameDecisions
<1>4. item' \in ItemType /\ \A k \in Clauses : decision'[k] = NoDecision => item'[k] = "none"
  BY <1>1, <1>3, ItemStep
<1>5. run' \in RunStatuses
  BY <1>1, <1>2, RowsFacts, StatusFacts
<1>6. Rows'
  BY <1>1, <1>3, <1>4, <1>5, RowsFacts, RowsStep
<1> QED
  BY <1>1, <1>3, <1>6, DoneStep, RequestTyped

LEMMA ResumeCommitTyped ==
    ASSUME Typed, NEW c \in Callers, ResumeCommit(c)
    PROVE  Typed'
<1>1. /\ clauses' = clauses /\ version' = version /\ decision' = decision /\ target' = target
      /\ reviewed' = reviewed /\ planned' = planned /\ item' = item
      /\ worker' = worker /\ todo' = todo
      /\ run' \in RunStatuses /\ stage' \in Stages /\ Done(c)
  BY DEF ResumeCommit, RunStatuses, Stages
<1>2. Grown /\ Known(decision', clauses', clauses')
  BY <1>1, SameDecisions
<1>3. Rows'
  BY <1>1, <1>2, RowsFacts, SameItems, RowsStep
<1> QED
  BY <1>1, <1>2, <1>3, RowsFacts, WorkerKept, DoneStep, TypedStep

LEMMA InputEditTyped ==
    ASSUME Typed, NEW c \in Callers, InputEdit(c)
    PROVE  Typed'
<1>1. /\ clauses' = clauses /\ version' = version /\ target' = target /\ planned' = planned
      /\ calls' = calls /\ UNCHANGED job /\ MarkStale
  BY DEF InputEdit
<1>2. /\ Grown /\ Known(decision', clauses', clauses') /\ decision' \in DecisionType
      /\ item' \in ItemType /\ \A k \in Clauses : decision'[k] = NoDecision => item'[k] = "none"
      /\ run' \in RunStatuses /\ reviewed' \subseteq Targets
  BY <1>1, MarkStaleTyped
<1>3. Rows'
  BY <1>1, <1>2, RowsFacts, RowsStep
<1> QED
  BY <1>1, <1>2, <1>3, CallsKept, RequestTyped

LEMMA StutterTyped ==
    ASSUME Typed, UNCHANGED vars
    PROVE  Typed'
<1>1. /\ clauses' = clauses /\ version' = version /\ decision' = decision /\ target' = target
      /\ reviewed' = reviewed /\ planned' = planned /\ item' = item /\ run' = run
      /\ calls' = calls /\ UNCHANGED job
  BY DEF vars, rows
<1>2. Grown /\ Known(decision', clauses', clauses')
  BY <1>1, SameDecisions
<1>3. Rows'
  BY <1>1, <1>2, RowsFacts, SameItems, RowsStep
<1> QED
  BY <1>1, <1>2, <1>3, CallsKept, RequestTyped

LEMMA NextTyped ==
    ASSUME Typed, [Next]_vars
    PROVE  Typed'
<1>1. CASE Analysis
  BY <1>1, BeginTyped, ResolveTyped, BeginDecidingTyped, DecideTyped, PlanTyped, FinishTyped,
     FailTyped DEF Analysis
<1>2. ASSUME NEW c \in Callers, Request(c) PROVE Typed'
  <2>1. ASSUME NEW r \in clauses,
               \/ \E ids \in SUBSET clauses : RelationRead(c, r, ids)
               \/ \E what \in {"text", "condition"} : EditRead(c, r, what)
               \/ \E status \in Statuses : ReviewRead(c, r, status)
               \/ \E value \in {"open", "done"} : TickRead(c, r, value)
        PROVE  Typed'
    BY <2>1, RelationReadTyped, EditReadTyped, ReviewReadTyped, TickReadTyped
  <2>2. CASE \/ AddRead(c) \/ BuildRead(c) \/ RefreshRead(c) \/ ResumeRead(c)
            \/ \E t \in Targets : FillRead(c, t)
    BY <2>2, OtherReadsTyped
  <2>3. CASE RelationCommit(c) \/ RelationFinish(c) \/ EditCommit(c) \/ ReviewCommit(c)
    BY <2>3, RelationCommitTyped, RelationFinishTyped, EditCommitTyped, ReviewCommitTyped
  <2>4. CASE TickCommit(c) \/ TickFinish(c) \/ RecheckRead(c) \/ RecheckCommit(c)
             \/ RecheckFinish(c)
    BY <2>4, TickCommitTyped, TickFinishTyped, RecheckReadTyped, RecheckCommitTyped,
       RecheckFinishTyped
  <2>5. CASE AddCommit(c) \/ FillCommit(c) \/ BuildCommit(c) \/ RefreshCommit(c) \/ ResumeCommit(c)
            \/ InputEdit(c)
    BY <2>5, AddCommitTyped, FillCommitTyped, BuildCommitTyped, RefreshCommitTyped, ResumeCommitTyped,
       InputEditTyped
  <2> QED
    BY <1>2, <2>1, <2>2, <2>3, <2>4, <2>5 DEF Request
<1> QED
  BY <1>1, <1>2, StutterTyped DEF Next

LEMMA TypedAlways == Spec => []Typed
<1> QED
  BY InitTyped, NextTyped, PTL DEF Spec

LEMMA TypedIsTypeOK ==
    ASSUME Typed
    PROVE  TypeOK
<1>1. \A c \in clauses :
         /\ version[c] \in Versions
         /\ c \notin version[c].replaces \cup version[c].conflicts
  <2> SUFFICES ASSUME NEW c \in clauses PROVE version[c] \in Versions
                                              /\ c \notin version[c].replaces \cup version[c].conflicts
    OBVIOUS
  <2>1. c \in Clauses
    BY RowsFacts
  <2>2. version[c] \in [replaces : SUBSET Clauses, conflicts : SUBSET Clauses, settled : BOOLEAN]
    BY <2>1, RowsFacts DEF VersionType
  <2>3. /\ version[c].replaces \subseteq clauses /\ version[c].conflicts \subseteq clauses
        /\ c \notin version[c].replaces \cup version[c].conflicts
    BY <2>1, RowsFacts DEF Fits
  <2> QED
    BY <2>2, <2>3 DEF Versions
<1>2. \A c \in clauses : decision[c] \in Decisions \cup {NoDecision}
  <2> SUFFICES ASSUME NEW c \in clauses, decision[c] # NoDecision PROVE decision[c] \in Decisions
    OBVIOUS
  <2>1. c \in Clauses /\ decision[c] \in RowType
    BY RowsFacts DEF DecisionType
  <2>2. decision[c] \in [status : Statuses, summary : Why \X (Clauses \cup {0}), stale : BOOLEAN]
    BY <2>1 DEF RowType
  <2>3. decision[c].summary[2] \in clauses \cup {0}
    BY <2>1, RowsFacts DEF Known, Judged
  <2>4. decision[c].summary \in Reasons
    BY <2>2, <2>3 DEF Reasons, Why
  <2> QED
    BY <2>2, <2>4 DEF Decisions
<1>3. \A c \in Clauses \ clauses :
         version[c] = NoVersion /\ decision[c] = NoDecision /\ item[c] = "none"
  BY RowsFacts DEF Fits, Known, Judged
<1> QED
  BY <1>1, <1>2, <1>3, RowsFacts DEF TypeOK, RunStatuses, Stages

\* The rows fit together, whatever requests interleave with one another and with
\* the analysis: what a clause replaces or contradicts is another clause of the
\* run, and only clauses of the run have decisions, checklist items or places
\* linked to them (analyze_project_job, the handlers of routes.py and offline.py).
THEOREM RowsFitTogether == Spec => []TypeOK
BY TypedAlways, TypedIsTypeOK, PTL

(***************************************************************************)
(* Requests one after the other: what the request in flight has loaded is  *)
(* what the rows hold, and the analysis works while there is none.         *)
(***************************************************************************)
Snapshot(call) ==
    /\ stage = "idle" /\ call.run = run
    /\ call.op \in {"relation", "relink", "recheck"} => call.version = version
    /\ call.op \in {"relink", "recheck", "rechecked"} => call.decision = decision
    /\ call.op = "relation" => call.on \notin Reach(version, call.ids)
    /\ call.op = "review" => call.decision[call.on] = decision[call.on]
    /\ call.op = "recheck" => call.ids = clauses
    /\ call.op = "ticked" => call.verdict = Ready(run, item, reviewed)
    /\ call.op = "resume" => run = "FAILED"
InFlight == \A c \in Callers : calls[c].op # "none" => Snapshot(calls[c])

\* What the worker holds is what the rows hold.
Settled == \A c \in Amendments : version[c].settled
AtWork ==
    /\ run \in {"DRAFT", "RUNNING"} => stage # "idle"
    /\ stage = "queued" => run = "DRAFT"
    /\ stage \in {"resolving", "deciding", "filling"} =>
          run = "RUNNING" /\ worker.version = version /\ Extracted \subseteq clauses
    /\ stage \in {"deciding", "filling"} => worker.decision = decision /\ Settled

\* Until an analysis has ended well the relations are among those it has found,
\* and it has settled them all before the first decision, those apart that an
\* edit has dropped since.
Early == {"DRAFT", "RUNNING", "FAILED"}
Unreviewed ==
    run \in Early =>
        /\ \A c \in Clauses : version[c].replaces \subseteq Earlier(c)
        /\ Judged(decision) # {} => \A c \in Amendments : version[c].settled \/ c \in missed

Itemised ==
    /\ run \in {"COMPLETED", "NEEDS_REVIEW"}
    /\ \A c \in Callers : calls[c].op \notin {"relink", "rechecked"}
    => \A c \in Clauses : decision[c] # NoDecision /\ ~Closed(decision[c]) => item[c] # "none"
NothingLeft == run = "COMPLETED" /\ Whole => NothingOpen(item, reviewed)

Unplanned == ~planned => \A t \in Targets : target[t] = None
Linked ==
    (\A c \in Callers : calls[c].op # "relink") /\ ~outrun =>
        \A t \in Targets : target[t] \in InForce(version) \cup {None}

Inv ==
    /\ InFlight /\ AtWork /\ Unreviewed
    /\ Itemised /\ NothingLeft
    /\ Unplanned /\ Linked
    /\ DecisionsFollowVersions /\ NoCycle
OneCaller == \A c, d \in Callers : c = d

LEMMA InvInit ==
    ASSUME Init
    PROVE  Inv
<1>1. \A c \in Clauses : decision[c] = NoDecision /\ version[c] = NoVersion
  BY DEF Init, Bare, Unread
<1>2. InFlight /\ AtWork /\ Itemised /\ NothingLeft /\ Unplanned
  BY NoCallFacts, IsCallFacts DEF Init, InFlight, AtWork, Itemised, NothingLeft, Unplanned
<1>3. Unreviewed
  BY <1>1 DEF Init, Unreviewed, Judged, NoVersion
<1>4. Linked
  BY DEF Init, Linked
<1>5. DecisionsFollowVersions
  BY <1>1, InitTyped, RowsFacts DEF DecisionsFollowVersions
<1>6. NoCycle
  <2>1. version \in VersionType /\ \A c \in Clauses : version[c].replaces \subseteq Earlier(c)
    BY <1>1, InitTyped, RowsFacts DEF NoVersion
  <2> QED
    BY <2>1, OrderedIsAcyclic DEF Acyclic, NoCycle
<1> QED
  BY <1>2, <1>3, <1>4, <1>5, <1>6 DEF Inv

(***************************************************************************)
(* What a step that leaves some of the rows alone keeps.                   *)
(***************************************************************************)
LEMMA InForceGrows ==
    ASSUME version' = version, clauses \subseteq clauses'
    PROVE  InForce(version) \subseteq InForce(version)'
BY DEF InForce

LEMMA RelationsKept ==
    ASSUME Inv, clauses \subseteq clauses', version' = version, target' = target,
           planned' = planned, outrun' = outrun,
           (\A c \in Callers : calls'[c].op # "relink") => \A c \in Callers : calls[c].op # "relink"
    PROVE  NoCycle' /\ Linked' /\ Unplanned'
<1>1. NoCycle'
  BY DEF Inv, NoCycle
<1>2. Linked'
  BY InForceGrows DEF Inv, Linked
<1>3. Unplanned'
  BY DEF Inv, Unplanned
<1> QED
  BY <1>1, <1>2, <1>3

LEMMA FollowsStep ==
    ASSUME Typed, Inv, clauses \subseteq clauses', version' = version,
           \A c \in clauses' \ missed' :
              \/ c \in clauses \ missed /\ decision'[c] = decision[c]
              \/ decision'[c] = NoDecision
              \/ decision'[c].stale
              \/ decision'[c].summary[1] = "human"
              \/ decision'[c] \in Compared(version, c)
              \/ decision'[c].summary[1] = "added" /\ c \notin clauses
    PROVE  DecisionsFollowVersions'
<1>1. InForce(version) \subseteq InForce(version)'
  BY InForceGrows
<1>2. Replaced(version) \subseteq clauses /\ InConflict(version) \subseteq clauses
  BY RowsFacts, VersionFacts
<1>3. \A c \in clauses' \ clauses : c \in InForce(version)'
  BY <1>2 DEF InForce
<1> SUFFICES ASSUME NEW c \in clauses' \ missed',
                    decision'[c] # NoDecision, ~decision'[c].stale,
                    decision'[c].summary[1] # "human"
             PROVE  \/ decision'[c].summary \in {d.summary : d \in Compared(version, c)}
                    \/ decision'[c].summary[1] = "added" /\ c \in InForce(version)'
  BY DEF DecisionsFollowVersions
<1>4. CASE c \in clauses \ missed /\ decision'[c] = decision[c]
  BY <1>1, <1>4 DEF Inv, DecisionsFollowVersions
<1> QED
  BY <1>3, <1>4

LEMMA UnreviewedStep ==
    ASSUME Inv, version' = version, missed \subseteq missed',
           Judged(decision') \subseteq Judged(decision), run' \in Early => run \in Early
    PROVE  Unreviewed'
BY DEF Inv, Unreviewed

\* A request that ends finds the analysis idle, and leaves it so.
LEMMA IdleStep ==
    ASSUME Inv, stage = "idle", stage' = "idle", run' \notin {"DRAFT", "RUNNING"}
    PROVE  AtWork'
BY DEF AtWork

LEMMA ItemisedStep ==
    ASSUME Typed, NEW D, NEW reset, item' = Checklist(D, reset),
           \A c \in Clauses : D[c] = decision'[c]
    PROVE  Itemised'
<1>1. \A c \in Clauses : decision'[c] # NoDecision /\ ~Closed(decision'[c]) => item'[c] # "none"
  BY RowsFacts, ChecklistFacts
<1> QED
  BY <1>1 DEF Itemised, Closed

LEMMA WrittenStatus ==
    ASSUME NEW status
    PROVE  WrittenRun(run, status) = status
BY DEF WrittenRun

LEMMA ReadyStep ==
    ASSUME planned' = planned, run' = Ready(run, item', reviewed')
    PROVE  /\ NothingLeft'
           /\ run' \in Early <=> run \in Early
           /\ run' \in {"DRAFT", "RUNNING"} <=> run \in {"DRAFT", "RUNNING"}
BY DEF NothingLeft, Ready, NothingOpen, Early

\* While the analysis works there is no request.
LEMMA NoRequest ==
    ASSUME Inv, stage # "idle", calls' = calls
    PROVE  /\ InFlight'
           /\ \A c \in Callers : calls'[c].op = "none" /\ calls[c].op = "none"
BY DEF Inv, InFlight, Snapshot

LEMMA Alone ==
    ASSUME OneCaller, Typed, NEW c \in Callers, NEW call, calls' = [calls EXCEPT ![c] = call]
    PROVE  \A d \in Callers : calls'[d] = call /\ calls[d] = calls[c]
<1>1. calls = [d \in Callers |-> calls[d]]
  BY DEF Typed, TypedCalls
<1> QED
  BY <1>1 DEF OneCaller

LEMMA AloneDone ==
    ASSUME OneCaller, Typed, NEW c \in Callers, Done(c)
    PROVE  /\ InFlight'
           /\ \A d \in Callers : calls'[d].op = "none" /\ calls[d] = calls[c]
<1>1. NoCall.op = "none"
  BY NoCallFacts, IsCallFacts
<1>2. \A d \in Callers : calls'[d] = NoCall /\ calls[d] = calls[c]
  BY Alone DEF Done
<1>3. InFlight'
  BY <1>1, <1>2 DEF InFlight
<1> QED
  BY <1>1, <1>2, <1>3

\* What a request that goes on has loaded.
LEMMA TheSnapshot ==
    ASSUME Inv, NEW c \in Callers, calls[c].op # "none"
    PROVE  Snapshot(calls[c])
BY DEF Inv, InFlight

\* A clause whose standing stays can come to the same verdicts.
LEMMA MovedFacts ==
    ASSUME NEW v, NEW w, NEW k \in Clauses, k \notin Moved(v, w)
    PROVE  /\ v[k] = w[k] /\ Replacer(v, k) = Replacer(w, k)
           /\ k \in InConflict(v) <=> k \in InConflict(w)
           /\ k \in Replaced(v) <=> k \in Replaced(w)
           /\ Compared(v, k) = Compared(w, k)
<1>1. Standing(v, k) = Standing(w, k)
  BY DEF Moved
<1>2. /\ v[k] = w[k] /\ Replacer(v, k) = Replacer(w, k)
      /\ k \in InConflict(v) <=> k \in InConflict(w)
  BY <1>1 DEF Standing
<1>3. k \in Replaced(v) <=> k \in Replaced(w)
  BY <1>2, ReplacedFacts
<1>4. Compared(v, k) = Compared(w, k)
  BY <1>2, <1>3 DEF Compared
<1> QED
  BY <1>2, <1>3, <1>4

\* Clauses whose standing has changed, and no others, may have been missed.
LEMMA MovedStep ==
    ASSUME Typed, Inv, clauses' = clauses, missed' = missed \cup Moved(version, version'),
           \A c \in Clauses : decision'[c] = decision[c] \/ decision'[c].stale
    PROVE  DecisionsFollowVersions'
<1> SUFFICES ASSUME NEW c \in clauses, c \notin missed', decision'[c] # NoDecision,
                    ~decision'[c].stale, decision'[c].summary[1] # "human"
             PROVE  \/ decision'[c].summary \in {d.summary : d \in Compared(version', c)}
                    \/ decision'[c].summary[1] = "added" /\ c \in InForce(version)'
  BY DEF DecisionsFollowVersions
<1>1. c \in Clauses /\ c \notin missed /\ c \notin Moved(version, version')
  BY RowsFacts
<1>2. decision'[c] = decision[c]
  BY <1>1
<1>3. /\ c \in InConflict(version) <=> c \in InConflict(version')
      /\ c \in Replaced(version) <=> c \in Replaced(version')
      /\ Compared(version, c) = Compared(version', c)
  BY <1>1, MovedFacts
<1>4. c \in InForce(version) => c \in InForce(version)'
  BY <1>3 DEF InForce
<1> QED
  BY <1>1, <1>2, <1>3, <1>4 DEF Inv, DecisionsFollowVersions

(***************************************************************************)
(* The analysis.                                                           *)
(***************************************************************************)
LEMMA BeginInv ==
    ASSUME Typed, Inv, Begin
    PROVE  Inv'
<1>1. /\ missed' = missed /\ outrun' = outrun
      /\ clauses' = clauses \cup Extracted /\ version' = version /\ decision' = decision
      /\ item' = item /\ target' = target /\ reviewed' = reviewed /\ planned' = planned
      /\ calls' = calls /\ stage = "queued" /\ stage' = "resolving" /\ run' = "RUNNING"
      /\ worker' = [version |-> version, decision |-> decision]
  BY DEF Begin, history
<1>2. InFlight' /\ \A c \in Callers : calls'[c].op = "none" /\ calls[c].op = "none"
  BY <1>1, NoRequest
<1>3. AtWork'
  BY <1>1 DEF AtWork
<1>4. Unreviewed'
  BY <1>1, UnreviewedStep DEF Inv, AtWork, Early
<1>5. Itemised' /\ NothingLeft'
  BY <1>1 DEF Itemised, NothingLeft
<1>6. NoCycle' /\ Linked' /\ Unplanned'
  BY <1>1, <1>2, RelationsKept
<1>7. DecisionsFollowVersions'
  <2>1. \A c \in clauses' : (c \in clauses /\ decision'[c] = decision[c]) \/ decision'[c] = NoDecision
    <3>1. clauses' \subseteq Clauses
      BY <1>1, RowsFacts, ReviewAssumption
    <3> QED
      BY <1>1, <3>1, RowsFacts DEF Judged
  <2> QED
    BY <1>1, <2>1, FollowsStep
<1> QED
  BY <1>2, <1>3, <1>4, <1>5, <1>6, <1>7 DEF Inv

LEMMA ResolveInv ==
    ASSUME Typed, Inv, NEW c \in Clauses, Resolve(c)
    PROVE  Inv'
<1>1. /\ missed' = IF c \in missed THEN missed \cup Moved(version, version') ELSE missed
      /\ outrun' = (outrun \/ planned)
      /\ clauses' = clauses /\ decision' = decision /\ item' = item /\ target' = target
      /\ reviewed' = reviewed /\ planned' = planned /\ calls' = calls /\ run' = run
      /\ stage = "resolving" /\ stage' = stage
  BY DEF Resolve
<1>2. InFlight' /\ \A d \in Callers : calls'[d].op = "none" /\ calls[d].op = "none"
  BY <1>1, NoRequest
<1>3. run = "RUNNING" /\ worker.version = version /\ Extracted \subseteq clauses
  BY <1>1 DEF Inv, AtWork
<1>4. PICK new \in [replaces : SUBSET Prior(c), conflicts : SUBSET Prior(c), settled : {TRUE}] :
          /\ version' = [version EXCEPT ![c] = new]
          /\ worker' = [worker EXCEPT !.version[c] = new]
  BY DEF Resolve
<1>5. c \in Amendments /\ ~version[c].settled
  BY <1>3 DEF Resolve, IsFirst, Unsettled
\* So far nothing was decided, or an edit has dropped what had been settled.
<1>6. Judged(decision) # {} => c \in missed
  BY <1>3, <1>5 DEF Inv, Unreviewed, Early
<1>7. AtWork'
  <2> DEFINE w == worker.version
  <2>1. worker = [version |-> w, decision |-> worker.decision]
    BY DEF Typed, TypedWorker
  <2>2. worker' = [version |-> [w EXCEPT ![c] = new], decision |-> worker.decision]
    BY <1>4, <2>1
  <2>3. worker'.version = version'
    BY <1>3, <1>4, <2>2
  <2> QED
    BY <1>1, <1>3, <2>3 DEF AtWork
<1>8. \A d \in Clauses : version'[d].replaces \subseteq Earlier(d)
  <2>1. \A d \in Clauses : version[d].replaces \subseteq Earlier(d)
    BY <1>3 DEF Inv, Unreviewed, Early
  <2>2. \A d \in Clauses : version'[d] = IF d = c THEN new ELSE version[d]
    BY <1>4, RowsFacts DEF VersionType
  <2>3. Prior(c) \subseteq Earlier(c)
    BY <1>5, RowsFacts DEF Prior, Earlier
  <2>4. new.replaces \subseteq Prior(c)
    OBVIOUS
  <2> QED
    BY <2>1, <2>2, <2>3, <2>4
<1>9. Unreviewed'
  <2>1. \A d \in Clauses : d # c => version'[d] = version[d]
    BY <1>4, RowsFacts DEF VersionType
  <2>2. version'[c].settled
    BY <1>4, RowsFacts DEF VersionType
  <2>3. \A d \in Amendments : d \in Clauses
    BY ReviewAssumption
  <2>4. \A d \in Amendments : Judged(decision) # {} => version[d].settled \/ d \in missed
    BY <1>3 DEF Inv, Unreviewed, Early
  <2>5. missed \subseteq missed'
    BY <1>1
  <2> QED
    BY <1>1, <1>8, <2>1, <2>2, <2>3, <2>4, <2>5 DEF Unreviewed
<1>10. Itemised' /\ NothingLeft'
  BY <1>1, <1>3 DEF Itemised, NothingLeft
<1>11. Linked' /\ Unplanned'
  <2>1. Unplanned'
    BY <1>1 DEF Inv, Unplanned
  <2>2. ~outrun' => ~planned
    BY <1>1
  <2>3. Linked'
    BY <1>1, <2>2 DEF Inv, Unplanned, Linked
  <2> QED
    BY <2>1, <2>3
<1>12. NoCycle'
  <2>1. version' \in VersionType
    BY ResolveTyped, RowsFacts DEF Typed, Rows
  <2> QED
    BY <1>8, <2>1, OrderedIsAcyclic DEF Acyclic, NoCycle
<1>13. DecisionsFollowVersions'
  <2>1. CASE c \in missed
    BY <1>1, <2>1, MovedStep
  <2>2. CASE c \notin missed
    <3>1. \A d \in clauses : decision[d] = NoDecision
      BY <1>6, <2>2, RowsFacts DEF Judged
    <3> QED
      BY <1>1, <3>1 DEF DecisionsFollowVersions
  <2> QED
    BY <2>1, <2>2
<1> QED
  BY <1>2, <1>7, <1>9, <1>10, <1>11, <1>12, <1>13 DEF Inv

LEMMA BeginDecidingInv ==
    ASSUME Typed, Inv, BeginDeciding
    PROVE  Inv'
<1>1. /\ missed' = missed /\ outrun' = outrun
      /\ clauses' = clauses /\ version' = version /\ decision' = decision /\ item' = item
      /\ target' = target /\ reviewed' = reviewed /\ planned' = planned /\ run' = run
      /\ calls' = calls /\ stage = "resolving" /\ stage' = "deciding" /\ Unsettled = {}
      /\ worker' = [worker EXCEPT !.decision = decision]
  BY DEF BeginDeciding, rows, history
<1>2. InFlight' /\ \A c \in Callers : calls'[c].op = "none" /\ calls[c].op = "none"
  BY <1>1, NoRequest
<1>3. run = "RUNNING" /\ worker.version = version /\ Extracted \subseteq clauses
  BY <1>1 DEF Inv, AtWork
<1>4. Settled
  BY <1>1, <1>3, ReviewAssumption DEF Unsettled, Settled
<1>5. worker'.version = version' /\ worker'.decision = decision'
  <2>1. worker = [version |-> version, decision |-> worker.decision]
    BY <1>3 DEF Typed, TypedWorker
  <2> QED
    BY <1>1, <2>1
<1>6. AtWork'
  BY <1>1, <1>3, <1>4, <1>5 DEF AtWork, Settled
<1>7. Unreviewed'
  BY <1>1, UnreviewedStep
<1>8. Itemised' /\ NothingLeft'
  BY <1>1, <1>3 DEF Itemised, NothingLeft
<1>9. NoCycle' /\ Linked' /\ Unplanned'
  BY <1>1, <1>2, RelationsKept
<1>10. DecisionsFollowVersions'
  BY <1>1, FollowsStep
<1> QED
  BY <1>2, <1>6, <1>7, <1>8, <1>9, <1>10 DEF Inv

LEMMA DecideInv ==
    ASSUME Typed, Inv, NEW c \in Clauses, Decide(c)
    PROVE  Inv'
<1> DEFINE E == worker.decision
<1>1. /\ missed' = missed \ {c} /\ outrun' = outrun
      /\ clauses' = clauses /\ version' = version /\ item' = item /\ target' = target
      /\ reviewed' = reviewed /\ planned' = planned /\ calls' = calls /\ run' = run
      /\ stage = "deciding" /\ stage' = stage
  BY DEF Decide
<1>2. InFlight' /\ \A d \in Callers : calls'[d].op = "none" /\ calls[d].op = "none"
  BY <1>1, NoRequest
<1>3. /\ run = "RUNNING" /\ worker.version = version /\ Extracted \subseteq clauses
      /\ E = decision /\ Settled
  BY <1>1 DEF Inv, AtWork
<1>4. PICK new \in Compared(worker.version, c) :
          /\ decision' = [decision EXCEPT ![c] = Written(E[c], new, decision[c])]
          /\ worker' = [worker EXCEPT !.decision[c] = new]
  BY DEF Decide
<1>5. new \in Compared(version, c)
  BY <1>3, <1>4
\* Nobody else writes: what is stored is what has been decided.
<1>6. Written(decision[c], new, decision[c]) = new
  <2>1. /\ version \in VersionType /\ Fits(version, clauses) /\ clauses \in SUBSET Clauses
        /\ decision[c] \in RowType
    BY RowsFacts DEF DecisionType
  <2> DEFINE S == clauses
             v == version
             stored == decision[c]
  <2>2. /\ v \in VersionType /\ Fits(v, S) /\ S \in SUBSET Clauses /\ new \in Compared(v, c)
        /\ stored \in RowType
    BY <1>5, <2>1
  <2> HIDE DEF S, v, stored
  <2>3. new \in RowType /\ new # NoDecision
    BY <2>2, ComparedFacts
  <2>4. Written(stored, new, stored) = new
    BY <2>2, <2>3, WrittenFacts
  <2> QED
    BY <2>4 DEF stored
<1>7. decision' = [decision EXCEPT ![c] = new]
  BY <1>3, <1>4, <1>6
<1>8. worker'.decision = decision' /\ worker'.version = version'
  <2>1. worker = [version |-> worker.version, decision |-> E]
    BY DEF Typed, TypedWorker
  <2>2. worker' = [version |-> worker.version, decision |-> [E EXCEPT ![c] = new]]
    BY <1>4, <2>1
  <2>3. worker'.decision = [E EXCEPT ![c] = new] /\ worker'.version = worker.version
    BY <2>2
  <2> QED
    BY <1>1, <1>3, <1>7, <2>3
<1>9. AtWork'
  BY <1>1, <1>3, <1>8 DEF AtWork, Settled
<1>10. Unreviewed'
  BY <1>1, <1>3 DEF Inv, Unreviewed, Settled
<1>11. Itemised' /\ NothingLeft'
  BY <1>1, <1>3 DEF Itemised, NothingLeft
<1>12. NoCycle' /\ Linked' /\ Unplanned'
  BY <1>1, <1>2, RelationsKept
<1>13. DecisionsFollowVersions'
  <2>1. \A d \in Clauses : decision'[d] = IF d = c THEN new ELSE decision[d]
    BY <1>7, RowsFacts DEF DecisionType
  <2>2. \A d \in clauses' \ missed' : (d \in clauses \ missed /\ decision'[d] = decision[d])
                            \/ decision'[d] \in Compared(version, d)
    BY <1>1, <1>5, <2>1, RowsFacts
  <2> QED
    BY <1>1, <2>2, FollowsStep
<1> QED
  BY <1>2, <1>9, <1>10, <1>11, <1>12, <1>13 DEF Inv

LEMMA PlanInv ==
    ASSUME Typed, Inv, Plan
    PROVE  Inv'
<1>1. /\ missed' = missed /\ outrun' = outrun
      /\ clauses' = clauses /\ version' = version /\ decision' = decision /\ item' = item
      /\ calls' = calls /\ run' = run /\ worker' = worker /\ planned' = TRUE
      /\ stage = "deciding" /\ stage' = "filling"
      /\ IF planned THEN target' = target ELSE target' \in Links(worker.version)
  BY DEF Plan, history
<1>2. InFlight' /\ \A d \in Callers : calls'[d].op = "none" /\ calls[d].op = "none"
  BY <1>1, NoRequest
<1>3. /\ run = "RUNNING" /\ worker.version = version /\ Extracted \subseteq clauses
      /\ worker.decision = decision /\ Settled
  BY <1>1 DEF Inv, AtWork
<1>4. AtWork'
  BY <1>1, <1>3 DEF AtWork, Settled
<1>5. Unreviewed'
  BY <1>1, <1>3 DEF Inv, Unreviewed, Settled
<1>6. Itemised' /\ NothingLeft'
  BY <1>1, <1>3 DEF Itemised, NothingLeft
<1>7. Linked' /\ Unplanned'
  <2>1. InForce(version)' = InForce(version)
    BY <1>1 DEF InForce
  <2>2. outrun' \/ \A t \in Targets : target'[t] \in InForce(version)' \cup {None}
    BY <1>1, <1>2, <1>3, <2>1, LinksFacts DEF Inv, Linked
  <2> QED
    BY <1>1, <2>2 DEF Linked, Unplanned
<1>8. NoCycle'
  BY <1>1 DEF Inv, NoCycle
<1>9. DecisionsFollowVersions'
  BY <1>1, FollowsStep
<1> QED
  BY <1>2, <1>4, <1>5, <1>6, <1>7, <1>8, <1>9 DEF Inv

\* What outdates every decision, by the analysis or by a request.
LEMMA MarkStaleInv ==
    ASSUME Typed, Inv, MarkStale, clauses' = clauses, version' = version, target' = target,
           missed' = missed, outrun' = outrun,
           planned' = planned, stage' = "idle",
           \A c \in Callers : calls'[c].op = "none" /\ calls[c].op = "none"
    PROVE  Inv'
<1>1. decision' = Stale /\ run' = IF run = "FAILED" THEN "FAILED" ELSE "STALE"
  BY DEF MarkStale
<1>2. /\ \A c \in Clauses : decision'[c] = NoDecision <=> decision[c] = NoDecision
      /\ \A c \in Clauses : decision'[c] # NoDecision => decision'[c].stale
  BY <1>1, RowsFacts, StaleFacts
<1>3. InFlight'
  BY DEF InFlight
<1>4. AtWork'
  BY <1>1 DEF AtWork
<1>5. Unreviewed'
  BY <1>1, <1>2, UnreviewedStep DEF Judged, Early
<1>6. Itemised' /\ NothingLeft'
  BY <1>1 DEF Itemised, NothingLeft
<1>7. NoCycle' /\ Linked' /\ Unplanned'
  BY RelationsKept
<1>8. DecisionsFollowVersions'
  <2>1. \A c \in clauses' : decision'[c] = NoDecision \/ decision'[c].stale
    BY <1>2, RowsFacts
  <2> QED
    BY <2>1, FollowsStep
<1> QED
  BY <1>3, <1>4, <1>5, <1>6, <1>7, <1>8 DEF Inv

LEMMA FinishInv ==
    ASSUME Typed, Inv, Finish
    PROVE  Inv'
<1>1. /\ missed' = missed /\ outrun' = outrun
      /\ clauses' = clauses /\ version' = version /\ target' = target /\ planned' = planned
      /\ calls' = calls /\ stage = "filling" /\ stage' = "idle"
  BY DEF Finish, history
<1>2. InFlight' /\ \A d \in Callers : calls'[d].op = "none" /\ calls[d].op = "none"
  BY <1>1, NoRequest
<1>3. run = "RUNNING" /\ worker.decision = decision
  BY <1>1 DEF Inv, AtWork
<1>4. CASE MarkStale
  BY <1>1, <1>2, <1>4, MarkStaleInv
<1>5. CASE /\ item' = Checklist(Seen(worker.decision), {})
           /\ run' = IF NothingOpen(item', reviewed) THEN "COMPLETED" ELSE "NEEDS_REVIEW"
           /\ UNCHANGED <<decision, reviewed>>
  <2>1. Seen(worker.decision) = decision'
    <3>1. Known(decision, clauses, Judged(decision))
      BY RowsFacts DEF Known
    <3> QED
      BY <1>3, <1>5, <3>1, RowsFacts, SeenFacts
  <2>2. Itemised'
    BY <1>5, <2>1, ItemisedStep
  <2>3. AtWork'
    BY <1>1, <1>5 DEF AtWork
  <2>4. Unreviewed'
    BY <1>5 DEF Unreviewed, Early
  <2>5. NothingLeft'
    BY <1>1, <1>5 DEF NothingLeft, NothingOpen
  <2>6. NoCycle' /\ Linked' /\ Unplanned'
    BY <1>1, <1>2, RelationsKept
  <2>7. DecisionsFollowVersions'
    BY <1>1, <1>5, FollowsStep
  <2> QED
    BY <1>2, <2>2, <2>3, <2>4, <2>5, <2>6, <2>7 DEF Inv
<1> QED
  BY <1>4, <1>5 DEF Finish

LEMMA FailInv ==
    ASSUME Typed, Inv, Fail
    PROVE  Inv'
<1>1. /\ missed' = missed /\ outrun' = outrun
      /\ clauses' = clauses /\ version' = version /\ decision' = decision /\ item' = item
      /\ target' = target /\ reviewed' = reviewed /\ planned' = planned /\ calls' = calls
      /\ stage # "idle" /\ stage' = "idle" /\ run' = "FAILED"
  BY DEF Fail, history
<1>2. InFlight' /\ \A d \in Callers : calls'[d].op = "none" /\ calls[d].op = "none"
  BY <1>1, NoRequest
<1>3. run \in Early
  BY <1>1, RowsFacts DEF Inv, AtWork, Early, Stages
<1>4. AtWork'
  BY <1>1 DEF AtWork
<1>5. Unreviewed'
  BY <1>1, <1>3, UnreviewedStep
<1>6. Itemised' /\ NothingLeft'
  BY <1>1 DEF Itemised, NothingLeft
<1>7. NoCycle' /\ Linked' /\ Unplanned'
  BY <1>1, <1>2, RelationsKept
<1>8. DecisionsFollowVersions'
  BY <1>1, FollowsStep
<1> QED
  BY <1>2, <1>4, <1>5, <1>6, <1>7, <1>8 DEF Inv

(***************************************************************************)
(* A request loads the rows.                                               *)
(***************************************************************************)
LEMMA LoadInv ==
    ASSUME OneCaller, Typed, Inv, NEW c \in Callers, NEW call, Load(c, call),
           stage = "idle" => Snapshot(call), call.op \notin {"none", "relink", "rechecked", "ticked"}
    PROVE  Inv'
<1>1. /\ missed' = missed /\ outrun' = outrun
      /\ clauses' = clauses /\ version' = version /\ decision' = decision /\ item' = item
      /\ target' = target /\ reviewed' = reviewed /\ planned' = planned /\ run' = run
      /\ stage' = stage /\ worker' = worker /\ todo' = todo
      /\ calls[c] = NoCall /\ calls' = [calls EXCEPT ![c] = call]
      /\ stage = "idle" /\ run \notin {"DRAFT", "RUNNING"}
  BY DEF Load, rows, job, Idle, history
<1>2. \A d \in Callers : calls'[d] = call /\ calls[d].op = "none"
  <2>1. NoCall.op = "none"
    BY NoCallFacts, IsCallFacts
  <2>2. \A d \in Callers : calls'[d] = call /\ calls[d] = calls[c]
    BY <1>1, Alone
  <2> QED
    BY <1>1, <2>1, <2>2
<1>3. InFlight'
  <2>1. Snapshot(call)'
    BY <1>1 DEF Snapshot
  <2> QED
    BY <1>2, <2>1 DEF InFlight
<1>4. AtWork'
  BY <1>1 DEF AtWork
<1>5. Unreviewed'
  BY <1>1, UnreviewedStep
<1>6. Itemised' /\ NothingLeft'
  BY <1>1, <1>2 DEF Inv, Itemised, NothingLeft, Whole, NothingOpen
<1>7. NoCycle' /\ Linked' /\ Unplanned'
  BY <1>1, <1>2, RelationsKept
<1>8. DecisionsFollowVersions'
  BY <1>1, FollowsStep
<1> QED
  BY <1>3, <1>4, <1>5, <1>6, <1>7, <1>8 DEF Inv

LEMMA RelationReadInv ==
    ASSUME OneCaller, Typed, Inv, NEW c \in Callers, NEW r \in clauses, NEW ids \in SUBSET clauses,
           RelationRead(c, r, ids)
    PROVE  Inv'
<1> DEFINE call == [Call("relation", r) EXCEPT !.ids = ids, !.version = version]
<1>1. call = TheCall("relation", r, ids, "none", "none", version, Bare, run)
  BY RelationCall
<1>2. r \notin Reach(version, ids) /\ Load(c, call)
  BY DEF RelationRead, ClosesCycle
<1> HIDE DEF call
<1>3. /\ call.op = "relation" /\ call.on = r /\ call.ids = ids
      /\ call.version = version /\ call.run = run
  BY <1>1, IsCallFacts
<1>4. stage = "idle" => Snapshot(call)
  BY <1>2, <1>3 DEF Snapshot
<1> QED
  BY <1>2, <1>3, <1>4, LoadInv

LEMMA ReviewReadInv ==
    ASSUME OneCaller, Typed, Inv, NEW c \in Callers, NEW r \in clauses, NEW status \in Statuses,
           ReviewRead(c, r, status)
    PROVE  Inv'
<1> DEFINE call == [Call("review", r) EXCEPT !.verdict = status, !.decision[r] = decision[r]]
           D == [Bare EXCEPT ![r] = decision[r]]
<1>1. call = TheCall("review", r, {}, status, "none", Unread, D, run)
  BY ReviewCall
<1>2. Load(c, call)
  BY DEF ReviewRead
<1> HIDE DEF call
<1>3. D[r] = decision[r]
  BY RowsFacts DEF Bare
<1> HIDE DEF D
<1>4. /\ call.op = "review" /\ call.on = r /\ call.decision = D /\ call.run = run
  BY <1>1, IsCallFacts
<1>5. stage = "idle" => Snapshot(call)
  BY <1>3, <1>4 DEF Snapshot
<1> QED
  BY <1>2, <1>4, <1>5, LoadInv

LEMMA RecheckReadInv ==
    ASSUME OneCaller, Typed, Inv, NEW c \in Callers, RecheckRead(c)
    PROVE  Inv'
<1> DEFINE call == [Call("recheck", 0) EXCEPT
                      !.ids = clauses, !.version = version, !.decision = decision]
<1>1. call = TheCall("recheck", 0, clauses, "none", "none", version, decision, run)
  BY RecheckCall
<1>2. Load(c, call)
  BY DEF RecheckRead
<1> HIDE DEF call
<1>3. /\ call.op = "recheck" /\ call.ids = clauses
      /\ call.version = version /\ call.decision = decision /\ call.run = run
  BY <1>1, IsCallFacts
<1>4. stage = "idle" => Snapshot(call)
  BY <1>3 DEF Snapshot
<1> QED
  BY <1>2, <1>3, <1>4, LoadInv

LEMMA OtherReadsInv ==
    ASSUME OneCaller, Typed, Inv, NEW c \in Callers,
           \/ \E r \in clauses, what \in {"text", "condition"} : EditRead(c, r, what)
           \/ \E r \in clauses, value \in {"open", "done"} : TickRead(c, r, value)
           \/ AddRead(c) \/ BuildRead(c) \/ RefreshRead(c) \/ ResumeRead(c)
           \/ \E t \in Targets : FillRead(c, t)
    PROVE  Inv'
<1>1. ASSUME NEW op \in {"edit", "tick", "add", "build", "refresh", "fill"}, NEW on, NEW ids, NEW verdict,
             NEW it, NEW call, call = TheCall(op, on, ids, verdict, it, Unread, Bare, run),
             Load(c, call)
      PROVE  Inv'
  <2>1. call.op = op /\ call.run = run
    BY <1>1, IsCallFacts
  <2>2. stage = "idle" => Snapshot(call)
    BY <2>1 DEF Snapshot
  <2> QED
    BY <1>1, <2>1, <2>2, LoadInv
<1>2. ASSUME NEW op \in {"add", "build", "refresh"}, NEW on, Load(c, Call(op, on))
      PROVE  Inv'
  <2>1. Call(op, on) = TheCall(op, on, {}, "none", "none", Unread, Bare, run)
    BY BareCall
  <2> QED
    BY <1>1, <1>2, <2>1
<1>3. ASSUME NEW r \in clauses, NEW what \in {"text", "condition"}, EditRead(c, r, what)
      PROVE  Inv'
  <2> DEFINE call == [Call("edit", r) EXCEPT !.verdict = what]
  <2>1. call = TheCall("edit", r, {}, what, "none", Unread, Bare, run)
    BY EditCall
  <2>2. Load(c, call)
    BY <1>3 DEF EditRead
  <2> HIDE DEF call
  <2> QED
    BY <1>1, <2>1, <2>2
<1>4. CASE AddRead(c) \/ BuildRead(c) \/ RefreshRead(c)
  BY <1>2, <1>4 DEF AddRead, BuildRead, RefreshRead
<1>5. ASSUME NEW r \in clauses, NEW value \in {"open", "done"}, TickRead(c, r, value)
      PROVE  Inv'
  <2> DEFINE call == [Call("tick", r) EXCEPT !.verdict = value, !.item = item[r]]
  <2>1. call = TheCall("tick", r, {}, value, item[r], Unread, Bare, run)
    BY TickCall
  <2>2. Load(c, call)
    BY <1>5 DEF TickRead
  <2> HIDE DEF call
  <2> QED
    BY <1>1, <2>1, <2>2
<1>6. ASSUME NEW t \in Targets, FillRead(c, t)
      PROVE  Inv'
  <2> DEFINE call == [Call("fill", 0) EXCEPT !.ids = {t}]
  <2>1. call = TheCall("fill", 0, {t}, "none", "none", Unread, Bare, run)
    BY FillCall
  <2>2. Load(c, call)
    BY <1>6 DEF FillRead
  <2> HIDE DEF call
  <2> QED
    BY <1>1, <2>1, <2>2
<1>7. CASE ResumeRead(c)
  <2> DEFINE call == Call("resume", 0)
  <2>1. call = TheCall("resume", 0, {}, "none", "none", Unread, Bare, run)
    BY BareCall
  <2>2. Load(c, call) /\ run = "FAILED"
    BY <1>7 DEF ResumeRead
  <2> HIDE DEF call
  <2>3. call.op = "resume" /\ call.run = run
    BY <2>1, IsCallFacts
  <2>4. stage = "idle" => Snapshot(call)
    BY <2>2, <2>3 DEF Snapshot
  <2> QED
    BY <2>2, <2>3, <2>4, LoadInv
<1> QED
  BY <1>3, <1>4, <1>5, <1>6, <1>7

(***************************************************************************)
(* A request commits.                                                      *)
(***************************************************************************)
\* The commit that ends a request and leaves relations and places alone.
LEMMA CommitInv ==
    ASSUME OneCaller, Typed, Inv, NEW c \in Callers, Done(c), stage = "idle", UNCHANGED job,
           clauses \subseteq clauses', version' = version, target' = target,
           planned' = planned, outrun' = outrun, calls[c].op \notin {"none", "relink"},
           run' \notin {"DRAFT", "RUNNING"}, Unreviewed', Itemised', NothingLeft',
           DecisionsFollowVersions'
    PROVE  Inv'
<1>1. InFlight' /\ \A d \in Callers : calls'[d].op = "none" /\ calls[d] = calls[c]
  BY AloneDone
<1>2. AtWork'
  BY IdleStep DEF job
<1>3. NoCycle' /\ Linked' /\ Unplanned'
  BY <1>1, RelationsKept
<1> QED
  BY <1>1, <1>2, <1>3 DEF Inv

\* What a commit finds.
LEMMA Found ==
    ASSUME Inv, NEW c \in Callers, calls[c].op # "none"
    PROVE  /\ Snapshot(calls[c]) /\ stage = "idle" /\ calls[c].run = run
           /\ run \notin {"DRAFT", "RUNNING"}
BY TheSnapshot DEF Snapshot, Inv, AtWork

LEMMA EditCommitInv ==
    ASSUME OneCaller, Typed, Inv, NEW c \in Callers, EditCommit(c)
    PROVE  Inv'
<1> DEFINE r == calls[c].on
           row == [Verdict("NEEDS_REVIEW", "edited") EXCEPT !.stale = TRUE]
<1>1. /\ missed' = missed \cup Moved(version, version') /\ outrun' = outrun
      /\ clauses' = clauses /\ target' = target /\ planned' = planned
      /\ UNCHANGED job /\ Done(c)
      /\ item' = Checklist(decision', {r})
      /\ run' = IF calls[c].run = "COMPLETED" THEN "NEEDS_REVIEW" ELSE run
      /\ decision' = IF decision[r] = NoDecision THEN decision
                     ELSE [decision EXCEPT ![r] = row]
      /\ calls[c].op = "edit"
  BY DEF EditCommit
<1>2. stage = "idle" /\ calls[c].run = run /\ run \notin {"DRAFT", "RUNNING"}
  BY <1>1, Found
<1>3. row.stale
  BY DEF Verdict
<1>4. PICK new : /\ new \in Stripped(version[r]) \/ new = version[r]
                 /\ version' = [version EXCEPT ![r] = new]
  BY DEF EditCommit
<1>5. r \in clauses
  BY <1>1, TheCallTyped DEF TypedCall
<1> HIDE DEF row, r
<1>6. \A k \in Clauses :
        \/ decision'[k] = decision[k]
        \/ decision[k] # NoDecision /\ decision'[k] = row
  BY <1>1, RowsFacts DEF DecisionType
\* What r said before it says no longer, or still.
<1>7. /\ version' \in VersionType
      /\ \A k \in Clauses : /\ version'[k].replaces \subseteq version[k].replaces
                            /\ version'[k].conflicts \subseteq version[k].conflicts
                            /\ k # r => version'[k] = version[k]
  <2>1. /\ new.replaces \subseteq version[r].replaces
        /\ new.conflicts \subseteq version[r].conflicts
    BY <1>4, <1>5, RowsFacts, StrippedFacts
  <2>2. \A k \in Clauses : version'[k] = IF k = r THEN new ELSE version[k]
    BY <1>4, RowsFacts DEF VersionType
  <2>3. version' \in VersionType
    BY EditCommitTyped, RowsFacts DEF Typed, Rows
  <2> QED
    BY <2>1, <2>2, <2>3
<1>8. Acyclic(version) => Acyclic(version')
  BY <1>7, RowsFacts, FewerRelations
<1>9. InForce(version) \subseteq InForce(version)'
  <2>1. /\ Replaced(version') \subseteq Replaced(version)
        /\ InConflict(version') \subseteq InConflict(version) \cup Replaced(version)
    BY <1>7, RowsFacts, FewerRelations
  <2> QED
    BY <1>1, <2>1 DEF InForce
<1>10. InFlight' /\ \A d \in Callers : calls'[d].op = "none" /\ calls[d] = calls[c]
  BY <1>1, AloneDone
<1>11. AtWork'
  BY <1>1, <1>2, IdleStep DEF job
<1>12. Unreviewed'
  <2> SUFFICES ASSUME run' \in Early
               PROVE  /\ \A k \in Clauses : version'[k].replaces \subseteq Earlier(k)
                      /\ Judged(decision') # {} =>
                            \A k \in Amendments : version'[k].settled \/ k \in missed'
    BY DEF Unreviewed
  <2>1. run \in Early
    BY <1>1, <1>2 DEF Early
  <2>2. \A k \in Clauses : version'[k].replaces \subseteq Earlier(k)
    BY <1>7, <2>1 DEF Inv, Unreviewed
  <2>3. Judged(decision') \subseteq Judged(decision)
    BY <1>6 DEF Judged
  <2>4. \A k \in Amendments : k \in Clauses
    BY ReviewAssumption
  <2>5. \A k \in Clauses : version'[k] = version[k] \/ k \in missed'
    BY <1>1, MovedFacts
  <2> QED
    BY <1>1, <2>1, <2>2, <2>3, <2>4, <2>5 DEF Inv, Unreviewed
<1>13. Itemised'
  BY <1>1, ItemisedStep
<1>14. NothingLeft'
  BY <1>1, <1>2 DEF NothingLeft
<1>15. Linked' /\ Unplanned'
  BY <1>1, <1>9, <1>10 DEF Inv, Linked, Unplanned
<1>16. NoCycle'
  BY <1>8 DEF Inv, NoCycle, Acyclic
<1>17. DecisionsFollowVersions'
  BY <1>1, <1>3, <1>6, MovedStep
<1> QED
  BY <1>10, <1>11, <1>12, <1>13, <1>14, <1>15, <1>16, <1>17 DEF Inv

LEMMA ReviewCommitInv ==
    ASSUME OneCaller, Typed, Inv, NEW c \in Callers, ReviewCommit(c)
    PROVE  Inv'
<1> DEFINE call == calls[c]
           r == call.on
           new == Verdict(call.verdict, "human")
           stored == decision[r]
<1>1. /\ missed' = missed /\ outrun' = outrun
      /\ clauses' = clauses /\ version' = version /\ target' = target /\ planned' = planned
      /\ UNCHANGED job /\ Done(c) /\ reviewed' = reviewed
      /\ item' = Checklist([decision EXCEPT ![r] = new], {r})
      /\ run' = WrittenRun(call.run, Ready(call.run, item', reviewed))
      /\ decision' = [decision EXCEPT ![r] = Written(call.decision[r], new, stored)]
      /\ call.op = "review"
  BY DEF ReviewCommit, history
<1>2. /\ stage = "idle" /\ call.run = run /\ run \notin {"DRAFT", "RUNNING"}
      /\ call.decision[r] = stored
  BY <1>1, Found DEF Snapshot
<1>3. r \in clauses /\ call.verdict \in Statuses /\ call.decision[r] # NoDecision
  BY <1>1, TheCallTyped DEF TypedCall
<1>4. r \in Clauses /\ stored \in RowType /\ stored # NoDecision
  BY <1>2, <1>3, RowsFacts DEF DecisionType
<1>5. new \in RowType /\ new # NoDecision /\ new.summary[1] = "human"
  BY <1>3, VerdictFacts DEF Why
<1> HIDE DEF call, new, stored
<1>6. Written(stored, new, stored) = new
  BY <1>4, <1>5, WrittenFacts
<1>7. decision' = [decision EXCEPT ![r] = new]
  BY <1>1, <1>2, <1>6
<1>8. \A k \in Clauses : decision'[k] = IF k = r THEN new ELSE decision[k]
  BY <1>4, <1>7, RowsFacts DEF DecisionType
<1>9. Judged(decision') \subseteq Judged(decision)
  BY <1>4, <1>8 DEF Judged, stored
<1>10. run' = Ready(run, item', reviewed')
  BY <1>1, <1>2, WrittenStatus
<1>11. NothingLeft' /\ run' \notin {"DRAFT", "RUNNING"} /\ Unreviewed'
  BY <1>1, <1>2, <1>9, <1>10, ReadyStep, UnreviewedStep
<1>12. Itemised'
  BY <1>1, <1>7, ItemisedStep
<1>13. DecisionsFollowVersions'
  BY <1>1, <1>5, <1>8, RowsFacts, FollowsStep
<1>14. calls[c].op = "review"
  BY <1>1 DEF call
<1> QED
  BY <1>1, <1>2, <1>11, <1>12, <1>13, <1>14, CommitInv

LEMMA TickCommitInv ==
    ASSUME OneCaller, Typed, Inv, NEW c \in Callers, TickCommit(c)
    PROVE  Inv'
<1> DEFINE call == calls[c]
           value == Ready(call.run, item', reviewed)
           next == Ticked(call, value)
<1>1. /\ missed' = missed /\ outrun' = outrun
      /\ clauses' = clauses /\ version' = version /\ decision' = decision /\ target' = target
      /\ reviewed' = reviewed /\ planned' = planned /\ run' = run /\ UNCHANGED job
      /\ call.op = "tick"
      /\ item' = IF call.verdict = call.item THEN item
                 ELSE [item EXCEPT ![call.on] = call.verdict]
      /\ calls' = [calls EXCEPT ![c] = next]
  BY DEF TickCommit, Ticked, history
<1>2. stage = "idle" /\ call.run = run /\ run \notin {"DRAFT", "RUNNING"}
  BY <1>1, Found
<1>3. IsCall(call) /\ call.verdict \in {"open", "done"}
  BY <1>1, TheCallTyped DEF TypedCall
<1>4. \A d \in Callers : calls'[d] = next /\ calls[d].op = "tick"
  <2>1. calls' = [calls EXCEPT ![c] = next] /\ calls[c].op = "tick"
    BY <1>1
  <2> HIDE DEF next
  <2> QED
    BY <2>1, Alone
<1>5. \A k \in Clauses : item[k] # "none" => item'[k] # "none"
  BY <1>1, <1>3, RowsFacts DEF ItemType
<1>6. value = Ready(run, item', reviewed)
  BY <1>2
<1> HIDE DEF call, value
<1>7. next = TheCall("ticked", call.on, call.ids, value, call.item, call.version,
                     call.decision, call.run)
  BY <1>3, TickedCall
<1> HIDE DEF next
<1>8. next.op = "ticked" /\ next.verdict = value /\ next.run = run
  BY <1>2, <1>7, IsCallFacts
<1>9. InFlight'
  <2>1. Ready(run, item', reviewed) = Ready(run, item, reviewed)'
    BY <1>1 DEF Ready, NothingOpen
  <2>2. \A d \in Callers : /\ calls'[d].op = "ticked" /\ calls'[d].run = run'
                           /\ calls'[d].verdict = Ready(run, item, reviewed)'
    BY <1>1, <1>4, <1>6, <1>8, <2>1
  <2> QED
    BY <1>1, <1>2, <2>2 DEF InFlight, Snapshot, job
<1>10. AtWork'
  BY <1>1, <1>2, IdleStep DEF job
<1>11. Unreviewed'
  BY <1>1, UnreviewedStep
<1>12. Itemised'
  BY <1>1, <1>4, <1>5 DEF Inv, Itemised, Closed
<1>13. NothingLeft'
  BY <1>4, <1>8 DEF NothingLeft, Whole
<1>14. NoCycle' /\ Linked' /\ Unplanned'
  BY <1>1, <1>4, RelationsKept
<1>15. DecisionsFollowVersions'
  BY <1>1, FollowsStep
<1> QED
  BY <1>9, <1>10, <1>11, <1>12, <1>13, <1>14, <1>15 DEF Inv

LEMMA TickFinishInv ==
    ASSUME OneCaller, Typed, Inv, NEW c \in Callers, TickFinish(c)
    PROVE  Inv'
<1>1. /\ missed' = missed /\ outrun' = outrun
      /\ clauses' = clauses /\ version' = version /\ decision' = decision /\ target' = target
      /\ reviewed' = reviewed /\ planned' = planned /\ item' = item /\ UNCHANGED job
      /\ run' = WrittenRun(calls[c].run, calls[c].verdict) /\ Done(c) /\ calls[c].op = "ticked"
  BY DEF TickFinish, history
<1>2. /\ stage = "idle" /\ calls[c].run = run /\ run \notin {"DRAFT", "RUNNING"}
      /\ calls[c].verdict = Ready(run, item, reviewed)
  BY <1>1, Found DEF Snapshot
<1>3. run' = Ready(run, item', reviewed')
  BY <1>1, <1>2, WrittenStatus
<1>4. NothingLeft' /\ run' \notin {"DRAFT", "RUNNING"} /\ Unreviewed'
  BY <1>1, <1>2, <1>3, ReadyStep, UnreviewedStep
<1>5. Itemised'
  <2>1. \A d \in Callers : calls[d].op = "ticked"
    BY <1>1, AloneDone
  <2>2. run' \in {"COMPLETED", "NEEDS_REVIEW"} => run \in {"COMPLETED", "NEEDS_REVIEW"}
    BY <1>3 DEF Ready
  <2> QED
    BY <1>1, <2>1, <2>2 DEF Inv, Itemised, Closed
<1>6. DecisionsFollowVersions'
  BY <1>1, FollowsStep
<1> QED
  BY <1>1, <1>2, <1>4, <1>5, <1>6, CommitInv

LEMMA RecheckCommitInv ==
    ASSUME OneCaller, Typed, Inv, NEW c \in Callers, RecheckCommit(c)
    PROVE  Inv'
<1> DEFINE call == calls[c]
           E == call.decision
           K == call.ids
           v == call.version
           dec(D) == [k \in Clauses |-> IF k \in K THEN D[k] ELSE E[k]]
           st(D) == DecidedRun(dec(D))
           nx(D) == Rechecked(call, dec(D), st(D))
<1>1. /\ call.op = "recheck" /\ missed' = missed \ K /\ outrun' = outrun
      /\ clauses' = clauses /\ version' = version /\ item' = item /\ target' = target
      /\ reviewed' = reviewed /\ planned' = planned /\ UNCHANGED job
  BY DEF RecheckCommit
<1>2. PICK D \in Verdicts(v, K) :
          /\ decision' = [k \in Clauses |-> IF k \in K THEN Written(E[k], D[k], decision[k])
                                            ELSE decision[k]]
          /\ run' = WrittenRun(call.run, st(D))
          /\ calls' = [calls EXCEPT ![c] = nx(D)]
  BY DEF RecheckCommit, Rechecked
<1>3. /\ stage = "idle" /\ call.run = run /\ v = version /\ E = decision /\ K = clauses
  BY <1>1, Found DEF Snapshot
<1>4. IsCall(call)
  BY TheCallTyped DEF TypedCall
<1> DEFINE decided == dec(D)
           status == st(D)
           next == nx(D)
<1>5. /\ run' = WrittenRun(run, status) /\ calls' = [calls EXCEPT ![c] = next]
      /\ next = Rechecked(call, decided, status) /\ status = DecidedRun(decided)
      /\ decided = [k \in Clauses |-> IF k \in clauses THEN D[k] ELSE decision[k]]
      /\ decision' = [k \in Clauses |-> IF k \in clauses THEN Written(decision[k], D[k], decision[k])
                                        ELSE decision[k]]
      /\ D \in Verdicts(version, clauses)
  BY <1>2, <1>3
<1> HIDE DEF decided, status, next
<1>6. \A k \in clauses : /\ D[k] \in Compared(version, k)
                         /\ D[k] \in RowType /\ D[k] # NoDecision
  <2> DEFINE S == clauses
             w == version
  <2>1. w \in VersionType /\ Fits(w, S) /\ S \in SUBSET Clauses /\ S \in SUBSET S
        /\ D \in Verdicts(w, S)
    BY <1>5, RowsFacts
  <2> HIDE DEF S, w
  <2>2. \A k \in S : D[k] \in Compared(w, k) /\ D[k] \in RowType /\ D[k] # NoDecision
    BY <2>1, VerdictsFacts
  <2> QED
    BY <2>2 DEF S, w
<1>7. \A k \in clauses : Written(decision[k], D[k], decision[k]) = D[k]
  <2> SUFFICES ASSUME NEW k \in clauses PROVE Written(decision[k], D[k], decision[k]) = D[k]
    OBVIOUS
  <2> DEFINE stored == decision[k]
             new == D[k]
  <2>1. stored \in RowType /\ new \in RowType /\ new # NoDecision
    BY <1>6, RowsFacts DEF DecisionType
  <2> HIDE DEF stored, new
  <2>2. Written(stored, new, stored) = new
    BY <2>1, WrittenFacts
  <2> QED
    BY <2>2 DEF stored, new
<1>8. decision' = decided /\ \A k \in clauses : decision'[k] = D[k]
  <2>1. \A k \in Clauses : (IF k \in clauses THEN Written(decision[k], D[k], decision[k])
                            ELSE decision[k]) = IF k \in clauses THEN D[k] ELSE decision[k]
    BY <1>7
  <2> QED
    BY <1>5, <1>7, <2>1, RowsFacts
<1>9. run' = status /\ status \in {"COMPLETED", "NEEDS_REVIEW"}
  BY <1>5, WrittenStatus DEF DecidedRun
<1>10. next.op = "rechecked" /\ next.decision = decided /\ next.run = status
  <2>1. next = TheCall("rechecked", call.on, call.ids, call.verdict, call.item, call.version,
                       decided, status)
    BY <1>4, <1>5, RecheckedCall
  <2> HIDE DEF call
  <2> QED
    BY <2>1, IsCallFacts
<1>11. \A d \in Callers : calls'[d] = next /\ calls[d].op = "recheck"
  BY <1>1, <1>5, Alone
<1>12. InFlight'
  <2>1. \A d \in Callers : /\ calls'[d].op = "rechecked" /\ calls'[d].run = run'
                           /\ calls'[d].decision = decision'
    BY <1>8, <1>9, <1>10, <1>11
  <2> QED
    BY <1>1, <1>3, <2>1 DEF InFlight, Snapshot, job
<1>13. AtWork'
  BY <1>1, <1>3, <1>9, IdleStep DEF job
<1>14. Unreviewed'
  BY <1>9 DEF Unreviewed, Early
<1>15. Itemised' /\ NothingLeft'
  <2>1. Callers # {} /\ ~Whole' /\ ~\A d \in Callers : calls'[d].op \notin {"relink", "rechecked"}
    BY <1>10, <1>11 DEF Whole
  <2> QED
    BY <2>1 DEF Itemised, NothingLeft
<1>16. NoCycle' /\ Linked' /\ Unplanned'
  BY <1>1, <1>11, RelationsKept
<1>17. DecisionsFollowVersions'
  BY <1>1, <1>3, <1>6, <1>8, FollowsStep
<1> QED
  BY <1>12, <1>13, <1>14, <1>15, <1>16, <1>17 DEF Inv

LEMMA RecheckFinishInv ==
    ASSUME OneCaller, Typed, Inv, NEW c \in Callers, RecheckFinish(c)
    PROVE  Inv'
<1> DEFINE call == calls[c]
<1>1. /\ missed' = missed /\ outrun' = outrun
      /\ clauses' = clauses /\ version' = version /\ decision' = decision /\ planned' = planned
      /\ target' = target /\ reviewed' = reviewed /\ UNCHANGED job /\ Done(c)
      /\ item' = Checklist(Seen(call.decision), clauses)
      /\ run' = WrittenRun(call.run, Ready(call.run, item', reviewed))
      /\ call.op = "rechecked"
  BY DEF RecheckFinish, history
<1>2. /\ stage = "idle" /\ call.run = run /\ run \notin {"DRAFT", "RUNNING"}
      /\ call.decision = decision
  BY <1>1, Found DEF Snapshot
<1>3. Seen(call.decision) = decision'
  BY <1>1, <1>2, TheCallTyped, RowsFacts, SeenFacts DEF TypedCall
<1>4. run' = Ready(run, item', reviewed')
  BY <1>1, <1>2, WrittenStatus
<1>5. NothingLeft' /\ run' \notin {"DRAFT", "RUNNING"} /\ Unreviewed'
  BY <1>1, <1>2, <1>4, ReadyStep, UnreviewedStep
<1>6. Itemised'
  BY <1>1, <1>3, ItemisedStep
<1>7. DecisionsFollowVersions'
  BY <1>1, FollowsStep
<1> QED
  BY <1>1, <1>2, <1>5, <1>6, <1>7, CommitInv

LEMMA AddCommitInv ==
    ASSUME OneCaller, Typed, Inv, NEW c \in Callers, AddCommit(c)
    PROVE  Inv'
<1> DEFINE new == Clauses \ (clauses \cup Extracted)
           k == Min(new)
           row == Verdict("NEEDS_REVIEW", "added")
<1>1. /\ missed' = missed /\ outrun' = outrun
      /\ new # {} /\ clauses' = clauses \cup {k}
      /\ decision' = [decision EXCEPT ![k] = row]
      /\ item' = Checklist(decision', {})
      /\ run' = IF calls[c].run = "STALE" THEN run ELSE WrittenRun(calls[c].run, "NEEDS_REVIEW")
      /\ Done(c) /\ calls[c].op = "add"
      /\ version' = version /\ target' = target /\ reviewed' = reviewed /\ planned' = planned
      /\ UNCHANGED job
  BY DEF AddCommit, history
<1>2. k \in Clauses /\ k \notin clauses
  <2>1. new \in SUBSET Clauses
    OBVIOUS
  <2>2. k \in new
    BY <1>1, <2>1, NewClause
  <2> QED
    BY <2>2
<1>3. row.summary = <<"added", 0>>
  BY VerdictFacts DEF Why, Statuses
<1> HIDE DEF new, k, row
<1>4. stage = "idle" /\ calls[c].run = run /\ run \notin {"DRAFT", "RUNNING"}
  BY <1>1, Found
<1>5. run' \in {"STALE", "NEEDS_REVIEW"}
  BY <1>1, <1>4, WrittenStatus
<1>6. Unreviewed' /\ NothingLeft'
  BY <1>5 DEF Unreviewed, NothingLeft, Early
<1>7. Itemised'
  BY <1>1, ItemisedStep
<1>8. DecisionsFollowVersions'
  <2>1. \A d \in Clauses : decision'[d] = IF d = k THEN row ELSE decision[d]
    BY <1>2, <1>1, RowsFacts DEF DecisionType
  <2>2. \A d \in clauses' : \/ d \in clauses /\ decision'[d] = decision[d]
                            \/ decision'[d].summary[1] = "added" /\ d \notin clauses
    BY <1>1, <1>2, <1>3, <2>1, RowsFacts
  <2> QED
    BY <1>1, <2>2, FollowsStep
<1> QED
  BY <1>1, <1>4, <1>5, <1>6, <1>7, <1>8, CommitInv

LEMMA FillCommitInv ==
    ASSUME OneCaller, Typed, Inv, NEW c \in Callers, FillCommit(c) \/ RefreshCommit(c)
    PROVE  Inv'
<1>1. /\ missed' = missed /\ outrun' = outrun
      /\ clauses' = clauses /\ version' = version /\ decision' = decision /\ target' = target
      /\ planned' = planned /\ UNCHANGED job
      /\ item' = Checklist(decision, {})
      /\ run' = WrittenRun(calls[c].run, Ready(calls[c].run, item', reviewed'))
      /\ Done(c) /\ calls[c].op \in {"fill", "refresh"}
  BY DEF FillCommit, RefreshCommit, history
<1>2. stage = "idle" /\ calls[c].run = run /\ run \notin {"DRAFT", "RUNNING"}
  BY <1>1, Found
<1>3. run' = Ready(run, item', reviewed')
  BY <1>1, <1>2, WrittenStatus
<1>4. NothingLeft' /\ run' \notin {"DRAFT", "RUNNING"} /\ Unreviewed'
  BY <1>1, <1>2, <1>3, ReadyStep, UnreviewedStep
<1>5. Itemised'
  BY <1>1, ItemisedStep
<1>6. DecisionsFollowVersions'
  BY <1>1, FollowsStep
<1> QED
  BY <1>1, <1>2, <1>4, <1>5, <1>6, CommitInv

LEMMA BuildCommitInv ==
    ASSUME OneCaller, Typed, Inv, NEW c \in Callers, BuildCommit(c)
    PROVE  Inv'
<1>1. /\ missed' = missed /\ outrun' = FALSE
      /\ clauses' = clauses /\ version' = version /\ decision' = decision
      /\ target' \in Links(version) /\ planned' = TRUE /\ UNCHANGED job
      /\ item' = Checklist(decision, {})
      /\ Done(c) /\ calls[c].op = "build"
  BY DEF BuildCommit
<1>2. stage = "idle" /\ calls[c].run = run /\ run \notin {"DRAFT", "RUNNING"}
  BY <1>1, Found
<1>3. PICK status \in {run} : run' = Ready(status, item, reviewed)'
  <2>1. PICK status \in {calls[c].run} : run' = WrittenRun(status, Ready(status, item, reviewed)')
    BY DEF BuildCommit
  <2>2. status \in {run} /\ run' = Ready(status, item, reviewed)'
    BY <1>2, <2>1 DEF WrittenRun
  <2> QED
    BY <2>2
<1>4. InFlight' /\ \A d \in Callers : calls'[d].op = "none" /\ calls[d] = calls[c]
  BY <1>1, AloneDone
<1>5. AtWork'
  <2>1. run' \notin {"DRAFT", "RUNNING"}
    BY <1>2, <1>3 DEF Ready
  <2> QED
    BY <1>1, <1>2, <2>1, IdleStep DEF job
<1>6. /\ run' \in Early => run \in Early
      /\ NothingLeft'
  BY <1>3 DEF Ready, NothingLeft, Early
<1>7. Unreviewed'
  BY <1>1, <1>6, UnreviewedStep
<1>8. Itemised'
  BY <1>1, ItemisedStep
<1>9. Linked' /\ Unplanned'
  <2>1. InForce(version)' = InForce(version)
    BY <1>1 DEF InForce
  <2>2. \A t \in Targets : target'[t] \in InForce(version)' \cup {None}
    BY <1>1, <2>1, LinksFacts
  <2> QED
    BY <1>1, <2>2 DEF Linked, Unplanned
<1>10. NoCycle'
  BY <1>1 DEF Inv, NoCycle
<1>11. DecisionsFollowVersions'
  BY <1>1, FollowsStep
<1> QED
  BY <1>4, <1>5, <1>6, <1>7, <1>8, <1>9, <1>10, <1>11 DEF Inv

LEMMA ResumeCommitInv ==
    ASSUME OneCaller, Typed, Inv, NEW c \in Callers, ResumeCommit(c)
    PROVE  Inv'
<1>1. /\ missed' = missed /\ outrun' = outrun
      /\ clauses' = clauses /\ version' = version /\ decision' = decision /\ item' = item
      /\ target' = target /\ reviewed' = reviewed /\ planned' = planned
      /\ stage' = "queued" /\ run' = "DRAFT" /\ Done(c) /\ calls[c].op = "resume"
  BY DEF ResumeCommit, history
<1>2. run = "FAILED"
  BY <1>1, Found DEF Snapshot
<1>3. InFlight' /\ \A d \in Callers : calls'[d].op = "none" /\ calls[d] = calls[c]
  BY <1>1, AloneDone
<1>4. AtWork'
  BY <1>1 DEF AtWork
<1>5. Unreviewed'
  BY <1>1, <1>2, UnreviewedStep DEF Early
<1>6. Itemised' /\ NothingLeft'
  BY <1>1 DEF Itemised, NothingLeft
<1>7. NoCycle' /\ Linked' /\ Unplanned'
  BY <1>1, <1>3, RelationsKept
<1>8. DecisionsFollowVersions'
  BY <1>1, FollowsStep
<1> QED
  BY <1>3, <1>4, <1>5, <1>6, <1>7, <1>8 DEF Inv

LEMMA InputEditInv ==
    ASSUME OneCaller, Typed, Inv, NEW c \in Callers, InputEdit(c)
    PROVE  Inv'
<1>1. /\ missed' = missed /\ outrun' = outrun
      /\ clauses' = clauses /\ version' = version /\ target' = target /\ planned' = planned
      /\ calls' = calls /\ UNCHANGED job /\ MarkStale /\ calls[c] = NoCall
      /\ run \notin {"DRAFT", "RUNNING"}
  BY DEF InputEdit, history
<1>2. \A d \in Callers : calls[d].op = "none"
  <2>1. NoCall.op = "none"
    BY NoCallFacts, IsCallFacts
  <2> QED
    BY <1>1, <2>1 DEF OneCaller
<1>3. stage' = "idle"
  BY <1>1, RowsFacts DEF Inv, AtWork, Stages, job
<1> QED
  BY <1>1, <1>2, <1>3, MarkStaleInv

\* So can a clause that an edit of relations does not affect.
LEMMA StandingFacts ==
    ASSUME NEW v, NEW w, NEW r, NEW k \in Clauses, k \notin Affected(v, w, r)
    PROVE  /\ k # r /\ Replacer(v, k) = Replacer(w, k)
           /\ k \in InConflict(v) <=> k \in InConflict(w)
           /\ k \in Replaced(v) <=> k \in Replaced(w)
           /\ Compared(v, k) = Compared(w, k)
<1>1. /\ k # r /\ Replacer(v, k) = Replacer(w, k)
      /\ k \in InConflict(v) <=> k \in InConflict(w)
  BY DEF Affected
<1>2. k \in Replaced(v) <=> k \in Replaced(w)
  BY <1>1, ReplacedFacts
<1>3. Compared(v, k) = Compared(w, k)
  BY <1>1, <1>2 DEF Compared
<1> QED
  BY <1>1, <1>2, <1>3

\* What an edit of relations does, made by the only request there is.
LEMMA RelationCommitFacts ==
    ASSUME OneCaller, Typed, Inv, NEW c \in Callers, RelationCommit(c)
    PROVE  \E r \in clauses, ids \in SUBSET clauses :
             /\ r \notin Reach(version, ids)
             /\ version' = [version EXCEPT ![r] = [replaces |-> ids, conflicts |-> {}, settled |-> TRUE]]
             /\ \A k \in Clauses :
                   k \notin Affected(version, version', r) => decision'[k] = decision[k]
             /\ \A k \in Affected(version, version', r) : decision'[k] \in Compared(version', k)
             /\ missed' = missed \ Affected(version, version', r)
             /\ run' \in {"STALE", "COMPLETED", "NEEDS_REVIEW"}
             /\ \A d \in Callers : /\ calls'[d].op = "relink" /\ calls'[d].version = version'
                                   /\ calls'[d].decision = decision' /\ calls'[d].run = run'
<1> DEFINE call == calls[c]
           r == call.on
           ids == call.ids
           confirmed == [replaces |-> ids, conflicts |-> {}, settled |-> TRUE]
           new == [call.version EXCEPT ![r] = confirmed]
           affected == Affected(call.version, new, r)
           dec(D) == [k \in Clauses |-> IF k \in affected THEN D[k] ELSE decision[k]]
           st(D) == IF call.run = "STALE" THEN "STALE" ELSE DecidedRun(dec(D))
           nx(D) == Relinked(call, affected, new, dec(D), st(D))
<1>1. /\ call.op = "relation" /\ version' = [version EXCEPT ![r] = confirmed]
      /\ missed' = missed \ affected
  BY DEF RelationCommit
<1>2. PICK D \in Verdicts(new, affected) :
          /\ decision' = dec(D)
          /\ run' = WrittenRun(call.run, st(D))
          /\ calls' = [calls EXCEPT ![c] = nx(D)]
  BY DEF RelationCommit, Relinked
<1>3. /\ call.run = run /\ call.version = version /\ r \notin Reach(version, ids)
  BY <1>1, Found DEF Snapshot
<1>4. IsCall(call) /\ r \in clauses /\ ids \in SUBSET clauses
  BY <1>1, TheCallTyped DEF TypedCall
<1>5. new = version' /\ affected = Affected(version, version', r)
  BY <1>1, <1>3
<1> DEFINE decided == dec(D)
           status == st(D)
           next == nx(D)
<1>6. /\ decision' = decided /\ run' = WrittenRun(run, status)
      /\ calls' = [calls EXCEPT ![c] = next]
      /\ next = Relinked(call, affected, new, decided, status)
      /\ decided = [k \in Clauses |-> IF k \in affected THEN D[k] ELSE decision[k]]
      /\ status \in {"STALE", "COMPLETED", "NEEDS_REVIEW"}
  BY <1>2, <1>3 DEF DecidedRun
<1>7. \A k \in affected : D[k] \in Compared(new, k)
  BY <1>2 DEF Verdicts
<1> HIDE DEF call, r, ids, new, affected, decided, status, next
<1>8. /\ next.op = "relink" /\ next.version = new /\ next.decision = decided /\ next.run = status
  <2>1. next = TheCall("relink", call.on, affected, call.verdict, call.item, new, decided, status)
    BY <1>4, <1>6, RelinkCall
  <2> QED
    BY <2>1, IsCallFacts
<1>9. \A d \in Callers : calls'[d] = next
  <2>1. calls' = [calls EXCEPT ![c] = next]
    BY <1>6
  <2> QED
    BY <2>1, Alone
<1>10. run' = status
  BY <1>6, WrittenStatus
<1>11. affected \subseteq Clauses
  <2>1. r \in Clauses
    BY <1>4, RowsFacts
  <2>2. InConflict(version) \subseteq Clauses
    BY RowsFacts, VersionFacts
  <2>3. InConflict(version') \subseteq Clauses
    <3>1. version' \in VersionType /\ Fits(version', clauses') /\ clauses' \in SUBSET Clauses
      BY RelationCommitTyped DEF Typed, Rows
    <3> QED
      BY <3>1, VersionFacts
  <2> QED
    BY <1>5, <2>1, <2>2, <2>3 DEF Affected
<1>12. /\ \A k \in Clauses : k \notin affected => decision'[k] = decision[k]
       /\ \A k \in affected : decision'[k] \in Compared(version', k)
  BY <1>5, <1>6, <1>7, <1>11
<1>13. \A d \in Callers : /\ calls'[d].op = "relink" /\ calls'[d].version = version'
                          /\ calls'[d].decision = decision' /\ calls'[d].run = run'
  BY <1>5, <1>6, <1>8, <1>9, <1>10
<1>14. version' = [version EXCEPT ![r] = [replaces |-> ids, conflicts |-> {}, settled |-> TRUE]]
  BY <1>1 DEF r, ids, call
<1>15. r \in clauses /\ ids \in SUBSET clauses
  BY <1>4
<1>16. missed' = missed \ Affected(version, version', r)
  BY <1>1, <1>5
<1> USE <1>15
<1> WITNESS r \in clauses, ids \in SUBSET clauses
<1> QED
  BY <1>3, <1>5, <1>6, <1>10, <1>12, <1>13, <1>14, <1>16

LEMMA RelationCommitInv ==
    ASSUME OneCaller, Typed, Inv, NEW c \in Callers, RelationCommit(c)
    PROVE  Inv'
<1>1. /\ clauses' = clauses /\ item' = item /\ target' = target /\ reviewed' = reviewed
      /\ planned' = planned /\ UNCHANGED job /\ calls[c].op = "relation"
  BY DEF RelationCommit
<1>2. stage = "idle" /\ run \notin {"DRAFT", "RUNNING"}
  BY <1>1, Found
<1>3. PICK r \in clauses, ids \in SUBSET clauses :
             /\ r \notin Reach(version, ids)
             /\ version' = [version EXCEPT ![r] = [replaces |-> ids, conflicts |-> {}, settled |-> TRUE]]
             /\ \A k \in Clauses :
                   k \notin Affected(version, version', r) => decision'[k] = decision[k]
             /\ \A k \in Affected(version, version', r) : decision'[k] \in Compared(version', k)
             /\ missed' = missed \ Affected(version, version', r)
             /\ run' \in {"STALE", "COMPLETED", "NEEDS_REVIEW"}
             /\ \A d \in Callers : /\ calls'[d].op = "relink" /\ calls'[d].version = version'
                                   /\ calls'[d].decision = decision' /\ calls'[d].run = run'
  BY RelationCommitFacts
<1>4. InFlight'
  BY <1>1, <1>2, <1>3 DEF InFlight, Snapshot, job
<1>5. AtWork'
  BY <1>1, <1>2, <1>3, IdleStep DEF job
<1>6. Unreviewed'
  BY <1>3 DEF Unreviewed, Early
<1>7. Itemised' /\ NothingLeft' /\ Linked'
  <2>1. /\ ~Whole' /\ ~\A d \in Callers : calls'[d].op \notin {"relink", "rechecked"}
        /\ ~\A d \in Callers : calls'[d].op # "relink"
    BY <1>3 DEF Whole
  <2> QED
    BY <2>1 DEF Itemised, NothingLeft, Linked
<1>8. Unplanned'
  BY <1>1 DEF Inv, Unplanned
<1>9. NoCycle'
  <2> DEFINE v == version
             w == version'
  <2>1. v \in VersionType /\ Acyclic(v)
    BY RowsFacts DEF Inv, NoCycle, Acyclic
  <2>2. w \in VersionType
    BY RelationCommitTyped DEF Typed, Rows
  <2>3. r \in Clauses /\ ids \in SUBSET Clauses /\ r \notin Reach(v, ids)
    BY <1>3, RowsFacts
  <2>4. w[r].replaces = ids /\ \A k \in Clauses \ {r} : w[k].replaces = v[k].replaces
    BY <1>3, <2>1, <2>3 DEF VersionType
  <2> HIDE DEF v, w
  <2>5. Acyclic(w)
    BY <2>1, <2>2, <2>3, <2>4, EditKeepsAcyclic
  <2> QED
    BY <2>5 DEF w, Acyclic, NoCycle
<1>10. DecisionsFollowVersions'
  <2> SUFFICES ASSUME NEW k \in clauses \ missed',
                      decision'[k] # NoDecision, ~decision'[k].stale,
                      decision'[k].summary[1] # "human"
               PROVE  \/ decision'[k].summary \in {d.summary : d \in Compared(version', k)}
                      \/ decision'[k].summary[1] = "added" /\ k \in InForce(version)'
    BY <1>1 DEF DecisionsFollowVersions
  <2>1. k \in Clauses
    BY RowsFacts
  <2>2. CASE k \in Affected(version, version', r)
    BY <1>3, <2>2
  <2>3. CASE k \notin Affected(version, version', r)
    <3>1. decision'[k] = decision[k] /\ k \notin missed
      BY <1>3, <2>1, <2>3
    <3>2. /\ k \in InConflict(version) <=> k \in InConflict(version')
          /\ k \in Replaced(version) <=> k \in Replaced(version')
          /\ Compared(version, k) = Compared(version', k)
      BY <2>1, <2>3, StandingFacts
    <3>3. k \in InForce(version) => k \in InForce(version)'
      BY <1>1, <3>2 DEF InForce
    <3> QED
      BY <3>1, <3>2, <3>3 DEF Inv, DecisionsFollowVersions
  <2> QED
    BY <2>2, <2>3
<1> QED
  BY <1>4, <1>5, <1>6, <1>7, <1>8, <1>9, <1>10 DEF Inv

LEMMA RelationFinishInv ==
    ASSUME OneCaller, Typed, Inv, NEW c \in Callers, RelationFinish(c)
    PROVE  Inv'
<1> DEFINE call == calls[c]
           last(t) == IF target[t] = None THEN None ELSE Latest(call.version, target[t])
<1>1. /\ missed' = missed /\ outrun' = FALSE
      /\ clauses' = clauses /\ version' = version /\ decision' = decision /\ planned' = planned
      /\ UNCHANGED job /\ Done(c) /\ call.op = "relink"
      /\ item' = Checklist(Seen(call.decision), call.ids)
      /\ run' = IF call.run = "COMPLETED" THEN "NEEDS_REVIEW" ELSE run
      /\ \A t \in Targets : last(t) \notin Replaced(call.version)
      /\ target' = [t \in Targets |->
                        IF last(t) \in InConflict(call.version) THEN None ELSE last(t)]
  BY DEF RelationFinish
<1>2. /\ stage = "idle" /\ call.run = run /\ run \notin {"DRAFT", "RUNNING"}
      /\ call.version = version /\ call.decision = decision
  BY <1>1, Found DEF Snapshot
<1>3. InFlight' /\ \A d \in Callers : calls'[d].op = "none"
  BY <1>1, AloneDone
<1>4. AtWork'
  BY <1>1, <1>2, IdleStep DEF job
<1>5. Unreviewed'
  BY <1>1, <1>2, UnreviewedStep DEF Early
<1>6. Itemised'
  <2>1. Seen(call.decision) = decision'
    BY <1>1, <1>2, TheCallTyped, RowsFacts, SeenFacts DEF TypedCall
  <2> QED
    BY <1>1, <2>1, ItemisedStep
<1>7. NothingLeft'
  BY <1>1, <1>2 DEF NothingLeft
<1>8. Linked'
  <2>1. InForce(version)' = clauses \ (Replaced(version) \cup InConflict(version))
    BY <1>1 DEF InForce
  <2>2. target' \in [Targets -> clauses' \cup {None}]
    BY RelationFinishTyped, RowsFacts DEF Typed, Rows
  <2>3. \A t \in Targets : target'[t] \in InForce(version)' \cup {None}
    BY <1>1, <1>2, <2>1, <2>2
  <2> QED
    BY <2>3 DEF Linked
<1>9. Unplanned'
  <2>1. planned \/ \A t \in Targets : last(t) = None
    BY DEF Inv, Unplanned
  <2> QED
    BY <1>1, <2>1 DEF Unplanned
<1>10. NoCycle'
  BY <1>1 DEF Inv, NoCycle
<1>11. DecisionsFollowVersions'
  BY <1>1, FollowsStep
<1> QED
  BY <1>3, <1>4, <1>5, <1>6, <1>7, <1>8, <1>9, <1>10, <1>11 DEF Inv

LEMMA StutterInv ==
    ASSUME Typed, Inv, UNCHANGED vars
    PROVE  Inv'
<1>1. /\ missed' = missed /\ outrun' = outrun
      /\ clauses' = clauses /\ version' = version /\ decision' = decision /\ target' = target
      /\ reviewed' = reviewed /\ planned' = planned /\ item' = item /\ run' = run
      /\ calls' = calls /\ stage' = stage /\ worker' = worker
  BY DEF vars, rows, job, history
<1>2. InFlight'
  BY <1>1 DEF Inv, InFlight, Snapshot, Ready, NothingOpen
<1>3. AtWork' /\ Unreviewed'
  BY <1>1, UnreviewedStep DEF Inv, AtWork, Settled
<1>4. Itemised' /\ NothingLeft'
  BY <1>1 DEF Inv, Itemised, NothingLeft, Whole, NothingOpen, Closed
<1>5. NoCycle' /\ Linked' /\ Unplanned'
  BY <1>1, RelationsKept
<1>6. DecisionsFollowVersions'
  BY <1>1, FollowsStep
<1> QED
  BY <1>2, <1>3, <1>4, <1>5, <1>6 DEF Inv

LEMMA NextInv ==
    ASSUME OneCaller, Typed, Inv, [Next]_vars
    PROVE  Inv'
<1>1. CASE Analysis
  BY <1>1, BeginInv, ResolveInv, BeginDecidingInv, DecideInv, PlanInv, FinishInv,
     FailInv DEF Analysis
<1>2. ASSUME NEW c \in Callers, Request(c) PROVE Inv'
  <2>1. ASSUME NEW r \in clauses,
               \/ \E ids \in SUBSET clauses : RelationRead(c, r, ids)
               \/ \E what \in {"text", "condition"} : EditRead(c, r, what)
               \/ \E status \in Statuses : ReviewRead(c, r, status)
               \/ \E value \in {"open", "done"} : TickRead(c, r, value)
        PROVE  Inv'
    <3>1. CASE \/ \E what \in {"text", "condition"} : EditRead(c, r, what)
               \/ \E value \in {"open", "done"} : TickRead(c, r, value)
      BY <3>1, OtherReadsInv
    <3>2. CASE \/ \E ids \in SUBSET clauses : RelationRead(c, r, ids)
               \/ \E status \in Statuses : ReviewRead(c, r, status)
      BY <3>2, RelationReadInv, ReviewReadInv
    <3> QED
      BY <2>1, <3>1, <3>2
  <2>2. CASE \/ AddRead(c) \/ BuildRead(c) \/ RefreshRead(c) \/ ResumeRead(c)
            \/ \E t \in Targets : FillRead(c, t)
    BY <2>2, OtherReadsInv
  <2>3. CASE RelationCommit(c) \/ RelationFinish(c) \/ EditCommit(c) \/ ReviewCommit(c)
    BY <2>3, RelationCommitInv, RelationFinishInv, EditCommitInv, ReviewCommitInv
  <2>4. CASE TickCommit(c) \/ TickFinish(c) \/ RecheckRead(c) \/ RecheckCommit(c)
             \/ RecheckFinish(c)
    BY <2>4, TickCommitInv, TickFinishInv, RecheckReadInv, RecheckCommitInv, RecheckFinishInv
  <2>5. CASE AddCommit(c) \/ FillCommit(c) \/ BuildCommit(c) \/ RefreshCommit(c) \/ ResumeCommit(c)
            \/ InputEdit(c)
    BY <2>5, AddCommitInv, FillCommitInv, BuildCommitInv, ResumeCommitInv, InputEditInv
  <2> QED
    BY <1>2, <2>1, <2>2, <2>3, <2>4, <2>5 DEF Request
<1> QED
  BY <1>1, <1>2, StutterInv DEF Next

LEMMA InvAlways ==
    ASSUME OneCaller
    PROVE  Spec => [](Typed /\ Inv)
<1>1. Init => Typed /\ Inv
  BY InitTyped, InvInit
<1>2. Typed /\ Inv /\ [Next]_vars => Typed' /\ Inv'
  BY NextTyped, NextInv
<1> QED
  BY <1>1, <1>2, PTL DEF Spec

\* With requests one after the other, clauses never come to replace each other
\* in a circle: the analysis settles all amendments, each against what precedes
\* it, before anybody can edit a relation, and update_requirement refuses an
\* edit that would close a circle.
THEOREM ReplacementsAcyclic ==
    ASSUME OneCaller
    PROVE  Spec => []NoCycle
<1>1. Typed /\ Inv => NoCycle
  BY DEF Inv
<1> QED
  BY <1>1, InvAlways, PTL

\* So the loop of update_requirement that follows replacements to the clause a
\* place is to be linked to ends.
THEOREM RelinkingTerminates ==
    ASSUME OneCaller
    PROVE  Spec => []RelinkingEnds
<1>1. ASSUME Typed, Inv PROVE RelinkingEnds
  <2> SUFFICES ASSUME NEW c \in Callers, calls[c].op = "relink", NEW t \in Targets,
                      target[t] # None
               PROVE  Latest(calls[c].version, target[t]) \notin Replaced(calls[c].version)
    BY DEF RelinkingEnds
  <2>1. calls[c].version = version
    BY <1>1, TheSnapshot DEF Snapshot
  <2>2. version \in VersionType /\ Acyclic(version) /\ target[t] \in Clauses
    BY <1>1, RowsFacts DEF Inv, NoCycle, Acyclic
  <2> QED
    BY <2>1, <2>2, LatestEnds
<1>2. Typed /\ Inv => RelinkingEnds
  BY <1>1
<1> QED
  BY <1>2, InvAlways, PTL

\* With requests one after the other, a run reads completed only when every item
\* of its checklist is done, every place to fill has been dealt with, and every
\* clause that is not met has been ticked off (checklist.py, the requests).
THEOREM CompletedMeansDone ==
    ASSUME OneCaller
    PROVE  Spec => []CompletedRunHasNothingOpen
<1>1. ASSUME Typed, Inv PROVE CompletedRunHasNothingOpen
  <2> SUFFICES ASSUME run = "COMPLETED", Whole
               PROVE  /\ NothingOpen(item, reviewed)
                      /\ \A c \in clauses :
                            decision[c] # NoDecision /\ ~Closed(decision[c]) => item[c] = "done"
    BY DEF CompletedRunHasNothingOpen
  <2>1. NothingOpen(item, reviewed)
    BY <1>1 DEF Inv, NothingLeft
  <2>2. \A c \in Clauses : decision[c] # NoDecision /\ ~Closed(decision[c]) => item[c] # "none"
    BY <1>1 DEF Inv, Itemised, Whole
  <2>3. \A c \in clauses : c \in Clauses /\ item[c] \in {"none", "open", "done"} /\ item[c] # "open"
    BY <1>1, <2>1, RowsFacts DEF NothingOpen, ItemType
  <2> QED
    BY <2>1, <2>2, <2>3
<1>2. Typed /\ Inv => CompletedRunHasNothingOpen
  BY <1>1
<1> QED
  BY <1>2, InvAlways, PTL

\* With requests one after the other, whatever relations are edited, a decision
\* that is neither stale nor made by a person says what becomes of its clause
\* under the relations there are now (affected_ids, compare_requirement).  Only
\* an edit that sends condition_json whole leaves decisions behind, those about
\* clauses whose standing it changes, itself or by having an amendment resolved
\* again, and only until they are decided again.
THEOREM DecisionsKeepUp ==
    ASSUME OneCaller
    PROVE  Spec => []DecisionsFollowVersions
<1>1. Typed /\ Inv => DecisionsFollowVersions
  BY DEF Inv
<1> QED
  BY <1>1, InvAlways, PTL

\* With requests one after the other, places to fill are linked to clauses in
\* force, if no amendment was resolved after they were linked, which takes a plan
\* asked for after a failed analysis that is then resumed (create_fill_plan, the
\* end of update_requirement, build_fill_plan).
THEOREM PlacesStayLinked ==
    ASSUME OneCaller
    PROVE  Spec => []PlacesLinkedToClausesInForce
<1>1. Typed /\ Inv => PlacesLinkedToClausesInForce
  BY DEF Inv, Linked, PlacesLinkedToClausesInForce, Whole
<1> QED
  BY <1>1, InvAlways, PTL

\* With requests one after the other, an edit of relations keeps what people
\* have concluded about clauses whose standing it does not change.
THEOREM ConclusionsSurviveEdits ==
    ASSUME OneCaller
    PROVE  Spec => UnrelatedConclusionsKept
<1> DEFINE Kept == \A c \in Clauses :
              /\ version' # version
              /\ c \notin Moved(version, version')
              /\ decision[c].summary[1] = "human"
              => decision'[c] = decision[c]
<1>1. ASSUME Typed, Inv, [Next]_vars PROVE Kept
  <2>1. CASE UNCHANGED version
    BY <2>1
  <2>2. CASE \E c \in Clauses : Resolve(c)
    BY <2>2 DEF Resolve
  <2>3. ASSUME NEW c \in Callers, RelationCommit(c) PROVE Kept
    <3>1. PICK r \in clauses, ids \in SUBSET clauses :
             /\ version' = [version EXCEPT ![r] = [replaces |-> ids, conflicts |-> {}, settled |-> TRUE]]
             /\ \A k \in Clauses :
                   k \notin Affected(version, version', r) => decision'[k] = decision[k]
      BY <1>1, <2>3, RelationCommitFacts
    <3> SUFFICES ASSUME NEW k \in Clauses, version' # version, k \notin Moved(version, version')
                 PROVE  k \notin Affected(version, version', r)
      BY <3>1
    <3>2. /\ version'[k] = version[k] /\ Replacer(version', k) = Replacer(version, k)
          /\ k \in InConflict(version') <=> k \in InConflict(version)
      BY MovedFacts
    <3>3. k # r
      <4> SUFFICES ASSUME k = r PROVE FALSE
        OBVIOUS
      <4>1. version'[r] = version[r]
        BY <3>2
      <4>2. version' = version
        BY <1>1, <3>1, <4>1, RowsFacts DEF VersionType
      <4> QED
        BY <4>2
    <3> QED
      BY <3>2, <3>3 DEF Affected
  <2>4. ASSUME NEW c \in Callers, EditCommit(c) PROVE Kept
    <3> DEFINE r == calls[c].on
               row == [Verdict("NEEDS_REVIEW", "edited") EXCEPT !.stale = TRUE]
    <3>1. /\ decision' = IF decision[r] = NoDecision THEN decision
                         ELSE [decision EXCEPT ![r] = row]
          /\ calls[c].op = "edit"
      BY <2>4 DEF EditCommit
    <3>2. PICK new : version' = [version EXCEPT ![r] = new]
      BY <2>4 DEF EditCommit
    <3>3. r \in Clauses
      BY <1>1, <3>1, TheCallTyped, RowsFacts DEF TypedCall
    <3> HIDE DEF row, r
    <3> SUFFICES ASSUME NEW k \in Clauses, version' # version, k \notin Moved(version, version')
                 PROVE  decision'[k] = decision[k]
      OBVIOUS
    <3>4. version'[k] = version[k]
      BY MovedFacts
    <3>5. k # r
      <4> SUFFICES ASSUME k = r PROVE FALSE
        OBVIOUS
      <4>1. version' = version
        BY <1>1, <3>2, <3>4, RowsFacts DEF VersionType
      <4> QED
        BY <4>1
    <3> QED
      BY <1>1, <3>1, <3>5, RowsFacts DEF DecisionType
  <2>5. CASE Analysis
    BY <2>1, <2>2, <2>5 DEF Analysis, Begin, BeginDeciding, Decide, Plan, Finish, Fail, rows
  <2>6. ASSUME NEW c \in Callers, Request(c), ~RelationCommit(c), ~EditCommit(c)
        PROVE  UNCHANGED version
    <3>1. ASSUME NEW call, Load(c, call) PROVE UNCHANGED version
      BY <3>1 DEF Load, rows
    <3> QED
      BY <2>6, <3>1 DEF Request, RelationRead, EditRead, ReviewRead, TickRead, RelationFinish,
         ReviewCommit, TickCommit, TickFinish, RecheckRead, RecheckCommit,
         RecheckFinish, AddRead, AddCommit, FillRead, FillCommit, BuildRead, BuildCommit,
         RefreshRead, RefreshCommit, ResumeRead, ResumeCommit, InputEdit
  <2>7. CASE UNCHANGED vars
    BY <2>1, <2>7 DEF vars, rows
  <2> QED
    BY <1>1, <2>1, <2>3, <2>4, <2>5, <2>6, <2>7 DEF Next
<1>2. Typed /\ Inv /\ [Next]_vars => [Kept]_vars
  BY <1>1
<1> QED
  BY <1>2, InvAlways, PTL DEF Spec, UnrelatedConclusionsKept
=============================================================================
