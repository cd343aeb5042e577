-------------------------- MODULE Comparison_proofs --------------------------
(***************************************************************************)
(* What Comparison promises, for any requirements, records, dates, bidder, *)
(* bounds and answers of the model.                                        *)
(*                                                                         *)
(* First trees and what evaluating them computes; then what a rule, a      *)
(* project and a group of records say; then the decisions.                 *)
(***************************************************************************)
EXTENDS Comparison, Iteration

-----------------------------------------------------------------------------
(***************************************************************************)
(* Finite sets.                                                            *)
(***************************************************************************)
\* The image of a finite set under a function is finite, and not larger.
LEMMA FiniteImage ==
    ASSUME NEW S, IsFiniteSet(S), NEW T, NEW f \in [S -> T]
    PROVE  /\ IsFiniteSet({f[x] : x \in S})
           /\ Cardinality({f[x] : x \in S}) <= Cardinality(S)
<1> DEFINE image == {f[x] : x \in S}
<1>1. f \in Surjection(S, image)
  BY DEF Surjection
<1> QED
  BY <1>1, FS_Surjection

\* A finite set of integers that is not empty has a least element, which Min finds.
LEMMA MinOfFinite ==
    ASSUME NEW S \in SUBSET Int, IsFiniteSet(S), S # {}
    PROVE  Min(S) \in S /\ \A n \in S : Min(S) <= n
<1> DEFINE N == {n \in Nat : \A X \in SUBSET Int : IsFiniteSet(X) /\ X # {} /\ Cardinality(X) = n
                                 => \E m \in X : \A y \in X : m <= y}
<1>1. 0 \in N
  BY FS_EmptySet
<1>2. ASSUME NEW n \in Nat, n \in N PROVE n + 1 \in N
  <2> SUFFICES ASSUME NEW X \in SUBSET Int, IsFiniteSet(X), X # {}, Cardinality(X) = n + 1
               PROVE  \E m \in X : \A y \in X : m <= y
    OBVIOUS
  <2>1. PICK x : x \in X
    OBVIOUS
  <2>2. IsFiniteSet(X \ {x}) /\ Cardinality(X \ {x}) = n
    <3>1. IsFiniteSet(X \ {x}) /\ Cardinality(X \ {x}) = Cardinality(X) - 1
      BY <2>1, FS_RemoveElement
    <3> QED
      BY <3>1
  <2>3. CASE X \ {x} = {}
    BY <2>1, <2>3
  <2>4. CASE X \ {x} # {}
    <3>1. PICK m \in X \ {x} : \A y \in X \ {x} : m <= y
      BY <1>2, <2>2, <2>4
    <3>2. x \in Int /\ m \in Int
      BY <2>1
    <3> QED
      BY <2>1, <3>1, <3>2
  <2> QED
    BY <2>3, <2>4
<1> HIDE DEF N
<1>3. Nat \subseteq N
  BY <1>1, <1>2, Induction
<1>4. Cardinality(S) \in Nat
  BY FS_CardinalityType
<1>5. \E m \in S : \A y \in S : m <= y
  BY <1>3, <1>4 DEF N
<1> QED
  BY <1>5 DEF Min

\* ... and a greatest one, which Max finds.
LEMMA MaxOfFinite ==
    ASSUME NEW S \in SUBSET Int, IsFiniteSet(S), S # {}
    PROVE  Max(S) \in S /\ \A n \in S : n <= Max(S)
<1> DEFINE f == [n \in S |-> -n]
           T == {f[n] : n \in S}
<1>1. f \in [S -> Int] /\ \A n \in S : f[n] = -n
  OBVIOUS
<1> HIDE DEF f
<1>2. IsFiniteSet(T)
  BY <1>1, FiniteImage, Zenon
<1>3. T \in SUBSET Int /\ T # {}
  BY <1>1
<1> HIDE DEF T
<1>4. Min(T) \in T /\ \A n \in T : Min(T) <= n
  BY <1>2, <1>3, MinOfFinite
<1>5. PICK m \in S : Min(T) = f[m]
  BY <1>4 DEF T
<1>6. \A n \in S : f[m] <= f[n]
  BY <1>4, <1>5 DEF T
<1>7. \A n \in S : n <= m
  BY <1>1, <1>6
<1>8. \E x \in S : \A y \in S : x >= y
  BY <1>7
<1> QED
  BY <1>8 DEF Max

-----------------------------------------------------------------------------
(***************************************************************************)
(* Trees.  What holds of a node if it holds of its children holds of all;  *)
(* and what is said of a node from its children has a solution.            *)
(***************************************************************************)
IsTree(condition) ==
    /\ IsFiniteSet(DOMAIN condition) /\ <<>> \in DOMAIN condition
    /\ DOMAIN condition \subseteq Seq(Nat \ {0})

\* The paths of a tree are not longer than some number.
LEMMA PathsAreBounded ==
    ASSUME NEW c, IsTree(c)
    PROVE  \E n \in Nat : \A p \in DOMAIN c : Len(p) \in Nat /\ Len(p) < n
<1> DEFINE D == DOMAIN c
           f == [p \in D |-> Len(p)]
           T == {f[p] : p \in D}
<1>1. D \subseteq Seq(Nat \ {0}) /\ IsFiniteSet(D) /\ <<>> \in D
  BY DEF IsTree
<1>2. \A p \in D : Len(p) \in Nat
  BY <1>1
<1> HIDE DEF D
<1>3. f \in [D -> Nat] /\ \A p \in D : f[p] = Len(p)
  BY <1>2
<1> HIDE DEF f
<1>4. IsFiniteSet(T)
  BY <1>1, <1>3, FiniteImage, Zenon
<1>5. T \in SUBSET Int /\ T # {} /\ T \subseteq Nat
  BY <1>1, <1>3
<1>6. Max(T) \in T /\ \A n \in T : n <= Max(T)
  <2> HIDE DEF T
  <2> QED
    BY <1>4, <1>5, MaxOfFinite
<1>7. \A p \in D : Len(p) <= Max(T)
  BY <1>3, <1>6
<1>8. \A p \in D : Len(p) \in Nat /\ Len(p) < Max(T) + 1
  BY <1>2, <1>5, <1>6, <1>7
<1>9. Max(T) + 1 \in Nat
  BY <1>5, <1>6
<1> QED
  BY <1>8, <1>9 DEF D

\* Induction from the leaves to the root.
LEMMA TreeInduction ==
    ASSUME NEW c, IsTree(c), NEW S,
           \A p \in DOMAIN c : Children(c, p) \subseteq S => p \in S
    PROVE  DOMAIN c \subseteq S
<1>1. PICK N \in Nat : \A p \in DOMAIN c : Len(p) \in Nat /\ Len(p) < N
  BY PathsAreBounded
<1> DEFINE T == {n \in Nat : \A p \in DOMAIN c : Len(p) + n >= N => p \in S}
<1>2. 0 \in T
  BY <1>1
<1>3. ASSUME NEW n \in Nat, n \in T PROVE n + 1 \in T
  <2> SUFFICES ASSUME NEW p \in DOMAIN c, Len(p) + (n + 1) >= N PROVE p \in S
    OBVIOUS
  <2>1. \A q \in Children(c, p) : q \in DOMAIN c /\ Len(q) = Len(p) + 1
    BY DEF Children
  <2>2. \A q \in Children(c, p) : Len(q) + n >= N
    BY <1>1, <2>1
  <2>3. Children(c, p) \subseteq S
    BY <1>3, <2>1, <2>2
  <2> QED
    BY <2>3
<1> HIDE DEF T
<1>4. Nat \subseteq T
  BY <1>2, <1>3, Induction
<1>5. N \in T
  BY <1>4
<1> QED
  BY <1>1, <1>5 DEF T

\* A function that is said for each node in terms of its children exists.
LEMMA TreeRecursion ==
    ASSUME NEW c, IsTree(c), NEW V, V # {}, NEW F \in [[DOMAIN c -> V] -> [DOMAIN c -> V]],
           \A v, w \in [DOMAIN c -> V] : \A p \in DOMAIN c :
               (\A q \in Children(c, p) : v[q] = w[q]) => F[v][p] = F[w][p]
    PROVE  \E v \in [DOMAIN c -> V] : v = F[v]
<1> DEFINE D == DOMAIN c
<1>1. PICK N \in Nat : \A p \in D : Len(p) \in Nat /\ Len(p) < N
  BY PathsAreBounded
<1> DEFINE T == {n \in Nat : \E v \in [D -> V] : \A p \in D : Len(p) + n >= N => v[p] = F[v][p]}
<1>2. 0 \in T
  <2>1. PICK a : a \in V
    OBVIOUS
  <2>2. [p \in D |-> a] \in [D -> V]
    BY <2>1
  <2>3. \A p \in D : ~(Len(p) + 0 >= N)
    BY <1>1
  <2>4. \E v \in [D -> V] : TRUE
    BY <2>2
  <2> QED
    BY <2>3, <2>4
<1>3. ASSUME NEW n \in Nat, n \in T PROVE n + 1 \in T
  <2>1. PICK v \in [D -> V] : \A p \in D : Len(p) + n >= N => v[p] = F[v][p]
    BY <1>3
  <2> DEFINE w == F[v]
  <2>2. w \in [D -> V]
    BY <2>1
  <2> SUFFICES ASSUME NEW p \in D, Len(p) + (n + 1) >= N PROVE w[p] = F[w][p]
    BY <2>2
  <2>3. \A q \in Children(c, p) : q \in D /\ Len(q) + n >= N
    BY <1>1 DEF Children
  <2>4. \A q \in Children(c, p) : v[q] = w[q]
    BY <2>1, <2>3
  <2> HIDE DEF w
  <2>5. F[v][p] = F[w][p]
    BY <2>1, <2>2, <2>4
  <2> QED
    BY <2>5 DEF w
<1> HIDE DEF T
<1>4. N \in T
  BY <1>2, <1>3, Induction
<1>5. PICK v \in [D -> V] : \A p \in D : Len(p) + N >= N => v[p] = F[v][p]
  BY <1>4 DEF T
<1>6. \A p \in D : v[p] = F[v][p]
  BY <1>1, <1>5
<1>7. F[v] \in [D -> V]
  BY <1>5
<1>8. v = F[v]
  BY <1>5, <1>6, <1>7
<1> QED
  BY <1>8

-----------------------------------------------------------------------------
(***************************************************************************)
(* What EvaluateCondition computes.                                        *)
(***************************************************************************)
NodeStatus(c, leafStatus, v, p) ==
    IF IsGroup(c[p]) THEN GroupStatus(c[p].logic, {v[q] : q \in Children(c, p)})
                     ELSE leafStatus[p]

\* A group's status, by what there is among its parts.
LEMMA GroupStatusType ==
    ASSUME NEW logic, logic \in {"all", "any"}, NEW S \in SUBSET Status
    PROVE  /\ GroupStatus(logic, S) \in Status
           /\ GroupStatus(logic, S) = "pass" <=>
                  S # {} /\ IF logic = "any" THEN "pass" \in S ELSE S \subseteq {"pass"}
           /\ GroupStatus(logic, S) = "fail" <=>
                  S # {} /\ IF logic = "any" THEN S \subseteq {"fail"} ELSE "fail" \in S
<1>1. CASE S = {}
  BY <1>1 DEF GroupStatus, Status
<1>2. CASE S # {} /\ logic = "any"
  BY <1>2 DEF GroupStatus, AggregateStatus, Status
<1>3. CASE S # {} /\ logic = "all"
  BY <1>3 DEF GroupStatus, AggregateStatus, Status
<1> QED
  BY <1>1, <1>2, <1>3

\* Every node has a status, and the root's is the value.
LEMMA EvaluationExists ==
    ASSUME NEW c, IsTree(c), NEW leafStatus \in [Leaves(c) -> Status]
    PROVE  \E v \in [DOMAIN c -> Status] :
               /\ \A p \in DOMAIN c : v[p] = NodeStatus(c, leafStatus, v, p)
               /\ EvaluateCondition(c, leafStatus) = v[<<>>]
<1> DEFINE V == [DOMAIN c -> Status]
           F == [v \in V |-> [p \in DOMAIN c |-> NodeStatus(c, leafStatus, v, p)]]
<1>1. \A v \in V : \A p \in DOMAIN c : NodeStatus(c, leafStatus, v, p) \in Status
  <2> SUFFICES ASSUME NEW v \in V, NEW p \in DOMAIN c PROVE NodeStatus(c, leafStatus, v, p) \in Status
    OBVIOUS
  <2>1. CASE IsGroup(c[p])
    <3>1. {v[q] : q \in Children(c, p)} \in SUBSET Status
      BY DEF Children
    <3>2. c[p].logic \in {"all", "any"}
      BY <2>1 DEF IsGroup
    <3> QED
      BY <2>1, <3>1, <3>2, GroupStatusType DEF NodeStatus
  <2>2. CASE ~IsGroup(c[p])
    BY <2>2 DEF NodeStatus, Leaves
  <2> QED
    BY <2>1, <2>2
<1>2. /\ F \in [V -> V]
      /\ \A v \in V : \A p \in DOMAIN c : F[v][p] = NodeStatus(c, leafStatus, v, p)
  BY <1>1
<1>3. ASSUME NEW v \in V, NEW w \in V, NEW p \in DOMAIN c, \A q \in Children(c, p) : v[q] = w[q]
      PROVE  NodeStatus(c, leafStatus, v, p) = NodeStatus(c, leafStatus, w, p)
  <2>1. {v[q] : q \in Children(c, p)} = {w[q] : q \in Children(c, p)}
    BY <1>3
  <2> QED
    BY <2>1 DEF NodeStatus
<1> HIDE DEF F
<1>4. \E v \in V : v = F[v]
  <2>1. Status # {}
    BY DEF Status
  <2>2. \A v, w \in [DOMAIN c -> Status] : \A p \in DOMAIN c :
           (\A q \in Children(c, p) : v[q] = w[q]) => F[v][p] = F[w][p]
    BY <1>2, <1>3
  <2> QED
    BY <1>2, <2>1, <2>2, TreeRecursion
<1> DEFINE Solves(v) == v = [p \in DOMAIN c |->
                IF IsGroup(c[p])
                THEN GroupStatus(c[p].logic, {v[q] : q \in Children(c, p)})
                ELSE leafStatus[p]]
           value == CHOOSE v : Solves(v)
<1>5. \A v \in V : Solves(v) <=> v = F[v]
  BY DEF F, NodeStatus
<1>6. EvaluateCondition(c, leafStatus) = value[<<>>]
  BY DEF EvaluateCondition
<1>7. Solves(value)
  <2> HIDE DEF Solves
  <2>1. PICK v \in V : v = F[v]
    BY <1>4
  <2>2. Solves(v)
    BY <1>5, <2>1
  <2> QED
    BY <2>2
<1>8. value = [p \in DOMAIN c |-> NodeStatus(c, leafStatus, value, p)]
  BY <1>7 DEF NodeStatus
<1>9. PICK w \in V : w = F[w]
  BY <1>4
<1> HIDE DEF value, Solves
<1>10. DOMAIN c \subseteq {p \in DOMAIN c : value[p] = w[p]}
  <2> DEFINE S == {p \in DOMAIN c : value[p] = w[p]}
  <2>1. ASSUME NEW p \in DOMAIN c, Children(c, p) \subseteq S PROVE p \in S
    <3>1. {value[q] : q \in Children(c, p)} = {w[q] : q \in Children(c, p)}
      BY <2>1
    <3>2. NodeStatus(c, leafStatus, value, p) = NodeStatus(c, leafStatus, w, p)
      BY <3>1 DEF NodeStatus
    <3>3. value[p] = NodeStatus(c, leafStatus, value, p)
      BY <1>8
    <3>4. w[p] = NodeStatus(c, leafStatus, w, p)
      BY <1>2, <1>9
    <3> QED
      BY <3>2, <3>3, <3>4
  <2> HIDE DEF S
  <2>2. DOMAIN c \subseteq S
    BY <2>1, TreeInduction
  <2> QED
    BY <2>2 DEF S
<1>11. <<>> \in DOMAIN c
  BY DEF IsTree
<1>12. value[<<>>] = w[<<>>]
  BY <1>10, <1>11
<1>13. \A p \in DOMAIN c : w[p] = NodeStatus(c, leafStatus, w, p)
  BY <1>2, <1>9
<1> QED
  BY <1>6, <1>9, <1>12, <1>13

\* A condition passes exactly if the leaves that pass make it hold.
LEMMA PassMeansHolds ==
    ASSUME NEW c, IsTree(c), NEW leafStatus \in [Leaves(c) -> Status], NEW proven,
           \A p \in Leaves(c) : leafStatus[p] = "pass" <=> p \in proven
    PROVE  EvaluateCondition(c, leafStatus) = "pass" <=> Holds(c, proven, FALSE)
<1>1. PICK v \in [DOMAIN c -> Status] :
          /\ \A p \in DOMAIN c : v[p] = NodeStatus(c, leafStatus, v, p)
          /\ EvaluateCondition(c, leafStatus) = v[<<>>]
  BY EvaluationExists
<1> DEFINE passed == {p \in DOMAIN c : v[p] = "pass"}
<1>2. ASSUME NEW p \in DOMAIN c, NEW T,
             \A q \in Children(c, p) : q \in T <=> q \in passed
      PROVE  v[p] = "pass" <=>
               IF ~IsGroup(c[p]) THEN p \in proven
               ELSE IF Children(c, p) = {} THEN FALSE
               ELSE IF c[p].logic = "any" THEN Children(c, p) \cap T # {}
               ELSE Children(c, p) \subseteq T
  <2>1. CASE ~IsGroup(c[p])
    BY <1>1, <2>1 DEF NodeStatus, Leaves
  <2>2. CASE IsGroup(c[p])
    <3> DEFINE below == {v[q] : q \in Children(c, p)}
    <3>1. Children(c, p) \subseteq DOMAIN c
      BY DEF Children
    <3>2. below \in SUBSET Status
      BY <3>1
    <3>3. c[p].logic \in {"all", "any"}
      BY <2>2 DEF IsGroup
    <3>4. /\ below # {} <=> Children(c, p) # {}
          /\ "pass" \in below <=> Children(c, p) \cap T # {}
          /\ below \subseteq {"pass"} <=> Children(c, p) \subseteq T
      BY <1>2, <3>1
    <3>5. v[p] = GroupStatus(c[p].logic, below)
      BY <1>1, <2>2 DEF NodeStatus
    <3> HIDE DEF below
    <3>6. v[p] = "pass" <=>
              below # {} /\ IF c[p].logic = "any" THEN "pass" \in below ELSE below \subseteq {"pass"}
      BY <3>2, <3>3, <3>5, GroupStatusType
    <3> QED
      BY <2>2, <3>4, <3>6
  <2> QED
    BY <2>1, <2>2
<1>3. <<>> \in DOMAIN c
  BY DEF IsTree
<1>4. ASSUME v[<<>>] = "pass" PROVE Holds(c, proven, FALSE)
  <2>1. Consistent(passed, c, proven, FALSE)
    <3> SUFFICES ASSUME NEW p \in DOMAIN c
                 PROVE  p \in passed <=>
                            IF ~IsGroup(c[p]) THEN p \in proven
                            ELSE IF Children(c, p) = {} THEN FALSE
                            ELSE IF c[p].logic = "any" THEN Children(c, p) \cap passed # {}
                            ELSE Children(c, p) \subseteq passed
      BY DEF Consistent
    <3>1. p \in passed <=> v[p] = "pass"
      OBVIOUS
    <3> HIDE DEF passed
    <3> QED
      BY <1>2, <3>1
  <2>2. <<>> \in passed /\ passed \in SUBSET DOMAIN c
    BY <1>3, <1>4
  <2> HIDE DEF passed
  <2> QED
    BY <2>1, <2>2 DEF Holds
<1>5. ASSUME Holds(c, proven, FALSE) PROVE v[<<>>] = "pass"
  <2>1. PICK T \in SUBSET DOMAIN c : <<>> \in T /\ Consistent(T, c, proven, FALSE)
    BY <1>5 DEF Holds
  <2> DEFINE S == {p \in DOMAIN c : p \in T <=> p \in passed}
  <2>2. ASSUME NEW p \in DOMAIN c, Children(c, p) \subseteq S PROVE p \in S
    <3>1. \A q \in Children(c, p) : q \in T <=> q \in passed
      BY <2>2
    <3>2. p \in passed <=> v[p] = "pass"
      OBVIOUS
    <3> HIDE DEF passed
    <3>3. p \in T <=> v[p] = "pass"
      BY <1>2, <2>1, <3>1 DEF Consistent
    <3> QED
      BY <3>2, <3>3
  <2> HIDE DEF S
  <2>3. DOMAIN c \subseteq S
    BY <2>2, TreeInduction
  <2> QED
    BY <1>3, <2>1, <2>3 DEF S
<1> QED
  BY <1>1, <1>4, <1>5

\* ... and fails exactly if those that do not fail could not make it hold.
LEMMA FailMeansRefuted ==
    ASSUME NEW c, IsTree(c), NEW leafStatus \in [Leaves(c) -> Status], NEW open,
           \A p \in Leaves(c) : leafStatus[p] # "fail" <=> p \in open
    PROVE  EvaluateCondition(c, leafStatus) = "fail" <=> ~Holds(c, open, TRUE)
<1>1. PICK v \in [DOMAIN c -> Status] :
          /\ \A p \in DOMAIN c : v[p] = NodeStatus(c, leafStatus, v, p)
          /\ EvaluateCondition(c, leafStatus) = v[<<>>]
  BY EvaluationExists
<1> DEFINE standing == {p \in DOMAIN c : v[p] # "fail"}
<1>2. ASSUME NEW p \in DOMAIN c, NEW T,
             \A q \in Children(c, p) : q \in T <=> q \in standing
      PROVE  v[p] # "fail" <=>
               IF ~IsGroup(c[p]) THEN p \in open
               ELSE IF Children(c, p) = {} THEN TRUE
               ELSE IF c[p].logic = "any" THEN Children(c, p) \cap T # {}
               ELSE Children(c, p) \subseteq T
  <2>1. CASE ~IsGroup(c[p])
    BY <1>1, <2>1 DEF NodeStatus, Leaves
  <2>2. CASE IsGroup(c[p])
    <3> DEFINE below == {v[q] : q \in Children(c, p)}
    <3>1. Children(c, p) \subseteq DOMAIN c
      BY DEF Children
    <3>2. below \in SUBSET Status
      BY <3>1
    <3>3. c[p].logic \in {"all", "any"}
      BY <2>2 DEF IsGroup
    <3>4. /\ below # {} <=> Children(c, p) # {}
          /\ below \subseteq {"fail"} <=> Children(c, p) \cap T = {}
          /\ "fail" \notin below <=> Children(c, p) \subseteq T
      BY <1>2, <3>1
    <3>5. v[p] = GroupStatus(c[p].logic, below)
      BY <1>1, <2>2 DEF NodeStatus
    <3> HIDE DEF below
    <3>6. v[p] = "fail" <=>
              below # {} /\ IF c[p].logic = "any" THEN below \subseteq {"fail"} ELSE "fail" \in below
      BY <3>2, <3>3, <3>5, GroupStatusType
    <3> QED
      BY <2>2, <3>4, <3>6
  <2> QED
    BY <2>1, <2>2
<1>3. <<>> \in DOMAIN c
  BY DEF IsTree
<1>4. ASSUME v[<<>>] # "fail" PROVE Holds(c, open, TRUE)
  <2>1. Consistent(standing, c, open, TRUE)
    <3> SUFFICES ASSUME NEW p \in DOMAIN c
                 PROVE  p \in standing <=>
                            IF ~IsGroup(c[p]) THEN p \in open
                            ELSE IF Children(c, p) = {} THEN TRUE
                            ELSE IF c[p].logic = "any" THEN Children(c, p) \cap standing # {}
                            ELSE Children(c, p) \subseteq standing
      BY DEF Consistent
    <3>1. p \in standing <=> v[p] # "fail"
      OBVIOUS
    <3> HIDE DEF standing
    <3> QED
      BY <1>2, <3>1
  <2>2. <<>> \in standing /\ standing \in SUBSET DOMAIN c
    BY <1>3, <1>4
  <2> HIDE DEF standing
  <2> QED
    BY <2>1, <2>2 DEF Holds
<1>5. ASSUME Holds(c, open, TRUE) PROVE v[<<>>] # "fail"
  <2>1. PICK T \in SUBSET DOMAIN c : <<>> \in T /\ Consistent(T, c, open, TRUE)
    BY <1>5 DEF Holds
  <2> DEFINE S == {p \in DOMAIN c : p \in T <=> p \in standing}
  <2>2. ASSUME NEW p \in DOMAIN c, Children(c, p) \subseteq S PROVE p \in S
    <3>1. \A q \in Children(c, p) : q \in T <=> q \in standing
      BY <2>2
    <3>2. p \in standing <=> v[p] # "fail"
      OBVIOUS
    <3> HIDE DEF standing
    <3>3. p \in T <=> v[p] # "fail"
      BY <1>2, <2>1, <3>1 DEF Consistent
    <3> QED
      BY <3>2, <3>3
  <2> HIDE DEF S
  <2>3. DOMAIN c \subseteq S
    BY <2>2, TreeInduction
  <2> QED
    BY <1>3, <2>1, <2>3 DEF S
<1> QED
  BY <1>1, <1>4, <1>5


\* What holds of a node, given the nodes below that hold.
NodeHolds(c, proven, ofEmpty, T, p) ==
    IF ~IsGroup(c[p]) THEN p \in proven
    ELSE IF Children(c, p) = {} THEN ofEmpty
    ELSE IF c[p].logic = "any" THEN Children(c, p) \cap T # {}
    ELSE Children(c, p) \subseteq T

\* There is a set of nodes that hold.
LEMMA ConsistentExists ==
    ASSUME NEW c, IsTree(c), NEW proven, NEW ofEmpty \in BOOLEAN
    PROVE  \E T \in SUBSET DOMAIN c : Consistent(T, c, proven, ofEmpty)
<1> DEFINE V == [DOMAIN c -> {0, 1}]
           Ones(v) == {q \in DOMAIN c : v[q] = 1}
           F == [v \in V |-> [p \in DOMAIN c |->
                    IF NodeHolds(c, proven, ofEmpty, Ones(v), p) THEN 1 ELSE 0]]
<1>1. /\ F \in [V -> V]
      /\ \A v \in V : \A p \in DOMAIN c :
            F[v][p] = IF NodeHolds(c, proven, ofEmpty, Ones(v), p) THEN 1 ELSE 0
  OBVIOUS
<1>2. ASSUME NEW v \in V, NEW w \in V, NEW p \in DOMAIN c, \A q \in Children(c, p) : v[q] = w[q]
      PROVE  F[v][p] = F[w][p]
  <2>1. Children(c, p) \subseteq DOMAIN c
    BY DEF Children
  <2>2. \A q \in Children(c, p) : q \in Ones(v) <=> q \in Ones(w)
    BY <1>2, <2>1
  <2> HIDE DEF F, Ones
  <2>3. NodeHolds(c, proven, ofEmpty, Ones(v), p) <=> NodeHolds(c, proven, ofEmpty, Ones(w), p)
    BY <2>2 DEF NodeHolds
  <2> QED
    BY <1>1, <2>3
<1> HIDE DEF F
<1>3. PICK v \in V : v = F[v]
  <2>1. \A v, w \in [DOMAIN c -> {0, 1}] : \A p \in DOMAIN c :
           (\A q \in Children(c, p) : v[q] = w[q]) => F[v][p] = F[w][p]
    BY <1>2
  <2> QED
    BY <1>1, <2>1, TreeRecursion
<1>4. \A p \in DOMAIN c : p \in Ones(v) <=> NodeHolds(c, proven, ofEmpty, Ones(v), p)
  <2> SUFFICES ASSUME NEW p \in DOMAIN c
               PROVE  p \in Ones(v) <=> NodeHolds(c, proven, ofEmpty, Ones(v), p)
    OBVIOUS
  <2>1. v[p] = F[v][p] /\ (p \in Ones(v) <=> v[p] = 1)
    BY <1>3
  <2> HIDE DEF Ones
  <2> QED
    BY <1>1, <2>1
<1>5. Ones(v) \in SUBSET DOMAIN c
  OBVIOUS
<1> HIDE DEF Ones
<1>6. Consistent(Ones(v), c, proven, ofEmpty)
  BY <1>4 DEF Consistent, NodeHolds
<1> QED
  BY <1>5, <1>6

\* More leaves that hold, and a kinder view of empty groups, make no condition fail
\* that held.
LEMMA HoldsIsMonotone ==
    ASSUME NEW c, IsTree(c), NEW few, NEW many, Leaves(c) \cap few \subseteq many,
           NEW strict \in BOOLEAN, NEW kind \in BOOLEAN, strict => kind, Holds(c, few, strict)
    PROVE  Holds(c, many, kind)
<1>1. PICK T \in SUBSET DOMAIN c : <<>> \in T /\ Consistent(T, c, few, strict)
  BY DEF Holds
<1>2. PICK U \in SUBSET DOMAIN c : Consistent(U, c, many, kind)
  BY ConsistentExists
<1> DEFINE S == {p \in DOMAIN c : p \in T => p \in U}
<1>3. ASSUME NEW p \in DOMAIN c, Children(c, p) \subseteq S PROVE p \in S
  <2>1. \A q \in Children(c, p) : q \in T => q \in U
    BY <1>3
  <2>2. p \in T <=> NodeHolds(c, few, strict, T, p)
    BY <1>1 DEF Consistent, NodeHolds
  <2>3. p \in U <=> NodeHolds(c, many, kind, U, p)
    BY <1>2 DEF Consistent, NodeHolds
  <2>4. NodeHolds(c, few, strict, T, p) => NodeHolds(c, many, kind, U, p)
    BY <2>1 DEF NodeHolds, Leaves
  <2> QED
    BY <2>2, <2>3, <2>4
<1> HIDE DEF S
<1>4. DOMAIN c \subseteq S
  BY <1>3, TreeInduction
<1>5. <<>> \in U
  BY <1>1, <1>4 DEF S
<1> QED
  BY <1>2, <1>5 DEF Holds

-----------------------------------------------------------------------------
(***************************************************************************)
(* What a rule says of a leaf.                                             *)
(***************************************************************************)
AreFacts(facts) ==
    /\ IsFiniteSet(facts)
    /\ \A f \in facts : /\ IsFiniteSet(f.number) /\ f.number \subseteq Int
                        /\ IsFiniteSet(f.date) /\ f.date \subseteq Int

\* The facts of a record.
LEMMA FactsOfRecord ==
    ASSUME NEW r \in Records
    PROVE  AreFacts(FactsOf(r))
<1>1. IsFiniteSet({})
  BY FS_EmptySet
<1> QED
  BY <1>1, FactAssumption DEF AreFacts, FactsOf

\* Fewer facts.
LEMMA SomeFacts ==
    ASSUME NEW facts, AreFacts(facts), NEW some \in SUBSET facts
    PROVE  AreFacts(some)
BY FS_Subset DEF AreFacts

\* The dates of facts.
LEMMA DaysAreFinite ==
    ASSUME NEW facts, AreFacts(facts), NEW keys
    PROVE  Days(facts, keys) \in SUBSET Int /\ IsFiniteSet(Days(facts, keys))
<1> DEFINE some == Keyed(facts, keys)
           days == [f \in some |-> f.date]
           image == {days[f] : f \in some}
<1>1. some \in SUBSET facts
  BY DEF Keyed
<1>2. IsFiniteSet(some)
  BY <1>1, FS_Subset DEF AreFacts
<1>3. \A f \in some : days[f] = f.date /\ f.date \in SUBSET Int /\ IsFiniteSet(f.date)
  BY <1>1 DEF AreFacts
<1> HIDE DEF some
<1>4. days \in [some -> SUBSET Int]
  BY <1>3
<1>5. Days(facts, keys) = UNION image
  BY <1>3 DEF Days, some
<1> HIDE DEF days
<1>6. IsFiniteSet(image)
  BY <1>2, <1>4, FiniteImage, Zenon
<1>7. \A T \in image : T \in SUBSET Int /\ IsFiniteSet(T)
  BY <1>3
<1> HIDE DEF image
<1>8. IsFiniteSet(UNION image) /\ UNION image \in SUBSET Int
  BY <1>6, <1>7, FS_UNION
<1> QED
  BY <1>5, <1>8

\* An amount in its unit.
LEMMA WorthIsInt ==
    ASSUME NEW v \in Int, NEW unit
    PROVE  /\ Worth(v, unit) \in Int
           /\ InUnits(v, unit, unit) = Worth(v, unit)
           /\ InUnits(v, unit, "") = v
           /\ \A other \in DOMAIN MoneyUnits :
                 unit \in DOMAIN MoneyUnits => InUnits(v, unit, other) = Worth(v, unit)
<1>1. /\ DOMAIN MoneyUnits = {"yuan", "wan_yuan", "wan", "yi_yuan"}
      /\ \A u \in DOMAIN MoneyUnits : MoneyUnits[u] \in Int
  BY DEF MoneyUnits
<1>2. "" \notin DOMAIN MoneyUnits
  BY <1>1
<1>3. CASE unit \in DOMAIN MoneyUnits
  <2>1. Worth(v, unit) = v * MoneyUnits[unit]
    BY <1>3 DEF Worth
  <2>2. \A other \in DOMAIN MoneyUnits : InUnits(v, unit, other) = v * MoneyUnits[unit]
    BY <1>3 DEF InUnits
  <2>3. InUnits(v, unit, "") = v
    BY <1>2 DEF InUnits
  <2>4. v * MoneyUnits[unit] \in Int
    BY <1>1, <1>3
  <2> QED
    BY <1>3, <2>1, <2>2, <2>3, <2>4
<1>4. CASE unit \notin DOMAIN MoneyUnits
  <2>1. Worth(v, unit) = v * 1
    BY <1>4 DEF Worth
  <2>2. \A other : InUnits(v, unit, other) = v
    BY <1>4 DEF InUnits
  <2>3. v * 1 = v
    OBVIOUS
  <2> QED
    BY <1>4, <2>1, <2>2, <2>3
<1> QED
  BY <1>3, <1>4

\* The figures of a number leaf are what NumberRule compares.
LEMMA FiguresAreFinite ==
    ASSUME NEW facts, AreFacts(facts), NEW leaf
    PROVE  /\ Figures(leaf, facts) \in SUBSET Int /\ IsFiniteSet(Figures(leaf, facts))
           /\ Figures(leaf, facts) =
                  UNION {{InUnits(v, f.unit, leaf.unit) : v \in f.number} :
                            f \in {g \in Keyed(facts, {leaf.key}) : Comparable(leaf, g)}}
<1> DEFINE usable == {g \in Keyed(facts, {leaf.key}) : Comparable(leaf, g)}
           unit(v, f) == InUnits(v, f.unit, leaf.unit)
           values == [f \in usable |-> {unit(v, f) : v \in f.number}]
           image == {values[f] : f \in usable}
           rated(f) == {IF leaf.unit = "" THEN v ELSE Worth(v, f.unit) : v \in f.number}
<1>1. usable \in SUBSET facts
  BY DEF Keyed
<1>2. usable = {g \in facts : /\ g.key = leaf.key
                              /\ \/ leaf.unit \in {"", g.unit}
                                 \/ {g.unit, leaf.unit} \subseteq DOMAIN MoneyUnits}
  BY DEF Keyed, Comparable
<1>3. ASSUME NEW f \in usable, NEW v \in f.number
      PROVE  unit(v, f) = (IF leaf.unit = "" THEN v ELSE Worth(v, f.unit)) /\ unit(v, f) \in Int
  <2>1. v \in Int
    BY <1>1 DEF AreFacts
  <2>2. CASE leaf.unit = ""
    BY <2>1, <2>2, WorthIsInt
  <2>3. CASE leaf.unit # "" /\ leaf.unit = f.unit
    BY <2>1, <2>3, WorthIsInt
  <2>4. CASE leaf.unit # "" /\ leaf.unit # f.unit
    <3>1. f.unit \in DOMAIN MoneyUnits /\ leaf.unit \in DOMAIN MoneyUnits
      BY <1>2, <2>4
    <3> QED
      BY <2>1, <2>4, <3>1, WorthIsInt
  <2> QED
    BY <2>2, <2>3, <2>4
<1>4. \A f \in usable : {unit(v, f) : v \in f.number} = rated(f)
  BY <1>3
<1>5. Figures(leaf, facts) = UNION {rated(f) : f \in usable}
  BY <1>2 DEF Figures
<1>6. Figures(leaf, facts) = UNION {{unit(v, f) : v \in f.number} : f \in usable}
  <2> HIDE DEF usable, unit, rated
  <2>1. {rated(f) : f \in usable} = {{unit(v, f) : v \in f.number} : f \in usable}
    BY <1>4
  <2> QED
    BY <1>5, <2>1
<1>7. \A f \in usable : {unit(v, f) : v \in f.number} \in SUBSET Int
  <2> HIDE DEF usable, unit
  <2> QED
    BY <1>3
<1>8. \A f \in usable : IsFiniteSet({unit(v, f) : v \in f.number})
  <2> SUFFICES ASSUME NEW f \in usable PROVE IsFiniteSet({unit(v, f) : v \in f.number})
    OBVIOUS
  <2> DEFINE g == [v \in f.number |-> unit(v, f)]
  <2>1. IsFiniteSet(f.number)
    BY <1>1 DEF AreFacts
  <2> HIDE DEF usable, unit
  <2>2. g \in [f.number -> Int] /\ \A v \in f.number : g[v] = unit(v, f)
    BY <1>3
  <2> HIDE DEF g
  <2>3. IsFiniteSet({g[v] : v \in f.number})
    BY <2>1, <2>2, FiniteImage, Zenon
  <2>4. {g[v] : v \in f.number} = {unit(v, f) : v \in f.number}
    BY <2>2
  <2> QED
    BY <2>3, <2>4
<1>9. IsFiniteSet(usable)
  BY <1>1, FS_Subset DEF AreFacts
<1>10. values \in [usable -> SUBSET Int] /\ \A f \in usable : values[f] = {unit(v, f) : v \in f.number}
  <2> HIDE DEF usable, unit
  <2> QED
    BY <1>7
<1> HIDE DEF usable, values, unit
<1>11. IsFiniteSet(image)
  <2>1. values \in [usable -> SUBSET Int]
    BY <1>10
  <2> QED
    BY <1>9, <2>1, FiniteImage, Zenon
<1>12. \A T \in image : T \in SUBSET Int /\ IsFiniteSet(T)
  BY <1>7, <1>8, <1>10
<1>13. UNION image = UNION {{unit(v, f) : v \in f.number} : f \in usable}
  BY <1>10
<1> HIDE DEF image
<1>14. IsFiniteSet(UNION image) /\ UNION image \in SUBSET Int
  BY <1>11, <1>12, FS_UNION
<1> QED
  BY <1>6, <1>13, <1>14 DEF unit, usable

LeafTyped(leaf) ==
    /\ leaf.type = "certificate" => leaf.require_validity \in BOOLEAN
    /\ leaf.type = "number" => leaf.value \in Int
    /\ leaf.type = "performance" =>
          /\ leaf.minimum_amount \in Int /\ leaf.minimum_count \in Int
          /\ leaf.since \in Int \cup {None} /\ leaf.scope \in BOOLEAN

\* A rule passes one record's facts exactly if they prove the leaf, and fails them
\* exactly if they contradict it.
Judged(status, leaf, facts) ==
    /\ status \in Status
    /\ status = "pass" <=> Proves(leaf, facts)
    /\ status = "fail" <=> Contradicts(leaf, facts)

\* The earliest of some dates tells whether all are late enough.
LEMMA LeastDayDecides ==
    ASSUME NEW days \in SUBSET Int, IsFiniteSet(days), days # {}
    PROVE  /\ Min(days) >= AsOf <=> \A d \in days : d >= AsOf
           /\ ~(Min(days) >= AsOf) <=> \E d \in days : d < AsOf
<1>1. AsOf \in Int
  BY FactAssumption
<1>2. PICK m \in days : m = Min(days) /\ \A d \in days : m <= d
  BY MinOfFinite
<1>3. m \in Int /\ \A d \in days : d \in Int
  OBVIOUS
<1>4. /\ m >= AsOf <=> \A d \in days : d >= AsOf
      /\ ~(m >= AsOf) <=> \E d \in days : d < AsOf
  BY <1>1, <1>2, <1>3
<1> QED
  BY <1>2, <1>4

\* Certificates.
LEMMA CertificateRuleIsExact ==
    ASSUME NEW facts, AreFacts(facts), NEW leaf, LeafTyped(leaf), leaf.type = "certificate"
    PROVE  Judged(CertificateRule(leaf, facts, AsOf), leaf, facts)
<1> DEFINE days == Days(facts, ExpiryKeys)
           keyed == Keyed(facts, CertificateKeys)
           named == leaf.certificate \in Names(facts, CertificateKeys)
           status == CertificateRule(leaf, facts, AsOf)
<1>1. days \in SUBSET Int /\ IsFiniteSet(days)
  BY DaysAreFinite
<1>2. AsOf \in Int
  BY FactAssumption
<1>3. named <=> Naming(leaf, facts) # {}
  BY DEF Names, Naming, Keyed
<1>4. Naming(leaf, facts) # {} => keyed # {}
  BY DEF Naming
<1>5. /\ Proves(leaf, facts) <=> /\ Naming(leaf, facts) # {}
                                 /\ leaf.require_validity => days # {}
                                 /\ \A d \in days : d >= AsOf
      /\ Contradicts(leaf, facts) <=> /\ keyed # {}
                                      /\ Naming(leaf, facts) = {} \/ \E d \in days : d < AsOf
  BY DEF Proves, Contradicts
<1>6. /\ keyed = {} => status = "unknown"
      /\ keyed # {} /\ ~named => status = "fail"
      /\ named /\ days = {} => status = IF leaf.require_validity THEN "unknown" ELSE "pass"
      /\ named /\ days # {} => status = Verdict(Min(days) >= AsOf)
  BY <1>3, <1>4 DEF CertificateRule
<1>7. days # {} => /\ Min(days) >= AsOf <=> \A d \in days : d >= AsOf
                   /\ ~(Min(days) >= AsOf) <=> \E d \in days : d < AsOf
  <2> HIDE DEF days
  <2> QED
    BY <1>1, LeastDayDecides
<1>8. leaf.require_validity \in BOOLEAN
  BY DEF LeafTyped
<1> HIDE DEF days, keyed, named, status
<1>9. CASE keyed = {}
  BY <1>3, <1>4, <1>5, <1>6, <1>9 DEF Judged, Status, status
<1>10. CASE keyed # {} /\ ~named
  BY <1>3, <1>5, <1>6, <1>10 DEF Judged, Status, status
<1>11. CASE named /\ days = {}
  BY <1>3, <1>4, <1>5, <1>6, <1>8, <1>11 DEF Judged, Status, status
<1>12. CASE named /\ days # {}
  BY <1>3, <1>4, <1>5, <1>6, <1>7, <1>12 DEF Judged, Status, status, Verdict
<1> QED
  BY <1>9, <1>10, <1>11, <1>12

\* Numbers.
LEMMA NumberRuleIsExact ==
    ASSUME NEW facts, AreFacts(facts), NEW leaf, LeafTyped(leaf), leaf.type = "number"
    PROVE  Judged(NumberRule(leaf, facts), leaf, facts)
<1> DEFINE values == Figures(leaf, facts)
           bound == Worth(leaf.value, leaf.unit)
           status == NumberRule(leaf, facts)
<1>1. values \in SUBSET Int /\ IsFiniteSet(values)
  BY FiguresAreFinite
<1>2. leaf.value \in Int
  BY DEF LeafTyped
<1>3. bound \in Int /\ InUnits(leaf.value, leaf.unit, leaf.unit) = bound
  BY <1>2, WorthIsInt
<1>4. status = IF values = {} THEN "unknown" ELSE Compared(leaf.operator, Max(values), bound)
  BY <1>3, FiguresAreFinite DEF NumberRule
<1>5. /\ Proves(leaf, facts) <=> values # {} /\ Quantified(leaf, values)
      /\ Contradicts(leaf, facts) <=> /\ values # {} /\ ~Quantified(leaf, values)
                                      /\ leaf.operator \in {">=", ">", "<=", "<", "=="}
  BY DEF Proves, Contradicts
<1> HIDE DEF values
<1>6. CASE values = {}
  BY <1>4, <1>5, <1>6 DEF Judged, Status
<1>7. CASE values # {}
  <2>1. Max(values) \in Int /\ Max(values) \in values /\ \A n \in values : n \in Int /\ n <= Max(values)
    BY <1>1, <1>7, MaxOfFinite
  <2>2. Quantified(leaf, values) <=>
            \/ leaf.operator = ">=" /\ Max(values) >= bound
            \/ leaf.operator = ">"  /\ Max(values) > bound
            \/ leaf.operator = "<=" /\ Max(values) <= bound
            \/ leaf.operator = "<"  /\ Max(values) < bound
            \/ leaf.operator = "==" /\ Max(values) = bound
    <3> HIDE DEF bound
    <3>1. /\ (\E n \in values : n >= bound) <=> Max(values) >= bound
          /\ (\E n \in values : n > bound) <=> Max(values) > bound
          /\ (\A n \in values : n <= bound) <=> Max(values) <= bound
          /\ (\A n \in values : n < bound) <=> Max(values) < bound
          /\ (bound \in values /\ \A n \in values : n <= bound) <=> Max(values) = bound
      BY <1>3, <2>1
    <3> QED
      BY <3>1 DEF Quantified, bound
  <2> HIDE DEF bound, status
  <2>3. status = Compared(leaf.operator, Max(values), bound)
    BY <1>4, <1>7
  <2>4. /\ Compared(leaf.operator, Max(values), bound) \in Status
        /\ Compared(leaf.operator, Max(values), bound) = "pass" <=> Quantified(leaf, values)
        /\ Compared(leaf.operator, Max(values), bound) = "fail" <=>
               ~Quantified(leaf, values) /\ leaf.operator \in {">=", ">", "<=", "<", "=="}
    BY <2>2 DEF Compared, Verdict, Status
  <2> QED
    BY <1>5, <1>7, <2>3, <2>4 DEF Judged, status
<1> QED
  BY <1>6, <1>7

\* Dates.
LEMMA DateRuleIsExact ==
    ASSUME NEW facts, AreFacts(facts), NEW leaf, leaf.type = "date"
    PROVE  Judged(DateRule(leaf, facts, AsOf), leaf, facts)
<1> DEFINE days == Days(facts, {leaf.key})
<1>1. days \in SUBSET Int /\ IsFiniteSet(days)
  BY DaysAreFinite
<1>2. AsOf \in Int
  BY FactAssumption
<1>3. DateRule(leaf, facts, AsOf) = IF days = {} THEN "unknown" ELSE Verdict(Min(days) >= AsOf)
  BY DEF DateRule
<1>4. /\ Proves(leaf, facts) <=> days # {} /\ \A d \in days : d >= AsOf
      /\ Contradicts(leaf, facts) <=> \E d \in days : d < AsOf
  BY DEF Proves, Contradicts
<1> HIDE DEF days
<1>5. days # {} => /\ Min(days) >= AsOf <=> \A d \in days : d >= AsOf
                   /\ ~(Min(days) >= AsOf) <=> \E d \in days : d < AsOf
  BY <1>1, LeastDayDecides
<1> QED
  BY <1>3, <1>4, <1>5 DEF Judged, Status, Verdict

\* A rule on one record.
LEMMA RuleIsExact ==
    ASSUME NEW facts, AreFacts(facts), NEW leaf, LeafTyped(leaf), leaf.type # "material_complete"
    PROVE  Judged(RuleStatus(leaf, facts, AsOf), leaf, facts)
<1>1. CASE leaf.type = "certificate"
  BY <1>1, CertificateRuleIsExact DEF RuleStatus
<1>2. CASE leaf.type = "number"
  BY <1>2, NumberRuleIsExact DEF RuleStatus
<1>3. CASE leaf.type = "date"
  BY <1>3, DateRuleIsExact DEF RuleStatus
<1>4. CASE leaf.type \notin {"certificate", "number", "date"}
  BY <1>4 DEF RuleStatus, Judged, Status, Proves, Contradicts
<1> QED
  BY <1>1, <1>2, <1>3, <1>4

-----------------------------------------------------------------------------
(***************************************************************************)
(* Projects.                                                               *)
(***************************************************************************)
\* The facts of some records.
LEMMA FactsOfAllRecords ==
    ASSUME NEW records \in SUBSET Records, IsFiniteSet(records)
    PROVE  AreFacts(FactsOfAll(records))
<1> DEFINE facts == [r \in records |-> FactsOf(r)]
           image == {facts[r] : r \in records}
<1>1. facts \in [records -> {FactsOf(r) : r \in records}] /\ \A r \in records : facts[r] = FactsOf(r)
  OBVIOUS
<1>2. FactsOfAll(records) = UNION image
  BY DEF FactsOfAll
<1> HIDE DEF facts
<1>3. IsFiniteSet(image)
  <2>1. facts \in [records -> {FactsOf(r) : r \in records}]
    BY <1>1
  <2> QED
    BY <2>1, FiniteImage, Zenon
<1>4. \A T \in image : AreFacts(T)
  BY <1>1, FactsOfRecord
<1> HIDE DEF image
<1>5. IsFiniteSet(UNION image)
  BY <1>3, <1>4, FS_UNION DEF AreFacts
<1>6. AreFacts(UNION image)
  BY <1>4, <1>5 DEF AreFacts
<1> QED
  BY <1>2, <1>6

\* The amounts of contracts.
LEMMA AmountsAreFinite ==
    ASSUME NEW facts, AreFacts(facts)
    PROVE  AmountsIn(facts) \in SUBSET Int /\ IsFiniteSet(AmountsIn(facts))
<1> DEFINE usable == {g \in Keyed(facts, {"contract_amount"}) : g.unit \in DOMAIN ContractUnits}
           sums(f) == {v * ContractUnits[f.unit] : v \in f.number}
           values == [f \in usable |-> sums(f)]
           image == {values[f] : f \in usable}
<1>1. usable \in SUBSET facts
  BY DEF Keyed
<1>2. \A u \in DOMAIN ContractUnits : ContractUnits[u] \in Int
  BY DEF ContractUnits
<1>3. ASSUME NEW f \in usable PROVE sums(f) \in SUBSET Int /\ IsFiniteSet(sums(f))
  <2>1. IsFiniteSet(f.number) /\ f.number \subseteq Int
    BY <1>1 DEF AreFacts
  <2>2. ContractUnits[f.unit] \in Int
    BY <1>2
  <2> DEFINE g == [v \in f.number |-> v * ContractUnits[f.unit]]
  <2>3. g \in [f.number -> Int]
    BY <2>1, <2>2
  <2>4. sums(f) = {g[v] : v \in f.number}
    OBVIOUS
  <2> HIDE DEF g, sums, usable
  <2>5. IsFiniteSet({g[v] : v \in f.number})
    BY <2>1, <2>3, FiniteImage, Zenon
  <2> QED
    BY <2>3, <2>4, <2>5
<1>4. AmountsIn(facts) = UNION {sums(f) : f \in usable}
  BY DEF AmountsIn
<1> HIDE DEF usable, sums
<1>5. values \in [usable -> SUBSET Int]
  BY <1>3
<1>6. \A f \in usable : values[f] = sums(f)
  OBVIOUS
<1> HIDE DEF values
<1>7. IsFiniteSet(usable)
  BY <1>1, FS_Subset DEF AreFacts
<1>8. IsFiniteSet(image)
  BY <1>5, <1>7, FiniteImage, Zenon
<1>9. \A T \in image : T \in SUBSET Int /\ IsFiniteSet(T)
  BY <1>3, <1>6
<1>10. UNION image = UNION {sums(f) : f \in usable}
  BY <1>6
<1> HIDE DEF image
<1>11. IsFiniteSet(UNION image) /\ UNION image \in SUBSET Int
  BY <1>8, <1>9, FS_UNION
<1> QED
  BY <1>4, <1>10, <1>11

\* A value that has to be the only one is there, is the only one and is good.
LEMMA UnambiguousIsExact ==
    ASSUME NEW values, IsFiniteSet(values), NEW good \in SUBSET values
    PROVE  /\ Unambiguous(values, good) \in Status
           /\ Unambiguous(values, good) = "pass" <=>
                  values # {} /\ \A n, m \in values : n = m /\ n \in good
<1>1. Cardinality(values) = 1 <=> \E x : values = {x}
  BY FS_Singleton
<1>2. (\E x : values = {x}) <=> values # {} /\ \A n, m \in values : n = m
  <2>1. ASSUME values # {}, \A n, m \in values : n = m PROVE \E x : values = {x}
    <3>1. PICK x : x \in values
      BY <2>1
    <3>2. values = {x}
      BY <2>1, <3>1
    <3> QED
      BY <3>2
  <2> QED
    BY <2>1
<1>3. values = good <=> \A n \in values : n \in good
  OBVIOUS
<1> QED
  BY <1>1, <1>2, <1>3 DEF Unambiguous, Verdict, Status

InScope(leaf, records, answer) ==
    leaf.scope => \E q \in records : q.id \in answer.in_scope

\* A project passes exactly if its records show that it does.
LEMMA ProjectStatusIsExact ==
    ASSUME NEW leaf, LeafTyped(leaf), leaf.type = "performance", NEW answer,
           NEW records \in SUBSET Records, IsFiniteSet(records)
    PROVE  ProjectStatus(leaf, records, answer) = "pass" <=>
               ProjectProven(leaf, records) /\ InScope(leaf, records, answer)
<1> DEFINE facts == FactsOfAll(records)
           amounts == AmountsIn(facts)
           dates == Days(facts, {leaf.date_field})
           bound == Threshold(leaf)
           missing == leaf.required_materials \ Names(facts, {"material_type"})
           byAmount == IF bound # 0 THEN {Unambiguous(amounts, {v \in amounts : v >= bound})} ELSE {}
           byDate == IF leaf.since # None
                     THEN {Unambiguous(dates, {d \in dates : leaf.since <= d /\ d <= AsOf})} ELSE {}
           byMaterials == IF missing # {} THEN {"unknown"} ELSE {}
           byScope == IF leaf.scope /\ Ids(records) \cap answer.in_scope = {} THEN {"unknown"} ELSE {}
           byFacts == IF facts = {} THEN {"unknown"} ELSE {}
           statuses == byAmount \cup byDate \cup byMaterials \cup byScope \cup byFacts
<1>1. ProjectStatus(leaf, records, answer) = AggregateStatus("all", statuses)
  BY DEF ProjectStatus
<1>2. AreFacts(facts)
  BY FactsOfAllRecords
<1>3. amounts \in SUBSET Int /\ IsFiniteSet(amounts)
  BY <1>2, AmountsAreFinite
<1>4. dates \in SUBSET Int /\ IsFiniteSet(dates)
  BY <1>2, DaysAreFinite
<1>5. leaf.minimum_amount \in Int /\ leaf.since \in Int \cup {None} /\ leaf.scope \in BOOLEAN /\ AsOf \in Int
  BY FactAssumption DEF LeafTyped
<1>6. bound \in Int /\ (bound # 0 <=> leaf.minimum_amount # 0)
  <2>1. /\ DOMAIN ContractUnits = {"yuan", "wan_yuan", "yi_yuan"}
        /\ ContractUnits["yuan"] = 1 /\ ContractUnits["wan_yuan"] = 10000
        /\ ContractUnits["yi_yuan"] = 100000000
    BY DEF ContractUnits
  <2>2. CASE leaf.unit \in DOMAIN ContractUnits
    <3>1. bound = leaf.minimum_amount * ContractUnits[leaf.unit]
      BY <2>2 DEF Threshold
    <3>2. \/ bound = leaf.minimum_amount * 1 \/ bound = leaf.minimum_amount * 10000
          \/ bound = leaf.minimum_amount * 100000000
      BY <2>1, <2>2, <3>1
    <3> HIDE DEF bound
    <3> QED
      BY <1>5, <3>2
  <2>3. CASE leaf.unit \notin DOMAIN ContractUnits
    <3>1. bound = leaf.minimum_amount * 1
      BY <2>3 DEF Threshold
    <3> HIDE DEF bound
    <3> QED
      BY <1>5, <3>1
  <2> QED
    BY <2>2, <2>3
<1>7. ProjectProven(leaf, records) <=>
          /\ bound # 0 => amounts # {} /\ \A n, m \in amounts : n = m /\ n >= bound
          /\ leaf.since # None =>
                dates # {} /\ \A d, e \in dates : d = e /\ d \in leaf.since .. AsOf
          /\ missing = {}
          /\ facts # {}
  <2>1. missing = {} <=> \A m \in leaf.required_materials :
                             \E f \in Keyed(facts, {"material_type"}) : m \in f.names
    BY DEF Names
  <2> HIDE DEF missing, facts
  <2> QED
    BY <1>6, <2>1 DEF ProjectProven, facts
<1>8. byAmount \subseteq Status /\
      (byAmount \subseteq {"pass"} <=>
          (bound # 0 => amounts # {} /\ \A n, m \in amounts : n = m /\ n >= bound))
  <2> DEFINE good == {v \in amounts : v >= bound}
  <2>1. good \in SUBSET amounts /\ \A n \in amounts : n \in good <=> n >= bound
    OBVIOUS
  <2> HIDE DEF good
  <2>2. /\ Unambiguous(amounts, good) \in Status
        /\ Unambiguous(amounts, good) = "pass" <=>
               amounts # {} /\ \A n, m \in amounts : n = m /\ n \in good
    BY <1>3, <2>1, UnambiguousIsExact
  <2>3. byAmount = IF bound # 0 THEN {Unambiguous(amounts, good)} ELSE {}
    BY DEF good
  <2> HIDE DEF byAmount, amounts, bound
  <2> QED
    BY <2>1, <2>2, <2>3
<1>9. byDate \subseteq Status /\
      (byDate \subseteq {"pass"} <=>
          (leaf.since # None =>
                dates # {} /\ \A d, e \in dates : d = e /\ d \in leaf.since .. AsOf))
  <2> DEFINE good == {d \in dates : leaf.since <= d /\ d <= AsOf}
  <2>1. good \in SUBSET dates /\ \A d \in dates : d \in good <=> leaf.since <= d /\ d <= AsOf
    OBVIOUS
  <2> HIDE DEF good
  <2>2. /\ Unambiguous(dates, good) \in Status
        /\ Unambiguous(dates, good) = "pass" <=>
               dates # {} /\ \A n, m \in dates : n = m /\ n \in good
    BY <1>4, <2>1, UnambiguousIsExact
  <2>3. byDate = IF leaf.since # None THEN {Unambiguous(dates, good)} ELSE {}
    BY DEF good
  <2>4. leaf.since # None => \A d \in dates : d \in good <=> d \in leaf.since .. AsOf
    BY <1>4, <1>5, <2>1
  <2> HIDE DEF byDate, dates
  <2> QED
    BY <2>2, <2>3, <2>4
<1>10. byScope \subseteq {"pass"} <=> InScope(leaf, records, answer)
  <2>1. Ids(records) \cap answer.in_scope = {} <=> ~\E q \in records : q.id \in answer.in_scope
    BY DEF Ids
  <2> QED
    BY <2>1 DEF InScope
<1>11. /\ byMaterials \subseteq {"pass"} <=> missing = {}
       /\ byFacts \subseteq {"pass"} <=> facts # {}
       /\ byMaterials \subseteq Status /\ byFacts \subseteq Status /\ byScope \subseteq Status
  <2> HIDE DEF missing, facts
  <2> QED
    BY DEF Status
<1>12. statuses \subseteq Status /\
       (statuses \subseteq {"pass"} <=>
           /\ byAmount \subseteq {"pass"} /\ byDate \subseteq {"pass"} /\ byMaterials \subseteq {"pass"}
           /\ byScope \subseteq {"pass"} /\ byFacts \subseteq {"pass"})
  <2> HIDE DEF byAmount, byDate, byMaterials, byScope, byFacts
  <2> QED
    BY <1>8, <1>9, <1>11
<1> HIDE DEF statuses
<1>13. AggregateStatus("all", statuses) = "pass" <=> statuses \subseteq {"pass"}
  BY <1>12 DEF AggregateStatus, Status
<1> HIDE DEF byAmount, byDate, byMaterials, byScope, byFacts, bound, amounts, dates, missing, facts
<1> QED
  BY <1>1, <1>7, <1>8, <1>9, <1>10, <1>11, <1>12, <1>13

\* Records of one holder, or one record alone.
OneHolder(records) ==
    \A a, b \in records : a # b => a.holder = b.holder /\ a.holder # None

\* Among them, a project is known by its key.
LEMMA KeysTellProjects ==
    ASSUME NEW records \in SUBSET Records, OneHolder(records),
           NEW q \in records, NEW r \in records
    PROVE  ProjectKey(q) = ProjectKey(r) <=> OneProject(q, r)
<1>1. CASE q = r
  BY <1>1 DEF OneProject
<1>2. CASE q # r
  <2>1. q.holder = r.holder /\ q.holder # None
    BY <1>2 DEF OneHolder
  <2>2. q.id # r.id
    BY <1>2, RecordAssumption
  <2>3. q.project # r.id /\ r.project # q.id
    BY RecordAssumption DEF Ids
  <2>4. ProjectKey(q) = <<q.holder, Else(q.project, q.id)>> /\ ProjectKey(r) = <<r.holder, Else(r.project, r.id)>>
    BY <2>1 DEF ProjectKey
  <2>5. ProjectKey(q) = ProjectKey(r) <=> Else(q.project, q.id) = Else(r.project, r.id)
    BY <2>1, <2>4
  <2>6. Else(q.project, q.id) = Else(r.project, r.id) <=> q.project = r.project /\ q.project # None
    BY <2>2, <2>3 DEF Else
  <2> QED
    BY <1>2, <2>1, <2>5, <2>6 DEF OneProject
<1> QED
  BY <1>1, <1>2

\* Projects are counted once each, by any of their records.
LEMMA PerformanceIsExact ==
    ASSUME NEW leaf, LeafTyped(leaf), leaf.type = "performance", NEW answer,
           NEW records \in SUBSET Records, IsFiniteSet(records), OneHolder(records)
    PROVE  /\ PerformanceStatus(leaf, records, answer) \in {"pass", "unknown"}
           /\ PerformanceStatus(leaf, records, answer) = "pass" <=>
                  \E chosen \in SUBSET ProvenProjects(leaf, records, answer) :
                      /\ Cardinality(chosen) >= CountAsked(leaf)
                      /\ \A a, b \in chosen : OneProject(a, b) => a = b
<1> DEFINE project(r) == {q \in records : ProjectKey(q) = ProjectKey(r)}
           passes(p) == ProjectStatus(leaf, p, answer) = "pass"
           proven == ProvenProjects(leaf, records, answer)
           passed == {p \in {project(r) : r \in records} : passes(p)}
<1>1. CountAsked(leaf) \in Int
  BY DEF LeafTyped, CountAsked
<1>2. \A q, r \in records : ProjectKey(q) = ProjectKey(r) <=> OneProject(q, r)
  BY KeysTellProjects
<1>3. PerformanceStatus(leaf, records, answer) =
          IF Cardinality(passed) >= CountAsked(leaf) THEN "pass" ELSE "unknown"
  <2>1. {{r \in records : ProjectKey(r) = k} : k \in {ProjectKey(r) : r \in records}}
            = {project(r) : r \in records}
    OBVIOUS
  <2> QED
    BY <2>1 DEF PerformanceStatus
<1>4. proven \in SUBSET records /\ \A r \in records : r \in proven <=> passes(project(r))
  <2>1. proven \in SUBSET records
    BY DEF ProvenProjects
  <2> SUFFICES ASSUME NEW r \in records PROVE r \in proven <=> passes(project(r))
    BY <2>1
  <2>2. project(r) = {q \in records : OneProject(q, r)}
    BY <1>2
  <2>3. project(r) \in SUBSET Records /\ IsFiniteSet(project(r))
    BY FS_Subset
  <2>4. passes(project(r)) <=> ProjectProven(leaf, project(r)) /\ InScope(leaf, project(r), answer)
    <3> HIDE DEF project
    <3> QED
      BY <2>3, ProjectStatusIsExact
  <2> HIDE DEF project, passes
  <2>5. r \in proven <=> ProjectProven(leaf, project(r)) /\ InScope(leaf, project(r), answer)
    BY <2>2 DEF ProvenProjects, InScope
  <2> QED
    BY <2>4, <2>5
<1>5. \A q, r \in records : /\ r \in project(r)
                            /\ project(q) = project(r) <=> OneProject(q, r)
                            /\ q \in project(r) => project(q) = project(r)
  BY <1>2
<1>6. passed = {project(r) : r \in proven}
  BY <1>4
<1>7. IsFiniteSet(proven)
  BY <1>4, FS_Subset
<1> HIDE DEF passes, proven, project, passed
<1>8. IsFiniteSet(passed)
  <2> DEFINE f == [r \in proven |-> project(r)]
  <2>1. f \in [proven -> passed] /\ {f[r] : r \in proven} = passed
    BY <1>6
  <2> HIDE DEF f
  <2>2. IsFiniteSet({f[r] : r \in proven})
    <3>1. f \in [proven -> passed]
      BY <2>1
    <3> QED
      BY <1>7, <3>1, FiniteImage, Zenon
  <2> QED
    BY <2>1, <2>2
<1>9. Cardinality(passed) \in Nat
  BY <1>8, FS_CardinalityType
<1>10. ASSUME NEW chosen \in SUBSET proven, \A a, b \in chosen : OneProject(a, b) => a = b
       PROVE  Cardinality(chosen) \in Nat /\ Cardinality(chosen) <= Cardinality(passed)
  <2> DEFINE f == [r \in chosen |-> project(r)]
  <2>1. f \in [chosen -> passed]
    BY <1>6
  <2>2. \A a, b \in chosen : f[a] = f[b] => a = b
    BY <1>4, <1>5, <1>10
  <2>3. f \in Injection(chosen, passed)
    BY <2>1, <2>2 DEF Injection, IsInjective
  <2> HIDE DEF f
  <2>4. Cardinality(chosen) <= Cardinality(passed)
    BY <1>8, <2>3, FS_Injection
  <2>5. IsFiniteSet(chosen)
    BY <1>7, FS_Subset
  <2> QED
    BY <2>4, <2>5, FS_CardinalityType
<1>11. \E chosen \in SUBSET proven : /\ Cardinality(chosen) >= Cardinality(passed)
                                     /\ \A a, b \in chosen : OneProject(a, b) => a = b
  <2> DEFINE some(p) == CHOOSE r \in proven : p = project(r)
             f == [p \in passed |-> some(p)]
             chosen == {f[p] : p \in passed}
  <2>1. \A p \in passed : some(p) \in proven /\ p = project(some(p))
    BY <1>6
  <2> HIDE DEF some
  <2>2. \A p \in passed : f[p] \in proven /\ p = project(f[p])
    BY <2>1
  <2>3. f \in [passed -> chosen]
    OBVIOUS
  <2> HIDE DEF f
  <2>4. chosen \in SUBSET proven
    BY <2>2
  <2>5. \A a, b \in chosen : OneProject(a, b) => a = b
    <3> SUFFICES ASSUME NEW p \in passed, NEW q \in passed, OneProject(f[p], f[q]) PROVE f[p] = f[q]
      OBVIOUS
    <3>1. f[p] \in records /\ f[q] \in records
      BY <1>4, <2>2
    <3>2. project(f[p]) = project(f[q])
      BY <1>5, <3>1
    <3> QED
      BY <2>2, <3>2
  <2>6. f \in Injection(passed, chosen)
    <3>1. \A p, q \in passed : f[p] = f[q] => p = q
      BY <2>2
    <3> QED
      BY <2>3, <3>1 DEF Injection, IsInjective
  <2> HIDE DEF chosen
  <2>7. IsFiniteSet(chosen)
    BY <1>7, <2>4, FS_Subset
  <2>8. Cardinality(passed) <= Cardinality(chosen)
    BY <2>6, <2>7, FS_Injection
  <2>9. Cardinality(chosen) \in Nat
    BY <2>7, FS_CardinalityType
  <2> QED
    BY <1>9, <2>4, <2>5, <2>8, <2>9
<1>12. (\E chosen \in SUBSET proven : /\ Cardinality(chosen) >= CountAsked(leaf)
                                      /\ \A a, b \in chosen : OneProject(a, b) => a = b)
           <=> Cardinality(passed) >= CountAsked(leaf)
  <2>1. ASSUME NEW chosen \in SUBSET proven, Cardinality(chosen) >= CountAsked(leaf),
               \A a, b \in chosen : OneProject(a, b) => a = b
        PROVE  Cardinality(passed) >= CountAsked(leaf)
    <3>1. Cardinality(chosen) \in Nat /\ Cardinality(chosen) <= Cardinality(passed)
      BY <1>10, <2>1
    <3> QED
      BY <1>1, <1>9, <2>1, <3>1
  <2>2. ASSUME Cardinality(passed) >= CountAsked(leaf)
        PROVE  \E chosen \in SUBSET proven : /\ Cardinality(chosen) >= CountAsked(leaf)
                                             /\ \A a, b \in chosen : OneProject(a, b) => a = b
    <3>1. PICK chosen \in SUBSET proven : /\ Cardinality(chosen) >= Cardinality(passed)
                                          /\ \A a, b \in chosen : OneProject(a, b) => a = b
      BY <1>11
    <3>2. Cardinality(chosen) \in Nat
      BY <1>10, <3>1
    <3>3. Cardinality(chosen) >= CountAsked(leaf)
      BY <1>1, <1>9, <2>2, <3>1, <3>2
    <3> QED
      BY <3>1, <3>3
  <2> QED
    BY <2>1, <2>2
<1> QED
  BY <1>3, <1>12 DEF proven

-----------------------------------------------------------------------------
(***************************************************************************)
(* Leaves in a group of records.                                           *)
(***************************************************************************)
\* A requirement has a condition as assumed.
LEMMA RequirementIsTyped ==
    ASSUME requirement \in Requirements
    PROVE  /\ IsTree(requirement.condition)
           /\ \A p \in Leaves(requirement.condition) : LeafTyped(requirement.condition[p])
BY ConditionAssumption DEF IsTree, LeafTyped

\* The records a leaf is looked at with prove it, or it stays open: what its status says.
Decides(p, status, records, answer, recalled) ==
    /\ status \in Status
    /\ requirement.condition[p].type # "semantic" =>
           (status = "pass" <=> p \in ProvenBy(records, answer, recalled))
    /\ status = "fail" => p \notin OpenFor(records)
    /\ records # {} /\ p \notin OpenFor(records) => status = "fail"

\* The best of some statuses.
LEMMA BestIsExact ==
    ASSUME NEW S \in SUBSET Status
    PROVE  /\ Best(S) \in Status
           /\ Best(S) = "pass" <=> "pass" \in S
           /\ Best(S) = "fail" <=> S # {} /\ S \subseteq {"fail"}
BY DEF Best, Status

\* A leaf that a rule decides, record by record.
LEMMA RuledLeaf ==
    ASSUME requirement \in Requirements, NEW p \in Leaves(requirement.condition),
           requirement.condition[p].type \notin {"performance", "semantic", "material_complete"},
           NEW group, NEW found, NEW answer, NEW recalled,
           Selected(group, found) \in SUBSET Records
    PROVE  Decides(p, LeafStatus(requirement.condition[p], group, found, answer),
                   Selected(group, found), answer, recalled)
<1> DEFINE leaf == requirement.condition[p]
           records == Selected(group, found)
           rule(r) == RuleStatus(leaf, FactsOf(r), AsOf)
           S == {rule(r) : r \in records}
<1>1. LeafTyped(leaf)
  BY RequirementIsTyped
<1>2. \A r \in records : Judged(rule(r), leaf, FactsOf(r))
  BY <1>1, FactsOfRecord, RuleIsExact
<1>3. LeafStatus(leaf, group, found, answer) = Best(S)
  BY DEF LeafStatus
<1>4. p \in ProvenBy(records, answer, recalled) <=> \E r \in records : Proves(leaf, FactsOf(r))
  BY DEF ProvenBy
<1>5. p \in OpenFor(records) <=> \E r \in records : ~Contradicts(leaf, FactsOf(r))
  BY DEF OpenFor
<1> HIDE DEF leaf, records, rule
<1>6. /\ S \in SUBSET Status
      /\ "pass" \in S <=> \E r \in records : Proves(leaf, FactsOf(r))
      /\ S # {} <=> records # {}
      /\ S \subseteq {"fail"} <=> \A r \in records : Contradicts(leaf, FactsOf(r))
  BY <1>2 DEF Judged
<1> HIDE DEF S
<1>7. /\ Best(S) \in Status
      /\ Best(S) = "pass" <=> p \in ProvenBy(records, answer, recalled)
      /\ Best(S) = "fail" <=> records # {} /\ p \notin OpenFor(records)
  BY <1>4, <1>5, <1>6, BestIsExact
<1>8. Decides(p, Best(S), records, answer, recalled)
  BY <1>7 DEF Decides
<1> QED
  BY <1>3, <1>8 DEF records, leaf

\* Materials, of all records.
LEMMA MaterialLeaf ==
    ASSUME requirement \in Requirements, NEW p \in Leaves(requirement.condition),
           requirement.condition[p].type = "material_complete",
           NEW group, NEW found, NEW answer, NEW recalled
    PROVE  Decides(p, LeafStatus(requirement.condition[p], group, found, answer),
                   Selected(group, found), answer, recalled)
<1> DEFINE leaf == requirement.condition[p]
           records == Selected(group, found)
           status == MaterialRule(leaf, FactsOfAll(records))
<1>1. LeafStatus(leaf, group, found, answer) = status
  BY DEF LeafStatus, RuleStatus
<1>2. p \in ProvenBy(records, answer, recalled) <=>
          /\ leaf.materials # {}
          /\ \A m \in leaf.materials : \E r \in records : \E f \in FactsOf(r) : f.key = m
  BY DEF ProvenBy
<1>3. p \in OpenFor(records) <=> records # {}
  BY DEF OpenFor, Contradicts
<1>4. status \in {"pass", "unknown"} /\ (status = "pass" <=> p \in ProvenBy(records, answer, recalled))
  BY <1>2 DEF MaterialRule, FactsOfAll
<1> HIDE DEF records, status, leaf
<1>5. Decides(p, status, records, answer, recalled)
  BY <1>3, <1>4 DEF Decides, Status
<1> QED
  BY <1>1, <1>5 DEF records, leaf

\* Projects.
LEMMA PerformanceLeaf ==
    ASSUME requirement \in Requirements, NEW p \in Leaves(requirement.condition),
           requirement.condition[p].type = "performance",
           NEW group, NEW found, NEW answer, NEW recalled,
           Selected(group, found) \in SUBSET Records,
           IsFiniteSet(Selected(group, found)), OneHolder(Selected(group, found))
    PROVE  Decides(p, LeafStatus(requirement.condition[p], group, found, answer),
                   Selected(group, found), answer, recalled)
<1> DEFINE leaf == requirement.condition[p]
           records == Selected(group, found)
           performance == {r \in records : r.kind = "performance"}
           status == PerformanceStatus(leaf, performance, answer)
<1>1. LeafTyped(leaf)
  BY RequirementIsTyped
<1>2. LeafStatus(leaf, group, found, answer) = status
  BY DEF LeafStatus
<1>3. performance \in SUBSET Records /\ IsFiniteSet(performance) /\ OneHolder(performance)
  <2>1. performance \in SUBSET records
    OBVIOUS
  <2> HIDE DEF performance
  <2> QED
    BY <2>1, FS_Subset DEF OneHolder
<1>4. p \in ProvenBy(records, answer, recalled) <=>
          \E chosen \in SUBSET ProvenProjects(leaf, performance, answer) :
              /\ Cardinality(chosen) >= CountAsked(leaf)
              /\ \A a, b \in chosen : OneProject(a, b) => a = b
  BY DEF ProvenBy
<1>5. p \in OpenFor(records) <=> records # {}
  BY DEF OpenFor, Contradicts
<1>6. leaf.type = "performance"
  OBVIOUS
<1> HIDE DEF performance, leaf
<1>7. status \in {"pass", "unknown"} /\ (status = "pass" <=> p \in ProvenBy(records, answer, recalled))
  BY <1>1, <1>3, <1>4, <1>6, PerformanceIsExact
<1> HIDE DEF records, status
<1>8. Decides(p, status, records, answer, recalled)
  BY <1>5, <1>7 DEF Decides, Status
<1> QED
  BY <1>2, <1>8 DEF records, leaf

\* What the model alone can support.
LEMMA SemanticLeaf ==
    ASSUME requirement \in Requirements, NEW p \in Leaves(requirement.condition),
           requirement.condition[p].type = "semantic",
           NEW group, NEW found, NEW answer, NEW recalled
    PROVE  /\ Decides(p, LeafStatus(requirement.condition[p], group, found, answer),
                      Selected(group, found), answer, recalled)
           /\ LeafStatus(requirement.condition[p], group, found, answer) = "pass" <=>
                  \E k \in Supporting(found) : k.evidence \subseteq Ids(group)
<1> DEFINE leaf == requirement.condition[p]
           records == Selected(group, found)
           status == LeafStatus(leaf, group, found, answer)
<1>1. status = IF \E k \in Supporting(found) : k.evidence \subseteq Ids(group) THEN "pass" ELSE "unknown"
  BY DEF LeafStatus
<1>2. p \in OpenFor(records) <=> records # {}
  BY DEF OpenFor, Contradicts
<1> QED
  BY <1>1, <1>2 DEF Decides, Status

\* A leaf of any type.
LEMMA LeafIsDecided ==
    ASSUME requirement \in Requirements, NEW p \in Leaves(requirement.condition),
           NEW group \in SUBSET Records, IsFiniteSet(group), OneHolder(group),
           NEW found, NEW answer, NEW recalled
    PROVE  /\ Selected(group, found) \in SUBSET group
           /\ Decides(p, LeafStatus(requirement.condition[p], group, found, answer),
                      Selected(group, found), answer, recalled)
<1>1. Selected(group, found) \in SUBSET group
  BY DEF Selected
<1>2. /\ Selected(group, found) \in SUBSET Records /\ IsFiniteSet(Selected(group, found))
      /\ OneHolder(Selected(group, found))
  BY <1>1, FS_Subset DEF OneHolder
<1>3. CASE requirement.condition[p].type \notin {"performance", "semantic", "material_complete"}
  BY <1>1, <1>2, <1>3, RuledLeaf
<1>4. CASE requirement.condition[p].type = "performance"
  BY <1>1, <1>2, <1>4, PerformanceLeaf
<1>5. CASE requirement.condition[p].type = "semantic"
  BY <1>1, <1>5, SemanticLeaf
<1>6. CASE requirement.condition[p].type = "material_complete"
  BY <1>1, <1>6, MaterialLeaf
<1> QED
  BY <1>3, <1>4, <1>5, <1>6

\* A leaf that passes in a group is open for the group.
LEMMA PassingLeafIsOpen ==
    ASSUME requirement \in Requirements, NEW p \in Leaves(requirement.condition),
           NEW group \in SUBSET Records, group # {}, NEW records \in SUBSET group,
           NEW answer, NEW recalled, p \in ProvenBy(records, answer, recalled)
    PROVE  p \in OpenFor(group)
<1> DEFINE leaf == requirement.condition[p]
<1>1. CASE leaf.type \in {"performance", "semantic", "material_complete"}
  BY <1>1 DEF OpenFor, Contradicts
<1>2. CASE leaf.type \notin {"performance", "semantic", "material_complete"}
  <2>1. PICK r \in records : Proves(leaf, FactsOf(r))
    BY <1>2 DEF ProvenBy
  <2>2. LeafTyped(leaf)
    BY RequirementIsTyped
  <2>3. Judged(RuleStatus(leaf, FactsOf(r), AsOf), leaf, FactsOf(r))
    BY <1>2, <2>2, FactsOfRecord, RuleIsExact
  <2>4. ~Contradicts(leaf, FactsOf(r))
    <3> HIDE DEF leaf
    <3> QED
      BY <2>1, <2>3 DEF Judged
  <2> QED
    BY <2>4 DEF OpenFor
<1> QED
  BY <1>1, <1>2

-----------------------------------------------------------------------------
(***************************************************************************)
(* Groups of records.                                                      *)
(***************************************************************************)
\* A group of compare_joint is all there is of one subject.
LEMMA GroupsAreSubjects ==
    ASSUME NEW recalled \in SUBSET Records, IsFiniteSet(recalled)
    PROVE  /\ Own(recalled) \in SUBSET recalled
           /\ Groups(recalled) = {SubjectOf(recalled, r) : r \in Own(recalled)}
           /\ \A r \in Own(recalled) : /\ r \in SubjectOf(recalled, r) /\ SubjectOf(recalled, r) \in SUBSET Records
                             /\ IsFiniteSet(SubjectOf(recalled, r)) /\ OneHolder(SubjectOf(recalled, r))
<1>1. Own(recalled) \in SUBSET recalled
  BY DEF Own
<1>2. OfBidder(recalled) = Own(recalled)
  BY DEF OfBidder, Own, OneSubject
<1>3. ASSUME NEW q \in Own(recalled), NEW r \in Own(recalled)
      PROVE  OneSubject({q, r}) <=>
                 \/ q = r
                 \/ /\ q.holder = r.holder /\ q.holder # None
                    /\ Isolating => q.subject = r.subject /\ q.subject # None
  <2>1. \A s \in {q, r} : Bidder # None => s.holder \in {None, Bidder}
    BY <1>3 DEF Own, OneSubject
  <2> QED
    BY <2>1 DEF OneSubject
<1>4. ASSUME NEW q \in Own(recalled), NEW r \in Own(recalled)
      PROVE  GroupKey(q) = GroupKey(r) <=> OneSubject({q, r})
  <2>1. CASE q = r
    BY <1>3, <2>1
  <2>2. CASE q # r
    <3>1. q \in Records /\ r \in Records
      BY <1>1
    <3>2. q.id # r.id
      BY <2>2, <3>1, RecordAssumption
    <3>3. /\ q.holder # r.id /\ r.holder # q.id /\ q.subject # r.id /\ r.subject # q.id
      BY <3>1, RecordAssumption DEF Ids
    <3>4. Else(q.holder, q.id) = Else(r.holder, r.id) <=> q.holder = r.holder /\ q.holder # None
      BY <3>2, <3>3 DEF Else
    <3>5. Else(q.subject, q.id) = Else(r.subject, r.id) <=> q.subject = r.subject /\ q.subject # None
      BY <3>2, <3>3 DEF Else
    <3>6. GroupKey(q) = GroupKey(r) <=>
              /\ Else(q.holder, q.id) = Else(r.holder, r.id)
              /\ Isolating => Else(q.subject, q.id) = Else(r.subject, r.id)
      BY DEF GroupKey
    <3> QED
      BY <1>3, <2>2, <3>4, <3>5, <3>6
  <2> QED
    BY <2>1, <2>2
<1>5. Groups(recalled) = {SubjectOf(recalled, r) : r \in Own(recalled)}
  <2>1. Groups(recalled) = {{q \in Own(recalled) : GroupKey(q) = GroupKey(r)} : r \in Own(recalled)}
    BY <1>2 DEF Groups
  <2>2. \A r \in Own(recalled) : SubjectOf(recalled, r) = {q \in Own(recalled) : GroupKey(q) = GroupKey(r)}
    BY <1>4 DEF SubjectOf
  <2> DEFINE part(r) == {q \in Own(recalled) : GroupKey(q) = GroupKey(r)}
  <2>3. Groups(recalled) = {part(r) : r \in Own(recalled)}
    BY <2>1
  <2>4. \A r \in Own(recalled) : SubjectOf(recalled, r) = part(r)
    BY <2>2
  <2> HIDE DEF part
  <2> QED
    BY <2>3, <2>4, Zenon
<1>6. ASSUME NEW r \in Own(recalled)
      PROVE  /\ r \in SubjectOf(recalled, r) /\ SubjectOf(recalled, r) \in SUBSET Records
             /\ IsFiniteSet(SubjectOf(recalled, r)) /\ OneHolder(SubjectOf(recalled, r))
  <2>1. r \in SubjectOf(recalled, r)
    BY <1>3 DEF SubjectOf
  <2>2. SubjectOf(recalled, r) \in SUBSET recalled
    BY <1>1 DEF SubjectOf
  <2>3. IsFiniteSet(SubjectOf(recalled, r))
    BY <1>1, <2>2, FS_Subset
  <2>4. \A q \in SubjectOf(recalled, r) : q = r \/ (q.holder = r.holder /\ q.holder # None)
    BY <1>3 DEF SubjectOf
  <2>5. OneHolder(SubjectOf(recalled, r))
    BY <2>4 DEF OneHolder
  <2> QED
    BY <1>1, <2>1, <2>2, <2>3, <2>5
<1> QED
  BY <1>1, <1>5, <1>6

LeafStatuses(group, checks, answer) ==
    [p \in Leaves(requirement.condition) |->
        LeafStatus(requirement.condition[p], group, FirstCheck(checks, p), answer)]

\* What the verdicts on the groups make of the comparison.
LEMMA JointIsExact ==
    ASSUME requirement \in Requirements, NEW recalled \in SUBSET Records, IsFiniteSet(recalled),
           NEW checks, NEW answer
    PROVE  LET verdict(r) == EvaluateCondition(requirement.condition,
                                 LeafStatuses(SubjectOf(recalled, r), checks, answer))
               joint == CompareJoint(recalled, checks, answer)
           IN /\ \A r \in Own(recalled) : LeafStatuses(SubjectOf(recalled, r), checks, answer)
                                    \in [Leaves(requirement.condition) -> Status]
              /\ joint \in {"met", "not_met", "needs_review"}
              /\ joint = "met" <=> \E r \in Own(recalled) : verdict(r) = "pass"
              /\ joint = "not_met" <=> Own(recalled) # {} /\ \A r \in Own(recalled) : verdict(r) = "fail"
<1> DEFINE verdict(r) == EvaluateCondition(requirement.condition,
                             LeafStatuses(SubjectOf(recalled, r), checks, answer))
           results == {GroupVerdict(g, checks, answer) : g \in Groups(recalled)}
<1>1. results = {verdict(r) : r \in Own(recalled)}
  <2>1. \A g : GroupVerdict(g, checks, answer) =
                   EvaluateCondition(requirement.condition, LeafStatuses(g, checks, answer))
    BY DEF GroupVerdict, LeafStatuses
  <2> QED
    BY <2>1, GroupsAreSubjects
<1>2. CompareJoint(recalled, checks, answer) =
          CASE "pass" \in results -> "met"
            [] results = {"fail"} -> "not_met"
            [] OTHER -> "needs_review"
  BY DEF CompareJoint
<1>3. ASSUME NEW r \in Own(recalled)
      PROVE  LeafStatuses(SubjectOf(recalled, r), checks, answer) \in [Leaves(requirement.condition) -> Status]
  <2>1. SubjectOf(recalled, r) \in SUBSET Records /\ IsFiniteSet(SubjectOf(recalled, r)) /\ OneHolder(SubjectOf(recalled, r))
    BY GroupsAreSubjects
  <2>2. \A p \in Leaves(requirement.condition) :
            LeafStatus(requirement.condition[p], SubjectOf(recalled, r), FirstCheck(checks, p), answer) \in Status
    BY <2>1, LeafIsDecided DEF Decides
  <2> QED
    BY <2>2 DEF LeafStatuses
<1> HIDE DEF verdict, results
<1>4. /\ "pass" \in results <=> \E r \in Own(recalled) : verdict(r) = "pass"
      /\ results = {"fail"} <=> Own(recalled) # {} /\ \A r \in Own(recalled) : verdict(r) = "fail"
  BY <1>1
<1>5. /\ CompareJoint(recalled, checks, answer) \in {"met", "not_met", "needs_review"}
      /\ CompareJoint(recalled, checks, answer) = "met" <=> "pass" \in results
      /\ CompareJoint(recalled, checks, answer) = "not_met" <=> results = {"fail"}
  BY <1>2
<1> QED
  BY <1>3, <1>4, <1>5 DEF verdict

-----------------------------------------------------------------------------
(***************************************************************************)
(* Rules alone.                                                            *)
(***************************************************************************)
\* Without the model a leaf passes if the group's records prove it, and fails if it is not open.
LEMMA RuledLeaves ==
    ASSUME requirement \in Requirements, NEW recalled \in SUBSET Records, IsFiniteSet(recalled),
           NEW r \in Own(recalled), NEW p \in Leaves(requirement.condition)
    PROVE  LET status == LeafStatuses(SubjectOf(recalled, r), <<>>, NoAnswer)[p]
           IN /\ status = "pass" <=> p \in ProvenBy(SubjectOf(recalled, r), NoAnswer, recalled)
              /\ status # "fail" <=> p \in OpenFor(SubjectOf(recalled, r))
<1> DEFINE group == SubjectOf(recalled, r)
           found == FirstCheck(<<>>, p)
           status == LeafStatus(requirement.condition[p], group, found, NoAnswer)
<1>1. /\ r \in group /\ group \in SUBSET Records /\ IsFiniteSet(group) /\ OneHolder(group)
  BY GroupsAreSubjects
<1>2. found = {}
  BY DEF FirstCheck, ChecksOf
<1>3. Selected(group, found) = group /\ Supporting(found) = {}
  BY <1>2 DEF Selected, Supporting
<1>4. LeafStatuses(group, <<>>, NoAnswer)[p] = status
  BY DEF LeafStatuses
<1>5. requirement \in Requirements
  OBVIOUS
<1>6. Decides(p, status, group, NoAnswer, recalled)
  <2>1. Decides(p, status, Selected(group, found), NoAnswer, recalled)
    <3> HIDE DEF group, found
    <3> QED
      BY <1>1, <1>5, LeafIsDecided
  <2> HIDE DEF group, found, status
  <2> QED
    BY <1>3, <2>1
<1>7. CASE requirement.condition[p].type = "semantic"
  <2>1. status # "pass"
    BY <1>3, <1>5, <1>7, SemanticLeaf
  <2>2. p \notin ProvenBy(group, NoAnswer, recalled)
    BY <1>7 DEF ProvenBy, Supported, NoAnswer
  <2> HIDE DEF status, group
  <2> QED
    BY <1>1, <1>4, <1>6, <2>1, <2>2 DEF Decides, group
<1>8. CASE requirement.condition[p].type # "semantic"
  <2> HIDE DEF status, group
  <2> QED
    BY <1>1, <1>4, <1>6, <1>8 DEF Decides, group
<1> QED
  BY <1>7, <1>8

\* A recheck tells exactly what the records prove and what they refute.
RulesAreExact(recalled) ==
    /\ RuleDecision(recalled) \in {"met", "not_met", "needs_review"}
    /\ RuleDecision(recalled) = "met" <=> Proven(recalled, NoAnswer)
    /\ RuleDecision(recalled) = "not_met" <=> Refuted(recalled)

\* It holds whatever is recalled.
LEMMA RulesDecide ==
    ASSUME requirement \in Requirements, NEW recalled \in SUBSET Records, IsFiniteSet(recalled)
    PROVE  RulesAreExact(recalled)
<1> DEFINE c == requirement.condition
           leaves(r) == LeafStatuses(SubjectOf(recalled, r), <<>>, NoAnswer)
           verdict(r) == EvaluateCondition(c, leaves(r))
<1>1. IsTree(c)
  BY RequirementIsTyped
<1>2. ASSUME NEW r \in Own(recalled)
      PROVE  /\ verdict(r) = "pass" <=> Holds(c, ProvenBy(SubjectOf(recalled, r), NoAnswer, recalled), FALSE)
             /\ verdict(r) = "fail" <=> ~Holds(c, OpenFor(SubjectOf(recalled, r)), TRUE)
  <2>1. leaves(r) \in [Leaves(c) -> Status]
    BY JointIsExact
  <2>2. \A p \in Leaves(c) : /\ leaves(r)[p] = "pass" <=> p \in ProvenBy(SubjectOf(recalled, r), NoAnswer, recalled)
                             /\ leaves(r)[p] # "fail" <=> p \in OpenFor(SubjectOf(recalled, r))
    BY RuledLeaves
  <2> HIDE DEF c, leaves
  <2>3. verdict(r) = "pass" <=> Holds(c, ProvenBy(SubjectOf(recalled, r), NoAnswer, recalled), FALSE)
    BY <1>1, <2>1, <2>2, PassMeansHolds
  <2>4. verdict(r) = "fail" <=> ~Holds(c, OpenFor(SubjectOf(recalled, r)), TRUE)
    BY <1>1, <2>1, <2>2, FailMeansRefuted
  <2> QED
    BY <2>3, <2>4
<1> DEFINE joint == CompareJoint(recalled, <<>>, NoAnswer)
<1>3. /\ joint \in {"met", "not_met", "needs_review"}
      /\ joint = "met" <=> \E r \in Own(recalled) : verdict(r) = "pass"
      /\ joint = "not_met" <=> Own(recalled) # {} /\ \A r \in Own(recalled) : verdict(r) = "fail"
  BY JointIsExact
<1>4. RuleDecision(recalled) = IF recalled = {} THEN "needs_review" ELSE joint
  BY DEF RuleDecision
<1>5. Own(recalled) \in SUBSET recalled
  BY GroupsAreSubjects
<1>6. Proven(recalled, NoAnswer) <=>
          \E r \in Own(recalled) : Holds(c, ProvenBy(SubjectOf(recalled, r), NoAnswer, recalled), FALSE)
  BY DEF Proven
<1>7. Refuted(recalled) <=>
          /\ Own(recalled) # {}
          /\ \A r \in Own(recalled) : ~Holds(c, OpenFor(SubjectOf(recalled, r)), TRUE)
  BY DEF Refuted
<1> HIDE DEF joint, verdict, c, leaves
<1>8. /\ Proven(recalled, NoAnswer) <=> joint = "met"
      /\ Refuted(recalled) <=> joint = "not_met"
  BY <1>2, <1>3, <1>6, <1>7
<1>9. recalled = {} => ~Proven(recalled, NoAnswer) /\ ~Refuted(recalled)
  BY <1>5, <1>6, <1>7
<1> QED
  BY <1>3, <1>4, <1>8, <1>9 DEF RulesAreExact

-----------------------------------------------------------------------------
(***************************************************************************)
(* Rules and the model.                                                    *)
(***************************************************************************)
\* What a check supports once its citations are validated is supported with quotations.
LEMMA ValidSupport ==
    ASSUME NEW answer \in AnswerType(Expected), NEW recalled, NEW i \in DOMAIN answer.checks,
           Validated(answer.checks[i], recalled).status = "supports"
    PROVE  /\ Supported(answer.checks[i].id, answer, recalled)
           /\ Validated(answer.checks[i], recalled).id = answer.checks[i].id
<1> DEFINE check == answer.checks[i]
           cited == {r \in recalled : r.id \in check.evidence}
           quoted == check.spans \cap UNION {r.spans : r \in cited}
           valid == cited # {} /\ \A r \in cited : r.spans \cap quoted # {}
           status == IF valid THEN check.status ELSE "insufficient"
<1>1. check \in CheckType(Expected)
  BY DEF AnswerType
<1>2. Validated(check, recalled) = [check EXCEPT !.status = status, !.evidence = Ids(cited)]
  BY DEF Validated
<1>3. Validated(check, recalled).status = status /\ Validated(check, recalled).id = check.id
  <2> HIDE DEF check, status, cited
  <2> QED
    BY <1>1, <1>2 DEF CheckType
<1>4. valid /\ check.status = "supports"
  BY <1>3
<1>5. \E r \in recalled : r.id \in check.evidence
  BY <1>4
<1>6. \A r \in recalled : r.id \in check.evidence => r.spans \cap check.spans # {}
  BY <1>4
<1> QED
  BY <1>3, <1>4, <1>5, <1>6 DEF Supported

\* What the first check or the last of a condition supports.
LEMMA SupportingChecks ==
    ASSUME NEW answer \in AnswerType(Expected), NEW recalled, NEW path
    PROVE  /\ Supporting(FirstCheck(Checks(answer, recalled), path)) # {} => Supported(path, answer, recalled)
           /\ Supporting(LastCheck(Checks(answer, recalled), path)) # {} => Supported(path, answer, recalled)
<1> DEFINE checks == Checks(answer, recalled)
<1>1. DOMAIN checks = DOMAIN answer.checks
  BY DEF Checks
<1>2. \A i \in DOMAIN checks : checks[i] = Validated(answer.checks[i], recalled)
  BY DEF Checks
<1> HIDE DEF checks
<1>3. ASSUME NEW i \in DOMAIN checks, checks[i].id = path, checks[i].status = "supports"
      PROVE  Supported(path, answer, recalled)
  BY <1>1, <1>2, <1>3, ValidSupport
<1> QED
  BY <1>3 DEF Supporting, FirstCheck, LastCheck, ChecksOf, checks

\* Met by the model: some subject's records prove the condition, so that the rules do
\* not refute it, and the model's supports make it true as well.
MetProperly(answer, recalled) ==
    /\ \E r \in Own(recalled) : Holds(requirement.condition,
           UNION {ProvenBy(cited, answer, recalled) : cited \in SUBSET SubjectOf(recalled, r)}, FALSE)
    /\ Holds(requirement.condition,
             {p \in Leaves(requirement.condition) : Supported(p, answer, recalled)}, FALSE)
    /\ \A p \in Expected : \E i \in DOMAIN answer.checks : answer.checks[i].id = p
    /\ Supported(Scope, answer, recalled)

\* What some of a subject's records prove is not refuted.
LEMMA ProvenIsNotRefuted ==
    ASSUME requirement \in Requirements, NEW recalled \in SUBSET Records, IsFiniteSet(recalled),
           NEW answer, NEW r \in Own(recalled),
           Holds(requirement.condition,
                 UNION {ProvenBy(cited, answer, recalled) : cited \in SUBSET SubjectOf(recalled, r)}, FALSE)
    PROVE  ~Refuted(recalled)
<1> DEFINE few == UNION {ProvenBy(cited, answer, recalled) : cited \in SUBSET SubjectOf(recalled, r)}
           many == OpenFor(SubjectOf(recalled, r))
<1>1. r \in SubjectOf(recalled, r) /\ SubjectOf(recalled, r) \in SUBSET Records
  BY GroupsAreSubjects
<1>2. Leaves(requirement.condition) \cap few \subseteq many
  BY <1>1, PassingLeafIsOpen
<1>3. IsTree(requirement.condition)
  BY RequirementIsTyped
<1>4. Holds(requirement.condition, many, TRUE)
  <2> HIDE DEF few, many
  <2>1. Holds(requirement.condition, few, FALSE)
    BY DEF few
  <2> QED
    BY <1>2, <1>3, <2>1, HoldsIsMonotone
<1> QED
  BY <1>4 DEF Refuted

\* A decision with the model.
LEMMA ModelDecides ==
    ASSUME requirement \in Requirements, NEW recalled \in SUBSET Records, IsFiniteSet(recalled),
           NEW answer \in AnswerType(Expected)
    PROVE  /\ ModelDecision(recalled, answer) \in {"met", "not_met", "needs_review"}
           /\ ModelDecision(recalled, answer) = "met" => MetProperly(answer, recalled)
<1> DEFINE c == requirement.condition
           checks == Checks(answer, recalled)
           joint == CompareJoint(recalled, checks, answer)
           leaves(r) == LeafStatuses(SubjectOf(recalled, r), checks, answer)
<1>1. ModelDecision(recalled, answer) =
          IF recalled = {} \/ (joint = "met" /\ ~AllSupported(answer, checks))
          THEN "needs_review" ELSE joint
  BY DEF ModelDecision
<1>2. /\ \A r \in Own(recalled) : leaves(r) \in [Leaves(c) -> Status]
      /\ joint \in {"met", "not_met", "needs_review"}
      /\ joint = "met" <=> \E r \in Own(recalled) : EvaluateCondition(c, leaves(r)) = "pass"
  BY JointIsExact
<1>3. ModelDecision(recalled, answer) \in {"met", "not_met", "needs_review"}
  BY <1>1, <1>2
<1>4. IsTree(c)
  BY RequirementIsTyped
<1>5. ASSUME ModelDecision(recalled, answer) = "met" PROVE MetProperly(answer, recalled)
  <2>1. joint = "met" /\ AllSupported(answer, checks)
    <3> HIDE DEF joint, checks
    <3> QED
      BY <1>1, <1>5
  <2>2. PICK r \in Own(recalled) : EvaluateCondition(c, leaves(r)) = "pass"
    BY <1>2, <2>1
  <2> DEFINE passed == {p \in Leaves(c) : leaves(r)[p] = "pass"}
             proven == UNION {ProvenBy(cited, answer, recalled) : cited \in SUBSET SubjectOf(recalled, r)}
             rules == [p \in Leaves(c) |-> AsRule(LastCheck(checks, p))]
             supported == {p \in Leaves(c) : Supported(p, answer, recalled)}
             quoted == {p \in Leaves(c) : rules[p] = "pass"}
  <2>3. Holds(c, passed, FALSE)
    <3>1. \A p \in Leaves(c) : leaves(r)[p] = "pass" <=> p \in passed
      OBVIOUS
    <3>2. leaves(r) \in [Leaves(c) -> Status]
      BY <1>2
    <3> HIDE DEF c, leaves, passed
    <3> QED
      BY <1>4, <2>2, <3>1, <3>2, PassMeansHolds
  <2>4. ASSUME NEW p \in passed PROVE p \in proven
    <3> DEFINE group == SubjectOf(recalled, r)
               found == FirstCheck(checks, p)
               records == Selected(group, found)
               status == LeafStatus(c[p], group, found, answer)
    <3>1. group \in SUBSET Records /\ IsFiniteSet(group) /\ OneHolder(group)
      BY GroupsAreSubjects
    <3>2. p \in Leaves(c) /\ status = "pass"
      BY <2>4 DEF LeafStatuses
    <3>3. requirement \in Requirements
      OBVIOUS
    <3>4. records \in SUBSET group /\ Decides(p, status, records, answer, recalled)
      <4> HIDE DEF group, found
      <4> QED
        BY <3>1, <3>2, <3>3, LeafIsDecided
    <3>5. p \in ProvenBy(records, answer, recalled)
      <4>1. CASE c[p].type = "semantic"
        <5>1. \E k \in Supporting(found) : k.evidence \subseteq Ids(group)
          BY <3>2, <3>3, <4>1, SemanticLeaf
        <5>2. Supported(p, answer, recalled)
          BY <5>1, SupportingChecks
        <5> QED
          BY <3>2, <4>1, <5>2 DEF ProvenBy
      <4>2. CASE c[p].type # "semantic"
        <5> HIDE DEF records, status
        <5> QED
          BY <3>2, <3>4, <4>2 DEF Decides
      <4> QED
        BY <4>1, <4>2
    <3> QED
      BY <3>4, <3>5
  <2>5. Holds(c, proven, FALSE)
    <3>1. Leaves(c) \cap passed \subseteq proven
      BY <2>4
    <3> HIDE DEF c, passed, proven
    <3> QED
      BY <1>4, <2>3, <3>1, HoldsIsMonotone
  <2>6. AsRule(LastCheck(checks, Scope)) = "pass" /\ CompleteAnswer(answer)
        /\ EvaluateCondition(c, rules) = "pass"
    BY <2>1 DEF AllSupported
  <2>7. \A p : AsRule(LastCheck(checks, p)) = "pass" => Supported(p, answer, recalled)
    BY SupportingChecks DEF AsRule
  <2>8. rules \in [Leaves(c) -> Status]
    BY DEF AsRule, Status
  <2>9. Holds(c, quoted, FALSE)
    <3>1. \A p \in Leaves(c) : rules[p] = "pass" <=> p \in quoted
      OBVIOUS
    <3> HIDE DEF c, rules, quoted
    <3> QED
      BY <1>4, <2>6, <2>8, <3>1, PassMeansHolds
  <2>10. Leaves(c) \cap quoted \subseteq supported
    BY <2>7
  <2>11. Holds(c, supported, FALSE)
    <3> HIDE DEF c, quoted, supported
    <3> QED
      BY <1>4, <2>9, <2>10, HoldsIsMonotone
  <2>12. \A p \in Expected : \E i \in DOMAIN answer.checks : answer.checks[i].id = p
    BY <2>6 DEF CompleteAnswer
  <2>13. Supported(Scope, answer, recalled)
    BY <2>6, <2>7
  <2> HIDE DEF supported, proven
  <2> QED
    BY <2>5, <2>11, <2>12, <2>13 DEF MetProperly, supported, proven
<1> QED
  BY <1>3, <1>5

-----------------------------------------------------------------------------
(***************************************************************************)
(* What is said of a requirement stays true while it stays what it is, for *)
(* the same records and the same answer.                                   *)
(***************************************************************************)
LEMMA SameRequirement ==
    ASSUME requirement' = requirement
    PROVE  /\ Expected' = Expected
           /\ \A S : Refuted(S)' <=> Refuted(S)
           /\ \A S, answer : Proven(S, answer)' <=> Proven(S, answer)
           /\ \A S, answer : MetProperly(answer, S)' <=> MetProperly(answer, S)
<1>1. Expected' = Expected
  BY DEF Expected
<1>2. Isolating' <=> Isolating
  BY DEF Isolating
<1>3. \A S : OneSubject(S)' <=> OneSubject(S)
  BY <1>2 DEF OneSubject
<1>4. \A S : OpenFor(S)' = OpenFor(S)
  BY DEF OpenFor
<1>5. \A S : Own(S)' = Own(S)
  BY <1>3 DEF Own
<1>6. \A S, r : SubjectOf(S, r)' = SubjectOf(S, r)
  BY <1>3, <1>5 DEF SubjectOf
<1>7. \A p, answer, S : Supported(p, answer, S)' <=> Supported(p, answer, S)
  BY DEF Supported
<1>8. \A S, answer, T : ProvenBy(T, answer, S)' = ProvenBy(T, answer, S)
  BY <1>7 DEF ProvenBy
<1>9. \A S : Refuted(S)' <=> Refuted(S)
  BY <1>4, <1>5, <1>6 DEF Refuted
<1>10. \A S, answer : Proven(S, answer)' <=> Proven(S, answer)
  BY <1>5, <1>6, <1>8 DEF Proven
<1>11. ASSUME NEW answer, NEW S PROVE MetProperly(answer, S)' <=> MetProperly(answer, S)
  <2>1. {p \in Leaves(requirement.condition) : Supported(p, answer, S)}' =
            {p \in Leaves(requirement.condition) : Supported(p, answer, S)}
    BY <1>7
  <2>2. \A r \in Own(S) :
            UNION {ProvenBy(cited, answer, S) : cited \in SUBSET SubjectOf(S, r)}' =
            UNION {ProvenBy(cited, answer, S) : cited \in SUBSET SubjectOf(S, r)}
    BY <1>6, <1>8
  <2> QED
    BY <1>1, <1>5, <1>7, <2>1, <2>2 DEF MetProperly
<1> QED
  BY <1>1, <1>9, <1>10, <1>11

-----------------------------------------------------------------------------
(***************************************************************************)
(* The invariant: a decision is what the rules, or the rules and the       *)
(* model, make of the records it has recalled.                             *)
(***************************************************************************)
Stocked ==
    /\ requirement \in Requirements
    /\ library \subseteq Records /\ IsFiniteSet(library) /\ Cardinality(library) <= MaxRecords

Decided ==
    /\ decision.status \in {"none", "met", "not_met", "needs_review"}
    /\ decision.by \in {"nobody", "model", "rules"}
    /\ decision.recalled \subseteq library
    /\ decision.answer \in AnswerType(Expected)
    /\ decision.by = "rules" =>
           /\ decision.status = "met" <=> Proven(decision.recalled, NoAnswer)
           /\ decision.status = "not_met" <=> Refuted(decision.recalled)
    /\ decision.by = "model" /\ decision.status = "met" =>
           MetProperly(decision.answer, decision.recalled) /\ ~Refuted(decision.recalled)

Inv == Stocked /\ Decided

\* The records a comparison may recall.
LEMMA RecallsAreTyped ==
    ASSUME Stocked, NEW recalled \in SUBSET library
    PROVE  /\ recalled \in SUBSET Records /\ IsFiniteSet(recalled)
           /\ Cardinality(recalled) <= MaxRecords
<1>1. IsFiniteSet(library) /\ library \subseteq Records /\ Cardinality(library) <= MaxRecords
  BY DEF Stocked
<1>2. IsFiniteSet(recalled) /\ Cardinality(recalled) <= Cardinality(library)
  BY <1>1, FS_Subset
<1>3. Cardinality(recalled) \in Nat /\ Cardinality(library) \in Nat /\ MaxRecords \in Nat
  BY <1>1, <1>2, FS_CardinalityType, RecordAssumption
<1> QED
  BY <1>1, <1>2, <1>3

\* The answers there may be.
LEMMA AnswersAreTyped ==
    ASSUME Stocked, NEW recalled \in SUBSET library
    PROVE  /\ NoAnswer \in AnswerType(Expected)
           /\ PossibleAnswers(recalled) \subseteq AnswerType(Expected)
<1>1. NoAnswer \in AnswerType(Expected)
  BY DEF NoAnswer, AnswerType, Judgements
<1>2. Answers(Expected, recalled) \subseteq AnswerType(Expected)
  BY RecallsAreTyped, AnswerAssumption DEF Stocked, Expected
<1> QED
  BY <1>1, <1>2 DEF PossibleAnswers

\* No decision.
LEMMA UndecidedIsFine ==
    ASSUME Stocked, decision = Undecided
    PROVE  Decided
<1>1. NoAnswer \in AnswerType(Expected)
  BY AnswersAreTyped
<1>2. /\ decision.status = "none" /\ decision.by = "nobody" /\ decision.answer = NoAnswer
      /\ decision.recalled = {}
  BY DEF Undecided
<1> QED
  BY <1>1, <1>2 DEF Decided

\* Initially.
LEMMA InitInv == Init => Inv
<1> SUFFICES ASSUME Init PROVE Inv
  OBVIOUS
<1>1. Stocked
  BY FS_EmptySet, RecordAssumption DEF Init, Stocked
<1>2. Decided
  BY <1>1, UndecidedIsFine DEF Init
<1> QED
  BY <1>1, <1>2 DEF Inv

\* The same of the next state.
LEMMA UndecidedNext == (Stocked /\ decision = Undecided => Decided)'
BY UndecidedIsFine, PTL

\* The library changes by one record at a time.
LEMMA StockedNext ==
    ASSUME Stocked, [Next]_vars
    PROVE  Stocked' /\ requirement' = requirement
<1>1. ASSUME UNCHANGED <<requirement, library>> PROVE Stocked' /\ requirement' = requirement
  BY <1>1 DEF Stocked
<1>2. ASSUME NEW r \in Records, Supply(r) PROVE Stocked' /\ requirement' = requirement
  <2>1. library' = library \cup {r} /\ r \notin library /\ Cardinality(library) < MaxRecords
        /\ requirement' = requirement
    BY <1>2 DEF Supply
  <2>2. IsFiniteSet(library') /\ Cardinality(library') = Cardinality(library) + 1
    BY <2>1, FS_AddElement DEF Stocked
  <2>3. Cardinality(library) \in Nat /\ MaxRecords \in Nat
    BY FS_CardinalityType, RecordAssumption DEF Stocked
  <2>4. Cardinality(library') <= MaxRecords
    BY <2>1, <2>2, <2>3
  <2> QED
    BY <2>1, <2>2, <2>4 DEF Stocked
<1>3. ASSUME NEW r \in Records, Withdraw(r) PROVE Stocked' /\ requirement' = requirement
  <2>1. library' = library \ {r} /\ requirement' = requirement
    BY <1>3 DEF Withdraw
  <2>2. IsFiniteSet(library') /\ Cardinality(library') <= Cardinality(library)
    <3>1. library' \in SUBSET library
      BY <2>1
    <3> QED
      BY <3>1, FS_Subset DEF Stocked
  <2>3. Cardinality(library) \in Nat /\ MaxRecords \in Nat /\ Cardinality(library') \in Nat
    BY <2>2, FS_CardinalityType, RecordAssumption DEF Stocked
  <2>4. Cardinality(library') <= MaxRecords
    BY <2>2, <2>3 DEF Stocked
  <2> QED
    BY <2>1, <2>2, <2>4 DEF Stocked
<1> QED
  BY <1>1, <1>2, <1>3 DEF Next, Compare, Recheck, Outdate, vars

\* The records and the answer that a decision keeps.
LEMMA Kept ==
    ASSUME NEW answer, NEW recalled, decision'.answer = answer, decision'.recalled = recalled
    PROVE  /\ MetProperly(decision.answer, decision.recalled)' <=> MetProperly(answer, recalled)'
           /\ Proven(decision.recalled, NoAnswer)' <=> Proven(recalled, NoAnswer)'
           /\ Refuted(decision.recalled)' <=> Refuted(recalled)'
<1>1. Own(decision.recalled)' = Own(recalled)'
  BY DEF Own
<1>2. \A r : SubjectOf(decision.recalled, r)' = SubjectOf(recalled, r)'
  BY <1>1 DEF SubjectOf
<1>3. Refuted(decision.recalled)' <=> Refuted(recalled)'
  BY <1>1, <1>2 DEF Refuted, OpenFor
<1>4. Proven(decision.recalled, NoAnswer)' <=> Proven(recalled, NoAnswer)'
  BY <1>1, <1>2 DEF Proven, ProvenBy, Supported, ProvenProjects
<1>5. MetProperly(decision.answer, decision.recalled)' <=> MetProperly(answer, recalled)'
  BY <1>1, <1>2 DEF MetProperly, ProvenBy, Supported, ProvenProjects
<1> QED
  BY <1>3, <1>4, <1>5

\* Every step keeps it.
LEMMA NextInv ==
    ASSUME Inv, [Next]_vars
    PROVE  Inv'
<1>1. Stocked /\ Decided
  BY DEF Inv
<1>2. Stocked' /\ requirement' = requirement
  BY <1>1, StockedNext
<1>3. /\ Expected' = Expected
      /\ \A S : Refuted(S)' <=> Refuted(S)
      /\ \A S, answer : Proven(S, answer)' <=> Proven(S, answer)
      /\ \A S, answer : MetProperly(answer, S)' <=> MetProperly(answer, S)
  BY <1>2, SameRequirement
<1>4. ASSUME NEW recalled \in Recalls PROVE recalled \in SUBSET library
  BY <1>4 DEF Recalls
<1>5. ASSUME NEW recalled \in Recalls, NEW answer \in PossibleAnswers(recalled),
             Compare(recalled, answer)
      PROVE  Decided'
  <2>1. /\ library' = library /\ recalled \in SUBSET library
        /\ recalled \in SUBSET Records /\ IsFiniteSet(recalled)
    BY <1>1, <1>4, <1>5, RecallsAreTyped DEF Compare
  <2>2. answer \in AnswerType(Expected)
    BY <1>1, <2>1, AnswersAreTyped
  <2>3. requirement \in Requirements
    BY <1>1 DEF Stocked
  <2> DEFINE status == ModelDecision(recalled, answer)
  <2>4. /\ status \in {"met", "not_met", "needs_review"}
        /\ status = "met" => MetProperly(answer, recalled)
    BY <2>1, <2>2, <2>3, ModelDecides
  <2>5. status = "met" => ~Refuted(recalled)
    <3>1. ASSUME MetProperly(answer, recalled) PROVE ~Refuted(recalled)
      BY <2>1, <2>3, <3>1, ProvenIsNotRefuted DEF MetProperly
    <3> QED
      BY <2>4, <3>1
  <2>6. decision' = [status |-> status, by |-> "model", recalled |-> recalled, answer |-> answer]
    BY <1>5 DEF Compare
  <2> HIDE DEF status
  <2>7. /\ decision'.status = status /\ decision'.by = "model" /\ decision'.answer = answer
        /\ decision'.recalled = recalled
    BY <2>6
  <2>8. /\ MetProperly(decision.answer, decision.recalled)' <=> MetProperly(answer, recalled)
        /\ Refuted(decision.recalled)' <=> Refuted(recalled)
    BY <1>3, <2>7, Kept
  <2> QED
    BY <1>3, <2>1, <2>2, <2>4, <2>5, <2>7, <2>8 DEF Decided
<1>6. ASSUME NEW recalled \in Recalls, Recheck(recalled) PROVE Decided'
  <2>1. /\ library' = library /\ recalled \in SUBSET library
        /\ recalled \in SUBSET Records /\ IsFiniteSet(recalled)
    BY <1>1, <1>4, <1>6, RecallsAreTyped DEF Recheck
  <2>2. requirement \in Requirements
    BY <1>1 DEF Stocked
  <2> DEFINE status == RuleDecision(recalled)
  <2>3. /\ status \in {"met", "not_met", "needs_review"}
        /\ status = "met" <=> Proven(recalled, NoAnswer)
        /\ status = "not_met" <=> Refuted(recalled)
    BY <2>1, <2>2, RulesDecide DEF RulesAreExact
  <2>4. decision' = [status |-> status, by |-> "rules", recalled |-> recalled, answer |-> NoAnswer]
    BY <1>6 DEF Recheck
  <2> HIDE DEF status
  <2>5. /\ decision'.status = status /\ decision'.by = "rules" /\ decision'.answer = NoAnswer
        /\ decision'.recalled = recalled
    BY <2>4
  <2>6. /\ Proven(decision.recalled, NoAnswer)' <=> Proven(recalled, NoAnswer)
        /\ Refuted(decision.recalled)' <=> Refuted(recalled)
    BY <1>3, <2>5, Kept
  <2>7. NoAnswer \in AnswerType(Expected)
    BY <1>1, <2>1, AnswersAreTyped
  <2> QED
    BY <1>3, <2>1, <2>3, <2>5, <2>6, <2>7 DEF Decided
<1>7. ASSUME decision' = Undecided PROVE Decided'
  BY <1>2, <1>7, UndecidedNext
<1>8. ASSUME Outdate PROVE Decided'
  BY <1>7, <1>8 DEF Outdate
<1>9. ASSUME NEW r \in Records, Supply(r) \/ Withdraw(r) PROVE Decided'
  BY <1>7, <1>9 DEF Supply, Withdraw
<1>10. ASSUME UNCHANGED vars PROVE Decided'
  <2>1. decision' = decision /\ library' = library
    BY <1>10 DEF vars
  <2>2. PICK answer, recalled : answer = decision.answer /\ recalled = decision.recalled
    OBVIOUS
  <2>3. decision'.answer = answer /\ decision'.recalled = recalled
    BY <2>1, <2>2
  <2>4. /\ MetProperly(decision.answer, decision.recalled)' <=> MetProperly(answer, recalled)
        /\ Proven(decision.recalled, NoAnswer)' <=> Proven(recalled, NoAnswer)
        /\ Refuted(decision.recalled)' <=> Refuted(recalled)
    BY <1>3, <2>3, Kept
  <2> QED
    BY <1>1, <1>3, <2>1, <2>2, <2>4 DEF Decided
<1> QED
  BY <1>2, <1>5, <1>6, <1>8, <1>9, <1>10 DEF Inv, Next

\* The invariant holds.
LEMMA SpecInv == Spec => []Inv
<1>1. Inv /\ [Next]_vars => Inv'
  BY NextInv
<1> QED
  BY InitInv, <1>1, PTL DEF Spec

-----------------------------------------------------------------------------
\* TypeOK of Comparison: a comparison ends in one of the decisions, or in none where evaluating
\* its condition raises, and keeps records of the library and an answer about the conditions of
\* its requirement (compare_requirement).
THEOREM TypeCorrect == Spec => []TypeOK
<1>1. Inv => TypeOK
  BY DEF Inv, Stocked, Decided, TypeOK
<1> QED
  BY <1>1, SpecInv, PTL

\* RecheckIsExact: the code's three-valued, per-subject, per-project evaluation finds met exactly
\* what some subject's records among those recalled prove in two-valued logic, and not met exactly
\* what nobody's could (evaluate_condition, compare_joint, compare_performance, recheck_rules).
THEOREM RechecksAreExact == Spec => []RecheckIsExact
<1>1. Inv => RecheckIsExact
  BY DEF Inv, Decided, RecheckIsExact
<1> QED
  BY <1>1, SpecInv, PTL

\* MetIsProvenAndQuoted: whatever the model answers, met takes records of one subject that prove the
\* condition and supports with quotations that make it true, none missing (compare_requirement).
THEOREM MetTakesBoth == Spec => []MetIsProvenAndQuoted
<1>1. Inv => MetIsProvenAndQuoted
  BY DEF Inv, Decided, MetIsProvenAndQuoted, MetProperly
<1> QED
  BY <1>1, SpecInv, PTL

\* ModelNeverOverridesRules: no answer of the model turns what the rules refute into met
\* (compare_requirement, compare_joint).
THEOREM RulesPrevail == Spec => []ModelNeverOverridesRules
<1>1. Inv => ModelNeverOverridesRules
  BY DEF Inv, Decided, ModelNeverOverridesRules
<1> QED
  BY <1>1, SpecInv, PTL

\* What more records leave open for a subject.
LEMMA MoreIsOpen ==
    ASSUME requirement \in Requirements, NEW recalled \in SUBSET Records, IsFiniteSet(recalled),
           NEW fewer \in SUBSET recalled, Proven(fewer, NoAnswer)
    PROVE  ~Refuted(recalled)
<1> DEFINE c == requirement.condition
<1>1. fewer \in SUBSET Records /\ IsFiniteSet(fewer)
  BY FS_Subset
<1>2. PICK r \in Own(fewer) : Holds(c, ProvenBy(SubjectOf(fewer, r), NoAnswer, fewer), FALSE)
  BY DEF Proven
<1>3. Own(fewer) \subseteq Own(recalled)
  BY DEF Own
<1>4. SubjectOf(fewer, r) \subseteq SubjectOf(recalled, r)
  BY <1>3 DEF SubjectOf
<1>5. r \in SubjectOf(fewer, r) /\ SubjectOf(fewer, r) \in SUBSET Records
  BY <1>1, GroupsAreSubjects
<1>6. OpenFor(SubjectOf(fewer, r)) \subseteq OpenFor(SubjectOf(recalled, r))
  BY <1>4 DEF OpenFor
<1>7. Leaves(c) \cap ProvenBy(SubjectOf(fewer, r), NoAnswer, fewer)
          \subseteq OpenFor(SubjectOf(recalled, r))
  BY <1>5, <1>6, PassingLeafIsOpen
<1>8. IsTree(c)
  BY RequirementIsTyped
<1>9. Holds(c, OpenFor(SubjectOf(recalled, r)), TRUE)
  <2> HIDE DEF c
  <2> QED
    BY <1>2, <1>7, <1>8, HoldsIsMonotone
<1> QED
  BY <1>3, <1>9 DEF Refuted

\* MoreEvidenceNeverRefutes: what the rules find not met they would not have found met on fewer of
\* the records recalled, of whatever kind and holder.  Of a record that pushes another out under
\* the limit of the recall this says nothing (compare_joint, compare_performance, recall_evidence).
THEOREM EvidenceOnlyHelps == Spec => []MoreEvidenceNeverRefutes
<1>1. ASSUME Inv PROVE MoreEvidenceNeverRefutes
  <2>1. SUFFICES ASSUME decision.by = "rules", decision.status = "not_met",
                        NEW fewer \in SUBSET decision.recalled
                 PROVE  RuleDecision(fewer) # "met"
    BY DEF MoreEvidenceNeverRefutes
  <2>2. Stocked /\ Refuted(decision.recalled) /\ decision.recalled \in SUBSET library
    BY <1>1, <2>1 DEF Inv, Decided
  <2>3. /\ decision.recalled \in SUBSET Records /\ IsFiniteSet(decision.recalled)
        /\ fewer \in SUBSET Records /\ IsFiniteSet(fewer) /\ requirement \in Requirements
    BY <2>2, RecallsAreTyped DEF Stocked
  <2>4. RuleDecision(fewer) = "met" => Proven(fewer, NoAnswer)
    BY <2>3, RulesDecide DEF RulesAreExact
  <2>5. ~Proven(fewer, NoAnswer)
    BY <2>2, <2>3, MoreIsOpen
  <2> QED
    BY <2>4, <2>5
<1> QED
  BY <1>1, SpecInv, PTL
=============================================================================
