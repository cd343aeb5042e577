----------------------------- MODULE Comparison -----------------------------
(***************************************************************************)
(* services/comparison.py: one requirement is compared with the records    *)
(* of the enterprise's library, by rules alone (recheck_rules) or with an  *)
(* answer of the model (decide_run), while records come and go.            *)
(*                                                                         *)
(* The model's answer is open: any verdict, any checks of any conditions,  *)
(* with any citations.  So is what recall_evidence ranks first.  RunReview *)
(* has the clauses that are replaced or in conflict, AnalysisFreshness     *)
(* what becomes of decisions on former inputs.                             *)
(*                                                                         *)
(* condition_json is stored as it was sent.  Where it is malformed some    *)
(* comparisons raise, and the requirement keeps the decision it had.       *)
(***************************************************************************)
EXTENDS Rules

CONSTANTS
    Requirements,   \* [category, condition, malformed, unreadable]
    Records,        \* evidence items with their facts
    MaxRecords,     \* bound: records in the library at a time
    LeastRecalled, MostRecalled,  \* how many records a comparison looks at (16, 64)
    Bidder, AsOf,   \* the bidder's name and the date validity is judged at
    None,           \* a field that is not filled in
    Answers(_, _)   \* answers of the model about these conditions and records

VARIABLES
    requirement,
    library,        \* the records recall_evidence may find
    decision        \* its status, and the records and the answer it rests on

vars == <<requirement, library, decision>>

Ids(records) == {r.id : r \in records}

\* Ids are keys, and no holder, person or project is named like one.
ASSUME RecordAssumption ==
    /\ MaxRecords \in Nat
    /\ \A a, b \in Records : a.id = b.id => a = b
    /\ \A r \in Records : {r.holder, r.subject, r.project, None} \cap Ids(Records) = {}

ASSUME FactAssumption ==
    /\ AsOf \in Int
    /\ \A r \in Records :
          /\ IsFiniteSet(r.facts)
          /\ \A f \in r.facts : /\ IsFiniteSet(f.number) /\ f.number \subseteq Int
                                /\ IsFiniteSet(f.date) /\ f.date \subseteq Int

\* Conditions are finite trees.  The leaves in malformed have a parameter that their rule
\* cannot convert, and what stands for it here is not read; in an unreadable condition a
\* node or a count is not what condition_catalog and the limit of the recall take it for.
ASSUME ConditionAssumption ==
    \A q \in Requirements :
        /\ IsFiniteSet(DOMAIN q.condition) /\ <<>> \in DOMAIN q.condition
        /\ DOMAIN q.condition \subseteq Seq(Nat \ {0})
        /\ q.malformed \subseteq Leaves(q.condition) /\ q.unreadable \in BOOLEAN
        /\ \A p \in Leaves(q.condition) :
              LET leaf == q.condition[p]
              IN /\ leaf.type = "certificate" => leaf.require_validity \in BOOLEAN
                 /\ leaf.type = "number" => leaf.value \in Int
                 /\ leaf.type = "performance" =>
                       /\ leaf.minimum_amount \in Int /\ leaf.minimum_count \in Int
                       /\ leaf.since \in Int \cup {None} /\ leaf.scope \in BOOLEAN

\* A record that is not reviewed is recalled without its facts.
FactsOf(record) == IF record.review \in {"verified", "extracted"} THEN record.facts ELSE {}
FactsOfAll(records) == UNION {FactsOf(r) : r \in records}

(***************************************************************************)
(* recall_evidence: of the records of the kind asked for those that rank   *)
(* first; where no kind is asked for, those of them that score at all.     *)
(***************************************************************************)
EvidenceKinds == {"qualification", "personnel", "performance",
                  "financial", "technical", "commercial"}

Requested ==
    LET condition == requirement.condition
    IN Max({0} \cup {condition[p].minimum_count :
               p \in {q \in Leaves(condition) : "minimum_count" \in DOMAIN condition[q]}})
Limit == Min({MostRecalled, Max({LeastRecalled, 2 * Requested})})

Recalls ==
    LET asked == (IF IsGroup(requirement.condition[<<>>]) THEN {} ELSE {requirement.category})
                     \cap EvidenceKinds
        found == {r \in library : asked # {} => r.kind \in asked}
    IN {recalled \in SUBSET found :
           IF asked = {} THEN Cardinality(recalled) <= Limit
           ELSE Cardinality(recalled) = Min({Limit, Cardinality(found)})}

(***************************************************************************)
(* The model's checks count with citations only: of recalled records, each *)
(* by a source span of its own.                                            *)
(***************************************************************************)
Scope == <<0>>

Expected == Leaves(requirement.condition) \cup {Scope}

MutValidated(check, recalled) == [check EXCEPT !.evidence = @ \cap Ids(recalled)]
Validated(check, recalled) ==
    LET cited == {r \in recalled : r.id \in check.evidence}
        quoted == check.spans \cap UNION {r.spans : r \in cited}
        valid == cited # {} /\ \A r \in cited : r.spans \cap quoted # {}
    IN [check EXCEPT !.status = IF valid THEN @ ELSE "insufficient",
                     !.evidence = Ids(cited)]

Checks(answer, recalled) ==
    [i \in DOMAIN answer.checks |-> Validated(answer.checks[i], recalled)]

\* The first check of a condition and the last, as sets of at most one.
ChecksOf(checks, path) == {i \in DOMAIN checks : checks[i].id = path}
FirstCheck(checks, path) ==
    {checks[i] : i \in {j \in ChecksOf(checks, path) : \A k \in ChecksOf(checks, path) : j <= k}}
LastCheck(checks, path) ==
    {checks[i] : i \in {j \in ChecksOf(checks, path) : \A k \in ChecksOf(checks, path) : k <= j}}

Supporting(found) == {k \in found : k.status = "supports"}

NoAnswer == [verdict |-> "insufficient", complete |-> FALSE, checks |-> <<>>, in_scope |-> {}]

(***************************************************************************)
(* compare_performance: records are collected per project; a project       *)
(* counts if nothing asked of it is missing or ambiguous.                  *)
(***************************************************************************)
Else(value, default) == IF value = None THEN default ELSE value

ProjectKey(r) == IF r.holder = None THEN <<r.id>> ELSE <<r.holder, Else(r.project, r.id)>>

ContractUnits == [yuan |-> 1, wan_yuan |-> 10000, yi_yuan |-> 100000000]

AmountsIn(facts) ==
    UNION {{v * ContractUnits[f.unit] : v \in f.number} :
              f \in {g \in Keyed(facts, {"contract_amount"}) : g.unit \in DOMAIN ContractUnits}}

Threshold(leaf) ==
    leaf.minimum_amount *
        (IF leaf.unit \in DOMAIN ContractUnits THEN ContractUnits[leaf.unit] ELSE 1)

\* The status of a value that has to be the only one.
Unambiguous(values, good) ==
    IF Cardinality(values) # 1 THEN "unknown" ELSE Verdict(values = good)

ProjectStatus(leaf, records, answer) ==
    LET facts == FactsOfAll(records)
        amounts == AmountsIn(facts)
        dates == Days(facts, {leaf.date_field})
        missing == leaf.required_materials \ Names(facts, {"material_type"})
        statuses ==
            (IF Threshold(leaf) # 0
             THEN {Unambiguous(amounts, {v \in amounts : v >= Threshold(leaf)})} ELSE {})
            \cup (IF leaf.since # None
                  THEN {Unambiguous(dates, {d \in dates : leaf.since <= d /\ d <= AsOf})} ELSE {})
            \cup (IF missing # {} THEN {"unknown"} ELSE {})
            \cup (IF leaf.scope /\ Ids(records) \cap answer.in_scope = {} THEN {"unknown"} ELSE {})
            \cup (IF facts = {} THEN {"unknown"} ELSE {})
    IN AggregateStatus("all", statuses)

CountAsked(leaf) == IF leaf.minimum_count = 0 THEN 1 ELSE leaf.minimum_count

PerformanceStatus(leaf, records, answer) ==
    LET projects == {{r \in records : ProjectKey(r) = k} : k \in {ProjectKey(r) : r \in records}}
        passed == {p \in projects : ProjectStatus(leaf, p, answer) = "pass"}
    IN IF Cardinality(passed) >= CountAsked(leaf) THEN "pass" ELSE "unknown"

(***************************************************************************)
(* compare_joint: records are grouped by subject; a group has to satisfy   *)
(* the condition alone.                                                    *)
(***************************************************************************)
HasPerformance(condition) ==
    \E p \in Leaves(condition) : condition[p].type = "performance"

Isolating ==
    \/ requirement.category \in {"personnel", "technical"}
    \/ requirement.category = "performance" /\ ~HasPerformance(requirement.condition)

GroupKey(r) ==
    IF Isolating THEN <<Else(r.holder, r.id), Else(r.subject, r.id)>>
                 ELSE <<Else(r.holder, r.id)>>

OfBidder(records) == {r \in records : Bidder = None \/ r.holder \in {None, Bidder}}

Groups(records) ==
    LET own == OfBidder(records)
    IN {{r \in own : GroupKey(r) = k} : k \in {GroupKey(r) : r \in own}}

\* With the model's support only the records it cites are looked at.
Selected(group, found) ==
    IF Supporting(found) = {} THEN group
    ELSE {r \in group : \E k \in Supporting(found) : r.id \in k.evidence}

Best(statuses) ==
    IF "pass" \in statuses THEN "pass"
    ELSE IF "unknown" \in statuses \/ statuses = {} THEN "unknown" ELSE "fail"

LeafStatus(leaf, group, found, answer) ==
    LET selected == Selected(group, found)
    IN CASE leaf.type = "performance" ->
              PerformanceStatus(leaf, {r \in selected : r.kind = "performance"}, answer)
         [] leaf.type = "semantic" ->
              IF \E k \in Supporting(found) : k.evidence \subseteq Ids(group)
              THEN "pass" ELSE "unknown"
         [] leaf.type = "material_complete" ->
              RuleStatus(leaf, FactsOfAll(selected), AsOf)
         [] OTHER -> Best({RuleStatus(leaf, FactsOf(r), AsOf) : r \in selected})

GroupVerdict(group, checks, answer) ==
    LET condition == requirement.condition
    IN EvaluateCondition(condition,
           [p \in Leaves(condition) |->
               LeafStatus(condition[p], group, FirstCheck(checks, p), answer)])

MutCompareJoint(records, checks, answer) ==
    LET results == {GroupVerdict(g, checks, answer) : g \in Groups(records)}
    IN CASE "fail" \in results -> "not_met"
         [] results = {"pass"} -> "met"
         [] OTHER -> "needs_review"
CompareJoint(records, checks, answer) ==
    LET results == {GroupVerdict(g, checks, answer) : g \in Groups(records)}
    IN CASE "pass" \in results -> "met"
         [] results = {"fail"} -> "not_met"
         [] OTHER -> "needs_review"

(***************************************************************************)
(* compare_requirement.                                                    *)
(***************************************************************************)
AsRule(found) ==
    IF Supporting(found) # {} THEN "pass"
    ELSE IF \E k \in found : k.status = "contradicts" THEN "fail" ELSE "unknown"

\* Every condition is answered exactly once, and nothing is reported missing.
CompleteAnswer(answer) ==
    /\ answer.complete
    /\ {answer.checks[i].id : i \in DOMAIN answer.checks} = Expected
    /\ Len(answer.checks) = Cardinality(Expected)

AllSupported(answer, checks) ==
    /\ CompleteAnswer(answer)
    /\ AsRule(LastCheck(checks, Scope)) = "pass"
    /\ EvaluateCondition(requirement.condition,
           [p \in Leaves(requirement.condition) |-> AsRule(LastCheck(checks, p))]) = "pass"
    /\ answer.verdict = "supports"

MutRuleDecision(records) ==
    IF records = {} THEN "unknown" ELSE CompareJoint(records, <<>>, NoAnswer)
RuleDecision(records) ==
    IF records = {} THEN "needs_review" ELSE CompareJoint(records, <<>>, NoAnswer)

MutModelDecision(records, answer) ==
    IF records = {} THEN "needs_review"
    ELSE IF AllSupported(answer, Checks(answer, records)) THEN "met"
    ELSE CompareJoint(records, Checks(answer, records), answer)
ModelDecision(records, answer) ==
    LET checks == Checks(answer, records)
        status == CompareJoint(records, checks, answer)
    IN IF records = {} \/ (status = "met" /\ ~AllSupported(answer, checks))
       THEN "needs_review" ELSE status

\* The rules that convert a parameter do so for every record, project or group they see.
Converts(leaf, records) ==
    \/ leaf.type = "number" /\ records # {}
    \/ leaf.type = "performance" /\ \E r \in records : r.kind = "performance"
    \/ leaf.type = "material_complete"

\* Every leaf is evaluated for every group, whatever the others come to.
Raises(records, checks) ==
    \/ requirement.unreadable
    \/ \E p \in requirement.malformed, g \in Groups(records) :
          Converts(requirement.condition[p], Selected(g, FirstCheck(checks, p)))

Undecided == [status |-> "none", by |-> "nobody", recalled |-> {}, answer |-> NoAnswer]

\* Without a record recalled the model is not asked.
PossibleAnswers(recalled) ==
    IF recalled = {} THEN {NoAnswer} ELSE Answers(Expected, recalled)

\* decide_run with the model.  The result depends on records and answer only, so
\* comparing again is not a step until the records change.
Compare(recalled, answer) ==
    /\ decision = Undecided
    /\ ~Raises(recalled, Checks(answer, recalled))
    /\ decision' = [status |-> ModelDecision(recalled, answer), by |-> "model",
                    recalled |-> recalled, answer |-> answer]
    /\ UNCHANGED <<requirement, library>>

\* recheck_rules.
Recheck(recalled) ==
    /\ decision = Undecided
    /\ ~Raises(recalled, <<>>)
    /\ decision' = [status |-> RuleDecision(recalled), by |-> "rules",
                    recalled |-> recalled, answer |-> NoAnswer]
    /\ UNCHANGED <<requirement, library>>

\* A change of the library outdates the decision before anything else happens to it.
Outdate ==
    /\ decision # Undecided
    /\ decision' = Undecided
    /\ UNCHANGED <<requirement, library>>

\* A record is extracted or entered; one is rejected or deleted.
Supply(r) ==
    /\ decision = Undecided
    /\ r \in Records \ library
    /\ Cardinality(library) < MaxRecords
    /\ library' = library \cup {r}
    /\ UNCHANGED <<requirement, decision>>

Withdraw(r) ==
    /\ decision = Undecided
    /\ r \in library
    /\ library' = library \ {r}
    /\ UNCHANGED <<requirement, decision>>

Init ==
    /\ requirement \in Requirements
    /\ library = {}
    /\ decision = Undecided

Next ==
    \/ \E recalled \in Recalls :
          Recheck(recalled) \/ \E answer \in PossibleAnswers(recalled) : Compare(recalled, answer)
    \/ Outdate
    \/ \E r \in Records : Supply(r) \/ Withdraw(r)

Spec == Init /\ [][Next]_vars

-----------------------------------------------------------------------------
(***************************************************************************)
(* Properties.  They rest on a second account of what a proof is: there    *)
(* are records of one subject, and leaves they prove, that make the        *)
(* condition true in two-valued logic.                                     *)
(***************************************************************************)
Judgements == {"supports", "contradicts", "insufficient"}
CheckType(expected) == [id : expected, status : Judgements,
                        evidence : SUBSET (Ids(Records) \cup {"invented"}),
                        spans : SUBSET UNION {r.spans : r \in Records}]
AnswerType(expected) == [verdict : Judgements, complete : BOOLEAN,
                         checks : Seq(CheckType(expected)), in_scope : SUBSET Ids(Records)]

ASSUME AnswerAssumption ==
    \A q \in Requirements : \A records \in SUBSET Records :
        LET expected == Leaves(q.condition) \cup {Scope}
        IN Cardinality(records) <= MaxRecords =>
               Answers(expected, records) \subseteq AnswerType(expected)

\* Every variable has its type: a comparison that does not raise ends in one of the three
\* decisions, rests on records of the library, and keeps an answer about this
\* requirement's conditions (compare_requirement).
TypeOK ==
    /\ requirement \in Requirements
    /\ library \subseteq Records /\ Cardinality(library) <= MaxRecords
    /\ decision.status \in {"none", "met", "not_met", "needs_review"}
    /\ decision.by \in {"nobody", "model", "rules"}
    /\ decision.recalled \subseteq library
    /\ decision.answer \in AnswerType(Expected)

\* The nodes in true are those that hold if the leaves in proven do and the others do
\* not; ofEmpty is what an empty group counts as.
Consistent(true, condition, proven, ofEmpty) ==
    \A p \in DOMAIN condition :
        LET below == Children(condition, p)
        IN p \in true <=>
               IF ~IsGroup(condition[p]) THEN p \in proven
               ELSE IF below = {} THEN ofEmpty
               ELSE IF condition[p].logic = "any" THEN below \cap true # {}
               ELSE below \subseteq true

Holds(condition, proven, ofEmpty) ==
    \E true \in SUBSET DOMAIN condition :
        <<>> \in true /\ Consistent(true, condition, proven, ofEmpty)

\* No record of another company, no two people, products or contracts.
OneSubject(records) ==
    /\ \A r \in records : Bidder # None => r.holder \in {None, Bidder}
    /\ \A a, b \in records : a # b =>
          /\ a.holder = b.holder /\ a.holder # None
          /\ Isolating => a.subject = b.subject /\ a.subject # None

Worth(value, unit) == value * (IF unit \in DOMAIN MoneyUnits THEN MoneyUnits[unit] ELSE 1)

\* The figures a number leaf can be compared with.
Figures(leaf, facts) ==
    UNION {{IF leaf.unit = "" THEN v ELSE Worth(v, f.unit) : v \in f.number} :
              f \in {g \in facts : /\ g.key = leaf.key
                                   /\ \/ leaf.unit \in {"", g.unit}
                                      \/ {g.unit, leaf.unit} \subseteq DOMAIN MoneyUnits}}

\* A bound from below needs one figure that reaches it, one from above that all keep to it.
Quantified(leaf, figures) ==
    LET bound == Worth(leaf.value, leaf.unit)
    IN \/ leaf.operator = ">=" /\ \E n \in figures : n >= bound
       \/ leaf.operator = ">"  /\ \E n \in figures : n > bound
       \/ leaf.operator = "<=" /\ \A n \in figures : n <= bound
       \/ leaf.operator = "<"  /\ \A n \in figures : n < bound
       \/ leaf.operator = "==" /\ bound \in figures /\ \A n \in figures : n <= bound

Naming(leaf, facts) == {f \in Keyed(facts, CertificateKeys) : leaf.certificate \in f.names}

\* The facts of one record prove a leaf, or contradict it.
Proves(leaf, facts) ==
    CASE leaf.type = "certificate" ->
            /\ Naming(leaf, facts) # {}
            /\ leaf.require_validity => Days(facts, ExpiryKeys) # {}
            /\ \A d \in Days(facts, ExpiryKeys) : d >= AsOf
      [] leaf.type = "number" ->
            Figures(leaf, facts) # {} /\ Quantified(leaf, Figures(leaf, facts))
      [] leaf.type = "date" ->
            Days(facts, {leaf.key}) # {} /\ \A d \in Days(facts, {leaf.key}) : d >= AsOf
      [] OTHER -> FALSE

Contradicts(leaf, facts) ==
    CASE leaf.type = "certificate" ->
            /\ Keyed(facts, CertificateKeys) # {}
            /\ \/ Naming(leaf, facts) = {}
               \/ \E d \in Days(facts, ExpiryKeys) : d < AsOf
      [] leaf.type = "number" ->
            /\ Figures(leaf, facts) # {} /\ ~Quantified(leaf, Figures(leaf, facts))
            /\ leaf.operator \in {">=", ">", "<=", "<", "=="}
      [] leaf.type = "date" -> \E d \in Days(facts, {leaf.key}) : d < AsOf
      [] OTHER -> FALSE

\* The records of one project show that it meets what is asked of each.
ProjectProven(leaf, records) ==
    LET facts == FactsOfAll(records)
    IN /\ leaf.minimum_amount # 0 =>
             /\ AmountsIn(facts) # {}
             /\ \A n, m \in AmountsIn(facts) : n = m /\ n >= Threshold(leaf)
       /\ leaf.since # None =>
             /\ Days(facts, {leaf.date_field}) # {}
             /\ \A d, e \in Days(facts, {leaf.date_field}) : d = e /\ d \in leaf.since .. AsOf
       /\ \A m \in leaf.required_materials :
             \E f \in Keyed(facts, {"material_type"}) : m \in f.names
       /\ facts # {}

OneProject(a, b) == a = b \/ (a.holder = b.holder /\ a.project = b.project /\ a.project # None)

\* n projects, no two of which are the same one under two records.
ProvenProjects(leaf, records, answer) ==
    {r \in records :
        LET project == {q \in records : OneProject(q, r)}
        IN ProjectProven(leaf, project)
           /\ (leaf.scope => \E q \in project : q.id \in answer.in_scope)}

Supported(path, answer, recalled) ==
    \E i \in DOMAIN answer.checks :
        /\ answer.checks[i].id = path /\ answer.checks[i].status = "supports"
        /\ \E r \in recalled : r.id \in answer.checks[i].evidence
        /\ \A r \in recalled : r.id \in answer.checks[i].evidence =>
              r.spans \cap answer.checks[i].spans # {}

\* The leaves that some of the records recalled prove.
ProvenBy(records, answer, recalled) ==
    {p \in Leaves(requirement.condition) :
        LET leaf == requirement.condition[p]
            performance == {r \in records : r.kind = "performance"}
        IN CASE leaf.type = "semantic" -> Supported(p, answer, recalled)
             [] leaf.type = "performance" ->
                   \E chosen \in SUBSET ProvenProjects(leaf, performance, answer) :
                       /\ Cardinality(chosen) >= CountAsked(leaf)
                       /\ \A a, b \in chosen : OneProject(a, b) => a = b
             [] leaf.type = "material_complete" ->
                   /\ leaf.materials # {}
                   /\ \A m \in leaf.materials : \E r \in records : \E f \in FactsOf(r) : f.key = m
             [] OTHER -> \E r \in records : Proves(leaf, FactsOf(r))}

OpenFor(records) ==
    {p \in Leaves(requirement.condition) :
        \E r \in records : ~Contradicts(requirement.condition[p], FactsOf(r))}

\* All records of the subject a record belongs to.
Own(recalled) == {r \in recalled : OneSubject({r})}
SubjectOf(recalled, r) == {q \in Own(recalled) : OneSubject({q, r})}

Proven(recalled, answer) ==
    \E r \in Own(recalled) :
        Holds(requirement.condition,
              ProvenBy(SubjectOf(recalled, r), answer, recalled), FALSE)

Refuted(recalled) ==
    /\ Own(recalled) # {}
    /\ \A r \in Own(recalled) :
          ~Holds(requirement.condition, OpenFor(SubjectOf(recalled, r)), TRUE)

\* A recheck says met exactly if the records it recalls of one company, and of one person
\* or product where it matters, prove a combination of conditions that suffices, and not
\* met exactly if the records of nobody could, whatever is still unknown turns out to
\* be (evaluate_condition, compare_joint, compare_performance).
RecheckIsExact ==
    decision.by = "rules" =>
        /\ decision.status = "met" <=> Proven(decision.recalled, NoAnswer)
        /\ decision.status = "not_met" <=> Refuted(decision.recalled)

\* With the model, met takes both: records of one subject prove the condition where the
\* rules can tell, each leaf by those of them the model cites, and the model's supports,
\* each with a quotation from every record it cites, make the condition true as well,
\* with nothing left out.
MetIsProvenAndQuoted ==
    LET recalled == decision.recalled
        answer == decision.answer
    IN decision.by = "model" /\ decision.status = "met" =>
        /\ \E r \in Own(recalled) : Holds(requirement.condition,
               UNION {ProvenBy(cited, answer, recalled) : cited \in SUBSET SubjectOf(recalled, r)},
               FALSE)
        /\ Holds(requirement.condition,
                 {p \in Leaves(requirement.condition) : Supported(p, answer, recalled)}, FALSE)
        /\ \A p \in Expected : \E i \in DOMAIN answer.checks : answer.checks[i].id = p
        /\ Supported(Scope, answer, recalled)

\* No answer of the model turns a requirement that the rules refute into one that is
\* met (the rules check values, dates and counts, the model subject and scope).
ModelNeverOverridesRules ==
    decision.by = "model" /\ decision.status = "met" => ~Refuted(decision.recalled)

\* What a recheck finds not met it would not have found met on fewer of the records it
\* recalls: a record recalled in addition leaves a requirement open at worst, also where
\* the records of a project then disagree.  A record that takes the place of another
\* under the limit of the recall may do worse, and this does not speak of it.
MoreEvidenceNeverRefutes ==
    decision.by = "rules" /\ decision.status = "not_met" =>
        \A fewer \in SUBSET decision.recalled : RuleDecision(fewer) # "met"
=============================================================================
