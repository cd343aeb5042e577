------------------------------- MODULE Rules -------------------------------
(***************************************************************************)
(* domain/rules.py: what a condition says of a set of facts.               *)
(*                                                                         *)
(* A condition is a tree.  It is kept as a function from the paths of its  *)
(* nodes, the condition ids of condition_catalog (c, c.0, c.0.1 ...), to   *)
(* the nodes; the root is the path <<>>.  A node with logic "all" or "any" *)
(* is a group, one with logic "leaf" has a type and its parameters.        *)
(*                                                                         *)
(* A fact has a key, a unit, a number, a date and the names that occur in  *)
(* its text; each is a set, empty where the column is.                     *)
(***************************************************************************)
EXTENDS Integers, Sequences, FiniteSets, FiniteSetsExt

Status == {"pass", "fail", "unknown"}

IsGroup(node) == node.logic \in {"all", "any"}

Children(condition, path) ==
    {p \in DOMAIN condition : Len(p) = Len(path) + 1 /\ SubSeq(p, 1, Len(path)) = path}

Leaves(condition) == {p \in DOMAIN condition : ~IsGroup(condition[p])}

\* aggregate_status: three-valued; the order of the parts plays no role.
MutAggregateStatus(logic, statuses) ==
    CASE logic = "any" /\ "pass" \in statuses -> "pass"
      [] logic = "any" /\ "pass" \notin statuses ->
             IF "fail" \in statuses THEN "fail" ELSE "unknown"
      [] logic = "all" /\ "fail" \in statuses -> "fail"
      [] logic = "all" /\ "fail" \notin statuses ->
             IF "unknown" \in statuses THEN "unknown" ELSE "pass"
AggregateStatus(logic, statuses) ==
    CASE logic = "any" /\ "pass" \in statuses -> "pass"
      [] logic = "any" /\ "pass" \notin statuses ->
             IF statuses \subseteq {"fail"} THEN "fail" ELSE "unknown"
      [] logic = "all" /\ "fail" \in statuses -> "fail"
      [] logic = "all" /\ "fail" \notin statuses ->
             IF "unknown" \in statuses THEN "unknown" ELSE "pass"

\* An empty group says nothing.
GroupStatus(logic, statuses) ==
    IF statuses = {} THEN "unknown" ELSE AggregateStatus(logic, statuses)

\* evaluate_condition with an evaluator for the leaves.
EvaluateCondition(condition, leafStatus) ==
    LET value[p \in DOMAIN condition] ==
            IF IsGroup(condition[p])
            THEN GroupStatus(condition[p].logic, {value[q] : q \in Children(condition, p)})
            ELSE leafStatus[p]
    IN value[<<>>]

Verdict(passed) == IF passed THEN "pass" ELSE "fail"

Keyed(facts, keys) == {f \in facts : f.key \in keys}
Names(facts, keys) == UNION {f.names : f \in Keyed(facts, keys)}
Days(facts, keys) == UNION {f.date : f \in Keyed(facts, keys)}

(***************************************************************************)
(* The rules of the leaves.                                                *)
(***************************************************************************)
CertificateKeys == {"certificate_type", "certificate_name", "qualification"}
ExpiryKeys == {"expiry_date", "valid_until"}

CertificateRule(leaf, facts, asOf) ==
    LET expiries == Days(facts, ExpiryKeys)
    IN CASE Keyed(facts, CertificateKeys) = {} -> "unknown"
         [] /\ Keyed(facts, CertificateKeys) # {}
            /\ leaf.certificate \notin Names(facts, CertificateKeys) -> "fail"
         [] /\ leaf.certificate \in Names(facts, CertificateKeys)
            /\ expiries = {} -> IF leaf.require_validity THEN "unknown" ELSE "pass"
         [] /\ leaf.certificate \in Names(facts, CertificateKeys)
            /\ expiries # {} -> Verdict(Min(expiries) >= asOf)

\* Amounts are compared in yuan, which is exact; the code divides instead.
MoneyUnits == [yuan |-> 1, wan_yuan |-> 10000, wan |-> 10000, yi_yuan |-> 100000000]

Comparable(leaf, fact) ==
    \/ leaf.unit = "" \/ fact.unit = leaf.unit
    \/ leaf.unit \in DOMAIN MoneyUnits /\ fact.unit \in DOMAIN MoneyUnits

InUnits(value, unit, wanted) ==
    IF unit \in DOMAIN MoneyUnits /\ wanted \in DOMAIN MoneyUnits
    THEN value * MoneyUnits[unit] ELSE value

Compared(operator, actual, required) ==
    CASE operator = ">=" -> Verdict(actual >= required)
      [] operator = ">"  -> Verdict(actual > required)
      [] operator = "<=" -> Verdict(actual <= required)
      [] operator = "<"  -> Verdict(actual < required)
      [] operator = "==" -> Verdict(actual = required)
      [] OTHER -> "unknown"

NumberRule(leaf, facts) ==
    LET usable == {f \in Keyed(facts, {leaf.key}) : Comparable(leaf, f)}
        values == UNION {{InUnits(v, f.unit, leaf.unit) : v \in f.number} : f \in usable}
    IN IF values = {} THEN "unknown"
       ELSE Compared(leaf.operator, Max(values), InUnits(leaf.value, leaf.unit, leaf.unit))

DateRule(leaf, facts, asOf) ==
    LET dates == Days(facts, {leaf.key})
    IN IF dates = {} THEN "unknown" ELSE Verdict(Min(dates) >= asOf)

MaterialRule(leaf, facts) ==
    IF leaf.materials # {} /\ leaf.materials \subseteq {f.key : f \in facts}
    THEN "pass" ELSE "unknown"

\* evaluate_condition of a leaf without an evaluator of the caller's.
RuleStatus(leaf, facts, asOf) ==
    CASE leaf.type = "certificate" -> CertificateRule(leaf, facts, asOf)
      [] leaf.type = "number" -> NumberRule(leaf, facts)
      [] leaf.type = "date" -> DateRule(leaf, facts, asOf)
      [] leaf.type = "material_complete" -> MaterialRule(leaf, facts)
      [] OTHER -> "unknown"

(***************************************************************************)
(* extract_condition: the condition of a requirement for which the model   *)
(* gave none.  A statement is what its patterns find: an amount, its unit  *)
(* and what it is an amount of, or the name of a certificate.  The code    *)
(* turns an amount in yuan into wan_yuan, by a division that is exact; the *)
(* number rule compares it the same in the unit it is stated in.           *)
(***************************************************************************)
ExtractCondition(statement, category) ==
    [root \in {<<>>} |->
        CASE statement.amount # {} ->
                [logic |-> "leaf", type |-> "number", key |-> statement.subject,
                 operator |-> ">=", value |-> CHOOSE n \in statement.amount : TRUE,
                 unit |-> IF statement.unit = "yuan" THEN "yuan" ELSE "wan_yuan"]
          [] statement.amount = {} /\ statement.certificate # {} ->
                [logic |-> "leaf", type |-> "certificate", require_validity |-> TRUE,
                 certificate |-> CHOOSE n \in statement.certificate : TRUE]
          [] OTHER ->
                IF category = "submission"
                THEN [logic |-> "leaf", type |-> "material_complete", materials |-> {}]
                ELSE [logic |-> "leaf", type |-> "semantic"]]
=============================================================================
