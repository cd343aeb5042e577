---------------------------- MODULE MCComparison ----------------------------
(***************************************************************************)
(* Requirements, records and answers of the model for Comparison.          *)
(***************************************************************************)
EXTENDS Comparison

CONSTANTS acme, rival, ann, bob, dam, weir, c1, c2

Today == 5

Leaf(node) == [path \in {<<>>} |-> node]
Group(logic, first, second) ==
    [path \in {<<>>, <<1>>, <<2>>} |->
        CASE path = <<>> -> [logic |-> logic] [] path = <<1>> -> first [] OTHER -> second]

\* A count is read off any leaf for the limit of the recall.
Certificate(name) == [logic |-> "leaf", type |-> "certificate", certificate |-> name,
                      require_validity |-> TRUE, minimum_count |-> 1]
Revenue(operator, unit) == [logic |-> "leaf", type |-> "number", key |-> "revenue",
                            operator |-> operator, value |-> 2, unit |-> unit]
Insured == [logic |-> "leaf", type |-> "date", key |-> "insured_until"]
Papers == [logic |-> "leaf", type |-> "material_complete", minimum_count |-> 1,
           materials |-> {"certificate_name", "revenue"}]
Semantic == [logic |-> "leaf", type |-> "semantic"]
Contracts(count, scope) ==
    [logic |-> "leaf", type |-> "performance", minimum_amount |-> 3, unit |-> "wan_yuan",
     minimum_count |-> count, since |-> 2, date_field |-> "acceptance_date",
     required_materials |-> {"contract"}, scope |-> scope]

\* (a certificate and revenue) or nothing in particular: a nested condition.
Nested ==
    [path \in {<<>>, <<1>>, <<2>>, <<1, 1>>, <<1, 2>>} |->
        CASE path = <<>> -> [logic |-> "any"]
          [] path = <<1>> -> [logic |-> "all"]
          [] path = <<1, 1>> -> Certificate(c1)
          [] path = <<1, 2>> -> Revenue(">=", "wan_yuan")
          [] OTHER -> [logic |-> "any"]]

Stated(amount, unit) ==
    ExtractCondition([amount |-> {amount}, unit |-> unit, subject |-> "revenue",
                      certificate |-> {}], "financial")

Of(category, condition) ==
    [category |-> category, condition |-> condition, malformed |-> {}, unreadable |-> FALSE]

MCRequirements ==
    {Of("qualification", Group("all", Certificate(c1), Certificate(c2))),
     Of("personnel", Group("all", Certificate(c1), Certificate(c2))),
     Of("qualification", Group("any", Certificate(c1), Revenue(">=", "wan_yuan"))),
     Of("qualification", Group("all", Papers, Insured)),
     Of("financial", Stated(15001, "yuan")),
     Of("financial", Leaf(Revenue("<=", "wan"))),
     Of("qualification", Group("all", Certificate(c1), Semantic)),
     Of("performance", Leaf(Contracts(2, FALSE))),
     Of("performance", Group("any", Contracts(1, TRUE), Certificate(c2))),
     Of("technical", Nested),
     [Of("financial", Leaf(Revenue(">=", "wan"))) EXCEPT !.malformed = {<<>>}],
     [Of("qualification", Group("any", Certificate(c1), Contracts(1, FALSE)))
         EXCEPT !.malformed = {<<2>>}],
     [Of("financial", Leaf(Insured)) EXCEPT !.unreadable = TRUE]}

Blank(key) == [key |-> key, unit |-> "", number |-> {}, date |-> {}, names |-> {}]
Amount(key, n, unit) == [Blank(key) EXCEPT !.number = {n}, !.unit = unit]
Day(key, day) == [Blank(key) EXCEPT !.date = {day}]
Text(key, names) == [Blank(key) EXCEPT !.names = names]
Record(id, kind, holder, subject, project, facts) ==
    [id |-> id, kind |-> kind, holder |-> holder, subject |-> subject, project |-> project,
     facts |-> facts, spans |-> {id}, review |-> "extracted"]

MCRecords ==
    {Record("r1", "qualification", acme, ann, None,
            {Text("certificate_name", {c1}), Day("valid_until", 6)}),
     Record("r2", "qualification", acme, bob, None,
            {Text("certificate_name", {c2}), Day("valid_until", 7),
             Amount("revenue", 3, "wan")}),
     Record("r3", "personnel", acme, ann, None,
            {Text("certificate_name", {c1, c2}), Day("valid_until", 4), Day("valid_until", 8)}),
     Record("r4", "qualification", rival, None, None,
            {Text("certificate_name", {c2}), Day("valid_until", 9)}),
     Record("r5", "financial", None, None, None,
            {Amount("revenue", 15000, "yuan"), Text("certificate_name", {})}),
     Record("r6", "financial", acme, None, None,
            {Amount("revenue", 1, "wan_yuan"), Amount("revenue", 4, "wan_yuan"),
             Day("insured_until", 5)}),
     Record("r7", "performance", acme, None, dam,
            {Amount("contract_amount", 5, "wan_yuan"), Text("material_type", {"contract"})}),
     Record("r8", "performance", acme, None, dam,
            {Day("acceptance_date", 3), Amount("contract_amount", 50000, "yuan")}),
     Record("r9", "performance", acme, None, weir,
            {Amount("contract_amount", 4, "wan_yuan"), Day("acceptance_date", 4),
             Text("material_type", {"contract"})}),
     Record("r12", "performance", acme, None, dam,
            {Amount("contract_amount", 8, "wan_yuan"), Day("acceptance_date", 3),
             Text("material_type", {"contract"})}),
     Record("r13", "performance", acme, None, dam,
            {Amount("contract_amount", 80000, "yuan"), Day("acceptance_date", 3),
             Text("material_type", {"contract"})}),
     Record("r10", "performance", None, None, dam,
            {Amount("contract_amount", 9, "wan_yuan"), Day("acceptance_date", 6)}),
     [Record("r11", "qualification", acme, bob, None,
             {Text("certificate_name", {c1})}) EXCEPT !.review = "unreviewed"]}

Check(path, status, evidence, spans) ==
    [id |-> path, status |-> status, evidence |-> evidence, spans |-> spans]

\* Supports of one record, of all, of one without its quotation, an invented one; a contradiction.
ChecksFor(path, ids) ==
    {Check(path, "supports", {i}, {i}) : i \in ids}
    \cup {Check(path, "supports", ids, ids)}
    \cup {Check(path, "supports", ids, {i}) : i \in ids}
    \cup {Check(path, "supports", {"invented"}, ids),
          Check(path, "contradicts", ids, ids)}

First(leaves) == CHOOSE p \in leaves : \E q \in leaves : p[Len(p)] < q[Len(q)]
Second(leaves) == CHOOSE p \in leaves : p # First(leaves)

\* Complete, incomplete, repeated and missing checks; of two, one that is in order, or one
\* record for each.
ChecksOn(leaves, ids) ==
    LET single(k) == k.status = "supports" /\ k.spans = k.evidence
        pairs == ChecksFor(First(leaves), ids) \X ChecksFor(Second(leaves), ids)
    IN {<<k>> : k \in UNION {ChecksFor(p, ids) : p \in leaves}}
       \cup (IF Cardinality(leaves) = 1 THEN {<<>>} ELSE
             {kl \in pairs : \/ \E i \in {1, 2} : single(kl[i]) /\ kl[i].spans = ids
                             \/ single(kl[1]) /\ single(kl[2])})

MCAnswers(expected, records) ==
    LET ids == Ids(records)
        Answer(verdict, complete, checks, inScope) ==
            [verdict |-> verdict, complete |-> complete, checks |-> checks, in_scope |-> inScope]
        inScope(k) == Append(k, Check(Scope, "supports", ids, ids))
        checks == {inScope(k) : k \in ChecksOn(expected \ {Scope}, ids)}
        scoped == IF \E r \in records : r.kind = "performance" THEN {{}, ids} ELSE {ids}
        whole == {k \in checks : \A i \in DOMAIN k : k[i].status = "supports" /\ k[i].spans = ids}
    IN {Answer("supports", TRUE, k, m) : k \in checks, m \in scoped}
       \cup {Answer("supports", FALSE, k, ids) : k \in whole}
       \cup {Answer("insufficient", TRUE, k, ids) : k \in whole}
       \cup {Answer("supports", TRUE, [k EXCEPT ![Len(k)] = Check(Scope, "insufficient", {}, {})], ids) :
                k \in whole}
=============================================================================
