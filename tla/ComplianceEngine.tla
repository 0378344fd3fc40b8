---------------------------- MODULE ComplianceEngine ---------------------------
(***************************************************************************)
(* compliance/engine.py: the report of a scan, from its findings and the   *)
(* rows of the compliance_map table.                                       *)
(***************************************************************************)
EXTENDS RuleEngine, FiniteSets

CONSTANT ComplianceMap    \* rows [rule_id, cis_control_id, nist_id]

Frameworks == {"CIS", "NIST"}

MapRow == [rule_id : STRING, cis_control_id : STRING, nist_id : STRING]

ASSUME ComplianceMapAssumption ==
    /\ ComplianceMap \subseteq MapRow
    /\ \A m1, m2 \in ComplianceMap : m1.rule_id = m2.rule_id => m1 = m2
    /\ IsFiniteSet(ComplianceMap)

MappedRules == {m.rule_id : m \in ComplianceMap}

\* A finding's identifier.
FindingId(f) == <<f.pos, f.rule_id>>

\* Mutant: result[rule_id] = [id], without the setdefault and the append.
FindingIdsByRuleLast(findings) ==
    [r \in MappedRules |->
        LET of == {g \in findings : g.rule_id = r}
        IN  IF of = {} THEN {} ELSE {FindingId(CHOOSE f \in of : TRUE)}]

\* _finding_ids_by_rule: a finding without a mapping is left out.
FindingIdsByRule(findings) ==
    [r \in MappedRules |-> {FindingId(f) : f \in {g \in findings : g.rule_id = r}}]

ControlId(m, framework) == IF framework = "CIS" THEN m.cis_control_id ELSE m.nist_id

\* _control_rows: one row per mapping and framework that has a control for it.
ControlRows(findings) ==
    LET ids == FindingIdsByRule(findings)
        Row(m, fw) == [control_id |-> ControlId(m, fw), framework |-> fw,
                       rule_id |-> m.rule_id, finding_ids |-> ids[m.rule_id],
                       status |-> IF ids[m.rule_id] = {} THEN "PASS" ELSE "FAIL"]
    IN  {Row(x[1], x[2]) : x \in {y \in ComplianceMap \X Frameworks :
                                      ControlId(y[1], y[2]) # ""}}

(***************************************************************************)
(* _framework_summary: rows are told apart by framework, control and rule, *)
(* so a control that several rules share is counted for each of them.      *)
(***************************************************************************)
FrameworkSummary(rows) ==
    LET Of(fw, statuses) ==
            {<<r.control_id, r.rule_id>> :
                 r \in {q \in rows : q.framework = fw /\ q.status \in statuses}}
    IN  [fw \in Frameworks |->
            [total  |-> Cardinality(Of(fw, {"PASS", "FAIL"})),
             failed |-> Cardinality(Of(fw, {"FAIL"})),
             passed |-> Cardinality(Of(fw, {"PASS"}))]]

BuildCompliance(findings) ==
    [controls   |-> ControlRows(findings),
     frameworks |-> FrameworkSummary(ControlRows(findings))]
================================================================================
