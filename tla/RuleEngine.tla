------------------------------- MODULE RuleEngine ------------------------------
(***************************************************************************)
(* rule_engine.py and ml/scorer.py: which findings the declarative rules   *)
(* yield on a list of resources, and how they are scored.                  *)
(*                                                                         *)
(* A resource carries, under `at`, what each dotted path of a rule         *)
(* resolves to in it (None where it resolves to nothing), and, for the     *)
(* attack paths, the relations the mappers give it.  Its resource_id may   *)
(* be a missing key (None) or an explicit null (Null): .get with a default *)
(* tells the two apart.                                                    *)
(***************************************************************************)
EXTENDS Integers, Sequences, FiniteSets

CONSTANTS
    Ids,          \* names of resources
    Paths,        \* the eval_paths of the rules
    Values,       \* what a path can resolve to
    None,         \* nothing: a missing key, an absent value
    Null,         \* a resource_id that is there and is null
    Anywhere,     \* 0.0.0.0/0
    Arns,         \* ARNs of policies
    Profiles,     \* ARNs of instance profiles
    Rules,        \* the rules load_rules has read
    Holds,        \* the <<op, value, argument>> of which contains, regex,
                  \* gte and lte are true
    Jitter        \* the digest of a resource's and a rule's name, within 8

ResourceTypes == {"s3_bucket", "iam_policy", "security_group", "ec2_instance", "iam_role"}

Severities == {"Critical", "High", "Medium", "Low"}

Rule == [rule_id : STRING, resource_type : ResourceTypes, eval_path : Paths,
         op : {"equals", "contains", "regex", "gte", "lte"}, arg : Values,
         severity : Severities]

Unknown == "Unknown"

RuleIds == {rule.rule_id : rule \in Rules}

Resource == [resource_id : Ids \cup {None, Null}, resource_type : ResourceTypes,
             at : [Paths -> Values \cup {None}],
             security_groups : SUBSET Ids, profile : Profiles \cup {None},
             policies : SUBSET Arns, profiles : SUBSET Profiles,
             buckets : SUBSET Ids]

ASSUME RulesAssumption ==
    /\ Rules \subseteq Rule /\ IsFiniteSet(Rules)
    /\ \A r1, r2 \in Rules : r1.rule_id = r2.rule_id => r1 = r2
    /\ None \notin Ids \cup Values \cup Profiles \cup ResourceTypes
    /\ Null \notin Ids \cup {None}
    /\ Unknown \in Ids
    /\ Anywhere \in Values
    /\ Jitter \in [(Ids \cup {Null}) \X RuleIds -> -8..8]

--------------------------------------------------------------------------------
\* match: `equals` compares, and the other operators are false of nothing.
Match(value, rule) ==
    \/ rule.op = "equals" /\ value = rule.arg
    \/ rule.op # "equals" /\ value # None /\ <<rule.op, value, rule.arg>> \in Holds

Applies(rule, resource) ==
    /\ rule.resource_type = resource.resource_type
    /\ Match(resource.at[rule.eval_path], rule)

_SEVERITY_BASE_SCORE ==
    [s \in Severities |-> CASE s = "Critical" -> 90
                            [] s = "High"     -> 70
                            [] s = "Medium"   -> 45
                            [] s = "Low"      -> 20]

_ANOMALY_THRESHOLD == 85

\* Mutant: a spread of 24, wide enough to cross a severity.
StableJitterWide(id, rule_id) == 3 * Jitter[id, rule_id]

StableJitter(id, rule_id) == Jitter[id, rule_id]

Clamp(n) == IF n < 0 THEN 0 ELSE IF n > 100 THEN 100 ELSE n

RiskScore(severity, id, rule_id) ==
    Clamp(_SEVERITY_BASE_SCORE[severity] + StableJitter(id, rule_id))

(***************************************************************************)
(* The finding that rule makes of the i-th resource, with its score: `pos` *)
(* stands for the identifier it is given, since a document may hold one    *)
(* resource twice.  The default covers a missing key only: a null stays.   *)
(***************************************************************************)
FindingOf(resource, i, rule) ==
    LET id == IF resource.resource_id = None THEN Unknown ELSE resource.resource_id
        score == RiskScore(rule.severity, id, rule.rule_id)
    IN  [pos |-> i, resource_id |-> id, resource_type |-> resource.resource_type,
         severity |-> rule.severity, rule_id |-> rule.rule_id,
         risk_score |-> score, is_anomaly |-> score >= _ANOMALY_THRESHOLD]

\* evaluate and score_findings, which the routes call one after the other.
Evaluate(resources) ==
    UNION {{FindingOf(resources[i], i, rule) : rule \in {r \in Rules : Applies(r, resources[i])}}
           : i \in DOMAIN resources}

\* A row of table findings, whose resource_id is NOT NULL.
Finding == [pos : Nat, resource_id : Ids, resource_type : ResourceTypes,
            severity : Severities, rule_id : RuleIds, risk_score : 0..100,
            is_anomaly : BOOLEAN]
================================================================================
