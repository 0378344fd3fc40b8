--------------------------- MODULE MCAttackPathQuery ---------------------------
(***************************************************************************)
(* Lists of the resources that attack_paths/tests make, for TLC.           *)
(***************************************************************************)
EXTENDS AttackPathQuery

MCIds == {"sg", "sgx", "i1", "i2", "web", "adm", "pol", "bkt", "internet", "Unknown"}

MCRule(id, type, path, op, arg, severity) ==
    [rule_id |-> id, resource_type |-> type, eval_path |-> path, op |-> op, arg |-> arg,
     severity |-> severity]

\* rules/*.yaml; "s3:*" stands for what contains the "*" of rule 003.
MCRules ==
    {MCRule("001", "s3_bucket", "public_read", "equals", "true", "High"),
     MCRule("002", "security_group", "ingress.cidr", "equals", "0.0.0.0/0", "High"),
     MCRule("003", "iam_policy", "action", "equals", "s3:*", "Critical")}

MCJitter == [x \in (MCIds \cup {Null}) \X {"001", "002", "003"} |-> 0]

MCArnName == [a \in {"arn:pol"} |-> "pol"]

MCRank == [n \in MCIds |-> IF n = "bkt" THEN 1 ELSE IF n = "web" THEN 2 ELSE 3]

MCResource(id, type) ==
    [resource_id |-> id, resource_type |-> type,
     at |-> [p \in {"public_read", "action", "ingress.cidr"} |-> None],
     security_groups |-> {}, profile |-> None, policies |-> {}, profiles |-> {},
     buckets |-> {}]

\* An open group and a closed one, two instances, two roles, a policy and its bucket.
MCPool ==
    <<[MCResource("sg", "security_group") EXCEPT !.at["ingress.cidr"] = "0.0.0.0/0"],
      [MCResource("sgx", "security_group") EXCEPT !.at["ingress.cidr"] = "10.0.0.0/8"],
      [MCResource("i1", "ec2_instance") EXCEPT !.security_groups = {"sg"}, !.profile = "pr1"],
      [MCResource("i2", "ec2_instance") EXCEPT !.security_groups = {"sg", "sgx"}, !.profile = "pr2"],
      [MCResource("web", "iam_role") EXCEPT !.profiles = {"pr1"}],
      [MCResource("adm", "iam_role") EXCEPT !.profiles = {"pr2"}, !.policies = {"arn:pol"}],
      [MCResource("pol", "iam_policy") EXCEPT !.buckets = {"bkt"}],
      MCResource("bkt", "s3_bucket"),
      \* a role again, with what its first mention does not have; a bucket named like it
      [MCResource("web", "iam_role") EXCEPT !.profiles = {"pr1"}, !.policies = {"arn:pol"}],
      MCResource("web", "s3_bucket"),
      \* without a name
      [MCResource(Null, "iam_policy") EXCEPT !.buckets = {"bkt"}]>>

\* Some of them, in this order or the other.
MCSome(S) ==
    LET Kept(i) == i \in S
    IN  SelectSeq([i \in 1..Len(MCPool) |-> i], Kept)

MCListed(order) == [i \in DOMAIN order |-> MCPool[order[i]]]

MCBackwards(order) == [i \in DOMAIN order |-> order[Len(order) + 1 - i]]

MCResourceLists ==
    UNION {{MCListed(MCSome(S)), MCListed(MCBackwards(MCSome(S)))} : S \in SUBSET (1..Len(MCPool))}

MCFinding(pos, name, rule) ==
    [pos |-> pos, resource_id |-> name, resource_type |-> rule.resource_type,
     severity |-> rule.severity, rule_id |-> rule.rule_id,
     risk_score |-> _SEVERITY_BASE_SCORE[rule.severity],
     is_anomaly |-> _SEVERITY_BASE_SCORE[rule.severity] >= _ANOMALY_THRESHOLD]

RuleOf(id) == CHOOSE rule \in MCRules : rule.rule_id = id

\* None; a group's, off every path, and a bucket's named like a role; a bucket's and a policy's of one name.
MCFindingSets ==
    {{},
     {MCFinding(1, "sg", RuleOf("002")), MCFinding(2, "web", RuleOf("001"))},
     {MCFinding(1, "pol", RuleOf("001")), MCFinding(2, "pol", RuleOf("003"))}}
================================================================================
