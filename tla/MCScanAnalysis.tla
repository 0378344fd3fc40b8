----------------------------- MODULE MCScanAnalysis ----------------------------
(***************************************************************************)
(* A small account, the rules of the repository that bear on it and the    *)
(* rows seeded for them, for TLC.                                          *)
(***************************************************************************)
EXTENDS ScanAnalysis

MCIds == {"bkt", "web", "pol", "sg", "i1", "i2", "adm", "internet", "Unknown"}

MCPaths == {"public_read", "public_write", "action", "ingress.cidr", "principal"}

MCValues == {"true", "false", "", "0.0.0.0/0", "10.0.0.0/8", "s3:*", "s3:GetObject"}

MCRule(id, type, path, op, arg, severity) ==
    [rule_id |-> id, resource_type |-> type, eval_path |-> path, op |-> op, arg |-> arg,
     severity |-> severity]

\* rules/*.yaml; "*" stands under an argument of its own.
MCRules ==
    {MCRule("001", "s3_bucket", "public_read", "equals", "true", "High"),
     MCRule("002", "security_group", "ingress.cidr", "equals", "0.0.0.0/0", "High"),
     MCRule("003", "iam_policy", "action", "contains", "", "Critical"),
     MCRule("005", "iam_policy", "principal", "contains", "", "Critical")}

\* An empty argument stands for "*" here.
MCHolds == {<<"contains", "s3:*", "">>}

MCJitter ==
    [x \in (MCIds \cup {Null}) \X {"001", "002", "003", "005"} |->
        IF x[1] = "bkt" THEN 8 ELSE IF x[1] = "sg" THEN -8 ELSE -6]

\* backend/alembic/versions/b2c3d4e5f6a7_seed_compliance_map.py
MCComplianceMap ==
    {[rule_id |-> "001", cis_control_id |-> "2.1.5", nist_id |-> "PR.AC-3"],
     [rule_id |-> "002", cis_control_id |-> "5.2",   nist_id |-> "PR.AC-5"],
     [rule_id |-> "003", cis_control_id |-> "1.16",  nist_id |-> "PR.AC-4"],
     [rule_id |-> "005", cis_control_id |-> "1.16",  nist_id |-> "PR.AC-4"]}

MCArnName == [a \in {"arn:pol"} |-> "pol"]

MCRank == [n \in MCIds |-> IF n = "bkt" THEN 1 ELSE IF n = "web" THEN 2 ELSE 3]

Fcn(pairs) == [n \in {p[1] : p \in pairs} |-> (CHOOSE p \in pairs : p[1] = n)[2]]

Doc(actions) == [readable |-> TRUE, actions |-> actions]

\* Two exposed instances and their bare role, which bears a public bucket's name.
Early ==
    [buckets   |-> Fcn({<<"web", {"FULL_CONTROL"}>>}),
     policies  |-> Fcn({<<"pol", Doc(<<NoAction, <<"s3:*">>>>)>>}),
     groups    |-> Fcn({<<"sg", <<<<"0.0.0.0/0">>>>>>}),
     instances |-> Fcn({<<"i1", [groups |-> {"sg"}, profile |-> "pr1"]>>,
                        <<"i2", [groups |-> {"sg"}, profile |-> "pr2"]>>}),
     roles     |-> Fcn({<<"web", [policies |-> {}, profiles |-> {"pr1", "pr2"}]>>})]

(***************************************************************************)
(* The bucket and the group are closed, another of each is open; the       *)
(* policy is not readable, and attached to a role of its own.              *)
(***************************************************************************)
Later ==
    [buckets   |-> Fcn({<<"web", {"WRITE"}>>, <<"bkt", {"READ"}>>}),
     policies  |-> Fcn({<<"pol", [readable |-> FALSE, actions |-> <<>>]>>}),
     groups    |-> Fcn({<<"sg", <<<<"10.0.0.0/8">>, <<"0.0.0.0/0">>>>>>,
                        <<"bkt", <<<<"0.0.0.0/0">>>>>>}),
     instances |-> Fcn({<<"i1", [groups |-> {"sg"}, profile |-> "pr1"]>>,
                        <<"i2", [groups |-> {"bkt"}, profile |-> "pr2"]>>}),
     roles     |-> Fcn({<<"web", [policies |-> {}, profiles |-> {"pr1"}]>>,
                        <<"adm", [policies |-> {"arn:pol"}, profiles |-> {"pr2"}]>>})]

MCAccount == [w \in {"early", "later"} |-> IF w = "early" THEN Early ELSE Later]

MCFile(suffix, big, aliases, wellFormed, depth, doc) ==
    [suffix |-> suffix, big |-> big, aliases |-> aliases, wellFormed |-> wellFormed,
     depth |-> depth, doc |-> doc]

Uploaded(id, type, path, value) ==
    Bare(id, type, [p \in {path} |-> value])

\* The same bucket twice, a resource without a name, one called internet; a resource whose name is null.
MCContent ==
    [f \in {"aws", "null", "aliased", "deep"} |->
       CASE f = "aws" -> MCFile(".json", FALSE, FALSE, TRUE, 2,
                <<Uploaded("bkt", "s3_bucket", "public_read", "true"),
                  Uploaded("bkt", "s3_bucket", "public_read", "true"),
                  Uploaded(None, "iam_policy", "action", "s3:*"),
                  Uploaded("internet", "security_group", "ingress.cidr", "0.0.0.0/0")>>)
         [] f = "null" -> MCFile(".json", FALSE, FALSE, TRUE, 2,
                <<Uploaded("bkt", "s3_bucket", "public_read", "true"),
                  Uploaded(Null, "iam_policy", "action", "s3:*")>>)
         [] f = "aliased" -> MCFile(".yaml", FALSE, TRUE, TRUE, 2, <<>>)
         [] f = "deep"    -> MCFile(".yaml", FALSE, FALSE, TRUE, 3, <<>>)]
================================================================================
