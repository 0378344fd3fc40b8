----------------------------- MODULE AttackPathQuery ---------------------------
(***************************************************************************)
(* get_attack_paths from the resources on: one request, for any list of    *)
(* resources and any stored findings.  ScanAnalysis gives it the lists the *)
(* collector makes today, none of which relates an instance to its role;   *)
(* here are those that edges.py, graph.py and path_finder.py are written   *)
(* and tested for (attack_paths/tests).                                    *)
(***************************************************************************)
EXTENDS AttackPaths

CONSTANTS
    ResourceLists,   \* what collect_cloud_resources may return
    FindingSets      \* what the scan may have stored

ASSUME QueryAssumption ==
    /\ ResourceLists \subseteq Seq(Resource)
    /\ \A fs \in FindingSets : fs \subseteq Finding /\ IsFiniteSet(fs)

VARIABLES
    resources,    \* as they were collected
    findings,     \* of the scan
    stage,        \* "asked", then "answered"
    answer        \* the response

vars == <<resources, findings, stage, answer>>

\* Resources and findings are of their types, and so is what the response holds of them.
TypeOK ==
    /\ resources \in Seq(Resource)
    /\ findings \subseteq Finding
    /\ stage \in {"asked", "answered"}
    /\ answer.nodes \subseteq PathNode
    /\ answer.links \subseteq Link
    /\ answer.paths \subseteq Path

Init ==
    /\ resources \in ResourceLists /\ findings \in FindingSets
    /\ stage = "asked" /\ answer = NoAnswer

GetAttackPaths ==
    /\ stage = "asked"
    /\ stage' = "answered"
    /\ LET rs == Deduplicate(resources)
       IN  \E join \in Joins(findings), found \in FindAttackPaths(rs) :
               answer' = AttackPathResponse(rs, join, found)
    /\ UNCHANGED <<resources, findings>>

Next == GetAttackPaths

Spec == Init /\ [][Next]_vars

--------------------------------------------------------------------------------
(***************************************************************************)
(* Every node of a path is one the answer describes, and its last one a    *)
(* role or a bucket that no link of the answer leaves (the frontend looks  *)
(* both up in the same answer).                                            *)
(***************************************************************************)
PathsLeadToAssets ==
    stage = "answered" => \A p \in answer.paths :
        LET end == p.nodes[Len(p.nodes)]
        IN  /\ Visited(p.nodes) \ {Internet} \subseteq {n.id : n \in answer.nodes}
            /\ Successors(answer.links, end) = {}
            /\ \E n \in answer.nodes : n.id = end /\ n.type \in SensitiveTypes

FindingsOf(n) == {f \in findings : f.resource_id = n}

FindingsOn(p) == {f \in findings : f.resource_id \in Visited(p.nodes)}

(***************************************************************************)
(* A path without findings is "Low"; any other is as severe as one of its  *)
(* findings, and of each node that has findings at least one is no worse   *)
(* than the path (_path_severity, with the one finding per name that       *)
(* finding_by_resource keeps; the highest of all, as its docstring says,   *)
(* it is only where a name has one finding).                               *)
(***************************************************************************)
SeverityReflectsThePath ==
    stage = "answered" => \A p \in answer.paths :
        /\ FindingsOn(p) = {} => p.severity = "Low"
        /\ FindingsOn(p) # {} => \E f \in FindingsOn(p) : f.severity = p.severity
        /\ \A n \in Visited(p.nodes) : FindingsOf(n) # {} =>
              \E f \in FindingsOf(n) : SeverityOrder[f.severity] <= SeverityOrder[p.severity]

--------------------------------------------------------------------------------
(***************************************************************************)
(* The reference for the search, without a graph: the chains of attack     *)
(* that resources rs allow.                                                *)
(***************************************************************************)
OpenInstances(rs) ==
    {i \in OfType(rs, "ec2_instance") : \E g \in OfType(rs, "security_group") :
        IsPublic(rs[g]) /\ rs[g].resource_id \in rs[i].security_groups}

Assumed(rs, i) == {r \in OfType(rs, "iam_role") : rs[i].profile \in rs[r].profiles}

Attached(rs, r) ==
    {p \in OfType(rs, "iam_policy") : \E a \in rs[r].policies : ArnName[a] = rs[p].resource_id}

Opened(rs, p) == {b \in OfType(rs, "s3_bucket") : rs[b].resource_id \in rs[p].buckets}

Name(rs, i) == rs[i].resource_id

ExposedRoles(rs) ==
    UNION {{<<Internet, Name(rs, i), Name(rs, r)>>
            : r \in {q \in Assumed(rs, i) : rs[q].policies = {}}}
           : i \in OpenInstances(rs)}

ExposedBuckets(rs) ==
    UNION {UNION {UNION {{<<Internet, Name(rs, i), Name(rs, r), Name(rs, p), Name(rs, b)>>
                          : b \in Opened(rs, p)}
                         : p \in Attached(rs, r)}
                  : r \in Assumed(rs, i)}
           : i \in OpenInstances(rs)}

Exposed(rs) == ExposedRoles(rs) \cup ExposedBuckets(rs)

(***************************************************************************)
(* Names that are not taken for one another: no two resources share one,   *)
(* nothing is called internet, an attached policy is named like policies   *)
(* only and an accessed bucket like buckets only.                          *)
(***************************************************************************)
NamesApart(rs) ==
    /\ \A i, j \in DOMAIN rs : Name(rs, i) = Name(rs, j) => i = j
    /\ \A i \in DOMAIN rs : Name(rs, i) # Internet
    /\ \A r \in OfType(rs, "iam_role"), a \in Arns : a \in rs[r].policies =>
          /\ ArnName[a] # Internet
          /\ \A j \in DOMAIN rs : Name(rs, j) = ArnName[a] => rs[j].resource_type = "iam_policy"
    /\ \A p \in OfType(rs, "iam_policy"), b \in Ids : b \in rs[p].buckets =>
          /\ b # Internet
          /\ \A j \in DOMAIN rs : Name(rs, j) = b => rs[j].resource_type = "s3_bucket"

OneRolePerProfile(rs) ==
    \A q, r \in OfType(rs, "iam_role") : rs[q].profiles \cap rs[r].profiles # {} => q = r

(***************************************************************************)
(* The paths shown are exactly the chains the resources allow, as many as  *)
(* the limit admits: from the internet over an open instance to the role   *)
(* it assumes, or over that role and its policies to their buckets         *)
(* (edges.py, graph.py and path_finder.py end to end).                     *)
(***************************************************************************)
ExposedAssetsAreShown ==
    LET rs == Deduplicate(resources)
        shown == {p.nodes : p \in answer.paths}
    IN  stage = "answered" /\ NamesApart(rs) /\ OneRolePerProfile(rs) =>
            /\ shown \subseteq Exposed(rs)
            /\ shown = Exposed(rs) \/ Cardinality(shown) = MaxPaths
================================================================================
