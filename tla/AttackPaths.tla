------------------------------- MODULE AttackPaths -----------------------------
(***************************************************************************)
(* attack_paths/: from a list of resources to a graph of who reaches whom, *)
(* and the bounded paths from the internet to a sensitive resource.        *)
(***************************************************************************)
EXTENDS RuleEngine, FiniteSets

CONSTANTS
    Internet,      \* the node the exposures start from
    ArnName,       \* the last component of an ARN
    Rank,          \* the order `sorted` puts names in
    Cutoff,        \* edges of the longest path (DEFAULT_CUTOFF, 5)
    MaxPaths       \* paths returned (DEFAULT_MAX_PATHS, 100)

ASSUME PathsAssumption ==
    /\ ArnName \in [Arns -> Ids]
    /\ Rank \in [Ids -> Nat]
    /\ Cutoff \in Nat /\ MaxPaths \in Nat
    /\ Internet \in Ids
    /\ "ingress.cidr" \in Paths

SensitiveTypes == {"iam_role", "s3_bucket"}

Relations == {"ASSUMES", "HAS_PERMISSION", "ACCESSES", "EXPOSES"}

OfType(rs, type) == {i \in DOMAIN rs : rs[i].resource_type = type}

\* `if not resource_id`, of a name that is missing or null.
Nameless == {None, Null}

Named(rs, type) == {i \in OfType(rs, type) : rs[i].resource_id \notin Nameless}

LastOf(S) == CHOOSE i \in S : \A j \in S : j <= i

\* Mutant: the nameless stay.
DeduplicateNameless(rs) ==
    LET First(i) == \A j \in DOMAIN rs :
                        /\ rs[j].resource_id = rs[i].resource_id
                        /\ rs[j].resource_type = rs[i].resource_type
                        => i <= j
    IN  [i \in {j \in DOMAIN rs : First(j)} |-> rs[i]]

(***************************************************************************)
(* _deduplicate_resources: the first of each name and type, without the    *)
(* nameless.  The others leave their positions empty.                      *)
(***************************************************************************)
Deduplicate(rs) ==
    LET First(i) == \A j \in DOMAIN rs :
                        /\ rs[j].resource_id = rs[i].resource_id
                        /\ rs[j].resource_type = rs[i].resource_type
                        => i <= j
    IN  [i \in {j \in DOMAIN rs : rs[j].resource_id \notin Nameless /\ First(j)} |-> rs[i]]

--------------------------------------------------------------------------------
\* profile_to_role: the last role that names the profile.
RolesWith(rs, profile) == {i \in Named(rs, "iam_role") : profile \in rs[i].profiles}

Edge(i, source, target, relation) ==
    [from |-> i, source |-> source, target |-> target, relationship |-> relation]

Assumes(rs) ==
    {Edge(i, rs[i].resource_id, rs[LastOf(RolesWith(rs, rs[i].profile))].resource_id, "ASSUMES") :
        i \in {j \in Named(rs, "ec2_instance") :
                   rs[j].profile # None /\ RolesWith(rs, rs[j].profile) # {}}}

Permissions(rs) ==
    UNION {{Edge(i, rs[i].resource_id, ArnName[a], "HAS_PERMISSION") : a \in rs[i].policies}
           : i \in Named(rs, "iam_role")}

Accesses(rs) ==
    UNION {{Edge(i, rs[i].resource_id, b, "ACCESSES") : b \in rs[i].buckets}
           : i \in Named(rs, "iam_policy")}

\* Mutant: every security group counts as public.
IsPublicAny(r) == r.resource_type = "security_group"

\* _is_public_security_group.
IsPublic(r) == r.at["ingress.cidr"] = Anywhere

Exposures(rs) ==
    UNION {{Edge(i, Internet, rs[j].resource_id, "EXPOSES") :
                j \in {k \in OfType(rs, "ec2_instance") :
                           rs[i].resource_id \in rs[k].security_groups}}
           : i \in {k \in Named(rs, "security_group") : IsPublic(rs[k])}}

\* build_edges, with the index of the resource an edge comes from.
BuildEdges(rs) ==
    LET edges == Assumes(rs) \cup Permissions(rs) \cup Accesses(rs) \cup Exposures(rs)
        Same(e, f) == /\ e.source = f.source /\ e.target = f.target
                      /\ e.relationship = f.relationship
    IN  {e \in edges : \A f \in edges : Same(e, f) => e.from <= f.from}

--------------------------------------------------------------------------------
(***************************************************************************)
(* build_attack_graph: a node is a name; the last resource of the name     *)
(* gives it its type, and the last edge between two nodes its relationship.*)
(***************************************************************************)
NodeType(rs, n) ==
    LET named == {i \in DOMAIN rs : rs[i].resource_id = n}
    IN  IF named = {} THEN None ELSE rs[LastOf(named)].resource_type

\* graph_to_links, of the graph's edges.
Links(rs) ==
    LET edges == BuildEdges(rs)
        Overwrites(f, e) == f.source = e.source /\ f.target = e.target /\ f.from > e.from
    IN  {[source |-> e.source, target |-> e.target, relationship |-> e.relationship] :
            e \in {g \in edges : ~\E f \in edges : Overwrites(f, g)}}

Ends(links) == {l.source : l \in links} \cup {l.target : l \in links}

Successors(links, n) == {l.target : l \in {k \in links : k.source = n}}

\* Mutant: every sensitive resource is a target.
TargetsAll(rs, links) ==
    {n \in Ends(links) \ {Internet} : NodeType(rs, n) \in SensitiveTypes}

\* _find_targets, of those that some edge leads to.
Targets(rs, links) ==
    {n \in Ends(links) \ {Internet} :
        NodeType(rs, n) \in SensitiveTypes /\ Successors(links, n) = {}}

Visited(path) == {path[i] : i \in DOMAIN path}

\* The simple paths of k edges from the internet.
Walks(links) ==
    LET walks[k \in 0..Cutoff] ==
            IF k = 0 THEN {<<Internet>>}
            ELSE UNION {{Append(p, n) : n \in Successors(links, p[k]) \ Visited(p)}
                        : p \in walks[k - 1]}
    IN  UNION {walks[k] : k \in 0..Cutoff}

PathsToTargets(rs) ==
    LET links == Links(rs)
        targets == Targets(rs, links)
    IN  {p \in Walks(links) : p[Len(p)] \in targets}

\* Mutant: the limit is tested before the path is kept.
FindAttackPathsShort(rs) ==
    LET all == PathsToTargets(rs)
    IN  {found \in SUBSET all : Cardinality(found) < MaxPaths}

(***************************************************************************)
(* find_attack_paths: targets are taken in the order of their names, and   *)
(* the search ends with the MaxPaths-th path.  Which of the paths to one   *)
(* target are found first depends on the graph's traversal: the result is  *)
(* one of these sets.                                                      *)
(***************************************************************************)
FindAttackPaths(rs) ==
    LET all == PathsToTargets(rs)
        Before(p, q) == Rank[p[Len(p)]] < Rank[q[Len(q)]]
    IN  {found \in SUBSET all :
            /\ \/ found = all /\ Cardinality(all) <= MaxPaths
               \/ Cardinality(found) = MaxPaths
            /\ \A p \in all : (\E q \in found : Before(p, q)) => p \in found}

--------------------------------------------------------------------------------
(***************************************************************************)
(* finding_by_resource: one finding per name, the last one read; the       *)
(* database returns them in any order.                                     *)
(***************************************************************************)
Joins(findings) ==
    {join \in [{f.resource_id : f \in findings} -> findings] :
        \A n \in DOMAIN join : join[n].resource_id = n}

SeverityOrder == [s \in Severities |-> CASE s = "Critical" -> 4 [] s = "High" -> 3
                                         [] s = "Medium" -> 2   [] s = "Low" -> 1]

\* Mutant: the worst of all findings, on the path or not.
PathSeverityOfAll(path, join) ==
    LET found == {join[n].severity : n \in DOMAIN join}
    IN  IF found = {} THEN "Low"
        ELSE CHOOSE s \in found : \A t \in found : SeverityOrder[t] <= SeverityOrder[s]

\* _path_severity: the highest among the nodes that have a finding.
PathSeverity(path, join) ==
    LET found == {join[n].severity : n \in Visited(path) \cap DOMAIN join}
    IN  IF found = {} THEN "Low"
        ELSE CHOOSE s \in found : \A t \in found : SeverityOrder[t] <= SeverityOrder[s]

\* build_node.
Node(resource, join) ==
    [id |-> resource.resource_id, type |-> resource.resource_type,
     severity |-> IF resource.resource_id \in DOMAIN join
                  THEN join[resource.resource_id].severity ELSE None]

PathNode == [id : Ids, type : ResourceTypes, severity : Severities \cup {None}]

Link == [source : Ids, target : Ids, relationship : Relations]

Path == [nodes : Seq(Ids), severity : Severities]

NoAnswer == [nodes |-> {}, links |-> {}, paths |-> {}]

\* The response that get_attack_paths makes of resources, a join and paths.
AttackPathResponse(rs, join, found) ==
    [nodes |-> {Node(rs[i], join) : i \in DOMAIN rs},
     links |-> Links(rs),
     paths |-> {[nodes |-> p, severity |-> PathSeverity(p, join)] : p \in found}]

================================================================================
