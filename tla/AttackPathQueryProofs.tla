-------------------------- MODULE AttackPathQueryProofs ------------------------
(***************************************************************************)
(* For any resources and any findings: what one answer of get_attack_paths *)
(* promises.  The search is settled in AttackPathsProofs (its walks are    *)
(* the simple paths of the graph); here the graph is read back as the      *)
(* resources it was built from.                                            *)
(***************************************************************************)
EXTENDS AttackPathQuery, AttackPathsProofs

Shown == Deduplicate(resources)

\* Everything there is to know of a request: its input is typed, its answer made from it.
Answered ==
    /\ resources \in Seq(Resource) /\ findings \subseteq Finding
    /\ stage \in {"asked", "answered"}
    /\ stage = "asked" => answer = NoAnswer
    /\ stage = "answered" => \E join \in Joins(findings), found \in FindAttackPaths(Shown) :
                                answer = AttackPathResponse(Shown, join, found)

LEMMA AlwaysAnswered == Spec => []Answered
<1>1. Init => Answered
  BY QueryAssumption DEF Init, Answered
<1>2. Answered /\ [Next]_vars => Answered'
  <2> SUFFICES ASSUME Answered, [Next]_vars PROVE Answered'
    OBVIOUS
  <2>1. CASE GetAttackPaths
    <3>1. UNCHANGED <<resources, findings>> /\ stage' = "answered"
      BY <2>1 DEF GetAttackPaths
    <3>2. PICK join \in Joins(findings), found \in FindAttackPaths(Deduplicate(resources)) :
            answer' = AttackPathResponse(Deduplicate(resources), join, found)
      BY <2>1 DEF GetAttackPaths
    <3>3. Shown' = Deduplicate(resources) /\ Shown = Deduplicate(resources)
      BY <3>1 DEF Shown
    <3> QED
      BY <3>1, <3>2, <3>3 DEF Answered
  <2>2. CASE UNCHANGED vars
    BY <2>2 DEF Answered, Shown, vars
  <2> QED
    BY <2>1, <2>2 DEF Next
<1> QED
  BY <1>1, <1>2, PTL DEF Spec

\* What survives _deduplicate_resources has a name.
LEMMA ShownResources ==
    ASSUME Answered
    PROVE  /\ Len(resources) \in Nat /\ DOMAIN Shown \subseteq 1..Len(resources)
           /\ \A i \in DOMAIN Shown : Shown[i] \in Resource /\ Shown[i].resource_id \in Ids
  BY DeduplicatedResources DEF Answered, Shown

(***************************************************************************)
(* The variables keep to their types: among them the answer, whose links,  *)
(* nodes and paths bear names of resources only, although resources and    *)
(* findings may have none (attack_paths/routes.py, get_attack_paths).      *)
(***************************************************************************)
THEOREM QueryTypeOK == Spec => []TypeOK
<1>1. Answered => TypeOK
  <2> SUFFICES ASSUME Answered
               PROVE  /\ answer.nodes \subseteq PathNode /\ answer.links \subseteq Link
                      /\ answer.paths \subseteq Path
    BY DEF Answered, TypeOK
  <2>1. CASE stage # "answered"
    BY <2>1 DEF Answered, NoAnswer
  <2>2. CASE stage = "answered"
    <3>1. PICK join \in Joins(findings), found \in FindAttackPaths(Shown) :
            answer = AttackPathResponse(Shown, join, found)
      BY <2>2 DEF Answered
    <3>2. findings \subseteq Finding
      BY DEF Answered
    <3>3. AttackPathResponse(Shown, join, found) \in
            [nodes : SUBSET PathNode, links : SUBSET Link, paths : SUBSET Path]
      BY <3>2, ShownResources, ResponsesAreTyped
    <3> QED
      BY <3>1, <3>3
  <2> QED
    BY <2>1, <2>2
<1> QED
  BY <1>1, AlwaysAnswered, PTL

(***************************************************************************)
(* Every path of an answer runs over the answer's own nodes to a role or a *)
(* bucket that no link leaves (attack_paths/path_finder.py, routes.py).    *)
(***************************************************************************)
THEOREM PathsLead == Spec => []PathsLeadToAssets
<1>1. Answered => PathsLeadToAssets
  <2> SUFFICES ASSUME Answered, stage = "answered", NEW path \in answer.paths
               PROVE  LET end == path.nodes[Len(path.nodes)]
                      IN  /\ Visited(path.nodes) \ {Internet} \subseteq {n.id : n \in answer.nodes}
                          /\ Successors(answer.links, end) = {}
                          /\ \E n \in answer.nodes : n.id = end /\ n.type \in SensitiveTypes
    BY DEF PathsLeadToAssets
  <2>1. PICK join \in Joins(findings), found \in FindAttackPaths(Shown) :
          answer = AttackPathResponse(Shown, join, found)
    BY DEF Answered
  <2> DEFINE rs == Shown
  <2>2. /\ answer.nodes = {Node(rs[i], join) : i \in DOMAIN rs}
        /\ answer.links = Links(rs)
        /\ answer.paths = {[nodes |-> p, severity |-> PathSeverity(p, join)] : p \in found}
    BY <2>1 DEF AttackPathResponse
  <2>3. Len(resources) \in Nat /\ DOMAIN rs \subseteq 1..Len(resources)
    BY ShownResources
  <2>4. path.nodes \in PathsToTargets(rs)
    BY <2>2, FoundPaths
  <2> HIDE DEF rs
  <2> DEFINE p == path.nodes
             end == p[Len(p)]
             named == {i \in DOMAIN rs : rs[i].resource_id = end}
  <2>5. /\ Visited(p) \ {Internet} \subseteq {rs[i].resource_id : i \in DOMAIN rs}
        /\ end \in Targets(rs, Links(rs))
    BY <2>3, <2>4, PathsStayAmongResources
  <2>6. \A i \in DOMAIN rs : /\ Node(rs[i], join) \in answer.nodes
                             /\ Node(rs[i], join).id = rs[i].resource_id
                             /\ Node(rs[i], join).type = rs[i].resource_type
    BY <2>2 DEF Node
  <2> HIDE DEF p
  <2>7. Successors(answer.links, end) = {} /\ NodeType(rs, end) \in SensitiveTypes
    BY <2>2, <2>5 DEF Targets
  <2>8. LastOf(named) \in DOMAIN rs /\ rs[LastOf(named)].resource_id = end
        /\ rs[LastOf(named)].resource_type \in SensitiveTypes
    <3>1. None \notin SensitiveTypes
      BY RulesAssumption DEF SensitiveTypes, ResourceTypes
    <3>2. named # {} /\ rs[LastOf(named)].resource_type \in SensitiveTypes
      BY <2>7, <3>1 DEF NodeType
    <3>3. LastOf(named) \in named
      BY <2>3, <3>2, LastExists
    <3> QED
      BY <3>2, <3>3
  <2>9. Visited(p) \ {Internet} \subseteq {n.id : n \in answer.nodes}
    BY <2>5, <2>6
  <2>10. \E n \in answer.nodes : n.id = end /\ n.type \in SensitiveTypes
    BY <2>6, <2>8
  <2> QED
    BY <2>7, <2>9, <2>10 DEF p
<1> QED
  BY <1>1, AlwaysAnswered, PTL

(***************************************************************************)
(* A path is "Low" without findings and else as severe as one of them, and *)
(* never milder than all findings of one of its nodes; that it is as       *)
(* severe as the worst, as _path_severity says, is not provable: a name    *)
(* with two findings keeps one of them (attack_paths/routes.py).           *)
(***************************************************************************)
THEOREM SeverityReflects == Spec => []SeverityReflectsThePath
<1>1. Answered => SeverityReflectsThePath
  <2> SUFFICES ASSUME Answered, stage = "answered", NEW path \in answer.paths
               PROVE  /\ FindingsOn(path) = {} => path.severity = "Low"
                      /\ FindingsOn(path) # {} =>
                            \E f \in FindingsOn(path) : f.severity = path.severity
                      /\ \A n \in Visited(path.nodes) : FindingsOf(n) # {} =>
                            \E f \in FindingsOf(n) :
                               SeverityOrder[f.severity] <= SeverityOrder[path.severity]
    BY DEF SeverityReflectsThePath
  <2> DEFINE nodes == path.nodes
  <2>1. PICK join \in Joins(findings), found \in FindAttackPaths(Shown) :
          answer = AttackPathResponse(Shown, join, found)
    BY DEF Answered
  <2>2. path.severity = PathSeverity(nodes, join)
    BY <2>1 DEF AttackPathResponse
  <2>3. /\ DOMAIN join = {f.resource_id : f \in findings}
        /\ \A n \in DOMAIN join : /\ join[n] \in findings /\ join[n].resource_id = n
                                  /\ join[n].severity \in Severities
    BY JoinFacts DEF Answered
  <2> DEFINE joined == {join[n].severity : n \in Visited(nodes) \cap DOMAIN join}
  <2>4. /\ joined = {} => path.severity = "Low"
        /\ joined # {} => /\ path.severity \in joined
                          /\ \A s \in joined : SeverityOrder[s] <= SeverityOrder[path.severity]
    BY <2>2, <2>3, PathSeverityIsWorst
  <2>5. \A n \in Visited(nodes) \cap DOMAIN join : join[n] \in FindingsOn(path) \cap FindingsOf(n)
    BY <2>3 DEF FindingsOn, FindingsOf
  <2>6. \A n \in Visited(nodes) : FindingsOf(n) # {} => n \in DOMAIN join
    BY <2>3 DEF FindingsOf
  <2>7. FindingsOn(path) = {} => path.severity = "Low"
    BY <2>4, <2>5
  <2>8. FindingsOn(path) # {} => joined # {}
    BY <2>3 DEF FindingsOn
  <2>9. FindingsOn(path) # {} => \E f \in FindingsOn(path) : f.severity = path.severity
    BY <2>4, <2>5, <2>8
  <2>10. ASSUME NEW n \in Visited(nodes), FindingsOf(n) # {}
         PROVE  \E f \in FindingsOf(n) :
                   SeverityOrder[f.severity] <= SeverityOrder[path.severity]
    <3>1. n \in Visited(nodes) \cap DOMAIN join
      BY <2>6, <2>10
    <3>2. join[n].severity \in joined
      BY <3>1
    <3> QED
      BY <2>4, <2>5, <3>1, <3>2
  <2> QED
    BY <2>7, <2>9, <2>10
<1> QED
  BY <1>1, AlwaysAnswered, PTL

--------------------------------------------------------------------------------
(***************************************************************************)
(* Resources with names that are not taken for one another.                *)
(***************************************************************************)
Clear(rs, n) ==
    /\ n \in Nat /\ DOMAIN rs \subseteq 1..n
    /\ \A i \in DOMAIN rs : rs[i] \in Resource /\ rs[i].resource_id \in Ids
    /\ NamesApart(rs)

\* The graph of such resources leads where they say.
LEMMA GraphOfResources ==
    ASSUME NEW rs, NEW n, Clear(rs, n), OneRolePerProfile(rs)
    PROVE  LET links == Links(rs)
           IN  /\ \A t : t \in Successors(links, Internet) <=>
                            \E i \in OpenInstances(rs) : t = Name(rs, i)
               /\ \A i \in OfType(rs, "ec2_instance") : \A t :
                     t \in Successors(links, Name(rs, i)) <=> \E r \in Assumed(rs, i) : t = Name(rs, r)
               /\ \A r \in OfType(rs, "iam_role") : \A t :
                     t \in Successors(links, Name(rs, r)) <=> \E a \in rs[r].policies : t = ArnName[a]
               /\ \A p \in OfType(rs, "iam_policy") : \A t :
                     t \in Successors(links, Name(rs, p)) <=> t \in rs[p].buckets
               /\ \A s, t : t \in Successors(links, s) =>
                     \/ s = Internet
                     \/ \E i \in DOMAIN rs : /\ s = Name(rs, i)
                                             /\ rs[i].resource_type # "s3_bucket"
<1> DEFINE Connects(s, t) == \E e \in Edges(rs) : e.source = s /\ e.target = t
<1>0. \A s, t : t \in Successors(Links(rs), s) <=> Connects(s, t)
  BY SuccessorsAreEdges DEF Clear
<1>1. /\ \A i, j \in DOMAIN rs : Name(rs, i) = Name(rs, j) => i = j
      /\ \A i \in DOMAIN rs : Name(rs, i) # Internet /\ Name(rs, i) \notin Nameless
  BY RulesAssumption DEF Clear, NamesApart, Nameless, Name
<1>2. \A i \in DOMAIN rs : rs[i].profiles \subseteq Profiles /\ None \notin rs[i].profiles
  BY RulesAssumption DEF Clear, Resource
<1>3. \A type : Named(rs, type) = OfType(rs, type)
  BY <1>1 DEF Named, OfType, Name
\* The edges lead as the resources say.
<1>4. ASSUME NEW e \in Assumes(rs)
      PROVE  \E i \in OfType(rs, "ec2_instance") : \E r \in Assumed(rs, i) :
                e.source = Name(rs, i) /\ e.target = Name(rs, r)
  <2>1. PICK i \in Named(rs, "ec2_instance") :
          /\ RolesWith(rs, rs[i].profile) # {}
          /\ e = Edge(i, rs[i].resource_id,
                      rs[LastOf(RolesWith(rs, rs[i].profile))].resource_id, "ASSUMES")
    BY <1>4 DEF Assumes
  <2> DEFINE k == LastOf(RolesWith(rs, rs[i].profile))
  <2>2. k \in RolesWith(rs, rs[i].profile)
    <3>1. RolesWith(rs, rs[i].profile) \in SUBSET (1..n)
      BY DEF RolesWith, Named, OfType, Clear
    <3> QED
      BY <2>1, <3>1, LastExists DEF Clear
  <2>3. e.source = rs[i].resource_id /\ e.target = rs[k].resource_id
    BY <2>1 DEF Edge
  <2> HIDE DEF k
  <2>4. i \in OfType(rs, "ec2_instance") /\ k \in Assumed(rs, i)
    BY <1>3, <2>2 DEF RolesWith, Assumed
  <2> QED
    BY <2>3, <2>4 DEF Name
<1>5. ASSUME NEW e \in Permissions(rs)
      PROVE  \E r \in OfType(rs, "iam_role") : \E a \in rs[r].policies :
                e.source = Name(rs, r) /\ e.target = ArnName[a]
  <2>1. PICK i \in Named(rs, "iam_role") :
          \E a \in rs[i].policies : e = Edge(i, rs[i].resource_id, ArnName[a], "HAS_PERMISSION")
    BY <1>5 DEF Permissions
  <2> QED
    BY <1>3, <2>1 DEF Edge, Name
<1>6. ASSUME NEW e \in Accesses(rs)
      PROVE  \E p \in OfType(rs, "iam_policy") : e.source = Name(rs, p) /\ e.target \in rs[p].buckets
  <2>1. PICK i \in Named(rs, "iam_policy") :
          \E b \in rs[i].buckets : e = Edge(i, rs[i].resource_id, b, "ACCESSES")
    BY <1>6 DEF Accesses
  <2> QED
    BY <1>3, <2>1 DEF Edge, Name
<1>7. ASSUME NEW e \in Exposures(rs)
      PROVE  e.source = Internet /\ \E i \in OpenInstances(rs) : e.target = Name(rs, i)
  <2>1. PICK g \in {k \in Named(rs, "security_group") : IsPublic(rs[k])} :
          e \in {Edge(g, Internet, rs[j].resource_id, "EXPOSES") :
                    j \in {k \in OfType(rs, "ec2_instance") :
                               rs[g].resource_id \in rs[k].security_groups}}
    BY <1>7 DEF Exposures
  <2>2. PICK j \in OfType(rs, "ec2_instance") :
          /\ rs[g].resource_id \in rs[j].security_groups
          /\ e = Edge(g, Internet, rs[j].resource_id, "EXPOSES")
    BY <2>1
  <2>3. j \in OpenInstances(rs)
    BY <1>3, <2>1, <2>2 DEF OpenInstances
  <2> QED
    BY <2>2, <2>3 DEF Edge, Name
\* What the resources say is an edge.
<1>8. ASSUME NEW i \in OpenInstances(rs) PROVE Connects(Internet, Name(rs, i))
  <2>1. PICK g \in OfType(rs, "security_group") :
          IsPublic(rs[g]) /\ rs[g].resource_id \in rs[i].security_groups
    BY DEF OpenInstances
  <2>2. Edge(g, Internet, rs[i].resource_id, "EXPOSES") \in Exposures(rs)
    BY <1>3, <2>1 DEF Exposures, OpenInstances
  <2> QED
    BY <2>2 DEF Edges, Edge, Name
<1>9. ASSUME NEW i \in OfType(rs, "ec2_instance"), NEW r \in Assumed(rs, i)
      PROVE  Connects(Name(rs, i), Name(rs, r))
  <2>1. rs[i].profile # None
    BY <1>2 DEF Assumed, OfType
  <2> DEFINE S == RolesWith(rs, rs[i].profile)
             k == LastOf(S)
  <2>2. r \in S
    BY <1>3 DEF RolesWith, Assumed
  <2>3. k \in S
    <3>1. S \in SUBSET (1..n) /\ S # {}
      BY <2>2 DEF RolesWith, Named, OfType, Clear
    <3> HIDE DEF S
    <3> QED
      BY <3>1, LastExists DEF Clear
  <2>4. k = r
    <3>1. k \in OfType(rs, "iam_role") /\ rs[i].profile \in rs[k].profiles
      BY <1>3, <2>3 DEF RolesWith
    <3> HIDE DEF k
    <3>2. r \in OfType(rs, "iam_role") /\ rs[i].profile \in rs[r].profiles
      BY DEF Assumed
    <3> QED
      BY <3>1, <3>2 DEF OneRolePerProfile
  <2>5. i \in {m \in Named(rs, "ec2_instance") :
                  rs[m].profile # None /\ RolesWith(rs, rs[m].profile) # {}}
    BY <1>3, <2>1, <2>2
  <2>6. Edge(i, rs[i].resource_id, rs[r].resource_id, "ASSUMES") \in Assumes(rs)
    BY <2>4, <2>5 DEF Assumes
  <2> QED
    BY <2>6 DEF Edges, Edge, Name
<1>10. ASSUME NEW r \in OfType(rs, "iam_role"), NEW a \in rs[r].policies
       PROVE  Connects(Name(rs, r), ArnName[a])
  <2>1. Edge(r, rs[r].resource_id, ArnName[a], "HAS_PERMISSION") \in Permissions(rs)
    BY <1>3 DEF Permissions
  <2> QED
    BY <2>1 DEF Edges, Edge, Name
<1>11. ASSUME NEW p \in OfType(rs, "iam_policy"), NEW b \in rs[p].buckets
       PROVE  Connects(Name(rs, p), b)
  <2>1. Edge(p, rs[p].resource_id, b, "ACCESSES") \in Accesses(rs)
    BY <1>3 DEF Accesses
  <2> QED
    BY <2>1 DEF Edges, Edge, Name
\* An edge tells the kind of its source, and a name its resource.
<1>12. \A s, t : Connects(s, t) =>
          \/ s = Internet /\ \E i \in OpenInstances(rs) : t = Name(rs, i)
          \/ \E i \in OfType(rs, "ec2_instance") :
                s = Name(rs, i) /\ \E r \in Assumed(rs, i) : t = Name(rs, r)
          \/ \E r \in OfType(rs, "iam_role") :
                s = Name(rs, r) /\ \E a \in rs[r].policies : t = ArnName[a]
          \/ \E p \in OfType(rs, "iam_policy") : s = Name(rs, p) /\ t \in rs[p].buckets
  <2> TAKE s, t
  <2> SUFFICES ASSUME NEW e \in Edges(rs), e.source = s, e.target = t
               PROVE  \/ s = Internet /\ \E i \in OpenInstances(rs) : t = Name(rs, i)
                      \/ \E i \in OfType(rs, "ec2_instance") :
                            s = Name(rs, i) /\ \E r \in Assumed(rs, i) : t = Name(rs, r)
                      \/ \E r \in OfType(rs, "iam_role") :
                            s = Name(rs, r) /\ \E a \in rs[r].policies : t = ArnName[a]
                      \/ \E p \in OfType(rs, "iam_policy") : s = Name(rs, p) /\ t \in rs[p].buckets
    OBVIOUS
  <2>1. CASE e \in Assumes(rs)
    BY <1>4, <2>1
  <2>2. CASE e \in Permissions(rs)
    BY <1>5, <2>2
  <2>3. CASE e \in Accesses(rs)
    BY <1>6, <2>3
  <2>4. CASE e \in Exposures(rs)
    BY <1>7, <2>4
  <2> QED
    BY <2>1, <2>2, <2>3, <2>4 DEF Edges
<1> HIDE DEF Connects
<1>13. /\ \A i \in DOMAIN rs : Name(rs, i) # Internet
       /\ \A i, j \in DOMAIN rs : Name(rs, i) = Name(rs, j) => i = j
       /\ \A type : \A i : i \in OfType(rs, type) <=> i \in DOMAIN rs /\ rs[i].resource_type = type
  BY <1>1 DEF OfType
<1>14. \A t : Connects(Internet, t) <=> \E i \in OpenInstances(rs) : t = Name(rs, i)
  BY <1>8, <1>12, <1>13
<1>15. ASSUME NEW i \in OfType(rs, "ec2_instance"), NEW t
       PROVE  Connects(Name(rs, i), t) <=> \E r \in Assumed(rs, i) : t = Name(rs, r)
  BY <1>9, <1>12, <1>13
<1>16. ASSUME NEW r \in OfType(rs, "iam_role"), NEW t
       PROVE  Connects(Name(rs, r), t) <=> \E a \in rs[r].policies : t = ArnName[a]
  BY <1>10, <1>12, <1>13
<1>17. ASSUME NEW p \in OfType(rs, "iam_policy"), NEW t
       PROVE  Connects(Name(rs, p), t) <=> t \in rs[p].buckets
  BY <1>11, <1>12, <1>13
<1>18. \A s, t : Connects(s, t) =>
          s = Internet \/ \E i \in DOMAIN rs : s = Name(rs, i) /\ rs[i].resource_type # "s3_bucket"
  BY <1>12, <1>13
<1> QED
  BY <1>0, <1>14, <1>15, <1>16, <1>17, <1>18

\* A name's type is its resource's.
LEMMA TypesOfNames ==
    ASSUME NEW rs, NEW n, Clear(rs, n)
    PROVE  /\ \A i \in DOMAIN rs : NodeType(rs, Name(rs, i)) = rs[i].resource_type
           /\ \A m : NodeType(rs, m) \in SensitiveTypes =>
                 \E i \in DOMAIN rs : m = Name(rs, i) /\ rs[i].resource_type = NodeType(rs, m)
<1> DEFINE At(m) == {i \in DOMAIN rs : rs[i].resource_id = m}
<1>1. ASSUME NEW m, At(m) # {}
      PROVE  LastOf(At(m)) \in At(m) /\ NodeType(rs, m) = rs[LastOf(At(m))].resource_type
  <2>1. At(m) \in SUBSET (1..n) /\ n \in Nat
    BY DEF Clear
  <2>2. LastOf(At(m)) \in At(m)
    BY <1>1, <2>1, LastExists
  <2> QED
    BY <1>1, <2>2 DEF NodeType
<1>2. ASSUME NEW i \in DOMAIN rs PROVE NodeType(rs, Name(rs, i)) = rs[i].resource_type
  <2>1. i \in At(Name(rs, i))
    BY DEF Name
  <2>2. LastOf(At(Name(rs, i))) = i
    BY <1>1, <2>1 DEF Clear, NamesApart, Name
  <2> QED
    BY <1>1, <2>1, <2>2
<1>3. ASSUME NEW m, NodeType(rs, m) \in SensitiveTypes
      PROVE  \E i \in DOMAIN rs : m = Name(rs, i) /\ rs[i].resource_type = NodeType(rs, m)
  <2>1. At(m) # {}
    BY <1>3, RulesAssumption DEF NodeType, SensitiveTypes, ResourceTypes
  <2> QED
    BY <1>1, <2>1 DEF Name
<1> QED
  BY <1>2, <1>3

\* Membership in the reference, spelled out.
LEMMA Chains ==
    ASSUME NEW rs, NEW p
    PROVE  p \in Exposed(rs) <=>
             \E i \in OpenInstances(rs) : \E r \in Assumed(rs, i) :
                \/ rs[r].policies = {} /\ p = <<Internet, Name(rs, i), Name(rs, r)>>
                \/ \E q \in Attached(rs, r) : \E b \in Opened(rs, q) :
                      p = <<Internet, Name(rs, i), Name(rs, r), Name(rs, q), Name(rs, b)>>
<1>1. p \in ExposedRoles(rs) <=>
        \E i \in OpenInstances(rs) : \E r \in Assumed(rs, i) :
           rs[r].policies = {} /\ p = <<Internet, Name(rs, i), Name(rs, r)>>
  BY DEF ExposedRoles
<1>2. p \in ExposedBuckets(rs) <=>
        \E i \in OpenInstances(rs) : \E r \in Assumed(rs, i) :
           \E q \in Attached(rs, r) : \E b \in Opened(rs, q) :
              p = <<Internet, Name(rs, i), Name(rs, r), Name(rs, q), Name(rs, b)>>
  <2> DEFINE Path5(i, r, q, b) == <<Internet, Name(rs, i), Name(rs, r), Name(rs, q), Name(rs, b)>>
             Of3(i, r, q) == {Path5(i, r, q, b) : b \in Opened(rs, q)}
             Of2(i, r) == UNION {Of3(i, r, q) : q \in Attached(rs, r)}
             Of1(i) == UNION {Of2(i, r) : r \in Assumed(rs, i)}
  <2>1. \A i, r, q : p \in Of3(i, r, q) <=> \E b \in Opened(rs, q) : p = Path5(i, r, q, b)
    OBVIOUS
  <2> HIDE DEF Of3
  <2>2. \A i, r : p \in Of2(i, r) <=> \E q \in Attached(rs, r) : p \in Of3(i, r, q)
    OBVIOUS
  <2> HIDE DEF Of2
  <2>3. \A i : p \in Of1(i) <=> \E r \in Assumed(rs, i) : p \in Of2(i, r)
    OBVIOUS
  <2> HIDE DEF Of1
  <2>4. ExposedBuckets(rs) = UNION {Of1(i) : i \in OpenInstances(rs)}
    BY DEF ExposedBuckets, Of1, Of2, Of3
  <2> QED
    BY <2>1, <2>2, <2>3, <2>4
<1> QED
  BY <1>1, <1>2 DEF Exposed

\* The paths in the graph of such resources are the chains they allow.
LEMMA PathsOfResources ==
    ASSUME NEW rs, NEW n, Clear(rs, n), OneRolePerProfile(rs)
    PROVE  /\ PathsToTargets(rs) \subseteq Exposed(rs)
           /\ Cutoff >= 4 => PathsToTargets(rs) = Exposed(rs)
<1> DEFINE links == Links(rs)
<1>1. /\ \A t : t \in Successors(links, Internet) <=> \E i \in OpenInstances(rs) : t = Name(rs, i)
      /\ \A i \in OfType(rs, "ec2_instance") : \A t :
            t \in Successors(links, Name(rs, i)) <=> \E r \in Assumed(rs, i) : t = Name(rs, r)
      /\ \A r \in OfType(rs, "iam_role") : \A t :
            t \in Successors(links, Name(rs, r)) <=> \E a \in rs[r].policies : t = ArnName[a]
      /\ \A q \in OfType(rs, "iam_policy") : \A t :
            t \in Successors(links, Name(rs, q)) <=> t \in rs[q].buckets
      /\ \A s, t : t \in Successors(links, s) =>
            \/ s = Internet
            \/ \E i \in DOMAIN rs : s = Name(rs, i) /\ rs[i].resource_type # "s3_bucket"
  BY GraphOfResources
<1>2. /\ \A i \in DOMAIN rs : NodeType(rs, Name(rs, i)) = rs[i].resource_type
      /\ \A m : NodeType(rs, m) \in SensitiveTypes =>
            \E i \in DOMAIN rs : m = Name(rs, i) /\ rs[i].resource_type = NodeType(rs, m)
  BY TypesOfNames
<1>3. /\ \A i, j \in DOMAIN rs : Name(rs, i) = Name(rs, j) => i = j
      /\ \A i \in DOMAIN rs : Name(rs, i) # Internet
  BY DEF Clear, NamesApart
<1>4. ASSUME NEW r \in OfType(rs, "iam_role"), NEW a \in rs[r].policies
      PROVE  /\ ArnName[a] # Internet
             /\ \A j \in DOMAIN rs : Name(rs, j) = ArnName[a] => rs[j].resource_type = "iam_policy"
  <2>1. a \in Arns
    BY DEF Clear, Resource, OfType
  <2> QED
    BY <2>1 DEF Clear, NamesApart
<1>5. ASSUME NEW q \in OfType(rs, "iam_policy"), NEW b \in rs[q].buckets
      PROVE  /\ b # Internet
             /\ \A j \in DOMAIN rs : Name(rs, j) = b => rs[j].resource_type = "s3_bucket"
  <2>1. b \in Ids
    BY DEF Clear, Resource, OfType
  <2> QED
    BY <2>1 DEF Clear, NamesApart
<1>6. /\ \A i \in OpenInstances(rs) : i \in DOMAIN rs /\ rs[i].resource_type = "ec2_instance"
      /\ \A i : \A r \in Assumed(rs, i) : r \in DOMAIN rs /\ rs[r].resource_type = "iam_role"
      /\ \A r : \A q \in Attached(rs, r) : q \in DOMAIN rs /\ rs[q].resource_type = "iam_policy"
      /\ \A q : \A b \in Opened(rs, q) : b \in DOMAIN rs /\ rs[b].resource_type = "s3_bucket"
      /\ \A type : \A i : i \in OfType(rs, type) <=> i \in DOMAIN rs /\ rs[i].resource_type = type
  BY DEF OpenInstances, Assumed, Attached, Opened, OfType
<1>7. /\ \A r \in OfType(rs, "iam_role") : rs[r].policies # {} <=> \E a : a \in rs[r].policies
      /\ SensitiveTypes = {"iam_role", "s3_bucket"}
  BY DEF SensitiveTypes
<1> HIDE DEF links
\* What is found is such a chain.
<1>8. ASSUME NEW p \in PathsToTargets(rs) PROVE p \in Exposed(rs)
  <2>1. p \in Walks(links) /\ p[Len(p)] \in Targets(rs, links)
    BY DEF PathsToTargets, links
  <2>2. PICK k \in 0..Cutoff : IsWalk(links, p, k)
    BY <2>1, WalksAreSimplePaths
  <2>3. /\ k \in Nat /\ p \in Seq(Nodes(links)) /\ Len(p) = k + 1 /\ p[1] = Internet
        /\ \A i \in 1..k : p[i + 1] \in Successors(links, p[i])
        /\ \A i, j \in 1..(k + 1) : p[i] = p[j] => i = j
    BY <2>2, PathsAssumption DEF IsWalk
  <2>4. /\ p[k + 1] # Internet /\ NodeType(rs, p[k + 1]) \in SensitiveTypes
        /\ Successors(links, p[k + 1]) = {}
    BY <2>1, <2>3 DEF Targets
  <2>5. PICK i \in OpenInstances(rs) : k # 0 /\ p[2] = Name(rs, i)
    <3>1. k # 0
      BY <2>3, <2>4
    <3>2. p[1 + 1] \in Successors(links, p[1])
      BY <2>3, <3>1
    <3> QED
      BY <1>1, <2>3, <3>1, <3>2
  <2>6. PICK r \in Assumed(rs, i) : k # 1 /\ p[3] = Name(rs, r)
    <3>1. k # 1
      BY <1>2, <1>6, <1>7, <2>4, <2>5
    <3>2. p[2 + 1] \in Successors(links, p[2])
      BY <2>3, <2>5, <3>1
    <3> QED
      BY <1>1, <1>6, <2>5, <3>1, <3>2
  <2>7. r \in OfType(rs, "iam_role")
    BY <1>6, <2>6
  <2>8. CASE k = 2
    <3>1. rs[r].policies = {}
      BY <1>1, <2>4, <2>6, <2>7, <2>8
    <3>2. p = <<Internet, Name(rs, i), Name(rs, r)>>
      BY <2>3, <2>5, <2>6, <2>8
    <3> QED
      BY <2>5, <2>6, <3>1, <3>2, Chains
  <2>9. CASE k # 2
    <3>0. k >= 3
      BY <2>3, <2>5, <2>6, <2>9
    <3>1. PICK a \in rs[r].policies : p[4] = ArnName[a]
      <4>1. p[3 + 1] \in Successors(links, p[3])
        BY <2>3, <3>0
      <4> QED
        BY <1>1, <2>6, <2>7, <4>1
    <3>2. k # 3
      BY <1>2, <1>4, <1>7, <2>4, <2>7, <3>1
    <3>3. p[4 + 1] \in Successors(links, p[4])
      BY <2>3, <3>0, <3>2
    <3>4. PICK q \in DOMAIN rs : p[4] = Name(rs, q)
      BY <1>1, <1>4, <2>7, <3>1, <3>3
    <3>5. q \in OfType(rs, "iam_policy")
      <4>1. rs[q].resource_type = "iam_policy"
        BY <1>4, <2>7, <3>1, <3>4
      <4> QED
        BY <4>1 DEF OfType
    <3>6. q \in Attached(rs, r)
      BY <3>1, <3>4, <3>5 DEF Attached, Name
    <3>7. p[5] \in rs[q].buckets
      BY <1>1, <3>3, <3>4, <3>5
    <3>8. k = 4
      <4>1. ASSUME k # 4 PROVE FALSE
        <5>1. p[5 + 1] \in Successors(links, p[5])
          BY <2>3, <3>0, <3>2, <4>1
        <5> QED
          BY <1>1, <1>5, <3>5, <3>7, <5>1
      <4> QED
        BY <4>1
    <3>9. PICK b \in DOMAIN rs : p[5] = Name(rs, b)
      BY <1>2, <2>4, <3>8
    <3>10. b \in Opened(rs, q)
      BY <1>5, <1>6, <3>5, <3>7, <3>9 DEF Opened, Name
    <3>11. p = <<Internet, Name(rs, i), Name(rs, r), Name(rs, q), Name(rs, b)>>
      BY <2>3, <2>5, <2>6, <3>4, <3>8, <3>9
    <3> QED
      BY <2>5, <2>6, <3>6, <3>10, <3>11, Chains
  <2> QED
    BY <2>8, <2>9
\* A chain that ends in a role is found.
<1>9. ASSUME Cutoff >= 4, NEW i \in OpenInstances(rs), NEW r \in Assumed(rs, i), rs[r].policies = {}
      PROVE  <<Internet, Name(rs, i), Name(rs, r)>> \in PathsToTargets(rs)
  <2> DEFINE x == Name(rs, i)
             y == Name(rs, r)
             p == <<Internet, x, y>>
  <2>1. Internet # x /\ Internet # y /\ x # y
    BY <1>3, <1>6
  <2>2. x \in Successors(links, Internet) /\ y \in Successors(links, x)
    BY <1>1, <1>6
  <2>3. Successors(links, y) = {} /\ NodeType(rs, y) \in SensitiveTypes
    BY <1>1, <1>2, <1>6, <1>7, <1>9
  <2> HIDE DEF x, y
  <2>4. {Internet, x, y} \subseteq Nodes(links) /\ y \in Ends(links)
    BY <2>2 DEF Successors, Nodes, Ends
  <2>5. p \in Seq(Nodes(links)) /\ Len(p) = 3 /\ p[1] = Internet /\ p[2] = x /\ p[3] = y
    BY <2>4
  <2> HIDE DEF p
  <2>6. \A m \in 1..2 : p[m + 1] \in Successors(links, p[m])
    <3>1. \A m \in 1..2 : m = 1 \/ m = 2
      OBVIOUS
    <3> QED
      BY <2>2, <2>5, <3>1
  <2>7. \A m, o \in 1..(2 + 1) : p[m] = p[o] => m = o
    <3>1. \A m \in 1..(2 + 1) : m = 1 \/ m = 2 \/ m = 3
      OBVIOUS
    <3> QED
      BY <2>1, <2>5, <3>1
  <2>8. IsWalk(links, p, 2)
    BY <2>5, <2>6, <2>7 DEF IsWalk
  <2>9. p \in Walks(links)
    BY <1>9, <2>8, WalksAreSimplePaths, PathsAssumption
  <2>10. p \in PathsToTargets(rs)
    BY <2>1, <2>3, <2>4, <2>5, <2>9 DEF PathsToTargets, Targets, links
  <2> QED
    BY <2>10 DEF p, x, y
\* A chain that ends in a bucket is found.
<1>10. ASSUME Cutoff >= 4, NEW i \in OpenInstances(rs), NEW r \in Assumed(rs, i),
              NEW q \in Attached(rs, r), NEW b \in Opened(rs, q)
       PROVE  <<Internet, Name(rs, i), Name(rs, r), Name(rs, q), Name(rs, b)>> \in PathsToTargets(rs)
  <2> DEFINE x == Name(rs, i)
             y == Name(rs, r)
             z == Name(rs, q)
             end == Name(rs, b)
             p == <<Internet, x, y, z, end>>
  <2>1. /\ Internet \notin {x, y, z, end} /\ x \notin {y, z, end} /\ y \notin {z, end}
        /\ z # end
    BY <1>3, <1>6
  <2>2. x \in Successors(links, Internet) /\ y \in Successors(links, x)
    BY <1>1, <1>6
  <2>3. z \in Successors(links, y)
    BY <1>1, <1>6 DEF Attached, Name
  <2>4. end \in Successors(links, z)
    BY <1>1, <1>6 DEF Opened, Name
  <2>5. Successors(links, end) = {}
    BY <1>1, <1>3, <1>6
  <2>6. NodeType(rs, end) \in SensitiveTypes
    BY <1>2, <1>6, <1>7
  <2> HIDE DEF x, y, z, end
  <2>7. {Internet, x, y, z, end} \subseteq Nodes(links) /\ end \in Ends(links)
    BY <2>2, <2>3, <2>4 DEF Successors, Nodes, Ends
  <2>8. /\ p \in Seq(Nodes(links)) /\ Len(p) = 5
        /\ p[1] = Internet /\ p[2] = x /\ p[3] = y /\ p[4] = z /\ p[5] = end
    BY <2>7
  <2> HIDE DEF p
  <2>9. \A m \in 1..4 : p[m + 1] \in Successors(links, p[m])
    <3>1. \A m \in 1..4 : m = 1 \/ m = 2 \/ m = 3 \/ m = 4
      OBVIOUS
    <3> QED
      BY <2>2, <2>3, <2>4, <2>8, <3>1
  <2>10. \A m, o \in 1..(4 + 1) : p[m] = p[o] => m = o
    <3>1. \A m \in 1..(4 + 1) : m = 1 \/ m = 2 \/ m = 3 \/ m = 4 \/ m = 5
      OBVIOUS
    <3> QED
      BY <2>1, <2>8, <3>1
  <2>11. IsWalk(links, p, 4)
    BY <2>8, <2>9, <2>10 DEF IsWalk
  <2>12. p \in Walks(links)
    BY <1>10, <2>11, WalksAreSimplePaths, PathsAssumption
  <2>13. p \in PathsToTargets(rs)
    BY <2>1, <2>5, <2>6, <2>7, <2>8, <2>12 DEF PathsToTargets, Targets, links
  <2> QED
    BY <2>13 DEF p, x, y, z, end
<1>11. Cutoff >= 4 => \A p : p \in Exposed(rs) => p \in PathsToTargets(rs)
  BY <1>9, <1>10, Chains
<1> QED
  BY <1>8, <1>11

(***************************************************************************)
(* Resources whose names are not taken for one another show exactly the    *)
(* chains they allow, as many as the limit admits, to roles that hold no   *)
(* policies and to the buckets of attached ones: edges, graph and search   *)
(* together (DEFAULT_CUTOFF is 5 edges, the longest such chain has four).  *)
(***************************************************************************)
THEOREM ExposedShown ==
    ASSUME Cutoff >= 4
    PROVE  Spec => []ExposedAssetsAreShown
<1>1. Answered => ExposedAssetsAreShown
  <2> SUFFICES ASSUME Answered, stage = "answered", NamesApart(Shown), OneRolePerProfile(Shown)
               PROVE  LET shown == {p.nodes : p \in answer.paths}
                      IN  /\ shown \subseteq Exposed(Shown)
                          /\ shown = Exposed(Shown) \/ Cardinality(shown) = MaxPaths
    BY DEF ExposedAssetsAreShown, Shown
  <2>1. PICK join \in Joins(findings), found \in FindAttackPaths(Shown) :
          answer = AttackPathResponse(Shown, join, found)
    BY DEF Answered
  <2>2. {p.nodes : p \in answer.paths} = found
    <3>1. answer.paths = {[nodes |-> p, severity |-> PathSeverity(p, join)] : p \in found}
      BY <2>1 DEF AttackPathResponse
    <3>2. \A path \in answer.paths : path.nodes \in found
      BY <3>1
    <3>3. \A p \in found : \E path \in answer.paths : path.nodes = p
      <4> TAKE p \in found
      <4>1. [nodes |-> p, severity |-> PathSeverity(p, join)] \in answer.paths
        BY <3>1
      <4> QED
        BY <4>1
    <3> QED
      BY <3>2, <3>3
  <2>3. Clear(Shown, Len(resources))
    BY ShownResources DEF Clear
  <2>4. PathsToTargets(Shown) = Exposed(Shown)
    BY <2>3, PathsOfResources
  <2>5. /\ found \subseteq PathsToTargets(Shown)
        /\ found = PathsToTargets(Shown) \/ Cardinality(found) = MaxPaths
    BY DEF FindAttackPaths
  <2> QED
    BY <2>2, <2>4, <2>5
<1> QED
  BY <1>1, AlwaysAnswered, PTL
================================================================================
