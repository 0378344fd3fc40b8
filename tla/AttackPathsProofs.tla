--------------------------- MODULE AttackPathsProofs ---------------------------
(***************************************************************************)
(* What the operators of AttackPaths return, for any resources and any     *)
(* limits.  Walks is a recursive function; its facts are proved by the     *)
(* least length that would break them.                                     *)
(***************************************************************************)
EXTENDS AttackPaths, SequenceTheorems, FiniteSetTheorems, WellFoundedInduction, TLAPS

\* A set of naturals that is not empty has a least element.
LEMMA LeastNatural ==
    ASSUME NEW T, T \subseteq Nat, T # {}
    PROVE  \E x \in T : \A y \in T : x <= y
<1> DEFINE R == OpToRel(<, Nat)
<1>1. \E x \in T : \A y \in T : ~(<<y, x>> \in R)
  <2>1. IsWellFoundedOn(R, Nat)
    BY NatLessThanWellFounded
  <2> HIDE DEF R
  <2> QED
    BY <2>1, WFMin
<1>2. \A x, y \in T : <<y, x>> \notin R => x <= y
  BY DEF OpToRel
<1> QED
  BY <1>1, <1>2

\* A bounded set of positions has a last one.
LEMMA LastExists ==
    ASSUME NEW n \in Nat, NEW S \in SUBSET (1..n), S # {}
    PROVE  LastOf(S) \in S /\ \A j \in S : j <= LastOf(S)
<1> DEFINE T == {n - i : i \in S}
<1>1. T \subseteq Nat /\ T # {}
  <2>1. \A i \in S : i \in Nat /\ n - i \in Nat
    OBVIOUS
  <2> QED
    BY <2>1
<1>2. PICK x \in T : \A y \in T : x <= y
  <2> HIDE DEF T
  <2> QED
    BY <1>1, LeastNatural
<1>3. PICK i \in S : x = n - i
  OBVIOUS
<1>4. \A j \in S : j <= i
  BY <1>2, <1>3
<1> QED
  BY <1>4 DEF LastOf

--------------------------------------------------------------------------------
(***************************************************************************)
(* The recursion of Walks, taken apart: the walks of k edges extend those  *)
(* of k - 1.                                                               *)
(***************************************************************************)
Extensions(links, k, S) ==
    UNION {{Append(p, n) : n \in Successors(links, p[k]) \ Visited(p)} : p \in S}

IsTable(links, m, g) ==
    g = [k \in 0..m |-> IF k = 0 THEN {<<Internet>>} ELSE Extensions(links, k, g[k - 1])]

LEMMA TablesExist ==
    ASSUME NEW links, NEW m \in Nat
    PROVE  \E g : IsTable(links, m, g)
<1> DEFINE T == {k \in Nat : ~\E g : IsTable(links, k, g)}
<1> SUFFICES ASSUME T # {} PROVE FALSE
  OBVIOUS
<1>1. PICK x \in T : \A y \in T : x <= y
  <2>1. T \subseteq Nat
    OBVIOUS
  <2> HIDE DEF T
  <2> QED
    BY <2>1, LeastNatural
<1>2. CASE x = 0
  <2>1. IsTable(links, 0, [k \in 0..0 |-> {<<Internet>>}])
    BY DEF IsTable
  <2> QED
    BY <1>1, <1>2, <2>1
<1>3. CASE x # 0
  <2>1. x - 1 \in Nat /\ x - 1 \notin T
    BY <1>1, <1>3
  <2>2. PICK g : IsTable(links, x - 1, g)
    BY <2>1
  <2> DEFINE h == [k \in 0..x |-> IF k = x THEN Extensions(links, x, g[x - 1]) ELSE g[k]]
  <2>3. \A k \in 0..x : h[k] = IF k = 0 THEN {<<Internet>>} ELSE Extensions(links, k, h[k - 1])
    <3> TAKE k \in 0..x
    <3>1. CASE k = x
      BY <1>3, <2>1, <3>1
    <3>2. CASE k # x
      <4>1. k \in 0..(x - 1) /\ h[k] = g[k] /\ (k # 0 => h[k - 1] = g[k - 1])
        BY <2>1, <3>2
      <4> QED
        BY <2>2, <4>1 DEF IsTable
    <3> QED
      BY <3>1, <3>2
  <2>4. IsTable(links, x, h)
    <3>1. h = [k \in 0..x |-> h[k]]
      OBVIOUS
    <3> HIDE DEF h
    <3> QED
      BY <2>3, <3>1 DEF IsTable
  <2> QED
    BY <1>1, <2>4
<1> QED
  BY <1>2, <1>3

LEMMA WalksTable ==
    ASSUME NEW links
    PROVE  \E g : IsTable(links, Cutoff, g) /\ Walks(links) = UNION {g[k] : k \in 0..Cutoff}
<1>1. \E g : IsTable(links, Cutoff, g)
  BY TablesExist, PathsAssumption
<1> QED
  BY <1>1 DEF IsTable, Extensions, Walks

(***************************************************************************)
(* What all_simple_paths promises of a path: it starts at the internet,    *)
(* follows links, and visits no node twice.                                *)
(***************************************************************************)
Nodes(links) == {Internet} \cup {l.target : l \in links}

IsWalk(links, p, k) ==
    /\ p \in Seq(Nodes(links)) /\ Len(p) = k + 1
    /\ p[1] = Internet
    /\ \A i \in 1..k : p[i + 1] \in Successors(links, p[i])
    /\ \A i, j \in 1..(k + 1) : p[i] = p[j] => i = j

\* A walk and a successor of its end that it has not visited make a walk.
LEMMA ExtendingAWalk ==
    ASSUME NEW links, NEW k \in Nat, k # 0, NEW p, IsWalk(links, p, k - 1),
           NEW n \in Successors(links, p[k]) \ Visited(p)
    PROVE  IsWalk(links, Append(p, n), k)
<1> DEFINE q == Append(p, n)
<1>1. p \in Seq(Nodes(links)) /\ n \in Nodes(links) /\ Len(p) = k
  BY DEF IsWalk, Successors, Nodes
<1>2. /\ q \in Seq(Nodes(links)) /\ Len(q) = k + 1
      /\ \A i \in 1..k : q[i] = p[i]
      /\ q[k + 1] = n
  BY <1>1, AppendProperties
<1>3. \A i \in 1..k : p[i] # n
  BY <1>1, LenProperties DEF Visited
<1> HIDE DEF q
<1>4. q[1] = Internet
  BY <1>2 DEF IsWalk
<1>5. \A i \in 1..k : q[i + 1] \in Successors(links, q[i])
  BY <1>2 DEF IsWalk
<1>6. ASSUME NEW i \in 1..(k + 1), NEW j \in 1..(k + 1), q[i] = q[j] PROVE i = j
  <2>1. \A x, y \in 1..k : p[x] = p[y] => x = y
    BY DEF IsWalk
  <2>2. CASE i = k + 1
    BY <1>2, <1>3, <1>6, <2>2
  <2>3. CASE j = k + 1
    BY <1>2, <1>3, <1>6, <2>3
  <2>4. CASE i # k + 1 /\ j # k + 1
    <3>1. i \in 1..k /\ j \in 1..k
      BY <2>4
    <3> QED
      BY <1>2, <1>6, <2>1, <3>1
  <2> QED
    BY <2>2, <2>3, <2>4
<1> QED
  BY <1>2, <1>4, <1>5, <1>6 DEF IsWalk, q

\* Every walk of an edge or more is a shorter one, extended.
LEMMA ShorteningAWalk ==
    ASSUME NEW links, NEW k \in Nat, k # 0, NEW q, IsWalk(links, q, k)
    PROVE  \E p : /\ IsWalk(links, p, k - 1)
                  /\ \E n \in Successors(links, p[k]) \ Visited(p) : q = Append(p, n)
<1> DEFINE p == [i \in 1..k |-> q[i]]
<1>1. q \in Seq(Nodes(links)) /\ Len(q) = k + 1 /\ DOMAIN q = 1..(k + 1)
  BY LenProperties DEF IsWalk
<1>2. \A i \in 1..(k + 1) : q[i] \in Nodes(links)
  BY <1>1, ElementOfSeq
<1>3. p \in Seq(Nodes(links)) /\ Len(p) = k /\ DOMAIN p = 1..k
  <2>1. p \in [1..k -> Nodes(links)]
    BY <1>2
  <2>2. p \in Seq(Nodes(links))
    BY <2>1, SeqDef
  <2> QED
    BY <2>2, LenProperties
<1>4. q = Append(p, q[k + 1])
  <2>1. /\ Append(p, q[k + 1]) \in Seq(Nodes(links)) /\ Len(Append(p, q[k + 1])) = k + 1
        /\ \A i \in 1..k : Append(p, q[k + 1])[i] = q[i]
        /\ Append(p, q[k + 1])[k + 1] = q[k + 1]
    BY <1>2, <1>3, AppendProperties
  <2>2. \A i \in 1..(k + 1) : Append(p, q[k + 1])[i] = q[i]
    BY <2>1
  <2> HIDE DEF p
  <2> QED
    BY <1>1, <2>1, <2>2, SeqEqual
<1>5. IsWalk(links, p, k - 1)
  BY <1>3 DEF IsWalk
<1>6. q[k + 1] \in Successors(links, p[k]) \ Visited(p)
  <2>1. q[k + 1] \in Successors(links, p[k])
    BY DEF IsWalk
  <2>2. \A i \in 1..k : p[i] # q[k + 1]
    BY DEF IsWalk
  <2> HIDE DEF p
  <2> QED
    BY <1>3, <2>1, <2>2 DEF Visited
<1> QED
  BY <1>4, <1>5, <1>6

\* A row of the table holds exactly the walks of its length.
LEMMA TableHoldsWalks ==
    ASSUME NEW links, NEW m \in Nat, NEW g, IsTable(links, m, g)
    PROVE  \A k \in 0..m : \A p : p \in g[k] <=> IsWalk(links, p, k)
<1> DEFINE T == {k \in 0..m : ~\A p : p \in g[k] <=> IsWalk(links, p, k)}
<1> SUFFICES ASSUME T # {} PROVE FALSE
  OBVIOUS
<1>1. PICK x \in T : \A y \in T : x <= y
  <2>1. T \subseteq Nat
    OBVIOUS
  <2> HIDE DEF T
  <2> QED
    BY <2>1, LeastNatural
<1>2. \A p : p \in g[0] <=> IsWalk(links, p, 0)
  <2>1. g[0] = {<<Internet>>}
    BY DEF IsTable
  <2>2. IsWalk(links, <<Internet>>, 0)
    <3> DEFINE p == <<Internet>>
    <3>1. p \in Seq(Nodes(links)) /\ Len(p) = 1 /\ p[1] = Internet
      BY DEF Nodes
    <3> HIDE DEF p
    <3>2. \A i, j \in 1..(0 + 1) : i = j
      OBVIOUS
    <3>3. ~\E i \in 1..0 : TRUE
      OBVIOUS
    <3>4. IsWalk(links, p, 0)
      BY <3>1, <3>2, <3>3 DEF IsWalk
    <3> QED
      BY <3>4 DEF p
  <2>3. ASSUME NEW p, IsWalk(links, p, 0) PROVE p = <<Internet>>
    <3>1. p \in Seq(Nodes(links)) /\ Len(p) = 1 /\ p[1] = Internet
      BY <2>3 DEF IsWalk
    <3> DEFINE q == <<Internet>>
    <3>2. q \in Seq(Nodes(links)) /\ Len(q) = 1 /\ q[1] = Internet
      BY DEF Nodes
    <3> HIDE DEF q
    <3>3. p = q
      <4>1. \A i \in 1..Len(p) : p[i] = q[i]
        BY <3>1, <3>2
      <4> QED
        BY <3>1, <3>2, <4>1, SeqEqual
    <3> QED
      BY <3>3 DEF q
  <2> QED
    BY <2>1, <2>2, <2>3
<1>3. x # 0
  BY <1>1, <1>2
<1>4. x - 1 \in 0..m /\ \A p : p \in g[x - 1] <=> IsWalk(links, p, x - 1)
  BY <1>1, <1>3
<1>5. g[x] = Extensions(links, x, g[x - 1])
  BY <1>1, <1>3 DEF IsTable
<1>6. ASSUME NEW q, q \in g[x] PROVE IsWalk(links, q, x)
  <2>1. PICK p \in g[x - 1] : \E n \in Successors(links, p[x]) \ Visited(p) : q = Append(p, n)
    BY <1>5, <1>6 DEF Extensions
  <2> QED
    BY <1>1, <1>3, <1>4, <2>1, ExtendingAWalk
<1>7. ASSUME NEW q, IsWalk(links, q, x) PROVE q \in g[x]
  <2>1. PICK p : /\ IsWalk(links, p, x - 1)
                 /\ \E n \in Successors(links, p[x]) \ Visited(p) : q = Append(p, n)
    <3>1. x \in Nat
      BY <1>1
    <3> HIDE DEF T
    <3> QED
      BY <1>3, <1>7, <3>1, ShorteningAWalk
  <2>2. p \in g[x - 1]
    BY <1>4, <2>1
  <2>3. q \in Extensions(links, x, g[x - 1])
    BY <2>1, <2>2 DEF Extensions
  <2> QED
    BY <1>5, <2>3
<1> QED
  BY <1>1, <1>6, <1>7

(***************************************************************************)
(* The search finds exactly the simple paths from the internet of up to    *)
(* Cutoff edges (path_finder.py, nx.all_simple_paths).                     *)
(***************************************************************************)
THEOREM WalksAreSimplePaths ==
    ASSUME NEW links
    PROVE  \A p : p \in Walks(links) <=> \E k \in 0..Cutoff : IsWalk(links, p, k)
<1>1. PICK g : IsTable(links, Cutoff, g) /\ Walks(links) = UNION {g[k] : k \in 0..Cutoff}
  BY WalksTable
<1>2. \A k \in 0..Cutoff : \A p : p \in g[k] <=> IsWalk(links, p, k)
  BY <1>1, TableHoldsWalks, PathsAssumption
<1> QED
  BY <1>1, <1>2

--------------------------------------------------------------------------------
Edges(rs) == Assumes(rs) \cup Permissions(rs) \cup Accesses(rs) \cup Exposures(rs)

\* An edge comes from one of the resources, and starts at it or at the internet.
LEMMA EdgesHaveSources ==
    ASSUME NEW rs, NEW e \in Edges(rs)
    PROVE  e.from \in DOMAIN rs /\ e.source \in {Internet, rs[e.from].resource_id}
<1> USE DEF Edge, Named, OfType
<1>1. CASE e \in Assumes(rs)
  BY <1>1 DEF Assumes
<1>2. CASE e \in Permissions(rs)
  BY <1>2 DEF Permissions
<1>3. CASE e \in Accesses(rs)
  BY <1>3 DEF Accesses
<1>4. CASE e \in Exposures(rs)
  BY <1>4 DEF Exposures
<1> QED
  BY <1>1, <1>2, <1>3, <1>4 DEF Edges

\* Neither the first edge of its kind nor the last between two nodes loses a connection.
LEMMA SuccessorsAreEdges ==
    ASSUME NEW n \in Nat, NEW rs, DOMAIN rs \subseteq 1..n, NEW s, NEW t
    PROVE  t \in Successors(Links(rs), s) <=> \E e \in Edges(rs) : e.source = s /\ e.target = t
<1>1. ASSUME t \in Successors(Links(rs), s)
      PROVE  \E e \in Edges(rs) : e.source = s /\ e.target = t
  BY <1>1 DEF Successors, Links, BuildEdges, Edges
<1>2. ASSUME NEW e \in Edges(rs), e.source = s, e.target = t
      PROVE  t \in Successors(Links(rs), s)
  <2> DEFINE Same(f) == /\ f.source = e.source /\ f.target = e.target
                        /\ f.relationship = e.relationship
             Alike == {f \in Edges(rs) : Same(f)}
             Between == {f \in BuildEdges(rs) : f.source = s /\ f.target = t}
  <2>1. \A f \in Edges(rs) : f.from \in 1..n
    BY EdgesHaveSources
  <2>2. Between # {}
    <3>1. PICK x \in {f.from : f \in Alike} : \A y \in {f.from : f \in Alike} : x <= y
      <4>1. {f.from : f \in Alike} \subseteq Nat /\ {f.from : f \in Alike} # {}
        BY <2>1
      <4> QED
        BY <4>1, LeastNatural
    <3>2. PICK f \in Alike : f.from = x
      OBVIOUS
    <3>3. f \in BuildEdges(rs)
      BY <3>1, <3>2 DEF BuildEdges, Edges
    <3> QED
      BY <1>2, <3>3
  <2>3. PICK g \in Between : \A f \in Between : f.from <= g.from
    <3> DEFINE S == {f.from : f \in Between}
    <3>1. S \in SUBSET (1..n) /\ S # {}
      BY <2>1, <2>2 DEF BuildEdges, Edges
    <3>2. LastOf(S) \in S /\ \A j \in S : j <= LastOf(S)
      <4> HIDE DEF S
      <4> QED
        BY <3>1, LastExists
    <3> QED
      BY <3>2
  <2>4. ~\E f \in BuildEdges(rs) : f.source = g.source /\ f.target = g.target /\ f.from > g.from
    <3>1. \A f \in Between : f.from \in Int
      BY <2>1 DEF BuildEdges, Edges
    <3> QED
      BY <2>3, <3>1
  <2>5. [source |-> g.source, target |-> g.target, relationship |-> g.relationship] \in Links(rs)
    BY <2>4 DEF Links
  <2> QED
    BY <2>5 DEF Successors
<1> QED
  BY <1>1, <1>2

\* Links join names, in one of the four relations.
LEMMA LinksAreTyped ==
    ASSUME NEW n \in Nat, NEW rs, DOMAIN rs \subseteq 1..n,
           \A i \in DOMAIN rs : rs[i] \in Resource /\ rs[i].resource_id \in Ids
    PROVE  Links(rs) \subseteq [source : Ids, target : Ids, relationship : Relations]
<1> DEFINE Typed(e) == e.source \in Ids /\ e.target \in Ids /\ e.relationship \in Relations
<1> USE DEF Edge, Named, OfType
<1>0. \A i \in DOMAIN rs : /\ rs[i].resource_id \in Ids
                           /\ rs[i].buckets \subseteq Ids /\ rs[i].policies \subseteq Arns
  BY DEF Resource
<1>1. ASSUME NEW e \in Assumes(rs) PROVE Typed(e)
  <2>1. PICK i \in Named(rs, "ec2_instance") :
          /\ RolesWith(rs, rs[i].profile) # {}
          /\ e = Edge(i, rs[i].resource_id,
                      rs[LastOf(RolesWith(rs, rs[i].profile))].resource_id, "ASSUMES")
    BY <1>1 DEF Assumes
  <2>2. LastOf(RolesWith(rs, rs[i].profile)) \in DOMAIN rs
    <3>1. RolesWith(rs, rs[i].profile) \in SUBSET (1..n)
      BY DEF RolesWith
    <3>2. LastOf(RolesWith(rs, rs[i].profile)) \in RolesWith(rs, rs[i].profile)
      BY <2>1, <3>1, LastExists
    <3> QED
      BY <3>2 DEF RolesWith
  <2> QED
    BY <1>0, <2>1, <2>2 DEF Relations
<1>2. ASSUME NEW e \in Permissions(rs) PROVE Typed(e)
  BY <1>0, PathsAssumption DEF Permissions, Relations
<1>3. ASSUME NEW e \in Accesses(rs) PROVE Typed(e)
  BY <1>0 DEF Accesses, Relations
<1>4. ASSUME NEW e \in Exposures(rs) PROVE Typed(e)
  BY <1>0, PathsAssumption DEF Exposures, Relations
<1>5. \A e \in Edges(rs) : Typed(e)
  BY <1>1, <1>2, <1>3, <1>4 DEF Edges
<1> QED
  BY <1>5 DEF Links, BuildEdges, Edges

(***************************************************************************)
(* A path that is shown goes from resource to resource: each of its nodes  *)
(* after the first bears the name of one.                                  *)
(***************************************************************************)
LEMMA PathsStayAmongResources ==
    ASSUME NEW n \in Nat, NEW rs, DOMAIN rs \subseteq 1..n, NEW p \in PathsToTargets(rs)
    PROVE  /\ p \in Seq(Nodes(Links(rs))) /\ Len(p) \in Nat \ {0}
           /\ Visited(p) \ {Internet} \subseteq {rs[i].resource_id : i \in DOMAIN rs}
           /\ p[Len(p)] \in Targets(rs, Links(rs))
<1> DEFINE links == Links(rs)
           names == {rs[i].resource_id : i \in DOMAIN rs}
<1>1. p \in Walks(links) /\ p[Len(p)] \in Targets(rs, links)
  BY DEF PathsToTargets
<1>2. PICK k \in 0..Cutoff : IsWalk(links, p, k)
  BY <1>1, WalksAreSimplePaths
<1>3. p \in Seq(Nodes(links)) /\ Len(p) = k + 1 /\ DOMAIN p = 1..(k + 1)
  BY <1>2, LenProperties DEF IsWalk
<1>4. ASSUME NEW i \in 1..k PROVE p[i] \in names \cup {Internet}
  <2>1. p[i + 1] \in Successors(links, p[i])
    BY <1>2 DEF IsWalk
  <2>2. PICK e \in Edges(rs) : e.source = p[i]
    BY <2>1, SuccessorsAreEdges
  <2> QED
    BY <2>2, EdgesHaveSources
<1>5. p[k + 1] \in names
  <2>1. NodeType(rs, p[k + 1]) \in SensitiveTypes
    BY <1>1, <1>3 DEF Targets
  <2>2. None \notin SensitiveTypes
    BY RulesAssumption DEF SensitiveTypes, ResourceTypes
  <2> QED
    BY <2>1, <2>2 DEF NodeType
<1>6. Visited(p) \subseteq names \cup {Internet}
  <2>1. \A i \in 1..(k + 1) : i = k + 1 \/ i \in 1..k
    BY <1>2, PathsAssumption
  <2> QED
    BY <1>3, <1>4, <1>5, <2>1 DEF Visited
<1> QED
  BY <1>1, <1>2, <1>3, <1>6, PathsAssumption

\* Deduplication loses no name and type.
LEMMA DeduplicateCovers ==
    ASSUME NEW n \in Nat, NEW rs, DOMAIN rs = 1..n, NEW i \in DOMAIN rs, rs[i].resource_id \notin Nameless
    PROVE  \E j \in DOMAIN Deduplicate(rs) :
              /\ Deduplicate(rs)[j].resource_id = rs[i].resource_id
              /\ Deduplicate(rs)[j].resource_type = rs[i].resource_type
<1> DEFINE T == {j \in DOMAIN rs : /\ rs[j].resource_id = rs[i].resource_id
                                   /\ rs[j].resource_type = rs[i].resource_type}
<1>1. PICK j \in T : \A m \in T : j <= m
  <2>1. T \subseteq Nat /\ T # {}
    OBVIOUS
  <2> HIDE DEF T
  <2> QED
    BY <2>1, LeastNatural
<1>2. j \in DOMAIN Deduplicate(rs) /\ Deduplicate(rs)[j] = rs[j]
  BY <1>1 DEF Deduplicate
<1> QED
  BY <1>2

--------------------------------------------------------------------------------
\* Of severities there is a worst.
LEMMA WorstExists ==
    ASSUME NEW S \in SUBSET Severities, S # {}
    PROVE  \E s \in S : \A t \in S : SeverityOrder[t] <= SeverityOrder[s]
<1> DEFINE T == {4 - SeverityOrder[s] : s \in S}
<1>1. \A s \in Severities : SeverityOrder[s] \in 1..4
  BY DEF SeverityOrder, Severities
<1>2. T \subseteq Nat /\ T # {}
  BY <1>1
<1>3. PICK x \in T : \A y \in T : x <= y
  <2> HIDE DEF T
  <2> QED
    BY <1>2, LeastNatural
<1>4. PICK s \in S : x = 4 - SeverityOrder[s]
  OBVIOUS
<1>5. \A t \in S : 4 - SeverityOrder[s] <= 4 - SeverityOrder[t]
  BY <1>3, <1>4
<1> QED
  BY <1>1, <1>5

\* A path is as severe as the worst of the findings joined to its nodes.
LEMMA PathSeverityIsWorst ==
    ASSUME NEW path, NEW join, \A n \in DOMAIN join : join[n].severity \in Severities
    PROVE  LET found == {join[n].severity : n \in Visited(path) \cap DOMAIN join}
           IN  /\ PathSeverity(path, join) \in Severities
               /\ found = {} => PathSeverity(path, join) = "Low"
               /\ found # {} => /\ PathSeverity(path, join) \in found
                                /\ \A s \in found :
                                      SeverityOrder[s] <= SeverityOrder[PathSeverity(path, join)]
<1> DEFINE found == {join[n].severity : n \in Visited(path) \cap DOMAIN join}
<1>1. found \in SUBSET Severities
  OBVIOUS
<1>2. PathSeverity(path, join) =
        IF found = {} THEN "Low"
        ELSE CHOOSE s \in found : \A t \in found : SeverityOrder[t] <= SeverityOrder[s]
  BY DEF PathSeverity
<1> HIDE DEF found
<1>3. found # {} => /\ PathSeverity(path, join) \in found
                    /\ \A s \in found : SeverityOrder[s] <= SeverityOrder[PathSeverity(path, join)]
  BY <1>1, <1>2, WorstExists
<1>4. "Low" \in Severities
  BY DEF Severities
<1> QED
  BY <1>1, <1>2, <1>3, <1>4 DEF found
--------------------------------------------------------------------------------
(***************************************************************************)
(* Finitely many resources have finitely many paths: each is a short list  *)
(* of their names.                                                         *)
(***************************************************************************)
LEMMA PathsAreFinite ==
    ASSUME NEW n \in Nat, NEW rs, DOMAIN rs \subseteq 1..n
    PROVE  IsFiniteSet(PathsToTargets(rs))
<1> DEFINE names == {rs[i].resource_id : i \in DOMAIN rs} \cup {Internet}
           all == PathsToTargets(rs)
           places == (1..(Cutoff + 1)) \X names
           Graph(p) == {<<i, p[i]>> : i \in DOMAIN p}
           f == [p \in all |-> Graph(p)]
<1>1. IsFiniteSet(names)
  <2> DEFINE g == [i \in DOMAIN rs |-> rs[i].resource_id]
             ids == {rs[i].resource_id : i \in DOMAIN rs}
  <2>1. IsFiniteSet(DOMAIN rs)
    <3>1. IsFiniteSet(1..n)
      BY FS_Interval
    <3> QED
      BY <3>1, FS_Subset
  <2>2. IsFiniteSet(ids)
    <3>1. g \in Surjection(DOMAIN rs, ids)
      BY DEF Surjection
    <3> QED
      BY <2>1, <3>1, FS_Surjection
  <2> QED
    BY <2>2, FS_AddElement
<1>2. IsFiniteSet(SUBSET places)
  <2>1. IsFiniteSet(1..(Cutoff + 1))
    BY PathsAssumption, FS_Interval
  <2> QED
    BY <1>1, <2>1, FS_Product, FS_SUBSET
<1>3. ASSUME NEW p \in all
      PROVE  /\ DOMAIN p = 1..Len(p) /\ Len(p) \in 1..(Cutoff + 1)
             /\ p = [i \in 1..Len(p) |-> p[i]] /\ \A i \in DOMAIN p : p[i] \in names
  <2>1. /\ p \in Seq(Nodes(Links(rs))) /\ Len(p) \in Nat \ {0}
        /\ Visited(p) \ {Internet} \subseteq {rs[i].resource_id : i \in DOMAIN rs}
    BY PathsStayAmongResources
  <2>2. PICK k \in 0..Cutoff : IsWalk(Links(rs), p, k)
    BY WalksAreSimplePaths DEF PathsToTargets
  <2>3. Len(p) = k + 1
    BY <2>2 DEF IsWalk
  <2>4. DOMAIN p = 1..Len(p) /\ p = [i \in 1..Len(p) |-> p[i]]
    BY <2>1
  <2>5. \A i \in DOMAIN p : p[i] \in names
    BY <2>1 DEF Visited
  <2> QED
    BY <2>2, <2>3, <2>4, <2>5, PathsAssumption
<1>4. \A p \in all : Graph(p) \in SUBSET places
  BY <1>3, PathsAssumption
<1>5. ASSUME NEW p \in all, NEW q \in all, Graph(p) = Graph(q)
      PROVE  p = q
  <2>1. \A i \in DOMAIN p : <<i, p[i]>> \in Graph(q)
    BY <1>5
  <2>2. \A i \in DOMAIN q : <<i, q[i]>> \in Graph(p)
    BY <1>5
  <2>3. DOMAIN p = DOMAIN q /\ \A i \in DOMAIN p : p[i] = q[i]
    BY <2>1, <2>2
  <2>4. Len(p) = Len(q)
    BY <1>3, <2>3
  <2> QED
    BY <1>3, <2>3, <2>4
<1>6. f \in Injection(all, SUBSET places)
  <2>1. f \in [all -> SUBSET places]
    BY <1>4
  <2>2. \A p, q \in all : f[p] = f[q] => p = q
    BY <1>5
  <2> QED
    BY <2>1, <2>2 DEF Injection, IsInjective
<1> HIDE DEF f, places
<1> QED
  BY <1>2, <1>6, FS_Injection

(***************************************************************************)
(* Of finitely many things that are ranked one can take as many as one     *)
(* wants, taking nothing before what ranks lower.                          *)
(***************************************************************************)
LEMMA SelectionsExist ==
    ASSUME NEW S, IsFiniteSet(S), NEW rank \in [S -> Nat],
           NEW m \in Nat, m <= Cardinality(S)
    PROVE  \E T \in SUBSET S :
              /\ Cardinality(T) = m
              /\ \A p \in S : (\E q \in T : rank[p] < rank[q]) => p \in T
<1> DEFINE Selects(T, k) == /\ Cardinality(T) = k
                            /\ \A p \in S : (\E q \in T : rank[p] < rank[q]) => p \in T
           Missing == {k \in 0..m : ~\E T \in SUBSET S : Selects(T, k)}
<1>0. m \notin Missing => \E T \in SUBSET S : Selects(T, m)
  OBVIOUS
<1> SUFFICES ASSUME Missing # {} PROVE FALSE
  BY <1>0
<1>1. PICK k \in Missing : \A j \in Missing : k <= j
  <2>1. Missing \subseteq Nat
    OBVIOUS
  <2> HIDE DEF Missing
  <2> QED
    BY <2>1, LeastNatural
<1>2. Selects({}, 0)
  BY FS_EmptySet
<1>3. k \in Nat \ {0}
  BY <1>1, <1>2
<1>4. k - 1 \in 0..m /\ k - 1 \notin Missing
  BY <1>1, <1>3
<1>5. PICK T \in SUBSET S : Selects(T, k - 1)
  BY <1>4
<1>6. IsFiniteSet(T) /\ S \ T # {}
  <2>1. IsFiniteSet(T)
    BY FS_Subset
  <2>2. T # S
    BY <1>4, <1>5, FS_CardinalityType
  <2> QED
    BY <2>1, <2>2
<1>7. PICK p \in S \ T : \A q \in S \ T : rank[p] <= rank[q]
  <2> DEFINE R == {rank[q] : q \in S \ T}
  <2>1. R \subseteq Nat /\ R # {}
    BY <1>6
  <2>2. PICK x \in R : \A y \in R : x <= y
    <3> HIDE DEF R
    <3> QED
      BY <2>1, LeastNatural
  <2> QED
    BY <2>2
<1>8. Selects(T \cup {p}, k)
  <2>1. Cardinality(T \cup {p}) = k
    <3>1. Cardinality(T \cup {p}) = Cardinality(T) + 1
      BY <1>6, <1>7, FS_AddElement
    <3> QED
      BY <1>3, <1>5, <3>1
  <2>2. ASSUME NEW q \in S, NEW t \in T \cup {p}, rank[q] < rank[t]
        PROVE  q \in T \cup {p}
    BY <1>5, <1>7, <2>2
  <2> QED
    BY <2>1, <2>2
<1> QED
  BY <1>1, <1>8

(***************************************************************************)
(* The search has an answer for any resources: the limit can always be     *)
(* met by paths taken in the order of their targets.                       *)
(***************************************************************************)
THEOREM PathsCanBeChosen ==
    ASSUME NEW n \in Nat, NEW rs, DOMAIN rs \subseteq 1..n,
           \A i \in DOMAIN rs : rs[i].resource_id \in Ids
    PROVE  FindAttackPaths(rs) # {}
<1> DEFINE all == PathsToTargets(rs)
           rank == [p \in all |-> Rank[p[Len(p)]]]
<1>1. IsFiniteSet(all) /\ Cardinality(all) \in Nat
  BY PathsAreFinite, FS_CardinalityType
<1>2. rank \in [all -> Nat]
  <2>1. ASSUME NEW p \in all PROVE p[Len(p)] \in Ids
    <3>1. /\ p \in Seq(Nodes(Links(rs))) /\ Len(p) \in Nat \ {0}
          /\ Visited(p) \ {Internet} \subseteq {rs[i].resource_id : i \in DOMAIN rs}
      BY PathsStayAmongResources
    <3>2. p[Len(p)] \in Visited(p)
      BY <3>1 DEF Visited
    <3> QED
      BY <3>1, <3>2, PathsAssumption
  <2> QED
    BY <2>1, PathsAssumption
<1>3. CASE Cardinality(all) <= MaxPaths
  BY <1>3 DEF FindAttackPaths
<1>4. CASE MaxPaths < Cardinality(all)
  <2>1. PICK T \in SUBSET all :
          /\ Cardinality(T) = MaxPaths
          /\ \A p \in all : (\E q \in T : rank[p] < rank[q]) => p \in T
    <3> HIDE DEF all, rank
    <3> QED
      BY <1>1, <1>2, <1>4, SelectionsExist, PathsAssumption
  <2>2. T \in FindAttackPaths(rs)
    BY <2>1 DEF FindAttackPaths
  <2> QED
    BY <2>2
<1> QED
  BY <1>1, <1>3, <1>4, PathsAssumption
--------------------------------------------------------------------------------
(***************************************************************************)
(* What get_attack_paths makes of resources and findings.                  *)
(***************************************************************************)
\* Deduplication leaves resources with names, in the places they were collected.
LEMMA DeduplicatedResources ==
    ASSUME NEW s \in Seq(Resource)
    PROVE  /\ Len(s) \in Nat /\ DOMAIN Deduplicate(s) \subseteq 1..Len(s)
           /\ \A i \in DOMAIN Deduplicate(s) : /\ Deduplicate(s)[i] = s[i]
                                              /\ Deduplicate(s)[i] \in Resource
                                              /\ Deduplicate(s)[i].resource_id \in Ids
<1>1. Len(s) \in Nat /\ DOMAIN s = 1..Len(s) /\ \A i \in DOMAIN s : s[i] \in Resource
  BY ElementOfSeq, LenProperties
<1>2. \A r \in Resource : r.resource_id \notin Nameless => r.resource_id \in Ids
  BY DEF Resource, Nameless
<1> QED
  BY <1>1, <1>2 DEF Deduplicate

\* A join leads from names to their findings.
LEMMA JoinFacts ==
    ASSUME NEW F, F \subseteq Finding, NEW join \in Joins(F)
    PROVE  /\ DOMAIN join = {f.resource_id : f \in F}
           /\ \A n \in DOMAIN join : /\ join[n] \in F /\ join[n].resource_id = n
                                     /\ join[n].severity \in Severities
  BY DEF Joins, Finding

\* Findings can be joined by their names.
LEMMA JoinsExist ==
    ASSUME NEW F
    PROVE  Joins(F) # {}
<1> DEFINE join == [n \in {f.resource_id : f \in F} |-> CHOOSE f \in F : f.resource_id = n]
<1>1. \A n \in {f.resource_id : f \in F} : join[n] \in F /\ join[n].resource_id = n
  OBVIOUS
<1>2. join \in Joins(F)
  BY <1>1 DEF Joins
<1> QED
  BY <1>2

\* The paths that are found lead to targets.
LEMMA FoundPaths ==
    ASSUME NEW rs, NEW found \in FindAttackPaths(rs)
    PROVE  found \subseteq PathsToTargets(rs)
  BY DEF FindAttackPaths

\* Every answer that get_attack_paths can make has its type.
LEMMA ResponsesAreTyped ==
    ASSUME NEW n \in Nat, NEW rs, DOMAIN rs \subseteq 1..n,
           \A i \in DOMAIN rs : rs[i] \in Resource /\ rs[i].resource_id \in Ids,
           NEW F, F \subseteq Finding,
           NEW join \in Joins(F), NEW found \in FindAttackPaths(rs)
    PROVE  AttackPathResponse(rs, join, found) \in
              [nodes : SUBSET PathNode, links : SUBSET Link, paths : SUBSET Path]
<1>1. \A m \in DOMAIN join : join[m].severity \in Severities
  BY JoinFacts
<1>2. found \subseteq PathsToTargets(rs)
  BY FoundPaths
<1>3. Links(rs) \subseteq Link
  BY LinksAreTyped DEF Link
<1>4. {Node(rs[i], join) : i \in DOMAIN rs} \subseteq PathNode
  BY <1>1 DEF Node, PathNode, Resource
<1>5. ASSUME NEW p \in found PROVE [nodes |-> p, severity |-> PathSeverity(p, join)] \in Path
  <2>1. p \in Seq(Nodes(Links(rs)))
    BY <1>2, PathsStayAmongResources
  <2>2. Nodes(Links(rs)) \subseteq Ids
    BY <1>3, PathsAssumption DEF Nodes, Link
  <2>3. p \in Seq(Ids)
    BY <2>1, <2>2, SeqMonotonic
  <2>4. PathSeverity(p, join) \in Severities
    BY <1>1, PathSeverityIsWorst
  <2> QED
    BY <2>3, <2>4 DEF Path
<1>6. {[nodes |-> p, severity |-> PathSeverity(p, join)] : p \in found} \subseteq Path
  BY <1>5
<1> QED
  BY <1>3, <1>4, <1>6 DEF AttackPathResponse
================================================================================
