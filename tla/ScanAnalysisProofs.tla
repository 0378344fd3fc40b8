--------------------------- MODULE ScanAnalysisProofs --------------------------
(***************************************************************************)
(* For any account, any changes to it and any failures: what a scan tells  *)
(* was true, call by call.  The argument is one set, Readings(W): what the *)
(* mappers make of answers given at the moments W.  A collection holds     *)
(* readings of the moments it has seen, and nothing else.                  *)
(***************************************************************************)
EXTENDS ScanAnalysis, AttackPathsProofs, FiniteSetTheorems

Buckets(W) ==
    UNION {{MapS3Bucket(n, Account[w].buckets[n]) : n \in DOMAIN Account[w].buckets} : w \in W}

Policies(W) ==
    UNION {{MapIamPolicy(n, Account[w].policies[n]) :
               n \in {m \in DOMAIN Account[w].policies : Decodes(Account[w].policies[m])}} : w \in W}

SecurityGroups(W) ==
    UNION {{MapSecurityGroup(n, Account[w].groups[n]) : n \in DOMAIN Account[w].groups} : w \in W}

Instances(W) ==
    UNION {{MapEc2Instance(n, Account[w].instances[n]) : n \in DOMAIN Account[w].instances}
           : w \in W}

\* The two calls about a role may be answered at different moments.
Roles(W) ==
    UNION {UNION {{MapRoleAttachment(n, Account[v].roles[n].policies,
                                     ProfileRecords(Account[w].roles[n].profiles)) :
                       n \in DOMAIN Account[v].roles \cap DOMAIN Account[w].roles} : v \in W} : w \in W}

Readings(W) == Buckets(W) \cup Policies(W) \cup SecurityGroups(W) \cup Instances(W) \cup Roles(W)

\* Readings of more moments are more readings.
LEMMA MoreReadings ==
    ASSUME NEW V, NEW W, V \subseteq W
    PROVE  Readings(V) \subseteq Readings(W)
<1>1. Buckets(V) \subseteq Buckets(W)
  BY DEF Buckets
<1>2. Policies(V) \subseteq Policies(W)
  BY DEF Policies
<1>3. SecurityGroups(V) \subseteq SecurityGroups(W)
  BY DEF SecurityGroups
<1>4. Instances(V) \subseteq Instances(W)
  BY DEF Instances
<1>5. Roles(V) \subseteq Roles(W)
  BY DEF Roles
<1> QED
  BY <1>1, <1>2, <1>3, <1>4, <1>5 DEF Readings

\* What a mapper leaves alone is as Bare has it.
LEMMA BareFacts ==
    ASSUME NEW id, NEW type, NEW at
    PROVE  LET r == Bare(id, type, at)
           IN  /\ r.resource_id = id /\ r.resource_type = type
               /\ r.security_groups = {} /\ r.profile = None /\ r.policies = {}
               /\ r.profiles = {} /\ r.buckets = {}
               /\ \A p \in Paths : r.at[p] = IF p \in DOMAIN at THEN at[p] ELSE None
  BY DEF Bare

\* What an instance's reading says.
LEMMA InstanceFacts ==
    ASSUME NEW id, NEW i
    PROVE  LET r == MapEc2Instance(id, i)
           IN  /\ r.resource_id = id /\ r.resource_type = "ec2_instance"
               /\ r.security_groups = i.groups /\ r.profile = i.profile /\ r.buckets = {}
               /\ \A p \in Paths : r.at[p] = None
  BY DEF MapEc2Instance, Bare

\* What a mapper adds to a bare role.
LEMMA BareRole ==
    ASSUME NEW id, NEW policies, NEW profiles,
           NEW r, r = [Bare(id, "iam_role", <<>>) EXCEPT !.policies = policies,
                                                         !.profiles = profiles]
    PROVE  r = [resource_id |-> id, resource_type |-> "iam_role",
                at |-> [p \in Paths |-> IF p \in DOMAIN <<>> THEN <<>>[p] ELSE None],
                security_groups |-> {}, profile |-> None, policies |-> policies,
                profiles |-> profiles, buckets |-> {}]
  BY DEF Bare

\* What a role's reading says: its profiles are lost.
LEMMA RoleFacts ==
    ASSUME NEW id, NEW policies, NEW arns
    PROVE  MapRoleAttachment(id, policies, ProfileRecords(arns)) =
             [resource_id |-> id, resource_type |-> "iam_role", at |-> [p \in Paths |-> None],
              security_groups |-> {}, profile |-> None, policies |-> policies,
              profiles |-> {}, buckets |-> {}]
<1> DEFINE kept == {p.InstanceProfileArn :
                        p \in {q \in ProfileRecords(arns) : "InstanceProfileArn" \in DOMAIN q}}
           nothing == [p \in Paths |-> IF p \in DOMAIN <<>> THEN <<>>[p] ELSE None]
<1>1. {q \in ProfileRecords(arns) : "InstanceProfileArn" \in DOMAIN q} = {}
  BY DEF ProfileRecords
<1>2. kept = {}
  BY <1>1
<1>3. nothing = [p \in Paths |-> None]
  OBVIOUS
<1>4. MapRoleAttachment(id, policies, ProfileRecords(arns)) =
        [Bare(id, "iam_role", <<>>) EXCEPT !.policies = policies, !.profiles = kept]
  BY DEF MapRoleAttachment
<1>5. [Bare(id, "iam_role", <<>>) EXCEPT !.policies = policies, !.profiles = kept] =
        [resource_id |-> id, resource_type |-> "iam_role", at |-> nothing,
         security_groups |-> {}, profile |-> None, policies |-> policies,
         profiles |-> kept, buckets |-> {}]
  BY BareRole
<1> HIDE DEF kept, nothing
<1> QED
  BY <1>2, <1>3, <1>4, <1>5

\* Every reading bears a name of the account, and its kind is its type's.
LEMMA ReadingKinds ==
    ASSUME NEW W, W \subseteq Worlds, NEW r \in Readings(W)
    PROVE  /\ r.resource_id \in Ids
           /\ r \in Buckets(W) => r.resource_type = "s3_bucket"
           /\ r \in Policies(W) => r.resource_type = "iam_policy"
           /\ r \in SecurityGroups(W) => r.resource_type = "security_group"
           /\ r \in Instances(W) => r.resource_type = "ec2_instance"
           /\ r \in Roles(W) => r.resource_type = "iam_role"
<1> USE WorldsAssumption DEF IsWorld, IsPartial, Bare
<1>1. r \in Buckets(W) => r.resource_id \in Ids /\ r.resource_type = "s3_bucket"
  BY DEF Buckets, MapS3Bucket
<1>2. r \in Policies(W) => r.resource_id \in Ids /\ r.resource_type = "iam_policy"
  BY DEF Policies, MapIamPolicy
<1>3. r \in SecurityGroups(W) => r.resource_id \in Ids /\ r.resource_type = "security_group"
  BY DEF SecurityGroups, MapSecurityGroup
<1>4. r \in Instances(W) => r.resource_id \in Ids /\ r.resource_type = "ec2_instance"
  BY InstanceFacts DEF Instances
<1>5. r \in Roles(W) => r.resource_id \in Ids /\ r.resource_type = "iam_role"
  <2>1. SUFFICES ASSUME NEW v \in W, NEW w \in W,
                        NEW n \in DOMAIN Account[v].roles \cap DOMAIN Account[w].roles,
                        r = MapRoleAttachment(n, Account[v].roles[n].policies,
                                              ProfileRecords(Account[w].roles[n].profiles))
                 PROVE  r.resource_id \in Ids /\ r.resource_type = "iam_role"
    BY DEF Roles
  <2>2. n \in Ids
    OBVIOUS
  <2> QED
    BY <2>1, <2>2, RoleFacts
<1> QED
  BY <1>1, <1>2, <1>3, <1>4, <1>5 DEF Readings

--------------------------------------------------------------------------------
(***************************************************************************)
(* A rule cannot apply to an instance or a role: the mappers give them no  *)
(* attribute a rule reads, and no operator holds of nothing.               *)
(***************************************************************************)
LEMMA NothingMatchesNothing ==
    ASSUME NEW rule \in Rules
    PROVE  ~Match(None, rule)
  BY RulesAssumption DEF Match, Rule

\* So no rule applies to an instance or a role.
LEMMA RulesNeedAttributes ==
    ASSUME NEW W, W \subseteq Worlds, NEW r \in Instances(W) \cup Roles(W), NEW rule \in Rules
    PROVE  ~Applies(rule, r)
<1>1. rule.eval_path \in Paths
  BY RulesAssumption DEF Rule
<1>2. r.at[rule.eval_path] = None
  <2>1. CASE r \in Instances(W)
    BY <1>1, <2>1, InstanceFacts DEF Instances
  <2>2. CASE r \in Roles(W)
    BY <1>1, <2>2, RoleFacts DEF Roles
  <2> QED
    BY <2>1, <2>2
<1> QED
  BY <1>2, NothingMatchesNothing DEF Applies

\* What FindingsWereTrue says of one finding.
WasTrue(f, W) ==
    \E rule \in Rules :
        /\ rule.rule_id = f.rule_id
        /\ \E w \in W :
             \/ /\ f.resource_id \in DOMAIN Account[w].buckets
                /\ Applies(rule, MapS3Bucket(f.resource_id, Account[w].buckets[f.resource_id]))
             \/ /\ f.resource_id \in DOMAIN Account[w].policies
                /\ Decodes(Account[w].policies[f.resource_id])
                /\ Applies(rule, MapIamPolicy(f.resource_id, Account[w].policies[f.resource_id]))
             \/ /\ f.resource_id \in DOMAIN Account[w].groups
                /\ Applies(rule, MapSecurityGroup(f.resource_id, Account[w].groups[f.resource_id]))

\* A finding of a reading was true.
LEMMA ReadingsWereTrue ==
    ASSUME NEW W, W \subseteq Worlds, NEW r \in Readings(W), NEW i, NEW rule \in Rules,
           Applies(rule, r), NEW f, f = FindingOf(r, i, rule)
    PROVE  WasTrue(f, W)
<1>1. f.rule_id = rule.rule_id
  BY DEF FindingOf
<1>2. f.resource_id = r.resource_id
  BY ReadingKinds, RulesAssumption DEF FindingOf
<1>3. r \notin Instances(W) \cup Roles(W)
  BY RulesNeedAttributes
<1>4. CASE r \in Buckets(W)
  <2>0. PICK w \in W : \E n \in DOMAIN Account[w].buckets :
                           r = MapS3Bucket(n, Account[w].buckets[n])
    BY <1>4 DEF Buckets
  <2>1. PICK n \in DOMAIN Account[w].buckets : r = MapS3Bucket(n, Account[w].buckets[n])
    BY <2>0
  <2>2. r.resource_id = n
    BY <2>1 DEF MapS3Bucket, Bare
  <2> QED
    BY <1>1, <1>2, <2>1, <2>2 DEF WasTrue
<1>5. CASE r \in Policies(W)
  <2>0. PICK w \in W : \E n \in DOMAIN Account[w].policies :
          Decodes(Account[w].policies[n]) /\ r = MapIamPolicy(n, Account[w].policies[n])
    BY <1>5 DEF Policies
  <2>1. PICK n \in DOMAIN Account[w].policies :
          Decodes(Account[w].policies[n]) /\ r = MapIamPolicy(n, Account[w].policies[n])
    BY <2>0
  <2>2. r.resource_id = n
    BY <2>1 DEF MapIamPolicy, Bare
  <2> QED
    BY <1>1, <1>2, <2>1, <2>2 DEF WasTrue
<1>6. CASE r \in SecurityGroups(W)
  <2>0. PICK w \in W : \E n \in DOMAIN Account[w].groups :
                           r = MapSecurityGroup(n, Account[w].groups[n])
    BY <1>6 DEF SecurityGroups
  <2>1. PICK n \in DOMAIN Account[w].groups : r = MapSecurityGroup(n, Account[w].groups[n])
    BY <2>0
  <2>2. r.resource_id = n
    BY <2>1 DEF MapSecurityGroup, Bare
  <2> QED
    BY <1>1, <1>2, <2>1, <2>2 DEF WasTrue
<1> QED
  BY <1>3, <1>4, <1>5, <1>6 DEF Readings

--------------------------------------------------------------------------------
(***************************************************************************)
(* The score of a severity lies in a range of its own: the spread of 8     *)
(* never crosses a severity, and only Critical reaches the threshold.      *)
(***************************************************************************)
LEMMA ScoreRanges ==
    ASSUME NEW id \in Ids \cup {Null}, NEW rule \in Rules
    PROVE  LET score == RiskScore(rule.severity, id, rule.rule_id)
           IN  /\ rule.severity \in Severities
               /\ rule.severity = "Critical" => score \in 82..98
               /\ rule.severity = "High" => score \in 62..78
               /\ rule.severity = "Medium" => score \in 37..53
               /\ rule.severity = "Low" => score \in 12..28
<1>1. rule.severity \in Severities
  BY RulesAssumption DEF Rule
<1>2. StableJitter(id, rule.rule_id) \in -8..8
  <2>1. rule.rule_id \in RuleIds
    BY DEF RuleIds
  <2> QED
    BY <2>1, RulesAssumption, Zenon DEF StableJitter
<1>3. ASSUME NEW n \in 0..100 PROVE Clamp(n) = n
  BY DEF Clamp
<1>4. /\ _SEVERITY_BASE_SCORE["Critical"] = 90 /\ _SEVERITY_BASE_SCORE["High"] = 70
      /\ _SEVERITY_BASE_SCORE["Medium"] = 45 /\ _SEVERITY_BASE_SCORE["Low"] = 20
  BY Zenon DEF _SEVERITY_BASE_SCORE, Severities
<1> QED
  BY <1>1, <1>2, <1>3, <1>4 DEF RiskScore, Severities

\* How the scorer leaves a finding.
Scored(f) ==
    \E id \in Ids \cup {Null}, rule \in Rules :
        /\ f.severity = rule.severity
        /\ f.risk_score = RiskScore(rule.severity, id, rule.rule_id)
        /\ f.is_anomaly = (f.risk_score >= _ANOMALY_THRESHOLD)

\* Every finding of the engine carries the score of its severity.
LEMMA FindingsAreScored ==
    ASSUME NEW r, r.resource_id \in Ids \cup {None, Null}, NEW i, NEW rule \in Rules
    PROVE  Scored(FindingOf(r, i, rule))
<1>1. (IF r.resource_id = None THEN Unknown ELSE r.resource_id) \in Ids \cup {Null}
  BY RulesAssumption
<1> QED
  BY <1>1 DEF Scored, FindingOf

\* Two scored findings stand in the order of their severities.
LEMMA ScoresAreOrdered ==
    ASSUME NEW f, NEW g, Scored(f), Scored(g)
    PROVE  /\ SeverityOrder[f.severity] > SeverityOrder[g.severity] => f.risk_score > g.risk_score
           /\ f.is_anomaly => f.severity = "Critical"
<1>1. /\ SeverityOrder["Critical"] = 4 /\ SeverityOrder["High"] = 3
      /\ SeverityOrder["Medium"] = 2 /\ SeverityOrder["Low"] = 1
  BY DEF SeverityOrder, Severities
<1>2. ASSUME NEW h, Scored(h)
      PROVE  /\ h.severity \in Severities
             /\ h.severity = "Critical" => h.risk_score \in 82..98
             /\ h.severity = "High" => h.risk_score \in 62..78
             /\ h.severity = "Medium" => h.risk_score \in 37..53
             /\ h.severity = "Low" => h.risk_score \in 12..28
             /\ h.is_anomaly = (h.risk_score >= 85)
  BY <1>2, ScoreRanges DEF Scored, _ANOMALY_THRESHOLD
<1>3. /\ f.severity \in Severities /\ g.severity \in Severities
      /\ f.is_anomaly => f.risk_score >= 85
  BY <1>2
<1>4. f.is_anomaly => f.severity = "Critical"
  BY <1>2, <1>3 DEF Severities
<1>5. SeverityOrder[f.severity] > SeverityOrder[g.severity] => f.risk_score > g.risk_score
  BY <1>1, <1>2, <1>3 DEF Severities
<1> QED
  BY <1>4, <1>5

--------------------------------------------------------------------------------
\* Between two calls about one name, what the first has answered was true.
PartWasRead ==
    part # NoPart =>
        /\ call = "iam" => \E w \in seen : /\ part.name \in DOMAIN Account[w].policies
                                           /\ part.answer = Account[w].policies[part.name]
        /\ call = "roles" => \E w \in seen : /\ part.name \in DOMAIN Account[w].roles
                                             /\ part.answer = Account[w].roles[part.name].policies

(***************************************************************************)
(* What a collection knows: readings of the moments it has seen, the       *)
(* present one among them while it runs.                                   *)
(***************************************************************************)
Gathered ==
    /\ resources \in Seq(Readings(seen))
    /\ call \in Services => cloud \in seen
    /\ PartWasRead

\* An element that is a reading keeps the collection one of readings.
LEMMA AppendReading ==
    ASSUME NEW W, NEW s \in Seq(Readings(W)), NEW r \in Readings(W)
    PROVE  Append(s, r) \in Seq(Readings(W))
  BY AppendProperties

\* Readings of one moment, in any order.
LEMMA DescribeReadings ==
    ASSUME NEW W, W \subseteq Worlds, NEW w \in W, NEW s \in Seq(Readings(W))
    PROVE  /\ \A order \in Orders(DOMAIN Account[w].groups) :
                s \o [i \in DOMAIN order |->
                        MapSecurityGroup(order[i], Account[w].groups[order[i]])]
                  \in Seq(Readings(W))
           /\ \A order \in Orders(DOMAIN Account[w].instances) :
                s \o [i \in DOMAIN order |->
                        MapEc2Instance(order[i], Account[w].instances[order[i]])]
                  \in Seq(Readings(W))
<1>1. ASSUME NEW S, IsFiniteSet(S), NEW order \in Orders(S)
      PROVE  \E n \in Nat : order \in [1..n -> S]
  BY <1>1, FS_CardinalityType DEF Orders
<1>2. w \in Worlds
  OBVIOUS
<1>3. /\ IsFiniteSet(DOMAIN Account[w].groups) /\ IsFiniteSet(DOMAIN Account[w].instances)
  BY <1>2, WorldsAssumption DEF IsWorld, IsPartial
<1>4. ASSUME NEW order \in Orders(DOMAIN Account[w].groups)
      PROVE  s \o [i \in DOMAIN order |->
                     MapSecurityGroup(order[i], Account[w].groups[order[i]])] \in Seq(Readings(W))
  <2> DEFINE new == [i \in DOMAIN order |->
                       MapSecurityGroup(order[i], Account[w].groups[order[i]])]
  <2>1. PICK n \in Nat : order \in [1..n -> DOMAIN Account[w].groups]
    BY <1>1, <1>3
  <2>2. \A i \in 1..n : new[i] \in Readings(W)
    BY <2>1 DEF Readings, SecurityGroups
  <2>3. new \in [1..n -> Readings(W)]
    BY <2>1, <2>2
  <2> HIDE DEF new
  <2>4. new \in Seq(Readings(W))
    BY <2>3, SeqDef
  <2> QED
    BY <2>4, ConcatProperties DEF new
<1>5. ASSUME NEW order \in Orders(DOMAIN Account[w].instances)
      PROVE  s \o [i \in DOMAIN order |->
                     MapEc2Instance(order[i], Account[w].instances[order[i]])] \in Seq(Readings(W))
  <2> DEFINE new == [i \in DOMAIN order |->
                       MapEc2Instance(order[i], Account[w].instances[order[i]])]
  <2>1. PICK n \in Nat : order \in [1..n -> DOMAIN Account[w].instances]
    BY <1>1, <1>3
  <2>2. \A i \in 1..n : new[i] \in Readings(W)
    BY <2>1 DEF Readings, Instances
  <2>3. new \in [1..n -> Readings(W)]
    BY <2>1, <2>2
  <2> HIDE DEF new
  <2>4. new \in Seq(Readings(W))
    BY <2>3, SeqDef
  <2> QED
    BY <2>4, ConcatProperties DEF new
<1> QED
  BY <1>4, <1>5

\* Whatever call is made, and however it ends, only readings are collected.
LEMMA CollectGathers ==
    ASSUME cloud \in Worlds, seen \subseteq Worlds, Gathered, Collect, UNCHANGED account
    PROVE  Gathered' /\ seen' = seen /\ call' \in Services \cup {"done", "escaped"}
<1> USE DEF account
<1>1. cloud' = cloud
  OBVIOUS
<1>2. /\ seen' = seen /\ call \in Services /\ call' \in Services \cup {"done", "escaped"}
  BY DEF Collect, ListBuckets, ListPage, ListingFails, EndOfListing, GetBucketAcl, GetPolicy,
         ListAttachedRolePolicies, ReadFails, GetPolicyVersion, ListInstanceProfiles,
         DescribeGroups, DescribeInstances, DescribeFails, Escape, NextService, Following, Services
<1>3. cloud \in seen /\ PartWasRead /\ resources \in Seq(Readings(seen))
  BY <1>2 DEF Gathered
<1>4. resources' \in Seq(Readings(seen))
  <2>1. ASSUME NEW b \in Ids, GetBucketAcl(b)
        PROVE  MapS3Bucket(b, Account[cloud].buckets[b]) \in Readings(seen)
    BY <1>3, <2>1 DEF GetBucketAcl, Names, Field, Readings, Buckets
  <2>2. CASE \E b \in Ids : GetBucketAcl(b)
    BY <1>3, <2>1, <2>2, AppendReading DEF GetBucketAcl
  <2>3. CASE GetPolicyVersion
    <3>1. CASE part.answer.readable
      <4>1. PICK w \in seen : /\ part.name \in DOMAIN Account[w].policies
                              /\ part.answer = Account[w].policies[part.name]
        BY <1>3, <2>3 DEF PartWasRead, GetPolicyVersion
      <4>2. Decodes(part.answer)
        BY <2>3, <3>1 DEF GetPolicyVersion, Decodes
      <4>3. MapIamPolicy(part.name, part.answer) \in Readings(seen)
        BY <4>1, <4>2 DEF Readings, Policies
      <4> QED
        BY <1>3, <2>3, <3>1, <4>3, AppendReading DEF GetPolicyVersion
    <3> QED
      BY <1>3, <2>3, <3>1 DEF GetPolicyVersion
  <2>4. CASE ListInstanceProfiles
    <3>1. PICK v \in seen : /\ part.name \in DOMAIN Account[v].roles
                            /\ part.answer = Account[v].roles[part.name].policies
      BY <1>3, <2>4 DEF PartWasRead, ListInstanceProfiles
    <3>2. part.name \in DOMAIN Account[cloud].roles
      BY <2>4 DEF ListInstanceProfiles, Names, Field
    <3>3. MapRoleAttachment(part.name, part.answer,
                            ProfileRecords(Account[cloud].roles[part.name].profiles)) \in Readings(seen)
      BY <1>3, <3>1, <3>2 DEF Readings, Roles
    <3> QED
      BY <1>3, <2>4, <3>3, AppendReading DEF ListInstanceProfiles
  <2>5. CASE DescribeGroups
    BY <1>3, <2>5, DescribeReadings DEF DescribeGroups, Names, Field
  <2>6. CASE DescribeInstances
    BY <1>3, <2>6, DescribeReadings DEF DescribeInstances, Names, Field
  <2>7. CASE Escape
    BY <2>7, EmptySeq DEF Escape
  <2>8. CASE resources' = resources
    BY <1>3, <2>8
  <2> QED
    BY <2>2, <2>3, <2>4, <2>5, <2>6, <2>7, <2>8
    DEF Collect, ListBuckets, ListPage, ListingFails, EndOfListing, GetPolicy,
        ListAttachedRolePolicies, ReadFails, DescribeFails
<1>5. PartWasRead'
  <2>1. CASE part' = NoPart
    BY <2>1 DEF PartWasRead
  <2>2. ASSUME NEW p \in Ids, GetPolicy(p) PROVE PartWasRead'
    BY <1>1, <1>2, <1>3, <2>2 DEF GetPolicy, PartWasRead, Names, Field
  <2>3. ASSUME NEW r \in Ids, ListAttachedRolePolicies(r) PROVE PartWasRead'
    BY <1>1, <1>2, <1>3, <2>3 DEF ListAttachedRolePolicies, PartWasRead, Names, Field
  <2>4. CASE part' = part /\ call' = call
    BY <1>2, <1>3, <2>4 DEF PartWasRead
  <2> QED
    BY <2>1, <2>2, <2>3, <2>4
    DEF Collect, ListBuckets, ListPage, ListingFails, EndOfListing, GetBucketAcl, ReadFails,
        GetPolicyVersion, ListInstanceProfiles, DescribeGroups, DescribeInstances,
        DescribeFails, Escape, NextService
<1> QED
  BY <1>1, <1>2, <1>3, <1>4, <1>5 DEF Gathered

\* A change of the account between two calls is a moment more.
LEMMA DriftGathers ==
    ASSUME cloud \in Worlds, seen \subseteq Worlds, Gathered, Drift
    PROVE  Gathered' /\ cloud' \in Worlds /\ seen' \subseteq Worlds /\ seen \subseteq seen'
<1>1. /\ cloud' \in Worlds /\ seen' \subseteq Worlds /\ seen \subseteq seen'
      /\ call' \in Services => cloud' \in seen'
      /\ UNCHANGED <<call, part, resources>>
  BY DEF Drift
<1>2. resources' \in Seq(Readings(seen'))
  BY <1>1, MoreReadings, SeqMonotonic DEF Gathered
<1>3. PartWasRead'
  BY <1>1 DEF Gathered, PartWasRead
<1> QED
  BY <1>1, <1>2, <1>3 DEF Gathered

\* A collection begins with nothing.
LEMMA StartGathers ==
    ASSUME StartCollection, UNCHANGED account
    PROVE  Gathered' /\ call' = "s3" /\ seen' = {cloud}
<1>1. <<>> \in Seq(Readings(seen'))
  BY EmptySeq
<1> QED
  BY <1>1 DEF StartCollection, Gathered, PartWasRead, account

--------------------------------------------------------------------------------
\* What LinksWereTrue says of one link.
LinkWasTrue(l, W) ==
    \/ /\ l.source = Internet /\ l.relationship = "EXPOSES"
       /\ \E v, w \in W : \E g \in DOMAIN Account[v].groups :
            /\ l.target \in DOMAIN Account[w].instances
            /\ g \in Account[w].instances[l.target].groups
            /\ Open(Account[v].groups[g])
    \/ /\ l.relationship = "ASSUMES"
       /\ \E v, w \in W :
            /\ l.source \in DOMAIN Account[v].instances /\ l.target \in DOMAIN Account[w].roles
            /\ Account[v].instances[l.source].profile \in Account[w].roles[l.target].profiles
    \/ /\ l.relationship = "HAS_PERMISSION"
       /\ \E w \in W : /\ l.source \in DOMAIN Account[w].roles
                       /\ \E a \in Account[w].roles[l.source].policies : ArnName[a] = l.target

\* The kind of a reading is known from its type.
LEMMA ReadingOfType ==
    ASSUME NEW W, W \subseteq Worlds, NEW r \in Readings(W)
    PROVE  /\ r.resource_type = "security_group" => r \in SecurityGroups(W)
           /\ r.resource_type = "ec2_instance" => r \in Instances(W)
           /\ r.resource_type = "iam_role" => r \in Roles(W)
           /\ r.buckets = {}
<1>1. r.buckets = {}
  <2>1. CASE r \in Buckets(W)
    BY <2>1 DEF Buckets, MapS3Bucket, Bare
  <2>2. CASE r \in Policies(W)
    BY <2>2 DEF Policies, MapIamPolicy, Bare
  <2>3. CASE r \in SecurityGroups(W)
    BY <2>3 DEF SecurityGroups, MapSecurityGroup, Bare
  <2>4. CASE r \in Instances(W)
    BY <2>4, InstanceFacts DEF Instances
  <2>5. CASE r \in Roles(W)
    BY <2>5, RoleFacts DEF Roles
  <2> QED
    BY <2>1, <2>2, <2>3, <2>4, <2>5 DEF Readings
<1> QED
  BY <1>1, ReadingKinds DEF Readings

\* A reading that is an instance was read as one.
LEMMA InstanceReading ==
    ASSUME NEW W, NEW r \in Instances(W)
    PROVE  \E w \in W : /\ r.resource_id \in DOMAIN Account[w].instances
                        /\ r.security_groups = Account[w].instances[r.resource_id].groups
                        /\ r.profile = Account[w].instances[r.resource_id].profile
  BY InstanceFacts DEF Instances

\* A reading that is a role was read as one.
LEMMA RoleReading ==
    ASSUME NEW W, NEW r \in Roles(W)
    PROVE  \E w \in W : /\ r.resource_id \in DOMAIN Account[w].roles
                        /\ r.policies = Account[w].roles[r.resource_id].policies
                        /\ r.profiles = {}
  BY RoleFacts DEF Roles

\* A reading that is a security group was read as one.
LEMMA GroupReading ==
    ASSUME NEW W, NEW r \in SecurityGroups(W)
    PROVE  \E w \in W : /\ r.resource_id \in DOMAIN Account[w].groups
                        /\ IsPublic(r) <=> Open(Account[w].groups[r.resource_id])
<1>1. PICK w \in W : \E n \in DOMAIN Account[w].groups :
                        r = MapSecurityGroup(n, Account[w].groups[n])
  BY DEF SecurityGroups
<1>2. PICK n \in DOMAIN Account[w].groups : r = MapSecurityGroup(n, Account[w].groups[n])
  BY <1>1
<1> DEFINE permissions == Account[w].groups[n]
<1>3. r.resource_id = n
  BY <1>2, BareFacts DEF MapSecurityGroup
<1>4. r.at["ingress.cidr"] = IF permissions = <<>> \/ permissions[1] = <<>>
                             THEN Empty ELSE permissions[1][1]
  BY <1>2, BareFacts, PathsAssumption DEF MapSecurityGroup
<1>5. Empty # Anywhere
  BY WorldsAssumption
<1>6. IsPublic(r) <=> Open(permissions)
  BY <1>4, <1>5 DEF IsPublic, Open
<1> QED
  BY <1>3, <1>6

(***************************************************************************)
(* The edges of readings were true, one side at a time.                    *)
(***************************************************************************)
LEMMA EdgesWereTrue ==
    ASSUME NEW W, W \subseteq Worlds, NEW n \in Nat, NEW rs, DOMAIN rs \subseteq 1..n,
           \A i \in DOMAIN rs : rs[i] \in Readings(W),
           NEW l \in Links(rs)
    PROVE  LinkWasTrue(l, W)
<1>1. PICK e \in Assumes(rs) \cup Permissions(rs) \cup Accesses(rs) \cup Exposures(rs) :
         l = [source |-> e.source, target |-> e.target, relationship |-> e.relationship]
  BY DEF Links, BuildEdges
<1>2. ASSUME NEW i \in DOMAIN rs
      PROVE  /\ rs[i].resource_type = "security_group" => rs[i] \in SecurityGroups(W)
             /\ rs[i].resource_type = "ec2_instance" => rs[i] \in Instances(W)
             /\ rs[i].resource_type = "iam_role" => rs[i] \in Roles(W)
             /\ rs[i].buckets = {}
  BY ReadingOfType
<1>3. CASE e \in Assumes(rs)
  <2>1. PICK i \in Named(rs, "ec2_instance") :
          /\ RolesWith(rs, rs[i].profile) # {}
          /\ e = Edge(i, rs[i].resource_id,
                      rs[LastOf(RolesWith(rs, rs[i].profile))].resource_id, "ASSUMES")
    BY <1>3 DEF Assumes
  <2>2. \A j \in Named(rs, "iam_role") : rs[j].profiles = {}
    BY <1>2, RoleReading DEF Named, OfType
  <2> QED
    BY <2>1, <2>2 DEF RolesWith
<1>4. CASE e \in Permissions(rs)
  <2>1. PICK i \in Named(rs, "iam_role") :
          \E a \in rs[i].policies : e = Edge(i, rs[i].resource_id, ArnName[a], "HAS_PERMISSION")
    BY <1>4 DEF Permissions
  <2>2. PICK a \in rs[i].policies : e = Edge(i, rs[i].resource_id, ArnName[a], "HAS_PERMISSION")
    BY <2>1
  <2>3. rs[i] \in Roles(W)
    BY <1>2 DEF Named, OfType
  <2>4. PICK w \in W : /\ rs[i].resource_id \in DOMAIN Account[w].roles
                       /\ rs[i].policies = Account[w].roles[rs[i].resource_id].policies
    BY <2>3, RoleReading
  <2>5. /\ l.source = rs[i].resource_id /\ l.target = ArnName[a]
        /\ l.relationship = "HAS_PERMISSION"
    BY <1>1, <2>2 DEF Edge
  <2> QED
    BY <2>2, <2>4, <2>5 DEF LinkWasTrue
<1>5. CASE e \in Accesses(rs)
  BY <1>2, <1>5 DEF Accesses, Named, OfType
<1>6. CASE e \in Exposures(rs)
  <2>1. PICK i \in Named(rs, "security_group") :
          /\ IsPublic(rs[i])
          /\ \E j \in {k \in OfType(rs, "ec2_instance") : rs[i].resource_id \in rs[k].security_groups} :
                e = Edge(i, Internet, rs[j].resource_id, "EXPOSES")
    BY <1>6 DEF Exposures
  <2>2. PICK j \in OfType(rs, "ec2_instance") :
          /\ rs[i].resource_id \in rs[j].security_groups
          /\ e = Edge(i, Internet, rs[j].resource_id, "EXPOSES")
    BY <2>1
  <2>3. rs[i] \in SecurityGroups(W) /\ rs[j] \in Instances(W)
    BY <1>2 DEF Named, OfType
  <2>4. PICK v \in W : /\ rs[i].resource_id \in DOMAIN Account[v].groups
                       /\ Open(Account[v].groups[rs[i].resource_id])
    BY <2>1, <2>3, GroupReading
  <2>5. PICK w \in W : /\ rs[j].resource_id \in DOMAIN Account[w].instances
                       /\ rs[j].security_groups = Account[w].instances[rs[j].resource_id].groups
    BY <2>3, InstanceReading
  <2>6. /\ l.source = Internet /\ l.target = rs[j].resource_id /\ l.relationship = "EXPOSES"
    BY <1>1, <2>2 DEF Edge
  <2> QED
    BY <2>2, <2>4, <2>5, <2>6 DEF LinkWasTrue
<1> QED
  BY <1>1, <1>3, <1>4, <1>5, <1>6

\* Resources that are mere names have no edges.
LEMMA NamesHaveNoLinks ==
    ASSUME NEW rs,
           \A i \in DOMAIN rs : \E id, type : rs[i] = Bare(id, type, <<>>)
    PROVE  Links(rs) = {}
<1>1. ASSUME NEW i \in DOMAIN rs
      PROVE  /\ rs[i].profile = None /\ rs[i].policies = {} /\ rs[i].buckets = {}
             /\ ~IsPublic(rs[i])
  <2>1. PICK id, type : rs[i] = Bare(id, type, <<>>)
    OBVIOUS
  <2>2. rs[i].at["ingress.cidr"] = None
    BY <2>1, BareFacts, PathsAssumption
  <2>3. Anywhere # None
    BY RulesAssumption
  <2> QED
    BY <2>1, <2>2, <2>3, BareFacts DEF IsPublic
<1>2. Assumes(rs) = {} /\ Permissions(rs) = {} /\ Accesses(rs) = {} /\ Exposures(rs) = {}
  BY <1>1 DEF Assumes, Permissions, Accesses, Exposures, Named, OfType
<1> QED
  BY <1>2 DEF Links, BuildEdges

--------------------------------------------------------------------------------
Moments == cloud \in Worlds /\ seen \subseteq Worlds /\ scanned \subseteq Worlds /\ file \in Files

(***************************************************************************)
(* A live scan has gathered readings; an uploaded one has never looked at  *)
(* the account, and its paths are made from mere names.                    *)
(***************************************************************************)
CollectionOK ==
    /\ kind = "LIVE" => Gathered
    /\ kind # "LIVE" => seen = {} /\ call \in {"idle", "done"}
    /\ stage = "new" => kind = "none"
    /\ stage = "collecting" => kind = "LIVE"
    /\ stage = "joining" /\ kind # "LIVE" =>
          \A i \in DOMAIN resources : \E id, type : resources[i] = Bare(id, type, <<>>)

AllScored == \A f \in findings : Scored(f)

IInv == Moments /\ CollectionOK /\ AllScored /\ FindingsWereTrue /\ LinksWereTrue

\* Nothing is collected, found or linked at first.
LEMMA InitIsIInv ==
    ASSUME Init
    PROVE  IInv
<1>1. file \in Files
  BY FilesAssumption DEF Init, InitParser
<1> QED
  BY <1>1 DEF Init, InitCollector, IInv, Moments, CollectionOK, AllScored, FindingsWereTrue,
              LinksWereTrue, HasFindings

\* The properties spell out what WasTrue says of findings.
LEMMA FindingsSpelled ==
    FindingsWereTrue <=> (HasFindings /\ kind = "LIVE" => \A f \in findings : WasTrue(f, scanned))
  BY DEF FindingsWereTrue, WasTrue

\* The same of links.
LEMMA LinksSpelled ==
    LinksWereTrue <=> (stage = "answered" => \A l \in answer.links : LinkWasTrue(l, seen))
  BY Zenon DEF LinksWereTrue, LinkWasTrue

\* More moments make no link false.
LEMMA LinksStayTrue ==
    ASSUME NEW V, NEW W, V \subseteq W, NEW l, LinkWasTrue(l, V)
    PROVE  LinkWasTrue(l, W)
<1>1. CASE /\ l.source = Internet /\ l.relationship = "EXPOSES"
           /\ \E v, w \in V : \E g \in DOMAIN Account[v].groups :
                /\ l.target \in DOMAIN Account[w].instances
                /\ g \in Account[w].instances[l.target].groups
                /\ Open(Account[v].groups[g])
  BY <1>1 DEF LinkWasTrue
<1>2. CASE /\ l.relationship = "ASSUMES"
           /\ \E v, w \in V :
                /\ l.source \in DOMAIN Account[v].instances /\ l.target \in DOMAIN Account[w].roles
                /\ Account[v].instances[l.source].profile \in Account[w].roles[l.target].profiles
  BY <1>2 DEF LinkWasTrue
<1>3. CASE /\ l.relationship = "HAS_PERMISSION"
           /\ \E w \in V : /\ l.source \in DOMAIN Account[w].roles
                           /\ \E a \in Account[w].roles[l.source].policies : ArnName[a] = l.target
  BY <1>3 DEF LinkWasTrue
<1> QED
  BY <1>1, <1>2, <1>3, Zenon DEF LinkWasTrue

\* Findings and answer stay while the stage does and moments are added.
LEMMA TellsTheSame ==
    ASSUME AllScored, FindingsWereTrue, LinksWereTrue,
           UNCHANGED <<stage, kind, findings, scanned, answer>>, seen \subseteq seen'
    PROVE  AllScored' /\ FindingsWereTrue' /\ LinksWereTrue'
<1>1. AllScored' /\ FindingsWereTrue'
  BY DEF AllScored, Scored, FindingsWereTrue, HasFindings
<1>2. LinksWereTrue'
  <2>1. stage = "answered" => \A l \in answer.links : LinkWasTrue(l, seen)
    BY LinksSpelled
  <2>2. stage' = "answered" => \A l \in answer'.links : LinkWasTrue(l, seen')
    BY <2>1, LinksStayTrue
  <2> QED
    BY <2>2 DEF LinksWereTrue, LinkWasTrue
<1> QED
  BY <1>1, <1>2

\* Whatever the engine evaluates, it scores.
LEMMA EvaluateScores ==
    ASSUME NEW rs, \A i \in DOMAIN rs : rs[i].resource_id \in Ids \cup {None, Null}
    PROVE  \A f \in Evaluate(rs) : Scored(f)
  BY FindingsAreScored DEF Evaluate

\* What the engine finds in readings was true of them.
LEMMA EvaluateTellsTruth ==
    ASSUME NEW W, W \subseteq Worlds, NEW rs, \A i \in DOMAIN rs : rs[i] \in Readings(W)
    PROVE  \A f \in Evaluate(rs) : WasTrue(f, W)
  BY ReadingsWereTrue DEF Evaluate

\* Every step keeps the invariant.
LEMMA NextKeepsIInv ==
    ASSUME IInv, [Next]_vars
    PROVE  IInv'
<1> USE DEF IInv
<1>1. ASSUME NEW f \in Files, ReceiveUpload(f) PROVE IInv'
  <2>1. AllScored' /\ FindingsWereTrue' /\ LinksWereTrue'
    BY <1>1, TellsTheSame DEF ReceiveUpload, collector
  <2> QED
    BY <1>1, <2>1 DEF ReceiveUpload, Submit, Moments, CollectionOK, Gathered, PartWasRead,
                      account, collector
<1>2. CASE Parse \/ \E k \in 1..MaxUploads : RunWorker(k)
  <2>1. /\ UNCHANGED <<account, collector, stage, kind, findings, scanned, answer>>
        /\ file' = file
    BY <1>2 DEF Parse, RunWorker, ParseReturns, ParseTimesOut, WorkerEnds
  <2>2. AllScored' /\ FindingsWereTrue' /\ LinksWereTrue'
    BY <2>1, TellsTheSame DEF collector
  <2> QED
    BY <2>1, <2>2 DEF Moments, CollectionOK, Gathered, PartWasRead, account, collector
<1>3. CASE StoreUpload
  <2>1. \A i \in DOMAIN Content[file].doc : Content[file].doc[i].resource_id \in Ids \cup {None, Null}
    <3>1. Content[file].doc \in Seq(Resource)
      BY DocumentsAssumption DEF Moments
    <3>2. \A i \in DOMAIN Content[file].doc : Content[file].doc[i] \in Resource
      BY <3>1, ElementOfSeq, LenProperties
    <3> QED
      BY <3>2 DEF Resource
  <2>2. AllScored'
    BY <1>3, <2>1, EvaluateScores DEF StoreUpload, AllScored
  <2>3. FindingsWereTrue' /\ LinksWereTrue'
    BY <1>3 DEF StoreUpload, FindingsWereTrue, LinksWereTrue
  <2>4. Moments' /\ CollectionOK'
    BY <1>3 DEF StoreUpload, Moments, CollectionOK, account, collector, parser
  <2> QED
    BY <2>2, <2>3, <2>4
<1>4. CASE StartCloudScan
  <2>1. Gathered' /\ seen' = {cloud}
    BY <1>4, StartGathers DEF StartCloudScan
  <2>2. AllScored' /\ FindingsWereTrue' /\ LinksWereTrue'
    BY <1>4 DEF StartCloudScan, AllScored, Scored, FindingsWereTrue, HasFindings, LinksWereTrue
  <2> QED
    BY <1>4, <2>1, <2>2 DEF StartCloudScan, Moments, CollectionOK, account, parser
<1>5. CASE CollectStep
  <2>1. kind = "LIVE"
    BY <1>5 DEF CollectStep, CollectionOK, Collect, ListBuckets, ListPage, ListingFails,
                EndOfListing, GetBucketAcl, GetPolicy, ListAttachedRolePolicies, ReadFails,
                GetPolicyVersion, ListInstanceProfiles, DescribeGroups, DescribeInstances,
                DescribeFails, Escape, Services
  <2>2. Gathered' /\ seen' = seen
    BY <1>5, <2>1, CollectGathers DEF CollectStep, CollectionOK, Moments
  <2>3. AllScored' /\ FindingsWereTrue' /\ LinksWereTrue'
    BY <1>5, <2>2, TellsTheSame DEF CollectStep
  <2> QED
    BY <1>5, <2>1, <2>2, <2>3 DEF CollectStep, Moments, CollectionOK, account, parser
<1>6. CASE StoreCloudScan
  <2>1. resources \in Seq(Readings(seen)) /\ seen \subseteq Worlds
    BY <1>6 DEF StoreCloudScan, CollectionOK, Gathered, Moments
  <2>2. \A i \in DOMAIN resources : resources[i] \in Readings(seen)
    BY <2>1, ElementOfSeq, LenProperties
  <2>3. AllScored'
    <3>1. \A i \in DOMAIN resources : resources[i].resource_id \in Ids \cup {None, Null}
      BY <2>1, <2>2, ReadingKinds
    <3> QED
      BY <1>6, <3>1, EvaluateScores DEF StoreCloudScan, AllScored
  <2>4. FindingsWereTrue'
    <3>1. \A f \in findings' : WasTrue(f, scanned')
      BY <1>6, <2>1, <2>2, EvaluateTellsTruth DEF StoreCloudScan
    <3> QED
      BY <3>1 DEF FindingsWereTrue, WasTrue
  <2>5. LinksWereTrue'
    BY <1>6 DEF StoreCloudScan, LinksWereTrue
  <2>6. Moments' /\ CollectionOK'
    BY <1>6 DEF StoreCloudScan, Moments, CollectionOK, Gathered, PartWasRead, account, collector,
                parser
  <2> QED
    BY <2>3, <2>4, <2>5, <2>6
<1>7. CASE CloudScanFails
  <2>1. AllScored' /\ FindingsWereTrue' /\ LinksWereTrue'
    BY <1>7 DEF CloudScanFails, AllScored, Scored, FindingsWereTrue, HasFindings, LinksWereTrue
  <2> QED
    BY <1>7, <2>1 DEF CloudScanFails, Moments, CollectionOK, Gathered, PartWasRead, account,
                      collector, parser
<1>8. CASE AskForPaths
  <2>1. AllScored' /\ FindingsWereTrue' /\ LinksWereTrue'
    BY <1>8 DEF AskForPaths, AllScored, Scored, FindingsWereTrue, HasFindings, LinksWereTrue
  <2>2. CASE kind = "LIVE" /\ StartCollection
    <3>1. Gathered' /\ seen' = {cloud}
      BY <1>8, <2>2, StartGathers DEF AskForPaths
    <3> QED
      BY <1>8, <2>1, <2>2, <3>1 DEF AskForPaths, Moments, CollectionOK, account, parser
  <2>3. CASE kind = "STATIC" /\ ~(kind = "LIVE" /\ StartCollection)
    <3>1. \A i \in DOMAIN resources' : \E id, type : resources'[i] = Bare(id, type, <<>>)
      BY <1>8, <2>3 DEF AskForPaths
    <3> QED
      BY <1>8, <2>1, <2>3, <3>1 DEF AskForPaths, Moments, CollectionOK, account, parser
  <2> QED
    BY <1>8, <2>2, <2>3 DEF AskForPaths
<1>9. CASE AnswerPaths
  <2> DEFINE rs == IF call = "escaped" THEN <<>> ELSE Deduplicate(resources)
  <2>1. answer'.links = Links(rs)
    BY <1>9 DEF AnswerPaths, AttackPathResponse
  <2>2. \A i \in DOMAIN rs : i \in DOMAIN resources /\ rs[i] = resources[i]
    BY DEF Deduplicate
  <2>3. ASSUME kind = "LIVE" PROVE LinksWereTrue'
    <3>1. resources \in Seq(Readings(seen)) /\ seen \subseteq Worlds
      BY <2>3 DEF CollectionOK, Gathered, Moments
    <3>2. Len(resources) \in Nat /\ DOMAIN resources = 1..Len(resources)
      BY <3>1, LenProperties
    <3>3. DOMAIN rs \subseteq 1..Len(resources) /\ \A i \in DOMAIN rs : rs[i] \in Readings(seen)
      BY <2>2, <3>1, <3>2, ElementOfSeq
    <3> HIDE DEF rs
    <3>4. \A l \in Links(rs) : LinkWasTrue(l, seen)
      BY <3>1, <3>2, <3>3, EdgesWereTrue
    <3>5. \A l \in answer'.links : LinkWasTrue(l, seen')
      BY <1>9, <2>1, <3>4 DEF AnswerPaths, collector
    <3> QED
      BY <3>5 DEF LinksWereTrue, LinkWasTrue
  <2>4. ASSUME kind # "LIVE" PROVE LinksWereTrue'
    <3>1. \A i \in DOMAIN rs : \E id, type : rs[i] = Bare(id, type, <<>>)
      BY <1>9, <2>2, <2>4 DEF AnswerPaths, CollectionOK
    <3> HIDE DEF rs
    <3>2. answer'.links = {}
      BY <2>1, <3>1, NamesHaveNoLinks
    <3> QED
      BY <3>2 DEF LinksWereTrue
  <2>5. AllScored' /\ FindingsWereTrue'
    BY <1>9 DEF AnswerPaths, AllScored, Scored, FindingsWereTrue, HasFindings
  <2>6. Moments' /\ CollectionOK'
    BY <1>9 DEF AnswerPaths, Moments, CollectionOK, Gathered, PartWasRead, account, collector,
                parser
  <2> QED
    BY <2>3, <2>4, <2>5, <2>6
<1>10. CASE DriftStep
  <2>1. UNCHANGED <<parser, stage, kind, findings, scanned, answer, call, resources, part>>
    BY <1>10 DEF DriftStep, Drift
  <2>2. CASE kind = "LIVE"
    <3>1. Gathered' /\ cloud' \in Worlds /\ seen' \subseteq Worlds /\ seen \subseteq seen'
      BY <1>10, <2>2, DriftGathers DEF DriftStep, Moments, CollectionOK
    <3>2. AllScored' /\ FindingsWereTrue' /\ LinksWereTrue'
      BY <2>1, <3>1, TellsTheSame
    <3>3. Moments'
      BY <2>1, <3>1 DEF Moments, parser
    <3>4. CollectionOK'
      <4> HIDE DEF IInv
      <4>1. CollectionOK
        BY DEF IInv
      <4> QED
        BY <2>1, <2>2, <3>1, <4>1 DEF CollectionOK
    <3> QED
      BY <3>2, <3>3, <3>4
  <2>3. CASE kind # "LIVE"
    <3>1. cloud' \in Worlds /\ seen' = {} /\ seen = {}
      BY <1>10, <2>3 DEF DriftStep, Drift, CollectionOK, Services
    <3>2. AllScored' /\ FindingsWereTrue' /\ LinksWereTrue'
      BY <2>1, <3>1, TellsTheSame
    <3>3. Moments'
      BY <2>1, <3>1 DEF Moments, parser
    <3>4. CollectionOK'
      <4> HIDE DEF IInv
      <4>1. CollectionOK
        BY DEF IInv
      <4> QED
        BY <2>1, <2>3, <3>1, <4>1 DEF CollectionOK
    <3> QED
      BY <3>2, <3>3, <3>4
  <2> QED
    BY <2>2, <2>3
<1>11. CASE UNCHANGED vars
  <2>1. AllScored' /\ FindingsWereTrue' /\ LinksWereTrue'
    BY <1>11, TellsTheSame DEF vars, collector
  <2> QED
    BY <1>11, <2>1 DEF vars, Moments, CollectionOK, Gathered, PartWasRead, account, collector,
                       parser
<1> QED
  BY <1>1, <1>2, <1>3, <1>4, <1>5, <1>6, <1>7, <1>8, <1>9, <1>10, <1>11 DEF Next

\* The invariant holds always.
LEMMA AlwaysIInv == Spec => []IInv
<1>1. Init => IInv
  BY InitIsIInv
<1>2. IInv /\ [Next]_vars => IInv'
  BY NextKeepsIInv
<1> QED
  BY <1>1, <1>2, PTL DEF Spec

(***************************************************************************)
(* Every finding of a live scan was true of the account at some moment of  *)
(* its collection (collector.py, resource_mapper.py, rule_engine.py).      *)
(***************************************************************************)
THEOREM FindingsTrue == Spec => []FindingsWereTrue
<1>1. IInv => FindingsWereTrue
  BY DEF IInv
<1> QED
  BY <1>1, AlwaysIInv, PTL

(***************************************************************************)
(* Whatever the digests are, scores keep the order of severities and only  *)
(* Critical is an anomaly (ml/scorer.py).                                  *)
(***************************************************************************)
THEOREM ScoresOrdered == Spec => []ScoresFollowSeverity
<1>1. IInv => ScoresFollowSeverity
  BY ScoresAreOrdered DEF IInv, AllScored, ScoresFollowSeverity
<1> QED
  BY <1>1, AlwaysIInv, PTL

(***************************************************************************)
(* Every relation that the attack paths of a scan tell of was true, each   *)
(* side at its own moment (attack_paths/edges.py, graph.py, routes.py).    *)
(***************************************************************************)
THEOREM LinksTrue == Spec => []LinksWereTrue
<1>1. IInv => LinksWereTrue
  BY DEF IInv
<1> QED
  BY <1>1, AlwaysIInv, PTL

--------------------------------------------------------------------------------
(***************************************************************************)
(* That nothing is missing: name by name, how far the collection has come. *)
(***************************************************************************)
Before ==
    [s3 |-> {}, iam |-> {"s3"}, sg |-> {"s3", "iam"}, ec2 |-> {"s3", "iam", "sg"},
     roles |-> {"s3", "iam", "sg", "ec2"}, done |-> Services]

Collected(service, n) ==
    \E i \in DOMAIN resources :
        resources[i].resource_id = n /\ resources[i].resource_type = TypeOf[service]

\* What FailuresCostTheirPart asks to be collected.
Owed(service, n) ==
    /\ Unfailed(service, n) /\ AllAlong(Field[service], n)
    /\ service = "iam" => \A w \in seen : Account[w].policies[n].readable

\* A name of the service being read is listed in time, and then in hand or collected.
Progress ==
    call \in Services \cup {"done"} =>
        \A service \in Services, n \in Ids : Owed(service, n) =>
            /\ service \in Before[call] => Collected(service, n)
            /\ service = call =>
                  /\ listing = "closed" => n \in listed
                  /\ n \in listed => \/ n \in todo
                                     \/ part # NoPart /\ part.name = n
                                     \/ Collected(service, n)

\* What comes before the next name is the name passed and what came before it.
LEMMA BeforeFollowing ==
    /\ \A c \in Services : /\ Following[c] \in Services \cup {"done"}
                           /\ Before[Following[c]] = Before[c] \cup {c}
                           /\ Following[c] # c /\ c \notin Before[c]
    /\ Before["s3"] = {} /\ Before["done"] = Services
  BY DEF Before, Following, Services

\* Appending keeps what was collected, and collects the resource appended.
LEMMA AppendCollects ==
    ASSUME NEW S, resources \in Seq(S), NEW r \in S, resources' = Append(resources, r),
           NEW service, NEW n
    PROVE  /\ Collected(service, n) => Collected(service, n)'
           /\ r.resource_id = n /\ r.resource_type = TypeOf[service] => Collected(service, n)'
<1>1. /\ Len(resources) \in Nat /\ DOMAIN resources = 1..Len(resources)
      /\ resources' \in Seq(S) /\ Len(resources') = Len(resources) + 1
      /\ \A i \in 1..Len(resources) : resources'[i] = resources[i]
      /\ resources'[Len(resources) + 1] = r
  BY LenProperties, AppendProperties
<1>2. DOMAIN resources' = 1..(Len(resources) + 1)
  BY <1>1, LenProperties
<1> QED
  BY <1>1, <1>2 DEF Collected

\* So does concatenation.
LEMMA ConcatCollects ==
    ASSUME NEW S, resources \in Seq(S), NEW new \in Seq(S), resources' = resources \o new,
           NEW service, NEW n
    PROVE  /\ Collected(service, n) => Collected(service, n)'
           /\ \A j \in DOMAIN new :
                 new[j].resource_id = n /\ new[j].resource_type = TypeOf[service]
                    => Collected(service, n)'
<1>1. /\ Len(resources) \in Nat /\ DOMAIN resources = 1..Len(resources)
      /\ Len(new) \in Nat /\ DOMAIN new = 1..Len(new)
      /\ resources' \in Seq(S) /\ Len(resources') = Len(resources) + Len(new)
      /\ \A i \in 1 .. Len(resources) + Len(new) :
            resources'[i] = IF i <= Len(resources) THEN resources[i] ELSE new[i - Len(resources)]
  BY LenProperties, ConcatProperties
<1>2. DOMAIN resources' = 1 .. Len(resources) + Len(new)
  BY <1>1, LenProperties
<1>3. Collected(service, n) => Collected(service, n)'
  BY <1>1, <1>2 DEF Collected
<1>4. ASSUME NEW j \in DOMAIN new, new[j].resource_id = n, new[j].resource_type = TypeOf[service]
      PROVE  Collected(service, n)'
  <2>1. /\ Len(resources) + j \in 1 .. Len(resources) + Len(new)
        /\ ~(Len(resources) + j <= Len(resources)) /\ (Len(resources) + j) - Len(resources) = j
    BY <1>1
  <2>2. resources'[Len(resources) + j] = new[j]
    BY <1>1, <2>1
  <2> QED
    BY <1>2, <1>4, <2>1, <2>2 DEF Collected
<1> QED
  BY <1>3, <1>4

\* An order of finitely many names leaves none out.
LEMMA OrdersCover ==
    ASSUME NEW S, IsFiniteSet(S), NEW order \in Orders(S), NEW n \in S
    PROVE  \E i \in DOMAIN order : order[i] = n
<1>1. Cardinality(S) \in Nat
  BY FS_CardinalityType
<1>2. order \in Injection(1..Cardinality(S), S)
  BY <1>1 DEF Orders, Injection, IsInjective
<1>3. IsFiniteSet(1..Cardinality(S)) /\ Cardinality(1..Cardinality(S)) = Cardinality(S)
  BY <1>1, FS_Interval
<1>4. order \in Surjection(1..Cardinality(S), S)
  BY <1>2, <1>3, FS_Injection
<1> QED
  BY <1>4 DEF Surjection

(***************************************************************************)
(* Each call keeps the account of the names: it fails and is noted, or     *)
(* what it was about is collected or in hand.                              *)
(***************************************************************************)
LEMMA CollectProgress ==
    ASSUME cloud \in Worlds, seen \subseteq Worlds, Gathered, Progress, Collect, UNCHANGED account
    PROVE  Progress'
<1> USE DEF account
<1>1. /\ call \in Services /\ seen' = seen /\ cloud' = cloud
      /\ failed \subseteq failed'
      /\ cloud \in seen /\ PartWasRead /\ resources \in Seq(Readings(seen))
  BY DEF Gathered, Swallow, Collect, ListBuckets, ListPage, ListingFails, EndOfListing, GetBucketAcl,
         GetPolicy, ListAttachedRolePolicies, ReadFails, GetPolicyVersion, ListInstanceProfiles,
         DescribeGroups, DescribeInstances, DescribeFails, Escape, Services
<1> SUFFICES ASSUME call' \in Services \cup {"done"}, NEW service \in Services, NEW n \in Ids,
                    Owed(service, n)'
             PROVE  /\ service \in Before[call'] => Collected(service, n)'
                    /\ service = call' =>
                          /\ listing' = "closed" => n \in listed'
                          /\ n \in listed' => \/ n \in todo'
                                              \/ part' # NoPart /\ part'.name = n
                                              \/ Collected(service, n)'
  BY DEF Progress
<1>2. Owed(service, n) /\ n \in Names(service)
  BY <1>1 DEF Owed, Unfailed, AllAlong, Names
<1>3. <<service, n>> \notin failed' /\ <<service, None>> \notin failed'
  BY DEF Owed, Unfailed
<1>4. /\ service \in Before[call] => Collected(service, n)
      /\ service = call =>
            /\ listing = "closed" => n \in listed
            /\ n \in listed => \/ n \in todo
                               \/ part # NoPart /\ part.name = n
                               \/ Collected(service, n)
  BY <1>1, <1>2 DEF Progress
<1>5. n # None
  BY RulesAssumption
<1> DEFINE Kept == Collected(service, n) => Collected(service, n)'
<1>6. resources' = resources => Kept
  BY DEF Collected
\* The service is left: whatever it owed is collected.
<1>7. ASSUME NextService, Kept, service = call => Collected(service, n)'
      PROVE  /\ service \in Before[call'] => Collected(service, n)'
             /\ service = call' => listing' = "open" /\ listed' = {}
  BY <1>1, <1>4, <1>7, BeforeFollowing DEF NextService
<1>8. CASE ListBuckets
  BY <1>2, <1>4, <1>6, <1>8 DEF ListBuckets
<1>9. CASE ListPage
  <2>1. PICK page \in SUBSET (Names(call) \ listed) :
          /\ listed' = listed \cup page /\ todo' = page
          /\ listing' = IF Names(call) \subseteq listed \cup page THEN "closed" ELSE "open"
    BY <1>9 DEF ListPage
  <2> QED
    BY <1>2, <1>4, <1>6, <1>9, <2>1 DEF ListPage
<1>10. CASE ListingFails \/ DescribeFails
  <2>1. NextService /\ resources' = resources /\ <<call, None>> \in failed'
    BY <1>10 DEF ListingFails, DescribeFails, Swallow
  <2>2. service # call
    BY <1>3, <2>1
  <2> QED
    BY <1>6, <1>7, <2>1, <2>2
<1>11. CASE EndOfListing
  <2>1. service = call => Collected(service, n)
    BY <1>4, <1>11 DEF EndOfListing
  <2> QED
    BY <1>6, <1>7, <1>11, <2>1 DEF EndOfListing
<1>12. ASSUME NEW b \in Ids, GetBucketAcl(b)
       PROVE  /\ Kept /\ call' = call /\ listed' = listed /\ listing' = listing /\ part' = part
              /\ service = call /\ n \in todo => n \in todo' \/ Collected(service, n)'
  <2> DEFINE r == MapS3Bucket(b, Account[cloud].buckets[b])
  <2>1. r \in Readings(seen)
    BY <1>1, <1>12 DEF GetBucketAcl, Names, Field, Readings, Buckets
  <2>2. r.resource_id = b /\ r.resource_type = TypeOf["s3"]
    BY DEF MapS3Bucket, Bare, TypeOf
  <2>3. resources' = Append(resources, r) /\ call = "s3" /\ todo' = todo \ {b}
    BY <1>12 DEF GetBucketAcl
  <2> HIDE DEF r
  <2>4. Kept /\ (service = call /\ n = b => Collected(service, n)')
    BY <1>1, <2>1, <2>2, <2>3, AppendCollects
  <2> QED
    BY <1>12, <2>3, <2>4 DEF GetBucketAcl
<1>13. ASSUME NEW p \in Ids, GetPolicy(p) \/ ListAttachedRolePolicies(p)
       PROVE  /\ Kept /\ call' = call /\ listed' = listed /\ listing' = listing /\ part = NoPart
              /\ n \in todo => n \in todo' \/ (part' # NoPart /\ part'.name = n)
  <2>1. /\ part' # NoPart /\ part'.name = p /\ todo' = todo \ {p} /\ resources' = resources
        /\ call' = call /\ listed' = listed /\ listing' = listing /\ part = NoPart
    <3>1. p # None
      BY RulesAssumption
    <3> QED
      BY <1>13, <3>1 DEF GetPolicy, ListAttachedRolePolicies, NoPart
  <2> QED
    BY <1>6, <2>1
<1>14. ASSUME GetPolicyVersion
       PROVE  /\ Kept /\ call' = call /\ listed' = listed /\ listing' = listing /\ todo' = todo
              /\ service = call /\ part.name = n => Collected(service, n)'
  <2>1. PICK w \in seen : /\ part.name \in DOMAIN Account[w].policies
                          /\ part.answer = Account[w].policies[part.name]
    BY <1>1, <1>14 DEF PartWasRead, GetPolicyVersion
  <2> DEFINE r == MapIamPolicy(part.name, part.answer)
  <2>2. r.resource_id = part.name /\ r.resource_type = TypeOf["iam"]
    BY DEF MapIamPolicy, Bare, TypeOf
  <2>3. part.answer.readable => r \in Readings(seen)
    BY <1>14, <2>1 DEF GetPolicyVersion, Decodes, Readings, Policies
  <2>4. call = "iam" /\ (part.answer.readable => resources' = Append(resources, r))
    BY <1>14 DEF GetPolicyVersion
  <2>5. service = call /\ part.name = n => part.answer.readable
    BY <1>2, <2>1, <2>4 DEF Owed
  <2> HIDE DEF r
  <2>6. part.answer.readable => Kept /\ (service = call /\ part.name = n => Collected(service, n)')
    BY <1>1, <2>2, <2>3, <2>4, AppendCollects
  <2>7. ~part.answer.readable => Kept
    BY <1>6, <1>14 DEF GetPolicyVersion
  <2> QED
    BY <1>14, <2>5, <2>6, <2>7 DEF GetPolicyVersion
<1>15. ASSUME ListInstanceProfiles
       PROVE  /\ Kept /\ call' = call /\ listed' = listed /\ listing' = listing /\ todo' = todo
              /\ service = call /\ part.name = n => Collected(service, n)'
  <2>1. PICK v \in seen : /\ part.name \in DOMAIN Account[v].roles
                          /\ part.answer = Account[v].roles[part.name].policies
    BY <1>1, <1>15 DEF PartWasRead, ListInstanceProfiles
  <2>2. part.name \in DOMAIN Account[cloud].roles
    BY <1>15 DEF ListInstanceProfiles, Names, Field
  <2> DEFINE r == MapRoleAttachment(part.name, part.answer,
                                    ProfileRecords(Account[cloud].roles[part.name].profiles))
  <2>3. r \in Readings(seen)
    BY <1>1, <2>1, <2>2 DEF Readings, Roles
  <2>4. r.resource_id = part.name /\ r.resource_type = TypeOf["roles"]
    BY RoleFacts DEF TypeOf
  <2>5. call = "roles" /\ resources' = Append(resources, r)
    BY <1>15 DEF ListInstanceProfiles
  <2> HIDE DEF r
  <2>6. Kept /\ (service = call /\ part.name = n => Collected(service, n)')
    BY <1>1, <2>3, <2>4, <2>5, AppendCollects
  <2> QED
    BY <1>15, <2>6 DEF ListInstanceProfiles
<1>16. ASSUME NEW m \in Ids, ReadFails(m)
       PROVE  /\ Kept /\ call' = call /\ listed' = listed /\ listing' = listing
              /\ service = call => n # m
              /\ IF part = NoPart THEN todo' = todo \ {m} ELSE part.name = m /\ todo' = todo \ {m}
  BY <1>3, <1>6, <1>16 DEF ReadFails, Swallow
<1>17. CASE \E b \in Ids : GetBucketAcl(b)
  BY <1>4, <1>12, <1>17
<1>18. CASE \E p \in Ids : GetPolicy(p) \/ ListAttachedRolePolicies(p)
  BY <1>4, <1>13, <1>18
<1>19. CASE GetPolicyVersion \/ ListInstanceProfiles
  BY <1>4, <1>14, <1>15, <1>19
<1>20. CASE \E m \in Ids : ReadFails(m)
  BY <1>4, <1>16, <1>20
<1>21. CASE DescribeGroups
  <2>1. PICK order \in Orders(Names("sg")) :
          resources' = resources \o [i \in DOMAIN order |->
                          MapSecurityGroup(order[i], Account[cloud].groups[order[i]])]
    BY <1>21 DEF DescribeGroups
  <2> DEFINE new == [i \in DOMAIN order |->
                       MapSecurityGroup(order[i], Account[cloud].groups[order[i]])]
  <2>2. Names("sg") = DOMAIN Account[cloud].groups /\ IsFiniteSet(Names("sg"))
    BY WorldsAssumption DEF IsWorld, IsPartial, Names, Field
  <2>3. order \in [1..Cardinality(Names("sg")) -> Names("sg")] /\ Cardinality(Names("sg")) \in Nat
    BY <2>2, FS_CardinalityType DEF Orders
  <2>4. \A i \in DOMAIN order : /\ new[i] \in Readings(seen)
                                /\ new[i].resource_id = order[i]
                                /\ new[i].resource_type = TypeOf["sg"]
    <3>1. ASSUME NEW i \in DOMAIN order
          PROVE  /\ new[i] = MapSecurityGroup(order[i], Account[cloud].groups[order[i]])
                 /\ order[i] \in DOMAIN Account[cloud].groups
      BY <2>2, <2>3
    <3>2. \A id, g : /\ MapSecurityGroup(id, g).resource_id = id
                     /\ MapSecurityGroup(id, g).resource_type = TypeOf["sg"]
      BY DEF MapSecurityGroup, Bare, TypeOf
    <3> QED
      BY <1>1, <3>1, <3>2 DEF Readings, SecurityGroups
  <2>5. new \in Seq(Readings(seen)) /\ DOMAIN new = DOMAIN order
    <3>1. new \in [1..Cardinality(Names("sg")) -> Readings(seen)]
      BY <2>3, <2>4
    <3> HIDE DEF new
    <3>2. new \in Seq(Readings(seen))
      BY <2>3, <3>1, SeqDef
    <3> QED
      BY <3>2 DEF new
  <2>6. resources' = resources \o new
    BY <2>1
  <2> HIDE DEF new
  <2>7. Kept
    BY <1>1, <2>5, <2>6, ConcatCollects
  <2>8. service = "sg" => Collected(service, n)'
    <3> SUFFICES ASSUME service = "sg" PROVE Collected(service, n)'
      OBVIOUS
    <3>1. PICK i \in DOMAIN order : order[i] = n
      BY <1>2, <2>2, OrdersCover
    <3> QED
      BY <1>1, <2>4, <2>5, <2>6, <3>1, ConcatCollects
  <2> QED
    BY <1>7, <1>21, <2>7, <2>8 DEF DescribeGroups
<1>22. CASE DescribeInstances
  <2>1. PICK order \in Orders(Names("ec2")) :
          resources' = resources \o [i \in DOMAIN order |->
                          MapEc2Instance(order[i], Account[cloud].instances[order[i]])]
    BY <1>22 DEF DescribeInstances
  <2> DEFINE new == [i \in DOMAIN order |->
                       MapEc2Instance(order[i], Account[cloud].instances[order[i]])]
  <2>2. Names("ec2") = DOMAIN Account[cloud].instances /\ IsFiniteSet(Names("ec2"))
    BY WorldsAssumption DEF IsWorld, IsPartial, Names, Field
  <2>3. order \in [1..Cardinality(Names("ec2")) -> Names("ec2")] /\ Cardinality(Names("ec2")) \in Nat
    BY <2>2, FS_CardinalityType DEF Orders
  <2>4. \A i \in DOMAIN order : /\ new[i] \in Readings(seen)
                                /\ new[i].resource_id = order[i]
                                /\ new[i].resource_type = TypeOf["ec2"]
    BY <1>1, <2>2, <2>3, InstanceFacts DEF Readings, Instances, TypeOf
  <2>5. new \in Seq(Readings(seen)) /\ DOMAIN new = DOMAIN order
    <3>1. new \in [1..Cardinality(Names("ec2")) -> Readings(seen)]
      BY <2>3, <2>4
    <3> HIDE DEF new
    <3>2. new \in Seq(Readings(seen))
      BY <2>3, <3>1, SeqDef
    <3> QED
      BY <3>2 DEF new
  <2>6. resources' = resources \o new
    BY <2>1
  <2> HIDE DEF new
  <2>7. Kept
    BY <1>1, <2>5, <2>6, ConcatCollects
  <2>8. service = "ec2" => Collected(service, n)'
    <3> SUFFICES ASSUME service = "ec2" PROVE Collected(service, n)'
      OBVIOUS
    <3>1. PICK i \in DOMAIN order : order[i] = n
      BY <1>2, <2>2, OrdersCover
    <3> QED
      BY <1>1, <2>4, <2>5, <2>6, <3>1, ConcatCollects
  <2> QED
    BY <1>7, <1>22, <2>7, <2>8 DEF DescribeInstances
<1>23. ~Escape
  BY DEF Escape, Services
<1> HIDE DEF Kept
<1> QED
  BY <1>8, <1>9, <1>10, <1>11, <1>17, <1>18, <1>19, <1>20, <1>21, <1>22, <1>23 DEF Collect

LiveProgress == kind = "LIVE" => Progress

\* Steps that are not the collection's leave it where it is, or begin it anew.
LEMMA NextKeepsProgress ==
    ASSUME IInv, LiveProgress, [Next]_vars
    PROVE  LiveProgress'
<1> USE DEF LiveProgress
<1>1. CASE CollectStep
  <2>1. kind' = kind /\ UNCHANGED account /\ Collect
    BY <1>1 DEF CollectStep
  <2>2. kind = "LIVE" => Gathered /\ Progress
    BY DEF IInv, CollectionOK
  <2> QED
    BY <2>1, <2>2, CollectProgress DEF IInv, Moments
<1>2. CASE DriftStep
  <2>1. /\ UNCHANGED <<kind, call, listing, listed, todo, part, resources, failed>>
        /\ seen \subseteq seen'
    BY <1>2 DEF DriftStep, Drift
  <2>2. \A service, n : /\ Owed(service, n)' => Owed(service, n)
                        /\ Collected(service, n)' <=> Collected(service, n)
    BY <2>1 DEF Owed, Unfailed, AllAlong, Collected
  <2> QED
    BY <2>1, <2>2 DEF Progress
<1>3. ASSUME StartCollection PROVE Progress'
  <2>1. call' = "s3" /\ listing' = "open" /\ listed' = {}
    BY <1>3 DEF StartCollection
  <2> QED
    BY <2>1, BeforeFollowing DEF Progress
<1>4. CASE StartCloudScan
  BY <1>3, <1>4 DEF StartCloudScan
<1>5. CASE AskForPaths
  BY <1>3, <1>5 DEF AskForPaths
<1>6. CASE StoreUpload
  BY <1>6 DEF StoreUpload
<1>7. CASE UNCHANGED <<collector, kind>>
  BY <1>7 DEF collector, Progress, Owed, Unfailed, AllAlong, Collected
<1> QED
  BY <1>1, <1>2, <1>4, <1>5, <1>6, <1>7
  DEF Next, ReceiveUpload, RunWorker, Parse, StoreCloudScan, CloudScanFails, AnswerPaths, vars,
      collector

\* The collection owes nothing it has passed, always.
LEMMA AlwaysProgress == Spec => [](IInv /\ LiveProgress)
<1>1. Init => LiveProgress
  BY DEF Init, LiveProgress
<1>2. IInv /\ LiveProgress /\ [Next]_vars => LiveProgress'
  BY NextKeepsProgress
<1> QED
  BY <1>1, <1>2, AlwaysIInv, PTL DEF Spec

\* A finished collection owes nothing.
LEMMA NothingOwed ==
    ASSUME IInv, LiveProgress, call = "done", seen # {},
           NEW service \in Services, NEW n \in Ids, Owed(service, n)
    PROVE  Collected(service, n)
<1>1. kind = "LIVE"
  BY DEF IInv, CollectionOK
<1> QED
  BY <1>1, BeforeFollowing DEF LiveProgress, Progress

(***************************************************************************)
(* A failing call costs the collection what the call was about and no      *)
(* more, whatever the account does meanwhile (collector.py).               *)
(***************************************************************************)
THEOREM FailuresContained == Spec => []FailuresCostTheirPart
<1>1. IInv /\ LiveProgress => FailuresCostTheirPart
  <2> SUFFICES ASSUME IInv, LiveProgress, call = "done", seen # {},
                      NEW service \in Services, NEW n \in Ids,
                      Unfailed(service, n), AllAlong(Field[service], n),
                      service = "iam" => \A w \in seen : Account[w].policies[n].readable
               PROVE  Collected(service, n)
    BY DEF FailuresCostTheirPart, Collected
  <2> QED
    BY NothingOwed DEF Owed
<1> QED
  BY <1>1, AlwaysProgress, PTL

(***************************************************************************)
(* A bucket open to the world all through a collection that could read its *)
(* ACL is found, by every rule that looks for it.                          *)
(***************************************************************************)
THEOREM PublicBucketsFound == Spec => []PublicBucketsAreFound
<1>1. IInv /\ LiveProgress => PublicBucketsAreFound
  <2> SUFFICES ASSUME IInv, LiveProgress, stage = "collecting", call = "done",
                      NEW b \in Ids, NEW rule \in Rules, Unfailed("s3", b),
                      \A w \in seen : b \in DOMAIN Account[w].buckets
                                      /\ Account[w].buckets[b] \cap {"READ", "FULL_CONTROL"} # {},
                      rule.eval_path = "public_read", rule.resource_type = "s3_bucket",
                      rule.op = "equals", rule.arg = "true"
               PROVE  \E f \in Evaluate(resources) : f.resource_id = b /\ f.rule_id = rule.rule_id
    BY DEF PublicBucketsAreFound
  <2>1. Gathered /\ seen \subseteq Worlds
    BY DEF IInv, CollectionOK, Moments
  <2>2. kind = "LIVE"
    BY DEF IInv, CollectionOK
  <2>3. Owed("s3", b)
    BY DEF Owed, AllAlong, Field
  <2>4. Collected("s3", b)
    BY <2>2, <2>3, BeforeFollowing DEF LiveProgress, Progress, Services
  <2>5. PICK i \in DOMAIN resources :
          resources[i].resource_id = b /\ resources[i].resource_type = "s3_bucket"
    BY <2>4 DEF Collected, TypeOf
  <2>6. resources[i] \in Readings(seen)
    BY <2>1, ElementOfSeq, LenProperties DEF Gathered
  <2>7. resources[i] \in Buckets(seen)
    BY <2>1, <2>5, <2>6, ReadingKinds DEF Readings
  <2>8. PICK w \in seen : \E n \in DOMAIN Account[w].buckets :
                             resources[i] = MapS3Bucket(n, Account[w].buckets[n])
    BY <2>7 DEF Buckets
  <2>9. resources[i] = MapS3Bucket(b, Account[w].buckets[b])
    <3>1. \A n, g : MapS3Bucket(n, g).resource_id = n
      BY DEF MapS3Bucket, Bare
    <3> QED
      BY <2>5, <2>8, <3>1
  <2>10. resources[i].at["public_read"] = "true"
    <3>1. "public_read" \in Paths
      BY WorldsAssumption
    <3> QED
      BY <2>9, <3>1 DEF MapS3Bucket, Bare, Bool
  <2>11. Applies(rule, resources[i])
    BY <2>5, <2>10 DEF Applies, Match
  <2>12. FindingOf(resources[i], i, rule) \in Evaluate(resources)
    BY <2>11 DEF Evaluate
  <2>13. /\ FindingOf(resources[i], i, rule).resource_id = b
         /\ FindingOf(resources[i], i, rule).rule_id = rule.rule_id
    BY <2>5, RulesAssumption DEF FindingOf
  <2> QED
    BY <2>12, <2>13
<1> QED
  BY <1>1, AlwaysProgress, PTL

--------------------------------------------------------------------------------
\* The findings of a rule, and the row of a mapping.
IdsOf(F, rule) == {FindingId(f) : f \in {g \in F : g.rule_id = rule}}

RowOf(F, m, fw) ==
    [control_id |-> ControlId(m, fw), framework |-> fw, rule_id |-> m.rule_id,
     finding_ids |-> IdsOf(F, m.rule_id),
     status |-> IF IdsOf(F, m.rule_id) = {} THEN "PASS" ELSE "FAIL"]

\* What a row says.
LEMMA RowFields ==
    ASSUME NEW F, NEW m, NEW fw
    PROVE  /\ RowOf(F, m, fw).framework = fw /\ RowOf(F, m, fw).rule_id = m.rule_id
           /\ RowOf(F, m, fw).finding_ids = IdsOf(F, m.rule_id)
           /\ RowOf(F, m, fw).status = IF IdsOf(F, m.rule_id) = {} THEN "PASS" ELSE "FAIL"
  BY DEF RowOf

\* The rows of the report are those of the mappings that have a control.
LEMMA RowFacts ==
    ASSUME NEW F
    PROVE  \A r : r \in ControlRows(F) <=>
             \E m \in ComplianceMap, fw \in Frameworks :
                ControlId(m, fw) # "" /\ r = RowOf(F, m, fw)
<1> DEFINE ids == FindingIdsByRule(F)
           Pairs == {y \in ComplianceMap \X Frameworks : ControlId(y[1], y[2]) # ""}
           Row(m, fw) == [control_id |-> ControlId(m, fw), framework |-> fw,
                          rule_id |-> m.rule_id, finding_ids |-> ids[m.rule_id],
                          status |-> IF ids[m.rule_id] = {} THEN "PASS" ELSE "FAIL"]
<1>1. \A m \in ComplianceMap : ids[m.rule_id] = IdsOf(F, m.rule_id)
  BY DEF FindingIdsByRule, MappedRules, IdsOf
<1>2. \A m \in ComplianceMap, fw \in Frameworks : Row(m, fw) = RowOf(F, m, fw)
  BY <1>1 DEF RowOf
<1>3. ControlRows(F) = {Row(x[1], x[2]) : x \in Pairs}
  BY DEF ControlRows
<1> HIDE DEF Row
<1>4. ASSUME NEW r \in ControlRows(F)
      PROVE  \E m \in ComplianceMap, fw \in Frameworks :
                ControlId(m, fw) # "" /\ r = RowOf(F, m, fw)
  <2>1. PICK x \in Pairs : r = Row(x[1], x[2])
    BY <1>3
  <2> QED
    BY <2>1, <1>2
<1>5. ASSUME NEW m \in ComplianceMap, NEW fw \in Frameworks, ControlId(m, fw) # ""
      PROVE  RowOf(F, m, fw) \in ControlRows(F)
  <2>1. <<m, fw>> \in Pairs
    BY <1>5
  <2>2. \E x \in Pairs : Row(m, fw) = Row(x[1], x[2])
    <3>1. <<m, fw>>[1] = m /\ <<m, fw>>[2] = fw
      OBVIOUS
    <3> HIDE DEF Pairs
    <3> QED
      BY <2>1, <3>1, Zenon
  <2>3. Row(m, fw) \in ControlRows(F)
    BY <2>2, <1>3
  <2> QED
    BY <2>3, <1>2
<1> QED
  BY <1>4, <1>5

\* And every row is that of a mapping of its rule.
LEMMA RowMapping ==
    ASSUME NEW F, NEW r \in ControlRows(F)
    PROVE  \E m \in ComplianceMap :
              /\ r = RowOf(F, m, r.framework) /\ r.rule_id = m.rule_id
              /\ r.finding_ids = IdsOf(F, m.rule_id)
              /\ r.status = IF IdsOf(F, m.rule_id) = {} THEN "PASS" ELSE "FAIL"
<1>1. PICK m \in ComplianceMap, fw \in Frameworks : r = RowOf(F, m, fw)
  BY RowFacts
<1>2. /\ r.framework = fw /\ r.rule_id = m.rule_id
      /\ r.finding_ids = IdsOf(F, m.rule_id)
      /\ r.status = IF IdsOf(F, m.rule_id) = {} THEN "PASS" ELSE "FAIL"
  <2>1. LET c == RowOf(F, m, fw)
        IN  /\ c.framework = fw /\ c.rule_id = m.rule_id
            /\ c.finding_ids = IdsOf(F, m.rule_id)
            /\ c.status = IF IdsOf(F, m.rule_id) = {} THEN "PASS" ELSE "FAIL"
    BY RowFields
  <2> QED
    BY <1>1, <2>1
<1> QED
  BY <1>1, <1>2

\* The rows of a framework with one of the given statuses.
RowsOf(F, fw, statuses) == {r \in ControlRows(F) : r.framework = fw /\ r.status \in statuses}

\* In a framework a rule has one row at most.
LEMMA OneRowPerRule ==
    ASSUME NEW F, NEW fw, NEW S, NEW r \in RowsOf(F, fw, S), NEW q \in RowsOf(F, fw, S),
           r.rule_id = q.rule_id
    PROVE  r = q
<1>1. \E m \in ComplianceMap : m.rule_id = r.rule_id /\ r = RowOf(F, m, fw)
  BY RowMapping DEF RowsOf
<1>2. \E n \in ComplianceMap : n.rule_id = q.rule_id /\ q = RowOf(F, n, fw)
  BY RowMapping DEF RowsOf
<1> QED
  BY <1>1, <1>2, ComplianceMapAssumption

\* The rows of a framework are finitely many.
LEMMA RowsAreFinite ==
    ASSUME NEW F, NEW fw, NEW S
    PROVE  IsFiniteSet(RowsOf(F, fw, S))
<1> DEFINE R == RowsOf(F, fw, S)
           g == [r \in R |-> CHOOSE m \in ComplianceMap : m.rule_id = r.rule_id]
<1>1. \A r \in R : \E m \in ComplianceMap : m.rule_id = r.rule_id
  BY RowMapping DEF RowsOf
<1>2. \A r \in R : g[r] \in ComplianceMap /\ g[r].rule_id = r.rule_id
  BY <1>1
<1>3. \A r, q \in R : g[r] = g[q] => r = q
  BY <1>2, OneRowPerRule
<1>4. g \in Injection(R, ComplianceMap)
  BY <1>2, <1>3 DEF Injection, IsInjective
<1> QED
  BY <1>4, FS_Injection, ComplianceMapAssumption

\* So counting pairs of a control and a rule counts rows.
LEMMA PairsAreRows ==
    ASSUME NEW F, NEW fw, NEW S
    PROVE  Cardinality({<<r.control_id, r.rule_id>> : r \in RowsOf(F, fw, S)})
             = Cardinality(RowsOf(F, fw, S))
<1> DEFINE R == RowsOf(F, fw, S)
           T == {<<r.control_id, r.rule_id>> : r \in R}
           g == [r \in R |-> <<r.control_id, r.rule_id>>]
<1>1. g \in [R -> T]
  OBVIOUS
<1>2. \A t \in T : \E r \in R : g[r] = t
  OBVIOUS
<1>3. \A r, q \in R : g[r] = g[q] => r.rule_id = q.rule_id
  OBVIOUS
<1>4. \A r, q \in R : g[r] = g[q] => r = q
  <2> HIDE DEF g
  <2> QED
    BY <1>3, OneRowPerRule
<1>5. g \in Bijection(R, T)
  <2> HIDE DEF g
  <2> QED
    BY <1>1, <1>2, <1>4 DEF Bijection, Injection, IsInjective, Surjection
<1> QED
  BY <1>5, RowsAreFinite, FS_Bijection DEF ExistsBijection

\* There are as many controls as rows, or fewer when rules share one.
LEMMA ControlsOfRows ==
    ASSUME NEW F, NEW fw, NEW S
    PROVE  LET R == RowsOf(F, fw, S)
               T == {r.control_id : r \in R}
           IN  /\ IsFiniteSet(T) /\ Cardinality(T) <= Cardinality(R)
               /\ Cardinality(T) = Cardinality(R) <=>
                     \A r, q \in R : r.control_id = q.control_id => r.rule_id = q.rule_id
<1> DEFINE R == RowsOf(F, fw, S)
           T == {r.control_id : r \in R}
           g == [r \in R |-> r.control_id]
<1>1. g \in [R -> T] /\ \A t \in T : \E r \in R : g[r] = t
  OBVIOUS
<1>2. \A r \in R : g[r] = r.control_id
  OBVIOUS
<1>3. \A r, q \in R : r.rule_id = q.rule_id => r = q
  BY OneRowPerRule
<1>4. IsFiniteSet(R)
  BY RowsAreFinite
<1> HIDE DEF g, R
<1>5. g \in Surjection(R, T)
  BY <1>1 DEF Surjection
<1>6. /\ IsFiniteSet(T) /\ Cardinality(T) <= Cardinality(R)
      /\ Cardinality(T) = Cardinality(R) <=> g \in Injection(R, T)
  BY <1>4, <1>5, FS_Surjection
<1>7. g \in Injection(R, T) <=> \A r, q \in R : g[r] = g[q] => r = q
  BY <1>1 DEF Injection, IsInjective
<1>8. g \in Injection(R, T)
        <=> \A r, q \in R : r.control_id = q.control_id => r.rule_id = q.rule_id
  BY <1>2, <1>3, <1>7
<1> QED
  BY <1>6, <1>8 DEF R

(***************************************************************************)
(* The report accounts for every finding, and its totals say whether any   *)
(* bears on a framework: whatever the rows of the map, as long as a rule   *)
(* has one (compliance/engine.py).                                         *)
(***************************************************************************)
THEOREM ReportAccounts == Spec => []ReportAccountsForFindings
<1> DEFINE Bears(f, fw) == \E m \in ComplianceMap : m.rule_id = f.rule_id /\ ControlId(m, fw) # ""
<1>1. ReportAccountsForFindings
  <2> SUFFICES ASSUME NEW fw \in Frameworks
               PROVE  LET report == BuildCompliance(findings)
                          Of(x) == {c \in report.controls : c.framework = x}
                      IN  /\ \A f \in findings : Bears(f, fw) =>
                                \E c \in Of(fw) : /\ c.status = "FAIL" /\ FindingId(f) \in c.finding_ids
                                                  /\ c.rule_id = f.rule_id
                          /\ \A c \in Of(fw) :
                                c.status = "PASS" => ~\E f \in findings : f.rule_id = c.rule_id
                          /\ LET sum == report.frameworks[fw]
                             IN  /\ sum.passed + sum.failed = sum.total
                                 /\ sum.failed > 0 <=> \E f \in findings : Bears(f, fw)
                                 /\ sum.total >= Cardinality({c.control_id : c \in Of(fw)})
                                 /\ sum.total > Cardinality({c.control_id : c \in Of(fw)}) <=>
                                       \E c, d \in Of(fw) :
                                          c.control_id = d.control_id /\ c.rule_id # d.rule_id
    BY Zenon DEF ReportAccountsForFindings
  <2> DEFINE rows == ControlRows(findings)
             Of(x) == {c \in rows : c.framework = x}
  <2>0. /\ BuildCompliance(findings).controls = rows
        /\ BuildCompliance(findings).frameworks = FrameworkSummary(rows)
    BY DEF BuildCompliance
  <2>1. ASSUME NEW f \in findings, NEW m \in ComplianceMap,
               m.rule_id = f.rule_id, ControlId(m, fw) # ""
        PROVE  \E c \in Of(fw) : /\ c.status = "FAIL" /\ FindingId(f) \in c.finding_ids
                                 /\ c.rule_id = f.rule_id
    <3>1. FindingId(f) \in IdsOf(findings, m.rule_id)
      BY <2>1 DEF IdsOf
    <3>2. RowOf(findings, m, fw) \in rows
      BY <2>1, RowFacts
    <3>3. LET c == RowOf(findings, m, fw)
          IN  /\ c.framework = fw /\ c.rule_id = m.rule_id
              /\ c.finding_ids = IdsOf(findings, m.rule_id)
              /\ c.status = "FAIL"
      BY <3>1, RowFields
    <3> QED
      BY <2>1, <3>1, <3>2, <3>3
  <2>2. ASSUME NEW c \in Of(fw), c.status = "PASS", NEW f \in findings
        PROVE  f.rule_id # c.rule_id
    <3>1. PICK m \in ComplianceMap :
            /\ c.rule_id = m.rule_id
            /\ c.status = IF IdsOf(findings, m.rule_id) = {} THEN "PASS" ELSE "FAIL"
      BY <2>2, RowMapping
    <3>2. IdsOf(findings, m.rule_id) = {}
      BY <2>2, <3>1
    <3> QED
      BY <3>1, <3>2 DEF IdsOf
  <2>3. \A c \in Of(fw) : c.status \in {"PASS", "FAIL"}
    BY RowMapping
  <2> DEFINE R(statuses) == RowsOf(findings, fw, statuses)
  <2>4. /\ R({"PASS", "FAIL"}) = R({"PASS"}) \cup R({"FAIL"})
        /\ R({"PASS"}) \cap R({"FAIL"}) = {}
        /\ R({"PASS", "FAIL"}) = Of(fw)
        /\ R({"FAIL"}) = {c \in Of(fw) : c.status = "FAIL"}
    BY <2>3 DEF RowsOf
  <2>5. LET sum == FrameworkSummary(rows)[fw]
        IN  /\ sum.total = Cardinality(R({"PASS", "FAIL"}))
            /\ sum.failed = Cardinality(R({"FAIL"}))
            /\ sum.passed = Cardinality(R({"PASS"}))
    <3> DEFINE Pairs(S) == {<<r.control_id, r.rule_id>> :
                                r \in {q \in rows : q.framework = fw /\ q.status \in S}}
    <3>1. ASSUME NEW S
          PROVE  Cardinality(Pairs(S)) = Cardinality(R(S))
      <4>1. Pairs(S) = {<<r.control_id, r.rule_id>> : r \in RowsOf(findings, fw, S)}
        BY DEF RowsOf
      <4> QED
        BY <4>1, PairsAreRows
    <3>2. FrameworkSummary(rows)[fw] = [total  |-> Cardinality(Pairs({"PASS", "FAIL"})),
                                        failed |-> Cardinality(Pairs({"FAIL"})),
                                        passed |-> Cardinality(Pairs({"PASS"}))]
      BY DEF FrameworkSummary
    <3> HIDE DEF Pairs, R
    <3> QED
      BY <3>1, <3>2
  <2>6. /\ IsFiniteSet(R({"PASS"})) /\ IsFiniteSet(R({"FAIL"}))
    BY RowsAreFinite
  <2> HIDE DEF R
  <2>7. Cardinality(R({"PASS", "FAIL"})) = Cardinality(R({"PASS"})) + Cardinality(R({"FAIL"}))
    <3>1. Cardinality(R({"PASS", "FAIL"})) =
            Cardinality(R({"PASS"})) + Cardinality(R({"FAIL"})) - Cardinality({})
      BY <2>4, <2>6, FS_Union
    <3>2. Cardinality({}) = 0
      BY FS_EmptySet
    <3>3. /\ Cardinality(R({"PASS"})) \in Nat
          /\ Cardinality(R({"FAIL"})) \in Nat
      BY <2>6, FS_CardinalityType
    <3> QED
      BY <3>1, <3>2, <3>3
  <2>8. /\ Cardinality(R({"PASS"})) \in Nat
        /\ Cardinality(R({"FAIL"})) \in Nat
    BY <2>6, FS_CardinalityType
  <2>9. R({"FAIL"}) # {} <=> \E f \in findings : Bears(f, fw)
    <3>1. ASSUME NEW c \in Of(fw), c.status = "FAIL"
          PROVE  \E f \in findings : Bears(f, fw)
      <4>1. PICK m \in ComplianceMap, x \in Frameworks :
              ControlId(m, x) # "" /\ c = RowOf(findings, m, x)
        BY <3>1, RowFacts
      <4>2. x = fw /\ IdsOf(findings, m.rule_id) # {}
        <5>1. /\ RowOf(findings, m, x).framework = x
              /\ RowOf(findings, m, x).status =
                   IF IdsOf(findings, m.rule_id) = {} THEN "PASS" ELSE "FAIL"
          BY RowFields
        <5>2. c.framework = fw /\ c.status = "FAIL"
          BY <3>1
        <5> QED
          BY <4>1, <5>1, <5>2
      <4>3. PICK f \in findings : f.rule_id = m.rule_id
        BY <4>2 DEF IdsOf
      <4> QED
        BY <4>1, <4>2, <4>3
    <3>2. ASSUME NEW f \in findings, Bears(f, fw)
          PROVE  \E c \in Of(fw) : c.status = "FAIL"
      BY <2>1, <3>2
    <3> QED
      BY <2>4, <3>1, <3>2
  <2>10. Cardinality(R({"FAIL"})) > 0 <=> R({"FAIL"}) # {}
    BY <2>6, <2>8, FS_EmptySet
  <2>11. LET sum == FrameworkSummary(rows)[fw]
         IN  /\ sum.passed + sum.failed = sum.total
             /\ sum.failed > 0 <=> \E f \in findings : Bears(f, fw)
    <3>1. Cardinality(R({"FAIL"})) > 0 <=> \E f \in findings : Bears(f, fw)
      BY <2>9, <2>10
    <3> HIDE DEF rows, Bears
    <3> QED
      BY <2>5, <2>7, <2>8, <3>1
  <2>12. LET T == {c.control_id : c \in Of(fw)}
         IN  /\ FrameworkSummary(rows)[fw].total >= Cardinality(T)
             /\ FrameworkSummary(rows)[fw].total > Cardinality(T) <=>
                   \E c, d \in Of(fw) : c.control_id = d.control_id /\ c.rule_id # d.rule_id
    <3> DEFINE T == {c.control_id : c \in Of(fw)}
    <3>1. /\ IsFiniteSet(T) /\ Cardinality(T) <= Cardinality(Of(fw))
          /\ Cardinality(T) = Cardinality(Of(fw)) <=>
                \A c, d \in Of(fw) : c.control_id = d.control_id => c.rule_id = d.rule_id
      <4>1. Of(fw) = RowsOf(findings, fw, {"PASS", "FAIL"})
        BY <2>4 DEF R
      <4> HIDE DEF Of, rows
      <4> QED
        BY <4>1, ControlsOfRows
    <3>2. FrameworkSummary(rows)[fw].total = Cardinality(Of(fw))
      BY <2>4, <2>5
    <3>3. Cardinality(T) \in Nat /\ Cardinality(Of(fw)) \in Nat
      <4>1. IsFiniteSet(Of(fw))
        BY <2>4, RowsAreFinite DEF R
      <4> QED
        BY <3>1, <4>1, FS_CardinalityType
    <3> HIDE DEF Of, rows
    <3> QED
      BY <3>1, <3>2, <3>3
  <2> QED
    BY <2>0, <2>1, <2>2, <2>11, <2>12
<1> QED
  BY <1>1, PTL

--------------------------------------------------------------------------------
\* What the collector reads of an account is a resource.
LEMMA ReadingsAreResources ==
    ASSUME NEW W, W \subseteq Worlds, NEW r \in Readings(W)
    PROVE  r \in Resource
<1> USE WorldsAssumption DEF ResourceTypes
<1>0. ASSUME NEW id \in Ids, NEW type \in ResourceTypes, NEW at,
             \A p \in DOMAIN at : at[p] \in Values
      PROVE  Bare(id, type, at) \in Resource
  BY <1>0 DEF Bare, Resource
<1>1. CASE r \in Buckets(W)
  <2>1. PICK w \in W : \E n \in DOMAIN Account[w].buckets : r = MapS3Bucket(n, Account[w].buckets[n])
    BY <1>1 DEF Buckets
  <2>2. PICK n \in DOMAIN Account[w].buckets : r = MapS3Bucket(n, Account[w].buckets[n])
    BY <2>1
  <2>3. n \in Ids
    BY DEF IsWorld, IsPartial
  <2> QED
    BY <1>0, <2>2, <2>3 DEF MapS3Bucket, Bool
<1>2. CASE r \in Policies(W)
  <2>1. PICK w \in W : \E n \in DOMAIN Account[w].policies :
          Decodes(Account[w].policies[n]) /\ r = MapIamPolicy(n, Account[w].policies[n])
    BY <1>2 DEF Policies
  <2>2. PICK n \in DOMAIN Account[w].policies :
          Decodes(Account[w].policies[n]) /\ r = MapIamPolicy(n, Account[w].policies[n])
    BY <2>1
  <2> DEFINE doc == Account[w].policies[n]
  <2>3. n \in Ids /\ doc \in Document
    BY DEF IsWorld, IsPartial
  <2>4. (IF WithAction(doc) = {} THEN Empty ELSE FirstAction(doc)[1]) \in Values
    <3>1. CASE WithAction(doc) = {}
      BY <3>1
    <3>2. CASE WithAction(doc) # {}
      <4>1. FirstAction(doc) # <<>>
        BY <2>2, <3>2 DEF Decodes, Raises
      <4>2. PICK i \in WithAction(doc) : FirstAction(doc) = doc.actions[i]
        <5>1. doc.actions \in Seq(Seq(Actions) \cup {NoAction})
          BY <2>3 DEF Document
        <5>2. WithAction(doc) \subseteq Nat
          BY <5>1, LenProperties DEF WithAction
        <5>3. \E i \in WithAction(doc) : \A j \in WithAction(doc) : i <= j
          BY <3>2, <5>2, LeastNatural
        <5> QED
          BY <5>3 DEF FirstAction
      <4>3. doc.actions[i] \in Seq(Actions)
        <5>1. doc.actions \in Seq(Seq(Actions) \cup {NoAction})
          BY <2>3 DEF Document
        <5> QED
          BY <5>1, ElementOfSeq, LenProperties DEF WithAction
      <4>4. FirstAction(doc)[1] \in Actions
        BY <4>1, <4>2, <4>3, EmptySeq, ElementOfSeq, LenProperties
      <4> QED
        BY <3>2, <4>4
    <3> QED
      BY <3>1, <3>2
  <2> QED
    BY <1>0, <2>2, <2>3, <2>4 DEF MapIamPolicy
<1>3. CASE r \in SecurityGroups(W)
  <2>1. PICK w \in W : \E n \in DOMAIN Account[w].groups :
                          r = MapSecurityGroup(n, Account[w].groups[n])
    BY <1>3 DEF SecurityGroups
  <2>2. PICK n \in DOMAIN Account[w].groups : r = MapSecurityGroup(n, Account[w].groups[n])
    BY <2>1
  <2> DEFINE permissions == Account[w].groups[n]
  <2>3. n \in Ids /\ permissions \in Seq(Seq(Values))
    BY DEF IsWorld, IsPartial
  <2>4. ASSUME permissions # <<>>, permissions[1] # <<>>
        PROVE  permissions[1][1] \in Values
    <3>1. permissions[1] \in Seq(Values)
      BY <2>3, <2>4, EmptySeq, ElementOfSeq, LenProperties
    <3> QED
      BY <2>4, <3>1, EmptySeq, ElementOfSeq, LenProperties
  <2> QED
    BY <1>0, <2>2, <2>3, <2>4 DEF MapSecurityGroup
<1>4. CASE r \in Instances(W)
  <2>1. PICK w \in W : \E n \in DOMAIN Account[w].instances :
                          r = MapEc2Instance(n, Account[w].instances[n])
    BY <1>4 DEF Instances
  <2>2. PICK n \in DOMAIN Account[w].instances : r = MapEc2Instance(n, Account[w].instances[n])
    BY <2>1
  <2>3. /\ n \in Ids
        /\ Account[w].instances[n] \in [groups : SUBSET Ids, profile : Profiles \cup {None}]
    BY DEF IsWorld, IsPartial
  <2>4. Bare(n, "ec2_instance", <<>>) \in Resource
    BY <1>0, <2>3
  <2> QED
    BY <2>2, <2>3, <2>4 DEF MapEc2Instance, Resource
<1>5. CASE r \in Roles(W)
  <2>1. PICK v \in W, w \in W : \E n \in DOMAIN Account[v].roles \cap DOMAIN Account[w].roles :
          r = MapRoleAttachment(n, Account[v].roles[n].policies,
                                ProfileRecords(Account[w].roles[n].profiles))
    BY <1>5 DEF Roles
  <2>2. PICK n \in DOMAIN Account[v].roles \cap DOMAIN Account[w].roles :
          r = MapRoleAttachment(n, Account[v].roles[n].policies,
                                ProfileRecords(Account[w].roles[n].profiles))
    BY <2>1
  <2>3. /\ n \in Ids
        /\ \A x \in {v, w} :
              Account[x].roles[n] \in [policies : SUBSET Arns, profiles : SUBSET Profiles]
    BY DEF IsWorld, IsPartial
  <2>4. Bare(n, "iam_role", <<>>) \in Resource
    BY <1>0, <2>3
  <2> QED
    BY <2>2, <2>3, <2>4, RoleFacts DEF Resource
<1> QED
  BY <1>1, <1>2, <1>3, <1>4, <1>5 DEF Readings

\* The values of a function on a finite set are finitely many.
LEMMA ImageIsFinite ==
    ASSUME NEW S, IsFiniteSet(S), NEW f, DOMAIN f = S
    PROVE  IsFiniteSet({f[x] : x \in S})
<1> DEFINE T == {f[x] : x \in S}
           g == [x \in S |-> f[x]]
<1>1. g \in Surjection(S, T)
  BY DEF Surjection
<1> QED
  BY <1>1, FS_Surjection DEF ExistsSurjection

\* The engine makes finitely many findings of resources; those with a name can be stored.
LEMMA EvaluateIsTyped ==
    ASSUME NEW rs \in Seq(Resource)
    PROVE  /\ {f \in Evaluate(rs) : f.resource_id # Null} \subseteq Finding
           /\ IsFiniteSet(Evaluate(rs))
<1>1. DOMAIN rs = 1..Len(rs) /\ Len(rs) \in Nat /\ \A i \in DOMAIN rs : rs[i] \in Resource
  BY ElementOfSeq, LenProperties
<1>2. ASSUME NEW i \in DOMAIN rs, NEW rule \in Rules
      PROVE  LET f == FindingOf(rs[i], i, rule)
             IN  /\ f.resource_id = IF rs[i].resource_id = None THEN Unknown ELSE rs[i].resource_id
                 /\ f.resource_id # Null => f \in Finding
  <2> DEFINE id == IF rs[i].resource_id = None THEN Unknown ELSE rs[i].resource_id
  <2>1. id \in Ids \cup {Null}
    BY <1>1, RulesAssumption DEF Resource
  <2> HIDE DEF id
  <2>2. RiskScore(rule.severity, id, rule.rule_id) \in 0..100 /\ rule.severity \in Severities
    <3> DEFINE score == RiskScore(rule.severity, id, rule.rule_id)
    <3>1. /\ rule.severity \in Severities
          /\ rule.severity = "Critical" => score \in 82..98
          /\ rule.severity = "High" => score \in 62..78
          /\ rule.severity = "Medium" => score \in 37..53
          /\ rule.severity = "Low" => score \in 12..28
      BY <2>1, ScoreRanges
    <3> HIDE DEF score
    <3>2. \/ rule.severity = "Critical" \/ rule.severity = "High"
          \/ rule.severity = "Medium" \/ rule.severity = "Low"
      BY <3>1 DEF Severities
    <3>3. score \in 82..98 \/ score \in 62..78 \/ score \in 37..53 \/ score \in 12..28
      BY <3>1, <3>2, Zenon
    <3>4. score \in 0..100
      BY <3>3
    <3> QED
      BY <3>1, <3>4 DEF score
  <2>3. i \in Nat /\ rule.rule_id \in RuleIds /\ rs[i].resource_type \in ResourceTypes
    BY <1>1 DEF Resource, RuleIds
  <2> DEFINE score == RiskScore(rule.severity, id, rule.rule_id)
  <2>4. FindingOf(rs[i], i, rule) =
          [pos |-> i, resource_id |-> id, resource_type |-> rs[i].resource_type,
           severity |-> rule.severity, rule_id |-> rule.rule_id,
           risk_score |-> score, is_anomaly |-> score >= _ANOMALY_THRESHOLD]
    BY DEF FindingOf, id
  <2>5. (score >= _ANOMALY_THRESHOLD) \in BOOLEAN
    BY <2>2 DEF _ANOMALY_THRESHOLD
  <2> HIDE DEF score
  <2>6. id # Null => FindingOf(rs[i], i, rule) \in Finding
    BY <2>1, <2>2, <2>3, <2>4, <2>5 DEF Finding, score
  <2>7. FindingOf(rs[i], i, rule).resource_id = id
    BY <2>4
  <2> QED
    BY <2>6, <2>7 DEF id
<1> DEFINE Of(i) == {FindingOf(rs[i], i, rule) : rule \in {r \in Rules : Applies(r, rs[i])}}
<1>3. \A i \in DOMAIN rs : IsFiniteSet(Of(i))
  <2> TAKE i \in DOMAIN rs
  <2>1. IsFiniteSet({r \in Rules : Applies(r, rs[i])})
    BY RulesAssumption, FS_Subset
  <2> DEFINE S == {r \in Rules : Applies(r, rs[i])}
             f == [rule \in S |-> FindingOf(rs[i], i, rule)]
  <2>2. Of(i) = {f[rule] : rule \in S}
    OBVIOUS
  <2>3. DOMAIN f = S
    OBVIOUS
  <2> HIDE DEF f, S, Of
  <2>4. IsFiniteSet({f[rule] : rule \in S})
    BY <2>1, <2>3, ImageIsFinite DEF S
  <2> QED
    BY <2>2, <2>4
<1>4. IsFiniteSet({Of(i) : i \in DOMAIN rs})
  <2>1. IsFiniteSet(DOMAIN rs)
    BY <1>1, FS_Interval
  <2> DEFINE f == [i \in DOMAIN rs |-> Of(i)]
  <2>2. {Of(i) : i \in DOMAIN rs} = {f[i] : i \in DOMAIN rs} /\ DOMAIN f = DOMAIN rs
    OBVIOUS
  <2> HIDE DEF Of, f
  <2> QED
    BY <2>1, <2>2, ImageIsFinite
<1>5. IsFiniteSet(UNION {Of(i) : i \in DOMAIN rs})
  <2> HIDE DEF Of
  <2> QED
    BY <1>3, <1>4, FS_UNION
<1> QED
  BY <1>2, <1>5 DEF Evaluate
--------------------------------------------------------------------------------
\* A list of readings is a list of resources.
LEMMA ReadingListsAreTyped ==
    ASSUME NEW W, W \subseteq Worlds, NEW s \in Seq(Readings(W))
    PROVE  s \in Seq(Resource) /\ \A i \in DOMAIN s : s[i].resource_id \in Ids
<1>1. Readings(W) \subseteq Resource
  BY ReadingsAreResources
<1>2. \A i \in DOMAIN s : s[i] \in Readings(W)
  BY ElementOfSeq, LenProperties
<1> QED
  BY <1>1, <1>2, SeqMonotonic, ReadingKinds

\* A call leaves the collector well-typed if the resources are.
LEMMA CollectKeepsType ==
    ASSUME TypeOKCollector, Collect, UNCHANGED account, resources' \in Seq(Resource),
           \A i \in DOMAIN resources' : resources'[i].resource_id \in Ids
    PROVE  TypeOKCollector'
<1> USE DEF account
<1>1. /\ cloud' = cloud /\ drifts' = drifts /\ seen' = seen /\ call \in Services
      /\ call' \in Services \cup {"idle", "done", "escaped"}
  BY DEF Collect, ListBuckets, ListPage, ListingFails, EndOfListing, GetBucketAcl, GetPolicy,
         ListAttachedRolePolicies, ReadFails, GetPolicyVersion, ListInstanceProfiles,
         DescribeGroups, DescribeInstances, DescribeFails, Escape, NextService, Following, Services
<1>2. \A service \in Services : Names(service) \subseteq Ids
  BY WorldsAssumption DEF Names, Field, Services, IsWorld, IsPartial, TypeOKCollector
<1>3. faults' \in 0..MaxFailures /\ failed' \subseteq Services \X (Ids \cup {None})
  <2>1. ASSUME NEW n \in Ids \cup {None}, Swallow(n)
        PROVE  faults' \in 0..MaxFailures /\ failed' \subseteq Services \X (Ids \cup {None})
    BY <1>1, <2>1, WorldsAssumption DEF Swallow, TypeOKCollector
  <2>2. CASE UNCHANGED <<faults, failed>>
    BY <2>2 DEF TypeOKCollector
  <2> QED
    BY <2>1, <2>2 DEF Collect, ListBuckets, ListPage, ListingFails, EndOfListing, GetBucketAcl,
         GetPolicy, ListAttachedRolePolicies, ReadFails, GetPolicyVersion, ListInstanceProfiles,
         DescribeGroups, DescribeInstances, DescribeFails, Escape
<1> DEFINE Reading ==
             /\ listing' \in {"open", "closed"} /\ listed' \subseteq Ids /\ todo' \subseteq listed'
             /\ \/ part' = NoPart
                \/ /\ part'.name \in listed'
                   /\ \/ call' = "iam" /\ part'.answer \in Document
                      \/ call' = "roles" /\ part'.answer \in SUBSET Arns
<1>4. CASE ListBuckets
  BY <1>2, <1>4 DEF ListBuckets, TypeOKCollector, Services
<1>5. CASE ListPage
  <2>1. Names(call) \subseteq Ids
    BY <1>1, <1>2
  <2>2. Reading
    BY <1>5, <2>1 DEF ListPage, TypeOKCollector
  <2> QED
    BY <1>1, <1>3, <2>2 DEF TypeOKCollector
<1>6. CASE NextService \/ Escape
  <2>1. Reading
    BY <1>6 DEF NextService, Escape
  <2> QED
    BY <1>1, <1>3, <2>1 DEF TypeOKCollector
<1>7. ASSUME NEW b \in Ids, GetBucketAcl(b) PROVE Reading
  BY <1>7 DEF GetBucketAcl, TypeOKCollector
<1>8. ASSUME NEW p \in Ids, GetPolicy(p) PROVE Reading
  <2>1. Account[cloud].policies[p] \in Document
    BY <1>8, WorldsAssumption DEF GetPolicy, Names, Field, IsWorld, IsPartial, TypeOKCollector
  <2> QED
    BY <1>8, <2>1 DEF GetPolicy, TypeOKCollector
<1>9. ASSUME NEW r \in Ids, ListAttachedRolePolicies(r) PROVE Reading
  <2>1. Account[cloud].roles[r].policies \in SUBSET Arns
    BY <1>9, WorldsAssumption
    DEF ListAttachedRolePolicies, Names, Field, IsWorld, IsPartial, TypeOKCollector
  <2> QED
    BY <1>9, <2>1 DEF ListAttachedRolePolicies, TypeOKCollector
<1>10. ASSUME NEW n \in Ids, ReadFails(n) PROVE Reading
  BY <1>10 DEF ReadFails, TypeOKCollector
<1>11. CASE GetPolicyVersion \/ ListInstanceProfiles
  <2>1. Reading
    BY <1>11 DEF GetPolicyVersion, ListInstanceProfiles, TypeOKCollector
  <2> QED
    BY <1>1, <1>3, <2>1 DEF TypeOKCollector
<1>12. CASE \E n \in Ids : \/ GetBucketAcl(n) \/ GetPolicy(n)
                           \/ ListAttachedRolePolicies(n) \/ ReadFails(n)
  <2>1. Reading
    BY <1>7, <1>8, <1>9, <1>10, <1>12
  <2> HIDE DEF Reading
  <2> QED
    BY <1>1, <1>3, <2>1 DEF TypeOKCollector, Reading
<1> QED
  BY <1>4, <1>5, <1>6, <1>11, <1>12
  DEF Collect, ListingFails, EndOfListing, DescribeGroups, DescribeInstances, DescribeFails

\* What keeps its type step by step; findings are few, so their orders are lists.
Typed ==
    /\ TypeOKCollector /\ TypeOKParser
    /\ stage \in {"new", "collecting", "failed", "stored", "joining", "answered"}
    /\ kind \in {"none", "STATIC", "LIVE"}
    /\ findings \subseteq Finding /\ IsFiniteSet(findings)
    /\ scanned \subseteq Worlds

\* The scan is typed at first.
LEMMA InitIsTyped ==
    ASSUME Init
    PROVE  Typed
<1>1. file \in Files /\ IsFiniteSet({}) /\ <<>> \in Seq(Resource)
  BY FilesAssumption, FS_EmptySet, EmptySeq DEF Init, InitParser
<1> QED
  BY <1>1, WorldsAssumption, FilesAssumption
  DEF Init, InitParser, InitCollector, Typed, TypeOKCollector, TypeOKParser

\* The names that findings bear make a list of resources.
LEMMA NamedResourcesAreTyped ==
    ASSUME NEW F, F \subseteq Finding, IsFiniteSet(F), NEW order \in Orders(F)
    PROVE  /\ [i \in DOMAIN order |-> Bare(order[i].resource_id, order[i].resource_type, <<>>)]
                 \in Seq(Resource)
           /\ \A i \in DOMAIN order : order[i].resource_id \in Ids
<1> DEFINE rs == [i \in DOMAIN order |-> Bare(order[i].resource_id, order[i].resource_type, <<>>)]
<1>1. Cardinality(F) \in Nat /\ order \in [1..Cardinality(F) -> F]
  BY FS_CardinalityType DEF Orders
<1>2. \A id \in Ids, type \in ResourceTypes : Bare(id, type, <<>>) \in Resource
  BY DEF Bare, Resource
<1>3. \A i \in 1..Cardinality(F) : rs[i] \in Resource
  BY <1>1, <1>2 DEF Finding
<1>4. rs \in [1..Cardinality(F) -> Resource]
  BY <1>1, <1>3
<1> HIDE DEF rs
<1>5. rs \in Seq(Resource)
  BY <1>1, <1>4, SeqDef
<1>6. \A i \in DOMAIN order : order[i].resource_id \in Ids
  BY <1>1 DEF Finding
<1> QED
  BY <1>5, <1>6 DEF rs

\* Every step keeps the types.
LEMMA NextKeepsType ==
    ASSUME IInv, IInv', Typed, [Next]_vars
    PROVE  Typed'
<1>1. \A f \in Files : Content[f].doc \in Seq(Resource)
  BY DocumentsAssumption
<1>2. ASSUME kind' = "LIVE"
      PROVE  /\ resources' \in Seq(Resource)
             /\ \A i \in DOMAIN resources' : resources'[i].resource_id \in Ids
  <2>1. resources' \in Seq(Readings(seen')) /\ seen' \subseteq Worlds
    BY <1>2 DEF IInv, CollectionOK, Gathered, Moments
  <2> QED
    BY <2>1, ReadingListsAreTyped
<1>3. ASSUME NEW f \in Files, ReceiveUpload(f) PROVE Typed'
  <2>1. TypeOKParser'
    BY <1>3, FilesAssumption DEF ReceiveUpload, Submit, Typed, TypeOKParser
  <2> QED
    BY <1>3, <2>1 DEF ReceiveUpload, Typed, TypeOKCollector, account, collector
<1>4. CASE Parse \/ \E k \in 1..MaxUploads : RunWorker(k)
  <2>1. TypeOKParser'
    BY <1>4 DEF Parse, RunWorker, ParseReturns, ParseTimesOut, WorkerEnds, Typed, TypeOKParser
  <2> QED
    BY <1>4, <2>1 DEF Parse, RunWorker, Typed, TypeOKCollector, account, collector
<1>5. CASE StoreUpload
  <2>1. findings' \subseteq Finding /\ IsFiniteSet(findings')
    <3> DEFINE found == Evaluate(Content[file].doc)
    <3>1. {f \in found : f.resource_id # Null} \subseteq Finding /\ IsFiniteSet(found)
      BY <1>1, EvaluateIsTyped DEF Typed, TypeOKParser
    <3>2. findings' = IF \E f \in found : f.resource_id = Null THEN {} ELSE found
      BY <1>5 DEF StoreUpload
    <3> HIDE DEF found
    <3> QED
      BY <3>1, <3>2, FS_EmptySet
  <2> QED
    BY <1>5, <2>1 DEF StoreUpload, Typed, TypeOKCollector, TypeOKParser, account, collector, parser
<1>6. ASSUME StartCollection, UNCHANGED account PROVE TypeOKCollector'
  BY <1>6, EmptySeq DEF StartCollection, Typed, TypeOKCollector, Services, account
<1>7. CASE StartCloudScan
  BY <1>6, <1>7 DEF StartCloudScan, Typed, TypeOKParser, parser
<1>8. CASE CollectStep
  <2>1. kind' = "LIVE"
    BY <1>8 DEF IInv, CollectStep, CollectionOK, Collect, ListBuckets, ListPage, ListingFails,
                EndOfListing, GetBucketAcl, GetPolicy, ListAttachedRolePolicies, ReadFails,
                GetPolicyVersion, ListInstanceProfiles, DescribeGroups, DescribeInstances,
                DescribeFails, Escape, Services
  <2>2. TypeOKCollector'
    BY <1>2, <1>8, <2>1, CollectKeepsType DEF CollectStep, Typed
  <2> QED
    BY <1>8, <2>2 DEF CollectStep, Typed, TypeOKParser, parser
<1>9. CASE StoreCloudScan
  <2>1. findings' \subseteq Finding /\ IsFiniteSet(findings')
    <3>1. {f \in Evaluate(resources) : f.resource_id # Null} \subseteq Finding
          /\ IsFiniteSet(Evaluate(resources))
      BY EvaluateIsTyped DEF Typed, TypeOKCollector
    <3>2. \A i \in DOMAIN resources : resources[i].resource_id \in Ids
      BY DEF Typed, TypeOKCollector
    <3>3. \A f \in Evaluate(resources) : f.resource_id # Null
      BY <3>2, RulesAssumption DEF Evaluate, FindingOf
    <3> QED
      BY <1>9, <3>1, <3>3 DEF StoreCloudScan
  <2> QED
    BY <1>9, <2>1
    DEF StoreCloudScan, Typed, TypeOKCollector, TypeOKParser, account, collector, parser
<1>10. CASE CloudScanFails \/ AnswerPaths \/ UNCHANGED vars
  BY <1>10 DEF CloudScanFails, AnswerPaths, vars, Typed, TypeOKCollector, TypeOKParser, account,
               collector, parser
<1>11. CASE AskForPaths
  <2>1. CASE kind = "LIVE" /\ StartCollection
    BY <1>6, <1>11, <2>1 DEF AskForPaths, Typed, TypeOKParser, parser
  <2>2. CASE kind = "STATIC" /\ ~(kind = "LIVE" /\ StartCollection)
    <3>1. PICK order \in Orders(findings) :
            resources' = [i \in DOMAIN order |->
                             Bare(order[i].resource_id, order[i].resource_type, <<>>)]
      BY <1>11, <2>2 DEF AskForPaths
    <3>2. /\ resources' \in Seq(Resource)
          /\ \A i \in DOMAIN resources' : resources'[i].resource_id \in Ids
      <4>1. resources' \in Seq(Resource) /\ \A i \in DOMAIN order : order[i].resource_id \in Ids
        BY <3>1, NamedResourcesAreTyped DEF Typed
      <4> QED
        BY <3>1, <4>1, BareFacts
    <3>3. part = NoPart
      BY <2>2 DEF IInv, CollectionOK, Typed, TypeOKCollector
    <3>4. /\ UNCHANGED <<account, parser, kind, findings, scanned, listing, listed, todo, part,
                         failed, faults, seen>>
          /\ call' = "done" /\ stage' = "joining"
      BY <1>11, <2>2 DEF AskForPaths
    <3> QED
      BY <3>2, <3>3, <3>4 DEF Typed, TypeOKCollector, TypeOKParser, account, parser
  <2> QED
    BY <1>11, <2>1, <2>2 DEF AskForPaths
<1>12. CASE DriftStep
  <2>1. cloud' \in Worlds /\ seen' \subseteq Worlds /\ drifts' \in 0..MaxDrift
    BY <1>12, WorldsAssumption DEF DriftStep, Drift, Typed, TypeOKCollector
  <2>2. UNCHANGED <<call, listing, listed, todo, part, resources, failed, faults>>
    BY <1>12 DEF DriftStep, Drift
  <2>3. TypeOKCollector'
    BY <2>1, <2>2 DEF Typed, TypeOKCollector
  <2> QED
    BY <1>12, <2>3 DEF DriftStep, Typed, TypeOKParser, parser
<1> QED
  BY <1>3, <1>4, <1>5, <1>7, <1>8, <1>9, <1>10, <1>11, <1>12 DEF Next
--------------------------------------------------------------------------------
\* The resources an answer is made from.
Shown == IF call = "escaped" THEN <<>> ELSE Deduplicate(resources)

(***************************************************************************)
(* An answer stays what get_attack_paths made of the findings and of the   *)
(* resources collected for it: neither changes any more.                   *)
(***************************************************************************)
AnswerOK ==
    /\ stage # "answered" => answer = NoAnswer
    /\ stage = "answered" =>
          /\ call \in {"done", "escaped"}
          /\ \E join \in Joins(findings), found \in FindAttackPaths(Shown) :
                answer = AttackPathResponse(Shown, join, found)

\* Every step keeps the answer.
LEMMA NextKeepsAnswer ==
    ASSUME AnswerOK, [Next]_vars
    PROVE  AnswerOK'
<1>1. CASE AnswerPaths
  <2>1. UNCHANGED <<call, resources, findings>> /\ stage' = "answered"
    BY <1>1 DEF AnswerPaths, collector
  <2>2. call \in {"done", "escaped"}
    BY <1>1 DEF AnswerPaths
  <2>3. PICK join \in Joins(findings), found \in FindAttackPaths(Shown) :
          answer' = AttackPathResponse(Shown, join, found)
    BY <1>1 DEF AnswerPaths, Shown
  <2>4. Shown' = Shown
    BY <2>1 DEF Shown
  <2> QED
    BY <2>1, <2>2, <2>3, <2>4 DEF AnswerOK
<1>2. CASE UNCHANGED <<stage, answer>> /\ stage # "answered"
  BY <1>2 DEF AnswerOK
<1>3. CASE UNCHANGED <<stage, answer, findings, call, resources>>
  <2>1. Shown' = Shown
    BY <1>3 DEF Shown
  <2> QED
    BY <1>3, <2>1 DEF AnswerOK
<1>4. CASE stage # "answered" /\ stage' # "answered" /\ UNCHANGED answer
  BY <1>4 DEF AnswerOK
<1>5. ASSUME CollectStep PROVE UNCHANGED <<stage, answer>> /\ stage # "answered"
  <2>1. call \in Services
    BY <1>5 DEF CollectStep, Collect, ListBuckets, ListPage, ListingFails, EndOfListing,
                GetBucketAcl, GetPolicy, ListAttachedRolePolicies, ReadFails, GetPolicyVersion,
                ListInstanceProfiles, DescribeGroups, DescribeInstances, DescribeFails, Escape,
                Services
  <2> QED
    BY <1>5, <2>1 DEF CollectStep, AnswerOK, Services
<1> QED
  BY <1>1, <1>2, <1>3, <1>4, <1>5
  DEF Next, ReceiveUpload, Parse, RunWorker, StoreUpload, StartCloudScan, StoreCloudScan,
      CloudScanFails, AskForPaths, DriftStep, Drift, vars, collector

\* Types and answer are kept always, next to what was proved so far.
LEMMA AlwaysAnswered == Spec => [](IInv /\ LiveProgress /\ Typed /\ AnswerOK)
<1>1. Init => Typed /\ AnswerOK
  BY InitIsTyped DEF Init, AnswerOK
<1>2. IInv /\ IInv' /\ Typed /\ AnswerOK /\ [Next]_vars => Typed' /\ AnswerOK'
  BY NextKeepsType, NextKeepsAnswer
<1> QED
  BY <1>1, <1>2, AlwaysProgress, PTL DEF Spec

\* What is shown are resources with names.
LEMMA ShownResources ==
    ASSUME Typed
    PROVE  /\ Len(resources) \in Nat /\ DOMAIN Shown \subseteq 1..Len(resources)
           /\ \A i \in DOMAIN Shown : Shown[i] \in Resource /\ Shown[i].resource_id \in Ids
<1>1. /\ Len(resources) \in Nat /\ DOMAIN Deduplicate(resources) \subseteq 1..Len(resources)
      /\ \A i \in DOMAIN Deduplicate(resources) :
            /\ Deduplicate(resources)[i] \in Resource
            /\ Deduplicate(resources)[i].resource_id \in Ids
  BY DeduplicatedResources DEF Typed, TypeOKCollector
<1> QED
  BY <1>1 DEF Shown

(***************************************************************************)
(* The variables keep to their types: among them the answer, whose links,  *)
(* nodes and paths name resources only.                                    *)
(***************************************************************************)
THEOREM AnalysisTypeOK == Spec => []TypeOK
<1>1. Typed /\ AnswerOK => TypeOK
  <2> SUFFICES ASSUME Typed, AnswerOK
               PROVE  /\ answer.nodes \subseteq PathNode /\ answer.links \subseteq Link
                      /\ answer.paths \subseteq Path
    BY DEF Typed, TypeOK
  <2>1. CASE stage # "answered"
    BY <2>1 DEF AnswerOK, NoAnswer
  <2>2. CASE stage = "answered"
    <3>1. PICK join \in Joins(findings), found \in FindAttackPaths(Shown) :
            answer = AttackPathResponse(Shown, join, found)
      BY <2>2 DEF AnswerOK
    <3>2. AttackPathResponse(Shown, join, found) \in
            [nodes : SUBSET PathNode, links : SUBSET Link, paths : SUBSET Path]
      BY ShownResources, ResponsesAreTyped DEF Typed
    <3> QED
      BY <3>1, <3>2
  <2> QED
    BY <2>1, <2>2
<1> QED
  BY <1>1, AlwaysAnswered, PTL

--------------------------------------------------------------------------------
(***************************************************************************)
(* What get_attack_paths is asked for it can always give: the findings of  *)
(* an uploaded scan have an order, every name in them one of its findings  *)
(* to join, and the paths a selection the search may return.               *)
(***************************************************************************)
RequestsHaveAnswers ==
    /\ stage = "stored" => Orders(findings) # {}
    /\ stage = "joining" /\ call \in {"done", "escaped"} =>
          \E join \in Joins(findings), found \in FindAttackPaths(Shown) :
             AttackPathResponse(Shown, join, found) \in
                [nodes : SUBSET PathNode, links : SUBSET Link, paths : SUBSET Path]

\* A finite set can be listed.
LEMMA OrdersExist ==
    ASSUME NEW S, IsFiniteSet(S)
    PROVE  Orders(S) # {}
<1>1. PICK b : b \in Bijection(1..Cardinality(S), S)
  BY FS_CardinalityType DEF ExistsBijection
<1>2. b \in Orders(S)
  BY <1>1 DEF Orders, Bijection, Injection, IsInjective
<1> QED
  BY <1>2

\* A request for paths is never left without an answer it may be given (routes.py,
\* get_attack_paths; path_finder.py): no limit and no order of the targets excludes them all.
THEOREM AnswersExist == Spec => []RequestsHaveAnswers
<1>1. Typed => RequestsHaveAnswers
  <2> SUFFICES ASSUME Typed PROVE RequestsHaveAnswers
    OBVIOUS
  <2>1. Orders(findings) # {} /\ Joins(findings) # {}
    BY OrdersExist, JoinsExist DEF Typed
  <2>2. FindAttackPaths(Shown) # {}
    BY ShownResources, PathsCanBeChosen
  <2>3. ASSUME NEW join \in Joins(findings), NEW found \in FindAttackPaths(Shown)
        PROVE  AttackPathResponse(Shown, join, found) \in
                  [nodes : SUBSET PathNode, links : SUBSET Link, paths : SUBSET Path]
    BY ShownResources, ResponsesAreTyped DEF Typed
  <2> QED
    BY <2>1, <2>2, <2>3 DEF RequestsHaveAnswers
<1> QED
  BY <1>1, AlwaysAnswered, PTL
================================================================================
