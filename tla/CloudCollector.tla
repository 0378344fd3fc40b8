------------------------------ MODULE CloudCollector ---------------------------
(***************************************************************************)
(* cloud/collector.py and cloud/resource_mapper.py: the account is read    *)
(* with one call after another while it changes.  A call that fails with a *)
(* ClientError costs what the code around it skips; any other exception    *)
(* ends the collection.                                                    *)
(*                                                                         *)
(* An action is one call with the code up to the next one.  The retries of *)
(* boto3 (localstack.py) are inside a call.                                *)
(***************************************************************************)
EXTENDS RuleEngine, FiniteSets

CONSTANTS
    Actions,      \* actions of policy statements
    NoAction,     \* a statement without an Action
    Empty,        \* the empty string
    Worlds,       \* moments in the life of the account
    Account,      \* what it holds then
    MaxDrift,     \* bound on the changes of the account
    MaxFailures   \* bound on the failures that are swallowed

Permission == {"READ", "WRITE", "FULL_CONTROL"}

\* A policy document: whether it decodes, and the Action of each statement.
Document == [readable : BOOLEAN, actions : Seq(Seq(Actions) \cup {NoAction})]

\* A function from finitely many names of S into T.
IsPartial(f, S, T) ==
    DOMAIN f \subseteq S /\ IsFiniteSet(DOMAIN f) /\ f \in [DOMAIN f -> T]

(***************************************************************************)
(* An account: the grants to AllUsers in each bucket's ACL, the default    *)
(* version of each policy, the ranges of each group's permissions, and     *)
(* what instances and roles are attached to.                               *)
(***************************************************************************)
IsWorld(w) ==
    /\ DOMAIN w = {"buckets", "policies", "groups", "instances", "roles"}
    /\ IsPartial(w.buckets, Ids, SUBSET Permission)
    /\ IsPartial(w.policies, Ids, Document)
    /\ IsPartial(w.groups, Ids, Seq(Seq(Values)))
    /\ IsPartial(w.instances, Ids, [groups : SUBSET Ids, profile : Profiles \cup {None}])
    /\ IsPartial(w.roles, Ids, [policies : SUBSET Arns, profiles : SUBSET Profiles])

ASSUME WorldsAssumption ==
    /\ DOMAIN Account = Worlds
    /\ \A w \in Worlds : IsWorld(Account[w])
    /\ {"true", "false", Empty} \cup Actions \subseteq Values /\ Empty # Anywhere
    /\ {"public_read", "public_write", "action", "ingress.cidr"} \subseteq Paths
    /\ MaxDrift \in Nat /\ MaxFailures \in Nat

VARIABLES
    cloud,        \* the moment the account is at
    drifts,       \* how often it has changed
    faults,       \* how many failures were swallowed
    call,         \* the service being read
    listing,      \* whether its listing has more to give
    listed,       \* the names its listing has given
    todo,         \* those of them not read yet
    part,         \* what the first of two calls for one name has answered
    resources,    \* resources collected so far
    failed,       \* calls whose failure was swallowed (history)
    seen          \* moments of the account during the collection (history)

account == <<cloud, drifts>>

collector == <<call, listing, listed, todo, part, resources, failed, faults, seen>>

Services == {"s3", "iam", "sg", "ec2", "roles"}

NoPart == [name |-> None]

TypeOKCollector ==
    /\ cloud \in Worlds
    /\ drifts \in 0..MaxDrift
    /\ faults \in 0..MaxFailures
    /\ call \in Services \cup {"idle", "done", "escaped"}
    /\ listing \in {"open", "closed"}
    /\ listed \subseteq Ids
    /\ todo \subseteq listed
    /\ \/ part = NoPart
       \/ /\ part.name \in listed
          /\ \/ call = "iam" /\ part.answer \in Document
             \/ call = "roles" /\ part.answer \in SUBSET Arns
    /\ resources \in Seq(Resource)
    /\ \A i \in DOMAIN resources : resources[i].resource_id \in Ids
    /\ failed \subseteq Services \X (Ids \cup {None})
    /\ seen \subseteq Worlds

InitCollector ==
    /\ cloud \in Worlds
    /\ drifts = 0 /\ faults = 0
    /\ call = "idle"
    /\ listing = "open" /\ listed = {} /\ todo = {} /\ part = NoPart
    /\ resources = <<>>
    /\ failed = {}
    /\ seen = {}

--------------------------------------------------------------------------------
(***************************************************************************)
(* The mappers.  What the rules and the graph do not read is left out.     *)
(***************************************************************************)
Bare(id, type, at) ==
    [resource_id |-> id, resource_type |-> type,
     at |-> [p \in Paths |-> IF p \in DOMAIN at THEN at[p] ELSE None],
     security_groups |-> {}, profile |-> None, policies |-> {}, profiles |-> {},
     buckets |-> {}]

Bool(b) == IF b THEN "true" ELSE "false"

\* Mutant: full control counts as neither.
MapS3BucketExact(name, grants) ==
    Bare(name, "s3_bucket", [public_read  |-> Bool("READ" \in grants),
                             public_write |-> Bool("WRITE" \in grants)])

MapS3Bucket(name, grants) ==
    Bare(name, "s3_bucket",
         [public_read  |-> Bool(grants \cap {"READ", "FULL_CONTROL"} # {}),
          public_write |-> Bool(grants \cap {"WRITE", "FULL_CONTROL"} # {})])

WithAction(doc) == {i \in DOMAIN doc.actions : doc.actions[i] # NoAction}

FirstAction(doc) == doc.actions[CHOOSE i \in WithAction(doc) : \A j \in WithAction(doc) : i <= j]

\* An empty list of actions: value[0] raises IndexError.
Raises(doc) == doc.readable /\ WithAction(doc) # {} /\ FirstAction(doc) = <<>>

Decodes(doc) == doc.readable /\ ~Raises(doc)

\* Only the first action of the first statement that has one.
MapIamPolicy(name, doc) ==
    Bare(name, "iam_policy",
         [action |-> IF WithAction(doc) = {} THEN Empty ELSE FirstAction(doc)[1]])

\* Only the first range of the first permission.
MapSecurityGroup(id, permissions) ==
    Bare(id, "security_group",
         [p \in {"ingress.cidr"} |-> IF permissions = <<>> \/ permissions[1] = <<>>
                                     THEN Empty ELSE permissions[1][1]])

MapEc2Instance(id, i) ==
    [Bare(id, "ec2_instance", <<>>) EXCEPT !.security_groups = i.groups, !.profile = i.profile]

\* What IAM answers about instance profiles: records that name their ARN "Arn".
ProfileRecords(arns) == {[Arn |-> a] : a \in arns}

\* The mapper asks for "InstanceProfileArn", and drops the profiles that have none.
MapRoleAttachment(name, policies, profiles) ==
    [Bare(name, "iam_role", <<>>) EXCEPT
        !.policies = policies,
        !.profiles = {p.InstanceProfileArn :
                         p \in {q \in profiles : "InstanceProfileArn" \in DOMAIN q}}]

--------------------------------------------------------------------------------
Field == [s3 |-> "buckets", iam |-> "policies", sg |-> "groups", ec2 |-> "instances",
          roles |-> "roles"]

TypeOf == [s3 |-> "s3_bucket", iam |-> "iam_policy", sg |-> "security_group",
           ec2 |-> "ec2_instance", roles |-> "iam_role"]

\* The names a listing of the service would give now.
Names(service) == DOMAIN Account[cloud][Field[service]]

Following == [s3 |-> "iam", iam |-> "sg", sg |-> "ec2", ec2 |-> "roles", roles |-> "done"]

\* CloudCollector(), collect(): collection begins.
StartCollection ==
    /\ call' = "s3"
    /\ listing' = "open" /\ listed' = {} /\ todo' = {} /\ part' = NoPart
    /\ resources' = <<>>
    /\ failed' = {} /\ seen' = {cloud}
    /\ UNCHANGED faults

NextService ==
    /\ call' = Following[call]
    /\ listing' = "open" /\ listed' = {} /\ todo' = {} /\ part' = NoPart

\* list_buckets gives every name at once.
ListBuckets ==
    /\ call = "s3" /\ listing = "open"
    /\ listing' = "closed" /\ listed' = Names("s3") /\ todo' = Names("s3")
    /\ UNCHANGED <<call, part, resources, failed, faults, seen>>

(***************************************************************************)
(* A page of list_policies or list_roles: some of the names not given yet. *)
(* The last page says that it is the last.                                 *)
(***************************************************************************)
ListPage ==
    /\ call \in {"iam", "roles"} /\ listing = "open" /\ todo = {} /\ part = NoPart
    /\ \E page \in SUBSET (Names(call) \ listed) :
        /\ page = {} => Names(call) \subseteq listed
        /\ listed' = listed \cup page /\ todo' = page
        /\ listing' = IF Names(call) \subseteq listed \cup page THEN "closed" ELSE "open"
    /\ UNCHANGED <<call, part, resources, failed, faults, seen>>

(***************************************************************************)
(* A failing call is logged and goes no further.  A call about what is no  *)
(* longer there fails in any case; MaxFailures bounds the others.          *)
(***************************************************************************)
Swallow(name) ==
    /\ IF name \in Ids \ Names(call)
       THEN UNCHANGED faults
       ELSE faults < MaxFailures /\ faults' = faults + 1
    /\ failed' = failed \cup {<<call, name>>}

\* ClientError from list_buckets or from a page: what there is, is kept.
ListingFails ==
    /\ call \in {"s3", "iam", "roles"} /\ listing = "open" /\ todo = {} /\ part = NoPart
    /\ NextService
    /\ Swallow(None)
    /\ UNCHANGED <<resources, seen>>

EndOfListing ==
    /\ call \in {"s3", "iam", "roles"} /\ listing = "closed" /\ todo = {} /\ part = NoPart
    /\ NextService
    /\ UNCHANGED <<resources, failed, faults, seen>>

\* Mutant: the flags are not reset between two buckets.
GetBucketAclAccumulating(b) ==
    /\ call = "s3" /\ b \in todo \cap Names("s3")
    /\ todo' = todo \ {b}
    /\ LET last == IF resources # <<>> /\ resources[Len(resources)].at["public_read"] = "true"
                   THEN {"READ"} ELSE {}
       IN  resources' = Append(resources, MapS3Bucket(b, Account[cloud].buckets[b] \cup last))
    /\ UNCHANGED <<call, listing, listed, part, failed, faults, seen>>

\* get_bucket_acl, of a bucket that is still there.
GetBucketAcl(b) ==
    /\ call = "s3" /\ b \in todo \cap Names("s3")
    /\ todo' = todo \ {b}
    /\ resources' = Append(resources, MapS3Bucket(b, Account[cloud].buckets[b]))
    /\ UNCHANGED <<call, listing, listed, part, failed, faults, seen>>

\* get_policy: a version of a policy never changes, so its document is known.
GetPolicy(p) ==
    /\ call = "iam" /\ part = NoPart /\ p \in todo \cap Names("iam")
    /\ todo' = todo \ {p}
    /\ part' = [name |-> p, answer |-> Account[cloud].policies[p]]
    /\ UNCHANGED <<call, listing, listed, resources, failed, faults, seen>>

\* get_policy_version and the mapper: a document that does not decode is skipped.
GetPolicyVersion ==
    /\ call = "iam" /\ part # NoPart /\ part.name \in Names("iam")
    /\ ~Raises(part.answer)
    /\ part' = NoPart
    /\ resources' = IF part.answer.readable
                    THEN Append(resources, MapIamPolicy(part.name, part.answer))
                    ELSE resources
    /\ UNCHANGED <<call, listing, listed, todo, failed, faults, seen>>

\* list_attached_role_policies.
ListAttachedRolePolicies(r) ==
    /\ call = "roles" /\ part = NoPart /\ r \in todo \cap Names("roles")
    /\ todo' = todo \ {r}
    /\ part' = [name |-> r, answer |-> Account[cloud].roles[r].policies]
    /\ UNCHANGED <<call, listing, listed, resources, failed, faults, seen>>

\* list_instance_profiles_for_role and the mapper.
ListInstanceProfiles ==
    /\ call = "roles" /\ part # NoPart /\ part.name \in Names("roles")
    /\ part' = NoPart
    /\ LET given == ProfileRecords(Account[cloud].roles[part.name].profiles)
       IN  resources' = Append(resources, MapRoleAttachment(part.name, part.answer, given))
    /\ UNCHANGED <<call, listing, listed, todo, failed, faults, seen>>

\* Mutant: `break` where the code has `continue`.
ReadFailsBreak(n) ==
    /\ call \in {"s3", "iam", "roles"}
    /\ n \in IF part = NoPart THEN todo ELSE {part.name}
    /\ todo' = {} /\ part' = NoPart
    /\ Swallow(n)
    /\ UNCHANGED <<call, listing, listed, resources, seen>>

\* ClientError from a call about one name, which is skipped.
ReadFails(n) ==
    /\ call \in {"s3", "iam", "roles"}
    /\ n \in IF part = NoPart THEN todo ELSE {part.name}
    /\ todo' = todo \ {n} /\ part' = NoPart
    /\ Swallow(n)
    /\ UNCHANGED <<call, listing, listed, resources, seen>>

Orders(S) ==
    {s \in [1..Cardinality(S) -> S] : \A i, j \in DOMAIN s : s[i] = s[j] => i = j}

\* describe_security_groups, describe_instances: one call each, in some order.
DescribeGroups ==
    /\ call = "sg"
    /\ \E order \in Orders(Names("sg")) :
        resources' = resources \o [i \in DOMAIN order |->
                         MapSecurityGroup(order[i], Account[cloud].groups[order[i]])]
    /\ NextService
    /\ UNCHANGED <<failed, faults, seen>>

DescribeInstances ==
    /\ call = "ec2"
    /\ \E order \in Orders(Names("ec2")) :
        resources' = resources \o [i \in DOMAIN order |->
                         MapEc2Instance(order[i], Account[cloud].instances[order[i]])]
    /\ NextService
    /\ UNCHANGED <<failed, faults, seen>>

DescribeFails ==
    /\ call \in {"sg", "ec2"}
    /\ NextService
    /\ Swallow(None)
    /\ UNCHANGED <<resources, seen>>

(***************************************************************************)
(* An exception nobody in the collector catches: no connection, or a       *)
(* document whose first Action is an empty list.                           *)
(***************************************************************************)
Escape ==
    /\ call \in Services
    /\ listing = "open" \/ todo # {} \/ part # NoPart
    /\ call' = "escaped"
    /\ listing' = "open" /\ listed' = {} /\ todo' = {} /\ part' = NoPart
    /\ resources' = <<>>
    /\ UNCHANGED <<failed, faults, seen>>

Collect ==
    \/ ListBuckets \/ ListPage
    \/ ListingFails \/ EndOfListing
    \/ \E n \in Ids : \/ GetBucketAcl(n) \/ GetPolicy(n)
                      \/ ListAttachedRolePolicies(n) \/ ReadFails(n)
    \/ GetPolicyVersion \/ ListInstanceProfiles
    \/ DescribeGroups \/ DescribeInstances \/ DescribeFails
    \/ Escape

\* The account changes between two calls.
Drift ==
    /\ drifts < MaxDrift
    /\ \E w \in Worlds \ {cloud} :
        /\ cloud' = w
        /\ seen' = IF call \in Services THEN seen \cup {w} ELSE seen
    /\ drifts' = drifts + 1
    /\ UNCHANGED <<call, listing, listed, todo, part, resources, failed, faults>>
================================================================================
