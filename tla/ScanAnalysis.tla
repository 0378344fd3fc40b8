------------------------------ MODULE ScanAnalysis -----------------------------
(***************************************************************************)
(* One scan from its input to its reports: an upload is parsed, or the     *)
(* account is collected; the rules are evaluated and the findings stored;  *)
(* compliance and attack paths are computed from them when they are asked  *)
(* for, the paths of a live scan from a second collection.  The account    *)
(* changes all the while.                                                  *)
(*                                                                         *)
(* How the handlers of several scans interleave is ScanPipeline's subject; *)
(* here it is what one of them computes.                                   *)
(***************************************************************************)
EXTENDS CloudCollector, ComplianceEngine, AttackPaths, UploadParser

VARIABLES
    stage,        \* how far the scan has come
    kind,         \* Scan.scan_type
    findings,     \* its rows in table findings
    scanned,      \* accounts there were during its collection (history)
    answer        \* of GET /scans/{id}/attack-paths

vars == <<account, collector, parser, stage, kind, findings, scanned, answer>>

ASSUME DocumentsAssumption ==
    /\ \A f \in Files : Content[f].doc \in Seq(Resource)
    /\ MappedRules = RuleIds

\* The variables keep to their types.
TypeOK ==
    /\ TypeOKCollector
    /\ TypeOKParser
    /\ stage \in {"new", "collecting", "failed", "stored", "joining", "answered"}
    /\ kind \in {"none", "STATIC", "LIVE"}
    /\ findings \subseteq Finding
    /\ scanned \subseteq Worlds
    /\ answer.nodes \subseteq PathNode
    /\ answer.links \subseteq Link
    /\ answer.paths \subseteq Path

Init ==
    /\ InitCollector /\ InitParser
    /\ stage = "new" /\ kind = "none"
    /\ findings = {} /\ scanned = {}
    /\ answer = NoAnswer

--------------------------------------------------------------------------------
(***************************************************************************)
(* upload_scan.  A refused file leaves nothing, and may be followed by     *)
(* another.                                                                *)
(***************************************************************************)
ReceiveUpload(f) ==
    /\ stage = "new"
    /\ Submit(f)
    /\ UNCHANGED <<account, collector, stage, kind, findings, scanned, answer>>

Parse ==
    /\ ParseReturns \/ ParseTimesOut
    /\ UNCHANGED <<account, collector, stage, kind, findings, scanned, answer>>

RunWorker(k) ==
    /\ WorkerEnds(k)
    /\ UNCHANGED <<account, collector, stage, kind, findings, scanned, answer>>

\* Mutant: a column that takes a null.
StoreUploadNullable ==
    /\ stage = "new" /\ parsing = "read"
    /\ stage' = "stored" /\ kind' = "STATIC"
    /\ findings' = Evaluate(Content[file].doc)
    /\ UNCHANGED <<account, collector, parser, scanned, answer>>

(***************************************************************************)
(* The two commits, of which the second fails for a finding without a      *)
(* resource_id: the scan stays, COMPLETED and without findings.            *)
(***************************************************************************)
StoreUpload ==
    /\ stage = "new" /\ parsing = "read"
    /\ stage' = "stored" /\ kind' = "STATIC"
    /\ LET found == Evaluate(Content[file].doc)
       IN  findings' = IF \E f \in found : f.resource_id = Null THEN {} ELSE found
    /\ UNCHANGED <<account, collector, parser, scanned, answer>>

(***************************************************************************)
(* scan_cloud_account: an exception of the collection is a 502, and no     *)
(* scan is stored.                                                         *)
(***************************************************************************)
StartCloudScan ==
    /\ stage = "new" /\ parsing = "no"
    /\ stage' = "collecting" /\ kind' = "LIVE"
    /\ StartCollection
    /\ UNCHANGED <<account, parser, findings, scanned, answer>>

CollectStep ==
    /\ Collect
    /\ UNCHANGED <<account, parser, stage, kind, findings, scanned, answer>>

StoreCloudScan ==
    /\ stage = "collecting" /\ call = "done"
    /\ stage' = "stored"
    /\ findings' = Evaluate(resources)
    /\ scanned' = seen
    /\ UNCHANGED <<account, collector, parser, kind, answer>>

CloudScanFails ==
    /\ stage = "collecting" /\ call = "escaped"
    /\ stage' = "failed"
    /\ UNCHANGED <<account, collector, parser, kind, findings, scanned, answer>>

(***************************************************************************)
(* get_attack_paths, up to the resources: a live scan's are collected      *)
(* again, an uploaded scan's are what its findings name.                   *)
(***************************************************************************)
AskForPaths ==
    /\ stage = "stored"
    /\ stage' = "joining"
    /\ \/ kind = "LIVE" /\ StartCollection
       \/ /\ kind = "STATIC"
          /\ \E order \in Orders(findings) :
                resources' = [i \in DOMAIN order |->
                                 Bare(order[i].resource_id, order[i].resource_type, <<>>)]
          /\ call' = "done"
          /\ UNCHANGED <<listing, listed, todo, part, failed, faults, seen>>
    /\ UNCHANGED <<account, parser, kind, findings, scanned, answer>>

\* The rest of get_attack_paths; a collection that escaped counts as empty.
AnswerPaths ==
    /\ stage = "joining" /\ call \in {"done", "escaped"}
    /\ stage' = "answered"
    /\ LET rs == IF call = "escaped" THEN <<>> ELSE Deduplicate(resources)
       IN  \E join \in Joins(findings), found \in FindAttackPaths(rs) :
               answer' = AttackPathResponse(rs, join, found)
    /\ UNCHANGED <<account, collector, parser, kind, findings, scanned>>

DriftStep ==
    /\ Drift
    /\ UNCHANGED <<parser, stage, kind, findings, scanned, answer>>

Next ==
    \/ \E f \in Files : ReceiveUpload(f)
    \/ \E k \in 1..MaxUploads : RunWorker(k)
    \/ Parse \/ StoreUpload
    \/ StartCloudScan \/ CollectStep \/ StoreCloudScan \/ CloudScanFails
    \/ AskForPaths \/ AnswerPaths
    \/ DriftStep

Spec == Init /\ [][Next]_vars

(***************************************************************************)
(* future.result() has a deadline and every call a timeout of its own; a   *)
(* worker's own progress is not assumed, nor anything of the callers.      *)
(***************************************************************************)
FairSpec == Spec /\ WF_vars(Parse) /\ WF_vars(CollectStep)

--------------------------------------------------------------------------------
Open(permissions) ==
    permissions # <<>> /\ permissions[1] # <<>> /\ permissions[1][1] = Anywhere

HasFindings == stage \in {"stored", "joining", "answered"}

(***************************************************************************)
(* Every finding of a live scan was true of the account at some moment of  *)
(* its collection, whatever failed and however the account changed between *)
(* the calls (collector.py, rule_engine.py).                               *)
(***************************************************************************)
FindingsWereTrue ==
    HasFindings /\ kind = "LIVE" =>
        \A f \in findings : \E rule \in Rules :
            /\ rule.rule_id = f.rule_id
            /\ \E w \in scanned :
                 \/ /\ f.resource_id \in DOMAIN Account[w].buckets
                    /\ Applies(rule, MapS3Bucket(f.resource_id, Account[w].buckets[f.resource_id]))
                 \/ /\ f.resource_id \in DOMAIN Account[w].policies
                    /\ Decodes(Account[w].policies[f.resource_id])
                    /\ Applies(rule, MapIamPolicy(f.resource_id, Account[w].policies[f.resource_id]))
                 \/ /\ f.resource_id \in DOMAIN Account[w].groups
                    /\ Applies(rule, MapSecurityGroup(f.resource_id, Account[w].groups[f.resource_id]))

Unfailed(service, n) == {<<service, n>>, <<service, None>>} \cap failed = {}

AllAlong(field, n) == \A w \in seen : n \in DOMAIN Account[w][field]

(***************************************************************************)
(* A call that fails costs the collection what the call was about and no   *)
(* more: what was there all along, and was not skipped for a failure of    *)
(* its own, is collected (the `continue`s and early returns of             *)
(* collector.py).                                                          *)
(***************************************************************************)
FailuresCostTheirPart ==
    call = "done" /\ seen # {} =>
        \A service \in Services, n \in Ids :
            /\ Unfailed(service, n) /\ AllAlong(Field[service], n)
            /\ service = "iam" => \A w \in seen : Account[w].policies[n].readable
            => \E i \in DOMAIN resources :
                  resources[i].resource_id = n /\ resources[i].resource_type = TypeOf[service]

(***************************************************************************)
(* A bucket the whole world could read all through a collection that read  *)
(* its ACL is found by the rules that look for it.                         *)
(***************************************************************************)
PublicBucketsAreFound ==
    stage = "collecting" /\ call = "done" =>
        \A b \in Ids, rule \in Rules :
            /\ Unfailed("s3", b)
            /\ \A w \in seen : b \in DOMAIN Account[w].buckets
                               /\ Account[w].buckets[b] \cap {"READ", "FULL_CONTROL"} # {}
            /\ rule.eval_path = "public_read" /\ rule.resource_type = "s3_bucket"
            /\ rule.op = "equals" /\ rule.arg = "true"
            => \E f \in Evaluate(resources) : f.resource_id = b /\ f.rule_id = rule.rule_id

(***************************************************************************)
(* Scores keep the order of severities, and only a Critical finding is     *)
(* called an anomaly (ml/scorer.py; the dashboard's top risks rely on it). *)
(***************************************************************************)
ScoresFollowSeverity ==
    \A f, g \in findings :
        /\ SeverityOrder[f.severity] > SeverityOrder[g.severity] => f.risk_score > g.risk_score
        /\ f.is_anomaly => f.severity = "Critical"

(***************************************************************************)
(* The report accounts for every finding: in each framework that has a     *)
(* control for its rule, that control fails and names the finding, a       *)
(* control that passes has none, and the totals say so: a framework has    *)
(* failures exactly when a finding bears on it, and what has not failed    *)
(* has passed.  A total is the number of distinct controls, as its         *)
(* docstring says, unless rules share one: then it is greater              *)
(* (compliance/engine.py).                                                 *)
(***************************************************************************)
ReportAccountsForFindings ==
    HasFindings =>
        LET report == BuildCompliance(findings)
            Of(fw) == {c \in report.controls : c.framework = fw}
            Bears(f, fw) == \E m \in ComplianceMap : m.rule_id = f.rule_id /\ ControlId(m, fw) # ""
        IN  \A fw \in Frameworks :
              /\ \A f \in findings : Bears(f, fw) =>
                    \E c \in Of(fw) : /\ c.status = "FAIL" /\ FindingId(f) \in c.finding_ids
                                      /\ c.rule_id = f.rule_id
              /\ \A c \in Of(fw) : c.status = "PASS" => ~\E f \in findings : f.rule_id = c.rule_id
              /\ LET sum == report.frameworks[fw]
                 IN  /\ sum.passed + sum.failed = sum.total
                     /\ sum.failed > 0 <=> \E f \in findings : Bears(f, fw)
                     /\ sum.total >= Cardinality({c.control_id : c \in Of(fw)})
                     /\ sum.total > Cardinality({c.control_id : c \in Of(fw)}) <=>
                           \E c, d \in Of(fw) : c.control_id = d.control_id /\ c.rule_id # d.rule_id

(***************************************************************************)
(* Each relation of an answer held in the account while it was being       *)
(* collected for the answer, each side at its own moment.  So an uploaded  *)
(* scan has none, whatever its file names its resources ("Do not invent    *)
(* relationships", attack_paths/routes.py).                                *)
(***************************************************************************)
LinksWereTrue ==
    stage = "answered" =>
        \A l \in answer.links :
            \/ /\ l.source = Internet /\ l.relationship = "EXPOSES"
               /\ \E v, w \in seen : \E g \in DOMAIN Account[v].groups :
                    /\ l.target \in DOMAIN Account[w].instances
                    /\ g \in Account[w].instances[l.target].groups
                    /\ Open(Account[v].groups[g])
            \/ /\ l.relationship = "ASSUMES"
               /\ \E v, w \in seen :
                    /\ l.source \in DOMAIN Account[v].instances /\ l.target \in DOMAIN Account[w].roles
                    /\ Account[v].instances[l.source].profile \in Account[w].roles[l.target].profiles
            \/ /\ l.relationship = "HAS_PERMISSION"
               /\ \E w \in seen : /\ l.source \in DOMAIN Account[w].roles
                                  /\ \E a \in Account[w].roles[l.source].policies : ArnName[a] = l.target

(***************************************************************************)
(* What map_role_attachment says it produces ("ASSUMES relationship        *)
(* information"): when nothing disturbs the second collection, an instance *)
(* whose profile is some role's is linked to a role.                       *)
(***************************************************************************)
AssumedRolesAreLinked ==
    stage = "answered" /\ kind = "LIVE" /\ call = "done" /\ failed = {} =>
        \A w \in Worlds : seen = {w} =>
            \A i \in DOMAIN Account[w].instances, r \in DOMAIN Account[w].roles :
                Account[w].instances[i].profile \in Account[w].roles[r].profiles =>
                    \E l \in answer.links : l.source = i /\ l.relationship = "ASSUMES"

(***************************************************************************)
(* An upload is answered though its worker may never end ("Shut down       *)
(* without waiting so the caller is never blocked", parser.py:62-66), and  *)
(* a collection ends however it is disturbed.                              *)
(***************************************************************************)
EveryScanEnds ==
    /\ parsing = "waiting" ~> parsing # "waiting"
    /\ call \in Services ~> call \in {"done", "escaped"}
================================================================================
