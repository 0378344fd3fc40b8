------------------------------ MODULE ScanPipeline -----------------------------
(***************************************************************************)
(* Scans in the backend process: how the handlers of routes.py and of the  *)
(* compliance routes write and read the scans, findings and audit_log      *)
(* tables while they run next to each other.  (get_attack_paths reads the  *)
(* same two tables in the same order, whatever the cloud answers it.)      *)
(*                                                                         *)
(* Two kinds of handler meet here.  `async def upload_scan` runs on the    *)
(* event loop, and from the file's bytes on it never awaits: until it      *)
(* returns, the server schedules no other handler and sends no answer,     *)
(* though handlers already on a thread of the pool go on.  Every other     *)
(* handler is a plain `def` on a thread.  Both kinds store a scan in two   *)
(* transactions, the row (already COMPLETED) first and its findings after. *)
(*                                                                         *)
(* A request is used once: it is sent, served, answered and delivered.     *)
(***************************************************************************)
EXTENDS Naturals, FiniteSets

CONSTANTS
    Users, Admins,    \* accounts, and those whose stored role is ADMIN
    Ops,              \* the operations the clients use, a subset of AllOps
    Reqs,             \* requests
    ScanIds,          \* identifiers uuid4 may produce
    Missing,          \* an identifier no scan will ever have
    Rules,            \* rule_ids of the rule files
    Mapped,           \* rule_ids with a row in compliance_map
    Batches,          \* rule_ids for which one evaluation may yield findings
    NoScan,           \* no row under the identifier
    NoReq,            \* the event loop is free
    MaxFaults         \* bound on database failures and crashes together

Writes == {"upload", "cloud"}
Reads == {"detail", "findings", "compliance", "paths"}
AllOps == Writes \cup Reads \cup {"list"}

ASSUME ConstantsAssumption ==
    /\ Admins \subseteq Users
    /\ Ops \subseteq AllOps
    /\ Missing \notin ScanIds
    /\ Mapped \subseteq Rules
    /\ Batches \subseteq SUBSET Rules
    /\ NoReq \notin Reqs
    /\ NoScan \notin [owner : Users, type : {"STATIC", "LIVE"}]
    /\ MaxFaults \in Nat

VARIABLES
    scans,       \* table scans
    findings,    \* table findings: the rule_ids found, by scan
    audit,       \* table audit_log: which request was denied what
    req,         \* every request: its client's side and its handler's locals
    loop,        \* the upload that holds the event loop, or NoReq
    disclosed,   \* scan identifiers some answer has brought to a client
    faults       \* database failures and crashes so far

vars == <<scans, findings, audit, req, loop, disclosed, faults>>

(***************************************************************************)
(* Every row is COMPLETED from its first commit on (routes.py never writes *)
(* IN_PROGRESS or FAILED), so the status is not kept.                      *)
(***************************************************************************)
Scan == [owner : Users, type : {"STATIC", "LIVE"}]

Stage == {"new", "sent", "authorized", "running", "evaluated", "scan stored",
          "findings stored", "loaded", "answered", "done"}

Reply == {"none", "200", "400", "403", "404", "500", "502"}

(***************************************************************************)
(* user, op and scan are what the client sent (a write gets its scan from  *)
(* the handler); batch is findings_data; seen and listed are what a read   *)
(* found in the database.                                                  *)
(***************************************************************************)
Request == [pc : Stage, user : Users, op : AllOps, scan : ScanIds \cup {Missing},
            batch : SUBSET Rules, seen : SUBSET Rules, listed : SUBSET ScanIds,
            reply : Reply]

Stored == {s \in ScanIds : scans[s] # NoScan}

Owned(u) == {s \in Stored : scans[s].owner = u}

TypeOK ==
    /\ scans \in [ScanIds -> Scan \cup {NoScan}]
    /\ findings \in [ScanIds -> SUBSET Rules]
    /\ audit \subseteq Reqs \X {"role_check_denied", "scan_access_denied"}
    /\ req \in [Reqs -> Request]
    /\ loop \in Reqs \cup {NoReq}
    /\ disclosed \subseteq ScanIds
    /\ faults \in 0..MaxFaults

Init ==
    /\ scans = [s \in ScanIds |-> NoScan]
    /\ findings = [s \in ScanIds |-> {}]
    /\ audit = {}
    /\ req \in [Reqs -> [pc : {"new"}, user : Users, op : Ops, scan : {Missing},
                         batch : {{}}, seen : {{}}, listed : {{}}, reply : {"none"}]]
    /\ loop = NoReq
    /\ disclosed = {}
    /\ faults = 0

--------------------------------------------------------------------------------
\* The event loop takes up another task only when no upload holds it.
LoopFree == loop = NoReq

ReleaseLoop(r) == loop' = IF loop = r THEN NoReq ELSE loop

\* The database refuses a statement or a commit; SQLAlchemy rolls back.
Fault ==
    /\ faults < MaxFaults
    /\ faults' = faults + 1

Answer(r, code) ==
    req' = [req EXCEPT ![r].pc = "answered", ![r].reply = code]

Advance(r, stage) == req' = [req EXCEPT ![r].pc = stage]

(***************************************************************************)
(* A client sends a request, and get_current_user knows its user.  A scan  *)
(* in its path is one some answer named, to this client or to another, or  *)
(* does not exist.                                                         *)
(***************************************************************************)
Send(r, s) ==
    /\ req[r].pc = "new"
    /\ s \in IF req[r].op \in Reads THEN disclosed \cup {Missing} ELSE {Missing}
    /\ req' = [req EXCEPT ![r].pc = "sent", ![r].scan = s]
    /\ UNCHANGED <<scans, findings, audit, loop, disclosed, faults>>

\* Mutant: the action is misspelt.
LogEventMisspelt(r, action) ==
    \/ audit' = audit \cup {<<r, "denied">>} /\ UNCHANGED faults
    \/ Fault /\ UNCHANGED audit

(***************************************************************************)
(* audit.log_event: an insert in a transaction of its own.  Its failure is *)
(* logged and rolled back, and the request goes on as if it had not        *)
(* failed.                                                                 *)
(***************************************************************************)
LogEvent(r, action) ==
    \/ audit' = audit \cup {<<r, action>>} /\ UNCHANGED faults
    \/ Fault /\ UNCHANGED audit

(***************************************************************************)
(* rbac.require_role: only an ADMIN writes; both roles, hence every user,  *)
(* may read.  The dependency runs on a thread.                             *)
(***************************************************************************)
Allowed(r) == req[r].op \in Writes => req[r].user \in Admins

Authorize(r) ==
    /\ req[r].pc = "sent"
    /\ Allowed(r)
    /\ Advance(r, "authorized")
    /\ UNCHANGED <<scans, findings, audit, loop, disclosed, faults>>

RoleDenied(r) ==
    /\ req[r].pc = "sent"
    /\ ~Allowed(r)
    /\ LogEvent(r, "role_check_denied")
    /\ Answer(r, "403")
    /\ UNCHANGED <<scans, findings, loop, disclosed>>

\* The loop hands the handler of a plain `def` to a thread.
Dispatch(r) ==
    /\ req[r].pc = "authorized" /\ req[r].op # "upload"
    /\ LoopFree
    /\ Advance(r, "running")
    /\ UNCHANGED <<scans, findings, audit, loop, disclosed, faults>>

--------------------------------------------------------------------------------
(***************************************************************************)
(* upload_scan on the loop: extension, size and parse are checked, and the *)
(* file is refused with 400, or evaluated.                                 *)
(***************************************************************************)
UploadRefuse(r) ==
    /\ req[r].pc = "authorized" /\ req[r].op = "upload"
    /\ LoopFree
    /\ Answer(r, "400")
    /\ UNCHANGED <<scans, findings, audit, loop, disclosed, faults>>

\* Mutant: a plain `def upload_scan`, on a thread like every other handler.
UploadEvaluateOnThread(r, b) ==
    /\ req[r].pc = "authorized" /\ req[r].op = "upload"
    /\ LoopFree
    /\ req' = [req EXCEPT ![r].pc = "evaluated", ![r].batch = b]
    /\ UNCHANGED <<scans, findings, audit, loop, disclosed, faults>>

UploadEvaluate(r, b) ==
    /\ req[r].pc = "authorized" /\ req[r].op = "upload"
    /\ LoopFree
    /\ loop' = r
    /\ req' = [req EXCEPT ![r].pc = "evaluated", ![r].batch = b]
    /\ UNCHANGED <<scans, findings, audit, disclosed, faults>>

\* scan_cloud_account: any exception of the collection is a 502.
CloudFail(r) ==
    /\ req[r].pc = "running" /\ req[r].op = "cloud"
    /\ Answer(r, "502")
    /\ UNCHANGED <<scans, findings, audit, loop, disclosed, faults>>

CloudEvaluate(r, b) ==
    /\ req[r].pc = "running" /\ req[r].op = "cloud"
    /\ req' = [req EXCEPT ![r].pc = "evaluated", ![r].batch = b]
    /\ UNCHANGED <<scans, findings, audit, loop, disclosed, faults>>

\* The first commit: the row, under a fresh identifier.
StoreScan(r, s) ==
    /\ req[r].pc = "evaluated"
    /\ scans[s] = NoScan
    /\ scans' = [scans EXCEPT ![s] =
                   [owner |-> req[r].user,
                    type |-> IF req[r].op = "upload" THEN "STATIC" ELSE "LIVE"]]
    /\ req' = [req EXCEPT ![r].pc = "scan stored", ![r].scan = s]
    /\ UNCHANGED <<findings, audit, loop, disclosed, faults>>

\* Mutant: the findings are added to the session but never committed.
StoreFindingsUncommitted(r) ==
    /\ req[r].pc = "scan stored"
    /\ req[r].batch \subseteq Mapped
    /\ Advance(r, "findings stored")
    /\ UNCHANGED <<scans, findings, audit, loop, disclosed, faults>>

(***************************************************************************)
(* The second commit: all findings or none.  It fails for a rule that has  *)
(* no row in compliance_map (findings.rule_id is a foreign key), and in    *)
(* the same way for a finding whose resource_id is null (NOT NULL, see     *)
(* RuleEngine.FindingOf): Mapped is what can be stored.                    *)
(***************************************************************************)
StoreFindings(r) ==
    /\ req[r].pc = "scan stored"
    /\ req[r].batch \subseteq Mapped
    /\ findings' = [findings EXCEPT ![req[r].scan] = req[r].batch]
    /\ Advance(r, "findings stored")
    /\ UNCHANGED <<scans, audit, loop, disclosed, faults>>

\* Mutant: one commit per finding; those before the unmapped one stay.
StoreFindingsOneByOne(r) ==
    /\ req[r].pc = "scan stored"
    /\ ~(req[r].batch \subseteq Mapped)
    /\ findings' = [findings EXCEPT ![req[r].scan] = req[r].batch \cap Mapped]
    /\ Answer(r, "500")
    /\ ReleaseLoop(r)
    /\ UNCHANGED <<scans, audit, disclosed, faults>>

\* Mutant: the failed commit is tried again, for ever.
StoreFindingsRetry(r) ==
    /\ req[r].pc = "scan stored"
    /\ ~(req[r].batch \subseteq Mapped)
    /\ UNCHANGED vars

StoreFindingsUnmapped(r) ==
    /\ req[r].pc = "scan stored"
    /\ ~(req[r].batch \subseteq Mapped)
    /\ Answer(r, "500")
    /\ ReleaseLoop(r)
    /\ UNCHANGED <<scans, findings, audit, disclosed, faults>>

\* UploadResponse: the handler returns, and with it an upload leaves the loop.
WriteAnswer(r) ==
    /\ req[r].pc = "findings stored"
    /\ Answer(r, "200")
    /\ ReleaseLoop(r)
    /\ UNCHANGED <<scans, findings, audit, disclosed, faults>>

(***************************************************************************)
(* A commit, or the reload of the row after one, fails in the database: an *)
(* unhandled exception, hence 500.  What was committed before stays.       *)
(***************************************************************************)
WriteFault(r) ==
    /\ req[r].pc \in {"evaluated", "scan stored", "findings stored"}
    /\ Fault
    /\ Answer(r, "500")
    /\ ReleaseLoop(r)
    /\ UNCHANGED <<scans, findings, audit, disclosed>>

--------------------------------------------------------------------------------
\* GET /scans: one query.
ListScans(r) ==
    /\ req[r].pc = "running" /\ req[r].op = "list"
    /\ req' = [req EXCEPT ![r].pc = "answered", ![r].reply = "200",
                          ![r].listed = Owned(req[r].user)]
    /\ UNCHANGED <<scans, findings, audit, loop, disclosed, faults>>

\* Mutant: any stored scan will do.
LoadAnyScan(r) ==
    /\ req[r].pc = "running" /\ req[r].op \in Reads
    /\ req[r].scan \in Stored
    /\ Advance(r, "loaded")
    /\ UNCHANGED <<scans, findings, audit, loop, disclosed, faults>>

\* _load_owned_scan: the row, if it is the caller's.
LoadOwnedScan(r) ==
    /\ req[r].pc = "running" /\ req[r].op \in Reads
    /\ req[r].scan \in Owned(req[r].user)
    /\ Advance(r, "loaded")
    /\ UNCHANGED <<scans, findings, audit, loop, disclosed, faults>>

\* Mutant: the refusal is not logged.
LoadDeniedSilently(r) ==
    /\ req[r].pc = "running" /\ req[r].op \in Reads
    /\ req[r].scan \notin Owned(req[r].user)
    /\ Answer(r, "404")
    /\ UNCHANGED <<scans, findings, audit, loop, disclosed, faults>>

LoadDenied(r) ==
    /\ req[r].pc = "running" /\ req[r].op \in Reads
    /\ req[r].scan \notin Owned(req[r].user)
    /\ LogEvent(r, "scan_access_denied")
    /\ Answer(r, "404")
    /\ UNCHANGED <<scans, findings, loop, disclosed>>

\* scan.findings: a second query, after the row was loaded.
ReadFindings(r) ==
    /\ req[r].pc = "loaded"
    /\ req' = [req EXCEPT ![r].pc = "answered", ![r].reply = "200",
                          ![r].seen = findings[req[r].scan]]
    /\ UNCHANGED <<scans, findings, audit, loop, disclosed, faults>>

ReadFault(r) ==
    /\ req[r].op \notin Writes
    /\ req[r].pc \in {"running", "loaded"}
    /\ Fault
    /\ Answer(r, "500")
    /\ UNCHANGED <<scans, findings, audit, loop, disclosed>>

--------------------------------------------------------------------------------
\* What a successful answer tells the client.
Tells(r) ==
    CASE req[r].reply # "200" -> {}
      [] req[r].op = "list" -> req[r].listed
      [] OTHER -> {req[r].scan}

\* The loop sends the answer, and the client is there to read it.
Deliver(r) ==
    /\ req[r].pc = "answered"
    /\ LoopFree
    /\ Advance(r, "done")
    /\ disclosed' = disclosed \cup Tells(r)
    /\ UNCHANGED <<scans, findings, audit, loop, faults>>

\* The client is gone.
DeliverToNobody(r) ==
    /\ req[r].pc = "answered"
    /\ LoopFree
    /\ Advance(r, "done")
    /\ UNCHANGED <<scans, findings, audit, loop, disclosed, faults>>

(***************************************************************************)
(* The process dies: requests in flight end where they are, without a      *)
(* reply or with one that is never delivered; the tables stay.             *)
(***************************************************************************)
Crash ==
    /\ Fault
    /\ req' = [r \in Reqs |-> IF req[r].pc \in {"new", "done"} THEN req[r]
                              ELSE [req[r] EXCEPT !.pc = "done"]]
    /\ loop' = NoReq
    /\ UNCHANGED <<scans, findings, audit, disclosed>>

\* What the server does of itself about a request it has accepted.
Serve(r) ==
    \/ Authorize(r) \/ RoleDenied(r) \/ Dispatch(r)
    \/ UploadRefuse(r) \/ CloudFail(r)
    \/ \E b \in Batches : UploadEvaluate(r, b) \/ CloudEvaluate(r, b)
    \/ \E s \in ScanIds : StoreScan(r, s)
    \/ StoreFindings(r) \/ StoreFindingsUnmapped(r) \/ WriteAnswer(r)
    \/ ListScans(r) \/ LoadOwnedScan(r) \/ LoadDenied(r) \/ ReadFindings(r)
    \/ Deliver(r) \/ DeliverToNobody(r)

Next ==
    \/ \E r \in Reqs : Serve(r) \/ WriteFault(r) \/ ReadFault(r)
    \/ \E r \in Reqs, s \in ScanIds \cup {Missing} : Send(r, s)
    \/ Crash

Spec == Init /\ [][Next]_vars

\* Threads run, and the loop returns to a task that is ready.
FairSpec == Spec /\ \A r \in Reqs : WF_vars(Serve(r))

--------------------------------------------------------------------------------
\* The request that stored a scan.
Wrote(r, s) == req[r].op \in Writes /\ req[r].scan = s

InFlight(r) == req[r].pc \notin {"new", "done"}

\* What the compliance report says of a rule, from the findings it was given.
Status(r, rule) == IF rule \in req[r].seen THEN "FAIL" ELSE "PASS"

ToldOf(r) == req[r].op \in Reads /\ req[r].reply = "200"

(***************************************************************************)
(* An acknowledged scan is stored whole and stays so: the count of the     *)
(* UploadResponse is the count of the findings in the table, whatever      *)
(* happens after -- crashes, other scans, failures of other requests.      *)
(***************************************************************************)
AcknowledgedIsStored ==
    \A r \in Reqs : req[r].op \in Writes /\ req[r].reply = "200" =>
        /\ req[r].scan \in Owned(req[r].user)
        /\ findings[req[r].scan] = req[r].batch

(***************************************************************************)
(* The tables never mix requests: each stored scan is the work of one      *)
(* request of an administrator, and its findings are none or all of what   *)
(* that request's evaluation produced.                                     *)
(***************************************************************************)
StoredByOneRequest ==
    \A s \in ScanIds :
        IF s \in Stored
        THEN \E r \in Reqs :
                /\ Wrote(r, s)
                /\ \A q \in Reqs : Wrote(q, s) => q = r
                /\ req[r].user = scans[s].owner /\ req[r].user \in Admins
                /\ findings[s] \in {{}, req[r].batch}
        ELSE findings[s] = {}

(***************************************************************************)
(* A scan's content is read for its owner only, by its identifier or in a  *)
(* list, and stays his: no later step hands the scan to another account.   *)
(***************************************************************************)
OnlyTheOwnerIsTold ==
    \A r \in Reqs :
        /\ ToldOf(r) => req[r].scan \in Owned(req[r].user)
        /\ req[r].listed \subseteq Owned(req[r].user)

(***************************************************************************)
(* Exactly the refusals are recorded: every entry is of a request refused  *)
(* in that way, and a refusal without entry means a failed database.       *)
(***************************************************************************)
RefusalsAreAudited ==
    \A r \in Reqs :
        /\ <<r, "role_check_denied">> \in audit => req[r].reply = "403"
        /\ <<r, "scan_access_denied">> \in audit => req[r].reply = "404"
        /\ req[r].reply = "403" => <<r, "role_check_denied">> \in audit \/ faults > 0
        /\ req[r].reply = "404" => <<r, "scan_access_denied">> \in audit \/ faults > 0

(***************************************************************************)
(* A report on an uploaded scan that was acknowledged, or that is still    *)
(* being written, is made from all of its findings.  The two commits are   *)
(* apart, but upload_scan keeps the event loop between them, so no answer  *)
(* can name the scan to a reader before its findings are in.               *)
(***************************************************************************)
UploadsAreSeenWhole ==
    \A r, w \in Reqs :
        ToldOf(r) /\ Wrote(w, req[r].scan) /\ req[w].op = "upload"
            /\ (req[w].reply = "200" \/ (InFlight(w) /\ req[w].reply = "none"))
        => req[r].seen = req[w].batch

(***************************************************************************)
(* What compliance/engine.py and docs/phase7-compliance_M1.md say: "PASS   *)
(* means that no finding was produced for that rule in this scan".         *)
(***************************************************************************)
PassMeansNoFinding ==
    \A r, w \in Reqs :
        ToldOf(r) /\ req[r].op = "compliance" /\ Wrote(w, req[r].scan) =>
            \A rule \in Mapped : Status(r, rule) = "PASS" => rule \notin req[w].batch

(***************************************************************************)
(* Every request the server accepts ends: answered, or lost in a crash.    *)
(***************************************************************************)
EveryRequestEnds ==
    \A r \in Reqs : req[r].pc = "sent" ~> req[r].pc = "done"

--------------------------------------------------------------------------------
(***************************************************************************)
(* Uploads implement AtomicScans: what a scan is published with is what    *)
(* the tables hold once the upload that writes it has left the loop.  Live *)
(* scans run beside them but do not take part.                             *)
(***************************************************************************)
Hidden == NoScan

ASSUME HiddenAssumption == Hidden \notin [owner : Users, findings : SUBSET Rules]

Static(s) == s \in Stored /\ scans[s].type = "STATIC"

BeingUploaded(s) == loop # NoReq /\ Wrote(loop, s)

PublishedContent ==
    [s \in ScanIds |->
        IF Static(s) /\ ~BeingUploaded(s)
        THEN [owner |-> scans[s].owner, findings |-> findings[s]]
        ELSE Hidden]

\* What each reader of an uploaded scan was told.
ReportMade ==
    [r \in Reqs |->
        IF ToldOf(r) /\ Static(req[r].scan)
        THEN [owner |-> scans[req[r].scan].owner, findings |-> req[r].seen]
        ELSE Hidden]

Atomic == INSTANCE AtomicScans
              WITH Readers <- Reqs, store <- PublishedContent, report <- ReportMade

\* Every step of the handlers publishes a whole upload, reports one, or neither.
UploadsAreAtomic == Atomic!Spec
================================================================================
