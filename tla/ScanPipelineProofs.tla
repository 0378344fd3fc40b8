--------------------------- MODULE ScanPipelineProofs --------------------------
(***************************************************************************)
(* Theorems about ScanPipeline, for any number of requests, accounts,      *)
(* scans, rules and failures.                                              *)
(*                                                                         *)
(* The argument for uploads: between its two commits an upload holds the   *)
(* event loop (LoopHeld), identifiers reach clients only in answers the    *)
(* loop sends (ReadsAreOfDisclosed), hence nobody can ask for a scan that  *)
(* is being uploaded (UploadsAreUndisclosed).                              *)
(***************************************************************************)
EXTENDS ScanPipeline, TLAPS

\* The stages of a write between its evaluation and its answer.
Writing == {"evaluated", "scan stored", "findings stored"}

Uploading(r) == req[r].op = "upload" /\ req[r].pc \in Writing

\* Which stages a request can be in, and when it has a reply.
StageOK(r) ==
    /\ req[r].pc = "new" => req[r].scan = Missing
    /\ req[r].pc \in Writing => req[r].op \in Writes
    /\ req[r].pc = "loaded" => req[r].op \in Reads
    /\ req[r].pc = "running" => req[r].op # "upload"
    /\ req[r].reply # "none" => req[r].pc \in {"answered", "done"}
    /\ req[r].pc = "answered" => req[r].reply # "none"
    /\ req[r].pc \notin {"new", "sent", "answered", "done"} => Allowed(r)

\* A write has no scan before its first commit, and its own after that.
WriteOK(r) ==
    req[r].op \in Writes =>
        /\ req[r].pc \in {"new", "sent", "authorized", "running", "evaluated"}
             => req[r].scan = Missing
        /\ req[r].pc \in {"scan stored", "findings stored"} => req[r].scan # Missing
        /\ req[r].scan # Missing =>
             /\ req[r].user \in Admins
             /\ scans[req[r].scan] =
                  [owner |-> req[r].user,
                   type |-> IF req[r].op = "upload" THEN "STATIC" ELSE "LIVE"]
             /\ findings[req[r].scan] \in {{}, req[r].batch}
        /\ req[r].pc = "findings stored" \/ req[r].reply = "200" =>
             /\ req[r].scan # Missing
             /\ findings[req[r].scan] = req[r].batch

\* A read is of a scan some answer named, and goes on only for its owner.
ReadOK(r) ==
    /\ req[r].op \in Reads => req[r].scan \in disclosed \cup {Missing}
    /\ req[r].op \in Reads /\ (req[r].pc = "loaded" \/ req[r].reply = "200")
         => req[r].scan \in Owned(req[r].user)
    /\ req[r].listed \subseteq Owned(req[r].user)

LoopHeld == \A r \in Reqs : Uploading(r) <=> loop = r

UploadsAreUndisclosed == \A r \in Reqs : Uploading(r) => req[r].scan \notin disclosed

OneWriter ==
    \A q, r \in Reqs :
        /\ req[q].op \in Writes /\ req[r].op \in Writes
        /\ req[q].scan = req[r].scan /\ req[q].scan # Missing
        => q = r

EveryScanHasAWriter ==
    \A s \in ScanIds : IF s \in Stored THEN \E r \in Reqs : Wrote(r, s)
                                       ELSE findings[s] = {}

IInv ==
    /\ TypeOK
    /\ \A r \in Reqs : StageOK(r) /\ WriteOK(r) /\ ReadOK(r)
    /\ LoopHeld
    /\ UploadsAreUndisclosed
    /\ disclosed \subseteq Stored
    /\ OneWriter
    /\ EveryScanHasAWriter
    /\ UploadsAreSeenWhole

--------------------------------------------------------------------------------
LEMMA InitIInv == Init => IInv
<1> SUFFICES ASSUME Init PROVE IInv
  OBVIOUS
<1>1. \A r \in Reqs :
        /\ req[r] \in Request
        /\ req[r].pc = "new" /\ req[r].scan = Missing /\ req[r].reply = "none"
        /\ req[r].listed = {}
  BY ConstantsAssumption DEF Init, Request, Stage, Reply
<1>2. req \in [Reqs -> Request]
  BY <1>1 DEF Init
<1>3. Stored = {}
  BY DEF Init, Stored
<1>4. TypeOK
  BY <1>2, ConstantsAssumption DEF Init, TypeOK
<1>5. \A r \in Reqs : StageOK(r) /\ WriteOK(r) /\ ReadOK(r)
  BY <1>1 DEF StageOK, WriteOK, ReadOK, Writing
<1>6. LoopHeld /\ UploadsAreUndisclosed
  BY <1>1, ConstantsAssumption DEF Init, LoopHeld, UploadsAreUndisclosed, Uploading, Writing
<1>7. OneWriter /\ UploadsAreSeenWhole
  BY <1>1 DEF OneWriter, UploadsAreSeenWhole, ToldOf
<1>8. EveryScanHasAWriter
  BY <1>3 DEF Init, EveryScanHasAWriter
<1> QED
  BY <1>3, <1>4, <1>5, <1>6, <1>7, <1>8 DEF IInv, Init

(***************************************************************************)
(* A step that moves one request between stages in which it writes nothing *)
(* and leaves the tables, the loop and the disclosed identifiers alone.    *)
(* What is left to show of such a step concerns that request only.         *)
(***************************************************************************)
LEMMA LocalStep ==
    ASSUME IInv, NEW r \in Reqs,
           TypeOK',
           UNCHANGED <<scans, findings, loop, disclosed>>,
           \A q \in Reqs : q # r => req'[q] = req[q],
           req'[r].user = req[r].user /\ req'[r].op = req[r].op,
           req'[r].scan = req[r].scan \/ req[r].op \in Reads,
           req[r].pc \in {"new", "sent", "authorized", "running", "loaded"},
           req'[r].pc \notin Writing,
           StageOK(r)', WriteOK(r)', ReadOK(r)',
           ToldOf(r)' => /\ req'[r].scan \in disclosed
                         /\ req'[r].seen = findings[req'[r].scan]
    PROVE  IInv'
<1> USE DEF IInv
<1>1. Stored' = Stored /\ \A u : Owned(u)' = Owned(u)
  BY DEF Stored, Owned
<1>2. \A q \in Reqs : StageOK(q)' /\ WriteOK(q)' /\ ReadOK(q)'
  <2> TAKE q \in Reqs
  <2>1. CASE q = r
    BY <2>1
  <2>2. CASE q # r
    BY <1>1, <2>2, ZenonT(60) DEF StageOK, WriteOK, ReadOK, Allowed
  <2> QED
    BY <2>1, <2>2
<1>3. \A q \in Reqs : Uploading(q)' <=> Uploading(q)
  BY DEF Uploading, Writing
<1>4. LoopHeld' /\ UploadsAreUndisclosed'
  <2>1. \A q \in Reqs : Uploading(q) => req'[q] = req[q]
    BY DEF Uploading, Writing
  <2> QED
    BY <1>3, <2>1 DEF LoopHeld, UploadsAreUndisclosed
<1>5. \A q \in Reqs : req[q].op \in Writes \/ req'[q].op \in Writes =>
                        req'[q].scan = req[q].scan /\ req'[q].op = req[q].op
  BY DEF Writes, Reads
<1>6. OneWriter' /\ EveryScanHasAWriter'
  BY <1>1, <1>5 DEF OneWriter, EveryScanHasAWriter, Wrote
<1>7. UploadsAreSeenWhole'
  <2> SUFFICES ASSUME NEW q \in Reqs, NEW w \in Reqs,
                      ToldOf(q)', req'[w].op = "upload", req'[w].scan = req'[q].scan,
                      \/ req'[w].reply = "200"
                      \/ InFlight(w)' /\ req'[w].reply = "none"
               PROVE  req'[q].seen = req'[w].batch
    BY DEF UploadsAreSeenWhole, Wrote
  <2>1. req'[q].scan \in ScanIds /\ req'[q].scan # Missing
    BY <1>2, ConstantsAssumption DEF ReadOK, ToldOf, Owned, Stored
  <2>2. w # r /\ req'[w] = req[w]
    BY <2>1, ZenonT(60) DEF StageOK, WriteOK, Writes, Reads
  <2>3. CASE q # r
    BY <2>2, <2>3 DEF UploadsAreSeenWhole, Wrote, ToldOf, InFlight, Writes
  <2>4. CASE q = r
    <3>1. req[w].scan \in disclosed /\ req'[q].seen = findings[req[w].scan]
      BY <2>2, <2>4
    <3>2. ~Uploading(w)
      BY <3>1 DEF UploadsAreUndisclosed
    <3>3. req[w].reply = "200"
      <4>1. req[w].pc \in Stage
        BY DEF TypeOK, Request
      <4>2. req[w].op \in Writes /\ req[w].scan # Missing
        BY <2>1, <2>2 DEF Writes
      <4>3. req[w].pc \notin Writing
        BY <2>2, <3>2 DEF Uploading
      <4>4. req[w].pc \in {"answered", "done"}
        BY <4>1, <4>2, <4>3 DEF WriteOK, StageOK, Writing, Stage, Reads, Writes
      <4> QED
        BY <2>2, <4>4 DEF StageOK, InFlight
    <3> QED
      BY <2>2, <3>1, <3>3 DEF WriteOK, Writes
  <2> QED
    BY <2>3, <2>4
<1> QED
  BY <1>1, <1>2, <1>4, <1>6, <1>7

(***************************************************************************)
(* The actions that are local steps, by what they do to the request.       *)
(***************************************************************************)
LEMMA UpdateOne ==
    ASSUME TypeOK, NEW r \in Reqs, NEW n \in Request, req' = [req EXCEPT ![r] = n]
    PROVE  /\ req' \in [Reqs -> Request]
           /\ req'[r] = n
           /\ \A q \in Reqs : q # r => req'[q] = req[q]
  BY DEF TypeOK

\* log_event adds an entry to the table or leaves it as it is.
LEMMA LogEventTypes ==
    ASSUME TypeOK, NEW r \in Reqs,
           NEW action \in {"role_check_denied", "scan_access_denied"},
           LogEvent(r, action)
    PROVE  /\ audit' \subseteq Reqs \X {"role_check_denied", "scan_access_denied"}
           /\ faults' \in 0..MaxFaults
  BY ConstantsAssumption DEF LogEvent, Fault, TypeOK

LEMMA SendKeepsIInv ==
    ASSUME IInv, NEW r \in Reqs, NEW s \in ScanIds \cup {Missing}, Send(r, s)
    PROVE  IInv'
<1> USE DEF IInv
<1> DEFINE n == [req[r] EXCEPT !.pc = "sent", !.scan = s]
<1>1. /\ req[r].pc = "new" /\ req' = [req EXCEPT ![r] = n]
      /\ UNCHANGED <<scans, findings, audit, loop, disclosed, faults>>
      /\ s \in IF req[r].op \in Reads THEN disclosed \cup {Missing} ELSE {Missing}
  BY DEF Send
<1>2. n \in Request /\ req[r] \in Request
  BY DEF TypeOK, Request, Stage
<1>3. /\ req' \in [Reqs -> Request] /\ req'[r] = n
      /\ \A q \in Reqs : q # r => req'[q] = req[q]
  BY <1>1, <1>2, UpdateOne
<1>4. TypeOK'
  BY <1>1, <1>3 DEF TypeOK
<1>5. /\ n.pc = "sent" /\ n.scan = s /\ n.user = req[r].user /\ n.op = req[r].op
      /\ n.reply = req[r].reply /\ n.listed = req[r].listed /\ req[r].reply = "none"
  BY <1>1, <1>2 DEF Request, StageOK
<1>6. Stored' = Stored /\ \A u : Owned(u)' = Owned(u)
  BY <1>1 DEF Stored, Owned
<1>7. req[r].op \in Writes => req[r].scan = Missing
  BY <1>1 DEF WriteOK
<1>8. StageOK(r)' /\ WriteOK(r)' /\ ReadOK(r)'
  BY <1>1, <1>3, <1>5, <1>6, <1>7 DEF StageOK, WriteOK, ReadOK, Writing, Writes, Reads
<1>9. ~ToldOf(r)'
  BY <1>3, <1>5 DEF ToldOf
<1>10. req'[r].scan = req[r].scan \/ req[r].op \in Reads
  <2>1. CASE req[r].op \in Reads
    BY <2>1
  <2>2. CASE req[r].op \notin Reads
    <3>1. req[r].scan = Missing
      BY <1>1 DEF StageOK
    <3> QED
      BY <1>1, <1>3, <1>5, <2>2, <3>1
  <2> QED
    BY <2>1, <2>2
<1> QED
  BY <1>1, <1>3, <1>4, <1>5, <1>8, <1>9, <1>10, LocalStep DEF Writing

\* The role check lets the request pass.
LEMMA AuthorizeKeepsIInv ==
    ASSUME IInv, NEW r \in Reqs, Authorize(r)
    PROVE  IInv'
<1> USE DEF IInv
<1> DEFINE n == [req[r] EXCEPT !.pc = "authorized"]
<1>1. /\ req[r].pc = "sent" /\ req' = [req EXCEPT ![r] = n]
      /\ UNCHANGED <<scans, findings, audit, loop, disclosed, faults>>
      /\ Allowed(r)
  BY DEF Authorize, Advance
<1>2. n \in Request /\ req[r] \in Request
  BY DEF TypeOK, Request, Stage, Reply
<1>3. /\ req' \in [Reqs -> Request] /\ req'[r] = n
      /\ \A q \in Reqs : q # r => req'[q] = req[q]
  BY <1>1, <1>2, UpdateOne
<1>4. TypeOK'
  BY <1>1, <1>3 DEF TypeOK
<1>5. req[r].reply = "none"
  BY <1>1 DEF StageOK
<1>6. Stored' = Stored /\ \A u : Owned(u)' = Owned(u)
  BY <1>1 DEF Stored, Owned
<1>7. StageOK(r)'
  BY <1>1, <1>2, <1>3, <1>5 DEF StageOK, Allowed, Request, Writing, Writes, Reads
<1>8. WriteOK(r)'
  BY <1>1, <1>2, <1>3, <1>5 DEF WriteOK, StageOK, Request, Writes, Reads
<1>9. ReadOK(r)'
  BY <1>1, <1>2, <1>3, <1>5, <1>6 DEF ReadOK, Request, Writes, Reads
<1>10. ToldOf(r)' => req'[r].scan \in disclosed /\ req'[r].seen = findings[req'[r].scan]
  BY <1>1, <1>3, <1>5 DEF ToldOf, Reads, StageOK
<1> QED
  BY <1>1, <1>2, <1>3, <1>4, <1>5, <1>7, <1>8, <1>9, <1>10, LocalStep
     DEF Request, Writing

\* The role check refuses a write.
LEMMA RoleDeniedKeepsIInv ==
    ASSUME IInv, NEW r \in Reqs, RoleDenied(r)
    PROVE  IInv'
<1> USE DEF IInv
<1> DEFINE n == [req[r] EXCEPT !.pc = "answered", !.reply = "403"]
<1>1. /\ req[r].pc = "sent" /\ req' = [req EXCEPT ![r] = n]
      /\ UNCHANGED <<scans, findings, loop, disclosed>>
      /\ req[r].op \in Writes
  BY DEF RoleDenied, Answer, Allowed
<1>2. n \in Request /\ req[r] \in Request
  BY DEF TypeOK, Request, Stage, Reply
<1>3. /\ req' \in [Reqs -> Request] /\ req'[r] = n
      /\ \A q \in Reqs : q # r => req'[q] = req[q]
  BY <1>1, <1>2, UpdateOne
<1>4. TypeOK'
  BY <1>1, <1>3, LogEventTypes DEF TypeOK, RoleDenied
<1>5. req[r].reply = "none"
  BY <1>1 DEF StageOK
<1>6. Stored' = Stored /\ \A u : Owned(u)' = Owned(u)
  BY <1>1 DEF Stored, Owned
<1>7. StageOK(r)'
  BY <1>1, <1>2, <1>3, <1>5 DEF StageOK, Allowed, Request, Writing, Writes, Reads
<1>8. WriteOK(r)'
  BY <1>1, <1>2, <1>3, <1>5 DEF WriteOK, StageOK, Request, Writes, Reads
<1>9. ReadOK(r)'
  BY <1>1, <1>2, <1>3, <1>5, <1>6 DEF ReadOK, Request, Writes, Reads
<1>10. ToldOf(r)' => req'[r].scan \in disclosed /\ req'[r].seen = findings[req'[r].scan]
  BY <1>1, <1>3, <1>5 DEF ToldOf, Reads, StageOK
<1> QED
  BY <1>1, <1>2, <1>3, <1>4, <1>5, <1>7, <1>8, <1>9, <1>10, LocalStep
     DEF Request, Writing

\* The handler of a plain `def` starts on a thread.
LEMMA DispatchKeepsIInv ==
    ASSUME IInv, NEW r \in Reqs, Dispatch(r)
    PROVE  IInv'
<1> USE DEF IInv
<1> DEFINE n == [req[r] EXCEPT !.pc = "running"]
<1>1. /\ req[r].pc = "authorized" /\ req' = [req EXCEPT ![r] = n]
      /\ UNCHANGED <<scans, findings, audit, loop, disclosed, faults>>
      /\ req[r].op # "upload" /\ Allowed(r)
  BY DEF Dispatch, Advance, StageOK
<1>2. n \in Request /\ req[r] \in Request
  BY DEF TypeOK, Request, Stage, Reply
<1>3. /\ req' \in [Reqs -> Request] /\ req'[r] = n
      /\ \A q \in Reqs : q # r => req'[q] = req[q]
  BY <1>1, <1>2, UpdateOne
<1>4. TypeOK'
  BY <1>1, <1>3 DEF TypeOK
<1>5. req[r].reply = "none"
  BY <1>1 DEF StageOK
<1>6. Stored' = Stored /\ \A u : Owned(u)' = Owned(u)
  BY <1>1 DEF Stored, Owned
<1>7. StageOK(r)'
  BY <1>1, <1>2, <1>3, <1>5 DEF StageOK, Allowed, Request, Writing, Writes, Reads
<1>8. WriteOK(r)'
  BY <1>1, <1>2, <1>3, <1>5 DEF WriteOK, StageOK, Request, Writes, Reads
<1>9. ReadOK(r)'
  BY <1>1, <1>2, <1>3, <1>5, <1>6 DEF ReadOK, Request, Writes, Reads
<1>10. ToldOf(r)' => req'[r].scan \in disclosed /\ req'[r].seen = findings[req'[r].scan]
  BY <1>1, <1>3, <1>5 DEF ToldOf, Reads, StageOK
<1> QED
  BY <1>1, <1>2, <1>3, <1>4, <1>5, <1>7, <1>8, <1>9, <1>10, LocalStep
     DEF Request, Writing

\* The file is refused.
LEMMA UploadRefuseKeepsIInv ==
    ASSUME IInv, NEW r \in Reqs, UploadRefuse(r)
    PROVE  IInv'
<1> USE DEF IInv
<1> DEFINE n == [req[r] EXCEPT !.pc = "answered", !.reply = "400"]
<1>1. /\ req[r].pc = "authorized" /\ req' = [req EXCEPT ![r] = n]
      /\ UNCHANGED <<scans, findings, audit, loop, disclosed, faults>>
      /\ req[r].op = "upload"
  BY DEF UploadRefuse, Answer
<1>2. n \in Request /\ req[r] \in Request
  BY DEF TypeOK, Request, Stage, Reply
<1>3. /\ req' \in [Reqs -> Request] /\ req'[r] = n
      /\ \A q \in Reqs : q # r => req'[q] = req[q]
  BY <1>1, <1>2, UpdateOne
<1>4. TypeOK'
  BY <1>1, <1>3 DEF TypeOK
<1>5. req[r].reply = "none"
  BY <1>1 DEF StageOK
<1>6. Stored' = Stored /\ \A u : Owned(u)' = Owned(u)
  BY <1>1 DEF Stored, Owned
<1>7. StageOK(r)'
  BY <1>1, <1>2, <1>3, <1>5 DEF StageOK, Allowed, Request, Writing, Writes, Reads
<1>8. WriteOK(r)'
  BY <1>1, <1>2, <1>3, <1>5 DEF WriteOK, StageOK, Request, Writes, Reads
<1>9. ReadOK(r)'
  BY <1>1, <1>2, <1>3, <1>5, <1>6 DEF ReadOK, Request, Writes, Reads
<1>10. ToldOf(r)' => req'[r].scan \in disclosed /\ req'[r].seen = findings[req'[r].scan]
  BY <1>1, <1>3, <1>5 DEF ToldOf, Reads, StageOK
<1> QED
  BY <1>1, <1>2, <1>3, <1>4, <1>5, <1>7, <1>8, <1>9, <1>10, LocalStep
     DEF Request, Writing

\* The collection of the account failed.
LEMMA CloudFailKeepsIInv ==
    ASSUME IInv, NEW r \in Reqs, CloudFail(r)
    PROVE  IInv'
<1> USE DEF IInv
<1> DEFINE n == [req[r] EXCEPT !.pc = "answered", !.reply = "502"]
<1>1. /\ req[r].pc = "running" /\ req' = [req EXCEPT ![r] = n]
      /\ UNCHANGED <<scans, findings, audit, loop, disclosed, faults>>
      /\ req[r].op = "cloud"
  BY DEF CloudFail, Answer
<1>2. n \in Request /\ req[r] \in Request
  BY DEF TypeOK, Request, Stage, Reply
<1>3. /\ req' \in [Reqs -> Request] /\ req'[r] = n
      /\ \A q \in Reqs : q # r => req'[q] = req[q]
  BY <1>1, <1>2, UpdateOne
<1>4. TypeOK'
  BY <1>1, <1>3 DEF TypeOK
<1>5. req[r].reply = "none"
  BY <1>1 DEF StageOK
<1>6. Stored' = Stored /\ \A u : Owned(u)' = Owned(u)
  BY <1>1 DEF Stored, Owned
<1>7. StageOK(r)'
  BY <1>1, <1>2, <1>3, <1>5 DEF StageOK, Allowed, Request, Writing, Writes, Reads
<1>8. WriteOK(r)'
  BY <1>1, <1>2, <1>3, <1>5 DEF WriteOK, StageOK, Request, Writes, Reads
<1>9. ReadOK(r)'
  BY <1>1, <1>2, <1>3, <1>5, <1>6 DEF ReadOK, Request, Writes, Reads
<1>10. ToldOf(r)' => req'[r].scan \in disclosed /\ req'[r].seen = findings[req'[r].scan]
  BY <1>1, <1>3, <1>5 DEF ToldOf, Reads, StageOK
<1> QED
  BY <1>1, <1>2, <1>3, <1>4, <1>5, <1>7, <1>8, <1>9, <1>10, LocalStep
     DEF Request, Writing

\* A list of the caller's scans.
LEMMA ListScansKeepsIInv ==
    ASSUME IInv, NEW r \in Reqs, ListScans(r)
    PROVE  IInv'
<1> USE DEF IInv
<1> DEFINE n == [req[r] EXCEPT !.pc = "answered", !.reply = "200",
                             !.listed = Owned(req[r].user)]
<1>1. /\ req[r].pc = "running" /\ req' = [req EXCEPT ![r] = n]
      /\ UNCHANGED <<scans, findings, audit, loop, disclosed, faults>>
      /\ req[r].op = "list"
  BY DEF ListScans
<1>2. n \in Request /\ req[r] \in Request
  BY ZenonT(60) DEF TypeOK, Request, Stage, Reply, Owned, Stored
<1>3. /\ req' \in [Reqs -> Request] /\ req'[r] = n
      /\ \A q \in Reqs : q # r => req'[q] = req[q]
  BY <1>1, <1>2, UpdateOne
<1>4. TypeOK'
  BY <1>1, <1>3 DEF TypeOK
<1>5. req[r].reply = "none"
  BY <1>1 DEF StageOK
<1>6. Stored' = Stored /\ \A u : Owned(u)' = Owned(u)
  BY <1>1 DEF Stored, Owned
<1>7. StageOK(r)'
  BY <1>1, <1>2, <1>3, <1>5 DEF StageOK, Allowed, Request, Writing, Writes, Reads
<1>8. WriteOK(r)'
  BY <1>1, <1>2, <1>3, <1>5 DEF WriteOK, StageOK, Request, Writes, Reads
<1>9. ReadOK(r)'
  BY <1>1, <1>2, <1>3, <1>5, <1>6 DEF ReadOK, Request, Writes, Reads
<1>10. ToldOf(r)' => req'[r].scan \in disclosed /\ req'[r].seen = findings[req'[r].scan]
  BY <1>1, <1>3, <1>5 DEF ToldOf, Reads, StageOK
<1> QED
  BY <1>1, <1>2, <1>3, <1>4, <1>5, <1>7, <1>8, <1>9, <1>10, LocalStep
     DEF Request, Writing

\* The row of a scan is the caller's.
LEMMA LoadOwnedScanKeepsIInv ==
    ASSUME IInv, NEW r \in Reqs, LoadOwnedScan(r)
    PROVE  IInv'
<1> USE DEF IInv
<1> DEFINE n == [req[r] EXCEPT !.pc = "loaded"]
<1>1. /\ req[r].pc = "running" /\ req' = [req EXCEPT ![r] = n]
      /\ UNCHANGED <<scans, findings, audit, loop, disclosed, faults>>
      /\ req[r].op \in Reads /\ req[r].scan \in Owned(req[r].user)
  BY DEF LoadOwnedScan, Advance
<1>2. n \in Request /\ req[r] \in Request
  BY DEF TypeOK, Request, Stage, Reply
<1>3. /\ req' \in [Reqs -> Request] /\ req'[r] = n
      /\ \A q \in Reqs : q # r => req'[q] = req[q]
  BY <1>1, <1>2, UpdateOne
<1>4. TypeOK'
  BY <1>1, <1>3 DEF TypeOK
<1>5. req[r].reply = "none"
  BY <1>1 DEF StageOK
<1>6. Stored' = Stored /\ \A u : Owned(u)' = Owned(u)
  BY <1>1 DEF Stored, Owned
<1>7. StageOK(r)'
  BY <1>1, <1>2, <1>3, <1>5 DEF StageOK, Allowed, Request, Writing, Writes, Reads
<1>8. WriteOK(r)'
  BY <1>1, <1>2, <1>3, <1>5 DEF WriteOK, StageOK, Request, Writes, Reads
<1>9. ReadOK(r)'
  BY <1>1, <1>2, <1>3, <1>5, <1>6 DEF ReadOK, Request, Writes, Reads
<1>10. ToldOf(r)' => req'[r].scan \in disclosed /\ req'[r].seen = findings[req'[r].scan]
  BY <1>1, <1>3, <1>5 DEF ToldOf, Reads, StageOK
<1> QED
  BY <1>1, <1>2, <1>3, <1>4, <1>5, <1>7, <1>8, <1>9, <1>10, LocalStep
     DEF Request, Writing

\* The scan is missing or another's.
LEMMA LoadDeniedKeepsIInv ==
    ASSUME IInv, NEW r \in Reqs, LoadDenied(r)
    PROVE  IInv'
<1> USE DEF IInv
<1> DEFINE n == [req[r] EXCEPT !.pc = "answered", !.reply = "404"]
<1>1. /\ req[r].pc = "running" /\ req' = [req EXCEPT ![r] = n]
      /\ UNCHANGED <<scans, findings, loop, disclosed>>
      /\ req[r].op \in Reads
  BY DEF LoadDenied, Answer
<1>2. n \in Request /\ req[r] \in Request
  BY DEF TypeOK, Request, Stage, Reply
<1>3. /\ req' \in [Reqs -> Request] /\ req'[r] = n
      /\ \A q \in Reqs : q # r => req'[q] = req[q]
  BY <1>1, <1>2, UpdateOne
<1>4. TypeOK'
  BY <1>1, <1>3, LogEventTypes DEF TypeOK, LoadDenied
<1>5. req[r].reply = "none"
  BY <1>1 DEF StageOK
<1>6. Stored' = Stored /\ \A u : Owned(u)' = Owned(u)
  BY <1>1 DEF Stored, Owned
<1>7. StageOK(r)'
  BY <1>1, <1>2, <1>3, <1>5 DEF StageOK, Allowed, Request, Writing, Writes, Reads
<1>8. WriteOK(r)'
  BY <1>1, <1>2, <1>3, <1>5 DEF WriteOK, StageOK, Request, Writes, Reads
<1>9. ReadOK(r)'
  BY <1>1, <1>2, <1>3, <1>5, <1>6 DEF ReadOK, Request, Writes, Reads
<1>10. ToldOf(r)' => req'[r].scan \in disclosed /\ req'[r].seen = findings[req'[r].scan]
  BY <1>1, <1>3, <1>5 DEF ToldOf, Reads, StageOK
<1> QED
  BY <1>1, <1>2, <1>3, <1>4, <1>5, <1>7, <1>8, <1>9, <1>10, LocalStep
     DEF Request, Writing

\* The findings of the caller's scan are read.
LEMMA ReadFindingsKeepsIInv ==
    ASSUME IInv, NEW r \in Reqs, ReadFindings(r)
    PROVE  IInv'
<1> USE DEF IInv
<1> DEFINE n == [req[r] EXCEPT !.pc = "answered", !.reply = "200",
                             !.seen = findings[req[r].scan]]
<1>1. /\ req[r].pc = "loaded" /\ req' = [req EXCEPT ![r] = n]
      /\ UNCHANGED <<scans, findings, audit, loop, disclosed, faults>>
      /\ req[r].op \in Reads /\ req[r].scan \in Owned(req[r].user)
  BY DEF ReadFindings, StageOK, ReadOK
<1>2. n \in Request /\ req[r] \in Request
  <2>1. findings[req[r].scan] \in SUBSET Rules
    BY <1>1 DEF TypeOK, Owned, Stored
  <2> QED
    BY <2>1, ZenonT(60) DEF TypeOK, Request, Stage, Reply
<1>3. /\ req' \in [Reqs -> Request] /\ req'[r] = n
      /\ \A q \in Reqs : q # r => req'[q] = req[q]
  BY <1>1, <1>2, UpdateOne
<1>4. TypeOK'
  BY <1>1, <1>3 DEF TypeOK
<1>5. req[r].reply = "none"
  BY <1>1 DEF StageOK
<1>6. Stored' = Stored /\ \A u : Owned(u)' = Owned(u)
  BY <1>1 DEF Stored, Owned
<1>7. StageOK(r)'
  BY <1>1, <1>2, <1>3, <1>5 DEF StageOK, Allowed, Request, Writing, Writes, Reads
<1>8. WriteOK(r)'
  BY <1>1, <1>2, <1>3, <1>5 DEF WriteOK, StageOK, Request, Writes, Reads
<1>9. ReadOK(r)'
  BY <1>1, <1>2, <1>3, <1>5, <1>6 DEF ReadOK, Request, Writes, Reads
<1>10. ToldOf(r)' => req'[r].scan \in disclosed /\ req'[r].seen = findings[req'[r].scan]
  BY <1>1, <1>2, <1>3, <1>5, ConstantsAssumption DEF ToldOf, ReadOK, Owned, Stored
<1> QED
  BY <1>1, <1>2, <1>3, <1>4, <1>5, <1>7, <1>8, <1>9, <1>10, LocalStep
     DEF Request, Writing

\* The database fails a read.
LEMMA ReadFaultKeepsIInv ==
    ASSUME IInv, NEW r \in Reqs, ReadFault(r)
    PROVE  IInv'
<1> USE DEF IInv
<1> DEFINE n == [req[r] EXCEPT !.pc = "answered", !.reply = "500"]
<1>1. /\ req[r].pc \in {"running", "loaded"} /\ req' = [req EXCEPT ![r] = n]
      /\ UNCHANGED <<scans, findings, loop, disclosed>>
      /\ req[r].op \notin Writes
  BY DEF ReadFault, Answer
<1>2. n \in Request /\ req[r] \in Request
  BY DEF TypeOK, Request, Stage, Reply
<1>3. /\ req' \in [Reqs -> Request] /\ req'[r] = n
      /\ \A q \in Reqs : q # r => req'[q] = req[q]
  BY <1>1, <1>2, UpdateOne
<1>4. TypeOK'
  BY <1>1, <1>3, ConstantsAssumption DEF TypeOK, ReadFault, Fault
<1>5. req[r].reply = "none"
  BY <1>1 DEF StageOK
<1>6. Stored' = Stored /\ \A u : Owned(u)' = Owned(u)
  BY <1>1 DEF Stored, Owned
<1>7. StageOK(r)'
  BY <1>1, <1>2, <1>3, <1>5 DEF StageOK, Allowed, Request, Writing, Writes, Reads
<1>8. WriteOK(r)'
  BY <1>1, <1>2, <1>3, <1>5 DEF WriteOK, StageOK, Request, Writes, Reads
<1>9. ReadOK(r)'
  BY <1>1, <1>2, <1>3, <1>5, <1>6 DEF ReadOK, Request, Writes, Reads
<1>10. ToldOf(r)' => req'[r].scan \in disclosed /\ req'[r].seen = findings[req'[r].scan]
  BY <1>1, <1>3, <1>5 DEF ToldOf, Reads, StageOK
<1> QED
  BY <1>1, <1>2, <1>3, <1>4, <1>5, <1>7, <1>8, <1>9, <1>10, LocalStep
     DEF Request, Writing

--------------------------------------------------------------------------------
\* The scan of a write is its user's.
LEMMA WrittenRow ==
    ASSUME NEW r, WriteOK(r), req[r].op \in Writes, req[r].scan # Missing
    PROVE  /\ scans[req[r].scan].owner = req[r].user /\ req[r].user \in Admins
           /\ findings[req[r].scan] \in {{}, req[r].batch}
<1> DEFINE t == IF req[r].op = "upload" THEN "STATIC" ELSE "LIVE"
<1>1. scans[req[r].scan] = [owner |-> req[r].user, type |-> t]
  BY DEF WriteOK
<1>2. req[r].user \in Admins /\ findings[req[r].scan] \in {{}, req[r].batch}
  BY DEF WriteOK
<1> HIDE DEF t
<1> QED
  BY <1>1, <1>2

\* The scan of a write is stored, once the write has one.
LEMMA WrittenIsStored ==
    ASSUME IInv, NEW r \in Reqs, req[r].op \in Writes, req[r].scan # Missing
    PROVE  req[r].scan \in Stored
<1> USE DEF IInv
<1>1. req[r].scan \in ScanIds /\ req[r].user \in Users
  BY DEF TypeOK, Request
<1> DEFINE t == IF req[r].op = "upload" THEN "STATIC" ELSE "LIVE"
<1>2. scans[req[r].scan] = [owner |-> req[r].user, type |-> t]
  BY DEF WriteOK
<1>3. t \in {"STATIC", "LIVE"}
  OBVIOUS
<1> HIDE DEF t
<1>4. scans[req[r].scan] \in Scan
  BY <1>1, <1>2, <1>3 DEF Scan
<1> QED
  BY <1>1, <1>4, ConstantsAssumption DEF Stored, Scan

(***************************************************************************)
(* A step of a write leaves the other requests as they are: it adds scans, *)
(* never changes one, and touches the findings of its own scan only, which *)
(* no other request wrote.                                                 *)
(***************************************************************************)
LEMMA OthersKept ==
    ASSUME IInv, NEW r \in Reqs, req[r].op \in Writes,
           \A q \in Reqs : q # r => req'[q] = req[q],
           UNCHANGED disclosed,
           \A s \in Stored : scans'[s] = scans[s],
           \A s \in Stored : s # req[r].scan => findings'[s] = findings[s]
    PROVE  /\ Stored \subseteq Stored'
           /\ \A q \in Reqs : q # r => StageOK(q)' /\ WriteOK(q)' /\ ReadOK(q)'
<1> USE DEF IInv
<1>1. Stored \subseteq Stored' /\ \A u : Owned(u) \subseteq Owned(u)'
  BY DEF Stored, Owned
<1>2. SUFFICES ASSUME NEW q \in Reqs, q # r
               PROVE  StageOK(q)' /\ WriteOK(q)' /\ ReadOK(q)'
  BY <1>1
<1>3. StageOK(q)'
  BY <1>2 DEF StageOK, Allowed
<1>4. ReadOK(q)'
  BY <1>1, <1>2 DEF ReadOK
<1>5. WriteOK(q)'
  <2>1. CASE req[q].op \notin Writes
    BY <1>2, <2>1 DEF WriteOK
  <2>2. CASE req[q].op \in Writes /\ req[q].scan = Missing
    <3>1. WriteOK(q)
      OBVIOUS
    <3> QED
      BY <1>2, <2>2, <3>1 DEF WriteOK
  <2>3. CASE req[q].op \in Writes /\ req[q].scan # Missing
    <3>1. req[q].scan \in Stored
      BY <2>3, WrittenIsStored
    <3>2. req[q].scan # req[r].scan
      BY <1>2, <2>3 DEF OneWriter
    <3>3. /\ scans'[req[q].scan] = scans[req[q].scan]
          /\ findings'[req[q].scan] = findings[req[q].scan]
      BY <3>1, <3>2
    <3>4. WriteOK(q)
      OBVIOUS
    <3>5. req'[q] = req[q]
      BY <1>2
    <3> HIDE DEF IInv
    <3> QED
      BY <2>3, <3>3, <3>4, <3>5 DEF WriteOK
  <2> QED
    BY <2>1, <2>2, <2>3
<1> QED
  BY <1>3, <1>4, <1>5

\* An evaluation: an upload takes the loop with it.
LEMMA EvaluateKeepsIInv ==
    ASSUME IInv, NEW r \in Reqs, NEW b \in Batches,
           UploadEvaluate(r, b) \/ CloudEvaluate(r, b)
    PROVE  IInv'
<1> USE DEF IInv
<1> DEFINE n == [req[r] EXCEPT !.pc = "evaluated", !.batch = b]
<1>1. /\ req[r].op \in Writes /\ req[r].pc \in {"authorized", "running"}
      /\ req' = [req EXCEPT ![r] = n]
      /\ UNCHANGED <<scans, findings, audit, disclosed, faults>>
  BY DEF UploadEvaluate, CloudEvaluate, Writes
<1>2. n \in Request /\ req[r] \in Request
  <2>1. b \in SUBSET Rules
    BY ConstantsAssumption
  <2>2. req[r] \in Request
    BY DEF TypeOK
  <2> QED
    BY <2>1, <2>2 DEF Request, Stage
<1>3. /\ req' \in [Reqs -> Request] /\ req'[r] = n
      /\ \A q \in Reqs : q # r => req'[q] = req[q]
  BY <1>1, <1>2, UpdateOne
<1>4. TypeOK'
  BY <1>1, <1>3 DEF TypeOK, UploadEvaluate, CloudEvaluate
<1>5. req[r].scan = Missing /\ req[r].reply = "none" /\ Allowed(r)
  BY <1>1 DEF WriteOK, StageOK
<1>6. /\ Stored' = Stored /\ \A u : Owned(u)' = Owned(u)
      /\ \A q \in Reqs : q # r => StageOK(q)' /\ WriteOK(q)' /\ ReadOK(q)'
  BY <1>1, <1>3, OthersKept DEF Stored, Owned
<1>7. StageOK(r)'
  BY <1>1, <1>2, <1>3, <1>5 DEF StageOK, Allowed, Request, Writing, Writes, Reads
<1>8. WriteOK(r)' /\ ReadOK(r)'
  BY <1>1, <1>2, <1>3, <1>5, <1>6 DEF WriteOK, ReadOK, Request, Writes, Reads
<1>9. LoopHeld'
  <2> SUFFICES ASSUME NEW q \in Reqs
               PROVE  Uploading(q)' <=> loop' = q
    BY DEF LoopHeld
  <2>1. CASE UploadEvaluate(r, b)
    <3>1. loop = NoReq /\ loop' = r /\ req[r].op = "upload"
      BY <2>1 DEF UploadEvaluate, LoopFree
    <3>2. ~Uploading(q)
      BY <3>1, ConstantsAssumption DEF LoopHeld
    <3>3. CASE q = r
      BY <1>2, <1>3, <3>1, <3>3 DEF Uploading, Writing, Request
    <3>4. CASE q # r
      BY <1>3, <3>1, <3>2, <3>4 DEF Uploading
    <3> QED
      BY <3>3, <3>4
  <2>2. CASE CloudEvaluate(r, b)
    <3>1. loop' = loop /\ req[r].op = "cloud"
      BY <2>2 DEF CloudEvaluate
    <3>2. ~Uploading(r) /\ ~Uploading(r)'
      BY <1>2, <1>3, <3>1 DEF Uploading, Request
    <3>3. CASE q = r
      BY <3>1, <3>2, <3>3 DEF LoopHeld
    <3>4. CASE q # r
      BY <1>3, <3>1, <3>4 DEF Uploading, LoopHeld
    <3> QED
      BY <3>3, <3>4
  <2> QED
    BY <2>1, <2>2
<1>10. UploadsAreUndisclosed'
  BY <1>1, <1>2, <1>3, <1>5, ConstantsAssumption
     DEF UploadsAreUndisclosed, Uploading, Request, TypeOK
<1>11. OneWriter' /\ EveryScanHasAWriter'
  BY <1>1, <1>2, <1>3, <1>5, <1>6 DEF OneWriter, EveryScanHasAWriter, Wrote, Request
<1>12. UploadsAreSeenWhole'
  <2> SUFFICES ASSUME NEW q \in Reqs, NEW w \in Reqs,
                      ToldOf(q)', req'[w].scan = req'[q].scan, req'[w].op = "upload",
                      \/ req'[w].reply = "200"
                      \/ InFlight(w)' /\ req'[w].reply = "none"
               PROVE  req'[q].seen = req'[w].batch
    BY DEF UploadsAreSeenWhole, Wrote
  <2>1. q # r /\ req'[q] = req[q] /\ req[q].scan # Missing
    BY <1>1, <1>2, <1>3, <1>6, ConstantsAssumption
       DEF ToldOf, ReadOK, Owned, Stored, Reads, Writes, Request
  <2>2. w # r /\ req'[w] = req[w]
    BY <1>2, <1>3, <1>5, <2>1, ZenonT(60) DEF Request
  <2> QED
    BY <2>1, <2>2 DEF UploadsAreSeenWhole, Wrote, ToldOf, InFlight, Writes
<1> QED
  BY <1>1, <1>3, <1>4, <1>6, <1>7, <1>8, <1>9, <1>10, <1>11, <1>12

(***************************************************************************)
(* The first commit.  The identifier is fresh: no scan is stored under it, *)
(* so no answer has named it and no other write has it.                    *)
(***************************************************************************)
LEMMA StoreScanKeepsIInv ==
    ASSUME IInv, NEW r \in Reqs, NEW s \in ScanIds, StoreScan(r, s)
    PROVE  IInv'
<1> USE DEF IInv
<1> DEFINE n == [req[r] EXCEPT !.pc = "scan stored", !.scan = s]
           t == IF req[r].op = "upload" THEN "STATIC" ELSE "LIVE"
           row == [owner |-> req[r].user, type |-> t]
<1>1. /\ req[r].pc = "evaluated" /\ scans[s] = NoScan
      /\ req' = [req EXCEPT ![r] = n]
      /\ scans' = [scans EXCEPT ![s] = row]
      /\ UNCHANGED <<findings, audit, loop, disclosed, faults>>
  BY DEF StoreScan
<1>2. n \in Request /\ req[r] \in Request
  BY DEF TypeOK, Request, Stage
<1>3. /\ req' \in [Reqs -> Request] /\ req'[r] = n
      /\ \A q \in Reqs : q # r => req'[q] = req[q]
  BY <1>1, <1>2, UpdateOne
<1>4. /\ req[r].op \in Writes /\ req[r].scan = Missing /\ req[r].reply = "none"
      /\ req[r].user \in Admins
  BY <1>1 DEF StageOK, WriteOK, Writing, Allowed
<1>5. row \in Scan
  <2>1. t \in {"STATIC", "LIVE"} /\ req[r].user \in Users
    BY <1>2 DEF Request
  <2> HIDE DEF t
  <2> QED
    BY <2>1 DEF Scan
<1>6. row # NoScan
  BY <1>5, ConstantsAssumption DEF Scan
<1> HIDE DEF row
<1>7. /\ scans'[s] = row /\ \A d \in ScanIds : d # s => scans'[d] = scans[d]
      /\ scans' \in [ScanIds -> Scan \cup {NoScan}]
  BY <1>1, <1>5 DEF TypeOK
<1>8. TypeOK'
  BY <1>1, <1>3, <1>7 DEF TypeOK
<1>9. s \notin Stored /\ s \notin disclosed /\ findings[s] = {} /\ s # Missing
  BY <1>1, ConstantsAssumption DEF Stored, EveryScanHasAWriter
<1>10. /\ Stored' = Stored \cup {s}
       /\ \A q \in Reqs : q # r => StageOK(q)' /\ WriteOK(q)' /\ ReadOK(q)'
  <2>1. \A d \in Stored : scans'[d] = scans[d] /\ findings'[d] = findings[d]
    BY <1>1, <1>7, <1>9 DEF Stored
  <2> HIDE DEF IInv
  <2>2. \A q \in Reqs : q # r => StageOK(q)' /\ WriteOK(q)' /\ ReadOK(q)'
    BY <1>1, <1>3, <1>4, <2>1, OthersKept
  <2> QED
    BY <1>6, <1>7, <1>9, <2>2 DEF Stored
<1>11. /\ n.pc = "scan stored" /\ n.scan = s /\ n.user = req[r].user
       /\ n.op = req[r].op /\ n.reply = "none" /\ n.listed = req[r].listed
  BY <1>2, <1>4 DEF Request
<1>12. StageOK(r)'
  BY <1>1, <1>3, <1>4, <1>11 DEF StageOK, Allowed, Writing
<1>13. WriteOK(r)'
  BY <1>1, <1>3, <1>4, <1>7, <1>9, <1>11 DEF WriteOK, row
<1>14. ReadOK(r)'
  <2>1. \A d \in Owned(req[r].user) : d \in Stored' /\ scans'[d].owner = req[r].user
    BY <1>7, <1>9, <1>10 DEF Owned, Stored
  <2>2. req[r].listed \subseteq Owned(req[r].user)
    BY DEF ReadOK
  <2> QED
    BY <1>3, <1>4, <1>11, <2>1, <2>2 DEF ReadOK, Owned, Writes, Reads
<1>15. LoopHeld' /\ UploadsAreUndisclosed'
  <2>1. \A q \in Reqs : Uploading(q)' <=> Uploading(q)
    BY <1>1, <1>3, <1>11 DEF Uploading, Writing
  <2> QED
    BY <1>1, <1>3, <1>9, <1>11, <2>1 DEF LoopHeld, UploadsAreUndisclosed
<1>16. \A q \in Reqs : q # r /\ req[q].op \in Writes => req[q].scan # s
  BY <1>9, WrittenIsStored
<1>17. OneWriter' /\ EveryScanHasAWriter'
  <2>1. OneWriter'
    <3>1. \A q \in Reqs : q # r /\ req'[q].op \in Writes => req'[q].scan # s
      BY <1>3, <1>16
    <3>2. req'[r].scan = s
      BY <1>3, <1>11
    <3>3. ASSUME NEW q \in Reqs, NEW w \in Reqs, q # r, w # r,
                 req'[q].op \in Writes, req'[w].op \in Writes,
                 req'[q].scan = req'[w].scan, req'[q].scan # Missing
          PROVE  q = w
      BY <1>3, <3>3 DEF OneWriter
    <3> HIDE DEF IInv
    <3> QED
      BY <3>1, <3>2, <3>3 DEF OneWriter
  <2>2. ASSUME NEW d \in ScanIds
        PROVE  IF d \in Stored' THEN \E q \in Reqs : Wrote(q, d)' ELSE findings'[d] = {}
    <3>1. CASE d = s
      BY <1>3, <1>4, <1>10, <1>11, <3>1 DEF Wrote
    <3>2. CASE d # s /\ d \in Stored
      <4>1. PICK q \in Reqs : Wrote(q, d)
        BY <3>2 DEF EveryScanHasAWriter
      <4>2. q # r
        BY <1>4, <4>1, ConstantsAssumption DEF Wrote
      <4> QED
        BY <1>3, <1>10, <3>2, <4>1, <4>2 DEF Wrote
    <3>3. CASE d # s /\ d \notin Stored
      BY <1>1, <1>10, <3>3 DEF EveryScanHasAWriter
    <3> QED
      BY <3>1, <3>2, <3>3
  <2> QED
    BY <2>1, <2>2 DEF EveryScanHasAWriter, Wrote
<1>18. UploadsAreSeenWhole'
  <2> SUFFICES ASSUME NEW q \in Reqs, NEW w \in Reqs,
                      ToldOf(q)', req'[w].scan = req'[q].scan, req'[w].op = "upload",
                      \/ req'[w].reply = "200"
                      \/ InFlight(w)' /\ req'[w].reply = "none"
               PROVE  req'[q].seen = req'[w].batch
    BY DEF UploadsAreSeenWhole, Wrote
  <2>1. q # r /\ req'[q] = req[q]
    BY <1>3, <1>4, <1>11 DEF ToldOf, Writes, Reads
  <2>2. req[q].scan # s
    BY <1>9, <2>1 DEF ToldOf, ReadOK, Owned
  <2>3. w # r /\ req'[w] = req[w]
    BY <1>3, <1>11, <2>1, <2>2
  <2> QED
    BY <2>1, <2>3 DEF UploadsAreSeenWhole, Wrote, ToldOf, InFlight, Writes
<1> QED
  BY <1>1, <1>3, <1>8, <1>10, <1>12, <1>13, <1>14, <1>15, <1>17, <1>18

\* The second commit: the findings of the write's own scan.
LEMMA StoreFindingsKeepsIInv ==
    ASSUME IInv, NEW r \in Reqs, StoreFindings(r)
    PROVE  IInv'
<1> USE DEF IInv
<1> DEFINE n == [req[r] EXCEPT !.pc = "findings stored"]
<1>1. /\ req[r].pc = "scan stored" /\ req' = [req EXCEPT ![r] = n]
      /\ findings' = [findings EXCEPT ![req[r].scan] = req[r].batch]
      /\ UNCHANGED <<scans, audit, loop, disclosed, faults>>
  BY DEF StoreFindings, Advance
<1>2. n \in Request /\ req[r] \in Request
  BY DEF TypeOK, Request, Stage
<1>3. /\ req' \in [Reqs -> Request] /\ req'[r] = n
      /\ \A q \in Reqs : q # r => req'[q] = req[q]
  BY <1>1, <1>2, UpdateOne
<1>4. /\ req[r].op \in Writes /\ req[r].scan # Missing /\ req[r].reply = "none"
      /\ Allowed(r)
  BY <1>1 DEF StageOK, WriteOK, Writing
<1>5. req[r].scan \in Stored
  BY <1>4, WrittenIsStored
<1>6. /\ findings' \in [ScanIds -> SUBSET Rules]
      /\ findings'[req[r].scan] = req[r].batch
      /\ \A d \in ScanIds : d # req[r].scan => findings'[d] = findings[d]
  BY <1>1, <1>2, <1>5 DEF TypeOK, Stored, Request
<1>7. TypeOK'
  BY <1>1, <1>3, <1>6 DEF TypeOK
<1>8. /\ Stored' = Stored /\ \A u : Owned(u)' = Owned(u)
      /\ \A q \in Reqs : q # r => StageOK(q)' /\ WriteOK(q)' /\ ReadOK(q)'
  <2>1. \A d \in Stored : d # req[r].scan => findings'[d] = findings[d]
    BY <1>6 DEF Stored
  <2> HIDE DEF IInv
  <2>2. \A q \in Reqs : q # r => StageOK(q)' /\ WriteOK(q)' /\ ReadOK(q)'
    BY <1>1, <1>3, <1>4, <2>1, OthersKept
  <2> QED
    BY <1>1, <2>2 DEF Stored, Owned
<1>9. /\ n.pc = "findings stored" /\ n.scan = req[r].scan /\ n.user = req[r].user
      /\ n.op = req[r].op /\ n.reply = "none" /\ n.listed = req[r].listed
      /\ n.batch = req[r].batch
  BY <1>2, <1>4 DEF Request
<1>10. StageOK(r)'
  BY <1>1, <1>3, <1>4, <1>9 DEF StageOK, Allowed, Writing
<1>11. WriteOK(r)'
  <2>1. WriteOK(r)
    OBVIOUS
  <2> HIDE DEF IInv, n
  <2> QED
    BY <1>1, <1>3, <1>4, <1>6, <1>9, <2>1 DEF WriteOK
<1>12. ReadOK(r)'
  BY <1>3, <1>4, <1>8, <1>9 DEF ReadOK, Writes, Reads
<1>13. LoopHeld' /\ UploadsAreUndisclosed'
  <2>1. \A q \in Reqs : (Uploading(q)' <=> Uploading(q)) /\ req'[q].scan = req[q].scan
    BY <1>1, <1>3, <1>9 DEF Uploading, Writing
  <2>2. LoopHeld'
    BY <1>1, <2>1 DEF LoopHeld
  <2>3. disclosed' = disclosed /\ UploadsAreUndisclosed
    BY <1>1
  <2>4. UploadsAreUndisclosed'
    <3> HIDE DEF IInv, n
    <3> QED
      BY <2>1, <2>3 DEF UploadsAreUndisclosed
  <2> QED
    BY <2>2, <2>4
<1>14. \A q \in Reqs : req'[q].op = req[q].op /\ req'[q].scan = req[q].scan
                       /\ req'[q].reply = req[q].reply /\ req'[q].batch = req[q].batch
                       /\ req'[q].seen = req[q].seen
                       /\ (InFlight(q)' => InFlight(q))
  <2>1. n.seen = req[r].seen
    BY <1>2 DEF Request
  <2>2. req[r].reply = n.reply
    BY <1>4, <1>9
  <2> QED
    BY <1>1, <1>3, <1>9, <2>1, <2>2 DEF InFlight
<1>15. OneWriter' /\ EveryScanHasAWriter'
  <2>1. OneWriter'
    BY <1>14 DEF OneWriter
  <2> QED
    BY <1>5, <1>6, <1>8, <1>14, <2>1 DEF EveryScanHasAWriter, Wrote
<1>16. UploadsAreSeenWhole'
  BY <1>14 DEF UploadsAreSeenWhole, ToldOf, Wrote
<1> QED
  BY <1>1, <1>3, <1>7, <1>8, <1>10, <1>11, <1>12, <1>13, <1>15, <1>16

(***************************************************************************)
(* A write ends: its upload leaves the loop.  It is acknowledged only      *)
(* after its second commit.                                                *)
(***************************************************************************)
LEMMA WriteEndKeepsIInv ==
    ASSUME IInv, NEW r \in Reqs, NEW code \in {"200", "500"},
           req[r].pc \in Writing,
           code = "200" => req[r].pc = "findings stored",
           Answer(r, code), ReleaseLoop(r),
           UNCHANGED <<scans, findings, audit, disclosed>>,
           faults' \in 0..MaxFaults
    PROVE  IInv'
<1> USE DEF IInv
<1> DEFINE n == [req[r] EXCEPT !.pc = "answered", !.reply = code]
<1>1. req' = [req EXCEPT ![r] = n]
  BY DEF Answer
<1>2. n \in Request /\ req[r] \in Request
  BY DEF TypeOK, Request, Stage, Reply
<1>3. /\ req' \in [Reqs -> Request] /\ req'[r] = n
      /\ \A q \in Reqs : q # r => req'[q] = req[q]
  BY <1>1, <1>2, UpdateOne
<1>4. TypeOK'
  BY <1>3 DEF TypeOK, ReleaseLoop
<1>5. /\ req[r].op \in Writes /\ req[r].reply = "none" /\ Allowed(r)
  BY DEF StageOK, Writing
<1>6. /\ Stored' = Stored /\ \A u : Owned(u)' = Owned(u)
      /\ \A q \in Reqs : q # r => StageOK(q)' /\ WriteOK(q)' /\ ReadOK(q)'
  <2>1. \A d \in Stored : scans'[d] = scans[d] /\ findings'[d] = findings[d]
    OBVIOUS
  <2> HIDE DEF IInv
  <2>2. \A q \in Reqs : q # r => StageOK(q)' /\ WriteOK(q)' /\ ReadOK(q)'
    BY <1>3, <1>5, <2>1, OthersKept
  <2> QED
    BY <2>2 DEF Stored, Owned
<1>7. /\ n.pc = "answered" /\ n.scan = req[r].scan /\ n.user = req[r].user
      /\ n.op = req[r].op /\ n.reply = code /\ n.listed = req[r].listed
      /\ n.batch = req[r].batch
  BY <1>2 DEF Request
<1>8. StageOK(r)'
  BY <1>3, <1>5, <1>7 DEF StageOK, Allowed, Writing
<1>9. WriteOK(r)'
  <2>1. WriteOK(r)
    OBVIOUS
  <2> HIDE DEF IInv, n
  <2> QED
    BY <1>3, <1>5, <1>7, <2>1 DEF WriteOK
<1>10. ReadOK(r)'
  BY <1>3, <1>5, <1>6, <1>7 DEF ReadOK, Writes, Reads
<1>11. ~Uploading(r)' /\ \A q \in Reqs : q # r => (Uploading(q)' <=> Uploading(q))
  BY <1>3, <1>7 DEF Uploading, Writing
<1>12. LoopHeld'
  <2> SUFFICES ASSUME NEW q \in Reqs
               PROVE  Uploading(q)' <=> loop' = q
    BY DEF LoopHeld
  <2>1. CASE q = r
    BY <1>11, <2>1, ConstantsAssumption DEF ReleaseLoop
  <2>2. CASE q # r
    BY <1>11, <2>2, ConstantsAssumption DEF ReleaseLoop, LoopHeld
  <2> QED
    BY <2>1, <2>2
<1>13. UploadsAreUndisclosed'
  BY <1>3, <1>11 DEF UploadsAreUndisclosed
<1>14. OneWriter' /\ EveryScanHasAWriter'
  <2>1. \A q \in Reqs : req'[q].op = req[q].op /\ req'[q].scan = req[q].scan
    BY <1>3, <1>7
  <2>2. OneWriter'
    BY <2>1 DEF OneWriter
  <2> QED
    BY <1>6, <2>1, <2>2 DEF EveryScanHasAWriter, Wrote
<1>15. UploadsAreSeenWhole'
  <2> SUFFICES ASSUME NEW q \in Reqs, NEW w \in Reqs,
                      ToldOf(q)', req'[w].scan = req'[q].scan, req'[w].op = "upload",
                      \/ req'[w].reply = "200"
                      \/ InFlight(w)' /\ req'[w].reply = "none"
               PROVE  req'[q].seen = req'[w].batch
    BY DEF UploadsAreSeenWhole, Wrote
  <2>1. q # r /\ req'[q] = req[q]
    BY <1>3, <1>5, <1>7 DEF ToldOf, Writes, Reads
  <2>2. req[q].scan \in disclosed
    BY <2>1, ConstantsAssumption DEF ToldOf, ReadOK, Owned, Stored
  <2>3. CASE w = r
    <3>1. Uploading(r) /\ req[r].scan = req[q].scan
      BY <1>3, <1>7, <2>1, <2>3 DEF Uploading
    <3> QED
      BY <2>2, <3>1 DEF UploadsAreUndisclosed
  <2>4. CASE w # r
    <3>1. req'[w] = req[w] /\ UploadsAreSeenWhole
      BY <1>3, <2>4
    <3> HIDE DEF IInv, n
    <3> QED
      BY <2>1, <3>1 DEF UploadsAreSeenWhole, Wrote, ToldOf, InFlight, Writes
  <2> QED
    BY <2>3, <2>4
<1> QED
  BY <1>3, <1>4, <1>6, <1>8, <1>9, <1>10, <1>12, <1>13, <1>14, <1>15

(***************************************************************************)
(* An answer leaves the server.  The loop is free, so no scan it names is  *)
(* being uploaded.                                                         *)
(***************************************************************************)
LEMMA DeliverKeepsIInv ==
    ASSUME IInv, NEW r \in Reqs, Deliver(r) \/ DeliverToNobody(r)
    PROVE  IInv'
<1> USE DEF IInv
<1> DEFINE n == [req[r] EXCEPT !.pc = "done"]
<1>1. /\ req[r].pc = "answered" /\ loop = NoReq /\ req' = [req EXCEPT ![r] = n]
      /\ UNCHANGED <<scans, findings, audit, loop, faults>>
      /\ disclosed' \in {disclosed, disclosed \cup Tells(r)}
  BY DEF Deliver, DeliverToNobody, Advance, LoopFree
<1>2. n \in Request /\ req[r] \in Request
  BY DEF TypeOK, Request, Stage
<1>3. /\ req' \in [Reqs -> Request] /\ req'[r] = n
      /\ \A q \in Reqs : q # r => req'[q] = req[q]
  BY <1>1, <1>2, UpdateOne
<1>4. Tells(r) \subseteq Stored
  <2>1. req[r].listed \subseteq Stored
    BY DEF ReadOK, Owned
  <2>2. ASSUME req[r].reply = "200", req[r].op \in Writes
        PROVE  req[r].scan \in Stored
    <3>1. req[r].scan # Missing
      BY <2>2 DEF WriteOK
    <3> QED
      BY <2>2, <3>1, WrittenIsStored
  <2>3. ASSUME req[r].reply = "200", req[r].op \in Reads
        PROVE  req[r].scan \in Stored
    BY <2>3 DEF ReadOK, Owned
  <2>4. req[r].op \in Writes \cup Reads \cup {"list"}
    BY <1>2 DEF Request, AllOps
  <2> QED
    BY <2>1, <2>2, <2>3, <2>4 DEF Tells
<1>5. disclosed \subseteq disclosed' /\ disclosed' \subseteq Stored
  BY <1>1, <1>4
<1>6. TypeOK'
  BY <1>1, <1>3, <1>5 DEF TypeOK, Stored
<1>7. /\ n.pc = "done" /\ n.scan = req[r].scan /\ n.user = req[r].user
      /\ n.op = req[r].op /\ n.reply = req[r].reply /\ n.listed = req[r].listed
      /\ n.batch = req[r].batch /\ n.seen = req[r].seen /\ req[r].reply # "none"
  BY <1>1, <1>2 DEF Request, StageOK
<1>14. UNCHANGED <<scans, findings>> /\ Stored' = Stored /\ \A u : Owned(u)' = Owned(u)
  BY <1>1 DEF Stored, Owned
<1>8. \A q \in Reqs :
           /\ req'[q].op = req[q].op /\ req'[q].scan = req[q].scan
           /\ req'[q].reply = req[q].reply /\ req'[q].batch = req[q].batch
           /\ req'[q].seen = req[q].seen /\ req'[q].listed = req[q].listed
           /\ req'[q].user = req[q].user
           /\ \/ req'[q].pc = req[q].pc
              \/ req'[q].pc = "done" /\ req[q].pc = "answered" /\ req[q].reply # "none"
  <2> TAKE q \in Reqs
  <2>1. CASE q = r
    <3> HIDE DEF n, IInv
    <3> QED
      BY <1>1, <1>3, <1>7, <2>1
  <2>2. CASE q # r
    BY <1>3, <2>2
  <2> QED
    BY <2>1, <2>2
<1>9. ASSUME NEW q \in Reqs
      PROVE  StageOK(q)' /\ WriteOK(q)' /\ ReadOK(q)'
  <2>1. StageOK(q) /\ WriteOK(q) /\ ReadOK(q)
    OBVIOUS
  <2> HIDE DEF IInv, n
  <2>2. StageOK(q)'
    <3>1. CASE req'[q].pc = req[q].pc
      BY <1>8, <2>1, <3>1 DEF StageOK, Allowed
    <3>2. CASE req'[q].pc = "done"
      BY <1>8, <2>1, <3>2 DEF StageOK, Writing
    <3> QED
      BY <1>8, <3>1, <3>2
  <2>3. WriteOK(q)'
    BY <1>8, <1>14, <2>1 DEF WriteOK
  <2>4. ReadOK(q)'
    BY <1>5, <1>8, <1>14, <2>1 DEF ReadOK
  <2> QED
    BY <2>2, <2>3, <2>4
<1>10. \A q \in Reqs : ~Uploading(q) /\ ~Uploading(q)'
  <2>1. \A q \in Reqs : ~Uploading(q)
    BY <1>1, ConstantsAssumption DEF LoopHeld
  <2> QED
    BY <1>8, <2>1 DEF Uploading, Writing
<1>11. LoopHeld' /\ UploadsAreUndisclosed'
  BY <1>1, <1>10, ConstantsAssumption DEF LoopHeld, UploadsAreUndisclosed
<1>12. OneWriter' /\ EveryScanHasAWriter'
  <2>1. OneWriter'
    BY <1>8 DEF OneWriter
  <2> QED
    BY <1>8, <1>14, <2>1 DEF EveryScanHasAWriter, Wrote
<1>13. UploadsAreSeenWhole'
  BY <1>8 DEF UploadsAreSeenWhole, ToldOf, Wrote, InFlight
<1> QED
  BY <1>3, <1>5, <1>6, <1>9, <1>11, <1>12, <1>13, <1>14

\* A crash ends what was in flight and keeps the tables.
LEMMA CrashKeepsIInv ==
    ASSUME IInv, Crash
    PROVE  IInv'
<1> USE DEF IInv
<1>1. UNCHANGED <<scans, findings, audit, disclosed>> /\ loop' = NoReq
  BY DEF Crash
<1>2. ASSUME NEW q \in Reqs
      PROVE  /\ req[q] \in Request /\ req'[q] \in Request
             /\ req'[q].op = req[q].op /\ req'[q].scan = req[q].scan
             /\ req'[q].reply = req[q].reply /\ req'[q].batch = req[q].batch
             /\ req'[q].seen = req[q].seen /\ req'[q].listed = req[q].listed
             /\ req'[q].user = req[q].user
             /\ \/ req'[q].pc = "done"
                \/ req'[q].pc = "new" /\ req[q].pc = "new"
  <2>1. req[q] \in Request
    BY DEF TypeOK
  <2>2. req'[q] = IF req[q].pc \in {"new", "done"} THEN req[q]
                  ELSE [req[q] EXCEPT !.pc = "done"]
    BY DEF Crash
  <2>3. CASE req[q].pc \in {"new", "done"}
    BY <2>1, <2>2, <2>3
  <2>4. CASE req[q].pc \notin {"new", "done"}
    BY <2>1, <2>2, <2>4 DEF Request, Stage
  <2> QED
    BY <2>3, <2>4
<1>3. TypeOK'
  <2>1. req' \in [Reqs -> Request]
    BY <1>2 DEF Crash
  <2> QED
    BY <1>1, <2>1, ConstantsAssumption DEF TypeOK, Crash, Fault
<1>4. Stored' = Stored /\ \A u : Owned(u)' = Owned(u)
  BY <1>1 DEF Stored, Owned
<1>5. ASSUME NEW q \in Reqs
      PROVE  StageOK(q)' /\ WriteOK(q)' /\ ReadOK(q)'
  <2>1. StageOK(q) /\ WriteOK(q) /\ ReadOK(q)
    OBVIOUS
  <2> HIDE DEF IInv
  <2>2. StageOK(q)'
    BY <1>2, <2>1 DEF StageOK, Writing
  <2>3. WriteOK(q)'
    BY <1>1, <1>2, <2>1 DEF WriteOK
  <2>4. ReadOK(q)'
    BY <1>1, <1>2, <1>4, <2>1 DEF ReadOK
  <2> QED
    BY <2>2, <2>3, <2>4
<1>6. LoopHeld' /\ UploadsAreUndisclosed'
  BY <1>1, <1>2, ConstantsAssumption DEF LoopHeld, UploadsAreUndisclosed, Uploading, Writing
<1>7. OneWriter' /\ EveryScanHasAWriter'
  <2>1. OneWriter'
    BY <1>2 DEF OneWriter
  <2> QED
    BY <1>1, <1>2, <1>4, <2>1 DEF EveryScanHasAWriter, Wrote
<1>8. UploadsAreSeenWhole'
  BY <1>2 DEF UploadsAreSeenWhole, ToldOf, Wrote, InFlight
<1> QED
  BY <1>1, <1>3, <1>4, <1>5, <1>6, <1>7, <1>8

--------------------------------------------------------------------------------
LEMMA NextKeepsIInv ==
    ASSUME IInv, [Next]_vars
    PROVE  IInv'
<1>1. ASSUME NEW r \in Reqs, Serve(r)
      PROVE  IInv'
  <2>1. CASE \E b \in Batches : UploadEvaluate(r, b) \/ CloudEvaluate(r, b)
    BY <2>1, EvaluateKeepsIInv
  <2>2. CASE \E s \in ScanIds : StoreScan(r, s)
    BY <2>2, StoreScanKeepsIInv
  <2>3. CASE StoreFindingsUnmapped(r)
    <3>1. faults \in 0..MaxFaults
      BY DEF IInv, TypeOK
    <3> QED
      BY <2>3, <3>1, WriteEndKeepsIInv DEF StoreFindingsUnmapped, Writing
  <2>4. CASE WriteAnswer(r)
    <3>1. faults \in 0..MaxFaults
      BY DEF IInv, TypeOK
    <3> QED
      BY <2>4, <3>1, WriteEndKeepsIInv DEF WriteAnswer, Writing
  <2> QED
    BY <1>1, <2>1, <2>2, <2>3, <2>4, AuthorizeKeepsIInv, RoleDeniedKeepsIInv,
       DispatchKeepsIInv, UploadRefuseKeepsIInv, CloudFailKeepsIInv,
       StoreFindingsKeepsIInv, ListScansKeepsIInv, LoadOwnedScanKeepsIInv,
       LoadDeniedKeepsIInv, ReadFindingsKeepsIInv, DeliverKeepsIInv DEF Serve
<1>2. ASSUME NEW r \in Reqs, WriteFault(r)
      PROVE  IInv'
  <2>1. faults' \in 0..MaxFaults
    <3>1. faults \in 0..MaxFaults /\ faults < MaxFaults /\ faults' = faults + 1
      BY <1>2 DEF WriteFault, Fault, IInv, TypeOK
    <3> QED
      BY <3>1, ConstantsAssumption
  <2> QED
    BY <1>2, <2>1, WriteEndKeepsIInv DEF WriteFault, Writing
<1>3. ASSUME UNCHANGED vars
      PROVE  IInv'
  <2>1. UNCHANGED <<scans, findings, audit, req, loop, disclosed, faults>>
    BY <1>3 DEF vars
  <2>2. TypeOK' /\ Stored' = Stored /\ \A u : Owned(u)' = Owned(u)
    BY <2>1 DEF IInv, TypeOK, Stored, Owned
  <2>3. ASSUME NEW q \in Reqs PROVE StageOK(q)' /\ WriteOK(q)' /\ ReadOK(q)'
    <3>1. StageOK(q) /\ WriteOK(q) /\ ReadOK(q)
      BY DEF IInv
    <3> QED
      BY <2>1, <2>2, <3>1 DEF StageOK, Allowed, WriteOK, ReadOK
  <2>4. LoopHeld' /\ UploadsAreUndisclosed' /\ OneWriter'
    BY <2>1 DEF IInv, LoopHeld, UploadsAreUndisclosed, Uploading, OneWriter
  <2>5. EveryScanHasAWriter' /\ UploadsAreSeenWhole'
    BY <2>1, <2>2 DEF IInv, EveryScanHasAWriter, Wrote, UploadsAreSeenWhole,
       ToldOf, InFlight
  <2> QED
    BY <2>1, <2>2, <2>3, <2>4, <2>5 DEF IInv
<1> QED
  BY <1>1, <1>2, <1>3, ReadFaultKeepsIInv, SendKeepsIInv, CrashKeepsIInv DEF Next

\* The inductive invariant holds of every behaviour.
THEOREM Invariant == Spec => []IInv
  BY InitIInv, NextKeepsIInv, PTL DEF Spec

\* Every variable keeps its type.
THEOREM TypeCorrect == Spec => []TypeOK
<1>1. IInv => TypeOK
  BY DEF IInv
<1> QED
  BY <1>1, Invariant, PTL

(***************************************************************************)
(* A report on an acknowledged upload, or on one still running, is made    *)
(* from all of its findings.                                               *)
(***************************************************************************)
THEOREM SeenWhole == Spec => []UploadsAreSeenWhole
<1>1. IInv => UploadsAreSeenWhole
  BY DEF IInv
<1> QED
  BY <1>1, Invariant, PTL

\* An acknowledged scan stays in the tables, whole.
THEOREM Acknowledged == Spec => []AcknowledgedIsStored
<1>1. ASSUME IInv PROVE AcknowledgedIsStored
  <2> SUFFICES ASSUME NEW r \in Reqs, req[r].op \in Writes, req[r].reply = "200"
               PROVE  /\ req[r].scan \in Owned(req[r].user)
                      /\ findings[req[r].scan] = req[r].batch
    BY DEF AcknowledgedIsStored
  <2>1. WriteOK(r)
    BY <1>1 DEF IInv
  <2>2. req[r].scan # Missing /\ findings[req[r].scan] = req[r].batch
    BY <2>1 DEF WriteOK
  <2>3. req[r].scan \in Stored
    BY <1>1, <2>2, WrittenIsStored
  <2>4. scans[req[r].scan].owner = req[r].user
    BY <2>1, <2>2, WrittenRow
  <2> QED
    BY <2>2, <2>3, <2>4 DEF Owned
<1> QED
  BY <1>1, Invariant, PTL

\* Each stored scan is the work of one request, none or all of its findings.
THEOREM OneRequestEach == Spec => []StoredByOneRequest
<1>1. ASSUME IInv PROVE StoredByOneRequest
  <2> SUFFICES ASSUME NEW s \in ScanIds, s \in Stored
               PROVE  \E r \in Reqs :
                        /\ Wrote(r, s)
                        /\ \A q \in Reqs : Wrote(q, s) => q = r
                        /\ req[r].user = scans[s].owner /\ req[r].user \in Admins
                        /\ findings[s] \in {{}, req[r].batch}
    BY <1>1 DEF StoredByOneRequest, IInv, EveryScanHasAWriter
  <2>1. PICK r \in Reqs : Wrote(r, s)
    BY <1>1 DEF IInv, EveryScanHasAWriter
  <2>2. s # Missing /\ req[r].scan = s /\ req[r].op \in Writes
    BY <2>1, ConstantsAssumption DEF Wrote
  <2>3. \A q \in Reqs : Wrote(q, s) => q = r
    BY <1>1, <2>2 DEF IInv, OneWriter, Wrote
  <2>4. WriteOK(r)
    BY <1>1 DEF IInv
  <2>5. /\ req[r].user = scans[s].owner /\ req[r].user \in Admins
        /\ findings[s] \in {{}, req[r].batch}
    BY <2>2, <2>4, WrittenRow
  <2> QED
    BY <2>1, <2>3, <2>5
<1> QED
  BY <1>1, Invariant, PTL

\* A scan is read for its owner only, and stays his.
THEOREM OwnerOnly == Spec => []OnlyTheOwnerIsTold
<1>1. IInv => OnlyTheOwnerIsTold
  BY DEF IInv, ReadOK, OnlyTheOwnerIsTold, ToldOf
<1> QED
  BY <1>1, Invariant, PTL

--------------------------------------------------------------------------------
\* Steps that answer nobody and log nothing.
LEMMA NobodyRefused ==
    ASSUME RefusalsAreAudited, TypeOK, faults' \in Nat, faults' >= faults, UNCHANGED audit,
           \A q \in Reqs : \/ req'[q].reply = req[q].reply
                           \/ req[q].reply = "none" /\ req'[q].reply \notin {"403", "404"}
    PROVE  RefusalsAreAudited'
<1>1. faults \in Nat /\ (faults > 0 => faults' > 0)
  BY ConstantsAssumption DEF TypeOK
<1> QED
  BY <1>1 DEF RefusalsAreAudited

\* A refusal, logged under the action that goes with its code.
LEMMA OneRefused ==
    ASSUME RefusalsAreAudited, TypeOK, NEW r \in Reqs, req[r].reply = "none",
           NEW action, NEW code,
           <<action, code>> \in {<<"role_check_denied", "403">>, <<"scan_access_denied", "404">>},
           LogEvent(r, action), Answer(r, code)
    PROVE  RefusalsAreAudited'
<1>1. /\ req'[r].reply = code
      /\ \A q \in Reqs : q # r => req'[q] = req[q]
  BY DEF Answer, TypeOK, Request
<1>2. CASE audit' = audit \cup {<<r, action>>} /\ UNCHANGED faults
  BY <1>1, <1>2 DEF RefusalsAreAudited
<1>3. CASE Fault /\ UNCHANGED audit
  <2>1. faults' > 0
    BY <1>3, ConstantsAssumption DEF Fault, TypeOK
  <2> QED
    BY <1>1, <1>3, <2>1 DEF RefusalsAreAudited
<1> QED
  BY <1>2, <1>3 DEF LogEvent

(***************************************************************************)
(* The refusals on record are those answered: a request is answered once,  *)
(* and what it is refused with is logged before it is.                     *)
(***************************************************************************)
LEMMA NextKeepsRecord == IInv /\ RefusalsAreAudited /\ [Next]_vars => RefusalsAreAudited'
<1> SUFFICES ASSUME IInv, RefusalsAreAudited, [Next]_vars PROVE RefusalsAreAudited'
  OBVIOUS
<1>1. /\ TypeOK /\ faults \in Nat
      /\ \A r \in Reqs : req[r].pc \notin {"answered", "done"} => req[r].reply = "none"
  BY ConstantsAssumption DEF IInv, TypeOK, StageOK
<1>2. Fault => faults' \in Nat /\ faults' >= faults
  BY <1>1 DEF Fault
<1>3. CASE UNCHANGED vars
  BY <1>1, <1>3, NobodyRefused DEF vars
<1>4. ASSUME NEW r \in Reqs, Serve(r) PROVE RefusalsAreAudited'
  <2>1. CASE RoleDenied(r)
    BY <1>1, <2>1, OneRefused DEF RoleDenied
  <2>2. CASE LoadDenied(r)
    BY <1>1, <2>2, OneRefused DEF LoadDenied
  <2>3. ASSUME NEW code \in {"200", "400", "500", "502"}, Answer(r, code),
               req[r].reply = "none", UNCHANGED <<audit, faults>>
        PROVE  RefusalsAreAudited'
    BY <1>1, <2>3, NobodyRefused DEF Answer, TypeOK
  <2>4. CASE UploadRefuse(r) \/ CloudFail(r) \/ StoreFindingsUnmapped(r) \/ WriteAnswer(r)
    BY <1>1, <2>3, <2>4 DEF UploadRefuse, CloudFail, StoreFindingsUnmapped, WriteAnswer
  <2>5. CASE ListScans(r) \/ ReadFindings(r)
    <3>1. /\ req[r].reply = "none" /\ UNCHANGED <<audit, faults>>
          /\ req'[r].reply = "200"
          /\ \A q \in Reqs : q # r => req'[q] = req[q]
      <4>1. CASE ListScans(r)
        BY <1>1, <4>1 DEF ListScans, TypeOK, Request
      <4>2. CASE ReadFindings(r)
        BY <1>1, <4>2 DEF ReadFindings, TypeOK, Request
      <4> QED
        BY <2>5, <4>1, <4>2
    <3> QED
      BY <1>1, <3>1, NobodyRefused
  <2>6. CASE Authorize(r) \/ Dispatch(r) \/ LoadOwnedScan(r) \/ StoreFindings(r)
               \/ Deliver(r) \/ DeliverToNobody(r)
    <3>1. (\E stage : Advance(r, stage)) /\ audit' = audit /\ faults' = faults
      BY <2>6, Zenon
         DEF Authorize, Dispatch, LoadOwnedScan, StoreFindings, Deliver, DeliverToNobody
    <3>2. \A q \in Reqs : req'[q].reply = req[q].reply
      BY <1>1, <3>1 DEF Advance, TypeOK, Request
    <3> QED
      BY <1>1, <3>1, <3>2, NobodyRefused
  <2>7. CASE \E b \in Batches : UploadEvaluate(r, b) \/ CloudEvaluate(r, b)
    BY <1>1, <2>7, NobodyRefused DEF UploadEvaluate, CloudEvaluate, TypeOK, Request
  <2>8. CASE \E s \in ScanIds : StoreScan(r, s)
    <3>1. \E stage, t : req' = [req EXCEPT ![r].pc = stage, ![r].scan = t]
      BY <2>8, Zenon DEF StoreScan
    <3>2. \A q \in Reqs : req'[q].reply = req[q].reply
      BY <1>1, <3>1 DEF TypeOK, Request
    <3>3. audit' = audit /\ faults' = faults
      BY <2>8, Zenon DEF StoreScan
    <3> QED
      BY <1>1, <3>2, <3>3, NobodyRefused
  <2> QED
    BY <1>4, <2>1, <2>2, <2>4, <2>5, <2>6, <2>7, <2>8 DEF Serve
<1>5. ASSUME NEW r \in Reqs, WriteFault(r) \/ ReadFault(r) PROVE RefusalsAreAudited'
  <2>1. Fault /\ Answer(r, "500") /\ UNCHANGED audit /\ req[r].reply = "none"
    BY <1>1, <1>5 DEF WriteFault, ReadFault
  <2>2. \A q \in Reqs : \/ req'[q].reply = req[q].reply
                        \/ req[q].reply = "none" /\ req'[q].reply \notin {"403", "404"}
    BY <1>1, <2>1 DEF Answer, TypeOK
  <2> QED
    BY <1>1, <1>2, <2>1, <2>2, NobodyRefused
<1>6. ASSUME NEW r \in Reqs, NEW s \in ScanIds \cup {Missing}, Send(r, s)
      PROVE  RefusalsAreAudited'
  BY <1>1, <1>6, NobodyRefused DEF Send, TypeOK, Request
<1>7. CASE Crash
  <2>1. \A q \in Reqs : req'[q].reply = req[q].reply
    BY <1>1, <1>7 DEF Crash, TypeOK, Request
  <2> QED
    BY <1>1, <1>2, <1>7, <2>1, NobodyRefused DEF Crash
<1> QED
  BY <1>3, <1>4, <1>5, <1>6, <1>7 DEF Next

\* Exactly the refusals are recorded, but for failures of the database.
THEOREM Refusals == Spec => []RefusalsAreAudited
<1>1. Init => RefusalsAreAudited
  BY DEF Init, RefusalsAreAudited
<1> QED
  BY <1>1, NextKeepsRecord, Invariant, PTL DEF Spec

--------------------------------------------------------------------------------
(***************************************************************************)
(* Uploads implement AtomicScans, for any number of requests, accounts,    *)
(* scans, rules and failures.                                              *)
(*                                                                         *)
(* A scan is published when the upload that writes it leaves the loop: by  *)
(* an answer, a failed commit or a crash.  Until then both commits happen  *)
(* behind the mapping, and no reader can have the identifier; from then on *)
(* nothing writes the scan.  A report is made in the step that reads the   *)
(* findings; every other step of a handler stutters.                       *)
(***************************************************************************)
Published(s) == Static(s) /\ ~BeingUploaded(s)

ContentOf(s) == [owner |-> scans[s].owner, findings |-> findings[s]]

\* An upload under way has the loop, so it is the one that hides its scan.
HiddenByUploads ==
    \A s \in ScanIds :
        BeingUploaded(s) <=> \E q \in Reqs : Uploading(q) /\ req[q].scan = s

LEMMA WhoHides == IInv => HiddenByUploads
<1> SUFFICES ASSUME IInv, NEW s \in ScanIds
             PROVE  BeingUploaded(s) <=> \E q \in Reqs : Uploading(q) /\ req[q].scan = s
  BY DEF HiddenByUploads
<1>1. loop \in Reqs \cup {NoReq} /\ LoopHeld
  BY DEF IInv, TypeOK
<1>2. ASSUME BeingUploaded(s)
      PROVE  \E q \in Reqs : Uploading(q) /\ req[q].scan = s
  BY <1>1, <1>2 DEF BeingUploaded, Wrote, LoopHeld
<1>3. ASSUME NEW q \in Reqs, Uploading(q), req[q].scan = s
      PROVE  BeingUploaded(s)
  <2>1. loop = q /\ loop # NoReq
    BY <1>1, <1>3, ConstantsAssumption DEF LoopHeld
  <2>2. req[q].op = "upload"
    BY <1>3 DEF Uploading
  <2> QED
    BY <1>3, <2>1, <2>2 DEF BeingUploaded, Wrote, Writes
<1> QED
  BY <1>2, <1>3

(***************************************************************************)
(* A write's scan is in the table, and the rows it may still change are    *)
(* not published: they are a live scan's, or its own upload's.             *)
(***************************************************************************)
WritesAreStored ==
    \A r \in Reqs : req[r].op \in Writes /\ req[r].scan # Missing => req[r].scan \in Stored

OpenRowsAreHidden ==
    \A r \in Reqs :
        /\ req[r].op \in Writes /\ req[r].pc \in Writing /\ req[r].scan \in Stored
        => ~Published(req[r].scan)

Facts == HiddenByUploads /\ WritesAreStored /\ OpenRowsAreHidden

LEMMA StateFacts == IInv => Facts
<1> SUFFICES ASSUME IInv PROVE Facts
  OBVIOUS
<1> HIDE DEF IInv
<1>1. WritesAreStored
  BY WrittenIsStored DEF WritesAreStored
<1>2. OpenRowsAreHidden
  <2> SUFFICES ASSUME NEW r \in Reqs, req[r].op \in Writes, req[r].pc \in Writing,
                      req[r].scan \in Stored
               PROVE  ~Published(req[r].scan)
    BY DEF OpenRowsAreHidden
  <2>1. WriteOK(r) /\ req[r].scan \in ScanIds /\ req[r].scan # Missing
    BY ConstantsAssumption DEF IInv, Stored
  <2>2. CASE req[r].op = "upload"
    <3>1. Uploading(r)
      BY <2>2 DEF Uploading
    <3>2. BeingUploaded(req[r].scan)
      BY <2>1, <3>1, WhoHides DEF HiddenByUploads
    <3> QED
      BY <3>2 DEF Published
  <2>3. CASE req[r].op # "upload"
    <3> DEFINE t == IF req[r].op = "upload" THEN "STATIC" ELSE "LIVE"
    <3>1. scans[req[r].scan] = [owner |-> req[r].user, type |-> t]
      BY <2>1 DEF WriteOK
    <3>2. t = "LIVE"
      BY <2>3
    <3> HIDE DEF t
    <3>3. scans[req[r].scan].type # "STATIC"
      BY <3>1, <3>2
    <3> QED
      BY <3>3 DEF Published, Static
  <2> QED
    BY <2>2, <2>3
<1> QED
  BY <1>1, <1>2, WhoHides DEF Facts

LEMMA NextFacts == IInv' => Facts'
  BY StateFacts, PTL

\* What is published is content of the abstract specification.
LEMMA ContentTypes ==
    ASSUME IInv, NEW s \in ScanIds, Static(s)
    PROVE  ContentOf(s) \in [owner : Users, findings : SUBSET Rules] /\ ContentOf(s) # Hidden
<1>1. scans[s] \in Scan /\ findings[s] \in SUBSET Rules
  BY DEF IInv, TypeOK, Static, Stored
<1>2. ContentOf(s) \in [owner : Users, findings : SUBSET Rules]
  BY <1>1 DEF ContentOf, Scan
<1> QED
  BY <1>2, HiddenAssumption

--------------------------------------------------------------------------------
(***************************************************************************)
(* What does not show.  The published scans are the same if the same are   *)
(* published with the same rows; the reports are the same if the same      *)
(* readers were told the same.                                             *)
(***************************************************************************)
LEMMA SameStore ==
    ASSUME \A s \in ScanIds : Published(s)' <=> Published(s),
           \A s \in ScanIds : Published(s) => scans'[s] = scans[s] /\ findings'[s] = findings[s]
    PROVE  PublishedContent' = PublishedContent
  BY DEF PublishedContent, Published

LEMMA SameReports ==
    ASSUME IInv,
           \A s \in Stored : scans'[s] = scans[s],
           \A q \in Reqs :
               /\ ToldOf(q)' <=> ToldOf(q)
               /\ ToldOf(q) => req'[q].scan = req[q].scan /\ req'[q].seen = req[q].seen
    PROVE  ReportMade' = ReportMade
<1>1. ASSUME NEW q \in Reqs, ToldOf(q)
      PROVE  /\ req[q].scan \in Stored
             /\ scans'[req[q].scan] = scans[req[q].scan]
             /\ Static(req[q].scan)' <=> Static(req[q].scan)
  <2>1. req[q].scan \in Stored
    BY <1>1 DEF IInv, ReadOK, ToldOf, Owned
  <2>2. scans'[req[q].scan] = scans[req[q].scan]
    BY <2>1
  <2> QED
    BY <1>1, <2>1, <2>2 DEF Static, Stored
<1> QED
  BY <1>1 DEF ReportMade

(***************************************************************************)
(* A step of one request that stores nothing, tells nothing and neither    *)
(* begins nor ends an upload.                                              *)
(***************************************************************************)
LEMMA Unseen ==
    ASSUME IInv, IInv', NEW r \in Reqs,
           UNCHANGED <<scans, findings>>,
           \A q \in Reqs : q # r => req'[q] = req[q],
           ToldOf(r)' <=> ToldOf(r),
           ToldOf(r) => req'[r].scan = req[r].scan /\ req'[r].seen = req[r].seen,
           \A s \in ScanIds :
               (Uploading(r)' /\ req'[r].scan = s) <=> (Uploading(r) /\ req[r].scan = s)
    PROVE  UNCHANGED <<PublishedContent, ReportMade>>
<1>1. HiddenByUploads /\ HiddenByUploads'
  BY StateFacts, NextFacts DEF Facts
<1>2. ReportMade' = ReportMade
  <2>1. \A q \in Reqs : q # r => (ToldOf(q)' <=> ToldOf(q))
    BY DEF ToldOf
  <2> QED
    BY <2>1, SameReports
<1>3. \A s \in ScanIds : Static(s)' <=> Static(s)
  BY DEF Static, Stored
<1>4. \A q \in Reqs : q # r => (Uploading(q)' <=> Uploading(q))
  BY DEF Uploading
<1>5. \A s \in ScanIds : BeingUploaded(s)' <=> BeingUploaded(s)
  BY <1>1, <1>4 DEF HiddenByUploads
<1>6. PublishedContent' = PublishedContent
  BY <1>3, <1>5, SameStore DEF Published
<1> QED
  BY <1>2, <1>6

(***************************************************************************)
(* The steps that answer, refuse, load or hand over a request.             *)
(***************************************************************************)
LEMMA HandlingIsUnseen ==
    ASSUME IInv, IInv', NEW r \in Reqs,
           \/ Authorize(r) \/ RoleDenied(r) \/ Dispatch(r) \/ UploadRefuse(r) \/ CloudFail(r)
           \/ ListScans(r) \/ LoadOwnedScan(r) \/ LoadDenied(r)
           \/ Deliver(r) \/ DeliverToNobody(r) \/ ReadFault(r)
    PROVE  UNCHANGED <<PublishedContent, ReportMade>>
<1>1. req \in [Reqs -> Request] /\ req[r] \in Request /\ StageOK(r)
  BY DEF IInv, TypeOK
<1>2. ASSUME NEW stage, Advance(r, stage), stage \notin Writing, req[r].pc \notin Writing,
             UNCHANGED <<scans, findings>>
      PROVE  UNCHANGED <<PublishedContent, ReportMade>>
  <2>1. /\ \A q \in Reqs : q # r => req'[q] = req[q]
        /\ req'[r].scan = req[r].scan /\ req'[r].op = req[r].op
        /\ req'[r].seen = req[r].seen /\ req'[r].reply = req[r].reply
        /\ req'[r].pc = stage
    BY <1>1, <1>2 DEF Advance, Request
  <2>2. ~Uploading(r) /\ ~Uploading(r)' /\ (ToldOf(r)' <=> ToldOf(r))
    BY <1>2, <2>1 DEF Uploading, ToldOf
  <2> QED
    BY <1>2, <2>1, <2>2, Unseen
<1>3. ASSUME NEW code, Answer(r, code), code # "200",
             req[r].pc \notin Writing \cup {"answered", "done"}, UNCHANGED <<scans, findings>>
      PROVE  UNCHANGED <<PublishedContent, ReportMade>>
  <2>1. /\ \A q \in Reqs : q # r => req'[q] = req[q]
        /\ req'[r].scan = req[r].scan /\ req'[r].op = req[r].op
        /\ req'[r].seen = req[r].seen /\ req'[r].reply = code
        /\ req'[r].pc = "answered"
    BY <1>1, <1>3 DEF Answer, Request
  <2>2. ~Uploading(r) /\ ~Uploading(r)' /\ ~ToldOf(r)' /\ ~ToldOf(r)
    BY <1>1, <1>3, <2>1 DEF Uploading, ToldOf, Writing, StageOK
  <2> QED
    BY <1>3, <2>1, <2>2, Unseen
<1>4. ASSUME ListScans(r)
      PROVE  UNCHANGED <<PublishedContent, ReportMade>>
  <2>1. /\ \A q \in Reqs : q # r => req'[q] = req[q]
        /\ req'[r].op = req[r].op /\ req[r].op = "list"
        /\ UNCHANGED <<scans, findings>>
    BY <1>1, <1>4 DEF ListScans, Request
  <2>2. ~Uploading(r) /\ ~Uploading(r)' /\ ~ToldOf(r)' /\ ~ToldOf(r)
    BY <2>1 DEF Uploading, ToldOf, Reads
  <2> QED
    BY <2>1, <2>2, Unseen
<1>5. CASE Authorize(r) \/ Dispatch(r) \/ LoadOwnedScan(r)
  BY <1>2, <1>5 DEF Authorize, Dispatch, LoadOwnedScan, Writing
<1>6. CASE Deliver(r) \/ DeliverToNobody(r)
  BY <1>2, <1>6 DEF Deliver, DeliverToNobody, Writing
<1>7. CASE RoleDenied(r) \/ UploadRefuse(r) \/ CloudFail(r)
  BY <1>3, <1>7 DEF RoleDenied, UploadRefuse, CloudFail, Writing
<1>8. CASE LoadDenied(r) \/ ReadFault(r)
  BY <1>3, <1>8 DEF LoadDenied, ReadFault, Writing
<1> QED
  BY <1>4, <1>5, <1>6, <1>7, <1>8

\* A request that has just been sent was told nothing.
LEMMA SendIsUnseen ==
    ASSUME IInv, IInv', NEW r \in Reqs, NEW s \in ScanIds \cup {Missing}, Send(r, s)
    PROVE  UNCHANGED <<PublishedContent, ReportMade>>
<1>1. req \in [Reqs -> Request] /\ req[r] \in Request /\ StageOK(r)
  BY DEF IInv, TypeOK
<1>2. /\ UNCHANGED <<scans, findings>>
      /\ \A q \in Reqs : q # r => req'[q] = req[q]
      /\ req[r].pc = "new" /\ req'[r].pc = "sent"
      /\ req[r].reply = "none" /\ req'[r].reply = "none"
  BY <1>1 DEF Send, Request, StageOK
<1>3. ~Uploading(r) /\ ~Uploading(r)' /\ ~ToldOf(r) /\ ~ToldOf(r)'
  BY <1>2 DEF Uploading, ToldOf, Writing
<1> QED
  BY <1>2, <1>3, Unseen

\* An upload that takes the loop has no scan yet, a live scan never takes it.
LEMMA EvaluateIsUnseen ==
    ASSUME IInv, IInv', NEW r \in Reqs, NEW b \in Batches,
           UploadEvaluate(r, b) \/ CloudEvaluate(r, b)
    PROVE  UNCHANGED <<PublishedContent, ReportMade>>
<1>1. req \in [Reqs -> Request] /\ req[r] \in Request /\ StageOK(r) /\ WriteOK(r)
  BY DEF IInv, TypeOK
<1>2. /\ UNCHANGED <<scans, findings>>
      /\ \A q \in Reqs : q # r => req'[q] = req[q]
      /\ req[r].op \in Writes /\ req'[r].op = req[r].op
      /\ req[r].pc \in {"authorized", "running"}
      /\ req'[r].scan = req[r].scan
  BY <1>1 DEF UploadEvaluate, CloudEvaluate, Request, Writes
<1>3. req[r].scan \notin ScanIds
  BY <1>1, <1>2, ConstantsAssumption DEF WriteOK
<1>4. ~ToldOf(r) /\ ~ToldOf(r)'
  BY <1>2 DEF ToldOf, Reads, Writes
<1> QED
  BY <1>2, <1>3, <1>4, Unseen

--------------------------------------------------------------------------------
\* The first commit of an upload is hidden by the upload itself.
LEMMA StoreScanIsUnseen ==
    ASSUME IInv, IInv', NEW r \in Reqs, NEW s \in ScanIds, StoreScan(r, s)
    PROVE  UNCHANGED <<PublishedContent, ReportMade>>
<1>1. /\ req \in [Reqs -> Request] /\ req[r] \in Request /\ StageOK(r) /\ WriteOK(r)
      /\ scans \in [ScanIds -> Scan \cup {NoScan}]
  BY DEF IInv, TypeOK
<1>2. /\ \A q \in Reqs : q # r => req'[q] = req[q]
      /\ req[r].op \in Writes /\ req'[r].op = req[r].op
      /\ req[r].pc = "evaluated" /\ req'[r].pc = "scan stored" /\ req'[r].scan = s
      /\ UNCHANGED findings
  BY <1>1 DEF StoreScan, Request, StageOK, Writing
<1>3. /\ s \notin Stored
      /\ \A t \in ScanIds : t # s => scans'[t] = scans[t]
  BY <1>1 DEF StoreScan, Stored
<1>4. req[r].scan = Missing
  BY <1>1, <1>2 DEF WriteOK
<1>5. ReportMade' = ReportMade
  <2>1. \A q \in Reqs : q # r => (ToldOf(q)' <=> ToldOf(q))
    BY <1>2 DEF ToldOf
  <2>2. ~ToldOf(r) /\ ~ToldOf(r)'
    BY <1>2 DEF ToldOf, Reads, Writes
  <2>3. \A t \in Stored : scans'[t] = scans[t]
    BY <1>3 DEF Stored
  <2> QED
    BY <1>2, <2>1, <2>2, <2>3, SameReports
<1>6. HiddenByUploads /\ HiddenByUploads'
  BY StateFacts, NextFacts DEF Facts
<1>7. ~Published(s) /\ ~Published(s)'
  <2>1. ~Published(s)
    BY <1>3 DEF Published, Static
  <2>2. s \in Stored'
    <3>1. req'[r].op \in Writes /\ req'[r].scan # Missing /\ req'[r].scan = s
      BY <1>2, ConstantsAssumption
    <3> QED
      BY <3>1, NextFacts DEF Facts, WritesAreStored
  <2>3. ~Published(s)'
    BY <1>2, <2>2, NextFacts DEF Facts, OpenRowsAreHidden, Writing
  <2> QED
    BY <2>1, <2>3
<1>8. \A t \in ScanIds : t # s => (Published(t)' <=> Published(t))
  <2>1. \A q \in Reqs : q # r => (Uploading(q)' <=> Uploading(q))
    BY <1>2 DEF Uploading
  <2>2. \A t \in ScanIds : t # s => (BeingUploaded(t)' <=> BeingUploaded(t))
    <3> SUFFICES ASSUME NEW t \in ScanIds, t # s
                 PROVE  BeingUploaded(t)' <=> BeingUploaded(t)
      OBVIOUS
    <3>1. \A q \in Reqs : (Uploading(q)' /\ req'[q].scan = t)
                            <=> (Uploading(q) /\ req[q].scan = t)
      BY <1>2, <1>4, <2>1, ConstantsAssumption
    <3> QED
      BY <1>6, <3>1 DEF HiddenByUploads
  <2> QED
    BY <1>3, <2>2 DEF Published, Static, Stored
<1>9. PublishedContent' = PublishedContent
  BY <1>2, <1>3, <1>7, <1>8, SameStore
<1> QED
  BY <1>5, <1>9

\* The second commit changes the findings of a scan that is not published.
LEMMA StoreFindingsIsUnseen ==
    ASSUME IInv, IInv', NEW r \in Reqs, StoreFindings(r)
    PROVE  UNCHANGED <<PublishedContent, ReportMade>>
<1>1. /\ req \in [Reqs -> Request] /\ req[r] \in Request /\ StageOK(r) /\ WriteOK(r)
      /\ findings \in [ScanIds -> SUBSET Rules]
  BY DEF IInv, TypeOK
<1>2. /\ \A q \in Reqs : q # r => req'[q] = req[q]
      /\ req[r].op \in Writes /\ req'[r].op = req[r].op
      /\ req[r].pc = "scan stored" /\ req'[r].pc = "findings stored"
      /\ req'[r].scan = req[r].scan
      /\ UNCHANGED scans
      /\ \A t \in ScanIds : t # req[r].scan => findings'[t] = findings[t]
  BY <1>1 DEF StoreFindings, Advance, Request, StageOK, Writing
<1>3. ReportMade' = ReportMade
  <2>1. \A q \in Reqs : q # r => (ToldOf(q)' <=> ToldOf(q))
    BY <1>2 DEF ToldOf
  <2>2. ~ToldOf(r) /\ ~ToldOf(r)'
    BY <1>2 DEF ToldOf, Reads, Writes
  <2> QED
    BY <1>2, <2>1, <2>2, SameReports
<1>4. \A t \in ScanIds : Published(t)' <=> Published(t)
  <2>1. \A q \in Reqs : (Uploading(q)' <=> Uploading(q)) /\ req'[q].scan = req[q].scan
    BY <1>2 DEF Uploading, Writing
  <2>2. HiddenByUploads /\ HiddenByUploads'
    BY StateFacts, NextFacts DEF Facts
  <2>3. \A t \in ScanIds : BeingUploaded(t)' <=> BeingUploaded(t)
    BY <2>1, <2>2 DEF HiddenByUploads
  <2> QED
    BY <1>2, <2>3 DEF Published, Static, Stored
<1>5. ~Published(req[r].scan)
  <2>1. req[r].scan # Missing
    BY <1>1, <1>2 DEF WriteOK
  <2>2. req[r].scan \in Stored
    BY <1>2, <2>1, WrittenIsStored
  <2> QED
    BY <1>2, <2>2, StateFacts DEF Facts, OpenRowsAreHidden, Writing
<1>6. PublishedContent' = PublishedContent
  BY <1>2, <1>4, <1>5, SameStore
<1> QED
  BY <1>3, <1>6

--------------------------------------------------------------------------------
(***************************************************************************)
(* An upload leaves the loop, in whatever way, and nothing else happens:   *)
(* its scan is published if it got as far as storing one.                  *)
(***************************************************************************)
LEMMA LeavingPublishes ==
    ASSUME IInv, IInv', UNCHANGED <<scans, findings>>,
           \A q \in Reqs : /\ req'[q].scan = req[q].scan
                           /\ ToldOf(q)' <=> ToldOf(q)
                           /\ req'[q].seen = req[q].seen
                           /\ Uploading(q)' => Uploading(q),
           NEW r \in Reqs, Uploading(r), ~Uploading(r)',
           \A q \in Reqs : q # r => (Uploading(q)' <=> Uploading(q))
    PROVE  [Atomic!Next]_(Atomic!vars)
<1> DEFINE s == req[r].scan
<1>1. ReportMade' = ReportMade
  BY SameReports
<1>2. HiddenByUploads /\ HiddenByUploads'
  BY StateFacts, NextFacts DEF Facts
<1>3. \A q \in Reqs : q # r => ~Uploading(q)
  BY ConstantsAssumption DEF IInv, LoopHeld
<1>4. \A t \in ScanIds : ~BeingUploaded(t)' /\ (BeingUploaded(t) <=> t = s)
  BY <1>2, <1>3 DEF HiddenByUploads
<1>5. \A t \in ScanIds : Static(t)' <=> Static(t)
  BY DEF Static, Stored
<1>6. CASE s \in ScanIds /\ Static(s)
  <2>1. PublishedContent[s] = Hidden
    BY <1>4, <1>6 DEF PublishedContent
  <2>2. PublishedContent' = [PublishedContent EXCEPT ![s] = ContentOf(s)]
    BY <1>4, <1>5, <1>6 DEF PublishedContent, ContentOf
  <2>3. ContentOf(s) \in Atomic!Content
    BY <1>6, ContentTypes DEF Atomic!Content
  <2>4. Atomic!Publish(s, ContentOf(s))
    BY <1>1, <2>1, <2>2 DEF Atomic!Publish
  <2> QED
    BY <1>6, <2>3, <2>4 DEF Atomic!Next
<1>7. CASE ~(s \in ScanIds /\ Static(s))
  <2>1. \A t \in ScanIds : Published(t)' <=> Published(t)
    BY <1>4, <1>5, <1>7 DEF Published
  <2>2. PublishedContent' = PublishedContent
    BY <2>1, SameStore
  <2> QED
    BY <1>1, <2>2 DEF Atomic!vars
<1> QED
  BY <1>6, <1>7

\* A write ends: in an answer, in a failed commit.
LEMMA WriteEndPublishes ==
    ASSUME IInv, IInv', NEW r \in Reqs, NEW code,
           req[r].pc \in Writing, Answer(r, code), UNCHANGED <<scans, findings>>
    PROVE  [Atomic!Next]_(Atomic!vars)
<1>1. req \in [Reqs -> Request] /\ req[r] \in Request /\ StageOK(r)
  BY DEF IInv, TypeOK
<1>2. /\ \A q \in Reqs : q # r => req'[q] = req[q]
      /\ req'[r].scan = req[r].scan /\ req'[r].op = req[r].op
      /\ req'[r].seen = req[r].seen /\ req'[r].pc = "answered"
      /\ req[r].op \in Writes
  BY <1>1 DEF Answer, Request, StageOK
<1>3. ~Uploading(r)' /\ ~ToldOf(r) /\ ~ToldOf(r)'
  BY <1>2 DEF Uploading, Writing, ToldOf, Reads, Writes
<1>4. \A q \in Reqs : q # r => (Uploading(q)' <=> Uploading(q)) /\ (ToldOf(q)' <=> ToldOf(q))
  BY <1>2 DEF Uploading, ToldOf
<1>5. CASE Uploading(r)
  BY <1>2, <1>3, <1>4, <1>5, LeavingPublishes
<1>6. CASE ~Uploading(r)
  BY <1>2, <1>3, <1>6, Unseen DEF Atomic!vars
<1> QED
  BY <1>5, <1>6

\* A crash publishes the scan of the upload that had the loop.
LEMMA CrashPublishes ==
    ASSUME IInv, IInv', Crash
    PROVE  [Atomic!Next]_(Atomic!vars)
<1>1. /\ UNCHANGED <<scans, findings>> /\ req \in [Reqs -> Request]
  BY DEF Crash, IInv, TypeOK
<1>2. \A q \in Reqs : /\ req'[q].scan = req[q].scan /\ req'[q].seen = req[q].seen
                      /\ req'[q].op = req[q].op /\ req'[q].reply = req[q].reply
                      /\ req'[q].pc \notin Writing
  BY <1>1 DEF Crash, Request, Writing
<1>3. \A q \in Reqs : ~Uploading(q)' /\ (ToldOf(q)' <=> ToldOf(q))
  BY <1>2 DEF Uploading, ToldOf
<1>4. CASE \E r \in Reqs : Uploading(r)
  <2>1. PICK r \in Reqs : Uploading(r)
    BY <1>4
  <2>2. \A q \in Reqs : q # r => ~Uploading(q)
    BY <2>1, ConstantsAssumption DEF IInv, LoopHeld
  <2> QED
    BY <1>1, <1>2, <1>3, <2>1, <2>2, LeavingPublishes
<1>5. CASE \A r \in Reqs : ~Uploading(r)
  <2>1. HiddenByUploads /\ HiddenByUploads'
    BY StateFacts, NextFacts DEF Facts
  <2>2. \A t \in ScanIds : Published(t)' <=> Published(t)
    BY <1>1, <1>3, <1>5, <2>1 DEF HiddenByUploads, Published, Static, Stored
  <2> QED
    BY <1>1, <1>2, <1>3, <2>2, SameStore, SameReports DEF Atomic!vars
<1> QED
  BY <1>4, <1>5

(***************************************************************************)
(* A report is made of the content published under its identifier: nobody  *)
(* has the identifier of a scan that is being uploaded.                    *)
(***************************************************************************)
LEMMA ReadingReports ==
    ASSUME IInv, IInv', NEW r \in Reqs, ReadFindings(r)
    PROVE  [Atomic!Next]_(Atomic!vars)
<1> DEFINE s == req[r].scan
<1>1. /\ req \in [Reqs -> Request] /\ req[r] \in Request /\ StageOK(r) /\ ReadOK(r)
  BY DEF IInv, TypeOK
<1>2. /\ UNCHANGED <<scans, findings>>
      /\ \A q \in Reqs : q # r => req'[q] = req[q]
      /\ req'[r].scan = s /\ req'[r].op = req[r].op /\ req[r].op \in Reads
      /\ req[r].reply = "none" /\ req'[r].reply = "200" /\ req'[r].seen = findings[s]
  BY <1>1 DEF ReadFindings, Request, StageOK
<1>3. s \in Stored /\ s \in disclosed
  BY <1>1, <1>2, ConstantsAssumption DEF ReadFindings, ReadOK, Owned, Stored
<1>4. /\ ~Uploading(r) /\ ~Uploading(r)' /\ ~ToldOf(r) /\ ToldOf(r)'
      /\ \A q \in Reqs : q # r => /\ Uploading(q)' <=> Uploading(q)
                                  /\ ToldOf(q)' <=> ToldOf(q)
  BY <1>2 DEF Uploading, ToldOf, Reads
<1>5. HiddenByUploads /\ HiddenByUploads'
  BY StateFacts, NextFacts DEF Facts
<1>6. PublishedContent' = PublishedContent
  <2>1. \A t \in ScanIds : Published(t)' <=> Published(t)
    BY <1>2, <1>4, <1>5 DEF HiddenByUploads, Published, Static, Stored
  <2> QED
    BY <1>2, <2>1, SameStore
<1>7. s \in ScanIds /\ ~BeingUploaded(s)
  BY <1>3, <1>5 DEF Stored, HiddenByUploads, IInv, UploadsAreUndisclosed
<1>8. \A q \in Reqs : q # r => ReportMade'[q] = ReportMade[q]
  BY <1>2, <1>4 DEF ReportMade, Static, Stored
<1>9. CASE Static(s)
  <2>1. PublishedContent[s] = ContentOf(s) /\ PublishedContent[s] # Hidden
    BY <1>7, <1>9, ContentTypes DEF PublishedContent, ContentOf
  <2>2. ReportMade[r] = Hidden /\ ReportMade'[r] = ContentOf(s)
    BY <1>2, <1>4, <1>9 DEF ReportMade, ContentOf, Static, Stored
  <2>3. ReportMade' = [ReportMade EXCEPT ![r] = PublishedContent[s]]
    BY <1>8, <2>1, <2>2 DEF ReportMade
  <2>4. Atomic!Read(r, s)
    BY <1>6, <2>1, <2>2, <2>3 DEF Atomic!Read
  <2> QED
    BY <1>7, <2>4 DEF Atomic!Next
<1>10. CASE ~Static(s)
  <2>1. ReportMade'[r] = ReportMade[r]
    BY <1>2, <1>4, <1>10 DEF ReportMade, Static, Stored
  <2>2. ReportMade' = ReportMade
    BY <1>8, <2>1 DEF ReportMade
  <2> QED
    BY <1>6, <2>2 DEF Atomic!vars
<1> QED
  BY <1>9, <1>10

--------------------------------------------------------------------------------
\* Every step of the process is a step of the abstract specification, or none.
LEMMA AtomicStep ==
    ASSUME IInv, IInv', [Next]_vars
    PROVE  [Atomic!Next]_(Atomic!vars)
<1>1. ASSUME NEW r \in Reqs, Serve(r)
      PROVE  [Atomic!Next]_(Atomic!vars)
  <2>1. CASE \E b \in Batches : UploadEvaluate(r, b) \/ CloudEvaluate(r, b)
    BY <2>1, EvaluateIsUnseen DEF Atomic!vars
  <2>2. CASE \E s \in ScanIds : StoreScan(r, s)
    BY <2>2, StoreScanIsUnseen DEF Atomic!vars
  <2>3. CASE StoreFindings(r)
    BY <2>3, StoreFindingsIsUnseen DEF Atomic!vars
  <2>4. CASE StoreFindingsUnmapped(r) \/ WriteAnswer(r)
    <3>1. /\ req[r].pc \in Writing
          /\ Answer(r, "500") \/ Answer(r, "200")
          /\ scans' = scans /\ findings' = findings
      BY <2>4 DEF StoreFindingsUnmapped, WriteAnswer, Writing
    <3> QED
      BY <3>1, WriteEndPublishes
  <2>5. CASE ReadFindings(r)
    BY <2>5, ReadingReports
  <2> QED
    BY <1>1, <2>1, <2>2, <2>3, <2>4, <2>5, HandlingIsUnseen DEF Serve, Atomic!vars
<1>2. ASSUME NEW r \in Reqs, WriteFault(r)
      PROVE  [Atomic!Next]_(Atomic!vars)
  <2>1. /\ req[r].pc \in Writing /\ Answer(r, "500")
        /\ scans' = scans /\ findings' = findings
    BY <1>2 DEF WriteFault, Writing
  <2> QED
    BY <2>1, WriteEndPublishes
<1>3. CASE UNCHANGED vars
  <2>1. UNCHANGED <<scans, findings, req, loop>>
    BY <1>3 DEF vars
  <2>2. PublishedContent' = PublishedContent /\ ReportMade' = ReportMade
    <3>1. \A s \in ScanIds : Published(s)' <=> Published(s)
      BY <2>1 DEF Published, Static, Stored, BeingUploaded, Wrote
    <3>2. \A q \in Reqs : ToldOf(q)' <=> ToldOf(q)
      BY <2>1 DEF ToldOf
    <3> QED
      BY <2>1, <3>1, <3>2, SameStore, SameReports
  <2> QED
    BY <2>2 DEF Atomic!vars
<1> QED
  BY <1>1, <1>2, <1>3, HandlingIsUnseen, SendIsUnseen, CrashPublishes DEF Next, Atomic!vars

(***************************************************************************)
(* Uploads appear atomically: the two commits of routes.py and the reads   *)
(* in between are indistinguishable from a store where a scan and all of   *)
(* its findings appear in one step.  It rests on upload_scan keeping the   *)
(* event loop, and on nothing about the database but its commits.          *)
(***************************************************************************)
THEOREM AtomicUploads == Spec => UploadsAreAtomic
<1>1. Init => Atomic!Init
  <2> SUFFICES ASSUME Init PROVE Atomic!Init
    OBVIOUS
  <2>1. Stored = {} /\ \A r \in Reqs : req[r].reply = "none"
    BY DEF Init, Stored
  <2>2. \A r \in Reqs : ~ToldOf(r)
    BY <2>1 DEF ToldOf
  <2> QED
    BY <2>1, <2>2 DEF Atomic!Init, PublishedContent, ReportMade, Static
<1>2. IInv /\ IInv' /\ [Next]_vars => [Atomic!Next]_(Atomic!vars)
  BY AtomicStep
<1> QED
  BY <1>1, <1>2, Invariant, PTL DEF Spec, UploadsAreAtomic, Atomic!Spec
================================================================================
