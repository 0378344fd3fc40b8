---------------------------- MODULE MCScanPipeline -----------------------------
(***************************************************************************)
(* Instances of ScanPipeline for TLC.  Liveness is checked with safety, so *)
(* symmetry sets are no option: instead, of the initial states that differ *)
(* in the names of the requests only, InOrder keeps one.                   *)
(***************************************************************************)
EXTENDS ScanPipeline

CONSTANTS
    r1, r2,         \* rules; the batches mix mapped and unmapped ones
    q1, q2, q3,     \* requests
    ann, bob        \* users

MCRules == {r1, r2}

MCReqs == {q1, q2, q3}

MCUsers == {ann, bob}

MCBatches == {{r1}, {r1, r2}}

\* A rank of what a request may be: its operation, and whose it is.
Rank(r) ==
    (CASE req[r].op = "upload" -> 0 [] req[r].op = "cloud" -> 1
       [] req[r].op = "list" -> 2 [] OTHER -> 3)
    + IF req[r].user = ann THEN 0 ELSE 4

InOrder == Rank(q1) <= Rank(q2) /\ Rank(q2) <= Rank(q3)

\* Some request reads: with it, two identifiers are enough for the writes.
SomeoneReads == \E r \in Reqs : req[r].op \in Reads \cup {"list"}

\* Live scans are held apart by their identifiers: one beside an upload or two reads.
OneLiveScan == \A r, w \in Reqs : req[r].op = "cloud" /\ req[w].op = "cloud" => r = w

MCInit == Init /\ InOrder /\ SomeoneReads /\ OneLiveScan

MCSpec == MCInit /\ [][Next]_vars /\ \A r \in Reqs : WF_vars(Serve(r))

\* Every write finds a fresh identifier.
ASSUME Cardinality(ScanIds) >= 2
================================================================================
