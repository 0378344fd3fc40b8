------------------------------ MODULE AtomicScans ------------------------------
(***************************************************************************)
(* What a reader of scans would like to rely on: a scan appears together   *)
(* with the findings it will ever have, and a report on it is made from    *)
(* exactly those.  "PASS means that no finding was produced for that rule  *)
(* in this scan" (compliance/engine.py) can be read off a report only if   *)
(* scans appear in this way.                                               *)
(*                                                                         *)
(* A scan whose writer failed half way is published without findings: that *)
(* is a shorter scan, not one that changes under its readers.              *)
(***************************************************************************)

CONSTANTS
    ScanIds,    \* identifiers of scans
    Users,      \* accounts
    Rules,      \* rule identifiers a finding may carry
    Readers,    \* requests that read one scan
    Hidden      \* content of an identifier under which nothing is published

VARIABLES
    store,      \* published content of each identifier
    report      \* what each reader was told: a content, or Hidden before that

vars == <<store, report>>

Content == [owner : Users, findings : SUBSET Rules]

Init ==
    /\ store = [s \in ScanIds |-> Hidden]
    /\ report = [r \in Readers |-> Hidden]

Publish(s, c) ==
    /\ store[s] = Hidden
    /\ store' = [store EXCEPT ![s] = c]
    /\ UNCHANGED report

Read(r, s) ==
    /\ report[r] = Hidden
    /\ store[s] # Hidden
    /\ report' = [report EXCEPT ![r] = store[s]]
    /\ UNCHANGED store

Next ==
    \/ \E s \in ScanIds, c \in Content : Publish(s, c)
    \/ \E r \in Readers, s \in ScanIds : Read(r, s)

Spec == Init /\ [][Next]_vars
================================================================================
