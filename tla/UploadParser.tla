------------------------------- MODULE UploadParser ----------------------------
(***************************************************************************)
(* parser.py as upload_scan uses it: a file is checked, handed to a worker *)
(* thread of its own and awaited for three seconds.  A thread cannot be    *)
(* stopped: a worker that is too slow runs on after its upload has been    *)
(* refused, next to those of later uploads.                                *)
(***************************************************************************)
EXTENDS Naturals

CONSTANTS
    Files,          \* what an admin may upload
    Content,        \* what is in it, a record for each file
    MaxDepth,       \* MAX_DEPTH, 20
    MaxUploads      \* bound on the uploads tried

(***************************************************************************)
(* suffix, whether the file is over MAX_FILE_SIZE, has anchors or aliases, *)
(* is well-formed for the loader of its suffix, how deep its deepest value *)
(* is nested (counted from 1), and the resources the engine finds in it.   *)
(***************************************************************************)
ASSUME FilesAssumption ==
    /\ Files # {}
    /\ \A f \in Files :
        /\ Content[f].suffix \in STRING
        /\ {Content[f].big, Content[f].aliases, Content[f].wellFormed} \subseteq BOOLEAN
        /\ Content[f].depth \in Nat \ {0}
    /\ MaxDepth \in Nat \ {0} /\ MaxUploads \in Nat

VARIABLES
    file,          \* the file of the latest upload
    uploads,       \* how many uploads there have been
    parsing,       \* what has become of it: "no", "waiting", "read" or "refused"
    workers        \* the uploads whose worker threads still run

parser == <<file, uploads, parsing, workers>>

TypeOKParser ==
    /\ file \in Files
    /\ uploads \in 0..MaxUploads
    /\ parsing \in {"no", "waiting", "read", "refused"}
    /\ workers \subseteq 1..uploads

InitParser ==
    /\ file = CHOOSE f \in Files : TRUE
    /\ uploads = 0
    /\ parsing = "no"
    /\ workers = {}

AllowedExtensions == {".json", ".yaml", ".yml"}

(***************************************************************************)
(* Refused before a worker is started.  _reject_yaml_aliases reads the     *)
(* event stream up to its first error, which the loader will meet too.     *)
(***************************************************************************)
RefusedBefore(f) ==
    \/ Content[f].suffix \notin AllowedExtensions
    \/ Content[f].big
    \/ Content[f].suffix # ".json" /\ Content[f].aliases

Submit(f) ==
    /\ parsing \in {"no", "refused"} /\ uploads < MaxUploads
    /\ file' = f
    /\ uploads' = uploads + 1
    /\ IF RefusedBefore(f)
       THEN parsing' = "refused" /\ UNCHANGED workers
       ELSE parsing' = "waiting" /\ workers' = workers \cup {uploads'}

WorkerEnds(k) ==
    /\ k \in workers
    /\ workers' = workers \ {k}
    /\ UNCHANGED <<file, uploads, parsing>>

\* _validate_depth, called with depth 1 for the whole and once per value.
TooDeep(f) == Content[f].depth > MaxDepth

\* future.result() returns or raises, and the depth is validated.
ParseReturns ==
    /\ parsing = "waiting" /\ uploads \notin workers
    /\ parsing' = IF Content[file].wellFormed /\ ~TooDeep(file) THEN "read" ELSE "refused"
    /\ UNCHANGED <<file, uploads, workers>>

\* Mutant: `with ThreadPoolExecutor`, whose exit waits for the worker.
ParseTimesOutJoining ==
    /\ parsing = "waiting" /\ uploads \notin workers
    /\ parsing' = "refused"
    /\ UNCHANGED <<file, uploads, workers>>

\* The three seconds are over: cancel() does nothing to a running worker.
ParseTimesOut ==
    /\ parsing = "waiting" /\ uploads \in workers
    /\ parsing' = "refused"
    /\ UNCHANGED <<file, uploads, workers>>
================================================================================
