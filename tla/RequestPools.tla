------------------------------ MODULE RequestPools -----------------------------
(***************************************************************************)
(* Requests and the two pools they draw on: the threads that FastAPI runs  *)
(* plain functions on, and the connections of db.py's engine.  A session   *)
(* takes a connection with its first statement, keeps it while its request *)
(* queues for a thread again, gives it back with a commit and takes one    *)
(* with the statement after that.  So requests with a connection and no    *)
(* thread wait for requests with a thread and no connection, and an upload *)
(* may wait for a connection while it holds the event loop.                *)
(*                                                                         *)
(* A request goes through hops: 1 enters get_session, 2 is                 *)
(* get_current_user, 3 the role check, 4 the read of an uploaded file that *)
(* is spooled to disk, 5 the handler, 6 and 7 the handler after its first  *)
(* and second commit, 8 makes the response of a plain handler.             *)
(***************************************************************************)
EXTENDS Naturals, FiniteSets

CONSTANTS
    Reqs,           \* requests
    Writers,        \* those whose handlers commit: an upload, a cloud scan
    Uploads,        \* those whose handler is `async def`
    Threads,        \* threads of the pool (40)
    Connections,    \* pool_size and max_overflow (5 + 10)
    NoReq

ASSUME PoolsAssumption ==
    /\ IsFiniteSet(Reqs)
    /\ Uploads \subseteq Writers /\ Writers \subseteq Reqs
    /\ Threads \in Nat \ {0} /\ Connections \in Nat \ {0}
    /\ NoReq \notin Reqs

VARIABLES
    pc,         \* how far each request has come
    hop,        \* the hop it is at
    conn,       \* the requests whose sessions hold a connection
    thread,     \* the requests that run on a thread
    loop        \* the upload that runs on the event loop, or NoReq

vars == <<pc, hop, conn, thread, loop>>

\* The variables keep to their types.
TypeOK ==
    /\ pc \in [Reqs -> {"new", "queued", "waiting", "running", "closing", "done"}]
    /\ hop \in [Reqs -> 1..8]
    /\ conn \subseteq Reqs
    /\ thread \subseteq Reqs
    /\ loop \in Uploads \cup {NoReq}

Init ==
    /\ pc = [r \in Reqs |-> "new"]
    /\ hop = [r \in Reqs |-> 1]
    /\ conn = {} /\ thread = {}
    /\ loop = NoReq

--------------------------------------------------------------------------------
Send(r) ==
    /\ pc[r] = "new"
    /\ pc' = [pc EXCEPT ![r] = "queued"]
    /\ UNCHANGED <<hop, conn, thread, loop>>

OnLoop(r) == r \in Uploads /\ hop[r] = 5

\* The hops with statements: the others use what the session has loaded.
Statements == {2, 5, 6, 7}

\* The first statement of a hop needs a connection, unless one is held.
Begin(r) ==
    pc' = [pc EXCEPT ![r] = IF r \in conn \/ hop[r] \notin Statements THEN "running" ELSE "waiting"]

\* The loop hands a plain function to a thread, when there is one.
StartOnThread(r) ==
    /\ pc[r] = "queued" /\ ~OnLoop(r)
    /\ loop = NoReq /\ Cardinality(thread) < Threads
    /\ thread' = thread \cup {r}
    /\ Begin(r)
    /\ UNCHANGED <<hop, conn, loop>>

StartOnLoop(r) ==
    /\ pc[r] = "queued" /\ OnLoop(r)
    /\ loop = NoReq
    /\ loop' = r
    /\ Begin(r)
    /\ UNCHANGED <<hop, conn, thread>>

\* The loop or the thread is free again.
Leave(r) ==
    /\ thread' = thread \ {r}
    /\ loop' = IF loop = r THEN NoReq ELSE loop

Checkout(r) ==
    /\ pc[r] = "waiting"
    /\ Cardinality(conn) < Connections
    /\ conn' = conn \cup {r}
    /\ pc' = [pc EXCEPT ![r] = "running"]
    /\ UNCHANGED <<hop, thread, loop>>

\* Mutant: create_engine(pool_timeout=None): the wait has no end.
PoolTimeoutNever(r) ==
    /\ pc[r] = "waiting"
    /\ Cardinality(conn) = Connections
    /\ UNCHANGED vars

(***************************************************************************)
(* The 30 seconds of create_engine's default pool_timeout are over; the    *)
(* exception is nobody's, so the request is a 500.                         *)
(***************************************************************************)
PoolTimeout(r) ==
    /\ pc[r] = "waiting"
    /\ Cardinality(conn) = Connections
    /\ pc' = [pc EXCEPT ![r] = "closing"]
    /\ Leave(r)
    /\ UNCHANGED <<hop, conn>>

\* The hop of a handler that has nothing left to commit.
Last(r) == IF r \in Writers THEN 7 ELSE 5

(***************************************************************************)
(* The hops that may follow: a small file is not spooled, and the response *)
(* of an `async def` is made where the handler runs.                       *)
(***************************************************************************)
Following(r) ==
    CASE hop[r] = 3 -> IF r \in Uploads THEN {4, 5} ELSE {5}
      [] hop[r] \in {1, 2, 4} -> {hop[r] + 1}
      [] hop[r] = Last(r) /\ r \notin Uploads -> {8}
      [] OTHER -> {}

\* A hop returns: the connection, if there is one, stays with the session.
Return(r) ==
    /\ pc[r] = "running"
    /\ \E h \in Following(r) : hop' = [hop EXCEPT ![r] = h]
    /\ pc' = [pc EXCEPT ![r] = "queued"]
    /\ Leave(r)
    /\ UNCHANGED conn

\* Mutant: the handler's attributes are reloaded over and over.
CommitAgain(r) ==
    /\ pc[r] = "running" /\ r \in Writers /\ hop[r] >= 5
    /\ hop' = [hop EXCEPT ![r] = hop[r] + 1]
    /\ conn' = conn \ {r}
    /\ pc' = [pc EXCEPT ![r] = "waiting"]
    /\ UNCHANGED <<thread, loop>>

(***************************************************************************)
(* session.commit() gives the connection back; session.refresh(), or the   *)
(* next look at an attribute, needs one.                                   *)
(***************************************************************************)
Commit(r) ==
    /\ pc[r] = "running" /\ r \in Writers /\ hop[r] \in 5..6
    /\ hop' = [hop EXCEPT ![r] = hop[r] + 1]
    /\ conn' = conn \ {r}
    /\ pc' = [pc EXCEPT ![r] = "waiting"]
    /\ UNCHANGED <<thread, loop>>

\* The response is made, or a hop ends in a refusal or an exception.
Finish(r) ==
    /\ pc[r] = "running"
    /\ pc' = [pc EXCEPT ![r] = "closing"]
    /\ Leave(r)
    /\ UNCHANGED <<hop, conn>>

\* Mutant: `yield Session(engine)` without `with`.
CloseNothing(r) ==
    /\ pc[r] = "closing" /\ loop = NoReq
    /\ pc' = [pc EXCEPT ![r] = "done"]
    /\ UNCHANGED <<hop, conn, thread, loop>>

(***************************************************************************)
(* The exit of get_session, then the answer.  FastAPI runs the exit on a   *)
(* thread beside the pool, so it does not queue.                           *)
(***************************************************************************)
Close(r) ==
    /\ pc[r] = "closing" /\ loop = NoReq
    /\ conn' = conn \ {r}
    /\ pc' = [pc EXCEPT ![r] = "done"]
    /\ UNCHANGED <<hop, thread, loop>>

Serve(r) ==
    \/ StartOnThread(r) \/ StartOnLoop(r)
    \/ Checkout(r) \/ PoolTimeout(r)
    \/ Return(r) \/ Commit(r) \/ Finish(r) \/ Close(r)

Next == \E r \in Reqs : Send(r) \/ Serve(r)

Spec == Init /\ [][Next]_vars

\* What runs goes on, the pools serve those who wait, and a wait times out.
FairSpec == Spec /\ \A r \in Reqs : WF_vars(Serve(r))

--------------------------------------------------------------------------------
(***************************************************************************)
(* However requests end, they hold what the pools think they hold: a       *)
(* thread or the loop exactly while a hop runs or waits, a connection only *)
(* while the request is open, and the pools are never overdrawn.           *)
(***************************************************************************)
NothingLeaks ==
    /\ \A r \in Reqs : pc[r] \in {"waiting", "running"} <=> r \in thread \/ loop = r
    /\ \A r \in conn : pc[r] \notin {"new", "waiting", "done"}
    /\ loop \notin thread
    /\ Cardinality(conn) <= Connections
    /\ Cardinality(thread) <= Threads

(***************************************************************************)
(* Requests do come to wait for each other's threads, connections and loop *)
(* in a circle; the pool's timeout breaks it, and each is answered.        *)
(***************************************************************************)
EveryRequestIsAnswered == \A r \in Reqs : pc[r] = "queued" ~> pc[r] = "done"
================================================================================
