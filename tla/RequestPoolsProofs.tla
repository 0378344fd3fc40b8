--------------------------- MODULE RequestPoolsProofs --------------------------
(***************************************************************************)
(* For any number of requests, threads and connections: the pools of       *)
(* RequestPools are never overdrawn and nobody leaks.  That everybody is   *)
(* answered is liveness, and stays with TLC.                               *)
(***************************************************************************)
EXTENDS RequestPools, FiniteSetTheorems, TLAPS

(***************************************************************************)
(* NothingLeaks is inductive as it stands: beside the types, a request     *)
(* that takes a thread or the loop is on neither, because it is queued.    *)
(***************************************************************************)
IInv == TypeOK /\ NothingLeaks

\* A set of requests grows by one at most, and shrinks by one at most.
LEMMA PoolSizes ==
    ASSUME NEW S, S \subseteq Reqs, NEW r \in Reqs
    PROVE  /\ Cardinality(S) \in Nat
           /\ Cardinality(S \cup {r}) <= Cardinality(S) + 1
           /\ Cardinality(S \ {r}) <= Cardinality(S)
<1>1. IsFiniteSet(S)
  BY PoolsAssumption, FS_Subset
<1>2. Cardinality(S) \in Nat
  BY <1>1, FS_CardinalityType
<1>3. Cardinality(S \cup {r}) = IF r \in S THEN Cardinality(S) ELSE Cardinality(S) + 1
  BY <1>1, FS_AddElement
<1>4. Cardinality(S \ {r}) = IF r \in S THEN Cardinality(S) - 1 ELSE Cardinality(S)
  BY <1>1, FS_RemoveElement
<1> QED
  BY <1>2, <1>3, <1>4

\* It holds of the empty pools.
LEMMA InitIsIInv ==
    ASSUME Init
    PROVE  IInv
<1>1. TypeOK
  BY DEF Init, TypeOK
<1>2. Cardinality({}) = 0
  BY FS_EmptySet
<1>3. NothingLeaks
  BY <1>2, PoolsAssumption DEF Init, NothingLeaks
<1> QED
  BY <1>1, <1>3 DEF IInv

\* Each action keeps the types.
LEMMA TypeStep ==
    ASSUME TypeOK, NEW r \in Reqs, Send(r) \/ Serve(r)
    PROVE  TypeOK'
<1> USE DEF TypeOK
<1>1. CASE Send(r)
  BY <1>1 DEF Send
<1>2. CASE StartOnThread(r)
  BY <1>2 DEF StartOnThread, Begin
<1>3. CASE StartOnLoop(r)
  BY <1>3 DEF StartOnLoop, Begin, OnLoop
<1>4. CASE Checkout(r)
  BY <1>4 DEF Checkout
<1>5. CASE PoolTimeout(r)
  BY <1>5 DEF PoolTimeout, Leave
<1>6. CASE Return(r)
  <2>1. Following(r) \subseteq 1..8
    BY DEF Following, Last
  <2> QED
    BY <1>6, <2>1 DEF Return, Leave
<1>7. CASE Commit(r)
  BY <1>7 DEF Commit
<1>8. CASE Finish(r)
  BY <1>8 DEF Finish, Leave
<1>9. CASE Close(r)
  BY <1>9 DEF Close
<1> QED
  BY <1>1, <1>2, <1>3, <1>4, <1>5, <1>6, <1>7, <1>8, <1>9 DEF Serve

\* The three parts of NothingLeaks that name the request and the loop.
OnDuty == \A r \in Reqs : pc[r] \in {"waiting", "running"} <=> r \in thread \/ loop = r

OpenOnly == \A r \in conn : pc[r] \notin {"new", "waiting", "done"}

\* A request changes its state together with its thread, connection or loop.
LEMMA DutyStep ==
    ASSUME TypeOK, OnDuty, OpenOnly, loop \notin thread, NEW r \in Reqs, Send(r) \/ Serve(r)
    PROVE  OnDuty' /\ OpenOnly' /\ loop' \notin thread'
<1> USE PoolsAssumption DEF TypeOK, OnDuty, OpenOnly
<1>1. CASE Send(r)
  BY <1>1 DEF Send
<1>2. CASE StartOnThread(r)
  BY <1>2 DEF StartOnThread, Begin
<1>3. CASE StartOnLoop(r)
  BY <1>3 DEF StartOnLoop, Begin, OnLoop
<1>4. CASE Checkout(r)
  BY <1>4 DEF Checkout
<1>5. CASE PoolTimeout(r)
  BY <1>5 DEF PoolTimeout, Leave
<1>6. CASE Return(r)
  BY <1>6 DEF Return, Leave
<1>7. CASE Commit(r)
  BY <1>7 DEF Commit
<1>8. CASE Finish(r)
  BY <1>8 DEF Finish, Leave
<1>9. CASE Close(r)
  BY <1>9 DEF Close
<1> QED
  BY <1>1, <1>2, <1>3, <1>4, <1>5, <1>6, <1>7, <1>8, <1>9 DEF Serve

\* A pool grows by an action that finds room in it, and by no other.
LEMMA SizeStep ==
    ASSUME TypeOK, NEW r \in Reqs, Send(r) \/ Serve(r),
           Cardinality(conn) <= Connections, Cardinality(thread) <= Threads
    PROVE  Cardinality(conn') <= Connections /\ Cardinality(thread') <= Threads
<1>1. conn \subseteq Reqs /\ thread \subseteq Reqs
  BY DEF TypeOK
<1>2. /\ Cardinality(conn) \in Nat /\ Cardinality(thread) \in Nat
      /\ Cardinality(conn \cup {r}) <= Cardinality(conn) + 1
      /\ Cardinality(thread \cup {r}) <= Cardinality(thread) + 1
      /\ Cardinality(conn \ {r}) <= Cardinality(conn)
      /\ Cardinality(thread \ {r}) <= Cardinality(thread)
  BY <1>1, PoolSizes
<1>3. /\ Cardinality(conn \cup {r}) \in Nat /\ Cardinality(thread \cup {r}) \in Nat
      /\ Cardinality(conn \ {r}) \in Nat /\ Cardinality(thread \ {r}) \in Nat
  <2>1. /\ conn \cup {r} \subseteq Reqs /\ thread \cup {r} \subseteq Reqs
        /\ conn \ {r} \subseteq Reqs /\ thread \ {r} \subseteq Reqs
    BY <1>1
  <2> QED
    BY <2>1, PoolSizes
<1>4. \/ conn' \in {conn, conn \ {r}}
      \/ conn' = conn \cup {r} /\ Cardinality(conn) < Connections
  BY DEF Serve, Send, StartOnThread, StartOnLoop, Checkout, PoolTimeout, Return, Commit,
         Finish, Close
<1>5. \/ thread' \in {thread, thread \ {r}}
      \/ thread' = thread \cup {r} /\ Cardinality(thread) < Threads
  BY DEF Serve, Send, StartOnThread, StartOnLoop, Checkout, PoolTimeout, Return, Commit,
         Finish, Close, Leave
<1>6. Connections \in Nat /\ Threads \in Nat
  BY PoolsAssumption
<1>7. Cardinality(conn') <= Connections
  <2>1. CASE conn' = conn \cup {r} /\ Cardinality(conn) < Connections
    BY <1>2, <1>3, <1>6, <2>1
  <2>2. CASE conn' = conn
    BY <2>2
  <2>3. CASE conn' = conn \ {r}
    BY <1>2, <1>3, <1>6, <2>3
  <2> QED
    BY <1>4, <2>1, <2>2, <2>3
<1>8. Cardinality(thread') <= Threads
  <2>1. CASE thread' = thread \cup {r} /\ Cardinality(thread) < Threads
    BY <1>2, <1>3, <1>6, <2>1
  <2>2. CASE thread' = thread
    BY <2>2
  <2>3. CASE thread' = thread \ {r}
    BY <1>2, <1>3, <1>6, <2>3
  <2> QED
    BY <1>5, <2>1, <2>2, <2>3
<1> QED
  BY <1>7, <1>8

\* Every step keeps it.
LEMMA NextKeepsIInv ==
    ASSUME IInv, [Next]_vars
    PROVE  IInv'
<1>1. ASSUME NEW r \in Reqs, Send(r) \/ Serve(r) PROVE IInv'
  <2>1. /\ TypeOK /\ OnDuty /\ OpenOnly /\ loop \notin thread
        /\ Cardinality(conn) <= Connections /\ Cardinality(thread) <= Threads
    BY DEF IInv, NothingLeaks, OnDuty, OpenOnly
  <2>2. TypeOK'
    BY <1>1, <2>1, TypeStep
  <2>3. OnDuty' /\ OpenOnly' /\ loop' \notin thread'
    BY <1>1, <2>1, DutyStep
  <2>4. Cardinality(conn') <= Connections /\ Cardinality(thread') <= Threads
    BY <1>1, <2>1, SizeStep
  <2> QED
    BY <2>2, <2>3, <2>4 DEF IInv, NothingLeaks, OnDuty, OpenOnly
<1>2. CASE UNCHANGED vars
  BY <1>2 DEF vars, IInv, TypeOK, NothingLeaks
<1> QED
  BY <1>1, <1>2 DEF Next

\* So it always holds.
LEMMA AlwaysIInv == Spec => []IInv
<1>1. Init => IInv
  BY InitIsIInv
<1>2. IInv /\ [Next]_vars => IInv'
  BY NextKeepsIInv
<1> QED
  BY <1>1, <1>2, PTL DEF Spec

(***************************************************************************)
(* The pools' variables keep to their types.                               *)
(***************************************************************************)
THEOREM TypeCorrect == Spec => []TypeOK
<1>1. IInv => TypeOK
  BY DEF IInv
<1> QED
  BY <1>1, AlwaysIInv, PTL

(***************************************************************************)
(* However requests end (answered, refused, timed out at the pool of       *)
(* db.py:41), what they hold is what the pools count, and the pools are    *)
(* never overdrawn.                                                        *)
(***************************************************************************)
THEOREM NoLeak == Spec => []NothingLeaks
<1>1. IInv => NothingLeaks
  BY DEF IInv
<1> QED
  BY <1>1, AlwaysIInv, PTL

================================================================================
