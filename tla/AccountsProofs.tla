----------------------------- MODULE AccountsProofs ----------------------------
(***************************************************************************)
(* Theorems about Accounts, for any number of requests, addresses,         *)
(* passwords and faults.                                                   *)
(*                                                                         *)
(* What makes the invariants inductive is the link between rows and        *)
(* requests: each row is the work of one sign-up, which has got past its   *)
(* insert and was not told 409, and each request that was told something   *)
(* has a row that justifies it.  Rows are never changed, so the grounds of *)
(* an answer stay.                                                         *)
(***************************************************************************)
EXTENDS Accounts, TLAPS

\* A row is as its sign-up asked, which is past the insert.
Authored(u) ==
    /\ req[u.by].op = "signup"
    /\ req[u.by].email = u.email /\ req[u.by].password = u.password
    /\ u.role = RoleOf(u.email)
    /\ req[u.by].pc \in {"inserted", "logged", "done"} /\ req[u.by].reply # "409"

RowsHaveAuthors == \A i \in Stored : Authored(users[i])

\* What a request has been told, or holds, has a row to show for it.
HasGrounds(r) ==
    /\ req[r].reply # "none" => req[r].pc = "done"
    /\ req[r].pc \in {"absent", "inserted", "logged"} => req[r].op = "signup"
    /\ req[r].pc \in {"inserted", "logged"} \/ req[r].reply = "201" =>
          req[r].op = "signup" /\ req[r].id \in Stored /\ users[req[r].id].by = r
    /\ req[r].reply = "200" => req[r].op # "signup" /\ req[r].id \in Stored
    /\ req[r].reply = "200" /\ req[r].op = "login" =>
          /\ users[req[r].id].email = req[r].email
          /\ users[req[r].id].password = req[r].password
    /\ req[r].op = "me" /\ req[r].pc # "new" => req[r].id \in Stored
    /\ req[r].reply = "401" => req[r].op = "login"
    /\ req[r].reply = "409" => req[r].op = "signup" /\ Taken(req[r].email)

\* Without a fault, the event of a row is there as soon as log_event is over.
EventsFollow ==
    /\ audit \subseteq Stored
    /\ faults = 0 => \A i \in Stored :
          req[users[i].by].pc \in {"logged", "done"} => i \in audit

IInv ==
    /\ TypeOK
    /\ OneAccountPerAddress
    /\ RowsHaveAuthors
    /\ \A r \in Reqs : HasGrounds(r)
    /\ EventsFollow

--------------------------------------------------------------------------------
(***************************************************************************)
(* The shapes of a step: rows stay, or one is added; one request changes,  *)
(* and only in what the handler sets.                                      *)
(***************************************************************************)

\* A stored identifier is an identifier with a row.
LEMMA StoredFacts ==
    ASSUME TypeOK, NEW i \in Stored
    PROVE  i \in Ids /\ users[i] \in User /\ users[i].by \in Reqs
  BY DEF TypeOK, Stored, User

\* One request changes, in its pc, its reply and its account.
Becomes(r, p, code, id) ==
    req' = [req EXCEPT ![r].pc = p, ![r].reply = code, ![r].id = id]

\* What such a change is.
LEMMA RequestChanges ==
    ASSUME TypeOK, NEW r \in Reqs, NEW p, NEW code, NEW id,
           Becomes(r, p, code, id)
    PROVE  /\ req'[r].pc = p /\ req'[r].reply = code /\ req'[r].id = id
           /\ req'[r].op = req[r].op /\ req'[r].email = req[r].email
           /\ req'[r].password = req[r].password
           /\ \A q \in Reqs : q # r => req'[q] = req[q]
           /\ /\ p \in {"new", "sent", "absent", "inserted", "logged", "done"}
              /\ code \in {"none", "200", "201", "401", "409", "500"}
              /\ id \in Ids \cup {None}
              => req' \in [Reqs -> Request]
<1> DEFINE x == [req[r] EXCEPT !.pc = p, !.reply = code, !.id = id]
<1>1. req \in [Reqs -> Request]
  BY DEF TypeOK
<1>2. req[r] \in Request
  BY <1>1
<1>3. req' = [req EXCEPT ![r] = x]
  BY <1>1 DEF Becomes
<1>4. /\ x.pc = p /\ x.reply = code /\ x.id = id
      /\ x.op = req[r].op /\ x.email = req[r].email /\ x.password = req[r].password
  BY <1>2 DEF Request
<1>5. /\ p \in {"new", "sent", "absent", "inserted", "logged", "done"}
      /\ code \in {"none", "200", "201", "401", "409", "500"}
      /\ id \in Ids \cup {None}
      => x \in Request
  BY <1>2 DEF Request
<1> HIDE DEF x
<1>6. req'[r] = x /\ \A q \in Reqs : q # r => req'[q] = req[q]
  BY <1>1, <1>3
<1>7. x \in Request => req' \in [Reqs -> Request]
  BY <1>1, <1>3
<1> QED
  BY <1>4, <1>5, <1>6, <1>7

\* The row NewUser makes is one of the users, and not the absence of one.
LEMMA NewUserIsUser ==
    ASSUME TypeOK, NEW r \in Reqs
    PROVE  /\ NewUser(r) \in User /\ NewUser(r) # None
           /\ NewUser(r).email = req[r].email /\ NewUser(r).password = req[r].password
           /\ NewUser(r).role = RoleOf(req[r].email) /\ NewUser(r).by = r
<1>1. req[r].email \in Emails /\ req[r].password \in Passwords
  BY DEF TypeOK, Request
<1>2. RoleOf(req[r].email) \in {"ADMIN", "VIEWER"}
  BY DEF RoleOf
<1>3. NewUser(r) \in User
  BY <1>1, <1>2 DEF NewUser, User
<1> QED
  BY <1>3, AccountsAssumption DEF NewUser, User

\* A row is added to the table.
LEMMA RowIsAdded ==
    ASSUME TypeOK, NEW r \in Reqs, NEW id \in Ids, users[id] = None,
           users' = [users EXCEPT ![id] = NewUser(r)]
    PROVE  /\ Stored' = Stored \cup {id} /\ id \notin Stored
           /\ \A i \in Stored : users'[i] = users[i]
           /\ users'[id] = NewUser(r)
           /\ users' \in [Ids -> User \cup {None}]
  BY NewUserIsUser DEF TypeOK, Stored

--------------------------------------------------------------------------------
\* Before the first request nothing is stored and nobody was told anything.
LEMMA InitIInv == Init => IInv
<1> SUFFICES ASSUME Init PROVE IInv
  OBVIOUS
<1>1. Stored = {} /\ audit = {} /\ faults = 0
  BY DEF Init, Stored
<1>2. /\ req \in [Reqs -> Request]
      /\ \A r \in Reqs : req[r].pc = "new" /\ req[r].reply = "none"
  <2>1. PICK asks \in [Reqs -> UNION {Asks[r] : r \in Reqs}] :
          /\ \A r \in Reqs : asks[r] \in Asks[r]
          /\ req = [r \in Reqs |->
                      [pc |-> "new", op |-> asks[r].op, email |-> asks[r].email,
                       password |-> asks[r].password, id |-> None, reply |-> "none"]]
    BY DEF Init
  <2>2. \A r \in Reqs : /\ asks[r].op \in {"signup", "login", "me"}
                        /\ asks[r].email \in Emails /\ asks[r].password \in Passwords
    <3> SUFFICES ASSUME NEW r \in Reqs
                 PROVE  /\ asks[r].op \in {"signup", "login", "me"}
                        /\ asks[r].email \in Emails /\ asks[r].password \in Passwords
      OBVIOUS
    <3>1. asks[r] \in [op : {"signup", "login", "me"}, email : Emails, password : Passwords]
      BY <2>1, AccountsAssumption
    <3> QED
      BY <3>1
  <2> QED
    BY <2>1, <2>2 DEF Request
<1>3. TypeOK
  BY <1>1, <1>2, AccountsAssumption DEF Init, TypeOK
<1> QED
  BY <1>1, <1>2, <1>3 DEF IInv, OneAccountPerAddress, RowsHaveAuthors, HasGrounds,
     EventsFollow

(***************************************************************************)
(* A request changes while the tables stay: its own grounds are what has   *)
(* to be shown.                                                            *)
(***************************************************************************)
LEMMA OnlyOneRequestMoves ==
    ASSUME IInv, NEW r \in Reqs, NEW p, NEW code, NEW id \in Ids \cup {None},
           p \in {"new", "sent", "absent", "inserted", "logged", "done"},
           code \in {"none", "200", "201", "401", "409", "500"},
           Becomes(r, p, code, id),
           UNCHANGED users,
           faults' \in 0..MaxFaults,
           faults' = 0 => faults = 0,
           audit \subseteq audit', audit' \subseteq Stored,
           HasGrounds(r)',
           code # "409" \/ req[r].pc \in {"new", "sent", "absent"},
           p \in {"inserted", "logged", "done"} \/ req[r].pc \in {"new", "sent", "absent"},
           /\ faults' = 0 /\ p \in {"logged", "done"}
              => \A i \in Stored : users[i].by = r => i \in audit'
    PROVE  IInv'
<1> USE DEF IInv
<1>1. /\ req'[r].pc = p /\ req'[r].reply = code /\ req'[r].id = id
      /\ req'[r].op = req[r].op /\ req'[r].email = req[r].email
      /\ req'[r].password = req[r].password
      /\ \A q \in Reqs : q # r => req'[q] = req[q]
      /\ req' \in [Reqs -> Request]
  BY RequestChanges
<1>2. Stored' = Stored
  BY DEF Stored
<1>3. TypeOK'
  BY <1>1, <1>2 DEF TypeOK, Stored
<1>4. OneAccountPerAddress'
  BY <1>2 DEF OneAccountPerAddress
<1>5. RowsHaveAuthors'
  <2> SUFFICES ASSUME NEW i \in Stored
               PROVE  Authored(users[i])'
    BY <1>2 DEF RowsHaveAuthors
  <2>1. users[i].by \in Reqs
    BY StoredFacts
  <2>2. Authored(users[i])
    BY DEF RowsHaveAuthors
  <2> QED
    BY <1>1, <2>1, <2>2 DEF Authored
<1>6. \A q \in Reqs : HasGrounds(q)'
  <2> SUFFICES ASSUME NEW q \in Reqs, q # r PROVE HasGrounds(q)'
    OBVIOUS
  <2> QED
    BY <1>1, <1>2 DEF HasGrounds, Taken
<1>7. EventsFollow'
  <2> SUFFICES ASSUME faults' = 0, NEW i \in Stored,
                      req'[users[i].by].pc \in {"logged", "done"}
               PROVE  i \in audit'
    BY <1>2 DEF EventsFollow
  <2>1. users[i].by \in Reqs
    BY StoredFacts
  <2> QED
    BY <1>1, <2>1 DEF EventsFollow
<1> QED
  BY <1>3, <1>4, <1>5, <1>6, <1>7

--------------------------------------------------------------------------------
(***************************************************************************)
(* One lemma for each action.                                              *)
(***************************************************************************)

\* The request that authored a row is past its insert.
LEMMA AuthorsArePast ==
    ASSUME IInv, NEW i \in Stored
    PROVE  /\ users[i].by \in Reqs
           /\ req[users[i].by].pc \in {"inserted", "logged", "done"}
           /\ req[users[i].by].op = "signup"
           /\ users[i].email = req[users[i].by].email
           /\ users[i].password = req[users[i].by].password
  BY StoredFacts DEF IInv, RowsHaveAuthors, Authored

LEMMA SendKeepsIInv ==
    ASSUME IInv, NEW r \in Reqs, NEW id \in Ids \cup {None}, Send(r, id)
    PROVE  IInv'
<1> USE DEF IInv
<1>1. /\ req[r].pc = "new" /\ UNCHANGED <<users, audit, faults>>
      /\ Becomes(r, "sent", req[r].reply, id)
  <2>1. req' = [req EXCEPT ![r].pc = "sent", ![r].id = id]
    BY DEF Send
  <2>2. req[r] \in Request
    BY DEF TypeOK
  <2>3. [req[r] EXCEPT !.pc = "sent", !.id = id]
          = [req[r] EXCEPT !.pc = "sent", !.reply = req[r].reply, !.id = id]
    BY <2>2 DEF Request
  <2> QED
    BY <2>1, <2>3 DEF Send, TypeOK, Becomes
<1>2. req[r].op = "me" => id \in Stored
  <2> SUFFICES ASSUME req[r].op = "me" PROVE id \in Stored
    OBVIOUS
  <2>1. PICK q \in Reqs : req[q].reply \in {"200", "201"} /\ id = req[q].id
    BY DEF Send, Sessions
  <2> QED
    BY <2>1 DEF HasGrounds
<1>3. req[r].reply = "none"
  BY <1>1 DEF HasGrounds, TypeOK, Request
<1>4. /\ req'[r].pc = "sent" /\ req'[r].reply = "none" /\ req'[r].id = id
      /\ req'[r].op = req[r].op
  BY <1>1, <1>3, RequestChanges
<1>5. HasGrounds(r)'
  BY <1>1, <1>2, <1>4 DEF HasGrounds, Stored
<1> QED
  BY <1>1, <1>3, <1>5, OnlyOneRequestMoves DEF TypeOK, EventsFollow

(***************************************************************************)
(* An answer of an action that changes no table: it has to be grounded.    *)
(***************************************************************************)
LEMMA AnswerKeepsIInv ==
    ASSUME IInv, NEW r \in Reqs, NEW code, NEW id \in Ids \cup {None},
           code \in {"200", "201", "401", "409", "500"},
           Answer(r, code, id),
           UNCHANGED <<users, audit>>,
           faults' \in 0..MaxFaults, faults' = 0 => faults = 0,
           code = "409" => req[r].pc = "sent" /\ req[r].op = "signup" /\ Taken(req[r].email),
           code = "401" => req[r].op = "login",
           code = "200" => req[r].op # "signup" /\ id \in Stored,
           code = "200" /\ req[r].op = "login" =>
               users[id].email = req[r].email /\ users[id].password = req[r].password,
           code = "201" => req[r].op = "signup" /\ id \in Stored /\ users[id].by = r,
           req[r].op = "me" => id \in Stored,
           faults' = 0 => req[r].pc # "inserted"
    PROVE  IInv'
<1> USE DEF IInv
<1>1. Becomes(r, "done", code, id)
  BY DEF Answer, Becomes
<1>2. /\ req'[r].pc = "done" /\ req'[r].reply = code /\ req'[r].id = id
      /\ req'[r].op = req[r].op /\ req'[r].email = req[r].email
      /\ req'[r].password = req[r].password
  BY <1>1, RequestChanges
<1>3. HasGrounds(r)'
  BY <1>2 DEF HasGrounds, Stored, Taken
<1>4. faults' = 0 => \A i \in Stored : users[i].by = r => i \in audit'
  BY AuthorsArePast DEF EventsFollow
<1> QED
  BY <1>1, <1>3, <1>4, OnlyOneRequestMoves DEF EventsFollow

LEMMA SignupTakenKeepsIInv ==
    ASSUME IInv, NEW r \in Reqs, SignupTaken(r)
    PROVE  IInv'
  BY AnswerKeepsIInv DEF SignupTaken, IInv, TypeOK

LEMMA SignupFreeKeepsIInv ==
    ASSUME IInv, NEW r \in Reqs, SignupFree(r)
    PROVE  IInv'
<1> USE DEF IInv
<1>1. /\ req[r].pc = "sent" /\ req[r].op = "signup" /\ UNCHANGED <<users, audit, faults>>
      /\ Becomes(r, "absent", req[r].reply, req[r].id)
  <2>1. req' = [req EXCEPT ![r].pc = "absent"]
    BY DEF SignupFree
  <2>2. req[r] \in Request
    BY DEF TypeOK
  <2>3. [req[r] EXCEPT !.pc = "absent"]
          = [req[r] EXCEPT !.pc = "absent", !.reply = req[r].reply, !.id = req[r].id]
    BY <2>2 DEF Request
  <2> QED
    BY <2>1, <2>3 DEF SignupFree, TypeOK, Becomes
<1>2. req[r].reply = "none" /\ req[r].id \in Ids \cup {None}
  BY <1>1 DEF HasGrounds, TypeOK, Request
<1>3. /\ req'[r].pc = "absent" /\ req'[r].reply = "none" /\ req'[r].op = "signup"
  BY <1>1, <1>2, RequestChanges
<1>4. HasGrounds(r)'
  BY <1>1, <1>3 DEF HasGrounds, Stored
<1> QED
  BY <1>1, <1>2, <1>4, OnlyOneRequestMoves DEF TypeOK, EventsFollow

\* A failure is counted, and leaves the count within its bound.
LEMMA FaultFacts ==
    ASSUME TypeOK, Fault
    PROVE  faults' \in 0..MaxFaults /\ faults' # 0
  BY AccountsAssumption DEF TypeOK, Fault

(***************************************************************************)
(* A row is committed for a request that found its address free: it is the *)
(* only one of its address, and its request its author.                    *)
(***************************************************************************)
LEMMA RowKeepsIInv ==
    ASSUME IInv, NEW r \in Reqs, NEW id \in Ids, NEW p, NEW code, NEW kept,
           req[r].pc = "absent",
           users[id] = None, ~Taken(req[r].email),
           users' = [users EXCEPT ![id] = NewUser(r)],
           Becomes(r, p, code, kept),
           \/ p = "inserted" /\ code = "none" /\ kept = id
           \/ p = "done" /\ code = "500" /\ kept = None /\ faults' # 0,
           UNCHANGED audit,
           faults' \in 0..MaxFaults, faults' = 0 => faults = 0
    PROVE  IInv'
<1> USE DEF IInv
<1>1. /\ req'[r].pc = p /\ req'[r].reply = code /\ req'[r].id = kept
      /\ req'[r].op = req[r].op /\ req'[r].email = req[r].email
      /\ req'[r].password = req[r].password
      /\ \A q \in Reqs : q # r => req'[q] = req[q]
      /\ req' \in [Reqs -> Request]
  BY RequestChanges
<1>2. /\ Stored' = Stored \cup {id} /\ id \notin Stored
      /\ \A i \in Stored : users'[i] = users[i]
      /\ users'[id] = NewUser(r)
      /\ users' \in [Ids -> User \cup {None}]
  BY RowIsAdded
<1>3. /\ users'[id].email = req[r].email /\ users'[id].password = req[r].password
      /\ users'[id].role = RoleOf(req[r].email) /\ users'[id].by = r
  BY <1>2, NewUserIsUser
<1>4. req[r].op = "signup"
  BY DEF HasGrounds
<1>5. TypeOK'
  BY <1>1, <1>2 DEF TypeOK
<1>6. OneAccountPerAddress'
  BY <1>2, <1>3 DEF OneAccountPerAddress, Taken
<1>7. RowsHaveAuthors'
  <2> SUFFICES ASSUME NEW i \in Stored' PROVE Authored(users[i])'
    BY DEF RowsHaveAuthors
  <2>1. CASE i = id
    BY <1>1, <1>3, <1>4, <2>1 DEF Authored
  <2>2. CASE i \in Stored
    <3>1. Authored(users[i]) /\ users[i].by \in Reqs /\ users[i].by # r
      BY <2>2, AuthorsArePast DEF RowsHaveAuthors
    <3> QED
      BY <1>1, <1>2, <2>2, <3>1 DEF Authored
  <2> QED
    BY <1>2, <2>1, <2>2
<1>8. \A q \in Reqs : HasGrounds(q)'
  <2> SUFFICES ASSUME NEW q \in Reqs PROVE HasGrounds(q)'
    OBVIOUS
  <2>1. CASE q = r
    BY <1>1, <1>2, <1>3, <1>4, <2>1 DEF HasGrounds
  <2>2. CASE q # r
    <3>1. req'[q] = req[q] /\ HasGrounds(q)
      BY <1>1, <2>2
    <3>2. Taken(req[q].email) => Taken(req[q].email)'
      BY <1>2, <3>1 DEF Taken
    <3> QED
      BY <1>2, <3>1, <3>2 DEF HasGrounds
  <2> QED
    BY <2>1, <2>2
<1>9. EventsFollow'
  <2>1. audit' \subseteq Stored'
    BY <1>2 DEF EventsFollow
  <2>2. ASSUME faults' = 0, NEW i \in Stored', req'[users'[i].by].pc \in {"logged", "done"}
        PROVE  i \in audit'
    <3>1. i # id
      BY <1>1, <1>3, <2>2
    <3>2. i \in Stored /\ users[i].by \in Reqs /\ users[i].by # r
      BY <1>2, <3>1, AuthorsArePast
    <3> QED
      BY <1>1, <1>2, <2>2, <3>2 DEF EventsFollow
  <2> QED
    BY <2>1, <2>2 DEF EventsFollow
<1> QED
  BY <1>5, <1>6, <1>7, <1>8, <1>9

LEMMA InsertKeepsIInv ==
    ASSUME IInv, NEW r \in Reqs, NEW id \in Ids, Insert(r, id)
    PROVE  IInv'
<1>1. req[r].reply = "none" /\ req[r] \in Request
  BY DEF Insert, IInv, HasGrounds, TypeOK
<1>2. [req[r] EXCEPT !.pc = "inserted", !.id = id]
        = [req[r] EXCEPT !.pc = "inserted", !.reply = "none", !.id = id]
  BY <1>1 DEF Request
<1>3. Becomes(r, "inserted", "none", id)
  BY <1>2 DEF Insert, IInv, TypeOK, Becomes
<1> QED
  BY <1>3, RowKeepsIInv DEF Insert, IInv, TypeOK

LEMMA InsertConflictKeepsIInv ==
    ASSUME IInv, NEW r \in Reqs, InsertConflict(r)
    PROVE  IInv'
<1>1. req[r].op = "signup"
  BY DEF InsertConflict, IInv, HasGrounds
<1> QED
  BY <1>1, AnswerKeepsIInv DEF InsertConflict, IInv, TypeOK

LEMMA InsertFaultKeepsIInv ==
    ASSUME IInv, NEW r \in Reqs, NEW id \in Ids, InsertFault(r, id)
    PROVE  IInv'
<1>1. /\ req[r].pc = "absent" /\ Answer(r, "500", None) /\ UNCHANGED audit
      /\ Becomes(r, "done", "500", None)
  BY DEF InsertFault, Answer, Becomes
<1>2. faults' \in 0..MaxFaults /\ faults' # 0
  BY FaultFacts DEF InsertFault, IInv
<1>3. req[r].op = "signup"
  BY <1>1 DEF IInv, HasGrounds
<1>4. CASE UNCHANGED users
  BY <1>1, <1>2, <1>3, <1>4, AnswerKeepsIInv
<1>5. CASE /\ users[id] = None /\ ~Taken(req[r].email)
           /\ users' = [users EXCEPT ![id] = NewUser(r)]
  BY <1>1, <1>2, <1>5, RowKeepsIInv
<1> QED
  BY <1>4, <1>5 DEF InsertFault

LEMMA LogEventKeepsIInv ==
    ASSUME IInv, NEW r \in Reqs, LogEvent(r)
    PROVE  IInv'
<1> USE DEF IInv
<1>1. req[r].pc = "inserted" /\ req[r] \in Request /\ UNCHANGED users
  BY DEF LogEvent, TypeOK
<1>2. /\ req[r].op = "signup" /\ req[r].reply = "none"
      /\ req[r].id \in Stored /\ users[req[r].id].by = r
  BY <1>1 DEF HasGrounds
<1>3. Becomes(r, "logged", "none", req[r].id)
  <2>1. [req[r] EXCEPT !.pc = "logged"]
          = [req[r] EXCEPT !.pc = "logged", !.reply = "none", !.id = req[r].id]
    BY <1>1, <1>2 DEF Request
  <2> QED
    BY <2>1 DEF LogEvent, TypeOK, Becomes
<1>4. /\ req'[r].pc = "logged" /\ req'[r].reply = "none" /\ req'[r].op = "signup"
      /\ req'[r].id = req[r].id
  BY <1>2, <1>3, RequestChanges
<1>5. HasGrounds(r)'
  BY <1>1, <1>2, <1>4 DEF HasGrounds, Stored
<1>6. \A i \in Stored : users[i].by = r => i = req[r].id
  BY <1>2, AuthorsArePast DEF OneAccountPerAddress
<1>7. CASE audit' = audit \cup {req[r].id} /\ UNCHANGED faults
  BY <1>1, <1>2, <1>3, <1>5, <1>6, <1>7, OnlyOneRequestMoves DEF TypeOK, EventsFollow, Stored
<1>8. CASE Fault /\ UNCHANGED audit
  <2>1. faults' \in 0..MaxFaults /\ faults' # 0
    BY <1>8, FaultFacts
  <2> QED
    BY <1>1, <1>2, <1>3, <1>5, <1>8, <2>1, OnlyOneRequestMoves DEF EventsFollow, Stored
<1> QED
  BY <1>7, <1>8 DEF LogEvent

LEMMA AnswerSignupKeepsIInv ==
    ASSUME IInv, NEW r \in Reqs, AnswerSignup(r)
    PROVE  IInv'
<1>1. /\ req[r].op = "signup" /\ req[r].id \in Stored /\ users[req[r].id].by = r
  BY DEF AnswerSignup, IInv, HasGrounds
<1> QED
  BY <1>1, AnswerKeepsIInv DEF AnswerSignup, IInv, TypeOK, Stored

LEMMA LoginKeepsIInv ==
    ASSUME IInv, NEW r \in Reqs, Login(r)
    PROVE  IInv'
<1>1. PICK i \in Opened(r) : Answer(r, "200", i)
  BY DEF Login
<1>2. i \in Stored /\ users[i].email = req[r].email /\ users[i].password = req[r].password
  BY DEF Opened
<1> QED
  BY <1>1, <1>2, AnswerKeepsIInv DEF Login, IInv, TypeOK, Stored

LEMMA LoginRefusedKeepsIInv ==
    ASSUME IInv, NEW r \in Reqs, LoginRefused(r)
    PROVE  IInv'
  BY AnswerKeepsIInv DEF LoginRefused, IInv, TypeOK

LEMMA MeKeepsIInv ==
    ASSUME IInv, NEW r \in Reqs, Me(r)
    PROVE  IInv'
<1>1. req[r].id \in Stored
  BY DEF Me, IInv, HasGrounds
<1> QED
  BY <1>1, AnswerKeepsIInv DEF Me, IInv, TypeOK, Stored

LEMMA ReadFaultKeepsIInv ==
    ASSUME IInv, NEW r \in Reqs, ReadFault(r)
    PROVE  IInv'
<1>1. faults' \in 0..MaxFaults /\ faults' # 0
  BY FaultFacts DEF ReadFault, IInv
<1>2. req[r].id \in Ids \cup {None} /\ (req[r].op = "me" => req[r].id \in Stored)
  BY DEF ReadFault, IInv, TypeOK, Request, HasGrounds
<1> QED
  BY <1>1, <1>2, AnswerKeepsIInv DEF ReadFault

(***************************************************************************)
(* The crash ends every request that was sent; no answer is taken back and *)
(* no row is lost.                                                         *)
(***************************************************************************)
LEMMA CrashKeepsIInv == ASSUME IInv, Crash PROVE IInv'
<1> USE DEF IInv
<1>1. faults' \in 0..MaxFaults /\ faults' # 0 /\ UNCHANGED <<users, audit>>
  BY FaultFacts DEF Crash
<1>2. Stored' = Stored
  BY <1>1 DEF Stored
<1>3. \A q \in Reqs :
        /\ req'[q] \in Request
        /\ req'[q].reply = req[q].reply /\ req'[q].id = req[q].id
        /\ req'[q].op = req[q].op /\ req'[q].email = req[q].email
        /\ req'[q].password = req[q].password
        /\ req'[q].pc = IF req[q].pc = "new" THEN "new" ELSE "done"
  BY DEF Crash, TypeOK, Request
<1>4. TypeOK'
  BY <1>1, <1>3 DEF TypeOK, Crash
<1>5. RowsHaveAuthors'
  <2> SUFFICES ASSUME NEW i \in Stored PROVE Authored(users[i])'
    BY <1>2 DEF RowsHaveAuthors
  <2>1. Authored(users[i]) /\ users[i].by \in Reqs
    BY AuthorsArePast DEF RowsHaveAuthors
  <2> QED
    BY <1>1, <1>3, <2>1 DEF Authored
<1>6. \A q \in Reqs : HasGrounds(q)'
  BY <1>1, <1>2, <1>3 DEF HasGrounds, Taken
<1>7. OneAccountPerAddress' /\ EventsFollow'
  BY <1>1, <1>2 DEF OneAccountPerAddress, EventsFollow
<1> QED
  BY <1>4, <1>5, <1>6, <1>7

(***************************************************************************)
(* Every step preserves the inductive invariant.                           *)
(***************************************************************************)
LEMMA NextKeepsIInv == ASSUME IInv, [Next]_vars PROVE IInv'
<1>1. CASE UNCHANGED vars
  BY <1>1 DEF vars, IInv, TypeOK, OneAccountPerAddress, RowsHaveAuthors, Authored,
     HasGrounds, EventsFollow, Stored, Taken
<1>2. ASSUME NEW r \in Reqs, Serve(r) PROVE IInv'
  BY <1>2, SignupTakenKeepsIInv, SignupFreeKeepsIInv, InsertKeepsIInv,
     InsertConflictKeepsIInv, LogEventKeepsIInv, AnswerSignupKeepsIInv, LoginKeepsIInv,
     LoginRefusedKeepsIInv, MeKeepsIInv DEF Serve
<1>3. ASSUME NEW r \in Reqs, NEW id \in Ids \cup {None}, Send(r, id) PROVE IInv'
  BY <1>3, SendKeepsIInv
<1>4. ASSUME NEW r \in Reqs, NEW id \in Ids, InsertFault(r, id) PROVE IInv'
  BY <1>4, InsertFaultKeepsIInv
<1> QED
  BY <1>1, <1>2, <1>3, <1>4, ReadFaultKeepsIInv, CrashKeepsIInv DEF Next

LEMMA AlwaysIInv == Spec => []IInv
<1>1. Init => IInv
  BY InitIInv
<1>2. IInv /\ [Next]_vars => IInv'
  BY NextKeepsIInv
<1> QED
  BY <1>1, <1>2, PTL DEF Spec

(***************************************************************************)
(* Every variable keeps its type.                                          *)
(***************************************************************************)
THEOREM TypeCorrect == Spec => []TypeOK
<1>1. IInv => TypeOK
  BY DEF IInv
<1> QED
  BY <1>1, AlwaysIInv, PTL

(***************************************************************************)
(* However many sign-ups race for an address, it has at most one account.  *)
(***************************************************************************)
THEOREM OneAccount == Spec => []OneAccountPerAddress
<1>1. IInv => OneAccountPerAddress
  BY DEF IInv
<1> QED
  BY <1>1, AlwaysIInv, PTL

(***************************************************************************)
(* A session is for the account whose address and password were given.     *)
(***************************************************************************)
THEOREM SessionOwners == Spec => []SessionsAreTheirOwners
<1>1. IInv => SessionsAreTheirOwners
  <2> SUFFICES ASSUME IInv, NEW r \in Reqs
               PROVE  /\ req[r].reply \in {"200", "201"} /\ req[r].op # "me" =>
                            /\ req[r].id \in Stored
                            /\ users[req[r].id].email = req[r].email
                            /\ users[req[r].id].password = req[r].password
                      /\ req[r].op = "me" => req[r].reply # "401"
    BY DEF SessionsAreTheirOwners
  <2>1. HasGrounds(r) /\ req[r].op \in {"signup", "login", "me"}
    BY DEF IInv, TypeOK, Request
  <2>2. req[r].reply = "201" => /\ req[r].id \in Stored
                                /\ users[req[r].id].email = req[r].email
                                /\ users[req[r].id].password = req[r].password
    BY <2>1, AuthorsArePast DEF HasGrounds
  <2> QED
    BY <2>1, <2>2 DEF HasGrounds
<1> QED
  BY <1>1, AlwaysIInv, PTL

(***************************************************************************)
(* The audit log tells of stored sign-ups only, and without a fault of all *)
(* of them that are over.                                                  *)
(***************************************************************************)
THEOREM SignupEvents == Spec => []SignupsAreLogged
<1>1. IInv => SignupsAreLogged
  BY DEF IInv, EventsFollow, SignupsAreLogged
<1> QED
  BY <1>1, AlwaysIInv, PTL

(***************************************************************************)
(* Who was told that an address has an account is let in with the same     *)
(* address and password, unless another password was signed up with.       *)
(***************************************************************************)
THEOREM Retries == Spec => RetriesGetIn
<1> DEFINE Turned(r, q) ==
         /\ req[r].reply = "none" /\ req'[r].reply = "401" /\ req[r].op = "login"
         /\ req[q].op = "signup" /\ req[q].reply \in {"201", "409"}
         /\ req[q].email = req[r].email /\ req[q].password = req[r].password
    Other(r) == \E s \in Reqs : /\ req[s].op = "signup" /\ req[s].email = req[r].email
                                /\ req[s].password # req[r].password
<1>1. ASSUME IInv, [Next]_vars, NEW r \in Reqs, NEW q \in Reqs, Turned(r, q)
      PROVE  Other(r)
  <2> USE <1>1 DEF IInv
  <2>1. LoginRefused(r)
    <3>1. req'[r] # req[r]
      OBVIOUS
    <3>2. ASSUME NEW x \in Reqs, NEW p, NEW code, NEW id, Becomes(x, p, code, id), code # "401"
          PROVE  FALSE
      <4>1. x = r => req'[r].reply = code
        BY <3>2, RequestChanges
      <4>2. x # r => req'[r] = req[r]
        BY <3>2, RequestChanges
      <4> QED
        BY <3>1, <3>2, <4>1, <4>2
    <3>3. ASSUME NEW x \in Reqs, NEW code, NEW id, Answer(x, code, id)
          PROVE  code = "401" /\ x = r
      <4>1. Becomes(x, "done", code, id)
        BY <3>3 DEF Answer, Becomes
      <4>2. x # r => req'[r] = req[r]
        BY <4>1, RequestChanges
      <4> QED
        BY <3>1, <3>2, <4>1, <4>2
    <3>4. ASSUME NEW x \in Reqs, NEW p, NEW id, req' = [req EXCEPT ![x].pc = p, ![x].id = id]
          PROVE  FALSE
      <4>1. req[r] \in Request /\ req \in [Reqs -> Request]
        BY DEF TypeOK
      <4> QED
        BY <3>1, <3>4, <4>1 DEF Request
    <3>5. ASSUME NEW x \in Reqs, NEW p, req' = [req EXCEPT ![x].pc = p]
          PROVE  FALSE
      <4>1. req[r] \in Request /\ req \in [Reqs -> Request]
        BY DEF TypeOK
      <4> QED
        BY <3>1, <3>5, <4>1 DEF Request
    <3>6. ~Crash
      <4>1. Crash => req'[r].reply = req[r].reply
        BY DEF Crash, TypeOK, Request
      <4> QED
        BY <4>1
    <3>7. ASSUME NEW x \in Reqs, Serve(x) PROVE LoginRefused(r)
      <4>1. ~SignupTaken(x)
        BY <3>3 DEF SignupTaken
      <4>2. ~SignupFree(x) /\ ~LogEvent(x)
        BY <3>5 DEF SignupFree, LogEvent
      <4>3. ~\E id \in Ids : Insert(x, id)
        BY <3>4 DEF Insert
      <4>4. ~InsertConflict(x) /\ ~AnswerSignup(x) /\ ~Login(x)
        BY <3>3 DEF InsertConflict, AnswerSignup, Login
      <4>5. ~Me(x)
        BY <3>3 DEF Me
      <4>6. LoginRefused(x) => x = r
        BY <3>3 DEF LoginRefused
      <4> QED
        BY <3>7, <4>1, <4>2, <4>3, <4>4, <4>5, <4>6 DEF Serve
    <3>8. ASSUME NEW x \in Reqs, ReadFault(x) \/ \E id \in Ids : InsertFault(x, id)
          PROVE  FALSE
      BY <3>3, <3>8 DEF ReadFault, InsertFault
    <3>9. ASSUME NEW x \in Reqs, NEW id \in Ids \cup {None}, Send(x, id)
          PROVE  FALSE
      BY <3>4, <3>9 DEF Send
    <3>10. ~UNCHANGED vars
      BY <3>1 DEF vars
    <3> QED
      BY <3>6, <3>7, <3>8, <3>9, <3>10 DEF Next
  <2>2. PICK i \in Stored : users[i].email = req[r].email
    <3>1. HasGrounds(q)
      OBVIOUS
    <3>2. CASE req[q].reply = "409"
      BY <3>1, <3>2 DEF HasGrounds, Taken
    <3>3. CASE req[q].reply = "201"
      BY <3>1, <3>3, AuthorsArePast DEF HasGrounds
    <3> QED
      BY <3>2, <3>3
  <2>3. users[i].password # req[r].password
    BY <2>1, <2>2 DEF LoginRefused, Opened
  <2> QED
    BY <2>2, <2>3, AuthorsArePast
<1>2. IInv /\ [Next]_vars => [\A r, q \in Reqs : Turned(r, q) => Other(r)]_vars
  BY <1>1
<1>3. Spec => [][\A r, q \in Reqs : Turned(r, q) => Other(r)]_vars
  BY <1>2, AlwaysIInv, PTL DEF Spec
<1> QED
  BY <1>3 DEF RetriesGetIn

--------------------------------------------------------------------------------
(***************************************************************************)
(* The handlers implement AccountBook: its book is what the rows say of    *)
(* each address, its outcomes what the requests were told.                 *)
(***************************************************************************)

Rows(table, e) == {i \in Ids : table[i] # None /\ table[i].email = e}

\* An address without a row has no account, and one with a row has its account.
LEMMA AccountFacts ==
    ASSUME NEW table, NEW e
    PROVE  /\ Rows(table, e) = {} => AccountOf(table, e) = None
           /\ \A i \in Ids : Rows(table, e) = {i} =>
                 AccountOf(table, e) = [password |-> table[i].password,
                                        role |-> table[i].role, by |-> table[i].by]
<1>1. Rows(table, e) = {} => AccountOf(table, e) = None
  BY DEF AccountOf, Rows
<1>2. ASSUME NEW i \in Ids, Rows(table, e) = {i}
      PROVE  AccountOf(table, e) = [password |-> table[i].password,
                                    role |-> table[i].role, by |-> table[i].by]
  <2>1. (CHOOSE j \in Rows(table, e) : TRUE) = i
    BY <1>2
  <2>2. AccountOf(table, e) =
          LET row == table[CHOOSE j \in Rows(table, e) : TRUE]
          IN  [password |-> row.password, role |-> row.role, by |-> row.by]
    BY <1>2 DEF AccountOf, Rows
  <2> QED
    BY <2>1, <2>2
<1> QED
  BY <1>1, <1>2

\* An account depends on the rows of its address only.
LEMMA AccountFollowsRows ==
    ASSUME NEW table, NEW other, NEW e,
           Rows(table, e) = Rows(other, e),
           \A i \in Rows(table, e) : table[i] = other[i]
    PROVE  AccountOf(table, e) = AccountOf(other, e)
<1> DEFINE k == CHOOSE i \in Rows(table, e) : TRUE
<1>1. CASE Rows(table, e) = {}
  BY <1>1, AccountFacts
<1>2. CASE Rows(table, e) # {}
  <2>1. k \in Rows(table, e) /\ k = CHOOSE i \in Rows(other, e) : TRUE
    BY <1>2
  <2>2. table[k] = other[k]
    BY <2>1
  <2>3. AccountOf(table, e) = [password |-> table[k].password, role |-> table[k].role,
                               by |-> table[k].by]
    BY <1>2 DEF AccountOf, Rows
  <2>4. AccountOf(other, e) = [password |-> other[k].password, role |-> other[k].role,
                               by |-> other[k].by]
    BY <1>2, <2>1 DEF AccountOf, Rows
  <2> QED
    BY <2>2, <2>3, <2>4
<1> QED
  BY <1>1, <1>2

\* The entry of an address with a row, and without.
LEMMA EntryFacts ==
    ASSUME IInv, NEW e \in Emails
    PROVE  /\ ~Taken(e) => Entries[e] = None
           /\ \A i \in Stored : users[i].email = e =>
                 /\ Entries[e] = [password |-> users[i].password,
                                  role |-> users[i].role, by |-> users[i].by]
                 /\ Entries[e] # None
<1>1. Entries[e] = AccountOf(users, e)
  BY DEF Entries
<1>2. ~Taken(e) => Entries[e] = None
  BY <1>1, AccountFacts DEF Taken, Stored, Rows
<1>3. ASSUME NEW i \in Stored, users[i].email = e
      PROVE  /\ Entries[e] = [password |-> users[i].password,
                              role |-> users[i].role, by |-> users[i].by]
             /\ Entries[e] # None
  <2>1. Rows(users, e) = {i} /\ i \in Ids
    BY <1>3 DEF IInv, OneAccountPerAddress, Rows, Stored
  <2>2. Entries[e] = [password |-> users[i].password, role |-> users[i].role,
                      by |-> users[i].by]
    BY <1>1, <2>1, AccountFacts
  <2>3. users[i] \in User
    BY StoredFacts DEF IInv
  <2>4. Entries[e] \in [password : Passwords, role : {"ADMIN", "VIEWER"}, by : Reqs]
    BY <2>2, <2>3 DEF User
  <2> QED
    BY <2>2, <2>4, AccountsAssumption
<1> QED
  BY <1>2, <1>3

\* The entry of a row, field by field.
LEMMA EntryOfRow ==
    ASSUME IInv, NEW i \in Stored, NEW e \in Emails, users[i].email = e
    PROVE  /\ Entries[e] # None
           /\ Entries[e].password = users[i].password
           /\ Entries[e].by = users[i].by
<1>1. /\ Entries[e] = [password |-> users[i].password, role |-> users[i].role,
                       by |-> users[i].by]
      /\ Entries[e] # None
  BY EntryFacts
<1> QED
  BY <1>1

\* The abstract variables have a function's shape.
LEMMA AbstractStep ==
    ASSUME TypeOK, NEW r \in Reqs, NEW p, NEW code, NEW id, Becomes(r, p, code, id)
    PROVE  /\ Asked' = Asked
           /\ Outcomes' = [Outcomes EXCEPT ![r] = OutcomeOf(req'[r])]
<1>1. /\ req'[r].op = req[r].op /\ req'[r].email = req[r].email
      /\ req'[r].password = req[r].password
      /\ \A q \in Reqs : q # r => req'[q] = req[q]
  BY RequestChanges
<1>2. Asked' = Asked
  BY <1>1 DEF Asked
<1>3. \A q \in Reqs : q # r => OutcomeOf(req'[q]) = OutcomeOf(req[q])
  BY <1>1
<1> QED
  BY <1>2, <1>3 DEF Outcomes

\* Rows that stay are entries that stay.
LEMMA EntriesStay ==
    ASSUME UNCHANGED users
    PROVE  Entries' = Entries
  BY DEF Entries

\* A step of a request that goes on is no step of the book.
LEMMA SilentStep ==
    ASSUME TypeOK, NEW r \in Reqs, NEW p, NEW code, NEW id, Becomes(r, p, code, id),
           req[r].pc # "done", p # "done", UNCHANGED users
    PROVE  UNCHANGED <<Asked, Entries, Outcomes>>
<1>1. /\ Asked' = Asked /\ Entries' = Entries
      /\ Outcomes' = [Outcomes EXCEPT ![r] = OutcomeOf(req'[r])]
  BY AbstractStep, EntriesStay
<1>2. req'[r].pc = p
  BY RequestChanges
<1>3. OutcomeOf(req'[r]) = "pending" /\ Outcomes[r] = "pending"
  BY <1>2 DEF OutcomeOf, Outcomes
<1> QED
  BY <1>1, <1>3 DEF Outcomes

\* An answer tells one request its outcome.
LEMMA ToldStep ==
    ASSUME TypeOK, NEW r \in Reqs, NEW code, NEW id, Answer(r, code, id),
           req[r].pc # "done", UNCHANGED users
    PROVE  /\ code = "201" => Book!Tell(r, "created")
           /\ code = "409" => Book!Tell(r, "taken")
           /\ code = "200" => Book!Tell(r, "admitted")
           /\ code = "401" => Book!Tell(r, "rejected")
           /\ code = "500" => Book!Tell(r, "failed")
<1>1. Becomes(r, "done", code, id)
  BY DEF Answer, Becomes
<1>2. /\ Asked' = Asked /\ Entries' = Entries
      /\ Outcomes' = [Outcomes EXCEPT ![r] = OutcomeOf(req'[r])]
  BY <1>1, AbstractStep, EntriesStay
<1>3. req'[r].pc = "done" /\ req'[r].reply = code
  BY <1>1, RequestChanges
<1>4. Outcomes[r] = "pending"
  BY DEF OutcomeOf, Outcomes
<1>5. /\ code = "201" => OutcomeOf(req'[r]) = "created"
      /\ code = "409" => OutcomeOf(req'[r]) = "taken"
      /\ code = "200" => OutcomeOf(req'[r]) = "admitted"
      /\ code = "401" => OutcomeOf(req'[r]) = "rejected"
      /\ code = "500" => OutcomeOf(req'[r]) = "failed"
  BY <1>3 DEF OutcomeOf
<1> QED
  BY <1>2, <1>4, <1>5 DEF Book!Tell

\* A request that fails alone.
LEMMA FailStep ==
    ASSUME NEW r \in Reqs, Book!Tell(r, "failed")
    PROVE  Book!Next
<1>1. Book!Fail({r})
  BY DEF Book!Tell, Book!Fail, Outcomes
<1> QED
  BY <1>1 DEF Book!Next

\* What AccountBook reads of a request.
LEMMA AskedFacts ==
    ASSUME NEW r \in Reqs
    PROVE  /\ Asked[r].op = req[r].op /\ Asked[r].email = req[r].email
           /\ Asked[r].password = req[r].password
  BY DEF Asked

(***************************************************************************)
(* A committed row is a claim of its address, told or not.                 *)
(***************************************************************************)
LEMMA CreateStep ==
    ASSUME IInv, NEW r \in Reqs, NEW id \in Ids, NEW p, NEW code, NEW kept,
           req[r].pc = "absent",
           users[id] = None, ~Taken(req[r].email),
           users' = [users EXCEPT ![id] = NewUser(r)],
           Becomes(r, p, code, kept),
           p = "inserted" \/ (p = "done" /\ code = "500")
    PROVE  Book!Next
<1> USE DEF IInv
<1> DEFINE e == req[r].email
<1>1. /\ Stored' = Stored \cup {id} /\ id \notin Stored
      /\ \A i \in Stored : users'[i] = users[i]
      /\ users'[id] = NewUser(r)
      /\ users' \in [Ids -> User \cup {None}]
  BY RowIsAdded
<1>2. /\ users'[id].email = e /\ users'[id].password = req[r].password
      /\ users'[id].role = RoleOf(e) /\ users'[id].by = r /\ users'[id] # None
  BY <1>1, NewUserIsUser
<1>3. e \in Emails /\ req[r].op = "signup"
  BY DEF TypeOK, Request, HasGrounds
<1>4. Entries[e] = None
  BY <1>3, EntryFacts
<1>5. Entries' = [Entries EXCEPT ![e] =
                    [password |-> req[r].password, role |-> RoleOf(e), by |-> r]]
  <2>1. Rows(users', e) = {id}
    BY <1>1, <1>2 DEF Rows, Taken, Stored
  <2>2. AccountOf(users', e) = [password |-> req[r].password, role |-> RoleOf(e), by |-> r]
    BY <1>2, <2>1, AccountFacts
  <2>3. ASSUME NEW f \in Emails, f # e PROVE AccountOf(users, f) = AccountOf(users', f)
    <3>1. Rows(users, f) = Rows(users', f)
      BY <1>1, <1>2, <2>3 DEF Rows, Stored
    <3>2. \A i \in Rows(users, f) : users[i] = users'[i]
      BY <1>1 DEF Rows, Stored
    <3> HIDE DEF IInv, e
    <3>3. ASSUME NEW other, Rows(users, f) = Rows(other, f),
                 \A i \in Rows(users, f) : users[i] = other[i]
          PROVE AccountOf(users, f) = AccountOf(other, f)
      BY <3>3, AccountFollowsRows
    <3> QED
      BY <3>1, <3>2, <3>3
  <2> QED
    BY <1>3, <2>2, <2>3 DEF Entries
<1>6. /\ Asked' = Asked
      /\ Outcomes' = [Outcomes EXCEPT ![r] = OutcomeOf(req'[r])]
  BY AbstractStep
<1>7. Outcomes[r] = "pending"
  BY DEF OutcomeOf, Outcomes
<1>8. Outcomes' \in {Outcomes, [Outcomes EXCEPT ![r] = "failed"]}
  <2>1. req'[r].pc = p /\ req'[r].reply = code
    BY RequestChanges
  <2>2. CASE p = "inserted"
    <3>1. OutcomeOf(req'[r]) = "pending"
      BY <2>1, <2>2 DEF OutcomeOf
    <3> QED
      BY <1>6, <1>7, <3>1 DEF Outcomes
  <2>3. CASE p = "done" /\ code = "500"
    <3>1. OutcomeOf(req'[r]) = "failed"
      BY <2>1, <2>3 DEF OutcomeOf
    <3> QED
      BY <1>6, <3>1
  <2> QED
    BY <2>2, <2>3
<1>9. RoleOf(e) = IF e \in {f \in Emails : Lower[f] = AdminEmail} THEN "ADMIN" ELSE "VIEWER"
  BY <1>3 DEF RoleOf
<1>10. Book!Create(r)
  <2>1. /\ Asked[r].op = "signup" /\ Asked[r].email = e
        /\ Asked[r].password = req[r].password
    BY <1>3, AskedFacts
  <2>2. [password |-> req[r].password, role |-> RoleOf(e), by |-> r]
          = [password |-> Asked[r].password, by |-> r,
             role |-> IF Asked[r].email \in {f \in Emails : Lower[f] = AdminEmail}
                      THEN "ADMIN" ELSE "VIEWER"]
    BY <1>9, <2>1
  <2> HIDE DEF e
  <2> QED
    BY <1>4, <1>5, <1>6, <1>7, <1>8, <2>1, <2>2 DEF Book!Create
<1> QED
  BY <1>10 DEF Book!Next

(***************************************************************************)
(* Each step of the handlers is a step of the book or none at all.         *)
(***************************************************************************)
LEMMA ServeStep ==
    ASSUME IInv, NEW r \in Reqs, Serve(r)
    PROVE  [Book!Next]_(Book!vars)
<1> USE DEF IInv
<1>0. TypeOK /\ HasGrounds(r) /\ req[r].email \in Emails
  BY DEF TypeOK, Request
<1>1. CASE SignupTaken(r)
  <2>1. Book!Tell(r, "taken")
    BY <1>0, <1>1, ToldStep DEF SignupTaken
  <2>2. PICK i \in Stored : users[i].email = req[r].email
    BY <1>1 DEF SignupTaken, Taken
  <2>3. /\ Entries[req[r].email] # None
        /\ Entries[req[r].email].by = users[i].by
    BY <1>0, <2>2, EntryOfRow
  <2>4. users[i].by # r
    BY <1>1, <2>2, AuthorsArePast DEF SignupTaken
  <2>5. Book!Refuse(r)
    BY <1>1, <2>1, <2>3, <2>4, AskedFacts DEF SignupTaken, Book!Refuse
  <2> QED
    BY <2>5 DEF Book!Next
<1>2. CASE SignupFree(r)
  <2>1. Becomes(r, "absent", req[r].reply, req[r].id)
    <3>1. req[r] \in Request
      BY DEF TypeOK
    <3>2. [req[r] EXCEPT !.pc = "absent"]
            = [req[r] EXCEPT !.pc = "absent", !.reply = req[r].reply, !.id = req[r].id]
      BY <3>1 DEF Request
    <3> QED
      BY <1>2, <3>2 DEF SignupFree, TypeOK, Becomes
  <2> QED
    BY <1>2, <2>1, SilentStep DEF SignupFree, Book!vars
<1>3. ASSUME NEW id \in Ids, Insert(r, id) PROVE Book!Next
  <2>1. Becomes(r, "inserted", req[r].reply, id)
    <3>1. req[r] \in Request
      BY DEF TypeOK
    <3>2. [req[r] EXCEPT !.pc = "inserted", !.id = id]
            = [req[r] EXCEPT !.pc = "inserted", !.reply = req[r].reply, !.id = id]
      BY <3>1 DEF Request
    <3> QED
      BY <1>3, <3>2 DEF Insert, TypeOK, Becomes
  <2>2. /\ req[r].pc = "absent" /\ users[id] = None /\ ~Taken(req[r].email)
        /\ users' = [users EXCEPT ![id] = NewUser(r)]
    BY <1>3 DEF Insert
  <2> HIDE DEF IInv
  <2> QED
    BY <1>3, <2>1, <2>2, CreateStep
<1>4. CASE InsertConflict(r)
  BY <1>0, <1>4, ToldStep, FailStep DEF InsertConflict
<1>5. CASE LogEvent(r)
  <2>1. Becomes(r, "logged", req[r].reply, req[r].id)
    <3>1. req[r] \in Request
      BY DEF TypeOK
    <3>2. [req[r] EXCEPT !.pc = "logged"]
            = [req[r] EXCEPT !.pc = "logged", !.reply = req[r].reply, !.id = req[r].id]
      BY <3>1 DEF Request
    <3> QED
      BY <1>5, <3>2 DEF LogEvent, TypeOK, Becomes
  <2> QED
    BY <1>5, <2>1, SilentStep DEF LogEvent, Book!vars
<1>6. CASE AnswerSignup(r)
  <2>1. Book!Tell(r, "created")
    BY <1>0, <1>6, ToldStep DEF AnswerSignup
  <2>2. /\ req[r].op = "signup" /\ req[r].id \in Stored /\ users[req[r].id].by = r
        /\ users[req[r].id].email = req[r].email
    BY <1>0, <1>6, AuthorsArePast DEF AnswerSignup, HasGrounds
  <2>3. Entries[req[r].email] # None /\ Entries[req[r].email].by = r
    BY <1>0, <2>2, EntryOfRow
  <2>4. Book!Confirm(r)
    BY <2>1, <2>2, <2>3, AskedFacts DEF Book!Confirm
  <2> QED
    BY <2>4 DEF Book!Next
<1>7. CASE Login(r)
  <2>1. PICK i \in Opened(r) : Answer(r, "200", i)
    BY <1>7 DEF Login
  <2>2. Book!Tell(r, "admitted")
    BY <1>0, <1>7, <2>1, ToldStep DEF Login
  <2>3. /\ Entries[req[r].email] # None
        /\ Entries[req[r].email].password = req[r].password
    BY <1>0, EntryOfRow DEF Opened
  <2>4. Book!Admit(r)
    BY <1>7, <2>2, <2>3, AskedFacts DEF Login, Book!Admit, Book!Opens
  <2> QED
    BY <2>4 DEF Book!Next
<1>8. CASE LoginRefused(r)
  <2>1. Book!Tell(r, "rejected")
    BY <1>0, <1>8, ToldStep DEF LoginRefused
  <2>2. ~(/\ Entries[req[r].email] # None
          /\ Entries[req[r].email].password = req[r].password)
    <3>1. CASE Taken(req[r].email)
      <4>1. PICK i \in Stored : users[i].email = req[r].email
        BY <3>1 DEF Taken
      <4>2. users[i].password # req[r].password
        BY <1>8, <4>1 DEF LoginRefused, Opened
      <4> QED
        BY <1>0, <4>1, <4>2, EntryOfRow
    <3>2. CASE ~Taken(req[r].email)
      BY <1>0, <3>2, EntryFacts
    <3> QED
      BY <3>1, <3>2
  <2>3. Book!Reject(r)
    BY <1>8, <2>1, <2>2, AskedFacts DEF LoginRefused, Book!Reject, Book!Opens
  <2> QED
    BY <2>3 DEF Book!Next
<1>9. CASE Me(r)
  <2>1. Answer(r, "200", req[r].id)
    BY <1>0, <1>9 DEF Me, HasGrounds
  <2>2. Book!Tell(r, "admitted")
    BY <1>0, <1>9, <2>1, ToldStep DEF Me
  <2>3. Book!Recognise(r)
    BY <1>9, <2>2, AskedFacts DEF Me, Book!Recognise
  <2> QED
    BY <2>3 DEF Book!Next
<1> QED
  BY <1>1, <1>2, <1>3, <1>4, <1>5, <1>6, <1>7, <1>8, <1>9 DEF Serve

LEMMA BookStep ==
    ASSUME IInv, [Next]_vars
    PROVE  [Book!Next]_(Book!vars)
<1> USE DEF IInv
<1>1. ASSUME NEW r \in Reqs, ReadFault(r) PROVE Book!Next
  BY <1>1, ToldStep, FailStep DEF ReadFault
<1>2. ASSUME NEW r \in Reqs, NEW id \in Ids \cup {None}, Send(r, id)
      PROVE  UNCHANGED Book!vars
  <2>1. Becomes(r, "sent", req[r].reply, id)
    <3>1. req[r] \in Request
      BY DEF TypeOK
    <3>2. [req[r] EXCEPT !.pc = "sent", !.id = id]
            = [req[r] EXCEPT !.pc = "sent", !.reply = req[r].reply, !.id = id]
      BY <3>1 DEF Request
    <3> QED
      BY <1>2, <3>2 DEF Send, TypeOK, Becomes
  <2> QED
    BY <1>2, <2>1, SilentStep DEF Send, Book!vars
<1>3. ASSUME NEW r \in Reqs, NEW id \in Ids, InsertFault(r, id) PROVE Book!Next
  <2>1. CASE UNCHANGED users
    BY <1>3, <2>1, ToldStep, FailStep DEF InsertFault
  <2>2. CASE /\ users[id] = None /\ ~Taken(req[r].email)
             /\ users' = [users EXCEPT ![id] = NewUser(r)]
    <3>1. Becomes(r, "done", "500", None)
      BY <1>3 DEF InsertFault, Answer, Becomes
    <3> QED
      BY <1>3, <2>2, <3>1, CreateStep DEF InsertFault
  <2> QED
    BY <1>3, <2>1, <2>2 DEF InsertFault
<1>4. CASE Crash
  <2> DEFINE some == {r \in Reqs : req[r].pc \notin {"new", "done"}}
  <2>1. \A q \in Reqs :
          /\ req'[q].reply = req[q].reply
          /\ req'[q].op = req[q].op /\ req'[q].email = req[q].email
          /\ req'[q].password = req[q].password
          /\ req'[q].pc = IF req[q].pc = "new" THEN "new" ELSE "done"
    BY <1>4 DEF Crash, TypeOK, Request
  <2>2. Asked' = Asked /\ Entries' = Entries
    BY <1>4, <2>1, EntriesStay DEF Asked, Crash
  <2>3. \A r \in some : Outcomes[r] = "pending" /\ OutcomeOf(req'[r]) = "failed"
    BY <2>1 DEF Outcomes, OutcomeOf, HasGrounds
  <2>4. \A r \in Reqs \ some : OutcomeOf(req'[r]) = OutcomeOf(req[r])
    BY <2>1 DEF OutcomeOf
  <2>5. Outcomes' = [r \in Reqs |-> IF r \in some THEN "failed" ELSE Outcomes[r]]
    BY <2>3, <2>4 DEF Outcomes
  <2>6. Book!Fail(some)
    <3> HIDE DEF some
    <3> QED
      BY <2>2, <2>3, <2>5 DEF Book!Fail
  <2>7. some \in SUBSET Reqs
    OBVIOUS
  <2> HIDE DEF some
  <2> QED
    BY <2>6, <2>7 DEF Book!Next
<1>5. CASE UNCHANGED vars
  BY <1>5 DEF vars, Book!vars, Asked, Entries, Outcomes
<1> QED
  BY <1>1, <1>2, <1>3, <1>4, <1>5, ServeStep DEF Next

(***************************************************************************)
(* Sign-ups take effect one at a time, however their statements interleave *)
(* and whatever fails.                                                     *)
(***************************************************************************)
THEOREM ImplementsBook == Spec => SignupsAreAtomic
<1>1. Init => Book!Init
  <2> SUFFICES ASSUME Init PROVE Book!Init
    OBVIOUS
  <2>1. IInv /\ \A r \in Reqs : req[r].pc = "new"
    BY InitIInv DEF Init
  <2>2. Asked \in [Reqs -> Book!Ask]
    BY <2>1 DEF Asked, Book!Ask, IInv, TypeOK, Request
  <2>3. \A e \in Emails : Entries[e] = None
    <3>1. \A e \in Emails : ~Taken(e)
      BY DEF Init, Taken, Stored
    <3> QED
      BY <2>1, <3>1, EntryFacts
  <2>4. Outcomes = [r \in Reqs |-> "pending"]
    BY <2>1 DEF Outcomes, OutcomeOf
  <2> QED
    BY <2>2, <2>3, <2>4 DEF Book!Init, Entries
<1>2. IInv /\ [Next]_vars => [Book!Next]_(Book!vars)
  BY BookStep
<1> QED
  BY <1>1, <1>2, AlwaysIInv, PTL DEF Spec, SignupsAreAtomic, Book!Spec
================================================================================
