-------------------------------- MODULE Accounts -------------------------------
(***************************************************************************)
(* auth/routes.py: sign-up, login and GET /auth/me on the users table,     *)
(* while they run next to each other on threads of the pool.               *)
(*                                                                         *)
(* Sign-up looks its address up in one statement and inserts it in         *)
(* another; between the two any other sign-up may commit.  users.email has *)
(* a unique index, compared letter by letter.  No account is ever removed. *)
(*                                                                         *)
(* The requests here have passed the rate limiter and _verify_csrf.        *)
(***************************************************************************)
EXTENDS Naturals

CONSTANTS
    Reqs,          \* requests, each used once
    Emails,        \* addresses, as they are spelled
    Lower,         \* str.lower of each
    AdminEmail,    \* ADMIN_EMAIL, itself lower-case; None when it is not set
    Passwords,     \* stands for the Argon2id hash too: verify_password
                   \* accepts the password that was hashed and no other
    Asks,          \* what each request may ask: its op, email and password
    Ids,           \* identifiers uuid4 may produce
    None,
    MaxFaults      \* bound on database failures and crashes together

ASSUME AccountsAssumption ==
    /\ Lower \in [Emails -> Emails]
    /\ None \notin Emails \cup Ids
    /\ Asks \in [Reqs -> SUBSET [op : {"signup", "login", "me"}, email : Emails,
                                   password : Passwords]]
    /\ None \notin [email : Emails, password : Passwords, role : {"ADMIN", "VIEWER"}, by : Reqs]
    /\ None \notin [password : Passwords, role : {"ADMIN", "VIEWER"}, by : Reqs]
    /\ MaxFaults \in Nat

VARIABLES
    users,       \* table users
    audit,       \* table audit_log: the accounts with a signup_success
    req,         \* every request: its client's side and its handler's locals
    faults       \* database failures and crashes so far

vars == <<users, audit, req, faults>>

\* `by` is the request that stored the row (history).
User == [email : Emails, password : Passwords, role : {"ADMIN", "VIEWER"}, by : Reqs]

\* id is the account a session is for: of the cookie sent, or of the cookies set.
Request == [pc : {"new", "sent", "absent", "inserted", "logged", "done"},
            op : {"signup", "login", "me"}, email : Emails, password : Passwords,
            id : Ids \cup {None},
            reply : {"none", "200", "201", "401", "409", "500"}]

Stored == {i \in Ids : users[i] # None}

Taken(e) == \E i \in Stored : users[i].email = e

\* The identifiers that answers have put into cookies.
Sessions == {req[r].id : r \in {q \in Reqs : req[q].reply \in {"200", "201"}}}

\* The variables keep to their types.
TypeOK ==
    /\ users \in [Ids -> User \cup {None}]
    /\ audit \subseteq Ids
    /\ req \in [Reqs -> Request]
    /\ faults \in 0..MaxFaults

Init ==
    /\ users = [i \in Ids |-> None]
    /\ audit = {}
    /\ \E asks \in [Reqs -> UNION {Asks[r] : r \in Reqs}] :
          /\ \A r \in Reqs : asks[r] \in Asks[r]
          /\ req = [r \in Reqs |->
                      [pc |-> "new", op |-> asks[r].op, email |-> asks[r].email,
                       password |-> asks[r].password, id |-> None, reply |-> "none"]]
    /\ faults = 0

--------------------------------------------------------------------------------
Fault ==
    /\ faults < MaxFaults
    /\ faults' = faults + 1

Answer(r, code, id) ==
    req' = [req EXCEPT ![r].pc = "done", ![r].reply = code, ![r].id = id]

\* A client sends a request; for /auth/me it needs the cookie of some session.
Send(r, id) ==
    /\ req[r].pc = "new"
    /\ id \in IF req[r].op = "me" THEN Sessions ELSE {None}
    /\ req' = [req EXCEPT ![r].pc = "sent", ![r].id = id]
    /\ UNCHANGED <<users, audit, faults>>

\* Mutant: the look-up folds letters, the rest does not.
SignupTakenFolded(r) ==
    /\ req[r].pc = "sent" /\ req[r].op = "signup"
    /\ \E i \in Stored : Lower[users[i].email] = Lower[req[r].email]
    /\ Answer(r, "409", None)
    /\ UNCHANGED <<users, audit, faults>>

SignupTaken(r) ==
    /\ req[r].pc = "sent" /\ req[r].op = "signup"
    /\ Taken(req[r].email)
    /\ Answer(r, "409", None)
    /\ UNCHANGED <<users, audit, faults>>

SignupFree(r) ==
    /\ req[r].pc = "sent" /\ req[r].op = "signup"
    /\ ~Taken(req[r].email)
    /\ req' = [req EXCEPT ![r].pc = "absent"]
    /\ UNCHANGED <<users, audit, faults>>

\* Mutant: ADMIN_EMAIL is compared letter by letter.
RoleOfExact(e) == IF e = AdminEmail THEN "ADMIN" ELSE "VIEWER"

RoleOf(e) == IF Lower[e] = AdminEmail THEN "ADMIN" ELSE "VIEWER"

NewUser(r) ==
    [email |-> req[r].email, password |-> req[r].password, role |-> RoleOf(req[r].email),
     by |-> r]

\* Mutant: users.email has no unique index.
InsertUnindexed(r, id) ==
    /\ req[r].pc = "absent"
    /\ users[id] = None
    /\ users' = [users EXCEPT ![id] = NewUser(r)]
    /\ req' = [req EXCEPT ![r].pc = "inserted", ![r].id = id]
    /\ UNCHANGED <<audit, faults>>

\* The row is committed, under a fresh identifier.
Insert(r, id) ==
    /\ req[r].pc = "absent"
    /\ users[id] = None /\ ~Taken(req[r].email)
    /\ users' = [users EXCEPT ![id] = NewUser(r)]
    /\ req' = [req EXCEPT ![r].pc = "inserted", ![r].id = id]
    /\ UNCHANGED <<audit, faults>>

\* Mutant: the row that is in the way is taken for the one just added.
InsertConflictAdopt(r) ==
    /\ req[r].pc = "absent"
    /\ \E i \in Stored : users[i].email = req[r].email /\ Answer(r, "201", i)
    /\ UNCHANGED <<users, audit, faults>>

\* The unique index refuses the row: IntegrityError, which nobody catches.
InsertConflict(r) ==
    /\ req[r].pc = "absent"
    /\ Taken(req[r].email)
    /\ Answer(r, "500", None)
    /\ UNCHANGED <<users, audit, faults>>

\* The database fails at the commit: before it, or with the row stored.
InsertFault(r, id) ==
    /\ req[r].pc = "absent"
    /\ Fault
    /\ Answer(r, "500", None)
    /\ \/ UNCHANGED users
       \/ /\ users[id] = None /\ ~Taken(req[r].email)
          /\ users' = [users EXCEPT ![id] = NewUser(r)]
    /\ UNCHANGED audit

\* Mutant: the event is logged without its account.
LogEventAnonymous(r) ==
    /\ req[r].pc = "inserted"
    /\ audit' = audit \cup {None}
    /\ req' = [req EXCEPT ![r].pc = "logged"]
    /\ UNCHANGED <<users, faults>>

\* Mutant: the event is added to the session but never committed.
LogEventUncommitted(r) ==
    /\ req[r].pc = "inserted"
    /\ req' = [req EXCEPT ![r].pc = "logged"]
    /\ UNCHANGED <<users, audit, faults>>

\* session.refresh and log_event, whose failure is rolled back and forgotten.
LogEvent(r) ==
    /\ req[r].pc = "inserted"
    /\ \/ audit' = audit \cup {req[r].id} /\ UNCHANGED faults
       \/ Fault /\ UNCHANGED audit
    /\ req' = [req EXCEPT ![r].pc = "logged"]
    /\ UNCHANGED users

\* The row is read once more for the tokens (a commit expires it).
AnswerSignup(r) ==
    /\ req[r].pc = "logged"
    /\ Answer(r, "201", req[r].id)
    /\ UNCHANGED <<users, audit, faults>>

Opened(r) ==
    {i \in Stored : users[i].email = req[r].email /\ users[i].password = req[r].password}

Login(r) ==
    /\ req[r].pc = "sent" /\ req[r].op = "login"
    /\ \E i \in Opened(r) : Answer(r, "200", i)
    /\ UNCHANGED <<users, audit, faults>>

LoginRefused(r) ==
    /\ req[r].pc = "sent" /\ req[r].op = "login"
    /\ Opened(r) = {}
    /\ Answer(r, "401", None)
    /\ UNCHANGED <<users, audit, faults>>

\* get_current_user: the account of the cookie, whatever the token says else.
Me(r) ==
    /\ req[r].pc = "sent" /\ req[r].op = "me"
    /\ Answer(r, IF req[r].id \in Stored THEN "200" ELSE "401", req[r].id)
    /\ UNCHANGED <<users, audit, faults>>

\* A statement other than the insert fails: an unhandled exception.
ReadFault(r) ==
    /\ req[r].pc \in {"sent", "inserted", "logged"}
    /\ Fault
    /\ Answer(r, "500", req[r].id)
    /\ UNCHANGED <<users, audit>>

\* The process dies; nobody is answered, and what was committed stays.
Crash ==
    /\ Fault
    /\ req' = [r \in Reqs |-> IF req[r].pc = "new" THEN req[r]
                                                   ELSE [req[r] EXCEPT !.pc = "done"]]
    /\ UNCHANGED <<users, audit>>

Serve(r) ==
    \/ SignupTaken(r) \/ SignupFree(r)
    \/ \E id \in Ids : Insert(r, id)
    \/ InsertConflict(r) \/ LogEvent(r) \/ AnswerSignup(r)
    \/ Login(r) \/ LoginRefused(r) \/ Me(r)

Next ==
    \/ \E r \in Reqs : \/ Serve(r) \/ ReadFault(r)
                       \/ \E id \in Ids \cup {None} : Send(r, id)
                       \/ \E id \in Ids : InsertFault(r, id)
    \/ Crash

Spec == Init /\ [][Next]_vars

--------------------------------------------------------------------------------
(***************************************************************************)
(* However sign-ups interleave between their look-up and their insert      *)
(* (auth/routes.py:108-129), an address has at most one account.           *)
(***************************************************************************)
OneAccountPerAddress ==
    \A i, j \in Stored : users[i].email = users[j].email => i = j

(***************************************************************************)
(* A session is for an account whose address and password its request      *)
(* gave: the sign-up that loses a race, or is repeated, never gets the     *)
(* winner's.  And a session never points at nothing, whatever crashed      *)
(* since.                                                                  *)
(***************************************************************************)
SessionsAreTheirOwners ==
    \A r \in Reqs :
        /\ req[r].reply \in {"200", "201"} /\ req[r].op # "me" =>
              /\ req[r].id \in Stored
              /\ users[req[r].id].email = req[r].email
              /\ users[req[r].id].password = req[r].password
        /\ req[r].op = "me" => req[r].reply # "401"

(***************************************************************************)
(* audit_log tells of no sign-up that was not stored, and, when nothing    *)
(* fails, of every one that was answered.                                  *)
(***************************************************************************)
SignupsAreLogged ==
    /\ audit \subseteq Stored
    /\ faults = 0 => \A i \in Stored : req[users[i].by].pc = "done" => i \in audit

(***************************************************************************)
(* Whoever was told that the address has an account (201, or 409 on a      *)
(* retry after a lost answer) is not turned away at the login with the     *)
(* same address and password, unless someone else signed up with it.       *)
(***************************************************************************)
RetriesGetIn ==
    [][\A r, q \in Reqs :
         /\ req[r].reply = "none" /\ req'[r].reply = "401" /\ req[r].op = "login"
         /\ req[q].op = "signup" /\ req[q].reply \in {"201", "409"}
         /\ req[q].email = req[r].email /\ req[q].password = req[r].password
         => \E s \in Reqs : /\ req[s].op = "signup" /\ req[s].email = req[r].email
                            /\ req[s].password # req[r].password]_vars

(***************************************************************************)
(* Sign-ups take effect one at a time: the handlers implement AccountBook. *)
(***************************************************************************)
AccountOf(table, e) ==
    LET rows == {i \in Ids : table[i] # None /\ table[i].email = e}
        row  == table[CHOOSE i \in rows : TRUE]
    IN  IF rows = {} THEN None
        ELSE [password |-> row.password, role |-> row.role, by |-> row.by]

OutcomeOf(q) ==
    CASE q.pc # "done" -> "pending"
      [] q.pc = "done" /\ q.reply = "201" -> "created"
      [] q.pc = "done" /\ q.reply = "409" -> "taken"
      [] q.pc = "done" /\ q.reply = "200" -> "admitted"
      [] q.pc = "done" /\ q.reply = "401" -> "rejected"
      [] q.pc = "done" /\ q.reply \in {"none", "500"} -> "failed"

Asked == [r \in Reqs |-> [op |-> req[r].op, email |-> req[r].email,
                          password |-> req[r].password]]

Entries == [e \in Emails |-> AccountOf(users, e)]

Outcomes == [r \in Reqs |-> OutcomeOf(req[r])]

Book == INSTANCE AccountBook WITH
    AdminSpellings <- {e \in Emails : Lower[e] = AdminEmail},
    ask <- Asked, book <- Entries, outcome <- Outcomes

SignupsAreAtomic == Book!Spec
================================================================================
