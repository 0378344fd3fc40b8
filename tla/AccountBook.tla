------------------------------- MODULE AccountBook -----------------------------
(***************************************************************************)
(* What sign-up and login promise, whatever runs at the same time and      *)
(* whatever fails: addresses are claimed one at a time, an account goes to *)
(* the request that created it and to those who know its password, and     *)
(* none is ever given up.                                                  *)
(***************************************************************************)
CONSTANTS Reqs, Emails, Passwords, AdminSpellings, None

VARIABLES
    ask,        \* what each request asks: its op, email and password
    book,       \* the account of each address, or None
    outcome     \* what each request has been told

vars == <<ask, book, outcome>>

Ask == [op : {"signup", "login", "me"}, email : Emails, password : Passwords]

Account == [password : Passwords, role : {"ADMIN", "VIEWER"}, by : Reqs]

Outcome == {"pending", "created", "taken", "admitted", "rejected", "failed"}

Init ==
    /\ ask \in [Reqs -> Ask]
    /\ book = [e \in Emails |-> None]
    /\ outcome = [r \in Reqs |-> "pending"]

Tell(r, what) ==
    /\ outcome[r] = "pending"
    /\ outcome' = [outcome EXCEPT ![r] = what]
    /\ UNCHANGED <<ask, book>>

\* The address is claimed, with or without its request being told so.
Create(r) ==
    LET e == ask[r].email
    IN  /\ ask[r].op = "signup" /\ outcome[r] = "pending"
        /\ book[e] = None
        /\ book' = [book EXCEPT ![e] =
               [password |-> ask[r].password, by |-> r,
                role |-> IF e \in AdminSpellings THEN "ADMIN" ELSE "VIEWER"]]
        /\ outcome' \in {outcome, [outcome EXCEPT ![r] = "failed"]}
        /\ UNCHANGED ask

Confirm(r) ==
    /\ ask[r].op = "signup"
    /\ book[ask[r].email] # None /\ book[ask[r].email].by = r
    /\ Tell(r, "created")

Refuse(r) ==
    /\ ask[r].op = "signup"
    /\ book[ask[r].email] # None /\ book[ask[r].email].by # r
    /\ Tell(r, "taken")

Opens(r) ==
    /\ book[ask[r].email] # None
    /\ book[ask[r].email].password = ask[r].password

Admit(r) == ask[r].op = "login" /\ Opens(r) /\ Tell(r, "admitted")

Reject(r) == ask[r].op = "login" /\ ~Opens(r) /\ Tell(r, "rejected")

\* A session is always recognised.
Recognise(r) == ask[r].op = "me" /\ Tell(r, "admitted")

\* Some requests fail at once: one, or all there are.
Fail(some) ==
    /\ \A r \in some : outcome[r] = "pending"
    /\ outcome' = [r \in Reqs |-> IF r \in some THEN "failed" ELSE outcome[r]]
    /\ UNCHANGED <<ask, book>>

Next ==
    \/ \E r \in Reqs :
        Create(r) \/ Confirm(r) \/ Refuse(r) \/ Admit(r) \/ Reject(r) \/ Recognise(r)
    \/ \E some \in SUBSET Reqs : Fail(some)

Spec == Init /\ [][Next]_vars
================================================================================
