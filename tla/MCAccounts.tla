------------------------------- MODULE MCAccounts ------------------------------
\* Two spellings of one address, which is ADMIN_EMAIL's, for TLC.
EXTENDS Accounts

CONSTANTS p1, p2, r1, r2, r3

MCEmails == {"ann@x", "Ann@x"}

MCLower == [e \in MCEmails |-> "ann@x"]

(***************************************************************************)
(* One request signs up, the two others do anything: requests can be       *)
(* renamed, and without a sign-up there is no account.  What /auth/me      *)
(* sends besides its cookie plays no part.                                 *)
(***************************************************************************)
MCAsks ==
    LET Any == [op : {"signup", "login"}, email : MCEmails, password : {p1, p2}]
                   \cup [op : {"me"}, email : {"ann@x"}, password : {p1}]
    IN  [r \in {r1, r2, r3} |->
            IF r = r1 THEN [op : {"signup"}, email : MCEmails, password : {p1}] ELSE Any]
================================================================================
