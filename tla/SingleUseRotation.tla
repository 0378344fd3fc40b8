--------------------------- MODULE SingleUseRotation ---------------------------
(***************************************************************************)
(* What refresh-token rotation promises (auth/jwt.py, the note above       *)
(* _USED_REFRESH_TOKEN_JTIS and the docstring of rotate_refresh_token):    *)
(* while the backend process lives, a refresh token is spent at most once, *)
(* and each spending yields at most one replacement.  A restart forgets    *)
(* what was spent, as the note says it does.                               *)
(*                                                                         *)
(* No worker appears here: how requests are scheduled onto threads is the  *)
(* business of RefreshTokens, which implements this specification unless   *)
(* two rotations of one token race between the test and the mark.          *)
(***************************************************************************)

CONSTANTS
    Jtis,          \* token identifiers
    Unissued,      \* origin of an identifier no token carries yet
    FirstOfLogin   \* origin of a token that signup or login handed out

VARIABLES
    origin,        \* for each identifier, the token it replaced (or a marker)
    spent,         \* identifiers this process refuses to rotate again
    owed           \* spent identifiers whose replacement is still to be made

vars == <<origin, spent, owed>>

Issued == {j \in Jtis : origin[j] # Unissued}

Init ==
    /\ origin = [j \in Jtis |-> Unissued]
    /\ spent = {}
    /\ owed = {}

\* Signup or login hands out a token that replaces nothing.
Grant(new) ==
    /\ origin[new] = Unissued
    /\ origin' = [origin EXCEPT ![new] = FirstOfLogin]
    /\ UNCHANGED <<spent, owed>>

\* A live token is taken for rotation.
Spend(old) ==
    /\ old \in Issued \ spent
    /\ spent' = spent \cup {old}
    /\ owed' = owed \cup {old}
    /\ UNCHANGED origin

\* The one replacement of a token taken for rotation.
Replace(old, new) ==
    /\ old \in owed
    /\ origin[new] = Unissued
    /\ origin' = [origin EXCEPT ![new] = old]
    /\ owed' = owed \ {old}
    /\ UNCHANGED spent

\* Logout: the token is refused from now on and nothing is owed for it.
Revoke(old) ==
    /\ old \in Issued
    /\ spent' = spent \cup {old}
    /\ UNCHANGED <<origin, owed>>

\* The process dies: its memory and the requests it was serving are gone.
Restart ==
    /\ spent' = {}
    /\ owed' = {}
    /\ UNCHANGED origin

Next ==
    \/ \E j \in Jtis : Grant(j) \/ Spend(j) \/ Revoke(j)
    \/ \E old, new \in Jtis : Replace(old, new)
    \/ Restart

Spec == Init /\ [][Next]_vars
================================================================================
