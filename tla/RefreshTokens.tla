----------------------------- MODULE RefreshTokens -----------------------------
(***************************************************************************)
(* Refresh tokens in the backend process: auth/jwt.py (minting, decoding,  *)
(* rotation, revocation) as driven by the login, refresh and logout        *)
(* handlers of auth/routes.py.                                             *)
(*                                                                         *)
(* The handlers are plain `def` functions, so each request runs on a       *)
(* thread of the server's pool and may be preempted between any two        *)
(* bytecodes.  A worker below is such a thread; the steps of a rotation    *)
(* that touch shared state -- the expiry test, the membership test, the    *)
(* `add` and the minting -- are separate actions.  The registry of used    *)
(* identifiers is an in-memory set, so a restart of the process empties    *)
(* it; the tokens are signed documents in the clients' hands and survive.  *)
(*                                                                         *)
(* A signature is not modelled: a token here is one this backend signed,   *)
(* and any token ever issued may be presented again (a second tab, a retry *)
(* after a lost answer, a copy), expired or not.                           *)
(***************************************************************************)
EXTENDS Naturals

CONSTANTS
    Workers,       \* threads that serve auth requests
    Users,         \* accounts, as the sub claim names them
    Jtis,          \* identifiers uuid4 may produce; bounds the tokens issued
    NoJti,         \* "no token": a worker at rest, a token that replaced none
    Unissued,      \* the identifier is not in use yet
    RefreshLife,   \* REFRESH_TOKEN_EXPIRE_DAYS, in ticks of the clock
    MaxTime,       \* bound on the clock
    MaxRestarts    \* bound on the restarts of the process

ASSUME ConstantsAssumption ==
    /\ NoJti \notin Jtis
    /\ RefreshLife \in Nat
    /\ MaxTime \in Nat
    /\ MaxRestarts \in Nat
    /\ Unissued \notin Jtis \cup {NoJti}
    /\ Unissued \notin [sub : Users, exp : Nat, replaced : Jtis \cup {NoJti},
                        by : Workers, epoch : Nat]

VARIABLES
    now,      \* the clock
    epoch,    \* number of restarts so far
    token,    \* every identifier's token, or Unissued
    used,     \* _USED_REFRESH_TOKEN_JTIS
    pc,       \* where each worker is in the request it serves
    old,      \* the token each worker was handed, NoJti at rest
    closed    \* history: tokens a logout of this epoch has answered for

vars == <<now, epoch, token, used, pc, old, closed>>

(***************************************************************************)
(* sub and exp are claims of the JWT.  replaced, by and epoch are history: *)
(* the token it replaced, the worker that minted it and the epoch in which *)
(* it did.                                                                 *)
(***************************************************************************)
Token == [sub : Users, exp : Nat, replaced : Jtis \cup {NoJti},
          by : Workers, epoch : Nat]

Issued == {j \in Jtis : token[j] # Unissued}

\* decode_token refuses a token whose exp has passed.
Expired(j) == now >= token[j].exp

Stage == {"idle", "decoded", "checked", "marked"}

TypeOK ==
    /\ now \in 0..MaxTime
    /\ epoch \in 0..MaxRestarts
    /\ token \in [Jtis -> Token \cup {Unissued}]
    /\ used \subseteq Jtis
    /\ pc \in [Workers -> Stage]
    /\ old \in [Workers -> Jtis \cup {NoJti}]
    /\ closed \subseteq Jtis

Init ==
    /\ now = 0
    /\ epoch = 0
    /\ token = [j \in Jtis |-> Unissued]
    /\ used = {}
    /\ pc = [w \in Workers |-> "idle"]
    /\ old = [w \in Workers |-> NoJti]
    /\ closed = {}

--------------------------------------------------------------------------------
\* Mutant: a replacement is given the lifetime of an access token.
MintShortLived(j, u, w, parent) ==
    /\ token[j] = Unissued
    /\ token' = [token EXCEPT ![j] =
                   [sub |-> u, exp |-> IF parent = NoJti THEN now + RefreshLife ELSE now,
                    replaced |-> parent, by |-> w, epoch |-> epoch]]

\* create_refresh_token: a fresh identifier, valid from now on for RefreshLife.
Mint(j, u, w, parent) ==
    /\ token[j] = Unissued
    /\ token' = [token EXCEPT ![j] =
                   [sub |-> u, exp |-> now + RefreshLife, replaced |-> parent,
                    by |-> w, epoch |-> epoch]]

AtRest(w) == pc[w] = "idle"

\* The answer is out: the worker takes another request.
Rest(w) ==
    /\ pc' = [pc EXCEPT ![w] = "idle"]
    /\ old' = [old EXCEPT ![w] = NoJti]

(***************************************************************************)
(* POST /auth/login (and the tail of /auth/signup): the credentials were   *)
(* right, a token that replaces none is handed out.                        *)
(***************************************************************************)
Login(w, u, j) ==
    /\ AtRest(w)
    /\ Mint(j, u, w, NoJti)
    /\ UNCHANGED <<now, epoch, used, pc, old, closed>>

\* POST /auth/refresh: the handler's own decode_token lets the token through.
RefreshDecode(w, j) ==
    /\ AtRest(w)
    /\ j \in Issued
    /\ ~Expired(j)
    /\ pc' = [pc EXCEPT ![w] = "decoded"]
    /\ old' = [old EXCEPT ![w] = j]
    /\ UNCHANGED <<now, epoch, token, used, closed>>

\* Mutant: the identifier is not looked up before it is marked.
RotateCheckNoLookup(w) ==
    /\ pc[w] = "decoded"
    /\ ~Expired(old[w])
    /\ pc' = [pc EXCEPT ![w] = "checked"]
    /\ UNCHANGED <<now, epoch, token, used, old, closed>>

(***************************************************************************)
(* rotate_refresh_token decodes a second time -- the clock has moved -- and *)
(* looks the identifier up.                                                *)
(***************************************************************************)
RotateCheck(w) ==
    /\ pc[w] = "decoded"
    /\ ~Expired(old[w])
    /\ old[w] \notin used
    /\ pc' = [pc EXCEPT ![w] = "checked"]
    /\ UNCHANGED <<now, epoch, token, used, old, closed>>

\* Mutant: a refusal marks the identifier too (the add moved before the tests).
RotateRefuseMarks(w) ==
    /\ pc[w] = "decoded"
    /\ Expired(old[w]) \/ old[w] \in used
    /\ used' = used \cup {old[w]}
    /\ Rest(w)
    /\ UNCHANGED <<now, epoch, token, closed>>

\* Either test fails: 401, and nothing has changed.
RotateRefuse(w) ==
    /\ pc[w] = "decoded"
    /\ Expired(old[w]) \/ old[w] \in used
    /\ Rest(w)
    /\ UNCHANGED <<now, epoch, token, used, closed>>

\* Mutant: the identifier is never marked.
RotateMarkForgets(w) ==
    /\ pc[w] = "checked"
    /\ pc' = [pc EXCEPT ![w] = "marked"]
    /\ UNCHANGED <<now, epoch, token, used, old, closed>>

\* _USED_REFRESH_TOKEN_JTIS.add(old_jti): a set, so a second add is silent.
RotateMark(w) ==
    /\ pc[w] = "checked"
    /\ used' = used \cup {old[w]}
    /\ pc' = [pc EXCEPT ![w] = "marked"]
    /\ UNCHANGED <<now, epoch, token, old, closed>>

\* The replacement carries the claims of the token it replaces; 200.
RotateIssue(w, j) ==
    /\ pc[w] = "marked"
    /\ Mint(j, token[old[w]].sub, w, old[w])
    /\ Rest(w)
    /\ UNCHANGED <<now, epoch, used, closed>>

\* Mutant: logout decodes the cookie as an access token, fails and ignores it.
LogoutIgnores(w, j) ==
    /\ AtRest(w)
    /\ j \in Issued
    /\ ~Expired(j)
    /\ closed' = closed \cup {j}
    /\ UNCHANGED <<now, epoch, token, used, pc, old>>

\* Mutant: the identifier is read from the wrong claim; str(None) is recorded.
LogoutRecordsNone(w, j) ==
    /\ AtRest(w)
    /\ j \in Issued
    /\ ~Expired(j)
    /\ used' = used \cup {NoJti}
    /\ closed' = closed \cup {j}
    /\ UNCHANGED <<now, epoch, token, pc, old>>

(***************************************************************************)
(* POST /auth/logout with a refresh cookie: revoke_refresh_token adds the  *)
(* identifier of a token that still decodes and ignores any other; 204     *)
(* either way.                                                             *)
(***************************************************************************)
Logout(w, j) ==
    /\ AtRest(w)
    /\ j \in Issued
    /\ ~Expired(j)
    /\ used' = used \cup {j}
    /\ closed' = closed \cup {j}
    /\ UNCHANGED <<now, epoch, token, pc, old>>

Tick ==
    /\ now < MaxTime
    /\ now' = now + 1
    /\ UNCHANGED <<epoch, token, used, pc, old, closed>>

(***************************************************************************)
(* The process dies and comes back (`restart: unless-stopped`): the        *)
(* registry and the requests in flight are lost.                           *)
(***************************************************************************)
Restart ==
    /\ epoch < MaxRestarts
    /\ epoch' = epoch + 1
    /\ used' = {}
    /\ closed' = {}
    /\ pc' = [w \in Workers |-> "idle"]
    /\ old' = [w \in Workers |-> NoJti]
    /\ UNCHANGED <<now, token>>

RotateStep(w) ==
    \/ RotateCheck(w)
    \/ RotateRefuse(w)
    \/ RotateMark(w)
    \/ \E j \in Jtis : RotateIssue(w, j)

Next ==
    \/ \E w \in Workers, u \in Users, j \in Jtis : Login(w, u, j)
    \/ \E w \in Workers, j \in Jtis : RefreshDecode(w, j) \/ Logout(w, j)
    \/ \E w \in Workers : RotateStep(w)
    \/ Tick
    \/ Restart

Spec == Init /\ [][Next]_vars
--------------------------------------------------------------------------------
\* The tokens minted in this epoch as a replacement of j.
Successors(j) ==
    {i \in Issued : token[i].replaced = j /\ token[i].epoch = epoch}

\* The workers that have let j through and have not answered yet.
Rotating(j) ==
    {w \in Workers : pc[w] \in {"checked", "marked"} /\ old[w] = j}

(***************************************************************************)
(* However many threads race on one token, each of them gets at most one   *)
(* replacement for it while the process lives: a thread that has rotated a *)
(* token is refused when it is handed the token again.                     *)
(***************************************************************************)
OneSuccessorPerWorker ==
    \A j \in Jtis : \A i, k \in Successors(j) :
        token[i].by = token[k].by => i = k

(***************************************************************************)
(* A token is never burnt for nothing.  rotate_refresh_token marks the old *)
(* identifier before it mints the new token, and the mark is all a later   *)
(* request looks at; so a marked identifier must have been logged out,     *)
(* have its replacement, or be in the hands of a worker about to mint one. *)
(***************************************************************************)
UsedIsAccountedFor ==
    \A j \in used :
        \/ j \in closed
        \/ Successors(j) # {}
        \/ \E w \in Workers : pc[w] = "marked" /\ old[w] = j

(***************************************************************************)
(* Rotation extends a session, it never cuts it short: a replacement       *)
(* outlives the token it replaced, whatever time passed between the two    *)
(* decodes and the minting.                                                *)
(***************************************************************************)
RotationExtends ==
    \A i \in Issued :
        token[i].replaced # NoJti =>
            /\ token[i].replaced \in Issued
            /\ token[token[i].replaced].exp <= token[i].exp

(***************************************************************************)
(* Once a logout has answered for a token, no further rotation of it gets  *)
(* past the check in this process: the rotations of it still running are   *)
(* those that were running when the logout answered.                       *)
(***************************************************************************)
LogoutIsFinal ==
    [][\A j \in closed \cap closed' : Rotating(j)' \subseteq Rotating(j)]_vars

(***************************************************************************)
(* What auth/jwt.py says of the registry ("an issued refresh token can be  *)
(* used once", and of rotate_refresh_token "cannot be refreshed twice      *)
(* during the lifetime of this backend process").                          *)
(***************************************************************************)
RefreshedOnce ==
    \A j \in Jtis : \A i, k \in Successors(j) : i = k

(***************************************************************************)
(* What docs/asvs-l1-checklist.md says of logout ("actually invalidates    *)
(* the session"): once it has answered for a token, the process issues no  *)
(* token that carries the session on from there.                           *)
(***************************************************************************)
LogoutEndsSession ==
    [][\A j \in closed \cap closed' : Successors(j)' = Successors(j)]_vars

--------------------------------------------------------------------------------
(***************************************************************************)
(* The promise of rotation, in this module's state: the origin of a token  *)
(* is the token it replaced, spent is the registry, and a replacement is   *)
(* owed by every worker between the mark and the minting.                  *)
(***************************************************************************)
FirstOfLogin == NoJti

Origin == [j \in Jtis |-> IF token[j] = Unissued THEN Unissued
                                                 ELSE token[j].replaced]

Owed == {old[w] : w \in {v \in Workers : pc[v] = "marked"}}

SingleUse == INSTANCE SingleUseRotation
                 WITH origin <- Origin, spent <- used, owed <- Owed

\* The mark of a token that something has used since its test.
MarksUsed(w) == RotateMark(w) /\ old[w] \in used

\* One of several replacements of a token.
MintsAlongside(w) ==
    \E j \in Jtis : RotateIssue(w, j) /\ \E v \in Workers \ {w} : pc[v] = "marked" /\ old[v] = old[w]

(***************************************************************************)
(* The handlers implement single use on a pool of threads, but for one     *)
(* race: every step of theirs is one SingleUseRotation allows, or none,    *)
(* unless a token is marked that was used after its test (auth/jwt.py:274  *)
(* and :280), or the two rotations this has let through both mint.         *)
(***************************************************************************)
SingleUseButForTheRace ==
    /\ SingleUse!Init
    /\ [][SingleUse!Next \/ \E w \in Workers : MarksUsed(w) \/ MintsAlongside(w)]_(SingleUse!vars)
================================================================================
