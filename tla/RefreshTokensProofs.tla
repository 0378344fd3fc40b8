-------------------------- MODULE RefreshTokensProofs --------------------------
(***************************************************************************)
(* Theorems about RefreshTokens, for any number of worker threads, tokens, *)
(* restarts and ticks of the clock.                                        *)
(*                                                                         *)
(* The invariants of the module are not inductive alone.  What links them  *)
(* is the order of the code: the identifier is marked before the           *)
(* replacement is minted, so a token with a successor of this epoch is in  *)
(* the registry, and a worker that passed the check has not minted for it. *)
(***************************************************************************)
EXTENDS RefreshTokens, TLAPS

\* A worker at rest holds no token; a busy one holds an issued one.
WorkersHoldTokens ==
    \A w \in Workers : IF pc[w] = "idle" THEN old[w] = NoJti
                                         ELSE old[w] \in Issued

\* The registry holds issued tokens, those logged out and those being replaced.
RegistryHolds ==
    /\ used \subseteq Issued
    /\ closed \subseteq used
    /\ \A w \in Workers : pc[w] = "marked" => old[w] \in used

\* A token is minted in some epoch up to now, after the one it replaced.
TokensAreRecorded ==
    \A i \in Issued :
        /\ token[i].exp <= now + RefreshLife
        /\ token[i].epoch <= epoch
        /\ token[i].replaced # NoJti /\ token[i].epoch = epoch
             => token[i].replaced \in used

\* A worker between the check and the minting has no successor of its own yet.
NotMintedYet ==
    \A w \in Workers : pc[w] \in {"checked", "marked"} =>
        \A i \in Successors(old[w]) : token[i].by # w

IInv ==
    /\ TypeOK
    /\ WorkersHoldTokens
    /\ RegistryHolds
    /\ TokensAreRecorded
    /\ NotMintedYet
    /\ OneSuccessorPerWorker
    /\ UsedIsAccountedFor
    /\ RotationExtends

--------------------------------------------------------------------------------
(***************************************************************************)
(* What create_refresh_token does to the tokens: one more is issued, with  *)
(* the claims it was given, and no other changes.                          *)
(***************************************************************************)
LEMMA MintFacts ==
    ASSUME TypeOK,
           NEW j \in Jtis, NEW u \in Users, NEW w \in Workers,
           NEW parent \in Jtis \cup {NoJti},
           Mint(j, u, w, parent)
    PROVE  /\ j \notin Issued
           /\ Issued' = Issued \cup {j}
           /\ \A i \in Issued : token'[i] = token[i]
           /\ token'[j] = [sub |-> u, exp |-> now + RefreshLife,
                           replaced |-> parent, by |-> w, epoch |-> epoch]
           /\ token' \in [Jtis -> Token \cup {Unissued}]
<1> DEFINE t == [sub |-> u, exp |-> now + RefreshLife, replaced |-> parent,
                 by |-> w, epoch |-> epoch]
<1>1. t \in Token
  BY ConstantsAssumption DEF TypeOK, Token
<1>2. t # Unissued
  BY <1>1, ConstantsAssumption DEF Token
<1>3. token[j] = Unissued /\ token' = [token EXCEPT ![j] = t]
  BY DEF Mint
<1> HIDE DEF t
<1>4. token \in [Jtis -> Token \cup {Unissued}]
  BY DEF TypeOK
<1>5. token'[j] = t /\ token' \in [Jtis -> Token \cup {Unissued}]
  BY <1>1, <1>3, <1>4
<1>6. \A i \in Jtis : i # j => token'[i] = token[i]
  BY <1>3, <1>4
<1>7. j \notin Issued /\ Issued' = Issued \cup {j}
  BY <1>2, <1>3, <1>5, <1>6 DEF Issued
<1> QED
  BY <1>5, <1>6, <1>7 DEF t, Issued

\* An issued token is a token.
LEMMA IssuedIsToken ==
    ASSUME TypeOK, NEW i \in Issued
    PROVE  token[i] \in Token /\ i \in Jtis
  BY DEF TypeOK, Issued

(***************************************************************************)
(* The state before the first request satisfies the inductive invariant.   *)
(***************************************************************************)
LEMMA InitIInv == Init => IInv
<1> SUFFICES ASSUME Init PROVE IInv
  OBVIOUS
<1>1. Issued = {}
  BY DEF Init, Issued
<1>2. TypeOK
  BY ConstantsAssumption DEF Init, TypeOK, Stage
<1> QED
  BY <1>1, <1>2 DEF Init, IInv, WorkersHoldTokens, RegistryHolds, TokensAreRecorded,
     NotMintedYet, OneSuccessorPerWorker, UsedIsAccountedFor, RotationExtends,
     Successors

--------------------------------------------------------------------------------
(***************************************************************************)
(* Login hands out a token that replaces none: no token gains a successor. *)
(***************************************************************************)
LEMMA LoginKeepsIInv ==
    ASSUME IInv, NEW w \in Workers, NEW u \in Users, NEW j \in Jtis, Login(w, u, j)
    PROVE  IInv'
<1> USE DEF IInv
<1>1. /\ Mint(j, u, w, NoJti)
      /\ UNCHANGED <<now, epoch, used, pc, old, closed>>
  BY DEF Login
<1>2. /\ j \notin Issued
      /\ Issued' = Issued \cup {j}
      /\ \A i \in Issued : token'[i] = token[i]
      /\ token'[j] = [sub |-> u, exp |-> now + RefreshLife,
                      replaced |-> NoJti, by |-> w, epoch |-> epoch]
      /\ token' \in [Jtis -> Token \cup {Unissued}]
  BY <1>1, MintFacts
<1>3. \A p \in Jtis : Successors(p)' = Successors(p)
  BY <1>1, <1>2, ConstantsAssumption DEF Successors
<1>4. TypeOK'
  BY <1>1, <1>2 DEF TypeOK
<1>5. WorkersHoldTokens' /\ RegistryHolds'
  BY <1>1, <1>2 DEF WorkersHoldTokens, RegistryHolds
<1>6. TokensAreRecorded'
  BY <1>1, <1>2, ConstantsAssumption DEF TokensAreRecorded, TypeOK
<1>7. NotMintedYet'
  <2> SUFFICES ASSUME NEW v \in Workers, pc'[v] \in {"checked", "marked"},
                      NEW q, q = old'[v], NEW i \in Successors(q)'
               PROVE  token'[i].by # v
    BY DEF NotMintedYet, Successors
  <2>1. q \in Jtis /\ pc[v] \in {"checked", "marked"} /\ q = old[v]
    BY <1>1 DEF WorkersHoldTokens, Issued
  <2>2. i \in Successors(q)
    BY <2>1, <1>3
  <2> QED
    BY <2>1, <2>2, <1>2 DEF NotMintedYet, Successors
<1>8. OneSuccessorPerWorker'
  BY <1>2, <1>3 DEF OneSuccessorPerWorker, Successors
<1>9. UsedIsAccountedFor'
  BY <1>1, <1>3 DEF UsedIsAccountedFor, RegistryHolds, Issued
<1>10. RotationExtends'
  BY <1>2 DEF RotationExtends
<1> QED
  BY <1>4, <1>5, <1>6, <1>7, <1>8, <1>9, <1>10

(***************************************************************************)
(* The minting of a replacement: the one step that gives a token a         *)
(* successor.  The worker had none before (NotMintedYet) and the token is  *)
(* marked already, so no later check of it succeeds.                       *)
(***************************************************************************)
LEMMA RotateIssueKeepsIInv ==
    ASSUME IInv, NEW w \in Workers, NEW j \in Jtis, RotateIssue(w, j)
    PROVE  IInv'
<1> USE DEF IInv
<1>0. PICK p \in Jtis : p = old[w]
  BY DEF RotateIssue, WorkersHoldTokens, Issued
<1>1. /\ pc[w] = "marked"
      /\ Mint(j, token[p].sub, w, p)
      /\ pc' = [pc EXCEPT ![w] = "idle"]
      /\ old' = [old EXCEPT ![w] = NoJti]
      /\ UNCHANGED <<now, epoch, used, closed>>
  BY <1>0 DEF RotateIssue, Rest
<1>2. p \in Issued /\ p \in used /\ p # NoJti /\ token[p].sub \in Users
  <2>1. p \in Issued /\ p \in used
    BY <1>0, <1>1 DEF WorkersHoldTokens, RegistryHolds, Issued
  <2>2. token[p] \in Token
    BY <2>1, IssuedIsToken
  <2> QED
    BY <2>1, <2>2, ConstantsAssumption DEF Token
<1>3. /\ j \notin Issued
      /\ Issued' = Issued \cup {j}
      /\ \A i \in Issued : token'[i] = token[i]
      /\ token'[j] = [sub |-> token[p].sub, exp |-> now + RefreshLife,
                      replaced |-> p, by |-> w, epoch |-> epoch]
      /\ token' \in [Jtis -> Token \cup {Unissued}]
  BY <1>1, <1>2, MintFacts
<1>4. /\ Successors(p)' = Successors(p) \cup {j}
      /\ \A q \in Jtis : q # p => Successors(q)' = Successors(q)
  BY <1>1, <1>2, <1>3 DEF Successors
<1>5. \A v \in Workers : IF v = w THEN pc'[v] = "idle" /\ old'[v] = NoJti
                                  ELSE pc'[v] = pc[v] /\ old'[v] = old[v]
  BY <1>1 DEF TypeOK
<1>6. TypeOK'
  BY <1>1, <1>3 DEF TypeOK, Stage
<1>7. WorkersHoldTokens'
  BY <1>3, <1>5 DEF WorkersHoldTokens
<1>8. RegistryHolds'
  BY <1>1, <1>3, <1>5 DEF RegistryHolds
<1>9. TokensAreRecorded'
  BY <1>1, <1>2, <1>3, ConstantsAssumption DEF TokensAreRecorded, TypeOK
<1>10. NotMintedYet'
  <2> SUFFICES ASSUME NEW v \in Workers, pc'[v] \in {"checked", "marked"},
                      NEW q, q = old'[v], NEW i \in Successors(q)'
               PROVE  token'[i].by # v
    BY DEF NotMintedYet, Successors
  <2>1. v # w /\ pc[v] \in {"checked", "marked"} /\ q = old[v] /\ q \in Jtis
    BY <1>5 DEF WorkersHoldTokens, Issued
  <2>2. i = j \/ i \in Successors(q)
    BY <2>1, <1>4
  <2> QED
    BY <2>1, <2>2, <1>3 DEF NotMintedYet, Successors
<1>11. OneSuccessorPerWorker'
  <2>1. \A i \in Successors(p) : token'[i].by # w /\ token'[i] = token[i]
    BY <1>0, <1>1, <1>3 DEF NotMintedYet, Successors
  <2>2. \A q \in Jtis : \A i \in Successors(q) : token'[i] = token[i]
    BY <1>3 DEF Successors
  <2>3. token'[j].by = w
    BY <1>3
  <2> QED
    BY <2>1, <2>2, <2>3, <1>4 DEF OneSuccessorPerWorker
<1>12. UsedIsAccountedFor'
  <2> SUFFICES ASSUME NEW q \in used, q \notin closed, Successors(q)' = {}
               PROVE  \E v \in Workers : pc'[v] = "marked" /\ old'[v] = q
    BY <1>1 DEF UsedIsAccountedFor
  <2>1. q \in Jtis /\ q # p /\ Successors(q) = {}
    BY <1>4 DEF RegistryHolds, Issued
  <2>2. PICK v \in Workers : pc[v] = "marked" /\ old[v] = q
    BY <2>1 DEF UsedIsAccountedFor
  <2> QED
    BY <2>1, <2>2, <1>0, <1>5
<1>13. RotationExtends'
  <2>1. token[p].exp <= now + RefreshLife
    BY <1>2 DEF TokensAreRecorded
  <2> QED
    BY <2>1, <1>2, <1>3 DEF RotationExtends
<1> QED
  BY <1>6, <1>7, <1>8, <1>9, <1>10, <1>11, <1>12, <1>13

--------------------------------------------------------------------------------
(***************************************************************************)
(* A step that mints no token leaves every successor where it is, so the   *)
(* facts about tokens carry over as long as the registry does not shrink.  *)
(***************************************************************************)
LEMMA TokensUntouched ==
    ASSUME IInv, UNCHANGED <<now, epoch, token>>, used \subseteq used'
    PROVE  /\ Issued' = Issued
           /\ \A p : Successors(p)' = Successors(p)
           /\ TokensAreRecorded'
           /\ OneSuccessorPerWorker'
           /\ RotationExtends'
<1>1. Issued' = Issued /\ \A p : Successors(p)' = Successors(p)
  BY DEF Issued, Successors
<1> QED
  BY <1>1 DEF IInv, TokensAreRecorded, OneSuccessorPerWorker, RotationExtends

\* The handler's own decode: the worker takes an issued token in hand.
LEMMA RefreshDecodeKeepsIInv ==
    ASSUME IInv, NEW w \in Workers, NEW j \in Jtis, RefreshDecode(w, j)
    PROVE  IInv'
<1> USE DEF IInv
<1>1. /\ j \in Issued /\ pc[w] = "idle"
      /\ pc' = [pc EXCEPT ![w] = "decoded"]
      /\ old' = [old EXCEPT ![w] = j]
      /\ UNCHANGED <<now, epoch, token, used, closed>>
  BY DEF RefreshDecode, AtRest
<1>2. \A v \in Workers : IF v = w THEN pc'[v] = "decoded" /\ old'[v] = j
                                  ELSE pc'[v] = pc[v] /\ old'[v] = old[v]
  BY <1>1 DEF TypeOK
<1>3. /\ Issued' = Issued
      /\ \A p : Successors(p)' = Successors(p)
      /\ TokensAreRecorded' /\ OneSuccessorPerWorker' /\ RotationExtends'
  BY <1>1, TokensUntouched
<1>4. TypeOK'
  BY <1>1 DEF TypeOK, Stage
<1>5. WorkersHoldTokens' /\ RegistryHolds'
  BY <1>1, <1>2, <1>3 DEF WorkersHoldTokens, RegistryHolds
<1>6. NotMintedYet'
  BY <1>1, <1>2, <1>3 DEF NotMintedYet
<1>7. UsedIsAccountedFor'
  BY <1>1, <1>2, <1>3 DEF UsedIsAccountedFor
<1> QED
  BY <1>3, <1>4, <1>5, <1>6, <1>7

(***************************************************************************)
(* The check: a token outside the registry has no successor of this epoch  *)
(* (TokensAreRecorded), so the worker has minted none for it.              *)
(***************************************************************************)
LEMMA RotateCheckKeepsIInv ==
    ASSUME IInv, NEW w \in Workers, RotateCheck(w)
    PROVE  IInv'
<1> USE DEF IInv
<1>1. /\ old[w] \notin used /\ pc[w] = "decoded"
      /\ pc' = [pc EXCEPT ![w] = "checked"]
      /\ UNCHANGED <<now, epoch, token, used, old, closed>>
  BY DEF RotateCheck
<1>2. \A v \in Workers : pc'[v] = IF v = w THEN "checked" ELSE pc[v]
  BY <1>1 DEF TypeOK
<1>3. /\ Issued' = Issued
      /\ \A p : Successors(p)' = Successors(p)
      /\ TokensAreRecorded' /\ OneSuccessorPerWorker' /\ RotationExtends'
  BY <1>1, TokensUntouched
<1>4. TypeOK'
  BY <1>1 DEF TypeOK, Stage
<1>5. WorkersHoldTokens' /\ RegistryHolds'
  BY <1>1, <1>2, <1>3 DEF WorkersHoldTokens, RegistryHolds
<1>6. NotMintedYet'
  <2>1. old[w] # NoJti
    BY <1>1, ConstantsAssumption DEF WorkersHoldTokens, Issued
  <2>2. Successors(old[w]) = {}
    BY <1>1, <2>1 DEF Successors, TokensAreRecorded
  <2> QED
    BY <1>1, <1>2, <1>3, <2>2 DEF NotMintedYet
<1>7. UsedIsAccountedFor'
  BY <1>1, <1>2, <1>3 DEF UsedIsAccountedFor
<1> QED
  BY <1>3, <1>4, <1>5, <1>6, <1>7

\* A refusal changes nothing but the worker.
LEMMA RotateRefuseKeepsIInv ==
    ASSUME IInv, NEW w \in Workers, RotateRefuse(w)
    PROVE  IInv'
<1> USE DEF IInv
<1>1. /\ pc[w] = "decoded"
      /\ pc' = [pc EXCEPT ![w] = "idle"]
      /\ old' = [old EXCEPT ![w] = NoJti]
      /\ UNCHANGED <<now, epoch, token, used, closed>>
  BY DEF RotateRefuse, Rest
<1>2. \A v \in Workers : IF v = w THEN pc'[v] = "idle" /\ old'[v] = NoJti
                                  ELSE pc'[v] = pc[v] /\ old'[v] = old[v]
  BY <1>1 DEF TypeOK
<1>3. /\ Issued' = Issued
      /\ \A p : Successors(p)' = Successors(p)
      /\ TokensAreRecorded' /\ OneSuccessorPerWorker' /\ RotationExtends'
  BY <1>1, TokensUntouched
<1>4. TypeOK'
  BY <1>1 DEF TypeOK, Stage
<1>5. WorkersHoldTokens' /\ RegistryHolds'
  BY <1>1, <1>2, <1>3 DEF WorkersHoldTokens, RegistryHolds
<1>6. NotMintedYet'
  BY <1>1, <1>2, <1>3 DEF NotMintedYet
<1>7. UsedIsAccountedFor'
  BY <1>1, <1>2, <1>3 DEF UsedIsAccountedFor
<1> QED
  BY <1>3, <1>4, <1>5, <1>6, <1>7

\* The add: from here on the worker owes the token a successor.
LEMMA RotateMarkKeepsIInv ==
    ASSUME IInv, NEW w \in Workers, RotateMark(w)
    PROVE  IInv'
<1> USE DEF IInv
<1>1. /\ pc[w] = "checked"
      /\ used' = used \cup {old[w]}
      /\ pc' = [pc EXCEPT ![w] = "marked"]
      /\ UNCHANGED <<now, epoch, token, old, closed>>
  BY DEF RotateMark
<1>2. \A v \in Workers : pc'[v] = IF v = w THEN "marked" ELSE pc[v]
  BY <1>1 DEF TypeOK
<1>3. /\ Issued' = Issued
      /\ \A p : Successors(p)' = Successors(p)
      /\ TokensAreRecorded' /\ OneSuccessorPerWorker' /\ RotationExtends'
  BY <1>1, TokensUntouched
<1>4. old[w] \in Issued /\ old[w] \in Jtis
  BY <1>1 DEF WorkersHoldTokens, Issued
<1>5. TypeOK'
  BY <1>1, <1>4 DEF TypeOK, Stage
<1>6. WorkersHoldTokens' /\ RegistryHolds'
  BY <1>1, <1>2, <1>3, <1>4 DEF WorkersHoldTokens, RegistryHolds
<1>7. NotMintedYet'
  BY <1>1, <1>2, <1>3 DEF NotMintedYet
<1>8. UsedIsAccountedFor'
  BY <1>1, <1>2, <1>3 DEF UsedIsAccountedFor
<1> QED
  BY <1>3, <1>5, <1>6, <1>7, <1>8

\* Logout marks the token and records that it did.
LEMMA LogoutKeepsIInv ==
    ASSUME IInv, NEW w \in Workers, NEW j \in Jtis, Logout(w, j)
    PROVE  IInv'
<1> USE DEF IInv
<1>1. /\ j \in Issued
      /\ used' = used \cup {j}
      /\ closed' = closed \cup {j}
      /\ UNCHANGED <<now, epoch, token, pc, old>>
  BY DEF Logout
<1>2. /\ Issued' = Issued
      /\ \A p : Successors(p)' = Successors(p)
      /\ TokensAreRecorded' /\ OneSuccessorPerWorker' /\ RotationExtends'
  BY <1>1, TokensUntouched
<1>3. TypeOK'
  BY <1>1 DEF TypeOK
<1>4. WorkersHoldTokens' /\ RegistryHolds'
  BY <1>1, <1>2 DEF WorkersHoldTokens, RegistryHolds
<1>5. NotMintedYet' /\ UsedIsAccountedFor'
  BY <1>1, <1>2 DEF NotMintedYet, UsedIsAccountedFor
<1> QED
  BY <1>2, <1>3, <1>4, <1>5

\* Time passes: every token still expires at most RefreshLife from now.
LEMMA TickKeepsIInv ==
    ASSUME IInv, Tick
    PROVE  IInv'
<1> USE DEF IInv
<1>1. now < MaxTime /\ now' = now + 1 /\ UNCHANGED <<epoch, token, used, pc, old, closed>>
  BY DEF Tick
<1>2. Issued' = Issued /\ \A p : Successors(p)' = Successors(p)
  BY <1>1 DEF Issued, Successors
<1>3. TypeOK'
  BY <1>1, ConstantsAssumption DEF TypeOK
<1>4. \A i \in Issued : token[i].exp \in Nat
  BY IssuedIsToken DEF Token
<1>5. TokensAreRecorded'
  BY <1>1, <1>2, <1>4, ConstantsAssumption DEF TokensAreRecorded, TypeOK
<1> QED
  BY <1>1, <1>2, <1>3, <1>5 DEF WorkersHoldTokens, RegistryHolds, NotMintedYet,
     OneSuccessorPerWorker, UsedIsAccountedFor, RotationExtends

\* A restart begins an epoch in which no token has a successor yet.
LEMMA RestartKeepsIInv ==
    ASSUME IInv, Restart
    PROVE  IInv'
<1> USE DEF IInv
<1>1. /\ epoch < MaxRestarts /\ epoch' = epoch + 1
      /\ used' = {} /\ closed' = {}
      /\ pc' = [w \in Workers |-> "idle"]
      /\ old' = [w \in Workers |-> NoJti]
      /\ UNCHANGED <<now, token>>
  BY DEF Restart
<1>2. Issued' = Issued
  BY <1>1 DEF Issued
<1>3. \A i \in Issued : token[i].epoch < epoch' /\ token[i].epoch \in Nat
  BY <1>1, ConstantsAssumption, IssuedIsToken DEF TokensAreRecorded, TypeOK, Token
<1>4. epoch' \in Nat
  BY <1>1, ConstantsAssumption DEF TypeOK
<1>5. \A p : Successors(p)' = {}
  BY <1>1, <1>2, <1>3, <1>4 DEF Successors
<1>6. TypeOK'
  BY <1>1, ConstantsAssumption DEF TypeOK, Stage
<1>7. TokensAreRecorded'
  BY <1>1, <1>2, <1>3, <1>4 DEF TokensAreRecorded
<1> QED
  BY <1>1, <1>2, <1>5, <1>6, <1>7 DEF WorkersHoldTokens, RegistryHolds, NotMintedYet,
     OneSuccessorPerWorker, UsedIsAccountedFor, RotationExtends

LEMMA NextKeepsIInv == IInv /\ [Next]_vars => IInv'
<1> SUFFICES ASSUME IInv, [Next]_vars PROVE IInv'
  OBVIOUS
<1>1. ASSUME NEW w \in Workers, NEW u \in Users, NEW j \in Jtis, Login(w, u, j)
      PROVE  IInv'
  BY <1>1, LoginKeepsIInv
<1>2. ASSUME NEW w \in Workers, NEW j \in Jtis, RefreshDecode(w, j) \/ Logout(w, j)
      PROVE  IInv'
  BY <1>2, RefreshDecodeKeepsIInv, LogoutKeepsIInv
<1>3. ASSUME NEW w \in Workers, RotateStep(w)
      PROVE  IInv'
  BY <1>3, RotateCheckKeepsIInv, RotateRefuseKeepsIInv, RotateMarkKeepsIInv,
     RotateIssueKeepsIInv DEF RotateStep
<1>4. CASE Tick \/ Restart
  BY <1>4, TickKeepsIInv, RestartKeepsIInv
<1>5. CASE UNCHANGED vars
  BY <1>5 DEF vars, IInv, TypeOK, WorkersHoldTokens, RegistryHolds, TokensAreRecorded,
     NotMintedYet, OneSuccessorPerWorker, UsedIsAccountedFor, RotationExtends,
     Issued, Successors
<1> QED
  BY <1>1, <1>2, <1>3, <1>4, <1>5 DEF Next

(***************************************************************************)
(* Every reachable state satisfies the inductive invariant.                *)
(***************************************************************************)
THEOREM Invariant == Spec => []IInv
<1>1. Init => IInv
  BY InitIInv
<1>2. IInv /\ [Next]_vars => IInv'
  BY NextKeepsIInv
<1> QED
  BY <1>1, <1>2, PTL DEF Spec

\* Type correctness of the token registry and of the workers that use it.
THEOREM TypeCorrect == Spec => []TypeOK
<1>1. IInv => TypeOK
  BY DEF IInv
<1> QED
  BY <1>1, Invariant, PTL

(***************************************************************************)
(* rotate_refresh_token gives a thread at most one replacement per token   *)
(* in the life of the process, for any number of racing threads.           *)
(***************************************************************************)
THEOREM OneSuccessor == Spec => []OneSuccessorPerWorker
<1>1. IInv => OneSuccessorPerWorker
  BY DEF IInv
<1> QED
  BY <1>1, Invariant, PTL

(***************************************************************************)
(* A token in the registry was logged out, was replaced, or is about to be *)
(* replaced: the mark made before the minting never loses a session.       *)
(***************************************************************************)
THEOREM UsedAccounted == Spec => []UsedIsAccountedFor
<1>1. IInv => UsedIsAccountedFor
  BY DEF IInv
<1> QED
  BY <1>1, Invariant, PTL

\* A replacement never expires before the token it replaced.
THEOREM Extends == Spec => []RotationExtends
<1>1. IInv => RotationExtends
  BY DEF IInv
<1> QED
  BY <1>1, Invariant, PTL

(***************************************************************************)
(* After the answer to a logout no further rotation of the token passes    *)
(* the check of rotate_refresh_token.  The check looks the registry up,    *)
(* and the registry keeps every token that was logged out.                 *)
(***************************************************************************)
THEOREM LogoutFinal == Spec => LogoutIsFinal
<1>1. ASSUME IInv, [Next]_vars, NEW j \in closed \cap closed'
      PROVE  Rotating(j)' \subseteq Rotating(j)
  <2> SUFFICES ASSUME NEW v \in Workers,
                      pc'[v] \in {"checked", "marked"}, old'[v] = j
               PROVE  pc[v] \in {"checked", "marked"} /\ old[v] = j
    BY DEF Rotating
  <2> USE DEF IInv
  <2>1. j \in used /\ j \in Jtis
    BY <1>1 DEF RegistryHolds, Issued
  <2>2. CASE UNCHANGED <<pc, old>>
    BY <2>2
  <2>3. ASSUME NEW w \in Workers, NEW i \in Jtis, RefreshDecode(w, i)
        PROVE  pc[v] \in {"checked", "marked"} /\ old[v] = j
    BY <1>1, <2>3 DEF RefreshDecode, TypeOK
  <2>4. ASSUME NEW w \in Workers, RotateCheck(w)
        PROVE  pc[v] \in {"checked", "marked"} /\ old[v] = j
    BY <1>1, <2>1, <2>4 DEF RotateCheck, TypeOK
  <2>5. ASSUME NEW w \in Workers, RotateRefuse(w) \/ \E i \in Jtis : RotateIssue(w, i)
        PROVE  pc[v] \in {"checked", "marked"} /\ old[v] = j
    BY <1>1, <2>5 DEF RotateRefuse, RotateIssue, Rest, TypeOK
  <2>6. ASSUME NEW w \in Workers, RotateMark(w)
        PROVE  pc[v] \in {"checked", "marked"} /\ old[v] = j
    BY <1>1, <2>6 DEF RotateMark, TypeOK
  <2>7. CASE Restart
    BY <2>7 DEF Restart
  <2> QED
    BY <1>1, <2>2, <2>3, <2>4, <2>5, <2>6, <2>7
       DEF Next, RotateStep, Login, Logout, Tick, vars
<1>2. IInv /\ [Next]_vars
        => [\A j \in closed \cap closed' : Rotating(j)' \subseteq Rotating(j)]_vars
  BY <1>1
<1> QED
  BY <1>2, Invariant, PTL DEF Spec, LogoutIsFinal

--------------------------------------------------------------------------------
\* The origins after a token is minted.
LEMMA OriginOfMinted ==
    ASSUME TypeOK,
           NEW j \in Jtis, NEW u \in Users, NEW w \in Workers,
           NEW parent \in Jtis \cup {NoJti},
           Mint(j, u, w, parent)
    PROVE  Origin[j] = Unissued /\ Origin' = [Origin EXCEPT ![j] = parent]
<1>1. token[j] = Unissued /\ token'[j].replaced = parent /\ token'[j] # Unissued
  <2>1. /\ Issued' = Issued \cup {j}
        /\ token'[j] = [sub |-> u, exp |-> now + RefreshLife,
                        replaced |-> parent, by |-> w, epoch |-> epoch]
    BY MintFacts
  <2> QED
    BY <2>1 DEF Issued, Mint
<1>2. \A i \in Jtis : i # j => token'[i] = token[i]
  BY DEF Mint, TypeOK
<1> QED
  BY <1>1, <1>2 DEF Origin

(***************************************************************************)
(* A step that neither marks a used token nor mints one replacement of     *)
(* several is a step of single use or none.                                *)
(***************************************************************************)
LEMMA OtherStepsRefine ==
    ASSUME IInv, IInv', [Next]_vars, \A w \in Workers : ~MarksUsed(w) /\ ~MintsAlongside(w)
    PROVE  [SingleUse!Next]_(SingleUse!vars)
<1> USE DEF IInv, FirstOfLogin
<1>0. SingleUse!Issued = Issued
  <2>1. \A j \in Jtis : token[j] # Unissued => token[j].replaced # Unissued
    BY IssuedIsToken, ConstantsAssumption DEF Issued, Token
  <2> QED
    BY <2>1 DEF SingleUse!Issued, Origin, Issued
<1>1. ASSUME NEW w \in Workers, NEW u \in Users, NEW j \in Jtis, Login(w, u, j)
      PROVE  SingleUse!Grant(j)
  <2>1. Mint(j, u, w, NoJti) /\ UNCHANGED <<used, pc, old>>
    BY <1>1 DEF Login
  <2>2. Origin[j] = Unissued /\ Origin' = [Origin EXCEPT ![j] = NoJti]
    BY <2>1, OriginOfMinted
  <2>3. Owed' = Owed
    BY <2>1 DEF Owed
  <2> QED
    BY <2>1, <2>2, <2>3 DEF SingleUse!Grant
<1>2. ASSUME NEW w \in Workers,
             \/ \E j \in Jtis : RefreshDecode(w, j)
             \/ RotateCheck(w) \/ RotateRefuse(w)
      PROVE  UNCHANGED <<Origin, used, Owed>>
  <2>1. UNCHANGED <<token, used>>
    BY <1>2 DEF RefreshDecode, RotateCheck, RotateRefuse
  <2>2. \A v \in Workers : /\ (pc'[v] = "marked") <=> (pc[v] = "marked")
                           /\ pc[v] = "marked" => old'[v] = old[v]
    BY <1>2 DEF RefreshDecode, RotateCheck, RotateRefuse, Rest, AtRest, TypeOK
  <2>3. Owed' = Owed
    BY <2>2 DEF Owed
  <2> QED
    BY <2>1, <2>3 DEF Origin
<1>3. ASSUME NEW w \in Workers, RotateMark(w)
      PROVE  SingleUse!Spend(old[w])
  <2>1. pc[w] = "checked" /\ pc' = [pc EXCEPT ![w] = "marked"] /\ UNCHANGED <<token, old>>
        /\ used' = used \cup {old[w]}
    BY <1>3 DEF RotateMark
  <2>2. old[w] \in SingleUse!Issued \ used
    BY <1>0, <1>3, <2>1 DEF WorkersHoldTokens, MarksUsed
  <2>3. Owed' = Owed \cup {old[w]}
    <3>1. \A v \in Workers : (pc'[v] = "marked") <=> (v = w \/ pc[v] = "marked")
      BY <2>1 DEF TypeOK
    <3> QED
      BY <2>1, <3>1 DEF Owed
  <2> QED
    BY <2>1, <2>2, <2>3 DEF SingleUse!Spend, Origin
<1>4. ASSUME NEW w \in Workers, NEW j \in Jtis, RotateIssue(w, j)
      PROVE  SingleUse!Replace(old[w], j)
  <2>1. /\ pc[w] = "marked" /\ UNCHANGED used
        /\ pc' = [pc EXCEPT ![w] = "idle"] /\ old' = [old EXCEPT ![w] = NoJti]
        /\ Mint(j, token[old[w]].sub, w, old[w])
    BY <1>4 DEF RotateIssue, Rest
  <2>2. old[w] \in Jtis /\ token[old[w]].sub \in Users
    <3>1. old[w] \in Issued
      BY <2>1 DEF WorkersHoldTokens
    <3> QED
      BY <3>1, IssuedIsToken DEF Token
  <2>3. Origin[j] = Unissued /\ Origin' = [Origin EXCEPT ![j] = old[w]]
    BY <2>1, <2>2, OriginOfMinted
  <2>4. old[w] \in Owed /\ Owed' = Owed \ {old[w]}
    <3>1. \A v \in Workers : (pc'[v] = "marked") <=> (v # w /\ pc[v] = "marked")
      BY <2>1 DEF TypeOK
    <3>2. \A v \in Workers : v # w => old'[v] = old[v]
      BY <2>1 DEF TypeOK
    <3>3. \A v \in Workers : v # w /\ pc[v] = "marked" => old[v] # old[w]
      BY <1>4 DEF MintsAlongside
    <3> QED
      BY <2>1, <3>1, <3>2, <3>3 DEF Owed
  <2> QED
    BY <2>1, <2>3, <2>4 DEF SingleUse!Replace
<1>5. ASSUME NEW w \in Workers, NEW j \in Jtis, Logout(w, j)
      PROVE  SingleUse!Revoke(j)
  BY <1>0, <1>5 DEF Logout, SingleUse!Revoke, Origin, Owed
<1>6. CASE Restart
  <2>1. used' = {} /\ Origin' = Origin /\ Owed' = {}
    BY <1>6 DEF Restart, Origin, Owed
  <2> QED
    BY <2>1 DEF SingleUse!Next, SingleUse!Restart
<1>7. CASE Tick \/ UNCHANGED vars
  BY <1>7 DEF Tick, vars, SingleUse!vars, Origin, Owed
<1>8. \A w \in Workers : pc[w] # "idle" => old[w] \in Jtis
  BY DEF WorkersHoldTokens, Issued
<1> QED
  <2>1. ASSUME NEW w \in Workers, RotateMark(w) PROVE SingleUse!Next
    BY <1>3, <1>8, <2>1 DEF SingleUse!Next, RotateMark
  <2>2. ASSUME NEW w \in Workers, NEW j \in Jtis, RotateIssue(w, j)
        PROVE  SingleUse!Next
    BY <1>4, <1>8, <2>2 DEF SingleUse!Next, RotateIssue
  <2> QED
    BY <1>1, <1>2, <1>5, <1>6, <1>7, <2>1, <2>2
       DEF Next, RotateStep, SingleUse!Next, SingleUse!vars

(***************************************************************************)
(* The race between the test and the mark is the only way out of the       *)
(* promise of the registry: on any number of threads, with any tokens,     *)
(* restarts, logouts and expiries, each step of the handlers is one of     *)
(* SingleUseRotation, unless it marks a token used since its test or mints *)
(* one of the replacements this has led to.                                *)
(***************************************************************************)
THEOREM OnlyTheRaceBreaksSingleUse == Spec => SingleUseButForTheRace
<1>1. Init => SingleUse!Init
  BY DEF Init, SingleUse!Init, Origin, Owed, FirstOfLogin
<1>2. IInv /\ IInv' /\ [Next]_vars
        => [SingleUse!Next \/ \E w \in Workers : MarksUsed(w) \/ MintsAlongside(w)]_(SingleUse!vars)
  BY OtherStepsRefine
<1> QED
  BY <1>1, <1>2, Invariant, PTL DEF Spec, SingleUseButForTheRace

================================================================================
