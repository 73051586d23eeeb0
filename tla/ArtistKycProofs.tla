-------------------------- MODULE ArtistKycProofs --------------------------
(***************************************************************************)
(* What the onboarding and the Connect webhooks keep for any accounts,     *)
(* requests and failures.  RoleIsEarned rests on what a delivery carries:  *)
(* VERIFIED was read from an account that has been active (Known, below).  *)
(***************************************************************************)
EXTENDS ArtistKyc, TLAPS

USE KycAssumption DEF KycAssumption, Goto, At, Idle, database, stripe, history, vars

-----------------------------------------------------------------------------
(* What Stripe and the requests know of an account.                         *)
Known ==
  /\ \A a \in Account : /\ standing[a] = "free" => seen[a] = {}
                        /\ standing[a] \in Standing => standing[a] \in seen[a]
  /\ \A r \in Request : request[r].pc \in {"find", "sync"} /\ request[r].kyc = "VERIFIED" =>
                          "active" \in seen[request[r].account]

LEMMA KycType == \A s \in Standing : KycStatus(s) \in Kyc /\ (KycStatus(s) = "VERIFIED" => s = "active")
  BY DEF KycStatus, Standing, Kyc

LEMMA IdleType == Idle \in RequestState /\ Idle.pc = "idle"
  BY DEF RequestState

(* The shape of a request at each await.                                    *)
LEMMA Shapes ==
  ASSUME TypeOK, NEW r \in Request
  PROVE  /\ request[r].pc \in {"store", "retrieve", "findRevoked", "revoke"} =>
              request[r] \in [pc: {"store", "retrieve", "findRevoked", "revoke"}, account: Account]
         /\ request[r].pc \in {"find", "sync"} =>
              request[r] \in [pc: {"find", "sync"}, account: Account, kyc: Kyc]
<1>1. request[r] \in RequestState
  BY DEF TypeOK
<1> QED BY <1>1 DEF RequestState

(* The request a step moves goes to a state of the type.                    *)
LEMMA Moved ==
  ASSUME TypeOK, NEW r \in Request, NEW q \in RequestState, Goto(r, q)
  PROVE  /\ request' \in [Request -> RequestState]
         /\ request'[r] = q
         /\ \A o \in Request \ {r} : request'[o] = request[o]
  BY DEF TypeOK

LEMMA FindMoves ==
  ASSUME TypeOK, NEW r \in Request, Find(r)
  PROVE  \E q \in RequestState :
           /\ Goto(r, q)
           /\ q.pc = "sync" => /\ request[r].pc = "find"
                               /\ q.account = request[r].account /\ q.kyc = request[r].kyc
           /\ q.pc # "find"
<1>1. CASE Goto(r, Idle)
  <2> USE IdleType
  <2> WITNESS Idle \in RequestState
  <2> QED BY <1>1, IdleType
<1>2. CASE request[r].pc = "find" /\ ~Goto(r, Idle)
  <2> DEFINE q == [request[r] EXCEPT !.pc = "sync"]
  <2>1. request[r] \in [pc: {"find", "sync"}, account: Account, kyc: Kyc]
    BY <1>2, Shapes
  <2>2. q \in RequestState /\ q.pc = "sync" /\ q.account = request[r].account /\ q.kyc = request[r].kyc
    BY <2>1 DEF RequestState
  <2>3. Goto(r, q)
    BY <1>2, <2>1 DEF Find
  <2> HIDE DEF q
  <2> USE <2>2
  <2> WITNESS q \in RequestState
  <2> QED BY <1>2, <2>2, <2>3
<1>3. CASE request[r].pc = "findRevoked" /\ ~Goto(r, Idle)
  <2> DEFINE q == [request[r] EXCEPT !.pc = "revoke"]
  <2>1. request[r] \in [pc: {"store", "retrieve", "findRevoked", "revoke"}, account: Account]
    BY <1>3, Shapes
  <2>2. q \in RequestState /\ q.pc = "revoke"
    BY <2>1 DEF RequestState
  <2>3. Goto(r, q)
    BY <1>3, <2>1 DEF Find
  <2> HIDE DEF q
  <2> USE <2>2
  <2> WITNESS q \in RequestState
  <2> QED BY <2>2, <2>3
<1> QED BY <1>1, <1>2, <1>3 DEF Find

LEMMA RetrieveMoves ==
  ASSUME TypeOK, Known, NEW r \in Request, Retrieve(r)
  PROVE  \E q \in RequestState :
           /\ Goto(r, q)
           /\ q.pc # "sync"
           /\ q.pc = "find" /\ q.kyc = "VERIFIED" => "active" \in seen[q.account]
<1> DEFINE a == request[r].account
<1>1. a \in Account
  BY Shapes DEF Retrieve
<1>2. CASE Goto(r, Idle)
  <2> USE IdleType
  <2> WITNESS Idle \in RequestState
  <2> QED BY <1>2, IdleType
<1>3. CASE ~Goto(r, Idle)
  <2>1. PICK status \in Kyc : /\ Goto(r, [pc |-> "find", account |-> a, kyc |-> status])
                              /\ status = "VERIFIED" => standing[a] = "active"
    BY <1>3 DEF Retrieve, Kyc
  <2>2. status = "VERIFIED" => "active" \in seen[a]
    BY <1>1, <2>1 DEF Known, Standing
  <2> DEFINE q == [pc |-> "find", account |-> a, kyc |-> status]
  <2>3. q \in RequestState /\ q.pc = "find" /\ q.kyc = status /\ q.account = a
    BY <1>1 DEF RequestState
  <2>4. Goto(r, q)
    BY <2>1
  <2> HIDE DEF q
  <2> USE <2>3
  <2> WITNESS q \in RequestState
  <2> QED BY <2>2, <2>3, <2>4
<1> QED BY <1>2, <1>3

-----------------------------------------------------------------------------
LEMMA TypeStep == TypeOK /\ Known /\ [Next]_vars => TypeOK'
<1> SUFFICES ASSUME TypeOK, Known, [Next]_vars PROVE TypeOK'
  OBVIOUS
<1>1. CASE Become
  BY <1>1 DEF Become, TypeOK, Kyc
<1>2. ASSUME NEW r \in Request, Onboard(r) PROVE TypeOK'
  <2>1. request' \in [Request -> RequestState]
    BY <1>2 DEF Onboard, TypeOK, RequestState
  <2> QED BY <1>2, <2>1 DEF Onboard, TypeOK
<1>3. ASSUME NEW r \in Request, NEW a \in Account, CreateAccount(r, a) PROVE TypeOK'
  <2>1. request' \in [Request -> RequestState]
    BY <1>3, Moved DEF CreateAccount, RequestState
  <2> QED BY <1>3, <2>1 DEF CreateAccount, TypeOK, Standing
<1>4. ASSUME NEW r \in Request, StoreAccount(r) PROVE TypeOK'
  <2>1. request' \in [Request -> RequestState] /\ request[r].account \in Account
    BY <1>4, Moved, Shapes DEF StoreAccount, RequestState
  <2> QED BY <1>4, <2>1 DEF StoreAccount, TypeOK
<1>5. ASSUME NEW r \in Request, NEW a \in Account, NEW s \in Standing, AccountUpdated(r, a, s)
      PROVE  TypeOK'
  <2>1. request' \in [Request -> RequestState]
    BY <1>5, KycType, Moved DEF AccountUpdated, RequestState
  <2> QED BY <1>5, <2>1 DEF AccountUpdated, TypeOK
<1>6. ASSUME NEW r \in Request, NEW a \in Account, AccountUpdatedV2(r, a) \/ Deauthorized(r, a)
      PROVE  TypeOK'
  <2>1. request' \in [Request -> RequestState]
    BY <1>6, Moved DEF AccountUpdatedV2, Deauthorized, RequestState
  <2> QED BY <1>6, <2>1 DEF AccountUpdatedV2, Deauthorized, TypeOK
<1>7. ASSUME NEW r \in Request, Retrieve(r) PROVE TypeOK'
  <2>1. request' \in [Request -> RequestState]
    BY <1>7, RetrieveMoves, Moved
  <2> QED BY <1>7, <2>1 DEF Retrieve, TypeOK
<1>8. ASSUME NEW r \in Request, Find(r) PROVE TypeOK'
  <2>1. request' \in [Request -> RequestState]
    BY <1>8, FindMoves, Moved
  <2> QED BY <1>8, <2>1 DEF Find, TypeOK
<1>9. ASSUME NEW r \in Request, Sync(r) PROVE TypeOK'
  <2>1. request' \in [Request -> RequestState] /\ request[r].kyc \in Kyc
    BY <1>9, Moved, Shapes DEF Sync, RequestState
  <2>2. demoted' \in BOOLEAN /\ stale' \in BOOLEAN
    BY <1>9 DEF Sync
  <2>3. role' \in {"LISTENER", "ARTIST", "ADMIN"}
    BY <1>9 DEF Sync, TypeOK
  <2> QED BY <1>9, <2>1, <2>2, <2>3 DEF Sync, TypeOK
<1>10. ASSUME NEW r \in Request, Revoke(r) PROVE TypeOK'
  <2>1. request' \in [Request -> RequestState]
    BY <1>10, Moved DEF Revoke, RequestState
  <2>2. stale' \in BOOLEAN
    BY <1>10 DEF Revoke
  <2> QED BY <1>10, <2>1, <2>2 DEF Revoke, TypeOK, Kyc
<1>11. ASSUME NEW r \in Request, Crash(r) PROVE TypeOK'
  <2>1. request' \in [Request -> RequestState]
    BY <1>11, Moved DEF Crash, RequestState
  <2> QED BY <1>11, <2>1 DEF Crash, TypeOK
<1>12. ASSUME NEW new \in {"LISTENER", "ARTIST"}, SetRole(new) PROVE TypeOK'
  BY <1>12 DEF SetRole, TypeOK
<1>13. ASSUME NEW a \in Account, NEW s \in Standing, Examine(a, s) PROVE TypeOK'
  BY <1>13 DEF Examine, TypeOK
<1>14. ASSUME NEW a \in Account, Deauthorize(a) PROVE TypeOK'
  BY <1>14 DEF Deauthorize, TypeOK
<1>15. CASE UNCHANGED vars
  BY <1>15 DEF TypeOK
<1> QED BY <1>1, <1>2, <1>3, <1>4, <1>5, <1>6, <1>7, <1>8, <1>9, <1>10, <1>11, <1>12, <1>13,
           <1>14, <1>15 DEF Next

LEMMA TypeInit == Init => TypeOK
<1> SUFFICES ASSUME Init PROVE TypeOK
  OBVIOUS
<1>1. request \in [Request -> RequestState]
  BY DEF Init, RequestState
<1>2. /\ standing \in [Account -> Standing \cup {"free", "revoked"}]
      /\ seen \in [Account -> SUBSET Standing]
  BY DEF Init
<1>3. /\ role \in {"LISTENER", "ARTIST", "ADMIN"} /\ account \in Account \cup {NoAccount}
      /\ kyc \in Kyc /\ crashes \in 0 .. MaxCrashes /\ linked \subseteq Account
  BY DEF Init, Kyc
<1>4. profile \in BOOLEAN /\ granted \in BOOLEAN /\ demoted \in BOOLEAN /\ stale \in BOOLEAN
  BY DEF Init
<1> QED BY <1>1, <1>2, <1>3, <1>4 DEF TypeOK

LEMMA KnownStep == TypeOK /\ Known /\ [Next]_vars => Known'
<1> SUFFICES ASSUME TypeOK, Known, [Next]_vars PROVE Known'
  OBVIOUS
<1> DEFINE Delivered(r) == request[r].pc \in {"find", "sync"} /\ request[r].kyc = "VERIFIED" =>
                             "active" \in seen[request[r].account]
(* A request that moves keeps the rest of Known when its new state does.    *)
<1>h. ASSUME NEW r \in Request, NEW q \in RequestState, Goto(r, q), UNCHANGED stripe,
             q.pc \in {"find", "sync"} /\ q.kyc = "VERIFIED" => "active" \in seen[q.account]
      PROVE  Known'
  BY <1>h DEF Known, TypeOK
<1>i. ASSUME NEW r \in Request, Goto(r, Idle), UNCHANGED stripe PROVE Known'
  BY <1>h, <1>i, IdleType
<1>1. ASSUME UNCHANGED <<stripe, request>> PROVE Known'
  BY <1>1 DEF Known
<1>2. ASSUME NEW r \in Request, Onboard(r) PROVE Known'
  <2>1. [pc |-> "create"] \in RequestState
    BY DEF RequestState
  <2> QED BY <1>1, <1>2, <1>h, <2>1 DEF Onboard
<1>3. ASSUME NEW r \in Request, NEW a \in Account, CreateAccount(r, a) PROVE Known'
  <2> DEFINE q == [pc |-> "store", account |-> a]
  <2>1. request'[r] = q /\ \A o \in Request \ {r} : request'[o] = request[o]
    BY <1>3 DEF CreateAccount, TypeOK
  <2>2. "active" \notin seen[a]
    BY <1>3 DEF CreateAccount, Known
  <2>3. \A b \in Account \ {a} : seen'[b] = seen[b] /\ standing'[b] = standing[b]
    BY <1>3 DEF CreateAccount, TypeOK
  <2>4. seen'[a] = {"incomplete"} /\ standing'[a] = "incomplete"
    BY <1>3 DEF CreateAccount, TypeOK
  <2>5. \A o \in Request \ {r} : request[o].pc \in {"find", "sync"} => request[o].account \in Account
    BY Shapes
  <2> QED BY <2>1, <2>2, <2>3, <2>4, <2>5 DEF Known
<1>4. ASSUME NEW r \in Request, StoreAccount(r) \/ Sync(r) \/ Revoke(r) \/ Crash(r) PROVE Known'
  BY <1>4, <1>i DEF StoreAccount, Sync, Revoke, Crash
<1>5. ASSUME NEW r \in Request, NEW a \in Account, NEW s \in Standing, AccountUpdated(r, a, s)
      PROVE  Known'
  <2> DEFINE q == [pc |-> "find", account |-> a, kyc |-> KycStatus(s)]
  <2>1. q \in RequestState /\ q.kyc = KycStatus(s) /\ q.account = a
    BY KycType DEF RequestState
  <2>2. Goto(r, q) /\ UNCHANGED stripe /\ s \in seen[a]
    BY <1>5 DEF AccountUpdated
  <2> HIDE DEF q
  <2> QED BY <1>h, <2>1, <2>2, KycType
<1>6. ASSUME NEW r \in Request, NEW a \in Account, AccountUpdatedV2(r, a) \/ Deauthorized(r, a)
      PROVE  Known'
  <2>1. \A pc \in {"retrieve", "findRevoked"} : [pc |-> pc, account |-> a] \in RequestState
    BY DEF RequestState
  <2> QED BY <1>6, <1>h, <2>1 DEF AccountUpdatedV2, Deauthorized
<1>7. ASSUME NEW r \in Request, Retrieve(r) PROVE Known'
  <2>1. UNCHANGED stripe
    BY <1>7 DEF Retrieve
  <2> QED BY <1>7, <1>h, <2>1, RetrieveMoves
<1>8. ASSUME NEW r \in Request, Find(r) PROVE Known'
  <2>1. UNCHANGED stripe
    BY <1>8 DEF Find
  <2>2. PICK q \in RequestState :
          /\ Goto(r, q)
          /\ q.pc = "sync" => /\ request[r].pc = "find"
                              /\ q.account = request[r].account /\ q.kyc = request[r].kyc
          /\ q.pc # "find"
    BY <1>8, FindMoves
  <2>3. q.pc \in {"find", "sync"} /\ q.kyc = "VERIFIED" => "active" \in seen[q.account]
    BY <2>2 DEF Known
  <2> QED BY <1>h, <2>1, <2>2, <2>3
<1>9. ASSUME NEW a \in Account, NEW s \in Standing, Examine(a, s) PROVE Known'
  <2>1. \A b \in Account : seen[b] \subseteq seen'[b]
    BY <1>9 DEF Examine, TypeOK
  <2>2. \A r \in Request : request[r].pc \in {"find", "sync"} => request[r].account \in Account
    BY Shapes
  <2>3. \A b \in Account : /\ standing'[b] = "free" => seen'[b] = {}
                           /\ standing'[b] \in Standing => standing'[b] \in seen'[b]
    BY <1>9 DEF Examine, TypeOK, Known, Standing
  <2> QED BY <1>9, <2>1, <2>2, <2>3 DEF Examine, Known
<1>10. ASSUME NEW a \in Account, Deauthorize(a) PROVE Known'
  BY <1>10 DEF Deauthorize, Known, TypeOK, Standing
<1> QED BY <1>1, <1>2, <1>3, <1>4, <1>5, <1>6, <1>7, <1>8, <1>9, <1>10 DEF Next, Become, SetRole

LEMMA KnownInit == Init => Known
  BY DEF Init, Known, Standing

(* TypeCorrect: the rows, the accounts and the requests are well-formed     *)
(* (ArtistsService).                                                        *)
THEOREM TypeCorrect == Spec => []TypeOK
  BY TypeInit, TypeStep, KnownInit, KnownStep, PTL DEF Spec

-----------------------------------------------------------------------------
(* What a row that holds an account says of it.                             *)
Earned == account # NoAccount /\ "active" \in seen[account]

LEMMA VerifiedStep == TypeOK /\ VerifiedIsArtist /\ [Next]_vars => VerifiedIsArtist'
<1> SUFFICES ASSUME TypeOK, VerifiedIsArtist, [Next]_vars PROVE VerifiedIsArtist'
  OBVIOUS
<1>1. ASSUME UNCHANGED <<role, kyc, demoted>> PROVE VerifiedIsArtist'
  BY <1>1 DEF VerifiedIsArtist
<1>2. CASE Become
  BY <1>2 DEF Become, VerifiedIsArtist
<1>3. ASSUME NEW r \in Request, Sync(r) PROVE VerifiedIsArtist'
  <2>1. CASE request[r].kyc = "VERIFIED"
    BY <1>3, <2>1 DEF Sync, TypeOK, VerifiedIsArtist
  <2>2. CASE request[r].kyc # "VERIFIED"
    BY <1>3, <2>2 DEF Sync, VerifiedIsArtist
  <2> QED BY <2>1, <2>2
<1>4. ASSUME NEW r \in Request, Revoke(r) PROVE VerifiedIsArtist'
  BY <1>4 DEF Revoke, VerifiedIsArtist
<1>5. ASSUME NEW new \in {"LISTENER", "ARTIST"}, SetRole(new) PROVE VerifiedIsArtist'
  BY <1>5 DEF SetRole, VerifiedIsArtist
<1> QED BY <1>1, <1>2, <1>3, <1>4, <1>5
        DEF Next, Onboard, CreateAccount, StoreAccount, AccountUpdated, AccountUpdatedV2, Retrieve,
            Find, Deauthorized, Crash, Examine, Deauthorize

LEMMA LinkedStep == TypeOK /\ LinkedIsKept /\ [Next]_vars => LinkedIsKept'
<1> SUFFICES ASSUME TypeOK, LinkedIsKept, [Next]_vars PROVE LinkedIsKept'
  OBVIOUS
<1>1. ASSUME UNCHANGED <<account, linked, stale>> PROVE LinkedIsKept'
  BY <1>1 DEF LinkedIsKept
<1>2. ASSUME NEW r \in Request, Onboard(r) PROVE LinkedIsKept'
  BY <1>2 DEF Onboard, LinkedIsKept
(* Without an account no link was answered for one: the one stored is the   *)
(* first.                                                                   *)
<1>3. ASSUME NEW r \in Request, StoreAccount(r) PROVE LinkedIsKept'
  <2>1. ~stale' => linked = {}
    BY <1>3 DEF StoreAccount, LinkedIsKept, TypeOK
  <2> QED BY <1>3, <2>1 DEF StoreAccount, LinkedIsKept
<1>4. ASSUME NEW r \in Request, Sync(r) PROVE LinkedIsKept'
  BY <1>4 DEF Sync, LinkedIsKept
<1>5. ASSUME NEW r \in Request, Revoke(r) PROVE LinkedIsKept'
  BY <1>5 DEF Revoke, LinkedIsKept
<1> QED BY <1>1, <1>2, <1>3, <1>4, <1>5
        DEF Next, Become, CreateAccount, AccountUpdated, AccountUpdatedV2, Retrieve, Find,
            Deauthorized, SetRole, Crash, Examine, Deauthorize

LEMMA EarnedStep == TypeOK /\ Known /\ RoleIsEarned /\ [Next]_vars => RoleIsEarned'
<1> SUFFICES ASSUME TypeOK, Known, RoleIsEarned, [Next]_vars PROVE RoleIsEarned'
  OBVIOUS
(* An account keeps what it was seen as.                                    *)
<1>0. ASSUME UNCHANGED <<role, account, kyc, granted, stale>>,
             \A a \in Account : "active" \in seen[a] => "active" \in seen'[a]
      PROVE  RoleIsEarned'
  BY <1>0 DEF RoleIsEarned, TypeOK
<1>1. ASSUME UNCHANGED <<role, account, kyc, granted, stale, seen>> PROVE RoleIsEarned'
  BY <1>0, <1>1
<1>2. CASE Become
  BY <1>2 DEF Become, RoleIsEarned, stripe, history
<1>3. ASSUME NEW r \in Request, NEW a \in Account, CreateAccount(r, a) PROVE RoleIsEarned'
  <2>1. \A b \in Account : "active" \in seen[b] => "active" \in seen'[b]
    BY <1>3 DEF CreateAccount, Known, TypeOK
  <2> QED BY <1>0, <1>3, <2>1 DEF CreateAccount
(* Nothing was earned without an account, so nothing is lost with it.       *)
<1>4. ASSUME NEW r \in Request, StoreAccount(r) PROVE RoleIsEarned'
  BY <1>4 DEF StoreAccount, RoleIsEarned
<1>5. ASSUME NEW r \in Request, Sync(r) PROVE RoleIsEarned'
  <2>1. request[r].account \in Account
    BY <1>5, Shapes DEF Sync
  <2>2. ~stale' /\ request[r].kyc = "VERIFIED" => Earned
    BY <1>5, <2>1 DEF Sync, Known, Earned
  <2> QED BY <1>5, <2>2 DEF Sync, RoleIsEarned, Earned
<1>6. ASSUME NEW r \in Request, Revoke(r) PROVE RoleIsEarned'
  BY <1>6 DEF Revoke, RoleIsEarned
<1>7. ASSUME NEW new \in {"LISTENER", "ARTIST"}, SetRole(new) PROVE RoleIsEarned'
  BY <1>7 DEF SetRole, RoleIsEarned
<1>8. ASSUME NEW a \in Account, NEW s \in Standing, Examine(a, s) PROVE RoleIsEarned'
  <2>1. \A b \in Account : "active" \in seen[b] => "active" \in seen'[b]
    BY <1>8 DEF Examine, TypeOK
  <2> QED BY <1>0, <1>8, <2>1 DEF Examine
<1> QED BY <1>1, <1>2, <1>3, <1>4, <1>5, <1>6, <1>7, <1>8
        DEF Next, Onboard, AccountUpdated, AccountUpdatedV2, Retrieve, Find, Deauthorized, Crash,
            Deauthorize

(* VerifiedKept: VERIFIED comes with the right to publish (applyKycSync,    *)
(* handleConnectDeauthorized, updateForAdmin).                              *)
THEOREM VerifiedKept == Spec => []VerifiedIsArtist
<1>1. Init => VerifiedIsArtist
  BY DEF Init, VerifiedIsArtist
<1> QED BY <1>1, TypeCorrect, VerifiedStep, PTL DEF Spec

(* LinkedKept: the user fills in the account the row holds, as long as no   *)
(* two handlers overlapped on the row (createOnboardingLink).               *)
THEOREM LinkedKept == Spec => []LinkedIsKept
<1>1. Init => LinkedIsKept
  BY DEF Init, LinkedIsKept
<1> QED BY <1>1, TypeCorrect, LinkedStep, PTL DEF Spec

(* EarnedKept: under the same condition the role rests on an account that   *)
(* has been active, whatever the order of the events (applyKycSync).        *)
THEOREM EarnedKept == Spec => []RoleIsEarned
<1>1. Init => RoleIsEarned
  BY DEF Init, RoleIsEarned
<1> QED BY <1>1, TypeInit, TypeStep, KnownInit, KnownStep, EarnedStep, PTL DEF Spec

=============================================================================
