----------------------------- MODULE ArtistKyc -----------------------------
(***************************************************************************)
(* One user on the way to being an artist: the users row's role, the       *)
(* artists row and its Stripe Connect accounts                             *)
(* (src/src/artists/artists.service.ts, and the Connect events of          *)
(* src/src/payments/payments.service.ts).                                  *)
(*                                                                         *)
(* Stripe delivers its events late, again and in any order.  A handler     *)
(* finds the artist by the account of the event, then writes the row it    *)
(* found in a transaction.  A transaction is one step: its first statement *)
(* locks the artists row.                                                  *)
(***************************************************************************)
EXTENDS Naturals, FiniteSets

CONSTANTS Account,    \* the accounts Stripe may create for the user
          NoAccount,  \* stripeAccountId is null
          Request,    \* requests and deliveries in flight at the same time
          MaxCrashes  \* bound: requests that die

ASSUME KycAssumption == NoAccount \notin Account /\ MaxCrashes \in Nat

VARIABLES
  role,     \* of the users row
  profile,  \* whether the artists row exists
  account,  \* its stripeAccountId
  kyc,      \* its kycStatus
  standing, \* of each account at Stripe
  seen,     \* the standings each account has had, and its events may tell
  request,
  crashes,
  linked,   \* accounts an onboarding link was answered for, until revoked
  \* History, read by the properties alone:
  granted,  \* the role ARTIST was given by an administrator
  demoted,  \* the role LISTENER was
  stale     \* a handler wrote a row whose account was not the one it had read

database == <<role, profile, account, kyc>>
stripe   == <<standing, seen>>
history  == <<granted, demoted, stale>>
vars     == <<database, stripe, request, crashes, linked, history>>

Standing == {"incomplete", "restricted", "active"}
Kyc      == {"PENDING", "RESTRICTED", "VERIFIED"}

(* A request, by the await it stands at: an onboarding that has found no    *)
(* account or has just created one, an event about to be retrieved, looked  *)
(* up or applied.                                                           *)
Idle == [pc |-> "idle"]
RequestState ==
  {Idle, [pc |-> "create"]}
  \cup [pc: {"store", "retrieve", "findRevoked", "revoke"}, account: Account]
  \cup [pc: {"find", "sync"}, account: Account, kyc: Kyc]

At(r, pc) == request[r].pc = pc
Goto(r, q) == request' = [request EXCEPT ![r] = q]

Init ==
  /\ role \in {"LISTENER", "ADMIN"} /\ profile = FALSE
  /\ account = NoAccount /\ kyc = "PENDING"
  /\ standing = [a \in Account |-> "free"] /\ seen = [a \in Account |-> {}]
  /\ request = [r \in Request |-> Idle] /\ crashes = 0
  /\ linked = {} /\ granted = FALSE /\ demoted = FALSE /\ stale = FALSE

-----------------------------------------------------------------------------
(* The user: become, and the onboarding link.                               *)

(* A second profile is refused, by the check or by the unique userId.       *)
Become ==
  /\ ~profile
  /\ profile' = TRUE /\ kyc' = "PENDING"
  /\ UNCHANGED <<role, account, stripe, request, crashes, linked, history>>

(* Bound: no onboarding waits for an account Stripe does not have.          *)
Room == Cardinality({r \in Request : At(r, "create")})
          < Cardinality({a \in Account : standing[a] = "free"})

(* createOnboardingLink: with an account, a link for it is all that is left.*)
Onboard(r) ==
  /\ At(r, "idle") /\ profile
  /\ IF account = NoAccount
     THEN Room /\ Goto(r, [pc |-> "create"]) /\ UNCHANGED linked
     ELSE linked' = linked \cup {account} /\ UNCHANGED request
  /\ UNCHANGED <<database, stripe, crashes, history>>

CreateAccount(r, a) ==
  /\ At(r, "create") /\ standing[a] = "free"
  /\ standing' = [standing EXCEPT ![a] = "incomplete"]
  /\ seen' = [seen EXCEPT ![a] = {"incomplete"}]
  /\ Goto(r, [pc |-> "store", account |-> a])
  /\ UNCHANGED <<database, crashes, linked, history>>

(* Mutant: the new account is linked and never stored.                      *)
StoreNothing(r) ==
  /\ At(r, "store")
  /\ linked' = linked \cup {request[r].account}
  /\ stale' = (stale \/ account # NoAccount)
  /\ Goto(r, Idle)
  /\ UNCHANGED <<database, stripe, crashes, granted, demoted>>

(* The update that follows writes the row whatever account it has by now.   *)
StoreAccount(r) ==
  /\ At(r, "store")
  /\ account' = request[r].account
  /\ linked' = linked \cup {request[r].account}
  /\ stale' = (stale \/ account # NoAccount)
  /\ Goto(r, Idle)
  /\ UNCHANGED <<role, profile, kyc, stripe, crashes, granted, demoted>>

-----------------------------------------------------------------------------
(* The webhooks.                                                            *)

(* Mutant: Stripe's word for the standing is stored as it comes.            *)
KycStatusRaw(s) == s

(* Mutant: submitted details are enough.                                    *)
KycStatusSubmitted(s) == IF s = "incomplete" THEN "PENDING" ELSE "VERIFIED"

(* applyKycSync's verdict on an account.                                    *)
KycStatus(s) ==
  IF s = "active" THEN "VERIFIED" ELSE IF s = "restricted" THEN "RESTRICTED" ELSE "PENDING"

(* account.updated carries the account as it was when the event was made.   *)
AccountUpdated(r, a, s) ==
  /\ At(r, "idle") /\ s \in seen[a]
  /\ Goto(r, [pc |-> "find", account |-> a, kyc |-> KycStatus(s)])
  /\ UNCHANGED <<database, stripe, crashes, linked, history>>

(* v2.core.account.updated carries its id alone.                            *)
AccountUpdatedV2(r, a) ==
  /\ At(r, "idle") /\ seen[a] # {}
  /\ Goto(r, [pc |-> "retrieve", account |-> a])
  /\ UNCHANGED <<database, stripe, crashes, linked, history>>

(* syncStripeAccountById; a revoked account cannot be retrieved.  A recipient*)
(* account counts as submitted, if only by its configuration.               *)
Retrieve(r) ==
  /\ At(r, "retrieve")
  /\ LET a == request[r].account
     IN  IF standing[a] = "revoked"
         THEN Goto(r, Idle)
         ELSE \E status \in IF standing[a] = "active" THEN {"VERIFIED"} ELSE {"RESTRICTED", "PENDING"} :
                Goto(r, [pc |-> "find", account |-> a, kyc |-> status])
  /\ UNCHANGED <<database, stripe, crashes, linked, history>>

(* The artist is looked up by account; an account nobody has is ignored.    *)
Find(r) ==
  /\ request[r].pc \in {"find", "findRevoked"}
  /\ IF account # request[r].account
     THEN Goto(r, Idle)
     ELSE Goto(r, [request[r] EXCEPT !.pc = IF @ = "find" THEN "sync" ELSE "revoke"])
  /\ UNCHANGED <<database, stripe, crashes, linked, history>>

(* Mutant: a RESTRICTED artist who is VERIFIED anew is not promoted.        *)
SyncOnce(r) ==
  /\ At(r, "sync")
  /\ kyc' = request[r].kyc
  /\ role' = IF request[r].kyc = "VERIFIED" /\ kyc = "PENDING" /\ role = "LISTENER"
             THEN "ARTIST" ELSE role
  /\ demoted' = (demoted /\ role' = "LISTENER")
  /\ stale' = (stale \/ account # request[r].account)
  /\ Goto(r, Idle)
  /\ UNCHANGED <<profile, account, stripe, crashes, linked, granted>>

(* applyKycSync's transaction.                                              *)
Sync(r) ==
  /\ At(r, "sync")
  /\ kyc' = request[r].kyc
  /\ role' = IF request[r].kyc = "VERIFIED" /\ role = "LISTENER" THEN "ARTIST" ELSE role
  /\ demoted' = (demoted /\ role' = "LISTENER")
  /\ stale' = (stale \/ account # request[r].account)
  /\ Goto(r, Idle)
  /\ UNCHANGED <<profile, account, stripe, crashes, linked, granted>>

Deauthorized(r, a) ==
  /\ At(r, "idle") /\ standing[a] = "revoked"
  /\ Goto(r, [pc |-> "findRevoked", account |-> a])
  /\ UNCHANGED <<database, stripe, crashes, linked, history>>

(* handleConnectDeauthorized's transaction.                                 *)
Revoke(r) ==
  /\ At(r, "revoke")
  /\ account' = NoAccount /\ kyc' = "PENDING"
  /\ role' = IF role = "ARTIST" THEN "LISTENER" ELSE role
  /\ granted' = FALSE
  /\ linked' = linked \ {request[r].account}
  /\ stale' = (stale \/ account # request[r].account)
  /\ Goto(r, Idle)
  /\ UNCHANGED <<profile, stripe, crashes, demoted>>

-----------------------------------------------------------------------------
(* updateForAdmin, as far as it writes the role.                            *)
SetRole(new) ==
  /\ role # "ADMIN" /\ new \in {"LISTENER", "ARTIST"}
  /\ role' = new
  /\ granted' = (new = "ARTIST") /\ demoted' = (new = "LISTENER")
  /\ UNCHANGED <<profile, account, kyc, stripe, request, crashes, linked, stale>>

(* Stripe examines an account the user was sent to, or the user takes it    *)
(* away from the platform.                                                  *)
Examine(a, s) ==
  /\ a \in linked /\ standing[a] \in Standing \ {s}
  /\ standing' = [standing EXCEPT ![a] = s]
  /\ seen' = [seen EXCEPT ![a] = @ \cup {s}]
  /\ UNCHANGED <<database, request, crashes, linked, history>>

Deauthorize(a) ==
  /\ standing[a] \in Standing
  /\ standing' = [standing EXCEPT ![a] = "revoked"]
  /\ UNCHANGED <<database, seen, request, crashes, linked, history>>

Crash(r) ==
  /\ ~At(r, "idle") /\ crashes < MaxCrashes
  /\ crashes' = crashes + 1
  /\ Goto(r, Idle)
  /\ UNCHANGED <<database, stripe, linked, history>>

Next ==
  \/ Become
  \/ \E r \in Request :
       \/ Onboard(r) \/ StoreAccount(r) \/ Retrieve(r) \/ Find(r) \/ Sync(r) \/ Revoke(r) \/ Crash(r)
       \/ \E a \in Account :
            \/ CreateAccount(r, a) \/ AccountUpdatedV2(r, a) \/ Deauthorized(r, a)
            \/ \E s \in Standing : AccountUpdated(r, a, s)
  \/ \E new \in {"LISTENER", "ARTIST"} : SetRole(new)
  \/ \E a \in Account : Deauthorize(a) \/ \E s \in Standing : Examine(a, s)

Spec == Init /\ [][Next]_vars

-----------------------------------------------------------------------------
TypeOK ==
  /\ role \in {"LISTENER", "ARTIST", "ADMIN"} /\ profile \in BOOLEAN
  /\ account \in Account \cup {NoAccount} /\ kyc \in Kyc
  /\ standing \in [Account -> Standing \cup {"free", "revoked"}]
  /\ seen \in [Account -> SUBSET Standing]
  /\ request \in [Request -> RequestState] /\ crashes \in 0 .. MaxCrashes
  /\ linked \subseteq Account
  /\ granted \in BOOLEAN /\ demoted \in BOOLEAN /\ stale \in BOOLEAN

(* VerifiedIsArtist: whoever is VERIFIED may publish, unless an             *)
(* administrator took the role away since.                                  *)
VerifiedIsArtist ==
  kyc = "VERIFIED" => role \in {"ARTIST", "ADMIN"} \/ demoted

(* RoleIsEarned: VERIFIED and the role ARTIST rest on the account of the    *)
(* row having been active, whatever events come late or twice and whatever  *)
(* accounts were revoked before, as long as no handler wrote a row that had *)
(* changed since it read it.                                                *)
RoleIsEarned ==
  ~stale =>
    /\ kyc = "VERIFIED" => account # NoAccount /\ "active" \in seen[account]
    /\ role = "ARTIST" => granted \/ (account # NoAccount /\ "active" \in seen[account])

(* LinkedIsKept: the account a user was sent to is the one of the row,      *)
(* under the same condition.                                                *)
LinkedIsKept == ~stale => linked \subseteq {account}

=============================================================================
