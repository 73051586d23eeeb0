---------------------------- MODULE AccountsProofs ----------------------------
(***************************************************************************)
(* What registrations, links and renamings keep for any accounts, names,   *)
(* links and requests.                                                     *)
(***************************************************************************)
EXTENDS Accounts, TLAPS

USE AccountsAssumption DEF AccountsAssumption, vars, history, At

LEMMA Shapes ==
  ASSUME TypeOK, NEW r \in Request
  PROVE  LET q == request[r]
         IN  /\ q \in RequestState
             /\ q.pc \in {"findUsername", "create"} => q \in Registering
             /\ q.pc \in {"purgeEmail", "purgeUsername"} => q \in Replacing
             /\ q.pc = "purge" => q \in Purging
             /\ q.pc = "sendLink" => q \in Sending
             /\ q.pc \in {"findUser", "apply", "dropLink"} => q \in Following
             /\ q.pc \in {"findTaken", "findArtist", "updateArtist", "updateUser"} => q \in Renaming
<1>1. request[r] \in RequestState
  BY DEF TypeOK
<1> QED BY <1>1 DEF RequestState, Idle, Registering, Replacing, Purging, Sending, Following,
                    Renaming

(* What becomes of the requests in one step of one of them.                 *)
Only(r) == \A o \in Request \ {r} : request'[o] = request[o]
Typed   == request' \in [Request -> RequestState]

LEMMA Becomes ==
  ASSUME TypeOK, NEW r \in Request, NEW q \in RequestState, Become(r, q)
  PROVE  Typed /\ Only(r) /\ request'[r] = q
  BY DEF TypeOK, Become, Typed, Only

LEMMA Begins ==
  ASSUME TypeOK, NEW r \in Request, NEW q \in RequestState, Begin(r, q)
  PROVE  Typed /\ Only(r) /\ request'[r] = q /\ request[r].pc = "idle"
  BY Becomes DEF Begin

LEMMA Ends ==
  ASSUME TypeOK, NEW r \in Request, Answered(r)
  PROVE  Typed /\ Only(r) /\ request'[r] = Idle
  BY DEF TypeOK, Answered, Typed, Only, RequestState

LEMMA GoesOn ==
  ASSUME TypeOK, NEW r \in Request, NEW pc, Goto(r, pc), [request[r] EXCEPT !.pc = pc] \in RequestState
  PROVE  Typed /\ Only(r) /\ request'[r] = [request[r] EXCEPT !.pc = pc]
<1> DEFINE q == [request[r] EXCEPT !.pc = pc]
<1>1. request' = [request EXCEPT ![r] = q]
  BY DEF Goto
<1> HIDE DEF q
<1> QED BY <1>1, Becomes DEF Become, q

RowsOK ==
  /\ users \in [User -> Row \cup {NoRow}]
  /\ \A u, o \in Account : u # o =>
       users[u].email # users[o].email /\ users[u].username # users[o].username

(* A row of an account that stays, with its e-mail and username.            *)
LEMMA RowStays ==
  ASSUME TypeOK, NEW u \in Account, NEW row \in Row, users' = [users EXCEPT ![u] = row],
         row.email = users[u].email, row.username = users[u].username
  PROVE  RowsOK' /\ Account' \subseteq Account
<1>1. /\ users' \in [User -> Row \cup {NoRow}] /\ Account' \subseteq Account /\ u \in User
      /\ \A v \in Account' : users'[v].email = users[v].email /\ users'[v].username = users[v].username
  BY DEF TypeOK, Account
<1> QED BY <1>1 DEF TypeOK, RowsOK

LEMMA RowGoes ==
  ASSUME TypeOK, NEW u \in User, users' = [users EXCEPT ![u] = NoRow]
  PROVE  RowsOK' /\ Account' \subseteq Account
<1>1. /\ users' \in [User -> Row \cup {NoRow}]
      /\ \A v \in Account' : v \in Account /\ users'[v] = users[v]
  BY DEF TypeOK, Account
<1> QED BY <1>1 DEF TypeOK, RowsOK

-----------------------------------------------------------------------------
(* What each step makes of the request that takes it.                       *)
LEMMA Replacements ==
  ASSUME NEW e \in Email, NEW n \in Username, NEW u \in User, NEW pc \in {"purgeEmail", "purgeUsername"}
  PROVE  Replace(pc, e, n, u) \in Replacing
BY DEF Replace, Replacing

LEMMA AfterRegister ==
  ASSUME TypeOK, NEW r \in Request, NEW e \in Email, NEW n \in Username, Register(r, e, n)
  PROVE  /\ Typed /\ Only(r) /\ request[r].pc = "idle"
         /\ \/ request'[r] \in Registering
            \/ \E u \in Account : /\ Purgeable(u) /\ request'[r] \in Replacing
                                 /\ request'[r] = Replace("purgeEmail", e, n, u)
<1>1. CASE Begin(r, Claim("findUsername", e, n))
  <2>1. Claim("findUsername", e, n) \in Registering
    BY DEF Claim, Registering
  <2> QED BY <1>1, <2>1, Begins DEF RequestState
<1>2. ASSUME NEW u \in Account, Purgeable(u), Begin(r, Replace("purgeEmail", e, n, u))
      PROVE  /\ Typed /\ Only(r) /\ request[r].pc = "idle" /\ request'[r] \in Replacing
             /\ request'[r] = Replace("purgeEmail", e, n, u)
  <2>1. Replace("purgeEmail", e, n, u) \in Replacing
    BY Replacements DEF Account
  <2> QED BY <1>2, <2>1, Begins DEF RequestState
<1> QED BY <1>1, <1>2 DEF Register

LEMMA AfterFindUsername ==
  ASSUME TypeOK, NEW r \in Request, FindUsername(r)
  PROVE  LET q == request[r]
         IN  /\ Typed /\ Only(r) /\ q \in Registering
             /\ \/ request'[r] = Idle \/ request'[r] \in Registering
                \/ \E u \in Account : /\ Purgeable(u) /\ request'[r] \in Replacing
                                     /\ request'[r] = Replace("purgeUsername", q.email, q.username, u)
<1>1. request[r] \in Registering
  BY Shapes DEF FindUsername
<1>2. CASE Answered(r)
  BY <1>1, <1>2, Ends
<1>3. CASE Goto(r, "create")
  <2>1. [request[r] EXCEPT !.pc = "create"] \in Registering
    BY <1>1 DEF Registering
  <2> QED BY <1>1, <1>3, <2>1, GoesOn DEF RequestState
<1>4. PICK e \in Email, n \in Username : e = request[r].email /\ n = request[r].username
  BY <1>1 DEF Registering
<1>5. ASSUME NEW u \in Account, Purgeable(u), Become(r, Replace("purgeUsername", e, n, u))
      PROVE  /\ Typed /\ Only(r) /\ request'[r] \in Replacing
             /\ request'[r] = Replace("purgeUsername", e, n, u)
  <2>1. Replace("purgeUsername", e, n, u) \in Replacing
    BY Replacements DEF Account
  <2> QED BY <1>5, <2>1, Becomes DEF RequestState
<1> QED BY <1>1, <1>2, <1>3, <1>4, <1>5 DEF FindUsername

LEMMA AfterPurgeOwner ==
  ASSUME TypeOK, NEW r \in Request, PurgeOwner(r)
  PROVE  /\ Typed /\ Only(r) /\ request[r] \in Replacing
         /\ request'[r] = Idle \/ request'[r] \in Registering
<1>1. request[r] \in Replacing
  BY Shapes DEF PurgeOwner
<1>2. CASE Answered(r)
  BY <1>1, <1>2, Ends
<1>3. PICK e \in Email, n \in Username : e = request[r].email /\ n = request[r].username
  BY <1>1 DEF Replacing
<1>4. ASSUME NEW pc \in {"findUsername", "create"}, Become(r, Claim(pc, e, n))
      PROVE  Typed /\ Only(r) /\ request'[r] \in Registering
  <2>1. Claim(pc, e, n) \in Registering
    BY DEF Claim, Registering
  <2> QED BY <1>4, <2>1, Becomes DEF RequestState
<1> QED BY <1>1, <1>2, <1>3, <1>4 DEF PurgeOwner

LEMMA AfterCreateUser ==
  ASSUME TypeOK, NEW r \in Request, NEW u \in User, NEW artist \in BOOLEAN, CreateUser(r, u, artist)
  PROVE  /\ Typed /\ Only(r) /\ request[r] \in Registering
         /\ request'[r] = Idle \/ request'[r] \in Sending
<1>1. request[r] \in Registering
  BY Shapes DEF CreateUser
<1>2. CASE Answered(r)
  BY <1>1, <1>2, Ends
<1>3. CASE Become(r, [pc |-> "sendLink", link |-> [kind |-> "verify", user |-> u]])
  <2>1. [pc |-> "sendLink", link |-> [kind |-> "verify", user |-> u]] \in Sending
    BY DEF Sending, Link
  <2> QED BY <1>1, <1>3, <2>1, Becomes DEF RequestState
<1> QED BY <1>1, <1>2, <1>3 DEF CreateUser

LEMMA AfterSend ==
  ASSUME TypeOK, NEW r \in Request, NEW u \in Account,
         LoginUnverified(r, u) \/ ResendVerification(r, u) \/ ForgotPassword(r, u)
  PROVE  /\ Typed /\ Only(r) /\ request[r].pc = "idle"
         /\ request'[r] \in Sending \/ (request'[r] = [pc |-> "purge", user |-> u] /\ ~users[u].verified)
<1>1. /\ [pc |-> "purge", user |-> u] \in Purging
      /\ \A kind \in {"verify", "reset"} :
           [pc |-> "sendLink", link |-> [kind |-> kind, user |-> u]] \in Sending
  BY DEF Purging, Sending, Link, Account
<1>2. CASE LoginUnverified(r, u)
  BY <1>1, <1>2, Begins DEF LoginUnverified, RequestState
<1>3. CASE ResendVerification(r, u)
  BY <1>1, <1>3, Begins DEF ResendVerification, RequestState
<1>4. CASE ForgotPassword(r, u)
  BY <1>1, <1>4, Begins DEF ForgotPassword, RequestState
<1> QED BY <1>2, <1>3, <1>4

LEMMA AfterFollowLink ==
  ASSUME TypeOK, NEW r \in Request, NEW t \in Token, FollowLink(r, t)
  PROVE  /\ Typed /\ Only(r) /\ request[r].pc = "idle" /\ link[t] \in Link
         /\ request'[r] = [pc |-> "findUser", token |-> t, link |-> link[t]]
         /\ request'[r] \in Following
<1>1. link[t] \in Link
  BY DEF FollowLink, TypeOK
<1>2. [pc |-> "findUser", token |-> t, link |-> link[t]] \in Following
  BY <1>1 DEF Following
<1> QED BY <1>1, <1>2, Begins DEF FollowLink, RequestState

(* A request that follows a link goes on with the same token.               *)
LEMMA AfterFollowing ==
  ASSUME TypeOK, NEW r \in Request, FindUser(r) \/ ConfirmEmail(r) \/ SetPassword(r) \/ DropLink(r)
  PROVE  /\ Typed /\ Only(r) /\ request[r] \in Following
         /\ \/ request'[r] = Idle
            \/ \E pc \in {"apply", "dropLink"} :
                 request'[r] = [request[r] EXCEPT !.pc = pc] /\ request'[r] \in Following
<1>1. request[r] \in Following
  BY Shapes DEF FindUser, ConfirmEmail, SetPassword, DropLink
<1>2. CASE Answered(r)
  BY <1>1, <1>2, Ends
<1>3. ASSUME NEW pc \in {"apply", "dropLink"}, Goto(r, pc)
      PROVE  Typed /\ Only(r) /\ request'[r] = [request[r] EXCEPT !.pc = pc] /\ request'[r] \in Following
  <2>1. [request[r] EXCEPT !.pc = pc] \in Following
    BY <1>1 DEF Following
  <2> QED BY <1>3, <2>1, GoesOn DEF RequestState
<1> QED BY <1>1, <1>2, <1>3 DEF FindUser, ConfirmEmail, SetPassword, DropLink

LEMMA AfterRename ==
  ASSUME TypeOK, NEW r \in Request, NEW u \in User, NEW n \in Username, Rename(r, u, n)
  PROVE  /\ Typed /\ Only(r) /\ request[r].pc = "idle" /\ request'[r] \in Renaming
         /\ request'[r] = [pc |-> "findTaken", user |-> u, username |-> n,
                           current |-> users[u].username]
<1>1. PICK c \in Username : c = users[u].username
  BY DEF Rename, TypeOK, Account, Row
<1>2. [pc |-> "findTaken", user |-> u, username |-> n, current |-> c] \in Renaming
  BY DEF Renaming
<1> QED BY <1>1, <1>2, Begins DEF Rename, RequestState

LEMMA AfterRenaming ==
  ASSUME TypeOK, NEW r \in Request, FindTaken(r) \/ FindArtist(r) \/ UpdateArtist(r) \/ UpdateUser(r)
  PROVE  /\ Typed /\ Only(r) /\ request[r] \in Renaming
         /\ \/ request'[r] = Idle
            \/ \E pc \in {"findArtist", "updateArtist", "updateUser"} :
                 request'[r] = [request[r] EXCEPT !.pc = pc] /\ request'[r] \in Renaming
<1>1. request[r] \in Renaming
  BY Shapes DEF FindTaken, FindArtist, UpdateArtist, UpdateUser
<1>2. CASE Answered(r)
  BY <1>1, <1>2, Ends
<1>3. ASSUME NEW pc \in {"findArtist", "updateArtist", "updateUser"}, Goto(r, pc)
      PROVE  Typed /\ Only(r) /\ request'[r] = [request[r] EXCEPT !.pc = pc] /\ request'[r] \in Renaming
  <2>1. [request[r] EXCEPT !.pc = pc] \in Renaming
    BY <1>1 DEF Renaming
  <2> QED BY <1>3, <2>1, GoesOn DEF RequestState
<1> QED BY <1>1, <1>2, <1>3 DEF FindTaken, FindArtist, UpdateArtist, UpdateUser

-----------------------------------------------------------------------------
(* The rows after each step that writes one.                                *)
LEMMA RowsAfterCreate ==
  ASSUME TypeOK, NEW r \in Request, NEW u \in User, NEW artist \in BOOLEAN, CreateUser(r, u, artist)
  PROVE  RowsOK' /\ Account' \cap fresh' = {}
<1> DEFINE q == request[r]
           row == [email |-> q.email, username |-> q.username, verified |-> FALSE,
                   expired |-> FALSE, artist |-> IF artist THEN q.username ELSE NoArtist,
                   due |-> Follows]
<1>1. q \in Registering
  BY Shapes DEF CreateUser
<1>2. CASE users' = users /\ fresh' = fresh
  BY <1>2 DEF TypeOK, RowsOK, Account
<1>3. CASE /\ users' = [users EXCEPT ![u] = row] /\ fresh' = fresh \ {u}
           /\ ~ \E o \in Account : users[o].email = q.email \/ users[o].username = q.username
  <2>1. row \in Row /\ row.email = q.email /\ row.username = q.username
    BY <1>1 DEF Row, Registering
  <2> HIDE DEF row
  <2>2. /\ users' \in [User -> Row \cup {NoRow}] /\ users'[u] = row /\ Account' \subseteq Account \cup {u}
        /\ \A v \in Account' \ {u} : v \in Account /\ users'[v] = users[v]
    BY <1>3, <2>1 DEF TypeOK, Account
  <2>3. Account' \cap fresh' = {}
    BY <1>3, <2>2 DEF TypeOK
  <2>4. \A v, o \in Account' : v # o =>
          users'[v].email # users'[o].email /\ users'[v].username # users'[o].username
    BY <1>3, <2>1, <2>2 DEF TypeOK
  <2> QED BY <2>2, <2>3, <2>4 DEF RowsOK
<1> QED BY <1>2, <1>3 DEF CreateUser

LEMMA RowsAfterPurge ==
  ASSUME TypeOK, NEW r \in Request, PurgeOwner(r) \/ Purge(r)
  PROVE  RowsOK' /\ Account' \subseteq Account
<1>1. CASE users' = users
  BY <1>1 DEF TypeOK, RowsOK, Account
<1>2. ASSUME NEW u \in Account, users' = [users EXCEPT ![u] = NoRow]
      PROVE  RowsOK' /\ Account' \subseteq Account
  BY <1>2, RowGoes DEF Account
<1> QED BY <1>1, <1>2 DEF PurgeOwner, Purge

(* Steps that set one mark of a row, or none.                               *)
LEMMA RowsMarked ==
  ASSUME TypeOK, NEW u \in User, NEW b \in BOOLEAN, NEW c \in BOOLEAN,
         \/ users' = users
         \/ /\ u \in Account
            /\ \/ users' = [users EXCEPT ![u].expired = b]
               \/ users' = [users EXCEPT ![u].verified = b, ![u].expired = c]
  PROVE  RowsOK' /\ Account' \subseteq Account
<1>1. CASE users' = users
  BY <1>1 DEF TypeOK, RowsOK, Account
<1>2. CASE u \in Account /\ users' = [users EXCEPT ![u].expired = b]
  <2>1. PICK row : row = [users[u] EXCEPT !.expired = b]
    OBVIOUS
  <2>2. row \in Row /\ row.email = users[u].email /\ row.username = users[u].username
    BY <1>2, <2>1 DEF TypeOK, Account, Row
  <2> QED BY <1>2, <2>1, <2>2, RowStays
<1>3. CASE u \in Account /\ users' = [users EXCEPT ![u].verified = b, ![u].expired = c]
  <2>1. PICK row : row = [users[u] EXCEPT !.verified = b, !.expired = c]
    OBVIOUS
  <2>2. row \in Row /\ row.email = users[u].email /\ row.username = users[u].username
    <3>1. users[u] \in Row
      BY <1>3 DEF TypeOK, Account
    <3> QED BY <2>1, <3>1 DEF Row
  <2>3. users' = [users EXCEPT ![u] = row]
    BY <1>3, <2>1 DEF TypeOK, Account
  <2> QED BY <1>3, <2>2, <2>3, RowStays
<1> QED BY <1>1, <1>2, <1>3

(* Steps that give an artist a name, or change the name it is due.          *)
LEMMA RowsDue ==
  ASSUME TypeOK, NEW u \in Account, NEW d \in Name \cup {Follows, Unclear}, NEW n \in Name,
         \/ users' = [users EXCEPT ![u].due = d]
         \/ users' = [users EXCEPT ![u].artist = n, ![u].due = d]
  PROVE  RowsOK' /\ Account' \subseteq Account
<1>1. users[u] \in Row
  BY DEF TypeOK, Account
<1>2. CASE users' = [users EXCEPT ![u].due = d]
  <2>1. PICK row : row = [users[u] EXCEPT !.due = d]
    OBVIOUS
  <2>2. row \in Row /\ row.email = users[u].email /\ row.username = users[u].username
    BY <1>1, <2>1 DEF Row
  <2> QED BY <1>2, <2>1, <2>2, RowStays
<1>3. CASE users' = [users EXCEPT ![u].artist = n, ![u].due = d]
  <2>1. PICK row : row = [users[u] EXCEPT !.artist = n, !.due = d]
    OBVIOUS
  <2>2. row \in Row /\ row.email = users[u].email /\ row.username = users[u].username
    BY <1>1, <2>1 DEF Row
  <2>3. users' = [users EXCEPT ![u] = row]
    BY <1>3, <2>1 DEF TypeOK, Account
  <2> QED BY <2>2, <2>3, RowStays
<1> QED BY <1>2, <1>3

LEMMA RowsTorn ==
  ASSUME TypeOK, NEW u, users' = Torn(u)
  PROVE  RowsOK' /\ Account' \subseteq Account
<1>1. CASE users' = users
  BY <1>1 DEF TypeOK, RowsOK, Account
<1>2. CASE u \in Account /\ users' = [users EXCEPT ![u].due = Unclear]
  <2>1. PICK row : row = [users[u] EXCEPT !.due = Unclear]
    OBVIOUS
  <2>2. row \in Row /\ row.email = users[u].email /\ row.username = users[u].username
    BY <1>2, <2>1 DEF TypeOK, Account, Row
  <2> QED BY <1>2, <2>1, <2>2, RowStays
<1> QED BY <1>1, <1>2 DEF Torn

LEMMA RowsAfterUpdateUser ==
  ASSUME TypeOK, NEW r \in Request, UpdateUser(r)
  PROVE  RowsOK' /\ Account' \subseteq Account
<1> DEFINE u == request[r].user  n == request[r].username
<1>1. u \in User /\ n \in Username
  BY Shapes DEF UpdateUser, Renaming
<1>2. CASE users' = Torn(u)
  BY <1>2, RowsTorn
<1>3. CASE /\ u \in Account /\ \A o \in Account \ {u} : users[o].username # n
           /\ users' = [users EXCEPT ![u].username = n]
  <2>1. PICK row : row = [users[u] EXCEPT !.username = n]
    OBVIOUS
  <2>2. row \in Row /\ row.email = users[u].email /\ row.username = n
    BY <1>1, <1>3, <2>1 DEF TypeOK, Account, Row
  <2>3. /\ users' \in [User -> Row \cup {NoRow}] /\ users'[u] = row /\ Account' \subseteq Account
        /\ \A v \in Account' \ {u} : users'[v] = users[v]
    BY <1>1, <1>3, <2>1, <2>2 DEF TypeOK, Account
  <2> QED BY <1>3, <2>2, <2>3 DEF TypeOK, RowsOK
<1> QED BY <1>2, <1>3 DEF UpdateUser

-----------------------------------------------------------------------------
LEMMA TypeInit == Init => TypeOK
<1> SUFFICES ASSUME Init PROVE TypeOK
  OBVIOUS
<1>1. Account = {} /\ users \in [User -> Row \cup {NoRow}]
  BY DEF Init, Account
<1>2. link \in [Token -> Link \cup {NoLink}] /\ request \in [Request -> RequestState]
  BY DEF Init, RequestState
<1> QED BY <1>1, <1>2 DEF Init, TypeOK, Uses

(* Links and their history, as every step leaves them.                      *)
LinksOK ==
  /\ link \in [Token -> Link \cup {NoLink}]
  /\ uses \in [Token -> Uses]

(* All of TypeOK but the type of raced.                                     *)
KindsOK ==
  /\ RowsOK /\ LinksOK /\ fresh \subseteq User \cup Token /\ Account \cap fresh = {}
  /\ request \in [Request -> RequestState]

LEMMA TypesKept ==
  ASSUME TypeOK, Typed, RowsOK', Account' \subseteq Account, fresh' \subseteq fresh, LinksOK'
  PROVE  KindsOK'
  BY DEF TypeOK, KindsOK, Typed

LEMMA RacedTyped == ASSUME TypeOK, [Next]_vars PROVE raced' \subseteq Request
<1>1. raced \subseteq Request
  BY DEF TypeOK
<1>2. ASSUME NEW r \in Request, Arrive(r) PROVE raced' = raced
  BY <1>2 DEF Arrive, Register, FollowLink, LoginUnverified, ResendVerification, ForgotPassword, Rename
<1>3. ASSUME NEW r \in Request, ConfirmEmail(r) \/ PurgeOwner(r) \/ Purge(r) \/ Fail(r)
      PROVE  raced' \subseteq Request
  BY <1>1, <1>3 DEF ConfirmEmail, PurgesOf, PurgeOwner, Purge, Fail
<1>4. ASSUME NEW r \in Request, Step(r) PROVE raced' \subseteq Request
  BY <1>1, <1>3, <1>4 DEF Step, FindUsername, FindUser, SetPassword, DropLink, FindTaken, FindArtist,
                          UpdateArtist, UpdateUser, CreateUser, SendLink
<1> QED BY <1>1, <1>2, <1>3, <1>4 DEF Next, NameArtist, Expire, Remove, LinkExpires

LEMMA RowsSame == ASSUME TypeOK, users' = users PROVE RowsOK' /\ Account' = Account
  BY DEF TypeOK, RowsOK, Account

LEMMA LinksSame == ASSUME TypeOK, link' = link, uses' = uses PROVE LinksOK'
  BY DEF TypeOK, LinksOK

(* The requests that go on with their links or rows alone.                  *)
LEMMA TypeArrive == ASSUME TypeOK, NEW r \in Request, Arrive(r) PROVE KindsOK'
<1>1. ASSUME NEW e \in Email, NEW n \in Username, Register(r, e, n) PROVE KindsOK'
  BY <1>1, AfterRegister, RowsSame, LinksSame, TypesKept DEF Register
<1>2. ASSUME NEW t \in Token, FollowLink(r, t) PROVE KindsOK'
  <2>1. LinksOK'
    BY <1>2 DEF FollowLink, TypeOK, LinksOK, Uses
  <2> QED BY <1>2, <2>1, AfterFollowLink, RowsSame, TypesKept DEF FollowLink
<1>3. ASSUME NEW u \in User, LoginUnverified(r, u) \/ ResendVerification(r, u) \/ ForgotPassword(r, u)
      PROVE  KindsOK'
  <2>1. u \in Account /\ UNCHANGED <<users, fresh, link, history>>
    BY <1>3 DEF LoginUnverified, ResendVerification, ForgotPassword
  <2> QED BY <1>3, <2>1, AfterSend, RowsSame, LinksSame, TypesKept
<1>4. ASSUME NEW u \in User, NEW n \in Username, Rename(r, u, n) PROVE KindsOK'
  <2>1. u \in Account /\ users[u].due \in Name \cup {Follows, Unclear}
    BY <1>4 DEF Rename, TypeOK, Account, Row
  <2>2. PICK d \in Name \cup {Follows, Unclear} : d = IF Renamers(u) = {} THEN users[u].due ELSE Unclear
    BY <2>1
  <2>3. users' = [users EXCEPT ![u].due = d]
    BY <1>4, <2>1, <2>2 DEF Rename
  <2>4. n \in Name
    OBVIOUS
  <2>5. RowsOK' /\ Account' \subseteq Account
    BY <2>1, <2>3, <2>4, RowsDue
  <2> QED BY <1>4, <2>5, AfterRename, LinksSame, TypesKept DEF Rename
<1> QED BY <1>1, <1>2, <1>3, <1>4 DEF Arrive

LEMMA TypeSteps == ASSUME TypeOK, NEW r \in Request, Step(r) PROVE KindsOK'
<1>1. CASE FindUsername(r)
  BY <1>1, AfterFindUsername, RowsSame, LinksSame, TypesKept DEF FindUsername
<1>2. CASE PurgeOwner(r)
  BY <1>2, AfterPurgeOwner, RowsAfterPurge, LinksSame, TypesKept DEF PurgeOwner
<1>3. CASE Purge(r)
  BY <1>3, Ends, RowsAfterPurge, LinksSame, TypesKept DEF Purge
<1>4. CASE FindUser(r)
  BY <1>4, AfterFollowing, RowsSame, LinksSame, TypesKept DEF FindUser
<1>5. CASE ConfirmEmail(r)
  <2> DEFINE u == request[r].link.user
  <2>1. u \in User
    BY <1>5, AfterFollowing DEF Following, Link
  <2>2. CASE u \in Account
    <3>1. users[u].expired \in BOOLEAN
      BY <2>2 DEF TypeOK, Account, Row
    <3>2. PICK c \in BOOLEAN : c <=> users[u].expired /\ PurgesOf(u) # {}
      OBVIOUS
    <3>3. users' = [users EXCEPT ![u].verified = TRUE, ![u].expired = c]
      BY <1>5, <2>2, <3>1, <3>2 DEF ConfirmEmail
    <3>4. RowsOK' /\ Account' \subseteq Account
      BY <2>1, <2>2, <3>3, RowsMarked
    <3> QED BY <1>5, <3>4, AfterFollowing, LinksSame, TypesKept DEF ConfirmEmail
  <2>3. CASE u \notin Account
    BY <1>5, <2>3, AfterFollowing, RowsSame, LinksSame, TypesKept DEF ConfirmEmail
  <2> QED BY <2>2, <2>3
<1>6. CASE SetPassword(r)
  <2>1. request[r].token \in Token
    BY <1>6, AfterFollowing DEF Following
  <2>2. LinksOK'
    BY <1>6, <2>1 DEF SetPassword, UsedOnceMore, TypeOK, LinksOK, Uses
  <2> QED BY <1>6, <2>2, AfterFollowing, RowsSame, TypesKept DEF SetPassword
<1>7. CASE DropLink(r)
  <2>1. LinksOK'
    BY <1>7 DEF DropLink, TypeOK, LinksOK, Uses
  <2> QED BY <1>7, <2>1, AfterFollowing, RowsSame, TypesKept DEF DropLink
<1>8. CASE FindTaken(r) \/ FindArtist(r)
  BY <1>8, AfterRenaming, RowsSame, LinksSame, TypesKept DEF FindTaken, FindArtist
<1>9. CASE UpdateArtist(r)
  <2>1. RowsOK' /\ Account' \subseteq Account
    <3>1. PICK u \in User, n \in Name : u = request[r].user /\ n = request[r].username
      BY <1>9, AfterRenaming DEF Renaming
    <3>2. CASE u \in Account
      <4>1. PICK d \in Name \cup {Follows, Unclear} :
              d = IF users[u].artist = request[r].current /\ users[u].due # Unclear
                  THEN Follows ELSE users[u].due
        BY <3>2 DEF TypeOK, Account, Row
      <4>2. users' = [users EXCEPT ![u].artist = n, ![u].due = d]
        BY <1>9, <3>1, <3>2, <4>1 DEF UpdateArtist
      <4> QED BY <3>2, <4>2, RowsDue
    <3> QED BY <1>9, <3>1, <3>2, RowsSame DEF UpdateArtist
  <2> QED BY <1>9, <2>1, AfterRenaming, LinksSame, TypesKept DEF UpdateArtist
<1>10. CASE UpdateUser(r)
  BY <1>10, AfterRenaming, RowsAfterUpdateUser, LinksSame, TypesKept DEF UpdateUser
<1>11. ASSUME NEW u \in User, NEW artist \in BOOLEAN, CreateUser(r, u, artist) PROVE KindsOK'
  <2>1. fresh' \subseteq fresh /\ LinksOK'
    BY <1>11, LinksSame DEF CreateUser
  <2> QED BY <1>11, <2>1, AfterCreateUser, RowsAfterCreate DEF TypeOK, KindsOK, Typed
<1>12. ASSUME NEW t \in Token, SendLink(r, t) PROVE KindsOK'
  <2>1. request[r].link \in Link
    BY <1>12, Shapes DEF SendLink, Sending
  <2>2. LinksOK' /\ fresh' \subseteq fresh
    BY <1>12, <2>1 DEF SendLink, TypeOK, LinksOK
  <2> QED BY <1>12, <2>2, Ends, RowsSame, TypesKept DEF SendLink
<1> QED BY <1>1, <1>2, <1>3, <1>4, <1>5, <1>6, <1>7, <1>8, <1>9, <1>10, <1>11, <1>12 DEF Step

LEMMA TypeStep == TypeOK /\ [Next]_vars => TypeOK'
<1> SUFFICES ASSUME TypeOK, [Next]_vars PROVE TypeOK'
  OBVIOUS
<1>1. ASSUME NEW r \in Request, Fail(r) PROVE KindsOK'
  <2>1. RowsOK' /\ Account' \subseteq Account
    BY <1>1, RowsTorn, RowsSame DEF Fail
  <2>2. LinksOK'
    BY <1>1 DEF Fail, TypeOK, LinksOK, Uses
  <2> QED BY <1>1, <2>1, <2>2, Ends, TypesKept DEF Fail
<1>2. ASSUME NEW u \in User, Expire(u) \/ Remove(u) \/ \E name \in Name : NameArtist(u, name)
      PROVE  KindsOK'
  <2>1. ASSUME NEW name \in Name, NameArtist(u, name) PROVE RowsOK' /\ Account' \subseteq Account
    <3>1. \E d \in Name \cup {Follows, Unclear} : users' = [users EXCEPT ![u].artist = name, ![u].due = d]
      BY <2>1 DEF NameArtist
    <3> QED BY <2>1, <3>1, RowsDue DEF NameArtist
  <2>2. RowsOK' /\ Account' \subseteq Account
    BY <1>2, <2>1, RowsMarked, RowGoes DEF Expire, Remove
  <2> QED BY <1>2, <2>2, LinksSame, TypesKept DEF NameArtist, Expire, Remove, Typed, TypeOK
<1>3. ASSUME NEW t \in Token, LinkExpires(t) PROVE KindsOK'
  <2>1. LinksOK'
    BY <1>3 DEF LinkExpires, TypeOK, LinksOK, Uses
  <2> QED BY <1>3, <2>1, RowsSame, TypesKept DEF LinkExpires, Typed, TypeOK
<1>4. CASE UNCHANGED vars
  BY <1>4 DEF TypeOK, Account
<1>5. CASE KindsOK'
  BY <1>5, RacedTyped DEF TypeOK, KindsOK, RowsOK, LinksOK
<1> QED BY <1>1, <1>2, <1>3, <1>4, <1>5, TypeArrive, TypeSteps DEF Next

(* TypeCorrect: the types of all state; e-mails and usernames are unique.   *)
THEOREM TypeCorrect == Spec => []TypeOK
  BY TypeInit, TypeStep, PTL DEF Spec

-----------------------------------------------------------------------------
(* Purges.  Whoever is about to delete a row read it as unconfirmed: it is  *)
(* old enough, and if it is confirmed by now, the request is marked for it. *)
Purges == {"purge", "purgeEmail", "purgeUsername"}

PurgeDue(r) ==
  LET q == request[r]
  IN  /\ q.user \notin fresh
      /\ q.user \in Account =>
           /\ q.pc # "purge" => users[q.user].expired
           /\ users[q.user].verified => r \in raced

PurgesDue == \A r \in Request : request[r].pc \in Purges => PurgeDue(r)

(* What time and other requests make of a row that somebody is to delete.   *)
Ages(u) ==
  /\ u \in Account
  /\ users[u].expired /\ PurgesOf(u) # {} => users'[u].expired
  /\ users'[u].verified => users[u].verified \/ PurgesOf(u) \subseteq raced'

LEMMA Unchanged ==
  ASSUME TypeOK, NEW u \in Account', users' = users
  PROVE  Ages(u)
  BY DEF Account, Ages

LEMMA Marked ==
  ASSUME TypeOK, NEW u \in Account', NEW v \in Account,
         \/ users' = [users EXCEPT ![v] = NoRow]
         \/ \E n, d : \/ users' = [users EXCEPT ![v].due = d]
                     \/ users' = [users EXCEPT ![v].artist = n, ![v].due = d]
                     \/ users' = [users EXCEPT ![v].username = n]
         \/ users' = [users EXCEPT ![v].expired = TRUE]
  PROVE  Ages(u)
<1>1. u \in User /\ v \in User /\ users \in [User -> Row \cup {NoRow}] /\ users[v] \in Row
  BY DEF TypeOK, Account
<1>2. u \in Account
  BY <1>1 DEF Account
<1>3. CASE u # v
  BY <1>1, <1>2, <1>3 DEF Ages
<1>4. CASE u = v
  <2>1. users'[v] # NoRow
    BY <1>4 DEF Account
  <2>2. /\ users[v].expired => users'[v].expired
        /\ users'[v].verified = users[v].verified
    <3> DEFINE Kept == /\ users[v].expired => users'[v].expired
                       /\ users'[v].verified = users[v].verified
    <3>1. ASSUME NEW n, NEW d, users' = [users EXCEPT ![v].artist = n, ![v].due = d] PROVE Kept
      BY <1>1, <3>1 DEF Row
    <3>2. ASSUME NEW n, \/ users' = [users EXCEPT ![v].due = n]
                        \/ users' = [users EXCEPT ![v].username = n]
          PROVE  Kept
      BY <1>1, <3>2 DEF Row
    <3>3. CASE users' = [users EXCEPT ![v].expired = TRUE]
      BY <1>1, <3>3 DEF Row
    <3>4. users' # [users EXCEPT ![v] = NoRow]
      BY <1>1, <2>1
    <3> QED BY <3>1, <3>2, <3>3, <3>4
  <2> QED BY <1>2, <1>4, <2>2 DEF Ages
<1> QED BY <1>3, <1>4

LEMMA RowsAge ==
  ASSUME TypeOK, [Next]_vars, NEW u \in Account', u \notin fresh
  PROVE  Ages(u)
<1>1. CASE users' = users
  BY <1>1, Unchanged
<1>2. ASSUME NEW r \in Request, ConfirmEmail(r) PROVE Ages(u)
  <2> DEFINE v == request[r].link.user
  <2>1. CASE v \in Account
    <3>1. v \in User /\ users \in [User -> Row \cup {NoRow}] /\ users[v] \in Row
      BY <2>1 DEF TypeOK, Account
    <3>2. PICK c : c = (users[v].expired /\ PurgesOf(v) # {})
      OBVIOUS
    <3>3. /\ users' = [users EXCEPT ![v].verified = TRUE, ![v].expired = c]
          /\ raced' = raced \cup PurgesOf(v)
      BY <1>2, <2>1, <3>2 DEF ConfirmEmail
    <3>4. CASE u # v
      BY <3>1, <3>3, <3>4 DEF Ages, Account
    <3>5. CASE u = v
      <4>1. users'[v].expired = c
        BY <3>1, <3>3 DEF Row
      <4> QED BY <2>1, <3>2, <3>3, <3>5, <4>1 DEF Ages
    <3> QED BY <3>4, <3>5
  <2>2. CASE v \notin Account
    BY <1>2, <2>2, <1>1 DEF ConfirmEmail
  <2> QED BY <2>1, <2>2
<1>3. ASSUME NEW r \in Request, NEW v \in User, NEW artist \in BOOLEAN, CreateUser(r, v, artist)
      PROVE  Ages(u)
  <2>1. CASE users' = users
    BY <2>1, <1>1
  <2>2. CASE users' # users
    <3>1. v \in fresh /\ \E row : users' = [users EXCEPT ![v] = row]
      BY <1>3, <2>2 DEF CreateUser
    <3>2. users'[u] = users[u]
      BY <3>1 DEF TypeOK, Account
    <3> QED BY <3>2 DEF Ages, Account
  <2> QED BY <2>1, <2>2
<1>4. ASSUME NEW r \in Request, PurgeOwner(r) \/ Purge(r) PROVE Ages(u)
  BY <1>4, <1>1, Marked DEF PurgeOwner, Purge
<1>5. ASSUME NEW r \in Request, NEW v \in User, NEW n \in Username, Rename(r, v, n) PROVE Ages(u)
  BY <1>5, Marked DEF Rename
<1>6. ASSUME NEW r \in Request, UpdateArtist(r) \/ UpdateUser(r) \/ Fail(r) PROVE Ages(u)
  <2>1. ASSUME NEW v, users' = Torn(v) PROVE Ages(u)
    BY <2>1, <1>1, Marked DEF Torn
  <2> QED BY <1>6, <2>1, <1>1, Marked DEF UpdateArtist, UpdateUser, Fail
<1>7. ASSUME NEW v \in User, Expire(v) \/ Remove(v) \/ \E name \in Name : NameArtist(v, name)
      PROVE  Ages(u)
  BY <1>7, Marked DEF NameArtist, Expire, Remove
<1>8. CASE Next
  <2>1. ASSUME NEW r \in Request, Arrive(r) PROVE Ages(u)
    BY <2>1, <1>1, <1>5 DEF Arrive, Register, FollowLink, LoginUnverified, ResendVerification,
                            ForgotPassword
  <2>2. ASSUME NEW r \in Request, Step(r) PROVE Ages(u)
    BY <2>2, <1>1, <1>2, <1>3, <1>4, <1>6
    DEF Step, FindUsername, FindUser, SetPassword, DropLink, FindTaken, FindArtist, SendLink
  <2>3. ASSUME NEW t \in Token, LinkExpires(t) PROVE Ages(u)
    BY <2>3, <1>1 DEF LinkExpires
  <2> QED BY <1>6, <1>7, <1>8, <2>1, <2>2, <2>3 DEF Next
<1> QED BY <1>1, <1>8

(* A request that begins to delete a row has just read it.                  *)
LEMMA PurgeBegins ==
  ASSUME TypeOK, [Next]_vars, NEW r \in Request, request'[r].pc \in Purges, request'[r] # request[r]
  PROVE  LET u == request'[r].user
         IN  /\ users' = users /\ u \in Account /\ ~users[u].verified
             /\ request'[r].pc # "purge" => users[u].expired
<1> DEFINE u == request'[r].user
           Goal == /\ users' = users /\ u \in Account /\ ~users[u].verified
                   /\ request'[r].pc # "purge" => users[u].expired
<1>1. ASSUME NEW o \in Request,
             FindUsername(o) \/ \E e \in Email, n \in Username : Register(o, e, n)
      PROVE  Goal
  <2>1. o = r /\ users' = users
    BY <1>1, AfterFindUsername, AfterRegister DEF Only, FindUsername, Register
  <2>2. \E v \in Account, pc \in {"purgeEmail", "purgeUsername"} :
          Purgeable(v) /\ \E e, n : request'[r] = Replace(pc, e, n, v)
    <3>1. CASE FindUsername(o)
      <4>1. request'[r] \notin {Idle} \cup Registering
        BY DEF Idle, Registering, Purges
      <4> QED BY <2>1, <3>1, <4>1, AfterFindUsername
    <3>2. ASSUME NEW e \in Email, NEW n \in Username, Register(o, e, n)
          PROVE  \E v \in Account : Purgeable(v) /\ request'[r] = Replace("purgeEmail", e, n, v)
      <4>1. request'[r] \notin Registering
        BY DEF Registering, Purges
      <4> QED BY <2>1, <3>2, <4>1, AfterRegister
    <3> QED BY <1>1, <3>1, <3>2
  <2>3. PICK v \in Account, pc \in {"purgeEmail", "purgeUsername"} :
          Purgeable(v) /\ \E e, n : request'[r] = Replace(pc, e, n, v)
    BY <2>2
  <2>4. u = v
    BY <2>3 DEF Replace
  <2> QED BY <2>1, <2>3, <2>4 DEF Purgeable
<1>2. ASSUME NEW o \in Request, NEW v \in User,
             LoginUnverified(o, v) \/ ResendVerification(o, v) \/ ForgotPassword(o, v)
      PROVE  Goal
  <2>1. v \in Account /\ users' = users
    BY <1>2 DEF LoginUnverified, ResendVerification, ForgotPassword
  <2>2. o = r
    BY <1>2, <2>1, AfterSend DEF Only
  <2>3. request'[r] = [pc |-> "purge", user |-> v] /\ ~users[v].verified
    BY <1>2, <2>1, <2>2, AfterSend DEF Sending, Purges
  <2> QED BY <2>1, <2>3
<1>3. ASSUME NEW o \in Request, Only(o),
             request'[o] \in {Idle} \cup Registering \cup Sending \cup Following \cup Renaming
      PROVE  FALSE
  <2>1. o = r
    BY <1>3 DEF Only
  <2>2. request'[o].pc \notin Purges
    BY <1>3 DEF Idle, Registering, Sending, Following, Renaming, Purges
  <2> QED BY <2>1, <2>2
<1>4. ASSUME NEW o \in Request, Arrive(o) PROVE Goal
  <2>1. ASSUME NEW t \in Token, FollowLink(o, t) PROVE FALSE
    BY <1>3, <2>1, AfterFollowLink
  <2>2. ASSUME NEW v \in User, NEW n \in Username, Rename(o, v, n) PROVE FALSE
    BY <1>3, <2>2, AfterRename
  <2> QED BY <1>1, <1>2, <1>4, <2>1, <2>2 DEF Arrive
<1>5. ASSUME NEW o \in Request, Step(o) PROVE Goal
  <2>1. CASE PurgeOwner(o)
    <3>1. Only(o) /\ (request'[o] = Idle \/ request'[o] \in Registering)
      BY <2>1, AfterPurgeOwner
    <3> QED BY <1>3, <3>1
  <2>2. CASE Purge(o) \/ \E t \in Token : SendLink(o, t)
    <3>1. Only(o) /\ request'[o] = Idle
      BY <2>2, Ends DEF Purge, SendLink
    <3> QED BY <1>3, <3>1
  <2>3. CASE FindUser(o) \/ ConfirmEmail(o) \/ SetPassword(o) \/ DropLink(o)
    BY <1>3, <2>3, AfterFollowing
  <2>4. CASE FindTaken(o) \/ FindArtist(o) \/ UpdateArtist(o) \/ UpdateUser(o)
    BY <1>3, <2>4, AfterRenaming
  <2>5. CASE \E v \in User, artist \in BOOLEAN : CreateUser(o, v, artist)
    BY <1>3, <2>5, AfterCreateUser
  <2> QED BY <1>1, <1>5, <2>1, <2>2, <2>3, <2>4, <2>5 DEF Step
<1>6. ASSUME NEW o \in Request, Fail(o) PROVE FALSE
  BY <1>3, <1>6, Ends DEF Fail
<1>7. CASE request' = request
  BY <1>7
<1> QED BY <1>4, <1>5, <1>6, <1>7 DEF Next, NameArtist, Expire, Remove, LinkExpires

LEMMA FreshGoes == ASSUME TypeOK, [Next]_vars PROVE fresh' \subseteq fresh
<1>1. ASSUME NEW r \in Request, Arrive(r) PROVE fresh' \subseteq fresh
  BY <1>1 DEF Arrive, Register, FollowLink, LoginUnverified, ResendVerification, ForgotPassword, Rename
<1>2. ASSUME NEW r \in Request, Step(r) PROVE fresh' \subseteq fresh
  BY <1>2 DEF Step, FindUsername, PurgeOwner, Purge, FindUser, ConfirmEmail, SetPassword, DropLink,
              FindTaken, FindArtist, UpdateArtist, UpdateUser, CreateUser, SendLink
<1> QED BY <1>1, <1>2 DEF Next, Fail, NameArtist, Expire, Remove, LinkExpires

(* A request that goes on to delete a row remembers what it was told.       *)
LEMMA RacedStays ==
  ASSUME TypeOK, [Next]_vars, NEW r \in Request, request[r].pc \in Purges, request'[r] = request[r],
         r \in raced
  PROVE  r \in raced'
<1>1. ASSUME NEW o \in Request, PurgeOwner(o) \/ Purge(o) \/ Fail(o) PROVE r \in raced'
  <2>1. raced' = raced \ {o}
    BY <1>1 DEF PurgeOwner, Purge, Fail
  <2>2. request'[o] = Idle \/ request'[o] \in Registering
    BY <1>1, AfterPurgeOwner, Ends DEF Purge, Fail
  <2>3. request'[o].pc \notin Purges
    BY <2>2 DEF Idle, Registering, Purges
  <2> QED BY <2>1, <2>3
<1>2. ASSUME NEW o \in Request, Arrive(o) PROVE raced' = raced
  BY <1>2 DEF Arrive, Register, FollowLink, LoginUnverified, ResendVerification, ForgotPassword, Rename
<1>3. ASSUME NEW o \in Request, ConfirmEmail(o) PROVE r \in raced'
  BY <1>3 DEF ConfirmEmail
<1>4. ASSUME NEW o \in Request, Step(o) PROVE r \in raced'
  BY <1>1, <1>3, <1>4 DEF Step, FindUsername, FindUser, SetPassword, DropLink, FindTaken, FindArtist,
                          UpdateArtist, UpdateUser, CreateUser, SendLink
<1> QED BY <1>1, <1>2, <1>4 DEF Next, NameArtist, Expire, Remove, LinkExpires

LEMMA PurgesStep == TypeOK /\ PurgesDue /\ [Next]_vars => PurgesDue'
<1> SUFFICES ASSUME TypeOK, PurgesDue, [Next]_vars, NEW r \in Request, request'[r].pc \in Purges
             PROVE  PurgeDue(r)'
  BY DEF PurgesDue
<1>1. CASE request'[r] = request[r]
  <2> DEFINE u == request[r].user
  <2>1. u \notin fresh /\ fresh' \subseteq fresh
    BY <1>1, FreshGoes DEF PurgesDue, PurgeDue
  <2>2. CASE u \in Account'
    <3>1. Ages(u)
      BY <2>1, <2>2, RowsAge
    <3>2. r \in PurgesOf(u)
      BY <1>1 DEF PurgesOf, Purges
    <3>3. PurgeDue(r)
      BY <1>1 DEF PurgesDue
    <3>4. r \in raced => r \in raced'
      BY <1>1, RacedStays
    <3>5. /\ request[r].pc # "purge" => users'[u].expired
          /\ users'[u].verified => r \in raced'
      BY <3>1, <3>2, <3>3, <3>4 DEF Ages, PurgeDue
    <3> QED BY <1>1, <2>1, <3>5 DEF PurgeDue
  <2> QED BY <1>1, <2>1, <2>2 DEF PurgeDue
<1>2. CASE request'[r] # request[r]
  <2> DEFINE u == request'[r].user
  <2>1. /\ users' = users /\ u \in Account /\ ~users[u].verified
        /\ request'[r].pc # "purge" => users[u].expired
    BY <1>2, PurgeBegins
  <2>2. u \notin fresh' /\ Account' = Account
    BY <2>1, FreshGoes DEF TypeOK, Account
  <2> QED BY <2>1, <2>2 DEF PurgeDue
<1> QED BY <1>1, <1>2

(* What a step deletes is due.                                              *)
LEMMA DeletesDue ==
  ASSUME TypeOK, PurgesDue, [Next]_vars, NEW u \in Account, users'[u] = NoRow
  PROVE  Remove(u) \/ (users[u].expired /\ (users[u].verified => raced \cap PurgesOf(u) # {}))
<1> DEFINE Due == Remove(u) \/ (users[u].expired /\ (users[u].verified => raced \cap PurgesOf(u) # {}))
<1>1. u \in User /\ users[u] \in Row /\ users \in [User -> Row \cup {NoRow}] /\ users[u] # NoRow
  BY DEF TypeOK, Account
<1>2. ASSUME NEW r \in Request, PurgeOwner(r) \/ Purge(r) PROVE Due
  <2>1. request[r].user = u
    BY <1>1, <1>2 DEF PurgeOwner, Purge
  <2>2. PurgeDue(r)
    BY <1>2 DEF PurgesDue, Purges, PurgeOwner, Purge
  <2>3. users[u].expired
    BY <1>1, <1>2, <2>1, <2>2 DEF PurgeDue, PurgeOwner, Purge
  <2>4. r \in PurgesOf(u)
    BY <1>2, <2>1 DEF PurgesOf, PurgeOwner, Purge
  <2> QED BY <2>1, <2>2, <2>3, <2>4 DEF PurgeDue
<1>3. ASSUME NEW v \in User, Remove(v) PROVE Due
  <2>1. u = v
    BY <1>1, <1>3 DEF Remove
  <2> QED BY <1>3, <2>1
<1>4. ASSUME users' = users PROVE FALSE
  BY <1>1, <1>4
<1>5. ASSUME NEW v \in User, NEW b,
             \/ users' = [users EXCEPT ![v].due = b] \/ users' = [users EXCEPT ![v].username = b]
             \/ users' = [users EXCEPT ![v].expired = b]
             \/ \E c : \/ users' = [users EXCEPT ![v].artist = b, ![v].due = c]
                     \/ users' = [users EXCEPT ![v].verified = b, ![v].expired = c]
      PROVE  FALSE
  <2>1. users'[u].email = users[u].email /\ "username" \in DOMAIN users'[u]
    BY <1>1, <1>5 DEF Row
  <2> QED BY <2>1 DEF NoRow
<1>6. ASSUME NEW r \in Request, Arrive(r) PROVE FALSE
  <2>1. ASSUME NEW v \in User, NEW n \in Username, Rename(r, v, n) PROVE FALSE
    <3>1. \E d : users' = [users EXCEPT ![v].due = d]
      BY <2>1 DEF Rename
    <3> QED BY <1>5, <3>1
  <2> QED BY <1>4, <1>6, <2>1 DEF Arrive, Register, FollowLink, LoginUnverified, ResendVerification,
                                  ForgotPassword
<1>7. ASSUME NEW r \in Request, NEW v \in User, NEW artist \in BOOLEAN, CreateUser(r, v, artist)
      PROVE  FALSE
  <2>1. CASE v = u
    BY <1>4, <1>7, <2>1 DEF CreateUser, TypeOK
  <2>2. CASE v # u
    BY <1>1, <1>7, <2>2 DEF CreateUser
  <2> QED BY <2>1, <2>2
<1>8. ASSUME NEW r \in Request, ConfirmEmail(r) \/ UpdateArtist(r) \/ UpdateUser(r) \/ Fail(r)
      PROVE  FALSE
  <2>1. ASSUME NEW v, users' = Torn(v) PROVE FALSE
    BY <1>4, <1>5, <2>1 DEF Torn, Account
  <2>2. ASSUME NEW v \in Account, NEW b, NEW c,
               \/ users' = [users EXCEPT ![v].artist = b, ![v].due = c]
               \/ users' = [users EXCEPT ![v].verified = b, ![v].expired = c]
               \/ users' = [users EXCEPT ![v].username = b]
        PROVE  FALSE
    BY <1>5, <2>2 DEF Account
  <2>3. CASE ConfirmEmail(r)
    BY <1>4, <2>2, <2>3 DEF ConfirmEmail
  <2>4. CASE UpdateArtist(r)
    <3>1. PICK v : v = request[r].user
      OBVIOUS
    <3>2. PICK n, d : n = request[r].username
                      /\ d = IF users[v].artist = request[r].current /\ users[v].due # Unclear
                             THEN Follows ELSE users[v].due
      OBVIOUS
    <3>3. v \in Account => users' = [users EXCEPT ![v].artist = n, ![v].due = d]
      BY <2>4, <3>1, <3>2 DEF UpdateArtist
    <3>4. v \notin Account => users' = users
      BY <2>4, <3>1 DEF UpdateArtist
    <3> QED BY <1>4, <2>2, <3>3, <3>4
  <2> QED BY <1>4, <1>8, <2>1, <2>2, <2>3, <2>4 DEF UpdateUser, Fail
<1>9. ASSUME NEW r \in Request, Step(r) PROVE Due
  BY <1>2, <1>4, <1>7, <1>8, <1>9
  DEF Step, FindUsername, FindUser, SetPassword, DropLink, FindTaken, FindArtist, SendLink
<1>10. ASSUME NEW v \in User, Expire(v) \/ \E name \in Name : NameArtist(v, name) PROVE FALSE
  BY <1>5, <1>10 DEF NameArtist, Expire
<1> QED BY <1>3, <1>4, <1>6, <1>8, <1>9, <1>10 DEF Next, LinkExpires

LEMMA PurgesInit == Init => PurgesDue
  BY DEF Init, PurgesDue, Idle, Purges

(* PurgesAreDue: an account vanishes because an administrator deletes it or *)
(* because its 48 hours passed; if it was confirmed, then while the request *)
(* that deletes it was on its way.                                          *)
THEOREM OnlyDuePurges == Spec => PurgesAreDue
<1>1. TypeOK /\ PurgesDue /\ [Next]_vars =>
        [\A u \in Account : users'[u] = NoRow =>
           \/ Remove(u)
           \/ users[u].expired /\ (users[u].verified => raced \cap PurgesOf(u) # {})]_vars
  BY DeletesDue
<1> QED BY <1>1, TypeInit, TypeStep, PurgesInit, PurgesStep, PTL DEF Spec, PurgesAreDue

-----------------------------------------------------------------------------
(* Links.  A link is taken from a fresh token, everybody who follows it has *)
(* the link it was, and two who follow one reset link share it.  Once it is *)
(* used and not shared, whoever follows it is about to delete it.           *)
FollowsLink(q, t) == q.pc \in {"findUser", "apply", "dropLink"} /\ q.token = t

FreshLinks == \A t \in Token : t \in fresh =>
  link[t] = NoLink /\ uses[t] = "none" /\ \A f \in Request : ~FollowsLink(request[f], t)
HeldLinks == \A t \in Token, f \in Request :
  FollowsLink(request[f], t) /\ link[t] # NoLink => request[f].link = link[t]
AloneOrShared == \A t \in Token, f, g \in Request :
  f # g /\ FollowsLink(request[f], t) /\ FollowsLink(request[g], t) /\ request[f].link.kind = "reset"
    => link[t] = NoLink \/ uses[t] = "shared"
UsedUp(t) ==
  uses[t] = "once" =>
    /\ \A f \in Request : FollowsLink(request[f], t) => request[f].pc = "dropLink"
    /\ link[t] # NoLink => link[t].kind = "reset" /\ \E f \in Request : FollowsLink(request[f], t)

LinksFollowed == FreshLinks /\ HeldLinks /\ AloneOrShared
LinksUsedUp   == (\A t \in Token : UsedUp(t)) /\ LinksResetOnce

(* Nobody begins to follow a link and none is sent.                         *)
FewerFollow ==
  /\ \A f \in Request, t \in Token : FollowsLink(request'[f], t) =>
       FollowsLink(request[f], t) /\ request'[f].link = request[f].link
  /\ \A t \in Token : link'[t] \in {link[t], NoLink}
  /\ \A t \in Token : uses'[t] # "none" =>
       uses[t] # "none" \/ \E f \in Request : FollowsLink(request[f], t)
  /\ \A t \in Token : uses[t] = "shared" => link'[t] = NoLink \/ uses'[t] = "shared"
  /\ fresh' \subseteq fresh

LEMMA FollowedByFewer ==
  ASSUME LinksFollowed, FewerFollow
  PROVE  LinksFollowed'
<1>1. FreshLinks'
  BY DEF LinksFollowed, FewerFollow, FreshLinks
<1>2. HeldLinks'
  BY DEF LinksFollowed, FewerFollow, HeldLinks
<1>3. AloneOrShared'
  BY DEF LinksFollowed, FewerFollow, AloneOrShared
<1> QED BY <1>1, <1>2, <1>3 DEF LinksFollowed

(* Steps that leave those who follow links, the links and their use alone.  *)
FollowersSame ==
  /\ \A f \in Request : request'[f] = request[f]
        \/ \A t \in Token : ~FollowsLink(request[f], t) /\ ~FollowsLink(request'[f], t)
  /\ link' = link /\ uses' = uses /\ fresh' \subseteq fresh

LEMMA QuietLinks ==
  ASSUME LinksFollowed, LinksUsedUp, FollowersSame
  PROVE  LinksFollowed' /\ LinksUsedUp'
<1>1. FewerFollow
  BY DEF FollowersSame, FewerFollow
<1>2. \A t \in Token : UsedUp(t)'
  BY DEF FollowersSame, LinksUsedUp, UsedUp
<1> QED BY <1>1, <1>2, FollowedByFewer DEF FollowersSame, LinksUsedUp, LinksResetOnce

LEMMA QuietRequest ==
  ASSUME TypeOK, NEW r \in Request, Only(r),
         request[r].pc \notin {"findUser", "apply", "dropLink"},
         request'[r].pc \notin {"findUser", "apply", "dropLink"},
         link' = link, uses' = uses, fresh' \subseteq fresh
  PROVE  FollowersSame
  BY DEF Only, FollowersSame, FollowsLink

(* Requests for which no link is of interest.                               *)
Elsewhere == {Idle} \cup Registering \cup Replacing \cup Purging \cup Sending \cup Renaming

LEMMA QuietElsewhere ==
  ASSUME TypeOK, NEW r \in Request, Only(r),
         request[r].pc = "idle" \/ request[r] \in Elsewhere, request'[r] \in Elsewhere,
         link' = link, uses' = uses, fresh' \subseteq fresh
  PROVE  FollowersSame
<1>1. \A q \in Elsewhere : q.pc \notin {"findUser", "apply", "dropLink"}
  BY DEF Elsewhere, Idle, Registering, Replacing, Purging, Sending, Renaming
<1> QED BY <1>1, QuietRequest

LEMMA QuietArrive ==
  ASSUME TypeOK, NEW r \in Request, Arrive(r)
  PROVE  FollowersSame \/ \E t \in Token : FollowLink(r, t)
<1>1. ASSUME NEW e \in Email, NEW n \in Username, Register(r, e, n) PROVE FollowersSame
  BY <1>1, AfterRegister, QuietElsewhere DEF Register, Elsewhere
<1>2. ASSUME NEW u \in User, LoginUnverified(r, u) \/ ResendVerification(r, u) \/ ForgotPassword(r, u)
      PROVE  FollowersSame
  <2>1. u \in Account /\ UNCHANGED <<users, fresh, link, history>>
    BY <1>2 DEF LoginUnverified, ResendVerification, ForgotPassword
  <2>2. [pc |-> "purge", user |-> u] \in Purging
    BY <2>1 DEF Purging, Account
  <2>3. Only(r) /\ request[r].pc = "idle" /\ request'[r] \in Elsewhere
    BY <1>2, <2>1, <2>2, AfterSend DEF Elsewhere
  <2> QED BY <2>1, <2>3, QuietElsewhere
<1>3. ASSUME NEW u \in User, NEW n \in Username, Rename(r, u, n) PROVE FollowersSame
  BY <1>3, AfterRename, QuietElsewhere DEF Rename, Elsewhere
<1> QED BY <1>1, <1>2, <1>3 DEF Arrive

LEMMA QuietStep ==
  ASSUME TypeOK, NEW r \in Request, Step(r)
  PROVE  \/ FollowersSame \/ FindUser(r) \/ ConfirmEmail(r) \/ SetPassword(r) \/ DropLink(r)
         \/ \E t \in Token : SendLink(r, t)
<1>1. CASE FindUsername(r)
  BY <1>1, AfterFindUsername, QuietElsewhere DEF FindUsername, Elsewhere
<1>2. CASE PurgeOwner(r)
  BY <1>2, AfterPurgeOwner, QuietElsewhere DEF PurgeOwner, Elsewhere
<1>3. CASE Purge(r)
  BY <1>3, Ends, Shapes, QuietElsewhere DEF Purge, Elsewhere
<1>4. CASE FindTaken(r) \/ FindArtist(r) \/ UpdateArtist(r) \/ UpdateUser(r)
  BY <1>4, AfterRenaming, QuietElsewhere DEF FindTaken, FindArtist, UpdateArtist, UpdateUser, Elsewhere
<1>5. ASSUME NEW u \in User, NEW artist \in BOOLEAN, CreateUser(r, u, artist) PROVE FollowersSame
  <2>1. fresh' \subseteq fresh
    BY <1>5 DEF CreateUser
  <2> QED BY <1>5, <2>1, AfterCreateUser, QuietElsewhere DEF CreateUser, Elsewhere
<1> QED BY <1>1, <1>2, <1>3, <1>4, <1>5 DEF Step

(* A link that is sent is fresh: nobody follows it and it was not used.     *)
LEMMA LinksAfterSend ==
  ASSUME TypeOK, LinksFollowed, LinksUsedUp, NEW r \in Request, NEW t \in Token, SendLink(r, t)
  PROVE  LinksFollowed' /\ LinksUsedUp'
<1>1. Only(r) /\ request'[r] = Idle /\ request[r].pc = "sendLink"
  BY Ends DEF SendLink
<1>2. \A f \in Request, s \in Token : FollowsLink(request'[f], s) <=> FollowsLink(request[f], s)
  BY <1>1 DEF Only, FollowsLink, Idle
<1>3. \A f \in Request, s \in Token : FollowsLink(request[f], s) => request'[f] = request[f]
  BY <1>1 DEF Only, FollowsLink
<1>4. /\ t \in fresh /\ fresh' = fresh \ {t} /\ uses' = uses
      /\ link \in [Token -> Link \cup {NoLink}]
      /\ \A s \in Token : s # t => link'[s] = link[s]
  BY DEF SendLink, TypeOK
<1>5. FreshLinks'
  BY <1>2, <1>4 DEF LinksFollowed, FreshLinks
<1>6. HeldLinks'
  BY <1>2, <1>3, <1>4 DEF LinksFollowed, FreshLinks, HeldLinks
<1>7. AloneOrShared'
  BY <1>2, <1>3, <1>4 DEF LinksFollowed, FreshLinks, AloneOrShared
<1>8. \A s \in Token : UsedUp(s)'
  BY <1>2, <1>3, <1>4 DEF LinksFollowed, FreshLinks, LinksUsedUp, UsedUp
<1> QED BY <1>4, <1>5, <1>6, <1>7, <1>8 DEF LinksFollowed, LinksUsedUp, LinksResetOnce

LEMMA LinksAfterFollow ==
  ASSUME TypeOK, LinksFollowed, LinksUsedUp, NEW r \in Request, NEW t \in Token, FollowLink(r, t)
  PROVE  LinksFollowed' /\ LinksUsedUp'
<1>1. /\ Only(r) /\ request[r].pc = "idle"
      /\ request'[r] = [pc |-> "findUser", token |-> t, link |-> link[t]]
  BY AfterFollowLink
<1>2. /\ link[t] # NoLink /\ link' = link /\ fresh' = fresh
      /\ uses'[t] \in {uses[t], "shared"} /\ \A s \in Token : s # t => uses'[s] = uses[s]
      /\ link[t].kind = "reset" /\ Followers(t) # {} => uses'[t] = "shared"
  BY DEF FollowLink, TypeOK
<1>3. /\ FollowsLink(request'[r], t) /\ \A s \in Token : s # t => ~FollowsLink(request'[r], s)
      /\ request'[r].link = link[t]
      /\ \A s \in Token : ~FollowsLink(request[r], s)
      /\ \A f \in Request : f # r => request'[f] = request[f]
  BY <1>1 DEF Only, FollowsLink
<1>4. FreshLinks'
  BY <1>2, <1>3 DEF LinksFollowed, FreshLinks
<1>5. HeldLinks'
  BY <1>2, <1>3 DEF LinksFollowed, HeldLinks
<1>6. \A f \in Request : FollowsLink(request[f], t) => f \in Followers(t)
  BY DEF FollowsLink, Followers
<1>7. AloneOrShared'
  BY <1>2, <1>3, <1>6 DEF LinksFollowed, HeldLinks, AloneOrShared
<1>8. UsedUp(t)'
  BY <1>2, <1>6 DEF LinksUsedUp, UsedUp
<1>9. \A s \in Token : s # t => UsedUp(s)'
  BY <1>2, <1>3 DEF LinksUsedUp, UsedUp
<1> QED BY <1>2, <1>4, <1>5, <1>7, <1>8, <1>9 DEF LinksFollowed, LinksUsedUp, LinksResetOnce

(* Of the requests only r moves, with its own link t or to its end; what    *)
(* becomes of t is up to it, all other links are as they were.              *)
OwnLink(r, t) ==
  /\ Only(r) /\ request[r] \in Following /\ request[r].token = t
  /\ request'[r] = Idle
     \/ (request'[r] \in Following /\ request'[r].token = t /\ request'[r].link = request[r].link)
  /\ link'[t] \in {link[t], NoLink} /\ fresh' = fresh
  /\ uses[t] = "shared" => link'[t] = NoLink \/ uses'[t] = "shared"
  /\ \A s \in Token : s # t => link'[s] = link[s] /\ uses'[s] = uses[s]

LEMMA LinksAfterOwn ==
  ASSUME TypeOK, LinksFollowed, LinksUsedUp, NEW r \in Request, NEW t \in Token, OwnLink(r, t),
         UsedUp(t)', LinksResetOnce'
  PROVE  LinksFollowed' /\ LinksUsedUp'
<1>1. /\ FollowsLink(request[r], t) /\ \A s \in Token : s # t => ~FollowsLink(request[r], s)
      /\ \A f \in Request : f # r => request'[f] = request[f]
  BY DEF OwnLink, Following, FollowsLink, Only
<1>2. \A s \in Token : FollowsLink(request'[r], s) => s = t /\ request'[r].link = request[r].link
  BY DEF OwnLink, FollowsLink, Idle
<1>3. FewerFollow
  BY <1>1, <1>2 DEF OwnLink, FewerFollow
<1>4. \A s \in Token : s # t => UsedUp(s)'
  BY <1>1, <1>2 DEF OwnLink, LinksUsedUp, UsedUp
<1> QED BY <1>3, <1>4, FollowedByFewer DEF LinksUsedUp

LEMMA AfterFollowingOwn ==
  ASSUME TypeOK, NEW r \in Request, FindUser(r) \/ ConfirmEmail(r) \/ SetPassword(r) \/ DropLink(r)
  PROVE  request[r].token \in Token /\ OwnLink(r, request[r].token)
<1> DEFINE t == request[r].token
<1>1. Only(r) /\ request[r] \in Following /\ t \in Token
  BY AfterFollowing DEF Following
<1>2. request'[r] = Idle
      \/ (request'[r] \in Following /\ request'[r].token = t /\ request'[r].link = request[r].link)
  <2>1. ASSUME NEW pc, request'[r] = [request[r] EXCEPT !.pc = pc], request'[r] \in Following
        PROVE  request'[r].token = t /\ request'[r].link = request[r].link
    BY <1>1, <2>1 DEF Following
  <2> QED BY <2>1, AfterFollowing
<1>3. /\ link'[t] \in {link[t], NoLink} /\ fresh' = fresh
      /\ uses[t] = "shared" => link'[t] = NoLink \/ uses'[t] = "shared"
      /\ \A s \in Token : s # t => link'[s] = link[s] /\ uses'[s] = uses[s]
  BY <1>1 DEF FindUser, ConfirmEmail, SetPassword, UsedOnceMore, DropLink, TypeOK
<1> QED BY <1>1, <1>2, <1>3 DEF OwnLink

(* Before the deletion a link that was used is shared.                      *)
LEMMA NotUsedUp ==
  ASSUME TypeOK, LinksUsedUp, NEW r \in Request, request[r].pc \in {"findUser", "apply"}
  PROVE  request[r].token \in Token /\ uses[request[r].token] \in {"none", "shared"}
<1>1. request[r].token \in Token /\ FollowsLink(request[r], request[r].token)
  BY Shapes DEF Following, FollowsLink
<1> QED BY <1>1 DEF LinksUsedUp, UsedUp, LinksResetOnce, TypeOK, Uses

LEMMA LinksAfterFindUser ==
  ASSUME TypeOK, LinksFollowed, LinksUsedUp, NEW r \in Request, FindUser(r) \/ ConfirmEmail(r)
  PROVE  LinksFollowed' /\ LinksUsedUp'
<1>0. PICK t \in Token : t = request[r].token
  BY AfterFollowingOwn
<1>1. uses' = uses /\ request[r].pc \in {"findUser", "apply"}
  BY <1>0 DEF FindUser, ConfirmEmail
<1>2. UsedUp(t)' /\ LinksResetOnce'
  BY <1>0, <1>1, NotUsedUp DEF UsedUp, LinksUsedUp, LinksResetOnce
<1> QED BY <1>0, <1>2, AfterFollowingOwn, LinksAfterOwn

LEMMA LinksAfterSetPassword ==
  ASSUME TypeOK, LinksFollowed, LinksUsedUp, NEW r \in Request, SetPassword(r)
  PROVE  LinksFollowed' /\ LinksUsedUp'
<1>0. PICK t \in Token : t = request[r].token
  BY AfterFollowingOwn
<1>1. request[r].pc = "apply" /\ request[r].link.kind = "reset" /\ link' = link
      /\ uses[t] \in {"none", "shared"}
  BY <1>0, NotUsedUp DEF SetPassword
<1>2. t \in Token /\ Only(r) /\ request[r] \in Following /\ FollowsLink(request[r], t)
  BY <1>0, <1>1, AfterFollowingOwn DEF OwnLink, FollowsLink
<1>3. /\ \A s \in Token : s # t => uses'[s] = uses[s]
      /\ \/ uses'[t] = uses[t]
         \/ uses[t] = "none" /\ uses'[t] = "once" /\ link[t] # NoLink /\ Goto(r, "dropLink")
  BY <1>0, <1>1 DEF SetPassword, UsedOnceMore, TypeOK
<1>4. LinksResetOnce'
  BY <1>1, <1>3 DEF LinksUsedUp, LinksResetOnce
<1>5. UsedUp(t)'
  <2>1. CASE uses'[t] = uses[t]
    BY <1>1, <2>1 DEF UsedUp
  <2>2. CASE uses[t] = "none" /\ link[t] # NoLink /\ Goto(r, "dropLink")
    <3>1. \A f \in Request : f # r => request'[f] = request[f] /\ ~FollowsLink(request[f], t)
      BY <1>1, <1>2, <2>2 DEF Only, LinksFollowed, AloneOrShared
    <3>2. request'[r] = [request[r] EXCEPT !.pc = "dropLink"]
      BY <2>2 DEF Goto, TypeOK
    <3>3. request'[r].pc = "dropLink" /\ FollowsLink(request'[r], t)
      BY <1>2, <3>2 DEF Following, FollowsLink
    <3>4. link[t] # NoLink => link[t].kind = "reset"
      BY <1>1, <1>2 DEF LinksFollowed, HeldLinks
    <3> QED BY <1>1, <3>1, <3>3, <3>4 DEF UsedUp
  <2> QED BY <1>3, <2>1, <2>2
<1> QED BY <1>0, <1>4, <1>5, AfterFollowingOwn, LinksAfterOwn

LEMMA LinksAfterDrop ==
  ASSUME TypeOK, LinksFollowed, LinksUsedUp, NEW r \in Request, DropLink(r)
  PROVE  LinksFollowed' /\ LinksUsedUp'
<1>0. PICK t \in Token : t = request[r].token
  BY AfterFollowingOwn
<1>1. t \in Token /\ OwnLink(r, t)
  BY <1>0, AfterFollowingOwn
<1>2. /\ uses'[t] = "none" /\ \A s \in Token : s # t => uses'[s] = uses[s]
      /\ link'[t] = NoLink /\ request'[r] = Idle
  BY <1>0, <1>1, Ends DEF DropLink, TypeOK
<1>3. \A f \in Request : FollowsLink(request'[f], t) => request'[f] = request[f]
  BY <1>0, <1>1, <1>2 DEF OwnLink, Only, FollowsLink, Idle
<1>4. UsedUp(t)' /\ LinksResetOnce'
  BY <1>0, <1>1, <1>2, <1>3 DEF UsedUp, LinksUsedUp, LinksResetOnce
<1> QED BY <1>0, <1>1, <1>4, LinksAfterOwn

LEMMA LinksAfterFail ==
  ASSUME TypeOK, LinksFollowed, LinksUsedUp, NEW r \in Request, Fail(r)
  PROVE  LinksFollowed' /\ LinksUsedUp'
<1>1. Only(r) /\ request'[r] = Idle /\ link' = link /\ fresh' = fresh
  BY Ends DEF Fail
<1>2. CASE request[r].pc \in {"findUser", "apply", "dropLink"}
  <2>0. PICK t \in Token : t = request[r].token
    BY <1>2, Shapes DEF Following
  <2>1. request[r] \in Following
    BY <2>0, <1>2, Shapes
  <2>2. /\ uses'[t] \in {uses[t], "shared"} /\ uses'[t] # "once"
        /\ \A s \in Token : s # t => uses'[s] = uses[s]
    BY <2>0, <1>2, NotUsedUp DEF Fail, TypeOK
  <2>3. OwnLink(r, t) /\ UsedUp(t)' /\ LinksResetOnce'
    BY <2>0, <1>1, <2>1, <2>2 DEF OwnLink, UsedUp, LinksUsedUp, LinksResetOnce
  <2> QED BY <2>0, <2>1, <2>3, LinksAfterOwn
<1>3. CASE request[r].pc \notin {"findUser", "apply", "dropLink"}
  BY <1>1, <1>3, QuietRequest, QuietLinks DEF Fail, Idle
<1> QED BY <1>2, <1>3

LEMMA LinksAfterExpiry ==
  ASSUME TypeOK, LinksFollowed, LinksUsedUp, NEW t \in Token, LinkExpires(t)
  PROVE  LinksFollowed' /\ LinksUsedUp'
<1>1. /\ link'[t] = NoLink /\ \A s \in Token : s # t => link'[s] = link[s]
      /\ uses'[t] = "none" /\ \A s \in Token : s # t => uses'[s] = uses[s]
      /\ UNCHANGED <<request, fresh>>
  BY DEF LinkExpires, TypeOK
<1>2. FewerFollow
  BY <1>1 DEF FewerFollow
<1>3. \A s \in Token : UsedUp(s)'
  BY <1>1 DEF LinksUsedUp, UsedUp
<1> QED BY <1>1, <1>2, <1>3, FollowedByFewer DEF LinksUsedUp, LinksResetOnce

LEMMA LinksInit == Init => LinksFollowed /\ LinksUsedUp
  BY DEF Init, LinksFollowed, FreshLinks, HeldLinks, AloneOrShared, LinksUsedUp, UsedUp,
         LinksResetOnce, FollowsLink, Idle

LEMMA LinksStep == TypeOK /\ LinksFollowed /\ LinksUsedUp /\ [Next]_vars => LinksFollowed' /\ LinksUsedUp'
<1> SUFFICES ASSUME TypeOK, LinksFollowed, LinksUsedUp, [Next]_vars
             PROVE  LinksFollowed' /\ LinksUsedUp'
  OBVIOUS
<1>1. ASSUME NEW r \in Request, Arrive(r) PROVE LinksFollowed' /\ LinksUsedUp'
  BY <1>1, QuietArrive, QuietLinks, LinksAfterFollow
<1>2. ASSUME NEW r \in Request, Step(r) PROVE LinksFollowed' /\ LinksUsedUp'
  BY <1>2, QuietStep, QuietLinks, LinksAfterSend, LinksAfterFindUser, LinksAfterSetPassword, LinksAfterDrop
<1>3. CASE UNCHANGED <<fresh, link, request, history>>
  BY <1>3, QuietLinks DEF FollowersSame
<1> QED BY <1>1, <1>2, <1>3, LinksAfterFail, LinksAfterExpiry DEF Next, NameArtist, Expire, Remove

(* LinksResetOnce: while its key is there a link sets a password once,      *)
(* unless requests with it overlapped or one failed before it deleted it.   *)
THEOREM OneResetPerLink == Spec => []LinksResetOnce
<1>1. LinksUsedUp => LinksResetOnce
  BY DEF LinksUsedUp
<1> QED BY <1>1, TypeInit, TypeStep, LinksInit, LinksStep, PTL DEF Spec

-----------------------------------------------------------------------------
(* Names.  An account whose name is clear has one renaming at most, which   *)
(* read the username the account still has, and which writes the name of    *)
(* the artist only while that is the username; an artist that follows       *)
(* bears the next name when only the account is left to be written.         *)
Renames(q, u) ==
  q.pc \in {"findTaken", "findArtist", "updateArtist", "updateUser"} /\ q.user = u

Fits(row, q) ==
  /\ q.pc # "updateUser" => q.current = row.username
  /\ q.pc = "updateArtist" => row.artist = q.current
  /\ row.due = Follows /\ row.artist # NoArtist
       => row.artist = IF q.pc = "updateUser" THEN q.username ELSE row.username

Trails(row) == row.due = Follows /\ row.artist # NoArtist => row.artist = row.username

NamesHeld(u) ==
  u \in Account =>
    /\ users[u].due \in Name => users[u].artist = users[u].due
    /\ users[u].due # Unclear =>
         /\ \A f, g \in Request : Renames(request[f], u) /\ Renames(request[g], u) => f = g
         /\ \A f \in Request : Renames(request[f], u) => Fits(users[u], request[f])
    /\ (\A f \in Request : ~Renames(request[f], u)) => Trails(users[u])

RenamersKnown == \A f \in Request, u \in User : Renames(request[f], u) => u \notin fresh
NamesInv      == RenamersKnown /\ \A u \in User : NamesHeld(u)

RenamersSame ==
  \A f \in Request : request'[f] = request[f]
    \/ \A u \in User : ~Renames(request[f], u) /\ ~Renames(request'[f], u)

KeepsNames(u) ==
  u \in Account' => /\ u \in Account /\ users'[u].artist = users[u].artist
                    /\ users'[u].username = users[u].username /\ users'[u].due = users[u].due

LEMMA QuietNames ==
  ASSUME NamesInv, RenamersSame, fresh' \subseteq fresh, NEW u \in User, KeepsNames(u)
  PROVE  NamesHeld(u)'
BY DEF NamesInv, NamesHeld, RenamersSame, KeepsNames, Fits, Trails

LEMMA RenamersStayKnown ==
  ASSUME NamesInv, RenamersSame, fresh' \subseteq fresh
  PROVE  RenamersKnown'
BY DEF NamesInv, RenamersKnown, RenamersSame

(* Requests that rename nothing.                                            *)
NotRenaming == {Idle} \cup Registering \cup Replacing \cup Purging \cup Sending \cup Following

LEMMA SameRenamers ==
  ASSUME NEW r \in Request, Only(r), request[r].pc = "idle" \/ request[r] \in NotRenaming,
         request'[r] \in NotRenaming
  PROVE  RenamersSame
<1>1. \A q : q.pc = "idle" \/ q \in NotRenaming => \A u \in User : ~Renames(q, u)
  BY DEF NotRenaming, Renames, Idle, Registering, Replacing, Purging, Sending, Following
<1> QED BY <1>1 DEF Only, RenamersSame

LEMMA OthersArrive ==
  ASSUME TypeOK, NEW r \in Request, Arrive(r)
  PROVE  RenamersSame \/ \E u \in User, n \in Username : Rename(r, u, n)
<1>1. ASSUME NEW e \in Email, NEW n \in Username, Register(r, e, n) PROVE RenamersSame
  BY <1>1, AfterRegister, SameRenamers DEF NotRenaming
<1>2. ASSUME NEW u \in User, LoginUnverified(r, u) \/ ResendVerification(r, u) \/ ForgotPassword(r, u)
      PROVE  RenamersSame
  <2>1. u \in Account
    BY <1>2 DEF LoginUnverified, ResendVerification, ForgotPassword
  <2>2. [pc |-> "purge", user |-> u] \in Purging
    BY <2>1 DEF Purging, Account
  <2>3. Only(r) /\ request[r].pc = "idle" /\ request'[r] \in NotRenaming
    BY <1>2, <2>1, <2>2, AfterSend DEF NotRenaming
  <2> QED BY <2>3, SameRenamers
<1>3. ASSUME NEW t \in Token, FollowLink(r, t) PROVE RenamersSame
  BY <1>3, AfterFollowLink, SameRenamers DEF NotRenaming
<1> QED BY <1>1, <1>2, <1>3 DEF Arrive

LEMMA OthersStep ==
  ASSUME TypeOK, NEW r \in Request, Step(r)
  PROVE  RenamersSame \/ FindTaken(r) \/ FindArtist(r) \/ UpdateArtist(r) \/ UpdateUser(r)
<1>1. CASE FindUsername(r)
  BY <1>1, AfterFindUsername, SameRenamers DEF NotRenaming
<1>2. CASE PurgeOwner(r)
  BY <1>2, AfterPurgeOwner, SameRenamers DEF NotRenaming
<1>3. CASE Purge(r) \/ \E t \in Token : SendLink(r, t)
  <2>1. Only(r) /\ request'[r] = Idle
    BY <1>3, Ends DEF Purge, SendLink
  <2>2. request[r] \in NotRenaming
    BY <1>3, Shapes DEF Purge, SendLink, NotRenaming
  <2> QED BY <2>1, <2>2, SameRenamers DEF NotRenaming
<1>4. CASE FindUser(r) \/ ConfirmEmail(r) \/ SetPassword(r) \/ DropLink(r)
  BY <1>4, AfterFollowing, SameRenamers DEF NotRenaming
<1>5. ASSUME NEW u \in User, NEW artist \in BOOLEAN, CreateUser(r, u, artist) PROVE RenamersSame
  BY <1>5, AfterCreateUser, SameRenamers DEF NotRenaming
<1> QED BY <1>1, <1>2, <1>3, <1>4, <1>5 DEF Step

(* Steps that write rows for other reasons leave the names alone.           *)
LEMMA NamesAlone ==
  ASSUME TypeOK, NEW u \in User,
         \/ users' = users
         \/ \E v \in User : users' = [users EXCEPT ![v] = NoRow] \/ Expire(v)
         \/ \E r \in Request : ConfirmEmail(r)
  PROVE  KeepsNames(u)
<1>1. users \in [User -> Row \cup {NoRow}]
  BY DEF TypeOK
<1>2. ASSUME users' = users PROVE KeepsNames(u)
  BY <1>2 DEF KeepsNames, Account
<1>3. ASSUME NEW v \in User, users' = [users EXCEPT ![v] = NoRow] PROVE KeepsNames(u)
  BY <1>1, <1>3 DEF KeepsNames, Account
<1>4. ASSUME NEW v \in User, Expire(v) PROVE KeepsNames(u)
  BY <1>1, <1>4 DEF Expire, KeepsNames, Account, Row
<1>5. ASSUME NEW r \in Request, ConfirmEmail(r), users' # users PROVE KeepsNames(u)
  <2>1. PICK v \in Account :
          \E c : users' = [users EXCEPT ![v].verified = TRUE, ![v].expired = c]
    BY <1>5 DEF ConfirmEmail
  <2>2. PICK c : users' = [users EXCEPT ![v].verified = TRUE, ![v].expired = c]
    BY <2>1
  <2>3. users[v] \in Row /\ v \in User
    BY <1>1 DEF Account
  <2> QED BY <1>1, <2>2, <2>3 DEF KeepsNames, Account, Row
<1> QED BY <1>2, <1>3, <1>4, <1>5

(* A new account has the name its artist has, and nobody renames it yet.    *)
LEMMA NamesAfterCreate ==
  ASSUME TypeOK, NamesInv, NEW r \in Request, NEW v \in User, NEW artist \in BOOLEAN,
         CreateUser(r, v, artist), NEW u \in User
  PROVE  NamesHeld(u)' /\ RenamersKnown'
<1>1. RenamersSame
  BY AfterCreateUser, SameRenamers DEF NotRenaming
<1>2. fresh' \subseteq fresh /\ v \in fresh /\ v \notin Account /\ users \in [User -> Row \cup {NoRow}]
  BY DEF CreateUser, TypeOK
<1>3. CASE users' = users \/ u # v
  <2>1. KeepsNames(u)
    BY <1>2, <1>3 DEF CreateUser, KeepsNames, Account
  <2> QED BY <1>1, <1>2, <2>1, QuietNames, RenamersStayKnown
<1>4. CASE users' # users /\ u = v
  <2>1. request[r].username \in Username
    BY AfterCreateUser DEF Registering
  <2>2. users'[u].due = Follows /\ Trails(users'[u])
    BY <1>2, <1>4, <2>1 DEF CreateUser, Trails
  <2>3. \A f \in Request : ~Renames(request'[f], u)
    BY <1>1, <1>2, <1>4 DEF NamesInv, RenamersKnown, RenamersSame
  <2> QED BY <1>1, <1>2, <2>2, <2>3, RenamersStayKnown DEF NamesHeld
<1> QED BY <1>3, <1>4

(* A name given by hand is the one that is due, but for a renaming that has *)
(* seen the former one.                                                     *)
LEMMA NamesAfterNaming ==
  ASSUME TypeOK, NamesInv, NEW v \in User, NEW name \in Name, NameArtist(v, name), NEW u \in User
  PROVE  NamesHeld(u)' /\ RenamersKnown'
<1>1. users \in [User -> Row \cup {NoRow}] /\ RenamersSame /\ fresh' = fresh /\ request' = request
  BY DEF TypeOK, NameArtist, RenamersSame
<1>2. CASE u # v
  BY <1>1, <1>2, QuietNames, RenamersStayKnown DEF NameArtist, KeepsNames, Account
<1>3. CASE u = v
  <2>1. u \in Account /\ users[u] \in Row
    BY <1>1, <1>3 DEF NameArtist, Account
  <2>2. PICK d : d = CASE \/ \E r \in Renamers(v) : At(r, "updateArtist")
                          \/ users[v].due = Unclear /\ Renamers(v) # {} -> Unclear
                       [] Renamers(v) = {} /\ users[v].username = name -> Follows
                       [] OTHER -> name
    OBVIOUS
  <2>3. users' = [users EXCEPT ![v].artist = name, ![v].due = d]
    BY <2>2 DEF NameArtist
  <2>4. /\ users'[u].artist = name /\ users'[u].due = d /\ users'[u].username = users[u].username
    BY <1>1, <1>3, <2>1, <2>3 DEF Row
  <2>5. /\ d \in {name, Unclear, Follows} /\ name \notin {Follows, Unclear} /\ Follows # Unclear
        /\ d = Follows => name = users[v].username /\ Renamers(v) = {}
    BY <2>2 DEF Follows, Unclear
  <2>6. ASSUME d # Unclear, NEW f \in Request, Renames(request[f], u)
        PROVE  users[u].due # Unclear /\ request[f].pc # "updateArtist"
    <3>1. f \in Renamers(v)
      BY <1>3, <2>6 DEF Renamers, Renames
    <3> QED BY <1>3, <2>2, <2>6, <3>1
  <2>7. Trails(users'[u])
    BY <1>3, <2>4, <2>5 DEF Trails
  <2>8. ASSUME d # Unclear, NEW f \in Request, Renames(request[f], u)
        PROVE  /\ Fits(users'[u], request[f])
               /\ \A g \in Request : Renames(request[g], u) => f = g
    <3>1. f \in Renamers(v) /\ d # Follows
      BY <1>3, <2>5, <2>8 DEF Renamers, Renames
    <3> QED BY <2>1, <2>4, <2>5, <2>6, <2>8, <3>1 DEF NamesInv, NamesHeld, Fits
  <2>9. NamesHeld(u)'
    BY <1>1, <2>4, <2>5, <2>7, <2>8 DEF NamesHeld
  <2> QED BY <1>1, <2>9, RenamersStayKnown
<1> QED BY <1>2, <1>3

(* A renaming that begins finds the names as they belong, or another one.   *)
LEMMA NamesAfterRename ==
  ASSUME TypeOK, NamesInv, NEW r \in Request, NEW v \in User, NEW n \in Username, Rename(r, v, n),
         NEW u \in User
  PROVE  NamesHeld(u)' /\ RenamersKnown'
<1>1. /\ Only(r) /\ request[r].pc = "idle" /\ fresh' = fresh
      /\ request'[r] = [pc |-> "findTaken", user |-> v, username |-> n,
                        current |-> users[v].username]
  BY AfterRename DEF Rename
<1>2. /\ \A w \in User : ~Renames(request[r], w) /\ (Renames(request'[r], w) <=> w = v)
      /\ \A f \in Request : f # r => request'[f] = request[f]
      /\ request'[r].pc = "findTaken" /\ request'[r].current = users[v].username
  BY <1>1 DEF Only, Renames
<1>3. users \in [User -> Row \cup {NoRow}] /\ v \in Account /\ v \notin fresh
  BY DEF Rename, TypeOK
<1>4. RenamersKnown'
  BY <1>1, <1>2, <1>3 DEF NamesInv, RenamersKnown
<1>5. CASE u # v
  <2>1. KeepsNames(u)
    BY <1>3, <1>5 DEF Rename, KeepsNames, Account
  <2> QED BY <1>2, <1>4, <1>5, <2>1 DEF NamesInv, NamesHeld, KeepsNames, Fits, Trails
<1>6. CASE u = v
  <2>1. PICK d : d = IF Renamers(v) = {} THEN users[v].due ELSE Unclear
    OBVIOUS
  <2>2. users' = [users EXCEPT ![v].due = d] /\ users[v] \in Row
    BY <1>3, <2>1 DEF Rename, Account
  <2>3. /\ users'[u].due = d /\ users'[u].username = users[u].username
        /\ users'[u].artist = users[u].artist
    BY <1>3, <1>6, <2>2 DEF Row
  <2>4. ASSUME d # Unclear
        PROVE  d = users[u].due /\ \A f \in Request : ~Renames(request[f], u)
    BY <1>6, <2>1, <2>4 DEF Renamers, Renames
  <2>5. d \in {users[u].due, Unclear} /\ Unclear \notin Name
    BY <1>6, <2>1
  <2>6. d # Unclear => Fits(users'[u], request'[r])
    BY <1>2, <1>3, <1>6, <2>3, <2>4 DEF NamesInv, NamesHeld, Fits, Trails
  <2> QED BY <1>2, <1>3, <1>4, <1>6, <2>3, <2>4, <2>5, <2>6 DEF NamesInv, NamesHeld
<1> QED BY <1>5, <1>6

(* Of the requests only r moves, with the account v it renames or to its    *)
(* end; no other account is written.                                        *)
OwnRenaming(r, v) ==
  /\ Only(r) /\ Renames(request[r], v) /\ fresh' = fresh
  /\ request'[r] = Idle \/ Renames(request'[r], v)
  /\ \A u \in User : u # v => users'[u] = users[u]
  /\ v \in Account' => v \in Account /\ (users[v].due = Unclear => users'[v].due = Unclear)

LEMMA NamesAfterOwn ==
  ASSUME NamesInv, NEW r \in Request, NEW v \in User, OwnRenaming(r, v),
         v \in Account' /\ users'[v].due # Unclear =>
           /\ users'[v].due \in Name => users'[v].artist = users'[v].due
           /\ request'[r] # Idle => Fits(users'[v], request'[r])
           /\ request'[r] = Idle => Trails(users'[v])
  PROVE  NamesInv'
<1>1. /\ \A f \in Request : f # r => request'[f] = request[f]
      /\ \A u \in User : (Renames(request[r], u) => u = v) /\ (Renames(request'[r], u) => u = v)
      /\ ~Renames(Idle, v)
  BY DEF OwnRenaming, Only, Renames, Idle
<1>2. RenamersKnown'
  BY <1>1 DEF OwnRenaming, NamesInv, RenamersKnown
<1>3. ASSUME NEW u \in User, u # v PROVE NamesHeld(u)'
  <2>1. \A f \in Request : Renames(request'[f], u) <=> Renames(request[f], u)
    BY <1>1, <1>3
  <2>2. \A f \in Request : Renames(request[f], u) => request'[f] = request[f]
    BY <1>1, <1>3
  <2> QED BY <1>3, <2>1, <2>2 DEF OwnRenaming, NamesInv, NamesHeld, Account
<1>4. NamesHeld(v)'
  <2> SUFFICES ASSUME v \in Account', users'[v].due # Unclear PROVE NamesHeld(v)'
    BY DEF NamesHeld, Trails, Follows, Unclear
  <2>1. \A f \in Request : Renames(request'[f], v) => f = r
    BY <1>1 DEF OwnRenaming, NamesInv, NamesHeld
  <2> QED BY <1>1, <2>1 DEF OwnRenaming, NamesHeld
<1> QED BY <1>2, <1>3, <1>4 DEF NamesInv

LEMMA OwnWhileReading ==
  ASSUME TypeOK, NEW r \in Request, NEW v \in User, request[r].user = v, FindTaken(r) \/ FindArtist(r)
  PROVE  /\ OwnRenaming(r, v) /\ users' = users
         /\ request'[r] = Idle \/ (request'[r].username = request[r].username
                                   /\ request'[r].current = request[r].current)
<1>1. Only(r) /\ request[r] \in Renaming /\ users' = users /\ fresh' = fresh
  BY AfterRenaming DEF FindTaken, FindArtist
<1>2. ASSUME NEW pc, request'[r] = [request[r] EXCEPT !.pc = pc], request'[r] \in Renaming
      PROVE  request'[r].user = v /\ request'[r].username = request[r].username
             /\ request'[r].current = request[r].current
  BY <1>1, <1>2 DEF Renaming
<1>3. \/ request'[r] = Idle
      \/ /\ request'[r] \in Renaming /\ request'[r].user = v
         /\ request'[r].username = request[r].username /\ request'[r].current = request[r].current
  BY <1>2, AfterRenaming
<1> QED BY <1>1, <1>3 DEF OwnRenaming, Renames, Renaming, Account

LEMMA OwnOf ==
  ASSUME TypeOK, NEW r \in Request,
         request[r].pc \in {"findTaken", "findArtist", "updateArtist", "updateUser"}
  PROVE  \E v \in User : v = request[r].user /\ Renames(request[r], v)
BY Shapes DEF Renaming, Renames

LEMMA FitsAlone ==
  ASSUME NamesInv, NEW r \in Request, NEW v \in User, Renames(request[r], v), v \in Account,
         users[v].due # Unclear
  PROVE  Fits(users[v], request[r]) /\ (users[v].due \in Name => users[v].artist = users[v].due)
BY DEF NamesInv, NamesHeld

LEMMA NamesAfterReading ==
  ASSUME TypeOK, NamesInv, NEW r \in Request, FindTaken(r) \/ FindArtist(r)
  PROVE  NamesInv'
<1>1. PICK v \in User : v = request[r].user /\ Renames(request[r], v)
  BY OwnOf DEF FindTaken, FindArtist
<1>2. /\ OwnRenaming(r, v) /\ users' = users
      /\ request'[r] = Idle \/ (request'[r].username = request[r].username
                                /\ request'[r].current = request[r].current)
  BY <1>1, OwnWhileReading
<1> SUFFICES ASSUME v \in Account, users[v].due # Unclear
             PROVE  /\ users[v].due \in Name => users[v].artist = users[v].due
                    /\ request'[r] # Idle => Fits(users[v], request'[r])
                    /\ request'[r] = Idle => Trails(users[v])
  BY <1>2, NamesAfterOwn DEF Account
<1>3. Fits(users[v], request[r]) /\ (users[v].due \in Name => users[v].artist = users[v].due)
  BY <1>1, FitsAlone
<1>4. request[r].pc # "updateUser" /\ request[r] \in Renaming
  BY AfterRenaming DEF FindTaken, FindArtist
<1>5. CASE request'[r] = Idle
  BY <1>3, <1>4, <1>5 DEF Fits, Trails
<1>6. CASE FindTaken(r) /\ request'[r] # Idle
  <2>1. request' = [request EXCEPT ![r].pc = "findArtist"]
    BY <1>6, Ends DEF FindTaken, Goto
  <2>2. request'[r] = [request[r] EXCEPT !.pc = "findArtist"]
    BY <2>1 DEF TypeOK
  <2>3. request'[r].pc = "findArtist"
    BY <1>4, <2>2 DEF Renaming
  <2> QED BY <1>2, <1>3, <1>4, <1>6, <2>3 DEF Fits, Idle
<1>7. CASE FindArtist(r) /\ request'[r] # Idle
  <2>1. PICK pc : pc = IF users[v].artist = request[r].current THEN "updateArtist" ELSE "updateUser"
    OBVIOUS
  <2>2. request' = [request EXCEPT ![r].pc = pc]
    BY <1>1, <1>7, <2>1 DEF FindArtist, Goto
  <2>3. request'[r] = [request[r] EXCEPT !.pc = pc]
    BY <2>2 DEF TypeOK
  <2>4. request'[r].pc = pc
    BY <1>4, <2>3 DEF Renaming
  <2>5. request[r].current = users[v].username /\ Trails(users[v])
    BY <1>3, <1>4 DEF Fits, Trails
  <2> QED BY <1>2, <1>3, <1>7, <2>1, <2>4, <2>5 DEF Fits, Trails, Idle
<1> QED BY <1>5, <1>6, <1>7

(* The artist is given the next name, and the account follows.              *)
LEMMA NamesAfterUpdateArtist ==
  ASSUME TypeOK, NamesInv, NEW r \in Request, UpdateArtist(r)
  PROVE  NamesInv'
<1>1. PICK v \in User : v = request[r].user /\ Renames(request[r], v)
  BY OwnOf DEF UpdateArtist
<1>2. Only(r) /\ request[r] \in Renaming /\ request[r].pc = "updateArtist"
      /\ users \in [User -> Row \cup {NoRow}] /\ fresh' = fresh
  BY AfterRenaming DEF UpdateArtist, TypeOK
<1>3. CASE v \notin Account
  <2>1. request'[r] = Idle /\ users' = users
    BY <1>1, <1>3, Ends DEF UpdateArtist
  <2> QED BY <1>1, <1>2, <1>3, <2>1, NamesAfterOwn DEF OwnRenaming, Account
<1>4. CASE v \in Account
  <2>1. PICK n, d : /\ n = request[r].username
                    /\ d = IF users[v].artist = request[r].current /\ users[v].due # Unclear
                           THEN Follows ELSE users[v].due
    OBVIOUS
  <2>2. users' = [users EXCEPT ![v].artist = n, ![v].due = d] /\ Goto(r, "updateUser")
    BY <1>1, <1>4, <2>1 DEF UpdateArtist
  <2>3. request'[r] = [request[r] EXCEPT !.pc = "updateUser"]
    BY <2>2 DEF Goto, TypeOK
  <2>4. request'[r].pc = "updateUser" /\ Renames(request'[r], v) /\ request'[r].username = n
    BY <1>1, <1>2, <2>1, <2>3 DEF Renaming, Renames
  <2>5. /\ users'[v].artist = n /\ users'[v].due = d
        /\ \A u \in User : u # v => users'[u] = users[u]
    BY <1>2, <1>4, <2>2 DEF Account, Row
  <2>6. OwnRenaming(r, v)
    BY <1>1, <1>2, <1>4, <2>1, <2>4, <2>5 DEF OwnRenaming
  <2>7. ASSUME d # Unclear PROVE d = Follows
    <3>1. users[v].due # Unclear
      BY <2>1, <2>7
    <3> QED BY <1>1, <1>2, <1>4, <2>1, <3>1, FitsAlone DEF Fits
  <2>8. request'[r] # Idle /\ Follows \notin Name
    BY <2>4 DEF Idle
  <2>9. d # Unclear => Fits(users'[v], request'[r])
    BY <2>4, <2>5 DEF Fits
  <2> QED BY <2>5, <2>6, <2>7, <2>8, <2>9, NamesAfterOwn
<1> QED BY <1>3, <1>4

(* A renaming that ends before its last write leaves the names as they are. *)
LEMMA NamesAfterUpdateUser ==
  ASSUME TypeOK, NamesInv, NEW r \in Request, UpdateUser(r) \/ (Fail(r) /\ At(r, "updateUser"))
  PROVE  NamesInv'
<1>1. PICK v \in User : v = request[r].user /\ Renames(request[r], v)
  BY OwnOf DEF UpdateUser
<1>2. Only(r) /\ request'[r] = Idle /\ request[r].pc = "updateUser"
      /\ users \in [User -> Row \cup {NoRow}] /\ fresh' = fresh
  BY Ends DEF UpdateUser, Fail, TypeOK
<1>3. CASE users' = Torn(v)
  <2>1. CASE v \in Account
    <3>1. PICK d : d = IF users[v].due = Follows /\ users[v].artist # NoArtist THEN Unclear
                       ELSE users[v].due
      OBVIOUS
    <3>2. /\ users'[v].due = d /\ users'[v].artist = users[v].artist
          /\ \A u \in User : u # v => users'[u] = users[u]
      BY <1>2, <1>3, <2>1, <3>1 DEF Torn, Account, Row
    <3>3. OwnRenaming(r, v)
      BY <1>1, <1>2, <2>1, <3>1, <3>2 DEF OwnRenaming
    <3>4. d # Unclear => /\ users'[v].due \in Name => users'[v].artist = users'[v].due
                         /\ Trails(users'[v])
      BY <1>1, <2>1, <3>1, <3>2, FitsAlone DEF Trails
    <3> QED BY <1>2, <3>2, <3>3, <3>4, NamesAfterOwn
  <2>2. CASE v \notin Account
    BY <1>1, <1>2, <1>3, <2>2, NamesAfterOwn DEF OwnRenaming, Torn, Account
  <2> QED BY <2>1, <2>2
<1>4. CASE v \in Account /\ users' = [users EXCEPT ![v].username = request[r].username]
  <2>1. /\ users'[v].username = request[r].username /\ users'[v].artist = users[v].artist
        /\ users'[v].due = users[v].due /\ \A u \in User : u # v => users'[u] = users[u]
    BY <1>2, <1>4 DEF Account, Row
  <2>2. OwnRenaming(r, v)
    BY <1>1, <1>2, <1>4, <2>1 DEF OwnRenaming
  <2>3. users[v].due # Unclear => /\ users'[v].due \in Name => users'[v].artist = users'[v].due
                                  /\ Trails(users'[v])
    BY <1>1, <1>2, <1>4, <2>1, FitsAlone DEF Fits, Trails
  <2> QED BY <1>2, <2>1, <2>2, <2>3, NamesAfterOwn
<1> QED BY <1>1, <1>3, <1>4 DEF UpdateUser, Fail

LEMMA NamesAfterFail ==
  ASSUME TypeOK, NamesInv, NEW r \in Request, Fail(r), ~At(r, "updateUser")
  PROVE  NamesInv'
<1>1. Only(r) /\ request'[r] = Idle /\ users' = users /\ fresh' = fresh
  BY Ends DEF Fail
<1>2. CASE request[r].pc \in {"findTaken", "findArtist", "updateArtist"}
  <2>1. PICK v \in User : v = request[r].user /\ Renames(request[r], v)
    BY <1>2, OwnOf
  <2>2. OwnRenaming(r, v)
    BY <1>1, <2>1 DEF OwnRenaming, Account
  <2>3. v \in Account /\ users[v].due # Unclear
          => (users[v].due \in Name => users[v].artist = users[v].due) /\ Trails(users[v])
    BY <1>2, <2>1, FitsAlone DEF Fits, Trails
  <2> QED BY <1>1, <2>2, <2>3, NamesAfterOwn DEF Account
<1>3. CASE request[r].pc \notin {"findTaken", "findArtist", "updateArtist"}
  <2>1. RenamersSame
    BY <1>1, <1>3 DEF RenamersSame, Renames, Only, Idle
  <2> QED BY <1>1, <2>1, NamesAlone, QuietNames, RenamersStayKnown DEF NamesInv
<1> QED BY <1>2, <1>3

LEMMA NamesInit == Init => NamesInv
  BY DEF Init, NamesInv, RenamersKnown, NamesHeld, Renames, Idle, Account

LEMMA NamesStep == TypeOK /\ NamesInv /\ [Next]_vars => NamesInv'
<1> SUFFICES ASSUME TypeOK, NamesInv, [Next]_vars PROVE NamesInv'
  OBVIOUS
<1>1. ASSUME RenamersSame, \A u \in User : KeepsNames(u) PROVE NamesInv'
  BY <1>1, FreshGoes, QuietNames, RenamersStayKnown DEF NamesInv
<1>2. ASSUME NEW r \in Request, Arrive(r) PROVE NamesInv'
  <2>1. CASE \E u \in User, n \in Username : Rename(r, u, n)
    <3>1. PICK v \in User, n \in Username : Rename(r, v, n)
      BY <2>1
    <3>2. \A u \in User : NamesHeld(u)'
      BY <3>1, NamesAfterRename
    <3>3. RenamersKnown'
      BY <3>1, NamesAfterRename
    <3> QED BY <3>2, <3>3 DEF NamesInv
  <2>2. CASE ~ \E u \in User, n \in Username : Rename(r, u, n)
    <3>1. users' = users
      BY <1>2, <2>2 DEF Arrive, Register, FollowLink, LoginUnverified, ResendVerification, ForgotPassword
    <3> QED BY <1>1, <1>2, <2>2, <3>1, OthersArrive, NamesAlone
  <2> QED BY <2>1, <2>2
<1>3. ASSUME NEW r \in Request, Step(r) PROVE NamesInv'
  <2>1. CASE FindTaken(r) \/ FindArtist(r) \/ UpdateArtist(r) \/ UpdateUser(r)
    BY <2>1, NamesAfterReading, NamesAfterUpdateArtist, NamesAfterUpdateUser
  <2>2. ASSUME NEW v \in User, NEW artist \in BOOLEAN, CreateUser(r, v, artist) PROVE NamesInv'
    <3>1. \A u \in User : NamesHeld(u)'
      BY <2>2, NamesAfterCreate
    <3>2. RenamersKnown'
      BY <2>2, NamesAfterCreate
    <3> QED BY <3>1, <3>2 DEF NamesInv
  <2>3. CASE PurgeOwner(r) \/ Purge(r)
    <3>1. users' = users \/ \E v \in User : users' = [users EXCEPT ![v] = NoRow]
      BY <2>3 DEF PurgeOwner, Purge, Account
    <3>2. RenamersSame
      BY <1>3, <2>3, OthersStep DEF PurgeOwner, Purge, FindTaken, FindArtist,
                                    UpdateArtist, UpdateUser
    <3> QED BY <1>1, <3>1, <3>2, NamesAlone
  <2>4. CASE \/ FindUsername(r) \/ FindUser(r) \/ ConfirmEmail(r) \/ SetPassword(r)
             \/ DropLink(r) \/ \E t \in Token : SendLink(r, t)
    <3>1. users' = users \/ ConfirmEmail(r)
      BY <2>4 DEF FindUsername, FindUser, SetPassword, DropLink, SendLink
    <3>2. RenamersSame
      BY <1>3, <2>4, OthersStep
      DEF FindUsername, FindUser, ConfirmEmail, SetPassword, DropLink, SendLink,
          FindTaken, FindArtist, UpdateArtist, UpdateUser
    <3> QED BY <1>1, <3>1, <3>2, NamesAlone
  <2> QED BY <1>3, <2>1, <2>2, <2>3, <2>4 DEF Step
<1>4. ASSUME NEW r \in Request, Fail(r) PROVE NamesInv'
  BY <1>4, NamesAfterUpdateUser, NamesAfterFail
<1>5. ASSUME NEW v \in User, NEW name \in Name, NameArtist(v, name) PROVE NamesInv'
  <2>1. \A u \in User : NamesHeld(u)'
    BY <1>5, NamesAfterNaming
  <2>2. RenamersKnown'
    BY <1>5, NamesAfterNaming
  <2> QED BY <2>1, <2>2 DEF NamesInv
<1>6. ASSUME NEW v \in User, Expire(v) \/ Remove(v) PROVE NamesInv'
  BY <1>1, <1>6, NamesAlone DEF Expire, Remove, RenamersSame
<1>7. CASE users' = users /\ request' = request
  BY <1>1, <1>7, NamesAlone DEF RenamersSame
<1> QED BY <1>2, <1>3, <1>4, <1>5, <1>6, <1>7 DEF Next, LinkExpires

(* NamesFollow: an artist bears the name it was last given by hand, and if  *)
(* it was given none, or a renaming found it to be the username, then the   *)
(* username; but for what overlapping or failed renamings leave.  Any text  *)
(* may be given, the username of any account too.                           *)
THEOREM ArtistsBearTheName == Spec => []NamesFollow
<1>1. TypeOK /\ NamesInv => NamesFollow
  <2>1. ASSUME NEW u \in Account, Renamers(u) = {} PROVE \A f \in Request : ~Renames(request[f], u)
    BY <2>1 DEF Renamers, Renames
  <2> QED BY <2>1 DEF NamesInv, NamesHeld, NamesFollow, Trails, Account
<1> QED BY <1>1, TypeInit, TypeStep, NamesInit, NamesStep, PTL DEF Spec

=============================================================================
