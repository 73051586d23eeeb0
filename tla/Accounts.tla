------------------------------- MODULE Accounts -------------------------------
(***************************************************************************)
(* Accounts until they are confirmed, the links they are sent, and their   *)
(* names (src/src/auth/auth.service.ts, src/src/users/users.service.ts).   *)
(*                                                                         *)
(* An account that is not confirmed within 48 hours is purged, not by a    *)
(* timer but by whichever request next meets it: a registration that wants *)
(* its e-mail or username, a login, a request for another link.  All of    *)
(* them read the row first and delete it by its id one await or more       *)
(* later.  A link is a random token in Redis which is read when it is      *)
(* followed and deleted when what it is for is done.  What a reset does to *)
(* the sessions is in Sessions, what becomes of artists in ArtistKyc.      *)
(***************************************************************************)
EXTENDS FiniteSets

CONSTANTS User,      \* ids of accounts, each for one row only
          Email, Username,
          Name,      \* what an artist may be called: a username, or any other text
          Token,     \* tokens of links, each for one link only
          Request    \* requests in flight at the same time

(* Marks where a row has no name to show; texts, whatever they say, are in   *)
(* Name.                                                                    *)
NoArtist == "none"
Follows  == "username"
Unclear  == "unclear"

ASSUME AccountsAssumption ==
  Username \subseteq Name /\ {NoArtist, Follows, Unclear} \cap Name = {}

VARIABLES
  users,    \* the row of each account, with the name of its artist, or NoRow
  fresh,    \* ids and tokens nothing has had yet
  link,     \* of each token: its key in Redis, or NoLink
  request,
  \* History, read by the properties alone:
  uses,     \* of each key in Redis: how often a password was set with it, see Uses
  raced     \* requests about to purge an account that was confirmed meanwhile

history == <<uses, raced>>
vars == <<users, fresh, link, request, uses, raced>>

(* The last is history, the name the artist of the account is due: the one  *)
(* it was last given by hand, its username, or no telling which, when two   *)
(* renamings overlapped, or one failed half-way or met a name just given.   *)
NoRow  == [email |-> "none"]
Row    == [email: Email, username: Username, verified: BOOLEAN, expired: BOOLEAN,
           artist: Name \cup {NoArtist}, due: Name \cup {Follows, Unclear}]
NoLink == [kind |-> "none"]
Link   == [kind: {"verify", "reset"}, user: User]

(* "shared" tells nothing more of a link that two requests followed at      *)
(* once, or whose request failed after its use.  Nothing is kept of a link  *)
(* whose key is gone: only who followed it at once with others still can    *)
(* set a password with it.                                                  *)
Uses == {"none", "once", "again", "shared"}

(* A request by the await it stands at.                                     *)
Idle        == [pc |-> "idle"]
Registering == [pc: {"findUsername", "create"}, email: Email, username: Username]
Replacing   == [pc: {"purgeEmail", "purgeUsername"}, email: Email, username: Username, user: User]
Purging     == [pc: {"purge"}, user: User]
Sending     == [pc: {"sendLink"}, link: Link]
Following   == [pc: {"findUser", "apply", "dropLink"}, token: Token, link: Link]
Renaming    == [pc: {"findTaken", "findArtist", "updateArtist", "updateUser"},
                user: User, username: Username, current: Username]
RequestState == {Idle} \cup Registering \cup Replacing \cup Purging \cup Sending
                \cup Following \cup Renaming

At(r, pc)   == request[r].pc = pc
Goto(r, pc) == request' = [request EXCEPT ![r].pc = pc]
Answered(r) == request' = [request EXCEPT ![r] = Idle]
Become(r, q) == request' = [request EXCEPT ![r] = q]
Begin(r, q) == At(r, "idle") /\ Become(r, q)

Account == {u \in User : users[u] # NoRow}

PurgesOf(u)  == {r \in Request : request[r].pc \in {"purge", "purgeEmail", "purgeUsername"}
                                 /\ request[r].user = u}
Followers(t) == {r \in Request : request[r].pc \in {"findUser", "apply", "dropLink"}
                                 /\ request[r].token = t}
Renamers(u)  == {r \in Request :
                   request[r].pc \in {"findTaken", "findArtist", "updateArtist", "updateUser"}
                   /\ request[r].user = u}

Init ==
  /\ users = [u \in User |-> NoRow] /\ fresh = User \cup Token
  /\ link = [t \in Token |-> NoLink]
  /\ request = [r \in Request |-> Idle]
  /\ uses = [t \in Token |-> "none"] /\ raced = {}

-----------------------------------------------------------------------------
(* isRegistrationExpired of an account that was never confirmed.            *)
Purgeable(u) == ~users[u].verified /\ users[u].expired

Claim(pc, e, n)      == [pc |-> pc, email |-> e, username |-> n]
Replace(pc, e, n, u) == [pc |-> pc, email |-> e, username |-> n, user |-> u]

(* Mutant: a confirmed account makes way too.                               *)
RegisterOverConfirmed(r, e, n) ==
  /\ LET owner == {u \in Account : users[u].email = e}
     IN  \/ owner = {} /\ Begin(r, Claim("findUsername", e, n))
         \/ \E u \in owner : /\ users[u].verified \/ users[u].expired
                             /\ Begin(r, Replace("purgeEmail", e, n, u))
  /\ UNCHANGED <<users, fresh, link, history>>

(* register: assertCanClaimIdentity reads the account that has the e-mail,  *)
(* then the one that has the username, and refuses what is not purgeable.   *)
Register(r, e, n) ==
  /\ LET owner == {u \in Account : users[u].email = e}
     IN  \/ owner = {} /\ Begin(r, Claim("findUsername", e, n))
         \/ \E u \in owner : Purgeable(u) /\ Begin(r, Replace("purgeEmail", e, n, u))
  /\ UNCHANGED <<users, fresh, link, history>>

FindUsername(r) ==
  /\ At(r, "findUsername")
  /\ LET q == request[r]  owner == {u \in Account : users[u].username = q.username}
     IN  \/ owner = {} /\ Goto(r, "create")
         \/ \E u \in owner :
              IF Purgeable(u) THEN Become(r, Replace("purgeUsername", q.email, q.username, u))
              ELSE Answered(r)
  /\ UNCHANGED <<users, fresh, link, history>>

(* The delete of either, by the id that was read; it fails when the row is  *)
(* gone.                                                                    *)
PurgeOwner(r) ==
  /\ request[r].pc \in {"purgeEmail", "purgeUsername"}
  /\ LET q == request[r]
     IN  IF q.user \in Account
         THEN /\ users' = [users EXCEPT ![q.user] = NoRow]
              /\ Become(r, Claim(IF q.pc = "purgeEmail" THEN "findUsername" ELSE "create",
                              q.email, q.username))
         ELSE Answered(r) /\ UNCHANGED users
  /\ raced' = raced \ {r}
  /\ UNCHANGED <<fresh, link, uses>>

(* Mutant: usernames are not unique in the schema.                          *)
CreateNamesake(r, u, artist) ==
  /\ At(r, "create") /\ u \in fresh
  /\ LET q == request[r]
     IN  IF \E o \in Account : users[o].email = q.email
         THEN Answered(r) /\ UNCHANGED <<users, fresh>>
         ELSE /\ users' = [users EXCEPT ![u] =
                   [email |-> q.email, username |-> q.username, verified |-> FALSE,
                    expired |-> FALSE, artist |-> IF artist THEN q.username ELSE NoArtist,
                    due |-> Follows]]
              /\ fresh' = fresh \ {u}
              /\ Become(r, [pc |-> "sendLink", link |-> [kind |-> "verify", user |-> u]])
  /\ UNCHANGED <<link, history>>

(* The transaction that inserts the account, with an artist for who asked,  *)
(* once the password is hashed; an e-mail or username that was taken        *)
(* meanwhile breaks it.                                                     *)
CreateUser(r, u, artist) ==
  /\ At(r, "create") /\ u \in fresh
  /\ LET q == request[r]
     IN  IF \E o \in Account : users[o].email = q.email \/ users[o].username = q.username
         THEN Answered(r) /\ UNCHANGED <<users, fresh>>
         ELSE /\ users' = [users EXCEPT ![u] =
                   [email |-> q.email, username |-> q.username, verified |-> FALSE,
                    expired |-> FALSE, artist |-> IF artist THEN q.username ELSE NoArtist,
                    due |-> Follows]]
              /\ fresh' = fresh \ {u}
              /\ Become(r, [pc |-> "sendLink", link |-> [kind |-> "verify", user |-> u]])
  /\ UNCHANGED <<link, history>>

(* sendVerificationEmail, sendResetPasswordEmail: the key, then the mail.   *)
(* A link that was not mailed is none; nobody can follow it.                *)
SendLink(r, t) ==
  /\ At(r, "sendLink") /\ t \in fresh
  /\ link' = [link EXCEPT ![t] = request[r].link]
  /\ fresh' = fresh \ {t}
  /\ Answered(r)
  /\ UNCHANGED <<users, history>>

-----------------------------------------------------------------------------
(* login of an account that is not confirmed: the attempt is recorded       *)
(* between the read and assertEmailVerifiedOrCleanup, which uses the row as *)
(* it was read.                                                             *)
LoginUnverified(r, u) ==
  /\ u \in Account /\ ~users[u].verified
  /\ Begin(r, [pc |-> "purge", user |-> u])
  /\ UNCHANGED <<users, fresh, link, history>>

(* resendVerification                                                       *)
ResendVerification(r, u) ==
  /\ u \in Account /\ ~users[u].verified
  /\ Begin(r, IF users[u].expired THEN [pc |-> "purge", user |-> u]
              ELSE [pc |-> "sendLink", link |-> [kind |-> "verify", user |-> u]])
  /\ UNCHANGED <<users, fresh, link, history>>

(* The delete of either, which a login issues when 48 hours have passed.    *)
Purge(r) ==
  /\ At(r, "purge")
  /\ LET u == request[r].user
     IN  users' = IF u \in Account /\ users[u].expired
                  THEN [users EXCEPT ![u] = NoRow] ELSE users
  /\ raced' = raced \ {r}
  /\ Answered(r)
  /\ UNCHANGED <<fresh, link, uses>>

(* forgotPassword                                                           *)
ForgotPassword(r, u) ==
  /\ u \in Account /\ users[u].verified
  /\ Begin(r, [pc |-> "sendLink", link |-> [kind |-> "reset", user |-> u]])
  /\ UNCHANGED <<users, fresh, link, history>>

-----------------------------------------------------------------------------
(* verifyEmail and resetPassword: the key is read.                          *)
FollowLink(r, t) ==
  /\ link[t] # NoLink
  /\ Begin(r, [pc |-> "findUser", token |-> t, link |-> link[t]])
  /\ uses' = IF link[t].kind = "verify" \/ Followers(t) = {}
             THEN uses ELSE [uses EXCEPT ![t] = "shared"]
  /\ UNCHANGED <<users, fresh, link, raced>>

(* A link of an account that is gone, or was confirmed before, or is banned *)
(* has no use but is deleted.                                               *)
FindUser(r) ==
  /\ At(r, "findUser")
  /\ LET q == request[r]  u == q.link.user
     IN  \/ u \in Account /\ (q.link.kind = "verify" => ~users[u].verified) /\ Goto(r, "apply")
         \/ (u \in Account /\ q.link.kind = "verify" => users[u].verified) /\ Goto(r, "dropLink")
  /\ UNCHANGED <<users, fresh, link, history>>

(* The update by id: emailVerifiedAt of verifyEmail.  From then on nobody   *)
(* asks how old the account is but who read it before.                      *)
ConfirmEmail(r) ==
  /\ At(r, "apply") /\ request[r].link.kind = "verify"
  /\ LET u == request[r].link.user
     IN  IF u \in Account
         THEN /\ users' = [users EXCEPT ![u].verified = TRUE,
                                        ![u].expired = @ /\ PurgesOf(u) # {}]
              /\ raced' = raced \cup PurgesOf(u)
              /\ Goto(r, "dropLink")
         ELSE Answered(r) /\ UNCHANGED <<users, raced>>
  /\ UNCHANGED <<fresh, link, uses>>

UsedOnceMore(t) ==
  uses' = IF link[t] = NoLink THEN uses
          ELSE [uses EXCEPT ![t] = CASE @ = "none" -> "once" [] @ = "once" -> "again" [] OTHER -> @]

(* Mutant: a link that was used is kept until it expires.                   *)
SetPasswordOnly(r) ==
  /\ At(r, "apply") /\ request[r].link.kind = "reset"
  /\ IF request[r].link.user \in Account THEN UsedOnceMore(request[r].token) ELSE UNCHANGED uses
  /\ Answered(r)
  /\ UNCHANGED <<users, fresh, link, raced>>

(* passwordHash of resetPassword, once it is computed.                      *)
SetPassword(r) ==
  /\ At(r, "apply") /\ request[r].link.kind = "reset"
  /\ IF request[r].link.user \in Account
     THEN UsedOnceMore(request[r].token) /\ Goto(r, "dropLink")
     ELSE Answered(r) /\ UNCHANGED uses
  /\ UNCHANGED <<users, fresh, link, raced>>

DropLink(r) ==
  /\ At(r, "dropLink")
  /\ link' = [link EXCEPT ![request[r].token] = NoLink]
  /\ uses' = [uses EXCEPT ![request[r].token] = "none"]
  /\ Answered(r)
  /\ UNCHANGED <<users, fresh, raced>>

-----------------------------------------------------------------------------
(* updateMe with another username, from the read of the present one on.     *)
Rename(r, u, n) ==
  /\ u \in Account /\ users[u].verified /\ users[u].username # n
  /\ Begin(r, [pc |-> "findTaken", user |-> u, username |-> n, current |-> users[u].username])
  /\ users' = [users EXCEPT ![u].due = IF Renamers(u) = {} THEN @ ELSE Unclear]
  /\ UNCHANGED <<fresh, link, history>>

FindTaken(r) ==
  /\ At(r, "findTaken")
  /\ LET q == request[r]
     IN  IF \E o \in Account \ {q.user} : users[o].username = q.username
         THEN Answered(r) ELSE Goto(r, "findArtist")
  /\ UNCHANGED <<users, fresh, link, history>>

(* Mutant: the name of any artist follows the username.                    *)
FindArtistAny(r) ==
  /\ At(r, "findArtist")
  /\ LET q == request[r]
     IN  Goto(r, IF q.user \in Account /\ users[q.user].artist # NoArtist
                 THEN "updateArtist" ELSE "updateUser")
  /\ UNCHANGED <<users, fresh, link, history>>

(* The name of the artist follows the username it still equals, whoever     *)
(* gave it.                                                                 *)
FindArtist(r) ==
  /\ At(r, "findArtist")
  /\ LET q == request[r]
     IN  Goto(r, IF q.user \in Account /\ users[q.user].artist = q.current
                 THEN "updateArtist" ELSE "updateUser")
  /\ UNCHANGED <<users, fresh, link, history>>

(* Written by id, whatever the name is by now.                              *)
UpdateArtist(r) ==
  /\ At(r, "updateArtist")
  /\ LET q == request[r]
         follows == users[q.user].artist = q.current /\ users[q.user].due # Unclear
     IN  IF q.user \in Account
         THEN /\ users' = [users EXCEPT ![q.user].artist = q.username,
                                        ![q.user].due = IF follows THEN Follows ELSE @]
              /\ Goto(r, "updateUser")
         ELSE Answered(r) /\ UNCHANGED users
  /\ UNCHANGED <<fresh, link, history>>

(* A name given by hand is not touched by a renaming that fails.            *)
Torn(u) ==
  IF u \in Account /\ users[u].due = Follows /\ users[u].artist # NoArtist
  THEN [users EXCEPT ![u].due = Unclear] ELSE users

(* It fails when the account is gone or somebody has the username by now,   *)
(* which is too late for the artist.                                        *)
UpdateUser(r) ==
  /\ At(r, "updateUser")
  /\ LET q == request[r]
     IN  IF q.user \in Account /\ \A o \in Account \ {q.user} : users[o].username # q.username
         THEN users' = [users EXCEPT ![q.user].username = q.username]
         ELSE users' = Torn(q.user)
  /\ Answered(r)
  /\ UNCHANGED <<fresh, link, history>>

(* become, and update by the artist or an administrator: any text is a      *)
(* name, the username of somebody else too; the own one will be followed.   *)
(* A renaming that has seen the former name will write over the new one.    *)
NameArtist(u, name) ==
  /\ u \in Account /\ (users[u].verified \/ users[u].artist # NoArtist)
  /\ LET seen == \E r \in Renamers(u) : At(r, "updateArtist")
         due  == CASE seen \/ (users[u].due = Unclear /\ Renamers(u) # {}) -> Unclear
                   [] Renamers(u) = {} /\ users[u].username = name -> Follows
                   [] OTHER -> name
     IN  users' = [users EXCEPT ![u].artist = name, ![u].due = due]
  /\ UNCHANGED <<fresh, link, request, history>>

-----------------------------------------------------------------------------
(* PostgreSQL, Redis, the mail service or the process fails.                *)
Fail(r) ==
  /\ ~At(r, "idle")
  /\ uses' = IF At(r, "dropLink") /\ uses[request[r].token] = "once"
             THEN [uses EXCEPT ![request[r].token] = "shared"] ELSE uses
  /\ users' = IF At(r, "updateUser") THEN Torn(request[r].user) ELSE users
  /\ raced' = raced \ {r}
  /\ Answered(r)
  /\ UNCHANGED <<fresh, link>>

(* 48 hours have passed since createdAt, which is asked of accounts that    *)
(* are not confirmed, or were not when they were read.                      *)
Expire(u) ==
  /\ u \in Account /\ ~users[u].expired /\ (users[u].verified => PurgesOf(u) # {})
  /\ users' = [users EXCEPT ![u].expired = TRUE]
  /\ UNCHANGED <<fresh, link, request, history>>

(* The time a link is valid for has passed.                                 *)
LinkExpires(t) ==
  /\ link[t] # NoLink
  /\ link' = [link EXCEPT ![t] = NoLink]
  /\ uses' = [uses EXCEPT ![t] = "none"]
  /\ UNCHANGED <<users, fresh, request, raced>>

(* deleteForAdmin                                                           *)
Remove(u) ==
  /\ u \in Account
  /\ users' = [users EXCEPT ![u] = NoRow]
  /\ UNCHANGED <<fresh, link, request, history>>

Step(r) ==
  \/ FindUsername(r) \/ PurgeOwner(r) \/ Purge(r)
  \/ FindUser(r) \/ ConfirmEmail(r) \/ SetPassword(r) \/ DropLink(r)
  \/ FindTaken(r) \/ FindArtist(r) \/ UpdateArtist(r) \/ UpdateUser(r)
  \/ \E u \in User, artist \in BOOLEAN : CreateUser(r, u, artist)
  \/ \E t \in Token : SendLink(r, t)

Arrive(r) ==
  \/ \E e \in Email, n \in Username : Register(r, e, n)
  \/ \E t \in Token : FollowLink(r, t)
  \/ \E u \in User :
       \/ LoginUnverified(r, u) \/ ResendVerification(r, u) \/ ForgotPassword(r, u)
       \/ \E n \in Username : Rename(r, u, n)

Next ==
  \/ \E r \in Request : Arrive(r) \/ Step(r) \/ Fail(r)
  \/ \E u \in User :
       \/ Expire(u) \/ Remove(u)
       \/ \E name \in Name : NameArtist(u, name)
  \/ \E t \in Token : LinkExpires(t)

Spec == Init /\ [][Next]_vars

-----------------------------------------------------------------------------
(* The types of all state; e-mails and usernames are unique, and a link is  *)
(* for an account there was.                                                *)
TypeOK ==
  /\ users \in [User -> Row \cup {NoRow}] /\ fresh \subseteq User \cup Token
  /\ link \in [Token -> Link \cup {NoLink}]
  /\ request \in [Request -> RequestState]
  /\ uses \in [Token -> Uses] /\ raced \subseteq Request
  /\ Account \cap fresh = {}
  /\ \A u, o \in Account : u # o =>
       users[u].email # users[o].email /\ users[u].username # users[o].username

(* PurgesAreDue: an account vanishes because an administrator deletes it or *)
(* because 48 hours passed without confirmation; if it was confirmed all    *)
(* the same, then while the request that purges it was on its way.          *)
PurgesAreDue ==
  [][\A u \in Account : users'[u] = NoRow =>
       \/ Remove(u)
       \/ users[u].expired /\ (users[u].verified => raced \cap PurgesOf(u) # {})]_vars

(* LinksResetOnce: while its key is there a link sets a password once,      *)
(* unless requests with it overlapped or one failed before it deleted the   *)
(* key.                                                                     *)
LinksResetOnce == \A t \in Token : uses[t] # "again"

(* NamesFollow: an artist bears the name it was last given by hand, and if  *)
(* it was given none, or its username, then the username, whoever else is   *)
(* called or renamed to the same; but for what overlapping or failed        *)
(* renamings leave (Unclear).                                               *)
NamesFollow ==
  \A u \in Account : LET row == users[u] IN
    /\ row.due \in Name => row.artist = row.due
    /\ row.due = Follows /\ row.artist # NoArtist /\ Renamers(u) = {} => row.artist = row.username

=============================================================================
