------------------------------ MODULE Sessions ------------------------------
(***************************************************************************)
(* The Redis sessions of ONE account, as src/src/auth/auth.service.ts      *)
(* keeps them: a refresh key per token, a record per session and an index  *)
(* set, written by requests that interleave at every Redis command.        *)
(*                                                                         *)
(* A session is named by a number and so is the identifier (jti) of a      *)
(* refresh token.  Both are allocated in increasing order at the moment    *)
(* the code takes `now`, so a jti doubles as the lastActiveAt stamp of the *)
(* record that holds it, and as the write time its TTL runs from.          *)
(***************************************************************************)
EXTENDS Naturals, FiniteSets

CONSTANTS Request,      \* slots for requests in flight at the same time
          MaxSessions,  \* AUTH_MAX_SESSIONS
          MaxSid,       \* bound: sessions ever opened
          MaxJti,       \* bound: refresh tokens ever issued
          Enabled       \* bound: the handlers and environment events of a run

ASSUME SessionsAssumption ==
  /\ MaxSessions \in Nat \ {0}
  /\ MaxSid \in Nat
  /\ MaxJti \in Nat
  /\ IsFiniteSet(Request)
  /\ Enabled \subseteq {"login", "refresh", "logout", "revoke", "list", "change",
                        "reset", "ttl", "crash"}

Sid == 1 .. MaxSid
Jti == 1 .. MaxJti
None == 0

VARIABLES
  refreshKey,  \* refresh:<user>:<jti> -> session, None when the key is absent
  record,      \* session:<user>:<sid> -> its current jti, None when absent
  index,       \* sessions:<user>
  indexStamp,  \* stamp its TTL runs from, None when the set has no TTL
  resetToken,  \* password-reset:<digest> of one mail: "unsent", "live", "gone"
  nextSid, nextJti,
  tokens,      \* refresh tokens (jti and session) answered to a client
  req,         \* the requests in flight
  \* History, read by the properties alone:
  consumed,    \* tokens a rotation has deleted the key of
  ended,       \* sessions a revocation has deleted
  raced,       \* sessions whose record went while a refresh was past its checks
  orphaned     \* sessions that were in the index when it expired

redis == <<refreshKey, record, index, indexStamp>>
history == <<consumed, ended, raced, orphaned>>
vars == <<redis, resetToken, nextSid, nextJti, tokens, req, history>>

-----------------------------------------------------------------------------
(* Requests.  `op` is the handler, `pc` the await it stands at, `sid` the   *)
(* session it acts for, `jti` a token it holds, `cur` and `todo` the loop   *)
(* over sessions, `seen` the records enforceSessionLimit has read.  History: *)
(* `owed`, the other sessions a client held when a password handler read the *)
(* index, and `reply`, how that handler answered, kept until the slot is     *)
(* used again.                                                               *)

Op == {"none", "login", "refresh", "logout", "revoke", "list", "change", "reset"}
Pc == {"idle", "members", "scan", "scanRem", "check", "read", "del", "srem",
       "key", "record", "sadd", "expire", "session", "user", "rotate",
       "update", "token", "drop"}

Idle == [op |-> "none", pc |-> "idle", sid |-> None, jti |-> None,
         cur |-> None, todo |-> {}, seen |-> [s \in Sid |-> None],
         owed |-> {}, reply |-> "none"]

RequestState ==
  [op: Op, pc: Pc, sid: Sid \cup {None}, jti: Jti \cup {None},
   cur: Sid \cup {None}, todo: SUBSET Sid,
   seen: [Sid -> Jti \cup {None}], owed: SUBSET Sid,
   reply: {"none", "done", "refused"}]

Live == {s \in Sid : record[s] # None}
Held == {t.sid : t \in tokens}
Usable(t) == refreshKey[t.jti] = t.sid /\ record[t.sid] = t.jti

PasswordHandler(q) == q.op \in {"change", "reset"}
Answer(q, how) ==
  IF PasswordHandler(q) THEN [Idle EXCEPT !.op = q.op, !.owed = q.owed, !.reply = how]
  ELSE Idle

(* revokeSession checks that the record exists before each revocation; the  *)
(* handlers that call revokeSessionInternal directly do not.                *)
Checking(q) == q.op \in {"revoke", "change"}

(* A refresh that has read the session record and will still write it.      *)
PastChecks(q) == q.op = "refresh" /\ q.pc \in {"user", "rotate", "key", "record"}

Refreshing == {req[r].sid : r \in {o \in Request : PastChecks(req[o])}}

(* Mutant: sessions.length - maxSessions victims, no room for the new one.  *)
VictimsOffByOne(seen) ==
  LET found == {s \in Sid : seen[s] # None}
  IN  {s \in found : Cardinality({t \in found : seen[t] > seen[s]}) >= MaxSessions}

(* sort by lastActiveAt, then the first sessions.length - maxSessions + 1.  *)
Victims(seen) ==
  LET found == {s \in Sid : seen[s] # None}
      newer(s) == {t \in found : seen[t] > seen[s]}
  IN  {s \in found : Cardinality(newer(s)) >= MaxSessions - 1}

(* Where a request goes once the session at hand is dealt with.             *)
RevokeNext(q) ==
  IF q.todo # {} THEN [q EXCEPT !.pc = IF Checking(q) THEN "check" ELSE "read"]
  ELSE IF q.op = "login" THEN [q EXCEPT !.pc = "key"]
  ELSE Answer(q, "done")

ScanNext(q) ==
  IF q.todo # {} THEN [q EXCEPT !.pc = "scan"]
  ELSE IF q.op = "list" THEN Idle
  ELSE RevokeNext([q EXCEPT !.todo = Victims(q.seen)])

Become(r, q) == req' = [req EXCEPT ![r] = q]
At(r, pc) == req[r].pc = pc

-----------------------------------------------------------------------------
Init ==
  /\ refreshKey = [j \in Jti |-> None]
  /\ record = [s \in Sid |-> None]
  /\ index = {}
  /\ indexStamp = None
  /\ resetToken = "unsent"
  /\ nextSid = 1 /\ nextJti = 1
  /\ tokens = {}
  /\ req = [r \in Request |-> Idle]
  /\ consumed = {} /\ ended = {} /\ raced = {} /\ orphaned = {}

(* The users row belongs to moderation and to other handlers, which ban,    *)
(* reactivate or delete it at any time without touching Redis: what a       *)
(* request reads of it is free.                                             *)
Account == {"active", "banned", "deleted"}

(* Handlers that a Bearer access token opens: JwtStrategy.validate reloads  *)
(* the account but not the session, which may have been revoked since.      *)
Authenticated(s) == s \in Held

(* login: account found, password right, not banned, email verified.        *)
Login(r) ==
  /\ "login" \in Enabled /\ nextSid \in Sid
  /\ At(r, "idle")
  /\ Become(r, [Idle EXCEPT !.op = "login", !.pc = "members"])
  /\ UNCHANGED <<redis, resetToken, nextSid, nextJti, tokens, history>>

Logout(r) ==
  \E s \in Sid :
    /\ "logout" \in Enabled
    /\ At(r, "idle") /\ Authenticated(s)
    /\ Become(r, [Idle EXCEPT !.op = "logout", !.pc = "read", !.todo = {s}])
    /\ UNCHANGED <<redis, resetToken, nextSid, nextJti, tokens, history>>

RevokeSession(r) ==
  \E s, target \in Sid :
    /\ "revoke" \in Enabled
    /\ At(r, "idle") /\ Authenticated(s) /\ target < nextSid
    /\ Become(r, [Idle EXCEPT !.op = "revoke", !.pc = "check", !.todo = {target}])
    /\ UNCHANGED <<redis, resetToken, nextSid, nextJti, tokens, history>>

ListSessions(r) ==
  /\ "list" \in Enabled
  /\ At(r, "idle") /\ \E s \in Sid : Authenticated(s)
  /\ Become(r, [Idle EXCEPT !.op = "list", !.pc = "members"])
  /\ UNCHANGED <<redis, resetToken, nextSid, nextJti, tokens, history>>

(* changePassword up to the password check; s is the session kept.          *)
ChangePassword(r) ==
  \E s \in Sid :
    /\ "change" \in Enabled
    /\ At(r, "idle") /\ Authenticated(s)
    /\ Become(r, [Idle EXCEPT !.op = "change", !.pc = "update", !.sid = s])
    /\ UNCHANGED <<redis, resetToken, nextSid, nextJti, tokens, history>>

(* forgotPassword: a neutral answer, and a mail only for an active account. *)
ForgotPassword ==
  /\ "reset" \in Enabled
  /\ resetToken = "unsent"
  /\ resetToken' = "live"
  /\ UNCHANGED <<redis, nextSid, nextJti, tokens, req, history>>

(* resetPassword: redis.get of the token; an unknown one is refused.        *)
ResetPassword(r) ==
  /\ At(r, "idle") /\ resetToken = "live"
  /\ Become(r, [Idle EXCEPT !.op = "reset", !.pc = "user"])
  /\ UNCHANGED <<redis, resetToken, nextSid, nextJti, tokens, history>>

(* refresh: any token a client ever got is presented; its key must map to   *)
(* the session it names.                                                    *)
Refresh(r) ==
  \E t \in tokens :
    /\ "refresh" \in Enabled /\ nextJti \in Jti
    /\ At(r, "idle") /\ refreshKey[t.jti] = t.sid
    /\ Become(r, [Idle EXCEPT !.op = "refresh", !.pc = "session",
                              !.sid = t.sid, !.jti = t.jti])
    /\ UNCHANGED <<redis, resetToken, nextSid, nextJti, tokens, history>>

-----------------------------------------------------------------------------
(* resetPassword and changePassword up to the revocations.                  *)

(* A banned or deleted account costs the token and the request.             *)
ResetReadUser(r) ==
  \E account \in Account :
    /\ At(r, "user") /\ req[r].op = "reset"
    /\ Become(r, [req[r] EXCEPT !.pc = IF account = "active" THEN "update" ELSE "drop"])
    /\ UNCHANGED <<redis, resetToken, nextSid, nextJti, tokens, history>>

(* prisma.user.update of the hash fails when the row is gone.               *)
UpdatePassword(r) ==
  \E account \in Account :
    /\ At(r, "update")
    /\ Become(r, IF account = "deleted" THEN Idle
                 ELSE [req[r] EXCEPT !.pc = IF req[r].op = "reset" THEN "token" ELSE "members"])
    /\ UNCHANGED <<redis, resetToken, nextSid, nextJti, tokens, history>>

DeleteResetToken(r) ==
  /\ At(r, "token") \/ At(r, "drop")
  /\ resetToken' = "gone"
  /\ Become(r, IF At(r, "drop") THEN Idle ELSE [req[r] EXCEPT !.pc = "members"])
  /\ UNCHANGED <<redis, nextSid, nextJti, tokens, history>>

-----------------------------------------------------------------------------
(* The loops over the index.                                                *)

(* smembers: enforceSessionLimit returns at once below the limit.           *)
ReadIndex(r) ==
  LET q == req[r] IN
  /\ At(r, "members")
  /\ Become(r,
       IF q.op = "login" /\ Cardinality(index) < MaxSessions THEN [q EXCEPT !.pc = "key"]
       ELSE IF q.op \in {"login", "list"} THEN ScanNext([q EXCEPT !.todo = index])
       ELSE RevokeNext([q EXCEPT !.todo = index \ {q.sid},
                                 !.owed = (Live \cap Held) \ {q.sid}]))
  /\ UNCHANGED <<redis, resetToken, nextSid, nextJti, tokens, history>>

(* getJson of each indexed session; srem of those without a record.         *)
ScanRecord(r) ==
  \E s \in req[r].todo :
    /\ At(r, "scan")
    /\ LET q == [req[r] EXCEPT !.todo = @ \ {s}] IN
       Become(r, IF record[s] = None
                 THEN [q EXCEPT !.pc = "scanRem", !.cur = s]
                 ELSE ScanNext([q EXCEPT !.seen[s] = record[s]]))
    /\ UNCHANGED <<redis, resetToken, nextSid, nextJti, tokens, history>>

(* Mutant: the TTL of an emptied set survives it.                           *)
RemoveKeepsTtl(s) ==
  /\ index' = index \ {s}
  /\ UNCHANGED indexStamp

(* Redis drops a set with its last member, and its TTL with it.             *)
RemoveFromIndex(s) ==
  /\ index' = index \ {s}
  /\ indexStamp' = IF index \subseteq {s} THEN None ELSE indexStamp

ScanRemove(r) ==
  /\ At(r, "scanRem")
  /\ RemoveFromIndex(req[r].cur)
  /\ Become(r, ScanNext([req[r] EXCEPT !.cur = None]))
  /\ UNCHANGED <<refreshKey, record, resetToken, nextSid, nextJti, tokens, history>>

(* revokeSession: "Session introuvable" is thrown out of the caller's loop. *)
CheckSession(r) ==
  \E s \in req[r].todo :
    /\ At(r, "check")
    /\ Become(r, IF record[s] = None THEN Answer(req[r], "refused")
                 ELSE [req[r] EXCEPT !.pc = "read", !.cur = s])
    /\ UNCHANGED <<redis, resetToken, nextSid, nextJti, tokens, history>>

(* Mutant: a session without record ends the loop instead of the iteration. *)
ReadRecordStops(r) ==
  LET q == req[r] IN
  \E s \in IF q.cur # None THEN {q.cur} ELSE q.todo :
    /\ At(r, "read")
    /\ q.op = "login" => \A t \in q.todo : q.seen[s] <= q.seen[t]
    /\ Become(r, IF record[s] = None
                 THEN RevokeNext([q EXCEPT !.todo = {}, !.cur = None])
                 ELSE [q EXCEPT !.pc = "del", !.cur = s, !.jti = record[s]])
    /\ UNCHANGED <<redis, resetToken, nextSid, nextJti, tokens, history>>

(* revokeSessionInternal reads the record: nothing to do when it is gone,   *)
(* and its index entry stays.  A login revokes its victims oldest first.    *)
ReadRecord(r) ==
  LET q == req[r] IN
  \E s \in IF q.cur # None THEN {q.cur} ELSE q.todo :
    /\ At(r, "read")
    /\ q.op = "login" => \A t \in q.todo : q.seen[s] <= q.seen[t]
    /\ Become(r, IF record[s] = None
                 THEN RevokeNext([q EXCEPT !.todo = @ \ {s}, !.cur = None])
                 ELSE [q EXCEPT !.pc = "del", !.cur = s, !.jti = record[s]])
    /\ UNCHANGED <<redis, resetToken, nextSid, nextJti, tokens, history>>

(* Mutant: the DEL names the refresh key alone.                             *)
DeleteKeyOnly(r) ==
  LET q == req[r] IN
  /\ At(r, "del")
  /\ refreshKey' = [refreshKey EXCEPT ![q.jti] = None]
  /\ ended' = ended \cup {q.cur}
  /\ raced' = raced \cup ({q.cur} \cap Refreshing)
  /\ Become(r, [q EXCEPT !.pc = "srem"])
  /\ UNCHANGED <<record, index, indexStamp, resetToken, nextSid, nextJti, tokens,
                 consumed, orphaned>>

(* One DEL of the refresh key of the jti read and of the record.            *)
DeleteSession(r) ==
  LET q == req[r] IN
  /\ At(r, "del")
  /\ refreshKey' = [refreshKey EXCEPT ![q.jti] = None]
  /\ record' = [record EXCEPT ![q.cur] = None]
  /\ ended' = ended \cup {q.cur}
  /\ raced' = raced \cup ({q.cur} \cap Refreshing)
  /\ Become(r, [q EXCEPT !.pc = "srem"])
  /\ UNCHANGED <<index, indexStamp, resetToken, nextSid, nextJti, tokens,
                 consumed, orphaned>>

(* Mutant: DEL of the whole index instead of SREM of one session.           *)
RevokeDropsIndex(r) ==
  /\ At(r, "srem")
  /\ index' = {} /\ indexStamp' = None
  /\ Become(r, RevokeNext([req[r] EXCEPT !.todo = @ \ {req[r].cur}, !.cur = None]))
  /\ UNCHANGED <<refreshKey, record, resetToken, nextSid, nextJti, tokens, history>>

RevokeFromIndex(r) ==
  /\ At(r, "srem")
  /\ RemoveFromIndex(req[r].cur)
  /\ Become(r, RevokeNext([req[r] EXCEPT !.todo = @ \ {req[r].cur}, !.cur = None]))
  /\ UNCHANGED <<refreshKey, record, resetToken, nextSid, nextJti, tokens, history>>

-----------------------------------------------------------------------------
(* issueSessionForUser: refresh key, record, index entry, TTL of the index. *)

IssueKey(r) ==
  /\ At(r, "key") /\ req[r].op = "login"
  /\ nextSid \in Sid /\ nextJti \in Jti
  /\ refreshKey' = [refreshKey EXCEPT ![nextJti] = nextSid]
  /\ nextSid' = nextSid + 1 /\ nextJti' = nextJti + 1
  /\ Become(r, [Idle EXCEPT !.op = "login", !.pc = "record",
                            !.sid = nextSid, !.jti = nextJti])
  /\ UNCHANGED <<record, index, indexStamp, resetToken, tokens, history>>

(* setJson of the record, the last write of a refresh: it answers.          *)
WriteRecord(r) ==
  LET q == req[r] IN
  /\ At(r, "record")
  /\ record' = [record EXCEPT ![q.sid] = q.jti]
  /\ tokens' = IF q.op = "refresh" THEN tokens \cup {[jti |-> q.jti, sid |-> q.sid]}
               ELSE tokens
  /\ Become(r, IF q.op = "refresh" THEN Idle ELSE [q EXCEPT !.pc = "sadd"])
  /\ UNCHANGED <<refreshKey, index, indexStamp, resetToken, nextSid, nextJti, history>>

IssueIndex(r) ==
  /\ At(r, "sadd")
  /\ index' = index \cup {req[r].sid}
  /\ Become(r, [req[r] EXCEPT !.pc = "expire"])
  /\ UNCHANGED <<refreshKey, record, indexStamp, resetToken, nextSid, nextJti,
                 tokens, history>>

(* EXPIRE of the index, without effect when the set is gone; then the       *)
(* tokens are signed and answered.                                          *)
IssueExpire(r) ==
  LET q == req[r] IN
  /\ At(r, "expire")
  /\ indexStamp' = IF index = {} THEN None ELSE nextJti - 1
  /\ tokens' = tokens \cup {[jti |-> q.jti, sid |-> q.sid]}
  /\ Become(r, Idle)
  /\ UNCHANGED <<refreshKey, record, index, resetToken, nextSid, nextJti, history>>

-----------------------------------------------------------------------------
(* refresh after its first check.                                           *)

RefreshReadSession(r) ==
  /\ At(r, "session")
  /\ Become(r, IF record[req[r].sid] = req[r].jti THEN [req[r] EXCEPT !.pc = "user"]
               ELSE Idle)
  /\ UNCHANGED <<redis, resetToken, nextSid, nextJti, tokens, history>>

RefreshReadUser(r) ==
  \E account \in Account :
    /\ At(r, "user") /\ req[r].op = "refresh"
    /\ Become(r, IF account = "active" THEN [req[r] EXCEPT !.pc = "rotate"] ELSE Idle)
    /\ UNCHANGED <<redis, resetToken, nextSid, nextJti, tokens, history>>

RotateDelete(r) ==
  LET q == req[r] IN
  /\ At(r, "rotate")
  /\ refreshKey' = [refreshKey EXCEPT ![q.jti] = None]
  /\ consumed' = consumed \cup {q.jti}
  /\ Become(r, [q EXCEPT !.pc = "key"])
  /\ UNCHANGED <<record, index, indexStamp, resetToken, nextSid, nextJti, tokens,
                 ended, raced, orphaned>>

(* Mutant: the refresh renews the presented token instead of rotating it.   *)
RotateSameJti(r) ==
  LET q == req[r] IN
  /\ At(r, "key") /\ q.op = "refresh"
  /\ refreshKey' = [refreshKey EXCEPT ![q.jti] = q.sid]
  /\ Become(r, [q EXCEPT !.pc = "record"])
  /\ UNCHANGED <<record, index, indexStamp, resetToken, nextSid, nextJti, tokens, history>>

RotateKey(r) ==
  LET q == req[r] IN
  /\ At(r, "key") /\ q.op = "refresh"
  /\ nextJti \in Jti
  /\ refreshKey' = [refreshKey EXCEPT ![nextJti] = q.sid]
  /\ nextJti' = nextJti + 1
  /\ Become(r, [q EXCEPT !.pc = "record", !.jti = nextJti])
  /\ UNCHANGED <<record, index, indexStamp, resetToken, nextSid, tokens, history>>

-----------------------------------------------------------------------------
(* The environment.                                                         *)

(* Every key is written with the same TTL, refreshTtlSeconds (days): keys   *)
(* expire in the order of their stamps, and none before the request that    *)
(* writes it has ended.                                                     *)
Stamps == {j \in Jti : refreshKey[j] # None} \cup {record[s] : s \in Live}
          \cup ({indexStamp} \ {None})
Oldest(j) == j \in Stamps /\ \A k \in Stamps : j <= k

Expire ==
  \E j \in Jti :
    /\ "ttl" \in Enabled
    /\ Oldest(j)
    /\ \A r \in Request : req[r].pc \in {"record", "sadd", "expire"} => req[r].jti # j
    /\ \/ /\ refreshKey[j] # None
          /\ refreshKey' = [refreshKey EXCEPT ![j] = None]
          /\ UNCHANGED <<record, index, indexStamp, raced, orphaned>>
       \/ /\ refreshKey[j] = None
          /\ \E s \in Live : /\ record[s] = j
                            /\ record' = [record EXCEPT ![s] = None]
                            /\ raced' = raced \cup ({s} \cap Refreshing)
          /\ UNCHANGED <<refreshKey, index, indexStamp, orphaned>>
       \/ /\ refreshKey[j] = None /\ indexStamp = j
          /\ \A s \in Live : record[s] # j
          /\ index' = {} /\ indexStamp' = None /\ orphaned' = orphaned \cup index
          /\ UNCHANGED <<refreshKey, record, raced>>
    /\ UNCHANGED <<resetToken, nextSid, nextJti, tokens, req, consumed, ended>>

ExpireResetToken ==
  /\ "ttl" \in Enabled
  /\ resetToken = "live" /\ resetToken' = "gone"
  /\ UNCHANGED <<redis, nextSid, nextJti, tokens, req, history>>

(* The process stops, or Redis fails, between two awaits of a request.      *)
Crash(r) ==
  /\ "crash" \in Enabled
  /\ ~At(r, "idle")
  /\ Become(r, Idle)
  /\ UNCHANGED <<redis, resetToken, nextSid, nextJti, tokens, history>>

Step(r) ==
  \/ Login(r) \/ Logout(r) \/ RevokeSession(r) \/ ListSessions(r)
  \/ ChangePassword(r) \/ ResetPassword(r) \/ Refresh(r)
  \/ ResetReadUser(r) \/ UpdatePassword(r) \/ DeleteResetToken(r)
  \/ ReadIndex(r) \/ ScanRecord(r) \/ ScanRemove(r)
  \/ CheckSession(r) \/ ReadRecord(r) \/ DeleteSession(r) \/ RevokeFromIndex(r)
  \/ IssueKey(r) \/ WriteRecord(r) \/ IssueIndex(r) \/ IssueExpire(r)
  \/ RefreshReadSession(r) \/ RefreshReadUser(r) \/ RotateDelete(r) \/ RotateKey(r)
  \/ Crash(r)

Next ==
  \/ \E r \in Request : Step(r)
  \/ ForgotPassword \/ Expire \/ ExpireResetToken

Spec == Init /\ [][Next]_vars

-----------------------------------------------------------------------------
TypeOK ==
  /\ refreshKey \in [Jti -> Sid \cup {None}]
  /\ record \in [Sid -> Jti \cup {None}]
  /\ index \subseteq Sid
  /\ indexStamp \in Jti \cup {None}
  /\ index = {} => indexStamp = None
  /\ resetToken \in {"unsent", "live", "gone"}
  /\ nextSid \in 1 .. MaxSid + 1 /\ nextJti \in 1 .. MaxJti + 1
  /\ tokens \subseteq [jti: Jti, sid: Sid]
  /\ req \in [Request -> RequestState]
  /\ consumed \subseteq Jti /\ ended \subseteq Sid
  /\ raced \subseteq Sid /\ orphaned \subseteq Sid

(* RotatedTokenIsDead: a refresh token that one rotation has consumed is    *)
(* refused for ever after, whatever the other requests do, so a token is    *)
(* exchanged twice only by requests that overlap (refresh, step 3).         *)
RotatedTokenIsDead == \A t \in tokens : t.jti \in consumed => ~Usable(t)

(* RevokedReturnsOnlyByRace: a session that logout, a revocation, the limit *)
(* or a password handler deleted has a record again only when a refresh of  *)
(* it had passed its checks before the deletion and writes it afterwards.   *)
RevokedReturnsOnlyByRace == \A s \in ended \ raced : record[s] = None

(* IndexedSessionsBounded: logins that overlap exceed the limit by at most  *)
(* one listed session per other request in flight, not counting sessions a  *)
(* refresh has revived (enforceSessionLimit).                               *)
IndexedSessionsBounded ==
  Cardinality((index \cap Live) \ raced) <= MaxSessions + Cardinality(Request) - 1

(* LiveSessionIsListed: a session a client can still refresh is in the      *)
(* index, where listSessions, the limit and the password handlers look for  *)
(* it, unless the index expired under it or a refresh revived it.           *)
LiveSessionIsListed ==
  \A t \in tokens : Usable(t) => t.sid \in index \cup orphaned \cup raced

(* RevocationReachesListed: once resetPassword, or changePassword, answers  *)
(* with success, no session a client held when the index was read is left   *)
(* (except the caller's), unless the index had lost it or a refresh revived *)
(* it (revokeAllSessions, changePassword).                                  *)
RevocationReachesListed ==
  \A r \in Request :
    req[r].reply = "done" => req[r].owed \cap Live \subseteq raced \cup orphaned

(* ResetRevokesEverySession: resetPassword revokes all the sessions of the  *)
(* account, also those it does not find in the index.                       *)
ResetRevokesEverySession ==
  \A r \in Request :
    req[r].op = "reset" /\ req[r].reply = "done" => req[r].owed \cap Live \subseteq raced

=============================================================================
