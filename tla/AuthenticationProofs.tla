---------------------------- MODULE AuthenticationProofs ----------------------------
(***************************************************************************)
(* Proofs about Sessions, for every number of requests, sessions, tokens   *)
(* and every session limit, and about LoginLockout, for every number of    *)
(* attempts and every threshold.                                           *)
(*                                                                         *)
(* The inductive invariant of Sessions separates what is true of each      *)
(* request in flight (RequestInv), which no step of another request can    *)
(* spoil, from what is true of the Redis keys (GlobalInv).  Both rest on   *)
(* one idea: a session whose record is gone stays gone, unless a refresh   *)
(* that had read the record puts it back, and that refresh left its mark   *)
(* in raced.  The session limit needs more (LimitInv), proved beside it.   *)
(***************************************************************************)
EXTENDS Sessions, LoginLockout, FiniteSetTheorems, TLAPS

Recording(q) == q.op = "login" /\ q.pc = "record"
Issuing(q) == q.op = "login" /\ q.pc \in {"record", "sadd", "expire"}

(* Sessions whose record no request has written yet.                        *)
Unwritten ==
  {s \in Sid : s >= nextSid \/ \E r \in Request : Recording(req[r]) /\ req[r].sid = s}

Gone(s) == record[s] = None \/ s \in raced
Listed(s) == s \in index \cup orphaned \/ Gone(s)

(* Which handler stands at which await.                                     *)
Control(q) ==
  /\ q.op = "refresh" => q.pc \in {"session", "user", "rotate", "key", "record"}
  /\ q.pc \in {"session", "rotate"} => q.op = "refresh"
  /\ q.pc = "record" => q.op \in {"login", "refresh"}
  /\ q.pc \in {"sadd", "expire"} => q.op = "login"
  /\ q.pc \in {"scan", "scanRem"} => q.op \in {"login", "list"}
  /\ q.pc \in {"check", "read", "del", "srem"} =>
       q.op \in {"login", "logout", "revoke", "change", "reset"}
  /\ q.pc # "idle" => q.op # "none" /\ q.reply = "none"
  /\ q.pc \notin {"scanRem", "read", "del", "srem"} => q.cur = None

(* What a request holds while it revokes, scans, refreshes or issues.       *)
Holds(q) ==
  /\ q.op = "refresh" => q.sid \in Held /\ q.jti \in Jti /\ q.jti < nextJti
  /\ PastChecks(q) /\ Gone(q.sid) => q.sid \in raced
  /\ Issuing(q) => /\ q.sid \in Sid /\ q.sid < nextSid
                   /\ q.jti \in Jti /\ q.jti < nextJti
  /\ q.pc = "expire" => Listed(q.sid)
  /\ q.pc = "read" => q.cur \in q.todo \cup {None}
  /\ q.pc = "del" => q.cur \in q.todo \ Unwritten
  /\ q.pc = "srem" => q.cur \in q.todo \cap ended
  /\ q.pc = "scanRem" => q.cur \in Sid \ Unwritten /\ Gone(q.cur)
  /\ q.pc \in {"scan", "scanRem"} => q.todo \cap Unwritten = {}

(* A password handler still has to do with each session it owes, or the     *)
(* session is gone or was lost by the index.                                *)
Owes(q) ==
  /\ q.owed \subseteq Held
  /\ PasswordHandler(q) /\ q.pc \in {"check", "read", "del", "srem"} =>
       \A s \in q.owed : s \in q.todo \cup orphaned \/ Gone(s)
  /\ q.reply = "done" => \A s \in q.owed : s \in orphaned \/ Gone(s)

RequestInv(q) == Control(q) /\ Holds(q) /\ Owes(q)

ConsumedIsDead == \A j \in consumed : j < nextJti /\ refreshKey[j] = None
TokensIssued == \A t \in tokens : t.jti < nextJti
UnwrittenIsUnknown == \A s \in Unwritten : record[s] = None /\ s \notin ended \cup Held \cup index
IssuesDiffer ==
  \A r, o \in Request :
    r # o /\ Issuing(req[r]) /\ Issuing(req[o]) => req[r].sid # req[o].sid
EndedIsGone == \A s \in ended : Gone(s)
HeldIsListed == \A s \in Held : Listed(s)

GlobalInv ==
  /\ ConsumedIsDead /\ TokensIssued /\ UnwrittenIsUnknown
  /\ IssuesDiffer /\ EndedIsGone /\ HeldIsListed

IInv == TypeOK /\ GlobalInv /\ \A r \in Request : RequestInv(req[r])

-----------------------------------------------------------------------------
(* Requests.                                                                *)

LEMMA IdleInv == Idle \in RequestState /\ RequestInv(Idle) /\ ~Issuing(Idle)
BY DEF Idle, RequestState, RequestInv, Control, Holds, Owes, Issuing, PastChecks,
       PasswordHandler, Op, Pc

LEMMA AnswerInv ==
  ASSUME NEW q \in RequestState, NEW how \in {"none", "done", "refused"},
         q.owed \subseteq Held,
         how = "done" => \A s \in q.owed : s \in orphaned \/ Gone(s)
  PROVE  /\ Answer(q, how) \in RequestState
         /\ RequestInv(Answer(q, how))
         /\ ~Issuing(Answer(q, how))
<1>1. CASE PasswordHandler(q)
  <2> DEFINE a == [Idle EXCEPT !.op = q.op, !.owed = q.owed, !.reply = how]
  <2>1. Answer(q, how) = a BY <1>1 DEF Answer
  <2>2. a \in RequestState BY IdleInv DEF RequestState
  <2>3. /\ a.op \in {"change", "reset"} /\ a.pc = "idle"
        /\ a.owed = q.owed /\ a.reply = how
    BY <1>1, IdleInv DEF Idle, PasswordHandler, RequestState
  <2>4. a.cur = None BY DEF Idle
  <2> HIDE DEF a
  <2> QED
    BY <1>1, <2>1, <2>2, <2>3, <2>4 DEF RequestState, RequestInv, Control, Holds, Owes, Issuing,
      PastChecks, PasswordHandler, Op, Pc
<1>2. CASE ~PasswordHandler(q) BY <1>2, IdleInv DEF Answer
<1> QED BY <1>1, <1>2

(* A request that revokes, with what it may owe.                            *)
Revoking(q) ==
  /\ q.op \in {"login", "logout", "revoke", "change", "reset"}
  /\ q.cur = None /\ q.reply = "none" /\ q.owed \subseteq Held
  /\ PasswordHandler(q) => \A s \in q.owed : s \in q.todo \cup orphaned \/ Gone(s)

LEMMA RevokeNextInv ==
  ASSUME NEW q \in RequestState, Revoking(q)
  PROVE  /\ RevokeNext(q) \in RequestState
         /\ RequestInv(RevokeNext(q))
         /\ ~Issuing(RevokeNext(q))
<1>1. CASE q.todo # {}
  <2>1. PICK pc \in {"check", "read"} : RevokeNext(q) = [q EXCEPT !.pc = pc]
    BY <1>1 DEF RevokeNext
  <2> QED
    BY <2>1 DEF Revoking, RequestState, RequestInv, Control, Holds, Owes, Issuing,
      PastChecks, PasswordHandler, Op, Pc
<1>2. CASE q.todo = {} /\ q.op = "login"
  <2>1. RevokeNext(q) = [q EXCEPT !.pc = "key"] BY <1>2 DEF RevokeNext
  <2> QED
    BY <1>2, <2>1 DEF Revoking, RequestState, RequestInv, Control, Holds, Owes, Issuing,
      PastChecks, PasswordHandler, Op, Pc
<1>3. CASE q.todo = {} /\ q.op # "login"
  <2>1. RevokeNext(q) = Answer(q, "done") BY <1>3 DEF RevokeNext
  <2>2. CASE PasswordHandler(q)
    BY <1>3, <2>1, <2>2, AnswerInv DEF Revoking
  <2>3. CASE ~PasswordHandler(q)
    BY <2>1, <2>3, IdleInv DEF Answer
  <2> QED BY <2>2, <2>3
<1> QED BY <1>1, <1>2, <1>3

LEMMA ScanNextInv ==
  ASSUME NEW q \in RequestState, q.op \in {"login", "list"}, q.cur = None, q.reply = "none",
         q.owed \subseteq Held, q.todo \cap Unwritten = {}
  PROVE  /\ ScanNext(q) \in RequestState
         /\ RequestInv(ScanNext(q))
         /\ ~Issuing(ScanNext(q))
<1>1. CASE q.todo # {}
  <2>1. ScanNext(q) = [q EXCEPT !.pc = "scan"] BY <1>1 DEF ScanNext
  <2> QED
    BY <2>1 DEF RequestState, RequestInv, Control, Holds, Owes, Issuing, PastChecks,
      PasswordHandler, Op, Pc
<1>2. CASE q.todo = {} /\ q.op = "list"
  BY <1>2, IdleInv DEF ScanNext
<1>3. CASE q.todo = {} /\ q.op = "login"
  <2> DEFINE v == [q EXCEPT !.todo = Victims(q.seen)]
  <2>1. ScanNext(q) = RevokeNext(v) BY <1>3 DEF ScanNext
  <2>2. Victims(q.seen) \subseteq Sid BY DEF Victims
  <2>3. v \in RequestState BY <2>2 DEF RequestState
  <2>4. Revoking(v) BY <1>3 DEF Revoking, RequestState, PasswordHandler
  <2> HIDE DEF v
  <2> QED BY <2>1, <2>3, <2>4, RevokeNextInv
<1> QED BY <1>1, <1>2, <1>3

-----------------------------------------------------------------------------
(* What every step keeps: numbers and history grow, and what is written and *)
(* gone stays so.                                                           *)
Grows ==
  /\ raced \subseteq raced' /\ ended \subseteq ended' /\ orphaned \subseteq orphaned'
  /\ Held \subseteq Held'
  /\ nextSid <= nextSid' /\ nextJti <= nextJti'
  /\ Unwritten' \subseteq Unwritten
  /\ \A s \in Sid \ Unwritten : (Gone(s) => Gone(s)') /\ (Listed(s) => Listed(s)')
  /\ \A s \in Refreshing : Gone(s)' => Gone(s) \/ s \in raced'

(* Tokens name sessions, and what a request holds has been written.         *)
LEMMA HeldWritten ==
  ASSUME IInv
  PROVE  /\ Held \subseteq Sid \ Unwritten
         /\ ended \subseteq Sid \ Unwritten
         /\ \A r \in Request :
              /\ req[r] \in RequestState /\ RequestInv(req[r])
              /\ req[r].pc = "expire" => req[r].sid \in Sid \ Unwritten
<1>1. Held \subseteq Sid BY DEF IInv, TypeOK, Held
<1>2. /\ Held \subseteq Sid \ Unwritten
      /\ ended \subseteq Sid \ Unwritten
  BY <1>1 DEF IInv, TypeOK, GlobalInv, UnwrittenIsUnknown
<1>3. ASSUME NEW r \in Request, req[r].pc = "expire"
      PROVE  req[r].sid \in Sid \ Unwritten
  <2>1. Issuing(req[r]) /\ ~Recording(req[r]) /\ req[r].sid \in Sid /\ req[r].sid < nextSid
    BY <1>3 DEF IInv, RequestInv, Control, Holds, Issuing, Recording
  <2>2. \A o \in Request : Recording(req[o]) => req[o].sid # req[r].sid
    BY <2>1 DEF IInv, GlobalInv, IssuesDiffer, Recording, Issuing
  <2>3. nextSid \in Nat /\ req[r].sid \in Nat
    BY <2>1, SessionsAssumption DEF IInv, TypeOK, Sid, SessionsAssumption
  <2>4. ~(req[r].sid >= nextSid) BY <2>1, <2>3
  <2> QED BY <2>1, <2>2, <2>4 DEF Unwritten
<1> QED BY <1>2, <1>3 DEF IInv, TypeOK

LEMMA LessMono ==
  \A a, b, c \in Nat : a < b /\ b <= c => a < c
OBVIOUS

(* A step of somebody else spoils nothing of what a request relies on.      *)
LEMMA RigidFrame ==
  ASSUME IInv, Grows, nextSid' \in Nat, nextJti' \in Nat,
         NEW q \in RequestState, RequestInv(q),
         PastChecks(q) => (Gone(q.sid)' => Gone(q.sid) \/ q.sid \in raced'),
         q.pc = "expire" => q.sid \notin Unwritten
  PROVE  RequestInv(q)'
<1>0. /\ nextSid \in Nat /\ nextJti \in Nat /\ Sid \subseteq Nat /\ Jti \subseteq Nat
  BY SessionsAssumption DEF IInv, TypeOK, Sid, Jti, SessionsAssumption
<1>4. nextSid <= nextSid' /\ nextJti <= nextJti' BY DEF Grows
<1>1. Control(q)' BY DEF RequestInv, Control
<1>2. Owes(q)'
  <2>1. q.owed \subseteq Held' BY DEF RequestInv, Owes, Grows
  <2>2. \A s \in q.owed : s \in Sid \ Unwritten BY HeldWritten DEF RequestInv, Owes
  <2>3. \A s \in q.owed : Gone(s) => Gone(s)' BY <2>2 DEF Grows
  <2> QED BY <2>1, <2>3 DEF RequestInv, Owes, PasswordHandler, Grows
<1>3. Holds(q)'
  <2>1. (q.op = "refresh" => q.sid \in Held /\ q.jti \in Jti /\ q.jti < nextJti)'
    <3>1. q.op = "refresh" => q.sid \in Held /\ q.jti \in Jti /\ q.jti < nextJti
      BY DEF RequestInv, Holds
    <3>2. ASSUME q.op = "refresh" PROVE q.jti < nextJti'
      BY <3>1, <3>2, <1>0, <1>4, LessMono
    <3> QED BY <3>1, <3>2 DEF Grows
  <2>2. (PastChecks(q) /\ Gone(q.sid) => q.sid \in raced)'
    BY DEF RequestInv, Holds, Grows, PastChecks
  <2>3. (Issuing(q) => /\ q.sid \in Sid /\ q.sid < nextSid
                       /\ q.jti \in Jti /\ q.jti < nextJti)'
    <3>1. Issuing(q) => /\ q.sid \in Sid /\ q.sid < nextSid
                        /\ q.jti \in Jti /\ q.jti < nextJti
      BY DEF RequestInv, Holds
    <3>2. ASSUME Issuing(q) PROVE q.sid < nextSid' /\ q.jti < nextJti'
      BY <3>1, <3>2, <1>0, <1>4, LessMono
    <3> QED BY <3>1, <3>2 DEF Issuing
  <2>4. (q.pc = "expire" => Listed(q.sid))'
    <3> SUFFICES ASSUME q.pc = "expire" PROVE Listed(q.sid)' OBVIOUS
    <3>1. q.op = "login" BY DEF RequestInv, Control
    <3>2. Listed(q.sid) /\ q.sid \in Sid BY <3>1 DEF RequestInv, Holds, Issuing
    <3> QED BY <3>2 DEF Grows
  <2>9. (q.pc = "read" => q.cur \in q.todo \cup {None})' BY DEF RequestInv, Holds
  <2>5. (q.pc = "del" => q.cur \in q.todo \ Unwritten)'
    BY DEF RequestInv, Holds, Grows
  <2>6. (q.pc = "srem" => q.cur \in q.todo \cap ended)'
    BY DEF RequestInv, Holds, Grows
  <2>7. (q.pc = "scanRem" => q.cur \in Sid \ Unwritten /\ Gone(q.cur))'
    BY DEF RequestInv, Holds, Grows
  <2>8. (q.pc \in {"scan", "scanRem"} => q.todo \cap Unwritten = {})'
    BY DEF RequestInv, Holds, Grows
  <2> QED BY <2>1, <2>2, <2>3, <2>4, <2>5, <2>6, <2>7, <2>8, <2>9 DEF Holds
<1> QED BY <1>1, <1>2, <1>3 DEF RequestInv

LEMMA OthersFrame ==
  ASSUME IInv, Grows, nextSid' \in Nat, nextJti' \in Nat,
         NEW o \in Request, req'[o] = req[o]
  PROVE  RequestInv(req[o])'
<1> DEFINE q == req[o]
<1>1. q \in RequestState /\ RequestInv(q) /\ (q.pc = "expire" => q.sid \notin Unwritten)
  BY HeldWritten
<1>2. PastChecks(q) => q.sid \in Refreshing BY DEF Refreshing
<1>3. PICK v \in RequestState : v = req[o] BY <1>1
<1>4. PastChecks(v) => (Gone(v.sid)' => Gone(v.sid) \/ v.sid \in raced')
  BY <1>2, <1>3 DEF Grows
<1>5. RequestInv(v)' BY <1>1, <1>3, <1>4, RigidFrame
<1> QED BY <1>3, <1>5

-----------------------------------------------------------------------------
(* Steps that read Redis and PostgreSQL, and change the request alone.      *)

LEMMA QuietStep ==
  ASSUME IInv, NEW r \in Request, NEW q \in RequestState,
         Become(r, q), RequestInv(q), ~Issuing(q),
         resetToken' \in {"unsent", "live", "gone"},
         UNCHANGED <<redis, nextSid, nextJti, tokens, history>>
  PROVE  IInv'
<1> USE DEF redis, history
<1>1. \A s : (Gone(s)' <=> Gone(s)) /\ (Listed(s)' <=> Listed(s)) BY DEF Gone, Listed
<1>2. Held' = Held BY DEF Held
<1>r. req'[r] = q /\ \A o \in Request \ {r} : req'[o] = req[o]
  BY DEF IInv, TypeOK, Become
<1>3. \A o \in Request : Issuing(req[o])' => o # r /\ req'[o] = req[o] /\ Issuing(req[o])
  BY <1>r DEF Issuing
<1>4. Unwritten' \subseteq Unwritten
  BY <1>3 DEF Unwritten, Recording, Issuing
<1>5. Grows
  <2>1. nextSid <= nextSid' /\ nextJti <= nextJti'
    BY SessionsAssumption DEF IInv, TypeOK, SessionsAssumption
  <2> QED BY <1>1, <1>2, <1>4, <2>1 DEF Grows
<1>6. TypeOK' BY DEF IInv, TypeOK, Become
<1>7. GlobalInv'
  <2>1. ConsumedIsDead' /\ TokensIssued' BY DEF IInv, GlobalInv, ConsumedIsDead, TokensIssued
  <2>2. UnwrittenIsUnknown' BY <1>2, <1>4 DEF IInv, GlobalInv, UnwrittenIsUnknown
  <2>3. IssuesDiffer' BY <1>3 DEF IInv, GlobalInv, IssuesDiffer
  <2>4. EndedIsGone' BY <1>1 DEF IInv, GlobalInv, EndedIsGone
  <2>5. HeldIsListed' BY <1>1, <1>2 DEF IInv, GlobalInv, HeldIsListed
  <2> QED BY <2>1, <2>2, <2>3, <2>4, <2>5 DEF GlobalInv
<1>8. nextSid' \in Nat /\ nextJti' \in Nat
  BY SessionsAssumption DEF IInv, TypeOK, SessionsAssumption
<1>9. RequestInv(req[r])'
  <2>1. q.pc = "expire" => q.sid \notin Unwritten
    BY DEF RequestInv, Control, Issuing
  <2>2. RequestInv(q)' BY <1>1, <1>5, <1>8, <2>1, RigidFrame
  <2> QED BY <1>r, <2>2
<1>10. \A o \in Request \ {r} : RequestInv(req[o])' BY <1>r, <1>5, <1>8, OthersFrame
<1> QED BY <1>6, <1>7, <1>9, <1>10 DEF IInv

LEMMA ResetTokenStep ==
  ASSUME IInv, ForgotPassword \/ ExpireResetToken PROVE IInv'
<1> USE DEF redis, history, ForgotPassword, ExpireResetToken
<1>1. \A s : (Gone(s)' <=> Gone(s)) /\ (Listed(s)' <=> Listed(s)) BY DEF Gone, Listed
<1>2. Held' = Held /\ Unwritten' = Unwritten BY DEF Held, Unwritten
<1>3. TypeOK' BY DEF IInv, TypeOK
<1>4. GlobalInv'
  BY <1>1, <1>2 DEF IInv, GlobalInv, ConsumedIsDead, TokensIssued, UnwrittenIsUnknown,
    IssuesDiffer, EndedIsGone, HeldIsListed
<1>5. \A r \in Request : Holds(req[r])' BY <1>1, <1>2 DEF IInv, RequestInv, Holds
<1>6. \A r \in Request : Owes(req[r])' BY <1>1, <1>2 DEF IInv, RequestInv, Owes
<1>7. \A r \in Request : Control(req[r])' BY DEF IInv, RequestInv, Control
<1> QED BY <1>3, <1>4, <1>5, <1>6, <1>7 DEF IInv, RequestInv

(* A request at its first await, or any other that holds nothing yet.       *)
Starting(q) ==
  /\ q.op \notin {"refresh", "none"}
  /\ q.pc \in {"read", "check"} => q.op \in {"logout", "revoke"}
  /\ q.cur = None /\ q.reply = "none" /\ q.owed = {}
  /\ q.pc \in {"members", "read", "check", "update", "user", "token", "drop"}

LEMMA StartInv ==
  ASSUME NEW q \in RequestState, Starting(q)
  PROVE  RequestInv(q) /\ ~Issuing(q)
BY DEF Starting, RequestInv, Control, Holds, Owes, Issuing, PastChecks

LEMMA StartStep ==
  ASSUME IInv, NEW r \in Request, NEW q \in RequestState, Become(r, q), Starting(q),
         UNCHANGED <<redis, resetToken, nextSid, nextJti, tokens, history>>
  PROVE  IInv'
BY StartInv, QuietStep DEF IInv, TypeOK

(* The first await of each handler.                                         *)
LEMMA StartSteps ==
  ASSUME IInv, NEW r \in Request,
         \/ Login(r) \/ Logout(r) \/ RevokeSession(r) \/ ListSessions(r)
         \/ ChangePassword(r) \/ ResetPassword(r) \/ Crash(r)
  PROVE  IInv'
<1>1. CASE Login(r)
  <2> DEFINE q == [Idle EXCEPT !.op = "login", !.pc = "members"]
  <2>1. q \in RequestState BY IdleInv DEF RequestState, Op, Pc
  <2>2. Starting(q) BY DEF Starting, Idle
  <2> QED BY <1>1, <2>1, <2>2, StartStep DEF Login
<1>2. CASE Logout(r)
  <2>1. PICK s \in Sid : Become(r, [Idle EXCEPT !.op = "logout", !.pc = "read", !.todo = {s}])
    BY <1>2 DEF Logout
  <2> DEFINE q == [Idle EXCEPT !.op = "logout", !.pc = "read", !.todo = {s}]
  <2>2. q \in RequestState BY IdleInv DEF RequestState, Op, Pc
  <2>3. Starting(q) BY DEF Starting, Idle
  <2> QED BY <1>2, <2>1, <2>2, <2>3, StartStep DEF Logout
<1>3. CASE RevokeSession(r)
  <2>1. PICK s \in Sid : Become(r, [Idle EXCEPT !.op = "revoke", !.pc = "check", !.todo = {s}])
    BY <1>3 DEF RevokeSession
  <2> DEFINE q == [Idle EXCEPT !.op = "revoke", !.pc = "check", !.todo = {s}]
  <2>2. q \in RequestState BY IdleInv DEF RequestState, Op, Pc
  <2>3. Starting(q) BY DEF Starting, Idle
  <2> QED BY <1>3, <2>1, <2>2, <2>3, StartStep DEF RevokeSession
<1>4. CASE ListSessions(r)
  <2> DEFINE q == [Idle EXCEPT !.op = "list", !.pc = "members"]
  <2>1. q \in RequestState BY IdleInv DEF RequestState, Op, Pc
  <2>2. Starting(q) BY DEF Starting, Idle
  <2> QED BY <1>4, <2>1, <2>2, StartStep DEF ListSessions
<1>5. CASE ChangePassword(r)
  <2>1. PICK s \in Sid : Become(r, [Idle EXCEPT !.op = "change", !.pc = "update", !.sid = s])
    BY <1>5 DEF ChangePassword
  <2> DEFINE q == [Idle EXCEPT !.op = "change", !.pc = "update", !.sid = s]
  <2>2. q \in RequestState BY IdleInv DEF RequestState, Op, Pc
  <2>3. Starting(q) BY DEF Starting, Idle
  <2> QED BY <1>5, <2>1, <2>2, <2>3, StartStep DEF ChangePassword
<1>6. CASE ResetPassword(r)
  <2> DEFINE q == [Idle EXCEPT !.op = "reset", !.pc = "user"]
  <2>1. q \in RequestState BY IdleInv DEF RequestState, Op, Pc
  <2>2. Starting(q) BY DEF Starting, Idle
  <2> QED BY <1>6, <2>1, <2>2, StartStep DEF ResetPassword
<1>7. CASE Crash(r)
  BY <1>7, IdleInv, QuietStep DEF Crash, IInv, TypeOK
<1> QED BY <1>1, <1>2, <1>3, <1>4, <1>5, <1>6, <1>7

LEMMA RefreshSteps ==
  ASSUME IInv, NEW r \in Request,
         Refresh(r) \/ RefreshReadSession(r) \/ RefreshReadUser(r)
  PROVE  IInv'
<1>0. req[r] \in RequestState /\ RequestInv(req[r]) BY DEF IInv, TypeOK
<1>1. CASE Refresh(r)
  <2>1. PICK t \in tokens :
          Become(r, [Idle EXCEPT !.op = "refresh", !.pc = "session",
                                 !.sid = t.sid, !.jti = t.jti])
    BY <1>1 DEF Refresh
  <2> DEFINE q == [Idle EXCEPT !.op = "refresh", !.pc = "session",
                               !.sid = t.sid, !.jti = t.jti]
  <2>2. t.sid \in Sid /\ t.jti \in Jti /\ t.sid \in Held /\ t.jti < nextJti
    BY DEF IInv, TypeOK, GlobalInv, TokensIssued, Held
  <2>3. q \in RequestState BY <2>2, IdleInv DEF RequestState, Op, Pc
  <2>4. /\ q.op = "refresh" /\ q.pc = "session" /\ q.sid = t.sid /\ q.jti = t.jti
        /\ q.owed = {} /\ q.reply = "none" /\ q.cur = None
    BY DEF Idle
  <2>5. RequestInv(q) /\ ~Issuing(q)
    <3> HIDE DEF q
    <3> QED BY <2>2, <2>4 DEF RequestInv, Control, Holds, Owes, Issuing, PastChecks,
          PasswordHandler
  <2> QED BY <1>1, <2>1, <2>3, <2>5, QuietStep DEF Refresh, IInv, TypeOK
<1>2. CASE RefreshReadSession(r)
  <2>1. req[r].op = "refresh" BY <1>0, <1>2 DEF RefreshReadSession, At, RequestInv, Control
  <2>2. CASE record[req[r].sid] = req[r].jti
    <3> DEFINE q == [req[r] EXCEPT !.pc = "user"]
    <3>1. q \in RequestState BY <1>0 DEF RequestState, Pc
    <3>2. record[req[r].sid] # None
      BY <1>0, <2>1, <2>2 DEF RequestInv, Holds, Jti, None
    <3>3. RequestInv(q) /\ ~Issuing(q)
      BY <1>0, <2>1, <3>2 DEF RequestInv, Control, Holds, Owes, Issuing, PastChecks,
        PasswordHandler, Gone, RequestState
    <3> QED BY <1>2, <2>2, <3>1, <3>3, QuietStep DEF RefreshReadSession, IInv, TypeOK
  <2>3. CASE record[req[r].sid] # req[r].jti
    BY <1>2, <2>3, IdleInv, QuietStep DEF RefreshReadSession, IInv, TypeOK
  <2> QED BY <2>2, <2>3
<1>3. CASE RefreshReadUser(r)
  <2> DEFINE q == [req[r] EXCEPT !.pc = "rotate"]
  <2>1. Become(r, q) \/ Become(r, Idle) BY <1>3 DEF RefreshReadUser
  <2>2. q \in RequestState BY <1>0 DEF RequestState, Pc
  <2>3. RequestInv(q) /\ ~Issuing(q)
    BY <1>0, <1>3 DEF RefreshReadUser, At, RequestInv, Control, Holds, Owes, Issuing,
      PastChecks, PasswordHandler, RequestState
  <2> QED BY <1>3, <2>1, <2>2, <2>3, IdleInv, QuietStep DEF RefreshReadUser, IInv, TypeOK
<1> QED BY <1>1, <1>2, <1>3

LEMMA PasswordSteps ==
  ASSUME IInv, NEW r \in Request,
         ResetReadUser(r) \/ UpdatePassword(r) \/ DeleteResetToken(r)
  PROVE  IInv'
<1>0. req[r] \in RequestState /\ RequestInv(req[r]) BY DEF IInv, TypeOK
<1>1. ASSUME NEW pc \in {"update", "drop", "token", "members"},
             req[r].op # "refresh", req[r].pc \in {"user", "update", "token", "drop"},
             Become(r, [req[r] EXCEPT !.pc = pc]),
             resetToken' \in {"unsent", "live", "gone"},
             UNCHANGED <<redis, nextSid, nextJti, tokens, history>>
      PROVE  IInv'
  <2> DEFINE q == [req[r] EXCEPT !.pc = pc]
  <2>1. q \in RequestState BY <1>0 DEF RequestState, Pc
  <2>2. RequestInv(q) /\ ~Issuing(q)
    BY <1>0, <1>1 DEF RequestInv, Control, Holds, Owes, Issuing, PastChecks,
      PasswordHandler, RequestState
  <2> QED BY <1>1, <2>1, <2>2, QuietStep
<1>2. ASSUME Become(r, Idle), resetToken' \in {"unsent", "live", "gone"},
             UNCHANGED <<redis, nextSid, nextJti, tokens, history>>
      PROVE  IInv'
  BY <1>2, IdleInv, QuietStep
<1>4. req[r].pc \in {"update", "token", "drop"} => req[r].op # "refresh"
  BY <1>0 DEF RequestInv, Control
<1>5. resetToken \in {"unsent", "live", "gone"} BY DEF IInv, TypeOK
<1>6. CASE ResetReadUser(r)
  <2>1. \E pc \in {"update", "drop"} : Become(r, [req[r] EXCEPT !.pc = pc])
    BY <1>6 DEF ResetReadUser
  <2> QED BY <1>1, <1>5, <1>6, <2>1 DEF ResetReadUser, At
<1>7. CASE UpdatePassword(r)
  <2>1. Become(r, Idle) \/ \E pc \in {"token", "members"} : Become(r, [req[r] EXCEPT !.pc = pc])
    BY <1>7 DEF UpdatePassword
  <2> QED BY <1>1, <1>2, <1>4, <1>5, <1>7, <2>1 DEF UpdatePassword, At
<1>8. CASE DeleteResetToken(r)
  <2>1. Become(r, Idle) \/ Become(r, [req[r] EXCEPT !.pc = "members"])
    BY <1>8 DEF DeleteResetToken
  <2> QED BY <1>1, <1>2, <1>4, <1>8, <2>1 DEF DeleteResetToken, At
<1> QED BY <1>6, <1>7, <1>8

LEMMA LoopSteps ==
  ASSUME IInv, NEW r \in Request,
         ReadIndex(r) \/ ScanRecord(r) \/ CheckSession(r) \/ ReadRecord(r)
  PROVE  IInv'
<1>0. req[r] \in RequestState /\ RequestInv(req[r]) BY DEF IInv, TypeOK
<1>k. None \notin Sid BY DEF None, Sid
<1>1. ASSUME NEW q \in RequestState, RequestInv(q), ~Issuing(q), Become(r, q),
             UNCHANGED <<redis, resetToken, nextSid, nextJti, tokens, history>>
      PROVE  IInv'
  BY <1>1, QuietStep DEF IInv, TypeOK
<1>2. CASE ReadIndex(r)
  <2>0. /\ req[r].pc = "members" /\ req[r].cur = None /\ req[r].reply = "none"
        /\ req[r].op \notin {"refresh", "none"}
        /\ req[r].owed \subseteq Held
    BY <1>0, <1>2 DEF ReadIndex, At, RequestInv, Control, Owes
  <2>1. CASE req[r].op = "login" /\ Cardinality(index) < MaxSessions
    <3> DEFINE q == [req[r] EXCEPT !.pc = "key"]
    <3>1. q \in RequestState BY <1>0 DEF RequestState, Pc
    <3>2. RequestInv(q) /\ ~Issuing(q)
      BY <1>0, <2>0, <2>1 DEF RequestInv, Control, Holds, Owes, Issuing, PastChecks,
        PasswordHandler, RequestState
    <3> QED BY <1>1, <1>2, <2>1, <3>1, <3>2 DEF ReadIndex
  <2>2. CASE /\ req[r].op \in {"login", "list"}
             /\ ~(req[r].op = "login" /\ Cardinality(index) < MaxSessions)
    <3> DEFINE q == [req[r] EXCEPT !.todo = index]
    <3>1. q \in RequestState BY <1>0 DEF RequestState, IInv, TypeOK
    <3>2. /\ q.todo \cap Unwritten = {} /\ q.op = req[r].op /\ q.cur = None
          /\ q.reply = "none" /\ q.owed \subseteq Held
      BY <1>0, <2>0 DEF RequestState, IInv, GlobalInv, UnwrittenIsUnknown
    <3>3. Become(r, ScanNext(q)) BY <1>2, <2>2 DEF ReadIndex
    <3> HIDE DEF q
    <3> QED BY <1>1, <1>2, <2>2, <3>1, <3>2, <3>3, ScanNextInv DEF ReadIndex
  <2>3. CASE req[r].op \notin {"login", "list"}
    <3> DEFINE q == [req[r] EXCEPT !.todo = index \ {req[r].sid},
                                   !.owed = (Live \cap Held) \ {req[r].sid}]
    <3>1. Become(r, RevokeNext(q)) BY <1>2, <2>3 DEF ReadIndex
    <3>2. q \in RequestState BY <1>0 DEF RequestState, IInv, TypeOK, Live
    <3>3. /\ q.op = req[r].op /\ q.cur = None /\ q.reply = "none"
          /\ q.owed = (Live \cap Held) \ {req[r].sid}
          /\ q.todo = index \ {req[r].sid}
      BY <1>0, <2>0 DEF RequestState
    <3>4. q.op \in {"login", "logout", "revoke", "change", "reset"}
      BY <1>0, <2>0, <2>3, <3>3 DEF RequestState, Op
    <3>5. \A s \in q.owed : s \in q.todo \cup orphaned \/ Gone(s)
      BY <3>3 DEF IInv, GlobalInv, HeldIsListed, Listed
    <3>6. Revoking(q) BY <3>3, <3>4, <3>5 DEF Revoking
    <3> HIDE DEF q
    <3> QED BY <1>1, <1>2, <3>1, <3>2, <3>6, RevokeNextInv DEF ReadIndex
  <2> QED BY <2>1, <2>2, <2>3
<1>3. CASE ScanRecord(r)
  <2>1. PICK s \in req[r].todo :
          LET q == [req[r] EXCEPT !.todo = @ \ {s}] IN
          Become(r, IF record[s] = None
                    THEN [q EXCEPT !.pc = "scanRem", !.cur = s]
                    ELSE ScanNext([q EXCEPT !.seen[s] = record[s]]))
    BY <1>3 DEF ScanRecord
  <2>0. /\ req[r].pc = "scan" /\ req[r].cur = None /\ req[r].reply = "none" /\ req[r].op \in {"login", "list"}
        /\ req[r].owed \subseteq Held /\ req[r].todo \cap Unwritten = {}
        /\ req[r].todo \subseteq Sid /\ s \in Sid
    BY <1>0, <1>3 DEF ScanRecord, At, RequestInv, Control, Owes, Holds, RequestState
  <2>2. CASE record[s] = None
    <3> DEFINE q == [req[r] EXCEPT !.todo = @ \ {s}, !.pc = "scanRem", !.cur = s]
    <3>1. Become(r, q) BY <1>0, <2>1, <2>2 DEF RequestState
    <3>2. q \in RequestState BY <1>0, <2>0 DEF RequestState, Pc
    <3>3. /\ q.op = req[r].op /\ q.pc = "scanRem" /\ q.reply = "none" /\ q.cur = s
          /\ q.todo = req[r].todo \ {s} /\ q.owed = req[r].owed
      BY <1>0, <2>0 DEF RequestState
    <3> HIDE DEF q
    <3>4. RequestInv(q) /\ ~Issuing(q)
      BY <2>0, <2>2, <3>3 DEF RequestInv, Control, Holds, Owes, Issuing, PastChecks,
        PasswordHandler, Gone
    <3> QED BY <1>1, <1>3, <3>1, <3>2, <3>4 DEF ScanRecord
  <2>3. CASE record[s] # None
    <3> DEFINE q == [req[r] EXCEPT !.todo = @ \ {s}, !.seen[s] = record[s]]
    <3>1. Become(r, ScanNext(q)) BY <1>0, <2>1, <2>3 DEF RequestState
    <3>2. q \in RequestState BY <1>0, <2>0 DEF RequestState, IInv, TypeOK
    <3>3. /\ q.op = req[r].op /\ q.cur = None /\ q.reply = "none"
          /\ q.todo = req[r].todo \ {s} /\ q.owed = req[r].owed
      BY <1>0, <2>0 DEF RequestState
    <3> HIDE DEF q
    <3> QED BY <1>1, <1>3, <2>0, <3>1, <3>2, <3>3, ScanNextInv DEF ScanRecord
  <2> QED BY <2>2, <2>3
<1>4. CASE CheckSession(r)
  <2>1. PICK s \in req[r].todo :
          Become(r, IF record[s] = None THEN Answer(req[r], "refused")
                    ELSE [req[r] EXCEPT !.pc = "read", !.cur = s])
    BY <1>4 DEF CheckSession
  <2>0. /\ req[r].pc = "check" /\ req[r].op \notin {"none", "refresh"}
        /\ req[r].owed \subseteq Held /\ s \in Sid
    BY <1>0, <1>4 DEF CheckSession, At, RequestInv, Control, Owes, RequestState
  <2>2. CASE record[s] = None
    BY <1>0, <1>1, <1>4, <2>0, <2>1, <2>2, AnswerInv DEF CheckSession
  <2>3. CASE record[s] # None
    <3> DEFINE q == [req[r] EXCEPT !.pc = "read", !.cur = s]
    <3>1. q \in RequestState BY <1>0, <2>0 DEF RequestState, Pc
    <3>2. RequestInv(q) /\ ~Issuing(q)
      BY <1>0, <2>0 DEF RequestInv, Control, Holds, Owes, Issuing, PastChecks,
        PasswordHandler, RequestState
    <3> QED BY <1>1, <1>4, <2>1, <2>3, <3>1, <3>2 DEF CheckSession
  <2> QED BY <2>2, <2>3
<1>5. CASE ReadRecord(r)
  <2> DEFINE candidates == IF req[r].cur # None THEN {req[r].cur} ELSE req[r].todo
  <2>1. PICK s \in candidates :
          Become(r, IF record[s] = None
                    THEN RevokeNext([req[r] EXCEPT !.todo = @ \ {s}, !.cur = None])
                    ELSE [req[r] EXCEPT !.pc = "del", !.cur = s, !.jti = record[s]])
    BY <1>5 DEF ReadRecord
  <2>0. /\ req[r].pc = "read" /\ req[r].op \in {"login", "logout", "revoke", "change", "reset"}
        /\ req[r].reply = "none" /\ req[r].owed \subseteq Held /\ s \in Sid /\ s \in req[r].todo
    BY <1>0, <1>5, <1>k DEF ReadRecord, At, RequestInv, Control, Holds, Owes, RequestState
  <2>2. CASE record[s] = None
    <3> DEFINE q == [req[r] EXCEPT !.todo = @ \ {s}, !.cur = None]
    <3>1. q \in RequestState BY <1>0 DEF RequestState
    <3>2. /\ q.op = req[r].op /\ q.cur = None /\ q.reply = "none" /\ q.owed = req[r].owed
          /\ q.todo = req[r].todo \ {s}
      BY <1>0, <2>0 DEF RequestState
    <3>3. \A v \in q.owed : PasswordHandler(q) => v \in q.todo \cup orphaned \/ Gone(v)
      BY <1>0, <2>0, <2>2, <3>2 DEF RequestInv, Owes, PasswordHandler, Gone
    <3>5. Revoking(q) BY <2>0, <3>2, <3>3 DEF Revoking
    <3>4. Become(r, RevokeNext(q)) BY <2>1, <2>2
    <3> HIDE DEF q
    <3> QED BY <1>1, <1>5, <3>1, <3>5, <3>4, RevokeNextInv DEF ReadRecord
  <2>3. CASE record[s] # None
    <3> DEFINE q == [req[r] EXCEPT !.pc = "del", !.cur = s, !.jti = record[s]]
    <3>1. q \in RequestState BY <1>0, <2>0 DEF RequestState, IInv, TypeOK, Pc
    <3>2. s \notin Unwritten BY <2>3 DEF IInv, GlobalInv, UnwrittenIsUnknown
    <3>3. RequestInv(q) /\ ~Issuing(q)
      BY <1>0, <2>0, <3>2 DEF RequestInv, Control, Holds, Owes, Issuing, PastChecks,
        PasswordHandler, RequestState
    <3> QED BY <1>1, <1>5, <2>1, <2>3, <3>1, <3>3 DEF ReadRecord
  <2> QED BY <2>2, <2>3
<1> QED BY <1>2, <1>3, <1>4, <1>5

-----------------------------------------------------------------------------
(* Steps that write Redis.                                                  *)

LEMMA Bounds ==
  ASSUME TypeOK
  PROVE  /\ nextSid \in Nat /\ nextJti \in Nat
         /\ Sid \subseteq Nat /\ Jti \subseteq Nat /\ None \notin Sid \cup Jti
BY SessionsAssumption DEF TypeOK, Sid, Jti, None, SessionsAssumption

LEMMA BoundsNext ==
  ASSUME TypeOK' PROVE nextSid' \in Nat /\ nextJti' \in Nat
BY SessionsAssumption DEF TypeOK, SessionsAssumption

(* A step that issues no session has the same ones being issued, or fewer.  *)
LEMMA SameIssuers ==
  ASSUME IInv, NEW r \in Request, NEW q \in RequestState, Become(r, q),
         Issuing(q) => Issuing(req[r]) /\ q.sid = req[r].sid,
         Recording(q) => Recording(req[r]),
         nextSid' = nextSid
  PROVE  Unwritten' \subseteq Unwritten /\ IssuesDiffer'
<1>1. req'[r] = q /\ \A o \in Request \ {r} : req'[o] = req[o]
  BY DEF IInv, TypeOK, Become
<1>2. \A o \in Request : Recording(req[o])' => Recording(req[o]) /\ req'[o].sid = req[o].sid
  BY <1>1 DEF Recording, Issuing
<1>3. \A o \in Request : Issuing(req[o])' => Issuing(req[o]) /\ req'[o].sid = req[o].sid
  BY <1>1 DEF Issuing
<1> QED BY <1>2, <1>3 DEF Unwritten, IssuesDiffer, IInv, GlobalInv

(* The invariants of the requests, after a step of one of them.             *)
LEMMA ActorFrame ==
  ASSUME IInv, Grows, nextSid' \in Nat, nextJti' \in Nat,
         NEW r \in Request, NEW q \in RequestState, Become(r, q), RequestInv(q),
         PastChecks(q) => (Gone(q.sid)' => Gone(q.sid) \/ q.sid \in raced'),
         q.pc = "expire" => q.sid \notin Unwritten
  PROVE  \A o \in Request : RequestInv(req[o])'
<1>1. req'[r] = q /\ \A o \in Request \ {r} : req'[o] = req[o]
  BY DEF IInv, TypeOK, Become
<1>2. RequestInv(q)' BY RigidFrame
<1>3. RequestInv(req[r])' BY <1>1, <1>2
<1> QED BY <1>1, <1>3, OthersFrame

LEMMA NotRefreshing ==
  ASSUME NEW q, RequestInv(q), ~Issuing(q)
  PROVE  q.pc # "expire"
BY DEF RequestInv, Control, Issuing

LEMMA RemoveStep ==
  ASSUME IInv, NEW r \in Request, NEW q \in RequestState,
         NEW s \in Sid \ Unwritten, Gone(s), RemoveFromIndex(s),
         Become(r, q), RequestInv(q), ~Issuing(q),
         UNCHANGED <<refreshKey, record, resetToken, nextSid, nextJti, tokens, history>>
  PROVE  IInv'
<1> USE DEF history
<1>1. \A v : Gone(v)' <=> Gone(v) BY DEF Gone
<1>2. index' = index \ {s} /\ Held' = Held BY DEF RemoveFromIndex, Held
<1>3. \A v \in Sid : Listed(v) => Listed(v)' BY <1>1, <1>2 DEF Listed
<1>4. Unwritten' \subseteq Unwritten /\ IssuesDiffer'
  BY SameIssuers DEF Recording, Issuing
<1>5. Grows
  <2>1. nextSid <= nextSid' /\ nextJti <= nextJti' BY Bounds DEF IInv
  <2> QED BY <1>1, <1>2, <1>3, <1>4, <2>1 DEF Grows
<1>6. TypeOK' BY DEF IInv, TypeOK, Become, RemoveFromIndex
<1>7. GlobalInv'
  <2>1. ConsumedIsDead' /\ TokensIssued' BY DEF IInv, GlobalInv, ConsumedIsDead, TokensIssued
  <2>2. UnwrittenIsUnknown' BY <1>2, <1>4 DEF IInv, GlobalInv, UnwrittenIsUnknown
  <2>3. EndedIsGone' BY <1>1 DEF IInv, GlobalInv, EndedIsGone
  <2>4. HeldIsListed' BY <1>2, <1>3, HeldWritten DEF IInv, GlobalInv, HeldIsListed
  <2> QED BY <1>4, <2>1, <2>2, <2>3, <2>4 DEF GlobalInv
<1>8. \A o \in Request : RequestInv(req[o])'
  BY <1>1, <1>5, <1>6, ActorFrame, Bounds, NotRefreshing DEF IInv
<1> QED BY <1>6, <1>7, <1>8 DEF IInv

LEMMA IndexSteps ==
  ASSUME IInv, NEW r \in Request, ScanRemove(r) \/ RevokeFromIndex(r) PROVE IInv'
<1>0. req[r] \in RequestState /\ RequestInv(req[r]) BY DEF IInv, TypeOK
<1>1. CASE ScanRemove(r)
  <2> DEFINE q == [req[r] EXCEPT !.cur = None]
  <2>1. /\ req[r].op \in {"login", "list"} /\ req[r].reply = "none"
        /\ req[r].owed \subseteq Held /\ req[r].todo \cap Unwritten = {}
        /\ req[r].cur \in Sid \ Unwritten /\ Gone(req[r].cur)
    BY <1>0, <1>1 DEF ScanRemove, At, RequestInv, Control, Holds, Owes
  <2>2. q \in RequestState BY <1>0 DEF RequestState
  <2>3. /\ q.op = req[r].op /\ q.cur = None /\ q.reply = "none"
        /\ q.owed = req[r].owed /\ q.todo = req[r].todo
    BY <1>0, <2>1 DEF RequestState
  <2>4. Become(r, ScanNext(q)) BY <1>1 DEF ScanRemove
  <2> HIDE DEF q
  <2>5. ScanNext(q) \in RequestState /\ RequestInv(ScanNext(q)) /\ ~Issuing(ScanNext(q))
    BY <2>1, <2>2, <2>3, ScanNextInv
  <2> QED BY <1>1, <2>1, <2>4, <2>5, RemoveStep DEF ScanRemove
<1>2. CASE RevokeFromIndex(r)
  <2> DEFINE q == [req[r] EXCEPT !.todo = @ \ {req[r].cur}, !.cur = None]
  <2>1. /\ req[r].op \in {"login", "logout", "revoke", "change", "reset"}
        /\ req[r].pc = "srem" /\ req[r].reply = "none"
        /\ req[r].owed \subseteq Held /\ req[r].cur \in ended
    BY <1>0, <1>2 DEF RevokeFromIndex, At, RequestInv, Control, Holds, Owes
  <2>2. req[r].cur \in Sid \ Unwritten /\ Gone(req[r].cur)
    BY <2>1, HeldWritten DEF IInv, GlobalInv, EndedIsGone
  <2>3. q \in RequestState BY <1>0 DEF RequestState
  <2>4. /\ q.op = req[r].op /\ q.cur = None /\ q.reply = "none"
        /\ q.owed = req[r].owed /\ q.todo = req[r].todo \ {req[r].cur}
    BY <1>0, <2>1 DEF RequestState
  <2>5. Become(r, RevokeNext(q)) BY <1>2 DEF RevokeFromIndex
  <2> HIDE DEF q
  <2>6. \A v \in q.owed : PasswordHandler(q) => v \in q.todo \cup orphaned \/ Gone(v)
    BY <1>0, <2>1, <2>2, <2>4 DEF RequestInv, Owes, PasswordHandler
  <2>7. Revoking(q) BY <2>1, <2>4, <2>6 DEF Revoking
  <2>8. /\ RevokeNext(q) \in RequestState /\ RequestInv(RevokeNext(q))
        /\ ~Issuing(RevokeNext(q))
    BY <2>3, <2>7, RevokeNextInv
  <2> QED BY <1>2, <2>2, <2>5, <2>8, RemoveStep DEF RevokeFromIndex
<1> QED BY <1>1, <1>2

LEMMA DeleteStep == ASSUME IInv, NEW r \in Request, DeleteSession(r) PROVE IInv'
<1> USE DEF DeleteSession, At
<1>0. req[r] \in RequestState /\ RequestInv(req[r]) BY DEF IInv, TypeOK
<1>s. PICK s \in Sid : s = req[r].cur
  BY <1>0 DEF RequestInv, Holds, RequestState
<1>p. PICK q \in RequestState : q = [req[r] EXCEPT !.pc = "srem"]
  BY <1>0 DEF RequestState, Pc
<1>1. s \in Sid \ Unwritten /\ s \in req[r].todo
  BY <1>0, <1>s DEF RequestInv, Holds, RequestState
<1>2. /\ record' = [record EXCEPT ![s] = None] /\ ended' = ended \cup {s}
      /\ raced' = raced \cup ({s} \cap Refreshing)
      /\ refreshKey' = [refreshKey EXCEPT ![req[r].jti] = None]
      /\ Become(r, q)
  BY <1>s, <1>p
<1>q. /\ q \in RequestState /\ q.op = req[r].op /\ q.pc = "srem" /\ q.cur = s
      /\ q.todo = req[r].todo /\ q.owed = req[r].owed /\ q.reply = "none"
  BY <1>0, <1>s, <1>p DEF RequestState, Pc, RequestInv, Control
<1>o. q.op \in {"login", "logout", "revoke", "change", "reset"}
  BY <1>0, <1>q DEF RequestInv, Control
<1>r. req'[r] = q /\ \A o \in Request \ {r} : req'[o] = req[o]
  BY <1>2 DEF IInv, TypeOK, Become
<1>3. Held' = Held BY DEF Held
<1>4. \A v \in Sid : (Gone(v) => Gone(v)') /\ (Listed(v) => Listed(v)')
  BY <1>2 DEF Gone, Listed, IInv, TypeOK
<1>5. \A v \in Sid : record'[v] = None => record[v] = None \/ v = s
  BY <1>2 DEF IInv, TypeOK
<1>6. \A v \in Refreshing : Gone(v)' => Gone(v) \/ v \in raced'
  <2>1. Refreshing \subseteq Sid
    BY HeldWritten DEF Refreshing, PastChecks, IInv, RequestInv, Holds
  <2> QED BY <1>2, <1>5, <2>1 DEF Gone
<1>7. Unwritten' \subseteq Unwritten /\ IssuesDiffer'
  BY <1>2, <1>q, SameIssuers DEF Recording, Issuing
<1>8. Grows
  <2>1. nextSid <= nextSid' /\ nextJti <= nextJti' BY Bounds DEF IInv
  <2> QED BY <1>2, <1>3, <1>4, <1>6, <1>7, <2>1 DEF Grows
<1>9. TypeOK'
  <2>1. refreshKey' \in [Jti -> Sid \cup {None}] /\ record' \in [Sid -> Jti \cup {None}]
    BY <1>2 DEF IInv, TypeOK
  <2>2. req' \in [Request -> RequestState] BY <1>2 DEF IInv, TypeOK, Become
  <2>3. ended' \subseteq Sid /\ raced' \subseteq Sid BY <1>2 DEF IInv, TypeOK
  <2> QED BY <2>1, <2>2, <2>3 DEF IInv, TypeOK
<1>10. GlobalInv'
  <2>1. ConsumedIsDead' /\ TokensIssued'
    BY <1>2 DEF IInv, GlobalInv, ConsumedIsDead, TokensIssued, TypeOK
  <2>2. UnwrittenIsUnknown'
    BY <1>1, <1>2, <1>3, <1>7 DEF IInv, GlobalInv, UnwrittenIsUnknown, TypeOK, Unwritten
  <2>3. EndedIsGone'
    <3>1. Gone(s)' BY <1>1, <1>2 DEF Gone, IInv, TypeOK
    <3>2. \A v \in ended : Gone(v)' BY <1>4, HeldWritten DEF IInv, GlobalInv, EndedIsGone
    <3> QED BY <1>2, <3>1, <3>2 DEF EndedIsGone
  <2>4. HeldIsListed' BY <1>3, <1>4, HeldWritten DEF IInv, GlobalInv, HeldIsListed
  <2> QED BY <1>7, <2>1, <2>2, <2>3, <2>4 DEF GlobalInv
<1>11. RequestInv(req[r])'
  <2>1. Control(q)' BY <1>q, <1>o DEF Control
  <2>2. Holds(q)' BY <1>1, <1>2, <1>q, <1>o DEF Holds, PastChecks, Issuing
  <2>3. Owes(q)'
    <3>1. \A v \in q.owed : v \in Sid BY <1>0, <1>q, HeldWritten DEF RequestInv, Owes
    <3>2. PasswordHandler(q) => \A v \in q.owed : v \in q.todo \cup orphaned \/ Gone(v)
      BY <1>0, <1>q DEF RequestInv, Owes, PasswordHandler
    <3>3. q.owed \subseteq Held' BY <1>0, <1>3, <1>q DEF RequestInv, Owes
    <3>4. PasswordHandler(q) => \A v \in q.owed : v \in q.todo \cup orphaned' \/ Gone(v)'
      BY <1>4, <3>1, <3>2 DEF Grows
    <3> QED BY <1>q, <3>3, <3>4 DEF Owes, PasswordHandler
  <2> QED BY <1>r, <2>1, <2>2, <2>3 DEF RequestInv
<1>12. \A o \in Request \ {r} : RequestInv(req[o])'
  BY <1>r, <1>8, <1>9, OthersFrame, Bounds DEF IInv
<1> QED BY <1>9, <1>10, <1>11, <1>12 DEF IInv

(* RotateDelete and RotateKey write refresh keys alone.                     *)
LEMMA RotateSteps ==
  ASSUME IInv, NEW r \in Request, RotateDelete(r) \/ RotateKey(r) PROVE IInv'
<1>0. req[r] \in RequestState /\ RequestInv(req[r]) BY DEF IInv, TypeOK
<1>1. /\ req[r].op = "refresh" /\ req[r].reply = "none" /\ req[r].cur = None
      /\ req[r].pc \in {"rotate", "key"}
      /\ req[r].sid \in Held /\ req[r].jti \in Jti /\ req[r].jti < nextJti
      /\ req[r].owed \subseteq Held
  BY <1>0 DEF RotateDelete, RotateKey, At, RequestInv, Control, Holds, Owes
<1>2. UNCHANGED <<record, index, indexStamp, resetToken, nextSid, tokens, ended, raced, orphaned>>
  BY DEF RotateDelete, RotateKey, history
<1>3. PICK q \in RequestState :
        /\ Become(r, q)
        /\ q.op = "refresh" /\ q.pc \in {"key", "record"} /\ q.sid = req[r].sid
        /\ q.owed = req[r].owed /\ q.reply = "none" /\ q.cur = None
        /\ q.jti \in Jti /\ q.jti < nextJti'
  <2>1. CASE RotateDelete(r)
    <3> DEFINE q == [req[r] EXCEPT !.pc = "key"]
    <3>1. Become(r, q) BY <2>1 DEF RotateDelete
    <3>2. q \in RequestState BY <1>0 DEF RequestState, Pc
    <3>3. /\ q.op = "refresh" /\ q.pc = "key" /\ q.sid = req[r].sid /\ q.jti = req[r].jti
          /\ q.owed = req[r].owed /\ q.reply = "none" /\ q.cur = None
      BY <1>0, <1>1 DEF RequestState
    <3>4. nextJti' = nextJti BY <2>1 DEF RotateDelete
    <3> HIDE DEF q
    <3> QED BY <1>1, <3>1, <3>2, <3>3, <3>4
  <2>2. CASE RotateKey(r)
    <3> DEFINE q == [req[r] EXCEPT !.pc = "record", !.jti = nextJti]
    <3>1. Become(r, q) /\ nextJti \in Jti BY <2>2 DEF RotateKey
    <3>2. q \in RequestState BY <1>0, <3>1 DEF RequestState, Pc
    <3>3. /\ q.op = "refresh" /\ q.pc = "record" /\ q.sid = req[r].sid /\ q.jti = nextJti
          /\ q.owed = req[r].owed /\ q.reply = "none" /\ q.cur = None
      BY <1>0, <1>1 DEF RequestState
    <3>4. nextJti < nextJti' BY <2>2, Bounds DEF RotateKey, IInv
    <3> HIDE DEF q
    <3> QED BY <3>1, <3>2, <3>3, <3>4
  <2> QED BY <2>1, <2>2
<1>4. \A v : (Gone(v)' <=> Gone(v)) /\ (Listed(v)' <=> Listed(v))
  BY <1>2 DEF Gone, Listed
<1>5. Held' = Held BY <1>2 DEF Held
<1>6. Unwritten' \subseteq Unwritten /\ IssuesDiffer'
  BY <1>2, <1>3, SameIssuers DEF Recording, Issuing
<1>7. TypeOK' /\ nextJti <= nextJti' /\ nextSid <= nextSid'
  <2>1. req' \in [Request -> RequestState] BY <1>3 DEF IInv, TypeOK, Become
  <2>2. refreshKey' \in [Jti -> Sid \cup {None}]
    BY <1>0 DEF RotateDelete, RotateKey, IInv, TypeOK, RequestState
  <2>3. consumed' \subseteq Jti BY <1>1 DEF RotateDelete, RotateKey, history, IInv, TypeOK
  <2>4. nextJti' \in 1 .. MaxJti + 1 /\ nextJti <= nextJti' /\ nextSid <= nextSid'
    BY <1>2, Bounds, SessionsAssumption
    DEF RotateDelete, RotateKey, IInv, TypeOK, Jti, SessionsAssumption
  <2> QED BY <1>2, <2>1, <2>2, <2>3, <2>4 DEF IInv, TypeOK
<1>8. Grows BY <1>2, <1>4, <1>5, <1>6, <1>7 DEF Grows
<1>9. GlobalInv'
  <2>1. ConsumedIsDead'
    <3>1. CASE RotateDelete(r)
      BY <1>1, <3>1 DEF RotateDelete, IInv, GlobalInv, ConsumedIsDead, TypeOK
    <3>2. CASE RotateKey(r)
      <4>1. \A j \in consumed : j < nextJti /\ j \in Nat
        BY Bounds DEF IInv, TypeOK, GlobalInv, ConsumedIsDead
      <4>2. \A j \in consumed : j < nextJti' /\ refreshKey'[j] = refreshKey[j]
        BY <3>2, <4>1, Bounds DEF RotateKey, IInv, TypeOK
      <4> QED BY <3>2, <4>2 DEF RotateKey, history, IInv, GlobalInv, ConsumedIsDead
    <3> QED BY <3>1, <3>2
  <2>2. TokensIssued'
    <3>1. \A t \in tokens : t.jti \in Nat /\ t.jti < nextJti
      BY Bounds DEF IInv, TypeOK, GlobalInv, TokensIssued
    <3>2. \A t \in tokens : t.jti < nextJti'
      BY <1>7, <3>1, Bounds, BoundsNext, LessMono DEF IInv
    <3> QED BY <1>2, <3>2 DEF TokensIssued
  <2>3. UnwrittenIsUnknown' BY <1>2, <1>5, <1>6 DEF IInv, GlobalInv, UnwrittenIsUnknown
  <2>4. EndedIsGone' BY <1>2, <1>4 DEF IInv, GlobalInv, EndedIsGone
  <2>5. HeldIsListed' BY <1>4, <1>5 DEF IInv, GlobalInv, HeldIsListed
  <2> QED BY <1>6, <2>1, <2>2, <2>3, <2>4, <2>5 DEF GlobalInv
<1>r. req'[r] = q /\ \A o \in Request \ {r} : req'[o] = req[o]
  BY <1>3 DEF IInv, TypeOK, Become
<1>10. RequestInv(req[r])'
  <2>1. Control(q)' BY <1>3 DEF Control
  <2>2. Gone(q.sid) => q.sid \in raced
    BY <1>0, <1>1, <1>3 DEF RequestInv, Holds, PastChecks
  <2>3. Holds(q)' BY <1>1, <1>2, <1>3, <1>4, <1>5, <2>2 DEF Holds, Issuing
  <2>4. Owes(q)' BY <1>1, <1>3, <1>5 DEF Owes, PasswordHandler
  <2> QED BY <1>r, <2>1, <2>3, <2>4 DEF RequestInv
<1>11. \A o \in Request \ {r} : RequestInv(req[o])'
  BY <1>r, <1>7, <1>8, OthersFrame, BoundsNext
<1> QED BY <1>7, <1>9, <1>10, <1>11 DEF IInv

LEMMA IssueKeyStep == ASSUME IInv, NEW r \in Request, IssueKey(r) PROVE IInv'
<1>0. /\ nextSid \in Sid /\ nextJti \in Jti
      /\ nextSid' = nextSid + 1 /\ nextJti' = nextJti + 1
      /\ refreshKey' = [refreshKey EXCEPT ![nextJti] = nextSid]
      /\ UNCHANGED <<record, index, indexStamp, resetToken, tokens, consumed, ended,
                     raced, orphaned>>
  BY DEF IssueKey, history
<1>1. PICK q \in RequestState :
        /\ Become(r, q)
        /\ q.op = "login" /\ q.pc = "record" /\ q.sid = nextSid /\ q.jti = nextJti
        /\ q.owed = {} /\ q.reply = "none" /\ q.cur = None
  <2> DEFINE q == [Idle EXCEPT !.op = "login", !.pc = "record", !.sid = nextSid, !.jti = nextJti]
  <2>1. q \in RequestState BY <1>0, IdleInv DEF RequestState, Op, Pc
  <2>2. /\ q.op = "login" /\ q.pc = "record" /\ q.sid = nextSid /\ q.jti = nextJti
        /\ q.owed = {} /\ q.reply = "none" /\ q.cur = None
    BY DEF Idle
  <2>3. Become(r, q) BY DEF IssueKey
  <2> QED BY <2>1, <2>2, <2>3
<1>r. req'[r] = q /\ \A o \in Request \ {r} : req'[o] = req[o]
  BY <1>1 DEF IInv, TypeOK, Become
<1>2. \A v : (Gone(v)' <=> Gone(v)) /\ (Listed(v)' <=> Listed(v))
  BY <1>0 DEF Gone, Listed
<1>3. Held' = Held BY <1>0 DEF Held
<1>4. Unwritten' \subseteq Unwritten
  <2>1. \A v \in Sid : v >= nextSid + 1 => v >= nextSid BY Bounds DEF IInv
  <2>2. nextSid \in Unwritten BY <1>0, Bounds DEF IInv, Unwritten
  <2> QED BY <1>0, <1>1, <1>r, <2>1, <2>2 DEF Unwritten
<1>5. TypeOK'
  <2>1. req' \in [Request -> RequestState] BY <1>1 DEF IInv, TypeOK, Become
  <2>2. refreshKey' \in [Jti -> Sid \cup {None}] BY <1>0 DEF IInv, TypeOK
  <2>3. nextSid' \in 1 .. MaxSid + 1 /\ nextJti' \in 1 .. MaxJti + 1
    BY <1>0, SessionsAssumption DEF Sid, Jti, SessionsAssumption
  <2> QED BY <1>0, <2>1, <2>2, <2>3 DEF IInv, TypeOK
<1>6. nextSid <= nextSid' /\ nextJti <= nextJti' BY <1>0, Bounds DEF IInv
<1>7. Grows BY <1>0, <1>2, <1>3, <1>4, <1>6 DEF Grows
<1>8. GlobalInv'
  <2>1. ConsumedIsDead'
    <3>1. \A j \in consumed : j < nextJti /\ j \in Nat
      BY Bounds DEF IInv, TypeOK, GlobalInv, ConsumedIsDead
    <3>2. \A j \in consumed : j < nextJti' /\ refreshKey'[j] = refreshKey[j]
      BY <1>0, <3>1, Bounds DEF IInv, TypeOK
    <3> QED BY <1>0, <3>2 DEF IInv, GlobalInv, ConsumedIsDead
  <2>2. TokensIssued'
    <3>1. \A t \in tokens : t.jti \in Nat /\ t.jti < nextJti
      BY Bounds DEF IInv, TypeOK, GlobalInv, TokensIssued
    <3> QED BY <1>0, <3>1, Bounds DEF IInv, TokensIssued
  <2>3. UnwrittenIsUnknown' BY <1>0, <1>3, <1>4 DEF IInv, GlobalInv, UnwrittenIsUnknown
  <2>4. IssuesDiffer'
    <3>1. \A o \in Request \ {r} : Issuing(req[o])' => Issuing(req[o]) /\ req'[o].sid # nextSid
      <4>1. \A o \in Request : Issuing(req[o]) => req[o].sid \in Sid /\ req[o].sid < nextSid
        BY DEF IInv, RequestInv, Holds
      <4>2. \A o \in Request : Issuing(req[o]) => req[o].sid # nextSid
        BY <4>1, Bounds DEF IInv
      <4> QED BY <1>r, <4>2 DEF Issuing
    <3> QED BY <1>1, <1>r, <3>1 DEF IInv, GlobalInv, IssuesDiffer
  <2>5. EndedIsGone' BY <1>0, <1>2 DEF IInv, GlobalInv, EndedIsGone
  <2>6. HeldIsListed' BY <1>2, <1>3 DEF IInv, GlobalInv, HeldIsListed
  <2> QED BY <2>1, <2>2, <2>3, <2>4, <2>5, <2>6 DEF GlobalInv
<1>9. RequestInv(req[r])'
  <2>1. Control(q)' BY <1>1 DEF Control
  <2>2. q.sid < nextSid' /\ q.jti < nextJti' BY <1>0, <1>1, Bounds DEF IInv
  <2>3. Holds(q)' BY <1>0, <1>1, <2>2 DEF Holds, PastChecks
  <2>4. Owes(q)' BY <1>1 DEF Owes, PasswordHandler
  <2> QED BY <1>r, <2>1, <2>3, <2>4 DEF RequestInv
<1>10. \A o \in Request \ {r} : RequestInv(req[o])'
  BY <1>r, <1>5, <1>7, OthersFrame, BoundsNext
<1> QED BY <1>5, <1>8, <1>9, <1>10 DEF IInv

LEMMA WriteStep == ASSUME IInv, NEW r \in Request, WriteRecord(r) PROVE IInv'
<1>0. req[r] \in RequestState /\ RequestInv(req[r]) BY DEF IInv, TypeOK
<1>1. /\ req[r].pc = "record" /\ req[r].op \in {"login", "refresh"}
      /\ req[r].reply = "none" /\ req[r].cur = None
      /\ req[r].sid \in Sid /\ req[r].jti \in Jti /\ req[r].jti < nextJti
  BY <1>0, HeldWritten DEF WriteRecord, At, RequestInv, Control, Holds, Issuing
<1>s. PICK s \in Sid, j \in Jti : s = req[r].sid /\ j = req[r].jti BY <1>1
<1>2. /\ record' = [record EXCEPT ![s] = j]
      /\ UNCHANGED <<refreshKey, index, indexStamp, resetToken, nextSid, nextJti, consumed,
                     ended, raced, orphaned>>
  BY <1>s DEF WriteRecord, history
<1>3. j # None /\ j < nextJti BY <1>1, <1>s DEF Jti, None
<1>4. record'[s] = j /\ \A v \in Sid \ {s} : record'[v] = record[v]
  BY <1>2 DEF IInv, TypeOK
<1>5. \A v \in Refreshing : Gone(v)' => Gone(v) \/ v \in raced'
  <2>1. Refreshing \subseteq Sid
    BY HeldWritten DEF Refreshing, PastChecks, IInv, RequestInv, Holds
  <2> QED BY <1>2, <1>3, <1>4, <2>1 DEF Gone
<1>6. nextSid <= nextSid' /\ nextJti <= nextJti' BY <1>2, Bounds DEF IInv
<1>7. CASE req[r].op = "refresh"
  <2>1. s \in Held /\ s \in Sid \ Unwritten BY <1>0, <1>7, <1>s, HeldWritten DEF RequestInv, Holds
  <2>2. Gone(s) => s \in raced
    BY <1>0, <1>1, <1>7, <1>s DEF RequestInv, Holds, PastChecks
  <2>3. tokens' = tokens \cup {[jti |-> j, sid |-> s]} /\ Become(r, Idle)
    BY <1>7, <1>s DEF WriteRecord
  <2>4. Held' = Held BY <2>1, <2>3 DEF Held
  <2>5. \A v \in Sid : (Gone(v) => Gone(v)') /\ (Listed(v) => Listed(v)')
    BY <1>2, <1>4, <2>2 DEF Gone, Listed
  <2>6. Unwritten' \subseteq Unwritten /\ IssuesDiffer'
    BY <1>2, <2>3, IdleInv, SameIssuers DEF Recording, Issuing
  <2>7. Grows BY <1>2, <1>5, <1>6, <2>4, <2>5, <2>6 DEF Grows
  <2>8. TypeOK'
    <3>1. req' \in [Request -> RequestState] BY <2>3, IdleInv DEF IInv, TypeOK, Become
    <3>2. record' \in [Sid -> Jti \cup {None}] BY <1>2 DEF IInv, TypeOK
    <3> QED BY <1>2, <2>3, <3>1, <3>2 DEF IInv, TypeOK
  <2>9. GlobalInv'
    <3>1. ConsumedIsDead' BY <1>2 DEF IInv, GlobalInv, ConsumedIsDead
    <3>2. TokensIssued' BY <1>2, <1>3, <2>3 DEF IInv, GlobalInv, TokensIssued
    <3>3. UnwrittenIsUnknown'
      BY <1>2, <1>4, <2>1, <2>4, <2>6 DEF IInv, GlobalInv, UnwrittenIsUnknown, Unwritten
    <3>4. EndedIsGone' BY <1>2, <2>5, HeldWritten DEF IInv, GlobalInv, EndedIsGone
    <3>5. HeldIsListed' BY <2>4, <2>5, HeldWritten DEF IInv, GlobalInv, HeldIsListed
    <3> QED BY <2>6, <3>1, <3>2, <3>3, <3>4, <3>5 DEF GlobalInv
  <2>10. \A o \in Request : RequestInv(req[o])'
    BY <2>3, <2>7, <2>8, IdleInv, NotRefreshing, ActorFrame, BoundsNext DEF PastChecks, Idle
  <2> QED BY <2>8, <2>9, <2>10 DEF IInv
<1>8. CASE req[r].op = "login"
  <2>1. s \in Unwritten /\ s < nextSid
    BY <1>0, <1>1, <1>8, <1>s DEF RequestInv, Holds, Issuing, Unwritten, Recording
  <2>2. PICK q \in RequestState :
          /\ Become(r, q)
          /\ q.op = "login" /\ q.pc = "sadd" /\ q.sid = s /\ q.jti = j
          /\ q.owed = req[r].owed /\ q.reply = "none" /\ q.cur = None
    <3> DEFINE q == [req[r] EXCEPT !.pc = "sadd"]
    <3>1. q \in RequestState BY <1>0 DEF RequestState, Pc
    <3>2. /\ q.op = "login" /\ q.pc = "sadd" /\ q.sid = s /\ q.jti = j
          /\ q.owed = req[r].owed /\ q.reply = "none" /\ q.cur = None
      BY <1>0, <1>1, <1>8, <1>s DEF RequestState
    <3>3. Become(r, q) BY <1>8 DEF WriteRecord
    <3> QED BY <3>1, <3>2, <3>3
  <2>r. req'[r] = q /\ \A o \in Request \ {r} : req'[o] = req[o]
    BY <2>2 DEF IInv, TypeOK, Become
  <2>3. tokens' = tokens BY <1>8 DEF WriteRecord
  <2>4. Held' = Held BY <2>3 DEF Held
  <2>5. \A v \in Sid \ Unwritten : (Gone(v) => Gone(v)') /\ (Listed(v) => Listed(v)')
    BY <1>2, <1>4, <2>1 DEF Gone, Listed
  <2>6. Unwritten' \subseteq Unwritten /\ IssuesDiffer'
    BY <1>1, <1>2, <1>8, <1>s, <2>2, SameIssuers DEF Recording, Issuing
  <2>7. Grows BY <1>2, <1>5, <1>6, <2>4, <2>5, <2>6 DEF Grows
  <2>8. TypeOK'
    <3>1. req' \in [Request -> RequestState] BY <2>2 DEF IInv, TypeOK, Become
    <3>2. record' \in [Sid -> Jti \cup {None}] BY <1>2 DEF IInv, TypeOK
    <3> QED BY <1>2, <2>3, <3>1, <3>2 DEF IInv, TypeOK
  <2>9. s \notin Unwritten'
    <3>1. \A o \in Request \ {r} : Recording(req[o]) => req[o].sid # s
      BY <1>1, <1>8, <1>s DEF IInv, GlobalInv, IssuesDiffer, Recording, Issuing
    <3>2. \A o \in Request : Recording(req[o])' => req'[o].sid # s
      BY <2>2, <2>r, <3>1 DEF Recording
    <3>3. ~(s >= nextSid) BY <2>1, Bounds DEF IInv
    <3> QED BY <1>2, <3>2, <3>3 DEF Unwritten
  <2>10. GlobalInv'
    <3>1. ConsumedIsDead' BY <1>2 DEF IInv, GlobalInv, ConsumedIsDead
    <3>2. TokensIssued' BY <1>2, <2>3 DEF IInv, GlobalInv, TokensIssued
    <3>3. UnwrittenIsUnknown'
      BY <1>2, <1>4, <2>4, <2>6, <2>9 DEF IInv, GlobalInv, UnwrittenIsUnknown, Unwritten
    <3>4. EndedIsGone' BY <1>2, <2>5, HeldWritten DEF IInv, GlobalInv, EndedIsGone
    <3>5. HeldIsListed' BY <2>4, <2>5, HeldWritten DEF IInv, GlobalInv, HeldIsListed
    <3> QED BY <2>6, <3>1, <3>2, <3>3, <3>4, <3>5 DEF GlobalInv
  <2>11. RequestInv(req[r])'
    <3>1. Control(q)' BY <2>2 DEF Control
    <3>2. Holds(q)' BY <1>2, <1>3, <2>1, <2>2 DEF Holds, PastChecks
    <3>3. q.owed \subseteq Held' BY <1>0, <2>2, <2>4 DEF RequestInv, Owes
    <3>4. Owes(q)' BY <2>2, <3>3 DEF Owes, PasswordHandler
    <3> QED BY <2>r, <3>1, <3>2, <3>4 DEF RequestInv
  <2>12. \A o \in Request \ {r} : RequestInv(req[o])'
    BY <2>r, <2>7, <2>8, OthersFrame, BoundsNext
  <2> QED BY <2>8, <2>10, <2>11, <2>12 DEF IInv
<1> QED BY <1>1, <1>7, <1>8

LEMMA IssueIndexStep == ASSUME IInv, NEW r \in Request, IssueIndex(r) PROVE IInv'
<1>0. req[r] \in RequestState /\ RequestInv(req[r]) BY DEF IInv, TypeOK
<1>1. /\ req[r].pc = "sadd" /\ req[r].op = "login"
      /\ req[r].reply = "none" /\ req[r].cur = None
      /\ req[r].sid \in Sid /\ req[r].sid < nextSid
      /\ req[r].jti \in Jti /\ req[r].jti < nextJti
  BY <1>0 DEF IssueIndex, At, RequestInv, Control, Holds, Issuing
<1>s. PICK s \in Sid : s = req[r].sid BY <1>1
<1>2. /\ index' = index \cup {s}
      /\ UNCHANGED <<refreshKey, record, indexStamp, resetToken, nextSid, nextJti, tokens,
                     consumed, ended, raced, orphaned>>
  BY <1>s DEF IssueIndex, history
<1>3. PICK q \in RequestState :
        /\ Become(r, q)
        /\ q.op = "login" /\ q.pc = "expire" /\ q.sid = s /\ q.jti = req[r].jti
        /\ q.owed = req[r].owed /\ q.reply = "none" /\ q.cur = None
  <2> DEFINE q == [req[r] EXCEPT !.pc = "expire"]
  <2>1. q \in RequestState BY <1>0 DEF RequestState, Pc
  <2>2. /\ q.op = "login" /\ q.pc = "expire" /\ q.sid = s /\ q.jti = req[r].jti
        /\ q.owed = req[r].owed /\ q.reply = "none" /\ q.cur = None
    BY <1>0, <1>1, <1>s DEF RequestState
  <2>3. Become(r, q) BY DEF IssueIndex
  <2> QED BY <2>1, <2>2, <2>3
<1>r. req'[r] = q /\ \A o \in Request \ {r} : req'[o] = req[o]
  BY <1>3 DEF IInv, TypeOK, Become
<1>4. s \notin Unwritten
  <2>1. \A o \in Request : Recording(req[o]) => req[o].sid # s
    BY <1>1, <1>s DEF IInv, GlobalInv, IssuesDiffer, Recording, Issuing
  <2>2. ~(s >= nextSid) BY <1>1, <1>s, Bounds DEF IInv
  <2> QED BY <2>1, <2>2 DEF Unwritten
<1>5. Held' = Held BY <1>2 DEF Held
<1>6. \A v : (Gone(v)' <=> Gone(v)) /\ (Listed(v) => Listed(v)') BY <1>2 DEF Gone, Listed
<1>7. Unwritten' \subseteq Unwritten /\ IssuesDiffer'
  BY <1>1, <1>2, <1>s, <1>3, SameIssuers DEF Recording, Issuing
<1>8. Grows
  <2>1. nextSid <= nextSid' /\ nextJti <= nextJti' BY <1>2, Bounds DEF IInv
  <2> QED BY <1>2, <1>5, <1>6, <1>7, <2>1 DEF Grows
<1>9. TypeOK'
  <2>1. req' \in [Request -> RequestState] BY <1>3 DEF IInv, TypeOK, Become
  <2>2. index' \subseteq Sid /\ index' # {} BY <1>2 DEF IInv, TypeOK
  <2> QED BY <1>2, <2>1, <2>2 DEF IInv, TypeOK
<1>10. GlobalInv'
  <2>1. ConsumedIsDead' /\ TokensIssued'
    BY <1>2 DEF IInv, GlobalInv, ConsumedIsDead, TokensIssued
  <2>2. UnwrittenIsUnknown'
    BY <1>2, <1>4, <1>5, <1>7 DEF IInv, GlobalInv, UnwrittenIsUnknown
  <2>3. EndedIsGone' BY <1>2, <1>6 DEF IInv, GlobalInv, EndedIsGone
  <2>4. HeldIsListed' BY <1>5, <1>6 DEF IInv, GlobalInv, HeldIsListed
  <2> QED BY <1>7, <2>1, <2>2, <2>3, <2>4 DEF GlobalInv
<1>11. RequestInv(req[r])'
  <2>1. Control(q)' BY <1>3 DEF Control
  <2>2. Listed(s)' BY <1>2 DEF Listed
  <2>3. Holds(q)' BY <1>1, <1>2, <1>s, <1>3, <2>2 DEF Holds, PastChecks
  <2>4. q.owed \subseteq Held' BY <1>0, <1>3, <1>5 DEF RequestInv, Owes
  <2>5. Owes(q)' BY <1>3, <2>4 DEF Owes, PasswordHandler
  <2> QED BY <1>r, <2>1, <2>3, <2>5 DEF RequestInv
<1>12. \A o \in Request \ {r} : RequestInv(req[o])'
  BY <1>r, <1>8, <1>9, OthersFrame, BoundsNext
<1> QED BY <1>9, <1>10, <1>11, <1>12 DEF IInv

LEMMA IssueExpireStep == ASSUME IInv, NEW r \in Request, IssueExpire(r) PROVE IInv'
<1>0. req[r] \in RequestState /\ RequestInv(req[r]) BY DEF IInv, TypeOK
<1>1. /\ req[r].pc = "expire" /\ req[r].op = "login" /\ Listed(req[r].sid)
      /\ req[r].sid \in Sid \ Unwritten /\ req[r].jti \in Jti /\ req[r].jti < nextJti
  BY <1>0, HeldWritten DEF IssueExpire, At, RequestInv, Control, Holds, Issuing
<1>s. PICK s \in Sid, j \in Jti : s = req[r].sid /\ j = req[r].jti BY <1>1
<1>2. /\ tokens' = tokens \cup {[jti |-> j, sid |-> s]}
      /\ indexStamp' = IF index = {} THEN None ELSE nextJti - 1
      /\ Become(r, Idle)
      /\ UNCHANGED <<refreshKey, record, index, resetToken, nextSid, nextJti,
                     consumed, ended, raced, orphaned>>
  BY <1>s DEF IssueExpire, history
<1>3. Held' = Held \cup {s}
  <2> DEFINE new == [jti |-> j, sid |-> s]
  <2>1. new.sid = s OBVIOUS
  <2>2. tokens' = tokens \cup {new} BY <1>2
  <2> HIDE DEF new
  <2> QED BY <2>1, <2>2 DEF Held
<1>4. \A v : (Gone(v)' <=> Gone(v)) /\ (Listed(v)' <=> Listed(v)) BY <1>2 DEF Gone, Listed
<1>5. Unwritten' \subseteq Unwritten /\ IssuesDiffer'
  BY <1>2, IdleInv, SameIssuers DEF Recording, Issuing
<1>6. Grows
  <2>1. nextSid <= nextSid' /\ nextJti <= nextJti' BY <1>2, Bounds DEF IInv
  <2> QED BY <1>2, <1>3, <1>4, <1>5, <2>1 DEF Grows
<1>7. TypeOK'
  <2>1. req' \in [Request -> RequestState] BY <1>2, IdleInv DEF IInv, TypeOK, Become
  <2>2. nextJti - 1 \in Jti \cup {None}
    BY SessionsAssumption DEF IInv, TypeOK, Jti, None, SessionsAssumption
  <2>3. indexStamp' \in Jti \cup {None} BY <1>2, <2>2
  <2> QED BY <1>2, <2>1, <2>3 DEF IInv, TypeOK
<1>8. GlobalInv'
  <2>1. ConsumedIsDead' BY <1>2 DEF IInv, GlobalInv, ConsumedIsDead
  <2>2. TokensIssued' BY <1>1, <1>s, <1>2 DEF IInv, GlobalInv, TokensIssued
  <2>3. UnwrittenIsUnknown'
    BY <1>1, <1>s, <1>2, <1>3, <1>5 DEF IInv, GlobalInv, UnwrittenIsUnknown
  <2>4. EndedIsGone' BY <1>2, <1>4 DEF IInv, GlobalInv, EndedIsGone
  <2>5. HeldIsListed' BY <1>1, <1>s, <1>3, <1>4 DEF IInv, GlobalInv, HeldIsListed
  <2> QED BY <1>5, <2>1, <2>2, <2>3, <2>4, <2>5 DEF GlobalInv
<1>9. \A o \in Request : RequestInv(req[o])'
  BY <1>2, <1>6, <1>7, IdleInv, NotRefreshing, ActorFrame, BoundsNext DEF PastChecks, Idle
<1> QED BY <1>7, <1>8, <1>9 DEF IInv

(* The TTL of a refresh key, a record or the index runs out.                *)
LEMMA ExpireStep == ASSUME IInv, Expire PROVE IInv'
<1>0. UNCHANGED <<resetToken, nextSid, nextJti, tokens, req, consumed, ended>>
  BY DEF Expire
<1>1. PICK j \in Jti :
        \/ /\ refreshKey' = [refreshKey EXCEPT ![j] = None]
           /\ UNCHANGED <<record, index, indexStamp, raced, orphaned>>
        \/ /\ \E s \in Live : /\ record' = [record EXCEPT ![s] = None]
                              /\ raced' = raced \cup ({s} \cap Refreshing)
           /\ UNCHANGED <<refreshKey, index, indexStamp, orphaned>>
        \/ /\ index' = {} /\ indexStamp' = None /\ orphaned' = orphaned \cup index
           /\ UNCHANGED <<refreshKey, record, raced>>
  BY DEF Expire
<1>2. Held' = Held /\ Unwritten' = Unwritten /\ IssuesDiffer'
  BY <1>0 DEF Held, Unwritten, IssuesDiffer, Recording, Issuing, IInv, GlobalInv
<1>3. nextSid <= nextSid' /\ nextJti <= nextJti' BY <1>0, Bounds DEF IInv
<1>4. /\ raced \subseteq raced' /\ orphaned \subseteq orphaned'
      /\ index' \subseteq index /\ index \subseteq index' \cup orphaned'
      /\ \A v \in Sid : record[v] = None => record'[v] = None
      /\ \A v \in Refreshing : v \in Sid /\ record'[v] = None => record[v] = None \/ v \in raced'
      /\ \A k \in Jti : refreshKey[k] = None => refreshKey'[k] = None
  BY <1>1 DEF IInv, TypeOK, Live
<1>5. \A v \in Sid : (Gone(v) => Gone(v)') /\ (Listed(v) => Listed(v)')
  BY <1>4 DEF Gone, Listed
<1>6. \A v \in Refreshing : Gone(v)' => Gone(v) \/ v \in raced'
  <2>1. Refreshing \subseteq Sid
    BY HeldWritten DEF Refreshing, PastChecks, IInv, RequestInv, Holds
  <2> QED BY <1>4, <2>1 DEF Gone
<1>7. Grows BY <1>0, <1>2, <1>3, <1>4, <1>5, <1>6 DEF Grows
<1>8. TypeOK'
  <2>1. /\ refreshKey' \in [Jti -> Sid \cup {None}] /\ record' \in [Sid -> Jti \cup {None}]
        /\ index' \subseteq Sid /\ indexStamp' \in Jti \cup {None}
        /\ (index' = {} => indexStamp' = None)
        /\ orphaned' \subseteq Sid /\ raced' \subseteq Sid
    BY <1>1 DEF IInv, TypeOK, Live
  <2> QED BY <1>0, <2>1 DEF IInv, TypeOK
<1>9. GlobalInv'
  <2>1. ConsumedIsDead' /\ TokensIssued'
    BY <1>0, <1>4 DEF IInv, TypeOK, GlobalInv, ConsumedIsDead, TokensIssued
  <2>2. UnwrittenIsUnknown'
    BY <1>0, <1>2, <1>4 DEF IInv, GlobalInv, UnwrittenIsUnknown, Unwritten
  <2>3. EndedIsGone' BY <1>0, <1>5, HeldWritten DEF IInv, GlobalInv, EndedIsGone
  <2>4. HeldIsListed' BY <1>2, <1>5, HeldWritten DEF IInv, GlobalInv, HeldIsListed
  <2> QED BY <1>2, <2>1, <2>2, <2>3, <2>4 DEF GlobalInv
<1>10. \A o \in Request : RequestInv(req[o])'
  BY <1>0, <1>7, <1>8, OthersFrame, BoundsNext
<1> QED BY <1>8, <1>9, <1>10 DEF IInv

-----------------------------------------------------------------------------
(* The theorems.                                                            *)

LEMMA IInvInit == Init => IInv
<1> SUFFICES ASSUME Init PROVE IInv OBVIOUS
<1>1. 1 \in 1 .. MaxSid + 1 /\ 1 \in 1 .. MaxJti + 1
  BY SessionsAssumption DEF SessionsAssumption
<1>2. TypeOK BY <1>1, IdleInv DEF Init, TypeOK
<1>3. Held = {} BY DEF Held, Init
<1>4. \A r \in Request : req[r] = Idle BY DEF Init
<1>5. GlobalInv
  BY <1>3, <1>4, IdleInv
  DEF Init, GlobalInv, ConsumedIsDead, TokensIssued, UnwrittenIsUnknown, IssuesDiffer,
      EndedIsGone, HeldIsListed, Unwritten
<1> QED BY <1>2, <1>4, <1>5, IdleInv DEF IInv

LEMMA IInvNext == IInv /\ [Next]_vars => IInv'
<1> SUFFICES ASSUME IInv, [Next]_vars PROVE IInv' OBVIOUS
<1>1. ASSUME NEW r \in Request, Step(r) PROVE IInv'
  BY <1>1, StartSteps, RefreshSteps, PasswordSteps, LoopSteps, IndexSteps, DeleteStep,
     RotateSteps, IssueKeyStep, WriteStep, IssueIndexStep, IssueExpireStep
  DEF Step
<1>2. CASE UNCHANGED vars
  <2> USE <1>2 DEF vars, redis, history
  <2>1. \A s : (Gone(s)' <=> Gone(s)) /\ (Listed(s)' <=> Listed(s)) BY DEF Gone, Listed
  <2>2. Held' = Held /\ Unwritten' = Unwritten BY DEF Held, Unwritten, Recording
  <2>3. TypeOK' BY DEF IInv, TypeOK
  <2>4. GlobalInv'
    BY <2>1, <2>2 DEF IInv, GlobalInv, ConsumedIsDead, TokensIssued, UnwrittenIsUnknown,
      IssuesDiffer, EndedIsGone, HeldIsListed
  <2>5. \A r \in Request : Holds(req[r])' BY <2>1, <2>2 DEF IInv, RequestInv, Holds
  <2>6. \A r \in Request : Owes(req[r])' BY <2>1, <2>2 DEF IInv, RequestInv, Owes
  <2>7. \A r \in Request : Control(req[r])' BY DEF IInv, RequestInv, Control
  <2> QED BY <2>3, <2>4, <2>5, <2>6, <2>7 DEF IInv, RequestInv
<1> QED BY <1>1, <1>2, ExpireStep, ResetTokenStep DEF Next

LEMMA Inductive == Spec => []IInv
BY IInvInit, IInvNext, PTL DEF Spec

(* The Redis keys and the requests keep their types: the index has a TTL    *)
(* only while it has members, and no step reads a session it does not have. *)
THEOREM TypeCorrect == Spec => []TypeOK
<1>1. IInv => TypeOK BY DEF IInv
<1> QED BY <1>1, Inductive, PTL

(* A refresh token that a rotation has consumed is refused for ever after.  *)
THEOREM RotationIsFinal == Spec => []RotatedTokenIsDead
<1>1. ASSUME IInv PROVE RotatedTokenIsDead
  <2>1. \A t \in tokens : t.sid \in Sid BY <1>1 DEF IInv, TypeOK
  <2> QED BY <1>1, <2>1, Bounds DEF IInv, GlobalInv, ConsumedIsDead, RotatedTokenIsDead, Usable
<1> QED BY <1>1, Inductive, PTL

(* A deleted session comes back only through a refresh that had passed its  *)
(* checks when it was deleted.                                              *)
THEOREM RevocationIsFinal == Spec => []RevokedReturnsOnlyByRace
<1>1. IInv => RevokedReturnsOnlyByRace
  BY DEF IInv, GlobalInv, EndedIsGone, Gone, RevokedReturnsOnlyByRace
<1> QED BY <1>1, Inductive, PTL

(* A session that can be refreshed is in the index, or the index expired    *)
(* under it, or a refresh revived it.                                       *)
THEOREM UsableIsListed == Spec => []LiveSessionIsListed
<1>1. ASSUME IInv, NEW t \in tokens, Usable(t)
      PROVE  t.sid \in index \cup orphaned \cup raced
  <2>1. t.jti \in Jti /\ record[t.sid] = t.jti /\ t.sid \in Held
    BY <1>1 DEF IInv, TypeOK, Usable, Held
  <2>2. record[t.sid] # None BY <2>1 DEF Jti, None
  <2> QED BY <1>1, <2>1, <2>2 DEF IInv, GlobalInv, HeldIsListed, Listed, Gone
<1>2. IInv => LiveSessionIsListed BY <1>1 DEF LiveSessionIsListed
<1> QED BY <1>2, Inductive, PTL

(* A password handler that answers with success has ended every session it  *)
(* owed the account, but those the index had lost or a refresh revived.     *)
THEOREM RevocationComplete == Spec => []RevocationReachesListed
<1>1. IInv => RevocationReachesListed
  BY DEF IInv, RequestInv, Owes, Gone, Live, RevocationReachesListed
<1> QED BY <1>1, Inductive, PTL

-----------------------------------------------------------------------------
(* The session limit.  A login reads the index once and then one record     *)
(* after the other, while others open sessions it will not see: what each   *)
(* keeps says little of what they leave together.  What bounds them is the  *)
(* order in which they read the index.  Of the logins admitted so far, take *)
(* the one that read last: the sessions listed now are fewer than the limit *)
(* among those it found, itself, and those of logins that were in flight    *)
(* when it read, at most one for each other slot.                           *)

(* The sessions that the limit is about.                                    *)
Counted == (index \cap Live) \ raced

(* A login that reads or revokes sessions; one that may open its own; one   *)
(* whose session has no index entry yet.                                    *)
Enforcing(q) == q.op = "login" /\ q.pc \in {"scan", "scanRem", "read", "del", "srem"}
Admitted(q)  == q.op = "login" /\ q.pc \in {"key", "record", "sadd"}
Listing(q)   == q.op = "login" /\ q.pc \in {"record", "sadd"}

(* The sessions whose record a login has read, those it has or had to read, *)
(* and those it does not revoke.                                            *)
Found(q) == {s \in Sid : q.seen[s] # None}
Known(q) == q.todo \cup Found(q)
Kept(q)  == Found(q) \ Victims(q.seen)

(* Sessions that no login has put in the index yet: nobody knows of them.   *)
Unlisted ==
  {s \in Sid : s >= nextSid \/ \E r \in Request : Listing(req[r]) /\ req[r].sid = s}

UnlistedIsUnknown ==
  /\ Unlisted \cap index = {}
  /\ \A r \in Request : Enforcing(req[r]) => Known(req[r]) \cap Unlisted = {}

(* A login that has yet to read the index knows of no session.              *)
Standing(q) ==
  q.op = "login" =>
    Enforcing(q) \/ Admitted(q) \/ q.pc = "expire" \/ (q.pc = "members" /\ Found(q) = {})

(* A stamp belongs to one session, wherever it is written or remembered, so *)
(* that a login sorts the records it has read without ties.                 *)
Stamped(j, s) ==
  \/ record[s] = j
  \/ \E r \in Request : Enforcing(req[r]) /\ req[r].seen[s] = j
  \/ \E r \in Request : req[r].pc = "record" /\ req[r].sid = s /\ req[r].jti = j

StampsDiffer ==
  \A j \in Jti, s \in Sid :
    Stamped(j, s) => j < nextJti /\ \A t \in Sid : Stamped(j, t) => s = t

(* Of the sessions it found, a login keeps the newest and has still to      *)
(* revoke the others.                                                       *)
Evicting(q) ==
  Enforcing(q) /\ q.pc \in {"read", "del", "srem"} =>
    /\ q.todo \subseteq Found(q)
    /\ Counted \cap Found(q) \subseteq Kept(q) \cup q.todo

(* rank is the order in which the logins in flight read the index, last the *)
(* rank of the last reader admitted.  Ahead are the logins of rank x or     *)
(* less, and those admitted: each may still list one session.               *)
Ahead(rank, x) ==
  {o \in Request : Admitted(req[o]) \/ (Enforcing(req[o]) /\ rank[o] <= x)}

Ordered(rank, last) ==
  /\ \A r, o \in Request :
       r # o /\ Enforcing(req[r]) /\ Enforcing(req[o]) => rank[r] # rank[o]
  /\ Cardinality(Counted) + Cardinality(Ahead(rank, last))
       <= MaxSessions + Cardinality(Request) - 1
  /\ \A r \in Request :
       Enforcing(req[r]) /\ rank[r] > last =>
         Cardinality(Counted \ Known(req[r])) + Cardinality(Ahead(rank, rank[r]) \ {r})
           <= Cardinality(Request) - 1

InOrder ==
  \E top \in Nat : \E last \in 0 .. top, rank \in [Request -> 0 .. top] : Ordered(rank, last)

LimitInv ==
  /\ UnlistedIsUnknown /\ StampsDiffer
  /\ \A r \in Request : Standing(req[r]) /\ Evicting(req[r])
  /\ InOrder

-----------------------------------------------------------------------------
LEMMA LeastExists ==
  ASSUME NEW T \in SUBSET Nat, T # {}
  PROVE  \E x \in T : \A y \in T : x <= y
<1>1. PICK x \in T : \A y \in T : ~(<<y, x>> \in OpToRel(<, Nat))
  BY NatLessThanWellFounded, WFMin, Zenon
<1>2. \A y \in T : ~(y < x) BY <1>1, Zenon DEF OpToRel
<1> QED BY <1>2

LEMMA FewerIn ==
  ASSUME NEW S, IsFiniteSet(S), NEW T \in SUBSET S
  PROVE  /\ IsFiniteSet(T) /\ Cardinality(T) \in Nat /\ Cardinality(S) \in Nat
         /\ Cardinality(T) <= Cardinality(S)
BY FS_Subset, FS_CardinalityType

LEMMA OneMore ==
  ASSUME NEW S, IsFiniteSet(S), NEW x, NEW T \in SUBSET (S \cup {x})
  PROVE  /\ IsFiniteSet(T) /\ Cardinality(T) \in Nat /\ Cardinality(S) \in Nat
         /\ Cardinality(T) <= Cardinality(S) + 1
<1>1. /\ IsFiniteSet(S \cup {x})
      /\ Cardinality(S \cup {x}) = IF x \in S THEN Cardinality(S) ELSE Cardinality(S) + 1
  BY FS_AddElement
<1>2. Cardinality(S) \in Nat BY FS_CardinalityType
<1> QED BY <1>1, <1>2, FewerIn

LEMMA OneLess ==
  ASSUME NEW S, IsFiniteSet(S), NEW x \in S
  PROVE  /\ IsFiniteSet(S \ {x}) /\ Cardinality(S) \in Nat
         /\ Cardinality(S \ {x}) = Cardinality(S) - 1
BY FS_RemoveElement, FS_CardinalityType

LEMMA InAndOut ==
  ASSUME NEW S, IsFiniteSet(S), NEW K
  PROVE  /\ Cardinality(S) = Cardinality(S \cap K) + Cardinality(S \ K)
         /\ Cardinality(S) \in Nat /\ Cardinality(S \cap K) \in Nat
         /\ Cardinality(S \ K) \in Nat
<1> DEFINE in == S \cap K  out == S \ K
<1>1. /\ IsFiniteSet(in) /\ Cardinality(in) \in Nat
      /\ IsFiniteSet(out) /\ Cardinality(out) \in Nat
  BY FewerIn
<1>2. in \cup out = S /\ in \cap out = {} OBVIOUS
<1> HIDE DEF in, out
<1>3. Cardinality(in \cup out) = Cardinality(in) + Cardinality(out) - Cardinality(in \cap out)
  BY <1>1, FS_Union
<1>4. Cardinality(in \cap out) = 0 BY <1>2, FS_EmptySet
<1>7. Cardinality(in \cup out) = Cardinality(in) + Cardinality(out)
  BY <1>1, <1>3, <1>4
<1>5. Cardinality(S) = Cardinality(in) + Cardinality(out) BY <1>2, <1>7
<1>6. Cardinality(S) \in Nat BY <1>1, <1>5
<1> QED BY <1>1, <1>5, <1>6 DEF in, out

LEMMA SumFalls ==
  \A a, b, c, d \in Nat, e \in Int : a <= c /\ b <= d /\ c + d <= e => a + b <= e
OBVIOUS

LEMMA FiniteSids == IsFiniteSet(Sid) /\ IsFiniteSet(Request)
BY FS_Interval, SessionsAssumption DEF Sid, SessionsAssumption

(* A login keeps fewer sessions than the limit: the oldest one kept has     *)
(* fewer than MaxSessions - 1 newer than itself.                            *)
LEMMA KeepsFew ==
  ASSUME NEW q \in RequestState,
         \A s, t \in Found(q) : q.seen[s] = q.seen[t] => s = t
  PROVE  IsFiniteSet(Kept(q)) /\ Cardinality(Kept(q)) <= MaxSessions - 1
<1>0. /\ MaxSessions \in Nat /\ MaxSessions >= 1
  BY SessionsAssumption DEF SessionsAssumption
<1>1. Kept(q) \subseteq Sid /\ IsFiniteSet(Kept(q))
  BY FiniteSids, FewerIn DEF Kept, Found
<1>2. CASE Kept(q) = {} BY <1>0, <1>1, <1>2, FS_EmptySet
<1>3. CASE Kept(q) # {}
  <2> DEFINE stamps == {q.seen[s] : s \in Kept(q)}
  <2>0. \A s \in Sid : q.seen[s] \in Nat
    BY SessionsAssumption DEF RequestState, Jti, None, SessionsAssumption
  <2>1. stamps \in SUBSET Nat /\ stamps # {} BY <1>1, <1>3, <2>0
  <2>2. PICK x \in stamps : \A y \in stamps : x <= y BY <2>1, LeastExists
  <2>3. PICK s \in Kept(q) : \A t \in Kept(q) : q.seen[s] <= q.seen[t] BY <2>2
  <2> DEFINE newer == {t \in Found(q) : q.seen[t] > q.seen[s]}
  <2>4. newer \subseteq Sid /\ IsFiniteSet(newer) /\ Cardinality(newer) \in Nat
    BY FiniteSids, FewerIn DEF Found
  <2>5. Kept(q) \ {s} \subseteq newer
    <3> SUFFICES ASSUME NEW t \in Kept(q), t # s PROVE t \in newer OBVIOUS
    <3>1. t \in Found(q) /\ s \in Found(q) BY DEF Kept
    <3>2. q.seen[t] # q.seen[s] BY <3>1
    <3>3. q.seen[s] \in Nat /\ q.seen[t] \in Nat BY <1>1, <2>0
    <3> QED BY <2>3, <3>1, <3>2, <3>3
  <2>6. Cardinality(newer) < MaxSessions - 1
    <3>1. s \in Found(q) /\ s \notin Victims(q.seen) BY DEF Kept
    <3>2. newer = {t \in {u \in Sid : q.seen[u] # None} : q.seen[t] > q.seen[s]}
      BY DEF Found
    <3>3. ~(Cardinality(newer) >= MaxSessions - 1) BY <3>1, <3>2 DEF Victims, Found
    <3> QED BY <1>0, <2>4, <3>3
  <2>7. Cardinality(Kept(q) \ {s}) = Cardinality(Kept(q)) - 1 /\ Cardinality(Kept(q)) \in Nat
    BY <1>1, OneLess
  <2>8. Cardinality(Kept(q) \ {s}) <= Cardinality(newer) BY <2>4, <2>5, FewerIn
  <2>9. Cardinality(Kept(q) \ {s}) \in Nat BY <1>1, FewerIn
  <2> HIDE DEF newer
  <2> QED BY <1>0, <1>1, <2>4, <2>6, <2>7, <2>8, <2>9
<1> QED BY <1>2, <1>3

-----------------------------------------------------------------------------
(* The order of the logins, step by step.                                   *)

LEMMA AheadFinite ==
  ASSUME NEW rank, NEW x
  PROVE  /\ Ahead(rank, x) \subseteq Request /\ IsFiniteSet(Ahead(rank, x))
         /\ IsFiniteSet(Ahead(rank, x)')
         /\ Cardinality(Ahead(rank, x)) \in Nat /\ Cardinality(Ahead(rank, x)') \in Nat
         /\ Cardinality(Request) \in Nat
<1>1. Ahead(rank, x) \subseteq Request /\ Ahead(rank, x)' \subseteq Request BY DEF Ahead
<1> QED BY <1>1, FiniteSids, FewerIn, FS_CardinalityType

LEMMA LimitIsNumber ==
  /\ MaxSessions + Cardinality(Request) - 1 \in Int
  /\ Cardinality(Request) - 1 \in Int
<1>1. MaxSessions \in Int /\ Cardinality(Request) \in Int
  BY FiniteSids, FS_CardinalityType, SessionsAssumption DEF SessionsAssumption
<1> QED BY <1>1

LEMMA CountedFinite ==
  ASSUME NEW K
  PROVE  /\ IsFiniteSet(Counted) /\ IsFiniteSet(Counted')
         /\ IsFiniteSet(Counted \ K) /\ IsFiniteSet(Counted' \ K)
         /\ Cardinality(Counted) \in Nat /\ Cardinality(Counted') \in Nat
         /\ Cardinality(Counted \ K) \in Nat /\ Cardinality(Counted' \ K) \in Nat
<1>1. Counted \subseteq Sid /\ Counted' \subseteq Sid BY DEF Counted, Live
<1>2. Counted \ K \subseteq Sid /\ Counted' \ K \subseteq Sid BY <1>1
<1> QED BY <1>1, <1>2, FiniteSids, FewerIn

(* A step that lets no session in, neither starts a login nor admits one.   *)
LEMMA OrderKept ==
  ASSUME InOrder, Counted' \subseteq Counted,
         \A o \in Request : Admitted(req[o])' => Admitted(req[o]),
         \A o \in Request : Enforcing(req[o])' =>
           Enforcing(req[o]) /\ Counted' \ Known(req[o])' \subseteq Counted \ Known(req[o])
  PROVE  InOrder'
<1>1. PICK top \in Nat : \E last \in 0 .. top, rank \in [Request -> 0 .. top] :
                           Ordered(rank, last)
  BY DEF InOrder
<1>2. PICK last \in 0 .. top, rank \in [Request -> 0 .. top] : Ordered(rank, last) BY <1>1
<1>3. \A x : Ahead(rank, x)' \subseteq Ahead(rank, x) BY DEF Ahead
<1>4. Ordered(rank, last)'
  <2>1. \A r, o \in Request :
          r # o /\ Enforcing(req[r])' /\ Enforcing(req[o])' => rank[r] # rank[o]
    BY <1>2 DEF Ordered
  <2>2. Cardinality(Counted') + Cardinality(Ahead(rank, last)')
          <= MaxSessions + Cardinality(Request) - 1
    <3>1. /\ Cardinality(Counted') <= Cardinality(Counted)
          /\ Cardinality(Counted') \in Nat /\ Cardinality(Counted) \in Nat
      BY CountedFinite, FewerIn
    <3>2. /\ Cardinality(Ahead(rank, last)') <= Cardinality(Ahead(rank, last))
          /\ Cardinality(Ahead(rank, last)') \in Nat /\ Cardinality(Ahead(rank, last)) \in Nat
      BY <1>3, AheadFinite, FewerIn
    <3>3. Cardinality(Counted) + Cardinality(Ahead(rank, last))
          <= MaxSessions + Cardinality(Request) - 1
      BY <1>2 DEF Ordered
    <3>4. MaxSessions + Cardinality(Request) - 1 \in Int BY LimitIsNumber
    <3> QED BY <3>1, <3>2, <3>3, <3>4, SumFalls
  <2>3. ASSUME NEW r \in Request, Enforcing(req[r])', rank[r] > last
        PROVE  Cardinality(Counted' \ Known(req[r])') + Cardinality(Ahead(rank, rank[r])' \ {r})
                 <= Cardinality(Request) - 1
    <3>1. Cardinality(Counted \ Known(req[r])) + Cardinality(Ahead(rank, rank[r]) \ {r})
            <= Cardinality(Request) - 1
      BY <1>2, <2>3 DEF Ordered
    <3>2. /\ Cardinality(Counted' \ Known(req[r])') <= Cardinality(Counted \ Known(req[r]))
          /\ Cardinality(Counted' \ Known(req[r])') \in Nat
          /\ Cardinality(Counted \ Known(req[r])) \in Nat
      BY <2>3, CountedFinite, FewerIn
    <3>3. /\ Cardinality(Ahead(rank, rank[r])' \ {r}) <= Cardinality(Ahead(rank, rank[r]) \ {r})
          /\ Cardinality(Ahead(rank, rank[r])' \ {r}) \in Nat
          /\ Cardinality(Ahead(rank, rank[r]) \ {r}) \in Nat
      <4>1. Ahead(rank, rank[r])' \ {r} \subseteq Ahead(rank, rank[r]) \ {r} BY <1>3
      <4>2. IsFiniteSet(Ahead(rank, rank[r]) \ {r}) BY AheadFinite, FewerIn
      <4> QED BY <4>1, <4>2, FewerIn
    <3>4. Cardinality(Request) - 1 \in Int BY LimitIsNumber
    <3> QED BY <3>1, <3>2, <3>3, <3>4, SumFalls
  <2> QED BY <2>1, <2>2, <2>3 DEF Ordered
<1> QED BY <1>2, <1>4 DEF InOrder

(* A login whose evictions leave room is admitted: it is the last that read *)
(* the index of all admitted so far, unless a later reader was faster.      *)
LEMMA OrderAdmits ==
  ASSUME InOrder, Counted' \subseteq Counted,
         NEW r \in Request, Enforcing(req[r]), ~Enforcing(req[r])', Admitted(req[r])',
         \A o \in Request \ {r} : req'[o] = req[o],
         Cardinality(Counted' \cap Known(req[r])) <= MaxSessions - 1
  PROVE  InOrder'
<1>1. PICK top \in Nat : \E last \in 0 .. top, rank \in [Request -> 0 .. top] :
                           Ordered(rank, last)
  BY DEF InOrder
<1>2. PICK last \in 0 .. top, rank \in [Request -> 0 .. top] : Ordered(rank, last) BY <1>1
<1>r. rank[r] \in 0 .. top /\ \A o \in Request : rank[o] \in Nat OBVIOUS
<1>3. \A o \in Request \ {r} :
        /\ (Admitted(req[o])' <=> Admitted(req[o])) /\ (Enforcing(req[o])' <=> Enforcing(req[o]))
        /\ Known(req[o])' = Known(req[o])
  BY DEF Admitted, Enforcing, Known, Found
<1>4. \A x \in Nat : x >= rank[r] => Ahead(rank, x)' \subseteq Ahead(rank, x)
  BY <1>3 DEF Ahead
<1>5. \A o, p \in Request :
        o # p /\ Enforcing(req[o])' /\ Enforcing(req[p])' => rank[o] # rank[p]
  BY <1>2, <1>3 DEF Ordered
<1>6. ASSUME NEW o \in Request, Enforcing(req[o])', rank[o] > last, rank[o] > rank[r]
      PROVE  Cardinality(Counted' \ Known(req[o])') + Cardinality(Ahead(rank, rank[o])' \ {o})
               <= Cardinality(Request) - 1
  <2>0. o # r /\ Enforcing(req[o]) /\ Known(req[o])' = Known(req[o]) BY <1>3, <1>6
  <2>1. Cardinality(Counted \ Known(req[o])) + Cardinality(Ahead(rank, rank[o]) \ {o})
          <= Cardinality(Request) - 1
    BY <1>2, <1>6, <2>0 DEF Ordered
  <2>2. /\ Cardinality(Counted' \ Known(req[o])') <= Cardinality(Counted \ Known(req[o]))
        /\ Cardinality(Counted' \ Known(req[o])') \in Nat
        /\ Cardinality(Counted \ Known(req[o])) \in Nat
    BY <2>0, CountedFinite, FewerIn
  <2>3. /\ Cardinality(Ahead(rank, rank[o])' \ {o}) <= Cardinality(Ahead(rank, rank[o]) \ {o})
        /\ Cardinality(Ahead(rank, rank[o])' \ {o}) \in Nat
        /\ Cardinality(Ahead(rank, rank[o]) \ {o}) \in Nat
    <3>1. rank[o] >= rank[r] /\ rank[o] \in Nat BY <1>r, <1>6
    <3>2. Ahead(rank, rank[o])' \ {o} \subseteq Ahead(rank, rank[o]) \ {o} BY <1>4, <3>1
    <3>3. IsFiniteSet(Ahead(rank, rank[o]) \ {o}) BY AheadFinite, FewerIn
    <3> QED BY <3>2, <3>3, FewerIn
  <2>4. Cardinality(Request) - 1 \in Int BY LimitIsNumber
  <2> QED BY <2>1, <2>2, <2>3, <2>4, SumFalls
<1>7. CASE rank[r] <= last
  <2>1. Cardinality(Counted') + Cardinality(Ahead(rank, last)')
          <= MaxSessions + Cardinality(Request) - 1
    <3>1. /\ Cardinality(Counted') <= Cardinality(Counted)
          /\ Cardinality(Counted') \in Nat /\ Cardinality(Counted) \in Nat
      BY CountedFinite, FewerIn
    <3>2. /\ Cardinality(Ahead(rank, last)') <= Cardinality(Ahead(rank, last))
          /\ Cardinality(Ahead(rank, last)') \in Nat /\ Cardinality(Ahead(rank, last)) \in Nat
      BY <1>4, <1>7, AheadFinite, FewerIn
    <3>3. Cardinality(Counted) + Cardinality(Ahead(rank, last))
          <= MaxSessions + Cardinality(Request) - 1
      BY <1>2 DEF Ordered
    <3>4. MaxSessions + Cardinality(Request) - 1 \in Int BY LimitIsNumber
    <3> QED BY <3>1, <3>2, <3>3, <3>4, SumFalls
  <2>2. \A o \in Request : Enforcing(req[o])' /\ rank[o] > last => rank[o] > rank[r]
    BY <1>r, <1>7
  <2>3. Ordered(rank, last)' BY <1>5, <1>6, <2>1, <2>2 DEF Ordered
  <2> QED BY <2>3 DEF InOrder
<1>8. CASE rank[r] > last
  <2> DEFINE x == rank[r]
  <2>1. Cardinality(Counted') + Cardinality(Ahead(rank, x)')
          <= MaxSessions + Cardinality(Request) - 1
    <3> DEFINE K == Known(req[r])
    <3>1. Cardinality(Counted \ K) + Cardinality(Ahead(rank, x) \ {r})
            <= Cardinality(Request) - 1
      BY <1>2, <1>8 DEF Ordered
    <3>2. /\ Cardinality(Counted' \ K) <= Cardinality(Counted \ K)
          /\ Cardinality(Counted' \ K) \in Nat /\ Cardinality(Counted \ K) \in Nat
      BY CountedFinite, FewerIn
    <3>3. /\ Cardinality(Ahead(rank, x)') <= Cardinality(Ahead(rank, x) \ {r}) + 1
          /\ Cardinality(Ahead(rank, x)') \in Nat /\ Cardinality(Ahead(rank, x) \ {r}) \in Nat
      <4>1. Ahead(rank, x)' \subseteq (Ahead(rank, x) \ {r}) \cup {r} BY <1>r, <1>4
      <4>2. IsFiniteSet(Ahead(rank, x) \ {r}) BY AheadFinite, FewerIn
      <4> QED BY <4>1, <4>2, OneMore, AheadFinite
    <3>4. /\ Cardinality(Counted') = Cardinality(Counted' \cap K) + Cardinality(Counted' \ K)
          /\ Cardinality(Counted' \cap K) \in Nat /\ Cardinality(Counted') \in Nat
      BY CountedFinite, InAndOut
    <3>5. /\ MaxSessions \in Nat /\ Cardinality(Request) \in Nat
          /\ Cardinality(Counted' \cap K) <= MaxSessions - 1
      BY SessionsAssumption, AheadFinite DEF SessionsAssumption
    <3> HIDE DEF K, x
    <3> QED BY <3>1, <3>2, <3>3, <3>4, <3>5
  <2>2. \A o \in Request : Enforcing(req[o])' /\ rank[o] > x => rank[o] > last
    BY <1>r, <1>8
  <2>3. Ordered(rank, x)' BY <1>5, <1>6, <2>1, <2>2 DEF Ordered
  <2> QED BY <1>r, <2>3 DEF InOrder
<1> QED BY <1>r, <1>7, <1>8

(* A login below the limit is admitted at once, as the last that read.      *)
LEMMA OrderEnters ==
  ASSUME InOrder, Counted' = Counted, Cardinality(Counted) <= MaxSessions - 1,
         NEW r \in Request, ~Enforcing(req[r])',
         \A o \in Request \ {r} : req'[o] = req[o]
  PROVE  InOrder'
<1>1. PICK top \in Nat : \E last \in 0 .. top, rank \in [Request -> 0 .. top] :
                           Ordered(rank, last)
  BY DEF InOrder
<1>2. PICK last \in 0 .. top, rank \in [Request -> 0 .. top] : Ordered(rank, last) BY <1>1
<1>3. \A o, p \in Request :
        o # p /\ Enforcing(req[o])' /\ Enforcing(req[p])' => rank[o] # rank[p]
  <2>1. \A o \in Request : Enforcing(req[o])' => Enforcing(req[o]) BY DEF Enforcing
  <2> QED BY <1>2, <2>1 DEF Ordered
<1>4. Cardinality(Counted') + Cardinality(Ahead(rank, top)')
        <= MaxSessions + Cardinality(Request) - 1
  <2>1. Ahead(rank, top)' \subseteq Request BY DEF Ahead
  <2>2. Cardinality(Ahead(rank, top)') <= Cardinality(Request) BY <2>1, FiniteSids, FewerIn
  <2>3. /\ Cardinality(Ahead(rank, top)') \in Nat /\ Cardinality(Request) \in Nat
        /\ Cardinality(Counted') \in Nat /\ MaxSessions \in Nat
        /\ Cardinality(Counted') <= MaxSessions - 1
    BY AheadFinite, CountedFinite, SessionsAssumption DEF SessionsAssumption
  <2> QED BY <2>2, <2>3
<1>5. \A o \in Request : rank[o] \in 0 .. top OBVIOUS
<1>6. Ordered(rank, top)'
  <2>1. \A o \in Request : ~(rank[o] > top) BY <1>5
  <2> QED BY <1>3, <1>4, <2>1 DEF Ordered
<1>7. top \in 0 .. top OBVIOUS
<1> QED BY <1>6, <1>7 DEF InOrder

(* A login at the limit starts to read what it found in the index, as the   *)
(* last that read.                                                          *)
LEMMA OrderStarts ==
  ASSUME InOrder, Counted' = Counted,
         NEW r \in Request, ~Enforcing(req[r]), ~Admitted(req[r])',
         Counted \subseteq Known(req[r])',
         \A o \in Request \ {r} : req'[o] = req[o]
  PROVE  InOrder'
<1>1. PICK top \in Nat : \E last \in 0 .. top, rank \in [Request -> 0 .. top] :
                           Ordered(rank, last)
  BY DEF InOrder
<1>2. PICK last \in 0 .. top, rank \in [Request -> 0 .. top] : Ordered(rank, last) BY <1>1
<1> DEFINE after == [rank EXCEPT ![r] = top + 1]
<1>3. /\ after \in [Request -> 0 .. top + 1] /\ last \in 0 .. top + 1 /\ top + 1 \in Nat
      /\ after[r] = top + 1 /\ \A o \in Request \ {r} : after[o] = rank[o]
      /\ \A o \in Request : rank[o] \in 0 .. top
  OBVIOUS
<1> HIDE DEF after
<1>4. \A o \in Request \ {r} :
        /\ (Admitted(req[o])' <=> Admitted(req[o])) /\ (Enforcing(req[o])' <=> Enforcing(req[o]))
        /\ Known(req[o])' = Known(req[o])
  BY DEF Admitted, Enforcing, Known, Found
<1>5. \A o, p \in Request :
        o # p /\ Enforcing(req[o])' /\ Enforcing(req[p])' => after[o] # after[p]
  BY <1>2, <1>3, <1>4 DEF Ordered
<1>6. \A x \in 0 .. top : Ahead(after, x)' \subseteq Ahead(rank, x)
  BY <1>3, <1>4 DEF Ahead
<1>7. Cardinality(Counted') + Cardinality(Ahead(after, last)')
        <= MaxSessions + Cardinality(Request) - 1
  <2>1. Cardinality(Ahead(after, last)') <= Cardinality(Ahead(rank, last))
    BY <1>6, AheadFinite, FewerIn
  <2>2. Cardinality(Counted) + Cardinality(Ahead(rank, last))
          <= MaxSessions + Cardinality(Request) - 1
    BY <1>2 DEF Ordered
  <2>3. /\ Cardinality(Ahead(after, last)') \in Nat /\ Cardinality(Ahead(rank, last)) \in Nat
        /\ Cardinality(Counted) \in Nat
    BY AheadFinite, CountedFinite
  <2>4. MaxSessions + Cardinality(Request) - 1 \in Int BY LimitIsNumber
  <2>5. Cardinality(Counted') = Cardinality(Counted) OBVIOUS
  <2> QED BY <2>1, <2>2, <2>3, <2>4, <2>5
<1>8. ASSUME NEW o \in Request, Enforcing(req[o])', after[o] > last
      PROVE  Cardinality(Counted' \ Known(req[o])') + Cardinality(Ahead(after, after[o])' \ {o})
               <= Cardinality(Request) - 1
  <2>1. CASE o = r
    <3>1. Cardinality(Counted' \ Known(req[o])') = 0
      <4>1. Counted' \ Known(req[o])' = {} BY <2>1
      <4> QED BY <4>1, FS_EmptySet
    <3>2. Ahead(after, after[o])' \ {o} \subseteq Request \ {o} BY DEF Ahead
    <3>3. /\ IsFiniteSet(Request \ {o}) /\ Cardinality(Request) \in Nat
          /\ Cardinality(Request \ {o}) = Cardinality(Request) - 1
      BY FiniteSids, OneLess
    <3>4. /\ Cardinality(Ahead(after, after[o])' \ {o}) <= Cardinality(Request \ {o})
          /\ Cardinality(Ahead(after, after[o])' \ {o}) \in Nat
      BY <3>2, <3>3, FewerIn
    <3> QED BY <3>1, <3>3, <3>4
  <2>2. CASE o # r
    <3>1. /\ after[o] = rank[o] /\ rank[o] \in 0 .. top /\ rank[o] > last
          /\ Enforcing(req[o]) /\ Known(req[o])' = Known(req[o])
      BY <1>3, <1>4, <1>8, <2>2
    <3>2. Cardinality(Counted \ Known(req[o])) + Cardinality(Ahead(rank, rank[o]) \ {o})
            <= Cardinality(Request) - 1
      BY <1>2, <3>1 DEF Ordered
    <3>3. /\ Cardinality(Ahead(after, rank[o])' \ {o}) <= Cardinality(Ahead(rank, rank[o]) \ {o})
          /\ Cardinality(Ahead(after, rank[o])' \ {o}) \in Nat
          /\ Cardinality(Ahead(rank, rank[o]) \ {o}) \in Nat
      <4>1. Ahead(after, rank[o])' \ {o} \subseteq Ahead(rank, rank[o]) \ {o} BY <1>6, <3>1
      <4>2. IsFiniteSet(Ahead(rank, rank[o]) \ {o}) BY AheadFinite, FewerIn
      <4> QED BY <4>1, <4>2, FewerIn
    <3>4. Cardinality(Counted \ Known(req[o])) \in Nat /\ Cardinality(Request) \in Nat
      BY CountedFinite, AheadFinite
    <3>5. Cardinality(Counted' \ Known(req[o])') = Cardinality(Counted \ Known(req[o]))
      BY <3>1
    <3> QED BY <3>1, <3>2, <3>3, <3>4, <3>5
  <2> QED BY <2>1, <2>2
<1>9. Ordered(after, last)' BY <1>5, <1>7, <1>8 DEF Ordered
<1> QED BY <1>3, <1>9 DEF InOrder

(* A session enters the index when its login leaves those admitted.         *)
LEMMA OrderLists ==
  ASSUME InOrder, NEW s, Counted' \subseteq Counted \cup {s},
         NEW r \in Request, Admitted(req[r]), ~Enforcing(req[r])', ~Admitted(req[r])',
         \A o \in Request \ {r} : req'[o] = req[o]
  PROVE  InOrder'
<1>1. PICK top \in Nat : \E last \in 0 .. top, rank \in [Request -> 0 .. top] :
                           Ordered(rank, last)
  BY DEF InOrder
<1>2. PICK last \in 0 .. top, rank \in [Request -> 0 .. top] : Ordered(rank, last) BY <1>1
<1>3. \A o \in Request \ {r} :
        /\ (Admitted(req[o])' <=> Admitted(req[o])) /\ (Enforcing(req[o])' <=> Enforcing(req[o]))
        /\ Known(req[o])' = Known(req[o])
  BY DEF Admitted, Enforcing, Known, Found
<1>4. \A x : Ahead(rank, x)' \subseteq Ahead(rank, x) \ {r} /\ r \in Ahead(rank, x)
  BY <1>3 DEF Ahead
<1>5. \A o, p \in Request :
        o # p /\ Enforcing(req[o])' /\ Enforcing(req[p])' => rank[o] # rank[p]
  BY <1>2, <1>3 DEF Ordered
<1>6. Cardinality(Counted') + Cardinality(Ahead(rank, last)')
        <= MaxSessions + Cardinality(Request) - 1
  <2>1. /\ Cardinality(Counted') <= Cardinality(Counted) + 1
        /\ Cardinality(Counted') \in Nat /\ Cardinality(Counted) \in Nat
    BY CountedFinite, OneMore
  <2>2. /\ Cardinality(Ahead(rank, last)') <= Cardinality(Ahead(rank, last) \ {r})
        /\ Cardinality(Ahead(rank, last) \ {r}) = Cardinality(Ahead(rank, last)) - 1
        /\ Cardinality(Ahead(rank, last)') \in Nat /\ Cardinality(Ahead(rank, last)) \in Nat
    BY <1>4, AheadFinite, OneLess, FewerIn
  <2>3. Cardinality(Counted) + Cardinality(Ahead(rank, last))
          <= MaxSessions + Cardinality(Request) - 1
    BY <1>2 DEF Ordered
  <2>4. MaxSessions + Cardinality(Request) - 1 \in Int BY LimitIsNumber
  <2> QED BY <2>1, <2>2, <2>3, <2>4
<1>7. ASSUME NEW o \in Request, Enforcing(req[o])', rank[o] > last
      PROVE  Cardinality(Counted' \ Known(req[o])') + Cardinality(Ahead(rank, rank[o])' \ {o})
               <= Cardinality(Request) - 1
  <2>0. o # r /\ Enforcing(req[o]) /\ Known(req[o])' = Known(req[o]) BY <1>3, <1>7
  <2>1. Cardinality(Counted \ Known(req[o])) + Cardinality(Ahead(rank, rank[o]) \ {o})
          <= Cardinality(Request) - 1
    BY <1>2, <1>7, <2>0 DEF Ordered
  <2>2. /\ Cardinality(Counted' \ Known(req[o])') <= Cardinality(Counted \ Known(req[o])) + 1
        /\ Cardinality(Counted' \ Known(req[o])') \in Nat
        /\ Cardinality(Counted \ Known(req[o])) \in Nat
    <3>1. Counted' \ Known(req[o])' \subseteq (Counted \ Known(req[o])) \cup {s} BY <2>0
    <3> QED BY <3>1, CountedFinite, OneMore
  <2> DEFINE before == Ahead(rank, rank[o]) \ {o}
             now    == Ahead(rank, rank[o])' \ {o}
  <2>3. IsFiniteSet(before) BY AheadFinite, FewerIn
  <2>4. now \subseteq before \ {r} /\ r \in before BY <1>4, <2>0
  <2>5. /\ IsFiniteSet(before \ {r}) /\ Cardinality(before) \in Nat
        /\ Cardinality(before \ {r}) = Cardinality(before) - 1
    BY <2>3, <2>4, OneLess
  <2>6. Cardinality(now) <= Cardinality(before \ {r}) /\ Cardinality(now) \in Nat
    BY <2>4, <2>5, FewerIn
  <2>7. Cardinality(Request) - 1 \in Int BY LimitIsNumber
  <2> HIDE DEF before, now
  <2>8. Cardinality(Counted' \ Known(req[o])') + Cardinality(now) <= Cardinality(Request) - 1
    <3>1. Cardinality(Counted \ Known(req[o])) + Cardinality(before) <= Cardinality(Request) - 1
      BY <2>1 DEF before
    <3> QED BY <2>2, <2>5, <2>6, <2>7, <3>1
  <2> QED BY <2>8 DEF now
<1>8. Ordered(rank, last)' BY <1>5, <1>6, <1>7 DEF Ordered
<1> QED BY <1>2, <1>8 DEF InOrder

-----------------------------------------------------------------------------
(* What the requests know, step by step.                                    *)

LEMMA CountedIsPresent ==
  ASSUME IInv PROVE Counted = {s \in index : ~Gone(s)}
BY DEF IInv, TypeOK, Counted, Live, Gone

(* No step lets a session in but the one that writes its index entry.       *)
LEMMA CountedFalls ==
  ASSUME IInv, IInv', index' \subseteq index,
         \A s \in Sid \ Unwritten : Gone(s) => Gone(s)'
  PROVE  Counted' \subseteq Counted
<1>1. index \subseteq Sid \ Unwritten BY DEF IInv, TypeOK, GlobalInv, UnwrittenIsUnknown
<1>2. Counted' = {s \in index' : ~Gone(s)'} BY DEF IInv, TypeOK, Counted, Live, Gone
<1> QED BY <1>1, <1>2, CountedIsPresent

LEMMA UnlistedFrame ==
  ASSUME IInv, UnlistedIsUnknown, NEW r \in Request, NEW q \in RequestState, Become(r, q),
         index' \subseteq index, nextSid <= nextSid', nextSid' \in Nat,
         Listing(q) => q.sid >= nextSid \/ (Listing(req[r]) /\ q.sid = req[r].sid),
         Enforcing(q) =>
           Known(q) \subseteq index \/ (Enforcing(req[r]) /\ Known(q) \subseteq Known(req[r]))
  PROVE  UnlistedIsUnknown'
<1>1. req'[r] = q /\ \A o \in Request \ {r} : req'[o] = req[o]
  BY DEF IInv, TypeOK, Become
<1>2. Unlisted' \subseteq Unlisted
  <2> SUFFICES ASSUME NEW s \in Sid, s \in Unlisted' PROVE s \in Unlisted
    BY DEF Unlisted
  <2>1. s \in Nat /\ nextSid \in Nat BY Bounds DEF IInv
  <2>2. CASE s >= nextSid' BY <2>1, <2>2 DEF Unlisted
  <2>3. CASE \E o \in Request : Listing(req'[o]) /\ req'[o].sid = s
    <3>1. PICK o \in Request : Listing(req'[o]) /\ req'[o].sid = s BY <2>3
    <3> QED BY <1>1, <3>1 DEF Unlisted
  <2> QED BY <2>2, <2>3 DEF Unlisted, Listing
<1>3. ASSUME NEW o \in Request, Enforcing(req'[o]) PROVE Known(req'[o]) \cap Unlisted = {}
  BY <1>1, <1>3 DEF UnlistedIsUnknown
<1>4. Unlisted' \cap index' = {} BY <1>2 DEF UnlistedIsUnknown
<1> QED BY <1>2, <1>3, <1>4 DEF UnlistedIsUnknown, Enforcing, Known, Found

LEMMA StampsFrame ==
  ASSUME IInv, StampsDiffer, nextJti <= nextJti', nextJti' \in Nat, NEW x,
         \A j \in Jti, s \in Sid :
           Stamped(j, s)' => Stamped(j, s) \/ (j = nextJti /\ s = x /\ nextJti' = nextJti + 1)
  PROVE  StampsDiffer'
<1>0. nextJti \in Nat /\ Jti \subseteq Nat BY Bounds DEF IInv
<1>1. ASSUME NEW j \in Jti, NEW s \in Sid, Stamped(j, s)'
      PROVE  j < nextJti' /\ \A t \in Sid : Stamped(j, t)' => s = t
  <2>1. CASE Stamped(j, s)
    <3>1. j < nextJti /\ \A t \in Sid : Stamped(j, t) => s = t BY <2>1 DEF StampsDiffer
    <3>2. j # nextJti /\ j < nextJti' BY <1>0, <3>1
    <3> QED BY <1>1, <3>1, <3>2
  <2>2. CASE j = nextJti /\ s = x /\ nextJti' = nextJti + 1
    <3>1. ASSUME NEW t \in Sid PROVE ~Stamped(j, t)
      <4>1. ~(j < nextJti) BY <1>0, <2>2
      <4> QED BY <4>1 DEF StampsDiffer
    <3>2. \A t \in Sid : Stamped(j, t)' => t = x BY <3>1
    <3> QED BY <1>0, <2>2, <3>2
  <2> QED BY <1>1, <2>1, <2>2
<1> QED BY <1>1 DEF StampsDiffer

(* The stamps after a step that issues no token.                            *)
LEMMA SameStamps ==
  ASSUME IInv, StampsDiffer, NEW r \in Request, NEW q \in RequestState, Become(r, q),
         \A s \in Sid : record'[s] \in {None, record[s]}, nextJti' = nextJti,
         q.pc # "record",
         Enforcing(q) =>
           \A s \in Sid : \/ q.seen[s] \in {None, record[s]}
                          \/ Enforcing(req[r]) /\ q.seen[s] = req[r].seen[s]
  PROVE  StampsDiffer'
<1>1. req'[r] = q /\ \A o \in Request \ {r} : req'[o] = req[o]
  BY DEF IInv, TypeOK, Become
<1>2. ASSUME NEW j \in Jti, NEW s \in Sid, Stamped(j, s)' PROVE Stamped(j, s)
  <2>0. j # None BY Bounds DEF IInv
  <2>1. CASE record'[s] = j BY <2>0, <2>1 DEF Stamped
  <2>2. CASE \E o \in Request : Enforcing(req'[o]) /\ req'[o].seen[s] = j
    BY <1>1, <2>0, <2>2 DEF Stamped
  <2>3. CASE \E o \in Request : req'[o].pc = "record" /\ req'[o].sid = s /\ req'[o].jti = j
    BY <1>1, <2>3 DEF Stamped
  <2> QED BY <1>2, <2>1, <2>2, <2>3 DEF Stamped, Enforcing
<1> QED BY <1>2, StampsFrame, Bounds DEF IInv

LEMMA OthersEvict ==
  ASSUME LimitInv, NEW o \in Request, req'[o] = req[o],
         NEW s, Enforcing(req[o]) => s \notin Found(req[o]),
         Counted' \subseteq Counted \cup {s}
  PROVE  Evicting(req[o])'
<1>1. Evicting(req[o]) BY DEF LimitInv
<1>2. Found(req[o])' = Found(req[o]) /\ Kept(req[o])' = Kept(req[o]) BY DEF Found, Kept, Victims
<1> QED BY <1>1, <1>2 DEF Evicting, Enforcing

(* A step that issues no token and lets no session in.                      *)
LEMMA LimitFrame ==
  ASSUME IInv, LimitInv, NEW r \in Request, NEW q \in RequestState, Become(r, q),
         index' \subseteq index, Counted' \subseteq Counted,
         \A s \in Sid : record'[s] \in {None, record[s]}, UNCHANGED <<nextSid, nextJti>>,
         q.pc # "record", ~Listing(q),
         Standing(q),
         Enforcing(q) =>
           /\ Known(q) \subseteq index \/ (Enforcing(req[r]) /\ Known(q) \subseteq Known(req[r]))
           /\ \A s \in Sid : \/ q.seen[s] \in {None, record[s]}
                             \/ Enforcing(req[r]) /\ q.seen[s] = req[r].seen[s],
         Evicting(q)', InOrder'
  PROVE  LimitInv'
<1>1. req'[r] = q /\ \A o \in Request \ {r} : req'[o] = req[o]
  BY DEF IInv, TypeOK, Become
<1>2. UnlistedIsUnknown' BY UnlistedFrame, Bounds DEF IInv, LimitInv
<1>3. StampsDiffer' BY SameStamps DEF LimitInv
<1>4. \A o \in Request : Standing(req[o])'
  <2>1. \A o \in Request : Standing(req'[o]) BY <1>1 DEF LimitInv
  <2> QED BY <2>1 DEF Standing, Enforcing, Admitted, Found
<1>5. Evicting(req[r])' BY <1>1
<1>6. ASSUME NEW o \in Request \ {r} PROVE Evicting(req[o])'
  <2>1. None \notin Found(req[o]) BY Bounds DEF IInv, Found
  <2> QED BY <1>1, <2>1, OthersEvict
<1> QED BY <1>2, <1>3, <1>4, <1>5, <1>6 DEF LimitInv

(* Steps of requests that are not logins, or of logins that know nothing.   *)
Aside(q) ==
  /\ q.op = "login" => q.pc = "members" /\ Found(q) = {}
  /\ q.pc # "record"

LEMMA AsideStep ==
  ASSUME IInv, IInv', LimitInv, NEW r \in Request, NEW q \in RequestState, Become(r, q),
         Aside(q), index' \subseteq index, UNCHANGED <<nextSid, nextJti>>,
         \A s \in Sid : record'[s] \in {None, record[s]},
         \A s \in Sid \ Unwritten : Gone(s) => Gone(s)'
  PROVE  LimitInv'
<1>1. req'[r] = q /\ \A o \in Request \ {r} : req'[o] = req[o]
  BY DEF IInv, TypeOK, Become
<1>2. ~Enforcing(q) /\ ~Admitted(q) /\ ~Listing(q) BY DEF Aside, Enforcing, Admitted, Listing
<1>3. Counted' \subseteq Counted BY CountedFalls
<1>4. InOrder'
  <2>1. \A o \in Request : Admitted(req[o])' => Admitted(req[o])
    BY <1>1, <1>2 DEF Admitted
  <2>2. ASSUME NEW o \in Request, Enforcing(req[o])'
        PROVE Enforcing(req[o]) /\ Counted' \ Known(req[o])' \subseteq Counted \ Known(req[o])
    <3>1. Enforcing(req'[o]) BY <2>2 DEF Enforcing
    <3>2. o # r /\ req'[o] = req[o] BY <1>1, <1>2, <3>1
    <3>3. Known(req[o])' = Known(req[o]) BY <3>2 DEF Known, Found
    <3> QED BY <1>3, <3>1, <3>2, <3>3
  <2> QED BY <1>3, <2>1, <2>2, OrderKept DEF LimitInv
<1>5. Evicting(q)' BY <1>2 DEF Evicting, Enforcing
<1>6. Standing(q) BY DEF Aside, Standing
<1>7. q.pc # "record" BY DEF Aside
<1> QED BY <1>2, <1>3, <1>4, <1>5, <1>6, <1>7, LimitFrame

LEMMA Becomes ==
  ASSUME IInv, NEW r \in Request, NEW q, Become(r, q)
  PROVE  req'[r] = q
BY DEF IInv, TypeOK, Become

(* What follows the last session of a loop.                                 *)
LEMMA AfterLoop ==
  ASSUME NEW q \in RequestState, q.op \notin {"login", "none"}
  PROVE  Aside(RevokeNext(q)) /\ Aside(ScanNext(q))
<1>1. Aside(Idle) BY DEF Aside, Idle
<1>2. \A how : Aside(Answer(q, how))
  BY DEF Answer, Aside, Idle, PasswordHandler
<1>3. Aside(RevokeNext(q))
  <2>1. CASE q.todo # {}
    <3>1. PICK pc \in {"check", "read"} : RevokeNext(q) = [q EXCEPT !.pc = pc]
      BY <2>1 DEF RevokeNext
    <3> QED BY <3>1 DEF Aside, RequestState
  <2>2. CASE q.todo = {} BY <1>2, <2>2 DEF RevokeNext
  <2> QED BY <2>1, <2>2
<1>4. Aside(ScanNext(q))
  <2>1. CASE q.todo # {}
    <3>1. ScanNext(q) = [q EXCEPT !.pc = "scan"] BY <2>1 DEF ScanNext
    <3> QED BY <3>1 DEF Aside, RequestState
  <2>2. CASE q.todo = {} /\ q.op = "list" BY <1>1, <2>2 DEF ScanNext
  <2>3. CASE q.todo = {} /\ q.op # "list"
    <3> DEFINE v == [q EXCEPT !.todo = Victims(q.seen)]
    <3>1. ScanNext(q) = RevokeNext(v) BY <2>3 DEF ScanNext
    <3>2. v \in RequestState /\ v.op = q.op BY DEF RequestState, Victims
    <3> HIDE DEF v
    <3>3. CASE v.todo # {}
      <4>1. PICK pc \in {"check", "read"} : RevokeNext(v) = [v EXCEPT !.pc = pc]
        BY <3>3 DEF RevokeNext
      <4> QED BY <3>1, <3>2, <4>1 DEF Aside, RequestState
    <3>4. CASE v.todo = {}
      <4>1. RevokeNext(v) = Answer(v, "done") BY <3>2, <3>4 DEF RevokeNext
      <4> QED BY <3>1, <3>2, <4>1 DEF Answer, Aside, Idle, PasswordHandler
    <3> QED BY <3>3, <3>4
  <2> QED BY <2>1, <2>2, <2>3
<1> QED BY <1>3, <1>4

(* The steps that read or write something other than a session, and those   *)
(* of the other handlers' loops.                                            *)
LEMMA StillStep ==
  ASSUME IInv, IInv', LimitInv, NEW r \in Request, NEW q, Become(r, q), Aside(q),
         UNCHANGED <<index, record, raced, nextSid, nextJti>>
  PROVE  LimitInv'
<1>1. q \in RequestState BY Becomes DEF IInv, TypeOK
<1>2. PICK v \in RequestState : v = q BY <1>1
<1>3. \A s : Gone(s)' <=> Gone(s) BY DEF Gone
<1> QED BY <1>2, <1>3, AsideStep

LEMMA AsideSteps ==
  ASSUME IInv, IInv', LimitInv, NEW r \in Request,
         \/ Login(r) \/ Logout(r) \/ RevokeSession(r) \/ ListSessions(r)
         \/ ChangePassword(r) \/ ResetPassword(r) \/ Refresh(r) \/ Crash(r)
         \/ ResetReadUser(r) \/ UpdatePassword(r) \/ DeleteResetToken(r)
         \/ CheckSession(r) \/ IssueExpire(r)
         \/ RefreshReadSession(r) \/ RefreshReadUser(r) \/ RotateDelete(r)
  PROVE  LimitInv'
<1>0. req[r] \in RequestState /\ RequestInv(req[r]) /\ Standing(req[r])
  BY DEF IInv, TypeOK, LimitInv
<1>i. Aside(Idle) BY DEF Aside, Idle
<1> USE DEF redis, history
<1>1. CASE Login(r)
  <2>1. Aside([Idle EXCEPT !.op = "login", !.pc = "members"]) BY DEF Aside, Idle, Found
  <2> QED BY <1>1, <2>1, StillStep DEF Login
<1>2. CASE Logout(r)
  <2>1. \A s \in Sid : Aside([Idle EXCEPT !.op = "logout", !.pc = "read", !.todo = {s}])
    BY DEF Aside, Idle
  <2> QED BY <1>2, <2>1, StillStep DEF Logout
<1>3. CASE RevokeSession(r)
  <2>1. \A s \in Sid : Aside([Idle EXCEPT !.op = "revoke", !.pc = "check", !.todo = {s}])
    BY DEF Aside, Idle
  <2> QED BY <1>3, <2>1, StillStep DEF RevokeSession
<1>4. CASE ListSessions(r)
  <2>1. Aside([Idle EXCEPT !.op = "list", !.pc = "members"]) BY DEF Aside, Idle
  <2> QED BY <1>4, <2>1, StillStep DEF ListSessions
<1>5. CASE ChangePassword(r)
  <2>1. \A s \in Sid : Aside([Idle EXCEPT !.op = "change", !.pc = "update", !.sid = s])
    BY DEF Aside, Idle
  <2> QED BY <1>5, <2>1, StillStep DEF ChangePassword
<1>6. CASE ResetPassword(r)
  <2>1. Aside([Idle EXCEPT !.op = "reset", !.pc = "user"]) BY DEF Aside, Idle
  <2> QED BY <1>6, <2>1, StillStep DEF ResetPassword
<1>7. CASE Refresh(r)
  <2>1. \A s, j : Aside([Idle EXCEPT !.op = "refresh", !.pc = "session", !.sid = s, !.jti = j])
    BY DEF Aside, Idle
  <2> QED BY <1>7, <2>1, StillStep DEF Refresh
<1>8. CASE Crash(r) BY <1>i, <1>8, StillStep DEF Crash
<1>9. CASE ResetReadUser(r)
  <2>1. \A pc \in {"update", "drop"} : req[r].op = "reset" => Aside([req[r] EXCEPT !.pc = pc])
    BY <1>0 DEF Aside, RequestState
  <2> QED BY <1>9, <2>1, StillStep DEF ResetReadUser
<1>10. CASE UpdatePassword(r)
  <2>1. req[r].op # "login"
    BY <1>0, <1>10 DEF UpdatePassword, At, Standing, Enforcing, Admitted
  <2>2. \A pc \in {"token", "members"} : Aside([req[r] EXCEPT !.pc = pc])
    BY <1>0, <2>1 DEF Aside, RequestState
  <2> QED BY <1>i, <1>10, <2>2, StillStep DEF UpdatePassword
<1>11. CASE DeleteResetToken(r)
  <2>1. req[r].op # "login"
    BY <1>0, <1>11 DEF DeleteResetToken, At, Standing, Enforcing, Admitted
  <2>2. Aside([req[r] EXCEPT !.pc = "members"]) BY <1>0, <2>1 DEF Aside, RequestState
  <2> QED BY <1>i, <1>11, <2>2, StillStep DEF DeleteResetToken
<1>12. CASE CheckSession(r)
  <2>1. req[r].op # "login"
    BY <1>0, <1>12 DEF CheckSession, At, Standing, Enforcing, Admitted
  <2>2. \A s : Aside([req[r] EXCEPT !.pc = "read", !.cur = s])
    BY <1>0, <2>1 DEF Aside, RequestState
  <2>3. Aside(Answer(req[r], "refused")) BY DEF Answer, Aside, Idle, PasswordHandler
  <2> QED BY <1>12, <2>2, <2>3, StillStep DEF CheckSession
<1>13. CASE IssueExpire(r) BY <1>i, <1>13, StillStep DEF IssueExpire
<1>14. CASE RefreshReadSession(r)
  <2>1. req[r].op = "refresh" BY <1>0, <1>14 DEF RefreshReadSession, At, RequestInv, Control
  <2>2. Aside([req[r] EXCEPT !.pc = "user"]) BY <1>0, <2>1 DEF Aside, RequestState
  <2> QED BY <1>i, <1>14, <2>2, StillStep DEF RefreshReadSession
<1>15. CASE RefreshReadUser(r)
  <2>1. req[r].op = "refresh" BY <1>15 DEF RefreshReadUser
  <2>2. Aside([req[r] EXCEPT !.pc = "rotate"]) BY <1>0, <2>1 DEF Aside, RequestState
  <2> QED BY <1>i, <1>15, <2>2, StillStep DEF RefreshReadUser
<1>16. CASE RotateDelete(r)
  <2>1. req[r].op = "refresh" BY <1>0, <1>16 DEF RotateDelete, At, RequestInv, Control
  <2>2. Aside([req[r] EXCEPT !.pc = "key"]) BY <1>0, <2>1 DEF Aside, RequestState
  <2> QED BY <1>16, <2>2, StillStep DEF RotateDelete
<1> QED BY <1>1, <1>2, <1>3, <1>4, <1>5, <1>6, <1>7, <1>8, <1>9, <1>10, <1>11, <1>12,
           <1>13, <1>14, <1>15, <1>16

(* Steps of no request: keys expire, or nothing happens.                    *)
LEMMA NobodyStep ==
  ASSUME IInv, IInv', LimitInv, req' = req, index' \subseteq index,
         UNCHANGED <<nextSid, nextJti>>,
         \A s \in Sid : record'[s] \in {None, record[s]},
         \A s \in Sid \ Unwritten : Gone(s) => Gone(s)'
  PROVE  LimitInv'
<1>1. Counted' \subseteq Counted BY CountedFalls
<1>2. UnlistedIsUnknown'
  BY DEF LimitInv, UnlistedIsUnknown, Unlisted, Listing, Enforcing, Known, Found
<1>3. StampsDiffer'
  <2>1. ASSUME NEW j \in Jti, NEW s \in Sid, Stamped(j, s)' PROVE Stamped(j, s)
    <3>1. j # None BY Bounds DEF IInv
    <3> QED BY <2>1, <3>1 DEF Stamped, Enforcing
  <2> QED BY <2>1, StampsFrame, Bounds DEF IInv, LimitInv
<1>4. \A o \in Request : Standing(req[o])'
  BY DEF LimitInv, Standing, Enforcing, Admitted, Found
<1>5. ASSUME NEW o \in Request PROVE Evicting(req[o])'
  <2>1. None \notin Found(req[o]) BY Bounds DEF IInv, Found
  <2> QED BY <1>1, <2>1, OthersEvict
<1>6. InOrder'
  <2>1. \A o \in Request : Known(req[o])' = Known(req[o]) BY DEF Known, Found
  <2> QED BY <1>1, <2>1, OrderKept DEF LimitInv, Admitted, Enforcing
<1> QED BY <1>2, <1>3, <1>4, <1>5, <1>6 DEF LimitInv

LEMMA NobodySteps ==
  ASSUME IInv, IInv', LimitInv,
         Expire \/ ForgotPassword \/ ExpireResetToken \/ UNCHANGED vars
  PROVE  LimitInv'
<1>1. CASE Expire
  <2>1. UNCHANGED <<nextSid, nextJti, req>> BY <1>1 DEF Expire
  <2>2. /\ index' \subseteq index /\ raced \subseteq raced'
        /\ \A s \in Sid : record'[s] \in {None, record[s]}
    <3>1. \/ UNCHANGED <<record, index, raced>>
          \/ /\ \E s \in Live : /\ record' = [record EXCEPT ![s] = None]
                                /\ raced' = raced \cup ({s} \cap Refreshing)
             /\ UNCHANGED index
          \/ index' = {} /\ UNCHANGED <<record, raced>>
      BY <1>1 DEF Expire
    <3> QED BY <3>1 DEF IInv, TypeOK, Live
  <2>3. \A s \in Sid : Gone(s) => Gone(s)' BY <2>2 DEF Gone
  <2> QED BY <2>1, <2>2, <2>3, NobodyStep
<1>2. CASE ForgotPassword \/ ExpireResetToken \/ UNCHANGED vars
  <2>1. UNCHANGED <<index, record, raced, nextSid, nextJti, req>>
    BY <1>2 DEF ForgotPassword, ExpireResetToken, vars, redis, history
  <2>2. \A s \in Sid : Gone(s) => Gone(s)' BY <2>1 DEF Gone
  <2> QED BY <2>1, <2>2, NobodyStep
<1> QED BY <1>1, <1>2

(* A request that writes a new token: the login's session is one that       *)
(* nobody knows, the refresh's is the one it was admitted for.              *)
LEMMA TokenStep ==
  ASSUME IInv, IInv', LimitInv, NEW r \in Request, NEW q \in RequestState, Become(r, q),
         UNCHANGED <<index, record, raced>>, nextSid <= nextSid', nextJti' = nextJti + 1,
         q.pc = "record", q.jti = nextJti,
         Listing(q) => q.sid >= nextSid /\ Admitted(req[r])
  PROVE  LimitInv'
<1>1. req'[r] = q /\ \A o \in Request \ {r} : req'[o] = req[o]
  BY DEF IInv, TypeOK, Become
<1>2. ~Enforcing(q) /\ (Admitted(q) <=> Listing(q)) /\ Standing(q)
  BY DEF Enforcing, Admitted, Listing, Standing
<1>3. Counted' = Counted BY DEF Counted, Live
<1>4. UnlistedIsUnknown' BY <1>2, UnlistedFrame, BoundsNext DEF IInv, LimitInv
<1>5. StampsDiffer'
  <2>1. ASSUME NEW j \in Jti, NEW s \in Sid, Stamped(j, s)'
        PROVE  Stamped(j, s) \/ (j = nextJti /\ s = q.sid)
    <3>1. CASE record'[s] = j BY <3>1 DEF Stamped
    <3>2. CASE \E o \in Request : Enforcing(req'[o]) /\ req'[o].seen[s] = j
      BY <1>1, <1>2, <3>2 DEF Stamped
    <3>3. CASE \E o \in Request : req'[o].pc = "record" /\ req'[o].sid = s /\ req'[o].jti = j
      BY <1>1, <3>3 DEF Stamped
    <3> QED BY <2>1, <3>1, <3>2, <3>3 DEF Stamped, Enforcing
  <2> QED BY <2>1, StampsFrame, Bounds, BoundsNext DEF IInv, LimitInv
<1>6. \A o \in Request : Standing(req[o])'
  <2>1. \A o \in Request : Standing(req'[o]) BY <1>1, <1>2 DEF LimitInv
  <2> QED BY <2>1 DEF Standing, Enforcing, Admitted, Found
<1>7. Evicting(req[r])' BY <1>1, <1>2 DEF Evicting, Enforcing
<1>8. ASSUME NEW o \in Request \ {r} PROVE Evicting(req[o])'
  <2>1. None \notin Found(req[o]) BY Bounds DEF IInv, Found
  <2> QED BY <1>1, <1>3, <2>1, OthersEvict
<1>9. InOrder'
  <2>1. \A o \in Request : Admitted(req[o])' => Admitted(req[o])
    BY <1>1, <1>2 DEF Admitted
  <2>2. ASSUME NEW o \in Request, Enforcing(req[o])'
        PROVE Enforcing(req[o]) /\ Counted' \ Known(req[o])' \subseteq Counted \ Known(req[o])
    <3>1. Enforcing(req'[o]) BY <2>2 DEF Enforcing
    <3>2. o # r /\ req'[o] = req[o] BY <1>1, <1>2, <3>1
    <3>3. Known(req[o])' = Known(req[o]) BY <3>2 DEF Known, Found
    <3> QED BY <1>3, <3>1, <3>2, <3>3
  <2> QED BY <1>3, <2>1, <2>2, OrderKept DEF LimitInv
<1> QED BY <1>4, <1>5, <1>6, <1>7, <1>8, <1>9 DEF LimitInv

LEMMA TokenSteps ==
  ASSUME IInv, IInv', LimitInv, NEW r \in Request, IssueKey(r) \/ RotateKey(r)
  PROVE  LimitInv'
<1>0. req[r] \in RequestState /\ nextSid \in Nat BY Bounds DEF IInv, TypeOK
<1>1. CASE IssueKey(r)
  <2> DEFINE q == [Idle EXCEPT !.op = "login", !.pc = "record", !.sid = nextSid, !.jti = nextJti]
  <2>1. /\ Become(r, q) /\ UNCHANGED <<index, record, raced>>
        /\ nextSid' = nextSid + 1 /\ nextJti' = nextJti + 1
    BY <1>1 DEF IssueKey, history
  <2>2. q.pc = "record" /\ q.jti = nextJti /\ q.sid = nextSid BY DEF Idle
  <2>3. Admitted(req[r]) BY <1>1 DEF IssueKey, At, Admitted
  <2> HIDE DEF q
  <2>4. PICK v \in RequestState : v = q BY <2>1, Becomes DEF IInv, TypeOK
  <2>5. nextSid <= nextSid' /\ v.sid >= nextSid BY <1>0, <2>1, <2>2, <2>4
  <2> QED BY <2>1, <2>2, <2>3, <2>4, <2>5, TokenStep
<1>2. CASE RotateKey(r)
  <2> DEFINE q == [req[r] EXCEPT !.pc = "record", !.jti = nextJti]
  <2>1. /\ Become(r, q) /\ UNCHANGED <<index, record, raced, nextSid>>
        /\ nextJti' = nextJti + 1
    BY <1>2 DEF RotateKey, history
  <2>2. q.pc = "record" /\ q.jti = nextJti /\ q.op = "refresh"
    BY <1>0, <1>2 DEF RotateKey, RequestState
  <2> HIDE DEF q
  <2>4. PICK v \in RequestState : v = q BY <2>1, Becomes DEF IInv, TypeOK
  <2>5. nextSid <= nextSid' /\ ~Listing(v) BY <1>0, <2>1, <2>2, <2>4 DEF Listing
  <2> QED BY <2>1, <2>2, <2>4, <2>5, TokenStep
<1> QED BY <1>1, <1>2

(* A record is written again only for a session that was there, or is       *)
(* counted no more.                                                         *)
LEMMA WriteRecordStep ==
  ASSUME IInv, IInv', LimitInv, NEW r \in Request, WriteRecord(r)
  PROVE  LimitInv'
<1>0. req[r] \in RequestState /\ RequestInv(req[r]) BY DEF IInv, TypeOK
<1>1. /\ req[r].pc = "record" /\ record' = [record EXCEPT ![req[r].sid] = req[r].jti]
      /\ UNCHANGED <<index, raced, nextSid, nextJti>>
  BY DEF WriteRecord, At, history
<1>2. PICK q \in RequestState :
        /\ Become(r, q) /\ ~Enforcing(q) /\ Standing(q) /\ q.pc # "record"
        /\ (Admitted(q) \/ Listing(q)) => Listing(req[r]) /\ q.sid = req[r].sid
  <2>1. CASE req[r].op = "refresh"
    <3>1. Become(r, Idle) BY <2>1 DEF WriteRecord
    <3> QED BY <3>1, IdleInv DEF Idle, Enforcing, Standing, Admitted, Listing
  <2>2. CASE req[r].op # "refresh"
    <3> DEFINE v == [req[r] EXCEPT !.pc = "sadd"]
    <3>1. Become(r, v) BY <2>2 DEF WriteRecord
    <3>2. v.op = "login" /\ v.pc = "sadd" /\ v.sid = req[r].sid /\ req[r].op = "login"
      BY <1>0, <1>1, <2>2 DEF RequestState, RequestInv, Control
    <3>3. v \in RequestState BY <1>0 DEF RequestState, Pc
    <3> HIDE DEF v
    <3> QED BY <1>1, <3>1, <3>2, <3>3 DEF Enforcing, Standing, Admitted, Listing
  <2> QED BY <2>1, <2>2
<1>r. req'[r] = q /\ \A o \in Request \ {r} : req'[o] = req[o]
  BY <1>2 DEF IInv, TypeOK, Become
<1>3. \A s \in Sid \ Unwritten : Gone(s) => Gone(s)'
  <2> SUFFICES ASSUME NEW s \in Sid \ Unwritten, Gone(s) PROVE Gone(s)' OBVIOUS
  <2>1. CASE s # req[r].sid BY <1>1, <2>1 DEF IInv, TypeOK, Gone
  <2>2. CASE s = req[r].sid
    <3>1. req[r].op # "login" BY <1>1, <2>2 DEF Unwritten, Recording
    <3>2. PastChecks(req[r]) BY <1>0, <1>1, <3>1 DEF RequestInv, Control, PastChecks
    <3> QED BY <1>0, <1>1, <2>2, <3>2 DEF RequestInv, Holds, Gone
  <2> QED BY <2>1, <2>2
<1>4. Counted' \subseteq Counted BY <1>1, <1>3, CountedFalls
<1>5. UnlistedIsUnknown' BY <1>1, <1>2, UnlistedFrame, Bounds DEF IInv, LimitInv
<1>6. StampsDiffer'
  <2>1. ASSUME NEW j \in Jti, NEW s \in Sid, Stamped(j, s)' PROVE Stamped(j, s)
    <3>1. CASE record'[s] = j BY <1>1, <3>1 DEF Stamped, IInv, TypeOK
    <3>2. CASE \E o \in Request : Enforcing(req'[o]) /\ req'[o].seen[s] = j
      BY <1>r, <1>2, <3>2 DEF Stamped
    <3>3. CASE \E o \in Request : req'[o].pc = "record" /\ req'[o].sid = s /\ req'[o].jti = j
      BY <1>r, <1>2, <3>3 DEF Stamped
    <3> QED BY <2>1, <3>1, <3>2, <3>3 DEF Stamped, Enforcing
  <2> QED BY <1>1, <2>1, StampsFrame, Bounds DEF IInv, LimitInv
<1>7. \A o \in Request : Standing(req[o])'
  <2>1. \A o \in Request : Standing(req'[o]) BY <1>r, <1>2 DEF LimitInv
  <2> QED BY <2>1 DEF Standing, Enforcing, Admitted, Found
<1>8. Evicting(req[r])' BY <1>r, <1>2 DEF Evicting, Enforcing
<1>9. ASSUME NEW o \in Request \ {r} PROVE Evicting(req[o])'
  <2>1. None \notin Found(req[o]) BY Bounds DEF IInv, Found
  <2> QED BY <1>r, <1>4, <2>1, OthersEvict
<1>10. InOrder'
  <2>1. \A o \in Request : Admitted(req[o])' => Admitted(req[o])
    BY <1>r, <1>2 DEF Admitted, Listing
  <2>2. ASSUME NEW o \in Request, Enforcing(req[o])'
        PROVE Enforcing(req[o]) /\ Counted' \ Known(req[o])' \subseteq Counted \ Known(req[o])
    <3>1. Enforcing(req'[o]) BY <2>2 DEF Enforcing
    <3>2. o # r /\ req'[o] = req[o] BY <1>r, <1>2, <3>1
    <3>3. Known(req[o])' = Known(req[o]) BY <3>2 DEF Known, Found
    <3> QED BY <1>4, <3>1, <3>2, <3>3
  <2> QED BY <1>4, <2>1, <2>2, OrderKept DEF LimitInv
<1> QED BY <1>5, <1>6, <1>7, <1>8, <1>9, <1>10 DEF LimitInv

(* The index entry of a new session: nobody who enforces the limit knows it.*)
LEMMA EntryStep ==
  ASSUME IInv, IInv', LimitInv, NEW r \in Request, IssueIndex(r)
  PROVE  LimitInv'
<1>0. req[r] \in RequestState /\ RequestInv(req[r]) BY DEF IInv, TypeOK
<1>s. PICK s \in Sid : s = req[r].sid
  BY <1>0 DEF IssueIndex, At, RequestInv, Control, Holds, Issuing
<1>1. /\ req[r].pc = "sadd" /\ req[r].op = "login" /\ s < nextSid
      /\ index' = index \cup {s} /\ UNCHANGED <<record, raced, nextSid, nextJti>>
  BY <1>0, <1>s DEF IssueIndex, At, history, RequestInv, Control, Holds, Issuing
<1>2. PICK q \in RequestState :
        Become(r, q) /\ q.op = "login" /\ q.pc = "expire" /\ q.sid = s
  <2> DEFINE v == [req[r] EXCEPT !.pc = "expire"]
  <2>1. Become(r, v) BY DEF IssueIndex
  <2>2. v \in RequestState /\ v.op = "login" /\ v.pc = "expire" /\ v.sid = s
    BY <1>0, <1>1, <1>s DEF RequestState, Pc
  <2> QED BY <2>1, <2>2
<1>r. req'[r] = q /\ \A o \in Request \ {r} : req'[o] = req[o]
  BY <1>2 DEF IInv, TypeOK, Become
<1>3. /\ ~Enforcing(q) /\ ~Admitted(q) /\ ~Listing(q) /\ Standing(q)
      /\ Admitted(req[r]) /\ Listing(req[r])
  BY <1>1, <1>2 DEF Enforcing, Admitted, Listing, Standing
<1>4. s \in Unlisted BY <1>s, <1>3 DEF Unlisted
<1>5. Unlisted' \subseteq Unlisted \ {s}
  <2> SUFFICES ASSUME NEW t \in Sid, t \in Unlisted' PROVE t \in Unlisted \ {s}
    BY DEF Unlisted
  <2>1. t \in Nat /\ s \in Nat /\ nextSid \in Nat BY Bounds DEF IInv
  <2>2. CASE t >= nextSid' BY <1>1, <2>1, <2>2 DEF Unlisted
  <2>3. CASE \E o \in Request : Listing(req'[o]) /\ req'[o].sid = t
    <3>1. PICK o \in Request : Listing(req'[o]) /\ req'[o].sid = t BY <2>3
    <3>2. o # r /\ req'[o] = req[o] BY <1>r, <1>3, <3>1
    <3>3. Issuing(req[o]) /\ Issuing(req[r]) BY <1>3, <3>1, <3>2 DEF Listing, Issuing
    <3>4. t # s BY <1>s, <3>1, <3>2, <3>3 DEF IInv, GlobalInv, IssuesDiffer
    <3> QED BY <3>1, <3>2, <3>4 DEF Unlisted
  <2> QED BY <2>2, <2>3 DEF Unlisted, Listing
<1>6. UnlistedIsUnknown'
  <2>1. Unlisted' \cap index' = {} BY <1>1, <1>5 DEF LimitInv, UnlistedIsUnknown
  <2>2. \A o \in Request : Enforcing(req'[o]) => Known(req'[o]) \cap Unlisted = {}
    BY <1>r, <1>3 DEF LimitInv, UnlistedIsUnknown
  <2> QED BY <1>5, <2>1, <2>2 DEF UnlistedIsUnknown, Enforcing, Known, Found
<1>7. StampsDiffer'
  <2>1. q.pc # "record" /\ \A t \in Sid : record'[t] \in {None, record[t]} BY <1>1, <1>2
  <2> QED BY <1>1, <1>2, <1>3, <2>1, SameStamps DEF LimitInv
<1>8. \A o \in Request : Standing(req[o])'
  <2>1. \A o \in Request : Standing(req'[o]) BY <1>r, <1>3 DEF LimitInv
  <2> QED BY <2>1 DEF Standing, Enforcing, Admitted, Found
<1>9. Counted' \subseteq Counted \cup {s} BY <1>1 DEF Counted, Live
<1>10. Evicting(req[r])' BY <1>r, <1>3 DEF Evicting, Enforcing
<1>11. ASSUME NEW o \in Request \ {r} PROVE Evicting(req[o])'
  <2>1. Enforcing(req[o]) => s \notin Found(req[o])
    BY <1>4 DEF LimitInv, UnlistedIsUnknown, Known
  <2> QED BY <1>r, <1>9, <2>1, OthersEvict
<1>12. InOrder'
  <2>1. ~Enforcing(req[r])' /\ ~Admitted(req[r])' BY <1>r, <1>3 DEF Enforcing, Admitted
  <2> QED BY <1>r, <1>3, <1>9, <2>1, OrderLists DEF LimitInv
<1> QED BY <1>6, <1>7, <1>8, <1>10, <1>11, <1>12 DEF LimitInv

-----------------------------------------------------------------------------
(* The loops over the index.                                                *)

(* What a step of a loop leaves alone or makes smaller.                     *)
Shrinks ==
  /\ index' \subseteq index /\ UNCHANGED <<nextSid, nextJti>>
  /\ \A s \in Sid : record'[s] \in {None, record[s]}
  /\ \A s \in Sid \ Unwritten : Gone(s) => Gone(s)'

(* A login that has read the records of some more of the sessions it knows. *)
Reads(p, q) ==
  /\ Known(q) \subseteq Known(p)
  /\ \A s \in Sid : q.seen[s] \in {None, record[s]} \/ q.seen[s] = p.seen[s]

LEMMA SeenDiffer ==
  ASSUME IInv, LimitInv, NEW r \in Request, Enforcing(req[r]),
         NEW q \in RequestState, Reads(req[r], q)
  PROVE  IsFiniteSet(Kept(q)) /\ Cardinality(Kept(q)) <= MaxSessions - 1
<1>1. ASSUME NEW s \in Found(q) PROVE q.seen[s] \in Jti /\ Stamped(q.seen[s], s)
  <2>1. s \in Sid /\ q.seen[s] \in Jti BY <1>1 DEF Found, RequestState
  <2>2. q.seen[s] = record[s] \/ q.seen[s] = req[r].seen[s] BY <1>1, <2>1 DEF Reads, Found
  <2> QED BY <2>1, <2>2 DEF Stamped
<1>2. \A s, t \in Found(q) : q.seen[s] = q.seen[t] => s = t
  <2>1. Found(q) \subseteq Sid BY DEF Found
  <2> QED BY <1>1, <2>1 DEF LimitInv, StampsDiffer
<1> QED BY <1>2, KeepsFew

LEMMA EnforceStep ==
  ASSUME IInv, IInv', LimitInv, Shrinks, NEW r \in Request, NEW q \in RequestState,
         Become(r, q), Enforcing(req[r]), Enforcing(q), Reads(req[r], q),
         Counted' \cap Known(req[r]) \subseteq Known(q), Evicting(q)'
  PROVE  LimitInv'
<1>1. req'[r] = q /\ \A o \in Request \ {r} : req'[o] = req[o]
  BY DEF IInv, TypeOK, Become
<1>2. Counted' \subseteq Counted BY CountedFalls DEF Shrinks
<1>3. ~Listing(q) /\ ~Admitted(q) /\ Standing(q) /\ q.pc # "record"
  BY DEF Enforcing, Listing, Admitted, Standing
<1>4. InOrder'
  <2>1. \A o \in Request : Admitted(req[o])' => Admitted(req[o])
    BY <1>1, <1>3 DEF Admitted
  <2>2. ASSUME NEW o \in Request, Enforcing(req[o])'
        PROVE Enforcing(req[o]) /\ Counted' \ Known(req[o])' \subseteq Counted \ Known(req[o])
    <3>1. Enforcing(req'[o]) BY <2>2 DEF Enforcing
    <3>2. Known(req[o])' = Known(req'[o]) BY DEF Known, Found
    <3>3. CASE o = r BY <1>1, <1>2, <3>2, <3>3
    <3>4. CASE o # r BY <1>1, <1>2, <3>1, <3>2, <3>4
    <3> QED BY <3>3, <3>4
  <2> QED BY <1>2, <2>1, <2>2, OrderKept DEF LimitInv
<1>5. /\ Known(q) \subseteq index \/ (Enforcing(req[r]) /\ Known(q) \subseteq Known(req[r]))
      /\ \A s \in Sid : \/ q.seen[s] \in {None, record[s]}
                        \/ Enforcing(req[r]) /\ q.seen[s] = req[r].seen[s]
  BY DEF Reads
<1> QED BY <1>2, <1>3, <1>4, <1>5, LimitFrame DEF Shrinks

LEMMA AdmitStep ==
  ASSUME IInv, IInv', LimitInv, Shrinks, NEW r \in Request, NEW q \in RequestState,
         Become(r, q), Enforcing(req[r]), q.op = "login", q.pc = "key",
         Cardinality(Counted' \cap Known(req[r])) <= MaxSessions - 1
  PROVE  LimitInv'
<1>1. req'[r] = q /\ \A o \in Request \ {r} : req'[o] = req[o]
  BY DEF IInv, TypeOK, Become
<1>2. Counted' \subseteq Counted BY CountedFalls DEF Shrinks
<1>3. ~Listing(q) /\ Admitted(q) /\ ~Enforcing(q) /\ Standing(q)
  BY DEF Enforcing, Listing, Admitted, Standing
<1>4. ~Enforcing(req[r])' /\ Admitted(req[r])' BY <1>1, <1>3 DEF Enforcing, Admitted
<1>5. InOrder' BY <1>1, <1>2, <1>4, OrderAdmits DEF LimitInv
<1>6. Evicting(q)' BY <1>3 DEF Evicting, Enforcing
<1> QED BY <1>2, <1>3, <1>5, <1>6, LimitFrame DEF Shrinks

LEMMA RevokeOn ==
  ASSUME IInv, IInv', LimitInv, Shrinks, NEW r \in Request, NEW q \in RequestState,
         Enforcing(req[r]), q.op = "login", Become(r, RevokeNext(q)), Reads(req[r], q),
         q.todo \subseteq Found(q), Counted' \cap Known(req[r]) \subseteq Kept(q) \cup q.todo
  PROVE  LimitInv'
<1>0. Kept(q) \subseteq Found(q) BY DEF Kept
<1>1. CASE q.todo # {}
  <2> DEFINE v == [q EXCEPT !.pc = "read"]
  <2>1. RevokeNext(q) = v BY <1>1 DEF RevokeNext, Checking
  <2>2. v \in RequestState BY DEF RequestState, Pc
  <2>3. v.op = "login" /\ v.pc = "read" /\ v.todo = q.todo /\ v.seen = q.seen
    BY DEF RequestState
  <2> HIDE DEF v
  <2>4. Known(v) = Known(q) /\ Found(v) = Found(q) /\ Kept(v) = Kept(q) /\ Enforcing(v)
    BY <2>3 DEF Known, Found, Kept, Enforcing
  <2>5. Reads(req[r], v) BY <2>3, <2>4 DEF Reads
  <2>6. Counted' \cap Known(req[r]) \subseteq Known(v) BY <1>0, <2>4 DEF Known
  <2>7. Evicting(v)'
    <3>1. Found(v) \subseteq Known(req[r]) BY <2>4 DEF Reads, Known
    <3>2. Counted' \cap Found(v) \subseteq Kept(v) \cup v.todo BY <2>3, <2>4, <3>1
    <3>3. v.todo \subseteq Found(v) BY <2>3, <2>4
    <3> QED BY <3>2, <3>3 DEF Evicting, Found, Kept, Victims
  <2> QED BY <2>1, <2>2, <2>4, <2>5, <2>6, <2>7, EnforceStep
<1>2. CASE q.todo = {}
  <2> DEFINE v == [q EXCEPT !.pc = "key"]
  <2>1. RevokeNext(q) = v BY <1>2 DEF RevokeNext
  <2>2. v \in RequestState BY DEF RequestState, Pc
  <2>3. v.op = "login" /\ v.pc = "key" BY DEF RequestState
  <2> HIDE DEF v
  <2>4. /\ IsFiniteSet(Kept(q)) /\ Cardinality(Kept(q)) <= MaxSessions - 1
        /\ Cardinality(Kept(q)) \in Nat
    BY SeenDiffer, FS_CardinalityType
  <2>5. /\ Cardinality(Counted' \cap Known(req[r])) <= Cardinality(Kept(q))
        /\ Cardinality(Counted' \cap Known(req[r])) \in Nat
    BY <1>2, <2>4, FewerIn
  <2>6. Cardinality(Counted' \cap Known(req[r])) <= MaxSessions - 1
    BY <2>4, <2>5, SessionsAssumption DEF SessionsAssumption
  <2> QED BY <2>1, <2>2, <2>3, <2>6, AdmitStep
<1> QED BY <1>1, <1>2

LEMMA ScanOn ==
  ASSUME IInv, IInv', LimitInv, Shrinks, NEW r \in Request, NEW q \in RequestState,
         Enforcing(req[r]), q.op = "login", Become(r, ScanNext(q)), Reads(req[r], q),
         Counted' \cap Known(req[r]) \subseteq Known(q)
  PROVE  LimitInv'
<1>1. CASE q.todo # {}
  <2> DEFINE v == [q EXCEPT !.pc = "scan"]
  <2>1. ScanNext(q) = v BY <1>1 DEF ScanNext
  <2>2. v \in RequestState BY DEF RequestState, Pc
  <2>3. v.op = "login" /\ v.pc = "scan" /\ v.todo = q.todo /\ v.seen = q.seen
    BY DEF RequestState
  <2> HIDE DEF v
  <2>4. Known(v) = Known(q) /\ Enforcing(v) BY <2>3 DEF Known, Found, Enforcing
  <2>5. Reads(req[r], v) BY <2>3, <2>4 DEF Reads
  <2>6. Evicting(v)' BY <2>3 DEF Evicting
  <2> QED BY <2>1, <2>2, <2>4, <2>5, <2>6, EnforceStep
<1>2. CASE q.todo = {}
  <2> DEFINE v == [q EXCEPT !.todo = Victims(q.seen)]
  <2>1. ScanNext(q) = RevokeNext(v) BY <1>2 DEF ScanNext
  <2>2. Victims(q.seen) \subseteq Found(q) /\ Found(q) \subseteq Sid BY DEF Victims, Found
  <2>3. v \in RequestState BY <2>2 DEF RequestState
  <2>4. v.op = "login" /\ v.todo = Victims(q.seen) /\ v.seen = q.seen BY DEF RequestState
  <2> HIDE DEF v
  <2>5. Known(q) = Found(q) BY <1>2 DEF Known
  <2>6. Found(v) = Found(q) /\ Kept(v) = Found(q) \ Victims(q.seen) /\ Known(v) = Found(q)
    BY <2>2, <2>4 DEF Found, Kept, Known
  <2>7. Reads(req[r], v) BY <2>4, <2>5, <2>6 DEF Reads
  <2> QED BY <2>1, <2>2, <2>3, <2>4, <2>5, <2>6, <2>7, RevokeOn
<1> QED BY <1>1, <1>2

LEMMA ReadIndexStep ==
  ASSUME IInv, IInv', LimitInv, NEW r \in Request, ReadIndex(r) PROVE LimitInv'
<1>0. req[r] \in RequestState /\ RequestInv(req[r]) /\ Standing(req[r])
  BY DEF IInv, TypeOK, LimitInv
<1>1. /\ req[r].pc = "members" /\ req[r].op # "none"
      /\ UNCHANGED <<index, record, raced, nextSid, nextJti>>
  BY <1>0 DEF ReadIndex, At, redis, history, RequestInv, Control
<1>2. Counted' = Counted BY <1>1 DEF Counted, Live
<1>3. CASE req[r].op # "login"
  <2> DEFINE l == [req[r] EXCEPT !.todo = index]
             v == [req[r] EXCEPT !.todo = index \ {req[r].sid},
                                 !.owed = (Live \cap Held) \ {req[r].sid}]
  <2>1. l \in RequestState /\ l.op = req[r].op BY <1>0 DEF RequestState, IInv, TypeOK
  <2>2. v \in RequestState /\ v.op = req[r].op BY <1>0 DEF RequestState, IInv, TypeOK, Live
  <2>3. Become(r, ScanNext(l)) \/ Become(r, RevokeNext(v)) BY <1>3 DEF ReadIndex
  <2> HIDE DEF l, v
  <2> QED BY <1>1, <1>3, <2>1, <2>2, <2>3, AfterLoop, StillStep
<1>4. CASE req[r].op = "login" /\ Cardinality(index) < MaxSessions
  <2> DEFINE v == [req[r] EXCEPT !.pc = "key"]
  <2>0. v \in RequestState /\ v.op = "login" /\ v.pc = "key"
    BY <1>0, <1>4 DEF RequestState, Pc
  <2>1. PICK q \in RequestState : q = v BY <2>0
  <2>2. Become(r, q) /\ q.op = "login" /\ q.pc = "key" BY <1>4, <2>0, <2>1 DEF ReadIndex
  <2> HIDE DEF v
  <2>3. ~Enforcing(q) /\ ~Listing(q) /\ Standing(q)
    BY <2>2 DEF Enforcing, Listing, Standing, Admitted
  <2>r. req'[r] = q /\ \A o \in Request \ {r} : req'[o] = req[o]
    BY <2>2 DEF IInv, TypeOK, Become
  <2>4. InOrder'
    <3>1. Counted \subseteq index /\ IsFiniteSet(index)
      BY FiniteSids, FewerIn DEF Counted, IInv, TypeOK
    <3>2. /\ Cardinality(Counted) <= Cardinality(index)
          /\ Cardinality(Counted) \in Nat /\ Cardinality(index) \in Nat
      BY <3>1, FewerIn
    <3>3. Cardinality(Counted) <= MaxSessions - 1
      BY <1>4, <3>2, SessionsAssumption DEF SessionsAssumption
    <3>4. ~Enforcing(req[r])' BY <2>r, <2>3 DEF Enforcing
    <3> QED BY <1>2, <2>r, <3>3, <3>4, OrderEnters DEF LimitInv
  <2>5. Evicting(q)' BY <2>3 DEF Evicting, Enforcing
  <2>6. q.pc # "record" BY <2>2
  <2>7. \A s \in Sid : record'[s] \in {None, record[s]} BY <1>1
  <2> QED BY <1>1, <1>2, <2>2, <2>3, <2>4, <2>5, <2>6, <2>7, LimitFrame
<1>5. CASE req[r].op = "login" /\ ~(Cardinality(index) < MaxSessions)
  <2>1. index # {}
    <3>1. Cardinality({}) = 0 BY FS_EmptySet
    <3> QED BY <1>5, <3>1, SessionsAssumption DEF SessionsAssumption
  <2> DEFINE w == [req[r] EXCEPT !.todo = index, !.pc = "scan"]
  <2>2. Become(r, w)
    <3> DEFINE v == [req[r] EXCEPT !.todo = index]
    <3>1. Become(r, ScanNext(v)) BY <1>5 DEF ReadIndex
    <3>2. v.todo # {} BY <1>0, <2>1 DEF RequestState
    <3>3. ScanNext(v) = [v EXCEPT !.pc = "scan"] BY <3>2 DEF ScanNext
    <3>4. [v EXCEPT !.pc = "scan"] = w BY <1>0 DEF RequestState
    <3> QED BY <3>1, <3>3, <3>4
  <2>w. /\ w \in RequestState /\ w.op = "login" /\ w.pc = "scan" /\ w.todo = index
        /\ w.seen = req[r].seen
    BY <1>0, <1>5 DEF RequestState, Pc, IInv, TypeOK
  <2> HIDE DEF w
  <2>q. PICK q \in RequestState : q = w BY <2>w
  <2>3. /\ Become(r, q) /\ q.op = "login" /\ q.pc = "scan" /\ q.todo = index
        /\ q.seen = req[r].seen
    BY <2>2, <2>w, <2>q
  <2>4. Found(req[r]) = {} BY <1>0, <1>1, <1>5 DEF Standing, Enforcing, Admitted
  <2>5. Known(q) = index /\ \A s \in Sid : q.seen[s] = None
    BY <2>3, <2>4 DEF Known, Found
  <2>6. ~Enforcing(req[r]) /\ ~Admitted(q) /\ ~Listing(q) /\ Standing(q) /\ q.pc # "record"
    BY <1>1, <2>3 DEF Enforcing, Admitted, Listing, Standing
  <2>r. req'[r] = q /\ \A o \in Request \ {r} : req'[o] = req[o]
    BY <2>3 DEF IInv, TypeOK, Become
  <2>7. InOrder'
    <3>1. ~Admitted(req[r])' BY <2>r, <2>6 DEF Admitted
    <3>2. Known(req[r])' = Known(q) BY <2>r DEF Known, Found
    <3>3. Counted \subseteq Known(req[r])' BY <2>5, <3>2 DEF Counted
    <3> QED BY <1>2, <2>6, <2>r, <3>1, <3>3, OrderStarts DEF LimitInv
  <2>8. Evicting(q)' BY <2>3 DEF Evicting
  <2>9. \A s \in Sid : record'[s] \in {None, record[s]} BY <1>1
  <2> QED BY <1>1, <1>2, <2>3, <2>5, <2>6, <2>7, <2>8, <2>9, LimitFrame
<1> QED BY <1>3, <1>4, <1>5

LEMMA ScanRecordStep ==
  ASSUME IInv, IInv', LimitInv, NEW r \in Request, ScanRecord(r) PROVE LimitInv'
<1>0. req[r] \in RequestState BY DEF IInv, TypeOK
<1>1. /\ req[r].pc = "scan" /\ req[r].op \in {"login", "list"}
      /\ UNCHANGED <<index, record, raced, nextSid, nextJti>>
  BY DEF ScanRecord, At, redis, history, IInv, RequestInv, Control
<1>2. Shrinks
  <2>1. \A s : Gone(s)' <=> Gone(s) BY <1>1 DEF Gone
  <2> QED BY <1>1, <2>1 DEF Shrinks
<1>3. PICK s \in req[r].todo :
        LET q == [req[r] EXCEPT !.todo = @ \ {s}] IN
        Become(r, IF record[s] = None
                  THEN [q EXCEPT !.pc = "scanRem", !.cur = s]
                  ELSE ScanNext([q EXCEPT !.seen[s] = record[s]]))
  BY DEF ScanRecord
<1>s. s \in Sid BY <1>0, <1>3 DEF RequestState
<1>4. CASE record[s] = None
  <2> DEFINE v == [req[r] EXCEPT !.todo = @ \ {s}, !.pc = "scanRem", !.cur = s]
  <2>1. Become(r, v) BY <1>0, <1>3, <1>4 DEF RequestState
  <2>2. /\ v \in RequestState /\ v.op = req[r].op /\ v.pc = "scanRem"
        /\ v.todo = req[r].todo \ {s} /\ v.seen = req[r].seen
    BY <1>0, <1>s DEF RequestState, Pc
  <2> HIDE DEF v
  <2>3. PICK q \in RequestState : q = v BY <2>2
  <2>4. CASE req[r].op = "login"
    <3>1. Enforcing(req[r]) /\ Enforcing(q) BY <1>1, <2>2, <2>3, <2>4 DEF Enforcing
    <3>2. Known(q) = Known(req[r]) \ ({s} \ Found(req[r])) /\ Reads(req[r], q)
      BY <1>3, <2>2, <2>3 DEF Known, Found, Reads
    <3>3. s \notin Counted' BY <1>1, <1>4 DEF Counted, Live
    <3>4. Evicting(q)' BY <2>2, <2>3 DEF Evicting
    <3> QED BY <1>2, <2>1, <2>3, <3>1, <3>2, <3>3, <3>4, EnforceStep
  <2>5. CASE req[r].op = "list"
    <3>1. Aside(q) BY <2>2, <2>3, <2>5 DEF Aside
    <3> QED BY <1>1, <2>1, <2>3, <3>1, StillStep
  <2> QED BY <1>1, <2>4, <2>5
<1>5. CASE record[s] # None
  <2> DEFINE v == [req[r] EXCEPT !.todo = @ \ {s}, !.seen[s] = record[s]]
  <2>1. Become(r, ScanNext(v)) BY <1>0, <1>3, <1>5 DEF RequestState
  <2>2. /\ v \in RequestState /\ v.op = req[r].op
        /\ v.todo = req[r].todo \ {s} /\ v.seen = [req[r].seen EXCEPT ![s] = record[s]]
    BY <1>0, <1>s DEF RequestState, IInv, TypeOK
  <2> HIDE DEF v
  <2>3. PICK q \in RequestState : q = v BY <2>2
  <2>4. CASE req[r].op = "login"
    <3>1. Enforcing(req[r]) BY <1>1, <2>4 DEF Enforcing
    <3>2. /\ q.seen[s] = record[s] /\ \A t \in Sid \ {s} : q.seen[t] = req[r].seen[t]
          /\ q.todo = req[r].todo \ {s}
      BY <1>0, <1>s, <2>2, <2>3 DEF RequestState
    <3>3. Found(q) = Found(req[r]) \cup {s} BY <1>s, <1>5, <3>2 DEF Found
    <3>4. Known(q) = Known(req[r]) BY <1>3, <3>2, <3>3 DEF Known
    <3>5. Reads(req[r], q) BY <3>2, <3>4 DEF Reads
    <3>6. Counted' \cap Known(req[r]) \subseteq Known(q) BY <3>4
    <3> QED BY <1>2, <2>1, <2>2, <2>3, <2>4, <3>1, <3>5, <3>6, ScanOn
  <2>5. CASE req[r].op = "list"
    <3>1. Aside(ScanNext(v)) BY <2>2, <2>5, AfterLoop
    <3> QED BY <1>1, <2>1, <3>1, StillStep
  <2> QED BY <1>1, <2>4, <2>5
<1> QED BY <1>4, <1>5

(* Redis drops the index entry of a session, one that is gone.              *)
LEMMA ScanRemoveStep ==
  ASSUME IInv, IInv', LimitInv, NEW r \in Request, ScanRemove(r) PROVE LimitInv'
<1>0. req[r] \in RequestState BY DEF IInv, TypeOK
<1>1. /\ req[r].pc = "scanRem" /\ req[r].op \in {"login", "list"}
      /\ index' = index \ {req[r].cur} /\ UNCHANGED <<record, raced, nextSid, nextJti>>
  BY DEF ScanRemove, RemoveFromIndex, At, history, IInv, RequestInv, Control
<1>2. Shrinks
  <2>1. \A s : Gone(s)' <=> Gone(s) BY <1>1 DEF Gone
  <2> QED BY <1>1, <2>1 DEF Shrinks
<1> DEFINE v == [req[r] EXCEPT !.cur = None]
<1>3. Become(r, ScanNext(v)) BY DEF ScanRemove
<1>4. /\ v \in RequestState /\ v.op = req[r].op /\ v.todo = req[r].todo
      /\ v.seen = req[r].seen
  BY <1>0 DEF RequestState
<1> HIDE DEF v
<1>5. PICK q \in RequestState : q = v BY <1>4
<1>6. CASE req[r].op = "login"
  <2>1. Enforcing(req[r]) BY <1>1, <1>6 DEF Enforcing
  <2>2. Known(q) = Known(req[r]) /\ Reads(req[r], q) BY <1>4, <1>5 DEF Known, Found, Reads
  <2>3. Counted' \cap Known(req[r]) \subseteq Known(q) BY <2>2
  <2> QED BY <1>2, <1>3, <1>4, <1>5, <1>6, <2>1, <2>2, <2>3, ScanOn
<1>7. CASE req[r].op = "list"
  <2>1. Aside(ScanNext(v)) BY <1>4, <1>7, AfterLoop
  <2>2. PICK w \in RequestState : w = ScanNext(v) /\ Become(r, w)
    BY <1>3, Becomes DEF IInv, TypeOK
  <2> QED BY <1>2, <2>1, <2>2, AsideStep DEF Shrinks
<1> QED BY <1>1, <1>6, <1>7

(* A victim is dealt with when it is counted no more.                       *)
LEMMA VictimDone ==
  ASSUME IInv, IInv', LimitInv, Shrinks, NEW r \in Request,
         req[r].pc \in {"read", "srem"}, req[r].op # "none",
         NEW s, s \notin Counted',
         Become(r, RevokeNext([req[r] EXCEPT !.todo = @ \ {s}, !.cur = None]))
  PROVE  LimitInv'
<1>0. req[r] \in RequestState BY DEF IInv, TypeOK
<1> DEFINE v == [req[r] EXCEPT !.todo = @ \ {s}, !.cur = None]
<1>1. Become(r, RevokeNext(v)) OBVIOUS
<1>2. /\ v \in RequestState /\ v.op = req[r].op /\ v.todo = req[r].todo \ {s}
      /\ v.seen = req[r].seen
  BY <1>0 DEF RequestState
<1> HIDE DEF v
<1>3. PICK q \in RequestState : q = v BY <1>2
<1>4. CASE req[r].op = "login"
  <2>1. Enforcing(req[r]) BY <1>4 DEF Enforcing
  <2>2. /\ req[r].todo \subseteq Found(req[r])
        /\ Counted \cap Found(req[r]) \subseteq Kept(req[r]) \cup req[r].todo
    BY <2>1 DEF LimitInv, Evicting
  <2>3. Found(q) = Found(req[r]) /\ Kept(q) = Kept(req[r]) /\ q.todo = req[r].todo \ {s}
    BY <1>2, <1>3 DEF Found, Kept
  <2>4. Known(req[r]) = Found(req[r]) /\ Known(q) = Found(q) BY <2>2, <2>3 DEF Known
  <2>5. Reads(req[r], q) BY <1>2, <1>3, <2>3, <2>4 DEF Reads
  <2>6. Counted' \subseteq Counted BY CountedFalls DEF Shrinks
  <2>7. Counted' \cap Known(req[r]) \subseteq Kept(q) \cup q.todo
    BY <2>2, <2>3, <2>4, <2>6
  <2>8. q.todo \subseteq Found(q) BY <2>2, <2>3
  <2> QED BY <1>1, <1>2, <1>3, <1>4, <2>1, <2>5, <2>7, <2>8, RevokeOn
<1>5. CASE req[r].op # "login"
  <2>1. Aside(RevokeNext(v)) BY <1>2, <1>5, AfterLoop
  <2>2. PICK w \in RequestState : w = RevokeNext(v) /\ Become(r, w)
    BY <1>1, Becomes DEF IInv, TypeOK
  <2> QED BY <2>1, <2>2, AsideStep DEF Shrinks
<1> QED BY <1>4, <1>5

(* A login that goes on with the victim at hand.                            *)
LEMMA VictimStep ==
  ASSUME IInv, IInv', LimitInv, Shrinks, NEW r \in Request, NEW q \in RequestState,
         req[r].pc \in {"read", "del"}, Become(r, q),
         q.op = req[r].op, q.pc \in {"del", "srem"},
         q.todo = req[r].todo, q.seen = req[r].seen
  PROVE  LimitInv'
<1>1. CASE req[r].op = "login"
  <2>1. Enforcing(req[r]) /\ Enforcing(q) BY <1>1 DEF Enforcing
  <2>2. Found(q) = Found(req[r]) /\ Kept(q) = Kept(req[r]) /\ Known(q) = Known(req[r])
    BY DEF Found, Kept, Known
  <2>3. Reads(req[r], q) BY <2>2 DEF Reads
  <2>4. /\ q.todo \subseteq Found(q)
        /\ Counted \cap Found(q) \subseteq Kept(q) \cup q.todo
    BY <2>1, <2>2 DEF LimitInv, Evicting
  <2>5. Counted' \subseteq Counted BY CountedFalls DEF Shrinks
  <2>6. Counted' \cap Known(req[r]) \subseteq Known(q) BY <2>2
  <2>7. Evicting(q)' BY <2>4, <2>5 DEF Evicting, Found, Kept, Victims
  <2> QED BY <2>1, <2>3, <2>6, <2>7, EnforceStep
<1>2. CASE req[r].op # "login"
  <2>1. Aside(q) BY <1>2 DEF Aside
  <2> QED BY <2>1, AsideStep DEF Shrinks
<1> QED BY <1>1, <1>2

LEMMA RevokingSteps ==
  ASSUME IInv, IInv', LimitInv, NEW r \in Request,
         ReadRecord(r) \/ DeleteSession(r) \/ RevokeFromIndex(r)
  PROVE  LimitInv'
<1>0. req[r] \in RequestState /\ RequestInv(req[r]) BY DEF IInv, TypeOK
<1>k. None \notin Sid BY DEF None, Sid
<1>1. CASE ReadRecord(r)
  <2>1. /\ req[r].pc = "read" /\ req[r].op # "none"
        /\ UNCHANGED <<index, record, raced, nextSid, nextJti>>
    BY <1>0, <1>1 DEF ReadRecord, At, redis, history, RequestInv, Control
  <2>2. Shrinks
    <3>1. \A s : Gone(s)' <=> Gone(s) BY <2>1 DEF Gone
    <3> QED BY <2>1, <3>1 DEF Shrinks
  <2>3. PICK s \in req[r].todo :
          Become(r, IF record[s] = None
                    THEN RevokeNext([req[r] EXCEPT !.todo = @ \ {s}, !.cur = None])
                    ELSE [req[r] EXCEPT !.pc = "del", !.cur = s, !.jti = record[s]])
    BY <1>0, <1>1, <1>k DEF ReadRecord, At, RequestInv, Holds, RequestState
  <2>s. s \in Sid BY <1>0, <2>3 DEF RequestState
  <2>4. CASE record[s] = None
    <3>1. s \notin Counted' BY <2>1, <2>4 DEF Counted, Live
    <3>2. Become(r, RevokeNext([req[r] EXCEPT !.todo = @ \ {s}, !.cur = None]))
      BY <2>3, <2>4
    <3> QED BY <2>1, <2>2, <3>1, <3>2, VictimDone
  <2>5. CASE record[s] # None
    <3> DEFINE v == [req[r] EXCEPT !.pc = "del", !.cur = s, !.jti = record[s]]
    <3>1. Become(r, v) BY <2>3, <2>5
    <3>2. /\ v.op = req[r].op /\ v.pc = "del" /\ v.todo = req[r].todo
          /\ v.seen = req[r].seen
      BY <1>0 DEF RequestState
    <3> HIDE DEF v
    <3>3. PICK q \in RequestState : q = v BY <3>1, Becomes DEF IInv, TypeOK
    <3> QED BY <2>1, <2>2, <3>1, <3>2, <3>3, VictimStep
  <2> QED BY <2>4, <2>5
<1>2. CASE DeleteSession(r)
  <2>1. /\ req[r].pc = "del" /\ record' = [record EXCEPT ![req[r].cur] = None]
        /\ raced \subseteq raced' /\ UNCHANGED <<index, nextSid, nextJti>>
    BY <1>2 DEF DeleteSession, At
  <2>2. Shrinks
    <3>1. \A s \in Sid : record'[s] \in {None, record[s]} BY <2>1 DEF IInv, TypeOK
    <3>2. \A s \in Sid : Gone(s) => Gone(s)' BY <2>1, <3>1 DEF Gone
    <3> QED BY <2>1, <3>1, <3>2 DEF Shrinks
  <2> DEFINE v == [req[r] EXCEPT !.pc = "srem"]
  <2>3. Become(r, v) BY <1>2 DEF DeleteSession
  <2>4. /\ v.op = req[r].op /\ v.pc = "srem" /\ v.todo = req[r].todo
        /\ v.seen = req[r].seen
    BY <1>0 DEF RequestState
  <2> HIDE DEF v
  <2>5. PICK q \in RequestState : q = v BY <2>3, Becomes DEF IInv, TypeOK
  <2> QED BY <2>1, <2>2, <2>3, <2>4, <2>5, VictimStep
<1>3. CASE RevokeFromIndex(r)
  <2>1. /\ req[r].pc = "srem" /\ req[r].op # "none"
        /\ index' = index \ {req[r].cur} /\ UNCHANGED <<record, raced, nextSid, nextJti>>
    BY <1>0, <1>3 DEF RevokeFromIndex, RemoveFromIndex, At, history, RequestInv, Control
  <2>2. Shrinks
    <3>1. \A s : Gone(s)' <=> Gone(s) BY <2>1 DEF Gone
    <3> QED BY <2>1, <3>1 DEF Shrinks
  <2>3. req[r].cur \notin Counted' BY <2>1 DEF Counted
  <2>4. Become(r, RevokeNext([req[r] EXCEPT !.todo = @ \ {req[r].cur}, !.cur = None]))
    BY <1>3 DEF RevokeFromIndex
  <2> QED BY <2>1, <2>2, <2>3, <2>4, VictimDone
<1> QED BY <1>1, <1>2, <1>3

LEMMA LimitInit == Init => LimitInv
<1> SUFFICES ASSUME Init PROVE LimitInv OBVIOUS
<1>1. /\ \A r \in Request : req[r] = Idle
      /\ index = {} /\ \A s \in Sid : record[s] = None
  BY DEF Init
<1>2. /\ ~Enforcing(Idle) /\ ~Admitted(Idle) /\ Idle.pc = "idle" /\ Idle.op = "none"
  BY DEF Idle, Enforcing, Admitted
<1>3. UnlistedIsUnknown BY <1>1, <1>2 DEF UnlistedIsUnknown
<1>4. StampsDiffer BY <1>1, <1>2 DEF StampsDiffer, Stamped, Jti, None
<1>5. \A r \in Request : Standing(req[r]) /\ Evicting(req[r])
  BY <1>1, <1>2 DEF Standing, Evicting
<1>6. InOrder
  <2> DEFINE rank == [r \in Request |-> 0]
  <2>1. Counted = {} /\ Ahead(rank, 0) = {} BY <1>1, <1>2 DEF Counted, Ahead
  <2>2. Cardinality(Counted) = 0 /\ Cardinality(Ahead(rank, 0)) = 0 BY <2>1, FS_EmptySet
  <2>3. 0 + 0 <= MaxSessions + Cardinality(Request) - 1
    BY AheadFinite, SessionsAssumption DEF SessionsAssumption
  <2>4. Ordered(rank, 0) BY <1>1, <1>2, <2>2, <2>3 DEF Ordered
  <2>5. rank \in [Request -> 0 .. 0] /\ 0 \in 0 .. 0 OBVIOUS
  <2> HIDE DEF rank
  <2> QED BY <2>4, <2>5 DEF InOrder
<1> QED BY <1>3, <1>4, <1>5, <1>6 DEF LimitInv

LEMMA LimitNext == IInv /\ IInv' /\ LimitInv /\ [Next]_vars => LimitInv'
<1> SUFFICES ASSUME IInv, IInv', LimitInv, [Next]_vars PROVE LimitInv' OBVIOUS
<1>1. ASSUME NEW r \in Request, Step(r) PROVE LimitInv'
  BY <1>1, AsideSteps, TokenSteps, WriteRecordStep, EntryStep, ReadIndexStep, ScanRecordStep,
     ScanRemoveStep, RevokingSteps
  DEF Step
<1> QED BY <1>1, NobodySteps DEF Next

(* Logins that overlap exceed the limit by at most one listed session per   *)
(* other request in flight.                                                 *)
THEOREM LimitHolds == Spec => []IndexedSessionsBounded
<1>1. ASSUME LimitInv PROVE IndexedSessionsBounded
  <2>1. PICK top \in Nat : \E last \in 0 .. top, rank \in [Request -> 0 .. top] :
                             Ordered(rank, last)
    BY <1>1 DEF LimitInv, InOrder
  <2>2. PICK last \in 0 .. top, rank \in [Request -> 0 .. top] : Ordered(rank, last) BY <2>1
  <2>3. Cardinality(Counted) + Cardinality(Ahead(rank, last))
          <= MaxSessions + Cardinality(Request) - 1
    BY <2>2 DEF Ordered
  <2>4. /\ Cardinality(Counted) \in Nat /\ Cardinality(Ahead(rank, last)) \in Nat
    BY CountedFinite, AheadFinite
  <2>5. MaxSessions + Cardinality(Request) - 1 \in Int BY LimitIsNumber
  <2>6. Cardinality(Counted) <= MaxSessions + Cardinality(Request) - 1 BY <2>3, <2>4, <2>5
  <2> QED BY <2>6 DEF IndexedSessionsBounded, Counted
<1> QED BY <1>1, LimitInit, LimitNext, Inductive, PTL DEF Spec

-----------------------------------------------------------------------------
(* The login lock, for any number of attempts, any threshold and any number *)
(* of crashes.  Each property is inductive beside the type invariant: the   *)
(* attempt that created the counter stands at EXPIRE, and the attempt that  *)
(* met the threshold stands before SET.                                     *)
USE LockoutAssumption DEF LockoutAssumption

(* An attempt that dies, fails or moves on leaves the others where they     *)
(* are.                                                                     *)
LEMMA Others ==
  ASSUME LockoutTypeOK, NEW r \in Caller, NEW q,
         attempt' = [attempt EXCEPT ![r] = q]
  PROVE  /\ attempt'[r] = q
         /\ \A o \in Caller \ {r} : attempt'[o] = attempt[o]
  BY DEF LockoutTypeOK

(* The two halves of the type invariant: what the provers treat as numbers  *)
(* and records, and what they treat as truth values.                        *)
Counts ==
  /\ fails \in 0 .. MaxFails
  /\ attempt \in [Caller -> AttemptState]
  /\ crashes \in 0 .. MaxCrashes
  /\ slips \in Nat

Flags ==
  /\ window \in BOOLEAN /\ lock \in BOOLEAN /\ lockFirst \in BOOLEAN
  /\ window => fails # 0
  /\ lockFirst => lock /\ window
  /\ endless \in BOOLEAN

LEMMA CountsStep == Counts /\ [LockoutNext]_lockoutVars => Counts'
<1> SUFFICES ASSUME Counts, [LockoutNext]_lockoutVars PROVE Counts'
  OBVIOUS
<1> USE DEF Counts, Resting, AttemptState, lockoutHistory, lockoutVars
<1>1. ASSUME NEW r \in Caller, Attempt(r) PROVE Counts'
  BY <1>1 DEF Attempt
<1>2. ASSUME NEW r \in Caller, Refuse(r) PROVE Counts'
  BY <1>2 DEF Refuse
<1>3. ASSUME NEW r \in Caller, Succeed(r) PROVE Counts'
  BY <1>3 DEF Succeed, Clear
<1>4. ASSUME NEW r \in Caller, RegisterFailure(r) PROVE Counts'
  <2>1. fails + 1 \in 1 .. MaxFails
    BY <1>4 DEF RegisterFailure
  <2>2. AfterIncr(fails + 1) \in AttemptState
    BY <2>1 DEF AfterIncr, AfterWindow
  <2> QED BY <1>4, <2>1, <2>2 DEF RegisterFailure
<1>5. ASSUME NEW r \in Caller, OpenWindow(r) PROVE Counts'
  BY <1>5 DEF OpenWindow, AfterWindow
<1>6. ASSUME NEW r \in Caller, SetLock(r) PROVE Counts'
  BY <1>6 DEF SetLock
<1>7. ASSUME NEW r \in Caller, Dies(r) PROVE Counts'
  BY <1>7 DEF Dies
<1>8. CASE Unlock
  BY <1>8 DEF Unlock, Clear
<1>9. CASE ExpireCounter
  BY <1>9 DEF ExpireCounter
<1>10. CASE ExpireLock
  BY <1>10 DEF ExpireLock
<1>11. CASE UNCHANGED lockoutVars
  BY <1>11
<1> QED BY <1>1, <1>2, <1>3, <1>4, <1>5, <1>6, <1>7, <1>8, <1>9, <1>10, <1>11 DEF LockoutNext

LEMMA FlagsStep == Counts /\ Flags /\ [LockoutNext]_lockoutVars => Flags'
<1> SUFFICES ASSUME Counts, Flags, [LockoutNext]_lockoutVars PROVE Flags'
  OBVIOUS
<1> USE DEF Flags, lockoutHistory, lockoutVars
<1>1. ASSUME NEW r \in Caller, Attempt(r) PROVE Flags'
  BY <1>1 DEF Attempt
<1>2. ASSUME NEW r \in Caller, Refuse(r) PROVE Flags'
  BY <1>2 DEF Refuse
<1>3. ASSUME NEW r \in Caller, Succeed(r) PROVE Flags'
  BY <1>3 DEF Succeed, Clear
<1>4. ASSUME NEW r \in Caller, RegisterFailure(r) PROVE Flags'
  <2>1. fails' # 0
    BY <1>4 DEF RegisterFailure, Counts
  <2> QED BY <1>4, <2>1 DEF RegisterFailure
<1>5. ASSUME NEW r \in Caller, OpenWindow(r) PROVE Flags'
  BY <1>5 DEF OpenWindow
<1>6. ASSUME NEW r \in Caller, SetLock(r) PROVE Flags'
  BY <1>6 DEF SetLock
<1>7. ASSUME NEW r \in Caller, Dies(r) PROVE Flags'
  BY <1>7 DEF Dies
<1>8. CASE Unlock
  BY <1>8 DEF Unlock, Clear
<1>9. CASE ExpireCounter
  BY <1>9 DEF ExpireCounter
<1>10. CASE ExpireLock
  BY <1>10 DEF ExpireLock
<1>11. CASE UNCHANGED lockoutVars
  BY <1>11
<1> QED BY <1>1, <1>2, <1>3, <1>4, <1>5, <1>6, <1>7, <1>8, <1>9, <1>10, <1>11 DEF LockoutNext

(* TypeCorrect: the type invariant of the lock.                             *)
THEOREM LockoutTypeCorrect == LockoutSpec => []LockoutTypeOK
<1>1. LockoutInit => Counts
  BY DEF LockoutInit, Counts, Resting, AttemptState
<1>2. LockoutInit => Flags
  BY DEF LockoutInit, Flags
<1>3. Counts /\ Flags <=> LockoutTypeOK
  BY DEF Counts, Flags, LockoutTypeOK
<1> QED BY <1>1, <1>2, <1>3, CountsStep, FlagsStep, PTL DEF LockoutSpec

(* A counter without TTL is about to get one, or was orphaned by a crash.   *)
LEMMA CounterStep == LockoutTypeOK /\ CounterWillExpire /\ [LockoutNext]_lockoutVars => CounterWillExpire'
<1> SUFFICES ASSUME LockoutTypeOK, CounterWillExpire, [LockoutNext]_lockoutVars PROVE CounterWillExpire'
  OBVIOUS
<1> USE DEF LockoutTypeOK, CounterWillExpire, Stands, Resting, AttemptState, lockoutHistory, lockoutVars
<1>1. ASSUME NEW r \in Caller, Attempt(r) PROVE CounterWillExpire'
  BY <1>1 DEF Attempt
<1>2. ASSUME NEW r \in Caller, Refuse(r) PROVE CounterWillExpire'
  BY <1>2, Others DEF Refuse
<1>3. ASSUME NEW r \in Caller, Succeed(r) PROVE CounterWillExpire'
  BY <1>3 DEF Succeed, Clear
<1>4. ASSUME NEW r \in Caller, RegisterFailure(r) PROVE CounterWillExpire'
  <2>1. CASE fails = 0
    BY <1>4, <2>1 DEF RegisterFailure, AfterIncr
  <2>2. CASE fails # 0
    BY <1>4, <2>2, Others DEF RegisterFailure
  <2> QED BY <2>1, <2>2
<1>5. ASSUME NEW r \in Caller, OpenWindow(r) PROVE CounterWillExpire'
  BY <1>5 DEF OpenWindow
<1>6. ASSUME NEW r \in Caller, SetLock(r) PROVE CounterWillExpire'
  BY <1>6, Others DEF SetLock
<1>7. ASSUME NEW r \in Caller, Dies(r) PROVE CounterWillExpire'
  BY <1>7, Others DEF Dies
<1>8. CASE Unlock
  BY <1>8 DEF Unlock, Clear
<1>9. CASE ExpireCounter
  BY <1>9 DEF ExpireCounter
<1>10. CASE ExpireLock
  BY <1>10 DEF ExpireLock
<1>11. CASE UNCHANGED lockoutVars
  BY <1>11
<1> QED BY <1>1, <1>2, <1>3, <1>4, <1>5, <1>6, <1>7, <1>8, <1>9, <1>10, <1>11 DEF LockoutNext

(* The counter at the threshold has its lock, or has lost it knowingly.     *)
LEMMA ThresholdStep == LockoutTypeOK /\ ThresholdLocks /\ [LockoutNext]_lockoutVars => ThresholdLocks'
<1> SUFFICES ASSUME LockoutTypeOK, ThresholdLocks, [LockoutNext]_lockoutVars PROVE ThresholdLocks'
  OBVIOUS
<1> USE DEF LockoutTypeOK, ThresholdLocks, Stands, Resting, AttemptState, lockoutHistory, lockoutVars
<1>1. ASSUME NEW r \in Caller, Attempt(r) PROVE ThresholdLocks'
  BY <1>1 DEF Attempt
<1>2. ASSUME NEW r \in Caller, Refuse(r) PROVE ThresholdLocks'
  BY <1>2, Others DEF Refuse
<1>3. ASSUME NEW r \in Caller, Succeed(r) PROVE ThresholdLocks'
  BY <1>3 DEF Succeed, Clear
<1>4. ASSUME NEW r \in Caller, RegisterFailure(r) PROVE ThresholdLocks'
  BY <1>4 DEF RegisterFailure, AfterIncr, AfterWindow
<1>5. ASSUME NEW r \in Caller, OpenWindow(r) PROVE ThresholdLocks'
  <2>1. attempt[r].count >= MaxAttempts => attempt'[r].count >= MaxAttempts
    BY <1>5 DEF OpenWindow, AfterWindow
  <2> QED BY <1>5, <2>1, Others DEF OpenWindow
<1>6. ASSUME NEW r \in Caller, SetLock(r) PROVE ThresholdLocks'
  BY <1>6 DEF SetLock
<1>7. ASSUME NEW r \in Caller, Dies(r) PROVE ThresholdLocks'
  BY <1>7, Others DEF Dies
<1>8. CASE Unlock
  BY <1>8 DEF Unlock, Clear
<1>9. CASE ExpireCounter
  BY <1>9 DEF ExpireCounter
<1>10. CASE ExpireLock
  BY <1>10 DEF ExpireLock
<1>11. CASE UNCHANGED lockoutVars
  BY <1>11
<1> QED BY <1>1, <1>2, <1>3, <1>4, <1>5, <1>6, <1>7, <1>8, <1>9, <1>10, <1>11 DEF LockoutNext

(* CountersExpire: no interleaving of failures, clears and expiries leaves  *)
(* a counter without TTL; only a death between INCR and EXPIRE does.        *)
THEOREM CountersExpire == LockoutSpec => []CounterWillExpire
<1>1. LockoutInit => CounterWillExpire
  BY DEF LockoutInit, CounterWillExpire
<1> QED BY <1>1, CounterStep, LockoutTypeCorrect, PTL DEF LockoutSpec

(* ThresholdReached: whatever overlaps, the failures that reach the         *)
(* threshold lock the identifier.                                           *)
THEOREM ThresholdReached == LockoutSpec => []ThresholdLocks
<1>1. LockoutInit => ThresholdLocks
  BY DEF LockoutInit, ThresholdLocks
<1> QED BY <1>1, ThresholdStep, LockoutTypeCorrect, PTL DEF LockoutSpec

-----------------------------------------------------------------------------
(* How many guesses overlap buys.  An attempt still to be counted may add   *)
(* one failure.  Without its lock, a counter at the threshold is above it   *)
(* by attempts that are still on their way to set the lock, and these are   *)
(* not among the ones still to be counted; each lock that was lost lets     *)
(* every request in again.                                                  *)
Guessing == {r \in Caller : Stands(r, "verify")}
Locking  == {r \in Caller : attempt[r].count >= MaxAttempts}

Base == (MaxAttempts - 1) + Cardinality(Caller) * slips

Headroom ==
  /\ fails + Cardinality(Guessing) <= Base + Cardinality(Caller)
  /\ fails >= MaxAttempts /\ ~lock => fails <= Base + Cardinality(Locking)

Apart ==
  /\ IsFiniteSet(Guessing) /\ IsFiniteSet(Locking)
  /\ Cardinality(Caller) \in Nat
  /\ Cardinality(Guessing) \in Nat /\ Cardinality(Locking) \in Nat
  /\ Cardinality(Guessing) + Cardinality(Locking) <= Cardinality(Caller)

LEMMA Disjoint == LockoutTypeOK => Apart
<1> SUFFICES ASSUME LockoutTypeOK PROVE Apart
  OBVIOUS
<1>1. Guessing \subseteq Caller /\ Locking \subseteq Caller
  BY DEF Guessing, Locking
<1>2. Guessing \cap Locking = {}
  BY DEF Guessing, Locking, Stands, LockoutTypeOK, AttemptState
<1>3. IsFiniteSet(Guessing) /\ IsFiniteSet(Locking)
  BY <1>1, FS_Subset
<1>4. Cardinality(Guessing \cup Locking) = Cardinality(Guessing) + Cardinality(Locking)
  <2>1. Cardinality(Guessing \cap Locking) = 0
    BY <1>2, FS_EmptySet
  <2>2. Cardinality(Guessing) \in Nat /\ Cardinality(Locking) \in Nat
    BY <1>3, FS_CardinalityType
  <2> QED BY <1>3, <2>1, <2>2, FS_Union
<1>5. Cardinality(Guessing \cup Locking) <= Cardinality(Caller)
  BY <1>1, FS_Subset
<1> QED BY <1>3, <1>4, <1>5, FS_CardinalityType DEF Apart

(* One request more or less in a set.                                       *)
LEMMA Sizes ==
  ASSUME NEW S, NEW x, IsFiniteSet(S)
  PROVE  /\ Cardinality(S \ {x}) <= Cardinality(S)
         /\ x \in S => Cardinality(S \ {x}) = Cardinality(S) - 1
         /\ x \notin S => Cardinality(S \cup {x}) = Cardinality(S) + 1
<1>1. Cardinality(S \ {x}) <= Cardinality(S)
  <2>1. S \ {x} \subseteq S
    OBVIOUS
  <2> QED BY <2>1, FS_Subset
<1>2. x \in S => Cardinality(S \ {x}) = Cardinality(S) - 1
  BY FS_RemoveElement
<1>3. x \notin S => Cardinality(S \cup {x}) = Cardinality(S) + 1
  BY FS_AddElement
<1> QED BY <1>1, <1>2, <1>3

LEMMA DisjointNext == LockoutTypeOK' => Apart'
  BY Disjoint, PTL

(* What a request that moves on does to the two sets.                       *)
LEMMA Moves ==
  ASSUME LockoutTypeOK, NEW r \in Caller, NEW q, attempt' = [attempt EXCEPT ![r] = q]
  PROVE  /\ q.pc = "verify" => Guessing' = Guessing \cup {r}
         /\ q.pc # "verify" => Guessing' = Guessing \ {r}
         /\ q.count >= MaxAttempts => Locking' = Locking \cup {r}
         /\ ~(q.count >= MaxAttempts) => Locking' = Locking \ {r}
<1>1. attempt'[r] = q /\ \A o \in Caller \ {r} : attempt'[o] = attempt[o]
  BY Others
<1>2. \A o \in Caller : o \in Guessing' <=> IF o = r THEN q.pc = "verify" ELSE o \in Guessing
  BY <1>1 DEF Guessing, Stands
<1>3. \A o \in Caller : o \in Locking' <=> IF o = r THEN q.count >= MaxAttempts ELSE o \in Locking
  BY <1>1 DEF Locking
<1>4. Guessing \subseteq Caller /\ Guessing' \subseteq Caller
  BY DEF Guessing
<1>5. Locking \subseteq Caller /\ Locking' \subseteq Caller
  BY DEF Locking
<1> QED BY <1>2, <1>3, <1>4, <1>5

LEMMA Leaves ==
  ASSUME LockoutTypeOK, NEW r \in Caller, attempt' = [attempt EXCEPT ![r] = Resting]
  PROVE  /\ Guessing' = Guessing \ {r} /\ Locking' = Locking \ {r}
         /\ Cardinality(Guessing') <= Cardinality(Guessing)
<1>1. Resting.pc # "verify" /\ ~(Resting.count >= MaxAttempts)
  BY DEF Resting
<1>2. Guessing' = Guessing \ {r} /\ Locking' = Locking \ {r}
  <2> HIDE DEF Resting
  <2> QED BY <1>1, Moves
<1>3. IsFiniteSet(Guessing) /\ Cardinality(Guessing) \in Nat
  BY Disjoint DEF Apart
<1>4. Cardinality(Guessing \ {r}) <= Cardinality(Guessing)
  BY <1>3, Sizes
<1> QED BY <1>2, <1>4

(* Every slip is worth as many guesses as there are requests.               *)
LEMMA BaseType == LockoutTypeOK => Base \in Nat
  BY Disjoint DEF Apart, Base, LockoutTypeOK

LEMMA BaseTypeNext == LockoutTypeOK' => Base' \in Nat
  BY FS_CardinalityType DEF Base, LockoutTypeOK

LEMMA BaseGrows ==
  ASSUME LockoutTypeOK, slips' = slips + 1 PROVE Base' = Base + Cardinality(Caller)
<1> DEFINE n == Cardinality(Caller)
<1>1. n \in Nat /\ slips \in Nat
  BY Disjoint DEF Apart, LockoutTypeOK
<1>2. n * (slips + 1) = n * slips + n
  BY <1>1
<1>3. n * slips \in Nat
  BY <1>1
<1> HIDE DEF n
<1> QED BY <1>1, <1>2, <1>3 DEF Base, n

LEMMA HeadroomCleared ==
  ASSUME LockoutTypeOK, LockoutTypeOK', fails' = 0 PROVE Headroom'
<1>1. Base' \in Nat
  BY BaseTypeNext
<1> QED BY <1>1, Disjoint, DisjointNext DEF Apart, Headroom

LEMMA HeadroomStep == LockoutTypeOK /\ LockoutTypeOK' /\ Headroom /\ [LockoutNext]_lockoutVars => Headroom'
<1> SUFFICES ASSUME LockoutTypeOK, LockoutTypeOK', Headroom, [LockoutNext]_lockoutVars PROVE Headroom'
  OBVIOUS
<1> USE DEF lockoutHistory, lockoutVars
<1>a. /\ Base \in Nat /\ Base >= MaxAttempts - 1
      /\ fails \in Nat /\ slips \in Nat
  BY BaseType, Disjoint DEF Apart, LockoutTypeOK, Base
<1>b. slips' = slips => Base' = Base
  BY DEF Base
<1>c. attempt' = attempt => Guessing' = Guessing /\ Locking' = Locking
  BY DEF Guessing, Locking, Stands
<1>1. ASSUME NEW r \in Caller, Attempt(r) PROVE Headroom'
  <2> DEFINE q == [Resting EXCEPT !.pc = "verify"]
  <2>0. q.pc = "verify" /\ q.count = 0 /\ attempt' = [attempt EXCEPT ![r] = q]
    BY <1>1 DEF Attempt, Resting
  <2> HIDE DEF q
  <2>1. Guessing' = Guessing \cup {r} /\ r \notin Guessing
    BY <1>1, <2>0, Moves DEF Attempt, Guessing, Stands
  <2>2. Locking' = Locking \ {r} /\ r \notin Locking
    <3>1. attempt[r].count = 0
      BY <1>1 DEF Attempt, Stands, LockoutTypeOK, AttemptState
    <3> QED BY <1>a, <2>0, <3>1, Moves DEF Locking
  <2>a. IsFiniteSet(Guessing)
    BY Disjoint DEF Apart
  <2>b. Cardinality(Guessing \cup {r}) = Cardinality(Guessing) + 1
    BY <2>1, <2>a, Sizes
  <2>c. Locking \ {r} = Locking
    BY <2>2
  <2>3. Cardinality(Guessing') = Cardinality(Guessing) + 1 /\ Locking' = Locking
    BY <2>1, <2>2, <2>b, <2>c
  <2>4. fails' = fails /\ Base' = Base /\ ~lock
    BY <1>1, <1>b DEF Attempt
  <2> QED BY <1>a, <2>3, <2>4, Disjoint, DisjointNext DEF Apart, Headroom
<1>2. ASSUME NEW r \in Caller, Refuse(r) PROVE Headroom'
  <2>1. r \notin Locking
    BY <1>2 DEF Refuse, Locking, Stands, LockoutTypeOK, AttemptState
  <2>a. attempt' = [attempt EXCEPT ![r] = Resting]
    BY <1>2 DEF Refuse
  <2>b. Locking' = Locking \ {r} /\ Cardinality(Guessing') <= Cardinality(Guessing)
    BY <2>a, Leaves
  <2>c. Locking \ {r} = Locking
    BY <2>1
  <2>2. Cardinality(Guessing') <= Cardinality(Guessing) /\ Locking' = Locking
    BY <2>b, <2>c
  <2> QED BY <1>2, <1>a, <1>b, <2>2, Disjoint, DisjointNext DEF Apart, Headroom, Refuse
<1>3. ASSUME NEW r \in Caller, Succeed(r) PROVE Headroom'
  BY <1>3, HeadroomCleared DEF Succeed, Clear
<1>4. ASSUME NEW r \in Caller, RegisterFailure(r) PROVE Headroom'
  <2> DEFINE q == AfterIncr(fails + 1)
  <2>1. /\ q.pc # "verify"
        /\ q.count >= MaxAttempts <=> fails + 1 >= MaxAttempts
    BY <1>a DEF AfterIncr, AfterWindow, Resting
  <2>2. r \in Guessing /\ r \notin Locking
    BY <1>4 DEF RegisterFailure, Guessing, Locking, Stands, LockoutTypeOK, AttemptState
  <2>3. attempt' = [attempt EXCEPT ![r] = q]
    BY <1>4 DEF RegisterFailure
  <2> HIDE DEF q
  <2>4. Guessing' = Guessing \ {r} /\ (fails + 1 >= MaxAttempts => Locking' = Locking \cup {r})
    BY <2>1, <2>3, Moves
  <2>5. /\ Cardinality(Guessing') = Cardinality(Guessing) - 1
        /\ fails + 1 >= MaxAttempts => Cardinality(Locking') = Cardinality(Locking) + 1
    BY <2>2, <2>4, Disjoint, FS_RemoveElement, FS_AddElement DEF Apart
  <2>6. fails' = fails + 1 /\ lock' = lock /\ Base' = Base
    BY <1>4, <1>b DEF RegisterFailure
  <2> QED BY <1>a, <2>5, <2>6, Disjoint, DisjointNext DEF Apart, Headroom
<1>5. ASSUME NEW r \in Caller, OpenWindow(r) PROVE Headroom'
  <2> DEFINE q == AfterWindow(attempt[r].count)
  <2>1. q.pc # "verify"
    BY DEF AfterWindow, Resting
  <2>2. q.count >= MaxAttempts <=> attempt[r].count >= MaxAttempts
    BY DEF AfterWindow, Resting
  <2>3. attempt' = [attempt EXCEPT ![r] = q]
    BY <1>5 DEF OpenWindow
  <2> HIDE DEF q
  <2>5. r \notin Guessing
    BY <1>5 DEF OpenWindow, Guessing, Stands
  <2>6. Guessing' = Guessing \ {r}
    BY <2>1, <2>3, Moves
  <2>7. ASSUME q.count >= MaxAttempts PROVE Locking' = Locking
    <3>1. Locking' = Locking \cup {r}
      BY <2>3, <2>7, Moves
    <3>2. r \in Locking
      BY <2>2, <2>7 DEF Locking
    <3> QED BY <3>1, <3>2
  <2>8. ASSUME ~(q.count >= MaxAttempts) PROVE Locking' = Locking
    <3>1. Locking' = Locking \ {r}
      BY <2>3, <2>8, Moves
    <3>2. r \notin Locking
      BY <2>2, <2>8 DEF Locking
    <3> QED BY <3>1, <3>2
  <2>a. Guessing \ {r} = Guessing
    BY <2>5
  <2>4. Guessing' = Guessing /\ Locking' = Locking
    BY <2>6, <2>7, <2>8, <2>a
  <2> QED BY <1>5, <1>a, <1>b, <2>4 DEF Headroom, OpenWindow
<1>6. ASSUME NEW r \in Caller, SetLock(r) PROVE Headroom'
  <2>2. Cardinality(Guessing') <= Cardinality(Guessing)
    BY <1>6, Leaves DEF SetLock
  <2> QED BY <1>6, <1>a, <1>b, <2>2, Disjoint, DisjointNext DEF Apart, Headroom, SetLock
<1>7. ASSUME NEW r \in Caller, Dies(r) PROVE Headroom'
  <2>1. Locking' = Locking \ {r}
    BY <1>7, Leaves DEF Dies
  <2>2. Cardinality(Guessing') <= Cardinality(Guessing)
    BY <1>7, Leaves DEF Dies
  <2>3. fails' = fails /\ lock' = lock
    BY <1>7 DEF Dies
  <2>4. CASE attempt[r].count >= MaxAttempts /\ fails >= MaxAttempts
    <3>1. Base' = Base + Cardinality(Caller)
      BY <1>7, <2>4, BaseGrows DEF Dies
    <3> QED BY <1>a, <2>2, <2>3, <3>1, Disjoint, DisjointNext DEF Apart, Headroom
  <2>5. CASE ~(attempt[r].count >= MaxAttempts /\ fails >= MaxAttempts)
    <3>1. Base' = Base
      BY <1>7, <1>b, <2>5 DEF Dies
    <3>2. fails >= MaxAttempts => Locking' = Locking
      BY <2>1, <2>5 DEF Locking
    <3> QED BY <1>a, <2>2, <2>3, <3>1, <3>2, Disjoint, DisjointNext DEF Apart, Headroom
  <2> QED BY <2>4, <2>5
<1>8. CASE Unlock
  BY <1>8, HeadroomCleared DEF Unlock, Clear
<1>9. CASE ExpireCounter
  BY <1>9, HeadroomCleared DEF ExpireCounter
<1>10. CASE ExpireLock
  <2>1. fails' = fails /\ Guessing' = Guessing
    BY <1>10, <1>c DEF ExpireLock
  <2>2. CASE fails >= MaxAttempts
    <3>1. Base' = Base + Cardinality(Caller)
      BY <1>10, <2>2, BaseGrows DEF ExpireLock
    <3> QED BY <1>a, <2>1, <3>1, Disjoint, DisjointNext DEF Apart, Headroom
  <2>3. CASE ~(fails >= MaxAttempts)
    BY <1>10, <1>a, <1>b, <2>1, <2>3 DEF Headroom, ExpireLock
  <2> QED BY <2>2, <2>3
<1>11. CASE UNCHANGED lockoutVars
  BY <1>11, <1>b, <1>c DEF Headroom
<1> QED BY <1>1, <1>2, <1>3, <1>4, <1>5, <1>6, <1>7, <1>8, <1>9, <1>10, <1>11 DEF LockoutNext

(* GuessesStayBounded: however many attempts read the lock before it is     *)
(* set, an identifier gets no more wrong passwords than the threshold, the  *)
(* overlap and the locks it lost allow (registerFailedCredentials).         *)
THEOREM GuessesStayBounded == LockoutSpec => []GuessesBounded
<1>1. LockoutInit => LockoutTypeOK
  <2>1. LockoutInit => Counts
    BY DEF LockoutInit, Counts, Resting, AttemptState
  <2>2. LockoutInit => Flags
    BY DEF LockoutInit, Flags
  <2> QED BY <2>1, <2>2 DEF LockoutTypeOK, Counts, Flags
<1>2. LockoutInit => Headroom
  <2> SUFFICES ASSUME LockoutInit PROVE Headroom
    OBVIOUS
  <2>1. LockoutTypeOK
    BY <1>1
  <2>2. fails = 0 /\ Base \in Nat
    BY <2>1, BaseType DEF LockoutInit
  <2> QED BY <2>1, <2>2, Disjoint DEF Apart, Headroom
<1>3. LockoutTypeOK /\ Headroom => GuessesBounded
  <2> SUFFICES ASSUME LockoutTypeOK, Headroom PROVE GuessesBounded
    OBVIOUS
  <2> DEFINE n == Cardinality(Caller)
  <2>1. n \in Nat /\ slips \in Nat /\ n * slips \in Nat /\ fails \in Nat
    BY Disjoint DEF Apart, LockoutTypeOK
  <2>2. n * (1 + slips) = n * slips + n
    BY <2>1
  <2>3. fails <= (MaxAttempts - 1) + n * slips + n
    BY <2>1, Disjoint DEF Apart, Headroom, Base
  <2> HIDE DEF n
  <2> QED BY <2>1, <2>2, <2>3 DEF GuessesBounded, n
<1> QED BY <1>2, <1>3, HeadroomStep, LockoutTypeCorrect, PTL DEF LockoutSpec

=============================================================================
