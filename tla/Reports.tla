------------------------------- MODULE Reports -------------------------------
(***************************************************************************)
(* Reports and the sanctions they end in                                   *)
(* (src/src/reports/reports.service.ts, and the administration of accounts *)
(* in src/src/users/users.service.ts).                                     *)
(*                                                                         *)
(* A moderator settles a report in a chain of awaits without transaction:  *)
(* the account is sanctioned first, then the report updated, then its      *)
(* reporter and the account told.  Notifications are kept as far as the    *)
(* reporter has heard of the report; NotificationFeed has the rest.        *)
(***************************************************************************)
EXTENDS Naturals, FiniteSets

CONSTANTS User, Admin, Content,
          Owner,      \* of each content: the account of its artist
          Report,     \* the reports that may be filed: who reports what
          NoOne,
          Request,    \* requests in flight at the same time
          MaxReports, \* bound: reports on record or about to be
          MaxCrashes  \* bound: requests that die

ASSUME ReportsAssumption ==
  /\ Admin \subseteq User /\ Content \cap User = {} /\ NoOne \notin User
  /\ Owner \in [Content -> User]
  /\ Report \subseteq [by: User, target: Content \cup User]
  /\ MaxReports \in Nat /\ MaxCrashes \in Nat

VARIABLES
  status,   \* of each users row, "deleted" when it is gone
  content,  \* tracks, albums and artists that exist
  report,   \* the status of each reports row, "none" without one
  request,
  crashes,
  \* History, read by the properties alone:
  heard,    \* the status of a report its reporter was last told
  mixed,    \* reports two updates overlapped on, or whose notification failed
  verdict,  \* the sanction a report was last updated with
  done      \* sanctions that were written, and the reports they were for

rows    == <<status, content, report>>
history == <<heard, mixed, verdict, done>>
vars    == <<rows, request, crashes, history>>

(* The CONTENT_REMOVED of a report removes nothing: it is a WARNING here.   *)
AccountSanction == {"RESTRICTED", "BANNED"}
Sanction        == {"WARNING"} \cup AccountSanction
UserStatus      == {"ACTIVE"} \cup AccountSanction
ReportStatus    == {"OPEN", "REVIEWING", "RESOLVED", "DISMISSED"}

(* A request, by the await it stands at.  `was` is the status a settlement  *)
(* read, `to` the one it writes; `account` is who was found responsible.    *)
Idle     == [pc |-> "idle"]
Filing   == [pc: {"assertNotSelf", "create"}, report: Report]
Settling == [pc: {"resolveOwner", "findUser", "sanction", "update", "notify", "tell"},
             report: Report, was: ReportStatus, to: ReportStatus,
             sanction: Sanction \cup {"none"}, account: User \cup {NoOne}]
RequestState == {Idle} \cup Filing \cup Settling

At(r, pc)   == request[r].pc = pc
Goto(r, pc) == request' = [request EXCEPT ![r].pc = pc]
Answered(r) == request' = [request EXCEPT ![r] = Idle]
Begin(r, q) == At(r, "idle") /\ request' = [request EXCEPT ![r] = q]

Exists(x) == x \in content \/ (x \in User /\ status[x] # "deleted")
Settles(r, id) == request[r].pc \notin {"idle", "assertNotSelf", "create"} /\ request[r].report = id

(* resolveReportedUserId: a user is looked for in vain, or not at all; the  *)
(* owner of a content that is gone is nobody.                               *)
Accused(target) ==
  IF target \in User THEN target ELSE IF target \in content THEN Owner[target] ELSE NoOne

Init ==
  /\ status = [u \in User |-> "ACTIVE"] /\ content = Content
  /\ report = [id \in Report |-> "none"]
  /\ request = [r \in Request |-> Idle] /\ crashes = 0
  /\ heard = [id \in Report |-> "OPEN"] /\ mixed = {}
  /\ verdict = [id \in Report |-> "none"] /\ done = {}

-----------------------------------------------------------------------------
Room(id) ==
  LET filing == {r \in Request : request[r].pc \in {"assertNotSelf", "create"}}
  IN  Cardinality({i \in Report : report[i] # "none"} \cup {request[r].report : r \in filing}
                  \cup {id}) <= MaxReports

(* create: the target exists, is not the reporter's own, and has no report  *)
(* of theirs yet.                                                           *)
FileReport(r, id) ==
  /\ Room(id) /\ Exists(id.target) /\ status[id.by] # "deleted"
  /\ Begin(r, [pc |-> "assertNotSelf", report |-> id])
  /\ UNCHANGED <<rows, crashes, history>>

AssertNotSelf(r) ==
  /\ At(r, "assertNotSelf")
  /\ LET id == request[r].report
     IN  IF Accused(id.target) = id.by THEN Answered(r) ELSE Goto(r, "create")
  /\ UNCHANGED <<rows, crashes, history>>

(* A second report breaks a unique key, one of a deleted reporter a foreign *)
(* key.                                                                     *)
CreateReport(r) ==
  /\ At(r, "create")
  /\ LET id == request[r].report
     IN  IF report[id] = "none" /\ status[id.by] # "deleted"
         THEN /\ report' = [report EXCEPT ![id] = "OPEN"]
              /\ heard' = [heard EXCEPT ![id] = "OPEN"]
         ELSE UNCHANGED <<report, heard>>
  /\ Answered(r)
  /\ UNCHANGED <<status, content, crashes, mixed, verdict, done>>

-----------------------------------------------------------------------------
(* updateStatus, by a moderator.  Only RESOLVED carries a sanction.         *)
UpdateStatus(r, id, to, sanction) ==
  /\ report[id] # "none"
  /\ (to = "RESOLVED") = (sanction # "none")
  /\ Begin(r, [pc |-> "resolveOwner", report |-> id, was |-> report[id],
               to |-> to, sanction |-> sanction, account |-> NoOne])
  /\ mixed' = IF \E o \in Request : Settles(o, id) THEN mixed \cup {id} ELSE mixed
  /\ UNCHANGED <<rows, crashes, heard, verdict, done>>

(* Mutant: a warning is written to the account like a sanction.             *)
ResolveOwnerWarned(r) ==
  /\ At(r, "resolveOwner")
  /\ LET q == request[r]
         account == Accused(q.report.target)
         pc == IF account # NoOne /\ q.sanction # "none" THEN "findUser" ELSE "update"
     IN  request' = [request EXCEPT ![r] = [q EXCEPT !.account = account, !.pc = pc]]
  /\ UNCHANGED <<rows, crashes, history>>

(* Mutant: only a ban is written to the account.                            *)
ResolveOwnerBanned(r) ==
  /\ At(r, "resolveOwner")
  /\ LET q == request[r]
         account == Accused(q.report.target)
         pc == IF account # NoOne /\ q.sanction = "BANNED" THEN "findUser" ELSE "update"
     IN  request' = [request EXCEPT ![r] = [q EXCEPT !.account = account, !.pc = pc]]
  /\ UNCHANGED <<rows, crashes, history>>

ResolveOwner(r) ==
  /\ At(r, "resolveOwner")
  /\ LET q == request[r]
         account == Accused(q.report.target)
         pc == IF account # NoOne /\ q.sanction \in AccountSanction THEN "findUser" ELSE "update"
     IN  request' = [request EXCEPT ![r] = [q EXCEPT !.account = account, !.pc = pc]]
  /\ UNCHANGED <<rows, crashes, history>>

(* applyAccountSanction: an account that is gone is left alone, an          *)
(* administrator's refuses.                                                 *)
FindUser(r) ==
  /\ At(r, "findUser")
  /\ LET account == request[r].account
     IN  IF account \in Admin
         THEN Answered(r)
         ELSE Goto(r, IF status[account] = "deleted" THEN "update" ELSE "sanction")
  /\ UNCHANGED <<rows, crashes, history>>

(* The update fails on an account deleted since.                            *)
ApplySanction(r) ==
  /\ At(r, "sanction")
  /\ LET q == request[r]
     IN  IF status[q.account] = "deleted"
         THEN Answered(r) /\ UNCHANGED <<status, done>>
         ELSE /\ status' = [status EXCEPT ![q.account] = q.sanction]
              /\ done' = done \cup {<<q.sanction, q.report>>}
              /\ Goto(r, "update")
  /\ UNCHANGED <<content, report, crashes, heard, mixed, verdict>>

(* Mutant: notified is what happens to an OPEN report.                      *)
UpdateReportOpen(r) ==
  /\ At(r, "update")
  /\ LET q == request[r]
     IN  IF report[q.report] = "none"
         THEN Answered(r) /\ UNCHANGED <<report, verdict>>
         ELSE /\ report' = [report EXCEPT ![q.report] = q.to]
              /\ verdict' = [verdict EXCEPT ![q.report] = q.sanction]
              /\ IF q.was = "OPEN" /\ q.to # "OPEN" THEN Goto(r, "notify") ELSE Answered(r)
  /\ UNCHANGED <<status, content, crashes, heard, mixed, done>>

(* Notified is a change of the status as it was read, and never OPEN.       *)
UpdateReport(r) ==
  /\ At(r, "update")
  /\ LET q == request[r]
     IN  IF report[q.report] = "none"
         THEN Answered(r) /\ UNCHANGED <<report, verdict>>
         ELSE /\ report' = [report EXCEPT ![q.report] = q.to]
              /\ verdict' = [verdict EXCEPT ![q.report] = q.sanction]
              /\ IF q.was # q.to /\ q.to # "OPEN" THEN Goto(r, "notify") ELSE Answered(r)
  /\ UNCHANGED <<status, content, crashes, heard, mixed, done>>

(* buildTargetPayload: an account is told of a dismissal, and of a sanction. *)
TellsAccount(q) == q.to = "DISMISSED" \/ (q.to = "RESOLVED" /\ q.sanction # "none")

(* notifyReportStatusUpdate: the reporter first, then the account, which    *)
(* does not hear of a report under examination.  A reporter deleted since   *)
(* makes it fail, and the failure is swallowed.                             *)
NotifyReporter(r) ==
  /\ At(r, "notify")
  /\ LET q == request[r]
     IN  IF status[q.report.by] = "deleted"
         THEN Answered(r) /\ UNCHANGED heard
         ELSE /\ heard' = [heard EXCEPT ![q.report] = q.to]
              /\ IF q.account \in {NoOne, q.report.by} \/ q.to = "REVIEWING" \/ ~TellsAccount(q)
                 THEN Answered(r) ELSE Goto(r, "tell")
  /\ UNCHANGED <<rows, crashes, mixed, verdict, done>>

(* The account is told of the sanction, or that there is none.              *)
TellAccount(r) ==
  /\ At(r, "tell")
  /\ Answered(r)
  /\ UNCHANGED <<rows, crashes, history>>

-----------------------------------------------------------------------------
(* updateForAdmin, and deleteForAdmin: what a users row owns goes with it.  *)
(* A content review sanctions accounts as well, administrators excepted.    *)
SetStatus(u, new) ==
  /\ u \in User \ Admin /\ status[u] # "deleted"
  /\ status' = [status EXCEPT ![u] = new]
  /\ UNCHANGED <<content, report, request, crashes, history>>

DeleteAccount(u) ==
  /\ u \in User \ Admin /\ status[u] # "deleted"
  /\ status' = [status EXCEPT ![u] = "deleted"]
  /\ content' = {c \in content : Owner[c] # u}
  /\ report' = [id \in Report |-> IF id.by = u THEN "none" ELSE report[id]]
  /\ UNCHANGED <<request, crashes, history>>

(* remove of tracks.service.ts and albums.service.ts.  An artist goes with  *)
(* the account alone; the model lets one go like a track.                   *)
RemoveContent(c) ==
  /\ c \in content
  /\ content' = content \ {c}
  /\ UNCHANGED <<status, report, request, crashes, history>>

Crash(r) ==
  /\ ~At(r, "idle") /\ crashes < MaxCrashes
  /\ crashes' = crashes + 1
  /\ Answered(r)
  /\ mixed' = IF At(r, "notify") THEN mixed \cup {request[r].report} ELSE mixed
  /\ UNCHANGED <<rows, heard, verdict, done>>

Step(r) ==
  \/ AssertNotSelf(r) \/ CreateReport(r)
  \/ ResolveOwner(r) \/ FindUser(r) \/ ApplySanction(r) \/ UpdateReport(r)
  \/ NotifyReporter(r) \/ TellAccount(r)

Next ==
  \/ \E r \in Request :
       \/ Step(r) \/ Crash(r)
       \/ \E id \in Report :
            \/ FileReport(r, id)
            \/ \E to \in ReportStatus, s \in Sanction \cup {"none"} : UpdateStatus(r, id, to, s)
  \/ \E u \in User : DeleteAccount(u) \/ \E new \in UserStatus : SetStatus(u, new)
  \/ \E c \in Content : RemoveContent(c)

Spec == Init /\ [][Next]_vars

-----------------------------------------------------------------------------
TypeOK ==
  /\ status \in [User -> UserStatus \cup {"deleted"}]
  /\ content \subseteq Content
  /\ report \in [Report -> ReportStatus \cup {"none"}]
  /\ request \in [Request -> RequestState]
  /\ crashes \in 0 .. MaxCrashes
  /\ heard \in [Report -> ReportStatus] /\ mixed \subseteq Report
  /\ verdict \in [Report -> Sanction \cup {"none"}]
  /\ done \subseteq AccountSanction \X Report

(* AdministratorsSpared: no settlement takes an administrator off the       *)
(* platform, whoever owns the content by the time it is decided.            *)
AdministratorsSpared == \A a \in Admin : status[a] = "ACTIVE"

(* SanctionsAreTaken: a report is not RESOLVED by a sanction of an account  *)
(* before that sanction was written, unless the account, or the content     *)
(* that leads to it, was gone first; and the account is not told before.    *)
SanctionsAreTaken ==
  /\ \A id \in Report : report[id] = "RESOLVED" /\ verdict[id] \in AccountSanction =>
       \/ <<verdict[id], id>> \in done
       \/ Accused(id.target) = NoOne \/ status[Accused(id.target)] = "deleted"
  /\ \A r \in Request : At(r, "tell") /\ request[r].sanction \in AccountSanction =>
       <<request[r].sanction, request[r].report>> \in done \/ status[request[r].account] = "deleted"

(* ReporterKnows: once a report is settled, and no other update of it came  *)
(* in between, its reporter has heard of the status it has.                 *)
ReporterKnows ==
  \A id \in Report :
    report[id] \notin {"none", "OPEN"} /\ id \notin mixed /\ (\A r \in Request : ~Settles(r, id)) =>
      heard[id] = report[id]

=============================================================================
