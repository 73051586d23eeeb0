---------------------------- MODULE ReportsProofs ----------------------------
(***************************************************************************)
(* What the settlement of reports keeps for any users, contents, reports,  *)
(* moderators and failures.                                                *)
(***************************************************************************)
EXTENDS Reports, TLAPS

USE ReportsAssumption DEF ReportsAssumption, rows, history, vars, At

Await == {"resolveOwner", "findUser", "sanction", "update", "notify", "tell"}

LEMMA Shapes ==
  ASSUME TypeOK, NEW r \in Request
  PROVE  /\ request[r].pc \in Await => request[r] \in Settling
         /\ request[r].pc \in {"assertNotSelf", "create"} => request[r] \in Filing
         /\ request[r].pc \in Await \cup {"idle", "assertNotSelf", "create"}
<1>1. request[r] \in RequestState
  BY DEF TypeOK
<1> QED BY <1>1 DEF RequestState, Settling, Filing, Idle, Await

LEMMA Ends ==
  ASSUME TypeOK, NEW r \in Request, Answered(r)
  PROVE  /\ request' \in [Request -> RequestState]
         /\ request'[r].pc = "idle"
         /\ \A o \in Request \ {r} : request'[o] = request[o]
  BY DEF TypeOK, Answered, RequestState, Idle

LEMMA Begins ==
  ASSUME TypeOK, NEW r \in Request, NEW q \in RequestState, Begin(r, q)
  PROVE  /\ request' \in [Request -> RequestState]
         /\ request[r].pc = "idle" /\ request'[r] = q
         /\ \A o \in Request \ {r} : request'[o] = request[o]
  BY DEF TypeOK, Begin

(* A settlement that goes on takes its report and its verdict along.        *)
LEMMA GoesOn ==
  ASSUME TypeOK, NEW r \in Request, request[r] \in Settling, NEW pc \in Await, Goto(r, pc)
  PROVE  /\ request' \in [Request -> RequestState]
         /\ request'[r] \in Settling
         /\ request'[r] = [request[r] EXCEPT !.pc = pc]
         /\ \A o \in Request \ {r} : request'[o] = request[o]
<1> DEFINE q == [request[r] EXCEPT !.pc = pc]
<1>1. q \in Settling
  BY DEF Settling, Await
<1>2. request' = [request EXCEPT ![r] = q]
  BY DEF Goto
<1> HIDE DEF q
<1> QED BY <1>1, <1>2 DEF TypeOK, RequestState, q

LEMMA OwnerFound ==
  ASSUME TypeOK, NEW r \in Request, ResolveOwner(r)
  PROVE  LET account == Accused(request[r].report.target)
             pc == IF account # NoOne /\ request[r].sanction \in AccountSanction
                   THEN "findUser" ELSE "update"
             q  == [request[r] EXCEPT !.account = account, !.pc = pc]
         IN  /\ account \in User \cup {NoOne}
             /\ request' \in [Request -> RequestState]
             /\ request[r] \in Settling /\ request'[r] \in Settling /\ request'[r] = q
             /\ \A o \in Request \ {r} : request'[o] = request[o]
<1> DEFINE account == Accused(request[r].report.target)
           pc == IF account # NoOne /\ request[r].sanction \in AccountSanction
                 THEN "findUser" ELSE "update"
           q  == [request[r] EXCEPT !.account = account, !.pc = pc]
<1>1. request[r] \in Settling
  BY Shapes DEF ResolveOwner, Await
<1>2. account \in User \cup {NoOne}
  BY <1>1 DEF Accused, TypeOK, Settling
<1>3. pc \in {"findUser", "update"}
  OBVIOUS
<1> HIDE DEF account, pc
<1>4. q \in Settling
  BY <1>1, <1>2, <1>3 DEF Settling
<1>5. request' = [request EXCEPT ![r] = q]
  BY DEF ResolveOwner, q, pc, account
<1> HIDE DEF q
<1>6. /\ request' \in [Request -> RequestState] /\ request'[r] = q
      /\ \A o \in Request \ {r} : request'[o] = request[o]
  BY <1>4, <1>5 DEF TypeOK, RequestState
<1> QED BY <1>1, <1>2, <1>4, <1>6 DEF q, pc, account

-----------------------------------------------------------------------------
(* Who stands before a sanction, and whom it may concern.                   *)
Stands(q) ==
  /\ q.pc \in {"findUser", "sanction"} => q.account # NoOne /\ q.sanction \in AccountSanction
  /\ q.pc = "sanction" => q.account \notin Admin
  /\ q.pc = "tell" => q.account # NoOne

Standing == \A r \in Request : Stands(request[r])

LEMMA TypeInit == Init => TypeOK
<1> SUFFICES ASSUME Init PROVE TypeOK
  OBVIOUS
<1>1. request \in [Request -> RequestState]
  BY DEF Init, RequestState
<1>2. /\ status \in [User -> UserStatus \cup {"deleted"}] /\ content \subseteq Content
      /\ report \in [Report -> ReportStatus \cup {"none"}]
      /\ heard \in [Report -> ReportStatus] /\ mixed \subseteq Report
      /\ verdict \in [Report -> Sanction \cup {"none"}] /\ done \subseteq AccountSanction \X Report
  BY DEF Init, UserStatus, ReportStatus
<1>3. crashes \in 0 .. MaxCrashes
  BY DEF Init
<1> QED BY <1>1, <1>2, <1>3 DEF TypeOK

LEMMA TypeStep == TypeOK /\ Standing /\ [Next]_vars => TypeOK'
<1> SUFFICES ASSUME TypeOK, Standing, [Next]_vars PROVE TypeOK'
  OBVIOUS
<1>1. ASSUME NEW r \in Request, NEW id \in Report, FileReport(r, id) PROVE TypeOK'
  <2>1. [pc |-> "assertNotSelf", report |-> id] \in RequestState
    BY DEF RequestState, Filing
  <2>2. request' \in [Request -> RequestState]
    BY <1>1, <2>1, Begins DEF FileReport
  <2> QED BY <1>1, <2>2 DEF FileReport, TypeOK
<1>2. ASSUME NEW r \in Request, AssertNotSelf(r) PROVE TypeOK'
  <2>1. request[r] \in Filing
    BY <1>2, Shapes DEF AssertNotSelf
  <2>2. [request[r] EXCEPT !.pc = "create"] \in RequestState
    BY <2>1 DEF Filing, RequestState
  <2>3. request' \in [Request -> RequestState]
    BY <1>2, <2>2, Ends DEF AssertNotSelf, Goto, TypeOK
  <2> QED BY <1>2, <2>3 DEF AssertNotSelf, TypeOK
<1>3. ASSUME NEW r \in Request, CreateReport(r) PROVE TypeOK'
  <2>1. request' \in [Request -> RequestState] /\ request[r] \in Filing
    BY <1>3, Ends, Shapes DEF CreateReport
  <2>2. report' \in [Report -> ReportStatus \cup {"none"}] /\ heard' \in [Report -> ReportStatus]
    BY <1>3, <2>1 DEF CreateReport, TypeOK, Filing, ReportStatus
  <2> QED BY <1>3, <2>1, <2>2 DEF CreateReport, TypeOK
<1>4. ASSUME NEW r \in Request, NEW id \in Report, NEW to \in ReportStatus,
             NEW s \in Sanction \cup {"none"}, UpdateStatus(r, id, to, s)
      PROVE  TypeOK'
  <2> DEFINE q == [pc |-> "resolveOwner", report |-> id, was |-> report[id], to |-> to,
                   sanction |-> s, account |-> NoOne]
  <2>1. report[id] \in ReportStatus
    BY <1>4 DEF UpdateStatus, TypeOK
  <2>2. q \in RequestState
    BY <2>1 DEF RequestState, Settling
  <2>3. request' \in [Request -> RequestState]
    BY <1>4, <2>2, Begins DEF UpdateStatus
  <2>4. mixed' \subseteq Report
    BY <1>4 DEF UpdateStatus, TypeOK
  <2> QED BY <1>4, <2>3, <2>4 DEF UpdateStatus, TypeOK
<1>5. ASSUME NEW r \in Request, ResolveOwner(r) PROVE TypeOK'
  <2>1. request' \in [Request -> RequestState]
    BY <1>5, OwnerFound
  <2> QED BY <1>5, <2>1 DEF ResolveOwner, TypeOK
<1>6. ASSUME NEW r \in Request, FindUser(r) PROVE TypeOK'
  <2>1. request[r] \in Settling
    BY <1>6, Shapes DEF FindUser, Await
  <2>2. request' \in [Request -> RequestState]
    BY <1>6, <2>1, GoesOn, Ends DEF FindUser, Await
  <2> QED BY <1>6, <2>2 DEF FindUser, TypeOK
<1>7. ASSUME NEW r \in Request, ApplySanction(r) PROVE TypeOK'
  <2>1. request[r] \in Settling /\ request[r].sanction \in AccountSanction
    BY <1>7, Shapes DEF ApplySanction, Await, Standing, Stands
  <2>2. request[r].report \in Report
    BY <2>1 DEF Settling
  <2>3. request' \in [Request -> RequestState]
    BY <1>7, <2>1, GoesOn, Ends DEF ApplySanction, Await
  <2>4. status' \in [User -> UserStatus \cup {"deleted"}]
    BY <1>7, <2>1 DEF ApplySanction, TypeOK, UserStatus
  <2>5. done' \subseteq AccountSanction \X Report
    BY <1>7, <2>1, <2>2 DEF ApplySanction, TypeOK
  <2> QED BY <1>7, <2>3, <2>4, <2>5 DEF ApplySanction, TypeOK
<1>8. ASSUME NEW r \in Request, UpdateReport(r) PROVE TypeOK'
  <2>1. request[r] \in Settling
    BY <1>8, Shapes DEF UpdateReport, Await
  <2>2. request' \in [Request -> RequestState]
    BY <1>8, <2>1, GoesOn, Ends DEF UpdateReport, Await
  <2>3. request[r].to \in ReportStatus /\ request[r].sanction \in Sanction \cup {"none"}
    BY <2>1 DEF Settling
  <2>4. /\ report' \in [Report -> ReportStatus \cup {"none"}]
        /\ verdict' \in [Report -> Sanction \cup {"none"}]
    BY <1>8, <2>3 DEF UpdateReport, TypeOK
  <2> QED BY <1>8, <2>2, <2>4 DEF UpdateReport, TypeOK
<1>9. ASSUME NEW r \in Request, NotifyReporter(r) PROVE TypeOK'
  <2>1. request[r] \in Settling
    BY <1>9, Shapes DEF NotifyReporter, Await
  <2>2. request' \in [Request -> RequestState]
    BY <1>9, <2>1, GoesOn, Ends DEF NotifyReporter, Await
  <2>3. heard' \in [Report -> ReportStatus]
    BY <1>9, <2>1 DEF NotifyReporter, TypeOK, Settling
  <2> QED BY <1>9, <2>2, <2>3 DEF NotifyReporter, TypeOK
<1>10. ASSUME NEW r \in Request, TellAccount(r) PROVE TypeOK'
  <2>1. request' \in [Request -> RequestState]
    BY <1>10, Ends DEF TellAccount
  <2> QED BY <1>10, <2>1 DEF TellAccount, TypeOK
<1>11. ASSUME NEW r \in Request, Crash(r) PROVE TypeOK'
  <2>1. request' \in [Request -> RequestState]
    BY <1>11, Ends DEF Crash
  <2>2. mixed' \subseteq Report
    BY <1>11, Shapes DEF Crash, TypeOK, Settling, Await
  <2>3. crashes' \in 0 .. MaxCrashes
    BY <1>11 DEF Crash, TypeOK
  <2> QED BY <1>11, <2>1, <2>2, <2>3 DEF Crash, TypeOK
<1>12. ASSUME NEW u \in User, NEW new \in UserStatus, SetStatus(u, new) PROVE TypeOK'
  BY <1>12 DEF SetStatus, TypeOK
<1>13. ASSUME NEW u \in User, DeleteAccount(u) PROVE TypeOK'
  <2>1. content' \subseteq Content /\ report' \in [Report -> ReportStatus \cup {"none"}]
    BY <1>13 DEF DeleteAccount, TypeOK
  <2> QED BY <1>13, <2>1 DEF DeleteAccount, TypeOK
<1>14. ASSUME NEW c \in Content, RemoveContent(c) PROVE TypeOK'
  BY <1>14 DEF RemoveContent, TypeOK
<1>15. CASE UNCHANGED vars
  BY <1>15 DEF TypeOK
<1> QED BY <1>1, <1>2, <1>3, <1>4, <1>5, <1>6, <1>7, <1>8, <1>9, <1>10, <1>11, <1>12, <1>13,
           <1>14, <1>15 DEF Next, Step

LEMMA StandingInit == Init => Standing
  BY DEF Init, Standing, Stands, Idle

LEMMA StandingStep == TypeOK /\ Standing /\ [Next]_vars => Standing'
<1> SUFFICES ASSUME TypeOK, Standing, [Next]_vars PROVE Standing'
  OBVIOUS
(* A request alone moves, and stands where it arrives.                      *)
<1>h. ASSUME NEW r \in Request, Stands(request'[r]),
             \A o \in Request \ {r} : request'[o] = request[o]
      PROVE  Standing'
  BY <1>h DEF Standing, Stands
<1>i. ASSUME NEW r \in Request, Answered(r) PROVE Standing'
  BY <1>i, <1>h, Ends DEF Stands
<1>1. ASSUME NEW r \in Request, NEW id \in Report, FileReport(r, id) PROVE Standing'
  <2>1. [pc |-> "assertNotSelf", report |-> id] \in RequestState
    BY DEF RequestState, Filing
  <2> QED BY <1>1, <1>h, <2>1, Begins DEF FileReport, Stands
<1>2. ASSUME NEW r \in Request, AssertNotSelf(r) PROVE Standing'
  <2>1. CASE Goto(r, "create")
    <3>1. request[r] \in Filing
      BY <1>2, Shapes DEF AssertNotSelf
    <3>2. request'[r].pc = "create" /\ \A o \in Request \ {r} : request'[o] = request[o]
      BY <2>1, <3>1 DEF Goto, TypeOK, Filing
    <3> QED BY <1>h, <3>2 DEF Stands
  <2> QED BY <1>2, <1>i, <2>1 DEF AssertNotSelf
<1>3. ASSUME NEW r \in Request, NEW id \in Report, NEW to \in ReportStatus,
             NEW s \in Sanction \cup {"none"}, UpdateStatus(r, id, to, s)
      PROVE  Standing'
  <2> DEFINE q == [pc |-> "resolveOwner", report |-> id, was |-> report[id], to |-> to,
                   sanction |-> s, account |-> NoOne]
  <2>1. q \in RequestState
    BY <1>3 DEF UpdateStatus, TypeOK, RequestState, Settling
  <2>2. Begin(r, q) /\ Stands(q)
    BY <1>3 DEF UpdateStatus, Stands
  <2> HIDE DEF q
  <2> QED BY <1>h, <2>1, <2>2, Begins
<1>4. ASSUME NEW r \in Request, ResolveOwner(r) PROVE Standing'
  <2> DEFINE account == Accused(request[r].report.target)
             pc == IF account # NoOne /\ request[r].sanction \in AccountSanction
                   THEN "findUser" ELSE "update"
  <2>1. /\ request[r] \in Settling /\ request'[r] = [request[r] EXCEPT !.account = account, !.pc = pc]
        /\ \A o \in Request \ {r} : request'[o] = request[o]
    BY <1>4, OwnerFound
  <2> HIDE DEF account
  <2>2. request'[r].pc = pc /\ request'[r].account = account /\ request'[r].sanction = request[r].sanction
    BY <2>1 DEF Settling
  <2> QED BY <1>h, <2>1, <2>2 DEF Stands
<1>5. ASSUME NEW r \in Request, NEW pc \in {"sanction", "update", "notify", "tell"}, Goto(r, pc),
             request[r] \in Settling,
             pc = "sanction" => request[r].pc = "findUser" /\ request[r].account \notin Admin,
             pc = "tell" => request[r].account # NoOne
      PROVE  Standing'
  <2>1. /\ request'[r] = [request[r] EXCEPT !.pc = pc]
        /\ \A o \in Request \ {r} : request'[o] = request[o]
    BY <1>5, GoesOn DEF Await
  <2>2. /\ request'[r].pc = pc /\ request'[r].account = request[r].account
        /\ request'[r].sanction = request[r].sanction
    BY <1>5, <2>1 DEF Settling
  <2>3. Stands(request[r])
    BY DEF Standing
  <2> QED BY <1>5, <1>h, <2>1, <2>2, <2>3 DEF Stands
<1>6. ASSUME NEW r \in Request, FindUser(r) PROVE Standing'
  <2>1. request[r] \in Settling
    BY <1>6, Shapes DEF FindUser, Await
  <2> QED BY <1>5, <1>6, <1>i, <2>1 DEF FindUser
<1>7. ASSUME NEW r \in Request, ApplySanction(r) \/ UpdateReport(r) PROVE Standing'
  <2>1. request[r] \in Settling
    BY <1>7, Shapes DEF ApplySanction, UpdateReport, Await
  <2> QED BY <1>5, <1>7, <1>i, <2>1 DEF ApplySanction, UpdateReport
<1>8. ASSUME NEW r \in Request, NotifyReporter(r) PROVE Standing'
  <2>1. request[r] \in Settling
    BY <1>8, Shapes DEF NotifyReporter, Await
  <2> QED BY <1>5, <1>8, <1>i, <2>1 DEF NotifyReporter
<1>9. ASSUME NEW r \in Request, CreateReport(r) \/ TellAccount(r) \/ Crash(r) PROVE Standing'
  BY <1>9, <1>i DEF CreateReport, TellAccount, Crash
<1>10. ASSUME UNCHANGED request PROVE Standing'
  BY <1>10 DEF Standing
<1> QED BY <1>1, <1>2, <1>3, <1>4, <1>6, <1>7, <1>8, <1>9, <1>10
        DEF Next, Step, SetStatus, DeleteAccount, RemoveContent

(* TypeCorrect: the rows and the requests are well-formed (ReportsService). *)
THEOREM TypeCorrect == Spec => []TypeOK
  BY TypeInit, TypeStep, StandingInit, StandingStep, PTL DEF Spec

LEMMA StandingHolds == Spec => []Standing
  BY TypeInit, TypeStep, StandingInit, StandingStep, PTL DEF Spec

-----------------------------------------------------------------------------
LEMMA SparedStep == TypeOK /\ Standing /\ AdministratorsSpared /\ [Next]_vars => AdministratorsSpared'
<1> SUFFICES ASSUME TypeOK, Standing, AdministratorsSpared, [Next]_vars PROVE AdministratorsSpared'
  OBVIOUS
<1>1. ASSUME UNCHANGED status PROVE AdministratorsSpared'
  BY <1>1 DEF AdministratorsSpared
<1>2. ASSUME NEW r \in Request, ApplySanction(r) PROVE AdministratorsSpared'
  <2>1. request[r].account \notin Admin
    BY <1>2 DEF ApplySanction, Standing, Stands
  <2> QED BY <1>2, <2>1 DEF ApplySanction, AdministratorsSpared, TypeOK
<1>3. ASSUME NEW u \in User, NEW new \in UserStatus, SetStatus(u, new) \/ DeleteAccount(u)
      PROVE  AdministratorsSpared'
  BY <1>3 DEF SetStatus, DeleteAccount, AdministratorsSpared, TypeOK
<1>4. ASSUME NEW u \in User, DeleteAccount(u) PROVE AdministratorsSpared'
  BY <1>4 DEF DeleteAccount, AdministratorsSpared, TypeOK
<1> QED BY <1>1, <1>2, <1>3, <1>4
        DEF Next, Step, FileReport, AssertNotSelf, CreateReport, UpdateStatus, ResolveOwner, FindUser,
            UpdateReport, NotifyReporter, TellAccount, RemoveContent, Crash

(* SparedForever: no administrator is ever sanctioned, whoever owns what    *)
(* was reported by the time it is decided (applyAccountSanction).           *)
THEOREM SparedForever == Spec => []AdministratorsSpared
<1>1. Init => AdministratorsSpared
  BY DEF Init, AdministratorsSpared
<1> QED BY <1>1, TypeCorrect, StandingHolds, SparedStep, PTL DEF Spec

-----------------------------------------------------------------------------
(* What a sanction of report id may have become.                            *)
Gone(u)      == u = NoOne \/ status[u] = "deleted"
Taken(s, id) == <<s, id>> \in done \/ Gone(Accused(id.target))

(* The account a settlement found is still the one accused, or nobody is;   *)
(* and what it decided was done before the report is updated.               *)
Acts(q) ==
  /\ q.pc \in Await \ {"resolveOwner"} =>
       Accused(q.report.target) = q.account \/ Accused(q.report.target) = NoOne
  /\ q.pc \in {"update", "notify", "tell"} /\ q.sanction \in AccountSanction =>
       <<q.sanction, q.report>> \in done \/ Gone(q.account)

Acting == \A r \in Request : Acts(request[r])

(* Accounts and contents only go, sanctions done stay done.                 *)
LEMMA Monotone ==
  ASSUME TypeOK, [Next]_vars
  PROVE  /\ done \subseteq done' /\ content' \subseteq content
         /\ \A u \in User : status[u] = "deleted" => status'[u] = "deleted"
<1>1. ASSUME NEW r \in Request, ApplySanction(r)
      PROVE  /\ done \subseteq done'
             /\ \A u \in User : status[u] = "deleted" => status'[u] = "deleted"
  BY <1>1 DEF ApplySanction, TypeOK
<1>2. ASSUME NEW v \in User, NEW new \in UserStatus, SetStatus(v, new)
      PROVE  \A u \in User : status[u] = "deleted" => status'[u] = "deleted"
  BY <1>2 DEF SetStatus, TypeOK
<1>3. ASSUME NEW v \in User, DeleteAccount(v)
      PROVE  /\ content' \subseteq content
             /\ \A u \in User : status[u] = "deleted" => status'[u] = "deleted"
  BY <1>3 DEF DeleteAccount, TypeOK
<1> QED BY <1>1, <1>2, <1>3
        DEF Next, Step, FileReport, AssertNotSelf, CreateReport, UpdateStatus, ResolveOwner, FindUser,
            ApplySanction, UpdateReport, NotifyReporter, TellAccount, SetStatus, DeleteAccount,
            RemoveContent, Crash

LEMMA AccusedType ==
  ASSUME TypeOK, NEW id \in Report
  PROVE  Accused(id.target) \in User \cup {NoOne}
  BY DEF Accused, TypeOK

LEMMA AccusedStays ==
  ASSUME TypeOK, NEW id \in Report, content' \subseteq content
  PROVE  /\ Accused(id.target)' = Accused(id.target) \/ Accused(id.target)' = NoOne
         /\ Accused(id.target) = NoOne => Accused(id.target)' = NoOne
  BY DEF Accused

LEMMA TakenStays ==
  ASSUME TypeOK, [Next]_vars, NEW s, NEW id \in Report, Taken(s, id)
  PROVE  Taken(s, id)'
  BY Monotone, AccusedStays, AccusedType DEF Taken, Gone

LEMMA ActsStay ==
  ASSUME TypeOK, [Next]_vars, NEW q \in Settling, Acts(q)
  PROVE  Acts(q)'
<1>1. q.report \in Report /\ q.account \in User \cup {NoOne}
  BY DEF Settling
<1>2. Gone(q.account) => Gone(q.account)'
  BY <1>1, Monotone DEF Gone
<1>3. /\ Accused(q.report.target)' = Accused(q.report.target) \/ Accused(q.report.target)' = NoOne
      /\ Accused(q.report.target) = NoOne => Accused(q.report.target)' = NoOne
  BY <1>1, AccusedStays, Monotone
<1> QED BY <1>2, <1>3, Monotone DEF Acts

LEMMA ActingInit == Init => Acting
  BY DEF Init, Acting, Acts, Idle, Await

LEMMA ActingStep == TypeOK /\ Standing /\ Acting /\ [Next]_vars => Acting'
<1> SUFFICES ASSUME TypeOK, Standing, Acting, [Next]_vars PROVE Acting'
  OBVIOUS
(* Whoever does not move.                                                   *)
<1>a. ASSUME NEW o \in Request, request'[o] = request[o] PROVE Acts(request[o])'
  <2>1. CASE request[o].pc \in Await
    <3>1. PICK q \in Settling : q = request[o]
      BY <2>1, Shapes
    <3>2. Acts(q)'
      BY <3>1, ActsStay DEF Acting
    <3> QED BY <1>a, <3>1, <3>2 DEF Acts, Gone, Accused
  <2>2. CASE request[o].pc \notin Await
    BY <1>a, <2>2 DEF Acts, Await
  <2> QED BY <2>1, <2>2
<1>h. ASSUME NEW r \in Request, Acts(request[r])',
             \A o \in Request \ {r} : request'[o] = request[o]
      PROVE  Acting'
  BY <1>h, <1>a DEF Acting
<1>i. ASSUME NEW r \in Request, request'[r].pc \notin Await \ {"resolveOwner"},
             \A o \in Request \ {r} : request'[o] = request[o]
      PROVE  Acting'
  BY <1>i, <1>h DEF Acts, Await
<1>j. ASSUME NEW r \in Request, Answered(r) PROVE Acting'
  BY <1>j, <1>i, Ends DEF Await
<1>1. ASSUME NEW r \in Request, NEW id \in Report, FileReport(r, id) PROVE Acting'
  <2>1. [pc |-> "assertNotSelf", report |-> id] \in RequestState
    BY DEF RequestState, Filing
  <2> QED BY <1>1, <1>i, <2>1, Begins DEF FileReport, Await
<1>2. ASSUME NEW r \in Request, AssertNotSelf(r) PROVE Acting'
  <2>1. CASE Goto(r, "create")
    <3>1. request[r] \in Filing
      BY <1>2, Shapes DEF AssertNotSelf
    <3>2. request'[r].pc = "create" /\ \A o \in Request \ {r} : request'[o] = request[o]
      BY <2>1, <3>1 DEF Goto, TypeOK, Filing
    <3> QED BY <1>i, <3>2 DEF Await
  <2> QED BY <1>2, <1>j, <2>1 DEF AssertNotSelf
<1>3. ASSUME NEW r \in Request, NEW id \in Report, NEW to \in ReportStatus,
             NEW s \in Sanction \cup {"none"}, UpdateStatus(r, id, to, s)
      PROVE  Acting'
  <2> DEFINE q == [pc |-> "resolveOwner", report |-> id, was |-> report[id], to |-> to,
                   sanction |-> s, account |-> NoOne]
  <2>1. q \in RequestState
    BY <1>3 DEF UpdateStatus, TypeOK, RequestState, Settling
  <2>2. Begin(r, q) /\ q.pc = "resolveOwner"
    BY <1>3 DEF UpdateStatus
  <2> HIDE DEF q
  <2> QED BY <1>i, <2>1, <2>2, Begins
<1>4. ASSUME NEW r \in Request, ResolveOwner(r) PROVE Acting'
  <2> DEFINE account == Accused(request[r].report.target)
             pc == IF account # NoOne /\ request[r].sanction \in AccountSanction
                   THEN "findUser" ELSE "update"
  <2>1. /\ request[r] \in Settling /\ request'[r] = [request[r] EXCEPT !.account = account, !.pc = pc]
        /\ \A o \in Request \ {r} : request'[o] = request[o]
    BY <1>4, OwnerFound
  <2>2. Accused(request[r].report.target)' = account
    BY <1>4, <2>1 DEF ResolveOwner, Accused, Settling
  <2> HIDE DEF account
  <2>3. /\ request'[r].pc = pc /\ request'[r].account = account
        /\ request'[r].sanction = request[r].sanction /\ request'[r].report = request[r].report
    BY <2>1 DEF Settling
  <2>4. Accused(request[r].report.target)' = request'[r].account
    BY <2>2, <2>3
  <2>5. Acts(request[r])'
    BY <2>3, <2>4 DEF Acts, Gone
  <2> QED BY <1>h, <2>1, <2>5
(* A settlement that goes on, its sanction done or its account gone.        *)
<1>5. ASSUME NEW r \in Request, NEW pc \in Await, Goto(r, pc), request[r].pc \in Await \ {"resolveOwner"},
             pc \in {"update", "notify", "tell"} /\ request[r].sanction \in AccountSanction =>
               \/ <<request[r].sanction, request[r].report>> \in done'
               \/ Gone(request[r].account)
      PROVE  Acting'
  <2>1. PICK q \in Settling : q = request[r]
    BY <1>5, Shapes
  <2>2. /\ request'[r] = [q EXCEPT !.pc = pc]
        /\ \A o \in Request \ {r} : request'[o] = request[o]
    BY <1>5, <2>1, GoesOn
  <2> DEFINE p == [q EXCEPT !.pc = pc]
  <2>3. p \in Settling /\ p.pc = pc /\ p.report = q.report /\ p.account = q.account /\ p.sanction = q.sanction
    BY DEF Settling, Await
  <2>4. /\ Accused(q.report.target)' = Accused(q.report.target) \/ Accused(q.report.target)' = NoOne
        /\ Accused(q.report.target) = NoOne => Accused(q.report.target)' = NoOne
    BY <2>1, AccusedStays, Monotone DEF Settling
  <2>5. Gone(q.account) => Gone(q.account)'
    BY <2>1, Monotone DEF Gone, Settling
  <2>6. Accused(q.report.target) = q.account \/ Accused(q.report.target) = NoOne
    BY <1>5, <2>1 DEF Acting, Acts
  <2> HIDE DEF p
  <2>7. Acts(p)'
    BY <1>5, <2>1, <2>3, <2>4, <2>5, <2>6 DEF Acts
  <2>8. request'[r] = p
    BY <2>2 DEF p
  <2>9. Acts(request[r])'
    BY <2>7, <2>8 DEF Acts, Gone, Accused
  <2> QED BY <1>h, <2>2, <2>9
<1>6. ASSUME NEW r \in Request, FindUser(r) PROVE Acting'
  <2>1. request[r].pc \in Await \ {"resolveOwner"}
    BY <1>6 DEF FindUser, Await
  <2> QED BY <1>5, <1>6, <1>j, <2>1 DEF FindUser, Gone, Await
<1>7. ASSUME NEW r \in Request, ApplySanction(r) PROVE Acting'
  <2>1. request[r].pc \in Await \ {"resolveOwner"}
    BY <1>7 DEF ApplySanction, Await
  <2> QED BY <1>5, <1>7, <1>j, <2>1 DEF ApplySanction, Await
<1>8. ASSUME NEW r \in Request, UpdateReport(r) \/ NotifyReporter(r) PROVE Acting'
  <2>1. /\ request[r].pc \in Await \ {"resolveOwner"} /\ done' = done
        /\ request[r].sanction \in AccountSanction =>
             <<request[r].sanction, request[r].report>> \in done \/ Gone(request[r].account)
    BY <1>8 DEF UpdateReport, NotifyReporter, Await, Acting, Acts, history
  <2> QED BY <1>5, <1>8, <1>j, <2>1 DEF UpdateReport, NotifyReporter, Await
<1>9. ASSUME NEW r \in Request, CreateReport(r) \/ TellAccount(r) \/ Crash(r) PROVE Acting'
  BY <1>9, <1>j DEF CreateReport, TellAccount, Crash
<1>10. ASSUME UNCHANGED request PROVE Acting'
  BY <1>10, <1>a DEF Acting
<1> QED BY <1>1, <1>2, <1>3, <1>4, <1>6, <1>7, <1>8, <1>9, <1>10
        DEF Next, Step, SetStatus, DeleteAccount, RemoveContent

(* The first part of SanctionsAreTaken; Acting and Standing have the second.*)
ResolvedIsTaken ==
  \A id \in Report : report[id] = "RESOLVED" /\ verdict[id] \in AccountSanction => Taken(verdict[id], id)

LEMMA TakenStep == TypeOK /\ Standing /\ Acting /\ ResolvedIsTaken /\ [Next]_vars => ResolvedIsTaken'
<1> SUFFICES ASSUME TypeOK, Standing, Acting, ResolvedIsTaken, [Next]_vars,
                    NEW id \in Report, report'[id] = "RESOLVED", verdict'[id] \in AccountSanction
             PROVE  Taken(verdict[id], id)'
  BY DEF ResolvedIsTaken
<1>1. ASSUME report'[id] = report[id], verdict'[id] = verdict[id] PROVE Taken(verdict[id], id)'
  <2>1. PICK s : s = verdict[id]
    OBVIOUS
  <2>2. Taken(s, id)'
    BY <1>1, <2>1, TakenStays DEF ResolvedIsTaken
  <2> QED BY <1>1, <2>1, <2>2 DEF Taken, Gone, Accused
<1>2. ASSUME NEW r \in Request, UpdateReport(r) PROVE Taken(verdict[id], id)'
  <2>1. CASE request[r].report # id
    BY <1>1, <1>2, <2>1 DEF UpdateReport, TypeOK
  <2>2. CASE report[request[r].report] = "none"
    BY <1>1, <1>2, <2>2 DEF UpdateReport
  <2>3. CASE request[r].report = id /\ report[id] # "none"
    <3>1. verdict'[id] = request[r].sanction
      BY <1>2, <2>3 DEF UpdateReport, TypeOK
    <3>2. PICK s : s = request[r].sanction
      OBVIOUS
    <3>3. Taken(s, id)
      BY <1>2, <2>3, <3>1, <3>2 DEF UpdateReport, Acting, Acts, Taken, Gone, Await
    <3>4. Taken(s, id)'
      BY <3>3, TakenStays
    <3> QED BY <3>1, <3>2, <3>4 DEF Taken, Gone, Accused
  <2> QED BY <2>1, <2>2, <2>3
<1>3. ASSUME NEW r \in Request, CreateReport(r) PROVE Taken(verdict[id], id)'
  BY <1>1, <1>3 DEF CreateReport, TypeOK
<1>4. ASSUME NEW u \in User, DeleteAccount(u) PROVE Taken(verdict[id], id)'
  BY <1>1, <1>4 DEF DeleteAccount, TypeOK
<1> QED BY <1>1, <1>2, <1>3, <1>4
        DEF Next, Step, FileReport, AssertNotSelf, UpdateStatus, ResolveOwner, FindUser, ApplySanction,
            NotifyReporter, TellAccount, SetStatus, RemoveContent, Crash

LEMMA TakenInit == Init => ResolvedIsTaken
  BY DEF Init, ResolvedIsTaken

LEMMA SanctionsTaken == Standing /\ Acting /\ ResolvedIsTaken => SanctionsAreTaken
  BY DEF SanctionsAreTaken, Standing, Stands, Acting, Acts, ResolvedIsTaken, Taken, Gone

(* SanctionsForever: a sanction is done before its report says so and       *)
(* before its account is told, unless there was nobody left to sanction     *)
(* (updateStatus, applyAccountSanction).                                    *)
THEOREM SanctionsForever == Spec => []SanctionsAreTaken
  BY TypeCorrect, StandingHolds, ActingInit, ActingStep, TakenInit, TakenStep, SanctionsTaken, PTL DEF Spec

-----------------------------------------------------------------------------
(* What a reporter is owed.  A report goes with its reporter alone; as long *)
(* as one settlement at a time concerns it, that settlement knows its       *)
(* status; and it has been told unless somebody is about to.                *)
Late(q) == q.pc \in {"notify", "tell"}

Kept == \A id \in Report : status[id.by] = "deleted" => report[id] = "none"

Follows(q) ==
  /\ report[q.report] = "none" => status[q.report.by] = "deleted"
  /\ q.report \notin mixed =>
       report[q.report] \in {"none", IF Late(q) THEN q.to ELSE q.was}

Following == \A r \in Request : request[r].pc \in Await => Follows(request[r])

Alone ==
  \A r, o \in Request : r # o /\ request[r].pc \in Await /\ request[o].pc \in Await
                         /\ request[r].report = request[o].report => request[r].report \in mixed

Told ==
  \A id \in Report \ mixed :
    /\ report[id] \notin {"none", "OPEN"}
    /\ \A r \in Request : request[r].pc = "notify" => request[r].report # id
    => heard[id] = report[id]

LEMMA KeptStep == TypeOK /\ Kept /\ [Next]_vars => Kept'
<1> SUFFICES ASSUME TypeOK, Kept, [Next]_vars, NEW id \in Report, status'[id.by] = "deleted"
             PROVE  report'[id] = "none"
  BY DEF Kept
<1>0. id.by \in User
  OBVIOUS
<1>1. ASSUME UNCHANGED report, status[id.by] = "deleted" PROVE report'[id] = "none"
  BY <1>1 DEF Kept
<1>2. ASSUME NEW r \in Request, CreateReport(r) PROVE report'[id] = "none"
  BY <1>2, Shapes DEF CreateReport, Kept, TypeOK, Filing
<1>3. ASSUME NEW r \in Request, UpdateReport(r) PROVE report'[id] = "none"
  BY <1>3 DEF UpdateReport, Kept, TypeOK
<1>4. ASSUME NEW r \in Request, ApplySanction(r) PROVE report'[id] = "none"
  <2>1. request[r].sanction # "deleted"
    BY <1>4, Shapes DEF ApplySanction, Settling, Sanction, AccountSanction, Await
  <2> QED BY <1>0, <1>1, <1>4, <2>1 DEF ApplySanction, TypeOK
<1>5. ASSUME NEW u \in User, NEW new \in UserStatus, SetStatus(u, new) PROVE report'[id] = "none"
  BY <1>0, <1>1, <1>5 DEF SetStatus, TypeOK, UserStatus, AccountSanction
<1>6. ASSUME NEW u \in User, DeleteAccount(u) PROVE report'[id] = "none"
  BY <1>0, <1>6 DEF DeleteAccount, TypeOK, Kept
<1>7. ASSUME UNCHANGED <<report, status>> PROVE report'[id] = "none"
  BY <1>1, <1>7
<1> QED BY <1>2, <1>3, <1>4, <1>5, <1>6, <1>7
        DEF Next, Step, FileReport, AssertNotSelf, UpdateStatus, ResolveOwner, FindUser,
            NotifyReporter, TellAccount, RemoveContent, Crash

LEMMA MixedGrows == TypeOK /\ [Next]_vars => mixed \subseteq mixed'
  BY DEF Next, Step, FileReport, AssertNotSelf, CreateReport, UpdateStatus, ResolveOwner, FindUser,
         ApplySanction, UpdateReport, NotifyReporter, TellAccount, SetStatus, DeleteAccount,
         RemoveContent, Crash

(* What a step may do to the requests in settlement: take one up, once      *)
(* nobody else has it or it is mixed; move one on; or let it go.            *)
LEMMA SettlingMoves ==
  ASSUME TypeOK, [Next]_vars
  PROVE  \/ \A o \in Request : request'[o].pc \in Await => request'[o] = request[o]
         \/ \E r \in Request :
              /\ \A o \in Request \ {r} : request'[o] = request[o]
              /\ request'[r] \in Settling
              /\ \/ /\ request[r] \in Settling /\ request'[r].report = request[r].report
                    /\ request'[r].was = request[r].was /\ request'[r].to = request[r].to
                    /\ UpdateReport(r) \/ (Late(request'[r]) <=> Late(request[r]))
                 \/ /\ request[r].pc = "idle" /\ request'[r].pc = "resolveOwner"
                    /\ request'[r].was = report[request'[r].report] /\ UNCHANGED rows
                    /\ report[request'[r].report] # "none"
                    /\ \A o \in Request \ {r} : request[o].pc \in Await /\ request[o].report = request'[r].report
                         => request'[r].report \in mixed'
<1> DEFINE Still == \A o \in Request : request'[o].pc \in Await => request'[o] = request[o]
           Moves(r) ==
              /\ \A o \in Request \ {r} : request'[o] = request[o]
              /\ request'[r] \in Settling
              /\ \/ /\ request[r] \in Settling /\ request'[r].report = request[r].report
                    /\ request'[r].was = request[r].was /\ request'[r].to = request[r].to
                    /\ UpdateReport(r) \/ (Late(request'[r]) <=> Late(request[r]))
                 \/ /\ request[r].pc = "idle" /\ request'[r].pc = "resolveOwner"
                    /\ request'[r].was = report[request'[r].report] /\ UNCHANGED rows
                    /\ report[request'[r].report] # "none"
                    /\ \A o \in Request \ {r} : request[o].pc \in Await /\ request[o].report = request'[r].report
                         => request'[r].report \in mixed'
<1>i. ASSUME NEW r \in Request, Answered(r) PROVE Still
  BY <1>i, Ends DEF Await
<1>j. ASSUME NEW r \in Request, NEW pc \in Await, Goto(r, pc), request[r].pc \in Await,
             UpdateReport(r) \/ (pc \in {"notify", "tell"} <=> Late(request[r]))
      PROVE  Moves(r)
  <2>1. request[r] \in Settling
    BY <1>j, Shapes
  <2>2. /\ request'[r] \in Settling /\ request'[r] = [request[r] EXCEPT !.pc = pc]
        /\ \A o \in Request \ {r} : request'[o] = request[o]
    BY <1>j, <2>1, GoesOn
  <2>3. /\ request'[r].report = request[r].report
        /\ request'[r].was = request[r].was /\ request'[r].to = request[r].to
        /\ request'[r].pc = pc
    BY <2>1, <2>2 DEF Settling
  <2> QED BY <1>j, <2>1, <2>2, <2>3 DEF Late
<1>1. ASSUME NEW r \in Request, NEW id \in Report, FileReport(r, id) PROVE Still
  <2>1. [pc |-> "assertNotSelf", report |-> id] \in RequestState
    BY DEF RequestState, Filing
  <2> QED BY <1>1, <2>1, Begins DEF FileReport, Await
<1>2. ASSUME NEW r \in Request, AssertNotSelf(r) PROVE Still
  <2>1. CASE Goto(r, "create")
    <3>1. request[r] \in Filing
      BY <1>2, Shapes DEF AssertNotSelf
    <3>2. request'[r].pc = "create" /\ \A o \in Request \ {r} : request'[o] = request[o]
      BY <2>1, <3>1 DEF Goto, TypeOK, Filing
    <3> QED BY <3>2 DEF Await
  <2> QED BY <1>2, <1>i, <2>1 DEF AssertNotSelf
<1>3. ASSUME NEW r \in Request, NEW id \in Report, NEW to \in ReportStatus,
             NEW s \in Sanction \cup {"none"}, UpdateStatus(r, id, to, s)
      PROVE  Moves(r)
  <2> DEFINE q == [pc |-> "resolveOwner", report |-> id, was |-> report[id], to |-> to,
                   sanction |-> s, account |-> NoOne]
  <2>1. q \in Settling /\ q.pc = "resolveOwner" /\ q.report = id /\ q.was = report[id]
    BY <1>3 DEF UpdateStatus, TypeOK, Settling
  <2>2. Begin(r, q) /\ UNCHANGED rows /\ report[id] # "none"
    BY <1>3 DEF UpdateStatus
  <2>3. (\E o \in Request : Settles(o, id)) => id \in mixed'
    BY <1>3 DEF UpdateStatus
  <2>4. \A o \in Request : request[o].pc \in Await /\ request[o].report = id => Settles(o, id)
    BY DEF Settles, Await
  <2> HIDE DEF q
  <2>5. request[r].pc = "idle" /\ request'[r] = q /\ \A o \in Request \ {r} : request'[o] = request[o]
    BY <2>1, <2>2, Begins DEF RequestState
  <2> QED BY <2>1, <2>2, <2>3, <2>4, <2>5
<1>4. ASSUME NEW r \in Request, ResolveOwner(r) PROVE Moves(r)
  <2> DEFINE account == Accused(request[r].report.target)
             pc == IF account # NoOne /\ request[r].sanction \in AccountSanction
                   THEN "findUser" ELSE "update"
  <2>1. /\ request[r] \in Settling /\ request'[r] \in Settling
        /\ request'[r] = [request[r] EXCEPT !.account = account, !.pc = pc]
        /\ \A o \in Request \ {r} : request'[o] = request[o]
    BY <1>4, OwnerFound
  <2> HIDE DEF account, pc
  <2>2. /\ request'[r].report = request[r].report
        /\ request'[r].was = request[r].was /\ request'[r].to = request[r].to
        /\ request'[r].pc = pc
    BY <2>1 DEF Settling
  <2>3. ~Late(request'[r]) /\ ~Late(request[r])
    BY <1>4, <2>2 DEF Late, ResolveOwner, pc
  <2> QED BY <2>1, <2>2, <2>3 DEF Late
<1>5. ASSUME NEW r \in Request,
             FindUser(r) \/ ApplySanction(r) \/ UpdateReport(r) \/ NotifyReporter(r)
      PROVE  Still \/ Moves(r)
  <2>1. request[r].pc \in Await
    BY <1>5 DEF FindUser, ApplySanction, UpdateReport, NotifyReporter, Await
  <2>2. \/ Answered(r)
        \/ Goto(r, "sanction") /\ ~Late(request[r])
        \/ Goto(r, "update") /\ ~Late(request[r])
        \/ Goto(r, "notify") /\ UpdateReport(r)
        \/ Goto(r, "tell") /\ Late(request[r])
    BY <1>5 DEF FindUser, ApplySanction, UpdateReport, NotifyReporter, Late
  <2> HIDE DEF Still, Moves
  <2> QED BY <1>i, <1>j, <2>1, <2>2 DEF Await
<1>6. ASSUME NEW r \in Request, CreateReport(r) \/ TellAccount(r) \/ Crash(r) PROVE Still
  <2> HIDE DEF Still
  <2> QED BY <1>6, <1>i DEF CreateReport, TellAccount, Crash
<1>7. ASSUME UNCHANGED request PROVE Still
  BY <1>7
<1>8. Still \/ \E r \in Request : Moves(r)
  <2> HIDE DEF Still, Moves
  <2> QED BY <1>1, <1>2, <1>3, <1>4, <1>5, <1>6, <1>7
        DEF Next, Step, SetStatus, DeleteAccount, RemoveContent
<1> QED BY <1>8

LEMMA AloneStep == TypeOK /\ Alone /\ [Next]_vars => Alone'
<1> SUFFICES ASSUME TypeOK, Alone, [Next]_vars PROVE Alone'
  OBVIOUS
<1>1. CASE \A o \in Request : request'[o].pc \in Await => request'[o] = request[o]
  BY <1>1, MixedGrows DEF Alone
<1>2. ASSUME NEW r \in Request, \A o \in Request \ {r} : request'[o] = request[o],
             request[r] \in Settling, request'[r].report = request[r].report
      PROVE  Alone'
  BY <1>2, MixedGrows DEF Alone, Settling, Await
<1>3. ASSUME NEW r \in Request, \A o \in Request \ {r} : request'[o] = request[o],
             \A o \in Request \ {r} : request[o].pc \in Await /\ request[o].report = request'[r].report
                         => request'[r].report \in mixed'
      PROVE  Alone'
  BY <1>3, MixedGrows DEF Alone
<1> QED BY <1>1, <1>2, <1>3, SettlingMoves

(* A report changes by its creation, when nobody settles it; by an update;  *)
(* or with its reporter.                                                    *)
LEMMA ReportMoves ==
  ASSUME TypeOK, Kept, Following, [Next]_vars, NEW id \in Report
  PROVE  \/ report'[id] = report[id]
         \/ /\ report[id] = "none" /\ heard'[id] = report'[id]
            /\ \A r \in Request : request[r].pc \in Await => request[r].report # id
         \/ \E r \in Request : /\ UpdateReport(r) /\ request[r].report = id
                               /\ report[id] # "none" /\ report'[id] = request[r].to
         \/ report'[id] = "none" /\ status'[id.by] = "deleted"
<1>1. ASSUME NEW r \in Request, CreateReport(r), report'[id] # report[id]
      PROVE  /\ report[id] = "none" /\ heard'[id] = report'[id]
             /\ \A o \in Request : request[o].pc \in Await => request[o].report # id
  <2>1. report[id] = "none" /\ status[id.by] # "deleted" /\ request[r].report = id
    BY <1>1 DEF CreateReport, TypeOK
  <2>2. heard'[id] = report'[id]
    BY <1>1, <2>1 DEF CreateReport, TypeOK
  <2> QED BY <2>1, <2>2 DEF Following, Follows
<1>2. ASSUME NEW r \in Request, UpdateReport(r), report'[id] # report[id]
      PROVE  request[r].report = id /\ report[id] # "none" /\ report'[id] = request[r].to
  BY <1>2 DEF UpdateReport, TypeOK
<1>3. ASSUME NEW u \in User, DeleteAccount(u), report'[id] # report[id]
      PROVE  report'[id] = "none" /\ status'[id.by] = "deleted"
  BY <1>3 DEF DeleteAccount, TypeOK
<1> QED BY <1>1, <1>2, <1>3
        DEF Next, Step, FileReport, AssertNotSelf, UpdateStatus, ResolveOwner, FindUser, ApplySanction,
            NotifyReporter, TellAccount, SetStatus, RemoveContent, Crash

LEMMA FollowingStep == TypeOK /\ Kept /\ Alone /\ Following /\ [Next]_vars => Following'
<1> SUFFICES ASSUME TypeOK, Kept, Alone, Following, [Next]_vars, NEW r \in Request,
                    request'[r].pc \in Await
             PROVE  Follows(request[r])'
  BY DEF Following
<1> DEFINE id == request'[r].report
(* It took the report up.                                                   *)
<1>1. CASE request[r] \notin Settling
  <2>1. /\ request'[r].pc = "resolveOwner" /\ request'[r].was = report[id]
        /\ UNCHANGED rows /\ report[id] # "none"
    BY <1>1, SettlingMoves, Shapes
  <2> QED BY <2>1 DEF Follows, Late
<1>2. CASE request[r] \in Settling
  <2>1. /\ request'[r].report = request[r].report /\ request[r].pc \in Await
        /\ request'[r].was = request[r].was /\ request'[r].to = request[r].to
        /\ UpdateReport(r) \/ (Late(request'[r]) <=> Late(request[r]))
    BY <1>2, SettlingMoves, Shapes DEF Settling, Await
  <2>2. PICK i \in Report : i = request[r].report
    BY <1>2 DEF Settling
  <2>3. Follows(request[r]) /\ (status[i.by] = "deleted" => status'[i.by] = "deleted")
    BY <2>1, Monotone DEF Following
  <2>4. CASE UpdateReport(r)
    <3>1. Late(request'[r]) /\ ~Late(request[r])
      <4>1. Goto(r, "notify") /\ request[r].pc = "update"
        BY <2>4, Ends DEF UpdateReport, Await
      <4>2. request'[r] = [request[r] EXCEPT !.pc = "notify"]
        BY <1>2, <4>1, GoesOn DEF Await
      <4> QED BY <1>2, <4>1, <4>2 DEF Late, Settling
    <3>2. report[i] # "none" /\ report'[i] = request[r].to /\ request[r].to # "none"
      BY <2>4, <2>2, <1>2, Ends DEF UpdateReport, TypeOK, Settling, Await, ReportStatus
    <3> QED BY <2>1, <2>2, <3>1, <3>2 DEF Follows
  <2>5. CASE report'[i] = report[i] /\ ~UpdateReport(r)
    BY <2>1, <2>2, <2>3, <2>5, MixedGrows DEF Follows
  <2>6. ASSUME NEW o \in Request, UpdateReport(o), request[o].report = i, o # r,
               report[i] # "none", report'[i] = request[o].to
        PROVE  Follows(request[r])'
    <3>1. i \in mixed'
      BY <2>1, <2>2, <2>6, MixedGrows DEF Alone, UpdateReport, Await
    <3>2. report'[i] # "none"
      BY <2>6, Shapes DEF UpdateReport, Settling, Await, ReportStatus
    <3> QED BY <2>1, <2>2, <3>1, <3>2 DEF Follows
  <2>7. CASE report'[i] = "none" /\ status'[i.by] = "deleted"
    BY <2>1, <2>2, <2>7 DEF Follows
  <2> QED BY <2>1, <2>2, <2>4, <2>5, <2>6, <2>7, ReportMoves
<1> QED BY <1>1, <1>2

(* Whoever is about to notify does so, or dies.                             *)
LEMMA NotifyEnds ==
  ASSUME TypeOK, [Next]_vars, NEW r \in Request, request[r].pc = "notify"
  PROVE  request'[r] = request[r] \/ NotifyReporter(r) \/ Crash(r)
<1>1. ASSUME NEW o \in Request, Step(o) \/ Crash(o), o # r PROVE request'[r] = request[r]
  BY <1>1 DEF Step, AssertNotSelf, CreateReport, ResolveOwner, FindUser, ApplySanction, UpdateReport,
              NotifyReporter, TellAccount, Crash, Goto, Answered, TypeOK
<1>2. Step(r) => NotifyReporter(r)
  BY DEF Step, AssertNotSelf, CreateReport, ResolveOwner, FindUser, ApplySanction, UpdateReport, TellAccount
<1>3. ASSUME NEW o \in Request, NEW id \in Report,
             FileReport(o, id) \/ \E to \in ReportStatus, s \in Sanction \cup {"none"} : UpdateStatus(o, id, to, s)
      PROVE  request'[r] = request[r]
  BY <1>3 DEF FileReport, UpdateStatus, Begin, TypeOK
<1> QED BY <1>1, <1>2, <1>3 DEF Next, SetStatus, DeleteAccount, RemoveContent

LEMMA HeardMoves ==
  ASSUME TypeOK, [Next]_vars, NEW id \in Report, report[id] # "none"
  PROVE  \/ heard'[id] = heard[id]
         \/ \E r \in Request : NotifyReporter(r) /\ request[r].report = id
<1>1. ASSUME NEW r \in Request, CreateReport(r) PROVE heard'[id] = heard[id]
  BY <1>1 DEF CreateReport, TypeOK
<1>2. ASSUME NEW r \in Request, NotifyReporter(r), request[r].report # id PROVE heard'[id] = heard[id]
  BY <1>2 DEF NotifyReporter, TypeOK
<1> QED BY <1>1, <1>2
        DEF Next, Step, FileReport, AssertNotSelf, UpdateStatus, ResolveOwner, FindUser, ApplySanction,
            UpdateReport, TellAccount, SetStatus, DeleteAccount, RemoveContent, Crash

LEMMA ToldStep == TypeOK /\ Kept /\ Alone /\ Following /\ Told /\ [Next]_vars => Told'
<1> SUFFICES ASSUME TypeOK, Kept, Alone, Following, Told, [Next]_vars, NEW id \in Report,
                    id \notin mixed', report'[id] \notin {"none", "OPEN"},
                    \A r \in Request : request'[r].pc = "notify" => request'[r].report # id
             PROVE  heard'[id] = report'[id]
  BY DEF Told
<1>1. id \notin mixed
  BY MixedGrows
<1>2. CASE report'[id] = report[id]
  <2>1. ASSUME NEW r \in Request, request[r].pc = "notify", request[r].report = id
        PROVE  heard'[id] = report[id]
    <3>1. NotifyReporter(r)
      BY <2>1, NotifyEnds DEF Crash
    <3>2. report[id] \in {"none", request[r].to}
      BY <1>1, <2>1 DEF Following, Follows, Late, Await
    <3> QED BY <1>2, <2>1, <3>1, <3>2 DEF NotifyReporter, Kept, TypeOK
  <2>2. CASE \A r \in Request : request[r].pc = "notify" => request[r].report # id
    <3>1. heard[id] = report[id]
      BY <1>1, <1>2, <2>2 DEF Told
    <3> QED BY <1>2, <2>2, <3>1, HeardMoves DEF NotifyReporter
  <2> QED BY <1>2, <2>1, <2>2
<1>3. ASSUME NEW r \in Request, UpdateReport(r), request[r].report = id, report[id] # "none",
             report'[id] = request[r].to
      PROVE  heard'[id] = report'[id]
  <2>1. request[r] \in Settling /\ request[r].pc = "update"
    BY <1>3, Shapes DEF UpdateReport, Await
  <2>2. ~Goto(r, "notify")
    <3>1. ASSUME Goto(r, "notify") PROVE request'[r].pc = "notify" /\ request'[r].report = id
      <4>1. request'[r] = [request[r] EXCEPT !.pc = "notify"]
        BY <2>1, <3>1, GoesOn DEF Await
      <4> QED BY <1>3, <2>1, <4>1 DEF Settling
    <3> QED BY <3>1
  <2>3. request[r].was = request[r].to
    BY <1>3, <2>2 DEF UpdateReport
  <2>4. report[id] = request[r].to
    BY <1>1, <1>3, <2>1, <2>3 DEF Following, Follows, Late, Await
  <2>5. \A o \in Request : request[o].pc = "notify" => request[o].report # id
    BY <1>1, <1>3, <2>1 DEF Alone, Await
  <2>6. heard[id] = report[id]
    BY <1>1, <1>3, <2>4, <2>5 DEF Told
  <2> QED BY <1>3, <2>4, <2>6 DEF UpdateReport
<1> QED BY <1>2, <1>3, ReportMoves

LEMMA KnowingInit == Init => Kept /\ Alone /\ Following /\ Told
<1> SUFFICES ASSUME Init PROVE Kept /\ Alone /\ Following /\ Told
  OBVIOUS
<1>1. \A r \in Request : request[r].pc = "idle"
  BY DEF Init, Idle
<1>2. \A id \in Report : report[id] = "none"
  BY DEF Init
<1> QED BY <1>1, <1>2 DEF Kept, Alone, Following, Told, Await

LEMMA Knows == TypeOK /\ Told => ReporterKnows
<1> SUFFICES ASSUME TypeOK, Told, NEW id \in Report, report[id] \notin {"none", "OPEN"}, id \notin mixed,
                    \A r \in Request : ~Settles(r, id)
             PROVE  heard[id] = report[id]
  BY DEF ReporterKnows
<1>1. \A r \in Request : request[r].pc = "notify" => request[r].report # id
  BY DEF Settles
<1> QED BY <1>1 DEF Told

(* ReporterAlwaysKnows: the status of a report is the one its reporter has  *)
(* heard, unless updates of it overlapped or a notification failed          *)
(* (updateStatus, notifyReportStatusUpdate).                                *)
THEOREM ReporterAlwaysKnows == Spec => []ReporterKnows
  BY TypeCorrect, KnowingInit, KeptStep, AloneStep, FollowingStep, ToldStep, Knows, PTL DEF Spec

=============================================================================
