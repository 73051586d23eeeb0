----------------------- MODULE NotificationFeedProofs -----------------------
(***************************************************************************)
(* What the versioned cache keeps for any users, events, requests, writes  *)
(* and failures.  ListingIsCurrent is not inductive: it rests on every page*)
(* of a user's current version, cached or about to be, showing what was    *)
(* published with that version, and on listings of one version having      *)
(* begun with the same published feed (Current, below).                    *)
(***************************************************************************)
EXTENDS NotificationFeed, TLAPS

USE DEF absent, unread, read, deleted, Status, Version, history, vars

RequestState == {Idle} \cup Listing \cup Editing \cup Publishing

-----------------------------------------------------------------------------
(* Type correctness                                                         *)

LEMMA NoRowsType == NoRows \in Feed
  BY DEF NoRows, Feed

(* What a step does to the request it belongs to.                           *)
LEMMA Moved ==
  ASSUME TypeOK, NEW r \in Request, NEW q \in RequestState,
         request' = [request EXCEPT ![r] = q]
  PROVE  /\ request' \in [Request -> RequestState]
         /\ request'[r] = q
         /\ \A o \in Request \ {r} : request'[o] = request[o]
  BY DEF TypeOK, RequestState

LEMMA Shapes ==
  ASSUME TypeOK, NEW r \in Request
  PROVE  /\ request[r].pc \in {"cache", "feed", "fill"} => request[r] \in Listing
         /\ request[r].pc \in {"markRead", "deleteOne"} => request[r] \in Editing
         /\ At(r, "incr") => request[r] \in Publishing
<1>1. request[r] \in {Idle} \cup Listing \cup Editing \cup Publishing
  BY DEF TypeOK
<1>2. CASE request[r] = Idle
  BY <1>2 DEF At, Idle
<1>3. CASE request[r] \in Listing
  BY <1>3 DEF At, Listing
<1>4. CASE request[r] \in Editing
  BY <1>4 DEF At, Editing
<1>5. CASE request[r] \in Publishing
  BY <1>5 DEF At, Publishing
<1> QED BY <1>1, <1>2, <1>3, <1>4, <1>5

LEMMA IdleType == Idle \in RequestState
  BY DEF RequestState

LEMMA ListMineType ==
  ASSUME TypeOK, NEW r \in Request, NEW u \in User, ListMine(r, u)
  PROVE  TypeOK'
<1> DEFINE q == [pc |-> "cache", user |-> u, version |-> version[u],
                 page |-> NoRows, floor |-> published[u]]
<1>1. q \in Listing
  BY NoRowsType DEF TypeOK, Listing
<1>2. q \in RequestState
  BY <1>1 DEF RequestState
<1>3. request' = [request EXCEPT ![r] = q]
  BY DEF ListMine
<1> HIDE DEF q
<1>4. request' \in [Request -> RequestState]
  BY <1>2, <1>3, Moved
<1> QED BY <1>4 DEF ListMine, TypeOK, RequestState

LEMMA ReadCacheType ==
  ASSUME TypeOK, NEW r \in Request, ReadCache(r)
  PROVE  TypeOK'
<1> DEFINE q == [request[r] EXCEPT !.pc = "feed"]
<1>1. request[r] \in Listing
  BY Shapes DEF ReadCache, At
<1>2. q \in Listing
  BY <1>1 DEF Listing
<1>3. q \in RequestState
  BY <1>2 DEF RequestState
<1>4. request' = [request EXCEPT ![r] = Idle] \/ request' = [request EXCEPT ![r] = q]
  BY DEF ReadCache, Answered
<1> HIDE DEF q
<1>5. request' \in [Request -> RequestState]
  BY <1>3, <1>4, Moved, IdleType
<1> QED BY <1>5 DEF ReadCache, TypeOK, RequestState

LEMMA ReadFeedType ==
  ASSUME TypeOK, NEW r \in Request, ReadFeed(r)
  PROVE  TypeOK'
<1> DEFINE q == [request[r] EXCEPT !.pc = "fill", !.page = feed[request[r].user]]
<1>1. request[r] \in Listing
  BY Shapes DEF ReadFeed, At
<1>2. feed[request[r].user] \in Feed
  BY <1>1 DEF TypeOK, Listing
<1>3. q \in RequestState
  BY <1>1, <1>2 DEF Listing, RequestState
<1>4. request' = [request EXCEPT ![r] = q]
  BY <1>1 DEF ReadFeed, TypeOK
<1> HIDE DEF q
<1>5. request' \in [Request -> RequestState]
  BY <1>3, <1>4, Moved
<1> QED BY <1>5 DEF ReadFeed, TypeOK, RequestState

LEMMA FillType ==
  ASSUME TypeOK, NEW r \in Request, Fill(r)
  PROVE  TypeOK'
<1> DEFINE p == CachedPage(r, request[r].version)
<1>1. request[r] \in Listing
  BY Shapes DEF Fill, At
<1>2. p \in Page
  BY <1>1 DEF Listing, Page, CachedPage
<1>3. cache' = (cache \ Stored(p.user, p.version)) \cup {p}
  BY DEF Fill
<1>4. request' \in [Request -> RequestState]
  BY Moved, IdleType DEF Fill, Answered
<1> HIDE DEF p
<1>5. cache' \subseteq Page /\ \A a, b \in cache' : a.user = b.user /\ a.version = b.version => a = b
  BY <1>2, <1>3 DEF TypeOK, Stored
<1> QED BY <1>4, <1>5 DEF Fill, TypeOK, RequestState

LEMMA EditRequestedType ==
  ASSUME TypeOK, NEW r \in Request, NEW u \in User, NEW e \in Event,
         NEW pc \in {"markRead", "deleteOne"}, EditRequested(r, u, e, pc)
  PROVE  TypeOK'
<1> DEFINE q == [pc |-> pc, user |-> u, event |-> e]
<1>1. q \in RequestState
  BY DEF Editing, RequestState
<1>2. request' = [request EXCEPT ![r] = q]
  BY DEF EditRequested
<1> HIDE DEF q
<1>3. request' \in [Request -> RequestState]
  BY <1>1, <1>2, Moved
<1> QED BY <1>3 DEF EditRequested, TypeOK, RequestState

LEMMA EditType ==
  ASSUME TypeOK, NEW r \in Request, Edit(r)
  PROVE  TypeOK'
<1> DEFINE u == request[r].user
           e == request[r].event
           q == [pc |-> "incr", targets |-> {u}]
<1>1. request[r] \in Editing
  BY Shapes DEF Edit
<1>2. u \in User /\ e \in Event
  BY <1>1 DEF Editing
<1>3. q \in RequestState
  BY <1>2 DEF Publishing, RequestState
<1>4. request' = [request EXCEPT ![r] = q] \/ request' = [request EXCEPT ![r] = Idle]
  BY DEF Edit, Answered
<1> DEFINE status == IF At(r, "markRead") THEN read ELSE deleted
<1>a. status \in Status
  OBVIOUS
<1>b. feed' = [feed EXCEPT ![u][e] = status] \/ feed' = feed
  BY DEF Edit
<1> HIDE DEF q, status, u, e
<1>5. feed' \in [User -> Feed]
  <2>1. feed[u] \in [Event -> Status]
    BY <1>2 DEF TypeOK, Feed
  <2>2. [feed[u] EXCEPT ![e] = status] \in Feed
    BY <2>1, <1>a DEF Feed
  <2>3. feed \in [User -> Feed]
    BY DEF TypeOK
  <2> QED BY <1>2, <1>b, <2>2, <2>3
<1>6. request' \in [Request -> RequestState]
  BY <1>3, <1>4, Moved, IdleType
<1> QED BY <1>5, <1>6 DEF Edit, TypeOK, RequestState

LEMMA WriteRowsType ==
  ASSUME TypeOK, NEW r \in Request, NEW targets \in SUBSET User, NEW rows,
         NEW status \in Status, WriteRows(r, targets, rows, status)
  PROVE  TypeOK'
<1> DEFINE q == [pc |-> "incr", targets |-> targets]
<1>1. q \in RequestState
  BY DEF Publishing, RequestState
<1>2. request' = [request EXCEPT ![r] = q]
  BY DEF WriteRows
<1>3. feed' \in [User -> Feed]
  BY DEF WriteRows, TypeOK, Feed
<1> HIDE DEF q
<1>4. request' \in [Request -> RequestState]
  BY <1>1, <1>2, Moved
<1> QED BY <1>3, <1>4 DEF WriteRows, TypeOK, RequestState

LEMMA InvalidateType ==
  ASSUME TypeOK, NEW r \in Request, NEW u \in User, InvalidateUserFeed(r, u)
  PROVE  TypeOK'
<1> DEFINE q == [pc |-> "incr", targets |-> request[r].targets \ {u}]
<1>1. request[r] \in Publishing
  BY Shapes DEF InvalidateUserFeed
<1>2. q \in RequestState
  BY <1>1 DEF Publishing, RequestState
<1>3. request' = [request EXCEPT ![r] = q] \/ request' = [request EXCEPT ![r] = Idle]
  BY DEF InvalidateUserFeed
<1> HIDE DEF q
<1>4. request' \in [Request -> RequestState]
  BY <1>2, <1>3, Moved, IdleType
<1>5. version' \in [User -> Nat] /\ published' \in [User -> Feed]
  BY DEF InvalidateUserFeed, TypeOK
<1> QED BY <1>4, <1>5 DEF InvalidateUserFeed, TypeOK, RequestState

LEMMA CrashType ==
  ASSUME TypeOK, NEW failed \in SUBSET Request, Crash(failed)
  PROVE  TypeOK'
<1>1. request' \in [Request -> RequestState]
  BY IdleType DEF Crash, TypeOK, RequestState
<1>2. \A r \in failed : At(r, "incr") => request[r].targets \subseteq User
  BY Shapes DEF Publishing
<1>3. orphaned' \subseteq User
  BY <1>2 DEF Crash, TypeOK
<1>4. crashes' \in 0 .. MaxCrashes
  BY FeedAssumption DEF Crash, TypeOK, FeedAssumption
<1> QED BY <1>1, <1>3, <1>4 DEF Crash, TypeOK, RequestState

LEMMA ExpireType ==
  ASSUME TypeOK, NEW u, NEW v, ExpirePage(u, v)
  PROVE  TypeOK'
  BY DEF ExpirePage, TypeOK

(* Every subset that may fail is one of Request.                            *)
LEMMA Failures ==
  ASSUME NEW failed \in {{r} : r \in Request} \cup {Request}
  PROVE  failed \in SUBSET Request
  OBVIOUS

LEMMA TypeStep == TypeOK /\ [Next]_vars => TypeOK'
<1> SUFFICES ASSUME TypeOK, [Next]_vars PROVE TypeOK'
  OBVIOUS
<1>1. ASSUME NEW r \in Request, NEW u \in User, ListMine(r, u) PROVE TypeOK'
  BY <1>1, ListMineType
<1>2. ASSUME NEW r \in Request, NEW u \in User, MarkAllRead(r, u) PROVE TypeOK'
  BY <1>2, WriteRowsType DEF MarkAllRead
<1>3. ASSUME NEW r \in Request, NEW u \in User, DeleteAll(r, u) PROVE TypeOK'
  BY <1>3, WriteRowsType DEF DeleteAll
<1>4. ASSUME NEW r \in Request, NEW u \in User, NEW e \in Event, MarkRead(r, u, e) PROVE TypeOK'
  BY <1>4, EditRequestedType DEF MarkRead
<1>5. ASSUME NEW r \in Request, NEW u \in User, NEW e \in Event, DeleteOne(r, u, e) PROVE TypeOK'
  BY <1>5, EditRequestedType DEF DeleteOne
<1>6. ASSUME NEW r \in Request, NEW targets \in Recipients, NEW e \in Event,
             CreateAndPush(r, targets, e)
      PROVE  TypeOK'
  BY <1>6, WriteRowsType DEF CreateAndPush, Recipients
<1>7. ASSUME NEW r \in Request, Resume(r) PROVE TypeOK'
  BY <1>7, ReadCacheType, ReadFeedType, FillType, EditType, InvalidateType DEF Resume
<1>8. ASSUME NEW failed \in {{r} : r \in Request} \cup {Request}, Crash(failed) PROVE TypeOK'
  BY <1>8, Failures, CrashType
<1>9. ASSUME NEW p \in cache, ExpirePage(p.user, p.version) PROVE TypeOK'
  BY <1>9, ExpireType
<1>10. CASE UNCHANGED vars
  BY <1>10 DEF TypeOK
<1> QED BY <1>1, <1>2, <1>3, <1>4, <1>5, <1>6, <1>7, <1>8, <1>9, <1>10 DEF Next

LEMMA TypeInit == Init => TypeOK
  BY NoRowsType, FeedAssumption, IdleType DEF Init, TypeOK, FeedAssumption, RequestState

(* TypeCorrect: every state of the feed is well-formed, and one page at     *)
(* most is cached under a user's version (listMine).                        *)
THEOREM TypeCorrect == Spec => []TypeOK
  BY TypeInit, TypeStep, PTL DEF Spec

-----------------------------------------------------------------------------
(* Changes are published                                                    *)

Debt(u) == u \in orphaned \/ \E r \in Request : Owes(r, u)

LEMMA ChangesStep == TypeOK /\ ChangesArePublished /\ [Next]_vars => ChangesArePublished'
<1> SUFFICES ASSUME TypeOK, ChangesArePublished, [Next]_vars, NEW x \in User,
                    (feed[x] # published[x])'
             PROVE  Debt(x)'
  BY DEF ChangesArePublished, Debt
<1> USE DEF Owes, At
<1>0. Debt(x) \/ feed[x] = published[x]
  BY DEF ChangesArePublished, Debt
<1>h. ASSUME NEW r \in Request, ~(\E u \in User : Owes(r, u)),
             \A o \in Request \ {r} : request'[o] = request[o],
             UNCHANGED <<feed, published, orphaned>>
      PROVE  Debt(x)'
  BY <1>0, <1>h DEF Debt
<1>1. ASSUME NEW r \in Request, NEW u \in User, ListMine(r, u) PROVE Debt(x)'
  BY <1>1, <1>h DEF ListMine, TypeOK
<1>2. ASSUME NEW r \in Request, NEW targets \in SUBSET User, NEW rows \in SUBSET (targets \X Event),
             NEW status, WriteRows(r, targets, rows, status)
      PROVE  Debt(x)'
  <2>1. /\ request'[r] = [pc |-> "incr", targets |-> targets]
        /\ \A o \in Request \ {r} : request'[o] = request[o]
    BY <1>2 DEF WriteRows, TypeOK
  <2>2. CASE x \in targets
    BY <2>1, <2>2 DEF Debt
  <2>3. CASE x \notin targets
    <3>1. \A e \in Event : <<x, e>> \notin rows
      BY <2>3
    <3>2. feed'[x] = [e \in Event |-> feed[x][e]]
      BY <1>2, <3>1 DEF WriteRows
    <3>3. feed'[x] = feed[x]
      BY <3>2 DEF TypeOK, Feed
    <3>4. Debt(x)
      BY <1>0, <1>2, <3>3 DEF WriteRows
    <3>5. request[r].pc = "idle" /\ orphaned' = orphaned
      BY <1>2 DEF WriteRows
    <3> QED BY <2>1, <3>4, <3>5 DEF Debt
  <2> QED BY <2>2, <2>3
<1>3. ASSUME NEW r \in Request, NEW u \in User, NEW e \in Event, NEW pc, EditRequested(r, u, e, pc)
      PROVE  Debt(x)'
  BY <1>3, <1>h DEF EditRequested, TypeOK
<1>4. ASSUME NEW r \in Request, Edit(r) PROVE Debt(x)'
  <2>1. request[r].user \in User
    BY <1>4, Shapes DEF Edit, Editing
  <2>2. \A o \in Request \ {r} : request'[o] = request[o]
    BY <1>4 DEF Edit, Answered, TypeOK
  <2>3. ~Owes(r, x) /\ orphaned' = orphaned /\ published' = published
    BY <1>4 DEF Edit
  <2>4. CASE x = request[r].user /\ Listed(feed[x], request[r].event)
    BY <1>4, <2>4 DEF Edit, TypeOK, Debt
  <2>5. CASE ~(x = request[r].user /\ Listed(feed[x], request[r].event))
    <3>1. feed'[x] = feed[x]
      BY <1>4, <2>5 DEF Edit, TypeOK
    <3> QED BY <1>0, <2>2, <2>3, <3>1 DEF Debt
  <2> QED BY <2>4, <2>5
<1>5. ASSUME NEW r \in Request, NEW u \in User, InvalidateUserFeed(r, u) PROVE Debt(x)'
  <2>1. \A o \in Request \ {r} : request'[o] = request[o]
    BY <1>5 DEF InvalidateUserFeed, TypeOK
  <2>2. x # u
    BY <1>5 DEF InvalidateUserFeed, TypeOK
  <2>3. published'[x] = published[x]
    BY <1>5, <2>2 DEF InvalidateUserFeed, TypeOK
  <2>4. Debt(x)
    BY <1>0, <1>5, <2>3 DEF InvalidateUserFeed
  <2>5. Owes(r, x) => Owes(r, x)'
    BY <1>5, <2>2 DEF InvalidateUserFeed, TypeOK
  <2> QED BY <1>5, <2>1, <2>2, <2>4, <2>5 DEF InvalidateUserFeed, Debt
<1>6. ASSUME NEW r \in Request, ReadCache(r) \/ ReadFeed(r) \/ Fill(r) PROVE Debt(x)'
  BY <1>6, <1>h DEF ReadCache, ReadFeed, Fill, Answered, TypeOK
<1>7. ASSUME NEW failed \in SUBSET Request, Crash(failed) PROVE Debt(x)'
  BY <1>0, <1>7 DEF Crash, Debt, TypeOK
<1>8. ASSUME NEW p \in cache, ExpirePage(p.user, p.version) PROVE Debt(x)'
  BY <1>0, <1>8 DEF ExpirePage, Debt
<1>9. CASE UNCHANGED vars
  BY <1>0, <1>9 DEF Debt
<1> QED
  <2>1. ASSUME NEW r \in Request, NEW u \in User, MarkAllRead(r, u) \/ DeleteAll(r, u)
        PROVE  Debt(x)'
    BY <1>2, <2>1 DEF MarkAllRead, DeleteAll
  <2>2. ASSUME NEW r \in Request, NEW targets \in Recipients, NEW e \in Event,
               CreateAndPush(r, targets, e)
        PROVE  Debt(x)'
    BY <1>2, <2>2 DEF CreateAndPush, Recipients
  <2>3. ASSUME NEW r \in Request, Resume(r) PROVE Debt(x)'
    BY <1>4, <1>5, <1>6, <2>3 DEF Resume
  <2>4. ASSUME NEW r \in Request, NEW u \in User, NEW e \in Event,
               MarkRead(r, u, e) \/ DeleteOne(r, u, e)
        PROVE  Debt(x)'
    BY <1>3, <2>4 DEF MarkRead, DeleteOne
  <2>5. ASSUME NEW failed \in {{r} : r \in Request} \cup {Request}, Crash(failed) PROVE Debt(x)'
    BY <1>7, <2>5, Failures
  <2> QED BY <1>1, <1>8, <1>9, <2>1, <2>2, <2>3, <2>4, <2>5 DEF Next

(* ChangesPublished: whatever the users and failures, no change of the      *)
(* table is left without its INCR but by a failure (createAndPush, markRead,*)
(* deleteOne and the bulk edits).                                           *)
THEOREM ChangesPublished == Spec => []ChangesArePublished
<1>1. Init => ChangesArePublished
  BY DEF Init, ChangesArePublished
<1> QED BY <1>1, TypeInit, TypeStep, ChangesStep, PTL DEF Spec

-----------------------------------------------------------------------------
(* Listings are current                                                     *)

IsListing(r) == request[r].pc \in {"cache", "feed", "fill"}

SameKey(q, p) == q.user = p.user /\ q.version = p.version

(* A snapshot that is, or is about to be, cached for `u` under `v` shows    *)
(* what was published when a listing of that version began, or will begin.  *)
Serves(f, u, v) ==
  /\ v <= version[u]
  /\ v = version[u] => Covers(f, published[u])
  /\ \A r \in Request :
       IsListing(r) /\ request[r].user = u /\ request[r].version = v => Covers(f, request[r].floor)

TableServes == \A u \in User : Covers(feed[u], published[u])

(* A listing's floor is what was published with the version it holds.       *)
FloorInv(r) ==
  LET q == request[r]
  IN  /\ q.version <= version[q.user]
      /\ Covers(published[q.user], q.floor)
      /\ q.version = version[q.user] => q.floor = published[q.user]
      /\ \A o \in Request : IsListing(o) /\ SameKey(request[o], q) => request[o].floor = q.floor

Current ==
  /\ TableServes
  /\ \A r \in Request : IsListing(r) => FloorInv(r)
  /\ \A p \in cache : Serves(p.feed, p.user, p.version)
  /\ \A r \in Request :
       At(r, "fill") => Serves(request[r].page, request[r].user, request[r].version)

LEMMA CoversTransitive ==
  ASSUME NEW p \in Feed, NEW q \in Feed, NEW s \in Feed, Covers(p, q), Covers(q, s)
  PROVE  Covers(p, s)
<1>1. \A e \in Event : p[e] \in Nat /\ q[e] \in Nat /\ s[e] \in Nat
  BY DEF Feed
<1>2. \A e \in Event : p[e] >= q[e] /\ q[e] >= s[e]
  BY DEF Covers
<1> QED BY <1>1, <1>2 DEF Covers

LEMMA CoversReflexive == ASSUME NEW p \in Feed PROVE Covers(p, p)
  BY DEF Covers, Feed

(* Current makes a listing current.                                         *)
LEMMA CurrentImplies == TypeOK /\ Current => ListingIsCurrent
<1> SUFFICES ASSUME TypeOK, Current, NEW r \in Request
             PROVE  /\ At(r, "cache") => \A p \in Stored(request[r].user, request[r].version) :
                                           Covers(p.feed, request[r].floor)
                    /\ At(r, "fill") => Covers(request[r].page, request[r].floor)
  BY DEF ListingIsCurrent
<1>1. ASSUME At(r, "cache"), NEW p \in Stored(request[r].user, request[r].version)
      PROVE  Covers(p.feed, request[r].floor)
  BY <1>1 DEF Current, Serves, Stored, IsListing, At
<1>2. ASSUME At(r, "fill") PROVE Covers(request[r].page, request[r].floor)
  BY <1>2 DEF Current, Serves, IsListing, At
<1> QED BY <1>1, <1>2

(* Steps that publish nothing, begin no listing and cache no page: the      *)
(* edits of the table, the failures, the expiries and the cache hits.       *)
LEMMA Quiet ==
  ASSUME TypeOK, TypeOK', Current,
         UNCHANGED <<version, published>>,
         cache' \subseteq cache,
         \A u \in User : Covers(feed'[u], feed[u]),
         \A r \in Request : IsListing(r)' => IsListing(r) /\ request'[r] = request[r]
  PROVE  Current'
<1>1. TableServes'
  <2>1. \A u \in User : Covers(feed[u], published[u])
    BY DEF Current, TableServes
  <2>2. \A u \in User : feed[u] \in Feed /\ feed'[u] \in Feed /\ published[u] \in Feed
    BY DEF TypeOK
  <2> QED BY <2>1, <2>2, CoversTransitive DEF TableServes
<1>2. ASSUME NEW r \in Request, IsListing(r)' PROVE FloorInv(r)'
  BY <1>2 DEF Current, FloorInv, IsListing
<1>3. ASSUME NEW f, NEW u, NEW v, Serves(f, u, v) PROVE Serves(f, u, v)'
  BY <1>3 DEF Serves, Covers, IsListing
<1>4. \A p \in cache' : Serves(p.feed, p.user, p.version)'
  BY <1>3 DEF Current
<1>5. ASSUME NEW r \in Request, At(r, "fill")'
      PROVE  Serves(request[r].page, request[r].user, request[r].version)'
  BY <1>3, <1>5 DEF Current, At, IsListing
<1> QED BY <1>1, <1>2, <1>4, <1>5 DEF Current, Covers

(* A listing begins with the version and the published feed of its user.    *)
LEMMA ListMineCurrent ==
  ASSUME TypeOK, Current, NEW r \in Request, NEW u \in User, ListMine(r, u)
  PROVE  Current'
<1>1. /\ request'[r] = [pc |-> "cache", user |-> u, version |-> version[u],
                        page |-> NoRows, floor |-> published[u]]
      /\ \A o \in Request \ {r} : request'[o] = request[o]
      /\ UNCHANGED <<feed, version, cache, published>>
  BY DEF ListMine, TypeOK
<1>2. ~IsListing(r) /\ IsListing(r)'
  BY <1>1 DEF ListMine, IsListing, At
<1>3. published[u] \in Feed /\ version[u] \in Nat
  BY DEF TypeOK
<1>4. ASSUME NEW o \in Request, IsListing(o)' PROVE FloorInv(o)'
  <2>1. CASE o = r
    <3>1. \A l \in Request : IsListing(l)' /\ SameKey(request'[l], request'[r]) =>
                               request'[l].floor = published[u]
      BY <1>1 DEF Current, FloorInv, SameKey, IsListing
    <3> QED BY <1>1, <1>3, <2>1, <3>1, CoversReflexive DEF FloorInv
  <2>2. CASE o # r
    <3>1. FloorInv(o) /\ IsListing(o) /\ request'[o] = request[o]
      BY <1>1, <1>4, <2>2 DEF Current, IsListing
    <3>2. SameKey(request'[r], request[o]) => request'[r].floor = request[o].floor
      BY <1>1, <3>1 DEF FloorInv, SameKey
    <3> QED BY <1>1, <3>1, <3>2 DEF FloorInv, IsListing
  <2> QED BY <2>1, <2>2
<1>5. ASSUME NEW f, NEW w, NEW v, Serves(f, w, v) PROVE Serves(f, w, v)'
  BY <1>1, <1>5 DEF Serves, Covers, IsListing
<1>6. \A o \in Request : At(o, "fill")' => At(o, "fill") /\ request'[o] = request[o]
  BY <1>1 DEF At
<1>7. \A o \in Request : At(o, "fill")' => Serves(request[o].page, request[o].user, request[o].version)'
  BY <1>5, <1>6 DEF Current
<1>8. \A p \in cache' : Serves(p.feed, p.user, p.version)'
  BY <1>1, <1>5 DEF Current
<1>9. TableServes'
  BY <1>1 DEF Current, TableServes, Covers
<1> QED BY <1>4, <1>7, <1>8, <1>9 DEF Current

(* A listing that goes on keeps its key and its floor.                      *)
LEMMA Onward ==
  ASSUME TypeOK, Current, NEW r \in Request, IsListing(r), IsListing(r)',
         \A o \in Request \ {r} : request'[o] = request[o],
         SameKey(request'[r], request[r]), request'[r].floor = request[r].floor,
         UNCHANGED <<feed, version, published>>
  PROVE  /\ TableServes'
         /\ \A o \in Request : IsListing(o)' => FloorInv(o)'
         /\ \A f, u, v : Serves(f, u, v) => Serves(f, u, v)'
<1>1. TableServes'
  BY DEF Current, TableServes, Covers
<1>2. \A o \in Request : /\ IsListing(o)' <=> IsListing(o)
                         /\ IsListing(o) => /\ SameKey(request'[o], request[o])
                                            /\ request'[o].floor = request[o].floor
  BY DEF IsListing, SameKey
<1>3. ASSUME NEW o \in Request, IsListing(o)' PROVE FloorInv(o)'
  BY <1>2, <1>3 DEF Current, FloorInv, SameKey, Covers
<1>4. ASSUME NEW f, NEW u, NEW v, Serves(f, u, v) PROVE Serves(f, u, v)'
  BY <1>2, <1>4 DEF Serves, SameKey, Covers
<1> QED BY <1>1, <1>3, <1>4

LEMMA MissCurrent ==
  ASSUME TypeOK, Current, NEW r \in Request, ReadCache(r),
         request' = [request EXCEPT ![r].pc = "feed"]
  PROVE  Current'
<1>1. request[r] \in Listing
  BY Shapes DEF ReadCache, At
<1>2. /\ request'[r] = [request[r] EXCEPT !.pc = "feed"]
      /\ \A o \in Request \ {r} : request'[o] = request[o]
      /\ UNCHANGED <<feed, version, cache, published>>
  BY DEF ReadCache, TypeOK
<1>3. /\ request'[r].pc = "feed" /\ request'[r].floor = request[r].floor
      /\ SameKey(request'[r], request[r])
  BY <1>1, <1>2 DEF Listing, SameKey
<1>4. IsListing(r) /\ IsListing(r)'
  BY <1>3 DEF ReadCache, At, IsListing
<1>5. \A o \in Request : At(o, "fill")' => At(o, "fill") /\ request'[o] = request[o]
  BY <1>2, <1>3 DEF At
<1> QED BY <1>2, <1>3, <1>4, <1>5, Onward DEF Current

(* What the table holds shows all that listings of any version began with.  *)
LEMMA ReadFeedCurrent ==
  ASSUME TypeOK, Current, NEW r \in Request, ReadFeed(r)
  PROVE  Current'
<1> DEFINE u == request[r].user  v == request[r].version
<1>1. request[r] \in Listing
  BY Shapes DEF ReadFeed, At
<1>2. /\ request'[r] = [request[r] EXCEPT !.pc = "fill", !.page = feed[u]]
      /\ \A o \in Request \ {r} : request'[o] = request[o]
      /\ UNCHANGED <<feed, version, cache, published>>
  BY DEF ReadFeed, TypeOK
<1>3. /\ request'[r].pc = "fill" /\ request'[r].floor = request[r].floor
      /\ request'[r].page = feed[u]
      /\ SameKey(request'[r], request[r])
  BY <1>1, <1>2 DEF Listing, SameKey
<1>4. IsListing(r) /\ IsListing(r)'
  BY <1>3 DEF ReadFeed, At, IsListing
<1>5. u \in User
  BY <1>1 DEF Listing
<1>6. Serves(feed[u], u, v)
  <2>1. Covers(feed[u], published[u]) /\ v <= version[u]
    BY <1>4, <1>5 DEF Current, TableServes, FloorInv
  <2>2. ASSUME NEW o \in Request, IsListing(o), request[o].user = u
        PROVE  Covers(feed[u], request[o].floor)
    <3>1. Covers(published[u], request[o].floor)
      BY <2>2 DEF Current, FloorInv
    <3>2. request[o].floor \in Feed
      BY <2>2, Shapes DEF IsListing, Listing
    <3> QED BY <1>5, <2>1, <3>1, <3>2, CoversTransitive DEF TypeOK
  <2> QED BY <2>1, <2>2 DEF Serves
<1>7. Serves(feed[u], u, v)'
  BY <1>2, <1>3, <1>4, <1>6, Onward DEF SameKey
<1>8. \A o \in Request \ {r} : At(o, "fill")' => At(o, "fill") /\ request'[o] = request[o]
  BY <1>2 DEF At
<1>9. \A o \in Request : At(o, "fill")' => Serves(request[o].page, request[o].user, request[o].version)'
  BY <1>2, <1>3, <1>4, <1>7, <1>8, Onward DEF Current, SameKey
<1>10. \A p \in cache' : Serves(p.feed, p.user, p.version)'
  BY <1>2, <1>3, <1>4, Onward DEF Current
<1> QED BY <1>2, <1>3, <1>4, <1>9, <1>10, Onward DEF Current

LEMMA FillKeepsCurrent ==
  ASSUME TypeOK, Current, NEW r \in Request, Fill(r)
  PROVE  Current'
<1> DEFINE p == CachedPage(r, request[r].version)
<1>1. /\ \A o \in Request : IsListing(o)' => IsListing(o) /\ request'[o] = request[o]
      /\ \A o \in Request : At(o, "fill")' => At(o, "fill") /\ request'[o] = request[o]
      /\ UNCHANGED <<feed, version, published>>
  BY DEF Fill, Answered, TypeOK, IsListing, At, Idle
<1>2. cache' \subseteq cache \cup {p}
  BY DEF Fill
<1>3. Serves(p.feed, p.user, p.version)
  BY DEF Current, Fill, CachedPage
<1>4. ASSUME NEW f, NEW u, NEW v, Serves(f, u, v) PROVE Serves(f, u, v)'
  BY <1>1, <1>4 DEF Serves, Covers
<1> HIDE DEF p
<1>5. \A q \in cache : Serves(q.feed, q.user, q.version)
  BY DEF Current
<1>6. \A q \in cache' : Serves(q.feed, q.user, q.version)'
  BY <1>2, <1>3, <1>4, <1>5
<1>7. \A o \in Request : IsListing(o)' => FloorInv(o)'
  BY <1>1 DEF Current, FloorInv, Covers
<1>8. \A o \in Request : At(o, "fill")' => Serves(request[o].page, request[o].user, request[o].version)'
  BY <1>1, <1>4 DEF Current
<1>9. TableServes'
  BY <1>1 DEF Current, TableServes, Covers
<1> QED BY <1>6, <1>7, <1>8, <1>9 DEF Current

(* The pages and the listings of the versions so far are left behind: none  *)
(* has the new version.                                                     *)
LEMMA InvalidateCurrent ==
  ASSUME TypeOK, TypeOK', Current, NEW r \in Request, NEW u \in User, InvalidateUserFeed(r, u)
  PROVE  Current'
<1>1. /\ version' = [version EXCEPT ![u] = @ + 1]
      /\ published' = [published EXCEPT ![u] = feed[u]]
      /\ UNCHANGED <<feed, cache>>
  BY DEF InvalidateUserFeed
<1>2. \A o \in Request : IsListing(o)' => IsListing(o) /\ request'[o] = request[o]
  BY DEF InvalidateUserFeed, TypeOK, IsListing, Idle
<1>3. \A o \in Request : IsListing(o) => /\ request[o].user \in User /\ request[o].version \in Nat
                                         /\ request[o].floor \in Feed
  BY Shapes DEF IsListing, Listing
<1>4. \A w \in User : /\ version[w] \in Nat
                      /\ version'[w] = IF w = u THEN version[w] + 1 ELSE version[w]
                      /\ published'[w] = IF w = u THEN feed[w] ELSE published[w]
  BY <1>1 DEF TypeOK
<1>5. TableServes'
  <2>1. Covers(feed[u], feed[u])
    BY CoversReflexive DEF TypeOK
  <2> QED BY <1>1, <1>4, <2>1 DEF Current, TableServes, Covers
<1>6. ASSUME NEW o \in Request, IsListing(o)' PROVE FloorInv(o)'
  <2> DEFINE q == request[o]
  <2>1. IsListing(o) /\ request'[o] = q /\ FloorInv(o)
    BY <1>2, <1>6 DEF Current
  <2>2. \A l \in Request : IsListing(l)' /\ SameKey(request'[l], q) => request'[l].floor = q.floor
    BY <1>2, <2>1 DEF FloorInv
  <2>3. CASE q.user = u
    <3>1. Covers(published[u], q.floor) /\ Covers(feed[u], published[u])
      BY <2>1, <2>3 DEF FloorInv, Current, TableServes
    <3>2. Covers(feed[u], q.floor)
      BY <1>3, <2>1, <3>1, CoversTransitive DEF TypeOK
    <3>3. q.version <= version[u] /\ version'[u] = version[u] + 1 /\ version[u] \in Nat /\ q.version \in Nat
      BY <1>3, <1>4, <2>1, <2>3 DEF FloorInv
    <3>4. q.version <= version'[u] /\ q.version # version'[u]
      BY <3>3
    <3> QED BY <1>4, <2>1, <2>2, <2>3, <3>2, <3>4 DEF FloorInv, Covers
  <2>4. CASE q.user # u
    BY <1>3, <1>4, <2>1, <2>2, <2>4 DEF FloorInv, Covers
  <2> QED BY <2>3, <2>4
<1>7. ASSUME NEW f, NEW w \in User, NEW v \in Nat, Serves(f, w, v) PROVE Serves(f, w, v)'
  <2>1. v <= version'[w] /\ (v = version'[w] => w # u /\ v = version[w])
    BY <1>4, <1>7 DEF Serves
  <2>2. v = version'[w] => Covers(f, published'[w])
    BY <1>4, <1>7, <2>1 DEF Serves
  <2> QED BY <1>2, <1>7, <2>1, <2>2 DEF Serves, Covers
<1>8. \A p \in cache' : Serves(p.feed, p.user, p.version)'
  BY <1>1, <1>7 DEF Current, TypeOK, Page
<1>9. ASSUME NEW o \in Request, At(o, "fill")'
      PROVE  Serves(request[o].page, request[o].user, request[o].version)'
  BY <1>2, <1>3, <1>7, <1>9 DEF Current, At, IsListing
<1> QED BY <1>5, <1>6, <1>8, <1>9 DEF Current

LEMMA CurrentStep == TypeOK /\ Current /\ [Next]_vars => Current'
<1> SUFFICES ASSUME TypeOK, Current, [Next]_vars PROVE Current'
  OBVIOUS
<1>0. TypeOK'
  BY TypeStep
<1>r. \A u \in User : feed[u] \in Feed /\ Covers(feed[u], feed[u])
  BY CoversReflexive DEF TypeOK
<1>1. ASSUME NEW r \in Request, NEW u \in User, ListMine(r, u) PROVE Current'
  BY <1>1, ListMineCurrent
<1>2. ASSUME NEW r \in Request, NEW targets \in SUBSET User, NEW rows, NEW status \in Status,
             \A u \in User, e \in Event : <<u, e>> \in rows => status >= feed[u][e],
             WriteRows(r, targets, rows, status)
      PROVE  Current'
  <2>1. \A u \in User : Covers(feed'[u], feed[u])
    BY <1>2, <1>r DEF WriteRows, Covers
  <2>2. \A o \in Request : IsListing(o)' => IsListing(o) /\ request'[o] = request[o]
    BY <1>2 DEF WriteRows, IsListing, TypeOK
  <2> QED BY <1>0, <1>2, <2>1, <2>2, Quiet DEF WriteRows
<1>3. ASSUME NEW r \in Request, NEW u \in User, NEW e \in Event, NEW pc \in {"markRead", "deleteOne"},
             EditRequested(r, u, e, pc)
      PROVE  Current'
  <2>1. \A o \in Request : IsListing(o)' => IsListing(o) /\ request'[o] = request[o]
    BY <1>3 DEF EditRequested, IsListing, TypeOK
  <2> QED BY <1>0, <1>3, <1>r, <2>1, Quiet DEF EditRequested
<1>4. ASSUME NEW r \in Request, Edit(r) PROVE Current'
  <2> DEFINE u == request[r].user  e == request[r].event
             status == IF At(r, "markRead") THEN read ELSE deleted
  <2>1. u \in User /\ e \in Event
    BY <1>4, Shapes DEF Edit, Editing
  <2>2. \/ feed' = [feed EXCEPT ![u][e] = status] /\ feed[u][e] <= status
        \/ feed' = feed
    BY <1>4 DEF Edit, Listed
  <2>3. status \in Status
    OBVIOUS
  <2> HIDE DEF u, e, status
  <2>4. \A w \in User : Covers(feed'[w], feed[w])
    BY <1>r, <2>1, <2>2, <2>3 DEF TypeOK, Feed, Covers
  <2>5. \A o \in Request : IsListing(o)' => IsListing(o) /\ request'[o] = request[o]
    BY <1>4 DEF Edit, Answered, IsListing, TypeOK, Idle
  <2> QED BY <1>0, <1>4, <2>4, <2>5, Quiet DEF Edit
<1>5. ASSUME NEW r \in Request, NEW u \in User, InvalidateUserFeed(r, u) PROVE Current'
  BY <1>0, <1>5, InvalidateCurrent
<1>6. ASSUME NEW r \in Request, ReadCache(r) PROVE Current'
  <2>1. CASE Answered(r)
    <3>1. \A o \in Request : IsListing(o)' => IsListing(o) /\ request'[o] = request[o]
      BY <2>1 DEF Answered, IsListing, TypeOK, Idle
    <3> QED BY <1>0, <1>6, <1>r, <3>1, Quiet DEF ReadCache
  <2>2. CASE request' = [request EXCEPT ![r].pc = "feed"]
    BY <1>6, <2>2, MissCurrent
  <2> QED BY <1>6, <2>1, <2>2 DEF ReadCache
<1>7. ASSUME NEW r \in Request, ReadFeed(r) \/ Fill(r) PROVE Current'
  BY <1>7, ReadFeedCurrent, FillKeepsCurrent
<1>8. ASSUME NEW failed \in SUBSET Request, Crash(failed) PROVE Current'
  <2>1. \A o \in Request : IsListing(o)' => IsListing(o) /\ request'[o] = request[o]
    BY <1>8 DEF Crash, IsListing, Idle
  <2> QED BY <1>0, <1>8, <1>r, <2>1, Quiet DEF Crash
<1>9. ASSUME NEW p \in cache, ExpirePage(p.user, p.version) PROVE Current'
  <2>1. \A o \in Request : IsListing(o)' => IsListing(o) /\ request'[o] = request[o]
    BY <1>9 DEF ExpirePage, IsListing
  <2> QED BY <1>0, <1>9, <1>r, <2>1, Quiet DEF ExpirePage
<1>10. CASE UNCHANGED vars
  <2>1. \A o \in Request : IsListing(o)' => IsListing(o) /\ request'[o] = request[o]
    BY <1>10 DEF IsListing
  <2> QED BY <1>0, <1>10, <1>r, <2>1, Quiet
<1>11. ASSUME NEW r \in Request, NEW u \in User, MarkAllRead(r, u) \/ DeleteAll(r, u) PROVE Current'
  BY <1>2, <1>11 DEF MarkAllRead, DeleteAll, Listed
<1>12. ASSUME NEW r \in Request, NEW targets \in Recipients, NEW e \in Event,
              CreateAndPush(r, targets, e)
       PROVE  Current'
  BY <1>2, <1>12 DEF CreateAndPush, Recipients
<1>13. ASSUME NEW r \in Request, NEW u \in User, NEW e \in Event,
              MarkRead(r, u, e) \/ DeleteOne(r, u, e)
       PROVE  Current'
  BY <1>3, <1>13 DEF MarkRead, DeleteOne
<1>14. ASSUME NEW r \in Request, Resume(r) PROVE Current'
  BY <1>4, <1>5, <1>6, <1>7, <1>14 DEF Resume
<1>15. ASSUME NEW failed \in {{r} : r \in Request} \cup {Request}, Crash(failed) PROVE Current'
  BY <1>8, <1>15, Failures
<1> QED BY <1>1, <1>9, <1>10, <1>11, <1>12, <1>13, <1>14, <1>15 DEF Next

LEMMA CurrentInit == Init => Current
<1> SUFFICES ASSUME Init PROVE Current
  OBVIOUS
<1>1. \A r \in Request : ~IsListing(r) /\ ~At(r, "fill")
  BY DEF Init, IsListing, At, Idle
<1>2. TableServes
  BY NoRowsType, CoversReflexive DEF Init, TableServes
<1> QED BY <1>1, <1>2 DEF Init, Current

(* ListingsCurrent: a listing never misses a change published before it     *)
(* began (listMine and its cache, feedCacheKey).                            *)
THEOREM ListingsCurrent == Spec => []ListingIsCurrent
  BY CurrentInit, TypeInit, TypeStep, CurrentStep, CurrentImplies, PTL DEF Spec

-----------------------------------------------------------------------------
(* The listings implement FeedPromise                                       *)

(* The rows only go forward.                                                *)
LEMMA WriteRowsForward ==
  ASSUME TypeOK, NEW r \in Request, NEW targets, NEW rows, NEW status \in Status,
         \A u \in User, e \in Event : <<u, e>> \in rows => status >= feed[u][e],
         WriteRows(r, targets, rows, status)
  PROVE  \A u \in User : Covers(feed'[u], feed[u])
<1>1. \A u \in User : feed[u] \in Feed /\ Covers(feed[u], feed[u])
  BY CoversReflexive DEF TypeOK
<1> QED BY <1>1 DEF WriteRows, Covers

LEMMA EditForward ==
  ASSUME TypeOK, NEW r \in Request, Edit(r)
  PROVE  \A u \in User : Covers(feed'[u], feed[u])
<1> DEFINE u == request[r].user  e == request[r].event
           status == IF At(r, "markRead") THEN read ELSE deleted
<1>1. u \in User /\ e \in Event
  BY Shapes DEF Edit, Editing
<1>2. \/ feed' = [feed EXCEPT ![u][e] = status] /\ feed[u][e] <= status
      \/ feed' = feed
  BY DEF Edit, Listed
<1>3. status \in Status
  OBVIOUS
<1>4. \A w \in User : feed[w] \in Feed /\ Covers(feed[w], feed[w])
  BY CoversReflexive DEF TypeOK
<1> HIDE DEF u, e, status
<1> QED BY <1>1, <1>2, <1>3, <1>4 DEF TypeOK, Feed, Covers

(* A step that touches neither versions nor pages, whatever it writes.      *)
Writing ==
  /\ UNCHANGED <<version, cache, published>>
  /\ \A u \in User : Covers(feed'[u], feed[u])

LEMMA Kinds ==
  ASSUME TypeOK, [Next]_vars
  PROVE  \/ Writing
         \/ \E r \in Request : Fill(r)
         \/ \E r \in Request, u \in User : InvalidateUserFeed(r, u)
         \/ \E p \in cache : ExpirePage(p.user, p.version)
<1>1. \A u \in User : Covers(feed[u], feed[u])
  BY CoversReflexive DEF TypeOK
<1>2. ASSUME UNCHANGED <<feed, version, cache, published>> PROVE Writing
  BY <1>1, <1>2 DEF Writing
<1>w. ASSUME NEW r \in Request, NEW targets, NEW rows, NEW status \in Status,
             \A u \in User, e \in Event : <<u, e>> \in rows => status >= feed[u][e],
             WriteRows(r, targets, rows, status)
      PROVE  Writing
  <2>1. \A u \in User : Covers(feed'[u], feed[u])
    BY <1>w, WriteRowsForward
  <2>2. UNCHANGED <<version, cache, published>>
    BY <1>w DEF WriteRows
  <2> QED BY <2>1, <2>2 DEF Writing
<1>3. ASSUME NEW r \in Request, NEW u \in User, MarkAllRead(r, u) \/ DeleteAll(r, u) PROVE Writing
  <2>1. CASE MarkAllRead(r, u)
    <3>1. \A w \in User, e \in Event :
            <<w, e>> \in {<<u, d>> : d \in {c \in Event : feed[u][c] = unread}} => read >= feed[w][e]
      OBVIOUS
    <3> QED BY <1>w, <2>1, <3>1 DEF MarkAllRead
  <2>2. CASE DeleteAll(r, u)
    <3>1. \A w \in User, e \in Event :
            <<w, e>> \in {<<u, d>> : d \in {c \in Event : Listed(feed[u], c)}} => deleted >= feed[w][e]
      BY DEF Listed
    <3> QED BY <1>w, <2>2, <3>1 DEF DeleteAll
  <2> QED BY <1>3, <2>1, <2>2
<1>4. ASSUME NEW r \in Request, NEW targets \in Recipients, NEW e \in Event,
             CreateAndPush(r, targets, e)
      PROVE  Writing
  <2>1. \A w \in User, d \in Event : <<w, d>> \in targets \X {e} => unread >= feed[w][d]
    BY <1>4 DEF CreateAndPush
  <2> QED BY <1>4, <1>w, <2>1 DEF CreateAndPush
<1>5. ASSUME NEW r \in Request, Edit(r) PROVE Writing
  BY <1>5, EditForward DEF Edit, Writing
<1>6. ASSUME NEW r \in Request, Resume(r), ~Fill(r), ~\E u \in User : InvalidateUserFeed(r, u)
      PROVE  Writing
  BY <1>2, <1>5, <1>6 DEF Resume, ReadCache, ReadFeed
<1>7. ASSUME NEW r \in Request, NEW u \in User,
             \/ ListMine(r, u)
             \/ \E e \in Event : MarkRead(r, u, e) \/ DeleteOne(r, u, e)
      PROVE  Writing
  BY <1>2, <1>7 DEF ListMine, MarkRead, DeleteOne, EditRequested
<1>8. ASSUME NEW failed, Crash(failed) PROVE Writing
  BY <1>2, <1>8 DEF Crash
<1>9. CASE UNCHANGED vars
  BY <1>2, <1>9
<1> QED BY <1>3, <1>4, <1>6, <1>7, <1>8, <1>9 DEF Next

(* No page, cached or about to be, is ahead of the table.                   *)
Behind ==
  /\ \A p \in cache : Covers(feed[p.user], p.feed)
  /\ \A r \in Request : At(r, "fill") => Covers(feed[request[r].user], request[r].page)

(* A page at "fill" was there before the step, or is the table just read.   *)
LEMMA Fetched ==
  ASSUME TypeOK, [Next]_vars, NEW r \in Request, At(r, "fill")'
  PROVE  \/ At(r, "fill") /\ request'[r] = request[r]
         \/ /\ request[r] \in Listing /\ request'[r].user = request[r].user
            /\ request'[r].page = feed[request[r].user] /\ feed' = feed
<1> SUFFICES ASSUME ~(At(r, "fill") /\ request'[r] = request[r])
             PROVE  /\ request[r] \in Listing /\ request'[r].user = request[r].user
                    /\ request'[r].page = feed[request[r].user] /\ feed' = feed
  OBVIOUS
<1>1. request'[r].pc = "fill" /\ request'[r] # request[r]
  BY DEF At
<1>2. ~UNCHANGED vars
  BY <1>1
<1>3. ASSUME NEW o \in Request, \A q \in Request \ {o} : request'[q] = request[q]
      PROVE  o = r
  BY <1>1, <1>3
<1>4. ASSUME NEW o \in Request, NEW q \in RequestState, q.pc # "fill",
             request' = [request EXCEPT ![o] = q]
      PROVE  FALSE
  BY <1>1, <1>3, <1>4, Moved
<1>5. Idle \in RequestState /\ Idle.pc = "idle"
  BY IdleType DEF Idle
<1>6. ASSUME NEW o \in Request, ReadFeed(o)
      PROVE  /\ request[r] \in Listing /\ request'[r].user = request[r].user
             /\ request'[r].page = feed[request[r].user] /\ feed' = feed
  <2>1. request[o] \in Listing
    BY <1>6, Shapes DEF ReadFeed, At
  <2>2. /\ request'[o] = [request[o] EXCEPT !.pc = "fill", !.page = feed[request[o].user]]
        /\ \A q \in Request \ {o} : request'[q] = request[q]
    BY <1>6 DEF ReadFeed, TypeOK
  <2>3. o = r
    BY <1>3, <2>2
  <2>4. request'[o].user = request[o].user /\ request'[o].page = feed[request[o].user]
    BY <2>1, <2>2 DEF Listing
  <2> QED BY <1>6, <2>1, <2>3, <2>4 DEF ReadFeed
<1>7. ASSUME NEW o \in Request, request'[o].pc # "fill",
             \A q \in Request \ {o} : request'[q] = request[q]
      PROVE  FALSE
  BY <1>1, <1>3, <1>7
<1>8. ASSUME NEW o \in Request, NEW u \in User, ListMine(o, u) PROVE FALSE
  BY <1>7, <1>8 DEF ListMine, TypeOK
<1>9. ASSUME NEW o \in Request, NEW targets, NEW rows, NEW status, WriteRows(o, targets, rows, status)
      PROVE  FALSE
  BY <1>7, <1>9 DEF WriteRows, TypeOK
<1>10. ASSUME NEW o \in Request, NEW u, NEW e, NEW pc \in {"markRead", "deleteOne"},
              EditRequested(o, u, e, pc)
       PROVE  FALSE
  BY <1>7, <1>10 DEF EditRequested, TypeOK
<1>11. ASSUME NEW o \in Request, Edit(o) PROVE FALSE
  BY <1>5, <1>7, <1>11 DEF Edit, Answered, TypeOK
<1>12. ASSUME NEW o \in Request, NEW u, InvalidateUserFeed(o, u) PROVE FALSE
  BY <1>5, <1>7, <1>12 DEF InvalidateUserFeed, TypeOK
<1>13. ASSUME NEW o \in Request, Fill(o) PROVE FALSE
  BY <1>5, <1>7, <1>13 DEF Fill, Answered, TypeOK
<1>14. ASSUME NEW o \in Request, ReadCache(o) PROVE FALSE
  <2>1. request[o] \in Listing
    BY <1>14, Shapes DEF ReadCache, At
  <2>2. request'[o] = Idle \/ request'[o] = [request[o] EXCEPT !.pc = "feed"]
    BY <1>14 DEF ReadCache, Answered, TypeOK
  <2>3. request'[o].pc # "fill"
    BY <1>5, <2>1, <2>2 DEF Listing
  <2>4. \A q \in Request \ {o} : request'[q] = request[q]
    BY <1>14 DEF ReadCache, Answered, TypeOK
  <2> QED BY <1>7, <2>3, <2>4
<1>15. ASSUME NEW failed, Crash(failed) PROVE FALSE
  BY <1>1, <1>5, <1>15 DEF Crash
<1>16. ASSUME NEW p, ExpirePage(p.user, p.version) PROVE FALSE
  BY <1>1, <1>16 DEF ExpirePage
<1>17. ASSUME NEW o \in Request, Resume(o) PROVE ReadFeed(o)
  BY <1>11, <1>12, <1>13, <1>14, <1>17 DEF Resume
<1>18. \E o \in Request : ReadFeed(o)
  <2>1. Next
    BY <1>2
  <2>2. ASSUME NEW o \in Request, NEW u \in User, MarkAllRead(o, u) \/ DeleteAll(o, u) PROVE FALSE
    BY <1>9, <2>2 DEF MarkAllRead, DeleteAll
  <2>3. ASSUME NEW o \in Request, NEW targets, NEW e, CreateAndPush(o, targets, e) PROVE FALSE
    BY <1>9, <2>3 DEF CreateAndPush
  <2>4. ASSUME NEW o \in Request, NEW u \in User, NEW e \in Event,
               MarkRead(o, u, e) \/ DeleteOne(o, u, e)
        PROVE  FALSE
    BY <1>10, <2>4 DEF MarkRead, DeleteOne
  <2> QED BY <1>8, <1>15, <1>16, <1>17, <2>1, <2>2, <2>3, <2>4 DEF Next
<1> QED BY <1>6, <1>18

LEMMA BehindStep == TypeOK /\ Behind /\ [Next]_vars => Behind'
<1> SUFFICES ASSUME TypeOK, Behind, [Next]_vars PROVE Behind'
  OBVIOUS
<1>0. TypeOK'
  BY TypeStep
<1>1. \A u \in User : feed[u] \in Feed /\ feed'[u] \in Feed
  BY <1>0 DEF TypeOK
<1>2. \A u \in User : Covers(feed'[u], feed[u])
  <2>1. CASE Writing
    BY <2>1 DEF Writing
  <2>2. CASE feed' = feed
    BY <1>1, <2>2, CoversReflexive
  <2> QED BY <2>1, <2>2, Kinds DEF Fill, InvalidateUserFeed, ExpirePage
<1>3. ASSUME NEW u \in User, NEW f \in Feed, Covers(feed[u], f) PROVE Covers(feed'[u], f)
  BY <1>1, <1>2, <1>3, CoversTransitive
<1>4. ASSUME NEW r \in Request, At(r, "fill")'
      PROVE  Covers(feed[request[r].user], request[r].page)'
  <2>1. CASE At(r, "fill") /\ request'[r] = request[r]
    <3>1. request[r] \in Listing
      BY <2>1, Shapes DEF At
    <3>2. request[r].user \in User /\ request[r].page \in Feed
      BY <3>1 DEF Listing
    <3>3. Covers(feed[request[r].user], request[r].page)
      BY <2>1 DEF Behind
    <3>4. Covers(feed'[request[r].user], request[r].page)
      BY <1>3, <3>2, <3>3
    <3> QED BY <2>1, <3>4 DEF Covers
  <2>2. CASE /\ request[r] \in Listing /\ request'[r].user = request[r].user
             /\ request'[r].page = feed[request[r].user] /\ feed' = feed
    <3>1. request[r].user \in User
      BY <2>2 DEF Listing
    <3>2. Covers(feed[request[r].user], feed[request[r].user])
      BY <1>1, <3>1, CoversReflexive
    <3> QED BY <2>2, <3>2 DEF Covers
  <2> QED BY <1>4, <2>1, <2>2, Fetched
<1>5. ASSUME NEW p \in cache' PROVE Covers(feed[p.user], p.feed)'
  <2>1. p \in cache \/ \E r \in Request : Fill(r) /\ p = CachedPage(r, request[r].version)
    BY <1>5, Kinds DEF Writing, Fill, InvalidateUserFeed, ExpirePage
  <2>2. p.user \in User /\ p.feed \in Feed
    BY <1>0 DEF TypeOK, Page
  <2>3. Covers(feed[p.user], p.feed)
    BY <2>1 DEF Behind, Fill, CachedPage
  <2> QED BY <1>3, <2>2, <2>3 DEF Covers
<1> QED BY <1>4, <1>5 DEF Behind

(* A page filed under an older version is never answered.                   *)
LEMMA FillShows ==
  ASSUME TypeOK, Current, Behind, NEW r \in Request, Fill(r)
  PROVE  \/ Promise!Show(request[r].user, request[r].page) /\ request[r].user \in User
                                                         /\ request[r].page \in Feed
         \/ UNCHANGED Promise!promised
<1>1. request[r] \in Listing
  BY Shapes DEF Fill, At
<1>2. PICK p \in Page : p = CachedPage(r, request[r].version)
  BY <1>1 DEF Listing, Page, CachedPage
<1>3. PICK u \in User, v \in Nat, f \in Feed :
        u = request[r].user /\ v = request[r].version /\ f = request[r].page
  BY <1>1 DEF Listing
<1>4. /\ cache' = (cache \ Stored(u, v)) \cup {p}
      /\ p.user = u /\ p.version = v /\ p.feed = f
      /\ UNCHANGED <<feed, version, published>>
  BY <1>2, <1>3 DEF Fill, CachedPage
<1>5. Serves(f, u, v) /\ Covers(feed[u], f)
  BY <1>3 DEF Current, Behind, Fill
<1>6. ASSUME NEW w \in User, ~(w = u /\ v = version[u])
      PROVE  Stored(w, version[w])' = Stored(w, version[w])
  BY <1>4, <1>6 DEF Stored
<1>7. CASE v = version[u]
  <2>1. Stored(u, version[u])' = {p}
    BY <1>4, <1>7 DEF Stored
  <2>2. Shown' = [Shown EXCEPT ![u] = {f}]
    BY <1>4, <1>6, <2>1 DEF Shown
  <2>3. Covers(f, published[u])
    BY <1>5, <1>7 DEF Serves
  <2>4. Promise!Show(u, f)
    BY <1>4, <1>5, <2>2, <2>3 DEF Promise!Show, Promise!Reaches, Covers
  <2> QED BY <1>3, <2>4
<1>8. CASE v # version[u]
  <2>1. Shown' = Shown
    BY <1>6, <1>8 DEF Shown
  <2> QED BY <1>4, <2>1 DEF Promise!promised
<1> QED BY <1>7, <1>8

(* No page has the version that an INCR is about to give.                   *)
LEMMA InvalidatePublishes ==
  ASSUME TypeOK, Current, NEW r \in Request, NEW u \in User, InvalidateUserFeed(r, u)
  PROVE  Promise!Publish(u)
<1>1. /\ version' = [version EXCEPT ![u] = @ + 1]
      /\ published' = [published EXCEPT ![u] = feed[u]]
      /\ UNCHANGED <<feed, cache>>
  BY DEF InvalidateUserFeed
<1>2. version'[u] = version[u] + 1 /\ version[u] \in Nat
  BY <1>1 DEF TypeOK
<1>3. \A p \in cache : p.user = u => p.version <= version[u] /\ p.version \in Nat
  BY DEF TypeOK, Page, Current, Serves
<1>4. Stored(u, version[u])' = {}
  BY <1>1, <1>2, <1>3 DEF Stored
<1>5. \A w \in User \ {u} : Stored(w, version[w])' = Stored(w, version[w])
  BY <1>1 DEF Stored, TypeOK
<1>6. Shown' = [Shown EXCEPT ![u] = {}]
  BY <1>4, <1>5 DEF Shown
<1> QED BY <1>1, <1>6 DEF Promise!Publish

LEMMA ExpireForgets ==
  ASSUME TypeOK, NEW p \in cache, ExpirePage(p.user, p.version)
  PROVE  (p.user \in User /\ Promise!Forget(p.user)) \/ UNCHANGED Promise!promised
<1> DEFINE u == p.user  v == p.version
<1>1. u \in User
  BY DEF TypeOK, Page
<1>2. cache' = cache \ Stored(u, v) /\ UNCHANGED <<feed, version, published>>
  BY DEF ExpirePage
<1> HIDE DEF u, v
<1>3. ASSUME NEW w \in User, ~(w = u /\ v = version[u])
      PROVE  Stored(w, version[w])' = Stored(w, version[w])
  BY <1>2, <1>3 DEF Stored
<1>4. CASE v = version[u]
  <2>1. Stored(u, version[u])' = {}
    BY <1>2, <1>4 DEF Stored
  <2>2. Shown' = [Shown EXCEPT ![u] = {}]
    BY <1>3, <2>1 DEF Shown
  <2> QED BY <1>1, <1>2, <2>2 DEF Promise!Forget, u
<1>5. CASE v # version[u]
  BY <1>2, <1>3, <1>5 DEF Shown, Promise!promised
<1> QED BY <1>4, <1>5

LEMMA PromiseStep ==
  TypeOK /\ Current /\ Behind /\ [Next]_vars => [Promise!PromiseNext]_(Promise!promised)
<1> SUFFICES ASSUME TypeOK, Current, Behind, [Next]_vars
             PROVE  Promise!PromiseNext \/ UNCHANGED Promise!promised
  OBVIOUS
<1>1. CASE Writing
  <2>1. Shown' = Shown
    BY <1>1 DEF Writing, Shown, Stored
  <2>2. Promise!Change
    BY <1>1, <2>1 DEF Writing, Promise!Change, Promise!Reaches, Covers
  <2> QED BY <2>2 DEF Promise!PromiseNext
<1>2. ASSUME NEW r \in Request, Fill(r) PROVE Promise!PromiseNext \/ UNCHANGED Promise!promised
  <2>1. Feed = [Event -> Promise!Stage]
    BY DEF Feed, Promise!Stage
  <2> QED BY <1>2, <2>1, FillShows DEF Promise!PromiseNext
<1>3. ASSUME NEW r \in Request, NEW u \in User, InvalidateUserFeed(r, u) PROVE Promise!PromiseNext
  BY <1>3, InvalidatePublishes DEF Promise!PromiseNext
<1>4. ASSUME NEW p \in cache, ExpirePage(p.user, p.version)
      PROVE  Promise!PromiseNext \/ UNCHANGED Promise!promised
  BY <1>4, ExpireForgets DEF Promise!PromiseNext
<1> QED BY <1>1, <1>2, <1>3, <1>4, Kinds

(* PromiseKept: the versioned cache implements FeedPromise: what a listing  *)
(* would be answered from it lies between the rows last published and those *)
(* the table holds, and no INCR leaves a page of before it to be answered   *)
(* (listMine, invalidateUserFeed).                                          *)
THEOREM PromiseKept == Spec => PromiseSpec
<1>1. Init => Promise!PromiseInit
  BY DEF Init, NoRows, Shown, Stored, Promise!PromiseInit
<1>2. Init => Behind
  BY DEF Init, Behind, At, Idle
<1> QED
  BY <1>1, <1>2, CurrentInit, TypeInit, TypeStep, CurrentStep, BehindStep, PromiseStep, PTL
     DEF Spec, PromiseSpec, Promise!PromiseSpec

-----------------------------------------------------------------------------
(* Freshness stays                                                          *)

(* The listings of u, and the ones that will fill the cache, show the table.*)
Fresh(u) ==
  /\ \A p \in Stored(u, version[u]) : p.feed = feed[u]
  /\ \A r \in Request :
       At(r, "fill") /\ request[r].user = u /\ request[r].version = version[u] =>
         request[r].page = feed[u]

LEMMA FreshStep ==
  ASSUME TypeOK, Current, [Next]_vars, NEW u \in User, Fresh(u), feed'[u] = feed[u]
  PROVE  Fresh(u)'
<1>1. version[u] \in Nat
  BY DEF TypeOK
<1>2. version'[u] \in {version[u], version[u] + 1}
  BY <1>1, Kinds DEF Writing, Fill, InvalidateUserFeed, ExpirePage, TypeOK
<1>3. ASSUME NEW p \in Stored(u, version[u])' PROVE p.feed = feed'[u]
  <2>1. p \in cache \/ \E r \in Request : Fill(r) /\ p = CachedPage(r, request[r].version)
    BY <1>3, Kinds DEF Stored, Writing, Fill, InvalidateUserFeed, ExpirePage
  <2>2. p.user = u /\ p.version = version'[u]
    BY <1>3 DEF Stored
  <2>3. CASE p \in cache
    <3>1. p.version <= version[u]
      BY <2>2, <2>3 DEF Current, Serves
    <3>2. p.version = version[u]
      BY <1>1, <1>2, <2>2, <3>1
    <3> QED BY <2>2, <2>3, <3>2 DEF Fresh, Stored
  <2>4. ASSUME NEW r \in Request, Fill(r), p = CachedPage(r, request[r].version)
        PROVE  p.feed = feed'[u]
    <3>1. version' = version
      BY <2>4 DEF Fill
    <3>2. request[r].user = u /\ request[r].version = version[u] /\ p.feed = request[r].page
      BY <2>2, <2>4, <3>1 DEF CachedPage
    <3> QED BY <2>4, <3>2 DEF Fresh, Fill
  <2> QED BY <2>1, <2>3, <2>4
<1>4. ASSUME NEW r \in Request, At(r, "fill")', request'[r].user = u,
             request'[r].version = version'[u]
      PROVE  request'[r].page = feed'[u]
  <2>1. CASE At(r, "fill") /\ request'[r] = request[r]
    <3>1. request[r].version <= version[u]
      BY <1>4, <2>1 DEF Current, FloorInv, IsListing, At
    <3>2. request[r].version = version[u]
      BY <1>1, <1>2, <1>4, <2>1, <3>1
    <3> QED BY <1>4, <2>1, <3>2 DEF Fresh
  <2>2. CASE ~(At(r, "fill") /\ request'[r] = request[r])
    BY <1>4, <2>2, Fetched
  <2> QED BY <2>1, <2>2
<1> QED BY <1>3, <1>4 DEF Fresh

(* FreshnessStays: once the cache shows a user's table and no listing is    *)
(* about to cache anything else, only a change of the rows ends that: no    *)
(* INCR, fill, expiry or failure does (the half of StalenessEnds that needs *)
(* no fairness).                                                            *)
THEOREM FreshnessStays ==
  Spec => [][\A u \in User : Fresh(u) /\ feed'[u] = feed[u] => Fresh(u)']_vars
<1>1. TypeOK /\ Current /\ [Next]_vars =>
        [\A u \in User : Fresh(u) /\ feed'[u] = feed[u] => Fresh(u)']_vars
  BY FreshStep
<1> QED BY <1>1, TypeInit, CurrentInit, TypeStep, CurrentStep, PTL DEF Spec

=============================================================================
