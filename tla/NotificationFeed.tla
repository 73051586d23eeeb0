-------------------------- MODULE NotificationFeed --------------------------
(***************************************************************************)
(* The notifications of users (table `notifications`) and the cache in     *)
(* front of them (src/src/notifications/notifications.service.ts).         *)
(*                                                                         *)
(* A listing reads the user's feed version in Redis, looks for the page    *)
(* cached under that version and, on a miss, reads the table and caches    *)
(* what it found for 30 seconds.  A write changes the table first and then *)
(* moves each user it touched to the next version, one INCR per user.      *)
(*                                                                         *)
(* Each request below is a chain of awaits; the model keeps one page per   *)
(* user, long enough for the whole feed.  Pushes to Expo keep no state.    *)
(***************************************************************************)
EXTENDS Naturals, FiniteSets

CONSTANTS User, Event,
          Request,      \* requests in flight at the same time
          MaxVersion,   \* bound: writes per user
          MaxCrashes    \* bound: requests that die, processes that stop

ASSUME FeedAssumption == MaxVersion \in Nat /\ MaxCrashes \in Nat

VARIABLES
  feed,       \* the table: the status of each user's notification of an event
  version,    \* notif:feed:ver:<user>, 0 when the key is absent
  cache,      \* the pages notif:feed:<user>:v<version>
  request,
  crashes,
  \* History, read by the properties alone:
  published,  \* the user's feed at the last INCR of its version
  orphaned    \* users whose INCR died with its request, until the next one

history == <<published, orphaned>>
vars == <<feed, version, cache, request, crashes, history>>

-----------------------------------------------------------------------------
(* The statuses, in the order a row goes through them.                      *)
absent == 0  unread == 1  read == 2  deleted == 3
Status == absent .. deleted

Feed    == [Event -> Status]
NoRows  == [e \in Event |-> absent]
Version == Nat
Page    == [user: User, version: Version, feed: Feed, ttl: BOOLEAN]

(* p shows every change that q shows.                                       *)
Covers(p, q) == \A e \in Event : p[e] >= q[e]

Listed(f, e) == f[e] \in {unread, read}

(* A request, by the await it stands at; `floor` is the history of a        *)
(* listing: what was published when it began.                               *)
Idle       == [pc |-> "idle"]
Listing    == [pc: {"cache", "feed", "fill"}, user: User, version: Version,
               page: Feed, floor: Feed]
Editing    == [pc: {"markRead", "deleteOne"}, user: User, event: Event]
Publishing == [pc: {"incr"}, targets: SUBSET User]

At(r, pc) == request[r].pc = pc

(* r has changed u's rows and will increment u's version, unless it fails.  *)
Owes(r, u) == At(r, "incr") /\ u \in request[r].targets

Writes(r, u) ==
  \/ Owes(r, u)
  \/ request[r].pc \in {"markRead", "deleteOne"} /\ request[r].user = u

Room(u) == version[u] + Cardinality({r \in Request : Writes(r, u)}) < MaxVersion

Init ==
  /\ feed = [u \in User |-> NoRows]
  /\ version = [u \in User |-> 0]
  /\ cache = {}
  /\ request = [r \in Request |-> Idle]
  /\ crashes = 0
  /\ published = feed /\ orphaned = {}

-----------------------------------------------------------------------------
(* listMine                                                                 *)

Answered(r) == request' = [request EXCEPT ![r] = Idle]

Stored(u, v) == {p \in cache : p.user = u /\ p.version = v}

ListMine(r, u) ==
  /\ At(r, "idle")
  /\ request' = [request EXCEPT ![r] =
       [pc |-> "cache", user |-> u, version |-> version[u],
        page |-> NoRows, floor |-> published[u]]]
  /\ UNCHANGED <<feed, version, cache, crashes, history>>

(* A hit is answered at once.                                               *)
ReadCache(r) ==
  /\ At(r, "cache")
  /\ IF Stored(request[r].user, request[r].version) # {}
     THEN Answered(r)
     ELSE request' = [request EXCEPT ![r].pc = "feed"]
  /\ UNCHANGED <<feed, version, cache, crashes, history>>

ReadFeed(r) ==
  /\ At(r, "feed")
  /\ request' = [request EXCEPT ![r].pc = "fill", ![r].page = feed[request[r].user]]
  /\ UNCHANGED <<feed, version, cache, crashes, history>>

CachedPage(r, v) ==
  [user |-> request[r].user, version |-> v, feed |-> request[r].page, ttl |-> TRUE]

(* Mutant: the page is filed under the version the user has by now.         *)
FillCurrent(r) ==
  /\ At(r, "fill")
  /\ LET p == CachedPage(r, version[request[r].user])
     IN  cache' = (cache \ Stored(p.user, p.version)) \cup {p}
  /\ Answered(r)
  /\ UNCHANGED <<feed, version, crashes, history>>

(* Mutant: the page is stored next to the one already there.                *)
FillBeside(r) ==
  /\ At(r, "fill")
  /\ cache' = cache \cup {CachedPage(r, request[r].version)}
  /\ Answered(r)
  /\ UNCHANGED <<feed, version, crashes, history>>

(* Mutant: the page is stored without a TTL.                                *)
FillForever(r) ==
  /\ At(r, "fill")
  /\ LET p == [CachedPage(r, request[r].version) EXCEPT !.ttl = FALSE]
     IN  cache' = (cache \ Stored(p.user, p.version)) \cup {p}
  /\ Answered(r)
  /\ UNCHANGED <<feed, version, crashes, history>>

(* The page is filed under the version read before the table was.           *)
Fill(r) ==
  /\ At(r, "fill")
  /\ LET p == CachedPage(r, request[r].version)
     IN  cache' = (cache \ Stored(p.user, p.version)) \cup {p}
  /\ Answered(r)
  /\ UNCHANGED <<feed, version, crashes, history>>

-----------------------------------------------------------------------------
(* The writes.  An edit of a row that is gone, or of one already read, is   *)
(* answered without a change.                                               *)

EditRequested(r, u, e, pc) ==
  /\ At(r, "idle") /\ Room(u)
  /\ request' = [request EXCEPT ![r] = [pc |-> pc, user |-> u, event |-> e]]
  /\ UNCHANGED <<feed, version, cache, crashes, history>>

MarkRead(r, u, e)  == feed[u][e] = unread /\ EditRequested(r, u, e, "markRead")
DeleteOne(r, u, e) == Listed(feed[u], e) /\ EditRequested(r, u, e, "deleteOne")

(* The update by id that follows the check; it fails on a row deleted since.*)
Edit(r) ==
  /\ request[r].pc \in {"markRead", "deleteOne"}
  /\ LET u == request[r].user  e == request[r].event
     IN  IF Listed(feed[u], e)
         THEN /\ feed' = [feed EXCEPT ![u][e] = IF At(r, "markRead") THEN read ELSE deleted]
              /\ request' = [request EXCEPT ![r] = [pc |-> "incr", targets |-> {u}]]
         ELSE Answered(r) /\ UNCHANGED feed
  /\ UNCHANGED <<version, cache, crashes, history>>

(* One statement that takes the rows of `rows` to `status`.                 *)
WriteRows(r, targets, rows, status) ==
  /\ At(r, "idle") /\ \A u \in targets : Room(u)
  /\ feed' = [u \in User |-> [e \in Event |-> IF <<u, e>> \in rows THEN status ELSE feed[u][e]]]
  /\ request' = [request EXCEPT ![r] = [pc |-> "incr", targets |-> targets]]
  /\ UNCHANGED <<version, cache, crashes, history>>

MarkAllRead(r, u) ==
  WriteRows(r, {u}, {<<u, e>> : e \in {d \in Event : feed[u][d] = unread}}, read)

DeleteAll(r, u) ==
  WriteRows(r, {u}, {<<u, e>> : e \in {d \in Event : Listed(feed[u], d)}}, deleted)

(* Whom a release, a follow, a report, its handling or a review is notified *)
(* to: followers, an artist, administrators, a reporter, an account.        *)
Recipients == SUBSET User \ {{}}

(* createAndPush: one createMany for all the recipients.                    *)
CreateAndPush(r, targets, e) ==
  /\ \A u \in targets : feed[u][e] = absent
  /\ WriteRows(r, targets, targets \X {e}, unread)

(* Mutant: the loop over the users of a fan-out ends with the first.        *)
InvalidateFirst(r, u) ==
  /\ At(r, "incr") /\ u \in request[r].targets
  /\ version' = [version EXCEPT ![u] = @ + 1]
  /\ Answered(r)
  /\ published' = [published EXCEPT ![u] = feed[u]]
  /\ orphaned' = orphaned \ {u}
  /\ UNCHANGED <<feed, cache, crashes>>

(* invalidateUserFeed, and its loop over the users of a fan-out.            *)
InvalidateUserFeed(r, u) ==
  /\ At(r, "incr") /\ u \in request[r].targets
  /\ version' = [version EXCEPT ![u] = @ + 1]
  /\ request' = [request EXCEPT ![r] =
       IF request[r].targets = {u}
       THEN Idle
       ELSE [pc |-> "incr", targets |-> request[r].targets \ {u}]]
  /\ published' = [published EXCEPT ![u] = feed[u]]
  /\ orphaned' = orphaned \ {u}
  /\ UNCHANGED <<feed, cache, crashes>>

-----------------------------------------------------------------------------
(* The environment.                                                         *)

ExpirePage(u, v) ==
  /\ \E p \in Stored(u, v) : p.ttl
  /\ cache' = cache \ Stored(u, v)
  /\ UNCHANGED <<feed, version, request, crashes, history>>

(* A failed await ends its request.  The fan-out of a release runs without  *)
(* a handler for its rejection: there it ends the process, and every        *)
(* request in flight.                                                       *)
Crash(failed) ==
  /\ crashes < MaxCrashes /\ \E r \in failed : ~At(r, "idle")
  /\ crashes' = crashes + 1
  /\ orphaned' = orphaned \cup
       UNION {request[r].targets : r \in {q \in failed : At(q, "incr")}}
  /\ request' = [r \in Request |-> IF r \in failed THEN Idle ELSE request[r]]
  /\ UNCHANGED <<feed, version, cache, published>>

Resume(r) ==
  \/ ReadCache(r) \/ ReadFeed(r) \/ Fill(r) \/ Edit(r)
  \/ \E u \in User : InvalidateUserFeed(r, u)

Next ==
  \/ \E r \in Request :
       \/ \E u \in User :
            \/ ListMine(r, u) \/ MarkAllRead(r, u) \/ DeleteAll(r, u)
            \/ \E e \in Event : MarkRead(r, u, e) \/ DeleteOne(r, u, e)
       \/ \E targets \in Recipients, e \in Event : CreateAndPush(r, targets, e)
       \/ Resume(r)
  \/ \E failed \in {{r} : r \in Request} \cup {Request} : Crash(failed)
  \/ \E p \in cache : ExpirePage(p.user, p.version)

Spec == Init /\ [][Next]_vars

(* A request goes on when its await is settled, and Redis drops a page when *)
(* its 30 seconds are over.                                                 *)
FairSpec ==
  /\ Spec
  /\ \A r \in Request : WF_vars(Resume(r))
  /\ \A u \in User, v \in 0 .. MaxVersion : WF_vars(ExpirePage(u, v))

-----------------------------------------------------------------------------
TypeOK ==
  /\ feed \in [User -> Feed] /\ published \in [User -> Feed]
  /\ version \in [User -> Version]
  /\ cache \subseteq Page
  /\ \A p, q \in cache : p.user = q.user /\ p.version = q.version => p = q
  /\ request \in [Request -> {Idle} \cup Listing \cup Editing \cup Publishing]
  /\ crashes \in 0 .. MaxCrashes
  /\ orphaned \subseteq User

(* ListingIsCurrent: a listing, from the cache or from the table, shows     *)
(* every change that had been published when it began, however slowly other *)
(* listings fill the cache and whatever is written meanwhile.               *)
ListingIsCurrent ==
  \A r \in Request :
    /\ At(r, "cache") =>
         \A p \in Stored(request[r].user, request[r].version) : Covers(p.feed, request[r].floor)
    /\ At(r, "fill") => Covers(request[r].page, request[r].floor)

(* ChangesArePublished: a change of the table that no INCR followed still   *)
(* has a request that will do one, or lost it to a failure.                 *)
ChangesArePublished ==
  \A u \in User : feed[u] # published[u] => u \in orphaned \/ \E r \in Request : Owes(r, u)

(* StalenessEnds: when the writes stop, listings end up with what the table *)
(* holds, even after the invalidations a failure lost.                      *)
StalenessEnds ==
  \A u \in User : <>[](\A p \in Stored(u, version[u]) : p.feed = feed[u])

-----------------------------------------------------------------------------
(* The listings implement FeedPromise: what a listing that begins now may   *)
(* be answered from the cache.                                              *)
Shown == [u \in User |-> {p.feed : p \in Stored(u, version[u])}]

Promise == INSTANCE FeedPromise WITH table <- feed, shown <- Shown
PromiseSpec == Promise!PromiseSpec

=============================================================================
