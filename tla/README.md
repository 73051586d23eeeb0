# Formal model of the Himba API

Himba is a music platform: a NestJS service (`src/src`) over PostgreSQL (Prisma,
`src/prisma/schema.prisma`), Redis, Stripe, an S3 object store, Mailjet and Expo push.
Node runs one request at a time *between* two awaits only, and several instances may
run side by side, so two requests interleave at every call to PostgreSQL, Redis or
Stripe. Almost nothing is done in a transaction. That is what these modules are about.

## Inventory

| Component | State | Operations | What is hard | What makes it correct |
|---|---|---|---|---|
| Sessions (`auth.service.ts` 453-742) | Redis `refresh:<user>:<jti>`, `session:<user>:<sid>`, `sessions:<user>`, `password-reset:<digest>` | login (issue, cap), refresh, logout, list, revoke, change and reset the password | every handler is a chain of separate Redis commands; TTLs; crashes | a rotated token is dead, a revoked session stays revoked, the index knows every usable session |
| Purchases (`payments.service.ts` 175-414) | Stripe intents and events, `purchases`, `album_purchases` | create an intent, webhook, (elsewhere) price change, delete | duplicated, concurrent and retried webhooks, price changed in between, deletions | every row is paid, once per item, no payment is forgotten |
| Login lockout (`auth.service.ts` 178-248, 374-383, 919-967) | Redis `login:fail:<login>`, `login:lock:<login>` | failed and successful attempts, unlock | INCR, EXPIRE and SET are three commands; overlapping attempts | bounded guesses, old failures expire |
| Registration and verification (`auth.service.ts` 131-176, 388-447, 777-873) | `users` row, Redis `email-verify:<digest>` | register, verify, resend, purge at 48 h | check then insert; purge racing verification | a verified account is never purged |
| Connect and KYC (`artists.service.ts` 76-329) | `artists` row, `users.role` | become, onboarding link, v1 and v2 webhooks, deauthorise | webhooks out of order, double account creation | ARTIST only after VERIFIED, never after deauthorisation |
| Moderation (`reports.service.ts`, `content-moderation.service.ts`, `users.service.ts`) | `reports`, `content_reviews`, `users.status`, covers | report, update a report, review, sample, sanction, administer, delete | the outcome is stored before it is acted upon; sanction, status and notification are separate; stale rows; two moderators | what a report or a review says was done, administrators are never sanctioned by a report, a track keeps a picture |
| Catalogue (`tracks.service.ts`, `albums.service.ts`) | `tracks`, `albums` | create, update, remove, attach, detach, stream, download | count then write; one update per track; object uploaded before the checks | the maximum and the positions of an album, one artist per album |
| Sales reports (`payments.service.ts` 416-755) | none, reads the purchases | statistics by day, week and month; pages over two tables | tables read one after the other, pages shifted by new sales, calendar edges | every series counts the sales of its days, a walk over the pages misses none |
| Notification feed (`notifications.service.ts`) | `notifications`, Redis version and pages | list, mark, delete, fan-out | cache filled by a slow reader; crash between write and invalidation | a feed shows every change that was answered |
| Playlists (`playlists.service.ts`) | `playlists`, `playlist_tracks` | add, remove, rename, delete | check then insert, positions after removals | a track once per playlist |
| Library, ratings, plays | single rows | upserts and deletes | - | - |
| Recommendations, histories | none | read only | - | - |
| Storage, mail, controllers, guards, DTOs, seeder, bootstrap | none of their own | I/O and declarative checks | - | - |

Components interact through the database rows (`users.status` and `users.role` are
written by moderation, by administrators and by the Stripe webhook, and read by every
authenticated request), through Redis, through calls (`ReportsService` and
`ContentModerationService` notify; the latter removes tracks and albums through
`TracksService` and `AlbumsService`) and through the Stripe webhook, which serves both
purchases and KYC.

## Modules

**`Sessions`** is one account's sessions. One action is the code between two awaits, so
a request is a record with a program counter (`pc` is the await it stands at) and every
interleaving of the requests in `Request` is explored. `refreshKey`, `record`, `index`
are the three kinds of Redis key; `indexStamp`, and the jtis in the other two, are the
times their TTLs run from. The users row is read but not kept: moderation changes it
without regard to sessions, so what a request reads of it is free (`Account`). `Crash`
ends a request at any await. The history variables `consumed`, `ended`, `raced` and
`orphaned` and the fields `owed` and `reply` of a request are read by properties only.

**`Purchases`** is the payments of any number of users for tracks and albums. An order
carries the name Stripe will give its intent and the amount read when it was created.
`Deliver` may deliver the event of a charged order at any time, again and concurrently;
`pending` are the events Stripe still has to retry. `CreateRow` is the insert with the
schema's unique and foreign keys. **`PurchaseLedger`** is the abstract specification (an
order is charged, then granted once, and a deletion takes it away); `Purchases`
implements it under `owned <- Purchased`.

**`LoginLockout`** is the failure counter and the lock of one login. An attempt is a
record at the await it stands at: a wrong password runs INCR, EXPIRE (first failure
only), SET of the lock and DEL of the counter as separate steps. The counter and the lock may expire in the order their TTLs started
(`lockFirst`): both last the same window. `orphaned` and `slips` are history: an attempt
that died before EXPIRE, and locks earned and lost.

**`NotificationFeed`** is the `notifications` table behind its cache. `feed` gives the status
of each user's row of each event, a page is cached under the user's version number, and a
change is the write of the table followed by one INCR per user it touched. A listing stands
between its four awaits (version, cached page, rows, fill), so a slow fill can meet any
write and any INCR. A failure of PostgreSQL, Redis or the process ends the requests in
flight. `published` and the `floor` of a listing are history. **`FeedPromise`** is the
abstract specification, without requests, versions and failures: rows go forward, what a
listing may be answered from the cache (`Shown`, the page under the user's current version)
lies between the rows last published and those of the table, and publishing ends what was
shown before.

**`ArtistKyc`** is one user on the way to being an artist: `role` of the users row,
`profile`, `account` and `kyc` of the artists row, and the Stripe accounts made for the
user with all the standings each has had (`seen`): Stripe delivers its events late, again
and in any order. A handler looks the artist up by account (`Find`) and later writes the
row it found by id (`Sync`, `Revoke`); these transactions lock the artists row first and
write the users row last, so they are one step each. `stale` remembers that a handler
wrote a row whose account had changed since it was read.

**`Reports`** is the reports of any users and what a moderator does with them. A request is
filing a report or settling one, at the await it stands at: `ResolveOwner` finds who is
responsible for the content as it is then, `FindUser` and `ApplySanction` are the two
queries of `applyAccountSanction`, `UpdateReport` writes the report and decides from the
status read at the start whether anybody is notified. `SetStatus`, `DeleteAccount` and
`RemoveContent` are the other handlers that write the rows a settlement reads. `heard`,
`mixed`, `verdict` and `done` are history: what a reporter was told, reports on which
updates overlapped, and the sanctions reports carry and accounts got.

**`Accounts`** is the rows of accounts that are, or may yet be, confirmed. `users` holds a row's
e-mail, username, verification, whether its 48 hours are over (`expired`), and the name of
its artist; `link` is the verification or reset link of each token in Redis. A request is
a registration (`Register` reads the owner of the e-mail, `FindUsername` that of the username,
`PurgeOwner` deletes an expired claim; then `CreateUser`, `SendLink`), a login or a resend
that finds an expired account and purges it, a link that is followed (read the key, find
the user, apply, drop the key), or a renaming with its artist, which begins with the read of
the present username. Verification by a link and by its code run the same steps.
`NameArtist` is `become` and `update` of the artists: an artist may take any name in `Name`,
and `Username` is a subset of `Name`, since nothing in the code keeps a display name from being
a username, somebody else's or its own. `raced`, `uses` and `due` in a row are history: the
requests whose purge is on its way while its account was confirmed; how often a reset token
served while its key is there; and the name the artist is due, which is the one last
given by hand, or the username (`Follows`) if none was or that was given, or no telling which
(`Unclear`) after renamings that overlapped, failed half-way or wrote over a name just given.
The age of a confirmed account is kept only while somebody who read it before may act on it.

**`Catalogue`** is tracks, albums, `tracks.albumId` and `tracks.albumPosition`. Creating a
track in an album counts the members, then inserts at that position; adding tracks counts,
finds them, then attaches one update at a time; removing finds, then detaches. Deletions of
tracks and albums are single statements. `overlapped` (albums two additions were counted for
at the same time) and `disturbed` (albums a track left or was added to again) are history.

**`ContentReviews`** is a review from `createReview` on: the outcome is stored, then
the artist is sanctioned, a cover taken or the content removed, and the artist told. Around
it artists publish, change covers, move tracks and leave, and `Sample` draws what a moderator
is offered, without what was found OK of late (`cooling`). `Shown` is the picture an answer
carries, the album's for a track that has none. `pending` (outcomes on record, neither
taken nor lost in a failure) and `stripped` (pictures a review took) are history.

**`SalesReports`** is the statistics and the pages of sales. `sold` is the `createdAt` of each
row, a report keeps the clock it read and what each table answered, a page reads two tables
and two counts in any order. The calendar (`StartOfWeek`, `MonthOf`, the series and their
buckets), the merge of the two tables and the paging are operators, compared with a count of
the sales of the same days. `constant`, `passing` and `walk` are history: the sales there
throughout a report, at some time during it, and what a client saw page after page.

The modules do not share variables: sessions, lockout and feed use Redis keys of their own,
and what one part reads of another's rows (status and verification of the account at a login,
the role of an administrator) is left free. Where two modules write one column
(`users.status` in `Reports` and `ContentReviews`, the purchases in `Purchases` and
`SalesReports`), each lets the writes of the other happen at any time.

**`MC...`** add the instances and symmetry sets used by the configurations, **`...Proofs`**
hold the theorems: `AuthenticationProofs` those of `Sessions` and `LoginLockout`,
`PaymentsProofs` those of `Purchases` and `SalesReports`, the others those of the module they
are named for. Where two modules meet in one of them, the second names its own `Init`,
`Next` and type invariant (`LockoutSpec`, `LockoutTypeOK`, `SalesSpec`, `SalesTypeOK`).

## Runs

| Run | Question | Bounds |
|---|---|---|
| `sessions_rotation` | rotation, revocation and the cap under races and crashes | 2 requests, cap 1, 3 sessions, 3 tokens |
| `sessions_password` | does the index keep every usable session, do the password handlers end what they find, with keys that expire | 2 requests, cap 2, 2 sessions, 3 tokens |
| `sessions_reset_all` | violated: a password reset misses a session the index has lost | 1 request, 1 session, 2 tokens |
| `purchases` | rows paid and unique, no payment forgotten, the ledger refined, a charged order ends in ownership or deletion | 1 buyer, 1 item, 2 intents, 2 prices, 2 workers, 1 crash, 2 changes |
| `lockout` | do the threshold and the TTLs hold under overlap and crashes | 3 attempts at once, threshold 3, counter at most 12, 2 crashes |
| `feed` | does a listing show what was published before it, does a stale page go away once the writes stop | 2 users, 1 event, 2 requests, 1 INCR per user (versions 0 and 1), 1 failure |
| `kyc` | does the role rest on an active account, whatever the events | 2 accounts, 2 requests, 1 failure |
| `reports` | are verdict, sanction and notification of a report consistent | 1 artist with 1 content, 1 administrator, 1 of 2 possible reports, 2 moderators, 1 failure |
| `accounts` | are accounts purged when due only, links used once, do artists bear the name they were given or follow the username | 2 accounts, 2 e-mails, 2 usernames, 1 more name for artists, 2 tokens, 2 requests |
| `catalogue` | do maximum and positions of albums hold up to overlap | 3 tracks, 2 albums of at most 2, 2 requests of at most 2 ids |
| `reviews` | is an outcome taken before the artist is told, do covers follow, does a sample skip what is checked | 1 artist, 1 track, 1 album, 2 pictures at a time, 1 request, 1 review and 1 sample at a time |
| `sales` | do the series, totals and pages say what was sold | 2 track sales, 1 album sale, 4 days of 2 moments, weeks of 3 days, months of 2 and 3, 2 points per series, 1 sale a page, 3 pages |

Why the bounds are enough: a race needs two requests; a rotation that races another one
needs two tokens and a third to see whether the first can come back; a cap is exceeded
at one session more than the cap. Two intents for one item give the double payment, two
prices the price change, and one crash falls between any two steps; tracks and albums run
the same code, so one item stands for both. Two moderators on one report meet every
interleaving of two settlements, and the two reports that may be filed are of a content,
whose owner may vanish, and of an administrator. The theorems below
hold for every value of the constants; what no theorem states rests on these bounds. Overlap beyond
the threshold needs as many attempts as the threshold; a stale fill needs one listing and
one write, and a second version to tell an old key from a new one; an account that is
replaced needs two accounts, and a stale write two requests. A claim that is replaced needs
two accounts over one e-mail, a purge that races a confirmation two requests, and a token
used twice two followers. An album is exceeded by two additions that each fit; three tracks
leave one to be moved or deleted meanwhile. Reviews touch one track and
one album: every path from a picture to where it is shown goes through one of them or
both. One review and one sample at a time meet every step of artists and administrators. Weeks of three days and months of
two or three make all boundaries meet within the clock, and pages of one sale make
every sale a boundary of pages. In `accounts.cfg` an artist may take either username,
whoever has it, or one more name, which stays apart from the username before and after a renaming.

The password runs and the rotation run share `Sessions` and differ in `Enabled`, the set
of handlers and events of a run; the theorems leave `Enabled` open. Deadlock is checked in
`lockout`, `feed`, `kyc`, `accounts`, `reviews` and `sales`. It is not where ids, tokens,
sessions or intents are bounded and may all be spent with nothing to do (`Sessions`,
`Purchases`, `Catalogue`), nor in `Reports`, where everybody may be deleted.

**Fairness.** In
`Purchases`, a request in flight goes on (weak fairness: Node resumes a request whose
await is settled) and Stripe delivers an unacknowledged event whenever a request can be
taken (strong fairness of each delivery: Stripe retries, and workers are free again and
again). Payments, price changes, deletions and failures are not fair; failures are
bounded by `MaxCrashes`, since Stripe stops retrying after days of failures. In
`NotificationFeed` a request in flight goes on and a cached page runs out (weak fairness:
its 30 seconds); writes, which `MaxVersion` bounds, are not fair.
The other modules have safety properties only and no fairness.

## Proofs

`Sessions` is proved for every number of requests, sessions and tokens and every cap.
The invariant `IInv` is the type invariant, facts about the store (`GlobalInv`: a
consumed token's key is gone and no record holds it after the rotation's request;
tokens, stamps and jtis were issued; two sessions never share a jti; a revoked session's
record returns only if it was raced; every held session with a record is listed) and
facts about each request (`RequestInv`: what its program counter says of its fields, what
it still holds of the store, and which of the sessions it owes are still to be visited).
The properties are not inductive alone: that a rotated token is dead rests on the
rotating request being the only one to write its new token, and that a password handler
is complete rests on the loop's remaining set covering what it owes.

`IndexedSessionsBounded` (`LimitHolds`) needs an order no variable keeps: the one in which
the logins in flight read the index. Every login evicts, of the sessions it found, all but the
newest that fit below the cap with its own, so one that knows of all listed sessions
keeps the bound, and those that read before it may each still list one. `LimitInv` says so at
every await: there is a ranking of the logins (`InOrder`, an existential whose witness the proof gives
for every step) in which the sessions counted, and the logins ahead of the last one
admitted, stay within the bound; and for every login that read later, the counted
sessions it does not know of were listed by others, one each (`Ordered`). Around it, a login
that has found a session knows it or evicts it (`Evicting`), one that has yet to read
knows of none (`Standing`), nobody knows of a session before it is listed
(`UnlistedIsUnknown`), and stamps are distinct, so that "newest" has no ties
(`StampsDiffer`).

`Purchases` is proved for all users, items, prices, commissions and numbers of workers.
`IInv` adds to the properties that a request confirms charged orders only, that a
request about to acknowledge has settled its order, and that an intent has one order.
The refinement theorem `ImplementsLedger` maps each step to a ledger step or a stutter.

`LoginLockout` is proved for any threshold and any number of attempts and crashes: the
counter has a TTL or an attempt on its way to set one, and a counter at the threshold an
attempt on its way to lock. `GuessesBounded` rests on `Headroom`: the failures counted and the attempts about to
be counted (`Guessing`) fit in the bound together, and as long as no lock is set the failures
from the threshold on are covered by attempts on their way to set it (`Locking`), which are not
among those to be counted; a lock that was lost lets every attempt in once more.
`NotificationFeed`: `ListingIsCurrent` rests on a page under
the current version holding every change published before that version began; it is
carried through each await of a listing and each write between table and INCR.
With `Behind` (no page, cached or about to be, is ahead of the table) that gives the
refinement `PromiseKept`: a write before its INCR is a change, a fill under a version left
behind is a stutter, and no page has a version that is yet to come. `FreshnessStays`
is an action property: once the pages and the fills under way of a user show the table, no
step but a change of the rows ends that. `StalenessEnds` adds that fairness gets there.
Both are theorems of the proof module that no run lists.
`ArtistKyc`: `VerifiedIsArtist` and `LinkedIsKept` are inductive with the types;
`RoleIsEarned` needs `Known`, that a delivery carrying VERIFIED was read from an account
that has been active.
`Reports`: `AdministratorsSpared` needs that a request about to sanction has found no
administrator (`Standing`). `SanctionsAreTaken` needs `Acting`: the account a settlement
found is still the one accused, or nobody is, since contents and accounts only go; and
what it decided is done, or its account gone, before the report is updated.
`ReporterKnows` needs four facts together: a report goes with its reporter alone, two
settlements of one report mark it `mixed`, a single one knows its status, and the reporter
was told unless somebody is about to.

`Accounts`: `PurgesAreDue` needs `PurgesDue`, that a request about to delete a row read it
expired and unconfirmed, and is marked `raced` if the account was confirmed since.
`LinksResetOnce` needs that fresh tokens have no key, that a held link was one that was
issued, that a reset token is followed by one request or is `shared`, and that a used token's key
is gone unless its request is about to drop it. `NamesFollow` needs `NamesHeld`: of an account
whose name is not `Unclear` at most one renaming is under way; until its last write that
renaming has the username the account has, which the artist bears when it is about to be
written (`Fits`); an artist that follows bears the next username when only the account is
left to be written, and the present one otherwise (`Trails`). Names are any texts, usernames
included, so no step rests on who else bears or has the name.
`Catalogue`: for an album no two additions overlapped on there is at most one counted
request; it has room for what it still carries (`Room`), and its next position is the size of
the album (`Placed`). `AlbumsStayOfOneArtist` states that tracks and their album have one
artist, by the ownership checks before the awaits, since neither ever changes artist.

`ContentReviews` is proved for any artists, tracks, albums and pictures. A moderator's
request is at a sanction only when its review says so (`Moderation`, `Fits`), and an outcome is
pending until the request that stored it has taken it. `SampleSkipsChecked`: while a sample is
drawn it leaves out all that is found OK of its kind (`Samples`). `PicturesFollowReviews` needs
that an upload owns its track's id until the row is inserted (`Uploads`), that members of an
album are of albums that exist and albums have covers (`Whole`), that a track without a
picture lost it to a review (`Bare`), and that nothing has again, as its own, the picture a review took from it
(`Lost`): uploads are new objects, and a track copies the cover of its album only before it has lost one.

`SalesReports` is proved for any sales, clock, calendar and length of the series and pages
(`SalesInv`). `StatisticsCount` rests on `ReportFollows`: what was there throughout is in every
table read and nothing read was never there; the rest is the calendar. Weeks are the multiples
of their length and months the intervals of `MonthFirst`, so that the days of a point are
those its bucket takes, none of them before the earliest day asked of the tables. `WalkSeesAll`
rests on `WalkFollows`: a sale the walk has not seen ranks, among all there are, behind the
pages it has had. New sales only raise a rank; a page holds every sale alone in its moment
whose rank it covers, because merging permutes the rows and gives such a sale its rank as
its place (`PlaceIsRank`); and behind the last page there is no rank, since the pages hold all
rows counted. Deletions lower ranks and end the walk: that is why the property excepts them.

Only model-checked: the violation and what is out of reach of the prover. Out of reach of the prover are `PaidIsEventuallyOwned` and `StalenessEnds`
(liveness under fairness, ENABLED), induction over data and RECURSIVE operators; no module
uses the latter. What is assumed are the
conditions on constants: `SessionsAssumption`, `PurchasesAssumption`,
`LockoutAssumption`, `FeedAssumption`, `KycAssumption`, `ReportsAssumption`,
`AccountsAssumption`, `CatalogueAssumption`, `ReviewsAssumption` and `SalesAssumption`. They
say that requests, sales and whatever is counted are finite sets, that bounds are numbers,
that values standing for "none" (`NoAlbum`, `NoArtist`) are no ids and no names, that
usernames are names artists may take, and of the calendar that months grow and that those of
the series around every day of the clock are given.

## Findings

One run is a violation: the session index is renewed by logins only, so a session kept
alive by refreshes can outlive it, and a password reset does not end that session
(`sessions_reset_all`), against what the tests say of the reset.

The properties that hold name the behaviours they except, and the runs reach them:

- The lockout counter gets its TTL in a command of its own; a crash in between leaves a
  counter that never expires (`orphaned`).
- The session cap is counted before the new session is written, so overlapping logins
  exceed it; `IndexedSessionsBounded` says by how much.
- `changePassword` revokes through a function that throws when a listed session has expired:
  the answer is 401 though the password is changed, and later sessions survive.
- A KYC event that found the artist before a revocation writes its verdict after it (`stale`).
- An account confirmed while its purge is on its way is deleted (`raced`); a reset token
  works twice for two requests at once, or when its key is not dropped (`shared`).
- A renaming that fails half-way leaves the artist with another name, and one that is about to
  write the artist writes over a name given by hand meanwhile (`Unclear`). With no race at all an
  artist may take the username of somebody else, and one that takes its own username by hand
  is renamed with it: names are compared as texts.
- Two onboardings at once, and a second delivery of a deauthorisation, leave the user with an
  account the row does not know (`stale`); two moderators who settle one report at once may both
  notify or tell the earlier verdict last (`mixed`).
- Overlapping additions exceed the maximum of an album (`overlapped`). A removal leaves a
  hole in the positions, and the next addition then repeats one (`disturbed`).
- A track whose cover was taken is shown with the cover of its album.
- A page read while sales are deleted skips rows.

Two more disagreements of text and code were met while modelling and have no run of their own:

- `prisma/schema.prisma:24` says of the KYC "upload / rôle ARTIST seulement si VERIFIED".
  `applyKycSync` gives the role with VERIFIED but leaves it when a later event makes the artist
  RESTRICTED (`artists.service.ts` 271-295); only a deauthorisation
  or an administrator takes it back. `RoleIsEarned`
  therefore asks that the account was active once.
- The sanction CONTENT_REMOVED of a report tells the account that its content was taken down or
  hidden (`report-sanction.ts` 19-20), while `updateStatus` writes nothing but the report; content
  is removed by reviews. `SanctionsAreTaken` is about the sanctions that write the account.

What a property excepts it cannot catch: the hazards in `PROJECT.json` name the properties that
would notice, and a note says so where the behaviour is reached by a run and excepted.

## Not modelled

Playlists are rows of one user alone, added like tracks to an album but at positions a
client may choose. Library, ratings and plays are single statements of PostgreSQL;
recommendations and the lists by cursor only read, in an order PostgreSQL makes. Storage,
mail, controllers, guards, DTO validation and the bootstrap hold no state; what they let
through is in the guards of the actions, and that a mail or an upload may fail is in
`Accounts` and `ContentReviews`. Objects left in the store by refused requests are never
read. Push tokens and the texts of notifications are left out of the feed, biography and
ratings of artists out of `ArtistKyc`, the signed URLs of streams and downloads out of
`Catalogue`. The seeder runs once at start. Tokens are unforgeable and clocks are abstracted
to the order of writes.

## Plan

All modules planned at first are written, and every safety property of every passing run
is a theorem. What is left:

1. An abstract case (filed, sanctioned, settled) over reports and reviews.
2. The half of `PaidIsEventuallyOwned` that needs no fairness, as `FreshnessStays` is that of
   `StalenessEnds`.
3. Playlists, whose additions share positions as those of albums do.
