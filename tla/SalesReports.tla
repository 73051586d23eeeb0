----------------------------- MODULE SalesReports -----------------------------
(***************************************************************************)
(* What administrators are told about sales                                *)
(* (src/src/payments/payments.service.ts, src/src/common/pagination): the  *)
(* totals and series of getSalesStatsForAdmin, and the pages of            *)
(* listSalesForAdmin, which merges two tables.  Neither reads in a         *)
(* transaction: a report reads the clock once and each table once, a page  *)
(* reads the latest rows of both tables and counts them in four queries    *)
(* that run at the same time, while sales are made and deleted.            *)
(* Reports change nothing, so that one at a time shows all there is.       *)
(***************************************************************************)
EXTENDS Integers, Sequences, FiniteSets, FiniteSetsExt, SequencesExt

CONSTANTS TrackSale, AlbumSale,  \* rows of purchases and of album_purchases
          Amount,                \* of each sale, in cents
          Moments,               \* moments told apart in a day
          LastMoment,            \* bound of the clock
          Week,                  \* days in a week; day 0 is a Monday
          MonthFirst,            \* the first day of each month
          Days, Weeks, Months,   \* the points of each series
          Limit,                 \* sales on a page
          MaxPage                \* bound: pages asked for

Sale == TrackSale \cup AlbumSale

ASSUME SalesAssumption ==
  /\ IsFiniteSet(Sale) /\ TrackSale \cap AlbumSale = {} /\ Amount \in [Sale -> Nat]
  /\ {Moments, Week, Days, Weeks, Months, Limit, MaxPage} \subseteq Nat \ {0}
  /\ LastMoment \in Nat
  /\ DOMAIN MonthFirst \subseteq Int /\ MonthFirst \in [DOMAIN MonthFirst -> Int]
  /\ \A m, n \in DOMAIN MonthFirst : m < n => MonthFirst[m] < MonthFirst[n]
  \* Every day of the clock is in a month, and the months of its series are given.
  /\ \A d \in 0 .. LastMoment \div Moments :
       \E m \in DOMAIN MonthFirst : /\ MonthFirst[m] <= d /\ d < MonthFirst[m + 1]
                                    /\ m - (Months - 1) .. m + 1 \subseteq DOMAIN MonthFirst

VARIABLES
  clock,
  sold,     \* createdAt of each row, Unsold or Deleted
  request,
  \* History, read by the properties alone:
  constant, \* sales that have been there since the report was asked for
  passing,  \* sales that were there at some time since
  walk      \* a client that asks for page after page, from the first

history   == <<constant, passing, walk>>
salesVars == <<clock, sold, request, history>>

Unsold  == -1
Deleted == -2
There   == {s \in Sale : sold[s] >= 0}

Event == [sale: Sale, at: 0 .. LastMoment]
Events(S) == {[sale |-> s, at |-> sold[s]] : s \in S}

(* A request holds what the tables it has read, or counted, answered.       *)
Table     == {"purchases", "albumPurchases"}
Of(table) == IF table = "purchases" THEN TrackSale ELSE AlbumSale

Idle        == [pc |-> "idle"]
Reporting   == [pc: {"stats"}, now: 0 .. LastMoment, read: SUBSET Table,
                found: [Table -> SUBSET Event]]
Listing     == [pc: {"list"}, page: 1 .. MaxPage, read: SUBSET Table, counted: SUBSET Table,
                found: [Table -> Seq(Event)], total: [Table -> Nat]]

(* A walk is followed until a row is deleted, a sale is made while a page   *)
(* is being read, or something else is asked for.                           *)
NoWalk == [next |-> 0, standing |-> {}, seen |-> {}, done |-> FALSE]
Walk   == [next: 0 .. MaxPage + 1, standing: SUBSET Event, seen: SUBSET Event, done: BOOLEAN]

SalesInit ==
  /\ clock = 0 /\ sold = [s \in Sale |-> Unsold] /\ request = Idle
  /\ constant = {} /\ passing = {} /\ walk = NoWalk

-----------------------------------------------------------------------------
(* The calendar.  A day is its startOfUtcDay, a week its Monday, a month    *)
(* its number.                                                              *)
Day(t) == t \div Moments

(* Mutant: weeks begin on Sundays.                                          *)
StartOfSunday(d) == d - ((d + 1) % Week)

StartOfWeek(d) == d - (d % Week)

MonthOf(d) == Max({m \in DOMAIN MonthFirst : MonthFirst[m] <= d})

DailyFrom(today)   == today - (Days - 1)
WeeklyFrom(today)  == StartOfWeek(today) - Week * (Weeks - 1)
MonthlyFrom(today) == MonthOf(today) - (Months - 1)

Earliest(today) == Min({DailyFrom(today), WeeklyFrom(today), MonthFirst[MonthlyFrom(today)]})

(* addEvent, for all events of E.                                           *)
Total(E) == FoldSet(LAMBDA e, sum : Amount[e.sale] + sum, 0, E)

Bucket(E) ==
  [count  |-> Cardinality(E),
   amount |-> Total(E),
   tracks |-> Cardinality({e \in E : e.sale \in TrackSale}),
   albums |-> Cardinality({e \in E : e.sale \in AlbumSale})]

AggregateSince(E, day) == Bucket({e \in E : Day(e.at) >= day})

DailySeries(E, today) ==
  [d \in DailyFrom(today) .. today |-> Bucket({e \in E : Day(e.at) = d})]

WeeklySeries(E, today) ==
  [w \in {WeeklyFrom(today) + Week * k : k \in 0 .. Weeks - 1} |->
     Bucket({e \in E : StartOfWeek(Day(e.at)) = w})]

MonthlySeries(E, today) ==
  [m \in MonthlyFrom(today) .. MonthOf(today) |-> Bucket({e \in E : MonthOf(Day(e.at)) = m})]

-----------------------------------------------------------------------------
(* A webhook makes a sale, now; rows go with their buyer or what he bought. *)
Sell(s) ==
  /\ sold[s] = Unsold
  /\ sold' = [sold EXCEPT ![s] = clock]
  /\ passing' = IF request.pc = "stats" THEN passing \cup {[sale |-> s, at |-> clock]} ELSE passing
  /\ walk' = IF request.pc = "list" THEN NoWalk ELSE walk
  /\ UNCHANGED <<clock, request, constant>>

DeleteSale(s) ==
  /\ s \in There
  /\ sold' = [sold EXCEPT ![s] = Deleted]
  /\ constant' = {e \in constant : e.sale # s}
  /\ walk' = NoWalk
  /\ UNCHANGED <<clock, request, passing>>

Tick ==
  /\ clock < LastMoment
  /\ clock' = clock + 1
  /\ UNCHANGED <<sold, request, history>>

-----------------------------------------------------------------------------
(* getSalesStatsForAdmin reads the clock, then both tables.                 *)
GetSalesStats ==
  /\ request = Idle
  /\ request' = [pc |-> "stats", now |-> clock, read |-> {}, found |-> [t \in Table |-> {}]]
  /\ constant' = Events(There) /\ passing' = Events(There) /\ walk' = NoWalk
  /\ UNCHANGED <<clock, sold>>

FindSales(table) ==
  /\ request.pc = "stats" /\ table \notin request.read
  /\ LET rows == Events({s \in Of(table) \cap There :
                           Day(sold[s]) >= Earliest(Day(request.now))})
     IN  request' = [request EXCEPT !.read = @ \cup {table}, !.found[table] = rows]
  /\ UNCHANGED <<clock, sold, history>>

AnswerStats ==
  /\ request.pc = "stats" /\ request.read = Table
  /\ request' = Idle
  /\ constant' = {} /\ passing' = {}
  /\ UNCHANGED <<clock, sold, walk>>

-----------------------------------------------------------------------------
(* Mutant: a request without page is not given the first.                   *)
ParsePageRaw(asked) == asked

(* parsePage; 0 stands for no page at all.                                  *)
ParsePage(asked) == Max({1, asked})

(* listSalesForAdmin: the page asked for.                                   *)
ListSales(asked) ==
  /\ request = Idle
  /\ LET page == ParsePage(asked)
     IN  /\ request' = [pc |-> "list", page |-> page, read |-> {}, counted |-> {},
                        found |-> [t \in Table |-> << >>], total |-> [t \in Table |-> 0]]
         /\ walk' = IF page = 1 THEN [NoWalk EXCEPT !.next = 1, !.standing = Events(There)]
                    ELSE IF page = walk.next /\ ~walk.done THEN walk ELSE NoWalk
  /\ UNCHANGED <<clock, sold, constant, passing>>

Skip(page) == (page - 1) * Limit

(* Mutant: as many rows of each table as fit on one page.                   *)
FetchOnePage(page) == Limit

FetchTake(page) == Skip(page) + Limit

(* The latest rows of a table, the last first; PostgreSQL orders those of   *)
(* one moment as it likes.                                                  *)
FindLatest(table) ==
  /\ request.pc = "list" /\ table \notin request.read
  /\ \E rows \in SetToSeqs(Events(Of(table) \cap There)) :
       /\ \A i, j \in DOMAIN rows : i < j => rows[i].at >= rows[j].at
       /\ LET taken == SubSeq(rows, 1, Min({Len(rows), FetchTake(request.page)}))
          IN  request' = [request EXCEPT !.read = @ \cup {table}, !.found[table] = taken]
  /\ UNCHANGED <<clock, sold, history>>

CountSales(table) ==
  /\ request.pc = "list" /\ table \notin request.counted
  /\ LET count == Cardinality(Of(table) \cap There)
     IN  request' = [request EXCEPT !.counted = @ \cup {table}, !.total[table] = count]
  /\ UNCHANGED <<clock, sold, history>>

(* Tracks and albums by their moment, the last first; the sort is stable.   *)
Merged(rows) ==
  LET before(i, j) == rows[i].at > rows[j].at \/ (rows[i].at = rows[j].at /\ i <= j)
      place(j)     == Cardinality({i \in DOMAIN rows : before(i, j)})
  IN  [k \in DOMAIN rows |-> rows[CHOOSE j \in DOMAIN rows : place(j) = k]]

(* toPageResult                                                             *)
TotalPages(total) == Max({1, (total + Limit - 1) \div Limit})

AnswerList ==
  /\ request.pc = "list" /\ request.read = Table /\ request.counted = Table
  /\ LET page  == request.page
         all   == Merged(request.found["purchases"] \o request.found["albumPurchases"])
         items == SubSeq(all, Skip(page) + 1, Min({Len(all), Skip(page) + Limit}))
         pages == TotalPages(request.total["purchases"] + request.total["albumPurchases"])
     IN  walk' = IF page = walk.next
                 THEN [walk EXCEPT !.next = page + 1, !.done = page >= pages,
                                   !.seen = @ \cup ToSet(items)]
                 ELSE walk
  /\ request' = Idle
  /\ UNCHANGED <<clock, sold, constant, passing>>

SalesNext ==
  \/ \E s \in Sale : Sell(s) \/ DeleteSale(s)
  \/ Tick \/ GetSalesStats \/ AnswerStats \/ AnswerList
  \/ \E table \in Table : FindSales(table) \/ FindLatest(table) \/ CountSales(table)
  \/ \E asked \in 0 .. MaxPage : ListSales(asked)

SalesSpec == SalesInit /\ [][SalesNext]_salesVars

-----------------------------------------------------------------------------
SalesTypeOK ==
  /\ clock \in 0 .. LastMoment
  /\ sold \in [Sale -> (0 .. LastMoment) \cup {Unsold, Deleted}]
  /\ \A s \in Sale : sold[s] <= clock
  /\ request \in {Idle} \cup Reporting \cup Listing
  /\ constant \subseteq passing /\ passing \subseteq Event
  /\ walk \in Walk

(* The events counted for some days are the sales of those days: all that   *)
(* were there throughout, and none that never was.                          *)
Counts(bucket, days) ==
  bucket.count \in Cardinality({e \in constant : Day(e.at) \in days}) ..
                   Cardinality({e \in passing : Day(e.at) \in days})

(* StatisticsCount: every point of every series counts the sales of its     *)
(* days, up to those made or deleted meanwhile, and the totals of today,    *)
(* this week and this month are the last points, unless a sale was read     *)
(* that is of a later day than the report began on.                         *)
StatisticsCount ==
  request.pc = "stats" /\ request.read = Table =>
    LET E       == UNION {request.found[t] : t \in Table}
        today   == Day(request.now)
        daily   == DailySeries(E, today)
        weekly  == WeeklySeries(E, today)
        monthly == MonthlySeries(E, today)
    IN  /\ \A d \in DOMAIN daily : Counts(daily[d], {d})
        /\ \A w \in DOMAIN weekly : w % Week = 0 /\ Counts(weekly[w], w .. w + Week - 1)
        /\ \A m \in DOMAIN monthly : Counts(monthly[m], MonthFirst[m] .. MonthFirst[m + 1] - 1)
        /\ (\A e \in E : Day(e.at) <= today) =>
             /\ AggregateSince(E, today) = daily[today]
             /\ AggregateSince(E, StartOfWeek(today)) = weekly[StartOfWeek(today)]
             /\ AggregateSince(E, MonthFirst[MonthOf(today)]) = monthly[MonthOf(today)]

(* WalkSeesAll: who asks for one page after the other until the last has    *)
(* seen every sale that was there before, the only one of its moment, even  *)
(* though sales made between two pages shift the rest, unless rows were     *)
(* deleted on the way or a sale was made while a page was being read.       *)
WalkSeesAll ==
  walk.done =>
    \A e \in walk.standing :
      (\A o \in Sale : sold[o] = e.at => o = e.sale) => e \in walk.seen

=============================================================================
