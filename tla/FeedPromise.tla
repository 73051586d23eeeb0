----------------------------- MODULE FeedPromise -----------------------------
(***************************************************************************)
(* What the notifications of a user promise, without requests, versions or *)
(* failures: the rows of the table only go forward, and whatever the cache *)
(* would answer shows at least the rows that were last published and at    *)
(* most the rows the table holds.                                          *)
(***************************************************************************)
EXTENDS Naturals

CONSTANTS User, Event

VARIABLES table,      \* how far each user's notification of an event has gone
          published,  \* the rows of a user when they were last published
          shown       \* what a listing of a user may be answered from the cache

promised == <<table, published, shown>>

Stage == 0 .. 3     \* a row is absent, unread, read, deleted

Reaches(p, q) == \A e \in Event : p[e] >= q[e]

PromiseInit ==
  /\ table = [u \in User |-> [e \in Event |-> 0]]
  /\ published = table
  /\ shown = [u \in User |-> {}]

(* An edit, or one statement over the rows of several users.                *)
Change ==
  /\ \A u \in User : Reaches(table'[u], table[u])
  /\ UNCHANGED <<published, shown>>

(* What was cached for the user is never answered again.                    *)
Publish(u) ==
  /\ published' = [published EXCEPT ![u] = table[u]]
  /\ shown' = [shown EXCEPT ![u] = {}]
  /\ UNCHANGED table

Show(u, f) ==
  /\ Reaches(table[u], f) /\ Reaches(f, published[u])
  /\ shown' = [shown EXCEPT ![u] = {f}]
  /\ UNCHANGED <<table, published>>

Forget(u) ==
  /\ shown' = [shown EXCEPT ![u] = {}]
  /\ UNCHANGED <<table, published>>

PromiseNext ==
  \/ Change
  \/ \E u \in User :
       \/ Publish(u) \/ Forget(u)
       \/ \E f \in [Event -> Stage] : Show(u, f)

PromiseSpec == PromiseInit /\ [][PromiseNext]_promised

=============================================================================
