------------------------------ MODULE Purchases ------------------------------
(***************************************************************************)
(* Buying a track or an album: the requests that open a Stripe             *)
(* PaymentIntent and the webhook deliveries that turn a succeeded one into *)
(* a purchases / album_purchases row (src/src/payments/payments.service.ts)*)
(* interleave at every await, beside price changes and cascading deletes.  *)
(* Stripe delivers each event at least once and again until it is answered *)
(* with 2xx.  Tracks and albums have tables of their own but the same      *)
(* code: an item is a member of Track or of Album, a row says which.       *)
(***************************************************************************)
EXTENDS Integers, FiniteSets

CONSTANTS User, Track, Album,
          Intent,      \* bound: PaymentIntents Stripe ever creates
          Cents,       \* prices, in cents
          Commission,  \* PLATFORM_COMMISSION_PERCENT
          Worker,      \* requests handled at the same time
          MaxCrashes,  \* bound: requests that die
          MaxChanges,  \* bound: price changes and deletions
          NoOrder

Item == Track \cup Album
Free == 0
Order == [intent: Intent, user: User, item: Item, amount: Cents]

ASSUME PurchasesAssumption ==
  /\ Track \cap Album = {} /\ User \cap Item = {}
  /\ Cents \subseteq Nat \ {Free}
  /\ Commission \in 0 .. 100
  /\ MaxCrashes \in Nat /\ MaxChanges \in Nat
  /\ NoOrder \notin Order

VARIABLES
  price,     \* tracks.price / albums.price in cents, Free for null
  retired,   \* users and items deleted from the database
  opened,    \* orders a PaymentIntent was created for (metadata of Stripe)
  charged,   \* those whose payment succeeded
  pending,   \* events Stripe has to deliver (again)
  rows,      \* purchases and album_purchases
  work,      \* the requests in flight
  crashes, changes

vars == <<price, retired, opened, charged, pending, rows, work, crashes, changes>>

Quiet == [pc |-> "idle", order |-> NoOrder]
WorkState ==
  {Quiet} \cup
  [pc: {"owned", "stripe", "byStripe", "alreadyOwned", "create", "ack"}, order: Order]

(* Mutant: the commission is a percentage that is not divided by 100.       *)
UndividedShare(amount) == amount - amount * Commission

(* computeArtistShare: the platform share is rounded half up to the cent.   *)
ArtistAmount(amount) == amount - (amount * Commission + 50) \div 100

Row(o) == [order |-> o, artistAmount |-> ArtistAmount(o.amount)]
Purchased == {p.order : p \in rows}
Owned(o) == \E p \in Purchased : p.user = o.user /\ p.item = o.item
Exists(o) == o.user \notin retired /\ o.item \notin retired

-----------------------------------------------------------------------------
Init ==
  /\ price \in [Item -> Cents \cup {Free}]
  /\ retired = {} /\ opened = {} /\ charged = {} /\ pending = {} /\ rows = {}
  /\ work = [w \in Worker |-> Quiet]
  /\ crashes = 0 /\ changes = 0

(* createTrackPaymentIntent, createAlbumPaymentIntent: the price is read    *)
(* once, here; a missing or free item is refused.  Which intent Stripe will *)
(* name is settled when it is created.                                      *)
ReadItem(w, o) ==
  /\ work[w] = Quiet
  /\ Exists(o) /\ price[o.item] # Free /\ o.amount = price[o.item]
  /\ \A p \in opened : p.intent # o.intent
  /\ \A v \in Worker : work[v] # Quiet => work[v].order.intent # o.intent
  /\ work' = [work EXCEPT ![w] = [pc |-> "owned", order |-> o]]
  /\ UNCHANGED <<price, retired, opened, charged, pending, rows, crashes, changes>>

CheckOwned(w) ==
  /\ work[w].pc = "owned"
  /\ work' = [work EXCEPT ![w] = IF Owned(@.order) THEN Quiet ELSE [@ EXCEPT !.pc = "stripe"]]
  /\ UNCHANGED <<price, retired, opened, charged, pending, rows, crashes, changes>>

CreateIntent(w) ==
  /\ work[w].pc = "stripe"
  /\ opened' = opened \cup {work[w].order}
  /\ work' = [work EXCEPT ![w] = Quiet]
  /\ UNCHANGED <<price, retired, charged, pending, rows, crashes, changes>>

(* Stripe: the buyer pays, and payment_intent.succeeded is to be delivered. *)
Pay(o) ==
  /\ o \in opened \ charged
  /\ charged' = charged \cup {o}
  /\ pending' = pending \cup {o}
  /\ UNCHANGED <<price, retired, opened, rows, work, crashes, changes>>

(* Mutant: the webhook is answered before it is processed.                  *)
DeliverAcknowledged(w, o) ==
  /\ work[w] = Quiet /\ o \in charged
  /\ pending' = pending \ {o}
  /\ work' = [work EXCEPT ![w] = [pc |-> "byStripe", order |-> o]]
  /\ UNCHANGED <<price, retired, opened, charged, rows, crashes, changes>>

(* A delivery of the event of o, the first one, a retry or a duplicate.     *)
Deliver(w, o) ==
  /\ work[w] = Quiet /\ o \in charged
  /\ work' = [work EXCEPT ![w] = [pc |-> "byStripe", order |-> o]]
  /\ UNCHANGED <<price, retired, opened, charged, pending, rows, crashes, changes>>

-----------------------------------------------------------------------------
(* confirmTrackPurchase, confirmAlbumPurchase.                              *)

FindByStripe(w) ==
  /\ work[w].pc = "byStripe"
  /\ work' = [work EXCEPT ![w].pc =
                IF \E p \in Purchased : p.intent = work[w].order.intent
                THEN "ack" ELSE "alreadyOwned"]
  /\ UNCHANGED <<price, retired, opened, charged, pending, rows, crashes, changes>>

FindAlreadyOwned(w) ==
  /\ work[w].pc = "alreadyOwned"
  /\ work' = [work EXCEPT ![w].pc = IF Owned(work[w].order) THEN "ack" ELSE "create"]
  /\ UNCHANGED <<price, retired, opened, charged, pending, rows, crashes, changes>>

(* Mutant: no foreign keys.                                                 *)
InsertableOrphan(o) ==
  /\ ~Owned(o)
  /\ \A p \in Purchased : p.intent # o.intent

(* The insert meets the unique keys (user, item) and stripePaymentId and    *)
(* the foreign keys; when one fails, the answer is a 500 and Stripe retries.*)
Insertable(o) ==
  /\ ~Owned(o) /\ Exists(o)
  /\ \A p \in Purchased : p.intent # o.intent

(* Mutant: the row takes the price of the day, not the amount of the intent.*)
CreateRowAtPrice(w) ==
  LET o == work[w].order IN
  /\ work[w].pc = "create"
  /\ IF Insertable(o)
     THEN /\ rows' = rows \cup {Row([o EXCEPT !.amount = price[o.item]])}
          /\ work' = [work EXCEPT ![w].pc = "ack"]
     ELSE /\ work' = [work EXCEPT ![w] = Quiet]
          /\ UNCHANGED rows
  /\ UNCHANGED <<price, retired, opened, charged, pending, crashes, changes>>

CreateRow(w) ==
  LET o == work[w].order IN
  /\ work[w].pc = "create"
  /\ IF Insertable(o)
     THEN /\ rows' = rows \cup {Row(o)}
          /\ work' = [work EXCEPT ![w].pc = "ack"]
     ELSE /\ work' = [work EXCEPT ![w] = Quiet]
          /\ UNCHANGED rows
  /\ UNCHANGED <<price, retired, opened, charged, pending, crashes, changes>>

(* { received: true }: Stripe does not deliver the event of its own again.  *)
Acknowledge(w) ==
  /\ work[w].pc = "ack"
  /\ pending' = pending \ {work[w].order}
  /\ work' = [work EXCEPT ![w] = Quiet]
  /\ UNCHANGED <<price, retired, opened, charged, rows, crashes, changes>>

-----------------------------------------------------------------------------
(* The process dies, or a call to PostgreSQL or Stripe fails.               *)
Crash(w) ==
  /\ work[w] # Quiet /\ crashes < MaxCrashes
  /\ crashes' = crashes + 1
  /\ work' = [work EXCEPT ![w] = Quiet]
  /\ UNCHANGED <<price, retired, opened, charged, pending, rows, changes>>

(* TracksService.update, AlbumsService.update: an artist sets a new price.  *)
SetPrice(i, c) ==
  /\ changes < MaxChanges /\ i \notin retired /\ price[i] # c
  /\ price' = [price EXCEPT ![i] = c]
  /\ changes' = changes + 1
  /\ UNCHANGED <<retired, opened, charged, pending, rows, work, crashes>>

(* What one DELETE takes: a track, an album, or a user with all he bought   *)
(* and, if he is an artist, with the items he published.                    *)
Deletions == {{i} : i \in Item} \cup {{u} \cup published : u \in User, published \in SUBSET Item}

(* The deletion cascades to the purchases.                                  *)
Delete(gone) ==
  /\ changes < MaxChanges /\ gone \cap retired = {}
  /\ retired' = retired \cup gone
  /\ rows' = {p \in rows : p.order.user \notin gone /\ p.order.item \notin gone}
  /\ changes' = changes + 1
  /\ UNCHANGED <<price, opened, charged, pending, work, crashes>>

Handle(w) ==
  \/ CheckOwned(w) \/ CreateIntent(w)
  \/ FindByStripe(w) \/ FindAlreadyOwned(w) \/ CreateRow(w) \/ Acknowledge(w)

Next ==
  \/ \E w \in Worker, o \in Order : ReadItem(w, o) \/ Deliver(w, o)
  \/ \E w \in Worker : Handle(w) \/ Crash(w)
  \/ \E o \in Order : Pay(o)
  \/ \E i \in Item, c \in Cents \cup {Free} : SetPrice(i, c)
  \/ \E gone \in Deletions : Delete(gone)

Spec == Init /\ [][Next]_vars

(* A request that is running goes on, and Stripe retries an event that has  *)
(* not been acknowledged whenever a request can be taken.  Buyers, artists  *)
(* and failures owe nothing.                                                *)
Fairness ==
  /\ \A w \in Worker : WF_vars(Handle(w))
  /\ \A o \in Order : SF_vars(o \in pending /\ \E w \in Worker : Deliver(w, o))

FairSpec == Spec /\ Fairness

-----------------------------------------------------------------------------
TypeOK ==
  /\ price \in [Item -> Cents \cup {Free}]
  /\ retired \subseteq User \cup Item
  /\ opened \subseteq Order /\ charged \subseteq opened /\ pending \subseteq charged
  /\ rows \subseteq [order: Order, artistAmount: Nat]
  /\ work \in [Worker -> WorkState]
  /\ crashes \in 0 .. MaxCrashes /\ changes \in 0 .. MaxChanges

(* PurchaseIsPaid: every purchase row stands on a payment that succeeded,   *)
(* of the same user, item and amount, and splits exactly that amount, even  *)
(* when the price changed between intent and webhook (handleWebhook).       *)
PurchaseIsPaid ==
  \A p \in rows : p.order \in charged /\ p.artistAmount = ArtistAmount(p.order.amount)

(* OnePurchasePerItem: duplicated and concurrent deliveries, also of two    *)
(* payments for the same item, leave a user one purchase of an item.        *)
OnePurchasePerItem ==
  \A p, q \in rows :
    p.order.user = q.order.user /\ p.order.item = q.order.item => p = q

(* NoPaymentForgotten: a payment that succeeded still has its event to be   *)
(* delivered, or its buyer owns the item, or one of the two was deleted: no *)
(* crash, duplicate or race acknowledges a payment that granted nothing.    *)
NoPaymentForgotten == \A o \in charged : o \in pending \/ Owned(o) \/ ~Exists(o)

(* PaidIsEventuallyOwned: a charged order ends in ownership or in a         *)
(* deletion, through crashes, retries and races of deliveries.              *)
PaidIsEventuallyOwned ==
  \A o \in Order : o \in charged ~> (Owned(o) \/ ~Exists(o))

(* The payments implement the ledger.                                       *)
Ledger == INSTANCE PurchaseLedger WITH owned <- Purchased
LedgerSpec == Ledger!LedgerSpec

=============================================================================
