--------------------------- MODULE PaymentsProofs ----------------------------
(***************************************************************************)
(* Proofs about Purchases, for every set of users, items, prices, intents  *)
(* and workers, and every commission; and about SalesReports, for every    *)
(* set of sales and every calendar, clock, series and page.                *)
(* The invariant of SalesReports, SalesInv, says of a report that what has *)
(* been there throughout is in every table it has read (ReportFollows),    *)
(* and of a walk that what it has not seen ranks behind the pages it has   *)
(* (WalkFollows): a new sale only moves the others back, so that a sale    *)
(* may be seen twice, never passed over.                                   *)
(***************************************************************************)
EXTENDS Purchases, SalesReports, FiniteSetTheorems, SequenceTheorems, TLAPS

-----------------------------------------------------------------------------
(* The artist's share of a payment is an amount of cents.                   *)
LEMMA ArtistAmountNat ==
  ASSUME NEW a \in Nat PROVE ArtistAmount(a) \in Nat
<1> DEFINE platform == a * Commission
<1>1. platform \in Nat /\ platform <= a * 100
  BY PurchasesAssumption, SMTT(30) DEF PurchasesAssumption
<1>2. (platform + 50) \div 100 \in 0 .. a
  <2> HIDE DEF platform
  <2> QED BY <1>1
<1> QED BY <1>2 DEF ArtistAmount

LEMMA OrderFields ==
  ASSUME NEW o \in Order
  PROVE  /\ o.intent \in Intent /\ o.user \in User /\ o.item \in Item
         /\ o.amount \in Cents /\ o.amount \in Nat
BY PurchasesAssumption DEF Order, PurchasesAssumption

LEMMA QuietWork ==
  /\ Quiet \in WorkState /\ Quiet.pc = "idle"
  /\ \A q \in WorkState : q = Quiet <=> q.pc = "idle"
  /\ \A q \in WorkState : q # Quiet => q.order \in Order
BY DEF Quiet, WorkState

LEMMA DeletionsTyped == \A gone \in Deletions : gone \subseteq User \cup Item
BY DEF Deletions

-----------------------------------------------------------------------------
(* Type correctness.                                                        *)

LEMMA TypeInit == Init => TypeOK
BY QuietWork, PurchasesAssumption DEF Init, TypeOK, PurchasesAssumption

LEMMA TypeNext == TypeOK /\ [Next]_vars => TypeOK'
<1> SUFFICES ASSUME TypeOK, [Next]_vars PROVE TypeOK' OBVIOUS
<1> USE DEF TypeOK
<1>1. ASSUME NEW w \in Worker, NEW o \in Order, ReadItem(w, o) PROVE TypeOK'
  <2>1. [pc |-> "owned", order |-> o] \in WorkState BY DEF WorkState
  <2> QED BY <1>1, <2>1 DEF ReadItem
<1>2. ASSUME NEW w \in Worker, NEW o \in Order, Deliver(w, o) PROVE TypeOK'
  <2>1. [pc |-> "byStripe", order |-> o] \in WorkState BY DEF WorkState
  <2> QED BY <1>2, <2>1 DEF Deliver
<1>3. ASSUME NEW w \in Worker, CheckOwned(w) PROVE TypeOK'
  <2>1. [work[w] EXCEPT !.pc = "stripe"] \in WorkState
    BY <1>3, QuietWork DEF CheckOwned, WorkState, Quiet
  <2> QED BY <1>3, <2>1, QuietWork DEF CheckOwned
<1>4. ASSUME NEW w \in Worker, CreateIntent(w) PROVE TypeOK'
  <2>1. work[w].order \in Order BY <1>4, QuietWork DEF CreateIntent
  <2> QED BY <1>4, <2>1, QuietWork DEF CreateIntent
<1>5. ASSUME NEW w \in Worker, FindByStripe(w) PROVE TypeOK'
  <2>1. \A pc \in {"ack", "alreadyOwned"} : [work[w] EXCEPT !.pc = pc] \in WorkState
    BY <1>5, QuietWork DEF FindByStripe, WorkState, Quiet
  <2> QED BY <1>5, <2>1 DEF FindByStripe
<1>6. ASSUME NEW w \in Worker, FindAlreadyOwned(w) PROVE TypeOK'
  <2>1. \A pc \in {"ack", "create"} : [work[w] EXCEPT !.pc = pc] \in WorkState
    BY <1>6, QuietWork DEF FindAlreadyOwned, WorkState, Quiet
  <2> QED BY <1>6, <2>1 DEF FindAlreadyOwned
<1>7. ASSUME NEW w \in Worker, CreateRow(w) PROVE TypeOK'
  <2>1. work[w].order \in Order BY <1>7, QuietWork DEF CreateRow
  <2>2. Row(work[w].order) \in [order: Order, artistAmount: Nat]
    BY <2>1, OrderFields, ArtistAmountNat DEF Row
  <2>3. [work[w] EXCEPT !.pc = "ack"] \in WorkState
    BY <1>7, QuietWork DEF CreateRow, WorkState, Quiet
  <2>4. CASE Insertable(work[w].order) BY <1>7, <2>2, <2>3, <2>4 DEF CreateRow
  <2>5. CASE ~Insertable(work[w].order) BY <1>7, <2>5, QuietWork DEF CreateRow
  <2> QED BY <2>4, <2>5
<1>8. ASSUME NEW w \in Worker, Acknowledge(w) PROVE TypeOK'
  BY <1>8, QuietWork DEF Acknowledge
<1>9. ASSUME NEW w \in Worker, Crash(w) PROVE TypeOK'
  BY <1>9, QuietWork, PurchasesAssumption DEF Crash, PurchasesAssumption
<1>10. ASSUME NEW o \in Order, Pay(o) PROVE TypeOK'
  BY <1>10 DEF Pay
<1>11. ASSUME NEW i \in Item, NEW c \in Cents \cup {Free}, SetPrice(i, c) PROVE TypeOK'
  BY <1>11, PurchasesAssumption DEF SetPrice, PurchasesAssumption
<1>12. ASSUME NEW gone \in Deletions, Delete(gone) PROVE TypeOK'
  BY <1>12, DeletionsTyped, PurchasesAssumption DEF Delete, PurchasesAssumption
<1>13. CASE UNCHANGED vars BY <1>13 DEF vars
<1> QED
  BY <1>1, <1>2, <1>3, <1>4, <1>5, <1>6, <1>7, <1>8, <1>9, <1>10, <1>11, <1>12, <1>13
  DEF Next, Handle

(* The state of the payments keeps its type: no request, delivery, crash or *)
(* deletion leaves a charge without its intent, a row that splits into      *)
(* something else than cents, or a worker in an impossible state.           *)
THEOREM TypeCorrect == Spec => []TypeOK
BY TypeInit, TypeNext, PTL DEF Spec

-----------------------------------------------------------------------------
(* The inductive invariant.  A worker past the signature check holds a      *)
(* charged order; an order about to be acknowledged has been granted; and a *)
(* PaymentIntent belongs to one order, so the row found by its identifier   *)
(* is the row of the order at hand.                                         *)

Confirming == {"byStripe", "alreadyOwned", "create", "ack"}
Opening == {"owned", "stripe"}

ConfirmsCharged == \A w \in Worker : work[w].pc \in Confirming => work[w].order \in charged

AckIsSettled ==
  \A w \in Worker :
    work[w].pc = "ack" => Owned(work[w].order) \/ ~Exists(work[w].order)

OneOrderPerIntent ==
  /\ \A o, p \in opened : o.intent = p.intent => o = p
  /\ \A w \in Worker, o \in opened :
       work[w].pc \in Opening => work[w].order.intent # o.intent
  /\ \A v, w \in Worker :
       v # w /\ work[v].pc \in Opening /\ work[w].pc \in Opening
         => work[v].order.intent # work[w].order.intent

IInv ==
  /\ TypeOK /\ PurchaseIsPaid /\ OnePurchasePerItem /\ NoPaymentForgotten
  /\ ConfirmsCharged /\ AckIsSettled /\ OneOrderPerIntent

LEMMA IInvInit == Init => IInv
BY TypeInit, QuietWork
DEF Init, IInv, PurchaseIsPaid, OnePurchasePerItem, NoPaymentForgotten, ConfirmsCharged,
    AckIsSettled, OneOrderPerIntent, Confirming, Opening, Quiet

(* Conjuncts that read rows and deletions hold on when neither changes.     *)
LEMMA SameRows ==
  ASSUME UNCHANGED <<rows, retired>>
  PROVE  /\ Purchased' = Purchased
         /\ \A o : Owned(o)' <=> Owned(o)
         /\ \A o : Exists(o)' <=> Exists(o)
BY DEF Purchased, Owned, Exists

(* A step that neither charges nor grants nor deletes, and leaves the       *)
(* charged orders of Stripe alone, keeps what is about rows.                *)
LEMMA RowsFrame ==
  ASSUME IInv, UNCHANGED <<rows, retired, charged>>
  PROVE  PurchaseIsPaid' /\ OnePurchasePerItem'
BY DEF IInv, PurchaseIsPaid, OnePurchasePerItem, ArtistAmount

LEMMA IInvNext == IInv /\ [Next]_vars => IInv'
<1> SUFFICES ASSUME IInv, [Next]_vars PROVE IInv' OBVIOUS
<1>t. TypeOK /\ TypeOK' BY TypeNext DEF IInv
<1> USE <1>t
<1>1. ASSUME NEW w \in Worker, NEW o \in Order, ReadItem(w, o) PROVE IInv'
  <2> USE <1>1 DEF ReadItem
  <2>1. PurchaseIsPaid' /\ OnePurchasePerItem' BY RowsFrame
  <2>2. NoPaymentForgotten' BY SameRows DEF IInv, NoPaymentForgotten
  <2>3. ConfirmsCharged' BY DEF IInv, ConfirmsCharged, TypeOK, Confirming
  <2>4. AckIsSettled' BY SameRows DEF IInv, AckIsSettled, TypeOK
  <2>5. OneOrderPerIntent'
    BY QuietWork DEF IInv, OneOrderPerIntent, TypeOK, Opening
  <2> QED BY <2>1, <2>2, <2>3, <2>4, <2>5 DEF IInv
<1>2. ASSUME NEW w \in Worker, NEW o \in Order, Deliver(w, o) PROVE IInv'
  <2> USE <1>2 DEF Deliver
  <2>1. PurchaseIsPaid' /\ OnePurchasePerItem' BY RowsFrame
  <2>2. NoPaymentForgotten' BY SameRows DEF IInv, NoPaymentForgotten
  <2>3. ConfirmsCharged' BY DEF IInv, ConfirmsCharged, TypeOK, Confirming
  <2>4. AckIsSettled' BY SameRows DEF IInv, AckIsSettled, TypeOK
  <2>5. OneOrderPerIntent' BY DEF IInv, OneOrderPerIntent, TypeOK, Opening
  <2> QED BY <2>1, <2>2, <2>3, <2>4, <2>5 DEF IInv
<1>3. ASSUME NEW w \in Worker, CheckOwned(w) PROVE IInv'
  <2> USE <1>3 DEF CheckOwned
  <2>1. PurchaseIsPaid' /\ OnePurchasePerItem' BY RowsFrame
  <2>2. NoPaymentForgotten' BY SameRows DEF IInv, NoPaymentForgotten
  <2>w. \/ work'[w].pc = "stripe" /\ work'[w].order = work[w].order
      \/ work'[w].pc = "idle"
    BY QuietWork DEF TypeOK, WorkState
  <2>v. \A v \in Worker \ {w} : work'[v] = work[v] BY DEF TypeOK
  <2>3. ConfirmsCharged' BY <2>w, <2>v DEF IInv, ConfirmsCharged, Confirming
  <2>4. AckIsSettled' BY <2>w, <2>v, SameRows DEF IInv, AckIsSettled
  <2>5. OneOrderPerIntent' BY <2>w, <2>v DEF IInv, OneOrderPerIntent, Opening
  <2> QED BY <2>1, <2>2, <2>3, <2>4, <2>5 DEF IInv
<1>4. ASSUME NEW w \in Worker, CreateIntent(w) PROVE IInv'
  <2> USE <1>4 DEF CreateIntent
  <2>1. PurchaseIsPaid' /\ OnePurchasePerItem' BY RowsFrame
  <2>2. NoPaymentForgotten' BY SameRows DEF IInv, NoPaymentForgotten
  <2>w. work'[w].pc = "idle" BY QuietWork DEF TypeOK
  <2>v. \A v \in Worker \ {w} : work'[v] = work[v] BY DEF TypeOK
  <2>3. ConfirmsCharged' BY <2>w, <2>v DEF IInv, ConfirmsCharged, Confirming
  <2>4. AckIsSettled' BY <2>w, <2>v, SameRows DEF IInv, AckIsSettled
  <2>5. OneOrderPerIntent' BY <2>w, <2>v DEF IInv, OneOrderPerIntent, Opening
  <2> QED BY <2>1, <2>2, <2>3, <2>4, <2>5 DEF IInv
<1>5. ASSUME NEW w \in Worker, FindByStripe(w) PROVE IInv'
  <2> USE <1>5 DEF FindByStripe
  <2>1. PurchaseIsPaid' /\ OnePurchasePerItem' BY RowsFrame
  <2>2. NoPaymentForgotten' BY SameRows DEF IInv, NoPaymentForgotten
  <2>v. \A v \in Worker \ {w} : work'[v] = work[v] BY DEF TypeOK
  <2>w. /\ work'[w].order = work[w].order /\ work'[w].pc \in {"ack", "alreadyOwned"}
        /\ work'[w].pc = "ack" => \E p \in Purchased : p.intent = work[w].order.intent
    BY QuietWork DEF TypeOK, WorkState
  <2>3. ConfirmsCharged' BY <2>w, <2>v DEF IInv, ConfirmsCharged, Confirming
  <2>4. work[w].order \in charged BY DEF IInv, ConfirmsCharged, Confirming
  <2>5. Purchased \subseteq charged BY DEF IInv, PurchaseIsPaid, Purchased
  <2>6. work'[w].pc = "ack" => Owned(work[w].order)
    BY <2>w, <2>4, <2>5 DEF IInv, OneOrderPerIntent, TypeOK, Owned
  <2>7. AckIsSettled' BY <2>6, <2>w, <2>v, SameRows DEF IInv, AckIsSettled
  <2>8. OneOrderPerIntent' BY <2>w, <2>v DEF IInv, OneOrderPerIntent, Opening
  <2> QED BY <2>1, <2>2, <2>3, <2>7, <2>8 DEF IInv
<1>6. ASSUME NEW w \in Worker, FindAlreadyOwned(w) PROVE IInv'
  <2> USE <1>6 DEF FindAlreadyOwned
  <2>1. PurchaseIsPaid' /\ OnePurchasePerItem' BY RowsFrame
  <2>2. NoPaymentForgotten' BY SameRows DEF IInv, NoPaymentForgotten
  <2>v. \A v \in Worker \ {w} : work'[v] = work[v] BY DEF TypeOK
  <2>w. /\ work'[w].order = work[w].order /\ work'[w].pc \in {"ack", "create"}
        /\ work'[w].pc = "ack" => Owned(work[w].order)
    BY QuietWork DEF TypeOK, WorkState
  <2>3. ConfirmsCharged' BY <2>w, <2>v DEF IInv, ConfirmsCharged, Confirming
  <2>4. AckIsSettled' BY <2>w, <2>v, SameRows DEF IInv, AckIsSettled
  <2>5. OneOrderPerIntent' BY <2>w, <2>v DEF IInv, OneOrderPerIntent, Opening
  <2> QED BY <2>1, <2>2, <2>3, <2>4, <2>5 DEF IInv
<1>7. ASSUME NEW w \in Worker, CreateRow(w) PROVE IInv'
  <2> DEFINE o == work[w].order
  <2>o. o \in charged /\ o \in Order
    BY <1>7, QuietWork DEF CreateRow, IInv, ConfirmsCharged, Confirming, TypeOK
  <2>v. \A v \in Worker \ {w} : work'[v] = work[v] BY <1>7 DEF CreateRow, TypeOK
  <2>s. UNCHANGED <<price, retired, opened, charged, pending>> BY <1>7 DEF CreateRow
  <2>1. CASE Insertable(o)
    <3>1. rows' = rows \cup {Row(o)} BY <1>7, <2>1 DEF CreateRow
    <3>2. work'[w].pc = "ack" /\ work'[w].order = o
      BY <1>7, <2>1, QuietWork DEF CreateRow, TypeOK, WorkState, Quiet
    <3>3. Row(o).order = o /\ Row(o).artistAmount = ArtistAmount(o.amount) BY DEF Row
    <3>4. Purchased' = Purchased \cup {o} BY <3>1, <3>3 DEF Purchased
    <3>5. /\ \A p : Owned(p) \/ p = o => Owned(p)'
          /\ \A p : Exists(p)' <=> Exists(p)
      BY <3>4, <2>s DEF Owned, Exists
    <3>6. PurchaseIsPaid'
      BY <3>1, <3>3, <2>o, <2>s DEF IInv, PurchaseIsPaid, ArtistAmount
    <3>7. OnePurchasePerItem'
      BY <3>1, <3>3, <2>1 DEF IInv, OnePurchasePerItem, Insertable, Owned, Purchased
    <3>8. NoPaymentForgotten' BY <3>5, <2>s DEF IInv, NoPaymentForgotten
    <3>9. ConfirmsCharged' BY <3>2, <2>v, <2>o, <2>s DEF IInv, ConfirmsCharged
    <3>10. AckIsSettled' BY <3>2, <3>5, <2>v DEF IInv, AckIsSettled
    <3>11. OneOrderPerIntent' BY <3>2, <2>v, <2>s DEF IInv, OneOrderPerIntent, Opening
    <3> QED BY <3>6, <3>7, <3>8, <3>9, <3>10, <3>11 DEF IInv
  <2>2. CASE ~Insertable(o)
    <3>1. UNCHANGED rows BY <1>7, <2>2 DEF CreateRow
    <3>2. work'[w].pc = "idle" BY <1>7, <2>2, QuietWork DEF CreateRow, TypeOK
    <3>3. PurchaseIsPaid' /\ OnePurchasePerItem' BY <3>1, <2>s, RowsFrame
    <3>4. NoPaymentForgotten' BY <3>1, <2>s, SameRows DEF IInv, NoPaymentForgotten
    <3>5. ConfirmsCharged' BY <3>2, <2>v, <2>s DEF IInv, ConfirmsCharged, Confirming
    <3>6. AckIsSettled' BY <3>1, <3>2, <2>v, <2>s, SameRows DEF IInv, AckIsSettled
    <3>7. OneOrderPerIntent' BY <3>2, <2>v, <2>s DEF IInv, OneOrderPerIntent, Opening
    <3> QED BY <3>3, <3>4, <3>5, <3>6, <3>7 DEF IInv
  <2> QED BY <2>1, <2>2
<1>8. ASSUME NEW w \in Worker, Acknowledge(w) PROVE IInv'
  <2> USE <1>8 DEF Acknowledge
  <2>1. PurchaseIsPaid' /\ OnePurchasePerItem' BY RowsFrame
  <2>2. NoPaymentForgotten'
    BY SameRows DEF IInv, NoPaymentForgotten, AckIsSettled
  <2>w. work'[w].pc = "idle" BY QuietWork DEF TypeOK
  <2>v. \A v \in Worker \ {w} : work'[v] = work[v] BY DEF TypeOK
  <2>3. ConfirmsCharged' BY <2>w, <2>v DEF IInv, ConfirmsCharged, Confirming
  <2>4. AckIsSettled' BY <2>w, <2>v, SameRows DEF IInv, AckIsSettled
  <2>5. OneOrderPerIntent' BY <2>w, <2>v DEF IInv, OneOrderPerIntent, Opening
  <2> QED BY <2>1, <2>2, <2>3, <2>4, <2>5 DEF IInv
<1>9. ASSUME NEW w \in Worker, Crash(w) PROVE IInv'
  <2> USE <1>9 DEF Crash
  <2>1. PurchaseIsPaid' /\ OnePurchasePerItem' BY RowsFrame
  <2>2. NoPaymentForgotten' BY SameRows DEF IInv, NoPaymentForgotten
  <2>w. work'[w].pc = "idle" BY QuietWork DEF TypeOK
  <2>v. \A v \in Worker \ {w} : work'[v] = work[v] BY DEF TypeOK
  <2>3. ConfirmsCharged' BY <2>w, <2>v DEF IInv, ConfirmsCharged, Confirming
  <2>4. AckIsSettled' BY <2>w, <2>v, SameRows DEF IInv, AckIsSettled
  <2>5. OneOrderPerIntent' BY <2>w, <2>v DEF IInv, OneOrderPerIntent, Opening
  <2> QED BY <2>1, <2>2, <2>3, <2>4, <2>5 DEF IInv
<1>10. ASSUME NEW o \in Order, Pay(o) PROVE IInv'
  <2> USE <1>10 DEF Pay
  <2>1. PurchaseIsPaid' BY DEF IInv, PurchaseIsPaid, ArtistAmount
  <2>2. OnePurchasePerItem' BY DEF IInv, OnePurchasePerItem
  <2>3. NoPaymentForgotten' BY SameRows DEF IInv, NoPaymentForgotten
  <2>4. ConfirmsCharged' BY DEF IInv, ConfirmsCharged
  <2>5. AckIsSettled' BY SameRows DEF IInv, AckIsSettled
  <2>6. OneOrderPerIntent' BY DEF IInv, OneOrderPerIntent
  <2> QED BY <2>1, <2>2, <2>3, <2>4, <2>5, <2>6 DEF IInv
<1>11. ASSUME NEW i \in Item, NEW c \in Cents \cup {Free}, SetPrice(i, c) PROVE IInv'
  <2> USE <1>11 DEF SetPrice
  <2>1. PurchaseIsPaid' /\ OnePurchasePerItem' BY RowsFrame
  <2>2. NoPaymentForgotten' BY SameRows DEF IInv, NoPaymentForgotten
  <2>3. ConfirmsCharged' BY DEF IInv, ConfirmsCharged
  <2>4. AckIsSettled' BY SameRows DEF IInv, AckIsSettled
  <2>5. OneOrderPerIntent' BY DEF IInv, OneOrderPerIntent
  <2> QED BY <2>1, <2>2, <2>3, <2>4, <2>5 DEF IInv
<1>12. ASSUME NEW gone \in Deletions, Delete(gone) PROVE IInv'
  <2> USE <1>12 DEF Delete
  <2>1. PurchaseIsPaid' BY DEF IInv, PurchaseIsPaid, ArtistAmount
  <2>2. OnePurchasePerItem' BY DEF IInv, OnePurchasePerItem
  <2>3. \A o : Owned(o) => Owned(o)' \/ ~Exists(o)'
    BY DEF Owned, Exists, Purchased
  <2>4. \A o : ~Exists(o) => ~Exists(o)' BY DEF Exists
  <2>5. NoPaymentForgotten' BY <2>3, <2>4 DEF IInv, NoPaymentForgotten
  <2>6. ConfirmsCharged' BY DEF IInv, ConfirmsCharged
  <2>7. AckIsSettled' BY <2>3, <2>4 DEF IInv, AckIsSettled
  <2>8. OneOrderPerIntent' BY DEF IInv, OneOrderPerIntent
  <2> QED BY <2>1, <2>2, <2>5, <2>6, <2>7, <2>8 DEF IInv
<1>13. CASE UNCHANGED vars
  <2> USE <1>13 DEF vars
  <2>1. PurchaseIsPaid' /\ OnePurchasePerItem' BY RowsFrame
  <2>2. NoPaymentForgotten' BY SameRows DEF IInv, NoPaymentForgotten
  <2>3. ConfirmsCharged' BY DEF IInv, ConfirmsCharged
  <2>4. AckIsSettled' BY SameRows DEF IInv, AckIsSettled
  <2>5. OneOrderPerIntent' BY DEF IInv, OneOrderPerIntent
  <2> QED BY <2>1, <2>2, <2>3, <2>4, <2>5 DEF IInv
<1> QED
  BY <1>1, <1>2, <1>3, <1>4, <1>5, <1>6, <1>7, <1>8, <1>9, <1>10, <1>11, <1>12, <1>13
  DEF Next, Handle

LEMMA Inductive == Spec => []IInv
BY IInvInit, IInvNext, PTL DEF Spec

(* Every purchase row stands on a succeeded payment of the same user, item  *)
(* and amount, whatever prices, retries and races did meanwhile.            *)
THEOREM PaidRows == Spec => []PurchaseIsPaid
<1>1. IInv => PurchaseIsPaid BY DEF IInv
<1> QED BY <1>1, Inductive, PTL

(* However many deliveries of however many payments overlap, a user has at  *)
(* most one purchase of an item.                                            *)
THEOREM SinglePurchase == Spec => []OnePurchasePerItem
<1>1. IInv => OnePurchasePerItem BY DEF IInv
<1> QED BY <1>1, Inductive, PTL

(* No crash, duplicate or race makes the webhook acknowledge a payment that *)
(* has granted nothing to a buyer and item that still exist.                *)
THEOREM PaymentsRemembered == Spec => []NoPaymentForgotten
<1>1. IInv => NoPaymentForgotten BY DEF IInv
<1> QED BY <1>1, Inductive, PTL

-----------------------------------------------------------------------------
(* The payments implement PurchaseLedger.                                   *)

LEMMA LedgerStep == IInv /\ [Next]_vars => [Ledger!LedgerNext]_(Ledger!ledger)
<1> SUFFICES ASSUME IInv, Next
             PROVE  Ledger!LedgerNext \/ UNCHANGED Ledger!ledger
  BY SameRows DEF vars, Ledger!ledger
<1>1. ASSUME UNCHANGED <<rows, retired, charged>> PROVE UNCHANGED Ledger!ledger
  BY <1>1, SameRows DEF Ledger!ledger
<1>2. ASSUME NEW o \in Order, Pay(o) PROVE Ledger!Charge(o)
  BY <1>2, SameRows DEF Pay, Ledger!Charge
<1>3. ASSUME NEW w \in Worker, CreateRow(w), Insertable(work[w].order)
      PROVE  work[w].order \in Order /\ Ledger!Grant(work[w].order)
  <2> DEFINE o == work[w].order
  <2>1. o \in charged /\ o \in Order
    BY <1>3, QuietWork DEF CreateRow, IInv, ConfirmsCharged, Confirming, TypeOK
  <2>2. ~Ledger!Owns(o) /\ ~Ledger!Retired(o)
    BY <1>3 DEF Insertable, Owned, Exists, Ledger!Owns, Ledger!Retired
  <2>3. Row(o).order = o BY DEF Row
  <2>4. Purchased' = Purchased \cup {o}
    BY <1>3, <2>3 DEF CreateRow, Purchased
  <2> QED BY <1>3, <2>1, <2>2, <2>4 DEF CreateRow, Ledger!Grant
<1>4. ASSUME NEW gone \in Deletions, Delete(gone) PROVE Ledger!Retire(gone)
  <2>1. Purchased' = {o \in Purchased : o.user \notin gone /\ o.item \notin gone}
    BY <1>4 DEF Delete, Purchased
  <2> QED BY <1>4, <2>1 DEF Delete, Ledger!Retire
<1>5. ASSUME NEW w \in Worker, Handle(w) PROVE Ledger!LedgerNext \/ UNCHANGED Ledger!ledger
  <2>1. CASE CreateRow(w) /\ Insertable(work[w].order)
    BY <2>1, <1>3 DEF Ledger!LedgerNext
  <2>2. CASE ~(CreateRow(w) /\ Insertable(work[w].order))
    BY <2>2, <1>5, <1>1
    DEF Handle, CheckOwned, CreateIntent, FindByStripe, FindAlreadyOwned, CreateRow, Acknowledge
  <2> QED BY <2>1, <2>2
<1>6. ASSUME NEW w \in Worker, NEW o \in Order, ReadItem(w, o) \/ Deliver(w, o)
      PROVE UNCHANGED Ledger!ledger
  BY <1>6, <1>1 DEF ReadItem, Deliver
<1>7. ASSUME NEW w \in Worker, Crash(w) PROVE UNCHANGED Ledger!ledger
  BY <1>7, <1>1 DEF Crash
<1>8. ASSUME NEW i \in Item, NEW c \in Cents \cup {Free}, SetPrice(i, c)
      PROVE UNCHANGED Ledger!ledger
  BY <1>8, <1>1 DEF SetPrice
<1> QED BY <1>2, <1>4, <1>5, <1>6, <1>7, <1>8, DeletionsTyped DEF Next, Ledger!LedgerNext

(* Every behaviour of the requests and webhooks is one of the ledger:       *)
(* charges, grants and deletions, and nothing else a buyer can see.         *)
THEOREM ImplementsLedger == Spec => LedgerSpec
<1>1. Init => Ledger!LedgerInit BY DEF Init, Ledger!LedgerInit, Purchased
<1> QED BY <1>1, LedgerStep, Inductive, PTL DEF Spec, LedgerSpec, Ledger!LedgerSpec

-----------------------------------------------------------------------------
(* The reports of sales.                                                    *)

(* Division, for the lengths of days, weeks and pages.                      *)
LEMMA Division ==
  ASSUME NEW x \in Int, NEW n \in Nat \ {0}
  PROVE  /\ x \div n \in Int /\ x % n \in 0 .. n - 1
         /\ n * (x \div n) \in Int /\ x = n * (x \div n) + (x % n)
OBVIOUS

LEMMA Multiples ==
  ASSUME NEW n \in Nat \ {0}, NEW p \in Int, NEW q \in Int, n * p < n * q + n
  PROVE  p <= q
<1> SUFFICES ASSUME p >= q + 1 PROVE FALSE OBVIOUS
<1>1. n * p >= n * (q + 1) BY SMTT(30)
<1>2. n * (q + 1) = n * q + n OBVIOUS
<1> QED BY <1>1, <1>2

(* What is a multiple plus less than one more has that quotient.            *)
LEMMA Quotient ==
  ASSUME NEW n \in Nat \ {0}, NEW x \in Int, NEW q \in Int, n * q <= x, x < n * q + n
  PROVE  x \div n = q /\ x % n = x - n * q
<1> DEFINE d == x \div n
<1>1. d \in Int /\ x % n \in 0 .. n - 1 /\ n * d \in Int /\ x = n * d + (x % n) BY Division
<1> HIDE DEF d
<1>2. n * q \in Int OBVIOUS
<1>3. n * d < n * q + n /\ n * q < n * d + n
  <2> DEFINE nd == n * d
  <2> DEFINE nq == n * q
  <2> HIDE DEF nd, nq
  <2>1. nd \in Int /\ nq \in Int /\ x % n \in 0 .. n - 1 /\ x = nd + (x % n)
        /\ nq <= x /\ x < nq + n
    BY <1>1, <1>2 DEF nd, nq
  <2>2. nd < nq + n /\ nq < nd + n BY <2>1
  <2> QED BY <2>2 DEF nd, nq
<1>5. d <= q /\ q <= d BY <1>1, <1>3, Multiples
<1>4. d = q BY <1>1, <1>5
<1> QED BY <1>1, <1>2, <1>4 DEF d

LEMMA DivisionGrows ==
  ASSUME NEW n \in Nat \ {0}, NEW x \in Int, NEW y \in Int, x <= y
  PROVE  x \div n <= y \div n
<1> DEFINE p == x \div n
<1> DEFINE q == y \div n
<1>1. p \in Int /\ x % n \in 0 .. n - 1 /\ n * p \in Int /\ x = n * p + (x % n) BY Division
<1>2. q \in Int /\ y % n \in 0 .. n - 1 /\ n * q \in Int /\ y = n * q + (y % n) BY Division
<1> HIDE DEF p, q
<1>3. n * p < n * q + n
  <2> DEFINE np == n * p
  <2> DEFINE nq == n * q
  <2> HIDE DEF np, nq
  <2>1. np < nq + n
    <3>1. np \in Int /\ nq \in Int /\ x % n \in 0 .. n - 1 /\ y % n \in 0 .. n - 1
          /\ x = np + (x % n) /\ y = nq + (y % n)
      BY <1>1, <1>2 DEF np, nq
    <3> QED BY <3>1
  <2> QED BY <2>1 DEF np, nq
<1>4. p <= q BY <1>1, <1>2, <1>3, Multiples
<1> QED BY <1>4 DEF p, q

LEMMA MaxIs ==
  ASSUME NEW S \in SUBSET Int, NEW m \in S, \A n \in S : n <= m PROVE Max(S) = m
<1>1. \E x \in S : \A y \in S : x >= y BY DEF Max
<1>2. Max(S) \in S /\ \A y \in S : Max(S) >= y BY <1>1 DEF Max
<1>3. Max(S) >= m /\ Max(S) <= m /\ Max(S) \in Int BY <1>2
<1> QED BY <1>3

LEMMA MinIs ==
  ASSUME NEW S \in SUBSET Int, NEW m \in S, \A n \in S : m <= n PROVE Min(S) = m
<1>1. \E x \in S : \A y \in S : x =< y OBVIOUS
<1>2. Min(S) \in S /\ \A y \in S : Min(S) =< y BY <1>1 DEF Min
<1>3. Min(S) <= m /\ m <= Min(S) /\ Min(S) \in Int BY <1>2
<1> QED BY <1>3

LEMMA MinOfTwo ==
  ASSUME NEW a \in Int, NEW b \in Int
  PROVE  Min({a, b}) = IF a <= b THEN a ELSE b
<1>1. CASE a <= b BY <1>1, MinIs
<1>2. CASE ~(a <= b) BY <1>2, MinIs
<1> QED BY <1>1, <1>2

LEMMA MaxOfTwo ==
  ASSUME NEW a \in Int, NEW b \in Int
  PROVE  Max({a, b}) = IF a >= b THEN a ELSE b
<1>1. CASE a >= b BY <1>1, MaxIs
<1>2. CASE ~(a >= b) BY <1>2, MaxIs
<1> QED BY <1>1, <1>2

-----------------------------------------------------------------------------
(* The calendar.                                                            *)
LastDay == LastMoment \div Moments

LEMMA SalesConstants ==
  /\ Moments \in Nat \ {0} /\ Week \in Nat \ {0} /\ Days \in Nat \ {0} /\ Weeks \in Nat \ {0}
  /\ Months \in Nat \ {0} /\ Limit \in Nat \ {0} /\ MaxPage \in Nat \ {0} /\ LastMoment \in Nat
BY SalesAssumption DEF SalesAssumption

LEMMA DayIsDay == ASSUME NEW t \in 0 .. LastMoment PROVE Day(t) \in 0 .. LastDay
<1>1. Day(t) \in Int /\ LastDay \in Int BY Division, SalesConstants DEF Day, LastDay
<1>2. 0 \div Moments <= t \div Moments /\ t \div Moments <= LastMoment \div Moments
  BY DivisionGrows, SalesConstants
<1>3. 0 \div Moments = 0 BY Quotient, SalesConstants
<1> QED BY <1>1, <1>2, <1>3 DEF Day, LastDay

(* The start of a week is a multiple of its length, and a day is in the     *)
(* week that starts with the last one before it.                            *)
LEMMA WeekOfDay ==
  ASSUME NEW d \in Int
  PROVE  /\ StartOfWeek(d) \in Int /\ StartOfWeek(d) <= d /\ d < StartOfWeek(d) + Week
         /\ d \div Week \in Int /\ StartOfWeek(d) = Week * (d \div Week)
<1>1. d \div Week \in Int /\ d % Week \in 0 .. Week - 1
      /\ Week * (d \div Week) \in Int /\ d = Week * (d \div Week) + (d % Week)
  BY Division, SalesConstants
<1> QED BY <1>1, SalesConstants DEF StartOfWeek

LEMMA WeekStarts ==
  ASSUME NEW q \in Int, NEW d \in Int
  PROVE  /\ (Week * q) % Week = 0
         /\ StartOfWeek(d) = Week * q <=> d \in (Week * q) .. (Week * q) + Week - 1
<1> DEFINE w == Week * q
<1>1. w \in Int BY SalesConstants
<1>2. w % Week = 0
  <2>1. Week * q <= w /\ w < Week * q + Week BY SalesConstants
  <2>2. w % Week = w - Week * q BY <1>1, <2>1, Quotient, SalesConstants
  <2> QED BY <1>1, <2>2
<1>3. StartOfWeek(d) = w <=> d \in w .. w + Week - 1
  <2>1. ASSUME StartOfWeek(d) = w PROVE d \in w .. w + Week - 1
    BY <2>1, <1>1, WeekOfDay, SalesConstants
  <2>2. ASSUME d \in w .. w + Week - 1 PROVE StartOfWeek(d) = w
    <3>1. Week * q <= d /\ d < Week * q + Week BY <2>2, <1>1, SalesConstants
    <3>2. d % Week = d - Week * q BY <3>1, Quotient, SalesConstants
    <3> HIDE DEF w
    <3>3. d - (d - w) = w BY <1>1
    <3> QED BY <3>2, <3>3 DEF StartOfWeek, w
  <2> QED BY <2>1, <2>2
<1> QED BY <1>2, <1>3

(* The months.                                                              *)
Month(m) ==
  /\ m \in DOMAIN MonthFirst /\ m + 1 \in DOMAIN MonthFirst
  /\ m - (Months - 1) .. m + 1 \subseteq DOMAIN MonthFirst

LEMMA MonthsGrow ==
  /\ DOMAIN MonthFirst \subseteq Int /\ \A m \in DOMAIN MonthFirst : MonthFirst[m] \in Int
  /\ \A m, n \in DOMAIN MonthFirst : m < n => MonthFirst[m] < MonthFirst[n]
  /\ \A m, n \in DOMAIN MonthFirst : m <= n => MonthFirst[m] <= MonthFirst[n]
<1>1. /\ DOMAIN MonthFirst \subseteq Int /\ \A m \in DOMAIN MonthFirst : MonthFirst[m] \in Int
      /\ \A m, n \in DOMAIN MonthFirst : m < n => MonthFirst[m] < MonthFirst[n]
  BY SalesAssumption DEF SalesAssumption
<1>2. ASSUME NEW m \in DOMAIN MonthFirst, NEW n \in DOMAIN MonthFirst, m <= n
      PROVE  MonthFirst[m] <= MonthFirst[n]
  <2>1. CASE m < n BY <2>1, <1>1
  <2>2. CASE m = n BY <2>2, <1>1
  <2> QED BY <1>1, <1>2, <2>1, <2>2
<1> QED BY <1>1, <1>2

LEMMA MonthIs ==
  ASSUME NEW m \in DOMAIN MonthFirst, m + 1 \in DOMAIN MonthFirst,
         NEW d \in Int, MonthFirst[m] <= d, d < MonthFirst[m + 1]
  PROVE  MonthOf(d) = m
<1> DEFINE S == {n \in DOMAIN MonthFirst : MonthFirst[n] <= d}
<1>1. S \in SUBSET Int /\ m \in S BY MonthsGrow
<1>2. ASSUME NEW n \in S, ~(n <= m) PROVE FALSE
  <2>1. m + 1 <= n /\ n \in DOMAIN MonthFirst BY <1>2, MonthsGrow
  <2>2. MonthFirst[m + 1] <= MonthFirst[n] BY <2>1, MonthsGrow
  <2>3. /\ MonthFirst[m + 1] \in Int /\ MonthFirst[n] \in Int /\ MonthFirst[n] <= d
    BY <1>2, MonthsGrow
  <2> QED BY <2>2, <2>3
<1> HIDE DEF S
<1>3. Max(S) = m BY <1>1, <1>2, MaxIs
<1> QED BY <1>3 DEF MonthOf, S

LEMMA MonthOfDay ==
  ASSUME NEW d \in 0 .. LastDay
  PROVE  LET m == MonthOf(d)
         IN  /\ m \in Int /\ Month(m) /\ MonthFirst[m] <= d /\ d < MonthFirst[m + 1]
<1>1. PICK m \in DOMAIN MonthFirst : /\ MonthFirst[m] <= d /\ d < MonthFirst[m + 1]
                                     /\ m - (Months - 1) .. m + 1 \subseteq DOMAIN MonthFirst
  BY SalesAssumption DEF SalesAssumption, LastDay
<1>2. m \in Int BY MonthsGrow
<1>3. m + 1 \in m - (Months - 1) .. m + 1 BY <1>2, SalesConstants
<1>4. MonthOf(d) = m BY <1>1, <1>3, MonthIs
<1> QED BY <1>1, <1>2, <1>3, <1>4 DEF Month

(* The days of a month are those from its first to that of the next.        *)
LEMMA DaysOfMonth ==
  ASSUME NEW m \in DOMAIN MonthFirst, m + 1 \in DOMAIN MonthFirst, NEW d \in 0 .. LastDay
  PROVE  MonthOf(d) = m <=> d \in MonthFirst[m] .. MonthFirst[m + 1] - 1
<1>1. MonthFirst[m] \in Int /\ MonthFirst[m + 1] \in Int /\ d \in Int BY MonthsGrow
<1>2. ASSUME MonthOf(d) = m PROVE d \in MonthFirst[m] .. MonthFirst[m + 1] - 1
  BY <1>1, <1>2, MonthOfDay
<1>3. ASSUME d \in MonthFirst[m] .. MonthFirst[m + 1] - 1 PROVE MonthOf(d) = m
  BY <1>1, <1>3, MonthIs
<1> QED BY <1>2, <1>3

-----------------------------------------------------------------------------
(* Merging two tables: every row has a place of its own, so that merging    *)
(* permutes the rows.                                                       *)
Before(list, i, j) == list[i].at > list[j].at \/ (list[i].at = list[j].at /\ i <= j)
Place(list, j)     == Cardinality({i \in DOMAIN list : Before(list, i, j)})

LEMMA EventFields ==
  ASSUME NEW e \in Event
  PROVE  e.sale \in Sale /\ e.at \in 0 .. LastMoment /\ e.at \in Int
BY SalesConstants DEF Event

LEMMA RowsOf ==
  ASSUME NEW list \in Seq(Event)
  PROVE  /\ DOMAIN list = 1 .. Len(list) /\ Len(list) \in Nat /\ DOMAIN list \subseteq Int
         /\ IsFiniteSet(DOMAIN list) /\ Cardinality(DOMAIN list) = Len(list)
         /\ \A i \in DOMAIN list : list[i] \in Event /\ list[i].at \in Int
<1>1. DOMAIN list = 1 .. Len(list) /\ Len(list) \in Nat BY LenProperties
<1>2. \A i \in DOMAIN list : list[i] \in Event BY <1>1, ElementOfSeq
<1>3. /\ IsFiniteSet(1 .. Len(list))
      /\ Cardinality(1 .. Len(list)) = IF 1 > Len(list) THEN 0 ELSE Len(list) - 1 + 1
  BY <1>1, FS_Interval
<1> QED BY <1>1, <1>2, <1>3, EventFields

LEMMA MergedIs ==
  ASSUME NEW list
  PROVE  Merged(list) =
           [k \in DOMAIN list |-> list[CHOOSE j \in DOMAIN list : Place(list, j) = k]]
BY DEF Merged, Place, Before

LEMMA PlaceInside ==
  ASSUME NEW list \in Seq(Event), NEW j \in DOMAIN list
  PROVE  Place(list, j) \in 1 .. Len(list)
<1> DEFINE B == {i \in DOMAIN list : Before(list, i, j)}
<1>1. B \in SUBSET DOMAIN list /\ j \in B BY RowsOf DEF Before
<1>2. IsFiniteSet(B) /\ Cardinality(B) <= Len(list) BY <1>1, RowsOf, FS_Subset
<1> HIDE DEF B
<1>3. Cardinality(B) \in Nat /\ Cardinality(B) # 0 BY <1>1, <1>2, FS_CardinalityType, FS_EmptySet
<1>4. Cardinality(B) \in 1 .. Len(list) BY <1>2, <1>3, RowsOf
<1> QED BY <1>4 DEF Place, B

LEMMA PlacesDiffer ==
  ASSUME NEW list \in Seq(Event), NEW i \in DOMAIN list, NEW j \in DOMAIN list,
         Before(list, i, j), i # j
  PROVE  Place(list, i) < Place(list, j)
<1> DEFINE B == {k \in DOMAIN list : Before(list, k, i)}
<1> DEFINE C == {k \in DOMAIN list : Before(list, k, j)}
<1>1. B \subseteq C
  <2>1. ASSUME NEW k \in DOMAIN list, Before(list, k, i) PROVE Before(list, k, j)
    <3>1. list[i].at \in Int /\ list[j].at \in Int /\ list[k].at \in Int
          /\ i \in Int /\ j \in Int /\ k \in Int BY RowsOf
    <3> QED BY <2>1, <3>1 DEF Before
  <2> QED BY <2>1
<1>2. j \in C /\ j \notin B
  <2>1. list[i].at \in Int /\ list[j].at \in Int /\ i \in Int /\ j \in Int BY RowsOf
  <2> QED BY <2>1 DEF Before
<1>3. C \in SUBSET DOMAIN list OBVIOUS
<1>4. IsFiniteSet(C) BY <1>3, RowsOf, FS_Subset
<1> HIDE DEF B, C
<1>5. /\ IsFiniteSet(B) /\ Cardinality(B) <= Cardinality(C)
      /\ Cardinality(C) = Cardinality(B) => C = B
  BY <1>1, <1>4, FS_Subset
<1>6. Cardinality(B) \in Nat /\ Cardinality(C) \in Nat BY <1>4, <1>5, FS_CardinalityType
<1>7. Cardinality(B) < Cardinality(C) BY <1>2, <1>5, <1>6
<1> QED BY <1>7 DEF Place, B, C

LEMMA PlacesFilled ==
  ASSUME NEW list \in Seq(Event)
  PROVE  /\ \A i, j \in DOMAIN list : Place(list, i) = Place(list, j) => i = j
         /\ \A k \in DOMAIN list : \E j \in DOMAIN list : Place(list, j) = k
<1>1. ASSUME NEW i \in DOMAIN list, NEW j \in DOMAIN list,
             Place(list, i) = Place(list, j), i # j
      PROVE  FALSE
  <2>1. list[i].at \in Int /\ list[j].at \in Int /\ i \in Int /\ j \in Int BY RowsOf
  <2>2. Before(list, i, j) \/ Before(list, j, i) BY <2>1 DEF Before
  <2>3. Place(list, i) < Place(list, j) \/ Place(list, j) < Place(list, i)
    BY <1>1, <2>2, PlacesDiffer
  <2>4. Place(list, i) \in Int /\ Place(list, j) \in Int BY PlaceInside, RowsOf
  <2> QED BY <1>1, <2>3, <2>4
<1> DEFINE D == DOMAIN list
<1> DEFINE f == [j \in D |-> Place(list, j)]
<1>2. f \in Injection(D, D)
  <2>1. f \in [D -> D] BY PlaceInside, RowsOf
  <2> QED BY <1>1, <2>1 DEF Injection, IsInjective
<1>3. IsFiniteSet(D) BY RowsOf
<1> HIDE DEF f, D
<1>4. f \in Surjection(D, D) BY <1>2, <1>3, FS_Injection
<1>5. \A k \in D : \E j \in D : f[j] = k BY <1>4 DEF Surjection
<1> QED BY <1>1, <1>5 DEF f, D

(* Merging permutes the rows.                                               *)
LEMMA MergedRows ==
  ASSUME NEW list \in Seq(Event)
  PROVE  /\ Merged(list) \in Seq(Event) /\ Len(Merged(list)) = Len(list)
         /\ \A j \in DOMAIN list :
              Place(list, j) \in 1 .. Len(list) /\ Merged(list)[Place(list, j)] = list[j]
<1> DEFINE at(k) == CHOOSE j \in DOMAIN list : Place(list, j) = k
<1>1. ASSUME NEW k \in DOMAIN list PROVE at(k) \in DOMAIN list /\ Place(list, at(k)) = k
  BY PlacesFilled
<1>2. ASSUME NEW j \in DOMAIN list PROVE at(Place(list, j)) = j
  <2>1. Place(list, j) \in DOMAIN list BY PlaceInside, RowsOf
  <2>2. at(Place(list, j)) \in DOMAIN list /\ Place(list, at(Place(list, j))) = Place(list, j)
    BY <2>1, <1>1
  <2> HIDE DEF at
  <2> QED BY <2>2, PlacesFilled
<1>3. Merged(list) = [k \in DOMAIN list |-> list[at(k)]] BY MergedIs
<1> HIDE DEF at
<1>4. Merged(list) \in [1 .. Len(list) -> Event] BY <1>1, <1>3, RowsOf
<1>5. Merged(list) \in Seq(Event) /\ Len(Merged(list)) = Len(list) BY <1>4, RowsOf
<1>6. ASSUME NEW j \in DOMAIN list
      PROVE  Place(list, j) \in 1 .. Len(list) /\ Merged(list)[Place(list, j)] = list[j]
  BY <1>2, <1>3, PlaceInside, RowsOf
<1> QED BY <1>5, <1>6

-----------------------------------------------------------------------------
(* The invariant.                                                           *)

(* A report: what has been there throughout is still there, everything that *)
(* is there counts as passing, and every table read answered the rows of    *)
(* its sales that were there throughout and none that never was.            *)
ReportFollows ==
  request.pc = "stats" =>
    /\ constant \subseteq Events(There) /\ Events(There) \subseteq passing
    /\ \A t \in Table :
         /\ request.found[t] \subseteq passing
         /\ t \in request.read =>
              {e \in constant : /\ e.sale \in Of(t)
                                /\ Day(e.at) >= Earliest(Day(request.now))}
                \subseteq request.found[t]

(* The answers a query for the latest rows of a table may have now.         *)
Latest(table, take) ==
  {SubSeq(list, 1, Min({Len(list), take})) :
     list \in {r \in SetToSeqs(Events(Of(table) \cap There)) :
                 \A i, j \in DOMAIN r : i < j => r[i].at >= r[j].at}}

(* The place of a sale among those of both tables, the last first.          *)
Newer(e) == {s \in There : sold[s] >= e.at}
Rank(e)  == Cardinality(Newer(e))
Alone(e) == \A o \in Sale : sold[o] = e.at => o = e.sale

(* The page of a walk that is being read: its tables are as they are now.   *)
PageFollows ==
  request.pc = "list" =>
    /\ request.page = walk.next /\ ~walk.done
    /\ \A t \in request.read : request.found[t] \in Latest(t, FetchTake(request.page))
    /\ \A t \in request.counted : request.total[t] = Cardinality(Of(t) \cap There)

(* A sale of the walk that has not been seen is on a page still to come.    *)
WalkFollows ==
  walk.next > 0 =>
    /\ request.pc # "stats" /\ PageFollows
    /\ walk.standing \subseteq Events(There)
    /\ \A e \in walk.standing :
         Alone(e) => \/ e \in walk.seen
                     \/ ~walk.done /\ Rank(e) > (walk.next - 1) * Limit

SalesInv ==
  /\ SalesTypeOK /\ IsFiniteSet(passing)
  /\ ReportFollows
  /\ walk.next = 0 => walk = NoWalk
  /\ WalkFollows

-----------------------------------------------------------------------------
(* The tables.                                                              *)
EventOf(s) == [sale |-> s, at |-> sold[s]]

LEMMA SoldTyped ==
  ASSUME SalesTypeOK
  PROVE  /\ There \subseteq Sale /\ IsFiniteSet(There)
         /\ \A s \in Sale : sold[s] \in Int
         /\ \A s \in There : sold[s] \in 0 .. LastMoment /\ EventOf(s) \in Event
         /\ \A s \in Sale : s \in There <=> sold[s] >= 0
<1>1. ASSUME NEW s \in Sale PROVE sold[s] \in (0 .. LastMoment) \cup {Unsold, Deleted}
  BY DEF SalesTypeOK
<1>2. IsFiniteSet(There) BY FS_Subset, SalesAssumption DEF There, SalesAssumption
<1>3. \A s \in Sale : sold[s] \in Int BY <1>1, SalesConstants DEF Unsold, Deleted
<1>4. \A s \in There : sold[s] \in 0 .. LastMoment
  BY <1>1, SalesConstants DEF There, Unsold, Deleted
<1>5. \A s \in There : EventOf(s) \in Event BY <1>4 DEF EventOf, Event, There
<1> QED BY <1>2, <1>3, <1>4, <1>5 DEF There

LEMMA EventsTyped ==
  ASSUME SalesTypeOK, NEW S \in SUBSET There
  PROVE  /\ Events(S) = {EventOf(s) : s \in S} /\ Events(S) \subseteq Event
         /\ IsFiniteSet(Events(S)) /\ IsFiniteSet(S)
         /\ \A e \in Events(S) : e.sale \in S /\ e.at = sold[e.sale] /\ e = EventOf(e.sale)
<1>1. Events(S) = {EventOf(s) : s \in S} BY DEF Events, EventOf
<1>2. Events(S) \subseteq Event BY <1>1, SoldTyped
<1>3. IsFiniteSet(S) BY SoldTyped, FS_Subset
<1> DEFINE f == [s \in S |-> EventOf(s)]
<1>4. f \in Surjection(S, Events(S)) BY <1>1 DEF Surjection
<1> HIDE DEF f
<1>5. IsFiniteSet(Events(S)) BY <1>3, <1>4, FS_Surjection
<1>6. \A s \in S : EventOf(s).sale = s /\ EventOf(s).at = sold[s] BY DEF EventOf
<1> QED BY <1>1, <1>2, <1>3, <1>5, <1>6

LEMMA Tables ==
  /\ "purchases" \in Table /\ "albumPurchases" \in Table
  /\ \A t \in Table : t = "purchases" \/ t = "albumPurchases"
  /\ Of("purchases") = TrackSale /\ Of("albumPurchases") = AlbumSale
  /\ \A t \in Table : Of(t) \subseteq Sale
  /\ Sale = TrackSale \cup AlbumSale /\ TrackSale \cap AlbumSale = {}
BY SalesAssumption DEF Table, Of, Sale, SalesAssumption

(* Every row of a finite set is at one place of a list of all of it.        *)
LEMMA AllListed ==
  ASSUME NEW S, IsFiniteSet(S), NEW r \in SetToSeqs(S)
  PROVE  /\ Cardinality(S) \in Nat /\ r \in [1 .. Cardinality(S) -> S]
         /\ r \in Seq(S) /\ Len(r) = Cardinality(S)
         /\ \A i, j \in 1 .. Len(r) : r[i] = r[j] => i = j
         /\ \A e \in S : \E i \in 1 .. Len(r) : r[i] = e
<1> DEFINE n == Cardinality(S)
<1> DEFINE D == 1 .. n
<1>1. n \in Nat BY FS_CardinalityType
<1>2. r \in [D -> S] /\ \A i, j \in D : i # j => r[i] # r[j] BY DEF SetToSeqs
<1>3. r \in Injection(D, S) BY <1>2 DEF Injection, IsInjective
<1>4. Cardinality(D) = n
  <2> HIDE DEF n
  <2>1. Cardinality(D) = IF 1 > n THEN 0 ELSE n - 1 + 1 BY <1>1, FS_Interval
  <2> QED BY <1>1, <2>1
<1> HIDE DEF D
<1>5. r \in Surjection(D, S) BY <1>3, <1>4, FS_Injection
<1>6. \A e \in S : \E i \in D : r[i] = e BY <1>5 DEF Surjection
<1> HIDE DEF n
<1>7. r \in Seq(S) /\ Len(r) = n BY <1>1, <1>2 DEF D
<1> QED BY <1>1, <1>2, <1>6, <1>7 DEF D, n

(* A part of a list.                                                        *)
LEMMA PartOf ==
  ASSUME NEW S, NEW r \in Seq(S), NEW a \in Nat \ {0}, NEW b \in Int, b <= Len(r)
  PROVE  /\ SubSeq(r, a, b) \in Seq(S)
         /\ Len(SubSeq(r, a, b)) = IF a <= b THEN b - a + 1 ELSE 0
         /\ \A i \in 1 .. b - a + 1 : SubSeq(r, a, b)[i] = r[a + i - 1]
<1>1. Len(r) \in Nat BY LenProperties
<1>2. \A i \in a .. b : r[i] \in S
  <2>1. ASSUME NEW i \in a .. b PROVE i \in 1 .. Len(r) BY <1>1
  <2> QED BY <2>1, ElementOfSeq
<1> QED BY <1>2, SubSeqProperties

LEMMA PrefixOf ==
  ASSUME NEW S, NEW r \in Seq(S), NEW k \in Nat, k <= Len(r)
  PROVE  /\ SubSeq(r, 1, k) \in Seq(S) /\ Len(SubSeq(r, 1, k)) = k
         /\ \A i \in 1 .. k : SubSeq(r, 1, k)[i] = r[i]
<1>1. /\ SubSeq(r, 1, k) \in Seq(S)
      /\ Len(SubSeq(r, 1, k)) = IF 1 <= k THEN k - 1 + 1 ELSE 0
      /\ \A i \in 1 .. k - 1 + 1 : SubSeq(r, 1, k)[i] = r[1 + i - 1]
  BY PartOf
<1>2. Len(SubSeq(r, 1, k)) = k BY <1>1
<1>3. \A i \in 1 .. k : i \in 1 .. k - 1 + 1 /\ 1 + i - 1 = i OBVIOUS
<1> QED BY <1>1, <1>2, <1>3

(* What a query for the latest rows answers.                                *)
LEMMA LatestRows ==
  ASSUME SalesTypeOK, NEW t \in Table, NEW take \in Nat, NEW list \in Latest(t, take)
  PROVE  /\ list \in Seq(Event)
         /\ \A i \in DOMAIN list : list[i] \in Events(Of(t) \cap There)
         /\ \A i, j \in DOMAIN list : list[i] = list[j] => i = j
         /\ \A e \in Events(Of(t) \cap There) :
              Rank(e) <= take => \E i \in DOMAIN list : list[i] = e
<1> DEFINE S == Events(Of(t) \cap There)
<1> PICK r \in SetToSeqs(S) :
      /\ \A i, j \in DOMAIN r : i < j => r[i].at >= r[j].at
      /\ list = SubSeq(r, 1, Min({Len(r), take}))
  BY DEF Latest
<1>1. S \subseteq Event /\ IsFiniteSet(S) BY EventsTyped
<1> DEFINE n == Len(r)
<1> HIDE DEF S
<1>2. /\ n \in Nat /\ n = Cardinality(S) /\ r \in [1 .. n -> S] /\ r \in Seq(S)
      /\ \A i, j \in 1 .. n : r[i] = r[j] => i = j
      /\ \A e \in S : \E i \in 1 .. n : r[i] = e
  BY <1>1, AllListed
<1> DEFINE k == Min({n, take})
<1> HIDE DEF n
<1>3. k \in Nat /\ k <= n /\ k <= take /\ (k = n \/ k = take) BY <1>2, MinOfTwo
<1>4. list = SubSeq(r, 1, k) BY DEF n
<1> HIDE DEF k
<1>5. \A i \in 1 .. k : r[i] \in S BY <1>2, <1>3
<1>6. list \in Seq(S) /\ Len(list) = k /\ \A i \in 1 .. k : list[i] = r[i]
  <2>1. r \in Seq(S) /\ k \in Nat /\ k <= Len(r) BY <1>2, <1>3 DEF n
  <2>2. /\ SubSeq(r, 1, k) \in Seq(S) /\ Len(SubSeq(r, 1, k)) = k
        /\ \A i \in 1 .. k : SubSeq(r, 1, k)[i] = r[i]
    BY <2>1, PrefixOf
  <2> QED BY <1>4, <2>2, Zenon
<1>7. DOMAIN list = 1 .. k /\ DOMAIN r = 1 .. n BY <1>2, <1>6, LenProperties
<1>8. list \in Seq(Event) BY <1>1, <1>6, SeqMonotonic
<1>9. ASSUME NEW e \in S, Rank(e) <= take PROVE \E i \in DOMAIN list : list[i] = e
  <2>1. PICK p \in 1 .. n : r[p] = e BY <1>2
  <2>2. SUFFICES p <= k BY <1>6, <1>7, <2>1
  <2>3. SUFFICES ASSUME p > take PROVE FALSE BY <1>2, <1>3, <2>1
  <2> DEFINE f == [i \in 1 .. p |-> r[i].sale]
  <2>4. \A i \in 1 .. p : r[i] \in S /\ i \in 1 .. n BY <1>2, <2>1
  <2>5. \A x \in S : x.sale \in There /\ x.at = sold[x.sale] /\ x = EventOf(x.sale) /\ x.at \in Int
    BY EventsTyped, SoldTyped, EventFields DEF S
  <2>6. f \in [1 .. p -> Newer(e)]
    <3>1. ASSUME NEW i \in 1 .. p PROVE r[i].sale \in Newer(e)
      <4>1. r[i].at >= e.at
        <5>1. CASE i = p BY <5>1, <2>1, <2>4, <2>5
        <5>2. CASE i # p
          <6>1. i \in DOMAIN r /\ p \in DOMAIN r /\ i < p BY <5>2, <1>7, <2>1, <2>4
          <6> QED BY <6>1, <2>1
        <5> QED BY <5>1, <5>2
      <4> QED BY <4>1, <2>4, <2>5 DEF Newer
    <3> QED BY <3>1
  <2>7. \A i, j \in 1 .. p : f[i] = f[j] => i = j
    <3>1. ASSUME NEW i \in 1 .. p, NEW j \in 1 .. p, r[i].sale = r[j].sale PROVE i = j
      <4>1. r[i] = r[j] BY <3>1, <2>4, <2>5
      <4> QED BY <4>1, <1>2, <2>4
    <3> QED BY <3>1
  <2>8. f \in Injection(1 .. p, Newer(e)) BY <2>6, <2>7 DEF Injection, IsInjective
  <2>9. IsFiniteSet(Newer(e)) BY SoldTyped, FS_Subset DEF Newer
  <2> HIDE DEF f
  <2>10. Cardinality(1 .. p) <= Rank(e) BY <2>8, <2>9, FS_Injection DEF Rank
  <2>11. p \in Nat /\ p >= 1 BY <2>1
  <2>12. Cardinality(1 .. p) = IF 1 > p THEN 0 ELSE p - 1 + 1 BY <2>11, FS_Interval
  <2>13. Rank(e) \in Nat BY <2>9, FS_CardinalityType DEF Rank
  <2> QED BY <1>9, <2>3, <2>10, <2>11, <2>12, <2>13
<1>10. \A i \in DOMAIN list : list[i] \in S BY <1>5, <1>6, <1>7
<1>11. \A i, j \in DOMAIN list : list[i] = list[j] => i = j
  <2>1. \A i \in 1 .. k : i \in 1 .. n BY <1>2, <1>3
  <2>2. \A i \in 1 .. k : list[i] = r[i] BY <1>6
  <2>3. \A i, j \in 1 .. n : r[i] = r[j] => i = j BY <1>2
  <2>4. ASSUME NEW i \in 1 .. k, NEW j \in 1 .. k, list[i] = list[j] PROVE i = j
    <3>1. r[i] = r[j] /\ i \in 1 .. n /\ j \in 1 .. n BY <2>1, <2>2, <2>4, Zenon
    <3> QED BY <2>3, <3>1, Zenon
  <2> QED BY <1>7, <2>4, Zenon
<1> QED BY <1>8, <1>9, <1>10, <1>11 DEF S

-----------------------------------------------------------------------------
(* The type invariant of the reports.                                       *)
LEMMA RequestTyped ==
  ASSUME SalesTypeOK
  PROVE  /\ request.pc = "stats" => request \in Reporting
         /\ request.pc = "list" => request \in Listing
         /\ request = Idle <=> request.pc = "idle"
         /\ request.pc \in {"idle", "stats", "list"}
BY DEF SalesTypeOK, Idle, Reporting, Listing

LEMMA ReportingFields ==
  ASSUME SalesTypeOK, request.pc = "stats"
  PROVE  /\ request.now \in 0 .. LastMoment /\ request.read \subseteq Table
         /\ request.found \in [Table -> SUBSET Event]
         /\ Day(request.now) \in 0 .. LastDay
<1>1. request \in Reporting BY RequestTyped
<1>2. /\ request.now \in 0 .. LastMoment /\ request.read \subseteq Table
      /\ request.found \in [Table -> SUBSET Event]
  BY <1>1 DEF Reporting
<1> QED BY <1>2, DayIsDay

LEMMA ListingFields ==
  ASSUME SalesTypeOK, request.pc = "list"
  PROVE  /\ request.page \in 1 .. MaxPage /\ request.page \in Nat \ {0}
         /\ request.read \subseteq Table /\ request.counted \subseteq Table
         /\ request.found \in [Table -> Seq(Event)] /\ request.total \in [Table -> Nat]
         /\ Skip(request.page) \in Nat /\ FetchTake(request.page) \in Nat
         /\ FetchTake(request.page) = Skip(request.page) + Limit
         /\ Skip(request.page) = (request.page - 1) * Limit
<1>1. request \in Listing BY RequestTyped
<1>2. /\ request.page \in 1 .. MaxPage
      /\ request.read \subseteq Table /\ request.counted \subseteq Table
      /\ request.found \in [Table -> Seq(Event)] /\ request.total \in [Table -> Nat]
  BY <1>1 DEF Listing
<1>3. request.page \in Nat \ {0} /\ request.page - 1 \in Nat BY <1>2, SalesConstants
<1>4. (request.page - 1) * Limit \in Nat
  <2> DEFINE n == request.page - 1
  <2> HIDE DEF n
  <2>1. n \in Nat BY <1>3 DEF n
  <2>2. n * Limit \in Nat BY <2>1, SalesConstants
  <2> QED BY <2>2 DEF n
<1> QED BY <1>2, <1>3, <1>4, SalesConstants DEF Skip, FetchTake

LEMMA NoWalkTyped == NoWalk \in Walk
BY SalesConstants DEF NoWalk, Walk

LEMMA ParsePageIs == ASSUME NEW asked \in 0 .. MaxPage PROVE ParsePage(asked) \in 1 .. MaxPage
<1>1. asked \in Int BY SalesConstants
<1>2. ParsePage(asked) = IF 1 >= asked THEN 1 ELSE asked BY <1>1, MaxOfTwo DEF ParsePage
<1> QED BY <1>2, SalesConstants

(* The page that is answered.                                               *)
FoundRows == request.found["purchases"] \o request.found["albumPurchases"]
Items     == LET all  == Merged(FoundRows)
                 page == request.page
             IN  SubSeq(all, Skip(page) + 1, Min({Len(all), Skip(page) + Limit}))

Ends      == request.page >=
               TotalPages(request.total["purchases"] + request.total["albumPurchases"])

LEMMA AnswerFollows ==
  AnswerList => walk' = IF request.page = walk.next
                        THEN [walk EXCEPT !.next = request.page + 1, !.done = Ends,
                                          !.seen = @ \cup ToSet(Items)]
                        ELSE walk
BY Zenon DEF AnswerList, Items, FoundRows, Ends

(* All rows counted are on the pages.                                       *)
LEMMA PagesHoldAll ==
  ASSUME NEW n \in Nat
  PROVE  /\ TotalPages(n) \in Nat \ {0} /\ Limit * TotalPages(n) \in Nat
         /\ n <= Limit * TotalPages(n)
<1> DEFINE x == n + Limit - 1
<1> DEFINE q == x \div Limit
<1>1. x \in Nat /\ x = n + (Limit - 1) /\ Limit \in Nat \ {0} BY SalesConstants
<1> HIDE DEF x
<1>2. /\ q \in Int /\ x % Limit \in 0 .. Limit - 1
      /\ Limit * q \in Int /\ x = Limit * q + (x % Limit)
  BY <1>1, Division
<1> HIDE DEF q
<1>3. TotalPages(n) = IF 1 >= q THEN 1 ELSE q BY <1>2, MaxOfTwo DEF TotalPages, x, q
<1>4. n <= Limit * q
  <2> DEFINE p == Limit * q
  <2> HIDE DEF p
  <2>1. /\ p \in Int /\ x % Limit \in 0 .. Limit - 1 /\ x = p + (x % Limit)
    BY <1>2 DEF p
  <2>2. n <= p BY <1>1, <2>1
  <2> QED BY <2>2 DEF p
<1>5. CASE q >= 1
  <2>1. TotalPages(n) = q BY <1>2, <1>3, <1>5
  <2>2. q \in Nat \ {0} BY <1>2, <1>5
  <2>3. Limit * q \in Nat BY <1>1, <2>2, SMTT(30)
  <2> QED BY <1>4, <2>1, <2>2, <2>3
<1>6. CASE q <= 0
  <2>1. TotalPages(n) = 1 BY <1>2, <1>3, <1>6
  <2>2. Limit * 1 = Limit BY <1>1
  <2>3. Limit * q <= 0 BY <1>1, <1>2, <1>6, SMTT(30)
  <2>4. n <= 0
    <3> DEFINE p == Limit * q
    <3> HIDE DEF p
    <3>1. p \in Int /\ p <= 0 /\ n <= p BY <1>2, <1>4, <2>3 DEF p
    <3> QED BY <3>1
  <2> QED BY <1>1, <2>1, <2>2, <2>4
<1> QED BY <1>2, <1>5, <1>6

LEMMA EndsTyped ==
  ASSUME SalesTypeOK, request.pc = "list" PROVE Ends \in BOOLEAN
<1> DEFINE n == request.total["purchases"] + request.total["albumPurchases"]
<1>1. n \in Nat BY ListingFields, Tables
<1> HIDE DEF n
<1>2. TotalPages(n) \in Nat BY <1>1, PagesHoldAll
<1>3. request.page \in Nat BY ListingFields
<1> QED BY <1>2, <1>3 DEF Ends, n

LEMMA ItemsTyped ==
  ASSUME SalesTypeOK, request.pc = "list"
  PROVE  /\ FoundRows \in Seq(Event) /\ Merged(FoundRows) \in Seq(Event)
         /\ Len(Merged(FoundRows)) = Len(FoundRows) /\ Len(FoundRows) \in Nat
         /\ ToSet(Items) \subseteq Event
         /\ \A k \in 1 .. Len(FoundRows) :
              k > Skip(request.page) /\ k <= FetchTake(request.page)
                => Merged(FoundRows)[k] \in ToSet(Items)
<1>1. request.found["purchases"] \in Seq(Event) /\ request.found["albumPurchases"] \in Seq(Event)
  BY ListingFields, Tables
<1>2. FoundRows \in Seq(Event) BY <1>1, ConcatProperties DEF FoundRows
<1> DEFINE all == Merged(FoundRows)
<1>3. all \in Seq(Event) /\ Len(all) = Len(FoundRows) /\ Len(all) \in Nat
  BY <1>2, MergedRows, LenProperties
<1> DEFINE n == Len(all)
<1> DEFINE s == Skip(request.page)
<1> DEFINE b == Min({n, s + Limit})
<1>4. s \in Nat /\ Limit \in Nat /\ s + Limit \in Nat /\ s + 1 \in Nat \ {0}
      /\ FetchTake(request.page) = s + Limit
  BY ListingFields, SalesConstants
<1>5. Items = SubSeq(all, s + 1, b) BY DEF Items
<1> HIDE DEF all, s
<1>6. b \in Nat /\ b <= n /\ b <= s + Limit /\ (b = n \/ b = s + Limit) BY <1>3, <1>4, MinOfTwo
<1> HIDE DEF b
<1>7. /\ SubSeq(all, s + 1, b) \in Seq(Event)
      /\ Len(SubSeq(all, s + 1, b)) = IF s + 1 <= b THEN b - (s + 1) + 1 ELSE 0
      /\ \A i \in 1 .. b - (s + 1) + 1 : SubSeq(all, s + 1, b)[i] = all[(s + 1) + i - 1]
  BY <1>3, <1>4, <1>6, PartOf
<1>8. Items \in Seq(Event) BY <1>5, <1>7
<1>9. DOMAIN Items = 1 .. Len(Items) /\ \A i \in DOMAIN Items : Items[i] \in Event
  BY <1>8, RowsOf
<1>10. ToSet(Items) \subseteq Event BY <1>9 DEF ToSet
<1>11. ASSUME NEW k \in 1 .. n, k > s, k <= s + Limit PROVE all[k] \in ToSet(Items)
  <2>1. k <= b /\ k \in Int BY <1>3, <1>6, <1>11
  <2>2. k - s \in 1 .. b - (s + 1) + 1 /\ (s + 1) + (k - s) - 1 = k /\ s + 1 <= b
    BY <1>4, <1>6, <1>11, <2>1
  <2>3. SubSeq(all, s + 1, b)[k - s] = all[k] BY <1>7, <2>2
  <2>4. Len(Items) = b - (s + 1) + 1 BY <1>5, <1>7, <2>2
  <2>5. k - s \in DOMAIN Items BY <1>9, <2>2, <2>4
  <2> QED BY <1>5, <2>3, <2>5 DEF ToSet
<1> HIDE DEF n
<1> QED BY <1>2, <1>3, <1>4, <1>10, <1>11 DEF all, s, n

LEMMA SalesTypeInit == SalesInit => SalesTypeOK
<1> SUFFICES ASSUME SalesInit PROVE SalesTypeOK OBVIOUS
<1>1. 0 \in 0 .. LastMoment /\ Unsold <= 0 BY SalesConstants DEF Unsold
<1> QED BY <1>1, NoWalkTyped DEF SalesInit, SalesTypeOK

LEMMA SalesTypeNext == SalesTypeOK /\ [SalesNext]_salesVars => SalesTypeOK'
<1> SUFFICES ASSUME SalesTypeOK, [SalesNext]_salesVars PROVE SalesTypeOK' OBVIOUS
<1>0. /\ clock \in 0 .. LastMoment /\ clock \in Int
      /\ sold \in [Sale -> (0 .. LastMoment) \cup {Unsold, Deleted}]
      /\ \A s \in Sale : sold[s] <= clock
      /\ request \in {Idle} \cup Reporting \cup Listing
      /\ constant \subseteq passing /\ passing \subseteq Event /\ walk \in Walk
  BY SalesConstants DEF SalesTypeOK
<1>1. ASSUME NEW s \in Sale, Sell(s) PROVE SalesTypeOK'
  <2>1. [sale |-> s, at |-> clock] \in Event BY <1>0 DEF Event
  <2>2. \A o \in Sale : sold'[o] <= clock' BY <1>0, <1>1 DEF Sell
  <2> QED BY <1>0, <1>1, <2>1, <2>2, NoWalkTyped DEF Sell, SalesTypeOK
<1>2. ASSUME NEW s \in Sale, DeleteSale(s) PROVE SalesTypeOK'
  <2>1. Deleted <= clock BY <1>0, SalesConstants DEF Deleted
  <2> QED BY <1>0, <1>2, <2>1, NoWalkTyped DEF DeleteSale, SalesTypeOK
<1>3. ASSUME Tick PROVE SalesTypeOK'
  <2>1. clock' \in 0 .. LastMoment /\ \A s \in Sale : sold[s] <= clock'
    BY <1>0, <1>3, SoldTyped, SalesConstants DEF Tick
  <2> QED BY <1>0, <1>3, <2>1 DEF Tick, SalesTypeOK, history
<1>4. ASSUME GetSalesStats PROVE SalesTypeOK'
  <2>1. request' \in Reporting BY <1>0, <1>4 DEF GetSalesStats, Reporting
  <2>2. Events(There) \subseteq Event BY EventsTyped
  <2> QED BY <1>0, <1>4, <2>1, <2>2, NoWalkTyped DEF GetSalesStats, SalesTypeOK
<1>5. ASSUME NEW t \in Table, FindSales(t) PROVE SalesTypeOK'
  <2> DEFINE S == {s \in Of(t) \cap There : Day(sold[s]) >= Earliest(Day(request.now))}
  <2>1. Events(S) \subseteq Event BY EventsTyped
  <2>2. request' = [request EXCEPT !.read = @ \cup {t}, !.found[t] = Events(S)]
    BY <1>5 DEF FindSales
  <2>3. request \in Reporting BY <1>5, RequestTyped DEF FindSales
  <2> HIDE DEF S
  <2>4. request' \in Reporting BY <2>1, <2>2, <2>3 DEF Reporting
  <2> QED BY <1>0, <1>5, <2>4 DEF FindSales, SalesTypeOK, history
<1>6. ASSUME AnswerStats PROVE SalesTypeOK'
  BY <1>0, <1>6 DEF AnswerStats, SalesTypeOK
<1>7. ASSUME NEW asked \in 0 .. MaxPage, ListSales(asked) PROVE SalesTypeOK'
  <2> DEFINE page == ParsePage(asked)
  <2>1. page \in 1 .. MaxPage BY ParsePageIs
  <2>2. << >> \in Seq(Event) BY EmptySeq
  <2>3. request' \in Listing BY <1>7, <2>1, <2>2 DEF ListSales, Listing
  <2>4. Events(There) \subseteq Event BY EventsTyped
  <2>5. [NoWalk EXCEPT !.next = 1, !.standing = Events(There)] \in Walk
    <3> DEFINE standing == Events(There)
    <3> HIDE DEF standing
    <3>1. standing \subseteq Event /\ 1 \in 0 .. MaxPage + 1
      BY <2>4, SalesConstants DEF standing
    <3>2. [NoWalk EXCEPT !.next = 1, !.standing = standing] \in Walk
      BY <3>1 DEF NoWalk, Walk
    <3> QED BY <3>2 DEF standing
  <2>6. walk' \in Walk BY <1>0, <1>7, <2>5, NoWalkTyped DEF ListSales
  <2> QED BY <1>0, <1>7, <2>3, <2>6 DEF ListSales, SalesTypeOK
<1>8. ASSUME NEW t \in Table, FindLatest(t) PROVE SalesTypeOK'
  <2>1. request.pc = "list" BY <1>8 DEF FindLatest
  <2>2. PICK list \in Latest(t, FetchTake(request.page)) :
          request' = [request EXCEPT !.read = @ \cup {t}, !.found[t] = list]
    BY <1>8 DEF FindLatest, Latest
  <2>3. list \in Seq(Event) BY <2>1, <2>2, LatestRows, ListingFields
  <2>4. request \in Listing BY <2>1, RequestTyped
  <2>5. request' \in Listing BY <2>2, <2>3, <2>4 DEF Listing
  <2> QED BY <1>0, <1>8, <2>5 DEF FindLatest, SalesTypeOK, history
<1>9. ASSUME NEW t \in Table, CountSales(t) PROVE SalesTypeOK'
  <2> DEFINE n == Cardinality(Of(t) \cap There)
  <2>1. n \in Nat BY EventsTyped, FS_CardinalityType
  <2>2. request' = [request EXCEPT !.counted = @ \cup {t}, !.total[t] = n]
    BY <1>9 DEF CountSales
  <2>3. request \in Listing BY <1>9, RequestTyped DEF CountSales
  <2> HIDE DEF n
  <2>4. request' \in Listing BY <2>1, <2>2, <2>3 DEF Listing
  <2> QED BY <1>0, <1>9, <2>4 DEF CountSales, SalesTypeOK, history
<1>10. ASSUME AnswerList PROVE SalesTypeOK'
  <2>1. request.pc = "list" BY <1>10 DEF AnswerList
  <2>2. request.page \in 1 .. MaxPage /\ ToSet(Items) \subseteq Event
    BY <2>1, ItemsTyped, ListingFields
  <2>3. Ends \in BOOLEAN BY <2>1, EndsTyped
  <2>4. request.page + 1 \in 0 .. MaxPage + 1 BY <2>2, SalesConstants
  <2> DEFINE items == ToSet(Items)
  <2> HIDE DEF items
  <2>5. walk' \in Walk
    <3>1. items \subseteq Event BY <2>2 DEF items
    <3>2. walk' = IF request.page = walk.next
                  THEN [walk EXCEPT !.next = request.page + 1, !.done = Ends,
                                    !.seen = @ \cup items]
                  ELSE walk
      BY <1>10, AnswerFollows DEF items
    <3> QED BY <1>0, <2>3, <2>4, <3>1, <3>2 DEF Walk
  <2> QED BY <1>0, <1>10, <2>5 DEF AnswerList, SalesTypeOK
<1>11. CASE UNCHANGED salesVars BY <1>0, <1>11 DEF salesVars, history, SalesTypeOK
<1> QED BY <1>1, <1>2, <1>3, <1>4, <1>5, <1>6, <1>7, <1>8, <1>9, <1>10, <1>11 DEF SalesNext

(* TypeOK: the type invariant of the reports of sales holds in every        *)
(* reachable state, with any number of sales and points.                    *)
THEOREM SalesTypeCorrect == SalesSpec => []SalesTypeOK
<1> QED BY SalesTypeInit, SalesTypeNext, PTL DEF SalesSpec

-----------------------------------------------------------------------------
(* A page shows the sales of its places.                                    *)
LEMMA NewerTyped ==
  ASSUME SalesTypeOK, NEW e
  PROVE  IsFiniteSet(Newer(e)) /\ Rank(e) \in Nat
BY SoldTyped, FS_Subset, FS_CardinalityType DEF Newer, Rank

LEMMA RankGrows ==
  ASSUME SalesTypeOK, NEW e \in Event, NEW x \in Event, x.at >= e.at
  PROVE  Rank(x) <= Rank(e)
<1>1. Newer(x) \subseteq Newer(e)
  <2>1. e.at \in Int /\ x.at \in Int /\ \A s \in There : sold[s] \in Int
    BY EventFields, SoldTyped
  <2> QED BY <2>1 DEF Newer
<1> QED BY <1>1, NewerTyped, FS_Subset DEF Rank

(* The rows found for a page: rows that are there, none of them twice, and  *)
(* all that the page is asked to have.                                      *)
LEMMA FoundIsThere ==
  ASSUME SalesTypeOK, request.pc = "list",
         \A t \in Table : request.found[t] \in Latest(t, FetchTake(request.page))
  PROVE  /\ \A i \in DOMAIN FoundRows : FoundRows[i] \in Events(There)
         /\ \A i, j \in DOMAIN FoundRows : FoundRows[i] = FoundRows[j] => i = j
         /\ \A e \in Events(There) :
              Rank(e) <= FetchTake(request.page) => \E i \in DOMAIN FoundRows : FoundRows[i] = e
<1> DEFINE F == request.found["purchases"]
<1> DEFINE G == request.found["albumPurchases"]
<1> DEFINE take == FetchTake(request.page)
<1> DEFINE P == Events(TrackSale \cap There)
<1> DEFINE Q == Events(AlbumSale \cap There)
<1>1. take \in Nat BY ListingFields
<1>2. F \in Latest("purchases", take) /\ G \in Latest("albumPurchases", take) BY Tables
<1>3. /\ F \in Seq(Event) /\ \A i \in DOMAIN F : F[i] \in P
      /\ \A i, j \in DOMAIN F : F[i] = F[j] => i = j
      /\ \A e \in P : Rank(e) <= take => \E i \in DOMAIN F : F[i] = e
  <2> HIDE DEF F, G, take, P, Q
  <2>1. "purchases" \in Table /\ P = Events(Of("purchases") \cap There)
    BY Tables DEF P
  <2>2. /\ F \in Seq(Event) /\ \A i \in DOMAIN F : F[i] \in Events(Of("purchases") \cap There)
        /\ \A i, j \in DOMAIN F : F[i] = F[j] => i = j
        /\ \A e \in Events(Of("purchases") \cap There) :
             Rank(e) <= take => \E i \in DOMAIN F : F[i] = e
    BY <1>1, <1>2, <2>1, LatestRows, Zenon
  <2> QED BY <2>1, <2>2, Zenon
<1>4. /\ G \in Seq(Event) /\ \A i \in DOMAIN G : G[i] \in Q
      /\ \A i, j \in DOMAIN G : G[i] = G[j] => i = j
      /\ \A e \in Q : Rank(e) <= take => \E i \in DOMAIN G : G[i] = e
  <2> HIDE DEF F, G, take, P, Q
  <2>1. "albumPurchases" \in Table /\ Q = Events(Of("albumPurchases") \cap There)
    BY Tables DEF Q
  <2>2. /\ G \in Seq(Event) /\ \A i \in DOMAIN G : G[i] \in Events(Of("albumPurchases") \cap There)
        /\ \A i, j \in DOMAIN G : G[i] = G[j] => i = j
        /\ \A e \in Events(Of("albumPurchases") \cap There) :
             Rank(e) <= take => \E i \in DOMAIN G : G[i] = e
    BY <1>1, <1>2, <2>1, LatestRows, Zenon
  <2> QED BY <2>1, <2>2, Zenon
<1>5. Events(There) = P \cup Q /\ P \cap Q = {}
  <2>1. \A s \in There : s \in TrackSale \/ s \in AlbumSale BY Tables, SoldTyped
  <2>2. Events(There) = {EventOf(s) : s \in There} /\ P = {EventOf(s) : s \in TrackSale \cap There}
        /\ Q = {EventOf(s) : s \in AlbumSale \cap There}
    BY EventsTyped
  <2>3. \A e \in P : e.sale \in TrackSale BY EventsTyped
  <2>4. \A e \in Q : e.sale \in AlbumSale BY EventsTyped
  <2> HIDE DEF P, Q
  <2>5. P \cap Q = {} BY <2>3, <2>4, Tables
  <2> QED BY <2>1, <2>2, <2>5
<1>6. FoundRows = F \o G BY DEF FoundRows
<1> HIDE DEF F, G, take, P, Q
<1> DEFINE m == Len(F)
<1> DEFINE n == Len(G)
<1> DEFINE R == FoundRows
<1>7. m \in Nat /\ n \in Nat /\ DOMAIN F = 1 .. m /\ DOMAIN G = 1 .. n
  BY <1>3, <1>4, LenProperties
<1>8. /\ R \in Seq(Event) /\ Len(R) = m + n
      /\ \A i \in 1 .. m + n : R[i] = IF i <= m THEN F[i] ELSE G[i - m]
  BY <1>3, <1>4, <1>6, ConcatProperties
<1>9. DOMAIN R = 1 .. m + n BY <1>8, RowsOf
<1> HIDE DEF m, n, R
<1>10. ASSUME NEW i \in 1 .. m + n
       PROVE  \/ i <= m /\ i \in 1 .. m /\ R[i] = F[i] /\ R[i] \in P
              \/ i > m /\ i - m \in 1 .. n /\ R[i] = G[i - m] /\ R[i] \in Q
  <2>1. CASE i <= m
    <3>1. i \in 1 .. m BY <1>7, <2>1
    <3>2. R[i] = F[i] BY <1>8, <2>1
    <3> QED BY <1>3, <1>7, <2>1, <3>1, <3>2
  <2>2. CASE ~(i <= m)
    <3>1. i > m /\ i - m \in 1 .. n BY <1>7, <2>2
    <3>2. R[i] = G[i - m] BY <1>8, <2>2
    <3> QED BY <1>4, <1>7, <3>1, <3>2
  <2> QED BY <2>1, <2>2
<1>11. \A i \in 1 .. m + n : R[i] \in Events(There) BY <1>5, <1>10
<1>12. ASSUME NEW i \in 1 .. m + n, NEW j \in 1 .. m + n, R[i] = R[j] PROVE i = j
  <2>1. CASE i <= m /\ j <= m
    <3>1. i \in 1 .. m /\ j \in 1 .. m /\ F[i] = F[j] BY <1>7, <1>8, <1>12, <2>1
    <3> QED BY <1>3, <1>7, <3>1
  <2>2. CASE i > m /\ j > m
    <3>1. ~(i <= m) /\ ~(j <= m) /\ i - m \in 1 .. n /\ j - m \in 1 .. n BY <1>7, <2>2
    <3>2. G[i - m] = G[j - m] BY <1>8, <1>12, <3>1
    <3>3. i - m = j - m BY <1>4, <1>7, <3>1, <3>2
    <3> QED BY <1>7, <3>3
  <2>3. CASE i <= m /\ j > m
    <3>1. R[i] \in P /\ R[j] \in Q BY <1>7, <1>10, <2>3
    <3> QED BY <1>5, <1>12, <3>1
  <2>4. CASE i > m /\ j <= m
    <3>1. R[j] \in P /\ R[i] \in Q BY <1>7, <1>10, <2>4
    <3> QED BY <1>5, <1>12, <3>1
  <2> QED BY <1>7, <2>1, <2>2, <2>3, <2>4
<1>13. ASSUME NEW e \in Events(There), Rank(e) <= take PROVE \E i \in 1 .. m + n : R[i] = e
  <2>1. CASE e \in P
    <3>1. PICK i \in 1 .. m : F[i] = e BY <1>3, <1>7, <1>13, <2>1
    <3>2. i \in 1 .. m + n /\ i <= m BY <1>7
    <3> QED BY <1>8, <3>1, <3>2
  <2>2. CASE e \in Q
    <3>1. PICK i \in 1 .. n : G[i] = e BY <1>4, <1>7, <1>13, <2>2
    <3>2. m + i \in 1 .. m + n /\ ~(m + i <= m) /\ (m + i) - m = i BY <1>7
    <3>3. R[m + i] = e BY <1>8, <3>1, <3>2
    <3> QED BY <3>2, <3>3
  <2> QED BY <1>5, <2>1, <2>2
<1> QED BY <1>9, <1>11, <1>12, <1>13 DEF R, take

(* Among the rows found, a sale that is alone in its moment has the place   *)
(* that is its rank, if the page was asked to have it.                      *)
LEMMA PlaceIsRank ==
  ASSUME SalesTypeOK, request.pc = "list",
         \A t \in Table : request.found[t] \in Latest(t, FetchTake(request.page)),
         NEW j \in DOMAIN FoundRows, Alone(FoundRows[j]),
         Rank(FoundRows[j]) <= FetchTake(request.page)
  PROVE  Place(FoundRows, j) = Rank(FoundRows[j])
<1> DEFINE R == FoundRows
<1> DEFINE e == R[j]
<1> DEFINE B == {i \in DOMAIN R : Before(R, i, j)}
<1> DEFINE g == [i \in B |-> R[i].sale]
<1>1. R \in Seq(Event) BY ItemsTyped
<1>2. /\ \A i \in DOMAIN R : R[i] \in Events(There)
      /\ \A i, k \in DOMAIN R : R[i] = R[k] => i = k
      /\ \A x \in Events(There) :
           Rank(x) <= FetchTake(request.page) => \E i \in DOMAIN R : R[i] = x
  BY FoundIsThere
<1>3. \A x \in Events(There) : /\ x.sale \in There /\ x.at = sold[x.sale] /\ x = EventOf(x.sale)
                               /\ x \in Event /\ x.at \in Int
  BY EventsTyped, EventFields
<1>4. DOMAIN R \subseteq Int /\ IsFiniteSet(DOMAIN R) BY <1>1, RowsOf
<1>5. FetchTake(request.page) \in Nat BY ListingFields
<1>6. e \in Events(There) /\ Rank(e) \in Nat /\ IsFiniteSet(Newer(e)) BY <1>2, NewerTyped
<1>7. j \in DOMAIN R /\ Alone(e) /\ Rank(e) <= FetchTake(request.page) OBVIOUS
<1> HIDE DEF R
<1>8. g \in [B -> Newer(e)]
  <2>1. ASSUME NEW i \in B PROVE R[i].sale \in Newer(e)
    <3>1. i \in DOMAIN R /\ Before(R, i, j) OBVIOUS
    <3>2. R[i] \in Events(There) BY <1>2, <3>1
    <3>3. R[i].at >= R[j].at BY <1>3, <1>6, <3>1, <3>2 DEF Before
    <3> QED BY <1>3, <3>2, <3>3 DEF Newer
  <2> QED BY <2>1
<1>9. \A i, k \in B : g[i] = g[k] => i = k
  <2>1. ASSUME NEW i \in B, NEW k \in B, R[i].sale = R[k].sale PROVE i = k
    <3>1. R[i] = R[k] BY <1>2, <1>3, <2>1
    <3> QED BY <1>2, <3>1
  <2> QED BY <2>1
<1>10. ASSUME NEW s \in Newer(e) PROVE \E i \in B : g[i] = s
  <2> DEFINE x == EventOf(s)
  <2>1. s \in There /\ sold[s] >= e.at BY DEF Newer
  <2>2. x \in Events(There) BY <2>1, EventsTyped
  <2>3. x.sale = s /\ x.at = sold[s] BY DEF EventOf
  <2> HIDE DEF x
  <2>4. x \in Event /\ x.at \in Int /\ e \in Event /\ e.at \in Int BY <1>3, <1>6, <2>2
  <2>5. Rank(x) <= Rank(e) /\ Rank(x) \in Nat BY <2>1, <2>3, <2>4, RankGrows, NewerTyped
  <2>6. Rank(x) <= FetchTake(request.page) BY <1>5, <1>6, <1>7, <2>5
  <2>7. PICK i \in DOMAIN R : R[i] = x BY <1>2, <2>2, <2>6
  <2>8. Before(R, i, j)
    <3>1. CASE x.at > e.at BY <2>7, <3>1 DEF Before
    <3>2. CASE x.at = e.at
      <4>1. s \in Sale BY <2>1 DEF There
      <4>2. s = e.sale BY <1>7, <2>3, <3>2, <4>1 DEF Alone
      <4>3. R[i] = R[j] BY <1>3, <1>6, <2>2, <2>3, <2>7, <4>2
      <4>4. \A k \in DOMAIN R : R[i] = R[k] => i = k BY <1>2
      <4>5. i = j BY <1>7, <4>3, <4>4, Zenon
      <4>6. i <= j BY <1>4, <4>5
      <4> QED BY <2>7, <3>2, <4>6 DEF Before
    <3> QED BY <2>1, <2>3, <2>4, <3>1, <3>2
  <2> QED BY <2>3, <2>7, <2>8
<1>11. g \in Bijection(B, Newer(e))
  <2> HIDE DEF B, e, g
  <2> QED BY <1>8, <1>9, <1>10 DEF Bijection, Injection, Surjection, IsInjective
<1>12. IsFiniteSet(B) BY <1>4, FS_Subset
<1> HIDE DEF B, e, g
<1>13. Cardinality(Newer(e)) = Cardinality(B)
  BY <1>11, <1>12, FS_Bijection DEF ExistsBijection
<1> QED BY <1>13 DEF Place, Rank, B, e, R

LEMMA PageShows ==
  ASSUME SalesTypeOK, request.pc = "list",
         \A t \in Table : request.found[t] \in Latest(t, FetchTake(request.page)),
         NEW e \in Events(There), Alone(e),
         Rank(e) > Skip(request.page), Rank(e) <= FetchTake(request.page)
  PROVE  e \in ToSet(Items)
<1>1. PICK j \in DOMAIN FoundRows : FoundRows[j] = e BY FoundIsThere
<1>2. Place(FoundRows, j) = Rank(e) BY <1>1, PlaceIsRank
<1>3. FoundRows \in Seq(Event) BY ItemsTyped
<1>4. Place(FoundRows, j) \in 1 .. Len(FoundRows) /\ Merged(FoundRows)[Place(FoundRows, j)] = e
  BY <1>1, <1>3, MergedRows
<1> QED BY <1>2, <1>4, ItemsTyped

-----------------------------------------------------------------------------
(* The invariant is kept.                                                   *)
LEMMA SalesInvInit == SalesInit => SalesInv
<1> SUFFICES ASSUME SalesInit PROVE SalesInv OBVIOUS
<1>1. SalesTypeOK BY SalesTypeInit
<1>2. IsFiniteSet(passing) BY FS_EmptySet DEF SalesInit
<1>3. ReportFollows BY DEF SalesInit, Idle, ReportFollows
<1>4. walk = NoWalk /\ walk.next = 0 BY DEF SalesInit, NoWalk
<1>5. WalkFollows BY <1>4 DEF WalkFollows
<1> QED BY <1>1, <1>2, <1>3, <1>4, <1>5 DEF SalesInv

LEMMA WalkNext ==
  ASSUME SalesTypeOK
  PROVE  /\ walk.next \in Nat /\ walk.standing \subseteq Event /\ walk.seen \subseteq Event
         /\ walk.done \in BOOLEAN /\ NoWalk.next = 0
BY SalesConstants DEF SalesTypeOK, Walk, NoWalk

LEMMA NoWalkFollows ==
  ASSUME walk' = NoWalk PROVE (walk.next = 0 => walk = NoWalk)' /\ WalkFollows'
BY DEF WalkFollows, NoWalk

(* Nothing of what the invariant reads changes.                             *)
LEMMA SalesStill ==
  ASSUME SalesInv, SalesTypeOK', UNCHANGED <<sold, request, constant, passing, walk>>
  PROVE  SalesInv'
<1>1. There' = There BY DEF There
<1>2. \A S : Events(S)' = Events(S) BY DEF Events
<1>3. \A t, k : Latest(t, k)' = Latest(t, k) BY <1>1, <1>2 DEF Latest
<1>4. \A e : Rank(e)' = Rank(e) /\ Alone(e)' = Alone(e) BY <1>1 DEF Rank, Newer, Alone
<1>5. ReportFollows' BY <1>1, <1>2 DEF SalesInv, ReportFollows
<1>6. WalkFollows' BY <1>1, <1>2, <1>3, <1>4 DEF SalesInv, WalkFollows, PageFollows
<1> QED BY <1>5, <1>6 DEF SalesInv

LEMMA SellKeeps ==
  ASSUME SalesInv, SalesTypeOK', NEW s \in Sale, Sell(s) PROVE SalesInv'
<1>0. SalesTypeOK BY DEF SalesInv
<1>1. /\ sold[s] = Unsold /\ sold' = [sold EXCEPT ![s] = clock]
      /\ request' = request /\ constant' = constant
      /\ sold \in [Sale -> (0 .. LastMoment) \cup {Unsold, Deleted}] /\ clock \in 0 .. LastMoment
  BY <1>0 DEF Sell, SalesTypeOK
<1>2. \A o \in Sale : sold'[o] = IF o = s THEN clock ELSE sold[o] BY <1>1
<1>3. /\ \A o \in Sale : o \in There <=> sold[o] >= 0
      /\ \A o \in Sale : o \in There' <=> sold'[o] >= 0
      /\ There \subseteq Sale /\ There' \subseteq Sale
  BY DEF There
<1>4. There' = There \cup {s}
  <2>1. clock >= 0 BY <1>1, SalesConstants
  <2> QED BY <1>2, <1>3, <2>1
<1>5. s \notin There BY <1>1, <1>3 DEF Unsold
<1>6. Events(There)' = Events(There) \cup {[sale |-> s, at |-> clock]}
  <2>1. Events(There)' = {[sale |-> o, at |-> sold'[o]] : o \in There'} BY DEF Events
  <2>2. Events(There) = {[sale |-> o, at |-> sold[o]] : o \in There} BY DEF Events
  <2>3. \A o \in There : sold'[o] = sold[o] BY <1>2, <1>3, <1>5
  <2>4. sold'[s] = clock BY <1>2
  <2> QED BY <1>4, <2>1, <2>2, <2>3, <2>4
<1>7. IsFiniteSet(passing')
  <2>1. passing' = passing \/ passing' = passing \cup {[sale |-> s, at |-> clock]} BY DEF Sell
  <2> QED BY <2>1, FS_AddElement DEF SalesInv
<1>8. ReportFollows'
  <2> SUFFICES ASSUME request'.pc = "stats" PROVE ReportFollows' BY DEF ReportFollows
  <2>1. request.pc = "stats" /\ passing' = passing \cup {[sale |-> s, at |-> clock]}
    BY <1>1 DEF Sell
  <2>2. constant' \subseteq Events(There)' /\ Events(There)' \subseteq passing'
    BY <1>1, <1>6, <2>1 DEF SalesInv, ReportFollows
  <2> QED BY <1>1, <2>1, <2>2 DEF SalesInv, ReportFollows
<1>9. CASE request.pc = "list"
  <2>1. walk' = NoWalk BY <1>9 DEF Sell
  <2> QED BY <1>7, <1>8, <2>1, NoWalkFollows DEF SalesInv
<1>10. CASE request.pc # "list"
  <2>1. walk' = walk BY <1>10 DEF Sell
  <2>2. ASSUME NEW e \in Event PROVE Rank(e)' >= Rank(e) /\ Rank(e)' \in Nat /\ (Alone(e)' => Alone(e))
    <3>1. Newer(e) \subseteq Newer(e)'
      <4>1. \A o \in There : o \in There' /\ sold'[o] = sold[o] BY <1>2, <1>3, <1>4, <1>5
      <4> QED BY <4>1 DEF Newer
    <3>2. IsFiniteSet(Newer(e)') /\ Rank(e)' \in Nat
      <4>1. IsFiniteSet(There') BY SoldTyped, <1>4, FS_AddElement, <1>0
      <4>2. Newer(e)' \subseteq There' BY DEF Newer
      <4> QED BY <4>1, <4>2, FS_Subset, FS_CardinalityType DEF Rank
    <3>3. Rank(e)' >= Rank(e)
      <4>1. Cardinality(Newer(e)) <= Cardinality(Newer(e)') BY <3>1, <3>2, FS_Subset
      <4> QED BY <1>0, <3>2, <4>1, NewerTyped DEF Rank
    <3>4. ASSUME Alone(e)' PROVE Alone(e)
      <4>1. \A o \in Sale : sold'[o] = e.at => o = e.sale BY <3>4 DEF Alone
      <4>2. e.at >= 0 /\ e.at \in Int BY EventFields, SalesConstants
      <4>3. sold[s] # e.at BY <1>1, <4>2 DEF Unsold
      <4> QED BY <1>2, <4>1, <4>3 DEF Alone
    <3> QED BY <3>2, <3>3, <3>4
  <2>3. WalkFollows'
    <3> SUFFICES ASSUME walk.next > 0 PROVE WalkFollows' BY <2>1 DEF WalkFollows
    <3>1. request'.pc # "stats" /\ PageFollows'
      BY <1>1, <1>10 DEF SalesInv, WalkFollows, PageFollows
    <3>2. walk'.standing \subseteq Events(There)' BY <1>6, <2>1 DEF SalesInv, WalkFollows
    <3>3. ASSUME NEW e \in walk.standing, Alone(e)'
          PROVE  e \in walk.seen \/ (~walk.done /\ Rank(e)' > (walk.next - 1) * Limit)
      <4>1. e \in Event BY <1>0, WalkNext
      <4>2. Rank(e)' >= Rank(e) /\ Alone(e) BY <2>2, <3>3, <4>1
      <4>3. e \in walk.seen \/ (~walk.done /\ Rank(e) > (walk.next - 1) * Limit)
        BY <4>2 DEF SalesInv, WalkFollows
      <4> DEFINE n == (walk.next - 1) * Limit
      <4>4. n \in Int BY <1>0, WalkNext, SalesConstants
      <4> HIDE DEF n
      <4>5. Rank(e) \in Nat /\ Rank(e)' \in Nat BY <1>0, <4>1, <2>2, NewerTyped
      <4>6. Rank(e) > n => Rank(e)' > n BY <4>2, <4>4, <4>5
      <4> QED BY <4>3, <4>6 DEF n
    <3> QED BY <2>1, <3>1, <3>2, <3>3 DEF WalkFollows
  <2> QED BY <1>7, <1>8, <2>1, <2>3 DEF SalesInv
<1> QED BY <1>9, <1>10

LEMMA DeleteKeeps ==
  ASSUME SalesInv, SalesTypeOK', NEW s \in Sale, DeleteSale(s) PROVE SalesInv'
<1>0. SalesTypeOK BY DEF SalesInv
<1>1. /\ s \in There /\ sold' = [sold EXCEPT ![s] = Deleted] /\ request' = request
      /\ constant' = {e \in constant : e.sale # s} /\ walk' = NoWalk /\ passing' = passing
      /\ sold \in [Sale -> (0 .. LastMoment) \cup {Unsold, Deleted}]
  BY <1>0 DEF DeleteSale, SalesTypeOK
<1>2. There' = There \ {s} BY <1>1 DEF There, Deleted
<1>3. /\ Events(There)' = {[sale |-> o, at |-> sold'[o]] : o \in There \ {s}}
      /\ Events(There) = {[sale |-> o, at |-> sold[o]] : o \in There}
  BY <1>2 DEF Events
<1>4. \A o \in There \ {s} : sold'[o] = sold[o] BY <1>1 DEF There
<1>5. ReportFollows'
  <2> SUFFICES ASSUME request.pc = "stats" PROVE ReportFollows' BY <1>1 DEF ReportFollows
  <2>1. constant \subseteq Events(There) /\ Events(There) \subseteq passing
    BY DEF SalesInv, ReportFollows
  <2>2. constant' \subseteq Events(There)'
    <3>1. ASSUME NEW e \in constant, e.sale # s PROVE e \in Events(There)'
      <4>1. PICK o \in There : e = [sale |-> o, at |-> sold[o]] BY <1>3, <2>1
      <4>2. o \in There \ {s} BY <3>1, <4>1
      <4> QED BY <1>3, <1>4, <4>1, <4>2
    <3> QED BY <1>1, <3>1
  <2>3. Events(There)' \subseteq passing' BY <1>1, <1>3, <1>4, <2>1
  <2> QED BY <1>1, <2>2, <2>3 DEF SalesInv, ReportFollows
<1> QED BY <1>1, <1>5, NoWalkFollows DEF SalesInv

LEMMA StatsKeeps ==
  ASSUME SalesInv, SalesTypeOK', GetSalesStats PROVE SalesInv'
<1>0. SalesTypeOK BY DEF SalesInv
<1>1. /\ request' = [pc |-> "stats", now |-> clock, read |-> {}, found |-> [t \in Table |-> {}]]
      /\ constant' = Events(There) /\ passing' = Events(There) /\ walk' = NoWalk
      /\ sold' = sold
  BY DEF GetSalesStats
<1>2. There' = There /\ Events(There)' = Events(There) BY <1>1 DEF There, Events
<1>3. IsFiniteSet(passing') BY <1>0, <1>1, EventsTyped
<1>4. ReportFollows' BY <1>1, <1>2 DEF ReportFollows
<1> QED BY <1>1, <1>3, <1>4, NoWalkFollows DEF SalesInv

LEMMA FindKeeps ==
  ASSUME SalesInv, SalesTypeOK', NEW t \in Table, FindSales(t) PROVE SalesInv'
<1>0. SalesTypeOK BY DEF SalesInv
<1> DEFINE S == {s \in Of(t) \cap There : Day(sold[s]) >= Earliest(Day(request.now))}
<1>1. /\ request.pc = "stats" /\ t \notin request.read /\ sold' = sold
      /\ constant' = constant /\ passing' = passing /\ walk' = walk
      /\ request' = [request EXCEPT !.read = @ \cup {t}, !.found[t] = Events(S)]
  BY DEF FindSales, history
<1>2. There' = There /\ Events(There)' = Events(There) BY <1>1 DEF There, Events
<1>3. walk.next = 0 /\ walk = NoWalk BY <1>0, <1>1, WalkNext DEF SalesInv, WalkFollows
<1>4. constant \subseteq Events(There) /\ Events(There) \subseteq passing
  BY <1>1 DEF SalesInv, ReportFollows
<1>5. Events(S) \subseteq passing
  <2>1. S \in SUBSET There OBVIOUS
  <2> HIDE DEF S
  <2>2. Events(S) = {EventOf(s) : s \in S} /\ Events(There) = {EventOf(s) : s \in There}
    BY <1>0, <2>1, EventsTyped
  <2> QED BY <1>4, <2>1, <2>2
<1>6. {e \in constant : e.sale \in Of(t) /\ Day(e.at) >= Earliest(Day(request.now))}
        \subseteq Events(S)
  <2>1. ASSUME NEW e \in constant, e.sale \in Of(t), Day(e.at) >= Earliest(Day(request.now))
        PROVE  e \in Events(S)
    <3>1. e.sale \in There /\ e.at = sold[e.sale] /\ e = EventOf(e.sale) BY <1>0, <1>4, EventsTyped
    <3>2. e.sale \in S BY <2>1, <3>1
    <3>3. Events(S) = {EventOf(s) : s \in S} BY <1>0, EventsTyped
    <3> QED BY <3>1, <3>2, <3>3
  <2> QED BY <2>1
<1> HIDE DEF S
<1>7. request \in Reporting /\ request.found \in [Table -> SUBSET Event]
  BY <1>0, <1>1, RequestTyped, ReportingFields
<1>8. /\ request'.pc = "stats" /\ request'.now = request.now
      /\ request'.read = request.read \cup {t} /\ request'.found[t] = Events(S)
      /\ \A u \in Table : u # t => request'.found[u] = request.found[u]
  BY <1>1, <1>7 DEF Reporting
<1>9. ReportFollows'
  <2>1. ASSUME NEW u \in Table
        PROVE  /\ request'.found[u] \subseteq passing
               /\ u \in request'.read =>
                    {e \in constant : /\ e.sale \in Of(u)
                                      /\ Day(e.at) >= Earliest(Day(request.now))}
                      \subseteq request'.found[u]
    <3>1. CASE u = t BY <1>5, <1>6, <1>8, <3>1
    <3>2. CASE u # t
      <4>1. request'.found[u] = request.found[u] /\ (u \in request'.read => u \in request.read)
        BY <1>8, <3>2
      <4> QED BY <1>1, <4>1 DEF SalesInv, ReportFollows
    <3> QED BY <3>1, <3>2
  <2> QED BY <1>1, <1>2, <1>4, <1>8, <2>1 DEF ReportFollows
<1>10. walk' = NoWalk BY <1>1, <1>3
<1>11. IsFiniteSet(passing') BY <1>1 DEF SalesInv
<1> QED BY <1>9, <1>10, <1>11, NoWalkFollows DEF SalesInv

LEMMA AnswerStatsKeeps ==
  ASSUME SalesInv, SalesTypeOK', AnswerStats PROVE SalesInv'
<1>1. SalesTypeOK /\ request.pc = "stats" /\ request' = Idle /\ passing' = {} /\ walk' = walk
  BY DEF AnswerStats, SalesInv
<1>2. walk' = NoWalk BY <1>1, WalkNext DEF SalesInv, WalkFollows
<1>3. IsFiniteSet(passing') BY <1>1, FS_EmptySet
<1>4. ReportFollows' BY <1>1 DEF ReportFollows, Idle
<1> QED BY <1>2, <1>3, <1>4, NoWalkFollows DEF SalesInv

LEMMA ListKeeps ==
  ASSUME SalesInv, SalesTypeOK', NEW asked \in 0 .. MaxPage, ListSales(asked) PROVE SalesInv'
<1>0. SalesTypeOK BY DEF SalesInv
<1> DEFINE page == ParsePage(asked)
<1>1. page \in 1 .. MaxPage BY ParsePageIs
<1>2. /\ request = Idle /\ sold' = sold /\ constant' = constant /\ passing' = passing
      /\ request' = [pc |-> "list", page |-> page, read |-> {}, counted |-> {},
                     found |-> [t \in Table |-> << >>], total |-> [t \in Table |-> 0]]
      /\ walk' = IF page = 1 THEN [NoWalk EXCEPT !.next = 1, !.standing = Events(There)]
                 ELSE IF page = walk.next /\ ~walk.done THEN walk ELSE NoWalk
  BY DEF ListSales
<1> HIDE DEF page
<1>3. request'.pc = "list" /\ request'.page = page /\ request'.read = {} /\ request'.counted = {}
  BY <1>2
<1>4. There' = There /\ Events(There)' = Events(There) BY <1>2 DEF There, Events
<1>5. \A e : Rank(e)' = Rank(e) /\ Alone(e)' = Alone(e)
  BY <1>2, <1>4 DEF Rank, Newer, Alone
<1>6. ReportFollows' BY <1>3 DEF ReportFollows
<1>7. IsFiniteSet(passing') BY <1>2 DEF SalesInv
<1>8. CASE page = 1
  <2> DEFINE standing == Events(There)
  <2>1. walk' = [NoWalk EXCEPT !.next = 1, !.standing = standing] BY <1>2, <1>8
  <2>2. standing' = standing BY <1>4
  <2> HIDE DEF standing
  <2>3. walk'.next = 1 /\ walk'.standing = standing /\ walk'.seen = {} /\ walk'.done = FALSE
    BY <2>1 DEF NoWalk
  <2>4. PageFollows' BY <1>3, <1>8, <2>3 DEF PageFollows
  <2>5. ASSUME NEW e \in standing PROVE Rank(e) > (1 - 1) * Limit
    <3>1. e.sale \in There /\ e.at = sold[e.sale] BY <1>0, EventsTyped DEF standing
    <3>2. e.sale \in Newer(e) BY <1>0, <3>1, SoldTyped DEF Newer
    <3>3. IsFiniteSet(Newer(e)) /\ Rank(e) \in Nat BY <1>0, NewerTyped
    <3>4. Rank(e) # 0 BY <3>2, <3>3, FS_EmptySet DEF Rank
    <3>5. (1 - 1) * Limit = 0 BY SalesConstants
    <3> QED BY <3>3, <3>4, <3>5
  <2>6. WalkFollows'
    <3>1. \A e \in walk'.standing : Rank(e)' > (walk'.next - 1) * Limit
      BY <1>5, <2>3, <2>5
    <3>2. walk'.standing \subseteq Events(There)' BY <1>4, <2>3 DEF standing
    <3>3. request'.pc # "stats" /\ ~walk'.done BY <1>3, <2>3
    <3> QED BY <2>4, <3>1, <3>2, <3>3 DEF WalkFollows
  <2> QED BY <1>6, <1>7, <2>3, <2>6 DEF SalesInv
<1>9. CASE page # 1 /\ page = walk.next /\ ~walk.done
  <2>1. walk' = walk /\ walk.next > 0 BY <1>1, <1>2, <1>9, SalesConstants
  <2>2. PageFollows' BY <1>3, <1>9, <2>1 DEF PageFollows
  <2>3. WalkFollows' BY <1>3, <1>4, <1>5, <2>1, <2>2 DEF SalesInv, WalkFollows
  <2> QED BY <1>6, <1>7, <2>1, <2>3 DEF SalesInv
<1>10. CASE page # 1 /\ ~(page = walk.next /\ ~walk.done)
  <2>1. walk' = NoWalk BY <1>2, <1>10
  <2> QED BY <1>6, <1>7, <2>1, NoWalkFollows DEF SalesInv
<1> QED BY <1>8, <1>9, <1>10

(* Reading and counting a table, for a page.                                *)
LEMMA ReadKeeps ==
  ASSUME SalesInv, SalesTypeOK', request.pc = "list",
         UNCHANGED <<sold, constant, passing, walk>>,
         request'.pc = "list", request'.page = request.page,
         \A u \in request'.read :
           \/ u \in request.read /\ request'.found[u] = request.found[u]
           \/ request'.found[u] \in Latest(u, FetchTake(request.page)),
         \A u \in request'.counted :
           \/ u \in request.counted /\ request'.total[u] = request.total[u]
           \/ request'.total[u] = Cardinality(Of(u) \cap There)
  PROVE  SalesInv'
<1>1. There' = There BY DEF There
<1>2. \A S : Events(S)' = Events(S) BY DEF Events
<1>3. \A u, k : Latest(u, k)' = Latest(u, k) BY <1>1, <1>2 DEF Latest
<1>4. \A e : Rank(e)' = Rank(e) /\ Alone(e)' = Alone(e) BY <1>1 DEF Rank, Newer, Alone
<1>5. ReportFollows' BY DEF ReportFollows
<1>6. ASSUME walk.next > 0 PROVE PageFollows'
  <2>1. PageFollows BY <1>6 DEF SalesInv, WalkFollows
  <2> QED BY <1>1, <1>3, <2>1 DEF PageFollows
<1>7. WalkFollows' BY <1>1, <1>2, <1>4, <1>6 DEF SalesInv, WalkFollows
<1> QED BY <1>5, <1>7 DEF SalesInv

LEMMA FindLatestKeeps ==
  ASSUME SalesInv, SalesTypeOK', NEW t \in Table, FindLatest(t) PROVE SalesInv'
<1>1. request.pc = "list" /\ UNCHANGED <<sold, constant, passing, walk>>
  BY DEF FindLatest, history
<1>2. PICK list \in Latest(t, FetchTake(request.page)) :
        request' = [request EXCEPT !.read = @ \cup {t}, !.found[t] = list]
  BY DEF FindLatest, Latest
<1>3. request \in Listing BY <1>1, RequestTyped DEF SalesInv
<1>4. /\ request'.pc = "list" /\ request'.page = request.page
      /\ request'.read = request.read \cup {t} /\ request'.counted = request.counted
      /\ request'.total = request.total /\ request'.found[t] = list
      /\ \A u \in Table : u # t => request'.found[u] = request.found[u]
      /\ request.read \subseteq Table
  BY <1>1, <1>2, <1>3 DEF Listing
<1>5. \A u \in request'.read :
        \/ u \in request.read /\ request'.found[u] = request.found[u]
        \/ request'.found[u] \in Latest(u, FetchTake(request.page))
  BY <1>2, <1>4
<1> QED BY <1>1, <1>4, <1>5, ReadKeeps

LEMMA CountKeeps ==
  ASSUME SalesInv, SalesTypeOK', NEW t \in Table, CountSales(t) PROVE SalesInv'
<1> DEFINE n == Cardinality(Of(t) \cap There)
<1>1. /\ request.pc = "list" /\ UNCHANGED <<sold, constant, passing, walk>>
      /\ request' = [request EXCEPT !.counted = @ \cup {t}, !.total[t] = n]
  BY DEF CountSales, history
<1>2. request \in Listing BY <1>1, RequestTyped DEF SalesInv
<1> HIDE DEF n
<1>3. /\ request'.pc = "list" /\ request'.page = request.page
      /\ request'.read = request.read /\ request'.counted = request.counted \cup {t}
      /\ request'.found = request.found /\ request'.total[t] = n
      /\ \A u \in Table : u # t => request'.total[u] = request.total[u]
      /\ request.counted \subseteq Table
  BY <1>1, <1>2 DEF Listing
<1>4. \A u \in request'.counted :
        \/ u \in request.counted /\ request'.total[u] = request.total[u]
        \/ request'.total[u] = Cardinality(Of(u) \cap There)
  BY <1>3 DEF n
<1> QED BY <1>1, <1>3, <1>4, ReadKeeps

(* The next page of a walk: what has not been seen after it is beyond it,   *)
(* and after the last page there is nothing beyond.                         *)
LEMMA AnswerListKeeps ==
  ASSUME SalesInv, SalesTypeOK', AnswerList PROVE SalesInv'
<1>0. SalesTypeOK BY DEF SalesInv
<1> DEFINE page == request.page
<1>1. /\ request.pc = "list" /\ request.read = Table /\ request.counted = Table
      /\ request' = Idle /\ sold' = sold /\ constant' = constant /\ passing' = passing
  BY DEF AnswerList
<1>2. There' = There /\ Events(There)' = Events(There) BY <1>1 DEF There, Events
<1>3. \A e : Rank(e)' = Rank(e) /\ Alone(e)' = Alone(e)
  BY <1>1, <1>2 DEF Rank, Newer, Alone
<1>4. request'.pc = "idle" BY <1>1 DEF Idle
<1>5. ReportFollows' BY <1>4 DEF ReportFollows
<1>6. IsFiniteSet(passing') BY <1>1 DEF SalesInv
<1>7. page \in Nat \ {0} /\ FetchTake(page) = Skip(page) + Limit /\ FetchTake(page) \in Nat
      /\ Skip(page) \in Nat /\ Skip(page) = (page - 1) * Limit
  BY <1>0, <1>1, ListingFields
<1>8. CASE page # walk.next
  <2>1. walk' = walk BY <1>8, AnswerFollows
  <2>2. walk.next = 0 BY <1>0, <1>1, <1>8, WalkNext DEF SalesInv, WalkFollows, PageFollows
  <2>3. walk' = NoWalk BY <2>1, <2>2 DEF SalesInv
  <2> QED BY <1>5, <1>6, <2>3, NoWalkFollows DEF SalesInv
<1>9. CASE page = walk.next
  <2> DEFINE items == ToSet(Items)
  <2>1. walk' = [walk EXCEPT !.next = page + 1, !.done = Ends, !.seen = @ \cup items]
    BY <1>9, AnswerFollows
  <2>2. walk.next > 0 /\ PageFollows /\ ~walk.done
    BY <1>1, <1>7, <1>9 DEF SalesInv, WalkFollows, PageFollows
  <2>3. \A t \in Table : request.found[t] \in Latest(t, FetchTake(page))
    BY <1>1, <2>2 DEF PageFollows
  <2>4. walk \in Walk BY <1>0 DEF SalesTypeOK
  <2> HIDE DEF items
  <2>5. /\ walk'.next = page + 1 /\ walk'.done = Ends /\ walk'.seen = walk.seen \cup items
        /\ walk'.standing = walk.standing
    BY <2>1, <2>4 DEF Walk
  <2>6. Ends => \A e : Rank(e) <= page * Limit
    <3> DEFINE n == Cardinality(There)
    <3> DEFINE a == Cardinality(TrackSale \cap There)
    <3> DEFINE b == Cardinality(AlbumSale \cap There)
    <3>1. request.total["purchases"] = a /\ request.total["albumPurchases"] = b
      BY <1>1, <2>2, Tables DEF PageFollows
    <3>2. n \in Nat /\ n = a + b /\ a \in Nat /\ b \in Nat
      <4> DEFINE A == TrackSale \cap There
      <4> DEFINE B == AlbumSale \cap There
      <4>1. A \cup B = There /\ A \cap B = {} BY <1>0, SoldTyped, Tables
      <4>2. IsFiniteSet(A) /\ IsFiniteSet(B) /\ IsFiniteSet(There)
        BY <1>0, SoldTyped, FS_Subset
      <4> HIDE DEF A, B
      <4>3. Cardinality(A \cup B) = Cardinality(A) + Cardinality(B) - Cardinality(A \cap B)
        BY <4>2, FS_Union
      <4>4. Cardinality(A) \in Nat /\ Cardinality(B) \in Nat /\ Cardinality(There) \in Nat
            /\ Cardinality({}) = 0
        BY <4>2, FS_CardinalityType, FS_EmptySet
      <4>5. Cardinality(There) = Cardinality(A) + Cardinality(B) BY <4>1, <4>3, <4>4
      <4> QED BY <4>4, <4>5 DEF A, B
    <3>3. \A e : Rank(e) <= n /\ Rank(e) \in Nat
      <4>1. ASSUME NEW e PROVE Rank(e) <= n /\ Rank(e) \in Nat
        <5>1. Newer(e) \subseteq There BY DEF Newer
        <5> QED BY <1>0, <5>1, SoldTyped, NewerTyped, FS_Subset DEF Rank
      <4> QED BY <4>1
    <3> HIDE DEF n, a, b
    <3>4. Ends = (page >= TotalPages(n)) BY <3>1, <3>2 DEF Ends
    <3>5. TotalPages(n) \in Nat /\ Limit * TotalPages(n) \in Nat /\ n <= Limit * TotalPages(n)
      BY <3>2, PagesHoldAll
    <3> DEFINE q == TotalPages(n)
    <3> HIDE DEF q
    <3>6. ASSUME page >= q PROVE Limit * q <= page * Limit /\ page * Limit \in Nat
      <4>1. q \in Nat /\ Limit \in Nat /\ page \in Nat BY <1>7, <3>5, SalesConstants DEF q
      <4> HIDE DEF page
      <4> QED BY <3>6, <4>1, SMTT(30)
    <3>7. ASSUME Ends, NEW e PROVE Rank(e) <= page * Limit
      <4>1. Limit * q <= page * Limit /\ page * Limit \in Nat BY <3>4, <3>6, <3>7 DEF q
      <4> DEFINE x == Limit * q
      <4> DEFINE y == page * Limit
      <4>2. n <= x /\ x \in Nat /\ y \in Nat /\ x <= y BY <3>5, <4>1 DEF q
      <4> HIDE DEF x, y
      <4>3. Rank(e) <= y BY <3>2, <3>3, <4>2
      <4> QED BY <4>3 DEF y
    <3> QED BY <3>7
  <2>7. FetchTake(page) = page * Limit /\ ((page + 1) - 1) * Limit = page * Limit
    <3>1. page \in Nat /\ Limit \in Nat BY <1>7, SalesConstants
    <3> HIDE DEF page
    <3>2. (page - 1) * Limit + Limit = page * Limit BY <3>1, SMTT(30)
    <3>3. (page + 1) - 1 = page BY <3>1
    <3> QED BY <1>7, <3>2, <3>3
  <2>8. ASSUME NEW e \in walk.standing, Alone(e), e \notin walk.seen \cup items
        PROVE  ~Ends /\ Rank(e) > page * Limit
    <3>1. e \in Events(There) BY <2>2 DEF SalesInv, WalkFollows
    <3>2. Rank(e) > Skip(page) BY <1>7, <1>9, <2>2, <2>8 DEF SalesInv, WalkFollows
    <3>3. ~(Rank(e) <= FetchTake(page)) BY <1>0, <1>1, <2>3, <2>8, <3>1, <3>2, PageShows DEF items
    <3>4. Rank(e) \in Nat BY <1>0, NewerTyped
    <3> DEFINE y == page * Limit
    <3>5. y \in Nat BY <1>7, <2>7
    <3>6. ~(Rank(e) <= y) BY <2>7, <3>3
    <3> HIDE DEF y
    <3>7. Rank(e) > y BY <3>4, <3>5, <3>6
    <3> QED BY <2>6, <3>6, <3>7 DEF y
  <2>9. WalkFollows'
    <3>1. walk'.standing \subseteq Events(There)' BY <1>2, <2>2, <2>5 DEF SalesInv, WalkFollows
    <3>2. request'.pc # "stats" /\ PageFollows' BY <1>4 DEF PageFollows
    <3>3. ASSUME NEW e \in walk'.standing, Alone(e)'
          PROVE  e \in walk'.seen \/ (~walk'.done /\ Rank(e)' > (walk'.next - 1) * Limit)
      <4>1. e \in walk.standing /\ Alone(e) BY <1>3, <2>5, <3>3
      <4>2. (walk'.next - 1) * Limit = page * Limit BY <2>5, <2>7
      <4>3. Rank(e)' = Rank(e) BY <1>3
      <4> QED BY <2>5, <2>8, <4>1, <4>2, <4>3
    <3> QED BY <3>1, <3>2, <3>3 DEF WalkFollows
  <2>10. walk'.next # 0 BY <1>7, <2>5
  <2> QED BY <1>5, <1>6, <2>9, <2>10 DEF SalesInv
<1> QED BY <1>8, <1>9

LEMMA SalesInvNext == SalesInv /\ SalesTypeOK' /\ [SalesNext]_salesVars => SalesInv'
<1> SUFFICES ASSUME SalesInv, SalesTypeOK', [SalesNext]_salesVars PROVE SalesInv' OBVIOUS
<1>1. CASE \E s \in Sale : Sell(s) \/ DeleteSale(s) BY <1>1, SellKeeps, DeleteKeeps
<1>2. CASE Tick BY <1>2, SalesStill DEF Tick, history
<1>3. CASE GetSalesStats BY <1>3, StatsKeeps
<1>4. CASE AnswerStats BY <1>4, AnswerStatsKeeps
<1>5. CASE AnswerList BY <1>5, AnswerListKeeps
<1>6. CASE \E table \in Table : FindSales(table) \/ FindLatest(table) \/ CountSales(table)
  BY <1>6, FindKeeps, FindLatestKeeps, CountKeeps
<1>7. CASE \E asked \in 0 .. MaxPage : ListSales(asked) BY <1>7, ListKeeps
<1>8. CASE UNCHANGED salesVars BY <1>8, SalesStill DEF salesVars, history
<1> QED BY <1>1, <1>2, <1>3, <1>4, <1>5, <1>6, <1>7, <1>8 DEF SalesNext

THEOREM SalesInvariant == SalesSpec => []SalesInv
<1>1. SalesInv => SalesTypeOK BY DEF SalesInv
<1>2. SalesInv /\ [SalesNext]_salesVars => SalesInv' BY <1>1, SalesTypeNext, SalesInvNext
<1> QED BY <1>2, SalesInvInit, PTL DEF SalesSpec

(* WalkSeesAll: who asks for one page after the other until the last has    *)
(* seen every sale that was there before, the only one of its moment        *)
(* (listSalesForAdmin), with any number of sales, pages and sales made      *)
(* between two pages.                                                       *)
THEOREM WalksMissNothing == SalesSpec => []WalkSeesAll
<1>1. ASSUME SalesInv PROVE WalkSeesAll
  <2> SUFFICES ASSUME walk.done, NEW e \in walk.standing, Alone(e) PROVE e \in walk.seen
    BY DEF WalkSeesAll, Alone
  <2>1. walk.next > 0 BY <1>1, WalkNext DEF SalesInv, NoWalk
  <2> QED BY <1>1, <2>1 DEF SalesInv, WalkFollows
<1> QED BY <1>1, SalesInvariant, PTL

-----------------------------------------------------------------------------
(* The statistics.                                                          *)
Read == UNION {request.found[t] : t \in Table}

LEMMA BucketCount == ASSUME NEW E PROVE Bucket(E).count = Cardinality(E)
BY DEF Bucket

(* The first day of every series is no earlier than what is asked for.      *)
LEMMA EarliestIs ==
  ASSUME NEW today \in 0 .. LastDay
  PROVE  LET first == MonthFirst[MonthlyFrom(today)]
         IN  /\ Earliest(today) \in Int
             /\ DailyFrom(today) \in Int /\ DailyFrom(today) >= Earliest(today)
             /\ WeeklyFrom(today) \in Int /\ WeeklyFrom(today) >= Earliest(today)
             /\ first \in Int /\ first >= Earliest(today)
             /\ MonthlyFrom(today) \in DOMAIN MonthFirst
<1> DEFINE a == DailyFrom(today)
<1> DEFINE b == WeeklyFrom(today)
<1> DEFINE c == MonthFirst[MonthlyFrom(today)]
<1>1. today \in Int OBVIOUS
<1>2. a \in Int BY <1>1, SalesConstants DEF DailyFrom
<1>3. b \in Int
  <2>1. StartOfWeek(today) \in Int BY <1>1, WeekOfDay
  <2>2. Weeks - 1 \in Int /\ Week \in Int BY SalesConstants
  <2>3. Week * (Weeks - 1) \in Int BY <2>2
  <2> QED BY <2>1, <2>3 DEF WeeklyFrom
<1>4. MonthlyFrom(today) \in DOMAIN MonthFirst
  <2> DEFINE m == MonthOf(today)
  <2>1. m \in Int /\ m - (Months - 1) .. m + 1 \subseteq DOMAIN MonthFirst
    BY MonthOfDay DEF Month
  <2> HIDE DEF m
  <2>2. m - (Months - 1) \in m - (Months - 1) .. m + 1 BY <2>1, SalesConstants
  <2> QED BY <2>1, <2>2 DEF MonthlyFrom, m
<1>5. c \in Int BY <1>4, MonthsGrow
<1>6. Earliest(today) = Min({a, b, c}) BY DEF Earliest
<1> HIDE DEF a, b, c
<1>7. Earliest(today) \in Int /\ a >= Earliest(today) /\ b >= Earliest(today) /\ c >= Earliest(today)
  <2>1. \E x \in {a, b, c} : \A y \in {a, b, c} : x <= y BY <1>2, <1>3, <1>5
  <2>2. PICK x \in {a, b, c} : \A y \in {a, b, c} : x <= y BY <2>1
  <2>3. {a, b, c} \in SUBSET Int BY <1>2, <1>3, <1>5
  <2>4. Min({a, b, c}) = x BY <2>2, <2>3, MinIs
  <2> QED BY <1>2, <1>3, <1>5, <1>6, <2>2, <2>4
<1> QED BY <1>2, <1>3, <1>4, <1>5, <1>7 DEF a, b, c

(* What has been read: of the days of the series, every sale that was there *)
(* throughout, and none that never was.                                     *)
LEMMA ReadIs ==
  ASSUME SalesInv, request.pc = "stats", request.read = Table
  PROVE  /\ Read \subseteq passing /\ passing \subseteq Event /\ IsFiniteSet(passing)
         /\ constant \subseteq passing
         /\ \A e \in constant : Day(e.at) >= Earliest(Day(request.now)) => e \in Read
         /\ \A e \in passing : Day(e.at) \in 0 .. LastDay /\ Day(e.at) \in Int
<1>1. passing \subseteq Event /\ IsFiniteSet(passing) /\ constant \subseteq passing
  BY DEF SalesInv, SalesTypeOK
<1>2. /\ Read \subseteq passing
      /\ \A t \in Table :
           {e \in constant : e.sale \in Of(t) /\ Day(e.at) >= Earliest(Day(request.now))}
             \subseteq request.found[t]
  BY DEF SalesInv, ReportFollows, Read
<1>3. ASSUME NEW e \in constant, Day(e.at) >= Earliest(Day(request.now)) PROVE e \in Read
  <2>1. e.sale \in Sale BY <1>1, EventFields
  <2>2. PICK t \in Table : e.sale \in Of(t) BY <2>1, Tables
  <2>3. e \in request.found[t] BY <1>2, <1>3, <2>2
  <2> QED BY <2>3 DEF Read
<1>4. ASSUME NEW e \in passing PROVE Day(e.at) \in 0 .. LastDay /\ Day(e.at) \in Int
  <2>1. Day(e.at) \in 0 .. LastDay BY <1>1, EventFields, DayIsDay
  <2> QED BY <2>1
<1> QED BY <1>1, <1>2, <1>3, <1>4

(* A point that takes the read events of its days counts them rightly.      *)
LEMMA PointCounts ==
  ASSUME SalesInv, request.pc = "stats", request.read = Table, NEW days,
         \A d \in days \cap (0 .. LastDay) : d >= Earliest(Day(request.now)),
         NEW E, E = {e \in Read : Day(e.at) \in days}
  PROVE  Counts(Bucket(E), days)
<1> DEFINE C == {e \in constant : Day(e.at) \in days}
<1> DEFINE P == {e \in passing : Day(e.at) \in days}
<1>1. C \subseteq E /\ E \subseteq P
  <2>1. ASSUME NEW e \in C PROVE e \in E
    <3>1. e \in constant /\ Day(e.at) \in days /\ Day(e.at) \in 0 .. LastDay BY ReadIs
    <3> QED BY <3>1, ReadIs
  <2> QED BY <2>1, ReadIs
<1>2. IsFiniteSet(P) BY ReadIs, FS_Subset
<1> HIDE DEF C, P
<1>3. IsFiniteSet(E) /\ Cardinality(E) <= Cardinality(P) BY <1>1, <1>2, FS_Subset
<1>4. IsFiniteSet(C) /\ Cardinality(C) <= Cardinality(E) BY <1>1, <1>3, FS_Subset
<1>5. Cardinality(E) \in Nat /\ Cardinality(C) \in Nat /\ Cardinality(P) \in Nat
  BY <1>2, <1>3, <1>4, FS_CardinalityType
<1>6. Cardinality(E) \in Cardinality(C) .. Cardinality(P) BY <1>3, <1>4, <1>5
<1> QED BY <1>6, BucketCount DEF Counts, C, P

LEMMA DailyCounts ==
  ASSUME SalesInv, request.pc = "stats", request.read = Table
  PROVE  LET today == Day(request.now)
             daily == DailySeries(Read, today)
         IN  /\ \A d \in DOMAIN daily : Counts(daily[d], {d})
             /\ (\A e \in Read : Day(e.at) <= today)
                  => AggregateSince(Read, today) = daily[today]
<1> DEFINE today == Day(request.now)
<1> DEFINE daily == DailySeries(Read, today)
<1>1. today \in 0 .. LastDay /\ today \in Int
  <2>1. today \in 0 .. LastDay BY ReportingFields DEF SalesInv
  <2> QED BY <2>1
<1>2. daily = [d \in DailyFrom(today) .. today |-> Bucket({e \in Read : Day(e.at) = d})]
  BY DEF DailySeries
<1> HIDE DEF today, daily
<1>3. /\ Earliest(today) \in Int /\ DailyFrom(today) \in Int
      /\ DailyFrom(today) >= Earliest(today) BY <1>1, EarliestIs
<1>4. ASSUME NEW d \in DOMAIN daily PROVE Counts(daily[d], {d})
  <2>1. d \in DailyFrom(today) .. today BY <1>2
  <2>2. daily[d] = Bucket({e \in Read : Day(e.at) = d}) BY <1>2, <2>1
  <2>3. d \in Int /\ d >= Earliest(today) BY <1>1, <1>3, <2>1
  <2> DEFINE E == {e \in Read : Day(e.at) = d}
  <2>4. E = {e \in Read : Day(e.at) \in {d}} OBVIOUS
  <2> HIDE DEF E
  <2>5. Counts(Bucket(E), {d}) BY <2>3, <2>4, PointCounts DEF today
  <2> QED BY <2>2, <2>5 DEF E
<1>5. ASSUME \A e \in Read : Day(e.at) <= today PROVE AggregateSince(Read, today) = daily[today]
  <2>1. \A e \in Read : Day(e.at) \in Int BY ReadIs
  <2>2. {e \in Read : Day(e.at) >= today} = {e \in Read : Day(e.at) = today}
    BY <1>1, <1>5, <2>1
  <2>3. today \in DailyFrom(today) .. today
    BY <1>1, <1>3, SalesConstants DEF DailyFrom
  <2>4. daily[today] = Bucket({e \in Read : Day(e.at) = today}) BY <1>2, <2>3
  <2> QED BY <2>2, <2>4 DEF AggregateSince
<1> QED BY <1>4, <1>5 DEF today, daily

LEMMA WeeklyCounts ==
  ASSUME SalesInv, request.pc = "stats", request.read = Table
  PROVE  LET today  == Day(request.now)
             weekly == WeeklySeries(Read, today)
         IN  /\ \A w \in DOMAIN weekly : w % Week = 0 /\ Counts(weekly[w], w .. w + Week - 1)
             /\ (\A e \in Read : Day(e.at) <= today)
                  => AggregateSince(Read, StartOfWeek(today)) = weekly[StartOfWeek(today)]
<1> DEFINE today  == Day(request.now)
<1> DEFINE weekly == WeeklySeries(Read, today)
<1> DEFINE from   == WeeklyFrom(today)
<1> DEFINE starts == {from + Week * k : k \in 0 .. Weeks - 1}
<1>1. today \in 0 .. LastDay /\ today \in Int
  <2>1. today \in 0 .. LastDay BY ReportingFields DEF SalesInv
  <2> QED BY <2>1
<1>2. weekly = [w \in starts |-> Bucket({e \in Read : StartOfWeek(Day(e.at)) = w})]
  BY DEF WeeklySeries
<1> HIDE DEF weekly
<1>3. Earliest(today) \in Int /\ from \in Int /\ from >= Earliest(today) BY <1>1, EarliestIs
<1> DEFINE q == today \div Week
<1>4. /\ StartOfWeek(today) \in Int /\ StartOfWeek(today) <= today
      /\ q \in Int /\ StartOfWeek(today) = Week * q
  BY <1>1, WeekOfDay
<1> HIDE DEF q
<1>5. from = Week * q - Week * (Weeks - 1) BY <1>4 DEF WeeklyFrom
<1> HIDE DEF from, today
<1>6. ASSUME NEW k \in 0 .. Weeks - 1
      PROVE  /\ q - (Weeks - 1) + k \in Int
             /\ from + Week * k = Week * (q - (Weeks - 1) + k) /\ Week * k \in Nat
  <2>1. Week \in Nat /\ Weeks \in Int /\ q \in Int /\ k \in Nat BY <1>4, SalesConstants
  <2> DEFINE j == Weeks - 1
  <2>2. j \in Int BY <2>1
  <2> HIDE DEF j
  <2>3. Week * (q - j + k) = Week * q - Week * j + Week * k BY <2>1, <2>2, SMTT(30)
  <2>4. Week * k \in Nat BY <2>1, SMTT(30)
  <2> QED BY <1>5, <2>1, <2>2, <2>3, <2>4 DEF j
<1>7. ASSUME NEW w \in DOMAIN weekly PROVE w % Week = 0 /\ Counts(weekly[w], w .. w + Week - 1)
  <2>1. w \in starts BY <1>2
  <2>2. PICK k \in 0 .. Weeks - 1 : w = from + Week * k BY <2>1
  <2> DEFINE p == q - (Weeks - 1) + k
  <2>3. p \in Int /\ w = Week * p /\ w >= from /\ w \in Int
    <3>1. p \in Int /\ w = Week * p BY <1>6, <2>2
    <3> DEFINE x == Week * k
    <3>2. x \in Nat /\ w = from + x BY <1>6, <2>2
    <3> HIDE DEF x, p
    <3>3. w >= from /\ w \in Int BY <1>3, <3>2
    <3> QED BY <3>1, <3>3
  <2> HIDE DEF p
  <2>4. /\ w % Week = 0
        /\ \A d \in Int : StartOfWeek(d) = w <=> d \in w .. w + Week - 1
    BY <2>3, WeekStarts
  <2> DEFINE E == {e \in Read : StartOfWeek(Day(e.at)) = w}
  <2>5. E = {e \in Read : Day(e.at) \in w .. w + Week - 1} BY <2>4, ReadIs
  <2>6. weekly[w] = Bucket(E) BY <1>2, <2>1
  <2> HIDE DEF E
  <2>7. \A d \in (w .. w + Week - 1) \cap (0 .. LastDay) : d >= Earliest(today)
    BY <1>3, <2>3, SalesConstants
  <2>8. Counts(Bucket(E), w .. w + Week - 1) BY <2>5, <2>7, PointCounts DEF today
  <2> QED BY <2>4, <2>6, <2>8
<1>8. ASSUME \A e \in Read : Day(e.at) <= today
      PROVE  AggregateSince(Read, StartOfWeek(today)) = weekly[StartOfWeek(today)]
  <2> DEFINE w == StartOfWeek(today)
  <2>1. w = Week * q /\ w \in Int BY <1>4 DEF today
  <2>2. today < w + Week BY <1>1, WeekOfDay DEF today
  <2>3. \A d \in Int : StartOfWeek(d) = w <=> d \in w .. w + Week - 1
    BY <1>4, <2>1, WeekStarts
  <2>4. w \in starts
    <3>1. Weeks - 1 \in 0 .. Weeks - 1 BY SalesConstants
    <3> DEFINE x == Week * (Weeks - 1)
    <3>2. x \in Int BY SalesConstants
    <3>3. from = w - x BY <1>5, <2>1
    <3> HIDE DEF x, w
    <3>4. w = from + x BY <2>1, <3>2, <3>3
    <3> QED BY <3>1, <3>4 DEF x
  <2>5. weekly[w] = Bucket({e \in Read : StartOfWeek(Day(e.at)) = w}) BY <1>2, <2>4
  <2> HIDE DEF w
  <2>6. \A e \in Read : Day(e.at) \in Int BY ReadIs
  <2>7. \A e \in Read : Day(e.at) >= w <=> StartOfWeek(Day(e.at)) = w
    <3>1. ASSUME NEW e \in Read PROVE Day(e.at) >= w <=> Day(e.at) \in w .. w + Week - 1
      <4>1. today \in Int BY <1>1 DEF today
      <4>2. Day(e.at) \in Int /\ Day(e.at) <= today BY <1>8, <2>6
      <4> QED BY <2>1, <2>2, <4>1, <4>2, SalesConstants
    <3> QED BY <2>3, <2>6, <3>1
  <2>8. {e \in Read : Day(e.at) >= w} = {e \in Read : StartOfWeek(Day(e.at)) = w} BY <2>7
  <2> QED BY <2>5, <2>8 DEF AggregateSince, w
<1> QED BY <1>7, <1>8 DEF today, weekly

LEMMA MonthlyCounts ==
  ASSUME SalesInv, request.pc = "stats", request.read = Table
  PROVE  LET today   == Day(request.now)
             monthly == MonthlySeries(Read, today)
             first   == MonthFirst[MonthOf(today)]
         IN  /\ \A m \in DOMAIN monthly :
                  Counts(monthly[m], MonthFirst[m] .. MonthFirst[m + 1] - 1)
             /\ (\A e \in Read : Day(e.at) <= today)
                  => AggregateSince(Read, first) = monthly[MonthOf(today)]
<1> DEFINE today   == Day(request.now)
<1> DEFINE monthly == MonthlySeries(Read, today)
<1> DEFINE now     == MonthOf(today)
<1>1. today \in 0 .. LastDay /\ today \in Int
  <2>1. today \in 0 .. LastDay BY ReportingFields DEF SalesInv
  <2> QED BY <2>1
<1>2. monthly = [m \in MonthlyFrom(today) .. now |-> Bucket({e \in Read : MonthOf(Day(e.at)) = m})]
  BY DEF MonthlySeries
<1>3. /\ Earliest(today) \in Int
      /\ MonthFirst[MonthlyFrom(today)] \in Int
      /\ MonthFirst[MonthlyFrom(today)] >= Earliest(today)
      /\ MonthlyFrom(today) \in DOMAIN MonthFirst
  BY <1>1, EarliestIs
<1>4. /\ now \in Int /\ now \in DOMAIN MonthFirst /\ now + 1 \in DOMAIN MonthFirst
      /\ now - (Months - 1) .. now + 1 \subseteq DOMAIN MonthFirst
      /\ MonthFirst[now] <= today /\ today < MonthFirst[now + 1]
  BY <1>1, MonthOfDay DEF Month
<1>5. MonthlyFrom(today) = now - (Months - 1) /\ MonthlyFrom(today) \in Int
  BY <1>4, SalesConstants DEF MonthlyFrom
<1> HIDE DEF today, now, monthly
<1>6. ASSUME NEW m \in MonthlyFrom(today) .. now
      PROVE  /\ m \in Int /\ m \in DOMAIN MonthFirst /\ m + 1 \in DOMAIN MonthFirst
             /\ MonthFirst[m] \in Int /\ MonthFirst[m + 1] \in Int
             /\ MonthFirst[m] >= Earliest(today)
  <2>1. /\ m \in Int /\ m \in now - (Months - 1) .. now + 1
        /\ m + 1 \in now - (Months - 1) .. now + 1 /\ MonthlyFrom(today) <= m
    BY <1>4, <1>5, SalesConstants
  <2>2. m \in DOMAIN MonthFirst /\ m + 1 \in DOMAIN MonthFirst BY <1>4, <2>1
  <2>3. MonthFirst[m] \in Int /\ MonthFirst[m + 1] \in Int BY <2>2, MonthsGrow
  <2>4. MonthFirst[MonthlyFrom(today)] <= MonthFirst[m] BY <1>3, <2>1, <2>2, MonthsGrow
  <2> QED BY <1>3, <2>1, <2>2, <2>3, <2>4
<1>7. ASSUME NEW m \in DOMAIN monthly
      PROVE  Counts(monthly[m], MonthFirst[m] .. MonthFirst[m + 1] - 1)
  <2>1. m \in MonthlyFrom(today) .. now BY <1>2 DEF monthly
  <2> DEFINE days == MonthFirst[m] .. MonthFirst[m + 1] - 1
  <2> DEFINE E == {e \in Read : MonthOf(Day(e.at)) = m}
  <2>2. monthly[m] = Bucket(E) BY <1>2, <2>1
  <2>3. \A d \in 0 .. LastDay : MonthOf(d) = m <=> d \in days BY <1>6, <2>1, DaysOfMonth
  <2>4. \A e \in Read : Day(e.at) \in 0 .. LastDay BY ReadIs
  <2>5. \A d \in days \cap (0 .. LastDay) : d >= Earliest(today) BY <1>3, <1>6, <2>1
  <2> HIDE DEF days
  <2>6. E = {e \in Read : Day(e.at) \in days} BY <2>3, <2>4
  <2> HIDE DEF E
  <2>7. Counts(Bucket(E), days) BY <2>5, <2>6, PointCounts DEF today
  <2> QED BY <2>2, <2>7 DEF days
<1>8. ASSUME \A e \in Read : Day(e.at) <= today
      PROVE  AggregateSince(Read, MonthFirst[now]) = monthly[now]
  <2>1. now \in MonthlyFrom(today) .. now BY <1>4, <1>5, SalesConstants
  <2>2. monthly[now] = Bucket({e \in Read : MonthOf(Day(e.at)) = now}) BY <1>2, <2>1
  <2> DEFINE f == MonthFirst[now]
  <2> DEFINE g == MonthFirst[now + 1]
  <2>3. f \in Int /\ g \in Int BY <1>6, <2>1
  <2>4. \A d \in 0 .. LastDay : MonthOf(d) = now <=> d \in f .. g - 1 BY <1>4, DaysOfMonth
  <2>5. today < g BY <1>4
  <2> HIDE DEF f, g
  <2>6. \A e \in Read : Day(e.at) >= f <=> MonthOf(Day(e.at)) = now
    <3>1. ASSUME NEW e \in Read PROVE Day(e.at) >= f <=> Day(e.at) \in f .. g - 1
      <4>1. today \in Int BY <1>1
      <4>2. Day(e.at) \in Int /\ Day(e.at) <= today BY <1>8, ReadIs
      <4> QED BY <2>3, <2>5, <4>1, <4>2
    <3>2. \A e \in Read : Day(e.at) \in 0 .. LastDay BY ReadIs
    <3> QED BY <2>4, <3>1, <3>2
  <2>7. {e \in Read : Day(e.at) >= f} = {e \in Read : MonthOf(Day(e.at)) = now} BY <2>6
  <2> QED BY <2>2, <2>7 DEF AggregateSince, f
<1> QED BY <1>7, <1>8 DEF today, monthly, now

(* StatisticsCount: every point of every series counts the sales of its     *)
(* days, up to those made or deleted while it was read, and the totals are  *)
(* the last points unless a sale of a later day was read                    *)
(* (getSalesStatsForAdmin), for any lengths of days, weeks, months and      *)
(* series.                                                                  *)
THEOREM StatisticsAreRight == SalesSpec => []StatisticsCount
<1>1. ASSUME SalesInv PROVE StatisticsCount
  <2> SUFFICES ASSUME request.pc = "stats", request.read = Table PROVE StatisticsCount
    BY DEF StatisticsCount
  <2> QED BY <1>1, DailyCounts, WeeklyCounts, MonthlyCounts, Zenon DEF StatisticsCount, Read
<1> QED BY <1>1, SalesInvariant, PTL

=============================================================================
