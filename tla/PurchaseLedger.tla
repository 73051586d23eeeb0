--------------------------- MODULE PurchaseLedger ---------------------------
(***************************************************************************)
(* What the payments of Himba promise, without requests, webhooks or       *)
(* retries: an order that Stripe has charged gives its buyer the item, at  *)
(* the price of the order, once, for as long as buyer and item exist.      *)
(***************************************************************************)
CONSTANTS Order,      \* [intent, user, item, amount]
          User, Item

VARIABLES charged,    \* orders Stripe has charged
          owned,      \* orders that stand as purchases
          retired     \* users and items that were deleted

ledger == <<charged, owned, retired>>

Owns(o) == \E p \in owned : p.user = o.user /\ p.item = o.item
Retired(o) == o.user \in retired \/ o.item \in retired

LedgerTypeOK ==
  /\ charged \subseteq Order
  /\ owned \subseteq charged
  /\ retired \subseteq User \cup Item

LedgerInit == charged = {} /\ owned = {} /\ retired = {}

(* A buyer may be charged several times for the same item.                  *)
Charge(o) ==
  /\ charged' = charged \cup {o}
  /\ UNCHANGED <<owned, retired>>

Grant(o) ==
  /\ o \in charged /\ ~Owns(o) /\ ~Retired(o)
  /\ owned' = owned \cup {o}
  /\ UNCHANGED <<charged, retired>>

Retire(gone) ==
  /\ retired' = retired \cup gone
  /\ owned' = {o \in owned : o.user \notin gone /\ o.item \notin gone}
  /\ UNCHANGED charged

LedgerNext ==
  \/ \E o \in Order : Charge(o) \/ Grant(o)
  \/ \E gone \in SUBSET (User \cup Item) : Retire(gone)

LedgerSpec == LedgerInit /\ [][LedgerNext]_ledger

=============================================================================
