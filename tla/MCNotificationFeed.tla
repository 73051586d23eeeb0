------------------------- MODULE MCNotificationFeed -------------------------
(* NotificationFeed for TLC.  No symmetry: a liveness property is checked.  *)
EXTENDS NotificationFeed, TLC
=============================================================================
