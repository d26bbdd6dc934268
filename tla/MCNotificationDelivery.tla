------------------------ MODULE MCNotificationDelivery ------------------------
(* Small instances of NotificationDelivery for TLC. *)
EXTENDS NotificationDelivery

CONSTANTS alice, bob, carol, f1, f2

OneFact == {f1}
TwoReceivers == {bob, carol}
=============================================================================
