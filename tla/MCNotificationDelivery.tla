----------------------- MODULE MCNotificationDelivery -----------------------
(* TLC instance of NotificationDelivery. *)
EXTENDS NotificationDelivery, TLC

Interchangeable == Permutations(Workers) \cup Permutations(Hooks)
=============================================================================
