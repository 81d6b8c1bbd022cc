------------------------ MODULE MCNotificationOutbox ------------------------
(* TLC instance of NotificationOutbox.  Its run checks liveness, so neither   *)
(* the runs nor the targets are taken as interchangeable.                    *)
EXTENDS NotificationOutbox
=============================================================================
