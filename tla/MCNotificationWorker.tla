-------------------------- MODULE MCNotificationWorker --------------------------
(* The instances of NotificationWorker that TLC checks. *)
EXTENDS NotificationWorker

CONSTANTS pskov, acme, InStock
================================================================================
