---- MODULE MCNotificationQueue ----
(* Instances of NotificationQueue for TLC.                                 *)
EXTENDS NotificationQueue, TLC

WorkerSymmetry == Permutations(Workers)

====
