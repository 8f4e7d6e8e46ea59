---- MODULE MCRealtimeSession ----
(* Instances of RealtimeSession for TLC.                                   *)
EXTENDS RealtimeSession

====
