------------------------------- MODULE Presence -------------------------------
(***************************************************************************)
(* What Redis knows of the sockets of one user                             *)
(* (app/realtime/presence_service.py): the set of their ids, a hash for    *)
(* each of them and the user's status, each with a time to live.  A        *)
(* registration is one MULTI; unregister_session is a MULTI, a count, and  *)
(* then another MULTI that depends on the count; a heartbeat is an EXISTS  *)
(* and then a MULTI, here one step, that of the MULTI: only the expiry of  *)
(* the socket's hash between the two would show, which the MULTI then      *)
(* writes again.                                                           *)
(*                                                                         *)
(* The operators are the commands; who runs them, and when, is the         *)
(* gateway's part (module RealtimeSession).  The status "away" counts as   *)
(* online everywhere and is written online here.                           *)
(***************************************************************************)
EXTENDS Naturals, FiniteSets

CONSTANT Sockets    \* socket ids: a fresh one for every connection

VARIABLES
    userSockets,    \* the set user:sockets:<user>
    socketKeys,     \* sockets whose hash exists
    status          \* the user's presence hash

presence == <<userSockets, socketKeys, status>>

PresenceTypeOK ==
    /\ userSockets \subseteq Sockets
    /\ socketKeys \subseteq Sockets
    /\ status \in {"absent", "online", "offline"}

PresenceInit == userSockets = {} /\ socketKeys = {} /\ status = "absent"

(* register_session.                                                       *)
RegisterSession(s) ==
    /\ userSockets' = userSockets \cup {s}
    /\ socketKeys' = socketKeys \cup {s}
    /\ status' = "online"

(* heartbeat: nothing for a socket whose hash has expired, and the set is  *)
(* given more time but no member.                                          *)
Heartbeat(s) ==
    /\ status' = IF s \in socketKeys THEN "online" ELSE status
    /\ UNCHANGED <<userSockets, socketKeys>>

(* unregister_session: first the socket goes ...                           *)
RemoveSocket(s) ==
    /\ userSockets' = userSockets \ {s}
    /\ socketKeys' = socketKeys \ {s}
    /\ UNCHANGED status

(* ... then the rest is counted ...                                        *)
NoneRemains == userSockets = {}

(* ... and the set deleted if the count was zero.                          *)
GoOffline ==
    /\ userSockets' = {}
    /\ status' = "offline"
    /\ UNCHANGED socketKeys

(* The keys expire once nobody refreshes them; beating are the sockets     *)
(* that send heartbeats in time.                                           *)
Refreshed(beating) == beating \cap socketKeys # {}

SocketExpires(beating) ==
    /\ \E s \in socketKeys \ beating : socketKeys' = socketKeys \ {s}
    /\ UNCHANGED <<userSockets, status>>

SetExpires(beating) ==
    /\ userSockets # {} /\ ~Refreshed(beating)
    /\ userSockets' = {}
    /\ UNCHANGED <<socketKeys, status>>

StatusExpires(beating) ==
    /\ status # "absent" /\ ~Refreshed(beating)
    /\ status' = "absent"
    /\ UNCHANGED <<userSockets, socketKeys>>

(* What the delivery workers ask, and what the notification workers ask.   *)
Active == userSockets # {}
IsOnline == status = "online" /\ Active

=============================================================================
