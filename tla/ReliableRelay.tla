---------------------------- MODULE ReliableRelay ----------------------------
(***************************************************************************)
(* What each stage of the message pipeline promises the next: whatever it  *)
(* accepted it relays at least once, and it relays nothing it did not      *)
(* accept.  A second copy of an event that was already relayed is a        *)
(* stuttering step here.                                                   *)
(*                                                                         *)
(* The outbox accepts events when their transaction commits and relays     *)
(* them to the stream; the delivery workers accept the recipients of an    *)
(* entry when it is appended and relay the message to each of them.        *)
(***************************************************************************)

CONSTANT Events

VARIABLES accepted,   \* events the stage is responsible for
          relayed     \* events that were passed on at least once

vars == <<accepted, relayed>>

Init == accepted = {} /\ relayed = {}

Accept(S) ==
    /\ S # {} /\ S \cap accepted = {}
    /\ accepted' = accepted \cup S
    /\ UNCHANGED relayed

Relay(e) ==
    /\ e \in accepted \ relayed
    /\ relayed' = relayed \cup {e}
    /\ UNCHANGED accepted

Next ==
    \/ \E S \in SUBSET Events : Accept(S)
    \/ \E e \in Events : Relay(e)

Safety == Init /\ [][Next]_vars

Spec == Safety /\ \A e \in Events : WF_vars(Relay(e))

=============================================================================
