---- MODULE MCOutboxRelay ----
(* Instances of OutboxRelay for TLC.  Relays are interchangeable; events   *)
(* are ordered by their key and are not.                                   *)
EXTENDS OutboxRelay, TLC

RelaySymmetry == Permutations(Relays)

====
