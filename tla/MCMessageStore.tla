---- MODULE MCMessageStore ----
(* Instances of MessageStore for TLC: one conversation is shared by two    *)
(* users, the other belongs to one of them.                                *)
EXTENDS MessageStore, TLC

CONSTANTS shared, private, alice, bob, k1, k2

Membership == [c \in Conversations |-> IF c = private THEN {alice} ELSE {alice, bob}]

Send(u, c, k) == [user |-> u, conv |-> c, cid |-> k]

(* The same client id in two conversations, and by two senders.            *)
Retries == {Send(alice, shared, k1), Send(alice, private, k1), Send(alice, shared, k2),
            Send(bob, shared, k1)}

(* Two transactions that hold a lock each and want the same unique key.    *)
CrossedSends == {Send(alice, shared, k1), Send(alice, private, k1)}

TwoMessages == {Send(alice, shared, k1), Send(alice, shared, k2)}
ThreeMessages == TwoMessages \cup {Send(bob, shared, k1)}

RequestSymmetry == Permutations(Requests)

====
