---- MODULE MCDeliveryWorker ----
(* Instances of DeliveryWorker for TLC.                                    *)
EXTENDS DeliveryWorker, TLC

CONSTANTS m1, m2, read1, other1, ann, bob

Entry(kind, subject, to) == [kind |-> kind, subject |-> subject, to |-> to]

(* A message the relays wrote twice.                                       *)
Duplicated == <<Entry("created", m1, <<ann, bob>>), Entry("created", m1, <<ann, bob>>)>>

(* A message nobody receives, one with two recipients, an update for the   *)
(* sender of the first, and an entry of another type.                      *)
Mixed == <<Entry("created", m1, <<>>), Entry("created", m2, <<ann, bob>>),
           Entry("updated", read1, <<ann>>), Entry("other", other1, <<>>)>>

WorkerSymmetry == Permutations(Workers)

====
