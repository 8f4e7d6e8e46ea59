---- MODULE MCDesignReview ----
(* Instances of DesignReview for TLC.                                      *)
EXTENDS DesignReview, TLC

SlotSymmetry == Permutations(Slots)

====
