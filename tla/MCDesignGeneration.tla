---- MODULE MCDesignGeneration ----
(* Instances of DesignGeneration for TLC.                                  *)
EXTENDS DesignGeneration, TLC

WorkerSymmetry == Permutations(Workers)

====
