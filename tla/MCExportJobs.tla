---- MODULE MCExportJobs ----
(* Instances of ExportJobs for TLC.                                        *)
EXTENDS ExportJobs, TLC

WorkerSymmetry == Permutations(Workers)

====
