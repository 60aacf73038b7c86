--------------------------- MODULE MCMonitorCheck ---------------------------
(* Small instances of MonitorCheck for TLC. *)
EXTENDS MonitorCheck, TLC

\* Workers are alike, and nothing in the specification orders them.
WorkerSymmetry == Permutations(Workers)
=============================================================================
