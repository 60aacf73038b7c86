-------------------------- MODULE MCScanLifecycle --------------------------
(* Small instances of ScanLifecycle for TLC. *)
EXTENDS ScanLifecycle, TLC

CONSTANTS m1, m2

\* Two batches of one module, the second one the last ("heavy").
TwoBatches == <<{m1}, {m2}>>
\* A single module.
OneBatch == <<{m1}>>

Symmetry == Permutations(Workers) \cup Permutations(Requests)
=============================================================================
