--------------------------- MODULE MCModuleBatch ---------------------------
(* Small instances of ModuleBatch for TLC. *)
EXTENDS ModuleBatch

CONSTANTS b1, b2, m1

\* One batch asks for everything, the other for one module.
AllAndOne == [b \in Batches |-> IF b = b1 THEN Modules ELSE {m1}]
=============================================================================
