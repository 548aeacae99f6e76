-------------------------- MODULE MC_ReceiptStore --------------------------
(* Model-checking instance of ReceiptStore: ids and handlers are model     *)
(* values; the remaining constants are set by each .cfg.                   *)
EXTENDS ReceiptStore, TLC

CONSTANTS i1, i2, h1, h2

MCIds      == {i1, i2}
MCHandlers == {h1, h2}

\* Ids and handlers are interchangeable in every action and property.
Symmetry == Permutations(MCIds) \cup Permutations(MCHandlers)

=============================================================================
