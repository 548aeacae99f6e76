------------------------- MODULE MC_ContractStore -------------------------
(* Instantiates ContractStore for TLC: two addresses in directory order,  *)
(* two names, two concurrent AddContract callers.                         *)
EXTENDS ContractStore, TLC

CONSTANTS n1, n2, k1, k2

MCNames   == {n1, n2}
MCCallers == {k1, k2}

\* A legacy swagger file for address 2 registered as n1.
MCLegacy == [a \in 1..3 |-> IF a = 2 THEN n1 ELSE None]

\* Callers are interchangeable; names are not (MCLegacy names n1).
Symmetry == Permutations(MCCallers)

=============================================================================
