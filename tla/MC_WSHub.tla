------------------------------ MODULE MC_WSHub ------------------------------
(* Instantiates WSHub for TLC: streams and connections are model values.   *)
EXTENDS WSHub, TLC

CONSTANTS s1, s2, c1, c2

MCStreams == {s1, s2}
MCConns   == {c1, c2}

\* Streams and connections are interchangeable: no action names one.
Symmetry == Permutations(MCStreams) \cup Permutations(MCConns)

=============================================================================
