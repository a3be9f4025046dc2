----------------------------- MODULE MCCalStore ------------------------------
(* An instance of CalStore: registers around the two that are stored.        *)
EXTENDS CalStore

\* One address in front of CALC_K, the two stored ones, one behind, and both ends of 16 bits.
ManyAddrs == 0 .. 4 \cup {65535}
=============================================================================
