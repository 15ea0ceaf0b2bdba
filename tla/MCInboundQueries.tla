-------------------------- MODULE MCInboundQueries --------------------------
(* Two clients that announce one infohash to two query workers. *)
EXTENDS InboundQueries, TLC

CONSTANTS i1, i2, h1, w1, w2

Symmetry == Permutations(Workers) \cup Permutations(IPs)

=============================================================================
