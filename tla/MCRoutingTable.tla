--------------------------- MODULE MCRoutingTable ---------------------------
(* Our own ID and five nodes of one far bucket, which is reached by two splits.
   The identifiers are 2^W. *)
EXTENDS RoutingTable

MCSpan == [d \in 0..W |-> 2^(W-d)]

=============================================================================
