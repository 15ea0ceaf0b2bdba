--------------------------- MODULE MCServerTables ---------------------------
(* What the query workers share beside the routing table: the peer store with one *)
(* infohash more than it holds, and the limiter with two workers that meet on three *)
(* addresses and a table for one.  The two have no state in common, so a behaviour *)
(* that moves one and leaves the other as it starts shows all that either does. *)
EXTENDS PeerStore, IPLimiter, TLC

CONSTANTS h1, h2, h3, p1, p2, i1, i2, i3, w1, w2, b1, b2, b3, b4

VARIABLE table     \* the one of the two that moves

MCInit == Init /\ LimiterInit /\ table \in {"peer store", "limiter"}

MCNext ==
    /\ UNCHANGED table
    /\ \/ table = "peer store" /\ Next /\ UNCHANGED limiterVars
       \/ table = "limiter" /\ LimiterNext /\ UNCHANGED vars

MCSpec == MCInit /\ [][MCNext]_<<vars, limiterVars, table>>

\* Idle names one of the addresses, so these are not permuted.
Symmetry == Permutations(Hashes) \cup Permutations(Peers) \cup Permutations(Workers) \cup Permutations(Buckets)

=============================================================================
