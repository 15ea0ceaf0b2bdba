--------------------------- MODULE MCTransactions ---------------------------
(* Two queries, one of them the crawler's, for Transactions. *)
EXTENDS Transactions

CONSTANTS q1, q2, n1

\* Both queries go to one node, so their failures add up.
MCTarget == [q \in Queries |-> n1]

=============================================================================
