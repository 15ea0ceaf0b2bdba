---------------------------- MODULE NodeRegistry ----------------------------
(***************************************************************************)
(* What the routing table promises to the rest of the crawler, without its *)
(* buckets: which nodes it knows and how many failures each has since it   *)
(* was last refreshed.  A known node is forgotten only by the failure that *)
(* reaches BadThreshold; an unknown node is admitted or ignored, as room   *)
(* allows.  RoutingTable implements this specification, and the modules of *)
(* the callers use its actions for what a call does to the table.          *)
(***************************************************************************)
EXTENDS Naturals

CONSTANTS Peers, BadThreshold

VARIABLE failures   \* the failure count of every known node

Known == DOMAIN failures

-----------------------------------------------------------------------------
Init == failures = [id \in {} |-> 0]

\* Insert of an unknown node that finds room.
Admit(id) ==
    /\ id \notin Known
    /\ failures' = [n \in Known \cup {id} |-> IF n = id THEN 0 ELSE failures[n]]

\* Faulty variant: an answer does not reset the count.
RefreshKeepsCount(id) ==
    /\ id \in Known
    /\ UNCHANGED failures

\* Insert of a known node; MarkSuccess of an active one.
Refresh(id) ==
    /\ id \in Known
    /\ failures' = [failures EXCEPT ![id] = 0]

\* A failure that leaves the node in the table.
Count(id) ==
    /\ id \in Known
    /\ failures[id] + 1 < BadThreshold
    /\ failures' = [failures EXCEPT ![id] = @ + 1]

\* The failure that makes the node bad.
Forget(id) ==
    /\ id \in Known
    /\ failures[id] + 1 >= BadThreshold
    /\ failures' = [n \in Known \ {id} |-> failures[n]]

Ignore == UNCHANGED failures

\* The three calls of RoutingTable, as their callers see them.
Insert(id) == Admit(id) \/ Refresh(id) \/ (id \notin Known /\ Ignore)

MarkSuccess(id) == Refresh(id) \/ Ignore

MarkFailure(id) == Count(id) \/ Forget(id) \/ (id \notin Known /\ Ignore)

Next == \E id \in Peers : Admit(id) \/ Refresh(id) \/ Count(id) \/ Forget(id)

Spec == Init /\ [][Next]_failures

=============================================================================
