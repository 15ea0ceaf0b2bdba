------------------------------- MODULE Lookup -------------------------------
(***************************************************************************)
(* A discovery worker's iterative get_peers lookup of an infohash          *)
(* (dht/crawler/discovery.go discoverPeers): it queries the Alpha closest  *)
(* nodes of a shortlist at once, merges the nodes they return and keeps    *)
(* the TraversalWidth closest, until all are queried or its iterations are *)
(* used up, and emits the peers it collected.                              *)
(*                                                                         *)
(* A node is its rank in distance to the infohash, 1 the closest.          *)
(***************************************************************************)
EXTENDS Integers, FiniteSets, FiniteSetsExt

CONSTANTS
    NumNodes,
    Peers,
    Alpha,
    TraversalWidth,
    MaxIterations,  \* discovery_max_iterations
    MaxFound        \* bound: nodes in a response

ASSUME LookupAssumption ==
    /\ {NumNodes, Alpha, TraversalWidth, MaxIterations} \subseteq Nat \ {0}
    /\ MaxFound \in Nat

Nodes == 1..NumNodes

VARIABLES
    running,    \* the worker has a work item
    shortlist,  \* candidate nodes
    queried,    \* nodes dispatched so far
    iter,       \* iterations so far
    inFlight,   \* nodes of this iteration that have not returned
    newNodes,   \* nodes in this iteration's responses
    peers,      \* collectedPeers
    emitted,    \* the peers of the event of the last lookup, {} if there was none
    learned,    \* history: every node this lookup has heard of
    told,       \* history: every peer a response of this lookup named
    asked       \* history: how many queries of this lookup each node was sent

histories == <<learned, told, asked>>
vars == <<running, shortlist, queried, iter, inFlight, newNodes, peers, emitted, histories>>

\* Faulty variant: one too many.
NearestAndOne(k, S) == {n \in S : Cardinality({m \in S : m < n}) <= k}

\* The k closest of a set of nodes, all of them if there are fewer.
Nearest(k, S) == {n \in S : Cardinality({m \in S : m < n}) < k}

Init ==
    /\ running = FALSE
    /\ shortlist = {} /\ queried = {} /\ iter = 0
    /\ inFlight = {} /\ newNodes = {}
    /\ peers = {} /\ emitted = {}
    /\ learned = {} /\ told = {} /\ asked = [n \in Nodes |-> 0]

\* A work item arrives.  The shortlist is what Closest returns and the node
\* that sampled the infohash.
Begin ==
    /\ ~ running
    /\ running' = TRUE
    /\ \E source \in Nodes, closest \in SUBSET Nodes :
         /\ Cardinality(closest) <= TraversalWidth
         /\ shortlist' = {source} \cup closest
    /\ learned' = shortlist'
    /\ queried' = {} /\ iter' = 0 /\ peers' = {} /\ told' = {} /\ emitted' = {}
    /\ asked' = [n \in Nodes |-> 0]
    /\ UNCHANGED <<inFlight, newNodes>>

Between == running /\ inFlight = {} /\ newNodes = {}

Over == iter = MaxIterations \/ shortlist \subseteq queried

\* queryParallel: a query to each of the first Alpha of the nodes it is given.
QueryParallel(nodes) ==
    /\ inFlight' = Nearest(Alpha, nodes)
    /\ asked' = [n \in Nodes |-> asked[n] + (IF n \in inFlight' THEN 1 ELSE 0)]

\* Faulty variant: the marks of the iterations before are lost.
DispatchForgetful ==
    /\ Between
    /\ ~ Over
    /\ queried' = Nearest(Alpha, shortlist \ queried)
    /\ QueryParallel(shortlist \ queried)
    /\ iter' = iter + 1
    /\ UNCHANGED <<running, shortlist, newNodes, peers, emitted, learned, told>>

\* An iteration: the closest nodes not yet queried are marked, then asked at once.
Dispatch ==
    /\ Between
    /\ ~ Over
    /\ queried' = queried \cup Nearest(Alpha, shortlist \ queried)
    /\ QueryParallel(shortlist \ queried)
    /\ iter' = iter + 1
    /\ UNCHANGED <<running, shortlist, newNodes, peers, emitted, learned, told>>

\* A query fails or is answered with peers, with nodes or with both.
Return(n) ==
    /\ n \in inFlight
    /\ inFlight' = inFlight \ {n}
    /\ \E found \in {S \in SUBSET Nodes : Cardinality(S) <= MaxFound}, named \in SUBSET Peers :
         /\ newNodes' = newNodes \cup found
         /\ peers' = peers \cup named
         /\ learned' = learned \cup found
         /\ told' = told \cup named
    /\ UNCHANGED <<running, shortlist, queried, iter, emitted, asked>>

\* Faulty variant: the nodes of this iteration take the place of the old ones.
MergeNewOnly ==
    /\ inFlight = {}
    /\ newNodes # {}
    /\ shortlist' = Nearest(TraversalWidth, newNodes)
    /\ newNodes' = {}
    /\ UNCHANGED <<running, queried, iter, inFlight, peers, emitted, histories>>

\* All of them have returned: the new nodes are merged and trimmed.
Merge ==
    /\ inFlight = {}
    /\ newNodes # {}
    /\ shortlist' = Nearest(TraversalWidth, shortlist \cup newNodes)
    /\ newNodes' = {}
    /\ UNCHANGED <<running, queried, iter, inFlight, peers, emitted, histories>>

\* Faulty variant: peers are emitted only by a lookup that converged.
EmitIfConverged ==
    /\ Between
    /\ Over
    /\ running' = FALSE
    /\ emitted' = IF shortlist \subseteq queried THEN peers ELSE {}
    /\ UNCHANGED <<shortlist, queried, iter, inFlight, newNodes, peers, histories>>

\* The lookup is over; if it found any, its peers are emitted.
Emit ==
    /\ Between
    /\ Over
    /\ running' = FALSE
    /\ emitted' = peers
    /\ UNCHANGED <<shortlist, queried, iter, inFlight, newNodes, peers, histories>>

Next == Begin \/ Dispatch \/ (\E n \in Nodes : Return(n)) \/ Merge \/ Emit

Spec == Init /\ [][Next]_vars

-----------------------------------------------------------------------------
(* Properties.                                                             *)

\* Every variable has its type; at most Alpha queries are in flight.
TypeOK ==
    /\ running \in BOOLEAN
    /\ {shortlist, queried, inFlight, newNodes, learned} \subseteq SUBSET Nodes
    /\ iter \in 0..MaxIterations
    /\ {peers, emitted, told} \subseteq SUBSET Peers
    /\ asked \in [Nodes -> Nat]
    /\ Cardinality(inFlight) <= Alpha

\* A node is sent at most one query per infohash, though many responses name it and
\* the shortlist is rebuilt each round; and a lookup that ends because all are queried
\* has sent one to each of the nearest nodes it heard of, none being marked and left out.
NearestAskedOnce ==
    /\ \A n \in Nodes : asked[n] <= 1
    /\ Between /\ shortlist \subseteq queried =>
         \A n \in Nearest(TraversalWidth, learned) : asked[n] = 1

\* However the responses arrive, the shortlist is the nearest of all the nodes
\* heard of: trimming round by round loses none of them.  (It starts out one
\* too large when the source is not among the nodes of Closest.)
ShortlistIsNearest ==
    /\ TypeOK
    /\ running /\ inFlight = {} /\ newNodes = {} =>
         \/ shortlist = learned
         \/ shortlist = Nearest(TraversalWidth, learned)

\* A finished lookup has emitted every peer it was told of, in whichever
\* iteration and however it ended.
AllPeersEmitted == ~ running => emitted = told

=============================================================================
