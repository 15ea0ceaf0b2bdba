------------------------------ MODULE Bootstrap ------------------------------
(***************************************************************************)
(* How the DHT server fills its routing table when it starts: warm restart *)
(* (dht/server/server.go Start, warmRestart, pingNodes) or bootstrap       *)
(* (dht/server/bootstrap.go): the seeds first, then rounds of find_node to *)
(* the closest nodes not yet queried, until the K closest have been.       *)
(*                                                                         *)
(* A node is its rank in distance to our own ID.  Every query returns, by  *)
(* an answer, the sweep of Transactions or the end of the context.         *)
(***************************************************************************)
EXTENDS Integers, FiniteSets

CONSTANTS
    NumNodes,       \* nodes of the network
    Seeds,          \* addresses of the configured bootstrap nodes
    K,              \* bootstrapK
    Alpha,          \* bootstrapAlpha
    WarmThreshold,  \* warm_bootstrap_threshold
    MaxFound        \* bound: nodes in a response

ASSUME BootstrapAssumption ==
    /\ {NumNodes, K, Alpha, WarmThreshold} \subseteq Nat \ {0}
    /\ MaxFound \in Nat

Nodes == 1 .. NumNodes

VARIABLES
    stage,      \* "off", "start", "warm", "seeds", "converge", "count", "up" or "failed"
    pending,    \* seeds or nodes queried that have not returned
    live,       \* how many nodes answered the pings of a warm restart
    known,      \* nodes of bootstrapNodes
    queried,    \* those of them marked as queried
    adding,     \* goroutines of this round and the nodes each found missing from known
    populated,  \* the routing table has a node
    named,      \* history: nodes that the answers of seeds and nodes named
    asked       \* history: nodes that a round sent a query to

heard == <<named, asked>>
bootVars == <<stage, pending, live, known, queried, adding, populated, heard>>

BootTypeOK ==
    /\ stage \in {"off", "start", "warm", "seeds", "converge", "count", "up", "failed"}
    /\ pending \subseteq Nodes \/ pending \subseteq Seeds
    /\ live \in 0 .. NumNodes
    /\ queried \subseteq known /\ known \subseteq Nodes
    /\ populated \in BOOLEAN
    /\ DOMAIN adding \subseteq Nodes /\ \A n \in DOMAIN adding : adding[n] \subseteq Nodes
    /\ named \subseteq Nodes /\ asked \subseteq Nodes

BootInit ==
    /\ stage = "off" /\ pending = {} /\ live = 0
    /\ known = {} /\ queried = {} /\ adding = [n \in {} |-> {}]
    /\ populated = FALSE
    /\ named = {} /\ asked = {}

Nearest(k, S) == {n \in S : Cardinality({m \in S : m < n}) < k}

\* A host that cannot be resolved when the seeds are asked is passed over.
Resolved == SUBSET Seeds

Responses == {S \in SUBSET Nodes : Cardinality(S) <= MaxFound}

\* Nodes whose ID does not fit their address, or that find no room, are not inserted.
Inserts(found) == populated' \in IF found = {} THEN {populated} ELSE {populated, TRUE}

Booting == stage \in {"start", "warm", "seeds", "converge", "count"}

\* The server is running: who sends an answer or a query is put into the table, the refresh
\* of stale buckets inserts what its answers name, and failures take nodes out.
Inbound ==
    /\ Booting
    /\ populated' = TRUE
    /\ UNCHANGED <<stage, pending, live, known, queried, adding, heard>>

BucketRefresh ==
    /\ Booting
    /\ \E found \in Responses : Inserts(found)
    /\ UNCHANGED <<stage, pending, live, known, queried, adding, heard>>

Evict ==
    /\ Booting
    /\ populated' = FALSE
    /\ UNCHANGED <<stage, pending, live, known, queried, adding, heard>>

-----------------------------------------------------------------------------
\* Start: the nodes that inbound messages put into the table are pinged first; without
\* bootstrap nodes the server is up at once.
Start ==
    /\ stage = "start"
    /\ stage' = IF Seeds = {} THEN "up" ELSE IF populated THEN "warm" ELSE "seeds"
    /\ pending' \in IF Seeds # {} /\ populated THEN (SUBSET Nodes) \ {{}} ELSE Resolved
    /\ UNCHANGED <<live, known, queried, adding, populated, heard>>

Ping(n) ==
    /\ stage = "warm"
    /\ n \in pending
    /\ pending' = pending \ {n}
    /\ live' \in {live, live + 1}
    /\ UNCHANGED <<stage, known, queried, adding, populated, heard>>

\* Enough nodes are alive, or the seeds are asked after all.
PingsOver ==
    /\ stage = "warm"
    /\ pending = {}
    /\ live' = 0
    /\ IF live >= WarmThreshold
       THEN stage' = "count" /\ UNCHANGED pending
       ELSE /\ stage' = "seeds"
            /\ pending' \in Resolved
    /\ UNCHANGED <<known, queried, adding, populated, heard>>

\* querySeeds takes the result of a seed.
Seed(s) ==
    /\ stage = "seeds"
    /\ s \in pending
    /\ pending' = pending \ {s}
    /\ \E found \in Responses :
         known' = known \cup found /\ named' = named \cup found /\ Inserts(found)
    /\ UNCHANGED <<stage, live, queried, adding, asked>>

SeedsOver ==
    /\ stage = "seeds"
    /\ pending = {}
    /\ stage' = "converge"
    /\ UNCHANGED <<pending, live, known, queried, adding, populated, heard>>

\* closestUnqueried: of the K closest, the Alpha closest that are not marked.
ToQuery == Nearest(Alpha, Nearest(K, known) \ queried)

\* Faulty variant: a round does not wait for the nodes of the last one to be added.
Answered == pending = {}

RoundOver == pending = {} /\ DOMAIN adding = {}

\* A round of convergeTable, if there is anything left to query.
Round ==
    /\ stage = "converge"
    /\ RoundOver
    /\ ToQuery # {}
    /\ pending' = ToQuery
    /\ asked' = asked \cup ToQuery
    /\ UNCHANGED <<stage, live, known, queried, adding, populated, named>>

\* Faulty variant: a node whose query fails is not marked.
AnswerMarksAnswered(n) ==
    /\ stage = "converge"
    /\ n \in pending
    /\ pending' = pending \ {n}
    /\ \/ UNCHANGED <<queried, adding, populated, named>>
       \/ /\ queried' = queried \cup {n}
          /\ \E found \in Responses :
               /\ adding' = [m \in DOMAIN adding \cup {n} |-> IF m = n THEN found \ known ELSE adding[m]]
               /\ named' = named \cup found /\ Inserts(found)
    /\ UNCHANGED <<stage, live, known, asked>>

\* A node's answer: it is marked, and add looks up which of its nodes are missing.  A
\* query that fails names none.
Answer(n) ==
    /\ stage = "converge"
    /\ n \in pending
    /\ pending' = pending \ {n}
    /\ queried' = queried \cup {n}
    /\ \E found \in Responses :
         /\ adding' = [m \in DOMAIN adding \cup {n} |-> IF m = n THEN found \ known ELSE adding[m]]
         /\ named' = named \cup found /\ Inserts(found)
    /\ UNCHANGED <<stage, live, known, asked>>

\* Faulty variant: add keeps K nodes, those that were named first.
AddWhileRoom(n) ==
    /\ n \in DOMAIN adding
    /\ known' = IF Cardinality(known) < K THEN known \cup adding[n] ELSE known
    /\ queried' = queried \ (known' \ known)
    /\ adding' = [m \in DOMAIN adding \ {n} |-> adding[m]]
    /\ UNCHANGED <<stage, pending, live, populated, heard>>

\* add sets the entries it found missing, unmarked, whatever has been set meanwhile.
Add(n) ==
    /\ n \in DOMAIN adding
    /\ known' = known \cup adding[n]
    /\ queried' = queried \ adding[n]
    /\ adding' = [m \in DOMAIN adding \ {n} |-> adding[m]]
    /\ UNCHANGED <<stage, pending, live, populated, heard>>

\* Nothing is left to query.
Converged ==
    /\ stage = "converge"
    /\ RoundOver
    /\ ToQuery = {}
    /\ stage' = "count"
    /\ UNCHANGED <<pending, live, known, queried, adding, populated, heard>>

\* The refresh of stale buckets that ends Bootstrap and warmRestart is not waited for.
RefreshStaleBuckets ==
    /\ stage = "count"
    /\ \E found \in Responses : Inserts(found)
    /\ UNCHANGED <<stage, pending, live, known, queried, adding, heard>>

\* Start fails with an empty table.
CountNodes ==
    /\ stage = "count"
    /\ stage' = IF ~ populated THEN "failed" ELSE "up"
    /\ UNCHANGED <<pending, live, known, queried, adding, populated, heard>>

\* The context ends: a query returns without an answer, and querySeeds stops at the next
\* result; the rounds run to their end with failing queries.
SeedCancelled ==
    /\ stage = "seeds"
    /\ pending # {}
    /\ stage' = "failed"
    /\ pending' = {}
    /\ UNCHANGED <<live, known, queried, adding, populated, heard>>

Boot ==
    \/ Start
    \/ \E n \in Nodes : Ping(n) \/ Answer(n) \/ Add(n)
    \/ PingsOver
    \/ \E s \in Seeds : Seed(s)
    \/ SeedsOver \/ Round \/ Converged \/ CountNodes

=============================================================================
