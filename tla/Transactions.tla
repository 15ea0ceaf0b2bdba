---------------------------- MODULE Transactions ----------------------------
(***************************************************************************)
(* KRPC queries in flight: TxnManager and its cache (dht/server/           *)
(* transaction.go, pkg/cache/cache.go), the callers in send, the read loop *)
(* that completes them and the sweeper that times them out.                *)
(*                                                                         *)
(* A query is one call of send.  Its caller allocates a transaction, hands *)
(* the message to the bounded outbound queue and waits.  The write loop    *)
(* puts the message on the wire; the node may answer late, twice or never. *)
(* The read loop completes the transaction of the reply's key and then     *)
(* refreshes the node in the routing table.  The sweeper visits the cache  *)
(* under its read lock, charges expired nodes and closes their channels,   *)
(* and deletes under the write lock afterwards.  The table is the          *)
(* NodeRegistry that RoutingTable implements.                              *)
(***************************************************************************)
EXTENDS Integers, Sequences, FiniteSets

CONSTANTS
    Queries,        \* the calls of send
    Peers,          \* the nodes queried
    Target,         \* the node each query is for
    FromCrawler,    \* the queries whose caller is the crawler's traversal loop
    KeySpaces,      \* how many transaction keys there may be (2^32 in the code)
    OutCap,         \* capacity of the outbound channel
    BadThreshold    \* badFailureThreshold

ASSUME TransactionsAssumption ==
    /\ Target \in [Queries -> Peers]
    /\ FromCrawler \subseteq Queries
    /\ KeySpaces \subseteq Nat \ {0}
    /\ OutCap \in Nat
    /\ BadThreshold \in Nat \ {0}

None == "none"

VARIABLES
    size,       \* how many transaction keys there are
    failures,   \* the routing table: failure count of every known node
    counter,    \* TxnManager.counter, modulo the number of keys
    cache,      \* the in-flight map: key -> query
    pc,         \* where the caller of each query is
    key,        \* the transaction ID of each query
    response,   \* its Response channel: "open", "overdue" (open and past the timeout),
                \* "value" (then closed) or "closed"
    outbound,   \* queries handed to the write loop
    wire,       \* queries sent whose reply may still arrive
    reading,    \* the query whose reply the read loop has yet to record in the table
    sweeper,    \* where the sweeper is
    toVisit,    \* keys the current sweep has not looked at
    toDelete,   \* keys the current sweep will delete
    current,    \* the expired query the sweeper is at
    closes,     \* history: how often each Response channel was closed
    charged,    \* history: how often the sweeper charged each query to its node
    failed,     \* history: per node, the queries that failed since its last refresh
    lapped      \* history: the queries whose key was drawn again inside their New

callerVars == <<pc, key, lapped>>
sweepVars  == <<sweeper, toVisit, toDelete, current>>
netVars    == <<outbound, wire, reading>>
chanVars   == <<response, closes>>
tableVars  == <<failures, failed>>
vars == <<tableVars, size, counter, cache, callerVars, chanVars, netVars, sweepVars, charged>>

Keys == 0 .. (size - 1)

Table == INSTANCE NodeRegistry

-----------------------------------------------------------------------------
(* The routing table, as these callers reach it.                           *)

\* A refreshed node starts a new streak of failures.
Refreshes(n) == failed' = [failed EXCEPT ![n] = {}]

InsertNode(n) ==
    /\ Table!Insert(n)
    /\ IF n \in DOMAIN failures' THEN Refreshes(n) ELSE UNCHANGED failed

MarkSuccess(n) ==
    \/ Table!Refresh(n) /\ Refreshes(n)
    \/ UNCHANGED tableVars

MarkFailure(n, q) ==
    /\ Table!MarkFailure(n)
    /\ failed' = [failed EXCEPT ![n] = @ \cup {q}]

-----------------------------------------------------------------------------
Init ==
    /\ \E S \in SUBSET Peers : failures = [n \in S |-> 0]
    /\ size \in KeySpaces
    /\ counter = 0
    /\ cache = [k \in {} |-> None]
    /\ pc = [q \in Queries |-> "idle"]
    /\ key = [q \in Queries |-> 0]
    /\ response = [q \in Queries |-> None]
    /\ outbound = <<>>
    /\ wire = {}
    /\ reading = None
    /\ sweeper = "idle"
    /\ toVisit = {}
    /\ toDelete = {}
    /\ current = None
    /\ closes = [q \in Queries |-> 0]
    /\ charged = [q \in Queries |-> 0]
    /\ failed = [n \in Peers |-> {}]
    /\ lapped = {}

\* deliver, under the transaction's own lock: only the first call has an effect.
Done(q) == response[q] \in {"value", "closed"}

Pending(q) == response[q] \in {"open", "overdue"}

\* Faulty variant: delivers whether or not an outcome was delivered before.
DeliverAgain(q, outcome) ==
    /\ response' = [response EXCEPT ![q] = outcome]
    /\ closes' = [closes EXCEPT ![q] = @ + 1]

Deliver(q, outcome) ==
    IF Done(q)
    THEN UNCHANGED chanVars
    ELSE /\ response' = [response EXCEPT ![q] = outcome]
         /\ closes' = [closes EXCEPT ![q] = @ + 1]

-----------------------------------------------------------------------------
(* send: the caller of a query.                                            *)

\* The sweeper holds the cache's read lock while it visits entries.
SweepHoldsLock == sweeper \in {"scan", "charge", "close"}

\* The callers between the draw of a key and its registration.
InNew == {q \in Queries : pc[q] \in {"looking", "found"}}

\* New, first access: draw the next key from the counter, which wraps.
Add(q) ==
    LET drawn == (counter + 1) % size IN
    /\ pc[q] = "idle"
    /\ counter' = drawn
    /\ key' = [key EXCEPT ![q] = drawn]
    /\ pc' = [pc EXCEPT ![q] = "looking"]
    /\ lapped' = (lapped \ {q}) \cup {r \in InNew : key[r] = drawn}
    /\ UNCHANGED <<size, tableVars, cache, chanVars, netVars, sweepVars, charged>>

\* Faulty variant: an entry whose transaction is done counts as free.
LookPastDone(q) ==
    /\ pc[q] = "looking"
    /\ pc' = [pc EXCEPT ![q] = IF key[q] \in DOMAIN cache /\ ~ Done(cache[key[q]])
                               THEN "idle" ELSE "found"]
    /\ UNCHANGED <<size, tableVars, counter, cache, key, lapped, chanVars, netVars, sweepVars,
                   charged>>

\* New, second access: a key in flight is skipped and the next one drawn.  Look and a
\* sweep share the read lock.
Look(q) ==
    /\ pc[q] = "looking"
    /\ pc' = [pc EXCEPT ![q] = IF key[q] \in DOMAIN cache THEN "idle" ELSE "found"]
    /\ UNCHANGED <<size, tableVars, counter, cache, key, lapped, chanVars, netVars, sweepVars,
                   charged>>

\* New, third access: register the transaction, over whatever got there since the look.
Register(q) ==
    /\ pc[q] = "found"
    /\ ~ SweepHoldsLock
    /\ cache' = [k \in DOMAIN cache \cup {key[q]} |-> IF k = key[q] THEN q ELSE cache[k]]
    /\ response' = [response EXCEPT ![q] = "open"]
    /\ pc' = [pc EXCEPT ![q] = "registered"]
    /\ UNCHANGED <<size, tableVars, counter, key, lapped, closes, netVars, sweepVars, charged>>

New(q) == Add(q) \/ Look(q) \/ Register(q)

\* The message is queued, or the call fails because the queue is full: its
\* transaction stays registered.
Enqueue(q) ==
    /\ pc[q] = "registered"
    /\ IF Len(outbound) < OutCap
       THEN /\ outbound' = Append(outbound, q)
            /\ pc' = [pc EXCEPT ![q] = "waiting"]
       ELSE /\ pc' = [pc EXCEPT ![q] = "failed"]
            /\ UNCHANGED outbound
    /\ UNCHANGED <<size, tableVars, counter, cache, key, lapped, chanVars, wire, reading,
                   sweepVars, charged>>

Receive(q) ==
    /\ pc[q] = "waiting"
    /\ Done(q)
    /\ pc' = [pc EXCEPT ![q] = IF response[q] = "value" THEN "answered" ELSE "failed"]
    /\ UNCHANGED <<size, tableVars, counter, cache, key, lapped, chanVars, netVars, sweepVars, charged>>

\* The caller's context ends first.  The crawler's has no deadline: it ends only
\* with the process.
Cancel(q) ==
    /\ q \notin FromCrawler
    /\ pc[q] = "waiting"
    /\ pc' = [pc EXCEPT ![q] = "failed"]
    /\ UNCHANGED <<size, tableVars, counter, cache, key, lapped, chanVars, netVars, sweepVars, charged>>

\* What the crawler does with the result of its batch; the other callers leave
\* the table alone.
Settle(q) ==
    /\ q \in FromCrawler
    /\ pc[q] \in {"answered", "failed"}
    /\ pc' = [pc EXCEPT ![q] = "settled"]
    /\ IF pc[q] = "failed" THEN MarkFailure(Target[q], q) ELSE MarkSuccess(Target[q])
    /\ UNCHANGED <<size, counter, cache, key, lapped, chanVars, netVars, sweepVars, charged>>

Caller(q) == New(q) \/ Enqueue(q) \/ Receive(q) \/ Cancel(q) \/ Settle(q)

\* The transaction timeout passes, counted from New.
Expire(q) ==
    /\ response[q] = "open"
    /\ response' = [response EXCEPT ![q] = "overdue"]
    /\ UNCHANGED <<size, tableVars, counter, cache, callerVars, closes, netVars, sweepVars, charged>>

-----------------------------------------------------------------------------
(* The write loop and the read loop.                                       *)

Write ==
    /\ outbound # <<>>
    /\ wire' = wire \cup {Head(outbound)}
    /\ outbound' = Tail(outbound)
    /\ UNCHANGED <<size, tableVars, counter, cache, callerVars, chanVars, reading, sweepVars, charged>>

\* A reply arrives, perhaps not for the last time: Complete hands it to the
\* transaction its key stands for now.  An error reply is recorded no further.
Read(q) ==
    /\ reading = None
    /\ q \in wire
    /\ \E again \in BOOLEAN : wire' = IF again THEN wire ELSE wire \ {q}
    /\ IF key[q] \in DOMAIN cache
       THEN Deliver(cache[key[q]], "value")
       ELSE UNCHANGED chanVars
    /\ \E y \in {"r", "e"} : reading' = IF y = "r" THEN q ELSE None
    /\ UNCHANGED <<size, tableVars, counter, cache, callerVars, outbound, sweepVars, charged>>

\* updateTableFromResponse.  An ID that BEP-42 rejects leaves the table alone.
Record ==
    /\ reading # None
    /\ InsertNode(Target[reading]) \/ UNCHANGED tableVars
    /\ reading' = None
    /\ UNCHANGED <<size, counter, cache, callerVars, chanVars, outbound, wire, sweepVars, charged>>

-----------------------------------------------------------------------------
(* The sweeper: StartCleanup with the cleanup function of NewTxnManager.   *)

SweepTick ==
    /\ sweeper = "idle"
    /\ sweeper' = "scan"
    /\ toVisit' = DOMAIN cache
    /\ UNCHANGED <<size, tableVars, counter, cache, callerVars, chanVars, netVars, toDelete, current,
                   charged>>

\* Faulty variant: the channel is closed before the node is charged.
SweepVisitClosesFirst(k) ==
    LET q == cache[k] IN
    /\ sweeper = "scan"
    /\ k \in toVisit
    /\ toVisit' = toVisit \ {k}
    /\ IF response[q] = "overdue"
       THEN /\ sweeper' = "close"
            /\ current' = q
            /\ UNCHANGED toDelete
       ELSE /\ toDelete' = IF Done(q) THEN toDelete \cup {k} ELSE toDelete
            /\ UNCHANGED <<sweeper, current>>
    /\ UNCHANGED <<size, tableVars, counter, cache, callerVars, chanVars, netVars, charged>>

\* done is read without the transaction's lock: a reply may still come in
\* between this and the charge.
SweepVisit(k) ==
    LET q == cache[k] IN
    /\ sweeper = "scan"
    /\ k \in toVisit
    /\ toVisit' = toVisit \ {k}
    /\ IF response[q] = "overdue"
       THEN /\ sweeper' = "charge"
            /\ current' = q
            /\ UNCHANGED toDelete
       ELSE /\ toDelete' = IF Done(q) THEN toDelete \cup {k} ELSE toDelete
            /\ UNCHANGED <<sweeper, current>>
    /\ UNCHANGED <<size, tableVars, counter, cache, callerVars, chanVars, netVars, charged>>

SweepCharge ==
    /\ sweeper = "charge"
    /\ MarkFailure(Target[current], current)
    /\ charged' = [charged EXCEPT ![current] = @ + 1]
    /\ sweeper' = "close"
    /\ UNCHANGED <<size, counter, cache, callerVars, chanVars, netVars, toVisit, toDelete, current>>

\* Faulty variant: the entry is deleted and its caller left waiting.
SweepCloseSilently ==
    /\ sweeper = "close"
    /\ toDelete' = toDelete \cup {key[current]}
    /\ sweeper' = "scan"
    /\ current' = None
    /\ UNCHANGED <<size, tableVars, counter, cache, callerVars, chanVars, netVars, toVisit, charged>>

SweepClose ==
    /\ sweeper = "close"
    /\ Deliver(current, "closed")
    /\ toDelete' = toDelete \cup {key[current]}
    /\ sweeper' = "scan"
    /\ current' = None
    /\ UNCHANGED <<size, tableVars, counter, cache, callerVars, netVars, toVisit, charged>>

\* The read lock is released; Register may come before the write lock is taken.
SweepUnlock ==
    /\ sweeper = "scan"
    /\ toVisit = {}
    /\ sweeper' = IF toDelete = {} THEN "idle" ELSE "delete"
    /\ UNCHANGED <<size, tableVars, counter, cache, callerVars, chanVars, netVars, toVisit, toDelete,
                   current, charged>>

SweepDelete ==
    /\ sweeper = "delete"
    /\ cache' = [k \in DOMAIN cache \ toDelete |-> cache[k]]
    /\ toDelete' = {}
    /\ sweeper' = "idle"
    /\ UNCHANGED <<size, tableVars, counter, callerVars, chanVars, netVars, toVisit, current, charged>>

Sweep ==
    \/ SweepTick
    \/ \E k \in Keys : SweepVisit(k)
    \/ SweepCharge \/ SweepClose \/ SweepUnlock \/ SweepDelete

-----------------------------------------------------------------------------
Next ==
    \/ \E q \in Queries : Caller(q) \/ Expire(q) \/ Read(q)
    \/ Write
    \/ Record
    \/ Sweep

\* The sweeper's ticker never stops, time passes, and callers keep running; the
\* network owes nobody a reply.
Fairness ==
    /\ WF_vars(Sweep)
    /\ \A q \in Queries : WF_vars(Expire(q)) /\ WF_vars(Enqueue(q)) /\ WF_vars(Receive(q))

Spec == Init /\ [][Next]_vars /\ Fairness

-----------------------------------------------------------------------------
(* Properties.                                                             *)

\* Every variable has its type; the failure counts stay below the threshold.
TypeOK ==
    /\ failures \in [DOMAIN failures -> 0 .. (BadThreshold - 1)] /\ DOMAIN failures \subseteq Peers
    /\ size \in KeySpaces /\ counter \in Keys
    /\ DOMAIN cache \subseteq Keys /\ cache \in [DOMAIN cache -> Queries]
    /\ pc \in [Queries -> {"idle", "looking", "found", "registered", "waiting", "answered",
                            "failed", "settled"}]
    /\ lapped \subseteq Queries
    /\ key \in [Queries -> Keys]
    /\ response \in [Queries -> {None, "open", "overdue", "value", "closed"}]
    /\ outbound \in Seq(Queries)
    /\ wire \subseteq Queries
    /\ reading \in Queries \cup {None}
    /\ sweeper \in {"idle", "scan", "charge", "close", "delete"}
    /\ toVisit \subseteq Keys /\ toDelete \subseteq Keys
    /\ current \in Queries \cup {None}
    /\ closes \in [Queries -> Nat]
    /\ charged \in [Queries -> Nat]
    /\ failed \in [Peers -> SUBSET Queries]

\* Response is closed at most once, whatever replies and sweeps race for it
\* (transaction.go: "Response is closed exactly once"); a second close panics.  A caller
\* released by the timeout finds its failure in the table already ("Mark failure before
\* closing the channel"), and a query is charged once at most however many sweeps meet it.
ClosedOnceAndCharged ==
    \A q \in Queries :
        /\ closes[q] = IF response[q] \in {"value", "closed"} THEN 1 ELSE 0
        /\ charged[q] <= 1
        /\ response[q] = "closed" => charged[q] = 1

\* The map has the query's transaction under the query's own key.
Registered(q) == key[q] \in DOMAIN cache /\ cache[key[q]] = q

\* Two transactions have one key: the counter ran through all keys while one of their
\* callers was between the draw of its key and its registration.
Overrun(q) ==
    \E r \in Queries \ {q} :
        key[r] = key[q] /\ response[r] # None /\ {q, r} \cap lapped # {}

\* A transaction whose outcome is open is in the map under its own key, so a reply or a
\* sweep still reaches it: a key in flight is skipped however the counter wraps, and the
\* late delete of a sweep never hits an entry registered after its scan.  "Unique 4-byte
\* ID" (transaction.go:82) holds no further than that: a caller held up inside New for
\* all 2^32 draws overwrites, or is overwritten, and then nobody completes the loser.
OpenMeansRegistered ==
    /\ TypeOK
    /\ \A q \in Queries : Pending(q) => Registered(q) \/ Overrun(q)

\* A node is forgotten only when that many of its queries failed since it last answered,
\* where a query of the crawler may count twice: for the sweeper and for the crawler
\* (transaction.go:66 and crawler.go:317; node.go:61 speaks of failed queries).
BadMeansFailedQueries ==
    [][\A n \in DOMAIN failures \ DOMAIN failures' :
        Cardinality(failed'[n]) + Cardinality(failed'[n] \cap FromCrawler) >= BadThreshold]_vars

\* Every call of send returns, even when nobody answers and its context has no deadline:
\* the sweeper releases it (server.go:718), unless another took its key and its place
\* in the map.  And every transaction leaves the map, so keys
\* are free again: answered, timed out, cancelled, and the ones whose message found the
\* outbound queue full (server.go:712).
QueriesEnd ==
    \A q \in Queries :
        /\ (pc[q] = "registered") ~>
             \/ pc[q] \notin {"registered", "waiting"}
             \/ Overrun(q) /\ ~ Registered(q)
        /\ Pending(q) ~> (q \notin {cache[k] : k \in DOMAIN cache})

=============================================================================
