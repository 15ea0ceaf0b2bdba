------------------------------- MODULE Crawler -------------------------------
(***************************************************************************)
(* One BEP-51 crawler (dht/crawler/crawler.go, heaps.go): nodes wait in    *)
(* the ready heap, are queried in batches, rest in the cooldown heap and   *)
(* are promoted again; the seen map keeps them from being pushed twice.    *)
(*                                                                         *)
(* The traversal is aimed at random targets and biased by yield, so any    *)
(* node may be the closest: a pop takes, and a trim keeps, any of the heap.*)
(* The routing table may answer Closest with any nodes.  Time is in ticks; *)
(* seen holds the ticks since a node's time stamp, which is negative while *)
(* the stamp lies in the future and is not counted beyond StaleAge.        *)
(***************************************************************************)
EXTENDS Integers, FiniteSets, FiniteSetsExt, Bags, Functions

CONSTANTS
    Nodes,
    Alpha,              \* nodes queried in a batch
    TraversalWidth,     \* most nodes taken from Closest and kept by a trim
    MaxNodeFailures,    \* failures after which a node is given up
    MaxIterations,      \* iterations between two rotations of the target
    PruneEvery,         \* iterations between two prunings of seen (50)
    MaxSeen,            \* entries pruning leaves (4 * TraversalWidth)
    MaxCooldown,        \* bound: longest cooldown in ticks
    StaleAge,           \* age before the cutoff (2 * transaction_timeout)
    MaxFound,           \* bound: nodes in a response
    MaxCopies           \* bound: items of one node

ASSUME CrawlerAssumption ==
    /\ {Alpha, TraversalWidth, MaxNodeFailures, MaxIterations, PruneEvery} \subseteq Nat \ {0}
    /\ {MaxCooldown, StaleAge, MaxCopies} \subseteq Nat \ {0}
    /\ MaxSeen \in Nat /\ MaxFound \in Nat

VARIABLES
    ready,      \* bag of items
    cooldown,   \* bag of items with the ticks left to nextAllowed
    seen,       \* age of the time stamp of each node in the map
    batch,      \* bag of items queried and not yet accounted for
    iteration   \* iterations so far, modulo both periods

vars == <<ready, cooldown, seen, batch, iteration>>

Items == [node : Nodes, failures : 0..(MaxNodeFailures - 1)]
Resting == [item : Items, left : 0..MaxCooldown]

Unless(B, S) == Restrict(B, DOMAIN B \ S)

NodesOf(items) == {i.node : i \in DOMAIN items}
Cooling == {c.item.node : c \in DOMAIN cooldown}

CopiesOf(n) ==
    LET CountIn(items) == MapThenSumSet(LAMBDA i : items[i], {i \in DOMAIN items : i.node = n})
    IN  CountIn(ready) + CountIn(batch)
        + MapThenSumSet(LAMBDA c : cooldown[c], {c \in DOMAIN cooldown : c.item.node = n})

\* pushToReady of each of a set of nodes.  One with MaxCopies items is not
\* pushed again.
Pushed(S) ==
    SetToBag({[node |-> n, failures |-> 0] :
                n \in {m \in S \ DOMAIN seen : CopiesOf(m) < MaxCopies}})

\* What Closest may return to seedQueue.
Seeds == {S \in SUBSET Nodes : Cardinality(S) <= TraversalWidth}

\* trimReadyToK.
Trims(items) ==
    IF BagCardinality(items) <= TraversalWidth THEN {items}
    ELSE {b \in SubBag(items) : BagCardinality(b) = TraversalWidth}

Init ==
    /\ seen = [n \in {} |-> 0]
    /\ cooldown = EmptyBag /\ batch = EmptyBag
    /\ \E S \in Seeds : ready = SetToBag({[node |-> n, failures |-> 0] : n \in S})
    /\ iteration = 0

-----------------------------------------------------------------------------
(* Filling a batch.                                                        *)

Expired == {c \in DOMAIN cooldown : c.left = 0}

\* The items of the cooldown heap whose time has come.
Promoted ==
    LET Count(i) == cooldown[[item |-> i, left |-> 0]]
    IN  [i \in {c.item : c \in Expired} |-> Count(i)]

\* Faulty variant: cooled nodes are looked at only when nothing else is ready.
FillWhenDrained ==
    /\ batch = EmptyBag
    /\ ready = EmptyBag
    /\ \E S \in Seeds :
         LET heap == Pushed(S) (+) Promoted IN
         /\ heap # EmptyBag
         /\ cooldown' = Unless(cooldown, Expired)
         /\ \E popped \in SubBag(heap) :
              /\ BagCardinality(popped) = Min({Alpha, BagCardinality(heap)})
              /\ batch' = popped
              /\ ready' = heap (-) popped
              /\ seen' = [n \in DOMAIN seen \cup NodesOf(popped) |->
                            IF n \in NodesOf(popped) THEN 0 ELSE seen[n]]
    /\ UNCHANGED iteration

\* A short heap is seeded for a new target; cooled nodes are promoted; up to
\* Alpha items are popped and their nodes entered in seen.
Fill ==
    /\ batch = EmptyBag
    /\ \E S \in IF BagCardinality(ready) < Alpha THEN Seeds ELSE {{}} :
         LET heap == ready (+) Pushed(S) (+) Promoted IN
         /\ heap # EmptyBag
         /\ cooldown' = Unless(cooldown, Expired)
         /\ \E popped \in SubBag(heap) :
              /\ BagCardinality(popped) = Min({Alpha, BagCardinality(heap)})
              /\ batch' = popped
              /\ ready' = heap (-) popped
              /\ seen' = [n \in DOMAIN seen \cup NodesOf(popped) |->
                            IF n \in NodesOf(popped) THEN 0 ELSE seen[n]]
    /\ UNCHANGED iteration

\* Nobody to query and nobody cooling down: the heap is seeded once more.
Reseed ==
    /\ batch = EmptyBag /\ ready = EmptyBag /\ cooldown = EmptyBag
    /\ \E S \in Seeds : ready' = Pushed(S)
    /\ UNCHANGED <<cooldown, seen, batch, iteration>>

-----------------------------------------------------------------------------
(* Accounting for the batch, once every query of it has returned.  The     *)
(* last result ends the iteration.                                         *)

\* Faulty variant: only the cap is enforced.
PrunedToCap(map, resting) ==
    LET excess == Cardinality(DOMAIN map) - MaxSeen
    IN  {Restrict(map, DOMAIN map \ victims) :
           victims \in {V \in SUBSET (DOMAIN map \ resting) :
                          Cardinality(V) = Min({IF excess > 0 THEN excess ELSE 0,
                                                Cardinality(DOMAIN map \ resting)})}}

\* pruneStaleInFlight.  Its second part sorts the keys it saw before the first
\* part deleted some, and those, without a time stamp, come first.
Pruned(map, resting) ==
    LET stale == {n \in DOMAIN map \ resting : map[n] >= StaleAge}
        left == DOMAIN map \ stale
        excess == Cardinality(left) - MaxSeen
        quota == IF excess > Cardinality(stale) THEN excess - Cardinality(stale) ELSE 0
        OldestOf(S, victims) == \A v \in victims, s \in S \ victims : map[v] >= map[s]
    IN  {Restrict(map, left \ victims) :
           victims \in {V \in SUBSET (left \ resting) :
                          /\ Cardinality(V) = Min({quota, Cardinality(left \ resting)})
                          /\ OldestOf(left \ resting, V)}}

\* What every result does, given the heaps and the map it leaves; the last one
\* ends the iteration, with the pruning or the new target that is due.
Account(item, heap, resting, map) ==
    LET done == BagCardinality(batch) = 1
        i == iteration + 1
        cooling == {c.item.node : c \in DOMAIN resting}
        maps == IF done /\ i % PruneEvery = 0 THEN Pruned(map, cooling) ELSE {map}
    IN
    /\ batch' = batch (-) SetToBag({item})
    /\ cooldown' = resting
    /\ seen' \in maps
    /\ iteration' = IF done THEN i % (PruneEvery * MaxIterations) ELSE iteration
    /\ IF done /\ i % MaxIterations = 0
       THEN \E S \in Seeds :
              ready' = SetToBag({[node |-> n, failures |-> 0] : n \in S \ DOMAIN seen'})
       ELSE ready' = heap

Stamped(n, age) == [m \in DOMAIN seen \cup {n} |-> IF m = n THEN age ELSE seen[m]]

Rest(item, ticks) == cooldown (+) SetToBag({[item |-> item, left |-> ticks]})

\* Faulty variant: given up one failure late.
FailOnceMore(item) ==
    /\ item.failures < MaxNodeFailures
    /\ \E ticks \in 1..MaxCooldown :
         Account(item, ready, Rest([item EXCEPT !.failures = @ + 1], ticks), Stamped(item.node, -ticks))

\* The query failed, but not too often: the node rests.
Fail(item) ==
    /\ item.failures + 1 < MaxNodeFailures
    /\ \E ticks \in 1..MaxCooldown :
         Account(item, ready, Rest([item EXCEPT !.failures = @ + 1], ticks), Stamped(item.node, -ticks))

\* It failed too often: the node is given up, and may be pushed again.
GiveUp(item) ==
    /\ item.failures + 1 >= MaxNodeFailures
    /\ Account(item, ready, cooldown, Restrict(seen, DOMAIN seen \ {item.node}))

\* It was answered, with nodes or without: they are pushed, the heap is trimmed
\* and the node rests for the interval it asked for.
Answer(item) ==
    \E ticks \in 1..MaxCooldown :
      LET After(heap) == Account(item, heap, Rest([item EXCEPT !.failures = 0], ticks),
                                 Stamped(item.node, -ticks))
      IN  \/ After(ready)
          \/ \E found \in {S \in SUBSET Nodes : Cardinality(S) <= MaxFound} :
               \E heap \in Trims(ready (+) Pushed(found)) : After(heap)

Tally == \E item \in DOMAIN batch : Fail(item) \/ GiveUp(item) \/ Answer(item)

-----------------------------------------------------------------------------
Tick ==
    /\ seen' = [n \in DOMAIN seen |-> IF seen[n] < StaleAge THEN seen[n] + 1 ELSE StaleAge]
    /\ cooldown' = BagOfAll(LAMBDA c : [c EXCEPT !.left = IF @ > 0 THEN @ - 1 ELSE 0], cooldown)
    /\ UNCHANGED <<ready, batch, iteration>>

Next == Fill \/ Reseed \/ Tally \/ Tick

\* The crawler keeps running, queries return (see Transactions) and time passes.
Spec == Init /\ [][Next]_vars /\ WF_vars(Fill) /\ WF_vars(Reseed) /\ WF_vars(Tally) /\ WF_vars(Tick)

-----------------------------------------------------------------------------
(* Properties.                                                             *)

IsBagOf(B, S) == DOMAIN B \subseteq S /\ \A x \in DOMAIN B : B[x] \in Nat \ {0}

\* Every variable has its type; no item waits with MaxNodeFailures failures.
TypeOK ==
    /\ IsBagOf(ready, Items) /\ IsBagOf(batch, Items) /\ IsBagOf(cooldown, Resting)
    /\ BagCardinality(batch) <= Alpha
    /\ DOMAIN seen \subseteq Nodes
    /\ \A n \in DOMAIN seen : seen[n] \in -MaxCooldown..StaleAge
    /\ iteration \in 0..(PruneEvery * MaxIterations - 1)

Lost(n) == n \in DOMAIN seen \ (NodesOf(ready) \cup NodesOf(batch) \cup Cooling)

\* A node that a trim or a rotation dropped while seen still named it can be
\* pushed again, as long as the crawler completes iterations.
LostNodesReturn ==
    /\ []TypeOK
    /\ ([]<><<iteration' # iteration>>_vars) => \A n \in Nodes : Lost(n) ~> ~Lost(n)

\* However full the ready heap is, a node whose cooldown has passed gets back
\* to it.
CooledNodesArePromoted ==
    \A n \in Nodes : (\E c \in Expired : c.item.node = n) ~> (\A c \in Expired : c.item.node # n)

=============================================================================
