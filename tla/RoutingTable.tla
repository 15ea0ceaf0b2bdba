---------------------------- MODULE RoutingTable ----------------------------
(***************************************************************************)
(* The Kademlia k-bucket routing table of dht/table (table.go, bucket.go,  *)
(* node.go): a sorted slice of buckets that covers the keyspace, each with *)
(* its active nodes and its replacement cache.                             *)
(*                                                                         *)
(* Every exported operation runs under rt.mu.  The loop of insert, which   *)
(* may split the bucket of our own ID several times before it finds a      *)
(* place, is one action per iteration: inserting is the ID it carries, and *)
(* no other operation runs until the loop returns.  The ping that caching  *)
(* a candidate starts is a query like any other: its outcome comes back as *)
(* MarkFailure or as Insert, which are enabled for every node at all times.*)
(* InsertValidNode returns before it touches the table when BEP-42 rejects *)
(* the ID, so Insert ranges over the IDs that pass.  Addresses and times   *)
(* are left out.                                                           *)
(***************************************************************************)
EXTENDS Integers, Sequences, FiniteSets

CONSTANTS
    W,              \* bits of a NodeID (160 in the code)
    Span,           \* Span[d]: how many IDs share a prefix of d bits
    Self,           \* our own NodeID
    Peers,          \* the NodeIDs of the nodes we may hear of
    K,              \* bucketSize
    BadThreshold    \* badFailureThreshold

ASSUME KeyspaceAssumption ==
    /\ W \in Nat
    /\ Span \in [0..W -> Nat]
    /\ Span[W] = 1
    /\ \A d \in 0..W : Span[d] > 0
    /\ \A d \in 1..W : Span[d-1] = 2 * Span[d]

IDs == 0 .. (Span[0] - 1)

NoNode == -1

ASSUME TableAssumption ==
    /\ Self \in IDs
    /\ Peers \subseteq IDs
    /\ K \in Nat \ {0}
    /\ BadThreshold \in Nat \ {0}

VARIABLES
    buckets,    \* rt.buckets
    inserting   \* the ID an insert holding rt.mu carries, or NoNode

vars == <<buckets, inserting>>

-----------------------------------------------------------------------------
(* Nodes and buckets.                                                      *)

Node == [id : IDs, failures : Nat]

\* A max of 0 is the code's zero NodeID, which stands for the end of the keyspace.
Bucket == [min : IDs, max : IDs, depth : 0..W, nodes : Seq(Node), cache : Seq(Node)]

NewNode(id) == [id |-> id, failures |-> 0]

IsBad(n) == n.failures >= BadThreshold

\* Faulty variant: the upper bound taken as part of the range.
ContainsInclusive(b, id) == id >= b.min /\ (b.max # 0 => id <= b.max)

Contains(b, id) == id >= b.min /\ (b.max # 0 => id < b.max)

IsFull(b) == Len(b.nodes) = K

IdsOf(s) == {s[i].id : i \in DOMAIN s}

\* The first entry for id, the one a scan of the slice stops at.
Pos(s, id) == CHOOSE i \in DOMAIN s : s[i].id = id /\ \A j \in 1..(i-1) : s[j].id # id

Refreshed(s, id) == [s EXCEPT ![Pos(s, id)].failures = 0]

Failed(s, id) == [s EXCEPT ![Pos(s, id)].failures = @ + 1]

Without(s, id) ==
    LET p == Pos(s, id)
    IN  [i \in 1..(Len(s) - 1) |-> IF i < p THEN s[i] ELSE s[i+1]]

\* Faulty variant: a split leaves every entry in both halves.
KeptAll(s, S) == s

\* The entries of s whose ID lies in S, in the order of s.
Kept(s, S) ==
    LET keep == {i \in DOMAIN s : s[i].id \in S}
        rank(i) == Cardinality({j \in keep : j <= i})
    IN  [n \in 1..Cardinality(keep) |-> s[CHOOSE i \in keep : rank(i) = n]]

\* sort.Search over the sorted minima: the last bucket that starts at or before id.
BucketFor(id) ==
    CHOOSE i \in DOMAIN buckets :
        /\ buckets[i].min <= id
        /\ \A j \in DOMAIN buckets : j > i => id < buckets[j].min

BucketOf(id) == buckets[BucketFor(id)]

\* Faulty variant: the split point one bit too high.
LeftHalfTooWide(b) ==
    LET mid  == b.min + Span[b.depth]
        half == [b EXCEPT !.max = mid, !.depth = @ + 1]
        ids  == {id \in IDs : Contains(half, id)}
    IN  [half EXCEPT !.nodes = Kept(@, ids), !.cache = Kept(@, ids)]

\* The two halves of b: the split point is b.min with bit b.depth set.
LeftHalf(b) ==
    LET mid  == b.min + Span[b.depth + 1]
        half == [b EXCEPT !.max = mid, !.depth = @ + 1]
        ids  == {id \in IDs : Contains(half, id)}
    IN  [half EXCEPT !.nodes = Kept(@, ids), !.cache = Kept(@, ids)]

\* Faulty variant: the right half starts where the old bucket did.
RightHalfKeepsMin(b) ==
    LET left == [b EXCEPT !.max = b.min + Span[b.depth + 1]]
        half == [b EXCEPT !.depth = @ + 1]
        ids  == {id \in IDs : ~ Contains(left, id)}
    IN  [half EXCEPT !.nodes = Kept(@, ids), !.cache = Kept(@, ids)]

RightHalf(b) ==
    LET mid  == b.min + Span[b.depth + 1]
        left == [b EXCEPT !.max = mid]
        half == [b EXCEPT !.min = mid, !.depth = @ + 1]
        ids  == {id \in IDs : ~ Contains(left, id)}
    IN  [half EXCEPT !.nodes = Kept(@, ids), !.cache = Kept(@, ids)]

\* bucketSliceReplace: left and right take the place of the bucket at idx.
Replaced(idx, left, right) ==
    [i \in 1..(Len(buckets) + 1) |->
        IF i < idx THEN buckets[i]
        ELSE IF i = idx THEN left
        ELSE IF i = idx + 1 THEN right
        ELSE buckets[i-1]]

-----------------------------------------------------------------------------
(* insert: one action per way an iteration of its loop ends.               *)

Init ==
    /\ buckets = << [min |-> 0, max |-> 0, depth |-> 0, nodes |-> <<>>, cache |-> <<>>] >>
    /\ inserting = NoNode

\* Insert takes rt.mu.
Insert(id) ==
    /\ inserting = NoNode
    /\ inserting' = id
    /\ UNCHANGED buckets

\* An ID that is active already is refreshed.
InsertUpdates ==
    LET i == BucketFor(inserting) IN
    /\ inserting # NoNode
    /\ inserting \in IdsOf(buckets[i].nodes)
    /\ buckets' = [buckets EXCEPT ![i].nodes = Refreshed(@, inserting)]
    /\ inserting' = NoNode

InsertAppends ==
    LET i == BucketFor(inserting) IN
    /\ inserting # NoNode
    /\ inserting \notin IdsOf(buckets[i].nodes)
    /\ ~ IsFull(buckets[i])
    /\ buckets' = [buckets EXCEPT ![i].nodes = Append(@, NewNode(inserting))]
    /\ inserting' = NoNode

\* The bucket is full and holds no entry for the ID the loop carries.
NoRoomIn(b) ==
    /\ inserting # NoNode
    /\ inserting \notin IdsOf(b.nodes)
    /\ IsFull(b)

\* The full bucket of our own ID is split and the loop goes round again.  At
\* depth W the split would index past the last byte of the NodeID.
InsertSplits ==
    LET i == BucketFor(inserting)
        b == buckets[i]
    IN
    /\ NoRoomIn(b)
    /\ Contains(b, Self)
    /\ b.depth < W
    /\ buckets' = Replaced(i, LeftHalf(b), RightHalf(b))
    /\ UNCHANGED inserting

\* Any other full bucket: refresh, fill or leave its replacement cache.
InsertUpdatesCache ==
    LET i == BucketFor(inserting)
        b == buckets[i]
    IN
    /\ NoRoomIn(b)
    /\ ~ Contains(b, Self)
    /\ inserting \in IdsOf(b.cache)
    /\ buckets' = [buckets EXCEPT ![i].cache = Refreshed(@, inserting)]
    /\ inserting' = NoNode

\* Faulty variant: our own bucket caches too.
InsertCachesInOwnBucket ==
    LET i == BucketFor(inserting)
        b == buckets[i]
    IN
    /\ NoRoomIn(b)
    /\ inserting \notin IdsOf(b.cache)
    /\ Len(b.cache) < K
    /\ buckets' = [buckets EXCEPT ![i].cache = Append(@, NewNode(inserting))]
    /\ inserting' = NoNode

InsertCaches ==
    LET i == BucketFor(inserting)
        b == buckets[i]
    IN
    /\ NoRoomIn(b)
    /\ ~ Contains(b, Self)
    /\ inserting \notin IdsOf(b.cache)
    /\ Len(b.cache) < K
    /\ buckets' = [buckets EXCEPT ![i].cache = Append(@, NewNode(inserting))]
    /\ inserting' = NoNode

\* Faulty variant: the loop goes round again.
InsertDropsAndRetries ==
    LET b == BucketOf(inserting) IN
    /\ NoRoomIn(b)
    /\ ~ Contains(b, Self)
    /\ inserting \notin IdsOf(b.cache)
    /\ Len(b.cache) >= K
    /\ UNCHANGED <<buckets, inserting>>

InsertDrops ==
    LET b == BucketOf(inserting) IN
    /\ NoRoomIn(b)
    /\ ~ Contains(b, Self)
    /\ inserting \notin IdsOf(b.cache)
    /\ Len(b.cache) >= K
    /\ inserting' = NoNode
    /\ UNCHANGED buckets

InsertStep ==
    \/ InsertUpdates \/ InsertAppends \/ InsertSplits
    \/ InsertUpdatesCache \/ InsertCaches \/ InsertDrops

-----------------------------------------------------------------------------
(* MarkSuccess and MarkFailure.                                            *)

\* Only an active node is reset: the replacement cache is not searched.
MarkSuccess(id) ==
    LET i == BucketFor(id) IN
    /\ inserting = NoNode
    /\ id \in IdsOf(buckets[i].nodes)
    /\ buckets' = [buckets EXCEPT ![i].nodes = Refreshed(@, id)]
    /\ UNCHANGED inserting

\* Faulty variant: no candidate is promoted.
EvictedAlone(b, id) == [b EXCEPT !.nodes = Without(@, id)]

\* Faulty variant: the promotion empties the replacement cache.
EvictedLosesCache(b, id) ==
    LET rest == Without(b.nodes, id) IN
    IF b.cache = <<>>
    THEN [b EXCEPT !.nodes = rest]
    ELSE [b EXCEPT !.nodes = Append(rest, Head(b.cache)), !.cache = <<>>]

\* The bucket without the active node id, the oldest candidate promoted.
Evicted(b, id) ==
    LET rest == Without(b.nodes, id) IN
    IF b.cache = <<>>
    THEN [b EXCEPT !.nodes = rest]
    ELSE [b EXCEPT !.nodes = Append(rest, Head(b.cache)), !.cache = Tail(b.cache)]

MarkFailureActive(id) ==
    LET i == BucketFor(id)
        b == buckets[i]
    IN
    /\ inserting = NoNode
    /\ id \in IdsOf(b.nodes)
    /\ LET failed == Failed(b.nodes, id) IN
       buckets' = [buckets EXCEPT ![i] =
                     IF IsBad(failed[Pos(failed, id)])
                     THEN Evicted(b, id)
                     ELSE [b EXCEPT !.nodes = failed]]
    /\ UNCHANGED inserting

\* Faulty variant: a bad candidate stays in the replacement cache.
MarkFailureCachedKeeps(id) ==
    LET i == BucketFor(id)
        b == buckets[i]
    IN
    /\ inserting = NoNode
    /\ id \notin IdsOf(b.nodes)
    /\ id \in IdsOf(b.cache)
    /\ buckets' = [buckets EXCEPT ![i].cache = Failed(@, id)]
    /\ UNCHANGED inserting

\* A failing candidate is counted too, and pruned when bad.
MarkFailureCached(id) ==
    LET i == BucketFor(id)
        b == buckets[i]
    IN
    /\ inserting = NoNode
    /\ id \notin IdsOf(b.nodes)
    /\ id \in IdsOf(b.cache)
    /\ LET failed == Failed(b.cache, id) IN
       buckets' = [buckets EXCEPT ![i].cache =
                     IF IsBad(failed[Pos(failed, id)])
                     THEN Without(b.cache, id)
                     ELSE failed]
    /\ UNCHANGED inserting

MarkFailure(id) == MarkFailureActive(id) \/ MarkFailureCached(id)

-----------------------------------------------------------------------------
Next ==
    \/ InsertStep
    \/ \E id \in Peers : Insert(id) \/ MarkSuccess(id) \/ MarkFailure(id)

\* The goroutine that holds rt.mu keeps running its loop.
Spec == Init /\ [][Next]_vars /\ WF_vars(InsertStep)

-----------------------------------------------------------------------------
(* Properties.                                                             *)

\* Every variable has its type: inserting is an ID of a peer while rt.mu is held.
TypeOK ==
    /\ buckets \in Seq(Bucket)
    /\ inserting \in Peers \cup {NoNode}

\* The buckets are dyadic, sorted and disjoint and cover the keyspace, so the
\* binary search of bucketFor and the zero Max of the last bucket are right
\* after every split (table.go "sorted slice of buckets covering the full
\* 160-bit keyspace").
Partition ==
    /\ \A i \in DOMAIN buckets :
          buckets[i].max = IF i = Len(buckets) THEN 0 ELSE buckets[i+1].min
    /\ \A i \in DOMAIN buckets :
          Cardinality({id \in IDs : Contains(buckets[i], id)}) = Span[buckets[i].depth]
    /\ \A id \in IDs : \E i \in DOMAIN buckets : Contains(buckets[i], id)

\* An ID has at most one entry in the whole table: the append to a bucket with
\* room looks at its active nodes only, and is safe only because a bucket with
\* room has no replacement cache.
OneEntryPerNode ==
    \A i, j \in DOMAIN buckets :
        LET all(b) == b.nodes \o b.cache IN
        \A p \in DOMAIN all(buckets[i]), q \in DOMAIN all(buckets[j]) :
            all(buckets[i])[p].id = all(buckets[j])[q].id => i = j /\ p = q

\* Splits and appends leave every entry in the bucket that bucketFor finds for
\* its ID, so MarkSuccess, MarkFailure and the next insert of it find it.
EntriesAreFound ==
    \A i \in DOMAIN buckets :
        \A id \in IdsOf(buckets[i].nodes) \cup IdsOf(buckets[i].cache) : BucketFor(id) = i

\* Candidates wait only behind a full bucket that does not hold our own ID: an
\* eviction promotes one at once, and our own bucket splits instead.
CandidatesWaitBehindFullBuckets ==
    \A i \in DOMAIN buckets :
        buckets[i].cache # <<>> => IsFull(buckets[i]) /\ ~ Contains(buckets[i], Self)

\* No bucket and no replacement cache outgrows bucketSize, whose equality test
\* in IsFull never recovers from an overrun.
Capacity ==
    \A i \in DOMAIN buckets : Len(buckets[i].nodes) <= K /\ Len(buckets[i].cache) <= K

\* A bad node is evicted or pruned by the failure that makes it bad, so a
\* promoted candidate is never bad and Closest has none to skip.
NoBadNodeStored ==
    \A i \in DOMAIN buckets :
        /\ \A p \in DOMAIN buckets[i].nodes : ~ IsBad(buckets[i].nodes[p])
        /\ \A p \in DOMAIN buckets[i].cache : ~ IsBad(buckets[i].cache[p])

\* insert never splits a bucket of a single ID (splitBucket would index past
\* the NodeID): such a bucket is full only with the ID being inserted.
NoSplitPastLastBit ==
    inserting # NoNode =>
        LET b == BucketOf(inserting) IN NoRoomIn(b) /\ Contains(b, Self) => b.depth < W

Stored == UNION {IdsOf(buckets[i].nodes) \cup IdsOf(buckets[i].cache) : i \in DOMAIN buckets}

FailuresOf(id) ==
    LET b == BucketOf(id) IN
    IF id \in IdsOf(b.nodes) THEN b.nodes[Pos(b.nodes, id)].failures
                             ELSE b.cache[Pos(b.cache, id)].failures

\* The table without its buckets.
Registry == INSTANCE NodeRegistry WITH failures <- [id \in Stored |-> FailuresOf(id)]

\* A known node leaves the table only by the failure that makes it bad, and its
\* count moves only by its own failures and refreshes: no newcomer, split,
\* eviction or promotion ever loses a node or touches another one's count.
ImplementsRegistry == Registry!Spec

\* The loop of insert ends, however often it splits.
InsertReturns == (inserting # NoNode) ~> (inserting = NoNode)

=============================================================================
