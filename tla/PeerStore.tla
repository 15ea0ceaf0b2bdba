------------------------------ MODULE PeerStore ------------------------------
(***************************************************************************)
(* The announced peers the DHT server keeps (dht/server/peerstore.go): a   *)
(* map of infohashes to peers, a list of the infohashes in the order they  *)
(* came, an index into the list, and a cached sample.  Every operation     *)
(* holds the store's mutex, so each is one step.                           *)
(*                                                                         *)
(* Time is in ticks.  A time stamp is its age, not counted beyond the age  *)
(* at which it no longer matters.  The list holds infohashes and the index *)
(* the infohashes with an element in it, which is the last one of theirs.  *)
(***************************************************************************)
EXTENDS Integers, Sequences, FiniteSets, SequencesExt

CONSTANTS
    Hashes,
    Peers,
    MaxHashes,
    MaxPeersPerHash,
    TTL,            \* age at which a peer expires
    SampleTTL,      \* age at which the cached sample does (5 minutes)
    SampleSize      \* infohashes in a sample (500)

ASSUME PeerStoreAssumption ==
    {MaxHashes, MaxPeersPerHash, TTL, SampleTTL, SampleSize} \subseteq Nat \ {0}

VARIABLES
    entries,        \* infohash -> peer -> age of SeenAt
    order,          \* insertOrder
    index,          \* infohashes in orderIndex
    cache,          \* the cached sample
    served,         \* what the last operation, a Get, returned
    sampled,        \* what the last operation, a Sample, returned
    announced,      \* history: age of each peer's last announce of each infohash
    stored          \* history: ticks since each infohash was in entries, at most SampleTTL

vars == <<entries, order, index, cache, served, sampled, announced, stored>>

NoEntries == [h \in {} |-> 0]
Nothing == [h \in Hashes |-> {}]

Known == DOMAIN entries

Live(peers) == RestrictDomain(peers, LAMBDA p : peers[p] < TTL)

With(f, x, v) == [y \in DOMAIN f \cup {x} |-> IF y = x THEN v ELSE f[y]]
Except(f, S) == Restrict(f, DOMAIN f \ S)

\* removeFromOrder.
OrderWithout(h) ==
    IF h \in index THEN RemoveAt(order, SelectLastInSeq(order, LAMBDA x : x = h)) ELSE order

\* evictOldest: elements are removed from the front of the list up to the first
\* whose infohash is stored.
Evictions ==
    LET first == SelectInSeq(order, LAMBDA h : h \in Known)
    IN  IF first = 0 THEN Len(order) ELSE first

Init ==
    /\ entries = NoEntries
    /\ order = <<>> /\ index = {}
    /\ cache = [samples |-> {}, age |-> SampleTTL]
    /\ served = Nothing /\ sampled = {}
    /\ announced = [h \in Hashes |-> [p \in Peers |-> TTL]]
    /\ stored = [h \in Hashes |-> SampleTTL]

Remember == stored' = [h \in Hashes |-> IF h \in DOMAIN entries' THEN 0 ELSE stored[h]]
Returns(peers, hashes) == served' = peers /\ sampled' = hashes

-----------------------------------------------------------------------------
(* Add.                                                                    *)

\* A peer the store has of the infohash is stamped anew.
Refresh(h, p) ==
    /\ h \in Known
    /\ p \in DOMAIN entries[h]
    /\ entries' = [entries EXCEPT ![h][p] = 0]
    /\ UNCHANGED <<order, index>>

\* A new one is kept if there is room, expired peers taking up room like others.
Extend(h, p) ==
    /\ h \in Known
    /\ p \notin DOMAIN entries[h]
    /\ entries' = IF Cardinality(DOMAIN entries[h]) < MaxPeersPerHash
                  THEN [entries EXCEPT ![h] = With(@, p, 0)] ELSE entries
    /\ UNCHANGED <<order, index>>

\* Faulty variant: the infohash evicted stays in the list.
CreateLeaving(h, p) ==
    LET out == {order[i] : i \in 1..Evictions} IN
    /\ h \notin Known
    /\ entries' = With(IF Cardinality(Known) >= MaxHashes THEN Except(entries, out) ELSE entries,
                       h, [q \in {p} |-> 0])
    /\ order' = Append(order, h)
    /\ index' = index \cup {h}

\* A new infohash is entered, after the oldest one if the store is full.
Create(h, p) ==
    LET full == Cardinality(Known) >= MaxHashes
        out == {order[i] : i \in 1..Evictions}
    IN
    /\ h \notin Known
    /\ entries' = With(IF full THEN Except(entries, out) ELSE entries, h, [q \in {p} |-> 0])
    /\ order' = Append(IF full THEN SubSeq(order, Evictions + 1, Len(order)) ELSE order, h)
    /\ index' = (IF full THEN index \ out ELSE index) \cup {h}

Add(h, p) ==
    /\ Refresh(h, p) \/ Extend(h, p) \/ Create(h, p)
    /\ announced' = [announced EXCEPT ![h][p] = 0]
    /\ Remember
    /\ Returns(Nothing, {})
    /\ UNCHANGED cache

-----------------------------------------------------------------------------
(* Reading and pruning.                                                    *)

\* Faulty variant: an infohash without a live peer stays where it was.
GetAsStored(h) ==
    /\ UNCHANGED <<entries, order, index, cache, announced, stored>>
    /\ Returns(IF h \in Known THEN [Nothing EXCEPT ![h] = DOMAIN entries[h]] ELSE Nothing, {})

\* The live peers of an infohash, which is removed if there are none.
Get(h) ==
    LET live == IF h \in Known THEN Live(entries[h]) ELSE NoEntries IN
    /\ IF h \in Known /\ DOMAIN live = {}
       THEN /\ entries' = Except(entries, {h})
            /\ order' = OrderWithout(h)
            /\ index' = index \ {h}
       ELSE /\ entries' = IF h \in Known THEN [entries EXCEPT ![h] = live] ELSE entries
            /\ UNCHANGED <<order, index>>
    /\ Remember
    /\ Returns([Nothing EXCEPT ![h] = DOMAIN live], {})
    /\ UNCHANGED <<cache, announced>>

\* The elements of s that are not in S, in the order of s.
Without(s, S) ==
    LET rest == {i \in DOMAIN s : s[i] \notin S}
        rank(i) == Cardinality({j \in rest : j <= i})
    IN  [n \in 1..Cardinality(rest) |-> s[CHOOSE i \in rest : rank(i) = n]]

Dead == {h \in ToSet(order) : h \in Known => DOMAIN Live(entries[h]) = {}}

\* pruneExpired, every TTL / 2.
Prune ==
    /\ entries' = [h \in Known \ Dead |-> Live(entries[h])]
    /\ order' = Without(order, Dead)
    /\ index' = index \ Dead
    /\ Remember
    /\ Returns(Nothing, {})
    /\ UNCHANGED <<cache, announced>>

\* Faulty variant: a cached sample is used as long as there is one.
SampleForever ==
    /\ IF Known = {} \/ cache.samples # {}
       THEN UNCHANGED cache /\ Returns(Nothing, IF Known = {} THEN {} ELSE cache.samples)
       ELSE \E S \in SUBSET Known :
              /\ Cardinality(S) = Min({SampleSize, Cardinality(Known)})
              /\ cache' = [samples |-> S, age |-> 0]
              /\ Returns(Nothing, S)
    /\ UNCHANGED <<entries, order, index, announced, stored>>

\* Infohashes for a BEP-51 response: none if the store is empty, the cached
\* sample while it is young, else a new one.
Sample ==
    /\ IF Known = {} \/ (cache.age < SampleTTL /\ cache.samples # {})
       THEN UNCHANGED cache /\ Returns(Nothing, IF Known = {} THEN {} ELSE cache.samples)
       ELSE \E S \in SUBSET Known :
              /\ Cardinality(S) = Min({SampleSize, Cardinality(Known)})
              /\ cache' = [samples |-> S, age |-> 0]
              /\ Returns(Nothing, S)
    /\ UNCHANGED <<entries, order, index, announced, stored>>

Older(age, most) == IF age < most THEN age + 1 ELSE most

Tick ==
    /\ entries' = [h \in Known |-> [p \in DOMAIN entries[h] |-> Older(entries[h][p], TTL)]]
    /\ cache' = [cache EXCEPT !.age = Older(@, SampleTTL)]
    /\ announced' = [h \in Hashes |-> [p \in Peers |-> Older(announced[h][p], TTL)]]
    /\ stored' = [h \in Hashes |-> IF h \in Known THEN 0 ELSE Older(stored[h], SampleTTL)]
    /\ Returns(Nothing, {})
    /\ UNCHANGED <<order, index>>

Next ==
    \/ \E h \in Hashes : Get(h) \/ \E p \in Peers : Add(h, p)
    \/ Prune \/ Sample \/ Tick

Spec == Init /\ [][Next]_vars

-----------------------------------------------------------------------------
(* Properties.                                                             *)

\* Every variable has its type; the store keeps to its limits and keeps no
\* infohash without a peer.
TypeOK ==
    /\ Known \subseteq Hashes /\ Cardinality(Known) <= MaxHashes
    /\ \A h \in Known :
         /\ DOMAIN entries[h] \subseteq Peers /\ entries[h] \in [DOMAIN entries[h] -> 0..TTL]
         /\ Cardinality(DOMAIN entries[h]) \in 1..MaxPeersPerHash
    /\ order \in Seq(Hashes) /\ index \subseteq Hashes
    /\ cache \in [samples : SUBSET Hashes, age : 0..SampleTTL]
    /\ served \in [Hashes -> SUBSET Peers] /\ sampled \subseteq Hashes
    /\ announced \in [Hashes -> [Peers -> 0..TTL]]
    /\ stored \in [Hashes -> 0..SampleTTL]

\* The map, the list and the index name the same infohashes, each once, through
\* every eviction, removal and pruning.
OrderMatchesEntries ==
    /\ TypeOK
    /\ index = Known
    /\ ToSet(order) = Known
    /\ Len(order) = Cardinality(Known)

\* get_peers returns only peers that announced the infohash within the TTL,
\* whatever evictions and returns lie between.
ServedPeersAreLive ==
    \A h \in Hashes : \A p \in served[h] : announced[h][p] < TTL

\* A sampled infohash was stored, if not now, then within the sample's lifetime.
SampledWasStored == \A h \in sampled : stored[h] < SampleTTL

=============================================================================
