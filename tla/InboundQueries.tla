--------------------------- MODULE InboundQueries ---------------------------
(***************************************************************************)
(* What the DHT server does with the queries of others (dht/server/        *)
(* server.go, token.go): the read loop queues them, query workers handle   *)
(* them side by side, and answers leave over a bounded queue.  get_peers   *)
(* hands out a token; an announce_peer with a valid one adds the peer to   *)
(* the store and tells the indexer of an infohash the filter does not      *)
(* know.                                                                   *)
(*                                                                         *)
(* Secrets are numbered; a token is the address and the secret it was made *)
(* from, its hash having no collisions.  The limiter may refuse any query  *)
(* (IPLimiter).  When the store is full, whom it evicts and when a peer's  *)
(* time is up is PeerStore's; here it may happen at any time.  The filter  *)
(* has its two tiers, which the samplers of SampleQueue share: a refusal   *)
(* is theirs, an earlier announce's, or a false positive.                  *)
(***************************************************************************)
EXTENDS Integers, Sequences, FiniteSets

CONSTANTS
    IPs,
    Hashes,
    Workers,
    HandlersCap,    \* query_queue
    OutboundCap,
    DiscoveredCap,
    MaxTicks        \* bound: rotations of the secret and of the filter

ASSUME InboundAssumption == {HandlersCap, OutboundCap, DiscoveredCap, MaxTicks} \subseteq Nat

VARIABLES
    handlers,   \* queue of queries
    worker,     \* what each worker is doing: its step, and its query or the peer announced
    secret,     \* currentSecret and previousSecret
    peerStore,  \* announced pairs of infohash and address
    active, previous,   \* the two tiers of the filter
    discovered, \* queue of events to the indexer
    outbound,   \* queue of answers
    tokens,     \* tokens that reached a client, which may send them from anywhere
    rotations,  \* history: rotations of the secret so far
    turns,      \* history: rotations of the filter so far
    acceptedAt, \* history: the turn in which the filter let the worker's announce past
    events      \* history: infohash, and turn of its acceptance, of every event

filterVars == <<active, previous, turns, acceptedAt>>
serverVars == <<peerStore, filterVars, discovered>>
history == <<rotations, events>>
vars == <<handlers, worker, secret, serverVars, outbound, tokens, history>>

NoSecret == -1      \* the random secret that no token was made from
Token == [ip : IPs, secret : 0..MaxTicks]
Forged == [ip |-> "nobody", secret |-> NoSecret - 1]

GetPeers == [q : {"get_peers"}, ip : IPs]
AnnouncePeer == [q : {"announce_peer"}, ip : IPs, hash : Hashes, token : Token \cup {Forged}]
Other == [q : {"other"}]
Query == GetPeers \cup AnnouncePeer \cup Other

Answer == [y : {"r", "e"}, tokens : SUBSET Token]
Idle == [step |-> "idle"]

TokenFor(ip, s) == [ip |-> ip, secret |-> s]

Init ==
    /\ handlers = <<>>
    /\ worker = [w \in Workers |-> Idle]
    /\ secret = [current |-> 0, previous |-> NoSecret]
    /\ peerStore = {} /\ active = {} /\ previous = {} /\ discovered = <<>>
    /\ outbound = <<>>
    /\ tokens = {}
    /\ rotations = 0 /\ turns = 0 /\ acceptedAt = [w \in Workers |-> 0] /\ events = <<>>

-----------------------------------------------------------------------------
(* The network.                                                            *)

\* A query arrives; the read loop drops it if the queue is full.
Receive ==
    /\ Len(handlers) < HandlersCap
    /\ \E query \in GetPeers \cup Other \cup {a \in AnnouncePeer : a.token \in tokens \cup {Forged}} :
         handlers' = Append(handlers, query)
    /\ UNCHANGED <<worker, secret, serverVars, outbound, tokens, history>>

\* The write loop sends an answer, which may be lost.
Write ==
    /\ outbound # <<>>
    /\ outbound' = Tail(outbound)
    /\ tokens' \in {tokens, tokens \cup Head(outbound).tokens}
    /\ UNCHANGED <<handlers, worker, secret, serverVars, history>>

-----------------------------------------------------------------------------
(* A query worker.                                                         *)

\* Faulty variant: the capacity is off by one.
RespondLate(y, ts) ==
    outbound' = IF Len(outbound) <= OutboundCap
                THEN Append(outbound, [y |-> y, tokens |-> ts]) ELSE outbound

\* respond and respondError: an answer is dropped if the queue is full.
Respond(y, ts) ==
    outbound' = IF Len(outbound) < OutboundCap
                THEN Append(outbound, [y |-> y, tokens |-> ts]) ELSE outbound

Moves(w, step) == worker' = [worker EXCEPT ![w].step = step]
Answers(w) == worker' = [worker EXCEPT ![w] = [step |-> "respond"]]
Finishes(w) == worker' = [worker EXCEPT ![w] = Idle]

\* The limiter refuses it, or its handler begins.
Take(w) ==
    /\ worker[w].step = "idle"
    /\ handlers # <<>>
    /\ handlers' = Tail(handlers)
    /\ worker' \in {worker, [worker EXCEPT ![w] = [step |-> Head(handlers).q, query |-> Head(handlers)]]}
    /\ UNCHANGED <<secret, serverVars, outbound, tokens, history>>

\* A query without effect here: answered, answered with an error, or unknown.
HandleOther(w) ==
    /\ worker[w].step = "other"
    /\ Finishes(w)
    /\ UNCHANGED outbound \/ Respond("r", {}) \/ Respond("e", {})
    /\ UNCHANGED <<handlers, secret, serverVars, tokens, history>>

\* The answer carries a token of the current secret, with peers or nodes.
HandleGetPeers(w) ==
    /\ worker[w].step = "get_peers"
    /\ Finishes(w)
    /\ Respond("r", {TokenFor(worker[w].query.ip, secret.current)})
    /\ UNCHANGED <<handlers, secret, serverVars, tokens, history>>

\* Faulty variant: only tokens of the current secret are valid.
ValidNow(ip, t) == t = TokenFor(ip, secret.current)

\* Validate.
Valid(ip, t) == t \in {TokenFor(ip, secret.current), TokenFor(ip, secret.previous)}

\* Of announce_peer: the token, then the port, which may be unusable.
Reject(w) ==
    /\ worker[w].step = "announce_peer"
    /\ ~ Valid(worker[w].query.ip, worker[w].query.token)
    /\ Finishes(w)
    /\ Respond("e", {})
    /\ UNCHANGED <<handlers, secret, serverVars, tokens, history>>

Ignore(w) ==
    /\ worker[w].step = "announce_peer"
    /\ Valid(worker[w].query.ip, worker[w].query.token)
    /\ Answers(w)
    /\ UNCHANGED <<handlers, secret, serverVars, outbound, tokens, history>>

\* From here on the handler goes by the infohash and the address.
Accept(w) ==
    LET query == worker[w].query IN
    /\ worker[w].step = "announce_peer"
    /\ Valid(query.ip, query.token)
    /\ worker' = [worker EXCEPT ![w] = [step |-> "store", peer |-> <<query.hash, query.ip>>]]
    /\ UNCHANGED <<handlers, secret, serverVars, outbound, tokens, history>>

\* Add: an infohash that is stored may have as many peers as it may; a new one may take
\* the place of the oldest.
AddPeer(peer) ==
    LET stored == {p[1] : p \in peerStore}
        with == peerStore \cup {peer}
    IN
    \/ peerStore' = with
    \/ peer[1] \in stored /\ UNCHANGED peerStore
    \/ peer[1] \notin stored /\ \E oldest \in stored : peerStore' = {p \in with : p[1] # oldest}

\* Faulty variant: the filter is not asked before the event.
StoreAndAnnounce(w) ==
    /\ worker[w].step = "store"
    /\ AddPeer(worker[w].peer)
    /\ Moves(w, "announce")
    /\ UNCHANGED <<handlers, secret, filterVars, discovered, outbound, tokens, history>>

Store(w) ==
    /\ worker[w].step = "store"
    /\ AddPeer(worker[w].peer)
    /\ Moves(w, "dedup")
    /\ UNCHANGED <<handlers, secret, filterVars, discovered, outbound, tokens, history>>

\* SeenOrAdd: an infohash that a tier knows, or seems to know, is not announced again.
Deduplicate(w) ==
    LET h == worker[w].peer[1] IN
    /\ worker[w].step = "dedup"
    /\ \/ Answers(w) /\ UNCHANGED <<active, acceptedAt>>
       \/ /\ h \notin active \cup previous
          /\ active' = active \cup {h}
          /\ acceptedAt' = [acceptedAt EXCEPT ![w] = turns]
          /\ Moves(w, "announce")
    /\ UNCHANGED <<handlers, secret, peerStore, previous, turns, discovered, outbound, tokens,
                   history>>

\* The event is dropped if the channel is full.
Announce(w) ==
    /\ worker[w].step = "announce"
    /\ Answers(w)
    /\ acceptedAt' = [acceptedAt EXCEPT ![w] = 0]
    /\ \/ /\ Len(discovered) < DiscoveredCap
          /\ discovered' = Append(discovered, worker[w].peer)
          /\ events' = Append(events, [hash |-> worker[w].peer[1], turn |-> acceptedAt[w]])
       \/ /\ Len(discovered) >= DiscoveredCap
          /\ UNCHANGED <<discovered, events>>
    /\ UNCHANGED <<handlers, secret, peerStore, active, previous, turns, outbound, tokens, rotations>>

Acknowledge(w) ==
    /\ worker[w].step = "respond"
    /\ Finishes(w)
    /\ Respond("r", {})
    /\ UNCHANGED <<handlers, secret, serverVars, tokens, history>>

HandleAnnouncePeer(w) ==
    Reject(w) \/ Ignore(w) \/ Accept(w) \/ Store(w) \/ Deduplicate(w) \/ Announce(w) \/ Acknowledge(w)

Work(w) == Take(w) \/ HandleOther(w) \/ HandleGetPeers(w) \/ HandleAnnouncePeer(w)

-----------------------------------------------------------------------------
\* The token manager's ticker.
Rotate ==
    /\ rotations + turns < MaxTicks
    /\ rotations' = rotations + 1
    /\ secret' = [current |-> rotations', previous |-> secret.current]
    /\ UNCHANGED <<handlers, worker, serverVars, outbound, tokens, events>>

\* The filter's ticker: the previous tier is forgotten.
Turn ==
    /\ rotations + turns < MaxTicks
    /\ turns' = turns + 1
    /\ previous' = active
    /\ active' = {}
    /\ UNCHANGED <<handlers, worker, secret, peerStore, acceptedAt, discovered, outbound, tokens,
                   history>>

\* The time of some peers is up, and a read or the store's ticker drops them.
Forget ==
    /\ \E gone \in SUBSET peerStore : peerStore' = peerStore \ gone
    /\ UNCHANGED <<handlers, worker, secret, filterVars, discovered, outbound, tokens, history>>

\* An indexer worker takes an event.
Consume ==
    /\ discovered # <<>>
    /\ discovered' = Tail(discovered)
    /\ UNCHANGED <<handlers, worker, secret, peerStore, filterVars, outbound, tokens, history>>

Next ==
    Receive \/ Write \/ (\E w \in Workers : Work(w)) \/ Rotate \/ Turn \/ Forget \/ Consume

Spec == Init /\ [][Next]_vars

-----------------------------------------------------------------------------
(* Properties.                                                             *)

\* Every variable has its type; the queues keep to their capacities.
TypeOK ==
    /\ handlers \in Seq(Query) /\ Len(handlers) <= HandlersCap
    /\ \A w \in Workers :
         \/ worker[w] \in {Idle, [step |-> "respond"]}
         \/ /\ worker[w].step \in {"get_peers", "announce_peer", "other"}
            /\ worker[w].query \in Query
         \/ /\ worker[w].step \in {"store", "dedup", "announce"}
            /\ worker[w].peer \in Hashes \X IPs
    /\ secret.current \in 0..MaxTicks /\ secret.previous \in NoSecret..MaxTicks
    /\ peerStore \subseteq Hashes \X IPs
    /\ active \subseteq Hashes /\ previous \subseteq Hashes
    /\ discovered \in Seq(Hashes \X IPs) /\ Len(discovered) <= DiscoveredCap
    /\ outbound \in Seq(Answer) /\ Len(outbound) <= OutboundCap
    /\ tokens \subseteq Token
    /\ rotations \in 0..MaxTicks
    /\ turns \in 0..MaxTicks /\ acceptedAt \in [Workers -> 0..MaxTicks]
    /\ events \in Seq([hash : Hashes, turn : 0..MaxTicks])

\* "tokens issued just before a rotation remain valid for one additional window"
\* (token.go): a client that announces in time is not turned away, and one that
\* is two windows late is, however long its query was queued.
TokensLastTwoWindows ==
    [][\A w \in Workers :
         worker[w].step = "announce_peer" /\ worker'[w].step # "announce_peer" =>
           LET t == worker[w].query.token
               late == rotations - t.secret > 1
           IN  (t # Forged /\ t.ip = worker[w].query.ip /\ ~late)
                   <=> worker'[w] # Idle]_vars

\* Two events of one infohash come from announces the filter let past at least two of
\* its rotations apart, however many announces are handled side by side and however long
\* a worker takes from the filter to the channel ("does not immediately cause
\* re-discovery", filter.go).  And the store names no address but those of clients that
\* had been handed a token for it, whichever peers it keeps.
AnnouncesAreSound ==
    /\ TypeOK
    /\ \A i, j \in DOMAIN events :
         i < j /\ events[i].hash = events[j].hash =>
            \/ events[i].turn + 2 <= events[j].turn
            \/ events[j].turn + 2 <= events[i].turn
    /\ \A p \in peerStore : \E t \in tokens : t.ip = p[2]

=============================================================================
