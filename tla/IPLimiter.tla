------------------------------ MODULE IPLimiter ------------------------------
(***************************************************************************)
(* The per-address rate limiter of inbound queries (dht/server/limiter.go, *)
(* pkg/cache): the server's query workers share a map of token buckets,    *)
(* each access to which is atomic by itself, and a cleanup goroutine first *)
(* collects the idle addresses and then deletes them.                      *)
(*                                                                         *)
(* Buckets do not refill while their address is active: a client's window  *)
(* runs from one long silence (ttl) to the next, which fills its bucket.   *)
(***************************************************************************)
EXTENDS Integers, FiniteSets

CONSTANTS
    IPs,
    Workers,
    Buckets,    \* bound: rate limiters that exist at once
    Burst,
    MaxSize     \* ip_limiter_max_size, 0 for no limit

NoBucket == "none"

ASSUME IPLimiterAssumption ==
    /\ IPs # {} /\ IsFiniteSet(Workers) /\ IsFiniteSet(Buckets)
    /\ NoBucket \notin Buckets
    /\ Burst \in Nat \ {0} /\ MaxSize \in Nat

VARIABLES
    clients,    \* the cache: the bucket of each address in it
    tokens,     \* left in each bucket
    silent,     \* addresses not heard of for longer than ttl
    worker,     \* what each worker is doing: its step, its address and the bucket it holds
    condemned,  \* addresses the cleanup collected, to be deleted
    allowed     \* history: queries allowed to each address in its window

limiterVars == <<clients, tokens, silent, worker, condemned, allowed>>

Cached == DOMAIN clients
InUse == {clients[ip] : ip \in Cached} \cup {worker[w].bucket : w \in Workers}

Idle == [step |-> "idle", ip |-> CHOOSE ip \in IPs : TRUE, bucket |-> NoBucket]

LimiterInit ==
    /\ clients = [ip \in {} |-> NoBucket]
    /\ tokens = [b \in Buckets |-> Burst]
    /\ silent = IPs
    /\ worker = [w \in Workers |-> Idle]
    /\ condemned = {}
    /\ allowed = [ip \in IPs |-> 0]

-----------------------------------------------------------------------------
(* Allow, by a query worker.  Find is its Get.                             *)

Moves(w, step, ip, bucket) == worker' = [worker EXCEPT ![w] = [step |-> step, ip |-> ip, bucket |-> bucket]]

Find(w, ip) ==
    /\ worker[w].step = "idle"
    /\ IF ip \in Cached THEN Moves(w, "known", ip, clients[ip]) ELSE Moves(w, "unknown", ip, NoBucket)
    /\ UNCHANGED <<clients, tokens, silent, condemned, allowed>>

\* Faulty variant: the size is not looked at.
SizeIgnored(w) ==
    /\ worker[w].step = "unknown"
    /\ Moves(w, "create", worker[w].ip, NoBucket)
    /\ UNCHANGED <<clients, tokens, silent, condemned, allowed>>

\* An address the cache has no room for is denied.
Size(w) ==
    /\ worker[w].step = "unknown"
    /\ IF MaxSize > 0 /\ Cardinality(Cached) >= MaxSize
       THEN worker' = [worker EXCEPT ![w] = Idle]
       ELSE Moves(w, "create", worker[w].ip, NoBucket)
    /\ UNCHANGED <<clients, tokens, silent, condemned, allowed>>

\* A new bucket, stamped, takes the place of whatever the cache now holds.
Set(w) ==
    LET ip == worker[w].ip IN
    /\ worker[w].step = "create"
    /\ \E b \in Buckets \ InUse :
         /\ tokens' = [tokens EXCEPT ![b] = Burst]
         /\ clients' = [i \in Cached \cup {ip} |-> IF i = ip THEN b ELSE clients[i]]
         /\ Moves(w, "known", ip, b)
    /\ silent' = silent \ {ip}
    /\ UNCHANGED <<condemned, allowed>>

\* The address is stamped and its bucket asked for a token.
Take(w) ==
    LET ip == worker[w].ip
        b == worker[w].bucket
    IN
    /\ worker[w].step = "known"
    /\ silent' = silent \ {ip}
    /\ tokens' = [tokens EXCEPT ![b] = IF @ > 0 THEN @ - 1 ELSE 0]
    /\ allowed' = [allowed EXCEPT ![ip] = IF tokens[b] > 0 THEN @ + 1 ELSE @]
    /\ worker' = [worker EXCEPT ![w] = Idle]
    /\ UNCHANGED <<clients, condemned>>

-----------------------------------------------------------------------------
(* Time and the cleanup.                                                   *)

\* Nothing is heard of an address for so long that its bucket fills up: much
\* longer than a worker or the cleanup takes between two of its steps.
FallSilent(ip) ==
    /\ ip \notin silent
    /\ \A w \in Workers : worker[w].step # "idle" => worker[w].ip # ip
    /\ ip \notin condemned
    /\ silent' = silent \cup {ip}
    /\ tokens' = IF ip \in Cached THEN [tokens EXCEPT ![clients[ip]] = Burst] ELSE tokens
    /\ allowed' = [allowed EXCEPT ![ip] = 0]
    /\ UNCHANGED <<clients, worker, condemned>>

\* Under the read lock.
Collect ==
    /\ condemned = {}
    /\ condemned' = Cached \cap silent
    /\ UNCHANGED <<clients, tokens, silent, worker, allowed>>

\* Under the write lock, without a second look.
Delete ==
    /\ condemned # {}
    /\ clients' = [ip \in Cached \ condemned |-> clients[ip]]
    /\ condemned' = {}
    /\ UNCHANGED <<tokens, silent, worker, allowed>>

LimiterNext ==
    \/ \E w \in Workers : (\E ip \in IPs : Find(w, ip)) \/ Size(w) \/ Set(w) \/ Take(w)
    \/ \E ip \in IPs : FallSilent(ip)
    \/ Collect \/ Delete

-----------------------------------------------------------------------------
(* Properties.                                                             *)

\* Every variable has its type.
LimiterTypeOK ==
    /\ Cached \subseteq IPs
    /\ \A ip \in Cached : clients[ip] \in Buckets
    /\ tokens \in [Buckets -> 0..Burst]
    /\ silent \subseteq IPs /\ condemned \subseteq IPs
    /\ worker \in [Workers -> [step : {"idle", "known", "unknown", "create"}, ip : IPs,
                               bucket : Buckets \cup {NoBucket}]]
    /\ allowed \in [IPs -> Nat]

\* Allow is several steps, so a client may get more than its burst: a worker that
\* missed while others did replaces their bucket by a full one, and the cleanup
\* may delete a bucket in use.  But that is all: it gets at most one more burst
\* from each worker and one from the cleanup.  Workers that look at the size together
\* may exceed it, each by one.
RacesAreBounded ==
    /\ LimiterTypeOK
    /\ \A ip \in IPs : allowed[ip] <= (Cardinality(Workers) + 1) * Burst
    /\ MaxSize > 0 => Cardinality(Cached) <= MaxSize + Cardinality(Workers) - 1

=============================================================================
