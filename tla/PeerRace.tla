------------------------------ MODULE PeerRace ------------------------------
(***************************************************************************)
(* An indexer worker fetching the metadata of one infohash after the other *)
(* from their peers (indexer/worker.go process): one goroutine per peer,   *)
(* at most maxConcurrentPeers at once, a channel of one for the first      *)
(* result, and a goroutine that closes it when all have ended.             *)
(*                                                                         *)
(* The goroutines of an infohash that has its result run on while the      *)
(* worker is at the next.  A call of process that ends before its fetches  *)
(* (known infohash, failed lookup) is left out; what follows the metadata  *)
(* is TorrentLifecycle's.                                                  *)
(***************************************************************************)
EXTENDS MetadataFetch, Sequences, FiniteSets

CONSTANTS
    NumJobs,        \* infohashes the worker takes, in this order
    NumPeers,       \* bound: peers of an event
    MaxPeers,       \* max_peers
    Concurrency     \* the values of max_concurrent_peers to consider

ASSUME PeerRaceAssumption ==
    /\ {NumJobs, NumPeers, MaxPeers} \cup Concurrency \subseteq Nat \ {0}
    /\ Fetches = (1 .. NumJobs) \X (1 .. MaxPeers)

Jobs == 1 .. NumJobs

VARIABLES
    maxConcurrentPeers, \* of the configuration, never changed
    job,        \* the infohash the worker is at, 0 before the first
    at,         \* where the worker is: "idle", "token", "slot", "receive", "store"
    next,       \* the peer it dispatches next
    limit,      \* per infohash: how many peers it asks, maxPeers
    running,    \* fetches whose goroutine has not returned
    resultCh,   \* per infohash: the result channel
    closed,     \* infohashes whose result channel is closed
    cancelled,  \* infohashes whose context has ended, and Root, the worker's own
    outcome,    \* per infohash: what process has come to
    info        \* per infohash: the metadata it received, as what was assembled

workerVars == <<maxConcurrentPeers, job, at, next, limit>>
chanVars == <<resultCh, closed>>
vars == <<fetch, workerVars, running, chanVars, cancelled, outcome, info>>

Live(j) == {f \in running : f[1] = j}

Root == 0

Stopping == Root \in cancelled

Init ==
    /\ maxConcurrentPeers \in Concurrency
    /\ FetchInit
    /\ job = 0 /\ at = "idle" /\ next = 1
    /\ limit = [j \in Jobs |-> 0]
    /\ running = {}
    /\ resultCh = [j \in Jobs |-> <<>>]
    /\ closed = {}
    /\ cancelled = {}
    /\ outcome = [j \in Jobs |-> "open"]
    /\ info = [j \in Jobs |-> 0]

Smaller(a, b) == IF a < b THEN a ELSE b

\* An event with so many peers arrives.
Take ==
    /\ at = "idle"
    /\ ~ Stopping
    /\ job < NumJobs
    /\ job' = job + 1
    /\ \E n \in 0 .. NumPeers :
         LET most == Smaller(n, MaxPeers) IN
         /\ limit' = [limit EXCEPT ![job'] = most]
         /\ IF most = 0
            THEN at' = "idle" /\ outcome' = [outcome EXCEPT ![job'] = "nothing"]
            ELSE at' = "token" /\ UNCHANGED outcome
    /\ next' = 1
    /\ UNCHANGED <<maxConcurrentPeers, fetch, running, chanVars, cancelled, info>>

\* The rate limiter lets the next peer through.
AwaitToken ==
    /\ at = "token"
    /\ job \notin cancelled
    /\ next <= limit[job]
    /\ at' = "slot"
    /\ UNCHANGED <<fetch, maxConcurrentPeers, job, next, limit, running, chanVars, cancelled, outcome, info>>

\* g.Go blocks while that many fetches of this infohash run.
Spawn ==
    /\ at = "slot"
    /\ Cardinality(Live(job)) < maxConcurrentPeers
    /\ running' = running \cup {<<job, next>>}
    /\ Moves(<<job, next>>, "dial")
    /\ next' = next + 1
    /\ at' = "token"
    /\ UNCHANGED <<maxConcurrentPeers, job, limit, chanVars, cancelled, outcome, info>>

\* All peers are dispatched, or Wait fails because the context has ended.
DispatchEnds ==
    /\ at = "token"
    /\ next > limit[job] \/ job \in cancelled
    /\ at' = "receive"
    /\ UNCHANGED <<fetch, maxConcurrentPeers, job, next, limit, running, chanVars, cancelled, outcome, info>>

FetchStep(f) ==
    /\ f \in running
    /\ Progress(f)
    /\ UNCHANGED <<workerVars, running, chanVars, cancelled, outcome, info>>

\* The part of a fetch that does not depend on its peer.
FetchEnds(f) ==
    /\ f \in running
    /\ Verify(f) \/ Deadline(f)
    /\ UNCHANGED <<workerVars, running, chanVars, cancelled, outcome, info>>

\* An ended context fails the dial; nothing else in a fetch looks at it.
DialCancelled(f) ==
    /\ f \in running
    /\ f[1] \in cancelled
    /\ fetch[f].at = "dial"
    /\ Moves(f, "failed")
    /\ UNCHANGED <<workerVars, running, chanVars, cancelled, outcome, info>>

\* Faulty variant: a channel without a buffer, so a result nobody waits for is dropped.
ReturnUnbuffered(f) ==
    /\ f \in running
    /\ fetch[f].at \in {"done", "failed"}
    /\ running' = running \ {f}
    /\ resultCh' = IF fetch[f].at = "done" /\ resultCh[f[1]] = <<>> /\ job = f[1] /\ at = "receive"
                   THEN [resultCh EXCEPT ![f[1]] = <<fetch[f].assembled>>]
                   ELSE resultCh
    /\ UNCHANGED <<fetch, workerVars, closed, cancelled, outcome, info>>

\* The goroutine of a fetch returns; the first result fills the channel, later ones
\* are dropped.
Return(f) ==
    /\ f \in running
    /\ fetch[f].at \in {"done", "failed"}
    /\ running' = running \ {f}
    /\ resultCh' = IF fetch[f].at = "done" /\ resultCh[f[1]] = <<>>
                   THEN [resultCh EXCEPT ![f[1]] = <<fetch[f].assembled>>]
                   ELSE resultCh
    /\ UNCHANGED <<fetch, workerVars, closed, cancelled, outcome, info>>

Dispatched(j) == job > j \/ (job = j /\ at \in {"receive", "store", "idle"})

\* Faulty variant: the channel is closed once all are dispatched.
CloseEarly(j) ==
    /\ Dispatched(j)
    /\ limit[j] > 0
    /\ j \notin closed
    /\ closed' = closed \cup {j}
    /\ UNCHANGED <<fetch, workerVars, running, resultCh, cancelled, outcome, info>>

\* g.Wait has returned.
Close(j) ==
    /\ Dispatched(j)
    /\ limit[j] > 0
    /\ Live(j) = {}
    /\ j \notin closed
    /\ closed' = closed \cup {j}
    /\ UNCHANGED <<fetch, workerVars, running, resultCh, cancelled, outcome, info>>

\* The value in the channel comes first, closed or not.
ReceiveInfo ==
    /\ at = "receive"
    /\ resultCh[job] # <<>>
    /\ info' = [info EXCEPT ![job] = Head(resultCh[job])]
    /\ resultCh' = [resultCh EXCEPT ![job] = <<>>]
    /\ outcome' = [outcome EXCEPT ![job] = "metadata"]
    /\ at' = "store"
    /\ UNCHANGED <<fetch, maxConcurrentPeers, job, next, limit, running, closed, cancelled>>

\* Ends the call: its deferred cancel ends the context of fetches that still run.
ReceiveNothing ==
    /\ at = "receive"
    /\ resultCh[job] = <<>>
    /\ job \in closed
    /\ outcome' = [outcome EXCEPT ![job] = "nothing"]
    /\ at' = "idle"
    /\ cancelled' = cancelled \cup {job}
    /\ UNCHANGED <<fetch, maxConcurrentPeers, job, next, limit, running, chanVars, info>>

Store ==
    /\ at = "store"
    /\ at' = "idle"
    /\ cancelled' = cancelled \cup {job}
    /\ UNCHANGED <<fetch, maxConcurrentPeers, job, next, limit, running, chanVars, outcome, info>>

\* The process is told to stop.
Stop ==
    /\ ~ Stopping
    /\ cancelled' = {Root} \cup Jobs
    /\ UNCHANGED <<fetch, workerVars, running, chanVars, outcome, info>>

Worker == Take \/ AwaitToken \/ Spawn \/ DispatchEnds \/ ReceiveInfo \/ ReceiveNothing \/ Store

Next ==
    \/ Worker
    \/ \E f \in Fetches : FetchStep(f) \/ DialCancelled(f) \/ Return(f)
    \/ \E j \in Jobs : Close(j)
    \/ Stop

\* Goroutines run, tokens are granted and deadlines pass; peers owe nobody anything,
\* and the next event may never come.
Fairness ==
    /\ WF_vars(AwaitToken) /\ WF_vars(Spawn) /\ WF_vars(DispatchEnds)
    /\ WF_vars(ReceiveInfo) /\ WF_vars(ReceiveNothing) /\ WF_vars(Store)
    /\ \A f \in Fetches : WF_vars(Return(f)) /\ WF_vars(FetchEnds(f))
    /\ \A j \in Jobs : WF_vars(Close(j))

Spec == Init /\ [][Next]_vars /\ Fairness

-----------------------------------------------------------------------------
(* Properties.                                                             *)

\* Every variable has its type.
TypeOK ==
    /\ FetchTypeOK
    /\ maxConcurrentPeers \in Concurrency
    /\ job \in 0 .. NumJobs
    /\ at \in {"idle", "token", "slot", "receive", "store"}
    /\ next \in 1 .. (MaxPeers + 1)
    /\ limit \in [Jobs -> 0 .. MaxPeers]
    /\ running \subseteq Fetches
    /\ \A j \in Jobs : Len(resultCh[j]) <= 1
    /\ closed \subseteq Jobs /\ cancelled \subseteq {Root} \cup Jobs
    /\ outcome \in [Jobs -> {"open", "nothing", "metadata"}]
    /\ info \in [Jobs -> Content]

\* What the worker goes on with is the info dictionary of its own infohash, whatever
\* the peers sent, in whatever pieces, and whichever fetch came first.
ResultIsTheTorrents ==
    /\ TypeOK
    /\ \A j \in Jobs : outcome[j] = "metadata" => info[j] = InfoSize

\* The worker gives an infohash up only when every peer it may ask was asked and
\* failed and none of the fetches runs any more: no result is lost between the
\* dispatch, the channel of one and its closing.  (Unless the process is stopping,
\* when peers may be left out.)
NothingMeansAllFailed ==
    \A j \in Jobs :
        outcome[j] = "nothing" =>
            \A i \in 1 .. limit[j] :
                /\ <<j, i>> \notin running
                /\ fetch[<<j, i>>].at = "failed" \/ (Stopping /\ fetch[<<j, i>>].at = "idle")

\* Nobody can send on a closed channel, which panics.
ClosedWhenAllReturned == \A j \in closed : Live(j) = {}

\* process returns for every infohash and every fetch ends, stopped or not, although
\* peers may be silent or send messages that are skipped for ever.
ProcessReturns ==
    /\ \A j \in Jobs : (job = j) ~> (outcome[j] # "open")
    /\ \A f \in Fetches : (f \in running) ~> (f \notin running)

=============================================================================
