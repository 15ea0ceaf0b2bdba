----------------------------- MODULE SampleQueue -----------------------------
(***************************************************************************)
(* From BEP-51 samples to discovered peers: the goroutines of a crawler's  *)
(* batch (dht/crawler/crawler.go processSamples) decode the samples of     *)
(* their responses, drop what the tiered filter has seen (dht/filter) and  *)
(* put the rest on the bounded queue; discovery workers (dht/crawler/      *)
(* discovery.go) look each infohash up and emit its peers to the indexer.  *)
(*                                                                         *)
(* The filter's two tiers are sets; a false positive of a Bloom filter is  *)
(* a choice.  The lookup itself is one step (see Lookup).                  *)
(***************************************************************************)
EXTENDS Integers, Sequences, FiniteSets

CONSTANTS
    Hashes,         \* infohashes
    Crawlers,
    Samplers,       \* the goroutines of the crawlers' batches
    CrawlerOf,      \* the crawler a goroutine belongs to
    Workers,        \* discovery workers
    MaxSamples,     \* bound: samples in a response
    QueueCap,       \* discovery_queue_size
    EmitCap,        \* discovery_buffer
    DropLimit       \* timeouts in one iteration before sends no longer wait (100)

None == "none"

ASSUME SampleQueueAssumption ==
    /\ CrawlerOf \in [Samplers -> Crawlers]
    /\ MaxSamples \in Nat \ {0}
    /\ QueueCap \in Nat /\ EmitCap \in Nat /\ DropLimit \in Nat
    /\ None \notin Hashes

Responses == UNION {[1..n -> Hashes] : n \in 0..MaxSamples}

VARIABLES
    active, previous,   \* the two tiers of the filter
    queue,              \* the shared DiscoveryWork channel
    drops,              \* droppedDiscoveries of each crawler
    inBatch,            \* goroutines in processSamples
    todo,               \* samples of its response a goroutine has yet to look at
    sending,            \* the infohash it is about to queue
    busy,               \* the infohash each discovery worker looks up
    discovered,         \* the channel to the indexer
    sinceAccepted       \* history: rotations since each infohash was last accepted, at most 2

filterVars  == <<active, previous>>
samplerVars == <<drops, inBatch, todo, sending>>
workerVars  == <<busy, discovered>>
sampleVars == <<filterVars, queue, samplerVars, workerVars, sinceAccepted>>

Known(h) == h \in active \cup previous

SampleInit ==
    /\ active = {} /\ previous = {}
    /\ queue = <<>>
    /\ drops = [c \in Crawlers |-> 0]
    /\ inBatch = {}
    /\ todo = [s \in Samplers |-> <<>>]
    /\ sending = [s \in Samplers |-> None]
    /\ busy = [w \in Workers |-> None]
    /\ discovered = <<>>
    /\ sinceAccepted = [h \in Hashes |-> 2]

-----------------------------------------------------------------------------
(* The crawler.                                                            *)

\* An iteration of crawl: the last batch is done, the count of drops starts
\* over and the next responses arrive, some of them with samples.
Iterate(c) ==
    LET mine == {s \in Samplers : CrawlerOf[s] = c} IN
    /\ mine \cap inBatch = {}
    /\ drops' = [drops EXCEPT ![c] = 0]
    /\ \E r \in [mine -> Responses] :
         /\ todo' = [s \in Samplers |-> IF s \in mine THEN r[s] ELSE todo[s]]
         /\ inBatch' = inBatch \cup {s \in mine : r[s] # <<>>}
    /\ UNCHANGED <<filterVars, queue, sending, workerVars, sinceAccepted>>

\* SeenOrAdd of the next sample: refused if either tier knows it, or seems to.
Refuse(s) ==
    /\ sending[s] = None
    /\ todo[s] # <<>>
    /\ todo' = [todo EXCEPT ![s] = Tail(@)]
    /\ UNCHANGED <<filterVars, queue, drops, inBatch, sending, workerVars, sinceAccepted>>

\* Faulty variant: the test and the insertion are not one step.
AcceptWithoutAdding(s) ==
    LET h == Head(todo[s]) IN
    /\ sending[s] = None
    /\ todo[s] # <<>>
    /\ ~ Known(h)
    /\ todo' = [todo EXCEPT ![s] = Tail(@)]
    /\ sending' = [sending EXCEPT ![s] = h]
    /\ sinceAccepted' = [sinceAccepted EXCEPT ![h] = 0]
    /\ UNCHANGED <<filterVars, queue, drops, inBatch, workerVars>>

\* An unknown one is entered in the active tier and will be queued.
Accept(s) ==
    LET h == Head(todo[s]) IN
    /\ sending[s] = None
    /\ todo[s] # <<>>
    /\ ~ Known(h)
    /\ active' = active \cup {h}
    /\ todo' = [todo EXCEPT ![s] = Tail(@)]
    /\ sending' = [sending EXCEPT ![s] = h]
    /\ sinceAccepted' = [sinceAccepted EXCEPT ![h] = 0]
    /\ UNCHANGED <<previous, queue, drops, inBatch, workerVars>>

\* Faulty variant: one too many.
RoomForOneMore == Len(queue) <= QueueCap

Room == Len(queue) < QueueCap

Send(s) ==
    /\ sending[s] # None
    /\ Room
    /\ queue' = Append(queue, sending[s])
    /\ sending' = [sending EXCEPT ![s] = None]
    /\ UNCHANGED <<filterVars, drops, inBatch, todo, workerVars, sinceAccepted>>

\* Faulty variant: a full queue is waited for.
WaitForRoom(s) == Send(s)

\* sampleEnqueueTimeout passes first.  The infohash is dropped; once the
\* crawler has timed out too often in this iteration, it is offered once more.
TimeOut(s) ==
    LET c == CrawlerOf[s]
        h == sending[s]
    IN
    /\ h # None
    /\ drops' = [drops EXCEPT ![c] = @ + 1]
    /\ sending' = [sending EXCEPT ![s] = None]
    /\ queue' = IF drops'[c] > DropLimit /\ Room THEN Append(queue, h) ELSE queue
    /\ UNCHANGED <<filterVars, inBatch, todo, workerVars, sinceAccepted>>

\* All samples are worked off; the counts go to the metrics.
SamplerReturns(s) ==
    /\ s \in inBatch
    /\ todo[s] = <<>>
    /\ sending[s] = None
    /\ inBatch' = inBatch \ {s}
    /\ UNCHANGED <<filterVars, queue, drops, todo, sending, workerVars, sinceAccepted>>

Sampling(s) == Refuse(s) \/ Accept(s) \/ Send(s) \/ TimeOut(s) \/ SamplerReturns(s)

-----------------------------------------------------------------------------
(* The filter's ticker, the discovery workers, announces and the indexer.  *)

Older(ages) == [h \in Hashes |-> IF ages[h] < 2 THEN ages[h] + 1 ELSE 2]

\* The tier that was active becomes the previous one, which is forgotten.
Rotate ==
    /\ previous' = active
    /\ active' = {}
    /\ sinceAccepted' = Older(sinceAccepted)
    /\ UNCHANGED <<queue, samplerVars, workerVars>>

Take(w) ==
    /\ busy[w] = None
    /\ queue # <<>>
    /\ busy' = [busy EXCEPT ![w] = Head(queue)]
    /\ queue' = Tail(queue)
    /\ UNCHANGED <<filterVars, samplerVars, discovered, sinceAccepted>>

\* The lookup found no peers, or Emit finds the channel full, or queues them.
Finish(w) ==
    /\ busy[w] # None
    /\ busy' = [busy EXCEPT ![w] = None]
    /\ \/ UNCHANGED discovered
       \/ /\ Len(discovered) < EmitCap
          /\ discovered' = Append(discovered, busy[w])
    /\ UNCHANGED <<filterVars, queue, samplerVars, sinceAccepted>>

\* A peer announces itself to our server (handleAnnouncePeer): an infohash the
\* same filter does not know goes to the indexer at once, if there is room.
Announce(h) ==
    /\ ~ Known(h)
    /\ active' = active \cup {h}
    /\ discovered' = IF Len(discovered) < EmitCap THEN Append(discovered, h) ELSE discovered
    /\ sinceAccepted' = [sinceAccepted EXCEPT ![h] = 0]
    /\ UNCHANGED <<previous, queue, samplerVars, busy>>

\* An indexer worker takes the event.
Consume ==
    /\ discovered # <<>>
    /\ discovered' = Tail(discovered)
    /\ UNCHANGED <<filterVars, queue, samplerVars, busy, sinceAccepted>>

-----------------------------------------------------------------------------
SampleNext ==
    \/ \E c \in Crawlers : Iterate(c)
    \/ \E s \in Samplers : Sampling(s)
    \/ Rotate
    \/ \E w \in Workers : Take(w) \/ Finish(w)
    \/ \E h \in Hashes : Announce(h)
    \/ Consume

\* The goroutines of a batch keep running; nothing is assumed of the workers.
SampleSpec == SampleInit /\ [][SampleNext]_sampleVars /\ \A s \in Samplers : WF_sampleVars(Sampling(s))

-----------------------------------------------------------------------------
(* Properties.                                                             *)

\* Every variable has its type; the channels keep to their capacities.
SampleTypeOK ==
    /\ active \subseteq Hashes /\ previous \subseteq Hashes
    /\ queue \in Seq(Hashes) /\ Len(queue) <= QueueCap
    /\ drops \in [Crawlers -> Nat]
    /\ inBatch \subseteq Samplers
    /\ todo \in [Samplers -> Responses]
    /\ sending \in [Samplers -> Hashes \cup {None}]
    /\ busy \in [Workers -> Hashes \cup {None}]
    /\ discovered \in Seq(Hashes) /\ Len(discovered) <= EmitCap
    /\ sinceAccepted \in [Hashes -> 0..2]

\* An infohash accepted from any crawler or from an announce is not accepted
\* again before two rotations have passed: concurrent samplers never queue the
\* same one twice.
AcceptedOncePerTwoRotations ==
    /\ []SampleTypeOK
    /\ [][\A h \in Hashes, s \in Samplers :
             sending[s] # h /\ sending'[s] = h => sinceAccepted[h] = 2]_sampleVars

\* However slow discovery is, a response is worked off and the crawler's next
\* iteration is not held up.
ResponseIsWorkedOff == \A s \in Samplers : s \in inBatch ~> s \notin inBatch

=============================================================================
