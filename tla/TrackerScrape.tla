---------------------------- MODULE TrackerScrape ----------------------------
(***************************************************************************)
(* One call of Client.Scrape (scrape/client.go): the trackers are asked    *)
(* in a random order over UDP (BEP 15), each with a connect request and    *)
(* one scrape request per batch of infohashes, until one reports a seeder. *)
(*                                                                         *)
(* An answer carries counts without their infohashes: they are matched by  *)
(* position.  Datagrams are lost, delayed, duplicated and cut short, but   *)
(* every tracker has a socket of its own.  Transaction IDs are random; two *)
(* of a connection are taken to differ.                                    *)
(***************************************************************************)
EXTENDS Integers, Sequences, FiniteSets, SequencesExt

CONSTANTS
    Trackers,
    NumInfohashes,  \* torrents of the call
    BatchSize       \* maxPerBatch

ASSUME TrackerAssumption ==
    /\ Trackers # {}
    /\ {NumInfohashes, BatchSize} \subseteq Nat \ {0}

Infohashes == 1 .. NumInfohashes

NumBatches == (NumInfohashes + BatchSize - 1) \div BatchSize

\* The infohashes of batch b, in order.
Batch(b) == [i \in 1 .. (IF b < NumBatches THEN BatchSize ELSE NumInfohashes - (b - 1) * BatchSize)
               |-> (b - 1) * BatchSize + i]

NoTracker == "none"

VARIABLES
    seeded,     \* environment: the torrents each tracker knows seeders of
    asked,      \* trackers tried so far
    tracker,    \* the tracker being asked
    batch,      \* its request: 0 is connect, then the batches; also the transaction ID
    sent,       \* the request has been sent, its answer is read
    network,    \* answers on their way to this connection's socket
    results,    \* results from this tracker so far
    last,       \* lastResults and the tracker they are from
    answered,   \* trackers that answered every request (reachable is their number)
    seeding,    \* history: those of them whose answer named a seeder
    ctxDone,    \* the context has ended
    verdict     \* "open", "results" or "error"

connVars == <<batch, sent, network, results>>
scrapeVars == <<seeded, asked, tracker, connVars, last, answered, seeding, ctxDone, verdict>>

ScrapeInit ==
    /\ seeded \in [Trackers -> SUBSET Infohashes]
    /\ asked = {} /\ tracker = NoTracker
    /\ batch = 0 /\ sent = FALSE /\ network = {} /\ results = <<>>
    /\ last = [from |-> NoTracker, results |-> <<>>]
    /\ answered = {} /\ seeding = {}
    /\ ctxDone = FALSE
    /\ verdict = "open"

Asking == verdict = "open" /\ tracker # NoTracker

\* A result: the infohash it is filed under and the one the tracker counted.
Result(ih, count) == [infohash |-> ih, counted |-> count]

HasSeeders(t, rs) == \E i \in DOMAIN rs : rs[i].counted \in seeded[t]

\* The next tracker: dialled or not.
DialTracker(t) ==
    /\ verdict = "open"
    /\ tracker = NoTracker
    /\ ~ ctxDone
    /\ t \notin asked
    /\ asked' = asked \cup {t}
    /\ tracker' \in {t, NoTracker}
    /\ batch' = 0 /\ sent' = FALSE /\ network' = {} /\ results' = <<>>
    /\ UNCHANGED <<seeded, last, answered, seeding, ctxDone, verdict>>

\* The connect request or the next batch; the tracker may answer it, in whole or in
\* part, or with an error.  A write that fails comes to the same as a Timeout.
Send ==
    /\ Asking
    /\ ~ sent
    /\ batch <= NumBatches
    /\ sent' = TRUE
    /\ \/ UNCHANGED network
       \/ network' = network \cup {[tx |-> batch, action |-> "error", counts |-> <<>>]}
       \/ /\ batch = 0
          /\ network' = network \cup {[tx |-> 0, action |-> "connect", counts |-> <<>>]}
       \/ /\ batch > 0
          /\ \E n \in 0 .. Len(Batch(batch)) :
               network' = network \cup {[tx |-> batch, action |-> "scrape",
                                         counts |-> SubSeq(Batch(batch), 1, n)]}
    /\ UNCHANGED <<seeded, asked, tracker, batch, results, last, answered, seeding, ctxDone, verdict>>

\* Gives this tracker up, with the results of earlier batches.
Abandon ==
    /\ tracker' = NoTracker
    /\ batch' = 0 /\ sent' = FALSE /\ network' = {} /\ results' = <<>>

\* Faulty variant: the transaction ID of an answer is not compared.
ExpectsAction(d) == d.action = IF batch = 0 THEN "connect" ELSE "scrape"

Expects(d) == d.tx = batch /\ d.action = IF batch = 0 THEN "connect" ELSE "scrape"

\* The counts that fit the buffer, filed by position.
Filed(d) ==
    [i \in 1 .. Min({Len(d.counts), Len(Batch(batch))}) |-> Result(Batch(batch)[i], d.counts[i])]

\* One datagram is read.  If it is not the answer expected the tracker is given up;
\* it may have been a duplicate of an earlier answer.
Read(d, again) ==
    /\ Asking
    /\ sent
    /\ d \in network
    /\ IF Expects(d)
       THEN /\ results' = results \o (IF batch = 0 THEN <<>> ELSE Filed(d))
            /\ batch' = batch + 1
            /\ sent' = FALSE
            /\ network' = IF again THEN network ELSE network \ {d}
            /\ UNCHANGED tracker
       ELSE Abandon
    /\ UNCHANGED <<seeded, asked, last, answered, seeding, ctxDone, verdict>>

\* Faulty variant: only the connect request has a deadline.
ConnectTimeout ==
    /\ Asking
    /\ sent
    /\ batch = 0
    /\ Abandon
    /\ UNCHANGED <<seeded, asked, last, answered, seeding, ctxDone, verdict>>

\* The read timeout of an exchange.
Timeout ==
    /\ Asking
    /\ sent
    /\ Abandon
    /\ UNCHANGED <<seeded, asked, last, answered, seeding, ctxDone, verdict>>

Complete == Asking /\ batch > NumBatches

\* Faulty variant: the first tracker to answer is believed.
AcceptFirst ==
    /\ Complete
    /\ answered' = answered \cup {tracker}
    /\ seeding' = IF HasSeeders(tracker, results) THEN seeding \cup {tracker} ELSE seeding
    /\ last' = [from |-> tracker, results |-> results]
    /\ verdict' = "results"
    /\ Abandon
    /\ UNCHANGED <<seeded, asked, ctxDone>>

\* All batches are answered: with a seeder anywhere, that is the result.
Accept ==
    /\ Complete
    /\ answered' = answered \cup {tracker}
    /\ seeding' = IF HasSeeders(tracker, results) THEN seeding \cup {tracker} ELSE seeding
    /\ last' = [from |-> tracker, results |-> results]
    /\ verdict' = IF HasSeeders(tracker, results) THEN "results" ELSE "open"
    /\ Abandon
    /\ UNCHANGED <<seeded, asked, ctxDone>>

\* No tracker is left.
Exhausted ==
    /\ verdict = "open"
    /\ tracker = NoTracker
    /\ asked = Trackers
    /\ verdict' = IF answered = {} THEN "error" ELSE "results"
    /\ UNCHANGED <<seeded, asked, tracker, connVars, last, answered, seeding, ctxDone>>

\* The context is looked at between two trackers.
GiveUp ==
    /\ verdict = "open"
    /\ tracker = NoTracker
    /\ asked # Trackers
    /\ ctxDone
    /\ verdict' = "error"
    /\ UNCHANGED <<seeded, asked, tracker, connVars, last, answered, seeding, ctxDone>>

Cancel ==
    /\ ~ ctxDone
    /\ verdict = "open"
    /\ ctxDone' = TRUE
    /\ UNCHANGED <<seeded, asked, tracker, connVars, last, answered, seeding, verdict>>

Client ==
    \/ \E t \in Trackers : DialTracker(t)
    \/ Send
    \/ Timeout \/ Accept \/ Exhausted \/ GiveUp

ScrapeNext ==
    \/ Client
    \/ \E d \in network, again \in BOOLEAN : Read(d, again)
    \/ Cancel

\* The call goes on; deadlines pass; trackers and network owe nobody an answer.
ScrapeSpec == ScrapeInit /\ [][ScrapeNext]_scrapeVars /\ WF_scrapeVars(Client)

-----------------------------------------------------------------------------
(* Properties.                                                             *)

\* Every variable has its type.
ScrapeTypeOK ==
    /\ seeded \in [Trackers -> SUBSET Infohashes]
    /\ asked \subseteq Trackers /\ answered \subseteq asked /\ seeding \subseteq answered
    /\ tracker \in asked \cup {NoTracker}
    /\ batch \in 0 .. (NumBatches + 1) /\ sent \in BOOLEAN
    /\ ctxDone \in BOOLEAN
    /\ verdict \in {"open", "results", "error"}

\* A count is filed under the torrent it was given for, and every torrent has one
\* result at most, although answers are matched by position, may be short, and a
\* late duplicate of one batch can meet the next one's read.
CountsBelongToTorrents ==
    /\ ScrapeTypeOK
    /\ \A i, j \in DOMAIN results :
         /\ results[i].counted = results[i].infohash
         /\ i # j => results[i].infohash # results[j].infohash

\* What Scrape returns is the whole answer of one tracker that answered every request;
\* it names no seeder only after all trackers were asked and none of those that
\* answered in whole named one.  It fails only if none answered, or when cancelled.
SilentOnlyWithoutSeeders ==
    /\ verdict = "results" =>
         /\ last.from \in answered
         /\ last.from \notin seeding => asked = Trackers /\ seeding = {}
    /\ verdict = "error" => answered = {} \/ ctxDone

\* A call returns, whatever the trackers do.
ScrapeReturns == <>(verdict # "open")

=============================================================================
