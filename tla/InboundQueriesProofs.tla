------------------------ MODULE InboundQueriesProofs ------------------------
(***************************************************************************)
(* The invariants of InboundQueries, for any number of clients, infohashes *)
(* and query workers, any queues and any number of rotations.              *)
(***************************************************************************)
EXTENDS InboundQueries, SequenceTheorems, TLAPS

-----------------------------------------------------------------------------
(* The inductive invariant.                                                *)

\* Tokens made so far: the secrets of the future have made none.
Issued == {t \in Token : t.secret <= rotations}

\* Clients send tokens they were handed, or make one up.
Announced == [q : {"announce_peer"}, ip : IPs, hash : Hashes, token : tokens \cup {Forged}]
Sent == GetPeers \cup Other \cup Announced
Given == [y : {"r", "e"}, tokens : SUBSET Issued]

HolderSteps == {"store", "dedup", "announce"}
Answering == [step |-> "respond"]

\* What a worker can be doing: a query, or a peer past the token.
Doing ==
    {Idle, Answering}
      \cup [step : {"get_peers"}, query : GetPeers] \cup [step : {"other"}, query : Other]
      \cup [step : {"announce_peer"}, query : Announced]
      \cup [step : HolderSteps, peer : Hashes \X IPs]

QueuesOK ==
    /\ handlers \in Seq(Sent) /\ Len(handlers) <= HandlersCap
    /\ outbound \in Seq(Given) /\ Len(outbound) <= OutboundCap
    /\ discovered \in Seq(Hashes \X IPs) /\ Len(discovered) <= DiscoveredCap
    /\ tokens \subseteq Issued
    /\ worker \in [Workers -> Doing]

SecretsOK ==
    /\ rotations \in 0..MaxTicks
    /\ secret = [current |-> rotations, previous |-> rotations - 1]

\* Whoever is in the store, or about to be, was handed a token.
StoreOK ==
    /\ peerStore \subseteq Hashes \X IPs
    /\ \A p \in peerStore : \E t \in tokens : t.ip = p[2]
    /\ \A w \in Workers : worker[w].step = "store" => \E t \in tokens : t.ip = worker[w].peer[2]

Apart(s, t) == s + 2 <= t \/ t + 2 <= s

\* The filter knows h from turn t for two turns.
Remembered(h, t) ==
    /\ t <= turns
    /\ t = turns => h \in active
    /\ t + 1 = turns => h \in previous

\* What the filter let past it remembers, and so it was two turns from anything else.
FilterOK ==
    /\ active \subseteq Hashes /\ previous \subseteq Hashes
    /\ turns \in 0..MaxTicks /\ acceptedAt \in [Workers -> 0..MaxTicks]
    /\ \A w \in Workers :
         worker[w].step = "announce" => Remembered(worker[w].peer[1], acceptedAt[w])
    /\ \A v, w \in Workers :
         v # w /\ worker[v].step = "announce" /\ worker[w].step = "announce"
         /\ worker[v].peer[1] = worker[w].peer[1] => Apart(acceptedAt[v], acceptedAt[w])

EventsOK ==
    /\ events \in Seq([hash : Hashes, turn : 0..MaxTicks])
    /\ \A i \in DOMAIN events : Remembered(events[i].hash, events[i].turn)
    /\ \A i, j \in DOMAIN events :
         i # j /\ events[i].hash = events[j].hash => Apart(events[i].turn, events[j].turn)
    /\ \A w \in Workers, i \in DOMAIN events :
         worker[w].step = "announce" /\ events[i].hash = worker[w].peer[1] =>
            Apart(events[i].turn, acceptedAt[w])

IInv == QueuesOK /\ SecretsOK /\ StoreOK /\ FilterOK /\ EventsOK

-----------------------------------------------------------------------------
(* Workers, queues and tokens.                                             *)

LEMMA Caps == HandlersCap \in Nat /\ OutboundCap \in Nat /\ DiscoveredCap \in Nat /\ MaxTicks \in Nat
BY InboundAssumption

\* A worker past the token holds a peer.
LEMMA Holds ==
    ASSUME QueuesOK, NEW w \in Workers, worker[w].step \in HolderSteps
    PROVE  worker[w] \in [step : HolderSteps, peer : Hashes \X IPs]
<1>1. worker[w] \in Doing
  BY DEF QueuesOK
<1> QED BY <1>1 DEF Doing, Idle, Answering, HolderSteps

\* A worker takes up something else.
LEMMA Turned ==
    ASSUME QueuesOK, NEW w \in Workers, NEW what \in Doing, worker' = [worker EXCEPT ![w] = what]
    PROVE  /\ worker' \in [Workers -> Doing] /\ worker'[w] = what
           /\ \A v \in Workers : v # w => worker'[v] = worker[v]
BY DEF QueuesOK

\* It goes on to another step with its peer.
LEMMA Moved ==
    ASSUME QueuesOK, NEW w \in Workers, worker[w].step \in HolderSteps,
           NEW s \in HolderSteps, Moves(w, s)
    PROVE  /\ worker' \in [Workers -> Doing]
           /\ worker'[w].step = s /\ worker'[w].peer = worker[w].peer
           /\ \A v \in Workers : v # w => worker'[v] = worker[v]
<1> DEFINE what == [worker[w] EXCEPT !.step = s]
<1>1. worker[w] \in [step : HolderSteps, peer : Hashes \X IPs]
  BY Holds
<1>2. what \in [step : HolderSteps, peer : Hashes \X IPs] /\ what.step = s /\ what.peer = worker[w].peer
  BY <1>1
<1>3. what \in Doing
  BY <1>2 DEF Doing
<1>4. worker' = [worker EXCEPT ![w] = what]
  BY DEF QueuesOK, Moves
<1> HIDE DEF what
<1> QED BY <1>2, <1>3, <1>4, Turned

LEMMA Answered ==
    ASSUME QueuesOK, NEW w \in Workers, Answers(w)
    PROVE  /\ worker' \in [Workers -> Doing]
           /\ worker'[w] = Answering /\ worker'[w].step = "respond"
           /\ \A v \in Workers : v # w => worker'[v] = worker[v]
<1>1. Answering \in Doing /\ Answering.step = "respond"
  BY DEF Doing, Answering
<1>2. worker' = [worker EXCEPT ![w] = Answering]
  BY DEF Answers, Answering
<1> QED BY <1>1, <1>2, Turned

LEMMA Finished ==
    ASSUME QueuesOK, NEW w \in Workers, Finishes(w)
    PROVE  /\ worker' \in [Workers -> Doing]
           /\ worker'[w] = Idle /\ worker'[w].step = "idle"
           /\ \A v \in Workers : v # w => worker'[v] = worker[v]
<1>1. Idle \in Doing /\ Idle.step = "idle"
  BY DEF Doing, Idle
<1>2. worker' = [worker EXCEPT ![w] = Idle]
  BY DEF Finishes
<1> QED BY <1>1, <1>2, Turned

\* What happens to a queue.
LEMMA Queued ==
    ASSUME NEW S, NEW s \in Seq(S), NEW x \in S
    PROVE  /\ Append(s, x) \in Seq(S) /\ Len(Append(s, x)) = Len(s) + 1
           /\ s # <<>> => Head(s) \in S /\ Tail(s) \in Seq(S) /\ Len(Tail(s)) = Len(s) - 1
           /\ Len(s) \in Nat
BY LenProperties, HeadTailProperties

LEMMA Dequeued ==
    ASSUME NEW S, NEW s \in Seq(S), s # <<>>
    PROVE  Head(s) \in S /\ Tail(s) \in Seq(S) /\ Len(Tail(s)) = Len(s) - 1 /\ Len(s) \in Nat
BY LenProperties, HeadTailProperties

LEMMA Responded ==
    ASSUME QueuesOK, NEW y \in {"r", "e"}, NEW ts \in SUBSET Issued, Respond(y, ts)
    PROVE  outbound' \in Seq(Given) /\ Len(outbound') <= OutboundCap
<1>1. [y |-> y, tokens |-> ts] \in Given
  BY DEF Given
<1>2. outbound \in Seq(Given) /\ Len(outbound) <= OutboundCap
  BY DEF QueuesOK
<1>3. /\ Append(outbound, [y |-> y, tokens |-> ts]) \in Seq(Given)
      /\ Len(Append(outbound, [y |-> y, tokens |-> ts])) = Len(outbound) + 1
      /\ Len(outbound) \in Nat
  BY <1>1, <1>2, Queued
<1> QED BY <1>2, <1>3, Caps DEF Respond

\* While no secret is made and no token handed out, the tokens stay the same.
LEMMA SameTokens ==
    ASSUME UNCHANGED <<rotations, tokens>>
    PROVE  /\ Issued' = Issued /\ Announced' = Announced /\ Sent' = Sent
           /\ Given' = Given /\ Doing' = Doing
BY DEF Issued, Announced, Sent, Given, Doing

LEMMA EventTyped ==
    ASSUME EventsOK, NEW i \in DOMAIN events
    PROVE  /\ events[i].turn \in 0..MaxTicks
           /\ Remembered(events[i].hash, events[i].turn)
<1>1. events \in Seq([hash : Hashes, turn : 0..MaxTicks]) /\ Remembered(events[i].hash, events[i].turn)
  BY DEF EventsOK
<1>2. events[i] \in [hash : Hashes, turn : 0..MaxTicks]
  BY <1>1, ElementOfSeq, LenProperties
<1> QED BY <1>1, <1>2

LEMMA SecretStays ==
    ASSUME SecretsOK, UNCHANGED <<secret, rotations>>
    PROVE  SecretsOK'
BY DEF SecretsOK

\* A step with which no worker comes to be past the filter.
LEMMA FilterStays ==
    ASSUME FilterOK, EventsOK, UNCHANGED <<filterVars, events>>,
           \A w \in Workers : worker'[w].step = "announce" => worker'[w] = worker[w]
    PROVE  FilterOK' /\ EventsOK'
<1>1. UNCHANGED <<active, previous, turns, acceptedAt, events>>
  BY DEF filterVars
<1>2. FilterOK'
  BY <1>1 DEF FilterOK, Remembered
<1>3. EventsOK'
  BY <1>1 DEF EventsOK, Remembered
<1> QED BY <1>2, <1>3

\* A step with which no worker comes to hold a peer before the store or past the filter.
LEMMA AnnouncesStay ==
    ASSUME StoreOK, FilterOK, EventsOK, UNCHANGED <<filterVars, events>>,
           peerStore' \subseteq peerStore, tokens \subseteq tokens',
           \A w \in Workers :
              worker'[w].step \in {"store", "announce"} => worker'[w] = worker[w]
    PROVE  StoreOK' /\ FilterOK' /\ EventsOK'
<1>1. StoreOK'
  BY DEF StoreOK
<1> QED BY <1>1, FilterStays

-----------------------------------------------------------------------------
(* The steps.                                                              *)

LEMMA ReceiveKeeps == ASSUME IInv, Receive PROVE IInv'
<1>1. PICK query \in GetPeers \cup Other \cup {a \in AnnouncePeer : a.token \in tokens \cup {Forged}} :
        handlers' = Append(handlers, query)
  BY DEF Receive
<1>2. /\ Len(handlers) < HandlersCap
      /\ UNCHANGED <<worker, secret, peerStore, filterVars, discovered, outbound, tokens, rotations, events>>
  BY DEF Receive, serverVars, history
<1>3. query \in Sent
  BY <1>1 DEF Sent, AnnouncePeer, Announced
<1>4. handlers' \in Seq(Sent) /\ Len(handlers') <= HandlersCap
  <2>1. handlers \in Seq(Sent)
    BY DEF IInv, QueuesOK
  <2>2. /\ Append(handlers, query) \in Seq(Sent) /\ Len(Append(handlers, query)) = Len(handlers) + 1
        /\ Len(handlers) \in Nat
    BY <1>3, <2>1, Queued
  <2> QED BY <1>1, <1>2, <2>2, Caps
<1>5. QueuesOK'
  BY <1>2, <1>4, SameTokens DEF IInv, QueuesOK
<1>6. SecretsOK' /\ StoreOK' /\ FilterOK' /\ EventsOK'
  BY <1>2, SecretStays, AnnouncesStay DEF IInv
<1> QED BY <1>5, <1>6 DEF IInv

\* A client may announce with one token more.
LEMMA WriteKeeps == ASSUME IInv, Write PROVE IInv'
<1>1. /\ outbound # <<>> /\ outbound' = Tail(outbound)
      /\ tokens' \in {tokens, tokens \cup Head(outbound).tokens}
      /\ UNCHANGED <<handlers, worker, secret, peerStore, filterVars, discovered, rotations, events>>
  BY DEF Write, serverVars, history
<1>2. /\ outbound \in Seq(Given) /\ Len(outbound) <= OutboundCap /\ tokens \subseteq Issued
      /\ handlers \in Seq(Sent) /\ worker \in [Workers -> Doing]
  BY DEF IInv, QueuesOK
<1>3. /\ Head(outbound) \in Given /\ outbound' \in Seq(Given)
      /\ Len(outbound') = Len(outbound) - 1 /\ Len(outbound) \in Nat
  BY <1>1, <1>2, Dequeued
<1>4. Len(outbound') <= OutboundCap
  BY <1>2, <1>3, Caps
<1>5. Issued' = Issued /\ Given' = Given
  BY <1>1 DEF Issued, Given
<1>6. tokens \subseteq tokens' /\ tokens' \subseteq Issued
  <2>1. Head(outbound).tokens \subseteq Issued
    BY <1>3 DEF Given
  <2> QED BY <1>1, <1>2, <2>1
<1>7. Sent \subseteq Sent' /\ Doing \subseteq Doing'
  <2>1. Announced \subseteq Announced'
    BY <1>6 DEF Announced
  <2> QED BY <2>1 DEF Sent, Doing
<1>8. handlers \in Seq(Sent') /\ worker \in [Workers -> Doing']
  BY <1>2, <1>7, SeqMonotonic
<1>9. QueuesOK'
  BY <1>1, <1>3, <1>4, <1>5, <1>6, <1>8 DEF IInv, QueuesOK
<1>10. SecretsOK' /\ StoreOK' /\ FilterOK' /\ EventsOK'
  BY <1>1, <1>6, SecretStays, AnnouncesStay DEF IInv
<1> QED BY <1>9, <1>10 DEF IInv

LEMMA TakeKeeps == ASSUME IInv, NEW w \in Workers, Take(w) PROVE IInv'
<1>1. /\ worker[w].step = "idle" /\ handlers # <<>>
      /\ handlers' = Tail(handlers)
      /\ UNCHANGED <<secret, peerStore, filterVars, discovered, outbound, tokens, rotations, events>>
      /\ \/ worker' = worker
         \/ worker' = [worker EXCEPT ![w] = [step |-> Head(handlers).q, query |-> Head(handlers)]]
  BY DEF Take, serverVars, history
<1>2. handlers \in Seq(Sent) /\ Len(handlers) <= HandlersCap /\ worker \in [Workers -> Doing]
  BY DEF IInv, QueuesOK
<1>3. /\ Head(handlers) \in Sent /\ handlers' \in Seq(Sent)
      /\ Len(handlers') = Len(handlers) - 1 /\ Len(handlers) \in Nat
  BY <1>1, <1>2, Dequeued
<1>4. Len(handlers') <= HandlersCap
  BY <1>2, <1>3, Caps
<1>5. /\ [step |-> Head(handlers).q, query |-> Head(handlers)] \in Doing
      /\ Head(handlers).q \in {"get_peers", "other", "announce_peer"}
  <2> DEFINE query == Head(handlers)
  <2>1. query \in GetPeers \/ query \in Other \/ query \in Announced
    BY <1>3 DEF Sent
  <2> HIDE DEF query
  <2>2. CASE query \in GetPeers
    <3>1. query.q = "get_peers"
      BY <2>2 DEF GetPeers
    <3> QED BY <2>2, <3>1 DEF Doing, query
  <2>3. CASE query \in Other
    <3>1. query.q = "other"
      BY <2>3 DEF Other
    <3> QED BY <2>3, <3>1 DEF Doing, query
  <2>4. CASE query \in Announced
    <3>1. query.q = "announce_peer"
      BY <2>4 DEF Announced
    <3> QED BY <2>4, <3>1 DEF Doing, query
  <2> QED BY <2>1, <2>2, <2>3, <2>4
<1>6. worker' \in [Workers -> Doing]
  BY <1>1, <1>2, <1>5
<1>7. \A v \in Workers :
        worker'[v].step \in {"store", "announce"} => worker'[v] = worker[v]
  BY <1>1, <1>2, <1>5
<1>8. QueuesOK'
  BY <1>1, <1>3, <1>4, <1>6, SameTokens DEF IInv, QueuesOK
<1>9. SecretsOK' /\ StoreOK' /\ FilterOK' /\ EventsOK'
  BY <1>1, <1>7, SecretStays, AnnouncesStay DEF IInv
<1> QED BY <1>8, <1>9 DEF IInv

\* A worker that answers, or does not, and is done.
LEMMA AnswerKeeps ==
    ASSUME IInv, NEW w \in Workers, Finishes(w),
           outbound' \in Seq(Given), Len(outbound') <= OutboundCap,
           UNCHANGED <<handlers, secret, serverVars, tokens, history>>
    PROVE  IInv'
<1>1. UNCHANGED <<handlers, secret, peerStore, filterVars, discovered, tokens, rotations, events>>
  BY DEF serverVars, history
<1>2. QueuesOK
  BY DEF IInv
<1>3. /\ worker' \in [Workers -> Doing] /\ worker'[w].step = "idle"
      /\ \A v \in Workers : v # w => worker'[v] = worker[v]
  BY <1>2, Finished
<1>4. QueuesOK'
  BY <1>1, <1>2, <1>3, SameTokens DEF QueuesOK
<1>5. \A v \in Workers :
        worker'[v].step \in {"store", "announce"} => worker'[v] = worker[v]
  BY <1>3
<1>6. SecretsOK' /\ StoreOK' /\ FilterOK' /\ EventsOK'
  BY <1>1, <1>5, SecretStays, AnnouncesStay DEF IInv
<1> QED BY <1>4, <1>6 DEF IInv

LEMMA HandleOtherKeeps == ASSUME IInv, NEW w \in Workers, HandleOther(w) PROVE IInv'
<1>1. /\ Finishes(w) /\ UNCHANGED <<handlers, secret, serverVars, tokens, history>>
      /\ UNCHANGED outbound \/ Respond("r", {}) \/ Respond("e", {})
  BY DEF HandleOther
<1>2. {} \in SUBSET Issued /\ QueuesOK
  BY DEF IInv
<1>3. outbound' \in Seq(Given) /\ Len(outbound') <= OutboundCap
  BY <1>1, <1>2, Responded DEF QueuesOK
<1> QED BY <1>1, <1>3, AnswerKeeps

\* The token handed out is made from the current secret.
LEMMA HandleGetPeersKeeps == ASSUME IInv, NEW w \in Workers, HandleGetPeers(w) PROVE IInv'
<1>1. /\ worker[w].step = "get_peers" /\ Finishes(w)
      /\ Respond("r", {TokenFor(worker[w].query.ip, secret.current)})
      /\ UNCHANGED <<handlers, secret, serverVars, tokens, history>>
  BY DEF HandleGetPeers
<1>2. QueuesOK /\ SecretsOK
  BY DEF IInv
<1>3. worker[w].query.ip \in IPs
  <2>1. worker[w] \in Doing
    BY <1>2 DEF QueuesOK
  <2>2. worker[w] \in [step : {"get_peers"}, query : GetPeers]
    BY <1>1, <2>1 DEF Doing, Idle, Answering, HolderSteps
  <2> QED BY <2>2 DEF GetPeers
<1>4. TokenFor(worker[w].query.ip, secret.current) \in Issued
  BY <1>2, <1>3, Caps DEF SecretsOK, TokenFor, Issued, Token
<1>5. outbound' \in Seq(Given) /\ Len(outbound') <= OutboundCap
  BY <1>1, <1>2, <1>4, Responded
<1> QED BY <1>1, <1>5, AnswerKeeps

LEMMA RejectKeeps == ASSUME IInv, NEW w \in Workers, Reject(w) PROVE IInv'
<1>1. /\ Finishes(w) /\ UNCHANGED <<handlers, secret, serverVars, tokens, history>>
      /\ Respond("e", {})
  BY DEF Reject
<1>2. {} \in SUBSET Issued /\ QueuesOK
  BY DEF IInv
<1> QED BY <1>1, <1>2, Responded, AnswerKeeps

LEMMA AcknowledgeKeeps == ASSUME IInv, NEW w \in Workers, Acknowledge(w) PROVE IInv'
<1>1. /\ Finishes(w) /\ UNCHANGED <<handlers, secret, serverVars, tokens, history>>
      /\ Respond("r", {})
  BY DEF Acknowledge
<1>2. {} \in SUBSET Issued /\ QueuesOK
  BY DEF IInv
<1> QED BY <1>1, <1>2, Responded, AnswerKeeps

\* An announce_peer that is handled bears a token that was handed out, or none at all.
LEMMA AtAnnouncePeer ==
    ASSUME QueuesOK, NEW w \in Workers, worker[w].step = "announce_peer"
    PROVE  worker[w].query \in Announced
<1>1. worker[w] \in Doing
  BY DEF QueuesOK
<1> QED BY <1>1 DEF Doing, Idle, Answering, HolderSteps

\* The steps of announce_peer that leave the queues of queries and answers alone.
LEMMA AnnounceStepKeeps ==
    ASSUME IInv, worker' \in [Workers -> Doing], StoreOK', FilterOK', EventsOK',
           discovered' \in Seq(Hashes \X IPs), Len(discovered') <= DiscoveredCap,
           UNCHANGED <<handlers, secret, outbound, tokens, rotations>>
    PROVE  IInv'
<1>1. QueuesOK'
  BY SameTokens DEF IInv, QueuesOK
<1>2. SecretsOK'
  BY SecretStays DEF IInv
<1> QED BY <1>1, <1>2 DEF IInv

LEMMA IgnoreKeeps == ASSUME IInv, NEW w \in Workers, Ignore(w) PROVE IInv'
<1>1. /\ Answers(w)
      /\ UNCHANGED <<handlers, secret, peerStore, filterVars, discovered, outbound, tokens, rotations, events>>
  BY DEF Ignore, serverVars, history
<1>2. QueuesOK
  BY DEF IInv
<1>3. /\ worker' \in [Workers -> Doing] /\ worker'[w].step = "respond"
      /\ \A v \in Workers : v # w => worker'[v] = worker[v]
  BY <1>1, <1>2, Answered
<1>4. \A v \in Workers :
        worker'[v].step \in {"store", "announce"} => worker'[v] = worker[v]
  BY <1>3
<1>5. StoreOK' /\ FilterOK' /\ EventsOK'
  BY <1>1, <1>4, AnnouncesStay DEF IInv
<1>6. discovered' \in Seq(Hashes \X IPs) /\ Len(discovered') <= DiscoveredCap
  BY <1>1, <1>2 DEF QueuesOK
<1> QED BY <1>1, <1>3, <1>5, <1>6, AnnounceStepKeeps

\* A valid token is no forgery, and its address is the client's.
LEMMA AcceptKeeps == ASSUME IInv, NEW w \in Workers, Accept(w) PROVE IInv'
<1> DEFINE query == worker[w].query
           holder == [step |-> "store", peer |-> <<query.hash, query.ip>>]
<1>1. /\ worker[w].step = "announce_peer" /\ Valid(query.ip, query.token)
      /\ worker' = [worker EXCEPT ![w] = holder]
      /\ UNCHANGED <<handlers, secret, peerStore, filterVars, discovered, outbound, tokens, rotations, events>>
  BY DEF Accept, serverVars, history
<1>2. QueuesOK
  BY DEF IInv
<1>3. query \in Announced
  BY <1>1, <1>2, AtAnnouncePeer
<1>4. query.hash \in Hashes /\ query.ip \in IPs /\ query.token \in tokens \cup {Forged}
  BY <1>3 DEF Announced
<1>5. query.token \in tokens /\ query.token.ip = query.ip
  <2>1. query.token.ip = query.ip /\ query.token.secret \in {secret.current, secret.previous}
    BY <1>1 DEF Valid, TokenFor
  <2>2. \A s \in {secret.current, secret.previous} : s # NoSecret - 1
    BY Caps DEF IInv, SecretsOK, NoSecret
  <2>3. query.token # Forged
    BY <2>1, <2>2 DEF Forged
  <2> QED BY <1>4, <2>1, <2>3
<1>6. /\ holder \in [step : HolderSteps, peer : Hashes \X IPs]
      /\ holder.step = "store" /\ holder.peer[2] = query.ip
  BY <1>4 DEF HolderSteps
<1>7. holder \in Doing
  BY <1>6 DEF Doing
<1> HIDE DEF query, holder
<1>8. /\ worker' \in [Workers -> Doing] /\ worker'[w] = holder
      /\ \A v \in Workers : v # w => worker'[v] = worker[v]
  BY <1>1, <1>2, <1>7, Turned
<1>9. \A v \in Workers : worker'[v].step = "announce" => worker'[v] = worker[v]
  BY <1>6, <1>8
<1>10. StoreOK'
  <2>1. StoreOK
    BY DEF IInv
  <2> SUFFICES ASSUME NEW v \in Workers, worker'[v].step = "store"
               PROVE  \E t \in tokens : t.ip = worker'[v].peer[2]
    BY <1>1, <2>1 DEF StoreOK
  <2>2. CASE v = w
    BY <1>5, <1>6, <1>8, <2>2
  <2>3. CASE v # w
    BY <1>8, <2>1, <2>3 DEF StoreOK
  <2> QED BY <2>2, <2>3
<1>11. FilterOK' /\ EventsOK'
  BY <1>1, <1>9, FilterStays DEF IInv
<1>12. discovered' \in Seq(Hashes \X IPs) /\ Len(discovered') <= DiscoveredCap
  BY <1>1, <1>2 DEF QueuesOK
<1> QED BY <1>1, <1>8, <1>10, <1>11, <1>12, AnnounceStepKeeps

\* The store gains none but the peer that is held, whatever it drops.
LEMMA StoreKeeps == ASSUME IInv, NEW w \in Workers, Store(w) PROVE IInv'
<1> DEFINE peer == worker[w].peer
<1>1. /\ worker[w].step = "store" /\ AddPeer(peer) /\ Moves(w, "dedup")
      /\ UNCHANGED <<handlers, secret, filterVars, discovered, outbound, tokens, rotations, events>>
  BY DEF Store, history
<1>2. worker[w].step \in HolderSteps /\ "dedup" \in HolderSteps
  BY <1>1 DEF HolderSteps
<1>3. QueuesOK /\ StoreOK
  BY DEF IInv
<1>4. /\ worker' \in [Workers -> Doing] /\ worker'[w].step = "dedup"
      /\ \A v \in Workers : v # w => worker'[v] = worker[v]
  BY <1>1, <1>2, <1>3, Moved
<1>5. peer \in Hashes \X IPs /\ \E t \in tokens : t.ip = peer[2]
  BY <1>1, <1>2, <1>3, Holds DEF StoreOK
<1> HIDE DEF peer
<1>6. peerStore' \subseteq peerStore \cup {peer}
  BY <1>1 DEF AddPeer
<1>7. \A v \in Workers :
        worker'[v].step \in {"store", "announce"} => worker'[v] = worker[v]
  BY <1>4
<1>8. StoreOK'
  <2>1. peerStore' \subseteq Hashes \X IPs
    BY <1>3, <1>5, <1>6 DEF StoreOK
  <2>2. \A p \in peerStore' : \E t \in tokens : t.ip = p[2]
    BY <1>3, <1>5, <1>6 DEF StoreOK
  <2> QED BY <1>1, <1>3, <1>7, <2>1, <2>2 DEF StoreOK
<1>9. FilterOK' /\ EventsOK'
  BY <1>1, <1>7, FilterStays DEF IInv
<1>10. discovered' \in Seq(Hashes \X IPs) /\ Len(discovered') <= DiscoveredCap
  BY <1>1, <1>3 DEF QueuesOK
<1> QED BY <1>1, <1>4, <1>8, <1>9, <1>10, AnnounceStepKeeps

\* The filter lets past only what it has not let past for two turns, and takes note of it
\* in the same step.
LEMMA DeduplicateKeeps == ASSUME IInv, NEW w \in Workers, Deduplicate(w) PROVE IInv'
<1> DEFINE h == worker[w].peer[1]
<1>1. /\ worker[w].step = "dedup"
      /\ UNCHANGED <<handlers, secret, peerStore, previous, turns, discovered, outbound, tokens, rotations,
                     events>>
  BY DEF Deduplicate, history
<1>2. QueuesOK /\ StoreOK /\ FilterOK /\ EventsOK
  BY DEF IInv
<1>3. discovered' \in Seq(Hashes \X IPs) /\ Len(discovered') <= DiscoveredCap
  BY <1>1, <1>2 DEF QueuesOK
<1>4. CASE Answers(w) /\ UNCHANGED <<active, acceptedAt>>
  <2>1. /\ worker' \in [Workers -> Doing] /\ worker'[w].step = "respond"
        /\ \A v \in Workers : v # w => worker'[v] = worker[v]
    BY <1>2, <1>4, Answered
  <2>2. \A v \in Workers :
          worker'[v].step \in {"store", "announce"} => worker'[v] = worker[v]
    BY <2>1
  <2>3. StoreOK' /\ FilterOK' /\ EventsOK'
    BY <1>1, <1>2, <1>4, <2>2, AnnouncesStay DEF filterVars
  <2> QED BY <1>1, <1>3, <2>1, <2>3, AnnounceStepKeeps
<1>5. CASE /\ h \notin active \cup previous /\ active' = active \cup {h}
           /\ acceptedAt' = [acceptedAt EXCEPT ![w] = turns] /\ Moves(w, "announce")
  <2>1. worker[w].step \in HolderSteps /\ "announce" \in HolderSteps
    BY <1>1 DEF HolderSteps
  <2>2. /\ worker' \in [Workers -> Doing]
        /\ worker'[w].step = "announce" /\ worker'[w].peer[1] = h
        /\ \A v \in Workers : v # w => worker'[v] = worker[v]
    BY <1>2, <1>5, <2>1, Moved
  <2>3. h \in Hashes
    BY <1>2, <2>1, Holds
  <2> HIDE DEF h
  <2>4. turns \in 0..MaxTicks /\ turns \in Int
    BY <1>2, Caps DEF FilterOK
  <2>5. /\ acceptedAt' \in [Workers -> 0..MaxTicks] /\ acceptedAt'[w] = turns
        /\ \A v \in Workers : v # w => acceptedAt'[v] = acceptedAt[v]
    BY <1>2, <1>5, <2>4 DEF FilterOK
  <2>6. \A t \in 0..MaxTicks : Remembered(h, t) => Apart(t, turns) /\ Apart(turns, t)
    BY <1>5, <2>4, Caps DEF Remembered, Apart
  <2>7. active \subseteq active' /\ h \in active'
    BY <1>5
  <2>8. StoreOK'
    BY <1>1, <1>2, <2>2 DEF StoreOK
  <2>9. FilterOK'
    <3>1. active' \subseteq Hashes /\ previous' \subseteq Hashes /\ turns' \in 0..MaxTicks
      BY <1>1, <1>2, <1>5, <2>3 DEF FilterOK
    <3>2. ASSUME NEW v \in Workers, worker'[v].step = "announce"
          PROVE  Remembered(worker[v].peer[1], acceptedAt[v])'
      <4>1. CASE v = w
        BY <1>1, <2>2, <2>4, <2>5, <2>7, <4>1 DEF Remembered
      <4>2. CASE v # w
        BY <1>1, <1>2, <2>2, <2>5, <2>7, <3>2, <4>2 DEF FilterOK, Remembered
      <4> QED BY <4>1, <4>2
    <3>3. ASSUME NEW v \in Workers, v # w, worker[v].step = "announce", worker[v].peer[1] = h
          PROVE  Apart(acceptedAt[v], turns) /\ Apart(turns, acceptedAt[v])
      <4>1. Remembered(h, acceptedAt[v]) /\ acceptedAt[v] \in 0..MaxTicks
        BY <1>2, <3>3 DEF FilterOK
      <4> QED BY <2>6, <4>1
    <3>4. ASSUME NEW u \in Workers, NEW v \in Workers, u # v, worker'[u].step = "announce",
                 worker'[v].step = "announce", worker'[u].peer[1] = worker'[v].peer[1]
          PROVE  Apart(acceptedAt[u], acceptedAt[v])'
      <4>1. CASE u = w
        BY <2>2, <2>5, <3>3, <3>4, <4>1 DEF Apart
      <4>2. CASE v = w
        BY <2>2, <2>5, <3>3, <3>4, <4>2 DEF Apart
      <4>3. CASE u # w /\ v # w
        BY <1>2, <2>2, <2>5, <3>4, <4>3 DEF FilterOK, Apart
      <4> QED BY <4>1, <4>2, <4>3
    <3> QED BY <2>5, <3>1, <3>2, <3>4 DEF FilterOK
  <2>10. EventsOK'
    <3>1. ASSUME NEW i \in DOMAIN events
          PROVE  Remembered(events[i].hash, events[i].turn) /\ events[i].turn \in 0..MaxTicks
      BY <1>2, EventTyped
    <3>2. ASSUME NEW i \in DOMAIN events PROVE Remembered(events[i].hash, events[i].turn)'
      BY <1>1, <2>7, <3>1 DEF Remembered
    <3>3. ASSUME NEW v \in Workers, NEW i \in DOMAIN events, worker'[v].step = "announce",
                 events[i].hash = worker'[v].peer[1]
          PROVE  Apart(events[i].turn, acceptedAt'[v])
      <4>1. CASE v = w
        BY <2>2, <2>5, <2>6, <3>1, <3>3, <4>1
      <4>2. CASE v # w
        BY <1>2, <2>2, <2>5, <3>3, <4>2 DEF EventsOK
      <4> QED BY <4>1, <4>2
    <3> QED BY <1>1, <1>2, <3>2, <3>3 DEF EventsOK, Apart
  <2> QED BY <1>1, <1>3, <2>2, <2>8, <2>9, <2>10, AnnounceStepKeeps
<1> QED BY <1>1, <1>4, <1>5 DEF Deduplicate

\* What is announced is as far from the other events as it was when the filter let it past.
LEMMA AnnounceKeeps == ASSUME IInv, NEW w \in Workers, Announce(w) PROVE IInv'
<1> DEFINE peer == worker[w].peer
           event == [hash |-> peer[1], turn |-> acceptedAt[w]]
<1>1. /\ worker[w].step = "announce" /\ Answers(w)
      /\ acceptedAt' = [acceptedAt EXCEPT ![w] = 0]
      /\ UNCHANGED <<handlers, secret, peerStore, active, previous, turns, outbound, tokens, rotations>>
      /\ \/ /\ Len(discovered) < DiscoveredCap
            /\ discovered' = Append(discovered, peer)
            /\ events' = Append(events, event)
         \/ UNCHANGED <<discovered, events>>
  BY DEF Announce
<1>2. QueuesOK /\ StoreOK /\ FilterOK /\ EventsOK
  BY DEF IInv
<1>3. /\ worker' \in [Workers -> Doing] /\ worker'[w].step = "respond"
      /\ \A v \in Workers : v # w => worker'[v] = worker[v]
  BY <1>1, <1>2, Answered
<1>4. peer \in Hashes \X IPs
  BY <1>1, <1>2, Holds DEF HolderSteps
<1>5. acceptedAt[w] \in 0..MaxTicks /\ Remembered(peer[1], acceptedAt[w])
  BY <1>1, <1>2 DEF FilterOK
<1>6. event \in [hash : Hashes, turn : 0..MaxTicks] /\ event.hash = peer[1] /\ event.turn = acceptedAt[w]
  BY <1>4, <1>5
<1>7. \A i \in DOMAIN events : events[i].hash = peer[1] => Apart(events[i].turn, acceptedAt[w])
  BY <1>1, <1>2 DEF EventsOK
<1>8. \A v \in Workers : v # w /\ worker[v].step = "announce" /\ worker[v].peer[1] = peer[1] =>
        Apart(acceptedAt[w], acceptedAt[v])
  BY <1>1, <1>2 DEF FilterOK
<1> HIDE DEF peer, event
<1>9. /\ acceptedAt' \in [Workers -> 0..MaxTicks]
      /\ \A v \in Workers : v # w => acceptedAt'[v] = acceptedAt[v]
  BY <1>1, <1>2, Caps DEF FilterOK
<1>10. \A v \in Workers : worker'[v].step \in {"store", "announce"} => v # w /\ worker'[v] = worker[v]
  BY <1>3
<1>11. StoreOK'
  BY <1>1, <1>2, <1>10 DEF StoreOK
<1>12. FilterOK'
  BY <1>1, <1>2, <1>9, <1>10 DEF FilterOK, Remembered, Apart
<1>13. EventsOK'
  <2>1. events \in Seq([hash : Hashes, turn : 0..MaxTicks])
    BY <1>2 DEF EventsOK
  <2>2. CASE events' = events
    BY <1>1, <1>2, <1>9, <1>10, <2>2 DEF EventsOK, Remembered, Apart
  <2>3. CASE events' = Append(events, event)
    <3>1. /\ events' \in Seq([hash : Hashes, turn : 0..MaxTicks])
          /\ DOMAIN events' = 1..(Len(events) + 1) /\ DOMAIN events = 1..Len(events) /\ Len(events) \in Nat
          /\ events'[Len(events) + 1] = event
          /\ \A i \in DOMAIN events : events'[i] = events[i]
      BY <1>6, <2>1, <2>3, AppendProperties, LenProperties
    <3> DEFINE last == Len(events) + 1
    <3>2. \A i \in DOMAIN events' : i = last \/ i \in DOMAIN events
      BY <3>1
    <3>3. \A i \in DOMAIN events : Remembered(events[i].hash, events[i].turn)
      BY <1>2, EventTyped
    <3> HIDE DEF last
    <3>4. events'[last] = event /\ last \notin DOMAIN events
      BY <3>1 DEF last
    <3>5. ASSUME NEW i \in DOMAIN events' PROVE Remembered(events[i].hash, events[i].turn)'
      <4>1. CASE i = last
        BY <1>1, <1>5, <1>6, <3>4, <4>1 DEF Remembered
      <4>2. CASE i \in DOMAIN events
        BY <1>1, <3>1, <3>3, <4>2 DEF Remembered
      <4> QED BY <3>2, <4>1, <4>2
    <3>6. ASSUME NEW i \in DOMAIN events', NEW j \in DOMAIN events', i # j,
                 events'[i].hash = events'[j].hash
          PROVE  Apart(events'[i].turn, events'[j].turn)
      <4>1. CASE i = last /\ j \in DOMAIN events
        BY <1>6, <1>7, <3>1, <3>4, <3>6, <4>1 DEF Apart
      <4>2. CASE i \in DOMAIN events /\ j = last
        BY <1>6, <1>7, <3>1, <3>4, <3>6, <4>2 DEF Apart
      <4>3. CASE i \in DOMAIN events /\ j \in DOMAIN events
        BY <1>2, <3>1, <3>6, <4>3 DEF EventsOK
      <4> QED BY <3>2, <3>6, <4>1, <4>2, <4>3
    <3>7. ASSUME NEW v \in Workers, NEW i \in DOMAIN events', worker'[v].step = "announce",
                 events'[i].hash = worker'[v].peer[1]
          PROVE  Apart(events'[i].turn, acceptedAt'[v])
      <4>1. v # w /\ worker'[v] = worker[v] /\ acceptedAt'[v] = acceptedAt[v]
        BY <1>9, <1>10, <3>7
      <4>2. CASE i = last
        BY <1>6, <1>8, <3>4, <3>7, <4>1, <4>2
      <4>3. CASE i \in DOMAIN events
        BY <1>2, <3>1, <3>7, <4>1, <4>3 DEF EventsOK
      <4> QED BY <3>2, <4>2, <4>3
    <3> QED BY <3>1, <3>5, <3>6, <3>7 DEF EventsOK, Apart
  <2> QED BY <1>1, <2>2, <2>3
<1>14. discovered' \in Seq(Hashes \X IPs) /\ Len(discovered') <= DiscoveredCap
  <2>1. discovered \in Seq(Hashes \X IPs) /\ Len(discovered) <= DiscoveredCap
    BY <1>2 DEF QueuesOK
  <2>2. /\ Append(discovered, peer) \in Seq(Hashes \X IPs)
        /\ Len(Append(discovered, peer)) = Len(discovered) + 1 /\ Len(discovered) \in Nat
    BY <1>4, <2>1, Queued
  <2> QED BY <1>1, <2>1, <2>2, Caps
<1> QED BY <1>1, <1>3, <1>11, <1>12, <1>13, <1>14, AnnounceStepKeeps

\* A new secret: the tokens made so far are a window older.
LEMMA RotateKeeps == ASSUME IInv, Rotate PROVE IInv'
<1>1. /\ rotations + turns < MaxTicks /\ rotations' = rotations + 1
      /\ secret' = [current |-> rotations', previous |-> secret.current]
      /\ UNCHANGED <<handlers, worker, peerStore, filterVars, discovered, outbound, tokens, events>>
  BY DEF Rotate, serverVars
<1>2. rotations \in 0..MaxTicks /\ turns \in 0..MaxTicks /\ secret.current = rotations
  BY DEF IInv, SecretsOK, FilterOK
<1>3. SecretsOK'
  <2>1. rotations' \in 0..MaxTicks /\ rotations' - 1 = rotations
    BY <1>1, <1>2, Caps
  <2> QED BY <1>1, <1>2, <2>1 DEF SecretsOK
<1>4. Issued \subseteq Issued'
  <2>1. \A t \in Token : t.secret \in 0..MaxTicks
    BY DEF Token
  <2> QED BY <1>1, <1>2, <2>1, Caps DEF Issued
<1>5. Sent' = Sent /\ Doing' = Doing /\ Given \subseteq Given'
  <2>1. Announced' = Announced
    BY <1>1 DEF Announced
  <2>2. Given \subseteq Given'
    BY <1>4 DEF Given
  <2> QED BY <2>1, <2>2 DEF Sent, Doing
<1>6. outbound \in Seq(Given')
  BY <1>5, SeqMonotonic DEF IInv, QueuesOK
<1>7. QueuesOK'
  BY <1>1, <1>4, <1>5, <1>6 DEF IInv, QueuesOK
<1>8. StoreOK' /\ FilterOK' /\ EventsOK'
  BY <1>1, AnnouncesStay DEF IInv
<1> QED BY <1>3, <1>7, <1>8 DEF IInv

\* What is held, no step of these touches.
LEMMA OthersKeep ==
    ASSUME IInv, StoreOK', FilterOK', EventsOK',
           discovered' \in Seq(Hashes \X IPs), Len(discovered') <= DiscoveredCap,
           UNCHANGED <<handlers, worker, secret, outbound, tokens, rotations>>
    PROVE  IInv'
<1>1. worker' \in [Workers -> Doing]
  BY DEF IInv, QueuesOK
<1> QED BY <1>1, AnnounceStepKeeps

\* The filter turns: the tier that becomes the previous one held what it let past in the
\* turn before.
LEMMA TurnKeeps == ASSUME IInv, Turn PROVE IInv'
<1>1. /\ rotations + turns < MaxTicks /\ turns' = turns + 1
      /\ previous' = active /\ active' = {}
      /\ UNCHANGED <<handlers, worker, secret, peerStore, acceptedAt, discovered, outbound, tokens,
                     rotations, events>>
  BY DEF Turn, history
<1>2. QueuesOK /\ SecretsOK /\ StoreOK /\ FilterOK /\ EventsOK
  BY DEF IInv
<1>3. turns \in 0..MaxTicks /\ turns' \in 0..MaxTicks
  BY <1>1, <1>2, Caps DEF FilterOK, SecretsOK
<1>4. \A k : \A t \in 0..MaxTicks : Remembered(k, t) =>
        t <= turns' /\ (t = turns' => k \in active') /\ (t + 1 = turns' => k \in previous')
  BY <1>1, <1>3, Caps DEF Remembered
<1>5. StoreOK'
  BY <1>1, <1>2 DEF StoreOK
<1>6. FilterOK'
  <2>1. \A w \in Workers : acceptedAt[w] \in 0..MaxTicks
    BY <1>2 DEF FilterOK
  <2>2. \A w \in Workers :
          worker'[w].step = "announce" => Remembered(worker[w].peer[1], acceptedAt[w])'
    <3>1. \A w \in Workers : worker[w].step = "announce" => Remembered(worker[w].peer[1], acceptedAt[w])
      BY <1>2 DEF FilterOK
    <3> SUFFICES ASSUME NEW w \in Workers, worker'[w].step = "announce"
                 PROVE  Remembered(worker[w].peer[1], acceptedAt[w])'
      OBVIOUS
    <3>2. Remembered(worker[w].peer[1], acceptedAt[w])
      BY <1>1, <3>1
    <3>3. /\ acceptedAt[w] <= turns' /\ (acceptedAt[w] = turns' => worker[w].peer[1] \in active')
          /\ (acceptedAt[w] + 1 = turns' => worker[w].peer[1] \in previous')
      BY <1>4, <2>1, <3>2
    <3> QED BY <1>1, <3>3 DEF Remembered
  <2> QED BY <1>1, <1>2, <1>3, <2>2 DEF FilterOK, Apart
<1>7. EventsOK'
  <2>1. ASSUME NEW i \in DOMAIN events PROVE Remembered(events[i].hash, events[i].turn)'
    <3>1. Remembered(events[i].hash, events[i].turn) /\ events[i].turn \in 0..MaxTicks
      BY <1>2, EventTyped
    <3>2. /\ events[i].turn <= turns' /\ (events[i].turn = turns' => events[i].hash \in active')
          /\ (events[i].turn + 1 = turns' => events[i].hash \in previous')
      BY <1>4, <3>1
    <3> QED BY <1>1, <3>2 DEF Remembered
  <2> QED BY <1>1, <1>2, <2>1 DEF EventsOK, Apart
<1>8. discovered' \in Seq(Hashes \X IPs) /\ Len(discovered') <= DiscoveredCap
  BY <1>1, <1>2 DEF QueuesOK
<1> QED BY <1>1, <1>5, <1>6, <1>7, <1>8, OthersKeep

LEMMA ForgetKeeps == ASSUME IInv, Forget PROVE IInv'
<1>1. /\ peerStore' \subseteq peerStore
      /\ UNCHANGED <<handlers, worker, secret, filterVars, discovered, outbound, tokens, rotations, events>>
  BY DEF Forget, history
<1>2. StoreOK' /\ FilterOK' /\ EventsOK'
  BY <1>1, AnnouncesStay DEF IInv
<1>3. discovered' \in Seq(Hashes \X IPs) /\ Len(discovered') <= DiscoveredCap
  BY <1>1 DEF IInv, QueuesOK
<1> QED BY <1>1, <1>2, <1>3, OthersKeep

LEMMA ConsumeKeeps == ASSUME IInv, Consume PROVE IInv'
<1>1. /\ discovered # <<>> /\ discovered' = Tail(discovered)
      /\ UNCHANGED <<handlers, worker, secret, peerStore, filterVars, outbound, tokens, rotations, events>>
  BY DEF Consume, history
<1>2. discovered \in Seq(Hashes \X IPs) /\ Len(discovered) <= DiscoveredCap
  BY DEF IInv, QueuesOK
<1>3. /\ discovered' \in Seq(Hashes \X IPs) /\ Len(discovered') = Len(discovered) - 1
      /\ Len(discovered) \in Nat
  BY <1>1, <1>2, Dequeued
<1>4. Len(discovered') <= DiscoveredCap
  BY <1>2, <1>3, Caps
<1>5. StoreOK' /\ FilterOK' /\ EventsOK'
  BY <1>1, AnnouncesStay DEF IInv
<1> QED BY <1>1, <1>3, <1>4, <1>5, OthersKeep

LEMMA Starts == Init => IInv
<1> SUFFICES ASSUME Init PROVE IInv
  OBVIOUS
<1>1. /\ handlers = <<>> /\ outbound = <<>> /\ discovered = <<>> /\ tokens = {}
      /\ worker = [w \in Workers |-> Idle]
      /\ secret = [current |-> 0, previous |-> NoSecret] /\ rotations = 0
      /\ peerStore = {} /\ active = {} /\ previous = {}
      /\ turns = 0 /\ acceptedAt = [w \in Workers |-> 0] /\ events = <<>>
  BY DEF Init
<1>2. \A S : <<>> \in Seq(S)
  BY EmptySeq
<1>3. Len(<<>>) = 0 /\ DOMAIN <<>> = {}
  BY EmptySeq
<1>4. Idle \in Doing /\ \A w \in Workers : worker[w].step = "idle"
  BY <1>1 DEF Doing, Idle
<1>5. QueuesOK
  BY <1>1, <1>2, <1>3, <1>4, Caps DEF QueuesOK
<1>6. SecretsOK
  BY <1>1, Caps DEF SecretsOK, NoSecret
<1>7. StoreOK
  BY <1>1, <1>4 DEF StoreOK
<1>8. FilterOK
  BY <1>1, <1>4, Caps DEF FilterOK
<1>9. EventsOK
  BY <1>1, <1>2, <1>3, <1>4 DEF EventsOK
<1> QED BY <1>5, <1>6, <1>7, <1>8, <1>9 DEF IInv

LEMMA Keeps == IInv /\ [Next]_vars => IInv'
<1> SUFFICES ASSUME IInv, [Next]_vars PROVE IInv'
  OBVIOUS
<1>1. CASE UNCHANGED vars
  <2>1. UNCHANGED <<handlers, worker, secret, peerStore, filterVars, discovered, outbound, tokens,
                    rotations, events>>
    BY <1>1 DEF vars, serverVars, history
  <2>2. QueuesOK'
    BY <2>1, SameTokens DEF IInv, QueuesOK
  <2>3. SecretsOK' /\ StoreOK' /\ FilterOK' /\ EventsOK'
    BY <2>1, SecretStays, AnnouncesStay DEF IInv
  <2> QED BY <2>2, <2>3 DEF IInv
<1>2. ASSUME NEW w \in Workers, Work(w) PROVE IInv'
  BY <1>2, TakeKeeps, HandleOtherKeeps, HandleGetPeersKeeps, RejectKeeps, IgnoreKeeps, AcceptKeeps,
     StoreKeeps, DeduplicateKeeps, AnnounceKeeps, AcknowledgeKeeps DEF Work, HandleAnnouncePeer
<1>3. CASE Next
  BY <1>2, <1>3, ReceiveKeeps, WriteKeeps, RotateKeeps, TurnKeeps, ForgetKeeps, ConsumeKeeps DEF Next
<1> QED BY <1>1, <1>3

LEMMA Invariant == Spec => []IInv
BY Starts, Keeps, PTL DEF Spec

-----------------------------------------------------------------------------
(* The theorems.                                                           *)

LEMMA Types == IInv => TypeOK
<1> SUFFICES ASSUME IInv PROVE TypeOK
  OBVIOUS
<1>1. Issued \subseteq Token /\ tokens \subseteq Issued
  BY DEF Issued, IInv, QueuesOK
<1>2. Sent \subseteq Query /\ Given \subseteq Answer
  BY <1>1 DEF Sent, Query, Announced, AnnouncePeer, Given, Answer
<1>3. handlers \in Seq(Query) /\ outbound \in Seq(Answer)
  BY <1>2, SeqMonotonic DEF IInv, QueuesOK
<1>4. ASSUME NEW w \in Workers
      PROVE  \/ worker[w] \in {Idle, [step |-> "respond"]}
             \/ /\ worker[w].step \in {"get_peers", "announce_peer", "other"}
                /\ worker[w].query \in Query
             \/ /\ worker[w].step \in {"store", "dedup", "announce"}
                /\ worker[w].peer \in Hashes \X IPs
  <2>1. worker[w] \in Doing
    BY DEF IInv, QueuesOK
  <2>2. GetPeers \subseteq Query /\ Other \subseteq Query /\ Announced \subseteq Query
    BY <1>2 DEF Sent
  <2> QED BY <2>1, <2>2 DEF Doing, HolderSteps, Answering
<1>5. secret.current \in 0..MaxTicks /\ secret.previous \in NoSecret..MaxTicks
  BY Caps DEF IInv, SecretsOK, NoSecret
<1>6. /\ handlers \in Seq(Query) /\ Len(handlers) <= HandlersCap
      /\ discovered \in Seq(Hashes \X IPs) /\ Len(discovered) <= DiscoveredCap
      /\ outbound \in Seq(Answer) /\ Len(outbound) <= OutboundCap
      /\ tokens \subseteq Token /\ rotations \in 0..MaxTicks
  BY <1>1, <1>3 DEF IInv, QueuesOK, SecretsOK
<1>7. /\ peerStore \subseteq Hashes \X IPs /\ active \subseteq Hashes /\ previous \subseteq Hashes
      /\ turns \in 0..MaxTicks /\ acceptedAt \in [Workers -> 0..MaxTicks]
      /\ events \in Seq([hash : Hashes, turn : 0..MaxTicks])
  BY DEF IInv, StoreOK, FilterOK, EventsOK
<1> QED BY <1>4, <1>5, <1>6, <1>7 DEF TypeOK

\* However the query workers interleave and whenever the filter turns, two events of one
\* infohash come from announces it let past two turns apart; and whatever peers the store
\* keeps, each is at an address that had been handed a token.
THEOREM AnnouncesSound == Spec => []AnnouncesAreSound
<1>1. IInv => AnnouncesAreSound
  <2> SUFFICES ASSUME IInv PROVE AnnouncesAreSound
    OBVIOUS
  <2>1. TypeOK
    BY Types
  <2>2. \A i, j \in DOMAIN events :
          i < j /\ events[i].hash = events[j].hash => Apart(events[i].turn, events[j].turn)
    <3>1. \A i \in DOMAIN events : i \in Int
      BY LenProperties DEF IInv, EventsOK
    <3>2. \A i, j \in DOMAIN events : i < j => i # j
      BY <3>1
    <3> QED BY <3>2 DEF IInv, EventsOK
  <2>3. \A p \in peerStore : \E t \in tokens : t.ip = p[2]
    BY DEF IInv, StoreOK
  <2> QED BY <2>1, <2>2, <2>3 DEF AnnouncesAreSound, Apart
<1> QED BY <1>1, Invariant, PTL

\* A token is valid for the address it was made for, in the window of its secret and
\* in the next one.
LEMMA ValidWhileTimely ==
    ASSUME SecretsOK, NEW ip, NEW t \in Issued \cup {Forged}
    PROVE  Valid(ip, t) <=> t # Forged /\ t.ip = ip /\ ~ (rotations - t.secret > 1)
<1>1. rotations \in Nat /\ secret.current = rotations /\ secret.previous = rotations - 1
  BY Caps DEF SecretsOK
<1>2. TokenFor(ip, secret.current) = [ip |-> ip, secret |-> rotations]
      /\ TokenFor(ip, secret.previous) = [ip |-> ip, secret |-> rotations - 1]
  BY <1>1 DEF TokenFor
<1>3. Valid(ip, t) <=> t \in {[ip |-> ip, secret |-> rotations], [ip |-> ip, secret |-> rotations - 1]}
  BY <1>2 DEF Valid
<1>4. CASE t = Forged
  <2>1. t.secret = -2
    BY <1>4 DEF Forged, NoSecret
  <2>2. ~ Valid(ip, t)
    BY <1>1, <1>3, <2>1
  <2> QED BY <1>4, <2>2
<1>5. CASE t \in Issued
  <2>1. t \in Token /\ t.secret \in 0..MaxTicks /\ t.secret <= rotations
    BY <1>5 DEF Issued, Token
  <2>2. t # Forged
    BY <2>1 DEF Forged, NoSecret
  <2>3. t = [ip |-> t.ip, secret |-> t.secret]
    BY <2>1 DEF Token
  <2>4. Valid(ip, t) <=> t.ip = ip /\ t.secret \in {rotations, rotations - 1}
    BY <1>3, <2>3
  <2>5. t.secret \in {rotations, rotations - 1} <=> ~ (rotations - t.secret > 1)
    BY <1>1, <2>1, Caps
  <2> QED BY <2>2, <2>4, <2>5
<1> QED BY <1>4, <1>5

\* A client that announces within two windows of its token is not turned away, and one
\* that is later is, however long its query was queued.
THEOREM TokensLast == Spec => TokensLastTwoWindows
<1> DEFINE Timely(w) ==
             LET t == worker[w].query.token
                 late == rotations - t.secret > 1
             IN  t # Forged /\ t.ip = worker[w].query.ip /\ ~late
           Decided(w) ==
             worker[w].step = "announce_peer" /\ worker'[w].step # "announce_peer" =>
                (Timely(w) <=> worker'[w] # Idle)
<1>1. ASSUME IInv, [Next]_vars, NEW w \in Workers PROVE Decided(w)
  <2> SUFFICES ASSUME worker[w].step = "announce_peer", worker'[w].step # "announce_peer"
               PROVE  Timely(w) <=> worker'[w] # Idle
    OBVIOUS
  <2>1. QueuesOK /\ SecretsOK
    BY <1>1 DEF IInv
  <2>2. worker \in [Workers -> Doing]
    BY <2>1 DEF QueuesOK
  <2>3. worker[w].query.token \in Issued \cup {Forged}
    <3>1. worker[w].query \in Announced
      BY <2>1, AtAnnouncePeer
    <3> QED BY <2>1, <3>1 DEF Announced, QueuesOK
  <2>4. Valid(worker[w].query.ip, worker[w].query.token) <=> Timely(w)
    BY <2>1, <2>3, ValidWhileTimely
  <2> HIDE DEF Timely
  <2>5. Reject(w) \/ Ignore(w) \/ Accept(w)
    <3>1. worker' # worker
      OBVIOUS
    <3>2. PICK v \in Workers : Work(v)
      BY <1>1, <3>1 DEF Next, vars, serverVars, history, Receive, Write, Rotate, Turn, Forget,
                     Consume
    <3>3. v # w => worker'[w] = worker[w]
      BY <2>2, <3>2 DEF Work, HandleAnnouncePeer, Take, HandleOther, HandleGetPeers, Reject, Ignore,
                  Accept, Store, Deduplicate, Announce, Acknowledge, Finishes, Answers, Moves
    <3>4. v = w
      BY <3>3
    <3> QED BY <3>2, <3>4 DEF Work, HandleAnnouncePeer, Take, HandleOther, HandleGetPeers, Store,
                  Deduplicate, Announce, Acknowledge
  <2>6. CASE Reject(w)
    <3>1. ~ Timely(w)
      BY <2>4, <2>6 DEF Reject
    <3>2. worker'[w] = Idle
      BY <2>1, <2>6, Finished DEF Reject
    <3> QED BY <3>1, <3>2
  <2>7. CASE Ignore(w) \/ Accept(w)
    <3>1. Timely(w)
      BY <2>4, <2>7 DEF Ignore, Accept
    <3>2. worker'[w].step \in {"respond", "store"}
      <4>1. CASE Ignore(w)
        BY <2>1, <4>1, Answered DEF Ignore
      <4>2. CASE Accept(w)
        BY <2>2, <4>2 DEF Accept
      <4> QED BY <2>7, <4>1, <4>2
    <3>3. Idle.step = "idle"
      BY DEF Idle
    <3> QED BY <3>1, <3>2, <3>3
  <2> QED BY <2>5, <2>6, <2>7
<1>2. IInv /\ [Next]_vars => [\A w \in Workers : Decided(w)]_vars
  <2> HIDE DEF Decided
  <2> QED BY <1>1
<1>3. TokensLastTwoWindows <=> [][\A w \in Workers : Decided(w)]_vars
  BY DEF TokensLastTwoWindows
<1> HIDE DEF Decided
<1> QED BY <1>2, <1>3, Invariant, PTL DEF Spec

=============================================================================
