---------------------------- MODULE FetchProofs ----------------------------
(***************************************************************************)
(* What is fetched for a torrent: the invariants of PeerRace, for any      *)
(* number of infohashes and peers, any content and any limits, and those   *)
(* of TrackerScrape, for any trackers, any number of torrents and batches  *)
(* of any size.                                                            *)
(***************************************************************************)
EXTENDS PeerRace, TrackerScrape, SequenceTheorems, TLAPS

-----------------------------------------------------------------------------
(* The fetches of an indexer worker: the inductive invariant.              *)

\* A fetch asks for pieces below the number it was told, only the dictionary passes
\* its check, and a goroutine runs from the dispatch to its return.
FetchesOK ==
    \A f \in Fetches :
        /\ fetch[f].at = "pieces" => fetch[f].piece < fetch[f].pieces
        /\ fetch[f].at = "done" => fetch[f].assembled = InfoSize
        /\ f \in running => fetch[f].at # "idle"
        /\ f \notin running => fetch[f].at \in {"idle", "done", "failed"}

ResultsOK ==
    /\ resultCh \in [Jobs -> {<<>>, <<InfoSize>>}]
    /\ \A j \in Jobs : outcome[j] = "metadata" => info[j] = InfoSize

\* Between the dispatch of its peers and the end of a call, the call is open.
WorkerOK ==
    /\ at # "idle" => job \in Jobs
    /\ at = "token" => next <= limit[job] + 1
    /\ at = "slot" => next <= limit[job]
    /\ at \in {"token", "slot", "receive"} => outcome[job] = "open"
    /\ \A j \in Jobs : outcome[j] # "open" => Dispatched(j)
    /\ \A j \in Jobs : j \in cancelled => Stopping \/ job > j \/ (job = j /\ at = "idle")

Dispatching(j) == job = j /\ at \in {"token", "slot"}

\* The peers before next are asked, the others are not, and a dispatch is cut short only
\* when the process is stopping.
AskedInOrder ==
    \A j \in Jobs, i \in 1 .. MaxPeers :
        /\ job < j \/ (Dispatching(j) /\ i >= next) => fetch[<<j, i>>].at = "idle"
        /\ Dispatching(j) /\ i < next => fetch[<<j, i>>].at # "idle"
        /\ Dispatched(j) /\ i <= limit[j] => fetch[<<j, i>>].at # "idle" \/ Stopping

\* A result is in the channel or was received.
ResultKept ==
    \A j \in Jobs, i \in 1 .. MaxPeers :
        fetch[<<j, i>>].at = "done" /\ <<j, i>> \notin running =>
            resultCh[j] # <<>> \/ outcome[j] = "metadata"

ClosedOK == \A j \in closed : Dispatched(j) /\ Live(j) = {}

IInv ==
    /\ TypeOK
    /\ FetchesOK
    /\ ResultsOK
    /\ WorkerOK
    /\ AskedInOrder
    /\ ResultKept
    /\ ClosedOK
    /\ NothingMeansAllFailed

-----------------------------------------------------------------------------
(* The number of pieces.                                                   *)

\* Division by the same number keeps the order.
LEMMA QuotientsInOrder ==
    ASSUME NEW p \in Nat \ {0}, NEW a \in Nat, NEW b \in Nat, a <= b
    PROVE  a \div p \in Int /\ b \div p \in Int /\ a \div p <= b \div p
OBVIOUS

\* A size the handshake check lets through has at least one piece, and no more pieces
\* than the largest one (numPieces).
LEMMA PiecesBounded ==
    ASSUME NEW size \in 1 .. MaxMetadataSize
    PROVE  NumPieces(size) \in 1 .. MaxPieces
<1>1. PieceSize \in Nat \ {0} /\ MaxMetadataSize \in Nat /\ size \in Nat
  BY MetadataAssumption
<1>2. /\ (size + PieceSize - 1) \div PieceSize \in Int
      /\ (MaxMetadataSize + PieceSize - 1) \div PieceSize \in Int
      /\ (size + PieceSize - 1) \div PieceSize <= (MaxMetadataSize + PieceSize - 1) \div PieceSize
  BY <1>1, QuotientsInOrder
<1>3. PieceSize \div PieceSize <= (size + PieceSize - 1) \div PieceSize
  BY <1>1, QuotientsInOrder
<1>4. PieceSize \div PieceSize = 1
  BY <1>1
<1> QED BY <1>2, <1>3, <1>4 DEF NumPieces, MaxPieces

-----------------------------------------------------------------------------
(* One fetch.                                                              *)

\* The record of a fetch that keeps to FetchesOK.
FetchOK(r) ==
    /\ r \in [at : {"idle", "dial", "handshake", "extension", "pieces", "verify", "done", "failed"},
              piece : 0 .. MaxPieces, pieces : 0 .. MaxPieces, assembled : Content]
    /\ r.at = "pieces" => r.piece < r.pieces
    /\ r.at = "done" => r.assembled = InfoSize

\* Whatever the peer sends, a step of a fetch that runs keeps its record in order: pieces
\* are asked for up to the number computed, and only the dictionary ends as done.
LEMMA ProgressKeeps ==
    ASSUME NEW f \in Fetches, Progress(f), FetchTypeOK, FetchOK(fetch[f])
    PROVE  /\ FetchTypeOK'
           /\ fetch[f].at \notin {"idle", "done", "failed"}
           /\ FetchOK(fetch'[f]) /\ fetch'[f].at # "idle"
           /\ \A g \in Fetches \ {f} : fetch'[g] = fetch[g]
<1>1. MaxPieces \in Nat /\ InfoSize \in Nat \ {0}
  <2>1. NumPieces(MaxMetadataSize) \in 1 .. MaxPieces
    BY PiecesBounded, MetadataAssumption
  <2>2. MaxPieces \in Int
    BY QuotientsInOrder, MetadataAssumption DEF MaxPieces, NumPieces
  <2> QED BY <2>1, <2>2, MetadataAssumption
<1>2. 0 \in Content /\ 0 \in 0 .. MaxPieces
  BY <1>1 DEF Content
<1> DEFINE Steps(r) == /\ FetchOK(r) /\ r.at # "idle"
                       /\ fetch' = [fetch EXCEPT ![f] = r]
<1>3. SUFFICES fetch[f].at \notin {"idle", "done", "failed"} /\ \E r : Steps(r)
  <2>1. ASSUME NEW r, Steps(r)
        PROVE  /\ FetchTypeOK'
               /\ FetchOK(fetch'[f]) /\ fetch'[f].at # "idle"
               /\ \A g \in Fetches \ {f} : fetch'[g] = fetch[g]
    <3>1. fetch'[f] = r
      BY <2>1 DEF FetchTypeOK
    <3> QED BY <2>1, <3>1 DEF FetchTypeOK, FetchOK
  <2> HIDE DEF Steps
  <2> QED BY <2>1
<1>4. Fails(f) => \E r : Steps(r)
  BY <1>2 DEF Fails, FetchOK, Idle
<1>5. ASSUME NEW place \in {"handshake", "extension"}, Moves(f, place)
      PROVE  \E r : Steps(r)
  <2>1. FetchOK([fetch[f] EXCEPT !.at = place])
    BY DEF FetchOK
  <2> QED BY <2>1, <1>5 DEF Moves, FetchOK
<1>6. fetch[f].assembled = InfoSize /\ Succeeds(f) => \E r : Steps(r)
  BY <1>1, <1>2 DEF Succeeds, FetchOK, Idle
<1>7. UNCHANGED fetch /\ fetch[f].at # "idle" => \E r : Steps(r)
  <2>1. fetch = [fetch EXCEPT ![f] = fetch[f]]
    BY DEF FetchTypeOK
  <2> QED BY <2>1
<1>8. ASSUME NEW m \in Messages, ReadExtension(f, m) PROVE \E r : Steps(r)
  <2>1. CASE Fails(f)
    BY <2>1, <1>4
  <2>2. CASE UNCHANGED fetch
    BY <2>2, <1>7, <1>8 DEF ReadExtension
  <2>3. CASE /\ m.size \in 1 .. MaxMetadataSize
             /\ fetch' = [fetch EXCEPT ![f] = [at |-> "pieces", piece |-> 0,
                                               pieces |-> NumPieces(m.size), assembled |-> 0]]
    <3>1. NumPieces(m.size) \in 1 .. MaxPieces
      BY <2>3, PiecesBounded
    <3>2. FetchOK([at |-> "pieces", piece |-> 0, pieces |-> NumPieces(m.size), assembled |-> 0])
      BY <3>1, <1>1, <1>2 DEF FetchOK
    <3> QED BY <2>3, <3>2
  <2> QED BY <1>8, <2>1, <2>2, <2>3 DEF ReadExtension
<1>9. ASSUME NEW m \in Messages, ReadPiece(f, m) PROVE \E r : Steps(r)
  <2>1. CASE Fails(f)
    BY <2>1, <1>4
  <2>2. CASE UNCHANGED fetch
    BY <2>2, <1>7, <1>9 DEF ReadPiece
  <2>3. CASE /\ m.kind = "data" /\ m.piece = fetch[f].piece
             /\ fetch' = [fetch EXCEPT ![f].piece = @ + 1,
                                       ![f].assembled = Assembled(@, m.units),
                                       ![f].at = IF m.piece + 1 = fetch[f].pieces
                                                 THEN "verify" ELSE "pieces"]
    <3> DEFINE r == [[[fetch[f] EXCEPT !.piece = @ + 1]
                               EXCEPT !.assembled = Assembled(@, m.units)]
                               EXCEPT !.at = IF m.piece + 1 = fetch[f].pieces
                                             THEN "verify" ELSE "pieces"]
    <3>1. m.units \in Content
      BY <2>3 DEF Messages, Unreadable
    <3>2. Assembled(fetch[f].assembled, m.units) \in Content
      BY <3>1, <1>1 DEF Assembled, Content, Spoiled, FetchOK
    <3>3. FetchOK(r) /\ r.at # "idle"
      <4> DEFINE c == fetch[f]
                 places == {"idle", "dial", "handshake", "extension", "pieces", "verify", "done",
                            "failed"}
      <4>1. /\ c \in [at : places, piece : 0 .. MaxPieces, pieces : 0 .. MaxPieces,
                      assembled : Content]
            /\ c.piece + 1 <= c.pieces /\ c.piece + 1 \in 0 .. MaxPieces /\ m.piece = c.piece
        BY <1>1, <1>9, <2>3 DEF FetchOK, ReadPiece
      <4> HIDE DEF c
      <4>2. /\ r.at \in {"verify", "pieces"} /\ r.piece = c.piece + 1 /\ r.pieces = c.pieces
            /\ r.assembled = Assembled(c.assembled, m.units)
            /\ r.at = "pieces" => c.piece + 1 # c.pieces
        BY <4>1 DEF c
      <4>3. r \in [at : places, piece : 0 .. MaxPieces, pieces : 0 .. MaxPieces,
                   assembled : Content]
        BY <4>1, <3>2 DEF c
      <4> HIDE DEF r
      <4> QED BY <1>1, <4>1, <4>2, <4>3 DEF FetchOK
    <3>4. fetch' = [fetch EXCEPT ![f] = r]
      BY <2>3 DEF FetchTypeOK
    <3> HIDE DEF r
    <3> QED BY <3>3, <3>4
  <2> QED BY <1>9, <2>1, <2>2, <2>3 DEF ReadPiece
<1>10. CASE Dial(f)
  BY <1>10, <1>4, <1>5 DEF Dial
<1>11. CASE ReadHandshake(f)
  BY <1>11, <1>4, <1>5 DEF ReadHandshake
<1>12. CASE Verify(f)
  BY <1>12, <1>4, <1>6 DEF Verify
<1>13. CASE Deadline(f)
  BY <1>13, <1>4 DEF Deadline, Reading
<1>14. \A m \in Messages : ReadExtension(f, m) \/ ReadPiece(f, m)
          => fetch[f].at \notin {"idle", "done", "failed"}
  BY DEF ReadExtension, ReadPiece
<1> QED BY <1>8, <1>9, <1>10, <1>11, <1>12, <1>13, <1>14
         DEF Progress, Dial, ReadHandshake, Verify, Deadline, Reading

-----------------------------------------------------------------------------
(* The steps of the fetches.                                               *)

\* A fetch that runs moves: it was asked for before, and it has not returned.
LEMMA FetchMoves ==
    ASSUME IInv, NEW f \in running, FetchTypeOK',
           fetch[f].at \notin {"idle", "done", "failed"},
           FetchOK(fetch'[f]), fetch'[f].at # "idle",
           \A g \in Fetches \ {f} : fetch'[g] = fetch[g],
           UNCHANGED <<workerVars, running, chanVars, cancelled, outcome, info>>
    PROVE  IInv'
<1> USE DEF FetchOK, workerVars, chanVars
<1>1. Fetches = Jobs \X (1 .. MaxPeers) /\ NumJobs \in Nat /\ MaxPeers \in Nat
  BY PeerRaceAssumption DEF Jobs
<1>2. f \in Fetches
  BY DEF IInv, TypeOK
<1>3. \A j \in Jobs, i \in 1 .. MaxPeers :
        /\ fetch'[<<j, i>>].at = "idle" <=> fetch[<<j, i>>].at = "idle"
        /\ <<j, i>> \notin running => fetch'[<<j, i>>] = fetch[<<j, i>>]
  <2>1. ASSUME NEW j \in Jobs, NEW i \in 1 .. MaxPeers
        PROVE  /\ fetch'[<<j, i>>].at = "idle" <=> fetch[<<j, i>>].at = "idle"
               /\ <<j, i>> \notin running => fetch'[<<j, i>>] = fetch[<<j, i>>]
    <3>1. <<j, i>> \in Fetches
      BY <1>1
    <3>2. CASE <<j, i>> = f
      BY <3>2
    <3>3. CASE <<j, i>> # f
      BY <3>1, <3>3
    <3> QED BY <3>2, <3>3
  <2> QED BY <2>1
<1>4. TypeOK'
  BY <1>1, <1>2, <1>3 DEF IInv, TypeOK, FetchTypeOK
<1>5. FetchesOK'
  BY <1>1, <1>2, <1>3 DEF IInv, TypeOK, FetchesOK
<1>6. ResultsOK'
  BY <1>1, <1>2, <1>3 DEF IInv, TypeOK, ResultsOK
<1>7. WorkerOK'
  BY <1>1, <1>2, <1>3 DEF IInv, TypeOK, WorkerOK, Dispatched, Stopping, Root, Jobs
<1>8. AskedInOrder'
  BY <1>3 DEF IInv, AskedInOrder, Dispatched, Dispatching, Stopping
<1>9. ResultKept'
  BY <1>3 DEF IInv, ResultKept
<1>10. ClosedOK'
  BY <1>1, <1>2, <1>3 DEF IInv, TypeOK, ClosedOK, Live, Dispatched, WorkerOK
<1>11. NothingMeansAllFailed'
  <2>1. \A j \in Jobs : \A i \in 1 .. limit[j] : i \in 1 .. MaxPeers
    BY <1>1 DEF IInv, TypeOK
  <2> QED BY <1>3, <2>1 DEF IInv, NothingMeansAllFailed, Stopping
<1> QED BY <1>4, <1>5, <1>6, <1>7, <1>8, <1>9, <1>10, <1>11 DEF IInv

\* A step of the exchange with the peer, or the end of the context during the dial.
LEMMA FetchStepKeeps ==
    ASSUME IInv, NEW f \in Fetches, FetchStep(f) \/ DialCancelled(f)
    PROVE  IInv'
<1>1. FetchTypeOK /\ FetchOK(fetch[f])
  BY DEF IInv, TypeOK, FetchTypeOK, FetchesOK, FetchOK
<1>2. CASE FetchStep(f)
  BY <1>1, <1>2, ProgressKeeps, FetchMoves DEF FetchStep
<1>3. CASE DialCancelled(f)
  <2>1. FetchTypeOK' /\ FetchOK(fetch'[f]) /\ fetch'[f].at = "failed"
    BY <1>1, <1>3 DEF DialCancelled, Moves, FetchTypeOK, FetchOK
  <2>2. \A g \in Fetches \ {f} : fetch'[g] = fetch[g]
    BY <1>1, <1>3 DEF DialCancelled, Moves, FetchTypeOK
  <2> QED BY <1>3, <2>1, <2>2, FetchMoves DEF DialCancelled
<1> QED BY <1>2, <1>3

\* What a fetch leaves in the channel is the dictionary; a later result is dropped.
LEMMA ReturnKeeps ==
    ASSUME IInv, NEW f \in Fetches, Return(f)
    PROVE  IInv'
<1> USE DEF Return, workerVars, chanVars
<1>1. Fetches = Jobs \X (1 .. MaxPeers) /\ NumJobs \in Nat /\ MaxPeers \in Nat
  BY PeerRaceAssumption DEF Jobs
<1>2. f[1] \in Jobs /\ resultCh \in [Jobs -> {<<>>, <<InfoSize>>}] /\ <<InfoSize>> # <<>>
  BY <1>1 DEF IInv, ResultsOK
<1>3. /\ resultCh' \in [Jobs -> {<<>>, <<InfoSize>>}]
      /\ \A j \in Jobs : resultCh[j] # <<>> => resultCh'[j] # <<>>
      /\ fetch[f].at = "done" => resultCh'[f[1]] # <<>>
  BY <1>2 DEF IInv, FetchesOK
<1>4. TypeOK'
  BY <1>1, <1>2, <1>3 DEF IInv, TypeOK, FetchTypeOK
<1>5. FetchesOK'
  BY <1>1, <1>2, <1>3 DEF IInv, TypeOK, FetchesOK
<1>6. ResultsOK'
  BY <1>1, <1>2, <1>3 DEF IInv, TypeOK, ResultsOK
<1>7. WorkerOK'
  BY <1>1, <1>2, <1>3 DEF IInv, TypeOK, WorkerOK, Dispatched, Stopping, Root, Jobs
<1>8. AskedInOrder'
  BY <1>1, <1>2, <1>3 DEF IInv, TypeOK, AskedInOrder, Dispatched, Dispatching, Stopping, Jobs, WorkerOK
<1>9. ResultKept'
  <2>1. ASSUME NEW j \in Jobs, NEW i \in 1 .. MaxPeers,
               fetch[<<j, i>>].at = "done", <<j, i>> \notin running'
        PROVE  resultCh'[j] # <<>> \/ outcome[j] = "metadata"
    <3>1. CASE <<j, i>> = f
      BY <1>3, <2>1, <3>1
    <3>2. CASE <<j, i>> # f
      BY <1>3, <2>1, <3>2 DEF IInv, ResultKept
    <3> QED BY <3>1, <3>2
  <2> QED BY <2>1 DEF ResultKept
<1>10. ClosedOK'
  BY <1>1, <1>2, <1>3 DEF IInv, TypeOK, ClosedOK, Live, Dispatched, WorkerOK
<1>11. NothingMeansAllFailed'
  BY <1>1, <1>2, <1>3 DEF IInv, TypeOK, NothingMeansAllFailed, Stopping, WorkerOK, Dispatched
<1> QED BY <1>4, <1>5, <1>6, <1>7, <1>8, <1>9, <1>10, <1>11 DEF IInv

-----------------------------------------------------------------------------
(* The steps of the worker.                                                *)

\* A new call: nobody was asked yet.
LEMMA TakeKeeps ==
    ASSUME IInv, Take
    PROVE  IInv'
<1> USE DEF Take, Smaller, workerVars, chanVars
<1>1. Fetches = Jobs \X (1 .. MaxPeers) /\ NumJobs \in Nat /\ MaxPeers \in Nat
  BY PeerRaceAssumption DEF Jobs
<1>2. job' = job + 1 /\ job' \in Jobs
  BY <1>1 DEF IInv, TypeOK, Jobs
<1>3. /\ \A j \in Jobs : j # job' => limit'[j] = limit[j] /\ outcome'[j] = outcome[j]
      /\ outcome[job'] = "open" /\ outcome'[job'] \in {"open", "nothing"}
      /\ at' = "token" \/ (at' = "idle" /\ limit'[job'] = 0)
  BY <1>1, <1>2 DEF IInv, TypeOK, WorkerOK, Dispatched
<1>4. TypeOK'
  BY <1>1, <1>2, <1>3 DEF IInv, TypeOK, FetchTypeOK
<1>5. FetchesOK'
  BY <1>1, <1>2, <1>3 DEF IInv, TypeOK, FetchesOK
<1>6. ResultsOK'
  BY <1>1, <1>2, <1>3 DEF IInv, TypeOK, ResultsOK
<1>7. WorkerOK'
  BY <1>1, <1>2, <1>3 DEF IInv, TypeOK, WorkerOK, Dispatched, Stopping, Root, Jobs
<1>8. AskedInOrder'
  <2>1. ASSUME NEW j \in Jobs, NEW i \in 1 .. MaxPeers
        PROVE  /\ job' < j \/ (Dispatching(j)' /\ i >= next') => fetch[<<j, i>>].at = "idle"
               /\ Dispatching(j)' /\ i < next' => fetch[<<j, i>>].at # "idle"
               /\ Dispatched(j)' /\ i <= limit'[j] => fetch[<<j, i>>].at # "idle" \/ Stopping
    <3>1. j \in Int /\ job \in Int
      BY <1>1 DEF IInv, TypeOK, Jobs
    <3>2. CASE j > job
      <4>1. fetch[<<j, i>>].at = "idle"
        BY <3>2 DEF IInv, AskedInOrder
      <4> QED BY <4>1, <3>1, <3>2, <1>2, <1>3 DEF Dispatching, Dispatched
    <3>3. CASE j <= job
      <4>1. Dispatched(j)
        BY <3>1, <3>3 DEF Dispatched
      <4> QED BY <4>1, <3>1, <3>3, <1>2, <1>3 DEF IInv, AskedInOrder, Dispatching
    <3> QED BY <3>1, <3>2, <3>3
  <2> QED BY <2>1 DEF AskedInOrder, Stopping
<1>9. ResultKept'
  BY <1>3 DEF IInv, ResultKept
<1>10. ClosedOK'
  BY <1>1, <1>2, <1>3 DEF IInv, TypeOK, ClosedOK, Live, Dispatched, WorkerOK
<1>11. NothingMeansAllFailed'
  BY <1>1, <1>2, <1>3 DEF IInv, TypeOK, NothingMeansAllFailed, Stopping, WorkerOK, Dispatched
<1> QED BY <1>4, <1>5, <1>6, <1>7, <1>8, <1>9, <1>10, <1>11 DEF IInv

\* The limiter lets a peer through.
LEMMA AwaitTokenKeeps ==
    ASSUME IInv, AwaitToken
    PROVE  IInv'
<1> USE DEF AwaitToken, workerVars, chanVars
<1>1. Fetches = Jobs \X (1 .. MaxPeers) /\ NumJobs \in Nat /\ MaxPeers \in Nat
  BY PeerRaceAssumption DEF Jobs
<1>2. TypeOK'
  BY <1>1 DEF IInv, TypeOK, FetchTypeOK
<1>3. FetchesOK'
  BY <1>1 DEF IInv, TypeOK, FetchesOK
<1>4. ResultsOK'
  BY <1>1 DEF IInv, TypeOK, ResultsOK
<1>5. WorkerOK'
  BY <1>1 DEF IInv, TypeOK, WorkerOK, Dispatched, Stopping, Root, Jobs
<1>6. AskedInOrder'
  BY <1>1 DEF IInv, TypeOK, AskedInOrder, Dispatched, Dispatching, Stopping, Jobs, WorkerOK
<1>7. ResultKept'
  BY <1>1 DEF IInv, TypeOK, ResultKept, WorkerOK, Dispatched
<1>8. ClosedOK'
  BY <1>1 DEF IInv, TypeOK, ClosedOK, Live, Dispatched, WorkerOK
<1>9. NothingMeansAllFailed'
  BY <1>1 DEF IInv, TypeOK, NothingMeansAllFailed, Stopping, WorkerOK, Dispatched
<1> QED BY <1>2, <1>3, <1>4, <1>5, <1>6, <1>7, <1>8, <1>9 DEF IInv

\* The next peer is asked.
LEMMA SpawnKeeps ==
    ASSUME IInv, Spawn
    PROVE  IInv'
<1> USE DEF Spawn, Moves, workerVars, chanVars
<1>1. Fetches = Jobs \X (1 .. MaxPeers) /\ NumJobs \in Nat /\ MaxPeers \in Nat
  BY PeerRaceAssumption DEF Jobs
<1>2. job \in Jobs /\ next \in 1 .. MaxPeers /\ <<job, next>> \in Fetches
  BY <1>1 DEF IInv, TypeOK, WorkerOK
<1>3. /\ FetchTypeOK' /\ fetch[<<job, next>>].at = "idle" /\ fetch'[<<job, next>>].at = "dial"
      /\ \A g \in Fetches \ {<<job, next>>} : fetch'[g] = fetch[g]
  <2>1. fetch[<<job, next>>].at = "idle"
    BY <1>2 DEF IInv, TypeOK, AskedInOrder, Dispatching
  <2>2. fetch \in [Fetches -> [at : {"idle", "dial", "handshake", "extension", "pieces", "verify",
                                   "done", "failed"},
                             piece : 0 .. MaxPieces, pieces : 0 .. MaxPieces,
                             assembled : Content]]
    BY DEF IInv, TypeOK, FetchTypeOK
  <2>3. fetch' = [fetch EXCEPT ![<<job, next>>] = [@ EXCEPT !.at = "dial"]]
    OBVIOUS
  <2> HIDE DEF Spawn, Moves
  <2>4. FetchTypeOK'
    BY <1>2, <2>2, <2>3 DEF FetchTypeOK
  <2> QED BY <1>2, <2>1, <2>2, <2>3, <2>4
<1>4. \A j \in Jobs, i \in 1 .. MaxPeers :
        /\ <<j, i>> \in Fetches
        /\ j = job /\ i = next => fetch'[<<j, i>>].at = "dial"
        /\ j # job \/ i # next => fetch'[<<j, i>>] = fetch[<<j, i>>]
  BY <1>1, <1>3
<1>5. TypeOK'
  <2>1. next' \in 1 .. (MaxPeers + 1) /\ running' \subseteq Fetches
    BY <1>1, <1>2 DEF IInv, TypeOK
  <2> QED BY <1>3, <2>1 DEF IInv, TypeOK
<1>6. FetchesOK'
  <2>1. ASSUME NEW g \in Fetches, g # <<job, next>>
        PROVE  fetch'[g] = fetch[g] /\ (g \in running' <=> g \in running)
    BY <1>3, <2>1
  <2> HIDE DEF Spawn, Moves
  <2> QED BY <1>2, <1>3, <2>1 DEF IInv, FetchesOK, Spawn
<1>7. ResultsOK'
  BY <1>1, <1>2, <1>3, <1>4 DEF IInv, TypeOK, ResultsOK
<1>8. WorkerOK'
  BY <1>1, <1>2, <1>3, <1>4 DEF IInv, TypeOK, WorkerOK, Dispatched, Stopping, Root, Jobs
<1>9. AskedInOrder'
  <2>1. Dispatching(job) /\ Dispatching(job)' /\ next' = next + 1 /\ next \in Int
    BY <1>2 DEF Dispatching
  <2>2. ASSUME NEW j \in Jobs, NEW i \in 1 .. MaxPeers
        PROVE  /\ job < j \/ (Dispatching(j)' /\ i >= next') => fetch'[<<j, i>>].at = "idle"
               /\ Dispatching(j)' /\ i < next' => fetch'[<<j, i>>].at # "idle"
               /\ Dispatched(j)' /\ i <= limit[j] => fetch'[<<j, i>>].at # "idle" \/ Stopping
    <3>1. CASE j = job /\ i = next
      BY <1>1, <1>4, <2>1, <3>1 DEF Dispatched, Jobs
    <3>2. CASE j = job /\ i # next
      <4>1. fetch'[<<j, i>>] = fetch[<<j, i>>]
        BY <1>4, <3>2
      <4>2. i < next' => i < next
        BY <2>1, <3>2
      <4>3. i >= next' => i >= next
        BY <2>1
      <4> QED BY <1>1, <2>1, <3>2, <4>1, <4>2, <4>3 DEF IInv, AskedInOrder, Dispatched, Jobs
    <3>3. CASE j # job
      <4>1. fetch'[<<j, i>>] = fetch[<<j, i>>]
        BY <1>4, <3>3
      <4> QED BY <3>3, <4>1 DEF IInv, AskedInOrder, Dispatched, Dispatching
    <3> QED BY <3>1, <3>2, <3>3
  <2> QED BY <2>2 DEF AskedInOrder, Stopping
<1>10. ResultKept'
  BY <1>4 DEF IInv, ResultKept
<1>11. ClosedOK'
  BY <1>1, <1>2, <1>3, <1>4 DEF IInv, TypeOK, ClosedOK, Live, Dispatched, WorkerOK
<1>12. NothingMeansAllFailed'
  <2>1. \A j \in Jobs : outcome[j] = "nothing" => j # job
    BY DEF IInv, WorkerOK
  <2>2. \A j \in Jobs : \A i \in 1 .. limit[j] : i \in 1 .. MaxPeers
    BY <1>1 DEF IInv, TypeOK
  <2> QED BY <1>4, <2>1, <2>2 DEF IInv, NothingMeansAllFailed, Stopping
<1> QED BY <1>5, <1>6, <1>7, <1>8, <1>9, <1>10, <1>11, <1>12 DEF IInv

\* Every peer was asked, or the process is stopping.
LEMMA DispatchEndsKeeps ==
    ASSUME IInv, DispatchEnds
    PROVE  IInv'
<1> USE DEF DispatchEnds, workerVars, chanVars
<1>1. Fetches = Jobs \X (1 .. MaxPeers) /\ NumJobs \in Nat /\ MaxPeers \in Nat
  BY PeerRaceAssumption DEF Jobs
<1>2. job \in Jobs /\ (next > limit[job] \/ Stopping)
  BY <1>1 DEF IInv, WorkerOK, TypeOK, Jobs
<1>3. TypeOK'
  BY <1>1, <1>2 DEF IInv, TypeOK, FetchTypeOK
<1>4. FetchesOK'
  BY <1>1, <1>2 DEF IInv, TypeOK, FetchesOK
<1>5. ResultsOK'
  BY <1>1, <1>2 DEF IInv, TypeOK, ResultsOK
<1>6. WorkerOK'
  BY <1>1, <1>2 DEF IInv, TypeOK, WorkerOK, Dispatched, Stopping, Root, Jobs
<1>7. AskedInOrder'
  <2>1. Dispatching(job) /\ limit[job] \in Int /\ next \in Int
    BY <1>1, <1>2 DEF IInv, TypeOK, Dispatching
  <2>2. \A i \in 1 .. MaxPeers : i <= limit[job] => fetch[<<job, i>>].at # "idle" \/ Stopping
    BY <1>1, <1>2, <2>1 DEF IInv, AskedInOrder
  <2> QED BY <1>1, <2>2 DEF IInv, AskedInOrder, Dispatched, Dispatching, Stopping
<1>8. ResultKept'
  BY <1>1, <1>2 DEF IInv, TypeOK, ResultKept, WorkerOK, Dispatched
<1>9. ClosedOK'
  BY <1>1, <1>2 DEF IInv, TypeOK, ClosedOK, Live, Dispatched, WorkerOK
<1>10. NothingMeansAllFailed'
  BY <1>1, <1>2 DEF IInv, TypeOK, NothingMeansAllFailed, Stopping, WorkerOK, Dispatched
<1> QED BY <1>3, <1>4, <1>5, <1>6, <1>7, <1>8, <1>9, <1>10 DEF IInv

\* The result is received.
LEMMA ReceiveInfoKeeps ==
    ASSUME IInv, ReceiveInfo
    PROVE  IInv'
<1> USE DEF ReceiveInfo, workerVars, chanVars
<1>1. Fetches = Jobs \X (1 .. MaxPeers) /\ NumJobs \in Nat /\ MaxPeers \in Nat
  BY PeerRaceAssumption DEF Jobs
<1>2. job \in Jobs /\ resultCh[job] = <<InfoSize>> /\ Head(resultCh[job]) = InfoSize
  BY DEF IInv, WorkerOK, ResultsOK
<1>3. InfoSize \in Content
  BY MetadataAssumption DEF Content
<1>4. TypeOK'
  BY <1>1, <1>2, <1>3 DEF IInv, TypeOK, FetchTypeOK
<1>5. FetchesOK'
  BY <1>1, <1>2, <1>3 DEF IInv, TypeOK, FetchesOK
<1>6. ResultsOK'
  BY <1>1, <1>2, <1>3 DEF IInv, TypeOK, ResultsOK
<1>7. WorkerOK'
  BY <1>1, <1>2, <1>3 DEF IInv, TypeOK, WorkerOK, Dispatched, Stopping, Root, Jobs
<1>8. AskedInOrder'
  BY <1>1, <1>2, <1>3 DEF IInv, TypeOK, AskedInOrder, Dispatched, Dispatching, Stopping, Jobs, WorkerOK
<1>9. ResultKept'
  <2>1. outcome'[job] = "metadata"
    BY <1>2 DEF IInv, TypeOK
  <2>2. \A j \in Jobs : j # job => resultCh'[j] = resultCh[j] /\ outcome'[j] = outcome[j]
    BY DEF IInv, TypeOK, ResultsOK
  <2> QED BY <2>1, <2>2 DEF IInv, ResultKept
<1>10. ClosedOK'
  BY <1>1, <1>2, <1>3 DEF IInv, TypeOK, ClosedOK, Live, Dispatched, WorkerOK
<1>11. NothingMeansAllFailed'
  BY <1>1, <1>2, <1>3 DEF IInv, TypeOK, NothingMeansAllFailed, Stopping, WorkerOK, Dispatched
<1> QED BY <1>4, <1>5, <1>6, <1>7, <1>8, <1>9, <1>10, <1>11 DEF IInv

\* The channel is closed and empty: every fetch returned, and none of them had a result.
LEMMA ReceiveNothingKeeps ==
    ASSUME IInv, ReceiveNothing
    PROVE  IInv'
<1> USE DEF ReceiveNothing, workerVars, chanVars
<1>1. Fetches = Jobs \X (1 .. MaxPeers) /\ NumJobs \in Nat /\ MaxPeers \in Nat
  BY PeerRaceAssumption DEF Jobs
<1>2. job \in Jobs /\ Dispatched(job)
  BY DEF IInv, WorkerOK, Dispatched
<1>3. TypeOK'
  BY <1>1, <1>2 DEF IInv, TypeOK, FetchTypeOK
<1>4. FetchesOK'
  BY <1>1, <1>2 DEF IInv, TypeOK, FetchesOK
<1>5. ResultsOK'
  BY <1>1, <1>2 DEF IInv, TypeOK, ResultsOK
<1>6. WorkerOK'
  BY <1>1, <1>2 DEF IInv, TypeOK, WorkerOK, Dispatched, Stopping, Root, Jobs
<1>7. AskedInOrder'
  BY <1>1, <1>2 DEF IInv, TypeOK, AskedInOrder, Dispatched, Dispatching, Stopping, Jobs, WorkerOK
<1>8. ResultKept'
  BY <1>1, <1>2 DEF IInv, TypeOK, ResultKept, WorkerOK, Dispatched
<1>9. ClosedOK'
  BY <1>1, <1>2 DEF IInv, TypeOK, ClosedOK, Live, Dispatched, WorkerOK
<1>10. NothingMeansAllFailed'
  <2>1. ASSUME NEW i \in 1 .. limit[job]
        PROVE  /\ <<job, i>> \notin running
               /\ fetch[<<job, i>>].at = "failed" \/ (Stopping /\ fetch[<<job, i>>].at = "idle")
    <3>1. i \in 1 .. MaxPeers /\ <<job, i>> \in Fetches
      BY <1>1, <1>2 DEF IInv, TypeOK
    <3>2. <<job, i>> \notin running
      BY DEF IInv, ClosedOK, Live
    <3>3. fetch[<<job, i>>].at \in {"idle", "done", "failed"}
      BY <3>1, <3>2 DEF IInv, FetchesOK
    <3>4. fetch[<<job, i>>].at # "done"
      BY <1>2, <3>1, <3>2 DEF IInv, ResultKept, WorkerOK
    <3>5. fetch[<<job, i>>].at # "idle" \/ Stopping
      BY <1>2, <3>1 DEF IInv, AskedInOrder
    <3> QED BY <3>2, <3>3, <3>4, <3>5
  <2> QED BY <1>2, <2>1 DEF IInv, TypeOK, NothingMeansAllFailed, Stopping
<1> QED BY <1>3, <1>4, <1>5, <1>6, <1>7, <1>8, <1>9, <1>10 DEF IInv

\* The call ends and with it the context of its fetches.
LEMMA StoreKeeps ==
    ASSUME IInv, Store
    PROVE  IInv'
<1> USE DEF Store, workerVars, chanVars
<1>1. Fetches = Jobs \X (1 .. MaxPeers) /\ NumJobs \in Nat /\ MaxPeers \in Nat
  BY PeerRaceAssumption DEF Jobs
<1>2. job \in Jobs
  BY DEF IInv, WorkerOK
<1>3. TypeOK'
  BY <1>1, <1>2 DEF IInv, TypeOK, FetchTypeOK
<1>4. FetchesOK'
  BY <1>1, <1>2 DEF IInv, TypeOK, FetchesOK
<1>5. ResultsOK'
  BY <1>1, <1>2 DEF IInv, TypeOK, ResultsOK
<1>6. WorkerOK'
  BY <1>1, <1>2 DEF IInv, TypeOK, WorkerOK, Dispatched, Stopping, Root, Jobs
<1>7. AskedInOrder'
  BY <1>1, <1>2 DEF IInv, TypeOK, AskedInOrder, Dispatched, Dispatching, Stopping, Jobs, WorkerOK
<1>8. ResultKept'
  BY <1>1, <1>2 DEF IInv, TypeOK, ResultKept, WorkerOK, Dispatched
<1>9. ClosedOK'
  BY <1>1, <1>2 DEF IInv, TypeOK, ClosedOK, Live, Dispatched, WorkerOK
<1>10. NothingMeansAllFailed'
  BY <1>1, <1>2 DEF IInv, TypeOK, NothingMeansAllFailed, Stopping, WorkerOK, Dispatched
<1> QED BY <1>3, <1>4, <1>5, <1>6, <1>7, <1>8, <1>9, <1>10 DEF IInv

\* All peers are dispatched and none runs.
LEMMA CloseKeeps ==
    ASSUME IInv, NEW j \in Jobs, Close(j)
    PROVE  IInv'
<1> USE DEF Close, workerVars, chanVars
<1>1. Fetches = Jobs \X (1 .. MaxPeers) /\ NumJobs \in Nat /\ MaxPeers \in Nat
  BY PeerRaceAssumption DEF Jobs
<1>2. TypeOK'
  BY <1>1 DEF IInv, TypeOK, FetchTypeOK
<1>3. FetchesOK'
  BY <1>1 DEF IInv, TypeOK, FetchesOK
<1>4. ResultsOK'
  BY <1>1 DEF IInv, TypeOK, ResultsOK
<1>5. WorkerOK'
  BY <1>1 DEF IInv, TypeOK, WorkerOK, Dispatched, Stopping, Root, Jobs
<1>6. AskedInOrder'
  BY <1>1 DEF IInv, TypeOK, AskedInOrder, Dispatched, Dispatching, Stopping, Jobs, WorkerOK
<1>7. ResultKept'
  BY <1>1 DEF IInv, TypeOK, ResultKept, WorkerOK, Dispatched
<1>8. ClosedOK'
  BY <1>1 DEF IInv, TypeOK, ClosedOK, Live, Dispatched, WorkerOK
<1>9. NothingMeansAllFailed'
  BY <1>1 DEF IInv, TypeOK, NothingMeansAllFailed, Stopping, WorkerOK, Dispatched
<1> QED BY <1>2, <1>3, <1>4, <1>5, <1>6, <1>7, <1>8, <1>9 DEF IInv

\* The process is told to stop.
LEMMA StopKeeps ==
    ASSUME IInv, Stop
    PROVE  IInv'
<1> USE DEF Stop, workerVars, chanVars
<1>1. Fetches = Jobs \X (1 .. MaxPeers) /\ NumJobs \in Nat /\ MaxPeers \in Nat
  BY PeerRaceAssumption DEF Jobs
<1>2. TypeOK'
  BY <1>1 DEF IInv, TypeOK, FetchTypeOK
<1>3. FetchesOK'
  BY <1>1 DEF IInv, TypeOK, FetchesOK
<1>4. ResultsOK'
  BY <1>1 DEF IInv, TypeOK, ResultsOK
<1>5. WorkerOK'
  BY <1>1 DEF IInv, TypeOK, WorkerOK, Dispatched, Stopping, Root, Jobs
<1>6. AskedInOrder'
  BY <1>1 DEF IInv, TypeOK, AskedInOrder, Dispatched, Dispatching, Stopping, Jobs, WorkerOK
<1>7. ResultKept'
  BY <1>1 DEF IInv, TypeOK, ResultKept, WorkerOK, Dispatched
<1>8. ClosedOK'
  BY <1>1 DEF IInv, TypeOK, ClosedOK, Live, Dispatched, WorkerOK
<1>9. NothingMeansAllFailed'
  BY <1>1 DEF IInv, TypeOK, NothingMeansAllFailed, Stopping, WorkerOK, Dispatched
<1> QED BY <1>2, <1>3, <1>4, <1>5, <1>6, <1>7, <1>8, <1>9 DEF IInv

\* A step that changes nothing.
LEMMA StutterKeeps ==
    ASSUME IInv, UNCHANGED vars
    PROVE  IInv'
<1> USE DEF vars, workerVars, chanVars
<1>1. Fetches = Jobs \X (1 .. MaxPeers) /\ NumJobs \in Nat /\ MaxPeers \in Nat
  BY PeerRaceAssumption DEF Jobs
<1>2. TypeOK'
  BY <1>1 DEF IInv, TypeOK, FetchTypeOK
<1>3. FetchesOK'
  BY <1>1 DEF IInv, TypeOK, FetchesOK
<1>4. ResultsOK'
  BY <1>1 DEF IInv, TypeOK, ResultsOK
<1>5. WorkerOK'
  BY <1>1 DEF IInv, TypeOK, WorkerOK, Dispatched, Stopping, Root, Jobs
<1>6. AskedInOrder'
  BY <1>1 DEF IInv, TypeOK, AskedInOrder, Dispatched, Dispatching, Stopping, Jobs, WorkerOK
<1>7. ResultKept'
  BY <1>1 DEF IInv, TypeOK, ResultKept, WorkerOK, Dispatched
<1>8. ClosedOK'
  BY <1>1 DEF IInv, TypeOK, ClosedOK, Live, Dispatched, WorkerOK
<1>9. NothingMeansAllFailed'
  BY <1>1 DEF IInv, TypeOK, NothingMeansAllFailed, Stopping, WorkerOK, Dispatched
<1> QED BY <1>2, <1>3, <1>4, <1>5, <1>6, <1>7, <1>8, <1>9 DEF IInv

-----------------------------------------------------------------------------
(* The theorems about the fetches.                                         *)

\* No call of process has begun.
LEMMA InitIInv == Init => IInv
<1> SUFFICES ASSUME Init PROVE IInv
  OBVIOUS
<1>1. /\ Fetches = Jobs \X (1 .. MaxPeers) /\ NumJobs \in Nat /\ MaxPeers \in Nat
      /\ InfoSize \in Nat /\ MaxPieces \in Nat
  <2>1. NumPieces(MaxMetadataSize) \in 1 .. MaxPieces /\ MaxPieces \in Int
    BY PiecesBounded, QuotientsInOrder, MetadataAssumption DEF MaxPieces, NumPieces
  <2> QED BY <2>1, PeerRaceAssumption, MetadataAssumption DEF Jobs
<1>2. TypeOK
  <2>1. 0 \in Content /\ 0 \in 0 .. MaxPieces
    BY <1>1 DEF Content
  <2>2. FetchTypeOK
    BY <2>1 DEF Init, FetchInit, FetchTypeOK, Idle
  <2> QED BY <1>1, <2>1, <2>2 DEF Init, TypeOK
<1>3. FetchesOK /\ ResultsOK /\ WorkerOK
  BY DEF Init, FetchInit, Idle, FetchesOK, ResultsOK, WorkerOK
<1>4. AskedInOrder
  BY <1>1 DEF Init, FetchInit, Idle, AskedInOrder, Dispatching, Dispatched, Jobs
<1>5. ResultKept /\ ClosedOK /\ NothingMeansAllFailed
  BY <1>1 DEF Init, FetchInit, Idle, ResultKept, ClosedOK, NothingMeansAllFailed
<1> QED BY <1>2, <1>3, <1>4, <1>5 DEF IInv

\* Every step keeps the inductive invariant.
LEMMA NextIInv == IInv /\ [Next]_vars => IInv'
<1> SUFFICES ASSUME IInv, [Next]_vars PROVE IInv'
  OBVIOUS
<1>1. CASE Worker
  BY <1>1, TakeKeeps, AwaitTokenKeeps, SpawnKeeps, DispatchEndsKeeps, ReceiveInfoKeeps,
     ReceiveNothingKeeps, StoreKeeps DEF Worker
<1>2. ASSUME NEW f \in Fetches, FetchStep(f) \/ DialCancelled(f) \/ Return(f) PROVE IInv'
  BY <1>2, FetchStepKeeps, ReturnKeeps
<1>3. ASSUME NEW j \in Jobs, Close(j) PROVE IInv'
  BY <1>3, CloseKeeps
<1>4. CASE Stop
  BY <1>4, StopKeeps
<1>5. CASE UNCHANGED vars
  BY <1>5, StutterKeeps
<1> QED BY <1>1, <1>2, <1>3, <1>4, <1>5 DEF Next

\* The inductive invariant holds in every reachable state.
LEMMA SpecIInv == Spec => []IInv
<1>1. Init => IInv
  BY InitIInv
<1>2. IInv /\ [Next]_vars => IInv'
  BY NextIInv
<1> QED BY <1>1, <1>2, PTL DEF Spec

\* Whatever the peers send and whichever fetch is first, the worker goes on with the info
\* dictionary of its infohash (Fetch checks the SHA-1 before process receives the result).
THEOREM ResultIsTheDictionary == Spec => []ResultIsTheTorrents
<1>1. IInv => ResultIsTheTorrents
  BY DEF IInv, ResultsOK, ResultIsTheTorrents
<1> QED BY <1>1, SpecIInv, PTL

\* The worker gives an infohash up only when every peer it may ask has failed: no result is
\* lost on its way through the channel (process and its errgroup), unless the process stops.
THEOREM GivenUpOnlyWhenAllFailed == Spec => []NothingMeansAllFailed
<1>1. IInv => NothingMeansAllFailed
  BY DEF IInv
<1> QED BY <1>1, SpecIInv, PTL

\* The channel of an infohash is closed after its last sender has returned (g.Wait).
THEOREM NoSendOnClosed == Spec => []ClosedWhenAllReturned
<1>1. IInv => ClosedWhenAllReturned
  BY DEF IInv, ClosedOK, ClosedWhenAllReturned
<1> QED BY <1>1, SpecIInv, PTL

-----------------------------------------------------------------------------
(* The tracker client: the inductive invariant.                            *)

\* The infohash before the first one of batch b.
Before(b) == (b - 1) * BatchSize

\* An answer to a batch counts a prefix of it.
AnswersOK ==
    \A d \in network : d.action = "scrape" =>
        /\ d.tx \in 1 .. NumBatches
        /\ \E n \in 0 .. Len(Batch(d.tx)) : d.counts = SubSeq(Batch(d.tx), 1, n)

\* The results are of the batches before this one, in order.
FiledOK ==
    /\ results \in Seq([infohash : Int, counted : Int])
    /\ batch = 0 => results = <<>>
    /\ \A i \in DOMAIN results :
         /\ results[i].counted = results[i].infohash
         /\ results[i].infohash <= Before(batch)
    /\ \A i, j \in DOMAIN results : i < j => results[i].infohash < results[j].infohash

\* While the call is open no tracker that answered has named a seeder; lastResults is
\* what the last of them said.
OutcomeOK ==
    /\ verdict = "open" => seeding = {}
    /\ answered # {} => last.from \in answered
    /\ SilentOnlyWithoutSeeders

ScrapeIInv ==
    /\ ScrapeTypeOK
    /\ sent => batch <= NumBatches
    /\ AnswersOK
    /\ FiledOK
    /\ OutcomeOK

-----------------------------------------------------------------------------
(* The batches.                                                            *)

LEMMA RoundedUp ==
    ASSUME NEW n \in Nat, NEW k \in Nat \ {0}, n > 0
    PROVE  LET q == (n + k - 1) \div k IN q \in Nat /\ n <= q * k /\ (q - 1) * k < n
<1> DEFINE q == (n + k - 1) \div k
<1>1. n + k - 1 \in Nat /\ k \in Nat /\ k > 0
  OBVIOUS
<1>2. q \in Int /\ q * k <= n + k - 1 /\ n + k - 1 < (q + 1) * k
  BY <1>1
<1>3. q >= 0
  BY <1>1
<1>4. (q + 1) * k = q * k + k /\ (q - 1) * k = q * k - k
  BY <1>2
<1> HIDE DEF q
<1>5. q * k \in Int
  BY <1>2
<1>6. n <= q * k /\ (q - 1) * k < n
  BY <1>1, <1>2, <1>4, <1>5
<1> QED BY <1>2, <1>3, <1>6 DEF q

LEMMA Batches ==
    /\ NumBatches \in Nat
    /\ BatchSize \in Nat \ {0} /\ NumInfohashes \in Nat \ {0}
    /\ NumInfohashes <= NumBatches * BatchSize
    /\ (NumBatches - 1) * BatchSize < NumInfohashes
BY TrackerAssumption, RoundedUp DEF NumBatches

LEMMA Sizes == NumBatches \in Nat /\ BatchSize \in Nat /\ 0 \in 0 .. (NumBatches + 1)
BY Batches

LEMMA BeforeNext ==
    ASSUME NEW b \in Nat
    PROVE  Before(b) \in Int /\ Before(b + 1) = Before(b) + BatchSize
<1>1. BatchSize \in Nat
  BY Sizes
<1>2. (b + 1 - 1) * BatchSize = (b - 1) * BatchSize + BatchSize
  BY <1>1
<1> QED BY <1>1, <1>2 DEF Before

\* A batch is the infohashes from Before(b) on, as many as BatchSize at most.
LEMMA BatchIs ==
    ASSUME NEW b \in 1 .. NumBatches
    PROVE  /\ Batch(b) \in Seq(Int) /\ Len(Batch(b)) <= BatchSize
           /\ \A i \in DOMAIN Batch(b) : Batch(b)[i] = Before(b) + i
<1> DEFINE n == IF b < NumBatches THEN BatchSize ELSE NumInfohashes - (b - 1) * BatchSize
<1>1. b \in Nat /\ Before(b) \in Int /\ Before(b) = (b - 1) * BatchSize
  BY Batches, BeforeNext DEF Before
<1>2. n \in Nat /\ n <= BatchSize
  <2>1. CASE b < NumBatches
    BY <2>1, Batches
  <2>2. CASE b = NumBatches
    <3>1. Before(b + 1) = b * BatchSize
      BY <1>1, Batches DEF Before
    <3>2. NumInfohashes <= Before(b) + BatchSize
      BY <1>1, <2>2, <3>1, Batches, BeforeNext
    <3> QED BY <1>1, <2>2, <3>2, Batches
  <2> QED BY <2>1, <2>2, Batches
<1>3. Batch(b) = [i \in 1 .. n |-> Before(b) + i]
  BY <1>1 DEF Batch
<1> HIDE DEF n
<1> QED BY <1>1, <1>2, <1>3

-----------------------------------------------------------------------------
(* The steps of the tracker client.                                        *)

LEMMA Starts == ScrapeInit => ScrapeIInv
<1> SUFFICES ASSUME ScrapeInit PROVE ScrapeIInv
  OBVIOUS
<1>1. ScrapeTypeOK
  BY Sizes, Zenon DEF ScrapeInit, ScrapeTypeOK
<1> QED BY <1>1, Sizes DEF ScrapeInit, ScrapeIInv, AnswersOK, FiledOK, OutcomeOK, SilentOnlyWithoutSeeders

\* With a tracker given up nothing of its connection is left.
LEMMA AbandonClears ==
    ASSUME ScrapeIInv, Abandon
    PROVE  AnswersOK' /\ FiledOK' /\ batch' \in 0 .. (NumBatches + 1) /\ sent' \in BOOLEAN /\ ~ sent'
<1>1. batch' \in 0 .. (NumBatches + 1) /\ sent' \in BOOLEAN /\ ~ sent'
  BY Sizes, Zenon DEF Abandon
<1> QED BY <1>1 DEF Abandon, AnswersOK, FiledOK

LEMMA DialKeeps ==
    ASSUME ScrapeIInv, NEW t \in Trackers, DialTracker(t)
    PROVE  ScrapeIInv'
<1> USE DEF DialTracker
<1>1. ScrapeTypeOK'
  <2>1. batch' \in 0 .. (NumBatches + 1) /\ sent' \in BOOLEAN
    BY Sizes, Zenon
  <2> QED BY <2>1 DEF ScrapeIInv, ScrapeTypeOK
<1>2. AnswersOK' /\ FiledOK'
  BY DEF AnswersOK, FiledOK
<1>3. OutcomeOK'
  BY DEF ScrapeIInv, OutcomeOK, SilentOnlyWithoutSeeders
<1> QED BY <1>1, <1>2, <1>3 DEF ScrapeIInv

LEMMA SendKeeps == ScrapeIInv /\ Send => ScrapeIInv'
<1> SUFFICES ASSUME ScrapeIInv, Send PROVE ScrapeIInv'
  OBVIOUS
<1> USE DEF Send
<1>1. ScrapeTypeOK' /\ batch \in Nat /\ batch <= NumBatches
  BY Sizes DEF ScrapeIInv, ScrapeTypeOK
<1>2. AnswersOK'
  <2>1. AnswersOK
    BY DEF ScrapeIInv
  <2>2. ASSUME NEW d \in network', d \notin network, d.action = "scrape"
        PROVE  /\ d.tx \in 1 .. NumBatches
               /\ \E n \in 0 .. Len(Batch(d.tx)) : d.counts = SubSeq(Batch(d.tx), 1, n)
    <3>1. PICK n \in 0 .. Len(Batch(batch)) :
            /\ batch > 0
            /\ d = [tx |-> batch, action |-> "scrape", counts |-> SubSeq(Batch(batch), 1, n)]
      BY <2>2
    <3> QED BY <1>1, <3>1, Sizes
  <2> QED BY <2>1, <2>2 DEF AnswersOK
<1>3. FiledOK' /\ OutcomeOK'
  BY DEF ScrapeIInv, FiledOK, OutcomeOK, SilentOnlyWithoutSeeders
<1> QED BY <1>1, <1>2, <1>3 DEF ScrapeIInv

\* An answer that is expected is filed under the torrents it counts, behind the others.
LEMMA FiledRight ==
    ASSUME NEW b \in 1 .. NumBatches, batch = b, NEW d,
           \E n \in 0 .. Len(Batch(b)) : d.counts = SubSeq(Batch(b), 1, n)
    PROVE  /\ Filed(d) \in Seq([infohash : Int, counted : Int])
           /\ \A i \in DOMAIN Filed(d) :
                /\ Filed(d)[i].counted = Before(b) + i /\ Filed(d)[i].infohash = Before(b) + i
                /\ i <= BatchSize
<1>1. PICK n \in 0 .. Len(Batch(b)) : d.counts = SubSeq(Batch(b), 1, n)
  OBVIOUS
<1>2. BatchSize \in Nat /\ Before(b) \in Int
  BY Sizes, BeforeNext
<1>3. /\ Batch(b) \in Seq(Int) /\ Len(Batch(b)) \in Nat /\ Len(Batch(b)) <= BatchSize
      /\ \A i \in 1 .. Len(Batch(b)) : Batch(b)[i] = Before(b) + i
  BY BatchIs
<1>4. n \in Nat /\ n <= Len(Batch(b)) /\ Len(d.counts) = n /\ \A i \in 1 .. n : d.counts[i] = Batch(b)[i]
  BY <1>1, <1>3
<1>5. Min({n, Len(Batch(b))}) = n
  BY <1>3, <1>4 DEF Min
<1>6. Filed(d) = [i \in 1 .. n |-> Result(Batch(b)[i], d.counts[i])]
  BY <1>4, <1>5 DEF Filed
<1>7. ASSUME NEW i \in 1 .. n
      PROVE  /\ Filed(d)[i] = [infohash |-> Before(b) + i, counted |-> Before(b) + i]
             /\ i <= BatchSize
  <2>1. Batch(b)[i] = Before(b) + i /\ d.counts[i] = Before(b) + i /\ i <= BatchSize
    BY <1>2, <1>3, <1>4
  <2> QED BY <1>6, <2>1 DEF Result
<1>8. Filed(d) \in [1 .. n -> [infohash : Int, counted : Int]]
  <2>1. \A i \in 1 .. n : Result(Batch(b)[i], d.counts[i]) \in [infohash : Int, counted : Int]
    <3>1. \A i \in 1 .. n : Batch(b)[i] \in Int /\ d.counts[i] \in Int
      BY <1>2, <1>3, <1>4
    <3> QED BY <3>1 DEF Result
  <2> QED BY <1>6, <2>1
<1>9. Filed(d) \in Seq([infohash : Int, counted : Int]) /\ DOMAIN Filed(d) = 1 .. n
  <2> DEFINE R == [infohash : Int, counted : Int]
  <2>1. n \in Nat /\ Filed(d) \in [1 .. n -> R]
    BY <1>4, <1>8
  <2> HIDE DEF R, Filed
  <2>2. Filed(d) \in Seq(R) /\ DOMAIN Filed(d) = 1 .. n
    BY <2>1, SeqDef
  <2> QED BY <2>2 DEF R
<1> QED BY <1>7, <1>9

LEMMA ReadKeeps ==
    ASSUME ScrapeIInv, NEW d \in network, NEW again \in BOOLEAN, Read(d, again)
    PROVE  ScrapeIInv'
<1>1. Asking /\ sent /\ UNCHANGED <<seeded, asked, last, answered, seeding, ctxDone, verdict>>
  BY DEF Read
<1>2. OutcomeOK'
  BY <1>1 DEF ScrapeIInv, OutcomeOK, SilentOnlyWithoutSeeders
<1>3. CASE ~ Expects(d)
  <2>1. Abandon
    BY <1>3 DEF Read
  <2>2. ScrapeTypeOK'
    BY <1>1, <2>1, AbandonClears DEF ScrapeIInv, ScrapeTypeOK, Abandon
  <2> QED BY <1>2, <2>1, <2>2, AbandonClears DEF ScrapeIInv
<1>4. CASE Expects(d)
  <2>1. /\ results' = results \o (IF batch = 0 THEN <<>> ELSE Filed(d))
        /\ batch' = batch + 1 /\ ~ sent' /\ sent' \in BOOLEAN
        /\ network' \subseteq network /\ UNCHANGED tracker
    BY <1>4 DEF Read
  <2>2. batch \in Nat /\ batch <= NumBatches /\ NumBatches \in Nat
    BY <1>1, Sizes DEF ScrapeIInv, ScrapeTypeOK
  <2>3. ScrapeTypeOK'
    BY <1>1, <2>1, <2>2 DEF ScrapeIInv, ScrapeTypeOK
  <2>4. AnswersOK'
    BY <2>1 DEF ScrapeIInv, AnswersOK
  <2>5. FiledOK
    BY DEF ScrapeIInv
  <2>6. FiledOK'
    <3>1. CASE batch = 0
      <4>1. results' = <<>>
        BY <2>1, <2>5, <3>1 DEF FiledOK
      <4>2. batch' # 0
        BY <2>1, <2>2
      <4>3. results' \in Seq([infohash : Int, counted : Int])
        BY <2>5, <3>1, <4>1 DEF FiledOK
      <4>4. DOMAIN results' = {}
        BY <4>1
      <4> QED BY <4>2, <4>3, <4>4 DEF FiledOK
    <3>2. CASE batch # 0
      <4> DEFINE more == Filed(d)
                 R == [infohash : Int, counted : Int]
      <4>1. batch \in 1 .. NumBatches /\ results' = results \o more
        BY <2>1, <2>2, <3>2
      <4>2. \E n \in 0 .. Len(Batch(batch)) : d.counts = SubSeq(Batch(batch), 1, n)
        BY <1>4, <3>2 DEF Expects, ScrapeIInv, AnswersOK
      <4>3. /\ more \in Seq(R)
            /\ \A i \in DOMAIN more : /\ more[i].counted = Before(batch) + i
                                      /\ more[i].infohash = Before(batch) + i /\ i <= BatchSize
        BY <4>1, <4>2, FiledRight
      <4>4. /\ Before(batch) \in Int /\ Before(batch + 1) = Before(batch) + BatchSize
            /\ BatchSize \in Nat
        BY <2>2, BeforeNext, Sizes
      <4> HIDE DEF more, R
      <4>5. /\ results \in Seq(R) /\ Len(results) \in Nat /\ Len(more) \in Nat
            /\ DOMAIN results = 1 .. Len(results) /\ DOMAIN more = 1 .. Len(more)
        BY <2>5, <4>3 DEF FiledOK, R
      <4>6. /\ results' \in Seq(R) /\ DOMAIN results' = 1 .. (Len(results) + Len(more))
            /\ \A i \in DOMAIN results' :
                 results'[i] = IF i <= Len(results) THEN results[i] ELSE more[i - Len(results)]
        BY <4>1, <4>3, <4>5
      <4>7. \A i \in DOMAIN results : results[i].infohash \in Int
        <5>1. \A i \in DOMAIN results : results[i] \in R
          BY <4>5, ElementOfSeq
        <5> QED BY <5>1 DEF R
      <4>8. \A i \in DOMAIN results :
              /\ results[i].counted = results[i].infohash
              /\ results[i].infohash <= Before(batch)
        BY <2>5 DEF FiledOK
      <4>9. ASSUME NEW i \in DOMAIN results'
            PROVE  /\ results'[i].counted = results'[i].infohash
                   /\ results'[i].infohash <= Before(batch + 1)
        <5>1. CASE i <= Len(results)
          BY <4>4, <4>5, <4>6, <4>7, <4>8, <4>9, <5>1
        <5>2. CASE ~ (i <= Len(results))
          <6>1. i - Len(results) \in DOMAIN more
            BY <4>5, <4>6, <4>9, <5>2
          <6> QED BY <4>3, <4>4, <4>5, <4>6, <4>9, <5>2, <6>1
        <5> QED BY <5>1, <5>2
      <4>10. ASSUME NEW i \in DOMAIN results', NEW j \in DOMAIN results', i < j
             PROVE  results'[i].infohash < results'[j].infohash
        <5>1. i \in Nat /\ j \in Nat
          BY <4>5, <4>6, <4>10
        <5>2. CASE j <= Len(results)
          <6>1. i \in DOMAIN results /\ j \in DOMAIN results
            BY <4>5, <4>6, <4>10, <5>1, <5>2
          <6> QED BY <2>5, <4>6, <4>10, <5>1, <5>2, <6>1 DEF FiledOK
        <5>3. CASE ~ (j <= Len(results)) /\ i <= Len(results)
          <6>1. i \in DOMAIN results /\ j - Len(results) \in DOMAIN more /\ j - Len(results) >= 1
            BY <4>5, <4>6, <4>10, <5>1, <5>3
          <6>2. results'[j].infohash = Before(batch) + (j - Len(results))
            BY <4>3, <4>6, <5>3, <6>1
          <6>3. results'[i].infohash <= Before(batch) /\ results'[i].infohash \in Int
            BY <4>6, <4>7, <4>8, <5>3, <6>1
          <6> QED BY <4>4, <4>5, <5>1, <6>1, <6>2, <6>3
        <5>4. CASE ~ (j <= Len(results)) /\ ~ (i <= Len(results))
          <6>1. i - Len(results) \in DOMAIN more /\ j - Len(results) \in DOMAIN more
            BY <4>5, <4>6, <4>10, <5>1, <5>4
          <6>2. /\ results'[i].infohash = Before(batch) + (i - Len(results))
                /\ results'[j].infohash = Before(batch) + (j - Len(results))
            BY <4>3, <4>6, <5>4, <6>1
          <6> QED BY <4>4, <4>5, <4>10, <5>1, <6>2
        <5> QED BY <5>2, <5>3, <5>4
      <4>11. batch' # 0 /\ batch' = batch + 1
        BY <2>1, <2>2
      <4>12. results' \in Seq([infohash : Int, counted : Int])
        BY <4>6 DEF R
      <4>13. \A i \in DOMAIN results' :
               results'[i].counted = results'[i].infohash /\ results'[i].infohash <= Before(batch')
        BY <4>9, <4>11
      <4> QED BY <4>10, <4>11, <4>12, <4>13, Zenon DEF FiledOK
    <3> QED BY <3>1, <3>2
  <2> QED BY <1>2, <2>1, <2>3, <2>4, <2>6 DEF ScrapeIInv
<1> QED BY <1>3, <1>4

LEMMA TimeoutKeeps == ScrapeIInv /\ Timeout => ScrapeIInv'
<1> SUFFICES ASSUME ScrapeIInv, Timeout PROVE ScrapeIInv'
  OBVIOUS
<1> USE DEF Timeout
<1>1. ScrapeTypeOK'
  BY AbandonClears DEF ScrapeIInv, ScrapeTypeOK, Abandon
<1>2. OutcomeOK'
  BY DEF ScrapeIInv, OutcomeOK, SilentOnlyWithoutSeeders
<1> QED BY <1>1, <1>2, AbandonClears DEF ScrapeIInv

LEMMA AcceptKeeps == ScrapeIInv /\ Accept => ScrapeIInv'
<1> SUFFICES ASSUME ScrapeIInv, Accept PROVE ScrapeIInv'
  OBVIOUS
<1> USE DEF Accept
<1>1. tracker \in asked /\ verdict = "open"
  BY DEF ScrapeIInv, ScrapeTypeOK, Complete, Asking
<1>2. ScrapeTypeOK'
  BY <1>1, AbandonClears DEF ScrapeIInv, ScrapeTypeOK, Abandon
<1>3. OutcomeOK'
  BY <1>1 DEF ScrapeIInv, OutcomeOK, SilentOnlyWithoutSeeders
<1> QED BY <1>2, <1>3, AbandonClears DEF ScrapeIInv

LEMMA CallKeeps == ScrapeIInv /\ (Exhausted \/ GiveUp \/ Cancel \/ UNCHANGED scrapeVars) => ScrapeIInv'
<1> SUFFICES ASSUME ScrapeIInv, Exhausted \/ GiveUp \/ Cancel \/ UNCHANGED scrapeVars PROVE ScrapeIInv'
  OBVIOUS
<1> USE DEF Exhausted, GiveUp, Cancel, scrapeVars, connVars
<1>1. ScrapeTypeOK'
  BY DEF ScrapeIInv, ScrapeTypeOK
<1>2. AnswersOK' /\ FiledOK' /\ (sent' => batch' <= NumBatches)
  BY DEF ScrapeIInv, AnswersOK, FiledOK
<1>3. OutcomeOK'
  BY DEF ScrapeIInv, OutcomeOK, SilentOnlyWithoutSeeders
<1> QED BY <1>1, <1>2, <1>3 DEF ScrapeIInv

LEMMA Invariant == ScrapeSpec => []ScrapeIInv
<1>1. ScrapeIInv /\ [ScrapeNext]_scrapeVars => ScrapeIInv'
  BY DialKeeps, SendKeeps, ReadKeeps, TimeoutKeeps, AcceptKeeps, CallKeeps DEF ScrapeNext, Client
<1> QED BY <1>1, Starts, PTL DEF ScrapeSpec

-----------------------------------------------------------------------------
(* The theorems about the tracker client.                                  *)

\* However answers are delayed, duplicated and cut short, none is filed under another
\* torrent than it counts, and no torrent has two results (scrapeTracker, scrapeBatch).
THEOREM CountsFiledRight == ScrapeSpec => []CountsBelongToTorrents
<1>1. ASSUME ScrapeIInv PROVE CountsBelongToTorrents
  <2>1. ASSUME NEW i \in DOMAIN results, NEW j \in DOMAIN results, i # j
        PROVE  results[i].infohash # results[j].infohash
    <3>1. DOMAIN results \subseteq Int /\ \A k \in DOMAIN results : results[k].infohash \in Int
      <4> DEFINE R == [infohash : Int, counted : Int]
      <4>1. results \in Seq(R)
        BY <1>1 DEF ScrapeIInv, FiledOK
      <4> HIDE DEF R
      <4>2. DOMAIN results \subseteq Int /\ \A k \in DOMAIN results : results[k] \in R
        BY <4>1, ElementOfSeq, LenProperties
      <4> QED BY <4>2 DEF R
    <3>2. i < j \/ j < i
      BY <2>1, <3>1
    <3> QED BY <1>1, <3>1, <3>2 DEF ScrapeIInv, FiledOK
  <2> QED BY <1>1, <2>1 DEF ScrapeIInv, FiledOK, CountsBelongToTorrents
<1> QED BY <1>1, Invariant, PTL

\* A call returns what one tracker said in whole, and no seeders only when none of those
\* that answered in whole had named one (Scrape).
THEOREM SilentWithoutSeeders == ScrapeSpec => []SilentOnlyWithoutSeeders
<1>1. ScrapeIInv => SilentOnlyWithoutSeeders
  BY DEF ScrapeIInv, OutcomeOK
<1> QED BY <1>1, Invariant, PTL

=============================================================================
