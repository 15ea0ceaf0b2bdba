---------------------------- MODULE MetadataFetch ----------------------------
(***************************************************************************)
(* Fetching a torrent's info dictionary from a peer (metadata/fetch.go):   *)
(* dial, BitTorrent handshake, extension handshake (BEP 10), the pieces of *)
(* ut_metadata (BEP 9) one after the other, and the SHA-1 of the result.   *)
(*                                                                         *)
(* The peer is the environment: it may send any message at any time, the   *)
(* wrong one, one that nobody asked for, or none.  The connection has one  *)
(* absolute deadline; ending the context does not interrupt a read.        *)
(*                                                                         *)
(* Data is counted in units.  What has been assembled is the number of     *)
(* units of the torrent's info dictionary it agrees with, or Spoiled once  *)
(* it differs: only the dictionary itself has the infohash as its SHA-1.   *)
(***************************************************************************)
EXTENDS Integers

CONSTANTS
    Fetches,            \* the calls of Fetch
    InfoSize,           \* units of the torrent's info dictionary
    PieceSize,          \* units of a piece (16384 bytes)
    MaxMetadataSize,    \* in units
    MaxSize             \* bound: metadata_size a peer claims

ASSUME MetadataAssumption ==
    /\ {InfoSize, PieceSize, MaxMetadataSize} \subseteq Nat \ {0}
    /\ MaxSize \in Nat

Spoiled == -1

Content == 0 .. InfoSize \cup {Spoiled}

\* numPieces for a claimed size.
NumPieces(size) == (size + PieceSize - 1) \div PieceSize

MaxPieces == NumPieces(MaxMetadataSize)

\* A peer's answer to the handshake: unreadable or of another protocol, or its
\* extension bit and whether it names our infohash.
Greetings == [extended : BOOLEAN, ours : BOOLEAN]

Unreadable == [kind |-> "unreadable"]

\* What readMsg returns.  "other" is whatever both loops skip: keep-alives, messages
\* that are not extension messages, empty ones, and ones that do not decode.  An
\* over-long message is an error, as is a broken connection.  The data of a piece
\* continues the info dictionary by so many units, whatever its size, or by
\* something else.
Messages ==
    {Unreadable, [kind |-> "other"]}
        \cup [kind : {"handshake"}, ut_metadata : BOOLEAN, size : 0 .. MaxSize]
        \cup [kind : {"data"}, piece : 0 .. (MaxPieces - 1), units : Content]

VARIABLE
    fetch   \* where each call is: the piece it asked for last, how many there are, and
            \* what it has assembled

Idle == [at |-> "idle", piece |-> 0, pieces |-> 0, assembled |-> 0]

FetchTypeOK ==
    fetch \in [Fetches -> [at : {"idle", "dial", "handshake", "extension", "pieces", "verify",
                                 "done", "failed"},
                           piece : 0 .. MaxPieces,
                           pieces : 0 .. MaxPieces,
                           assembled : Content]]

FetchInit == fetch = [f \in Fetches |-> Idle]

Moves(f, place) == fetch' = [fetch EXCEPT ![f].at = place]

Succeeds(f) ==
    fetch' = [fetch EXCEPT ![f] = [Idle EXCEPT !.at = "done", !.assembled = fetch[f].assembled]]

Fails(f) == fetch' = [fetch EXCEPT ![f] = [Idle EXCEPT !.at = "failed"]]

\* Reading from the peer's connection.
Reading(f) == fetch[f].at \in {"handshake", "extension", "pieces"}

Dial(f) ==
    /\ fetch[f].at = "dial"
    /\ Moves(f, "handshake") \/ Fails(f)

\* Our handshake is out; the peer's comes back.
ReadHandshake(f) ==
    /\ fetch[f].at = "handshake"
    /\ \/ Fails(f)
       \/ \E g \in Greetings :
            IF g.extended /\ g.ours THEN Moves(f, "extension") ELSE Fails(f)

\* The loop that waits for the extension handshake, and the checks of what it says.
ReadExtension(f, m) ==
    /\ fetch[f].at = "extension"
    /\ CASE m = Unreadable -> Fails(f)
         [] m.kind = "handshake" ->
              IF m.ut_metadata /\ m.size \in 1 .. MaxMetadataSize
              THEN fetch' = [fetch EXCEPT ![f] = [at |-> "pieces", piece |-> 0,
                                                  pieces |-> NumPieces(m.size), assembled |-> 0]]
              ELSE Fails(f)
         [] OTHER -> UNCHANGED fetch

\* The data appended to what is there.
Assembled(a, units) ==
    IF a = Spoiled \/ units = Spoiled \/ a + units > InfoSize THEN Spoiled ELSE a + units

\* The loop that waits for the piece asked for: data of another piece, a rejection and
\* everything else is skipped.  After the last piece nothing more is read.
ReadPiece(f, m) ==
    /\ fetch[f].at = "pieces"
    /\ CASE m = Unreadable -> Fails(f)
         [] m.kind = "data" /\ m.piece = fetch[f].piece ->
              fetch' = [fetch EXCEPT ![f].piece = @ + 1,
                                     ![f].assembled = Assembled(@, m.units),
                                     ![f].at = IF m.piece + 1 = fetch[f].pieces
                                               THEN "verify" ELSE "pieces"]
         [] OTHER -> UNCHANGED fetch

\* Faulty variant: what has the right size is taken for the dictionary.
VerifySize(f) ==
    /\ fetch[f].at = "verify"
    /\ \/ fetch[f].assembled \in {InfoSize, Spoiled} /\ Succeeds(f)
       \/ Fails(f)

\* The SHA-1 decides; the dictionary may still not decode.
Verify(f) ==
    /\ fetch[f].at = "verify"
    /\ \/ fetch[f].assembled = InfoSize /\ Succeeds(f)
       \/ Fails(f)

\* Faulty variant: only the dial has a time limit.
DialTimeout(f) ==
    /\ fetch[f].at = "dial"
    /\ Fails(f)

\* The dial timeout, or the deadline of the connection.
Deadline(f) ==
    /\ fetch[f].at = "dial" \/ Reading(f)
    /\ Fails(f)

Progress(f) ==
    \/ Dial(f)
    \/ ReadHandshake(f)
    \/ \E m \in Messages : ReadExtension(f, m) \/ ReadPiece(f, m)
    \/ Verify(f)
    \/ Deadline(f)

=============================================================================
