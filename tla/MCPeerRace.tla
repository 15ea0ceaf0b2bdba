----------------------------- MODULE MCPeerRace -----------------------------
(* Two infohashes and two peers each for PeerRace. *)
EXTENDS PeerRace

MCFetches == (1 .. NumJobs) \X (1 .. MaxPeers)

=============================================================================
