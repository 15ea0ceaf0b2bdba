--------------------------- MODULE MCSampleQueue ---------------------------
(* A batch of two goroutines and one of another crawler, over two infohashes. *)
EXTENDS SampleQueue, TLC

CONSTANTS h1, h2, s1, s2, s3, w1, c1, c2

MCCrawlerOf == [s \in Samplers |-> IF s = s3 THEN c2 ELSE c1]

=============================================================================
