------------------------------ MODULE MCCrawler ------------------------------
(* Two nodes, each of them pushed up to twice. *)
EXTENDS Crawler, TLC

CONSTANTS n1, n2

=============================================================================
