--------------------------- MODULE MCTrackerScrape ---------------------------
(* Two trackers, three torrents in two batches. *)
EXTENDS TrackerScrape
=============================================================================
