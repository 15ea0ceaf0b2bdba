------------------------- MODULE MCTorrentLifecycle -------------------------
(* One torrent under all of its writers with two indexer workers, and, apart from it, *)
(* the pages of the index command over a table of up to six.  The life of a row does  *)
(* not depend on its neighbours, nor the place of a row on its state, so a behaviour   *)
(* moves one of the two and leaves the other as it starts. *)
EXTENDS TorrentLifecycle, IndexPaging

CONSTANTS t1, w1, w2

VARIABLE view     \* what moves: "row" or "table"

MCInit ==
    /\ Init /\ PagingInit
    /\ view \in {"row", "table"}
    /\ view = "row" => stored = {}

MCNext ==
    /\ UNCHANGED view
    /\ \/ view = "row" /\ Next /\ UNCHANGED pagingVars
       \/ view = "table" /\ PagingNext /\ UNCHANGED vars

MCSpec == MCInit /\ [][MCNext]_<<vars, pagingVars, view>>
=============================================================================
