----------------------------- MODULE IndexPaging -----------------------------
(***************************************************************************)
(* Which rows a pass of the index command sees (indexer/index.go Run): it  *)
(* counts the torrents once and then pages through them by LIMIT and       *)
(* OFFSET in the order of their infohashes, while the indexer inserts rows *)
(* and the API deletes them.  What it does with a row is Reclassify of     *)
(* TorrentLifecycle.                                                       *)
(***************************************************************************)
EXTENDS Integers, FiniteSets, FiniteSetsExt

CONSTANTS
    NumInfohashes,  \* infohashes, by their order
    PageSize,       \* batchSize of Run
    MaxChanges      \* bound: rows inserted or deleted during a pass

ASSUME PagingAssumption ==
    /\ NumInfohashes \in Nat
    /\ PageSize \in Nat \ {0}
    /\ MaxChanges \in Nat

Infohashes == 1 .. NumInfohashes

VARIABLES
    stored,     \* the infohashes in table torrents
    pass,       \* where Run is: "idle", "pages", "rows", "done"
    total,      \* the number of torrents it counted
    offset,
    page,       \* infohashes of the page it has yet to scan
    scanned,    \* how often it scanned each infohash
    lasting,    \* history: infohashes stored ever since the count
    inserted,   \* history: rows inserted since the count
    deleted     \* history: rows deleted since the count

passVars == <<pass, total, offset, page, scanned>>
pagingVars == <<stored, passVars, lasting, inserted, deleted>>

PagingInit ==
    /\ stored \in SUBSET Infohashes
    /\ pass = "idle" /\ total = 0 /\ offset = 0 /\ page = {}
    /\ scanned = [h \in Infohashes |-> 0]
    /\ lasting = {} /\ inserted = 0 /\ deleted = 0

-----------------------------------------------------------------------------
\* CountTorrents, at the start of a pass.
CountTorrents ==
    /\ pass \in {"idle", "done"}
    /\ total' = Cardinality(stored)
    /\ pass' = "pages" /\ offset' = 0 /\ page' = {}
    /\ scanned' = [h \in Infohashes |-> 0]
    /\ lasting' = stored /\ inserted' = 0 /\ deleted' = 0
    /\ UNCHANGED stored

Rank(h) == Cardinality({g \in stored : g < h})

\* Faulty variant: the order of the rows is the database's.
PagesUnordered == {P \in SUBSET stored : Cardinality(P) = Min({PageSize, Max({Cardinality(stored) - offset, 0})})}

\* GetTorrentsToIndex: ORDER BY infohash LIMIT batchSize OFFSET offset.
Pages == {{h \in stored : Rank(h) \in offset .. (offset + PageSize - 1)}}

MorePages == offset < total

\* A page that has become empty is no end of the loop.
FetchPage ==
    /\ pass = "pages"
    /\ MorePages
    /\ page' \in Pages
    /\ pass' = "rows"
    /\ UNCHANGED <<stored, total, offset, scanned, lasting, inserted, deleted>>

\* A row of the page, whether it is still stored or not.
ScanRow ==
    /\ pass = "rows"
    /\ page # {}
    /\ scanned' = [scanned EXCEPT ![Min(page)] = @ + 1]
    /\ page' = page \ {Min(page)}
    /\ UNCHANGED <<stored, pass, total, offset, lasting, inserted, deleted>>

NextPage ==
    /\ pass = "rows"
    /\ page = {}
    /\ offset' = offset + PageSize
    /\ pass' = "pages"
    /\ UNCHANGED <<stored, total, page, scanned, lasting, inserted, deleted>>

PassEnds ==
    /\ pass = "pages"
    /\ ~ MorePages
    /\ pass' = "done"
    /\ UNCHANGED <<stored, total, offset, page, scanned, lasting, inserted, deleted>>

\* A statement fails, or the context has ended before a page: the pass is given up.
PassFails ==
    /\ pass \in {"pages", "rows"}
    /\ pass' = "idle" /\ page' = {}
    /\ UNCHANGED <<stored, total, offset, scanned, lasting, inserted, deleted>>

-----------------------------------------------------------------------------
(* The other writers.                                                      *)

MayChange == inserted + deleted < MaxChanges

UpsertTorrentPending(h) ==
    /\ MayChange /\ h \notin stored
    /\ stored' = stored \cup {h}
    /\ inserted' = inserted + 1
    /\ UNCHANGED <<passVars, lasting, deleted>>

DeleteRow(h) ==
    /\ MayChange /\ h \in stored
    /\ stored' = stored \ {h}
    /\ lasting' = lasting \ {h}
    /\ deleted' = deleted + 1
    /\ UNCHANGED <<passVars, inserted>>

PagingNext ==
    \/ CountTorrents \/ FetchPage \/ ScanRow \/ NextPage \/ PassEnds \/ PassFails
    \/ \E h \in Infohashes : UpsertTorrentPending(h) \/ DeleteRow(h)

PagingSpec == PagingInit /\ [][PagingNext]_pagingVars

-----------------------------------------------------------------------------
PagingTypeOK ==
    /\ stored \subseteq Infohashes /\ page \subseteq Infohashes /\ lasting \subseteq stored
    /\ pass \in {"idle", "pages", "rows", "done"}
    /\ total \in 0 .. NumInfohashes /\ offset \in Nat
    /\ scanned \in [Infohashes -> Nat]

\* Rows move across the borders of pages when others are inserted or deleted, but each
\* such change makes the pass miss at most one torrent that is there all the time, and
\* only an insertion makes it see one twice: undisturbed, a pass sees every torrent once
\* (indexer/index.go:47 and 52).
PassMissesFew ==
    /\ PagingTypeOK
    /\ pass = "done" => Cardinality({h \in lasting : scanned[h] = 0}) <= inserted + deleted
    /\ Cardinality({h \in lasting : scanned[h] > 1}) <= inserted

=============================================================================
