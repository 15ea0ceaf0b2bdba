-------------------------- MODULE TorrentLifecycle --------------------------
(***************************************************************************)
(* The life of a torrent row in PostgreSQL under its independent writers:  *)
(*   - the indexer workers (indexer/worker.go) that create and classify it, *)
(*   - the reindexing command (indexer/index.go),                          *)
(*   - the scraper and the dead-torrent detector (scrape/worker.go),       *)
(*   - the HTTP API (service/torrents.go).                                 *)
(* Each SQL statement is one atomic step and no code uses a transaction,   *)
(* so between the statements of one writer any other may act: what a       *)
(* writer read earlier is kept in its own variable until it writes.        *)
(*                                                                         *)
(* The classifier's verdict and the trackers' counts are nondeterministic; *)
(* time appears as two flags of the row.  Tracker rows, scrape history and *)
(* the classified fields are left out.                                     *)
(***************************************************************************)
EXTENDS Integers, FiniteSets

CONSTANTS
    Torrents,       \* infohashes
    Workers,        \* indexer workers
    BatchSize,      \* scrape.batch_size
    Reindexing,     \* whether the index command may run
    ApiOps          \* which writes the API receives: a subset of {"state", "delete"}

ASSUME LifecycleAssumption ==
    /\ BatchSize \in Nat \ {0}
    /\ Reindexing \in BOOLEAN
    /\ ApiOps \subseteq {"state", "delete"}

States == {"pending", "classified", "enriched", "active", "dead", "rejected"}

VARIABLES
    rows,       \* table torrents: a record per infohash present
    files,      \* table torrent_files: how many times each torrent's files were inserted
    step,       \* where each indexer worker is
    job,        \* the infohash it works on
    batch,      \* the scraper's batch: the state it read for each torrent still to apply
    doomed,     \* the dead candidates the detector has yet to mark
    reread,     \* the reindexer's page: the state it read for each torrent still to reclassify
    activated,  \* history: rows the scraper made active
    vouched,    \* history: torrents a tracker reported seeded, or the API declared active
    overruled   \* history: torrents the API wrote, or whose state the index command changed

indexVars  == <<step, job>>
readVars   == <<batch, doomed, reread>>
historyVars == <<activated, vouched, overruled>>
vars == <<rows, files, indexVars, readVars, historyVars>>

-----------------------------------------------------------------------------
\* seeded: seeders > 0.  scraped: scrape_at is set.  due: scrape_at is unset or
\* past.  silent: last_seen (or first_seen) is before the dead cutoff.
Row == [state : States, seeded : BOOLEAN, scraped : BOOLEAN, due : BOOLEAN, silent : BOOLEAN]

NewRow == [state |-> "pending", seeded |-> FALSE, scraped |-> FALSE, due |-> TRUE, silent |-> FALSE]

Exists(t) == t \in DOMAIN rows

\* UPDATE torrents ... WHERE infohash = t: no row, no effect.
UpdateRow(t, new) == rows' = IF Exists(t) THEN [rows EXCEPT ![t] = new] ELSE rows

Empty == [t \in {} |-> "none"]

Init ==
    /\ rows = Empty
    /\ files = [t \in Torrents |-> 0]
    /\ step = [w \in Workers |-> "idle"]
    /\ job \in [Workers -> Torrents]
    /\ batch = Empty
    /\ doomed = {}
    /\ reread = Empty
    /\ activated = {}
    /\ vouched = {}
    /\ overruled = {}

-----------------------------------------------------------------------------
(* The indexer workers: process.                                           *)

\* Verdicts of classify.Classify.
Verdicts == {"classified", "rejected"}

Goto(w, s) == step' = [step EXCEPT ![w] = s]

\* A discovered infohash with no row: its metadata is fetched.  A known one is
\* a duplicate and ends here.
Lookup(w, t) ==
    /\ step[w] = "idle"
    /\ ~ Exists(t)
    /\ Goto(w, "fetched")
    /\ job' = [job EXCEPT ![w] = t]
    /\ UNCHANGED <<rows, files, readVars, historyVars>>

\* Faulty variant: the number of affected rows is not looked at.
UpsertAnyway(w) ==
    LET t == job[w] IN
    /\ step[w] = "fetched"
    /\ Goto(w, "upserted")
    /\ rows' = [u \in DOMAIN rows \cup {t} |-> IF Exists(u) THEN rows[u] ELSE NewRow]
    /\ UNCHANGED <<files, job, readVars, historyVars>>

\* UpsertTorrentPending: ON CONFLICT DO NOTHING; the worker whose insert
\* affected no row stops.
Upsert(w) ==
    LET t == job[w] IN
    /\ step[w] = "fetched"
    /\ IF Exists(t)
       THEN /\ Goto(w, "idle")
            /\ UNCHANGED rows
       ELSE /\ Goto(w, "upserted")
            /\ rows' = [u \in DOMAIN rows \cup {t} |-> IF u = t THEN NewRow ELSE rows[u]]
    /\ UNCHANGED <<files, job, readVars, historyVars>>

\* InsertTorrentFiles: the foreign key fails when the row is gone.
InsertFiles(w) ==
    LET t == job[w] IN
    /\ step[w] = "upserted"
    /\ IF Exists(t)
       THEN /\ files' = [files EXCEPT ![t] = @ + 1]
            /\ Goto(w, "filed")
       ELSE /\ Goto(w, "idle")
            /\ UNCHANGED files
    /\ UNCHANGED <<rows, job, readVars, historyVars>>

\* UpdateTorrentClassified, whatever the state is by now.
Classify(w) ==
    LET t == job[w] IN
    /\ step[w] = "filed"
    /\ \E v \in Verdicts : UpdateRow(t, [rows[t] EXCEPT !.state = v])
    /\ Goto(w, "idle")
    /\ UNCHANGED <<files, job, readVars, historyVars>>

\* No peer had the metadata, the content is blocked, a statement failed or the
\* process died: process returns and nothing retries what is left.
Abandon(w) ==
    /\ step[w] # "idle"
    /\ Goto(w, "idle")
    /\ UNCHANGED <<rows, files, job, readVars, historyVars>>

Index(w) ==
    \/ \E t \in Torrents : Lookup(w, t)
    \/ Upsert(w) \/ InsertFiles(w) \/ Classify(w) \/ Abandon(w)

-----------------------------------------------------------------------------
(* The index command: Run.                                                 *)

\* Faulty variant: every torrent gets its new verdict.
ResolvedStateOfAll(current, verdict) == verdict

\* resolveState
ResolvedState(current, verdict) ==
    IF current \in {"pending", "rejected"} THEN verdict ELSE current

\* GetTorrentsToIndex, a page of all rows.
ReadPage ==
    /\ Reindexing
    /\ reread = Empty
    /\ DOMAIN rows # {}
    /\ reread' = [t \in DOMAIN rows |-> rows[t].state]
    /\ UNCHANGED <<rows, files, indexVars, batch, doomed, historyVars>>

\* One torrent of the page: the state read with the page is written back, or
\* its verdict, unless neither state nor content type changed.
Reclassify(t) ==
    /\ t \in DOMAIN reread
    /\ reread' = [u \in DOMAIN reread \ {t} |-> reread[u]]
    /\ \E v \in Verdicts, retyped \in BOOLEAN :
         LET new == ResolvedState(reread[t], v) IN
         IF retyped \/ new # reread[t]
         THEN /\ UpdateRow(t, [rows[t] EXCEPT !.state = new])
              /\ overruled' = IF Exists(t) /\ rows[t].state # new
                              THEN overruled \cup {t} ELSE overruled
         ELSE UNCHANGED <<rows, overruled>>
    /\ UNCHANGED <<files, indexVars, batch, doomed, activated, vouched>>

\* A failed statement ends the run.
ReindexFails ==
    /\ reread # Empty
    /\ reread' = Empty
    /\ UNCHANGED <<rows, files, indexVars, batch, doomed, historyVars>>

Reindex == ReadPage \/ ReindexFails \/ \E t \in Torrents : Reclassify(t)

-----------------------------------------------------------------------------
(* The scraper: scrapeOnce and applyResult.                                *)

\* Faulty variants: the counts are not looked at; an unseeded torrent starts over.
StateAfterAnyScrape(current, seeded) ==
    IF current \in {"classified", "enriched"} THEN "active" ELSE current

StateAfterFreshScrape(current, seeded) == IF seeded THEN "active" ELSE "classified"

\* newState
StateAfterScrape(current, seeded) ==
    IF seeded /\ current \in {"classified", "enriched"} THEN "active" ELSE current

\* Faulty variant: torrents of every state are scraped.
DueRowsOfAnyState == {t \in DOMAIN rows : rows[t].due}

DueRows == {t \in DOMAIN rows : rows[t].due /\ rows[t].state \in {"classified", "enriched", "active"}}

\* GetTorrentsToScrape: the state is read here and written back after the
\* trackers have answered.
SelectBatch ==
    /\ batch = Empty
    /\ \E S \in SUBSET DueRows :
         /\ S # {}
         /\ S = DueRows \/ Cardinality(S) = BatchSize
         /\ Cardinality(S) <= BatchSize
         /\ batch' = [t \in S |-> rows[t].state]
    /\ UNCHANGED <<rows, files, indexVars, doomed, reread, historyVars>>

\* The trackers fail for the batch, report nothing for some of it, or a statement
\* of applyResult fails: those torrents are left for a later batch.
ScrapeFails ==
    /\ \E S \in SUBSET DOMAIN batch : S # DOMAIN batch /\ batch' = [t \in S |-> batch[t]]
    /\ UNCHANGED <<rows, files, indexVars, doomed, reread, historyVars>>

\* applyResult ending in UpdateTorrentScrape; last_seen moves only for a seeded torrent.
ApplyScrape(t) ==
    /\ t \in DOMAIN batch
    /\ batch' = [u \in DOMAIN batch \ {t} |-> batch[u]]
    /\ \E seeded \in BOOLEAN :
         LET new == StateAfterScrape(batch[t], seeded) IN
         /\ UpdateRow(t, [state |-> new, seeded |-> seeded, scraped |-> TRUE, due |-> FALSE,
                          silent |-> rows[t].silent /\ ~ seeded])
         /\ vouched' = IF seeded THEN vouched \cup {t} ELSE vouched
         /\ activated' = IF Exists(t) /\ new = "active" THEN activated \cup {t} ELSE activated
    /\ UNCHANGED <<files, indexVars, doomed, reread, overruled>>

Scrape == SelectBatch \/ ScrapeFails \/ \E t \in Torrents : ApplyScrape(t)

-----------------------------------------------------------------------------
(* The dead-torrent detector: detectDead.                                  *)

\* GetDeadCandidates; its limit of 1000 rows is taken to be enough.
DeadCandidates ==
    {t \in DOMAIN rows : /\ ~ rows[t].seeded
                         /\ rows[t].scraped
                         /\ rows[t].state \notin {"dead", "rejected"}
                         /\ rows[t].silent}

SelectDead ==
    /\ doomed = {}
    /\ DeadCandidates # {}
    /\ doomed' = DeadCandidates
    /\ UNCHANGED <<rows, files, indexVars, batch, reread, historyVars>>

\* UpdateTorrentDead, whatever the row holds by now; or the statement fails.
MarkDead(t) ==
    /\ t \in doomed
    /\ doomed' = doomed \ {t}
    /\ UpdateRow(t, [rows[t] EXCEPT !.state = "dead"]) \/ UNCHANGED rows
    /\ UNCHANGED <<files, indexVars, batch, reread, historyVars>>

DetectDead == SelectDead \/ \E t \in Torrents : MarkDead(t)

-----------------------------------------------------------------------------
(* The API, and time.                                                      *)

UpdateTorrentState(t, s) ==
    /\ "state" \in ApiOps
    /\ Exists(t)
    /\ UpdateRow(t, [rows[t] EXCEPT !.state = s])
    /\ vouched' = IF s = "active" THEN vouched \cup {t} ELSE vouched
    /\ overruled' = overruled \cup {t}
    /\ UNCHANGED <<files, indexVars, readVars, activated>>

\* The files go with the row (ON DELETE CASCADE).
DeleteTorrent(t) ==
    /\ "delete" \in ApiOps
    /\ Exists(t)
    /\ rows' = [u \in DOMAIN rows \ {t} |-> rows[u]]
    /\ files' = [files EXCEPT ![t] = 0]
    /\ activated' = activated \ {t}
    /\ overruled' = overruled \cup {t}
    /\ UNCHANGED <<indexVars, readVars, vouched>>

\* The next scrape falls due; the dead cutoff passes.
TimePasses(t) ==
    /\ Exists(t)
    /\ \/ ~ rows[t].due /\ rows' = [rows EXCEPT ![t].due = TRUE]
       \/ ~ rows[t].silent /\ rows' = [rows EXCEPT ![t].silent = TRUE]
    /\ UNCHANGED <<files, indexVars, readVars, historyVars>>

-----------------------------------------------------------------------------
Next ==
    \/ \E w \in Workers : Index(w)
    \/ Reindex
    \/ Scrape
    \/ DetectDead
    \/ \E t \in Torrents, s \in States : UpdateTorrentState(t, s)
    \/ \E t \in Torrents : DeleteTorrent(t) \/ TimePasses(t)

Spec == Init /\ [][Next]_vars

-----------------------------------------------------------------------------
(* Properties.                                                             *)

\* Every variable has its type; only read states wait in the batch and the page.
TypeOK ==
    /\ DOMAIN rows \subseteq Torrents /\ rows \in [DOMAIN rows -> Row]
    /\ files \in [Torrents -> Nat]
    /\ step \in [Workers -> {"idle", "fetched", "upserted", "filed"}]
    /\ job \in [Workers -> Torrents]
    /\ DOMAIN batch \subseteq Torrents /\ batch \in [DOMAIN batch -> {"classified", "enriched", "active"}]
    /\ doomed \subseteq Torrents
    /\ DOMAIN reread \subseteq Torrents /\ reread \in [DOMAIN reread -> States]
    /\ activated \subseteq DOMAIN rows
    /\ vouched \subseteq Torrents /\ overruled \subseteq Torrents

\* A torrent discovered by several workers at once has its files stored once:
\* only the worker whose insert created the row goes on (worker.go RowsAffected).
\* Deleting the row while its worker runs breaks this.
FilesStoredOnce ==
    /\ TypeOK
    /\ \A t \in Torrents \ overruled : files[t] <= 1

\* A torrent is served as active only if some tracker reported it seeded, or an
\* operator said so: no stale state written back by the scraper or the
\* reindexer makes one active that never was.
ActiveIsVouchedFor == \A t \in DOMAIN rows : rows[t].state = "active" => t \in vouched

\* The row changed since the index command read its page.
Outdated(t) == t \in DOMAIN reread /\ reread[t] # rows[t].state

\* A torrent stays where it settled, whatever the late classification, scrape or dead mark
\* of another writer holds: rejected for ever, and once the scraper has activated it,
\* active or dead.  It leaves by a write of the API, or by one of the index command, which
\* decides a rejected torrent again and writes the state on its page, or its verdict, over
\* a row that changed since, in spite of index.go:118; but not over one that did not.
\* What becomes of a torrent after it left so is open.
SettledStatesStay ==
    [][\A t \in DOMAIN rows \ overruled :
          \/ /\ t \in overruled'
             /\ UNCHANGED reread \/ Outdated(t) \/ rows[t].state = "rejected"
          \/ /\ rows[t].state = "rejected" => rows'[t].state = "rejected"
             /\ t \in activated => rows'[t].state \in {"active", "dead"}]_vars

=============
