----------------------- MODULE TorrentLifecycleProofs -----------------------
(***************************************************************************)
(* Proofs about the life of a torrent row under its writers: that its      *)
(* files are stored once, that a row is active only when somebody vouched  *)
(* for it, and that the states in which it settles stay.                   *)
(***************************************************************************)
EXTENDS TorrentLifecycle, IndexPaging, FiniteSetTheorems, WellFoundedInduction, TLAPS

-----------------------------------------------------------------------------
(* The inductive invariant.                                                *)

\* The state "active", in a row or in a state read earlier, was vouched for.
ActiveVouched ==
    /\ \A t \in DOMAIN rows : rows[t].state = "active" => t \in vouched
    /\ \A t \in DOMAIN batch : batch[t] = "active" => t \in vouched
    /\ \A t \in DOMAIN reread : reread[t] = "active" => t \in vouched

\* The worker whose insert created the row, until it has classified it.
Holds(w, t) == job[w] = t /\ step[w] \in {"upserted", "filed"}

\* One worker holds a torrent; its row is pending and has no files before InsertFiles.
HeldOnce(t) ==
    /\ \A v, w \in Workers : Holds(v, t) /\ Holds(w, t) => v = w
    /\ \A w \in Workers :
         Holds(w, t) => /\ Exists(t) /\ rows[t].state = "pending"
                        /\ step[w] = "upserted" => files[t] = 0

FilesOnce(t) == files[t] <= 1 /\ (~ Exists(t) => files[t] = 0)

\* The scraper and the detector hold only torrents that left "pending" and were not
\* rejected; a pending row was never scraped, so the detector passes it over.
ReadSettled(t) ==
    /\ t \in DOMAIN batch \cup doomed => Exists(t) /\ rows[t].state \notin {"pending", "rejected"}
    /\ Exists(t) /\ rows[t].state = "pending" => ~ rows[t].scraped

\* What the scraper made active it never read before that.
ActivatedStays(t) ==
    t \in activated => /\ rows[t].state \in {"active", "dead"}
                       /\ t \in DOMAIN batch => batch[t] = "active"

IInv ==
    /\ TypeOK
    /\ ActiveVouched
    /\ \A t \in Torrents \ overruled :
         HeldOnce(t) /\ FilesOnce(t) /\ ReadSettled(t) /\ ActivatedStays(t)

-----------------------------------------------------------------------------
(* One statement on a row.                                                 *)

\* UPDATE ... WHERE infohash = t changes that row, or none.
LEMMA UpdateRowChanges ==
    ASSUME TypeOK, NEW t \in Torrents, NEW new, Exists(t) => new \in Row, UpdateRow(t, new)
    PROVE  /\ rows' \in [DOMAIN rows -> Row] /\ DOMAIN rows' = DOMAIN rows
           /\ \A u \in DOMAIN rows : rows'[u] = IF u = t THEN new ELSE rows[u]
BY DEF TypeOK, Exists, UpdateRow

\* A statement that sets the state of a row leaves the rest of it.
LEMMA StateUpdate ==
    ASSUME TypeOK, NEW t \in Torrents, NEW s \in States, UpdateRow(t, [rows[t] EXCEPT !.state = s])
    PROVE  /\ rows' \in [DOMAIN rows -> Row] /\ DOMAIN rows' = DOMAIN rows
           /\ \A u \in DOMAIN rows : u # t => rows'[u] = rows[u]
           /\ \A u \in DOMAIN rows : rows'[u].scraped = rows[u].scraped
           /\ t \in DOMAIN rows => rows'[t].state = s
BY UpdateRowChanges DEF TypeOK, Exists, Row

\* What SettledStatesStay states of every step.
SettledStay ==
    \A t \in DOMAIN rows \ overruled :
        \/ /\ t \in overruled'
           /\ UNCHANGED reread \/ Outdated(t) \/ rows[t].state = "rejected"
        \/ /\ rows[t].state = "rejected" => rows'[t].state = "rejected"
           /\ t \in activated => rows'[t].state \in {"active", "dead"}

-----------------------------------------------------------------------------
(* The indexer workers.                                                    *)

\* The torrent is not held until its row is inserted.
LEMMA LookupKeeps ==
    ASSUME IInv, NEW w \in Workers, NEW t \in Torrents, Lookup(w, t)
    PROVE  IInv' /\ SettledStay
<1> USE DEF Lookup, Goto, indexVars, readVars, historyVars
<1>1. TypeOK'
  BY DEF IInv, TypeOK, Row, NewRow, States, Empty
<1>2. ActiveVouched'
  BY DEF IInv, TypeOK, Row, NewRow, ActiveVouched, Empty
<1>3. ASSUME NEW u \in Torrents \ overruled'
      PROVE  HeldOnce(u)' /\ FilesOnce(u)' /\ ReadSettled(u)' /\ ActivatedStays(u)'
  <2>1. u \in Torrents \ overruled /\ HeldOnce(u) /\ FilesOnce(u) /\ ReadSettled(u) /\ ActivatedStays(u)
    BY DEF IInv, TypeOK
  <2>2. HeldOnce(u)'
    BY <2>1 DEF IInv, TypeOK, Row, NewRow, HeldOnce, Holds, FilesOnce, ReadSettled, Exists
  <2>3. FilesOnce(u)'
    BY <2>1 DEF IInv, TypeOK, Row, NewRow, FilesOnce, HeldOnce, Holds, Exists
  <2>4. ReadSettled(u)'
    BY <2>1 DEF IInv, TypeOK, Row, NewRow, ReadSettled, HeldOnce, Holds, Exists, Empty
  <2>5. ActivatedStays(u)'
    BY <2>1 DEF IInv, TypeOK, Row, NewRow, ActivatedStays, ReadSettled, HeldOnce, Holds, Exists, Empty
  <2> QED BY <2>2, <2>3, <2>4, <2>5
<1>4. SettledStay
  BY DEF IInv, TypeOK, Row, NewRow, SettledStay, ActivatedStays, ReadSettled, HeldOnce, Holds, Exists
<1> QED BY <1>1, <1>2, <1>3, <1>4 DEF IInv

\* The worker whose insert creates the row is the only one to go on.
LEMMA UpsertKeeps ==
    ASSUME IInv, NEW w \in Workers, Upsert(w)
    PROVE  IInv' /\ SettledStay
<1> USE DEF Upsert, Goto, indexVars, readVars, historyVars
<1>1. job[w] \in Torrents
  BY DEF IInv, TypeOK
<1>2. /\ rows' \in [DOMAIN rows' -> Row] /\ DOMAIN rows' \subseteq Torrents
      /\ DOMAIN rows \subseteq DOMAIN rows' /\ DOMAIN rows' \subseteq DOMAIN rows \cup {job[w]}
      /\ \A u \in DOMAIN rows : rows'[u] = rows[u]
      /\ ~ Exists(job[w]) => rows'[job[w]] = NewRow /\ job[w] \in DOMAIN rows'
  <2>1. NewRow \in Row
    BY DEF NewRow, Row, States
  <2> HIDE DEF NewRow, Row
  <2>2. CASE Exists(job[w])
    BY <2>2 DEF IInv, TypeOK
  <2>3. CASE ~ Exists(job[w])
    <3>1. rows' = [u \in DOMAIN rows \cup {job[w]} |-> IF u = job[w] THEN NewRow ELSE rows[u]]
      BY <2>3
    <3> QED BY <1>1, <2>1, <2>3, <3>1 DEF IInv, TypeOK, Exists
  <2> QED BY <2>2, <2>3
<1>3. TypeOK'
  BY <1>1, <1>2 DEF IInv, TypeOK, Row, NewRow, States, Empty
<1>4. ActiveVouched'
  BY <1>1, <1>2 DEF IInv, TypeOK, Row, NewRow, ActiveVouched, Empty
<1>5. ASSUME NEW u \in Torrents \ overruled'
      PROVE  HeldOnce(u)' /\ FilesOnce(u)' /\ ReadSettled(u)' /\ ActivatedStays(u)'
  <2>1. u \in Torrents \ overruled /\ HeldOnce(u) /\ FilesOnce(u) /\ ReadSettled(u) /\ ActivatedStays(u)
    BY DEF IInv, TypeOK
  <2>2. HeldOnce(u)'
    BY <1>1, <1>2, <2>1 DEF IInv, TypeOK, Row, NewRow, HeldOnce, Holds, FilesOnce, ReadSettled, Exists
  <2>3. FilesOnce(u)'
    BY <1>1, <1>2, <2>1 DEF IInv, TypeOK, Row, NewRow, FilesOnce, HeldOnce, Holds, Exists
  <2>4. ReadSettled(u)'
    BY <1>1, <1>2, <2>1 DEF IInv, TypeOK, Row, NewRow, ReadSettled, HeldOnce, Holds, Exists, Empty
  <2>5. ActivatedStays(u)'
    BY <1>1, <1>2, <2>1 DEF IInv, TypeOK, Row, NewRow, ActivatedStays, ReadSettled, HeldOnce, Holds, Exists, Empty
  <2> QED BY <2>2, <2>3, <2>4, <2>5
<1>6. SettledStay
  BY <1>1, <1>2 DEF IInv, TypeOK, Row, NewRow, SettledStay, ActivatedStays, ReadSettled, HeldOnce, Holds, Exists
<1> QED BY <1>3, <1>4, <1>5, <1>6 DEF IInv

\* The holder inserts the files, once.
LEMMA InsertFilesKeeps ==
    ASSUME IInv, NEW w \in Workers, InsertFiles(w)
    PROVE  IInv' /\ SettledStay
<1> USE DEF InsertFiles, Goto, indexVars, readVars, historyVars
<1>1. TypeOK'
  BY DEF IInv, TypeOK, Row, NewRow, States, Empty
<1>2. ActiveVouched'
  BY DEF IInv, TypeOK, Row, NewRow, ActiveVouched, Empty
<1>3. ASSUME NEW u \in Torrents \ overruled'
      PROVE  HeldOnce(u)' /\ FilesOnce(u)' /\ ReadSettled(u)' /\ ActivatedStays(u)'
  <2>1. u \in Torrents \ overruled /\ HeldOnce(u) /\ FilesOnce(u) /\ ReadSettled(u) /\ ActivatedStays(u)
    BY DEF IInv, TypeOK
  <2>2. HeldOnce(u)'
    BY <2>1 DEF IInv, TypeOK, Row, NewRow, HeldOnce, Holds, FilesOnce, ReadSettled, Exists
  <2>3. FilesOnce(u)'
    BY <2>1 DEF IInv, TypeOK, Row, NewRow, FilesOnce, HeldOnce, Holds, Exists
  <2>4. ReadSettled(u)'
    BY <2>1 DEF IInv, TypeOK, Row, NewRow, ReadSettled, HeldOnce, Holds, Exists, Empty
  <2>5. ActivatedStays(u)'
    BY <2>1 DEF IInv, TypeOK, Row, NewRow, ActivatedStays, ReadSettled, HeldOnce, Holds, Exists, Empty
  <2> QED BY <2>2, <2>3, <2>4, <2>5
<1>4. SettledStay
  BY DEF IInv, TypeOK, Row, NewRow, SettledStay, ActivatedStays, ReadSettled, HeldOnce, Holds, Exists
<1> QED BY <1>1, <1>2, <1>3, <1>4 DEF IInv

\* The holder classifies a row that is pending still, and lets go of it.
LEMMA ClassifyKeeps ==
    ASSUME IInv, NEW w \in Workers, Classify(w)
    PROVE  IInv' /\ SettledStay
<1> USE DEF Classify, Goto, indexVars, readVars, historyVars
<1>1. job[w] \in Torrents
  BY DEF IInv, TypeOK
<1>2. /\ rows' \in [DOMAIN rows -> Row] /\ DOMAIN rows' = DOMAIN rows
      /\ \A u \in DOMAIN rows : u # job[w] => rows'[u] = rows[u]
      /\ \A u \in DOMAIN rows : rows'[u].scraped = rows[u].scraped
      /\ job[w] \in DOMAIN rows => rows'[job[w]].state \in {"classified", "rejected"}
  BY <1>1, StateUpdate DEF IInv, Verdicts, States
<1>3. TypeOK'
  BY <1>1, <1>2 DEF IInv, TypeOK, Row, NewRow, States, Empty
<1>4. ActiveVouched'
  BY <1>1, <1>2 DEF IInv, TypeOK, Row, NewRow, ActiveVouched, Empty
<1>5. ASSUME NEW u \in Torrents \ overruled'
      PROVE  HeldOnce(u)' /\ FilesOnce(u)' /\ ReadSettled(u)' /\ ActivatedStays(u)'
  <2>1. u \in Torrents \ overruled /\ HeldOnce(u) /\ FilesOnce(u) /\ ReadSettled(u) /\ ActivatedStays(u)
    BY DEF IInv, TypeOK
  <2>2. HeldOnce(u)'
    BY <1>1, <1>2, <2>1 DEF IInv, TypeOK, Row, NewRow, HeldOnce, Holds, FilesOnce, ReadSettled, Exists
  <2>3. FilesOnce(u)'
    BY <1>1, <1>2, <2>1 DEF IInv, TypeOK, Row, NewRow, FilesOnce, HeldOnce, Holds, Exists
  <2>4. ReadSettled(u)'
    BY <1>1, <1>2, <2>1 DEF IInv, TypeOK, Row, NewRow, ReadSettled, HeldOnce, Holds, Exists, Empty
  <2>5. ActivatedStays(u)'
    BY <1>1, <1>2, <2>1 DEF IInv, TypeOK, Row, NewRow, ActivatedStays, ReadSettled, HeldOnce, Holds, Exists, Empty
  <2> QED BY <2>2, <2>3, <2>4, <2>5
<1>6. SettledStay
  BY <1>1, <1>2 DEF IInv, TypeOK, Row, NewRow, SettledStay, ActivatedStays, ReadSettled, HeldOnce, Holds, Exists
<1> QED BY <1>3, <1>4, <1>5, <1>6 DEF IInv

\* The worker lets go of its torrent.
LEMMA AbandonKeeps ==
    ASSUME IInv, NEW w \in Workers, Abandon(w)
    PROVE  IInv' /\ SettledStay
<1> USE DEF Abandon, Goto, indexVars, readVars, historyVars
<1>1. TypeOK'
  BY DEF IInv, TypeOK, Row, NewRow, States, Empty
<1>2. ActiveVouched'
  BY DEF IInv, TypeOK, Row, NewRow, ActiveVouched, Empty
<1>3. ASSUME NEW u \in Torrents \ overruled'
      PROVE  HeldOnce(u)' /\ FilesOnce(u)' /\ ReadSettled(u)' /\ ActivatedStays(u)'
  <2>1. u \in Torrents \ overruled /\ HeldOnce(u) /\ FilesOnce(u) /\ ReadSettled(u) /\ ActivatedStays(u)
    BY DEF IInv, TypeOK
  <2>2. HeldOnce(u)'
    BY <2>1 DEF IInv, TypeOK, Row, NewRow, HeldOnce, Holds, FilesOnce, ReadSettled, Exists
  <2>3. FilesOnce(u)'
    BY <2>1 DEF IInv, TypeOK, Row, NewRow, FilesOnce, HeldOnce, Holds, Exists
  <2>4. ReadSettled(u)'
    BY <2>1 DEF IInv, TypeOK, Row, NewRow, ReadSettled, HeldOnce, Holds, Exists, Empty
  <2>5. ActivatedStays(u)'
    BY <2>1 DEF IInv, TypeOK, Row, NewRow, ActivatedStays, ReadSettled, HeldOnce, Holds, Exists, Empty
  <2> QED BY <2>2, <2>3, <2>4, <2>5
<1>4. SettledStay
  BY DEF IInv, TypeOK, Row, NewRow, SettledStay, ActivatedStays, ReadSettled, HeldOnce, Holds, Exists
<1> QED BY <1>1, <1>2, <1>3, <1>4 DEF IInv

-----------------------------------------------------------------------------
(* The index command.                                                      *)

\* The page holds what the rows hold.
LEMMA ReadPageKeeps ==
    ASSUME IInv, ReadPage
    PROVE  IInv' /\ SettledStay
<1> USE DEF ReadPage, indexVars, readVars, historyVars
<1>1. TypeOK'
  BY DEF IInv, TypeOK, Row, NewRow, States, Empty
<1>2. ActiveVouched'
  BY DEF IInv, TypeOK, Row, NewRow, ActiveVouched, Empty
<1>3. ASSUME NEW u \in Torrents \ overruled'
      PROVE  HeldOnce(u)' /\ FilesOnce(u)' /\ ReadSettled(u)' /\ ActivatedStays(u)'
  <2>1. u \in Torrents \ overruled /\ HeldOnce(u) /\ FilesOnce(u) /\ ReadSettled(u) /\ ActivatedStays(u)
    BY DEF IInv, TypeOK
  <2>2. HeldOnce(u)'
    BY <2>1 DEF IInv, TypeOK, Row, NewRow, HeldOnce, Holds, FilesOnce, ReadSettled, Exists
  <2>3. FilesOnce(u)'
    BY <2>1 DEF IInv, TypeOK, Row, NewRow, FilesOnce, HeldOnce, Holds, Exists
  <2>4. ReadSettled(u)'
    BY <2>1 DEF IInv, TypeOK, Row, NewRow, ReadSettled, HeldOnce, Holds, Exists, Empty
  <2>5. ActivatedStays(u)'
    BY <2>1 DEF IInv, TypeOK, Row, NewRow, ActivatedStays, ReadSettled, HeldOnce, Holds, Exists, Empty
  <2> QED BY <2>2, <2>3, <2>4, <2>5
<1>4. SettledStay
  BY DEF IInv, TypeOK, Row, NewRow, SettledStay, ActivatedStays, ReadSettled, HeldOnce, Holds, Exists
<1> QED BY <1>1, <1>2, <1>3, <1>4 DEF IInv

\* The page is dropped.
LEMMA ReindexFailsKeeps ==
    ASSUME IInv, ReindexFails
    PROVE  IInv' /\ SettledStay
<1> USE DEF ReindexFails, indexVars, readVars, historyVars
<1>1. TypeOK'
  BY DEF IInv, TypeOK, Row, NewRow, States, Empty
<1>2. ActiveVouched'
  BY DEF IInv, TypeOK, Row, NewRow, ActiveVouched, Empty
<1>3. ASSUME NEW u \in Torrents \ overruled'
      PROVE  HeldOnce(u)' /\ FilesOnce(u)' /\ ReadSettled(u)' /\ ActivatedStays(u)'
  <2>1. u \in Torrents \ overruled /\ HeldOnce(u) /\ FilesOnce(u) /\ ReadSettled(u) /\ ActivatedStays(u)
    BY DEF IInv, TypeOK
  <2>2. HeldOnce(u)'
    BY <2>1 DEF IInv, TypeOK, Row, NewRow, HeldOnce, Holds, FilesOnce, ReadSettled, Exists
  <2>3. FilesOnce(u)'
    BY <2>1 DEF IInv, TypeOK, Row, NewRow, FilesOnce, HeldOnce, Holds, Exists
  <2>4. ReadSettled(u)'
    BY <2>1 DEF IInv, TypeOK, Row, NewRow, ReadSettled, HeldOnce, Holds, Exists, Empty
  <2>5. ActivatedStays(u)'
    BY <2>1 DEF IInv, TypeOK, Row, NewRow, ActivatedStays, ReadSettled, HeldOnce, Holds, Exists, Empty
  <2> QED BY <2>2, <2>3, <2>4, <2>5
<1>4. SettledStay
  BY DEF IInv, TypeOK, Row, NewRow, SettledStay, ActivatedStays, ReadSettled, HeldOnce, Holds, Exists
<1> QED BY <1>1, <1>2, <1>3, <1>4 DEF IInv

\* An update that is not counted as overruling leaves the state as it is, nothing
\* becomes active that was not active on the page, and a state that had settled on the
\* page is written back.
LEMMA ReclassifyKeeps ==
    ASSUME IInv, NEW t \in Torrents, Reclassify(t)
    PROVE  IInv' /\ SettledStay
<1> USE DEF Reclassify, indexVars, readVars, historyVars
<1>1. PICK v \in Verdicts, retyped \in BOOLEAN :
        LET new == ResolvedState(reread[t], v) IN
        IF retyped \/ new # reread[t]
        THEN /\ UpdateRow(t, [rows[t] EXCEPT !.state = new])
             /\ overruled' = IF Exists(t) /\ rows[t].state # new
                             THEN overruled \cup {t} ELSE overruled
        ELSE UNCHANGED <<rows, overruled>>
  BY DEF Reclassify
<1> DEFINE new == ResolvedState(reread[t], v)
<1>2. /\ new \in States
      /\ new = "active" => t \in vouched
      /\ reread[t] \notin {"pending", "rejected"} => new = reread[t]
  BY DEF IInv, TypeOK, ActiveVouched, ResolvedState, Verdicts, States
<1> HIDE DEF new
<1>3. /\ rows' \in [DOMAIN rows -> Row] /\ DOMAIN rows' = DOMAIN rows
      /\ \A u \in DOMAIN rows : u # t => rows'[u] = rows[u]
      /\ \A u \in DOMAIN rows : rows'[u].scraped = rows[u].scraped
      /\ \A u \in DOMAIN rows : rows'[u].state = "active" => u \in vouched
      /\ overruled \subseteq overruled' /\ overruled' \subseteq overruled \cup {t}
      /\ t \notin overruled' /\ t \in DOMAIN rows => rows'[t].state = rows[t].state
      /\ t \in overruled' /\ t \notin overruled => rows[t].state # new
  <2>1. CASE UNCHANGED <<rows, overruled>>
    BY <2>1 DEF IInv, TypeOK, ActiveVouched
  <2>2. CASE /\ UpdateRow(t, [rows[t] EXCEPT !.state = new])
             /\ overruled' = IF Exists(t) /\ rows[t].state # new
                             THEN overruled \cup {t} ELSE overruled
    <3>1. /\ rows' \in [DOMAIN rows -> Row] /\ DOMAIN rows' = DOMAIN rows
          /\ \A u \in DOMAIN rows : u # t => rows'[u] = rows[u]
          /\ \A u \in DOMAIN rows : rows'[u].scraped = rows[u].scraped
          /\ t \in DOMAIN rows => rows'[t].state = new
      BY <1>2, <2>2, StateUpdate DEF IInv
    <3> QED BY <1>2, <2>2, <3>1 DEF IInv, ActiveVouched, Exists
  <2> QED BY <1>1, <2>1, <2>2 DEF new
<1>4. TypeOK'
  BY <1>3 DEF IInv, TypeOK, Empty
<1>5. ActiveVouched'
  BY <1>3 DEF IInv, TypeOK, ActiveVouched
<1>6. ASSUME NEW u \in Torrents \ overruled'
      PROVE  HeldOnce(u)' /\ FilesOnce(u)' /\ ReadSettled(u)' /\ ActivatedStays(u)'
  <2>1. u \in Torrents \ overruled /\ HeldOnce(u) /\ FilesOnce(u) /\ ReadSettled(u) /\ ActivatedStays(u)
    BY DEF IInv, TypeOK
  <2>2. HeldOnce(u)'
    BY <1>1, <1>2, <1>3, <2>1 DEF IInv, TypeOK, Row, NewRow, HeldOnce, Holds, FilesOnce, ReadSettled, Exists
  <2>3. FilesOnce(u)'
    BY <1>1, <1>2, <1>3, <2>1 DEF IInv, TypeOK, Row, NewRow, FilesOnce, HeldOnce, Holds, Exists
  <2>4. ReadSettled(u)'
    BY <1>1, <1>2, <1>3, <2>1 DEF IInv, TypeOK, Row, NewRow, ReadSettled, HeldOnce, Holds, Exists, Empty
  <2>5. ActivatedStays(u)'
    BY <1>1, <1>2, <1>3, <2>1 DEF IInv, TypeOK, Row, NewRow, ActivatedStays, ReadSettled, HeldOnce, Holds, Exists, Empty
  <2> QED BY <2>2, <2>3, <2>4, <2>5
<1>7. SettledStay
  <2> SUFFICES ASSUME NEW u \in DOMAIN rows \ overruled
               PROVE  \/ u \in overruled' /\ (Outdated(u) \/ rows[u].state = "rejected")
                      \/ /\ rows[u].state = "rejected" => rows'[u].state = "rejected"
                         /\ u \in activated => rows'[u].state \in {"active", "dead"}
    BY DEF SettledStay
  <2>1. u \in activated => rows[u].state \in {"active", "dead"}
    BY DEF IInv, TypeOK, ActivatedStays
  <2>2. CASE u \notin overruled'
    BY <1>3, <2>1, <2>2
  <2>3. CASE u \in overruled'
    <3>1. u = t /\ t \in DOMAIN reread /\ rows[t].state # new
      BY <1>3, <2>3
    <3> QED BY <1>2, <2>1, <2>3, <3>1 DEF Outdated
  <2> QED BY <2>2, <2>3
<1> QED BY <1>4, <1>5, <1>6, <1>7 DEF IInv

-----------------------------------------------------------------------------
(* The scraper and the detector.                                           *)

\* The batch holds torrents that were classified, with the state of their row.
LEMMA SelectBatchKeeps ==
    ASSUME IInv, SelectBatch
    PROVE  IInv' /\ SettledStay
<1> USE DEF SelectBatch, indexVars, readVars, historyVars
<1>1. PICK S \in SUBSET DueRows : batch' = [t \in S |-> rows[t].state]
  BY DEF SelectBatch
<1>2. S \subseteq DOMAIN rows /\ \A t \in S : rows[t].state \in {"classified", "enriched", "active"}
  BY DEF DueRows
<1>3. DOMAIN batch' = S /\ \A t \in S : batch'[t] = rows[t].state
  BY <1>1
<1>4. TypeOK'
  BY <1>1, <1>2, <1>3 DEF IInv, TypeOK, Row, NewRow, States, Empty
<1>5. ActiveVouched'
  BY <1>1, <1>2, <1>3 DEF IInv, TypeOK, Row, NewRow, ActiveVouched, Empty
<1>6. ASSUME NEW u \in Torrents \ overruled'
      PROVE  HeldOnce(u)' /\ FilesOnce(u)' /\ ReadSettled(u)' /\ ActivatedStays(u)'
  <2>1. u \in Torrents \ overruled /\ HeldOnce(u) /\ FilesOnce(u) /\ ReadSettled(u) /\ ActivatedStays(u)
    BY DEF IInv, TypeOK
  <2>2. HeldOnce(u)'
    BY <1>1, <1>2, <1>3, <2>1 DEF IInv, TypeOK, Row, NewRow, HeldOnce, Holds, FilesOnce, ReadSettled, Exists
  <2>3. FilesOnce(u)'
    BY <1>1, <1>2, <1>3, <2>1 DEF IInv, TypeOK, Row, NewRow, FilesOnce, HeldOnce, Holds, Exists
  <2>4. ReadSettled(u)'
    BY <1>1, <1>2, <1>3, <2>1 DEF IInv, TypeOK, Row, NewRow, ReadSettled, HeldOnce, Holds, Exists, Empty
  <2>5. ActivatedStays(u)'
    BY <1>1, <1>2, <1>3, <2>1 DEF IInv, TypeOK, Row, NewRow, ActivatedStays, ReadSettled, HeldOnce, Holds, Exists, Empty
  <2> QED BY <2>2, <2>3, <2>4, <2>5
<1>7. SettledStay
  BY <1>1, <1>2, <1>3 DEF IInv, TypeOK, Row, NewRow, SettledStay, ActivatedStays, ReadSettled, HeldOnce, Holds, Exists
<1> QED BY <1>4, <1>5, <1>6, <1>7 DEF IInv

\* The batch loses torrents.
LEMMA ScrapeFailsKeeps ==
    ASSUME IInv, ScrapeFails
    PROVE  IInv' /\ SettledStay
<1> USE DEF ScrapeFails, indexVars, readVars, historyVars
<1>1. PICK S \in SUBSET DOMAIN batch : batch' = [t \in S |-> batch[t]]
  BY DEF ScrapeFails
<1>2. DOMAIN batch' \subseteq DOMAIN batch /\ \A t \in DOMAIN batch' : batch'[t] = batch[t]
  BY <1>1
<1>3. TypeOK'
  BY <1>1, <1>2 DEF IInv, TypeOK, Row, NewRow, States, Empty
<1>4. ActiveVouched'
  BY <1>1, <1>2 DEF IInv, TypeOK, Row, NewRow, ActiveVouched, Empty
<1>5. ASSUME NEW u \in Torrents \ overruled'
      PROVE  HeldOnce(u)' /\ FilesOnce(u)' /\ ReadSettled(u)' /\ ActivatedStays(u)'
  <2>1. u \in Torrents \ overruled /\ HeldOnce(u) /\ FilesOnce(u) /\ ReadSettled(u) /\ ActivatedStays(u)
    BY DEF IInv, TypeOK
  <2>2. HeldOnce(u)'
    BY <1>1, <1>2, <2>1 DEF IInv, TypeOK, Row, NewRow, HeldOnce, Holds, FilesOnce, ReadSettled, Exists
  <2>3. FilesOnce(u)'
    BY <1>1, <1>2, <2>1 DEF IInv, TypeOK, Row, NewRow, FilesOnce, HeldOnce, Holds, Exists
  <2>4. ReadSettled(u)'
    BY <1>1, <1>2, <2>1 DEF IInv, TypeOK, Row, NewRow, ReadSettled, HeldOnce, Holds, Exists, Empty
  <2>5. ActivatedStays(u)'
    BY <1>1, <1>2, <2>1 DEF IInv, TypeOK, Row, NewRow, ActivatedStays, ReadSettled, HeldOnce, Holds, Exists, Empty
  <2> QED BY <2>2, <2>3, <2>4, <2>5
<1>6. SettledStay
  BY <1>1, <1>2 DEF IInv, TypeOK, Row, NewRow, SettledStay, ActivatedStays, ReadSettled, HeldOnce, Holds, Exists
<1> QED BY <1>3, <1>4, <1>5, <1>6 DEF IInv

\* The state written is "active" for a seeded torrent, or the one that was read.
LEMMA ApplyScrapeKeeps ==
    ASSUME IInv, NEW t \in Torrents, ApplyScrape(t)
    PROVE  IInv' /\ SettledStay
<1> USE DEF ApplyScrape, indexVars, readVars, historyVars
<1>1. PICK seeded \in BOOLEAN :
        LET new == StateAfterScrape(batch[t], seeded) IN
        /\ UpdateRow(t, [state |-> new, seeded |-> seeded, scraped |-> TRUE, due |-> FALSE,
                         silent |-> rows[t].silent /\ ~ seeded])
        /\ vouched' = IF seeded THEN vouched \cup {t} ELSE vouched
        /\ activated' = IF Exists(t) /\ new = "active" THEN activated \cup {t} ELSE activated
  BY DEF ApplyScrape
<1>2. /\ StateAfterScrape(batch[t], seeded) \in {"classified", "enriched", "active"}
      /\ StateAfterScrape(batch[t], seeded) = "active" => seeded \/ batch[t] = "active"
      /\ batch[t] = "active" => StateAfterScrape(batch[t], seeded) = "active"
  BY DEF IInv, TypeOK, StateAfterScrape
<1>3. /\ rows' \in [DOMAIN rows -> Row] /\ DOMAIN rows' = DOMAIN rows
      /\ \A u \in DOMAIN rows : u # t => rows'[u] = rows[u]
      /\ t \in DOMAIN rows => rows'[t].state = StateAfterScrape(batch[t], seeded)
  <2> DEFINE new == [state |-> StateAfterScrape(batch[t], seeded), seeded |-> seeded,
                     scraped |-> TRUE, due |-> FALSE, silent |-> rows[t].silent /\ ~ seeded]
  <2>1. new \in Row /\ new.state = StateAfterScrape(batch[t], seeded)
    BY <1>2 DEF Row, States
  <2>2. UpdateRow(t, new)
    BY <1>1
  <2> HIDE DEF new
  <2> QED BY <2>1, <2>2, UpdateRowChanges DEF IInv
<1>4. /\ batch[t] = "active" => t \in vouched
      /\ DOMAIN batch' = DOMAIN batch \ {t} /\ \A u \in DOMAIN batch' : batch'[u] = batch[u]
      /\ vouched \subseteq vouched' /\ vouched' \subseteq vouched \cup {t}
      /\ activated' = activated \/ (activated' = activated \cup {t} /\ t \in DOMAIN rows
             /\ StateAfterScrape(batch[t], seeded) = "active")
      /\ StateAfterScrape(batch[t], seeded) = "active" => t \in vouched'
  BY <1>1, <1>2 DEF IInv, TypeOK, ActiveVouched, Exists
<1>5. TypeOK'
  BY <1>1, <1>3, <1>4 DEF IInv, TypeOK
<1>6. ActiveVouched'
  BY <1>2, <1>3, <1>4 DEF IInv, TypeOK, ActiveVouched
<1>7. ASSUME NEW u \in Torrents \ overruled'
      PROVE  HeldOnce(u)' /\ FilesOnce(u)' /\ ReadSettled(u)' /\ ActivatedStays(u)'
  <2>1. u \in Torrents \ overruled /\ HeldOnce(u) /\ FilesOnce(u) /\ ReadSettled(u) /\ ActivatedStays(u)
    BY DEF IInv, TypeOK
  <2>2. HeldOnce(u)'
    BY <1>1, <1>2, <1>3, <1>4, <2>1 DEF IInv, TypeOK, Row, NewRow, HeldOnce, Holds, FilesOnce, ReadSettled, Exists
  <2>3. FilesOnce(u)'
    BY <1>1, <1>2, <1>3, <1>4, <2>1 DEF IInv, TypeOK, Row, NewRow, FilesOnce, HeldOnce, Holds, Exists
  <2>4. ReadSettled(u)'
    BY <1>1, <1>2, <1>3, <1>4, <2>1 DEF IInv, TypeOK, Row, NewRow, ReadSettled, HeldOnce, Holds, Exists, Empty
  <2>5. ActivatedStays(u)'
    BY <1>1, <1>2, <1>3, <1>4, <2>1 DEF IInv, TypeOK, Row, NewRow, ActivatedStays, ReadSettled, HeldOnce, Holds, Exists, Empty
  <2> QED BY <2>2, <2>3, <2>4, <2>5
<1>8. SettledStay
  BY <1>1, <1>2, <1>3, <1>4 DEF IInv, TypeOK, Row, NewRow, SettledStay, ActivatedStays, ReadSettled, HeldOnce, Holds, Exists
<1> QED BY <1>5, <1>6, <1>7, <1>8 DEF IInv

\* The candidates were scraped, so they left "pending" before.
LEMMA SelectDeadKeeps ==
    ASSUME IInv, SelectDead
    PROVE  IInv' /\ SettledStay
<1> USE DEF SelectDead, indexVars, readVars, historyVars
<1>1. \A t \in doomed' : t \in DOMAIN rows /\ rows[t].scraped /\ rows[t].state # "rejected"
  BY DEF DeadCandidates
<1>2. TypeOK'
  BY <1>1 DEF IInv, TypeOK, Row, NewRow, States, Empty
<1>3. ActiveVouched'
  BY <1>1 DEF IInv, TypeOK, Row, NewRow, ActiveVouched, Empty
<1>4. ASSUME NEW u \in Torrents \ overruled'
      PROVE  HeldOnce(u)' /\ FilesOnce(u)' /\ ReadSettled(u)' /\ ActivatedStays(u)'
  <2>1. u \in Torrents \ overruled /\ HeldOnce(u) /\ FilesOnce(u) /\ ReadSettled(u) /\ ActivatedStays(u)
    BY DEF IInv, TypeOK
  <2>2. HeldOnce(u)'
    BY <1>1, <2>1 DEF IInv, TypeOK, Row, NewRow, HeldOnce, Holds, FilesOnce, ReadSettled, Exists
  <2>3. FilesOnce(u)'
    BY <1>1, <2>1 DEF IInv, TypeOK, Row, NewRow, FilesOnce, HeldOnce, Holds, Exists
  <2>4. ReadSettled(u)'
    BY <1>1, <2>1 DEF IInv, TypeOK, Row, NewRow, ReadSettled, HeldOnce, Holds, Exists, Empty
  <2>5. ActivatedStays(u)'
    BY <1>1, <2>1 DEF IInv, TypeOK, Row, NewRow, ActivatedStays, ReadSettled, HeldOnce, Holds, Exists, Empty
  <2> QED BY <2>2, <2>3, <2>4, <2>5
<1>5. SettledStay
  BY <1>1 DEF IInv, TypeOK, Row, NewRow, SettledStay, ActivatedStays, ReadSettled, HeldOnce, Holds, Exists
<1> QED BY <1>2, <1>3, <1>4, <1>5 DEF IInv

\* A doomed torrent was not rejected, and dies as whatever it is now.
LEMMA MarkDeadKeeps ==
    ASSUME IInv, NEW t \in Torrents, MarkDead(t)
    PROVE  IInv' /\ SettledStay
<1> USE DEF MarkDead, indexVars, readVars, historyVars
<1>1. /\ rows' \in [DOMAIN rows -> Row] /\ DOMAIN rows' = DOMAIN rows
      /\ \A u \in DOMAIN rows : u # t => rows'[u] = rows[u]
      /\ \A u \in DOMAIN rows : rows'[u].scraped = rows[u].scraped
      /\ t \in DOMAIN rows => rows'[t].state \in {"dead", rows[t].state}
  BY StateUpdate DEF IInv, TypeOK, States
<1>2. TypeOK'
  BY <1>1 DEF IInv, TypeOK, Row, NewRow, States, Empty
<1>3. ActiveVouched'
  BY <1>1 DEF IInv, TypeOK, Row, NewRow, ActiveVouched, Empty
<1>4. ASSUME NEW u \in Torrents \ overruled'
      PROVE  HeldOnce(u)' /\ FilesOnce(u)' /\ ReadSettled(u)' /\ ActivatedStays(u)'
  <2>1. u \in Torrents \ overruled /\ HeldOnce(u) /\ FilesOnce(u) /\ ReadSettled(u) /\ ActivatedStays(u)
    BY DEF IInv, TypeOK
  <2>2. HeldOnce(u)'
    BY <1>1, <2>1 DEF IInv, TypeOK, Row, NewRow, HeldOnce, Holds, FilesOnce, ReadSettled, Exists
  <2>3. FilesOnce(u)'
    BY <1>1, <2>1 DEF IInv, TypeOK, Row, NewRow, FilesOnce, HeldOnce, Holds, Exists
  <2>4. ReadSettled(u)'
    BY <1>1, <2>1 DEF IInv, TypeOK, Row, NewRow, ReadSettled, HeldOnce, Holds, Exists, Empty
  <2>5. ActivatedStays(u)'
    BY <1>1, <2>1 DEF IInv, TypeOK, Row, NewRow, ActivatedStays, ReadSettled, HeldOnce, Holds, Exists, Empty
  <2> QED BY <2>2, <2>3, <2>4, <2>5
<1>5. SettledStay
  BY <1>1 DEF IInv, TypeOK, Row, NewRow, SettledStay, ActivatedStays, ReadSettled, HeldOnce, Holds, Exists
<1> QED BY <1>2, <1>3, <1>4, <1>5 DEF IInv

-----------------------------------------------------------------------------
(* The API, and time.                                                      *)

\* The API overrules, and an operator's "active" is a vouch.
LEMMA UpdateTorrentStateKeeps ==
    ASSUME IInv, NEW t \in Torrents, NEW s \in States, UpdateTorrentState(t, s)
    PROVE  IInv' /\ SettledStay
<1> USE DEF UpdateTorrentState, indexVars, readVars, historyVars
<1>1. /\ rows' \in [DOMAIN rows -> Row] /\ DOMAIN rows' = DOMAIN rows
      /\ \A u \in DOMAIN rows : u # t => rows'[u] = rows[u]
      /\ \A u \in DOMAIN rows : rows'[u].scraped = rows[u].scraped
      /\ t \in DOMAIN rows => rows'[t].state = s
  BY StateUpdate DEF IInv
<1>2. TypeOK'
  BY <1>1 DEF IInv, TypeOK, Row, NewRow, States, Empty
<1>3. ActiveVouched'
  BY <1>1 DEF IInv, TypeOK, Row, NewRow, ActiveVouched, Empty
<1>4. ASSUME NEW u \in Torrents \ overruled'
      PROVE  HeldOnce(u)' /\ FilesOnce(u)' /\ ReadSettled(u)' /\ ActivatedStays(u)'
  <2>1. u \in Torrents \ overruled /\ HeldOnce(u) /\ FilesOnce(u) /\ ReadSettled(u) /\ ActivatedStays(u)
    BY DEF IInv, TypeOK
  <2>2. HeldOnce(u)'
    BY <1>1, <2>1 DEF IInv, TypeOK, Row, NewRow, HeldOnce, Holds, FilesOnce, ReadSettled, Exists
  <2>3. FilesOnce(u)'
    BY <1>1, <2>1 DEF IInv, TypeOK, Row, NewRow, FilesOnce, HeldOnce, Holds, Exists
  <2>4. ReadSettled(u)'
    BY <1>1, <2>1 DEF IInv, TypeOK, Row, NewRow, ReadSettled, HeldOnce, Holds, Exists, Empty
  <2>5. ActivatedStays(u)'
    BY <1>1, <2>1 DEF IInv, TypeOK, Row, NewRow, ActivatedStays, ReadSettled, HeldOnce, Holds, Exists, Empty
  <2> QED BY <2>2, <2>3, <2>4, <2>5
<1>5. SettledStay
  BY <1>1 DEF IInv, TypeOK, Row, NewRow, SettledStay, ActivatedStays, ReadSettled, HeldOnce, Holds, Exists
<1> QED BY <1>2, <1>3, <1>4, <1>5 DEF IInv

\* A deleted torrent is overruled.
LEMMA DeleteTorrentKeeps ==
    ASSUME IInv, NEW t \in Torrents, DeleteTorrent(t)
    PROVE  IInv' /\ SettledStay
<1> USE DEF DeleteTorrent, indexVars, readVars, historyVars
<1>1. TypeOK'
  BY DEF IInv, TypeOK, Row, NewRow, States, Empty
<1>2. ActiveVouched'
  BY DEF IInv, TypeOK, Row, NewRow, ActiveVouched, Empty
<1>3. ASSUME NEW u \in Torrents \ overruled'
      PROVE  HeldOnce(u)' /\ FilesOnce(u)' /\ ReadSettled(u)' /\ ActivatedStays(u)'
  <2>1. u \in Torrents \ overruled /\ HeldOnce(u) /\ FilesOnce(u) /\ ReadSettled(u) /\ ActivatedStays(u)
    BY DEF IInv, TypeOK
  <2>2. HeldOnce(u)'
    BY <2>1 DEF IInv, TypeOK, Row, NewRow, HeldOnce, Holds, FilesOnce, ReadSettled, Exists
  <2>3. FilesOnce(u)'
    BY <2>1 DEF IInv, TypeOK, Row, NewRow, FilesOnce, HeldOnce, Holds, Exists
  <2>4. ReadSettled(u)'
    BY <2>1 DEF IInv, TypeOK, Row, NewRow, ReadSettled, HeldOnce, Holds, Exists, Empty
  <2>5. ActivatedStays(u)'
    BY <2>1 DEF IInv, TypeOK, Row, NewRow, ActivatedStays, ReadSettled, HeldOnce, Holds, Exists, Empty
  <2> QED BY <2>2, <2>3, <2>4, <2>5
<1>4. SettledStay
  BY DEF IInv, TypeOK, Row, NewRow, SettledStay, ActivatedStays, ReadSettled, HeldOnce, Holds, Exists
<1> QED BY <1>1, <1>2, <1>3, <1>4 DEF IInv

\* Time changes no state.
LEMMA TimePassesKeeps ==
    ASSUME IInv, NEW t \in Torrents, TimePasses(t)
    PROVE  IInv' /\ SettledStay
<1> USE DEF TimePasses, indexVars, readVars, historyVars
<1>1. /\ rows' \in [DOMAIN rows -> Row] /\ DOMAIN rows' = DOMAIN rows
      /\ \A u \in DOMAIN rows : rows'[u].state = rows[u].state /\ rows'[u].scraped = rows[u].scraped
  <2>1. rows \in [DOMAIN rows -> Row] /\ t \in DOMAIN rows
    BY DEF IInv, TypeOK, Exists
  <2>2. CASE rows' = [rows EXCEPT ![t] = [@ EXCEPT !.due = TRUE]]
    BY <2>1, <2>2 DEF Row
  <2>3. CASE rows' = [rows EXCEPT ![t] = [@ EXCEPT !.silent = TRUE]]
    BY <2>1, <2>3 DEF Row
  <2> QED BY <2>1, <2>2, <2>3
<1>2. TypeOK'
  BY <1>1 DEF IInv, TypeOK, Row, NewRow, States, Empty
<1>3. ActiveVouched'
  BY <1>1 DEF IInv, TypeOK, Row, NewRow, ActiveVouched, Empty
<1>4. ASSUME NEW u \in Torrents \ overruled'
      PROVE  HeldOnce(u)' /\ FilesOnce(u)' /\ ReadSettled(u)' /\ ActivatedStays(u)'
  <2>1. u \in Torrents \ overruled /\ HeldOnce(u) /\ FilesOnce(u) /\ ReadSettled(u) /\ ActivatedStays(u)
    BY DEF IInv, TypeOK
  <2>2. HeldOnce(u)'
    BY <1>1, <2>1 DEF IInv, TypeOK, Row, NewRow, HeldOnce, Holds, FilesOnce, ReadSettled, Exists
  <2>3. FilesOnce(u)'
    BY <1>1, <2>1 DEF IInv, TypeOK, Row, NewRow, FilesOnce, HeldOnce, Holds, Exists
  <2>4. ReadSettled(u)'
    BY <1>1, <2>1 DEF IInv, TypeOK, Row, NewRow, ReadSettled, HeldOnce, Holds, Exists, Empty
  <2>5. ActivatedStays(u)'
    BY <1>1, <2>1 DEF IInv, TypeOK, Row, NewRow, ActivatedStays, ReadSettled, HeldOnce, Holds, Exists, Empty
  <2> QED BY <2>2, <2>3, <2>4, <2>5
<1>5. SettledStay
  BY <1>1 DEF IInv, TypeOK, Row, NewRow, SettledStay, ActivatedStays, ReadSettled, HeldOnce, Holds, Exists
<1> QED BY <1>2, <1>3, <1>4, <1>5 DEF IInv

\* A step that changes nothing.
LEMMA StutterKeeps ==
    ASSUME IInv, UNCHANGED vars
    PROVE  IInv' /\ SettledStay
<1> USE DEF vars, indexVars, readVars, historyVars
<1>1. TypeOK'
  BY DEF IInv, TypeOK, Row, NewRow, States, Empty
<1>2. ActiveVouched'
  BY DEF IInv, TypeOK, Row, NewRow, ActiveVouched, Empty
<1>3. ASSUME NEW u \in Torrents \ overruled'
      PROVE  HeldOnce(u)' /\ FilesOnce(u)' /\ ReadSettled(u)' /\ ActivatedStays(u)'
  <2>1. u \in Torrents \ overruled /\ HeldOnce(u) /\ FilesOnce(u) /\ ReadSettled(u) /\ ActivatedStays(u)
    BY DEF IInv, TypeOK
  <2>2. HeldOnce(u)'
    BY <2>1 DEF IInv, TypeOK, Row, NewRow, HeldOnce, Holds, FilesOnce, ReadSettled, Exists
  <2>3. FilesOnce(u)'
    BY <2>1 DEF IInv, TypeOK, Row, NewRow, FilesOnce, HeldOnce, Holds, Exists
  <2>4. ReadSettled(u)'
    BY <2>1 DEF IInv, TypeOK, Row, NewRow, ReadSettled, HeldOnce, Holds, Exists, Empty
  <2>5. ActivatedStays(u)'
    BY <2>1 DEF IInv, TypeOK, Row, NewRow, ActivatedStays, ReadSettled, HeldOnce, Holds, Exists, Empty
  <2> QED BY <2>2, <2>3, <2>4, <2>5
<1>4. SettledStay
  BY DEF IInv, TypeOK, Row, NewRow, SettledStay, ActivatedStays, ReadSettled, HeldOnce, Holds, Exists
<1> QED BY <1>1, <1>2, <1>3, <1>4 DEF IInv

-----------------------------------------------------------------------------
(* The theorems.                                                           *)

\* No row exists and no worker holds a torrent.
LEMMA InitIInv == Init => IInv
BY DEF Init, Empty, IInv, TypeOK, ActiveVouched, HeldOnce, Holds, FilesOnce, ReadSettled,
       ActivatedStays, Exists

\* Every step keeps the inductive invariant and moves no torrent out of the states in
\* which it settled.
LEMMA NextIInv == IInv /\ [Next]_vars => IInv' /\ SettledStay
<1> SUFFICES ASSUME IInv, [Next]_vars PROVE IInv' /\ SettledStay
  OBVIOUS
<1>1. ASSUME NEW w \in Workers, Index(w) PROVE IInv' /\ SettledStay
  BY <1>1, LookupKeeps, UpsertKeeps, InsertFilesKeeps, ClassifyKeeps, AbandonKeeps DEF Index
<1>2. CASE Reindex
  BY <1>2, ReadPageKeeps, ReindexFailsKeeps, ReclassifyKeeps DEF Reindex
<1>3. CASE Scrape
  BY <1>3, SelectBatchKeeps, ScrapeFailsKeeps, ApplyScrapeKeeps DEF Scrape
<1>4. CASE DetectDead
  BY <1>4, SelectDeadKeeps, MarkDeadKeeps DEF DetectDead
<1>5. ASSUME NEW t \in Torrents, NEW s \in States, UpdateTorrentState(t, s)
      PROVE  IInv' /\ SettledStay
  BY <1>5, UpdateTorrentStateKeeps
<1>6. ASSUME NEW t \in Torrents, DeleteTorrent(t) \/ TimePasses(t)
      PROVE  IInv' /\ SettledStay
  BY <1>6, DeleteTorrentKeeps, TimePassesKeeps
<1>7. CASE UNCHANGED vars
  BY <1>7, StutterKeeps
<1> QED BY <1>1, <1>2, <1>3, <1>4, <1>5, <1>6, <1>7 DEF Next

\* The inductive invariant holds in every reachable state.
LEMMA SpecIInv == Spec => []IInv
<1>1. Init => IInv
  BY InitIInv
<1>2. IInv /\ [Next]_vars => IInv'
  BY NextIInv
<1> QED BY <1>1, <1>2, PTL DEF Spec

\* However many workers discover a torrent at once, its files are stored once: only the
\* worker whose UpsertTorrentPending affected a row goes on (process), as long as neither
\* the API nor the index command interferes with the row.
THEOREM FilesOnceForEveryTorrent == Spec => []FilesStoredOnce
<1>1. IInv => FilesStoredOnce
  BY DEF IInv, FilesOnce, FilesStoredOnce
<1> QED BY <1>1, SpecIInv, PTL

\* No state that the scraper or the index command read earlier makes a torrent active that
\* neither a tracker nor an operator vouched for (applyResult, resolveState).
THEOREM ActiveWasVouchedFor == Spec => []ActiveIsVouchedFor
<1>1. IInv => ActiveIsVouchedFor
  BY DEF IInv, ActiveVouched, ActiveIsVouchedFor
<1> QED BY <1>1, SpecIInv, PTL

\* Late classifications, scrapes, dead marks and index runs leave a rejected torrent rejected
\* and an activated one active or dead (process, newState, detectDead, resolveState).
THEOREM SettledTorrentsStay == Spec => SettledStatesStay
<1>1. IInv /\ [Next]_vars => [SettledStay]_vars
  BY NextIInv
<1> QED BY <1>1, SpecIInv, PTL DEF Spec, SettledStatesStay, SettledStay

-----------------------------------------------------------------------------
(* A pass of the index command over the changing table (IndexPaging).      *)

\* Rows before the border belong to the pages fetched so far.
Border == IF pass = "rows" THEN offset + PageSize ELSE offset

\* Torrents that others' deletions moved before the border unseen, and those the pass
\* saw twice or will, as others' insertions moved them behind it.
Missed == {h \in lasting : scanned[h] = 0 /\ h \notin page /\ Rank(h) < Border}

SeenAgain ==
    {h \in lasting : \/ scanned[h] > 1
                     \/ scanned[h] = 1 /\ h \in page
                     \/ (scanned[h] = 1 \/ h \in page) /\ Rank(h) >= Border}

PagesCounted ==
    pass \in {"pages", "rows"} =>
        /\ Cardinality(stored) = total + inserted - deleted
        /\ Cardinality(Missed) <= deleted
        /\ Cardinality(SeenAgain) <= inserted

PagingIInv ==
    /\ PassMissesFew
    /\ inserted \in Nat /\ deleted \in Nat
    /\ pass # "rows" => page = {}
    /\ PagesCounted

\* A nonempty set of infohashes has a first one.
LEMMA FirstOfSome ==
    ASSUME NEW S \in SUBSET Infohashes, S # {}
    PROVE  \E m \in S : \A h \in S : m <= h
<1> DEFINE R == {ss \in Nat \X Nat : ss[1] < ss[2]}
<1>1. S \in SUBSET Nat
  BY PagingAssumption DEF Infohashes
<1>2. IsWellFoundedOn(R, Nat)
  BY NatLessThanWellFounded, Zenon DEF OpToRel
<1>3. PICK m \in S : \A h \in S : <<h, m>> \notin R
  <2> HIDE DEF R
  <2> QED BY <1>1, <1>2, WFMin
<1>4. \A h \in S : ~ (h < m)
  BY <1>1, <1>3
<1> QED BY <1>1, <1>4

LEMMA FiniteInfohashes ==
    ASSUME NEW S \in SUBSET Infohashes
    PROVE  IsFiniteSet(S) /\ Cardinality(S) \in Nat /\ S \subseteq Int /\ Cardinality(S) <= NumInfohashes
<1>1. IsFiniteSet(Infohashes) /\ Cardinality(Infohashes) = NumInfohashes
  BY PagingAssumption, FS_Interval DEF Infohashes
<1>2. IsFiniteSet(S) /\ Cardinality(S) \in Nat /\ Cardinality(S) <= Cardinality(Infohashes)
  BY <1>1, FS_Subset, FS_CardinalityType
<1> QED BY <1>1, <1>2 DEF Infohashes

\* A set with one element more has one element more at most.
LEMMA OneMore ==
    ASSUME NEW A \in SUBSET Infohashes, NEW B \in SUBSET Infohashes,
           \A g, h \in B \ A : g = h
    PROVE  Cardinality(B) <= Cardinality(A) + 1
<1>1. IsFiniteSet(A) /\ Cardinality(A) \in Nat /\ Cardinality(B) \in Nat
  BY FiniteInfohashes
<1>2. CASE B \subseteq A
  <2>1. Cardinality(B) <= Cardinality(A)
    BY <1>1, <1>2, FS_Subset
  <2> QED BY <1>1, <2>1
<1>3. CASE ~ (B \subseteq A)
  <2>1. PICK h \in B : h \notin A
    BY <1>3
  <2>2. IsFiniteSet(A \cup {h}) /\ Cardinality(A \cup {h}) = Cardinality(A) + 1
    BY <1>1, <2>1, FS_AddElement
  <2>3. B \subseteq A \cup {h}
    BY <2>1
  <2>4. Cardinality(B) <= Cardinality(A \cup {h})
    BY <2>2, <2>3, FS_Subset
  <2> QED BY <2>2, <2>4
<1> QED BY <1>2, <1>3

-----------------------------------------------------------------------------
(* The place of a row in the table.                                        *)

Place(S, h) == Cardinality({g \in S : g < h})

LEMMA PlaceType ==
    ASSUME NEW S \in SUBSET Infohashes, NEW h
    PROVE  Place(S, h) \in Nat
<1>1. {g \in S : g < h} \in SUBSET Infohashes
  OBVIOUS
<1> QED BY <1>1, FiniteInfohashes DEF Place

\* Rows have different places.
LEMMA PlacesDiffer ==
    ASSUME NEW S \in SUBSET Infohashes, NEW g \in S, NEW h \in S, Place(S, g) = Place(S, h)
    PROVE  g = h
<1>1. ASSUME NEW a \in S, NEW b \in S, a < b PROVE Place(S, a) # Place(S, b)
  <2> DEFINE A == {j \in S : j < a}
             B == {j \in S : j < b}
  <2>1. A \in SUBSET B /\ a \in B /\ a \notin A
    BY <1>1, FiniteInfohashes
  <2>2. B \in SUBSET Infohashes
    OBVIOUS
  <2> HIDE DEF A, B
  <2>3. IsFiniteSet(B)
    BY <2>2, FiniteInfohashes
  <2>4. Cardinality(A) # Cardinality(B)
    BY <2>1, <2>3, FS_Subset
  <2> QED BY <2>4 DEF A, B, Place
<1>2. g = h \/ g < h \/ h < g
  BY FiniteInfohashes
<1> QED BY <1>1, <1>2

\* Without a row, those behind it move up by one place.
LEMMA PlaceWithout ==
    ASSUME NEW S \in SUBSET Infohashes, NEW d \in S, NEW h \in Infohashes
    PROVE  Place(S \ {d}, h) = IF d < h THEN Place(S, h) - 1 ELSE Place(S, h)
<1> DEFINE before == {g \in S : g < h}
<1>1. before \in SUBSET Infohashes
  OBVIOUS
<1>2. {g \in S \ {d} : g < h} = before \ {d}
  OBVIOUS
<1>3. d \in before <=> d < h
  OBVIOUS
<1> HIDE DEF before
<1>4. IsFiniteSet(before) /\ Cardinality(before) \in Nat
  BY <1>1, FiniteInfohashes
<1>5. Cardinality(before \ {d}) = IF d \in before THEN Cardinality(before) - 1 ELSE Cardinality(before)
  BY <1>4, FS_RemoveElement
<1> QED BY <1>2, <1>3, <1>5 DEF Place, before

\* As many rows as k have a place before k.
LEMMA FewBehind ==
    ASSUME NEW S \in SUBSET Infohashes, NEW k \in Nat,
           NEW A \in SUBSET {h \in S : Place(S, h) >= k}, A # {}
    PROVE  Cardinality(A) <= Cardinality(S) - k
<1>1. A \in SUBSET Infohashes
  OBVIOUS
<1>2. PICK a \in A : \A h \in A : a <= h
  BY <1>1, FirstOfSome
<1> DEFINE B == {g \in S : g < a}
<1>3. B \in SUBSET Infohashes /\ A \cup B \in SUBSET S /\ A \cup B \in SUBSET Infohashes
  OBVIOUS
<1>4. A \cap B = {}
  <2>1. \A h \in A : h \in Int /\ a \in Int /\ a <= h
    BY <1>1, <1>2, FiniteInfohashes
  <2>2. \A h \in A : ~ (h < a)
    BY <2>1
  <2> QED BY <2>2
<1>5. Cardinality(B) >= k
  BY DEF Place
<1> HIDE DEF B
<1>6. IsFiniteSet(A) /\ IsFiniteSet(B) /\ IsFiniteSet(S)
  BY <1>1, <1>3, FiniteInfohashes
<1>7. Cardinality(A) \in Nat /\ Cardinality(B) \in Nat /\ Cardinality(S) \in Nat
  BY <1>6, FS_CardinalityType
<1>8. Cardinality(A \cup B) = Cardinality(A) + Cardinality(B)
  <2>1. Cardinality(A \cup B) = Cardinality(A) + Cardinality(B) - Cardinality(A \cap B)
    BY <1>6, FS_Union
  <2>2. Cardinality(A \cap B) = 0
    BY <1>4, FS_EmptySet
  <2> QED BY <1>7, <2>1, <2>2
<1>9. Cardinality(A \cup B) <= Cardinality(S)
  BY <1>3, <1>6, FS_Subset
<1> QED BY <1>5, <1>7, <1>8, <1>9

-----------------------------------------------------------------------------
(* The steps of the pass.                                                  *)

LEMMA PagingTyped ==
    ASSUME PagingIInv
    PROVE  /\ PagingTypeOK /\ offset \in Nat /\ total \in Nat /\ PageSize \in Nat \ {0}
           /\ inserted \in Nat /\ deleted \in Nat /\ Border \in Nat
           /\ stored \in SUBSET Infohashes /\ lasting \in SUBSET Infohashes
           /\ page \in SUBSET Infohashes
           /\ \A h \in Infohashes : scanned[h] \in Nat /\ Rank(h) \in Nat
           /\ \A h \in Infohashes : Rank(h) = Place(stored, h)
<1>1. PagingTypeOK /\ inserted \in Nat /\ deleted \in Nat
  BY DEF PagingIInv, PassMissesFew
<1>2. \A h \in Infohashes : Rank(h) = Place(stored, h)
  BY DEF Rank, Place
<1>3. \A h \in Infohashes : Place(stored, h) \in Nat
  BY <1>1, PlaceType DEF PagingTypeOK
<1> QED BY <1>1, <1>2, <1>3, PagingAssumption DEF PagingTypeOK, Border

LEMMA CountTorrentsKeeps == PagingIInv /\ CountTorrents => PagingIInv'
<1> SUFFICES ASSUME PagingIInv, CountTorrents PROVE PagingIInv'
  OBVIOUS
<1> USE DEF CountTorrents
<1>1. stored \in SUBSET Infohashes /\ Cardinality(stored) \in Nat /\ Cardinality(stored) <= NumInfohashes
  BY PagingTyped, FiniteInfohashes
<1>2. PagingTypeOK'
  BY <1>1, PagingTyped, PagingAssumption DEF PagingTypeOK
<1>3. \A h \in Infohashes : Rank(h)' \in Nat
  BY <1>1, PlaceType DEF Rank, Place
<1>4. Missed' = {} /\ SeenAgain' = {} /\ {h \in lasting : scanned[h] > 1}' = {}
  BY <1>1, <1>3 DEF Missed, SeenAgain, Border
<1>5. Cardinality({}) = 0
  BY FS_EmptySet
<1>6. PassMissesFew'
  BY <1>2, <1>4, <1>5 DEF PassMissesFew
<1>7. PagesCounted'
  <2>1. Cardinality(stored') = total' + inserted' - deleted'
    BY <1>1
  <2>2. Cardinality(Missed') = 0 /\ Cardinality(SeenAgain') = 0
    BY <1>4, <1>5
  <2> QED BY <2>1, <2>2 DEF PagesCounted
<1> QED BY <1>6, <1>7 DEF PagingIInv

LEMMA FetchPageKeeps == PagingIInv /\ FetchPage => PagingIInv'
<1> SUFFICES ASSUME PagingIInv, FetchPage PROVE PagingIInv'
  OBVIOUS
<1> USE DEF FetchPage
<1>1. page' = {h \in stored : Rank(h) \in offset .. (offset + PageSize - 1)} /\ page = {}
  BY DEF Pages, PagingIInv
<1>2. PagingTypeOK'
  BY <1>1, PagingTyped DEF PagingTypeOK
<1>3. \A h \in Infohashes : Rank(h)' = Rank(h)
  BY DEF Rank
<1>4. Border = offset /\ Border' = offset + PageSize
  BY DEF Border
<1>5. lasting \in SUBSET stored /\ \A h \in lasting : h \in Infohashes
  BY PagingTyped DEF PagingTypeOK
<1>6. Missed' \subseteq Missed
  BY <1>1, <1>3, <1>4, <1>5, PagingTyped DEF Missed
<1>7. SeenAgain' \subseteq SeenAgain
  BY <1>1, <1>3, <1>4, <1>5, PagingTyped DEF SeenAgain
<1>8. Missed \in SUBSET Infohashes /\ SeenAgain \in SUBSET Infohashes
  BY <1>5 DEF Missed, SeenAgain
<1>9. Cardinality(Missed') <= Cardinality(Missed) /\ Cardinality(SeenAgain') <= Cardinality(SeenAgain)
  BY <1>6, <1>7, <1>8, FiniteInfohashes, FS_Subset
<1>10. /\ Cardinality(Missed) \in Nat /\ Cardinality(SeenAgain) \in Nat
       /\ Cardinality(Missed') \in Nat /\ Cardinality(SeenAgain') \in Nat
  BY <1>6, <1>7, <1>8, FiniteInfohashes
<1>11. Cardinality(Missed') <= deleted /\ Cardinality(SeenAgain') <= inserted
  BY <1>9, <1>10, PagingTyped DEF PagingIInv, PagesCounted
<1> QED BY <1>2, <1>11 DEF PagingIInv, PassMissesFew, PagesCounted

LEMMA ScanRowKeeps == PagingIInv /\ ScanRow => PagingIInv'
<1> SUFFICES ASSUME PagingIInv, ScanRow PROVE PagingIInv'
  OBVIOUS
<1> USE DEF ScanRow
<1> DEFINE r == Min(page)
<1>1. r \in page /\ r \in Infohashes
  BY PagingTyped, FirstOfSome DEF Min
<1>2. /\ scanned' \in [Infohashes -> Nat] /\ page' = page \ {r}
      /\ \A h \in Infohashes : scanned'[h] = IF h = r THEN scanned[h] + 1 ELSE scanned[h]
  BY <1>1, PagingTyped DEF PagingTypeOK
<1> HIDE DEF r
<1>3. PagingTypeOK'
  BY <1>2, PagingTyped DEF PagingTypeOK
<1>4. \A h \in Infohashes : Rank(h)' = Rank(h)
  BY DEF Rank
<1>5. Border' = Border
  BY DEF Border
<1>6. \A h \in lasting : h \in Infohashes
  BY PagingTyped DEF PagingTypeOK
<1>7. Missed' = Missed
  BY <1>1, <1>2, <1>4, <1>5, <1>6, PagingTyped DEF Missed
<1>8. SeenAgain' = SeenAgain
  BY <1>1, <1>2, <1>4, <1>5, <1>6, PagingTyped DEF SeenAgain
<1>9. {h \in lasting : scanned[h] > 1}' \subseteq SeenAgain
  BY <1>8 DEF SeenAgain
<1>10. Cardinality({h \in lasting : scanned[h] > 1}') <= inserted
  <2>1. SeenAgain \in SUBSET Infohashes
    BY <1>6 DEF SeenAgain
  <2>2. Cardinality({h \in lasting : scanned[h] > 1}') <= Cardinality(SeenAgain)
    BY <1>9, <2>1, FiniteInfohashes, FS_Subset
  <2>3. Cardinality({h \in lasting : scanned[h] > 1}') \in Nat /\ Cardinality(SeenAgain) \in Nat
    BY <1>9, <2>1, FiniteInfohashes
  <2> QED BY <2>2, <2>3, PagingTyped DEF PagingIInv, PagesCounted
<1> QED BY <1>3, <1>7, <1>8, <1>10 DEF PagingIInv, PassMissesFew, PagesCounted

LEMMA NextPageKeeps == PagingIInv /\ NextPage => PagingIInv'
<1> SUFFICES ASSUME PagingIInv, NextPage PROVE PagingIInv'
  OBVIOUS
<1> USE DEF NextPage
<1>1. PagingTypeOK'
  BY PagingTyped DEF PagingTypeOK
<1>2. \A h \in Infohashes : Rank(h)' = Rank(h)
  BY DEF Rank
<1>3. Border' = Border
  BY DEF Border
<1>4. lasting \in SUBSET Infohashes
  BY PagingTyped
<1>5. Missed' = Missed /\ SeenAgain' = SeenAgain
  BY <1>2, <1>3, <1>4 DEF Missed, SeenAgain
<1> QED BY <1>1, <1>5 DEF PagingIInv, PassMissesFew, PagesCounted

\* The torrents left behind the last page are fewer than were inserted.
LEMMA PassEndsKeeps == PagingIInv /\ PassEnds => PagingIInv'
<1> SUFFICES ASSUME PagingIInv, PassEnds PROVE PagingIInv'
  OBVIOUS
<1> USE DEF PassEnds
<1> DEFINE unseen == {h \in lasting : scanned[h] = 0}
           behind == {h \in unseen : Rank(h) >= offset}
<1>1. PagingTypeOK' /\ lasting \in SUBSET stored /\ page = {} /\ offset >= total
  BY PagingTyped DEF PagingTypeOK, PagingIInv, MorePages
<1>2. Border = offset
  BY DEF Border
<1>3. \A h \in lasting : h \in Infohashes
  BY PagingTyped DEF PagingTypeOK
<1>4. unseen = Missed \cup behind
  BY <1>1, <1>2, <1>3, PagingTyped DEF Missed
<1>5. behind \in SUBSET {h \in stored : Place(stored, h) >= offset}
  BY <1>1, <1>3, PagingTyped
<1>6. Missed \in SUBSET Infohashes /\ behind \in SUBSET Infohashes
  BY <1>3 DEF Missed
<1> HIDE DEF unseen, behind
<1>7. /\ IsFiniteSet(Missed) /\ IsFiniteSet(behind)
      /\ Cardinality(Missed) \in Nat /\ Cardinality(behind) \in Nat
  BY <1>6, FiniteInfohashes
<1>8. Cardinality(behind) <= inserted
  <2>1. CASE behind = {}
    BY <2>1, FS_EmptySet, PagingTyped
  <2>2. CASE behind # {}
    <3>1. Cardinality(behind) <= Cardinality(stored) - offset
      BY <1>5, <2>2, PagingTyped, FewBehind
    <3>2. Cardinality(stored) = total + inserted - deleted
      BY DEF PagingIInv, PagesCounted
    <3> QED BY <1>1, <1>7, <3>1, <3>2, PagingTyped
  <2> QED BY <2>1, <2>2
<1>9. Cardinality(unseen) <= Cardinality(Missed) + Cardinality(behind)
  <2>1. Cardinality(unseen) = Cardinality(Missed) + Cardinality(behind) - Cardinality(Missed \cap behind)
    BY <1>4, <1>7, FS_Union
  <2>2. Cardinality(Missed \cap behind) \in Nat
    BY <1>6, FiniteInfohashes
  <2>3. Cardinality(unseen) \in Nat
    BY <1>4, <1>6, FiniteInfohashes
  <2> QED BY <1>7, <2>1, <2>2, <2>3
<1>10. Cardinality(Missed) <= deleted
  BY DEF PagingIInv, PagesCounted
<1>11. Cardinality(unseen) <= inserted + deleted
  <2>1. Cardinality(unseen) \in Nat
    BY <1>4, <1>6, FiniteInfohashes
  <2> QED BY <1>7, <1>8, <1>9, <1>10, <2>1, PagingTyped
<1> QED BY <1>1, <1>11 DEF PagingIInv, PassMissesFew, PagesCounted, unseen

LEMMA PassFailsKeeps == PagingIInv /\ PassFails => PagingIInv'
<1> SUFFICES ASSUME PagingIInv, PassFails PROVE PagingIInv'
  OBVIOUS
<1>1. PagingTypeOK'
  BY PagingTyped DEF PagingTypeOK, PassFails
<1> QED BY <1>1 DEF PagingIInv, PassMissesFew, PagesCounted, PassFails

-----------------------------------------------------------------------------
(* The steps of the other writers, and the theorem about the pass.         *)

\* An insertion moves at most one row the pass has seen behind the border.
LEMMA InsertionKeeps ==
    ASSUME PagingIInv, NEW h \in Infohashes, UpsertTorrentPending(h)
    PROVE  PagingIInv'
<1> USE DEF UpsertTorrentPending
<1>1. h \notin stored /\ stored' = stored \cup {h} /\ stored' \in SUBSET Infohashes /\ stored' \ {h} = stored
  BY PagingTyped
<1>2. /\ UNCHANGED <<pass, total, offset, page, scanned, lasting, deleted>> /\ inserted' = inserted + 1
      /\ Border' = Border
  BY DEF passVars, Border
<1>3. PagingTypeOK'
  BY <1>1, <1>2, PagingTyped DEF PagingTypeOK
<1>4. lasting \in SUBSET stored /\ h \notin lasting /\ \A g \in lasting : g \in Infohashes
  BY <1>1, PagingTyped DEF PagingTypeOK
<1>5. \A g \in Infohashes : /\ Rank(g)' = Place(stored', g) /\ Rank(g)' \in Nat
                            /\ Rank(g)' = IF h < g THEN Rank(g) + 1 ELSE Rank(g)
  <2> SUFFICES ASSUME NEW g \in Infohashes
               PROVE  /\ Rank(g)' = Place(stored', g) /\ Rank(g)' \in Nat
                      /\ Rank(g)' = IF h < g THEN Rank(g) + 1 ELSE Rank(g)
    OBVIOUS
  <2>1. Rank(g)' = Place(stored', g)
    BY DEF Rank, Place
  <2>2. Place(stored', g) \in Nat
    BY <1>1, PlaceType
  <2>3. h \in stored'
    BY <1>1
  <2>4. Place(stored' \ {h}, g) = IF h < g THEN Place(stored', g) - 1 ELSE Place(stored', g)
    BY <1>1, <2>3, PlaceWithout
  <2>5. Place(stored' \ {h}, g) = Rank(g) /\ Rank(g) \in Nat
    BY <1>1, PagingTyped
  <2>6. Rank(g) = IF h < g THEN Place(stored', g) - 1 ELSE Place(stored', g)
    BY <2>4, <2>5
  <2> QED BY <2>1, <2>2, <2>5, <2>6
<1>6. Missed' \subseteq Missed
  BY <1>2, <1>4, <1>5, PagingTyped DEF Missed
<1>7. \A a, b \in SeenAgain' \ SeenAgain : a = b
  <2> SUFFICES ASSUME NEW a \in SeenAgain' \ SeenAgain, NEW b \in SeenAgain' \ SeenAgain
               PROVE  a = b
    OBVIOUS
  <2>1. \A g \in SeenAgain' \ SeenAgain : g \in stored' /\ Rank(g)' = Border
    BY <1>1, <1>2, <1>4, <1>5, PagingTyped DEF SeenAgain
  <2>2. Place(stored', a) = Place(stored', b)
    BY <1>4, <1>5, <2>1, <1>1
  <2> QED BY <1>1, <2>1, <2>2, PlacesDiffer
<1>8. Missed \in SUBSET Infohashes /\ SeenAgain \in SUBSET Infohashes /\ SeenAgain' \in SUBSET Infohashes
  BY <1>2, <1>4 DEF Missed, SeenAgain
<1>9. Cardinality(Missed') <= Cardinality(Missed) /\ Cardinality(SeenAgain') <= Cardinality(SeenAgain) + 1
  BY <1>6, <1>7, <1>8, FiniteInfohashes, FS_Subset, OneMore
<1>10. /\ Cardinality(Missed) \in Nat /\ Cardinality(SeenAgain) \in Nat
       /\ Cardinality(Missed') \in Nat /\ Cardinality(SeenAgain') \in Nat
  BY <1>6, <1>8, FiniteInfohashes
<1>11. PagesCounted'
  <2> SUFFICES ASSUME pass \in {"pages", "rows"}
               PROVE  /\ Cardinality(stored') = total + (inserted + 1) - deleted
                      /\ Cardinality(Missed') <= deleted
                      /\ Cardinality(SeenAgain') <= inserted + 1
    BY <1>2 DEF PagesCounted
  <2>1. Cardinality(stored') = Cardinality(stored) + 1
    BY <1>1, PagingTyped, FiniteInfohashes, FS_AddElement
  <2>2. /\ Cardinality(stored) = total + inserted - deleted
        /\ Cardinality(Missed) <= deleted /\ Cardinality(SeenAgain) <= inserted
    BY DEF PagingIInv, PagesCounted
  <2> QED BY <1>9, <1>10, <2>1, <2>2, PagingTyped
<1>12. PassMissesFew'
  <2> DEFINE unseen == {g \in lasting : scanned[g] = 0}
             twice == {g \in lasting : scanned[g] > 1}
  <2>1. unseen \in SUBSET Infohashes /\ twice \in SUBSET Infohashes
    BY <1>4
  <2>2. /\ pass = "done" => Cardinality(unseen) <= inserted + deleted
        /\ Cardinality(twice) <= inserted
    BY DEF PagingIInv, PassMissesFew
  <2>3. unseen' = unseen /\ twice' = twice
    BY <1>2
  <2> HIDE DEF unseen, twice
  <2>4. Cardinality(unseen) \in Nat /\ Cardinality(twice) \in Nat
    BY <2>1, FiniteInfohashes
  <2>5. /\ pass = "done" => Cardinality(unseen) <= (inserted + 1) + deleted
        /\ Cardinality(twice) <= inserted + 1
    BY <2>2, <2>4, PagingTyped
  <2> QED BY <1>2, <1>3, <2>3, <2>5 DEF PassMissesFew, unseen, twice
<1> QED BY <1>2, <1>11, <1>12, PagingTyped DEF PagingIInv

\* A deletion moves at most one row the pass has not seen before the border.
LEMMA DeletionKeeps ==
    ASSUME PagingIInv, NEW h \in Infohashes, DeleteRow(h)
    PROVE  PagingIInv'
<1> USE DEF DeleteRow
<1>1. h \in stored /\ stored' = stored \ {h} /\ stored' \in SUBSET Infohashes
  BY PagingTyped
<1>2. /\ UNCHANGED <<pass, total, offset, page, scanned, inserted>> /\ deleted' = deleted + 1
      /\ Border' = Border /\ lasting' = lasting \ {h}
  BY DEF passVars, Border
<1>3. PagingTypeOK'
  BY <1>1, <1>2, PagingTyped DEF PagingTypeOK
<1>4. lasting' \in SUBSET stored' /\ \A g \in lasting' : g \in Infohashes /\ g \in lasting
  BY <1>1, <1>2, PagingTyped DEF PagingTypeOK
<1>5. \A g \in Infohashes : /\ Rank(g)' = Place(stored', g) /\ Rank(g)' \in Nat
                            /\ Rank(g)' = IF h < g THEN Rank(g) - 1 ELSE Rank(g)
  <2> SUFFICES ASSUME NEW g \in Infohashes
               PROVE  /\ Rank(g)' = Place(stored', g) /\ Rank(g)' \in Nat
                      /\ Rank(g)' = IF h < g THEN Rank(g) - 1 ELSE Rank(g)
    OBVIOUS
  <2>1. Rank(g)' = Place(stored', g)
    BY DEF Rank, Place
  <2>2. Place(stored', g) \in Nat
    BY <1>1, PlaceType
  <2>3. Place(stored \ {h}, g) = IF h < g THEN Place(stored, g) - 1 ELSE Place(stored, g)
    BY <1>1, PagingTyped, PlaceWithout
  <2> QED BY <1>1, <2>1, <2>2, <2>3, PagingTyped
<1>6. SeenAgain' \subseteq SeenAgain
  BY <1>2, <1>4, <1>5, PagingTyped DEF SeenAgain
<1>7. \A a, b \in Missed' \ Missed : a = b
  <2> SUFFICES ASSUME NEW a \in Missed' \ Missed, NEW b \in Missed' \ Missed
               PROVE  a = b
    OBVIOUS
  <2>1. \A g \in Missed' \ Missed : g \in stored' /\ Rank(g)' = Border - 1
    BY <1>1, <1>2, <1>4, <1>5, PagingTyped DEF Missed
  <2>2. Place(stored', a) = Place(stored', b)
    BY <1>4, <1>5, <2>1, <1>1
  <2> QED BY <1>1, <2>1, <2>2, PlacesDiffer
<1>8. Missed \in SUBSET Infohashes /\ SeenAgain \in SUBSET Infohashes /\ Missed' \in SUBSET Infohashes
  BY <1>2, <1>4, PagingTyped DEF Missed, SeenAgain
<1>9. Cardinality(SeenAgain') <= Cardinality(SeenAgain) /\ Cardinality(Missed') <= Cardinality(Missed) + 1
  BY <1>6, <1>7, <1>8, FiniteInfohashes, FS_Subset, OneMore
<1>10. /\ Cardinality(Missed) \in Nat /\ Cardinality(SeenAgain) \in Nat
       /\ Cardinality(Missed') \in Nat /\ Cardinality(SeenAgain') \in Nat
  BY <1>6, <1>8, FiniteInfohashes
<1>11. PagesCounted'
  <2> SUFFICES ASSUME pass \in {"pages", "rows"}
               PROVE  /\ Cardinality(stored') = total + inserted - (deleted + 1)
                      /\ Cardinality(Missed') <= deleted + 1
                      /\ Cardinality(SeenAgain') <= inserted
    BY <1>2 DEF PagesCounted
  <2>1. Cardinality(stored') = Cardinality(stored) - 1
    BY <1>1, PagingTyped, FiniteInfohashes, FS_RemoveElement
  <2>2. /\ Cardinality(stored) = total + inserted - deleted
        /\ Cardinality(Missed) <= deleted /\ Cardinality(SeenAgain) <= inserted
    BY DEF PagingIInv, PagesCounted
  <2>3. Cardinality(stored) \in Nat
    BY PagingTyped, FiniteInfohashes
  <2> QED BY <1>9, <1>10, <2>1, <2>2, <2>3, PagingTyped
<1>12. PassMissesFew'
  <2> DEFINE unseen == {g \in lasting : scanned[g] = 0}
             twice == {g \in lasting : scanned[g] > 1}
  <2>1. unseen \in SUBSET Infohashes /\ twice \in SUBSET Infohashes
    BY PagingTyped
  <2>2. /\ pass = "done" => Cardinality(unseen) <= inserted + deleted
        /\ Cardinality(twice) <= inserted
    BY DEF PagingIInv, PassMissesFew
  <2>3. unseen' \in SUBSET unseen /\ twice' \in SUBSET twice
    BY <1>2
  <2> HIDE DEF unseen, twice
  <2>4. /\ Cardinality(unseen) \in Nat /\ Cardinality(twice) \in Nat
        /\ Cardinality(unseen') \in Nat /\ Cardinality(twice') \in Nat
        /\ Cardinality(unseen') <= Cardinality(unseen) /\ Cardinality(twice') <= Cardinality(twice)
    BY <2>1, <2>3, FiniteInfohashes, FS_Subset
  <2>5. /\ pass = "done" => Cardinality(unseen') <= inserted + (deleted + 1)
        /\ Cardinality(twice') <= inserted
    BY <2>2, <2>4, PagingTyped
  <2> QED BY <1>2, <1>3, <2>5 DEF PassMissesFew, unseen, twice
<1> QED BY <1>2, <1>11, <1>12, PagingTyped DEF PagingIInv

LEMMA PagingStarts == PagingInit => PagingIInv
<1> SUFFICES ASSUME PagingInit PROVE PagingIInv
  OBVIOUS
<1>1. {h \in lasting : scanned[h] > 1} = {}
  BY DEF PagingInit
<1>2. PagingTypeOK
  BY PagingAssumption DEF PagingInit, PagingTypeOK
<1> QED BY <1>1, <1>2, FS_EmptySet DEF PagingInit, PagingIInv, PassMissesFew, PagesCounted

LEMMA PagingKeeps == PagingIInv /\ [PagingNext]_pagingVars => PagingIInv'
<1>1. PagingIInv /\ UNCHANGED pagingVars => PagingIInv'
  BY DEF pagingVars, passVars, PagingIInv, PassMissesFew, PagingTypeOK, PagesCounted, Missed,
         SeenAgain, Border, Rank
<1> QED
  BY <1>1, CountTorrentsKeeps, FetchPageKeeps, ScanRowKeeps, NextPageKeeps, PassEndsKeeps,
     PassFailsKeeps, InsertionKeeps, DeletionKeeps DEF PagingNext

\* Whatever others insert and delete meanwhile, a pass over any table in pages of any size
\* misses no more torrents that last through it than rows changed, and sees no more twice
\* than were inserted (Run).
THEOREM PassesMissFew == PagingSpec => []PassMissesFew
<1>1. PagingIInv => PassMissesFew
  BY DEF PagingIInv
<1> QED BY <1>1, PagingStarts, PagingKeeps, PTL DEF PagingSpec

=============================================================================
