------------------------- MODULE TransactionsProofs -------------------------
(***************************************************************************)
(* Proofs about the queries in flight: that the channel of a transaction   *)
(* is closed once, that an open transaction is found under its key, and    *)
(* that a node is forgotten only for queries that failed.                  *)
(***************************************************************************)
EXTENDS Transactions, FiniteSetTheorems, SequenceTheorems, TLAPS

-----------------------------------------------------------------------------
(* The inductive invariant.                                                *)

\* A caller has a transaction once New has registered it.
IdleHaveNone == \A q \in Queries : pc[q] \in {"idle", "looking", "found"} <=> response[q] = None

\* Two callers inside New hold one key only if the counter came round between their draws.
DrawnOnce ==
    \A q, r \in InNew : q # r /\ key[q] = key[r] => {q, r} \cap lapped # {}

\* A key found free is in use since only if the counter came round, too.
FoundIsFree ==
    \A q \in Queries :
        pc[q] = "found" /\ key[q] \in DOMAIN cache => {q, cache[key[q]]} \cap lapped # {}

\* What is registered under a key is a transaction with that key.
CacheMatchesKeys ==
    \A k \in DOMAIN cache : key[cache[k]] = k /\ response[cache[k]] # None

OpenRegistered ==
    \A q \in Queries : Pending(q) => Registered(q) \/ Overrun(q)

ClosesCounted == \A q \in Queries : closes[q] = IF Done(q) THEN 1 ELSE 0

\* The keys a sweep holds are registered; those it will delete are done, unless another
\* transaction took the place of the one it saw.
SweepKeys ==
    /\ toVisit \subseteq DOMAIN cache
    /\ \A k \in toDelete : k \in DOMAIN cache /\ (Done(cache[k]) \/ Overrun(cache[k]))
    /\ sweeper \in {"idle", "delete"} => toVisit = {}

\* Between the visit of an expired entry and its close: the entry stays, a reply
\* may have come in, and the node is charged once.
SweepCurrent ==
    sweeper \in {"charge", "close"} =>
        /\ current \in Queries
        /\ key[current] \in DOMAIN cache
        /\ cache[key[current]] = current
        /\ response[current] \in {"overdue", "value"}
        /\ charged[current] = IF sweeper = "charge" THEN 0 ELSE 1

ChargedOnce ==
    \A q \in Queries :
        /\ charged[q] \in {0, 1}
        /\ charged[q] = 1 => Done(q) \/ (sweeper = "close" /\ current = q)
        /\ response[q] = "closed" => charged[q] = 1

\* The failed queries of a node that the sweeper and the crawler counted.
SweeperCounted(n) == {q \in failed[n] : charged[q] = 1}
CrawlerCounted(n) == {q \in failed[n] \cap FromCrawler : pc[q] = "settled"}

\* A failure count is covered by failed queries since the last refresh.
FailuresCovered ==
    /\ \A n \in Peers : IsFiniteSet(failed[n])
    /\ \A n \in DOMAIN failures :
         failures[n] <= Cardinality(SweeperCounted(n)) + Cardinality(CrawlerCounted(n))

IInv ==
    /\ TypeOK
    /\ IdleHaveNone
    /\ DrawnOnce
    /\ FoundIsFree
    /\ CacheMatchesKeys
    /\ OpenRegistered
    /\ ClosesCounted
    /\ SweepKeys
    /\ SweepCurrent
    /\ ChargedOnce
    /\ FailuresCovered

-----------------------------------------------------------------------------
(* Steps outside New.                                                      *)

\* Two transactions with one key have it for good.
OverrunStays == \A q \in Queries : response[q] # None /\ Overrun(q) => Overrun(q)'

\* A step that draws no key and registers nothing leaves what New relies on.
LEMMA OutsideNew ==
    ASSUME IInv, UNCHANGED <<key, lapped>>,
           \A q \in Queries :
               /\ pc'[q] = pc[q] \/ {pc[q], pc'[q]} \cap {"idle", "looking", "found"} = {}
               /\ response'[q] = None <=> response[q] = None,
           DOMAIN cache' \subseteq DOMAIN cache,
           \A k \in DOMAIN cache' : cache'[k] = cache[k]
    PROVE  IdleHaveNone' /\ DrawnOnce' /\ FoundIsFree' /\ OverrunStays
<1>1. IdleHaveNone'
  BY DEF IInv, IdleHaveNone
<1>2. InNew' = InNew
  BY DEF InNew
<1>3. DrawnOnce'
  BY <1>2 DEF IInv, DrawnOnce
<1>4. FoundIsFree'
  BY DEF IInv, FoundIsFree
<1>5. OverrunStays
  BY DEF OverrunStays, Overrun
<1> QED BY <1>1, <1>3, <1>4, <1>5

-----------------------------------------------------------------------------
(* The routing table, as the callers reach it.                             *)

\* A call to the table keeps the counts below the threshold and the history typed.
LEMMA TableTyped ==
    ASSUME TypeOK, NEW n \in Peers,
           \/ InsertNode(n) \/ MarkSuccess(n) \/ UNCHANGED tableVars
           \/ \E q \in Queries : MarkFailure(n, q)
    PROVE  /\ failures' \in [DOMAIN failures' -> 0 .. (BadThreshold - 1)]
           /\ DOMAIN failures' \subseteq Peers
           /\ failed' \in [Peers -> SUBSET Queries]
<1>1. BadThreshold \in Nat \ {0}
  BY TransactionsAssumption
<1> DEFINE Counts == 0 .. (BadThreshold - 1)
<1>2. ASSUME Table!Refresh(n)
      PROVE  failures' \in [DOMAIN failures -> Counts] /\ DOMAIN failures' = DOMAIN failures
  BY <1>1, <1>2 DEF TypeOK, Table!Refresh, Table!Known
<1>3. ASSUME Table!Admit(n)
      PROVE  /\ failures' \in [DOMAIN failures \cup {n} -> Counts]
             /\ DOMAIN failures' = DOMAIN failures \cup {n}
  BY <1>1, <1>3 DEF TypeOK, Table!Admit, Table!Known
<1>4. CASE InsertNode(n)
  <2>1. failed' \in [Peers -> SUBSET Queries]
    BY <1>4 DEF TypeOK, InsertNode, Refreshes
  <2>2. Table!Admit(n) \/ Table!Refresh(n) \/ UNCHANGED failures
    BY <1>4, Zenon DEF InsertNode, Table!Insert, Table!Ignore
  <2> QED BY <2>1, <2>2, <1>2, <1>3 DEF TypeOK
<1>5. CASE MarkSuccess(n)
  <2>1. failed' \in [Peers -> SUBSET Queries]
    BY <1>5 DEF TypeOK, MarkSuccess, Refreshes, tableVars
  <2>2. Table!Refresh(n) \/ UNCHANGED failures
    BY <1>5 DEF MarkSuccess, tableVars
  <2> QED BY <2>1, <2>2, <1>2 DEF TypeOK
<1>6. CASE UNCHANGED tableVars
  BY <1>6 DEF TypeOK, tableVars
<1>7. ASSUME NEW q \in Queries, MarkFailure(n, q)
      PROVE  /\ failures' \in [DOMAIN failures' -> 0 .. (BadThreshold - 1)]
             /\ DOMAIN failures' \subseteq Peers
             /\ failed' \in [Peers -> SUBSET Queries]
  <2>1. failed' \in [Peers -> SUBSET Queries]
    BY <1>7 DEF TypeOK, MarkFailure
  <2>2. CASE Table!Count(n)
    <3>1. failures' \in [DOMAIN failures -> Counts] /\ DOMAIN failures' = DOMAIN failures
      BY <1>1, <2>2 DEF TypeOK, Table!Count, Table!Known
    <3> QED BY <2>1, <3>1 DEF TypeOK
  <2>3. CASE Table!Forget(n)
    <3>1. /\ failures' \in [DOMAIN failures \ {n} -> Counts]
          /\ DOMAIN failures' = DOMAIN failures \ {n}
      BY <1>1, <2>3 DEF TypeOK, Table!Forget, Table!Known
    <3> QED BY <2>1, <3>1 DEF TypeOK
  <2>4. CASE UNCHANGED failures
    BY <2>1, <2>4 DEF TypeOK
  <2> QED BY <1>7, <2>2, <2>3, <2>4 DEF MarkFailure, Table!MarkFailure, Table!Ignore
<1> QED BY <1>4, <1>5, <1>6, <1>7

-----------------------------------------------------------------------------
(* What covers the failure counts.                                         *)

\* The history of charges and of settled calls only grows.
HistoryGrows ==
    \A q \in Queries : /\ charged[q] = 1 => charged'[q] = 1
                       /\ pc[q] = "settled" => pc'[q] = "settled"

\* Whatever a node's failed queries gain, its counted queries are counted still.
LEMMA CountedGrow ==
    ASSUME IInv, HistoryGrows, NEW n \in Peers,
           failed'[n] \in SUBSET Queries, IsFiniteSet(failed'[n]), failed[n] \subseteq failed'[n]
    PROVE  /\ IsFiniteSet(SweeperCounted(n)') /\ IsFiniteSet(CrawlerCounted(n)')
           /\ Cardinality(SweeperCounted(n)) \in Nat /\ Cardinality(CrawlerCounted(n)) \in Nat
           /\ Cardinality(SweeperCounted(n)') \in Nat /\ Cardinality(CrawlerCounted(n)') \in Nat
           /\ SweeperCounted(n) \subseteq SweeperCounted(n)'
           /\ CrawlerCounted(n) \subseteq CrawlerCounted(n)'
           /\ Cardinality(SweeperCounted(n)) <= Cardinality(SweeperCounted(n)')
           /\ Cardinality(CrawlerCounted(n)) <= Cardinality(CrawlerCounted(n)')
<1>1. SweeperCounted(n)' \subseteq failed'[n] /\ CrawlerCounted(n)' \subseteq failed'[n]
  BY DEF SweeperCounted, CrawlerCounted
<1>2. IsFiniteSet(SweeperCounted(n)') /\ IsFiniteSet(CrawlerCounted(n)')
  BY <1>1, FS_Subset
<1>3. /\ SweeperCounted(n) \subseteq SweeperCounted(n)'
      /\ CrawlerCounted(n) \subseteq CrawlerCounted(n)'
  BY DEF IInv, TypeOK, HistoryGrows, SweeperCounted, CrawlerCounted
<1>4. IsFiniteSet(SweeperCounted(n)) /\ IsFiniteSet(CrawlerCounted(n))
  BY <1>2, <1>3, FS_Subset
<1> QED BY <1>2, <1>3, <1>4, FS_Subset, FS_CardinalityType

\* A step that leaves the table alone leaves every count covered.
LEMMA CoverageUntouched ==
    ASSUME IInv, HistoryGrows, UNCHANGED tableVars
    PROVE  FailuresCovered'
<1>1. failures' = failures /\ failed' = failed
  BY DEF tableVars
<1>2. \A n \in Peers : IsFiniteSet(failed[n]) /\ failed[n] \in SUBSET Queries
  BY DEF IInv, TypeOK, FailuresCovered
<1>3. ASSUME NEW n \in DOMAIN failures
      PROVE  failures[n] <= Cardinality(SweeperCounted(n)') + Cardinality(CrawlerCounted(n)')
  <2>1. n \in Peers /\ failures[n] \in Int
    BY TransactionsAssumption DEF IInv, TypeOK
  <2>2. failures[n] <= Cardinality(SweeperCounted(n)) + Cardinality(CrawlerCounted(n))
    BY DEF IInv, FailuresCovered
  <2> QED BY <1>1, <1>2, <2>1, <2>2, CountedGrow
<1> QED BY <1>1, <1>2, <1>3 DEF FailuresCovered

\* An answer of a node, or nothing, leaves every count covered: an admitted or
\* refreshed node starts at 0, the others keep their failed queries.
LEMMA CoverageKept ==
    ASSUME IInv, HistoryGrows, NEW n \in Peers,
           InsertNode(n) \/ MarkSuccess(n)
    PROVE  FailuresCovered'
<1>1. IsFiniteSet({})
  BY FS_EmptySet
<1>2. failed \in [Peers -> SUBSET Queries] /\ \A m \in Peers : IsFiniteSet(failed[m])
  BY DEF IInv, TypeOK, FailuresCovered
<1>3. failed' \in [Peers -> SUBSET Queries]
  BY TableTyped DEF IInv
<1>4. DOMAIN failures' \subseteq Peers /\ failures' \in [DOMAIN failures' -> 0 .. (BadThreshold - 1)]
  BY TableTyped DEF IInv
<1>5. \/ UNCHANGED tableVars
      \/ /\ failed' = [failed EXCEPT ![n] = {}]
         /\ Table!Admit(n) \/ Table!Refresh(n)
  <2>1. Table!Admit(n) => n \in DOMAIN failures'
    BY DEF Table!Admit, Table!Known
  <2>2. Table!Refresh(n) => n \in DOMAIN failures'
    BY DEF Table!Refresh, Table!Known
  <2>3. n \notin Table!Known /\ Table!Ignore => n \notin DOMAIN failures'
    BY DEF Table!Ignore, Table!Known
  <2>4. CASE InsertNode(n)
    BY <2>1, <2>2, <2>3, <2>4 DEF InsertNode, Refreshes, tableVars, Table!Insert, Table!Ignore
  <2>5. CASE MarkSuccess(n)
    BY <2>5 DEF MarkSuccess, Refreshes
  <2> QED BY <2>4, <2>5
<1>6. ASSUME NEW m \in Peers PROVE IsFiniteSet(failed'[m])
  BY <1>1, <1>2, <1>5 DEF tableVars
<1>7. ASSUME NEW m \in DOMAIN failures'
      PROVE  failures'[m] <= Cardinality(SweeperCounted(m)') + Cardinality(CrawlerCounted(m)')
  <2>1. CASE failures'[m] = 0
    <3>1. SweeperCounted(m)' \subseteq failed'[m] /\ CrawlerCounted(m)' \subseteq failed'[m]
      BY DEF SweeperCounted, CrawlerCounted
    <3>2. Cardinality(SweeperCounted(m)') \in Nat /\ Cardinality(CrawlerCounted(m)') \in Nat
      BY <3>1, <1>4, <1>6, FS_Subset, FS_CardinalityType
    <3> QED BY <2>1, <3>2
  <2>2. CASE failures'[m] # 0
    <3>1. m \in DOMAIN failures /\ failures'[m] = failures[m] /\ failed'[m] = failed[m]
      BY <1>2, <1>5, <2>2, <1>4 DEF IInv, TypeOK, tableVars, Table!Admit, Table!Refresh, Table!Known
    <3>2. /\ Cardinality(SweeperCounted(m)) <= Cardinality(SweeperCounted(m)')
          /\ Cardinality(CrawlerCounted(m)) <= Cardinality(CrawlerCounted(m)')
          /\ Cardinality(SweeperCounted(m)) \in Nat /\ Cardinality(CrawlerCounted(m)) \in Nat
          /\ Cardinality(SweeperCounted(m)') \in Nat /\ Cardinality(CrawlerCounted(m)') \in Nat
      BY <1>3, <1>4, <1>6, <3>1, CountedGrow
    <3>3. failures[m] <= Cardinality(SweeperCounted(m)) + Cardinality(CrawlerCounted(m))
      BY <3>1 DEF IInv, FailuresCovered
    <3>4. failures[m] \in Nat
      BY <3>1, TransactionsAssumption DEF IInv, TypeOK
    <3> QED BY <3>1, <3>2, <3>3, <3>4
  <2> QED BY <2>1, <2>2
<1> QED BY <1>6, <1>7 DEF FailuresCovered

\* What one more failure of n is worth: the query joins the sweeper's or the crawler's.
FailureIsCounted(n, q) ==
    \/ q \notin SweeperCounted(n) /\ q \in SweeperCounted(n)'
    \/ q \notin CrawlerCounted(n) /\ q \in CrawlerCounted(n)'

\* A failure is counted together with the query that failed, so the counts stay covered,
\* and the failure that makes a node bad finds that many failed queries behind it.
LEMMA CoverageExtended ==
    ASSUME IInv, HistoryGrows, NEW n \in Peers, NEW q \in Queries,
           MarkFailure(n, q), FailureIsCounted(n, q)
    PROVE  /\ FailuresCovered'
           /\ \A m \in DOMAIN failures \ DOMAIN failures' :
                Cardinality(failed'[m]) + Cardinality(failed'[m] \cap FromCrawler) >= BadThreshold
<1>1. /\ failed \in [Peers -> SUBSET Queries]
      /\ failures \in [DOMAIN failures -> 0 .. (BadThreshold - 1)]
      /\ DOMAIN failures \subseteq Peers
      /\ \A m \in Peers : IsFiniteSet(failed[m])
  BY DEF IInv, TypeOK, FailuresCovered
<1>2. /\ failed' \in [Peers -> SUBSET Queries]
      /\ DOMAIN failures' \subseteq Peers
  BY TableTyped DEF IInv
<1>3. failed' = [failed EXCEPT ![n] = @ \cup {q}]
  BY DEF MarkFailure
<1>4. ASSUME NEW m \in Peers PROVE IsFiniteSet(failed'[m])
  BY <1>1, <1>3, FS_AddElement
<1>5. ASSUME NEW m \in Peers
      PROVE  /\ SweeperCounted(m) \subseteq SweeperCounted(m)'
             /\ CrawlerCounted(m) \subseteq CrawlerCounted(m)'
             /\ IsFiniteSet(SweeperCounted(m)') /\ IsFiniteSet(CrawlerCounted(m)')
             /\ Cardinality(SweeperCounted(m)) \in Nat /\ Cardinality(CrawlerCounted(m)) \in Nat
             /\ Cardinality(SweeperCounted(m)') \in Nat /\ Cardinality(CrawlerCounted(m)') \in Nat
             /\ Cardinality(SweeperCounted(m)) <= Cardinality(SweeperCounted(m)')
             /\ Cardinality(CrawlerCounted(m)) <= Cardinality(CrawlerCounted(m)')
  <2>1. failed[m] \subseteq failed'[m]
    BY <1>1, <1>3
  <2> QED BY <2>1, <1>2, <1>4, CountedGrow
<1>6. Cardinality(SweeperCounted(n)) + Cardinality(CrawlerCounted(n)) + 1
        <= Cardinality(SweeperCounted(n)') + Cardinality(CrawlerCounted(n)')
  <2>1. CASE q \notin SweeperCounted(n) /\ q \in SweeperCounted(n)'
    <3>1. Cardinality(SweeperCounted(n)) # Cardinality(SweeperCounted(n)')
      BY <2>1, <1>5, FS_Subset
    <3> QED BY <3>1, <1>5
  <2>2. CASE q \notin CrawlerCounted(n) /\ q \in CrawlerCounted(n)'
    <3>1. Cardinality(CrawlerCounted(n)) # Cardinality(CrawlerCounted(n)')
      BY <2>2, <1>5, FS_Subset
    <3> QED BY <3>1, <1>5
  <2> QED BY <2>1, <2>2 DEF FailureIsCounted
<1>7. \/ Table!Count(n) \/ Table!Forget(n)
      \/ n \notin DOMAIN failures /\ failures' = failures
  BY DEF MarkFailure, Table!MarkFailure, Table!Ignore, Table!Known
<1>8. ASSUME NEW m \in DOMAIN failures'
      PROVE  failures'[m] <= Cardinality(SweeperCounted(m)') + Cardinality(CrawlerCounted(m)')
  <2>1. m \in DOMAIN failures /\ m \in Peers /\ failures[m] \in Nat
    BY <1>1, <1>2, <1>7, TransactionsAssumption
       DEF Table!Count, Table!Forget, Table!Known
  <2>2. \/ failures'[m] = failures[m]
        \/ m = n /\ failures'[m] = failures[m] + 1
    BY <1>1, <1>7, <2>1 DEF Table!Count, Table!Forget, Table!Known
  <2>3. failures[m] <= Cardinality(SweeperCounted(m)) + Cardinality(CrawlerCounted(m))
    BY <2>1 DEF IInv, FailuresCovered
  <2> QED BY <2>1, <2>2, <2>3, <1>5, <1>6
<1>9. ASSUME NEW m \in DOMAIN failures \ DOMAIN failures'
      PROVE  Cardinality(failed'[m]) + Cardinality(failed'[m] \cap FromCrawler) >= BadThreshold
  <2>1. m = n /\ failures[n] + 1 >= BadThreshold /\ n \in DOMAIN failures
    BY <1>1, <1>7, <1>9 DEF Table!Count, Table!Forget, Table!Known
  <2>2. failures[n] <= Cardinality(SweeperCounted(n)) + Cardinality(CrawlerCounted(n))
    BY <2>1 DEF IInv, FailuresCovered
  <2>3. /\ SweeperCounted(n)' \subseteq failed'[n]
        /\ CrawlerCounted(n)' \subseteq failed'[n] \cap FromCrawler
    BY DEF SweeperCounted, CrawlerCounted
  <2>4. IsFiniteSet(failed'[n]) /\ IsFiniteSet(failed'[n] \cap FromCrawler)
    BY <1>4, FS_Subset
  <2>5. /\ Cardinality(SweeperCounted(n)') <= Cardinality(failed'[n])
        /\ Cardinality(CrawlerCounted(n)') <= Cardinality(failed'[n] \cap FromCrawler)
        /\ Cardinality(failed'[n]) \in Nat
        /\ Cardinality(failed'[n] \cap FromCrawler) \in Nat
    BY <2>3, <2>4, FS_Subset, FS_CardinalityType
  <2>6. failures[n] \in Nat /\ BadThreshold \in Nat
    BY <2>1, <1>1, TransactionsAssumption
  <2> QED BY <2>1, <2>2, <2>5, <2>6, <1>5, <1>6
<1> QED BY <1>4, <1>8, <1>9 DEF FailuresCovered

-----------------------------------------------------------------------------
(* Initial states and steps.                                               *)

\* The tables are empty of failures and no query has been made.
LEMMA InitIInv == Init => IInv
<1> SUFFICES ASSUME Init PROVE IInv
  OBVIOUS
<1>1. PICK S \in SUBSET Peers : failures = [n \in S |-> 0]
  BY DEF Init
<1>2. BadThreshold \in Nat \ {0} /\ size \in Nat \ {0} /\ size \in KeySpaces
  BY TransactionsAssumption DEF Init
<1>3. IsFiniteSet({}) /\ Cardinality({}) = 0
  BY FS_EmptySet
<1>4. TypeOK
  BY <1>1, <1>2 DEF Init, TypeOK, Keys, None
<1>5. FailuresCovered
  <2>1. \A n \in DOMAIN failures : SweeperCounted(n) = {} /\ CrawlerCounted(n) = {}
    BY <1>1 DEF Init, SweeperCounted, CrawlerCounted
  <2>2. \A n \in DOMAIN failures :
          Cardinality(SweeperCounted(n)) = 0 /\ Cardinality(CrawlerCounted(n)) = 0
    BY <2>1, <1>3
  <2>3. \A n \in DOMAIN failures : failures[n] = 0
    BY <1>1
  <2> QED BY <2>2, <2>3, <1>3 DEF Init, FailuresCovered
<1> QED
  BY <1>4, <1>5
     DEF Init, IInv, IdleHaveNone, InNew, DrawnOnce, FoundIsFree, CacheMatchesKeys, OpenRegistered, ClosesCounted, SweepKeys,
         SweepCurrent, ChargedOnce, Pending, Done, None

\* Add: whoever is inside New with the key drawn has been lapped.
LEMMA AddKeeps ==
    ASSUME IInv, NEW q \in Queries, Add(q)
    PROVE  IInv'
<1> DEFINE drawn == (counter + 1) % size
<1> USE DEF Add, callerVars, sweepVars, netVars, chanVars, tableVars
<1>1. drawn \in Keys
  BY TransactionsAssumption DEF IInv, TypeOK, Keys
<1>2. /\ response[q] = None /\ \A k \in DOMAIN cache : cache[k] # q
      /\ key' = [key EXCEPT ![q] = drawn] /\ pc' = [pc EXCEPT ![q] = "looking"]
      /\ lapped' = (lapped \ {q}) \cup {r \in InNew : key[r] = drawn} /\ pc[q] = "idle"
      /\ key \in [Queries -> Keys] /\ DOMAIN pc = Queries /\ counter' = drawn
  BY DEF IInv, TypeOK, IdleHaveNone, CacheMatchesKeys
<1> HIDE DEF drawn
<1>3. TypeOK'
  <2>1. Keys' = Keys
    BY DEF Keys
  <2>2. counter' \in Keys /\ key' \in [Queries -> Keys]
    BY <1>1, <1>2
  <2>3. pc' \in [Queries -> {"idle", "looking", "found", "registered", "waiting", "answered",
                            "failed", "settled"}]
    BY <1>2 DEF IInv, TypeOK
  <2>4. lapped' \subseteq Queries
    BY <1>2 DEF IInv, TypeOK, InNew
  <2> QED BY <2>1, <2>2, <2>3, <2>4 DEF IInv, TypeOK
<1>4. FailuresCovered'
  <2>1. HistoryGrows
    BY DEF IInv, TypeOK, HistoryGrows
  <2> QED BY <2>1, CoverageUntouched
<1>5. IdleHaveNone' /\ ClosesCounted'
  BY <1>2 DEF IInv, IdleHaveNone, ClosesCounted, Done
<1>6. DrawnOnce'
  <2>1. InNew' = InNew \cup {q} /\ q \notin InNew
    BY <1>2 DEF InNew
  <2>2. \A r \in InNew : key[r] = drawn => r \in lapped'
    BY <1>2
  <2>3. \A r \in InNew : r \in Queries /\ key'[r] = key[r] /\ (r \in lapped => r \in lapped')
    BY <1>2, <2>1 DEF InNew
  <2>4. key'[q] = drawn
    BY <1>2
  <2> QED BY <2>1, <2>2, <2>3, <2>4 DEF IInv, DrawnOnce
<1>7. FoundIsFree'
  BY <1>2 DEF IInv, TypeOK, FoundIsFree
<1>8. OverrunStays
  <2>1. \A r \in Queries \ {q} : (r \in lapped => r \in lapped') /\ key'[r] = key[r]
    BY <1>2
  <2> QED BY <1>2, <2>1 DEF OverrunStays, Overrun
<1>9. CacheMatchesKeys' /\ OpenRegistered'
  BY <1>2, <1>8 DEF IInv, TypeOK, CacheMatchesKeys, OpenRegistered, OverrunStays, Registered, Pending, None
<1>10. SweepKeys'
  <2>1. \A k \in DOMAIN cache : cache[k] \in Queries /\ response[cache[k]] # None
    BY DEF IInv, TypeOK, CacheMatchesKeys
  <2> QED BY <1>8, <2>1 DEF IInv, SweepKeys, OverrunStays, Done
<1>11. SweepCurrent' /\ ChargedOnce'
  BY <1>2 DEF IInv, TypeOK, SweepCurrent, ChargedOnce, Done, None
<1> QED BY <1>3, <1>4, <1>5, <1>6, <1>7, <1>9, <1>10, <1>11 DEF IInv

\* Look: the key is free now, or the next one is drawn.
LEMMA LookKeeps ==
    ASSUME IInv, NEW q \in Queries, Look(q)
    PROVE  IInv'
<1> USE DEF Look, sweepVars, netVars, chanVars, tableVars
<1>1. TypeOK'
  BY DEF IInv, TypeOK, Keys
<1>2. FailuresCovered'
  <2>1. HistoryGrows
    BY DEF IInv, TypeOK, HistoryGrows
  <2> QED BY <2>1, CoverageUntouched
<1>3. IdleHaveNone' /\ ClosesCounted'
  BY DEF IInv, TypeOK, IdleHaveNone, ClosesCounted, Done
<1>4. DrawnOnce'
  <2>1. InNew' \subseteq InNew
    BY DEF IInv, TypeOK, InNew
  <2> QED BY <2>1 DEF IInv, DrawnOnce
<1>5. FoundIsFree'
  BY DEF IInv, TypeOK, FoundIsFree
<1>6. OverrunStays
  BY DEF OverrunStays, Overrun
<1>7. CacheMatchesKeys' /\ OpenRegistered'
  BY <1>6 DEF IInv, CacheMatchesKeys, OpenRegistered, OverrunStays, Registered, Pending, None
<1>8. SweepKeys' /\ SweepCurrent' /\ ChargedOnce'
  BY <1>6 DEF IInv, TypeOK, CacheMatchesKeys, SweepKeys, SweepCurrent, ChargedOnce, OverrunStays, Done
<1> QED BY <1>1, <1>2, <1>3, <1>4, <1>5, <1>7, <1>8 DEF IInv

\* Register: an entry that is overwritten is one of a caller that was lapped, or that
\* lapped this one.
LEMMA RegisterKeeps ==
    ASSUME IInv, NEW q \in Queries, Register(q)
    PROVE  IInv'
<1> USE DEF Register, sweepVars, netVars, tableVars
<1>1. /\ response[q] = None /\ \A k \in DOMAIN cache : cache[k] # q
      /\ key[q] \in Keys /\ pc[q] = "found" /\ response' = [response EXCEPT ![q] = "open"]
      /\ pc' = [pc EXCEPT ![q] = "registered"] /\ UNCHANGED <<key, lapped>>
      /\ DOMAIN cache' = DOMAIN cache \cup {key[q]}
      /\ \A k \in DOMAIN cache' : cache'[k] = IF k = key[q] THEN q ELSE cache[k]
  BY DEF IInv, TypeOK, IdleHaveNone, CacheMatchesKeys
<1>2. response'[q] = "open" /\ \A p \in Queries \ {q} : response'[p] = response[p]
  BY <1>1 DEF IInv, TypeOK
<1>3. charged[q] # 1
  BY <1>1 DEF IInv, SweepHoldsLock, ChargedOnce, Done, None
<1>4. TypeOK'
  <2>1. Keys' = Keys
    BY DEF Keys
  <2>2. DOMAIN cache' \subseteq Keys /\ cache' \in [DOMAIN cache' -> Queries]
    BY <1>1 DEF IInv, TypeOK
  <2>3. pc' \in [Queries -> {"idle", "looking", "found", "registered", "waiting", "answered",
                            "failed", "settled"}]
    BY <1>1 DEF IInv, TypeOK
  <2>4. response' \in [Queries -> {None, "open", "overdue", "value", "closed"}]
    BY <1>1 DEF IInv, TypeOK
  <2> QED BY <1>1, <2>1, <2>2, <2>3, <2>4 DEF IInv, TypeOK
<1>5. FailuresCovered'
  <2>1. HistoryGrows
    BY DEF IInv, TypeOK, HistoryGrows
  <2> QED BY <2>1, CoverageUntouched
<1>6. IdleHaveNone' /\ ClosesCounted'
  BY <1>1 DEF IInv, TypeOK, IdleHaveNone, ClosesCounted, Done, None
<1>7. DrawnOnce'
  <2>1. InNew' \subseteq InNew
    BY DEF IInv, TypeOK, InNew
  <2> QED BY <2>1 DEF IInv, DrawnOnce
<1>8. FoundIsFree'
  <2> SUFFICES ASSUME NEW p \in Queries, pc'[p] = "found", key[p] \in DOMAIN cache'
               PROVE  {p, cache'[key[p]]} \cap lapped # {}
    BY <1>1 DEF FoundIsFree
  <2>1. p # q /\ pc[p] = "found"
    BY <1>1 DEF IInv, TypeOK
  <2>2. CASE key[p] = key[q]
    <3>1. p \in InNew /\ q \in InNew
      BY <1>1, <2>1 DEF InNew
    <3> QED BY <1>1, <2>1, <2>2, <3>1 DEF IInv, DrawnOnce
  <2>3. CASE key[p] # key[q]
    BY <1>1, <2>1, <2>3 DEF IInv, FoundIsFree
  <2> QED BY <2>2, <2>3
<1>9. OverrunStays
  BY <1>1, <1>2 DEF OverrunStays, Overrun, None
<1>10. ASSUME NEW r, key[q] \in DOMAIN cache, r = cache[key[q]]
       PROVE  Overrun(q)' /\ Overrun(r)'
  <2>1. r \in Queries \ {q} /\ key[r] = key[q] /\ response[r] # None
    BY <1>1, <1>10 DEF IInv, TypeOK, CacheMatchesKeys
  <2>2. {q, r} \cap lapped # {}
    BY <1>1, <1>10 DEF IInv, FoundIsFree
  <2>3. response'[q] # None /\ response'[r] # None
    BY <1>2, <2>1 DEF None
  <2> QED BY <1>1, <2>1, <2>2, <2>3 DEF Overrun
<1>11. CacheMatchesKeys'
  BY <1>1, <1>2 DEF IInv, TypeOK, CacheMatchesKeys, None
<1>12. OpenRegistered'
  <2> SUFFICES ASSUME NEW p \in Queries, Pending(p)'
               PROVE  Registered(p)' \/ Overrun(p)'
    BY DEF OpenRegistered
  <2>1. CASE p = q
    BY <1>1, <2>1 DEF Registered
  <2>2. CASE p # q
    <3>1. Pending(p) /\ response[p] # None
      BY <1>2, <2>2 DEF Pending, None
    <3>2. Registered(p) \/ Overrun(p)
      BY <3>1 DEF IInv, OpenRegistered
    <3>3. CASE Registered(p) /\ key[p] = key[q]
      BY <1>10, <3>3 DEF Registered
    <3>4. CASE Registered(p) /\ key[p] # key[q]
      BY <1>1, <3>4 DEF Registered
    <3> QED BY <1>9, <3>1, <3>2, <3>3, <3>4 DEF OverrunStays
  <2> QED BY <2>1, <2>2
<1>13. SweepKeys'
  <2> SUFFICES ASSUME NEW k \in toDelete, NEW p, p = cache'[k]
               PROVE  k \in DOMAIN cache' /\ (Done(p)' \/ Overrun(p)')
    BY <1>1 DEF IInv, SweepKeys
  <2>1. k \in DOMAIN cache /\ (Done(cache[k]) \/ Overrun(cache[k]))
    BY DEF IInv, SweepKeys
  <2>2. CASE k = key[q]
    BY <1>1, <1>10, <2>1, <2>2
  <2>3. CASE k # key[q]
    <3>1. p = cache[k] /\ p \in Queries \ {q} /\ response[p] # None
      BY <1>1, <2>1, <2>3 DEF IInv, TypeOK, CacheMatchesKeys
    <3>2. Done(p) => Done(p)'
      BY <1>2, <3>1 DEF Done
    <3>3. Overrun(p) => Overrun(p)'
      BY <1>9, <3>1 DEF OverrunStays
    <3> QED BY <1>1, <2>1, <3>1, <3>2, <3>3
  <2> QED BY <2>2, <2>3
<1>14. SweepCurrent' /\ ChargedOnce'
  BY <1>1, <1>2, <1>3 DEF IInv, TypeOK, SweepCurrent, SweepHoldsLock, ChargedOnce, Done
<1> QED BY <1>4, <1>5, <1>6, <1>7, <1>8, <1>11, <1>12, <1>13, <1>14 DEF IInv

\* The message is queued or refused: only the caller moves.
LEMMA EnqueueKeeps ==
    ASSUME IInv, NEW q \in Queries, Enqueue(q)
    PROVE  IInv'
<1> USE DEF Enqueue, callerVars, sweepVars, netVars, chanVars, tableVars
<1>1. TypeOK'
  <2>1. Append(outbound, q) \in Seq(Queries)
    BY AppendProperties DEF IInv, TypeOK
  <2> QED BY <2>1 DEF IInv, TypeOK, Keys
<1>2. FailuresCovered'
  <2>1. HistoryGrows
    BY DEF IInv, TypeOK, HistoryGrows
  <2> QED BY <2>1, CoverageUntouched
<1>3. IdleHaveNone' /\ DrawnOnce' /\ FoundIsFree' /\ OverrunStays
  BY OutsideNew DEF IInv, TypeOK, None
<1>4. CacheMatchesKeys' /\ OpenRegistered' /\ ClosesCounted'
  BY <1>3
     DEF IInv, TypeOK, OverrunStays, Registered, CacheMatchesKeys, OpenRegistered, ClosesCounted, Pending, Done, None
<1>5. SweepKeys' /\ SweepCurrent'
  BY <1>3
     DEF IInv, TypeOK, OverrunStays, Registered, CacheMatchesKeys, SweepKeys, SweepCurrent, Done, None
<1>6. ChargedOnce'
  BY DEF IInv, TypeOK, SweepCurrent, ChargedOnce, Done, None
<1> QED BY <1>1, <1>2, <1>3, <1>4, <1>5, <1>6 DEF IInv

\* The caller takes its outcome.
LEMMA ReceiveKeeps ==
    ASSUME IInv, NEW q \in Queries, Receive(q)
    PROVE  IInv'
<1> USE DEF Receive, callerVars, sweepVars, netVars, chanVars, tableVars
<1>1. TypeOK'
  BY DEF IInv, TypeOK, Keys
<1>2. FailuresCovered'
  <2>1. HistoryGrows
    BY DEF IInv, TypeOK, HistoryGrows
  <2> QED BY <2>1, CoverageUntouched
<1>3. IdleHaveNone' /\ DrawnOnce' /\ FoundIsFree' /\ OverrunStays
  BY OutsideNew DEF IInv, TypeOK, None
<1>4. CacheMatchesKeys' /\ OpenRegistered' /\ ClosesCounted'
  BY <1>3
     DEF IInv, TypeOK, OverrunStays, Registered, CacheMatchesKeys, OpenRegistered, ClosesCounted, Pending, Done, None
<1>5. SweepKeys' /\ SweepCurrent'
  BY <1>3
     DEF IInv, TypeOK, OverrunStays, Registered, CacheMatchesKeys, SweepKeys, SweepCurrent, Done, None
<1>6. ChargedOnce'
  BY DEF IInv, TypeOK, SweepCurrent, ChargedOnce, Done, None
<1> QED BY <1>1, <1>2, <1>3, <1>4, <1>5, <1>6 DEF IInv

\* The caller gives up; its transaction stays registered.
LEMMA CancelKeeps ==
    ASSUME IInv, NEW q \in Queries, Cancel(q)
    PROVE  IInv'
<1> USE DEF Cancel, callerVars, sweepVars, netVars, chanVars, tableVars
<1>1. TypeOK'
  BY DEF IInv, TypeOK, Keys
<1>2. FailuresCovered'
  <2>1. HistoryGrows
    BY DEF IInv, TypeOK, HistoryGrows
  <2> QED BY <2>1, CoverageUntouched
<1>3. IdleHaveNone' /\ DrawnOnce' /\ FoundIsFree' /\ OverrunStays
  BY OutsideNew DEF IInv, TypeOK, None
<1>4. CacheMatchesKeys' /\ OpenRegistered' /\ ClosesCounted'
  BY <1>3
     DEF IInv, TypeOK, OverrunStays, Registered, CacheMatchesKeys, OpenRegistered, ClosesCounted, Pending, Done, None
<1>5. SweepKeys' /\ SweepCurrent'
  BY <1>3
     DEF IInv, TypeOK, OverrunStays, Registered, CacheMatchesKeys, SweepKeys, SweepCurrent, Done, None
<1>6. ChargedOnce'
  BY DEF IInv, TypeOK, SweepCurrent, ChargedOnce, Done, None
<1> QED BY <1>1, <1>2, <1>3, <1>4, <1>5, <1>6 DEF IInv

\* The timeout passes: the channel stays open.
LEMMA ExpireKeeps ==
    ASSUME IInv, NEW q \in Queries, Expire(q)
    PROVE  IInv'
<1> USE DEF Expire, callerVars, sweepVars, netVars, chanVars, tableVars
<1>1. TypeOK'
  BY DEF IInv, TypeOK, Keys
<1>2. FailuresCovered'
  <2>1. HistoryGrows
    BY DEF IInv, TypeOK, HistoryGrows
  <2> QED BY <2>1, CoverageUntouched
<1>3. IdleHaveNone' /\ DrawnOnce' /\ FoundIsFree' /\ OverrunStays
  BY OutsideNew DEF IInv, TypeOK, None
<1>4. CacheMatchesKeys' /\ OpenRegistered' /\ ClosesCounted'
  BY <1>3
     DEF IInv, TypeOK, OverrunStays, Registered, CacheMatchesKeys, OpenRegistered, ClosesCounted, Pending, Done, None
<1>5. SweepKeys' /\ SweepCurrent'
  BY <1>3
     DEF IInv, TypeOK, OverrunStays, Registered, CacheMatchesKeys, SweepKeys, SweepCurrent, Done, None
<1>6. ChargedOnce'
  BY DEF IInv, TypeOK, SweepCurrent, ChargedOnce, Done, None
<1> QED BY <1>1, <1>2, <1>3, <1>4, <1>5, <1>6 DEF IInv

\* The write loop sends the oldest message.
LEMMA WriteKeeps ==
    ASSUME IInv, Write
    PROVE  IInv'
<1> USE DEF Write, callerVars, sweepVars, netVars, chanVars, tableVars
<1>1. TypeOK'
  <2>1. Head(outbound) \in Queries /\ Tail(outbound) \in Seq(Queries)
    BY HeadTailProperties DEF IInv, TypeOK
  <2> QED BY <2>1 DEF IInv, TypeOK, Keys
<1>2. FailuresCovered'
  <2>1. HistoryGrows
    BY DEF IInv, TypeOK, HistoryGrows
  <2> QED BY <2>1, CoverageUntouched
<1>3. IdleHaveNone' /\ DrawnOnce' /\ FoundIsFree' /\ OverrunStays
  BY OutsideNew DEF IInv, TypeOK, None
<1>4. CacheMatchesKeys' /\ OpenRegistered' /\ ClosesCounted'
  BY <1>3
     DEF IInv, TypeOK, OverrunStays, Registered, CacheMatchesKeys, OpenRegistered, ClosesCounted, Pending, Done, None
<1>5. SweepKeys' /\ SweepCurrent'
  BY <1>3
     DEF IInv, TypeOK, OverrunStays, Registered, CacheMatchesKeys, SweepKeys, SweepCurrent, Done, None
<1>6. ChargedOnce'
  BY DEF IInv, TypeOK, SweepCurrent, ChargedOnce, Done, None
<1> QED BY <1>1, <1>2, <1>3, <1>4, <1>5, <1>6 DEF IInv

\* The crawler settles a call once: its failure joins the ones it counted, an answer
\* refreshes the node.
LEMMA SettleKeeps ==
    ASSUME IInv, NEW q \in Queries, Settle(q)
    PROVE  IInv'
<1> USE DEF Settle, callerVars, sweepVars, netVars, chanVars
<1>1. Target[q] \in Peers /\ HistoryGrows
  BY TransactionsAssumption DEF IInv, TypeOK, HistoryGrows
<1>2. /\ failures' \in [DOMAIN failures' -> 0 .. (BadThreshold - 1)]
      /\ DOMAIN failures' \subseteq Peers
      /\ failed' \in [Peers -> SUBSET Queries]
  BY <1>1, TableTyped DEF IInv
<1>3. TypeOK'
  BY <1>2 DEF IInv, TypeOK, Keys
<1>4. FailuresCovered'
  <2>1. CASE pc[q] = "failed"
    <3>1. MarkFailure(Target[q], q)
      BY <2>1
    <3>2. q \in failed'[Target[q]]
      BY <1>1, <3>1 DEF IInv, TypeOK, MarkFailure
    <3>3. FailureIsCounted(Target[q], q)
      BY <2>1, <3>2 DEF IInv, TypeOK, FailureIsCounted, CrawlerCounted
    <3> QED BY <1>1, <3>1, <3>3, CoverageExtended
  <2>2. CASE pc[q] # "failed"
    BY <1>1, <2>2, CoverageKept
  <2> QED BY <2>1, <2>2
<1>5. IdleHaveNone' /\ DrawnOnce' /\ FoundIsFree' /\ OverrunStays
  BY OutsideNew DEF IInv, TypeOK, None
<1>6. CacheMatchesKeys' /\ OpenRegistered' /\ ClosesCounted'
  BY <1>5
     DEF IInv, TypeOK, OverrunStays, Registered, CacheMatchesKeys, OpenRegistered, ClosesCounted, Pending, Done, None
<1>7. SweepKeys' /\ SweepCurrent'
  BY <1>5
     DEF IInv, TypeOK, OverrunStays, Registered, CacheMatchesKeys, SweepKeys, SweepCurrent, Done, None
<1>8. ChargedOnce'
  BY DEF IInv, TypeOK, SweepCurrent, ChargedOnce, Done, None
<1> QED BY <1>1, <1>2, <1>3, <1>4, <1>5, <1>6, <1>7, <1>8 DEF IInv

\* A reply is delivered to the transaction registered under its key, or to none.
LEMMA ReadKeeps ==
    ASSUME IInv, NEW q \in Queries, Read(q)
    PROVE  IInv'
<1> USE DEF Read, callerVars, sweepVars, netVars, chanVars, tableVars
<1>1. \/ UNCHANGED chanVars
      \/ \E p \in Queries :
           /\ response[p] \in {"open", "overdue"}
           /\ response' = [response EXCEPT ![p] = "value"]
           /\ closes' = [closes EXCEPT ![p] = @ + 1]
  <2>1. CASE key[q] \in DOMAIN cache
    <3>1. cache[key[q]] \in Queries /\ response[cache[key[q]]] # None
      BY <2>1 DEF IInv, TypeOK, CacheMatchesKeys
    <3>2. Done(cache[key[q]]) \/ response[cache[key[q]]] \in {"open", "overdue"}
      BY <3>1 DEF IInv, TypeOK, Done
    <3> QED BY <2>1, <3>1, <3>2 DEF Deliver
  <2>2. CASE key[q] \notin DOMAIN cache
    BY <2>2
  <2> QED BY <2>1, <2>2
<1>2. wire' \subseteq Queries /\ reading' \in Queries \cup {None}
  BY DEF IInv, TypeOK
<1>3. TypeOK'
  <2>1. response' \in [Queries -> {None, "open", "overdue", "value", "closed"}]
    BY <1>1, <1>2 DEF IInv, TypeOK
  <2>2. closes' \in [Queries -> Nat]
    <3>1. closes \in [Queries -> Nat]
      BY DEF IInv, TypeOK
    <3>2. CASE UNCHANGED chanVars
      BY <3>1, <3>2
    <3>3. ASSUME NEW p \in Queries, closes' = [closes EXCEPT ![p] = @ + 1]
          PROVE  closes' \in [Queries -> Nat]
      BY <3>1, <3>3
    <3> HIDE DEF Read, chanVars
    <3> QED BY <1>1, <3>2, <3>3
  <2> QED BY <1>1, <1>2, <2>1, <2>2 DEF IInv, TypeOK, Keys
<1>4. FailuresCovered'
  <2>1. HistoryGrows
    BY DEF IInv, TypeOK, HistoryGrows
  <2> QED BY <2>1, CoverageUntouched
<1>5. IdleHaveNone' /\ DrawnOnce' /\ FoundIsFree' /\ OverrunStays
  BY <1>1, OutsideNew DEF IInv, TypeOK, None
<1>6. CacheMatchesKeys' /\ OpenRegistered' /\ ClosesCounted'
  <2>1. CacheMatchesKeys'
    BY <1>1 DEF IInv, TypeOK, CacheMatchesKeys, None
  <2>2. \A p \in Queries : Pending(p)' => Pending(p)
    BY <1>1 DEF IInv, TypeOK, Pending
  <2>3. OpenRegistered'
    BY <1>5, <2>2 DEF IInv, OpenRegistered, OverrunStays, Registered, Pending, None
  <2>4. ClosesCounted'
    BY <1>1 DEF IInv, TypeOK, ClosesCounted, Done
  <2> QED BY <2>1, <2>3, <2>4
<1>7. SweepKeys' /\ SweepCurrent'
  BY <1>1, <1>5
     DEF IInv, TypeOK, OverrunStays, Registered, CacheMatchesKeys, SweepKeys, SweepCurrent, Done, None
<1>8. ChargedOnce'
  BY <1>1 DEF IInv, TypeOK, SweepCurrent, ChargedOnce, Done, None
<1> QED BY <1>1, <1>2, <1>3, <1>4, <1>5, <1>6, <1>7, <1>8 DEF IInv

\* The node of a reply is recorded in the table, or refused by it.
LEMMA RecordKeeps ==
    ASSUME IInv, Record
    PROVE  IInv'
<1> USE DEF Record, callerVars, sweepVars, netVars, chanVars
<1>1. reading \in Queries /\ Target[reading] \in Peers /\ HistoryGrows
  BY TransactionsAssumption DEF IInv, TypeOK, HistoryGrows
<1>2. /\ failures' \in [DOMAIN failures' -> 0 .. (BadThreshold - 1)]
      /\ DOMAIN failures' \subseteq Peers
      /\ failed' \in [Peers -> SUBSET Queries]
  BY <1>1, TableTyped DEF IInv
<1>3. TypeOK'
  BY <1>2 DEF IInv, TypeOK, Keys
<1>4. FailuresCovered'
  BY <1>1, CoverageKept, CoverageUntouched
<1>5. IdleHaveNone' /\ DrawnOnce' /\ FoundIsFree' /\ OverrunStays
  BY OutsideNew DEF IInv, TypeOK, None
<1>6. CacheMatchesKeys' /\ OpenRegistered' /\ ClosesCounted'
  BY <1>5
     DEF IInv, TypeOK, OverrunStays, Registered, CacheMatchesKeys, OpenRegistered, ClosesCounted, Pending, Done, None
<1>7. SweepKeys' /\ SweepCurrent'
  BY <1>5
     DEF IInv, TypeOK, OverrunStays, Registered, CacheMatchesKeys, SweepKeys, SweepCurrent, Done, None
<1>8. ChargedOnce'
  BY DEF IInv, TypeOK, SweepCurrent, ChargedOnce, Done, None
<1> QED BY <1>1, <1>2, <1>3, <1>4, <1>5, <1>6, <1>7, <1>8 DEF IInv

-----------------------------------------------------------------------------
(* The steps of the sweeper.                                               *)

\* A sweep starts with every key that is registered.
LEMMA SweepTickKeeps ==
    ASSUME IInv, SweepTick
    PROVE  IInv'
<1> USE DEF SweepTick, callerVars, sweepVars, netVars, chanVars, tableVars
<1>1. TypeOK'
  BY DEF IInv, TypeOK, Keys
<1>2. FailuresCovered'
  <2>1. HistoryGrows
    BY DEF IInv, TypeOK, HistoryGrows
  <2> QED BY <2>1, CoverageUntouched
<1>3. IdleHaveNone' /\ DrawnOnce' /\ FoundIsFree' /\ OverrunStays
  BY OutsideNew DEF IInv, TypeOK, None
<1>4. CacheMatchesKeys' /\ OpenRegistered' /\ ClosesCounted'
  BY <1>3
     DEF IInv, TypeOK, OverrunStays, Registered, CacheMatchesKeys, OpenRegistered, ClosesCounted, Pending, Done, None
<1>5. SweepKeys' /\ SweepCurrent'
  BY <1>3
     DEF IInv, TypeOK, OverrunStays, Registered, CacheMatchesKeys, SweepKeys, SweepCurrent, Done, None
<1>6. ChargedOnce'
  BY DEF IInv, TypeOK, SweepCurrent, ChargedOnce, Done, None
<1> QED BY <1>1, <1>2, <1>3, <1>4, <1>5, <1>6 DEF IInv

\* An entry is passed over, noted for deletion because it is done, or charged next.
LEMMA SweepVisitKeeps ==
    ASSUME IInv, NEW k \in Keys, SweepVisit(k)
    PROVE  IInv'
<1> USE DEF SweepVisit, callerVars, sweepVars, netVars, chanVars, tableVars
<1>1. k \in DOMAIN cache /\ cache[k] \in Queries /\ key[cache[k]] = k
  BY DEF IInv, TypeOK, SweepKeys, CacheMatchesKeys
<1>2. response[cache[k]] = "overdue" => charged[cache[k]] = 0
  BY <1>1 DEF IInv, ChargedOnce, Done
<1>3. TypeOK'
  BY <1>1 DEF IInv, TypeOK, Keys
<1>4. FailuresCovered'
  <2>1. HistoryGrows
    BY DEF IInv, TypeOK, HistoryGrows
  <2> QED BY <2>1, CoverageUntouched
<1>5. IdleHaveNone' /\ DrawnOnce' /\ FoundIsFree' /\ OverrunStays
  BY <1>1, <1>2, OutsideNew DEF IInv, TypeOK, None
<1>6. CacheMatchesKeys' /\ OpenRegistered' /\ ClosesCounted'
  BY <1>1, <1>2, <1>5
     DEF IInv, TypeOK, OverrunStays, Registered, CacheMatchesKeys, OpenRegistered, ClosesCounted, Pending, Done, None
<1>7. SweepKeys' /\ SweepCurrent'
  BY <1>1, <1>2, <1>5
     DEF IInv, TypeOK, OverrunStays, Registered, CacheMatchesKeys, SweepKeys, SweepCurrent, Done, None
<1>8. ChargedOnce'
  BY <1>1, <1>2 DEF IInv, TypeOK, SweepCurrent, ChargedOnce, Done, None
<1> QED BY <1>1, <1>2, <1>3, <1>4, <1>5, <1>6, <1>7, <1>8 DEF IInv

\* The node is charged with the expired query, which no sweep charged before.
LEMMA SweepChargeKeeps ==
    ASSUME IInv, SweepCharge
    PROVE  IInv'
<1> USE DEF SweepCharge, callerVars, sweepVars, netVars, chanVars
<1>1. current \in Queries /\ Target[current] \in Peers /\ charged[current] = 0 /\ HistoryGrows
  <2>1. current \in Queries /\ Target[current] \in Peers /\ charged[current] = 0
    BY TransactionsAssumption DEF IInv, SweepCurrent
  <2> QED BY <2>1 DEF IInv, TypeOK, HistoryGrows
<1>2. /\ failures' \in [DOMAIN failures' -> 0 .. (BadThreshold - 1)]
      /\ DOMAIN failures' \subseteq Peers
      /\ failed' \in [Peers -> SUBSET Queries]
  BY <1>1, TableTyped DEF IInv
<1>3. TypeOK'
  BY <1>1, <1>2 DEF IInv, TypeOK, Keys
<1>4. FailuresCovered'
  <2>1. current \in failed'[Target[current]]
    BY <1>1 DEF IInv, TypeOK, MarkFailure
  <2>2. FailureIsCounted(Target[current], current)
    BY <1>1, <2>1 DEF IInv, TypeOK, FailureIsCounted, SweeperCounted
  <2> QED BY <1>1, <2>2, CoverageExtended
<1>5. IdleHaveNone' /\ DrawnOnce' /\ FoundIsFree' /\ OverrunStays
  BY OutsideNew DEF IInv, TypeOK, None
<1>6. CacheMatchesKeys' /\ OpenRegistered' /\ ClosesCounted'
  BY <1>5
     DEF IInv, TypeOK, OverrunStays, Registered, CacheMatchesKeys, OpenRegistered, ClosesCounted, Pending, Done, None
<1>7. SweepKeys' /\ SweepCurrent'
  BY <1>1, <1>5
     DEF IInv, TypeOK, OverrunStays, Registered, CacheMatchesKeys, SweepKeys, SweepCurrent, Done, None
<1>8. ChargedOnce'
  BY <1>1 DEF IInv, TypeOK, SweepCurrent, ChargedOnce, Done, None
<1> QED BY <1>1, <1>2, <1>3, <1>4, <1>5, <1>6, <1>7, <1>8 DEF IInv

\* The channel of the charged query is closed, unless a reply was delivered meanwhile.
LEMMA SweepCloseKeeps ==
    ASSUME IInv, SweepClose
    PROVE  IInv'
<1> USE DEF SweepClose, callerVars, sweepVars, netVars, chanVars, tableVars
<1>1. /\ current \in Queries /\ key[current] \in DOMAIN cache /\ cache[key[current]] = current
      /\ response[current] \in {"overdue", "value"} /\ charged[current] = 1
  BY DEF IInv, SweepCurrent
<1>2. \/ response[current] = "value" /\ UNCHANGED chanVars
      \/ /\ response[current] = "overdue"
         /\ response' = [response EXCEPT ![current] = "closed"]
         /\ closes' = [closes EXCEPT ![current] = @ + 1]
  BY <1>1 DEF Deliver, Done
<1>3. TypeOK'
  <2>1. response' \in [Queries -> {None, "open", "overdue", "value", "closed"}]
    BY <1>1, <1>2 DEF IInv, TypeOK
  <2>2. closes' \in [Queries -> Nat]
    BY <1>1, <1>2 DEF IInv, TypeOK
  <2> QED BY <1>1, <1>2, <2>1, <2>2 DEF IInv, TypeOK, Keys
<1>4. FailuresCovered'
  <2>1. HistoryGrows
    BY DEF IInv, TypeOK, HistoryGrows
  <2> QED BY <2>1, CoverageUntouched
<1>5. IdleHaveNone' /\ DrawnOnce' /\ FoundIsFree' /\ OverrunStays
  BY <1>1, <1>2, OutsideNew DEF IInv, TypeOK, None
<1>6. CacheMatchesKeys' /\ OpenRegistered' /\ ClosesCounted'
  <2>1. CacheMatchesKeys'
    BY <1>1, <1>2 DEF IInv, TypeOK, CacheMatchesKeys, None
  <2>2. OpenRegistered'
    BY <1>1, <1>2, <1>5 DEF IInv, TypeOK, OpenRegistered, OverrunStays, Registered, Pending, None
  <2>3. ClosesCounted'
    BY <1>1, <1>2 DEF IInv, TypeOK, ClosesCounted, Done
  <2> QED BY <2>1, <2>2, <2>3
<1>7. SweepKeys' /\ SweepCurrent'
  <2>1. \A p \in Queries : Done(p) => Done(p)'
    BY <1>1, <1>2 DEF IInv, TypeOK, Done
  <2>2. response'[current] \in {"value", "closed"}
    BY <1>1, <1>2 DEF IInv, TypeOK
  <2>3. \A k \in toDelete : cache[k] \in Queries /\ response[cache[k]] # None
    BY DEF IInv, TypeOK, SweepKeys, CacheMatchesKeys
  <2>4. ASSUME NEW k \in toDelete', NEW p, p = cache[k]
        PROVE  k \in DOMAIN cache /\ (Done(p)' \/ Overrun(p)')
    <3>1. CASE k \in toDelete
      <4>1. Done(p) \/ Overrun(p)
        BY <2>4, <3>1 DEF IInv, SweepKeys
      <4>2. p \in Queries /\ response[p] # None /\ k \in DOMAIN cache
        BY <2>3, <2>4, <3>1 DEF IInv, SweepKeys
      <4> QED BY <1>5, <2>1, <4>1, <4>2 DEF OverrunStays
    <3>2. CASE k = key[current]
      BY <1>1, <2>2, <2>4, <3>2 DEF Done
    <3> QED BY <3>1, <3>2
  <2>5. SweepKeys'
    BY <2>4 DEF IInv, SweepKeys
  <2> QED BY <2>5 DEF SweepCurrent
<1>8. ChargedOnce'
  BY <1>1, <1>2 DEF IInv, TypeOK, SweepCurrent, ChargedOnce, Done, None
<1> QED BY <1>1, <1>2, <1>3, <1>4, <1>5, <1>6, <1>7, <1>8 DEF IInv

\* The sweep has looked at every key.
LEMMA SweepUnlockKeeps ==
    ASSUME IInv, SweepUnlock
    PROVE  IInv'
<1> USE DEF SweepUnlock, callerVars, sweepVars, netVars, chanVars, tableVars
<1>1. TypeOK'
  BY DEF IInv, TypeOK, Keys
<1>2. FailuresCovered'
  <2>1. HistoryGrows
    BY DEF IInv, TypeOK, HistoryGrows
  <2> QED BY <2>1, CoverageUntouched
<1>3. IdleHaveNone' /\ DrawnOnce' /\ FoundIsFree' /\ OverrunStays
  BY OutsideNew DEF IInv, TypeOK, None
<1>4. CacheMatchesKeys' /\ OpenRegistered' /\ ClosesCounted'
  BY <1>3
     DEF IInv, TypeOK, OverrunStays, Registered, CacheMatchesKeys, OpenRegistered, ClosesCounted, Pending, Done, None
<1>5. SweepKeys' /\ SweepCurrent'
  BY <1>3
     DEF IInv, TypeOK, OverrunStays, Registered, CacheMatchesKeys, SweepKeys, SweepCurrent, Done, None
<1>6. ChargedOnce'
  BY DEF IInv, TypeOK, SweepCurrent, ChargedOnce, Done, None
<1> QED BY <1>1, <1>2, <1>3, <1>4, <1>5, <1>6 DEF IInv

\* Only entries that are done are deleted, so an open transaction stays registered.
LEMMA SweepDeleteKeeps ==
    ASSUME IInv, SweepDelete
    PROVE  IInv'
<1> USE DEF SweepDelete, callerVars, sweepVars, netVars, chanVars, tableVars
<1>1. TypeOK'
  BY DEF IInv, TypeOK, Keys
<1>2. FailuresCovered'
  <2>1. HistoryGrows
    BY DEF IInv, TypeOK, HistoryGrows
  <2> QED BY <2>1, CoverageUntouched
<1>3. IdleHaveNone' /\ DrawnOnce' /\ FoundIsFree' /\ OverrunStays
  BY OutsideNew DEF IInv, TypeOK, None
<1>4. CacheMatchesKeys' /\ OpenRegistered' /\ ClosesCounted'
  <2>1. \A k \in toDelete : Done(cache[k]) \/ Overrun(cache[k])
    BY DEF IInv, SweepKeys
  <2>2. ASSUME NEW p \in Queries, Pending(p) PROVE Registered(p)' \/ Overrun(p)
    BY <2>1, <2>2 DEF IInv, OpenRegistered, Registered, Pending, Done
  <2>3. OpenRegistered'
    BY <1>3, <2>2 DEF OpenRegistered, OverrunStays, Pending, None
  <2> QED BY <2>3 DEF IInv, TypeOK, CacheMatchesKeys, ClosesCounted, Done, None
<1>5. SweepKeys' /\ SweepCurrent'
  BY <1>3
     DEF IInv, TypeOK, OverrunStays, Registered, CacheMatchesKeys, SweepKeys, SweepCurrent, Done, None
<1>6. ChargedOnce'
  BY DEF IInv, TypeOK, SweepCurrent, ChargedOnce, Done, None
<1> QED BY <1>1, <1>2, <1>3, <1>4, <1>5, <1>6 DEF IInv

-----------------------------------------------------------------------------
(* The theorems.                                                           *)

\* A step that changes nothing.
LEMMA StutterKeeps ==
    ASSUME IInv, UNCHANGED vars
    PROVE  IInv'
<1> USE DEF vars, callerVars, sweepVars, netVars, chanVars, tableVars
<1>1. TypeOK'
  BY DEF IInv, TypeOK, Keys
<1>2. FailuresCovered'
  BY DEF IInv, FailuresCovered, SweeperCounted, CrawlerCounted
<1>3. IdleHaveNone' /\ CacheMatchesKeys' /\ OpenRegistered' /\ ClosesCounted'
  BY DEF IInv, IdleHaveNone, CacheMatchesKeys, OpenRegistered, ClosesCounted, Registered, Overrun,
         Pending, Done
<1>4. SweepKeys' /\ SweepCurrent' /\ ChargedOnce'
  BY DEF IInv, SweepKeys, SweepCurrent, ChargedOnce, Overrun, Done
<1>5. DrawnOnce' /\ FoundIsFree'
  BY DEF IInv, InNew, DrawnOnce, FoundIsFree
<1> QED BY <1>1, <1>2, <1>3, <1>4, <1>5 DEF IInv

\* Every step keeps the inductive invariant.
LEMMA NextIInv == IInv /\ [Next]_vars => IInv'
<1> SUFFICES ASSUME IInv, [Next]_vars PROVE IInv'
  OBVIOUS
<1>1. ASSUME NEW q \in Queries, Caller(q) PROVE IInv'
  BY <1>1, AddKeeps, LookKeeps, RegisterKeeps, EnqueueKeeps, ReceiveKeeps, CancelKeeps, SettleKeeps
     DEF Caller, New
<1>2. ASSUME NEW q \in Queries, Expire(q) \/ Read(q) PROVE IInv'
  BY <1>2, ExpireKeeps, ReadKeeps
<1>3. CASE Write
  BY <1>3, WriteKeeps
<1>4. CASE Record
  BY <1>4, RecordKeeps
<1>5. CASE Sweep
  BY <1>5, SweepTickKeeps, SweepVisitKeeps, SweepChargeKeeps, SweepCloseKeeps, SweepUnlockKeeps,
     SweepDeleteKeeps DEF Sweep
<1>6. CASE UNCHANGED vars
  BY <1>6, StutterKeeps
<1> QED BY <1>1, <1>2, <1>3, <1>4, <1>5, <1>6 DEF Next

\* The inductive invariant holds in every reachable state.
LEMMA SpecIInv == Spec => []IInv
<1>1. Init => IInv
  BY InitIInv
<1>2. IInv /\ [Next]_vars => IInv'
  BY NextIInv
<1> QED BY <1>1, <1>2, PTL DEF Spec

\* Whatever the callers, the network and the sweeper do, the state of the
\* transactions is typed, and an open transaction is in the map under its key
\* (TxnManager.New, the lookup of Complete and the deletion of StartCleanup).
THEOREM OpenIsRegistered == Spec => []OpenMeansRegistered
<1>1. IInv => OpenMeansRegistered
  BY DEF IInv, OpenRegistered, OpenMeansRegistered
<1> QED BY <1>1, SpecIInv, PTL

\* No Response channel is closed twice, however many replies and sweeps race for
\* it, and the sweeper charges a query once at most and before its caller is told
\* (Transaction.deliver and the cleanup function of NewTxnManager).
THEOREM ClosedOnce == Spec => []ClosedOnceAndCharged
<1>1. IInv => ClosedOnceAndCharged
  BY DEF IInv, ClosesCounted, ChargedOnce, Done, ClosedOnceAndCharged
<1> QED BY <1>1, SpecIInv, PTL

\* The property of a step that BadMeansFailedQueries states of every step.
ForgottenFailedOften ==
    \A n \in DOMAIN failures \ DOMAIN failures' :
        Cardinality(failed'[n]) + Cardinality(failed'[n] \cap FromCrawler) >= BadThreshold

\* Only the failures of the crawler and of the sweeper forget a node.
LEMMA StepForgetsFailed == IInv /\ [Next]_vars => ForgottenFailedOften
<1> SUFFICES ASSUME IInv, [Next]_vars PROVE ForgottenFailedOften
  OBVIOUS
<1>1. ASSUME NEW n \in Peers, InsertNode(n) \/ MarkSuccess(n)
      PROVE  DOMAIN failures \subseteq DOMAIN failures'
  BY <1>1 DEF InsertNode, MarkSuccess, tableVars, Table!Insert, Table!Admit, Table!Refresh,
              Table!Ignore, Table!Known
<1>2. ASSUME NEW q \in Queries, Settle(q) PROVE ForgottenFailedOften
  <2>1. Target[q] \in Peers /\ HistoryGrows
    BY <1>2, TransactionsAssumption DEF IInv, TypeOK, HistoryGrows, Settle
  <2>2. CASE pc[q] = "failed"
    <3>1. MarkFailure(Target[q], q) /\ UNCHANGED charged
      BY <1>2, <2>2 DEF Settle
    <3>2. q \in failed'[Target[q]]
      BY <2>1, <3>1 DEF IInv, TypeOK, MarkFailure
    <3>3. FailureIsCounted(Target[q], q)
      BY <1>2, <2>2, <3>2 DEF IInv, TypeOK, Settle, FailureIsCounted, CrawlerCounted
    <3> QED BY <2>1, <3>1, <3>3, CoverageExtended DEF ForgottenFailedOften
  <2>3. CASE pc[q] # "failed"
    BY <1>1, <1>2, <2>1, <2>3 DEF Settle, ForgottenFailedOften
  <2> QED BY <2>2, <2>3
<1>3. CASE SweepCharge
  <2>1. current \in Queries /\ Target[current] \in Peers /\ charged[current] = 0
    BY <1>3, TransactionsAssumption DEF IInv, SweepCurrent, SweepCharge
  <2>2. HistoryGrows
    BY <1>3, <2>1 DEF IInv, TypeOK, HistoryGrows, SweepCharge, callerVars
  <2>3. current \in failed'[Target[current]]
    BY <1>3, <2>1 DEF IInv, TypeOK, MarkFailure, SweepCharge
  <2>4. FailureIsCounted(Target[current], current)
    BY <1>3, <2>1, <2>3 DEF IInv, TypeOK, FailureIsCounted, SweeperCounted, SweepCharge
  <2> QED BY <1>3, <2>1, <2>2, <2>4, CoverageExtended DEF SweepCharge, ForgottenFailedOften
<1>4. CASE Record
  <2>1. Target[reading] \in Peers
    BY <1>4, TransactionsAssumption DEF IInv, TypeOK, Record
  <2> QED BY <1>1, <1>4, <2>1 DEF Record, tableVars, ForgottenFailedOften
<1>5. CASE UNCHANGED failures
  BY <1>5 DEF ForgottenFailedOften
<1>6. \/ UNCHANGED failures \/ SweepCharge \/ Record \/ \E q \in Queries : Settle(q)
  BY DEF Next, Caller, New, Add, Look, Register, Enqueue, Receive, Cancel, Expire, Read, Write, Sweep, SweepTick,
         SweepVisit, SweepClose, SweepUnlock, SweepDelete, vars, tableVars
<1> QED BY <1>2, <1>3, <1>4, <1>5, <1>6

\* A node leaves the table only when that many of its queries failed since it last
\* answered, a query of the crawler counting for two (the MarkFailure calls of the
\* sweeper and of the crawler's loop).
THEOREM BadOnlyByFailures == Spec => BadMeansFailedQueries
<1>1. IInv /\ [Next]_vars => [ForgottenFailedOften]_vars
  BY StepForgetsFailed
<1> QED BY <1>1, SpecIInv, PTL DEF Spec, BadMeansFailedQueries, ForgottenFailedOften

=============================================================================
