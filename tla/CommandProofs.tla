--------------------------- MODULE CommandProofs ---------------------------
(***************************************************************************)
(* The invariants of the two programs: of Serve, for any files, services,  *)
(* nodes, seeds and limits, and of Tui, for any listing, states, filters   *)
(* and page size and any number of commands at once.                       *)
(***************************************************************************)
EXTENDS Serve, Tui, FiniteSetTheorems, SequenceTheorems, WellFoundedInduction, TLAPS

-----------------------------------------------------------------------------
(* The files.                                                              *)

\* Nothing is watched for good before every file has settled; what the watcher has yet
\* to compare was there when it was added.
FilesIInv ==
    /\ FilesTypeOK
    /\ SettledAll => reader = "stat"
    /\ watcher # "off" => SettledAll
    /\ watcher = "check" => \A f \in watched : content[f] # Missing
    /\ \A f \in watched : \/ reader = "settle" /\ f = Current
                          \/ watcher = "watching"
                          => content[f] = value[f] \/ f \in event

LEMMA FilesStart == FilesInit => FilesIInv
<1> SUFFICES ASSUME FilesInit PROVE FilesIInv
  OBVIOUS
<1>1. Len(Order) \in Nat
  BY FilesAssumption
<1>2. FilesTypeOK
  BY <1>1 DEF FilesInit, FilesTypeOK
<1> QED BY <1>2 DEF FilesInit, FilesIInv

LEMMA SidecarKeepsFiles ==
    ASSUME FilesIInv, NEW f \in Files, NEW c \in Contents, WriteInPlace(f, c) \/ Replace(f, c)
    PROVE  FilesIInv'
<1>1. /\ content' = [content EXCEPT ![f] = c]
      /\ UNCHANGED <<value, settling, reader, watcher>>
  BY DEF WriteInPlace, Replace, readerVars
<1>2. SettledAll' = SettledAll /\ Current' = Current
  BY <1>1 DEF SettledAll, Current
<1>3. CASE WriteInPlace(f, c)
  <2>1. /\ UNCHANGED watched /\ c # Missing /\ event \subseteq event'
        /\ event' \subseteq event \cup {f} /\ (f \in watched => f \in event')
    BY <1>3 DEF WriteInPlace
  <2> QED BY <1>1, <1>2, <2>1 DEF FilesIInv, FilesTypeOK
<1>4. CASE Replace(f, c)
  BY <1>1, <1>2, <1>4 DEF Replace, FilesIInv, FilesTypeOK
<1> QED BY <1>3, <1>4

\* readSettled runs before WatchFiles.
LEMMA ReaderKeepsFiles ==
    ASSUME FilesIInv, watcher = "off", ReadSettled
    PROVE  FilesIInv' /\ UNCHANGED watcher
<1>1. Order \in Seq(STRING) /\ Len(Order) \in Nat /\ settling \in 0 .. Len(Order)
  BY FilesAssumption DEF FilesIInv, FilesTypeOK
<1>2. ~ SettledAll /\ settling + 1 \in 1 .. Len(Order) /\ Current \in Files
  <2>1. ~ SettledAll
    BY DEF ReadSettled, Stat, AddWatch, ReadFile, Unsettle, Settle, WaitTimeout, Reads
  <2>2. settling + 1 \in 1 .. Len(Order)
    BY <1>1, <2>1 DEF SettledAll
  <2> QED BY <1>1, <2>1, <2>2 DEF Current, Files
<1>3. CASE Stat \/ AddWatch \/ ReadFile \/ Unsettle \/ WaitTimeout
  <2>1. UNCHANGED <<content, settling, watcher>>
    BY <1>3 DEF Stat, AddWatch, ReadFile, Unsettle, WaitTimeout
  <2>2. SettledAll' = SettledAll /\ Current' = Current
    BY <2>1 DEF SettledAll, Current
  <2>3. FilesTypeOK'
    BY <1>2, <1>3, <2>1 DEF Stat, AddWatch, ReadFile, Unsettle, WaitTimeout, CloseWatch, FilesIInv, FilesTypeOK
  <2>4. reader' = "settle" => content'[Current] = value'[Current]
    <3>1. CASE ReadFile
      BY <1>2, <2>1, <3>1 DEF ReadFile, FilesIInv, FilesTypeOK
    <3>2. CASE ~ ReadFile
      BY <1>3, <3>2 DEF Stat, AddWatch, Unsettle, WaitTimeout, Reads
    <3> QED BY <3>1, <3>2
  <2> QED BY <1>2, <2>1, <2>2, <2>3, <2>4 DEF FilesIInv
<1>4. CASE Settle
  <2>1. /\ UNCHANGED <<content, value, watcher>> /\ CloseWatch(Current)
        /\ settling' = settling + 1 /\ reader' = "stat"
    BY <1>4 DEF Settle
  <2>2. FilesTypeOK'
    BY <1>1, <1>2, <2>1 DEF CloseWatch, FilesIInv, FilesTypeOK
  <2> QED BY <2>1, <2>2 DEF FilesIInv
<1> QED BY <1>3, <1>4 DEF ReadSettled

LEMMA WatcherKeepsFiles ==
    ASSUME FilesIInv, WatchAdd \/ NothingDrifted \/ DriftCancels \/ EventCancels \/ WatchStops
    PROVE  FilesIInv'
<1>1. SettledAll /\ UNCHANGED <<content, event, value, settling, reader>>
  BY DEF FilesIInv, WatchAdd, NothingDrifted, DriftCancels, EventCancels, WatchStops, readerVars
<1>2. SettledAll' = SettledAll /\ Current' = Current /\ reader = "stat"
  BY <1>1 DEF SettledAll, Current, FilesIInv
<1>3. CASE WatchAdd
  BY <1>1, <1>2, <1>3 DEF WatchAdd, FilesIInv, FilesTypeOK
<1>4. CASE NothingDrifted
  <2>1. \A f \in watched : content[f] # Missing /\ f \in Files
    BY <1>4 DEF NothingDrifted, FilesIInv, FilesTypeOK
  <2>2. \A f \in watched : content[f] = value[f]
    BY <1>4, <2>1 DEF NothingDrifted, Drifted
  <2> QED BY <1>1, <1>2, <1>4, <2>2 DEF NothingDrifted, FilesIInv, FilesTypeOK
<1>5. CASE DriftCancels \/ EventCancels \/ WatchStops
  BY <1>1, <1>2, <1>5 DEF DriftCancels, EventCancels, WatchStops, FilesIInv, FilesTypeOK
<1> QED BY <1>3, <1>4, <1>5

-----------------------------------------------------------------------------
(* The start of the DHT.                                                   *)

NearestAsked == Nearest(K, named) \subseteq asked

\* What was named is in the shortlist, or a goroutine is about to add it.
HeardOK ==
    /\ \A m \in Nodes : m \in named <=> m \in known \/ \E n \in DOMAIN adding : m \in adding[n]
    /\ queried \subseteq asked
    /\ stage = "converge" => pending \subseteq asked /\ pending \cap DOMAIN adding = {}

\* The rounds come after the seeds and before the count; a node that was asked, or is
\* being asked, is not among those that a goroutine is about to add.
BootIInv ==
    /\ BootTypeOK
    /\ IF stage = "warm" THEN pending \subseteq Nodes /\ live + Cardinality(pending) <= NumNodes ELSE live = 0
    /\ stage \in {"off", "start", "warm"} => known = {}
    /\ stage \in {"off", "start", "warm", "seeds"} => queried = {}
    /\ stage = "converge" => pending \subseteq known
    /\ stage # "converge" => DOMAIN adding = {}
    /\ \A n \in DOMAIN adding : adding[n] \cap (queried \cup pending) = {}
    /\ HeardOK
    /\ stage \in {"count", "up"} => NearestAsked

LEMMA FiniteNodes ==
    ASSUME NEW S \in SUBSET Nodes
    PROVE  /\ IsFiniteSet(S) /\ Cardinality(S) \in Nat /\ Cardinality(S) <= NumNodes
           /\ NumNodes \in Nat
<1>1. NumNodes \in Nat
  BY BootstrapAssumption
<1>2. IsFiniteSet(Nodes) /\ Cardinality(Nodes) = NumNodes
  <2>1. /\ IsFiniteSet(1 .. NumNodes)
        /\ Cardinality(1 .. NumNodes) = IF 1 > NumNodes THEN 0 ELSE NumNodes - 1 + 1
    BY <1>1, FS_Interval
  <2> QED BY <1>1, <2>1 DEF Nodes
<1>3. IsFiniteSet(S) /\ Cardinality(S) \in Nat /\ Cardinality(S) <= Cardinality(Nodes)
  BY <1>2, FS_Subset, FS_CardinalityType
<1> QED BY <1>1, <1>2, <1>3

LEMMA NearestOfSome ==
    ASSUME NEW S \in SUBSET Nodes, S # {}, NEW k \in Nat \ {0}
    PROVE  Nearest(k, S) # {}
<1> DEFINE R == {ss \in Nat \X Nat : ss[1] < ss[2]}
<1>1. S \in SUBSET Nat
  BY DEF Nodes
<1>2. IsWellFoundedOn(R, Nat)
  BY NatLessThanWellFounded, Zenon DEF OpToRel
<1>3. PICK n \in S : \A m \in S : <<m, n>> \notin R
  <2> HIDE DEF R
  <2> QED BY <1>1, <1>2, WFMin
<1>4. {m \in S : m < n} = {}
  BY <1>1, <1>3
<1>5. Cardinality({m \in S : m < n}) < k
  <2>1. Cardinality({m \in S : m < n}) = 0
    BY <1>4, FS_EmptySet
  <2> QED BY <2>1
<1> QED BY <1>5 DEF Nearest

LEMMA BootStarts == BootInit => BootIInv
<1> SUFFICES ASSUME BootInit PROVE BootIInv
  OBVIOUS
<1>1. NumNodes \in Nat
  BY BootstrapAssumption
<1>2. DOMAIN adding = {}
  BY DEF BootInit
<1>3. /\ stage = "off" /\ pending = {} /\ live = 0 /\ known = {} /\ queried = {} /\ populated = FALSE
      /\ named = {} /\ asked = {}
  BY DEF BootInit
<1>4. BootTypeOK
  <2>1. live \in 0 .. NumNodes
    BY <1>1, <1>3
  <2> QED BY <1>2, <1>3, <2>1, Zenon DEF BootTypeOK
<1>5. HeardOK
  BY <1>2, <1>3 DEF HeardOK
<1> QED BY <1>2, <1>3, <1>4, <1>5 DEF BootIInv

\* Launch, and what only touches the routing table.
LEMMA TableKeepsBoot ==
    ASSUME BootIInv, populated' \in BOOLEAN, UNCHANGED <<pending, live, known, queried, adding, heard>>,
           stage' = stage \/ (stage = "off" /\ stage' = "start")
    PROVE  BootIInv'
<1>1. NearestAsked' = NearestAsked
  BY DEF NearestAsked, Nearest, heard
<1>2. stage' \in {"off", "start"} \/ stage' = stage
  OBVIOUS
<1>3. BootTypeOK'
  BY DEF BootIInv, BootTypeOK, heard
<1>4. HeardOK'
  BY DEF BootIInv, HeardOK, heard
<1> QED BY <1>1, <1>3, <1>4 DEF BootIInv

LEMMA InsertsTyped ==
    ASSUME BootIInv, NEW found, Inserts(found)
    PROVE  populated' \in BOOLEAN
BY DEF Inserts, BootIInv, BootTypeOK

LEMMA StartKeeps == BootIInv /\ Start => BootIInv'
<1> SUFFICES ASSUME BootIInv, Start PROVE BootIInv'
  OBVIOUS
<1>1. /\ stage = "start" /\ known = {} /\ queried = {} /\ DOMAIN adding = {} /\ live = 0
      /\ UNCHANGED <<live, known, queried, adding, populated, named, asked>>
      /\ stage' \in {"up", "warm", "seeds"}
  BY DEF Start, heard, BootIInv
<1>2. pending' \subseteq Nodes \/ pending' \subseteq Seeds
  BY DEF Start, Resolved
<1>3. stage' = "warm" => pending' \subseteq Nodes
  BY DEF Start
<1>4. stage' = "warm" => 0 + Cardinality(pending') <= NumNodes
  BY <1>3, FiniteNodes
<1>5. HeardOK' /\ NearestAsked'
  <2>1. HeardOK' /\ named = {}
    BY <1>1 DEF BootIInv, BootTypeOK, HeardOK
  <2> QED BY <1>1, <2>1 DEF NearestAsked, Nearest
<1>6. BootTypeOK'
  BY <1>1, <1>2 DEF BootIInv, BootTypeOK
<1>7. stage' # "converge"
  BY <1>1
<1> QED BY <1>1, <1>3, <1>4, <1>5, <1>6, <1>7 DEF BootIInv

LEMMA PingKeeps ==
    ASSUME BootIInv, NEW n \in Nodes, Ping(n)
    PROVE  BootIInv'
<1>1. /\ stage = "warm" /\ stage' = "warm" /\ n \in pending /\ pending' = pending \ {n}
      /\ live' \in {live, live + 1} /\ UNCHANGED <<known, queried, adding, populated, named, asked>>
  BY DEF Ping, heard
<1>2. pending \in SUBSET Nodes /\ live + Cardinality(pending) <= NumNodes /\ live \in Nat
  BY <1>1 DEF BootIInv, BootTypeOK
<1>3. Cardinality(pending') = Cardinality(pending) - 1 /\ Cardinality(pending) \in Nat
  BY <1>1, <1>2, FiniteNodes, FS_RemoveElement
<1>4. Cardinality(pending') \in Nat /\ NumNodes \in Nat
  BY <1>1, <1>2, FiniteNodes
<1>5. live' \in 0 .. NumNodes /\ live' + Cardinality(pending') <= NumNodes
  BY <1>1, <1>2, <1>3, <1>4
<1>6. BootTypeOK'
  BY <1>1, <1>2, <1>5 DEF BootIInv, BootTypeOK
<1>7. HeardOK'
  BY <1>1 DEF BootIInv, HeardOK
<1> QED BY <1>1, <1>2, <1>5, <1>6, <1>7 DEF BootIInv

LEMMA PingsOverKeeps == BootIInv /\ PingsOver => BootIInv'
<1> SUFFICES ASSUME BootIInv, PingsOver PROVE BootIInv'
  OBVIOUS
<1>1. /\ stage = "warm" /\ known = {} /\ queried = {} /\ DOMAIN adding = {} /\ live' = 0
      /\ UNCHANGED <<known, queried, adding, populated, named, asked>>
      /\ stage' \in {"count", "seeds"} /\ (pending' = {} \/ pending' \subseteq Seeds)
  BY DEF PingsOver, Resolved, heard, BootIInv
<1>2. HeardOK' /\ NearestAsked'
  <2>1. HeardOK' /\ named = {}
    BY <1>1 DEF BootIInv, BootTypeOK, HeardOK
  <2> QED BY <1>1, <2>1 DEF NearestAsked, Nearest
<1>3. BootTypeOK'
  <2>1. NumNodes \in Nat
    BY BootstrapAssumption
  <2> QED BY <1>1, <2>1 DEF BootIInv, BootTypeOK
<1> QED BY <1>1, <1>2, <1>3 DEF BootIInv

LEMMA SeedsKeep ==
    ASSUME BootIInv, (\E s \in Seeds : Seed(s)) \/ SeedsOver \/ SeedCancelled
    PROVE  BootIInv'
<1>1. /\ stage = "seeds" /\ queried = {} /\ DOMAIN adding = {} /\ live = 0
      /\ UNCHANGED <<live, queried, adding, asked>> /\ pending' \subseteq pending
      /\ stage' \in {"seeds", "converge", "failed"}
      /\ (stage' = "converge" => pending' = {})
  BY DEF Seed, SeedsOver, SeedCancelled, heard, BootIInv
<1>2. known' \subseteq Nodes /\ known \subseteq known' /\ populated' \in BOOLEAN
  BY InsertsTyped DEF Seed, SeedsOver, SeedCancelled, Responses, BootIInv, BootTypeOK
<1>3. \E found : known' = known \cup found /\ named' = named \cup found
  <2>1. CASE \E s \in Seeds : Seed(s)
    BY <2>1 DEF Seed
  <2>2. CASE SeedsOver \/ SeedCancelled
    <3>1. known' = known \cup {} /\ named' = named \cup {}
      BY <2>2 DEF SeedsOver, SeedCancelled, heard
    <3> QED BY <3>1
  <2> QED BY <2>1, <2>2
<1>4. named' = known'
  BY <1>1, <1>3 DEF BootIInv, BootTypeOK, HeardOK
<1>5. HeardOK'
  BY <1>1, <1>4 DEF BootIInv, HeardOK
<1>6. BootTypeOK'
  BY <1>1, <1>2, <1>4 DEF BootIInv, BootTypeOK
<1> QED BY <1>1, <1>5, <1>6 DEF BootIInv

LEMMA RoundKeeps == BootIInv /\ Round => BootIInv'
<1> SUFFICES ASSUME BootIInv, Round PROVE BootIInv'
  OBVIOUS
<1>1. /\ stage = "converge" /\ DOMAIN adding = {} /\ pending' = ToQuery /\ asked' = asked \cup ToQuery
      /\ UNCHANGED <<stage, live, known, queried, adding, populated, named>>
  BY DEF Round, RoundOver
<1>2. pending' \subseteq known /\ known \subseteq Nodes
  BY <1>1 DEF ToQuery, Nearest, BootIInv, BootTypeOK
<1>3. BootTypeOK'
  BY <1>1, <1>2 DEF BootIInv, BootTypeOK
<1>4. HeardOK'
  BY <1>1 DEF BootIInv, HeardOK
<1> QED BY <1>1, <1>2, <1>3, <1>4 DEF BootIInv

LEMMA AnswerKeeps ==
    ASSUME BootIInv, NEW n \in Nodes, Answer(n)
    PROVE  BootIInv'
<1>1. PICK found \in Responses :
        /\ adding' = [m \in DOMAIN adding \cup {n} |-> IF m = n THEN found \ known ELSE adding[m]]
        /\ named' = named \cup found /\ Inserts(found)
  BY DEF Answer
<1>2. /\ stage = "converge" /\ n \in pending /\ n \in known /\ pending \subseteq known /\ queried \subseteq known
      /\ pending' = pending \ {n} /\ queried' = queried \cup {n}
      /\ UNCHANGED <<stage, live, known, asked>>
  BY DEF Answer, BootIInv, BootTypeOK
<1>3. found \subseteq Nodes /\ populated' \in BOOLEAN
  BY <1>1, InsertsTyped DEF Responses
<1>4. DOMAIN adding' = DOMAIN adding \cup {n}
  BY <1>1
<1>5. ASSUME NEW m \in DOMAIN adding'
      PROVE  adding'[m] \subseteq Nodes /\ adding'[m] \cap (queried' \cup pending') = {}
  <2>1. CASE m = n
    BY <1>1, <1>2, <1>3, <1>4, <2>1
  <2>2. CASE m # n
    <3>1. m \in DOMAIN adding /\ adding'[m] = adding[m]
      BY <1>1, <1>4, <2>2
    <3> QED BY <1>2, <3>1 DEF BootIInv, BootTypeOK
  <2> QED BY <2>1, <2>2
<1>6. BootTypeOK'
  BY <1>1, <1>2, <1>3, <1>4, <1>5 DEF BootIInv, BootTypeOK
<1>7. HeardOK'
  <2>1. HeardOK /\ n \notin DOMAIN adding
    BY <1>2 DEF BootIInv, HeardOK
  <2>2. adding'[n] = found \ known /\ \A m \in DOMAIN adding : adding'[m] = adding[m]
    BY <1>1, <2>1
  <2>3. ASSUME NEW m \in Nodes
        PROVE  m \in named' <=> m \in known' \/ \E i \in DOMAIN adding' : m \in adding'[i]
    <3>1. m \in named <=> m \in known \/ \E i \in DOMAIN adding : m \in adding[i]
      BY <2>1 DEF HeardOK
    <3>2. (\E i \in DOMAIN adding' : m \in adding'[i])
            <=> (\E i \in DOMAIN adding : m \in adding[i]) \/ m \in found \ known
      BY <1>4, <2>2
    <3> QED BY <1>1, <1>2, <3>1, <3>2
  <2> QED BY <1>2, <1>4, <2>1, <2>3 DEF HeardOK
<1> QED BY <1>2, <1>5, <1>6, <1>7 DEF BootIInv

\* What add sets anew was not marked.
LEMMA AddKeeps ==
    ASSUME BootIInv, NEW n \in Nodes, Add(n)
    PROVE  BootIInv' /\ queried' = queried
<1>1. /\ n \in DOMAIN adding /\ stage = "converge"
      /\ known' = known \cup adding[n] /\ queried' = queried \ adding[n]
      /\ adding' = [m \in DOMAIN adding \ {n} |-> adding[m]]
      /\ UNCHANGED <<stage, pending, live, populated, named, asked>>
  BY DEF Add, heard, BootIInv
<1>2. queried' = queried
  BY <1>1 DEF BootIInv
<1>3. DOMAIN adding' \subseteq DOMAIN adding /\ \A m \in DOMAIN adding' : adding'[m] = adding[m]
  BY <1>1
<1>4. BootTypeOK'
  BY <1>1, <1>2, <1>3 DEF BootIInv, BootTypeOK
<1>5. HeardOK'
  <2>1. DOMAIN adding' = DOMAIN adding \ {n}
    BY <1>1
  <2>2. ASSUME NEW m
        PROVE  m \in known' \/ (\E i \in DOMAIN adding' : m \in adding'[i])
                 <=> m \in known \/ (\E i \in DOMAIN adding : m \in adding[i])
    BY <1>1, <1>3, <2>1
  <2> QED BY <1>1, <1>2, <2>1, <2>2 DEF BootIInv, HeardOK
<1> QED BY <1>1, <1>2, <1>3, <1>4, <1>5 DEF BootIInv

LEMMA ConvergedKeeps == BootIInv /\ Converged => BootIInv'
<1> SUFFICES ASSUME BootIInv, Converged PROVE BootIInv'
  OBVIOUS
<1>1. /\ stage = "converge" /\ stage' = "count" /\ DOMAIN adding = {} /\ ToQuery = {}
      /\ UNCHANGED <<pending, live, known, queried, adding, populated, named, asked>>
  BY DEF Converged, RoundOver, heard
<1>2. NearestAsked'
  <2>1. Nearest(K, known) \ queried \in SUBSET Nodes
    BY DEF Nearest, BootIInv, BootTypeOK
  <2>2. Nearest(K, known) \ queried = {}
    BY <1>1, <2>1, NearestOfSome, BootstrapAssumption DEF ToQuery
  <2>3. named = known /\ queried \subseteq asked
    BY <1>1 DEF BootIInv, BootTypeOK, HeardOK
  <2>4. Nearest(K, named) \subseteq asked
    BY <2>2, <2>3
  <2> QED BY <1>1, <2>4 DEF NearestAsked, Nearest
<1>3. BootTypeOK' /\ HeardOK'
  BY <1>1 DEF BootIInv, BootTypeOK, HeardOK
<1> QED BY <1>1, <1>2, <1>3 DEF BootIInv

LEMMA CountKeeps == BootIInv /\ CountNodes => BootIInv'
<1> SUFFICES ASSUME BootIInv, CountNodes PROVE BootIInv'
  OBVIOUS
<1>1. /\ stage = "count" /\ stage' \in {"failed", "up"}
      /\ UNCHANGED <<pending, live, known, queried, adding, populated, named, asked>>
  BY DEF CountNodes, heard
<1>2. NearestAsked'
  BY <1>1 DEF NearestAsked, Nearest, BootIInv
<1>3. BootTypeOK' /\ HeardOK'
  BY <1>1 DEF BootIInv, BootTypeOK, HeardOK
<1> QED BY <1>1, <1>2, <1>3 DEF BootIInv

LEMMA BootKeeps ==
    ASSUME BootIInv, Boot \/ SeedCancelled
    PROVE  BootIInv' /\ queried \subseteq queried'
<1>1. CASE \E n \in Nodes : Ping(n) \/ Answer(n) \/ Add(n)
  BY <1>1, PingKeeps, AnswerKeeps, AddKeeps DEF Ping, Answer
<1>2. CASE Start \/ PingsOver \/ Round \/ Converged \/ CountNodes
  BY <1>2, StartKeeps, PingsOverKeeps, RoundKeeps, ConvergedKeeps, CountKeeps
     DEF Start, PingsOver, Round, Converged, CountNodes
<1>3. CASE (\E s \in Seeds : Seed(s)) \/ SeedsOver \/ SeedCancelled
  BY <1>3, SeedsKeep DEF Seed, SeedsOver, SeedCancelled
<1> QED BY <1>1, <1>2, <1>3 DEF Boot

-----------------------------------------------------------------------------
(* The process.                                                            *)

\* The DHT is off until it is launched, which happens after the files have settled and
\* before anything is waited for.
StartedInOrder ==
    /\ main \in {"files", "connect", "migrate", "launch"} => stage = "off" /\ system = "off"
    /\ main = "files" => watcher = "off"
    /\ main \in {"connect", "migrate", "launch", "wait"} => SettledAll

ServeIInv == TypeOK /\ FilesIInv /\ BootIInv /\ StartedInOrder

LEMMA ServeStarts == Init => ServeIInv
<1> SUFFICES ASSUME Init PROVE ServeIInv
  OBVIOUS
<1>1. FilesIInv /\ BootIInv
  BY FilesStart, BootStarts DEF Init
<1> QED BY <1>1 DEF Init, ServeIInv, TypeOK, StartedInOrder, FilesInit, BootInit, FilesIInv, BootIInv

\* What leaves the files alone keeps their invariant, and the same for the DHT.
LEMMA FilesLeft == FilesIInv /\ UNCHANGED filesVars => FilesIInv' /\ SettledAll' = SettledAll
<1> SUFFICES ASSUME FilesIInv, UNCHANGED filesVars PROVE FilesIInv' /\ SettledAll' = SettledAll
  OBVIOUS
<1>1. UNCHANGED <<content, watched, event, value, settling, reader, watcher>>
  BY DEF filesVars, readerVars
<1> QED BY <1>1 DEF FilesIInv, FilesTypeOK, SettledAll, Current

LEMMA BootLeft == BootIInv /\ UNCHANGED bootVars => BootIInv' /\ queried' = queried
<1> SUFFICES ASSUME BootIInv, UNCHANGED bootVars PROVE BootIInv' /\ queried' = queried
  OBVIOUS
<1>1. UNCHANGED <<stage, pending, live, known, queried, adding, populated, heard>>
  BY DEF bootVars
<1>2. populated' \in BOOLEAN
  BY <1>1 DEF BootIInv, BootTypeOK
<1> QED BY <1>1, <1>2, TableKeepsBoot

LEMMA RunEKeeps == ServeIInv /\ RunE => ServeIInv' /\ queried' = queried
<1> SUFFICES ASSUME ServeIInv, RunE PROVE ServeIInv' /\ queried' = queried
  OBVIOUS
<1> USE DEF ServeIInv
<1>1. CASE ReadFiles
  <2>1. ReadSettled /\ main = "files" /\ watcher = "off" /\ UNCHANGED <<bootVars, processVars>>
    BY <1>1 DEF ReadFiles, StartedInOrder
  <2>2. FilesIInv' /\ watcher' = watcher
    BY <2>1, ReaderKeepsFiles
  <2>3. BootIInv' /\ queried' = queried
    BY <2>1, BootLeft
  <2>4. UNCHANGED <<main, cancelled, running, system, stage>>
    BY <2>1 DEF processVars, bootVars
  <2>5. TypeOK'
    BY <2>2, <2>3, <2>4 DEF TypeOK, FilesIInv, BootIInv
  <2> QED BY <2>1, <2>2, <2>3, <2>4, <2>5 DEF StartedInOrder
<1>2. CASE FilesRead \/ Connect \/ Wait
  <2>1. /\ UNCHANGED <<filesVars, bootVars, cancelled, system>>
        /\ \/ main = "files" /\ main' = "connect" /\ SettledAll
           \/ main = "connect" /\ main' = "migrate"
           \/ main' = "exited"
        /\ running' \subseteq Services
    BY <1>2 DEF FilesRead, Connect, Wait, TypeOK, Services
  <2>2. FilesIInv' /\ BootIInv' /\ SettledAll' = SettledAll /\ queried' = queried
    BY <2>1, FilesLeft, BootLeft
  <2>3. TypeOK'
    BY <2>1, <2>2 DEF TypeOK, FilesIInv, BootIInv
  <2> QED BY <2>1, <2>2, <2>3 DEF StartedInOrder, filesVars, bootVars
<1>3. CASE Migrate
  <2>1. /\ main = "migrate" /\ main' \in {"launch", "exited"} /\ SettledAll
        /\ watcher' \in {watcher, "add"}
        /\ UNCHANGED <<content, watched, event, value, settling, reader, bootVars, cancelled, running, system>>
    BY <1>3 DEF Migrate, StartedInOrder, readerVars
  <2>2. SettledAll' = SettledAll /\ Current' = Current
    BY <2>1 DEF SettledAll, Current
  <2>3. FilesIInv'
    BY <2>1, <2>2 DEF FilesIInv, FilesTypeOK
  <2>4. BootIInv' /\ queried' = queried /\ stage' = stage
    BY <2>1, BootLeft DEF bootVars
  <2>5. TypeOK'
    BY <2>1, <2>3, <2>4 DEF TypeOK, FilesIInv, BootIInv
  <2> QED BY <2>1, <2>2, <2>3, <2>4, <2>5 DEF StartedInOrder
<1>4. CASE Launch
  <2>1. /\ main = "launch" /\ main' \in {"wait", "exited"} /\ stage = "off" /\ SettledAll
        /\ stage' \in {stage, "start"} /\ running' \subseteq Services
        /\ system' \in {system, "running"}
        /\ UNCHANGED <<filesVars, pending, live, known, queried, adding, populated, heard, cancelled>>
    BY <1>4 DEF Launch, StartedInOrder, TypeOK, Services
  <2>2. populated' \in BOOLEAN
    BY <2>1 DEF BootIInv, BootTypeOK
  <2>3. BootIInv'
    BY <2>1, <2>2, TableKeepsBoot
  <2>4. FilesIInv' /\ SettledAll' = SettledAll
    BY <2>1, FilesLeft
  <2>5. TypeOK'
    BY <2>1, <2>3, <2>4 DEF TypeOK, FilesIInv, BootIInv
  <2> QED BY <2>1, <2>3, <2>4, <2>5 DEF StartedInOrder
<1> QED BY <1>1, <1>2, <1>3, <1>4 DEF RunE

LEMMA BootStepKeeps == ServeIInv /\ (BootStep \/ TableChanges) => ServeIInv' /\ queried \subseteq queried'
<1> SUFFICES ASSUME ServeIInv, BootStep \/ TableChanges PROVE ServeIInv' /\ queried \subseteq queried'
  OBVIOUS
<1> USE DEF ServeIInv
<1>1. system = "running" /\ UNCHANGED <<filesVars, main, cancelled, running, system>>
  BY DEF BootStep, TableChanges, processVars
<1>2. BootIInv' /\ queried \subseteq queried'
  <2>1. CASE BootStep
    BY <2>1, BootKeeps DEF BootStep
  <2>2. CASE TableChanges
    <3>1. UNCHANGED <<stage, pending, live, known, queried, adding, heard>> /\ populated' \in BOOLEAN
      BY <2>2, InsertsTyped DEF TableChanges, Inbound, BucketRefresh, RefreshStaleBuckets, Evict
    <3> QED BY <3>1, TableKeepsBoot
  <2> QED BY <2>1, <2>2
<1>3. FilesIInv' /\ SettledAll' = SettledAll
  BY <1>1, FilesLeft
<1>4. TypeOK'
  BY <1>1, <1>2, <1>3 DEF TypeOK, FilesIInv, BootIInv
<1> QED BY <1>1, <1>2, <1>3, <1>4 DEF StartedInOrder, filesVars

\* The watcher and the sidecar.
LEMMA WatchKeeps == ServeIInv /\ (Watch \/ Sidecar) => ServeIInv' /\ queried' = queried
<1> SUFFICES ASSUME ServeIInv, Watch \/ Sidecar PROVE ServeIInv' /\ queried' = queried
  OBVIOUS
<1> USE DEF ServeIInv
<1>1. FilesIInv'
  <2>1. CASE Watch
    BY <2>1, WatcherKeepsFiles DEF Watch
  <2>2. CASE Sidecar
    BY <2>2, SidecarKeepsFiles DEF Sidecar
  <2> QED BY <2>1, <2>2
<1>2. /\ UNCHANGED <<bootVars, main, running, system, settling>> /\ cancelled' \in BOOLEAN
      /\ (watcher = "off" => watcher' = "off")
  BY DEF Watch, WatchAdd, NothingDrifted, DriftCancels, EventCancels, WatchStops,
         Sidecar, WriteInPlace, Replace, readerVars, processVars, TypeOK
<1>3. BootIInv' /\ queried' = queried /\ stage' = stage
  BY <1>2, BootLeft DEF bootVars
<1>4. TypeOK'
  BY <1>1, <1>2, <1>3 DEF TypeOK, FilesIInv, BootIInv
<1> QED BY <1>1, <1>2, <1>3, <1>4 DEF StartedInOrder, SettledAll

\* The other goroutines, and signals.
LEMMA GroupKeeps ==
    ASSUME ServeIInv,
           \/ \E s \in Services : ServerStops(s) \/ WorkerStops(s) \/ ServerFails(s)
           \/ SystemFails \/ SystemStops \/ Signal
           \/ UNCHANGED vars
    PROVE  ServeIInv' /\ queried' = queried
<1> USE DEF ServeIInv
<1>1. /\ UNCHANGED <<filesVars, bootVars>> /\ main' \in {main, "exited"}
      /\ cancelled' \in BOOLEAN /\ running' \subseteq running
      /\ system' = system \/ (system = "running" /\ system' = "returned")
  BY DEF ServerStops, WorkerStops, ServerFails, SystemFails, SystemStops, Signal, vars, processVars, TypeOK
<1>2. FilesIInv' /\ BootIInv' /\ SettledAll' = SettledAll /\ queried' = queried
  BY <1>1, FilesLeft, BootLeft
<1>3. UNCHANGED <<watcher, stage>>
  BY <1>1 DEF filesVars, bootVars
<1>4. TypeOK'
  BY <1>1, <1>2 DEF TypeOK, FilesIInv, BootIInv
<1> QED BY <1>1, <1>2, <1>3, <1>4 DEF StartedInOrder

LEMMA ServeStep == ServeIInv /\ [Next]_vars => ServeIInv' /\ queried \subseteq queried'
BY RunEKeeps, BootStepKeeps, WatchKeeps, GroupKeeps DEF Next, Group

LEMMA ServeInvariant == Spec => []ServeIInv
<1>1. ServeIInv /\ [Next]_vars => ServeIInv'
  BY ServeStep
<1> QED BY <1>1, ServeStarts, PTL DEF Spec

\* Whatever the sidecar writes, renames or removes, and whenever: no change of a file that
\* a watch can see slips in between the reading and the watching (gluetun/file.go).
THEOREM ChangesNoticed == Spec => []ChangesAreNoticed
<1>1. ServeIInv => ChangesAreNoticed
  BY DEF ServeIInv, FilesIInv, ChangesAreNoticed
<1> QED BY <1>1, ServeInvariant, PTL

\* For any network, seeds and width: when the rounds are over, the K closest of all the nodes
\* that any answer named were asked, however the answers and the goroutines that add their
\* nodes interleave (dht/server/bootstrap.go convergeTable).
THEOREM NearestNodesAsked == Spec => []NearestWereAsked
<1>1. ServeIInv => NearestWereAsked
  BY DEF ServeIInv, BootIInv, NearestAsked, NearestWereAsked
<1> QED BY <1>1, ServeInvariant, PTL

\* No mark of a node that was asked is lost to a goroutine that sets its entry anew
\* (dht/server/bootstrap.go add).
THEOREM NodesAskedOnce == Spec => AskedOnce
<1>1. ServeIInv /\ [Next]_vars => [queried \subseteq queried']_queried
  BY ServeStep
<1> QED BY <1>1, ServeInvariant, PTL DEF Spec, AskedOnce

-----------------------------------------------------------------------------
(* What Keep keeps.                                                        *)

LEMMA Induct ==
    ASSUME NEW G \in SUBSET Nat, 0 \in G, \A i \in Nat : i \in G => i + 1 \in G
    PROVE  G = Nat
<1> DEFINE R == {ss \in Nat \X Nat : ss[1] < ss[2]}
           bad == Nat \ G
<1>1. IsWellFoundedOn(R, Nat)
  BY NatLessThanWellFounded, Zenon DEF OpToRel
<1>2. SUFFICES ASSUME bad # {} PROVE FALSE
  OBVIOUS
<1>3. PICK n \in bad : \A m \in bad : <<m, n>> \notin R
  <2>1. bad \in SUBSET Nat
    OBVIOUS
  <2> HIDE DEF R, bad
  <2> QED BY <1>1, <1>2, <2>1, WFMin
<1>4. n \in Nat /\ n # 0 /\ n - 1 \in Nat
  OBVIOUS
<1>5. n - 1 \notin bad
  <2>1. n - 1 < n
    BY <1>4
  <2>2. <<n - 1, n>> \in R
    BY <1>4, <2>1
  <2> HIDE DEF R
  <2> QED BY <1>3, <2>2
<1>6. n - 1 + 1 \in G
  BY <1>4, <1>5
<1> QED BY <1>4, <1>6

\* What is kept of the first i elements of s.
Keeps(kept, s, S) ==
    kept = [i \in 0 .. Len(s) |->
              IF i = 0 THEN <<>> ELSE IF s[i] \in S THEN Append(kept[i - 1], s[i]) ELSE kept[i - 1]]

\* The same for the first n, which says more easily how one goes on.
KeepsTo(n, kept, s, S) ==
    /\ kept \in [0 .. n -> Seq(S)]
    /\ kept[0] = <<>>
    /\ \A i \in 1 .. n : kept[i] = IF s[i] \in S THEN Append(kept[i - 1], s[i]) ELSE kept[i - 1]

LEMMA KeepsExtends ==
    ASSUME NEW s, NEW S, NEW n \in Nat, NEW kept, KeepsTo(n, kept, s, S)
    PROVE  \E more : KeepsTo(n + 1, more, s, S)
<1> DEFINE new == IF s[n + 1] \in S THEN Append(kept[n], s[n + 1]) ELSE kept[n]
           more == [i \in 0 .. (n + 1) |-> IF i = n + 1 THEN new ELSE kept[i]]
<1>1. kept[n] \in Seq(S)
  BY DEF KeepsTo
<1>2. new \in Seq(S)
  BY <1>1
<1> HIDE DEF new
<1>3. \A i \in 0 .. n : i \in 0 .. (n + 1) /\ i # n + 1 /\ more[i] = kept[i]
  OBVIOUS
<1>4. more[n + 1] = new
  OBVIOUS
<1>5. more \in [0 .. (n + 1) -> Seq(S)]
  BY <1>2 DEF KeepsTo
<1> HIDE DEF more
<1>6. more[0] = <<>>
  BY <1>3 DEF KeepsTo
<1>7. ASSUME NEW i \in 1 .. (n + 1)
      PROVE  more[i] = IF s[i] \in S THEN Append(more[i - 1], s[i]) ELSE more[i - 1]
  <2>1. i - 1 \in 0 .. n /\ more[i - 1] = kept[i - 1]
    BY <1>3
  <2>2. CASE i = n + 1
    BY <1>4, <2>1, <2>2 DEF new
  <2>3. CASE i # n + 1
    <3>1. i \in 1 .. n /\ i \in 0 .. n
      BY <2>3
    <3> QED BY <1>3, <2>1, <3>1 DEF KeepsTo
  <2> QED BY <2>2, <2>3
<1> QED BY <1>5, <1>6, <1>7 DEF KeepsTo

LEMMA KeepIs ==
    ASSUME NEW T, NEW s \in Seq(T), NEW S
    PROVE  \E kept : KeepsTo(Len(s), kept, s, S) /\ Keep(s, S) = kept[Len(s)]
<1> DEFINE G == {n \in Nat : \E kept : KeepsTo(n, kept, s, S)}
<1>1. 0 \in G
  <2> DEFINE kept == [i \in 0 .. 0 |-> <<>>]
  <2>1. KeepsTo(0, kept, s, S)
    BY DEF KeepsTo
  <2> QED BY <2>1
<1>2. G = Nat
  <2>1. G \in SUBSET Nat /\ \A n \in Nat : n \in G => n + 1 \in G
    BY KeepsExtends
  <2> HIDE DEF G
  <2> QED BY <1>1, <2>1, Induct
<1>3. Len(s) \in Nat
  OBVIOUS
<1>4. PICK some : KeepsTo(Len(s), some, s, S)
  BY <1>2, <1>3
<1>5. Keeps(some, s, S)
  <2>1. some = [i \in 0 .. Len(s) |-> some[i]]
    BY <1>4 DEF KeepsTo
  <2>2. \A i \in 0 .. Len(s) :
          some[i] = IF i = 0 THEN <<>> ELSE IF s[i] \in S THEN Append(some[i - 1], s[i]) ELSE some[i - 1]
    <3>1. \A i \in 0 .. Len(s) : i # 0 => i \in 1 .. Len(s)
      BY <1>3
    <3>2. some[0] = <<>>
      BY <1>4 DEF KeepsTo
    <3>3. \A i \in 1 .. Len(s) :
            some[i] = IF s[i] \in S THEN Append(some[i - 1], s[i]) ELSE some[i - 1]
      BY <1>4 DEF KeepsTo
    <3> QED BY <3>1, <3>2, <3>3, Zenon
  <2> QED BY <2>1, <2>2, Zenon DEF Keeps
<1> DEFINE kept == CHOOSE g : Keeps(g, s, S)
<1>6. Keeps(kept, s, S)
  BY <1>5
<1>7. Keep(s, S) = kept[Len(s)]
  BY DEF Keep, Keeps
<1> HIDE DEF kept
<1>8. /\ kept[0] = <<>> /\ DOMAIN kept = 0 .. Len(s)
      /\ \A i \in 1 .. Len(s) : kept[i] = IF s[i] \in S THEN Append(kept[i - 1], s[i]) ELSE kept[i - 1]
  <2>1. \A i \in 1 .. Len(s) : i \in 0 .. Len(s) /\ i # 0
    BY <1>3
  <2>2. DOMAIN kept = 0 .. Len(s)
    BY <1>6, Zenon DEF Keeps
  <2>3. \A i \in 0 .. Len(s) :
          kept[i] = IF i = 0 THEN <<>> ELSE IF s[i] \in S THEN Append(kept[i - 1], s[i]) ELSE kept[i - 1]
    BY <1>6, Zenon DEF Keeps
  <2>4. 0 \in 0 .. Len(s)
    BY <1>3
  <2>5. kept[0] = <<>>
    BY <2>3, <2>4, Zenon
  <2> QED BY <2>1, <2>2, <2>3, <2>5, Zenon
<1> DEFINE same == {i \in Nat : i \in 0 .. Len(s) => kept[i] = some[i]}
<1>9. same = Nat
  <2>1. 0 \in same
    BY <1>4, <1>8 DEF KeepsTo
  <2>2. ASSUME NEW i \in Nat, i \in same PROVE i + 1 \in same
    <3>1. SUFFICES ASSUME i + 1 \in 0 .. Len(s) PROVE kept[i + 1] = some[i + 1]
      OBVIOUS
    <3>2. i + 1 \in 1 .. Len(s) /\ i \in 0 .. Len(s) /\ i + 1 - 1 = i
      BY <1>3, <3>1
    <3>3. kept[i] = some[i]
      BY <2>2, <3>2
    <3> QED BY <1>4, <1>8, <3>2, <3>3 DEF KeepsTo
  <2>3. same \in SUBSET Nat
    OBVIOUS
  <2> HIDE DEF same
  <2> QED BY <2>1, <2>2, <2>3, Induct
<1>10. Keep(s, S) = some[Len(s)]
  <2>1. Len(s) \in same /\ Len(s) \in 0 .. Len(s)
    BY <1>3, <1>9
  <2> QED BY <1>7, <2>1
<1> QED BY <1>4, <1>10

\* seq is what is kept of i elements, those in the set from.
KeptOf(i, seq, from, S, T) ==
    /\ Len(seq) <= i
    /\ \A k \in 1 .. Len(seq) : seq[k] \in from
    /\ \A k, m \in 1 .. Len(seq) : seq[k] = seq[m] => k = m
    /\ \A h : S = T \ {h} => Len(seq) >= IF h \in from THEN i - 1 ELSE i

\* Of a sequence without duplicates one is kept, no longer than it, and shorter by one at
\* most if there is only one element that is not kept.
LEMMA KeepsDistinct ==
    ASSUME NEW T, NEW s \in Seq(T), IsInjective(s), NEW S
    PROVE  /\ Keep(s, S) \in Seq(S) /\ IsInjective(Keep(s, S))
           /\ Len(Keep(s, S)) <= Len(s)
           /\ \A h : S = T \ {h} => Len(Keep(s, S)) >= Len(s) - 1
<1>1. Len(s) \in Nat /\ DOMAIN s = 1 .. Len(s)
  OBVIOUS
<1>2. PICK kept : KeepsTo(Len(s), kept, s, S) /\ Keep(s, S) = kept[Len(s)]
  BY KeepIs
<1> DEFINE From(i) == {s[j] : j \in 1 .. i}
           Good(i) == KeptOf(i, kept[i], From(i), S, T)
           G == {i \in Nat : i <= Len(s) => Good(i)}
<1>3. \A i \in 0 .. Len(s) : kept[i] \in Seq(S) /\ Len(kept[i]) \in Nat
  BY <1>2 DEF KeepsTo
<1>4. 0 \in G
  <2>1. kept[0] = <<>> /\ Len(kept[0]) = 0
    BY <1>2 DEF KeepsTo
  <2>2. From(0) = {}
    OBVIOUS
  <2> HIDE DEF From
  <2>3. Good(0)
    BY <2>1, <2>2 DEF KeptOf
  <2> QED BY <2>3
<1>5. ASSUME NEW i \in Nat, i \in G, i + 1 <= Len(s) PROVE Good(i + 1)
  <2>1. i + 1 \in 1 .. Len(s) /\ i \in 0 .. Len(s) /\ i + 1 - 1 = i /\ i <= Len(s)
    BY <1>1, <1>5
  <2>2. Good(i)
    BY <1>5, <2>1
  <2>3. kept[i + 1] = IF s[i + 1] \in S THEN Append(kept[i], s[i + 1]) ELSE kept[i]
    BY <1>2, <2>1 DEF KeepsTo
  <2>4. kept[i] \in Seq(S) /\ Len(kept[i]) \in Nat
    BY <1>3, <2>1
  <2>5. s[i + 1] \in T
    BY <2>1
  <2>6. s[i + 1] \notin From(i)
    BY <1>1, <2>1 DEF IsInjective
  <2>7. From(i + 1) = From(i) \cup {s[i + 1]}
    BY <2>1
  <2> DEFINE e == s[i + 1]
             old == kept[i]
             new == kept[i + 1]
             F == From(i)
             N == From(i + 1)
  <2> HIDE DEF e, old, new, F, N
  <2>8. /\ Len(old) <= i /\ \A k \in 1 .. Len(old) : old[k] \in F
        /\ \A k, m \in 1 .. Len(old) : old[k] = old[m] => k = m
        /\ \A h : S = T \ {h} => Len(old) >= IF h \in F THEN i - 1 ELSE i
    BY <2>2 DEF old, F, KeptOf
  <2>9. old \in Seq(S) /\ Len(old) \in Nat /\ e \notin F /\ e \in T /\ N = F \cup {e}
    BY <2>4, <2>5, <2>6, <2>7 DEF old, e, F, N
  <2>10. new = IF e \in S THEN Append(old, e) ELSE old
    BY <2>3 DEF new, old, e
  <2>11. CASE e \in S
    <3>1. /\ Len(new) = Len(old) + 1 /\ new[Len(old) + 1] = e
          /\ \A k \in 1 .. Len(old) : new[k] = old[k]
      BY <2>9, <2>10, <2>11
    <3>2. \A k \in 1 .. Len(new) : k \in 1 .. Len(old) \/ k = Len(old) + 1
      BY <2>9, <3>1
    <3>3. Len(new) <= i + 1 /\ \A k \in 1 .. Len(new) : new[k] \in N
      BY <2>8, <2>9, <3>1, <3>2
    <3>4. \A k, m \in 1 .. Len(new) : new[k] = new[m] => k = m
      BY <2>8, <2>9, <3>1, <3>2
    <3>5. ASSUME NEW h, S = T \ {h} PROVE Len(new) >= IF h \in N THEN i + 1 - 1 ELSE i + 1
      <4>1. h # e
        BY <2>11, <3>5
      <4>2. h \in N <=> h \in F
        BY <2>9, <4>1
      <4>3. Len(old) >= IF h \in F THEN i - 1 ELSE i
        BY <2>8, <3>5
      <4> QED BY <2>9, <3>1, <4>2, <4>3
    <3>6. KeptOf(i + 1, new, N, S, T)
      <4>1. \A h : S = T \ {h} => Len(new) >= IF h \in N THEN i + 1 - 1 ELSE i + 1
        BY <3>5, Zenon
      <4> QED BY <3>3, <3>4, <4>1 DEF KeptOf
    <3> QED BY <3>6 DEF new, N
  <2>12. CASE e \notin S
    <3>1. new = old
      BY <2>10, <2>12
    <3>2. ASSUME NEW h, S = T \ {h} PROVE Len(new) >= IF h \in N THEN i + 1 - 1 ELSE i + 1
      <4>1. h = e /\ h \in N /\ h \notin F
        BY <2>9, <2>12, <3>2
      <4>2. Len(old) >= i
        BY <2>8, <3>2, <4>1
      <4> QED BY <3>1, <4>1, <4>2
    <3>3. Len(new) <= i + 1 /\ \A k \in 1 .. Len(new) : new[k] \in N
      BY <2>8, <2>9, <3>1
    <3>4. \A k, m \in 1 .. Len(new) : new[k] = new[m] => k = m
      BY <2>8, <3>1
    <3>5. KeptOf(i + 1, new, N, S, T)
      <4>1. \A h : S = T \ {h} => Len(new) >= IF h \in N THEN i + 1 - 1 ELSE i + 1
        BY <3>2, Zenon
      <4> QED BY <3>3, <3>4, <4>1 DEF KeptOf
    <3> QED BY <3>5 DEF new, N
  <2> QED BY <2>11, <2>12
<1>6. G = Nat
  <2>1. G \in SUBSET Nat
    OBVIOUS
  <2>2. \A i \in Nat : i \in G => i + 1 \in G
    <3> HIDE DEF Good
    <3> QED BY <1>5
  <2> HIDE DEF G
  <2> QED BY <1>4, <2>1, <2>2, Induct
<1>7. Good(Len(s))
  <2> HIDE DEF Good
  <2> QED BY <1>1, <1>6
<1> DEFINE all == kept[Len(s)]
<1> HIDE DEF all
<1>8. all = Keep(s, S) /\ all \in Seq(S) /\ Len(all) \in Nat
  BY <1>1, <1>2, <1>3 DEF all
<1>9. /\ Len(all) <= Len(s)
      /\ \A k, m \in 1 .. Len(all) : all[k] = all[m] => k = m
      /\ \A h : S = T \ {h} => Len(all) >= IF h \in From(Len(s)) THEN Len(s) - 1 ELSE Len(s)
  BY <1>7 DEF all, KeptOf
<1> HIDE DEF From
<1>10. IsInjective(all)
  <2>1. DOMAIN all = 1 .. Len(all)
    BY <1>8
  <2> QED BY <1>9, <2>1 DEF IsInjective
<1>11. ASSUME NEW h, S = T \ {h} PROVE Len(all) >= Len(s) - 1
  <2>1. Len(all) >= IF h \in From(Len(s)) THEN Len(s) - 1 ELSE Len(s)
    BY <1>9, <1>11
  <2> QED BY <1>1, <1>8, <2>1
<1> QED BY <1>8, <1>9, <1>10, <1>11

-----------------------------------------------------------------------------
(* The terminal interface.                                                 *)

RowLists == {r \in Seq(Torrents) : Len(r) <= PageSize /\ IsInjective(r)}

Lists ==
    [rows : RowLists, page : 0 .. MaxPage, last : BOOLEAN, loading : BOOLEAN,
     cursor : 0 .. PageSize - 1, typing : BOOLEAN, filter : SUBSET States]

DetailScreens ==
    [view : {"detail"}, torrent : {NoTorrent} \cup [hash : Torrents, state : States],
     loading : BOOLEAN, picker : BOOLEAN]

ConfirmScreens == [view : {"confirm"}, hash : Torrents, from : {"list", "detail"}]

\* What a command knows of a torrent was so at the server, with on for connected and
\* states for had.
CmdOK(c, on, states) ==
    /\ c.kind \in {"toList", "toDetail", "toConfirm", "delete", "deleted"} => on
    /\ c.kind \in {"get", "toDetail", "toConfirm", "delete", "deleted", "update", "updated", "torrent"} =>
         c.hash \in Torrents
    /\ c.kind = "toConfirm" => c.from \in {"list", "detail"}
    /\ c.kind = "update" => c.state \in States
    /\ c.kind \in {"torrent", "updated"} => c.state \in states[c.hash]
    /\ c.kind = "rows" => c.rows \in RowLists
    /\ c.kind = "fetch" => c.page \in Nat

CmdsOK ==
    /\ cmds = [s \in Slots |-> cmds[s]]
    /\ \A s \in Slots : CmdOK(cmds[s], connected, had)

ServerOK ==
    /\ server \in [Torrents -> States \cup {Gone}]
    /\ had \in [Torrents -> SUBSET States]
    /\ \A h \in Torrents : server[h] = Gone \/ server[h] \in had[h]

\* The cursor is on a row, so that it stays within the rows when one goes.
ListOK == list \in Lists /\ (list.cursor = 0 \/ list.cursor < Len(list.rows))

ScreenOK ==
    /\ screen \in {Config, List, Closed} \cup DetailScreens \cup ConfirmScreens
    /\ screen.view \in {"list", "detail", "confirm"} => connected
    /\ screen.view = "detail" /\ screen.torrent # NoTorrent =>
         screen.torrent.state \in had[screen.torrent.hash]

TuiIInv == connected \in BOOLEAN /\ ServerOK /\ ListOK /\ ScreenOK /\ CmdsOK

\* What ends the loading of the view is under way.
Awaits(kinds) == \E s \in Slots : cmds[s].kind \in kinds

ListAwaits == screen = List /\ list.loading => Awaits({"fetch", "rows", "error"})
DetailAwaits == screen.view = "detail" /\ screen.loading => Awaits({"get", "torrent", "error"})
ConfigAwaits == screen = Config /\ connecting => Awaits({"connect", "connected", "refused", "error"})

LEMMA Limits == PageSize \in Nat \ {0} /\ MaxPage \in Nat \ {0}
BY TuiAssumption

LEMMA ScreenIs ==
    ASSUME TuiIInv
    PROVE  /\ screen.view = "detail" => screen \in DetailScreens
           /\ screen.view = "confirm" => screen \in ConfirmScreens
           /\ screen.view = "list" <=> screen = List
           /\ screen = List => connected
           /\ screen.view \in {"config", "list", "detail", "confirm", "closed"}
BY DEF TuiIInv, ScreenOK, Config, List, Closed, DetailScreens, ConfirmScreens

LEMMA TypeFollows == TuiIInv /\ connecting \in BOOLEAN => TuiTypeOK
<1> SUFFICES ASSUME TuiIInv, connecting \in BOOLEAN PROVE TuiTypeOK
  OBVIOUS
<1>1. /\ list.rows \in RowLists /\ list.cursor \in 0 .. PageSize - 1 /\ list.page \in 0 .. MaxPage
  BY DEF TuiIInv, ListOK, Lists
<1>2. list.rows \in Seq(Torrents)
  BY <1>1 DEF RowLists
<1> QED BY <1>1, <1>2, ScreenIs DEF TuiTypeOK, TuiIInv, ServerOK, ScreenOK

\* What a screen or a command knows stays true.
LEMMA CmdStaysOK ==
    ASSUME NEW c, NEW on \in BOOLEAN, NEW more \in BOOLEAN, NEW states, NEW after,
           on => more, \A h \in Torrents : states[h] \subseteq after[h], CmdOK(c, on, states)
    PROVE  CmdOK(c, more, after)
BY DEF CmdOK

LEMMA CmdsStayOK ==
    ASSUME CmdsOK, connected \in BOOLEAN, connected' \in BOOLEAN, connected => connected',
           \A h \in Torrents : had[h] \subseteq had'[h],
           NEW s \in Slots, NEW c, cmds' = [cmds EXCEPT ![s] = c], CmdOK(c, connected', had')
    PROVE  CmdsOK'
<1>1. cmds' = [t \in Slots |-> IF t = s THEN c ELSE cmds[t]]
  BY DEF CmdsOK
<1>2. ASSUME NEW t \in Slots PROVE CmdOK(cmds'[t], connected', had')
  <2>1. CASE t = s
    BY <1>1, <2>1
  <2>2. CASE t # s
    <3>1. cmds'[t] = cmds[t] /\ CmdOK(cmds[t], connected, had)
      BY <1>1, <2>2 DEF CmdsOK
    <3> QED BY <3>1, CmdStaysOK
  <2> QED BY <2>1, <2>2
<1>3. cmds' = [t \in Slots |-> cmds'[t]]
  BY <1>1
<1> QED BY <1>2, <1>3 DEF CmdsOK

\* A command that is not one of the kinds awaited, or becomes one, can change.
LEMMA StillAwaited ==
    ASSUME CmdsOK, NEW s \in Slots, NEW c, cmds' = [cmds EXCEPT ![s] = c], NEW kinds, Awaits(kinds),
           cmds[s].kind \in kinds => c.kind \in kinds
    PROVE  Awaits(kinds)'
<1>1. PICK t \in Slots : cmds[t].kind \in kinds
  BY DEF Awaits
<1>2. cmds'[s] = c /\ (t # s => cmds'[t] = cmds[t])
  BY DEF CmdsOK
<1> QED BY <1>1, <1>2 DEF Awaits

LEMMA NewlyAwaited ==
    ASSUME CmdsOK, NEW s \in Slots, NEW c, cmds' = [cmds EXCEPT ![s] = c], NEW kinds, c.kind \in kinds
    PROVE  Awaits(kinds)'
<1>1. cmds'[s] = c
  BY DEF CmdsOK
<1> QED BY <1>1 DEF Awaits

\* A step of Update leaves the server alone.
LEMMA UpdateKeeps ==
    ASSUME TuiIInv, UNCHANGED <<server, had>>, connected' \in BOOLEAN, connected => connected',
           list' = list \/ ListOK', screen' = screen \/ ScreenOK', CmdsOK'
    PROVE  TuiIInv'
<1>1. ServerOK'
  BY DEF TuiIInv, ServerOK
<1>2. ListOK'
  BY DEF TuiIInv, ListOK
<1>3. ScreenOK'
  BY DEF TuiIInv, ScreenOK
<1> QED BY <1>1, <1>2, <1>3 DEF TuiIInv

-----------------------------------------------------------------------------
(* The pages of the server.                                                *)

LEMMA PageOf ==
    ASSUME NEW c, c.page \in Nat
    PROVE  Page(c) \in RowLists
<1> DEFINE S == {h \in Torrents : server[h] \in c.filter}
           found == Keep(Listing, S)
           a == c.page * PageSize
           b == Min({(c.page + 1) * PageSize, Len(found)})
<1>1. Listing \in Seq(Torrents) /\ IsInjective(Listing)
  BY TuiAssumption
<1>2. found \in Seq(S) /\ IsInjective(found)
  BY <1>1, KeepsDistinct
<1>3. Page(c) = SubSeq(found, a + 1, b)
  BY DEF Page
<1>4. (c.page + 1) * PageSize = a + PageSize /\ a \in Nat /\ PageSize \in Nat
  BY Limits
<1> HIDE DEF found, a
<1>5. Len(found) \in Nat /\ DOMAIN found = 1 .. Len(found) /\ \A i \in 1 .. Len(found) : found[i] \in S
  BY <1>2
<1>6. b \in {a + PageSize, Len(found)} /\ b <= a + PageSize /\ b <= Len(found)
  <2>1. a + PageSize <= Len(found) \/ Len(found) <= a + PageSize
    BY <1>4, <1>5
  <2>2. \E x \in {a + PageSize, Len(found)} : \A y \in {a + PageSize, Len(found)} : x <= y
    BY <1>4, <1>5, <2>1
  <2> QED BY <1>4, <2>2 DEF Min
<1>7. b \in Int
  BY <1>4, <1>5, <1>6
<1> HIDE DEF b
<1> DEFINE rows == SubSeq(found, a + 1, b)
<1>8. \A i \in a + 1 .. b : i \in 1 .. Len(found)
  <2>1. a \in Nat /\ b \in Int /\ Len(found) \in Nat /\ b <= Len(found)
    BY <1>4, <1>5, <1>6, <1>7
  <2> QED BY <2>1
<1>9. \A i \in a + 1 .. b : found[i] \in Torrents
  BY <1>5, <1>8
<1>10. a + 1 \in Int
  BY <1>4
<1>11. /\ rows \in Seq(Torrents) /\ Len(rows) = IF a + 1 <= b THEN b - (a + 1) + 1 ELSE 0
       /\ \A i \in 1 .. b - (a + 1) + 1 : rows[i] = found[a + 1 + i - 1]
  BY <1>7, <1>9, <1>10, SubSeqProperties
<1> HIDE DEF rows
<1>12. Len(rows) <= PageSize
  BY <1>4, <1>6, <1>7, <1>11
<1>13. ASSUME NEW i \in DOMAIN rows, NEW j \in DOMAIN rows, rows[i] = rows[j] PROVE i = j
  <2>1. DOMAIN rows = 1 .. Len(rows) /\ Len(rows) \in Nat
    BY <1>11
  <2>2. DOMAIN rows = 1 .. b - (a + 1) + 1
    <3>1. CASE a + 1 <= b
      BY <1>11, <2>1, <3>1
    <3>2. CASE ~ (a + 1 <= b)
      <4>1. Len(rows) = 0 /\ DOMAIN rows = {}
        BY <1>11, <2>1, <3>2
      <4> QED BY <4>1
    <3> QED BY <3>1, <3>2
  <2>3. \A k \in 1 .. b - (a + 1) + 1 : k \in Int /\ a + 1 + k - 1 \in a + 1 .. b
    BY <1>4, <1>7
  <2>4. found[a + 1 + i - 1] = found[a + 1 + j - 1]
    BY <1>11, <1>13, <2>2
  <2>5. a + 1 + i - 1 = a + 1 + j - 1
    BY <1>2, <1>5, <1>8, <2>2, <2>3, <2>4 DEF IsInjective
  <2> QED BY <1>4, <2>2, <2>3, <2>5
<1> QED BY <1>3, <1>11, <1>12, <1>13 DEF RowLists, rows, IsInjective

-----------------------------------------------------------------------------
(* The steps, each with what it leaves awaited.                            *)

\* A step that keeps the invariant and has nothing awaited in vain.
TuiKept == TuiIInv' /\ (ListAwaits /\ DetailAwaits => ListAwaits' /\ DetailAwaits')

\* Update takes the message in a slot, or a key starts a command in it.
LEMMA SlotStep ==
    ASSUME TuiIInv, NEW s \in Slots, NEW c, cmds' = [cmds EXCEPT ![s] = c], UNCHANGED <<server, had>>,
           connected' \in BOOLEAN, connected => connected', CmdOK(c, connected', had),
           list' = list \/ ListOK', screen' = screen \/ ScreenOK',
           screen' = List /\ list'.loading =>
             \/ c.kind = "fetch"
             \/ screen = List /\ list.loading /\ cmds[s].kind \notin {"fetch", "rows", "error"},
           screen'.view = "detail" /\ screen'.loading =>
             \/ c.kind = "get"
             \/ /\ screen.view = "detail" /\ screen.loading
                /\ cmds[s].kind \notin {"get", "torrent", "error"}
    PROVE  TuiKept
<1>1. CmdsOK /\ connected \in BOOLEAN
  BY DEF TuiIInv
<1>2. CmdsOK'
  <2>1. \A h \in Torrents : had[h] \subseteq had'[h]
    OBVIOUS
  <2>2. CmdOK(c, connected', had')
    OBVIOUS
  <2> QED BY <1>1, <2>1, <2>2, CmdsStayOK
<1>3. TuiIInv'
  BY <1>2, UpdateKeeps
<1>4. ListAwaits => ListAwaits'
  <2>1. SUFFICES ASSUME ListAwaits, screen' = List, list'.loading
                 PROVE  Awaits({"fetch", "rows", "error"})'
    BY DEF ListAwaits
  <2>2. CASE c.kind = "fetch"
    BY <1>1, <2>2, NewlyAwaited
  <2>3. CASE screen = List /\ list.loading /\ cmds[s].kind \notin {"fetch", "rows", "error"}
    BY <1>1, <2>1, <2>3, StillAwaited DEF ListAwaits
  <2> QED BY <2>1, <2>2, <2>3
<1>5. DetailAwaits => DetailAwaits'
  <2>1. SUFFICES ASSUME DetailAwaits, screen'.view = "detail", screen'.loading
                 PROVE  Awaits({"get", "torrent", "error"})'
    BY DEF DetailAwaits
  <2>2. CASE c.kind = "get"
    BY <1>1, <2>2, NewlyAwaited
  <2>3. CASE /\ screen.view = "detail" /\ screen.loading
             /\ cmds[s].kind \notin {"get", "torrent", "error"}
    BY <1>1, <2>1, <2>3, StillAwaited DEF DetailAwaits
  <2> QED BY <2>1, <2>2, <2>3
<1> QED BY <1>3, <1>4, <1>5 DEF TuiKept

LEMMA StartsStep ==
    ASSUME TuiIInv, NEW c, Starts(c), CmdOK(c, connected, had), UNCHANGED screen,
           list' = list \/ ListOK', list'.loading => list.loading \/ c.kind = "fetch"
    PROVE  TuiKept
<1>1. PICK s \in Slots : cmds[s] = Free /\ Then(s, c)
  BY DEF Starts
<1>2. connected' = connected /\ connected \in BOOLEAN
  BY DEF Starts, TuiIInv
<1>3. cmds[s].kind = "free"
  BY <1>1 DEF Free
<1>4. cmds' = [cmds EXCEPT ![s] = c] /\ UNCHANGED <<server, had>>
  BY <1>1 DEF Then
<1> QED BY <1>2, <1>3, <1>4, SlotStep

LEMMA QuietStep ==
    ASSUME TuiIInv, Quietly, list' = list \/ ListOK', screen' = screen \/ ScreenOK',
           screen' = List /\ list'.loading => screen = List /\ list.loading,
           screen'.view = "detail" /\ screen'.loading => screen.view = "detail" /\ screen.loading
    PROVE  TuiKept
<1>1. UNCHANGED <<server, connected, cmds, had>>
  BY DEF Quietly, configVars
<1>2. CmdsOK' /\ connected' \in BOOLEAN
  BY <1>1 DEF TuiIInv, CmdsOK
<1>3. TuiIInv'
  BY <1>1, <1>2, UpdateKeeps
<1>4. \A kinds : Awaits(kinds)' <=> Awaits(kinds)
  BY <1>1 DEF Awaits
<1> QED BY <1>3, <1>4 DEF TuiKept, ListAwaits, DetailAwaits

LEMMA NewListOK == NewList \in Lists /\ NewList.cursor = 0 /\ NewList.loading = FALSE
<1>1. <<>> \in RowLists
  <2>1. <<>> \in Seq(Torrents) /\ Len(<<>>) = 0 /\ DOMAIN <<>> = {}
    OBVIOUS
  <2> QED BY <2>1, Limits DEF RowLists, IsInjective
<1>2. 0 \in 0 .. MaxPage /\ 0 \in 0 .. PageSize - 1
  BY Limits
<1>3. {Active} \in SUBSET States
  BY TuiAssumption
<1> QED BY <1>1, <1>2, <1>3 DEF NewList, Lists

LEMMA FetchOK ==
    ASSUME NEW l \in Lists, NEW on, NEW states
    PROVE  CmdOK(Fetch(l), on, states) /\ Fetch(l).kind = "fetch"
<1>1. l.page \in Nat
  BY Limits DEF Lists
<1> QED BY <1>1 DEF CmdOK, Fetch

LEMMA FreeOK ==
    ASSUME NEW on, NEW states
    PROVE  CmdOK(Free, on, states)
BY DEF CmdOK, Free

LEMMA TuiStarts == TuiInit => TuiIInv
<1> SUFFICES ASSUME TuiInit PROVE TuiIInv
  OBVIOUS
<1>1. connected \in BOOLEAN /\ screen = IF connected THEN List ELSE Config
  BY DEF TuiInit
<1>2. ServerOK
  BY TuiAssumption DEF TuiInit, ServerOK
<1>3. ListOK
  BY NewListOK DEF TuiInit, ListOK
<1>4. ScreenOK
  BY <1>1 DEF ScreenOK, List, Config
<1>5. CmdsOK
  <2>1. cmds = [s \in Slots |-> cmds[s]] /\ \A s \in Slots : cmds[s] \in {Free, Fetch(NewList)}
    BY DEF TuiInit
  <2> QED BY <2>1, FreeOK, FetchOK, NewListOK DEF CmdsOK
<1> QED BY <1>1, <1>2, <1>3, <1>4, <1>5 DEF TuiIInv

LEMMA AnswersKeep ==
    ASSUME TuiIInv, NEW s \in Slots, ServerAnswers(s)
    PROVE  TuiKept
<1> DEFINE c == cmds[s]
           e == cmds'[s]
<1>1. /\ c.kind \in Requests /\ CmdOK(c, connected, had) /\ UNCHANGED <<screen, connected, list>>
      /\ cmds' = [cmds EXCEPT ![s] = e]
      /\ \/ Effect(c) /\ e = Result(c)
         \/ (Effect(c) \/ UNCHANGED <<server, had>>) /\ e = Failure(c)
  BY DEF ServerAnswers, configVars, TuiIInv, CmdsOK
<1> HIDE DEF e, c
<1>2. Effect(c) => /\ ServerOK' /\ (\A h \in Torrents : had[h] \subseteq had'[h])
                   /\ (c.kind = "update" => c.state \in had'[c.hash])
                   /\ (c.kind # "update" => UNCHANGED had)
  <2> SUFFICES ASSUME Effect(c)
               PROVE  /\ ServerOK' /\ (\A h \in Torrents : had[h] \subseteq had'[h])
                      /\ (c.kind = "update" => c.state \in had'[c.hash])
                      /\ (c.kind # "update" => UNCHANGED had)
    OBVIOUS
  <2>1. CASE c.kind = "delete"
    <3>1. /\ c.hash \in Torrents /\ server' = [server EXCEPT ![c.hash] = Gone] /\ UNCHANGED had
      BY <1>1, <2>1 DEF Effect, CmdOK
    <3> QED BY <2>1, <3>1 DEF TuiIInv, ServerOK
  <2>2. CASE c.kind = "update"
    <3>1. /\ c.hash \in Torrents /\ c.state \in States
          /\ server' = [server EXCEPT ![c.hash] = IF @ = Gone THEN Gone ELSE c.state]
          /\ had' = [had EXCEPT ![c.hash] = @ \cup {c.state}]
      BY <1>1, <2>2 DEF Effect, CmdOK
    <3> QED BY <2>2, <3>1 DEF TuiIInv, ServerOK
  <2>3. CASE c.kind \notin {"delete", "update"}
    <3>1. UNCHANGED <<server, had>>
      BY <2>3 DEF Effect
    <3> QED BY <2>3, <3>1 DEF TuiIInv, ServerOK
  <2> QED BY <2>1, <2>2, <2>3
<1>3. ServerOK' /\ \A h \in Torrents : had[h] \subseteq had'[h]
  <2>1. UNCHANGED <<server, had>> => ServerOK' /\ \A h \in Torrents : had[h] \subseteq had'[h]
    BY DEF TuiIInv, ServerOK
  <2> QED BY <1>1, <1>2, <2>1
<1>4. /\ CmdOK(e, connected', had')
      /\ (c.kind = "fetch" => e.kind \in {"rows", "error"})
      /\ (c.kind = "get" => e.kind \in {"torrent", "error"})
  <2>1. CASE e = Failure(c)
    BY <2>1 DEF Failure, Plain, CmdOK
  <2>2. CASE Effect(c) /\ e = Result(c)
    <3>1. CASE c.kind = "connect"
      BY <2>2, <3>1 DEF Result, Plain, CmdOK
    <3>2. CASE c.kind = "fetch"
      <4>1. e = [kind |-> "rows", rows |-> Page(c)]
        BY <2>2, <3>2 DEF Result
      <4>2. Page(c) \in RowLists
        BY <1>1, <3>2, PageOf DEF CmdOK
      <4> QED BY <3>2, <4>1, <4>2 DEF CmdOK
    <3>3. CASE c.kind = "get"
      <4>1. c.hash \in Torrents
        BY <1>1, <3>3 DEF CmdOK
      <4>2. CASE server[c.hash] = Gone
        <5>1. e = Failure(c)
          BY <2>2, <3>3, <4>2 DEF Result
        <5> QED BY <3>3, <5>1 DEF Failure, Plain, CmdOK
      <4>3. CASE server[c.hash] # Gone
        <5>1. e = [kind |-> "torrent", hash |-> c.hash, state |-> server[c.hash]]
          BY <2>2, <3>3, <4>3 DEF Result
        <5>2. server[c.hash] \in had[c.hash] /\ had' = had
          BY <1>2, <2>2, <3>3, <4>1, <4>3 DEF TuiIInv, ServerOK
        <5> QED BY <3>3, <4>1, <5>1, <5>2 DEF CmdOK
      <4> QED BY <4>2, <4>3
    <3>4. CASE c.kind = "delete"
      <4>1. e = [kind |-> "deleted", hash |-> c.hash]
        BY <2>2, <3>4 DEF Result, About
      <4>2. c.hash \in Torrents /\ connected'
        BY <1>1, <3>4 DEF CmdOK
      <4> QED BY <3>4, <4>1, <4>2 DEF CmdOK
    <3>5. CASE c.kind = "update"
      <4>1. e = [kind |-> "updated", hash |-> c.hash, state |-> c.state]
        BY <2>2, <3>5 DEF Result
      <4>2. c.hash \in Torrents /\ c.state \in had'[c.hash]
        BY <1>1, <1>2, <2>2, <3>5 DEF CmdOK
      <4> QED BY <3>5, <4>1, <4>2 DEF CmdOK
    <3> QED BY <1>1, <3>1, <3>2, <3>3, <3>4, <3>5 DEF Requests
  <2> QED BY <1>1, <2>1, <2>2
<1>5. CmdsOK /\ connected \in BOOLEAN /\ connected' \in BOOLEAN
  BY <1>1 DEF TuiIInv
<1>6. CmdsOK'
  <2>1. connected => connected'
    BY <1>1
  <2> QED BY <1>1, <1>3, <1>4, <1>5, <2>1, CmdsStayOK
<1>7. ListOK' /\ ScreenOK'
  <2>1. ListOK'
    BY <1>1 DEF TuiIInv, ListOK
  <2>2. ASSUME screen.view = "detail", screen.torrent # NoTorrent
        PROVE  screen.torrent.state \in had'[screen.torrent.hash]
    <3>1. screen.torrent.hash \in Torrents
      BY <2>2, ScreenIs DEF DetailScreens
    <3> QED BY <1>3, <2>2, <3>1 DEF TuiIInv, ScreenOK
  <2> QED BY <1>1, <2>1, <2>2 DEF TuiIInv, ScreenOK
<1>8. TuiIInv'
  BY <1>3, <1>5, <1>6, <1>7 DEF TuiIInv
<1>9. ListAwaits /\ DetailAwaits => ListAwaits' /\ DetailAwaits'
  <2>1. c.kind \in {"fetch", "rows", "error"} => e.kind \in {"fetch", "rows", "error"}
    BY <1>1, <1>4 DEF Requests
  <2>2. c.kind \in {"get", "torrent", "error"} => e.kind \in {"get", "torrent", "error"}
    BY <1>1, <1>4 DEF Requests
  <2>3. Awaits({"fetch", "rows", "error"}) => Awaits({"fetch", "rows", "error"})'
    BY <1>1, <1>5, <2>1, StillAwaited DEF c
  <2>4. Awaits({"get", "torrent", "error"}) => Awaits({"get", "torrent", "error"})'
    BY <1>1, <1>5, <2>2, StillAwaited DEF c
  <2> QED BY <1>1, <2>3, <2>4 DEF ListAwaits, DetailAwaits
<1> QED BY <1>8, <1>9 DEF TuiKept

LEMMA NavigateKeeps ==
    ASSUME TuiIInv, NEW s \in Slots, NavigateList(s) \/ NavigateDetail(s) \/ NavigateConfirmDelete(s)
    PROVE  TuiKept
<1> DEFINE c == cmds[s]
<1>1. CmdOK(c, connected, had) /\ connected' = connected /\ connected \in BOOLEAN /\ list' = list
  BY DEF NavigateList, NavigateDetail, NavigateConfirmDelete, configVars, TuiIInv, CmdsOK
<1>2. CASE NavigateList(s)
  <2>1. c.kind = "toList" /\ screen' = List /\ cmds' = [cmds EXCEPT ![s] = Fetch(list)]
        /\ UNCHANGED <<server, had>>
    BY <1>2 DEF NavigateList, Then
  <2>2. list \in Lists
    BY DEF TuiIInv, ListOK
  <2>3. CmdOK(Fetch(list), connected', had) /\ Fetch(list).kind = "fetch"
    BY <2>2, FetchOK
  <2>4. screen'.view # "detail"
    BY <2>1 DEF List
  <2>5. ScreenOK'
    BY <1>1, <2>1 DEF CmdOK, ScreenOK, List
  <2> QED BY <1>1, <2>1, <2>3, <2>4, <2>5, SlotStep
<1>3. CASE NavigateDetail(s)
  <2>1. /\ c.kind = "toDetail" /\ screen' = Detail(NoTorrent, TRUE, FALSE)
        /\ cmds' = [cmds EXCEPT ![s] = About("get", c.hash)] /\ UNCHANGED <<server, had>>
    BY <1>3 DEF NavigateDetail, Then
  <2>2. c.hash \in Torrents /\ connected
    BY <1>1, <2>1 DEF CmdOK
  <2>3. CmdOK(About("get", c.hash), connected', had) /\ About("get", c.hash).kind = "get"
    BY <2>2 DEF CmdOK, About
  <2>4. screen' # List /\ screen' \in DetailScreens /\ screen'.torrent = NoTorrent
    BY <2>1 DEF Detail, List, DetailScreens
  <2>5. ScreenOK'
    BY <1>1, <2>2, <2>4 DEF ScreenOK
  <2> QED BY <1>1, <2>1, <2>3, <2>4, <2>5, SlotStep
<1>4. CASE NavigateConfirmDelete(s)
  <2>1. /\ c.kind = "toConfirm" /\ screen' = Confirm(c.hash, c.from)
        /\ cmds' = [cmds EXCEPT ![s] = Free] /\ UNCHANGED <<server, had>>
    BY <1>4 DEF NavigateConfirmDelete, Then
  <2>2. c.hash \in Torrents /\ connected /\ c.from \in {"list", "detail"}
    BY <1>1, <2>1 DEF CmdOK
  <2>3. screen' # List /\ screen'.view = "confirm" /\ screen' \in ConfirmScreens
    BY <2>1, <2>2 DEF Confirm, List, ConfirmScreens
  <2>4. ScreenOK'
    BY <1>1, <2>2, <2>3 DEF ScreenOK
  <2>5. screen'.view # "detail" /\ CmdOK(Free, connected', had)
    BY <2>3, FreeOK
  <2> QED BY <1>1, <2>1, <2>3, <2>4, <2>5, SlotStep
<1> QED BY <1>2, <1>3, <1>4

LEMMA ClientConnectedKeeps ==
    ASSUME TuiIInv, NEW s \in Slots, ClientConnected(s)
    PROVE  TuiKept
<1>1. /\ connected' = TRUE /\ screen' = List /\ list' = NewList
      /\ cmds' = [cmds EXCEPT ![s] = Fetch(NewList)] /\ UNCHANGED <<server, had>>
  BY DEF ClientConnected, Then
<1>2. CmdOK(Fetch(NewList), connected', had) /\ Fetch(NewList).kind = "fetch"
  BY NewListOK, FetchOK
<1>3. ListOK'
  BY <1>1, NewListOK DEF ListOK
<1>4. ScreenOK' /\ screen'.view # "detail"
  BY <1>1 DEF ScreenOK, List
<1> QED BY <1>1, <1>2, <1>3, <1>4, SlotStep

\* The cursor stays on a row, as at most one row is lost.
LEMMA RowsWithout ==
    ASSUME ListOK, NEW h, NEW rows, rows = Keep(list.rows, Torrents \ {h}), NEW cursor,
           cursor = IF list.cursor >= Len(rows) /\ list.cursor > 0 THEN Len(rows) - 1 ELSE list.cursor
    PROVE  rows \in RowLists /\ cursor \in 0 .. PageSize - 1 /\ (cursor = 0 \/ cursor < Len(rows))
<1>1. /\ list.rows \in Seq(Torrents) /\ Len(list.rows) <= PageSize /\ IsInjective(list.rows)
      /\ list.cursor \in 0 .. PageSize - 1 /\ (list.cursor = 0 \/ list.cursor < Len(list.rows))
  BY DEF ListOK, Lists, RowLists
<1>2. /\ rows \in Seq(Torrents \ {h}) /\ IsInjective(rows)
      /\ Len(rows) <= Len(list.rows) /\ Len(rows) >= Len(list.rows) - 1
  BY <1>1, KeepsDistinct
<1>3. rows \in Seq(Torrents) /\ Len(rows) \in Nat /\ Len(list.rows) \in Nat
  BY <1>1, <1>2
<1>4. Len(rows) <= PageSize
  BY <1>1, <1>2, <1>3, Limits
<1>5. cursor \in 0 .. PageSize - 1 /\ (cursor = 0 \/ cursor < Len(rows))
  BY <1>1, <1>2, <1>3, <1>4, Limits
<1> QED BY <1>2, <1>3, <1>4, <1>5 DEF RowLists

\* This is the step after which the list may be awaited in vain.
LEMMA TorrentDeletedKeeps ==
    ASSUME TuiIInv, NEW s \in Slots, TorrentDeleted(s)
    PROVE  TuiIInv' /\ cmds[s].kind = "deleted" /\ cmds'[s] = Free
<1> DEFINE rows == Keep(list.rows, Torrents \ {cmds[s].hash})
           cursor == IF list.cursor >= Len(rows) /\ list.cursor > 0 THEN Len(rows) - 1 ELSE list.cursor
<1>1. /\ cmds[s].kind = "deleted" /\ screen' = List /\ connected' = connected
      /\ list' = [list EXCEPT !.rows = rows, !.cursor = cursor]
      /\ cmds' = [cmds EXCEPT ![s] = Free] /\ UNCHANGED <<server, had>>
  BY DEF TorrentDeleted, configVars, Then
<1>2. rows \in RowLists /\ cursor \in 0 .. PageSize - 1 /\ (cursor = 0 \/ cursor < Len(rows))
  <2> HIDE DEF rows
  <2> QED BY RowsWithout DEF TuiIInv, rows
<1> HIDE DEF rows, cursor
<1>3. ListOK'
  BY <1>1, <1>2 DEF TuiIInv, ListOK, Lists
<1>4. CmdsOK /\ connected \in BOOLEAN /\ CmdOK(cmds[s], connected, had)
  BY DEF TuiIInv, CmdsOK
<1>5. ScreenOK'
  BY <1>1, <1>4 DEF CmdOK, ScreenOK, List
<1>6. CmdsOK'
  <2>1. connected' \in BOOLEAN /\ (connected => connected') /\ \A h \in Torrents : had[h] \subseteq had'[h]
    BY <1>1, <1>4
  <2> QED BY <1>1, <1>4, <2>1, FreeOK, CmdsStayOK
<1>7. connected' \in BOOLEAN /\ (connected => connected') /\ cmds'[s] = Free
  BY <1>1, <1>4 DEF CmdsOK
<1> QED BY <1>1, <1>3, <1>5, <1>6, <1>7, UpdateKeeps

LEMMA LoadedKeeps ==
    ASSUME TuiIInv, NEW s \in Slots, TorrentsLoaded(s) \/ TorrentLoaded(s) \/ StateUpdated(s)
    PROVE  TuiKept
<1> DEFINE c == cmds[s]
<1>1. CmdOK(c, connected, had) /\ connected' = connected /\ connected \in BOOLEAN
      /\ cmds' = [cmds EXCEPT ![s] = Free] /\ UNCHANGED <<server, had>>
  BY DEF TorrentsLoaded, TorrentLoaded, StateUpdated, configVars, Then, TuiIInv, CmdsOK
<1>2. CmdOK(Free, connected', had)
  BY FreeOK
<1>3. CASE TorrentsLoaded(s)
  <2>1. /\ c.rows \in RowLists /\ screen = List /\ screen' = screen
        /\ list' = [list EXCEPT !.rows = c.rows, !.last = Len(c.rows) < PageSize,
                                !.loading = FALSE, !.cursor = 0]
    BY <1>1, <1>3 DEF TorrentsLoaded, CmdOK
  <2>2. list \in Lists /\ 0 \in 0 .. PageSize - 1
    BY Limits DEF TuiIInv, ListOK
  <2>3. (Len(c.rows) < PageSize) \in BOOLEAN
    OBVIOUS
  <2> HIDE DEF c
  <2>4. list' \in Lists /\ list'.cursor = 0 /\ list'.loading = FALSE
    BY <2>1, <2>2, <2>3, Zenon DEF Lists
  <2>5. ListOK' /\ ~ list'.loading
    BY <2>4 DEF ListOK
  <2>6. screen'.view # "detail"
    BY <2>1 DEF List
  <2> QED BY <1>1, <1>2, <2>1, <2>5, <2>6, SlotStep
<1>4. CASE TorrentLoaded(s)
  <2>1. /\ c.kind = "torrent" /\ screen.view = "detail" /\ list' = list
        /\ screen' = [screen EXCEPT !.torrent = [hash |-> c.hash, state |-> c.state],
                                    !.loading = FALSE]
    BY <1>4 DEF TorrentLoaded
  <2>2. screen \in DetailScreens /\ connected
    BY <2>1, ScreenIs DEF TuiIInv, ScreenOK
  <2>3. c.hash \in Torrents /\ c.state \in had[c.hash] /\ c.state \in States
    BY <1>1, <2>1 DEF CmdOK, TuiIInv, ServerOK
  <2> HIDE DEF c
  <2>4. /\ screen' \in DetailScreens /\ screen'.loading = FALSE
        /\ screen'.torrent.hash = c.hash /\ screen'.torrent.state = c.state
    BY <2>1, <2>2, <2>3 DEF DetailScreens
  <2>5. ScreenOK' /\ screen' # List /\ ~ screen'.loading
    BY <1>1, <2>2, <2>3, <2>4 DEF ScreenOK, DetailScreens, List
  <2> QED BY <1>1, <1>2, <2>1, <2>5, SlotStep
<1>5. CASE StateUpdated(s)
  <2>1. /\ c.kind = "updated" /\ screen.view = "detail" /\ list' = list
        /\ screen' = [screen EXCEPT !.picker = FALSE,
                        !.torrent = IF screen.torrent # NoTorrent /\ screen.torrent.hash = c.hash
                                    THEN [screen.torrent EXCEPT !.state = c.state] ELSE screen.torrent]
    BY <1>5 DEF StateUpdated
  <2>2. screen \in DetailScreens /\ connected
    BY <2>1, ScreenIs DEF TuiIInv, ScreenOK
  <2>3. c.hash \in Torrents /\ c.state \in had[c.hash] /\ c.state \in States
    BY <1>1, <2>1 DEF CmdOK, TuiIInv, ServerOK
  <2> DEFINE torrent == IF screen.torrent # NoTorrent /\ screen.torrent.hash = c.hash
                        THEN [screen.torrent EXCEPT !.state = c.state] ELSE screen.torrent
  <2>4. /\ torrent \in {NoTorrent} \cup [hash : Torrents, state : States]
        /\ torrent # NoTorrent => /\ screen.torrent # NoTorrent
                                  /\ torrent.state \in had[torrent.hash]
    <3>1. CASE screen.torrent # NoTorrent /\ screen.torrent.hash = c.hash
      <4>1. screen.torrent \in [hash : Torrents, state : States]
        BY <2>2, <3>1 DEF DetailScreens
      <4>2. torrent = [screen.torrent EXCEPT !.state = c.state]
        BY <3>1
      <4>3. torrent = [hash |-> c.hash, state |-> c.state]
        BY <3>1, <4>1, <4>2
      <4> HIDE DEF torrent, c
      <4> QED BY <2>3, <3>1, <4>3
    <3>2. CASE ~ (screen.torrent # NoTorrent /\ screen.torrent.hash = c.hash)
      <4>1. torrent = screen.torrent
        BY <3>2
      <4> HIDE DEF torrent
      <4> QED BY <2>1, <2>2, <4>1 DEF DetailScreens, TuiIInv, ScreenOK
    <3> QED BY <3>1, <3>2
  <2>5. screen' = [screen EXCEPT !.picker = FALSE, !.torrent = torrent]
    BY <2>1
  <2> HIDE DEF torrent, c
  <2>6. /\ screen' \in DetailScreens /\ screen'.loading = screen.loading
        /\ screen'.torrent = torrent
    BY <2>2, <2>4, <2>5 DEF DetailScreens
  <2>7. ScreenOK' /\ screen' # List
    BY <1>1, <2>1, <2>2, <2>4, <2>6 DEF TuiIInv, ScreenOK, DetailScreens, List
  <2> QED BY <1>1, <1>2, <2>1, <2>6, <2>7, SlotStep DEF c
<1> QED BY <1>3, <1>4, <1>5

LEMMA ErrorKeeps ==
    ASSUME TuiIInv, NEW s \in Slots, Error(s)
    PROVE  TuiKept
<1>1. /\ screen' = IF screen.view = "detail" THEN [screen EXCEPT !.loading = FALSE] ELSE screen
      /\ list' = IF screen = List THEN [list EXCEPT !.loading = FALSE] ELSE list
      /\ cmds' = [cmds EXCEPT ![s] = Free] /\ UNCHANGED <<connected, server, had>>
  BY DEF Error, Then
<1>2. connected \in BOOLEAN /\ CmdOK(Free, connected', had)
  BY FreeOK DEF TuiIInv
<1>3. CASE screen.view = "detail"
  <2>1. screen \in DetailScreens /\ list' = list
    BY <1>1, <1>3, ScreenIs DEF List
  <2>2. /\ screen' \in DetailScreens /\ screen'.loading = FALSE
        /\ screen'.torrent = screen.torrent
    BY <1>1, <1>3, <2>1 DEF DetailScreens
  <2>3. ScreenOK' /\ screen' # List /\ ~ screen'.loading
    BY <1>1, <1>3, <2>2 DEF TuiIInv, ScreenOK, DetailScreens, List
  <2> QED BY <1>1, <1>2, <2>1, <2>3, SlotStep
<1>4. CASE screen = List
  <2>1. screen' = screen /\ screen.view # "detail" /\ list' = [list EXCEPT !.loading = FALSE]
    BY <1>1, <1>4 DEF List
  <2>2. ListOK' /\ ~ list'.loading
    BY <2>1 DEF TuiIInv, ListOK, Lists
  <2> QED BY <1>1, <1>2, <2>1, <2>2, SlotStep
<1>5. CASE screen.view # "detail" /\ screen # List
  BY <1>1, <1>2, <1>5, SlotStep
<1> QED BY <1>3, <1>4, <1>5

LEMMA DroppedKeeps ==
    ASSUME TuiIInv, NEW s \in Slots, Refused(s) \/ Dropped(s)
    PROVE  TuiKept
<1>1. /\ UNCHANGED <<screen, connected, list, server, had>> /\ cmds' = [cmds EXCEPT ![s] = Free]
      /\ \/ cmds[s].kind = "rows" /\ screen # List
         \/ cmds[s].kind \in {"torrent", "updated"} /\ screen.view # "detail"
         \/ cmds[s].kind = "refused"
  BY DEF Refused, Dropped, configVars, Then
<1>2. connected \in BOOLEAN /\ CmdOK(Free, connected', had)
  BY FreeOK DEF TuiIInv
<1> QED BY <1>1, <1>2, SlotStep

LEMMA QuitKeeps == TuiIInv /\ Quit => TuiKept
<1> SUFFICES ASSUME TuiIInv, Quit PROVE TuiKept
  OBVIOUS
<1>1. /\ screen' = Closed /\ list' = NewList /\ cmds' = [s \in Slots |-> Free]
      /\ UNCHANGED <<server, connected, had>>
  BY DEF Quit
<1>2. ListOK'
  BY <1>1, NewListOK DEF ListOK
<1>3. ScreenOK' /\ screen' # List /\ screen'.view # "detail"
  BY <1>1 DEF ScreenOK, Closed, List
<1>4. CmdsOK'
  BY <1>1, FreeOK DEF CmdsOK
<1>5. TuiIInv'
  BY <1>1, <1>2, <1>3, <1>4, UpdateKeeps DEF TuiIInv
<1> QED BY <1>3, <1>5 DEF TuiKept, ListAwaits, DetailAwaits

LEMMA ListKeysKeep ==
    ASSUME TuiIInv, SearchKey \/ MoveCursor \/ Search
    PROVE  TuiKept
<1>1. /\ screen = List /\ screen' = screen /\ Quietly
      /\ \/ list' = [list EXCEPT !.typing = FALSE] \/ list' = [list EXCEPT !.typing = TRUE]
         \/ list.cursor > 0 /\ list' = [list EXCEPT !.cursor = @ - 1]
         \/ list.cursor < Len(list.rows) - 1 /\ list' = [list EXCEPT !.cursor = @ + 1]
  BY DEF SearchKey, MoveCursor, Search, Table
<1>2. /\ list \in Lists /\ (list.cursor = 0 \/ list.cursor < Len(list.rows))
      /\ list.cursor \in 0 .. PageSize - 1
      /\ Len(list.rows) \in Nat /\ Len(list.rows) <= PageSize
  <2>1. list \in Lists /\ (list.cursor = 0 \/ list.cursor < Len(list.rows))
    BY DEF TuiIInv, ListOK
  <2>2. list.rows \in RowLists /\ list.cursor \in 0 .. PageSize - 1
    BY <2>1 DEF Lists
  <2>3. list.rows \in Seq(Torrents) /\ Len(list.rows) <= PageSize
    BY <2>2 DEF RowLists
  <2> QED BY <2>1, <2>2, <2>3
<1>3. ListOK' /\ list'.loading = list.loading
  <2>1. CASE list' = [list EXCEPT !.typing = FALSE] \/ list' = [list EXCEPT !.typing = TRUE]
    BY <1>2, <2>1 DEF ListOK, Lists
  <2>2. CASE list.cursor > 0 /\ list' = [list EXCEPT !.cursor = @ - 1]
    <3>1. list.cursor - 1 \in 0 .. PageSize - 1 /\ list.cursor - 1 < Len(list.rows)
      BY <1>2, <2>2, Limits
    <3>2. list' \in Lists /\ list'.cursor = list.cursor - 1 /\ list'.rows = list.rows
          /\ list'.loading = list.loading
      BY <1>2, <2>2, <3>1 DEF Lists
    <3> QED BY <3>1, <3>2 DEF ListOK
  <2>3. CASE list.cursor < Len(list.rows) - 1 /\ list' = [list EXCEPT !.cursor = @ + 1]
    <3>1. list.cursor + 1 \in 0 .. PageSize - 1 /\ list.cursor + 1 < Len(list.rows)
      BY <1>2, <2>3, Limits
    <3>2. list' \in Lists /\ list'.cursor = list.cursor + 1 /\ list'.rows = list.rows
          /\ list'.loading = list.loading
      BY <1>2, <2>3, <3>1 DEF Lists
    <3> QED BY <3>1, <3>2 DEF ListOK
  <2> QED BY <1>1, <2>1, <2>2, <2>3
<1>4. screen'.view # "detail"
  BY <1>1 DEF List
<1> QED BY <1>1, <1>3, <1>4, QuietStep

\* The list is fetched again, as it is after the key.
LEMMA FetchesStep ==
    ASSUME TuiIInv, NEW l \in Lists, l.cursor = list.cursor, l.rows = list.rows, Fetches(l)
    PROVE  TuiKept
<1>1. list' = [l EXCEPT !.loading = TRUE] /\ Runs(Fetch(l)) /\ UNCHANGED screen
  BY DEF Fetches
<1>2. list' \in Lists /\ list'.cursor = list.cursor /\ list'.rows = list.rows
  BY <1>1 DEF Lists
<1>3. ListOK'
  BY <1>2 DEF TuiIInv, ListOK
<1>4. CmdOK(Fetch(l), connected, had) /\ Fetch(l).kind = "fetch"
  BY FetchOK
<1> QED BY <1>1, <1>3, <1>4, StartsStep DEF Runs

LEMMA FetchKeysKeep ==
    ASSUME TuiIInv, PageLeft \/ PageRight \/ Filter \/ Refresh
    PROVE  TuiKept
<1>1. list \in Lists /\ list.page \in 0 .. MaxPage /\ MaxPage \in Nat
  BY Limits DEF TuiIInv, ListOK, Lists
<1>2. CASE PageLeft
  <2> DEFINE l == [list EXCEPT !.page = @ - 1]
  <2>1. list.page - 1 \in 0 .. MaxPage
    BY <1>1, <1>2 DEF PageLeft
  <2>2. l \in Lists /\ l.cursor = list.cursor /\ l.rows = list.rows
    BY <1>1, <2>1 DEF Lists
  <2> QED BY <1>2, <2>2, FetchesStep DEF PageLeft
<1>3. CASE PageRight
  <2> DEFINE l == [list EXCEPT !.page = @ + 1]
  <2>1. list.page + 1 \in 0 .. MaxPage
    BY <1>1, <1>3 DEF PageRight
  <2>2. l \in Lists /\ l.cursor = list.cursor /\ l.rows = list.rows
    BY <1>1, <2>1 DEF Lists
  <2> QED BY <1>3, <2>2, FetchesStep DEF PageRight
<1>4. CASE Filter
  <2>1. PICK f \in Filters \ {list.filter} : Fetches([list EXCEPT !.page = 0, !.filter = f])
    BY <1>4 DEF Filter
  <2> DEFINE l == [list EXCEPT !.page = 0, !.filter = f]
  <2>2. f \in SUBSET States /\ 0 \in 0 .. MaxPage
    BY <1>1, TuiAssumption
  <2>3. l \in Lists /\ l.cursor = list.cursor /\ l.rows = list.rows
    BY <1>1, <2>2 DEF Lists
  <2> QED BY <2>1, <2>3, FetchesStep
<1>5. CASE Refresh
  BY <1>1, <1>5, FetchesStep DEF Refresh
<1> QED BY <1>2, <1>3, <1>4, <1>5

LEMMA PlainOK ==
    ASSUME NEW kind \in {"connect", "toList"}, NEW on, NEW states, kind = "toList" => on
    PROVE  CmdOK(Plain(kind), on, states)
BY DEF CmdOK, Plain

LEMMA AboutOK ==
    ASSUME NEW kind \in {"toDetail", "delete"}, NEW h \in Torrents, NEW states
    PROVE  CmdOK(About(kind, h), TRUE, states)
BY DEF CmdOK, About

LEMMA ToConfirmOK ==
    ASSUME NEW h \in Torrents, NEW from \in {"list", "detail"}, NEW states
    PROVE  CmdOK(ToConfirm(h, from), TRUE, states)
BY DEF CmdOK, ToConfirm

\* The keys of the other views, which start a command or change the view itself.
LEMMA OpenKeeps == TuiIInv /\ (OpenConfig \/ ConfigKey \/ Open) => TuiKept
<1> SUFFICES ASSUME TuiIInv, OpenConfig \/ ConfigKey \/ Open PROVE TuiKept
  OBVIOUS
<1>1. CASE OpenConfig
  <2>1. screen' = Config /\ list' = list /\ Quietly
    BY <1>1 DEF OpenConfig
  <2>2. ScreenOK' /\ screen' # List /\ screen'.view # "detail"
    BY <2>1 DEF ScreenOK, Config, List
  <2> QED BY <2>1, <2>2, QuietStep
<1>2. CASE ConfigKey
  <2>1. /\ UNCHANGED <<screen, list>>
        /\ Starts(Plain("connect")) \/ (connected /\ Starts(Plain("toList")))
    BY <1>2 DEF ConfigKey, Runs
  <2>2. CmdOK(Plain("connect"), connected, had) /\ (connected => CmdOK(Plain("toList"), connected, had))
    BY PlainOK
  <2> QED BY <2>1, <2>2, StartsStep DEF Runs
<1>3. CASE Open
  <2> DEFINE h == list.rows[list.cursor + 1]
  <2>1. /\ screen = List /\ list.cursor < Len(list.rows) /\ UNCHANGED <<screen, list>>
        /\ Runs(About("toDetail", h)) \/ Runs(ToConfirm(h, "list"))
    BY <1>3 DEF Open, Table
  <2>2. list.rows \in RowLists /\ list.cursor \in Nat
    BY Limits DEF TuiIInv, ListOK, Lists
  <2>3. h \in Torrents
    <3>1. list.rows \in Seq(Torrents) /\ Len(list.rows) \in Nat
      BY <2>2 DEF RowLists
    <3>2. list.cursor + 1 \in 1 .. Len(list.rows)
      BY <2>1, <2>2, <3>1
    <3> QED BY <3>1, <3>2
  <2>4. connected = TRUE
    BY <2>1, ScreenIs DEF TuiIInv
  <2> HIDE DEF h
  <2>5. CmdOK(About("toDetail", h), connected, had) /\ CmdOK(ToConfirm(h, "list"), connected, had)
    BY <2>3, <2>4, AboutOK, ToConfirmOK
  <2> QED BY <2>1, <2>5, StartsStep DEF Runs
<1> QED BY <1>1, <1>2, <1>3

LEMMA DetailKeysKeep == TuiIInv /\ (DetailKey \/ PickerKey) => TuiKept
<1> SUFFICES ASSUME TuiIInv, DetailKey \/ PickerKey PROVE TuiKept
  OBVIOUS
<1>1. /\ screen.view = "detail" /\ screen \in DetailScreens /\ list' = list /\ connected = TRUE
      /\ (screen.torrent # NoTorrent => screen.torrent.state \in had[screen.torrent.hash])
  BY ScreenIs DEF DetailKey, PickerKey, TuiIInv, ScreenOK
<1>2. screen.torrent # NoTorrent => screen.torrent.hash \in Torrents
  BY <1>1 DEF DetailScreens
<1>3. CASE Quietly /\ \E b \in BOOLEAN : screen' = [screen EXCEPT !.picker = b]
  <2>1. /\ screen' \in DetailScreens /\ screen'.loading = screen.loading
        /\ screen'.torrent = screen.torrent
    BY <1>1, <1>3 DEF DetailScreens
  <2>2. UNCHANGED <<connected, had>>
    BY <1>3 DEF Quietly, configVars
  <2>3. ScreenOK' /\ screen' # List
    BY <1>1, <2>1, <2>2 DEF ScreenOK, DetailScreens, List
  <2> QED BY <1>1, <1>3, <2>1, <2>3, QuietStep
<1>4. CASE Runs(Plain("toList")) /\ UNCHANGED screen
  <2>1. CmdOK(Plain("toList"), connected, had)
    BY <1>1, PlainOK
  <2> QED BY <1>1, <1>4, <2>1, StartsStep DEF Runs
<1>5. CASE /\ screen.torrent # NoTorrent /\ UNCHANGED screen
           /\ Runs(ToConfirm(screen.torrent.hash, "detail"))
  <2>1. CmdOK(ToConfirm(screen.torrent.hash, "detail"), connected, had)
    BY <1>1, <1>2, <1>5, ToConfirmOK
  <2> QED BY <1>1, <1>5, <2>1, StartsStep DEF Runs
<1>6. CASE /\ screen.torrent # NoTorrent /\ UNCHANGED screen
           /\ \E choice \in States : Runs(Update(screen.torrent.hash, choice))
  <2>1. PICK choice \in States : Runs(Update(screen.torrent.hash, choice))
    BY <1>6
  <2>2. CmdOK(Update(screen.torrent.hash, choice), connected, had)
    BY <1>1, <1>2, <1>6 DEF CmdOK, Update
  <2> QED BY <2>2, <1>1, <1>6, <2>1, StartsStep DEF Runs
<1> QED BY <1>3, <1>4, <1>5, <1>6 DEF DetailKey, PickerKey

LEMMA ConfirmKeeps == TuiIInv /\ ConfirmKey => TuiKept
<1> SUFFICES ASSUME TuiIInv, ConfirmKey PROVE TuiKept
  OBVIOUS
<1>1. /\ UNCHANGED <<screen, list>> /\ connected = TRUE /\ screen.hash \in Torrents
      /\ \/ Runs(About("delete", screen.hash)) \/ Runs(About("toDetail", screen.hash))
         \/ Runs(Plain("toList"))
  <2>1. screen \in ConfirmScreens /\ connected = TRUE
    BY ScreenIs DEF ConfirmKey, TuiIInv, ScreenOK
  <2> QED BY <2>1 DEF ConfirmKey, ConfirmScreens
<1>2. /\ CmdOK(About("delete", screen.hash), connected, had)
      /\ CmdOK(About("toDetail", screen.hash), connected, had)
      /\ CmdOK(Plain("toList"), connected, had)
  BY <1>1, AboutOK, PlainOK
<1> QED BY <1>1, <1>2, StartsStep DEF Runs

LEMMA TuiStep ==
    ASSUME TuiIInv, [TuiNext]_tuiVars
    PROVE  TuiKept \/ (TuiIInv' /\ \E s \in Slots : cmds[s].kind = "deleted" /\ cmds'[s] = Free)
<1>1. CASE Key
  BY <1>1, QuitKeeps, OpenKeeps, ListKeysKeep, FetchKeysKeep, DetailKeysKeep, ConfirmKeeps DEF Key
<1>2. CASE \E s \in Slots : ServerAnswers(s) \/ Deliver(s)
  BY <1>2, AnswersKeep, NavigateKeeps, ClientConnectedKeeps, TorrentDeletedKeeps, LoadedKeeps,
     ErrorKeeps, DroppedKeeps DEF Deliver
<1>3. CASE UNCHANGED tuiVars
  <2>1. Quietly /\ UNCHANGED <<list, screen>>
    BY <1>3 DEF tuiVars, Quietly
  <2> QED BY <2>1, QuietStep
<1> QED BY <1>1, <1>2, <1>3 DEF TuiNext

\* The configuration view waits for a connection.  It may open waiting in vain.
ConfigKept ==
    /\ connecting \in BOOLEAN => connecting' \in BOOLEAN
    /\ ConfigAwaits => ConfigAwaits' \/ (screen # Config /\ screen' = Config /\ connecting)

LEMMA AnswersKeepConfig ==
    ASSUME TuiIInv, NEW s \in Slots, ServerAnswers(s)
    PROVE  ConfigKept
<1> DEFINE Ends == {"connect", "connected", "refused", "error"}
           c == cmds[s]
           e == cmds'[s]
<1>1. /\ CmdsOK /\ UNCHANGED <<screen, connecting>> /\ cmds' = [cmds EXCEPT ![s] = e]
      /\ c.kind \in Requests /\ (e = Result(c) \/ e = Failure(c))
  BY DEF ServerAnswers, configVars, TuiIInv, CmdsOK
<1>2. c.kind \in Ends => e.kind \in Ends
  <2>1. c.kind \in Ends => c.kind = "connect"
    BY <1>1 DEF Requests
  <2>2. c.kind = "connect" => Result(c) = Plain("connected") /\ Failure(c) = Plain("refused")
    BY DEF Result, Failure
  <2> QED BY <1>1, <2>1, <2>2 DEF Plain
<1>3. Awaits(Ends) => Awaits(Ends)'
  <2> HIDE DEF e
  <2> QED BY <1>1, <1>2, StillAwaited
<1> QED BY <1>1, <1>3 DEF ConfigKept, ConfigAwaits

LEMMA DeliveryKeepsConfig ==
    ASSUME TuiIInv, NEW s \in Slots, Deliver(s)
    PROVE  ConfigKept
<1>1. CASE NavigateList(s) \/ NavigateDetail(s) \/ NavigateConfirmDelete(s)
           \/ ClientConnected(s) \/ TorrentDeleted(s)
  <2>1. screen' # Config /\ connecting' = connecting
    BY <1>1 DEF NavigateList, NavigateDetail, NavigateConfirmDelete, ClientConnected, TorrentDeleted,
                configVars, Config, List, Detail, Confirm
  <2> QED BY <2>1 DEF ConfigKept, ConfigAwaits
<1>2. CASE TorrentsLoaded(s)
  <2>1. screen' # Config /\ connecting' = connecting
    BY <1>2 DEF TorrentsLoaded, configVars, Config, List
  <2> QED BY <2>1 DEF ConfigKept, ConfigAwaits
<1>3. CASE TorrentLoaded(s) \/ StateUpdated(s)
  <2>1. screen.view = "detail" /\ connecting' = connecting
    BY <1>3 DEF TorrentLoaded, StateUpdated, configVars
  <2>2. screen \in DetailScreens
    BY <2>1, ScreenIs
  <2>3. screen'.view = "detail"
    BY <1>3, <2>1, <2>2 DEF TorrentLoaded, StateUpdated, DetailScreens
  <2> QED BY <2>1, <2>3 DEF ConfigKept, ConfigAwaits, Config
<1>4. CASE Refused(s)
  BY <1>4 DEF Refused, ConfigKept, ConfigAwaits
<1>5. CASE Error(s)
  <2>1. /\ connecting' = (connecting /\ screen # Config)
        /\ screen' = IF screen.view = "detail" THEN [screen EXCEPT !.loading = FALSE] ELSE screen
    BY <1>5 DEF Error
  <2>2. CASE screen = Config
    BY <2>1, <2>2, Zenon DEF ConfigKept, ConfigAwaits
  <2>3. CASE screen # Config
    <3>1. screen.view = "detail" => screen'.view = "detail"
      BY <2>1, ScreenIs DEF DetailScreens
    <3>2. screen' # Config
      BY <2>1, <2>3, <3>1 DEF Config
    <3>3. connecting \in BOOLEAN => connecting' \in BOOLEAN
      BY <2>1, <2>3, Zenon
    <3> QED BY <3>2, <3>3 DEF ConfigKept, ConfigAwaits
  <2> QED BY <2>2, <2>3
<1>6. CASE Dropped(s)
  <2>1. /\ CmdsOK /\ UNCHANGED <<screen, connecting>> /\ cmds' = [cmds EXCEPT ![s] = Free]
        /\ screen = Config => cmds[s].kind \in {"rows", "torrent", "updated"}
    BY <1>6 DEF Dropped, configVars, Then, TuiIInv
  <2>2. screen = Config /\ Awaits({"connect", "connected", "refused", "error"}) =>
          Awaits({"connect", "connected", "refused", "error"})'
    BY <2>1, StillAwaited
  <2> QED BY <2>1, <2>2 DEF ConfigKept, ConfigAwaits
<1> QED BY <1>1, <1>2, <1>3, <1>4, <1>5, <1>6 DEF Deliver

LEMMA KeysKeepConfig ==
    ASSUME TuiIInv, Key
    PROVE  ConfigKept
<1>1. CASE Quit
  <2>1. screen' # Config /\ connecting' = FALSE
    BY <1>1 DEF Quit, Config, Closed
  <2> QED BY <2>1 DEF ConfigKept, ConfigAwaits
<1>2. CASE OpenConfig
  <2>1. screen # Config /\ screen' = Config /\ connecting' = connecting
    BY <1>2 DEF OpenConfig, Quietly, configVars
  <2> QED BY <2>1 DEF ConfigKept, ConfigAwaits
<1>3. CASE ConfigKey
  <2>1. /\ UNCHANGED screen
        /\ \/ connecting' = TRUE /\ Starts(Plain("connect"))
           \/ connecting' = connecting /\ Starts(Plain("toList"))
    BY <1>3 DEF ConfigKey, Runs
  <2>2. ASSUME NEW c, Starts(c) PROVE \E s \in Slots : cmds[s] = Free /\ cmds' = [cmds EXCEPT ![s] = c]
    BY <2>2 DEF Starts, Then
  <2>3. CmdsOK
    BY DEF TuiIInv
  <2>4. CASE connecting' = TRUE /\ Starts(Plain("connect"))
    <3>1. Plain("connect").kind = "connect"
      BY DEF Plain
    <3>2. Awaits({"connect", "connected", "refused", "error"})'
      BY <2>2, <2>3, <2>4, <3>1, NewlyAwaited
    <3> QED BY <2>4, <3>2 DEF ConfigKept, ConfigAwaits
  <2>5. CASE connecting' = connecting /\ Starts(Plain("toList"))
    <3>1. Awaits({"connect", "connected", "refused", "error"}) =>
            Awaits({"connect", "connected", "refused", "error"})'
      BY <2>2, <2>3, <2>5, StillAwaited DEF Free
    <3> QED BY <2>1, <2>5, <3>1 DEF ConfigKept, ConfigAwaits
  <2> QED BY <2>1, <2>4, <2>5
<1>4. CASE SearchKey \/ MoveCursor \/ Search \/ PageLeft \/ PageRight \/ Filter \/ Refresh \/ Open
  <2>1. screen = List
    BY <1>4 DEF SearchKey, MoveCursor, Search, PageLeft, PageRight, Filter, Refresh, Open, Table
  <2>2. ASSUME NEW l, Fetches(l) PROVE UNCHANGED <<screen, connecting>>
    BY <2>2 DEF Fetches, Runs
  <2>3. UNCHANGED <<screen, connecting>>
    BY <1>4, <2>2 DEF SearchKey, MoveCursor, Search, PageLeft, PageRight, Filter, Refresh, Open,
                      Quietly, Runs, configVars
  <2> QED BY <2>1, <2>3 DEF ConfigKept, ConfigAwaits, Config, List
<1>5. CASE DetailKey \/ PickerKey
  <2>1. /\ screen.view = "detail" /\ connecting' = connecting
        /\ screen' = screen \/ \E b \in BOOLEAN : screen' = [screen EXCEPT !.picker = b]
    BY <1>5 DEF DetailKey, PickerKey, Quietly, Runs, configVars
  <2>2. screen'.view = "detail"
    BY <2>1, ScreenIs DEF DetailScreens
  <2> QED BY <2>1, <2>2 DEF ConfigKept, ConfigAwaits, Config
<1>6. CASE ConfirmKey
  <2>1. screen.view = "confirm" /\ UNCHANGED <<screen, connecting>>
    BY <1>6 DEF ConfirmKey, Runs
  <2> QED BY <2>1 DEF ConfigKept, ConfigAwaits, Config
<1> QED BY <1>1, <1>2, <1>3, <1>4, <1>5, <1>6 DEF Key

LEMMA ConfigStep ==
    ASSUME TuiIInv, [TuiNext]_tuiVars
    PROVE  ConfigKept
<1>1. CASE UNCHANGED tuiVars
  BY <1>1 DEF tuiVars, configVars, ConfigKept, ConfigAwaits, Awaits
<1> QED BY <1>1, AnswersKeepConfig, DeliveryKeepsConfig, KeysKeepConfig DEF TuiNext

LEMMA TuiInvariant == TuiSpec => [](TuiIInv /\ connecting \in BOOLEAN)
<1>1. TuiInit => TuiIInv /\ connecting \in BOOLEAN
  BY TuiStarts DEF TuiInit
<1>2. TuiIInv /\ connecting \in BOOLEAN /\ [TuiNext]_tuiVars => (TuiIInv /\ connecting \in BOOLEAN)'
  BY TuiStep, ConfigStep DEF TuiKept, ConfigKept
<1> QED BY <1>1, <1>2, PTL DEF TuiSpec

\* For any listing, page size and number of commands: the detail view never shows a
\* torrent in a state it has not had, and the cursor stays within a page (tui/model).
THEOREM ShownStatesWereReal == TuiSpec => []ShownStateWasReal
<1>1. TuiIInv /\ connecting \in BOOLEAN => ShownStateWasReal
  BY TypeFollows DEF TuiIInv, ScreenOK, ShownStateWasReal
<1> QED BY <1>1, TuiInvariant, PTL

\* For any number of commands at once: a view that says it is loading has an answer
\* coming, but for the list after a deletion, and the configuration view if it opens as it
\* was left, connecting (tui/model/app.go).
THEOREM LoadingEnds == TuiSpec => NothingIsAwaitedInVain
<1> DEFINE Excepted == \/ \E s \in Slots : cmds[s].kind = "deleted" /\ cmds'[s] = Free
                       \/ screen # Config /\ screen' = Config /\ connecting
<1>1. TuiIInv /\ [TuiNext]_tuiVars => [InVain' => InVain \/ Excepted]_tuiVars
  <2>1. InVain <=> ~ (ListAwaits /\ DetailAwaits /\ ConfigAwaits)
    BY DEF InVain, ListAwaits, DetailAwaits, ConfigAwaits, Awaits
  <2>2. InVain' <=> ~ (ListAwaits' /\ DetailAwaits' /\ ConfigAwaits')
    BY DEF InVain, ListAwaits, DetailAwaits, ConfigAwaits, Awaits
  <2> QED BY <2>1, <2>2, TuiStep, ConfigStep DEF TuiKept, ConfigKept
<1> QED BY <1>1, TuiInvariant, PTL DEF TuiSpec, NothingIsAwaitedInVain

=============================================================================
