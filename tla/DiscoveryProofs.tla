-------------------------- MODULE DiscoveryProofs --------------------------
(***************************************************************************)
(* The invariants of Lookup, for any number of nodes and peers, any width, *)
(* any concurrency and any limit on the iterations; and that of            *)
(* SampleQueue, for any crawlers, samplers, infohashes and capacities.     *)
(***************************************************************************)
EXTENDS Lookup, SampleQueue, FiniteSetTheorems, FunctionTheorems, SequenceTheorems, TLAPS

-----------------------------------------------------------------------------
(* A lookup: the inductive invariant.                                      *)

\* A lookup that is over left nothing behind; one that runs collects what it is told.
Collected ==
    /\ running => peers = told
    /\ ~ running => inFlight = {} /\ newNodes = {} /\ emitted = told

\* Those marked were sent a query, and one.
AskedOnce ==
    /\ inFlight \subseteq queried
    /\ asked = [n \in Nodes |-> IF n \in queried THEN 1 ELSE 0]

\* The shortlist holds the nearest of the nodes heard of before this iteration; the
\* others heard of are yet to be merged.
NearestSoFar ==
    \E heard \in SUBSET Nodes :
        /\ learned = heard \cup newNodes
        /\ shortlist = heard \/ shortlist = Nearest(TraversalWidth, heard)

IInv == TypeOK /\ Collected /\ AskedOnce /\ (running => NearestSoFar)

-----------------------------------------------------------------------------
(* Nearest.                                                                *)

LEMMA FiniteNodes ==
    ASSUME NEW S \in SUBSET Nodes
    PROVE  IsFiniteSet(S) /\ Cardinality(S) \in Nat /\ S \subseteq Int
<1>1. NumNodes \in Nat
  BY LookupAssumption
<1>2. IsFiniteSet(Nodes)
  BY <1>1, FS_Interval DEF Nodes
<1>3. IsFiniteSet(S) /\ Cardinality(S) \in Nat
  BY <1>2, FS_Subset, FS_CardinalityType
<1> QED BY <1>1, <1>3 DEF Nodes

\* A node of S has fewer nodes of S before it than another one behind it has.
LEMMA RanksGrow ==
    ASSUME NEW S \in SUBSET Nodes, NEW m \in S, NEW n \in Nodes, m < n
    PROVE  Cardinality({j \in S : j < m}) < Cardinality({j \in S : j < n})
<1> DEFINE A == {j \in S : j < m}
           B == {j \in S : j < n}
<1>1. A \in SUBSET B /\ m \in B /\ m \notin A
  BY FiniteNodes
<1>2. A \in SUBSET Nodes /\ B \in SUBSET Nodes
  OBVIOUS
<1> HIDE DEF A, B
<1>3. IsFiniteSet(B) /\ Cardinality(A) \in Nat /\ Cardinality(B) \in Nat
  BY <1>2, FiniteNodes
<1>4. Cardinality(A) <= Cardinality(B) /\ Cardinality(A) # Cardinality(B)
  BY <1>1, <1>3, FS_Subset
<1>5. Cardinality(A) < Cardinality(B)
  BY <1>3, <1>4
<1> QED BY <1>5 DEF A, B

\* There are k nearest, unless there are fewer nodes.
LEMMA NearestCount ==
    ASSUME NEW S \in SUBSET Nodes, NEW k \in Nat
    PROVE  /\ Nearest(k, S) \in SUBSET S
           /\ Cardinality(Nearest(k, S)) = IF Cardinality(S) < k THEN Cardinality(S) ELSE k
<1> DEFINE before(n) == {m \in S : m < n}
           rank == [n \in S |-> Cardinality(before(n))]
           size == Cardinality(S)
           near == Nearest(k, S)
<1>1. IsFiniteSet(S) /\ size \in Nat
  BY FiniteNodes
<1>2. ASSUME NEW n \in S PROVE rank[n] \in 0..(size - 1)
  <2>1. before(n) \in SUBSET S /\ n \notin before(n)
    BY FiniteNodes
  <2>2. Cardinality(before(n)) \in Nat
    BY <2>1, FiniteNodes
  <2>3. Cardinality(before(n)) <= size /\ Cardinality(before(n)) # size
    BY <1>1, <2>1, FS_Subset
  <2>4. rank[n] = Cardinality(before(n))
    OBVIOUS
  <2> HIDE DEF before, rank, size
  <2> QED BY <1>1, <2>2, <2>3, <2>4
<1>3. \A m, n \in S : rank[m] = rank[n] => m = n
  <2>1. \A m, n \in S : m < n => rank[m] < rank[n]
    BY RanksGrow
  <2>2. \A m, n \in S : m = n \/ m < n \/ n < m
    BY FiniteNodes
  <2> HIDE DEF rank
  <2> QED BY <1>1, <1>2, <2>1, <2>2
<1>4. rank \in Injection(S, 0..(size - 1))
  <2>1. rank \in [S -> 0..(size - 1)]
    BY <1>2
  <2> HIDE DEF rank, size
  <2> QED BY <1>3, <2>1, Fun_IsInj
<1>5. IsFiniteSet(0..(size - 1)) /\ Cardinality(0..(size - 1)) = size
  <2>1. \A n \in Nat : /\ IsFiniteSet(0..(n - 1))
                       /\ Cardinality(0..(n - 1)) = IF 0 > n - 1 THEN 0 ELSE n - 1 - 0 + 1
    BY FS_Interval
  <2> HIDE DEF size
  <2> QED BY <1>1, <2>1
<1>6. \A r \in 0..(size - 1) : \E n \in S : rank[n] = r
  <2> DEFINE T == 0..(size - 1)
  <2> HIDE DEF rank, size
  <2>1. rank \in Injection(S, T) /\ IsFiniteSet(T) /\ Cardinality(T) = size
    BY <1>4, <1>5
  <2> HIDE DEF T
  <2>2. rank \in Surjection(S, T)
    BY <2>1, FS_Injection DEF size
  <2>3. \A r \in T : \E n \in S : rank[n] = r
    BY <2>2, Fun_SurjectionProperties
  <2> QED BY <2>3 DEF T
<1>7. near = {n \in S : rank[n] < k} /\ near \in SUBSET S
  BY DEF Nearest
<1>8. CASE size < k
  <2>1. \A n \in S : rank[n] < k
    <3> HIDE DEF rank, size
    <3> QED BY <1>1, <1>2, <1>8
  <2>2. near = S
    BY <1>7, <2>1
  <2> QED BY <1>8, <2>2
<1>9. CASE ~ (size < k)
  <2> DEFINE short == [n \in near |-> rank[n]]
             T == 0..(k - 1)
  <2> HIDE DEF rank, size, near
  <2>1. \A n \in near : n \in S /\ rank[n] \in T
    BY <1>1, <1>2, <1>7
  <2>2. short \in [near -> T] /\ \A n \in near : short[n] = rank[n]
    BY <2>1
  <2>3. \A m, n \in near : short[m] = short[n] => m = n
    BY <1>3, <2>1, <2>2
  <2>4. \A r \in T : \E n \in near : short[n] = r
    <3> SUFFICES ASSUME NEW r \in T PROVE \E n \in near : short[n] = r
      OBVIOUS
    <3>1. r \in 0..(size - 1) /\ r < k
      BY <1>1, <1>9
    <3>2. PICK n \in S : rank[n] = r
      BY <1>6, <3>1
    <3>3. n \in near
      BY <1>7, <3>1, <3>2
    <3> QED BY <2>2, <3>2, <3>3
  <2>5. IsFiniteSet(near)
    BY <1>1, <1>7, FS_Subset
  <2>6. IsFiniteSet(T) /\ Cardinality(T) = k
    <3>1. IsFiniteSet(T) /\ Cardinality(T) = IF 0 > k - 1 THEN 0 ELSE k - 1 - 0 + 1
      BY FS_Interval
    <3> QED BY <3>1
  <2> HIDE DEF short, T
  <2>7. short \in Bijection(near, T)
    BY <2>2, <2>3, <2>4, Fun_IsBij
  <2>8. ExistsBijection(near, T)
    BY <2>7, Fun_ExistsBij
  <2>9. Cardinality(T) = Cardinality(near)
    BY <2>5, <2>8, FS_Bijection
  <2> QED BY <1>7, <1>9, <2>6, <2>9 DEF near, size
<1> QED BY <1>7, <1>8, <1>9

\* What is trimmed away has k nearer nodes among those kept.
LEMMA TrimmedIsBehind ==
    ASSUME NEW S \in SUBSET Nodes, NEW k \in Nat, NEW m \in S, m \notin Nearest(k, S)
    PROVE  /\ Cardinality(Nearest(k, S)) = k
           /\ \A n \in Nearest(k, S) : n < m
<1> DEFINE before(n) == {j \in S : j < n}
<1>1. ~ (Cardinality(before(m)) < k)
  BY DEF Nearest
<1>2. before(m) \in SUBSET S /\ before(m) \in SUBSET Nodes
  OBVIOUS
<1>3. Cardinality(before(m)) \in Nat /\ Cardinality(S) \in Nat /\ IsFiniteSet(S)
  BY <1>2, FiniteNodes
<1>4. Cardinality(before(m)) <= Cardinality(S)
  BY <1>2, <1>3, FS_Subset
<1>5. ~ (Cardinality(S) < k)
  <2> HIDE DEF before
  <2> QED BY <1>1, <1>3, <1>4
<1>6. Cardinality(Nearest(k, S)) = k
  BY <1>5, NearestCount
<1>7. ASSUME NEW n \in Nearest(k, S) PROVE n < m
  <2>1. n \in S /\ Cardinality(before(n)) < k
    BY DEF Nearest
  <2>2. Cardinality(before(n)) \in Nat
    BY FiniteNodes
  <2>3. n # m
    BY <1>7
  <2>4. ~ (m < n)
    <3>1. m < n => Cardinality(before(m)) < Cardinality(before(n))
      BY <2>1, RanksGrow
    <3> HIDE DEF before
    <3> QED BY <1>1, <1>3, <2>1, <2>2, <3>1
  <2>5. m \in Int /\ n \in Int
    BY <2>1, FiniteNodes
  <2> QED BY <2>3, <2>4, <2>5
<1> QED BY <1>6, <1>7

\* Trimming before a merge loses none of the nearest.
LEMMA TrimmingLosesNothing ==
    ASSUME NEW S \in SUBSET Nodes, NEW T \in SUBSET Nodes, NEW k \in Nat
    PROVE  Nearest(k, Nearest(k, S) \cup T) = Nearest(k, S \cup T)
<1> DEFINE near == Nearest(k, S)
           few(n) == {m \in near \cup T : m < n}
           all(n) == {m \in S \cup T : m < n}
<1>1. near \in SUBSET S
  BY NearestCount
<1>2. \A n \in Nodes : /\ few(n) \in SUBSET Nodes /\ all(n) \in SUBSET Nodes
                       /\ few(n) \in SUBSET all(n)
  BY <1>1
<1>3. \A n \in Nodes : /\ Cardinality(few(n)) \in Nat /\ Cardinality(all(n)) \in Nat
                       /\ Cardinality(few(n)) <= Cardinality(all(n))
  <2> SUFFICES ASSUME NEW n \in Nodes
               PROVE  /\ Cardinality(few(n)) \in Nat /\ Cardinality(all(n)) \in Nat
                      /\ Cardinality(few(n)) <= Cardinality(all(n))
    OBVIOUS
  <2>1. few(n) \in SUBSET Nodes /\ all(n) \in SUBSET Nodes /\ few(n) \in SUBSET all(n)
    BY <1>2
  <2> HIDE DEF few, all
  <2> QED BY <2>1, FiniteNodes, FS_Subset
<1>4. ASSUME NEW m \in S, m \notin near, NEW n \in Nodes, m <= n
      PROVE  ~ (Cardinality(few(n)) < k)
  <2>1. Cardinality(near) = k /\ \A j \in near : j < m
    BY <1>4, TrimmedIsBehind
  <2>2. m \in Int /\ n \in Int /\ \A j \in near : j \in Int
    BY <1>1, FiniteNodes
  <2>3. near \in SUBSET few(n)
    BY <1>4, <2>1, <2>2
  <2>4. few(n) \in SUBSET Nodes
    BY <1>2
  <2> HIDE DEF few, near
  <2>5. IsFiniteSet(few(n)) /\ Cardinality(few(n)) \in Nat
    BY <2>4, FiniteNodes
  <2>6. Cardinality(near) <= Cardinality(few(n))
    BY <2>3, <2>5, FS_Subset
  <2> QED BY <2>1, <2>5, <2>6
<1>5. ASSUME NEW n \in Nodes PROVE (Cardinality(few(n)) < k) <=> (Cardinality(all(n)) < k)
  <2>1. CASE few(n) = all(n)
    BY <2>1
  <2>2. CASE few(n) # all(n)
    <3>1. PICK m \in all(n) : m \notin few(n)
      BY <1>2, <2>2
    <3>2. m \in S /\ m \notin near /\ m < n /\ m \in Int /\ n \in Int
      BY <3>1, FiniteNodes
    <3>3. m <= n
      BY <3>2
    <3>4. ~ (Cardinality(few(n)) < k)
      BY <1>4, <3>2, <3>3
    <3> HIDE DEF few, all
    <3> QED BY <1>3, <3>4
  <2> QED BY <2>1, <2>2
<1>6. ASSUME NEW n \in S, n \notin near PROVE ~ (Cardinality(all(n)) < k)
  <2>1. n \in Nodes /\ n <= n
    BY FiniteNodes
  <2> QED BY <1>4, <1>5, <1>6, <2>1
<1>7. Nearest(k, near \cup T) = {n \in near \cup T : Cardinality(few(n)) < k}
  BY DEF Nearest
<1>8. Nearest(k, S \cup T) = {n \in S \cup T : Cardinality(all(n)) < k}
  BY DEF Nearest
<1> HIDE DEF few, all, near
<1>9. \A n : n \in Nearest(k, near \cup T) <=> n \in Nearest(k, S \cup T)
  BY <1>1, <1>5, <1>6, <1>7, <1>8
<1> QED BY <1>9 DEF near

-----------------------------------------------------------------------------
(* The steps.                                                              *)

LEMMA LookupBounds ==
    /\ NumNodes \in Nat \ {0} /\ Alpha \in Nat \ {0} /\ TraversalWidth \in Nat \ {0}
    /\ MaxIterations \in Nat \ {0} /\ MaxFound \in Nat
BY LookupAssumption

LEMMA Starts == Init => IInv
<1> SUFFICES ASSUME Init PROVE IInv
  OBVIOUS
<1>1. Cardinality({}) = 0
  BY FS_EmptySet
<1>2. /\ running = FALSE /\ shortlist = {} /\ queried = {} /\ iter = 0 /\ inFlight = {}
      /\ newNodes = {} /\ peers = {} /\ emitted = {} /\ learned = {} /\ told = {}
      /\ asked = [n \in Nodes |-> 0]
  BY DEF Init
<1>3. 0 \in 0..MaxIterations /\ 0 <= Alpha
  BY LookupBounds
<1>4. TypeOK
  BY <1>1, <1>2, <1>3 DEF TypeOK
<1> QED BY <1>2, <1>4 DEF IInv, Collected, AskedOnce

\* The shortlist starts as the nodes heard of.
LEMMA BeginKeeps == ASSUME IInv, Begin PROVE IInv'
<1>1. /\ ~ running /\ running' = TRUE
      /\ learned' = shortlist' /\ shortlist' \subseteq Nodes
      /\ queried' = {} /\ iter' = 0 /\ peers' = {} /\ told' = {} /\ emitted' = {}
      /\ asked' = [n \in Nodes |-> 0]
      /\ inFlight' = inFlight /\ newNodes' = newNodes
  BY DEF Begin
<1>2. inFlight = {} /\ newNodes = {}
  BY <1>1 DEF IInv, Collected
<1>3. TypeOK'
  BY <1>1, LookupBounds DEF IInv, TypeOK
<1>4. NearestSoFar'
  BY <1>1, <1>2 DEF NearestSoFar
<1> QED BY <1>1, <1>2, <1>3, <1>4 DEF IInv, Collected, AskedOnce

LEMMA DispatchKeeps == ASSUME IInv, Dispatch PROVE IInv'
<1>1. /\ running /\ inFlight = {} /\ newNodes = {} /\ iter # MaxIterations
      /\ inFlight' = Nearest(Alpha, shortlist \ queried)
      /\ queried' = queried \cup inFlight'
      /\ asked' = [n \in Nodes |-> asked[n] + (IF n \in inFlight' THEN 1 ELSE 0)]
      /\ iter' = iter + 1
      /\ UNCHANGED <<running, shortlist, newNodes, peers, emitted, learned, told>>
  BY DEF Dispatch, QueryParallel, Between, Over
<1>2. shortlist \ queried \in SUBSET Nodes
  BY DEF IInv, TypeOK
<1>3. /\ inFlight' \in SUBSET Nodes
      /\ Cardinality(inFlight') <= Alpha
  <2> DEFINE open == shortlist \ queried
             picked == Nearest(Alpha, open)
  <2> HIDE DEF open
  <2>1. open \in SUBSET Nodes
    BY <1>2 DEF open
  <2>2. picked \in SUBSET open /\ Cardinality(picked) = IF Cardinality(open) < Alpha THEN Cardinality(open) ELSE Alpha
    BY <2>1, LookupBounds, NearestCount
  <2>3. Cardinality(open) \in Nat
    BY <2>1, FiniteNodes
  <2>4. Cardinality(picked) <= Alpha
    BY <2>2, <2>3, LookupBounds
  <2> QED BY <1>1, <2>1, <2>2, <2>4 DEF open
<1>4. iter' \in 0..MaxIterations
  BY <1>1, LookupBounds DEF IInv, TypeOK
<1>5. AskedOnce'
  <2>1. \A n \in inFlight' : n \notin queried
    BY <1>1 DEF Nearest
  <2>2. asked = [n \in Nodes |-> IF n \in queried THEN 1 ELSE 0]
    BY DEF IInv, AskedOnce
  <2>3. asked' = [n \in Nodes |-> IF n \in queried' THEN 1 ELSE 0]
    BY <1>1, <2>1, <2>2
  <2> QED BY <1>1, <2>3 DEF AskedOnce
<1>6. TypeOK'
  <2>1. asked' \in [Nodes -> Nat]
    BY <1>5 DEF AskedOnce
  <2> QED BY <1>1, <1>3, <1>4, <2>1 DEF IInv, TypeOK
<1>7. NearestSoFar'
  BY <1>1 DEF IInv, NearestSoFar
<1> QED BY <1>1, <1>5, <1>6, <1>7 DEF IInv, Collected

LEMMA ReturnKeeps == ASSUME IInv, NEW n \in Nodes, Return(n) PROVE IInv'
<1>1. PICK found \in SUBSET Nodes, named \in SUBSET Peers :
        /\ newNodes' = newNodes \cup found
        /\ peers' = peers \cup named
        /\ learned' = learned \cup found
        /\ told' = told \cup named
  BY DEF Return
<1>2. /\ n \in inFlight /\ inFlight' = inFlight \ {n}
      /\ UNCHANGED <<running, shortlist, queried, iter, emitted, asked>>
  BY DEF Return
<1>3. running
  BY <1>2 DEF IInv, Collected
<1>4. Cardinality(inFlight') <= Alpha
  <2>1. inFlight \in SUBSET Nodes /\ Cardinality(inFlight) <= Alpha
    BY DEF IInv, TypeOK
  <2>2. IsFiniteSet(inFlight) /\ Cardinality(inFlight) \in Nat
    BY <2>1, FiniteNodes
  <2>3. Cardinality(inFlight \ {n}) = Cardinality(inFlight) - 1
    BY <1>2, <2>2, FS_RemoveElement
  <2> QED BY <1>2, <2>1, <2>2, <2>3, LookupBounds
<1>5. TypeOK'
  BY <1>1, <1>2, <1>4 DEF IInv, TypeOK
<1>6. NearestSoFar'
  <2>1. PICK heard \in SUBSET Nodes :
          /\ learned = heard \cup newNodes
          /\ shortlist = heard \/ shortlist = Nearest(TraversalWidth, heard)
    BY <1>3 DEF IInv, NearestSoFar
  <2>2. learned' = heard \cup newNodes'
    BY <1>1, <2>1
  <2> QED BY <1>2, <2>1, <2>2 DEF NearestSoFar
<1> QED BY <1>1, <1>2, <1>3, <1>5, <1>6 DEF IInv, Collected, AskedOnce

LEMMA MergeKeeps == ASSUME IInv, Merge PROVE IInv'
<1>1. /\ inFlight = {} /\ newNodes # {}
      /\ shortlist' = Nearest(TraversalWidth, shortlist \cup newNodes)
      /\ newNodes' = {}
      /\ UNCHANGED <<running, queried, iter, inFlight, peers, emitted, learned, told, asked>>
  BY DEF Merge, histories
<1>2. running
  BY <1>1 DEF IInv, Collected
<1>3. shortlist \in SUBSET Nodes /\ newNodes \in SUBSET Nodes /\ learned \in SUBSET Nodes
  BY DEF IInv, TypeOK
<1>4. PICK heard \in SUBSET Nodes :
        /\ learned = heard \cup newNodes
        /\ shortlist = heard \/ shortlist = Nearest(TraversalWidth, heard)
  BY <1>2 DEF IInv, NearestSoFar
<1>5. shortlist' = Nearest(TraversalWidth, learned)
  <2>1. CASE shortlist = heard
    BY <1>1, <1>4, <2>1
  <2>2. CASE shortlist = Nearest(TraversalWidth, heard)
    <3>1. TraversalWidth \in Nat
      BY LookupBounds
    <3>2. Nearest(TraversalWidth, shortlist \cup newNodes) = Nearest(TraversalWidth, heard \cup newNodes)
      BY <1>3, <2>2, <3>1, TrimmingLosesNothing
    <3> QED BY <1>1, <1>4, <3>2
  <2> QED BY <1>4, <2>1, <2>2
<1>6. shortlist' \in SUBSET Nodes
  BY <1>3, <1>5 DEF Nearest
<1>7. TypeOK'
  BY <1>1, <1>6 DEF IInv, TypeOK
<1>8. NearestSoFar'
  BY <1>1, <1>3, <1>5 DEF NearestSoFar
<1> QED BY <1>1, <1>2, <1>7, <1>8 DEF IInv, Collected, AskedOnce

LEMMA EmitKeeps == ASSUME IInv, Emit PROVE IInv'
<1>1. /\ running /\ inFlight = {} /\ newNodes = {}
      /\ running' = FALSE /\ emitted' = peers
      /\ UNCHANGED <<shortlist, queried, iter, inFlight, newNodes, peers, learned, told, asked>>
  BY DEF Emit, Between, histories
<1> QED BY <1>1 DEF IInv, TypeOK, Collected, AskedOnce

LEMMA Keeps == IInv /\ [Next]_vars => IInv'
<1> SUFFICES ASSUME IInv, [Next]_vars PROVE IInv'
  OBVIOUS
<1>1. CASE UNCHANGED vars
  BY <1>1 DEF vars, histories, IInv, TypeOK, Collected, AskedOnce, NearestSoFar
<1>2. CASE Next
  BY <1>2, BeginKeeps, DispatchKeeps, ReturnKeeps, MergeKeeps, EmitKeeps DEF Next
<1> QED BY <1>1, <1>2

LEMMA Invariant == Spec => []IInv
BY Starts, Keeps, PTL DEF Spec

-----------------------------------------------------------------------------
(* The theorems about a lookup.                                            *)

\* However the responses arrive, the shortlist of a running lookup is, between two
\* iterations, the nearest of all the nodes heard of.
THEOREM NothingNearerIsLost == Spec => []ShortlistIsNearest
<1>1. ASSUME IInv PROVE ShortlistIsNearest
  <2>1. ASSUME running, inFlight = {}, newNodes = {}
        PROVE  shortlist = learned \/ shortlist = Nearest(TraversalWidth, learned)
    <3>1. PICK heard \in SUBSET Nodes :
            /\ learned = heard \cup newNodes
            /\ shortlist = heard \/ shortlist = Nearest(TraversalWidth, heard)
      BY <1>1, <2>1 DEF IInv, NearestSoFar
    <3>2. learned = heard
      BY <2>1, <3>1
    <3> QED BY <3>1, <3>2
  <2> QED BY <1>1, <2>1 DEF ShortlistIsNearest, IInv
<1> QED BY <1>1, Invariant, PTL

\* A lookup that is over has emitted every peer a response named.
THEOREM EveryPeerEmitted == Spec => []AllPeersEmitted
<1>1. IInv => AllPeersEmitted
  BY DEF IInv, Collected, AllPeersEmitted
<1> QED BY <1>1, Invariant, PTL

\* No lookup sends a node two queries, and one that ends because all are queried has sent
\* one to each of the nearest nodes it heard of.
THEOREM NearestAreAskedOnce == Spec => []NearestAskedOnce
<1>1. ASSUME IInv PROVE NearestAskedOnce
  <2>1. asked = [n \in Nodes |-> IF n \in queried THEN 1 ELSE 0]
    BY <1>1 DEF IInv, AskedOnce
  <2>2. \A n \in Nodes : asked[n] <= 1
    BY <2>1
  <2>3. ASSUME Between, shortlist \subseteq queried, NEW n \in Nearest(TraversalWidth, learned)
        PROVE  asked[n] = 1
    <3>1. PICK heard \in SUBSET Nodes :
            /\ learned = heard \cup newNodes
            /\ shortlist = heard \/ shortlist = Nearest(TraversalWidth, heard)
      BY <1>1, <2>3 DEF IInv, NearestSoFar, Between
    <3>2. learned = heard /\ n \in heard
      BY <2>3, <3>1 DEF Between, Nearest
    <3>3. n \in shortlist
      BY <2>3, <3>1, <3>2
    <3> QED BY <2>1, <2>3, <3>2, <3>3
  <2> QED BY <2>2, <2>3 DEF NearestAskedOnce
<1> QED BY <1>1, Invariant, PTL

-----------------------------------------------------------------------------
(* From the samples to the queue.                                          *)

\* What was accepted since the last rotation is in the active tier, what was accepted
\* since the one before in one of the two.
FilterRemembers ==
    \A h \in Hashes : /\ sinceAccepted[h] = 0 => h \in active
                      /\ sinceAccepted[h] = 1 => Known(h)

SampleIInv == SampleTypeOK /\ FilterRemembers

LEMMA RestOfResponse ==
    ASSUME NEW r \in Responses, r # <<>>
    PROVE  Head(r) \in Hashes /\ Tail(r) \in Responses
<1>1. PICK n \in 0 .. MaxSamples : r \in [1 .. n -> Hashes]
  BY DEF Responses
<1>2. MaxSamples \in Nat /\ n \in Nat
  BY SampleQueueAssumption
<1>3. r \in Seq(Hashes) /\ Len(r) = n
  BY <1>1, <1>2
<1>4. n \in 1 .. MaxSamples
  BY <1>2, <1>3
<1>5. Head(r) \in Hashes
  BY <1>3
<1>6. Tail(r) \in [1 .. (n - 1) -> Hashes] /\ n - 1 \in 0 .. MaxSamples
  <2>1. Tail(r) \in Seq(Hashes) /\ Len(Tail(r)) = n - 1
    BY <1>3
  <2>2. Tail(r) \in [1 .. (n - 1) -> Hashes]
    <3> DEFINE rest == Tail(r)
    <3> HIDE DEF rest
    <3>1. rest \in Seq(Hashes) /\ Len(rest) = n - 1
      BY <2>1 DEF rest
    <3>2. rest \in [1 .. Len(rest) -> Hashes]
      BY <3>1, LenProperties, Zenon
    <3> QED BY <3>1, <3>2 DEF rest
  <2> QED BY <1>2, <1>4, <2>2
<1> QED BY <1>5, <1>6 DEF Responses

LEMMA SampleStarts == SampleInit => SampleIInv
<1> SUFFICES ASSUME SampleInit PROVE SampleIInv
  OBVIOUS
<1>1. MaxSamples \in Nat /\ QueueCap \in Nat /\ EmitCap \in Nat
  BY SampleQueueAssumption
<1>2. <<>> \in Responses
  <2>1. <<>> \in [1 .. 0 -> Hashes] /\ 0 \in 0 .. MaxSamples
    BY <1>1
  <2> QED BY <2>1 DEF Responses
<1> QED BY <1>1, <1>2 DEF SampleInit, SampleIInv, SampleTypeOK, FilterRemembers

LEMMA IterateKeeps ==
    ASSUME SampleIInv, NEW c \in Crawlers, Iterate(c)
    PROVE  SampleIInv'
<1>1. /\ drops' = [drops EXCEPT ![c] = 0]
      /\ UNCHANGED <<filterVars, queue, sending, workerVars, sinceAccepted>>
  BY DEF Iterate
<1>2. todo' \in [Samplers -> Responses] /\ inBatch' \subseteq Samplers
  BY DEF Iterate, SampleIInv, SampleTypeOK
<1> QED BY <1>1, <1>2 DEF SampleIInv, SampleTypeOK, FilterRemembers, Known, filterVars, workerVars

LEMMA RefuseKeeps ==
    ASSUME SampleIInv, NEW s \in Samplers, Refuse(s)
    PROVE  SampleIInv'
<1>1. todo' \in [Samplers -> Responses]
  BY RestOfResponse DEF Refuse, SampleIInv, SampleTypeOK
<1> QED BY <1>1 DEF Refuse, SampleIInv, SampleTypeOK, FilterRemembers, Known, filterVars, workerVars

LEMMA AcceptKeeps ==
    ASSUME SampleIInv, NEW s \in Samplers, Accept(s)
    PROVE  SampleIInv' /\ sinceAccepted[Head(todo[s])] = 2 /\ Head(todo[s]) \in Hashes
<1> DEFINE h == Head(todo[s])
<1>1. todo' \in [Samplers -> Responses] /\ h \in Hashes
  BY RestOfResponse DEF Accept, SampleIInv, SampleTypeOK
<1>2. ~ Known(h) /\ active' = active \cup {h} /\ sending' = [sending EXCEPT ![s] = h]
      /\ sinceAccepted' = [sinceAccepted EXCEPT ![h] = 0]
      /\ UNCHANGED <<previous, queue, drops, inBatch, workerVars>>
  BY DEF Accept
<1> HIDE DEF h
<1>3. SampleTypeOK'
  BY <1>1, <1>2 DEF SampleIInv, SampleTypeOK, workerVars
<1>4. FilterRemembers'
  BY <1>1, <1>2 DEF SampleIInv, SampleTypeOK, FilterRemembers, Known
<1>5. sinceAccepted[h] = 2
  <2>1. sinceAccepted[h] \in 0 .. 2 /\ sinceAccepted[h] # 0 /\ sinceAccepted[h] # 1
    BY <1>1, <1>2 DEF SampleIInv, SampleTypeOK, FilterRemembers, Known
  <2> QED BY <2>1
<1> QED BY <1>1, <1>3, <1>4, <1>5 DEF SampleIInv, h

LEMMA QueuedFits ==
    ASSUME SampleIInv, Room, NEW h \in Hashes
    PROVE  Append(queue, h) \in Seq(Hashes) /\ Len(Append(queue, h)) <= QueueCap
<1>1. queue \in Seq(Hashes) /\ Len(queue) < QueueCap /\ QueueCap \in Nat
  BY SampleQueueAssumption DEF SampleIInv, SampleTypeOK, Room
<1> QED BY <1>1

LEMMA SendKeeps ==
    ASSUME SampleIInv, NEW s \in Samplers, Send(s) \/ TimeOut(s)
    PROVE  SampleIInv' /\ sending' = [sending EXCEPT ![s] = None]
<1>1. /\ sending[s] \in Hashes /\ sending' = [sending EXCEPT ![s] = None]
      /\ UNCHANGED <<filterVars, inBatch, todo, workerVars, sinceAccepted>>
      /\ (queue' = Append(queue, sending[s]) /\ Room) \/ queue' = queue
  BY DEF Send, TimeOut, SampleIInv, SampleTypeOK
<1>2. queue' \in Seq(Hashes) /\ Len(queue') <= QueueCap
  BY <1>1, QueuedFits DEF SampleIInv, SampleTypeOK
<1>3. drops' \in [Crawlers -> Nat]
  BY SampleQueueAssumption DEF Send, TimeOut, SampleIInv, SampleTypeOK
<1> QED BY <1>1, <1>2, <1>3 DEF SampleIInv, SampleTypeOK, FilterRemembers, Known, filterVars, workerVars

LEMMA SamplerReturnsKeeps ==
    ASSUME SampleIInv, NEW s \in Samplers, SamplerReturns(s)
    PROVE  SampleIInv'
BY DEF SamplerReturns, SampleIInv, SampleTypeOK, FilterRemembers, Known, filterVars, workerVars

LEMMA RotateKeeps == SampleIInv /\ Rotate => SampleIInv'
<1> SUFFICES ASSUME SampleIInv, Rotate PROVE SampleIInv'
  OBVIOUS
<1>1. previous' = active /\ active' = {} /\ sinceAccepted' = Older(sinceAccepted)
      /\ UNCHANGED <<queue, samplerVars, workerVars>>
  BY DEF Rotate
<1>2. /\ sinceAccepted' \in [Hashes -> 0 .. 2]
      /\ \A h \in Hashes : sinceAccepted'[h] # 0 /\ (sinceAccepted'[h] = 1 => sinceAccepted[h] = 0)
  <2>1. \A h \in Hashes :
          /\ sinceAccepted[h] \in 0 .. 2
          /\ sinceAccepted'[h] = IF sinceAccepted[h] < 2 THEN sinceAccepted[h] + 1 ELSE 2
    BY <1>1 DEF Older, SampleIInv, SampleTypeOK
  <2>2. sinceAccepted' = [h \in Hashes |-> sinceAccepted'[h]]
    BY <1>1 DEF Older
  <2>3. \A h \in Hashes : /\ sinceAccepted'[h] \in 0 .. 2 /\ sinceAccepted'[h] # 0
                          /\ (sinceAccepted'[h] = 1 => sinceAccepted[h] = 0)
    BY <2>1
  <2>4. sinceAccepted' \in [Hashes -> 0 .. 2]
    BY <2>2, <2>3, Zenon
  <2> QED BY <2>3, <2>4
<1> QED BY <1>1, <1>2 DEF SampleIInv, SampleTypeOK, FilterRemembers, Known, samplerVars, workerVars

LEMMA WorkerKeeps ==
    ASSUME SampleIInv, (\E w \in Workers : Take(w) \/ Finish(w)) \/ Consume
    PROVE  SampleIInv'
<1>1. UNCHANGED <<filterVars, samplerVars, sinceAccepted>>
  BY DEF Take, Finish, Consume, samplerVars
<1>2. EmitCap \in Nat /\ QueueCap \in Nat
  BY SampleQueueAssumption
<1>3. /\ queue' \in Seq(Hashes) /\ Len(queue') <= QueueCap
      /\ busy' \in [Workers -> Hashes \cup {None}]
      /\ discovered' \in Seq(Hashes) /\ Len(discovered') <= EmitCap
  <2>1. CASE \E w \in Workers : Take(w)
    BY <1>2, <2>1 DEF Take, SampleIInv, SampleTypeOK
  <2>2. CASE \E w \in Workers : Finish(w)
    <3>1. PICK w \in Workers : Finish(w)
      BY <2>2
    <3>2. busy[w] \in Hashes
      BY <3>1 DEF Finish, SampleIInv, SampleTypeOK
    <3>3. queue' = queue /\ busy' = [busy EXCEPT ![w] = None]
          /\ (discovered' = discovered \/ (Len(discovered) < EmitCap /\ discovered' = Append(discovered, busy[w])))
      BY <3>1 DEF Finish
    <3>4. discovered' \in Seq(Hashes) /\ Len(discovered') <= EmitCap
      <4>1. discovered \in Seq(Hashes) /\ Len(discovered) \in Nat /\ Len(discovered) <= EmitCap
        BY DEF SampleIInv, SampleTypeOK
      <4>2. CASE discovered' = discovered
        BY <4>1, <4>2
      <4>3. CASE Len(discovered) < EmitCap /\ discovered' = Append(discovered, busy[w])
        BY <1>2, <3>2, <4>1, <4>3
      <4> QED BY <3>3, <4>2, <4>3
    <3> QED BY <3>3, <3>4 DEF SampleIInv, SampleTypeOK
  <2>3. CASE Consume
    BY <1>2, <2>3 DEF Consume, SampleIInv, SampleTypeOK
  <2> QED BY <2>1, <2>2, <2>3
<1> QED BY <1>1, <1>3 DEF SampleIInv, SampleTypeOK, FilterRemembers, Known, filterVars, samplerVars

LEMMA AnnounceKeeps ==
    ASSUME SampleIInv, NEW h \in Hashes, Announce(h)
    PROVE  SampleIInv'
<1>1. /\ active' = active \cup {h} /\ sinceAccepted' = [sinceAccepted EXCEPT ![h] = 0]
      /\ UNCHANGED <<previous, queue, samplerVars, busy>>
  BY DEF Announce
<1>2. discovered' \in Seq(Hashes) /\ Len(discovered') <= EmitCap
  <2>1. EmitCap \in Nat
    BY SampleQueueAssumption
  <2> QED BY <2>1 DEF Announce, SampleIInv, SampleTypeOK
<1>3. SampleTypeOK'
  BY <1>1, <1>2 DEF SampleIInv, SampleTypeOK, samplerVars
<1>4. FilterRemembers'
  BY <1>1 DEF SampleIInv, SampleTypeOK, FilterRemembers, Known
<1> QED BY <1>3, <1>4 DEF SampleIInv

\* Only Accept has a goroutine send another infohash, one that was not accepted lately.
LEMMA SampleStep ==
    ASSUME SampleIInv, [SampleNext]_sampleVars
    PROVE  /\ SampleIInv'
           /\ \A h \in Hashes, s \in Samplers :
                sending[s] # h /\ sending'[s] = h => sinceAccepted[h] = 2
<1> DEFINE Claim == /\ SampleIInv'
                    /\ \A h \in Hashes, s \in Samplers :
                         sending[s] # h /\ sending'[s] = h => sinceAccepted[h] = 2
<1>1. CASE \E c \in Crawlers : Iterate(c)
  BY <1>1, IterateKeeps DEF Iterate
<1>2. CASE \E s \in Samplers : Refuse(s) \/ SamplerReturns(s)
  BY <1>2, RefuseKeeps, SamplerReturnsKeeps DEF Refuse, SamplerReturns
<1>3. ASSUME NEW s \in Samplers, Accept(s) PROVE Claim
  <2>1. SampleIInv' /\ sinceAccepted[Head(todo[s])] = 2
    BY <1>3, AcceptKeeps
  <2>2. sending' = [sending EXCEPT ![s] = Head(todo[s])] /\ sending \in [Samplers -> Hashes \cup {None}]
    BY <1>3 DEF Accept, SampleIInv, SampleTypeOK
  <2> QED BY <2>1, <2>2
<1>4. ASSUME NEW s \in Samplers, Send(s) \/ TimeOut(s) PROVE Claim
  <2>1. SampleIInv' /\ sending' = [sending EXCEPT ![s] = None]
    BY <1>4, SendKeeps
  <2>2. sending \in [Samplers -> Hashes \cup {None}] /\ None \notin Hashes
    BY SampleQueueAssumption DEF SampleIInv, SampleTypeOK
  <2> QED BY <2>1, <2>2
<1>5. CASE Rotate \/ (\E w \in Workers : Take(w) \/ Finish(w)) \/ Consume
  BY <1>5, RotateKeeps, WorkerKeeps DEF Rotate, Take, Finish, Consume, samplerVars
<1>6. CASE \E h \in Hashes : Announce(h)
  BY <1>6, AnnounceKeeps DEF Announce, samplerVars
<1>7. CASE UNCHANGED sampleVars
  BY <1>7 DEF sampleVars, filterVars, samplerVars, workerVars, SampleIInv, SampleTypeOK,
              FilterRemembers, Known
<1>8. CASE \E s \in Samplers : Sampling(s)
  BY <1>2, <1>3, <1>4, <1>8 DEF Sampling
<1> QED BY <1>1, <1>5, <1>6, <1>7, <1>8 DEF SampleNext

\* For any number of crawlers, goroutines and infohashes, whenever the filter rotates: no
\* infohash is accepted twice within two rotations (processSamples, SeenOrAdd, Rotate).
THEOREM AcceptedOnce == SampleSpec => AcceptedOncePerTwoRotations
<1>1. SampleIInv => SampleTypeOK
  BY DEF SampleIInv
<1>2. SampleIInv /\ [SampleNext]_sampleVars => SampleIInv'
  BY SampleStep
<1>3. SampleIInv /\ [SampleNext]_sampleVars =>
        [\A h \in Hashes, s \in Samplers :
            sending[s] # h /\ sending'[s] = h => sinceAccepted[h] = 2]_sampleVars
  BY SampleStep
<1> QED BY <1>1, <1>2, <1>3, SampleStarts, PTL DEF SampleSpec, AcceptedOncePerTwoRotations

=============================================================================
