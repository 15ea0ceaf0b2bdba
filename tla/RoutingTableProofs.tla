------------------------- MODULE RoutingTableProofs -------------------------
(***************************************************************************)
(* The invariants of RoutingTable, for every keyspace, peer set, bucket    *)
(* size and failure threshold, and its refinement of NodeRegistry.  They   *)
(* follow from one inductive invariant: the buckets tile the keyspace from *)
(* left to right (Tiled) and each bucket on its own is in order (InOrder). *)
(***************************************************************************)
EXTENDS RoutingTable, FiniteSetTheorems, FunctionTheorems, SequenceTheorems,
        WellFoundedInduction, TLAPS

-----------------------------------------------------------------------------
(* Least and greatest elements.                                            *)

\* A nonempty set of indices has a greatest element.  Among the sets of indices
\* at or above one of its members, a smallest one belongs to the greatest member.
LEMMA GreatestIndex ==
    ASSUME NEW n \in Nat, NEW T \in SUBSET (1..n), T # {}
    PROVE  \E m \in T : \A j \in T : j <= m
<1> DEFINE Above(i) == {j \in T : j >= i}
           Tails == {Above(i) : i \in T}
           R == StrictSubsetOrdering(1..n)
<1>1. IsFiniteSet(1..n)
  BY FS_Interval
<1>2. FiniteSubsetsOf(1..n) = SUBSET (1..n)
  BY <1>1, FS_FiniteSubsetsOfFinite
<1>3. IsWellFoundedOn(R, SUBSET (1..n))
  BY <1>2, FS_StrictSubsetOrderingWellFounded
<1>4. Tails \subseteq SUBSET (1..n) /\ Tails # {}
  OBVIOUS
<1>5. PICK A \in Tails : \A B \in Tails : <<B, A>> \notin R
  <2> HIDE DEF Tails, R
  <2> QED BY <1>3, <1>4, WFMin
<1>6. PICK m \in T : A = Above(m)
  BY <1>5
<1> HIDE DEF Tails, R
<1>7. ASSUME NEW j \in T, j > m PROVE FALSE
  <2>0. \A i \in T : i \in Int
    OBVIOUS
  <2>1. m \in Int /\ j \in Int
    BY <2>0
  <2>4. m \in A
    BY <1>6, <2>1
  <2>5. m \notin Above(j)
    BY <1>7, <2>1
  <2>6. Above(j) \subseteq A
    <3>1. SUFFICES ASSUME NEW x \in T, x >= j PROVE x >= m
      BY <1>6
    <3> QED BY <1>7, <2>0, <2>1, <3>1
  <2>2. Above(j) \in SUBSET (1..n) /\ A \in SUBSET (1..n) /\ Above(j) # A
    BY <2>4, <2>5, <1>6
  <2>3. <<Above(j), A>> \in R
    BY <2>6, <2>2 DEF StrictSubsetOrdering, R
  <2> QED BY <2>3, <1>5 DEF Tails
<1> QED BY <1>7

\* A nonempty set of indices has a least element.
LEMMA LeastIndex ==
    ASSUME NEW n \in Nat, NEW T \in SUBSET (1..n), T # {}
    PROVE  \E m \in T : \A j \in T : m <= j
<1> DEFINE Mirror == {i \in 1..n : n + 1 - i \in T}
<1>1. PICK t \in T : TRUE
  OBVIOUS
<1>2. n + 1 - t \in Mirror
  BY <1>1
<1>3. PICK m \in Mirror : \A j \in Mirror : j <= m
  <2> HIDE DEF Mirror
  <2>1. Mirror \in SUBSET (1..n)
    BY DEF Mirror
  <2> QED BY <1>2, <2>1, GreatestIndex
<1>4. ASSUME NEW j \in T PROVE n + 1 - m <= j
  <2>1. n + 1 - j \in Mirror
    BY <1>4
  <2> QED BY <2>1, <1>3
<1> QED BY <1>3, <1>4

-----------------------------------------------------------------------------
(* Lists of nodes.                                                         *)

\* No two entries of s have the same ID.
Distinct(s) == \A i, j \in DOMAIN s : s[i].id = s[j].id => i = j

\* No entry of s is bad.
Healthy(s) == \A i \in DOMAIN s : ~ IsBad(s[i])

\* Every entry of t is an entry of s, and no entry of s is taken twice.
Extracted(t, s) ==
    /\ t \in Seq(Node)
    /\ Len(t) <= Len(s)
    /\ \E f \in [DOMAIN t -> DOMAIN s] :
         /\ \A i, j \in DOMAIN t : f[i] = f[j] => i = j
         /\ \A i \in DOMAIN t : t[i] = s[f[i]]

\* What holds of the entries of a list holds of any extract of it.
LEMMA ExtractedKeeps ==
    ASSUME NEW s \in Seq(Node), NEW t, Extracted(t, s)
    PROVE  /\ IdsOf(t) \subseteq IdsOf(s)
           /\ Distinct(s) => Distinct(t)
           /\ Healthy(s) => Healthy(t)
BY DEF Extracted, IdsOf, Distinct, Healthy

\* A scan for an ID that is in the list finds an entry for it.
LEMMA PosFinds ==
    ASSUME NEW s \in Seq(Node), NEW id \in IdsOf(s)
    PROVE  Pos(s, id) \in DOMAIN s /\ s[Pos(s, id)].id = id
<1> DEFINE hits == {i \in 1..Len(s) : s[i].id = id}
<1>1. Len(s) \in Nat /\ DOMAIN s = 1..Len(s)
  BY LenProperties
<1>2. PICK m \in hits : \A j \in hits : m <= j
  <2>1. hits # {} /\ hits \in SUBSET (1..Len(s))
    BY <1>1 DEF IdsOf
  <2> HIDE DEF hits
  <2> QED BY <1>1, <2>1, LeastIndex
<1>3. m \in DOMAIN s /\ s[m].id = id /\ \A j \in 1..(m-1) : s[j].id # id
  BY <1>1, <1>2
<1> QED BY <1>3 DEF Pos

\* Refreshing an entry changes no ID and makes no entry bad.
LEMMA RefreshedKeeps ==
    ASSUME NEW s \in Seq(Node), NEW id \in IdsOf(s)
    PROVE  /\ Refreshed(s, id) \in Seq(Node)
           /\ Len(Refreshed(s, id)) = Len(s)
           /\ IdsOf(Refreshed(s, id)) = IdsOf(s)
           /\ Distinct(s) => Distinct(Refreshed(s, id))
           /\ Healthy(s) => Healthy(Refreshed(s, id))
<1> DEFINE p == Pos(s, id)
           new == [s[p] EXCEPT !.failures = 0]
<1>1. p \in 1..Len(s) /\ DOMAIN s = 1..Len(s) /\ s[p] \in Node
  BY PosFinds, LenProperties, ElementOfSeq
<1>2. new \in Node /\ new.id = s[p].id /\ ~ IsBad(new)
  BY <1>1, TableAssumption DEF Node, IsBad
<1>3. Refreshed(s, id) = [s EXCEPT ![p] = new]
  BY DEF Refreshed
<1> HIDE DEF p, new
<1>4. /\ Refreshed(s, id) \in Seq(Node)
      /\ Len(Refreshed(s, id)) = Len(s)
      /\ DOMAIN Refreshed(s, id) = DOMAIN s
      /\ \A j \in DOMAIN s : Refreshed(s, id)[j] = IF j = p THEN new ELSE s[j]
  BY <1>1, <1>2, <1>3, ExceptSeq, LenProperties
<1>5. \A j \in DOMAIN s : Refreshed(s, id)[j].id = s[j].id
  BY <1>2, <1>4
<1>6. IdsOf(Refreshed(s, id)) = IdsOf(s)
  BY <1>4, <1>5 DEF IdsOf
<1> QED BY <1>2, <1>4, <1>5, <1>6 DEF Distinct, Healthy

\* Counting a failure changes no ID; the list stays healthy unless the counted
\* entry itself turned bad.
LEMMA FailedKeeps ==
    ASSUME NEW s \in Seq(Node), NEW id \in IdsOf(s)
    PROVE  LET t == Failed(s, id) IN
           /\ t \in Seq(Node)
           /\ Len(t) = Len(s)
           /\ IdsOf(t) = IdsOf(s)
           /\ Distinct(s) => Distinct(t)
           /\ Healthy(s) /\ Distinct(s) /\ ~ IsBad(t[Pos(t, id)]) => Healthy(t)
<1> DEFINE p == Pos(s, id)
           new == [s[p] EXCEPT !.failures = @ + 1]
           t == Failed(s, id)
<1>1. p \in 1..Len(s) /\ DOMAIN s = 1..Len(s) /\ s[p] \in Node /\ s[p].id = id
  BY PosFinds, LenProperties, ElementOfSeq
<1>2. new \in Node /\ new.id = s[p].id
  BY <1>1 DEF Node
<1>3. t = [s EXCEPT ![p] = new]
  BY DEF Failed
<1> HIDE DEF p, new, t
<1>4. /\ t \in Seq(Node)
      /\ Len(t) = Len(s)
      /\ DOMAIN t = DOMAIN s
      /\ \A j \in DOMAIN s : t[j] = IF j = p THEN new ELSE s[j]
  BY <1>1, <1>2, <1>3, ExceptSeq, LenProperties
<1>5. \A j \in DOMAIN s : t[j].id = s[j].id
  BY <1>2, <1>4
<1>6. IdsOf(t) = IdsOf(s)
  BY <1>4, <1>5 DEF IdsOf
<1>7. ASSUME Healthy(s), Distinct(s), ~ IsBad(t[Pos(t, id)])
      PROVE  Healthy(t)
  <2>1. Pos(t, id) \in DOMAIN t /\ t[Pos(t, id)].id = id
    BY <1>4, <1>6, PosFinds
  <2>2. Pos(t, id) = p
    BY <1>1, <1>4, <1>5, <1>7, <2>1 DEF Distinct
  <2> QED BY <1>4, <1>7, <2>2 DEF Healthy
<1>8. Distinct(s) => Distinct(t)
  BY <1>4, <1>5 DEF Distinct
<1> QED BY <1>4, <1>6, <1>7, <1>8 DEF t

\* Removing an entry extracts the others.
LEMMA WithoutExtracts ==
    ASSUME NEW s \in Seq(Node), NEW id \in IdsOf(s)
    PROVE  /\ Extracted(Without(s, id), s)
           /\ Len(Without(s, id)) = Len(s) - 1
           /\ Distinct(s) => id \notin IdsOf(Without(s, id))
<1> DEFINE p == Pos(s, id)
           f == [i \in 1..(Len(s) - 1) |-> IF i < p THEN i ELSE i + 1]
           t == Without(s, id)
<1>1. p \in 1..Len(s) /\ DOMAIN s = 1..Len(s) /\ Len(s) \in Nat /\ s[p].id = id
  BY PosFinds, LenProperties
<1>2. t = [i \in 1..(Len(s) - 1) |-> s[f[i]]]
  BY <1>1 DEF Without
<1>3. f \in [1..(Len(s) - 1) -> (DOMAIN s) \ {p}]
  BY <1>1
<1>4. \A i, j \in 1..(Len(s) - 1) : f[i] = f[j] => i = j
  BY <1>1
<1> HIDE DEF p, f, t
<1>5. \A i \in 1..(Len(s) - 1) : f[i] \in DOMAIN s /\ f[i] # p /\ s[f[i]] \in Node
  BY <1>1, <1>3, ElementOfSeq
<1>6. t \in Seq(Node) /\ Len(t) = Len(s) - 1 /\ DOMAIN t = 1..(Len(s) - 1)
  BY <1>1, <1>2, <1>5
<1>7. Extracted(t, s)
  BY <1>1, <1>2, <1>3, <1>4, <1>6 DEF Extracted
<1>8. ASSUME Distinct(s) PROVE id \notin IdsOf(t)
  BY <1>1, <1>2, <1>5, <1>6, <1>8 DEF Distinct, IdsOf
<1> QED BY <1>6, <1>7, <1>8 DEF t

\* Appending a healthy node with a new ID.
LEMMA AppendKeeps ==
    ASSUME NEW s \in Seq(Node), NEW n \in Node
    PROVE  /\ Append(s, n) \in Seq(Node)
           /\ Len(Append(s, n)) = Len(s) + 1
           /\ IdsOf(Append(s, n)) = IdsOf(s) \cup {n.id}
           /\ Distinct(s) /\ n.id \notin IdsOf(s) => Distinct(Append(s, n))
           /\ Healthy(s) /\ ~ IsBad(n) => Healthy(Append(s, n))
<1> DEFINE t == Append(s, n)
<1>1. /\ t \in Seq(Node) /\ Len(t) = Len(s) + 1
      /\ DOMAIN t = 1..(Len(s) + 1) /\ DOMAIN s = 1..Len(s) /\ Len(s) \in Nat
      /\ \A i \in 1..Len(s) : t[i] = s[i]
      /\ t[Len(s) + 1] = n
  BY AppendProperties, LenProperties
<1> HIDE DEF t
<1>2. IdsOf(t) = IdsOf(s) \cup {n.id}
  <2>1. \A i \in DOMAIN s : i \in DOMAIN t /\ t[i].id = s[i].id
    BY <1>1
  <2>2. \A i \in DOMAIN t : i \in DOMAIN s \/ i = Len(s) + 1
    BY <1>1
  <2>3. Len(s) + 1 \in DOMAIN t
    BY <1>1
  <2> QED BY <1>1, <2>1, <2>2, <2>3 DEF IdsOf
<1>3. Distinct(s) /\ n.id \notin IdsOf(s) => Distinct(t)
  BY <1>1 DEF Distinct, IdsOf
<1>4. Healthy(s) /\ ~ IsBad(n) => Healthy(t)
  BY <1>1 DEF Healthy
<1> QED BY <1>1, <1>2, <1>3, <1>4 DEF t

\* Taking the oldest candidate extracts the others.
LEMMA TailExtracts ==
    ASSUME NEW s \in Seq(Node), s # <<>>
    PROVE  /\ Head(s) \in Node /\ Head(s).id \in IdsOf(s)
           /\ Healthy(s) => ~ IsBad(Head(s))
           /\ Extracted(Tail(s), s)
           /\ Len(Tail(s)) = Len(s) - 1
           /\ Distinct(s) => Head(s).id \notin IdsOf(Tail(s))
<1> DEFINE t == Tail(s)
           f == [i \in 1..(Len(s) - 1) |-> i + 1]
<1>1. Len(s) \in Nat \ {0} /\ DOMAIN s = 1..Len(s) /\ 1 \in DOMAIN s
  BY EmptySeq, LenProperties
<1>2. Head(s) = s[1] /\ s[1] \in Node
  BY <1>1, ElementOfSeq
<1>3. /\ t \in Seq(Node) /\ Len(t) = Len(s) - 1 /\ DOMAIN t = 1..(Len(s) - 1)
      /\ \A i \in DOMAIN t : t[i] = s[i + 1]
  BY <1>1, HeadTailProperties, LenProperties
<1> HIDE DEF t
<1>4. Extracted(t, s)
  <2>1. f \in [DOMAIN t -> DOMAIN s]
    BY <1>1, <1>3
  <2>2. \A i \in DOMAIN t : t[i] = s[f[i]]
    BY <1>1, <1>3
  <2>3. \A i, j \in DOMAIN t : f[i] = f[j] => i = j
    BY <1>1, <1>3
  <2> HIDE DEF f
  <2> QED BY <1>1, <1>3, <2>1, <2>2, <2>3 DEF Extracted
<1>5. Distinct(s) => Head(s).id \notin IdsOf(t)
  BY <1>1, <1>2, <1>3 DEF Distinct, IdsOf
<1> QED BY <1>1, <1>2, <1>3, <1>4, <1>5 DEF t, IdsOf, Healthy

\* Filtering by ID extracts exactly the entries whose ID is wanted.
LEMMA KeptExtracts ==
    ASSUME NEW s \in Seq(Node), NEW S
    PROVE  /\ Extracted(Kept(s, S), s)
           /\ IdsOf(Kept(s, S)) \subseteq S
           /\ \A i \in DOMAIN s :
                s[i].id \in S => \E n \in DOMAIN Kept(s, S) : Kept(s, S)[n] = s[i]
<1> DEFINE keep == {i \in DOMAIN s : s[i].id \in S}
           upto(i) == {j \in keep : j <= i}
           rank == [i \in keep |-> Cardinality(upto(i))]
           size == Cardinality(keep)
           f == [n \in 1..size |-> CHOOSE i \in keep : Cardinality(upto(i)) = n]
<1>1. Len(s) \in Nat /\ DOMAIN s = 1..Len(s) /\ IsFiniteSet(DOMAIN s) /\ Cardinality(DOMAIN s) = Len(s)
  <2>1. Len(s) \in Nat /\ DOMAIN s = 1..Len(s)
    BY LenProperties
  <2> DEFINE n == Len(s)
  <2> HIDE DEF n
  <2>2. n \in Nat => IsFiniteSet(1..n) /\ Cardinality(1..n) = n
    BY FS_Interval
  <2> QED BY <2>1, <2>2 DEF n
<1>2. IsFiniteSet(keep) /\ size \in Nat /\ size <= Len(s)
  <2>1. keep \in SUBSET (DOMAIN s)
    OBVIOUS
  <2> HIDE DEF keep
  <2>2. IsFiniteSet(keep) /\ Cardinality(keep) <= Len(s)
    BY <1>1, <2>1, FS_Subset
  <2> QED BY <2>2, FS_CardinalityType
<1>3. \A i \in keep : IsFiniteSet(upto(i)) /\ Cardinality(upto(i)) \in 1..size
  <2> SUFFICES ASSUME NEW i \in keep
               PROVE  IsFiniteSet(upto(i)) /\ Cardinality(upto(i)) \in 1..size
    OBVIOUS
  <2>1. upto(i) \in SUBSET keep /\ i \in upto(i)
    BY <1>1
  <2> HIDE DEF keep, upto
  <2>2. IsFiniteSet(upto(i)) /\ Cardinality(upto(i)) <= Cardinality(keep)
    BY <1>2, <2>1, FS_Subset
  <2>3. Cardinality(upto(i)) \in Nat /\ Cardinality(upto(i)) # 0
    <3>1. upto(i) # {}
      BY <2>1
    <3> QED BY <3>1, <2>2, FS_CardinalityType, FS_EmptySet
  <2> QED BY <1>2, <2>2, <2>3
<1>4. \A i, j \in keep : i < j => rank[i] # rank[j]
  <2> SUFFICES ASSUME NEW i \in keep, NEW j \in keep, i < j,
                      Cardinality(upto(i)) = Cardinality(upto(j))
               PROVE  FALSE
    OBVIOUS
  <2>1. upto(i) \in SUBSET upto(j)
    BY <1>1
  <2>2. j \in upto(j) /\ j \notin upto(i)
    BY <1>1
  <2> HIDE DEF keep, upto
  <2> QED BY <1>3, <2>1, <2>2, FS_Subset
<1>5. \A n \in 1..size : \E i \in keep : Cardinality(upto(i)) = n
  <2>1. rank \in [keep -> 1..size]
    BY <1>3
  <2>2. \A i, j \in keep : rank[i] = rank[j] => i = j
    <3>1. \A i \in keep : i \in Int
      BY <1>1
    <3> HIDE DEF keep, rank
    <3> QED BY <3>1, <1>4
  <2>3. IsFiniteSet(1..size) /\ Cardinality(1..size) = size
    BY <1>2, FS_Interval
  <2>4. \A n \in 1..size : \E i \in keep : rank[i] = n
    <3> HIDE DEF keep, rank
    <3>1. rank \in Injection(keep, 1..size)
      BY <2>1, <2>2, Fun_IsInj
    <3>2. rank \in Surjection(keep, 1..size)
      BY <3>1, <2>3, FS_Injection
    <3> QED BY <3>2, Fun_SurjectionProperties
  <2> QED BY <2>4
<1>6. /\ f \in [1..size -> keep]
      /\ \A n \in 1..size : Cardinality(upto(f[n])) = n
  BY <1>5
<1>7. Kept(s, S) = [n \in 1..size |-> s[f[n]]]
  BY DEF Kept
<1>8. \A i \in keep : \E n \in 1..size : f[n] = i
  <2> SUFFICES ASSUME NEW i \in keep PROVE \E n \in 1..size : f[n] = i
    OBVIOUS
  <2>1. Cardinality(upto(i)) \in 1..size
    BY <1>3
  <2>2. /\ f[Cardinality(upto(i))] \in keep
        /\ rank[f[Cardinality(upto(i))]] = Cardinality(upto(i))
        /\ rank[i] = Cardinality(upto(i))
    BY <1>6, <2>1
  <2>3. \A j, k \in keep : rank[j] = rank[k] => j = k
    <3>1. \A j \in keep : j \in Int
      BY <1>1
    <3> HIDE DEF keep, rank
    <3> QED BY <3>1, <1>4
  <2> HIDE DEF keep, rank, f, upto, size
  <2> QED BY <2>1, <2>2, <2>3
<1> HIDE DEF size, f, upto
<1>9. \A n \in 1..size : f[n] \in DOMAIN s /\ s[f[n]].id \in S /\ s[f[n]] \in Node
  BY <1>1, <1>6, ElementOfSeq
<1>10. Kept(s, S) \in Seq(Node) /\ Len(Kept(s, S)) = size /\ DOMAIN Kept(s, S) = 1..size
  BY <1>2, <1>7, <1>9
<1>11. \A m, n \in 1..size : f[m] = f[n] => m = n
  BY <1>6
<1>12. f \in [1..size -> DOMAIN s]
  BY <1>6, <1>9
<1>13. \A n \in 1..size : Kept(s, S)[n] = s[f[n]]
  BY <1>7
<1>14. IdsOf(Kept(s, S)) \subseteq S
  BY <1>9, <1>10, <1>13 DEF IdsOf
<1>15. \A i \in DOMAIN s :
         s[i].id \in S => \E n \in DOMAIN Kept(s, S) : Kept(s, S)[n] = s[i]
  <2> SUFFICES ASSUME NEW i \in DOMAIN s, s[i].id \in S
               PROVE  \E n \in DOMAIN Kept(s, S) : Kept(s, S)[n] = s[i]
    OBVIOUS
  <2>1. i \in keep
    BY <1>1
  <2> HIDE DEF keep
  <2>2. PICK n \in 1..size : f[n] = i
    BY <1>8, <2>1
  <2> QED BY <1>10, <1>13, <2>2
<1> HIDE DEF keep
<1>16. Extracted(Kept(s, S), s)
  <2> DEFINE t == Kept(s, S)
  <2>1. t \in Seq(Node) /\ Len(t) <= Len(s) /\ DOMAIN t = 1..size
    BY <1>2, <1>10
  <2>2. \A n \in DOMAIN t : t[n] = s[f[n]]
    BY <1>13, <2>1
  <2> HIDE DEF t, rank
  <2>3. f \in [DOMAIN t -> DOMAIN s]
    BY <1>12, <2>1
  <2>4. \A i, j \in DOMAIN t : f[i] = f[j] => i = j
    BY <1>11, <2>1
  <2>5. Extracted(t, s)
    BY <2>1, <2>2, <2>3, <2>4 DEF Extracted
  <2> QED BY <2>5 DEF t
<1> QED BY <1>14, <1>16, <1>15


-----------------------------------------------------------------------------
(* What the inductive invariant says of the buckets.                       *)

\* The first ID after the range of b.
End(b) == b.min + Span[b.depth]

\* The buckets lie side by side from the first ID to the last.
Tiled(bs) ==
    /\ Len(bs) >= 1
    /\ bs[1].min = 0
    /\ End(bs[Len(bs)]) = Span[0]
    /\ \A i \in 1..(Len(bs) - 1) : bs[i + 1].min = End(bs[i])
    /\ \A i, j \in 1..Len(bs) : i < j => End(bs[i]) <= bs[j].min

\* The bounds of b agree, its lists fit, and its entries belong to it.
RangeOK(b) ==
    /\ End(b) <= Span[0]
    /\ b.max = IF End(b) = Span[0] THEN 0 ELSE End(b)

ListOK(b, s) ==
    /\ Len(s) <= K
    /\ Distinct(s)
    /\ Healthy(s)
    /\ \A id \in IdsOf(s) : b.min <= id /\ id < End(b)

InOrder(b) ==
    /\ RangeOK(b)
    /\ ListOK(b, b.nodes)
    /\ ListOK(b, b.cache)
    /\ IdsOf(b.nodes) \cap IdsOf(b.cache) = {}
    /\ b.cache # <<>> => IsFull(b) /\ ~ Contains(b, Self)

IInv ==
    /\ TypeOK
    /\ Tiled(buckets)
    /\ \A i \in DOMAIN buckets : InOrder(buckets[i])

-----------------------------------------------------------------------------
(* The keyspace and the buckets in it.                                     *)

\* Splitting halves the span.
LEMMA SpanFacts ==
    /\ \A d \in 0..W : Span[d] \in Nat \ {0}
    /\ \A d \in 0..W : d < W => d + 1 \in 0..W /\ Span[d] = Span[d + 1] + Span[d + 1]
    /\ 0 \in 0..W /\ W \in Nat
<1>1. ASSUME NEW d \in 0..W, d < W
      PROVE  d + 1 \in 1..W /\ Span[d] = Span[d + 1] + Span[d + 1]
  <2>1. d + 1 \in 1..W /\ (d + 1) - 1 = d
    BY <1>1, KeyspaceAssumption
  <2>2. Span[(d + 1) - 1] = 2 * Span[d + 1]
    BY <2>1, KeyspaceAssumption
  <2> QED BY <2>1, <2>2, KeyspaceAssumption
<1> QED BY <1>1, KeyspaceAssumption

\* A bucket starts at an ID and is not empty.
LEMMA BucketNumbers ==
    ASSUME NEW b \in Bucket
    PROVE  b.min \in Nat /\ Span[b.depth] \in Nat \ {0} /\ End(b) \in Nat /\ b.min < End(b)
BY SpanFacts DEF IDs, Bucket, End

\* Contains tests membership in the range, the zero Max included.
LEMMA ContainsMeans ==
    ASSUME NEW b \in Bucket, RangeOK(b), NEW id \in IDs
    PROVE  Contains(b, id) <=> b.min <= id /\ id < End(b)
<1>1. Span[b.depth] \in Nat \ {0} /\ Span[0] \in Nat /\ b.min \in Nat /\ b.max \in Nat
      /\ id \in Nat /\ id < Span[0]
  BY SpanFacts DEF Bucket, IDs
<1> QED BY <1>1 DEF Contains, RangeOK, End

\* The binary search finds the one bucket whose range holds the ID.
LEMMA BucketForFinds ==
    ASSUME buckets \in Seq(Bucket), Tiled(buckets), NEW id \in IDs
    PROVE  /\ BucketFor(id) \in DOMAIN buckets
           /\ buckets[BucketFor(id)] \in Bucket
           /\ buckets[BucketFor(id)].min <= id /\ id < End(buckets[BucketFor(id)])
           /\ \A k \in DOMAIN buckets :
                buckets[k].min <= id /\ id < End(buckets[k]) => k = BucketFor(id)
<1> DEFINE T == {i \in 1..Len(buckets) : buckets[i].min <= id}
           i == BucketFor(id)
<1>1. Len(buckets) \in Nat /\ DOMAIN buckets = 1..Len(buckets)
      /\ \A k \in 1..Len(buckets) : buckets[k] \in Bucket
  BY LenProperties, ElementOfSeq
<1>2. id \in Nat /\ id < Span[0] /\ Span[0] \in Nat
      /\ \A k \in 1..Len(buckets) :
            buckets[k].min \in Nat /\ Span[buckets[k].depth] \in Nat \ {0} /\ End(buckets[k]) \in Nat
  <2>1. id \in Nat /\ id < Span[0] /\ Span[0] \in Nat
    BY SpanFacts DEF IDs
  <2> QED BY <1>1, <2>1, BucketNumbers
<1>3. PICK m \in T : \A j \in T : j <= m
  <2>1. 1 \in T /\ T \in SUBSET (1..Len(buckets))
    BY <1>1, <1>2 DEF Tiled
  <2> HIDE DEF T
  <2> QED BY <1>1, <2>1, GreatestIndex
<1>4. \A j \in 1..Len(buckets) : j > m => id < buckets[j].min
  BY <1>1, <1>2, <1>3
<1>5. i \in 1..Len(buckets) /\ buckets[i].min <= id
      /\ \A j \in 1..Len(buckets) : j > i => id < buckets[j].min
  <2>1. m \in DOMAIN buckets /\ buckets[m].min <= id
        /\ \A j \in DOMAIN buckets : j > m => id < buckets[j].min
    BY <1>1, <1>3, <1>4
  <2> QED BY <1>1, <2>1 DEF BucketFor
<1> HIDE DEF i, T
<1>6. id < End(buckets[i])
  <2>1. CASE i = Len(buckets)
    BY <1>1, <1>2, <2>1 DEF Tiled
  <2>2. CASE i # Len(buckets)
    <3>1. i \in 1..(Len(buckets) - 1) /\ i + 1 \in 1..Len(buckets)
      <4>1. Len(buckets) \in Nat /\ i \in 1..Len(buckets)
        BY <1>1, <1>5
      <4> QED BY <4>1, <2>2
    <3> QED BY <1>1, <1>5, <3>1 DEF Tiled
  <2> QED BY <2>1, <2>2
<1>7. ASSUME NEW k \in 1..Len(buckets), buckets[k].min <= id, id < End(buckets[k])
      PROVE  k = i
  <2>1. CASE k < i
    <3>1. End(buckets[k]) <= buckets[i].min
      BY <1>5, <2>1 DEF Tiled
    <3> QED BY <1>2, <1>5, <1>7, <3>1
  <2>2. CASE k > i
    BY <1>2, <1>5, <1>7, <2>2
  <2> QED BY <1>1, <1>5, <2>1, <2>2
<1> QED BY <1>1, <1>5, <1>6, <1>7 DEF i

\* An entry's ID is an ID of the keyspace.
LEMMA EntryInIDs ==
    ASSUME NEW s \in Seq(Node), NEW id \in IdsOf(s)
    PROVE  id \in IDs
<1>1. PICK k \in DOMAIN s : id = s[k].id
  BY DEF IdsOf
<1>2. s[k] \in Node
  BY LenProperties, ElementOfSeq
<1> QED BY <1>1, <1>2 DEF Node

\* A list that loses entries, is refreshed or counted stays in order.
LEMMA ExtractedListOK ==
    ASSUME NEW b \in Bucket, NEW s \in Seq(Node), ListOK(b, s), NEW t, Extracted(t, s)
    PROVE  t \in Seq(Node) /\ ListOK(b, t) /\ IdsOf(t) \subseteq IdsOf(s)
<1>1. /\ IdsOf(t) \subseteq IdsOf(s)
      /\ Distinct(s) => Distinct(t)
      /\ Healthy(s) => Healthy(t)
  BY ExtractedKeeps
<1>2. t \in Seq(Node) /\ Len(t) <= Len(s) /\ Len(t) \in Nat /\ Len(s) \in Nat
  BY LenProperties DEF Extracted
<1> QED BY <1>1, <1>2, TableAssumption DEF ListOK

\* Replacing a bucket by one of the same range that is in order.
LEMMA OneBucketChanges ==
    ASSUME IInv, inserting' \in Peers \cup {NoNode},
           NEW i \in DOMAIN buckets, NEW b \in Bucket, InOrder(b),
           b.min = buckets[i].min, b.depth = buckets[i].depth,
           buckets' = [buckets EXCEPT ![i] = b]
    PROVE  IInv'
<1>1. buckets \in Seq(Bucket) /\ Len(buckets) \in Nat /\ DOMAIN buckets = 1..Len(buckets)
      /\ i \in 1..Len(buckets)
  BY LenProperties DEF IInv, TypeOK
<1>2. /\ buckets' \in Seq(Bucket) /\ Len(buckets') = Len(buckets)
      /\ DOMAIN buckets' = DOMAIN buckets
      /\ \A j \in 1..Len(buckets) : buckets'[j] = IF j = i THEN b ELSE buckets[j]
  BY <1>1, ExceptSeq, LenProperties
<1>3. \A j \in 1..Len(buckets) :
         buckets'[j].min = buckets[j].min /\ End(buckets'[j]) = End(buckets[j])
  BY <1>2 DEF End
<1>4. Tiled(buckets')
  <2>1. Len(buckets) >= 1 /\ 1 \in 1..Len(buckets) /\ Len(buckets) \in 1..Len(buckets)
    BY <1>1 DEF IInv, Tiled
  <2>2. \A k \in 1..(Len(buckets) - 1) : k \in 1..Len(buckets) /\ k + 1 \in 1..Len(buckets)
    BY <1>1
  <2> QED BY <1>2, <1>3, <2>1, <2>2 DEF IInv, Tiled
<1>5. \A j \in DOMAIN buckets' : InOrder(buckets'[j])
  BY <1>1, <1>2 DEF IInv
<1> QED BY <1>2, <1>4, <1>5 DEF IInv, TypeOK

\* Giving a bucket new lists changes neither its range nor what belongs to it.
LEMMA NewLists ==
    ASSUME NEW b \in Bucket, RangeOK(b), NEW ns \in Seq(Node), NEW cs \in Seq(Node),
           ListOK(b, ns), ListOK(b, cs), IdsOf(ns) \cap IdsOf(cs) = {},
           cs # <<>> => Len(ns) = K /\ ~ Contains(b, Self)
    PROVE  LET c == [b EXCEPT !.nodes = ns, !.cache = cs] IN
           c \in Bucket /\ InOrder(c) /\ c.min = b.min /\ c.depth = b.depth
<1> DEFINE c == [b EXCEPT !.nodes = ns, !.cache = cs]
<1>1. c \in Bucket /\ c.min = b.min /\ c.max = b.max /\ c.depth = b.depth
      /\ c.nodes = ns /\ c.cache = cs
  BY DEF Bucket
<1> HIDE DEF c
<1>2. End(c) = End(b)
  BY <1>1 DEF End
<1>3. Contains(c, Self) <=> Contains(b, Self)
  BY <1>1 DEF Contains
<1>4. RangeOK(c) /\ ListOK(c, c.nodes) /\ ListOK(c, c.cache)
  BY <1>1, <1>2 DEF RangeOK, ListOK
<1>5. InOrder(c)
  BY <1>1, <1>3, <1>4 DEF InOrder, IsFull
<1> QED BY <1>1, <1>5 DEF c

-----------------------------------------------------------------------------
(* The actions.                                                            *)

\* What every action knows of the bucket it works on.
LEMMA BucketAt ==
    ASSUME IInv, NEW id \in Peers
    PROVE  LET i == BucketFor(id)
               b == buckets[i]
           IN  /\ i \in DOMAIN buckets /\ b \in Bucket /\ InOrder(b)
               /\ b.min <= id /\ id < End(b)
               /\ b.nodes \in Seq(Node) /\ b.cache \in Seq(Node)
               /\ Len(b.nodes) \in Nat /\ Len(b.cache) \in Nat
<1>1. id \in IDs
  BY TableAssumption
<1>2. /\ BucketFor(id) \in DOMAIN buckets
      /\ buckets[BucketFor(id)] \in Bucket
      /\ buckets[BucketFor(id)].min <= id /\ id < End(buckets[BucketFor(id)])
  BY <1>1, BucketForFinds DEF IInv, TypeOK
<1>3. InOrder(buckets[BucketFor(id)])
  BY <1>2 DEF IInv
<1>4. /\ buckets[BucketFor(id)].nodes \in Seq(Node)
      /\ buckets[BucketFor(id)].cache \in Seq(Node)
  BY <1>2 DEF Bucket
<1> QED BY <1>2, <1>3, <1>4, LenProperties

\* A node appended by insert is in range, new and healthy.
LEMMA NewNodeOK ==
    ASSUME NEW b \in Bucket, NEW s \in Seq(Node), ListOK(b, s), Len(s) < K,
           NEW id \in IDs, b.min <= id, id < End(b), id \notin IdsOf(s)
    PROVE  /\ Append(s, NewNode(id)) \in Seq(Node)
           /\ ListOK(b, Append(s, NewNode(id)))
           /\ IdsOf(Append(s, NewNode(id))) = IdsOf(s) \cup {id}
<1>1. NewNode(id) \in Node /\ NewNode(id).id = id /\ ~ IsBad(NewNode(id))
  BY TableAssumption DEF NewNode, Node, IsBad
<1>2. Len(s) \in Nat
  BY LenProperties
<1> QED BY <1>1, <1>2, AppendKeeps, TableAssumption DEF ListOK

\* The common end of every action but a split: the lists of one bucket change.
LEMMA ListsChange ==
    ASSUME IInv, inserting' \in Peers \cup {NoNode}, NEW i \in DOMAIN buckets,
           NEW ns \in Seq(Node), NEW cs \in Seq(Node),
           ListOK(buckets[i], ns), ListOK(buckets[i], cs), IdsOf(ns) \cap IdsOf(cs) = {},
           cs # <<>> => Len(ns) = K /\ ~ Contains(buckets[i], Self),
           buckets' = [buckets EXCEPT ![i] = [@ EXCEPT !.nodes = ns, !.cache = cs]]
    PROVE  IInv'
<1> DEFINE old == buckets[i]
           b == [old EXCEPT !.nodes = ns, !.cache = cs]
<1>1. old \in Bucket /\ RangeOK(old)
  <2>1. buckets \in Seq(Bucket) /\ i \in 1..Len(buckets)
    BY LenProperties DEF IInv, TypeOK
  <2> QED BY <2>1, ElementOfSeq DEF IInv, InOrder
<1>2. buckets' = [buckets EXCEPT ![i] = b]
  OBVIOUS
<1>3. ListOK(old, ns) /\ ListOK(old, cs) /\ (cs # <<>> => Len(ns) = K /\ ~ Contains(old, Self))
  OBVIOUS
<1> HIDE DEF old
<1>4. b \in Bucket /\ InOrder(b) /\ b.min = old.min /\ b.depth = old.depth
  BY <1>1, <1>3, NewLists
<1> HIDE DEF b
<1> QED BY <1>2, <1>4, OneBucketChanges DEF old

LEMMA InsertUpdatesKeeps ==
    ASSUME IInv, InsertUpdates
    PROVE  IInv'
<1> DEFINE i == BucketFor(inserting)
           b == buckets[i]
           ns == Refreshed(b.nodes, inserting)
<1>1. inserting \in Peers /\ inserting' = NoNode
  BY DEF IInv, TypeOK, InsertUpdates
<1>2. /\ i \in DOMAIN buckets /\ b \in Bucket /\ InOrder(b)
      /\ b.nodes \in Seq(Node) /\ b.cache \in Seq(Node)
  BY <1>1, BucketAt
<1>3. inserting \in IdsOf(b.nodes)
  BY DEF InsertUpdates
<1>4. /\ ns \in Seq(Node) /\ Len(ns) = Len(b.nodes) /\ IdsOf(ns) = IdsOf(b.nodes)
      /\ Distinct(b.nodes) => Distinct(ns)
      /\ Healthy(b.nodes) => Healthy(ns)
  BY <1>2, <1>3, RefreshedKeeps
<1>5. buckets' = [buckets EXCEPT ![i] = [@ EXCEPT !.nodes = ns, !.cache = b.cache]]
  BY <1>2 DEF InsertUpdates, Bucket
<1> HIDE DEF i, b, ns
<1>6. ListOK(b, ns) /\ ListOK(b, b.cache) /\ IdsOf(ns) \cap IdsOf(b.cache) = {}
      /\ (b.cache # <<>> => Len(ns) = K /\ ~ Contains(b, Self))
  BY <1>2, <1>4 DEF InOrder, ListOK, IsFull
<1> QED BY <1>1, <1>2, <1>4, <1>5, <1>6, ListsChange DEF b

LEMMA InsertAppendsKeeps ==
    ASSUME IInv, InsertAppends
    PROVE  IInv'
<1> DEFINE i == BucketFor(inserting)
           b == buckets[i]
           ns == Append(b.nodes, NewNode(inserting))
<1>1. inserting \in Peers /\ inserting \in IDs /\ inserting' = NoNode
  BY TableAssumption DEF IInv, TypeOK, InsertAppends
<1>2. /\ i \in DOMAIN buckets /\ b \in Bucket /\ InOrder(b)
      /\ b.min <= inserting /\ inserting < End(b)
      /\ b.nodes \in Seq(Node) /\ b.cache \in Seq(Node) /\ Len(b.nodes) \in Nat
  BY <1>1, BucketAt
<1>3. inserting \notin IdsOf(b.nodes) /\ ~ IsFull(b)
  BY DEF InsertAppends
<1>4. buckets' = [buckets EXCEPT ![i] = [@ EXCEPT !.nodes = ns, !.cache = b.cache]]
  BY <1>2 DEF InsertAppends, Bucket
<1> HIDE DEF i, b
<1>5. ListOK(b, b.nodes) /\ Len(b.nodes) < K /\ b.cache = <<>>
  BY <1>2, <1>3, TableAssumption DEF InOrder, ListOK, IsFull
<1>6. ns \in Seq(Node) /\ ListOK(b, ns)
  BY <1>1, <1>2, <1>3, <1>5, NewNodeOK
<1> HIDE DEF ns
<1>7. ListOK(b, b.cache) /\ IdsOf(b.cache) = {}
  BY <1>2, <1>5 DEF InOrder, IdsOf
<1> QED BY <1>1, <1>2, <1>4, <1>5, <1>6, <1>7, ListsChange DEF b

LEMMA InsertUpdatesCacheKeeps ==
    ASSUME IInv, InsertUpdatesCache
    PROVE  IInv'
<1> DEFINE i == BucketFor(inserting)
           b == buckets[i]
           cs == Refreshed(b.cache, inserting)
<1>1. inserting \in Peers /\ inserting' = NoNode
  BY DEF IInv, TypeOK, InsertUpdatesCache, NoRoomIn
<1>2. /\ i \in DOMAIN buckets /\ b \in Bucket /\ InOrder(b)
      /\ b.nodes \in Seq(Node) /\ b.cache \in Seq(Node)
  BY <1>1, BucketAt
<1>3. inserting \in IdsOf(b.cache) /\ IsFull(b) /\ ~ Contains(b, Self)
  BY DEF InsertUpdatesCache, NoRoomIn
<1>4. /\ cs \in Seq(Node) /\ Len(cs) = Len(b.cache) /\ IdsOf(cs) = IdsOf(b.cache)
      /\ Distinct(b.cache) => Distinct(cs)
      /\ Healthy(b.cache) => Healthy(cs)
  BY <1>2, <1>3, RefreshedKeeps
<1>5. buckets' = [buckets EXCEPT ![i] = [@ EXCEPT !.nodes = b.nodes, !.cache = cs]]
  BY <1>2 DEF InsertUpdatesCache, Bucket
<1> HIDE DEF i, b, cs
<1>6. ListOK(b, b.nodes) /\ ListOK(b, cs) /\ IdsOf(b.nodes) \cap IdsOf(cs) = {}
      /\ (cs # <<>> => Len(b.nodes) = K /\ ~ Contains(b, Self))
  BY <1>2, <1>3, <1>4 DEF InOrder, ListOK, IsFull
<1> QED BY <1>1, <1>2, <1>4, <1>5, <1>6, ListsChange DEF b

LEMMA InsertCachesKeeps ==
    ASSUME IInv, InsertCaches
    PROVE  IInv'
<1> DEFINE i == BucketFor(inserting)
           b == buckets[i]
           cs == Append(b.cache, NewNode(inserting))
<1>1. inserting \in Peers /\ inserting \in IDs /\ inserting' = NoNode
  BY TableAssumption DEF IInv, TypeOK, InsertCaches, NoRoomIn
<1>2. /\ i \in DOMAIN buckets /\ b \in Bucket /\ InOrder(b)
      /\ b.min <= inserting /\ inserting < End(b)
      /\ b.nodes \in Seq(Node) /\ b.cache \in Seq(Node) /\ Len(b.cache) \in Nat
  BY <1>1, BucketAt
<1>3. /\ inserting \notin IdsOf(b.nodes) /\ inserting \notin IdsOf(b.cache)
      /\ IsFull(b) /\ ~ Contains(b, Self) /\ Len(b.cache) < K
  BY DEF InsertCaches, NoRoomIn
<1>4. buckets' = [buckets EXCEPT ![i] = [@ EXCEPT !.nodes = b.nodes, !.cache = cs]]
  BY <1>2 DEF InsertCaches, Bucket
<1> HIDE DEF i, b
<1>5. ListOK(b, b.nodes) /\ ListOK(b, b.cache) /\ IdsOf(b.nodes) \cap IdsOf(b.cache) = {}
  BY <1>2 DEF InOrder
<1>6. cs \in Seq(Node) /\ ListOK(b, cs) /\ IdsOf(cs) = IdsOf(b.cache) \cup {inserting}
  BY <1>1, <1>2, <1>3, <1>5, NewNodeOK
<1> HIDE DEF cs
<1>7. IdsOf(b.nodes) \cap IdsOf(cs) = {}
  BY <1>3, <1>5, <1>6
<1> QED BY <1>1, <1>2, <1>3, <1>4, <1>5, <1>6, <1>7, ListsChange DEF b, IsFull

LEMMA MarkSuccessKeeps ==
    ASSUME IInv, NEW id \in Peers, MarkSuccess(id)
    PROVE  IInv'
<1> DEFINE i == BucketFor(id)
           b == buckets[i]
           ns == Refreshed(b.nodes, id)
<1>1. inserting' \in Peers \cup {NoNode}
  BY DEF IInv, TypeOK, MarkSuccess
<1>2. /\ i \in DOMAIN buckets /\ b \in Bucket /\ InOrder(b)
      /\ b.nodes \in Seq(Node) /\ b.cache \in Seq(Node)
  BY BucketAt
<1>3. id \in IdsOf(b.nodes)
  BY DEF MarkSuccess
<1>4. /\ ns \in Seq(Node) /\ Len(ns) = Len(b.nodes) /\ IdsOf(ns) = IdsOf(b.nodes)
      /\ Distinct(b.nodes) => Distinct(ns)
      /\ Healthy(b.nodes) => Healthy(ns)
  BY <1>2, <1>3, RefreshedKeeps
<1>5. buckets' = [buckets EXCEPT ![i] = [@ EXCEPT !.nodes = ns, !.cache = b.cache]]
  BY <1>2 DEF MarkSuccess, Bucket
<1> HIDE DEF i, b, ns
<1>6. ListOK(b, ns) /\ ListOK(b, b.cache) /\ IdsOf(ns) \cap IdsOf(b.cache) = {}
      /\ (b.cache # <<>> => Len(ns) = K /\ ~ Contains(b, Self))
  BY <1>2, <1>4 DEF InOrder, ListOK, IsFull
<1> QED BY <1>1, <1>2, <1>4, <1>5, <1>6, ListsChange DEF b

\* An eviction promotes the oldest candidate, so a bucket with candidates stays full.
LEMMA EvictedKeeps ==
    ASSUME NEW b \in Bucket, InOrder(b), NEW id \in IdsOf(b.nodes)
    PROVE  LET c == Evicted(b, id) IN
           /\ c = [b EXCEPT !.nodes = c.nodes, !.cache = c.cache]
           /\ c.nodes \in Seq(Node) /\ c.cache \in Seq(Node)
           /\ ListOK(b, c.nodes) /\ ListOK(b, c.cache)
           /\ IdsOf(c.nodes) \cap IdsOf(c.cache) = {}
           /\ c.cache # <<>> => Len(c.nodes) = K /\ ~ Contains(b, Self)
<1> DEFINE rest == Without(b.nodes, id)
           c == Evicted(b, id)
<1>1. /\ b.nodes \in Seq(Node) /\ b.cache \in Seq(Node)
      /\ ListOK(b, b.nodes) /\ ListOK(b, b.cache)
      /\ IdsOf(b.nodes) \cap IdsOf(b.cache) = {}
      /\ b.cache # <<>> => Len(b.nodes) = K /\ ~ Contains(b, Self)
  BY DEF Bucket, InOrder, IsFull
<1>2. Extracted(rest, b.nodes) /\ Len(rest) = Len(b.nodes) - 1
  BY <1>1, WithoutExtracts
<1>3. rest \in Seq(Node) /\ ListOK(b, rest) /\ IdsOf(rest) \subseteq IdsOf(b.nodes)
  BY <1>1, <1>2, ExtractedListOK
<1>4. CASE b.cache = <<>>
  <2>1. c = [b EXCEPT !.nodes = rest]
    BY <1>4 DEF Evicted
  <2> HIDE DEF rest, c
  <2>2. c.nodes = rest /\ c.cache = b.cache
        /\ c = [b EXCEPT !.nodes = c.nodes, !.cache = c.cache]
    BY <2>1 DEF Bucket
  <2> QED BY <1>1, <1>3, <1>4, <2>2 DEF c
<1>5. CASE b.cache # <<>>
  <2> DEFINE n == Head(b.cache)
             cs == Tail(b.cache)
             ns == Append(rest, n)
  <2>1. c = [b EXCEPT !.nodes = ns, !.cache = cs]
    BY <1>5 DEF Evicted
  <2>2. n \in Node /\ n.id \in IdsOf(b.cache) /\ ~ IsBad(n) /\ n.id \notin IdsOf(cs)
        /\ Extracted(cs, b.cache)
    BY <1>1, <1>5, TailExtracts DEF ListOK
  <2>3. cs \in Seq(Node) /\ ListOK(b, cs) /\ IdsOf(cs) \subseteq IdsOf(b.cache)
    BY <1>1, <2>2, ExtractedListOK
  <2> HIDE DEF rest, n, cs
  <2>4. /\ ns \in Seq(Node) /\ Len(ns) = Len(rest) + 1
        /\ IdsOf(ns) = IdsOf(rest) \cup {n.id}
        /\ Distinct(rest) /\ n.id \notin IdsOf(rest) => Distinct(ns)
        /\ Healthy(rest) /\ ~ IsBad(n) => Healthy(ns)
    BY <1>3, <2>2, AppendKeeps
  <2> HIDE DEF ns, c
  <2>5. c.nodes = ns /\ c.cache = cs /\ c = [b EXCEPT !.nodes = c.nodes, !.cache = c.cache]
    BY <2>1 DEF Bucket
  <2>6. n.id \notin IdsOf(rest)
    BY <1>1, <1>3, <2>2
  <2>7. Len(ns) = K
    <3>1. Len(b.nodes) = K
      BY <1>1, <1>5
    <3> QED BY <3>1, <1>2, <2>4, TableAssumption
  <2>8. ListOK(b, ns)
    <3>1. b.min <= n.id /\ n.id < End(b)
      BY <1>1, <2>2 DEF ListOK
    <3> QED BY <3>1, <1>3, <2>2, <2>4, <2>6, <2>7, TableAssumption DEF ListOK
  <2>9. IdsOf(ns) \cap IdsOf(cs) = {}
    BY <1>1, <1>3, <2>2, <2>3, <2>4
  <2> QED BY <1>1, <1>5, <2>3, <2>4, <2>5, <2>7, <2>8, <2>9 DEF c
<1> QED BY <1>4, <1>5

LEMMA MarkFailureActiveKeeps ==
    ASSUME IInv, NEW id \in Peers, MarkFailureActive(id)
    PROVE  IInv'
<1> DEFINE i == BucketFor(id)
           b == buckets[i]
           ns == Failed(b.nodes, id)
           c == Evicted(b, id)
<1>1. inserting' \in Peers \cup {NoNode}
  BY DEF IInv, TypeOK, MarkFailureActive
<1>2. /\ i \in DOMAIN buckets /\ b \in Bucket /\ InOrder(b)
      /\ b.nodes \in Seq(Node) /\ b.cache \in Seq(Node)
  BY BucketAt
<1>3. id \in IdsOf(b.nodes)
  BY DEF MarkFailureActive
<1>4. CASE IsBad(ns[Pos(ns, id)])
  <2>1. buckets' = [buckets EXCEPT ![i] = c]
    BY <1>4 DEF MarkFailureActive
  <2> HIDE DEF i
  <2>2. /\ c = [b EXCEPT !.nodes = c.nodes, !.cache = c.cache]
        /\ c.nodes \in Seq(Node) /\ c.cache \in Seq(Node)
        /\ ListOK(b, c.nodes) /\ ListOK(b, c.cache)
        /\ IdsOf(c.nodes) \cap IdsOf(c.cache) = {}
        /\ c.cache # <<>> => Len(c.nodes) = K /\ ~ Contains(b, Self)
    <3> HIDE DEF b
    <3> QED BY <1>2, <1>3, EvictedKeeps
  <2> HIDE DEF c
  <2>3. buckets' = [buckets EXCEPT ![i] = [@ EXCEPT !.nodes = c.nodes, !.cache = c.cache]]
    BY <1>2, <2>1, <2>2
  <2> QED BY <1>1, <1>2, <2>2, <2>3, ListsChange
<1>5. CASE ~ IsBad(ns[Pos(ns, id)])
  <2>1. buckets' = [buckets EXCEPT ![i] = [@ EXCEPT !.nodes = ns, !.cache = b.cache]]
    BY <1>2, <1>5 DEF MarkFailureActive, Bucket
  <2> HIDE DEF i, b
  <2>2. /\ ns \in Seq(Node) /\ Len(ns) = Len(b.nodes) /\ IdsOf(ns) = IdsOf(b.nodes)
        /\ Distinct(b.nodes) => Distinct(ns)
        /\ Healthy(b.nodes) /\ Distinct(b.nodes) => Healthy(ns)
    BY <1>2, <1>3, <1>5, FailedKeeps
  <2> HIDE DEF ns
  <2>3. ListOK(b, ns) /\ ListOK(b, b.cache) /\ IdsOf(ns) \cap IdsOf(b.cache) = {}
        /\ (b.cache # <<>> => Len(ns) = K /\ ~ Contains(b, Self))
    BY <1>2, <2>2 DEF InOrder, ListOK, IsFull
  <2> QED BY <1>1, <1>2, <2>1, <2>2, <2>3, ListsChange DEF b
<1> QED BY <1>4, <1>5

LEMMA MarkFailureCachedIInv ==
    ASSUME IInv, NEW id \in Peers, MarkFailureCached(id)
    PROVE  IInv'
<1> DEFINE i == BucketFor(id)
           b == buckets[i]
           failed == Failed(b.cache, id)
           cs == IF IsBad(failed[Pos(failed, id)]) THEN Without(b.cache, id) ELSE failed
<1>1. inserting' \in Peers \cup {NoNode}
  BY DEF IInv, TypeOK, MarkFailureCached
<1>2. /\ i \in DOMAIN buckets /\ b \in Bucket /\ InOrder(b)
      /\ b.nodes \in Seq(Node) /\ b.cache \in Seq(Node)
  BY BucketAt
<1>3. id \in IdsOf(b.cache)
  BY DEF MarkFailureCached
<1>4. buckets' = [buckets EXCEPT ![i] = [@ EXCEPT !.nodes = b.nodes, !.cache = cs]]
  BY <1>2 DEF MarkFailureCached, Bucket
<1> HIDE DEF i, b
<1>5. ListOK(b, b.cache) /\ ListOK(b, b.nodes) /\ IdsOf(b.nodes) \cap IdsOf(b.cache) = {}
  BY <1>2 DEF InOrder
<1>6. cs \in Seq(Node) /\ ListOK(b, cs) /\ IdsOf(cs) \subseteq IdsOf(b.cache)
  <2>1. CASE IsBad(failed[Pos(failed, id)])
    BY <1>2, <1>3, <1>5, <2>1, WithoutExtracts, ExtractedListOK
  <2>2. CASE ~ IsBad(failed[Pos(failed, id)])
    <3>1. /\ failed \in Seq(Node) /\ Len(failed) = Len(b.cache)
          /\ IdsOf(failed) = IdsOf(b.cache)
          /\ Distinct(b.cache) => Distinct(failed)
          /\ Healthy(b.cache) /\ Distinct(b.cache) => Healthy(failed)
      BY <1>2, <1>3, <2>2, FailedKeeps
    <3>2. cs = failed
      BY <2>2
    <3> HIDE DEF failed, cs
    <3> QED BY <1>5, <3>1, <3>2 DEF ListOK
  <2> QED BY <2>1, <2>2
<1>7. b.cache # <<>>
  BY <1>3 DEF IdsOf
<1>8. Len(b.nodes) = K /\ ~ Contains(b, Self)
  BY <1>2, <1>7 DEF InOrder, IsFull
<1>9. IdsOf(b.nodes) \cap IdsOf(cs) = {}
  BY <1>5, <1>6
<1> HIDE DEF cs
<1> QED BY <1>1, <1>2, <1>4, <1>5, <1>6, <1>8, <1>9, ListsChange DEF b

\* The halves of a full bucket of our own ID, which has no candidates.
LEMMA HalvesInOrder ==
    ASSUME NEW b \in Bucket, InOrder(b), b.cache = <<>>, b.depth < W
    PROVE  LET l == LeftHalf(b)
               r == RightHalf(b)
           IN  /\ l \in Bucket /\ InOrder(l) /\ r \in Bucket /\ InOrder(r)
               /\ l.min = b.min /\ End(l) = r.min /\ End(r) = End(b)
               /\ End(l) \in Nat /\ b.min < End(l) /\ End(l) < End(b)
<1> DEFINE d == b.depth
           mid == b.min + Span[d + 1]
           low == [b EXCEPT !.max = mid, !.depth = @ + 1]
           high == [b EXCEPT !.min = mid, !.depth = @ + 1]
           left == [b EXCEPT !.max = mid]
           lowIds == {id \in IDs : Contains(low, id)}
           highIds == {id \in IDs : ~ Contains(left, id)}
           l == LeftHalf(b)
           r == RightHalf(b)
<1>1. /\ b.min \in Nat /\ b.max \in Nat /\ d \in 0..W /\ d + 1 \in 0..W
      /\ Span[d + 1] \in Nat \ {0} /\ Span[d] = Span[d + 1] + Span[d + 1]
      /\ Span[0] \in Nat
      /\ b.nodes \in Seq(Node)
  BY SpanFacts DEF Bucket, IDs
<1>2. /\ mid \in Nat /\ b.min < mid /\ mid < End(b) /\ mid + Span[d + 1] = End(b)
      /\ End(b) \in Nat /\ End(b) <= Span[0]
  <2>1. End(b) = b.min + Span[d]
    BY DEF End
  <2>2. End(b) <= Span[0]
    BY DEF InOrder, RangeOK
  <2> QED BY <1>1, <2>1, <2>2
<1>3. mid \in IDs /\ mid # 0
  BY <1>1, <1>2 DEF IDs
<1>4. l = [low EXCEPT !.nodes = Kept(b.nodes, lowIds), !.cache = Kept(b.cache, lowIds)]
  BY DEF LeftHalf, Bucket
<1>5. r = [high EXCEPT !.nodes = Kept(b.nodes, highIds), !.cache = Kept(b.cache, highIds)]
  BY DEF RightHalf, Bucket
<1> HIDE DEF mid, l, r
<1>6. /\ low \in Bucket /\ low.min = b.min /\ low.max = mid /\ low.depth = d + 1
      /\ high \in Bucket /\ high.min = mid /\ high.max = b.max /\ high.depth = d + 1
      /\ left \in Bucket /\ left.min = b.min /\ left.max = mid
  BY <1>1, <1>3 DEF Bucket
<1>7. End(low) = mid /\ End(high) = End(b)
  <2>1. End(low) = low.min + Span[d + 1] /\ End(high) = high.min + Span[d + 1]
    BY <1>6 DEF End
  <2> QED BY <2>1, <1>2, <1>6 DEF mid
<1>8. RangeOK(low) /\ RangeOK(high)
  BY <1>1, <1>2, <1>6, <1>7 DEF RangeOK, InOrder
<1>9. ASSUME NEW S
      PROVE  /\ Kept(b.nodes, S) \in Seq(Node)
             /\ ListOK(b, Kept(b.nodes, S))
             /\ IdsOf(Kept(b.nodes, S)) \subseteq S \cap IdsOf(b.nodes)
             /\ Kept(b.cache, S) = <<>>
  <2>1. Extracted(Kept(b.nodes, S), b.nodes) /\ IdsOf(Kept(b.nodes, S)) \subseteq S
    BY <1>1, KeptExtracts
  <2>2. Extracted(Kept(b.cache, S), b.cache)
    <3>1. b.cache \in Seq(Node)
      BY DEF Bucket
    <3> QED BY <3>1, KeptExtracts
  <2>3. Kept(b.cache, S) = <<>>
    <3>1. Kept(b.cache, S) \in Seq(Node) /\ Len(Kept(b.cache, S)) <= 0
      BY <2>2, EmptySeq DEF Extracted
    <3> QED BY <3>1, EmptySeq
  <2> QED BY <1>1, <2>1, <2>3, ExtractedListOK DEF InOrder
<1>10. ASSUME NEW id \in IdsOf(b.nodes)
       PROVE  id \in IDs /\ id \in Nat /\ b.min <= id /\ id < End(b)
  <2>1. id \in IDs
    BY <1>1, EntryInIDs
  <2>2. b.min <= id /\ id < End(b)
    BY DEF InOrder, ListOK
  <2> QED BY <2>1, <2>2 DEF IDs
<1>11. \A id \in lowIds : low.min <= id /\ id < End(low)
  BY <1>6, <1>8, ContainsMeans
<1>12. \A id \in highIds \cap IdsOf(b.nodes) : high.min <= id /\ id < End(high)
  <2> SUFFICES ASSUME NEW id \in IdsOf(b.nodes), ~ Contains(left, id)
               PROVE  mid <= id /\ id < End(b)
    BY <1>6, <1>7
  <2>1. id \in Nat /\ b.min <= id /\ id < End(b)
    BY <1>10
  <2> HIDE DEF left
  <2> QED BY <1>2, <1>3, <1>6, <2>1 DEF Contains
<1> HIDE DEF low, high, left, lowIds, highIds
<1>13. l \in Bucket /\ InOrder(l) /\ l.min = low.min /\ End(l) = mid
  <2> DEFINE ns == Kept(b.nodes, lowIds)
             cs == Kept(b.cache, lowIds)
  <2>1. ns \in Seq(Node) /\ ListOK(b, ns) /\ IdsOf(ns) \subseteq lowIds /\ cs = <<>>
    BY <1>9
  <2> HIDE DEF ns, cs
  <2>2. ListOK(low, ns)
    BY <1>11, <2>1 DEF ListOK
  <2>3. ListOK(low, cs) /\ cs \in Seq(Node) /\ IdsOf(cs) = {}
    BY <2>1, EmptySeq, TableAssumption DEF ListOK, IdsOf, Distinct, Healthy
  <2>4. l = [low EXCEPT !.nodes = ns, !.cache = cs]
    BY <1>4 DEF ns, cs
  <2>5. low \in Bucket /\ RangeOK(low) /\ IdsOf(ns) \cap IdsOf(cs) = {}
    BY <1>6, <1>8, <2>3
  <2>6. l \in Bucket /\ InOrder(l) /\ l.min = low.min /\ l.depth = low.depth
    <3> DEFINE c == [low EXCEPT !.nodes = ns, !.cache = cs]
    <3>1. c \in Bucket /\ InOrder(c) /\ c.min = low.min /\ c.depth = low.depth
      <4>1. /\ ns \in Seq(Node) /\ cs \in Seq(Node) /\ low \in Bucket /\ RangeOK(low)
            /\ ListOK(low, ns) /\ ListOK(low, cs) /\ IdsOf(ns) \cap IdsOf(cs) = {}
            /\ (cs # <<>> => Len(ns) = K /\ ~ Contains(low, Self))
        BY <2>1, <2>2, <2>3, <2>5
      <4> QED BY <4>1, NewLists
    <3> HIDE DEF c
    <3>2. l = c
      BY <2>4 DEF c
    <3> QED BY <3>1, <3>2
  <2> QED BY <2>6, <1>7 DEF End
<1>14. r \in Bucket /\ InOrder(r) /\ r.min = mid /\ End(r) = End(b)
  <2> DEFINE ns == Kept(b.nodes, highIds)
             cs == Kept(b.cache, highIds)
  <2>1. /\ ns \in Seq(Node) /\ ListOK(b, ns)
        /\ IdsOf(ns) \subseteq highIds \cap IdsOf(b.nodes) /\ cs = <<>>
    BY <1>9
  <2> HIDE DEF ns, cs
  <2>2. ListOK(high, ns)
    BY <1>12, <2>1 DEF ListOK
  <2>3. ListOK(high, cs) /\ cs \in Seq(Node) /\ IdsOf(cs) = {}
    BY <2>1, EmptySeq, TableAssumption DEF ListOK, IdsOf, Distinct, Healthy
  <2>4. r = [high EXCEPT !.nodes = ns, !.cache = cs]
    BY <1>5 DEF ns, cs
  <2>5. high \in Bucket /\ RangeOK(high) /\ IdsOf(ns) \cap IdsOf(cs) = {}
    BY <1>6, <1>8, <2>3
  <2>6. r \in Bucket /\ InOrder(r) /\ r.min = high.min /\ r.depth = high.depth
    <3> DEFINE c == [high EXCEPT !.nodes = ns, !.cache = cs]
    <3>1. c \in Bucket /\ InOrder(c) /\ c.min = high.min /\ c.depth = high.depth
      <4>1. /\ ns \in Seq(Node) /\ cs \in Seq(Node) /\ high \in Bucket /\ RangeOK(high)
            /\ ListOK(high, ns) /\ ListOK(high, cs) /\ IdsOf(ns) \cap IdsOf(cs) = {}
            /\ (cs # <<>> => Len(ns) = K /\ ~ Contains(high, Self))
        BY <2>1, <2>2, <2>3, <2>5
      <4> QED BY <4>1, NewLists
    <3> HIDE DEF c
    <3>2. r = c
      BY <2>4 DEF c
    <3> QED BY <3>1, <3>2
  <2> QED BY <2>6, <1>6, <1>7 DEF End
<1> QED BY <1>2, <1>6, <1>13, <1>14 DEF l, r

\* Two adjacent buckets that take the place of one keep the keyspace tiled.
LEMMA SplitTiles ==
    ASSUME buckets \in Seq(Bucket), Tiled(buckets), NEW i \in DOMAIN buckets,
           NEW l \in Bucket, NEW r \in Bucket,
           l.min = buckets[i].min, End(l) = r.min, End(r) = End(buckets[i]),
           l.min < End(l), End(l) < End(r)
    PROVE  /\ Replaced(i, l, r) \in Seq(Bucket)
           /\ Tiled(Replaced(i, l, r))
           /\ \A j \in DOMAIN Replaced(i, l, r) :
                \/ Replaced(i, l, r)[j] \in {l, r}
                \/ \E k \in DOMAIN buckets : Replaced(i, l, r)[j] = buckets[k]
<1> DEFINE n == Len(buckets)
           new == Replaced(i, l, r)
<1>1. n \in Nat /\ DOMAIN buckets = 1..n /\ i \in 1..n /\ n >= 1
      /\ \A k \in 1..n : buckets[k] \in Bucket
  BY LenProperties, ElementOfSeq DEF Tiled
<1>2. \A b \in Bucket : b.min \in Nat /\ End(b) \in Nat /\ b.min < End(b)
  BY BucketNumbers
<1>3. /\ DOMAIN new = 1..(n + 1)
      /\ \A j \in 1..(n + 1) :
           new[j] = IF j < i THEN buckets[j] ELSE IF j = i THEN l
                    ELSE IF j = i + 1 THEN r ELSE buckets[j - 1]
  BY <1>1 DEF Replaced
<1>4. new = [j \in 1..(n + 1) |-> new[j]]
  BY <1>1 DEF Replaced
<1> HIDE DEF n, new
<1>5. \A j \in 1..(n + 1) : new[j] \in Bucket
  BY <1>1, <1>3
<1>6. new \in Seq(Bucket) /\ Len(new) = n + 1
  BY <1>1, <1>3, <1>4, <1>5
<1>7. \A k \in 1..(n - 1) : buckets[k + 1].min = End(buckets[k])
  BY DEF Tiled, n
<1>8. \A k, m \in 1..n : k < m => End(buckets[k]) <= buckets[m].min
  BY DEF Tiled, n
<1>9. new[1].min = 0
  BY <1>1, <1>3 DEF Tiled
<1>10. End(new[n + 1]) = Span[0]
  <2>1. End(buckets[n]) = Span[0]
    BY DEF Tiled, n
  <2> QED BY <1>1, <1>3, <2>1
<1>11. \A j \in 1..n : new[j + 1].min = End(new[j])
  <2> SUFFICES ASSUME NEW j \in 1..n PROVE new[j + 1].min = End(new[j])
    OBVIOUS
  <2>1. CASE j < i - 1
    <3>1. j \in 1..(n - 1) /\ new[j] = buckets[j] /\ new[j + 1] = buckets[j + 1]
      BY <1>1, <1>3, <2>1
    <3> QED BY <3>1, <1>7
  <2>2. CASE j = i - 1
    <3>1. j \in 1..(n - 1) /\ new[j] = buckets[j] /\ new[j + 1] = l /\ j + 1 = i
      BY <1>1, <1>3, <2>2
    <3> QED BY <3>1, <1>7
  <2>3. CASE j = i
    <3>1. new[j] = l /\ new[j + 1] = r
      BY <1>1, <1>3, <2>3
    <3> QED BY <3>1
  <2>4. CASE j = i + 1
    <3>1. i \in 1..(n - 1) /\ new[j] = r /\ new[j + 1] = buckets[i + 1]
      BY <1>1, <1>3, <2>4
    <3> QED BY <3>1, <1>7
  <2>5. CASE j > i + 1
    <3>1. j - 1 \in 1..(n - 1) /\ new[j] = buckets[j - 1] /\ new[j + 1] = buckets[(j - 1) + 1]
      BY <1>1, <1>3, <2>5
    <3> QED BY <3>1, <1>7
  <2> QED BY <1>1, <2>1, <2>2, <2>3, <2>4, <2>5
<1>12. \A j, k \in 1..(n + 1) : j < k => End(new[j]) <= new[k].min
  <2> DEFINE old(j) == IF j <= i THEN j ELSE j - 1
  <2> SUFFICES ASSUME NEW j \in 1..(n + 1), NEW k \in 1..(n + 1), j < k
               PROVE  End(new[j]) <= new[k].min
    OBVIOUS
  <2>1. \A m \in 1..(n + 1) :
          /\ old(m) \in 1..n
          /\ buckets[old(m)].min <= new[m].min /\ End(new[m]) <= End(buckets[old(m)])
    <3> SUFFICES ASSUME NEW m \in 1..(n + 1)
                 PROVE  /\ old(m) \in 1..n
                        /\ buckets[old(m)].min <= new[m].min
                        /\ End(new[m]) <= End(buckets[old(m)])
      OBVIOUS
    <3>1. CASE m < i \/ m > i + 1
      <4>1. old(m) \in 1..n /\ new[m] = buckets[old(m)]
        <5>1. CASE m < i
          BY <1>1, <1>3, <5>1
        <5>2. CASE m > i + 1
          <6>1. old(m) = m - 1 /\ m - 1 \in 1..n
            BY <1>1, <5>2
          <6> QED BY <1>1, <1>3, <5>2, <6>1
        <5> QED BY <3>1, <5>1, <5>2
      <4> HIDE DEF old
      <4>2. buckets[old(m)].min \in Nat /\ End(buckets[old(m)]) \in Nat
        BY <1>1, <1>2, <4>1
      <4> QED BY <4>1, <4>2
    <3>2. CASE m = i
      <4>1. old(m) = i /\ new[m] = l
        BY <1>1, <1>3, <3>2
      <4>2. End(l) \in Nat /\ End(r) \in Nat /\ End(buckets[i]) \in Nat /\ l.min \in Nat
        BY <1>1, <1>2
      <4> HIDE DEF old
      <4> QED BY <4>1, <4>2, <1>1
    <3>3. CASE m = i + 1
      <4>1. old(m) = i /\ new[m] = r
        <5>1. old(m) = i
          BY <1>1, <3>3
        <5>2. new[i + 1] = r
          <6> HIDE DEF old
          <6>1. i + 1 \in 1..(n + 1) /\ ~ (i + 1 < i) /\ i + 1 # i
            BY <1>1
          <6> QED BY <1>3, <6>1
        <5> QED BY <3>3, <5>1, <5>2
      <4>2. End(l) \in Nat /\ r.min \in Nat /\ buckets[i].min \in Nat /\ End(buckets[i]) \in Nat
        BY <1>1, <1>2
      <4> HIDE DEF old
      <4> QED BY <4>1, <4>2, <1>1
    <3> QED BY <1>1, <3>1, <3>2, <3>3
  <2>2. CASE old(j) < old(k)
    <3>1. End(buckets[old(j)]) <= buckets[old(k)].min
      BY <1>8, <2>1, <2>2
    <3>2. /\ End(new[j]) \in Nat /\ new[k].min \in Nat
          /\ End(buckets[old(j)]) \in Nat /\ buckets[old(k)].min \in Nat
      BY <1>1, <1>2, <1>5, <2>1
    <3>3. End(new[j]) <= End(buckets[old(j)]) /\ buckets[old(k)].min <= new[k].min
      BY <2>1
    <3> HIDE DEF old
    <3> QED BY <3>1, <3>2, <3>3
  <2>3. CASE ~ (old(j) < old(k))
    <3>1. j = i /\ k = i + 1
      BY <1>1, <2>3
    <3>2. new[j] = l /\ new[k] = r
      BY <1>1, <1>3, <3>1
    <3> QED BY <3>2, <1>2
  <2> QED BY <2>2, <2>3
<1>13. Tiled(new)
  BY <1>1, <1>6, <1>9, <1>10, <1>11, <1>12 DEF Tiled
<1>14. \A j \in DOMAIN new : new[j] \in {l, r} \/ \E k \in DOMAIN buckets : new[j] = buckets[k]
  BY <1>1, <1>3
<1> QED BY <1>6, <1>13, <1>14 DEF new

LEMMA InsertSplitsKeeps ==
    ASSUME IInv, InsertSplits
    PROVE  IInv'
<1> DEFINE i == BucketFor(inserting)
           b == buckets[i]
           l == LeftHalf(b)
           r == RightHalf(b)
<1>1. inserting \in Peers /\ inserting' \in Peers
  BY DEF IInv, TypeOK, InsertSplits, NoRoomIn
<1>2. i \in DOMAIN buckets /\ b \in Bucket /\ InOrder(b)
  BY <1>1, BucketAt
<1>3. Contains(b, Self) /\ b.depth < W /\ buckets' = Replaced(i, l, r)
  BY DEF InsertSplits
<1> HIDE DEF i, b
<1>4. /\ l \in Bucket /\ InOrder(l) /\ r \in Bucket /\ InOrder(r)
      /\ l.min = b.min /\ End(l) = r.min /\ End(r) = End(b)
      /\ l.min < End(l) /\ End(l) < End(r)
  <2>1. b.cache = <<>>
    BY <1>2, <1>3 DEF InOrder
  <2> QED BY <1>2, <1>3, <2>1, HalvesInOrder
<1> HIDE DEF l, r
<1>5. /\ buckets' \in Seq(Bucket)
      /\ Tiled(buckets')
      /\ \A j \in DOMAIN buckets' :
           buckets'[j] \in {l, r} \/ \E k \in DOMAIN buckets : buckets'[j] = buckets[k]
  BY <1>2, <1>3, <1>4, SplitTiles DEF b, IInv, TypeOK
<1>6. \A j \in DOMAIN buckets' : InOrder(buckets'[j])
  BY <1>4, <1>5 DEF IInv
<1> QED BY <1>1, <1>5, <1>6 DEF IInv, TypeOK

-----------------------------------------------------------------------------
(* The inductive invariant.                                                *)

LEMMA InitIInv == Init => IInv
<1> SUFFICES ASSUME Init PROVE IInv
  OBVIOUS
<1> DEFINE b == [min |-> 0, max |-> 0, depth |-> 0, nodes |-> <<>>, cache |-> <<>>]
<1>1. buckets = <<b>> /\ inserting = NoNode
  BY DEF Init
<1>2. b.min = 0 /\ b.max = 0 /\ b.depth = 0 /\ b.nodes = <<>> /\ b.cache = <<>>
  OBVIOUS
<1>3. b \in Bucket
  BY SpanFacts, EmptySeq DEF Bucket, IDs
<1> HIDE DEF b
<1>4. End(b) = Span[0] /\ Span[0] \in Nat
  BY <1>2, SpanFacts DEF End
<1>5. Tiled(buckets)
  BY <1>1, <1>2, <1>4 DEF Tiled
<1>6. IdsOf(<<>>) = {} /\ ListOK(b, <<>>)
  BY EmptySeq, TableAssumption DEF IdsOf, ListOK, Distinct, Healthy
<1>7. InOrder(b)
  BY <1>2, <1>4, <1>6 DEF InOrder, RangeOK
<1>8. TypeOK
  BY <1>1, <1>3 DEF TypeOK
<1> QED BY <1>1, <1>5, <1>7, <1>8 DEF IInv

LEMMA NextIInv == IInv /\ [Next]_vars => IInv'
<1> SUFFICES ASSUME IInv, [Next]_vars PROVE IInv'
  OBVIOUS
<1>1. CASE InsertUpdates
  BY <1>1, InsertUpdatesKeeps
<1>2. CASE InsertAppends
  BY <1>2, InsertAppendsKeeps
<1>3. CASE InsertSplits
  BY <1>3, InsertSplitsKeeps
<1>4. CASE InsertUpdatesCache
  BY <1>4, InsertUpdatesCacheKeeps
<1>5. CASE InsertCaches
  BY <1>5, InsertCachesKeeps
<1>6. CASE InsertDrops
  BY <1>6 DEF InsertDrops, IInv, TypeOK
<1>7. ASSUME NEW id \in Peers, Insert(id) PROVE IInv'
  BY <1>7 DEF Insert, IInv, TypeOK
<1>8. ASSUME NEW id \in Peers, MarkSuccess(id) PROVE IInv'
  BY <1>8, MarkSuccessKeeps
<1>9. ASSUME NEW id \in Peers, MarkFailure(id) PROVE IInv'
  BY <1>9, MarkFailureActiveKeeps, MarkFailureCachedIInv DEF MarkFailure
<1>10. CASE UNCHANGED vars
  BY <1>10 DEF vars, IInv, TypeOK
<1> QED
  BY <1>1, <1>2, <1>3, <1>4, <1>5, <1>6, <1>7, <1>8, <1>9, <1>10 DEF Next, InsertStep

LEMMA SpecIInv == Spec => []IInv
BY InitIInv, NextIInv, PTL DEF Spec

-----------------------------------------------------------------------------
(* The theorems.                                                           *)

\* Every variable keeps its type: in particular each split yields buckets whose
\* bounds are IDs and whose lists hold nodes.
THEOREM TypeCorrect == Spec => []TypeOK
<1>1. IInv => TypeOK
  BY DEF IInv
<1> QED BY <1>1, SpecIInv, PTL

\* No bucket and no replacement cache outgrows bucketSize.
THEOREM CapacityHolds == Spec => []Capacity
<1>1. IInv => Capacity
  BY DEF IInv, InOrder, ListOK, Capacity
<1> QED BY <1>1, SpecIInv, PTL

\* Candidates wait only behind full buckets that do not hold our own ID.
THEOREM CandidatesWait == Spec => []CandidatesWaitBehindFullBuckets
<1>1. IInv => CandidatesWaitBehindFullBuckets
  BY DEF IInv, InOrder, CandidatesWaitBehindFullBuckets
<1> QED BY <1>1, SpecIInv, PTL

\* No bad node is kept, in a bucket or in a replacement cache.
THEOREM NoBadNode == Spec => []NoBadNodeStored
<1>1. IInv => NoBadNodeStored
  BY DEF IInv, InOrder, ListOK, Healthy, NoBadNodeStored
<1> QED BY <1>1, SpecIInv, PTL

\* Every entry is in the bucket that the binary search finds for its ID.
THEOREM EntriesFound == Spec => []EntriesAreFound
<1>1. ASSUME IInv PROVE EntriesAreFound
  <2> SUFFICES ASSUME NEW i \in DOMAIN buckets,
                      NEW id \in IdsOf(buckets[i].nodes) \cup IdsOf(buckets[i].cache)
               PROVE  BucketFor(id) = i
    BY DEF EntriesAreFound
  <2>1. buckets \in Seq(Bucket) /\ Tiled(buckets) /\ InOrder(buckets[i])
    BY <1>1 DEF IInv, TypeOK
  <2>2. buckets[i].nodes \in Seq(Node) /\ buckets[i].cache \in Seq(Node)
    <3>1. buckets[i] \in Bucket
      BY <2>1, LenProperties, ElementOfSeq
    <3> QED BY <3>1 DEF Bucket
  <2>3. id \in IDs
    BY <2>2, EntryInIDs
  <2>4. buckets[i].min <= id /\ id < End(buckets[i])
    BY <2>1 DEF InOrder, ListOK
  <2> QED BY <2>1, <2>3, <2>4, BucketForFinds
<1> QED BY <1>1, SpecIInv, PTL

\* insert never splits a bucket of one ID.
THEOREM NoSplitTooDeep == Spec => []NoSplitPastLastBit
<1>1. ASSUME IInv PROVE NoSplitPastLastBit
  <2> DEFINE b == BucketOf(inserting)
  <2> SUFFICES ASSUME inserting # NoNode, NoRoomIn(b), Contains(b, Self), ~ (b.depth < W)
               PROVE  FALSE
    BY DEF NoSplitPastLastBit
  <2>1. inserting \in Peers
    BY <1>1 DEF IInv, TypeOK
  <2>2. /\ b \in Bucket /\ InOrder(b) /\ b.nodes \in Seq(Node)
        /\ b.min <= inserting /\ inserting < End(b)
    BY <1>1, <2>1, BucketAt DEF BucketOf
  <2> HIDE DEF b
  <2>3. b.depth = W /\ End(b) = b.min + 1 /\ b.min \in Nat
    BY <2>2, SpanFacts, BucketNumbers, KeyspaceAssumption DEF Bucket, End
  <2>4. \A id \in IDs : b.min <= id /\ id < End(b) => id = b.min
    BY <2>3 DEF IDs
  <2>5. inserting = b.min
    BY <2>1, <2>2, <2>4, TableAssumption
  <2>6. 1 \in DOMAIN b.nodes /\ Len(b.nodes) = K
    BY <2>2, LenProperties, TableAssumption DEF NoRoomIn, IsFull
  <2>7. b.nodes[1].id \in IdsOf(b.nodes)
    BY <2>6 DEF IdsOf
  <2>8. b.nodes[1].id = b.min
    <3>1. b.nodes[1].id \in IDs
      BY <2>2, <2>7, EntryInIDs
    <3> QED BY <3>1, <2>2, <2>4, <2>7 DEF InOrder, ListOK
  <2> QED BY <2>5, <2>7, <2>8 DEF NoRoomIn
<1> QED BY <1>1, SpecIInv, PTL

\* The buckets are dyadic, sorted and disjoint and cover the keyspace.
THEOREM PartitionHolds == Spec => []Partition
<1>1. ASSUME IInv PROVE Partition
  <2>1. /\ buckets \in Seq(Bucket) /\ Tiled(buckets)
        /\ Len(buckets) \in Nat /\ DOMAIN buckets = 1..Len(buckets)
        /\ \A i \in DOMAIN buckets : buckets[i] \in Bucket /\ RangeOK(buckets[i])
    BY <1>1, LenProperties, ElementOfSeq DEF IInv, TypeOK, InOrder
  <2>2. ASSUME NEW i \in DOMAIN buckets
        PROVE  buckets[i].max = IF i = Len(buckets) THEN 0 ELSE buckets[i+1].min
    <3>1. CASE i = Len(buckets)
      BY <2>1, <3>1 DEF Tiled, RangeOK
    <3>2. CASE i # Len(buckets)
      <4>1. i \in 1..(Len(buckets) - 1) /\ i + 1 \in DOMAIN buckets
        BY <2>1, <3>2
      <4>2. buckets[i+1].min = End(buckets[i])
        BY <2>1, <4>1 DEF Tiled
      <4>3. buckets[i+1].min # Span[0]
        <5>1. buckets[i+1].min \in 0 .. (Span[0] - 1) /\ Span[0] \in Nat
          BY <2>1, <4>1, SpanFacts DEF Bucket, IDs
        <5> QED BY <5>1
      <4> QED BY <2>1, <3>2, <4>2, <4>3 DEF RangeOK
    <3> QED BY <3>1, <3>2
  <2>3. ASSUME NEW i \in DOMAIN buckets
        PROVE  Cardinality({id \in IDs : Contains(buckets[i], id)}) = Span[buckets[i].depth]
    <3> DEFINE b == buckets[i]
               held == {id \in IDs : Contains(b, id)}
    <3>1. b \in Bucket /\ RangeOK(b)
      BY <2>1
    <3> HIDE DEF b
    <3>2. /\ b.min \in Nat /\ Span[b.depth] \in Nat \ {0} /\ End(b) = b.min + Span[b.depth]
          /\ End(b) <= Span[0] /\ Span[0] \in Nat
      BY <3>1, BucketNumbers, SpanFacts DEF RangeOK, End
    <3>3. \A id \in IDs : Contains(b, id) <=> b.min <= id /\ id < End(b)
      BY <3>1, ContainsMeans
    <3>4. held = b.min .. (End(b) - 1)
      BY <3>2, <3>3 DEF IDs
    <3>5. Cardinality(b.min .. (End(b) - 1)) = Span[b.depth]
      <4>1. End(b) - 1 \in Int /\ ~ (b.min > End(b) - 1) /\ (End(b) - 1) - b.min + 1 = Span[b.depth]
        BY <3>2
      <4> DEFINE last == End(b) - 1
      <4>2. b.min \in Int /\ last \in Int
        BY <3>2, <4>1
      <4> HIDE DEF last
      <4>3. Cardinality(b.min .. last) = IF b.min > last THEN 0 ELSE last - b.min + 1
        BY <4>2, FS_Interval
      <4> QED BY <4>1, <4>3 DEF last
    <3> QED BY <3>4, <3>5 DEF b
  <2>4. ASSUME NEW id \in IDs
        PROVE  \E i \in DOMAIN buckets : Contains(buckets[i], id)
    BY <2>1, BucketForFinds, ContainsMeans
  <2> QED BY <2>2, <2>3, <2>4 DEF Partition
<1> QED BY <1>1, SpecIInv, PTL

\* An ID has at most one entry in the whole table.
THEOREM OneEntry == Spec => []OneEntryPerNode
<1>1. ASSUME IInv PROVE OneEntryPerNode
  <2> DEFINE all(b) == b.nodes \o b.cache
  <2>1. buckets \in Seq(Bucket) /\ Tiled(buckets)
    BY <1>1 DEF IInv, TypeOK
  <2>2. ASSUME NEW i \in DOMAIN buckets
        PROVE  /\ buckets[i].nodes \in Seq(Node) /\ buckets[i].cache \in Seq(Node)
               /\ InOrder(buckets[i])
    <3>1. buckets[i] \in Bucket
      BY <2>1, LenProperties, ElementOfSeq
    <3> QED BY <1>1, <3>1 DEF IInv, Bucket
  <2>3. ASSUME NEW i \in DOMAIN buckets, NEW p \in DOMAIN all(buckets[i])
        PROVE  \/ /\ p \in DOMAIN buckets[i].nodes
                  /\ all(buckets[i])[p] = buckets[i].nodes[p]
               \/ /\ p - Len(buckets[i].nodes) \in DOMAIN buckets[i].cache
                  /\ p \in Nat /\ Len(buckets[i].nodes) \in Nat
                  /\ all(buckets[i])[p] = buckets[i].cache[p - Len(buckets[i].nodes)]
    <3> DEFINE ns == buckets[i].nodes
               cs == buckets[i].cache
    <3>1. ns \in Seq(Node) /\ cs \in Seq(Node) /\ p \in DOMAIN (ns \o cs)
      BY <2>2
    <3> HIDE DEF ns, cs
    <3>2. Len(ns) \in Nat /\ Len(cs) \in Nat /\ DOMAIN ns = 1..Len(ns) /\ DOMAIN cs = 1..Len(cs)
          /\ p \in 1..(Len(ns) + Len(cs))
      BY <3>1, LenProperties, ConcatProperties
    <3>3. (ns \o cs)[p] = IF p <= Len(ns) THEN ns[p] ELSE cs[p - Len(ns)]
      BY <3>1, <3>2
    <3>4. \/ p \in DOMAIN ns /\ (ns \o cs)[p] = ns[p]
          \/ /\ p - Len(ns) \in DOMAIN cs /\ p \in Nat /\ Len(ns) \in Nat
             /\ (ns \o cs)[p] = cs[p - Len(ns)]
      BY <3>2, <3>3
    <3> QED BY <3>4 DEF ns, cs
  <2>4. ASSUME NEW i \in DOMAIN buckets, NEW p \in DOMAIN all(buckets[i])
        PROVE  BucketFor(all(buckets[i])[p].id) = i
    <3> DEFINE id == all(buckets[i])[p].id
    <3>1. id \in IdsOf(buckets[i].nodes) \cup IdsOf(buckets[i].cache)
      BY <2>3, <2>4 DEF IdsOf
    <3> HIDE DEF id
    <3>2. id \in IDs
      BY <2>2, <3>1, EntryInIDs
    <3>3. buckets[i].min <= id /\ id < End(buckets[i])
      BY <2>2, <3>1 DEF InOrder, ListOK
    <3>4. BucketFor(id) = i
      BY <2>1, <3>2, <3>3, BucketForFinds
    <3> QED BY <3>4 DEF id
  <2>5. ASSUME NEW i \in DOMAIN buckets,
               NEW p \in DOMAIN all(buckets[i]), NEW q \in DOMAIN all(buckets[i]),
               all(buckets[i])[p].id = all(buckets[i])[q].id
        PROVE  p = q
    <3> DEFINE ns == buckets[i].nodes
               cs == buckets[i].cache
               a == all(buckets[i])
    <3>1. Distinct(ns) /\ Distinct(cs) /\ IdsOf(ns) \cap IdsOf(cs) = {}
      BY <2>2 DEF InOrder, ListOK
    <3>6. ASSUME NEW x \in DOMAIN ns, NEW y \in DOMAIN cs PROVE ns[x].id # cs[y].id
      <4> HIDE DEF ns, cs
      <4> QED BY <3>1 DEF IdsOf
    <3>2. /\ \/ p \in DOMAIN ns /\ a[p] = ns[p]
             \/ p - Len(ns) \in DOMAIN cs /\ p \in Nat /\ Len(ns) \in Nat /\ a[p] = cs[p - Len(ns)]
          /\ \/ q \in DOMAIN ns /\ a[q] = ns[q]
             \/ q - Len(ns) \in DOMAIN cs /\ q \in Nat /\ Len(ns) \in Nat /\ a[q] = cs[q - Len(ns)]
      BY <2>3
    <3>3. a[p].id = a[q].id
      BY <2>5
    <3> HIDE DEF ns, cs, a
    <3>4. CASE p \in DOMAIN ns /\ a[p] = ns[p] /\ q \in DOMAIN ns /\ a[q] = ns[q]
      BY <3>1, <3>3, <3>4 DEF Distinct
    <3>5. CASE /\ p - Len(ns) \in DOMAIN cs /\ p \in Nat /\ Len(ns) \in Nat
               /\ a[p] = cs[p - Len(ns)]
               /\ q - Len(ns) \in DOMAIN cs /\ q \in Nat /\ a[q] = cs[q - Len(ns)]
      <4>1. p - Len(ns) = q - Len(ns)
        BY <3>1, <3>3, <3>5 DEF Distinct
      <4> QED BY <4>1, <3>5
    <3> QED BY <3>6, <3>2, <3>3, <3>4, <3>5
  <2> SUFFICES ASSUME NEW i \in DOMAIN buckets, NEW j \in DOMAIN buckets,
                      NEW p \in DOMAIN all(buckets[i]), NEW q \in DOMAIN all(buckets[j]),
                      all(buckets[i])[p].id = all(buckets[j])[q].id
               PROVE  i = j /\ p = q
    BY DEF OneEntryPerNode
  <2>6. i = j
    <3>1. BucketFor(all(buckets[i])[p].id) = i
      BY <2>4
    <3>2. BucketFor(all(buckets[j])[q].id) = j
      BY <2>4
    <3> HIDE DEF all
    <3> QED BY <3>1, <3>2
  <2> HIDE DEF all
  <2> QED BY <2>5, <2>6
<1> QED BY <1>1, SpecIInv, PTL

-----------------------------------------------------------------------------
(* RoutingTable implements NodeRegistry: read as the set of its entries,   *)
(* the table changes only as the registry does.  Every action either       *)
(* leaves that set alone (a split, a dropped newcomer, the start of an     *)
(* insert) or replaces the entry of the one ID it was called for.          *)

\* The entries of a list, of a bucket and of the whole table, without their order.
Entries(s) == {s[i] : i \in DOMAIN s}

EntriesOf(b) == Entries(b.nodes) \cup Entries(b.cache)

Table(bs) == UNION {EntriesOf(bs[i]) : i \in DOMAIN bs}

\* The members of E that are not entries for id.
Others(E, id) == {n \in E : n.id # id}

Entry(id, c) == [id |-> id, failures |-> c]

\* The failure count of every known node: what the registry keeps.
Counts == [id \in Stored |-> FailuresOf(id)]

-----------------------------------------------------------------------------
(* What the operations on a list do to its entries.                        *)

LEMMA EntriesAreNodes ==
    ASSUME NEW s \in Seq(Node)
    PROVE  /\ Entries(s) \subseteq Node
           /\ IdsOf(s) = {n.id : n \in Entries(s)}
<1>1. \A i \in DOMAIN s : s[i] \in Node
  BY LenProperties, ElementOfSeq
<1> QED BY <1>1 DEF Entries, IdsOf

\* Changing the count of one entry of a list without duplicates.
LEMMA OneEntryChanges ==
    ASSUME NEW s \in Seq(Node), Distinct(s), NEW p \in DOMAIN s, NEW c \in Nat
    PROVE  Entries([s EXCEPT ![p].failures = c]) =
             Others(Entries(s), s[p].id) \cup {Entry(s[p].id, c)}
<1> DEFINE new == Entry(s[p].id, c)
           t == [s EXCEPT ![p] = new]
<1>1. \A i \in DOMAIN s : s[i] \in Node
  BY LenProperties, ElementOfSeq
<1>2. [s EXCEPT ![p].failures = c] = t
  <2>1. [s[p] EXCEPT !.failures = c] = new
    BY <1>1 DEF Node, Entry
  <2>2. [s EXCEPT ![p].failures = c] = [s EXCEPT ![p] = [s[p] EXCEPT !.failures = c]]
    OBVIOUS
  <2> HIDE DEF new
  <2> QED BY <2>1, <2>2
<1>3. DOMAIN t = DOMAIN s /\ \A i \in DOMAIN s : t[i] = IF i = p THEN new ELSE s[i]
  OBVIOUS
<1> HIDE DEF t, new
<1>4. \A i \in DOMAIN s : i # p <=> s[i].id # s[p].id
  BY DEF Distinct
<1>5. Entries(t) = Others(Entries(s), s[p].id) \cup {new}
  BY <1>3, <1>4 DEF Entries, Others
<1> QED BY <1>2, <1>5 DEF new

LEMMA RefreshedEntries ==
    ASSUME NEW s \in Seq(Node), Distinct(s), NEW id \in IdsOf(s)
    PROVE  Entries(Refreshed(s, id)) = Others(Entries(s), id) \cup {Entry(id, 0)}
<1>1. Pos(s, id) \in DOMAIN s /\ s[Pos(s, id)].id = id
  BY PosFinds
<1>2. Refreshed(s, id) = [s EXCEPT ![Pos(s, id)].failures = 0]
  BY DEF Refreshed
<1>3. 0 \in Nat
  OBVIOUS
<1>4. Entries([s EXCEPT ![Pos(s, id)].failures = 0])
        = Others(Entries(s), s[Pos(s, id)].id) \cup {Entry(s[Pos(s, id)].id, 0)}
  BY <1>1, <1>3, OneEntryChanges
<1> QED BY <1>1, <1>2, <1>4

LEMMA FailedEntries ==
    ASSUME NEW s \in Seq(Node), Distinct(s), NEW id \in IdsOf(s)
    PROVE  LET c == s[Pos(s, id)].failures
               t == Failed(s, id)
           IN  /\ c \in Nat /\ Entry(id, c) \in Entries(s)
               /\ Entries(t) = Others(Entries(s), id) \cup {Entry(id, c + 1)}
               /\ IsBad(t[Pos(t, id)]) <=> c + 1 >= BadThreshold
<1> DEFINE p == Pos(s, id)
           c == s[p].failures
           t == Failed(s, id)
<1>1. p \in DOMAIN s /\ s[p].id = id
  BY PosFinds
<1>2. s[p] \in Node /\ \A i \in DOMAIN s : s[i] \in Node
  BY <1>1, LenProperties, ElementOfSeq
<1>3. c \in Nat /\ s[p] = Entry(id, c)
  BY <1>1, <1>2 DEF Node, Entry
<1>4. t = [s EXCEPT ![p].failures = c + 1]
  BY DEF Failed
<1>5. Entries(t) = Others(Entries(s), id) \cup {Entry(id, c + 1)}
  <2>1. c + 1 \in Nat
    BY <1>3
  <2> HIDE DEF p, t, c
  <2>2. Entries([s EXCEPT ![p].failures = c + 1]) =
          Others(Entries(s), s[p].id) \cup {Entry(s[p].id, c + 1)}
    BY <1>1, <2>1, OneEntryChanges
  <2> QED BY <1>1, <1>4, <2>2
<1>6. IsBad(t[Pos(t, id)]) <=> c + 1 >= BadThreshold
  <2>1. t \in Seq(Node) /\ IdsOf(t) = IdsOf(s) /\ Distinct(t)
    BY FailedKeeps
  <2>2. Pos(t, id) \in DOMAIN t /\ t[Pos(t, id)].id = id
    <3> HIDE DEF t
    <3> QED BY <2>1, PosFinds
  <2>3. DOMAIN t = DOMAIN s /\ t[p].id = id /\ t[p].failures = c + 1
    <3> HIDE DEF p, t
    <3> QED BY <1>1, <1>2, <1>3, <1>4 DEF Node
  <2> HIDE DEF p, t
  <2>4. Pos(t, id) = p
    BY <1>1, <2>1, <2>2, <2>3 DEF Distinct
  <2> QED BY <2>3, <2>4 DEF IsBad
<1>7. Entry(id, c) \in Entries(s)
  BY <1>1, <1>3 DEF Entries
<1> HIDE DEF p, t
<1> QED BY <1>3, <1>5, <1>6, <1>7 DEF p, t

LEMMA WithoutEntries ==
    ASSUME NEW s \in Seq(Node), Distinct(s), NEW id \in IdsOf(s)
    PROVE  Entries(Without(s, id)) = Others(Entries(s), id)
<1> DEFINE p == Pos(s, id)
           t == Without(s, id)
<1>1. p \in 1..Len(s) /\ s[p].id = id /\ Len(s) \in Nat /\ DOMAIN s = 1..Len(s)
  BY PosFinds, LenProperties
<1>2. t = [i \in 1..(Len(s) - 1) |-> IF i < p THEN s[i] ELSE s[i+1]]
  BY DEF Without
<1> HIDE DEF p, t
<1>3. \A i \in DOMAIN s : i # p <=> s[i].id # id
  BY <1>1 DEF Distinct
<1>4. ASSUME NEW i \in DOMAIN t PROVE t[i] \in Others(Entries(s), id)
  <2>1. CASE i < p
    BY <1>1, <1>2, <1>3, <2>1 DEF Entries, Others
  <2>2. CASE ~ (i < p)
    <3>1. i + 1 \in DOMAIN s /\ i + 1 # p /\ t[i] = s[i + 1]
      BY <1>1, <1>2, <2>2
    <3> QED BY <3>1, <1>3 DEF Entries, Others
  <2> QED BY <2>1, <2>2
<1>5. ASSUME NEW i \in DOMAIN s, s[i].id # id PROVE s[i] \in Entries(t)
  <2>1. CASE i < p
    <3>1. i \in DOMAIN t /\ t[i] = s[i]
      BY <1>1, <1>2, <2>1
    <3> QED BY <3>1 DEF Entries
  <2>2. CASE i > p
    <3>1. i - 1 \in DOMAIN t /\ t[i - 1] = s[i]
      BY <1>1, <1>2, <2>2
    <3> QED BY <3>1 DEF Entries
  <2> QED BY <1>1, <1>3, <1>5, <2>1, <2>2
<1>6. Entries(t) = Others(Entries(s), id)
  BY <1>4, <1>5 DEF Entries, Others
<1> QED BY <1>6 DEF t

LEMMA AppendEntries ==
    ASSUME NEW s \in Seq(Node), NEW n \in Node
    PROVE  Entries(Append(s, n)) = Entries(s) \cup {n}
<1> DEFINE t == Append(s, n)
<1>1. /\ Len(s) \in Nat /\ DOMAIN s = 1..Len(s) /\ DOMAIN t = 1..(Len(s) + 1)
      /\ \A i \in 1..Len(s) : t[i] = s[i]
      /\ t[Len(s) + 1] = n
  BY AppendProperties, LenProperties
<1> HIDE DEF t
<1>2. /\ \A i \in DOMAIN s : i \in DOMAIN t /\ t[i] = s[i]
      /\ \A i \in DOMAIN t : i \in DOMAIN s \/ i = Len(s) + 1
      /\ Len(s) + 1 \in DOMAIN t
  BY <1>1
<1>3. Entries(t) = Entries(s) \cup {n}
  BY <1>1, <1>2 DEF Entries
<1> QED BY <1>3 DEF t

LEMMA TailEntries ==
    ASSUME NEW s \in Seq(Node), s # <<>>
    PROVE  Entries(s) = Entries(Tail(s)) \cup {Head(s)}
<1> DEFINE t == Tail(s)
<1>1. /\ Len(s) \in Nat \ {0} /\ DOMAIN s = 1..Len(s) /\ Head(s) = s[1]
      /\ DOMAIN t = 1..(Len(s) - 1) /\ \A i \in DOMAIN t : t[i] = s[i + 1]
  BY LenProperties, HeadTailProperties, EmptySeq
<1> HIDE DEF t
<1>2. /\ \A i \in DOMAIN t : i + 1 \in DOMAIN s
      /\ \A i \in DOMAIN s : i = 1 \/ (i - 1 \in DOMAIN t /\ t[i - 1] = s[i])
      /\ 1 \in DOMAIN s
  BY <1>1
<1>3. Entries(s) = Entries(t) \cup {s[1]}
  BY <1>1, <1>2 DEF Entries
<1> QED BY <1>1, <1>3 DEF t

LEMMA KeptEntries ==
    ASSUME NEW s \in Seq(Node), NEW S
    PROVE  Entries(Kept(s, S)) = {n \in Entries(s) : n.id \in S}
<1> DEFINE t == Kept(s, S)
<1>1. /\ Extracted(t, s) /\ IdsOf(t) \subseteq S
      /\ \A i \in DOMAIN s : s[i].id \in S => \E n \in DOMAIN t : t[n] = s[i]
  BY KeptExtracts
<1> HIDE DEF t
<1>2. \A i \in DOMAIN t : t[i] \in Entries(s) /\ t[i].id \in S
  BY <1>1 DEF Extracted, IdsOf, Entries
<1>3. Entries(t) = {n \in Entries(s) : n.id \in S}
  BY <1>1, <1>2 DEF Entries
<1> QED BY <1>3 DEF t

-----------------------------------------------------------------------------
(* The table as the set of its entries.                                    *)

\* Every entry is a node with the count that a search for its ID finds.
EntriesTellCounts ==
    /\ Table(buckets) \subseteq Node
    /\ Stored = {n.id : n \in Table(buckets)}
    /\ \A n \in Table(buckets) : FailuresOf(n.id) = n.failures

\* An entry of a bucket is one that the search for its ID finds there.
LEMMA EntriesInBucket ==
    ASSUME IInv, NEW i \in DOMAIN buckets
    PROVE  LET b == buckets[i] IN
           /\ b \in Bucket /\ InOrder(b)
           /\ b.nodes \in Seq(Node) /\ b.cache \in Seq(Node)
           /\ Distinct(b.nodes) /\ Distinct(b.cache)
           /\ EntriesOf(b) \subseteq Node
           /\ IdsOf(b.nodes) \cup IdsOf(b.cache) = {n.id : n \in EntriesOf(b)}
           /\ \A n \in EntriesOf(b) : BucketFor(n.id) = i
<1> DEFINE b == buckets[i]
<1>1. buckets \in Seq(Bucket) /\ Tiled(buckets) /\ InOrder(b)
  BY DEF IInv, TypeOK
<1>2. b \in Bucket
  BY <1>1, LenProperties, ElementOfSeq
<1>3. b.nodes \in Seq(Node) /\ b.cache \in Seq(Node)
  BY <1>2 DEF Bucket
<1> HIDE DEF b
<1>4. /\ EntriesOf(b) \subseteq Node
      /\ IdsOf(b.nodes) \cup IdsOf(b.cache) = {n.id : n \in EntriesOf(b)}
  BY <1>3, EntriesAreNodes DEF EntriesOf
<1>5. ASSUME NEW n \in EntriesOf(b) PROVE BucketFor(n.id) = i
  <2>1. n.id \in IDs
    BY <1>4 DEF Node
  <2>2. n.id \in IdsOf(b.nodes) \cup IdsOf(b.cache)
    BY <1>4
  <2>3. b.min <= n.id /\ n.id < End(b)
    BY <1>1, <2>2 DEF InOrder, ListOK
  <2> QED BY <1>1, <2>1, <2>3, BucketForFinds DEF b
<1>6. Distinct(b.nodes) /\ Distinct(b.cache)
  BY <1>1 DEF InOrder, ListOK
<1> QED BY <1>1, <1>2, <1>3, <1>4, <1>5, <1>6 DEF b

LEMMA InvTellsCounts == IInv => EntriesTellCounts
<1> SUFFICES ASSUME IInv PROVE EntriesTellCounts
  OBVIOUS
<1>1. Table(buckets) \subseteq Node
  BY EntriesInBucket DEF Table
<1>2. Stored = {n.id : n \in Table(buckets)}
  <2>1. \A i \in DOMAIN buckets :
           IdsOf(buckets[i].nodes) \cup IdsOf(buckets[i].cache) = {n.id : n \in EntriesOf(buckets[i])}
    BY EntriesInBucket
  <2>2. Stored = UNION {{n.id : n \in EntriesOf(buckets[i])} : i \in DOMAIN buckets}
    BY <2>1 DEF Stored
  <2> QED BY <2>2 DEF Table
<1>3. ASSUME NEW n \in Table(buckets) PROVE FailuresOf(n.id) = n.failures
  <2>1. PICK i \in DOMAIN buckets : n \in EntriesOf(buckets[i])
    BY DEF Table
  <2> DEFINE b == buckets[i]
  <2>2. /\ b.nodes \in Seq(Node) /\ b.cache \in Seq(Node)
        /\ Distinct(b.nodes) /\ Distinct(b.cache)
        /\ IdsOf(b.nodes) \cap IdsOf(b.cache) = {}
        /\ BucketOf(n.id) = b
    BY <2>1, EntriesInBucket DEF InOrder, BucketOf
  <2>3. n \in Entries(b.nodes) \/ n \in Entries(b.cache)
    BY <2>1 DEF EntriesOf
  <2> HIDE DEF b
  <2>4. ASSUME NEW s \in Seq(Node), Distinct(s), n \in Entries(s)
        PROVE  n.id \in IdsOf(s) /\ s[Pos(s, n.id)] = n
    <3>1. PICK k \in DOMAIN s : s[k] = n
      BY <2>4 DEF Entries
    <3>2. n.id \in IdsOf(s)
      BY <3>1 DEF IdsOf
    <3>3. Pos(s, n.id) \in DOMAIN s /\ s[Pos(s, n.id)].id = n.id
      BY <3>2, PosFinds
    <3> QED BY <2>4, <3>1, <3>2, <3>3 DEF Distinct
  <2>5. CASE n \in Entries(b.nodes)
    BY <2>2, <2>4, <2>5 DEF FailuresOf
  <2>6. CASE n \in Entries(b.cache)
    <3>1. n.id \in IdsOf(b.cache) /\ b.cache[Pos(b.cache, n.id)] = n
      BY <2>2, <2>4, <2>6
    <3> QED BY <2>2, <3>1 DEF FailuresOf
  <2> QED BY <2>3, <2>5, <2>6
<1> QED BY <1>1, <1>2, <1>3 DEF EntriesTellCounts

LEMMA InvTellsCountsNext == IInv' => EntriesTellCounts'
BY InvTellsCounts, PTL

\* The counts are those of the entries, before and after a step.
LEMMA CountsOfEntries ==
    ASSUME EntriesTellCounts
    PROVE  /\ DOMAIN Counts = {n.id : n \in Table(buckets)}
           /\ \A n \in Table(buckets) : n \in Node /\ Counts[n.id] = n.failures
BY DEF EntriesTellCounts, Counts

LEMMA CountsStay ==
    ASSUME IInv, IInv', Table(buckets') = Table(buckets)
    PROVE  Counts' = Counts
<1>1. EntriesTellCounts /\ EntriesTellCounts'
  BY InvTellsCounts, InvTellsCountsNext
<1>2. Stored' = Stored
  BY <1>1 DEF EntriesTellCounts
<1>3. \A id \in Stored : FailuresOf(id)' = FailuresOf(id)
  BY <1>1 DEF EntriesTellCounts
<1> QED BY <1>2, <1>3 DEF Counts

LEMMA CountsSet ==
    ASSUME IInv, IInv', NEW id, NEW c \in Nat,
           Table(buckets') = Others(Table(buckets), id) \cup {Entry(id, c)}
    PROVE  Counts' = [m \in Stored \cup {id} |-> IF m = id THEN c ELSE Counts[m]]
<1>1. EntriesTellCounts /\ EntriesTellCounts'
  BY InvTellsCounts, InvTellsCountsNext
<1>2. Stored' = Stored \cup {id}
  <2>1. Stored = {n.id : n \in Table(buckets)} /\ Stored' = {n.id : n \in Table(buckets')}
    BY <1>1 DEF EntriesTellCounts
  <2>2. Entry(id, c).id = id
    BY DEF Entry
  <2> DEFINE E == Table(buckets)
             e == Entry(id, c)
  <2> HIDE DEF E, e
  <2>3. Stored = {n.id : n \in E} /\ Stored' = {n.id : n \in Others(E, id) \cup {e}} /\ e.id = id
    BY <2>1, <2>2 DEF E, e
  <2> QED BY <2>3 DEF Others
<1>3. FailuresOf(id)' = c
  <2>1. Entry(id, c) \in Table(buckets') /\ Entry(id, c).id = id /\ Entry(id, c).failures = c
    BY DEF Entry
  <2> QED BY <1>1, <2>1 DEF EntriesTellCounts
<1>4. ASSUME NEW m \in Stored, m # id PROVE FailuresOf(m)' = FailuresOf(m)
  BY <1>1, <1>4 DEF EntriesTellCounts, Others
<1>5. \A m \in Stored \cup {id} :
        FailuresOf(m)' = IF m = id THEN c ELSE Counts[m]
  BY <1>3, <1>4 DEF Counts
<1> QED BY <1>2, <1>5 DEF Counts

LEMMA CountsForget ==
    ASSUME IInv, IInv', NEW id, Table(buckets') = Others(Table(buckets), id)
    PROVE  Counts' = [m \in Stored \ {id} |-> Counts[m]]
<1>1. EntriesTellCounts /\ EntriesTellCounts'
  BY InvTellsCounts, InvTellsCountsNext
<1>2. Stored' = Stored \ {id}
  BY <1>1 DEF EntriesTellCounts, Others
<1>3. ASSUME NEW m \in Stored \ {id} PROVE FailuresOf(m)' = FailuresOf(m)
  BY <1>1, <1>3 DEF EntriesTellCounts, Others
<1>4. \A m \in Stored \ {id} : FailuresOf(m)' = Counts[m]
  BY <1>3 DEF Counts
<1> QED BY <1>2, <1>4 DEF Counts

-----------------------------------------------------------------------------
(* What an action does to the table.                                       *)

\* New lists in the bucket of id, which differ from the old ones in the entry of
\* id only, change the table in that entry only.
LEMMA TableChanges ==
    ASSUME IInv, NEW id \in Peers, NEW b, NEW X,
           EntriesOf(b) = Others(EntriesOf(BucketOf(id)), id) \cup X,
           buckets' = [buckets EXCEPT ![BucketFor(id)] = b]
    PROVE  Table(buckets') = Others(Table(buckets), id) \cup X
<1> DEFINE i == BucketFor(id)
<1>1. i \in DOMAIN buckets
  BY BucketAt
<1>2. /\ DOMAIN buckets' = DOMAIN buckets
      /\ \A k \in DOMAIN buckets : buckets'[k] = IF k = i THEN b ELSE buckets[k]
  OBVIOUS
<1>3. \A k \in DOMAIN buckets : \A n \in EntriesOf(buckets[k]) : k # i => n.id # id
  BY EntriesInBucket
<1>4. EntriesOf(b) = Others(EntriesOf(buckets[i]), id) \cup X
  BY DEF BucketOf
<1> HIDE DEF i
<1>5. ASSUME NEW n \in Table(buckets') PROVE n \in Others(Table(buckets), id) \cup X
  <2>1. PICK k \in DOMAIN buckets : n \in EntriesOf(buckets'[k])
    BY <1>2 DEF Table
  <2> QED BY <1>1, <1>2, <1>3, <1>4, <2>1 DEF Table, Others
<1>6. ASSUME NEW n \in Table(buckets), n.id # id PROVE n \in Table(buckets')
  <2>1. PICK k \in DOMAIN buckets : n \in EntriesOf(buckets[k])
    BY DEF Table
  <2>2. n \in EntriesOf(buckets'[k])
    BY <1>1, <1>2, <1>4, <1>6, <2>1 DEF Others
  <2> QED BY <1>2, <2>2 DEF Table
<1>7. ASSUME NEW n \in X PROVE n \in Table(buckets')
  BY <1>1, <1>2, <1>4 DEF Table
<1> QED BY <1>5, <1>6, <1>7 DEF Others

\* The search for an ID finds an entry exactly if the node is known.
LEMMA KnownIsFound ==
    ASSUME IInv, NEW id \in Peers
    PROVE  /\ id \in Stored <=> id \in IdsOf(BucketOf(id).nodes) \cup IdsOf(BucketOf(id).cache)
           /\ DOMAIN Counts = Stored
           /\ \A c : Entry(id, c) \in EntriesOf(BucketOf(id)) => id \in Stored /\ Counts[id] = c
<1> DEFINE i == BucketFor(id)
<1>1. i \in DOMAIN buckets /\ BucketOf(id) = buckets[i]
  BY BucketAt DEF BucketOf
<1>2. ASSUME id \in Stored PROVE id \in IdsOf(buckets[i].nodes) \cup IdsOf(buckets[i].cache)
  <2>1. PICK k \in DOMAIN buckets : id \in IdsOf(buckets[k].nodes) \cup IdsOf(buckets[k].cache)
    BY <1>2 DEF Stored
  <2>2. PICK n \in EntriesOf(buckets[k]) : n.id = id
    <3>1. IdsOf(buckets[k].nodes) \cup IdsOf(buckets[k].cache) = {n.id : n \in EntriesOf(buckets[k])}
      BY EntriesInBucket
    <3>2. id \in {n.id : n \in EntriesOf(buckets[k])}
      BY <2>1, <3>1
    <3> QED BY <3>2
  <2>3. k = i
    BY <2>2, EntriesInBucket
  <2> QED BY <2>1, <2>3
<1>3. ASSUME NEW c, Entry(id, c) \in EntriesOf(buckets[i])
      PROVE  id \in Stored /\ Counts[id] = c
  <2>1. Entry(id, c) \in Table(buckets) /\ Entry(id, c).id = id /\ Entry(id, c).failures = c
    BY <1>1, <1>3 DEF Table, Entry
  <2>2. EntriesTellCounts
    BY InvTellsCounts
  <2> QED BY <2>1, <2>2 DEF EntriesTellCounts, Counts
<1>4. (id \in IdsOf(buckets[i].nodes) \cup IdsOf(buckets[i].cache)) => id \in Stored
  BY <1>1 DEF Stored
<1> QED BY <1>1, <1>2, <1>3, <1>4 DEF Counts

\* Refreshing a known node, and admitting an unknown one.
LEMMA EntryIsFresh ==
    ASSUME IInv, IInv', NEW id \in Peers, NEW b,
           EntriesOf(b) = Others(EntriesOf(BucketOf(id)), id) \cup {Entry(id, 0)},
           buckets' = [buckets EXCEPT ![BucketFor(id)] = b]
    PROVE  IF id \in Stored THEN Registry!Refresh(id) ELSE Registry!Admit(id)
<1>1. Table(buckets') = Others(Table(buckets), id) \cup {Entry(id, 0)}
  BY TableChanges
<1>2. Counts' = [m \in Stored \cup {id} |-> IF m = id THEN 0 ELSE Counts[m]]
  <2>1. 0 \in Nat
    OBVIOUS
  <2> QED BY <1>1, <2>1, CountsSet
<1>3. Counts = [m \in Stored |-> Counts[m]]
  BY DEF Counts
<1>4. CASE id \in Stored
  <2>1. Counts' = [Counts EXCEPT ![id] = 0]
    BY <1>2, <1>3, <1>4
  <2> QED BY <1>3, <1>4, <2>1 DEF Registry!Refresh, Registry!Known, Counts
<1>5. CASE id \notin Stored
  BY <1>2, <1>3, <1>5 DEF Registry!Admit, Registry!Known, Counts
<1> QED BY <1>4, <1>5

\* One more failure of a known node, which leaves the table if that makes it bad.
LEMMA EntryFails ==
    ASSUME IInv, IInv', NEW id \in Peers, NEW b, NEW c \in Nat,
           Entry(id, c) \in EntriesOf(BucketOf(id)),
           EntriesOf(b) = Others(EntriesOf(BucketOf(id)), id) \cup
                            (IF c + 1 >= BadThreshold THEN {} ELSE {Entry(id, c + 1)}),
           buckets' = [buckets EXCEPT ![BucketFor(id)] = b]
    PROVE  Registry!Count(id) \/ Registry!Forget(id)
<1>1. id \in Stored /\ Counts[id] = c
  BY KnownIsFound
<1>2. Counts = [m \in Stored |-> Counts[m]]
  BY DEF Counts
<1>3. CASE c + 1 >= BadThreshold
  <2>1. Table(buckets') = Others(Table(buckets), id)
    BY <1>3, TableChanges
  <2>2. Counts' = [m \in Stored \ {id} |-> Counts[m]]
    BY <2>1, CountsForget
  <2> QED BY <1>1, <1>2, <1>3, <2>2 DEF Registry!Forget, Registry!Known, Counts
<1>4. CASE ~ (c + 1 >= BadThreshold)
  <2>1. Table(buckets') = Others(Table(buckets), id) \cup {Entry(id, c + 1)}
    BY <1>4, TableChanges
  <2>2. Counts' = [m \in Stored \cup {id} |-> IF m = id THEN c + 1 ELSE Counts[m]]
    <3>1. c + 1 \in Nat
      OBVIOUS
    <3> QED BY <2>1, <3>1, CountsSet
  <2>3. Counts' = [Counts EXCEPT ![id] = @ + 1]
    BY <1>1, <1>2, <2>2
  <2>4. Counts[id] + 1 < BadThreshold
    BY <1>1, <1>4, TableAssumption
  <2> QED BY <1>1, <1>2, <2>3, <2>4 DEF Registry!Count, Registry!Known, Counts
<1> QED BY <1>3, <1>4

-----------------------------------------------------------------------------
(* The actions, as the registry sees them.                                 *)

\* What every action knows of the entries of the bucket it works on.
LEMMA EntriesAt ==
    ASSUME IInv, NEW id \in Peers
    PROVE  LET b == BucketOf(id) IN
           /\ BucketFor(id) \in DOMAIN buckets /\ b = buckets[BucketFor(id)]
           /\ b \in Bucket /\ InOrder(b)
           /\ b.nodes \in Seq(Node) /\ b.cache \in Seq(Node)
           /\ Distinct(b.nodes) /\ Distinct(b.cache)
           /\ id \in IdsOf(b.nodes) => Others(Entries(b.cache), id) = Entries(b.cache)
           /\ id \in IdsOf(b.cache) => Others(Entries(b.nodes), id) = Entries(b.nodes)
           /\ \A s \in Seq(Node) : id \notin IdsOf(s) => Others(Entries(s), id) = Entries(s)
<1> DEFINE b == BucketOf(id)
<1>1. BucketFor(id) \in DOMAIN buckets /\ b = buckets[BucketFor(id)]
  BY BucketAt DEF BucketOf
<1>2. /\ b \in Bucket /\ InOrder(b)
      /\ b.nodes \in Seq(Node) /\ b.cache \in Seq(Node)
      /\ Distinct(b.nodes) /\ Distinct(b.cache)
  BY <1>1, EntriesInBucket
<1>3. ASSUME NEW s \in Seq(Node), id \notin IdsOf(s)
      PROVE  Others(Entries(s), id) = Entries(s)
  BY <1>3 DEF Others, Entries, IdsOf
<1>4. IdsOf(b.nodes) \cap IdsOf(b.cache) = {}
  BY <1>2 DEF InOrder
<1> HIDE DEF b
<1>5. /\ id \in IdsOf(b.nodes) => id \notin IdsOf(b.cache)
      /\ id \in IdsOf(b.cache) => id \notin IdsOf(b.nodes)
  BY <1>4
<1> QED BY <1>1, <1>2, <1>3, <1>5 DEF b

\* Refreshing an active node, by an insert or by MarkSuccess.
LEMMA ActiveRefreshed ==
    ASSUME IInv, IInv', NEW id \in Peers, id \in IdsOf(BucketOf(id).nodes),
           buckets' = [buckets EXCEPT ![BucketFor(id)].nodes = Refreshed(@, id)]
    PROVE  Registry!Refresh(id)
<1> DEFINE b == BucketOf(id)
           new == [b EXCEPT !.nodes = Refreshed(b.nodes, id)]
<1>1. /\ BucketFor(id) \in DOMAIN buckets /\ b = buckets[BucketFor(id)] /\ b \in Bucket
      /\ b.nodes \in Seq(Node) /\ Distinct(b.nodes)
      /\ Others(Entries(b.cache), id) = Entries(b.cache)
  BY EntriesAt
<1>2. buckets' = [buckets EXCEPT ![BucketFor(id)] = new]
  BY <1>1
<1> HIDE DEF b
<1>3. new.nodes = Refreshed(b.nodes, id) /\ new.cache = b.cache
  BY <1>1 DEF Bucket
<1>4. Entries(Refreshed(b.nodes, id)) = Others(Entries(b.nodes), id) \cup {Entry(id, 0)}
  BY <1>1, RefreshedEntries DEF b
<1>5. EntriesOf(new) = Others(EntriesOf(b), id) \cup {Entry(id, 0)}
  <2> HIDE DEF new
  <2> QED BY <1>1, <1>3, <1>4 DEF EntriesOf, Others
<1>6. id \in Stored
  BY KnownIsFound
<1> HIDE DEF new
<1> QED BY <1>2, <1>5, <1>6, EntryIsFresh DEF b

LEMMA InsertUpdatesRefreshes ==
    ASSUME IInv, IInv', InsertUpdates
    PROVE  Registry!Refresh(inserting)
<1>1. inserting \in Peers
  BY DEF IInv, TypeOK, InsertUpdates
<1> QED BY <1>1, ActiveRefreshed DEF InsertUpdates, BucketOf

LEMMA MarkSuccessRefreshes ==
    ASSUME IInv, IInv', NEW id \in Peers, MarkSuccess(id)
    PROVE  Registry!Refresh(id)
BY ActiveRefreshed DEF MarkSuccess, BucketOf

\* A bucket with room has no candidates, so an ID that is not active is unknown.
LEMMA InsertAppendsAdmits ==
    ASSUME IInv, IInv', InsertAppends
    PROVE  Registry!Admit(inserting)
<1> DEFINE id == inserting
           b == BucketOf(id)
           ns == Append(b.nodes, NewNode(id))
           new == [b EXCEPT !.nodes = ns]
<1>1. id \in Peers /\ id \in IDs
  BY TableAssumption DEF IInv, TypeOK, InsertAppends
<1>2. id \notin IdsOf(b.nodes) /\ ~ IsFull(b)
  BY DEF InsertAppends, BucketOf
<1>3. /\ BucketFor(id) \in DOMAIN buckets /\ b = buckets[BucketFor(id)] /\ b \in Bucket
      /\ b.nodes \in Seq(Node) /\ InOrder(b)
      /\ Others(Entries(b.nodes), id) = Entries(b.nodes)
  BY <1>1, <1>2, EntriesAt
<1>4. buckets' = [buckets EXCEPT ![BucketFor(id)] = new]
  BY <1>3 DEF InsertAppends
<1> HIDE DEF b
<1>5. b.cache = <<>>
  BY <1>2, <1>3 DEF InOrder
<1>6. new.nodes = ns /\ new.cache = b.cache
  BY <1>3 DEF Bucket
<1>7. Entries(ns) = Entries(b.nodes) \cup {Entry(id, 0)}
  <2>1. NewNode(id) \in Node /\ NewNode(id) = Entry(id, 0)
    BY <1>1 DEF NewNode, Node, Entry
  <2> QED BY <1>3, <2>1, AppendEntries
<1>8. Entries(b.cache) = {} /\ IdsOf(b.cache) = {}
  BY <1>5 DEF Entries, IdsOf
<1>9. EntriesOf(new) = Others(EntriesOf(b), id) \cup {Entry(id, 0)}
  <2> HIDE DEF new, ns
  <2> QED BY <1>3, <1>6, <1>7, <1>8 DEF EntriesOf, Others
<1>10. id \notin Stored
  BY <1>1, <1>2, <1>8, KnownIsFound DEF b
<1> HIDE DEF new
<1> QED BY <1>1, <1>4, <1>9, <1>10, EntryIsFresh DEF b

\* A newcomer to a full bucket waits as a candidate, or its candidate is refreshed.
LEMMA InsertCachesAdmits ==
    ASSUME IInv, IInv', InsertCaches
    PROVE  Registry!Admit(inserting)
<1> DEFINE id == inserting
           b == BucketOf(id)
           cs == Append(b.cache, NewNode(id))
           new == [b EXCEPT !.cache = cs]
<1>1. id \in Peers /\ id \in IDs
  BY TableAssumption DEF IInv, TypeOK, InsertCaches, NoRoomIn
<1>2. id \notin IdsOf(b.nodes) /\ id \notin IdsOf(b.cache)
  BY DEF InsertCaches, NoRoomIn, BucketOf
<1>3. /\ BucketFor(id) \in DOMAIN buckets /\ b = buckets[BucketFor(id)] /\ b \in Bucket
      /\ b.nodes \in Seq(Node) /\ b.cache \in Seq(Node)
      /\ Others(Entries(b.nodes), id) = Entries(b.nodes)
      /\ Others(Entries(b.cache), id) = Entries(b.cache)
  BY <1>1, <1>2, EntriesAt
<1>4. buckets' = [buckets EXCEPT ![BucketFor(id)] = new]
  BY <1>3 DEF InsertCaches
<1> HIDE DEF b
<1>5. new.nodes = b.nodes /\ new.cache = cs
  BY <1>3 DEF Bucket
<1>6. Entries(cs) = Entries(b.cache) \cup {Entry(id, 0)}
  <2>1. NewNode(id) \in Node /\ NewNode(id) = Entry(id, 0)
    BY <1>1 DEF NewNode, Node, Entry
  <2> QED BY <1>3, <2>1, AppendEntries
<1>7. EntriesOf(new) = Others(EntriesOf(b), id) \cup {Entry(id, 0)}
  <2> HIDE DEF new, cs
  <2> QED BY <1>3, <1>5, <1>6 DEF EntriesOf, Others
<1>8. id \notin Stored
  BY <1>1, <1>2, KnownIsFound DEF b
<1> HIDE DEF new
<1> QED BY <1>1, <1>4, <1>7, <1>8, EntryIsFresh DEF b

LEMMA InsertUpdatesCacheRefreshes ==
    ASSUME IInv, IInv', InsertUpdatesCache
    PROVE  Registry!Refresh(inserting)
<1> DEFINE id == inserting
           b == BucketOf(id)
           cs == Refreshed(b.cache, id)
           new == [b EXCEPT !.cache = cs]
<1>1. id \in Peers
  BY DEF IInv, TypeOK, InsertUpdatesCache, NoRoomIn
<1>2. id \in IdsOf(b.cache)
  BY DEF InsertUpdatesCache, BucketOf
<1>3. /\ BucketFor(id) \in DOMAIN buckets /\ b = buckets[BucketFor(id)] /\ b \in Bucket
      /\ b.cache \in Seq(Node) /\ Distinct(b.cache)
      /\ Others(Entries(b.nodes), id) = Entries(b.nodes)
  BY <1>1, <1>2, EntriesAt
<1>4. buckets' = [buckets EXCEPT ![BucketFor(id)] = new]
  BY <1>3 DEF InsertUpdatesCache
<1> HIDE DEF b
<1>5. new.nodes = b.nodes /\ new.cache = cs
  BY <1>3 DEF Bucket
<1>6. Entries(cs) = Others(Entries(b.cache), id) \cup {Entry(id, 0)}
  BY <1>2, <1>3, RefreshedEntries
<1>7. EntriesOf(new) = Others(EntriesOf(b), id) \cup {Entry(id, 0)}
  <2> HIDE DEF new, cs
  <2> QED BY <1>3, <1>5, <1>6 DEF EntriesOf, Others
<1>8. id \in Stored
  BY <1>1, <1>2, KnownIsFound DEF b
<1> HIDE DEF new
<1> QED BY <1>1, <1>4, <1>7, <1>8, EntryIsFresh DEF b

\* An eviction loses the evicted node only: the promoted candidate keeps its count.
LEMMA EvictedEntries ==
    ASSUME NEW b \in Bucket, InOrder(b), NEW id \in IdsOf(b.nodes)
    PROVE  EntriesOf(Evicted(b, id)) = Others(EntriesOf(b), id)
<1> DEFINE rest == Without(b.nodes, id)
           c == Evicted(b, id)
<1>1. /\ b.nodes \in Seq(Node) /\ b.cache \in Seq(Node)
      /\ Distinct(b.nodes) /\ id \notin IdsOf(b.cache)
  BY DEF Bucket, InOrder, ListOK
<1>2. Entries(rest) = Others(Entries(b.nodes), id)
  BY <1>1, WithoutEntries
<1>3. Others(Entries(b.cache), id) = Entries(b.cache)
  BY <1>1 DEF Others, Entries, IdsOf
<1>4. CASE b.cache = <<>>
  <2>1. c = [b EXCEPT !.nodes = rest]
    BY <1>4 DEF Evicted
  <2> HIDE DEF rest, c
  <2>2. c.nodes = rest /\ c.cache = b.cache
    BY <2>1 DEF Bucket
  <2>3. EntriesOf(c) = Others(EntriesOf(b), id)
    BY <1>2, <1>3, <2>2 DEF EntriesOf, Others
  <2> QED BY <2>3 DEF c
<1>5. CASE b.cache # <<>>
  <2> DEFINE n == Head(b.cache)
             cs == Tail(b.cache)
             ns == Append(rest, n)
  <2>1. c = [b EXCEPT !.nodes = ns, !.cache = cs]
    BY <1>5 DEF Evicted
  <2>2. rest \in Seq(Node) /\ n \in Node
    BY <1>1, <1>5, WithoutExtracts, TailExtracts DEF Extracted
  <2>3. Entries(b.cache) = Entries(cs) \cup {n}
    BY <1>1, <1>5, TailEntries
  <2>4. Entries(ns) = Entries(rest) \cup {n}
    <3> HIDE DEF rest, n
    <3> QED BY <2>2, AppendEntries
  <2> HIDE DEF rest, n, cs, ns, c
  <2>5. c.nodes = ns /\ c.cache = cs
    BY <2>1 DEF Bucket
  <2>6. EntriesOf(c) = Others(EntriesOf(b), id)
    BY <1>2, <1>3, <2>3, <2>4, <2>5 DEF EntriesOf, Others
  <2> QED BY <2>6 DEF c
<1> QED BY <1>4, <1>5

LEMMA MarkFailureActiveCounts ==
    ASSUME IInv, IInv', NEW id \in Peers, MarkFailureActive(id)
    PROVE  Registry!Count(id) \/ Registry!Forget(id)
<1> DEFINE b == BucketOf(id)
           failed == Failed(b.nodes, id)
           c == b.nodes[Pos(b.nodes, id)].failures
           new == IF IsBad(failed[Pos(failed, id)])
                  THEN Evicted(b, id)
                  ELSE [b EXCEPT !.nodes = failed]
<1>1. id \in IdsOf(b.nodes)
  BY DEF MarkFailureActive, BucketOf
<1>2. /\ b = buckets[BucketFor(id)] /\ b \in Bucket /\ InOrder(b)
      /\ b.nodes \in Seq(Node) /\ Distinct(b.nodes)
      /\ Others(Entries(b.cache), id) = Entries(b.cache)
  BY <1>1, EntriesAt
<1>3. buckets' = [buckets EXCEPT ![BucketFor(id)] = new]
  BY <1>2 DEF MarkFailureActive
<1> HIDE DEF b
<1>4. /\ c \in Nat /\ Entry(id, c) \in Entries(b.nodes)
      /\ Entries(failed) = Others(Entries(b.nodes), id) \cup {Entry(id, c + 1)}
      /\ IsBad(failed[Pos(failed, id)]) <=> c + 1 >= BadThreshold
  BY <1>1, <1>2, FailedEntries
<1>5. Entry(id, c) \in EntriesOf(b)
  BY <1>4 DEF EntriesOf
<1> HIDE DEF c, failed
<1>6. EntriesOf(new) = Others(EntriesOf(b), id) \cup
                         (IF c + 1 >= BadThreshold THEN {} ELSE {Entry(id, c + 1)})
  <2>1. CASE IsBad(failed[Pos(failed, id)])
    <3>1. new = Evicted(b, id) /\ c + 1 >= BadThreshold
      BY <1>4, <2>1
    <3>2. EntriesOf(Evicted(b, id)) = Others(EntriesOf(b), id)
      BY <1>1, <1>2, EvictedEntries
    <3> HIDE DEF new
    <3> QED BY <3>1, <3>2
  <2>2. CASE ~ IsBad(failed[Pos(failed, id)])
    <3>1. new.nodes = failed /\ new.cache = b.cache /\ ~ (c + 1 >= BadThreshold)
      BY <1>2, <1>4, <2>2 DEF Bucket
    <3> HIDE DEF new
    <3>2. EntriesOf(new) = Others(EntriesOf(b), id) \cup {Entry(id, c + 1)}
      BY <1>2, <1>4, <3>1 DEF EntriesOf, Others
    <3> QED BY <3>1, <3>2
  <2> QED BY <2>1, <2>2
<1> HIDE DEF new
<1>7. c \in Nat
  BY <1>4
<1> QED BY <1>3, <1>5, <1>6, <1>7, EntryFails DEF b

LEMMA MarkFailureCachedCounts ==
    ASSUME IInv, IInv', NEW id \in Peers, MarkFailureCached(id)
    PROVE  Registry!Count(id) \/ Registry!Forget(id)
<1> DEFINE b == BucketOf(id)
           failed == Failed(b.cache, id)
           c == b.cache[Pos(b.cache, id)].failures
           cs == IF IsBad(failed[Pos(failed, id)]) THEN Without(b.cache, id) ELSE failed
           new == [b EXCEPT !.cache = cs]
<1>1. id \in IdsOf(b.cache)
  BY DEF MarkFailureCached, BucketOf
<1>2. /\ b = buckets[BucketFor(id)] /\ b \in Bucket
      /\ b.cache \in Seq(Node) /\ Distinct(b.cache)
      /\ Others(Entries(b.nodes), id) = Entries(b.nodes)
  BY <1>1, EntriesAt
<1>3. buckets' = [buckets EXCEPT ![BucketFor(id)] = new]
  BY <1>2 DEF MarkFailureCached
<1> HIDE DEF b
<1>4. /\ c \in Nat /\ Entry(id, c) \in Entries(b.cache)
      /\ Entries(failed) = Others(Entries(b.cache), id) \cup {Entry(id, c + 1)}
      /\ IsBad(failed[Pos(failed, id)]) <=> c + 1 >= BadThreshold
  BY <1>1, <1>2, FailedEntries
<1>5. Entry(id, c) \in EntriesOf(b)
  BY <1>4 DEF EntriesOf
<1>6. Entries(cs) = Others(Entries(b.cache), id) \cup
                      (IF c + 1 >= BadThreshold THEN {} ELSE {Entry(id, c + 1)})
  <2>1. CASE IsBad(failed[Pos(failed, id)])
    <3>1. Entries(Without(b.cache, id)) = Others(Entries(b.cache), id)
      BY <1>1, <1>2, WithoutEntries
    <3>2. cs = Without(b.cache, id) /\ c + 1 >= BadThreshold
      BY <1>4, <2>1
    <3> HIDE DEF c, cs
    <3> QED BY <3>1, <3>2
  <2>2. CASE ~ IsBad(failed[Pos(failed, id)])
    <3>1. cs = failed /\ ~ (c + 1 >= BadThreshold)
      BY <1>4, <2>2
    <3> HIDE DEF c, cs, failed
    <3> QED BY <1>4, <3>1
  <2> QED BY <2>1, <2>2
<1>7. new.nodes = b.nodes /\ new.cache = cs
  <2> HIDE DEF cs
  <2> QED BY <1>2 DEF Bucket
<1> HIDE DEF new, c, cs
<1>8. EntriesOf(new) = Others(EntriesOf(b), id) \cup
                         (IF c + 1 >= BadThreshold THEN {} ELSE {Entry(id, c + 1)})
  BY <1>2, <1>6, <1>7 DEF EntriesOf, Others
<1>9. c \in Nat
  BY <1>4
<1> QED BY <1>3, <1>5, <1>8, <1>9, EntryFails DEF b

-----------------------------------------------------------------------------
(* A split moves entries only.                                             *)

\* Every entry of a split bucket is in exactly one half, the one of its range.
LEMMA HalvesEntries ==
    ASSUME NEW b \in Bucket
    PROVE  EntriesOf(LeftHalf(b)) \cup EntriesOf(RightHalf(b)) = EntriesOf(b)
<1> DEFINE mid == b.min + Span[b.depth + 1]
           low == [b EXCEPT !.max = mid, !.depth = @ + 1]
           left == [b EXCEPT !.max = mid]
           lowIds == {id \in IDs : Contains(low, id)}
           highIds == {id \in IDs : ~ Contains(left, id)}
           l == LeftHalf(b)
           r == RightHalf(b)
<1>1. b.nodes \in Seq(Node) /\ b.cache \in Seq(Node)
  BY DEF Bucket
<1>2. l.nodes = Kept(b.nodes, lowIds) /\ l.cache = Kept(b.cache, lowIds)
  BY DEF LeftHalf, Bucket
<1>3. r.nodes = Kept(b.nodes, highIds) /\ r.cache = Kept(b.cache, highIds)
  BY DEF RightHalf, Bucket
<1>4. lowIds \cup highIds = IDs
  BY DEF Contains, Bucket
<1> HIDE DEF lowIds, highIds, l, r
<1>5. ASSUME NEW s \in Seq(Node)
      PROVE  Entries(Kept(s, lowIds)) \cup Entries(Kept(s, highIds)) = Entries(s)
  <2>1. \A n \in Entries(s) : n.id \in IDs
    BY EntriesAreNodes DEF Node
  <2>2. /\ Entries(Kept(s, lowIds)) = {n \in Entries(s) : n.id \in lowIds}
        /\ Entries(Kept(s, highIds)) = {n \in Entries(s) : n.id \in highIds}
    BY KeptEntries
  <2> QED BY <1>4, <2>1, <2>2
<1>6. EntriesOf(l) \cup EntriesOf(r) = EntriesOf(b)
  BY <1>1, <1>2, <1>3, <1>5 DEF EntriesOf
<1> QED BY <1>6 DEF l, r

LEMMA InsertSplitsStutters ==
    ASSUME IInv, IInv', InsertSplits
    PROVE  Counts' = Counts
<1> DEFINE i == BucketFor(inserting)
           b == buckets[i]
           l == LeftHalf(b)
           r == RightHalf(b)
           n == Len(buckets)
<1>1. inserting \in Peers
  BY DEF IInv, TypeOK, InsertSplits, NoRoomIn
<1>2. i \in DOMAIN buckets /\ b \in Bucket
  BY <1>1, BucketAt
<1>3. buckets' = Replaced(i, l, r)
  BY DEF InsertSplits
<1>4. EntriesOf(l) \cup EntriesOf(r) = EntriesOf(b)
  <2> HIDE DEF b
  <2> QED BY <1>2, HalvesEntries
<1>5. n \in Nat /\ DOMAIN buckets = 1..n /\ i \in 1..n
  BY <1>2, LenProperties DEF IInv, TypeOK
<1> HIDE DEF i, l, r
<1>6. /\ DOMAIN buckets' = 1..(n + 1)
      /\ \A j \in 1..(n + 1) :
           buckets'[j] = IF j < i THEN buckets[j] ELSE IF j = i THEN l
                         ELSE IF j = i + 1 THEN r ELSE buckets[j - 1]
  BY <1>3, <1>5 DEF Replaced
<1> HIDE DEF n, b
<1>7. ASSUME NEW e \in Table(buckets') PROVE e \in Table(buckets)
  <2>1. PICK j \in 1..(n + 1) : e \in EntriesOf(buckets'[j])
    BY <1>6 DEF Table
  <2>2. CASE j < i
    BY <1>5, <1>6, <2>1, <2>2 DEF Table
  <2>3. CASE j = i \/ j = i + 1
    <3>1. e \in EntriesOf(b)
      BY <1>4, <1>5, <1>6, <2>1, <2>3
    <3> QED BY <1>2, <3>1 DEF Table, b
  <2>4. CASE j > i + 1
    <3>1. j - 1 \in DOMAIN buckets /\ buckets'[j] = buckets[j - 1]
      BY <1>5, <1>6, <2>4
    <3> QED BY <2>1, <3>1 DEF Table
  <2> QED BY <1>5, <2>2, <2>3, <2>4
<1>8. ASSUME NEW e \in Table(buckets) PROVE e \in Table(buckets')
  <2>1. PICK k \in 1..n : e \in EntriesOf(buckets[k])
    BY <1>5 DEF Table
  <2>2. CASE k < i
    <3>1. k \in DOMAIN buckets' /\ buckets'[k] = buckets[k]
      BY <1>5, <1>6, <2>2
    <3> QED BY <2>1, <3>1 DEF Table
  <2>3. CASE k = i
    <3>1. i \in DOMAIN buckets' /\ buckets'[i] = l /\ i + 1 \in DOMAIN buckets' /\ buckets'[i + 1] = r
      BY <1>5, <1>6
    <3>2. e \in EntriesOf(l) \/ e \in EntriesOf(r)
      BY <1>4, <2>1, <2>3 DEF b
    <3> QED BY <3>1, <3>2 DEF Table
  <2>4. CASE k > i
    <3>1. k + 1 \in DOMAIN buckets' /\ buckets'[k + 1] = buckets[(k + 1) - 1]
      BY <1>5, <1>6, <2>4
    <3>2. (k + 1) - 1 = k
      BY <1>5
    <3> QED BY <2>1, <3>1, <3>2 DEF Table
  <2> QED BY <1>5, <2>2, <2>3, <2>4
<1>9. Table(buckets') = Table(buckets)
  BY <1>7, <1>8
<1> QED BY <1>9, CountsStay

-----------------------------------------------------------------------------
(* The refinement.                                                         *)

\* Before the first insert the registry is empty.
LEMMA InitRegistry == Init => Registry!Init
<1> SUFFICES ASSUME Init PROVE Counts = [id \in {} |-> 0]
  BY DEF Registry!Init, Counts
<1>1. Stored = {}
  BY DEF Init, Stored, IdsOf
<1> QED BY <1>1 DEF Counts

\* Every step of the table is a step of the registry or leaves it alone.
LEMMA NextRegistry == IInv /\ IInv' /\ [Next]_vars => [Registry!Next]_Counts
<1> SUFFICES ASSUME IInv, IInv', [Next]_vars PROVE Registry!Next \/ Counts' = Counts
  OBVIOUS
<1>1. CASE InsertUpdates
  <2>1. inserting \in Peers
    BY <1>1 DEF IInv, TypeOK, InsertUpdates
  <2> QED BY <1>1, <2>1, InsertUpdatesRefreshes DEF Registry!Next
<1>2. CASE InsertAppends
  <2>1. inserting \in Peers
    BY <1>2 DEF IInv, TypeOK, InsertAppends
  <2> QED BY <1>2, <2>1, InsertAppendsAdmits DEF Registry!Next
<1>3. CASE InsertSplits
  BY <1>3, InsertSplitsStutters
<1>4. CASE InsertUpdatesCache
  <2>1. inserting \in Peers
    BY <1>4 DEF IInv, TypeOK, InsertUpdatesCache, NoRoomIn
  <2> QED BY <1>4, <2>1, InsertUpdatesCacheRefreshes DEF Registry!Next
<1>5. CASE InsertCaches
  <2>1. inserting \in Peers
    BY <1>5 DEF IInv, TypeOK, InsertCaches, NoRoomIn
  <2> QED BY <1>5, <2>1, InsertCachesAdmits DEF Registry!Next
<1>6. CASE UNCHANGED buckets
  BY <1>6, CountsStay
<1>7. ASSUME NEW id \in Peers, MarkSuccess(id) PROVE Registry!Next
  BY <1>7, MarkSuccessRefreshes DEF Registry!Next
<1>8. ASSUME NEW id \in Peers, MarkFailure(id) PROVE Registry!Next
  BY <1>8, MarkFailureActiveCounts, MarkFailureCachedCounts DEF MarkFailure, Registry!Next
<1>9. InsertDrops \/ (\E id \in Peers : Insert(id)) \/ UNCHANGED vars => UNCHANGED buckets
  BY DEF InsertDrops, Insert, vars
<1> QED
  BY <1>1, <1>2, <1>3, <1>4, <1>5, <1>6, <1>7, <1>8, <1>9 DEF Next, InsertStep

\* A known node leaves the table only by the failure that makes it bad, and its
\* count moves only by its own failures and refreshes.
THEOREM RegistryImplemented == Spec => ImplementsRegistry
<1>1. IInv /\ IInv' /\ [Next]_vars => [Registry!Next]_Counts
  BY NextRegistry
<1> QED BY <1>1, InitRegistry, SpecIInv, PTL DEF Spec, ImplementsRegistry, Registry!Spec, Counts

=============================================================================
