------------------------- MODULE ServerTablesProofs -------------------------
(***************************************************************************)
(* The invariants of IPLimiter and of PeerStore, for any number of         *)
(* addresses, workers, infohashes and peers and any limits.                *)
(***************************************************************************)
EXTENDS PeerStore, IPLimiter, FiniteSetTheorems, FunctionTheorems, SequenceTheorems, TLAPS

-----------------------------------------------------------------------------
(* The limiter: what an address may still be allowed.                      *)

\* Workers that missed: they have found no bucket for ip and may yet make one.
Missed(ip) == {w \in Workers : worker[w].step \in {"unknown", "create"} /\ worker[w].ip = ip}

\* A bucket is of use to ip while it is cached for it or a worker is about to ask it.
Serves(b, ip) ==
    \/ ip \in Cached /\ clients[ip] = b
    \/ \E w \in Workers : worker[w].step = "known" /\ worker[w].ip = ip /\ worker[w].bucket = b

\* The tokens left in the buckets of use to ip.
Left(ip) == {t \in Buckets \X (1..Burst) : Serves(t[1], ip) /\ t[2] <= tokens[t[1]]}

\* Until an address is active again in a bucket the cleanup will not delete, it
\* has had at most one bucket since it was last silent.
Unsettled(ip) == ip \in silent \/ ip \in condemned \/ ip \notin Cached

Creating == {w \in Workers : worker[w].step = "create"}

BucketsHeld ==
    \A w \in Workers :
        IF worker[w].step = "known" THEN worker[w].bucket \in Buckets ELSE worker[w].bucket = NoBucket

OneOwner ==
    \A b \in Buckets : \A i, j \in IPs : Serves(b, i) /\ Serves(b, j) => i = j

\* What an address was allowed, what is left for it and what those that missed may
\* yet add: one bucketful while it is unsettled, later one more for each worker.
Bounded(ip) ==
    /\ ip \in Cached /\ Unsettled(ip) => Missed(ip) = {}
    /\ Unsettled(ip) => allowed[ip] + Cardinality(Left(ip)) <= Burst
    /\ allowed[ip] + Cardinality(Left(ip)) + Cardinality(Missed(ip)) * Burst
         <= (Cardinality(Workers) + 1) * Burst

RoomForCreators ==
    MaxSize > 0 => Cardinality(Cached) + Cardinality(Creating) <= MaxSize + Cardinality(Workers) - 1

LimiterIInv ==
    /\ LimiterTypeOK
    /\ IsFiniteSet(Cached)
    /\ condemned \subseteq Cached
    /\ BucketsHeld
    /\ OneOwner
    /\ \A ip \in IPs : Bounded(ip)
    /\ RoomForCreators

-----------------------------------------------------------------------------
(* The peer store: its map, its list, its history, its cache and what it   *)
(* last returned.                                                          *)

PeersOK(peers) ==
    /\ DOMAIN peers \subseteq Peers /\ peers \in [DOMAIN peers -> 0..TTL]
    /\ IsFiniteSet(DOMAIN peers) /\ Cardinality(DOMAIN peers) \in 1..MaxPeersPerHash

EntriesOK ==
    /\ Known \subseteq Hashes /\ IsFiniteSet(Known) /\ Cardinality(Known) <= MaxHashes
    /\ \A h \in Known : PeersOK(entries[h])

NoDuplicates(s) == \A i, j \in DOMAIN s : s[i] = s[j] => i = j

ListOK ==
    /\ index = Known
    /\ order \in Seq(Hashes) /\ ToSet(order) = Known /\ NoDuplicates(order)

\* A stored peer is stamped with the age of its last announce.
StampsMatch ==
    \A h \in Known : \A p \in DOMAIN entries[h] : entries[h][p] = announced[h][p]

HistoryOK ==
    /\ announced \in [Hashes -> [Peers -> 0..TTL]]
    /\ stored \in [Hashes -> 0..SampleTTL]
    /\ StampsMatch
    /\ \A h \in Known : stored[h] = 0

\* What the cached sample names was stored when it was taken.
CacheOK ==
    /\ cache \in [samples : SUBSET Hashes, age : 0..SampleTTL]
    /\ cache.age < SampleTTL => \A h \in cache.samples : stored[h] <= cache.age

OutputsOK ==
    /\ served \in [Hashes -> SUBSET Peers] /\ sampled \subseteq Hashes
    /\ ServedPeersAreLive
    /\ SampledWasStored

StoreIInv == EntriesOK /\ ListOK /\ HistoryOK /\ CacheOK /\ OutputsOK

-----------------------------------------------------------------------------
(* Counting tokens and workers.                                            *)

LEMMA TokensCount ==
    ASSUME NEW S \in SUBSET (Buckets \X (1..Burst))
    PROVE  IsFiniteSet(S) /\ Cardinality(S) \in Nat
<1>1. IsFiniteSet(1..Burst)
  BY IPLimiterAssumption, FS_Interval
<1>2. IsFiniteSet(Buckets \X (1..Burst))
  BY <1>1, IPLimiterAssumption, FS_Product
<1>3. IsFiniteSet(S)
  BY <1>2, FS_Subset
<1> QED BY <1>3, FS_CardinalityType

\* A bucket has at most Burst tokens.
LEMMA BucketTokens ==
    ASSUME NEW b
    PROVE  IsFiniteSet({b} \X (1..Burst)) /\ Cardinality({b} \X (1..Burst)) = Burst
<1>1. IsFiniteSet(1..Burst) /\ Cardinality(1..Burst) = Burst
  BY IPLimiterAssumption, FS_Interval
<1>2. IsFiniteSet({b}) /\ Cardinality({b}) = 1
  BY FS_Singleton
<1>3. /\ IsFiniteSet({b} \X (1..Burst))
      /\ Cardinality({b} \X (1..Burst)) = Cardinality({b}) * Cardinality(1..Burst)
  BY <1>1, <1>2, FS_Product
<1> QED BY <1>1, <1>2, <1>3, IPLimiterAssumption

LEMMA WorkersCount ==
    /\ Cardinality(Workers) \in Nat
    /\ \A S \in SUBSET Workers :
         IsFiniteSet(S) /\ Cardinality(S) \in Nat /\ Cardinality(S) <= Cardinality(Workers)
<1>1. IsFiniteSet(Workers)
  BY IPLimiterAssumption
<1> QED BY <1>1, FS_Subset, FS_CardinalityType

\* More workers, more bursts.
LEMMA MoreBursts ==
    ASSUME NEW m \in Nat, NEW n \in Nat, m <= n
    PROVE  /\ m * Burst \in Nat /\ n * Burst \in Nat
           /\ m * Burst <= n * Burst
           /\ (m + 1) * Burst = m * Burst + Burst
<1>1. Burst \in Nat
  BY IPLimiterAssumption
<1>2. PICK d \in Nat : n = m + d
  <2>1. n - m \in Nat /\ n = m + (n - m)
    OBVIOUS
  <2> QED BY <2>1
<1>3. n * Burst = m * Burst + d * Burst
  BY <1>1, <1>2
<1>4. m * Burst \in Nat /\ n * Burst \in Nat /\ d * Burst \in Nat
  BY <1>1
<1> QED BY <1>1, <1>3, <1>4

LEMMA LeftInTokens ==
    /\ \A ip : Left(ip) \in SUBSET (Buckets \X (1..Burst))
    /\ \A ip : Missed(ip) \in SUBSET Workers
BY DEF Left, Missed

LEMMA LeftInTokensNext ==
    /\ \A ip : Left(ip)' \in SUBSET (Buckets \X (1..Burst))
    /\ \A ip : Missed(ip)' \in SUBSET Workers
BY DEF Left, Missed

\* A step that leaves an address no more than it had.
LEMMA NoMoreInAll ==
    ASSUME NEW ip \in IPs, Bounded(ip), allowed[ip] \in Nat, allowed'[ip] \in Nat,
           allowed'[ip] + Cardinality(Left(ip)') <= allowed[ip] + Cardinality(Left(ip)),
           Missed(ip)' \subseteq Missed(ip),
           Unsettled(ip)' => Unsettled(ip),
           (ip \in Cached)' => ip \in Cached
    PROVE  Bounded(ip)'
<1> DEFINE l == Cardinality(Left(ip))
           m == Cardinality(Missed(ip))
           ln == Cardinality(Left(ip)')
           mn == Cardinality(Missed(ip)')
<1>1. l \in Nat /\ ln \in Nat
  BY LeftInTokens, LeftInTokensNext, TokensCount
<1>2. m \in Nat /\ mn \in Nat /\ mn <= m
  BY LeftInTokens, LeftInTokensNext, WorkersCount, FS_Subset
<1>3. m * Burst \in Nat /\ mn * Burst \in Nat /\ mn * Burst <= m * Burst
  BY <1>2, MoreBursts
<1>4. /\ Unsettled(ip) => allowed[ip] + l <= Burst
      /\ allowed[ip] + l + m * Burst <= (Cardinality(Workers) + 1) * Burst
      /\ ip \in Cached /\ Unsettled(ip) => Missed(ip) = {}
  BY DEF Bounded
<1>5. (Cardinality(Workers) + 1) * Burst \in Nat /\ Burst \in Nat
  BY WorkersCount, MoreBursts, IPLimiterAssumption
<1>6. /\ Unsettled(ip)' => allowed'[ip] + ln <= Burst
      /\ allowed'[ip] + ln + mn * Burst <= (Cardinality(Workers) + 1) * Burst
      /\ (ip \in Cached)' /\ Unsettled(ip)' => Missed(ip)' = {}
  <2>1. allowed'[ip] + ln <= allowed[ip] + l
    OBVIOUS
  <2> HIDE DEF l, m, ln, mn
  <2> QED BY <1>1, <1>3, <1>4, <1>5, <2>1
<1> QED BY <1>6 DEF Bounded

LEMMA NoMoreForAddress ==
    ASSUME NEW ip \in IPs, Bounded(ip), allowed[ip] \in Nat,
           allowed'[ip] = allowed[ip],
           Left(ip)' \subseteq Left(ip),
           Missed(ip)' \subseteq Missed(ip),
           Unsettled(ip)' => Unsettled(ip),
           (ip \in Cached)' => ip \in Cached
    PROVE  Bounded(ip)'
<1>1. /\ Cardinality(Left(ip)) \in Nat /\ Cardinality(Left(ip)') \in Nat
      /\ Cardinality(Left(ip)') <= Cardinality(Left(ip))
  BY LeftInTokens, LeftInTokensNext, TokensCount, FS_Subset
<1> QED BY <1>1, NoMoreInAll

-----------------------------------------------------------------------------
(* The steps of the limiter.                                               *)

\* A step that puts nothing into the table and no worker before doing so.
LEMMA FewerInTable ==
    ASSUME LimiterIInv, Cached' \subseteq Cached, Creating' \subseteq Creating
    PROVE  IsFiniteSet(Cached') /\ RoomForCreators'
<1>1. /\ Cardinality(Creating') \in Nat /\ Cardinality(Creating) \in Nat
      /\ Cardinality(Creating') <= Cardinality(Creating)
  BY WorkersCount, FS_Subset DEF Creating
<1>2. IsFiniteSet(Cached) /\ Cardinality(Cached) \in Nat
  BY FS_CardinalityType DEF LimiterIInv
<1>3. IsFiniteSet(Cached') /\ Cardinality(Cached') \in Nat /\ Cardinality(Cached') <= Cardinality(Cached)
  BY <1>2, FS_Subset, FS_CardinalityType
<1>4. RoomForCreators'
  BY <1>1, <1>2, <1>3, WorkersCount, IPLimiterAssumption DEF LimiterIInv, RoomForCreators
<1> QED BY <1>3, <1>4

LEMMA FindKeeps ==
    ASSUME LimiterIInv, NEW w \in Workers, NEW ip \in IPs, Find(w, ip)
    PROVE  LimiterIInv'
<1>1. /\ worker[w].step = "idle"
      /\ UNCHANGED <<clients, tokens, silent, condemned, allowed>>
      /\ worker' = [worker EXCEPT ![w] =
                      IF ip \in Cached THEN [step |-> "known", ip |-> ip, bucket |-> clients[ip]]
                                       ELSE [step |-> "unknown", ip |-> ip, bucket |-> NoBucket]]
  BY DEF Find, Moves
<1>2. Cached' = Cached
  BY <1>1 DEF Cached
<1>3. LimiterTypeOK'
  BY <1>1, <1>2 DEF LimiterIInv, LimiterTypeOK
<1>4. /\ \A v \in Workers : v # w => worker'[v] = worker[v]
      /\ worker'[w] = IF ip \in Cached THEN [step |-> "known", ip |-> ip, bucket |-> clients[ip]]
                                       ELSE [step |-> "unknown", ip |-> ip, bucket |-> NoBucket]
  BY <1>1 DEF LimiterIInv, LimiterTypeOK
<1>5. BucketsHeld'
  BY <1>1, <1>4 DEF LimiterIInv, LimiterTypeOK, BucketsHeld
<1>6. \A b \in Buckets, i \in IPs : Serves(b, i)' => Serves(b, i)
  BY <1>1, <1>2, <1>4 DEF Serves
<1>7. OneOwner'
  BY <1>6 DEF LimiterIInv, OneOwner
<1>8. \A i \in IPs : Left(i)' \subseteq Left(i)
  BY <1>1, <1>6 DEF Left
<1>9. \A i \in IPs : Unsettled(i)' <=> Unsettled(i)
  BY <1>1, <1>2 DEF Unsettled
<1>10. \A i \in IPs : i # ip \/ ip \in Cached => Missed(i)' \subseteq Missed(i)
  BY <1>4 DEF Missed
<1>11. \A i \in IPs : allowed[i] \in Nat
  BY DEF LimiterIInv, LimiterTypeOK
<1>12. \A i \in IPs : i # ip \/ ip \in Cached => Bounded(i)'
  BY <1>1, <1>2, <1>8, <1>9, <1>10, <1>11, NoMoreForAddress DEF LimiterIInv
<1>13. ASSUME ip \notin Cached PROVE Bounded(ip)'
  <2> DEFINE l == Cardinality(Left(ip))
             ln == Cardinality(Left(ip)')
             m == Cardinality(Missed(ip)')
  <2>1. Unsettled(ip) /\ allowed[ip] + l <= Burst
    BY <1>13 DEF LimiterIInv, Bounded, Unsettled
  <2>2. l \in Nat /\ ln \in Nat /\ ln <= l
    BY <1>8, LeftInTokens, LeftInTokensNext, TokensCount, FS_Subset
  <2>3. m \in Nat /\ m <= Cardinality(Workers)
    BY LeftInTokensNext, WorkersCount
  <2>4. /\ m * Burst \in Nat /\ m * Burst <= Cardinality(Workers) * Burst
        /\ (Cardinality(Workers) + 1) * Burst = Cardinality(Workers) * Burst + Burst
        /\ Cardinality(Workers) * Burst \in Nat
    BY <2>3, WorkersCount, MoreBursts
  <2>5. /\ allowed'[ip] + ln <= Burst
        /\ allowed'[ip] + ln + m * Burst <= (Cardinality(Workers) + 1) * Burst
    <3> HIDE DEF l, ln, m
    <3> QED BY <1>1, <1>11, <2>1, <2>2, <2>4, IPLimiterAssumption
  <2> QED BY <1>2, <1>13, <2>5 DEF Bounded
<1>14. \A i \in IPs : Bounded(i)'
  BY <1>12, <1>13
<1>15. RoomForCreators'
  <2>1. Creating' \subseteq Creating
    BY <1>4 DEF Creating
  <2> QED BY <1>2, <2>1, FewerInTable
<1> QED BY <1>1, <1>2, <1>3, <1>5, <1>7, <1>14, <1>15 DEF LimiterIInv

LEMMA SizeKeeps ==
    ASSUME LimiterIInv, NEW w \in Workers, Size(w)
    PROVE  LimiterIInv'
<1>1. /\ worker[w].step = "unknown"
      /\ UNCHANGED <<clients, tokens, silent, condemned, allowed>>
      /\ \/ worker' = [worker EXCEPT ![w] = Idle] /\ worker'[w] = Idle
         \/ /\ MaxSize > 0 => ~ (Cardinality(Cached) >= MaxSize)
            /\ worker'[w] = [step |-> "create", ip |-> worker[w].ip, bucket |-> NoBucket]
            /\ worker' = [worker EXCEPT ![w] =
                            [step |-> "create", ip |-> worker[w].ip, bucket |-> NoBucket]]
  BY DEF Size, Moves, LimiterIInv, LimiterTypeOK
<1>2. Cached' = Cached
  BY <1>1 DEF Cached
<1>3. Idle \in [step : {"idle"}, ip : IPs, bucket : {NoBucket}]
  BY IPLimiterAssumption DEF Idle
<1>4. \A v \in Workers : v # w => worker'[v] = worker[v]
  BY <1>1 DEF LimiterIInv, LimiterTypeOK
<1>5. /\ worker'[w].step \in {"idle", "create"} /\ worker'[w].bucket = NoBucket
      /\ worker'[w].ip \in IPs
      /\ worker'[w].step = "create" => worker'[w].ip = worker[w].ip
  BY <1>1, <1>3 DEF LimiterIInv, LimiterTypeOK
<1>6. LimiterTypeOK'
  <2>1. worker' \in [Workers -> [step : {"idle", "known", "unknown", "create"}, ip : IPs,
                                 bucket : Buckets \cup {NoBucket}]]
    BY <1>1, <1>3 DEF LimiterIInv, LimiterTypeOK
  <2> QED BY <1>1, <1>2, <2>1 DEF LimiterIInv, LimiterTypeOK
<1>7. BucketsHeld'
  BY <1>4, <1>5 DEF LimiterIInv, BucketsHeld
<1>8. \A b \in Buckets, i \in IPs : Serves(b, i)' => Serves(b, i)
  BY <1>1, <1>2, <1>4, <1>5 DEF Serves
<1>9. OneOwner'
  BY <1>8 DEF LimiterIInv, OneOwner
<1>10. \A i \in IPs : Left(i)' \subseteq Left(i)
  BY <1>1, <1>8 DEF Left
<1>11. \A i \in IPs : Missed(i)' \subseteq Missed(i)
  BY <1>1, <1>4, <1>5 DEF Missed
<1>12. \A i \in IPs : Bounded(i)'
  <2>1. \A i \in IPs : allowed[i] \in Nat
    BY DEF LimiterIInv, LimiterTypeOK
  <2> QED BY <1>1, <1>2, <1>10, <1>11, <2>1, NoMoreForAddress DEF LimiterIInv, Unsettled
<1>13. RoomForCreators'
  <2>1. CASE worker'[w] = Idle
    <3>1. Creating' \subseteq Creating
      BY <1>3, <1>4, <2>1 DEF Creating
    <3> QED BY <1>2, <3>1, FewerInTable
  <2>2. CASE MaxSize > 0 => ~ (Cardinality(Cached) >= MaxSize)
    <3>1. Cardinality(Creating') \in Nat /\ Cardinality(Creating') <= Cardinality(Workers)
      BY WorkersCount DEF Creating
    <3>2. Cardinality(Cached) \in Nat
      BY FS_CardinalityType DEF LimiterIInv
    <3> QED BY <1>2, <2>2, <3>1, <3>2, WorkersCount, IPLimiterAssumption DEF RoomForCreators
  <2> QED BY <1>1, <2>1, <2>2
<1> QED BY <1>1, <1>2, <1>6, <1>7, <1>9, <1>12, <1>13 DEF LimiterIInv

\* The worker that missed makes good its bucketful: a fresh bucket, for ip only.
LEMMA SetKeeps ==
    ASSUME LimiterIInv, NEW w \in Workers, Set(w)
    PROVE  LimiterIInv'
<1>0. PICK ip \in IPs : ip = worker[w].ip
  BY DEF LimiterIInv, LimiterTypeOK
<1>1. PICK b \in Buckets \ InUse :
        /\ tokens' = [tokens EXCEPT ![b] = Burst]
        /\ clients' = [i \in Cached \cup {ip} |-> IF i = ip THEN b ELSE clients[i]]
        /\ worker' = [worker EXCEPT ![w] = [step |-> "known", ip |-> ip, bucket |-> b]]
  BY <1>0 DEF Set, Moves
<1>2. /\ worker[w].step = "create" /\ ip \in IPs
      /\ silent' = silent \ {ip} /\ UNCHANGED <<condemned, allowed>>
  BY <1>0 DEF Set
<1>3. /\ Cached' = Cached \cup {ip} /\ b \in Buckets
      /\ \A i \in Cached' : clients'[i] = IF i = ip THEN b ELSE clients[i]
  BY <1>1 DEF Cached
<1>4. /\ \A v \in Workers : v # w => worker'[v] = worker[v]
      /\ worker'[w] = [step |-> "known", ip |-> ip, bucket |-> b]
  BY <1>1 DEF LimiterIInv, LimiterTypeOK
<1>5. /\ \A c \in Buckets : c # b => tokens'[c] = tokens[c]
      /\ tokens'[b] = Burst
  BY <1>1 DEF LimiterIInv, LimiterTypeOK
<1>6. LimiterTypeOK'
  <2>1. worker' \in [Workers -> [step : {"idle", "known", "unknown", "create"}, ip : IPs,
                                 bucket : Buckets \cup {NoBucket}]]
    BY <1>1, <1>2, <1>3 DEF LimiterIInv, LimiterTypeOK
  <2>2. tokens' \in [Buckets -> 0..Burst]
    BY <1>1, IPLimiterAssumption DEF LimiterIInv, LimiterTypeOK
  <2>3. (Cached \subseteq IPs /\ \A i \in Cached : clients[i] \in Buckets)'
    BY <1>2, <1>3 DEF LimiterIInv, LimiterTypeOK
  <2> QED BY <1>2, <2>1, <2>2, <2>3 DEF LimiterIInv, LimiterTypeOK
<1>7. BucketsHeld'
  BY <1>3, <1>4 DEF LimiterIInv, BucketsHeld
<1>8. \A i \in IPs : ~ Serves(b, i)
  BY <1>1 DEF Serves, InUse
<1>9. \A c \in Buckets, i \in IPs : Serves(c, i)' => Serves(c, i) \/ (c = b /\ i = ip)
  BY <1>3, <1>4 DEF Serves
<1>10. OneOwner'
  BY <1>8, <1>9 DEF LimiterIInv, OneOwner
<1>11. ASSUME NEW i \in IPs, i # ip PROVE Bounded(i)'
  <2>1. Left(i)' \subseteq Left(i)
    <3> SUFFICES ASSUME NEW t \in Buckets \X (1..Burst), Serves(t[1], i)', t[2] <= tokens'[t[1]]
                 PROVE  Serves(t[1], i) /\ t[2] <= tokens[t[1]]
      BY DEF Left
    <3>1. t[1] \in Buckets
      OBVIOUS
    <3>2. Serves(t[1], i) /\ t[1] # b
      BY <1>8, <1>9, <1>11, <3>1
    <3> QED BY <1>5, <3>1, <3>2
  <2>2. Missed(i)' \subseteq Missed(i)
    BY <1>4 DEF Missed
  <2>3. (Unsettled(i)' => Unsettled(i)) /\ ((i \in Cached)' => i \in Cached)
    BY <1>2, <1>3, <1>11 DEF Unsettled
  <2>4. allowed[i] \in Nat /\ allowed'[i] = allowed[i] /\ Bounded(i)
    BY <1>2 DEF LimiterIInv, LimiterTypeOK
  <2> QED BY <2>1, <2>2, <2>3, <2>4, NoMoreForAddress
<1>12. Bounded(ip)'
  <2> DEFINE l == Cardinality(Left(ip))
             ln == Cardinality(Left(ip)')
             m == Cardinality(Missed(ip))
             mn == Cardinality(Missed(ip)')
  <2>1. w \in Missed(ip) /\ Bounded(ip)
    BY <1>0, <1>2 DEF Missed, LimiterIInv
  <2>2. ~ Unsettled(ip)'
    <3>1. Missed(ip) # {}
      BY <2>1
    <3>2. ~ (ip \in Cached /\ Unsettled(ip))
      BY <2>1, <3>1 DEF Bounded
    <3>3. ip \notin condemned
      BY <3>2 DEF LimiterIInv, Unsettled
    <3>4. ip \notin silent' /\ ip \notin condemned' /\ ip \in Cached'
      BY <1>2, <1>3, <3>3
    <3> QED BY <3>4 DEF Unsettled
  <2>3. Missed(ip)' = Missed(ip) \ {w}
    <3>1. \A v \in Workers \ {w} : v \in Missed(ip)' <=> v \in Missed(ip)
      BY <1>4 DEF Missed
    <3>2. w \notin Missed(ip)'
      BY <1>4 DEF Missed
    <3>3. Missed(ip) \in SUBSET Workers /\ Missed(ip)' \in SUBSET Workers
      BY LeftInTokens, LeftInTokensNext
    <3> HIDE DEF Missed
    <3> QED BY <3>1, <3>2, <3>3
  <2>4. m \in Nat /\ mn \in Nat /\ m = mn + 1
    BY <2>1, <2>3, LeftInTokens, WorkersCount, FS_RemoveElement
  <2>5. /\ mn * Burst \in Nat /\ m * Burst = mn * Burst + Burst
    BY <2>4, MoreBursts
  <2>6. Left(ip)' \subseteq Left(ip) \cup ({b} \X (1..Burst))
    <3>1. ASSUME NEW t \in Left(ip)', t[1] # b PROVE t \in Left(ip)
      <4>1. t \in Buckets \X (1..Burst) /\ t[1] \in Buckets /\ Serves(t[1], ip)' /\ t[2] <= tokens'[t[1]]
        BY DEF Left
      <4>2. Serves(t[1], ip)
        BY <1>2, <1>9, <3>1, <4>1
      <4>3. tokens'[t[1]] = tokens[t[1]]
        BY <1>5, <3>1, <4>1
      <4> QED BY <4>1, <4>2, <4>3 DEF Left
    <3>2. ASSUME NEW t \in Left(ip)', t[1] = b PROVE t \in {b} \X (1..Burst)
      BY <3>2 DEF Left
    <3> QED BY <3>1, <3>2
  <2>7. ln \in Nat /\ l \in Nat /\ ln <= l + Burst
    <3>1. IsFiniteSet(Left(ip)) /\ l \in Nat /\ ln \in Nat
      BY LeftInTokens, LeftInTokensNext, TokensCount
    <3>2. IsFiniteSet({b} \X (1..Burst)) /\ Cardinality({b} \X (1..Burst)) = Burst
      BY BucketTokens
    <3> DEFINE fresh == {b} \X (1..Burst)
    <3> HIDE DEF fresh
    <3>3. /\ IsFiniteSet(Left(ip) \cup fresh)
          /\ Cardinality(Left(ip) \cup fresh) = l + Burst - Cardinality(Left(ip) \cap fresh)
      BY <3>1, <3>2, FS_Union DEF fresh
    <3>4. Cardinality(Left(ip) \cap fresh) \in Nat
      BY <3>1, FS_Intersection, FS_CardinalityType
    <3>5. ln <= Cardinality(Left(ip) \cup fresh)
      BY <2>6, <3>3, FS_Subset DEF fresh
    <3> HIDE DEF l, ln
    <3> QED BY <3>1, <3>3, <3>4, <3>5, IPLimiterAssumption
  <2>8. allowed[ip] + l + m * Burst <= (Cardinality(Workers) + 1) * Burst
    BY <2>1 DEF Bounded
  <2>9. allowed[ip] \in Nat /\ (Cardinality(Workers) + 1) * Burst \in Nat /\ Burst \in Nat
    BY <1>2, WorkersCount, MoreBursts, IPLimiterAssumption DEF LimiterIInv, LimiterTypeOK
  <2>10. allowed'[ip] + ln + mn * Burst <= (Cardinality(Workers) + 1) * Burst
    <3> HIDE DEF l, ln, m, mn
    <3> QED BY <1>2, <2>5, <2>7, <2>8, <2>9
  <2> QED BY <2>2, <2>10 DEF Bounded
<1>13. IsFiniteSet(Cached') /\ RoomForCreators'
  <2>1. Creating' = Creating \ {w} /\ w \in Creating /\ Creating \in SUBSET Workers
    BY <1>2, <1>4 DEF Creating
  <2>2. /\ Cardinality(Creating) \in Nat /\ Cardinality(Creating') \in Nat
        /\ Cardinality(Creating) = Cardinality(Creating') + 1
    BY <2>1, WorkersCount, FS_RemoveElement
  <2>3. /\ IsFiniteSet(Cached') /\ Cardinality(Cached) \in Nat /\ Cardinality(Cached') \in Nat
        /\ Cardinality(Cached') <= Cardinality(Cached) + 1
    <3>1. IsFiniteSet(Cached) /\ Cardinality(Cached) \in Nat
      BY FS_CardinalityType DEF LimiterIInv
    <3>2. /\ IsFiniteSet(Cached \cup {ip})
          /\ \/ Cardinality(Cached \cup {ip}) = Cardinality(Cached)
             \/ Cardinality(Cached \cup {ip}) = Cardinality(Cached) + 1
      BY <3>1, FS_AddElement
    <3>3. IsFiniteSet(Cached') /\ Cardinality(Cached') = Cardinality(Cached \cup {ip})
      BY <1>3, <3>2
    <3> QED BY <3>1, <3>2, <3>3
  <2> QED BY <2>2, <2>3, WorkersCount, IPLimiterAssumption DEF LimiterIInv, RoomForCreators
<1>14. condemned' \subseteq Cached'
  BY <1>2, <1>3 DEF LimiterIInv
<1> QED BY <1>6, <1>7, <1>10, <1>11, <1>12, <1>13, <1>14 DEF LimiterIInv

\* The token is taken out of what is left, and counted as allowed.
LEMMA TakeKeeps ==
    ASSUME LimiterIInv, NEW w \in Workers, Take(w)
    PROVE  LimiterIInv'
<1>0. PICK ip \in IPs : ip = worker[w].ip
  BY DEF LimiterIInv, LimiterTypeOK
<1>1. PICK b \in Buckets : b = worker[w].bucket
  BY DEF LimiterIInv, BucketsHeld, Take
<1>2. /\ worker[w].step = "known"
      /\ silent' = silent \ {ip}
      /\ tokens' = [tokens EXCEPT ![b] = IF @ > 0 THEN @ - 1 ELSE 0]
      /\ allowed' = [allowed EXCEPT ![ip] = IF tokens[b] > 0 THEN @ + 1 ELSE @]
      /\ worker' = [worker EXCEPT ![w] = Idle]
      /\ UNCHANGED <<clients, condemned>>
  BY <1>0, <1>1 DEF Take
<1>3. Cached' = Cached
  BY <1>2 DEF Cached
<1>4. Idle \in [step : {"idle"}, ip : IPs, bucket : {NoBucket}]
  BY IPLimiterAssumption DEF Idle
<1>5. /\ \A v \in Workers : v # w => worker'[v] = worker[v]
      /\ worker'[w] = Idle
  BY <1>2 DEF LimiterIInv, LimiterTypeOK
<1>6. /\ \A c \in Buckets : tokens[c] \in 0..Burst
      /\ \A c \in Buckets : c # b => tokens'[c] = tokens[c]
      /\ tokens'[b] = IF tokens[b] > 0 THEN tokens[b] - 1 ELSE 0
  BY <1>2 DEF LimiterIInv, LimiterTypeOK
<1>7. /\ \A i \in IPs : allowed[i] \in Nat
      /\ \A i \in IPs : i # ip => allowed'[i] = allowed[i]
      /\ allowed'[ip] = IF tokens[b] > 0 THEN allowed[ip] + 1 ELSE allowed[ip]
  BY <1>2 DEF LimiterIInv, LimiterTypeOK
<1>8. LimiterTypeOK'
  <2>1. worker' \in [Workers -> [step : {"idle", "known", "unknown", "create"}, ip : IPs,
                                 bucket : Buckets \cup {NoBucket}]]
    BY <1>2, <1>4 DEF LimiterIInv, LimiterTypeOK
  <2>2. tokens' \in [Buckets -> 0..Burst]
    BY <1>2, IPLimiterAssumption DEF LimiterIInv, LimiterTypeOK
  <2>3. allowed' \in [IPs -> Nat]
    BY <1>2 DEF LimiterIInv, LimiterTypeOK
  <2> QED BY <1>2, <1>3, <2>1, <2>2, <2>3 DEF LimiterIInv, LimiterTypeOK
<1>9. BucketsHeld'
  BY <1>4, <1>5 DEF LimiterIInv, BucketsHeld
<1>10. \A c \in Buckets, i \in IPs : Serves(c, i)' => Serves(c, i)
  BY <1>2, <1>3, <1>4, <1>5 DEF Serves
<1>11. OneOwner'
  BY <1>10 DEF LimiterIInv, OneOwner
<1>12. \A i \in IPs : Left(i)' \subseteq Left(i)
  <2>1. \A c \in Buckets : \A n \in 1..Burst : n <= tokens'[c] => n <= tokens[c]
    BY <1>6, IPLimiterAssumption
  <2>2. ASSUME NEW i \in IPs, NEW t \in Left(i)' PROVE t \in Left(i)
    <3>1. /\ t \in Buckets \X (1..Burst) /\ t[1] \in Buckets /\ t[2] \in 1..Burst
          /\ Serves(t[1], i)' /\ t[2] <= tokens'[t[1]]
      BY DEF Left
    <3>2. Serves(t[1], i) /\ t[2] <= tokens[t[1]]
      BY <1>10, <2>1, <3>1
    <3> QED BY <3>1, <3>2 DEF Left
  <2> QED BY <2>2
<1>13. \A i \in IPs : Missed(i)' \subseteq Missed(i)
  BY <1>4, <1>5 DEF Missed
<1>14. \A i \in IPs : (Unsettled(i)' => Unsettled(i)) /\ ((i \in Cached)' => i \in Cached)
  BY <1>2, <1>3 DEF Unsettled
<1>15. \A i \in IPs : Bounded(i)
  BY DEF LimiterIInv
<1>16. \A i \in IPs : i # ip \/ ~ (tokens[b] > 0) => Bounded(i)'
  BY <1>7, <1>12, <1>13, <1>14, <1>15, NoMoreForAddress
<1>17. ASSUME tokens[b] > 0 PROVE Bounded(ip)'
  <2> DEFINE top == <<b, tokens[b]>>
  <2>1. tokens[b] \in 1..Burst
    BY <1>6, <1>17, IPLimiterAssumption
  <2>2. Serves(b, ip)
    BY <1>0, <1>1, <1>2 DEF Serves
  <2>3. top \in Left(ip)
    BY <2>1, <2>2 DEF Left
  <2>4. top \notin Left(ip)'
    BY <1>6, <1>17, <2>1, IPLimiterAssumption DEF Left
  <2>5. Left(ip)' \subseteq Left(ip) \ {top}
    BY <1>12, <2>4
  <2>6. /\ IsFiniteSet(Left(ip)) /\ Cardinality(Left(ip)) \in Nat
        /\ Cardinality(Left(ip)') \in Nat
    BY LeftInTokens, LeftInTokensNext, TokensCount
  <2>7. /\ IsFiniteSet(Left(ip) \ {top})
        /\ Cardinality(Left(ip) \ {top}) = Cardinality(Left(ip)) - 1
    BY <2>3, <2>6, FS_RemoveElement
  <2>8. Cardinality(Left(ip)') <= Cardinality(Left(ip)) - 1
    BY <2>5, <2>7, FS_Subset
  <2>9. allowed'[ip] \in Nat /\ allowed'[ip] = allowed[ip] + 1 /\ allowed[ip] \in Nat
    BY <1>7, <1>17
  <2>10. allowed'[ip] + Cardinality(Left(ip)') <= allowed[ip] + Cardinality(Left(ip))
    BY <2>6, <2>8, <2>9
  <2> QED BY <1>13, <1>14, <1>15, <2>9, <2>10, NoMoreInAll
<1>18. \A i \in IPs : Bounded(i)'
  BY <1>16, <1>17
<1>19. RoomForCreators'
  <2>1. Creating' \subseteq Creating
    BY <1>4, <1>5 DEF Creating
  <2> QED BY <1>3, <2>1, FewerInTable
<1> QED BY <1>2, <1>3, <1>8, <1>9, <1>11, <1>18, <1>19 DEF LimiterIInv

\* An address long silent starts again, with one full bucket if it is cached.
LEMMA FallSilentKeeps ==
    ASSUME LimiterIInv, NEW ip \in IPs, FallSilent(ip)
    PROVE  LimiterIInv'
<1>1. /\ \A w \in Workers : worker[w].step # "idle" => worker[w].ip # ip
      /\ silent' = silent \cup {ip}
      /\ tokens' = IF ip \in Cached THEN [tokens EXCEPT ![clients[ip]] = Burst] ELSE tokens
      /\ allowed' = [allowed EXCEPT ![ip] = 0]
      /\ UNCHANGED <<clients, worker, condemned>>
  BY DEF FallSilent
<1>2. Cached' = Cached
  BY <1>1 DEF Cached
<1>3. /\ allowed'[ip] = 0
      /\ \A i \in IPs : allowed[i] \in Nat
      /\ \A i \in IPs : i # ip => allowed'[i] = allowed[i]
  BY <1>1 DEF LimiterIInv, LimiterTypeOK
<1>4. LimiterTypeOK'
  <2>1. tokens' \in [Buckets -> 0..Burst]
    BY <1>1, IPLimiterAssumption DEF LimiterIInv, LimiterTypeOK
  <2>2. allowed' \in [IPs -> Nat]
    BY <1>1 DEF LimiterIInv, LimiterTypeOK
  <2> QED BY <1>1, <1>2, <2>1, <2>2 DEF LimiterIInv, LimiterTypeOK
<1>5. BucketsHeld'
  BY <1>1 DEF LimiterIInv, BucketsHeld
<1>6. \A c, i : Serves(c, i)' <=> Serves(c, i)
  BY <1>1, <1>2 DEF Serves
<1>7. OneOwner'
  BY <1>6 DEF LimiterIInv, OneOwner
<1>8. \A i : Missed(i)' = Missed(i)
  BY <1>1 DEF Missed
<1>9. ASSUME NEW i \in IPs, i # ip PROVE Bounded(i)'
  <2>1. ASSUME NEW t \in Left(i)' PROVE t \in Left(i)
    <3>1. /\ t \in Buckets \X (1..Burst) /\ t[1] \in Buckets
          /\ Serves(t[1], i)' /\ t[2] <= tokens'[t[1]]
      BY DEF Left
    <3>2. Serves(t[1], i)
      BY <1>6, <3>1
    <3>3. ip \in Cached => t[1] # clients[ip]
      BY <1>9, <3>1, <3>2 DEF LimiterIInv, OneOwner, Serves
    <3>4. tokens'[t[1]] = tokens[t[1]]
      BY <1>1, <3>1, <3>3 DEF LimiterIInv, LimiterTypeOK
    <3> QED BY <3>1, <3>2, <3>4 DEF Left
  <2>2. (Unsettled(i)' => Unsettled(i)) /\ ((i \in Cached)' => i \in Cached)
    BY <1>1, <1>2, <1>9 DEF Unsettled
  <2>3. Bounded(i) /\ allowed[i] \in Nat /\ allowed'[i] = allowed[i]
    BY <1>3, <1>9 DEF LimiterIInv
  <2> QED BY <1>8, <2>1, <2>2, <2>3, NoMoreForAddress
<1>10. Bounded(ip)'
  <2>1. Missed(ip)' = {}
    BY <1>1, <1>8 DEF Missed
  <2>2. \A c : Serves(c, ip)' => c = clients[ip]
    BY <1>1, <1>6 DEF Serves
  <2>3. Left(ip)' \subseteq {clients[ip]} \X (1..Burst)
    BY <2>2 DEF Left
  <2>4. Cardinality(Left(ip)') \in Nat /\ Cardinality(Left(ip)') <= Burst
    <3>1. Cardinality(Left(ip)') \in Nat
      BY LeftInTokensNext, TokensCount
    <3>2. PICK B : B = {clients[ip]} \X (1..Burst)
      OBVIOUS
    <3>3. IsFiniteSet(B) /\ Cardinality(B) = Burst
      BY <3>2, BucketTokens
    <3>4. Left(ip)' \in SUBSET B
      BY <2>3, <3>2
    <3> QED BY <3>1, <3>3, <3>4, FS_Subset
  <2>5. Cardinality(Missed(ip)') = 0
    BY <2>1, FS_EmptySet
  <2>6. /\ (Cardinality(Workers) + 1) * Burst = Cardinality(Workers) * Burst + Burst
        /\ Cardinality(Workers) * Burst \in Nat /\ 0 * Burst = 0 /\ Burst \in Nat
    BY WorkersCount, MoreBursts, IPLimiterAssumption
  <2>7. /\ allowed'[ip] + Cardinality(Left(ip)') <= Burst
        /\ allowed'[ip] + Cardinality(Left(ip)') + Cardinality(Missed(ip)') * Burst
             <= (Cardinality(Workers) + 1) * Burst
    BY <1>3, <2>4, <2>5, <2>6
  <2> QED BY <2>1, <2>7 DEF Bounded
<1>11. IsFiniteSet(Cached') /\ RoomForCreators'
  <2>1. Creating' \subseteq Creating
    BY <1>1 DEF Creating
  <2> QED BY <1>2, <2>1, FewerInTable
<1>12. (condemned \subseteq Cached)'
  BY <1>1, <1>2 DEF LimiterIInv
<1> QED BY <1>4, <1>5, <1>7, <1>9, <1>10, <1>11, <1>12 DEF LimiterIInv

LEMMA CollectKeeps ==
    ASSUME LimiterIInv, Collect
    PROVE  LimiterIInv'
<1>1. condemned' = Cached \cap silent /\ UNCHANGED <<clients, tokens, silent, worker, allowed>>
  BY DEF Collect
<1>2. Cached' = Cached
  BY <1>1 DEF Cached
<1>3. LimiterTypeOK' /\ (condemned \subseteq Cached)'
  BY <1>1, <1>2 DEF LimiterIInv, LimiterTypeOK
<1>4. \A c, i : Serves(c, i)' <=> Serves(c, i)
  BY <1>1, <1>2 DEF Serves
<1>5. BucketsHeld' /\ OneOwner'
  BY <1>1, <1>4 DEF LimiterIInv, BucketsHeld, OneOwner
<1>6. ASSUME NEW i \in IPs PROVE Bounded(i)'
  <2>1. Left(i)' = Left(i) /\ Missed(i)' = Missed(i)
    BY <1>1, <1>4 DEF Left, Missed
  <2>2. (Unsettled(i)' => Unsettled(i)) /\ ((i \in Cached)' => i \in Cached)
    BY <1>1, <1>2 DEF Unsettled
  <2>3. Bounded(i) /\ allowed[i] \in Nat /\ allowed'[i] = allowed[i]
    BY <1>1 DEF LimiterIInv, LimiterTypeOK
  <2> QED BY <2>1, <2>2, <2>3, NoMoreForAddress
<1>7. IsFiniteSet(Cached') /\ RoomForCreators'
  <2>1. Creating' \subseteq Creating
    BY <1>1 DEF Creating
  <2> QED BY <1>2, <2>1, FewerInTable
<1> QED BY <1>3, <1>5, <1>6, <1>7 DEF LimiterIInv

\* The cleanup may delete a bucket in use: the address is unsettled still, and the
\* workers that miss it from now on have their bursts in the bound.
LEMMA DeleteKeeps ==
    ASSUME LimiterIInv, Delete
    PROVE  LimiterIInv'
<1>1. /\ clients' = [ip \in Cached \ condemned |-> clients[ip]]
      /\ condemned' = {} /\ UNCHANGED <<tokens, silent, worker, allowed>>
  BY DEF Delete
<1>2. Cached' = Cached \ condemned /\ \A i \in Cached' : clients'[i] = clients[i]
  BY <1>1 DEF Cached
<1>3. LimiterTypeOK' /\ (condemned \subseteq Cached)'
  BY <1>1, <1>2 DEF LimiterIInv, LimiterTypeOK
<1>4. \A c, i : Serves(c, i)' => Serves(c, i)
  BY <1>1, <1>2 DEF Serves
<1>5. BucketsHeld' /\ OneOwner'
  BY <1>1, <1>4 DEF LimiterIInv, BucketsHeld, OneOwner
<1>6. ASSUME NEW i \in IPs PROVE Bounded(i)'
  <2>1. Left(i)' \subseteq Left(i) /\ Missed(i)' = Missed(i)
    BY <1>1, <1>4 DEF Left, Missed
  <2>2. (Unsettled(i)' => Unsettled(i)) /\ ((i \in Cached)' => i \in Cached)
    BY <1>1, <1>2 DEF Unsettled
  <2>3. Bounded(i) /\ allowed[i] \in Nat /\ allowed'[i] = allowed[i]
    BY <1>1 DEF LimiterIInv, LimiterTypeOK
  <2> QED BY <2>1, <2>2, <2>3, NoMoreForAddress
<1>7. IsFiniteSet(Cached') /\ RoomForCreators'
  <2>1. Creating' \subseteq Creating
    BY <1>1 DEF Creating
  <2> QED BY <1>2, <2>1, FewerInTable
<1> QED BY <1>3, <1>5, <1>6, <1>7 DEF LimiterIInv

LEMMA LimiterStarts == LimiterInit => LimiterIInv
<1> SUFFICES ASSUME LimiterInit PROVE LimiterIInv
  OBVIOUS
<1>1. /\ clients = [ip \in {} |-> NoBucket] /\ tokens = [b \in Buckets |-> Burst]
      /\ silent = IPs /\ worker = [w \in Workers |-> Idle]
      /\ condemned = {} /\ allowed = [ip \in IPs |-> 0]
  BY DEF LimiterInit
<1>2. Cached = {}
  BY <1>1 DEF Cached
<1>3. Idle \in [step : {"idle"}, ip : IPs, bucket : {NoBucket}]
  BY IPLimiterAssumption DEF Idle
<1>4. LimiterTypeOK
  BY <1>1, <1>2, <1>3, IPLimiterAssumption DEF LimiterTypeOK
<1>5. BucketsHeld
  BY <1>1, <1>3 DEF BucketsHeld
<1>6. \A c, i : ~ Serves(c, i)
  BY <1>1, <1>2, <1>3 DEF Serves
<1>7. OneOwner
  BY <1>6 DEF OneOwner
<1>8. ASSUME NEW i \in IPs PROVE Bounded(i)
  <2>1. Left(i) = {} /\ Missed(i) = {}
    BY <1>1, <1>3, <1>6 DEF Left, Missed
  <2>2. Cardinality(Left(i)) = 0 /\ Cardinality(Missed(i)) = 0
    BY <2>1, FS_EmptySet
  <2>3. /\ (Cardinality(Workers) + 1) * Burst = Cardinality(Workers) * Burst + Burst
        /\ Cardinality(Workers) * Burst \in Nat /\ 0 * Burst = 0 /\ Burst \in Nat
    BY WorkersCount, MoreBursts, IPLimiterAssumption
  <2>4. allowed[i] = 0
    BY <1>1
  <2> QED BY <2>1, <2>2, <2>3, <2>4 DEF Bounded
<1>9. IsFiniteSet(Cached) /\ Cardinality(Cached) = 0
  BY <1>2, FS_EmptySet
<1>10. RoomForCreators
  <2>1. Creating = {}
    BY <1>1, <1>3 DEF Creating
  <2>2. Cardinality(Creating) = 0
    BY <2>1, FS_EmptySet
  <2> QED BY <1>9, <2>2, WorkersCount, IPLimiterAssumption DEF RoomForCreators
<1> QED BY <1>1, <1>4, <1>5, <1>7, <1>8, <1>9, <1>10 DEF LimiterIInv

\* Every step of a worker, of an address and of the cleanup.
LEMMA LimiterStep == LimiterIInv /\ [LimiterNext]_limiterVars => LimiterIInv'
<1> SUFFICES ASSUME LimiterIInv, [LimiterNext]_limiterVars PROVE LimiterIInv'
  OBVIOUS
<1>1. CASE UNCHANGED limiterVars
  <2>1. /\ UNCHANGED <<clients, tokens, silent, worker, condemned, allowed>>
        /\ Cached' = Cached
    BY <1>1 DEF limiterVars, Cached
  <2>2. \A c, i : Serves(c, i)' <=> Serves(c, i)
    BY <2>1 DEF Serves
  <2>3. LimiterTypeOK' /\ BucketsHeld' /\ OneOwner' /\ RoomForCreators'
    BY <2>1, <2>2 DEF LimiterIInv, LimiterTypeOK, BucketsHeld, OneOwner, RoomForCreators, Creating
  <2>4. ASSUME NEW i \in IPs PROVE Bounded(i)'
    <3>1. Left(i)' = Left(i) /\ Missed(i)' = Missed(i) /\ (Unsettled(i)' <=> Unsettled(i))
      BY <2>1, <2>2 DEF Left, Missed, Unsettled
    <3>2. Bounded(i)
      BY DEF LimiterIInv
    <3> QED BY <2>1, <3>1, <3>2 DEF Bounded
  <2> QED BY <2>1, <2>3, <2>4 DEF LimiterIInv
<1>2. CASE LimiterNext
  BY <1>2, FindKeeps, SizeKeeps, SetKeeps, TakeKeeps, FallSilentKeeps, CollectKeeps, DeleteKeeps
     DEF LimiterNext
<1> QED BY <1>1, <1>2

\* What the invariant says of the whole: the races of Allow cost at most one more
\* burst for each worker and one for the cleanup, and one more entry for each worker.
LEMMA LimiterBounds == LimiterIInv => RacesAreBounded
<1> SUFFICES ASSUME LimiterIInv PROVE RacesAreBounded
  OBVIOUS
<1>1. ASSUME NEW ip \in IPs PROVE allowed[ip] <= (Cardinality(Workers) + 1) * Burst
  <2> DEFINE l == Cardinality(Left(ip))
             m == Cardinality(Missed(ip))
             most == (Cardinality(Workers) + 1) * Burst
  <2>1. l \in Nat /\ m \in Nat
    BY LeftInTokens, TokensCount, WorkersCount
  <2>2. m * Burst \in Nat /\ most \in Nat
    BY <2>1, WorkersCount, MoreBursts
  <2>3. allowed[ip] + l + m * Burst <= most /\ allowed[ip] \in Nat
    BY DEF LimiterIInv, LimiterTypeOK, Bounded
  <2> HIDE DEF l, m, most
  <2>4. allowed[ip] <= most
    BY <2>1, <2>2, <2>3
  <2> QED BY <2>4 DEF most
<1>2. MaxSize > 0 => Cardinality(Cached) <= MaxSize + Cardinality(Workers) - 1
  <2>1. Cardinality(Creating) \in Nat /\ Cardinality(Cached) \in Nat
    BY WorkersCount, FS_CardinalityType DEF LimiterIInv, Creating
  <2> QED BY <2>1, WorkersCount, IPLimiterAssumption DEF LimiterIInv, RoomForCreators
<1> QED BY <1>1, <1>2 DEF RacesAreBounded, LimiterIInv

\* However the query workers and the cleanup interleave, no address is allowed more
\* than its burst, one more for each worker and one for the cleanup, and the cache
\* exceeds its limit by less than the number of workers.
THEOREM LimiterRacesBounded == LimiterInit /\ [][LimiterNext]_limiterVars => []RacesAreBounded
<1>1. LimiterIInv => RacesAreBounded
  BY LimiterBounds
<1> QED BY <1>1, LimiterStarts, LimiterStep, PTL

-----------------------------------------------------------------------------
(* The list of the peer store.                                             *)

\* t is the list s without the infohashes in S, each other one once.
Drops(t, s, S) ==
    /\ t \in Seq(Hashes)
    /\ ToSet(t) = ToSet(s) \ S
    /\ NoDuplicates(t)

\* A list of distinct infohashes is as long as they are many.
LEMMA ListCounts ==
    ASSUME NEW s \in Seq(Hashes), NoDuplicates(s)
    PROVE  /\ ToSet(s) \subseteq Hashes /\ IsFiniteSet(ToSet(s))
           /\ Len(s) \in Nat /\ Len(s) = Cardinality(ToSet(s))
<1>1. Len(s) \in Nat /\ DOMAIN s = 1..Len(s) /\ s \in [1..Len(s) -> Hashes]
  BY LenProperties
<1>2. s \in [1..Len(s) -> ToSet(s)] /\ \A x \in ToSet(s) : \E i \in 1..Len(s) : s[i] = x
  BY <1>1 DEF ToSet
<1>3. \A i, j \in 1..Len(s) : s[i] = s[j] => i = j
  BY <1>1 DEF NoDuplicates
<1>4. s \in Bijection(1..Len(s), ToSet(s))
  <2> DEFINE n == Len(s)
             T == ToSet(s)
  <2>1. /\ s \in [1..n -> T] /\ \A x \in T : \E i \in 1..n : s[i] = x
        /\ \A i, j \in 1..n : s[i] = s[j] => i = j
    BY <1>2, <1>3
  <2> HIDE DEF n, T
  <2>2. s \in Bijection(1..n, T)
    BY <2>1, Fun_IsBij
  <2> QED BY <2>2 DEF n, T
<1>5. ExistsBijection(1..Len(s), ToSet(s))
  BY <1>4, Fun_ExistsBij
<1>6. IsFiniteSet(ToSet(s)) /\ Cardinality(ToSet(s)) = Len(s)
  BY <1>1, <1>5, FS_NatBijection, FS_CountingElements
<1> QED BY <1>1, <1>2, <1>6 DEF ToSet

\* A list of the elements of s outside S, found at different places of s.
LEMMA DropsFromPlaces ==
    ASSUME NEW s \in Seq(Hashes), NoDuplicates(s), NEW S,
           NEW t \in Seq(Hashes), NEW f \in [DOMAIN t -> DOMAIN s],
           \A n \in DOMAIN t : t[n] = s[f[n]],
           \A m, n \in DOMAIN t : f[m] = f[n] => m = n,
           \A n \in DOMAIN t : s[f[n]] \notin S,
           \A i \in DOMAIN s : s[i] \notin S => \E n \in DOMAIN t : f[n] = i
    PROVE  Drops(t, s, S)
<1>1. NoDuplicates(t)
  BY DEF NoDuplicates
<1>2. ASSUME NEW x \in ToSet(t) PROVE x \in ToSet(s) \ S
  BY <1>2 DEF ToSet
<1>3. ASSUME NEW x \in ToSet(s) \ S PROVE x \in ToSet(t)
  <2>1. PICK i \in DOMAIN s : s[i] = x
    BY <1>3 DEF ToSet
  <2>2. PICK n \in DOMAIN t : f[n] = i
    BY <1>3, <2>1
  <2>3. t[n] = x
    BY <2>1, <2>2
  <2> QED BY <2>3 DEF ToSet
<1> QED BY <1>1, <1>2, <1>3 DEF Drops

\* Removing one element.
LEMMA RemoveAtDrops ==
    ASSUME NEW s \in Seq(Hashes), NoDuplicates(s), NEW k \in 1..Len(s)
    PROVE  Drops(RemoveAt(s, k), s, {s[k]})
<1> DEFINE before == SubSeq(s, 1, k - 1)
           after == SubSeq(s, k + 1, Len(s))
           t == before \o after
           f == [n \in 1..(Len(s) - 1) |-> IF n < k THEN n ELSE n + 1]
<1>1. Len(s) \in Nat /\ DOMAIN s = 1..Len(s) /\ \A i \in 1..Len(s) : s[i] \in Hashes
  BY LenProperties, ElementOfSeq
<1>2. /\ before \in Seq(Hashes) /\ Len(before) = k - 1
      /\ \A i \in 1..(k - 1) : before[i] = s[i]
  <2>1. 1 \in Int /\ k - 1 \in Int /\ \A i \in 1..(k - 1) : s[i] \in Hashes
    BY <1>1
  <2>2. /\ before \in Seq(Hashes) /\ Len(before) = IF 1 <= k - 1 THEN k - 1 - 1 + 1 ELSE 0
        /\ \A i \in 1..(k - 1 - 1 + 1) : before[i] = s[1 + i - 1]
    BY <2>1, SubSeqProperties
  <2> HIDE DEF before
  <2> QED BY <1>1, <2>2
<1>3. /\ after \in Seq(Hashes) /\ Len(after) = Len(s) - k
      /\ \A i \in 1..(Len(s) - k) : after[i] = s[k + i]
  <2>1. k + 1 \in Int /\ Len(s) \in Int /\ \A i \in (k + 1)..Len(s) : s[i] \in Hashes
    BY <1>1
  <2>2. /\ after \in Seq(Hashes) /\ Len(after) = IF k + 1 <= Len(s) THEN Len(s) - (k + 1) + 1 ELSE 0
        /\ \A i \in 1..(Len(s) - (k + 1) + 1) : after[i] = s[k + 1 + i - 1]
    BY <2>1, SubSeqProperties
  <2>3. Len(s) - (k + 1) + 1 = Len(s) - k /\ (~ (k + 1 <= Len(s)) => Len(s) - k = 0)
    <3>1. \A n \in Nat : \A j \in 1..n :
            n - (j + 1) + 1 = n - j /\ (~ (j + 1 <= n) => n - j = 0)
      OBVIOUS
    <3> QED BY <1>1, <3>1
  <2>4. \A i \in 1..(Len(s) - k) : k + 1 + i - 1 = k + i
    OBVIOUS
  <2> HIDE DEF after
  <2>5. Len(after) = Len(s) - k
    BY <2>2, <2>3
  <2>6. \A i \in 1..(Len(s) - k) : after[i] = s[k + i]
    BY <2>2, <2>3, <2>4
  <2> QED BY <2>2, <2>5, <2>6
<1> HIDE DEF before, after
<1>4. /\ t \in Seq(Hashes) /\ Len(t) = Len(before) + Len(after)
      /\ \A i \in 1..(Len(before) + Len(after)) :
           t[i] = IF i <= Len(before) THEN before[i] ELSE after[i - Len(before)]
  BY <1>2, <1>3, ConcatProperties
<1> HIDE DEF t
<1>5. Len(t) = Len(s) - 1 /\ DOMAIN t = 1..(Len(s) - 1)
  BY <1>1, <1>2, <1>3, <1>4, LenProperties
<1>6. \A n \in DOMAIN t : f[n] = IF n < k THEN n ELSE n + 1
  BY <1>5
<1>7. f \in [DOMAIN t -> DOMAIN s]
  BY <1>1, <1>5
<1> HIDE DEF f
<1>8. ASSUME NEW n \in DOMAIN t PROVE t[n] = s[f[n]]
  <2>1. n \in 1..(Len(s) - 1) /\ f[n] = IF n < k THEN n ELSE n + 1
    BY <1>5, <1>6
  <2>2. CASE n < k
    <3>1. n \in 1..(k - 1) /\ n \in 1..(Len(before) + Len(after)) /\ n <= Len(before)
      BY <1>1, <1>2, <1>3, <2>1, <2>2
    <3>2. t[n] = before[n] /\ before[n] = s[n]
      BY <1>2, <1>4, <3>1
    <3> QED BY <2>1, <2>2, <3>2
  <2>3. CASE ~ (n < k)
    <3>1. n - (k - 1) \in 1..(Len(s) - k) /\ k + (n - (k - 1)) = n + 1
      BY <1>1, <2>1, <2>3
    <3>2. t[n] = after[n - (k - 1)]
      <4>1. n \in 1..(Len(before) + Len(after)) /\ ~ (n <= Len(before)) /\ Len(before) = k - 1
        BY <1>1, <1>2, <1>3, <2>1, <2>3
      <4> QED BY <1>4, <4>1
    <3>3. after[n - (k - 1)] = s[n + 1]
      BY <1>3, <3>1
    <3> QED BY <2>1, <2>3, <3>2, <3>3
  <2> QED BY <2>2, <2>3
<1>9. \A m, n \in DOMAIN t : f[m] = f[n] => m = n
  BY <1>1, <1>5, <1>6
<1>10. \A n \in DOMAIN t : s[f[n]] \notin {s[k]}
  <2>1. \A n \in DOMAIN t : f[n] # k
    BY <1>1, <1>5, <1>6
  <2> QED BY <1>1, <1>7, <2>1 DEF NoDuplicates
<1>11. \A i \in DOMAIN s : s[i] \notin {s[k]} => \E n \in DOMAIN t : f[n] = i
  <2> SUFFICES ASSUME NEW i \in 1..Len(s), i # k PROVE \E n \in DOMAIN t : f[n] = i
    BY <1>1
  <2>1. CASE i < k
    <3>1. i \in DOMAIN t
      BY <1>1, <1>5, <2>1
    <3>2. f[i] = i
      BY <1>6, <2>1, <3>1
    <3> QED BY <3>1, <3>2
  <2>2. CASE i > k
    <3>1. i - 1 \in DOMAIN t /\ ~ (i - 1 < k) /\ i - 1 + 1 = i
      BY <1>1, <1>5, <2>2
    <3>2. f[i - 1] = i
      BY <1>6, <3>1
    <3> QED BY <3>1, <3>2
  <2> QED BY <2>1, <2>2
<1>12. Drops(t, s, {s[k]})
  <2> DEFINE S == {s[k]}
  <2>1. \A n \in DOMAIN t : s[f[n]] \notin S
    BY <1>10
  <2>2. \A i \in DOMAIN s : s[i] \notin S => \E n \in DOMAIN t : f[n] = i
    BY <1>11
  <2>3. t \in Seq(Hashes) /\ \A n \in DOMAIN t : t[n] = s[f[n]]
    BY <1>4, <1>8
  <2> HIDE DEF S
  <2>4. Drops(t, s, S)
    BY <1>7, <1>9, <2>1, <2>2, <2>3, DropsFromPlaces
  <2> QED BY <2>4 DEF S
<1> QED BY <1>12 DEF t, before, after, RemoveAt

\* Evicting the first one.
LEMMA FirstDrops ==
    ASSUME NEW s \in Seq(Hashes), NoDuplicates(s), s # <<>>
    PROVE  Drops(SubSeq(s, 2, Len(s)), s, {s[1]})
<1> DEFINE t == Tail(s)
           f == [n \in 1..(Len(s) - 1) |-> n + 1]
<1>1. Len(s) \in Nat \ {0} /\ DOMAIN s = 1..Len(s)
  BY LenProperties, EmptySeq
<1>2. /\ t \in Seq(Hashes) /\ Len(t) = Len(s) - 1
      /\ \A i \in 1..Len(t) : t[i] = s[i + 1]
  BY HeadTailProperties
<1> HIDE DEF t
<1>3. DOMAIN t = 1..(Len(s) - 1)
  BY <1>2, LenProperties
<1>4. f \in [DOMAIN t -> DOMAIN s] /\ \A n \in DOMAIN t : f[n] = n + 1
  BY <1>1, <1>3
<1> HIDE DEF f
<1>5. \A n \in DOMAIN t : t[n] = s[f[n]]
  BY <1>2, <1>3, <1>4
<1>6. \A m, n \in DOMAIN t : f[m] = f[n] => m = n
  BY <1>1, <1>3, <1>4
<1>7. \A n \in DOMAIN t : s[f[n]] \notin {s[1]}
  <2>1. \A n \in DOMAIN t : f[n] # 1
    BY <1>1, <1>3, <1>4
  <2> QED BY <1>1, <1>4, <2>1 DEF NoDuplicates
<1>8. \A i \in DOMAIN s : s[i] \notin {s[1]} => \E n \in DOMAIN t : f[n] = i
  <2> SUFFICES ASSUME NEW i \in 1..Len(s), i # 1 PROVE \E n \in DOMAIN t : f[n] = i
    BY <1>1
  <2>1. i - 1 \in DOMAIN t /\ i - 1 + 1 = i
    BY <1>1, <1>3
  <2> QED BY <1>4, <2>1
<1>9. Drops(t, s, {s[1]})
  BY <1>2, <1>4, <1>5, <1>6, <1>7, <1>8, DropsFromPlaces
<1> QED BY <1>9, TailIsSubSeq DEF t

\* Appending a new infohash.
LEMMA AppendAdds ==
    ASSUME NEW s \in Seq(Hashes), NoDuplicates(s), NEW h \in Hashes, h \notin ToSet(s)
    PROVE  /\ Append(s, h) \in Seq(Hashes)
           /\ ToSet(Append(s, h)) = ToSet(s) \cup {h}
           /\ NoDuplicates(Append(s, h))
<1> DEFINE t == Append(s, h)
<1>1. /\ Len(s) \in Nat /\ DOMAIN s = 1..Len(s)
      /\ t \in Seq(Hashes) /\ Len(t) = Len(s) + 1 /\ DOMAIN t = 1..(Len(s) + 1)
      /\ t[Len(s) + 1] = h /\ \A i \in 1..Len(s) : t[i] = s[i]
  BY LenProperties
<1> HIDE DEF t
<1>2. \A i \in 1..(Len(s) + 1) : i = Len(s) + 1 \/ i \in 1..Len(s)
  BY <1>1
<1>3. \A i \in 1..Len(s) : s[i] # h /\ i \in DOMAIN t
  BY <1>1 DEF ToSet
<1>4. NoDuplicates(t)
  BY <1>1, <1>2, <1>3 DEF NoDuplicates
<1>5. Len(s) + 1 \in DOMAIN t
  BY <1>1
<1>6. \A x : x \in ToSet(t) <=> x \in ToSet(s) \cup {h}
  BY <1>1, <1>2, <1>3, <1>5 DEF ToSet
<1> QED BY <1>1, <1>4, <1>6 DEF t

\* Pruning: the elements outside S, in the order of s, are the first, the second
\* and so on of their places.
LEMMA WithoutDrops ==
    ASSUME NEW s \in Seq(Hashes), NoDuplicates(s), NEW S
    PROVE  Drops(Without(s, S), s, S)
<1> DEFINE rest == {i \in DOMAIN s : s[i] \notin S}
           upto(i) == {j \in rest : j <= i}
           rank == [i \in rest |-> Cardinality(upto(i))]
           size == Cardinality(rest)
           f == [n \in 1..size |-> CHOOSE i \in rest : Cardinality(upto(i)) = n]
           t == Without(s, S)
<1>1. Len(s) \in Nat /\ DOMAIN s = 1..Len(s) /\ IsFiniteSet(DOMAIN s)
  <2>1. Len(s) \in Nat /\ DOMAIN s = 1..Len(s)
    BY LenProperties
  <2>2. \A n \in Nat : IsFiniteSet(1..n)
    BY FS_Interval
  <2> QED BY <2>1, <2>2
<1>2. IsFiniteSet(rest) /\ size \in Nat
  <2>1. rest \in SUBSET (DOMAIN s)
    OBVIOUS
  <2> HIDE DEF rest
  <2> QED BY <1>1, <2>1, FS_Subset, FS_CardinalityType
<1>3. \A i \in rest : IsFiniteSet(upto(i)) /\ Cardinality(upto(i)) \in 1..size
  <2> SUFFICES ASSUME NEW i \in rest
               PROVE  IsFiniteSet(upto(i)) /\ Cardinality(upto(i)) \in 1..size
    OBVIOUS
  <2>1. upto(i) \in SUBSET rest /\ i \in upto(i)
    BY <1>1
  <2> HIDE DEF rest, upto
  <2>2. IsFiniteSet(upto(i)) /\ Cardinality(upto(i)) <= Cardinality(rest)
    BY <1>2, <2>1, FS_Subset
  <2>3. Cardinality(upto(i)) \in Nat /\ Cardinality(upto(i)) # 0
    <3>1. upto(i) # {}
      BY <2>1
    <3> QED BY <3>1, <2>2, FS_CardinalityType, FS_EmptySet
  <2> QED BY <1>2, <2>2, <2>3
<1>4. \A i, j \in rest : i < j => rank[i] # rank[j]
  <2> SUFFICES ASSUME NEW i \in rest, NEW j \in rest, i < j,
                      Cardinality(upto(i)) = Cardinality(upto(j))
               PROVE  FALSE
    OBVIOUS
  <2>1. upto(i) \in SUBSET upto(j)
    BY <1>1
  <2>2. j \in upto(j) /\ j \notin upto(i)
    BY <1>1
  <2> HIDE DEF rest, upto
  <2> QED BY <1>3, <2>1, <2>2, FS_Subset
<1>5. \A i, j \in rest : rank[i] = rank[j] => i = j
  <2>1. \A i \in rest : i \in Int
    BY <1>1
  <2> HIDE DEF rest, rank
  <2> QED BY <2>1, <1>4
<1>6. \A n \in 1..size : \E i \in rest : Cardinality(upto(i)) = n
  <2>1. rank \in [rest -> 1..size]
    BY <1>3
  <2>2. IsFiniteSet(1..size) /\ Cardinality(1..size) = size
    BY <1>2, FS_Interval
  <2>3. \A n \in 1..size : \E i \in rest : rank[i] = n
    <3> HIDE DEF rest, rank
    <3>1. rank \in Injection(rest, 1..size)
      BY <2>1, <1>5, Fun_IsInj
    <3>2. rank \in Surjection(rest, 1..size)
      BY <3>1, <2>2, FS_Injection
    <3> QED BY <3>2, Fun_SurjectionProperties
  <2> QED BY <2>3
<1>7. /\ f \in [1..size -> rest]
      /\ \A n \in 1..size : Cardinality(upto(f[n])) = n
  BY <1>6
<1>8. t = [n \in 1..size |-> s[f[n]]]
  BY DEF Without
<1>9. \A i \in rest : \E n \in 1..size : f[n] = i
  <2> SUFFICES ASSUME NEW i \in rest PROVE \E n \in 1..size : f[n] = i
    OBVIOUS
  <2>1. Cardinality(upto(i)) \in 1..size
    BY <1>3
  <2>2. /\ f[Cardinality(upto(i))] \in rest
        /\ rank[f[Cardinality(upto(i))]] = Cardinality(upto(i))
        /\ rank[i] = Cardinality(upto(i))
    BY <1>7, <2>1
  <2> HIDE DEF rest, rank, f, upto, size
  <2> QED BY <1>5, <2>1, <2>2
<1> HIDE DEF size, f, upto, t
<1>10. \A n \in 1..size : f[n] \in DOMAIN s /\ s[f[n]] \notin S /\ s[f[n]] \in Hashes
  BY <1>1, <1>7, ElementOfSeq
<1>11. t \in Seq(Hashes) /\ DOMAIN t = 1..size
  BY <1>2, <1>8, <1>10
<1>12. \A m, n \in 1..size : f[m] = f[n] => m = n
  BY <1>7
<1>13. f \in [1..size -> DOMAIN s]
  BY <1>7, <1>10
<1>14. \A n \in 1..size : t[n] = s[f[n]]
  BY <1>8
<1>15. \A i \in DOMAIN s : s[i] \notin S => \E n \in 1..size : f[n] = i
  BY <1>9
<1> HIDE DEF rest
<1>16. Drops(t, s, S)
  <2>1. /\ f \in [DOMAIN t -> DOMAIN s]
        /\ \A n \in DOMAIN t : t[n] = s[f[n]]
        /\ \A m, n \in DOMAIN t : f[m] = f[n] => m = n
    BY <1>11, <1>12, <1>13, <1>14
  <2>2. /\ \A n \in DOMAIN t : s[f[n]] \notin S
        /\ \A i \in DOMAIN s : s[i] \notin S => \E n \in DOMAIN t : f[n] = i
    BY <1>10, <1>11, <1>15
  <2> QED BY <1>11, <2>1, <2>2, DropsFromPlaces
<1> QED BY <1>16 DEF t

-----------------------------------------------------------------------------
(* The operations of the peer store.                                       *)

LEMMA StoreBounds ==
    /\ MaxHashes \in Nat \ {0} /\ MaxPeersPerHash \in Nat \ {0}
    /\ TTL \in Nat \ {0} /\ SampleTTL \in Nat \ {0} /\ SampleSize \in Nat \ {0}
BY PeerStoreAssumption

\* The peers that did not expire, with their stamps.
LEMMA LivePeers ==
    ASSUME NEW peers, PeersOK(peers)
    PROVE  /\ DOMAIN Live(peers) = {p \in DOMAIN peers : peers[p] < TTL}
           /\ \A p \in DOMAIN Live(peers) : Live(peers)[p] = peers[p]
           /\ DOMAIN Live(peers) # {} => PeersOK(Live(peers))
<1> DEFINE live == {p \in DOMAIN peers : peers[p] < TTL}
<1>1. Live(peers) = [p \in live |-> peers[p]]
  BY DEF Live, RestrictDomain, Restrict
<1>2. live \in SUBSET (DOMAIN peers)
  OBVIOUS
<1> HIDE DEF live
<1>3. DOMAIN Live(peers) = live /\ \A p \in live : Live(peers)[p] = peers[p]
  BY <1>1
<1>4. IsFiniteSet(live) /\ Cardinality(live) \in Nat /\ Cardinality(live) <= Cardinality(DOMAIN peers)
  BY <1>2, FS_Subset, FS_CardinalityType DEF PeersOK
<1>5. live # {} => Cardinality(live) # 0
  BY <1>4, FS_EmptySet
<1>6. live # {} => Cardinality(live) \in 1..MaxPeersPerHash
  BY <1>4, <1>5, StoreBounds DEF PeersOK
<1>7. Live(peers) \in [live -> 0..TTL] /\ live \subseteq Peers
  BY <1>1, <1>2 DEF PeersOK
<1>8. live # {} => PeersOK(Live(peers))
  BY <1>3, <1>4, <1>6, <1>7 DEF PeersOK
<1> QED BY <1>3, <1>8 DEF live

\* What every operation that changes the map does to the history of what was stored.
LEMMA RememberKeeps ==
    ASSUME StoreIInv, Remember, Known' \subseteq Hashes, UNCHANGED cache
    PROVE  /\ stored' \in [Hashes -> 0..SampleTTL]
           /\ \A h \in Known' : stored'[h] = 0
           /\ CacheOK'
<1>1. stored' = [h \in Hashes |-> IF h \in Known' THEN 0 ELSE stored[h]]
  BY DEF Remember, Known
<1>2. stored' \in [Hashes -> 0..SampleTTL] /\ \A h \in Hashes : stored[h] \in 0..SampleTTL
  BY <1>1, StoreBounds DEF StoreIInv, HistoryOK
<1>3. \A h \in Known' : stored'[h] = 0
  BY <1>1
<1>4. \A h \in Hashes : stored'[h] <= stored[h]
  BY <1>1, <1>2, StoreBounds
<1>5. CacheOK'
  <2>1. cache'.samples \subseteq Hashes /\ cache'.age \in Nat /\ cache' = cache
    BY DEF StoreIInv, CacheOK
  <2>2. ASSUME cache'.age < SampleTTL, NEW h \in cache'.samples PROVE stored'[h] <= cache'.age
    <3>1. stored[h] <= cache'.age /\ h \in Hashes
      BY <2>1, <2>2 DEF StoreIInv, CacheOK
    <3>2. stored[h] \in Nat /\ stored'[h] \in Nat
      BY <1>2, <3>1, StoreBounds
    <3> QED BY <1>4, <2>1, <3>1, <3>2
  <2> QED BY <2>1, <2>2 DEF StoreIInv, CacheOK
<1> QED BY <1>2, <1>3, <1>5

LEMMA NothingReturned ==
    ASSUME Returns(Nothing, {})
    PROVE  OutputsOK'
<1>1. served' = [h \in Hashes |-> {}] /\ sampled' = {}
  BY DEF Returns, Nothing
<1> QED BY <1>1 DEF OutputsOK, ServedPeersAreLive, SampledWasStored

\* What Add does beside changing the map and the list.
LEMMA AddRest ==
    ASSUME StoreIInv, NEW h \in Hashes, NEW p \in Peers,
           announced' = [announced EXCEPT ![h][p] = 0],
           Remember, Returns(Nothing, {}), UNCHANGED cache,
           EntriesOK', ListOK',
           \A g \in Known' : \A q \in DOMAIN entries'[g] :
              IF g = h /\ q = p THEN entries'[g][q] = 0
              ELSE g \in Known /\ q \in DOMAIN entries[g] /\ entries'[g][q] = entries[g][q]
    PROVE  StoreIInv'
<1>1. Known' \subseteq Hashes /\ \A g \in Known' : DOMAIN entries'[g] \subseteq Peers
  BY DEF EntriesOK, PeersOK
<1>2. /\ announced' \in [Hashes -> [Peers -> 0..TTL]]
      /\ \A g \in Hashes, q \in Peers :
           announced'[g][q] = IF g = h /\ q = p THEN 0 ELSE announced[g][q]
  BY StoreBounds DEF StoreIInv, HistoryOK
<1>3. StampsMatch'
  BY <1>1, <1>2 DEF StoreIInv, HistoryOK, StampsMatch
<1>4. HistoryOK' /\ CacheOK'
  BY <1>1, <1>2, <1>3, RememberKeeps DEF HistoryOK
<1> QED BY <1>4, NothingReturned DEF StoreIInv

LEMMA RefreshKeeps ==
    ASSUME StoreIInv, NEW h \in Hashes, NEW p \in Peers, Refresh(h, p),
           announced' = [announced EXCEPT ![h][p] = 0],
           Remember, Returns(Nothing, {}), UNCHANGED cache
    PROVE  StoreIInv'
<1>1. /\ h \in Known /\ p \in DOMAIN entries[h]
      /\ entries' = [entries EXCEPT ![h][p] = 0]
      /\ UNCHANGED <<order, index>>
  BY DEF Refresh
<1>2. /\ Known' = Known
      /\ entries'[h] = [entries[h] EXCEPT ![p] = 0]
      /\ \A g \in Known : g # h => entries'[g] = entries[g]
  BY <1>1 DEF Known
<1>3. \A g \in Known : PeersOK(entries[g])
  BY DEF StoreIInv, EntriesOK
<1>4. entries'[h] \in [DOMAIN entries[h] -> 0..TTL] /\ DOMAIN entries'[h] = DOMAIN entries[h]
  BY <1>1, <1>2, <1>3, StoreBounds DEF PeersOK
<1>5. PeersOK(entries'[h])
  BY <1>1, <1>3, <1>4 DEF PeersOK
<1>6. \A g \in Known' : PeersOK(entries'[g])
  BY <1>2, <1>3, <1>5
<1>7. EntriesOK'
  BY <1>2, <1>6 DEF StoreIInv, EntriesOK
<1>8. ListOK'
  BY <1>1, <1>2 DEF StoreIInv, ListOK
<1>9. \A g \in Known' : \A q \in DOMAIN entries'[g] :
        IF g = h /\ q = p THEN entries'[g][q] = 0
        ELSE g \in Known /\ q \in DOMAIN entries[g] /\ entries'[g][q] = entries[g][q]
  BY <1>1, <1>2, <1>4
<1> QED BY <1>7, <1>8, <1>9, AddRest

LEMMA ExtendKeeps ==
    ASSUME StoreIInv, NEW h \in Hashes, NEW p \in Peers, Extend(h, p),
           announced' = [announced EXCEPT ![h][p] = 0],
           Remember, Returns(Nothing, {}), UNCHANGED cache
    PROVE  StoreIInv'
<1>1. /\ h \in Known /\ p \notin DOMAIN entries[h]
      /\ entries' = IF Cardinality(DOMAIN entries[h]) < MaxPeersPerHash
                    THEN [entries EXCEPT ![h] = With(entries[h], p, 0)] ELSE entries
      /\ UNCHANGED <<order, index>>
  BY DEF Extend
<1>2. \A g \in Known : PeersOK(entries[g])
  BY DEF StoreIInv, EntriesOK
<1>3. Known' = Known
  BY <1>1 DEF Known
<1>4. ListOK'
  BY <1>1, <1>3 DEF StoreIInv, ListOK
<1>5. CASE Cardinality(DOMAIN entries[h]) < MaxPeersPerHash
  <2>1. /\ entries'[h] = With(entries[h], p, 0)
        /\ \A g \in Known : g # h => entries'[g] = entries[g]
    BY <1>1, <1>5 DEF Known
  <2>2. /\ DOMAIN entries'[h] = DOMAIN entries[h] \cup {p}
        /\ \A q \in DOMAIN entries'[h] : entries'[h][q] = IF q = p THEN 0 ELSE entries[h][q]
        /\ entries'[h] \in [DOMAIN entries[h] \cup {p} -> 0..TTL]
    BY <1>1, <1>2, <2>1, StoreBounds DEF With, PeersOK
  <2>3. /\ IsFiniteSet(DOMAIN entries[h] \cup {p})
        /\ Cardinality(DOMAIN entries[h] \cup {p}) = Cardinality(DOMAIN entries[h]) + 1
        /\ Cardinality(DOMAIN entries[h]) \in 1..MaxPeersPerHash
    BY <1>1, <1>2, FS_AddElement DEF PeersOK
  <2>4. Cardinality(DOMAIN entries[h] \cup {p}) \in 1..MaxPeersPerHash
    BY <1>5, <2>3, StoreBounds
  <2>5. PeersOK(entries'[h])
    BY <1>1, <1>2, <2>2, <2>3, <2>4 DEF PeersOK
  <2>6. \A g \in Known' : PeersOK(entries'[g])
    BY <1>2, <1>3, <2>1, <2>5
  <2>7. EntriesOK'
    BY <1>3, <2>6 DEF StoreIInv, EntriesOK
  <2>8. \A g \in Known' : \A q \in DOMAIN entries'[g] :
          IF g = h /\ q = p THEN entries'[g][q] = 0
          ELSE g \in Known /\ q \in DOMAIN entries[g] /\ entries'[g][q] = entries[g][q]
    BY <1>1, <1>3, <2>1, <2>2
  <2> QED BY <1>4, <2>7, <2>8, AddRest
<1>6. CASE ~ (Cardinality(DOMAIN entries[h]) < MaxPeersPerHash)
  <2>1. entries' = entries
    BY <1>1, <1>6
  <2>2. EntriesOK'
    BY <1>3, <2>1 DEF StoreIInv, EntriesOK
  <2>3. \A g \in Known' : \A q \in DOMAIN entries'[g] :
          IF g = h /\ q = p THEN entries'[g][q] = 0
          ELSE g \in Known /\ q \in DOMAIN entries[g] /\ entries'[g][q] = entries[g][q]
    BY <1>1, <1>3, <2>1
  <2> QED BY <1>4, <2>2, <2>3, AddRest
<1> QED BY <1>5, <1>6

\* In a list of stored infohashes the oldest is evicted, and nothing else.
LEMMA OneEviction ==
    ASSUME StoreIInv, Known # {}
    PROVE  /\ Evictions = 1 /\ order # <<>> /\ order[1] \in Known
           /\ {order[i] : i \in 1..Evictions} = {order[1]}
<1>1. Len(order) \in Nat /\ DOMAIN order = 1..Len(order)
  BY LenProperties DEF StoreIInv, ListOK
<1>2. ToSet(order) = Known
  BY DEF StoreIInv, ListOK
<1>3. \A i \in 1..Len(order) : order[i] \in Known
  BY <1>1, <1>2 DEF ToSet
<1>4. 1 \in 1..Len(order)
  <2>1. 1..Len(order) # {}
    BY <1>1, <1>2 DEF ToSet
  <2> QED BY <1>1, <2>1
<1>5. Evictions = 1
  <2> DEFINE I == {i \in 1..Len(order) : order[i] \in Known}
  <2>1. I = 1..Len(order)
    BY <1>3
  <2>2. \A i \in I : 1 <= i
    BY <2>1
  <2>3. I # {} /\ Min(I) = 1
    BY <1>1, <1>4, <2>1, <2>2 DEF Min
  <2>4. SelectInSeq(order, LAMBDA h : h \in Known) = IF I # {} THEN Min(I) ELSE 0
    BY DEF SelectInSeq
  <2>5. SelectInSeq(order, LAMBDA h : h \in Known) = 1
    BY <2>3, <2>4
  <2> QED BY <2>5 DEF Evictions
<1>6. {order[i] : i \in 1..Evictions} = {order[1]}
  BY <1>5
<1>7. order # <<>>
  BY <1>1, <1>4, EmptySeq
<1> QED BY <1>3, <1>4, <1>5, <1>6, <1>7

LEMMA CreateKeeps ==
    ASSUME StoreIInv, NEW h \in Hashes, NEW p \in Peers, Create(h, p),
           announced' = [announced EXCEPT ![h][p] = 0],
           Remember, Returns(Nothing, {}), UNCHANGED cache
    PROVE  StoreIInv'
<1> DEFINE full == Cardinality(Known) >= MaxHashes
           out == {order[i] : i \in 1..Evictions}
           kept == IF full THEN Except(entries, out) ELSE entries
           list == IF full THEN SubSeq(order, Evictions + 1, Len(order)) ELSE order
           names == IF full THEN index \ out ELSE index
<1>1. /\ h \notin Known
      /\ entries' = With(kept, h, [q \in {p} |-> 0])
      /\ order' = Append(list, h)
      /\ index' = names \cup {h}
  BY DEF Create
<1>2. /\ Known \subseteq Hashes /\ IsFiniteSet(Known) /\ Cardinality(Known) <= MaxHashes
      /\ Cardinality(Known) \in Nat
      /\ \A g \in Known : PeersOK(entries[g])
  BY FS_CardinalityType DEF StoreIInv, EntriesOK
<1>3. index = Known /\ order \in Seq(Hashes) /\ ToSet(order) = Known /\ NoDuplicates(order)
  BY DEF StoreIInv, ListOK
<1>4. /\ DOMAIN kept \subseteq Known /\ Cardinality(DOMAIN kept) + 1 <= MaxHashes
      /\ IsFiniteSet(DOMAIN kept) /\ \A g \in DOMAIN kept : kept[g] = entries[g]
      /\ list \in Seq(Hashes) /\ NoDuplicates(list)
      /\ ToSet(list) = DOMAIN kept /\ names = DOMAIN kept
  <2>1. CASE full
    <3>1. Known # {}
      BY <1>2, <2>1, FS_EmptySet, StoreBounds
    <3>2. Evictions = 1 /\ order # <<>> /\ order[1] \in Known /\ out = {order[1]}
      BY <3>1, OneEviction
    <3>3. kept = Except(entries, {order[1]})
      BY <2>1, <3>2
    <3>4. DOMAIN kept = Known \ {order[1]} /\ \A g \in DOMAIN kept : kept[g] = entries[g]
      BY <3>3 DEF Except, Restrict, Known
    <3>5. Evictions + 1 = 2
      BY <3>2
    <3>6. list = SubSeq(order, 2, Len(order)) /\ names = Known \ {order[1]}
      BY <1>3, <2>1, <3>2, <3>5
    <3> HIDE DEF kept, list, names, full, out
    <3>7. Drops(list, order, {order[1]})
      BY <1>3, <3>2, <3>6, FirstDrops
    <3>8. /\ IsFiniteSet(Known \ {order[1]})
          /\ Cardinality(Known \ {order[1]}) = Cardinality(Known) - 1
      BY <1>2, <3>2, FS_RemoveElement
    <3>9. Cardinality(DOMAIN kept) + 1 <= MaxHashes
      BY <1>2, <3>4, <3>8, StoreBounds
    <3> QED BY <1>3, <3>4, <3>6, <3>7, <3>8, <3>9 DEF Drops
  <2>2. CASE ~ full
    <3>1. kept = entries /\ list = order /\ names = index
      BY <2>2
    <3>2. Cardinality(Known) + 1 <= MaxHashes
      BY <1>2, <2>2, StoreBounds
    <3> HIDE DEF kept, list, names, full, out
    <3> QED BY <1>2, <1>3, <3>1, <3>2 DEF Known
  <2> QED BY <2>1, <2>2
<1> HIDE DEF kept, list, names, full, out
<1>5. /\ Known' = DOMAIN kept \cup {h}
      /\ entries'[h] = [q \in {p} |-> 0]
      /\ \A g \in DOMAIN kept : entries'[g] = entries[g]
  BY <1>1, <1>4 DEF With, Known
<1>6. PeersOK([q \in {p} |-> 0])
  <2>1. IsFiniteSet({p}) /\ Cardinality({p}) = 1
    BY FS_Singleton
  <2>2. DOMAIN [q \in {p} |-> 0] = {p} /\ [q \in {p} |-> 0] \in [{p} -> 0..TTL]
    BY StoreBounds
  <2> QED BY <2>1, <2>2, StoreBounds DEF PeersOK
<1>7. \A g \in Known' : PeersOK(entries'[g])
  BY <1>2, <1>4, <1>5, <1>6
<1>8. /\ IsFiniteSet(DOMAIN kept \cup {h}) /\ Cardinality(DOMAIN kept \cup {h}) <= MaxHashes
  <2>1. h \notin DOMAIN kept
    BY <1>1, <1>4
  <2> QED BY <1>4, <2>1, FS_AddElement
<1>9. EntriesOK'
  BY <1>2, <1>4, <1>5, <1>7, <1>8 DEF EntriesOK
<1>10. ListOK'
  BY <1>1, <1>4, <1>5, AppendAdds DEF ListOK
<1>11. \A g \in Known' : \A q \in DOMAIN entries'[g] :
        IF g = h /\ q = p THEN entries'[g][q] = 0
        ELSE g \in Known /\ q \in DOMAIN entries[g] /\ entries'[g][q] = entries[g][q]
  BY <1>1, <1>4, <1>5
<1> QED BY <1>9, <1>10, <1>11, AddRest

\* What the operations that drop expired peers do to the history.
LEMMA DropRest ==
    ASSUME StoreIInv, Remember, EntriesOK', ListOK', UNCHANGED <<cache, announced>>,
           \A g \in Known' : \A q \in DOMAIN entries'[g] :
              g \in Known /\ q \in DOMAIN entries[g] /\ entries'[g][q] = entries[g][q]
    PROVE  EntriesOK' /\ ListOK' /\ HistoryOK' /\ CacheOK'
<1>1. Known' \subseteq Hashes
  BY DEF EntriesOK
<1>2. StampsMatch'
  BY DEF StoreIInv, HistoryOK, StampsMatch
<1> QED BY <1>1, <1>2, RememberKeeps DEF StoreIInv, HistoryOK

\* Removing an infohash from the list finds its one element.
LEMMA RemovalFromList ==
    ASSUME StoreIInv, NEW h \in Known
    PROVE  Drops(OrderWithout(h), order, {h})
<1>1. index = Known /\ order \in Seq(Hashes) /\ ToSet(order) = Known /\ NoDuplicates(order)
  BY DEF StoreIInv, ListOK
<1>2. Len(order) \in Nat /\ DOMAIN order = 1..Len(order)
  BY <1>1, LenProperties
<1>3. PICK k \in 1..Len(order) : order[k] = h
  BY <1>1, <1>2 DEF ToSet
<1> DEFINE I == {i \in 1..Len(order) : order[i] = h}
<1>4. I = {k}
  BY <1>1, <1>2, <1>3 DEF NoDuplicates
<1>5. I # {} /\ Max(I) = k
  BY <1>4 DEF Max
<1>6. SelectLastInSeq(order, LAMBDA x : x = h) = IF I # {} THEN Max(I) ELSE 0
  BY DEF SelectLastInSeq
<1>7. SelectLastInSeq(order, LAMBDA x : x = h) = k
  BY <1>5, <1>6
<1>8. OrderWithout(h) = RemoveAt(order, k)
  BY <1>1, <1>7 DEF OrderWithout
<1> QED BY <1>1, <1>3, <1>8, RemoveAtDrops

LEMMA GetKeeps ==
    ASSUME StoreIInv, NEW h \in Hashes, Get(h)
    PROVE  StoreIInv'
<1> DEFINE live == IF h \in Known THEN Live(entries[h]) ELSE NoEntries
<1>1. /\ \/ /\ h \in Known /\ DOMAIN live = {}
            /\ entries' = Except(entries, {h})
            /\ order' = OrderWithout(h)
            /\ index' = index \ {h}
         \/ /\ ~ (h \in Known /\ DOMAIN live = {})
            /\ entries' = IF h \in Known THEN [entries EXCEPT ![h] = live] ELSE entries
            /\ UNCHANGED <<order, index>>
      /\ Remember
      /\ served' = [Nothing EXCEPT ![h] = DOMAIN live] /\ sampled' = {}
      /\ UNCHANGED <<cache, announced>>
  BY DEF Get, Returns
<1>2. /\ h \in Known => live = Live(entries[h])
      /\ h \notin Known => DOMAIN live = {}
  BY DEF NoEntries
<1>3. h \in Known =>
        /\ DOMAIN live = {p \in DOMAIN entries[h] : entries[h][p] < TTL}
        /\ \A p \in DOMAIN live : live[p] = entries[h][p]
        /\ DOMAIN live # {} => PeersOK(live)
  BY <1>2, LivePeers DEF StoreIInv, EntriesOK
<1> HIDE DEF live
<1>4. /\ EntriesOK' /\ ListOK'
      /\ \A g \in Known' : \A q \in DOMAIN entries'[g] :
           g \in Known /\ q \in DOMAIN entries[g] /\ entries'[g][q] = entries[g][q]
  <2>1. CASE h \in Known /\ DOMAIN live = {}
    <3>1. entries' = Except(entries, {h}) /\ order' = OrderWithout(h) /\ index' = index \ {h}
      BY <1>1, <2>1
    <3>2. Known' = Known \ {h} /\ \A g \in Known' : entries'[g] = entries[g]
      BY <3>1 DEF Known, Except, Restrict
    <3>3. IsFiniteSet(Known \ {h}) /\ Cardinality(Known \ {h}) <= MaxHashes
      <4>1. Known \ {h} \in SUBSET Known /\ IsFiniteSet(Known) /\ Cardinality(Known) <= MaxHashes
        BY DEF StoreIInv, EntriesOK
      <4>2. /\ IsFiniteSet(Known \ {h}) /\ Cardinality(Known \ {h}) <= Cardinality(Known)
            /\ Cardinality(Known) \in Nat /\ Cardinality(Known \ {h}) \in Nat
        BY <4>1, FS_Subset, FS_CardinalityType
      <4> QED BY <4>1, <4>2, StoreBounds
    <3>4. EntriesOK'
      BY <3>2, <3>3 DEF StoreIInv, EntriesOK
    <3>5. ListOK'
      BY <2>1, <3>1, <3>2, RemovalFromList DEF Drops, StoreIInv, ListOK
    <3> QED BY <3>2, <3>4, <3>5
  <2>2. CASE h \in Known /\ DOMAIN live # {}
    <3>1. entries' = [entries EXCEPT ![h] = live] /\ UNCHANGED <<order, index>>
      BY <1>1, <2>2
    <3>2. /\ Known' = Known /\ entries'[h] = live
          /\ \A g \in Known : g # h => entries'[g] = entries[g]
      BY <2>2, <3>1 DEF Known
    <3>3. \A g \in Known' : PeersOK(entries'[g])
      BY <1>3, <2>2, <3>2 DEF StoreIInv, EntriesOK
    <3>4. EntriesOK'
      BY <3>2, <3>3 DEF StoreIInv, EntriesOK
    <3>5. ListOK'
      BY <3>1, <3>2 DEF StoreIInv, ListOK
    <3> QED BY <1>3, <3>2, <3>4, <3>5
  <2>3. CASE h \notin Known
    <3>1. UNCHANGED <<entries, order, index>>
      BY <1>1, <2>3
    <3>2. Known' = Known
      BY <3>1 DEF Known
    <3> QED BY <3>1, <3>2 DEF StoreIInv, EntriesOK, ListOK
  <2> QED BY <2>1, <2>2, <2>3
<1>5. HistoryOK' /\ CacheOK'
  BY <1>1, <1>4, DropRest
<1>6. OutputsOK'
  <2>1. /\ served'[h] = DOMAIN live /\ \A g \in Hashes : g # h => served'[g] = {}
        /\ DOMAIN served' = Hashes
    BY <1>1 DEF Nothing
  <2>2. \A p \in DOMAIN live : p \in Peers /\ announced[h][p] < TTL
    BY <1>2, <1>3 DEF StoreIInv, EntriesOK, PeersOK, HistoryOK, StampsMatch
  <2>3. served' \in [Hashes -> SUBSET Peers]
    <3>1. DOMAIN live \subseteq Peers
      BY <2>2
    <3> QED BY <1>1, <3>1 DEF Nothing
  <2>4. ServedPeersAreLive'
    BY <1>1, <2>1, <2>2 DEF ServedPeersAreLive
  <2> QED BY <1>1, <2>3, <2>4 DEF OutputsOK, SampledWasStored
<1> QED BY <1>4, <1>5, <1>6 DEF StoreIInv

LEMMA PruneKeeps ==
    ASSUME StoreIInv, Prune
    PROVE  StoreIInv'
<1>1. /\ entries' = [h \in Known \ Dead |-> Live(entries[h])]
      /\ order' = Without(order, Dead)
      /\ index' = index \ Dead
      /\ Remember /\ Returns(Nothing, {})
      /\ UNCHANGED <<cache, announced>>
  BY DEF Prune
<1>2. Known' = Known \ Dead /\ \A h \in Known' : entries'[h] = Live(entries[h])
  BY <1>1 DEF Known
<1>3. \A h \in Known \ Dead : DOMAIN Live(entries[h]) # {}
  BY DEF Dead, StoreIInv, ListOK
<1>4. \A h \in Known' : PeersOK(entries'[h])
  BY <1>2, <1>3, LivePeers DEF StoreIInv, EntriesOK
<1>5. IsFiniteSet(Known') /\ Cardinality(Known') <= MaxHashes
  <2>1. Known' \in SUBSET Known /\ IsFiniteSet(Known) /\ Cardinality(Known) <= MaxHashes
    BY <1>2 DEF StoreIInv, EntriesOK
  <2>2. /\ IsFiniteSet(Known') /\ Cardinality(Known') <= Cardinality(Known)
        /\ Cardinality(Known) \in Nat /\ Cardinality(Known') \in Nat
    BY <2>1, FS_Subset, FS_CardinalityType
  <2> QED BY <2>1, <2>2, StoreBounds
<1>6. EntriesOK'
  BY <1>2, <1>4, <1>5 DEF StoreIInv, EntriesOK
<1>7. ListOK'
  <2>1. Drops(Without(order, Dead), order, Dead)
    BY WithoutDrops DEF StoreIInv, ListOK
  <2> QED BY <1>1, <1>2, <2>1 DEF Drops, StoreIInv, ListOK
<1>8. \A g \in Known' : \A q \in DOMAIN entries'[g] :
        g \in Known /\ q \in DOMAIN entries[g] /\ entries'[g][q] = entries[g][q]
  <2> SUFFICES ASSUME NEW g \in Known', NEW q \in DOMAIN entries'[g]
               PROVE  g \in Known /\ q \in DOMAIN entries[g] /\ entries'[g][q] = entries[g][q]
    OBVIOUS
  <2>1. g \in Known /\ entries'[g] = Live(entries[g]) /\ PeersOK(entries[g])
    BY <1>2 DEF StoreIInv, EntriesOK
  <2> QED BY <2>1, LivePeers
<1>9. HistoryOK' /\ CacheOK'
  BY <1>1, <1>6, <1>7, <1>8, DropRest
<1> QED BY <1>1, <1>6, <1>7, <1>9, NothingReturned DEF StoreIInv

LEMMA SampleKeeps ==
    ASSUME StoreIInv, Sample
    PROVE  StoreIInv'
<1>1. UNCHANGED <<entries, order, index, announced, stored>>
  BY DEF Sample
<1>2. Known' = Known
  BY <1>1 DEF Known
<1>3. EntriesOK' /\ ListOK' /\ HistoryOK'
  BY <1>1, <1>2 DEF StoreIInv, EntriesOK, ListOK, HistoryOK, StampsMatch
<1>4. Known \subseteq Hashes /\ \A h \in Known : stored[h] = 0
  BY DEF StoreIInv, EntriesOK, HistoryOK
<1>5. ASSUME served' = Nothing, sampled' \subseteq Hashes, \A h \in sampled' : stored[h] < SampleTTL
      PROVE  OutputsOK'
  <2>1. served' \in [Hashes -> SUBSET Peers] /\ \A h \in Hashes : served'[h] = {}
    BY <1>5 DEF Nothing
  <2> QED BY <1>1, <1>5, <2>1 DEF OutputsOK, ServedPeersAreLive, SampledWasStored
<1>6. CASE Known = {}
  <2>1. UNCHANGED cache /\ served' = Nothing /\ sampled' = {}
    BY <1>6 DEF Sample, Returns
  <2>2. CacheOK' /\ OutputsOK'
    BY <1>1, <1>5, <2>1 DEF StoreIInv, CacheOK
  <2> QED BY <1>3, <2>2 DEF StoreIInv
<1>7. CASE Known # {} /\ cache.age < SampleTTL /\ cache.samples # {}
  <2>1. UNCHANGED cache /\ served' = Nothing /\ sampled' = cache.samples
    BY <1>7 DEF Sample, Returns
  <2>2. cache.samples \subseteq Hashes /\ cache.age \in Nat
    BY DEF StoreIInv, CacheOK
  <2>3. \A h \in cache.samples : stored[h] < SampleTTL
    <3>1. \A h \in cache.samples : stored[h] <= cache.age /\ stored[h] \in Nat
      BY <1>7, <2>2, StoreBounds DEF StoreIInv, CacheOK, HistoryOK
    <3> QED BY <1>7, <2>2, <3>1, StoreBounds
  <2>4. CacheOK' /\ OutputsOK'
    BY <1>1, <1>5, <2>1, <2>2, <2>3 DEF StoreIInv, CacheOK
  <2> QED BY <1>3, <2>4 DEF StoreIInv
<1>8. CASE Known # {} /\ ~ (cache.age < SampleTTL /\ cache.samples # {})
  <2>1. PICK S \in SUBSET Known :
          /\ cache' = [samples |-> S, age |-> 0]
          /\ served' = Nothing /\ sampled' = S
    BY <1>8 DEF Sample, Returns
  <2>2. CacheOK'
    BY <1>1, <1>4, <2>1, StoreBounds DEF CacheOK
  <2>3. OutputsOK'
    BY <1>4, <1>5, <2>1, StoreBounds
  <2> QED BY <1>3, <2>2, <2>3 DEF StoreIInv
<1> QED BY <1>6, <1>7, <1>8

LEMMA TickKeeps ==
    ASSUME StoreIInv, Tick
    PROVE  StoreIInv'
<1>1. /\ entries' = [h \in Known |-> [p \in DOMAIN entries[h] |-> Older(entries[h][p], TTL)]]
      /\ cache' = [cache EXCEPT !.age = Older(cache.age, SampleTTL)]
      /\ announced' = [h \in Hashes |-> [p \in Peers |-> Older(announced[h][p], TTL)]]
      /\ stored' = [h \in Hashes |-> IF h \in Known THEN 0 ELSE Older(stored[h], SampleTTL)]
      /\ Returns(Nothing, {}) /\ UNCHANGED <<order, index>>
  BY DEF Tick
<1>2. /\ \A age \in 0..TTL : Older(age, TTL) \in 0..TTL
      /\ \A age \in 0..SampleTTL :
           /\ Older(age, SampleTTL) \in 0..SampleTTL
           /\ Older(age, SampleTTL) < SampleTTL => age < SampleTTL /\ Older(age, SampleTTL) = age + 1
           /\ Older(age, SampleTTL) <= age + 1
  BY StoreBounds DEF Older
<1>3. /\ Known' = Known
      /\ \A h \in Known : entries'[h] = [p \in DOMAIN entries[h] |-> Older(entries[h][p], TTL)]
  BY <1>1 DEF Known
<1>4. ASSUME NEW h \in Known PROVE PeersOK(entries'[h])
  <2>1. PeersOK(entries[h])
    BY DEF StoreIInv, EntriesOK
  <2>2. DOMAIN entries'[h] = DOMAIN entries[h]
    BY <1>3
  <2>3. entries'[h] \in [DOMAIN entries[h] -> 0..TTL]
    <3>1. \A p \in DOMAIN entries[h] : Older(entries[h][p], TTL) \in 0..TTL
      BY <1>2, <2>1 DEF PeersOK
    <3> QED BY <1>3, <3>1
  <2> QED BY <2>1, <2>2, <2>3 DEF PeersOK
<1>5. EntriesOK' /\ ListOK'
  BY <1>1, <1>3, <1>4 DEF StoreIInv, EntriesOK, ListOK
<1>6. /\ announced' \in [Hashes -> [Peers -> 0..TTL]]
      /\ stored' \in [Hashes -> 0..SampleTTL]
      /\ \A h \in Known' : stored'[h] = 0
  <2>1. \A h \in Hashes : stored[h] \in 0..SampleTTL /\ \A p \in Peers : announced[h][p] \in 0..TTL
    BY DEF StoreIInv, HistoryOK
  <2>2. announced' \in [Hashes -> [Peers -> 0..TTL]]
    BY <1>1, <1>2, <2>1, StoreBounds
  <2>3. stored' \in [Hashes -> 0..SampleTTL]
    BY <1>1, <1>2, <2>1, StoreBounds
  <2>4. Known \subseteq Hashes
    BY DEF StoreIInv, EntriesOK
  <2> QED BY <1>1, <1>3, <2>2, <2>3, <2>4
<1>7. StampsMatch'
  <2>1. ASSUME NEW h \in Known', NEW p \in DOMAIN entries'[h] PROVE entries'[h][p] = announced'[h][p]
    <3>1. h \in Known /\ h \in Hashes /\ p \in DOMAIN entries[h] /\ p \in Peers
      BY <1>3 DEF StoreIInv, EntriesOK, PeersOK
    <3>2. entries[h][p] = announced[h][p]
      BY <3>1 DEF StoreIInv, HistoryOK, StampsMatch
    <3>3. entries'[h][p] = Older(entries[h][p], TTL) /\ announced'[h][p] = Older(announced[h][p], TTL)
      BY <1>1, <1>3, <3>1
    <3> QED BY <3>2, <3>3
  <2> QED BY <2>1 DEF StampsMatch
<1>8. CacheOK'
  <2>1. /\ cache.age \in 0..SampleTTL /\ cache.samples \subseteq Hashes
        /\ cache \in [samples : SUBSET Hashes, age : 0..SampleTTL]
    BY DEF StoreIInv, CacheOK
  <2>2. /\ cache'.age = Older(cache.age, SampleTTL) /\ cache'.samples = cache.samples
        /\ cache' \in [samples : SUBSET Hashes, age : 0..SampleTTL]
    <3>1. Older(cache.age, SampleTTL) \in 0..SampleTTL
      BY <1>2, <2>1, StoreBounds
    <3> QED BY <1>1, <2>1, <3>1
  <2>3. ASSUME cache'.age < SampleTTL, NEW h \in cache'.samples PROVE stored'[h] <= cache'.age
    <3>1. cache.age < SampleTTL /\ cache'.age = cache.age + 1
      BY <1>2, <2>1, <2>2, <2>3
    <3>2. h \in Hashes /\ stored[h] <= cache.age /\ stored[h] \in 0..SampleTTL
      BY <2>1, <2>2, <2>3, <3>1 DEF StoreIInv, CacheOK, HistoryOK
    <3>3. stored'[h] = 0 \/ stored'[h] = Older(stored[h], SampleTTL)
      BY <1>1, <3>2
    <3>4. Older(stored[h], SampleTTL) <= stored[h] + 1 /\ Older(stored[h], SampleTTL) \in Nat
      BY <1>2, <3>2, StoreBounds
    <3> QED BY <2>1, <3>1, <3>2, <3>3, <3>4, StoreBounds
  <2> QED BY <2>2, <2>3 DEF CacheOK
<1> QED BY <1>1, <1>5, <1>6, <1>7, <1>8, NothingReturned DEF StoreIInv, HistoryOK

LEMMA StoreStarts == Init => StoreIInv
<1> SUFFICES ASSUME Init PROVE StoreIInv
  OBVIOUS
<1>1. /\ entries = NoEntries /\ order = <<>> /\ index = {}
      /\ cache = [samples |-> {}, age |-> SampleTTL]
      /\ served = Nothing /\ sampled = {}
      /\ announced = [h \in Hashes |-> [p \in Peers |-> TTL]]
      /\ stored = [h \in Hashes |-> SampleTTL]
  BY DEF Init
<1>2. Known = {}
  BY <1>1 DEF Known, NoEntries
<1>3. IsFiniteSet({}) /\ Cardinality({}) = 0
  BY FS_EmptySet
<1>4. EntriesOK
  BY <1>2, <1>3, StoreBounds DEF EntriesOK
<1>5. DOMAIN order = {} /\ order \in Seq(Hashes)
  BY <1>1, EmptySeq
<1>6. ListOK
  BY <1>1, <1>2, <1>5 DEF ListOK, ToSet, NoDuplicates
<1>7. HistoryOK
  BY <1>1, <1>2, StoreBounds DEF HistoryOK, StampsMatch
<1>8. CacheOK
  BY <1>1, StoreBounds DEF CacheOK
<1>9. served \in [Hashes -> SUBSET Peers] /\ \A h \in Hashes : served[h] = {}
  BY <1>1 DEF Nothing
<1>10. OutputsOK
  BY <1>1, <1>9 DEF OutputsOK, ServedPeersAreLive, SampledWasStored
<1> QED BY <1>4, <1>6, <1>7, <1>8, <1>10 DEF StoreIInv

LEMMA StoreStep == StoreIInv /\ [Next]_vars => StoreIInv'
<1> SUFFICES ASSUME StoreIInv, [Next]_vars PROVE StoreIInv'
  OBVIOUS
<1>1. CASE UNCHANGED vars
  <2>1. /\ UNCHANGED <<entries, order, index, cache, served, sampled, announced, stored>>
        /\ Known' = Known
    BY <1>1 DEF vars, Known
  <2>2. EntriesOK' /\ ListOK' /\ HistoryOK' /\ CacheOK' /\ OutputsOK'
    BY <2>1 DEF StoreIInv, EntriesOK, ListOK, HistoryOK, StampsMatch, CacheOK, OutputsOK,
                ServedPeersAreLive, SampledWasStored
  <2> QED BY <2>2 DEF StoreIInv
<1>2. ASSUME NEW h \in Hashes, NEW p \in Peers, Add(h, p) PROVE StoreIInv'
  <2>1. /\ Refresh(h, p) \/ Extend(h, p) \/ Create(h, p)
        /\ announced' = [announced EXCEPT ![h][p] = 0]
        /\ Remember /\ Returns(Nothing, {}) /\ UNCHANGED cache
    BY <1>2 DEF Add
  <2> QED BY <2>1, RefreshKeeps, ExtendKeeps, CreateKeeps
<1>3. CASE Next
  BY <1>2, <1>3, GetKeeps, PruneKeeps, SampleKeeps, TickKeeps DEF Next
<1> QED BY <1>1, <1>3

LEMMA StoreInvariant == Spec => []StoreIInv
BY StoreStarts, StoreStep, PTL DEF Spec

LEMMA StoreMatches == StoreIInv => OrderMatchesEntries
<1> SUFFICES ASSUME StoreIInv PROVE OrderMatchesEntries
  OBVIOUS
<1>1. index = Known /\ order \in Seq(Hashes) /\ ToSet(order) = Known /\ NoDuplicates(order)
  BY DEF StoreIInv, ListOK
<1>2. Len(order) = Cardinality(Known)
  BY <1>1, ListCounts
<1>3. TypeOK
  BY <1>1 DEF TypeOK, StoreIInv, EntriesOK, PeersOK, HistoryOK, CacheOK, OutputsOK
<1> QED BY <1>1, <1>2, <1>3 DEF OrderMatchesEntries

\* Through every eviction, removal and pruning, the map, the list of insertions and
\* the index into it name the same infohashes, each once.
THEOREM ListMatchesMap == Spec => []OrderMatchesEntries
BY StoreInvariant, StoreMatches, PTL

\* A get_peers answer names only peers that announced within the TTL.
THEOREM OnlyLivePeersServed == Spec => []ServedPeersAreLive
<1>1. StoreIInv => ServedPeersAreLive
  BY DEF StoreIInv, OutputsOK
<1> QED BY <1>1, StoreInvariant, PTL

\* A BEP-51 sample names only infohashes stored within the lifetime of the sample.
THEOREM OnlyStoredSampled == Spec => []SampledWasStored
<1>1. StoreIInv => SampledWasStored
  BY DEF StoreIInv, OutputsOK
<1> QED BY <1>1, StoreInvariant, PTL

=============================================================================
