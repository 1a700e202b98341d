------------------------- MODULE StoreLayers_proofs -------------------------
(***************************************************************************)
(* Theorems about the layers of the content store above its files: the     *)
(* chunk cache with batches and reads, which implement BlobStore; resumable *)
(* writes; and the integrity scan.  Each is proved for the component by    *)
(* itself, for any number of objects, readers, tasks, transfers and streams. *)
(***************************************************************************)
EXTENDS ChunkCache, ResumableWrite, IntegrityScan, FiniteSetTheorems, TLAPS

(* What Append and Tail make of a queue. *)
LEMMA AppendFacts ==
    ASSUME NEW S, NEW q \in Seq(S), NEW x \in S
    PROVE  /\ Append(q, x) \in Seq(S) /\ Len(q) \in Nat /\ Len(Append(q, x)) = Len(q) + 1
           /\ \A i \in 1..Len(q) : Append(q, x)[i] = q[i]
           /\ Append(q, x)[Len(q) + 1] = x
  OBVIOUS

LEMMA TailFacts ==
    ASSUME NEW S, NEW q \in Seq(S), q # <<>>
    PROVE  /\ Len(q) \in Nat \ {0} /\ Head(q) = q[1] /\ Head(q) \in S
           /\ Tail(q) \in Seq(S) /\ Len(Tail(q)) = Len(q) - 1
           /\ \A i \in 1..Len(Tail(q)) : Tail(q)[i] = q[i + 1] /\ i + 1 \in 1..Len(q)
  OBVIOUS

LEMMA ConcatFacts ==
    ASSUME NEW S, NEW a \in Seq(S), NEW b \in Seq(S)
    PROVE  /\ a \o b \in Seq(S) /\ Len(a \o b) = Len(a) + Len(b)
           /\ \A i \in 1..(Len(a) + Len(b)) : (a \o b)[i] = IF i <= Len(a) THEN a[i] ELSE b[i - Len(a)]
  OBVIOUS

(***************************************************************************)
(* The chunk cache, the batches and the reads.                             *)
(***************************************************************************)
(* The cache alone. *)
CacheSpec == CacheInit /\ [][CacheNext]_cvars

(* The cache holds no object twice. *)
Distinct(q) == \A i, j \in 1..Len(q) : q[i] = q[j] => i = j

LruInv ==
    /\ lru \in Seq(Hashes) /\ Distinct(lru) /\ Len(lru) <= MaxChunks
    /\ IsFiniteSet(Units(Cached)) /\ total_size \in Nat
    /\ Bytes(Cached) <= total_size /\ total_size <= MaxBytes

(* An object that write_batch returned is pending, is to be spawned, or has *)
(* a task that did not try yet.                                             *)
BatchInv ==
    /\ pending \in Seq(Hashes) /\ flushing \in Seq(Hashes)
    /\ tasks \in [Slots -> BatchTask \cup {NoTask}]
    /\ \A h \in owed : \/ h \in ToSet(pending) \/ h \in ToSet(flushing)
                       \/ \E t \in Slots : tasks[t] # NoTask /\ tasks[t].hash = h /\ tasks[t].step = "write"

(* Whatever is cached, or on its way into the cache, was stored. *)
ReadInv ==
    /\ objects \subseteq stored /\ stored \subseteq Hashes /\ Cached \subseteq stored
    /\ reading \in [Readers -> Hashes \cup {NoHash}] /\ result \in [Readers -> {"none", "data", "missing", "error"}]
    /\ rpc \in [Readers -> {"idle", "lookup", "disk", "fill"}]
    /\ \A r \in Readers : /\ rpc[r] = "idle" <=> reading[r] = NoHash
                          /\ rpc[r] = "fill" => reading[r] \in stored
    /\ \A t \in Slots : tasks[t] # NoTask /\ tasks[t].step = "fill" => tasks[t].hash \in stored

CacheInv == LruInv /\ BatchInv /\ ReadInv

LEMMA ToSetFacts ==
    ASSUME NEW S, NEW q \in Seq(S)
    PROVE  /\ ToSet(q) = {q[i] : i \in 1..Len(q)} /\ ToSet(q) \subseteq S /\ Len(q) \in Nat
           /\ ToSet(<<>>) = {}
  BY DEF ToSet

LEMMA SubSeqFacts ==
    ASSUME NEW S, NEW q \in Seq(S), NEW m \in 1..(Len(q) + 1), NEW n \in 0..Len(q), m <= n + 1
    PROVE  /\ SubSeq(q, m, n) \in Seq(S) /\ Len(SubSeq(q, m, n)) = n - m + 1
           /\ \A i \in 1..(n - m + 1) : SubSeq(q, m, n)[i] = q[m + i - 1]
           /\ ToSet(SubSeq(q, m, n)) = {q[i] : i \in m..n}
<1>1. /\ SubSeq(q, m, n) \in Seq(S) /\ Len(SubSeq(q, m, n)) = n - m + 1
      /\ \A i \in 1..(n - m + 1) : SubSeq(q, m, n)[i] = q[m + i - 1]
  OBVIOUS
<1> DEFINE c == SubSeq(q, m, n)
<1>6. c \in Seq(S) /\ Len(c) = n - m + 1 /\ \A i \in 1..(n - m + 1) : c[i] = q[m + i - 1]
  BY <1>1
<1> HIDE DEF c
<1>2. ToSet(c) = {c[i] : i \in 1..(n - m + 1)}
  BY <1>6, ToSetFacts
<1>3. \A i \in m..n : i - m + 1 \in 1..(n - m + 1) /\ m + (i - m + 1) - 1 = i
  OBVIOUS
<1>4. \A i \in 1..(n - m + 1) : m + i - 1 \in m..n
  OBVIOUS
<1>7. \A x : (\E i \in 1..(n - m + 1) : x = c[i]) <=> (\E i \in m..n : x = q[i])
  <2>1. ASSUME NEW i \in 1..(n - m + 1) PROVE m + i - 1 \in m..n /\ c[i] = q[m + i - 1]
    BY <1>6, <1>4
  <2>2. ASSUME NEW i \in m..n PROVE i - m + 1 \in 1..(n - m + 1) /\ c[i - m + 1] = q[i]
    <3>1. PICK k \in 1..(n - m + 1) : k = i - m + 1 /\ m + k - 1 = i
      BY <1>3
    <3> QED BY <3>1, <1>6
  <2> QED BY <2>1, <2>2
<1>5. {c[i] : i \in 1..(n - m + 1)} = {q[i] : i \in m..n}
  BY <1>7
<1> QED BY <1>1, <1>2, <1>5 DEF c

(* The sequence without an element it has once. *)
LEMMA RemoveFirstFacts ==
    ASSUME NEW S, NEW q \in Seq(S), Distinct(q), NEW h
    PROVE  /\ RemoveFirst(q, h) \in Seq(S) /\ Distinct(RemoveFirst(q, h))
           /\ Len(RemoveFirst(q, h)) \in Nat /\ Len(RemoveFirst(q, h)) <= Len(q)
           /\ h \in ToSet(q) => Len(RemoveFirst(q, h)) < Len(q)
           /\ ToSet(RemoveFirst(q, h)) = ToSet(q) \ {h}
<1>1. CASE ~\E i \in 1..Len(q) : q[i] = h
  <2>1. RemoveFirst(q, h) = q
    BY <1>1 DEF RemoveFirst
  <2>2. h \notin ToSet(q)
    BY <1>1, ToSetFacts
  <2> QED BY <2>1, <2>2, ToSetFacts
<1>2. CASE \E i \in 1..Len(q) : q[i] = h
  <2>1. PICK k \in 1..Len(q) : q[k] = h
    BY <1>2
  <2>2. SelectInSeq(q, LAMBDA v : v = h) = k
    <3>1. {i \in 1..Len(q) : q[i] = h} = {k}
      BY <2>1 DEF Distinct
    <3>2. Min({k}) = k
      BY DEF Min
    <3> QED BY <3>1, <3>2 DEF SelectInSeq
  <2>3. RemoveFirst(q, h) = SubSeq(q, 1, k - 1) \o SubSeq(q, k + 1, Len(q))
    BY <1>2, <2>2 DEF RemoveFirst, RemoveAt
  <2> DEFINE a == SubSeq(q, 1, k - 1)
             b == SubSeq(q, k + 1, Len(q))
  <2>4. /\ a \in Seq(S) /\ Len(a) = k - 1 /\ \A i \in 1..(k - 1) : a[i] = q[i]
        /\ b \in Seq(S) /\ Len(b) = Len(q) - k /\ \A i \in 1..(Len(q) - k) : b[i] = q[k + i]
    OBVIOUS
  <2> HIDE DEF a, b
  <2>5. /\ a \o b \in Seq(S) /\ Len(a \o b) = Len(q) - 1
        /\ \A i \in 1..(Len(q) - 1) : (a \o b)[i] = IF i < k THEN q[i] ELSE q[i + 1]
    <3>1. /\ a \o b \in Seq(S) /\ Len(a \o b) = Len(a) + Len(b)
          /\ \A i \in 1..(Len(a) + Len(b)) : (a \o b)[i] = IF i <= Len(a) THEN a[i] ELSE b[i - Len(a)]
      BY <2>4, ConcatFacts
    <3>2. \A i \in 1..(Len(q) - 1) :
            /\ i < k => i <= Len(a) /\ i \in 1..(k - 1)
            /\ ~(i < k) => /\ ~(i <= Len(a)) /\ i - Len(a) \in 1..(Len(q) - k)
                           /\ k + (i - Len(a)) = i + 1
      BY <2>4
    <3> QED BY <2>4, <3>1, <3>2
  <2> DEFINE c == a \o b
  <2>6. /\ c \in Seq(S) /\ Len(c) = Len(q) - 1
        /\ \A i \in 1..(Len(q) - 1) : c[i] = IF i < k THEN q[i] ELSE q[i + 1]
    BY <2>5
  <2>7. RemoveFirst(q, h) = c
    BY <2>3 DEF a, b
  <2> HIDE DEF c
  <2>8. Distinct(c)
    BY <2>6 DEF Distinct
  <2>9. ToSet(c) = ToSet(q) \ {h}
    <3>1. ToSet(c) = {c[i] : i \in 1..(Len(q) - 1)} /\ ToSet(q) = {q[i] : i \in 1..Len(q)}
      BY <2>6, ToSetFacts
    <3>2. \A i \in 1..(Len(q) - 1) : c[i] \in ToSet(q) /\ c[i] # h
      BY <2>1, <2>6, <3>1 DEF Distinct
    <3>3. \A i \in 1..Len(q) : q[i] # h => q[i] \in ToSet(c)
      <4> SUFFICES ASSUME NEW i \in 1..Len(q), q[i] # h PROVE q[i] \in ToSet(c)
        OBVIOUS
      <4>1. CASE i < k
        BY <4>1, <2>6, <3>1
      <4>2. CASE i > k
        <5>1. i - 1 \in 1..(Len(q) - 1) /\ ~(i - 1 < k) /\ (i - 1) + 1 = i
          BY <4>2
        <5> QED BY <5>1, <2>6, <3>1
      <4> QED BY <4>1, <4>2, <2>1
    <3> QED BY <3>1, <3>2, <3>3
  <2> QED BY <2>6, <2>7, <2>8, <2>9
<1> QED BY <1>1, <1>2

LEMMA ConsFacts ==
    ASSUME NEW S, NEW q \in Seq(S), Distinct(q), NEW h \in S, h \notin ToSet(q)
    PROVE  /\ <<h>> \o q \in Seq(S) /\ Distinct(<<h>> \o q) /\ Len(<<h>> \o q) = Len(q) + 1
           /\ ToSet(<<h>> \o q) = ToSet(q) \cup {h}
<1> DEFINE c == <<h>> \o q
<1>1. /\ c \in Seq(S) /\ Len(c) = Len(q) + 1 /\ Len(q) \in Nat
      /\ c[1] = h /\ \A i \in 1..Len(q) : c[i + 1] = q[i]
  OBVIOUS
<1> HIDE DEF c
<1>2. /\ \A i \in 1..Len(q) : q[i] # h
      /\ ToSet(q) = {q[i] : i \in 1..Len(q)} /\ ToSet(c) = {c[i] : i \in 1..Len(c)}
  BY <1>1, ToSetFacts
<1>3. \A i \in 1..Len(c) : i = 1 \/ (i - 1 \in 1..Len(q) /\ c[i] = q[i - 1])
  BY <1>1
<1>4. Distinct(c)
  <2> SUFFICES ASSUME NEW i \in 1..Len(c), NEW j \in 1..Len(c), c[i] = c[j] PROVE i = j
    BY DEF Distinct
  <2>1. CASE i = 1
    BY <2>1, <1>1, <1>2, <1>3
  <2>2. CASE j = 1
    BY <2>2, <1>1, <1>2, <1>3
  <2>3. CASE i # 1 /\ j # 1
    BY <2>3, <1>3 DEF Distinct
  <2> QED BY <2>1, <2>2, <2>3
<1>5. ToSet(c) = ToSet(q) \cup {h}
  <2>1. \A i \in 1..Len(q) : i + 1 \in 1..Len(c)
    BY <1>1
  <2>2. \A i \in 1..Len(c) : c[i] = h \/ c[i] \in ToSet(q)
    BY <1>1, <1>2, <1>3
  <2>3. h \in ToSet(c) /\ \A i \in 1..Len(q) : q[i] \in ToSet(c)
    <3>1. 1 \in 1..Len(c)
      BY <1>1
    <3> QED BY <1>1, <1>2, <2>1, <3>1
  <2> QED BY <1>2, <2>2, <2>3
<1> QED BY <1>1, <1>4, <1>5 DEF c

LEMMA PutFacts ==
    ASSUME NEW q \in Seq(Hashes), Distinct(q), NEW h \in Hashes
    PROVE  /\ Put(q, h) \in Seq(Hashes) /\ Distinct(Put(q, h)) /\ Len(Put(q, h)) <= MaxChunks
           /\ ToSet(Put(q, h)) \subseteq ToSet(q) \cup {h}
<1>0. MaxChunks \in Nat \ {0}
  BY CacheAssumption DEF CacheConfig
<1>1. PICK u \in Seq(Hashes) : u = RemoveFirst(q, h) /\ Distinct(u) /\ ToSet(u) = ToSet(q) \ {h}
  BY RemoveFirstFacts
<1>2. PICK t \in Seq(Hashes) : t = <<h>> \o u /\ Distinct(t) /\ ToSet(t) = ToSet(u) \cup {h} /\ Len(t) = Len(u) + 1
  BY <1>1, ConsFacts
<1>3. PICK n \in 0..Len(t) : n = (IF Len(t) > MaxChunks THEN MaxChunks ELSE Len(t)) /\ n <= MaxChunks
  BY <1>0
<1>4. Put(q, h) = SubSeq(t, 1, n)
  BY <1>1, <1>2, <1>3 DEF Put
<1>5. /\ SubSeq(t, 1, n) \in Seq(Hashes) /\ Len(SubSeq(t, 1, n)) = n
      /\ \A i \in 1..n : SubSeq(t, 1, n)[i] = t[i]
      /\ ToSet(SubSeq(t, 1, n)) = {t[i] : i \in 1..n} /\ ToSet(t) = {t[i] : i \in 1..Len(t)}
  BY SubSeqFacts, ToSetFacts
<1>6. Distinct(SubSeq(t, 1, n))
  BY <1>2, <1>5 DEF Distinct
<1>7. ToSet(SubSeq(t, 1, n)) \subseteq ToSet(t)
  BY <1>5
<1> QED BY <1>1, <1>2, <1>3, <1>4, <1>5, <1>6, <1>7

LEMMA UnitsFacts ==
    ASSUME NEW A \in SUBSET Hashes, NEW B \in SUBSET Hashes
    PROVE  /\ Units(A \cup B) = Units(A) \cup Units(B)
           /\ A \subseteq B => Units(A) \subseteq Units(B)
           /\ A \cap B = {} => Units(A) \cap Units(B) = {}
           /\ Units({}) = {}
<1>1. \A C : Units(C) = UNION {{h} \X (1..Size[h]) : h \in C}
  BY DEF Units
<1>2. \A C, x : x \in Units(C) <=> \E h \in C : x \in {h} \X (1..Size[h])
  BY <1>1
<1>3. \A h, x : x \in {h} \X (1..Size[h]) => x[1] = h
  OBVIOUS
<1> QED BY <1>2, <1>3

LEMMA UnitsOfOne ==
    ASSUME NEW h \in Hashes
    PROVE  IsFiniteSet(Units({h})) /\ Bytes({h}) = Size[h]
<1>1. Size[h] \in Nat \ {0}
  BY CacheAssumption
<1>2. Units({h}) = {h} \X (1..Size[h])
  BY DEF Units
<1>3. IsFiniteSet(1..Size[h]) /\ Cardinality(1..Size[h]) = Size[h]
  BY <1>1, FS_Interval
<1>4. IsFiniteSet({h}) /\ Cardinality({h}) = 1
  BY FS_Singleton
<1> DEFINE n == 1..Size[h]
           one == {h}
<1>8. IsFiniteSet(n) /\ Cardinality(n) = Size[h] /\ IsFiniteSet(one) /\ Cardinality(one) = 1
  BY <1>3, <1>4
<1> HIDE DEF n, one
<1>9. IsFiniteSet(one \X n) /\ Cardinality(one \X n) = Cardinality(one) * Cardinality(n)
  BY <1>8, FS_Product
<1>5. IsFiniteSet({h} \X (1..Size[h])) /\ Cardinality({h} \X (1..Size[h])) = 1 * Size[h]
  BY <1>8, <1>9, Zenon DEF n, one
<1>6. Bytes({h}) = 1 * Size[h]
  BY <1>2, <1>5, Zenon DEF Bytes
<1>7. IsFiniteSet(Units({h}))
  BY <1>2, <1>5, Zenon
<1> QED BY <1>1, <1>6, <1>7

(* Bytes of disjoint sets add up. *)
LEMMA BytesAdd ==
    ASSUME NEW A \in SUBSET Hashes, NEW B \in SUBSET Hashes, A \cap B = {},
           IsFiniteSet(Units(A)), IsFiniteSet(Units(B))
    PROVE  /\ IsFiniteSet(Units(A \cup B)) /\ Bytes(A \cup B) = Bytes(A) + Bytes(B)
           /\ Bytes(A) \in Nat /\ Bytes(B) \in Nat /\ Bytes(A \cup B) \in Nat
<1>1. Units(A \cup B) = Units(A) \cup Units(B) /\ Units(A) \cap Units(B) = {}
  BY UnitsFacts
<1>2. /\ IsFiniteSet(Units(A) \cup Units(B))
      /\ Cardinality(Units(A) \cup Units(B)) = Cardinality(Units(A)) + Cardinality(Units(B)) - Cardinality(Units(A) \cap Units(B))
  BY FS_Union
<1>3. Cardinality(Units(A) \cap Units(B)) = 0
  BY <1>1, FS_EmptySet
<1>4. Cardinality(Units(A)) \in Nat /\ Cardinality(Units(B)) \in Nat
  BY FS_CardinalityType
<1>5. IsFiniteSet(Units(A \cup B)) /\ Cardinality(Units(A \cup B)) = Cardinality(Units(A) \cup Units(B))
  BY <1>1, <1>2, Zenon
<1> QED BY <1>2, <1>3, <1>4, <1>5 DEF Bytes

(* The bytes of a part are at most those of the whole. *)
LEMMA BytesPart ==
    ASSUME NEW B \in SUBSET Hashes, NEW A \in SUBSET B, IsFiniteSet(Units(B))
    PROVE  IsFiniteSet(Units(A)) /\ Bytes(A) \in Nat /\ Bytes(B) \in Nat /\ Bytes(A) <= Bytes(B)
<1>1. Units(A) \in SUBSET Units(B)
  BY UnitsFacts
<1>2. IsFiniteSet(Units(A)) /\ Cardinality(Units(A)) <= Cardinality(Units(B))
  BY <1>1, FS_Subset
<1> QED BY <1>2, FS_CardinalityType DEF Bytes

(* Filling the cache keeps its limits and adds no other object. *)
LEMMA FillKeeps ==
    ASSUME LruInv, NEW h \in Hashes, Fill(h)
    PROVE  LruInv' /\ Cached' \subseteq Cached \cup {h}
<1> DEFINE n == Len(lru)
<1>0. /\ lru \in Seq(Hashes) /\ Distinct(lru) /\ n \in Nat /\ Cached = {lru[i] : i \in 1..n}
      /\ Cached \subseteq Hashes /\ total_size \in Nat /\ MaxBytes \in Nat /\ MaxChunks \in Nat \ {0}
      /\ IsFiniteSet(Units(Cached)) /\ Bytes(Cached) <= total_size /\ Size[h] \in Nat /\ total_size <= MaxBytes
  BY ToSetFacts, CacheAssumption DEF LruInv, Cached, CacheConfig
<1>1. PICK k \in 0..(n + 1) :
        /\ Evicts(h, k)
        /\ IF k > n THEN /\ spinning' = TRUE /\ lru' = <<>> /\ total_size' = total_size - Bytes(Cached)
                    ELSE /\ lru' = Put(SubSeq(lru, 1, n - k), h)
                         /\ total_size' = total_size - Bytes(Oldest(k)) + Size[h]
  BY DEF Fill
<1>2. CASE k > n
  <2>1. lru' = <<>> /\ total_size' = total_size - Bytes(Cached)
    BY <1>1, <1>2
  <2>2. Cached' = {}
    BY <1>0, <2>1, ToSetFacts DEF Cached
  <2>3. Units({}) = {} /\ IsFiniteSet({}) /\ Cardinality({}) = 0
    BY UnitsFacts, FS_EmptySet
  <2>4. IsFiniteSet(Units(Cached)') /\ Bytes(Cached)' = 0
    BY <2>2, <2>3 DEF Bytes, Units
  <2>5. Bytes(Cached) \in Nat
    BY <1>0, BytesPart
  <2>6. lru' \in Seq(Hashes) /\ Distinct(lru') /\ Len(lru') = 0
    BY <2>1 DEF Distinct
  <2> QED BY <1>0, <2>1, <2>2, <2>4, <2>5, <2>6 DEF LruInv
<1>3. CASE ~(k > n)
  <2>0. k \in 0..n /\ 1 \in 1..(n + 1) /\ n - k \in 0..n /\ n - k + 1 \in 1..(n + 1)
    BY <1>0, <1>3
  <2> DEFINE kept == SubSeq(lru, 1, n - k)
  <2>1. /\ kept \in Seq(Hashes) /\ Len(kept) = n - k /\ (\A i \in 1..(n - k) : kept[i] = lru[i])
        /\ ToSet(kept) = {lru[i] : i \in 1..(n - k)}
    BY <1>0, <2>0, SubSeqFacts
  <2>2. Oldest(k) = {lru[i] : i \in (n - k + 1)..n}
    <3>1. PICK m \in 1..(n + 1) : m = n - k + 1 /\ m <= n + 1
      BY <2>0
    <3>2. n \in 0..n
      BY <1>0
    <3>3. ToSet(SubSeq(lru, m, n)) = {lru[i] : i \in m..n}
      BY <1>0, <3>1, <3>2, SubSeqFacts
    <3>4. Oldest(k) = ToSet(SubSeq(lru, m, n))
      BY <3>1 DEF Oldest
    <3> QED BY <3>1, <3>3, <3>4
  <2>3. lru' = Put(kept, h) /\ total_size' = total_size - Bytes(Oldest(k)) + Size[h]
    BY <1>1, <1>3
  <2> HIDE DEF kept
  <2>4. Distinct(kept)
    <3>1. \A i \in 1..(n - k) : i \in 1..n
      BY <1>0, <2>0
    <3>2. SUFFICES ASSUME NEW i \in 1..(n - k), NEW j \in 1..(n - k), kept[i] = kept[j] PROVE i = j
      BY <2>1 DEF Distinct
    <3>3. i \in 1..n /\ j \in 1..n /\ lru[i] = lru[j]
      BY <2>1, <3>1, <3>2
    <3> QED BY <1>0, <3>3 DEF Distinct
  <2>5. /\ lru' \in Seq(Hashes) /\ Distinct(lru') /\ Len(lru') <= MaxChunks
        /\ Cached' \subseteq ToSet(kept) \cup {h}
    BY <2>1, <2>3, <2>4, PutFacts DEF Cached
  <2>6. ToSet(kept) \subseteq Cached /\ Oldest(k) \subseteq Cached /\ ToSet(kept) \cap Oldest(k) = {}
    <3>1. \A i \in 1..(n - k), j \in (n - k + 1)..n : i \in 1..n /\ j \in 1..n /\ i # j
      BY <2>0
    <3>2. \A i, j \in 1..n : lru[i] = lru[j] => i = j
      BY <1>0 DEF Distinct
    <3>3. /\ \A x \in ToSet(kept) : \E i \in 1..(n - k) : x = lru[i]
          /\ \A x \in Oldest(k) : \E i \in (n - k + 1)..n : x = lru[i]
          /\ \A i \in 1..n : lru[i] \in Cached
      BY <1>0, <2>1, <2>2
    <3>4. /\ \A i \in 1..(n - k) : i \in 1..n
          /\ \A i \in (n - k + 1)..n : i \in 1..n
      BY <1>0, <2>0
    <3>5. \A x \in ToSet(kept), y \in Oldest(k) : x # y
      BY <3>1, <3>2, <3>3
    <3> QED BY <3>3, <3>4, <3>5
  <2>7. /\ IsFiniteSet(Units(ToSet(kept))) /\ IsFiniteSet(Units(Oldest(k)))
        /\ Bytes(ToSet(kept)) \in Nat /\ Bytes(Oldest(k)) \in Nat
    BY <1>0, <2>6, BytesPart
  <2>8. Bytes(ToSet(kept)) + Bytes(Oldest(k)) <= Bytes(Cached) /\ Bytes(Cached) \in Nat
    <3> DEFINE u == ToSet(kept) \cup Oldest(k)
    <3>1. u \in SUBSET Cached
      BY <2>6
    <3>2. Bytes(u) = Bytes(ToSet(kept)) + Bytes(Oldest(k))
      BY <1>0, <2>6, <2>7, BytesAdd
    <3> HIDE DEF u
    <3>3. Bytes(u) <= Bytes(Cached) /\ Bytes(Cached) \in Nat
      BY <1>0, <3>1, BytesPart
    <3> QED BY <3>2, <3>3
  <2>9. PICK m \in SUBSET Hashes : m = Cached'
    BY <1>0, <2>5, <2>6
  <2>10. IsFiniteSet(Units(m)) /\ Bytes(m) \in Nat /\ Bytes(m) <= Bytes(ToSet(kept)) + Size[h]
    <3> DEFINE old == ToSet(kept) \ {h}
    <3>1. old \in SUBSET ToSet(kept) /\ old \in SUBSET Hashes /\ ToSet(kept) \in SUBSET Hashes
      BY <1>0, <2>6
    <3>2. IsFiniteSet(Units(old)) /\ Bytes(old) \in Nat /\ Bytes(old) <= Bytes(ToSet(kept))
      BY <2>7, <3>1, BytesPart
    <3>3. IsFiniteSet(Units({h})) /\ Bytes({h}) = Size[h]
      BY UnitsOfOne
    <3>4. old \cap {h} = {} /\ {h} \in SUBSET Hashes
      OBVIOUS
    <3>5. IsFiniteSet(Units(old \cup {h})) /\ Bytes(old \cup {h}) = Bytes(old) + Size[h]
      BY <3>1, <3>2, <3>3, <3>4, BytesAdd
    <3> DEFINE u == old \cup {h}
    <3>6. m \in SUBSET u /\ u \in SUBSET Hashes
      BY <2>5, <2>9, <3>1
    <3>7. IsFiniteSet(Units(u)) /\ Bytes(u) = Bytes(old) + Size[h]
      BY <3>5
    <3> HIDE DEF u, old
    <3>8. IsFiniteSet(Units(m)) /\ Bytes(m) \in Nat /\ Bytes(m) <= Bytes(u)
      BY <3>6, <3>7, BytesPart
    <3> QED BY <1>0, <2>7, <3>2, <3>7, <3>8
  <2>11. total_size + Size[h] <= MaxBytes + Bytes(Oldest(k))
    BY <1>1, <2>0 DEF Evicts, Fits
  <2>12. total_size' \in Nat /\ total_size' <= MaxBytes /\ Bytes(m) <= total_size'
    <3>1. \A total, size, max, all, rest, gone, new \in Nat :
            total + size <= max + gone /\ rest + gone <= all /\ all <= total /\ new <= rest + size
            => /\ total - gone + size \in Nat /\ total - gone + size <= max
               /\ new <= total - gone + size
      OBVIOUS
    <3> QED BY <1>0, <2>3, <2>7, <2>8, <2>10, <2>11, <3>1
  <2>13. Units(Cached)' = Units(m) /\ Bytes(Cached)' = Bytes(m)
    BY <2>9 DEF Units, Bytes
  <2> QED BY <2>5, <2>6, <2>10, <2>12, <2>13 DEF LruInv
<1> QED BY <1>2, <1>3

(* The cache, step by step. *)
LEMMA LruKept == ASSUME CacheInv, [CacheNext]_cvars PROVE LruInv'
<1>0. LruInv /\ reading \in [Readers -> Hashes \cup {NoHash}]
  BY DEF CacheInv, ReadInv
<1>1. ASSUME UNCHANGED <<lru, total_size>> PROVE LruInv'
  BY <1>0, <1>1 DEF LruInv, Cached, Bytes, Units
<1>2. CASE clear_cache
  <2>1. lru' = <<>> /\ total_size' = 0
    BY <1>2 DEF clear_cache
  <2>2. lru' \in Seq(Hashes) /\ Len(lru') = 0 /\ Cached' = {} /\ Distinct(lru')
    BY <2>1, <1>0, ToSetFacts DEF Cached, LruInv, Distinct
  <2>3. Units({}) = {} /\ IsFiniteSet({}) /\ Cardinality({}) = 0
    BY UnitsFacts, FS_EmptySet
  <2>4. IsFiniteSet(Units(Cached)') /\ Bytes(Cached)' = 0
    BY <2>2, <2>3 DEF Bytes, Units
  <2>5. MaxBytes \in Nat /\ MaxChunks \in Nat
    BY CacheAssumption DEF CacheConfig
  <2> QED BY <2>1, <2>2, <2>4, <2>5 DEF LruInv
<1>3. ASSUME NEW r \in Readers, LookupCache(r) PROVE LruInv'
  <2>1. CASE reading[r] \notin Cached
    BY <1>1, <1>3, <2>1 DEF LookupCache
  <2>2. CASE reading[r] \in Cached
    <3>0. lru \in Seq(Hashes) /\ Distinct(lru) /\ Cached \subseteq Hashes
      BY <1>0, ToSetFacts DEF LruInv, Cached
    <3>1. PICK h \in Hashes : h = reading[r]
      BY <2>2, <3>0
    <3>2. lru' = <<h>> \o RemoveFirst(lru, h) /\ total_size' = total_size
      BY <1>3, <2>2, <3>1 DEF LookupCache
    <3>3. PICK u \in Seq(Hashes) : /\ u = RemoveFirst(lru, h) /\ Distinct(u) /\ ToSet(u) = ToSet(lru) \ {h}
                                   /\ Len(u) \in Nat /\ Len(u) <= Len(lru)
      BY <3>0, RemoveFirstFacts
    <3>4. lru' = <<h>> \o u
      BY <3>2, <3>3
    <3>5. /\ lru' \in Seq(Hashes) /\ Distinct(lru') /\ ToSet(lru') = ToSet(u) \cup {h}
          /\ Len(lru') = Len(u) + 1
      BY <3>3, <3>4, ConsFacts
    <3>6. Cached' = Cached
      BY <2>2, <3>1, <3>3, <3>5 DEF Cached
    <3>7. Len(u) < Len(lru)
      BY <2>2, <3>0, <3>1, <3>3, RemoveFirstFacts, ToSetFacts DEF Cached
    <3>8. Len(lru') <= MaxChunks
      <4>1. Len(lru) \in Nat /\ Len(lru) <= MaxChunks /\ MaxChunks \in Nat
        BY <1>0, CacheAssumption DEF LruInv, CacheConfig
      <4> QED BY <3>3, <3>5, <3>7, <4>1
    <3>9. Units(Cached)' = Units(Cached) /\ Bytes(Cached)' = Bytes(Cached)
      BY <3>6 DEF Units, Bytes
    <3> QED BY <1>0, <3>2, <3>5, <3>8, <3>9 DEF LruInv
  <2> QED BY <2>1, <2>2
<1>4. ASSUME NEW r \in Readers, FillFromRead(r) PROVE LruInv'
  <2>1. PICK h \in Hashes : h = reading[r]
    BY <1>4 DEF FillFromRead, CacheInv, ReadInv
  <2> QED BY <1>0, <1>4, <2>1, FillKeeps DEF FillFromRead
<1>5. ASSUME NEW t \in Running, FillFromWrite(t) PROVE LruInv'
  <2>1. PICK h \in Hashes : h = tasks[t].hash
    BY DEF Running, Spawned, CacheInv, BatchInv, BatchTask
  <2> QED BY <1>0, <1>5, <2>1, FillKeeps DEF FillFromWrite
<1> QED
  BY <1>1, <1>2, <1>3, <1>4, <1>5
     DEF CacheNext, cvars, cache, StartRead, prefetch, ReadIndividual, write, delete, write_batch, flush_batch,
         SpawnWrite, AwaitHandle, WriteIndividual

(* What Append and Tail make of the set of elements. *)
LEMMA QueueSets ==
    ASSUME NEW S, NEW q \in Seq(S), NEW x \in S
    PROVE  /\ Append(q, x) \in Seq(S) /\ ToSet(Append(q, x)) = ToSet(q) \cup {x}
           /\ q # <<>> => Head(q) \in S /\ Tail(q) \in Seq(S) /\ ToSet(q) = ToSet(Tail(q)) \cup {Head(q)}
<1>1. ToSet(q) = {q[i] : i \in 1..Len(q)}
  BY ToSetFacts
<1>2. Append(q, x) \in Seq(S) /\ ToSet(Append(q, x)) = ToSet(q) \cup {x}
  <2> DEFINE c == Append(q, x)
  <2>1. /\ c \in Seq(S) /\ Len(q) \in Nat /\ Len(c) = Len(q) + 1
        /\ (\A i \in 1..Len(q) : c[i] = q[i]) /\ c[Len(q) + 1] = x
    BY AppendFacts
  <2> HIDE DEF c
  <2>2. ToSet(c) = {c[i] : i \in 1..Len(c)}
    BY <2>1, ToSetFacts
  <2>3. /\ \A i \in 1..Len(q) : i \in 1..Len(c)
        /\ Len(q) + 1 \in 1..Len(c)
        /\ \A i \in 1..Len(c) : i \in 1..Len(q) \/ i = Len(q) + 1
    BY <2>1
  <2>4. \A y : (\E i \in 1..Len(c) : y = c[i]) <=> (\E i \in 1..Len(q) : y = q[i]) \/ y = x
    BY <2>1, <2>3
  <2>5. ToSet(c) = ToSet(q) \cup {x}
    BY <1>1, <2>2, <2>4
  <2> QED BY <2>1, <2>5 DEF c
<1>3. ASSUME q # <<>>
      PROVE  Head(q) \in S /\ Tail(q) \in Seq(S) /\ ToSet(q) = ToSet(Tail(q)) \cup {Head(q)}
  <2> DEFINE c == Tail(q)
  <2>1. /\ Len(q) \in Nat \ {0} /\ Head(q) = q[1] /\ Head(q) \in S
        /\ c \in Seq(S) /\ Len(c) = Len(q) - 1
        /\ \A i \in 1..Len(c) : c[i] = q[i + 1] /\ i + 1 \in 1..Len(q)
    BY <1>3, TailFacts
  <2> HIDE DEF c
  <2>2. ToSet(c) = {c[i] : i \in 1..Len(c)}
    BY <2>1, ToSetFacts
  <2>3. 1 \in 1..Len(q) /\ \A i \in 1..Len(q) : i = 1 \/ (i - 1 \in 1..Len(c) /\ q[i] = c[i - 1])
    <3>1. \A i \in 1..Len(q) : i = 1 \/ (i - 1 \in 1..Len(c) /\ (i - 1) + 1 = i)
      BY <2>1
    <3> QED BY <2>1, <3>1
  <2>4. \A y : (\E i \in 1..Len(q) : y = q[i]) <=> (\E i \in 1..Len(c) : y = c[i]) \/ y = q[1]
    BY <2>1, <2>3
  <2>5. ToSet(q) = ToSet(c) \cup {q[1]}
    BY <1>1, <2>2, <2>4
  <2> QED BY <2>1, <2>5 DEF c
<1> QED BY <1>2, <1>3

(* The batches. *)
LEMMA BatchKept == ASSUME CacheInv, [CacheNext]_cvars PROVE BatchInv'
<1>0. BatchInv /\ NoTask \notin BatchTask
  BY CacheAssumption DEF CacheInv
<1>1. ASSUME UNCHANGED <<pending, flushing, tasks, owed>> PROVE BatchInv'
  BY <1>0, <1>1 DEF BatchInv
<1>2. ASSUME NEW h \in Hashes, write_batch(h) PROVE BatchInv'
  <2>1. CASE h \in dedup
    BY <1>1, <1>2, <2>1 DEF write_batch
  <2>2. CASE h \notin dedup
    <3>1. Append(pending, h) \in Seq(Hashes) /\ ToSet(Append(pending, h)) = ToSet(pending) \cup {h}
      BY <1>0, QueueSets DEF BatchInv
    <3>2. flushing = <<>> /\ ToSet(flushing) = {} /\ <<>> \in Seq(Hashes)
      BY <1>0, <1>2, ToSetFacts DEF BatchInv, write_batch, LockFree
    <3>3. /\ owed' = owed \cup {h} /\ tasks' = tasks
          /\ \/ pending' = <<>> /\ flushing' = Append(pending, h)
             \/ pending' = Append(pending, h) /\ flushing' = flushing
      BY <1>2, <2>2 DEF write_batch, StartFlush
    <3>4. pending' \in Seq(Hashes) /\ flushing' \in Seq(Hashes)
      BY <1>0, <3>1, <3>2, <3>3 DEF BatchInv
    <3>5. \A x \in ToSet(pending) \cup {h} : x \in ToSet(pending') \cup ToSet(flushing')
      BY <3>1, <3>3
    <3> QED BY <1>0, <3>2, <3>3, <3>4, <3>5 DEF BatchInv
  <2> QED BY <2>1, <2>2
<1>3. CASE flush_batch
  <2>1. flushing = <<>> /\ ToSet(flushing) = {} /\ <<>> \in Seq(Hashes)
    BY <1>0, <1>3, ToSetFacts DEF BatchInv, flush_batch, LockFree
  <2>2. flushing' = pending /\ pending' = <<>> /\ UNCHANGED <<tasks, owed>>
    BY <1>3 DEF flush_batch, StartFlush
  <2> QED BY <1>0, <2>1, <2>2 DEF BatchInv
<1>4. CASE SpawnWrite
  <2>1. PICK t \in Slots \ Spawned :
          tasks' = [tasks EXCEPT ![t] = [hash |-> Head(flushing), step |-> "write"]]
    BY <1>4 DEF SpawnWrite
  <2>2. flushing # <<>> /\ flushing' = Tail(flushing) /\ UNCHANGED <<pending, owed>>
    BY <1>4 DEF SpawnWrite
  <2>3. /\ Head(flushing) \in Hashes /\ flushing' \in Seq(Hashes)
        /\ ToSet(flushing) = ToSet(flushing') \cup {Head(flushing)}
    BY <1>0, <2>2, QueueSets DEF BatchInv
  <2>4. PICK x \in BatchTask : x = [hash |-> Head(flushing), step |-> "write"]
                                /\ x.hash = Head(flushing) /\ x.step = "write"
    <3>1. PICK h \in Hashes : h = Head(flushing)
      BY <2>3
    <3>2. [hash |-> h, step |-> "write"] \in BatchTask
      BY DEF BatchTask
    <3> QED BY <3>1, <3>2
  <2>5. /\ tasks' \in [Slots -> BatchTask \cup {NoTask}] /\ tasks'[t] = x /\ tasks[t] = NoTask
        /\ \A u \in Slots : u # t => tasks'[u] = tasks[u]
    BY <1>0, <2>1, <2>4 DEF BatchInv, Spawned
  <2>6. x # NoTask /\ pending' = pending /\ owed' = owed
    BY <1>0, <2>2, <2>4
  <2>7. ASSUME NEW h \in owed
        PROVE  \/ h \in ToSet(pending) \/ h \in ToSet(flushing')
               \/ \E u \in Slots : tasks'[u] # NoTask /\ tasks'[u].hash = h /\ tasks'[u].step = "write"
    <3>1. CASE h = Head(flushing)
      BY <2>4, <2>5, <2>6, <3>1
    <3>2. CASE h # Head(flushing) /\ h \in ToSet(flushing)
      BY <2>3, <3>2
    <3>3. CASE h \notin ToSet(flushing) /\ h \notin ToSet(pending)
      <4>1. PICK u \in Slots : tasks[u] # NoTask /\ tasks[u].hash = h /\ tasks[u].step = "write"
        BY <1>0, <3>3 DEF BatchInv
      <4> QED BY <4>1, <2>5
    <3> QED BY <3>1, <3>2, <3>3
  <2> QED BY <1>0, <2>3, <2>5, <2>6, <2>7 DEF BatchInv
<1>5. ASSUME NEW t \in Running, WriteIndividual(t) PROVE BatchInv'
  <2>0. t \in Slots /\ tasks[t] \in BatchTask
    BY <1>0 DEF Running, Spawned, BatchInv
  <2>1. PICK x \in BatchTask \cup {NoTask} : tasks' = [tasks EXCEPT ![t] = x]
    <3>1. \A p \in {"fill", "ok", "error"} : [tasks[t] EXCEPT !.step = p] \in BatchTask
      BY <2>0 DEF BatchTask
    <3>2. \/ tasks' = [tasks EXCEPT ![t] = [tasks[t] EXCEPT !.step = "fill"]]
          \/ \E p \in {"ok", "error"} :
                tasks' = [tasks EXCEPT ![t] = IF t \in ToSet(handles) THEN [tasks[t] EXCEPT !.step = p] ELSE NoTask]
      BY <1>5 DEF WriteIndividual, Ends
    <3> QED BY <3>1, <3>2
  <2>2. owed' = owed \ {tasks[t].hash} /\ UNCHANGED <<pending, flushing>>
    BY <1>5 DEF WriteIndividual
  <2>3. tasks' \in [Slots -> BatchTask \cup {NoTask}] /\ \A u \in Slots : u # t => tasks'[u] = tasks[u]
    BY <1>0, <2>1 DEF BatchInv
  <2> QED BY <1>0, <2>2, <2>3 DEF BatchInv
<1>6. ASSUME NEW t \in Running, FillFromWrite(t) PROVE BatchInv'
  <2>0. t \in Slots /\ tasks[t] \in BatchTask /\ tasks[t].step = "fill" /\ UNCHANGED <<pending, flushing, owed>>
    BY <1>0, <1>6 DEF Running, Spawned, BatchInv, FillFromWrite
  <2>1. CASE tasks' = tasks
    BY <1>1, <2>0, <2>1
  <2>2. CASE Ends(t, "ok")
    <3>1. [tasks[t] EXCEPT !.step = "ok"] \in BatchTask
      BY <2>0 DEF BatchTask
    <3>2. PICK x \in BatchTask \cup {NoTask} : tasks' = [tasks EXCEPT ![t] = x]
      BY <2>2, <3>1 DEF Ends
    <3>3. tasks' \in [Slots -> BatchTask \cup {NoTask}] /\ \A u \in Slots : u # t => tasks'[u] = tasks[u]
      BY <1>0, <3>2 DEF BatchInv
    <3> QED BY <1>0, <2>0, <3>3 DEF BatchInv
  <2> QED BY <1>6, <2>1, <2>2 DEF FillFromWrite
<1>7. CASE AwaitHandle
  <2>0. tasks[Head(handles)].step \in {"ok", "error"} /\ UNCHANGED <<pending, flushing, owed>>
    BY <1>7 DEF AwaitHandle
  <2>1. /\ tasks' \in [Slots -> BatchTask \cup {NoTask}]
        /\ \A u \in Slots : tasks[u] # NoTask /\ tasks[u].step = "write" => tasks'[u] = tasks[u]
    <3>1. CASE tasks' = [tasks EXCEPT ![Head(handles)] = NoTask]
      BY <1>0, <2>0, <3>1 DEF BatchInv
    <3>2. CASE tasks' = [u \in Slots |-> IF u \in Running THEN tasks[u] ELSE NoTask]
      BY <1>0, <3>2 DEF BatchInv, Running, Spawned
    <3> QED BY <1>7, <3>1, <3>2 DEF AwaitHandle
  <2> QED BY <1>0, <2>0, <2>1 DEF BatchInv
<1> QED
  BY <1>1, <1>2, <1>3, <1>4, <1>5, <1>6, <1>7
     DEF CacheNext, cvars, batch, StartRead, prefetch, LookupCache, ReadIndividual, FillFromRead, clear_cache,
         write, delete

(* The reads. *)
LEMMA ReadsKept == ASSUME CacheInv, [CacheNext]_cvars PROVE ReadInv'
<1>0. ReadInv /\ LruInv /\ BatchInv /\ NoHash \notin Hashes
  BY CacheAssumption DEF CacheInv
<1>a. lru \in Seq(Hashes) /\ Cached \subseteq Hashes
  BY <1>0, ToSetFacts DEF LruInv, Cached
<1>b. ASSUME UNCHANGED <<objects, stored, reads>>, Cached' \subseteq stored, tasks' = tasks PROVE ReadInv'
  BY <1>0, <1>b DEF ReadInv, reads
<1>c. ASSUME NEW r \in Readers, UNCHANGED <<objects, stored, tasks>>, Cached' \subseteq stored,
             \/ \E h \in Hashes : read(r, h)
             \/ \E a \in {"data", "missing", "error"} : Done(r, a)
             \/ reading[r] \in Hashes /\ rpc' = [rpc EXCEPT ![r] = "disk"] /\ UNCHANGED <<reading, result>>
             \/ reading[r] \in stored /\ rpc' = [rpc EXCEPT ![r] = "fill"] /\ UNCHANGED <<reading, result>>
      PROVE  ReadInv'
  BY <1>0, <1>c DEF ReadInv, read, Done
<1>d. ASSUME UNCHANGED <<reads, lru>>, objects \subseteq objects' \cup stored, objects' \subseteq stored',
             stored \subseteq stored', stored' \subseteq Hashes,
             \A t \in Slots : tasks'[t] # NoTask /\ tasks'[t].step = "fill" => tasks'[t].hash \in stored'
      PROVE  ReadInv'
  BY <1>0, <1>d DEF ReadInv, reads, Cached
<1>1. ASSUME NEW r \in Readers, NEW h \in Hashes, StartRead(r, h) \/ prefetch(r, h) PROVE ReadInv'
  BY <1>0, <1>1, <1>c DEF StartRead, prefetch, cache, batch, Cached, ReadInv
<1>2. ASSUME NEW r \in Readers, LookupCache(r) PROVE ReadInv'
  <2>1. reading[r] \in Hashes
    BY <1>0, <1>2 DEF LookupCache, ReadInv
  <2>2. Cached' \subseteq stored
    <3>1. CASE reading[r] \in Cached
      <4>1. lru' = <<reading[r]>> \o RemoveFirst(lru, reading[r])
        BY <1>2, <3>1 DEF LookupCache
      <4>2. PICK u \in Seq(Hashes) : u = RemoveFirst(lru, reading[r]) /\ Distinct(u) /\ ToSet(u) = ToSet(lru) \ {reading[r]}
        BY <1>0, RemoveFirstFacts DEF LruInv
      <4>3. ToSet(lru') = ToSet(u) \cup {reading[r]}
        BY <2>1, <4>1, <4>2, ConsFacts
      <4> QED BY <1>0, <3>1, <4>2, <4>3 DEF Cached, ReadInv
    <3>2. CASE reading[r] \notin Cached
      BY <1>0, <1>2, <3>2 DEF LookupCache, Cached, ReadInv
    <3> QED BY <3>1, <3>2
  <2> QED BY <1>2, <1>c, <2>1, <2>2 DEF LookupCache, batch
<1>3. ASSUME NEW r \in Readers, ReadIndividual(r) PROVE ReadInv'
  <2>1. reading[r] \in objects => reading[r] \in stored
    BY <1>0 DEF ReadInv
  <2>2. Cached' \subseteq stored
    BY <1>0, <1>3 DEF ReadInv, ReadIndividual, cache, Cached
  <2> QED BY <1>3, <1>c, <2>1, <2>2 DEF ReadIndividual, batch
<1>4. ASSUME NEW r \in Readers, FillFromRead(r) PROVE ReadInv'
  <2>1. reading[r] \in stored /\ reading[r] \in Hashes
    BY <1>0, <1>4 DEF ReadInv, FillFromRead
  <2>2. Cached' \subseteq stored
    BY <1>0, <1>4, <2>1, FillKeeps DEF FillFromRead, ReadInv
  <2>3. CASE spinning'
    BY <1>4, <1>b, <2>2, <2>3 DEF FillFromRead, batch, reads
  <2>4. CASE ~spinning'
    BY <1>4, <1>c, <2>2, <2>4 DEF FillFromRead, batch
  <2> QED BY <2>3, <2>4
<1>5. CASE clear_cache
  <2>1. Cached' = {}
    BY <1>5, <1>a, ToSetFacts DEF clear_cache, Cached
  <2> QED BY <1>5, <1>b, <2>1 DEF clear_cache, batch
<1>6. ASSUME NEW h \in Hashes, write(h) \/ delete(h) \/ write_batch(h) PROVE ReadInv'
  BY <1>0, <1>6, <1>d DEF write, delete, write_batch, cache, batch, ReadInv
<1>7. CASE flush_batch
  BY <1>0, <1>7, <1>d DEF flush_batch, cache, ReadInv
<1>8. CASE SpawnWrite
  <2>1. PICK t \in Slots \ Spawned :
          tasks' = [tasks EXCEPT ![t] = [hash |-> Head(flushing), step |-> "write"]]
    BY <1>8 DEF SpawnWrite
  <2>2. \A u \in Slots : tasks'[u] # NoTask /\ tasks'[u].step = "fill" => tasks'[u].hash \in stored
    BY <1>0, <2>1 DEF ReadInv, BatchInv
  <2> QED BY <1>0, <1>8, <1>d, <2>2 DEF SpawnWrite, cache, ReadInv
<1>9. ASSUME NEW t \in Running, WriteIndividual(t) PROVE ReadInv'
  <2>0. t \in Slots /\ tasks[t] \in BatchTask /\ tasks[t].hash \in Hashes
    BY <1>0 DEF Running, Spawned, BatchInv, BatchTask
  <2>1. \A p \in {"fill", "ok", "error"} : /\ [tasks[t] EXCEPT !.step = p].step = p
                                           /\ [tasks[t] EXCEPT !.step = p].hash = tasks[t].hash
    BY <2>0 DEF BatchTask
  <2>2. \/ /\ UNCHANGED <<objects, stored>>
           /\ \E p \in {"ok", "error"} :
                tasks' = [tasks EXCEPT ![t] = IF t \in ToSet(handles) THEN [tasks[t] EXCEPT !.step = p] ELSE NoTask]
        \/ /\ objects' = objects \cup {tasks[t].hash} /\ stored' = stored \cup {tasks[t].hash}
           /\ tasks' = [tasks EXCEPT ![t] = [tasks[t] EXCEPT !.step = "fill"]]
    BY <1>9 DEF WriteIndividual, Ends
  <2>3. \A u \in Slots : tasks'[u] # NoTask /\ tasks'[u].step = "fill" => tasks'[u].hash \in stored'
    <3> SUFFICES ASSUME NEW u \in Slots, tasks'[u] # NoTask, tasks'[u].step = "fill"
                 PROVE  tasks'[u].hash \in stored'
      OBVIOUS
    <3>1. tasks \in [Slots -> BatchTask \cup {NoTask}]
      BY <1>0 DEF BatchInv
    <3>2. CASE u # t
      <4>1. tasks'[u] = tasks[u]
        BY <2>2, <3>1, <3>2
      <4> QED BY <1>0, <2>2, <4>1 DEF ReadInv
    <3>3. CASE u = t
      <4>1. \/ \E p \in {"ok", "error"} : tasks'[t] = NoTask \/ tasks'[t] = [tasks[t] EXCEPT !.step = p]
            \/ tasks'[t] = [tasks[t] EXCEPT !.step = "fill"] /\ stored' = stored \cup {tasks[t].hash}
        BY <2>0, <2>2, <3>1
      <4> QED BY <2>1, <3>3, <4>1
    <3> QED BY <3>2, <3>3
  <2>4. /\ objects \subseteq objects' /\ objects' \subseteq stored' /\ stored \subseteq stored' /\ stored' \subseteq Hashes
        /\ UNCHANGED <<reads, lru>>
    BY <1>0, <1>9, <2>0, <2>2 DEF ReadInv, WriteIndividual, cache
  <2> QED BY <1>d, <2>3, <2>4
<1>10. ASSUME NEW t \in Running, FillFromWrite(t) PROVE ReadInv'
  <2>0. t \in Slots /\ tasks[t] \in BatchTask /\ tasks[t].hash \in stored /\ tasks[t].hash \in Hashes
    BY <1>0, <1>10 DEF Running, Spawned, BatchInv, BatchTask, ReadInv, FillFromWrite
  <2>1. Cached' \subseteq stored
    BY <1>0, <1>10, <2>0, FillKeeps DEF FillFromWrite, ReadInv
  <2>2. tasks' = tasks \/ tasks' = [tasks EXCEPT ![t] = IF t \in ToSet(handles) THEN [tasks[t] EXCEPT !.step = "ok"] ELSE NoTask]
    BY <1>10 DEF FillFromWrite, Ends
  <2>3. \A u \in Slots : tasks'[u] # NoTask /\ tasks'[u].step = "fill" => tasks'[u].hash \in stored
    <3>1. [tasks[t] EXCEPT !.step = "ok"].step = "ok"
      BY <2>0 DEF BatchTask
    <3>2. tasks \in [Slots -> BatchTask \cup {NoTask}]
      BY <1>0 DEF BatchInv
    <3>3. \A u \in Slots : \/ tasks'[u] = tasks[u] \/ tasks'[u] = NoTask
                           \/ tasks'[u] = [tasks[t] EXCEPT !.step = "ok"]
      BY <2>0, <2>2, <3>2
    <3> QED BY <1>0, <3>1, <3>3 DEF ReadInv
  <2>4. UNCHANGED <<objects, stored, reads>>
    BY <1>10 DEF FillFromWrite
  <2> QED BY <1>0, <2>1, <2>3, <2>4 DEF ReadInv, reads
<1>11. CASE AwaitHandle
  <2>1. \A u \in Slots : tasks'[u] # NoTask => tasks'[u] = tasks[u]
    <3>1. CASE tasks' = [tasks EXCEPT ![Head(handles)] = NoTask]
      BY <1>0, <3>1 DEF BatchInv
    <3>2. CASE tasks' = [u \in Slots |-> IF u \in Running THEN tasks[u] ELSE NoTask]
      BY <3>2
    <3> QED BY <1>11, <3>1, <3>2 DEF AwaitHandle
  <2>2. \A u \in Slots : tasks'[u] # NoTask /\ tasks'[u].step = "fill" => tasks'[u].hash \in stored
    BY <1>0, <2>1 DEF ReadInv
  <2> QED BY <1>0, <1>11, <1>d, <2>2 DEF AwaitHandle, cache, ReadInv
<1>12. CASE UNCHANGED cvars
  BY <1>0, <1>12, <1>b DEF cvars, cache, batch, Cached, ReadInv
<1> QED BY <1>1, <1>2, <1>3, <1>4, <1>5, <1>6, <1>7, <1>8, <1>9, <1>10, <1>11, <1>12 DEF CacheNext

LEMMA CacheInvariant == CacheSpec => []CacheInv
<1>1. CacheInit => CacheInv
  <2> SUFFICES ASSUME CacheInit PROVE CacheInv
    OBVIOUS
  <2>1. lru = <<>> /\ lru \in Seq(Hashes) /\ Len(lru) = 0 /\ Cached = {} /\ Distinct(lru)
    <3>1. lru = <<>> /\ <<>> \in Seq(Hashes)
      BY DEF CacheInit
    <3>2. ToSet(<<>>) = {}
      BY <3>1, ToSetFacts
    <3>3. Cached = {}
      BY <3>1, <3>2 DEF Cached
    <3> QED BY <3>1, <3>3 DEF Distinct
  <2>2. Units({}) = {} /\ IsFiniteSet({}) /\ Cardinality({}) = 0
    BY UnitsFacts, FS_EmptySet
  <2>3. IsFiniteSet(Units(Cached)) /\ Bytes(Cached) = 0
    BY <2>1, <2>2 DEF Bytes
  <2>4. LruInv
    BY <2>1, <2>3, CacheAssumption DEF LruInv, CacheInit, CacheConfig
  <2>5. BatchInv
    BY DEF BatchInv, CacheInit
  <2>6. ReadInv
    BY <2>1, CacheAssumption DEF ReadInv, CacheInit
  <2> QED BY <2>4, <2>5, <2>6 DEF CacheInv
<1>2. CacheInv /\ [CacheNext]_cvars => CacheInv'
  BY LruKept, BatchKept, ReadsKept DEF CacheInv
<1> QED BY <1>1, <1>2, PTL DEF CacheSpec

(* The byte count of the chunk cache is never below what the cache holds and
   never above max_size_bytes, although put replaces and drops entries without
   counting them; and no object that write_batch returned is lost by the
   failure of another one of its batch. *)
THEOREM CacheAndBatchesSound == CacheSpec => []CacheAndBatchSound
<1>1. CacheInv => CacheAndBatchSound
  <2> SUFFICES ASSUME CacheInv PROVE CacheAndBatchSound
    OBVIOUS
  <2>1. CacheWithinLimits
    BY DEF CacheInv, LruInv, CacheWithinLimits
  <2>2. OnlyOwnFailureLoses
    <3> SUFFICES ASSUME NEW h \in owed, h \notin ToSet(pending), h \notin ToSet(flushing)
                 PROVE  h \in {tasks[t].hash : t \in Running}
      BY DEF OnlyOwnFailureLoses
    <3>1. PICK t \in Slots : tasks[t] # NoTask /\ tasks[t].hash = h /\ tasks[t].step = "write"
      BY DEF CacheInv, BatchInv
    <3>2. t \in Running
      BY <3>1 DEF Running, Spawned
    <3> QED BY <3>1, <3>2
  <2> QED BY <2>1, <2>2 DEF CacheAndBatchSound
<1> QED BY <1>1, CacheInvariant, PTL

(* The store with its cache, dedup index, batches and prefetch implements
   BlobStore: a read reports an object missing only when it has no file, and
   returns data only of an object that was stored, however reads, writes,
   deletions and evictions interleave. *)
THEOREM ReadsStayHonest == CacheSpec => ReadsAreHonest
<1>1. CacheInit => Blobs!BlobInit
  BY DEF CacheInit, Blobs!BlobInit
<1>2. CacheInv /\ [CacheNext]_cvars => [Blobs!BlobNext]_(Blobs!bvars)
  <2> SUFFICES ASSUME CacheInv, [CacheNext]_cvars PROVE [Blobs!BlobNext]_(Blobs!bvars)
    OBVIOUS
  <2>0. ReadInv /\ BatchInv /\ NoHash \notin Hashes
    BY CacheAssumption DEF CacheInv
  <2>a. ASSUME UNCHANGED <<objects, stored, reading, result>> PROVE UNCHANGED Blobs!bvars
    BY <2>a DEF Blobs!bvars
  <2>b. ASSUME NEW r \in Readers, NEW a \in {"data", "missing", "error"}, Done(r, a), UNCHANGED <<objects, stored>>,
               rpc[r] # "idle", a = "data" => reading[r] \in stored, a = "missing" => reading[r] \notin objects
        PROVE  Blobs!BlobNext
    BY <2>0, <2>b DEF Done, Blobs!BlobNext, Blobs!Answer, ReadInv
  <2>1. ASSUME NEW r \in Readers, NEW h \in Hashes, StartRead(r, h) \/ prefetch(r, h) PROVE Blobs!BlobNext
    BY <2>0, <2>1 DEF StartRead, prefetch, read, Blobs!BlobNext, Blobs!Ask, ReadInv
  <2>2. ASSUME NEW r \in Readers, LookupCache(r) PROVE [Blobs!BlobNext]_(Blobs!bvars)
    BY <2>0, <2>2, <2>a, <2>b DEF LookupCache, ReadInv
  <2>3. ASSUME NEW r \in Readers, ReadIndividual(r) PROVE [Blobs!BlobNext]_(Blobs!bvars)
    BY <2>0, <2>3, <2>a, <2>b DEF ReadIndividual, ReadInv
  <2>4. ASSUME NEW r \in Readers, FillFromRead(r) PROVE [Blobs!BlobNext]_(Blobs!bvars)
    BY <2>0, <2>4, <2>a, <2>b DEF FillFromRead, ReadInv
  <2>5. ASSUME NEW h \in Hashes, write(h) \/ delete(h) PROVE [Blobs!BlobNext]_(Blobs!bvars)
    <3>1. UNCHANGED <<reading, result>>
      BY <2>5 DEF write, delete, reads
    <3>2. \/ UNCHANGED <<objects, stored>>
          \/ objects' = objects \cup {h} /\ stored' = stored \cup {h}
          \/ objects' = objects \ {h} /\ stored' = stored
      BY <2>5 DEF write, delete
    <3> QED BY <2>a, <3>1, <3>2 DEF Blobs!BlobNext, Blobs!Put, Blobs!Remove
  <2>6. ASSUME NEW t \in Running, WriteIndividual(t) PROVE [Blobs!BlobNext]_(Blobs!bvars)
    <3>1. UNCHANGED <<reading, result>>
      BY <2>6 DEF WriteIndividual, reads
    <3>2. PICK h \in Hashes : h = tasks[t].hash
      BY <2>0 DEF Running, Spawned, BatchInv, BatchTask
    <3>3. \/ UNCHANGED <<objects, stored>>
          \/ objects' = objects \cup {h} /\ stored' = stored \cup {h}
      BY <2>6, <3>2 DEF WriteIndividual
    <3> QED BY <2>a, <3>1, <3>3 DEF Blobs!BlobNext, Blobs!Put
  <2> QED
    BY <2>a, <2>1, <2>2, <2>3, <2>4, <2>5, <2>6
       DEF CacheNext, cvars, reads, clear_cache, write_batch, flush_batch, SpawnWrite, AwaitHandle, FillFromWrite
<1> QED BY <1>1, <1>2, CacheInvariant, PTL DEF CacheSpec, ReadsAreHonest, Blobs!BlobSpec

(***************************************************************************)
(* Resumable writes.                                                       *)
(***************************************************************************)
(* The two kinds of interrupted writes alone. *)
ResumableSpec == ResumableInit /\ [][PartialNext \/ AtomicNext]_rvars

(* The file of an open transfer holds what was counted, unless it is torn, *)
(* and is only ever taken away from a transfer that has expired.           *)
PartialInv ==
    /\ received \in [Transfers -> 0..Pieces] /\ temp \in [Transfers -> Seq(Nat) \cup {NoFile}]
    /\ partial \in [Transfers -> {"none", "open", "expired", "not found", "hash mismatch", "size mismatch",
                                  "stored", "failed", "cancelled"}]
    /\ age \in [Transfers -> {"young", "expired", "old"}] /\ torn \in [Transfers -> BOOLEAN]
    /\ \A t \in Transfers : partial[t] = "none" => received[t] = 0
    /\ \A t \in Transfers : partial[t] = "open" /\ received[t] > 0 =>
        /\ age[t] # "old" => temp[t] # NoFile
        /\ ~torn[t] /\ temp[t] # NoFile => temp[t] = Part(1, received[t])
    /\ RefusedOnlyIfTorn

(* A temporary file is a beginning of the content, and a writer has counted *)
(* what is in it.                                                           *)
AtomicInv ==
    /\ atemp # NoFile => \E n \in 0..Pieces : atemp = Part(1, n)
    /\ awriter # NoFile => awriter \in 0..Pieces /\ atemp = Part(1, awriter)
    /\ asynced \in Nat /\ CommittedIsWhole

LEMMA SeqEqual ==
    ASSUME NEW S, NEW a \in Seq(S), NEW b \in Seq(S), Len(a) = Len(b), \A i \in 1..Len(a) : a[i] = b[i]
    PROVE  a = b
  OBVIOUS

LEMMA PartFacts ==
    ASSUME NEW i \in Nat \ {0}, NEW j \in Nat, i <= j + 1
    PROVE  /\ Part(i, j) \in Seq(Nat) /\ Len(Part(i, j)) = j - i + 1 /\ Part(i, j) # NoFile
           /\ \A k \in 1..(j - i + 1) : Part(i, j)[k] = k + i - 1
<1>1. j - i + 1 \in Nat
  OBVIOUS
<1>2. \A k \in 1..(j - i + 1) : k + i - 1 \in Nat
  OBVIOUS
<1>3. Part(i, j) \in [1..(j - i + 1) -> Nat]
  BY <1>2 DEF Part
<1>4. Part(i, j) \in Seq(Nat) /\ Len(Part(i, j)) = j - i + 1
  BY <1>1, <1>3
<1> QED BY <1>4, ResumableAssumption DEF Part

LEMMA PartFrom ==
    ASSUME NEW r \in Nat, NEW n \in Nat
    PROVE  /\ Part(r + 1, r + n) \in Seq(Nat) /\ Len(Part(r + 1, r + n)) = n
           /\ \A k \in 1..n : Part(r + 1, r + n)[k] = k + r
           /\ Part(1, n) \in Seq(Nat) /\ Len(Part(1, n)) = n
           /\ \A k \in 1..n : Part(1, n)[k] = k
<1>1. r + 1 \in Nat \ {0} /\ r + n \in Nat /\ r + 1 <= r + n + 1 /\ (r + n) - (r + 1) + 1 = n
  OBVIOUS
<1>2. /\ Part(r + 1, r + n) \in Seq(Nat) /\ Len(Part(r + 1, r + n)) = (r + n) - (r + 1) + 1
      /\ \A k \in 1..((r + n) - (r + 1) + 1) : Part(r + 1, r + n)[k] = k + (r + 1) - 1
  BY <1>1, PartFacts
<1>3. 1 \in Nat \ {0} /\ 1 <= n + 1 /\ n - 1 + 1 = n
  OBVIOUS
<1>4. /\ Part(1, n) \in Seq(Nat) /\ Len(Part(1, n)) = n - 1 + 1
      /\ \A k \in 1..(n - 1 + 1) : Part(1, n)[k] = k + 1 - 1
  BY <1>3, PartFacts
<1> QED BY <1>1, <1>2, <1>3, <1>4

LEMMA PartsJoin ==
    ASSUME NEW r \in Nat, NEW n \in Nat
    PROVE  /\ Part(1, r) \o Part(r + 1, r + n) = Part(1, r + n)
           /\ <<>> \o Part(1, n) = Part(1, n)
           /\ Append(Part(1, r), r + 1) = Part(1, r + 1)
           /\ n <= r => SubSeq(Part(1, r), 1, n) = Part(1, n)
           /\ Part(1, 0) = <<>>
           /\ \A q \in Seq(Nat) : q \o Part(r + 1, r) = q /\ q \o Part(r + 1, r + n) \in Seq(Nat)
<1> DEFINE a == Part(1, r)
           b == Part(r + 1, r + n)
           c == Part(1, r + n)
           d == Part(1, n)
           e == Part(1, r + 1)
           z == Part(r + 1, r)
<1>1. /\ a \in Seq(Nat) /\ Len(a) = r /\ \A k \in 1..r : a[k] = k
      /\ b \in Seq(Nat) /\ Len(b) = n /\ \A k \in 1..n : b[k] = k + r
  BY PartFrom
<1>2. /\ c \in Seq(Nat) /\ Len(c) = r + n /\ \A k \in 1..(r + n) : c[k] = k
      /\ d \in Seq(Nat) /\ Len(d) = n /\ \A k \in 1..n : d[k] = k
      /\ e \in Seq(Nat) /\ Len(e) = r + 1 /\ \A k \in 1..(r + 1) : e[k] = k
      /\ z \in Seq(Nat) /\ Len(z) = 0
  <2>1. r + n \in Nat /\ r + 1 \in Nat /\ 0 \in Nat /\ r + 0 = r
    OBVIOUS
  <2>2. z \in Seq(Nat) /\ Len(z) = 0
    <3>1. Part(r + 1, r + 0) \in Seq(Nat) /\ Len(Part(r + 1, r + 0)) = 0
      BY <2>1, PartFrom
    <3> QED BY <2>1, <3>1
  <2> QED BY <2>1, <2>2, PartFrom
<1>3. Part(1, 0) = <<>>
  BY DEF Part
<1> HIDE DEF a, b, c, d, e, z
<1>4. a \o b = c
  <2>1. a \o b \in Seq(Nat) /\ Len(a \o b) = r + n /\ \A k \in 1..(r + n) : (a \o b)[k] = k
    <3>1. /\ a \o b \in Seq(Nat) /\ Len(a \o b) = Len(a) + Len(b)
          /\ \A k \in 1..(Len(a) + Len(b)) : (a \o b)[k] = IF k <= Len(a) THEN a[k] ELSE b[k - Len(a)]
      BY <1>1, ConcatFacts
    <3>2. \A k \in 1..(r + n) : /\ k <= r => k \in 1..r
                                /\ ~(k <= r) => k - r \in 1..n /\ (k - r) + r = k
      OBVIOUS
    <3> QED BY <1>1, <3>1, <3>2
  <2> QED BY <1>2, <2>1, SeqEqual
<1>5. <<>> \o d = d
  BY <1>2
<1>6. Append(a, r + 1) = e
  <2>1. Append(a, r + 1) \in Seq(Nat) /\ Len(Append(a, r + 1)) = r + 1 /\ \A k \in 1..(r + 1) : Append(a, r + 1)[k] = k
    BY <1>1
  <2> QED BY <1>2, <2>1, SeqEqual
<1>7. ASSUME n <= r PROVE SubSeq(a, 1, n) = d
  <2>1. SubSeq(a, 1, n) \in Seq(Nat) /\ Len(SubSeq(a, 1, n)) = n /\ \A k \in 1..n : SubSeq(a, 1, n)[k] = k
    BY <1>1, <1>7
  <2> QED BY <1>2, <2>1, SeqEqual
<1>8. \A q \in Seq(Nat) : q \o z = q /\ q \o b \in Seq(Nat)
  <2>1. z = <<>>
    BY <1>2
  <2> QED BY <1>1, <2>1
<1> QED BY <1>3, <1>4, <1>5, <1>6, <1>7, <1>8 DEF a, b, c, d, e, z

LEMMA ContentIsPart == Content = Part(1, Pieces) /\ Content \in Seq(Nat) /\ Len(Content) = Pieces
<1>1. Pieces \in Nat \ {0}
  BY ResumableAssumption
<1>2. Content = Part(1, Pieces)
  BY <1>1 DEF Content, Part
<1> QED BY <1>1, <1>2, PartFacts

LEMMA PartialKept == ASSUME PartialInv, [PartialNext]_pvars PROVE PartialInv'
<1>0. Pieces \in Nat \ {0} /\ NoFile \notin Seq(Nat)
  BY ResumableAssumption
<1>p. Pieces > 0
  <2>1. Pieces \in Nat /\ Pieces # 0
    BY <1>0, Zenon
  <2> QED BY <2>1
<1>b. ASSUME NEW t \in Transfers
      PROVE  /\ received[t] \in 0..Pieces /\ temp[t] \in Seq(Nat) \cup {NoFile}
             /\ partial[t] = "none" => received[t] = 0
             /\ partial[t] = "open" /\ received[t] > 0 =>
                /\ age[t] # "old" => temp[t] # NoFile
                /\ ~torn[t] /\ temp[t] # NoFile => temp[t] = Part(1, received[t])
  BY DEF PartialInv
<1>1. ASSUME NEW t \in Transfers, start_resumable_write(t) PROVE PartialInv'
  <2>1. /\ partial[t] = "none" /\ partial' = [partial EXCEPT ![t] = "open"] /\ received[t] = 0
        /\ UNCHANGED <<received, temp, age, torn, finals>>
    BY <1>1, <1>b DEF start_resumable_write
  <2>2. received[t] # Pieces /\ ~(received[t] > 0)
    BY <1>0, <2>1
  <2> QED BY <2>1, <2>2 DEF PartialInv, RefusedOnlyIfTorn
<1>o. ASSUME NEW t \in Transfers, received[t] = 0 \/ temp[t] # NoFile
      PROVE  Opened(t) \in Seq(Nat) /\ received[t] \in 0..Pieces
  <2>1. <<>> \in Seq(Nat)
    OBVIOUS
  <2> QED BY <1>b, <1>o, <2>1 DEF Opened
<1>2. ASSUME NEW t \in Transfers, continue_resumable_write(t) PROVE PartialInv'
  <2>1. PICK n \in 1..(Pieces - received[t]) :
          /\ temp' = [temp EXCEPT ![t] = Opened(t) \o Part(received[t] + 1, received[t] + n)]
          /\ received' = [received EXCEPT ![t] = received[t] + n]
    BY <1>2 DEF continue_resumable_write
  <2>2. /\ partial[t] = "open" /\ (received[t] = 0 \/ temp[t] # NoFile) /\ UNCHANGED <<partial, age, torn, finals>>
    BY <1>2 DEF continue_resumable_write
  <2>3. PICK r \in 0..Pieces : r = received[t] /\ Opened(t) \in Seq(Nat)
    BY <1>o, <2>2
  <2>4. n \in Nat \ {0} /\ r + n \in 0..Pieces /\ r \in Nat /\ r + n > 0
    BY <1>0, <2>1, <2>3
  <2>5. PICK f \in Seq(Nat) : f = Opened(t) \o Part(r + 1, r + n)
    BY <2>3, <2>4, PartsJoin
  <2>6. ~torn[t] => f = Part(1, r + n)
    <3>1. CASE r = 0
      BY <2>3, <2>4, <2>5, <3>1, PartsJoin DEF Opened
    <3>2. CASE r # 0 /\ ~torn[t]
      <4>1. Opened(t) = Part(1, r)
        <5>1. r > 0
          BY <2>3, <3>2
        <5> QED BY <1>b, <2>2, <2>3, <3>2, <5>1 DEF Opened
      <4>2. Part(1, r) \o Part(r + 1, r + n) = Part(1, r + n)
        BY <2>4, PartsJoin
      <4> QED BY <2>5, <4>1, <4>2
    <3> QED BY <3>1, <3>2
  <2>7. temp' = [temp EXCEPT ![t] = f] /\ received' = [received EXCEPT ![t] = r + n]
    BY <2>1, <2>3, <2>5
  <2> QED BY <1>0, <2>2, <2>4, <2>6, <2>7 DEF PartialInv, RefusedOnlyIfTorn
<1>3. ASSUME NEW t \in Transfers, ContinueFails(t) PROVE PartialInv'
  <2>1. PICK n \in 0..(Pieces - received[t]) :
          /\ temp' = [temp EXCEPT ![t] = Opened(t) \o Part(received[t] + 1, received[t] + n)]
          /\ torn' = [torn EXCEPT ![t] = torn[t] \/ (n > 0 /\ received[t] > 0)]
    BY <1>3 DEF ContinueFails
  <2>2. /\ partial[t] = "open" /\ (received[t] = 0 \/ temp[t] # NoFile) /\ UNCHANGED <<partial, age, received, finals>>
    BY <1>3 DEF ContinueFails
  <2>3. PICK r \in 0..Pieces : r = received[t] /\ Opened(t) \in Seq(Nat)
    BY <1>o, <2>2
  <2>4. n \in Nat /\ r \in Nat
    BY <1>0, <2>1, <2>3
  <2>5. PICK f \in Seq(Nat) : f = Opened(t) \o Part(r + 1, r + n)
    BY <2>3, <2>4, PartsJoin
  <2>6. PICK left \in BOOLEAN : left = (torn[t] \/ (n > 0 /\ r > 0))
    BY DEF PartialInv
  <2>7. temp' = [temp EXCEPT ![t] = f] /\ torn' = [torn EXCEPT ![t] = left]
    BY <2>1, <2>3, <2>5, <2>6
  <2>8. r > 0 /\ ~left => f = Part(1, r)
    <3>1. CASE r > 0 /\ ~left
      <4>1. n = 0 /\ ~torn[t]
        <5>1. ~torn[t] /\ ~(n > 0 /\ r > 0)
          BY <2>6, <3>1, Zenon
        <5> QED BY <2>4, <3>1, <5>1
      <4>2. Opened(t) = Part(1, r)
        BY <1>b, <2>2, <2>3, <3>1, <4>1 DEF Opened
      <4>3. f = Opened(t)
        <5>1. r + n = r
          BY <2>4, <4>1
        <5>2. \A q \in Seq(Nat) : q \o Part(r + 1, r) = q
          BY <2>4, PartsJoin
        <5> QED BY <2>3, <2>5, <5>1, <5>2
      <4> QED BY <4>2, <4>3
    <3> QED BY <3>1
  <2>9. torn[t] => left
    BY <2>6
  <2> QED BY <1>0, <2>2, <2>3, <2>7, <2>8, <2>9 DEF PartialInv, RefusedOnlyIfTorn
<1>4. ASSUME NEW t \in Transfers, complete_resumable_write(t) PROVE PartialInv'
  <2>1. PICK v \in {"expired", "not found", "hash mismatch", "size mismatch", "stored"} : v = Verdict(t)
    BY DEF Verdict
  <2>2. /\ partial[t] = "open" /\ partial' = [partial EXCEPT ![t] = v] /\ temp' = [temp EXCEPT ![t] = NoFile]
        /\ finals \subseteq finals' /\ (v = "stored" => temp[t] \in finals')
        /\ UNCHANGED <<received, age, torn>>
    BY <1>4, <2>1 DEF complete_resumable_write
  <2>3. v = "stored" /\ t \in Checked => Content \in finals'
    BY <2>1, <2>2 DEF Verdict
  <2>4. received[t] = Pieces /\ ~torn[t] => v \notin {"hash mismatch", "size mismatch", "not found"}
    <3>1. CASE received[t] = Pieces /\ ~torn[t] /\ age[t] = "young"
      <4>1. temp[t] = Content /\ temp[t] # NoFile
        <5>1. received[t] > 0
          <6>1. received[t] = Pieces
            BY <3>1, Zenon
          <6> QED BY <1>p, <6>1, Zenon
        <5> QED BY <1>b, <2>2, <3>1, <5>1, ContentIsPart
      <4> QED BY <2>1, <4>1, ContentIsPart DEF Verdict
    <3>2. CASE age[t] # "young"
      BY <2>1, <3>2 DEF Verdict
    <3> QED BY <3>1, <3>2
  <2> QED BY <1>0, <2>2, <2>3, <2>4 DEF PartialInv, RefusedOnlyIfTorn
<1>5. ASSUME NEW t \in Transfers, CompleteFails(t) PROVE PartialInv'
  BY <1>0, <1>5 DEF PartialInv, CompleteFails, RefusedOnlyIfTorn
<1>6. ASSUME NEW t \in Transfers, cancel_resumable_write(t) PROVE PartialInv'
  BY <1>0, <1>6 DEF PartialInv, cancel_resumable_write, RefusedOnlyIfTorn
<1>7. ASSUME NEW t \in Transfers, TimePasses(t) PROVE PartialInv'
  BY <1>0, <1>7 DEF PartialInv, TimePasses, RefusedOnlyIfTorn
<1>8. CASE cleanup_expired_partials
  BY <1>0, <1>8 DEF PartialInv, cleanup_expired_partials, RefusedOnlyIfTorn
<1>9. CASE UNCHANGED pvars
  BY <1>9 DEF PartialInv, pvars, RefusedOnlyIfTorn
<1> QED BY <1>1, <1>2, <1>3, <1>4, <1>5, <1>6, <1>7, <1>8, <1>9 DEF PartialNext

LEMMA AtomicKept == ASSUME AtomicInv, [AtomicNext]_avars PROVE AtomicInv'
<1>0. Pieces \in Nat \ {0} /\ NoFile \notin Seq(Nat) /\ NoFile \notin Nat
  BY ResumableAssumption
<1>a. \A n \in 0..Pieces : Part(1, n) \in Seq(Nat) /\ Part(1, n) # NoFile /\ Len(Part(1, n)) = n
  BY <1>0, PartFacts
<1>1. CASE NewWriter
  BY <1>0, <1>1, PartsJoin DEF AtomicInv, NewWriter, CommittedIsWhole
<1>2. CASE AWrite
  <2>1. PICK n \in 0..Pieces : n = awriter /\ n < Pieces /\ atemp = Part(1, n)
    BY <1>2 DEF AWrite, AtomicInv
  <2>2. n + 1 \in 0..Pieces /\ atemp' = Part(1, n + 1) /\ awriter' = n + 1 /\ UNCHANGED <<afinal, asynced>>
    <3>1. n \in Nat /\ n + 1 \in 0..Pieces
      BY <1>0, <2>1
    <3>2. Append(Part(1, n), n + 1) = Part(1, n + 1)
      BY <3>1, PartsJoin
    <3> QED BY <1>2, <2>1, <3>1, <3>2 DEF AWrite
  <2> QED BY <2>2 DEF AtomicInv, CommittedIsWhole
<1>3. CASE AFlush
  <2>1. asynced' \in Nat
    BY <1>0, <1>a, <1>3 DEF AFlush, AtomicInv
  <2> QED BY <1>3, <2>1 DEF AFlush, AtomicInv, CommittedIsWhole
<1>4. CASE ACommit
  <2>1. afinal' = Content
    BY <1>0, <1>4, ContentIsPart DEF ACommit, AtomicInv
  <2> QED BY <1>4, <2>1 DEF ACommit, AtomicInv, CommittedIsWhole
<1>5. CASE AAbort
  BY <1>5 DEF AAbort, AtomicInv, CommittedIsWhole
<1>6. CASE ACrash
  <2>1. PICK r \in 0..Pieces : atemp = Part(1, r) /\ r \in Nat
    BY <1>0, <1>6 DEF ACrash, AtomicInv
  <2>2. PICK n \in asynced..Len(atemp) : atemp' = SubSeq(atemp, 1, n)
    BY <1>6 DEF ACrash
  <2>3. n \in 0..Pieces /\ n \in Nat /\ n <= r
    BY <1>0, <1>a, <2>1, <2>2 DEF AtomicInv
  <2>4. atemp' = Part(1, n)
    BY <2>1, <2>2, <2>3, PartsJoin
  <2> QED BY <1>6, <2>3, <2>4 DEF ACrash, AtomicInv, CommittedIsWhole
<1>7. CASE AResume
  BY <1>0, <1>a, <1>7 DEF AResume, AtomicInv, CommittedIsWhole
<1>8. CASE AAbandon
  BY <1>8 DEF AAbandon, AtomicInv, CommittedIsWhole
<1>9. CASE UNCHANGED avars
  BY <1>9 DEF AtomicInv, avars, CommittedIsWhole
<1> QED BY <1>1, <1>2, <1>3, <1>4, <1>5, <1>6, <1>7, <1>8, <1>9 DEF AtomicNext

(* A resumable write that got all its bytes is refused only if a failed call
   had left bytes uncounted, what is stored under an expected hash is that
   content, and an AtomicWriter that crashed and resumed any number of times
   commits the whole content, each piece once. *)
THEOREM ResumedWritesAreWhole == ResumableSpec => []ResumedIsWhole
<1>1. ResumableInit => PartialInv /\ AtomicInv
  BY ResumableAssumption DEF ResumableInit, PartialInv, AtomicInv, RefusedOnlyIfTorn, CommittedIsWhole
<1>2. PartialInv /\ AtomicInv /\ [PartialNext \/ AtomicNext]_rvars => (PartialInv /\ AtomicInv)'
  <2> SUFFICES ASSUME PartialInv, AtomicInv, [PartialNext \/ AtomicNext]_rvars PROVE PartialInv' /\ AtomicInv'
    OBVIOUS
  <2>1. [PartialNext]_pvars /\ [AtomicNext]_avars
    BY DEF rvars, pvars, avars, PartialNext, start_resumable_write, continue_resumable_write, ContinueFails,
           complete_resumable_write, CompleteFails, cancel_resumable_write, TimePasses, cleanup_expired_partials,
           AtomicNext, NewWriter, AWrite, AFlush, ACommit, AAbort, ACrash, AResume, AAbandon
  <2> QED BY <2>1, PartialKept, AtomicKept
<1>3. PartialInv /\ AtomicInv => ResumedIsWhole
  BY DEF PartialInv, AtomicInv, ResumedIsWhole
<1> QED BY <1>1, <1>2, <1>3, PTL DEF ResumableSpec

(***************************************************************************)
(* The integrity scan and streamed batches.                                *)
(***************************************************************************)
(* The scan and the batches beside it. *)
ScanSpec == ScanInit /\ [][ScanNext]_svars

Walks == [at : {"idle", "list"}, todo : SUBSET Digests]

Looks == [at : {"file"}, of : Digests, todo : SUBSET Digests]

(* What the scan reads now is in one history or the other. *)
VerdictInv ==
    /\ blob \in [Digests -> {"none", "whole", "damaged"}]
    /\ report \in [Digests -> {"unseen", "verified", "corrupted", "error"}]
    /\ \A b \in Digests : IF blob[b] = "whole" THEN b \in whole ELSE b \in broken
    /\ scan \in Walks \cup Looks
    /\ ScanIsJust

(* A stream that is through has left its object in place; the streams      *)
(* before the one awaited are through.                                     *)
Streams == [of : Digests, at : {"waits", "runs", "ok", "error"}]

StreamsInv ==
    /\ stream \in Seq(Streams) /\ awaited \in Nat
    /\ \A i \in 1..Len(stream) : stream[i].at = "ok" => stream[i].of \in placed
    /\ awaited # NoBatch => /\ awaited \in 1..Len(stream) /\ batch_result = "none"
                            /\ \A i \in 1..(awaited - 1) : stream[i].at = "ok"
    /\ batch_result = "ok" => \A i \in 1..Len(stream) : stream[i].at = "ok"

LEMMA ScanKinds ==
    ASSUME VerdictInv
    PROVE  /\ scan.at = "list" => scan \in Walks
           /\ scan.at = "file" => scan \in Looks /\ scan.of \in Digests /\ scan.todo \subseteq Digests
           /\ scan.todo \subseteq Digests
  BY DEF VerdictInv, Walks, Looks

LEMMA StreamTypes ==
    ASSUME StreamsInv
    PROVE  /\ stream \in Seq(Streams) /\ DOMAIN stream = 1..Len(stream) /\ Len(stream) \in Nat
           /\ \A i \in 1..Len(stream) : stream[i] \in Streams /\ stream[i].of \in Digests
           /\ awaited \in Nat
<1>1. stream \in Seq(Streams) /\ awaited \in Nat
  BY DEF StreamsInv
<1>2. DOMAIN stream = 1..Len(stream) /\ Len(stream) \in Nat /\ \A i \in 1..Len(stream) : stream[i] \in Streams
  BY <1>1
<1>3. \A x \in Streams : x.of \in Digests
  BY DEF Streams
<1> QED BY <1>1, <1>2, <1>3

LEMMA VerdictsKept == ASSUME VerdictInv, StreamsInv, [ScanNext]_svars PROVE VerdictInv'
<1>a. ASSUME NEW b \in Digests, NEW to \in {"none", "whole", "damaged"}, SetBlob(b, to), UNCHANGED scanvars
      PROVE  VerdictInv'
  BY <1>a DEF VerdictInv, SetBlob, scanvars, ScanIsJust
<1>b. ASSUME UNCHANGED <<blob, report, hits, whole, broken>>, scan' \in Walks \cup Looks PROVE VerdictInv'
  BY <1>b DEF VerdictInv, ScanIsJust
<1>c. ASSUME UNCHANGED <<blob, scanvars, whole, broken>> PROVE VerdictInv'
  BY <1>c DEF VerdictInv, scanvars, ScanIsJust
<1>1. ASSUME NEW n \in 1..MaxStreams, NEW bs \in [1..n -> Digests], write_batch_stream(bs) PROVE VerdictInv'
  BY <1>1, <1>c DEF write_batch_stream
<1>2. ASSUME NEW i \in DOMAIN stream, SpawnStream(i) PROVE VerdictInv'
  BY <1>2, <1>c DEF SpawnStream
<1>3. ASSUME NEW i \in DOMAIN stream, NEW ok \in BOOLEAN, write_stream(i, ok) PROVE VerdictInv'
  <2>1. stream[i].of \in Digests
    BY <1>3, StreamTypes
  <2> QED BY <1>3, <1>a, <1>c, <2>1 DEF write_stream
<1>4. CASE AwaitStream
  BY <1>4, <1>c DEF AwaitStream
<1>5. ASSUME NEW b \in Digests, RemoveBlob(b) \/ Decay(b) \/ ReadBlob(b) \/ EvictBlob(b) PROVE VerdictInv'
  BY <1>5, <1>a, <1>c DEF RemoveBlob, Decay, ReadBlob, EvictBlob
<1>6. CASE verify_integrity
  <2>1. scan' \in Walks
    BY <1>6 DEF verify_integrity, Walks, Present
  <2> QED BY <1>6, <2>1 DEF VerdictInv, verify_integrity, ScanIsJust
<1>7. ASSUME NEW b \in Digests, Relist(b) PROVE VerdictInv'
  <2>1. scan \in Walks
    BY <1>7, ScanKinds DEF Relist
  <2>2. scan' \in Walks
    BY <1>7, <2>1 DEF Relist, Walks
  <2> QED BY <1>7, <1>b, <2>2 DEF Relist
<1>8. ASSUME NEW b \in Digests, verify_single_object(b) PROVE VerdictInv'
  <2>1. scan \in Walks
    BY <1>8, ScanKinds DEF verify_single_object
  <2>2. scan' \in Walks \cup Looks
    BY <1>8, <2>1 DEF verify_single_object, Walks, Looks
  <2>3. CASE b \notin held
    BY <1>8, <1>b, <2>2, <2>3 DEF verify_single_object
  <2>4. CASE b \in held
    <3>1. /\ report' = [report EXCEPT ![b] = "verified"] /\ hits' = hits \cup {b}
          /\ UNCHANGED <<blob, whole, broken>>
      BY <1>8, <2>4 DEF verify_single_object
    <3> QED BY <2>2, <3>1 DEF VerdictInv, ScanIsJust
  <2> QED BY <2>3, <2>4
<1>9. CASE ScanReads
  <2>1. PICK d \in Digests : d = scan.of /\ scan.todo \subseteq Digests
    BY <1>9, ScanKinds DEF ScanReads
  <2>2. PICK v \in {"error", "verified", "corrupted"} :
          /\ report' = [report EXCEPT ![d] = v] /\ (v = "verified" => blob[d] = "whole")
          /\ (v = "corrupted" => blob[d] # "whole")
    BY <1>9, <2>1 DEF ScanReads
  <2>3. scan' \in Walks /\ UNCHANGED <<blob, hits, whole, broken>>
    BY <1>9, <2>1 DEF ScanReads, Walks
  <2> QED BY <2>2, <2>3 DEF VerdictInv, ScanIsJust
<1>10. CASE ScanEnds
  <2>1. scan' \in Walks
    BY <1>10 DEF ScanEnds, NoScan, Walks
  <2> QED BY <1>10, <1>b, <2>1 DEF ScanEnds
<1>11. CASE UNCHANGED svars
  BY <1>11, <1>c DEF svars
<1> QED BY <1>1, <1>2, <1>3, <1>4, <1>5, <1>6, <1>7, <1>8, <1>9, <1>10, <1>11 DEF ScanNext

LEMMA StreamsKept == ASSUME StreamsInv, [ScanNext]_svars PROVE StreamsInv'
<1>0. MaxStreams \in Nat \ {0} /\ NoBatch = MaxStreams + 1
  BY ScanAssumption DEF NoBatch
<1>a. /\ stream \in Seq(Streams) /\ DOMAIN stream = 1..Len(stream) /\ Len(stream) \in Nat
      /\ \A i \in 1..Len(stream) : stream[i] \in Streams /\ stream[i].of \in Digests
      /\ awaited \in Nat
  BY StreamTypes
<1>1. ASSUME NEW n \in 1..MaxStreams, NEW bs \in [1..n -> Digests], write_batch_stream(bs) PROVE StreamsInv'
  <2>1. /\ stream' = [i \in 1..n |-> [of |-> bs[i], at |-> "waits"]] /\ awaited' = 1
        /\ batch_result' = "none" /\ placed' = {}
    BY <1>1 DEF write_batch_stream
  <2>2. n \in Nat /\ \A i \in 1..n : [of |-> bs[i], at |-> "waits"] \in Streams
    BY <1>0 DEF Streams
  <2>3. stream' \in [1..n -> Streams] /\ \A i \in 1..n : stream'[i].at = "waits"
    BY <2>1, <2>2
  <2>4. stream' \in Seq(Streams) /\ Len(stream') = n
    BY <2>2, <2>3
  <2>5. 1 \in 1..n /\ 1..(1 - 1) = {}
    BY <1>0
  <2> QED BY <2>1, <2>3, <2>4, <2>5 DEF StreamsInv
<1>2. ASSUME NEW i \in DOMAIN stream, SpawnStream(i) PROVE StreamsInv'
  <2>1. i \in 1..Len(stream) /\ stream[i].at = "waits" /\ stream' = [stream EXCEPT ![i] = [stream[i] EXCEPT !.at = "runs"]]
        /\ awaited # NoBatch /\ UNCHANGED <<awaited, batch_result, placed>>
    BY <1>2, <1>a DEF SpawnStream, StreamsAt
  <2>2. PICK x \in Streams : x = [stream[i] EXCEPT !.at = "runs"] /\ x.at = "runs" /\ x.of = stream[i].of
    BY <1>a, <2>1 DEF Streams
  <2>3. /\ stream' \in Seq(Streams) /\ Len(stream') = Len(stream)
        /\ \A j \in 1..Len(stream) : stream'[j] = IF j = i THEN x ELSE stream[j]
    BY <1>a, <2>1, <2>2
  <2>4. batch_result = "none"
    BY <2>1 DEF StreamsInv
  <2>5. \A j \in 1..(awaited - 1) : j \in 1..Len(stream) /\ j # i
    BY <1>a, <2>1 DEF StreamsInv
  <2> QED BY <1>a, <2>1, <2>2, <2>3, <2>4, <2>5 DEF StreamsInv
<1>3. ASSUME NEW i \in DOMAIN stream, NEW ok \in BOOLEAN, write_stream(i, ok) PROVE StreamsInv'
  <2>1. PICK s \in {"ok", "error"} :
          /\ stream' = [stream EXCEPT ![i] = [stream[i] EXCEPT !.at = s]]
          /\ s = "ok" => placed' = placed \cup {stream[i].of}
          /\ placed \subseteq placed'
    BY <1>3 DEF write_stream
  <2>2. i \in 1..Len(stream) /\ stream[i].at = "runs" /\ UNCHANGED <<awaited, batch_result>>
    BY <1>3, <1>a DEF write_stream, StreamsAt
  <2>3. PICK x \in Streams : x = [stream[i] EXCEPT !.at = s] /\ x.at = s /\ x.of = stream[i].of
    BY <1>a, <2>1, <2>2 DEF Streams
  <2>4. /\ stream' \in Seq(Streams) /\ Len(stream') = Len(stream)
        /\ \A j \in 1..Len(stream) : stream'[j] = IF j = i THEN x ELSE stream[j]
    BY <1>a, <2>1, <2>2, <2>3
  <2>5. batch_result # "ok"
    BY <2>2 DEF StreamsInv
  <2>6. awaited # NoBatch => \A j \in 1..(awaited - 1) : j \in 1..Len(stream) /\ j # i
    BY <1>a, <2>2 DEF StreamsInv
  <2> QED BY <1>a, <2>1, <2>2, <2>3, <2>4, <2>5, <2>6 DEF StreamsInv
<1>4. CASE AwaitStream
  <2>1. /\ awaited # NoBatch /\ awaited \in 1..Len(stream) /\ batch_result = "none" /\ UNCHANGED <<stream, placed>>
        /\ \A i \in 1..(awaited - 1) : stream[i].at = "ok"
    BY <1>4 DEF AwaitStream, StreamsInv
  <2>2. CASE stream[awaited].at = "error"
    <3>1. batch_result' = "error" /\ awaited' = NoBatch
      BY <1>4, <2>2 DEF AwaitStream, BatchReturns
    <3>2. NoBatch \in Nat
      BY <1>0
    <3> QED BY <2>1, <3>1, <3>2 DEF StreamsInv, NoBatch
  <2>3. CASE stream[awaited].at = "ok"
    <3>1. \A i \in 1..awaited : i \in 1..(awaited - 1) \/ i = awaited
      BY <1>a
    <3>2. \A i \in 1..awaited : stream[i].at = "ok"
      BY <2>1, <2>3, <3>1
    <3>3. CASE awaited = Len(stream)
      <4>1. batch_result' = "ok" /\ awaited' = NoBatch
        BY <1>4, <2>3, <3>3 DEF AwaitStream, BatchReturns
      <4>2. NoBatch \in Nat
        BY <1>0
      <4> QED BY <2>1, <3>2, <3>3, <4>1, <4>2 DEF StreamsInv, NoBatch
    <3>4. CASE awaited # Len(stream)
      <4>1. batch_result' = batch_result /\ awaited' = awaited + 1
        BY <1>4, <2>3, <3>4 DEF AwaitStream
      <4>2. awaited' \in 1..Len(stream) /\ awaited' \in Nat /\ awaited' - 1 = awaited
        <5>1. \A a, n \in Nat : a \in 1..n /\ a # n => a + 1 \in 1..n /\ a + 1 \in Nat /\ (a + 1) - 1 = a
          OBVIOUS
        <5> QED BY <1>a, <2>1, <3>4, <4>1, <5>1
      <4> QED BY <2>1, <3>2, <4>1, <4>2 DEF StreamsInv
    <3> QED BY <3>3, <3>4
  <2> QED BY <1>4, <2>2, <2>3 DEF AwaitStream
<1>5. ASSUME UNCHANGED batchvars PROVE StreamsInv'
  BY <1>5 DEF StreamsInv, batchvars, NoBatch
<1> QED
  BY <1>1, <1>2, <1>3, <1>4, <1>5
     DEF ScanNext, svars, RemoveBlob, Decay, ReadBlob, EvictBlob, Relist, verify_single_object, verify_integrity,
         ScanReads, ScanEnds

(* The integrity scan beside writes, deletions, reads and decay calls an object
   verified or corrupted only if it was so at some moment of the scan or was
   answered by the cache, and write_batch_stream reports success only when
   every one of its objects was put in place. *)
THEOREM ReportsStayTrue == ScanSpec => []ReportsAreTrue
<1>1. ScanInit => VerdictInv /\ StreamsInv
  <2> SUFFICES ASSUME ScanInit PROVE VerdictInv /\ StreamsInv
    OBVIOUS
  <2>1. scan \in Walks
    BY DEF ScanInit, NoScan, Walks
  <2>2. VerdictInv
    BY <2>1 DEF ScanInit, VerdictInv, ScanIsJust
  <2>3. NoBatch \in Nat
    BY ScanAssumption DEF NoBatch
  <2>4. stream = <<>> /\ stream \in Seq(Streams) /\ Len(stream) = 0
    BY DEF ScanInit
  <2>5. StreamsInv
    BY <2>3, <2>4 DEF ScanInit, StreamsInv
  <2> QED BY <2>2, <2>5
<1>2. VerdictInv /\ StreamsInv /\ [ScanNext]_svars => (VerdictInv /\ StreamsInv)'
  BY VerdictsKept, StreamsKept
<1>3. VerdictInv /\ StreamsInv => ReportsAreTrue
  <2> SUFFICES ASSUME VerdictInv, StreamsInv PROVE ReportsAreTrue
    OBVIOUS
  <2>1. DOMAIN stream = 1..Len(stream)
    BY DEF StreamsInv
  <2> QED BY <2>1 DEF VerdictInv, StreamsInv, ReportsAreTrue, StreamedIsStored
<1> QED BY <1>1, <1>2, <1>3, PTL DEF ScanSpec

=============================================================================
